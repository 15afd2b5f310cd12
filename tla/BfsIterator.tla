----------------------------- MODULE BfsIterator -----------------------------
(***************************************************************************)
(* The levelized breadth first search of search/Bfs.cc and the protocol of *)
(* the two searches of search/Search.cc that own one: of arrivals, forward *)
(* and of required times, backward.  (The delay calculator has a module of *)
(* its own, GraphDelayCalc.)  An owner remembers the vertices whose value  *)
(* is no longer right, seeds them, and visits the queue level by level up  *)
(* to a level, with one or several threads.                                *)
(*                                                                         *)
(* A visit of a vertex computes its value (arrivals or required times)     *)
(* from the values of its neighbours, enqueues the vertices that use it    *)
(* and writes it.  Where a search starts the value is written by the       *)
(* seeding itself.  Values are abstracted to "stale": a vertex is stale    *)
(* when a value it was computed from has been written since.               *)
(*                                                                         *)
(* The threads of visitParallel are those of DispatchQueue, used through   *)
(* what TaskPool promises: every chunk is executed, and finishTasks        *)
(* returns when all of them are.                                           *)
(***************************************************************************)
EXTENDS Integers, Sequences, FiniteSets

CONSTANTS
  Vertices,
  Thru,                 (* edges <<from, to>> that searchThru() accepts    *)
  From,                 (* vertices searchFrom() accepts                   *)
  To,                   (* vertices searchTo() accepts                     *)
  Starts,               (* clock pins and inputs, or the endpoints         *)
  Reseeds,              (* pairs <<r, v>>: visiting the reference pin r of *)
                        (* an input delay seeds the delayed pin, whose     *)
                        (* fanout v is enqueued                            *)
  LevelMaps,            (* the levelizations the graph may be given        *)
  MaxLevel,             (* bound: the largest level of a vertex            *)
  ThreadCount,          (* thread_count_                                   *)
  Backward,             (* TRUE for BfsBkwdIterator                        *)
  MaxEntries,           (* bound: entries of one level, nulls included     *)
  Null                  (* the entry remove() leaves behind                *)

Levels == 0 .. MaxLevel
Threads == 0 .. ThreadCount - 1
SearchEdges == {e \in Thru : e[1] \in From /\ e[2] \in To}

(* Levelize gives every edge that is searched through a higher level at    *)
(* its end (module Levelize).                                              *)
Levelled(lv) == \A e \in SearchEdges : lv[e[1]] < lv[e[2]]

(* Nothing is searched into a vertex where a search starts: the searches   *)
(* stop at clock pins, and inputs have no fanin.  Endpoints with a fanout, *)
(* as the enables of gated clocks, are left out.                           *)
Entered == {e[IF Backward THEN 1 ELSE 2] : e \in SearchEdges}

ASSUME BfsAssumption ==
  /\ Thru \subseteq Vertices \X Vertices
  /\ Starts \subseteq Vertices
  /\ Starts \cap Entered = {}
  /\ Reseeds \subseteq Vertices \X Vertices
  /\ MaxLevel \in Nat
  /\ ThreadCount \in Nat \ {0}
  /\ Backward \in BOOLEAN
  /\ MaxEntries \in Nat
  /\ LevelMaps \subseteq [Vertices -> Levels]
  /\ \A lv \in LevelMaps : Levelled(lv)
  /\ Null \notin Vertices

VARIABLES
  graph,                (* the vertices of the graph, but for those deleted *)
  level,                (* Vertex::level()                                 *)
  queue,                (* queue_                                          *)
  inQueue,              (* bit bfs_index_ of each vertex's bfs_in_queue_   *)
  first, last,          (* first_level_, last_level_                       *)
  invalid,              (* invalid_arrivals_ or invalid_requireds_, and    *)
                        (* the vertices the first seeding goes through     *)
  exist,                (* arrivals_exist_ or requireds_exist_             *)
  seeding,              (* the neighbours of the start that was written    *)
                        (* which are still to be enqueued                  *)
  cpc,                  (* where the owner's thread stands                 *)
  toLevel,              (* argument of visit/visitParallel                 *)
  cur,                  (* the level whose vertices are visited            *)
  pos, hi,              (* each thread's next index and the end of its     *)
                        (* chunk of the level                              *)
  now,                  (* the vertex each thread visits, as a set         *)
  todo,                 (* its neighbours that are still to be enqueued    *)
  locking,              (* the one that was not marked as queued           *)
  unwritten,            (* vertices that use the value not yet written     *)
  stale,                (* ghost: vertices computed from an old value      *)
  forgotten,            (* ghost: those of them the owner was not told of  *)
  visits                (* ghost: how often the call visited each vertex   *)

iterVars   == <<queue, inQueue, first, last>>
callVars   == <<exist, seeding, cpc, toLevel, cur>>
threadVars == <<pos, hi, now, todo, locking, unwritten>>
ghosts     == <<stale, forgotten, visits>>
vars == <<graph, level, iterVars, invalid, callVars, threadVars, ghosts>>

------------------------------------------------------------------------------
(* Directions.                                                             *)

IntMax == MaxLevel + 2
LevelMin == IF Backward THEN IntMax ELSE 0
LevelMax == IF Backward THEN 0 ELSE IntMax

LevelLess(l1, l2) == IF Backward THEN l1 > l2 ELSE l1 < l2
LevelLessOrEqual(l1, l2) == IF Backward THEN l1 >= l2 ELSE l1 <= l2
IncrLevel(l) == IF Backward THEN l - 1 ELSE l + 1

(* The vertices enqueueAdjacentVertices considers, and those whose values  *)
(* a visit reads.  A deleted vertex has no edges left.                     *)
Adjacent(v) ==
  {w \in graph : /\ v \in graph
                 /\ (IF Backward THEN <<w, v>> ELSE <<v, w>>) \in SearchEdges}

Sources(v) == {u \in graph : v \in Adjacent(u)}
Reseeded(v) == {w \in graph : <<v, w>> \in Reseeds}

Idle(f) == [k \in Threads |-> f]

Init ==
  /\ graph = Vertices
  /\ level \in LevelMaps
  /\ queue = [l \in Levels |-> <<>>]
  /\ inQueue = [v \in Vertices |-> FALSE]
  /\ first = LevelMax
  /\ last = LevelMin
  /\ invalid = {}
  /\ exist = FALSE
  /\ seeding = {}
  /\ cpc = "idle"
  /\ toLevel = 0
  /\ cur = 0
  /\ pos = Idle(1)
  /\ hi = Idle(0)
  /\ now = Idle({})
  /\ todo = Idle({})
  /\ locking = Idle({})
  /\ unwritten = Idle({})
  /\ stale = {}
  /\ forgotten = {}
  /\ visits = [v \in Vertices |-> 0]

------------------------------------------------------------------------------
(* Mistakes this code could contain; a run must notice each of them.       *)

(* enqueue() does not test the flag again once it has the lock.            *)
EnqueueUnchecked(v) ==
  /\ inQueue' = [inQueue EXCEPT ![v] = TRUE]
  /\ queue' = [queue EXCEPT ![level[v]] = Append(@, v)]
  /\ last' = IF LevelLess(last, level[v]) THEN level[v] ELSE last
  /\ first' = IF LevelLess(level[v], first) THEN level[v] ELSE first

(* enqueue() forgets first_level_ ...                                      *)
EnqueueKeepsFirst(v) ==
  IF inQueue[v]
    THEN UNCHANGED iterVars
    ELSE /\ inQueue' = [inQueue EXCEPT ![v] = TRUE]
         /\ queue' = [queue EXCEPT ![level[v]] = Append(@, v)]
         /\ last' = IF LevelLess(last, level[v]) THEN level[v] ELSE last
         /\ UNCHANGED first

(* A level changes without a call of the observer ...                      *)
RelevelizeUnobserved(lv) ==
  /\ cpc = "idle"
  /\ level' = lv
  /\ UNCHANGED <<graph, iterVars, invalid, callVars, threadVars, ghosts>>

(* ... or the observer only clears the queue.                              *)
RelevelizeForgets(lv) ==
  LET moved == {v \in graph : lv[v] # level[v]}
  IN  /\ cpc = "idle"
      /\ moved # {}
      /\ level' = lv
      /\ queue' = [l \in Levels |->
                     SelectSeq(queue[l], LAMBDA v : v \notin moved)]
      /\ inQueue' = [v \in Vertices |-> inQueue[v] /\ v \notin moved]
      /\ stale' = stale \cup moved
      /\ UNCHANGED <<graph, first, last, invalid, callVars, threadVars,
                     forgotten, visits>>

(* deletePinBefore does not tell the queue.                                *)
DeleteUnremoved(v) ==
  /\ cpc = "idle"
  /\ v \in graph
  /\ graph' = graph \ {v}
  /\ invalid' = invalid \ {v}
  /\ stale' = stale \ {v}
  /\ forgotten' = forgotten \ {v}
  /\ UNCHANGED <<level, iterVars, callVars, threadVars, visits>>

(* first_level_ does not move past the level being visited.                *)
VisitLevelAgain ==
  /\ cpc = "scan"
  /\ LevelLessOrEqual(first, last)
  /\ LevelLessOrEqual(first, toLevel)
  /\ cur' = first
  /\ pos' = Idle(1)
  /\ hi' = [k \in Threads |-> IF k = 0 THEN Len(queue[first]) ELSE 0]
  /\ cpc' = "visit"
  /\ UNCHANGED <<graph, level, iterVars, invalid, exist, seeding, toLevel, now,
                 todo, locking, unwritten, ghosts>>

(* The list of a level is not cleared when its vertices were visited.      *)
LevelKept ==
  /\ cpc = "visit"
  /\ \A k \in Threads : now[k] = {} /\ pos[k] > hi[k]
  /\ cpc' = "scan"
  /\ UNCHANGED <<graph, level, iterVars, invalid, exist, seeding, toLevel, cur,
                 threadVars, ghosts>>

(* The null entries of removed vertices are visited too.                   *)
TakeNull(k, changed, enqueue) ==
  LET v == queue[cur][pos[k]]
  IN  /\ cpc = "visit"
      /\ now[k] = {}
      /\ pos[k] <= hi[k]
      /\ changed = FALSE
      /\ enqueue = FALSE
      /\ inQueue' = [w \in Vertices |-> w # v /\ inQueue[w]]
      /\ now' = [now EXCEPT ![k] = {v}]
      /\ UNCHANGED <<graph, level, queue, first, last, invalid, callVars, pos,
                     hi, todo, locking, unwritten, ghosts>>

------------------------------------------------------------------------------
(* BfsIterator::enqueue from the test under queue_lock_ on.                *)
EnqueueLocked(v) ==
  IF inQueue[v]
    THEN UNCHANGED iterVars
    ELSE /\ inQueue' = [inQueue EXCEPT ![v] = TRUE]
         /\ queue' = [queue EXCEPT ![level[v]] = Append(@, v)]
         /\ last' = IF LevelLess(last, level[v]) THEN level[v] ELSE last
         /\ first' = IF LevelLess(level[v], first) THEN level[v] ELSE first

------------------------------------------------------------------------------
(* The owner.                                                              *)

(* arrivalInvalid and requiredInvalid remember a vertex whose value is no  *)
(* longer right, unless it is queued already; without values they do       *)
(* nothing.                                                                *)
Invalidated(S, queued) ==
  invalid \cup (IF exist THEN {v \in S : ~ queued[v]} ELSE {})

(* requireds_exist_ is cleared with the required times in place, so these  *)
(* may become wrong without being remembered.  Arrivals that do not exist  *)
(* have been deleted.                                                      *)
Outdated(S) == stale \cup (IF exist \/ Backward THEN S ELSE {})

Untold(S, queued) ==
  forgotten \cup (IF ~ exist /\ Backward THEN {v \in S : ~ queued[v]} ELSE {})

Invalidate(v) ==
  /\ cpc = "idle"
  /\ v \in graph
  /\ exist \/ Backward
  /\ invalid' = Invalidated({v}, inQueue)
  /\ stale' = Outdated({v})
  /\ forgotten' = Untold({v}, inQueue)
  /\ UNCHANGED <<graph, level, iterVars, callVars, threadVars, visits>>

(* remove() of each vertex of S: the flag is cleared and the entry becomes *)
(* null if there is one in the list of the vertex's level.                 *)
Found(v) == \E i \in DOMAIN queue[level[v]] : queue[level[v]][i] = v

Remove(S) ==
  LET removed == {v \in S : inQueue[v] /\ Found(v)}
  IN  /\ queue' = [l \in Levels |->
                     [i \in DOMAIN queue[l] |->
                        IF queue[l][i] \in {v \in removed : level[v] = l}
                          THEN Null ELSE queue[l][i]]]
      /\ inQueue' = [v \in Vertices |-> inQueue[v] /\ v \notin removed]
      /\ UNCHANGED <<first, last>>

(* Levelize::setLevel tells the observer before it changes a level, which  *)
(* takes the vertex out of the queue and makes it invalid.  All the levels *)
(* that one levelization changes change here.  Both queues are handled     *)
(* when there are arrivals, without which both are empty.                  *)
Relevelize(lv) ==
  LET moved == {v \in graph : lv[v] # level[v]}
  IN  /\ cpc = "idle"
      /\ moved # {}
      /\ level' = lv
      /\ \A l \in Levels : Len(queue[l]) < MaxEntries
      /\ Remove(moved)
      /\ invalid' = Invalidated(moved, inQueue')
      /\ stale' = Outdated(moved)
      /\ forgotten' = Untold(moved, inQueue')
      /\ UNCHANGED <<graph, callVars, threadVars, visits>>

(* Sta::deletePinBefore: the vertex leaves the queue and the invalid set,  *)
(* if the values exist, and its neighbours across the net become invalid.  *)
(* The neighbours through the instance are deleted with it.  An entry that *)
(* stays points to an object without edges, until its slot is used again.  *)
DeleteVertex(v) ==
  /\ cpc = "idle"
  /\ v \in graph
  /\ IF exist THEN Remove({v}) ELSE UNCHANGED iterVars
  /\ graph' = graph \ {v}
  /\ invalid' = Invalidated(Adjacent(v), inQueue') \ {v}
  /\ stale' = Outdated(Adjacent(v)) \ {v}
  /\ forgotten' = Untold(Adjacent(v), inQueue') \ {v}
  /\ UNCHANGED <<level, callVars, threadVars, visits>>

(* arrivalsInvalid: every value is deleted and both queues are cleared;    *)
(* the next search starts from all the starts of the graph.                *)
Clear ==
  LET live == {l \in Levels : LevelLessOrEqual(first, l)
                              /\ LevelLessOrEqual(l, last)}
      dropped == {v \in Vertices :
                    \E l \in live : \E i \in DOMAIN queue[l] : queue[l][i] = v}
  IN  /\ cpc = "idle"
      /\ exist \/ Backward
      /\ inQueue' = [v \in Vertices |-> inQueue[v] /\ v \notin dropped]
      /\ queue' = [l \in Levels |-> IF l \in live THEN <<>> ELSE queue[l]]
      /\ first' = LevelMax
      /\ last' = LevelMin
      /\ invalid' = {}
      /\ exist' = FALSE
      /\ stale' = {}
      /\ forgotten' = {}
      /\ UNCHANGED <<graph, level, seeding, cpc, toLevel, cur, threadVars,
                     visits>>

(* requiredsInvalid: the required times stay where they are, the invalid   *)
(* ones are forgotten, and the queue keeps what it has.                    *)
GiveUp ==
  /\ cpc = "idle"
  /\ Backward
  /\ exist
  /\ exist' = FALSE
  /\ invalid' = {}
  /\ forgotten' = forgotten \cup invalid
  /\ UNCHANGED <<graph, level, iterVars, seeding, cpc, toLevel, cur,
                 threadVars, stale, visits>>

(* findArrivals(to), findRequireds(to): seed the starts if there are no    *)
(* values, and what is invalid, then visitParallel(to).                    *)
Find(to) ==
  /\ cpc = "idle"
  /\ toLevel' = to
  /\ cpc' = "seed"
  /\ invalid' = invalid \cup (IF exist THEN {} ELSE Starts \cap graph)
  /\ visits' = [v \in Vertices |-> 0]
  /\ UNCHANGED <<graph, level, iterVars, exist, seeding, cur, threadVars,
                 stale, forgotten>>

(* What the seeding writes itself: clock pins, inputs and roots of the     *)
(* arrival search, endpoints when the required times are seeded anew.      *)
IsStart(v) == IF Backward THEN ~ exist ELSE v \in Starts \/ Sources(v) = {}

(* The value of a start is written and its neighbours are enqueued.  They  *)
(* are enqueued whether the arrivals changed or not, except those of an    *)
(* input or root that has no arrivals (any more): they are not enqueued    *)
(* even if it had some.  The required search enqueues them if the value    *)
(* changed.                                                                *)
SeedStart(v, changed, enqueue) ==
  /\ cpc = "seed"
  /\ seeding = {}
  /\ v \in invalid
  /\ IsStart(v)
  /\ Backward => enqueue = changed
  /\ changed /\ ~ enqueue => exist
  /\ invalid' = invalid \ {v}
  /\ seeding' = IF enqueue THEN Adjacent(v) ELSE {}
  /\ stale' = (stale \ {v}) \cup (IF changed THEN Adjacent(v) ELSE {})
  /\ forgotten' = (forgotten \ {v})
                   \cup (IF changed /\ ~ enqueue THEN Adjacent(v) ELSE {})
  /\ UNCHANGED <<graph, level, iterVars, exist, cpc, toLevel, cur, threadVars,
                 visits>>

SeedAdjacent(w) ==
  /\ cpc = "seed"
  /\ w \in seeding
  /\ EnqueueLocked(w)
  /\ seeding' = seeding \ {w}
  /\ UNCHANGED <<graph, level, invalid, exist, cpc, toLevel, cur, threadVars,
                 ghosts>>

Seed(v) ==
  /\ cpc = "seed"
  /\ seeding = {}
  /\ v \in invalid
  /\ ~ IsStart(v)
  /\ EnqueueLocked(v)
  /\ invalid' = invalid \ {v}
  /\ UNCHANGED <<graph, level, callVars, threadVars, ghosts>>

(* visitParallel with one thread is visit().                               *)
Visit ==
  /\ cpc = "seed"
  /\ invalid = {}
  /\ seeding = {}
  /\ cpc' = "scan"
  /\ UNCHANGED <<graph, level, iterVars, invalid, exist, seeding, toLevel, cur,
                 threadVars, ghosts>>

Scanning ==
  /\ LevelLessOrEqual(first, last)
  /\ LevelLessOrEqual(first, toLevel)

(* The loop head: the level is taken, first_level_ moves past it, and a    *)
(* level with entries is visited by this thread (thread 0) or cut into     *)
(* chunks of equal length, the last of which gets the left overs.  The     *)
(* length is read here, before any vertex of the level is visited.         *)
VisitLevel ==
  LET n == Len(queue[first])
      chunk == n \div ThreadCount
  IN  /\ cpc = "scan"
      /\ Scanning
      /\ cur' = first
      /\ first' = IncrLevel(first)
      /\ cpc' = IF n = 0 THEN "scan" ELSE "visit"
      /\ IF n >= ThreadCount
           THEN /\ pos' = [k \in Threads |-> k * chunk + 1]
                /\ hi' = [k \in Threads |-> IF k = ThreadCount - 1
                                              THEN n ELSE (k + 1) * chunk]
           ELSE /\ pos' = Idle(1)
                /\ hi' = [k \in Threads |-> IF k = 0 THEN n ELSE 0]
      /\ UNCHANGED <<graph, level, queue, inQueue, last, invalid, exist,
                     seeding, toLevel, now, todo, locking, unwritten, ghosts>>

Finished(k) == now[k] = {} /\ pos[k] > hi[k]

(* The level is done (finishTasks has returned): its list is cleared.      *)
LevelFinished ==
  /\ cpc = "visit"
  /\ \A k \in Threads : Finished(k)
  /\ queue' = [queue EXCEPT ![cur] = <<>>]
  /\ cpc' = "scan"
  /\ UNCHANGED <<graph, level, inQueue, first, last, invalid, exist, seeding,
                 toLevel, cur, threadVars, ghosts>>

Return ==
  /\ cpc = "scan"
  /\ ~ Scanning
  /\ cpc' = "idle"
  /\ exist' = TRUE
  /\ UNCHANGED <<graph, level, iterVars, invalid, seeding, toLevel, cur,
                 threadVars, ghosts>>

------------------------------------------------------------------------------
(* A thread that visits its part of the level.                             *)

Entry(k) == queue[cur][pos[k]]

SkipNull(k) ==
  /\ cpc = "visit"
  /\ now[k] = {}
  /\ pos[k] <= hi[k]
  /\ Entry(k) = Null
  /\ pos' = [pos EXCEPT ![k] = @ + 1]
  /\ UNCHANGED <<graph, level, iterVars, invalid, callVars, hi, now, todo,
                 locking,
                 unwritten, ghosts>>

(* The flag is cleared, without the lock, and the visitor reads the values *)
(* the new one is computed from.  Whether the value changes is not known   *)
(* here; one that did not may be propagated all the same (the endpoints    *)
(* have no arrivals yet, always_to_endpoints_).                            *)
Take(k, changed, enqueue) ==
  LET v == Entry(k)
      users == (IF changed THEN Adjacent(v) ELSE {}) \cup Reseeded(v)
  IN  /\ cpc = "visit"
      /\ now[k] = {}
      /\ pos[k] <= hi[k]
      /\ v # Null
      /\ changed => enqueue
      /\ inQueue' = [inQueue EXCEPT ![v] = FALSE]
      /\ now' = [now EXCEPT ![k] = {v}]
      /\ todo' = [todo EXCEPT ![k] =
                    (IF enqueue THEN Adjacent(v) ELSE {}) \cup Reseeded(v)]
      /\ unwritten' = [unwritten EXCEPT ![k] = users]
      /\ stale' = stale \ {v}
      /\ forgotten' = forgotten \ {v}
      /\ visits' = [visits EXCEPT ![v] = @ + 1]
      /\ UNCHANGED <<graph, level, queue, first, last, invalid, callVars, pos,
                     hi, locking>>

(* enqueue(w): the flag is tested without the lock first ...               *)
Lookup(k, w) ==
  /\ w \in todo[k]
  /\ locking[k] = {}
  /\ todo' = [todo EXCEPT ![k] = @ \ {w}]
  /\ locking' = [locking EXCEPT ![k] = IF inQueue[w] THEN {} ELSE {w}]
  /\ UNCHANGED <<graph, level, iterVars, invalid, callVars, pos, hi, now,
                 unwritten,
                 ghosts>>

(* ... and again with it.                                                  *)
Insert(k, w) ==
  /\ w \in locking[k]
  /\ EnqueueLocked(w)
  /\ locking' = [locking EXCEPT ![k] = {}]
  /\ UNCHANGED <<graph, level, invalid, callVars, pos, hi, now, todo,
                 unwritten,
                 ghosts>>

(* The value is written: after the neighbours are enqueued by the arrival  *)
(* search (setVertexArrivals), before that by the required search.         *)
Write(k) ==
  /\ unwritten[k] # {}
  /\ stale' = stale \cup unwritten[k]
  /\ unwritten' = [unwritten EXCEPT ![k] = {}]
  /\ UNCHANGED <<graph, level, iterVars, invalid, callVars, pos, hi, now, todo,
                 locking, forgotten, visits>>

Leave(k) ==
  /\ now[k] # {}
  /\ todo[k] = {}
  /\ locking[k] = {}
  /\ unwritten[k] = {}
  /\ now' = [now EXCEPT ![k] = {}]
  /\ pos' = [pos EXCEPT ![k] = @ + 1]
  /\ UNCHANGED <<graph, level, iterVars, invalid, callVars, hi, todo, locking,
                 unwritten, ghosts>>

------------------------------------------------------------------------------
Thread(k) ==
  \/ SkipNull(k)
  \/ \E changed, enqueue \in BOOLEAN : Take(k, changed, enqueue)
  \/ \E w \in Vertices : Lookup(k, w) \/ Insert(k, w)
  \/ Write(k)
  \/ Leave(k)

Call ==
  \/ \E v \in Vertices, changed, enqueue \in BOOLEAN :
       SeedStart(v, changed, enqueue)
  \/ \E v \in Vertices : SeedAdjacent(v) \/ Seed(v)
  \/ Visit
  \/ VisitLevel
  \/ LevelFinished
  \/ Return

Next ==
  \/ \E v \in Vertices : Invalidate(v) \/ DeleteVertex(v)
  \/ \E lv \in LevelMaps : Relevelize(lv)
  \/ Clear
  \/ GiveUp
  \/ \E to \in Levels : Find(to)
  \/ Call
  \/ \E k \in Threads : Thread(k)

Spec == Init /\ [][Next]_vars

(* Once called, the search goes on, and so does every thread of the pool.  *)
FairSpec ==
  /\ Spec
  /\ WF_vars(Call)
  /\ \A k \in Threads : WF_vars(Thread(k))

------------------------------------------------------------------------------
(* Properties.                                                             *)

TypeOK ==
  /\ graph \subseteq Vertices
  /\ level \in [Vertices -> Levels]
  /\ queue \in [Levels -> Seq(Vertices \cup {Null})]
  /\ inQueue \in [Vertices -> BOOLEAN]
  /\ first \in -1 .. IntMax
  /\ last \in 0 .. IntMax
  /\ invalid \subseteq Vertices
  /\ exist \in BOOLEAN
  /\ seeding \subseteq Vertices
  /\ cpc \in {"idle", "seed", "scan", "visit"}
  /\ toLevel \in Levels
  /\ cur \in Levels
  /\ pos \in [Threads -> Nat]
  /\ hi \in [Threads -> Nat]
  /\ now \in [Threads -> SUBSET Vertices]
  /\ todo \in [Threads -> SUBSET Vertices]
  /\ locking \in [Threads -> SUBSET Vertices]
  /\ unwritten \in [Threads -> SUBSET Vertices]
  /\ stale \subseteq Vertices
  /\ forgotten \subseteq Vertices
  /\ visits \in [Vertices -> Nat]

(* The indices of the level being visited that a thread has still to take. *)
Waiting(i) ==
  \E k \in Threads : i \in pos[k] .. hi[k] /\ (now[k] = {} \/ i # pos[k])

Pending(v, i) ==
  /\ i \in DOMAIN queue[level[v]]
  /\ queue[level[v]][i] = v
  /\ cpc = "visit" /\ cur = level[v] => Waiting(i)

(* The flag on a vertex says that it has one entry, in the list of its     *)
(* level, that will be visited: what checkInQueue() reports as "missing"   *)
(* or "extra" otherwise.  A stuck flag would keep the vertex out of the    *)
(* queue, and out of invalid_arrivals_, from then on.                      *)
FlagMeansQueued ==
  \A v \in Vertices :
    Cardinality({i \in 1 .. Len(queue[level[v]]) : Pending(v, i)})
      = (IF inQueue[v] THEN 1 ELSE 0)

(* No entry points to a vertex that has been deleted, wherever in the      *)
(* queue it is: the next visit would use freed memory.                     *)
NoDanglingEntry ==
  \A l \in Levels : \A i \in DOMAIN queue[l] :
    queue[l][i] \in graph \cup {Null}

(* Every vertex in the queue lies between first_level_ and last_level_, or *)
(* in the level being visited: a search that moves level by level between  *)
(* the two forgets none.                                                   *)
WithinLevels ==
  \A v \in Vertices : inQueue[v] =>
    /\ LevelLessOrEqual(level[v], last)
    /\ LevelLessOrEqual(first, level[v]) \/ (cpc = "visit" /\ level[v] = cur)

Visited == UNION {now[k] : k \in Threads}
Enqueuing == seeding \cup UNION {todo[k] \cup locking[k] : k \in Threads}

(* Levels order the visits: while a thread visits a vertex, the vertices   *)
(* its value is computed from are not queued, not about to be, and no      *)
(* other thread visits one of them.  So no value is read while it is       *)
(* written, with any number of threads.                                    *)
SourcesSettled ==
  \A v \in Visited : \A u \in Sources(v) :
    ~ inQueue[u] /\ u \notin Visited /\ u \notin Enqueuing

(* No vertex is visited by two threads at once.                            *)
OneThreadPerVertex ==
  \A k, m \in Threads : k # m => now[k] \cap now[m] = {}

(* One call visits a vertex at most once.                                  *)
VisitedOnce == \A v \in Vertices : visits[v] <= 1

(* A vertex computed from an old value is queued, known to the owner as    *)
(* invalid, or about to be enqueued by whoever wrote the value, except for *)
(* those the code does not tell the owner of: the neighbours of an input   *)
(* or root whose arrivals are gone (Search.cc:1412, 1426), and what was    *)
(* invalid at requiredsInvalid or became so before the next search         *)
(* (Search.cc:708, 787).                                                   *)
ChangesPropagate ==
  \A v \in stale :
    inQueue[v] \/ v \in invalid \/ v \in Enqueuing \/ v \in forgotten

(* A call that returns leaves nothing up to its level in the queue.        *)
Drained ==
  [][Return =>
       \A v \in graph : inQueue[v] => LevelLess(toLevel, level[v])]_vars

(* Every call returns.                                                     *)
CallReturns == cpc = "seed" ~> cpc = "idle"
=============================================================================
