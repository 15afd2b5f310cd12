-------------------------------- MODULE Slacks --------------------------------
(***************************************************************************)
(* The slacks of the endpoints and the two answers Search keeps up to date *)
(* about them (search/Search.cc, search/WorstSlack.cc): the total negative *)
(* slack and the worst slack.  Both are found in full by the first query   *)
(* and then repaired from the set invalid_tns_ of endpoints whose slack    *)
(* may have changed, which every handler that may change one has to fill.  *)
(*                                                                         *)
(* The vertices are loads without fanout: register data pins and output    *)
(* ports, endpoints whenever they have fanin.  What the searches compute   *)
(* is the environment's: data[v], the arrival that reaches v, limit[v],    *)
(* the required time its constraints give.  One corner, one min/max, one   *)
(* thread in the searches.  Endpoints with fanout, whose slack is found    *)
(* from their path ends, and the requireds of vertices that are no         *)
(* endpoints are left out.                                                 *)
(***************************************************************************)
EXTENDS Integers, FiniteSets, Functions

CONSTANTS
  Vertices,
  Ports,                (* those of output ports, the others are registers' *)
  Level,                (* the logic level of each                         *)
  Arrivals, Limits,     (* arrival and required times                      *)
  Inf,                  (* the required time of no constraint at all       *)
  None,                 (* no vertex, no arrival                           *)
  MinQueueSize,         (* min_queue_size_                                 *)
  MaxQueueSize,         (* what max_queue_size_ starts with                *)
  Edits,                (* the kinds of edits there may be                 *)
  MaxEdits              (* bound: edits, and searches for required times   *)

EditKinds == {"upstream", "limit", "removeDelay", "connect", "disconnect",
              "delete", "relevelize", "constraints", "checks", "requireds"}

ASSUME SlacksAssumption ==
  /\ IsFiniteSet(Vertices)
  /\ Ports \subseteq Vertices
  /\ Level \in [Vertices -> Nat]
  /\ Arrivals \subseteq Int /\ Limits \subseteq Int /\ Inf \in Nat \ {0}
  /\ \A a \in Arrivals, l \in Limits : l < Inf /\ l - a < Inf
  /\ None \notin Vertices \cup Arrivals
  /\ MinQueueSize \in Nat \ {0} /\ MaxQueueSize \in Nat \ {0}
  /\ Edits \subseteq EditKinds
  /\ MaxEdits \in Nat

VARIABLES
  graph,                (* the vertices that exist                         *)
  wired,                (* whether a vertex has fanin                      *)
  data, limit,          (* what the searches find at a vertex              *)
  reached,              (* those whose data has changed upstream           *)
  search,               (* the Search object                               *)
  wns,                  (* its WorstSlack object                           *)
  query,                (* the query under way                             *)
  todo,                 (* the vertices its loop has still to look at      *)
  answer,               (* what the last query returned, until an edit     *)
  edits                 (* edits so far                                    *)

design == <<graph, wired, data, limit, reached>>
vars == <<design, search, wns, query, todo, answer, edits>>

NoAnswer == [of |-> "none", slack |-> Inf, vertex |-> None]
Queries == {"idle", "tnsUpdate", "wnsUpdate", "worst", "initQueue"}

------------------------------------------------------------------------------
(* Search::isEndpoint for loads without fanout.                            *)
Endpoints == {v \in graph : wired[v]}

(* Path::slack: infinite without a path or without a required time, as     *)
(* wnsSlacks has it for a vertex without fanout.                           *)
Slack(s, v) ==
  IF s.arr[v] = None \/ s.req[v] = Inf THEN Inf ELSE s.req[v] - s.arr[v]

NoPaths == [v \in Vertices |-> None]
NoRequireds == [v \in Vertices |-> Inf]
NoSlacks == [v \in {} |-> 0]

(* The worst slack is unknown, then in the queue, while worst is None.     *)
NoWorst == [exists |-> FALSE, worst |-> None, slack |-> Inf, threshold |-> Inf,
            queue |-> {}, maxSize |-> MaxQueueSize]

Init ==
  /\ graph = Vertices
  /\ wired = [v \in Vertices |-> TRUE]
  /\ data \in [Vertices -> Arrivals]
  /\ limit \in [Vertices -> Limits]
  /\ reached = {}
  /\ search = [arrivals |-> FALSE, requireds |-> FALSE,
               arr |-> NoPaths, req |-> NoRequireds,
               invalidArrivals |-> {}, invalidRequireds |-> {},
               reqQueue |-> {}, invalidTns |-> {},
               endpointsFound |-> FALSE, endpoints |-> {},
               invalidEndpoints |-> {},
               tnsExists |-> FALSE, tns |-> 0, tnsSlacks |-> NoSlacks]
  /\ wns = NoWorst
  /\ query = "idle"
  /\ todo = {}
  /\ answer = NoAnswer
  /\ edits = 0

------------------------------------------------------------------------------
(* What the handlers do to the Search s; E is the set of endpoints when    *)
(* they look.                                                              *)

TnsInvalid(s, V, E) ==
  IF s.tnsExists \/ wns.exists
    THEN [s EXCEPT !.invalidTns = @ \cup (V \cap E)]
    ELSE s

ArrivalInvalid(s, V, E) ==
  IF s.arrivals
    THEN TnsInvalid([s EXCEPT !.invalidArrivals = @ \cup V], V, E)
    ELSE s

(* Mutant: the slack is not noted to have changed.                         *)
RequiredInvalidUntold(s, V, E) ==
  IF s.requireds
    THEN [s EXCEPT !.invalidRequireds = @ \cup (V \ s.reqQueue)]
    ELSE s

(* A vertex the backward iterator has in its queue is not noted again.     *)
RequiredInvalid(s, V, E) ==
  IF s.requireds
    THEN TnsInvalid([s EXCEPT !.invalidRequireds = @ \cup (V \ s.reqQueue)],
                    V, E)
    ELSE s

EndpointInvalid(s, V) ==
  IF s.endpointsFound THEN [s EXCEPT !.invalidEndpoints = @ \cup V] ELSE s

(* tnsDecr for the vertices of V.                                          *)
TnsDecr(s, V) ==
  LET counted == V \cap DOMAIN s.tnsSlacks
  IN  [s EXCEPT !.tns = @ - SumFunctionOnSet(s.tnsSlacks, counted),
                !.tnsSlacks = Restrict(@, DOMAIN @ \ counted)]

(* tnsIncr for the vertices of V.                                          *)
TnsIncr(s, V) ==
  LET slacks == [v \in {u \in V : Slack(s, u) < 0} |-> Slack(s, v)]
  IN  [s EXCEPT !.tns = @ + SumFunction(slacks),
                !.tnsSlacks = [v \in DOMAIN @ \cup DOMAIN slacks |->
                  IF v \in DOMAIN slacks THEN slacks[v] ELSE @[v]]]

TnsNotifyBefore(s, V) ==
  IF s.tnsExists THEN TnsDecr(s, V \cap Endpoints) ELSE s

(* Search::deletePaths of the vertices of V; WorstSlackNotifyBefore is the *)
(* part of it that is done to the WorstSlack w.                            *)
DeletePaths(s, V) ==
  [TnsNotifyBefore(s, V) EXCEPT
     !.arr = [v \in Vertices |-> IF v \in V THEN None ELSE @[v]],
     !.req = [v \in Vertices |-> IF v \in V THEN Inf ELSE @[v]]]

WorstSlackNotifyBefore(w, V) ==
  [w EXCEPT !.worst = IF @ \in V THEN None ELSE @,
            !.slack = IF w.worst \in V THEN Inf ELSE @,
            !.queue = @ \ V]

(* endpoints() brings the set of endpoints up to date.                     *)
FindEndpoints(s) ==
  [s EXCEPT !.endpointsFound = TRUE,
            !.endpoints = IF s.endpointsFound
                            THEN (@ \ s.invalidEndpoints)
                                   \cup (s.invalidEndpoints \cap Endpoints)
                            ELSE Endpoints,
            !.invalidEndpoints = {}]

(* What the path ends at v require of its path, if they do.                *)
Required(s, v) == IF s.arr[v] # None /\ v \in Endpoints THEN limit[v] ELSE Inf

(* seedRequired of the vertices of V, the fanin of which is not modelled.  *)
SeedRequired(s, V) ==
  [s EXCEPT !.req = [v \in Vertices |->
                       IF v \in V THEN Required(s, v) ELSE @[v]]]

------------------------------------------------------------------------------
(* The arrival search, run by every query.  A vertex without fanin is a    *)
(* root without a seed, the others are visited when they are invalid or    *)
(* when a change upstream reaches them.                                    *)
Seeds == IF search.arrivals THEN search.invalidArrivals \cup reached ELSE graph

Changed ==
  {v \in Seeds \cap Endpoints : search.arr[v] = None \/ search.arr[v] # data[v]}

Emptied == (Seeds \ Endpoints) \cup {v \in Changed : data[v] = None}

(* setVertexArrivals: the required times of a vertex that has some are     *)
(* invalid, and deleted where its tag group is another, which it is for    *)
(* the vertices of regrouped.                                              *)
SetArrivals(s, regrouped) ==
  LET set == {v \in Changed : data[v] # None}
      had == {v \in set : s.req[v] # Inf}
      kept == RequiredInvalid(s, had, Endpoints)
  IN  [kept EXCEPT
         !.arr = [v \in Vertices |-> IF v \in set THEN data[v] ELSE @[v]],
         !.req = [v \in Vertices |-> IF v \in regrouped THEN Inf ELSE @[v]]]

FindAllArrivals(regrouped) ==
  LET visited == SetArrivals(DeletePaths(search, Emptied), regrouped)
  IN  [TnsInvalid(visited, Changed, Endpoints)
         EXCEPT !.invalidArrivals = {}, !.arrivals = TRUE]

(* wnsTnsPreamble, after the arrivals: required times at the endpoints.    *)
WnsTnsPreamble(s) ==
  IF s.requireds
    THEN LET ends == s.invalidRequireds \cap Endpoints
         IN  [SeedRequired(s, ends) EXCEPT !.invalidRequireds = @ \ ends]
    ELSE LET found == FindEndpoints(s)
         IN  [SeedRequired(found, found.endpoints) EXCEPT !.requireds = TRUE]

------------------------------------------------------------------------------
(* Search::totalNegativeSlack.                                             *)
FindTotalNegativeSlacks(s) ==
  LET found == FindEndpoints([s EXCEPT !.tns = 0, !.tnsSlacks = NoSlacks])
  IN  [TnsIncr(found, found.endpoints) EXCEPT !.tnsExists = TRUE]

TnsAnswer(s) == [of |-> "tns", slack |-> s.tns, vertex |-> None]

TotalNegativeSlack ==
  \E regrouped \in SUBSET {v \in Changed : search.req[v] # Inf} :
    LET s == WnsTnsPreamble(FindAllArrivals(regrouped))
        total == FindTotalNegativeSlacks(s)
    IN  /\ query = "idle"
        /\ reached' = {}
        /\ wns' = WorstSlackNotifyBefore(wns, Emptied)
        /\ IF s.tnsExists
             THEN /\ search' = s
                  /\ query' = "tnsUpdate"
                  /\ todo' = s.invalidTns
                  /\ answer' = NoAnswer
             ELSE /\ search' = total
                  /\ answer' = TnsAnswer(total)
                  /\ UNCHANGED <<query, todo>>
        /\ UNCHANGED <<graph, wired, data, limit, edits>>

(* Search::worstSlack.                                                     *)
WorstSlack ==
  \E regrouped \in SUBSET {v \in Changed : search.req[v] # Inf} :
    LET s == WnsTnsPreamble(FindAllArrivals(regrouped))
    IN  /\ query = "idle"
        /\ reached' = {}
        /\ search' = s
        /\ answer' = NoAnswer
        /\ IF wns.exists
             THEN /\ wns' = WorstSlackNotifyBefore(wns, Emptied)
                  /\ query' = "wnsUpdate"
                  /\ todo' = s.invalidTns
             ELSE /\ wns' = [NoWorst EXCEPT !.exists = TRUE]
                  /\ query' = "worst"
                  /\ UNCHANGED todo
        /\ UNCHANGED <<graph, wired, data, limit, edits>>

(* Mutant: the worst vertex stays the worst when its slack improves.       *)
UpdateWorstSlackKept(w, v, slack) ==
  LET better == w.worst # None /\ slack < w.slack
  IN  [w EXCEPT !.worst = IF better THEN v ELSE @,
                !.slack = IF better THEN slack ELSE @,
                !.queue = IF slack # Inf /\ slack <= w.threshold
                            THEN @ \cup {v}
                            ELSE @ \ {v}]

(* updateWorstSlack.                                                       *)
UpdateWorstSlack(w, v, slack) ==
  LET better == w.worst # None /\ slack < w.slack
  IN  [w EXCEPT !.worst = IF better THEN v ELSE IF v = @ THEN None ELSE @,
                !.slack = IF better THEN slack ELSE @,
                !.queue = IF slack # Inf /\ slack <= w.threshold
                            THEN @ \cup {v}
                            ELSE @ \ {v}]

(* updateTns.                                                              *)
UpdateTns(s, v) == TnsIncr(TnsDecr(s, {v}), {v})

(* One turn of the loop of updateInvalidTns.                               *)
UpdateInvalidTns(v) ==
  /\ query \in {"tnsUpdate", "wnsUpdate"}
  /\ v \in todo
  /\ todo' = todo \ {v}
  /\ IF v \in Endpoints
       THEN /\ search' = IF search.tnsExists THEN UpdateTns(search, v) ELSE search
            /\ wns' = IF wns.exists
                        THEN UpdateWorstSlack(wns, v, Slack(search, v))
                        ELSE wns
       ELSE UNCHANGED <<search, wns>>
  /\ UNCHANGED <<design, query, answer, edits>>

InvalidTnsUpdated ==
  /\ query \in {"tnsUpdate", "wnsUpdate"}
  /\ todo = {}
  /\ search' = [search EXCEPT !.invalidTns = {}]
  /\ IF query = "tnsUpdate"
       THEN query' = "idle" /\ answer' = TnsAnswer(search)
       ELSE query' = "worst" /\ UNCHANGED answer
  /\ UNCHANGED <<design, wns, todo, edits>>

------------------------------------------------------------------------------
(* WorstSlack::findWorstSlack.                                             *)
WorstAnswer(w) == [of |-> "wns", slack |-> w.slack, vertex |-> w.worst]

WorstKnown ==
  /\ query = "worst"
  /\ wns.worst # None
  /\ query' = "idle"
  /\ answer' = WorstAnswer(wns)
  /\ UNCHANGED <<design, search, wns, todo, edits>>

(* Those of V with the least slack; any of them may be met first.          *)
Worst(s, V) == {v \in V : \A u \in V : Slack(s, v) <= Slack(s, u)}

FindWorstInQueue ==
  /\ query = "worst"
  /\ wns.worst = None
  /\ wns.queue # {}
  /\ \E v \in Worst(search, wns.queue) :
       /\ wns' = [wns EXCEPT !.worst = IF Slack(search, v) = Inf THEN None ELSE v,
                             !.slack = Slack(search, v)]
       /\ query' = "idle"
       /\ answer' = WorstAnswer(wns')
  /\ UNCHANGED <<design, search, todo, edits>>

InitQueue ==
  /\ query = "worst"
  /\ wns.worst = None
  /\ wns.queue = {}
  /\ wns' = [wns EXCEPT !.slack = Inf, !.threshold = Inf]
  /\ search' = FindEndpoints(search)
  /\ query' = "initQueue"
  /\ todo' = search'.endpoints
  /\ UNCHANGED <<design, answer, edits>>

(* sortQueue: the slack that MinQueueSize of the queue are below, or the   *)
(* largest, is the threshold; any vertex with the least slack comes first. *)
Threshold(s, Q) ==
  LET below(v) == Cardinality({u \in Q : Slack(s, u) < Slack(s, v)})
      upTo(v) == Cardinality({u \in Q : Slack(s, u) <= Slack(s, v)})
      size == Cardinality(Q)
      index == IF MinQueueSize < size - 1 THEN MinQueueSize ELSE size - 1
  IN  Slack(s, CHOOSE v \in Q : below(v) <= index /\ index < upTo(v))

SortQueue(s, w, first) ==
  LET threshold == Threshold(s, w.queue)
      kept == {v \in w.queue : Slack(s, v) <= threshold}
  IN  [w EXCEPT !.threshold = threshold,
                !.queue = kept,
                !.maxSize = 2 * Cardinality(kept),
                !.worst = first,
                !.slack = Slack(s, first)]

(* One turn of the loop of initQueue.                                      *)
Queued(s, w, v) ==
  LET slack == Slack(s, v)
      worse == slack < w.slack
  IN  [w EXCEPT !.worst = IF worse THEN v ELSE @,
                !.slack = IF worse THEN slack ELSE @,
                !.queue = IF slack <= w.threshold THEN @ \cup {v} ELSE @]

QueueEndpoint(v) ==
  /\ query = "initQueue"
  /\ v \in todo
  /\ todo' = todo \ {v}
  /\ IF Slack(search, v) = Inf
       THEN UNCHANGED wns
       ELSE LET w == Queued(search, wns, v)
            IN  IF Cardinality(w.queue) >= w.maxSize
                  THEN \E first \in Worst(search, w.queue) :
                         wns' = SortQueue(search, w, first)
                  ELSE wns' = w
  /\ UNCHANGED <<design, search, query, answer, edits>>

QueueInitialized ==
  /\ query = "initQueue"
  /\ todo = {}
  /\ query' = "idle"
  /\ answer' = WorstAnswer(wns)
  /\ UNCHANGED <<design, search, wns, todo, edits>>

------------------------------------------------------------------------------
(* Edits, between queries.                                                 *)
Edit(kind) ==
  /\ query = "idle"
  /\ kind \in Edits
  /\ edits < MaxEdits
  /\ edits' = edits + 1
  /\ answer' = NoAnswer
  /\ UNCHANGED <<query, todo>>

(* The arrival at v changes with one upstream, or goes or comes with it:   *)
(* v is not told, the arrival search will reach it.                        *)
UpstreamChange(v, a) ==
  /\ Edit("upstream")
  /\ v \in Endpoints /\ a # data[v]
  /\ data' = [data EXCEPT ![v] = a]
  /\ reached' = reached \cup {v}
  /\ UNCHANGED <<graph, wired, limit, search, wns>>

(* Mutant: the arrival is taken to be invalid rather than the required time*)
LimitChangeArrival(v, l) ==
  /\ Edit("limit")
  /\ v \in graph /\ l # limit[v]
  /\ limit' = [limit EXCEPT ![v] = l]
  /\ search' = ArrivalInvalid(search, {v}, Endpoints)
  /\ UNCHANGED <<graph, wired, data, reached, wns>>

(* Sta::setOutputDelay of a port; a setup time that changed or an arrival  *)
(* that changed at the clock pin of a register.                            *)
LimitChange(v, l) ==
  /\ Edit("limit")
  /\ v \in graph /\ l # limit[v]
  /\ limit' = [limit EXCEPT ![v] = l]
  /\ search' = RequiredInvalid(search, {v}, Endpoints)
  /\ UNCHANGED <<graph, wired, data, reached, wns>>

(* Sta::removeOutputDelay.                                                 *)
RemoveOutputDelay(v) ==
  /\ Edit("removeDelay")
  /\ v \in graph \cap Ports /\ limit[v] # Inf
  /\ limit' = [limit EXCEPT ![v] = Inf]
  /\ search' = ArrivalInvalid(search, {v}, Endpoints)
  /\ UNCHANGED <<graph, wired, data, reached, wns>>

Connected(v, a) ==
  /\ v \in graph \ Endpoints
  /\ wired' = [wired EXCEPT ![v] = TRUE]
  /\ data' = [data EXCEPT ![v] = a]
  /\ UNCHANGED <<graph, limit, reached, wns>>

(* The end of connectDrvrPinAfter and of connectLoadPinAfter for v.        *)
ConnectAfter(s, v) ==
  EndpointInvalid(ArrivalInvalid(s, {v}, Endpoints \cup {v}), {v})

(* Sta::connectPinAfter for the pin of v, and for a driver on its net.     *)
ConnectPin(v, a) ==
  /\ Edit("connect")
  /\ Connected(v, a)
  /\ search' = ConnectAfter(RequiredInvalid(search, {v}, Endpoints), v)

ConnectDriver(v, a) ==
  /\ Edit("connect")
  /\ Connected(v, a)
  /\ search' = ConnectAfter(search, v)

(* Sta::disconnectPinBefore: v is an endpoint until its edge is deleted.   *)
DisconnectPin(v) ==
  /\ Edit("disconnect")
  /\ v \in Endpoints
  /\ search' = ArrivalInvalid(search, {v}, Endpoints)
  /\ wired' = [wired EXCEPT ![v] = FALSE]
  /\ reached' = reached \ {v}
  /\ UNCHANGED <<graph, data, limit, wns>>

(* Mutant: invalid_tns_ keeps the vertex.                                  *)
DeleteVertexBeforeKept(v) ==
  LET s == IF search.arrivals THEN DeletePaths(search, {v}) ELSE search
  IN  [s EXCEPT
         !.invalidArrivals = IF s.arrivals THEN @ \ {v} ELSE @,
         !.reqQueue = IF s.requireds THEN @ \ {v} ELSE @,
         !.invalidRequireds = IF s.requireds THEN @ \ {v} ELSE @,
         !.endpoints = @ \ {v},
         !.invalidEndpoints = @ \ {v}]

(* Search::deleteVertexBefore.                                             *)
DeleteVertexBefore(v) ==
  LET s == IF search.arrivals THEN DeletePaths(search, {v}) ELSE search
  IN  [s EXCEPT
         !.invalidArrivals = IF s.arrivals THEN @ \ {v} ELSE @,
         !.reqQueue = IF s.requireds THEN @ \ {v} ELSE @,
         !.invalidRequireds = IF s.requireds THEN @ \ {v} ELSE @,
         !.invalidTns = IF s.requireds THEN @ \ {v} ELSE @,
         !.endpoints = @ \ {v},
         !.invalidEndpoints = @ \ {v}]

(* Sta::deletePinBefore.                                                   *)
DeletePin(v) ==
  /\ Edit("delete")
  /\ v \in graph \ Ports
  /\ search' = DeleteVertexBefore(v)
  /\ wns' = IF search.arrivals THEN WorstSlackNotifyBefore(wns, {v}) ELSE wns
  /\ graph' = graph \ {v}
  /\ reached' = reached \ {v}
  /\ UNCHANGED <<wired, data, limit>>

(* Search::levelChangedBefore.                                             *)
LevelChange(v) ==
  /\ Edit("relevelize")
  /\ v \in graph
  /\ search' = IF search.arrivals
                 THEN RequiredInvalid(
                        ArrivalInvalid([search EXCEPT !.reqQueue = @ \ {v}],
                                       {v}, Endpoints),
                        {v}, Endpoints)
                 ELSE search
  /\ UNCHANGED <<design, wns>>

(* Search::arrivalsInvalid, after constraints that are not incremental.    *)
ArrivalsInvalid ==
  /\ Edit("constraints")
  /\ search.arrivals
  /\ search' = [search EXCEPT
                  !.arrivals = FALSE, !.requireds = FALSE,
                  !.arr = NoPaths, !.req = NoRequireds,
                  !.invalidArrivals = {}, !.invalidRequireds = {},
                  !.reqQueue = {}, !.invalidTns = {}, !.tnsExists = FALSE]
  /\ wns' = NoWorst
  /\ UNCHANGED design

(* Search::requiredsInvalid, after checks were switched on or off, which   *)
(* may change a limit: the required times and the backward queue stay.     *)
RequiredsInvalid(v, l) ==
  /\ Edit("checks")
  /\ search.requireds
  /\ v \in graph \ Ports
  /\ limit' = [limit EXCEPT ![v] = l]
  /\ search' = [search EXCEPT !.requireds = FALSE, !.invalidRequireds = {},
                              !.invalidTns = {}, !.tnsExists = FALSE]
  /\ wns' = NoWorst
  /\ UNCHANGED <<graph, wired, data, reached>>

(* Sta::findRequired of a vertex on a level: the invalid vertices are      *)
(* queued, those of this level and above are visited.                      *)
VisitRequireds(s, V) ==
  LET found == SeedRequired(s, V)
  IN  [TnsInvalid(found, V, Endpoints) EXCEPT !.reqQueue = @ \ V]

FindRequireds(level) ==
  /\ Edit("requireds")
  /\ \E regrouped \in SUBSET {v \in Changed : search.req[v] # Inf} :
       LET s == FindAllArrivals(regrouped)
           found == FindEndpoints(s)
           seeded == IF s.requireds
                       THEN s
                       ELSE [SeedRequired(found, found.endpoints)
                               EXCEPT !.requireds = TRUE]
           queued == [seeded EXCEPT !.reqQueue = @ \cup s.invalidRequireds,
                                    !.invalidRequireds = {}]
       IN  search' = VisitRequireds(queued,
                                    {v \in queued.reqQueue : Level[v] >= level})
  /\ wns' = WorstSlackNotifyBefore(wns, Emptied)
  /\ reached' = {}
  /\ UNCHANGED <<graph, wired, data, limit>>

Next ==
  \/ TotalNegativeSlack \/ WorstSlack
  \/ \E v \in todo : UpdateInvalidTns(v) \/ QueueEndpoint(v)
  \/ InvalidTnsUpdated \/ WorstKnown \/ FindWorstInQueue
  \/ InitQueue \/ QueueInitialized
  \/ \E v \in Vertices, a \in Arrivals \cup {None} :
       UpstreamChange(v, a) \/ ConnectPin(v, a) \/ ConnectDriver(v, a)
  \/ \E v \in Vertices, l \in Limits :
       LimitChange(v, l) \/ RequiredsInvalid(v, l)
  \/ \E v \in Vertices :
       RemoveOutputDelay(v) \/ DisconnectPin(v) \/ DeletePin(v) \/ LevelChange(v)
  \/ ArrivalsInvalid
  \/ \E v \in graph : FindRequireds(Level[v])

Spec == Init /\ [][Next]_vars

------------------------------------------------------------------------------
MaybeNone(S) == S \cup {None}

(* The state has its types, and nothing that Search or WorstSlack keeps    *)
(* refers to a deleted vertex, the backward queue and the table of         *)
(* negative slacks aside.                                                  *)
TypeOK ==
  /\ graph \subseteq Vertices /\ reached \subseteq graph
  /\ wired \in [Vertices -> BOOLEAN]
  /\ data \in [Vertices -> MaybeNone(Arrivals)]
  /\ limit \in [Vertices -> Limits \cup {Inf}]
  /\ search \in [arrivals : BOOLEAN, requireds : BOOLEAN,
                  arr : [Vertices -> MaybeNone(Arrivals)],
                  req : [Vertices -> Limits \cup {Inf}],
                  invalidArrivals : SUBSET graph,
                  invalidRequireds : SUBSET graph,
                  reqQueue : SUBSET Vertices, invalidTns : SUBSET graph,
                  endpointsFound : BOOLEAN, endpoints : SUBSET graph,
                  invalidEndpoints : SUBSET graph,
                  tnsExists : BOOLEAN, tns : Int,
                  tnsSlacks : UNION {[V -> {l - a : l \in Limits, a \in Arrivals}] :
                                       V \in SUBSET Vertices}]
  /\ \A v \in DOMAIN search.tnsSlacks : search.tnsSlacks[v] < 0
  /\ wns.exists \in BOOLEAN /\ wns.worst \in MaybeNone(graph)
  /\ wns.slack \in Int /\ wns.threshold \in Int
  /\ wns.queue \subseteq graph /\ wns.maxSize \in Nat
  /\ query \in Queries /\ todo \subseteq Vertices
  /\ answer.of \in {"none", "tns", "wns"}
  /\ edits \in 0..MaxEdits

(* The slack that a search from nothing would find.                        *)
TrueSlack(v) ==
  IF data[v] = None \/ limit[v] = Inf THEN Inf ELSE limit[v] - data[v]

(* A vertex that is still in the backward queue, one whose required time   *)
(* outlived its constraint, and one that never had its required time found.*)
Unsettled(v) ==
  \/ v \in search.reqQueue
  \/ limit[v] = Inf /\ search.req[v] # Inf
  \/ limit[v] # Inf /\ search.req[v] = Inf

(* When the total negative slack is returned, every change since the first *)
(* query has been noted: each endpoint whose required time is settled is   *)
(* counted with the slack it has now, and only if that is negative; and    *)
(* tns_, which every side increments and decrements, has not drifted from  *)
(* the sum of tns_slacks_.  Not said of unsettled endpoints and of vertices *)
(* that are no endpoints any more, for which the total may be wrong.        *)
TnsCurrent ==
  /\ search.tnsExists => search.tns = SumFunction(search.tnsSlacks)
  /\ answer.of = "tns" =>
       \A v \in Endpoints : ~Unsettled(v) =>
         IF TrueSlack(v) < 0
           THEN v \in DOMAIN search.tnsSlacks /\ search.tnsSlacks[v] = TrueSlack(v)
           ELSE v \notin DOMAIN search.tnsSlacks

(* WorstSlack::checkQueue: the queue holds the endpoints whose slack is at *)
(* most the threshold, those that still have to be looked at aside.        *)
QueueHolds ==
  wns.exists /\ query # "initQueue" /\ wns.queue # {} =>
    \A v \in Endpoints \ search.invalidTns :
      v \in wns.queue <=>
        Slack(search, v) # Inf /\ Slack(search, v) <= wns.threshold

(* The worst slack that is returned is the least there is, and that of the *)
(* vertex returned with it, though only a part of the endpoints is queued, *)
(* and at any time those which the queue should hold are in it.            *)
WorstIsLeast ==
  /\ QueueHolds
  /\ answer.of = "wns" =>
       /\ \A v \in Endpoints : answer.slack <= Slack(search, v)
       /\ \A v \in Endpoints : ~Unsettled(v) => answer.slack <= TrueSlack(v)
       /\ IF answer.vertex = None
            THEN answer.slack = Inf
            ELSE /\ answer.vertex \in Endpoints
                 /\ answer.slack = Slack(search, answer.vertex)

(* A required time that was found, and is not the one that the constraints *)
(* now give, is known to be invalid to one of the two that will find it    *)
(* anew.  Not said of an endpoint that has lost its limit, or never had    *)
(* its required time found.                                                *)
RequiredsKnown ==
  search.requireds =>
    \A v \in Endpoints :
      search.req[v] \notin {limit[v], Inf} /\ limit[v] # Inf =>
        v \in search.invalidRequireds \cup search.reqQueue

=============================================================================
