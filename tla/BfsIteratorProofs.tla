------------------------- MODULE BfsIteratorProofs -------------------------
(***************************************************************************)
(* Proofs about BfsIterator for every graph, levelization, number of       *)
(* threads and direction.                                                  *)
(*                                                                         *)
(* They hold under Ordered: the vertices that a reference pin seeds lie on *)
(* later levels than the pin, which nothing in the code enforces; and of   *)
(* behaviours that are Timely: no vertex is deleted that requiredsInvalid  *)
(* left in the queue before the next required search.  If one is, its      *)
(* entry stays there (Search.cc:656), and nothing below is claimed of the  *)
(* required search.                                                        *)
(*                                                                         *)
(* BfsInv is inductive: the flag of a vertex and its entry belong together *)
(* (QueueInv), the levels being visited move away from everything that was *)
(* visited (VisitInv, VisitsInv), and the chunks of a level cover it       *)
(* without overlap (Apart, FlaggedQueued).                                 *)
(***************************************************************************)
EXTENDS BfsIterator, TLAPS, SequenceTheorems, FiniteSetTheorems

Ordered ==
  \A e \in Reseeds, lv \in LevelMaps : LevelLess(lv[e[1]], lv[e[2]])

InTime ==
  ~ exist /\ Backward => \A v \in graph : inQueue[v] => v \in graph'

Timely == [][InTime]_vars

------------------------------------------------------------------------------
(* The inductive invariant.                                                *)

(* An entry that is still to be taken.                                     *)
Open(l, i) == cpc = "visit" /\ cur = l => Waiting(i)

EntriesLevelled ==
  \A l \in Levels : \A i \in DOMAIN queue[l] :
    queue[l][i] # Null => queue[l][i] \in graph /\ level[queue[l][i]] = l

EntriesUnique ==
  \A l \in Levels : \A i, j \in DOMAIN queue[l] :
    queue[l][i] # Null /\ queue[l][i] = queue[l][j] => i = j

EntriesFlagged ==
  \A l \in Levels : \A i \in DOMAIN queue[l] :
    queue[l][i] # Null /\ Open(l, i) => inQueue[queue[l][i]]

FlaggedQueued ==
  \A v \in Vertices : inQueue[v] => \E i \in DOMAIN queue[level[v]] :
    queue[level[v]][i] = v /\ Open(level[v], i)

QueueInv == EntriesLevelled /\ EntriesUnique /\ EntriesFlagged /\ FlaggedQueued

FirstInRange == IF Backward THEN first <= MaxLevel ELSE first >= 0

(* A thread of the level and what it still has to do for its vertex.       *)
Hands(k) ==
  /\ pos[k] >= 1
  /\ hi[k] <= Len(queue[cur])
  /\ now[k] # {} => /\ pos[k] <= hi[k]
                    /\ queue[cur][pos[k]] # Null
                    /\ now[k] = {queue[cur][pos[k]]}
  /\ now[k] = {} => todo[k] = {} /\ locking[k] = {} /\ unwritten[k] = {}
  /\ \A w, x \in locking[k] : w = x
  /\ \A w \in todo[k] \cup locking[k] \cup unwritten[k] :
       w \in graph /\ LevelLess(cur, level[w])
  /\ \A w \in unwritten[k] : inQueue[w] \/ w \in todo[k] \cup locking[k]

Apart ==
  \A k, m \in Threads : k # m =>
    \A i \in pos[k] .. hi[k] : i \notin pos[m] .. hi[m]

AtRest(k) ==
  now[k] = {} /\ todo[k] = {} /\ locking[k] = {} /\ unwritten[k] = {}

VisitInv ==
  IF cpc = "visit"
    THEN LevelLess(cur, first) /\ Apart /\ \A k \in Threads : Hands(k)
    ELSE \A k \in Threads : AtRest(k)

VisitsInv ==
  \A v \in Vertices :
    /\ visits[v] <= 1
    /\ cpc = "seed" => visits[v] = 0
    /\ cpc = "scan" /\ visits[v] > 0 => LevelLess(level[v], first)
    /\ cpc = "visit" /\ visits[v] > 0 =>
         LevelLess(level[v], cur) \/ (level[v] = cur /\ ~ inQueue[v])

(* Only the seeding has neighbours to enqueue; and until the arrivals      *)
(* exist, nothing is queued between searches.                              *)
OwnerInv ==
  /\ seeding \subseteq graph
  /\ cpc # "seed" => seeding = {}
  /\ ~ exist /\ ~ Backward /\ cpc = "idle" =>
       \A v \in Vertices : ~ inQueue[v]

BfsInv ==
  /\ TypeOK
  /\ level \in LevelMaps
  /\ invalid \subseteq graph
  /\ FirstInRange
  /\ QueueInv
  /\ WithinLevels
  /\ VisitInv
  /\ ChangesPropagate
  /\ VisitsInv
  /\ OwnerInv

------------------------------------------------------------------------------
(* The levels of either direction are totally ordered.                     *)
LEMMA LevelOrder ==
  ASSUME NEW a \in Int, NEW b \in Int, NEW c \in Int
  PROVE  /\ ~ LevelLess(a, a)
         /\ LevelLess(a, b) /\ LevelLess(b, c) => LevelLess(a, c)
         /\ LevelLessOrEqual(a, b) <=> LevelLess(a, b) \/ a = b
         /\ LevelLess(a, b) \/ LevelLess(b, a) \/ a = b
         /\ IncrLevel(a) \in Int
         /\ LevelLess(a, IncrLevel(a))
         /\ LevelLess(a, b) => LevelLessOrEqual(IncrLevel(a), b)
  BY BfsAssumption DEF LevelLess, LevelLessOrEqual, IncrLevel

LEMMA LevelTypes ==
  /\ Levels \subseteq Int
  /\ IntMax \in Nat
  /\ LevelMin \in 0 .. IntMax
  /\ LevelMax \in 0 .. IntMax
  /\ ThreadCount \in Nat
  /\ Threads \subseteq Nat
  /\ 0 \in Threads
  BY BfsAssumption DEF Levels, IntMax, LevelMin, LevelMax, Threads

LEMMA TypedLevels ==
  ASSUME TypeOK
  PROVE  /\ first \in Int /\ last \in Int /\ cur \in Int /\ toLevel \in Int
         /\ \A v \in Vertices : level[v] \in Int
<1>1. first \in Int /\ last \in Int
  BY BfsAssumption DEF TypeOK, IntMax
<1>2. cur \in Int /\ toLevel \in Int
  BY DEF TypeOK, Levels
<1>3. ASSUME NEW v \in Vertices PROVE level[v] \in Int
  BY DEF TypeOK, Levels
<1> QED
  BY <1>1, <1>2, <1>3

(* A sequence to which an entry is appended.                               *)
LEMMA AppendEntries ==
  ASSUME NEW S, NEW s \in Seq(S), NEW e \in S
  PROVE  /\ Append(s, e) \in Seq(S)
         /\ Len(s) \in Nat
         /\ DOMAIN s = 1 .. Len(s)
         /\ DOMAIN Append(s, e) = 1 .. Len(s) + 1
         /\ \A i \in DOMAIN s : Append(s, e)[i] = s[i]
         /\ Append(s, e)[Len(s) + 1] = e
  BY AppendProperties, LenProperties

LEMMA InitInv == Ordered /\ Init => BfsInv
<1> SUFFICES ASSUME Init PROVE BfsInv
  OBVIOUS
<1> USE LevelTypes, BfsAssumption
<1>1. TypeOK
  <2>1. queue \in [Levels -> Seq(Vertices \cup {Null})]
    BY DEF Init
  <2>2. first \in -1 .. IntMax /\ last \in 0 .. IntMax
    BY DEF Init
  <2>3. level \in [Vertices -> Levels]
    BY DEF Init
  <2>4. /\ pos \in [Threads -> Nat]
        /\ hi \in [Threads -> Nat]
        /\ now \in [Threads -> SUBSET Vertices]
        /\ todo \in [Threads -> SUBSET Vertices]
        /\ locking \in [Threads -> SUBSET Vertices]
        /\ unwritten \in [Threads -> SUBSET Vertices]
    BY DEF Init, Idle
  <2>5. toLevel \in Levels /\ cur \in Levels
    BY DEF Init, Levels
  <2> QED
    BY <2>1, <2>2, <2>3, <2>4, <2>5 DEF Init, TypeOK
<1>2. FirstInRange
  BY DEF Init, FirstInRange, LevelMax, IntMax
<1>3. \A l \in Levels : DOMAIN queue[l] = {}
  BY DEF Init
<1>4. QueueInv
  BY <1>3 DEF Init, QueueInv, EntriesLevelled, EntriesUnique, EntriesFlagged,
     FlaggedQueued
<1>5. WithinLevels
  BY DEF Init, WithinLevels
<1>6. VisitInv
  BY DEF Init, VisitInv, AtRest, Idle
<1>7. ChangesPropagate /\ VisitsInv
  BY DEF Init, ChangesPropagate, VisitsInv
<1>8. OwnerInv
  BY DEF Init, OwnerInv
<1> QED
  BY <1>1, <1>2, <1>4, <1>5, <1>6, <1>7, <1>8 DEF BfsInv, Init

------------------------------------------------------------------------------
(* enqueue() keeps flags and entries together, and touches only levels     *)
(* beyond the one being visited.                                           *)
LEMMA EnqueueKeeps ==
  ASSUME TypeOK, FirstInRange, QueueInv, WithinLevels,
         NEW v \in graph, EnqueueLocked(v),
         cpc = "visit" => LevelLess(cur, level[v]),
         UNCHANGED <<graph, level, cpc, cur, pos, hi, now>>
  PROVE  /\ queue' \in [Levels -> Seq(Vertices \cup {Null})]
         /\ inQueue' \in [Vertices -> BOOLEAN]
         /\ first' \in -1 .. IntMax /\ last' \in 0 .. IntMax
         /\ FirstInRange' /\ QueueInv' /\ WithinLevels'
         /\ inQueue'[v]
         /\ \A w \in Vertices : w # v => inQueue'[w] = inQueue[w]
         /\ cpc = "visit" => queue'[cur] = queue[cur]
         /\ cpc = "visit" /\ LevelLess(cur, first) => LevelLess(cur, first')
<1> DEFINE l == level[v]
           s == queue[l]
<1>1. /\ v \in Vertices
      /\ l \in Levels /\ l \in Int
      /\ s \in Seq(Vertices \cup {Null})
      /\ first \in Int /\ last \in Int /\ cur \in Int
  <2>1. v \in Vertices /\ l \in Levels /\ cur \in Levels
    BY DEF TypeOK
  <2>2. s \in Seq(Vertices \cup {Null})
    BY <2>1 DEF TypeOK
  <2>3. first \in Int /\ last \in Int
    BY LevelTypes DEF TypeOK
  <2> QED
    BY <2>1, <2>2, <2>3, LevelTypes
<1>2. CASE inQueue[v]
  <2>1. UNCHANGED <<queue, inQueue, first, last>>
    BY <1>2 DEF EnqueueLocked, iterVars
  <2>2. QueueInv'
    BY <2>1 DEF QueueInv, EntriesLevelled, EntriesUnique, EntriesFlagged,
       FlaggedQueued, Open, Waiting
  <2>3. FirstInRange' /\ WithinLevels'
    BY <2>1 DEF FirstInRange, WithinLevels
  <2> QED
    BY <1>2, <2>1, <2>2, <2>3 DEF TypeOK
<1>3. CASE ~ inQueue[v]
  <2>1. /\ inQueue' = [inQueue EXCEPT ![v] = TRUE]
        /\ last' = IF LevelLess(last, l) THEN l ELSE last
        /\ first' = IF LevelLess(l, first) THEN l ELSE first
    BY <1>3 DEF EnqueueLocked
  <2>2. PICK a, n :
          /\ queue' = [queue EXCEPT ![l] = a]
          /\ a \in Seq(Vertices \cup {Null})
          /\ n \in Nat
          /\ DOMAIN s = 1 .. n
          /\ DOMAIN a = 1 .. n + 1
          /\ \A i \in 1 .. n : a[i] = s[i]
          /\ a[n + 1] = v
    <3>1. queue' = [queue EXCEPT ![l] = Append(s, v)]
      BY <1>3 DEF EnqueueLocked
    <3>2. /\ Append(s, v) \in Seq(Vertices \cup {Null})
          /\ Len(s) \in Nat
          /\ DOMAIN s = 1 .. Len(s)
          /\ DOMAIN Append(s, v) = 1 .. Len(s) + 1
          /\ \A i \in DOMAIN s : Append(s, v)[i] = s[i]
          /\ Append(s, v)[Len(s) + 1] = v
      <4>1. v \in Vertices \cup {Null}
        BY <1>1
      <4> HIDE DEF s, l
      <4> QED
        BY <1>1, <4>1, AppendEntries
    <3> HIDE DEF s, l
    <3> QED
      BY <3>1, <3>2, Zenon
  <2>3. /\ queue' \in [Levels -> Seq(Vertices \cup {Null})]
        /\ inQueue' \in [Vertices -> BOOLEAN]
    BY <1>1, <2>1, <2>2 DEF TypeOK
  <2>4. /\ inQueue'[v]
        /\ \A w \in Vertices : w # v => inQueue'[w] = inQueue[w]
    BY <1>1, <2>1 DEF TypeOK
  <2>5. /\ queue'[l] = a
        /\ \A m \in Levels : m # l => queue'[m] = queue[m]
    BY <1>1, <2>2 DEF TypeOK
  <2>6. cpc = "visit" => cur # l
    BY <1>1, LevelOrder
  <2>7. first' \in -1 .. IntMax /\ last' \in 0 .. IntMax
    <3>1. l \in 0 .. IntMax
      BY <1>1, BfsAssumption DEF Levels, IntMax
    <3>2. first \in -1 .. IntMax /\ last \in 0 .. IntMax
      BY DEF TypeOK
    <3> QED
      BY <2>1, <3>1, <3>2, LevelTypes
  <2>8. FirstInRange'
    BY <1>1, <2>1 DEF FirstInRange, Levels
  <2>9. cpc = "visit" => queue'[cur] = queue[cur]
    BY <2>5, <2>6 DEF TypeOK
  <2>10. cpc = "visit" /\ LevelLess(cur, first) => LevelLess(cur, first')
    BY <2>1
  <2>11. \A m \in Levels : \A i : Open(m, i)' <=> Open(m, i)
    BY DEF Open, Waiting
  <2>12. Open(l, n + 1)'
    BY <2>6 DEF Open
  <2>13. v # Null /\ \A i \in DOMAIN s : s[i] # v
    <3>1. v # Null
      BY <1>1, BfsAssumption
    <3>2. \A i \in DOMAIN s : Open(l, i)
      BY <2>6 DEF Open
    <3> QED
      BY <1>1, <1>3, <3>1, <3>2 DEF QueueInv, EntriesFlagged
  <2>14. EntriesLevelled'
    <3> SUFFICES ASSUME NEW m \in Levels, NEW i \in DOMAIN queue'[m],
                        queue'[m][i] # Null
                 PROVE  queue'[m][i] \in graph /\ level[queue'[m][i]] = m
      BY DEF EntriesLevelled
    <3>1. CASE i \in DOMAIN queue[m] /\ queue'[m][i] = queue[m][i]
      BY <3>1 DEF QueueInv, EntriesLevelled
    <3>2. CASE m = l /\ queue'[m][i] = v
      BY <3>2
    <3> QED
      BY <1>1, <2>2, <2>5, <3>1, <3>2
  <2>15. EntriesUnique'
    <3> SUFFICES ASSUME NEW m \in Levels, NEW i \in DOMAIN queue'[m],
                        NEW j \in DOMAIN queue'[m],
                        queue'[m][i] # Null, queue'[m][i] = queue'[m][j]
                 PROVE  i = j
      BY DEF EntriesUnique
    <3>1. CASE m # l
      BY <3>1, <2>5 DEF QueueInv, EntriesUnique
    <3>2. CASE m = l
      BY <3>2, <1>1, <2>2, <2>5, <2>13 DEF QueueInv, EntriesUnique
    <3> QED
      BY <3>1, <3>2
  <2>16. EntriesFlagged'
    <3> SUFFICES ASSUME NEW m \in Levels, NEW i \in DOMAIN queue'[m],
                        queue'[m][i] # Null, Open(m, i)'
                 PROVE  inQueue'[queue'[m][i]]
      BY DEF EntriesFlagged
    <3>1. CASE i \in DOMAIN queue[m] /\ queue'[m][i] = queue[m][i]
      <4>1. inQueue[queue[m][i]]
        BY <3>1, <2>11 DEF QueueInv, EntriesFlagged
      <4>2. queue[m][i] \in Vertices
        BY <3>1 DEF QueueInv, EntriesLevelled, TypeOK
      <4> QED
        BY <3>1, <4>1, <4>2, <2>4
    <3>2. CASE queue'[m][i] = v
      BY <3>2, <2>4
    <3> QED
      BY <1>1, <2>2, <2>5, <3>1, <3>2
  <2>17. FlaggedQueued'
    <3> SUFFICES ASSUME NEW w \in Vertices, inQueue'[w]
                 PROVE  \E i \in DOMAIN queue'[level[w]] :
                          queue'[level[w]][i] = w /\ Open(level[w], i)'
      BY DEF FlaggedQueued
    <3>1. CASE w = v
      BY <3>1, <2>2, <2>5, <2>12
    <3>2. CASE w # v
      <4>1. level[w] \in Levels
        BY DEF TypeOK
      <4>2. PICK i \in DOMAIN queue[level[w]] :
              queue[level[w]][i] = w /\ Open(level[w], i)
        BY <3>2, <2>4 DEF QueueInv, FlaggedQueued
      <4> QED
        BY <4>1, <4>2, <2>2, <2>5, <2>11
    <3> QED
      BY <3>1, <3>2
  <2>18. WithinLevels'
    <3> SUFFICES ASSUME NEW w \in Vertices, inQueue'[w]
                 PROVE  /\ LevelLessOrEqual(level[w], last')
                        /\ \/ LevelLessOrEqual(first', level[w])
                           \/ cpc = "visit" /\ level[w] = cur
      BY DEF WithinLevels
    <3>1. level[w] \in Int /\ w # v => inQueue[w]
      BY <2>4, LevelTypes DEF TypeOK
    <3>2. level[w] \in Int
      BY LevelTypes DEF TypeOK
    <3>3. CASE w = v
      BY <1>1, <2>1, <3>3, LevelOrder
    <3>4. CASE w # v
      <4>1. /\ LevelLessOrEqual(level[w], last)
            /\ \/ LevelLessOrEqual(first, level[w])
               \/ cpc = "visit" /\ level[w] = cur
        BY <3>4, <2>4 DEF WithinLevels
      <4>2. LevelLessOrEqual(level[w], last')
        BY <1>1, <2>1, <3>2, <4>1 DEF LevelLessOrEqual, LevelLess
      <4>3. LevelLessOrEqual(first, level[w]) =>
              LevelLessOrEqual(first', level[w])
        BY <1>1, <2>1, <3>2, <4>1 DEF LevelLessOrEqual, LevelLess
      <4> QED
        BY <4>1, <4>2, <4>3
    <3> QED
      BY <3>3, <3>4
  <2> QED
    BY <2>3, <2>4, <2>7, <2>8, <2>9, <2>10, <2>14, <2>15, <2>16, <2>17, <2>18
       DEF QueueInv
<1> QED
  BY <1>2, <1>3

(* remove() of the vertices of S, between calls: their flags are cleared   *)
(* and their entries are null, and the rest of the queue stays as it was.  *)
LEMMA RemoveEntries ==
  ASSUME TypeOK, QueueInv, cpc = "idle", NEW S \in SUBSET Vertices, Remove(S)
  PROVE  /\ queue' \in [Levels -> Seq(Vertices \cup {Null})]
         /\ inQueue' \in [Vertices -> BOOLEAN]
         /\ UNCHANGED <<first, last>>
         /\ \A v \in Vertices : inQueue'[v] <=> inQueue[v] /\ v \notin S
         /\ \A l \in Levels :
              /\ DOMAIN queue'[l] = DOMAIN queue[l]
              /\ \A i \in DOMAIN queue[l] :
                   queue'[l][i] = IF queue[l][i] \in S THEN Null
                                                       ELSE queue[l][i]
<1> DEFINE removed == {v \in S : inQueue[v] /\ Found(v)}
           new(l) == [i \in DOMAIN queue[l] |->
                        IF queue[l][i] \in {v \in removed : level[v] = l}
                          THEN Null ELSE queue[l][i]]
<1>1. /\ queue' = [l \in Levels |-> new(l)]
      /\ inQueue' = [v \in Vertices |-> inQueue[v] /\ v \notin removed]
      /\ UNCHANGED <<first, last>>
  BY DEF Remove
<1>2. \A v \in S : inQueue[v] => Found(v)
  BY DEF QueueInv, FlaggedQueued, Found
<1>3. \A v \in Vertices : inQueue'[v] <=> inQueue[v] /\ v \notin S
  BY <1>1, <1>2 DEF TypeOK
<1>4. ASSUME NEW l \in Levels, NEW i \in DOMAIN queue[l]
      PROVE  queue[l][i] \in S =>
               queue[l][i] \in removed /\ level[queue[l][i]] = l
  <2> SUFFICES ASSUME queue[l][i] \in S
               PROVE  queue[l][i] \in removed /\ level[queue[l][i]] = l
    OBVIOUS
  <2>1. queue[l][i] # Null
    BY BfsAssumption
  <2>2. level[queue[l][i]] = l /\ inQueue[queue[l][i]]
    BY <2>1 DEF QueueInv, EntriesLevelled, EntriesFlagged, Open
  <2> QED
    BY <2>2, <1>2
<1>5. ASSUME NEW l \in Levels
      PROVE  /\ new(l) \in Seq(Vertices \cup {Null})
             /\ DOMAIN new(l) = DOMAIN queue[l]
             /\ \A i \in DOMAIN queue[l] :
                  new(l)[i] = IF queue[l][i] \in S THEN Null ELSE queue[l][i]
  <2>1. queue[l] \in Seq(Vertices \cup {Null})
    BY DEF TypeOK
  <2>2. PICK n \in Nat : queue[l] \in [1 .. n -> Vertices \cup {Null}]
    BY <2>1, SeqDef
  <2>3. new(l) \in [1 .. n -> Vertices \cup {Null}]
    BY <2>2
  <2>4. new(l) \in Seq(Vertices \cup {Null})
    BY <2>3, SeqDef
  <2>5. \A i \in DOMAIN queue[l] :
          new(l)[i] = IF queue[l][i] \in S THEN Null ELSE queue[l][i]
    BY <1>4
  <2> QED
    BY <2>4, <2>5
<1>6. inQueue' \in [Vertices -> BOOLEAN]
  BY <1>1 DEF TypeOK
<1>7. \A l \in Levels : queue'[l] = new(l)
  BY <1>1
<1>8. queue' \in [Levels -> Seq(Vertices \cup {Null})]
  <2> HIDE DEF new
  <2> QED
    BY <1>1, <1>5
<1> HIDE DEF new, removed
<1> QED
  BY <1>1, <1>3, <1>5, <1>6, <1>7, <1>8

LEMMA RemoveKeeps ==
  ASSUME TypeOK, QueueInv, WithinLevels, cpc = "idle", cpc' = "idle",
         NEW S \in SUBSET Vertices, Remove(S),
         \A v \in graph \ S : v \in graph' /\ level'[v] = level[v]
  PROVE  QueueInv' /\ WithinLevels'
<1>1. /\ UNCHANGED <<first, last>>
      /\ \A v \in Vertices : inQueue'[v] <=> inQueue[v] /\ v \notin S
      /\ \A l \in Levels :
           /\ DOMAIN queue'[l] = DOMAIN queue[l]
           /\ \A i \in DOMAIN queue[l] :
                queue'[l][i] = IF queue[l][i] \in S THEN Null
                                                    ELSE queue[l][i]
  BY RemoveEntries
<1>2. \A l \in Levels : \A i \in DOMAIN queue'[l] :
        queue'[l][i] # Null =>
          /\ i \in DOMAIN queue[l]
          /\ queue'[l][i] = queue[l][i]
          /\ queue[l][i] \in graph \ S
          /\ level[queue[l][i]] = l
  BY <1>1 DEF QueueInv, EntriesLevelled
<1>3. graph \subseteq Vertices
  BY DEF TypeOK
<1>4. EntriesLevelled'
  BY <1>2 DEF EntriesLevelled
<1>5. EntriesUnique'
  BY <1>1, <1>2 DEF QueueInv, EntriesUnique
<1>6. EntriesFlagged'
  <2> SUFFICES ASSUME NEW l \in Levels, NEW i \in DOMAIN queue'[l],
                      queue'[l][i] # Null
               PROVE  inQueue'[queue'[l][i]]
    BY DEF EntriesFlagged
  <2>1. /\ i \in DOMAIN queue[l]
        /\ queue'[l][i] = queue[l][i]
        /\ queue[l][i] \in graph \ S
    BY <1>2
  <2>2. inQueue[queue[l][i]]
    BY <2>1 DEF QueueInv, EntriesFlagged, Open
  <2> QED
    BY <1>1, <1>3, <2>1, <2>2
<1>7. \A v \in Vertices : inQueue'[v] =>
        /\ v \notin S
        /\ level'[v] = level[v]
        /\ level[v] \in Levels
        /\ inQueue[v]
        /\ \E i \in DOMAIN queue[level[v]] : queue[level[v]][i] = v
  <2> SUFFICES ASSUME NEW v \in Vertices, inQueue'[v]
               PROVE  /\ v \notin S
                      /\ level'[v] = level[v]
                      /\ level[v] \in Levels
                      /\ inQueue[v]
                      /\ \E i \in DOMAIN queue[level[v]] :
                           queue[level[v]][i] = v
    OBVIOUS
  <2>1. inQueue[v] /\ v \notin S /\ level[v] \in Levels
    BY <1>1 DEF TypeOK
  <2>2. PICK i \in DOMAIN queue[level[v]] : queue[level[v]][i] = v
    BY <2>1 DEF QueueInv, FlaggedQueued
  <2>3. v \in graph
    BY <2>1, <2>2, BfsAssumption DEF QueueInv, EntriesLevelled
  <2> QED
    BY <2>1, <2>2, <2>3
<1>8. FlaggedQueued'
  <2> SUFFICES ASSUME NEW v \in Vertices, inQueue'[v]
               PROVE  \E i \in DOMAIN queue'[level'[v]] :
                        queue'[level'[v]][i] = v
    BY DEF FlaggedQueued, Open
  <2>1. PICK i \in DOMAIN queue[level[v]] : queue[level[v]][i] = v
    BY <1>7
  <2> QED
    BY <2>1, <1>1, <1>7
<1>9. WithinLevels'
  BY <1>1, <1>7 DEF WithinLevels
<1> QED
  BY <1>4, <1>5, <1>6, <1>8, <1>9 DEF QueueInv

------------------------------------------------------------------------------
(* What a visit enqueues or writes lies beyond the level of its vertex.    *)
LEMMA UsersLater ==
  ASSUME Ordered, TypeOK, level \in LevelMaps, NEW v \in graph,
         NEW w \in Adjacent(v) \cup Reseeded(v)
  PROVE  w \in graph /\ LevelLess(level[v], level[w])
<1>1. w \in graph
  BY DEF Adjacent, Reseeded
<1>2. CASE w \in Adjacent(v)
  <2>1. (IF Backward THEN <<w, v>> ELSE <<v, w>>) \in SearchEdges
    BY <1>2 DEF Adjacent
  <2>2. \A e \in SearchEdges : level[e[1]] < level[e[2]]
    BY BfsAssumption DEF Levelled
  <2>3. CASE Backward
    <3>1. <<w, v>> \in SearchEdges
      BY <2>1, <2>3
    <3>2. level[w] < level[v]
      BY <2>2, <3>1
    <3>3. level[w] \in Int /\ level[v] \in Int
      BY <1>1 DEF TypeOK, Levels
    <3> QED
      BY <1>1, <2>3, <3>2, <3>3 DEF LevelLess
  <2>4. CASE ~ Backward
    <3>1. <<v, w>> \in SearchEdges
      BY <2>1, <2>4
    <3>2. level[v] < level[w]
      BY <2>2, <3>1
    <3> QED
      BY <1>1, <2>4, <3>2 DEF LevelLess
  <2> QED
    BY <2>3, <2>4
<1>3. CASE w \in Reseeded(v)
  <2>1. <<v, w>> \in Reseeds
    BY <1>3 DEF Reseeded
  <2>2. LevelLess(level[<<v, w>>[1]], level[<<v, w>>[2]])
    BY <2>1 DEF Ordered
  <2> QED
    BY <1>1, <2>2
<1> QED
  BY <1>2, <1>3

(* A step that leaves the queue alone, and what is still to be taken.      *)
LEMMA QueueFrame ==
  ASSUME TypeOK, QueueInv, WithinLevels, FirstInRange,
         UNCHANGED <<graph, level, queue, inQueue, first, last>>,
         \A l, i : Open(l, i)' <=> Open(l, i),
         cpc = "visit" => cpc' = "visit" /\ cur' = cur
  PROVE  QueueInv' /\ WithinLevels' /\ FirstInRange'
<1>1. EntriesLevelled' /\ EntriesUnique'
  BY DEF QueueInv, EntriesLevelled, EntriesUnique
<1>2. EntriesFlagged' /\ FlaggedQueued'
  BY DEF QueueInv, EntriesFlagged, FlaggedQueued
<1>3. WithinLevels' /\ FirstInRange'
  BY DEF WithinLevels, FirstInRange
<1> QED
  BY <1>1, <1>2, <1>3 DEF QueueInv

LEMMA NothingEnqueuing ==
  ASSUME VisitInv, OwnerInv, cpc = "idle"
  PROVE  Enqueuing = {}
  BY DEF VisitInv, OwnerInv, AtRest, Enqueuing

(* Edits between calls.                                                    *)
LEMMA InvalidateInv ==
  ASSUME Ordered, BfsInv, NEW v \in Vertices, Invalidate(v)
  PROVE  BfsInv'
<1> USE DEF BfsInv
<1>1. /\ cpc = "idle" /\ v \in graph
      /\ invalid' = invalid \cup (IF exist THEN {w \in {v} : ~ inQueue[w]}
                                           ELSE {})
      /\ stale' = stale \cup (IF exist \/ Backward THEN {v} ELSE {})
      /\ forgotten' = forgotten \cup
                        (IF ~ exist /\ Backward
                           THEN {w \in {v} : ~ inQueue[w]} ELSE {})
      /\ UNCHANGED <<graph, level, queue, inQueue, first, last, exist, seeding,
                     cpc, toLevel, cur, pos, hi, now, todo, locking, unwritten,
                     visits>>
  BY DEF Invalidate, Invalidated, Outdated, Untold, iterVars, callVars,
     threadVars
<1>2. TypeOK'
  BY <1>1 DEF TypeOK
<1>3. QueueInv' /\ WithinLevels' /\ FirstInRange'
  BY <1>1, QueueFrame DEF Open, Waiting
<1>4. VisitInv' /\ VisitsInv'
  BY <1>1 DEF VisitInv, AtRest, VisitsInv
<1>5. ChangesPropagate'
  BY <1>1 DEF ChangesPropagate, Enqueuing
<1>6. OwnerInv'
  BY <1>1 DEF OwnerInv
<1> QED
  BY <1>1, <1>2, <1>3, <1>4, <1>5, <1>6

(* Without arrivals their queue is empty, and without required times the   *)
(* vertex is not in theirs.                                                *)
LEMMA DeleteVertexInv ==
  ASSUME Ordered, BfsInv, InTime, NEW v \in Vertices, DeleteVertex(v)
  PROVE  BfsInv'
<1> USE DEF BfsInv
<1>1. /\ cpc = "idle" /\ v \in graph
      /\ IF exist THEN Remove({v}) ELSE UNCHANGED iterVars
      /\ graph' = graph \ {v}
      /\ invalid' = (invalid \cup (IF exist
                                    THEN {w \in Adjacent(v) : ~ inQueue'[w]}
                                    ELSE {})) \ {v}
      /\ stale' = (stale \cup (IF exist \/ Backward THEN Adjacent(v)
                                                  ELSE {})) \ {v}
      /\ forgotten' = (forgotten \cup
                         (IF ~ exist /\ Backward
                            THEN {w \in Adjacent(v) : ~ inQueue'[w]}
                            ELSE {})) \ {v}
      /\ UNCHANGED <<level, exist, seeding, cpc, toLevel, cur, pos, hi, now,
                     todo, locking, unwritten, visits>>
  BY DEF DeleteVertex, Invalidated, Outdated, Untold, callVars, threadVars
<1>2. Adjacent(v) \subseteq graph
  BY DEF Adjacent
<1>3. exist \/ ~ Backward \/ ~ inQueue[v]
  BY <1>1 DEF InTime
<1>4. /\ queue' \in [Levels -> Seq(Vertices \cup {Null})]
      /\ inQueue' \in [Vertices -> BOOLEAN]
      /\ UNCHANGED <<first, last>>
      /\ \A w \in Vertices : inQueue'[w] <=> inQueue[w] /\ w # v
      /\ QueueInv' /\ WithinLevels'
  <2>1. CASE exist
    BY <1>1, <2>1, RemoveEntries, RemoveKeeps
  <2>2. CASE ~ exist
    <3>1. UNCHANGED <<queue, inQueue, first, last>>
      BY <1>1, <2>2 DEF iterVars
    <3>2. ~ inQueue[v]
      BY <1>1, <1>3, <2>2 DEF OwnerInv
    <3>3. \A l \in Levels : \A i \in DOMAIN queue[l] : queue[l][i] # v
      BY <1>1, <3>2, BfsAssumption DEF QueueInv, EntriesFlagged, Open
    <3>4. QueueInv' /\ WithinLevels'
      <4>1. EntriesLevelled'
        BY <1>1, <3>1, <3>3 DEF QueueInv, EntriesLevelled
      <4>2. EntriesUnique' /\ EntriesFlagged' /\ FlaggedQueued'
        BY <1>1, <3>1 DEF QueueInv, EntriesUnique, EntriesFlagged,
           FlaggedQueued, Open, Waiting
      <4>3. WithinLevels'
        BY <1>1, <3>1 DEF WithinLevels
      <4> QED
        BY <4>1, <4>2, <4>3 DEF QueueInv
    <3> QED
      BY <3>1, <3>2, <3>4, <1>1 DEF TypeOK
  <2> QED
    BY <2>1, <2>2
<1>5. TypeOK'
  BY <1>1, <1>2, <1>4 DEF TypeOK
<1>6. FirstInRange' /\ invalid' \subseteq graph'
  BY <1>1, <1>2, <1>4 DEF FirstInRange
<1>7. VisitInv' /\ VisitsInv'
  BY <1>1 DEF VisitInv, AtRest, VisitsInv
<1>8. ChangesPropagate'
  <2>1. \A w \in stale : inQueue[w] \/ w \in invalid \/ w \in forgotten
    BY <1>1, NothingEnqueuing DEF ChangesPropagate
  <2>2. stale' \subseteq Vertices
    BY <1>5 DEF TypeOK
  <2> QED
    BY <1>1, <1>3, <1>4, <2>1, <2>2 DEF ChangesPropagate
<1>9. OwnerInv'
  BY <1>1, <1>4 DEF OwnerInv
<1> QED
  BY <1>1, <1>4, <1>5, <1>6, <1>7, <1>8, <1>9

LEMMA RelevelizeInv ==
  ASSUME Ordered, BfsInv, NEW lv \in LevelMaps, Relevelize(lv)
  PROVE  BfsInv'
<1> USE DEF BfsInv
<1> DEFINE moved == {v \in graph : lv[v] # level[v]}
<1>1. /\ cpc = "idle" /\ Remove(moved)
      /\ level' = lv
      /\ invalid' = invalid \cup
                      (IF exist THEN {w \in moved : ~ inQueue'[w]} ELSE {})
      /\ stale' = stale \cup (IF exist \/ Backward THEN moved ELSE {})
      /\ forgotten' = forgotten \cup
                        (IF ~ exist /\ Backward
                           THEN {w \in moved : ~ inQueue'[w]} ELSE {})
      /\ UNCHANGED <<graph, exist, seeding, cpc, toLevel, cur, pos, hi, now,
                     todo, locking, unwritten, visits>>
  BY DEF Relevelize, Invalidated, Outdated, Untold, callVars, threadVars
<1>2. moved \subseteq graph /\ moved \in SUBSET Vertices
  BY DEF TypeOK
<1>3. lv \in [Vertices -> Levels]
  BY BfsAssumption
<1>4. \A v \in graph \ moved : v \in graph' /\ level'[v] = level[v]
  BY <1>1
<1> HIDE DEF moved
<1>5. /\ queue' \in [Levels -> Seq(Vertices \cup {Null})]
      /\ inQueue' \in [Vertices -> BOOLEAN]
      /\ UNCHANGED <<first, last>>
      /\ \A w \in Vertices : inQueue'[w] <=> inQueue[w] /\ w \notin moved
  BY <1>1, <1>2, RemoveEntries
<1>6. TypeOK'
  BY <1>1, <1>2, <1>3, <1>5 DEF TypeOK
<1>7. QueueInv' /\ WithinLevels'
  BY <1>1, <1>2, <1>4, RemoveKeeps
<1>8. FirstInRange' /\ invalid' \subseteq graph' /\ level' \in LevelMaps
  BY <1>1, <1>2, <1>5 DEF FirstInRange
<1>9. VisitInv' /\ VisitsInv'
  BY <1>1 DEF VisitInv, AtRest, VisitsInv
<1>10. ChangesPropagate'
  <2>1. \A w \in stale : inQueue[w] \/ w \in invalid \/ w \in forgotten
    BY <1>1, NothingEnqueuing DEF ChangesPropagate
  <2>2. stale' \subseteq Vertices
    BY <1>6 DEF TypeOK
  <2> QED
    <3>1. ASSUME NEW w \in stale, w \notin moved
          PROVE  inQueue'[w] \/ w \in invalid' \/ w \in forgotten'
      BY <1>1, <1>5, <2>1, <2>2, <3>1
    <3>2. ASSUME NEW w \in moved, exist \/ Backward
          PROVE  inQueue'[w] \/ w \in invalid' \/ w \in forgotten'
      BY <1>1, <3>2
    <3>3. ASSUME NEW w \in stale, w \in moved, ~ exist, ~ Backward
          PROVE  inQueue'[w] \/ w \in invalid' \/ w \in forgotten'
      <4>1. ~ inQueue[w]
        BY <1>1, <2>2, <3>3 DEF OwnerInv
      <4> QED
        BY <1>1, <2>1, <3>3, <4>1
    <3> QED
      BY <1>1, <3>1, <3>2, <3>3 DEF ChangesPropagate
<1>11. OwnerInv'
  BY <1>1, <1>5 DEF OwnerInv
<1> QED
  BY <1>1, <1>6, <1>7, <1>8, <1>9, <1>10, <1>11

------------------------------------------------------------------------------
(* The chunks of a level.                                                  *)
LEMMA Multiples ==
  ASSUME NEW k \in Nat, NEW m \in Nat, NEW c \in Nat, k <= m
  PROVE  k * c \in Nat /\ m * c \in Nat /\ k * c <= m * c
<1> DEFINE d == m - k
<1>1. d \in Nat /\ m = k + d
  OBVIOUS
<1>2. k * c \in Nat /\ d * c \in Nat
  OBVIOUS
<1>3. m * c = k * c + d * c
  BY <1>1
<1> QED
  BY <1>2, <1>3

LEMMA Division ==
  ASSUME NEW n \in Nat, NEW c \in Nat \ {0}
  PROVE  /\ n \div c \in Nat
         /\ (n \div c) * c <= n
         /\ n < (n \div c + 1) * c
  OBVIOUS

(* Cut into equal parts, the last of which gets what is left over, a level *)
(* is covered without overlap.                                             *)
LEMMA Chunks ==
  ASSUME NEW n \in Nat, n >= ThreadCount,
         NEW p, NEW h,
         \A k \in Threads : /\ p[k] = k * (n \div ThreadCount) + 1
                            /\ h[k] = IF k = ThreadCount - 1 THEN n
                                      ELSE (k + 1) * (n \div ThreadCount)
  PROVE  /\ \A k \in Threads : p[k] \in Nat /\ p[k] >= 1 /\ h[k] \in 0 .. n
         /\ \A k, m \in Threads : k # m =>
              \A i \in p[k] .. h[k] : i \notin p[m] .. h[m]
         /\ \A i \in 1 .. n : \E k \in Threads : i \in p[k] .. h[k]
<1> DEFINE T == ThreadCount
           c == n \div T
<1>1. T \in Nat \ {0} /\ Threads = 0 .. T - 1
  BY BfsAssumption DEF Threads
<1>2. c \in Nat /\ c * T <= n /\ c >= 1
  <2>1. c \in Nat /\ c * T <= n /\ n < (c + 1) * T
    BY <1>1, Division
  <2>2. c # 0
    BY <1>1, <2>1
  <2> QED
    BY <2>1, <2>2
<1>3. \A k \in Threads : /\ p[k] = k * c + 1
                         /\ h[k] = IF k = T - 1 THEN n ELSE (k + 1) * c
  OBVIOUS
<1> HIDE DEF T, c
<1>4. ASSUME NEW k \in Threads
      PROVE  p[k] \in Nat /\ p[k] >= 1 /\ h[k] \in 0 .. n
  <2>1. k \in Nat /\ k + 1 \in Nat /\ k + 1 <= T
    BY <1>1
  <2>2. k * c \in Nat /\ (k + 1) * c \in Nat /\ (k + 1) * c <= T * c
    BY <1>1, <1>2, <2>1, Multiples
  <2>3. T * c = c * T
    BY <1>1, <1>2
  <2> DEFINE a == k * c
             b == (k + 1) * c
  <2>4. a \in Nat /\ b \in Nat /\ b <= n
    BY <1>1, <1>2, <2>2, <2>3
  <2>5. p[k] = a + 1 /\ h[k] = IF k = T - 1 THEN n ELSE b
    BY <1>3
  <2> HIDE DEF a, b
  <2> QED
    BY <2>4, <2>5
<1>5. ASSUME NEW k \in Threads, NEW m \in Threads, k < m
      PROVE  h[k] < p[m]
  <2>1. k \in Nat /\ m \in Nat /\ k + 1 \in Nat /\ k + 1 <= m /\ k # T - 1
    BY <1>1, <1>5
  <2>2. (k + 1) * c \in Nat /\ m * c \in Nat /\ (k + 1) * c <= m * c
    BY <1>2, <2>1, Multiples
  <2> QED
    BY <1>3, <2>1, <2>2
<1>6. \A k, m \in Threads : k # m =>
        \A i \in p[k] .. h[k] : i \notin p[m] .. h[m]
  <2> SUFFICES ASSUME NEW k \in Threads, NEW m \in Threads, k # m,
                      NEW i \in p[k] .. h[k], i \in p[m] .. h[m]
               PROVE  FALSE
    OBVIOUS
  <2>1. /\ p[k] \in Nat /\ p[m] \in Nat /\ h[k] \in Nat /\ h[m] \in Nat
        /\ i \in Int
    BY <1>2, <1>4
  <2>2. k < m \/ m < k
    BY <1>1
  <2> QED
    BY <1>5, <2>1, <2>2
<1>7. ASSUME NEW i \in 1 .. n
      PROVE  \E k \in Threads : i \in p[k] .. h[k]
  <2> DEFINE d == (i - 1) \div c
  <2>1. d \in Nat /\ d * c <= i - 1 /\ i - 1 < (d + 1) * c
    BY <1>2, Division
  <2> HIDE DEF d
  <2>2. CASE d < T - 1
    <3>1. d \in Threads /\ d # T - 1
      BY <1>1, <2>1, <2>2
    <3>2. d * c \in Nat /\ (d + 1) * c \in Nat
      BY <1>2, <2>1, Multiples
    <3>3. i >= p[d] /\ i <= h[d]
      BY <1>3, <2>1, <3>1, <3>2
    <3> QED
      BY <1>4, <3>1, <3>3
  <2>3. CASE d >= T - 1
    <3>1. T - 1 \in Threads /\ T - 1 \in Nat
      BY <1>1
    <3>2. (T - 1) * c \in Nat /\ d * c \in Nat /\ (T - 1) * c <= d * c
      BY <1>2, <2>1, <2>3, <3>1, Multiples
    <3>3. i >= p[T - 1] /\ i <= h[T - 1]
      BY <1>3, <2>1, <3>1, <3>2
    <3> QED
      BY <1>4, <3>1, <3>3
  <2> QED
    BY <1>1, <2>1, <2>2, <2>3
<1> QED
  BY <1>4, <1>6, <1>7

------------------------------------------------------------------------------
(* The owner's thread.                                                     *)

LEMMA ClearInv ==
  ASSUME Ordered, BfsInv, Clear
  PROVE  BfsInv'
<1> USE DEF BfsInv
<1> DEFINE live == {l \in Levels : LevelLessOrEqual(first, l)
                                     /\ LevelLessOrEqual(l, last)}
           dropped == {v \in Vertices :
                         \E l \in live : \E i \in DOMAIN queue[l] :
                           queue[l][i] = v}
<1>1. /\ cpc = "idle"
      /\ inQueue' = [v \in Vertices |-> inQueue[v] /\ v \notin dropped]
      /\ queue' = [l \in Levels |-> IF l \in live THEN <<>> ELSE queue[l]]
      /\ first' = LevelMax
      /\ last' = LevelMin
      /\ invalid' = {}
      /\ exist' = FALSE
      /\ stale' = {}
      /\ forgotten' = {}
      /\ UNCHANGED <<graph, level, seeding, cpc, toLevel, cur, pos, hi, now,
                     todo, locking, unwritten, visits>>
  BY DEF Clear, threadVars
<1>2. ASSUME NEW v \in Vertices, inQueue[v]
      PROVE  v \in dropped
  <2>1. level[v] \in Levels
    BY DEF TypeOK
  <2>2. level[v] \in live
    BY <1>1, <1>2, <2>1 DEF WithinLevels
  <2> QED
    BY <1>2, <2>2 DEF QueueInv, FlaggedQueued
<1>3. \A v \in Vertices : ~ inQueue'[v]
  BY <1>1, <1>2
<1>4. \A l \in Levels : \A i \in DOMAIN queue'[l] : queue'[l][i] = Null
  <2> SUFFICES ASSUME NEW l \in Levels, NEW i \in DOMAIN queue'[l],
                      queue'[l][i] # Null
               PROVE  FALSE
    OBVIOUS
  <2>1. l \notin live
    BY <1>1
  <2>2. i \in DOMAIN queue[l] /\ queue[l][i] # Null
    BY <1>1, <2>1
  <2>3. /\ queue[l][i] \in Vertices
        /\ level[queue[l][i]] = l
        /\ inQueue[queue[l][i]]
    BY <1>1, <2>2 DEF QueueInv, EntriesLevelled, EntriesFlagged, Open, TypeOK
  <2> QED
    BY <1>1, <2>1, <2>3 DEF WithinLevels
<1>5. TypeOK'
  <2>1. queue' \in [Levels -> Seq(Vertices \cup {Null})]
    BY <1>1, EmptySeq DEF TypeOK
  <2>2. first' \in -1 .. IntMax /\ last' \in 0 .. IntMax
    BY <1>1, LevelTypes
  <2> HIDE DEF live, dropped
  <2>3. inQueue' \in [Vertices -> BOOLEAN]
    BY <1>1 DEF TypeOK
  <2> QED
    BY <1>1, <2>1, <2>2, <2>3 DEF TypeOK
<1> HIDE DEF live, dropped
<1>6. QueueInv'
  BY <1>3, <1>4 DEF QueueInv, EntriesLevelled, EntriesUnique, EntriesFlagged,
     FlaggedQueued
<1>7. FirstInRange'
  BY <1>1, BfsAssumption DEF FirstInRange, LevelMax, IntMax
<1>8. WithinLevels'
  BY <1>3 DEF WithinLevels
<1>9. VisitInv' /\ VisitsInv'
  BY <1>1 DEF VisitInv, AtRest, VisitsInv
<1>10. ChangesPropagate' /\ invalid' \subseteq graph'
  BY <1>1 DEF ChangesPropagate
<1>11. OwnerInv'
  BY <1>1, <1>3 DEF OwnerInv
<1> QED
  BY <1>1, <1>5, <1>6, <1>7, <1>8, <1>9, <1>10, <1>11

LEMMA GiveUpInv ==
  ASSUME Ordered, BfsInv, GiveUp
  PROVE  BfsInv'
<1> USE DEF BfsInv
<1>1. /\ cpc = "idle" /\ Backward /\ exist' = FALSE /\ invalid' = {}
      /\ forgotten' = forgotten \cup invalid
      /\ UNCHANGED <<graph, level, queue, inQueue, first, last, seeding, cpc,
                     toLevel, cur, pos, hi, now, todo, locking, unwritten,
                     stale, visits>>
  BY DEF GiveUp, iterVars, threadVars
<1>2. TypeOK'
  BY <1>1 DEF TypeOK
<1>3. QueueInv' /\ WithinLevels' /\ FirstInRange'
  BY <1>1, QueueFrame DEF Open
<1>4. VisitInv' /\ VisitsInv' /\ OwnerInv'
  BY <1>1 DEF VisitInv, AtRest, VisitsInv, OwnerInv
<1>5. ChangesPropagate'
  BY <1>1 DEF ChangesPropagate, Enqueuing
<1> QED
  BY <1>1, <1>2, <1>3, <1>4, <1>5

LEMMA FindInv ==
  ASSUME Ordered, BfsInv, NEW to \in Levels, Find(to)
  PROVE  BfsInv'
<1> USE DEF BfsInv
<1>1. /\ cpc = "idle" /\ cpc' = "seed" /\ toLevel' = to
      /\ visits' = [v \in Vertices |-> 0]
      /\ invalid' = invalid \cup (IF exist THEN {} ELSE Starts \cap graph)
      /\ UNCHANGED <<graph, level, queue, inQueue, first, last, exist, seeding,
                     cur, pos, hi, now, todo, locking, unwritten, stale,
                     forgotten>>
  BY DEF Find, iterVars, threadVars
<1>2. TypeOK'
  BY <1>1 DEF TypeOK
<1>3. QueueInv' /\ WithinLevels' /\ FirstInRange'
  BY <1>1, QueueFrame DEF Open
<1>4. VisitInv' /\ VisitsInv' /\ OwnerInv'
  BY <1>1 DEF VisitInv, AtRest, VisitsInv, OwnerInv
<1>5. ChangesPropagate'
  BY <1>1 DEF ChangesPropagate, Enqueuing
<1> QED
  BY <1>1, <1>2, <1>3, <1>4, <1>5

LEMMA SeedInv ==
  ASSUME Ordered, BfsInv, NEW v \in Vertices, Seed(v)
  PROVE  BfsInv'
<1> USE DEF BfsInv
<1>1. /\ cpc = "seed" /\ v \in invalid /\ EnqueueLocked(v)
      /\ invalid' = invalid \ {v}
      /\ UNCHANGED <<graph, level, exist, seeding, cpc, toLevel, cur, pos, hi,
                     now, todo, locking, unwritten, stale, forgotten, visits>>
  BY DEF Seed, callVars, threadVars, ghosts
<1>2. /\ queue' \in [Levels -> Seq(Vertices \cup {Null})]
      /\ inQueue' \in [Vertices -> BOOLEAN]
      /\ first' \in -1 .. IntMax /\ last' \in 0 .. IntMax
      /\ FirstInRange' /\ QueueInv' /\ WithinLevels'
      /\ inQueue'[v]
      /\ \A w \in Vertices : w # v => inQueue'[w] = inQueue[w]
  BY <1>1, EnqueueKeeps
<1>3. TypeOK'
  BY <1>1, <1>2 DEF TypeOK
<1>4. VisitInv' /\ VisitsInv' /\ OwnerInv'
  BY <1>1 DEF VisitInv, AtRest, VisitsInv, OwnerInv
<1>5. ChangesPropagate'
  <2>1. stale \subseteq Vertices
    BY DEF TypeOK
  <2> QED
    BY <1>1, <1>2, <2>1 DEF ChangesPropagate, Enqueuing
<1> QED
  BY <1>1, <1>2, <1>3, <1>4, <1>5

LEMMA SeedAdjacentInv ==
  ASSUME Ordered, BfsInv, NEW w \in Vertices, SeedAdjacent(w)
  PROVE  BfsInv'
<1> USE DEF BfsInv
<1>1. /\ cpc = "seed" /\ w \in seeding /\ EnqueueLocked(w)
      /\ seeding' = seeding \ {w}
      /\ UNCHANGED <<graph, level, invalid, exist, cpc, toLevel, cur, pos, hi,
                     now, todo, locking, unwritten, stale, forgotten, visits>>
  BY DEF SeedAdjacent, threadVars, ghosts
<1>2. /\ queue' \in [Levels -> Seq(Vertices \cup {Null})]
      /\ inQueue' \in [Vertices -> BOOLEAN]
      /\ first' \in -1 .. IntMax /\ last' \in 0 .. IntMax
      /\ FirstInRange' /\ QueueInv' /\ WithinLevels'
      /\ inQueue'[w]
      /\ \A x \in Vertices : x # w => inQueue'[x] = inQueue[x]
  <2>1. w \in graph
    BY <1>1 DEF OwnerInv
  <2> QED
    BY <1>1, <2>1, EnqueueKeeps
<1>3. TypeOK'
  BY <1>1, <1>2 DEF TypeOK
<1>4. VisitInv' /\ VisitsInv' /\ OwnerInv'
  BY <1>1 DEF VisitInv, AtRest, VisitsInv, OwnerInv
<1>5. ChangesPropagate'
  <2>1. stale \subseteq Vertices
    BY DEF TypeOK
  <2> QED
    BY <1>1, <1>2, <2>1 DEF ChangesPropagate, Enqueuing
<1> QED
  BY <1>1, <1>2, <1>3, <1>4, <1>5

(* The users of a start that is written are about to be enqueued, or       *)
(* forgotten.                                                              *)
LEMMA SeedStartInv ==
  ASSUME Ordered, BfsInv, NEW v \in Vertices,
         NEW changed \in BOOLEAN, NEW enqueue \in BOOLEAN,
         SeedStart(v, changed, enqueue)
  PROVE  BfsInv'
<1> USE DEF BfsInv
<1>1. PICK users : users = Adjacent(v)
  OBVIOUS
<1>2. /\ cpc = "seed" /\ seeding = {}
      /\ invalid' = invalid \ {v}
      /\ seeding' = IF enqueue THEN users ELSE {}
      /\ stale' = (stale \ {v}) \cup (IF changed THEN users ELSE {})
      /\ forgotten' = (forgotten \ {v})
                       \cup (IF changed /\ ~ enqueue THEN users ELSE {})
      /\ UNCHANGED <<graph, level, queue, inQueue, first, last, exist, cpc,
                     toLevel, cur, pos, hi, now, todo, locking, unwritten,
                     visits>>
  BY <1>1 DEF SeedStart, iterVars, threadVars
<1>3. users \subseteq graph
  BY <1>1 DEF Adjacent
<1>4. TypeOK'
  BY <1>2, <1>3 DEF TypeOK
<1>5. QueueInv' /\ WithinLevels' /\ FirstInRange'
  BY <1>2, QueueFrame DEF Open
<1>6. VisitInv' /\ VisitsInv' /\ OwnerInv'
  BY <1>2, <1>3 DEF VisitInv, AtRest, VisitsInv, OwnerInv
<1>7. ChangesPropagate'
  BY <1>2 DEF ChangesPropagate, Enqueuing
<1> QED
  BY <1>2, <1>4, <1>5, <1>6, <1>7

LEMMA VisitBegins ==
  ASSUME Ordered, BfsInv, Visit
  PROVE  BfsInv'
<1> USE DEF BfsInv
<1>1. /\ cpc = "seed" /\ cpc' = "scan" /\ seeding = {}
      /\ UNCHANGED <<graph, level, queue, inQueue, first, last, invalid,
                     exist, seeding, toLevel, cur, pos, hi, now, todo, locking,
                     unwritten, stale, forgotten, visits>>
  BY DEF Visit, iterVars, threadVars, ghosts
<1>2. TypeOK'
  BY <1>1 DEF TypeOK
<1>3. QueueInv' /\ WithinLevels' /\ FirstInRange'
  BY <1>1, QueueFrame DEF Open
<1>4. VisitInv' /\ VisitsInv' /\ OwnerInv'
  BY <1>1 DEF VisitInv, AtRest, VisitsInv, OwnerInv
<1>5. ChangesPropagate'
  BY <1>1 DEF ChangesPropagate, Enqueuing
<1> QED
  BY <1>1, <1>2, <1>3, <1>4, <1>5

LEMMA ReturnInv ==
  ASSUME Ordered, BfsInv, Return
  PROVE  BfsInv'
<1> USE DEF BfsInv
<1>1. /\ cpc = "scan" /\ cpc' = "idle" /\ exist' = TRUE
      /\ UNCHANGED <<graph, level, queue, inQueue, first, last, invalid,
                     seeding, toLevel, cur, pos, hi, now, todo, locking,
                     unwritten, stale, forgotten, visits>>
  BY DEF Return, iterVars, threadVars, ghosts
<1>2. TypeOK'
  BY <1>1 DEF TypeOK
<1>3. QueueInv' /\ WithinLevels' /\ FirstInRange'
  BY <1>1, QueueFrame DEF Open
<1>4. VisitInv' /\ VisitsInv' /\ OwnerInv'
  BY <1>1 DEF VisitInv, AtRest, VisitsInv, OwnerInv
<1>5. ChangesPropagate'
  BY <1>1 DEF ChangesPropagate, Enqueuing
<1> QED
  BY <1>1, <1>2, <1>3, <1>4, <1>5

(* The level that is taken lies between those of the queue.                *)
LEMMA ScannedLevel ==
  ASSUME TypeOK, FirstInRange, Scanning
  PROVE  /\ first \in Levels /\ first \in Int
         /\ IncrLevel(first) \in -1 .. IntMax
         /\ LevelLess(first, IncrLevel(first))
         /\ IF Backward THEN IncrLevel(first) <= MaxLevel
                        ELSE IncrLevel(first) >= 0
  BY BfsAssumption DEF TypeOK, FirstInRange, Scanning, Levels, IntMax,
     LevelLessOrEqual, LevelLess, IncrLevel

LEMMA VisitLevelInv ==
  ASSUME Ordered, BfsInv, VisitLevel
  PROVE  BfsInv'
<1> USE DEF BfsInv
<1>1. PICK n, c :
        /\ n = Len(queue[first]) /\ c = n \div ThreadCount
        /\ cpc = "scan" /\ Scanning
        /\ cur' = first
        /\ first' = IncrLevel(first)
        /\ cpc' = (IF n = 0 THEN "scan" ELSE "visit")
        /\ IF n >= ThreadCount
             THEN /\ pos' = [k \in Threads |-> k * c + 1]
                  /\ hi' = [k \in Threads |-> IF k = ThreadCount - 1
                                                THEN n ELSE (k + 1) * c]
             ELSE /\ pos' = Idle(1)
                  /\ hi' = [k \in Threads |-> IF k = 0 THEN n ELSE 0]
        /\ UNCHANGED <<graph, level, queue, inQueue, last, invalid, exist,
                       seeding, toLevel, now, todo, locking, unwritten, stale,
                       forgotten, visits>>
  BY Zenon DEF VisitLevel, ghosts
<1>2. /\ first \in Levels /\ first \in Int
      /\ first' \in -1 .. IntMax /\ first' \in Int
      /\ LevelLess(first, first')
      /\ FirstInRange'
  BY <1>1, ScannedLevel, LevelTypes DEF FirstInRange
<1>3. /\ n \in Nat
      /\ DOMAIN queue[first] = 1 .. n
  <2>1. queue[first] \in Seq(Vertices \cup {Null})
    BY <1>2 DEF TypeOK
  <2> QED
    BY <1>1, <2>1, LenProperties
<1>4. /\ \A k \in Threads :
           pos'[k] \in Nat /\ pos'[k] >= 1 /\ hi'[k] \in 0 .. n
      /\ \A k, m \in Threads : k # m =>
           \A i \in pos'[k] .. hi'[k] : i \notin pos'[m] .. hi'[m]
      /\ \A i \in 1 .. n : \E k \in Threads : i \in pos'[k] .. hi'[k]
  <2>1. CASE n >= ThreadCount
    <3>1. \A k \in Threads : /\ pos'[k] = k * (n \div ThreadCount) + 1
                             /\ hi'[k] = IF k = ThreadCount - 1 THEN n
                                         ELSE (k + 1) * (n \div ThreadCount)
      BY <1>1, <2>1
    <3> DEFINE p == pos'
               h == hi'
    <3>2. /\ n \in Nat /\ n >= ThreadCount
          /\ \A k \in Threads : /\ p[k] = k * (n \div ThreadCount) + 1
                                /\ h[k] = IF k = ThreadCount - 1 THEN n
                                          ELSE (k + 1) * (n \div ThreadCount)
      BY <1>3, <2>1, <3>1
    <3> HIDE DEF p, h
    <3>3. /\ \A k \in Threads : p[k] \in Nat /\ p[k] >= 1 /\ h[k] \in 0 .. n
          /\ \A k, m \in Threads : k # m =>
               \A i \in p[k] .. h[k] : i \notin p[m] .. h[m]
          /\ \A i \in 1 .. n : \E k \in Threads : i \in p[k] .. h[k]
      BY <3>2, Chunks, SMTT(60)
    <3> QED
      BY <3>3 DEF p, h
  <2>2. CASE ~ (n >= ThreadCount)
    <3>1. \A k \in Threads :
            pos'[k] = 1 /\ hi'[k] = IF k = 0 THEN n ELSE 0
      BY <1>1, <2>2 DEF Idle
    <3> QED
      BY <1>3, <3>1, LevelTypes
  <2> QED
    BY <2>1, <2>2
<1>5. TypeOK'
  <2>1. /\ pos' \in [Threads -> Nat]
        /\ hi' \in [Threads -> Nat]
    <3>1. /\ DOMAIN pos' = Threads /\ pos' = [k \in Threads |-> pos'[k]]
          /\ DOMAIN hi' = Threads /\ hi' = [k \in Threads |-> hi'[k]]
      BY <1>1 DEF Idle
    <3> QED
      BY <1>3, <1>4, <3>1
  <2>2. cpc' \in {"idle", "seed", "scan", "visit"}
    BY <1>1
  <2> QED
    BY <1>1, <1>2, <2>1, <2>2 DEF TypeOK
<1>6. EntriesLevelled' /\ EntriesUnique'
  BY <1>1 DEF QueueInv, EntriesLevelled, EntriesUnique
<1>7. \A l, i : Open(l, i)
  BY <1>1 DEF Open
<1>8. EntriesFlagged'
  BY <1>1, <1>7 DEF QueueInv, EntriesFlagged
<1>9. ASSUME NEW v \in Vertices, inQueue[v]
      PROVE  /\ level[v] \in Int
             /\ LevelLess(first, level[v]) \/ (level[v] = first /\ n # 0)
             /\ LevelLessOrEqual(level[v], last)
  <2>1. level[v] \in Int
    BY LevelTypes DEF TypeOK
  <2>2. LevelLessOrEqual(first, level[v]) /\ LevelLessOrEqual(level[v], last)
    BY <1>1, <1>9 DEF WithinLevels
  <2>3. level[v] = first => n # 0
    BY <1>3, <1>9 DEF QueueInv, FlaggedQueued
  <2> QED
    BY <1>2, <2>1, <2>2, <2>3, LevelOrder
<1>10. \A k \in Threads : AtRest(k)
  BY <1>1 DEF VisitInv
<1>11. \A v \in Vertices : level[v] \in Int
  BY LevelTypes DEF TypeOK
<1>12. OwnerInv'
  BY <1>1 DEF OwnerInv
<1>13. CASE n = 0
  <2>1. cpc' = "scan"
    BY <1>1, <1>13
  <2>2. FlaggedQueued'
    BY <1>1, <2>1 DEF QueueInv, FlaggedQueued, Open
  <2>3. WithinLevels'
    BY <1>1, <1>2, <1>9, <1>13, LevelOrder DEF WithinLevels
  <2>4. VisitInv'
    BY <1>1, <1>10, <2>1 DEF VisitInv, AtRest
  <2>5. VisitsInv'
    BY <1>1, <1>2, <1>11, <2>1, LevelOrder DEF VisitsInv
  <2>6. ChangesPropagate'
    BY <1>1 DEF ChangesPropagate, Enqueuing
  <2> QED
    BY <1>1, <1>2, <1>5, <1>6, <1>8, <1>12, <2>2, <2>3, <2>4, <2>5, <2>6 DEF QueueInv
<1>14. CASE n # 0
  <2>1. cpc' = "visit"
    BY <1>1, <1>14
  <2>2. ASSUME NEW i \in DOMAIN queue[first]
        PROVE  Waiting(i)'
    <3>1. PICK k \in Threads : i \in pos'[k] .. hi'[k]
      BY <1>3, <1>4
    <3>2. now'[k] = {}
      BY <1>1, <1>10 DEF AtRest
    <3> QED
      BY <3>1, <3>2 DEF Waiting
  <2>3. FlaggedQueued'
    <3> SUFFICES ASSUME NEW v \in Vertices, inQueue[v]
                 PROVE  \E i \in DOMAIN queue[level[v]] :
                          queue[level[v]][i] = v /\ Open(level[v], i)'
      BY <1>1 DEF FlaggedQueued
    <3>1. PICK i \in DOMAIN queue[level[v]] : queue[level[v]][i] = v
      BY DEF QueueInv, FlaggedQueued
    <3>2. Open(level[v], i)'
      <4>1. CASE level[v] = first
        BY <4>1, <2>2, <3>1 DEF Open
      <4>2. CASE level[v] # first
        BY <4>2, <1>1 DEF Open
      <4> QED
        BY <4>1, <4>2
    <3> QED
      BY <3>1, <3>2
  <2>4. WithinLevels'
    BY <1>1, <1>2, <1>9, <2>1, LevelOrder DEF WithinLevels
  <2>5. \A k \in Threads : Hands(k)'
    BY <1>1, <1>3, <1>4, <1>10 DEF Hands, AtRest
  <2>6. VisitInv'
    BY <1>1, <1>2, <1>4, <2>1, <2>5 DEF VisitInv, Apart
  <2>7. VisitsInv'
    BY <1>1, <1>2, <1>11, <2>1, LevelOrder DEF VisitsInv
  <2>8. ChangesPropagate'
    BY <1>1 DEF ChangesPropagate, Enqueuing
  <2> QED
    BY <1>1, <1>2, <1>5, <1>6, <1>8, <1>12, <2>3, <2>4, <2>6, <2>7, <2>8
       DEF QueueInv
<1> QED
  BY <1>13, <1>14

LEMMA LevelFinishedInv ==
  ASSUME Ordered, BfsInv, LevelFinished
  PROVE  BfsInv'
<1> USE DEF BfsInv
<1>1. /\ cpc = "visit" /\ cpc' = "scan"
      /\ \A k \in Threads : Finished(k)
      /\ queue' = [queue EXCEPT ![cur] = <<>>]
      /\ UNCHANGED <<graph, level, inQueue, first, last, invalid, exist,
                     seeding, toLevel, cur, pos, hi, now, todo, locking,
                     unwritten, stale, forgotten, visits>>
  BY DEF LevelFinished, threadVars, ghosts
<1>2. /\ cur \in Levels /\ cur \in Int /\ first \in Int
      /\ LevelLess(cur, first)
      /\ \A k \in Threads : Hands(k)
      /\ \A v \in Vertices : level[v] \in Int
  <2>1. cur \in Levels /\ first \in Int /\ cur \in Int
    BY LevelTypes DEF TypeOK
  <2>2. \A v \in Vertices : level[v] \in Int
    BY LevelTypes DEF TypeOK
  <2>3. LevelLess(cur, first) /\ \A k \in Threads : Hands(k)
    BY <1>1 DEF VisitInv
  <2> QED
    BY <2>1, <2>2, <2>3
<1>3. TypeOK'
  <2>1. queue' \in [Levels -> Seq(Vertices \cup {Null})]
    <3>1. <<>> \in Seq(Vertices \cup {Null})
      BY EmptySeq
    <3>2. queue \in [Levels -> Seq(Vertices \cup {Null})]
      BY DEF TypeOK
    <3> QED
      BY <1>1, <3>1, <3>2
  <2> QED
    BY <1>1, <2>1 DEF TypeOK
<1>4. /\ DOMAIN queue'[cur] = {}
      /\ \A l \in Levels : l # cur => queue'[l] = queue[l]
  BY <1>1, <1>2 DEF TypeOK
<1>5. ASSUME NEW i, Waiting(i)
      PROVE  FALSE
  <2>1. PICK k \in Threads : i \in pos[k] .. hi[k]
    BY <1>5 DEF Waiting
  <2>2. pos[k] \in Nat /\ hi[k] \in Nat /\ pos[k] > hi[k]
    BY <1>1 DEF Finished, TypeOK
  <2> QED
    BY <2>1, <2>2
<1>6. ASSUME NEW v \in Vertices, inQueue[v]
      PROVE  level[v] # cur
  BY <1>1, <1>5, <1>6 DEF QueueInv, FlaggedQueued, Open
<1>7. EntriesLevelled' /\ EntriesUnique'
  BY <1>1, <1>4 DEF QueueInv, EntriesLevelled, EntriesUnique
<1>8. EntriesFlagged'
  BY <1>1, <1>4 DEF QueueInv, EntriesFlagged, Open
<1>9. FlaggedQueued'
  <2>1. \A v \in Vertices : level[v] \in Levels
    BY DEF TypeOK
  <2> QED
    BY <1>1, <1>4, <1>6, <2>1 DEF QueueInv, FlaggedQueued, Open
<1>10. WithinLevels' /\ FirstInRange'
  BY <1>1, <1>6 DEF WithinLevels, FirstInRange
<1>11. VisitInv'
  BY <1>1, <1>2 DEF VisitInv, Hands, Finished, AtRest
<1>12. VisitsInv'
  BY <1>1, <1>2, LevelOrder DEF VisitsInv
<1>13. ChangesPropagate' /\ OwnerInv'
  BY <1>1 DEF ChangesPropagate, Enqueuing, OwnerInv
<1> QED
  BY <1>1, <1>3, <1>7, <1>8, <1>9, <1>10, <1>11, <1>12, <1>13 DEF QueueInv

------------------------------------------------------------------------------
(* The threads of a level.                                                 *)

(* A thread acts only while a level is visited.                            *)
LEMMA ThreadFacts ==
  ASSUME BfsInv, NEW k \in Threads,
         cpc = "visit" \/ now[k] # {} \/ todo[k] # {} \/ locking[k] # {}
                       \/ unwritten[k] # {}
  PROVE  /\ cpc = "visit"
         /\ cur \in Levels /\ cur \in Int
         /\ queue[cur] \in Seq(Vertices \cup {Null})
         /\ DOMAIN queue[cur] = 1 .. Len(queue[cur])
         /\ Len(queue[cur]) \in Nat
         /\ Apart
         /\ LevelLess(cur, first)
         /\ \A m \in Threads : Hands(m)
         /\ pos \in [Threads -> Nat] /\ hi \in [Threads -> Nat]
<1> USE DEF BfsInv
<1>1. cpc = "visit"
  BY DEF VisitInv, AtRest
<1>2. cur \in Levels /\ cur \in Int
  BY LevelTypes DEF TypeOK
<1>3. queue[cur] \in Seq(Vertices \cup {Null})
  BY <1>2 DEF TypeOK
<1>4. DOMAIN queue[cur] = 1 .. Len(queue[cur]) /\ Len(queue[cur]) \in Nat
  BY <1>3, LenProperties
<1>5. Apart /\ LevelLess(cur, first) /\ \A m \in Threads : Hands(m)
  BY <1>1 DEF VisitInv
<1> QED
  BY <1>1, <1>2, <1>3, <1>4, <1>5 DEF TypeOK

LEMMA SkipNullInv ==
  ASSUME Ordered, BfsInv, NEW k \in Threads, SkipNull(k)
  PROVE  BfsInv'
<1> USE DEF BfsInv
<1>1. /\ cpc = "visit" /\ now[k] = {} /\ pos[k] <= hi[k]
      /\ queue[cur][pos[k]] = Null
      /\ pos' = [pos EXCEPT ![k] = @ + 1]
      /\ UNCHANGED <<graph, level, queue, inQueue, first, last, invalid, exist,
                     seeding, cpc, toLevel, cur, hi, now, todo, locking,
                     unwritten, stale, forgotten, visits>>
  BY DEF SkipNull, Entry, iterVars, callVars, ghosts
<1>2. /\ Apart /\ LevelLess(cur, first)
      /\ \A m \in Threads : Hands(m)
      /\ pos \in [Threads -> Nat] /\ hi \in [Threads -> Nat]
  BY <1>1, ThreadFacts
<1>3. /\ pos'[k] = pos[k] + 1
      /\ \A m \in Threads : m # k => pos'[m] = pos[m]
      /\ pos' \in [Threads -> Nat]
  BY <1>1, <1>2
<1>4. TypeOK'
  BY <1>1, <1>3 DEF TypeOK
<1>5. ASSUME NEW i, Waiting(i)'
      PROVE  Waiting(i)
  <2>1. PICK m \in Threads :
          i \in pos'[m] .. hi[m] /\ (now[m] = {} \/ i # pos'[m])
    BY <1>1, <1>5 DEF Waiting
  <2>2. i \in pos[m] .. hi[m] /\ (now[m] = {} \/ i # pos[m])
    BY <1>1, <1>2, <1>3, <2>1
  <2> QED
    BY <2>2 DEF Waiting
<1>6. ASSUME NEW i, Waiting(i), i # pos[k]
      PROVE  Waiting(i)'
  <2>1. PICK m \in Threads :
          i \in pos[m] .. hi[m] /\ (now[m] = {} \/ i # pos[m])
    BY <1>6 DEF Waiting
  <2>2. i \in pos'[m] .. hi[m] /\ (now[m] = {} \/ i # pos'[m])
    BY <1>1, <1>2, <1>3, <1>6, <2>1
  <2> QED
    BY <1>1, <2>2 DEF Waiting
<1>7. EntriesLevelled' /\ EntriesUnique'
  BY <1>1 DEF QueueInv, EntriesLevelled, EntriesUnique
<1>8. EntriesFlagged'
  BY <1>1, <1>5 DEF QueueInv, EntriesFlagged, Open
<1>9. FlaggedQueued'
  <2> SUFFICES ASSUME NEW v \in Vertices, inQueue[v]
               PROVE  \E i \in DOMAIN queue[level[v]] :
                        queue[level[v]][i] = v /\ Open(level[v], i)'
    BY <1>1 DEF FlaggedQueued
  <2>1. PICK i \in DOMAIN queue[level[v]] :
          queue[level[v]][i] = v /\ Open(level[v], i)
    BY DEF QueueInv, FlaggedQueued
  <2>2. v # Null
    BY BfsAssumption
  <2>3. cur = level[v] => i # pos[k]
    BY <1>1, <2>1, <2>2
  <2>4. Open(level[v], i)'
    BY <1>1, <1>6, <2>1, <2>3 DEF Open
  <2> QED
    BY <2>1, <2>4
<1>10. WithinLevels' /\ FirstInRange'
  BY <1>1 DEF WithinLevels, FirstInRange
<1>11. ASSUME NEW m \in Threads
       PROVE  Hands(m)'
  <2>1. Hands(m) /\ pos[m] \in Nat
    BY <1>2
  <2>2. CASE m = k
    BY <1>1, <1>3, <2>1, <2>2 DEF Hands
  <2>3. CASE m # k
    BY <1>1, <1>3, <2>1, <2>3 DEF Hands
  <2> QED
    BY <2>2, <2>3
<1>12. Apart'
  <2>1. \A m \in Threads : pos[m] \in Nat /\ hi[m] \in Nat
                           /\ pos'[m] \in Nat /\ pos'[m] >= pos[m]
    BY <1>2, <1>3
  <2>2. \A m \in Threads : \A i \in pos'[m] .. hi[m] : i \in pos[m] .. hi[m]
    BY <2>1
  <2> QED
    BY <1>1, <1>2, <2>2 DEF Apart
<1>13. VisitInv'
  BY <1>1, <1>2, <1>11, <1>12 DEF VisitInv
<1>14. VisitsInv' /\ ChangesPropagate' /\ OwnerInv'
  BY <1>1 DEF VisitsInv, ChangesPropagate, Enqueuing, OwnerInv
<1> QED
  BY <1>1, <1>4, <1>7, <1>8, <1>9, <1>10, <1>13, <1>14 DEF QueueInv

LEMMA LeaveInv ==
  ASSUME Ordered, BfsInv, NEW k \in Threads, Leave(k)
  PROVE  BfsInv'
<1> USE DEF BfsInv
<1>1. /\ now[k] # {} /\ todo[k] = {} /\ locking[k] = {}
      /\ unwritten[k] = {}
      /\ now' = [now EXCEPT ![k] = {}]
      /\ pos' = [pos EXCEPT ![k] = @ + 1]
      /\ UNCHANGED <<graph, level, queue, inQueue, first, last, invalid, exist,
                     seeding, cpc, toLevel, cur, hi, todo, locking, unwritten,
                     stale, forgotten, visits>>
  BY DEF Leave, iterVars, callVars, ghosts
<1>2. /\ cpc = "visit" /\ Apart /\ LevelLess(cur, first)
      /\ \A m \in Threads : Hands(m)
      /\ pos \in [Threads -> Nat] /\ hi \in [Threads -> Nat]
  BY <1>1, ThreadFacts
<1>3. /\ pos'[k] = pos[k] + 1
      /\ \A m \in Threads : m # k => pos'[m] = pos[m]
      /\ pos' \in [Threads -> Nat]
  BY <1>1, <1>2
<1>4. /\ now'[k] = {}
      /\ \A m \in Threads : m # k => now'[m] = now[m]
      /\ now' \in [Threads -> SUBSET Vertices]
  BY <1>1 DEF TypeOK
<1>5. TypeOK'
  BY <1>1, <1>3, <1>4 DEF TypeOK
<1>6. ASSUME NEW i, NEW m \in Threads
      PROVE  i \in pos'[m] .. hi'[m] /\ (now'[m] = {} \/ i # pos'[m])
               <=> i \in pos[m] .. hi[m] /\ (now[m] = {} \/ i # pos[m])
  <2>1. CASE m = k
    BY <1>1, <1>2, <1>3, <1>4, <2>1
  <2>2. CASE m # k
    BY <1>1, <1>3, <1>4, <2>2
  <2> QED
    BY <2>1, <2>2
<1>7. \A i : Waiting(i)' <=> Waiting(i)
  BY <1>6 DEF Waiting
<1>8. \A l, i : Open(l, i)' <=> Open(l, i)
  BY <1>1, <1>7 DEF Open
<1>9. QueueInv' /\ WithinLevels' /\ FirstInRange'
  BY <1>1, <1>8, QueueFrame
<1>10. ASSUME NEW m \in Threads
       PROVE  Hands(m)'
  <2>1. Hands(m) /\ pos[m] \in Nat
    BY <1>2
  <2>2. CASE m = k
    BY <1>1, <1>3, <1>4, <2>1, <2>2 DEF Hands
  <2>3. CASE m # k
    BY <1>1, <1>3, <1>4, <2>1, <2>3 DEF Hands
  <2> QED
    BY <2>2, <2>3
<1>11. Apart'
  <2>1. \A m \in Threads : pos[m] \in Nat /\ hi[m] \in Nat
                           /\ pos'[m] \in Nat /\ pos'[m] >= pos[m]
    BY <1>2, <1>3
  <2>2. \A m \in Threads : \A i \in pos'[m] .. hi[m] : i \in pos[m] .. hi[m]
    BY <2>1
  <2> QED
    BY <1>1, <1>2, <2>2 DEF Apart
<1>12. VisitInv'
  BY <1>1, <1>2, <1>10, <1>11 DEF VisitInv
<1>13. VisitsInv' /\ ChangesPropagate' /\ OwnerInv'
  BY <1>1 DEF VisitsInv, ChangesPropagate, Enqueuing, OwnerInv
<1> QED
  BY <1>1, <1>5, <1>9, <1>12, <1>13

LEMMA TakeInv ==
  ASSUME Ordered, BfsInv, NEW k \in Threads,
         NEW changed \in BOOLEAN, NEW enqueue \in BOOLEAN,
         Take(k, changed, enqueue)
  PROVE  BfsInv'
<1> USE DEF BfsInv
<1>1. PICK v, users, enqueued :
        /\ v = queue[cur][pos[k]] /\ v # Null
        /\ users = (IF changed THEN Adjacent(v) ELSE {}) \cup Reseeded(v)
        /\ enqueued = (IF enqueue THEN Adjacent(v) ELSE {}) \cup Reseeded(v)
        /\ cpc = "visit" /\ now[k] = {} /\ pos[k] <= hi[k]
        /\ changed => enqueue
        /\ inQueue' = [inQueue EXCEPT ![v] = FALSE]
        /\ now' = [now EXCEPT ![k] = {v}]
        /\ todo' = [todo EXCEPT ![k] = enqueued]
        /\ unwritten' = [unwritten EXCEPT ![k] = users]
        /\ stale' = stale \ {v}
        /\ forgotten' = forgotten \ {v}
        /\ visits' = [visits EXCEPT ![v] = @ + 1]
        /\ UNCHANGED <<graph, level, queue, first, last, invalid, exist,
                       seeding, cpc, toLevel, cur, pos, hi, locking>>
  BY Zenon DEF Take, Entry, callVars
<1>2. /\ cur \in Levels /\ cur \in Int
      /\ DOMAIN queue[cur] = 1 .. Len(queue[cur])
      /\ Len(queue[cur]) \in Nat
      /\ Apart /\ LevelLess(cur, first)
      /\ \A m \in Threads : Hands(m)
      /\ pos \in [Threads -> Nat] /\ hi \in [Threads -> Nat]
  BY <1>1, ThreadFacts
<1>3. /\ pos[k] \in DOMAIN queue[cur]
      /\ pos[k] \in pos[k] .. hi[k]
      /\ todo[k] = {} /\ locking[k] = {} /\ unwritten[k] = {}
  <2>1. pos[k] \in Nat /\ hi[k] \in Nat /\ Hands(k)
    BY <1>2
  <2> QED
    BY <1>1, <1>2, <2>1 DEF Hands
<1>4. /\ v \in graph /\ v \in Vertices
      /\ level[v] = cur
      /\ inQueue[v]
  <2>1. v \in graph /\ level[v] = cur
    BY <1>1, <1>2, <1>3 DEF QueueInv, EntriesLevelled
  <2>2. Waiting(pos[k])
    BY <1>1, <1>3 DEF Waiting
  <2>3. inQueue[v]
    BY <1>1, <1>2, <1>3, <2>2 DEF QueueInv, EntriesFlagged, Open
  <2> QED
    BY <2>1, <2>3 DEF TypeOK
<1>5. \A w \in users \cup enqueued : w \in graph /\ LevelLess(cur, level[w])
  BY <1>1, <1>4, UsersLater
<1>6. users \subseteq enqueued
  BY <1>1
<1>7. /\ inQueue' \in [Vertices -> BOOLEAN]
      /\ \A w \in Vertices : inQueue'[w] <=> inQueue[w] /\ w # v
      /\ \A w \in Vertices : w # v => visits'[w] = visits[w]
      /\ visits'[v] = visits[v] + 1
      /\ visits' \in [Vertices -> Nat]
  <2>1. inQueue \in [Vertices -> BOOLEAN] /\ visits \in [Vertices -> Nat]
    BY DEF TypeOK
  <2> QED
    BY <1>1, <1>4, <2>1
<1>8. /\ now'[k] = {v} /\ todo'[k] = enqueued /\ unwritten'[k] = users
      /\ \A m \in Threads : m # k => /\ now'[m] = now[m]
                                     /\ todo'[m] = todo[m]
                                     /\ unwritten'[m] = unwritten[m]
      /\ now' \in [Threads -> SUBSET Vertices]
      /\ todo' \in [Threads -> SUBSET Vertices]
      /\ unwritten' \in [Threads -> SUBSET Vertices]
  <2>1. graph \subseteq Vertices
    BY DEF TypeOK
  <2>2. users \subseteq Vertices /\ enqueued \subseteq Vertices
    BY <1>5, <2>1
  <2> QED
    BY <1>1, <1>4, <2>2 DEF TypeOK
<1>9. TypeOK'
  BY <1>1, <1>7, <1>8 DEF TypeOK
<1>10. ASSUME NEW i
       PROVE  Waiting(i)' <=> Waiting(i) /\ i # pos[k]
  <2>1. \A m \in Threads : m # k => pos[k] \notin pos[m] .. hi[m]
    BY <1>2, <1>3 DEF Apart
  <2>2. \A m \in Threads :
          i \in pos'[m] .. hi'[m] /\ (now'[m] = {} \/ i # pos'[m]) <=>
            i \in pos[m] .. hi[m] /\ (now[m] = {} \/ i # pos[m]) /\ i # pos[k]
    BY <1>1, <1>8, <2>1
  <2> QED
    BY <2>2 DEF Waiting
<1>11. EntriesLevelled' /\ EntriesUnique'
  BY <1>1 DEF QueueInv, EntriesLevelled, EntriesUnique
<1>12. EntriesFlagged'
  <2> SUFFICES ASSUME NEW l \in Levels, NEW i \in DOMAIN queue[l],
                      queue[l][i] # Null, cur = l => Waiting(i)'
               PROVE  inQueue'[queue[l][i]]
    BY <1>1 DEF EntriesFlagged, Open
  <2>1. Open(l, i)
    BY <1>10 DEF Open
  <2>2. queue[l][i] \in Vertices /\ level[queue[l][i]] = l
    BY DEF QueueInv, EntriesLevelled, TypeOK
  <2>3. inQueue[queue[l][i]]
    BY <2>1 DEF QueueInv, EntriesFlagged
  <2>4. queue[l][i] # v
    <3> SUFFICES ASSUME queue[l][i] = v PROVE FALSE
      OBVIOUS
    <3>1. l = cur
      BY <1>4, <2>2
    <3>2. i = pos[k]
      BY <1>1, <1>2, <1>3, <3>1 DEF QueueInv, EntriesUnique
    <3> QED
      BY <1>10, <3>1, <3>2
  <2> QED
    BY <1>7, <2>2, <2>3, <2>4
<1>13. FlaggedQueued'
  <2> SUFFICES ASSUME NEW w \in Vertices, inQueue'[w]
               PROVE  \E i \in DOMAIN queue[level[w]] :
                        queue[level[w]][i] = w /\ Open(level[w], i)'
    BY <1>1 DEF FlaggedQueued
  <2>1. inQueue[w] /\ w # v
    BY <1>7
  <2>2. PICK i \in DOMAIN queue[level[w]] :
          queue[level[w]][i] = w /\ Open(level[w], i)
    BY <2>1 DEF QueueInv, FlaggedQueued
  <2>3. cur = level[w] => i # pos[k]
    BY <1>1, <2>1, <2>2
  <2>4. Open(level[w], i)'
    BY <1>1, <1>10, <2>2, <2>3 DEF Open
  <2> QED
    BY <2>2, <2>4
<1>14. WithinLevels' /\ FirstInRange'
  BY <1>1, <1>7 DEF WithinLevels, FirstInRange
<1>15. ASSUME NEW m \in Threads
       PROVE  Hands(m)'
  <2>1. Hands(m)
    BY <1>2
  <2>2. CASE m = k
    <3>1. now'[m] = {queue'[cur'][pos'[m]]} /\ queue'[cur'][pos'[m]] # Null
      BY <1>1, <1>8, <2>2
    <3>2. pos'[m] >= 1 /\ hi'[m] <= Len(queue'[cur']) /\ pos'[m] <= hi'[m]
      BY <1>1, <2>1, <2>2 DEF Hands
    <3>3. locking'[m] = {}
      BY <1>1, <1>3, <2>2
    <3>4. \A w \in todo'[m] \cup locking'[m] \cup unwritten'[m] :
            w \in graph' /\ LevelLess(cur', level'[w])
      BY <1>1, <1>5, <1>8, <2>2, <3>3
    <3>5. \A w \in unwritten'[m] : w \in todo'[m]
      BY <1>6, <1>8, <2>2
    <3> QED
      BY <3>1, <3>2, <3>3, <3>4, <3>5 DEF Hands
  <2>3. CASE m # k
    <3>1. \A w \in unwritten[m] : w \in Vertices /\ w # v
      BY <1>2, <1>4, <2>1, LevelOrder DEF Hands, TypeOK
    <3>2. \A w \in unwritten[m] : inQueue'[w] <=> inQueue[w]
      BY <1>7, <3>1
    <3> QED
      BY <1>1, <1>8, <2>1, <2>3, <3>2 DEF Hands
  <2> QED
    BY <2>2, <2>3
<1>16. VisitInv'
  BY <1>1, <1>2, <1>15 DEF VisitInv, Apart
<1>17. ChangesPropagate'
  <2> SUFFICES ASSUME NEW w \in stale, w # v
               PROVE  \/ inQueue'[w] \/ w \in invalid \/ w \in Enqueuing'
                      \/ w \in forgotten
    BY <1>1 DEF ChangesPropagate
  <2>1. /\ w \in Vertices
        /\ inQueue[w] \/ w \in invalid \/ w \in Enqueuing \/ w \in forgotten
    BY DEF ChangesPropagate, TypeOK
  <2>2. w \in Enqueuing => w \in Enqueuing'
    BY <1>1, <1>3, <1>8 DEF Enqueuing
  <2> QED
    BY <1>7, <2>1, <2>2
<1>18. VisitsInv'
  <2>1. visits[v] = 0
    BY <1>1, <1>2, <1>4, LevelOrder DEF VisitsInv, TypeOK
  <2> QED
    BY <1>1, <1>4, <1>7, <2>1 DEF VisitsInv
<1>19. OwnerInv'
  BY <1>1 DEF OwnerInv
<1> QED
  BY <1>1, <1>9, <1>11, <1>12, <1>13, <1>14, <1>16, <1>17, <1>18, <1>19
     DEF QueueInv

LEMMA LookupInv ==
  ASSUME Ordered, BfsInv, NEW k \in Threads, NEW w \in Vertices, Lookup(k, w)
  PROVE  BfsInv'
<1> USE DEF BfsInv
<1>1. /\ w \in todo[k] /\ locking[k] = {}
      /\ todo' = [todo EXCEPT ![k] = @ \ {w}]
      /\ locking' = [locking EXCEPT ![k] = IF inQueue[w] THEN {} ELSE {w}]
      /\ UNCHANGED <<graph, level, queue, inQueue, first, last, invalid, exist,
                     seeding, cpc, toLevel, cur, pos, hi, now, unwritten,
                     stale, forgotten, visits>>
  BY DEF Lookup, iterVars, callVars, ghosts
<1>2. /\ cpc = "visit" /\ Apart /\ LevelLess(cur, first)
      /\ \A m \in Threads : Hands(m)
  BY <1>1, ThreadFacts
<1>3. /\ todo'[k] = todo[k] \ {w}
      /\ locking'[k] = IF inQueue[w] THEN {} ELSE {w}
      /\ \A m \in Threads : m # k => /\ todo'[m] = todo[m]
                                     /\ locking'[m] = locking[m]
      /\ todo' \in [Threads -> SUBSET Vertices]
      /\ locking' \in [Threads -> SUBSET Vertices]
  BY <1>1 DEF TypeOK
<1>4. TypeOK'
  BY <1>1, <1>3 DEF TypeOK
<1>5. QueueInv' /\ WithinLevels' /\ FirstInRange'
  BY <1>1, QueueFrame DEF Open, Waiting
<1>6. ASSUME NEW m \in Threads
      PROVE  Hands(m)'
  <2>1. Hands(m)
    BY <1>2
  <2>2. CASE m = k
    <3>1. now[m] # {}
      BY <1>1, <2>1, <2>2 DEF Hands
    <3>2. todo'[m] \cup locking'[m] \subseteq todo[m]
      BY <1>1, <1>3, <2>2
    <3>3. \A x \in unwritten[m] : inQueue[x] \/ x \in todo'[m] \cup locking'[m]
      BY <1>1, <1>3, <2>1, <2>2 DEF Hands
    <3>4. \A x, y \in locking'[m] : x = y
      BY <1>3, <2>2
    <3> QED
      BY <1>1, <2>1, <3>1, <3>2, <3>3, <3>4 DEF Hands
  <2>3. CASE m # k
    BY <1>1, <1>3, <2>1, <2>3 DEF Hands
  <2> QED
    BY <2>2, <2>3
<1>7. VisitInv'
  BY <1>1, <1>2, <1>6 DEF VisitInv, Apart
<1>8. ChangesPropagate'
  <2>1. \A x \in Enqueuing : x \in Enqueuing' \/ inQueue[x]
    BY <1>1, <1>3 DEF Enqueuing
  <2> QED
    BY <1>1, <2>1 DEF ChangesPropagate
<1>9. VisitsInv' /\ OwnerInv'
  BY <1>1 DEF VisitsInv, OwnerInv
<1> QED
  BY <1>1, <1>4, <1>5, <1>7, <1>8, <1>9

LEMMA InsertInv ==
  ASSUME Ordered, BfsInv, NEW k \in Threads, NEW w \in Vertices, Insert(k, w)
  PROVE  BfsInv'
<1> USE DEF BfsInv
<1>1. /\ w \in locking[k] /\ EnqueueLocked(w)
      /\ locking' = [locking EXCEPT ![k] = {}]
      /\ UNCHANGED <<graph, level, invalid, exist, seeding, cpc, toLevel, cur,
                     pos, hi, now, todo, unwritten, stale, forgotten, visits>>
  BY DEF Insert, callVars, ghosts
<1>2. /\ cpc = "visit" /\ Apart /\ LevelLess(cur, first)
      /\ cur \in Int
      /\ \A m \in Threads : Hands(m)
  BY <1>1, ThreadFacts
<1>3. w \in graph /\ LevelLess(cur, level[w]) /\ \A x \in locking[k] : x = w
  BY <1>1, <1>2 DEF Hands
<1>4. /\ queue' \in [Levels -> Seq(Vertices \cup {Null})]
      /\ inQueue' \in [Vertices -> BOOLEAN]
      /\ first' \in -1 .. IntMax /\ last' \in 0 .. IntMax
      /\ FirstInRange' /\ QueueInv' /\ WithinLevels'
      /\ inQueue'[w]
      /\ \A x \in Vertices : x # w => inQueue'[x] = inQueue[x]
      /\ queue'[cur] = queue[cur]
      /\ LevelLess(cur, first')
  BY <1>1, <1>2, <1>3, EnqueueKeeps
<1>5. /\ locking'[k] = {}
      /\ \A m \in Threads : m # k => locking'[m] = locking[m]
      /\ locking' \in [Threads -> SUBSET Vertices]
  BY <1>1 DEF TypeOK
<1>6. TypeOK'
  BY <1>1, <1>4, <1>5 DEF TypeOK
<1>7. ASSUME NEW m \in Threads
      PROVE  Hands(m)'
  <2>1. Hands(m) /\ unwritten[m] \subseteq Vertices
    BY <1>2 DEF TypeOK
  <2>2. \A x \in unwritten[m] :
          inQueue'[x] \/ x \in todo[m] \cup locking'[m]
    BY <1>3, <1>4, <1>5, <2>1 DEF Hands
  <2>3. locking'[m] \subseteq locking[m]
    BY <1>5
  <2>4. UNCHANGED <<pos[m], hi[m], now[m], todo[m], unwritten[m], cur, graph,
                    level, queue[cur]>>
    BY <1>1, <1>4
  <2> QED
    BY <2>1, <2>2, <2>3, <2>4 DEF Hands
<1>8. VisitInv'
  BY <1>1, <1>2, <1>4, <1>7 DEF VisitInv, Apart
<1>9. ChangesPropagate'
  <2> SUFFICES ASSUME NEW x \in stale
               PROVE  \/ inQueue'[x] \/ x \in invalid \/ x \in Enqueuing'
                      \/ x \in forgotten
    BY <1>1 DEF ChangesPropagate
  <2>1. /\ x \in Vertices
        /\ inQueue[x] \/ x \in invalid \/ x \in Enqueuing \/ x \in forgotten
    BY DEF ChangesPropagate, TypeOK
  <2>2. x \in Enqueuing => x \in Enqueuing' \/ x = w
    BY <1>1, <1>3, <1>5 DEF Enqueuing
  <2> QED
    BY <1>4, <2>1, <2>2
<1>10. VisitsInv'
  <2> SUFFICES ASSUME NEW x \in Vertices
               PROVE  /\ visits[x] <= 1
                      /\ visits[x] > 0 =>
                           \/ LevelLess(level[x], cur)
                           \/ level[x] = cur /\ ~ inQueue'[x]
    BY <1>1, <1>2 DEF VisitsInv
  <2>1. level[x] \in Int
    BY LevelTypes DEF TypeOK
  <2>2. /\ visits[x] <= 1
        /\ visits[x] > 0 => \/ LevelLess(level[x], cur)
                            \/ level[x] = cur /\ ~ inQueue[x]
    BY <1>2 DEF VisitsInv
  <2>3. level[x] = cur => x # w
    BY <1>2, <1>3, LevelOrder
  <2> QED
    BY <1>4, <2>2, <2>3
<1>11. OwnerInv'
  BY <1>1, <1>2 DEF OwnerInv
<1> QED
  BY <1>1, <1>4, <1>6, <1>8, <1>9, <1>10, <1>11

LEMMA WriteInv ==
  ASSUME Ordered, BfsInv, NEW k \in Threads, Write(k)
  PROVE  BfsInv'
<1> USE DEF BfsInv
<1>1. /\ unwritten[k] # {}
      /\ stale' = stale \cup unwritten[k]
      /\ unwritten' = [unwritten EXCEPT ![k] = {}]
      /\ UNCHANGED <<graph, level, queue, inQueue, first, last, invalid, exist,
                     seeding, cpc, toLevel, cur, pos, hi, now, todo, locking,
                     forgotten, visits>>
  BY DEF Write, iterVars, callVars
<1>2. /\ cpc = "visit" /\ Apart /\ LevelLess(cur, first)
      /\ \A m \in Threads : Hands(m)
  BY <1>1, ThreadFacts
<1>3. /\ unwritten'[k] = {}
      /\ \A m \in Threads : m # k => unwritten'[m] = unwritten[m]
      /\ unwritten' \in [Threads -> SUBSET Vertices]
      /\ unwritten[k] \subseteq Vertices
  BY <1>1 DEF TypeOK
<1>4. TypeOK'
  BY <1>1, <1>3 DEF TypeOK
<1>5. QueueInv' /\ WithinLevels' /\ FirstInRange'
  BY <1>1, QueueFrame DEF Open, Waiting
<1>6. ASSUME NEW m \in Threads
      PROVE  Hands(m)'
  <2>1. Hands(m) /\ unwritten'[m] \subseteq unwritten[m]
    BY <1>2, <1>3
  <2> QED
    BY <1>1, <2>1 DEF Hands
<1>7. VisitInv'
  BY <1>1, <1>2, <1>6 DEF VisitInv, Apart
<1>8. ChangesPropagate'
  <2>1. Enqueuing' = Enqueuing
    BY <1>1 DEF Enqueuing
  <2>2. \A x \in unwritten[k] : inQueue[x] \/ x \in Enqueuing
    BY <1>2 DEF Hands, Enqueuing
  <2> QED
    BY <1>1, <2>1, <2>2 DEF ChangesPropagate
<1>9. VisitsInv' /\ OwnerInv'
  BY <1>1 DEF VisitsInv, OwnerInv
<1> QED
  BY <1>1, <1>4, <1>5, <1>7, <1>8, <1>9

LEMMA StutterInv ==
  ASSUME BfsInv, UNCHANGED vars
  PROVE  BfsInv'
<1> USE DEF BfsInv, vars, iterVars, callVars, threadVars, ghosts
<1>1. TypeOK' /\ FirstInRange'
  BY DEF TypeOK, FirstInRange
<1>2. QueueInv' /\ WithinLevels'
  BY DEF QueueInv, EntriesLevelled, EntriesUnique, EntriesFlagged,
     FlaggedQueued, Open, Waiting, WithinLevels
<1>3. VisitInv' /\ VisitsInv' /\ ChangesPropagate'
  BY DEF VisitInv, Apart, Hands, AtRest, VisitsInv, ChangesPropagate, Enqueuing
<1>4. OwnerInv'
  BY DEF OwnerInv
<1> QED
  BY <1>1, <1>2, <1>3, <1>4

LEMMA ThreadInv ==
  ASSUME Ordered, BfsInv, NEW k \in Threads, Thread(k)
  PROVE  BfsInv'
<1>1. CASE SkipNull(k)
  BY <1>1, SkipNullInv
<1>2. CASE \E changed, enqueue \in BOOLEAN : Take(k, changed, enqueue)
  BY <1>2, TakeInv
<1>3. CASE \E w \in Vertices : Lookup(k, w) \/ Insert(k, w)
  BY <1>3, LookupInv, InsertInv
<1>4. CASE Write(k)
  BY <1>4, WriteInv
<1>5. CASE Leave(k)
  BY <1>5, LeaveInv
<1> QED
  BY <1>1, <1>2, <1>3, <1>4, <1>5 DEF Thread

LEMMA NextInv == Ordered /\ BfsInv /\ [Next]_vars /\ [InTime]_vars => BfsInv'
<1> SUFFICES ASSUME Ordered, BfsInv, [Next]_vars, [InTime]_vars PROVE BfsInv'
  OBVIOUS
<1>8. UNCHANGED vars => InTime
  BY DEF InTime, vars
<1>1. CASE \E v \in Vertices : Invalidate(v) \/ DeleteVertex(v)
  BY <1>1, <1>8, InvalidateInv, DeleteVertexInv
<1>2. CASE \E lv \in LevelMaps : Relevelize(lv)
  BY <1>2, RelevelizeInv
<1>3. CASE Clear
  BY <1>3, ClearInv
<1>4. CASE \E to \in Levels : Find(to)
  BY <1>4, FindInv
<1>5. CASE Call
  BY <1>5, SeedStartInv, SeedAdjacentInv, SeedInv, VisitBegins, VisitLevelInv,
     LevelFinishedInv, ReturnInv DEF Call
<1>6. CASE \E k \in Threads : Thread(k)
  BY <1>6, ThreadInv
<1>7. CASE UNCHANGED vars
  BY <1>7, StutterInv
<1>9. CASE GiveUp
  BY <1>9, GiveUpInv
<1> QED
  BY <1>1, <1>2, <1>3, <1>4, <1>5, <1>6, <1>7, <1>9 DEF Next

------------------------------------------------------------------------------
(* Results.                                                                *)

(* The invariant of the search and its owner, for every graph, number of   *)
(* threads, levelization and direction.                                    *)
THEOREM BfsInvariant == Ordered => (Spec /\ Timely => []BfsInv)
<1> SUFFICES ASSUME Ordered PROVE Spec /\ Timely => []BfsInv
  OBVIOUS
<1>1. Init => BfsInv
  BY InitInv
<1>2. BfsInv /\ [Next]_vars /\ [InTime]_vars => BfsInv'
  BY NextInv
<1> QED
  BY <1>1, <1>2, PTL DEF Spec, Timely

(* Every variable keeps its type; the levels in which the search looks for *)
(* vertices stay between those that exist.                                 *)
THEOREM TypeCorrect == Ordered => (Spec /\ Timely => []TypeOK)
<1>1. BfsInv => TypeOK
  BY DEF BfsInv
<1> QED
  BY <1>1, BfsInvariant, PTL

(* enqueue(), remove() and the visits of any number of threads leave every *)
(* flagged vertex exactly one entry that will be visited, and every other  *)
(* vertex none: checkInQueue() never reports a vertex.                     *)
THEOREM FlagCorrect == Ordered => (Spec /\ Timely => []FlagMeansQueued)
<1>1. ASSUME BfsInv PROVE FlagMeansQueued
  <2> SUFFICES ASSUME NEW v \in Vertices
               PROVE  Cardinality({i \in 1 .. Len(queue[level[v]]) :
                                     Pending(v, i)})
                        = (IF inQueue[v] THEN 1 ELSE 0)
    BY DEF FlagMeansQueued
  <2> DEFINE s == queue[level[v]]
             entries == {i \in 1 .. Len(s) : Pending(v, i)}
  <2>1. level[v] \in Levels /\ s \in Seq(Vertices \cup {Null})
    BY <1>1 DEF BfsInv, TypeOK
  <2>2. DOMAIN s = 1 .. Len(s)
    BY <2>1, LenProperties
  <2>3. \A i : i \in entries <=>
          i \in DOMAIN s /\ s[i] = v /\ Open(level[v], i)
    BY <2>2 DEF Pending, Open
  <2>4. v # Null
    BY BfsAssumption
  <2>5. CASE inQueue[v]
    <3>1. PICK i \in DOMAIN s : s[i] = v /\ Open(level[v], i)
      BY <1>1, <2>5 DEF BfsInv, QueueInv, FlaggedQueued
    <3>2. \A j \in DOMAIN s : s[j] = v => j = i
      BY <1>1, <2>1, <2>4, <3>1 DEF BfsInv, QueueInv, EntriesUnique
    <3> HIDE DEF s, entries
    <3>3. entries = {i}
      BY <2>3, <3>1, <3>2
    <3>4. Cardinality({i}) = 1
      BY FS_Singleton
    <3> QED
      BY <2>5, <3>3, <3>4 DEF s, entries
  <2>6. CASE ~ inQueue[v]
    <3>1. \A i \in DOMAIN s : s[i] = v => ~ Open(level[v], i)
      BY <1>1, <2>1, <2>4, <2>6 DEF BfsInv, QueueInv, EntriesFlagged
    <3> HIDE DEF s, entries
    <3>2. entries = {}
      BY <2>3, <3>1
    <3>3. Cardinality({}) = 0
      BY FS_EmptySet
    <3> QED
      BY <2>6, <3>2, <3>3 DEF s, entries
  <2> QED
    BY <2>5, <2>6
<1> QED
  BY <1>1, BfsInvariant, PTL

(* No entry of either queue points to a deleted vertex, if none is deleted *)
(* that requiredsInvalid left in the queue, before the next required       *)
(* search: then deleteVertexBefore leaves the entry in required_iter_      *)
(* (Search.cc:656).                                                        *)
THEOREM EntriesLive == Ordered => (Spec /\ Timely => []NoDanglingEntry)
<1>1. BfsInv => NoDanglingEntry
  BY DEF BfsInv, QueueInv, EntriesLevelled, NoDanglingEntry
<1> QED
  BY <1>1, BfsInvariant, PTL

(* first_level_ and last_level_ enclose every queued vertex, so the loop   *)
(* over levels passes none by.                                             *)
THEOREM LevelsEnclose == Ordered => (Spec /\ Timely => []WithinLevels)
<1>1. BfsInv => WithinLevels
  BY DEF BfsInv
<1> QED
  BY <1>1, BfsInvariant, PTL

(* No value is read while it is written: the sources of a vertex that is   *)
(* visited are neither queued, nor visited, nor about to be enqueued.      *)
THEOREM SourcesSettle == Ordered => (Spec /\ Timely => []SourcesSettled)
<1> SUFFICES ASSUME Ordered PROVE Spec /\ Timely => []SourcesSettled
  OBVIOUS
<1>1. ASSUME BfsInv PROVE SourcesSettled
  <2> SUFFICES ASSUME NEW v \in Visited, NEW u \in Sources(v)
               PROVE  ~ inQueue[u] /\ u \notin Visited /\ u \notin Enqueuing
    BY DEF SourcesSettled
  <2>1. PICK k \in Threads : v \in now[k]
    BY DEF Visited
  <2>2. /\ cpc = "visit" /\ cur \in Levels /\ cur \in Int
        /\ LevelLess(cur, first)
        /\ DOMAIN queue[cur] = 1 .. Len(queue[cur])
        /\ Len(queue[cur]) \in Nat
        /\ \A m \in Threads : Hands(m)
        /\ pos \in [Threads -> Nat] /\ hi \in [Threads -> Nat]
    BY <1>1, <2>1, ThreadFacts
  <2>3. ASSUME NEW m \in Threads, NEW w \in now[m]
        PROVE  w \in graph /\ level[w] = cur
    <3>1. /\ w = queue[cur][pos[m]] /\ w # Null
          /\ pos[m] \in DOMAIN queue[cur]
      BY <2>2, <2>3 DEF Hands
    <3> QED
      BY <1>1, <2>2, <3>1 DEF BfsInv, QueueInv, EntriesLevelled
  <2>4. /\ u \in graph /\ v \in graph /\ level[v] = cur
        /\ u \in Vertices
        /\ level[u] \in Int /\ first \in Int
        /\ LevelLess(level[u], cur)
    <3>1. u \in graph /\ v \in Adjacent(u) /\ level[v] = cur /\ v \in graph
      BY <2>1, <2>3 DEF Sources
    <3>2. LevelLess(level[u], level[v])
      BY <1>1, <3>1, UsersLater DEF BfsInv
    <3>3. u \in Vertices
      BY <1>1, <3>1 DEF BfsInv, TypeOK
    <3>4. level[u] \in Int /\ first \in Int
      BY <1>1, <3>3, TypedLevels DEF BfsInv
    <3> QED
      BY <3>1, <3>2, <3>3, <3>4
  <2>5. u \notin Visited
    BY <2>2, <2>3, <2>4, LevelOrder DEF Visited
  <2>6. u \notin Enqueuing
    <3>1. \A m \in Threads : \A w \in todo[m] \cup locking[m] :
            LevelLess(cur, level[w])
      BY <2>2 DEF Hands
    <3>2. ~ LevelLess(cur, level[u])
      BY <2>2, <2>4, LevelOrder
    <3> QED
      BY <1>1, <2>2, <3>1, <3>2 DEF BfsInv, OwnerInv, Enqueuing
  <2>7. ~ inQueue[u]
    <3> SUFFICES ASSUME inQueue[u] PROVE FALSE
      OBVIOUS
    <3>1. LevelLessOrEqual(first, level[u]) \/ level[u] = cur
      BY <1>1, <2>2, <2>4 DEF BfsInv, WithinLevels
    <3> QED
      BY <2>2, <2>4, <3>1, LevelOrder
  <2> QED
    BY <2>5, <2>6, <2>7
<1> QED
  BY <1>1, BfsInvariant, PTL

(* The chunks of a level are disjoint and its entries are distinct: no two *)
(* threads of visitParallel hold the same vertex.                          *)
THEOREM OneThread == Ordered => (Spec /\ Timely => []OneThreadPerVertex)
<1>1. ASSUME BfsInv PROVE OneThreadPerVertex
  <2> SUFFICES ASSUME NEW k \in Threads, NEW m \in Threads, k # m,
                      NEW v \in now[k], v \in now[m]
               PROVE  FALSE
    BY DEF OneThreadPerVertex
  <2>1. /\ cpc = "visit" /\ cur \in Levels /\ Apart
        /\ DOMAIN queue[cur] = 1 .. Len(queue[cur])
        /\ Len(queue[cur]) \in Nat
        /\ \A n \in Threads : Hands(n)
        /\ pos \in [Threads -> Nat] /\ hi \in [Threads -> Nat]
    BY <1>1, ThreadFacts
  <2>2. \A n \in {k, m} : /\ pos[n] \in DOMAIN queue[cur]
                         /\ pos[n] \in pos[n] .. hi[n]
                         /\ queue[cur][pos[n]] = v /\ v # Null
    BY <2>1 DEF Hands
  <2>3. pos[k] = pos[m]
    BY <1>1, <2>1, <2>2 DEF BfsInv, QueueInv, EntriesUnique
  <2> QED
    BY <2>1, <2>2, <2>3 DEF Apart
<1> QED
  BY <1>1, BfsInvariant, PTL

(* A visit never enqueues a vertex of its own level or of an earlier one,  *)
(* so one call computes the value of a vertex at most once.                *)
THEOREM OneVisit == Ordered => (Spec /\ Timely => []VisitedOnce)
<1>1. BfsInv => VisitedOnce
  BY DEF BfsInv, VisitsInv, VisitedOnce
<1> QED
  BY <1>1, BfsInvariant, PTL

(* A vertex computed from an old value is queued, invalid or about to be   *)
(* enqueued, whatever edits, calls and visits come between, unless it is   *)
(* one of those the code tells nobody of: behind an input or root that     *)
(* lost its arrivals, or dropped by or after requiredsInvalid.             *)
THEOREM NothingForgotten == Ordered => (Spec /\ Timely => []ChangesPropagate)
<1>1. BfsInv => ChangesPropagate
  BY DEF BfsInv
<1> QED
  BY <1>1, BfsInvariant, PTL

(* A call returns with nothing up to its level in the queue.               *)
THEOREM CallDrains == Ordered => (Spec /\ Timely => Drained)
<1>1. ASSUME BfsInv, Return, NEW v \in graph, inQueue[v]
      PROVE  LevelLess(toLevel, level[v])
  <2>1. cpc = "scan" /\ ~ Scanning
    BY <1>1 DEF Return
  <2>2. LevelLessOrEqual(first, level[v]) /\ LevelLessOrEqual(level[v], last)
    BY <1>1, <2>1 DEF BfsInv, WithinLevels, TypeOK
  <2>3. /\ first \in Int /\ last \in Int /\ toLevel \in Int
        /\ level[v] \in Int
    BY <1>1, TypedLevels DEF BfsInv, TypeOK
  <2> QED
    BY <2>1, <2>2, <2>3 DEF Scanning, LevelLess, LevelLessOrEqual
<1>2. BfsInv => [Return => \A v \in graph : inQueue[v] =>
                                LevelLess(toLevel, level[v])]_vars
  BY <1>1
<1> QED
  BY <1>2, BfsInvariant, PTL DEF Drained
=============================================================================
