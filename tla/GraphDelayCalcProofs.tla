------------------------ MODULE GraphDelayCalcProofs ------------------------
(***************************************************************************)
(* Proofs about GraphDelayCalc: types, and that what a search was asked    *)
(* for is what a calculation from scratch would find.                      *)
(*                                                                         *)
(* The slews and delays that are out of date cannot be told apart from     *)
(* those that are right by the queue alone: a gate may be out of date      *)
(* because of one far before it.  The invariant says that there is a set W *)
(* of suspected gates such that every slew and delay outside it follows    *)
(* from those just before it, and such that every suspect has a reason     *)
(* just before it: a vertex that is invalid, in the queue or in untold, or *)
(* another suspect.  A visit takes a gate out of W and tells its loads,    *)
(* where the code stops it leaves them in untold; no edit adds to W, for   *)
(* what it makes out of date it makes invalid or leaves in untold.  At the *)
(* end of a search the levels rise along the edges and nothing up to the   *)
(* level asked for is pending, so that the first suspect up to it would    *)
(* have no reason: there is none that untold does not excuse, and what     *)
(* follows from what is right is right.                                    *)
(***************************************************************************)
EXTENDS GraphDelayCalc, FiniteSetTheorems, WellFoundedInduction, TLAPS

------------------------------------------------------------------------------
(* The invariant.                                                          *)
(* The slew an arc delay was computed with, the arcs of a gate, and nets   *)
(* of one driver.                                                          *)
ArcSlew(t) == t[1] + t[2] + t[3][1] + t[3][2] + t[4]
Into(z) == {a \in Arcs : a[2] = z}
OneDriver(g) ==
  \A d, e \in Drivers : g.net[d] # None /\ g.net[d] = g.net[e] => d = e

(* The types.                                                              *)
Designs == [net : [Vertices -> Nets \cup {None}], wireCap : [Nets -> Values],
            weak : [Outputs -> Values], inputSlew : [Ports -> Values],
            annotated : [Loads -> Values \cup {None}], conditions : Values]
ArcDelays == Nat \X Values \X (Values \X Nat) \X Values
CheckDelays == Nat \X Nat \X Values
Delays == [slew : [Vertices -> Nat], arc : [Arcs -> {<<>>} \cup ArcDelays],
           check : [Checks -> {<<>>} \cup CheckDelays]]
Calcs == [seeded : BOOLEAN, incremental : BOOLEAN, invalid : SUBSET Vertices,
          checks : SUBSET Checks, entry : [Vertices -> {None} \cup Nat]]
Finds == [at : {None} \cup Nat, to : {None} \cup Nat]

Typed ==
  /\ design \in Designs
  /\ level \in [Vertices -> Nat]
  /\ levelized \subseteq Vertices
  /\ untold \subseteq Vertices
  /\ delays \in Delays
  /\ calc \in Calcs
  /\ calc.incremental => calc.seeded
  /\ find \in Finds
  /\ Visiting => find.to \in Nat /\ calc.seeded
  /\ answered \in {None} \cup Nat

(* No loops, and no net of two drivers.                                    *)
GraphOK == Acyclic(design) /\ OneDriver(design)

(* Levels rise along the arcs of gates always, and along every edge but    *)
(* between vertices that wait to be relevelized.                           *)
LevelsOK ==
  /\ \A v \in Vertices \ levelized : Root(design, v) => level[v] = 0
  /\ \A p \in Ports : level[p] = 0
  /\ \A a \in Arcs : level[a[1]] < level[a[2]]
  /\ \A v \in Vertices : \A u \in Fanin(design, v) :
       u \notin levelized /\ v \notin levelized => level[u] < level[v]
  /\ Visiting => levelized = {}

(* Vertices are in the list of their level, or of an earlier one if they   *)
(* are in untold; nothing is queued at or before the level that is         *)
(* visited.                                                                *)
QueueOK ==
  /\ Visiting => calc.invalid = {}
  /\ ~Visiting => calc.checks = {}
  /\ ~calc.incremental => calc.invalid = {} /\ untold = {} /\ (~Visiting => Queued(calc) = {})
  /\ \A v \in Queued(calc) :
       /\ v \notin Ports
       /\ calc.entry[v] > 0
       /\ v \in Outputs => calc.entry[v] <= level[v]
       /\ \A a \in Arcs : v = a[1] => calc.entry[v] < level[a[2]]
       /\ calc.entry[v] = level[v] \/ v \in untold
       /\ Visiting /\ find.at # None => find.at <= calc.entry[v]

(* What is left in the queue lies beyond the last answer, and so do the    *)
(* checks.                                                                 *)
AnswerOK ==
  answered # None =>
    /\ calc.incremental /\ calc.invalid = {} /\ levelized = {}
    /\ \A v \in Queued(calc) : calc.entry[v] > answered
    /\ find.at # None => find.at > answered
    /\ \A c \in calc.checks : \E x \in {c[1], c[2]} : x \in untold \/ level[x] > answered

(* The slew of a gate is the worst slew of its arcs, also of those that    *)
(* are out of date.                                                        *)
WorstOK ==
  \A z \in Outputs :
    \/ \A a \in Into(z) : delays.arc[a] = <<>>
    \/ /\ \A a \in Into(z) : delays.arc[a] # <<>>
       /\ delays.slew[z] = Max({ArcSlew(delays.arc[a]) : a \in Into(z)})

(* W are the suspects: gates whose delays, and with them the slews of      *)
(* their loads, may be out of date. Each has a reason upstream: it or a    *)
(* load before it is pending or was changed without notice, or the gate    *)
(* before that is suspected too.                                           *)
Pending == calc.invalid \cup Queued(calc)
Unfound(d) == \A a \in Into(d) : delays.arc[a] = <<>>
Upstream(d, W) ==
  \/ d \in Pending
  \/ \E l \in Fanin(design, d) :
       \/ l \in Pending \cup untold
       \/ \E e \in Fanin(design, l) : e \in W \cup untold
(* The delays of a gate, the slew of a load, of a root and the delay of a  *)
(* check are what the slews before them say, or there is the reason why    *)
(* not.                                                                    *)
DriverOK(d, W) ==
  \/ \A a \in Into(d) : delays.arc[a] = GateDelay(design, delays.slew[a[1]], d)
  \/ d \in untold
  \/ Upstream(d, W)
LoadOK(l, W) ==
  \A d \in Fanin(design, l) :
    \/ delays.slew[l] = LoadSlew(design, delays.slew[d], l)
    \/ d \in Pending
    \/ l \in untold
    \/ d \in W \cup untold
RootOK(v) == Root(design, v) => delays.slew[v] = RootSlew(design, v) \/ v \in calc.invalid
Waits(x) == /\ delays.slew[x] = 0 /\ design.annotated[x] = None
            /\ \E d \in Fanin(design, x) : d \in Outputs \cap Pending
Unsure(x, W) == \/ x \in Pending \cup untold \/ Root(design, x) \/ Waits(x)
                \/ \E d \in Fanin(design, x) : d \in W \cup untold
CheckOK(c, W) ==
  \/ delays.check[c] = CheckDelay(design, delays.slew, c)
  \/ c \in calc.checks
  \/ Unsure(c[1], W) \/ Unsure(c[2], W)
(* A visit of a suspect always tells its loads: in a first search every    *)
(* visit does, and a suspect of an incremental one has no delays yet.      *)
Deep(W) == calc.incremental => \A d \in W : Unfound(d)
Traced(W) ==
  /\ \A d \in W : Upstream(d, W)
  /\ Deep(W)
  /\ \A d \in Outputs : DriverOK(d, W)
  /\ \A l \in Loads : LoadOK(l, W)
  /\ \A v \in Vertices : RootOK(v)
  /\ \A c \in Checks : CheckOK(c, W)

SlewsOK == calc.incremental \/ Visiting => \E W \in SUBSET Outputs : Traced(W)

IInv == Typed /\ GraphOK /\ LevelsOK /\ QueueOK /\ AnswerOK /\ WorstOK /\ SlewsOK

(* In a set of subsets of a finite set there is a least one.               *)
LEMMA LeastSubset ==
  ASSUME NEW S, IsFiniteSet(S), NEW B, B \subseteq SUBSET S, B # {}
  PROVE  \E T \in B : \A U \in B : U \subseteq T => U = T
<1>1. IsWellFoundedOn(StrictSubsetOrdering(S), FiniteSubsetsOf(S))
  BY FS_StrictSubsetOrderingWellFounded
<1>2. FiniteSubsetsOf(S) = SUBSET S
  BY FS_FiniteSubsetsOfFinite
<1>3. \E T \in B : \A U \in B : ~(<<U, T>> \in StrictSubsetOrdering(S))
  BY <1>1, <1>2, WFMin
<1>4. QED
  BY <1>3 DEF StrictSubsetOrdering

(* The largest number of a finite set.                                     *)
LEMMA MaxIs ==
  ASSUME NEW F, IsFiniteSet(F), F # {}
  PROVE  F \subseteq Nat => Max(F) \in F /\ (\A x \in F : x <= Max(F))
<1> DEFINE Above(x) == {y \in F : y > x}
           C == {Above(x) : x \in F}
<1>1. \E T \in C : \A U \in C : U \subseteq T => U = T
  <2>1. IsFiniteSet(F) /\ C \subseteq SUBSET F /\ C # {}
    OBVIOUS
  <2> HIDE DEF C
  <2>2. QED
    BY <2>1, LeastSubset
<1>3. PICK x \in F : \A y \in F : Above(y) \subseteq Above(x) => Above(y) = Above(x)
  <2>1. PICK T \in C : \A U \in C : U \subseteq T => U = T
    BY <1>1
  <2>2. PICK x \in F : T = Above(x)
    BY <2>1
  <2>3. \A y \in F : Above(y) \in C
    OBVIOUS
  <2> HIDE DEF Above, C
  <2>4. \A y \in F : Above(y) \subseteq Above(x) => Above(y) = Above(x)
    BY <2>1, <2>2, <2>3
  <2>5. QED
    BY <2>4
<1>2. SUFFICES ASSUME F \subseteq Nat PROVE Max(F) \in F /\ (\A y \in F : y <= Max(F))
  OBVIOUS
<1>4. ASSUME NEW y \in F, y > x PROVE FALSE
  <2>1. \A z \in F : z > y => z > x
    BY <1>4, <1>2
  <2>2. Above(y) = Above(x)
    BY <2>1, <1>3
  <2>3. y \in Above(x) /\ y \notin Above(y)
    BY <1>4, <1>2
  <2>4. QED
    BY <2>2, <2>3
<1>5. x \in F /\ \A y \in F : x >= y
  BY <1>4, <1>3, <1>2
<1>6. Max(F) \in F /\ \A y \in F : Max(F) >= y
  BY <1>5 DEF Max
<1>7. QED
  BY <1>6, <1>2

------------------------------------------------------------------------------
(* What is asked of a function is found by going up from the fanin: rule   *)
(* looks at the values of the fanin only, and then there is a function     *)
(* that satisfies it everywhere.                                           *)
Local(rule, g, S) ==
  \A v \in Vertices : \A f, h \in [Vertices -> S] :
    (\A u \in Fanin(g, v) : f[u] = h[u]) => rule[<<v, f>>] = rule[<<v, h>>]

IsRule(rule, S) == rule \in [Vertices \X [Vertices -> S] -> S]
Solved(rule, S) == \E f \in [Vertices -> S] : \A v \in Vertices : f[v] = rule[<<v, f>>]

(* Every rule that looks at the values of the fanin only is solved, in a   *)
(* graph without loops: a largest set of vertices that is closed under     *)
(* fanin and solved is the whole graph.                                    *)
LEMMA FaninRecursion ==
  ASSUME NEW g, NEW S, NEW rule,
         Acyclic(g), S # {}, IsRule(rule, S), Local(rule, g, S)
  PROVE  Solved(rule, S)
<1> USE DEF IsRule, Solved
<1> DEFINE Table(f, D) == \A v \in D : f[v] = rule[<<v, f>>]
           Done(D) == /\ \A v \in D : Fanin(g, v) \subseteq D
                      /\ \E f \in [Vertices -> S] : Table(f, D)
           B == {L \in SUBSET Vertices : Done(Vertices \ L)}
<1>1. Vertices \in B
  <2>1. PICK x \in S : TRUE
    OBVIOUS
  <2>2. [v \in Vertices |-> x] \in [Vertices -> S]
    OBVIOUS
  <2>3. Table([v \in Vertices |-> x], {})
    OBVIOUS
  <2>4. Done({})
    BY <2>2, <2>3
  <2>5. Vertices \ Vertices = {}
    OBVIOUS
  <2>6. QED
    BY <2>4, <2>5
<1>2. PICK L \in B : \A U \in B : U \subseteq L => U = L
  <2>1. B \subseteq SUBSET Vertices /\ B # {}
    BY <1>1
  <2>2. IsFiniteSet(Vertices)
    BY GraphDelayCalcAssumption
  <2> HIDE DEF B
  <2>3. QED
    BY <2>1, <2>2, LeastSubset
<1> DEFINE D == Vertices \ L
<1>3. PICK f \in [Vertices -> S] : Table(f, D)
  BY <1>2
<1>4. \A v \in D : Fanin(g, v) \subseteq D
  BY <1>2
<1>5. L \subseteq Vertices
  BY <1>2
<1>6. CASE L = {}
  BY <1>6, <1>3
<1>7. CASE L # {}
  <2>1. PICK v \in L : Fanin(g, v) \cap L = {}
    BY <1>5, <1>7 DEF Acyclic
  <2>2. v \in Vertices /\ Fanin(g, v) \subseteq D /\ v \notin D
    BY <2>1, <1>5 DEF Fanin
  <2> DEFINE x == rule[<<v, f>>]
             h == [f EXCEPT ![v] = x]
  <2>3. x \in S
    BY <2>2
  <2>4. h \in [Vertices -> S]
    BY <2>3, <2>2
  <2>5. \A w \in D \cup {v} : h[w] = rule[<<w, h>>]
    <3> SUFFICES ASSUME NEW w \in D \cup {v} PROVE h[w] = rule[<<w, h>>]
      OBVIOUS
    <3>1. w \in Vertices /\ v \notin Fanin(g, w)
      BY <2>2, <1>4, <2>1
    <3>2. \A u \in Fanin(g, w) : f[u] = h[u]
      BY <3>1 DEF Fanin
    <3> HIDE DEF h
    <3>7. \A a \in Vertices : \A b, c \in [Vertices -> S] :
            (\A u \in Fanin(g, a) : b[u] = c[u]) => rule[<<a, b>>] = rule[<<a, c>>]
      BY DEF Local
    <3>8. f \in [Vertices -> S]
      BY <1>3
    <3>3. rule[<<w, f>>] = rule[<<w, h>>]
      BY <3>1, <3>2, <2>4, <3>7, <3>8, Zenon
    <3> USE DEF h
    <3>4. CASE w = v
      BY <3>3, <3>4, <2>2
    <3>5. CASE w # v
      BY <3>3, <3>5, <1>3, <2>2
    <3>6. QED
      BY <3>4, <3>5
  <2>6. D \cup {v} = Vertices \ (L \ {v})
    BY <2>2, <1>5
  <2>7. Done(D \cup {v})
    BY <2>4, <2>5, <2>2, <1>4
  <2>8. L \ {v} \in B
    BY <2>6, <2>7, <1>5
  <2>9. L \ {v} # L /\ L \ {v} \subseteq L
    BY <2>1
  <2> HIDE DEF B
  <2>10. FALSE
    BY <2>8, <2>9, <1>2
  <2>11. QED
    BY <2>10
<1>8. QED
  BY <1>6, <1>7

------------------------------------------------------------------------------
(* The edges of the graph.                                                 *)
EdgesOf(g) ==
  /\ \A p \in Ports : Fanin(g, p) = {}
  /\ \A z \in Outputs : /\ Fanin(g, z) = {l \in Loads : <<l, z>> \in Arcs}
                        /\ Fanin(g, z) # {}
  /\ \A l \in Loads :
       /\ Fanin(g, l) = {d \in Drivers : g.net[d] # None /\ g.net[d] = g.net[l]}
       /\ Fanout(g, l) = {z \in Outputs : <<l, z>> \in Arcs}
  /\ \A d \in Drivers :
       Fanout(g, d) = {l \in Loads : g.net[d] # None /\ g.net[d] = g.net[l]}
  /\ \A v \in Vertices : Fanin(g, v) \subseteq Vertices /\ Fanout(g, v) \subseteq Vertices
  /\ \A u, v \in Vertices : u \in Fanin(g, v) <=> v \in Fanout(g, u)

(* What Fanin and Fanout give for each kind of pin.                        *)
LEMMA Edges ==
  ASSUME NEW g
  PROVE  EdgesOf(g)
<1> USE GraphDelayCalcAssumption DEF Fanin, Fanout, Edge, Wired, Vertices, Drivers
<1>1. \A p \in Ports : Fanin(g, p) = {}
  OBVIOUS
<1>2. \A z \in Outputs : Fanin(g, z) = {l \in Loads : <<l, z>> \in Arcs}
  OBVIOUS
<1>3. \A z \in Outputs : Fanin(g, z) # {}
  OBVIOUS
<1>4. \A l \in Loads : Fanin(g, l) = {d \in Drivers : g.net[d] # None /\ g.net[d] = g.net[l]}
  OBVIOUS
<1>5. \A l \in Loads : Fanout(g, l) = {z \in Outputs : <<l, z>> \in Arcs}
  OBVIOUS
<1>6. \A d \in Drivers : Fanout(g, d) = {l \in Loads : g.net[d] # None /\ g.net[d] = g.net[l]}
  OBVIOUS
<1>7. \A v \in Vertices : Fanin(g, v) \subseteq Vertices /\ Fanout(g, v) \subseteq Vertices
  OBVIOUS
<1>8. \A u, v \in Vertices : u \in Fanin(g, v) <=> v \in Fanout(g, u)
  OBVIOUS
<1>9. QED
  BY <1>1, <1>2, <1>3, <1>4, <1>5, <1>6, <1>7, <1>8 DEF EdgesOf

(* The fanin is finite, and what a function gives for it.                  *)
LEMMA FaninFinite ==
  ASSUME NEW g, NEW v \in Vertices
  PROVE  IsFiniteSet(Fanin(g, v))
BY FS_Subset, GraphDelayCalcAssumption DEF Fanin

(* The values of a function over a finite set are finitely many.           *)
LEMMA ImageFinite ==
  ASSUME NEW A, IsFiniteSet(A), NEW f
  PROVE  IsFiniteSet({f[u] : u \in A})
<1> DEFINE h == [u \in A |-> f[u]]
           T == {f[u] : u \in A}
<1>1. h \in Surjection(A, T)
  BY DEF Surjection
<1> HIDE DEF h, T
<1>2. IsFiniteSet(T)
  BY <1>1, FS_Surjection
<1>3. QED
  BY <1>2 DEF T

Base(g, lev, from, v) == IF v \in from /\ Root(g, v) THEN 0 ELSE lev[v]

(* Levels rise along every edge, and are the old ones or zero at the roots.*)
LEMMA RelevelizedIs ==
  ASSUME NEW g, Acyclic(g), NEW lev \in [Vertices -> Nat], NEW from
  PROVE  /\ Relevelized(g, lev, from) \in [Vertices -> Nat]
         /\ \A v \in Vertices : \A u \in Fanin(g, v) :
              Relevelized(g, lev, from)[u] < Relevelized(g, lev, from)[v]
         /\ \A v \in Vertices : Base(g, lev, from, v) <= Relevelized(g, lev, from)[v]
         /\ \A v \in Vertices : Root(g, v) =>
              Relevelized(g, lev, from)[v] = Base(g, lev, from, v)
<1> DEFINE Of(f, v) == {Base(g, lev, from, v)} \cup {f[u] + 1 : u \in Fanin(g, v)}
           Is(r) == r = [v \in Vertices |-> Max(Of(r, v))]
           rule == [p \in Vertices \X [Vertices -> Nat] |-> Max(Of(p[2], p[1]))]
<1>1. Relevelized(g, lev, from) = CHOOSE r : Is(r)
  BY DEF Relevelized, Base
<1>2. \A v \in Vertices, f \in [Vertices -> Nat] :
        /\ IsFiniteSet(Of(f, v)) /\ Of(f, v) \subseteq Nat /\ Of(f, v) # {}
  <2> SUFFICES ASSUME NEW v \in Vertices, NEW f \in [Vertices -> Nat]
               PROVE  IsFiniteSet(Of(f, v)) /\ Of(f, v) \subseteq Nat /\ Of(f, v) # {}
    OBVIOUS
  <2>1. IsFiniteSet({f[u] + 1 : u \in Fanin(g, v)})
    <3> DEFINE h == [u \in Fanin(g, v) |-> f[u] + 1]
               A == Fanin(g, v)
    <3>1. {f[u] + 1 : u \in Fanin(g, v)} = {h[u] : u \in A}
      OBVIOUS
    <3>2. \A B, k : IsFiniteSet(B) => IsFiniteSet({k[u] : u \in B})
      BY ImageFinite
    <3>3. IsFiniteSet(A)
      BY FaninFinite
    <3> HIDE DEF h, A
    <3>4. IsFiniteSet({h[u] : u \in A})
      BY <3>2, <3>3
    <3>5. QED
      BY <3>1, <3>4
  <2>5. IsFiniteSet(Of(f, v))
    <3> DEFINE T == {f[u] + 1 : u \in Fanin(g, v)}
               n == Base(g, lev, from, v)
    <3>1. Of(f, v) = T \cup {n}
      OBVIOUS
    <3>2. IsFiniteSet(T)
      BY <2>1
    <3> HIDE DEF T, n, Of
    <3>3. IsFiniteSet(T \cup {n})
      BY <3>2, FS_AddElement
    <3>4. QED
      BY <3>1, <3>3
  <2>2. Base(g, lev, from, v) \in Nat
    BY DEF Base
  <2>3. Fanin(g, v) \subseteq Vertices
    BY DEF Fanin
  <2>4. QED
    BY <2>5, <2>2, <2>3
<1> HIDE DEF Of
<1>3. \A v \in Vertices, f \in [Vertices -> Nat] :
        /\ Max(Of(f, v)) \in Nat /\ Max(Of(f, v)) \in Of(f, v)
        /\ \A n \in Of(f, v) : n <= Max(Of(f, v))
  BY <1>2, MaxIs
<1>4. rule \in [Vertices \X [Vertices -> Nat] -> Nat]
  BY <1>3
<1>5. Local(rule, g, Nat)
  <2> SUFFICES ASSUME NEW v \in Vertices, NEW f \in [Vertices -> Nat], NEW h \in [Vertices -> Nat],
                      \A u \in Fanin(g, v) : f[u] = h[u]
               PROVE  rule[<<v, f>>] = rule[<<v, h>>]
    BY DEF Local
  <2>1. Of(f, v) = Of(h, v)
    BY DEF Of
  <2>2. QED
    BY <2>1
<1>6. \E f \in [Vertices -> Nat] : \A v \in Vertices : f[v] = rule[<<v, f>>]
  <2> DEFINE S == Nat
  <2>1. S # {} /\ IsRule(rule, S) /\ Local(rule, g, S)
    BY <1>4, <1>5 DEF IsRule
  <2>4. \A X, k : X # {} /\ IsRule(k, X) /\ Local(k, g, X) => Solved(k, X)
    BY FaninRecursion
  <2> HIDE DEF rule, S
  <2>2. Solved(rule, S)
    BY <2>1, <2>4
  <2>3. QED
    BY <2>2 DEF S, Solved
<1>7. PICK f \in [Vertices -> Nat] : \A v \in Vertices : f[v] = rule[<<v, f>>]
  BY <1>6
<1>8. Is(f)
  BY <1>7
<1> DEFINE r == CHOOSE r : Is(r)
<1>9. Is(r)
  <2> HIDE DEF Is
  <2>1. QED
    BY <1>8
<1> HIDE DEF r
<1>10. r \in [Vertices -> Nat]
  <2>1. r = [v \in Vertices |-> Max(Of(r, v))]
    BY <1>9
  <2>2. f = r
    <3> DEFINE Bad == {v \in Vertices : f[v] # r[v]}
    <3>1. SUFFICES ASSUME Bad # {} PROVE FALSE
      BY <2>1, <1>7
    <3>2. PICK v \in Bad : Fanin(g, v) \cap Bad = {}
      BY <3>1 DEF Acyclic
    <3>3. Of(f, v) = Of(r, v)
      BY <3>2 DEF Of, Fanin
    <3>4. f[v] = Max(Of(f, v)) /\ r[v] = Max(Of(r, v))
      BY <1>7, <2>1
    <3>5. QED
      BY <3>3, <3>4
  <2>3. QED
    BY <2>2
<1>11. \A v \in Vertices : r[v] = Max(Of(r, v))
  BY <1>9
<1>12. \A v \in Vertices : r[v] \in Of(r, v) /\ \A n \in Of(r, v) : n <= r[v]
  BY <1>3, <1>10, <1>11
<1>13. \A v \in Vertices : \A u \in Fanin(g, v) : r[u] < r[v]
  <2> SUFFICES ASSUME NEW v \in Vertices, NEW u \in Fanin(g, v) PROVE r[u] < r[v]
    OBVIOUS
  <2>1. r[u] + 1 \in Of(r, v)
    BY DEF Of
  <2>2. u \in Vertices
    BY DEF Fanin
  <2>3. r[u] \in Nat /\ r[v] \in Nat
    BY <2>2, <1>10
  <2>4. QED
    BY <2>1, <2>3, <1>12
<1>14. \A v \in Vertices : Base(g, lev, from, v) <= r[v]
  BY <1>12 DEF Of
<1>15. \A v \in Vertices : Root(g, v) => r[v] = Base(g, lev, from, v)
  BY <1>12 DEF Of, Root
<1>16. Relevelized(g, lev, from) = r
  BY <1>1 DEF r
<1>17. QED
  BY <1>10, <1>13, <1>14, <1>15, <1>16

(* What lies downstream of S has S and, with a vertex, its fanout.         *)
LEMMA DownstreamIs ==
  ASSUME NEW g, Acyclic(g), NEW S
  PROVE  /\ Downstream(g, S) \subseteq Vertices
         /\ \A v \in Vertices : v \in S => v \in Downstream(g, S)
         /\ \A v \in Vertices : \A u \in Fanin(g, v) :
              u \in Downstream(g, S) => v \in Downstream(g, S)
<1> DEFINE Of(f, v) == v \in S \/ \E u \in Fanin(g, v) : f[u]
           Is(r) == r = [v \in Vertices |-> Of(r, v)]
           rule == [p \in Vertices \X [Vertices -> BOOLEAN] |-> Of(p[2], p[1])]
<1>1. Downstream(g, S) = {v \in Vertices : (CHOOSE r : Is(r))[v]}
  BY DEF Downstream
<1>2. \A v \in Vertices : Fanin(g, v) \subseteq Vertices
  BY DEF Fanin
<1>3. rule \in [Vertices \X [Vertices -> BOOLEAN] -> BOOLEAN]
  OBVIOUS
<1>4. Local(rule, g, BOOLEAN)
  <2> SUFFICES ASSUME NEW v \in Vertices, NEW f \in [Vertices -> BOOLEAN],
                      NEW h \in [Vertices -> BOOLEAN],
                      \A u \in Fanin(g, v) : f[u] = h[u]
               PROVE  rule[<<v, f>>] = rule[<<v, h>>]
    BY DEF Local
  <2>1. Of(f, v) = Of(h, v)
    OBVIOUS
  <2> HIDE DEF Of
  <2>2. QED
    BY <2>1
<1>5. \E f \in [Vertices -> BOOLEAN] : \A v \in Vertices : f[v] = rule[<<v, f>>]
  <2> DEFINE T == BOOLEAN
  <2>1. T # {} /\ IsRule(rule, T) /\ Local(rule, g, T)
    BY <1>3, <1>4 DEF IsRule
  <2>4. \A X, k : X # {} /\ IsRule(k, X) /\ Local(k, g, X) => Solved(k, X)
    BY FaninRecursion
  <2> HIDE DEF rule, T
  <2>2. Solved(rule, T)
    BY <2>1, <2>4
  <2>3. QED
    BY <2>2 DEF T, Solved
<1>6. PICK f \in [Vertices -> BOOLEAN] : \A v \in Vertices : f[v] = rule[<<v, f>>]
  BY <1>5
<1>7. Is(f)
  <2>1. \A v \in Vertices : f[v] = Of(f, v)
    <3> HIDE DEF Of
    <3>1. QED
      BY <1>6
  <2> HIDE DEF Of
  <2>2. QED
    BY <2>1, <1>6
<1> DEFINE r == CHOOSE r : Is(r)
<1>8. Is(r)
  <2> HIDE DEF Is
  <2>1. QED
    BY <1>7
<1> HIDE DEF r
<1>9. \A v \in Vertices : r[v] = Of(r, v)
  <2> HIDE DEF Of
  <2>1. QED
    BY <1>8
<1>10. Downstream(g, S) = {v \in Vertices : r[v]}
  BY <1>1 DEF r
<1>11. \A v \in Vertices : v \in S => r[v]
  BY <1>9
<1>12. \A v \in Vertices : \A u \in Fanin(g, v) : r[u] => r[v]
  BY <1>9
<1>13. QED
  BY <1>10, <1>11, <1>12, <1>2

------------------------------------------------------------------------------
(* Capacitances and delays.                                                *)
LEMMA LoadCapIs ==
  ASSUME NEW g \in Designs, NEW d \in Drivers
  PROVE  /\ LoadCap(g, d) \in Values \X Nat
         /\ g.net[d] = None => LoadCap(g, d) = <<0, 0>>
         /\ Fanout(g, d) # {} => LoadCap(g, d)[2] # 0
<1> DEFINE M == {a \in Arcs : a[1] \in Fanout(g, d) /\ g.weak[a[2]] = 1}
           n == Cardinality(Fanout(g, d))
           m == Cardinality(M)
<1>0. EdgesOf(g)
  BY Edges
<1>1. g.net \in [Vertices -> Nets \cup {None}] /\ g.wireCap \in [Nets -> Values]
  BY DEF Designs
<1>2. IsFiniteSet(Fanout(g, d)) /\ Fanout(g, d) \subseteq Loads
  <2>1. Fanout(g, d) \subseteq Vertices /\ IsFiniteSet(Vertices)
    BY GraphDelayCalcAssumption DEF Fanout
  <2>2. Fanout(g, d) \subseteq Loads
    BY <1>0 DEF EdgesOf
  <2>3. QED
    BY <2>1, <2>2, FS_Subset
<1>3. IsFiniteSet(M)
  <2>1. IsFiniteSet(Loads) /\ IsFiniteSet(Outputs) /\ Arcs \subseteq Loads \X Outputs
    BY FS_Subset, GraphDelayCalcAssumption DEF Vertices, Drivers
  <2>2. IsFiniteSet(Loads \X Outputs)
    BY <2>1, FS_Product
  <2>3. M \subseteq Loads \X Outputs
    BY <2>1
  <2> HIDE DEF M
  <2>4. QED
    BY <2>2, <2>3, FS_Subset
<1>4. n \in Nat /\ (Fanout(g, d) # {} => n # 0)
  BY <1>2, FS_CardinalityType, FS_EmptySet
<1>5. m \in Nat
  <2> HIDE DEF M
  <2>1. QED
    BY <1>3, FS_CardinalityType
<1>6. LoadCap(g, d) = IF g.net[d] = None THEN <<0, 0>> ELSE <<g.wireCap[g.net[d]], n + m>>
  BY DEF LoadCap
<1>7. Fanout(g, d) # {} => g.net[d] # None
  BY <1>0 DEF EdgesOf
<1>8. d \in Vertices
  BY DEF Vertices
<1> HIDE DEF n, m
<1>9. CASE g.net[d] = None
  <2>1. LoadCap(g, d) = <<0, 0>> /\ 0 \in Values
    BY <1>9, <1>6 DEF Values
  <2>2. QED
    BY <2>1, <1>7, <1>9
<1>10. CASE g.net[d] # None
  <2>1. g.wireCap[g.net[d]] \in Values /\ n + m \in Nat
    BY <1>10, <1>1, <1>4, <1>5, <1>8
  <2>2. LoadCap(g, d) = <<g.wireCap[g.net[d]], n + m>>
    BY <1>10, <1>6
  <2>3. n # 0 => n + m # 0
    BY <1>4, <1>5
  <2>4. QED
    BY <2>1, <2>2, <2>3, <1>4, <1>10
<1>11. QED
  BY <1>9, <1>10

(* The delay of an arc is of its type, is no missing delay, gives the slew *)
(* it was computed with, and counts the loads of the gate.                 *)
LEMMA GateDelayIs ==
  ASSUME NEW g \in Designs, NEW z \in Outputs, NEW s \in Nat
  PROVE  /\ GateDelay(g, s, z) \in ArcDelays
         /\ GateDelay(g, s, z) # <<>>
         /\ ArcSlew(GateDelay(g, s, z)) = GateSlew(g, s, z)
         /\ GateSlew(g, s, z) \in Nat
         /\ g.net[z] = None => GateDelay(g, s, z)[3][2] = 0
         /\ Fanout(g, z) # {} => GateDelay(g, s, z)[3][2] # 0
<1> DEFINE cap == LoadCap(g, z)
           w == g.weak[z]
           k == g.conditions
<1>1. z \in Drivers
  BY DEF Drivers
<1>2. /\ cap \in Values \X Nat
      /\ g.net[z] = None => cap[2] = 0
      /\ Fanout(g, z) # {} => cap[2] # 0
  BY <1>1, LoadCapIs
<1>3. w \in Values /\ k \in Values
  BY DEF Designs
<1>4. Values \subseteq Nat
  BY DEF Values
<1>5. GateDelay(g, s, z) = <<s, w, cap, k>>
  BY DEF GateDelay
<1>6. GateSlew(g, s, z) = s + w + cap[1] + cap[2] + k
  BY DEF GateSlew
<1> HIDE DEF cap, w, k
<1>7. <<s, w, cap, k>> \in ArcDelays /\ <<s, w, cap, k>> # <<>>
  BY <1>2, <1>3 DEF ArcDelays
<1>8. ArcSlew(<<s, w, cap, k>>) = s + w + cap[1] + cap[2] + k
  BY DEF ArcSlew
<1>11. w \in Nat /\ k \in Nat /\ cap[1] \in Nat /\ cap[2] \in Nat
  BY <1>2, <1>3, <1>4
<1>9. s + w + cap[1] + cap[2] + k \in Nat
  BY <1>11
<1>10. QED
  BY <1>2, <1>5, <1>6, <1>7, <1>8, <1>9

(* The slews of roots and of loads are numbers.                            *)
LEMMA SlewTypes ==
  ASSUME NEW g \in Designs
  PROVE  /\ \A v \in Vertices : Root(g, v) => RootSlew(g, v) \in Nat
         /\ \A l \in Loads, n \in Nat : g.net[l] # None => LoadSlew(g, n, l) \in Nat
         /\ \A l \in Loads : Fanin(g, l) # {} => g.net[l] # None
<1>1. Values \subseteq Nat /\ 0 \in Nat
  BY DEF Values
<1>0. EdgesOf(g)
  BY Edges
<1>2. \A l \in Loads : Fanin(g, l) # {} => g.net[l] # None
  BY <1>0 DEF EdgesOf
<1>3. \A l \in Loads, n \in Nat : g.net[l] # None => LoadSlew(g, n, l) \in Nat
  <2> SUFFICES ASSUME NEW l \in Loads, NEW n \in Nat, g.net[l] # None
               PROVE  LoadSlew(g, n, l) \in Nat
    OBVIOUS
  <2>1. g.net[l] \in Nets
    BY DEF Designs, Vertices
  <2>2. g.wireCap[g.net[l]] \in Nat /\ g.annotated[l] \in Nat \cup {None}
    BY <2>1, <1>1 DEF Designs
  <2>3. QED
    BY <2>2 DEF LoadSlew
<1>4. ASSUME NEW v \in Vertices, Root(g, v) PROVE RootSlew(g, v) \in Nat
  <2>1. v \in Ports \cup Loads
    BY <1>4, Edges DEF EdgesOf, Root, Vertices, Drivers
  <2>2. v \in Ports => g.inputSlew[v] \in Nat
    BY <1>1 DEF Designs
  <2>3. v \in Loads => g.annotated[v] \in Nat \cup {None}
    BY <1>1 DEF Designs
  <2>4. QED
    BY <2>1, <2>2, <2>3, <1>1 DEF RootSlew
<1>5. QED
  BY <1>2, <1>3, <1>4

(* The worst slew of a gate.                                               *)
LEMMA WorstIs ==
  ASSUME NEW g \in Designs, NEW z \in Outputs,
         NEW s \in [Vertices -> Nat]
  PROVE  /\ Max({GateSlew(g, s[l], z) : l \in Fanin(g, z)}) \in Nat
         /\ \A l \in Fanin(g, z) :
              GateSlew(g, s[l], z) <= Max({GateSlew(g, s[m], z) : m \in Fanin(g, z)})
<1> DEFINE k == [l \in Fanin(g, z) |-> GateSlew(g, s[l], z)]
           A == Fanin(g, z)
           T == {k[l] : l \in A}
<1>1. A \subseteq Vertices /\ A # {}
  BY Edges DEF EdgesOf, Vertices, Drivers
<1>2. \A l \in A : k[l] \in Nat
  BY <1>1, GateDelayIs
<1>3. IsFiniteSet(A)
  BY FaninFinite DEF Vertices, Drivers
<1>4. T = {GateSlew(g, s[l], z) : l \in Fanin(g, z)}
  OBVIOUS
<1>5. IsFiniteSet(T)
  <2>1. \A B, f : IsFiniteSet(B) => IsFiniteSet({f[u] : u \in B})
    BY ImageFinite
  <2> HIDE DEF k, A
  <2>2. QED
    BY <2>1, <1>3
<1>6. T \subseteq Nat /\ T # {}
  BY <1>1, <1>2
<1>9. \A l \in Fanin(g, z) : GateSlew(g, s[l], z) \in T
  OBVIOUS
<1> HIDE DEF T
<1>7. Max(T) \in Nat /\ \A x \in T : x <= Max(T)
  BY <1>5, <1>6, MaxIs
<1>8. QED
  BY <1>4, <1>7, <1>9

------------------------------------------------------------------------------
(* What the operations do to the queue and to the delays.                  *)
Enqueued(c2, c, lev, S) ==
  /\ c2 \in Calcs
  /\ c2.seeded = c.seeded /\ c2.incremental = c.incremental
  /\ c2.invalid = c.invalid /\ c2.checks = c.checks
  /\ Queued(c2) = Queued(c) \cup S
  /\ \A v \in Queued(c) : c2.entry[v] = c.entry[v]
  /\ \A v \in S \ Queued(c) : c2.entry[v] = lev[v]

(* Nothing is lost, and the queue is what is flagged.                      *)
LEMMA QueuedIs ==
  ASSUME NEW c \in Calcs
  PROVE  Queued(c) = {v \in Vertices : c.entry[v] # None}
<1>1. c.entry \in [Vertices -> {None} \cup Nat]
  BY DEF Calcs
<1>2. Lost \notin Nat \cup {None}
  BY GraphDelayCalcAssumption
<1>3. QED
  BY <1>1, <1>2 DEF Queued

(* Enqueueing to levels that are not being visited.                        *)
LEMMA EnqueueDoes ==
  ASSUME NEW c \in Calcs, NEW lev \in [Vertices -> Nat], NEW S \in SUBSET Vertices, NEW at,
         \A v \in S : lev[v] # at
  PROVE  Enqueued(Enqueue(c, lev, S, at), c, lev, S)
<1> DEFINE e == [v \in Vertices |->
                   IF v \in S /\ c.entry[v] = None THEN (IF lev[v] = at THEN Lost ELSE lev[v])
                   ELSE c.entry[v]]
           c2 == [c EXCEPT !.entry = e]
<1>1. Enqueue(c, lev, S, at) = c2
  BY DEF Enqueue
<1>2. c.entry \in [Vertices -> {None} \cup Nat]
  BY DEF Calcs
<1>3. None \notin Nat
  BY GraphDelayCalcAssumption
<1>4. e \in [Vertices -> {None} \cup Nat]
  BY <1>2
<1>5. \A v \in Vertices : e[v] = IF v \in S /\ c.entry[v] = None THEN lev[v] ELSE c.entry[v]
  OBVIOUS
<1>6. \A v \in Vertices : e[v] # None <=> c.entry[v] # None \/ v \in S
  BY <1>5, <1>3
<1> HIDE DEF e
<1>7. c2 \in Calcs
  BY <1>4 DEF Calcs
<1>8. /\ c2.seeded = c.seeded /\ c2.incremental = c.incremental
      /\ c2.invalid = c.invalid /\ c2.checks = c.checks /\ c2.entry = e
  BY DEF Calcs
<1>9. Queued(c2) = {v \in Vertices : e[v] # None} /\ Queued(c) = {v \in Vertices : c.entry[v] # None}
  BY <1>7, <1>8, QueuedIs
<1> HIDE DEF c2
<1>10. QED
  BY <1>1, <1>5, <1>6, <1>7, <1>8, <1>9 DEF Enqueued

(* Root slews.                                                             *)
Seeded(r, t, g, roots) ==
  /\ r \in Delays /\ r.arc = t.arc /\ r.check = t.check
  /\ \A v \in roots : r.slew[v] = RootSlew(g, v)
  /\ \A l \in Loads : \A p \in Fanin(g, l) :
       p \in roots => r.slew[l] = LoadSlew(g, r.slew[p], l)
  /\ \A v \in Vertices : v \notin roots /\ Fanin(g, v) \cap roots = {} => r.slew[v] = t.slew[v]
  /\ \A z \in Outputs : r.slew[z] = t.slew[z]

(* seedRootSlews: each port has its loads told, each root its slew.        *)
LEMMA SeedDoes ==
  ASSUME NEW g \in Designs, OneDriver(g), NEW t \in Delays, NEW roots \in SUBSET Vertices,
         \A v \in roots : Root(g, v)
  PROVE  Seeded(SeedRootSlews(t, g, roots), t, g, roots)
<1> DEFINE of(v) == CHOOSE p \in roots : Wired(g, p, v)
           s == [v \in Vertices |->
                   IF v \in roots THEN RootSlew(g, v)
                   ELSE IF \E p \in roots : Wired(g, p, v) THEN LoadSlew(g, RootSlew(g, of(v)), v)
                   ELSE t.slew[v]]
           r == [t EXCEPT !.slew = s]
<1>1. SeedRootSlews(t, g, roots) = r
  BY DEF SeedRootSlews
<1>2. EdgesOf(g)
  BY Edges
<1>3. t.slew \in [Vertices -> Nat] /\ t.arc \in [Arcs -> {<<>>} \cup ArcDelays]
      /\ t.check \in [Checks -> {<<>>} \cup CheckDelays]
  BY DEF Delays
<1>4. \A v \in Vertices : \A p \in roots : Wired(g, p, v) <=> v \in Loads /\ p \in Fanin(g, v)
  BY GraphDelayCalcAssumption DEF Wired, Fanin, Edge, Vertices, Drivers
<1>5. \A v \in Loads : \A p \in Fanin(g, v) : p \in roots => of(v) = p /\ v \notin roots
  <2> SUFFICES ASSUME NEW v \in Loads, NEW p \in Fanin(g, v), p \in roots
               PROVE  of(v) = p /\ v \notin roots
    OBVIOUS
  <2>1. v \in Vertices
    BY DEF Vertices
  <2>2. of(v) \in roots /\ Wired(g, of(v), v)
    BY <2>1, <1>4
  <2> HIDE DEF of
  <2>3. of(v) \in Fanin(g, v)
    BY <2>1, <2>2, <1>4
  <2>4. of(v) = p
    BY <2>3, <1>2 DEF EdgesOf, OneDriver
  <2>5. v \notin roots
    BY DEF Root
  <2>6. QED
    BY <2>4, <2>5
<1> HIDE DEF of
<1>6. \A v \in roots : s[v] = RootSlew(g, v) /\ RootSlew(g, v) \in Nat
  BY SlewTypes
<1>7. \A v \in Loads : \A p \in Fanin(g, v) :
        p \in roots => s[v] = LoadSlew(g, s[p], v) /\ LoadSlew(g, s[p], v) \in Nat
  <2> SUFFICES ASSUME NEW v \in Loads, NEW p \in Fanin(g, v), p \in roots
               PROVE  s[v] = LoadSlew(g, s[p], v) /\ LoadSlew(g, s[p], v) \in Nat
    OBVIOUS
  <2>1. v \in Vertices /\ v \notin roots /\ of(v) = p
    BY <1>5 DEF Vertices
  <2>2. Wired(g, p, v)
    BY <2>1, <1>4
  <2>3. s[v] = LoadSlew(g, RootSlew(g, p), v)
    BY <2>1, <2>2
  <2>4. s[p] = RootSlew(g, p) /\ RootSlew(g, p) \in Nat
    BY <1>6
  <2>5. g.net[v] # None
    BY SlewTypes
  <2>6. LoadSlew(g, s[p], v) \in Nat
    BY <2>4, <2>5, SlewTypes
  <2>7. QED
    BY <2>3, <2>4, <2>6
<1>8. \A v \in Vertices : v \notin roots /\ Fanin(g, v) \cap roots = {} => s[v] = t.slew[v]
  BY <1>4
<1>9. \A z \in Outputs : s[z] = t.slew[z]
  <2> SUFFICES ASSUME NEW z \in Outputs PROVE s[z] = t.slew[z]
    OBVIOUS
  <2>1. z \in Vertices /\ z \notin Loads
    BY GraphDelayCalcAssumption DEF Vertices, Drivers
  <2>2. z \notin roots
    BY <1>2 DEF EdgesOf, Root
  <2>3. QED
    BY <2>1, <2>2, <1>4
<1>10. s \in [Vertices -> Nat]
  <2>1. ASSUME NEW v \in Vertices PROVE s[v] \in Nat
    <3>1. CASE v \in roots
      BY <3>1, <1>6
    <3>2. CASE v \notin roots /\ \E p \in roots : Wired(g, p, v)
      <4> HIDE DEF s
      <4>1. QED
        BY <3>2, <1>4, <1>7
    <3>3. CASE v \notin roots /\ ~(\E p \in roots : Wired(g, p, v))
      BY <3>3, <1>3
    <3>4. QED
      BY <3>1, <3>2, <3>3
  <2>2. QED
    BY <2>1
<1> HIDE DEF s
<1>11. r \in Delays /\ r.arc = t.arc /\ r.check = t.check /\ r.slew = s
  BY <1>10, <1>3 DEF Delays
<1> HIDE DEF r
<1>12. QED
  BY <1>1, <1>6, <1>7, <1>8, <1>9, <1>11 DEF Seeded

(* The delays and the slew of a gate.                                      *)
GateFound(r, t, g, z) ==
  /\ r \in Delays /\ r.check = t.check
  /\ \A a \in Arcs : a[2] # z => r.arc[a] = t.arc[a]
  /\ \A a \in Into(z) : r.arc[a] = GateDelay(g, t.slew[a[1]], z)
  /\ r.slew[z] = Max({ArcSlew(r.arc[a]) : a \in Into(z)})
  /\ \A a \in Into(z) : ArcSlew(r.arc[a]) <= r.slew[z]
  /\ \A l \in Fanout(g, z) : r.slew[l] = LoadSlew(g, r.slew[z], l)
  /\ \A v \in Vertices : v # z /\ v \notin Fanout(g, z) => r.slew[v] = t.slew[v]

(* findDriverDelays.                                                       *)
LEMMA DriverDoes ==
  ASSUME NEW g \in Designs, NEW t \in Delays, NEW z \in Outputs
  PROVE  GateFound(FindDriverDelays(t, g, z), t, g, z)
<1> DEFINE worst == Max({GateSlew(g, t.slew[l], z) : l \in Fanin(g, z)})
           s == [v \in Vertices |-> IF v = z THEN worst
                                    ELSE IF Wired(g, z, v) THEN LoadSlew(g, worst, v)
                                    ELSE t.slew[v]]
           d == [a \in Arcs |-> IF a[2] = z THEN GateDelay(g, t.slew[a[1]], z) ELSE t.arc[a]]
           r == [t EXCEPT !.slew = s, !.arc = d]
<1>1. FindDriverDelays(t, g, z) = r
  BY DEF FindDriverDelays
<1>2. EdgesOf(g)
  BY Edges
<1>3. t.slew \in [Vertices -> Nat] /\ t.arc \in [Arcs -> {<<>>} \cup ArcDelays]
      /\ t.check \in [Checks -> {<<>>} \cup CheckDelays]
  BY DEF Delays
<1>4. worst \in Nat /\ \A l \in Fanin(g, z) : GateSlew(g, t.slew[l], z) <= worst
  BY <1>3, WorstIs
<1>5. z \in Vertices /\ z \in Drivers /\ z \notin Loads
  BY GraphDelayCalcAssumption DEF Vertices, Drivers
<1>6. \A v \in Vertices : Wired(g, z, v) <=> v \in Fanout(g, z)
  BY <1>5, <1>2 DEF EdgesOf, Wired
<1>7. \A l \in Fanout(g, z) : l \in Loads /\ l \in Vertices /\ l # z /\ g.net[l] # None
  BY <1>5, <1>2 DEF EdgesOf, Vertices
<1>8. \A a \in Into(z) : a \in Arcs /\ a[1] \in Vertices /\ a[2] = z /\ a[1] \in Fanin(g, z)
  BY <1>2, GraphDelayCalcAssumption DEF Into, EdgesOf, Vertices
<1> HIDE DEF worst
<1>9. s \in [Vertices -> Nat] /\ s[z] = worst
  <2>1. \A v \in Vertices : Wired(g, z, v) => LoadSlew(g, worst, v) \in Nat
    BY <1>4, <1>6, <1>7, SlewTypes
  <2>2. QED
    BY <2>1, <1>3, <1>4, <1>5
<1>10. /\ \A l \in Fanout(g, z) : s[l] = LoadSlew(g, s[z], l)
       /\ \A v \in Vertices : v # z /\ v \notin Fanout(g, z) => s[v] = t.slew[v]
  BY <1>5, <1>6, <1>7
<1>11. /\ \A a \in Arcs : a[2] # z => d[a] = t.arc[a]
       /\ \A a \in Into(z) : d[a] = GateDelay(g, t.slew[a[1]], z)
  BY <1>8
<1>12. d \in [Arcs -> {<<>>} \cup ArcDelays]
  <2>1. \A a \in Arcs : a[2] = z => GateDelay(g, t.slew[a[1]], z) \in ArcDelays
    <3>1. \A a \in Arcs : a[2] = z => t.slew[a[1]] \in Nat
      BY <1>3, GraphDelayCalcAssumption DEF Vertices
    <3>2. QED
      BY <3>1, GateDelayIs
  <2>2. QED
    BY <2>1, <1>3
<1> HIDE DEF s, d
<1>13. worst = Max({ArcSlew(d[a]) : a \in Into(z)}) /\ \A a \in Into(z) : ArcSlew(d[a]) <= worst
  <2>1. \A a \in Into(z) : ArcSlew(d[a]) = GateSlew(g, t.slew[a[1]], z)
    BY <1>8, <1>11, <1>3, GateDelayIs
  <2>2. \A l \in Fanin(g, z) : \E a \in Into(z) : a[1] = l
    <3> SUFFICES ASSUME NEW l \in Fanin(g, z) PROVE \E a \in Into(z) : a[1] = l
      OBVIOUS
    <3>1. <<l, z>> \in Into(z)
      BY <1>2 DEF EdgesOf, Into
    <3>2. QED
      BY <3>1
  <2>3. {ArcSlew(d[a]) : a \in Into(z)} = {GateSlew(g, t.slew[l], z) : l \in Fanin(g, z)}
    BY <2>1, <2>2, <1>8
  <2>4. QED
    BY <2>1, <2>3, <1>4, <1>8 DEF worst
<1>14. r \in Delays /\ r.arc = d /\ r.check = t.check /\ r.slew = s
  BY <1>9, <1>12, <1>3 DEF Delays
<1> HIDE DEF r
<1>15. QED
  BY <1>1, <1>9, <1>10, <1>11, <1>13, <1>14 DEF GateFound

------------------------------------------------------------------------------
(* A visit.                                                                *)
Same == /\ design' = design /\ level' = level /\ levelized' = levelized
        /\ find' = find /\ answered' = answered
MoreUntold == /\ untold \subseteq untold' /\ untold' \subseteq Vertices
              /\ ~calc.incremental => untold' = untold

Visited(v, S, K) ==
  /\ calc' \in Calcs
  /\ calc'.seeded = calc.seeded /\ calc'.incremental = calc.incremental
  /\ calc'.invalid = calc.invalid /\ calc'.checks = calc.checks \cup K
  /\ Queued(calc') = (Queued(calc) \ {v}) \cup S
  /\ \A u \in Queued(calc) \ {v} : calc'.entry[u] = calc.entry[u]
  /\ \A u \in S : u \notin Queued(calc) => calc'.entry[u] = level[u]

VisitedRoot(v) ==
  /\ v \in Loads /\ v \in untold /\ Root(design, v)
  /\ Seeded(delays', delays, design, {v})
  /\ Visited(v, Fanout(design, v), {})
  /\ untold' = untold
VisitedLoad(v) ==
  /\ v \in Loads
  /\ delays' = delays /\ untold' = untold
  /\ Visited(v, Fanout(design, v), ChecksOf(v))
VisitedGate(v) ==
  /\ v \in Outputs
  /\ GateFound(delays', delays, design, v)
  /\ \/ Visited(v, Fanout(design, v), {}) /\ untold' = untold
     \/ /\ Visited(v, {}, {}) /\ calc.incremental /\ ~Unfound(v)
        /\ untold' = untold \cup {l \in Fanout(design, v) \ Queued(calc) :
                                   delays'.slew[l] # delays.slew[l]}

(* Taken from the queue, and the queue a visit leaves.                     *)
Without(v) == [calc EXCEPT !.entry[v] = None]

Taken(v, S, K, at) ==
  /\ calc' = Enqueue([Without(v) EXCEPT !.checks = @ \cup K], level, S, at) => Visited(v, S, K)
  /\ calc' = Enqueue(Without(v), level, S, at) => Visited(v, S, {})
  /\ calc' = Without(v) => Visited(v, {}, {})
  /\ Without(v).incremental = calc.incremental
  /\ Queued(Without(v)) = Queued(calc) \ {v}

(* A visit that takes v and enqueues S beyond the list being visited.      *)
LEMMA TakenFrom ==
  ASSUME Typed, NEW v \in Vertices, calc.entry[v] # None, NEW S \in SUBSET Vertices, v \notin S,
         NEW K \in SUBSET Checks, NEW at, \A u \in S : level[u] # at
  PROVE  Taken(v, S, K, at)
<1> DEFINE c == Without(v)
<1>1. calc \in Calcs /\ level \in [Vertices -> Nat]
  BY DEF Typed
<1> DEFINE e == [calc.entry EXCEPT ![v] = None]
           k == calc.checks \cup K
           b == [c EXCEPT !.checks = k]
<1>2. e \in [Vertices -> {None} \cup Nat] /\ calc.entry \in [Vertices -> {None} \cup Nat]
  BY <1>1 DEF Calcs
<1>3. k \in SUBSET Checks
  BY <1>1 DEF Calcs
<1>4. e[v] = None /\ \A u \in Vertices : u # v => e[u] = calc.entry[u]
  BY <1>2
<1>5. c = [calc EXCEPT !.entry = e]
  BY <1>1 DEF Calcs, Without
<1> HIDE DEF e, c
<1>6. /\ c \in Calcs /\ c.entry = e
      /\ c.seeded = calc.seeded /\ c.incremental = calc.incremental
      /\ c.invalid = calc.invalid /\ c.checks = calc.checks
  BY <1>1, <1>2, <1>5 DEF Calcs
<1>7. Queued(c) = Queued(calc) \ {v}
  <2>1. /\ Queued(c) = {u \in Vertices : e[u] # None}
        /\ Queued(calc) = {u \in Vertices : calc.entry[u] # None}
    BY <1>1, <1>6, QueuedIs
  <2>2. QED
    BY <2>1, <1>4
<1>8. [c EXCEPT !.checks = @ \cup K] = b
  BY <1>6 DEF Calcs
<1> HIDE DEF k
<1>9. /\ b \in Calcs /\ b.entry = e
      /\ b.seeded = calc.seeded /\ b.incremental = calc.incremental
      /\ b.invalid = calc.invalid /\ b.checks = k
  BY <1>3, <1>6 DEF Calcs
<1> HIDE DEF b
<1>10. Queued(b) = Queued(calc) \ {v}
  <2>1. /\ Queued(b) = {u \in Vertices : e[u] # None}
        /\ Queued(calc) = {u \in Vertices : calc.entry[u] # None}
    BY <1>1, <1>9, QueuedIs
  <2>2. QED
    BY <2>1, <1>4
<1>11. \A u \in Queued(calc) \ {v} : e[u] = calc.entry[u]
  BY <1>4 DEF Queued
<1>12. Enqueued(Enqueue(b, level, S, at), b, level, S)
  BY <1>1, <1>9, EnqueueDoes
<1>13. Enqueued(Enqueue(c, level, S, at), c, level, S)
  BY <1>1, <1>6, EnqueueDoes
<1>14. calc' = Enqueue(b, level, S, at) => Visited(v, S, K)
  BY <1>9, <1>10, <1>11, <1>12 DEF Enqueued, Visited, k
<1>15. calc' = Enqueue(c, level, S, at) => Visited(v, S, {})
  BY <1>6, <1>7, <1>11, <1>13 DEF Enqueued, Visited
<1>16. calc' = c => Visited(v, {}, {})
  BY <1>6, <1>7, <1>11 DEF Visited
<1>17. QED
  BY <1>6, <1>7, <1>8, <1>14, <1>15, <1>16 DEF Taken, c

(* The fanout of a vertex that is visited lies beyond the level visited.   *)
LEMMA FanoutBeyond ==
  ASSUME Typed, LevelsOK, QueueOK, Visiting, find.at # None,
         NEW v \in Vertices, calc.entry[v] = find.at
  PROVE  /\ v \in Queued(calc) /\ v \notin Ports /\ find.at \in Nat
         /\ \A u \in Fanout(design, v) : u \in Vertices /\ u # v /\ level[u] > find.at
<1>1. calc \in Calcs /\ level \in [Vertices -> Nat] /\ find.at \in Nat
  BY DEF Typed, Finds
<1>2. v \in Queued(calc)
  BY <1>1, QueuedIs
<1>3. /\ v \notin Ports /\ (v \in Outputs => find.at <= level[v])
      /\ \A a \in Arcs : v = a[1] => find.at < level[a[2]]
  BY <1>2 DEF QueueOK
<1>4. EdgesOf(design)
  BY Edges
<1>5. ASSUME NEW u \in Fanout(design, v) PROVE u \in Vertices /\ u # v /\ level[u] > find.at
  <2>1. u \in Vertices /\ v \in Fanin(design, u)
    BY <1>4 DEF EdgesOf
  <2>2. level[v] < level[u]
    BY <2>1 DEF LevelsOK
  <2>3. level[u] \in Nat /\ level[v] \in Nat
    BY <2>1, <1>1
  <2>4. CASE v \in Outputs
    BY <2>1, <2>2, <2>3, <2>4, <1>1, <1>3
  <2>5. CASE v \in Loads
    <3>1. <<v, u>> \in Arcs
      BY <2>5, <1>4 DEF EdgesOf
    <3>2. find.at < level[u]
      BY <3>1, <1>3
    <3>3. QED
      BY <2>1, <2>2, <2>3, <3>2, <1>1
  <2>6. QED
    BY <2>4, <2>5, <1>3 DEF Vertices, Drivers
<1>6. QED
  BY <1>1, <1>2, <1>3, <1>5

(* Every gate has an arc.                                                  *)
LEMMA GateArc ==
  ASSUME NEW z \in Outputs
  PROVE  \E a \in Into(z) : TRUE
<1>1. PICK l \in Loads : <<l, z>> \in Arcs
  BY GraphDelayCalcAssumption
<1>2. <<l, z>> \in Into(z)
  BY <1>1 DEF Into
<1>3. QED
  BY <1>2

(* A visit is one of a root, of a load or of a gate.                       *)
LEMMA VisitIs ==
  ASSUME Typed, GraphOK, LevelsOK, QueueOK, NEW v \in Vertices, Visit(v)
  PROVE  Same /\ (VisitedRoot(v) \/ VisitedLoad(v) \/ VisitedGate(v))
<1>1. Visiting /\ find.at # None /\ calc.entry[v] = find.at
  BY DEF Visit
<1>2. /\ v \in Queued(calc) /\ v \notin Ports /\ find.at \in Nat
      /\ \A u \in Fanout(design, v) : u \in Vertices /\ u # v /\ level[u] > find.at
  BY <1>1, FanoutBeyond
<1>3. Same
  BY DEF Visit, Same
<1> DEFINE c == Without(v)
<1>4. VisitRoot(v, c) \/ VisitLoad(v, c) \/ VisitDriver(v, c)
  BY DEF Visit, Without
<1>5. level \in [Vertices -> Nat] /\ design \in Designs /\ delays \in Delays /\ calc \in Calcs
  BY DEF Typed
<1> DEFINE S == Fanout(design, v)
           K == ChecksOf(v)
<1>6. S \in SUBSET Vertices /\ v \notin S /\ K \in SUBSET Checks
      /\ \A u \in S : level[u] # find.at
  <2>1. \A u \in S : level[u] \in Nat
    BY <1>2, <1>5
  <2>2. QED
    BY <2>1, <1>2 DEF ChecksOf
<1>7. calc.entry[v] # None
  BY <1>1
<1> HIDE DEF c
<1>8. /\ calc' = Enqueue([c EXCEPT !.checks = @ \cup K], level, S, find.at) => Visited(v, S, K)
      /\ calc' = Enqueue(c, level, S, find.at) => Visited(v, S, {})
      /\ calc' = c => Visited(v, {}, {})
      /\ c.incremental = calc.incremental
      /\ S \ Queued(c) = S \ Queued(calc)
  <2> HIDE DEF S, K
  <2>1. Taken(v, S, K, find.at)
    BY <1>6, <1>7, TakenFrom
  <2>2. v \notin S
    BY <1>6
  <2>3. QED
    BY <2>1, <2>2 DEF Taken, c
<1>9. CASE VisitRoot(v, c)
  <2>1. /\ level[v] = 0 /\ delays' = SeedRootSlews(delays, design, {v})
        /\ calc' = Enqueue(c, level, S, find.at) /\ untold' = untold
    BY <1>9 DEF VisitRoot
  <2>2. v \notin Outputs
    <3>1. v \in Outputs => calc.entry[v] > 0 /\ calc.entry[v] <= level[v]
      BY <1>2 DEF QueueOK
    <3>2. QED
      BY <3>1, <2>1, <1>1, <1>2
  <2>3. v \in Loads
    BY <2>2, <1>2 DEF Vertices, Drivers
  <2>4. v \in untold
    <3>1. calc.entry[v] > 0 /\ (calc.entry[v] = level[v] \/ v \in untold)
      BY <1>2 DEF QueueOK
    <3>2. QED
      BY <3>1, <2>1, <1>1, <1>2
  <2>5. Root(design, v)
    <3>1. \A u \in Fanin(design, v) : u \in Vertices /\ level[u] < level[v]
      BY <1>1 DEF LevelsOK, Fanin
    <3>2. \A u \in Fanin(design, v) : level[u] \in Nat
      BY <3>1, <1>5
    <3>3. QED
      BY <3>1, <3>2, <2>1 DEF Root
  <2>6. Seeded(delays', delays, design, {v})
    BY <2>1, <2>5, <1>5, SeedDoes DEF GraphOK
  <2>7. Visited(v, S, {})
    BY <2>1, <1>8
  <2>8. VisitedRoot(v)
    BY <2>1, <2>3, <2>4, <2>5, <2>6, <2>7 DEF VisitedRoot
  <2>9. QED
    BY <2>8, <1>3
<1>10. CASE VisitLoad(v, c)
  BY <1>10, <1>8, <1>3 DEF VisitLoad, VisitedLoad
<1>11. CASE VisitDriver(v, c)
  <2>1. /\ v \in Drivers /\ delays' = FindDriverDelays(delays, design, v)
        /\ \/ calc' = Enqueue(c, level, S, find.at) /\ untold' = untold
           \/ /\ calc' = c /\ ~DelayChanged(v) /\ c.incremental
              /\ untold' = untold \cup {l \in S \ Queued(c) : delays'.slew[l] # delays.slew[l]}
    BY <1>11 DEF VisitDriver
  <2>2. v \in Outputs
    BY <2>1, <1>2 DEF Drivers
  <2>3. GateFound(delays', delays, design, v)
    BY <2>1, <2>2, <1>5, DriverDoes
  <2>4. Unfound(v) => DelayChanged(v)
    <3>1. PICK a \in Into(v) : TRUE
      BY <2>2, GateArc
    <3>2. a \in Arcs /\ a[2] = v
      BY <3>1 DEF Into
    <3>3. QED
      BY <3>1, <3>2 DEF Unfound, DelayChanged, Changed, Delay
  <2>5. VisitedGate(v)
    <3>1. CASE calc' = Enqueue(c, level, S, find.at) /\ untold' = untold
      BY <2>2, <2>3, <3>1, <1>8 DEF VisitedGate
    <3>2. CASE /\ calc' = c /\ ~DelayChanged(v) /\ c.incremental
               /\ untold' = untold \cup {l \in S \ Queued(c) : delays'.slew[l] # delays.slew[l]}
      BY <2>2, <2>3, <2>4, <3>2, <1>8 DEF VisitedGate
    <3>3. QED
      BY <2>1, <3>1, <3>2
  <2>6. QED
    BY <2>5, <1>3
<1>12. QED
  BY <1>4, <1>9, <1>10, <1>11

(* A visit leaves the queue in order.                                      *)
LEMMA VisitQueueOK ==
  ASSUME Typed, LevelsOK, QueueOK, Visiting, find.at # None,
         NEW v \in Vertices, calc.entry[v] = find.at, Same, MoreUntold,
         NEW S \in SUBSET Fanout(design, v), NEW K, Visited(v, S, K)
  PROVE  QueueOK'
<1>1. /\ v \in Queued(calc) /\ v \notin Ports /\ find.at \in Nat
      /\ \A u \in Fanout(design, v) : u \in Vertices /\ u # v /\ level[u] > find.at
  BY FanoutBeyond
<1>2. EdgesOf(design)
  BY Edges
<1>3. calc' \in Calcs /\ calc \in Calcs /\ level \in [Vertices -> Nat]
  BY DEF Visited, Typed
<1>4. ASSUME NEW u \in Queued(calc')
      PROVE  /\ u \notin Ports
             /\ calc'.entry[u] > 0
             /\ u \in Outputs => calc'.entry[u] <= level[u]
             /\ \A a \in Arcs : u = a[1] => calc'.entry[u] < level[a[2]]
             /\ calc'.entry[u] = level[u] \/ u \in untold
             /\ find.at <= calc'.entry[u]
  <2>1. CASE u \in Queued(calc) \ {v}
    <3>1. calc'.entry[u] = calc.entry[u]
      BY <2>1 DEF Visited
    <3>2. QED
      BY <3>1, <2>1 DEF QueueOK
  <2>2. CASE u \notin Queued(calc) \ {v}
    <3>1. u \in S /\ u # v /\ u \in Vertices /\ level[u] > find.at
      BY <2>2, <1>1, <1>4 DEF Visited
    <3>2. calc'.entry[u] = level[u]
      BY <3>1, <2>2 DEF Visited
    <3>3. u \notin Ports
      BY <3>1, <1>2 DEF EdgesOf
    <3>4. \A a \in Arcs : u = a[1] => level[u] < level[a[2]]
      BY DEF LevelsOK
    <3>5. level[u] \in Nat
      BY <3>1, <1>3
    <3>6. level[u] > 0 /\ level[u] <= level[u] /\ find.at <= level[u]
      BY <3>1, <3>5, <1>1
    <3>7. QED
      BY <3>2, <3>3, <3>4, <3>6
  <2>3. QED
    BY <2>1, <2>2
<1>5. /\ Visiting' /\ calc'.invalid = {} /\ find' = find /\ level' = level
      /\ untold \subseteq untold' /\ calc'.incremental = calc.incremental
  BY DEF QueueOK, Same, MoreUntold, Visited, Visiting
<1>6. ~calc.incremental => untold' = {}
  BY DEF QueueOK, MoreUntold
<1>7. QED
  BY <1>4, <1>5, <1>6 DEF QueueOK

(* A visit keeps the last answer.                                          *)
LEMMA VisitAnswerOK ==
  ASSUME Typed, LevelsOK, QueueOK, AnswerOK, Visiting, find.at # None,
         NEW v \in Vertices, calc.entry[v] = find.at, Same, MoreUntold,
         NEW S \in SUBSET Fanout(design, v), NEW K \in SUBSET ChecksOf(v), Visited(v, S, K)
  PROVE  AnswerOK'
<1>1. /\ v \in Queued(calc) /\ find.at \in Nat
      /\ \A u \in Fanout(design, v) : u \in Vertices /\ u # v /\ level[u] > find.at
  BY FanoutBeyond
<1>2. SUFFICES ASSUME answered # None
               PROVE  /\ calc'.incremental /\ calc'.invalid = {} /\ levelized = {}
                      /\ \A u \in Queued(calc') : calc'.entry[u] > answered
                      /\ find.at # None => find.at > answered
                      /\ \A c \in calc'.checks :
                           \E x \in {c[1], c[2]} : x \in untold \/ level[x] > answered
  BY DEF AnswerOK, Same, MoreUntold
<1>3. answered \in Nat /\ find.at > answered /\ level \in [Vertices -> Nat]
  BY <1>2 DEF Typed, AnswerOK
<1>4. calc'.incremental /\ calc'.invalid = {} /\ levelized = {}
  BY <1>2 DEF AnswerOK, Visited
<1>5. ASSUME NEW u \in Queued(calc') PROVE calc'.entry[u] > answered
  <2>1. CASE u \in Queued(calc) \ {v}
    BY <2>1, <1>2 DEF Visited, AnswerOK
  <2>2. CASE u \notin Queued(calc) \ {v}
    <3>1. u \in S /\ u # v /\ u \in Vertices /\ level[u] > find.at
      BY <2>2, <1>1, <1>5 DEF Visited
    <3>2. calc'.entry[u] = level[u] /\ level[u] \in Nat
      BY <3>1, <2>2, <1>3 DEF Visited
    <3>3. QED
      BY <3>1, <3>2, <1>1, <1>3
  <2>3. QED
    BY <2>1, <2>2
<1>6. ASSUME NEW c \in calc'.checks
      PROVE  \E x \in {c[1], c[2]} : x \in untold \/ level[x] > answered
  <2>1. CASE c \in calc.checks
    BY <2>1, <1>2 DEF AnswerOK
  <2>2. CASE c \in K
    <3>1. v \in {c[1], c[2]}
      BY <2>2 DEF ChecksOf
    <3>2. v \in untold \/ find.at = level[v]
      BY <1>1 DEF QueueOK
    <3>3. QED
      BY <3>1, <3>2, <1>3
  <2>3. QED
    BY <2>1, <2>2, <1>6 DEF Visited
<1>7. QED
  BY <1>3, <1>4, <1>5, <1>6

(* A visit keeps the types.                                                *)
LEMMA VisitTyped ==
  ASSUME Typed, Same, MoreUntold, NEW v, NEW S, NEW K, Visited(v, S, K), delays' \in Delays
  PROVE  Typed'
BY DEF Typed, Same, MoreUntold, Visited, Visiting

(* The graph and the levels stay in order when nothing of them changes.    *)
LEMMA SameGraph ==
  ASSUME Same, GraphOK, LevelsOK
  PROVE  GraphOK' /\ LevelsOK'
BY DEF Same, GraphOK, Acyclic, Fanin, Edge, Wired, OneDriver, LevelsOK, Root, Visiting

(* The slew of a gate is the worst of its arcs.                            *)
LEMMA WorstKept ==
  ASSUME WorstOK, delays'.arc = delays.arc, \A z \in Outputs : delays'.slew[z] = delays.slew[z]
  PROVE  WorstOK'
BY DEF WorstOK

(* The slew of a gate is the worst of its arcs when it has just been       *)
(* found.                                                                  *)
LEMMA WorstFound ==
  ASSUME WorstOK, GraphOK, NEW z \in Outputs, GateFound(delays', delays, design, z), delays \in Delays,
         design \in Designs
  PROVE  WorstOK'
<1>1. EdgesOf(design)
  BY Edges
<1>2. ASSUME NEW y \in Outputs
      PROVE  \/ \A a \in Into(y) : delays'.arc[a] = <<>>
             \/ /\ \A a \in Into(y) : delays'.arc[a] # <<>>
                /\ delays'.slew[y] = Max({ArcSlew(delays'.arc[a]) : a \in Into(y)})
  <2>1. CASE y = z
    <3>1. \A a \in Into(z) : delays.slew[a[1]] \in Nat
      BY GraphDelayCalcAssumption DEF Into, Delays, Vertices
    <3>2. \A a \in Into(z) : delays'.arc[a] # <<>>
      BY <3>1, GateDelayIs, ZenonT(40) DEF GateFound
    <3>3. QED
      BY <2>1, <3>2 DEF GateFound
  <2>2. CASE y # z
    <3>1. \A a \in Into(y) : delays'.arc[a] = delays.arc[a]
      BY <2>2 DEF GateFound, Into
    <3>2. y \in Vertices /\ y \notin Fanout(design, z)
      BY <1>1, GraphDelayCalcAssumption DEF EdgesOf, Vertices, Drivers
    <3>3. delays'.slew[y] = delays.slew[y]
      BY <2>2, <3>2 DEF GateFound
    <3>4. {ArcSlew(delays'.arc[a]) : a \in Into(y)} = {ArcSlew(delays.arc[a]) : a \in Into(y)}
      BY <3>1
    <3>5. QED
      BY <3>1, <3>3, <3>4 DEF WorstOK
  <2>3. QED
    BY <2>1, <2>2
<1>3. QED
  BY <1>2 DEF WorstOK

------------------------------------------------------------------------------
(* A visit of an input keeps what the slews are known to be.               *)
LEMMA PinUpstream ==
  ASSUME Typed, QueueOK, Visiting, NEW v \in Loads, Same, untold' = untold,
         NEW W \in SUBSET Outputs, NEW K, Visited(v, Fanout(design, v), K)
  PROVE  /\ \A d \in Outputs : Upstream(d, W) => Upstream(d, W)'
         /\ \A d \in Outputs : d \in Fanout(design, v) => Upstream(d, W)'
         /\ \A u \in Pending : u # v => u \in Pending'
<1>1. EdgesOf(design)
  BY Edges
<1>2. \A u \in Pending : u # v => u \in Pending'
  BY DEF Pending, Visited, QueueOK
<1>3. \A d \in Fanout(design, v) : d \in Pending'
  BY DEF Pending, Visited
<1>4. design' = design /\ untold' = untold
  BY DEF Same
<1>5. \A d \in Outputs : d \in Fanout(design, v) => Upstream(d, W)'
  BY <1>3, <1>4 DEF Upstream
<1>6. ASSUME NEW d \in Outputs, Upstream(d, W) PROVE Upstream(d, W)'
  <2>1. d # v
    BY GraphDelayCalcAssumption DEF Drivers
  <2>2. CASE d \in Fanout(design, v)
    BY <2>2, <1>5
  <2>3. CASE d \notin Fanout(design, v)
    <3>1. v \notin Fanin(design, d)
      BY <2>3, <1>1 DEF EdgesOf, Vertices, Drivers
    <3>2. QED
      BY <1>6, <2>1, <3>1, <1>2, <1>4 DEF Upstream
  <2>4. QED
    BY <2>2, <2>3
<1>7. QED
  BY <1>2, <1>5, <1>6

(* A visit of a load.                                                      *)
LEMMA VisitLoadTraced ==
  ASSUME Typed, LevelsOK, QueueOK, Visiting, find.at # None,
         NEW v \in Vertices, calc.entry[v] = find.at, Same, VisitedLoad(v),
         NEW W \in SUBSET Outputs, Traced(W)
  PROVE  Traced(W)'
<1>1. /\ v \in Loads /\ delays' = delays /\ Visited(v, Fanout(design, v), ChecksOf(v))
      /\ untold' = untold
  BY DEF VisitedLoad
<1>2. /\ \A d \in Outputs : Upstream(d, W) => Upstream(d, W)'
      /\ \A d \in Outputs : d \in Fanout(design, v) => Upstream(d, W)'
      /\ \A u \in Pending : u # v => u \in Pending'
  BY <1>1, PinUpstream
<1>3. /\ design' = design /\ untold' = untold /\ level' = level /\ find' = find
      /\ calc'.incremental = calc.incremental /\ calc'.invalid = calc.invalid
      /\ calc.checks \subseteq calc'.checks /\ ChecksOf(v) \subseteq calc'.checks
  BY <1>1 DEF Same, Visited
<1>4. \A d \in W : Upstream(d, W)'
  BY <1>2 DEF Traced
<1>5. Deep(W)'
  BY <1>1, <1>3 DEF Traced, Deep, Unfound
<1>6. \A d \in Outputs : DriverOK(d, W)'
  BY <1>1, <1>2, <1>3 DEF Traced, DriverOK
<1>8. ASSUME NEW l \in Loads PROVE LoadOK(l, W)'
  <2>1. EdgesOf(design)
    BY Edges
  <2>2. \A d \in Fanin(design, l) : d # v
    BY <2>1, <1>1, GraphDelayCalcAssumption DEF EdgesOf
  <2>3. QED
    BY <2>2, <1>1, <1>2, <1>3 DEF Traced, LoadOK
<1>9. \A u \in Vertices : RootOK(u)'
  BY <1>1, <1>3 DEF Traced, RootOK
<1>10. ASSUME NEW c \in Checks PROVE CheckOK(c, W)'
  <2>1. CASE c \in ChecksOf(v)
    BY <2>1, <1>3 DEF CheckOK
  <2>2. CASE c \notin ChecksOf(v)
    <3>1. c[1] # v /\ c[2] # v
      BY <2>2 DEF ChecksOf
    <3>2. v \notin Outputs
      BY <1>1, GraphDelayCalcAssumption DEF Drivers
    <3>3. \A x \in {c[1], c[2]} : Unsure(x, W) => Unsure(x, W)'
      BY <3>1, <3>2, <1>1, <1>2, <1>3 DEF Unsure, Waits
    <3>4. CheckOK(c, W)
      BY DEF Traced
    <3>5. QED
      BY <3>3, <3>4, <1>1, <1>3 DEF CheckOK
  <2>3. QED
    BY <2>1, <2>2
<1>11. QED
  BY <1>4, <1>5, <1>6, <1>8, <1>9, <1>10 DEF Traced

(* A visit of a root.                                                      *)
LEMMA VisitRootTraced ==
  ASSUME Typed, LevelsOK, QueueOK, Visiting, find.at # None,
         NEW v \in Vertices, calc.entry[v] = find.at, Same, VisitedRoot(v),
         NEW W \in SUBSET Outputs, Traced(W)
  PROVE  Traced(W)'
<1>1. /\ v \in Loads /\ Root(design, v) /\ Seeded(delays', delays, design, {v})
      /\ Visited(v, Fanout(design, v), {}) /\ untold' = untold
  BY DEF VisitedRoot
<1>2. /\ \A d \in Outputs : Upstream(d, W) => Upstream(d, W)'
      /\ \A d \in Outputs : d \in Fanout(design, v) => Upstream(d, W)'
      /\ \A u \in Pending : u # v => u \in Pending'
  BY <1>1, PinUpstream
<1>3. /\ design' = design /\ untold' = untold /\ level' = level /\ find' = find
      /\ calc'.incremental = calc.incremental /\ calc'.invalid = calc.invalid
      /\ calc.checks = calc'.checks /\ delays'.arc = delays.arc /\ delays'.check = delays.check
      /\ delays'.slew[v] = RootSlew(design, v)
  BY <1>1 DEF Same, Visited, Seeded
<1>4. EdgesOf(design)
  BY Edges
<1>5. \A u \in Vertices : u # v => delays'.slew[u] = delays.slew[u]
  <2> SUFFICES ASSUME NEW u \in Vertices, u # v PROVE delays'.slew[u] = delays.slew[u]
    OBVIOUS
  <2>1. CASE u \in Outputs
    BY <2>1, <1>1 DEF Seeded
  <2>2. CASE u \notin Outputs
    <3>1. v \notin Drivers
      BY <1>1, GraphDelayCalcAssumption
    <3>2. u \in Ports \cup Loads
      BY <2>2 DEF Vertices, Drivers
    <3>3. v \notin Fanin(design, u)
      BY <3>1, <3>2, <1>4 DEF EdgesOf
    <3>4. QED
      BY <3>3, <1>1 DEF Seeded
  <2>3. QED
    BY <2>1, <2>2
<1>6. \A d \in W : Upstream(d, W)'
  BY <1>2 DEF Traced
<1>7. Deep(W)'
  BY <1>3 DEF Traced, Deep, Unfound
<1>8. ASSUME NEW d \in Outputs PROVE DriverOK(d, W)'
  <2>1. CASE d \in Fanout(design, v)
    BY <2>1, <1>2 DEF DriverOK
  <2>2. CASE d \notin Fanout(design, v)
    <3>1. \A a \in Into(d) : a[1] \in Vertices /\ a[1] # v
      BY <2>2, <1>4, GraphDelayCalcAssumption DEF Into, EdgesOf, Vertices
    <3>2. \A a \in Into(d) : delays'.slew[a[1]] = delays.slew[a[1]]
      BY <3>1, <1>5
    <3>3. DriverOK(d, W)
      BY DEF Traced
    <3>4. QED
      BY <3>2, <3>3, <1>2, <1>3 DEF DriverOK
  <2>3. QED
    BY <2>1, <2>2
<1>10. ASSUME NEW l \in Loads PROVE LoadOK(l, W)'
  <2>1. SUFFICES ASSUME NEW d \in Fanin(design, l)
                 PROVE  \/ delays'.slew[l] = LoadSlew(design, delays'.slew[d], l)
                        \/ d \in Pending'
                        \/ l \in untold
                        \/ d \in W \cup untold
    BY <1>3 DEF LoadOK
  <2>2. l # v
    BY <1>1 DEF Root
  <2>3. d \in Drivers /\ d \in Vertices /\ d # v /\ l \in Vertices
    BY <1>4, <1>1, GraphDelayCalcAssumption DEF EdgesOf, Vertices
  <2>4. QED
    BY <2>2, <2>3, <1>5, <1>2 DEF Traced, LoadOK
<1>11. ASSUME NEW u \in Vertices PROVE RootOK(u)'
  BY <1>3, <1>5 DEF Traced, RootOK
<1>12. ASSUME NEW c \in Checks PROVE CheckOK(c, W)'
  <2>1. CASE v \in {c[1], c[2]}
    BY <2>1, <1>1, <1>3 DEF CheckOK, Unsure
  <2>2. CASE v \notin {c[1], c[2]}
    <3>1. c[1] \in Vertices /\ c[2] \in Vertices /\ v \notin Outputs
      BY <1>1, GraphDelayCalcAssumption DEF Vertices, Drivers
    <3>2. \A x \in {c[1], c[2]} : Unsure(x, W) => Unsure(x, W)'
      BY <2>2, <3>1, <1>2, <1>3, <1>5 DEF Unsure, Waits
    <3>3. CheckOK(c, W)
      BY DEF Traced
    <3>4. CheckDelay(design, delays'.slew, c) = CheckDelay(design, delays.slew, c)
      BY <3>1, <2>2, <1>5 DEF CheckDelay
    <3>5. QED
      BY <3>2, <3>3, <3>4, <1>3 DEF CheckOK
  <2>3. QED
    BY <2>1, <2>2
<1>13. QED
  BY <1>6, <1>7, <1>8, <1>10, <1>11, <1>12 DEF Traced

(* A visit of a gate tells its loads of their new slews, or they go to     *)
(* untold; it always tells the loads of a suspect.                         *)
GateTells(v, W) ==
  /\ \A u \in Pending : u # v => u \in Pending'
  /\ v \in W => \A l \in Fanout(design, v) : l \in Pending'
  /\ \A l \in Fanout(design, v) :
       l \in Pending' \/ delays'.slew[l] = delays.slew[l] \/ l \in untold'
  /\ \A u \in Vertices : u # v /\ u \notin Fanout(design, v) => delays'.slew[u] = delays.slew[u]
  /\ untold \subseteq untold'

LEMMA GateTellsLoads ==
  ASSUME Typed, QueueOK, Visiting, NEW v \in Vertices, VisitedGate(v),
         NEW W \in SUBSET Outputs, Traced(W), v \notin Fanout(design, v)
  PROVE  GateTells(v, W)
<1>1. v \in Outputs /\ GateFound(delays', delays, design, v)
  BY DEF VisitedGate
<1>2. \A u \in Vertices : u # v /\ u \notin Fanout(design, v) => delays'.slew[u] = delays.slew[u]
  BY <1>1 DEF GateFound
<1>3. CASE Visited(v, Fanout(design, v), {}) /\ untold' = untold
  <2>1. \A u \in Pending : u # v => u \in Pending'
    BY <1>3 DEF Pending, Visited, QueueOK
  <2>2. \A l \in Fanout(design, v) : l \in Pending'
    BY <1>3 DEF Visited, Pending
  <2>3. QED
    BY <2>1, <2>2, <1>2, <1>3 DEF GateTells
<1>4. CASE /\ Visited(v, {}, {}) /\ calc.incremental /\ ~Unfound(v)
           /\ untold' = untold \cup {l \in Fanout(design, v) \ Queued(calc) :
                                      delays'.slew[l] # delays.slew[l]}
  <2>1. \A u \in Pending : u # v => u \in Pending'
    BY <1>4 DEF Pending, Visited, QueueOK
  <2>2. v \notin W
    BY <1>4 DEF Traced, Deep
  <2>3. \A l \in Fanout(design, v) :
          l \in Pending' \/ delays'.slew[l] = delays.slew[l] \/ l \in untold'
    BY <2>1, <1>4 DEF Pending
  <2>4. QED
    BY <2>1, <2>2, <2>3, <1>2, <1>4 DEF GateTells
<1>5. QED
  BY <1>3, <1>4 DEF VisitedGate

(* A gate counts the loads that see its slew: what it gives them is not    *)
(* zero.                                                                   *)
LEMMA VisitedSlew ==
  ASSUME design \in Designs, delays \in Delays, NEW v \in Outputs,
         GateFound(delays', delays, design, v),
         NEW l \in Fanout(design, v), design.annotated[l] = None
  PROVE  delays'.slew[l] # 0
<1>1. EdgesOf(design)
  BY Edges
<1>2. l \in Loads /\ design.net[l] \in Nets
  <2>1. v \in Drivers /\ l \in Loads /\ design.net[l] # None
    BY <1>1 DEF EdgesOf, Drivers
  <2>2. design.net \in [Vertices -> Nets \cup {None}]
    BY DEF Designs
  <2>3. QED
    BY <2>1, <2>2 DEF Vertices
<1>3. PICK a \in Into(v) : TRUE
  BY GateArc
<1>4. delays.slew[a[1]] \in Nat
  BY <1>3, GraphDelayCalcAssumption DEF Into, Delays, Vertices
<1> DEFINE t == delays'.arc[a]
<1>5. t \in ArcDelays /\ t[3][2] # 0
  <2>1. t = GateDelay(design, delays.slew[a[1]], v)
    BY <1>3 DEF GateFound
  <2>2. \A n \in Nat : /\ GateDelay(design, n, v) \in ArcDelays
                       /\ GateDelay(design, n, v)[3][2] # 0
    BY GateDelayIs
  <2>3. QED
    BY <2>1, <2>2, <1>4
<1>6. ArcSlew(t) \in Nat /\ ArcSlew(t) # 0
  <2>1. \A u \in ArcDelays :
          /\ u[1] \in Nat /\ u[2] \in Nat /\ u[3][1] \in Nat /\ u[3][2] \in Nat /\ u[4] \in Nat
    BY DEF ArcDelays, Values
  <2> HIDE DEF t
  <2>2. \A i, j, m, n, o \in Nat :
          n # 0 => i + j + m + n + o \in Nat /\ i + j + m + n + o # 0
    OBVIOUS
  <2>3. /\ t[1] \in Nat /\ t[2] \in Nat /\ t[3][1] \in Nat /\ t[3][2] \in Nat /\ t[4] \in Nat
        /\ t[3][2] # 0
    BY <2>1, <1>5
  <2>4. ArcSlew(t) = t[1] + t[2] + t[3][1] + t[3][2] + t[4]
    BY DEF ArcSlew
  <2>5. QED
    BY <2>2, <2>3, <2>4
<1>7. delays'.slew[v] \in Nat /\ ArcSlew(t) <= delays'.slew[v]
  BY <1>3 DEF GateFound, Delays, Vertices, Drivers
<1>8. delays'.slew[l] = delays'.slew[v] + design.wireCap[design.net[l]]
  BY DEF GateFound, LoadSlew
<1>9. design.wireCap[design.net[l]] \in Nat
  <2>1. design.wireCap \in [Nets -> Values]
    BY DEF Designs
  <2>2. QED
    BY <2>1, <1>2 DEF Values
<1>10. QED
  BY <1>6, <1>7, <1>8, <1>9

(* After the visit of a gate it is no suspect.                             *)
LEMMA VisitGateTraced ==
  ASSUME Typed, GraphOK, LevelsOK, QueueOK, Visiting, NEW v \in Vertices,
         Same, VisitedGate(v), NEW W \in SUBSET Outputs, Traced(W)
  PROVE  Traced(W \ {v})'
<1> DEFINE X == W \ {v}
<1>1. /\ v \in Outputs /\ GateFound(delays', delays, design, v)
      /\ calc'.incremental = calc.incremental /\ calc'.invalid = calc.invalid
      /\ calc.checks = calc'.checks
  BY DEF VisitedGate, Visited
<1>2. EdgesOf(design)
  BY Edges
<1>3. GateTells(v, W)
  <2>1. v \notin Fanout(design, v)
    BY <1>1, <1>2, GraphDelayCalcAssumption DEF EdgesOf, Drivers
  <2>2. QED
    BY <2>1, GateTellsLoads
<1>4. design' = design /\ untold \subseteq untold' /\ level' = level /\ find' = find
  BY <1>3 DEF Same, GateTells
<1>5. design \in Designs /\ delays \in Delays /\ level \in [Vertices -> Nat]
  BY DEF Typed
<1>6. \A l \in Fanout(design, v) : l \in Loads /\ l \in Vertices /\ v \in Fanin(design, l) /\ l # v
  BY <1>1, <1>2, GraphDelayCalcAssumption DEF EdgesOf, Vertices, Drivers
<1>7. ASSUME NEW d \in Outputs, d # v, Upstream(d, W) PROVE Upstream(d, X)'
  <2>1. CASE d \in Pending
    BY <2>1, <1>7, <1>3 DEF GateTells, Upstream
  <2>2. ASSUME NEW l \in Fanin(design, d), l \in Pending \cup untold PROVE Upstream(d, X)'
    <3>0. l \in Loads
      <4>1. Fanin(design, d) = {k \in Loads : <<k, d>> \in Arcs}
        BY <1>2, <1>7 DEF EdgesOf
      <4>2. QED
        BY <4>1
    <3>1. l # v
      BY <3>0, <1>1, GraphDelayCalcAssumption DEF Drivers
    <3>2. l \in Pending' \cup untold'
      BY <2>2, <3>1, <1>3, <1>4 DEF GateTells
    <3>3. QED
      BY <3>2, <1>4 DEF Upstream
  <2>3. ASSUME NEW l \in Fanin(design, d), NEW e \in Fanin(design, l), e \in W \cup untold
        PROVE  Upstream(d, X)'
    <3>1. CASE e \in X \cup untold
      BY <3>1, <1>4 DEF Upstream
    <3>2. CASE e = v /\ v \in W
      <4>1. l \in Vertices /\ v \in Vertices
        BY <1>1, <1>2 DEF EdgesOf, Vertices, Drivers
      <4>2. l \in Fanout(design, v)
        BY <3>2, <4>1, <1>2 DEF EdgesOf
      <4>3. l \in Pending'
        BY <4>2, <3>2, <1>3 DEF GateTells
      <4>4. QED
        BY <4>3, <1>4 DEF Upstream
    <3>3. QED
      BY <3>1, <3>2, <2>3
  <2>4. QED
    BY <1>7, <2>1, <2>2, <2>3 DEF Upstream
<1>8. \A d \in X : Upstream(d, X)'
  BY <1>7 DEF Traced
<1>9. \A d \in Outputs : d # v => Unfound(d)' = Unfound(d)
  <2>1. \A d \in Outputs : d # v => \A a \in Into(d) : delays'.arc[a] = delays.arc[a]
    BY <1>1 DEF GateFound, Into
  <2>2. QED
    BY <2>1 DEF Unfound
<1>10. Deep(X)'
  BY <1>1, <1>4, <1>9 DEF Traced, Deep
<1>11. DriverOK(v, X)'
  <2>1. ASSUME NEW a \in Into(v) PROVE delays'.slew[a[1]] = delays.slew[a[1]]
    <3>1. a \in Arcs /\ a[1] \in Vertices /\ a[1] \in Loads /\ a[2] = v
      BY GraphDelayCalcAssumption DEF Into, Vertices
    <3>2. a[1] # v
      BY <3>1, <1>1, GraphDelayCalcAssumption DEF Drivers
    <3>3. level[a[1]] < level[v]
      BY <3>1 DEF LevelsOK
    <3>4. a[1] \in Fanout(design, v) => level[v] < level[a[1]]
      BY <1>6 DEF LevelsOK
    <3>5. level[a[1]] \in Nat /\ level[v] \in Nat
      BY <3>1, <1>5
    <3>6. a[1] \notin Fanout(design, v)
      BY <3>3, <3>4, <3>5
    <3>7. QED
      BY <3>1, <3>2, <3>6, <1>3 DEF GateTells
  <2>2. \A a \in Into(v) : delays'.arc[a] = GateDelay(design, delays'.slew[a[1]], v)
    BY <2>1, <1>1 DEF GateFound
  <2>3. QED
    BY <2>2, <1>4 DEF DriverOK
<1>12. ASSUME NEW d \in Outputs, d # v PROVE DriverOK(d, X)'
  <2>1. \A a \in Into(d) : a \in Arcs /\ a[1] \in Vertices /\ a[1] \in Loads /\ a[1] \in Fanin(design, d)
    BY <1>2, GraphDelayCalcAssumption DEF Into, EdgesOf, Vertices
  <2>2. CASE \E a \in Into(d) : a[1] \in Pending' \cup untold'
    BY <2>1, <2>2, <1>4 DEF DriverOK, Upstream
  <2>4. CASE \A a \in Into(d) : a[1] \notin Pending' \cup untold'
    <3>1. \A a \in Into(d) : a[1] # v
      BY <2>1, <1>1, GraphDelayCalcAssumption DEF Drivers
    <3>2. \A a \in Into(d) : delays'.slew[a[1]] = delays.slew[a[1]]
      <4> SUFFICES ASSUME NEW a \in Into(d) PROVE delays'.slew[a[1]] = delays.slew[a[1]]
        OBVIOUS
      <4>1. CASE a[1] \in Fanout(design, v)
        BY <4>1, <2>4, <1>3 DEF GateTells
      <4>2. CASE a[1] \notin Fanout(design, v)
        BY <4>2, <2>1, <3>1, <1>3 DEF GateTells
      <4>3. QED
        BY <4>1, <4>2
    <3>3. \A a \in Into(d) : delays'.arc[a] = delays.arc[a]
      BY <1>1, <1>12 DEF GateFound, Into
    <3>4. DriverOK(d, W)
      BY DEF Traced
    <3>5. CASE Upstream(d, W)
      BY <3>5, <1>7, <1>12 DEF DriverOK
    <3>6. QED
      BY <3>2, <3>3, <3>4, <3>5, <1>4 DEF DriverOK
  <2>5. QED
    BY <2>2, <2>4
<1>14. ASSUME NEW l \in Loads PROVE LoadOK(l, X)'
  <2>1. SUFFICES ASSUME NEW d \in Fanin(design, l)
                 PROVE  \/ delays'.slew[l] = LoadSlew(design, delays'.slew[d], l)
                        \/ d \in Pending'
                        \/ l \in untold'
                        \/ d \in X \cup untold'
    BY <1>4 DEF LoadOK
  <2>2. d \in Drivers /\ d \in Vertices /\ d \notin Loads /\ l \in Vertices /\ l # v
    BY <1>2, <1>1, GraphDelayCalcAssumption DEF EdgesOf, Vertices, Drivers
  <2>3. CASE d = v
    <3>1. l \in Fanout(design, v)
      BY <2>2, <2>3, <1>2 DEF EdgesOf
    <3>2. QED
      BY <3>1, <2>3, <1>1 DEF GateFound
  <2>4. CASE d # v
    <3>1. l \notin Fanout(design, v) /\ d \notin Fanout(design, v)
      <4>1. v \notin Fanin(design, l)
        BY <2>4, <2>2, <1>1, <1>2 DEF EdgesOf, GraphOK, OneDriver, Drivers
      <4>2. QED
        BY <4>1, <2>2, <1>6
    <3>2. delays'.slew[l] = delays.slew[l] /\ delays'.slew[d] = delays.slew[d]
      BY <3>1, <2>2, <2>4, <1>3 DEF GateTells
    <3>3. \/ delays.slew[l] = LoadSlew(design, delays.slew[d], l)
          \/ d \in Pending
          \/ l \in untold
          \/ d \in W \cup untold
      BY DEF Traced, LoadOK
    <3>4. QED
      BY <3>2, <3>3, <2>2, <2>4, <1>3, <1>4 DEF GateTells
  <2>5. QED
    BY <2>3, <2>4
<1>15. ASSUME NEW u \in Vertices PROVE RootOK(u)'
  <2>1. CASE Root(design, u)
    <3>1. u # v
      BY <2>1, <1>1, <1>2 DEF EdgesOf, Root
    <3>2. u \notin Fanout(design, v)
      BY <2>1, <1>6 DEF Root
    <3>3. delays'.slew[u] = delays.slew[u]
      BY <3>1, <3>2, <1>3 DEF GateTells
    <3>4. QED
      BY <3>3, <1>1, <1>4 DEF Traced, RootOK
  <2>2. CASE ~Root(design, u)
    BY <2>2, <1>4 DEF RootOK
  <2>3. QED
    BY <2>1, <2>2
<1>16. ASSUME NEW c \in Checks PROVE CheckOK(c, X)'
  <2>1. \A x \in {c[1], c[2]} : x \in Loads /\ x \in Vertices /\ x # v
    BY <1>1, GraphDelayCalcAssumption DEF Vertices, Drivers
  <2>3. ASSUME NEW x \in {c[1], c[2]}, delays'.slew[x] # delays.slew[x] PROVE Unsure(x, X)'
    <3>1. x \in Fanout(design, v)
      BY <2>1, <2>3, <1>3 DEF GateTells
    <3>2. x \in Pending' \/ x \in untold'
      BY <3>1, <2>3, <1>3 DEF GateTells
    <3>3. QED
      BY <3>2 DEF Unsure
  <2>2. ASSUME NEW x \in {c[1], c[2]}, Unsure(x, W) PROVE Unsure(x, X)'
    <3>1. CASE \E d \in Fanin(design, x) : d \in W \cup untold
      <4>1. PICK d \in Fanin(design, x) : d \in W \cup untold
        BY <3>1
      <4>2. CASE d = v /\ v \in W
        <5>1. x \in Fanout(design, v)
          BY <4>1, <4>2, <2>1, <1>2 DEF EdgesOf
        <5>2. QED
          BY <5>1, <4>2, <1>3 DEF GateTells, Unsure
      <4>3. CASE d \in X \cup untold
        BY <4>1, <4>3, <1>4 DEF Unsure
      <4>4. QED
        BY <4>1, <4>2, <4>3
    <3>2. CASE x \in Pending
      BY <3>2, <2>1, <1>3 DEF GateTells, Unsure
    <3>4. CASE Waits(x)
      <4>1. PICK d \in Fanin(design, x) : d \in Outputs \cap Pending
        BY <3>4 DEF Waits
      <4>2. CASE d # v
        <5>1. d \in Pending'
          BY <4>1, <4>2, <1>3 DEF GateTells
        <5>2. CASE delays'.slew[x] = delays.slew[x]
          BY <3>4, <4>1, <5>1, <5>2, <1>4 DEF Waits, Unsure
        <5>3. QED
          BY <5>2, <2>3
      <4>3. CASE d = v
        <5>1. x \in Fanout(design, v)
          BY <4>1, <4>3, <2>1, <1>2 DEF EdgesOf
        <5>2. delays'.slew[x] # 0
          BY <5>1, <3>4, <1>1, <1>5, VisitedSlew DEF Waits
        <5>3. QED
          BY <5>2, <3>4, <2>3 DEF Waits
      <4>4. QED
        BY <4>2, <4>3
    <3>3. QED
      BY <3>1, <3>2, <3>4, <2>2, <1>4 DEF Unsure
  <2>4. CheckOK(c, W)
    BY DEF Traced
  <2>5. CASE delays'.slew[c[1]] = delays.slew[c[1]] /\ delays'.slew[c[2]] = delays.slew[c[2]]
    <3>1. CheckDelay(design, delays'.slew, c) = CheckDelay(design, delays.slew, c)
      BY <2>5 DEF CheckDelay
    <3>2. delays'.check = delays.check
      BY <1>1 DEF GateFound
    <3>3. QED
      BY <3>1, <3>2, <2>4, <2>2, <1>1, <1>4 DEF CheckOK
  <2>6. QED
    BY <2>3, <2>5 DEF CheckOK
<1>17. QED
  BY <1>8, <1>10, <1>11, <1>12, <1>14, <1>15, <1>16 DEF Traced

(* Every visit keeps the invariant.                                        *)
LEMMA VisitInv ==
  ASSUME IInv, NEW v \in Vertices, Visit(v)
  PROVE  IInv'
<1>1. Typed /\ GraphOK /\ LevelsOK /\ QueueOK /\ AnswerOK /\ WorstOK /\ SlewsOK
  BY DEF IInv
<1>2. Visiting /\ find.at # None /\ calc.entry[v] = find.at
  BY DEF Visit
<1>3. Same /\ (VisitedRoot(v) \/ VisitedLoad(v) \/ VisitedGate(v))
  BY <1>1, VisitIs
<1>4. PICK W \in SUBSET Outputs : Traced(W)
  BY <1>1, <1>2 DEF SlewsOK
<1>5. design \in Designs /\ delays \in Delays
  BY <1>1 DEF Typed
<1>6. GraphOK' /\ LevelsOK'
  BY <1>1, <1>3, SameGraph
<1>7. ASSUME NEW S \in SUBSET Fanout(design, v), NEW K \in SUBSET ChecksOf(v), Visited(v, S, K),
             delays' \in Delays, MoreUntold
      PROVE  Typed' /\ QueueOK' /\ AnswerOK'
  <2>1. Typed'
    BY <1>1, <1>3, <1>7, VisitTyped
  <2>2. QueueOK'
    BY <1>1, <1>2, <1>3, <1>7, VisitQueueOK
  <2>3. AnswerOK'
    BY <1>1, <1>2, <1>3, <1>7, VisitAnswerOK
  <2>4. QED
    BY <2>1, <2>2, <2>3
<1>8. CASE VisitedRoot(v)
  <2>1. Typed' /\ QueueOK' /\ AnswerOK'
    BY <1>1, <1>7, <1>8 DEF VisitedRoot, Seeded, MoreUntold, Typed
  <2>2. WorstOK'
    BY <1>1, <1>8, WorstKept DEF VisitedRoot, Seeded
  <2>3. Traced(W)'
    BY <1>1, <1>2, <1>3, <1>4, <1>8, VisitRootTraced
  <2>4. SlewsOK'
    BY <1>4, <2>3 DEF SlewsOK
  <2>5. QED
    BY <1>6, <2>1, <2>2, <2>4 DEF IInv
<1>9. CASE VisitedLoad(v)
  <2>1. Typed' /\ QueueOK' /\ AnswerOK'
    BY <1>1, <1>5, <1>7, <1>9 DEF VisitedLoad, MoreUntold, Typed
  <2>2. WorstOK'
    BY <1>1, <1>9, WorstKept DEF VisitedLoad
  <2>3. Traced(W)'
    BY <1>1, <1>2, <1>3, <1>4, <1>9, VisitLoadTraced
  <2>4. SlewsOK'
    BY <1>4, <2>3 DEF SlewsOK
  <2>5. QED
    BY <1>6, <2>1, <2>2, <2>4 DEF IInv
<1>10. CASE VisitedGate(v)
  <2>1. Typed' /\ QueueOK' /\ AnswerOK'
    <3>1. delays' \in Delays
      BY <1>10 DEF VisitedGate, GateFound
    <3>2. MoreUntold
      BY <1>1, <1>10 DEF VisitedGate, MoreUntold, Typed, Fanout
    <3>3. PICK S \in SUBSET Fanout(design, v) : Visited(v, S, {})
      BY <1>10 DEF VisitedGate
    <3>4. {} \in SUBSET ChecksOf(v)
      OBVIOUS
    <3>5. QED
      BY <3>1, <3>2, <3>3, <3>4, <1>7
  <2>2. WorstOK'
    BY <1>1, <1>5, <1>10, WorstFound DEF VisitedGate
  <2>3. Traced(W \ {v})'
    BY <1>1, <1>2, <1>3, <1>4, <1>10, VisitGateTraced
  <2>4. SlewsOK'
    <3>1. W \ {v} \in SUBSET Outputs
      BY <1>4
    <3>2. QED
      BY <3>1, <2>3 DEF SlewsOK
  <2>5. QED
    BY <1>6, <2>1, <2>2, <2>4 DEF IInv
<1>11. QED
  BY <1>3, <1>8, <1>9, <1>10

(* The least of some numbers.                                              *)
LEMMA MinIs ==
  ASSUME NEW F \in SUBSET Nat, F # {}
  PROVE  Min(F) \in F /\ (\A x \in F : Min(F) <= x)
<1> DEFINE R == OpToRel(<, Nat)
<1>1. IsWellFoundedOn(R, Nat)
  BY NatLessThanWellFounded
<1> HIDE DEF R
<1>2. PICK x \in F : \A y \in F : ~(<<y, x>> \in R)
  BY <1>1, WFMin
<1>3. \A y \in F : ~(y < x)
  BY <1>2 DEF R, OpToRel
<1>4. \A y \in F : x <= y
  BY <1>2, <1>3
<1>5. QED
  BY <1>2, <1>4 DEF Min

(* The next list is the lowest that is not empty.                          *)
LEMMA NextLevelInv ==
  ASSUME IInv, NextLevel
  PROVE  IInv'
<1> DEFINE left == {calc.entry[v] : v \in Queued(calc)}
           n == Min(left)
<1>1. Typed /\ GraphOK /\ LevelsOK /\ QueueOK /\ AnswerOK /\ WorstOK /\ SlewsOK
  BY DEF IInv
<1>2. /\ Visiting /\ left # {} /\ find' = [find EXCEPT !.at = n]
      /\ UNCHANGED <<design, level, levelized, delays, calc, answered, untold, edits>>
  BY DEF NextLevel
<1>3. calc \in Calcs /\ find \in Finds /\ find.to \in Nat
  BY <1>1, <1>2 DEF Typed
<1>4. left \in SUBSET Nat
  <2>1. calc.entry \in [Vertices -> {None} \cup Nat]
    BY <1>3 DEF Calcs
  <2>2. QED
    BY <2>1, <1>3, QueuedIs
<1>5. n \in left /\ \A v \in Queued(calc) : n <= calc.entry[v]
  <2> HIDE DEF left
  <2>1. n \in left /\ \A x \in left : n <= x
    BY <1>2, <1>4, MinIs
  <2>2. QED
    BY <2>1 DEF left
<1>6. n \in Nat
  BY <1>4, <1>5
<1>7. PICK u \in Queued(calc) : n = calc.entry[u]
  BY <1>5
<1> HIDE DEF left, n
<1>8. find' \in Finds /\ find'.at = n /\ find'.to = find.to
  BY <1>2, <1>3, <1>6 DEF Finds
<1>9. None \notin Nat
  BY GraphDelayCalcAssumption
<1>10. Visiting'
  BY <1>3, <1>8, <1>9 DEF Visiting, Idle
<1>11. Typed'
  BY <1>1, <1>2, <1>3, <1>8 DEF Typed
<1>12. GraphOK'
  BY <1>1, <1>2 DEF GraphOK, Acyclic, Fanin, Edge, Wired, OneDriver
<1>13. LevelsOK'
  BY <1>1, <1>2 DEF LevelsOK, Fanin, Edge, Wired, Root, Visiting
<1>14. QueueOK'
  BY <1>1, <1>2, <1>5, <1>8, <1>10 DEF QueueOK
<1>15. AnswerOK'
  <2>1. answered # None => n > answered
    BY <1>1, <1>7 DEF AnswerOK
  <2>2. QED
    BY <1>1, <1>2, <1>8, <2>1 DEF AnswerOK
<1>16. WorstOK'
  BY <1>1, <1>2 DEF WorstOK
<1>17. SlewsOK'
  <2>1. PICK W \in SUBSET Outputs : Traced(W)
    BY <1>1, <1>2 DEF SlewsOK
  <2>2. Traced(W)'
    <3>1. Pending' = Pending /\ \A d \in Outputs : Unfound(d)' = Unfound(d)
      BY <1>2 DEF Pending, Unfound
    <3>2. Deep(W)'
      BY <2>1, <1>2, <1>8, <3>1 DEF Traced, Deep
    <3>3. (\A d \in W : Upstream(d, W)') /\ (\A d \in Outputs : DriverOK(d, W)')
      BY <2>1, <1>2, <3>1 DEF Traced, Upstream, DriverOK
    <3>4. (\A l \in Loads : LoadOK(l, W)') /\ (\A v \in Vertices : RootOK(v)')
      BY <2>1, <1>2, <3>1 DEF Traced, LoadOK, RootOK
    <3>5. \A c \in Checks : CheckOK(c, W)'
      BY <2>1, <1>2, <3>1 DEF Traced, CheckOK, Unsure, Waits
    <3>6. QED
      BY <3>2, <3>3, <3>4, <3>5 DEF Traced
  <2>3. QED
    BY <2>1, <2>2 DEF SlewsOK
<1>18. QED
  BY <1>11, <1>12, <1>13, <1>14, <1>15, <1>16, <1>17 DEF IInv

(* Wrong gates would have a first one.                                     *)
LEMMA NoneWrong ==
  ASSUME Acyclic(design), NEW W \in SUBSET Outputs,
         \A d \in W : \E l \in Fanin(design, d) : \E e \in Fanin(design, l) : e \in W
  PROVE  W = {}
<1> DEFINE S == W \cup {l \in Loads : \E e \in Fanin(design, l) : e \in W}
<1>1. SUFFICES ASSUME W # {} PROVE FALSE
  OBVIOUS
<1>2. S \in (SUBSET Vertices) \ {{}}
  BY <1>1 DEF Vertices, Drivers
<1>3. PICK m \in S : Fanin(design, m) \cap S = {}
  <2> HIDE DEF S
  <2>1. QED
    BY <1>2 DEF Acyclic
<1>4. EdgesOf(design)
  BY Edges
<1>5. CASE m \in W
  <2>1. PICK l \in Fanin(design, m) : \E e \in Fanin(design, l) : e \in W
    BY <1>5
  <2>2. Fanin(design, m) = {k \in Loads : <<k, m>> \in Arcs}
    BY <1>4, <1>5 DEF EdgesOf
  <2>3. l \in S
    BY <2>1, <2>2
  <2>4. QED
    BY <2>1, <2>3, <1>3
<1>6. CASE m \notin W
  <2>1. PICK e \in Fanin(design, m) : e \in W
    BY <1>6, <1>3
  <2>2. QED
    BY <2>1, <1>3
<1>7. QED
  BY <1>5, <1>6

(* At the end of a first search the suspects are beyond it: one up to its  *)
(* level would have another one before it.                                 *)
LEMMA SuspectsBeyond ==
  ASSUME Typed, GraphOK, LevelsOK, QueueOK, Visiting, ~calc.incremental,
         \A v \in Queued(calc) : calc.entry[v] > find.to,
         NEW W \in SUBSET Outputs, Traced(W)
  PROVE  \A d \in W : level[d] > find.to
<1> DEFINE S == {d \in W : level[d] <= find.to}
<1>1. level \in [Vertices -> Nat] /\ find.to \in Nat /\ EdgesOf(design)
  BY Edges DEF Typed
<1>2. untold = {} /\ calc.invalid = {} /\ levelized = {}
  BY DEF QueueOK, LevelsOK
<1>3. \A v \in Pending : v \in Vertices /\ level[v] > find.to
  BY <1>2 DEF QueueOK, Pending, Queued
<1>4. \A v \in Vertices : \A u \in Fanin(design, v) : u \in Vertices /\ level[u] < level[v]
  BY <1>1, <1>2 DEF LevelsOK, Fanin
<1>5. ASSUME NEW d \in S PROVE \E l \in Fanin(design, d) : \E e \in Fanin(design, l) : e \in S
  <2>1. d \in W /\ d \in Vertices /\ level[d] \in Nat /\ level[d] <= find.to
    BY <1>1 DEF Vertices, Drivers
  <2>2. d \notin Pending
    BY <2>1, <1>1, <1>3
  <2>3. PICK l \in Fanin(design, d) : l \in Pending \/ \E e \in Fanin(design, l) : e \in W
    BY <2>1, <2>2, <1>2 DEF Traced, Upstream
  <2>4. l \in Vertices /\ level[l] \in Nat /\ level[l] < level[d]
    BY <2>1, <2>3, <1>1, <1>4
  <2>5. l \notin Pending
    BY <2>1, <2>4, <1>1, <1>3
  <2>6. PICK e \in Fanin(design, l) : e \in W
    BY <2>3, <2>5
  <2>7. level[e] \in Nat /\ level[e] < level[l]
    BY <2>4, <2>6, <1>1, <1>4
  <2>8. e \in S
    BY <2>1, <2>4, <2>6, <2>7, <1>1
  <2>9. QED
    BY <2>3, <2>6, <2>8
<1>6. S \in SUBSET Outputs
  OBVIOUS
<1> HIDE DEF S
<1>7. S = {}
  BY <1>5, <1>6, NoneWrong DEF GraphOK
<1>8. ASSUME NEW d \in W PROVE level[d] > find.to
  <2>1. ~(level[d] <= find.to)
    BY <1>7 DEF S
  <2>2. level[d] \in Nat
    BY <1>1 DEF Vertices, Drivers
  <2>3. QED
    BY <2>1, <2>2, <1>1
<1>9. QED
  BY <1>8

(* The end of a search.                                                    *)
LEMMA FoundInv ==
  ASSUME IInv, Found
  PROVE  IInv'
<1> DEFINE k == [c \in Checks |-> IF c \in calc.checks THEN CheckDelay(design, delays.slew, c)
                                  ELSE delays.check[c]]
<1>1. Typed /\ GraphOK /\ LevelsOK /\ QueueOK /\ AnswerOK /\ WorstOK /\ SlewsOK
  BY DEF IInv
<1>2. /\ Visiting
      /\ \A v \in Queued(calc) : calc.entry[v] > find.to
      /\ delays' = FindCheckEdgeDelays(delays, design, calc.checks)
      /\ calc' = [calc EXCEPT !.checks = {}, !.incremental = TRUE]
      /\ find' = Idle
      /\ answered' = find.to
      /\ untold' = untold \cup (IF calc.incremental THEN {} ELSE Beyond(find.to))
      /\ UNCHANGED <<design, level, levelized, edits>>
  BY DEF Found
<1>3. /\ calc \in Calcs /\ delays \in Delays /\ design \in Designs /\ level \in [Vertices -> Nat]
      /\ find.to \in Nat /\ calc.seeded
  BY <1>1, <1>2 DEF Typed
<1>4. k \in [Checks -> {<<>>} \cup CheckDelays]
  <2>1. /\ delays.check \in [Checks -> {<<>>} \cup CheckDelays]
        /\ delays.slew \in [Vertices -> Nat] /\ design.conditions \in Values
    BY <1>3 DEF Delays, Designs
  <2>2. \A c \in Checks : CheckDelay(design, delays.slew, c) \in CheckDelays
    BY <2>1, GraphDelayCalcAssumption DEF CheckDelay, CheckDelays, Vertices
  <2>3. QED
    BY <2>1, <2>2
<1>5. \A c \in Checks : k[c] = IF c \in calc.checks THEN CheckDelay(design, delays.slew, c)
                               ELSE delays.check[c]
  OBVIOUS
<1>6. delays' = [delays EXCEPT !.check = k]
  BY <1>2, <1>3 DEF FindCheckEdgeDelays, Delays
<1> HIDE DEF k
<1>7. delays' \in Delays /\ delays'.slew = delays.slew /\ delays'.arc = delays.arc
      /\ delays'.check = k
  BY <1>3, <1>4, <1>6 DEF Delays
<1>8. /\ calc' \in Calcs /\ calc'.seeded = calc.seeded /\ calc'.incremental = TRUE
      /\ calc'.invalid = calc.invalid /\ calc'.checks = {} /\ calc'.entry = calc.entry
  BY <1>2, <1>3 DEF Calcs
<1>9. Queued(calc') = Queued(calc)
  BY <1>8 DEF Queued
<1>10. find' \in Finds /\ find'.at = None /\ ~Visiting'
  BY <1>2 DEF Finds, Idle, Visiting
<1>19. untold \subseteq untold' /\ untold' \subseteq Vertices
  <2>1. Beyond(find.to) \subseteq Vertices
    BY GraphDelayCalcAssumption DEF Beyond, Vertices, Drivers
  <2>2. QED
    BY <2>1, <1>1, <1>2 DEF Typed
<1>11. Typed'
  BY <1>1, <1>2, <1>3, <1>7, <1>8, <1>10, <1>19 DEF Typed
<1>12. GraphOK'
  BY <1>1, <1>2 DEF GraphOK, Acyclic, Fanin, Edge, Wired, OneDriver
<1>13. LevelsOK'
  BY <1>1, <1>2, <1>10 DEF LevelsOK, Fanin, Edge, Wired, Root
<1>14. QueueOK'
  BY <1>1, <1>2, <1>8, <1>9, <1>10, <1>19 DEF QueueOK
<1>15. AnswerOK'
  BY <1>1, <1>2, <1>8, <1>9, <1>10 DEF AnswerOK, QueueOK, LevelsOK
<1>16. WorstOK'
  BY <1>1, <1>7 DEF WorstOK
<1>17. SlewsOK'
  <2>1. PICK W \in SUBSET Outputs : Traced(W)
    BY <1>1, <1>2 DEF SlewsOK
  <2>2. Pending' = Pending
    BY <1>8, <1>9 DEF Pending
  <2>3. ASSUME NEW d \in W PROVE d \in untold' \/ Unfound(d)
    <3>1. CASE calc.incremental
      BY <3>1, <2>1 DEF Traced, Deep
    <3>2. CASE ~calc.incremental
      <4>1. level[d] > find.to
        BY <3>2, <2>1, <1>1, <1>2, SuspectsBeyond
      <4>2. \A a \in Into(d) : delays.arc[a] # <<>> => d \in Beyond(find.to)
        BY <4>1 DEF Into, Beyond
      <4>3. QED
        BY <4>2, <3>2, <1>2 DEF Unfound
    <3>3. QED
      BY <3>1, <3>2
  <2>6. PICK X \in SUBSET W : \A d \in W : d \in X <=> d \notin untold'
    <3>1. {d \in W : d \notin untold'} \in SUBSET W
      OBVIOUS
    <3>2. QED
      BY <3>1
  <2>4. Traced(X)'
    <3>1. \A d \in Outputs : Unfound(d)' = Unfound(d)
      BY <1>7 DEF Unfound
    <3>2. Deep(X)'
      BY <2>3, <2>6, <3>1 DEF Deep
    <3>3. \A d \in Outputs : Upstream(d, W) => Upstream(d, X)'
      BY <1>2, <1>19, <2>2, <2>6 DEF Upstream
    <3>4. (\A d \in X : Upstream(d, X)') /\ (\A d \in Outputs : DriverOK(d, X)')
      BY <2>1, <2>6, <1>2, <1>7, <1>19, <3>3 DEF Traced, DriverOK
    <3>5. (\A l \in Loads : LoadOK(l, X)') /\ (\A v \in Vertices : RootOK(v)')
      BY <2>1, <2>6, <1>2, <1>7, <1>8, <1>19, <2>2 DEF Traced, LoadOK, RootOK
    <3>6. \A x \in Vertices : Unsure(x, W) => Unsure(x, X)'
      BY <1>2, <1>7, <1>19, <2>2, <2>6 DEF Unsure, Waits
    <3>7. ASSUME NEW c \in Checks PROVE CheckOK(c, X)'
      <4>1. c[1] \in Vertices /\ c[2] \in Vertices
        BY GraphDelayCalcAssumption DEF Vertices
      <4>2. CheckOK(c, W)
        BY <2>1 DEF Traced
      <4>3. CASE Unsure(c[1], W) \/ Unsure(c[2], W)
        BY <4>1, <4>3, <3>6 DEF CheckOK
      <4>4. CASE ~Unsure(c[1], W) /\ ~Unsure(c[2], W)
        BY <4>2, <4>4, <1>2, <1>5, <1>7 DEF CheckOK
      <4>5. QED
        BY <4>3, <4>4
    <3>8. QED
      BY <3>2, <3>4, <3>5, <3>7 DEF Traced
  <2>5. QED
    BY <2>1, <2>4 DEF SlewsOK
<1>18. QED
  BY <1>11, <1>12, <1>13, <1>14, <1>15, <1>16, <1>17 DEF IInv

------------------------------------------------------------------------------
(* The start of a search.                                                  *)
Relevel(lev) ==
  /\ lev \in [Vertices -> Nat]
  /\ \A v \in Vertices : lev[v] = 0 <=> Root(design, v)
  /\ \A v \in Vertices : \A u \in Fanin(design, v) : lev[u] < lev[v]
  /\ \A z \in Outputs : level[z] <= lev[z]
  /\ levelized = {} => \A v \in Vertices : level[v] <= lev[v]

(* The levels rise along every edge again after relevelize.                *)
LEMMA RelevelDoes ==
  ASSUME Typed, GraphOK, LevelsOK
  PROVE  Relevel(Relevelized(design, level, levelized))
<1> DEFINE lev == Relevelized(design, level, levelized)
<1>1. level \in [Vertices -> Nat]
  BY DEF Typed
<1>2. /\ lev \in [Vertices -> Nat]
      /\ \A v \in Vertices : \A u \in Fanin(design, v) : lev[u] < lev[v]
      /\ \A v \in Vertices : Base(design, level, levelized, v) <= lev[v]
      /\ \A v \in Vertices : Root(design, v) => lev[v] = Base(design, level, levelized, v)
  <2>1. \A g : Acyclic(g) =>
               /\ Relevelized(g, level, levelized) \in [Vertices -> Nat]
               /\ \A v \in Vertices : \A u \in Fanin(g, v) :
                    Relevelized(g, level, levelized)[u] < Relevelized(g, level, levelized)[v]
               /\ \A v \in Vertices : Base(g, level, levelized, v) <= Relevelized(g, level, levelized)[v]
               /\ \A v \in Vertices : Root(g, v) =>
                    Relevelized(g, level, levelized)[v] = Base(g, level, levelized, v)
    BY <1>1, RelevelizedIs
  <2>2. QED
    BY <2>1 DEF GraphOK
<1> HIDE DEF lev
<1>3. \A v \in Vertices : Fanin(design, v) \subseteq Vertices
  BY DEF Fanin
<1>4. ASSUME NEW v \in Vertices PROVE lev[v] = 0 <=> Root(design, v)
  <2>1. CASE Root(design, v)
    <3>1. v \notin levelized => level[v] = 0
      BY <2>1 DEF LevelsOK
    <3>2. QED
      BY <2>1, <3>1, <1>2 DEF Base
  <2>2. CASE ~Root(design, v)
    <3>1. PICK u \in Fanin(design, v) : TRUE
      BY <2>2 DEF Root
    <3>2. lev[u] < lev[v] /\ u \in Vertices
      BY <3>1, <1>2, <1>3
    <3>3. lev[u] \in Nat /\ lev[v] \in Nat
      BY <3>2, <1>2
    <3>4. QED
      BY <2>2, <3>2, <3>3
  <2>3. QED
    BY <2>1, <2>2
<1>5. \A z \in Outputs : level[z] <= lev[z]
  <2>1. \A z \in Outputs : z \in Vertices /\ ~Root(design, z)
    BY Edges DEF EdgesOf, Root, Vertices, Drivers
  <2>2. QED
    BY <2>1, <1>2 DEF Base
<1>6. levelized = {} => \A v \in Vertices : level[v] <= lev[v]
  BY <1>2 DEF Base
<1>7. Relevel(lev)
  BY <1>2, <1>4, <1>5, <1>6 DEF Relevel
<1>8. QED
  BY <1>7 DEF lev

(* What is enqueued, and what the start of a search leaves.                *)
ToVisit(roots) == (calc.invalid \ roots) \cup UNION {Fanout(design, v) : v \in roots}
Sown(roots, lev) ==
  /\ \A v \in roots : v \in Vertices /\ Root(design, v)
  /\ \A v \in calc.invalid : Root(design, v) => v \in roots
  /\ calc.incremental => roots \subseteq calc.invalid
  /\ Seeded(delays', delays, design, roots)
  /\ calc' \in Calcs
  /\ calc'.seeded /\ calc'.incremental = calc.incremental
  /\ calc'.invalid = {} /\ calc'.checks = calc.checks
  /\ Queued(calc') = Queued(calc) \cup ToVisit(roots)
  /\ \A v \in Queued(calc) : calc'.entry[v] = calc.entry[v]
  /\ \A v \in ToVisit(roots) : v \notin Queued(calc) => calc'.entry[v] = lev[v]

(* An incremental search seeds the roots that were invalidated.            *)
LEMMA SeedInvalidDoes ==
  ASSUME Typed, GraphOK, LevelsOK, NEW lev, Relevel(lev), calc.incremental, SeedInvalidDelays(lev)
  PROVE  Sown({v \in calc.invalid : Root(design, v)}, lev)
<1> DEFINE roots == {v \in calc.invalid : Root(design, v)}
           k == [calc EXCEPT !.invalid = {}]
           S == ToVisit(roots)
<1>1. calc \in Calcs /\ calc.invalid \subseteq Vertices /\ calc.seeded
  BY DEF Typed, Calcs
<1>2. roots = {v \in calc.invalid : lev[v] = 0}
  BY <1>1 DEF Relevel
<1>3. /\ delays' = SeedRootSlews(delays, design, roots)
      /\ calc' = Enqueue(k, lev, S, None)
  BY <1>2 DEF SeedInvalidDelays, ToVisit
<1>4. roots \in SUBSET Vertices /\ \A v \in roots : Root(design, v)
  BY <1>1
<1>5. S \in SUBSET Vertices
  BY <1>1 DEF ToVisit, Fanout
<1>6. k \in Calcs /\ k.seeded = calc.seeded /\ k.incremental = calc.incremental
      /\ k.invalid = {} /\ k.checks = calc.checks /\ k.entry = calc.entry
  BY <1>1 DEF Calcs
<1>7. Queued(k) = Queued(calc)
  BY <1>6 DEF Queued
<1> HIDE DEF k, S
<1>8. lev \in [Vertices -> Nat] /\ \A v \in S : lev[v] # None
  BY <1>5, GraphDelayCalcAssumption DEF Relevel
<1>9. Enqueued(calc', k, lev, S)
  BY <1>3, <1>5, <1>6, <1>8, EnqueueDoes
<1>10. Seeded(delays', delays, design, roots)
  <2> HIDE DEF roots
  <2>1. QED
    BY <1>3, <1>4, SeedDoes DEF Typed, GraphOK
<1>11. QED
  BY <1>1, <1>4, <1>6, <1>7, <1>9, <1>10 DEF Sown, Enqueued, S

(* A first search seeds every root.                                        *)
LEMMA SeedAllDoes ==
  ASSUME Typed, GraphOK, LevelsOK, QueueOK, ~Visiting, NEW lev, Relevel(lev), ~calc.incremental,
         SeedAll(lev)
  PROVE  Sown({v \in Vertices : Root(design, v)}, lev)
<1> DEFINE roots == {v \in Vertices : Root(design, v)}
           b == Cleared(calc)
           k == [b EXCEPT !.seeded = TRUE]
           S == ToVisit(roots)
           e == [v \in Vertices |-> IF calc.entry[v] = Lost THEN Lost ELSE None]
<1>1. calc \in Calcs /\ calc.invalid = {} /\ Queued(calc) = {}
  BY DEF Typed, QueueOK
<1>2. /\ delays' = SeedRootSlews(delays, design, roots)
      /\ calc' = Enqueue(k, lev, S, None)
  BY <1>1 DEF SeedAll, ToVisit
<1>3. S \in SUBSET Vertices /\ roots \in SUBSET Vertices /\ \A v \in roots : Root(design, v)
  BY <1>1 DEF ToVisit, Fanout
<1>4. b = [calc EXCEPT !.entry = e]
  BY <1>1 DEF Cleared, Calcs
<1>5. e \in [Vertices -> {None} \cup Nat] /\ \A v \in Vertices : e[v] = None
  <2>1. calc.entry \in [Vertices -> {None} \cup Nat] /\ Lost \notin Nat \cup {None}
    BY <1>1, GraphDelayCalcAssumption DEF Calcs
  <2>2. QED
    BY <2>1
<1> HIDE DEF e, b
<1>6. b \in Calcs /\ b.incremental = calc.incremental
      /\ b.invalid = {} /\ b.checks = calc.checks /\ b.entry = e
  BY <1>1, <1>4, <1>5 DEF Calcs
<1>7. k \in Calcs /\ k.seeded = TRUE /\ k.incremental = calc.incremental
      /\ k.invalid = {} /\ k.checks = calc.checks /\ k.entry = e
  BY <1>6 DEF Calcs
<1>8. Queued(k) = {}
  BY <1>5, <1>7 DEF Queued
<1> HIDE DEF k, S
<1>9. lev \in [Vertices -> Nat] /\ \A v \in S : lev[v] # None
  BY <1>3, GraphDelayCalcAssumption DEF Relevel
<1>10. Enqueued(calc', k, lev, S)
  BY <1>2, <1>3, <1>7, <1>9, EnqueueDoes
<1>11. Seeded(delays', delays, design, roots)
  <2> HIDE DEF roots
  <2>1. QED
    BY <1>2, <1>3, SeedDoes DEF Typed, GraphOK
<1>12. QED
  BY <1>1, <1>3, <1>7, <1>8, <1>10, <1>11 DEF Sown, Enqueued, S

Started(lev, to) ==
  /\ design' = design /\ level' = lev /\ levelized' = {} /\ answered' = answered
  /\ untold' = untold \cup {v \in Queued(calc) : calc.entry[v] # lev[v]}
  /\ find' = [at |-> None, to |-> to]
  /\ to \in Nat

(* What is enqueued is no root.                                            *)
LEMMA ToVisitIs ==
  ASSUME Typed, NEW lev, Relevel(lev), NEW roots, Sown(roots, lev), NEW v \in ToVisit(roots)
  PROVE  v \in Vertices /\ v \notin Ports /\ lev[v] \in Nat /\ lev[v] > 0
<1>1. EdgesOf(design)
  BY Edges
<1>2. calc.invalid \subseteq Vertices
  BY DEF Typed, Calcs
<1>3. v \in Vertices /\ ~Root(design, v)
  <2>1. CASE v \in calc.invalid \ roots
    BY <2>1, <1>2 DEF Sown
  <2>2. CASE v \notin calc.invalid \ roots
    <3>1. PICK r \in roots : v \in Fanout(design, r)
      BY <2>2 DEF ToVisit
    <3>2. r \in Vertices
      BY <3>1 DEF Sown
    <3>3. v \in Vertices /\ r \in Fanin(design, v)
      BY <3>1, <3>2, <1>1 DEF EdgesOf
    <3>4. QED
      BY <3>3 DEF Root
  <2>3. QED
    BY <2>1, <2>2
<1>4. v \notin Ports
  BY <1>1, <1>3 DEF EdgesOf, Root
<1>5. QED
  BY <1>3, <1>4 DEF Relevel

(* The start of a search keeps all but what is known of the slews.         *)
LEMMA StartKeeps ==
  ASSUME Typed, GraphOK, LevelsOK, QueueOK, AnswerOK, WorstOK, ~Visiting,
         NEW lev, Relevel(lev), NEW to, Started(lev, to), NEW roots, Sown(roots, lev)
  PROVE  Typed' /\ GraphOK' /\ LevelsOK' /\ QueueOK' /\ AnswerOK' /\ WorstOK' /\ Visiting'
<1>1. /\ design' = design /\ level' = lev /\ levelized' = {} /\ answered' = answered
      /\ untold' = untold \cup {v \in Queued(calc) : calc.entry[v] # lev[v]}
      /\ find' = [at |-> None, to |-> to]
      /\ to \in Nat
  BY DEF Started
<1>2. EdgesOf(design)
  BY Edges
<1>3. /\ lev \in [Vertices -> Nat]
      /\ \A v \in Vertices : lev[v] = 0 <=> Root(design, v)
      /\ \A v \in Vertices : \A u \in Fanin(design, v) : lev[u] < lev[v]
      /\ \A z \in Outputs : level[z] <= lev[z]
      /\ levelized = {} => \A v \in Vertices : level[v] <= lev[v]
  BY DEF Relevel
<1>4. /\ calc' \in Calcs
      /\ calc'.seeded /\ calc'.incremental = calc.incremental
      /\ calc'.invalid = {} /\ calc'.checks = calc.checks
      /\ Queued(calc') = Queued(calc) \cup ToVisit(roots)
      /\ \A v \in Queued(calc) : calc'.entry[v] = calc.entry[v]
      /\ \A v \in ToVisit(roots) : v \notin Queued(calc) => calc'.entry[v] = lev[v]
      /\ Seeded(delays', delays, design, roots)
  BY DEF Sown
<1>5. Visiting' /\ find' \in Finds /\ find'.at = None /\ find'.to = to
  BY <1>1, GraphDelayCalcAssumption DEF Visiting, Idle, Finds
<1>6. Typed'
  BY <1>1, <1>3, <1>4, <1>5 DEF Typed, Seeded, Queued
<1>7. GraphOK'
  BY <1>1 DEF GraphOK, Acyclic, Fanin, Edge, Wired, OneDriver
<1>8. LevelsOK'
  <2>1. \A v \in Vertices : Root(design, v)' = Root(design, v)
    BY <1>1 DEF Root, Fanin, Edge, Wired
  <2>2. \A v \in Vertices : Fanin(design, v)' = Fanin(design, v)
    BY <1>1 DEF Fanin, Edge, Wired
  <2>3. \A p \in Ports : lev[p] = 0
    BY <1>2, <1>3 DEF EdgesOf, Root, Vertices, Drivers
  <2>4. \A a \in Arcs : lev[a[1]] < lev[a[2]]
    <3>1. SUFFICES ASSUME NEW a \in Arcs PROVE lev[a[1]] < lev[a[2]]
      OBVIOUS
    <3>2. a[1] \in Loads /\ a[2] \in Outputs /\ <<a[1], a[2]>> \in Arcs /\ a[2] \in Vertices
      BY GraphDelayCalcAssumption DEF Vertices, Drivers
    <3>3. a[1] \in Fanin(design, a[2])
      BY <3>2, <1>2 DEF EdgesOf
    <3>4. QED
      BY <3>2, <3>3, <1>3
  <2>5. QED
    BY <2>1, <2>2, <2>3, <2>4, <1>1, <1>3 DEF LevelsOK
<1>9. QueueOK'
  <2>1. ASSUME NEW v \in Queued(calc')
        PROVE  /\ v \notin Ports
               /\ calc'.entry[v] > 0
               /\ v \in Outputs => calc'.entry[v] <= lev[v]
               /\ \A a \in Arcs : v = a[1] => calc'.entry[v] < lev[a[2]]
               /\ calc'.entry[v] = lev[v] \/ v \in untold'
    <3>1. CASE v \in Queued(calc)
      <4>1. calc'.entry[v] = calc.entry[v] /\ calc \in Calcs /\ v \in Vertices
        BY <3>1, <1>4 DEF Typed, Queued
      <4>2. calc.entry[v] \in Nat
        BY <3>1, <4>1, QueuedIs DEF Calcs
      <4>3. /\ v \notin Ports
            /\ calc.entry[v] > 0
            /\ v \in Outputs => calc.entry[v] <= level[v]
            /\ \A a \in Arcs : v = a[1] => calc.entry[v] < level[a[2]]
        BY <3>1 DEF QueueOK
      <4>4. \A z \in Outputs : level[z] \in Nat /\ lev[z] \in Nat /\ level[z] <= lev[z]
        BY <1>3 DEF Typed, Vertices, Drivers
      <4>5. v \in Outputs => calc.entry[v] <= lev[v]
        BY <4>2, <4>3, <4>4
      <4>6. \A a \in Arcs : v = a[1] => calc.entry[v] < lev[a[2]]
        <5>1. \A a \in Arcs : a[2] \in Outputs
          BY GraphDelayCalcAssumption
        <5>2. QED
          BY <5>1, <4>2, <4>3, <4>4
      <4>7. calc.entry[v] = lev[v] \/ v \in untold'
        BY <3>1, <1>1
      <4>8. QED
        BY <4>1, <4>3, <4>5, <4>6, <4>7
    <3>2. CASE v \notin Queued(calc)
      <4>1. v \in ToVisit(roots) /\ calc'.entry[v] = lev[v]
        BY <3>2, <2>1, <1>4
      <4>2. v \in Vertices /\ v \notin Ports /\ lev[v] \in Nat /\ lev[v] > 0
        BY <4>1, ToVisitIs
      <4>3. \A a \in Arcs : v = a[1] => lev[v] < lev[a[2]]
        BY <1>1, <1>8 DEF LevelsOK
      <4>4. QED
        BY <4>1, <4>2, <4>3
    <3>3. QED
      BY <3>1, <3>2
  <2>2. ~calc.incremental => untold' = {}
    BY <1>1 DEF QueueOK
  <2>3. QED
    BY <2>1, <2>2, <1>1, <1>4, <1>5 DEF QueueOK
<1>10. AnswerOK'
  <2>1. SUFFICES ASSUME answered # None
                 PROVE  /\ calc'.incremental
                        /\ \A v \in Queued(calc') : calc'.entry[v] > answered
                        /\ calc'.checks = {}
    BY <1>1, <1>4, <1>5 DEF AnswerOK
  <2>2. /\ calc.incremental /\ calc.invalid = {} /\ levelized = {}
        /\ \A v \in Queued(calc) : calc.entry[v] > answered
    BY <2>1 DEF AnswerOK
  <2>3. calc.checks = {}
    BY DEF QueueOK
  <2>4. ToVisit(roots) = {}
    <3>1. roots = {}
      BY <2>2 DEF Sown
    <3>2. QED
      BY <3>1, <2>2 DEF ToVisit
  <2>5. QED
    BY <2>2, <2>3, <2>4, <1>4
<1>11. WorstOK'
  BY <1>4, WorstKept DEF Seeded
<1>12. QED
  BY <1>5, <1>6, <1>7, <1>8, <1>9, <1>10, <1>11

(* What an incremental search has not enqueued it has seeded.              *)
LEMMA SeedInvalidTraced ==
  ASSUME Typed, GraphOK, QueueOK, NEW lev, Relevel(lev), NEW to, Started(lev, to),
         calc.incremental, Sown({v \in calc.invalid : Root(design, v)}, lev),
         NEW W \in SUBSET Outputs, Traced(W)
  PROVE  Traced(W)'
<1> DEFINE roots == {v \in calc.invalid : Root(design, v)}
<1>1. /\ design' = design /\ untold \subseteq untold'
      /\ calc'.incremental /\ calc'.invalid = {} /\ calc'.checks = calc.checks
      /\ Queued(calc') = Queued(calc) \cup ToVisit(roots)
      /\ Seeded(delays', delays, design, roots)
      /\ delays'.arc = delays.arc /\ delays'.check = delays.check
  BY DEF Started, Sown, Seeded
<1>2. EdgesOf(design)
  BY Edges
<1>3. /\ \A u \in Pending : u \notin roots => u \in Pending'
      /\ \A r \in roots : \A u \in Fanout(design, r) : u \in Pending'
      /\ \A r \in roots : r \in Vertices /\ Root(design, r)
  <2>1. calc.invalid \subseteq Vertices
    BY DEF Typed, Calcs
  <2>2. QED
    BY <1>1, <2>1 DEF Pending, ToVisit
<1>4. /\ \A v \in roots : delays'.slew[v] = RootSlew(design, v)
      /\ \A l \in Loads : \A p \in Fanin(design, l) :
           p \in roots => delays'.slew[l] = LoadSlew(design, delays'.slew[p], l)
      /\ \A v \in Vertices : v \notin roots /\ Fanin(design, v) \cap roots = {}
           => delays'.slew[v] = delays.slew[v]
      /\ \A z \in Outputs : delays'.slew[z] = delays.slew[z]
  BY <1>1 DEF Seeded
<1>5. \A v \in calc.invalid : Root(design, v) => v \in roots
  OBVIOUS
<1> HIDE DEF roots
<1>6. \A v \in Vertices : \A u \in Fanin(design, v) : u \in roots => v \in Pending'
  BY <1>2, <1>3 DEF EdgesOf
<1>7. ASSUME NEW d \in Outputs, Upstream(d, W) PROVE Upstream(d, W)'
  <2>1. d \in Vertices /\ ~Root(design, d)
    BY <1>2, <1>7 DEF EdgesOf, Root, Vertices, Drivers
  <2>2. CASE d \in Pending
    BY <2>1, <2>2, <1>3 DEF Upstream
  <2>3. CASE \E l \in Fanin(design, d) : l \in roots
    BY <2>1, <2>3, <1>6 DEF Upstream
  <2>4. CASE \E l \in Fanin(design, d) :
               \/ l \in (Pending \cup untold) \ roots
               \/ \E e \in Fanin(design, l) : e \in W \cup untold
    BY <2>4, <1>1, <1>3 DEF Upstream
  <2>5. QED
    BY <1>7, <2>2, <2>3, <2>4 DEF Upstream
<1>8. \A d \in W : Upstream(d, W)'
  BY <1>7 DEF Traced
<1>9. \A d \in Outputs : Unfound(d)' = Unfound(d)
  BY <1>1 DEF Unfound
<1>10. Deep(W)'
  BY <1>9 DEF Traced, Deep
<1>11. ASSUME NEW d \in Outputs PROVE DriverOK(d, W)'
  <2>1. d \in Vertices /\ \A a \in Into(d) : a[1] \in Vertices /\ a[1] \in Fanin(design, d)
    BY <1>2, GraphDelayCalcAssumption DEF Into, EdgesOf, Vertices, Drivers
  <2>2. CASE \E l \in Fanin(design, d) : l \in roots
    BY <2>1, <2>2, <1>6 DEF DriverOK, Upstream
  <2>3. CASE \E l \in Fanin(design, d) : l \in Pending'
    BY <2>3, <1>1 DEF DriverOK, Upstream
  <2>4. CASE \A l \in Fanin(design, d) : l \notin roots /\ l \notin Pending'
    <3>1. ASSUME NEW a \in Into(d) PROVE delays'.slew[a[1]] = delays.slew[a[1]]
      <4>1. a[1] \in Vertices /\ a[1] \notin roots /\ a[1] \notin Pending'
        BY <2>1, <2>4
      <4>2. Fanin(design, a[1]) \cap roots = {}
        BY <4>1, <1>6
      <4>3. QED
        BY <4>1, <4>2, <1>4
    <3>2. DriverOK(d, W)
      BY DEF Traced
    <3>3. QED
      BY <3>1, <3>2, <1>1, <1>7 DEF DriverOK
  <2>5. QED
    BY <2>2, <2>3, <2>4
<1>13. ASSUME NEW l \in Loads PROVE LoadOK(l, W)'
  <2>1. SUFFICES ASSUME NEW d \in Fanin(design, l)
                 PROVE  \/ delays'.slew[l] = LoadSlew(design, delays'.slew[d], l)
                        \/ d \in Pending'
                        \/ l \in untold
                        \/ d \in W \cup untold
    BY <1>1 DEF LoadOK
  <2>2. d \in Drivers /\ d \in Vertices /\ l \in Vertices
    BY <1>2 DEF EdgesOf, Vertices
  <2>3. CASE d \in roots
    BY <2>3, <1>4
  <2>4. CASE d \notin roots
    <3>1. l \notin roots /\ Fanin(design, l) \cap roots = {}
      <4>1. l \notin roots
        BY <1>3 DEF Root
      <4>2. \A e \in Fanin(design, l) : e = d
        BY <1>2 DEF EdgesOf, GraphOK, OneDriver
      <4>3. QED
        BY <4>1, <4>2, <2>4
    <3>2. delays'.slew[l] = delays.slew[l]
      BY <3>1, <2>2, <1>4
    <3>3. delays'.slew[d] = delays.slew[d]
      <4>1. CASE d \in Outputs
        BY <4>1, <1>4
      <4>2. CASE d \in Ports
        BY <4>2, <2>2, <2>4, <1>2, <1>4 DEF EdgesOf
      <4>3. QED
        BY <2>2, <4>1, <4>2 DEF Drivers
    <3>4. QED
      BY <3>1, <3>2, <3>3, <2>4, <1>3 DEF Traced, LoadOK
  <2>5. QED
    BY <2>3, <2>4
<1>14. ASSUME NEW v \in Vertices PROVE RootOK(v)'
  <2>1. CASE v \in roots
    BY <2>1, <1>1, <1>4 DEF RootOK
  <2>2. CASE Root(design, v) /\ v \notin roots
    <3>1. v \notin calc.invalid
      BY <2>2, <1>5
    <3>2. delays'.slew[v] = delays.slew[v]
      BY <2>2, <1>4 DEF Root
    <3>3. QED
      BY <2>2, <3>1, <3>2, <1>1 DEF Traced, RootOK
  <2>3. CASE ~Root(design, v)
    BY <2>3, <1>1 DEF RootOK
  <2>4. QED
    BY <2>1, <2>2, <2>3
<1>15. ASSUME NEW c \in Checks PROVE CheckOK(c, W)'
  <2>1. c[1] \in Vertices /\ c[2] \in Vertices
    BY GraphDelayCalcAssumption DEF Vertices
  <2>3. ASSUME NEW x \in {c[1], c[2]}, delays'.slew[x] # delays.slew[x] PROVE Unsure(x, W)'
    <3>1. x \in roots \/ Fanin(design, x) \cap roots # {}
      BY <2>1, <2>3, <1>4
    <3>2. CASE x \in roots
      BY <3>2, <1>1, <1>3 DEF Unsure
    <3>3. CASE Fanin(design, x) \cap roots # {}
      BY <3>3, <2>1, <1>6 DEF Unsure
    <3>4. QED
      BY <3>1, <3>2, <3>3
  <2>2. ASSUME NEW x \in {c[1], c[2]}, Unsure(x, W) PROVE Unsure(x, W)'
    <3>1. CASE Waits(x) /\ delays'.slew[x] = delays.slew[x]
      <4>1. PICK d \in Fanin(design, x) : d \in Outputs \cap Pending
        BY <3>1 DEF Waits
      <4>2. d \notin roots
        BY <4>1, <1>2, <1>3 DEF EdgesOf, Root
      <4>3. QED
        BY <3>1, <4>1, <4>2, <1>1, <1>3 DEF Waits, Unsure
    <3>2. CASE ~Waits(x)
      BY <3>2, <2>2, <1>1, <1>3 DEF Unsure
    <3>3. QED
      BY <3>1, <3>2, <2>3
  <2>4. CheckOK(c, W)
    BY DEF Traced
  <2>5. CASE delays'.slew[c[1]] = delays.slew[c[1]] /\ delays'.slew[c[2]] = delays.slew[c[2]]
    <3>1. CheckDelay(design, delays'.slew, c) = CheckDelay(design, delays.slew, c)
      BY <2>5 DEF CheckDelay
    <3>2. QED
      BY <3>1, <2>4, <2>2, <1>1 DEF CheckOK
  <2>6. QED
    BY <2>3, <2>5 DEF CheckOK
<1>16. QED
  BY <1>8, <1>10, <1>11, <1>13, <1>14, <1>15 DEF Traced

(* When everything is seeded every gate is suspected.                      *)
LEMMA SeedAllTraced ==
  ASSUME Typed, GraphOK, QueueOK, NEW lev, Relevel(lev), NEW to, Started(lev, to),
         ~calc.incremental, Sown({v \in Vertices : Root(design, v)}, lev)
  PROVE  Traced(Outputs)'
<1> DEFINE roots == {v \in Vertices : Root(design, v)}
<1>1. /\ design' = design /\ untold \subseteq untold' /\ level' = lev /\ find'.to = to
      /\ calc'.incremental = calc.incremental
      /\ Queued(calc') = Queued(calc) \cup ToVisit(roots)
      /\ Seeded(delays', delays, design, roots)
      /\ delays'.arc = delays.arc
  BY DEF Started, Sown, Seeded
<1>2. EdgesOf(design)
  BY Edges
<1>3. \A v \in Vertices : \A u \in Fanin(design, v) : Root(design, u) => v \in Pending'
  BY <1>1, <1>2 DEF EdgesOf, Pending, ToVisit
<1>4. ASSUME NEW l \in Loads PROVE Root(design, l) \/ l \in Pending' \/ \E e \in Fanin(design, l) : e \in Outputs
  <2>1. SUFFICES ASSUME ~Root(design, l), NEW e \in Fanin(design, l), e \notin Outputs
                 PROVE  l \in Pending'
    BY DEF Root
  <2>2. e \in Ports /\ l \in Vertices
    BY <2>1, <1>2 DEF EdgesOf, Drivers, Vertices
  <2>3. Root(design, e)
    BY <2>2, <1>2 DEF EdgesOf, Root
  <2>4. QED
    BY <2>2, <2>3, <1>3
<1>5. ASSUME NEW d \in Outputs PROVE Upstream(d, Outputs)'
  <2>5. Fanin(design, d) = {l \in Loads : <<l, d>> \in Arcs} /\ Fanin(design, d) # {}
    BY <1>2 DEF EdgesOf
  <2>1. PICK l \in Fanin(design, d) : l \in Loads
    BY <2>5
  <2>2. CASE Root(design, l)
    BY <2>1, <2>2, <1>3 DEF Upstream, Vertices, Drivers
  <2>3. CASE l \in Pending' \/ \E e \in Fanin(design, l) : e \in Outputs
    BY <2>1, <2>3, <1>1 DEF Upstream
  <2>4. QED
    BY <2>1, <2>2, <2>3, <1>4
<1>6. Deep(Outputs)'
  BY <1>1 DEF Deep
<1>7. \A d \in Outputs : DriverOK(d, Outputs)'
  BY <1>5 DEF DriverOK
<1>8. ASSUME NEW l \in Loads PROVE LoadOK(l, Outputs)'
  <2>1. ASSUME NEW d \in Fanin(design, l), d \notin Outputs
        PROVE  delays'.slew[l] = LoadSlew(design, delays'.slew[d], l)
    <3>1. d \in Ports /\ d \in Vertices
      BY <2>1, <1>2 DEF EdgesOf, Drivers, Vertices
    <3>2. d \in roots
      BY <3>1, <1>2 DEF EdgesOf, Root
    <3>3. QED
      BY <3>2, <1>1 DEF Seeded
  <2>2. QED
    BY <2>1, <1>1 DEF LoadOK
<1>9. \A v \in Vertices : RootOK(v)'
  BY <1>1 DEF RootOK, Seeded
<1>10. ASSUME NEW c \in Checks PROVE CheckOK(c, Outputs)'
  <2>1. c[1] \in Loads
    BY GraphDelayCalcAssumption
  <2>2. Unsure(c[1], Outputs)'
    BY <2>1, <1>1, <1>4 DEF Unsure
  <2>3. QED
    BY <2>2 DEF CheckOK
<1>11. QED
  BY <1>5, <1>6, <1>7, <1>8, <1>9, <1>10 DEF Traced

(* The start of a search keeps the invariant.                              *)
LEMMA FindDelaysInv ==
  ASSUME IInv, FindDelays
  PROVE  IInv'
<1> DEFINE lev == Relevelized(design, level, levelized)
<1>1. Typed /\ GraphOK /\ LevelsOK /\ QueueOK /\ AnswerOK /\ WorstOK /\ SlewsOK
  BY DEF IInv
<1>2. Relevel(lev)
  BY <1>1, RelevelDoes
<1>3. ~Visiting /\ levelized' = {} /\ UNCHANGED <<design, answered, edits>>
  BY DEF FindDelays
<1>4. PICK to \in 0..Max(Range(lev)) :
        /\ level' = lev
        /\ untold' = untold \cup {v \in Queued(calc) : calc.entry[v] # lev[v]}
        /\ IF calc.incremental THEN SeedInvalidDelays(lev) ELSE SeedAll(lev)
        /\ find' = [at |-> None, to |-> to]
  BY DEF FindDelays
<1> HIDE DEF lev
<1>5. to \in Nat
  BY <1>4
<1>6. Started(lev, to)
  BY <1>3, <1>4, <1>5 DEF Started
<1>7. CASE calc.incremental
  <2>1. Sown({v \in calc.invalid : Root(design, v)}, lev)
    BY <1>1, <1>2, <1>4, <1>7, SeedInvalidDoes
  <2>2. Typed' /\ GraphOK' /\ LevelsOK' /\ QueueOK' /\ AnswerOK' /\ WorstOK' /\ Visiting'
    BY <1>1, <1>2, <1>3, <1>6, <2>1, StartKeeps
  <2>3. PICK W \in SUBSET Outputs : Traced(W)
    BY <1>1, <1>7 DEF SlewsOK
  <2>4. Traced(W)'
    BY <1>1, <1>2, <1>6, <1>7, <2>1, <2>3, SeedInvalidTraced
  <2>5. QED
    BY <2>2, <2>3, <2>4 DEF IInv, SlewsOK
<1>8. CASE ~calc.incremental
  <2>1. Sown({v \in Vertices : Root(design, v)}, lev)
    BY <1>1, <1>2, <1>3, <1>4, <1>8, SeedAllDoes
  <2>2. Typed' /\ GraphOK' /\ LevelsOK' /\ QueueOK' /\ AnswerOK' /\ WorstOK' /\ Visiting'
    BY <1>1, <1>2, <1>3, <1>6, <2>1, StartKeeps
  <2>4. Traced(Outputs)'
    BY <1>1, <1>2, <1>6, <1>8, <2>1, SeedAllTraced
  <2>5. QED
    BY <2>2, <2>4 DEF IInv, SlewsOK
<1>9. QED
  BY <1>7, <1>8

------------------------------------------------------------------------------
(* An edit, and what it tells the calculator.                              *)
Informed(S) ==
  /\ S \subseteq Vertices
  /\ calc' \in Calcs
  /\ calc'.seeded = calc.seeded /\ calc'.incremental = calc.incremental
  /\ calc'.checks = calc.checks /\ calc'.entry = calc.entry /\ Queued(calc') = Queued(calc)
  /\ calc'.invalid = IF calc.incremental THEN calc.invalid \cup S ELSE calc.invalid

(* delayInvalid adds to what is invalid, from the first search on.         *)
LEMMA InformDoes ==
  ASSUME Typed, NEW S \in SUBSET Vertices, calc' = DelayInvalid(calc, S)
  PROVE  Informed(S)
<1>1. calc \in Calcs
  BY DEF Typed
<1> DEFINE k == calc.invalid \cup S
<1>2. k \in SUBSET Vertices
  BY <1>1 DEF Calcs
<1>3. CASE calc.incremental
  <2>1. calc' = [calc EXCEPT !.invalid = k]
    BY <1>1, <1>3 DEF DelayInvalid, Calcs
  <2> HIDE DEF k
  <2>2. calc' \in Calcs /\ calc'.seeded = calc.seeded /\ calc'.incremental = calc.incremental
        /\ calc'.checks = calc.checks /\ calc'.entry = calc.entry /\ calc'.invalid = k
    BY <1>1, <1>2, <2>1 DEF Calcs
  <2>3. QED
    BY <1>3, <2>2 DEF Informed, Queued, k
<1>4. CASE ~calc.incremental
  BY <1>1, <1>4 DEF Informed, Queued, DelayInvalid
<1>5. QED
  BY <1>3, <1>4

Edited ==
  /\ ~Visiting /\ find' = find /\ level' = level /\ answered' = None
  /\ levelized \subseteq levelized' /\ levelized' \subseteq Vertices
  /\ untold \subseteq untold' /\ untold' \subseteq Vertices
  /\ ~calc.incremental => untold' = untold
  /\ design' \in Designs /\ design'.conditions = design.conditions
  /\ delays' \in Delays /\ delays'.arc = delays.arc /\ delays'.check = delays.check
  /\ \A z \in Outputs : delays'.slew[z] = delays.slew[z]

(* The pins whose driver changes are told, or their drivers D; a load of a *)
(* check that gets one of these has no annotated slew, or is in untold.    *)
EdgesTold(S, D) ==
  /\ D \subseteq Outputs \cap S
  /\ calc.incremental => \A l \in Loads : \A e \in Fanin(design', l) \cap D :
       l \in untold' \/ design.annotated[l] = None \/ ChecksOf(l) = {}
  /\ \A l \in Loads : \A e \in Fanin(design, l) : e \in Fanin(design', l) \/ l \in S \cap levelized'
  /\ \A l \in Loads : \A e \in Fanin(design', l) :
       \/ e \in Fanin(design, l)
       \/ (l \in S /\ e \in S) \/ e \in D
  /\ \A l \in Loads : \A e \in Fanin(design', l) :
       e \in Fanin(design, l) \/ l \in levelized' \/ e \in levelized'

(* So are the vertices whose slew or delays change.                        *)
SlewsTold(S) ==
  /\ \A v \in Vertices : delays'.slew[v] = delays.slew[v] \/ (v \in Loads /\ v \in S)
  /\ \A l \in Loads : \A d \in Fanin(design', l) :
       \/ l \in S /\ d \in S
       \/ \A s : LoadSlew(design', s, l) = delays'.slew[l]
       \/ /\ \A s : LoadSlew(design', s, l) = LoadSlew(design, s, l)
          /\ delays'.slew[l] = delays.slew[l]
  /\ \A z \in Outputs :
       \/ z \in S \cup untold'
       \/ \A s : GateDelay(design', s, z) = GateDelay(design, s, z)
  /\ \A v \in Vertices : Root(design, v) => v \in S \/ RootSlew(design', v) = RootSlew(design, v)
  /\ \A l \in Loads : design'.annotated[l] = design.annotated[l] \/ l \in S

(* An edit whose changes are told, or kept in untold, has every wrong slew *)
(* and delay traced again, by the same suspects.                           *)
LEMMA EditTraced ==
  ASSUME Typed, calc.incremental, Edited, NEW S, Informed(S), NEW D, EdgesTold(S, D), SlewsTold(S),
         NEW W \in SUBSET Outputs, Traced(W)
  PROVE  Traced(W)'
<1>1. /\ untold \subseteq untold'
      /\ calc'.incremental /\ calc'.checks = calc.checks /\ calc'.invalid = calc.invalid \cup S
      /\ Pending' = Pending \cup S
      /\ design'.conditions = design.conditions
      /\ delays'.arc = delays.arc /\ delays'.check = delays.check
  BY DEF Edited, Informed, Pending
<1>2. EdgesOf(design) /\ EdgesOf(design')
  BY Edges
<1>3. \A d \in Outputs : Fanin(design', d) = Fanin(design, d)
  BY <1>2 DEF EdgesOf
<1>4. /\ D \subseteq Outputs \cap S
      /\ \A l \in Loads : \A e \in Fanin(design', l) \cap D :
           l \in untold' \/ design.annotated[l] = None \/ ChecksOf(l) = {}
      /\ \A l \in Loads : \A e \in Fanin(design, l) : e \in Fanin(design', l) \/ l \in S
      /\ \A l \in Loads : \A e \in Fanin(design', l) :
           \/ e \in Fanin(design, l)
           \/ (l \in S /\ e \in S) \/ e \in D
  BY DEF EdgesTold
<1>5. /\ \A v \in Vertices : delays'.slew[v] = delays.slew[v] \/ (v \in Loads /\ v \in S)
      /\ \A l \in Loads : \A d \in Fanin(design', l) :
           \/ l \in S /\ d \in S
           \/ \A s : LoadSlew(design', s, l) = delays'.slew[l]
           \/ /\ \A s : LoadSlew(design', s, l) = LoadSlew(design, s, l)
              /\ delays'.slew[l] = delays.slew[l]
      /\ \A z \in Outputs :
           \/ z \in S \cup untold'
           \/ \A s : GateDelay(design', s, z) = GateDelay(design, s, z)
      /\ \A v \in Vertices : Root(design, v) => v \in S \/ RootSlew(design', v) = RootSlew(design, v)
      /\ \A l \in Loads : design'.annotated[l] = design.annotated[l] \/ l \in S
  BY DEF SlewsTold
<1>6. \A d \in Outputs : \A l \in Fanin(design, d) : l \in Loads
  <2>1. \A d \in Outputs : Fanin(design, d) = {l \in Loads : <<l, d>> \in Arcs}
    BY <1>2 DEF EdgesOf
  <2>2. QED
    BY <2>1
<1>7. ASSUME NEW d \in Outputs, Upstream(d, W) PROVE Upstream(d, W)'
  <2>1. CASE d \in Pending
    BY <2>1, <1>1 DEF Upstream
  <2>2. CASE \E l \in Fanin(design, d) : l \in Pending \cup untold
    BY <2>2, <1>1, <1>3 DEF Upstream
  <2>3. ASSUME NEW l \in Fanin(design, d), NEW e \in Fanin(design, l), e \in W \cup untold
        PROVE  Upstream(d, W)'
    <3>1. l \in Loads /\ l \in Fanin(design', d)
      BY <1>3, <1>6
    <3>2. CASE l \in S
      BY <3>1, <3>2, <1>1 DEF Upstream
    <3>3. CASE e \in Fanin(design', l)
      BY <3>1, <3>3, <2>3, <1>1 DEF Upstream
    <3>4. QED
      BY <3>1, <3>2, <3>3, <1>4
  <2>4. QED
    BY <2>1, <2>2, <2>3, <1>7 DEF Upstream
<1>8. \A d \in W : Upstream(d, W)'
  BY <1>7 DEF Traced
<1>9. \A d \in Outputs : Unfound(d)' = Unfound(d)
  BY <1>1 DEF Unfound
<1>10. Deep(W)'
  BY <1>9 DEF Traced, Deep
<1>11. ASSUME NEW d \in Outputs PROVE DriverOK(d, W)'
  <2>1. \A a \in Into(d) : a[1] \in Vertices /\ a[1] \in Fanin(design, d)
    BY <1>2, GraphDelayCalcAssumption DEF Into, EdgesOf, Vertices
  <2>2. CASE d \in S \cup untold' \/ \E l \in Fanin(design, d) : l \in S
    BY <2>2, <1>1, <1>3 DEF DriverOK, Upstream
  <2>3. CASE d \notin S \cup untold' /\ \A l \in Fanin(design, d) : l \notin S
    <3>1. \A a \in Into(d) : delays'.slew[a[1]] = delays.slew[a[1]]
      BY <2>1, <2>3, <1>5
    <3>2. \A s : GateDelay(design', s, d) = GateDelay(design, s, d)
      BY <2>3, <1>5
    <3>3. DriverOK(d, W)
      BY DEF Traced
    <3>4. QED
      BY <3>1, <3>2, <3>3, <1>1, <1>7 DEF DriverOK
  <2>4. QED
    BY <2>2, <2>3
<1>13. ASSUME NEW l \in Loads PROVE LoadOK(l, W)'
  <2>1. SUFFICES ASSUME NEW d \in Fanin(design', l)
                 PROVE  \/ delays'.slew[l] = LoadSlew(design', delays'.slew[d], l)
                        \/ d \in Pending'
                        \/ l \in untold'
                        \/ d \in W \cup untold'
    BY DEF LoadOK
  <2>2. CASE (l \in S /\ d \in S) \/ d \in D \/ \A s : LoadSlew(design', s, l) = delays'.slew[l]
    BY <2>2, <1>1, <1>4
  <2>3. CASE /\ d \in Fanin(design, l)
             /\ \A s : LoadSlew(design', s, l) = LoadSlew(design, s, l)
             /\ delays'.slew[l] = delays.slew[l]
    <3>1. d \in Vertices /\ d \notin Loads
      BY <2>3, <1>2, GraphDelayCalcAssumption DEF EdgesOf, Vertices
    <3>2. delays'.slew[d] = delays.slew[d]
      BY <3>1, <1>5
    <3>3. QED
      BY <2>3, <3>2, <1>1 DEF Traced, LoadOK
  <2>4. QED
    BY <2>2, <2>3, <1>4, <1>5
<1>14. ASSUME NEW v \in Vertices PROVE RootOK(v)'
  <2>1. SUFFICES ASSUME Root(design', v), v \notin calc'.invalid
                 PROVE  delays'.slew[v] = RootSlew(design', v)
    BY DEF RootOK
  <2>2. Root(design, v)
    <3>1. CASE v \in Loads
      BY <3>1, <2>1, <1>1, <1>4 DEF Root
    <3>2. CASE v \in Outputs
      BY <3>2, <2>1, <1>2 DEF EdgesOf, Root
    <3>3. CASE v \in Ports
      BY <3>3, <1>2 DEF EdgesOf, Root
    <3>4. QED
      BY <3>1, <3>2, <3>3 DEF Vertices, Drivers
  <2>3. delays'.slew[v] = delays.slew[v] /\ RootSlew(design', v) = RootSlew(design, v)
    BY <2>1, <2>2, <1>1, <1>5
  <2>4. QED
    BY <2>1, <2>2, <2>3, <1>1 DEF Traced, RootOK
<1>15. ASSUME NEW c \in Checks PROVE CheckOK(c, W)'
  <2>1. \A x \in {c[1], c[2]} : x \in Loads /\ x \in Vertices
    BY GraphDelayCalcAssumption DEF Vertices
  <2>2. ASSUME NEW x \in {c[1], c[2]}, Unsure(x, W) PROVE Unsure(x, W)'
    <3>1. CASE x \in Pending \cup untold
      BY <3>1, <1>1 DEF Unsure
    <3>2. CASE Root(design, x)
      <4>1. CASE Root(design', x)
        BY <4>1 DEF Unsure
      <4>2. CASE ~Root(design', x)
        <5>1. PICK e \in Fanin(design', x) : TRUE
          BY <4>2 DEF Root
        <5>2. e \notin Fanin(design, x)
          BY <3>2 DEF Root
        <5>3. x \in S \/ e \in D
          BY <5>1, <5>2, <2>1, <1>4
        <5>4. CASE x \notin Pending' \cup untold'
          <6>1. e \in D /\ x \notin S /\ x \notin calc.invalid
            BY <5>3, <5>4, <1>1 DEF Pending
          <6>2. design.annotated[x] = None
            <7>1. c \in ChecksOf(x)
              BY DEF ChecksOf
            <7>2. QED
              BY <5>1, <5>4, <6>1, <7>1, <2>1, <1>4
          <6>3. delays.slew[x] = RootSlew(design, x)
            BY <6>1, <3>2, <2>1 DEF Traced, RootOK
          <6>4. RootSlew(design, x) = 0
            <7>1. x \notin Ports
              BY <2>1, GraphDelayCalcAssumption DEF Drivers
            <7>2. QED
              BY <6>2, <7>1 DEF RootSlew
          <6>5. delays'.slew[x] = delays.slew[x] /\ design'.annotated[x] = design.annotated[x]
            BY <6>1, <2>1, <1>5
          <6>6. e \in Outputs \cap Pending'
            BY <6>1, <1>1, <1>4
          <6>7. QED
            BY <5>1, <6>2, <6>3, <6>4, <6>5, <6>6 DEF Unsure, Waits
        <5>5. QED
          BY <5>4 DEF Unsure
      <4>3. QED
        BY <4>1, <4>2
    <3>3. CASE \E d \in Fanin(design, x) : d \in W \cup untold
      BY <3>3, <2>1, <1>1, <1>4 DEF Unsure
    <3>5. CASE Waits(x)
      <4>1. PICK d \in Fanin(design, x) : d \in Outputs \cap Pending
        BY <3>5 DEF Waits
      <4>2. CASE x \in S
        BY <4>2, <1>1 DEF Unsure
      <4>3. CASE x \notin S
        <5>1. d \in Fanin(design', x)
          BY <4>1, <4>3, <2>1, <1>4
        <5>2. delays'.slew[x] = delays.slew[x] /\ design'.annotated[x] = design.annotated[x]
          BY <4>3, <2>1, <1>5
        <5>3. QED
          BY <3>5, <4>1, <5>1, <5>2, <1>1 DEF Unsure, Waits
      <4>4. QED
        BY <4>2, <4>3
    <3>4. QED
      BY <2>2, <3>1, <3>2, <3>3, <3>5 DEF Unsure
  <2>3. ASSUME NEW x \in {c[1], c[2]}, delays'.slew[x] # delays.slew[x] PROVE Unsure(x, W)'
    BY <2>1, <2>3, <1>1, <1>5 DEF Unsure
  <2>4. CheckOK(c, W)
    BY DEF Traced
  <2>5. CASE delays'.slew[c[1]] = delays.slew[c[1]] /\ delays'.slew[c[2]] = delays.slew[c[2]]
    <3>1. CheckDelay(design', delays'.slew, c) = CheckDelay(design, delays.slew, c)
      BY <2>5, <1>1 DEF CheckDelay
    <3>2. QED
      BY <3>1, <2>4, <2>2, <1>1 DEF CheckOK
  <2>6. QED
    BY <2>3, <2>5 DEF CheckOK
<1>17. QED
  BY <1>8, <1>10, <1>11, <1>13, <1>14, <1>15 DEF Traced

(* An edit after which the graph is in order keeps the invariant.          *)
LEMMA EditInv ==
  ASSUME IInv, Edited, NEW S, Informed(S), NEW D, EdgesTold(S, D),
         calc.incremental => SlewsTold(S), GraphOK'
  PROVE  IInv'
<1>1. Typed /\ GraphOK /\ LevelsOK /\ QueueOK /\ AnswerOK /\ WorstOK /\ SlewsOK
  BY DEF IInv
<1>2. /\ ~Visiting /\ find' = find /\ level' = level /\ answered' = None
      /\ levelized \subseteq levelized' /\ levelized' \subseteq Vertices
      /\ untold \subseteq untold' /\ untold' \subseteq Vertices
      /\ ~calc.incremental => untold' = untold
      /\ design' \in Designs
      /\ delays' \in Delays /\ delays'.arc = delays.arc
  BY DEF Edited
<1>3. ~Visiting'
  BY <1>2 DEF Visiting
<1>4. Typed'
  BY <1>1, <1>2, <1>3 DEF Typed, Informed
<1>5. EdgesOf(design) /\ EdgesOf(design')
  BY Edges
<1>6. \A p \in Ports \cup Outputs : Fanin(design', p) = Fanin(design, p)
  BY <1>5 DEF EdgesOf
<1>7. LevelsOK'
  <2>1. ASSUME NEW v \in Vertices, v \notin levelized', Root(design', v) PROVE level[v] = 0
    <3>1. Root(design, v)
      <4>1. CASE v \in Loads
        BY <4>1, <2>1 DEF EdgesTold, Root
      <4>2. CASE v \in Ports \cup Outputs
        BY <4>2, <2>1, <1>6 DEF Root
      <4>3. QED
        BY <4>1, <4>2 DEF Vertices, Drivers
    <3>2. QED
      BY <3>1, <2>1, <1>1, <1>2 DEF LevelsOK
  <2>2. ASSUME NEW v \in Vertices, NEW u \in Fanin(design', v), u \notin levelized', v \notin levelized'
        PROVE  level[u] < level[v]
    <3>1. u \in Fanin(design, v)
      <4>1. CASE v \in Loads
        BY <4>1, <2>2 DEF EdgesTold
      <4>2. CASE v \in Ports \cup Outputs
        BY <4>2, <2>2, <1>6
      <4>3. QED
        BY <4>1, <4>2 DEF Vertices, Drivers
    <3>2. QED
      BY <3>1, <2>2, <1>1, <1>2 DEF LevelsOK
  <2>3. QED
    BY <2>1, <2>2, <1>1, <1>2, <1>3 DEF LevelsOK
<1>8. QueueOK'
  BY <1>1, <1>2, <1>3 DEF QueueOK, Informed
<1>9. AnswerOK'
  BY <1>2 DEF AnswerOK
<1>10. WorstOK'
  <2>1. \A z \in Outputs : delays'.slew[z] = delays.slew[z]
    BY DEF Edited
  <2>2. QED
    BY <2>1, <1>1, <1>2, WorstKept
<1>11. SlewsOK'
  <2>1. CASE calc.incremental
    <3>1. PICK W \in SUBSET Outputs : Traced(W)
      BY <2>1, <1>1 DEF SlewsOK
    <3>2. QED
      BY <2>1, <3>1, <1>1, EditTraced DEF SlewsOK
  <2>2. CASE ~calc.incremental
    BY <2>2, <1>3 DEF SlewsOK, Informed
  <2>3. QED
    BY <2>1, <2>2
<1>12. QED
  BY <1>4, <1>7, <1>8, <1>9, <1>10, <1>11 DEF IInv

------------------------------------------------------------------------------
(* Edits of the constraints and of the cells.                              *)
LEMMA SameNets ==
  ASSUME GraphOK, design'.net = design.net, levelized \subseteq levelized'
  PROVE  /\ GraphOK'
         /\ \A v \in Vertices : Fanin(design', v) = Fanin(design, v)
                                /\ Fanout(design', v) = Fanout(design, v)
         /\ \A S : EdgesTold(S, {})
<1>1. \A v \in Vertices : Fanin(design', v) = Fanin(design, v) /\ Fanout(design', v) = Fanout(design, v)
  BY DEF Fanin, Fanout, Edge, Wired
<1>2. GraphOK'
  <2>1. Acyclic(design')
    BY <1>1 DEF GraphOK, Acyclic
  <2>2. OneDriver(design')
    BY DEF GraphOK, OneDriver
  <2>3. QED
    BY <2>1, <2>2 DEF GraphOK
<1>3. \A S : EdgesTold(S, {})
  BY <1>1 DEF EdgesTold, Vertices
<1>4. QED
  BY <1>1, <1>2, <1>3

(* The delays of a gate look at its net and at the gates it drives.        *)
LEMMA GateDelaySame ==
  ASSUME NEW g, NEW h, NEW z,
         h.net[z] = g.net[z], Fanout(h, z) = Fanout(g, z),
         g.net[z] # None => h.wireCap[g.net[z]] = g.wireCap[g.net[z]],
         \A a \in Arcs : a[1] \in Fanout(g, z) => h.weak[a[2]] = g.weak[a[2]],
         h.weak[z] = g.weak[z], h.conditions = g.conditions
  PROVE  \A s : GateDelay(h, s, z) = GateDelay(g, s, z)
<1>1. {a \in Arcs : a[1] \in Fanout(h, z) /\ h.weak[a[2]] = 1}
        = {a \in Arcs : a[1] \in Fanout(g, z) /\ g.weak[a[2]] = 1}
  OBVIOUS
<1>2. LoadCap(h, z) = LoadCap(g, z)
  BY <1>1 DEF LoadCap
<1>3. QED
  BY <1>2 DEF GateDelay

(* Another capacitance of a wire: the pins of its net are told.            *)
LEMMA SetNetWireCapInv ==
  ASSUME IInv, NEW n \in Nets, NEW x \in Values, SetNetWireCap(n, x)
  PROVE  IInv'
<1> DEFINE w == [design.wireCap EXCEPT ![n] = x]
           S == OnNet(n)
<1>1. Typed /\ GraphOK /\ design \in Designs
  BY DEF IInv, Typed
<1>2. /\ Edit /\ calc' = DelayInvalid(calc, S)
      /\ UNCHANGED <<levelized, delays, untold>>
  BY DEF SetNetWireCap
<1>3. design' = [design EXCEPT !.wireCap = w]
  BY <1>1 DEF SetNetWireCap, Designs
<1>4. w \in [Nets -> Values] /\ \A m \in Nets : m # n => w[m] = design.wireCap[m]
  BY <1>1 DEF Designs
<1> HIDE DEF w
<1>5. /\ design' \in Designs /\ design'.net = design.net /\ design'.wireCap = w
      /\ design'.weak = design.weak /\ design'.inputSlew = design.inputSlew
      /\ design'.annotated = design.annotated /\ design'.conditions = design.conditions
  BY <1>1, <1>3, <1>4 DEF Designs
<1>6. S \in SUBSET Vertices
  BY DEF OnNet
<1>7. Informed(S)
  <2> HIDE DEF S
  <2>1. QED
    BY <1>1, <1>2, <1>6, InformDoes
<1>8. Edited
  BY <1>1, <1>2, <1>5 DEF Edit, Edited, Typed
<1>9. /\ GraphOK'
      /\ \A v \in Vertices : Fanin(design', v) = Fanin(design, v)
                             /\ Fanout(design', v) = Fanout(design, v)
      /\ EdgesTold(S, {})
  BY <1>1, <1>2, <1>5, SameNets
<1>10. EdgesOf(design)
  BY Edges
<1>11. \A v \in Vertices : v \notin S /\ design.net[v] # None => w[design.net[v]] = design.wireCap[design.net[v]]
  <2>1. \A v \in Vertices : design.net[v] \in Nets \cup {None}
    BY <1>1 DEF Designs
  <2>2. QED
    BY <2>1, <1>4 DEF OnNet
<1>12. ASSUME NEW z \in Outputs, z \notin S
       PROVE  \A s : GateDelay(design', s, z) = GateDelay(design, s, z)
  <2>1. z \in Vertices
    BY DEF Vertices, Drivers
  <2>2. /\ design'.net[z] = design.net[z] /\ Fanout(design', z) = Fanout(design, z)
        /\ design.net[z] # None => design'.wireCap[design.net[z]] = design.wireCap[design.net[z]]
        /\ \A a \in Arcs : design'.weak[a[2]] = design.weak[a[2]]
        /\ design'.weak[z] = design.weak[z] /\ design'.conditions = design.conditions
    BY <2>1, <1>5, <1>9, <1>11, <1>12
  <2>3. QED
    BY <2>2, GateDelaySame
<1>13. ASSUME NEW l \in Loads, NEW d \in Fanin(design', l)
       PROVE  \/ l \in S /\ d \in S
              \/ \A s : LoadSlew(design', s, l) = LoadSlew(design, s, l)
  <2>1. l \in Vertices /\ d \in Fanin(design, l)
    BY <1>9 DEF Vertices
  <2>2. d \in Vertices /\ design.net[d] # None /\ design.net[d] = design.net[l]
    BY <2>1, <1>10 DEF EdgesOf, Vertices
  <2>3. CASE l \in S
    BY <2>2, <2>3 DEF OnNet
  <2>4. CASE l \notin S
    BY <2>1, <2>2, <2>4, <1>5, <1>11 DEF LoadSlew
  <2>5. QED
    BY <2>3, <2>4
<1>14. SlewsTold(S)
  <2>1. \A v \in Vertices : RootSlew(design', v) = RootSlew(design, v)
    BY <1>5 DEF RootSlew
  <2> HIDE DEF S
  <2>2. QED
    BY <2>1, <1>2, <1>5, <1>12, <1>13 DEF SlewsTold
<1>15. QED
  <2> HIDE DEF S
  <2>1. QED
    BY <1>7, <1>8, <1>9, <1>14, EditInv

(* Another slew at an input port: the port is told.                        *)
LEMMA SetInputSlewInv ==
  ASSUME IInv, NEW p \in Ports, NEW x \in Values, SetInputSlew(p, x)
  PROVE  IInv'
<1> DEFINE w == [design.inputSlew EXCEPT ![p] = x]
           S == {p}
<1>1. Typed /\ GraphOK /\ design \in Designs
  BY DEF IInv, Typed
<1>2. /\ Edit /\ calc' = DelayInvalid(calc, S)
      /\ UNCHANGED <<levelized, delays, untold>>
  BY DEF SetInputSlew
<1>3. design' = [design EXCEPT !.inputSlew = w]
  BY <1>1 DEF SetInputSlew, Designs
<1>4. w \in [Ports -> Values] /\ \A q \in Ports : q # p => w[q] = design.inputSlew[q]
  BY <1>1 DEF Designs
<1> HIDE DEF w
<1>5. /\ design' \in Designs /\ design'.net = design.net /\ design'.wireCap = design.wireCap
      /\ design'.weak = design.weak /\ design'.inputSlew = w
      /\ design'.annotated = design.annotated /\ design'.conditions = design.conditions
  BY <1>1, <1>3, <1>4 DEF Designs
<1>6. S \in SUBSET Vertices
  BY DEF Vertices, Drivers
<1>7. Informed(S)
  <2> HIDE DEF S
  <2>1. QED
    BY <1>1, <1>2, <1>6, InformDoes
<1>8. Edited
  BY <1>1, <1>2, <1>5 DEF Edit, Edited, Typed
<1>9. /\ GraphOK'
      /\ \A v \in Vertices : Fanin(design', v) = Fanin(design, v)
                             /\ Fanout(design', v) = Fanout(design, v)
      /\ EdgesTold(S, {})
  BY <1>1, <1>2, <1>5, SameNets
<1>10. SlewsTold(S)
  <2>1. \A z \in Outputs : \A s : GateDelay(design', s, z) = GateDelay(design, s, z)
    BY <1>5, <1>9, GateDelaySame DEF Vertices, Drivers
  <2>2. \A l \in Loads : \A s : LoadSlew(design', s, l) = LoadSlew(design, s, l)
    BY <1>5 DEF LoadSlew
  <2>3. \A v \in Vertices : v \in S \/ RootSlew(design', v) = RootSlew(design, v)
    BY <1>4, <1>5 DEF RootSlew
  <2>4. QED
    BY <2>1, <2>2, <2>3, <1>2, <1>5 DEF SlewsTold
<1>11. QED
  <2> HIDE DEF S
  <2>1. QED
    BY <1>7, <1>8, <1>9, <1>10, EditInv

(* An annotated slew: the load is told and has the slew at once.           *)
LEMMA SetAnnotatedSlewInv ==
  ASSUME IInv, NEW l \in Annotatable, NEW x \in Values, SetAnnotatedSlew(l, x)
  PROVE  IInv'
<1> DEFINE w == [design.annotated EXCEPT ![l] = x]
           u == [delays.slew EXCEPT ![l] = x]
           S == {l}
<1>1. Typed /\ GraphOK /\ design \in Designs /\ delays \in Delays
  BY DEF IInv, Typed
<1>2. /\ Edit /\ calc' = DelayInvalid(calc, S)
      /\ UNCHANGED <<levelized, untold>>
  BY DEF SetAnnotatedSlew
<1>0. l \in Loads /\ l \in Vertices /\ l \notin Ports /\ x \in Nat /\ x # None
  BY GraphDelayCalcAssumption DEF Vertices, Drivers, Values
<1>3. design' = [design EXCEPT !.annotated = w] /\ delays' = [delays EXCEPT !.slew = u]
  BY <1>1 DEF SetAnnotatedSlew, Designs, Delays
<1>4. /\ w \in [Loads -> Values \cup {None}] /\ w[l] = x
      /\ \A k \in Loads : k # l => w[k] = design.annotated[k]
      /\ u \in [Vertices -> Nat] /\ u[l] = x
      /\ \A k \in Vertices : k # l => u[k] = delays.slew[k]
  BY <1>0, <1>1 DEF Designs, Delays
<1> HIDE DEF w, u
<1>5. /\ design' \in Designs /\ design'.net = design.net /\ design'.wireCap = design.wireCap
      /\ design'.weak = design.weak /\ design'.inputSlew = design.inputSlew
      /\ design'.annotated = w /\ design'.conditions = design.conditions
  BY <1>1, <1>3, <1>4 DEF Designs
<1>6. /\ delays' \in Delays /\ delays'.slew = u
      /\ delays'.arc = delays.arc /\ delays'.check = delays.check
  BY <1>1, <1>3, <1>4 DEF Delays
<1>7. Informed(S)
  <2>1. S \in SUBSET Vertices
    BY <1>0
  <2> HIDE DEF S
  <2>2. QED
    BY <1>1, <1>2, <2>1, InformDoes
<1>8. Edited
  <2>1. \A z \in Outputs : z \in Vertices /\ z # l
    BY <1>0, GraphDelayCalcAssumption DEF Vertices, Drivers
  <2>2. \A z \in Outputs : delays'.slew[z] = delays.slew[z]
    BY <2>1, <1>4, <1>6
  <2>3. QED
    BY <2>2, <1>1, <1>2, <1>5, <1>6 DEF Edit, Edited, Typed
<1>9. /\ GraphOK'
      /\ \A v \in Vertices : Fanin(design', v) = Fanin(design, v)
                             /\ Fanout(design', v) = Fanout(design, v)
      /\ EdgesTold(S, {})
  BY <1>1, <1>2, <1>5, SameNets
<1>10. SlewsTold(S)
  <2>1. \A z \in Outputs : \A s : GateDelay(design', s, z) = GateDelay(design, s, z)
    BY <1>5, <1>9, GateDelaySame DEF Vertices, Drivers
  <2>2. ASSUME NEW k \in Loads
        PROVE  \/ \A s : LoadSlew(design', s, k) = delays'.slew[k]
               \/ /\ \A s : LoadSlew(design', s, k) = LoadSlew(design, s, k)
                  /\ delays'.slew[k] = delays.slew[k]
    <3>1. CASE k = l
      BY <3>1, <1>0, <1>4, <1>5, <1>6 DEF LoadSlew
    <3>2. CASE k # l
      BY <3>2, <1>4, <1>5, <1>6 DEF LoadSlew, Vertices
    <3>3. QED
      BY <3>1, <3>2
  <2>3. \A v \in Vertices : Root(design, v) => v \in S \/ RootSlew(design', v) = RootSlew(design, v)
    <3>1. \A v \in Vertices : Root(design, v) => v \in Ports \cup Loads
      BY Edges DEF EdgesOf, Root, Vertices, Drivers
    <3>2. QED
      BY <3>1, <1>4, <1>5 DEF RootSlew
  <2>4. \A v \in Vertices : delays'.slew[v] = delays.slew[v] \/ (v \in Loads /\ v \in S)
    BY <1>0, <1>4, <1>6
  <2>6. \A k \in Loads : design'.annotated[k] = design.annotated[k] \/ k \in S
    BY <1>4, <1>5
  <2>5. QED
    BY <2>1, <2>2, <2>3, <2>4, <2>6, <1>5 DEF SlewsTold
<1>11. QED
  <2> HIDE DEF S
  <2>1. QED
    BY <1>7, <1>8, <1>9, <1>10, EditInv

(* Another cell: the drivers of its inputs and its output are told.        *)
LEMMA ReplaceEquivCellInv ==
  ASSUME IInv, NEW z \in Outputs, ReplaceEquivCell(z)
  PROVE  IInv'
<1> DEFINE w == [design.weak EXCEPT ![z] = 1 - design.weak[z]]
           S == {z} \cup UNION {Fanin(design, l) : l \in Fanin(design, z)}
<1>1. Typed /\ GraphOK /\ design \in Designs
  BY DEF IInv, Typed
<1>2. /\ Edit /\ calc' = DelayInvalid(calc, S)
      /\ UNCHANGED <<levelized, delays, untold>>
  BY DEF ReplaceEquivCell
<1>3. design' = [design EXCEPT !.weak = w]
  BY <1>1 DEF ReplaceEquivCell, Designs
<1>4. w \in [Outputs -> Values] /\ \A y \in Outputs : y # z => w[y] = design.weak[y]
  <2>1. design.weak[z] \in 0..1 /\ design.weak \in [Outputs -> 0..1]
    BY <1>1 DEF Designs, Values
  <2>2. 1 - design.weak[z] \in 0..1
    BY <2>1
  <2>3. QED
    BY <2>1, <2>2 DEF Values
<1> HIDE DEF w
<1>5. /\ design' \in Designs /\ design'.net = design.net /\ design'.wireCap = design.wireCap
      /\ design'.weak = w /\ design'.inputSlew = design.inputSlew
      /\ design'.annotated = design.annotated /\ design'.conditions = design.conditions
  BY <1>1, <1>3, <1>4 DEF Designs
<1>6. S \in SUBSET Vertices
  BY DEF Vertices, Drivers, Fanin
<1>7. Informed(S)
  <2> HIDE DEF S
  <2>1. QED
    BY <1>1, <1>2, <1>6, InformDoes
<1>8. Edited
  BY <1>1, <1>2, <1>5 DEF Edit, Edited, Typed
<1>9. /\ GraphOK'
      /\ \A v \in Vertices : Fanin(design', v) = Fanin(design, v)
                             /\ Fanout(design', v) = Fanout(design, v)
      /\ EdgesTold(S, {})
  BY <1>1, <1>2, <1>5, SameNets
<1>10. EdgesOf(design)
  BY Edges
<1>11. ASSUME NEW y \in Outputs, y \notin S
       PROVE  \A s : GateDelay(design', s, y) = GateDelay(design, s, y)
  <2>1. y \in Vertices /\ y # z
    BY <1>11 DEF Vertices, Drivers
  <2>2. ASSUME NEW a \in Arcs, a[1] \in Fanout(design, y) PROVE w[a[2]] = design.weak[a[2]]
    <3>1. a[1] \in Vertices /\ a[2] \in Vertices /\ a[2] \in Outputs /\ <<a[1], a[2]>> \in Arcs
          /\ a[1] \in Loads
      BY GraphDelayCalcAssumption DEF Vertices, Drivers
    <3>2. y \in Fanin(design, a[1]) /\ a[1] \in Fanin(design, a[2])
      BY <2>1, <2>2, <3>1, <1>10 DEF EdgesOf
    <3>3. a[2] # z
      BY <3>2, <1>11
    <3>4. QED
      BY <3>1, <3>3, <1>4
  <2>3. /\ design'.net[y] = design.net[y] /\ Fanout(design', y) = Fanout(design, y)
        /\ design.net[y] # None => design'.wireCap[design.net[y]] = design.wireCap[design.net[y]]
        /\ \A a \in Arcs : a[1] \in Fanout(design, y) => design'.weak[a[2]] = design.weak[a[2]]
        /\ design'.weak[y] = design.weak[y] /\ design'.conditions = design.conditions
    BY <2>1, <2>2, <1>4, <1>5, <1>9
  <2>4. QED
    BY <2>3, GateDelaySame
<1>12. SlewsTold(S)
  <2>1. \A l \in Loads : \A s : LoadSlew(design', s, l) = LoadSlew(design, s, l)
    BY <1>5 DEF LoadSlew
  <2>2. \A v \in Vertices : RootSlew(design', v) = RootSlew(design, v)
    BY <1>5 DEF RootSlew
  <2> HIDE DEF S
  <2>3. QED
    BY <2>1, <2>2, <1>2, <1>5, <1>11 DEF SlewsTold
<1>13. QED
  <2> HIDE DEF S
  <2>1. QED
    BY <1>7, <1>8, <1>9, <1>12, EditInv

(* Edits after which everything is found again.                            *)
LEMMA DelaysInvalidDoes ==
  ASSUME Typed, calc' = DelaysInvalid(calc)
  PROVE  /\ calc' \in Calcs /\ ~calc'.incremental /\ calc'.invalid = {} /\ calc'.checks = {}
         /\ Queued(calc') = {}
<1> DEFINE e == [v \in Vertices |-> IF calc.entry[v] = Lost THEN Lost ELSE None]
           b == [calc EXCEPT !.seeded = FALSE, !.incremental = FALSE, !.invalid = {}, !.checks = {}]
<1>1. calc \in Calcs
  BY DEF Typed
<1>2. b \in Calcs /\ b.entry = calc.entry
      /\ b.seeded = FALSE /\ b.incremental = FALSE /\ b.invalid = {} /\ b.checks = {}
  BY <1>1 DEF Calcs
<1>3. calc' = Cleared(b)
  BY DEF DelaysInvalid
<1> HIDE DEF b
<1>4. calc' = [b EXCEPT !.entry = e]
  BY <1>2, <1>3 DEF Cleared, Calcs
<1>5. e \in [Vertices -> {None} \cup Nat] /\ \A v \in Vertices : e[v] = None
  <2>1. calc.entry \in [Vertices -> {None} \cup Nat] /\ Lost \notin Nat \cup {None}
    BY <1>1, GraphDelayCalcAssumption DEF Calcs
  <2>2. QED
    BY <2>1
<1> HIDE DEF e
<1>6. /\ calc' \in Calcs /\ calc'.entry = e
      /\ calc'.incremental = FALSE /\ calc'.invalid = {} /\ calc'.checks = {}
  BY <1>2, <1>4, <1>5 DEF Calcs
<1>7. QED
  BY <1>5, <1>6 DEF Queued

(* When everything is invalid nothing is known of the slews, but that the  *)
(* slew of a gate is the worst of its arcs.                                *)
LEMMA DelaysInvalidInv ==
  ASSUME IInv, Edit, calc' = DelaysInvalid(calc), untold' = {}, UNCHANGED <<levelized, delays>>,
         design' \in Designs, design'.net = design.net
  PROVE  IInv'
<1>1. Typed /\ GraphOK /\ LevelsOK /\ QueueOK /\ AnswerOK /\ WorstOK /\ SlewsOK
  BY DEF IInv
<1>2. ~Visiting' /\ find' = find /\ level' = level /\ answered' = None
  BY DEF Edit, Visiting
<1>3. /\ calc' \in Calcs /\ ~calc'.incremental /\ calc'.invalid = {} /\ calc'.checks = {}
      /\ Queued(calc') = {}
  BY <1>1, DelaysInvalidDoes
<1>4. Typed'
  BY <1>1, <1>2, <1>3 DEF Typed
<1>5. GraphOK' /\ \A v \in Vertices : Fanin(design', v) = Fanin(design, v)
  BY <1>1, SameNets
<1>6. LevelsOK'
  BY <1>1, <1>2, <1>5 DEF LevelsOK, Root
<1>7. QueueOK' /\ AnswerOK' /\ SlewsOK'
  BY <1>2, <1>3 DEF QueueOK, AnswerOK, SlewsOK
<1>8. WorstOK'
  BY <1>1 DEF WorstOK
<1>9. QED
  BY <1>4, <1>5, <1>6, <1>7, <1>8 DEF IInv

(* Annotations removed.                                                    *)
LEMMA RemoveAnnotationsInv ==
  ASSUME IInv, RemoveDelaySlewAnnotations
  PROVE  IInv'
<1> DEFINE w == [l \in Loads |-> None]
<1>1. design \in Designs
  BY DEF IInv, Typed
<1>2. w \in [Loads -> Values \cup {None}]
  OBVIOUS
<1>3. design' = [design EXCEPT !.annotated = w]
  BY DEF RemoveDelaySlewAnnotations
<1> HIDE DEF w
<1>4. design' \in Designs /\ design'.net = design.net
  BY <1>1, <1>2, <1>3 DEF Designs
<1>5. QED
  BY <1>4, DelaysInvalidInv DEF RemoveDelaySlewAnnotations

(* Other operating conditions.                                             *)
LEMMA SetOperatingConditionsInv ==
  ASSUME IInv, NEW x \in Values, SetOperatingConditions(x)
  PROVE  IInv'
<1>1. design \in Designs
  BY DEF IInv, Typed
<1>2. design' = [design EXCEPT !.conditions = x]
  BY DEF SetOperatingConditions
<1>3. design' \in Designs /\ design'.net = design.net
  BY <1>1, <1>2 DEF Designs
<1>4. QED
  BY <1>3, DelaysInvalidInv DEF SetOperatingConditions

------------------------------------------------------------------------------
(* Edits of the nets.                                                      *)
Rewired(pin, n) ==
  /\ design' \in Designs
  /\ design'.net[pin] = n /\ \A v \in Vertices : v # pin => design'.net[v] = design.net[v]
  /\ design'.wireCap = design.wireCap /\ design'.weak = design.weak
  /\ design'.inputSlew = design.inputSlew /\ design'.annotated = design.annotated
  /\ design'.conditions = design.conditions

(* A pin that changes its net changes the edges to and from it only.       *)
LEMMA RewireDoes ==
  ASSUME Typed, NEW pin \in Vertices, NEW n \in Nets \cup {None},
         design' = [design EXCEPT !.net[pin] = n]
  PROVE  Rewired(pin, n)
<1> DEFINE w == [design.net EXCEPT ![pin] = n]
<1>1. design \in Designs
  BY DEF Typed
<1>2. design' = [design EXCEPT !.net = w]
  BY <1>1 DEF Designs
<1>3. w \in [Vertices -> Nets \cup {None}] /\ w[pin] = n
      /\ \A v \in Vertices : v # pin => w[v] = design.net[v]
  BY <1>1 DEF Designs
<1> HIDE DEF w
<1>4. /\ design' \in Designs /\ design'.net = w
      /\ design'.wireCap = design.wireCap /\ design'.weak = design.weak
      /\ design'.inputSlew = design.inputSlew /\ design'.annotated = design.annotated
      /\ design'.conditions = design.conditions
  BY <1>1, <1>2, <1>3 DEF Designs
<1>5. QED
  BY <1>3, <1>4 DEF Rewired

(* The gates whose net and loads stay.                                     *)
LEMMA RewiredGate ==
  ASSUME NEW pin, NEW n, Rewired(pin, n), NEW z \in Outputs, z # pin,
         Fanout(design', z) = Fanout(design, z)
  PROVE  \A s : GateDelay(design', s, z) = GateDelay(design, s, z)
<1>1. /\ design'.net[z] = design.net[z]
      /\ design.net[z] # None => design'.wireCap[design.net[z]] = design.wireCap[design.net[z]]
      /\ \A a \in Arcs : a[1] \in Fanout(design, z) => design'.weak[a[2]] = design.weak[a[2]]
      /\ design'.weak[z] = design.weak[z] /\ design'.conditions = design.conditions
  BY DEF Rewired, Vertices, Drivers
<1>2. QED
  BY <1>1, GateDelaySame

(* A pin taken off its net: the driver that was not told is in untold.     *)
LEMMA DisconnectPinInv ==
  ASSUME IInv, NEW pin \in Movable, DisconnectPin(pin)
  PROVE  IInv'
<1> DEFINE S == IF pin \in Loads THEN {l \in {pin} : Fanin(design, pin) # {}} ELSE Fanout(design, pin)
           changed == ({pin} \cup UNION {Fanin(design, l) : l \in S}) \cap Outputs
<1>1. Typed /\ GraphOK /\ design \in Designs
  BY DEF IInv, Typed
<1>2. pin \in Vertices /\ pin \notin Ports
  BY GraphDelayCalcAssumption
<1>3. /\ Edit /\ design.net[pin] # None
      /\ calc' = DelayInvalid(calc, S)
      /\ levelized' = levelized \cup S
      /\ untold' = IF calc.incremental THEN untold \cup changed ELSE untold
      /\ delays' = delays
  BY DEF DisconnectPin, DisconnectPinBefore
<1>4. Rewired(pin, None)
  BY <1>1, <1>2, RewireDoes DEF DisconnectPin
<1>5. /\ design' \in Designs
      /\ design'.net[pin] = None /\ \A v \in Vertices : v # pin => design'.net[v] = design.net[v]
      /\ design'.wireCap = design.wireCap /\ design'.inputSlew = design.inputSlew
      /\ design'.annotated = design.annotated /\ design'.conditions = design.conditions
  BY <1>4 DEF Rewired
<1>6. EdgesOf(design) /\ EdgesOf(design')
  BY Edges
<1>7. S \in SUBSET Vertices /\ changed \in SUBSET Vertices
  BY <1>2 DEF Fanout, Vertices, Drivers
<1>8. ASSUME NEW l \in Loads
      PROVE  /\ Fanin(design, l) = {d \in Drivers : design.net[d] # None /\ design.net[d] = design.net[l]}
             /\ Fanin(design', l) = {d \in Drivers : design'.net[d] # None /\ design'.net[d] = design'.net[l]}
             /\ l \in Vertices
  BY <1>6 DEF EdgesOf, Vertices
<1>9. Drivers \subseteq Vertices /\ (pin \notin Loads => pin \in Drivers)
  BY <1>2 DEF Vertices
<1>10. \A l \in Loads : \A e \in Fanin(design', l) :
         e \in Fanin(design, l) /\ l # pin /\ e # pin
  BY <1>5, <1>8, <1>9
<1>11. \A l \in Loads : \A e \in Fanin(design, l) : e \in Fanin(design', l) \/ l \in S
  <2>1. SUFFICES ASSUME NEW l \in Loads, NEW e \in Fanin(design, l), e \notin Fanin(design', l)
                 PROVE  l \in S
    OBVIOUS
  <2>2. l = pin \/ e = pin
    BY <2>1, <1>5, <1>8, <1>9
  <2>3. e \in Drivers /\ l \in Fanout(design, e)
    BY <2>1, <1>8, <1>9, <1>6 DEF EdgesOf
  <2>4. e \notin Loads
    BY <2>3, GraphDelayCalcAssumption
  <2>5. QED
    BY <2>1, <2>2, <2>3, <2>4
<1>12. GraphOK'
  <2>1. \A v \in Vertices : Fanin(design', v) \subseteq Fanin(design, v)
    <3>1. \A v \in Ports \cup Outputs : Fanin(design', v) = Fanin(design, v)
      BY <1>6 DEF EdgesOf
    <3>2. QED
      BY <3>1, <1>10 DEF Vertices, Drivers
  <2>2. Acyclic(design')
    BY <2>1, <1>1 DEF GraphOK, Acyclic
  <2>3. OneDriver(design')
    BY <1>1, <1>5, <1>9 DEF GraphOK, OneDriver
  <2>4. QED
    BY <2>2, <2>3 DEF GraphOK
<1>13. calc.incremental => SlewsTold(S)
  <2>1. SUFFICES ASSUME calc.incremental PROVE SlewsTold(S)
    OBVIOUS
  <2>2. untold' = untold \cup changed
    BY <2>1, <1>3
  <2>3. \A l \in Loads : \A d \in Fanin(design', l) :
          \A s : LoadSlew(design', s, l) = LoadSlew(design, s, l)
    BY <1>5, <1>8, <1>10 DEF LoadSlew
  <2>4. ASSUME NEW z \in Outputs, z \notin untold'
        PROVE  \A s : GateDelay(design', s, z) = GateDelay(design, s, z)
    <3>1. z # pin
      BY <2>2, <2>4
    <3>2. z \in Vertices /\ z \in Drivers
      BY DEF Vertices, Drivers
    <3>3. \A l \in Loads : z \in Fanin(design, l) => l # pin
      BY <2>2, <2>4
    <3>4. \A l \in Loads : z \in Fanin(design, l) <=> z \in Fanin(design', l)
      <4>1. ASSUME NEW l \in Loads, z \in Fanin(design, l) PROVE z \in Fanin(design', l)
        BY <4>1, <3>1, <3>2, <3>3, <1>5, <1>8
      <4>2. QED
        BY <4>1, <1>10
    <3>5. Fanout(design', z) = Fanout(design, z)
      <4>1. Fanout(design, z) \subseteq Loads /\ Fanout(design', z) \subseteq Loads
        BY <3>2, <1>6 DEF EdgesOf
      <4>2. \A l \in Loads : /\ l \in Fanout(design, z) <=> z \in Fanin(design, l)
                             /\ l \in Fanout(design', z) <=> z \in Fanin(design', l)
        BY <3>2, <1>6, <1>8 DEF EdgesOf
      <4>3. QED
        BY <4>1, <4>2, <3>4
    <3>6. QED
      BY <3>1, <3>5, <1>4, RewiredGate
  <2>5. \A v \in Vertices : RootSlew(design', v) = RootSlew(design, v)
    BY <1>5 DEF RootSlew
  <2> HIDE DEF S, changed
  <2>7. QED
    BY <2>3, <2>4, <2>5, <1>3, <1>5 DEF SlewsTold
<1> HIDE DEF S, changed
<1>14. Informed(S)
  BY <1>1, <1>3, <1>7, InformDoes
<1>15. Edited
  BY <1>1, <1>3, <1>5, <1>7 DEF Edit, Edited, Typed
<1>16. EdgesTold(S, {})
  BY <1>3, <1>10, <1>11 DEF EdgesTold
<1>17. QED
  BY <1>12, <1>13, <1>14, <1>15, <1>16, EditInv

(* No loop comes of edges from outside a set of vertices into it, when the *)
(* fanout of what is in the set is in it.                                  *)
LEMMA AcyclicJoin ==
  ASSUME NEW g, NEW h, Acyclic(g), NEW R,
         \A v \in Vertices : \A u \in Fanin(g, v) : u \in R => v \in R,
         \A v \in Vertices : \A u \in Fanin(h, v) : u \in Fanin(g, v) \/ (v \in R /\ u \notin R)
  PROVE  Acyclic(h)
<1>1. SUFFICES ASSUME NEW S \in (SUBSET Vertices) \ {{}}
               PROVE  \E v \in S : Fanin(h, v) \cap S = {}
  BY DEF Acyclic
<1>2. CASE S \ R # {}
  <2>1. S \ R \in (SUBSET Vertices) \ {{}}
    BY <1>2
  <2>2. PICK v \in S \ R : Fanin(g, v) \cap (S \ R) = {}
    BY <2>1 DEF Acyclic
  <2>3. v \in Vertices
    BY <2>2
  <2>4. Fanin(h, v) \cap S = {}
    BY <2>2, <2>3
  <2>5. QED
    BY <2>2, <2>4
<1>3. CASE S \ R = {}
  <2>1. PICK v \in S : Fanin(g, v) \cap S = {}
    BY DEF Acyclic
  <2>2. Fanin(h, v) \cap S = {}
    BY <2>1, <1>3
  <2>3. QED
    BY <2>1, <2>2
<1>4. QED
  BY <1>2, <1>3

(* A pin that is connectable closes no loop and adds no second driver.     *)
LEMMA ConnectGraph ==
  ASSUME Typed, GraphOK, NEW pin \in Vertices, pin \notin Ports, NEW n \in Nets,
         Connectable(pin, n), Rewired(pin, n)
  PROVE  GraphOK'
<1> DEFINE From == IF pin \in Drivers THEN OnNet(n) ELSE {pin}
           R == Downstream(design, From)
<1>1. EdgesOf(design) /\ EdgesOf(design')
  BY Edges
<1>2. /\ design.net[pin] = None /\ design'.net[pin] = n /\ n # None
      /\ \A v \in Vertices : v # pin => design'.net[v] = design.net[v]
  BY GraphDelayCalcAssumption DEF Connectable, Rewired
<1>3. Drivers \subseteq Vertices /\ (pin \in Drivers <=> pin \notin Loads) /\ Loads \subseteq Vertices
  BY GraphDelayCalcAssumption DEF Vertices
<1>4. /\ \A v \in Vertices : v \in From => v \in R
      /\ \A v \in Vertices : \A u \in Fanin(design, v) : u \in R => v \in R
  <2> HIDE DEF From
  <2>1. QED
    BY DownstreamIs DEF GraphOK
<1>5. /\ pin \in Drivers => OnNet(n) \cap Drivers = {} /\ pin \notin R
      /\ pin \notin Drivers => OnNet(n) \cap Drivers \cap R = {}
  BY DEF Connectable
<1> HIDE DEF R
<1>6. ASSUME NEW v \in Vertices, NEW u \in Fanin(design', v), u \notin Fanin(design, v)
      PROVE  v \in R /\ u \notin R
  <2>1. v \in Loads
    BY <1>1, <1>6 DEF EdgesOf, Vertices, Drivers
  <2>2. /\ u \in Drivers /\ u \in Vertices
        /\ design'.net[u] # None /\ design'.net[u] = design'.net[v]
        /\ ~(design.net[u] # None /\ design.net[u] = design.net[v])
    BY <1>1, <1>3, <1>6, <2>1 DEF EdgesOf
  <2>3. CASE pin = v
    <3>1. pin \notin Drivers /\ u # pin
      BY <2>1, <2>2, <2>3, <1>3
    <3>2. u \in OnNet(n)
      BY <2>2, <2>3, <3>1, <1>2 DEF OnNet
    <3>3. QED
      BY <2>2, <2>3, <3>1, <3>2, <1>4, <1>5
  <2>4. CASE pin = u
    <3>1. pin \in Drivers /\ v # pin
      BY <2>1, <2>2, <2>4, <1>3
    <3>2. v \in OnNet(n)
      BY <2>2, <2>4, <3>1, <1>2 DEF OnNet
    <3>3. QED
      BY <2>4, <3>1, <3>2, <1>4, <1>5
  <2>5. QED
    BY <2>2, <2>3, <2>4, <1>2
<1>7. Acyclic(design')
  <2>1. \A v \in Vertices : \A u \in Fanin(design', v) :
          u \in Fanin(design, v) \/ (v \in R /\ u \notin R)
    BY <1>6
  <2>2. QED
    BY <2>1, <1>4, AcyclicJoin DEF GraphOK
<1>8. OneDriver(design')
  <2>1. SUFFICES ASSUME NEW d \in Drivers, NEW e \in Drivers, design'.net[d] # None,
                        design'.net[d] = design'.net[e]
                 PROVE  d = e
    BY DEF OneDriver
  <2>2. d \in Vertices /\ e \in Vertices
    BY <1>3
  <2>3. CASE d # pin /\ e # pin
    BY <2>1, <2>2, <2>3, <1>2 DEF GraphOK, OneDriver
  <2>4. CASE d = pin /\ e # pin
    BY <2>1, <2>2, <2>4, <1>2, <1>5 DEF OnNet
  <2>5. CASE e = pin /\ d # pin
    BY <2>1, <2>2, <2>5, <1>2, <1>5 DEF OnNet
  <2>6. QED
    BY <2>3, <2>4, <2>5
<1>9. QED
  BY <1>7, <1>8 DEF GraphOK

(* A pin put on a net: it is told and so is its driver.                    *)
LEMMA ConnectPinInv ==
  ASSUME IInv, NEW pin \in Movable, NEW n \in Nets, ConnectPin(pin, n)
  PROVE  IInv'
<1> DEFINE S == IF pin \in Loads THEN {pin} \cup Fanin(design', pin) ELSE {pin}
           D == IF pin \in Loads THEN {} ELSE {pin}
<1>1. Typed /\ GraphOK /\ design \in Designs
  BY DEF IInv, Typed
<1>2. pin \in Vertices /\ pin \notin Ports
  BY GraphDelayCalcAssumption
<1>3. /\ Edit /\ Connectable(pin, n)
      /\ calc' = DelayInvalid(calc, S)
      /\ levelized' = levelized \cup {pin} \cup Fanin(design', pin)
      /\ delays' = delays
      /\ untold' = IF calc.incremental /\ pin \in Drivers
                   THEN untold \cup {l \in Fanout(design', pin) :
                                      design.annotated[l] # None /\ ChecksOf(l) # {}}
                   ELSE untold
  BY DEF ConnectPin, ConnectPinAfter
<1>4. Rewired(pin, n)
  BY <1>1, <1>2, RewireDoes DEF ConnectPin
<1>5. /\ design' \in Designs /\ design.net[pin] = None /\ n # None
      /\ design'.net[pin] = n /\ \A v \in Vertices : v # pin => design'.net[v] = design.net[v]
      /\ design'.wireCap = design.wireCap /\ design'.inputSlew = design.inputSlew
      /\ design'.annotated = design.annotated /\ design'.conditions = design.conditions
  BY <1>3, <1>4, GraphDelayCalcAssumption DEF Rewired, Connectable
<1>6. EdgesOf(design) /\ EdgesOf(design')
  BY Edges
<1>7. GraphOK'
  BY <1>1, <1>2, <1>3, <1>4, ConnectGraph
<1>8. Fanin(design', pin) \subseteq Vertices /\ S \in SUBSET Vertices
  BY <1>2 DEF Fanin
<1>9. /\ Drivers \subseteq Vertices /\ Loads \subseteq Vertices
      /\ pin \notin Loads <=> pin \in Outputs
      /\ pin \notin Loads <=> pin \in Drivers
  BY <1>2, GraphDelayCalcAssumption DEF Vertices, Drivers
<1>10. ASSUME NEW l \in Loads
       PROVE  /\ Fanin(design, l) = {d \in Drivers : design.net[d] # None /\ design.net[d] = design.net[l]}
              /\ Fanin(design', l) = {d \in Drivers : design'.net[d] # None /\ design'.net[d] = design'.net[l]}
              /\ l \in Vertices
  BY <1>6, <1>9 DEF EdgesOf
<1>11. \A l \in Loads : \A e \in Fanin(design, l) : e \in Fanin(design', l)
  BY <1>5, <1>9, <1>10
<1>12. \A l \in Loads : \A e \in Fanin(design', l) : e \in Fanin(design, l) \/ l = pin \/ e = pin
  BY <1>5, <1>9, <1>10
<1>13. EdgesTold(S, D)
  <2>1. D \subseteq Outputs \cap S
    BY <1>9
  <2>4. ASSUME calc.incremental, NEW l \in Loads, NEW e \in Fanin(design', l) \cap D
        PROVE  l \in untold' \/ design.annotated[l] = None \/ ChecksOf(l) = {}
    <3>1. e = pin /\ pin \in Drivers
      BY <2>4, <1>9
    <3>2. l \in Fanout(design', pin)
      BY <3>1, <2>4, <1>2, <1>9, <1>6 DEF EdgesOf
    <3>3. QED
      BY <3>1, <3>2, <2>4, <1>3
  <2>2. ASSUME NEW l \in Loads, NEW e \in Fanin(design', l), e \notin Fanin(design, l)
        PROVE  /\ (l \in S /\ e \in S) \/ e \in D
               /\ l \in levelized' \/ e \in levelized'
    <3>1. e \in Drivers
      BY <2>2, <1>10
    <3>2. l = pin \/ e = pin
      BY <2>2, <1>12
    <3>3. CASE l = pin
      BY <3>3, <2>2, <1>3
    <3>4. CASE e = pin
      BY <3>1, <3>4, <1>3, <1>9
    <3>5. QED
      BY <3>2, <3>3, <3>4
  <2> HIDE DEF S, D
  <2>3. QED
    BY <2>1, <2>2, <2>4, <1>11 DEF EdgesTold
<1>14. SlewsTold(S)
  <2>1. ASSUME NEW l \in Loads, NEW d \in Fanin(design', l)
        PROVE  \/ l \in S /\ d \in S
               \/ \A s : LoadSlew(design', s, l) = LoadSlew(design, s, l)
    <3>1. CASE l = pin
      BY <3>1, <2>1
    <3>2. CASE l # pin
      BY <3>2, <1>5, <1>9 DEF LoadSlew
    <3>3. QED
      BY <3>1, <3>2
  <2>2. ASSUME NEW z \in Outputs, z \notin S
        PROVE  \A s : GateDelay(design', s, z) = GateDelay(design, s, z)
    <3>1. z # pin
      BY <2>2
    <3>2. z \in Vertices /\ z \in Drivers
      BY DEF Vertices, Drivers
    <3>3. \A l \in Loads : z \in Fanin(design, l) <=> z \in Fanin(design', l)
      <4>1. z \in Fanin(design', pin) => pin \notin Loads
        BY <2>2
      <4>2. QED
        BY <4>1, <3>1, <1>11, <1>12
    <3>4. Fanout(design', z) = Fanout(design, z)
      <4>1. Fanout(design, z) \subseteq Loads /\ Fanout(design', z) \subseteq Loads
        BY <3>2, <1>6 DEF EdgesOf
      <4>2. \A l \in Loads : /\ l \in Fanout(design, z) <=> z \in Fanin(design, l)
                             /\ l \in Fanout(design', z) <=> z \in Fanin(design', l)
        BY <3>2, <1>6, <1>9 DEF EdgesOf
      <4>3. QED
        BY <4>1, <4>2, <3>3
    <3>5. QED
      BY <3>1, <3>4, <1>4, RewiredGate
  <2>3. \A v \in Vertices : RootSlew(design', v) = RootSlew(design, v)
    BY <1>5 DEF RootSlew
  <2>5. QED
    BY <2>1, <2>2, <2>3, <1>3, <1>5 DEF SlewsTold
<1>15. Informed(S)
  <2>1. PICK T \in SUBSET Vertices : T = S
    BY <1>8
  <2> HIDE DEF S
  <2>2. calc' = DelayInvalid(calc, T)
    BY <2>1, <1>3
  <2>3. Informed(T)
    BY <2>2, <1>1, InformDoes
  <2>4. QED
    BY <2>1, <2>3
<1>16. Edited
  <2>1. untold \subseteq untold' /\ untold' \subseteq Vertices /\ (~calc.incremental => untold' = untold)
    <3>1. untold \subseteq Vertices /\ Fanout(design', pin) \subseteq Vertices
      BY <1>1 DEF Typed, Fanout
    <3>2. QED
      BY <3>1, <1>3
  <2>2. QED
    BY <2>1, <1>1, <1>3, <1>5, <1>2, <1>8 DEF Edit, Edited, Typed
<1>17. QED
  <2>1. PICK T, E : T = S /\ E = D
    OBVIOUS
  <2> HIDE DEF S, D
  <2>2. Informed(T) /\ EdgesTold(T, E) /\ SlewsTold(T)
    BY <2>1, <1>13, <1>14, <1>15
  <2>3. QED
    BY <2>2, <1>7, <1>16, EditInv

------------------------------------------------------------------------------
(* The invariant.                                                          *)
LEMMA InitInv ==
  ASSUME Init
  PROVE  IInv
<1>1. /\ design = NewDesign
      /\ level = Relevelized(design, [v \in Vertices |-> 0], {})
      /\ levelized = {}
      /\ delays = [slew |-> [v \in Vertices |-> 0], arc |-> [a \in Arcs |-> <<>>],
                   check |-> [c \in Checks |-> <<>>]]
      /\ calc = NewCalc
      /\ find = Idle
      /\ answered = None
      /\ untold = {}
  BY DEF Init
<1>2. 0 \in Values /\ 0 \in Nat
  BY DEF Values
<1>3. design \in Designs
  BY <1>1, <1>2, GraphDelayCalcAssumption DEF NewDesign, Designs
<1>4. GraphOK
  <2>1. OneDriver(design)
    <3>1. design.net = NetOf
      BY <1>1 DEF NewDesign
    <3>2. QED
      BY <3>1, GraphDelayCalcAssumption DEF OneDriver
  <2>2. QED
    BY <2>1, <1>1, AcyclicAssumption DEF GraphOK
<1>5. /\ level \in [Vertices -> Nat]
      /\ \A v \in Vertices : \A u \in Fanin(design, v) : level[u] < level[v]
      /\ \A v \in Vertices : Root(design, v) => level[v] = 0
  <2> DEFINE lev == [v \in Vertices |-> 0]
  <2>1. lev \in [Vertices -> Nat] /\ \A v \in Vertices : Base(design, lev, {}, v) = 0
    BY DEF Base
  <2> HIDE DEF lev
  <2>2. /\ Relevelized(design, lev, {}) \in [Vertices -> Nat]
        /\ \A v \in Vertices : \A u \in Fanin(design, v) :
             Relevelized(design, lev, {})[u] < Relevelized(design, lev, {})[v]
        /\ \A v \in Vertices : Root(design, v) =>
             Relevelized(design, lev, {})[v] = Base(design, lev, {}, v)
    <3>1. \A g : Acyclic(g) =>
            /\ Relevelized(g, lev, {}) \in [Vertices -> Nat]
            /\ \A v \in Vertices : \A u \in Fanin(g, v) :
                 Relevelized(g, lev, {})[u] < Relevelized(g, lev, {})[v]
            /\ \A v \in Vertices : Root(g, v) =>
                 Relevelized(g, lev, {})[v] = Base(g, lev, {}, v)
      BY <2>1, RelevelizedIs
    <3>2. QED
      BY <3>1, <1>4 DEF GraphOK
  <2>3. level = Relevelized(design, lev, {})
    BY <1>1 DEF lev
  <2>4. QED
    BY <2>1, <2>2, <2>3
<1>6. ~Visiting
  BY <1>1 DEF Visiting
<1>7. calc \in Calcs /\ ~calc.incremental /\ calc.invalid = {} /\ calc.checks = {} /\ Queued(calc) = {}
  BY <1>1 DEF NewCalc, Calcs, Queued
<1>8. delays \in Delays
  BY <1>1, <1>2 DEF Delays
<1>9. find \in Finds
  BY <1>1 DEF Finds, Idle
<1>10. Typed
  BY <1>1, <1>3, <1>5, <1>6, <1>7, <1>8, <1>9 DEF Typed
<1>11. LevelsOK
  <2>1. \A p \in Ports : level[p] = 0
    BY <1>5, Edges DEF EdgesOf, Root, Vertices, Drivers
  <2>2. \A a \in Arcs : level[a[1]] < level[a[2]]
    <3>1. SUFFICES ASSUME NEW a \in Arcs PROVE level[a[1]] < level[a[2]]
      OBVIOUS
    <3>2. a[1] \in Loads /\ a[2] \in Outputs /\ <<a[1], a[2]>> \in Arcs /\ a[2] \in Vertices
      BY GraphDelayCalcAssumption DEF Vertices, Drivers
    <3>3. a[1] \in Fanin(design, a[2])
      BY <3>2, Edges, ZenonT(40) DEF EdgesOf
    <3>4. QED
      BY <3>2, <3>3, <1>5
  <2>3. QED
    BY <2>1, <2>2, <1>1, <1>5 DEF LevelsOK
<1>12. QueueOK
  BY <1>1, <1>6, <1>7 DEF QueueOK
<1>13. AnswerOK /\ WorstOK /\ SlewsOK
  BY <1>1, <1>6, <1>7 DEF AnswerOK, WorstOK, SlewsOK, Into
<1>14. QED
  BY <1>4, <1>10, <1>11, <1>12, <1>13 DEF IInv

(* Every step keeps the invariant.                                         *)
LEMMA NextInv ==
  ASSUME IInv, [Next]_vars
  PROVE  IInv'
<1>1. CASE FindDelays
  BY <1>1, FindDelaysInv
<1>2. CASE Searching
  BY <1>2, NextLevelInv, FoundInv, VisitInv DEF Searching
<1>3. CASE Edits
  <2>1. CASE \E n \in Nets : \E x \in Values \ {design.wireCap[n]} : SetNetWireCap(n, x)
    BY <2>1, SetNetWireCapInv
  <2>2. CASE \E p \in Ports : \E x \in Values \ {design.inputSlew[p]} : SetInputSlew(p, x)
    BY <2>2, SetInputSlewInv
  <2>3. CASE \E l \in Annotatable : \E x \in Values \ {design.annotated[l]} : SetAnnotatedSlew(l, x)
    BY <2>3, SetAnnotatedSlewInv
  <2>4. CASE RemoveDelaySlewAnnotations
    BY <2>4, RemoveAnnotationsInv
  <2>5. CASE \E x \in Values \ {design.conditions} : SetOperatingConditions(x)
    BY <2>5, SetOperatingConditionsInv
  <2>6. CASE \E z \in Outputs : ReplaceEquivCell(z)
    BY <2>6, ReplaceEquivCellInv
  <2>7. CASE \E pin \in Movable, n \in Nets : ConnectPin(pin, n)
    BY <2>7, ConnectPinInv
  <2>8. CASE \E pin \in Movable : DisconnectPin(pin)
    BY <2>8, DisconnectPinInv
  <2>9. QED
    BY <1>3, <2>1, <2>2, <2>3, <2>4, <2>5, <2>6, <2>7, <2>8 DEF Edits
<1>4. CASE UNCHANGED vars
  <2>1. /\ design' = design /\ level' = level /\ levelized' = levelized /\ delays' = delays
        /\ calc' = calc /\ find' = find /\ answered' = answered /\ untold' = untold
    BY <1>4 DEF vars
  <2>2. Typed /\ GraphOK /\ LevelsOK /\ QueueOK /\ AnswerOK /\ WorstOK /\ SlewsOK
    BY DEF IInv
  <2>3. GraphOK' /\ LevelsOK'
    BY <2>1, <2>2, SameGraph DEF Same
  <2>4. Typed' /\ QueueOK'
    BY <2>1, <2>2 DEF Typed, QueueOK, Visiting
  <2>5. AnswerOK' /\ WorstOK'
    <3>1. AnswerOK'
      BY <2>1, <2>2 DEF AnswerOK
    <3>2. WorstOK'
      BY <2>1, <2>2, WorstKept
    <3>3. QED
      BY <3>1, <3>2
  <2>6. SlewsOK'
    <3>1. \A W : Traced(W)' = Traced(W)
      BY <2>1 DEF Traced, Upstream, Deep, DriverOK, LoadOK, RootOK, CheckOK, Unsure, Waits, Unfound, Pending
    <3>2. QED
      BY <3>1, <2>1, <2>2 DEF SlewsOK, Visiting
  <2>7. QED
    BY <2>3, <2>4, <2>5, <2>6 DEF IInv
<1>5. QED
  BY <1>1, <1>2, <1>3, <1>4 DEF Next

(* Every reachable state satisfies the invariant above: the levels rise    *)
(* along the edges, the queue holds what it should, and every slew, arc    *)
(* delay and check delay that is out of date is traced to a vertex that is *)
(* invalid, in the queue or in untold (delayInvalid, findDelays and        *)
(* findVertexDelay of GraphDelayCalc1.cc with the callers in Sta.cc).      *)
(* untold is what the code loses: gates that lost a load, vertices given   *)
(* another level while they were queued, loads with a new slew behind a    *)
(* driver whose delays did not count as changed (negative before, or the   *)
(* same), gates beyond a first search to a lower level, and floating loads *)
(* of checks with an annotated slew that get a driver.                     *)
THEOREM DelaysInvariant == Spec => []IInv
<1>1. Init => IInv
  BY InitInv
<1>2. IInv /\ [Next]_vars => IInv'
  BY NextInv
<1>3. QED
  BY <1>1, <1>2, PTL DEF Spec

(* The state has its types; no vertex is left flagged and in no list; and  *)
(* no check outlives the search that found it.                             *)
THEOREM DelaysTyped == Spec => []TypeOK
<1>1. IInv => TypeOK
  BY DEF IInv, Typed, QueueOK, TypeOK, Calcs, Delays
<1>2. QED
  BY <1>1, DelaysInvariant, PTL

------------------------------------------------------------------------------
(* A calculation from scratch.                                             *)
FullRule(f, v) ==
  IF Root(design, v) THEN RootSlew(design, v)
  ELSE Max({IF v \in Loads THEN LoadSlew(design, f[u], v)
            ELSE GateSlew(design, f[u], v) : u \in Fanin(design, v)})

(* What a calculation from scratch finds at a vertex, by its kind.         *)
LEMMA FullRuleIs ==
  ASSUME Typed, GraphOK, NEW f \in [Vertices -> Nat], NEW v \in Vertices
  PROVE  /\ FullRule(f, v) \in Nat
         /\ v \in Loads => \A d \in Fanin(design, v) : FullRule(f, v) = LoadSlew(design, f[d], v)
         /\ v \in Outputs => FullRule(f, v) = Max({GateSlew(design, f[u], v) : u \in Fanin(design, v)})
<1>1. EdgesOf(design) /\ design \in Designs
  BY Edges DEF Typed
<1>2. CASE Root(design, v)
  <2>1. FullRule(f, v) = RootSlew(design, v)
    BY <1>2 DEF FullRule
  <2>2. RootSlew(design, v) \in Nat
    BY <1>1, <1>2, SlewTypes
  <2>3. v \notin Outputs /\ Fanin(design, v) = {}
    BY <1>1, <1>2 DEF EdgesOf, Root
  <2>4. QED
    BY <2>1, <2>2, <2>3
<1>3. CASE v \in Loads /\ ~Root(design, v)
  <2>1. PICK d \in Fanin(design, v) : TRUE
    BY <1>3 DEF Root
  <2>2. Fanin(design, v) = {d}
    BY <2>1, <1>1, <1>3 DEF EdgesOf, GraphOK, OneDriver
  <2>3. d \in Vertices
    BY <2>1 DEF Fanin
  <2>4. LoadSlew(design, f[d], v) \in Nat
    <3>1. \A l \in Loads, n \in Nat : Fanin(design, l) # {} => LoadSlew(design, n, l) \in Nat
      BY <1>1, SlewTypes
    <3>2. f[d] \in Nat
      BY <2>3
    <3>3. QED
      BY <3>1, <3>2, <2>2, <1>3
  <2>5. FullRule(f, v) = Max({LoadSlew(design, f[d], v)})
    BY <2>2, <1>3 DEF FullRule
  <2>6. Max({LoadSlew(design, f[d], v)}) = LoadSlew(design, f[d], v)
    <3> DEFINE n == LoadSlew(design, f[d], v)
    <3>1. n \in Nat
      BY <2>4
    <3> HIDE DEF n
    <3>2. Max({n}) = n
      BY <3>1 DEF Max
    <3>3. QED
      BY <3>2 DEF n
  <2>7. v \notin Outputs
    BY <1>3, GraphDelayCalcAssumption DEF Drivers
  <2>8. QED
    BY <2>2, <2>4, <2>5, <2>6, <2>7
<1>4. CASE v \notin Loads /\ ~Root(design, v)
  <2>1. v \in Outputs
    BY <1>1, <1>4 DEF EdgesOf, Root, Vertices, Drivers
  <2>2. FullRule(f, v) = Max({GateSlew(design, f[u], v) : u \in Fanin(design, v)})
    BY <1>4 DEF FullRule
  <2>3. Max({GateSlew(design, f[u], v) : u \in Fanin(design, v)}) \in Nat
    BY <1>1, <2>1, WorstIs
  <2>4. QED
    BY <1>4, <2>1, <2>2, <2>3
<1>5. QED
  BY <1>2, <1>3, <1>4

(* FullSlews is such a function: there is one, for there is no loop.       *)
LEMMA FullSlewsIs ==
  ASSUME Typed, GraphOK
  PROVE  \A v \in Vertices : FullSlews[v] = FullRule(FullSlews, v)
<1> DEFINE Is(r) == r = [v \in Vertices |-> FullRule(r, v)]
           rule == [p \in Vertices \X [Vertices -> Nat] |-> FullRule(p[2], p[1])]
           r == CHOOSE r : Is(r)
<1>1. FullSlews = r
  BY DEF FullSlews, FullRule
<1>2. rule \in [Vertices \X [Vertices -> Nat] -> Nat]
  <2>1. \A p \in Vertices \X [Vertices -> Nat] : FullRule(p[2], p[1]) \in Nat
    BY FullRuleIs
  <2>2. QED
    BY <2>1
<1>3. Local(rule, design, Nat)
  <2> SUFFICES ASSUME NEW v \in Vertices, NEW f \in [Vertices -> Nat], NEW h \in [Vertices -> Nat],
                      \A u \in Fanin(design, v) : f[u] = h[u]
               PROVE  rule[<<v, f>>] = rule[<<v, h>>]
    BY DEF Local
  <2>1. FullRule(f, v) = FullRule(h, v)
    BY DEF FullRule
  <2>2. QED
    BY <2>1
<1>4. \E f \in [Vertices -> Nat] : \A v \in Vertices : f[v] = rule[<<v, f>>]
  <2> DEFINE S == Nat
  <2>1. S # {} /\ IsRule(rule, S) /\ Local(rule, design, S)
    BY <1>2, <1>3 DEF IsRule
  <2>2. \A g, X, k : Acyclic(g) /\ X # {} /\ IsRule(k, X) /\ Local(k, g, X) => Solved(k, X)
    BY FaninRecursion
  <2> HIDE DEF rule, S
  <2>3. Solved(rule, S)
    BY <2>1, <2>2 DEF GraphOK
  <2>4. QED
    BY <2>3 DEF Solved, S
<1>5. PICK f \in [Vertices -> Nat] : \A v \in Vertices : f[v] = rule[<<v, f>>]
  BY <1>4
<1>6. Is(f)
  BY <1>5
<1>7. Is(r)
  <2> HIDE DEF Is
  <2>1. QED
    BY <1>6
<1> HIDE DEF r
<1>8. \A v \in Vertices : r[v] = FullRule(r, v)
  BY <1>7
<1>9. QED
  BY <1>1, <1>8

(* What was asked for is closed under fanin, and none of it is suspected.  *)
LEMMA AskedIs ==
  ASSUME IInv, answered # None
  PROVE  /\ Asked \subseteq Vertices
         /\ \A v \in Asked : Fanin(design, v) \subseteq Asked
         /\ Asked \cap (Pending \cup untold) = {}
<1>1. Typed /\ GraphOK /\ LevelsOK /\ QueueOK /\ AnswerOK
  BY DEF IInv
<1>2. /\ calc.invalid = {} /\ levelized = {} /\ answered \in Nat /\ level \in [Vertices -> Nat]
      /\ \A v \in Queued(calc) : calc.entry[v] > answered
  BY <1>1 DEF AnswerOK, Typed
<1>3. /\ \A v \in Vertices : v \in untold => v \in Downstream(design, untold)
      /\ \A v \in Vertices : \A u \in Fanin(design, v) :
           u \in Downstream(design, untold) => v \in Downstream(design, untold)
  <2>1. \A g : Acyclic(g) =>
          /\ \A v \in Vertices : v \in untold => v \in Downstream(g, untold)
          /\ \A v \in Vertices : \A u \in Fanin(g, v) :
               u \in Downstream(g, untold) => v \in Downstream(g, untold)
    BY DownstreamIs
  <2>2. QED
    BY <2>1, <1>1 DEF GraphOK
<1>4. \A v \in Vertices : v \in Asked <=> level[v] <= answered /\ v \notin Downstream(design, untold)
  BY DEF Asked
<1>5. Asked \subseteq Vertices
  BY DEF Asked
<1>6. ASSUME NEW v \in Asked, NEW u \in Fanin(design, v) PROVE u \in Asked
  <2>1. u \in Vertices /\ v \in Vertices
    BY <1>5 DEF Fanin
  <2>2. level[u] < level[v]
    BY <2>1, <1>1, <1>2 DEF LevelsOK
  <2>3. level[v] <= answered /\ level[u] \in Nat /\ level[v] \in Nat
    BY <2>1, <1>2, <1>4
  <2>4. u \notin Downstream(design, untold)
    BY <2>1, <1>3, <1>4
  <2>5. QED
    BY <2>1, <2>2, <2>3, <2>4, <1>2, <1>4
<1>7. ASSUME NEW v \in Asked PROVE v \notin untold /\ v \notin Pending
  <2>1. v \notin untold
    BY <1>3, <1>4, <1>5
  <2>2. ASSUME v \in Queued(calc) PROVE FALSE
    <3>1. calc.entry[v] = level[v] /\ calc.entry[v] > answered
      BY <2>1, <2>2, <1>1, <1>2 DEF QueueOK
    <3>2. level[v] \in Nat /\ level[v] <= answered
      BY <1>2, <1>4, <1>5
    <3>3. QED
      BY <3>1, <3>2, <1>2
  <2>3. QED
    BY <2>1, <2>2, <1>2 DEF Pending
<1>8. QED
  BY <1>5, <1>6, <1>7

(* The invariant says that what was asked for is right: the first vertex   *)
(* asked for with a wrong slew would be a suspect or lie behind one, and   *)
(* no suspect was asked for.                                               *)
LEMMA AnswersFollow ==
  ASSUME IInv
  PROVE  AnswersRight
<1> DEFINE full == FullSlews
           asked == Asked
<1>1. SUFFICES ASSUME answered # None
               PROVE  /\ \A v \in asked : delays.slew[v] = full[v]
                      /\ \A a \in Arcs : a[2] \in asked =>
                           delays.arc[a] = GateDelay(design, full[a[1]], a[2])
                      /\ \A c \in Checks :
                           {c[1], c[2]} \subseteq asked /\ level[c[1]] > 0 /\ level[c[2]] > 0
                             => delays.check[c] = CheckDelay(design, full, c)
  BY DEF AnswersRight
<1>2. Typed /\ GraphOK /\ LevelsOK /\ QueueOK /\ AnswerOK /\ WorstOK /\ SlewsOK
  BY DEF IInv
<1>3. /\ calc.incremental /\ calc.invalid = {} /\ levelized = {}
      /\ answered \in Nat /\ level \in [Vertices -> Nat]
      /\ design \in Designs /\ delays \in Delays /\ delays.slew \in [Vertices -> Nat]
  BY <1>1, <1>2 DEF AnswerOK, Typed, Delays
<1>4. /\ asked \subseteq Vertices
      /\ \A v \in asked : Fanin(design, v) \subseteq asked
      /\ asked \cap (Pending \cup untold) = {}
  BY <1>1, AskedIs
<1>5. \A v \in Vertices : full[v] = FullRule(full, v)
  BY <1>2, FullSlewsIs
<1>6. \A v \in asked : level[v] <= answered
  BY DEF Asked
<1> HIDE DEF full, asked
<1>7. EdgesOf(design)
  BY Edges
<1>8. PICK W \in SUBSET Outputs : Traced(W)
  BY <1>2, <1>3 DEF SlewsOK
<1>9. W \cap asked = {}
  <2> DEFINE X == W \cap asked
  <2>1. ASSUME NEW d \in X PROVE \E l \in Fanin(design, d) : \E e \in Fanin(design, l) : e \in X
    <3>1. Upstream(d, W)
      BY <1>8 DEF Traced
    <3>2. d \notin Pending
      BY <1>4
    <3>3. PICK l \in Fanin(design, d) : \/ l \in Pending \cup untold
                                        \/ \E e \in Fanin(design, l) : e \in W \cup untold
      BY <3>1, <3>2 DEF Upstream
    <3>4. l \in asked
      BY <3>3, <1>4
    <3>5. PICK e \in Fanin(design, l) : e \in W \cup untold
      BY <3>3, <3>4, <1>4
    <3>6. e \in asked
      BY <3>4, <3>5, <1>4
    <3>7. e \in X
      BY <3>5, <3>6, <1>4
    <3>8. QED
      BY <3>3, <3>5, <3>7
  <2>2. X \in SUBSET Outputs
    BY <1>8
  <2> HIDE DEF X
  <2>3. X = {}
    BY <2>1, <2>2, <1>2, NoneWrong DEF GraphOK
  <2>4. QED
    BY <2>3 DEF X
<1>10. ASSUME NEW z \in Outputs, z \in asked
       PROVE  \A a \in Into(z) : delays.arc[a] = GateDelay(design, delays.slew[a[1]], z)
  <2>1. DriverOK(z, W)
    BY <1>8 DEF Traced
  <2>2. z \notin untold /\ z \notin Pending
    BY <1>4, <1>10
  <2>3. ~Upstream(z, W)
    <3>1. SUFFICES ASSUME NEW l \in Fanin(design, z),
                          \/ l \in Pending \cup untold
                          \/ \E e \in Fanin(design, l) : e \in W \cup untold
                   PROVE  FALSE
      BY <2>2 DEF Upstream
    <3>2. l \in asked
      BY <1>4, <1>10
    <3>3. PICK e \in Fanin(design, l) : e \in W \cup untold
      BY <3>1, <3>2, <1>4
    <3>4. e \in asked
      BY <3>2, <3>3, <1>4
    <3>5. QED
      BY <3>3, <3>4, <1>4, <1>9
  <2>4. QED
    BY <2>1, <2>2, <2>3 DEF DriverOK
<1>11. ASSUME NEW v \in asked PROVE delays.slew[v] = FullRule(delays.slew, v)
  <2>1. v \in Vertices
    BY <1>4
  <2>2. CASE Root(design, v)
    BY <2>1, <2>2, <1>3, <1>8 DEF Traced, RootOK, FullRule
  <2>3. CASE v \in Loads /\ ~Root(design, v)
    <3>1. PICK d \in Fanin(design, v) : TRUE
      BY <2>3 DEF Root
    <3>2. d \in asked /\ d \notin untold /\ d \notin W /\ v \notin untold /\ d \notin Pending
      BY <3>1, <1>4, <1>9
    <3>3. delays.slew[v] = LoadSlew(design, delays.slew[d], v)
      BY <2>3, <3>1, <3>2, <1>8 DEF Traced, LoadOK
    <3>4. FullRule(delays.slew, v) = LoadSlew(design, delays.slew[d], v)
      BY <2>1, <2>3, <3>1, <1>2, <1>3, FullRuleIs
    <3>5. QED
      BY <3>3, <3>4
  <2>4. CASE v \in Outputs
    <3>1. \A a \in Into(v) : delays.arc[a] = GateDelay(design, delays.slew[a[1]], v)
      BY <2>4, <1>10
    <3>2. \A a \in Into(v) : a \in Arcs /\ a[1] \in Vertices /\ a[1] \in Fanin(design, v)
      BY <2>4, <1>7, GraphDelayCalcAssumption DEF Into, EdgesOf, Vertices
    <3>3. \A n \in Nat : /\ GateDelay(design, n, v) # <<>>
                         /\ ArcSlew(GateDelay(design, n, v)) = GateSlew(design, n, v)
      BY <2>4, <1>3, GateDelayIs
    <3>4. \A a \in Into(v) : /\ delays.arc[a] # <<>>
                             /\ ArcSlew(delays.arc[a]) = GateSlew(design, delays.slew[a[1]], v)
      <4>1. SUFFICES ASSUME NEW a \in Into(v)
                     PROVE  /\ delays.arc[a] # <<>>
                            /\ ArcSlew(delays.arc[a]) = GateSlew(design, delays.slew[a[1]], v)
        OBVIOUS
      <4>2. delays.slew[a[1]] \in Nat
        BY <3>2, <1>3
      <4>3. QED
        BY <4>2, <3>1, <3>3
    <3>5. \A l \in Fanin(design, v) : \E a \in Into(v) : a[1] = l
      <4>1. SUFFICES ASSUME NEW l \in Fanin(design, v) PROVE \E a \in Into(v) : a[1] = l
        OBVIOUS
      <4>2. Fanin(design, v) = {k \in Loads : <<k, v>> \in Arcs}
        BY <2>4, <1>7 DEF EdgesOf
      <4>3. <<l, v>> \in Into(v)
        BY <4>2 DEF Into
      <4>4. QED
        BY <4>3
    <3>6. \E a \in Into(v) : TRUE
      <4>1. Fanin(design, v) # {}
        BY <2>4, <1>7 DEF EdgesOf
      <4>2. QED
        BY <4>1, <3>5
    <3>7. delays.slew[v] = Max({ArcSlew(delays.arc[a]) : a \in Into(v)})
      BY <2>4, <3>4, <3>6, <1>2 DEF WorstOK
    <3>8. {ArcSlew(delays.arc[a]) : a \in Into(v)}
            = {GateSlew(design, delays.slew[l], v) : l \in Fanin(design, v)}
      BY <3>2, <3>4, <3>5
    <3>9. FullRule(delays.slew, v) = Max({GateSlew(design, delays.slew[l], v) : l \in Fanin(design, v)})
      BY <2>1, <2>4, <1>2, <1>3, FullRuleIs
    <3>10. QED
      BY <3>7, <3>8, <3>9
  <2>5. QED
    BY <2>1, <2>2, <2>3, <2>4, <1>7 DEF Vertices, Drivers, EdgesOf, Root
<1>12. \A v \in asked : delays.slew[v] = full[v]
  <2> DEFINE Bad == {v \in asked : delays.slew[v] # full[v]}
  <2>1. SUFFICES ASSUME Bad # {} PROVE FALSE
    OBVIOUS
  <2>2. PICK v \in Bad : Fanin(design, v) \cap Bad = {}
    <3>1. Bad \in (SUBSET Vertices) \ {{}}
      BY <2>1, <1>4
    <3> HIDE DEF Bad
    <3>2. QED
      BY <3>1, <1>2 DEF GraphOK, Acyclic
  <2>3. \A u \in Fanin(design, v) : delays.slew[u] = full[u]
    BY <2>2, <1>4
  <2>4. FullRule(delays.slew, v) = FullRule(full, v)
    BY <2>3 DEF FullRule
  <2>5. delays.slew[v] = FullRule(delays.slew, v) /\ full[v] = FullRule(full, v)
    BY <2>2, <1>4, <1>5, <1>11
  <2>6. QED
    BY <2>2, <2>4, <2>5
<1>13. ASSUME NEW a \in Arcs, a[2] \in asked
       PROVE  delays.arc[a] = GateDelay(design, full[a[1]], a[2])
  <2>1. a[2] \in Outputs /\ a[1] \in Loads /\ <<a[1], a[2]>> \in Arcs /\ a \in Into(a[2])
    BY GraphDelayCalcAssumption DEF Into
  <2>2. delays.arc[a] = GateDelay(design, delays.slew[a[1]], a[2])
    BY <2>1, <1>10, <1>13
  <2>3. a[1] \in Fanin(design, a[2])
    BY <2>1, <1>7 DEF EdgesOf
  <2>4. delays.slew[a[1]] = full[a[1]]
    BY <2>3, <1>4, <1>12, <1>13
  <2>5. QED
    BY <2>2, <2>4
<1>14. ASSUME NEW c \in Checks, {c[1], c[2]} \subseteq asked, level[c[1]] > 0, level[c[2]] > 0
       PROVE  delays.check[c] = CheckDelay(design, full, c)
  <2>1. ASSUME NEW x \in {c[1], c[2]}, Unsure(x, W) PROVE FALSE
    <3>1. x \in asked /\ x \in Vertices /\ level[x] > 0
      BY <1>4, <1>14
    <3>2. ~Root(design, x)
      BY <3>1, <1>2, <1>3 DEF LevelsOK
    <3>3. x \notin Pending \cup untold
      BY <3>1, <1>4
    <3>4. PICK d \in Fanin(design, x) : d \in W \cup untold \cup Pending
      BY <2>1, <3>2, <3>3 DEF Unsure, Waits
    <3>5. d \in asked
      BY <3>1, <3>4, <1>4
    <3>6. QED
      BY <3>4, <3>5, <1>4, <1>9
  <2>2. c \notin calc.checks
    <3>1. SUFFICES ASSUME c \in calc.checks PROVE FALSE
      OBVIOUS
    <3>2. PICK x \in {c[1], c[2]} : x \in untold \/ level[x] > answered
      BY <3>1, <1>1, <1>2 DEF AnswerOK
    <3>3. x \in asked /\ x \in Vertices
      BY <1>4, <1>14
    <3>4. x \notin untold /\ level[x] <= answered /\ level[x] \in Nat
      BY <3>3, <1>3, <1>4, <1>6
    <3>5. QED
      BY <3>2, <3>4, <1>3
  <2>3. delays.check[c] = CheckDelay(design, delays.slew, c)
    BY <2>1, <2>2, <1>8 DEF Traced, CheckOK
  <2>4. delays.slew[c[1]] = full[c[1]] /\ delays.slew[c[2]] = full[c[2]]
    BY <1>12, <1>14
  <2>5. QED
    BY <2>3, <2>4 DEF CheckDelay
<1>15. QED
  BY <1>12, <1>13, <1>14

(* What a search was asked for is right when it returns, and stays right   *)
(* until the next edit, whatever calls and edits there were before, except *)
(* downstream of untold (Asked): of gates that lost a load, of vertices    *)
(* given another level while they were queued, of loads behind a driver    *)
(* whose delays did not count as changed (GraphDelayCalc1.cc:1301), of     *)
(* gates beyond a first search to a lower level and of floating loads of   *)
(* checks with an annotated slew that get a driver.                        *)
THEOREM AnswersStayRight == Spec => []AnswersRight
<1>1. IInv => AnswersRight
  BY AnswersFollow
<1>2. QED
  BY <1>1, DelaysInvariant, PTL
=============================================================================
