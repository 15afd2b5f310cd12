--------------------------- MODULE LevelizeProofs ---------------------------
(***************************************************************************)
(* Proofs about Levelize for every graph, number of edits and level space: *)
(* what Levelize keeps pointers to exists, every root is known, only edges *)
(* of loops are disabled, and the levels ascend.                           *)
(*                                                                         *)
(* The first needs that recorded loops are closed: Sta::deletePinBefore    *)
(* tells Levelize of the edges of the pin on the side of its net only, and *)
(* a loop through a pin has one there.  It is closed because a gray vertex *)
(* is an active call, and the active calls form a path.                    *)
(***************************************************************************)
EXTENDS Levelize, TLAPS, SequenceTheorems, WellFoundedInduction

------------------------------------------------------------------------------
(* The inductive invariant.                                                *)

(* An instance has all of its vertices, but for the one being deleted.     *)
Whole ==
  /\ edges \subseteq graph \X graph
  /\ work \subseteq graph
  /\ \A v \in graph, w \in Vertices : Instance[v] = Instance[w] =>
       \/ w \in graph
       \/ phase = "delete" /\ v \in work
  /\ phase = "delete" =>
       \A v \in work, w \in graph : Instance[v] = Instance[w] => w \in work

(* The active calls are a path, and the gray vertices are among them.      *)
Calls ==
  /\ phase \notin {"roots", "cycles", "relevelize"} => stack = <<>>
  /\ \A v \in Vertices : \A e \in todo[v] : e \in AllEdges /\ e[1] = v
  /\ \A i \in 1 .. Len(stack) - 1 : <<stack[i + 1], stack[i]>> \in edges
  /\ \A v \in Vertices : color[v] = "gray" => \E i \in 1 .. Len(stack) : stack[i] = v
  /\ \A i \in 1 .. Len(stack) : color[stack[i]] # "white"

Closed(E) ==
  \A e \in E : (\E f \in E : f[1] = e[2]) /\ (\E f \in E : f[2] = e[1])

(* The edge that broke a loop is recorded with all the others of it.       *)
LoopsClosed == disabledLoop \subseteq loopEdges /\ Closed(loopEdges)

LevelizeInv == TypeOK /\ Whole /\ Calls /\ LoopsClosed

(* A vertex without fanin that the searches start from.                    *)
Rootlike(v) == SearchFrom(v) /\ InEdges(v) \cap Enabled = {}

Unconnected(v) == color[v] = "white" /\ v \notin connected

(* Where a vertex without fanin may be that is not among the roots yet.    *)
Pending ==
  CASE phase = "relevelize" -> work
    [] phase = "delete" -> work \cup (IF valid THEN {} ELSE from)
    [] phase = "idle" /\ ~ valid -> from
    [] OTHER -> {}

(* Unless a full levelization is to come, every root is known or found     *)
(* from the vertices that are to be repaired.                              *)
RootsInv ==
  /\ valid => levelized
  /\ phase \in {"relevelize", "lastLatches"} => levelized
  /\ phase \in {"roots", "latches", "cycles"} =>
       \A v \in graph : Rootlike(v) => v \in roots
  /\ levelized =>
       \A v \in graph : Rootlike(v) => v \in roots \cup Pending \/ Unconnected(v)

------------------------------------------------------------------------------
(* Edges and the stack of calls.                                           *)

LEMMA EdgeFacts ==
  ASSUME NEW e \in AllEdges
  PROVE  /\ e = <<e[1], e[2]>> /\ e[1] \in Vertices /\ e[2] \in Vertices
         /\ e[1] # e[2]
         /\ e \in Wires <=> e[1] \notin Loads
         /\ e \in Wires <=> e[2] \in Loads
BY LevelizeAssumption DEF AllEdges

(* A call is pushed on the stack.                                          *)
LEMMA Prepend ==
  ASSUME NEW s \in Seq(Vertices), NEW v \in Vertices
  PROVE  /\ <<v>> \o s \in Seq(Vertices)
         /\ Len(<<v>> \o s) = Len(s) + 1
         /\ (<<v>> \o s)[1] = v
         /\ \A i \in 1 .. Len(s) : (<<v>> \o s)[i + 1] = s[i]
<1>1. <<v>> \in Seq(Vertices) /\ Len(<<v>>) = 1 /\ <<v>>[1] = v
  OBVIOUS
<1>2. /\ <<v>> \o s \in Seq(Vertices)
      /\ Len(<<v>> \o s) = Len(<<v>>) + Len(s)
      /\ \A i \in 1 .. Len(<<v>>) + Len(s) :
           (<<v>> \o s)[i] = IF i <= Len(<<v>>) THEN <<v>>[i] ELSE s[i - Len(<<v>>)]
  BY <1>1, ConcatProperties
<1>3. Len(s) \in Nat
  OBVIOUS
<1>4. Len(<<v>> \o s) = Len(s) + 1 /\ (<<v>> \o s)[1] = v
  BY <1>1, <1>2, <1>3
<1>5. ASSUME NEW i \in 1 .. Len(s)
      PROVE  (<<v>> \o s)[i + 1] = s[i]
  BY <1>1, <1>2, <1>3
<1> QED
  BY <1>2, <1>4, <1>5

(* A call returns.                                                         *)
LEMMA Pop ==
  ASSUME NEW s \in Seq(Vertices), s # <<>>
  PROVE  /\ Head(s) \in Vertices /\ Head(s) = s[1]
         /\ Tail(s) \in Seq(Vertices)
         /\ Len(s) \in Nat /\ Len(s) >= 1
         /\ Len(Tail(s)) = Len(s) - 1
         /\ \A i \in 1 .. Len(s) - 1 : Tail(s)[i] = s[i + 1]
BY HeadTailProperties

LEMMA InitInv == Init => LevelizeInv
<1> SUFFICES ASSUME Init PROVE LevelizeInv
  OBVIOUS
<1>1. PICK made \in SUBSET Instances : graph = UNION {PinsOf(i) : i \in made}
  BY DEF Init
<1>2. graph \subseteq Vertices /\ edges \subseteq AllEdges /\ edges \subseteq graph \X graph
  BY <1>1, LevelizeAssumption DEF Init, PinsOf, AllEdges
<1>3. \A v \in graph, w \in Vertices : Instance[v] = Instance[w] => w \in graph
  BY <1>1 DEF PinsOf
<1>4. blocked \subseteq AllEdges
  BY <1>2 DEF Init
<1>5. stack = <<>> /\ stack \in Seq(Vertices) /\ Len(stack) = 0
  BY DEF Init
<1>6. TypeOK
  BY <1>2, <1>4, <1>5 DEF Init, TypeOK, Colors, Phases
<1>7. Whole
  BY <1>2, <1>3 DEF Init, Whole
<1>8. Calls
  BY <1>5 DEF Init, Calls
<1>9. LoopsClosed
  BY DEF Init, LoopsClosed, Closed
<1> QED
  BY <1>6, <1>7, <1>8, <1>9 DEF LevelizeInv

------------------------------------------------------------------------------
(* Edits.  No call is active, so that what is kept is disturbed only by    *)
(* what goes.                                                              *)

LEMMA CallsUnbegun ==
  ASSUME LevelizeInv, phase \in {"idle", "delete"}, phase' \in {"idle", "delete"},
         UNCHANGED <<color, stack, todo>>
  PROVE  Calls'
<1>1. stack = <<>> /\ stack' = <<>> /\ Len(stack') = 0 /\ Len(stack) = 0
  BY DEF LevelizeInv, Calls
<1>2. \A v \in Vertices : \A e \in todo'[v] : e \in AllEdges /\ e[1] = v
  BY DEF LevelizeInv, Calls
<1>3. \A v \in Vertices : color'[v] # "gray"
  BY <1>1 DEF LevelizeInv, Calls
<1> QED
  BY <1>1, <1>2, <1>3 DEF Calls

LEMMA MakeInstanceInv ==
  ASSUME LevelizeInv, NEW i \in Instances, MakeInstance(i)
  PROVE  LevelizeInv'
<1> USE DEF LevelizeInv
<1>1. PinsOf(i) \subseteq Vertices /\ GatesOf(i) \subseteq PinsOf(i) \X PinsOf(i)
      /\ GatesOf(i) \subseteq AllEdges
  BY LevelizeAssumption, EdgeFacts DEF PinsOf, GatesOf, AllEdges
<1>2. graph \subseteq graph' /\ edges \subseteq edges' /\ edges' \subseteq graph' \X graph'
  BY <1>1 DEF MakeInstance, Whole
<1>3. TypeOK'
  <2>1. graph' \subseteq Vertices /\ edges' \subseteq AllEdges
    BY <1>1 DEF MakeInstance, TypeOK
  <2>2. level' \in [Vertices -> Nat] /\ color' \in [Vertices -> Colors]
    BY DEF MakeInstance, TypeOK, Colors
  <2>3. edits' \in Nat
    BY DEF MakeInstance, TypeOK
  <2> QED
    BY <1>2, <2>1, <2>2, <2>3 DEF MakeInstance, TypeOK, graphVars, loopVars, flags, callVars
<1>4. Whole'
  <2>1. \A v \in graph', w \in Vertices : Instance[v] = Instance[w] => w \in graph'
    BY <1>1 DEF MakeInstance, Whole, PinsOf, TypeOK, callVars
  <2> QED
    BY <1>2, <2>1 DEF MakeInstance, Whole, callVars
<1>5. Calls'
  <2>1. stack = <<>> /\ stack' = <<>> /\ Len(stack') = 0 /\ Len(stack) = 0
    BY DEF MakeInstance, Calls, callVars
  <2>2. \A v \in Vertices : color'[v] # "gray"
    BY <2>1 DEF MakeInstance, Calls
  <2> QED
    BY <2>1, <2>2 DEF MakeInstance, Calls, callVars
<1>6. LoopsClosed'
  BY DEF MakeInstance, LoopsClosed, Closed, loopVars
<1> QED
  BY <1>3, <1>4, <1>5, <1>6

LEMMA DeleteEdgesKeeps ==
  ASSUME LevelizeInv, NEW old \in SUBSET edges, DeleteEdges(old)
  PROVE  /\ LoopsClosed'
         /\ levelized' \in BOOLEAN /\ valid' \in BOOLEAN
         /\ roots' \subseteq roots
         /\ from' \subseteq graph
         /\ disabledLoop' \cup loopEdges' \subseteq edges \ old
<1> USE DEF LevelizeInv
<1>1. {e[2] : e \in old} \subseteq graph
  BY EdgeFacts DEF Whole, TypeOK
<1>2. CASE old \cap loopEdges = {}
  BY <1>1, <1>2 DEF DeleteEdges, RelevelizeFrom, loopVars, TypeOK, LoopsClosed, Closed
<1>3. CASE old \cap loopEdges # {}
  BY <1>1, <1>3 DEF DeleteEdges, Clear, TypeOK, LoopsClosed, Closed
<1> QED
  BY <1>2, <1>3

LEMMA ConnectPinInv ==
  ASSUME LevelizeInv, NEW v \in Vertices, NEW new \in SUBSET Wires, ConnectPin(v, new)
  PROVE  LevelizeInv'
<1> USE DEF LevelizeInv
<1>1. new \subseteq AllEdges /\ new \subseteq graph \X graph
  <2>1. new \subseteq AllEdges
    BY DEF AllEdges
  <2>2. \A e \in new : {e[1], e[2]} \subseteq graph
    BY DEF ConnectPin, TypeOK
  <2> QED
    BY <2>1, <2>2, EdgeFacts
<1>2. edges' \subseteq AllEdges /\ edges \subseteq edges' /\ edges' \subseteq graph \X graph
  BY <1>1 DEF ConnectPin, Whole, TypeOK
<1>3. {e[1] : e \in {f \in edges' : f[2] = v}} \subseteq graph
  BY <1>2
<1>4. /\ from' \subseteq graph /\ valid' = FALSE
      /\ UNCHANGED <<levelized, roots, loopVars>>
  BY <1>3 DEF ConnectPin, InvalidFrom, RelevelizeFrom, TypeOK
<1>5. TypeOK'
  <2>1. /\ connected' \subseteq graph /\ graph' = graph /\ blocked' = blocked
        /\ edits' \in Nat
        /\ UNCHANGED <<level, color, maxLevel, latchDtoQ, phase, full, work, stack, todo>>
    BY DEF ConnectPin, Edit, TypeOK, callVars
  <2>2. disabledLoop' \cup loopEdges' \subseteq edges' /\ roots' \subseteq graph
    BY <1>2, <1>4 DEF TypeOK, loopVars
  <2> QED
    BY <1>2, <1>4, <2>1, <2>2 DEF TypeOK
<1>6. Whole'
  BY <1>2 DEF ConnectPin, Edit, Whole, callVars
<1>7. Calls'
  BY CallsUnbegun DEF ConnectPin, Edit, callVars
<1>8. LoopsClosed'
  BY <1>4 DEF LoopsClosed, Closed, loopVars
<1> QED
  BY <1>5, <1>6, <1>7, <1>8

LEMMA DisconnectPinInv ==
  ASSUME LevelizeInv, NEW v \in Vertices, DisconnectPin(v)
  PROVE  LevelizeInv'
<1> USE DEF LevelizeInv
<1>1. /\ LoopsClosed'
      /\ levelized' \in BOOLEAN /\ valid' \in BOOLEAN
      /\ roots' \subseteq roots
      /\ from' \subseteq graph
      /\ disabledLoop' \cup loopEdges' \subseteq edges'
  <2>1. CASE WiresOf(v) = {}
    BY <2>1 DEF DisconnectPin, TypeOK, LoopsClosed, Closed, loopVars
  <2>2. CASE WiresOf(v) # {}
    <3>1. DeleteEdges(WiresOf(v)) /\ WiresOf(v) \in SUBSET edges
      BY <2>2 DEF DisconnectPin, WiresOf
    <3> QED
      BY <3>1, DeleteEdgesKeeps DEF DisconnectPin
  <2> QED
    BY <2>1, <2>2
<1>2. TypeOK'
  BY <1>1 DEF DisconnectPin, Edit, TypeOK, callVars
<1>3. Whole'
  BY DEF DisconnectPin, Edit, Whole, callVars
<1>4. Calls'
  BY CallsUnbegun DEF DisconnectPin, Edit, callVars
<1> QED
  BY <1>1, <1>2, <1>3, <1>4

LEMMA ReplaceCellInv ==
  ASSUME LevelizeInv, NEW i \in Instances, NEW new \in SUBSET Gates, ReplaceCell(i, new)
  PROVE  LevelizeInv'
<1> USE DEF LevelizeInv
<1> DEFINE old == edges \cap GatesOf(i)
<1>1. PICK e \in old : TRUE
  BY DEF ReplaceCell
<1>2. PinsOf(i) \subseteq graph
  <2>1. e[1] \in graph /\ Instance[e[1]] = i
    BY <1>1 DEF Whole, GatesOf
  <2> QED
    BY <2>1 DEF Whole, PinsOf, ReplaceCell, Edit
<1>3. new \subseteq AllEdges /\ new \subseteq graph \X graph
  <2>1. \A f \in new : f \in AllEdges /\ f[1] \in PinsOf(i) /\ f[2] \in PinsOf(i)
    BY LevelizeAssumption, EdgeFacts DEF ReplaceCell, GatesOf, PinsOf, AllEdges
  <2> QED
    BY <1>2, <2>1, EdgeFacts
<1>4. /\ LoopsClosed'
      /\ levelized' \in BOOLEAN /\ valid' \in BOOLEAN
      /\ roots' \subseteq roots
      /\ from' \subseteq graph
      /\ disabledLoop' \cup loopEdges' \subseteq edges \ old
  <2>1. DeleteEdges(old) /\ old \in SUBSET edges
    BY DEF ReplaceCell
  <2> HIDE DEF old
  <2> QED
    BY <2>1, DeleteEdgesKeeps
<1>5. edges' = (edges \ old) \cup new /\ blocked' = blocked \ old
  BY DEF ReplaceCell
<1> HIDE DEF old
<1>6. TypeOK'
  BY <1>3, <1>4, <1>5 DEF ReplaceCell, Edit, TypeOK, callVars
<1>7. Whole'
  BY <1>3, <1>5 DEF ReplaceCell, Edit, Whole, callVars
<1>8. Calls'
  BY CallsUnbegun DEF ReplaceCell, Edit, callVars
<1> QED
  BY <1>4, <1>6, <1>7, <1>8

LEMMA ConstrainInv ==
  ASSUME LevelizeInv, NEW e \in AllEdges, Constrain(e) \/ SimEdgeChange(e)
  PROVE  LevelizeInv'
<1> USE DEF LevelizeInv
<1>1. /\ Edit /\ UNCHANGED <<graph, edges, connected>> /\ blocked' \subseteq AllEdges
      /\ \/ UNCHANGED <<roots, from, loopVars, flags>>
         \/ Invalid
  BY DEF Constrain, SimEdgeChange, TypeOK
<1>2. /\ LoopsClosed'
      /\ levelized' \in BOOLEAN /\ valid' \in BOOLEAN
      /\ roots' \subseteq roots /\ from' \subseteq from
      /\ disabledLoop' \cup loopEdges' \subseteq edges
  BY <1>1 DEF Invalid, Clear, TypeOK, LoopsClosed, Closed, loopVars, flags
<1>3. TypeOK'
  BY <1>1, <1>2 DEF Edit, TypeOK, callVars
<1>4. Whole'
  BY <1>1 DEF Edit, Whole, callVars
<1>5. Calls'
  BY <1>1, CallsUnbegun DEF Edit, callVars
<1> QED
  BY <1>2, <1>3, <1>4, <1>5

LEMMA DeleteInstanceInv ==
  ASSUME LevelizeInv, NEW i \in Instances, DeleteInstance(i)
  PROVE  LevelizeInv'
<1> USE DEF LevelizeInv
<1>1. TypeOK'
  BY DEF DeleteInstance, TypeOK, Phases, PinsOf, graphVars, loopVars, flags
<1>2. Whole'
  BY DEF DeleteInstance, Whole, PinsOf, graphVars, TypeOK
<1>3. Calls'
  BY CallsUnbegun DEF DeleteInstance
<1>4. LoopsClosed'
  BY DEF DeleteInstance, LoopsClosed, Closed, loopVars
<1> QED
  BY <1>1, <1>2, <1>3, <1>4

(* No edge of a pin is part of a loop unless a wire of it is.              *)
LEMMA LoopsOfPin ==
  ASSUME LevelizeInv, NEW v \in Vertices, WiresOf(v) \cap loopEdges = {}
  PROVE  loopEdges \cap (InEdges(v) \cup OutEdges(v)) = {}
<1> SUFFICES ASSUME NEW e \in loopEdges, v \in {e[1], e[2]} PROVE FALSE
  BY DEF InEdges, OutEdges
<1>1. loopEdges \subseteq edges /\ edges \subseteq AllEdges
  BY DEF LevelizeInv, TypeOK
<1>2. \A f \in loopEdges : v \in {f[1], f[2]} => f \notin Wires
  BY <1>1 DEF WiresOf
<1>3. PICK f \in loopEdges : f[1] = e[2]
  BY DEF LevelizeInv, LoopsClosed, Closed
<1>4. PICK g \in loopEdges : g[2] = e[1]
  BY DEF LevelizeInv, LoopsClosed, Closed
<1>5. CASE v = e[1]
  BY <1>1, <1>2, <1>4, <1>5, EdgeFacts
<1>6. CASE v = e[2]
  BY <1>1, <1>2, <1>3, <1>6, EdgeFacts
<1> QED
  BY <1>5, <1>6

LEMMA DeletePinInv ==
  ASSUME LevelizeInv, NEW v \in Vertices, DeletePin(v)
  PROVE  LevelizeInv'
<1> USE DEF LevelizeInv
<1> DEFINE after == {e[2] : e \in WiresOf(v)} \ {v}
<1>1. after \subseteq graph'
  BY DEF WiresOf, Whole, DeletePin
<1>2. edges' \subseteq edges /\ edges' \subseteq graph' \X graph'
  BY EdgeFacts DEF DeletePin, Whole, InEdges, OutEdges, TypeOK
<1>3. /\ LoopsClosed'
      /\ levelized' \in BOOLEAN /\ valid' \in BOOLEAN
      /\ roots' \subseteq graph' /\ from' \subseteq graph'
      /\ disabledLoop' \cup loopEdges' \subseteq edges'
  <2>1. CASE WiresOf(v) \cap loopEdges = {}
    <3>1. loopEdges \cap (InEdges(v) \cup OutEdges(v)) = {}
      BY <2>1, LoopsOfPin
    <3>2. /\ DeleteVertexBefore(v, after)
          /\ valid' = (valid /\ after = {}) /\ UNCHANGED <<levelized, loopVars>>
      BY <2>1 DEF DeletePin
    <3>3. loopEdges' = loopEdges /\ disabledLoop' = disabledLoop /\ loopEdges' \subseteq edges'
      BY <3>1, <3>2 DEF DeletePin, TypeOK, loopVars
    <3>4. LoopsClosed'
      BY <3>3 DEF LoopsClosed, Closed
    <3>5. roots' \subseteq graph' /\ from' \subseteq graph'
      BY <1>1, <3>2 DEF DeleteVertexBefore, DeletePin, TypeOK
    <3>6. levelized' \in BOOLEAN /\ valid' \in BOOLEAN
      BY <3>2 DEF TypeOK
    <3> QED
      BY <3>3, <3>4, <3>5, <3>6 DEF LoopsClosed
  <2>2. CASE WiresOf(v) \cap loopEdges # {}
    <3>1. Clear /\ from' \in SUBSET after
      BY <2>2 DEF DeletePin
    <3> HIDE DEF after
    <3> QED
      BY <1>1, <3>1 DEF Clear, LoopsClosed, Closed
  <2> QED
    BY <2>1, <2>2
<1>4. TypeOK'
  BY <1>2, <1>3 DEF DeletePin, TypeOK, Phases
<1>5. Whole'
  BY <1>2 DEF DeletePin, Whole, TypeOK
<1>6. Calls'
  BY CallsUnbegun DEF DeletePin
<1> QED
  BY <1>3, <1>4, <1>5, <1>6

------------------------------------------------------------------------------
(* The searches.  The graph does not change, and what is added to roots_   *)
(* is taken from it.                                                       *)

(* A call on a vertex of the graph, first or from the one on top.          *)
LEMMA EnterKeeps ==
  ASSUME LevelizeInv, NEW v \in Vertices, NEW l \in Nat,
         NEW rest \in [Vertices -> SUBSET AllEdges],
         \A u \in Vertices : \A e \in rest[u] : e[1] = u,
         stack # <<>> => <<stack[1], v>> \in edges,
         color' = [color EXCEPT ![v] = "gray"],
         level' = [level EXCEPT ![v] = l],
         maxLevel' = Deeper(l),
         stack' = <<v>> \o stack,
         todo' = [rest EXCEPT ![v] = IF SearchFrom(v) THEN OutEdges(v) ELSE {}],
         edges' = edges,
         phase' \in {"roots", "cycles", "relevelize"}
  PROVE  /\ Calls'
         /\ level' \in [Vertices -> Nat] /\ color' \in [Vertices -> Colors]
         /\ maxLevel' \in Nat
         /\ stack' \in Seq(Vertices)
         /\ todo' \in [Vertices -> SUBSET AllEdges]
<1>1. /\ stack \in Seq(Vertices) /\ edges \subseteq AllEdges
      /\ level \in [Vertices -> Nat] /\ color \in [Vertices -> Colors]
      /\ maxLevel \in Nat
  BY DEF LevelizeInv, TypeOK
<1>2. /\ stack' \in Seq(Vertices) /\ Len(stack') = Len(stack) + 1
      /\ Len(stack) \in Nat
      /\ stack'[1] = v /\ \A i \in 1 .. Len(stack) : stack'[i + 1] = stack[i]
  BY <1>1, Prepend
<1>3. OutEdges(v) \subseteq AllEdges /\ \A e \in OutEdges(v) : e[1] = v
  BY <1>1 DEF OutEdges
<1>4. todo' \in [Vertices -> SUBSET AllEdges]
  BY <1>3
<1>5. \A u \in Vertices : \A e \in todo'[u] : e \in AllEdges /\ e[1] = u
  BY <1>3, <1>4
<1>6. ASSUME NEW i \in 1 .. Len(stack') - 1
      PROVE  <<stack'[i + 1], stack'[i]>> \in edges'
  <2>1. CASE i = 1
    <3>1. stack # <<>> /\ 1 \in 1 .. Len(stack)
      BY <1>1, <1>2, <1>6
    <3> QED
      BY <1>2, <2>1, <3>1
  <2>2. CASE i # 1
    <3>1. i - 1 \in 1 .. Len(stack) - 1 /\ i \in 1 .. Len(stack) /\ i - 1 \in 1 .. Len(stack)
      BY <1>2, <1>6, <2>2
    <3>2. stack'[i + 1] = stack[i]
      BY <1>2, <3>1
    <3>3. stack'[(i - 1) + 1] = stack[i - 1]
      BY <1>2, <3>1
    <3>4. <<stack[(i - 1) + 1], stack[i - 1]>> \in edges
      BY <3>1 DEF LevelizeInv, Calls
    <3>5. (i - 1) + 1 = i
      BY <1>2, <1>6
    <3> QED
      BY <3>2, <3>3, <3>4, <3>5
  <2> QED
    BY <2>1, <2>2
<1>7. ASSUME NEW u \in Vertices, color'[u] = "gray"
      PROVE  \E i \in 1 .. Len(stack') : stack'[i] = u
  <2>1. CASE u = v
    <3>1. 1 \in 1 .. Len(stack')
      BY <1>2
    <3> QED
      BY <1>2, <2>1, <3>1
  <2>2. CASE u # v
    <3>1. color[u] = "gray"
      BY <1>1, <1>7, <2>2
    <3>2. PICK i \in 1 .. Len(stack) : stack[i] = u
      BY <3>1 DEF LevelizeInv, Calls
    <3>3. i + 1 \in 1 .. Len(stack') /\ stack'[i + 1] = u
      BY <1>2, <3>2
    <3> QED
      BY <3>3
  <2> QED
    BY <2>1, <2>2
<1>8. ASSUME NEW i \in 1 .. Len(stack')
      PROVE  color'[stack'[i]] # "white"
  <2>1. CASE i = 1
    BY <1>1, <1>2, <2>1
  <2>2. CASE i # 1
    <3>1. i - 1 \in 1 .. Len(stack)
      BY <1>2, <1>8, <2>2
    <3>2. stack'[(i - 1) + 1] = stack[i - 1] /\ stack[i - 1] \in Vertices
      BY <1>1, <1>2, <3>1
    <3>3. (i - 1) + 1 = i
      BY <1>2, <1>8
    <3>4. color[stack[i - 1]] # "white"
      BY <3>1 DEF LevelizeInv, Calls
    <3> QED
      BY <1>1, <3>2, <3>3, <3>4
  <2> QED
    BY <2>1, <2>2
<1>9. Calls'
  BY <1>5, <1>6, <1>7, <1>8 DEF Calls
<1>10. level' \in [Vertices -> Nat] /\ maxLevel' \in Nat
  BY <1>1 DEF Deeper
<1>11. color' \in [Vertices -> Colors]
  BY <1>1 DEF Colors
<1> QED
  BY <1>2, <1>4, <1>9, <1>10, <1>11

(* The edge to a gray vertex and the active calls after it are a loop.     *)
LEMMA LoopThroughCloses ==
  ASSUME LevelizeInv, stack # <<>>, NEW e \in edges, e[1] = Top, color[e[2]] = "gray"
  PROVE  /\ e \in LoopThrough(e)
         /\ LoopThrough(e) \subseteq edges
         /\ Closed(LoopThrough(e))
<1> DEFINE hops == {j \in 1 .. Len(stack) - 1 :
                      \E k \in j + 1 .. Len(stack) : stack[k] = e[2]}
           hop(i) == <<stack[i + 1], stack[i]>>
<1>1. /\ stack \in Seq(Vertices) /\ Len(stack) \in Nat /\ Len(stack) >= 1
      /\ Top = stack[1]
  BY Pop DEF LevelizeInv, TypeOK, Top
<1>2. e \in AllEdges
  BY DEF LevelizeInv, TypeOK
<1>3. e[1] = stack[1] /\ e[2] # stack[1] /\ e[2] \in Vertices
  BY <1>1, <1>2, EdgeFacts
<1>4. PICK k \in 1 .. Len(stack) : stack[k] = e[2]
  BY <1>3 DEF LevelizeInv, Calls
<1>5. k \in Nat /\ k >= 2 /\ k <= Len(stack)
  BY <1>1, <1>3, <1>4
<1>6. \A i \in hops : hop(i) \in edges
  BY DEF LevelizeInv, Calls
<1>7. LoopThrough(e) = {e} \cup {hop(i) : i \in hops}
  BY DEF LoopThrough
<1>8. 1 \in hops /\ k - 1 \in hops /\ (k - 1) + 1 = k
  BY <1>1, <1>4, <1>5
<1>9. \A i \in hops : i \in Nat /\ i >= 1 /\ i + 1 <= Len(stack)
  BY <1>1
<1>10. ASSUME NEW i \in hops, i # 1
       PROVE  i - 1 \in hops /\ (i - 1) + 1 = i
  <2>1. PICK m \in i + 1 .. Len(stack) : stack[m] = e[2]
    OBVIOUS
  <2>2. i - 1 \in 1 .. Len(stack) - 1 /\ m \in (i - 1) + 1 .. Len(stack)
    BY <1>1, <1>9, <1>10, <2>1
  <2> QED
    BY <1>9, <2>1, <2>2
<1>11. ASSUME NEW i \in hops, stack[i + 1] # e[2]
       PROVE  i + 1 \in hops
  <2>1. PICK m \in i + 1 .. Len(stack) : stack[m] = e[2]
    OBVIOUS
  <2>2. m # i + 1
    BY <1>11, <2>1
  <2>3. i + 1 \in 1 .. Len(stack) - 1 /\ m \in (i + 1) + 1 .. Len(stack)
    BY <1>1, <1>9, <2>1, <2>2
  <2> QED
    BY <2>1, <2>3
<1> HIDE DEF hops
<1>12. ASSUME NEW f \in LoopThrough(e)
       PROVE  (\E g \in LoopThrough(e) : g[1] = f[2]) /\ (\E g \in LoopThrough(e) : g[2] = f[1])
  <2>1. CASE f = e
    <3>1. hop(k - 1)[1] = e[2] /\ hop(k - 1) \in LoopThrough(e)
      BY <1>4, <1>7, <1>8
    <3>2. hop(1)[2] = e[1] /\ hop(1) \in LoopThrough(e)
      BY <1>3, <1>7, <1>8
    <3> QED
      BY <2>1, <3>1, <3>2
  <2>2. ASSUME NEW i \in hops, f = hop(i)
        PROVE  (\E g \in LoopThrough(e) : g[1] = f[2])
               /\ (\E g \in LoopThrough(e) : g[2] = f[1])
    <3>1. f[1] = stack[i + 1] /\ f[2] = stack[i]
      BY <2>2
    <3>2. \E g \in LoopThrough(e) : g[1] = f[2]
      <4>1. CASE i = 1
        BY <1>3, <1>7, <3>1, <4>1
      <4>2. CASE i # 1
        <5>1. hop(i - 1)[1] = stack[i] /\ hop(i - 1) \in LoopThrough(e)
          BY <1>7, <1>10, <4>2
        <5> QED
          BY <3>1, <5>1
      <4> QED
        BY <4>1, <4>2
    <3>3. \E g \in LoopThrough(e) : g[2] = f[1]
      <4>1. CASE stack[i + 1] = e[2]
        BY <1>7, <3>1, <4>1
      <4>2. CASE stack[i + 1] # e[2]
        <5>1. hop(i + 1)[2] = stack[i + 1] /\ hop(i + 1) \in LoopThrough(e)
          BY <1>7, <1>11, <4>2
        <5> QED
          BY <3>1, <5>1
      <4> QED
        BY <4>1, <4>2
    <3> QED
      BY <3>2, <3>3
  <2> QED
    BY <1>7, <2>1, <2>2
<1>13. e \in LoopThrough(e) /\ LoopThrough(e) \subseteq edges
  BY <1>6, <1>7
<1> QED
  BY <1>12, <1>13 DEF Closed

LEMMA VisitEdgeInv ==
  ASSUME LevelizeInv, NEW e \in AllEdges, VisitEdge(e)
  PROVE  LevelizeInv'
<1> DEFINE v == Top
           w == e[2]
           l == level[v] + Space
           taken == e \in Searched
           rest == [todo EXCEPT ![v] = @ \ {e}]
<1>1. /\ stack # <<>> /\ e \in todo[v]
      /\ UNCHANGED <<graphVars, roots, from, flags, phase, full, work, edits>>
  BY DEF VisitEdge
<1>2. v \in Vertices /\ v = stack[1] /\ Len(stack) \in Nat /\ Len(stack) >= 1
  BY <1>1, Pop DEF LevelizeInv, TypeOK, Top
<1>3. phase \in {"roots", "cycles", "relevelize"}
  BY <1>1 DEF LevelizeInv, Calls
<1>4. e[1] = v /\ w \in Vertices /\ e = <<v, w>>
  BY <1>1, <1>2, EdgeFacts DEF LevelizeInv, Calls
<1>5. taken => e \in edges
  BY DEF Searched, Enabled
<1>6. l \in Nat
  BY <1>2, LevelizeAssumption DEF LevelizeInv, TypeOK, Space
<1>7. /\ rest \in [Vertices -> SUBSET AllEdges]
      /\ \A u \in Vertices : \A f \in rest[u] : f \in AllEdges /\ f[1] = u
  BY <1>2 DEF LevelizeInv, TypeOK, Calls
<1>8. /\ Calls'
      /\ level' \in [Vertices -> Nat] /\ color' \in [Vertices -> Colors]
      /\ maxLevel' \in Nat
      /\ stack' \in Seq(Vertices)
      /\ todo' \in [Vertices -> SUBSET AllEdges]
  <2>1. CASE taken /\ color[w] # "gray" /\ Follow(w, l)
    <3>1. /\ color' = [color EXCEPT ![w] = "gray"]
          /\ level' = [level EXCEPT ![w] = l]
          /\ maxLevel' = Deeper(l)
          /\ stack' = <<w>> \o stack
          /\ todo' = [todo EXCEPT ![v] = @ \ {e},
                                  ![w] = IF SearchFrom(w) THEN OutEdges(w) ELSE {}]
      BY <2>1 DEF VisitEdge
    <3>2. todo' = [rest EXCEPT ![w] = IF SearchFrom(w) THEN OutEdges(w) ELSE {}]
      BY <3>1
    <3>3. <<stack[1], w>> \in edges
      BY <1>2, <1>4, <1>5, <2>1
    <3>4. edges' = edges /\ phase' \in {"roots", "cycles", "relevelize"}
      BY <1>1, <1>3 DEF graphVars
    <3> HIDE DEF w, l, rest
    <3> QED
      BY <1>4, <1>6, <1>7, <3>1, <3>2, <3>3, <3>4, EnterKeeps
  <2>2. CASE ~ (taken /\ color[w] # "gray" /\ Follow(w, l))
    <3>1. todo' = rest /\ UNCHANGED <<color, level, maxLevel, stack>>
      BY <2>2 DEF VisitEdge
    <3> HIDE DEF rest
    <3> QED
      BY <1>1, <1>3, <1>7, <3>1 DEF LevelizeInv, TypeOK, Calls, graphVars
  <2> QED
    BY <2>1, <2>2
<1>9. LoopsClosed' /\ disabledLoop' \cup loopEdges' \subseteq edges
  <2>1. CASE taken /\ color[w] = "gray"
    <3>1. /\ disabledLoop' = disabledLoop \cup {e}
          /\ loopEdges' = loopEdges \cup LoopThrough(e)
      BY <2>1 DEF VisitEdge
    <3>2. /\ e \in LoopThrough(e) /\ LoopThrough(e) \subseteq edges
          /\ Closed(LoopThrough(e))
      BY <1>1, <1>4, <1>5, <2>1, LoopThroughCloses
    <3>3. Closed(loopEdges')
      BY <3>1, <3>2 DEF LevelizeInv, LoopsClosed, Closed
    <3> QED
      BY <3>1, <3>2, <3>3 DEF LevelizeInv, LoopsClosed, TypeOK
  <2>2. CASE ~ (taken /\ color[w] = "gray")
    BY <2>2 DEF VisitEdge, LevelizeInv, LoopsClosed, Closed, TypeOK, loopVars
  <2> QED
    BY <2>1, <2>2
<1>10. latchDtoQ' \subseteq LatchEdges
  BY DEF VisitEdge, LevelizeInv, TypeOK
<1>11. TypeOK'
  BY <1>1, <1>8, <1>9, <1>10 DEF LevelizeInv, TypeOK, graphVars, flags
<1>12. Whole'
  BY <1>1 DEF LevelizeInv, Whole, graphVars
<1> QED
  BY <1>8, <1>9, <1>11, <1>12 DEF LevelizeInv

LEMMA LeaveInv ==
  ASSUME LevelizeInv, Leave
  PROVE  LevelizeInv'
<1> USE DEF LevelizeInv
<1>1. /\ stack # <<>> /\ stack \in Seq(Vertices)
      /\ color' = [color EXCEPT ![Top] = "black"] /\ stack' = Tail(stack)
      /\ color \in [Vertices -> Colors]
      /\ UNCHANGED <<graphVars, level, maxLevel, roots, from, loopVars, latchDtoQ,
                     flags, phase, full, work, todo, edits>>
  BY DEF Leave, TypeOK
<1>2. /\ Top \in Vertices /\ Top = stack[1]
      /\ stack' \in Seq(Vertices)
      /\ Len(stack) \in Nat /\ Len(stack) >= 1 /\ Len(stack') = Len(stack) - 1
      /\ \A i \in 1 .. Len(stack) - 1 : stack'[i] = stack[i + 1]
  BY <1>1, Pop DEF Top
<1>3. phase \in {"roots", "cycles", "relevelize"}
  BY <1>1 DEF Calls
<1>4. color' \in [Vertices -> Colors]
  BY <1>1 DEF Colors
<1>5. ASSUME NEW i \in 1 .. Len(stack') - 1
      PROVE  <<stack'[i + 1], stack'[i]>> \in edges
  <2>1. i + 1 \in 1 .. Len(stack) - 1 /\ i \in 1 .. Len(stack) - 1
    BY <1>2, <1>5
  <2> QED
    BY <1>2, <2>1 DEF Calls
<1>6. ASSUME NEW u \in Vertices, color'[u] = "gray"
      PROVE  \E i \in 1 .. Len(stack') : stack'[i] = u
  <2>1. u # Top /\ color[u] = "gray"
    BY <1>1, <1>2, <1>6
  <2>2. PICK i \in 1 .. Len(stack) : stack[i] = u
    BY <2>1 DEF Calls
  <2>3. i # 1
    BY <1>2, <2>1, <2>2
  <2>4. i - 1 \in 1 .. Len(stack') /\ i - 1 \in 1 .. Len(stack) - 1 /\ (i - 1) + 1 = i
    BY <1>2, <2>2, <2>3
  <2>5. stack'[i - 1] = u
    BY <1>2, <2>2, <2>4
  <2> QED
    BY <2>4, <2>5
<1>7. ASSUME NEW i \in 1 .. Len(stack')
      PROVE  color'[stack'[i]] # "white"
  <2>1. i \in 1 .. Len(stack) - 1 /\ i + 1 \in 1 .. Len(stack)
    BY <1>2, <1>7
  <2>2. stack'[i] = stack[i + 1] /\ stack[i + 1] \in Vertices /\ color[stack[i + 1]] # "white"
    BY <1>1, <1>2, <2>1 DEF Calls
  <2> QED
    BY <1>1, <2>2
<1>8. Calls'
  BY <1>1, <1>3, <1>5, <1>6, <1>7 DEF Calls, graphVars
<1>9. TypeOK'
  BY <1>1, <1>2, <1>4 DEF TypeOK, graphVars, loopVars, flags
<1>10. Whole' /\ LoopsClosed'
  BY <1>1 DEF Whole, LoopsClosed, Closed, graphVars, loopVars
<1> QED
  BY <1>8, <1>9, <1>10

(* A call from levelize or relevelize, on an empty stack.                  *)
LEMMA EnterFirst ==
  ASSUME LevelizeInv, NEW v \in Vertices, NEW l \in Nat, stack = <<>>,
         Enter(v, l), edges' = edges,
         phase' \in {"roots", "cycles", "relevelize"}
  PROVE  /\ Calls'
         /\ level' \in [Vertices -> Nat] /\ color' \in [Vertices -> Colors]
         /\ maxLevel' \in Nat
         /\ stack' \in Seq(Vertices)
         /\ todo' \in [Vertices -> SUBSET AllEdges]
<1>1. todo \in [Vertices -> SUBSET AllEdges]
      /\ \A u \in Vertices : \A e \in todo[u] : e[1] = u
  BY DEF LevelizeInv, TypeOK, Calls
<1> QED
  BY <1>1, EnterKeeps DEF Enter

LEMMA StartLevelizeInv ==
  ASSUME LevelizeInv, StartLevelize
  PROVE  LevelizeInv'
<1> USE DEF LevelizeInv
<1>1. roots' \subseteq graph /\ work' = roots' /\ graph \subseteq Vertices
  BY DEF StartLevelize, TypeOK
<1>2. color' \in [Vertices -> Colors]
  BY DEF StartLevelize, TypeOK, Colors
<1>3. level' \in [Vertices -> Nat]
  BY DEF StartLevelize, TypeOK
<1>4. TypeOK'
  BY <1>1, <1>2, <1>3 DEF StartLevelize, TypeOK, Phases, graphVars, flags
<1>5. Whole'
  BY <1>1 DEF StartLevelize, Whole, graphVars
<1>6. Calls'
  <2>1. stack = <<>> /\ stack' = <<>> /\ Len(stack) = 0 /\ Len(stack') = 0
    BY DEF StartLevelize, Calls
  <2>2. \A u \in Vertices : color[u] # "gray"
    BY <2>1 DEF Calls
  <2>3. \A u \in Vertices : color'[u] # "gray"
    BY <2>2 DEF StartLevelize
  <2> QED
    BY <2>1, <2>3 DEF StartLevelize, Calls
<1>7. LoopsClosed'
  BY DEF StartLevelize, LoopsClosed, Closed
<1> QED
  BY <1>4, <1>5, <1>6, <1>7

LEMMA VisitRootInv ==
  ASSUME LevelizeInv, NEW v \in Vertices, VisitRoot(v)
  PROVE  LevelizeInv'
<1> USE DEF LevelizeInv
<1>1. /\ stack = <<>> /\ Enter(v, 0) /\ phase = "roots" /\ work' = work \ {v}
      /\ UNCHANGED <<graphVars, roots, from, loopVars, latchDtoQ, flags, phase,
                     full, edits>>
  BY DEF VisitRoot
<1>2. edges' = edges
  BY <1>1 DEF graphVars
<1>3. /\ Calls'
      /\ level' \in [Vertices -> Nat] /\ color' \in [Vertices -> Colors]
      /\ maxLevel' \in Nat /\ stack' \in Seq(Vertices)
      /\ todo' \in [Vertices -> SUBSET AllEdges]
  BY <1>1, <1>2, EnterFirst
<1>4. TypeOK'
  BY <1>1, <1>3 DEF TypeOK, graphVars, loopVars, flags
<1>5. Whole' /\ LoopsClosed'
  BY <1>1 DEF Whole, LoopsClosed, Closed, graphVars, loopVars
<1> QED
  BY <1>3, <1>4, <1>5

LEMMA VisitCycleInv ==
  ASSUME LevelizeInv, NEW v \in Vertices, VisitCycle(v)
  PROVE  LevelizeInv'
<1> USE DEF LevelizeInv
<1>1. /\ stack = <<>> /\ phase = "cycles" /\ v \in work /\ work' = work \ {v}
      /\ UNCHANGED <<graphVars, from, loopVars, latchDtoQ, flags, phase, full,
                     edits>>
  BY DEF VisitCycle
<1>2. edges' = edges
  BY <1>1 DEF graphVars
<1>3. /\ Calls'
      /\ level' \in [Vertices -> Nat] /\ color' \in [Vertices -> Colors]
      /\ maxLevel' \in Nat /\ stack' \in Seq(Vertices)
      /\ todo' \in [Vertices -> SUBSET AllEdges]
  <2>1. CASE color[v] = "white"
    <3>1. Enter(v, 0)
      BY <2>1 DEF VisitCycle
    <3> QED
      BY <1>1, <1>2, <3>1, EnterFirst
  <2>2. CASE color[v] # "white"
    BY <1>1, <1>2, <2>2 DEF VisitCycle, TypeOK, Calls
  <2> QED
    BY <2>1, <2>2
<1>4. roots' \subseteq graph
  BY <1>1 DEF VisitCycle, Whole, TypeOK
<1>5. TypeOK'
  BY <1>1, <1>3, <1>4 DEF TypeOK, graphVars, loopVars, flags
<1>6. Whole' /\ LoopsClosed'
  BY <1>1 DEF Whole, LoopsClosed, Closed, graphVars, loopVars
<1> QED
  BY <1>3, <1>5, <1>6

LEMMA RevisitFromInv ==
  ASSUME LevelizeInv, NEW v \in Vertices, RevisitFrom(v)
  PROVE  LevelizeInv'
<1> USE DEF LevelizeInv
<1>1. /\ stack = <<>> /\ phase = "relevelize" /\ v \in work /\ work' = work \ {v}
      /\ UNCHANGED <<graphVars, from, loopVars, latchDtoQ, flags, phase, full,
                     edits>>
  BY DEF RevisitFrom
<1>2. edges' = edges
  BY <1>1 DEF graphVars
<1>3. /\ Calls'
      /\ level' \in [Vertices -> Nat] /\ color' \in [Vertices -> Colors]
      /\ maxLevel' \in Nat /\ stack' \in Seq(Vertices)
      /\ todo' \in [Vertices -> SUBSET AllEdges]
  <2>1. CASE SearchFrom(v)
    <3> DEFINE l == IF IsRoot(v) THEN 0 ELSE level[v]
    <3>1. Enter(v, l) /\ l \in Nat
      BY <2>1 DEF RevisitFrom, TypeOK
    <3> HIDE DEF l
    <3> QED
      BY <1>1, <1>2, <3>1, EnterFirst
  <2>2. CASE ~ SearchFrom(v)
    BY <1>1, <1>2, <2>2 DEF RevisitFrom, TypeOK, Calls
  <2> QED
    BY <2>1, <2>2
<1>4. roots' \subseteq graph
  BY <1>1 DEF RevisitFrom, Rooted, Whole, TypeOK
<1>5. TypeOK'
  BY <1>1, <1>3, <1>4 DEF TypeOK, graphVars, loopVars, flags
<1>6. Whole' /\ LoopsClosed'
  BY <1>1 DEF Whole, LoopsClosed, Closed, graphVars, loopVars
<1> QED
  BY <1>3, <1>5, <1>6

(* The steps between the phases and the repair of a latch.                 *)
LEMMA PhasesInv ==
  ASSUME LevelizeInv,
         \/ RootsDone \/ StartCycles \/ CyclesDone
         \/ StartRelevelize \/ RelevelizeDone \/ LatchesDone
         \/ \E e \in AllEdges : EnsureLatchLevel(e)
  PROVE  LevelizeInv'
<1> USE DEF LevelizeInv
<1>1. /\ UNCHANGED <<graphVars, color, roots, loopVars, stack, todo, edits>>
      /\ from' \subseteq from /\ latchDtoQ' \subseteq latchDtoQ
      /\ levelized' \in BOOLEAN /\ valid' \in BOOLEAN
      /\ maxLevel' = maxLevel /\ full' \in BOOLEAN
      /\ phase' \in Phases /\ phase' # "delete"
      /\ work' \subseteq graph
      /\ phase # "delete"
  BY DEF RootsDone, StartCycles, CyclesDone, StartRelevelize, RelevelizeDone, LatchesDone,
         EnsureLatchLevel, TypeOK, Whole, Phases, flags, callVars
<1>2. level' \in [Vertices -> Nat]
  <2>1. CASE \E e \in AllEdges : EnsureLatchLevel(e)
    <3>1. PICK e \in AllEdges : EnsureLatchLevel(e)
      BY <2>1
    <3>2. e[1] \in Vertices
      BY EdgeFacts
    <3> QED
      BY <3>1, <3>2, LevelizeAssumption DEF EnsureLatchLevel, TypeOK
  <2>2. CASE ~ \E e \in AllEdges : EnsureLatchLevel(e)
    BY <2>2 DEF RootsDone, StartCycles, CyclesDone, StartRelevelize, RelevelizeDone,
                LatchesDone, TypeOK
  <2> QED
    BY <2>1, <2>2
<1>3. TypeOK'
  BY <1>1, <1>2 DEF TypeOK, graphVars, loopVars
<1>4. Whole'
  BY <1>1 DEF Whole, graphVars
<1>5. Calls'
  <2>1. phase' \notin {"roots", "cycles", "relevelize"} => stack' = <<>>
    BY DEF RootsDone, StartCycles, CyclesDone, StartRelevelize, RelevelizeDone, LatchesDone,
           EnsureLatchLevel, Calls, callVars
  <2> QED
    BY <1>1, <2>1 DEF Calls, graphVars
<1>6. LoopsClosed'
  BY <1>1 DEF LoopsClosed, Closed, loopVars
<1> QED
  BY <1>3, <1>4, <1>5, <1>6

LEMMA StutterInv ==
  ASSUME LevelizeInv, UNCHANGED vars
  PROVE  LevelizeInv'
<1> USE DEF LevelizeInv, vars, graphVars, loopVars, flags, callVars
<1>1. TypeOK'
  BY DEF TypeOK
<1>2. Whole'
  BY DEF Whole
<1>3. Calls'
  BY DEF Calls
<1>4. LoopsClosed'
  BY DEF LoopsClosed, Closed
<1> QED
  BY <1>1, <1>2, <1>3, <1>4

LEMMA NextInv == LevelizeInv /\ [Next]_vars => LevelizeInv'
<1> SUFFICES ASSUME LevelizeInv, [Next]_vars PROVE LevelizeInv'
  OBVIOUS
<1>1. ASSUME NEW i \in Instances, MakeInstance(i) \/ DeleteInstance(i)
      PROVE  LevelizeInv'
  BY <1>1, MakeInstanceInv, DeleteInstanceInv
<1>2. ASSUME NEW v \in Vertices, NEW new \in SUBSET Wires, ConnectPin(v, new)
      PROVE  LevelizeInv'
  BY <1>2, ConnectPinInv
<1>3. ASSUME NEW i \in Instances, NEW new \in SUBSET Gates, ReplaceCell(i, new)
      PROVE  LevelizeInv'
  BY <1>3, ReplaceCellInv
<1>4. ASSUME NEW v \in Vertices, DisconnectPin(v) \/ DeletePin(v)
      PROVE  LevelizeInv'
  BY <1>4, DisconnectPinInv, DeletePinInv
<1>5. ASSUME NEW e \in AllEdges, Constrain(e) \/ SimEdgeChange(e)
      PROVE  LevelizeInv'
  BY <1>5, ConstrainInv
<1>6. ASSUME Ensure
      PROVE  LevelizeInv'
  <2>1. ASSUME NEW v \in Vertices, VisitRoot(v) \/ VisitCycle(v) \/ RevisitFrom(v)
        PROVE  LevelizeInv'
    BY <2>1, VisitRootInv, VisitCycleInv, RevisitFromInv
  <2>2. ASSUME NEW e \in AllEdges, VisitEdge(e)
        PROVE  LevelizeInv'
    BY <2>2, VisitEdgeInv
  <2> QED
    BY <1>6, <2>1, <2>2, StartLevelizeInv, LeaveInv, PhasesInv DEF Ensure
<1>7. CASE UNCHANGED vars
  BY <1>7, StutterInv
<1> QED
  BY <1>1, <1>2, <1>3, <1>4, <1>5, <1>6, <1>7 DEF Next

(* The bookkeeping of the levels, of the recorded loops and of the active  *)
(* calls is an invariant (Levelize::visit, Levelize::deleteEdgeBefore).    *)
THEOREM LevelizeInvariant == Spec => []LevelizeInv
<1>1. Init => LevelizeInv
  BY InitInv
<1>2. LevelizeInv /\ [Next]_vars => LevelizeInv'
  BY NextInv
<1> QED
  BY <1>1, <1>2, PTL DEF Spec

(* Every variable has its type, and Levelize keeps no pointer to a vertex  *)
(* or an edge that has been deleted, whatever is edited and repaired.      *)
THEOREM NothingDangles == Spec => []TypeOK
<1>1. LevelizeInv => TypeOK
  BY DEF LevelizeInv
<1> QED
  BY <1>1, LevelizeInvariant, PTL

------------------------------------------------------------------------------
(* Roots.                                                                  *)

(* A vertex has no fanin because it had none, or because it lost some.     *)
LEMMA LostFanin ==
  ASSUME NEW old, edges \ old \subseteq edges', blocked' \subseteq blocked,
         NEW v, Rootlike(v)'
  PROVE  Rootlike(v) \/ \E e \in old \cap edges : e[2] = v
BY DEF Rootlike, InEdges, Enabled, SearchFrom, SearchTo

LEMMA KeptFanin ==
  ASSUME edges \subseteq edges', blocked' \subseteq blocked, NEW v, Rootlike(v)'
  PROVE  Rootlike(v)
BY DEF Rootlike, InEdges, Enabled, SearchFrom, SearchTo

(* Edits but for the deletion of instances leave a repair to come, or a    *)
(* full levelization.                                                      *)
LEMMA DeleteEdgesRoots ==
  ASSUME LevelizeInv, RootsInv, NEW old \in SUBSET edges, DeleteEdges(old), Edit,
         graph' = graph, edges \ old \subseteq edges', blocked' \subseteq blocked,
         connected' \subseteq connected
  PROVE  RootsInv'
<1>1. phase = "idle" /\ phase' = "idle" /\ color' = color
  BY DEF Edit, callVars
<1>2. valid' = FALSE
  BY DEF DeleteEdges, RelevelizeFrom, Clear
<1>3. CASE old \cap loopEdges = {}
  <2>1. /\ from' = from \cup {e[2] : e \in old}
        /\ UNCHANGED <<levelized, roots>>
    BY <1>3 DEF DeleteEdges, RelevelizeFrom
  <2>2. Pending' = from' /\ Pending \subseteq from
    BY <1>1, <1>2 DEF Pending
  <2>3. ASSUME levelized', NEW v \in graph', Rootlike(v)'
        PROVE  v \in roots' \cup Pending' \/ Unconnected(v)'
    <3>1. Rootlike(v) \/ \E e \in old \cap edges : e[2] = v
      BY <2>3, LostFanin
    <3> QED
      BY <1>1, <2>1, <2>2, <2>3, <3>1 DEF RootsInv, Unconnected
  <2> QED
    BY <1>1, <1>2, <2>3 DEF RootsInv
<1>4. CASE old \cap loopEdges # {}
  BY <1>1, <1>2, <1>4 DEF DeleteEdges, Clear, RootsInv
<1> QED
  BY <1>3, <1>4

LEMMA MakeInstanceRoots ==
  ASSUME LevelizeInv, RootsInv, NEW i \in Instances, MakeInstance(i)
  PROVE  RootsInv'
<1>1. /\ phase = "idle" /\ edges \subseteq edges'
      /\ UNCHANGED <<connected, blocked, valid, levelized, phase, work, from, roots>>
  BY DEF MakeInstance, callVars, flags
<1>2. Pending' = Pending
  BY <1>1 DEF Pending
<1>3. ASSUME levelized', NEW v \in graph', Rootlike(v)'
      PROVE  v \in roots' \cup Pending' \/ Unconnected(v)'
  <2>1. v \in Vertices
    BY LevelizeAssumption DEF MakeInstance, PinsOf, LevelizeInv, TypeOK
  <2>2. CASE v \in graph
    <3>1. color'[v] = color[v]
      BY <2>1, <2>2 DEF MakeInstance
    <3>2. Rootlike(v)
      BY <1>1, <1>3, KeptFanin
    <3> QED
      BY <1>1, <1>2, <1>3, <2>2, <3>1, <3>2 DEF RootsInv, Unconnected
  <2>3. CASE v \notin graph
    BY <1>1, <2>1, <2>3 DEF MakeInstance, Unconnected, LevelizeInv, TypeOK
  <2> QED
    BY <2>2, <2>3
<1> QED
  BY <1>1, <1>3 DEF RootsInv

LEMMA ConnectPinRoots ==
  ASSUME LevelizeInv, RootsInv, NEW v \in Vertices, NEW new \in SUBSET Wires,
         ConnectPin(v, new)
  PROVE  RootsInv'
<1>1. /\ phase = "idle" /\ phase' = "idle" /\ color' = color
      /\ edges \subseteq edges' /\ blocked' \subseteq blocked /\ graph' = graph
      /\ connected' = connected \cup {v}
  BY DEF ConnectPin, Edit, callVars
<1>2. /\ valid' = FALSE /\ UNCHANGED <<levelized, roots>>
      /\ from \subseteq from' /\ v \in from'
  BY DEF ConnectPin, InvalidFrom, RelevelizeFrom
<1>3. Pending' = from' /\ Pending \subseteq from
  BY <1>1, <1>2 DEF Pending
<1>4. ASSUME levelized', NEW u \in graph', Rootlike(u)'
      PROVE  u \in roots' \cup Pending' \/ Unconnected(u)'
  <2>1. Rootlike(u)
    BY <1>1, <1>4, KeptFanin
  <2> QED
    BY <1>1, <1>2, <1>3, <1>4, <2>1 DEF RootsInv, Unconnected
<1> QED
  BY <1>1, <1>2, <1>4 DEF RootsInv

LEMMA DisconnectPinRoots ==
  ASSUME LevelizeInv, RootsInv, NEW v \in Vertices, DisconnectPin(v)
  PROVE  RootsInv'
<1>1. /\ Edit /\ graph' = graph /\ edges' = edges \ WiresOf(v)
      /\ blocked' \subseteq blocked /\ connected' \subseteq connected
      /\ WiresOf(v) \in SUBSET edges
  BY DEF DisconnectPin, WiresOf
<1>2. CASE WiresOf(v) = {}
  <2>1. /\ edges \subseteq edges'
        /\ UNCHANGED <<color, phase, work, from, valid, levelized, roots>>
        /\ phase = "idle"
    BY <1>1, <1>2 DEF DisconnectPin, Edit, callVars
  <2>2. Pending' = Pending
    BY <2>1 DEF Pending
  <2>3. ASSUME levelized', NEW u \in graph', Rootlike(u)'
        PROVE  u \in roots' \cup Pending' \/ Unconnected(u)'
    <3>1. Rootlike(u)
      BY <1>1, <2>1, <2>3, KeptFanin
    <3> QED
      BY <1>1, <2>1, <2>2, <2>3, <3>1 DEF RootsInv, Unconnected
  <2> QED
    BY <2>1, <2>3 DEF RootsInv
<1>3. CASE WiresOf(v) # {}
  <2>1. DeleteEdges(WiresOf(v))
    BY <1>3 DEF DisconnectPin
  <2> QED
    BY <1>1, <2>1, DeleteEdgesRoots
<1> QED
  BY <1>2, <1>3

LEMMA ReplaceCellRoots ==
  ASSUME LevelizeInv, RootsInv, NEW i \in Instances, NEW new \in SUBSET Gates,
         ReplaceCell(i, new)
  PROVE  RootsInv'
<1> DEFINE old == edges \cap GatesOf(i)
<1>1. /\ Edit /\ graph' = graph /\ edges \ old \subseteq edges' /\ blocked' \subseteq blocked
      /\ connected' \subseteq connected /\ old \in SUBSET edges /\ DeleteEdges(old)
  BY DEF ReplaceCell
<1> HIDE DEF old
<1> QED
  BY <1>1, DeleteEdgesRoots

LEMMA DeleteInstanceRoots ==
  ASSUME LevelizeInv, RootsInv, NEW i \in Instances, DeleteInstance(i)
  PROVE  RootsInv'
<1>1. /\ phase = "idle" /\ phase' = "delete"
      /\ UNCHANGED <<graph, edges, connected, blocked, color, from, valid, levelized, roots>>
  BY DEF DeleteInstance, graphVars, flags
<1>2. Pending \subseteq Pending'
  BY <1>1 DEF Pending
<1>3. \A v \in graph : Rootlike(v)' => Rootlike(v)
  BY <1>1 DEF Rootlike, InEdges, Enabled, SearchFrom, SearchTo
<1> QED
  BY <1>1, <1>2, <1>3 DEF RootsInv, Unconnected

LEMMA DeletePinRoots ==
  ASSUME LevelizeInv, RootsInv, NEW v \in Vertices, DeletePin(v)
  PROVE  RootsInv'
<1> DEFINE after == {e[2] : e \in WiresOf(v)} \ {v}
           gone == InEdges(v) \cup OutEdges(v)
<1>1. /\ phase = "delete" /\ v \in work /\ work' = work \ {v}
      /\ graph' = graph \ {v} /\ edges' = edges \ gone /\ blocked' \subseteq blocked
      /\ connected' \subseteq connected /\ color' = color
      /\ phase' = IF work' = {} THEN "idle" ELSE "delete"
  BY DEF DeletePin
<1>2. CASE WiresOf(v) \cap loopEdges = {}
  <2>1. /\ roots' = roots \ {v} /\ from' = (from \cup after) \ {v}
        /\ valid' = (valid /\ after = {}) /\ levelized' = levelized
    BY <1>2 DEF DeletePin, DeleteVertexBefore
  <2>2. /\ Pending = work \cup (IF valid THEN {} ELSE from)
        /\ Pending' = work' \cup (IF valid' THEN {} ELSE from')
    BY <1>1 DEF Pending
  <2>3. ASSUME levelized', NEW u \in graph', Rootlike(u)'
        PROVE  u \in roots' \cup Pending' \/ Unconnected(u)'
    <3>1. u \in graph /\ u # v
      BY <1>1
    <3>2. Rootlike(u) \/ \E e \in gone \cap edges : e[2] = u
      <4> HIDE DEF gone
      <4> QED
        BY <1>1, <2>3, LostFanin
    <3>3. CASE Rootlike(u)
      <4>1. u \in roots \cup Pending \/ Unconnected(u)
        BY <2>1, <2>3, <3>1, <3>3 DEF RootsInv
      <4> QED
        BY <1>1, <2>1, <2>2, <3>1, <4>1 DEF Unconnected
    <3>4. ASSUME NEW e \in gone \cap edges, e[2] = u
          PROVE  u \in Pending'
      <4>1. e \in edges /\ e \in AllEdges /\ e[1] = v
        BY <3>1, <3>4 DEF InEdges, OutEdges, LevelizeInv, TypeOK
      <4>2. CASE e \in Wires
        <5>1. u \in after
          BY <3>1, <3>4, <4>1, <4>2 DEF WiresOf
        <5> QED
          BY <2>1, <2>2, <3>1, <5>1
      <4>3. CASE e \in Gates
        <5>1. Instance[v] = Instance[u]
          BY <3>4, <4>1, <4>3, LevelizeAssumption
        <5>2. u \in work
          BY <1>1, <3>1, <5>1 DEF LevelizeInv, Whole
        <5> QED
          BY <1>1, <2>2, <3>1, <5>2
      <4> QED
        BY <4>1, <4>2, <4>3 DEF AllEdges
    <3> QED
      BY <3>2, <3>3, <3>4
  <2>4. valid' => levelized'
    BY <2>1 DEF RootsInv
  <2> QED
    BY <1>1, <2>3, <2>4 DEF RootsInv
<1>3. CASE WiresOf(v) \cap loopEdges # {}
  <2>1. levelized' = FALSE /\ valid' = FALSE /\ phase' \in {"idle", "delete"}
    BY <1>1, <1>3 DEF DeletePin, Clear
  <2> QED
    BY <2>1 DEF RootsInv
<1> QED
  BY <1>2, <1>3

(* A constraint asks for a full levelization; a change of a logic value    *)
(* does not, and is excluded.                                              *)
LEMMA ConstrainRoots ==
  ASSUME ~ SimEdits, NEW e \in AllEdges, Constrain(e) \/ SimEdgeChange(e)
  PROVE  RootsInv'
<1>1. levelized' = FALSE /\ valid' = FALSE /\ phase' = "idle"
  BY DEF Constrain, SimEdgeChange, Invalid, Clear, Edit, callVars
<1> QED
  BY <1>1 DEF RootsInv

(* A step of a levelization leaves the graph alone; it suffices that it    *)
(* colors no root that is not known.                                       *)
LEMMA StepRoots ==
  ASSUME LevelizeInv, RootsInv, UNCHANGED <<graphVars, flags>>,
         roots \subseteq roots',
         phase' = phase, phase \in {"roots", "cycles", "relevelize"},
         phase = "relevelize" =>
           \A v \in graph : Rootlike(v) =>
             /\ v \in work => v \in roots' \cup work'
             /\ Unconnected(v) => Unconnected(v)' \/ v \in roots' \cup work'
  PROVE  RootsInv'
<1>1. UNCHANGED <<graph, edges, connected, blocked, levelized, valid>>
  BY DEF graphVars, flags
<1>2. \A v : Rootlike(v)' <=> Rootlike(v)
  BY <1>1 DEF Rootlike, InEdges, Enabled, SearchFrom, SearchTo
<1>3. CASE phase = "relevelize"
  <2>1. Pending = work /\ Pending' = work'
    BY <1>3 DEF Pending
  <2> QED
    BY <1>1, <1>2, <1>3, <2>1 DEF RootsInv
<1>4. CASE phase \in {"roots", "cycles"}
  BY <1>1, <1>2, <1>4 DEF RootsInv
<1> QED
  BY <1>3, <1>4

LEMMA VisitEdgeRoots ==
  ASSUME LevelizeInv, RootsInv, NEW e \in AllEdges, VisitEdge(e)
  PROVE  RootsInv'
<1>1. stack # <<>> /\ UNCHANGED <<graphVars, roots, flags, phase, work>>
  BY DEF VisitEdge
<1>2. phase \in {"roots", "cycles", "relevelize"}
  BY <1>1 DEF LevelizeInv, Calls
<1>3. ASSUME NEW v \in graph, Rootlike(v)
      PROVE  color'[v] = color[v] /\ v \in Vertices
  <2>1. e \in Searched => e[2] # v
    BY <1>3 DEF Rootlike, Searched, InEdges, Enabled
  <2>2. \/ color' = [color EXCEPT ![e[2]] = "gray"] /\ e[2] # v
        \/ color' = color
    BY <2>1 DEF VisitEdge
  <2> QED
    BY <2>2 DEF LevelizeInv, TypeOK
<1> QED
  BY <1>1, <1>2, <1>3, StepRoots DEF Unconnected, graphVars

LEMMA LeaveRoots ==
  ASSUME LevelizeInv, RootsInv, Leave
  PROVE  RootsInv'
<1>1. /\ stack # <<>> /\ UNCHANGED <<graphVars, roots, flags, phase, work>>
      /\ color' = [color EXCEPT ![Top] = "black"]
  BY DEF Leave
<1>2. phase \in {"roots", "cycles", "relevelize"}
  BY <1>1 DEF LevelizeInv, Calls
<1>3. color[Top] # "white"
  <2>1. Top = stack[1] /\ 1 \in 1 .. Len(stack)
    BY <1>1, Pop DEF LevelizeInv, TypeOK, Top
  <2> QED
    BY <2>1 DEF LevelizeInv, Calls
<1>4. \A v \in graph : Unconnected(v) => Unconnected(v)'
  BY <1>1, <1>3 DEF Unconnected, graphVars, LevelizeInv, TypeOK
<1> QED
  BY <1>1, <1>2, <1>4, StepRoots

LEMMA RevisitFromRoots ==
  ASSUME LevelizeInv, RootsInv, NEW v \in Vertices, RevisitFrom(v)
  PROVE  RootsInv'
<1>1. /\ phase = "relevelize" /\ work' = work \ {v} /\ roots \subseteq roots'
      /\ UNCHANGED <<graphVars, flags, phase>>
      /\ color' = color \/ color' = [color EXCEPT ![v] = "gray"]
  BY DEF RevisitFrom, Rooted, Enter
<1>2. Rootlike(v) => v \in roots'
  BY DEF RevisitFrom, Rooted, IsRoot, Rootlike, Searched, SearchFrom, SearchTo
<1>3. ASSUME NEW u \in graph, Unconnected(u), u # v
      PROVE  Unconnected(u)'
  BY <1>1, <1>3 DEF Unconnected, graphVars, LevelizeInv, TypeOK
<1> QED
  BY <1>1, <1>2, <1>3, StepRoots

LEMMA StartLevelizeRoots ==
  ASSUME RootsInv, StartLevelize
  PROVE  RootsInv'
<1>1. /\ phase' = "roots" /\ ~ levelized' /\ ~ valid'
      /\ UNCHANGED <<graph, edges, blocked>>
  BY DEF StartLevelize, flags, graphVars
<1>2. \A v \in graph : Rootlike(v) => v \in roots'
  BY DEF StartLevelize, Rootlike, SearchFrom, SearchTo
<1>3. \A v \in graph' : Rootlike(v)' => Rootlike(v)
  BY <1>1 DEF Rootlike, InEdges, Enabled, SearchFrom, SearchTo
<1> QED
  BY <1>1, <1>2, <1>3 DEF RootsInv

LEMMA PhasesRoots ==
  ASSUME LevelizeInv, RootsInv,
         \/ RootsDone \/ StartCycles \/ CyclesDone
         \/ StartRelevelize \/ RelevelizeDone \/ LatchesDone
         \/ \E e \in AllEdges : EnsureLatchLevel(e)
  PROVE  RootsInv'
<1>1. UNCHANGED <<graph, edges, connected, blocked, color, roots>>
  BY DEF RootsDone, StartCycles, CyclesDone, StartRelevelize, RelevelizeDone, LatchesDone,
         EnsureLatchLevel, graphVars
<1>2. \A v : (Rootlike(v)' <=> Rootlike(v)) /\ (Unconnected(v)' <=> Unconnected(v))
  BY <1>1 DEF Rootlike, InEdges, Enabled, SearchFrom, SearchTo, Unconnected
<1>3. CASE RootsDone \/ StartCycles \/ CyclesDone
  <2>1. /\ phase \in {"roots", "latches", "cycles"}
        /\ \/ phase' \in {"latches", "cycles"} /\ UNCHANGED <<valid, levelized>>
           \/ phase' = "idle" /\ valid' /\ levelized'
    BY <1>3 DEF RootsDone, StartCycles, CyclesDone, flags
  <2> QED
    BY <1>1, <1>2, <2>1 DEF RootsInv
<1>4. CASE StartRelevelize \/ RelevelizeDone \/ LatchesDone
  <2>1. /\ phase \in {"idle", "relevelize", "lastLatches"}
        /\ phase' \in {"idle", "relevelize", "lastLatches"}
        /\ levelized' = levelized /\ levelized
    BY <1>4 DEF StartRelevelize, RelevelizeDone, LatchesDone, flags, RootsInv
  <2>2. Pending \subseteq Pending'
    BY <1>4 DEF StartRelevelize, RelevelizeDone, LatchesDone, Pending
  <2> QED
    BY <1>1, <1>2, <2>1, <2>2 DEF RootsInv
<1>5. CASE \E e \in AllEdges : EnsureLatchLevel(e)
  <2>1. UNCHANGED <<valid, levelized, phase, work, from>>
    BY <1>5 DEF EnsureLatchLevel, flags, callVars
  <2>2. Pending' = Pending
    BY <2>1 DEF Pending
  <2> QED
    BY <1>1, <1>2, <2>1, <2>2 DEF RootsInv
<1> QED
  BY <1>3, <1>4, <1>5

LEMMA RootsNext ==
  ASSUME ~ SimEdits, LevelizeInv, RootsInv, [Next]_vars
  PROVE  RootsInv'
<1>1. ASSUME NEW i \in Instances, MakeInstance(i) \/ DeleteInstance(i)
      PROVE  RootsInv'
  BY <1>1, MakeInstanceRoots, DeleteInstanceRoots
<1>2. ASSUME NEW v \in Vertices, NEW new \in SUBSET Wires, ConnectPin(v, new)
      PROVE  RootsInv'
  BY <1>2, ConnectPinRoots
<1>3. ASSUME NEW i \in Instances, NEW new \in SUBSET Gates, ReplaceCell(i, new)
      PROVE  RootsInv'
  BY <1>3, ReplaceCellRoots
<1>4. ASSUME NEW v \in Vertices, DisconnectPin(v) \/ DeletePin(v)
      PROVE  RootsInv'
  BY <1>4, DisconnectPinRoots, DeletePinRoots
<1>5. ASSUME NEW e \in AllEdges, Constrain(e) \/ SimEdgeChange(e)
      PROVE  RootsInv'
  BY <1>5, ConstrainRoots
<1>6. ASSUME NEW v \in Vertices, VisitRoot(v) \/ VisitCycle(v)
      PROVE  RootsInv'
  <2>1. /\ phase \in {"roots", "cycles"} /\ UNCHANGED <<graphVars, flags, phase>>
        /\ roots \subseteq roots'
    BY <1>6 DEF VisitRoot, VisitCycle
  <2> QED
    BY <2>1, StepRoots
<1>7. ASSUME NEW v \in Vertices, RevisitFrom(v)
      PROVE  RootsInv'
  BY <1>7, RevisitFromRoots
<1>8. ASSUME NEW e \in AllEdges, VisitEdge(e)
      PROVE  RootsInv'
  BY <1>8, VisitEdgeRoots
<1>9. CASE Ensure
  BY <1>6, <1>7, <1>8, <1>9, StartLevelizeRoots, LeaveRoots, PhasesRoots DEF Ensure
<1>10. CASE UNCHANGED vars
  <2>1. UNCHANGED <<graph, edges, connected, blocked, color, roots, from, levelized, valid,
                    phase, work>>
    BY <1>10 DEF vars, graphVars, flags, callVars
  <2> QED
    BY <2>1 DEF RootsInv, Rootlike, InEdges, Enabled, SearchFrom, SearchTo, Unconnected, Pending
<1> QED
  BY <1>1, <1>2, <1>3, <1>4, <1>5, <1>9, <1>10 DEF Next

(* Whatever is edited and repaired, a vertex without fanin is among the    *)
(* roots when the levels are valid, as long as logic values do not change  *)
(* with the netlist (Sim does not tell Levelize).                          *)
THEOREM RootsKnown ==
  ASSUME ~ SimEdits
  PROVE  Spec => []RootsComplete
<1>1. Init => RootsInv
  BY DEF Init, RootsInv
<1>2. LevelizeInv /\ RootsInv /\ [Next]_vars => RootsInv'
  BY RootsNext
<1>3. RootsInv => RootsComplete
  BY DEF RootsInv, RootsComplete, Pending, Rootlike, Unconnected
<1> QED
  BY <1>1, <1>2, <1>3, LevelizeInvariant, PTL DEF Spec

------------------------------------------------------------------------------
(* Loops.  Only edges that lie on a cycle are disabled, and the cycle is   *)
(* still there when the levels are valid: the edges of it are recorded,    *)
(* and the deletion of one of them starts over.                            *)

(* The edges of E lead from v to w.                                        *)
Joined(E, v, w) ==
  \A S \in SUBSET Vertices :
    v \in S /\ (\A f \in E : f[1] \in S => f[2] \in S) => w \in S

(* Recorded loops and the path of the active calls are of enabled edges,   *)
(* and the recorded ones close the loop of every edge that was disabled.   *)
LoopsInv ==
  /\ loopEdges \subseteq Enabled
  /\ \A i \in 1 .. Len(stack) - 1 : <<stack[i + 1], stack[i]>> \in Enabled
  /\ \A e \in disabledLoop : Joined(loopEdges, e[2], e[1])

LEMMA InitLoops == Init => LoopsInv
<1> SUFFICES ASSUME Init PROVE LoopsInv
  OBVIOUS
<1>1. Len(stack) = 0 /\ loopEdges = {} /\ disabledLoop = {}
  BY DEF Init
<1> QED
  BY <1>1 DEF LoopsInv

(* With more edges more vertices are joined.                               *)
LEMMA JoinedGrows ==
  ASSUME NEW E, NEW F, E \subseteq F, NEW v, NEW w, Joined(E, v, w)
  PROVE  Joined(F, v, w)
BY DEF Joined

(* An edit keeps the recorded loops and disables none of their edges, or   *)
(* forgets them.                                                           *)
LEMMA EditLoops ==
  ASSUME LevelizeInv, LoopsInv, phase \in {"idle", "delete"}, stack' = stack,
         \/ Clear
         \/ /\ UNCHANGED loopVars
            /\ loopEdges \subseteq edges'
            /\ loopEdges \cap blocked' \subseteq blocked
  PROVE  LoopsInv'
<1>1. stack' = <<>> /\ Len(stack') = 0
  BY DEF LevelizeInv, Calls
<1>2. loopEdges' \subseteq Enabled'
  BY DEF Clear, LoopsInv, Enabled, SearchFrom, SearchTo, loopVars
<1>3. \A e \in disabledLoop' : Joined(loopEdges', e[2], e[1])
  BY DEF Clear, LoopsInv, loopVars
<1> QED
  BY <1>1, <1>2, <1>3 DEF LoopsInv

LEMMA DeleteEdgesLoops ==
  ASSUME LevelizeInv, LoopsInv, NEW old \in SUBSET edges, DeleteEdges(old), Edit,
         edges \ old \subseteq edges', blocked' \subseteq blocked
  PROVE  LoopsInv'
<1>1. phase = "idle" /\ stack' = stack
  BY DEF Edit, callVars
<1>2. loopEdges \subseteq edges
  BY DEF LevelizeInv, TypeOK
<1>3. \/ Clear
      \/ UNCHANGED loopVars /\ loopEdges \subseteq edges'
  BY <1>2 DEF DeleteEdges, RelevelizeFrom
<1> QED
  BY <1>1, <1>3, EditLoops

LEMMA NetEditsLoops ==
  ASSUME LevelizeInv, LoopsInv, ~ SimEdits,
         \/ \E i \in Instances : MakeInstance(i) \/ DeleteInstance(i)
         \/ \E v \in Vertices, new \in SUBSET Wires : ConnectPin(v, new)
         \/ \E e \in AllEdges : Constrain(e) \/ SimEdgeChange(e)
  PROVE  LoopsInv'
<1>1. loopEdges \subseteq edges
  BY DEF LevelizeInv, TypeOK
<1>2. phase = "idle" /\ stack' = stack
  BY DEF MakeInstance, DeleteInstance, ConnectPin, Constrain, SimEdgeChange, Edit, callVars
<1>3. CASE \E e \in AllEdges : Constrain(e) \/ SimEdgeChange(e)
  <2>1. Clear
    BY <1>3 DEF Constrain, SimEdgeChange, Invalid
  <2> QED
    BY <1>2, <2>1, EditLoops
<1>4. CASE ~ \E e \in AllEdges : Constrain(e) \/ SimEdgeChange(e)
  <2>1. UNCHANGED loopVars /\ edges \subseteq edges' /\ blocked' = blocked
    BY <1>4 DEF MakeInstance, DeleteInstance, ConnectPin, InvalidFrom, RelevelizeFrom, graphVars
  <2> QED
    BY <1>1, <1>2, <2>1, EditLoops
<1> QED
  BY <1>3, <1>4

LEMMA DisconnectPinLoops ==
  ASSUME LevelizeInv, LoopsInv, NEW v \in Vertices, DisconnectPin(v)
  PROVE  LoopsInv'
<1>1. /\ Edit /\ edges' = edges \ WiresOf(v) /\ blocked' \subseteq blocked
      /\ WiresOf(v) \in SUBSET edges
  BY DEF DisconnectPin, WiresOf
<1>2. CASE WiresOf(v) = {}
  <2>1. UNCHANGED loopVars
    BY <1>2 DEF DisconnectPin
  <2>2. loopEdges \subseteq edges /\ phase = "idle" /\ stack' = stack
    BY <1>1 DEF LevelizeInv, TypeOK, Edit, callVars
  <2> QED
    BY <1>1, <1>2, <2>1, <2>2, EditLoops
<1>3. CASE WiresOf(v) # {}
  <2>1. DeleteEdges(WiresOf(v))
    BY <1>3 DEF DisconnectPin
  <2> QED
    BY <1>1, <2>1, DeleteEdgesLoops
<1> QED
  BY <1>2, <1>3

LEMMA ReplaceCellLoops ==
  ASSUME LevelizeInv, LoopsInv, NEW i \in Instances, NEW new \in SUBSET Gates,
         ReplaceCell(i, new)
  PROVE  LoopsInv'
<1> DEFINE old == edges \cap GatesOf(i)
<1>1. /\ Edit /\ DeleteEdges(old) /\ edges \ old \subseteq edges'
      /\ blocked' \subseteq blocked /\ old \in SUBSET edges
  BY DEF ReplaceCell
<1> HIDE DEF old
<1> QED
  BY <1>1, DeleteEdgesLoops

(* No edge of the pin is part of a recorded loop, or all are forgotten.    *)
LEMMA DeletePinLoops ==
  ASSUME LevelizeInv, LoopsInv, NEW v \in Vertices, DeletePin(v)
  PROVE  LoopsInv'
<1>1. /\ phase = "delete" /\ stack' = stack /\ blocked' \subseteq blocked
      /\ edges' = edges \ (InEdges(v) \cup OutEdges(v))
  BY DEF DeletePin
<1>2. CASE WiresOf(v) \cap loopEdges = {}
  <2>1. UNCHANGED loopVars
    BY <1>2 DEF DeletePin
  <2>2. loopEdges \subseteq edges
    BY <1>1, <1>2, LoopsOfPin DEF LevelizeInv, TypeOK
  <2>3. loopEdges \subseteq edges'
    BY <1>1, <1>2, <2>2, LoopsOfPin
  <2> QED
    BY <1>1, <2>1, <2>3, EditLoops
<1>3. CASE WiresOf(v) \cap loopEdges # {}
  BY <1>1, <1>3, EditLoops DEF DeletePin
<1> QED
  BY <1>2, <1>3

(* A path of the active calls leads from every one of them to the one on   *)
(* top: of those on the path that are in a set closed under its edges, the *)
(* innermost is the top.                                                   *)
LEMMA CallsJoined ==
  ASSUME NEW s \in Seq(Vertices), NEW k \in 1 .. Len(s), NEW E,
         \A i \in 1 .. k - 1 : <<s[i + 1], s[i]>> \in E
  PROVE  Joined(E, s[k], s[1])
<1> SUFFICES ASSUME NEW S \in SUBSET Vertices, s[k] \in S,
                    \A f \in E : f[1] \in S => f[2] \in S
             PROVE  s[1] \in S
  BY DEF Joined
<1> DEFINE inside == {n \in Nat : n \in 1 .. k /\ s[n] \in S}
<1>1. k \in Nat /\ k \in inside /\ inside \subseteq Nat
  OBVIOUS
<1> HIDE DEF inside
<1>2. \E n \in inside : \A m \in inside : ~ (<<m, n>> \in OpToRel(<, Nat))
  BY <1>1, NatLessThanWellFounded, WFMin
<1>3. PICK n \in inside : \A m \in inside : ~ (m < n)
  BY <1>1, <1>2 DEF OpToRel
<1>4. n \in Nat /\ n \in 1 .. k /\ s[n] \in S
  BY <1>3 DEF inside
<1>5. CASE n = 1
  BY <1>4, <1>5
<1>6. CASE n # 1
  <2>1. n - 1 \in 1 .. k - 1 /\ (n - 1) + 1 = n /\ n - 1 < n
    BY <1>1, <1>4, <1>6
  <2>2. <<s[n], s[n - 1]>> \in E
    BY <2>1
  <2>3. s[n - 1] \in S
    BY <1>4, <2>2
  <2>4. n - 1 \in inside
    BY <1>1, <2>1, <2>3 DEF inside
  <2> QED
    BY <1>3, <2>1, <2>4
<1> QED
  BY <1>5, <1>6

(* The active calls from the one a gray vertex is entered in to the top    *)
(* join it to the source of the edge that closes the loop.                 *)
LEMMA LoopThroughJoins ==
  ASSUME LevelizeInv, LoopsInv, stack # <<>>, NEW e \in Searched, e[1] = Top,
         color[e[2]] = "gray"
  PROVE  LoopThrough(e) \subseteq Enabled /\ Joined(LoopThrough(e), e[2], e[1])
<1>1. /\ stack \in Seq(Vertices) /\ Len(stack) \in Nat /\ Len(stack) >= 1
      /\ Top = stack[1]
  BY Pop DEF LevelizeInv, TypeOK, Top
<1>2. e \in AllEdges /\ e \in Enabled
  BY DEF LevelizeInv, TypeOK, Searched, Enabled
<1>3. e[2] \in Vertices
  BY <1>2, EdgeFacts
<1>4. PICK k \in 1 .. Len(stack) : stack[k] = e[2]
  BY <1>3 DEF LevelizeInv, Calls
<1>5. LoopThrough(e) \subseteq Enabled
  BY <1>2 DEF LoopThrough, LoopsInv
<1>6. ASSUME NEW i \in 1 .. k - 1
      PROVE  <<stack[i + 1], stack[i]>> \in LoopThrough(e)
  <2>1. i \in 1 .. Len(stack) - 1 /\ k \in i + 1 .. Len(stack)
    BY <1>1, <1>4
  <2> QED
    BY <1>4, <2>1 DEF LoopThrough
<1>7. Joined(LoopThrough(e), stack[k], stack[1])
  BY <1>1, <1>6, CallsJoined
<1> QED
  BY <1>1, <1>4, <1>5, <1>7

(* An edge of the path is added with a call.                               *)
LEMMA CallLoops ==
  ASSUME LevelizeInv, LoopsInv, NEW v \in Vertices, stack' = <<v>> \o stack,
         UNCHANGED <<graphVars, loopVars>>,
         stack # <<>> => <<stack[1], v>> \in Enabled
  PROVE  LoopsInv'
<1>1. stack \in Seq(Vertices)
  BY DEF LevelizeInv, TypeOK
<1>2. /\ Len(stack') = Len(stack) + 1 /\ Len(stack) \in Nat
      /\ stack'[1] = v /\ \A i \in 1 .. Len(stack) : stack'[i + 1] = stack[i]
  BY <1>1, Prepend
<1>3. Enabled' = Enabled
  BY DEF graphVars, Enabled, SearchFrom, SearchTo
<1>4. ASSUME NEW i \in 1 .. Len(stack') - 1
      PROVE  <<stack'[i + 1], stack'[i]>> \in Enabled
  <2>1. i \in 1 .. Len(stack) /\ stack # <<>>
    BY <1>1, <1>2
  <2>2. CASE i = 1
    BY <1>2, <2>1, <2>2
  <2>3. CASE i # 1
    <3>1. i - 1 \in 1 .. Len(stack) - 1 /\ i - 1 \in 1 .. Len(stack) /\ (i - 1) + 1 = i
      BY <1>2, <2>1, <2>3
    <3>2. stack'[i + 1] = stack[i] /\ stack'[(i - 1) + 1] = stack[i - 1]
      BY <1>2, <2>1, <3>1
    <3>3. <<stack[(i - 1) + 1], stack[i - 1]>> \in Enabled
      BY <3>1 DEF LoopsInv
    <3> QED
      BY <3>1, <3>2, <3>3
  <2> QED
    BY <2>2, <2>3
<1>5. UNCHANGED <<disabledLoop, loopEdges>>
  BY DEF loopVars
<1> QED
  BY <1>3, <1>4, <1>5 DEF LoopsInv

LEMMA VisitEdgeLoops ==
  ASSUME LevelizeInv, LoopsInv, NEW e \in AllEdges, VisitEdge(e)
  PROVE  LoopsInv'
<1>1. stack # <<>> /\ e \in todo[Top] /\ UNCHANGED graphVars
  BY DEF VisitEdge
<1>2. Top \in Vertices /\ Top = stack[1]
  BY <1>1, Pop DEF LevelizeInv, TypeOK, Top
<1>3. e[1] = Top /\ e[2] \in Vertices /\ e = <<stack[1], e[2]>>
  BY <1>1, <1>2, EdgeFacts DEF LevelizeInv, Calls
<1>4. Enabled' = Enabled
  BY <1>1 DEF graphVars, Enabled, SearchFrom, SearchTo
<1>5. CASE e \in Searched /\ color[e[2]] = "gray"
  <2>1. /\ disabledLoop' = disabledLoop \cup {e}
        /\ loopEdges' = loopEdges \cup LoopThrough(e)
        /\ stack' = stack
    BY <1>5 DEF VisitEdge
  <2>2. LoopThrough(e) \subseteq Enabled /\ Joined(LoopThrough(e), e[2], e[1])
    BY <1>1, <1>3, <1>5, LoopThroughJoins
  <2>3. ASSUME NEW f \in disabledLoop'
        PROVE  Joined(loopEdges', f[2], f[1])
    <3>1. Joined(loopEdges, f[2], f[1]) \/ Joined(LoopThrough(e), f[2], f[1])
      BY <2>1, <2>2 DEF LoopsInv
    <3>2. loopEdges \subseteq loopEdges' /\ LoopThrough(e) \subseteq loopEdges'
      BY <2>1
    <3> QED
      BY <3>1, <3>2, JoinedGrows
  <2> QED
    BY <1>4, <2>1, <2>2, <2>3 DEF LoopsInv
<1>6. CASE ~ (e \in Searched /\ color[e[2]] = "gray")
  <2>1. UNCHANGED loopVars
    BY <1>6 DEF VisitEdge
  <2>2. CASE stack' = stack
    BY <1>4, <2>1, <2>2 DEF LoopsInv, loopVars
  <2>3. CASE stack' # stack
    <3>1. stack' = <<e[2]>> \o stack /\ e \in Enabled
      BY <2>3 DEF VisitEdge, Searched
    <3> QED
      BY <1>1, <1>3, <2>1, <3>1, CallLoops
  <2> QED
    BY <2>2, <2>3
<1> QED
  BY <1>5, <1>6

LEMMA LeaveLoops ==
  ASSUME LevelizeInv, LoopsInv, Leave
  PROVE  LoopsInv'
<1>1. stack # <<>> /\ stack' = Tail(stack) /\ UNCHANGED <<graphVars, loopVars>>
  BY DEF Leave
<1>2. /\ Len(stack) \in Nat /\ Len(stack') = Len(stack) - 1
      /\ \A i \in 1 .. Len(stack) - 1 : stack'[i] = stack[i + 1]
  BY <1>1, Pop DEF LevelizeInv, TypeOK
<1>3. Enabled' = Enabled /\ UNCHANGED <<disabledLoop, loopEdges>>
  BY <1>1 DEF graphVars, loopVars, Enabled, SearchFrom, SearchTo
<1>4. ASSUME NEW i \in 1 .. Len(stack') - 1
      PROVE  <<stack'[i + 1], stack'[i]>> \in Enabled
  <2>1. i + 1 \in 1 .. Len(stack) - 1 /\ i \in 1 .. Len(stack) - 1
    BY <1>2
  <2> QED
    BY <1>2, <2>1 DEF LoopsInv
<1> QED
  BY <1>3, <1>4 DEF LoopsInv

(* A call on an empty stack, if there is one.                              *)
LEMMA FirstCallLoops ==
  ASSUME LevelizeInv, LoopsInv, NEW v \in Vertices,
         VisitRoot(v) \/ VisitCycle(v) \/ RevisitFrom(v)
  PROVE  LoopsInv'
<1>1. stack = <<>> /\ UNCHANGED <<graphVars, loopVars>>
  BY DEF VisitRoot, VisitCycle, RevisitFrom
<1>2. CASE stack' = stack
  BY <1>1, <1>2
  DEF LoopsInv, graphVars, loopVars, Enabled, SearchFrom, SearchTo
<1>3. CASE stack' # stack
  <2>1. stack' = <<v>> \o stack
    BY <1>3 DEF VisitRoot, VisitCycle, RevisitFrom, Enter
  <2> QED
    BY <1>1, <2>1, CallLoops
<1> QED
  BY <1>2, <1>3

LEMMA StartLevelizeLoops ==
  ASSUME LevelizeInv, StartLevelize
  PROVE  LoopsInv'
<1>1. stack' = <<>> /\ Len(stack') = 0
  BY DEF StartLevelize, LevelizeInv, Calls
<1>2. loopEdges' = {} /\ disabledLoop' = {}
  BY DEF StartLevelize
<1> QED
  BY <1>1, <1>2 DEF LoopsInv

LEMMA LoopsNext ==
  ASSUME LevelizeInv, LoopsInv, ~ SimEdits, [Next]_vars
  PROVE  LoopsInv'
<1>1. ASSUME NEW i \in Instances, MakeInstance(i) \/ DeleteInstance(i)
      PROVE  LoopsInv'
  BY <1>1, NetEditsLoops
<1>2. ASSUME NEW v \in Vertices, NEW new \in SUBSET Wires, ConnectPin(v, new)
      PROVE  LoopsInv'
  BY <1>2, NetEditsLoops
<1>3. ASSUME NEW i \in Instances, NEW new \in SUBSET Gates, ReplaceCell(i, new)
      PROVE  LoopsInv'
  BY <1>3, ReplaceCellLoops
<1>4. ASSUME NEW v \in Vertices, DisconnectPin(v) \/ DeletePin(v)
      PROVE  LoopsInv'
  BY <1>4, DisconnectPinLoops, DeletePinLoops
<1>5. ASSUME NEW e \in AllEdges, Constrain(e) \/ SimEdgeChange(e)
      PROVE  LoopsInv'
  BY <1>5, NetEditsLoops
<1>6. ASSUME UNCHANGED <<graphVars, loopVars, stack>>
      PROVE  LoopsInv'
  BY <1>6 DEF LoopsInv, graphVars, loopVars, Enabled, SearchFrom, SearchTo
<1>7. CASE Ensure
  <2>1. ASSUME NEW v \in Vertices, VisitRoot(v) \/ VisitCycle(v) \/ RevisitFrom(v)
        PROVE  LoopsInv'
    BY <2>1, FirstCallLoops
  <2>2. ASSUME NEW e \in AllEdges, VisitEdge(e)
        PROVE  LoopsInv'
    BY <2>2, VisitEdgeLoops
  <2>3. ASSUME NEW e \in AllEdges, EnsureLatchLevel(e)
        PROVE  LoopsInv'
    BY <1>6, <2>3 DEF EnsureLatchLevel, callVars
  <2>4. CASE RootsDone \/ StartCycles \/ CyclesDone \/ StartRelevelize \/ RelevelizeDone
             \/ LatchesDone
    BY <1>6, <2>4 DEF RootsDone, StartCycles, CyclesDone, StartRelevelize, RelevelizeDone,
                      LatchesDone
  <2> QED
    BY <1>7, <2>1, <2>2, <2>3, <2>4, StartLevelizeLoops, LeaveLoops DEF Ensure
<1>8. CASE UNCHANGED vars
  BY <1>6, <1>8 DEF vars, callVars
<1> QED
  BY <1>1, <1>2, <1>3, <1>4, <1>5, <1>7, <1>8 DEF Next

(* Whatever is edited and repaired, an edge that is disabled to break a    *)
(* loop is on a cycle of enabled edges of the present graph when the       *)
(* levels are valid, so that no path is lost for a loop that is gone       *)
(* (Levelize::deleteEdgeBefore).  Logic values are not to change with the  *)
(* netlist: Sim does not tell Levelize of the edges they disable.          *)
THEOREM LoopsStayBroken ==
  ASSUME ~ SimEdits
  PROVE  Spec => []OnlyLoopsBroken
<1>1. Init => LoopsInv
  BY InitLoops
<1>2. LevelizeInv /\ LoopsInv /\ [Next]_vars => LoopsInv'
  BY LoopsNext
<1>3. LevelizeInv /\ LoopsInv => OnlyLoopsBroken
  <2> SUFFICES ASSUME LevelizeInv, LoopsInv, NEW e \in disabledLoop
               PROVE  e \in Enabled /\ e[1] \in Reachable(e[2])
    BY DEF OnlyLoopsBroken
  <2>1. e \in Enabled
    BY DEF LevelizeInv, LoopsClosed, LoopsInv
  <2>2. e[1] \in Vertices
    BY <2>1, EdgeFacts DEF LevelizeInv, TypeOK, Enabled
  <2>3. ASSUME NEW S \in SUBSET Vertices, e[2] \in S, Successors(S) \subseteq S
        PROVE  e[1] \in S
    <3>1. \A f \in loopEdges : f[1] \in S => f[2] \in S
      BY <2>3 DEF LoopsInv, Successors
    <3> QED
      BY <2>3, <3>1 DEF LoopsInv, Joined
  <2> QED
    BY <2>1, <2>2, <2>3 DEF Reachable
<1> QED
  BY <1>1, <1>2, <1>3, LevelizeInvariant, PTL DEF Spec

------------------------------------------------------------------------------
(* The levels ascend along the edges that are searched, after any number   *)
(* of edits and repairs of any graph.  It holds for cells that do not      *)
(* latch, that are replaced by cells with no more arcs, and when logic     *)
(* values do not change with the netlist: the README says what the code    *)
(* does otherwise.                                                         *)

Plain == LatchEdges = {} /\ ~ NewArcs /\ ~ SimEdits

(* The edges whose ends may have levels that do not ascend: those that an  *)
(* active call has still to look at, and those of vertices to be visited.  *)
Behind(e) ==
  \/ color[e[1]] = "gray" /\ e \in todo[e[1]]
  \/ phase \in {"roots", "relevelize"} /\ e[1] \in work
  \/ phase \in {"roots", "latches"} /\ color[e[1]] = "white"
  \/ phase = "cycles" /\ color[e[1]] = "white" /\ e[1] \in work
  \/ phase \in {"idle", "delete"} /\ ~ valid /\ e[1] \in from

Ascends(e) == level[e[1]] < level[e[2]] \/ Floating(e) \/ Behind(e)

(* All others ascend, unless a full levelization is to come.  A level is   *)
(* only lowered where no edge that is searched leads to.                   *)
OrderInv ==
  /\ latchDtoQ = {}
  /\ \A v \in graph : level[v] <= maxLevel
  /\ \A v \in graph : color[v] = "white" => level[v] = 0
  /\ phase \in {"idle", "delete"} /\ ~ levelized => roots = {}
  /\ phase = "roots" => \A v \in work : InEdges(v) \cap Searched = {}
  /\ levelized \/ phase \in {"roots", "latches", "cycles"} =>
       \A e \in Searched : Ascends(e)

LEMMA SearchedFacts ==
  ASSUME LevelizeInv, NEW e \in Searched
  PROVE  /\ e \in edges /\ e \in AllEdges
         /\ e[1] \in graph /\ e[2] \in graph
         /\ e[1] \in Vertices /\ e[2] \in Vertices /\ e[1] # e[2]
         /\ SearchFrom(e[1])
         /\ e \in OutEdges(e[1]) /\ e \in InEdges(e[2])
<1>1. e \in edges /\ SearchFrom(e[1])
  BY DEF Searched, Enabled
<1>2. e \in AllEdges /\ e[1] \in graph /\ e[2] \in graph
  BY <1>1 DEF LevelizeInv, TypeOK, Whole
<1> QED
  BY <1>1, <1>2, EdgeFacts DEF OutEdges, InEdges

LEMMA InitOrder == Init => OrderInv
<1> SUFFICES ASSUME Init PROVE OrderInv
  OBVIOUS
<1>1. graph \subseteq Vertices
  BY InitInv DEF LevelizeInv, TypeOK
<1>2. /\ latchDtoQ = {} /\ level = [v \in Vertices |-> 0] /\ maxLevel = 0
      /\ roots = {} /\ ~ levelized /\ phase = "idle"
  BY DEF Init
<1> QED
  BY <1>1, <1>2 DEF OrderInv

------------------------------------------------------------------------------
(* Edits.                                                                  *)

(* An edge that is searched after an edit was searched before, and is      *)
(* repaired if it was to be, or it is to be repaired now.                  *)
ToRepair(e) == ~ valid /\ e[1] \in from

Kept(e) ==
  \/ ToRepair(e)'
  \/ /\ e \in Searched
     /\ Floating(e) => Floating(e)'
     /\ ToRepair(e) => ToRepair(e)'

LEMMA EditOrder ==
  ASSUME LevelizeInv, RootsInv, OrderInv,
         phase \in {"idle", "delete"}, phase' \in {"idle", "delete"},
         UNCHANGED <<level, color, maxLevel, latchDtoQ, todo>>,
         graph' \subseteq graph, roots' \subseteq roots,
         levelized' => levelized, levelized => levelized' \/ roots' = {},
         levelized' => \A e \in Searched' : Kept(e)
  PROVE  OrderInv'
<1>1. ASSUME levelized', NEW e \in Searched'
      PROVE  Ascends(e)'
  <2>1. CASE ToRepair(e)'
    BY <2>1 DEF Ascends, Behind, ToRepair
  <2>2. CASE /\ e \in Searched
             /\ Floating(e) => Floating(e)'
             /\ ToRepair(e) => ToRepair(e)'
    <3>1. Ascends(e)
      BY <1>1, <2>2 DEF OrderInv
    <3> QED
      BY <2>2, <3>1 DEF Ascends, Behind, ToRepair
  <2> QED
    BY <1>1, <2>1, <2>2 DEF Kept
<1>2. ~ levelized' => roots' = {}
  BY DEF OrderInv
<1> QED
  BY <1>1, <1>2 DEF OrderInv

LEMMA MakeInstanceOrder ==
  ASSUME LevelizeInv, RootsInv, OrderInv, NEW i \in Instances, MakeInstance(i)
  PROVE  OrderInv'
<1>1. /\ phase = "idle"
      /\ PinsOf(i) \cap graph = {} /\ PinsOf(i) \subseteq Vertices
      /\ graph' = graph \cup PinsOf(i) /\ edges' = edges \cup GatesOf(i)
      /\ \A v \in graph : level'[v] = level[v] /\ color'[v] = color[v]
      /\ \A v \in PinsOf(i) : level'[v] = 0 /\ color'[v] = "white"
      /\ UNCHANGED <<connected, blocked, maxLevel, roots, from, disabledLoop, latchDtoQ,
                     levelized, valid, phase, work, todo>>
  BY DEF MakeInstance, PinsOf, LevelizeInv, TypeOK, loopVars, flags, callVars
<1>2. \A v \in graph' : level'[v] <= maxLevel'
  BY <1>1 DEF OrderInv, LevelizeInv, TypeOK
<1>3. \A v \in graph' : color'[v] = "white" => level'[v] = 0
  BY <1>1 DEF OrderInv
<1>4. ASSUME levelized', NEW e \in Searched'
      PROVE  Ascends(e)'
  <2>1. CASE e \in edges
    <3>1. e \in Searched
      BY <1>1, <1>4, <2>1 DEF Searched, Enabled, SearchFrom, SearchTo
    <3>2. Ascends(e) /\ e[1] \in graph /\ e[2] \in graph
      BY <1>1, <1>4, <3>1, SearchedFacts DEF OrderInv
    <3>3. color'[e[1]] = color[e[1]] /\ level'[e[1]] = level[e[1]] /\ level'[e[2]] = level[e[2]]
      BY <1>1, <3>2
    <3> QED
      BY <1>1, <3>2, <3>3 DEF Ascends, Floating, Behind
  <2>2. CASE e \in GatesOf(i)
    <3>1. e[1] \in PinsOf(i) /\ e[2] \in PinsOf(i)
      BY <2>2, EdgeFacts, LevelizeAssumption DEF GatesOf, PinsOf, AllEdges
    <3>2. {e[1], e[2]} \cap connected' = {}
      BY <1>1, <3>1 DEF LevelizeInv, TypeOK
    <3> QED
      BY <1>1, <3>1, <3>2 DEF Ascends, Floating
  <2> QED
    BY <1>1, <1>4, <2>1, <2>2 DEF Searched, Enabled
<1> QED
  BY <1>1, <1>2, <1>3, <1>4 DEF OrderInv

LEMMA ConnectPinOrder ==
  ASSUME LevelizeInv, RootsInv, OrderInv, NEW v \in Vertices, NEW new \in SUBSET Wires,
         ConnectPin(v, new)
  PROVE  OrderInv'
<1>1. /\ phase = "idle" /\ phase' = "idle"
      /\ UNCHANGED <<level, color, maxLevel, latchDtoQ, todo, graph, blocked>>
      /\ edges' = edges \cup new /\ connected' = connected \cup {v}
      /\ \A e \in new : v \in {e[1], e[2]}
  BY DEF ConnectPin, Edit, callVars
<1>2. /\ valid' = FALSE /\ UNCHANGED <<levelized, roots, disabledLoop>>
      /\ from \subseteq from' /\ v \in from'
      /\ \A e \in edges' : e[2] = v => e[1] \in from'
  BY DEF ConnectPin, InvalidFrom, RelevelizeFrom, loopVars
<1>3. ASSUME NEW e \in Searched'
      PROVE  Kept(e)
  <2>1. e \in edges' /\ (e \in edges => e \in Searched)
    BY <1>1, <1>2 DEF Searched, Enabled, SearchFrom, SearchTo
  <2>2. CASE v \in {e[1], e[2]}
    BY <1>2, <2>1, <2>2 DEF Kept, ToRepair
  <2>3. CASE v \notin {e[1], e[2]}
    BY <1>1, <1>2, <2>1, <2>3 DEF Kept, ToRepair, Floating
  <2> QED
    BY <2>2, <2>3
<1> QED
  BY <1>1, <1>2, <1>3, EditOrder

LEMMA DeleteEdgesOrder ==
  ASSUME LevelizeInv, RootsInv, OrderInv, NEW old \in SUBSET edges, DeleteEdges(old), Edit,
         graph' = graph, connected' \subseteq connected,
         Enabled' \subseteq Enabled
  PROVE  OrderInv'
<1>1. /\ phase = "idle" /\ phase' = "idle"
      /\ UNCHANGED <<level, color, maxLevel, latchDtoQ, todo>>
  BY DEF Edit, callVars
<1>2. CASE old \cap loopEdges = {}
  <2>1. valid' = FALSE /\ from \subseteq from' /\ UNCHANGED <<levelized, roots, disabledLoop>>
    BY <1>2 DEF DeleteEdges, RelevelizeFrom, loopVars
  <2>2. \A e \in Searched' : Kept(e)
    BY <1>1, <2>1 DEF Searched, Floating, Kept, ToRepair
  <2> QED
    BY <1>1, <2>1, <2>2, EditOrder
<1>3. CASE old \cap loopEdges # {}
  <2>1. ~ levelized' /\ roots' = {}
    BY <1>3 DEF DeleteEdges, Clear
  <2> QED
    BY <1>1, <2>1, EditOrder
<1> QED
  BY <1>2, <1>3

LEMMA DisconnectPinOrder ==
  ASSUME LevelizeInv, RootsInv, OrderInv, NEW v \in Vertices, DisconnectPin(v)
  PROVE  OrderInv'
<1>1. /\ Edit /\ graph' = graph /\ edges' \subseteq edges /\ blocked' = blocked \cap edges'
      /\ connected' \subseteq connected /\ WiresOf(v) \in SUBSET edges
  BY DEF DisconnectPin, WiresOf
<1>2. Enabled' \subseteq Enabled
  BY <1>1 DEF Enabled, SearchFrom, SearchTo
<1>3. CASE WiresOf(v) = {}
  <2>1. /\ phase = "idle" /\ phase' = "idle"
        /\ UNCHANGED <<level, color, maxLevel, latchDtoQ, todo, from, valid, levelized, roots,
                       disabledLoop>>
    BY <1>3 DEF DisconnectPin, Edit, callVars, loopVars
  <2>2. \A e \in Searched' : Kept(e)
    BY <1>1, <1>2, <2>1 DEF Searched, Floating, Kept, ToRepair
  <2> QED
    BY <1>1, <2>1, <2>2, EditOrder
<1>4. CASE WiresOf(v) # {}
  <2>1. DeleteEdges(WiresOf(v))
    BY <1>4 DEF DisconnectPin
  <2> QED
    BY <1>1, <1>2, <2>1, DeleteEdgesOrder
<1> QED
  BY <1>3, <1>4

LEMMA ReplaceCellOrder ==
  ASSUME Plain, LevelizeInv, RootsInv, OrderInv, NEW i \in Instances, NEW new \in SUBSET Gates,
         ReplaceCell(i, new)
  PROVE  OrderInv'
<1> DEFINE old == edges \cap GatesOf(i)
<1>1. /\ Edit /\ graph' = graph /\ connected' \subseteq connected
      /\ old \in SUBSET edges /\ DeleteEdges(old)
      /\ edges' = (edges \ old) \cup new /\ blocked' = blocked \ old
      /\ new \subseteq old \ blocked
  BY DEF ReplaceCell, Plain
<1> HIDE DEF old
<1>2. Enabled' \subseteq Enabled
  BY <1>1 DEF Enabled, SearchFrom, SearchTo
<1> QED
  BY <1>1, <1>2, DeleteEdgesOrder

LEMMA DeleteInstanceOrder ==
  ASSUME LevelizeInv, RootsInv, OrderInv, NEW i \in Instances, DeleteInstance(i)
  PROVE  OrderInv'
<1>1. /\ phase = "idle" /\ phase' = "delete"
      /\ UNCHANGED <<level, color, maxLevel, latchDtoQ, todo, graph, edges, blocked, connected,
                     from, valid, levelized, roots, disabledLoop>>
  BY DEF DeleteInstance, graphVars, loopVars, flags
<1>2. \A e \in Searched' : Kept(e)
  BY <1>1 DEF Searched, Enabled, SearchFrom, SearchTo, Floating, Kept, ToRepair
<1> QED
  BY <1>1, <1>2, EditOrder

LEMMA DeletePinOrder ==
  ASSUME LevelizeInv, RootsInv, OrderInv, NEW v \in Vertices, DeletePin(v)
  PROVE  OrderInv'
<1> DEFINE after == {e[2] : e \in WiresOf(v)} \ {v}
<1>1. /\ phase = "delete" /\ phase' \in {"idle", "delete"}
      /\ graph' \subseteq graph /\ edges' = edges \ (InEdges(v) \cup OutEdges(v))
      /\ blocked' = blocked \cap edges' /\ connected' \subseteq connected
      /\ UNCHANGED <<level, color, maxLevel, latchDtoQ, todo>>
  BY DEF DeletePin
<1>2. Enabled' \subseteq Enabled /\ \A e \in Searched' : e[1] # v
  BY <1>1 DEF Searched, Enabled, SearchFrom, SearchTo, OutEdges
<1>3. CASE WiresOf(v) \cap loopEdges = {}
  <2>1. /\ roots' \subseteq roots /\ from' = (from \cup after) \ {v}
        /\ valid' = (valid /\ after = {}) /\ UNCHANGED <<levelized, disabledLoop>>
    BY <1>3 DEF DeletePin, DeleteVertexBefore, loopVars
  <2>2. ASSUME NEW e \in Searched'
        PROVE  Kept(e)
    <3>1. e \in Searched /\ e[1] # v
      BY <1>2, <2>1 DEF Searched
    <3>2. Floating(e) => Floating(e)'
      BY <1>1 DEF Floating
    <3> QED
      BY <2>1, <3>1, <3>2 DEF Kept, ToRepair
  <2> HIDE DEF after
  <2> QED
    BY <1>1, <2>1, <2>2, EditOrder
<1>4. CASE WiresOf(v) \cap loopEdges # {}
  <2>1. ~ levelized' /\ roots' = {}
    BY <1>4 DEF DeletePin, Clear
  <2> QED
    BY <1>1, <2>1, EditOrder
<1> QED
  BY <1>3, <1>4

LEMMA ConstrainOrder ==
  ASSUME Plain, LevelizeInv, RootsInv, OrderInv, NEW e \in AllEdges,
         Constrain(e) \/ SimEdgeChange(e)
  PROVE  OrderInv'
<1>1. Constrain(e)
  BY DEF Plain, SimEdgeChange
<1>2. /\ phase = "idle" /\ phase' = "idle" /\ ~ levelized' /\ roots' = {} /\ graph' = graph
      /\ UNCHANGED <<level, color, maxLevel, latchDtoQ, todo>>
  BY <1>1 DEF Constrain, Invalid, Clear, Edit, callVars
<1> QED
  BY <1>2, EditOrder

------------------------------------------------------------------------------
(* Searches.                                                               *)

(* All edges out of the roots, and out of the vertices that turn white.    *)
LEMMA StartLevelizeOrder ==
  ASSUME LevelizeInv, OrderInv, StartLevelize
  PROVE  OrderInv'
<1>1. /\ phase' = "roots" /\ disabledLoop' = {} /\ work' = roots' /\ maxLevel' = 0
      /\ UNCHANGED <<graph, edges, blocked, latchDtoQ>>
      /\ roots = {}
  BY DEF StartLevelize, OrderInv, graphVars
<1>2. Searched' = Enabled /\ \A v : InEdges(v)' = InEdges(v)
  BY <1>1 DEF Searched, Enabled, InEdges, SearchFrom, SearchTo
<1>3. \A v \in graph : level'[v] = 0
  BY DEF StartLevelize, LevelizeInv, TypeOK
<1>4. \A v \in work' : InEdges(v) \cap Enabled = {}
  BY <1>1 DEF StartLevelize
<1>5. ASSUME NEW e \in Enabled
      PROVE  e[1] \in work' \/ color'[e[1]] = "white"
  <2>1. e \in edges /\ e[1] \in graph /\ e[1] \in Vertices
    BY DEF Enabled, LevelizeInv, TypeOK, Whole
  <2> QED
    BY <1>1, <2>1 DEF StartLevelize
<1>6. \A e \in Searched' : Ascends(e)'
  BY <1>1, <1>2, <1>5 DEF Ascends, Behind
<1> QED
  BY <1>1, <1>2, <1>3, <1>4, <1>6 DEF OrderInv

(* A vertex gets a level that is not lower than before, unless no edge     *)
(* leads to it, and the edges out of it are looked at.                     *)
LEMMA EnterOrder ==
  ASSUME LevelizeInv, OrderInv, NEW v \in graph, NEW l \in Nat,
         level[v] <= l \/ InEdges(v) \cap Searched = {},
         UNCHANGED <<graphVars, flags, disabledLoop, latchDtoQ, phase>>,
         phase \in {"roots", "cycles", "relevelize"},
         color' = [color EXCEPT ![v] = "gray"],
         level' = [level EXCEPT ![v] = l],
         maxLevel' = Deeper(l),
         todo'[v] = IF SearchFrom(v) THEN OutEdges(v) ELSE {},
         work \ {v} \subseteq work', work' \subseteq work,
         \A e \in Searched : e[1] # v /\ e \in todo[e[1]] =>
           e \in todo'[e[1]] \/ level[e[1]] < level'[e[2]]
  PROVE  OrderInv'
<1>1. UNCHANGED <<graph, edges, connected, blocked, levelized, valid>>
  BY DEF graphVars, flags
<1>2. Searched' = Searched /\ \A u : InEdges(u)' = InEdges(u)
  BY <1>1 DEF Searched, Enabled, InEdges, SearchFrom, SearchTo
<1>3. /\ level \in [Vertices -> Nat] /\ color \in [Vertices -> Colors]
      /\ maxLevel \in Nat /\ graph \subseteq Vertices /\ v \in Vertices
  BY DEF LevelizeInv, TypeOK
<1>4. /\ level'[v] = l /\ color'[v] = "gray"
      /\ \A u \in Vertices \ {v} : level'[u] = level[u] /\ color'[u] = color[u]
  BY <1>3
<1>5. \A u \in graph' : level'[u] <= maxLevel'
  BY <1>1, <1>3, <1>4 DEF OrderInv, Deeper
<1>6. \A u \in graph' : color'[u] = "white" => level'[u] = 0
  BY <1>1, <1>3, <1>4 DEF OrderInv
<1>7. ASSUME NEW e \in Searched, Ascends(e)
      PROVE  Ascends(e)'
  <2>1. /\ e[1] \in Vertices /\ e[2] \in Vertices /\ e[1] # e[2]
        /\ SearchFrom(e[1]) /\ e \in OutEdges(e[1]) /\ e \in InEdges(e[2])
    BY SearchedFacts
  <2>2. CASE e[1] = v
    BY <1>4, <2>1, <2>2 DEF Ascends, Behind
  <2>3. CASE e[1] # v
    <3>1. level'[e[1]] = level[e[1]] /\ color'[e[1]] = color[e[1]]
      BY <1>4, <2>1, <2>3
    <3>2. level[e[2]] <= level'[e[2]]
      BY <1>3, <1>4, <1>7, <2>1
    <3>3. CASE level[e[1]] < level[e[2]]
      <4>1. level'[e[1]] < level'[e[2]]
        <5>1. level[e[1]] \in Nat /\ level[e[2]] \in Nat /\ level'[e[2]] \in Nat
          BY <1>3, <1>4, <2>1
        <5> QED
          BY <3>1, <3>2, <3>3, <5>1
      <4> QED
        BY <4>1 DEF Ascends
    <3>4. CASE Floating(e)
      BY <1>1, <3>1, <3>4 DEF Ascends, Floating
    <3>5. CASE Behind(e)
      <4>1. CASE color[e[1]] = "gray" /\ e \in todo[e[1]]
        BY <2>3, <3>1, <4>1 DEF Ascends, Behind
      <4>2. CASE ~ (color[e[1]] = "gray" /\ e \in todo[e[1]])
        BY <2>3, <3>1, <3>5, <4>2 DEF Ascends, Behind
      <4> QED
        BY <4>1, <4>2
    <3> QED
      BY <1>7, <3>3, <3>4, <3>5 DEF Ascends
  <2> QED
    BY <2>2, <2>3
<1>8. phase' = "roots" => \A u \in work' : InEdges(u)' \cap Searched' = {}
  BY <1>2 DEF OrderInv
<1>9. levelized' \/ phase' \in {"roots", "latches", "cycles"} => \A e \in Searched' : Ascends(e)'
  BY <1>1, <1>2, <1>7 DEF OrderInv
<1> QED
  BY <1>1, <1>5, <1>6, <1>8, <1>9 DEF OrderInv

(* The same for a call from levelize or relevelize.                        *)
LEMMA EnterFirstOrder ==
  ASSUME LevelizeInv, OrderInv, NEW v \in graph, NEW l \in Nat,
         level[v] <= l \/ InEdges(v) \cap Searched = {},
         UNCHANGED <<graphVars, flags, loopVars, latchDtoQ, phase>>,
         phase \in {"roots", "cycles", "relevelize"},
         Enter(v, l), work' = work \ {v}
  PROVE  OrderInv'
<1>1. /\ color' = [color EXCEPT ![v] = "gray"]
      /\ level' = [level EXCEPT ![v] = l]
      /\ maxLevel' = Deeper(l)
      /\ todo' = [todo EXCEPT ![v] = IF SearchFrom(v) THEN OutEdges(v) ELSE {}]
      /\ todo \in [Vertices -> SUBSET AllEdges] /\ v \in Vertices
  BY DEF Enter, LevelizeInv, TypeOK
<1>2. todo'[v] = IF SearchFrom(v) THEN OutEdges(v) ELSE {}
  BY <1>1
<1>3. \A e \in Searched : e[1] # v => todo'[e[1]] = todo[e[1]]
  BY <1>1, SearchedFacts
<1> QED
  BY <1>1, <1>2, <1>3, EnterOrder DEF loopVars

LEMMA VisitRootOrder ==
  ASSUME LevelizeInv, OrderInv, NEW v \in Vertices, VisitRoot(v)
  PROVE  OrderInv'
<1>1. /\ phase = "roots" /\ work' = work \ {v} /\ Enter(v, 0)
      /\ UNCHANGED <<graphVars, flags, loopVars, latchDtoQ, phase>>
  BY DEF VisitRoot
<1>2. v \in graph /\ InEdges(v) \cap Searched = {}
  BY DEF VisitRoot, LevelizeInv, Whole, OrderInv
<1> QED
  BY <1>1, <1>2, EnterFirstOrder

(* A step that leaves levels and colors alone takes from the vertices to   *)
(* be visited one whose edges need no visit.                               *)
LEMMA SkipOrder ==
  ASSUME LevelizeInv, OrderInv, NEW v,
         UNCHANGED <<graphVars, flags, loopVars, latchDtoQ, phase, level, color, maxLevel, todo>>,
         phase \in {"cycles", "relevelize"}, work' = work \ {v},
         phase = "cycles" => color[v] # "white",
         phase = "relevelize" => ~ SearchFrom(v)
  PROVE  OrderInv'
<1>1. UNCHANGED <<graph, edges, connected, blocked, levelized, valid, disabledLoop>>
  BY DEF graphVars, flags, loopVars
<1>2. Searched' = Searched
  BY <1>1 DEF Searched, Enabled, SearchFrom, SearchTo
<1>3. ASSUME NEW e \in Searched, Ascends(e)
      PROVE  Ascends(e)'
  <2>1. SearchFrom(e[1])
    BY SearchedFacts
  <2> QED
    BY <1>1, <1>3, <2>1 DEF Ascends, Floating, Behind
<1> QED
  BY <1>1, <1>2, <1>3 DEF OrderInv

LEMMA VisitCycleOrder ==
  ASSUME LevelizeInv, OrderInv, NEW v \in Vertices, VisitCycle(v)
  PROVE  OrderInv'
<1>1. /\ phase = "cycles" /\ work' = work \ {v} /\ v \in graph
      /\ UNCHANGED <<graphVars, flags, loopVars, latchDtoQ, phase>>
  BY DEF VisitCycle, LevelizeInv, Whole
<1>2. CASE color[v] = "white"
  <2>1. Enter(v, 0) /\ level[v] <= 0
    BY <1>1, <1>2 DEF VisitCycle, OrderInv
  <2> QED
    BY <1>1, <2>1, EnterFirstOrder
<1>3. CASE color[v] # "white"
  BY <1>1, <1>3, SkipOrder DEF VisitCycle
<1> QED
  BY <1>2, <1>3

LEMMA RevisitFromOrder ==
  ASSUME LevelizeInv, OrderInv, NEW v \in Vertices, RevisitFrom(v)
  PROVE  OrderInv'
<1>1. /\ phase = "relevelize" /\ work' = work \ {v} /\ v \in graph
      /\ UNCHANGED <<graphVars, flags, loopVars, latchDtoQ, phase>>
  BY DEF RevisitFrom, LevelizeInv, Whole
<1>2. CASE SearchFrom(v) /\ IsRoot(v)
  <2>1. Enter(v, 0) /\ InEdges(v) \cap Searched = {}
    BY <1>2 DEF RevisitFrom, IsRoot
  <2> QED
    BY <1>1, <2>1, EnterFirstOrder
<1>3. CASE SearchFrom(v) /\ ~ IsRoot(v)
  <2>1. Enter(v, level[v]) /\ level[v] \in Nat /\ level[v] <= level[v]
    BY <1>3 DEF RevisitFrom, LevelizeInv, TypeOK
  <2> QED
    BY <1>1, <2>1, EnterFirstOrder
<1>4. CASE ~ SearchFrom(v)
  BY <1>1, <1>4, SkipOrder DEF RevisitFrom
<1> QED
  BY <1>2, <1>3, <1>4

LEMMA VisitEdgeOrder ==
  ASSUME Plain, LevelizeInv, OrderInv, NEW e \in AllEdges, VisitEdge(e)
  PROVE  OrderInv'
<1> DEFINE v == Top
           w == e[2]
           l == level[v] + Space
           taken == e \in Searched
<1>1. /\ stack # <<>> /\ e \in todo[v]
      /\ UNCHANGED <<graphVars, flags, phase, work, latchDtoQ>>
  BY DEF VisitEdge, Plain, OrderInv
<1>2. v \in Vertices /\ e[1] = v /\ w \in Vertices /\ v # w
  <2>1. v \in Vertices
    BY <1>1, Pop DEF LevelizeInv, TypeOK, Top
  <2>2. e[1] = v
    BY <1>1, <2>1 DEF LevelizeInv, Calls
  <2> QED
    BY <2>1, <2>2, EdgeFacts
<1>3. phase \in {"roots", "cycles", "relevelize"}
  BY <1>1 DEF LevelizeInv, Calls
<1>4. /\ level[v] \in Nat /\ level[w] \in Nat /\ l \in Nat /\ level[v] < l
      /\ todo \in [Vertices -> SUBSET AllEdges]
  BY <1>2, LevelizeAssumption DEF LevelizeInv, TypeOK, Space
<1>5. CASE taken /\ color[w] # "gray" /\ Follow(w, l)
  <2>1. /\ color' = [color EXCEPT ![w] = "gray"]
        /\ level' = [level EXCEPT ![w] = l]
        /\ maxLevel' = Deeper(l)
        /\ todo' = [todo EXCEPT ![v] = @ \ {e},
                                ![w] = IF SearchFrom(w) THEN OutEdges(w) ELSE {}]
        /\ UNCHANGED <<graphVars, flags, disabledLoop, latchDtoQ, phase>>
        /\ work \ {w} \subseteq work' /\ work' \subseteq work
    BY <1>1, <1>5 DEF VisitEdge, loopVars
  <2>2. w \in graph
    BY <1>5, SearchedFacts
  <2>3. level[w] <= l
    BY <1>4, <1>5, <2>2 DEF Follow, OrderInv
  <2>4. /\ todo'[w] = IF SearchFrom(w) THEN OutEdges(w) ELSE {}
        /\ todo'[v] = todo[v] \ {e}
        /\ \A u \in Vertices \ {v, w} : todo'[u] = todo[u]
        /\ level'[w] = l
    BY <1>2, <1>4, <2>1 DEF LevelizeInv, TypeOK
  <2>5. ASSUME NEW f \in Searched, f[1] # w, f \in todo[f[1]]
        PROVE  f \in todo'[f[1]] \/ level[f[1]] < level'[f[2]]
    <3>1. f[1] \in Vertices
      BY SearchedFacts
    <3> QED
      BY <1>2, <1>4, <2>4, <2>5, <3>1
  <2> HIDE DEF w, l
  <2> QED
    BY <1>3, <1>4, <2>1, <2>2, <2>3, <2>4, <2>5, EnterOrder
<1>6. CASE ~ (taken /\ color[w] # "gray" /\ Follow(w, l))
  <2>1. /\ todo' = [todo EXCEPT ![v] = @ \ {e}]
        /\ UNCHANGED <<color, level, maxLevel>>
    BY <1>6 DEF VisitEdge
  <2>2. /\ disabledLoop \subseteq disabledLoop'
        /\ taken /\ color[w] = "gray" => e \in disabledLoop'
    BY DEF VisitEdge, loopVars
  <2>3. UNCHANGED <<graph, edges, connected, blocked, levelized, valid>>
    BY <1>1 DEF graphVars, flags
  <2>4. /\ Searched' \subseteq Searched
        /\ e \in Searched' => taken /\ color[w] # "gray"
    BY <2>2, <2>3 DEF Searched, Enabled, SearchFrom, SearchTo
  <2>5. e \in Searched' => level[v] < level[w]
    BY <1>4, <1>6, <2>4 DEF Follow
  <2>6. \A f \in Searched : f # e /\ f \in todo[f[1]] => f \in todo'[f[1]]
    BY <1>2, <1>4, <2>1, SearchedFacts
  <2>7. ASSUME NEW f \in Searched', Ascends(f)
        PROVE  Ascends(f)'
    <3>1. CASE f = e
      BY <1>2, <2>1, <2>5, <2>7, <3>1 DEF Ascends
    <3>2. CASE f # e
      BY <1>1, <1>3, <2>1, <2>3, <2>4, <2>6, <2>7, <3>2 DEF Ascends, Floating, Behind
    <3> QED
      BY <3>1, <3>2
  <2>8. phase' = "roots" => \A u \in work' : InEdges(u)' \cap Searched' = {}
    BY <1>1, <2>3, <2>4 DEF OrderInv, InEdges
  <2> QED
    BY <1>1, <1>3, <2>1, <2>3, <2>4, <2>7, <2>8 DEF OrderInv
<1> QED
  BY <1>5, <1>6

(* The edges of a call that returns have been looked at.                   *)
LEMMA LeaveOrder ==
  ASSUME LevelizeInv, OrderInv, Leave
  PROVE  OrderInv'
<1>1. /\ stack # <<>> /\ todo[Top] = {} /\ color' = [color EXCEPT ![Top] = "black"]
      /\ UNCHANGED <<graph, edges, connected, blocked, levelized, valid, disabledLoop, level,
                     maxLevel, latchDtoQ, phase, work, todo, from, roots>>
  BY DEF Leave, graphVars, loopVars, flags
<1>2. Searched' = Searched /\ \A u : InEdges(u)' = InEdges(u)
  BY <1>1 DEF Searched, Enabled, InEdges, SearchFrom, SearchTo
<1>3. color[Top] # "white"
  <2>1. Top = stack[1] /\ 1 \in 1 .. Len(stack)
    BY <1>1, Pop DEF LevelizeInv, TypeOK, Top
  <2> QED
    BY <2>1 DEF LevelizeInv, Calls
<1>4. \A u \in Vertices : /\ color'[u] = "white" <=> color[u] = "white"
                          /\ color'[u] = "gray" <=> color[u] = "gray" /\ u # Top
  BY <1>1, <1>3 DEF LevelizeInv, TypeOK
<1>5. ASSUME NEW e \in Searched, Ascends(e)
      PROVE  Ascends(e)'
  <2>1. e[1] \in Vertices
    BY SearchedFacts
  <2> QED
    BY <1>1, <1>4, <1>5, <2>1 DEF Ascends, Floating, Behind
<1>6. \A u \in graph' : color'[u] = "white" => level'[u] = 0
  BY <1>1, <1>4 DEF OrderInv, LevelizeInv, TypeOK
<1> QED
  BY <1>1, <1>2, <1>5, <1>6 DEF OrderInv

LEMMA PhasesOrder ==
  ASSUME LevelizeInv, RootsInv, OrderInv,
         \/ RootsDone \/ StartCycles \/ CyclesDone
         \/ StartRelevelize \/ RelevelizeDone \/ LatchesDone
         \/ \E e \in AllEdges : EnsureLatchLevel(e)
  PROVE  OrderInv'
<1>1. ~ \E e \in AllEdges : EnsureLatchLevel(e)
  BY DEF EnsureLatchLevel, OrderInv
<1>2. UNCHANGED <<graph, edges, connected, blocked, disabledLoop, level, color, maxLevel,
                  latchDtoQ, roots, todo>>
  BY <1>1 DEF RootsDone, StartCycles, CyclesDone, StartRelevelize, RelevelizeDone, LatchesDone,
              graphVars, loopVars
<1>3. Searched' = Searched
  BY <1>2 DEF Searched, Enabled, SearchFrom, SearchTo
<1>4. ASSUME NEW e \in Searched, Ascends(e)
      PROVE  Ascends(e)'
  <2>1. SearchFrom(e[1]) /\ e[1] \in graph
    BY SearchedFacts
  <2> QED
    BY <1>1, <1>2, <1>4, <2>1
    DEF Ascends, Floating, Behind, RootsDone, StartCycles, CyclesDone, StartRelevelize,
        RelevelizeDone, LatchesDone, flags
<1>5. /\ levelized \/ phase \in {"roots", "latches", "cycles"}
      /\ phase' # "roots"
      /\ phase' \in {"idle", "delete"} => levelized'
  BY <1>1 DEF RootsDone, StartCycles, CyclesDone, StartRelevelize, RelevelizeDone, LatchesDone,
              RootsInv, flags
<1> QED
  BY <1>2, <1>3, <1>4, <1>5 DEF OrderInv

------------------------------------------------------------------------------
LEMMA OrderNext ==
  ASSUME Plain, LevelizeInv, RootsInv, OrderInv, [Next]_vars
  PROVE  OrderInv'
<1>1. ASSUME NEW i \in Instances, MakeInstance(i) \/ DeleteInstance(i)
      PROVE  OrderInv'
  BY <1>1, MakeInstanceOrder, DeleteInstanceOrder
<1>2. ASSUME NEW v \in Vertices, NEW new \in SUBSET Wires, ConnectPin(v, new)
      PROVE  OrderInv'
  BY <1>2, ConnectPinOrder
<1>3. ASSUME NEW i \in Instances, NEW new \in SUBSET Gates, ReplaceCell(i, new)
      PROVE  OrderInv'
  BY <1>3, ReplaceCellOrder
<1>4. ASSUME NEW v \in Vertices, DisconnectPin(v) \/ DeletePin(v)
      PROVE  OrderInv'
  BY <1>4, DisconnectPinOrder, DeletePinOrder
<1>5. ASSUME NEW e \in AllEdges, Constrain(e) \/ SimEdgeChange(e)
      PROVE  OrderInv'
  BY <1>5, ConstrainOrder
<1>6. CASE Ensure
  <2>1. ASSUME NEW v \in Vertices, VisitRoot(v) \/ VisitCycle(v) \/ RevisitFrom(v)
        PROVE  OrderInv'
    BY <2>1, VisitRootOrder, VisitCycleOrder, RevisitFromOrder
  <2>2. ASSUME NEW e \in AllEdges, VisitEdge(e)
        PROVE  OrderInv'
    BY <2>2, VisitEdgeOrder
  <2> QED
    BY <1>6, <2>1, <2>2, StartLevelizeOrder, LeaveOrder, PhasesOrder DEF Ensure
<1>7. CASE UNCHANGED vars
  <2>1. UNCHANGED <<graph, edges, connected, blocked, level, color, maxLevel, roots, from,
                    disabledLoop, latchDtoQ, levelized, valid, phase, work, todo>>
    BY <1>7 DEF vars, graphVars, loopVars, flags, callVars
  <2> QED
    BY <2>1 DEF OrderInv, Ascends, Floating, Behind, InEdges, Searched, Enabled, SearchFrom,
                SearchTo
<1> QED
  BY <1>1, <1>2, <1>3, <1>4, <1>5, <1>6, <1>7 DEF Next

(* When the levels are valid, a vertex is above the sources of the edges   *)
(* that are searched and not above the maximum, whatever was edited and    *)
(* repaired: what BfsIteratorProofs assumes of the levels.                 *)
THEOREM LevelsAscend ==
  ASSUME Plain
  PROVE  Spec => []LevelsOrdered
<1>1. Init => RootsInv /\ OrderInv
  <2>1. Init => RootsInv
    BY DEF Init, RootsInv
  <2> QED
    BY <2>1, InitOrder
<1>2. LevelizeInv /\ RootsInv /\ OrderInv /\ [Next]_vars => RootsInv' /\ OrderInv'
  BY RootsNext, OrderNext DEF Plain
<1>3. LevelizeInv /\ RootsInv /\ OrderInv => LevelsOrdered
  <2> SUFFICES ASSUME LevelizeInv, RootsInv, OrderInv, valid, phase = "idle"
               PROVE  /\ \A e \in Searched : level[e[1]] < level[e[2]] \/ Floating(e)
                      /\ \A v \in graph : level[v] <= maxLevel
    BY DEF LevelsOrdered
  <2>1. ASSUME NEW e \in Searched
        PROVE  level[e[1]] < level[e[2]] \/ Floating(e)
    <3>1. Ascends(e)
      BY DEF RootsInv, OrderInv
    <3>2. color[e[1]] # "gray"
      <4>1. e[1] \in Vertices
        BY SearchedFacts
      <4>2. stack = <<>> /\ Len(stack) = 0
        BY DEF LevelizeInv, Calls
      <4> QED
        BY <4>1, <4>2 DEF LevelizeInv, Calls
    <3> QED
      BY <3>1, <3>2 DEF Ascends, Behind
  <2> QED
    BY <2>1 DEF OrderInv
<1> QED
  BY <1>1, <1>2, <1>3, LevelizeInvariant, PTL DEF Spec
=============================================================================
