------------------------------- MODULE Levelize -------------------------------
(***************************************************************************)
(* Logic levels of the timing graph (search/Levelize.cc): a depth first    *)
(* search from the roots, loops broken on the way, and the incremental     *)
(* relevelization after edits of the netlist and changes of constraints    *)
(* (search/Sta.cc).  One step is the visit of a vertex, of an edge, or the *)
(* return of Levelize::visit, so that the recursion and the order in which *)
(* edges are met are explicit.                                             *)
(*                                                                         *)
(* Not modelled: the driver of a top level bidirect port, which visit      *)
(* treats as a fanout of its load when bidirect instance paths are         *)
(* enabled; the check against Graph::vertex_level_max; loop reports.       *)
(***************************************************************************)
EXTENDS Integers, Sequences, FiniteSets

CONSTANTS
  Vertices,
  Loads,                (* vertices of load pins, the others are drivers   *)
  Instance,             (* of each vertex: the instance its pin belongs to *)
  Wires,                (* edges <<driver, load>> that nets may make       *)
  Gates,                (* edges <<load, driver>> that cells may have      *)
  LatchEdges,           (* those of role latchDtoQ whose enable is active  *)
  Constants,            (* vertices with a constant logic value            *)
  LevelSpace,           (* level_space_, the step of a full levelization   *)
  MaxEdits,             (* bound: edits of the netlist and the constraints *)
  NewArcs,              (* whether a cell is replaced by one with more arcs*)
  SimEdits              (* whether logic values change with the netlist    *)

AllEdges == Wires \cup Gates

(* A latch D pin has arcs to the latch outputs only.                       *)
ASSUME LevelizeAssumption ==
  /\ Loads \subseteq Vertices
  /\ Wires \subseteq (Vertices \ Loads) \X Loads
  /\ Gates \subseteq Loads \X (Vertices \ Loads)
  /\ \A e \in Gates : Instance[e[1]] = Instance[e[2]]
  /\ LatchEdges \subseteq Gates
  /\ \A e \in LatchEdges, f \in Gates : f[1] = e[1] => f \in LatchEdges
  /\ Constants \subseteq Vertices
  /\ LevelSpace \in Nat \ {0}
  /\ MaxEdits \in Nat
  /\ NewArcs \in BOOLEAN
  /\ SimEdits \in BOOLEAN

VARIABLES
  graph,                (* the vertices of the graph                       *)
  edges,                (* its edges                                       *)
  connected,            (* the vertices of pins that are on a net          *)
  blocked,              (* edges disabled by constraints or logic values   *)
  level, color,         (* of each vertex                                  *)
  maxLevel,             (* max_level_                                      *)
  roots,                (* roots_                                          *)
  from,                 (* relevelize_from_                                *)
  disabledLoop,         (* disabled_loop_edges_                            *)
  loopEdges,            (* loop_edges_                                     *)
  latchDtoQ,            (* latch_d_to_q_edges_                             *)
  levelized, valid,     (* levelized_, levels_valid_                       *)
  phase,                (* where ensureLevelized stands                    *)
  full,                 (* in levelize() rather than in relevelize()       *)
  work,                 (* the vertices the phase has still to visit from  *)
  stack,                (* the active calls of visit(), innermost first    *)
  todo,                 (* their out edges that are still to be looked at  *)
  edits                 (* edits so far                                    *)

graphVars == <<graph, edges, connected, blocked>>
loopVars  == <<disabledLoop, loopEdges>>
flags     == <<levelized, valid>>
callVars  == <<phase, full, work, stack, todo>>
vars == <<graphVars, level, color, maxLevel, roots, from, loopVars, latchDtoQ,
          flags, callVars, edits>>

Colors == {"white", "gray", "black"}
Phases ==
  {"idle", "delete", "roots", "latches", "cycles", "relevelize", "lastLatches"}

------------------------------------------------------------------------------
(* SearchPredNonLatch2 on a vertex and on an edge, but for the loop flag   *)
(* and with it.                                                            *)
SearchFrom(v) == v \notin Constants
SearchTo(v) == v \notin Constants

Enabled ==
  {e \in edges \ (blocked \cup LatchEdges) : SearchFrom(e[1]) /\ SearchTo(e[2])}
Searched == Enabled \ disabledLoop

Instances == {Instance[v] : v \in Vertices}
PinsOf(i) == {v \in Vertices : Instance[v] = i}
GatesOf(i) == {e \in Gates : Instance[e[1]] = i}

InEdges(v) == {e \in edges : e[2] = v}
OutEdges(v) == {e \in edges : e[1] = v}

IsRoot(v) == SearchTo(v) /\ \A e \in InEdges(v) : e \notin Searched

Init ==
  /\ graph \in {UNION {PinsOf(i) : i \in made} : made \in SUBSET Instances}
  /\ edges \in {(g \cup w) \cap (graph \X graph) :
                 g \in IF NewArcs THEN SUBSET Gates ELSE {Gates},
                 w \in SUBSET Wires}
  /\ \A v \in Loads : Cardinality(InEdges(v)) <= 1
  /\ connected = {v \in graph : v \in Loads => InEdges(v) # {}}
  /\ blocked \in SUBSET IF SimEdits THEN edges \cap Gates ELSE {}
  /\ level = [v \in Vertices |-> 0]
  /\ color = [v \in Vertices |-> "white"]
  /\ maxLevel = 0
  /\ roots = {}
  /\ from = {}
  /\ disabledLoop = {}
  /\ loopEdges = {}
  /\ latchDtoQ = {}
  /\ levelized = FALSE
  /\ valid = FALSE
  /\ phase = "idle"
  /\ full = FALSE
  /\ work = {}
  /\ stack = <<>>
  /\ todo = [v \in Vertices |-> {}]
  /\ edits = 0

------------------------------------------------------------------------------
(* Mutants: what the operators of the same names without the suffix would  *)
(* be after plausible mistakes in the code; the specification does not use *)
(* them.                                                                   *)

DeleteVertexBeforeForgets(v, after) ==
  /\ roots' = roots
  /\ from' = (from \cup after) \ {v}

DeleteEdgesUnlooped(old) ==
  /\ from' = from \cup {e[2] : e \in old}
  /\ valid' = FALSE
  /\ UNCHANGED <<levelized, roots, loopVars>>

InvalidFromAlone(v) ==
  /\ from' = from \cup {v}
  /\ valid' = FALSE
  /\ UNCHANGED <<levelized, roots, loopVars>>

RootedNever(v) == roots

EnsureLatchLevelAbove(e) ==
  /\ phase \in {"latches", "lastLatches"}
  /\ e \in latchDtoQ
  /\ level' = IF level[e[1]] > level[e[2]]
                THEN [level EXCEPT ![e[1]] = @ + LevelSpace]
                ELSE level
  /\ latchDtoQ' = latchDtoQ \ {e}
  /\ UNCHANGED <<graphVars, color, maxLevel, roots, from, loopVars, flags,
                 callVars, edits>>

------------------------------------------------------------------------------
(* Edits between two queries of the timing engine.                         *)

Edit ==
  /\ phase = "idle"
  /\ edits < MaxEdits
  /\ edits' = edits + 1
  /\ UNCHANGED <<level, color, maxLevel, latchDtoQ, callVars>>

(* Levels are to be repaired from the vertices of S.                       *)
RelevelizeFrom(S) ==
  /\ from' = from \cup S
  /\ valid' = FALSE
  /\ UNCHANGED <<levelized, roots, loopVars>>

(* Levelize::clear, called by invalid().                                   *)
Clear ==
  /\ levelized' = FALSE
  /\ valid' = FALSE
  /\ roots' = {}
  /\ disabledLoop' = {}
  /\ loopEdges' = {}

Invalid == Clear /\ from' = {}

(* Sta::deleteEdge of one edge after the other: relevelizeFrom(to), then   *)
(* deleteEdgeBefore, which starts over when the edge is part of a loop;    *)
(* the repairs asked for after that are kept.                              *)
DeleteEdges(old) ==
  LET to == {e[2] : e \in old}
  IN  IF old \cap loopEdges = {}
        THEN RelevelizeFrom(to)
        ELSE Clear /\ from' \in SUBSET to

(* Sta::makeInstanceAfter: the vertices and the edges between them; levels *)
(* are repaired when a pin is connected.                                   *)
MakeInstance(i) ==
  /\ phase = "idle"
  /\ edits < MaxEdits
  /\ edits' = edits + 1
  /\ PinsOf(i) \cap graph = {}
  /\ graph' = graph \cup PinsOf(i)
  /\ edges' = edges \cup GatesOf(i)
  /\ level' = [v \in Vertices |-> IF v \in graph THEN level[v] ELSE 0]
  /\ color' = [v \in Vertices |-> IF v \in graph THEN color[v] ELSE "white"]
  /\ UNCHANGED <<connected, blocked, maxLevel, roots, from, loopVars,
                 latchDtoQ, flags, callVars>>

(* invalidFrom(v): the vertex and its fanin.                               *)
InvalidFrom(v) ==
  RelevelizeFrom({v} \cup {e[1] : e \in {f \in edges' : f[2] = v}})

(* Sta::connectPinAfter: the wires of the pin are made, to the pins on the *)
(* net, and levels repaired from the pin.                                  *)
ConnectPin(v, new) ==
  /\ Edit
  /\ v \in graph \ connected
  /\ new \subseteq Wires
  /\ \A e \in new : v \in {e[1], e[2]} /\ {e[1], e[2]} \subseteq connected \cup {v}
  /\ connected' = connected \cup {v}
  /\ edges' = edges \cup new
  /\ InvalidFrom(v)
  /\ UNCHANGED <<graph, blocked>>

WiresOf(v) == {e \in edges \cap Wires : v \in {e[1], e[2]}}

(* Sta::disconnectPinBefore.                                               *)
DisconnectPin(v) ==
  /\ Edit
  /\ v \in connected
  /\ connected' = connected \ {v}
  /\ edges' = edges \ WiresOf(v)
  /\ blocked' = blocked \cap edges'
  /\ IF WiresOf(v) = {}
       THEN UNCHANGED <<from, valid, levelized, roots, loopVars>>
       ELSE DeleteEdges(WiresOf(v))
  /\ UNCHANGED graph

(* Sta::replaceCell by a cell that is not equivalent: the edges of the old *)
(* cell are deleted and those of the new one made.                         *)
ReplaceCell(i, new) ==
  LET old == edges \cap GatesOf(i)
  IN  /\ Edit
      /\ old # {}
      /\ new \subseteq GatesOf(i)
      /\ NewArcs \/ new \subseteq old \ blocked
      /\ edges' = (edges \ old) \cup new
      /\ blocked' = blocked \ old
      /\ DeleteEdges(old)
      /\ UNCHANGED <<graph, connected>>

(* deleteVertexBefore, and relevelizeFrom of what v drove.                 *)
DeleteVertexBefore(v, after) ==
  /\ roots' = roots \ {v}
  /\ from' = (from \cup after) \ {v}

(* Sta::deleteInstanceBefore, and deletePinBefore for each of its pins.    *)
DeleteInstance(i) ==
  /\ phase = "idle"
  /\ edits < MaxEdits
  /\ edits' = edits + 1
  /\ PinsOf(i) \subseteq graph
  /\ phase' = "delete"
  /\ work' = PinsOf(i)
  /\ UNCHANGED <<graphVars, level, color, maxLevel, roots, from, loopVars,
                 latchDtoQ, flags, full, stack, todo>>

(* Of the edges that go with the vertex, deleteEdgeBefore is told of those *)
(* on the side of the net.                                                 *)
DeletePin(v) ==
  LET after == {e[2] : e \in WiresOf(v)} \ {v}
  IN  /\ phase = "delete"
      /\ v \in work
      /\ work' = work \ {v}
      /\ phase' = IF work' = {} THEN "idle" ELSE "delete"
      /\ graph' = graph \ {v}
      /\ edges' = edges \ (InEdges(v) \cup OutEdges(v))
      /\ connected' = connected \ {v}
      /\ blocked' = blocked \cap edges'
      /\ IF WiresOf(v) \cap loopEdges = {}
           THEN /\ DeleteVertexBefore(v, after)
                /\ valid' = (valid /\ after = {})
                /\ UNCHANGED <<levelized, loopVars>>
           ELSE Clear /\ from' \in SUBSET after
      /\ UNCHANGED <<level, color, maxLevel, latchDtoQ, full, stack, todo,
                     edits>>

(* set_disable_timing, set_case_analysis and the like, or their removal:   *)
(* Levelize::invalid().                                                    *)
Constrain(e) ==
  /\ Edit
  /\ e \in edges
  /\ blocked' = IF e \in blocked THEN blocked \ {e} ELSE blocked \cup {e}
  /\ Invalid
  /\ UNCHANGED <<graph, edges, connected>>

(* A logic value changed with the netlist and with it the edges of another *)
(* pin of the gate (a multiplexer select): Sim::annotateVertexEdges calls  *)
(* faninEdgesChangeAfter, which does not tell Levelize.                    *)
SimEdgeChange(e) ==
  /\ SimEdits
  /\ Edit
  /\ e \in edges
  /\ blocked' = IF e \in blocked THEN blocked \ {e} ELSE blocked \cup {e}
  /\ UNCHANGED <<graph, edges, connected, roots, from, loopVars, flags>>

------------------------------------------------------------------------------
(* Levelize::visit.                                                        *)

Deeper(l) == IF l > maxLevel THEN l ELSE maxLevel

(* The call: the vertex turns gray and gets its level.                     *)
Enter(v, l) ==
  /\ color' = [color EXCEPT ![v] = "gray"]
  /\ level' = [level EXCEPT ![v] = l]
  /\ maxLevel' = Deeper(l)
  /\ stack' = <<v>> \o stack
  /\ todo' = [todo EXCEPT ![v] = IF SearchFrom(v) THEN OutEdges(v) ELSE {}]

Top == Head(stack)
Space == IF full THEN LevelSpace ELSE 1

(* The edges of the active calls from w on, and the edge that closes the   *)
(* loop.                                                                   *)
LoopThrough(e) ==
  {e} \cup {<<stack[i + 1], stack[i]>> :
              i \in {j \in 1 .. Len(stack) - 1 :
                       \E k \in j + 1 .. Len(stack) : stack[k] = e[2]}}

(* Whether w is visited, to be given the level l.                          *)
Follow(w, l) == color[w] = "white" \/ level[w] < l

(* An edge to an active vertex closes a loop and is disabled; an edge to a *)
(* vertex without a level, or with one that is too low, is followed.       *)
VisitEdge(e) ==
  LET v == Top
      w == e[2]
      l == level[v] + Space
      taken == e \in Searched
  IN  /\ stack # <<>>
      /\ e \in todo[v]
      /\ IF taken /\ color[w] # "gray" /\ Follow(w, l)
           THEN /\ color' = [color EXCEPT ![w] = "gray"]
                /\ level' = [level EXCEPT ![w] = l]
                /\ maxLevel' = Deeper(l)
                /\ stack' = <<w>> \o stack
                /\ todo' = [todo EXCEPT
                              ![v] = @ \ {e},
                              ![w] = IF SearchFrom(w) THEN OutEdges(w) ELSE {}]
           ELSE /\ todo' = [todo EXCEPT ![v] = @ \ {e}]
                /\ UNCHANGED <<color, level, maxLevel, stack>>
      /\ IF taken /\ color[w] = "gray"
           THEN /\ disabledLoop' = disabledLoop \cup {e}
                /\ loopEdges' = loopEdges \cup LoopThrough(e)
           ELSE UNCHANGED loopVars
      /\ latchDtoQ' = latchDtoQ \cup ({e} \cap LatchEdges)
      /\ UNCHANGED <<graphVars, roots, from, flags, phase, full, work, edits>>

(* The return: the vertex turns black.                                     *)
Leave ==
  /\ stack # <<>>
  /\ todo[Top] = {}
  /\ color' = [color EXCEPT ![Top] = "black"]
  /\ stack' = Tail(stack)
  /\ UNCHANGED <<graphVars, level, maxLevel, roots, from, loopVars, latchDtoQ,
                 flags, phase, full, work, todo, edits>>

------------------------------------------------------------------------------
(* Levelize::levelize.                                                     *)

(* All levels are 0 again, and the roots are collected; those with a       *)
(* fanout are colored black so that levelizeCycles leaves them alone.      *)
StartLevelize ==
  /\ phase = "idle"
  /\ ~ valid
  /\ ~ levelized
  /\ maxLevel' = 0
  /\ disabledLoop' = {}
  /\ loopEdges' = {}
  /\ LET searched == Enabled
         root(v) == SearchTo(v) /\ \A e \in InEdges(v) : e \notin searched
         fanout(v) == \E e \in OutEdges(v) : e \in searched
     IN  /\ roots' = roots \cup {v \in graph : root(v)}
         /\ color' = [v \in Vertices |->
                        IF v \notin graph THEN color[v]
                        ELSE IF ~ root(v) THEN "white"
                        ELSE IF fanout(v) THEN "black" ELSE color[v]]
  /\ level' = [v \in Vertices |-> IF v \in graph THEN 0 ELSE level[v]]
  /\ work' = roots'
  /\ full' = TRUE
  /\ phase' = "roots"
  /\ UNCHANGED <<graphVars, from, latchDtoQ, flags, stack, todo, edits>>

(* levelizeFrom(roots).                                                    *)
VisitRoot(v) ==
  /\ phase = "roots"
  /\ stack = <<>>
  /\ v \in work
  /\ work' = work \ {v}
  /\ Enter(v, 0)
  /\ UNCHANGED <<graphVars, roots, from, loopVars, latchDtoQ, flags, phase,
                 full, edits>>

RootsDone ==
  /\ phase = "roots"
  /\ stack = <<>>
  /\ work = {}
  /\ phase' = "latches"
  /\ UNCHANGED <<graphVars, level, color, maxLevel, roots, from, loopVars,
                 latchDtoQ, flags, full, work, stack, todo, edits>>

(* ensureLatchLevels, one latch.                                           *)
EnsureLatchLevel(e) ==
  /\ phase \in {"latches", "lastLatches"}
  /\ e \in latchDtoQ
  /\ level' = IF level[e[1]] = level[e[2]]
                THEN [level EXCEPT ![e[1]] = @ + LevelSpace]
                ELSE level
  /\ latchDtoQ' = latchDtoQ \ {e}
  /\ UNCHANGED <<graphVars, color, maxLevel, roots, from, loopVars, flags,
                 callVars, edits>>

(* levelizeCycles: the vertices that no root reaches.                      *)
StartCycles ==
  /\ phase = "latches"
  /\ latchDtoQ = {}
  /\ work' = {v \in graph : color[v] = "white" /\ SearchFrom(v)}
  /\ phase' = "cycles"
  /\ UNCHANGED <<graphVars, level, color, maxLevel, roots, from, loopVars,
                 latchDtoQ, flags, full, stack, todo, edits>>

VisitCycle(v) ==
  /\ phase = "cycles"
  /\ stack = <<>>
  /\ v \in work
  /\ work' = work \ {v}
  /\ IF color[v] = "white"
       THEN /\ roots' = roots \cup {v}
            /\ Enter(v, 0)
       ELSE UNCHANGED <<color, level, maxLevel, roots, stack, todo>>
  /\ UNCHANGED <<graphVars, from, loopVars, latchDtoQ, flags, phase, full,
                 edits>>

CyclesDone ==
  /\ phase = "cycles"
  /\ stack = <<>>
  /\ work = {}
  /\ levelized' = TRUE
  /\ valid' = TRUE
  /\ phase' = "idle"
  /\ UNCHANGED <<graphVars, level, color, maxLevel, roots, from, loopVars,
                 latchDtoQ, full, work, stack, todo, edits>>

------------------------------------------------------------------------------
(* Levelize::relevelize.                                                   *)

StartRelevelize ==
  /\ phase = "idle"
  /\ ~ valid
  /\ levelized
  /\ work' = from
  /\ full' = FALSE
  /\ phase' = "relevelize"
  /\ UNCHANGED <<graphVars, level, color, maxLevel, roots, from, loopVars,
                 latchDtoQ, flags, stack, todo, edits>>

(* A vertex that lost its fanin is a root now.                             *)
Rooted(v) == IF IsRoot(v) THEN roots \cup {v} ELSE roots

(* A mutant of the next definition: the iterator does not advance.         *)
RevisitFromAgain(v) ==
  LET root == IsRoot(v)
  IN  /\ phase = "relevelize"
      /\ stack = <<>>
      /\ v \in work
      /\ work' = work
      /\ IF SearchFrom(v)
           THEN /\ roots' = Rooted(v)
                /\ Enter(v, IF root THEN 0 ELSE level[v])
           ELSE UNCHANGED <<color, level, maxLevel, roots, stack, todo>>
      /\ UNCHANGED <<graphVars, from, loopVars, latchDtoQ, flags, phase, full,
                     edits>>

RevisitFrom(v) ==
  LET root == IsRoot(v)
  IN  /\ phase = "relevelize"
      /\ stack = <<>>
      /\ v \in work
      /\ work' = work \ {v}
      /\ IF SearchFrom(v)
           THEN /\ roots' = Rooted(v)
                /\ Enter(v, IF root THEN 0 ELSE level[v])
           ELSE UNCHANGED <<color, level, maxLevel, roots, stack, todo>>
      /\ UNCHANGED <<graphVars, from, loopVars, latchDtoQ, flags, phase, full,
                     edits>>

RelevelizeDone ==
  /\ phase = "relevelize"
  /\ stack = <<>>
  /\ work = {}
  /\ phase' = "lastLatches"
  /\ UNCHANGED <<graphVars, level, color, maxLevel, roots, from, loopVars,
                 latchDtoQ, flags, full, work, stack, todo, edits>>

LatchesDone ==
  /\ phase = "lastLatches"
  /\ latchDtoQ = {}
  /\ valid' = TRUE
  /\ from' = {}
  /\ phase' = "idle"
  /\ UNCHANGED <<graphVars, level, color, maxLevel, roots, loopVars, latchDtoQ,
                 levelized, full, work, stack, todo, edits>>

------------------------------------------------------------------------------
Ensure ==
  \/ StartLevelize
  \/ \E v \in Vertices : VisitRoot(v) \/ VisitCycle(v) \/ RevisitFrom(v)
  \/ \E e \in AllEdges : VisitEdge(e) \/ EnsureLatchLevel(e)
  \/ Leave
  \/ RootsDone
  \/ StartCycles
  \/ CyclesDone
  \/ StartRelevelize
  \/ RelevelizeDone
  \/ LatchesDone

Next ==
  \/ \E i \in Instances : MakeInstance(i) \/ DeleteInstance(i)
  \/ \E v \in Vertices, new \in SUBSET Wires : ConnectPin(v, new)
  \/ \E i \in Instances, new \in SUBSET Gates : ReplaceCell(i, new)
  \/ \E v \in Vertices : DisconnectPin(v) \/ DeletePin(v)
  \/ \E e \in AllEdges : Constrain(e) \/ SimEdgeChange(e)
  \/ Ensure

Spec == Init /\ [][Next]_vars

(* ensureLevelized and deleteInstance run to their end once called.        *)
FairSpec == Spec /\ WF_vars(phase # "idle" /\ (Ensure \/ \E v \in Vertices : DeletePin(v)))

------------------------------------------------------------------------------
(* Properties.                                                             *)

(* The state has its types, and what Levelize keeps pointers to exists:    *)
(* its roots, the vertices it will repair from, and the edges it disabled  *)
(* or recorded as parts of a loop, which clearLoopEdges() and              *)
(* deleteEdgeBefore() use.                                                 *)
TypeOK ==
  /\ graph \subseteq Vertices
  /\ edges \subseteq AllEdges
  /\ connected \subseteq graph
  /\ blocked \subseteq AllEdges
  /\ level \in [Vertices -> Nat]
  /\ color \in [Vertices -> Colors]
  /\ maxLevel \in Nat
  /\ roots \subseteq graph
  /\ from \subseteq graph
  /\ disabledLoop \cup loopEdges \subseteq edges
  /\ latchDtoQ \subseteq LatchEdges
  /\ levelized \in BOOLEAN
  /\ valid \in BOOLEAN
  /\ phase \in Phases
  /\ full \in BOOLEAN
  /\ work \subseteq Vertices
  /\ stack \in Seq(Vertices)
  /\ todo \in [Vertices -> SUBSET AllEdges]
  /\ edits \in Nat

(* What the searches need of the levels (the comment over relevelize()):   *)
(* a vertex is above its predecessors, after any sequence of edits and     *)
(* whatever was levelized in full or repaired.  An arc of a new instance   *)
(* has no levels yet while no net is connected to its pins.  And no vertex *)
(* is above maxLevel(), where findArrivals() and findDelays() stop and     *)
(* which the queues are sized by.                                          *)
Floating(e) == color[e[1]] = "white" /\ {e[1], e[2]} \cap connected = {}

LevelsOrdered ==
  valid /\ phase = "idle" =>
    /\ \A e \in Searched : level[e[1]] < level[e[2]] \/ Floating(e)
    /\ \A v \in graph : level[v] <= maxLevel

(* Only loops are broken: a disabled edge lies on a cycle of enabled edges *)
(* of the present graph, also after edges were deleted.                    *)
Successors(S) == {e[2] : e \in {f \in Enabled : f[1] \in S}}
Reachable(v) ==
  {w \in Vertices :
     \A S \in SUBSET Vertices : v \in S /\ Successors(S) \subseteq S => w \in S}

OnlyLoopsBroken ==
  valid /\ phase = "idle" =>
    \A e \in disabledLoop : e \in Enabled /\ e[1] \in Reachable(e[2])

(* Every root is known as one, so the searches are seeded there, but for   *)
(* the pins of a new instance that no net is connected to.                 *)
RootsComplete ==
  valid /\ phase = "idle" =>
    \A v \in graph :
      /\ SearchFrom(v)
      /\ InEdges(v) \cap Enabled = {}
      /\ v \notin roots
      => color[v] = "white" /\ v \notin connected

(* "Make sure latch D input level is not the same as the Q level": after a *)
(* full levelization that looked at every latch it met.  It is checked for *)
(* a latch with one output and one enable; others may break it (README).   *)
LatchLevelsDiffer ==
  valid /\ phase = "idle" /\ full /\ from = {} /\ latchDtoQ = {} =>
    \A e \in (LatchEdges \cap edges) \ blocked :
      level[e[1]] = level[e[2]] => ~ (PinsOf(Instance[e[1]]) \subseteq connected)

(* Levelization ends, with loops and whatever is to be repaired.           *)
LevelizationEnds == phase # "idle" ~> phase = "idle"
=============================================================================
