---------------------------------- MODULE Sim ----------------------------------
(***************************************************************************)
(* Constant propagation of search/Sim.cc: the logic values of pins that    *)
(* follow from ties, constant nets and case analysis, kept up to date      *)
(* while the netlist is edited through Sta, and the timing arcs that they  *)
(* disable.  It is composed with the edits of NetworkEdits, a call of Sta  *)
(* being an edit and what it tells the simulator, and with the drivers of  *)
(* nets, which it looks up.                                                *)
(*                                                                         *)
(* A value is a set with at most one member of 0..1, {} being unknown; the *)
(* values of the pins' vertices are the set of known pairs of a pin and a  *)
(* value.  The evaluation queue is a set: instances are evaluated in any   *)
(* order.  Left out: tristate and clock gate outputs, conditional and mode *)
(* arcs, bidirects, hierarchical pins, set_logic, findLogicConstants.      *)
(***************************************************************************)
EXTENDS NetworkEdits

CONSTANTS
  PortOf,               (* the port of the cell that a pin of a leaf is    *)
  Cells,
  LinkedCell,           (* the cells of leaf instances when linked         *)
  Sequentials,          (* cells whose outputs are internal states         *)
  Function(_, _),       (* the output of a cell for the values of its      *)
                        (* input ports                                     *)
  Commands              (* the calls of Sta that are no edits of nets      *)

InputPorts(i) == {PortOf[p] : p \in {p \in Pins \ Outputs : InstanceOf[p] = i}}

(* The cells an instance may come to have.                                 *)
CellsFor(i) ==
  {LinkedCell[i]} \cup {e.cell : e \in {e \in Commands : e.op = "replaceCell" /\ e.inst = i}}

(* Functions are BDDs; a net is tied to one value at most; only leaf       *)
(* instances are deleted.                                                  *)
ASSUME SimAssumption ==
  /\ \A p \in Pins : InstanceOf[p] \in Leaves \cup {Top}
  /\ LinkedCell \in [Leaves -> Cells]
  /\ \A i \in Leaves : \A c \in CellsFor(i), f \in [InputPorts(i) -> 0..1] : Function(c, f) \in 0..1
  /\ ConstantNets[0] \cap ConstantNets[1] = {}
  /\ \A e \in Edits : e.op = "deleteInstance" => e.inst \in Leaves
  /\ Commands \subseteq [op : {"setCase"}, pin : Pins, value : 0..1] \cup [op : {"removeCase"}, pin : Pins]
                        \cup [op : {"replaceCell"}, inst : Leaves, cell : Cells]

VARIABLES
  cell,                 (* the cells of leaf instances                     *)
  constraint,           (* case_value_map_ of Sdc, as known pairs          *)
  sim                   (* the simulator, below                            *)

simVars == <<design, edits, cell, constraint, sim>>

------------------------------------------------------------------------------
(* What the cells compute.                                                 *)
ValueIn(known, p) == {k[2] : k \in {k \in known : k[1] = p}}

PinsOf(i) == {p \in design.pins : InstanceOf[p] = i}
InputsOf(i) == PinsOf(i) \ Outputs
OutputsOf(i) == PinsOf(i) \cap Outputs

PinAt(pins, port) == CHOOSE p \in pins : PortOf[p] = port

Possible(known, p) == IF ValueIn(known, p) = {} THEN 0..1 ELSE ValueIn(known, p)

(* The values the input ports of an instance can have: a BDD with the      *)
(* known ones substituted.                                                 *)
Completions(known, i) ==
  {f \in [{PortOf[p] : p \in InputsOf(i)} -> 0..1] :
     \A port \in DOMAIN f : f[port] \in Possible(known, PinAt(InputsOf(i), port))}

(* evalExpr of the function of the output: the value all of them give.     *)
EvalExpr(known, i) ==
  LET results == {Function(cell[i], f) : f \in Completions(known, i)}
  IN  IF cell[i] \in Sequentials \/ Cardinality(results) > 1 THEN {} ELSE results

(* functionSense: no arc where the input is known or makes no difference.  *)
SenseNone(known, p) ==
  LET i == InstanceOf[p]
  IN  \/ ValueIn(known, p) # {}
      \/ /\ cell[i] \notin Sequentials
         /\ \A f \in Completions(known, i) :
              Function(cell[i], [f EXCEPT ![PortOf[p]] = 0]) = Function(cell[i], [f EXCEPT ![PortOf[p]] = 1])

IsConstFunc(cells, p) ==
  /\ InstanceOf[p] \in Leaves /\ p \in Outputs
  /\ cells[InstanceOf[p]] \in {"tie0", "tie1"}

------------------------------------------------------------------------------
(* The simulator s: the values; valid_ and incremental_; const_func_pins_; *)
(* instances_with_const_pins_; what edits have invalidated;                *)
(* eval_queue_ and instances_to_annotate_; the inputs whose arcs have no   *)
(* simTimingSense; whether ensureConstantsPropagated is at work.           *)
InitSim ==
  [known |-> {}, valid |-> FALSE, incremental |-> FALSE,
   constFuncPins |-> {}, constFuncPinsValid |-> FALSE, withConstPins |-> {},
   invalidInsts |-> {}, invalidDrvrs |-> {}, invalidLoads |-> {},
   queue |-> {}, annotate |-> {}, disabled |-> {}, busy |-> FALSE]

(* A constraint on a pin is not overwritten.                               *)
Settable(p, v) == ValueIn(constraint, p) \in {{}, v}

(* setPinValue: a driver passes its value to the loads of its net, loads   *)
(* have their instance evaluated.                                          *)
Loads(d, p) == {q \in PinConnectedPins(d, p) \ {p} : IsLoad(q)}

(* Mutant: arcs are looked at only where a pin gets a constant.            *)
SetPinValueForgetful(s, p, v) ==
  LET set == {q \in {p} \cup (IF IsDriver(p) THEN Loads(design, p) ELSE {}) : Settable(q, v)}
      of(pins) == {InstanceOf[q] : q \in pins}
  IN  IF ~Settable(p, v) THEN s
      ELSE [s EXCEPT
              !.known = {k \in @ : k[1] \notin set} \cup (set \X v),
              !.withConstPins = @ \cup (IF v = {} THEN {} ELSE of(set)),
              !.annotate = @ \cup (IF v = {} THEN {} ELSE of(set)),
              !.queue = @ \cup of({q \in set : InstanceOf[q] \in Leaves /\ q \notin Outputs})]

SetPinValue(s, p, v) ==
  LET set == {q \in {p} \cup (IF IsDriver(p) THEN Loads(design, p) ELSE {}) : Settable(q, v)}
      of(pins) == {InstanceOf[q] : q \in pins}
  IN  IF ~Settable(p, v) THEN s
      ELSE [s EXCEPT
              !.known = {k \in @ : k[1] \notin set} \cup (set \X v),
              !.withConstPins = @ \cup (IF v = {} THEN {} ELSE of(set)),
              !.annotate = @ \cup of(set),
              !.queue = @ \cup of({q \in set : InstanceOf[q] \in Leaves /\ q \notin Outputs})]

(* Pins and their values, and pins that get the same value, in any order.  *)
SetAll(s, pairs) ==
  LET set(pair, t) == SetPinValue(t, pair[1], {pair[2]}) IN FoldSet(set, s, pairs)

SetEach(s, pins, v) ==
  LET set(p, t) == SetPinValue(t, p, v) IN FoldSet(set, s, pins)

ConstFuncValue(p) == EvalExpr({}, InstanceOf[p])

(* recordConstPinFunc.                                                     *)
Recorded(s, cells, pins) ==
  [s EXCEPT !.constFuncPins = @ \cup {p \in pins : IsConstFunc(cells, p)}]

EnsureConstantFuncPins(s) ==
  IF s.constFuncPinsValid THEN s
  ELSE [Recorded(s, cell, design.pins) EXCEPT !.constFuncPinsValid = TRUE]

------------------------------------------------------------------------------
(* ensureConstantsPropagated from nothing.                                 *)
ClearSimValues(s) ==
  [s EXCEPT !.known = {k \in @ : InstanceOf[k[1]] \notin s.withConstPins},
            !.disabled = {p \in @ : InstanceOf[p] \notin s.withConstPins},
            !.withConstPins = {}]

ConstantPins(d) ==
  UNION {(UNION {ConnectedPins(d, n) : n \in d.constants[v]}) \X {v} : v \in 0..1}

SeedConstants(s) ==
  LET constant == SetAll(s, ConstantPins(design))
      constrained == SetAll(constant, constraint)
  IN  SetAll(constrained,
             UNION {{p} \X ConstFuncValue(p) : p \in constrained.constFuncPins})

(* ensureConstantsPropagated from what edits have left: the drivers of the *)
(* nets of loads are looked up, and kept.                                  *)
NetsLookedUp(s) ==
  {design.netOf[p] : p \in s.invalidLoads} \ ({NoNet} \cup UNION {design.constants[v] : v \in 0..1})

LookedUp(s) ==
  LET lookUp(n, d) == WithDrivers(d, n) IN FoldSet(lookUp, design, NetsLookedUp(s))

DrvrOf(d, p) == CHOOSE q \in d.drvrs[d.netOf[p]] : TRUE

(* The net of a port of the design is not found.                           *)
SetInvalidLoad(d, p, s) ==
  IF d.netOf[p] = NoNet THEN s
  ELSE IF \E v \in 0..1 : d.netOf[p] \in d.constants[v]
  THEN SetPinValue(s, p, {v \in 0..1 : d.netOf[p] \in d.constants[v]})
  ELSE IF d.drvrs[d.netOf[p]] = {} THEN s
  ELSE SetPinValue(s, p, ValueIn(s.known, DrvrOf(d, p)))

PropagateToInvalidLoads(s) ==
  LET d == LookedUp(s)
      setLoad(p, t) == SetInvalidLoad(d, p, t)
  IN  [FoldSet(setLoad, s, s.invalidLoads) EXCEPT !.invalidLoads = {}]

DrvrValue(s, p) == IF p \in s.constFuncPins THEN ConstFuncValue(p) ELSE ValueIn(s.known, p)

PropagateFromInvalidDrvrs(s) ==
  LET setLoads(p, t) == SetEach(t, Loads(design, p), DrvrValue(s, p))
  IN  [FoldSet(setLoads, s, s.invalidDrvrs) EXCEPT !.invalidDrvrs = {}]

(* The top instance has no functions to evaluate.                          *)
SeedInvalid(s) ==
  PropagateFromInvalidDrvrs(PropagateToInvalidLoads([s EXCEPT !.queue = s.invalidInsts \cap Leaves]))

EnsureConstantsPropagated ==
  /\ ~sim.valid /\ ~sim.busy
  /\ LET ready == [EnsureConstantFuncPins(sim) EXCEPT !.annotate = {}, !.busy = TRUE]
         seeded == IF sim.incremental THEN SeedInvalid(ready) ELSE SeedConstants(ClearSimValues(ready))
     IN  sim' = [seeded EXCEPT !.invalidInsts = {}]
  /\ design' = IF sim.incremental THEN LookedUp(sim) ELSE design
  /\ UNCHANGED <<cell, constraint, edits>>

(* evalInstance: outputs that evaluate to what they have are left.         *)
EvalInstance(s, i, v) == SetEach(s, {q \in OutputsOf(i) : ValueIn(s.known, q) # v}, v)

(* Mutant: an instance is tried again until its outputs have the values.   *)
EvalNextRetried(i) ==
  /\ i \in sim.queue
  /\ \E v \in {EvalExpr(sim.known, i)} :
       \E s \in {EvalInstance([sim EXCEPT !.queue = @ \ {i}], i, v)} :
         sim' = IF \E q \in OutputsOf(i) : ValueIn(s.known, q) # v
                THEN [s EXCEPT !.queue = @ \cup {i}] ELSE s
  /\ UNCHANGED <<design, cell, constraint, edits>>

EvalNext(i) ==
  /\ i \in sim.queue
  /\ \E v \in {EvalExpr(sim.known, i)} : sim' = EvalInstance([sim EXCEPT !.queue = @ \ {i}], i, v)
  /\ UNCHANGED <<design, cell, constraint, edits>>

AnnotateGraphEdges ==
  /\ sim.busy /\ sim.queue = {}
  /\ LET looked == {p \in design.pins \ Outputs : InstanceOf[p] \in sim.annotate \cap Leaves}
     IN  sim' = [sim EXCEPT !.disabled = (@ \ looked) \cup {p \in looked : SenseNone(sim.known, p)},
                            !.valid = TRUE, !.incremental = TRUE, !.busy = FALSE]
  /\ UNCHANGED <<design, cell, constraint, edits>>

------------------------------------------------------------------------------
(* What edits tell the simulator.                                          *)
ConstantsInvalid(s) == [s EXCEPT !.valid = FALSE, !.incremental = FALSE]

ConnectPinAfter(s, p) ==
  IF ~s.incremental THEN s
  ELSE [Recorded(s, cell, {p}) EXCEPT
          !.invalidLoads = @ \cup {q \in {p} : IsLoad(q)},
          !.invalidDrvrs = @ \cup {q \in {p} : IsDriver(q)},
          !.valid = FALSE]

(* Mutant: the instance of the load is not evaluated again.                *)
RemovePropagatedValueQuiet(s, p) ==
  IF InstanceOf[p] \notin s.withConstPins THEN s
  ELSE [s EXCEPT !.valid = FALSE,
                 !.known = {k \in @ : k[1] # p \/ ValueIn(constraint, p) # {}}]

RemovePropagatedValue(s, p) ==
  IF InstanceOf[p] \notin s.withConstPins THEN s
  ELSE [s EXCEPT !.invalidInsts = @ \cup {InstanceOf[p]}, !.valid = FALSE,
                 !.known = {k \in @ : k[1] # p \/ ValueIn(constraint, p) # {}}]

DisconnectPinBefore(s, p) ==
  IF ~s.incremental THEN s
  ELSE IF IsLoad(p)
  THEN RemovePropagatedValue([s EXCEPT !.invalidLoads = @ \cup {p}], p)
  ELSE [s EXCEPT !.invalidDrvrs = @ \cup {p}]

(* Mutant: what was noted of a driver outlives it.                         *)
DeleteInstanceBeforeKeeps(s, i) ==
  LET pins == PinsOf(i)
  IN  [s EXCEPT !.constFuncPins = @ \ pins, !.invalidLoads = @ \ pins,
                !.known = {k \in @ : k[1] \notin pins}, !.disabled = @ \ pins,
                !.invalidInsts = @ \ {i}, !.withConstPins = @ \ {i}]

(* deletePinBefore of each pin, then deleteInstanceBefore; with the        *)
(* vertices go their values and arcs.                                      *)
DeleteInstanceBefore(s, i) ==
  LET pins == PinsOf(i)
  IN  [s EXCEPT !.constFuncPins = @ \ pins, !.invalidLoads = @ \ pins, !.invalidDrvrs = @ \ pins,
                !.known = {k \in @ : k[1] \notin pins}, !.disabled = @ \ pins,
                !.invalidInsts = @ \ {i}, !.withConstPins = @ \ {i}]

(* replaceCellBefore and replaceCellAfter: new arcs, then pinSetFuncAfter  *)
(* of each pin.                                                            *)
PinsSetFuncAfter(s, i, cells) ==
  Recorded([s EXCEPT
              !.disabled = @ \ PinsOf(i),
              !.invalidInsts = @ \cup {j \in {i} : s.incremental /\ j \in s.withConstPins},
              !.valid = @ /\ ~s.incremental,
              !.constFuncPins = @ \ PinsOf(i)],
           cells, PinsOf(i))

------------------------------------------------------------------------------
(* The calls of Sta, when the simulator is not at work.                    *)
SetCaseAnalysis(e) ==
  /\ ~sim.busy /\ Edit(e, "setCase")
  /\ e.pin \in design.pins
  /\ constraint' = {k \in constraint : k[1] # e.pin} \cup {<<e.pin, e.value>>}
  /\ sim' = ConstantsInvalid(sim)
  /\ UNCHANGED <<design, cell>>

RemoveCaseAnalysis(e) ==
  /\ ~sim.busy /\ Edit(e, "removeCase")
  /\ ValueIn(constraint, e.pin) # {}
  /\ constraint' = {k \in constraint : k[1] # e.pin}
  /\ sim' = ConstantsInvalid(sim)
  /\ UNCHANGED <<design, cell>>

StaReplaceCell(e) ==
  /\ ~sim.busy /\ Edit(e, "replaceCell")
  /\ e.inst \in design.insts /\ cell[e.inst] # e.cell
  /\ cell' = [cell EXCEPT ![e.inst] = e.cell]
  /\ sim' = PinsSetFuncAfter(sim, e.inst, cell')
  /\ UNCHANGED <<design, constraint>>

(* Nets have at most one driver.                                           *)
StaConnectPin(e) ==
  /\ ~sim.busy /\ ConnectPin(e)
  /\ IsDriver(e.pin) => NetDrivers(design, e.net) = {}
  /\ sim' = ConnectPinAfter(sim, e.pin)
  /\ UNCHANGED <<cell, constraint>>

StaDisconnectPin(e) ==
  /\ ~sim.busy /\ DisconnectPin(e)
  /\ sim' = DisconnectPinBefore(sim, e.pin)
  /\ UNCHANGED <<cell, constraint>>

StaDeleteInstance(e) ==
  /\ ~sim.busy /\ RemoveInstance(e)
  /\ \A k \in constraint : InstanceOf[k[1]] # e.inst
  /\ sim' = DeleteInstanceBefore(sim, e.inst)
  /\ UNCHANGED <<cell, constraint>>

StaMakeInstance(e) ==
  /\ ~sim.busy /\ AddInstance(e)
  /\ UNCHANGED <<cell, constraint, sim>>

SimInit ==
  /\ Init
  /\ cell = LinkedCell /\ constraint = {} /\ sim = InitSim

SimNext ==
  \/ EnsureConstantsPropagated
  \/ \E i \in Instances : EvalNext(i)
  \/ AnnotateGraphEdges
  \/ \E e \in Commands : SetCaseAnalysis(e) \/ RemoveCaseAnalysis(e) \/ StaReplaceCell(e)
  \/ \E e \in Edits :
       StaConnectPin(e) \/ StaDisconnectPin(e) \/ StaDeleteInstance(e) \/ StaMakeInstance(e)

(* ensureConstantsPropagated is one call: once begun it goes on.           *)
Fairness == WF_simVars(AnnotateGraphEdges \/ \E i \in Instances : EvalNext(i))

SimSpec == SimInit /\ [][SimNext]_simVars /\ Fairness

------------------------------------------------------------------------------
(* The designs that the values are proved for: the output of a cell        *)
(* depends on every input, but that of a tie, which has none and is        *)
(* neither replaced nor made by an edit nor constrained; ports stay on     *)
(* their nets; a net has one driver, a constant net has none.              *)
Tie(c) == c \in {"tie0", "tie1"}

TiedNets == UNION {ConstantNets[v] : v \in 0..1}

NetAt(d, p) == IF InstanceOf[p] = Top THEN d.termOf[p] ELSE d.netOf[p]

RegularCells ==
  \A i \in Leaves : \A c \in CellsFor(i) :
    IF Tie(c)
    THEN CellsFor(i) = {c} /\ c \notin Sequentials /\ InputPorts(i) = {} /\ i \notin SpareInstances
    ELSE c \notin Sequentials =>
           /\ InputPorts(i) # {}
           /\ \A port \in InputPorts(i) : \E f \in [InputPorts(i) -> 0..1] :
                Function(c, [f EXCEPT ![port] = 0]) # Function(c, [f EXCEPT ![port] = 1])

TieOutput(p) == InstanceOf[p] \in Leaves /\ p \in Outputs /\ Tie(LinkedCell[InstanceOf[p]])

RegularEdits ==
  /\ \A e \in Commands : e.op = "setCase" => ~TieOutput(e.pin)
  /\ \A e \in Edits :
       /\ e.op \in {"connect", "disconnect"} => InstanceOf[e.pin] # Top
       /\ e.op = "connect" /\ IsDriver(e.pin) => e.net \notin TiedNets

RegularNets ==
  /\ \A p, q \in Pins :
       IsDriver(p) /\ IsDriver(q) /\ NetAt(Linked, p) = NetAt(Linked, q) =>
         p = q \/ NetAt(Linked, p) = NoNet
  /\ \A p \in Pins : IsDriver(p) => NetAt(Linked, p) \notin TiedNets

Regular == RegularCells /\ RegularEdits /\ RegularNets

(* An instance whose cell has been replaced does not get its cell back.    *)
NoWayBack == \A e \in Commands : e.op = "replaceCell" => e.cell # LinkedCell[e.inst]

------------------------------------------------------------------------------
(* What the simulator keeps is of the netlist there is, and every instance *)
(* with a value is noted, so that a propagation from scratch clears it.    *)
TypeOK ==
  /\ sim.known \subseteq design.pins \X (0..1)
  /\ \A p \in design.pins : Cardinality(ValueIn(sim.known, p)) <= 1
  /\ sim.constFuncPins \cup sim.invalidLoads \cup sim.invalidDrvrs \cup sim.disabled \subseteq design.pins
  /\ sim.withConstPins \cup sim.invalidInsts \cup sim.queue \subseteq design.insts
  /\ \A k \in sim.known : InstanceOf[k[1]] \in sim.withConstPins

(* Every net with loads is driven, or constant.                            *)
Driven ==
  \A n \in design.nets :
    \/ \A p \in ConnectedPins(design, n) : ~IsLoad(p)
    \/ NetDrivers(design, n) # {}
    \/ \E v \in 0..1 : n \in design.constants[v]

(* The value of a pin that follows from those around it: its constraint,   *)
(* the function of its instance, the constant net or the driver it is      *)
(* connected to.                                                           *)
NetValue(known, p) ==
  {v \in 0..1 : \E n \in design.constants[v] : p \in ConnectedPins(design, n)}
    \cup UNION {ValueIn(known, q) : q \in {q \in PinConnectedPins(design, p) \ {p} : IsDriver(q)}}

Implied(known, p) ==
  IF ValueIn(constraint, p) # {} THEN ValueIn(constraint, p)
  ELSE IF InstanceOf[p] \in Leaves /\ p \in Outputs THEN EvalExpr(known, InstanceOf[p])
  ELSE NetValue(known, p)

(* When a propagation has ended, every value follows from those around it, *)
(* as it would from scratch (a circuit without loops has one solution), if *)
(* every load is driven.                                                   *)
ConstantsCurrent ==
  sim.valid /\ Driven =>
    \A p \in design.pins : ValueIn(sim.known, p) = Implied(sim.known, p)

(* The arcs that are disabled are those which constants disable, of        *)
(* instances whose inputs are connected; those of a new cell may be left   *)
(* enabled.                                                                *)
ArcsDisabled ==
  sim.valid /\ Driven =>
    \A i \in design.insts \cap Leaves :
      (\A p \in InputsOf(i) : design.netOf[p] # NoNet) =>
        \A p \in InputsOf(i) :
          /\ p \in sim.disabled => SenseNone(sim.known, p)
          /\ SenseNone(sim.known, p) => p \in sim.disabled \/ cell[i] # LinkedCell[i]

(* A propagation ends, whatever constraints contradict.                    *)
PropagationEnds == sim.busy ~> ~sim.busy
==============================================================================
