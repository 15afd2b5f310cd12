-------------------------------- MODULE Netlist --------------------------------
(***************************************************************************)
(* The netlist of network/ConcreteNetwork.cc: pins on nets, terminals that *)
(* tie a net to a pin of the instance it is in, so that nets span the      *)
(* hierarchy, the edits of NetworkEdit, and the drivers of nets that       *)
(* Network::drivers finds once and keeps (net_drvr_pin_map_).              *)
(*                                                                         *)
(* The netlist is one record and the edits are functions of it, as other   *)
(* components make them a part of theirs.  Lists of pins and terminals are *)
(* sets; a merged net, kept as an alias, counts as gone; what has been     *)
(* deleted does not come back at the same address.                         *)
(***************************************************************************)
EXTENDS Naturals, FiniteSets, FiniteSetsExt

CONSTANTS
  Pins, Nets, Instances,
  Top,                  (* top_instance_                                   *)
  Parent,               (* the instance a net or an instance is in         *)
  InstanceOf,           (* the instance a pin is of                        *)
  Leaves,               (* instances of liberty cells                      *)
  Outputs,              (* pins of output ports; the others are inputs     *)
  NoNet,
  LinkedNet,            (* the pins' nets and their terminals' nets when   *)
  LinkedTerm,           (* the netlist has been linked                     *)
  ConstantNets,         (* constant_nets_ then, by value                   *)
  SpareInstances,       (* instances and nets to be made by edits          *)
  SpareNets

ASSUME NetlistAssumption ==
  /\ IsFiniteSet(Pins) /\ IsFiniteSet(Nets) /\ IsFiniteSet(Instances)
  /\ Top \in Instances /\ Leaves \subseteq Instances \ {Top}
  /\ Parent \in [(Instances \ {Top}) \cup Nets -> Instances]
  /\ InstanceOf \in [Pins -> Instances]
  /\ NoNet \notin Nets /\ Nets \cap Instances = {}
  /\ LinkedNet \in [Pins -> Nets \cup {NoNet}]
  /\ LinkedTerm \in [Pins -> Nets \cup {NoNet}]
  /\ ConstantNets \in [0..1 -> SUBSET Nets]

(* What linking leaves: nothing is in a leaf instance; the terminal of a   *)
(* pin is on a net in its instance; a port of the design is on a net by    *)
(* its terminal only.                                                      *)
ASSUME LinkedAssumption ==
  /\ SpareInstances \subseteq Instances \ {Top} /\ SpareNets \subseteq Nets
  /\ \A x \in (Instances \ {Top}) \cup Nets : Parent[x] \notin Leaves
  /\ \A p \in Pins :
       /\ {LinkedNet[p], LinkedTerm[p]} \cap SpareNets = {}
       /\ LinkedTerm[p] # NoNet => Parent[LinkedTerm[p]] = InstanceOf[p]
       /\ InstanceOf[p] = Top => LinkedNet[p] = NoNet
       /\ InstanceOf[p] \in SpareInstances => LinkedNet[p] = NoNet /\ LinkedTerm[p] = NoNet

IsDriver(p) ==
  \/ InstanceOf[p] \in Leaves /\ p \in Outputs
  \/ InstanceOf[p] = Top /\ p \notin Outputs

IsLoad(p) ==
  \/ InstanceOf[p] \in Leaves /\ p \notin Outputs
  \/ InstanceOf[p] = Top /\ p \in Outputs

(* The net a pin may be connected to is next to its instance, or in the    *)
(* top instance for a port of the design.                                  *)
Scope(p) == IF InstanceOf[p] = Top THEN Top ELSE Parent[InstanceOf[p]]

------------------------------------------------------------------------------
(* A netlist d: its instances, pins and nets; what is gone for good; the   *)
(* net of a pin (net_) and the pins of a net (pins_); the net of a pin's   *)
(* terminal (term_) and the pins whose terminals a net has (terms_); the   *)
(* constant nets; the drivers found so far.                                *)
NoDrivers == [n \in {} |-> {}]

Linked ==
  LET made == {p \in Pins : InstanceOf[p] \notin SpareInstances}
  IN  [insts |-> Instances \ SpareInstances, pins |-> made, nets |-> Nets \ SpareNets,
       gone |-> {},
       netOf |-> LinkedNet, termOf |-> LinkedTerm,
       netPins |-> [n \in Nets |-> {p \in made : LinkedNet[p] = n}],
       netTerms |-> [n \in Nets |-> {p \in made : LinkedTerm[p] = n}],
       constants |-> ConstantNets,
       drvrs |-> NoDrivers]

(* visitConnectedPins goes up from the terminals of a net and down through *)
(* the terminals of its pins.                                              *)
Adjacent(d, n) ==
  ({d.netOf[p] : p \in d.netTerms[n]} \cup {d.termOf[p] : p \in d.netPins[n]}) \ {NoNet}

Spanned(d, n) ==
  LET next == [m \in Nets |-> Adjacent(d, m)]
      closed == {S \in SUBSET Nets : n \in S /\ \A m \in S : next[m] \subseteq S}
  IN  IF next[n] \subseteq {n} THEN {n} ELSE {m \in Nets : \A S \in closed : m \in S}

ConnectedPins(d, n) ==
  UNION {d.netPins[m] \cup {p \in d.netTerms[m] : d.netOf[p] = NoNet} : m \in Spanned(d, n)}

(* connectedPinIterator of a pin.                                          *)
PinConnectedPins(d, p) ==
  {p} \cup UNION {ConnectedPins(d, n) : n \in {d.netOf[p], d.termOf[p]} \ {NoNet}}

NetDrivers(d, n) == {p \in ConnectedPins(d, n) : IsDriver(p)}

(* Network::drivers: what is known, or found now and kept.                 *)
WithDrivers(d, n) ==
  [d EXCEPT !.drvrs = [m \in DOMAIN @ \cup {n} |->
                         IF m \in DOMAIN @ THEN @[m] ELSE NetDrivers(d, n)]]

ClearNetDrvrPinMap(d) == [d EXCEPT !.drvrs = NoDrivers]

------------------------------------------------------------------------------
(* A net without terminals is taken not to span the hierarchy: then its    *)
(* drivers are kept up to date, otherwise all are forgotten.               *)
ConnectNetPin(d, n, p) ==
  LET e == [d EXCEPT !.netPins[n] = @ \cup {p}]
  IN  IF ~IsDriver(p) THEN e
      ELSE IF e.netTerms[n] # {} THEN ClearNetDrvrPinMap(e)
      ELSE [e EXCEPT !.drvrs = [m \in DOMAIN @ |-> @[m] \cup {q \in {p} : m = n}]]

(* Mutant: the drivers that are known keep a pin that has left.            *)
DisconnectNetPinStale(d, n, p) == [d EXCEPT !.netPins[n] = @ \ {p}]

DisconnectNetPin(d, n, p) ==
  LET e == [d EXCEPT !.netPins[n] = @ \ {p}]
  IN  IF ~IsDriver(p) THEN e
      ELSE IF e.netTerms[n] # {} THEN ClearNetDrvrPinMap(e)
      ELSE [e EXCEPT !.drvrs = [m \in DOMAIN @ |-> @[m] \ {q \in {p} : m = n}]]

(* A port of the design gets a terminal on the net, and nothing is         *)
(* forgotten.                                                              *)
Connect(d, p, n) ==
  LET e == IF d.netOf[p] = NoNet THEN d ELSE DisconnectNetPin(d, d.netOf[p], p)
  IN  IF InstanceOf[p] = Top
      THEN [e EXCEPT !.netTerms[n] = @ \cup {p}, !.termOf[p] = n, !.netOf[p] = NoNet]
      ELSE ConnectNetPin([e EXCEPT !.netOf[p] = n], n, p)

(* Mutant: the net is left by a pin that still names it.                   *)
DisconnectKept(d, p) ==
  IF d.netOf[p] = NoNet THEN d ELSE DisconnectNetPin(d, d.netOf[p], p)

Disconnect(d, p) ==
  IF InstanceOf[p] = Top
  THEN IF d.termOf[p] = NoNet THEN d
       ELSE ClearNetDrvrPinMap([d EXCEPT !.netTerms[d.termOf[p]] = @ \ {p}, !.termOf[p] = NoNet])
  ELSE IF d.netOf[p] = NoNet THEN d
       ELSE [DisconnectNetPin(d, d.netOf[p], p) EXCEPT !.netOf[p] = NoNet]

DeletePin(p, d) ==
  LET e == IF d.netOf[p] = NoNet THEN d ELSE DisconnectNetPin(d, d.netOf[p], p)
  IN  [e EXCEPT !.pins = @ \ {p}, !.netOf[p] = NoNet, !.termOf[p] = NoNet]

(* The pins of the net lose it without being disconnected one by one; its  *)
(* terminals are left as they are.                                         *)
DeleteNet(n, d) ==
  [d EXCEPT
     !.netOf = [p \in Pins |-> IF p \in d.netPins[n] THEN NoNet ELSE @[p]],
     !.netPins[n] = {}, !.netTerms[n] = {},
     !.nets = @ \ {n}, !.gone = @ \cup {n},
     !.constants = [v \in 0..1 |-> @[v] \ {n}],
     !.drvrs = [m \in DOMAIN @ \ {n} |-> @[m]]]

(* deleteInstance: the nets in the instance first, with their terminals,   *)
(* then what is below it, and its pins.                                    *)
Below(i) ==
  LET closed == {S \in SUBSET Instances :
                   i \in S /\ \A c \in Instances \ {Top} : Parent[c] \in S => c \in S}
  IN  {j \in Instances : \A S \in closed : j \in S}

DeleteInstance(d, i) ==
  LET below == Below(i)
      nets == {n \in d.nets : Parent[n] \in below}
      inside == FoldSet(DeleteNet, d, nets)
      pins == {p \in d.pins : InstanceOf[p] \in below}
  IN  [FoldSet(DeletePin, inside, pins) EXCEPT
         !.insts = @ \ below, !.gone = @ \cup below]

(* makeInstance, with makePins.                                            *)
MakeInstance(d, i) ==
  [d EXCEPT !.insts = @ \cup {i}, !.pins = @ \cup {p \in Pins : InstanceOf[p] = i}]

MakeNet(d, n) == [d EXCEPT !.nets = @ \cup {n}]

MergeInto(d, n, m) ==
  ClearNetDrvrPinMap(
    [d EXCEPT
       !.netOf = [p \in Pins |-> IF p \in d.netPins[n] THEN m ELSE @[p]],
       !.termOf = [p \in Pins |-> IF p \in d.netTerms[n] THEN m ELSE @[p]],
       !.netPins[n] = {}, !.netPins[m] = @ \cup d.netPins[n],
       !.netTerms[n] = {}, !.netTerms[m] = @ \cup d.netTerms[n],
       !.nets = @ \ {n}, !.gone = @ \cup {n}])
==============================================================================
