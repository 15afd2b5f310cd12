----------------------------- MODULE NetworkEdits -----------------------------
(***************************************************************************)
(* Edits of a linked netlist in any order (NetworkEdit, and what           *)
(* ConcreteNetwork makes of it), while anyone may ask for the drivers of a *)
(* net in between.                                                         *)
(***************************************************************************)
EXTENDS Netlist

CONSTANTS
  Edits,                (* the edits that may be asked for                 *)
  MaxEdits              (* bound: edits                                    *)

ASSUME EditsAssumption ==
  /\ MaxEdits \in Nat
  /\ Edits \subseteq [op : {"connect"}, pin : Pins, net : Nets] \cup [op : {"disconnect"}, pin : Pins]
                     \cup [op : {"deleteNet", "makeNet"}, net : Nets]
                     \cup [op : {"deleteInstance", "makeInstance"}, inst : Instances \ {Top}]
                     \cup [op : {"merge"}, net : Nets, into : Nets]

VARIABLES
  design,               (* the netlist                                     *)
  edits                 (* edits so far                                    *)

vars == <<design, edits>>

Edit(e, op) == e.op = op /\ edits < MaxEdits /\ edits' = edits + 1

(* A pin may be on a net already: it is moved.  A port of the design would *)
(* leave its terminal on the old net, and is disconnected first.           *)
ConnectPin(e) ==
  /\ Edit(e, "connect")
  /\ e.pin \in design.pins /\ e.net \in design.nets
  /\ Parent[e.net] = Scope(e.pin)
  /\ e.net # design.netOf[e.pin]
  /\ InstanceOf[e.pin] = Top => design.termOf[e.pin] = NoNet
  /\ design' = Connect(design, e.pin, e.net)

DisconnectPin(e) ==
  /\ Edit(e, "disconnect")
  /\ e.pin \in design.pins
  /\ design' = Disconnect(design, e.pin)

RemoveNet(e) ==
  /\ Edit(e, "deleteNet")
  /\ e.net \in design.nets
  /\ design' = DeleteNet(e.net, design)

AddNet(e) ==
  /\ Edit(e, "makeNet")
  /\ e.net \notin design.nets \cup design.gone
  /\ Parent[e.net] \in design.insts
  /\ design' = MakeNet(design, e.net)

RemoveInstance(e) ==
  /\ Edit(e, "deleteInstance")
  /\ e.inst \in design.insts
  /\ design' = DeleteInstance(design, e.inst)

AddInstance(e) ==
  /\ Edit(e, "makeInstance")
  /\ e.inst \notin design.insts \cup design.gone
  /\ Parent[e.inst] \in design.insts
  /\ design' = MakeInstance(design, e.inst)

Merge(e) ==
  /\ Edit(e, "merge")
  /\ {e.net, e.into} \subseteq design.nets /\ e.net # e.into
  /\ design' = MergeInto(design, e.net, e.into)

LookUp(n) ==
  /\ n \in design.nets \ DOMAIN design.drvrs
  /\ design' = WithDrivers(design, n)
  /\ UNCHANGED edits

Init == design = Linked /\ edits = 0

Next ==
  \/ \E e \in Edits :
       \/ ConnectPin(e) \/ DisconnectPin(e) \/ RemoveNet(e) \/ AddNet(e)
       \/ RemoveInstance(e) \/ AddInstance(e) \/ Merge(e)
  \/ \E n \in Nets : LookUp(n)

Spec == Init /\ [][Next]_vars

------------------------------------------------------------------------------
(* A pin names the net it is in the list of, a terminal too, and drivers   *)
(* are kept only of nets there are, whatever has been moved, merged and    *)
(* deleted (addPin, deletePin, addTerm, deleteTerm of ConcreteNet).        *)
ListsAgree ==
  /\ design.pins = {p \in Pins : InstanceOf[p] \in design.insts}
  /\ design.nets \subseteq Nets \ design.gone
  /\ design.netOf \in [Pins -> design.nets \cup {NoNet}]
  /\ DOMAIN design.drvrs \subseteq design.nets
  /\ \A n \in design.nets :
       /\ design.netPins[n] = {p \in design.pins : design.netOf[p] = n}
       /\ design.netTerms[n] = {p \in design.pins : design.termOf[p] = n}

(* What Network::drivers keeps of a net is what it would find now.         *)
DriversCurrent ==
  \A n \in DOMAIN design.drvrs : design.drvrs[n] = NetDrivers(design, n)
==============================================================================
