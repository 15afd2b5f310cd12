---------------------------- MODULE MCNetworkEdits ----------------------------
(***************************************************************************)
(* A design for NetworkEdits: a port a on net net1 with the pin bi of      *)
(* block; inverters u1, u2 (x1 -> y1, x2 -> y2) and a spare one u3; an     *)
(* output port o; nets net1, net2 and a spare net3; in the block a net     *)
(* inner on the terminal of bi, a net tied, and an inverter v (z -> w).    *)
(***************************************************************************)
EXTENDS NetworkEdits

CONSTANTS a, o, bi, x1, y1, x2, y2, x3, z, w, net1, net2, net3, inner, tied,
          top, block, u1, u2, u3, v

MCParent ==
  [i \in {block, u1, u2, u3, v, net1, net2, net3, inner, tied} |->
     IF i \in {v, inner, tied} THEN block ELSE top]

MCInstanceOf ==
  [p \in Pins |-> CASE p \in {a, o} -> top [] p = bi -> block [] p \in {x1, y1} -> u1
                    [] p \in {x2, y2} -> u2 [] p = x3 -> u3 [] OTHER -> v]

MCLinkedNet ==
  [p \in Pins |-> CASE p \in {bi, x1} -> net1 [] p \in {y1, x2} -> net2 [] p = z -> inner
                    [] p = w -> tied [] OTHER -> NoNet]

MCLinkedTerm == [p \in Pins |-> IF p = a THEN net1 ELSE IF p = bi THEN inner ELSE NoNet]

MCConstantNets == [value \in 0..1 |-> IF value = 1 THEN {tied} ELSE {}]

ConnectTo(P, N) == [op : {"connect"}, pin : P, net : N]
DisconnectOf(P) == [op : {"disconnect"}, pin : P]

(* Edits of pins of leaf instances, and of an output port, on nets that do *)
(* not span the hierarchy or have a terminal.                              *)
FlatEdits ==
  ConnectTo({x1, y1, y2, x3, o}, {net1, net2, net3}) \cup ConnectTo({z, w}, {tied})
    \cup DisconnectOf({x1, y1, y2, z, w, o})
    \cup [op : {"deleteNet"}, net : {net3, tied}] \cup [op : {"makeNet"}, net : {net3}]
    \cup [op : {"deleteInstance"}, inst : {u1, block}] \cup [op : {"makeInstance"}, inst : {u3}]
    \cup [op : {"merge"}, net : {net1, net3}, into : {net2}]

==============================================================================
