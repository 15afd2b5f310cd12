--------------------------------- MODULE MCSim ---------------------------------
(***************************************************************************)
(* A design for Sim: input port a on net na and output port o on nw; a tie *)
(* (tq on nt); a gate (ga on na, gb on nt, gy on ny); an inverter (hz on   *)
(* ny, hw on nw); a spare register (sd, sq); a net vdd that is constant    *)
(* and has no pins.  Whatever is connected, the circuit has no loop.       *)
(***************************************************************************)
EXTENDS Sim

CONSTANTS a, o, tq, ga, gb, gy, hz, hw, sd, sq, na, nt, ny, nw, vdd, top, tie, gate, inverter, reg

MCParent == [x \in {tie, gate, inverter, reg, na, nt, ny, nw, vdd} |-> top]

MCInstanceOf ==
  [p \in Pins |-> CASE p \in {a, o} -> top [] p = tq -> tie [] p \in {ga, gb, gy} -> gate
                    [] p \in {hz, hw} -> inverter [] OTHER -> reg]

MCLinkedNet ==
  [p \in Pins |-> CASE p = ga -> na [] p \in {tq, gb} -> nt [] p \in {gy, hz} -> ny
                    [] p = hw -> nw [] OTHER -> NoNet]

MCLinkedTerm == [p \in Pins |-> IF p = a THEN na ELSE IF p = o THEN nw ELSE NoNet]

MCConstantNets == [value \in 0..1 |-> IF value = 1 THEN {vdd} ELSE {}]

MCPortOf == [p \in Pins |-> IF p = gb THEN "B" ELSE IF p \in Outputs THEN "Y" ELSE "A"]

MCLinkedCell ==
  [i \in Leaves |-> CASE i = tie -> "tie1" [] i = gate -> "and" [] i = inverter -> "inv" [] OTHER -> "dff"]

MCFunction(c, in) ==
  CASE c = "tie0" -> 0
    [] c = "tie1" -> 1
    [] c = "inv" -> 1 - in["A"]
    [] c = "and" -> in["A"] * in["B"]
    [] c = "or" -> 1 - (1 - in["A"]) * (1 - in["B"])
    [] OTHER -> in["A"]

MCCommands ==
  [op : {"setCase"}, pin : {a, hw}, value : 0..1] \cup [op : {"removeCase"}, pin : {a, hw}]
    \cup [op : {"replaceCell"}, inst : {gate}, cell : {"or"}]

MCEdits ==
  [op : {"connect"}, pin : {gb}, net : {na, nt, vdd}]
    \cup [op : {"connect"}, pin : {hz}, net : {nt, ny, na}]
    \cup [op : {"connect"}, pin : {tq, sq}, net : {nt, ny}]
    \cup [op : {"connect"}, pin : {sd}, net : {nt, nw}]
    \cup [op : {"connect"}, pin : {gy}, net : {ny}]
    \cup [op : {"disconnect"}, pin : {ga, gb, hz, gy, tq}]
    \cup [op : {"deleteInstance"}, inst : {tie, gate, reg}] \cup [op : {"makeInstance"}, inst : {reg}]

(* The values are proved for designs like this one.                        *)
ASSUME MCSimRegular == Regular /\ NoWayBack
==============================================================================
