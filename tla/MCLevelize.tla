------------------------------ MODULE MCLevelize ------------------------------
(* Instances of Levelize for TLC.                                          *)
EXTENDS Levelize

CONSTANTS p, a, b, c, d, e

(* An input port p, a gate with two inputs a and c and an output b, and an *)
(* inverter d -> e after it or in its feedback.                            *)
Gate == {p, a, b, c, d, e}
GateLoads == {a, c, d}
GateOf == [v \in Gate |-> CASE v = p -> 0
                            [] v \in {a, b, c} -> 1
                            [] v \in {d, e} -> 2]
GateWires == {<<p, a>>, <<p, c>>, <<p, d>>, <<b, d>>, <<e, a>>, <<e, c>>}
GateGates == {<<a, b>>, <<c, b>>, <<d, e>>}

(* A latch with data pin a, enable pin b and output c, and a buffer        *)
(* d -> e that may drive its pins or itself.                               *)
LatchLoads == {a, b, d}
LatchOf == [v \in Gate |-> CASE v = p -> 0
                             [] v \in {a, b, c} -> 1
                             [] v \in {d, e} -> 2]
LatchWires == {<<p, a>>, <<e, a>>, <<p, d>>, <<e, d>>, <<e, b>>}
LatchGates == {<<a, c>>, <<b, c>>, <<d, e>>}
LatchDtoQ == {<<a, c>>}
=============================================================================
