--------------------------- MODULE MCGraphDelayCalc ---------------------------
(* An instance of GraphDelayCalc for TLC: an input port drives a buffer    *)
(* (bufIn -> bufOut), the first input of a gate (first, second -> gateOut) *)
(* and the clock pin of a register; the buffer drives the second input,    *)
(* and the gate the data pin of the register.                              *)
EXTENDS GraphDelayCalc

CONSTANTS port, bufIn, bufOut, first, second, gateOut, clkPin, dataPin,
          net1, net2, net3

GateArcs == {<<bufIn, bufOut>>, <<first, gateOut>>, <<second, gateOut>>}
SetupChecks == {<<clkPin, dataPin>>}
StartNet ==
  [pin \in {port, bufIn, bufOut, first, second, gateOut, clkPin, dataPin} |->
     CASE pin \in {port, bufIn, first, clkPin} -> net1
       [] pin \in {bufOut, second} -> net2
       [] OTHER -> net3]

(* A slow edge is early at the threshold of a gate: delays of both signs,  *)
(* and a weak gate has the delays of a strong one, with a worse slew.      *)
Early(x) == x[3][1] + x[3][2] + x[4] - x[1]
=============================================================================
