------------------------------ MODULE MCClocks ------------------------------
(* Instances of Clocks for TLC.                                            *)
EXTENDS Clocks

CONSTANTS a, b, c, p, q, WidePeriod

(* The clock of q reaches p; b and c are defined on p as well.              *)
Reach == [pin \in {p, q} |-> IF pin = p THEN {q} ELSE {}]

Plain(name, pins, add, period, rise, fall) ==
  [name |-> name, pins |-> pins, add |-> add, period |-> period,
   rise |-> rise, fall |-> fall]

(* Every waveform within a period of up to WidePeriod, on clocks a and b.   *)
(* Times are even, so that they can be halved.                             *)
Wide ==
  {Plain(name, {IF name = a THEN p ELSE q}, FALSE, 2 * period, 2 * rise, 2 * fall) :
     name \in {a, b},
     <<rise, fall, period>> \in
       {times \in (0 .. WidePeriod) \X (0 .. WidePeriod) \X (1 .. WidePeriod) :
          times[1] < times[2] /\ times[2] <= times[3]}}

Narrow ==
  {Plain(a, {p, q}, FALSE, 4, 0, 2), Plain(a, {q}, TRUE, 6, 2, 4),
   Plain(b, {p}, FALSE, 8, 2, 8)}

Clocked == Wide \cup Narrow

How(divide, multiply, duty, edges, invert) ==
  [divide |-> divide, multiply |-> multiply, duty |-> duty, edges |-> edges,
   invert |-> invert]

Divided(name, pins, add, source, master, how) ==
  [name |-> name, pins |-> pins, add |-> add, source |-> source,
   master |-> master, how |-> how]

Derive ==
  {Divided(b, {p}, TRUE, q, NoClock, How(1, 0, 0, <<>>, TRUE)),
   Divided(b, {p}, FALSE, q, a, How(2, 0, 0, <<>>, FALSE)),
   Divided(c, {p}, TRUE, p, NoClock, How(0, 2, 0, <<>>, FALSE)),
   Divided(c, {p}, TRUE, p, b, How(3, 0, 0, <<>>, TRUE)),
   Divided(c, {q}, TRUE, q, a, How(0, 1, 50, <<>>, FALSE)),
   Divided(b, {q}, TRUE, p, c, How(0, 0, 0, <<1, 2, 5>>, FALSE))}

(* What may be read of a deleted clock                                     *)
Leftovers == {[period |-> 0, waveform |-> Waveform(0, 0)],
              [period |-> 6, waveform |-> Waveform(4, 2)]}

CostOf(args) == IF args \in Wide THEN 2 ELSE 1
=============================================================================
