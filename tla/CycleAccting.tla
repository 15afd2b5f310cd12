---------------------------- MODULE CycleAccting ----------------------------
(***************************************************************************)
(* The cycle accounting of src/sdc/CycleAccting.cc: between two edges of   *)
(* two clocks, which pair of cycles a check of each kind compares.  An     *)
(* edge is a record of its time and the time of the opposite edge of its   *)
(* clock, both in cycle zero, and the period of its clock.                 *)
(*                                                                         *)
(* The two nested loops of findDelays meet pairs of cycles in              *)
(* lexicographic order and keep, for every kind of check, the first of the *)
(* closest pairs.  Here the pairs are a set, and the first closest one is  *)
(* chosen from it.                                                         *)
(***************************************************************************)
EXTENDS Integers, FiniteSetsExt

CONSTANTS SlowTargetCycles,   \* tgt_max_cycle of a target slower than its source
          FastTargetCycles,   \* the least tgt_max_cycle of any other
          Unlimited           \* MinMax::min()->initValue(), above every delay

ASSUME CycleBounds ==
  /\ SlowTargetCycles \in Nat
  /\ FastTargetCycles \in Nat
  /\ Unlimited \in Nat

Start(edge, cycle) == cycle * edge.period
Time(edge, cycle) == Start(edge, cycle) + edge.time
OppositeTime(edge, cycle) == Start(edge, cycle) + edge.opposite

Ceiling(num, den) == -((-num) \div den)

FirstCycle(edge) ==
  IF edge.time < 0 THEN 1 ELSE IF edge.time < edge.period THEN 0 ELSE -1

MaxTargetCycle(src, tgt) ==
  IF tgt.period > src.period
  THEN SlowTargetCycles
  ELSE Max({Ceiling(src.period, tgt.period), FastTargetCycles})

(* The cycles of the source met in a cycle of the target: up to the end of *)
(* that cycle and, while no source edge has passed a target edge yet, up to *)
(* the first that does.                                                    *)
SourceCycles(src, tgt, cycle) ==
  LET inCycle == Start(tgt, cycle + 1) \div src.period
      passing == Ceiling(Time(tgt, cycle) - src.time, src.period)
      last    == IF cycle = FirstCycle(tgt)
                 THEN Max({inCycle, passing, FirstCycle(src)}) ELSE inCycle
  IN FirstCycle(src) .. last

Pairs(src, tgt) ==
  UNION {{[tgt |-> cycle, src |-> other] : other \in SourceCycles(src, tgt, cycle)} :
           cycle \in FirstCycle(tgt) .. MaxTargetCycle(src, tgt)}

Before(pair, other) ==
  pair.tgt < other.tgt \/ (pair.tgt = other.tgt /\ pair.src < other.src)

TargetLater(src, tgt, pair) == Time(tgt, pair.tgt) > Time(src, pair.src)

(* Synchronicity: both cycles start together, and the setup and the hold    *)
(* relation have been found by then.                                       *)
Converged(src, tgt, pairs) ==
  LET ahead  == {pair \in pairs : TargetLater(src, tgt, pair)}
      behind == pairs \ ahead
  IN {pair \in pairs : /\ Start(src, pair.src) = Start(tgt, pair.tgt)
                       /\ \E one \in ahead : Before(one, pair)
                       /\ \E one \in behind : Before(one, pair)}

Visited(src, tgt) ==
  LET pairs     == Pairs(src, tgt)
      converged == Converged(src, tgt, pairs)
  IN {pair \in pairs : \A stop \in converged : Before(pair, stop)}

MaxCyclesExceeded(src, tgt) == Converged(src, tgt, Pairs(src, tgt)) = {}

Entry(src_cycle, tgt_cycle, delay, required) ==
  [src |-> src_cycle, tgt |-> tgt_cycle, delay |-> delay, required |-> required]

Unset == Entry(0, 0, Unlimited, 0)

(* setAccting of the first of the pairs whose delay is least               *)
Closest(pairs, Delay(_), Found(_)) ==
  LET least == {pair \in pairs : \A other \in pairs : Delay(pair) <= Delay(other)}
  IN IF pairs = {} THEN Unset
     ELSE Found(CHOOSE pair \in least : \A other \in least \ {pair} : Before(pair, other))

Setup(src, tgt, visited) ==
  LET Delay(pair) == Time(tgt, pair.tgt) - Time(src, pair.src)
      Found(pair) == Entry(pair.src, pair.tgt, Delay(pair),
                           Time(tgt, pair.tgt) - Start(src, pair.src))
  IN Closest({pair \in visited : TargetLater(src, tgt, pair)}, Delay, Found)

Hold(src, tgt, visited) ==
  LET Delay(pair) == Time(src, pair.src) - Time(tgt, pair.tgt)
      Found(pair) == Entry(pair.src, pair.tgt, Delay(pair),
                           Time(tgt, pair.tgt) - Start(src, pair.src))
  IN Closest({pair \in visited : ~TargetLater(src, tgt, pair)}, Delay, Found)

(* The hold check of a data check is made a source cycle after its setup   *)
(* check, which meets the same pairs as a hold check.                      *)
DataCheckHold(src, tgt, visited) ==
  LET Delay(pair) == Time(src, pair.src) - Time(tgt, pair.tgt)
      Found(pair) == Entry(pair.src + 1, pair.tgt,
                           Time(src, pair.src + 1) - Time(tgt, pair.tgt),
                           Time(tgt, pair.tgt) - Start(src, pair.src + 1))
  IN Closest({pair \in visited : ~TargetLater(src, tgt, pair)}, Delay, Found)

(* A latch is checked against the edge that closes it; the time required   *)
(* is that of the edge before, which opens it.                             *)
LatchSetup(src, tgt, visited) ==
  LET Delay(pair) == OppositeTime(tgt, pair.tgt) - Time(src, pair.src)
      Opens(pair) == IF tgt.time > tgt.opposite THEN pair.tgt - 1 ELSE pair.tgt
      Found(pair) == Entry(pair.src, Opens(pair), Delay(pair),
                           Time(tgt, Opens(pair)) - Start(src, pair.src))
  IN Closest({pair \in visited : Delay(pair) > 0}, Delay, Found)

GatedClockHold(src, tgt, visited) ==
  LET Delay(pair) == Time(src, pair.src) - Time(tgt, pair.tgt)
      Found(pair) == Entry(pair.src, pair.tgt, Delay(pair),
                           Time(tgt, pair.tgt) - Start(src, pair.src))
  IN Closest({pair \in visited : OppositeTime(tgt, pair.tgt) <= Time(src, pair.src)},
             Delay, Found)

(* The roles whose accounting differs: setup stands for output setup, gated *)
(* clock setup and recovery too, hold for output hold, removal and latch    *)
(* hold.                                                                   *)
FindDelays(src, tgt) ==
  LET visited == Visited(src, tgt)
  IN [setup          |-> Setup(src, tgt, visited),
      hold           |-> Hold(src, tgt, visited),
      dataCheckSetup |-> Hold(src, tgt, visited),
      dataCheckHold  |-> DataCheckHold(src, tgt, visited),
      latchSetup     |-> LatchSetup(src, tgt, visited),
      gatedClockHold |-> GatedClockHold(src, tgt, visited),
      exceeded       |-> MaxCyclesExceeded(src, tgt)]

(* The accounting of data that no clock launches                           *)
DefaultArrivalDelays(tgt) ==
  LET setup == IF tgt.time > tgt.period
               THEN Entry(0, 0, tgt.time - tgt.period, tgt.time - tgt.period)
               ELSE IF tgt.time > 0 THEN Entry(0, 0, tgt.time, tgt.time)
               ELSE Entry(0, 1, tgt.period, tgt.period)
      hold  == Entry(0, 0, 0, tgt.time)
  IN [setup |-> setup, hold |-> hold, dataCheckSetup |-> setup,
      dataCheckHold |-> hold, latchSetup |-> setup, gatedClockHold |-> Unset,
      exceeded |-> FALSE]

Nothing ==
  [setup |-> Unset, hold |-> Unset, dataCheckSetup |-> Unset,
   dataCheckHold |-> Unset, latchSetup |-> Unset, gatedClockHold |-> Unset,
   exceeded |-> FALSE]

(* findDelays of two clocks, one of which may have no waveform yet          *)
Accounting(src, tgt) ==
  IF src.period > 0 /\ tgt.period > 0 THEN FindDelays(src, tgt)
  ELSE IF tgt.period > 0 THEN DefaultArrivalDelays(tgt)
  ELSE Nothing
=============================================================================
