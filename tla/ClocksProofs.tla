---------------------------- MODULE ClocksProofs ----------------------------
(***************************************************************************)
(* What holds of the clocks of module Clocks and of their accountings for  *)
(* any clocks, pins, waveforms and ways to generate, after any commands.   *)
(*                                                                         *)
(* Then that the accountings are right, for clocks of any periods and      *)
(* edges: the pair of cycles at which the loops of findDelays stop is late *)
(* enough for the nearest edges of the two clocks to have been met, and    *)
(* what each kind of check records is the first of the nearest pairs.      *)
(*                                                                         *)
(* The lags between the edges repeat with the cycles that start together,  *)
(* so that every lag is that of a target cycle before the stop; a source   *)
(* cycle outside those the loops meet there has a nearer one that they     *)
(* meet in the last cycles before the stop.                                *)
(***************************************************************************)
EXTENDS Clocks, TLAPS, WellFoundedInduction

(* The waveforms and how they are generated                                *)
Waveforms == [RiseFall -> Int]

IsWaved(clk) == clk.period \in Int /\ clk.waveform \in Waveforms

LEMMA WaveformType ==
  ASSUME NEW rise \in Int, NEW fall \in Int
  PROVE  /\ Waveform(rise, fall) \in Waveforms
         /\ Waveform(rise, fall)["rise"] = rise
         /\ Waveform(rise, fall)["fall"] = fall
<1> DEFINE w == Waveform(rise, fall)
<1>1. w \in [rise : Int, fall : Int] /\ w["rise"] = rise /\ w["fall"] = fall
  BY DEF Waveform
<1>2. w = [rf \in {"rise", "fall"} |-> w[rf]]
  BY DEF Waveform
<1>3. \A rf \in {"rise", "fall"} : w[rf] \in Int
  BY <1>1
<1> HIDE DEF w
<1>4. w \in [{"rise", "fall"} -> Int]
  BY <1>2, <1>3
<1>5. QED
  BY <1>1, <1>4 DEF w, Waveforms, RiseFall

LEMMA WaveformTimes ==
  ASSUME NEW wave \in Waveforms
  PROVE  wave.rise \in Int /\ wave.fall \in Int /\ wave["rise"] = wave.rise /\ wave["fall"] = wave.fall
BY DEF Waveforms, RiseFall

LEMMA FromEdgesType ==
  ASSUME NEW master, IsWaved(master), NEW how, IsWay(how),
         how.divide = 0, how.multiply = 0
  PROVE  IsWaved(FromEdges(master, how))
<1> DEFINE EdgeTime(index) ==
             master.waveform[IF index % 2 = 1 THEN "rise" ELSE "fall"]
               + ((index - 1) \div 2) * master.period
<1>1. ASSUME NEW index \in Nat PROVE EdgeTime(index) \in Int
  <2>1. ((index - 1) \div 2) \in Int /\ master.period \in Int
    BY DEF IsWaved
  <2>2. ((index - 1) \div 2) * master.period \in Int
    BY <2>1
  <2>3. master.waveform[IF index % 2 = 1 THEN "rise" ELSE "fall"] \in Int
    BY DEF IsWaved, Waveforms, RiseFall
  <2> QED
    BY <2>2, <2>3
<1>2. \A edge \in 1 .. 3 : how.edges[edge] \in Nat
  BY DEF IsWay
<1>3. FromEdges(master, how) =
        [period |-> EdgeTime(how.edges[3]) - EdgeTime(how.edges[1]),
         waveform |-> Waveform(EdgeTime(how.edges[1]), EdgeTime(how.edges[2]))]
  BY DEF FromEdges
<1> HIDE DEF EdgeTime
<1>4. /\ EdgeTime(how.edges[1]) \in Int
      /\ EdgeTime(how.edges[2]) \in Int
      /\ EdgeTime(how.edges[3]) \in Int
  BY <1>1, <1>2
<1>5. Waveform(EdgeTime(how.edges[1]), EdgeTime(how.edges[2])) \in Waveforms
  BY <1>4, WaveformType
<1>6. QED
  BY <1>3, <1>4, <1>5 DEF IsWaved

LEMMA ScaledType ==
  ASSUME NEW master, IsWaved(master), NEW how, IsWay(how),
         NEW num \in Nat \ {0}, NEW den \in Nat \ {0}
  PROVE  /\ IsWaved(Scaled(master, how, num, den))
         /\ Scaled(master, how, num, den).period = (master.period * num) \div den
<1> DEFINE period == (master.period * num) \div den
           rise == (master.waveform.rise * num) \div den
           fall == (master.waveform.fall * num) \div den
           later == rise + (period * how.duty) \div 100
<1>1. master.period \in Int /\ master.waveform.rise \in Int /\ master.waveform.fall \in Int
  BY WaveformTimes DEF IsWaved
<1>2. \A time \in Int : (time * num) \div den \in Int
  <2>1. ASSUME NEW time \in Int PROVE (time * num) \div den \in Int
    <3>1. time * num \in Int
      OBVIOUS
    <3> QED
      BY <3>1
  <2> QED
    BY <2>1
<1>3. period \in Int /\ rise \in Int /\ fall \in Int
  BY <1>1, <1>2
<1>4. how.duty \in Int
  BY DEF IsWay
<1> HIDE DEF period, rise, fall
<1>5. period * how.duty \in Int
  BY <1>3, <1>4
<1>6. later \in Int
  BY <1>3, <1>5
<1>7. Scaled(master, how, num, den)
        = [period |-> period,
           waveform |-> IF how.duty # 0 THEN Waveform(rise, later) ELSE Waveform(rise, fall)]
  BY DEF Scaled, period, rise, fall
<1> HIDE DEF later
<1>8. Waveform(rise, later) \in Waveforms /\ Waveform(rise, fall) \in Waveforms
  BY <1>3, <1>6, WaveformType
<1>9. QED
  BY <1>3, <1>7, <1>8 DEF IsWaved, period

LEMMA DerivedType ==
  ASSUME NEW master, IsWaved(master), NEW how, IsWay(how)
  PROVE  IsWaved(Derived(master, how))
<1>1. how.divide \in Nat /\ how.multiply \in Nat
  BY DEF IsWay
<1>2. CASE how.divide = 1
  BY <1>2 DEF Derived, IsWaved
<1>3. CASE how.divide > 1 /\ IsPowerOfTwo(how.divide)
  <2> DEFINE period == master.period * how.divide
             wave == Waveform(master.waveform.rise, master.waveform.rise + period \div 2)
  <2>1. period \in Int /\ master.waveform.rise \in Int
    BY <1>1, WaveformTimes DEF IsWaved
  <2>2. Derived(master, how) = [period |-> period, waveform |-> wave]
    BY <1>1, <1>3 DEF Derived
  <2> HIDE DEF period
  <2>3. master.waveform.rise + period \div 2 \in Int
    BY <2>1
  <2>4. wave \in Waveforms
    BY <2>1, <2>3, WaveformType
  <2> HIDE DEF wave
  <2>5. QED
    BY <2>1, <2>2, <2>4 DEF IsWaved
<1>4. CASE how.divide > 1 /\ ~IsPowerOfTwo(how.divide)
  <2>1. Derived(master, how) = Scaled(master, how, how.divide, 1)
    BY <1>1, <1>4 DEF Derived
  <2>2. QED
    BY <1>1, <1>4, <2>1, ScaledType
<1>5. CASE how.divide = 0 /\ how.multiply >= 1
  <2>1. Derived(master, how) = Scaled(master, how, 1, how.multiply)
    BY <1>1, <1>5 DEF Derived
  <2>2. how.multiply \in Nat \ {0}
    BY <1>1, <1>5
  <2>3. QED
    BY <2>1, <2>2, ScaledType
<1>6. CASE how.divide = 0 /\ how.multiply = 0
  <2>1. Derived(master, how) = FromEdges(master, how)
    BY <1>6 DEF Derived
  <2>2. QED
    BY <1>6, <2>1, FromEdgesType
<1>7. QED
  BY <1>1, <1>2, <1>3, <1>4, <1>5, <1>6

(* An inverted clock rises where the clock fell, maybe a period before, and *)
(* falls where it rose, maybe a period after.                              *)
LEMMA InvertedWaves ==
  ASSUME NEW clk, IsWaved(clk), clk = [period |-> clk.period, waveform |-> clk.waveform]
  PROVE  /\ IsWaved(Inverted(clk))
         /\ Inverted(clk) = [period |-> Inverted(clk).period, waveform |-> Inverted(clk).waveform]
         /\ Inverted(clk).period = clk.period
         /\ \E offset \in {0, clk.period} :
              /\ Inverted(clk).waveform["rise"] = clk.waveform["fall"] - offset
              /\ Inverted(clk).waveform["fall"] = clk.waveform["rise"] - offset + clk.period
<1> DEFINE offset == IF clk.waveform.rise >= clk.period THEN clk.period ELSE 0
           rise == clk.waveform["fall"] - offset
           fall == clk.waveform["rise"] - offset + clk.period
<1>1. clk.period \in Int /\ clk.waveform["rise"] \in Int /\ clk.waveform["fall"] \in Int
  BY WaveformTimes DEF IsWaved
<1>2. offset \in {0, clk.period}
  OBVIOUS
<1> HIDE DEF offset
<1>3. rise \in Int /\ fall \in Int
  BY <1>1, <1>2
<1>4. clk.waveform.rise = clk.waveform["rise"] /\ clk.waveform.fall = clk.waveform["fall"]
  OBVIOUS
<1>5. Inverted(clk) = [period |-> clk.period, waveform |-> Waveform(rise, fall)]
  BY <1>4 DEF Inverted, offset
<1> HIDE DEF rise, fall
<1>6. /\ Waveform(rise, fall) \in Waveforms
      /\ Waveform(rise, fall)["rise"] = rise
      /\ Waveform(rise, fall)["fall"] = fall
  BY <1>3, WaveformType
<1>7. /\ Inverted(clk).period = clk.period
      /\ Inverted(clk).waveform = Waveform(rise, fall)
  BY <1>5
<1>8. QED
  BY <1>1, <1>2, <1>5, <1>6, <1>7 DEF IsWaved, rise, fall

LEMMA DerivedShape ==
  ASSUME NEW master, NEW how
  PROVE  Derived(master, how) = [period |-> Derived(master, how).period,
                                 waveform |-> Derived(master, how).waveform]
BY DEF Derived, Scaled, FromEdges

LEMMA GeneratedType ==
  ASSUME NEW master, IsWaved(master), NEW how, IsWay(how)
  PROVE  IsWaved(Generated(master, how))
BY DerivedType, DerivedShape, InvertedWaves DEF Generated

------------------------------------------------------------------------------
(* How a generated clock follows the clock it is derived from: what         *)
(* WaveformsFollow says of the two.                                        *)
FollowsIn(own, master, how) ==
  LET risesWith(rf) == IF how.invert THEN Opposite(rf) ELSE rf
  IN /\ how.divide > 0 => own.period = master.period * how.divide
     /\ how.multiply > 0 =>
          master.period - own.period * how.multiply \in 0 .. how.multiply - 1
     /\ how.divide = 1 =>
          \A rf \in RiseFall : OnEdge(own.waveform[rf], master, risesWith(rf))
     /\ how.divide > 1 /\ IsPowerOfTwo(how.divide) =>
          \A rf \in RiseFall : OnEdge(own.waveform[rf], master, "rise")

LEMMA CyclesLater ==
  ASSUME NEW clk, IsWaved(clk), NEW rf \in RiseFall, NEW cycles \in Int, NEW time,
         time = clk.waveform[rf] + cycles * clk.period
  PROVE  OnEdge(time, clk, rf)
<1>1. clk.period \in Int /\ clk.waveform[rf] \in Int /\ cycles * clk.period \in Int
  BY DEF IsWaved, Waveforms
<1>2. time - clk.waveform[rf] = cycles * clk.period
  BY <1>1
<1>3. ASSUME clk.period > 0 PROVE (cycles * clk.period) % clk.period = 0
  <2>1. clk.period \in Nat \ {0}
    BY <1>1, <1>3
  <2>2. QED
    BY <2>1
<1>4. QED
  BY <1>2, <1>3 DEF OnEdge

LEMMA PowerIsEven ==
  ASSUME NEW number \in Nat, number > 1, IsPowerOfTwo(number)
  PROVE  \E half \in Nat : number = 2 * half
<1>1. number % number = 0
  OBVIOUS
<1>2. number % 2 = 0
  BY <1>1 DEF IsPowerOfTwo
<1>3. number = 2 * (number \div 2) /\ number \div 2 \in Nat
  BY <1>2
<1>4. QED
  BY <1>3

LEMMA DerivedPeriod ==
  ASSUME NEW master, IsWaved(master), NEW how, IsWay(how)
  PROVE  /\ how.divide > 0 => Derived(master, how).period = master.period * how.divide
         /\ how.multiply > 0 =>
              master.period - Derived(master, how).period * how.multiply \in 0 .. how.multiply - 1
<1>1. how.divide \in Nat /\ how.multiply \in Nat /\ (how.divide = 0 \/ how.multiply = 0)
      /\ master.period \in Int
  BY DEF IsWay, IsWaved
<1>2. CASE how.divide = 1
  <2>1. Derived(master, how).period = master.period
    BY <1>2 DEF Derived
  <2>2. QED
    BY <1>1, <1>2, <2>1
<1>3. CASE how.divide > 1 /\ IsPowerOfTwo(how.divide)
  <2>1. Derived(master, how).period = master.period * how.divide
    BY <1>1, <1>3 DEF Derived
  <2>2. QED
    BY <1>1, <1>3, <2>1
<1>4. CASE how.divide > 1 /\ ~IsPowerOfTwo(how.divide)
  <2>1. Derived(master, how) = Scaled(master, how, how.divide, 1)
    BY <1>1, <1>4 DEF Derived
  <2>2. Derived(master, how).period = (master.period * how.divide) \div 1
    BY <1>1, <1>4, <2>1, ScaledType
  <2>3. master.period * how.divide \in Int
    BY <1>1
  <2>4. (master.period * how.divide) \div 1 = master.period * how.divide
    BY <2>3
  <2>5. QED
    BY <1>1, <1>4, <2>2, <2>4
<1>5. CASE how.divide = 0 /\ how.multiply >= 1
  <2>1. Derived(master, how) = Scaled(master, how, 1, how.multiply)
    BY <1>1, <1>5 DEF Derived
  <2>2. Derived(master, how).period = (master.period * 1) \div how.multiply
    BY <1>1, <1>5, <2>1, ScaledType
  <2>3. ASSUME NEW num \in Int, NEW den \in Nat \ {0}
        PROVE  num - (num \div den) * den \in 0 .. den - 1
    OBVIOUS
  <2>4. master.period * 1 = master.period
    BY <1>1
  <2>5. how.multiply \in Nat \ {0}
    BY <1>1, <1>5
  <2>6. master.period - (master.period \div how.multiply) * how.multiply
          \in 0 .. how.multiply - 1
    BY <1>1, <2>3, <2>5
  <2>7. QED
    BY <1>5, <2>2, <2>4, <2>6
<1>6. CASE how.divide = 0 /\ how.multiply = 0
  BY <1>6
<1>7. QED
  BY <1>1, <1>2, <1>3, <1>4, <1>5, <1>6

(* The edges of a clock divided by one are those of its master; divided by  *)
(* a power of two, they are at its rising edges.                           *)
LEMMA DividedEdges ==
  ASSUME NEW master, IsWaved(master), NEW how, IsWay(how)
  PROVE  LET own == Derived(master, how)
         IN /\ how.divide = 1 => own.waveform = master.waveform
            /\ how.divide > 1 /\ IsPowerOfTwo(how.divide) =>
                 /\ own.waveform["rise"] = master.waveform["rise"]
                 /\ \E half \in Nat :
                      /\ how.divide = 2 * half
                      /\ own.waveform["fall"] = master.waveform["rise"] + half * master.period
<1>1. CASE how.divide = 1
  BY <1>1 DEF Derived
<1>2. CASE how.divide > 1 /\ IsPowerOfTwo(how.divide)
  <2> DEFINE period == master.period * how.divide
             rise == master.waveform.rise
             fall == rise + period \div 2
  <2>1. how.divide \in Nat
    BY DEF IsWay
  <2>2. PICK half \in Nat : how.divide = 2 * half
    BY <1>2, <2>1, PowerIsEven
  <2>3. rise \in Int /\ rise = master.waveform["rise"] /\ master.period \in Int
    BY WaveformTimes DEF IsWaved
  <2>4. period \div 2 = half * master.period
    <3>1. period = 2 * (half * master.period) /\ half * master.period \in Int
      BY <2>2, <2>3
    <3>2. \A times \in Int : (2 * times) \div 2 = times
      OBVIOUS
    <3> HIDE DEF period
    <3>3. QED
      BY <3>1, <3>2
  <2>5. Derived(master, how).waveform = Waveform(rise, fall)
    BY <1>2, <2>1 DEF Derived
  <2>6. fall = rise + half * master.period
    BY <2>4
  <2> HIDE DEF fall, period
  <2>7. fall \in Int
    BY <2>3, <2>6
  <2> HIDE DEF rise
  <2>8. Waveform(rise, fall)["rise"] = rise /\ Waveform(rise, fall)["fall"] = fall
    BY <2>3, <2>7, WaveformType
  <2>9. QED
    BY <1>2, <2>2, <2>3, <2>5, <2>6, <2>8
<1>3. QED
  BY <1>1, <1>2

LEMMA GeneratedFollows ==
  ASSUME NEW master, IsWaved(master), NEW how, IsWay(how)
  PROVE  FollowsIn(Generated(master, how), master, how)
<1> DEFINE derived == Derived(master, how)
           own == Generated(master, how)
<1>1. /\ IsWaved(derived)
      /\ derived = [period |-> derived.period, waveform |-> derived.waveform]
      /\ how.divide \in Nat
  BY DerivedType, DerivedShape DEF IsWay
<1>2. /\ how.divide > 0 => derived.period = master.period * how.divide
      /\ how.multiply > 0 =>
           master.period - derived.period * how.multiply \in 0 .. how.multiply - 1
  BY DerivedPeriod
<1>3. /\ how.divide = 1 => derived.waveform = master.waveform
      /\ how.divide > 1 /\ IsPowerOfTwo(how.divide) =>
           /\ derived.waveform["rise"] = master.waveform["rise"]
           /\ \E half \in Nat :
                /\ how.divide = 2 * half
                /\ derived.waveform["fall"] = master.waveform["rise"] + half * master.period
  BY DividedEdges
<1>4. own = IF how.invert THEN Inverted(derived) ELSE derived
  BY DEF Generated
<1>5. master.period \in Int /\ master.waveform["rise"] \in Int /\ master.waveform["fall"] \in Int
  BY WaveformTimes DEF IsWaved
<1> HIDE DEF derived, own
<1>6. own.period = derived.period
  BY <1>1, <1>4, InvertedWaves
<1>7. "rise" \in RiseFall /\ "fall" \in RiseFall
  BY DEF RiseFall
<1>8. CASE ~how.invert
  <2>1. own = derived
    BY <1>4, <1>8
  <2>2. ASSUME how.divide = 1, NEW rf \in RiseFall PROVE OnEdge(own.waveform[rf], master, rf)
    <3>1. master.waveform[rf] \in Int
      BY DEF IsWaved, Waveforms
    <3>2. own.waveform[rf] = master.waveform[rf] + 0 * master.period
      BY <1>3, <1>5, <2>1, <2>2, <3>1
    <3>3. QED
      BY <3>2, CyclesLater
  <2>3. ASSUME how.divide > 1, IsPowerOfTwo(how.divide)
        PROVE  OnEdge(own.waveform["rise"], master, "rise")
               /\ OnEdge(own.waveform["fall"], master, "rise")
    <3>1. own.waveform["rise"] = master.waveform["rise"] + 0 * master.period
      BY <1>3, <1>5, <2>1, <2>3
    <3>2. PICK half \in Nat :
            own.waveform["fall"] = master.waveform["rise"] + half * master.period
      BY <1>3, <2>1, <2>3
    <3>3. half \in Int
      OBVIOUS
    <3>4. OnEdge(own.waveform["fall"], master, "rise")
      BY <1>7, <3>2, <3>3, CyclesLater
    <3>5. OnEdge(own.waveform["rise"], master, "rise")
      BY <1>7, <3>1, CyclesLater
    <3>6. QED
      BY <3>4, <3>5
  <2>4. QED
    BY <1>2, <1>6, <1>8, <2>2, <2>3 DEF FollowsIn, RiseFall, own
<1>9. CASE how.invert
  <2>1. PICK offset \in {0, derived.period} :
          /\ own.waveform["rise"] = derived.waveform["fall"] - offset
          /\ own.waveform["fall"] = derived.waveform["rise"] - offset + derived.period
    BY <1>1, <1>4, <1>9, InvertedWaves
  <2>2. Opposite("rise") = "fall" /\ Opposite("fall") = "rise"
    BY DEF Opposite
  <2>3. ASSUME how.divide = 1
        PROVE  OnEdge(own.waveform["rise"], master, "fall")
               /\ OnEdge(own.waveform["fall"], master, "rise")
    <3>1. derived.period = master.period /\ derived.waveform = master.waveform
      BY <1>2, <1>3, <1>5, <2>3
    <3>2. PICK cycles \in {0, -1} : -offset = cycles * master.period
      BY <1>5, <2>1, <3>1
    <3>3. own.waveform["rise"] = master.waveform["fall"] + cycles * master.period
      BY <1>5, <2>1, <3>1, <3>2
    <3>4. own.waveform["fall"] = master.waveform["rise"] + (cycles + 1) * master.period
      <4>1. CASE cycles = 0
        BY <1>5, <2>1, <3>1, <3>2, <4>1
      <4>2. CASE cycles = -1
        BY <1>5, <2>1, <3>1, <3>2, <4>2
      <4>3. QED
        BY <4>1, <4>2
    <3>5. cycles \in Int /\ cycles + 1 \in Int
      OBVIOUS
    <3>6. OnEdge(own.waveform["rise"], master, "fall")
      BY <1>7, <3>3, <3>5, CyclesLater
    <3>7. OnEdge(own.waveform["fall"], master, "rise")
      BY <1>7, <3>4, <3>5, CyclesLater
    <3>8. QED
      BY <3>6, <3>7
  <2>4. ASSUME how.divide > 1, IsPowerOfTwo(how.divide)
        PROVE  OnEdge(own.waveform["rise"], master, "rise")
               /\ OnEdge(own.waveform["fall"], master, "rise")
    <3>1. derived.period = master.period * how.divide
      BY <1>1, <1>2, <2>4
    <3>2. PICK half \in Nat :
            /\ how.divide = 2 * half
            /\ derived.waveform["fall"] = master.waveform["rise"] + half * master.period
      BY <1>3, <2>4
    <3>3. derived.waveform["rise"] = master.waveform["rise"]
      BY <1>3, <2>4
    <3>4. PICK back \in {0, -1} : -offset = back * (master.period * (2 * half))
      BY <1>5, <2>1, <3>1, <3>2
    <3>5. own.waveform["rise"] = master.waveform["rise"] + (half + back * (2 * half)) * master.period
      <4>1. CASE back = 0
        BY <1>5, <2>1, <3>1, <3>2, <3>4, <4>1
      <4>2. CASE back = -1
        BY <1>5, <2>1, <3>1, <3>2, <3>4, <4>2
      <4>3. QED
        BY <4>1, <4>2
    <3>6. own.waveform["fall"] = master.waveform["rise"] + ((back + 1) * (2 * half)) * master.period
      <4>1. CASE back = 0
        BY <1>5, <2>1, <3>1, <3>2, <3>3, <3>4, <4>1
      <4>2. CASE back = -1
        BY <1>5, <2>1, <3>1, <3>2, <3>3, <3>4, <4>2
      <4>3. QED
        BY <4>1, <4>2
    <3>7. half + back * (2 * half) \in Int /\ (back + 1) * (2 * half) \in Int
      OBVIOUS
    <3>8. OnEdge(own.waveform["rise"], master, "rise")
      BY <1>7, <3>5, <3>7, CyclesLater
    <3>9. OnEdge(own.waveform["fall"], master, "rise")
      BY <1>7, <3>6, <3>7, CyclesLater
    <3>10. QED
      BY <3>8, <3>9
  <2>5. QED
    BY <1>2, <1>6, <1>9, <2>2, <2>3, <2>4 DEF FollowsIn, RiseFall, own
<1>10. QED
  BY <1>8, <1>9 DEF own

------------------------------------------------------------------------------
(* The inductive invariant, of the clocks all that there are.  The clocks   *)
(* are of their type, and a generated one has a way to be generated and a   *)
(* master that there is, if any, but when its own definition deleted it.    *)
GoodClock(all, clk) ==
  /\ all[clk] \in ClockTypes
  /\ all[clk].generated => /\ IsWay(all[clk].how)
                           /\ all[clk].master \in DOMAIN all \cup {NoClock, Freed}

GoodClocks(all) == DOMAIN all \subseteq Names /\ \A clk \in DOMAIN all : GoodClock(all, clk)

UpToDate(all, clk) == all[clk].generated /\ all[clk].valid

Kept(all, clk) == UpToDate(all, clk) /\ all[clk].master # Freed

(* A generated clock that counts as up to date has a master and follows it, *)
(* unless its own definition deleted the master.                           *)
Following(all) ==
  \A clk \in DOMAIN all : Kept(all, clk) =>
    /\ all[clk].master \in DOMAIN all
    /\ FollowsIn(all[clk], all[all[clk].master], all[clk].how)

(* No generated clock is up to date.                                       *)
Outset(all) == \A clk \in DOMAIN all : ~UpToDate(all, clk)

(* The masters of those that are up to date are.                           *)
Chained(all) ==
  \A clk \in DOMAIN all : Kept(all, clk) => all[all[clk].master].valid

(* A definition leaves every generated clock out of date until an update,   *)
(* which brings masters up to date before the clocks derived from them; a  *)
(* clock removed or a master found after that may leave one derived from a *)
(* clock that is out of date, but takes no waveform with it.  Accountings  *)
(* are only kept when no update is to come.                                *)
Phases ==
  /\ updateGenclks \in BOOLEAN /\ updating \in BOOLEAN
  /\ updating => updateGenclks /\ Chained(clocks)
  /\ updateGenclks => DOMAIN acctings = {}
  /\ updateGenclks /\ ~updating => Outset(clocks)

Bounded == spent \in 0 .. Budget

AcctingsTyped == DOMAIN acctings \subseteq (Edges \cup {NoClock}) \X Edges

AcctingsCurrent ==
  \A edges \in DOMAIN acctings : acctings[edges] = AccountingOf(edges[1], edges[2])

ClockInv ==
  /\ GoodClocks(clocks)
  /\ Following(clocks)
  /\ Phases
  /\ Bounded
  /\ AcctingsTyped
  /\ AcctingsCurrent

(* The parts of ClockInv that a step leaves alone                          *)
LEMMA SameAcctings ==
  ASSUME AcctingsTyped, AcctingsCurrent, acctings' = acctings,
         DOMAIN clocks' = DOMAIN clocks,
         \A clk \in Clks : /\ clocks'[clk].period = clocks[clk].period
                           /\ clocks'[clk].waveform = clocks[clk].waveform
  PROVE  AcctingsTyped' /\ AcctingsCurrent'
<1>1. Edges' = Edges
  BY DEF Edges, Clks
<1>2. ASSUME NEW edge \in Edges PROVE Edge(edge)' = Edge(edge)
  BY DEF Edge, Edges, Clks
<1>3. ASSUME NEW src \in Edges \cup {NoClock}, NEW tgt \in Edges
      PROVE  AccountingOf(src, tgt)' = AccountingOf(src, tgt)
  BY <1>2 DEF AccountingOf
<1>4. QED
  BY <1>1, <1>3 DEF AcctingsTyped, AcctingsCurrent

LEMMA NoAcctings ==
  ASSUME acctings' = <<>>
  PROVE  AcctingsTyped' /\ AcctingsCurrent' /\ DOMAIN acctings' = {}
BY DEF AcctingsTyped, AcctingsCurrent

------------------------------------------------------------------------------
(* The functions of clocks that the commands use                           *)
LEMMA LessPins ==
  ASSUME NEW clk \in ClockTypes, NEW pins
  PROVE  [clk EXCEPT !.pins = @ \ pins] \in ClockTypes
BY DEF ClockTypes

LEMMA WithoutType ==
  ASSUME NEW clk \in ClockTypes
  PROVE  LET without == [clk EXCEPT !.master = NoClock, !.valid = FALSE]
         IN without \in ClockTypes /\ ~without.valid /\ without.master = NoClock
            /\ without.how = clk.how /\ without.generated = clk.generated
BY DEF ClockTypes

LEMMA InvalidType ==
  ASSUME NEW clk \in ClockTypes
  PROVE  LET invalid == [clk EXCEPT !.valid = FALSE]
         IN invalid \in ClockTypes /\ ~invalid.valid /\ invalid.master = clk.master
            /\ invalid.how = clk.how /\ invalid.generated = clk.generated
BY DEF ClockTypes

LEMMA WithoutGood ==
  ASSUME NEW all, GoodClocks(all), NEW clks
  PROVE  /\ GoodClocks(Without(clks, all))
         /\ Following(all) => Following(Without(clks, all))
         /\ Outset(all) => Outset(Without(clks, all))
<1> DEFINE rest == Without(clks, all)
<1>1. DOMAIN rest = DOMAIN all \ clks
  BY DEF Without
<1>2. ASSUME NEW clk \in DOMAIN rest, all[clk].generated, all[clk].master \in clks
      PROVE  /\ rest[clk] \in ClockTypes /\ ~rest[clk].valid /\ rest[clk].master = NoClock
             /\ rest[clk].how = all[clk].how /\ rest[clk].generated
  <2>1. rest[clk] = [all[clk] EXCEPT !.master = NoClock, !.valid = FALSE]
    BY <1>1, <1>2 DEF Without
  <2>2. all[clk] \in ClockTypes
    BY <1>1 DEF GoodClocks, GoodClock
  <2>3. QED
    BY <1>2, <2>1, <2>2, WithoutType
<1>3. ASSUME NEW clk \in DOMAIN rest, ~(all[clk].generated /\ all[clk].master \in clks)
      PROVE  rest[clk] = all[clk]
  BY <1>1, <1>3 DEF Without
<1> HIDE DEF rest
<1>4. \A clk \in DOMAIN rest : GoodClock(rest, clk)
  BY <1>1, <1>2, <1>3 DEF GoodClocks, GoodClock
<1>5. \A clk \in DOMAIN rest : UpToDate(rest, clk) => UpToDate(all, clk) /\ rest[clk] = all[clk]
  BY <1>2, <1>3 DEF UpToDate
<1>6. ASSUME Following(all), NEW clk \in DOMAIN rest, Kept(rest, clk)
      PROVE  /\ rest[clk].master \in DOMAIN rest
             /\ FollowsIn(rest[clk], rest[rest[clk].master], rest[clk].how)
  <2>1. Kept(all, clk) /\ rest[clk] = all[clk]
    BY <1>5, <1>6 DEF Kept
  <2>2. all[clk].master \in DOMAIN all \ clks
    BY <1>1, <1>2, <1>6, <2>1 DEF Following, Kept, UpToDate
  <2>3. PICK master \in DOMAIN rest : master = all[clk].master
    BY <1>1, <2>2
  <2>4. FollowsIn(all[clk], all[master], all[clk].how)
    BY <1>1, <1>6, <2>1, <2>3 DEF Following
  <2>5. rest[master].period = all[master].period /\ rest[master].waveform = all[master].waveform
    <3>1. CASE all[master].generated /\ all[master].master \in clks
      <4>1. rest[master] = [all[master] EXCEPT !.master = NoClock, !.valid = FALSE]
        BY <1>1, <2>3, <3>1 DEF rest, Without
      <4>2. all[master] \in ClockTypes
        BY <1>1, <2>3 DEF GoodClocks, GoodClock
      <4>3. QED
        BY <4>1, <4>2 DEF ClockTypes
    <3>2. QED
      BY <1>3, <3>1
  <2>6. QED
    BY <2>1, <2>3, <2>4, <2>5 DEF FollowsIn, OnEdge
<1>7. QED
  BY <1>1, <1>4, <1>5, <1>6 DEF GoodClocks, Following, Outset, rest

LEMMA InvalidateGood ==
  ASSUME NEW all, GoodClocks(all)
  PROVE  /\ GoodClocks(InvalidateGeneratedClks(all))
         /\ Outset(InvalidateGeneratedClks(all))
         /\ Following(InvalidateGeneratedClks(all))
<1> DEFINE now == InvalidateGeneratedClks(all)
<1>1. DOMAIN now = DOMAIN all
  BY DEF InvalidateGeneratedClks
<1>2. ASSUME NEW clk \in DOMAIN all, all[clk].generated
      PROVE  /\ now[clk] \in ClockTypes /\ ~now[clk].valid
             /\ now[clk].master = all[clk].master /\ now[clk].how = all[clk].how
  <2>1. now[clk] = [all[clk] EXCEPT !.valid = FALSE]
    BY <1>2 DEF InvalidateGeneratedClks
  <2>2. all[clk] \in ClockTypes
    BY DEF GoodClocks, GoodClock
  <2>3. QED
    BY <2>1, <2>2, InvalidType
<1>3. ASSUME NEW clk \in DOMAIN all, ~all[clk].generated PROVE now[clk] = all[clk]
  BY <1>3 DEF InvalidateGeneratedClks
<1> HIDE DEF now
<1>4. \A clk \in DOMAIN now : GoodClock(now, clk) /\ ~UpToDate(now, clk)
  BY <1>1, <1>2, <1>3 DEF GoodClocks, GoodClock, UpToDate
<1>5. QED
  BY <1>1, <1>4 DEF GoodClocks, Outset, Following, Kept, now

LEMMA WithGood ==
  ASSUME NEW all, GoodClocks(all), NEW name \in Names, NEW clk \in ClockTypes,
         clk.generated => /\ IsWay(clk.how)
                          /\ clk.master \in DOMAIN all \cup {NoClock, Freed}
  PROVE  GoodClocks(With(all, name, clk))
<1> DEFINE now == With(all, name, clk)
<1>1. DOMAIN now = DOMAIN all \cup {name}
  BY DEF With
<1>2. now[name] = clk
  BY DEF With
<1>3. \A other \in DOMAIN all : other # name => now[other] = all[other]
  BY DEF With
<1> HIDE DEF now
<1>4. \A other \in DOMAIN now : GoodClock(now, other)
  BY <1>1, <1>2, <1>3 DEF GoodClocks, GoodClock
<1>5. QED
  BY <1>1, <1>4 DEF GoodClocks, now

LEMMA ReusedGood ==
  ASSUME NEW all, GoodClocks(all), NEW name \in DOMAIN all, NEW clks
  PROVE  GoodClocks(Reused(all, name, clks))
<1> DEFINE now == Reused(all, name, clks)
<1>1. DOMAIN now = DOMAIN all /\ name \in Names
  BY DEF Reused, GoodClocks
<1>2. ASSUME NEW clk \in DOMAIN all PROVE GoodClock(now, clk)
  <2>1. GoodClock(all, clk) /\ all[clk] \in ClockTypes
    BY DEF GoodClocks, GoodClock
  <2>2. CASE clk \in clks
    <3>1. now[clk] = [all[clk] EXCEPT !.master = name]
      BY <2>2 DEF Reused
    <3>2. /\ now[clk] \in ClockTypes /\ now[clk].master = name
          /\ now[clk].how = all[clk].how /\ now[clk].generated = all[clk].generated
      BY <1>1, <2>1, <3>1 DEF ClockTypes
    <3> HIDE DEF now
    <3>3. QED
      BY <1>1, <2>1, <3>2 DEF GoodClock
  <2>3. CASE clk \notin clks
    <3>1. now[clk] = all[clk]
      BY <2>3 DEF Reused
    <3> HIDE DEF now
    <3>2. QED
      BY <1>1, <2>1, <3>1 DEF GoodClock
  <2>4. QED
    BY <2>2, <2>3
<1> HIDE DEF now
<1>3. QED
  BY <1>1, <1>2 DEF GoodClocks, now

LEMMA TakenGood ==
  ASSUME GoodClocks(clocks), NEW args
  PROVE  GoodClocks(Taken(args))
<1> DEFINE left == [clk \in Clks |-> [clocks[clk] EXCEPT !.pins = @ \ args.pins]]
           gone == {clk \in ClocksOn(args.pins) \ {args.name} : left[clk].pins = {}}
<1>1. ASSUME NEW clk \in Clks PROVE GoodClock(left, clk)
  <2>1. left[clk] = [clocks[clk] EXCEPT !.pins = @ \ args.pins]
    OBVIOUS
  <2>2. GoodClock(clocks, clk) /\ clocks[clk] \in ClockTypes
    BY DEF GoodClocks, GoodClock, Clks
  <2>3. DOMAIN left = DOMAIN clocks
    BY DEF Clks
  <2>4. left[clk] \in ClockTypes
    BY <2>1, <2>2, LessPins
  <2>5. /\ left[clk].generated = clocks[clk].generated
        /\ left[clk].how = clocks[clk].how
        /\ left[clk].master = clocks[clk].master
    BY <2>1, <2>2 DEF ClockTypes
  <2> HIDE DEF left
  <2>6. QED
    BY <2>2, <2>3, <2>4, <2>5 DEF GoodClock
<1>2. GoodClocks(left)
  <2>1. DOMAIN left = Clks /\ Clks \subseteq Names
    BY DEF GoodClocks, Clks
  <2> HIDE DEF left
  <2>2. QED
    BY <1>1, <2>1 DEF GoodClocks
<1>3. PinsTaken(args.name, args.pins) = Without(gone, left)
  BY DEF PinsTaken
<1> HIDE DEF left, gone
<1>4. QED
  BY <1>2, <1>3, WithoutGood DEF Taken

LEMMA DefinedType ==
  ASSUME NEW all, GoodClocks(all), NEW name
  PROVE  Defined(all, name) \in ClockTypes
<1>1. FreshClock \in ClockTypes
  <2>1. Waveform(0, 0) \in [RiseFall -> Int]
    BY WaveformType DEF Waveforms
  <2>2. QED
    BY <2>1 DEF FreshClock, ClockTypes
<1>2. QED
  BY <1>1 DEF Defined, GoodClocks, GoodClock

------------------------------------------------------------------------------
(* One lemma per action                                                    *)
LEMMA InitInv ==
  ASSUME Init PROVE ClockInv
<1>1. DOMAIN clocks = {} /\ DOMAIN acctings = {} /\ spent \in 0 .. Budget
  BY ClockConstants DEF Init
<1>2. GoodClocks(clocks) /\ Following(clocks)
  BY <1>1 DEF GoodClocks, Following
<1>3. AcctingsTyped /\ AcctingsCurrent
  BY <1>1 DEF AcctingsTyped, AcctingsCurrent
<1>4. Phases
  BY <1>1 DEF Init, Phases
<1>5. QED
  BY <1>1, <1>2, <1>3, <1>4 DEF ClockInv, Bounded

LEMMA CommandBounded ==
  ASSUME Bounded, NEW args, Cost(args) \in Nat, Command(args)
  PROVE  Bounded'
BY ClockConstants DEF Bounded, Command

LEMMA DefineInv ==
  ASSUME ClockInv, NEW args, Cost(args) \in Nat, Command(args),
         NEW all, GoodClocks(all), NEW name \in Names, NEW clk \in ClockTypes,
         clk.generated => /\ IsWay(clk.how)
                          /\ clk.master \in DOMAIN all \cup {NoClock, Freed},
         Define(all, name, clk), updating' = updating
  PROVE  ClockInv'
<1>1. GoodClocks(With(all, name, clk)) /\ name \in DOMAIN With(all, name, clk)
  BY WithGood DEF With
<1>2. PICK clks : clocks' = InvalidateGeneratedClks(Reused(With(all, name, clk), name, clks))
  BY DEF Define
<1>3. GoodClocks(clocks') /\ Outset(clocks') /\ Following(clocks')
  <2>1. GoodClocks(Reused(With(all, name, clk), name, clks))
    BY <1>1, ReusedGood
  <2>2. QED
    BY <1>2, <2>1, InvalidateGood
<1>4. AcctingsTyped' /\ AcctingsCurrent' /\ DOMAIN acctings' = {}
  BY NoAcctings DEF Define
<1>5. updateGenclks' = TRUE /\ updating' \in BOOLEAN
  BY DEF Define, ClockInv, Phases
<1>6. ~updating'
  BY DEF Command
<1>7. Phases'
  BY <1>3, <1>4, <1>5, <1>6 DEF Phases
<1>8. Bounded'
  BY CommandBounded DEF ClockInv
<1>9. QED
  BY <1>3, <1>4, <1>7, <1>8 DEF ClockInv

LEMMA MakeClockInv ==
  ASSUME ClockInv, NEW args \in ClockArgs, MakeClock(args)
  PROVE  ClockInv'
<1> DEFINE all == Taken(args)
           old == Defined(all, args.name)
           clk == [old EXCEPT
                     !.generated = FALSE, !.pins = args.pins, !.period = args.period,
                     !.waveform = Waveform(args.rise, args.fall), !.valid = TRUE]
<1>1. Command(args) /\ Define(all, args.name, clk) /\ updating' = updating
  BY DEF MakeClock
<1>2. /\ args.name \in Names /\ args.pins \subseteq Pins /\ Cost(args) \in Nat
      /\ args.period \in Int /\ args.rise \in Int /\ args.fall \in Int
  BY ClockConstants
<1>3. GoodClocks(all)
  BY TakenGood DEF ClockInv
<1> HIDE DEF all
<1>4. old \in ClockTypes
  BY <1>3, DefinedType
<1> HIDE DEF old
<1>5. Waveform(args.rise, args.fall) \in [RiseFall -> Int]
  BY <1>2, WaveformType DEF Waveforms
<1>6. clk \in ClockTypes
  BY <1>2, <1>4, <1>5 DEF ClockTypes
<1>7. ~clk.generated
  BY <1>4 DEF ClockTypes
<1> HIDE DEF clk
<1>8. QED
  BY <1>1, <1>2, <1>3, <1>6, <1>7, DefineInv

LEMMA MakeGeneratedClockInv ==
  ASSUME ClockInv, NEW args \in GeneratedArgs, MakeGeneratedClock(args)
  PROVE  ClockInv'
<1> DEFINE all == Taken(args)
           old == Defined(all, args.name)
           master == IF args.master \in DOMAIN all \cup {NoClock} THEN args.master ELSE Freed
           clk == [old EXCEPT
                     !.generated = TRUE, !.pins = args.pins, !.source = args.source,
                     !.master = master, !.valid = FALSE, !.how = args.how]
<1>1. Command(args) /\ Define(all, args.name, clk) /\ updating' = updating
  BY DEF MakeGeneratedClock
<1>2. /\ args.name \in Names /\ args.pins \subseteq Pins /\ Cost(args) \in Nat
      /\ args.source \in Pins /\ args.master \in Names \cup {NoClock} /\ IsWay(args.how)
  BY ClockConstants
<1>3. GoodClocks(all)
  BY TakenGood DEF ClockInv
<1> HIDE DEF all
<1>4. old \in ClockTypes
  BY <1>3, DefinedType
<1> HIDE DEF old
<1>5. args.how \in {NotGenerated} \cup {other.how : other \in GeneratedArgs}
  OBVIOUS
<1>6. /\ master \in DOMAIN all \cup {NoClock, Freed}
      /\ master \in Names \cup {NoClock, Freed}
  BY <1>2
<1> HIDE DEF master
<1>7. clk \in ClockTypes
  BY <1>2, <1>4, <1>5, <1>6 DEF ClockTypes
<1>8. clk.how = args.how /\ clk.master = master
  BY <1>4 DEF ClockTypes
<1> HIDE DEF clk
<1>9. QED
  BY <1>1, <1>2, <1>3, <1>6, <1>7, <1>8, DefineInv

LEMMA RemoveClockInv ==
  ASSUME ClockInv, NEW clk \in Clks, RemoveClock(clk)
  PROVE  ClockInv'
<1>1. clocks' = Without({clk}, clocks) /\ Command(clk)
  BY DEF RemoveClock
<1>2. /\ GoodClocks(clocks') /\ Following(clocks')
      /\ Outset(clocks) => Outset(clocks')
  BY <1>1, WithoutGood DEF ClockInv
<1>3. AcctingsTyped' /\ AcctingsCurrent' /\ DOMAIN acctings' = {}
  BY NoAcctings DEF RemoveClock
<1>4. Phases'
  BY <1>2, <1>3 DEF ClockInv, Phases, RemoveClock, Command
<1>5. Cost(clk) \in Nat
  BY ClockConstants DEF ClockInv, GoodClocks, Clks
<1>6. Bounded'
  BY <1>1, <1>5, CommandBounded DEF ClockInv
<1>7. QED
  BY <1>2, <1>3, <1>4, <1>6 DEF ClockInv

LEMMA StartUpdateInv ==
  ASSUME ClockInv, StartUpdate
  PROVE  ClockInv'
<1>1. /\ ~updating /\ updateGenclks /\ updating' = TRUE /\ updateGenclks' = updateGenclks
      /\ clocks' = clocks /\ acctings' = acctings /\ spent' = spent
  BY DEF StartUpdate
<1>2. Outset(clocks) /\ updateGenclks \in BOOLEAN /\ DOMAIN acctings = {}
  BY <1>1 DEF ClockInv, Phases
<1>3. Chained(clocks)
  BY <1>2 DEF Outset, Chained, Kept
<1>4. Phases'
  BY <1>1, <1>2, <1>3 DEF Phases
<1>5. AcctingsTyped' /\ AcctingsCurrent'
  BY <1>1, SameAcctings DEF ClockInv
<1>6. GoodClocks(clocks') /\ Following(clocks') /\ Bounded'
  BY <1>1 DEF ClockInv, Bounded
<1>7. QED
  BY <1>4, <1>5, <1>6 DEF ClockInv

LEMMA EndUpdateInv ==
  ASSUME ClockInv, EndUpdate
  PROVE  ClockInv'
<1>1. /\ updating' = FALSE /\ updateGenclks' = FALSE
      /\ clocks' = clocks /\ acctings' = acctings /\ spent' = spent
  BY DEF EndUpdate
<1>2. Phases'
  BY <1>1 DEF Phases
<1>3. AcctingsTyped' /\ AcctingsCurrent'
  BY <1>1, SameAcctings DEF ClockInv
<1>4. GoodClocks(clocks') /\ Following(clocks') /\ Bounded'
  BY <1>1 DEF ClockInv, Bounded
<1>5. QED
  BY <1>2, <1>3, <1>4 DEF ClockInv

(* The masters an update or a check finds are clocks other than the one     *)
(* they are for, but for the master a command names.                       *)
LEMMA MastersThere ==
  ASSUME GoodClocks(clocks), NEW clk \in Clks, clocks[clk].generated,
         NEW master \in Masters(clk)
  PROVE  master \in Clks
BY DEF GoodClocks, GoodClock, Clks, Masters, ClocksOn

LEMMA CheckMasterInv ==
  ASSUME ClockInv, NEW clk \in Clks, CheckMaster(clk)
  PROVE  ClockInv'
<1>1. /\ ~updating /\ ~updateGenclks /\ clocks[clk].generated
      /\ UNCHANGED <<acctings, updateGenclks, updating, spent>>
  BY DEF CheckMaster
<1>2. PICK master \in Masters(clk) :
        clocks' = [clocks EXCEPT ![clk].master = master, ![clk].valid = FALSE]
  BY DEF CheckMaster
<1>3. master \in Clks
  BY <1>1, MastersThere DEF ClockInv
<1>4. /\ clocks[clk] \in ClockTypes /\ IsWay(clocks[clk].how) /\ Clks \subseteq Names
      /\ GoodClocks(clocks)
  BY <1>1 DEF ClockInv, GoodClocks, GoodClock, Clks
<1> DEFINE now == [clocks[clk] EXCEPT !.master = master, !.valid = FALSE]
<1>5. /\ now \in ClockTypes
      /\ now.master = master /\ ~now.valid
      /\ now.how = clocks[clk].how
      /\ now.period = clocks[clk].period /\ now.waveform = clocks[clk].waveform
  BY <1>3, <1>4 DEF ClockTypes
<1>6. /\ DOMAIN clocks' = DOMAIN clocks
      /\ clocks'[clk] = now
      /\ \A other \in Clks : other # clk => clocks'[other] = clocks[other]
  BY <1>2 DEF Clks
<1> HIDE DEF now
<1>7. \A other \in Clks : /\ clocks'[other].period = clocks[other].period
                          /\ clocks'[other].waveform = clocks[other].waveform
  BY <1>5, <1>6
<1>8. AcctingsTyped' /\ AcctingsCurrent'
  BY <1>1, <1>6, <1>7, SameAcctings DEF ClockInv
<1>9. GoodClocks(clocks')
  BY <1>3, <1>4, <1>5, <1>6 DEF GoodClocks, GoodClock, Clks
<1>10. Following(clocks')
  <2>1. ASSUME NEW other \in DOMAIN clocks', Kept(clocks', other)
        PROVE  /\ clocks'[other].master \in DOMAIN clocks'
               /\ FollowsIn(clocks'[other], clocks'[clocks'[other].master], clocks'[other].how)
    <3>1. other # clk /\ other \in Clks
      BY <1>5, <1>6, <2>1 DEF Kept, UpToDate, Clks
    <3>2. clocks'[other] = clocks[other] /\ Kept(clocks, other)
      BY <1>6, <2>1, <3>1 DEF Kept, UpToDate
    <3>3. PICK its \in Clks : its = clocks[other].master
      BY <3>1, <3>2 DEF ClockInv, Following, Clks
    <3>4. FollowsIn(clocks[other], clocks[its], clocks[other].how)
      BY <3>1, <3>2, <3>3 DEF ClockInv, Following, Clks
    <3>5. FollowsIn(clocks[other], clocks'[its], clocks[other].how)
      BY <1>7, <3>4 DEF FollowsIn, OnEdge
    <3>6. QED
      BY <1>6, <3>2, <3>3, <3>5 DEF Clks
  <2>2. QED
    BY <2>1 DEF Following
<1>11. Phases'
  BY <1>1 DEF ClockInv, Phases
<1>12. QED
  BY <1>1, <1>8, <1>9, <1>10, <1>11 DEF ClockInv, Bounded

LEMMA UpdateClockInv ==
  ASSUME ClockInv, NEW clk \in Clks, UpdateClock(clk)
  PROVE  ClockInv'
<1>1. /\ updating /\ clk \in Outdated
      /\ UNCHANGED <<acctings, updateGenclks, updating, spent>>
  BY DEF UpdateClock
<1>2. /\ clocks[clk].generated /\ ~clocks[clk].valid
      /\ updateGenclks /\ Chained(clocks) /\ DOMAIN acctings = {}
  BY <1>1 DEF Outdated, ClockInv, Phases
<1>3. /\ GoodClocks(clocks) /\ Clks \subseteq Names
      /\ clocks[clk] \in ClockTypes /\ IsWay(clocks[clk].how)
  BY <1>2 DEF ClockInv, GoodClocks, GoodClock, Clks
<1> DEFINE owned(master) == [clocks[clk] EXCEPT !.master = master]
           wave(master) == Generated(clocks[master], clocks[clk].how)
           now(master) == IF clocks[master].valid
                          THEN [owned(master) EXCEPT !.period = wave(master).period,
                                  !.waveform = wave(master).waveform, !.valid = TRUE]
                          ELSE owned(master)
<1>4. PICK master \in Masters(clk) : clocks' = [clocks EXCEPT ![clk] = now(master)]
  BY <1>1 DEF UpdateClock
<1>5. master \in Clks /\ master \in Names
  BY <1>2, <1>3, MastersThere
<1>6. IsWaved(clocks[master]) /\ clocks[master].valid \in BOOLEAN
  BY <1>3, <1>5 DEF GoodClocks, GoodClock, Clks, ClockTypes, IsWaved, Waveforms
<1>7. IsWaved(wave(master)) /\ FollowsIn(wave(master), clocks[master], clocks[clk].how)
  BY <1>3, <1>6, GeneratedType, GeneratedFollows
<1>8. /\ owned(master) \in ClockTypes
      /\ owned(master).master = master /\ ~owned(master).valid
      /\ owned(master).how = clocks[clk].how /\ owned(master).generated
  BY <1>2, <1>3, <1>5 DEF ClockTypes
<1> DEFINE entry == now(master)
           its == wave(master)
<1>9. /\ entry \in ClockTypes /\ entry.master = master
      /\ entry.how = clocks[clk].how /\ entry.generated
      /\ entry.valid => /\ clocks[master].valid
                        /\ entry.period = its.period /\ entry.waveform = its.waveform
  <2>1. CASE clocks[master].valid
    <3> DEFINE was == owned(master)
    <3>1. entry = [was EXCEPT !.period = its.period, !.waveform = its.waveform, !.valid = TRUE]
      BY <2>1
    <3>2. its.period \in Int /\ its.waveform \in [RiseFall -> Int]
      BY <1>7 DEF IsWaved, Waveforms
    <3>3. was \in ClockTypes /\ was.master = master /\ was.how = clocks[clk].how /\ was.generated
      BY <1>8
    <3> HIDE DEF was, its, entry
    <3>4. entry \in ClockTypes
      BY <3>1, <3>2, <3>3 DEF ClockTypes
    <3>5. /\ entry.period = its.period /\ entry.waveform = its.waveform
          /\ entry.master = was.master /\ entry.how = was.how
          /\ entry.generated = was.generated
      BY <3>1, <3>3 DEF ClockTypes
    <3>6. QED
      BY <2>1, <3>3, <3>4, <3>5
  <2>2. CASE ~clocks[master].valid
    <3>1. entry = owned(master)
      BY <2>2
    <3> HIDE DEF entry, owned
    <3>2. QED
      BY <1>8, <3>1
  <2>3. QED
    BY <2>1, <2>2
<1>10. /\ DOMAIN clocks' = DOMAIN clocks
       /\ clocks'[clk] = entry
       /\ \A other \in Clks : other # clk => clocks'[other] = clocks[other]
  BY <1>4 DEF Clks
<1>11. FollowsIn(its, clocks[master], entry.how)
  BY <1>7, <1>9
<1> HIDE DEF entry, its, now, owned, wave
<1>12. GoodClocks(clocks')
  BY <1>3, <1>5, <1>9, <1>10 DEF GoodClocks, GoodClock, Clks
<1>13. \A other \in Clks : clocks[other].valid => other # clk /\ clocks'[other] = clocks[other]
  BY <1>2, <1>10
<1>14. ASSUME NEW other \in Clks, Kept(clocks', other)
       PROVE  /\ clocks'[other].master \in Clks
              /\ clocks'[clocks'[other].master].valid
              /\ FollowsIn(clocks'[other], clocks'[clocks'[other].master], clocks'[other].how)
  <2>1. CASE other = clk
    <3>1. entry.valid
      BY <1>10, <1>14, <2>1 DEF Kept, UpToDate
    <3>2. clocks[master].valid /\ clocks'[master] = clocks[master]
      BY <1>5, <1>9, <1>13, <3>1
    <3>3. FollowsIn(entry, clocks[master], entry.how)
      BY <1>9, <1>11, <3>1 DEF FollowsIn
    <3>4. QED
      BY <1>5, <1>9, <1>10, <2>1, <3>2, <3>3
  <2>2. CASE other # clk
    <3>1. clocks'[other] = clocks[other] /\ Kept(clocks, other)
      BY <1>10, <1>14, <2>2 DEF Kept, UpToDate
    <3>2. PICK own \in Clks : own = clocks[other].master
      BY <3>1 DEF ClockInv, Following, Clks
    <3>3. clocks[own].valid
      BY <1>2, <3>1, <3>2 DEF Chained, Clks
    <3>4. FollowsIn(clocks[other], clocks[own], clocks[other].how)
      BY <3>1, <3>2 DEF ClockInv, Following, Clks
    <3>5. QED
      BY <1>13, <3>1, <3>2, <3>3, <3>4
  <2>3. QED
    BY <2>1, <2>2
<1>15. Following(clocks') /\ Chained(clocks')
  BY <1>10, <1>14 DEF Following, Chained, Clks
<1>16. Phases'
  BY <1>1, <1>2, <1>15 DEF ClockInv, Phases
<1>17. AcctingsTyped' /\ AcctingsCurrent' /\ Bounded'
  BY <1>1, <1>2 DEF ClockInv, AcctingsTyped, AcctingsCurrent, Bounded
<1>18. QED
  BY <1>12, <1>15, <1>16, <1>17 DEF ClockInv

(* A clock whose master was deleted takes the waveform that is read there:  *)
(* nothing that is up to date follows it.                                  *)
LEMMA UpdateFromFreedInv ==
  ASSUME ClockInv, NEW clk \in Clks, UpdateFromFreed(clk)
  PROVE  ClockInv'
<1>1. /\ updating /\ clocks[clk].generated /\ ~clocks[clk].valid /\ clocks[clk].master = Freed
      /\ UNCHANGED <<acctings, updateGenclks, updating, spent>>
  BY DEF UpdateFromFreed
<1>2. /\ GoodClocks(clocks) /\ Clks \subseteq Names
      /\ clocks[clk] \in ClockTypes /\ IsWay(clocks[clk].how)
      /\ updateGenclks /\ Chained(clocks) /\ DOMAIN acctings = {}
  BY <1>1 DEF ClockInv, Phases, GoodClocks, GoodClock, Clks
<1> DEFINE wave(read) == Generated(read, clocks[clk].how)
           now(read) == [clocks[clk] EXCEPT !.period = wave(read).period,
                           !.waveform = wave(read).waveform, !.valid = TRUE]
<1>3. PICK read \in FreedWaves : clocks' = [clocks EXCEPT ![clk] = now(read)]
  BY DEF UpdateFromFreed
<1>4. IsWaved(read)
  BY ClockConstants DEF IsWaved, Waveforms, RiseFall
<1>5. IsWaved(wave(read))
  BY <1>2, <1>4, GeneratedType
<1> DEFINE entry == now(read)
           its == wave(read)
<1>6. entry \in ClockTypes /\ entry.master = Freed /\ IsWay(entry.how)
  <2>1. its.period \in Int /\ its.waveform \in [RiseFall -> Int]
    BY <1>5 DEF IsWaved, Waveforms
  <2>2. entry = [clocks[clk] EXCEPT !.period = its.period, !.waveform = its.waveform,
                                    !.valid = TRUE]
    OBVIOUS
  <2> HIDE DEF entry, its
  <2>3. QED
    BY <1>1, <1>2, <2>1, <2>2 DEF ClockTypes
<1>7. /\ DOMAIN clocks' = DOMAIN clocks
      /\ clocks'[clk] = entry
      /\ \A other \in Clks : other # clk => clocks'[other] = clocks[other]
  BY <1>3 DEF Clks
<1> HIDE DEF entry, its, now, wave
<1>8. GoodClocks(clocks')
  BY <1>2, <1>6, <1>7 DEF GoodClocks, GoodClock, Clks
<1>9. ASSUME NEW other \in Clks, Kept(clocks', other)
      PROVE  /\ clocks'[other].master \in Clks
             /\ clocks'[clocks'[other].master].valid
             /\ FollowsIn(clocks'[other], clocks'[clocks'[other].master], clocks'[other].how)
  <2>1. other # clk
    BY <1>6, <1>7, <1>9 DEF Kept
  <2>2. clocks'[other] = clocks[other] /\ Kept(clocks, other)
    BY <1>7, <1>9, <2>1 DEF Kept, UpToDate
  <2>3. PICK own \in Clks : own = clocks[other].master
    BY <2>2 DEF ClockInv, Following, Clks
  <2>4. clocks[own].valid
    BY <1>2, <2>2, <2>3 DEF Chained, Clks
  <2>5. clocks'[own] = clocks[own]
    BY <1>1, <1>7, <2>4
  <2>6. FollowsIn(clocks[other], clocks[own], clocks[other].how)
    BY <2>2, <2>3 DEF ClockInv, Following, Clks
  <2>7. QED
    BY <2>2, <2>3, <2>4, <2>5, <2>6
<1>10. Following(clocks') /\ Chained(clocks')
  BY <1>7, <1>9 DEF Following, Chained, Clks
<1>11. Phases'
  BY <1>1, <1>2, <1>10 DEF ClockInv, Phases
<1>12. AcctingsTyped' /\ AcctingsCurrent' /\ Bounded'
  BY <1>1, <1>2 DEF ClockInv, AcctingsTyped, AcctingsCurrent, Bounded
<1>13. QED
  BY <1>8, <1>10, <1>11, <1>12 DEF ClockInv

LEMMA CycleAcctingInv ==
  ASSUME ClockInv, NEW src \in Edges \cup {NoClock}, NEW tgt \in Edges,
         CycleAccting(src, tgt)
  PROVE  ClockInv'
<1>1. /\ ~updateGenclks
      /\ acctings' = With(acctings, <<src, tgt>>, AccountingOf(src, tgt))
      /\ clocks' = clocks /\ updateGenclks' = updateGenclks
      /\ updating' = updating /\ spent' = spent
  BY DEF CycleAccting
<1>2. DOMAIN acctings' = DOMAIN acctings \cup {<<src, tgt>>}
  BY <1>1 DEF With
<1>3. \A edges \in DOMAIN acctings' :
        acctings'[edges] = IF edges = <<src, tgt>> THEN AccountingOf(src, tgt)
                           ELSE acctings[edges]
  BY <1>1, <1>2 DEF With
<1>4. Edges' = Edges
  BY <1>1 DEF Edges, Clks
<1>5. AcctingsTyped'
  BY <1>2, <1>4 DEF ClockInv, AcctingsTyped
<1>6. \A from, to : AccountingOf(from, to)' = AccountingOf(from, to)
  BY <1>1 DEF AccountingOf, Edge
<1>7. AcctingsCurrent'
  BY <1>2, <1>3, <1>6 DEF ClockInv, AcctingsCurrent
<1>8. Phases' /\ Bounded' /\ GoodClocks(clocks') /\ Following(clocks')
  BY <1>1 DEF ClockInv, Phases, Bounded
<1>9. QED
  BY <1>5, <1>7, <1>8 DEF ClockInv

LEMMA NextInv ==
  ASSUME ClockInv, [Next]_vars PROVE ClockInv'
<1>1. ASSUME NEW args \in ClockArgs, MakeClock(args) PROVE ClockInv'
  BY <1>1, MakeClockInv
<1>2. ASSUME NEW args \in GeneratedArgs, MakeGeneratedClock(args) PROVE ClockInv'
  BY <1>2, MakeGeneratedClockInv
<1>3. ASSUME NEW clk \in Clks, RemoveClock(clk) PROVE ClockInv'
  BY <1>3, RemoveClockInv
<1>4. ASSUME StartUpdate PROVE ClockInv'
  BY <1>4, StartUpdateInv
<1>5. ASSUME UpdateGeneratedClks PROVE ClockInv'
  BY <1>5, UpdateClockInv, UpdateFromFreedInv, EndUpdateInv DEF UpdateGeneratedClks
<1>6. ASSUME NEW clk \in Clks, CheckMaster(clk) PROVE ClockInv'
  BY <1>6, CheckMasterInv
<1>7. ASSUME NEW src \in Edges \cup {NoClock}, NEW tgt \in Edges, CycleAccting(src, tgt)
      PROVE  ClockInv'
  BY <1>7, CycleAcctingInv
<1>8. ASSUME UNCHANGED vars PROVE ClockInv'
  <2>1. clocks' = clocks /\ acctings' = acctings /\ updateGenclks' = updateGenclks
        /\ updating' = updating /\ spent' = spent
    BY <1>8 DEF vars
  <2>2. AcctingsTyped' /\ AcctingsCurrent'
    BY <2>1, SameAcctings DEF ClockInv
  <2>3. QED
    BY <2>1, <2>2 DEF ClockInv, Phases, Bounded
<1>9. QED
  BY <1>1, <1>2, <1>3, <1>4, <1>5, <1>6, <1>7, <1>8 DEF Next

------------------------------------------------------------------------------
(* The inductive invariant: generated clocks that count as up to date, but  *)
(* those whose own definition deleted their master, follow masters there   *)
(* are, an update brings masters up to date first, and *)
(* the accountings kept are those of the waveforms there are               *)
(* (Sta::updateGeneratedClks, Sdc::makeClock, CycleAcctings::clear).        *)
THEOREM ClocksInvariant == Spec => []ClockInv
<1>1. Init => ClockInv
  BY InitInv
<1>2. ClockInv /\ [Next]_vars => ClockInv'
  BY NextInv
<1>3. QED
  BY <1>1, <1>2, PTL DEF Spec

(* Every variable keeps its type.  The removal of a clock leaves no         *)
(* generated clock with it as master, save one: a generated clock whose own *)
(* definition removed its master keeps it (Freed).  No accounting is kept   *)
(* of an edge that is gone (Sdc::removeClock, Sdc::deletePinClocks,         *)
(* Sdc::makeGeneratedClock).                                               *)
THEOREM TypeCorrect == Spec => []TypeOK
<1>1. ClockInv => TypeOK
  BY DEF ClockInv, GoodClocks, GoodClock, Phases, Bounded, AcctingsTyped, TypeOK, Clks
<1>2. QED
  BY <1>1, ClocksInvariant, PTL

(* A generated clock whose waveform counts as up to date follows the clock  *)
(* that is its master now, unless its own definition deleted that          *)
(* (Sta::updateGeneratedClks, Clock::generate).                            *)
THEOREM ClocksFollow == Spec => []WaveformsFollow
<1>1. ClockInv => WaveformsFollow
  <2>1. ASSUME ClockInv, NEW clk \in Clks, clocks[clk].generated, clocks[clk].valid,
               clocks[clk].master # Freed
        PROVE  FollowsIn(clocks[clk], clocks[clocks[clk].master], clocks[clk].how)
    BY <2>1 DEF ClockInv, Following, Kept, UpToDate, Clks
  <2>2. QED
    BY <2>1 DEF FollowsIn, WaveformsFollow
<1>2. QED
  BY <1>1, ClocksInvariant, PTL

(* The accountings kept are those of the waveforms there are now: no        *)
(* command or update leaves one behind (Sdc::makeClock, Sdc::removeClock).  *)
THEOREM AcctingsKeptCurrent == Spec => []AcctingsCurrent
BY ClocksInvariant, PTL DEF ClockInv

-----------------------------------------------------------------------------
(* Numbers: the least of a set, and quotients.                             *)
LEMMA LeastInteger ==
  ASSUME NEW S \in SUBSET Int, S # {}, NEW low \in Int, \A n \in S : low <= n
  PROVE  \E n \in S : \A m \in S : n <= m
<1> DEFINE T == {n \in Nat : n + low \in S}
<1>1. T \subseteq Nat /\ T # {}
  <2>1. PICK n \in S : low <= n
    OBVIOUS
  <2>2. n - low \in Nat /\ (n - low) + low = n
    BY <2>1
  <2>3. QED
    BY <2>2
<1> HIDE DEF T
<1>2. \E x \in T : \A y \in T : ~(<<y, x>> \in OpToRel(<, Nat))
  BY <1>1, NatLessThanWellFounded, WFMin
<1>3. PICK x \in T : \A y \in T : ~(y < x)
  BY <1>1, <1>2 DEF OpToRel
<1>4. x \in Nat /\ x + low \in S
  BY DEF T
<1>5. ASSUME NEW m \in S PROVE x + low <= m
  <2>1. m - low \in Nat /\ (m - low) + low = m
    OBVIOUS
  <2>2. m - low \in T
    BY <2>1 DEF T
  <2>3. QED
    BY <1>3, <1>4, <2>1, <2>2
<1>6. QED
  BY <1>4, <1>5

LEMMA MinIs ==
  ASSUME NEW S \in SUBSET Int, NEW n \in S, \A m \in S : n <= m
  PROVE  Min(S) = n
<1>1. \A m \in S : n =< m
  OBVIOUS
<1> DEFINE x == Min(S)
<1>2. x \in S /\ \A m \in S : x =< m
  BY <1>1 DEF Min
<1> HIDE DEF x
<1>3. x \in Int /\ n \in Int /\ x =< n /\ n =< x
  BY <1>1, <1>2
<1>4. QED
  BY <1>3 DEF x

LEMMA MaxBounds ==
  ASSUME NEW S \in SUBSET Int, NEW n \in S, \A m \in S : n >= m
  PROVE  Max(S) = n
<1> DEFINE x == Max(S)
<1>1. x \in S /\ \A m \in S : x >= m
  BY DEF Max
<1> HIDE DEF x
<1>2. x \in Int /\ n \in Int /\ x <= n /\ n <= x
  BY <1>1
<1>3. QED
  BY <1>2 DEF x

LEMMA MaxOfTwo ==
  ASSUME NEW a \in Int, NEW b \in Int
  PROVE  Max({a, b}) \in Int /\ Max({a, b}) >= a /\ Max({a, b}) >= b
<1>1. CASE a >= b
  BY <1>1, MaxBounds
<1>2. CASE b >= a
  BY <1>2, MaxBounds
<1>3. QED
  BY <1>1, <1>2

LEMMA MaxOfThree ==
  ASSUME NEW a \in Int, NEW b \in Int, NEW c \in Int
  PROVE  /\ Max({a, b, c}) \in {a, b, c}
         /\ Max({a, b, c}) >= a
<1>1. CASE a >= b /\ a >= c
  BY <1>1, MaxBounds
<1>2. CASE b >= a /\ b >= c
  BY <1>2, MaxBounds
<1>3. CASE c >= a /\ c >= b
  BY <1>3, MaxBounds
<1>4. QED
  BY <1>1, <1>2, <1>3

LEMMA Quotient ==
  ASSUME NEW x \in Int, NEW p \in Nat \ {0}
  PROVE  /\ x \div p \in Int
         /\ (x \div p) * p <= x
         /\ x < (x \div p) * p + p
<1>1. /\ x \div p \in Int
      /\ x = p * (x \div p) + (x % p)
      /\ x % p \in 0 .. p - 1
  OBVIOUS
<1>2. p * (x \div p) = (x \div p) * p
  BY <1>1
<1>3. QED
  BY <1>1, <1>2

LEMMA QuotientLeast ==
  ASSUME NEW x \in Int, NEW p \in Nat \ {0}, NEW n \in Int, n * p <= x
  PROVE  n <= x \div p
<1> DEFINE q == x \div p
<1>1. q \in Int /\ x < q * p + p
  BY Quotient
<1> HIDE DEF q
<1>2. SUFFICES ASSUME n >= q + 1 PROVE FALSE
  BY <1>1 DEF q
<1>3. (n - (q + 1)) * p >= 0
  BY <1>1, <1>2
<1>4. (n - (q + 1)) * p = n * p - q * p - p
  BY <1>1
<1>5. n * p \in Int /\ q * p \in Int
  BY <1>1
<1>6. QED
  BY <1>1, <1>3, <1>4, <1>5

LEMMA Products ==
  ASSUME NEW p \in Nat \ {0}, NEW m \in Int, NEW n \in Int
  PROVE  /\ m * p \in Int
         /\ m <= n => m * p <= n * p
         /\ m < n => m * p + p <= n * p
         /\ (m + n) * p = m * p + n * p
         /\ (m - n) * p = m * p - n * p
         /\ m * p < n * p + p => m <= n
<1>1. m * p \in Int /\ n * p \in Int
  OBVIOUS
<1>2. (m + n) * p = m * p + n * p /\ (m - n) * p = m * p - n * p
  OBVIOUS
<1>3. ASSUME m <= n PROVE m * p <= n * p
  <2>1. (n - m) * p >= 0 /\ (n - m) * p = n * p - m * p
    BY <1>3
  <2>2. QED
    BY <1>1, <2>1
<1>4. ASSUME m < n PROVE m * p + p <= n * p
  <2>1. (n - m - 1) * p >= 0 /\ (n - m - 1) * p = n * p - m * p - p
    BY <1>4
  <2>2. QED
    BY <1>1, <2>1
<1>5. ASSUME m * p < n * p + p, m > n PROVE FALSE
  <2>1. (m - n - 1) * p >= 0 /\ (m - n - 1) * p = m * p - n * p - p
    BY <1>5
  <2>2. QED
    BY <1>1, <1>5, <2>1
<1>6. QED
  BY <1>1, <1>2, <1>3, <1>4, <1>5

LEMMA ProductSign ==
  ASSUME NEW p \in Nat \ {0}, NEW m \in Int
  PROVE  /\ m * p = 0 => m = 0
         /\ m * p > 0 => m >= 1
         /\ m >= 1 => m * p >= p
<1>1. m >= 1 => m * p >= p
  <2>1. SUFFICES ASSUME m >= 1 PROVE m * p >= p
    OBVIOUS
  <2>2. (m - 1) * p >= 0 /\ (m - 1) * p = m * p - p
    BY <2>1
  <2>3. QED
    BY <2>2
<1>2. m <= 0 => m * p <= 0
  <2>1. SUFFICES ASSUME m <= 0 PROVE m * p <= 0
    OBVIOUS
  <2>2. (-m) * p >= 0 /\ (-m) * p = -(m * p)
    BY <2>1
  <2>3. QED
    BY <2>2
<1>3. m <= -1 => m * p <= -p
  <2>1. SUFFICES ASSUME m <= -1 PROVE m * p <= -p
    OBVIOUS
  <2>2. (-m - 1) * p >= 0 /\ (-m - 1) * p = -(m * p) - p
    BY <2>1
  <2>3. QED
    BY <2>2
<1>4. m * p \in Int
  OBVIOUS
<1>5. QED
  BY <1>1, <1>2, <1>3, <1>4

------------------------------------------------------------------------------
(* The edges an accounting is claimed to be right of                       *)
IsEdge(edge) == edge.time \in Int /\ edge.opposite \in Int /\ edge.period \in Int

Related(src, tgt) ==
  /\ IsEdge(src) /\ IsEdge(tgt)
  /\ Running(src) /\ Running(tgt)
  /\ ~(AtEnd(src) /\ AtEnd(tgt))

LEMMA RelatedTimes ==
  ASSUME NEW src, NEW tgt, Related(src, tgt)
  PROVE  /\ src.period \in Nat \ {0} /\ tgt.period \in Nat \ {0}
         /\ src.time \in Int /\ 0 <= src.time /\ src.time <= src.period
         /\ tgt.time \in Int /\ 0 <= tgt.time /\ tgt.time <= tgt.period
         /\ tgt.opposite \in Int /\ 0 <= tgt.opposite /\ tgt.opposite <= tgt.period
         /\ src.time < src.period \/ tgt.time < tgt.period
         /\ FirstCycle(src) = IF src.time < src.period THEN 0 ELSE -1
         /\ FirstCycle(tgt) = IF tgt.time < tgt.period THEN 0 ELSE -1
BY DEF Related, IsEdge, Running, InPeriod, AtEnd, FirstCycle

Pair(tgtCycle, srcCycle) == [tgt |-> tgtCycle, src |-> srcCycle]

LEMMA SourceCyclesAre ==
  ASSUME NEW src, NEW tgt, Related(src, tgt), NEW cycle \in Int
  PROVE  \E last \in Int :
           /\ SourceCycles(src, tgt, cycle) = FirstCycle(src) .. last
           /\ (Start(tgt, cycle + 1) \div src.period) <= last
           /\ cycle = -1 /\ FirstCycle(tgt) = -1 => last = 0
<1> DEFINE inCycle == Start(tgt, cycle + 1) \div src.period
           passing == Ceiling(Time(tgt, cycle) - src.time, src.period)
           last == IF cycle = FirstCycle(tgt)
                   THEN Max({inCycle, passing, FirstCycle(src)}) ELSE inCycle
<1>1. /\ src.period \in Nat \ {0} /\ tgt.period \in Nat \ {0}
      /\ src.time \in Int /\ tgt.time \in Int
      /\ FirstCycle(src) \in Int
  BY RelatedTimes
<1>2. Start(tgt, cycle + 1) \in Int
  BY <1>1, Products DEF Start
<1>3. inCycle \in Int
  BY <1>1, <1>2, Quotient
<1>4. passing \in Int
  <2>1. Time(tgt, cycle) - src.time \in Int
    BY <1>1, Products DEF Time, Start
  <2>2. \A x \in Int : Ceiling(x, src.period) \in Int
    <3>1. ASSUME NEW x \in Int PROVE Ceiling(x, src.period) \in Int
      <4>1. -x \in Int
        OBVIOUS
      <4>2. (-x) \div src.period \in Int
        BY <1>1, <4>1, Quotient
      <4>3. QED
        BY <4>2 DEF Ceiling
    <3>2. QED
      BY <3>1
  <2>3. QED
    BY <2>1, <2>2
<1>5. SourceCycles(src, tgt, cycle) = FirstCycle(src) .. last
  BY DEF SourceCycles
<1>6. ASSUME cycle = -1, FirstCycle(tgt) = -1 PROVE last = 0
  <2>1. /\ tgt.time = tgt.period /\ src.time < src.period /\ 0 <= src.time
        /\ FirstCycle(src) = 0
    BY <1>6, RelatedTimes
  <2>2. Start(tgt, cycle + 1) = 0 /\ Time(tgt, cycle) = 0
    BY <1>1, <1>6, <2>1 DEF Start, Time
  <2>3. inCycle = 0
    <3>1. 0 <= 0 \div src.period /\ (0 \div src.period) * src.period <= 0
          /\ 0 \div src.period \in Int
      BY <1>1, Quotient, QuotientLeast
    <3>2. 0 \div src.period <= 0
      BY <1>1, <3>1, Products
    <3>3. QED
      BY <2>2, <3>1, <3>2
  <2>4. passing = 0
    <3>1. passing = -((-(0 - src.time)) \div src.period)
      BY <2>2 DEF Ceiling
    <3>2. -(0 - src.time) = src.time
      BY <1>1
    <3> DEFINE q == src.time \div src.period
    <3>3. q \in Int /\ q * src.period <= src.time
      BY <1>1, Quotient
    <3>4. 0 <= q
      BY <1>1, <2>1, QuotientLeast
    <3> HIDE DEF q
    <3>5. q * src.period < 0 * src.period + src.period
      BY <1>1, <2>1, <3>3
    <3>6. q <= 0
      BY <1>1, <3>3, <3>5, Products
    <3>7. q = 0
      BY <3>3, <3>4, <3>6
    <3>8. QED
      BY <3>1, <3>2, <3>7 DEF q
  <2>5. last = Max({0, 0, 0})
    BY <1>6, <2>1, <2>3, <2>4
  <2> HIDE DEF last
  <2>6. Max({0, 0, 0}) \in {0, 0, 0}
    BY MaxOfThree
  <2>7. QED
    BY <2>5, <2>6
<1> DEFINE first == FirstCycle(src)
<1>7. last = IF cycle = FirstCycle(tgt) THEN Max({inCycle, passing, first}) ELSE inCycle
  OBVIOUS
<1> HIDE DEF last, inCycle, passing, first
<1>8. first \in Int
  BY <1>1 DEF first
<1>9. Max({inCycle, passing, first}) \in {inCycle, passing, first}
      /\ Max({inCycle, passing, first}) >= inCycle
  BY <1>3, <1>4, <1>8, MaxOfThree
<1>10. inCycle <= last /\ last \in Int
  BY <1>3, <1>4, <1>7, <1>8, <1>9
<1>11. QED
  BY <1>5, <1>6, <1>10 DEF inCycle

LEMMA PairIn ==
  ASSUME NEW src, NEW tgt, Related(src, tgt), NEW c \in Int, NEW o \in Int,
         FirstCycle(tgt) <= c, c <= MaxTargetCycle(src, tgt), FirstCycle(src) <= o,
         MaxTargetCycle(src, tgt) \in Int,
         o * src.period <= (c + 1) * tgt.period
  PROVE  Pair(c, o) \in Pairs(src, tgt)
<1>1. /\ src.period \in Nat \ {0} /\ tgt.period \in Nat \ {0}
      /\ FirstCycle(src) \in Int /\ FirstCycle(tgt) \in Int
  BY RelatedTimes
<1>2. PICK last \in Int :
        /\ SourceCycles(src, tgt, c) = FirstCycle(src) .. last
        /\ (Start(tgt, c + 1) \div src.period) <= last
  BY SourceCyclesAre
<1>3. Start(tgt, c + 1) = (c + 1) * tgt.period /\ (c + 1) * tgt.period \in Int
  BY <1>1, Products DEF Start
<1>4. o <= Start(tgt, c + 1) \div src.period
  BY <1>1, <1>3, QuotientLeast
<1>5. Start(tgt, c + 1) \div src.period \in Int
  BY <1>1, <1>3, Quotient
<1>6. o \in SourceCycles(src, tgt, c)
  BY <1>1, <1>2, <1>4, <1>5
<1>7. c \in FirstCycle(tgt) .. MaxTargetCycle(src, tgt)
  BY <1>1
<1>8. QED
  BY <1>6, <1>7 DEF Pairs, Pair

LEMMA MaxTargetType ==
  ASSUME NEW src, NEW tgt, Related(src, tgt)
  PROVE  MaxTargetCycle(src, tgt) \in Int
<1>1. src.period \in Nat \ {0} /\ tgt.period \in Nat \ {0}
  BY RelatedTimes
<1>2. Ceiling(src.period, tgt.period) \in Int
  <2>1. -src.period \in Int
    BY <1>1
  <2>2. QED
    BY <1>1, <2>1, Quotient DEF Ceiling
<1> DEFINE ratio == Ceiling(src.period, tgt.period)
<1>3. MaxTargetCycle(src, tgt) = IF tgt.period > src.period THEN SlowTargetCycles
                                 ELSE Max({ratio, FastTargetCycles})
  BY DEF MaxTargetCycle
<1>4. SlowTargetCycles \in Int /\ FastTargetCycles \in Int /\ ratio \in Int
  BY <1>2, CycleBounds
<1> HIDE DEF ratio
<1>5. Max({ratio, FastTargetCycles}) \in Int
  BY <1>4, MaxOfTwo
<1>6. QED
  BY <1>3, <1>4, <1>5

LEMMA PairIs ==
  ASSUME NEW src, NEW tgt, Related(src, tgt), NEW pair \in Pairs(src, tgt)
  PROVE  /\ pair.tgt \in Int /\ pair.src \in Int
         /\ pair = Pair(pair.tgt, pair.src)
         /\ FirstCycle(tgt) <= pair.tgt /\ pair.tgt <= MaxTargetCycle(src, tgt)
         /\ FirstCycle(src) <= pair.src
         /\ pair.tgt = -1 => pair.src = 0
<1>1. PICK c \in FirstCycle(tgt) .. MaxTargetCycle(src, tgt) :
        \E o \in SourceCycles(src, tgt, c) : pair = Pair(c, o)
  BY DEF Pairs, Pair
<1>2. FirstCycle(src) \in Int /\ FirstCycle(tgt) \in {0, -1} /\ MaxTargetCycle(src, tgt) \in Int
  BY RelatedTimes, MaxTargetType
<1>3. c \in Int /\ FirstCycle(tgt) <= c /\ c <= MaxTargetCycle(src, tgt)
  BY <1>2
<1>4. PICK last \in Int :
        /\ SourceCycles(src, tgt, c) = FirstCycle(src) .. last
        /\ c = -1 /\ FirstCycle(tgt) = -1 => last = 0
  BY <1>3, SourceCyclesAre
<1>5. PICK o \in FirstCycle(src) .. last : pair = Pair(c, o)
  BY <1>1, <1>4
<1>6. pair.tgt = c /\ pair.src = o
  BY <1>5 DEF Pair
<1>7. ASSUME c = -1 PROVE o = 0
  <2>1. FirstCycle(tgt) = -1 /\ last = 0
    BY <1>2, <1>3, <1>4, <1>7
  <2>2. FirstCycle(src) = 0
    BY <2>1, RelatedTimes
  <2>3. QED
    BY <1>5, <2>1, <2>2
<1>8. QED
  BY <1>2, <1>3, <1>5, <1>6, <1>7

(* A set of pairs has a first in the order in which they are met.          *)
IsPairs(S) ==
  \A pair \in S : /\ pair.tgt \in Int /\ pair.src \in Int
                  /\ -1 <= pair.tgt /\ -1 <= pair.src
                  /\ pair = Pair(pair.tgt, pair.src)

LEMMA FirstPair ==
  ASSUME NEW S, IsPairs(S), S # {}
  PROVE  \E pair \in S : \A other \in S \ {pair} : Before(pair, other)
<1> DEFINE T == {n \in Int : \E pair \in S : pair.tgt = n}
<1>1. T \in SUBSET Int /\ T # {} /\ \A n \in T : -1 <= n
  BY DEF IsPairs
<1> HIDE DEF T
<1>2. PICK c \in T : \A n \in T : c <= n
  BY <1>1, LeastInteger
<1> DEFINE U == {n \in Int : \E pair \in S : pair.tgt = c /\ pair.src = n}
<1>3. U \in SUBSET Int /\ U # {} /\ \A n \in U : -1 <= n
  BY <1>2 DEF IsPairs, T
<1> HIDE DEF U
<1>4. PICK o \in U : \A n \in U : o <= n
  BY <1>3, LeastInteger
<1>5. PICK pair \in S : pair.tgt = c /\ pair.src = o
  BY <1>4 DEF U
<1>6. ASSUME NEW other \in S \ {pair} PROVE Before(pair, other)
  <2>1. /\ other.tgt \in Int /\ other.src \in Int
        /\ other = Pair(other.tgt, other.src) /\ pair = Pair(pair.tgt, pair.src)
        /\ c \in Int /\ o \in Int
    BY <1>1, <1>3 DEF IsPairs
  <2>2. other.tgt \in T
    BY <2>1 DEF T
  <2>3. c <= other.tgt
    BY <1>2, <2>2
  <2>4. ASSUME other.tgt = c PROVE other.src > o
    <3>1. other.src \in U
      BY <2>1, <2>4 DEF U
    <3>2. o <= other.src
      BY <1>4, <3>1
    <3>3. other.src # o
      BY <1>5, <2>1, <2>4
    <3>4. QED
      BY <2>1, <3>2, <3>3
  <2>5. QED
    BY <1>5, <2>1, <2>3, <2>4 DEF Before
<1>7. QED
  BY <1>6

LEMMA PairsArePairs ==
  ASSUME NEW src, NEW tgt, Related(src, tgt)
  PROVE  IsPairs(Pairs(src, tgt))
<1>1. ASSUME NEW pair \in Pairs(src, tgt)
      PROVE  /\ pair.tgt \in Int /\ pair.src \in Int
             /\ -1 <= pair.tgt /\ -1 <= pair.src
             /\ pair = Pair(pair.tgt, pair.src)
  <2>1. FirstCycle(src) \in {0, -1} /\ FirstCycle(tgt) \in {0, -1}
    BY RelatedTimes
  <2>2. QED
    BY <2>1, PairIs
<1>2. QED
  BY <1>1 DEF IsPairs

------------------------------------------------------------------------------
(* The pair of cycles at which the loops stop: the first that start         *)
(* together with a setup and a hold relation found before.                 *)
IsStop(src, tgt, stop) ==
  LET converged == Converged(src, tgt, Pairs(src, tgt))
  IN stop \in converged /\ \A other \in converged \ {stop} : Before(stop, other)

LEMMA StopExists ==
  ASSUME NEW src, NEW tgt, Related(src, tgt), ~MaxCyclesExceeded(src, tgt)
  PROVE  \E stop : IsStop(src, tgt, stop)
<1> DEFINE converged == Converged(src, tgt, Pairs(src, tgt))
<1>1. converged # {} /\ converged \subseteq Pairs(src, tgt)
  BY DEF MaxCyclesExceeded, Converged
<1>2. IsPairs(converged)
  BY <1>1, PairsArePairs DEF IsPairs
<1> HIDE DEF converged
<1>3. \E stop \in converged : \A other \in converged \ {stop} : Before(stop, other)
  BY <1>1, <1>2, FirstPair
<1>4. QED
  BY <1>3 DEF IsStop, converged

LEMMA VisitedBefore ==
  ASSUME NEW src, NEW tgt, Related(src, tgt), NEW stop, IsStop(src, tgt, stop),
         NEW pair \in Pairs(src, tgt), Before(pair, stop)
  PROVE  pair \in Visited(src, tgt)
<1> DEFINE converged == Converged(src, tgt, Pairs(src, tgt))
<1>1. stop \in converged /\ converged \subseteq Pairs(src, tgt)
  BY DEF IsStop, Converged
<1>2. \A one \in Pairs(src, tgt) : one.tgt \in Int /\ one.src \in Int
  BY PairsArePairs DEF IsPairs
<1>3. ASSUME NEW other \in converged PROVE Before(pair, other)
  <2>1. other = stop \/ Before(stop, other)
    BY DEF IsStop
  <2>2. QED
    BY <1>1, <1>2, <2>1 DEF Before
<1>4. QED
  BY <1>3 DEF Visited

LEMMA VisitedPairs ==
  ASSUME NEW src, NEW tgt
  PROVE  Visited(src, tgt) \subseteq Pairs(src, tgt)
BY DEF Visited

(* The cycles that start together are later than cycle zero: before that    *)
(* there is at most one pair, with either a setup or a hold relation.      *)
LEMMA StopIs ==
  ASSUME NEW src, NEW tgt, Related(src, tgt), NEW stop, IsStop(src, tgt, stop)
  PROVE  /\ stop.tgt \in Int /\ stop.src \in Int
         /\ stop.tgt >= 1 /\ stop.src >= 1
         /\ stop.tgt <= MaxTargetCycle(src, tgt)
         /\ stop.src * src.period = stop.tgt * tgt.period
<1> DEFINE pairs == Pairs(src, tgt)
           Later(pair) == TargetLater(src, tgt, pair)
<1>1. /\ src.period \in Nat \ {0} /\ tgt.period \in Nat \ {0}
      /\ src.time \in Int /\ tgt.time \in Int
      /\ 0 <= tgt.time
  BY RelatedTimes
<1>2. /\ stop \in pairs
      /\ Start(src, stop.src) = Start(tgt, stop.tgt)
      /\ \E one \in pairs : Later(one) /\ Before(one, stop)
      /\ \E one \in pairs : ~Later(one) /\ Before(one, stop)
  BY DEF IsStop, Converged
<1>3. /\ stop.tgt \in Int /\ stop.src \in Int
      /\ stop.tgt <= MaxTargetCycle(src, tgt)
      /\ FirstCycle(tgt) <= stop.tgt /\ FirstCycle(src) <= stop.src
      /\ stop.tgt = -1 => stop.src = 0
  BY <1>2, PairIs
<1>4. stop.src * src.period = stop.tgt * tgt.period
  BY <1>2 DEF Start
<1>5. \A one \in pairs :
        /\ one.tgt \in Int /\ one.src \in Int /\ one = Pair(one.tgt, one.src)
        /\ FirstCycle(tgt) <= one.tgt /\ FirstCycle(src) <= one.src
        /\ one.tgt = -1 => one.src = 0
  BY PairIs
<1>6. stop.tgt # -1
  <2>1. SUFFICES ASSUME stop.tgt = -1 PROVE FALSE
    OBVIOUS
  <2>2. stop.src = 0
    BY <1>3, <2>1
  <2>3. 0 * src.period = (-1) * tgt.period
    BY <1>4, <2>1, <2>2
  <2>4. QED
    BY <1>1, <2>3
<1>7. stop.tgt # 0
  <2>1. SUFFICES ASSUME stop.tgt = 0 PROVE FALSE
    OBVIOUS
  <2>2. stop.src = 0
    <3>1. stop.src * src.period = 0
      BY <1>1, <1>4, <2>1
    <3>2. QED
      BY <1>1, <1>3, <3>1, ProductSign
  <2>3. ASSUME NEW one \in pairs, Before(one, stop)
        PROVE  one = Pair(-1, 0) \/ one = Pair(0, -1)
    <3>1. FirstCycle(src) \in {0, -1} /\ FirstCycle(tgt) \in {0, -1}
      BY RelatedTimes
    <3>2. one.tgt = -1 \/ (one.tgt = 0 /\ one.src = -1)
      BY <1>5, <2>1, <2>2, <2>3, <3>1 DEF Before
    <3>3. QED
      BY <1>5, <3>2
  <2>4. ~(FirstCycle(src) = -1 /\ FirstCycle(tgt) = -1)
    BY RelatedTimes
  <2>5. Pair(-1, 0) \in pairs => FirstCycle(tgt) = -1
    <3>1. Pair(-1, 0).tgt = -1
      BY DEF Pair
    <3>2. FirstCycle(tgt) \in {0, -1}
      BY RelatedTimes
    <3>3. QED
      BY <1>5, <3>1, <3>2
  <2>6. Pair(0, -1) \in pairs => FirstCycle(src) = -1
    <3>1. Pair(0, -1).src = -1
      BY DEF Pair
    <3>2. FirstCycle(src) \in {0, -1}
      BY RelatedTimes
    <3>3. QED
      BY <1>5, <3>1, <3>2
  <2>7. PICK one \in pairs : Later(one) /\ Before(one, stop)
    BY <1>2
  <2>8. PICK two \in pairs : ~Later(two) /\ Before(two, stop)
    BY <1>2
  <2>9. one = two
    BY <2>3, <2>4, <2>5, <2>6, <2>7, <2>8
  <2>10. QED
    BY <2>7, <2>8, <2>9
<1>8. stop.tgt >= 1
  <2>1. FirstCycle(tgt) \in {0, -1}
    BY RelatedTimes
  <2>2. QED
    BY <1>3, <1>6, <1>7, <2>1
<1>9. stop.src >= 1
  <2>1. stop.tgt * tgt.period >= tgt.period
    BY <1>1, <1>3, <1>8, ProductSign
  <2>2. stop.src * src.period >= tgt.period
    BY <1>4, <2>1
  <2>3. stop.src * src.period > 0
    BY <1>1, <1>3, <2>2
  <2>4. QED
    BY <1>1, <1>3, <2>3, ProductSign
<1>10. QED
  BY <1>3, <1>4, <1>8, <1>9

(* From a source edge in one cycle to a time in a target cycle              *)
Lag(src, tgt, time, tgtCycle, srcCycle) ==
  (tgtCycle * tgt.period + time) - (srcCycle * src.period + src.time)

LEMMA LagType ==
  ASSUME NEW src, NEW tgt, Related(src, tgt), NEW time \in Int, NEW c \in Int, NEW o \in Int
  PROVE  /\ Lag(src, tgt, time, c, o) \in Int
         /\ Lag(src, tgt, time, c, o) = time - src.time + c * tgt.period - o * src.period
<1>1. src.period \in Nat \ {0} /\ tgt.period \in Nat \ {0} /\ src.time \in Int
  BY RelatedTimes
<1> DEFINE there == c * tgt.period
           here == o * src.period
           at == src.time
<1>2. there \in Int /\ here \in Int /\ at \in Int
  BY <1>1
<1>3. Lag(src, tgt, time, c, o) = (there + time) - (here + at)
  BY DEF Lag
<1> HIDE DEF there, here, at
<1>4. (there + time) - (here + at) \in Int
      /\ (there + time) - (here + at) = time - at + there - here
  BY <1>2
<1>5. QED
  BY <1>3, <1>4 DEF there, here, at

(* The lags repeat with the cycles that start together: they are all met    *)
(* from target cycles before those.                                        *)
LEMMA LagRepeats ==
  ASSUME NEW src, NEW tgt, Related(src, tgt), NEW stop, IsStop(src, tgt, stop),
         NEW time \in Int, NEW c \in Int, NEW o \in Int
  PROVE  \E c1, o1 \in Int :
           /\ 0 <= c1 /\ c1 < stop.tgt
           /\ Lag(src, tgt, time, c1, o1) = Lag(src, tgt, time, c, o)
<1> DEFINE p == src.period
           q == tgt.period
           T == stop.tgt
           S == stop.src
           k == c \div T
           c1 == c - k * T
           o1 == o - k * S
<1>1. /\ p \in Nat \ {0} /\ q \in Nat \ {0}
      /\ T \in Nat \ {0} /\ S \in Int /\ S * p = T * q
  BY RelatedTimes, StopIs
<1>2. k \in Int /\ k * T <= c /\ c < k * T + T
  BY <1>1, Quotient
<1> HIDE DEF p, q, T, S, k
<1>3. k * T \in Int /\ k * S \in Int
  BY <1>1, <1>2
<1>4. c1 \in Int /\ o1 \in Int /\ 0 <= c1 /\ c1 < T
  BY <1>1, <1>2, <1>3
<1>5. c1 * q = c * q - (k * T) * q /\ o1 * p = o * p - (k * S) * p
  BY <1>1, <1>3, Products
<1>6. (k * T) * q = k * (T * q) /\ (k * S) * p = k * (S * p)
  BY <1>1, <1>2
<1>7. (k * T) * q = (k * S) * p
  BY <1>1, <1>6
<1>8. (k * T) * q \in Int /\ c * q \in Int /\ o * p \in Int
  BY <1>1, <1>3
<1>9. /\ Lag(src, tgt, time, c, o) = time - src.time + c * q - o * p
      /\ Lag(src, tgt, time, c1, o1) = time - src.time + c1 * q - o1 * p
  BY <1>4, LagType DEF p, q
<1>10. src.time \in Int
  BY RelatedTimes
<1>11. Lag(src, tgt, time, c1, o1) = Lag(src, tgt, time, c, o)
  BY <1>5, <1>7, <1>8, <1>9, <1>10
<1>12. QED
  BY <1>4, <1>11 DEF T

LEMMA NearestAhead ==
  ASSUME NEW src, NEW tgt, Related(src, tgt), NEW stop, IsStop(src, tgt, stop),
         NEW time \in Int, 0 <= time, time <= tgt.period,
         NEW c \in Int, NEW o \in Int, Lag(src, tgt, time, c, o) > 0
  PROVE  \E pair \in Visited(src, tgt) :
           /\ 0 < Lag(src, tgt, time, pair.tgt, pair.src)
           /\ Lag(src, tgt, time, pair.tgt, pair.src) <= Lag(src, tgt, time, c, o)
<1> DEFINE p == src.period
           q == tgt.period
           a == src.time
           T == stop.tgt
           S == stop.src
           first == FirstCycle(src)
<1>1. /\ p \in Nat \ {0} /\ q \in Nat \ {0} /\ a \in Int /\ 0 <= a /\ a <= p
      /\ first \in {0, -1} /\ (first = 0 => a < p) /\ FirstCycle(tgt) \in {0, -1}
      /\ T \in Int /\ T >= 1 /\ S \in Int /\ S >= 1 /\ S * p = T * q
      /\ T <= MaxTargetCycle(src, tgt) /\ MaxTargetCycle(src, tgt) \in Int
  BY RelatedTimes, StopIs, MaxTargetType
<1>2. PICK c1, o1 \in Int :
        /\ 0 <= c1 /\ c1 < T
        /\ Lag(src, tgt, time, c1, o1) = Lag(src, tgt, time, c, o)
  BY LagRepeats
<1> DEFINE x == time - a + c1 * q
           o2 == (x - 1) \div p
<1>3. x \in Int /\ x - 1 \in Int /\ c1 * q \in Int /\ 0 <= c1 * q
      /\ o1 * p \in Int
  <2>1. c1 * q \in Int /\ o1 * p \in Int
    BY <1>1
  <2>2. 0 * q <= c1 * q /\ 0 * q = 0
    BY <1>1, <1>2, Products
  <2>3. QED
    BY <1>1, <2>1, <2>2
<1> HIDE DEF p, q, a, T, S, first, x, o2
<1>4. \A one \in Int : Lag(src, tgt, time, c1, one) = x - one * p
  <2>1. ASSUME NEW one \in Int PROVE Lag(src, tgt, time, c1, one) = x - one * p
    <3>1. Lag(src, tgt, time, c1, one)
            = time - src.time + c1 * tgt.period - one * src.period
      BY LagType
    <3>2. one * p \in Int /\ time - a \in Int
      BY <1>1
    <3>3. \A u, v, w \in Int : u + (v - w) = (u + v) - w
      OBVIOUS
    <3>4. (time - a) + (c1 * q - one * p) = ((time - a) + c1 * q) - one * p
      BY <1>3, <3>2, <3>3
    <3>5. QED
      BY <3>1, <3>4 DEF x, p, q, a
  <2>2. QED
    BY <2>1
<1>5. o1 * p <= x - 1
  <2>1. x - o1 * p > 0
    BY <1>2, <1>4
  <2>2. QED
    BY <1>3, <2>1
<1>6. o2 \in Int /\ o2 * p <= x - 1 /\ o1 <= o2
  BY <1>1, <1>3, <1>5, Quotient, QuotientLeast DEF o2
<1>7. CASE first <= o2
  <2>1. Lag(src, tgt, time, c1, o2) = x - o2 * p
    BY <1>4, <1>6
  <2>2. o1 * p <= o2 * p /\ o2 * p \in Int
    BY <1>1, <1>6, Products
  <2>3. 0 < x - o2 * p /\ x - o2 * p <= x - o1 * p
    BY <1>3, <1>6, <2>2
  <2>4. o2 * p <= (c1 + 1) * q
    <3>1. (c1 + 1) * q = c1 * q + q
      BY <1>1
    <3>2. x <= c1 * q + q
      BY <1>1, <1>3 DEF x, q
    <3>3. QED
      BY <1>1, <1>3, <1>6, <2>2, <3>1, <3>2
  <2>5. Pair(c1, o2) \in Pairs(src, tgt)
    <3>1. FirstCycle(tgt) <= c1 /\ c1 <= MaxTargetCycle(src, tgt)
      BY <1>1, <1>2
    <3>2. QED
      BY <1>1, <1>6, <1>7, <2>4, <3>1, PairIn DEF p, q, first
  <2>6. Pair(c1, o2).tgt = c1 /\ Pair(c1, o2).src = o2
    BY DEF Pair
  <2>7. Before(Pair(c1, o2), stop)
    BY <1>2, <2>6 DEF Before, T
  <2>8. Pair(c1, o2) \in Visited(src, tgt)
    BY <2>5, <2>7, VisitedBefore
  <2>9. QED
    BY <1>2, <1>4, <2>1, <2>3, <2>6, <2>8
<1>8. CASE o2 < first
  <2> DEFINE o3 == S - 1 + first
  <2>1. o3 \in Int /\ o3 < S /\ first <= o3 /\ o1 <= first - 1
    BY <1>1, <1>6, <1>8
  <2>2. o3 * p = T * q - p + first * p /\ T * q \in Int /\ first * p \in Int
    <3>1. o3 * p = S * p - p + first * p
      BY <1>1
    <3>2. QED
      BY <1>1, <3>1
  <2> HIDE DEF o3
  <2>3. Lag(src, tgt, time, T, o3) = time - a + p - first * p
    <3>1. Lag(src, tgt, time, T, o3) = time - a + T * q - o3 * p
      BY <1>1, <2>1, LagType DEF a, q, p
    <3>2. QED
      BY <1>1, <2>2, <3>1
  <2>4. 0 < time - a + p - first * p
    <3>1. CASE first = 0
      BY <1>1, <3>1
    <3>2. CASE first = -1
      BY <1>1, <3>2
    <3>3. QED
      BY <1>1, <3>1, <3>2
  <2>5. time - a + p - first * p <= x - o1 * p
    <3>1. o1 * p <= (first - 1) * p /\ (first - 1) * p = first * p - p
      BY <1>1, <2>1, Products
    <3>2. time - a <= x
      BY <1>1, <1>3 DEF x
    <3>3. QED
      BY <1>1, <1>3, <2>2, <3>1, <3>2
  <2>6. Pair(T, o3) \in Pairs(src, tgt)
    <3>1. o3 * p <= S * p
      BY <1>1, <2>1, Products
    <3>2. S * p <= (T + 1) * q
      <4>1. (T + 1) * q = T * q + q
        BY <1>1
      <4>2. QED
        BY <1>1, <2>2, <4>1
    <3>3. o3 * p \in Int /\ S * p \in Int /\ (T + 1) * q \in Int
      BY <1>1, <2>1
    <3>4. o3 * p <= (T + 1) * q
      BY <3>1, <3>2, <3>3
    <3>5. FirstCycle(tgt) <= T /\ T <= MaxTargetCycle(src, tgt)
      BY <1>1
    <3>6. QED
      BY <1>1, <2>1, <3>4, <3>5, PairIn DEF p, q, first
  <2>7. Pair(T, o3).tgt = T /\ Pair(T, o3).src = o3
    BY DEF Pair
  <2>8. Before(Pair(T, o3), stop)
    BY <2>1, <2>7 DEF Before, T, S
  <2>9. Pair(T, o3) \in Visited(src, tgt)
    BY <2>6, <2>8, VisitedBefore
  <2>10. QED
    BY <1>2, <1>4, <2>3, <2>4, <2>5, <2>7, <2>9
<1>9. QED
  BY <1>1, <1>6, <1>7, <1>8

LEMMA NearestBehind ==
  ASSUME NEW src, NEW tgt, Related(src, tgt), NEW stop, IsStop(src, tgt, stop),
         NEW time \in Int, 0 <= time, time <= tgt.period,
         NEW c \in Int, NEW o \in Int, Lag(src, tgt, time, c, o) <= 0
  PROVE  \E pair \in Visited(src, tgt) :
           /\ Lag(src, tgt, time, pair.tgt, pair.src) <= 0
           /\ Lag(src, tgt, time, c, o) <= Lag(src, tgt, time, pair.tgt, pair.src)
<1> DEFINE p == src.period
           q == tgt.period
           a == src.time
           T == stop.tgt
           S == stop.src
           first == FirstCycle(src)
<1>1. /\ p \in Nat \ {0} /\ q \in Nat \ {0} /\ a \in Int /\ 0 <= a /\ a <= p
      /\ first \in {0, -1} /\ (first = 0 => a < p) /\ FirstCycle(tgt) \in {0, -1}
      /\ T \in Int /\ T >= 1 /\ S \in Int /\ S >= 1 /\ S * p = T * q
      /\ T <= MaxTargetCycle(src, tgt) /\ MaxTargetCycle(src, tgt) \in Int
      /\ time <= q
  BY RelatedTimes, StopIs, MaxTargetType
<1>2. PICK c1, o1 \in Int :
        /\ 0 <= c1 /\ c1 < T
        /\ Lag(src, tgt, time, c1, o1) = Lag(src, tgt, time, c, o)
  BY LagRepeats
<1>3. \A m, n \in Int : Lag(src, tgt, time, m, n) = time - a + m * q - n * p
  BY LagType
<1> HIDE DEF p, q, a, T, S, first
<1> DEFINE there == c1 * q
           here == o1 * p
<1>4. there \in Int /\ here \in Int /\ 0 <= there
  <2>1. 0 * q <= c1 * q /\ 0 * q = 0
    BY <1>1, <1>2, Products
  <2>2. QED
    BY <1>1, <2>1
<1>5. Lag(src, tgt, time, c1, o1) = time - a + there - here
  BY <1>3
<1>6. (c1 + 1) * q = there + q
  BY <1>1
<1>7. o1 <= first - 1 => here <= first * p - p
  <2>1. first - 1 \in Int
    BY <1>1
  <2>2. o1 <= first - 1 => o1 * p <= (first - 1) * p
    BY <1>1, <2>1, Products
  <2>3. (first - 1) * p = first * p - p
    BY <1>1
  <2>4. QED
    BY <2>2, <2>3
<1> HIDE DEF there, here
<1>8. CASE here < there + q
  <2>1. first <= o1
    <3>1. SUFFICES ASSUME o1 <= first - 1 PROVE FALSE
      BY <1>1
    <3>2. here <= first * p - p
      BY <1>7, <3>1
    <3>3. CASE first = 0
      <4>1. here <= -p
        BY <1>1, <3>2, <3>3
      <4>2. time - a + there - here > 0
        BY <1>1, <1>4, <3>3, <4>1
      <4>3. QED
        BY <1>1, <1>2, <1>4, <1>5, <4>2
    <3>4. CASE first = -1
      <4>1. here <= -p - p
        BY <1>1, <3>2, <3>4
      <4>2. time - a + there - here > 0
        BY <1>1, <1>4, <4>1
      <4>3. QED
        BY <1>1, <1>2, <1>4, <1>5, <4>2
    <3>5. QED
      BY <1>1, <3>3, <3>4
  <2>2. o1 * p <= (c1 + 1) * q
    BY <1>1, <1>4, <1>6, <1>8 DEF here
  <2>3. FirstCycle(tgt) <= c1 /\ c1 <= MaxTargetCycle(src, tgt)
    BY <1>1, <1>2
  <2>4. Pair(c1, o1) \in Pairs(src, tgt)
    BY <1>1, <2>1, <2>2, <2>3, PairIn DEF p, q, first
  <2>5. Pair(c1, o1).tgt = c1 /\ Pair(c1, o1).src = o1
    BY DEF Pair
  <2>6. Before(Pair(c1, o1), stop)
    BY <1>2, <2>5 DEF Before, T
  <2>7. Pair(c1, o1) \in Visited(src, tgt)
    BY <2>4, <2>6, VisitedBefore
  <2>8. Lag(src, tgt, time, c, o) \in Int
    BY LagType
  <2>9. QED
    BY <1>2, <2>5, <2>7, <2>8
<1>9. CASE here >= there + q
  <2>1. Lag(src, tgt, time, T - 1, S) = time - a + (T - 1) * q - S * p
    BY <1>1, <1>3
  <2>2. (T - 1) * q = T * q - q /\ T * q \in Int
    BY <1>1
  <2>3. Lag(src, tgt, time, T - 1, S) = time - a - q
    BY <1>1, <2>1, <2>2
  <2>4. time - a - q <= 0 /\ time - a + there - here <= time - a - q
    BY <1>1, <1>4, <1>9
  <2>5. S * p <= (T - 1 + 1) * q
    <3>1. T - 1 + 1 = T
      BY <1>1
    <3>2. QED
      BY <1>1, <2>2, <3>1
  <2>6. T - 1 \in Int /\ FirstCycle(tgt) <= T - 1 /\ T - 1 <= MaxTargetCycle(src, tgt)
        /\ first <= S
    BY <1>1
  <2>7. Pair(T - 1, S) \in Pairs(src, tgt)
    BY <1>1, <2>5, <2>6, PairIn DEF p, q, first
  <2>8. Pair(T - 1, S).tgt = T - 1 /\ Pair(T - 1, S).src = S
    BY DEF Pair
  <2>9. Before(Pair(T - 1, S), stop)
    BY <1>1, <2>8 DEF Before, T
  <2>10. Pair(T - 1, S) \in Visited(src, tgt)
    BY <2>7, <2>9, VisitedBefore
  <2>11. QED
    BY <1>2, <1>5, <2>3, <2>4, <2>8, <2>10
<1>10. QED
  BY <1>1, <1>4, <1>8, <1>9

------------------------------------------------------------------------------
(* The least of all the gaps between the edges.  The range of cycles over   *)
(* which Gaps collects them loses none: a gap of less than a source period  *)
(* is found from the first target cycles.                                  *)
LEMMA SmallGap ==
  ASSUME NEW src, NEW tgt, Related(src, tgt), NEW time \in Int, 0 <= time, time <= tgt.period,
         NEW c \in Int, NEW o \in Int, NEW v \in Int, v = Lag(src, tgt, time, c, o),
         -src.period < v, v <= src.period
  PROVE  \E c1 \in -src.period .. src.period, o1 \in -tgt.period .. tgt.period :
           v = Lag(src, tgt, time, c1, o1)
<1> DEFINE p == src.period
           q == tgt.period
           a == src.time
           k == c \div p
           c1 == c - k * p
           o1 == o - k * q
<1>1. /\ p \in Nat \ {0} /\ q \in Nat \ {0} /\ a \in Int /\ 0 <= a /\ a <= p
      /\ time <= q /\ -p < v /\ v <= p
  BY RelatedTimes
<1>2. \A m, n \in Int : Lag(src, tgt, time, m, n) = time - a + m * q - n * p
  BY LagType
<1> HIDE DEF p, q, a, k
<1>3. k \in Int /\ k * p \in Int /\ k * q \in Int /\ k * p <= c /\ c < k * p + p
  BY <1>1, Quotient DEF k
<1>4. c1 \in Int /\ o1 \in Int /\ 0 <= c1 /\ c1 <= p - 1
  BY <1>1, <1>3
<1> DEFINE there == c1 * q
           here == o1 * p
<1>5. there = c * q - (k * p) * q /\ here = o * p - (k * q) * p
  BY <1>1, <1>3, Products
<1>6. (k * p) * q = (k * q) * p /\ (k * p) * q \in Int
  BY <1>1, <1>3
<1>7. c * q \in Int /\ o * p \in Int
  BY <1>1
<1>8. v = time - a + there - here
  <2>1. v = time - a + c * q - o * p
    BY <1>2
  <2> HIDE DEF there, here
  <2>2. QED
    BY <1>1, <1>5, <1>6, <1>7, <2>1
<1>9. there \in Int /\ here \in Int
  BY <1>1, <1>4
<1>10. Lag(src, tgt, time, c1, o1) = v
  BY <1>2, <1>4, <1>8
<1> HIDE DEF c1, o1
<1>11. 0 <= there /\ there + q <= p * q /\ (c1 = 0 \/ q <= there)
  <2>1. 0 * q <= c1 * q /\ 0 * q = 0
    BY <1>1, <1>4, Products
  <2>2. c1 * q + q <= p * q
    BY <1>1, <1>4, Products
  <2>3. c1 >= 1 => q <= c1 * q
    BY <1>1, <1>4, ProductSign
  <2>4. QED
    BY <1>1, <1>4, <2>1, <2>2, <2>3
<1>12. p * q = q * p /\ p * q \in Int
  BY <1>1
<1>13. o1 <= q
  <2> HIDE DEF there
  <2>1. here < q * p + p
    <3> HIDE DEF here
    <3>1. QED
      BY <1>1, <1>8, <1>9, <1>11, <1>12
  <2>2. QED
    BY <1>1, <1>4, <2>1, Products
<1>14. -2 <= o1
  <2> HIDE DEF there
  <2>1. (-2) * p = -p - p
    BY <1>1
  <2>2. -p - p < here + p
    <3> HIDE DEF here
    <3>1. QED
      BY <1>1, <1>8, <1>9, <1>11
  <2>3. (-2) * p < o1 * p + p
    BY <2>1, <2>2
  <2>4. QED
    BY <1>1, <1>4, <2>3, Products
<1>15. CASE -q <= o1
  <2>1. c1 \in -p .. p /\ o1 \in -q .. q
    BY <1>1, <1>4, <1>13, <1>15
  <2>2. QED
    BY <1>10, <2>1 DEF p, q
<1>16. CASE o1 < -q
  <2>1. q = 1 /\ o1 = -2
    BY <1>1, <1>4, <1>14, <1>16
  <2>2. here = -p - p
    BY <1>1, <2>1
  <2>3. c1 = 0 /\ there = 0
    <3>1. there <= 0
      <4> HIDE DEF there, here
      <4>1. QED
        BY <1>1, <1>8, <1>9, <2>2
    <3>2. c1 = 0
      <4> HIDE DEF there
      <4>1. QED
        BY <1>1, <1>9, <1>11, <3>1
    <3>3. QED
      BY <1>1, <3>2
  <2>4. p \in -p .. p /\ o1 + q \in -q .. q
    BY <1>1, <2>1
  <2>5. p * q = p /\ (o1 + q) * p = -p
    BY <1>1, <2>1
  <2>6. Lag(src, tgt, time, p, o1 + q) = time - a + p * q - (o1 + q) * p
    BY <1>1, <1>2, <1>4
  <2>7. Lag(src, tgt, time, p, o1 + q) = v
    <3> HIDE DEF there, here
    <3>1. v = time - a + 0 - (-p - p)
      BY <1>8, <2>2, <2>3
    <3>2. Lag(src, tgt, time, p, o1 + q) = time - a + p - (-p)
      BY <2>5, <2>6
    <3>3. QED
      BY <1>1, <3>1, <3>2
  <2>8. QED
    BY <2>4, <2>7 DEF p, q
<1>17. QED
  BY <1>1, <1>4, <1>15, <1>16

(* One cycle more of the source                                            *)
LEMMA LagShifts ==
  ASSUME NEW src, NEW tgt, Related(src, tgt), NEW time \in Int, NEW c \in Int, NEW o \in Int
  PROVE  /\ Lag(src, tgt, time, c, o + 1) = Lag(src, tgt, time, c, o) - src.period
         /\ Lag(src, tgt, time, c, o - 1) = Lag(src, tgt, time, c, o) + src.period
<1> DEFINE p == src.period
           there == c * tgt.period
           here == o * p
           a == src.time
<1>1. src.period \in Nat \ {0} /\ tgt.period \in Nat \ {0} /\ src.time \in Int
  BY RelatedTimes
<1>2. there \in Int /\ here \in Int /\ a \in Int /\ p \in Int
  BY <1>1
<1>3. (o + 1) * p = here + p /\ (o - 1) * p = here - p
  BY <1>1
<1>4. /\ Lag(src, tgt, time, c, o) = time - a + there - here
      /\ Lag(src, tgt, time, c, o + 1) = time - a + there - (here + p)
      /\ Lag(src, tgt, time, c, o - 1) = time - a + there - (here - p)
  <2>1. /\ Lag(src, tgt, time, c, o) = time - a + there - here
        /\ Lag(src, tgt, time, c, o + 1) = time - a + there - (o + 1) * p
        /\ Lag(src, tgt, time, c, o - 1) = time - a + there - (o - 1) * p
    BY LagType
  <2>2. QED
    BY <1>3, <2>1
<1> HIDE DEF p, there, here, a
<1>5. QED
  BY <1>2, <1>4 DEF p

(* What gaps are measured to: an edge of the target, or the opposite one    *)
IsTarget(to, tgt, time) ==
  to.time = time /\ to.period = tgt.period /\ time \in Int /\ 0 <= time /\ time <= tgt.period

LEMMA GapsAreLags ==
  ASSUME NEW src, NEW tgt, Related(src, tgt), NEW to, NEW time, IsTarget(to, tgt, time)
  PROVE  Gaps(src, to) = {Lag(src, tgt, time, c, o) :
                            c \in -src.period .. src.period, o \in -tgt.period .. tgt.period}
<1>1. src.period \in Nat \ {0} /\ tgt.period \in Nat \ {0} /\ src.time \in Int
  BY RelatedTimes
<1>2. ASSUME NEW c \in Int, NEW o \in Int
      PROVE  (to.time + c * to.period) - (src.time + o * src.period)
               = Lag(src, tgt, time, c, o)
  <2> DEFINE there == c * tgt.period
             here == o * src.period
             a == src.time
  <2>1. there \in Int /\ here \in Int /\ a \in Int /\ time \in Int
    BY <1>1 DEF IsTarget
  <2>2. Lag(src, tgt, time, c, o) = (there + time) - (here + a)
    BY DEF Lag
  <2>3. (to.time + c * to.period) - (src.time + o * src.period)
          = (time + there) - (a + here)
    BY DEF IsTarget
  <2> HIDE DEF there, here, a
  <2>4. QED
    BY <2>1, <2>2, <2>3
<1>3. \A c \in -src.period .. src.period : c \in Int
  BY <1>1
<1>4. \A o \in -tgt.period .. tgt.period : o \in Int
  BY <1>1
<1>5. to.period = tgt.period
  BY DEF IsTarget
<1>6. Gaps(src, to) =
        {(to.time + c * to.period) - (src.time + o * src.period) :
           c \in -src.period .. src.period, o \in -tgt.period .. tgt.period}
  BY <1>5 DEF Gaps
<1>7. QED
  BY <1>2, <1>3, <1>4, <1>6

LEMMA AheadIs ==
  ASSUME NEW src, NEW tgt, Related(src, tgt), NEW stop, IsStop(src, tgt, stop),
         NEW to, NEW time, IsTarget(to, tgt, time),
         NEW c \in Int, NEW o \in Int, NEW v, v = Lag(src, tgt, time, c, o), v > 0,
         \A pair \in Visited(src, tgt) :
           Lag(src, tgt, time, pair.tgt, pair.src) > 0
             => v <= Lag(src, tgt, time, pair.tgt, pair.src)
  PROVE  Ahead(src, to) = v
<1>1. time \in Int /\ 0 <= time /\ time <= tgt.period
  BY DEF IsTarget
<1>2. src.period \in Nat \ {0} /\ tgt.period \in Nat \ {0}
  BY RelatedTimes
<1>3. v \in Int
  BY <1>1, LagType
<1>4. ASSUME NEW m \in Int, NEW n \in Int, Lag(src, tgt, time, m, n) > 0
      PROVE  v <= Lag(src, tgt, time, m, n)
  <2>1. PICK pair \in Visited(src, tgt) :
          /\ 0 < Lag(src, tgt, time, pair.tgt, pair.src)
          /\ Lag(src, tgt, time, pair.tgt, pair.src) <= Lag(src, tgt, time, m, n)
    BY <1>1, <1>4, NearestAhead
  <2>2. pair.tgt \in Int /\ pair.src \in Int
    BY VisitedPairs, PairIs
  <2> DEFINE w == Lag(src, tgt, time, pair.tgt, pair.src)
             u == Lag(src, tgt, time, m, n)
  <2>3. w \in Int /\ u \in Int
    BY <1>1, <2>2, LagType
  <2>4. 0 < w /\ w <= u
    BY <2>1
  <2>5. w > 0
    BY <2>3, <2>4
  <2>6. v <= w
    BY <2>5
  <2> HIDE DEF w, u
  <2>7. v <= u
    BY <1>3, <2>3, <2>4, <2>6
  <2>8. QED
    BY <2>7 DEF u
<1>5. v <= src.period
  <2>1. SUFFICES ASSUME v > src.period PROVE FALSE
    BY <1>2, <1>3
  <2>2. Lag(src, tgt, time, c, o + 1) = v - src.period
    BY <1>1, LagShifts
  <2>3. Lag(src, tgt, time, c, o + 1) > 0
    BY <1>2, <1>3, <2>1, <2>2
  <2>4. v <= Lag(src, tgt, time, c, o + 1)
    BY <1>4, <2>3
  <2>5. QED
    BY <1>2, <1>3, <2>2, <2>4
<1>6. -src.period < v
  BY <1>2, <1>3
<1> DEFINE gaps == Gaps(src, to)
           ahead == {gap \in gaps : gap > 0}
<1>7. gaps = {Lag(src, tgt, time, m, n) :
                m \in -src.period .. src.period, n \in -tgt.period .. tgt.period}
  BY GapsAreLags
<1>8. PICK c1 \in -src.period .. src.period, o1 \in -tgt.period .. tgt.period :
        v = Lag(src, tgt, time, c1, o1)
  BY <1>1, <1>3, <1>5, <1>6, SmallGap
<1>9. v \in gaps
  BY <1>7, <1>8
<1>10. \A gap \in gaps : gap \in Int /\ (gap > 0 => v <= gap)
  <2>1. \A m \in -src.period .. src.period, n \in -tgt.period .. tgt.period :
          m \in Int /\ n \in Int
    BY <1>2
  <2>2. \A m, n \in Int : Lag(src, tgt, time, m, n) \in Int
    BY <1>1, LagType
  <2>3. QED
    BY <1>4, <1>7, <2>1, <2>2
<1> HIDE DEF gaps
<1>11. ahead \in SUBSET Int /\ v \in ahead /\ \A gap \in ahead : v <= gap
  BY <1>9, <1>10
<1> HIDE DEF ahead
<1>12. Min(ahead) = v
  BY <1>11, MinIs
<1>13. QED
  BY <1>12 DEF Ahead, ahead, gaps

LEMMA BehindIs ==
  ASSUME NEW src, NEW tgt, Related(src, tgt), NEW stop, IsStop(src, tgt, stop),
         NEW to, NEW time, IsTarget(to, tgt, time),
         NEW c \in Int, NEW o \in Int, NEW v, v = Lag(src, tgt, time, c, o), v <= 0,
         \A pair \in Visited(src, tgt) :
           Lag(src, tgt, time, pair.tgt, pair.src) <= 0
             => Lag(src, tgt, time, pair.tgt, pair.src) <= v
  PROVE  Behind(src, to) = -v
<1>1. time \in Int /\ 0 <= time /\ time <= tgt.period
  BY DEF IsTarget
<1>2. src.period \in Nat \ {0} /\ tgt.period \in Nat \ {0}
  BY RelatedTimes
<1>3. v \in Int
  BY <1>1, LagType
<1>4. ASSUME NEW m \in Int, NEW n \in Int, Lag(src, tgt, time, m, n) <= 0
      PROVE  Lag(src, tgt, time, m, n) <= v
  <2>1. PICK pair \in Visited(src, tgt) :
          /\ Lag(src, tgt, time, pair.tgt, pair.src) <= 0
          /\ Lag(src, tgt, time, m, n) <= Lag(src, tgt, time, pair.tgt, pair.src)
    BY <1>1, <1>4, NearestBehind
  <2>2. pair.tgt \in Int /\ pair.src \in Int
    BY VisitedPairs, PairIs
  <2> DEFINE w == Lag(src, tgt, time, pair.tgt, pair.src)
             u == Lag(src, tgt, time, m, n)
  <2>3. w \in Int /\ u \in Int
    BY <1>1, <2>2, LagType
  <2>4. w <= 0 /\ u <= w
    BY <2>1
  <2>5. w <= v
    BY <2>4
  <2> HIDE DEF w, u
  <2>6. u <= v
    BY <1>3, <2>3, <2>4, <2>5
  <2>7. QED
    BY <2>6 DEF u
<1>5. -src.period < v
  <2>1. SUFFICES ASSUME v <= -src.period PROVE FALSE
    BY <1>2, <1>3
  <2>2. Lag(src, tgt, time, c, o - 1) = v + src.period
    BY <1>1, LagShifts
  <2>3. Lag(src, tgt, time, c, o - 1) <= 0
    BY <1>2, <1>3, <2>1, <2>2
  <2>4. Lag(src, tgt, time, c, o - 1) <= v
    BY <1>4, <2>3
  <2>5. QED
    BY <1>2, <1>3, <2>2, <2>4
<1>6. v <= src.period
  BY <1>2, <1>3
<1> DEFINE gaps == Gaps(src, to)
           behind == {-gap : gap \in {gap \in gaps : gap <= 0}}
<1>7. gaps = {Lag(src, tgt, time, m, n) :
                m \in -src.period .. src.period, n \in -tgt.period .. tgt.period}
  BY GapsAreLags
<1>8. PICK c1 \in -src.period .. src.period, o1 \in -tgt.period .. tgt.period :
        v = Lag(src, tgt, time, c1, o1)
  BY <1>1, <1>3, <1>5, <1>6, SmallGap
<1>9. v \in gaps
  BY <1>7, <1>8
<1>10. \A gap \in gaps : gap \in Int /\ (gap <= 0 => gap <= v)
  <2>1. \A m \in -src.period .. src.period, n \in -tgt.period .. tgt.period :
          m \in Int /\ n \in Int
    BY <1>2
  <2>2. \A m, n \in Int : Lag(src, tgt, time, m, n) \in Int
    BY <1>1, LagType
  <2>3. QED
    BY <1>4, <1>7, <2>1, <2>2
<1> HIDE DEF gaps
<1>11. behind \in SUBSET Int /\ -v \in behind /\ \A gap \in behind : -v <= gap
  BY <1>3, <1>9, <1>10
<1> HIDE DEF behind
<1>12. Min(behind) = -v
  BY <1>11, MinIs
<1>13. QED
  BY <1>12 DEF Behind, behind, gaps

------------------------------------------------------------------------------
(* What each kind of check compares: the first of the nearest pairs.        *)
(* The nearest of a set of pairs, and the first of those.                   *)
AreLeast(least, S, Delay) == least = {pair \in S : \A other \in S : Delay[pair] <= Delay[other]}
IsFirst(chosen, least) ==
  chosen = CHOOSE pair \in least : \A other \in least \ {pair} : Before(pair, other)

LEMMA FirstOfLeast ==
  ASSUME NEW S, IsPairs(S), S # {}, NEW Delay, NEW low \in Int,
         \A pair \in S : Delay[pair] \in Int /\ low <= Delay[pair],
         NEW least, AreLeast(least, S, Delay), NEW chosen, IsFirst(chosen, least)
  PROVE  chosen \in S /\ \A other \in S : Delay[chosen] <= Delay[other]
<1> DEFINE delays == {Delay[pair] : pair \in S}
<1>1. delays \in SUBSET Int /\ delays # {} /\ \A n \in delays : low <= n
  OBVIOUS
<1> HIDE DEF delays
<1>2. PICK n \in delays : \A m \in delays : n <= m
  BY <1>1, LeastInteger
<1>3. PICK pair \in S : Delay[pair] = n
  BY <1>2 DEF delays
<1>4. pair \in least
  BY <1>2, <1>3 DEF delays, AreLeast
<1>5. IsPairs(least)
  BY DEF IsPairs, AreLeast
<1>6. \E one \in least : \A other \in least \ {one} : Before(one, other)
  BY <1>4, <1>5, FirstPair
<1>7. chosen \in least
  BY <1>6 DEF IsFirst
<1>8. QED
  BY <1>7 DEF AreLeast

TimeLag(src, tgt, time) == [pair \in Visited(src, tgt) |-> Lag(src, tgt, time, pair.tgt, pair.src)]
LagBack(src, tgt, time) == [pair \in Visited(src, tgt) |-> -Lag(src, tgt, time, pair.tgt, pair.src)]

AheadPairs(src, tgt, time) == {pair \in Visited(src, tgt) : TimeLag(src, tgt, time)[pair] > 0}
BehindPairs(src, tgt, time) == {pair \in Visited(src, tgt) : TimeLag(src, tgt, time)[pair] <= 0}

LEMMA VisitedLags ==
  ASSUME NEW src, NEW tgt, Related(src, tgt), NEW time \in Int, NEW pair \in Visited(src, tgt)
  PROVE  /\ pair.tgt \in Int /\ pair.src \in Int
         /\ TimeLag(src, tgt, time)[pair] \in Int
         /\ TimeLag(src, tgt, time)[pair] = Lag(src, tgt, time, pair.tgt, pair.src)
         /\ LagBack(src, tgt, time)[pair] = -TimeLag(src, tgt, time)[pair]
         /\ TimeLag(src, tgt, time)[pair]
              = (Start(tgt, pair.tgt) + time) - Time(src, pair.src)
<1>1. pair.tgt \in Int /\ pair.src \in Int
  BY VisitedPairs, PairIs
<1>2. Lag(src, tgt, time, pair.tgt, pair.src) \in Int
  BY <1>1, LagType
<1>3. Lag(src, tgt, time, pair.tgt, pair.src)
        = (Start(tgt, pair.tgt) + time) - Time(src, pair.src)
  BY DEF Lag, Start, Time
<1>4. QED
  BY <1>1, <1>2, <1>3 DEF TimeLag, LagBack

LEMMA AheadChosen ==
  ASSUME NEW src, NEW tgt, Related(src, tgt), NEW stop, IsStop(src, tgt, stop),
         NEW to, NEW time, IsTarget(to, tgt, time),
         NEW least, AreLeast(least, AheadPairs(src, tgt, time), TimeLag(src, tgt, time)),
         NEW chosen, IsFirst(chosen, least)
  PROVE  /\ AheadPairs(src, tgt, time) # {}
         /\ chosen \in Visited(src, tgt)
         /\ TimeLag(src, tgt, time)[chosen] = Ahead(src, to)
         /\ TimeLag(src, tgt, time)[chosen] > 0
<1> DEFINE D == TimeLag(src, tgt, time)
           S == AheadPairs(src, tgt, time)
<1>1. time \in Int /\ 0 <= time /\ time <= tgt.period
  BY DEF IsTarget
<1>2. S # {}
  <2>1. /\ src.period \in Nat \ {0} /\ tgt.period \in Nat \ {0} /\ src.time \in Int
        /\ src.time <= src.period
    BY RelatedTimes
  <2>2. 0 * tgt.period = 0 /\ (-2) * src.period = -src.period - src.period
    BY <2>1
  <2>3. Lag(src, tgt, time, 0, -2) = time - src.time + 0 * tgt.period - (-2) * src.period
    BY <1>1, LagType
  <2>4. Lag(src, tgt, time, 0, -2) > 0
    BY <1>1, <2>1, <2>2, <2>3
  <2>5. PICK pair \in Visited(src, tgt) :
          /\ 0 < Lag(src, tgt, time, pair.tgt, pair.src)
          /\ Lag(src, tgt, time, pair.tgt, pair.src) <= Lag(src, tgt, time, 0, -2)
    BY <1>1, <2>4, NearestAhead
  <2>6. D[pair] > 0
    BY <1>1, <2>5, VisitedLags
  <2>7. QED
    BY <2>6 DEF AheadPairs
<1>3. \A pair \in S : pair \in Visited(src, tgt) /\ D[pair] \in Int /\ 0 <= D[pair] /\ D[pair] > 0
  BY <1>1, VisitedLags DEF AheadPairs
<1>4. IsPairs(S)
  <2>1. S \subseteq Pairs(src, tgt)
    BY <1>3, VisitedPairs
  <2>2. QED
    BY <2>1, PairsArePairs DEF IsPairs
<1>5. AreLeast(least, S, D)
  OBVIOUS
<1> HIDE DEF D, S
<1>6. /\ chosen \in S
      /\ \A other \in S : D[chosen] <= D[other]
  BY <1>2, <1>3, <1>4, <1>5, FirstOfLeast
<1>8. chosen \in Visited(src, tgt) /\ D[chosen] > 0
  BY <1>3, <1>6
<1>9. chosen.tgt \in Int /\ chosen.src \in Int
      /\ D[chosen] = Lag(src, tgt, time, chosen.tgt, chosen.src)
  BY <1>1, <1>8, VisitedLags DEF D
<1>10. ASSUME NEW pair \in Visited(src, tgt), Lag(src, tgt, time, pair.tgt, pair.src) > 0
       PROVE  D[chosen] <= Lag(src, tgt, time, pair.tgt, pair.src)
  <2>1. D[pair] = Lag(src, tgt, time, pair.tgt, pair.src)
    BY <1>1, VisitedLags DEF D
  <2>2. pair \in S
    BY <1>10, <2>1 DEF S, D, AheadPairs
  <2>3. QED
    BY <1>6, <2>1, <2>2
<1>11. Ahead(src, to) = D[chosen]
  BY <1>8, <1>9, <1>10, AheadIs
<1>12. QED
  BY <1>2, <1>8, <1>11 DEF D, S

LEMMA BehindChosen ==
  ASSUME NEW src, NEW tgt, Related(src, tgt), NEW stop, IsStop(src, tgt, stop),
         NEW to, NEW time, IsTarget(to, tgt, time),
         NEW least, AreLeast(least, BehindPairs(src, tgt, time), LagBack(src, tgt, time)),
         NEW chosen, IsFirst(chosen, least)
  PROVE  /\ BehindPairs(src, tgt, time) # {}
         /\ chosen \in Visited(src, tgt)
         /\ -TimeLag(src, tgt, time)[chosen] = Behind(src, to)
<1> DEFINE D == TimeLag(src, tgt, time)
           B == LagBack(src, tgt, time)
           S == BehindPairs(src, tgt, time)
<1>1. time \in Int /\ 0 <= time /\ time <= tgt.period
  BY DEF IsTarget
<1>2. S # {}
  <2>1. /\ src.period \in Nat \ {0} /\ tgt.period \in Nat \ {0} /\ src.time \in Int
        /\ 0 <= src.time
    BY RelatedTimes
  <2>2. 0 * src.period = 0 /\ (-1) * tgt.period = -tgt.period
    BY <2>1
  <2>3. Lag(src, tgt, time, -1, 0) = time - src.time + (-1) * tgt.period - 0 * src.period
    BY <1>1, LagType
  <2>4. Lag(src, tgt, time, -1, 0) <= 0
    BY <1>1, <2>1, <2>2, <2>3
  <2>5. PICK pair \in Visited(src, tgt) :
          /\ Lag(src, tgt, time, pair.tgt, pair.src) <= 0
          /\ Lag(src, tgt, time, -1, 0) <= Lag(src, tgt, time, pair.tgt, pair.src)
    BY <1>1, <2>4, NearestBehind
  <2>6. D[pair] <= 0
    BY <1>1, <2>5, VisitedLags
  <2>7. QED
    BY <2>6 DEF BehindPairs
<1>3. \A pair \in S : /\ pair \in Visited(src, tgt) /\ D[pair] \in Int /\ D[pair] <= 0
                      /\ B[pair] \in Int /\ 0 <= B[pair] /\ B[pair] = -D[pair]
  BY <1>1, VisitedLags DEF BehindPairs
<1>4. IsPairs(S)
  <2>1. S \subseteq Pairs(src, tgt)
    BY <1>3, VisitedPairs
  <2>2. QED
    BY <2>1, PairsArePairs DEF IsPairs
<1>5. AreLeast(least, S, B)
  OBVIOUS
<1> HIDE DEF D, B, S
<1>6. /\ chosen \in S
      /\ \A other \in S : B[chosen] <= B[other]
  BY <1>2, <1>3, <1>4, <1>5, FirstOfLeast
<1>8. chosen \in Visited(src, tgt) /\ D[chosen] <= 0 /\ D[chosen] \in Int
  BY <1>3, <1>6
<1>9. chosen.tgt \in Int /\ chosen.src \in Int
      /\ D[chosen] = Lag(src, tgt, time, chosen.tgt, chosen.src)
  BY <1>1, <1>8, VisitedLags DEF D
<1>10. ASSUME NEW pair \in Visited(src, tgt), Lag(src, tgt, time, pair.tgt, pair.src) <= 0
       PROVE  Lag(src, tgt, time, pair.tgt, pair.src) <= D[chosen]
  <2>1. D[pair] = Lag(src, tgt, time, pair.tgt, pair.src)
    BY <1>1, VisitedLags DEF D
  <2>2. pair \in S
    BY <1>10, <2>1 DEF S, D, BehindPairs
  <2>3. B[chosen] <= B[pair] /\ B[pair] = -D[pair] /\ B[chosen] = -D[chosen]
        /\ D[pair] \in Int
    BY <1>3, <1>6, <2>2
  <2>4. D[pair] <= D[chosen]
    BY <1>8, <2>3
  <2>5. QED
    BY <2>1, <2>4
<1>11. Behind(src, to) = -D[chosen]
  BY <1>8, <1>9, <1>10, BehindIs
<1>12. QED
  BY <1>2, <1>8, <1>11 DEF D, S

(* The times the checks compare, as lags                                    *)
LEMMA LagsOfTimes ==
  ASSUME NEW src, NEW tgt, Related(src, tgt), NEW pair \in Visited(src, tgt)
  PROVE  /\ Time(tgt, pair.tgt) \in Int /\ Time(src, pair.src) \in Int
         /\ OppositeTime(tgt, pair.tgt) \in Int
         /\ TimeLag(src, tgt, tgt.time)[pair] = Time(tgt, pair.tgt) - Time(src, pair.src)
         /\ LagBack(src, tgt, tgt.time)[pair] = Time(src, pair.src) - Time(tgt, pair.tgt)
         /\ TimeLag(src, tgt, tgt.opposite)[pair]
              = OppositeTime(tgt, pair.tgt) - Time(src, pair.src)
         /\ LagBack(src, tgt, tgt.opposite)[pair]
              = Time(src, pair.src) - OppositeTime(tgt, pair.tgt)
         /\ OppositeTime(tgt, pair.tgt) = Time(tgt, pair.tgt) + tgt.opposite - tgt.time
<1>1. src.period \in Int /\ tgt.period \in Int /\ src.time \in Int /\ tgt.time \in Int
      /\ tgt.opposite \in Int
  BY RelatedTimes
<1>2. pair.tgt \in Int /\ pair.src \in Int
  BY <1>1, VisitedLags
<1>3. Start(tgt, pair.tgt) \in Int /\ Start(src, pair.src) \in Int
  BY <1>1, <1>2 DEF Start
<1>4. /\ Time(tgt, pair.tgt) = Start(tgt, pair.tgt) + tgt.time
      /\ OppositeTime(tgt, pair.tgt) = Start(tgt, pair.tgt) + tgt.opposite
      /\ Time(src, pair.src) = Start(src, pair.src) + src.time
  BY DEF Time, OppositeTime
<1>5. Time(tgt, pair.tgt) \in Int /\ Time(src, pair.src) \in Int
      /\ OppositeTime(tgt, pair.tgt) \in Int
  BY <1>1, <1>3, <1>4
<1>6. ASSUME NEW time \in Int
      PROVE  /\ TimeLag(src, tgt, time)[pair]
                  = (Start(tgt, pair.tgt) + time) - Time(src, pair.src)
             /\ LagBack(src, tgt, time)[pair]
                  = Time(src, pair.src) - (Start(tgt, pair.tgt) + time)
  <2>1. /\ TimeLag(src, tgt, time)[pair]
             = (Start(tgt, pair.tgt) + time) - Time(src, pair.src)
        /\ LagBack(src, tgt, time)[pair] = -TimeLag(src, tgt, time)[pair]
    BY VisitedLags
  <2>2. \A u, w \in Int : -(u - w) = w - u
    OBVIOUS
  <2>3. Start(tgt, pair.tgt) + time \in Int
    BY <1>3
  <2>4. QED
    BY <1>5, <2>1, <2>2, <2>3
<1>7. OppositeTime(tgt, pair.tgt) = Time(tgt, pair.tgt) + tgt.opposite - tgt.time
  BY <1>1, <1>3, <1>4
<1>8. QED
  BY <1>1, <1>4, <1>5, <1>6, <1>7

LEMMA Comparisons ==
  ASSUME NEW u \in Int, NEW w \in Int
  PROVE  /\ u > w <=> u - w > 0
         /\ ~(u > w) <=> u - w <= 0
         /\ u <= w <=> u - w <= 0
         /\ w - u = -(u - w)
OBVIOUS

LEMMA SetupFound ==
  ASSUME NEW src, NEW tgt, Related(src, tgt), NEW stop, IsStop(src, tgt, stop)
  PROVE  \E pair \in Visited(src, tgt) :
           /\ TimeLag(src, tgt, tgt.time)[pair] = Ahead(src, tgt)
           /\ Setup(src, tgt, Visited(src, tgt))
                = Entry(pair.src, pair.tgt, TimeLag(src, tgt, tgt.time)[pair],
                        Time(tgt, pair.tgt) - Start(src, pair.src))
<1> DEFINE visited == Visited(src, tgt)
           S == AheadPairs(src, tgt, tgt.time)
           D == TimeLag(src, tgt, tgt.time)
           least == {one \in S : \A other \in S : D[one] <= D[other]}
           chosen == CHOOSE one \in least : \A other \in least \ {one} : Before(one, other)
<1>1. IsTarget(tgt, tgt, tgt.time)
  BY RelatedTimes DEF IsTarget
<1>2. AreLeast(least, S, D)
  BY DEF AreLeast
<1>3. IsFirst(chosen, least)
  BY DEF IsFirst
<1> HIDE DEF least, chosen
<1>4. S # {} /\ chosen \in visited /\ D[chosen] = Ahead(src, tgt)
  BY <1>1, <1>2, <1>3, AheadChosen
<1>5. \A pair \in visited : /\ D[pair] = Time(tgt, pair.tgt) - Time(src, pair.src)
                            /\ Time(tgt, pair.tgt) > Time(src, pair.src) <=> D[pair] > 0
  BY LagsOfTimes, Comparisons
<1>6. {pair \in visited : TargetLater(src, tgt, pair)} = S
  BY <1>5 DEF AheadPairs, TargetLater
<1>7. {pair \in S : \A other \in S : Time(tgt, pair.tgt) - Time(src, pair.src)
                                       <= Time(tgt, other.tgt) - Time(src, other.src)} = least
  BY <1>2, <1>5 DEF AheadPairs, AreLeast
<1> HIDE DEF S, visited
<1>8. Setup(src, tgt, visited)
        = Closest(S, LAMBDA pair : Time(tgt, pair.tgt) - Time(src, pair.src),
                  LAMBDA pair : Entry(pair.src, pair.tgt,
                                      Time(tgt, pair.tgt) - Time(src, pair.src),
                                      Time(tgt, pair.tgt) - Start(src, pair.src)))
  BY <1>6 DEF Setup
<1>9. Setup(src, tgt, visited)
        = Entry(chosen.src, chosen.tgt, Time(tgt, chosen.tgt) - Time(src, chosen.src),
                Time(tgt, chosen.tgt) - Start(src, chosen.src))
  BY <1>3, <1>4, <1>7, <1>8 DEF Closest, IsFirst
<1>10. QED
  BY <1>4, <1>5, <1>9 DEF visited

LEMMA HoldFound ==
  ASSUME NEW src, NEW tgt, Related(src, tgt), NEW stop, IsStop(src, tgt, stop)
  PROVE  \E pair \in Visited(src, tgt) :
           /\ LagBack(src, tgt, tgt.time)[pair] = Behind(src, tgt)
           /\ Hold(src, tgt, Visited(src, tgt))
                = Entry(pair.src, pair.tgt, LagBack(src, tgt, tgt.time)[pair],
                        Time(tgt, pair.tgt) - Start(src, pair.src))
           /\ DataCheckHold(src, tgt, Visited(src, tgt))
                = Entry(pair.src + 1, pair.tgt,
                        Time(src, pair.src + 1) - Time(tgt, pair.tgt),
                        Time(tgt, pair.tgt) - Start(src, pair.src + 1))
<1> DEFINE visited == Visited(src, tgt)
           S == BehindPairs(src, tgt, tgt.time)
           L == TimeLag(src, tgt, tgt.time)
           D == LagBack(src, tgt, tgt.time)
           least == {one \in S : \A other \in S : D[one] <= D[other]}
           chosen == CHOOSE one \in least : \A other \in least \ {one} : Before(one, other)
<1>1. IsTarget(tgt, tgt, tgt.time)
  BY RelatedTimes DEF IsTarget
<1>2. AreLeast(least, S, D)
  BY DEF AreLeast
<1>3. IsFirst(chosen, least)
  BY DEF IsFirst
<1> HIDE DEF least, chosen
<1>4. S # {} /\ chosen \in visited /\ -L[chosen] = Behind(src, tgt)
  BY <1>1, <1>2, <1>3, BehindChosen
<1>5. \A pair \in visited : /\ D[pair] = Time(src, pair.src) - Time(tgt, pair.tgt)
                            /\ D[pair] = -L[pair]
                            /\ ~(Time(tgt, pair.tgt) > Time(src, pair.src)) <=> L[pair] <= 0
  BY LagsOfTimes, Comparisons
<1>6. {pair \in visited : ~TargetLater(src, tgt, pair)} = S
  BY <1>5 DEF BehindPairs, TargetLater
<1>7. {pair \in S : \A other \in S : Time(src, pair.src) - Time(tgt, pair.tgt)
                                       <= Time(src, other.src) - Time(tgt, other.tgt)} = least
  BY <1>2, <1>5 DEF BehindPairs, AreLeast
<1> HIDE DEF S, visited
<1>8. Hold(src, tgt, visited)
        = Closest(S, LAMBDA pair : Time(src, pair.src) - Time(tgt, pair.tgt),
                  LAMBDA pair : Entry(pair.src, pair.tgt,
                                      Time(src, pair.src) - Time(tgt, pair.tgt),
                                      Time(tgt, pair.tgt) - Start(src, pair.src)))
  BY <1>6 DEF Hold
<1>9. Hold(src, tgt, visited)
        = Entry(chosen.src, chosen.tgt, Time(src, chosen.src) - Time(tgt, chosen.tgt),
                Time(tgt, chosen.tgt) - Start(src, chosen.src))
  BY <1>3, <1>4, <1>7, <1>8 DEF Closest, IsFirst
<1>10. DataCheckHold(src, tgt, visited)
        = Closest(S, LAMBDA pair : Time(src, pair.src) - Time(tgt, pair.tgt),
                  LAMBDA pair : Entry(pair.src + 1, pair.tgt,
                                      Time(src, pair.src + 1) - Time(tgt, pair.tgt),
                                      Time(tgt, pair.tgt) - Start(src, pair.src + 1)))
  BY <1>6 DEF DataCheckHold
<1>11. DataCheckHold(src, tgt, visited)
        = Entry(chosen.src + 1, chosen.tgt,
                Time(src, chosen.src + 1) - Time(tgt, chosen.tgt),
                Time(tgt, chosen.tgt) - Start(src, chosen.src + 1))
  BY <1>3, <1>4, <1>7, <1>10 DEF Closest, IsFirst
<1>12. QED
  BY <1>4, <1>5, <1>9, <1>11 DEF visited

Opens(tgt, pair) == IF tgt.time > tgt.opposite THEN pair.tgt - 1 ELSE pair.tgt

LEMMA LatchSetupFound ==
  ASSUME NEW src, NEW tgt, Related(src, tgt), NEW stop, IsStop(src, tgt, stop)
  PROVE  \E pair \in Visited(src, tgt), opens \in Int :
           /\ TimeLag(src, tgt, tgt.opposite)[pair] = Ahead(src, Flipped(tgt))
           /\ opens = Opens(tgt, pair)
           /\ LatchSetup(src, tgt, Visited(src, tgt))
                = Entry(pair.src, opens, TimeLag(src, tgt, tgt.opposite)[pair],
                        Time(tgt, opens) - Start(src, pair.src))
<1> DEFINE visited == Visited(src, tgt)
           S == AheadPairs(src, tgt, tgt.opposite)
           D == TimeLag(src, tgt, tgt.opposite)
           least == {one \in S : \A other \in S : D[one] <= D[other]}
           chosen == CHOOSE one \in least : \A other \in least \ {one} : Before(one, other)
<1>1. IsTarget(Flipped(tgt), tgt, tgt.opposite)
  <2>1. Flipped(tgt).time = tgt.opposite /\ Flipped(tgt).period = tgt.period
    BY DEF Flipped
  <2>2. QED
    BY <2>1, RelatedTimes DEF IsTarget
<1>2. AreLeast(least, S, D)
  BY DEF AreLeast
<1>3. IsFirst(chosen, least)
  BY DEF IsFirst
<1> HIDE DEF least, chosen
<1>4. S # {} /\ chosen \in visited /\ D[chosen] = Ahead(src, Flipped(tgt))
  BY <1>1, <1>2, <1>3, AheadChosen
<1>5. \A pair \in visited : D[pair] = OppositeTime(tgt, pair.tgt) - Time(src, pair.src)
  BY LagsOfTimes
<1>6. {pair \in visited : OppositeTime(tgt, pair.tgt) - Time(src, pair.src) > 0} = S
  BY <1>5 DEF AheadPairs
<1>7. {pair \in S : \A other \in S : OppositeTime(tgt, pair.tgt) - Time(src, pair.src)
                       <= OppositeTime(tgt, other.tgt) - Time(src, other.src)} = least
  BY <1>2, <1>5 DEF AheadPairs, AreLeast
<1> HIDE DEF S, visited
<1>8. LatchSetup(src, tgt, visited)
        = Closest(S, LAMBDA pair : OppositeTime(tgt, pair.tgt) - Time(src, pair.src),
                  LAMBDA pair : Entry(pair.src, Opens(tgt, pair),
                                      OppositeTime(tgt, pair.tgt) - Time(src, pair.src),
                                      Time(tgt, Opens(tgt, pair)) - Start(src, pair.src)))
  BY <1>6 DEF LatchSetup, Opens
<1>9. LatchSetup(src, tgt, visited)
        = Entry(chosen.src, Opens(tgt, chosen),
                OppositeTime(tgt, chosen.tgt) - Time(src, chosen.src),
                Time(tgt, Opens(tgt, chosen)) - Start(src, chosen.src))
  BY <1>3, <1>4, <1>7, <1>8 DEF Closest, IsFirst
<1>10. Opens(tgt, chosen) \in Int
  <2>1. chosen.tgt \in Int
    BY <1>1, <1>4, VisitedLags DEF IsTarget, visited
  <2>2. QED
    BY <2>1 DEF Opens
<1>11. QED
  BY <1>4, <1>5, <1>9, <1>10 DEF visited

LEMMA GatedClockHoldFound ==
  ASSUME NEW src, NEW tgt, Related(src, tgt), NEW stop, IsStop(src, tgt, stop)
  PROVE  \E pair \in Visited(src, tgt) :
           /\ LagBack(src, tgt, tgt.opposite)[pair] = Behind(src, Flipped(tgt))
           /\ GatedClockHold(src, tgt, Visited(src, tgt))
                = Entry(pair.src, pair.tgt, LagBack(src, tgt, tgt.time)[pair],
                        Time(tgt, pair.tgt) - Start(src, pair.src))
<1> DEFINE visited == Visited(src, tgt)
           S == BehindPairs(src, tgt, tgt.opposite)
           L == TimeLag(src, tgt, tgt.opposite)
           D == LagBack(src, tgt, tgt.opposite)
           E == LagBack(src, tgt, tgt.time)
           least == {one \in S : \A other \in S : D[one] <= D[other]}
           chosen == CHOOSE one \in least : \A other \in least \ {one} : Before(one, other)
<1>1. IsTarget(Flipped(tgt), tgt, tgt.opposite)
  <2>1. Flipped(tgt).time = tgt.opposite /\ Flipped(tgt).period = tgt.period
    BY DEF Flipped
  <2>2. QED
    BY <2>1, RelatedTimes DEF IsTarget
<1>2. AreLeast(least, S, D)
  BY DEF AreLeast
<1>3. IsFirst(chosen, least)
  BY DEF IsFirst
<1> HIDE DEF least, chosen
<1>4. S # {} /\ chosen \in visited /\ -L[chosen] = Behind(src, Flipped(tgt))
  BY <1>1, <1>2, <1>3, BehindChosen
<1>5. \A pair \in visited :
        /\ D[pair] = -L[pair]
        /\ D[pair] = E[pair] - (tgt.opposite - tgt.time)
        /\ E[pair] = Time(src, pair.src) - Time(tgt, pair.tgt)
        /\ E[pair] \in Int
        /\ OppositeTime(tgt, pair.tgt) <= Time(src, pair.src) <=> L[pair] <= 0
  <2>1. tgt.time \in Int /\ tgt.opposite \in Int
    BY RelatedTimes
  <2>2. ASSUME NEW pair \in visited
        PROVE  /\ D[pair] = -L[pair]
               /\ D[pair] = E[pair] - (tgt.opposite - tgt.time)
               /\ E[pair] = Time(src, pair.src) - Time(tgt, pair.tgt)
               /\ E[pair] \in Int
               /\ OppositeTime(tgt, pair.tgt) <= Time(src, pair.src) <=> L[pair] <= 0
    <3> DEFINE late == Time(tgt, pair.tgt)
               here == Time(src, pair.src)
               flip == OppositeTime(tgt, pair.tgt)
    <3>1. /\ late \in Int /\ here \in Int /\ flip \in Int
          /\ L[pair] = flip - here /\ D[pair] = here - flip /\ E[pair] = here - late
          /\ flip = late + tgt.opposite - tgt.time
      BY LagsOfTimes
    <3> HIDE DEF late, here, flip, D, L, E
    <3>2. /\ D[pair] = -L[pair]
          /\ D[pair] = E[pair] - (tgt.opposite - tgt.time)
          /\ E[pair] \in Int
          /\ flip <= here <=> L[pair] <= 0
      BY <2>1, <3>1
    <3>3. QED
      BY <3>1, <3>2 DEF late, here, flip
  <2>3. QED
    BY <2>2
<1>6. {pair \in visited : OppositeTime(tgt, pair.tgt) <= Time(src, pair.src)} = S
  BY <1>5 DEF BehindPairs
<1>7. {pair \in S : \A other \in S : Time(src, pair.src) - Time(tgt, pair.tgt)
                                       <= Time(src, other.src) - Time(tgt, other.tgt)} = least
  <2>1. tgt.time \in Int /\ tgt.opposite \in Int
    BY RelatedTimes
  <2>2. \A u, w, shift \in Int : u <= w <=> u - shift <= w - shift
    OBVIOUS
  <2>3. \A pair \in S : pair \in visited
    BY DEF BehindPairs
  <2>4. tgt.opposite - tgt.time \in Int
    BY <2>1
  <2>5. \A pair, other \in S : E[pair] <= E[other] <=> D[pair] <= D[other]
    <3> HIDE DEF D, E, S, visited, L
    <3>1. QED
      BY <1>5, <2>2, <2>3, <2>4
  <2>6. \A pair, other \in S : Time(src, pair.src) - Time(tgt, pair.tgt)
                                 <= Time(src, other.src) - Time(tgt, other.tgt)
                               <=> D[pair] <= D[other]
    <3> HIDE DEF D, E, S, visited, L
    <3>1. QED
      BY <1>5, <2>3, <2>5
  <2> HIDE DEF S, D
  <2>7. QED
    BY <1>2, <2>6 DEF AreLeast
<1> HIDE DEF S, visited
<1>8. GatedClockHold(src, tgt, visited)
        = Closest(S, LAMBDA pair : Time(src, pair.src) - Time(tgt, pair.tgt),
                  LAMBDA pair : Entry(pair.src, pair.tgt,
                                      Time(src, pair.src) - Time(tgt, pair.tgt),
                                      Time(tgt, pair.tgt) - Start(src, pair.src)))
  BY <1>6 DEF GatedClockHold
<1>9. GatedClockHold(src, tgt, visited)
        = Entry(chosen.src, chosen.tgt, Time(src, chosen.src) - Time(tgt, chosen.tgt),
                Time(tgt, chosen.tgt) - Start(src, chosen.src))
  BY <1>3, <1>4, <1>7, <1>8 DEF Closest, IsFirst
<1>10. QED
  BY <1>4, <1>5, <1>9 DEF visited

(* The accounting of two clocks that run, their edges within their periods  *)
(* and not both at the end of them (Related), when the loops stop before   *)
(* their limits, compares the nearest edges for every kind of check        *)
(* (CycleAccting::findDelays).                                             *)
THEOREM FindDelaysRight ==
  ASSUME NEW src, NEW tgt, Related(src, tgt), ~MaxCyclesExceeded(src, tgt)
  PROVE  AcctingRight(FindDelays(src, tgt), src, tgt)
<1> DEFINE acct == FindDelays(src, tgt)
           visited == Visited(src, tgt)
<1>1. PICK stop : IsStop(src, tgt, stop)
  BY StopExists
<1>2. /\ acct.setup = Setup(src, tgt, visited)
      /\ acct.hold = Hold(src, tgt, visited)
      /\ acct.dataCheckSetup = Hold(src, tgt, visited)
      /\ acct.dataCheckHold = DataCheckHold(src, tgt, visited)
      /\ acct.latchSetup = LatchSetup(src, tgt, visited)
      /\ acct.gatedClockHold = GatedClockHold(src, tgt, visited)
  BY DEF FindDelays
<1> HIDE DEF acct
<1>3. \A from, to, delay, required :
        LET entry == Entry(from, to, delay, required)
        IN entry.src = from /\ entry.tgt = to /\ entry.delay = delay
             /\ entry.required = required
  BY DEF Entry
<1>4. SetupRight(acct, src, tgt)
  <2>1. PICK pair \in visited :
          /\ TimeLag(src, tgt, tgt.time)[pair] = Ahead(src, tgt)
          /\ Setup(src, tgt, visited)
               = Entry(pair.src, pair.tgt, TimeLag(src, tgt, tgt.time)[pair],
                       Time(tgt, pair.tgt) - Start(src, pair.src))
    BY <1>1, SetupFound
  <2>2. TimeLag(src, tgt, tgt.time)[pair] = Time(tgt, pair.tgt) - Time(src, pair.src)
    BY LagsOfTimes
  <2>3. /\ acct.setup.src = pair.src /\ acct.setup.tgt = pair.tgt
        /\ acct.setup.delay = Ahead(src, tgt)
        /\ acct.setup.required = Time(tgt, pair.tgt) - Start(src, pair.src)
    BY <1>2, <1>3, <2>1
  <2>4. QED
    BY <2>1, <2>2, <2>3 DEF SetupRight, Consistent
<1>5. HoldRight(acct, src, tgt) /\ DataCheckRight(acct, src, tgt)
  <2>1. PICK pair \in visited :
           /\ LagBack(src, tgt, tgt.time)[pair] = Behind(src, tgt)
           /\ Hold(src, tgt, visited)
                = Entry(pair.src, pair.tgt, LagBack(src, tgt, tgt.time)[pair],
                        Time(tgt, pair.tgt) - Start(src, pair.src))
           /\ DataCheckHold(src, tgt, visited)
                = Entry(pair.src + 1, pair.tgt,
                        Time(src, pair.src + 1) - Time(tgt, pair.tgt),
                        Time(tgt, pair.tgt) - Start(src, pair.src + 1))
    BY <1>1, HoldFound
  <2>2. /\ LagBack(src, tgt, tgt.time)[pair] = Time(src, pair.src) - Time(tgt, pair.tgt)
        /\ Time(tgt, pair.tgt) \in Int /\ Time(src, pair.src) \in Int
    BY LagsOfTimes
  <2>3. /\ acct.hold.src = pair.src /\ acct.hold.tgt = pair.tgt
        /\ acct.hold.delay = Behind(src, tgt)
        /\ acct.hold.required = Time(tgt, pair.tgt) - Start(src, pair.src)
        /\ acct.dataCheckSetup = acct.hold
    BY <1>2, <1>3, <2>1
  <2>4. /\ acct.dataCheckHold.src = pair.src + 1 /\ acct.dataCheckHold.tgt = pair.tgt
        /\ acct.dataCheckHold.delay = Time(src, pair.src + 1) - Time(tgt, pair.tgt)
        /\ acct.dataCheckHold.required = Time(tgt, pair.tgt) - Start(src, pair.src + 1)
    BY <1>2, <1>3, <2>1
  <2>5. acct.dataCheckHold.delay - Behind(src, tgt) = src.period
    <3>1. src.period \in Int /\ src.time \in Int /\ pair.src \in Int
      <4>1. tgt.time \in Int
        BY RelatedTimes
      <4>2. QED
        BY <4>1, RelatedTimes, VisitedLags
    <3> DEFINE here == pair.src * src.period
    <3>2. here \in Int /\ (pair.src + 1) * src.period = here + src.period
      BY <3>1
    <3>3. Time(src, pair.src + 1) = here + src.period + src.time
          /\ Time(src, pair.src) = here + src.time
      BY <3>2 DEF Time, Start
    <3> HIDE DEF here
    <3>4. QED
      BY <2>1, <2>2, <2>4, <3>1, <3>2, <3>3
  <2>6. HoldRight(acct, src, tgt)
    BY <2>1, <2>2, <2>3 DEF HoldRight, Consistent
  <2>7. DataCheckRight(acct, src, tgt)
    BY <2>3, <2>4, <2>5 DEF DataCheckRight, Consistent
  <2>8. QED
    BY <2>6, <2>7
<1>6. LatchRight(acct, src, tgt)
  <2>1. PICK pair \in visited, opens \in Int :
           /\ TimeLag(src, tgt, tgt.opposite)[pair] = Ahead(src, Flipped(tgt))
           /\ opens = Opens(tgt, pair)
           /\ LatchSetup(src, tgt, visited)
                = Entry(pair.src, opens, TimeLag(src, tgt, tgt.opposite)[pair],
                        Time(tgt, opens) - Start(src, pair.src))
    BY <1>1, LatchSetupFound
  <2>2. /\ acct.latchSetup.src = pair.src /\ acct.latchSetup.tgt = opens
        /\ acct.latchSetup.delay = Ahead(src, Flipped(tgt))
        /\ acct.latchSetup.required = Time(tgt, opens) - Start(src, pair.src)
    BY <1>2, <1>3, <2>1
  <2>3. /\ TimeLag(src, tgt, tgt.opposite)[pair]
             = OppositeTime(tgt, pair.tgt) - Time(src, pair.src)
        /\ OppositeTime(tgt, pair.tgt) \in Int /\ Time(src, pair.src) \in Int
    BY LagsOfTimes
  <2>4. Time(src, pair.src) + acct.latchSetup.delay = OppositeTime(tgt, pair.tgt)
    BY <2>1, <2>2, <2>3
  <2>5. OppositeTime(tgt, pair.tgt) - Time(tgt, opens) \in 0 .. tgt.period
    <3>1. /\ tgt.period \in Int /\ tgt.time \in Int /\ tgt.opposite \in Int
          /\ 0 <= tgt.time /\ tgt.time <= tgt.period
          /\ 0 <= tgt.opposite /\ tgt.opposite <= tgt.period
      BY RelatedTimes
    <3>2. pair.tgt \in Int
      BY <3>1, VisitedLags
    <3> DEFINE there == pair.tgt * tgt.period
    <3>3. there \in Int /\ (pair.tgt - 1) * tgt.period = there - tgt.period
      BY <3>1, <3>2
    <3>4. OppositeTime(tgt, pair.tgt) = there + tgt.opposite
      BY DEF OppositeTime, Start
    <3>5. Time(tgt, opens) = IF tgt.time > tgt.opposite THEN there - tgt.period + tgt.time
                             ELSE there + tgt.time
      BY <2>1, <3>3 DEF Opens, Time, Start
    <3> HIDE DEF there
    <3>6. QED
      BY <3>1, <3>3, <3>4, <3>5
  <2>6. QED
    BY <2>2, <2>4, <2>5 DEF LatchRight, Consistent
<1>7. GatedHoldRight(acct, src, tgt)
  <2>1. PICK pair \in visited :
           /\ LagBack(src, tgt, tgt.opposite)[pair] = Behind(src, Flipped(tgt))
           /\ GatedClockHold(src, tgt, visited)
                = Entry(pair.src, pair.tgt, LagBack(src, tgt, tgt.time)[pair],
                        Time(tgt, pair.tgt) - Start(src, pair.src))
    BY <1>1, GatedClockHoldFound
  <2>2. /\ acct.gatedClockHold.src = pair.src /\ acct.gatedClockHold.tgt = pair.tgt
        /\ acct.gatedClockHold.delay = LagBack(src, tgt, tgt.time)[pair]
        /\ acct.gatedClockHold.required = Time(tgt, pair.tgt) - Start(src, pair.src)
    BY <1>2, <1>3, <2>1
  <2>3. LagBack(src, tgt, tgt.time)[pair]
          = LagBack(src, tgt, tgt.opposite)[pair] + tgt.opposite - tgt.time
    <3> DEFINE late == Time(tgt, pair.tgt)
               here == Time(src, pair.src)
               flip == OppositeTime(tgt, pair.tgt)
    <3>1. /\ late \in Int /\ here \in Int /\ flip \in Int
          /\ LagBack(src, tgt, tgt.opposite)[pair] = here - flip
          /\ LagBack(src, tgt, tgt.time)[pair] = here - late
          /\ flip = late + tgt.opposite - tgt.time
      BY LagsOfTimes
    <3>2. tgt.time \in Int /\ tgt.opposite \in Int
      BY RelatedTimes
    <3> HIDE DEF late, here, flip
    <3>3. QED
      BY <3>1, <3>2
  <2>4. QED
    BY <2>1, <2>2, <2>3 DEF GatedHoldRight, Consistent
<1>8. QED
  BY <1>4, <1>5, <1>6, <1>7 DEF AcctingRight, acct

LEMMA DefaultArrivalRight ==
  ASSUME NEW tgt, IsEdge(tgt), Running(tgt)
  PROVE  FirstEdgeRight(DefaultArrivalDelays(tgt), tgt)
<1>1. tgt.time \in Int /\ tgt.period \in Int /\ 0 <= tgt.time /\ tgt.time <= tgt.period
  BY DEF IsEdge, Running, InPeriod
<1>2. DefaultArrivalDelays(tgt).setup
        = IF tgt.time > 0 THEN Entry(0, 0, tgt.time, tgt.time)
          ELSE Entry(0, 1, tgt.period, tgt.period)
  BY <1>1 DEF DefaultArrivalDelays
<1>3. QED
  BY <1>1, <1>2 DEF FirstEdgeRight, Entry

-----------------------------------------------------------------------------
(* The accountings kept compare the closest edges the clocks ever have, for *)
(* every kind of check and whatever commands and updates came before, as   *)
(* long as the edges lie within their periods, are not both at the end of  *)
(* them, and the loops stop before their limits.  Outside of that nothing  *)
(* is said: at two period ends the search does stop too early              *)
(* (Sdc::cycleAccting, CycleAccting::findDelays).                          *)
THEOREM AcctingsStayRight == Spec => []AcctingsRight
<1>1. ASSUME ClockInv, NEW clk \in Clks, NEW rf \in RiseFall
      PROVE  IsEdge(Edge(<<clk, rf>>))
  <2>1. clocks[clk].period \in Int /\ clocks[clk].waveform \in [RiseFall -> Int]
    BY <1>1 DEF ClockInv, GoodClocks, GoodClock, ClockTypes, Clks
  <2>2. Opposite(rf) \in RiseFall
    BY DEF Opposite, RiseFall
  <2>3. QED
    BY <2>1, <2>2 DEF IsEdge, Edge
<1>2. ASSUME ClockInv PROVE AcctingsRight
  <2>1. SUFFICES ASSUME NEW edges \in DOMAIN acctings,
                        Running(Edge(edges[2])), ~acctings[edges].exceeded
                 PROVE  IF edges[1] = NoClock \/ Edge(edges[1]).period = 0
                        THEN FirstEdgeRight(acctings[edges], Edge(edges[2]))
                        ELSE \/ ~Running(Edge(edges[1]))
                             \/ AtEnd(Edge(edges[1])) /\ AtEnd(Edge(edges[2]))
                             \/ AcctingRight(acctings[edges], Edge(edges[1]), Edge(edges[2]))
    BY DEF AcctingsRight
  <2> DEFINE from == edges[1]
             src == Edge(edges[1])
             tgt == Edge(edges[2])
             acct == acctings[edges]
  <2>2. acct = AccountingOf(from, edges[2]) /\ edges[2] \in Edges
        /\ (from = NoClock \/ from \in Edges)
    BY <1>2 DEF ClockInv, AcctingsTyped, AcctingsCurrent
  <2>3. IsEdge(tgt)
    BY <1>1, <1>2, <2>2 DEF Edges
  <2>4. CASE from = NoClock
    <3>1. acct = DefaultArrivalDelays(tgt)
      BY <2>2, <2>4 DEF AccountingOf
    <3>2. FirstEdgeRight(acct, tgt)
      BY <2>1, <2>3, <3>1, DefaultArrivalRight
    <3>3. QED
      BY <2>4, <3>2
  <2>5. CASE from # NoClock
    <3>1. acct = Accounting(src, tgt)
      BY <2>2, <2>5 DEF AccountingOf
    <3>2. IsEdge(src)
      BY <1>1, <1>2, <2>2, <2>5 DEF Edges
    <3>3. tgt.period > 0
      BY <2>1 DEF Running
    <3>4. CASE src.period = 0
      <4>1. acct = DefaultArrivalDelays(tgt)
        BY <3>1, <3>3, <3>4 DEF Accounting
      <4>2. FirstEdgeRight(acct, tgt)
        BY <2>1, <2>3, <4>1, DefaultArrivalRight
      <4>3. QED
        BY <3>4, <4>2
    <3>5. CASE src.period # 0 /\ Running(src) /\ ~(AtEnd(src) /\ AtEnd(tgt))
      <4>1. acct = FindDelays(src, tgt)
        BY <3>1, <3>3, <3>5 DEF Accounting, Running
      <4>2. ~MaxCyclesExceeded(src, tgt)
        BY <2>1, <4>1 DEF FindDelays
      <4>3. Related(src, tgt)
        BY <2>1, <2>3, <3>2, <3>5 DEF Related
      <4>4. AcctingRight(acct, src, tgt)
        BY <4>1, <4>2, <4>3, FindDelaysRight
      <4>5. QED
        BY <2>5, <3>5, <4>4
    <3>6. QED
      BY <2>5, <3>4, <3>5
  <2>6. QED
    BY <2>4, <2>5
<1>3. QED
  BY <1>2, ClocksInvariant, PTL

=============================================================================
