------------------------------- MODULE Clocks -------------------------------
(***************************************************************************)
(* The clocks of a design (src/sdc/Clock.cc, Sdc::makeClock and its        *)
(* neighbours in src/sdc/Sdc.cc): their definition and removal, the        *)
(* waveforms generated clocks derive from their masters                    *)
(* (Sta::updateGeneratedClks, Genclks::ensureMaster) and the cycle         *)
(* accountings kept between their edges until a definition clears them.    *)
(*                                                                         *)
(* A clock is defined by one command, which may take pins from other       *)
(* clocks and remove those left without any.  The waveforms of generated   *)
(* clocks are repaired by the next search, before it asks for cycle        *)
(* accountings.  What a removal does to exceptions, delays and             *)
(* uncertainties is left out (Exceptions models the first).                *)
(***************************************************************************)
EXTENDS CycleAccting, Sequences

CONSTANTS Names,         \* clock names
          Pins,          \* pins clocks are defined on
          Upstream,      \* of a pin, the pins its fanin reaches
          ClockArgs,     \* arguments of makeClock
          GeneratedArgs, \* arguments of makeGeneratedClock
          Cost(_),       \* cost of a command, to bound what is run together
          Budget,        \* bound of the sum of the costs
          MaxAcctings,   \* bound of the accountings kept at once
          NoClock,       \* no master
          Freed,         \* a master whose own definition deleted it
          FreedWaves     \* what may be read in place of the waveform of Freed

(* How a clock is generated: -divide_by and -multiply_by exclude each       *)
(* other, and without either there are three edges, counted from one, in   *)
(* any order (create_generated_clock in tcl/Sdc.tcl).                      *)
IsWay(how) ==
  /\ how.divide \in Nat /\ how.multiply \in Nat /\ how.duty \in 0 .. 100
  /\ how.divide = 0 \/ how.multiply = 0
  /\ how.divide + how.multiply = 0 =>
       /\ DOMAIN how.edges = 1 .. 3
       /\ \A edge \in 1 .. 3 : how.edges[edge] \in Nat \ {0}

(* The period of a clock may be zero, its edges may be at any time.         *)
ASSUME ClockConstants ==
  /\ \A pin \in Pins : Upstream[pin] \subseteq Pins
  /\ \A args \in ClockArgs :
       /\ args.name \in Names /\ args.pins \subseteq Pins
       /\ args.period \in Nat /\ args.rise \in Int /\ args.fall \in Int
       /\ Cost(args) \in Nat
  /\ \A args \in GeneratedArgs :
       /\ args.name \in Names /\ args.pins \subseteq Pins
       /\ args.source \in Pins
       /\ args.master \in Names \cup {NoClock}
       /\ IsWay(args.how)
       /\ Cost(args) \in Nat
  /\ \A clk \in Names : Cost(clk) \in Nat
  /\ NoClock \notin Names /\ Freed \notin Names \cup {NoClock}
  /\ FreedWaves \subseteq [period : Int, waveform : [{"rise", "fall"} -> Int]]
  /\ Budget \in Nat /\ MaxAcctings \in Nat

VARIABLES clocks,         \* the clocks there are, by name
          acctings,       \* the accountings kept, by source and target edge
          updateGenclks,  \* Sta::update_genclks_
          updating,       \* updateGeneratedClks is running
          spent           \* the cost of the commands so far

vars == <<clocks, acctings, updateGenclks, updating, spent>>

RiseFall == {"rise", "fall"}
Opposite(rf) == IF rf = "rise" THEN "fall" ELSE "rise"

Clks == DOMAIN clocks

Edges == Clks \X RiseFall
Edge(edge) ==
  LET clk == clocks[edge[1]]
  IN [time |-> clk.waveform[edge[2]], opposite |-> clk.waveform[Opposite(edge[2])],
      period |-> clk.period]

-----------------------------------------------------------------------------
(* Clock::generate.  A waveform is the time of the rise and of the fall.   *)

Waveform(rise, fall) == [rise |-> rise, fall |-> fall]

(* (i & (i - 1)) == 0: the divisors of a power of two are even, but for one. *)
IsPowerOfTwo(number) ==
  \A divisor \in 2 .. number : number % divisor = 0 => divisor % 2 = 0

(* generateScaledClk, by num / den                                         *)
Scaled(master, how, num, den) ==
  LET period == (master.period * num) \div den
      rise   == (master.waveform.rise * num) \div den
  IN [period |-> period,
      waveform |-> IF how.duty # 0
                   THEN Waveform(rise, rise + (period * how.duty) \div 100)
                   ELSE Waveform(rise, (master.waveform.fall * num) \div den)]

(* generateEdgesClk: the edges of the master are counted from one, two in  *)
(* each of its cycles.                                                     *)
FromEdges(master, how) ==
  LET EdgeTime(index) ==
        master.waveform[IF index % 2 = 1 THEN "rise" ELSE "fall"]
          + ((index - 1) \div 2) * master.period
      rise == EdgeTime(how.edges[1])
  IN [period |-> EdgeTime(how.edges[3]) - rise,
      waveform |-> Waveform(rise, EdgeTime(how.edges[2]))]

Derived(master, how) ==
  IF how.divide = 1
  THEN [period |-> master.period, waveform |-> master.waveform]
  ELSE IF how.divide > 1 /\ IsPowerOfTwo(how.divide)
  THEN LET period == master.period * how.divide
       IN [period |-> period,
           waveform |-> Waveform(master.waveform.rise,
                                 master.waveform.rise + period \div 2)]
  ELSE IF how.divide > 1 THEN Scaled(master, how, how.divide, 1)
  ELSE IF how.multiply >= 1 THEN Scaled(master, how, 1, how.multiply)
  ELSE FromEdges(master, how)

Inverted(clk) ==
  LET offset == IF clk.waveform.rise >= clk.period THEN clk.period ELSE 0
  IN [clk EXCEPT !.waveform = Waveform(@.fall - offset,
                                       @.rise - offset + clk.period)]

Generated(master, how) ==
  LET derived == Derived(master, how)
  IN IF how.invert THEN Inverted(derived) ELSE derived

-----------------------------------------------------------------------------
(* The commands                                                            *)

NotGenerated == [divide |-> 0, multiply |-> 0, duty |-> 0, edges |-> <<>>, invert |-> FALSE]

(* A clock before its first waveform                                       *)
FreshClock ==
  [pins |-> {}, period |-> 0, waveform |-> Waveform(0, 0), valid |-> FALSE,
   generated |-> FALSE, source |-> NoClock, master |-> NoClock, how |-> NotGenerated]

With(all, key, entry) ==
  [other \in DOMAIN all \cup {key} |-> IF other = key THEN entry ELSE all[other]]

ClocksOn(pins) == {clk \in Clks : clocks[clk].pins \cap pins # {}}

(* A mutant: the clocks derived from a removed clock keep it as master.     *)
WithoutKept(clks, all) == [clk \in DOMAIN all \ clks |-> all[clk]]

(* removeClock: whose master it was has none                               *)
Without(clks, all) ==
  [clk \in DOMAIN all \ clks |->
     IF all[clk].generated /\ all[clk].master \in clks
     THEN [all[clk] EXCEPT !.master = NoClock, !.valid = FALSE]
     ELSE all[clk]]

(* deletePinClocks: the clocks on the pins leave them and, but for the one  *)
(* being defined, are removed when they have no other                      *)
PinsTaken(name, pins) ==
  LET left == [clk \in Clks |-> [clocks[clk] EXCEPT !.pins = @ \ pins]]
      gone == {clk \in ClocksOn(pins) \ {name} : left[clk].pins = {}}
  IN Without(gone, left)

(* The clocks when a definition begins                                     *)
Taken(args) == IF args.add THEN clocks ELSE PinsTaken(args.name, args.pins)

Defined(all, name) == IF name \in DOMAIN all THEN all[name] ELSE FreshClock

(* A mutant: a clock that has a waveform keeps it.                          *)
KeepGeneratedClks(all) == all

InvalidateGeneratedClks(all) ==
  [clk \in DOMAIN all |-> IF all[clk].generated
                          THEN [all[clk] EXCEPT !.valid = FALSE] ELSE all[clk]]

(* A clock that is made may be given the memory of one that was deleted: it *)
(* is then the master of clocks that kept the deleted one.                 *)
Reused(all, name, clks) ==
  [clk \in DOMAIN all |-> IF clk \in clks
                          THEN [all[clk] EXCEPT !.master = name] ELSE all[clk]]

KeptFreed(all) == {clk \in DOMAIN all : all[clk].generated /\ all[clk].master = Freed}

(* A mutant: accountings survive the definition of a clock.                 *)
DefineKept(all, name, clk) ==
  /\ clocks' = InvalidateGeneratedClks(With(all, name, clk))
  /\ UNCHANGED acctings
  /\ updateGenclks' = TRUE

Define(all, name, clk) ==
  LET now == With(all, name, clk)
  IN /\ \E clks \in SUBSET KeptFreed(now) :
          /\ name \in DOMAIN all => clks = {}
          /\ clocks' = InvalidateGeneratedClks(Reused(now, name, clks))
     /\ acctings' = <<>>
     /\ updateGenclks' = TRUE

Command(args) ==
  /\ ~updating
  /\ spent + Cost(args) <= Budget
  /\ spent' = spent + Cost(args)

MakeClock(args) ==
  /\ Command(args)
  /\ LET all == Taken(args)
     IN Define(all, args.name,
               [Defined(all, args.name) EXCEPT
                  !.generated = FALSE, !.pins = args.pins, !.period = args.period,
                  !.waveform = Waveform(args.rise, args.fall), !.valid = TRUE])
  /\ UNCHANGED updating

(* The master is found by its name before the definition takes its pins;    *)
(* when that removes the master, the new clock keeps the deleted one.      *)
MakeGeneratedClock(args) ==
  /\ Command(args)
  /\ args.master \in Clks \cup {NoClock}
  /\ LET all == Taken(args)
         master == IF args.master \in DOMAIN all \cup {NoClock} THEN args.master ELSE Freed
     IN Define(all, args.name,
               [Defined(all, args.name) EXCEPT
                  !.generated = TRUE, !.pins = args.pins, !.source = args.source,
                  !.master = master, !.valid = FALSE, !.how = args.how])
  /\ UNCHANGED updating

RemoveClock(clk) ==
  /\ Command(clk)
  /\ clocks' = Without({clk}, clocks)
  /\ acctings' = <<>>
  /\ UNCHANGED <<updateGenclks, updating>>

-----------------------------------------------------------------------------
(* The search                                                              *)

(* ensureMaster: another clock on the source pin, else the first made of    *)
(* those on a pin of its fanin, when that is another.                      *)
Masters(clk) ==
  IF clocks[clk].master # NoClock THEN {clocks[clk].master} \cap Clks
  ELSE LET source == clocks[clk].source
           atSource == ClocksOn({source}) \ {clk}
       IN IF atSource # {} THEN atSource
          ELSE ClocksOn(Upstream[source]) \ {clk}

(* The clock may itself be the first on every pin of the fanin that has     *)
(* clocks, and no other be found.                                          *)
MayFindNone(clk) ==
  LET source == clocks[clk].source
  IN /\ clocks[clk].master = NoClock
     /\ ClocksOn({source}) \subseteq {clk}
     /\ \A pin \in Upstream[source] : ClocksOn({pin}) # {} => clk \in ClocksOn({pin})

StartUpdate ==
  /\ ~updating
  /\ updateGenclks
  /\ updating' = TRUE
  /\ UNCHANGED <<clocks, acctings, updateGenclks, spent>>

(* The clocks the loop of updateGeneratedClks can still change             *)
Outdated ==
  {clk \in Clks : /\ clocks[clk].generated /\ ~clocks[clk].valid
                  /\ \E master \in Masters(clk) :
                       \/ clocks[clk].master = NoClock
                       \/ clocks[master].valid}

(* A mutant: the waveform is not noted as up to date.                       *)
UpdateClockUnnoted(clk) ==
  /\ updating
  /\ clk \in Outdated
  /\ \E master \in Masters(clk) :
       clocks' = [clocks EXCEPT ![clk].master = master,
                    ![clk].period = Generated(clocks[master], clocks[clk].how).period]
  /\ UNCHANGED <<acctings, updateGenclks, updating, spent>>

UpdateClock(clk) ==
  /\ updating
  /\ clk \in Outdated
  /\ \E master \in Masters(clk) :
       LET owned == [clocks[clk] EXCEPT !.master = master]
           wave  == Generated(clocks[master], clocks[clk].how)
       IN clocks' = [clocks EXCEPT ![clk] =
                       IF clocks[master].valid
                       THEN [owned EXCEPT !.period = wave.period,
                               !.waveform = wave.waveform, !.valid = TRUE]
                       ELSE owned]
  /\ UNCHANGED <<acctings, updateGenclks, updating, spent>>

(* A master that was deleted is read: what is there counts as a valid       *)
(* waveform, whichever it is, or the clock is passed over.                 *)
UpdateFromFreed(clk) ==
  /\ updating
  /\ clocks[clk].generated /\ ~clocks[clk].valid /\ clocks[clk].master = Freed
  /\ \E read \in FreedWaves :
       LET wave == Generated(read, clocks[clk].how)
       IN clocks' = [clocks EXCEPT ![clk].period = wave.period,
                       ![clk].waveform = wave.waveform, ![clk].valid = TRUE]
  /\ UNCHANGED <<acctings, updateGenclks, updating, spent>>

EndUpdate ==
  /\ updating
  /\ \A clk \in Outdated : MayFindNone(clk)
  /\ updating' = FALSE
  /\ updateGenclks' = FALSE
  /\ UNCHANGED <<clocks, acctings, spent>>

(* CycleAcctings::cycleAccting, asked for by the search and the path ends:  *)
(* found on demand and kept.  Data that no clock launches departs at the    *)
(* edge of defaultArrivalClockEdge.                                        *)
AccountingOf(src, tgt) ==
  IF src = NoClock THEN DefaultArrivalDelays(Edge(tgt))
  ELSE Accounting(Edge(src), Edge(tgt))

CycleAccting(src, tgt) ==
  /\ ~updating
  /\ ~updateGenclks
  /\ <<src, tgt>> \notin DOMAIN acctings
  /\ Cardinality(DOMAIN acctings) < MaxAcctings
  /\ acctings' = With(acctings, <<src, tgt>>, AccountingOf(src, tgt))
  /\ UNCHANGED <<clocks, updateGenclks, updating, spent>>

(* Genclks::checkMaster, before insertion delays are found: a clock that    *)
(* lost its master since the update finds another, and keeps its waveform. *)
CheckMaster(clk) ==
  /\ ~updating
  /\ ~updateGenclks
  /\ clocks[clk].generated /\ clocks[clk].master = NoClock
  /\ \E master \in Masters(clk) :
       clocks' = [clocks EXCEPT ![clk].master = master, ![clk].valid = FALSE]
  /\ UNCHANGED <<acctings, updateGenclks, updating, spent>>

-----------------------------------------------------------------------------
Init ==
  /\ clocks = <<>>
  /\ acctings = <<>>
  /\ updateGenclks = FALSE
  /\ updating = FALSE
  /\ spent = 0

UpdateGeneratedClks ==
  \/ \E clk \in Clks : UpdateClock(clk) \/ UpdateFromFreed(clk)
  \/ EndUpdate

Next ==
  \/ \E args \in ClockArgs : MakeClock(args)
  \/ \E args \in GeneratedArgs : MakeGeneratedClock(args)
  \/ \E clk \in Clks : RemoveClock(clk)
  \/ StartUpdate
  \/ UpdateGeneratedClks
  \/ \E clk \in Clks : CheckMaster(clk)
  \/ \E src \in Edges \cup {NoClock}, tgt \in Edges : CycleAccting(src, tgt)

(* updateGeneratedClks is one call: once started it is run to its end.     *)
Spec == Init /\ [][Next]_vars /\ WF_vars(UpdateGeneratedClks)

-----------------------------------------------------------------------------
ClockTypes ==
  [pins : SUBSET Pins, period : Int, waveform : [RiseFall -> Int], valid : BOOLEAN,
   generated : BOOLEAN, source : Pins \cup {NoClock},
   master : Names \cup {NoClock, Freed},
   how : {NotGenerated} \cup {args.how : args \in GeneratedArgs}]

(* Type invariant.  A removal leaves no generated clock with the removed    *)
(* one as master, but for the definition of a generated clock that removes *)
(* its own (Freed), and accountings are kept between edges there are.  The *)
(* period that three edges in any order give may be any.                   *)
TypeOK ==
  /\ Clks \subseteq Names
  /\ \A clk \in Clks :
       /\ clocks[clk] \in ClockTypes
       /\ clocks[clk].generated => clocks[clk].master \in Clks \cup {NoClock, Freed}
  /\ DOMAIN acctings \subseteq (Edges \cup {NoClock}) \X Edges
  /\ updateGenclks \in BOOLEAN
  /\ updating \in BOOLEAN
  /\ spent \in 0 .. Budget

(* The times from any edge of one clock to any of another, over enough     *)
(* cycles for every difference that repeats to have been met.              *)
Gaps(from, to) ==
  {(to.time + cycle * to.period) - (from.time + other * from.period) :
     cycle \in -from.period .. from.period, other \in -to.period .. to.period}

Ahead(from, to) == Min({gap \in Gaps(from, to) : gap > 0})
Behind(from, to) == Min({-gap : gap \in {gap \in Gaps(from, to) : gap <= 0}})

Flipped(edge) == [edge EXCEPT !.time = edge.opposite, !.opposite = edge.time]

InPeriod(edge) ==
  edge.time \in 0 .. edge.period /\ edge.opposite \in 0 .. edge.period

AtEnd(edge) == edge.time = edge.period

(* What an accounting says of its pair of cycles                           *)
Consistent(entry, src, tgt) ==
  entry.required = Time(tgt, entry.tgt) - Start(src, entry.src)

SetupRight(acct, src, tgt) ==
  /\ acct.setup.delay = Ahead(src, tgt)
  /\ Time(tgt, acct.setup.tgt) - Time(src, acct.setup.src) = acct.setup.delay
  /\ Consistent(acct.setup, src, tgt)

HoldRight(acct, src, tgt) ==
  /\ acct.hold.delay = Behind(src, tgt)
  /\ Time(src, acct.hold.src) - Time(tgt, acct.hold.tgt) = acct.hold.delay
  /\ Consistent(acct.hold, src, tgt)

LatchRight(acct, src, tgt) ==
  LET entry  == acct.latchSetup
      closes == Time(src, entry.src) + entry.delay
  IN /\ entry.delay = Ahead(src, Flipped(tgt))
     /\ closes - Time(tgt, entry.tgt) \in 0 .. tgt.period
     /\ Consistent(entry, src, tgt)

DataCheckRight(acct, src, tgt) ==
  LET setup == acct.dataCheckSetup
      hold  == acct.dataCheckHold
  IN /\ setup.delay = Behind(src, tgt)
     /\ setup.tgt = hold.tgt /\ hold.delay - setup.delay = src.period
     /\ Consistent(setup, src, tgt) /\ Consistent(hold, src, tgt)

GatedHoldRight(acct, src, tgt) ==
  /\ acct.gatedClockHold.delay = Behind(src, Flipped(tgt)) + tgt.opposite - tgt.time
  /\ Consistent(acct.gatedClockHold, src, tgt)

FirstEdgeRight(acct, tgt) ==
  acct.setup.delay = IF tgt.time = 0 THEN tgt.period ELSE tgt.time

AcctingRight(acct, src, tgt) ==
  /\ SetupRight(acct, src, tgt)
  /\ HoldRight(acct, src, tgt)
  /\ LatchRight(acct, src, tgt)
  /\ DataCheckRight(acct, src, tgt)
  /\ GatedHoldRight(acct, src, tgt)

Running(edge) == edge.period > 0 /\ InPeriod(edge)

(* The accountings kept are those of the waveforms there are now, and      *)
(* compare the closest edges the two clocks ever have, for every kind of   *)
(* check: no command or update leaves one behind, and stopping at the first *)
(* cycles that start together misses no closer pair (Sdc::cycleAccting).    *)
(* Stated of edges within a period that are not both at its end, where the *)
(* search stops too early.                                                 *)
AcctingsRight ==
  \A edges \in DOMAIN acctings :
    LET acct == acctings[edges]
        from == edges[1]
        tgt  == Edge(edges[2])
    IN Running(tgt) /\ ~acct.exceeded =>
         IF from = NoClock \/ Edge(from).period = 0
         THEN FirstEdgeRight(acct, tgt)
         ELSE \/ ~Running(Edge(from))
              \/ AtEnd(Edge(from)) /\ AtEnd(tgt)
              \/ AcctingRight(acct, Edge(from), tgt)

OnEdge(time, clk, rf) ==
  clk.period > 0 => (time - clk.waveform[rf]) % clk.period = 0

(* A generated clock whose waveform counts as up to date follows the clock  *)
(* that is its master now, through chains of generated clocks and any       *)
(* redefinition: its period is the master's, scaled (to a whole unit of     *)
(* time), and a clock divided by a power of two changes at edges of its    *)
(* master, at the opposite ones when inverted (Sta::updateGeneratedClks,    *)
(* Clock::generate).  Not stated of one whose own definition deleted its    *)
(* master, which follows whatever is read there.                           *)
WaveformsFollow ==
  \A clk \in Clks :
    LET own    == clocks[clk]
        master == clocks[own.master]
        risesWith(rf) == IF own.how.invert THEN Opposite(rf) ELSE rf
    IN own.generated /\ own.valid /\ own.master # Freed =>
         /\ own.how.divide > 0 => own.period = master.period * own.how.divide
         /\ own.how.multiply > 0 =>
              master.period - own.period * own.how.multiply \in 0 .. own.how.multiply - 1
         /\ own.how.divide = 1 =>
              \A rf \in RiseFall : OnEdge(own.waveform[rf], master, risesWith(rf))
         /\ own.how.divide > 1 /\ IsPowerOfTwo(own.how.divide) =>
              \A rf \in RiseFall : OnEdge(own.waveform[rf], master, "rise")

(* The clocks whose masters lead to one that is not generated              *)
Rooted ==
  LET reached[steps \in Nat] ==
        IF steps = 0 THEN {clk \in Clks : ~clocks[clk].generated}
        ELSE reached[steps - 1]
               \cup {clk \in Clks : clocks[clk].master \in reached[steps - 1]}
  IN reached[Cardinality(Names)]

(* updateGeneratedClks ends, whatever the masters of the generated clocks,  *)
(* also in a ring, and then every clock derived from one that has a        *)
(* waveform has one too.                                                   *)
UpdateCompletes ==
  updating ~> (~updating /\ \A clk \in Rooted : clocks[clk].valid)
=============================================================================
