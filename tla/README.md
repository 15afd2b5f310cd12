# Verification of the timing engine

TLA+ models of the parts of the static timing engine that keep state and
repair it while a design is edited, TLC configurations that check them on
small instances, and TLAPS proofs about the two parts that run threads, the
levels they rely on, delays, slacks, exceptions, clocks, the netlist and the
constants in it.
Paths below are relative to the repository; every claim about the code was
read from its source, and the names of definitions are those of the code.

    tlc -workers 2 -config BfsForward.cfg MCBfsIterator
    tlapm DispatchQueueProofs.tla

Contents: [the system](#the-system) · [the modules](#the-modules) ·
[the runs](#the-runs) · [fairness](#fairness) · [the proofs](#the-proofs) ·
[what disagrees](#what-disagrees) · [not modelled](#not-modelled) ·
[what could come next](#what-could-come-next)

## The system

The engine answers timing queries (`report_checks`, `worst_slack`, ...) about a
netlist that is edited in between. It is driven by one thread, that of the Tcl
interpreter; commands end in the functions of `Sta` (search/Sta.cc), which owns
everything else. What makes it hard is that nothing is computed eagerly: an
edit *invalidates*, a query *repairs*, level by level and with several threads,
only what the edits since the last query have touched. Every component keeps
sets of pointers to things that later edits delete. Whether the answer after
ten edits and four queries is the one a fresh analysis would give is exactly
what tests (one script, one golden output) hardly reach.

| Component | State it keeps | Operations | Correct when |
| --- | --- | --- | --- |
| Thread pool (util/DispatchQueue) | queue of closures, counter, quit flag, threads | dispatch, finishTasks, setThreadCount, destruction | every closure runs once; finishTasks is a barrier; calls return |
| Levelized search (search/Bfs) | one list per level, a flag per vertex, first and last level | enqueue, remove, clear, visit, visitParallel | a vertex is visited once, after what it is computed from, and nothing is forgotten or dangling |
| Levelization (search/Levelize) | level of a vertex, roots, disabled loop edges, what to repair | ensureLevelized, invalid, deleteVertexBefore, deleteEdgeBefore | levels ascend along edges after any edits, only loops are broken |
| Arrival and required search (search/Search) | arrivals, requireds, invalid sets, tags, endpoints, total slack | findArrivals, findRequireds, arrivalInvalid, ... | answers equal those of a search from scratch |
| Worst slack (search/WorstSlack) | worst vertex, a queue of the worst endpoints, threshold | worstSlack, updateWorstSlack | the least slack is returned |
| Delay calculation (dcalc/GraphDelayCalc1) | delays, slews, invalid set, queue, checks to do | findDelays, delayInvalid, delaysInvalid | incremental delays equal those from scratch |
| Constants (search/Sim) | logic value of a pin, queue of instances, invalid pins | ensureConstantsPropagated, edits, case analysis | values and disabled arcs are those of the netlist |
| Exceptions (sdc/Sdc, sdc/ExceptionPath) | exceptions, merge hash, maps from first points | make*, resetPath, deletion of clocks | what is recorded means what was asked, and is found |
| Clocks (sdc/Clock, sdc/CycleAccting, search/Genclks) | waveforms, pins, masters, accountings by edge | makeClock, makeGeneratedClock, removeClock, updateGeneratedClks | waveforms follow masters, accountings are current |
| Netlist (network/ConcreteNetwork, Network) | lists of pins and terminals, drivers kept by net | connect, disconnect, delete*, make*, mergeInto, drivers | lists agree, kept drivers are current |
| Others | see [not modelled](#not-modelled) | | |

How they interact. `Sta` is the observer of everything: a netlist edit calls
`Sta::connectPinAfter` and its neighbours, which tell `Levelize` (invalid
levels), `GraphDelayCalc1` (invalid delays), `Search` (invalid arrivals and
requireds), `Sim` (invalid constants) and the parasitics. A query runs
`Sta::searchPreamble`: constants, levels, generated clocks, delays, arrivals, in
that order, each up to the level the query needs. Levels tell the queue of
`Search`, through an observer, when a queued vertex moves. The delay calculator
and both directions of the search own an iterator of `Bfs` each; iterators share
the thread pool.

The hard behaviours, each with the line where it bites, are the `hazards` of
PROJECT.json. In short: threads of one level that enqueue the same fanout;
entries whose level changes or whose vertex is deleted while they are queued;
searches that stop at a level and leave a populated queue to later edits;
levels, constants and delays that are repaired and never recomputed; totals
that are incremented and decremented by many callers; exceptions that split,
merge and delete each other, in loops over the set they change; waveforms
derived from clocks that are redefined.

## The modules

A component is one module; its variables are the members of the class (or one
record that stands for the object), an action is one call of the source or one
step of it where other code can run in between, and `map` in PROJECT.json names
the lines of every definition. A definition whose comment or name says how it
deviates, and which no action uses (`PopDecrements`, `DefineKept`, ...), is a
plausible bug of the definition after it: put in its place, it must break the
property PROJECT.json names with it, which shows that the property can fail.

```
TaskPool  <=refines=  DispatchQueue        (MCDispatchQueue, DispatchQueueProofs)
   |  promises used by
BfsIterator                                (MCBfsIterator, BfsIteratorProofs)
   ^  levels                    ^ queue written again at level granularity
Levelize                     GraphDelayCalc
  (MCLevelize, LevelizeProofs)  (MCGraphDelayCalc, GraphDelayCalcProofs)
Slacks (MCSlacks, SlacksProofs)
Netlist <- NetworkEdits <- Sim (MCNetworkEdits, MCSim, NetlistProofs)
CycleAccting <- Clocks (MCClocks, ClocksProofs)
Exceptions (MCExceptions, ExceptionsProofs)
```

**TaskPool, DispatchQueue** (util/DispatchQueue.cc). `TaskPool` is what the rest
of the engine relies on: closures submitted are executed once each, in any
order, and `Return` happens when all of them are. `DispatchQueue` is the code:
a critical section is one action, as `q_` and `quit_` are only touched with the
lock held; `notify_all`, which is called after the unlock, the test of the
counter in `finishTasks` and its decrement are actions of their own. The client
is the command thread. `Pool!Spec` is checked and proved of it.

**BfsIterator** (search/Bfs.cc, with the callers in search/Search.cc). `queue`,
`inQueue`, `first`, `last` are `queue_`, `bfsInQueue`, `first_level_`,
`last_level_`; `VisitLevel`, `LevelFinished` and `Return` are one call of
`visitParallel`; `Take`, `Lookup`, `Insert`, `Write`, `Leave` are one thread of
it, so that the unlocked test in `enqueue` and the write of the arrivals after the
enqueues are steps others can come between. Values are abstracted to `stale`:
computed from something that has been written since. `exist` is
`arrivals_exist_` or `requireds_exist_`, on which depends what the owner
remembers and removes; `Clear` is `arrivalsInvalid`, `GiveUp` `requiredsInvalid`.
`Find` begins a search with the seeding: `SeedStart` is the part of `seedArrival`
(and of `seedRequired`) that writes the value of a clock pin, input, root or
endpoint (`Starts`) at once and enqueues its neighbours one by one
(`SeedAdjacent`), or does not; `Seed` enqueues any other invalid vertex.
`forgotten` is history: the stale vertices that the code loses in `SeedStart`, by
`GiveUp` and between it and the next search ([below](#what-disagrees)).
`Reseeds` says which fanout a reference pin of an input delay seeds, `Backward`
the direction. Endpoints with a fanout of their own are left out of `Starts`.

**Levelize** (search/Levelize.cc). The recursion of `visit` is a stack and each
edge a step, so that the order in which edges are met is explored. Actions are
the phases of `levelize` and `relevelize`, and the handlers of Sta.cc that
invalidate levels: `MakeInstance`, `ConnectPin`, `DisconnectPin`, `DeletePin`,
`DeleteInstance`, `ReplaceCell`, `Constrain`, `SimEdgeChange`.

**Slacks** (search/Search.cc, search/WorstSlack.cc). `search` and `wns` are the
two objects. The queries `TotalNegativeSlack` and `WorstSlack` take one endpoint
per step; the edits are every handler that calls `arrivalInvalid`,
`requiredInvalid`, `endpointInvalid` or `tnsInvalid`. What the searches find is
the environment's choice.

**Exceptions** (sdc/Sdc.cc, sdc/ExceptionPath.cc). An exception is a record with
its three kinds of points; `paths`, `index` and `mergeHash` are the set, the
first point maps and the merge hash. `addException` calls itself through
`deleteMatchingExceptions`, so `calls` is a stack; loops over pointer sets take
their elements in any order. `meaning` is the history of what was asked: a set
of elementary paths, each with what the commands so far want of it.

**Netlist, NetworkEdits, Sim** (network/ConcreteNetwork.cc, network/Network.cc,
search/Sim.cc). The netlist is a record and an edit a function of it, which
`NetworkEdits` makes an action. `Sim` keeps logic values, the queue, and the four
sets of what edits invalidate; `EnsureConstantsPropagated` begins a propagation,
`EvalNext` takes one instance from the queue, `AnnotateGraphEdges` ends it. A
call of `Sta` that edits the netlist is the action of `NetworkEdits` and what it
tells the simulator (`StaConnectPin`, `StaDisconnectPin`, `StaDeleteInstance`,
`StaMakeInstance`); the calls that are no edits of it are `Commands`
(`SetCaseAnalysis`, `RemoveCaseAnalysis`, `StaReplaceCell`).

**CycleAccting, Clocks** (sdc/CycleAccting.cc, sdc/Clock.cc, parts of sdc/Sdc.cc,
search/Genclks.cc and search/Sta.cc). `CycleAccting` is the pure algorithm: for
two edges, which cycles a check of each kind compares. `Clocks` adds definition,
redefinition and removal, the pins clocks take from each other, the waveforms
derived from masters, and the accountings kept in between. `Freed` is the master
of a generated clock whose own definition deleted it (`MakeGeneratedClock`): what
is read there is any of `FreedWaves` (`UpdateFromFreed`), or the next clock that
is made, if it gets the memory (`Reused`).

**GraphDelayCalc** (dcalc/GraphDelayCalc1.cc, parts of search/Sta.cc). `calc` is
the calculator with its queue, `delays` what it wrote into the graph, `design`
what the delays depend on. `FindDelays` relevelizes and seeds, `NextLevel` takes
a level, `Visit` a vertex of it, `Found` ends the call with the checks. For each
arc the model keeps what its delay was computed from; the delay is the number
`ArcDelay` makes of that, a constant of the module. Whether a driver counts as
changed is decided on the numbers, as in `findArcDelay` (`DelayChanged`): a delay
that was negative never changes, and nor does one that comes out the same for
another slew. `untold` is history, what changed while the calculator was not told
or did not go on ([below](#what-disagrees)): gates that lost a load; queued
vertices that were given another level; loads with a new slew behind a driver
that did not count as changed; gates beyond a first search that stopped at a
lower level (`Beyond`); floating loads of checks with an annotated slew that are
given a driver. `Asked` are the vertices up to the level of the last call but for
those downstream of `untold`.

## The runs

Times are for two workers on a small machine.

| Run | Instance and bounds | States, time | Properties |
| --- | --- | --- | --- |
| pool | 3 closures, up to 3 threads, 1 resize | 5,583, 3 s | TypeOK, BatchDone, FirstBatchesReturn, TerminationEnds, PoolSpec |
| pool_resize | 2 closures, 2 threads, 1 resize | violation | BatchReturns |
| bfs_forward | 4 vertices with an input, a reconvergence and a reference pin, 2 levelizations, 2 threads | 1,236,866, 45 s | TypeOK, FlagMeansQueued, NoDanglingEntry, SourcesSettled, VisitedOnce, ChangesPropagate |
| bfs_backward | 2 endpoints and their driver, 2 levelizations, 2 threads, levels downwards | 218,181, 35 s | Drained, CallReturns |
| levelize_edits | port, two input gate, inverter; every circuit; 2 edits | 1,019,225, 70 s | TypeOK, LevelsOrdered, OnlyLoopsBroken, RootsComplete |
| levelize_latches | latch, buffer that can feed itself; 1 edit; logic values | 424,058, 60 s | LatchLevelsDiffer, LevelizationEnds |
| slacks | 3 endpoints on 2 levels, 2 arrivals, 2 limits; 2 edits | 1,046,138, 60 s | TypeOK, TnsCurrent, WorstIsLeast, RequiredsKnown |
| exceptions | 4 pins, a clock, a net, about 30 commands; 3 in a row | 159,183, 40 s | MeaningKept, FirstPointsIndexed, InternalPointsKept, CommandEnds |
| netlist | 3 inverters, a block with one more, 5 nets; 4 edits | 53,832, 16 s | ListsAgree, DriversCurrent |
| sim | tie, gate, inverter, register, case analysis; 4 edits | 199,300, 115 s | TypeOK, ConstantsCurrent, ArcsDisabled, PropagationEnds |
| clocks | 2 clocks of every waveform in a period up to 5, or 4 commands on 3 clocks | 92,960, 40 s | TypeOK, AcctingsRight, WaveformsFollow, UpdateCompletes |
| delays | port, buffer, gate, register, delays of both signs; 2 edits | 285,993, 130 s | TypeOK, AnswersRight, SearchReturns |

What they show.

*pool*: no closure is lost or run twice and the counter never wraps; when
`finishTasks` returns no thread is inside a closure (`BatchDone`), which is what
lets a level of a search rely on the one before; batches return and joins end in
spite of lost notifications, threads between their test and their sleep, and
spurious wakeups; the code implements `TaskPool`.

*bfs_forward, bfs_backward*: with invalidations, relevelizations, deletions and
partial searches in any order, a flag of the arrival search always means one entry
that will be visited; no entry outlives its vertex; what a visit reads is never
queued or being written by another thread; a vertex is visited once; nothing
stale is lost but what `forgotten` names. A required search that returns has
drained its levels, and every one returns. That no entry outlives its vertex is
not so of the required search ([below](#what-disagrees)).

*levelize_edits, levelize_latches*: after any two edits, levels that were repaired
ascend along every edge that is searched and stay under the maximum, the edges
that are disabled close a loop, what is kept exists, and every root is known;
levelization ends with loops of any kind; a full one separates the data pin of a
latch from its output. `Floating` and the premises of `RootsComplete` and
`LatchLevelsDiffer` say what the code does not promise (pins no net is connected
to, latches met during a relevelization). The last is about latches with one
output and one enable.

*slacks*: at every answer, each endpoint whose required time is settled is counted
with its present slack, the total has not drifted from the table, and the worst
slack is the least although only the worst endpoints are queued. `Unsettled`
names the endpoints for which the code does get it wrong: whose required time is
still to be found, is there without a limit, or is missing with one; and nothing
is said of vertices that are no endpoints any more ([below](#what-disagrees)).

*exceptions*: whatever is split, overridden, merged, expanded and reset, the
recorded exceptions stand for what the commands asked for; the maps find
exactly the exceptions there are; every command ends.

*netlist*, *sim*: lists of pins and terminals agree with the pins; kept drivers are those a search
would find; after incremental propagation every value follows from its
neighbours and the disabled arcs are those constants disable; propagation ends
even when case analysis contradicts a function.

*clocks*: waveforms of generated clocks follow their masters through chains and
redefinitions, but for a master that is `Freed`; the update ends also with a ring
of masters; accountings are those of the present waveforms, and compare the
closest edges, checked against a definition that looks at all pairs, for edges
within their periods and not both at the end (`AtEnd`).

*delays*: searches to any level, before, between and after edits, return what a
calculation from scratch finds at all they were asked for (`Asked`), and return.
`Early` gives delays of both signs and the same delay for different slews, so
that searches do stop where the code is wrong to; what lies downstream of such a
stop is not in `Asked`.

Why the bounds are enough. The failures these properties speak of need two
actors or two edits and a query between them: a thread between another's test
and insert; an entry and a relevelization; an override and a reset. Two or three
threads, a diamond (the least graph with two sources of one vertex), two levels
for a partial search, two edits with queries before, between and after, three
commands on exceptions (four were run once, 5.4 million states, without
finding more) contain those. Each bound is a constant: `MaxThreads`,
`MaxResizes`, `MaxEntries`, `MaxLevel`, `MaxEdits`, `MaxCommands`, `MaxPaths`,
`Budget`, `MaxAcctings`. `SlowTargetCycles` and `FastTargetCycles` are 3 and 4
where the code has 100 and 1000: waveforms of period 5 expand within that. In
the runs that bound edits or commands the system may stop when they are used up,
and so deadlock is not checked there; it is in pool, bfs_*, slacks and delays.

Domain of *exceptions*. Commands have what `CommandsAssumption` lists. In the
run, path delays have one point, nets are in a first `-thru` only, what is
overridden or reset has at most one `-thru`, no reset meets exceptions that
merge crosswise, and ids are chosen so that different sets have different sums:
outside of it the code does other things than asked, listed below.

## Fairness

The properties of the form "a call returns" need the code to go on once called,
and nothing else. The command thread runs one call to its end before it starts
another, hence weak fairness of the steps of a call that is under way
(`Call`, `Ensure`, `Run`, `EvalNext`/`AnnotateGraphEdges`, `Searching`,
`UpdateGeneratedClks`), never of the edits or of the call itself. The threads of
the pool are operating system threads that run when they can: weak fairness for
each, and for the client. `SpuriousWakeup` has none. `notify_all` reaches every
sleeper, so strong fairness is not needed anywhere. In Levelize the fair action
includes `DeletePin`, which is a step of `deleteInstance`, also one call.

## The proofs

What is proved holds for every value of the constants that the `ASSUME`s of the
modules allow: any set of closures, threads and resizes; any graph,
levelization, number of threads, either direction; any circuit, edits and level
space; any gates, nets and checks without loops; any endpoints, times and queue sizes;
any clocks, edges and ratios; any design objects and commands; any pins, nets
and hierarchy; any cells and functions of them. No theorem uses the bounds of a
run. Where the code only keeps a promise in part of that, the part
is a named hypothesis of the theorem.

*DispatchQueue.* `BatchDone` is not inductive: it says nothing of a batch that is
under way. `PoolInv` adds that the counter is the number of closures queued or
in the hands of a thread, that what a thread holds depends on where it stands,
and that dispatched closures are queued, held or executed, in one of the three
only. From `PoolInvariant` follow `TypeCorrect`, `CounterCorrect`,
`BarrierCorrect`, and `PoolImplementsTaskPool`: initial states map to initial
states, and each step to a step of `TaskPool` or to a stutter.

*BfsIterator.* Every theorem assumes `Ordered`: reference pins lie on an earlier
level than what they seed; and `Timely`: no vertex is deleted that
`requiredsInvalid` left in the queue, before the next required search. Of the
arrival search `Timely` asks nothing.
`Levelled`, the order of levels along edges, is assumed of `LevelMaps` and is
what `LevelsAscend` proves of Levelize. `BfsInv` ties flags to entries (`QueueInv`),
says that the levels being visited have moved past everything that was visited
(`VisitInv`, `VisitsInv`), and that the chunks of a level cover it without
overlap. Without the last, two threads could hold one vertex; without the first,
a flag could be stuck. From it: `TypeCorrect`, `FlagCorrect`, `EntriesLive`,
`LevelsEnclose`, `SourcesSettle`, `OneThread`, `OneVisit`, `NothingForgotten`
(but for `forgotten`), `CallDrains`.

*Levelize.* `TypeOK` says that nothing is kept that has been deleted. That is not
inductive: `Sta::deletePinBefore` tells Levelize only of the edges on the side of
the net of a pin, and the edges through the cell go with the vertex.
`LevelizeInv` has what makes it right. Recorded loops are closed (`LoopsClosed`),
so that a loop through a pin has an edge on the side of its net; they are closed
because the active calls form a path and every gray vertex is on it (`Calls`);
and an instance has all of its pins, but for one that is being deleted
(`Whole`). From `LevelizeInvariant` follows `NothingDangles`.

`RootsInv` adds that, unless a full levelization is to come, a vertex without
fanin is among the roots or among those to be repaired (`Pending`):
`RootsKnown` is `RootsComplete`, assuming `~ SimEdits`, as Sim does not tell
Levelize which edges a logic value enables.

`LoopsInv` says that recorded loops and the path of the active calls are made of
enabled edges, and that the recorded ones lead from the target of each disabled
edge back to its source. When an edge to a gray vertex is met, the calls above
that vertex are the way back (`CallsJoined`: of the calls in a set that is closed
under the edges of the path, the innermost is the top). Edits leave recorded
edges alone or forget them all. `LoopsStayBroken` is `OnlyLoopsBroken`, again
assuming `~ SimEdits`.

`OrderInv` says which edges need not ascend at each point of a levelization or
repair: those an active call has still to look at, those out of vertices to be
visited, and those of instances that are not connected (`Ascends`, `Behind`).
The argument is that a level is lowered only where no searched edge leads to, is
raised only by a call that then looks at every edge out of the vertex, and that
an edge that is passed over leads to a level that is high enough or is disabled.
`LevelsAscend` is `LevelsOrdered` under `Plain`: no latches, whose levels
`ensureLatchLevels` raises without the maximum, no `NewArcs`, no `SimEdits`, the
three cases in which the code does not order levels
([below](#what-disagrees)).

*Slacks.* The total is kept by adding and subtracting, the worst slack in a queue
that is cut down and refilled; neither follows from the answers alone. `IInv`
says what holds between the queries and in the middle of one: the record of the
search is of its type and exact except for what it has noted as invalid; an
endpoint that is not in `invalid_tns_` is counted in the table with the slack it
has, is in the queue exactly if that slack is within the threshold, and is not
below the worst; while a query loops, the endpoints it has still to look at are
the exceptions. `TnsStaysCurrent` and `WorstStaysLeast` are `TnsCurrent` and
`WorstIsLeast`, which leave out endpoints that are `Unsettled`, and the first also
vertices that stopped being endpoints; `RequiredsStayKnown` is `RequiredsKnown`,
of finite required times of endpoints with a limit. The total is a fold
over a set. What the folds of the community modules do is proved without
the library's induction theorems, which take an operator: a set of
subsets of a finite set has a least member, so a subset for which a statement
fails would have a least counterexample. `SumSplit` is that a sum is that of a
part and that of the rest; `FoldStays`, which the netlist uses too, is that a
fold stays where each of its steps stays.

*GraphDelayCalc.* `AnswersStayRight` is `AnswersRight`: whatever edits and searches
to whatever levels there were, and whatever function `ArcDelay` is, what the last
search was asked for is what a calculation from scratch would find, except
downstream of `untold`. The queue and the invalid vertices alone do
not say which slews are out of date: a gate may be because of an edit far
before it that no search has reached yet. `DelaysInvariant` says (`SlewsOK`) that
there is a set W of suspected gates with the following (`Traced`). The delays of a
gate, the slew of a load, of a root and the delay of a check are what the slews
just before them say, unless they or the gate before are pending (invalid or
queued), in W or in `untold`; and every gate of W has its reason just before it
(`Upstream`): it or its load is pending, its load is in `untold`, or the gate
before that is in W or in `untold`. No edit adds to W, since an edit makes
pending, or leaves in `untold`, what it makes out of date. The visit of a gate takes
it out of W, and its loads are queued, unless its delays did not count as changed:
then those with another slew are in `untold`. The delicate part is that the code
stops there (GraphDelayCalc1.cc:845). A suspect must not be passed over so, and is
not: in the first search every visit goes on, and a suspect left by a search to a
lower level has no delays yet (`Unfound`, `Deep`), which count as changed from 0;
one that has delays is in `untold` (`Beyond`). Which slews a visit changed is known
since the slew of a gate is always the worst of the arc delays kept for it
(`WorstOK`). The
queue holds a vertex at its level or, when it was relevelized in between, at an
earlier one that still lies before its fanout (`QueueOK`), levels rise along every edge
between searches but for what waits to be relevelized (`LevelsOK`), and what is
queued lies beyond the last answer (`AnswerOK`). Then, when a search ends, a
first suspect up to its level that nothing in `untold` excuses would have no
reason, so that there is none; and by the same argument, the first vertex asked
for with another slew than a calculation from scratch finds would follow from
what is right. First vertices exist as the graph has no loop (`Acyclic`), which
is assumed of the netlist at the start and kept by `Connectable`. That the recursive
functions `Relevelized`, `Downstream` and `FullSlews` are what their definitions
say is proved too (`FaninRecursion`): a largest set of vertices, closed under fanin, on which a
function satisfies the rule is the whole graph. `DelaysTyped` is `TypeOK`: as the fanout lies beyond the level visited, no
entry is lost. The assumptions are `GraphDelayCalcAssumption` (pins of one kind,
finitely many, every output with an arc into it, one driver of a net) and
`AcyclicAssumption`.

*Clocks.* `ClocksInvariant`: clocks are well formed, a generated clock that counts
as up to date follows its master unless that is `Freed`, and while an update is under way only those
it has still to visit do not. From it `ClocksFollow` (`WaveformsFollow`) and
`AcctingsKeptCurrent`: each accounting kept is that of the present waveforms.
`FindDelaysRight` is about one call of `findDelays`, whatever the periods and
edges within them, unless both edges are at the end of their periods (`AtEnd`) or
a loop runs into its limit of cycles (`exceeded`): the lags
between the edges repeat from the first pair of cycles that start together, so
every lag occurs in a target cycle before the stop, and for each target edge the
source edges nearest before and after it are met. With the first theorem,
`AcctingsStayRight` is `AcctingsRight`.

*Exceptions.* `ExceptionsSound` describes what the recorded exceptions and the
stack of calls that split, merge and delete them look like at every step: which
fields the kinds of exception have, that merges keep to one kind because
priorities tell the kinds apart, and that the maps of first points hold what is
recorded (`Indexed`). `FirstPointsStayIndexed` is `FirstPointsIndexed` under
`NetsAlone`: a command without `-from` and with several `-thru` has no nets in
them. The maps record the nets of every thru and forget those of the first
(Sdc.cc:4609, 4913), and excluding an object copies one thru over the others;
without the hypothesis, a false path through a pin and a net followed by a reset
leaves an entry behind. `InternalPointsStayKept` is `InternalPointsKept`, which
also needs `EndsAlone`: a path delay that has an internal pin at its end has no
other points. Resetting one of two path delays to a pin otherwise takes away
what was noted for both.

`MeaningStaysKept` is `MeaningKept`, and that nothing deleted is used, under
`PointsOnly` and `GroupsAlike`. Its invariant, `MeaningInvariant`, relates four
things at every step of a command: what is meant, what is recorded, what the
calls under way still owe (`Owes`: the parts to be added, the pieces broken off,
the exception to be recorded), and what they will have overridden others with
(`Imposes`). All that is meant is recorded or owed; all that is recorded is
meant, or a call will override it with something that is; and what a call owes
is meant, or a call that waits beneath it will override it (`Orderly`). The last
is why pieces may be added back, merged and overridden again before the
exception they were broken off for is recorded. The lemmas under it say of each
operation on exceptions what it does to the single pairs of end points:
`ExcludingExact` (the pieces are all pairs but those of the new exception),
`RedefinedWithin` and `WithinRedefined` (a pair is overridden exactly if the new
exception has its points), `MatchingComplete` (the maps of first points find
whatever is overridden), `MergeExact` (a merge has the pairs of both),
`WithoutClockIs`. `PointsOnly` leaves out what the code gets wrong
([below](#what-disagrees)): a thru is merged when the others' hashes agree, and
a reset passes over what is merged while it runs. `GroupsAlike` says that group
paths of one name have the same types of points, as the code merges them into
one priority. The meaning of thrus and of resets is checked in the run.

*Netlist.* `ListsInv` is `ListsAgree` for all nets, also those that are gone, and
with the scope of terminals; it holds after each of the deletions that
`deleteInstance` is a fold of, except for `Whole`, that an instance has all its
pins. `ListsStayAgreed` assumes `MergesInScope`: the nets of a merge are in one
instance, as the two sides of an assignment are. `DriversStayCurrent` is
`DriversCurrent` for behaviours whose steps are `CarefulStep`s. `Careful` is what
the code sees locally: `connectNetPin` and `disconnectNetPin` ask only whether
the net has terminals, so either it has, or no pin of it is tied to another net
(`Flat`). Then either everything is forgotten, or the entry that is brought up to
date is the only one the driver belongs to, as a flat net is in the span of no
other net (`SpannedApart`). Edits outside of `Careful` are those listed
[below](#what-disagrees): pins of hierarchical instances that have a terminal,
drivers on nets seen only from below, ports that drive, blocks. While nothing is
kept, every edit is careful.

*Sim* (in `NetlistProofs`, as what it claims of nets and drivers is proved of the
netlist). `SimTypeStays` is `TypeOK`, for every design of leaf instances
(`SimAssumption`), every edit and command: what the simulator keeps is of the
netlist there is. `SimTyped` adds that constraints are on pins there are and that a value queues and notes only instances there are,
through each fold of the propagation (`SetsPin`, `Evolves`).

`SimConstantsCurrent` is `ConstantsCurrent` under `Regular`, for any circuit, with
loops or without: the property is about each pin and its neighbours, and a
circuit without loops has one solution. `Claims` is what holds of the values but
for the loads, drivers and instances that are pending: a constrained pin has its
constraint (`Held`); a load has the value of the driver it is connected to
(`Loaded`); an output has what its function makes of the inputs (`Evaluated`);
ties have theirs (`TiesHeld`), unconstrained ports none (`PortsFree`). It holds
when a propagation from scratch has cleared the values and seeded constants, ties
and constraints, with the queue pending, and is kept by every edit, as what an edit
disturbs is noted as pending; a propagation from what was noted
queues every instance with an input that changes, and an evaluation takes the
instance off the queue and changes only loads of its outputs. `SimInv` puts these
together: between propagations the sets of what is invalid are what is pending,
during one the queue is. It needs that a net of leaf instances is not in the
span of another (`Wired`) and that drivers are current, which come from the
netlist. `Regular` leaves out what the code does not do:
- `RegularCells`: the output of a cell depends on each of its inputs, so that it
  is unknown while they all are, and a tie has none. The value of a tie that is
  made or replaced later is never set on its own pin.
- `RegularEdits`: ties are not constrained, as a load is given the function of
  the tie and not the constraint (`DrvrValue`); ports stay on their nets, as the
  net of a port is not found by `setLoad`; drivers are not put on constant nets,
  where two values would meet.
- `RegularNets`: at the start, nets have one driver, constant nets none.

`SimArcsDisabled` is `ArcsDisabled` under `Regular` and `NoWayBack`. Arcs are
annotated at the end of a propagation, of the instances with a pin that changed
(`ArcsFollow`): every other instance has arcs that fit its values, or an
unconstrained input that is on no net, or on one without a driver, or is itself
still pending (`Detached`); the property is about ends of propagations, when
nothing is pending, of inputs that are connected, in designs where every net with
loads is driven (`Driven`). The arcs of a new
cell are annotated when a pin of it changes, so an instance that is given its
first cell back could be left with arcs enabled, and the property, which
excuses cells that are not the first, would not excuse it: `NoWayBack`.

TLC evaluates `Regular /\ NoWayBack` for the design of the run *sim*
(`MCSimRegular`), so the hypotheses are those of a design that was checked.

What stays with TLC:
- Liveness (`SearchReturns`, `CommandEnds`, `UpdateCompletes` and the like), as no
  prover here handles fairness and ENABLED.
- `LatchLevelsDiffer`, which holds for the latch of its run but not for every
  graph ([below](#what-disagrees)).
- `MeaningKept` for commands with `-through` and for `reset_path`, for which it
  holds in the run and not in general ([below](#what-disagrees)).
- That the values of a circuit without loops are the only ones that
  `ConstantsCurrent` allows, an induction over the circuit. With a loop there
  may be several.
- Designs outside of `Regular`, `Careful`, `Plain`, `PointsOnly` and the other named
  hypotheses: there the code does something else, and the counterexamples are
  [below](#what-disagrees).

## What disagrees

One disagreement between the code and what it says of itself is a run.

- **pool_resize** (util/DispatchQueue.cc:40). `setThreadCount` is "terminate
  threads, then restart": it sets `quit_` by way of `terminateThreads` and never
  clears it, so the new threads exit at once, and the next batch is never
  executed; `finishTasks` spins for ever. `BatchReturns` is violated;
  `FirstBatchesReturn`, the same for a pool that was never resized, holds.

The following were met while modelling, seen in counterexamples of variants of
the models or read in the code. The properties are stated so that they hold
beside them, and each exception is a named definition or a guard with a comment.

Search and levels
- A reference pin of an input delay on the level of the fanout it seeds: the
  entry is appended to the list being visited and thrown away, its flag stuck
  (search/Search.cc:1342, Bfs.cc:210). `Ordered` in the proofs excludes it.
- Only `Search` is told of level changes (search/Sta.cc:213), so the queue of the
  delay calculator keeps the entry of a vertex that moved and was then deleted
  (Bfs.cc:308). GraphDelayCalc keeps such vertices in `untold`.
- An input or root that has lost its arrivals is written without telling its
  fanout, which keeps the arrivals computed from them until something else
  invalidates it (Search.cc:1412-1414, 1426-1430; `SeedStart`, `forgotten`).
- `requiredsInvalid` forgets the invalid required times, and nothing is remembered
  until they exist again, while those in place stay (Search.cc:708, 787); it
  leaves the queue as it is, and `deleteVertexBefore` then leaves the entry of a
  deleted vertex in it (Search.cc:656; `GiveUp`, `forgotten`, `Timely`).
- `visitParallel` returns 0 with several threads, the number visited with one
  (include/sta/Bfs.hh:82); `-threads 0` divides by zero (Bfs.cc:192).
- `replaceCell` with a cell that has more arcs does not repair levels through
  the new ones (Sta.cc:4277; `NewArcs`); edges that a logic value enables are not told to Levelize
  (Sta.cc:182, Sim.cc:1193; `SimEdits`).
- Relevelizing a latch through its enable raises the output without comparing
  the data pin (Levelize.cc:244, 323); `ensureLatchLevels` raises a level
  without `max_level_` (Levelize.cc:336), which sizes the queue (Bfs.hh:49);
  `latch_d_to_q_edges_` keeps deleted edges (Levelize.cc:411, 247).
- A full levelization does not always separate the data pin of a latch from its
  output as the comment over `ensureLatchLevels` says (Levelize.cc:323). Raising
  the data pin for one output can put it on the level of another that was
  compared before; and `levelizeCycles`, which comes after (Levelize.cc:137), can
  raise the output to the data pin. Seen with a disabled wire to the enable pin
  that makes it a root; the latch of *levelize_latches* has one output, which no
  gate of a loop drives besides the enable.

Slacks
- When arrivals return to an endpoint whose paths were deleted, its required
  time is not found again (Search.cc:2646, 418, 2662; include/sta/Search.hh:132
  promises that the total is updated incrementally). An endpoint whose required
  time is asked for between an edit and the query loses the same
  (Search.cc:3793).
- A load disconnected while it counts stays in the total: it is no endpoint any
  more when the total is told (Search.cc:3742, 3663).
- `removeOutputDelay` invalidates the arrival, not the required time
  (Sta.cc:1918).
- `tnsDecr` runs in the threads of the arrival search without `tns_lock_`
  (Search.cc:3749).

Exceptions
- Excluding a `-thru` from an exception clones the wrong thru (Sdc.cc:4477);
  thru lists are compared with themselves (ExceptionPath.cc:263), so unequal
  ones merge; merges are found by sums of ids (ExceptionPath.cc:200).
- Path delays between two points: a null from or to is dereferenced in the
  search for another exception that uses the pin (Sdc.cc:3907-3916, 3978-3987).
- A group path overrides without comparing priority (compare the comment at
  Sdc.cc:4752). `expandThru` shares one iterator among its levels
  (ExceptionPath.cc:2113-2155). Nets of every thru are recorded and those of the
  first unrecorded (Sdc.cc:4609, 4913). A reset by a net uses a null set
  (Sdc.cc:4349, 4356). An exception with transitions only at its `-to` vanishes
  when expanded. A false path may merge into a loop path. Group paths of one
  name merge though their points have different types, and keep one priority
  (ExceptionPath.cc:833).
- `resetPath` looks at each exception once while those it adds back merge
  (Sdc.cc:5072-5090). One added back may merge with an exception not yet looked
  at, which then merges into one already passed, and paths to be reset stay:
  after false paths {a,b} to {x,y}, {a,d} to x, {a,b,d} to w and from y to b, a
  reset from a to x may leave {a,b,d} to {x,w}. Such a merge can also delete the
  exception the iterator is to return next (include/sta/Set.hh:100). The
  commands of the run do not combine so.

Netlist and constants
- Connecting a pin clears the kept drivers of its net, but not of nets joined to
  it through the hierarchy (ConcreteNetwork.cc:1372; include/sta/Network.hh:477).
  `FlatEdits` leaves such edits out. Deleting a block leaves its inner drivers
  among those kept of the net above. Connecting a port of the design leaves its
  old terminal and clears nothing; `deleteNet` leaves the net of its terminals
  dangling; a constant net that is merged is constant no more.
- `clearLogicConstants` leaves propagated constants (include/sta/Sta.hh:1088;
  Sim.cc:517). A tie cell that is connected later never gets the value of its
  own vertex. A driver that is disconnected or deleted leaves constants at its
  loads until they are driven again (`Driven`). New arcs of `replaceCell` are not
  annotated when the outputs do not change. A ring formed by edits can keep
  values that only it supports, or toggle for ever.

Clocks
- `findDelays` stops at the first cycles in which source and target start
  together (CycleAccting.cc:158): with waveforms {2 4} of period 4 and {5 10} of
  period 10 the setup is 10 and not 2, as both edges are at the end of their
  periods (`AtEnd`).
- `removeClock` (Sta.cc:1118) does not ask for an update of generated clocks; one
  that lost its master may be given another (Genclks.cc:293) and keeps its
  waveform. Divisions by no power of two scale edge times.
- `makeGeneratedClock` without `-add` on the only pin of its own `-master_clock`
  deletes the master it then stores (Sdc.cc:946-959), and the next update reads
  it (`Freed`, `UpdateFromFreed`).

Delays
- `deleteEdge` and `disconnectPinBefore` tell only the load (Sta.cc:4422-4434),
  `deletePinBefore` too (4508-4518): the driver keeps the delays of the load it
  lost (doc/StaApi.txt:420-423 says the delays are invalidated). One without any
  load keeps the delays of the wire it was on. `untold`, `Asked`.
- A search to a level right after `delaysInvalid` sets `incremental_`, and the
  next one goes on only where delays change (GraphDelayCalc1.cc:429, 845):
  `Beyond` puts the gates that have delays already into `untold`.
- The test for a changed delay divides the difference by the previous delay with
  its sign, so that a negative one never changes, and does not look at slews
  (GraphDelayCalc1.cc:1301-1304): the loads keep what was computed from the old
  slew, and what follows them too (`DelayChanged`, `VisitDriver`).
- A floating load of a check with an annotated slew is seeded without its checks
  (GraphDelayCalc1.cc:439), and given a driver its slew does not change
  (`ConnectPin`).
- The queue is not told of levels (Sta.cc:214), so that a vertex stays in the
  list of its old level and may be visited before what it is computed from
  (`untold`, in `FindDelays`). `setAnnotatedSlew` on a driver does not propagate; arcs with annotated delays stop slews;
  multi-driver nets are found once (GraphDelayCalc1.cc:341-351).

## Not modelled

Abstractions inside the modelled components:
- *Search order*: integer weights, tags and the contents of paths are absent from
  BfsIterator; `hasNext` / `next` of the short searches too. The bits that share a
  word in a vertex (include/sta/Graph.hh:357) would need a model of memory.
- *Levelize*: bidirect instance paths, dynamic loop breaking, the check against
  `Graph::vertex_level_max`.
- *Slacks*: one corner, one of min and max, one thread; loads without fanout;
  fuzzy comparison; `findAllArrivals` and the preamble are one step.
- *Exceptions*: transitions, comments, instances (recorded as pins are),
  hierarchical edges, filter and loop paths.
- *Netlist*: lists are sets, a merged net is gone, nothing is made again at the
  address of something deleted.
- *Sim*: tristate and clock gate outputs, conditional and mode arcs, bidirects,
  `set_logic`; at most one driver of a net; acyclic designs.
- *Clocks*: edge shifts, waveforms of more than two edges, redefinition of
  virtual clocks; times are integers.
- *GraphDelayCalc*: slews are sums of what they depend on, delays any function of
  it; one corner and transition, a tolerance of 0; nets of
  several drivers, latches, logic values, annotated arcs, deletions.

Components left out, by reason:
- *Paths and tags* (Search.cc, Tag.cc, TagGroup.cc, Path*.cc, ClkInfo.cc), with
  latches, generated clock insertion delays and path groups: the core of a
  visit. What a path carries multiplies the state far past what TLC can hold
  together with an order of visits, and the races that matter (tag tables
  replaced while they are read, Search.cc:2598-2626 and 2849-2858; array tables
  that keep one previous block list, include/sta/ArrayTable.hh:163-176) are
  races of memory accesses. Listed as hazards.
- *Sta as a whole*: its handlers are parts of the actions of each module. One
  module of all of them would be the product of their states.
- *Numerical code* (dcalc calculators, parasitic reduction, power, derating, crpr):
  floating point, for which TLC has no arithmetic.
- *Readers and writers* (liberty, verilog, sdf, spef, vcd, WriteSdc, ReportPath,
  WriteSpice), *strings, names and Tcl*: input, output and text. Together with
  the numerical code they are most of the lines of the program.
- *Records set one at a time* (other constraints of Sdc, port delays, latencies,
  uncertainties, derates, disabled arcs): no interaction beyond the
  invalidations that Slacks, Levelize and GraphDelayCalc have as edits.
- *Checks and reports*: read only.

## What could come next

- Ports in `Sim` whose net is edited, for a code whose `setLoad` looks for the
  net of a port.
- A proof of `LevelsOrdered` with latches, for a code that keeps `max_level_` in
  `ensureLatchLevels`.
- Slacks with two threads, to show the race of `tnsDecr`.
- Tag tables as a module of memory cells with their replacement.
- Pin replacement and parasitics as further edits of GraphDelayCalc.
