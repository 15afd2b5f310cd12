---------------------------- MODULE GraphDelayCalc ----------------------------
(***************************************************************************)
(* Incremental delay calculation (dcalc/GraphDelayCalc1.cc) and the        *)
(* notifications of search/Sta.cc it lives on.  The first search computes  *)
(* every driver; later ones recompute the vertices that were invalidated   *)
(* and go on downstream of a driver while its delays change.  A search may *)
(* stop at a level and leave the rest in its queue.                        *)
(*                                                                         *)
(* For each arc the model keeps what its delay was computed from: the slew *)
(* before it, the strength of the gate, its load and the conditions.  The  *)
(* delay itself is the number ArcDelay makes of that, of any sign, and may *)
(* well be the same for different slews and loads.  One corner, one        *)
(* transition, the default tolerance of 0.  Nets of several drivers,       *)
(* latches, logic values, arcs with annotated delays and drivers with      *)
(* annotated slews are left out.                                           *)
(***************************************************************************)
EXTENDS Integers, FiniteSets, FiniteSetsExt, Functions

CONSTANTS
  Ports,                (* drivers: input ports                            *)
  Outputs,              (* drivers: outputs of gates                       *)
  Loads,                (* inputs of gates, register pins                  *)
  Arcs,                 (* <<load, output>> of the gates                   *)
  Checks,               (* <<clock pin, data pin>> of setup checks         *)
  Nets,
  NetOf,                (* the net each pin starts on                      *)
  Movable,              (* pins that edits connect and disconnect          *)
  Annotatable,          (* loads whose slew may be annotated               *)
  ArcDelay(_),          (* the number gateDelay() computes                 *)
  None,                 (* no net, no slew, no entry, no answer            *)
  Lost,                 (* a vertex whose flag is set and has no entry     *)
  MaxEdits              (* bound: edits                                    *)

Drivers == Ports \cup Outputs
Vertices == Drivers \cup Loads
Values == 0..1          (* of capacitances, slews, strengths               *)

ASSUME GraphDelayCalcAssumption ==
  /\ IsFiniteSet(Vertices) /\ IsFiniteSet(Nets)
  /\ Ports \cap Outputs = {} /\ Drivers \cap Loads = {}
  /\ Arcs \subseteq Loads \X Outputs /\ Checks \subseteq Loads \X Loads
  /\ \A z \in Outputs : \E l \in Loads : <<l, z>> \in Arcs
  /\ NetOf \in [Vertices -> Nets]
  /\ \A d, e \in Drivers : NetOf[d] = NetOf[e] => d = e
  /\ Movable \subseteq Vertices \ Ports /\ Annotatable \subseteq Loads
  /\ None \notin Nets \cup Nat /\ Lost \notin Nat \cup {None}
  /\ MaxEdits \in Nat

VARIABLES
  design,               (* nets, cells and constraints                     *)
  level, levelized,     (* the levels, and what to relevelize from         *)
  delays,               (* slews and delays annotated on the graph         *)
  calc,                 (* the GraphDelayCalc1 object and its iterator     *)
  find,                 (* the findDelays call under way                   *)
  answered,             (* the level of the last call, until an edit       *)
  untold,               (* what changed and the calculator was not told    *)
  edits                 (* edits so far                                    *)

vars == <<design, level, levelized, delays, calc, find, answered, untold, edits>>

------------------------------------------------------------------------------
(* The graph: a wire edge from the driver of a net to each of its loads,   *)
(* and the arcs of the gates.                                              *)
Wired(g, d, l) == d \in Drivers /\ l \in Loads /\ g.net[d] # None /\ g.net[d] = g.net[l]
Edge(g, u, v) == Wired(g, u, v) \/ <<u, v>> \in Arcs
Fanin(g, v) == {u \in Vertices : Edge(g, u, v)}
Fanout(g, v) == {w \in Vertices : Edge(g, v, w)}
Root(g, v) == Fanin(g, v) = {}

(* No vertex is its own fanin, however far back: in any set of vertices    *)
(* there is one with its whole fanin outside.                              *)
Acyclic(g) ==
  \A S \in (SUBSET Vertices) \ {{}} : \E v \in S : Fanin(g, v) \cap S = {}

Downstream(g, S) ==
  LET reached[v \in Vertices] == v \in S \/ \E u \in Fanin(g, v) : reached[u]
  IN  {v \in Vertices : reached[v]}

(* A load counts one, and one more for each weak gate it is an input of.   *)
LoadCap(g, d) ==
  IF g.net[d] = None THEN <<0, 0>>
  ELSE <<g.wireCap[g.net[d]],
         Cardinality(Fanout(g, d))
           + Cardinality({a \in Arcs : a[1] \in Fanout(g, d) /\ g.weak[a[2]] = 1})>>

(* Levels are lowered at new roots only, then raised above the fanin.      *)
Relevelized(g, lev, from) ==
  LET raised[v \in Vertices] ==
        Max({IF v \in from /\ Root(g, v) THEN 0 ELSE lev[v]}
              \cup {raised[u] + 1 : u \in Fanin(g, v)})
  IN  raised

------------------------------------------------------------------------------
(* Delay calculation of one vertex.                                        *)
(* What the delay of an arc is computed from, and the delay: zero in a new *)
(* graph.                                                                  *)
GateDelay(g, slew, z) == <<slew, g.weak[z], LoadCap(g, z), g.conditions>>
Delay(x) == IF x = <<>> THEN 0 ELSE ArcDelay(x)
GateSlew(g, slew, z) == slew + g.weak[z] + LoadCap(g, z)[1] + LoadCap(g, z)[2] + g.conditions
LoadSlew(g, slew, l) == IF g.annotated[l] # None THEN g.annotated[l]
                        ELSE slew + g.wireCap[g.net[l]]
RootSlew(g, v) == IF v \in Ports THEN g.inputSlew[v]
                  ELSE IF g.annotated[v] # None THEN g.annotated[v] ELSE 0
CheckDelay(g, slew, c) == <<slew[c[1]], slew[c[2]], g.conditions>>

(* seedRootSlews: a port gives its loads their slews, a floating load has  *)
(* its own.                                                                *)
SeedRootSlews(t, g, roots) ==
  [t EXCEPT !.slew = [v \in Vertices |->
     IF v \in roots THEN RootSlew(g, v)
     ELSE IF \E p \in roots : Wired(g, p, v)
     THEN LoadSlew(g, RootSlew(g, CHOOSE p \in roots : Wired(g, p, v)), v)
     ELSE t.slew[v]]]

(* findDriverDelays: the worst slew of the arcs, and their delays.         *)
FindDriverDelays(t, g, z) ==
  LET worst == Max({GateSlew(g, t.slew[l], z) : l \in Fanin(g, z)})
  IN  [t EXCEPT !.slew = [v \in Vertices |-> IF v = z THEN worst
                                              ELSE IF Wired(g, z, v) THEN LoadSlew(g, worst, v)
                                              ELSE t.slew[v]],
                !.arc = [a \in Arcs |-> IF a[2] = z THEN GateDelay(g, t.slew[a[1]], z)
                                         ELSE t.arc[a]]]

------------------------------------------------------------------------------
(* The queue: the level whose list holds each vertex that is flagged.  An  *)
(* entry added to the list being visited is cleared with it.               *)
Enqueue(c, lev, S, at) ==
  [c EXCEPT !.entry = [v \in Vertices |->
     IF v \in S /\ c.entry[v] = None THEN (IF lev[v] = at THEN Lost ELSE lev[v])
     ELSE c.entry[v]]]
Cleared(c) == [c EXCEPT !.entry = [v \in Vertices |-> IF @[v] = Lost THEN Lost ELSE None]]
Queued(c) == {v \in Vertices : c.entry[v] \notin {None, Lost}}

DelayInvalid(c, S) == IF c.incremental THEN [c EXCEPT !.invalid = @ \cup S] ELSE c
DelaysInvalid(c) ==
  Cleared([c EXCEPT !.seeded = FALSE, !.incremental = FALSE, !.invalid = {}, !.checks = {}])

Idle == [at |-> None, to |-> None]
Visiting == find # Idle

NewCalc == [seeded |-> FALSE, incremental |-> FALSE, invalid |-> {}, checks |-> {},
            entry |-> [v \in Vertices |-> None]]

NewDesign == [net |-> NetOf, wireCap |-> [n \in Nets |-> 0], weak |-> [z \in Outputs |-> 0],
              inputSlew |-> [p \in Ports |-> 0], annotated |-> [v \in Loads |-> None],
              conditions |-> 0]

(* Combinational loops are left out.                                       *)
ASSUME AcyclicAssumption == Acyclic(NewDesign)

Init ==
  /\ design = NewDesign
  /\ level = Relevelized(design, [v \in Vertices |-> 0], {})
  /\ levelized = {}
  /\ delays = [slew |-> [v \in Vertices |-> 0], arc |-> [a \in Arcs |-> <<>>],
               check |-> [c \in Checks |-> <<>>]]
  /\ calc = NewCalc
  /\ find = Idle
  /\ answered = None
  /\ untold = {}
  /\ edits = 0

------------------------------------------------------------------------------
(* Sta::findDelays: levels first, then what has to be seeded.              *)
SeedAll(lev) ==
  LET roots == {v \in Vertices : Root(design, v)}
  IN  /\ delays' = SeedRootSlews(delays, design, roots)
      /\ calc' = Enqueue([Cleared(calc) EXCEPT !.seeded = TRUE], lev,
                         UNION {Fanout(design, v) : v \in roots}, None)

SeedInvalidDelays(lev) ==
  LET roots == {v \in calc.invalid : lev[v] = 0}
  IN  /\ delays' = SeedRootSlews(delays, design, roots)
      /\ calc' = Enqueue([calc EXCEPT !.invalid = {}], lev,
                         (calc.invalid \ roots) \cup UNION {Fanout(design, v) : v \in roots}, None)

(* Vertices that are in the queue stay in the list of their old level: the *)
(* observer of Levelize tells Search only.                                 *)
FindDelays ==
  /\ ~Visiting
  /\ \E lev \in {Relevelized(design, level, levelized)} : \E to \in 0..Max(Range(lev)) :
       /\ level' = lev
       /\ untold' = untold \cup {v \in Queued(calc) : calc.entry[v] # lev[v]}
       /\ IF calc.incremental THEN SeedInvalidDelays(lev) ELSE SeedAll(lev)
       /\ find' = [at |-> None, to |-> to]
  /\ levelized' = {}
  /\ UNCHANGED <<design, answered, edits>>

(* BfsIterator::visitParallel: the list of the lowest level, entry by      *)
(* entry, each by some thread.                                             *)
NextLevel ==
  LET left == {calc.entry[v] : v \in Queued(calc)}
  IN  /\ Visiting
      /\ find.at \notin left
      /\ left # {} /\ Min(left) <= find.to
      /\ find' = [find EXCEPT !.at = Min(left)]
      /\ UNCHANGED <<design, level, levelized, delays, calc, answered, untold, edits>>

(* enqueueTimingChecksEdges: the checks whose delay uses the slew of v.    *)
ChecksOf(v) == {c \in Checks : v \in {c[1], c[2]}}

(* findVertexDelay.                                                        *)
VisitRoot(v, c) ==
  /\ level[v] = 0
  /\ delays' = SeedRootSlews(delays, design, {v})
  /\ calc' = Enqueue(c, level, Fanout(design, v), find.at)
  /\ UNCHANGED untold

(* A load that asks its driver again.                                      *)
VisitLoadBoth(v, c) ==
  /\ level[v] > 0 /\ v \in Loads
  /\ calc' = Enqueue([c EXCEPT !.checks = @ \cup ChecksOf(v)], level,
                     Fanout(design, v) \cup (Fanin(design, v) \cap Outputs), find.at)
  /\ UNCHANGED <<delays, untold>>

VisitLoad(v, c) ==
  /\ level[v] > 0 /\ v \in Loads
  /\ calc' = Enqueue([c EXCEPT !.checks = @ \cup ChecksOf(v)], level, Fanout(design, v), find.at)
  /\ UNCHANGED <<delays, untold>>

(* findArcDelay: the difference is divided by the delay that was there,    *)
(* which a negative one does not survive as a change.                      *)
Changed(was, is) == was = 0 \/ (was > 0 /\ is # was)
DelayChanged(v) ==
  \E a \in Arcs : a[2] = v /\ Changed(Delay(delays.arc[a]), Delay(delays'.arc[a]))

(* A driver whose delays changed enqueues its loads.  The others whose     *)
(* slew is another one, and which do not wait in the queue, are not told.  *)
VisitDriver(v, c) ==
  /\ level[v] > 0 /\ v \in Drivers
  /\ delays' = FindDriverDelays(delays, design, v)
  /\ IF DelayChanged(v) \/ ~c.incremental
       THEN /\ calc' = Enqueue(c, level, Fanout(design, v), find.at)
            /\ UNCHANGED untold
       ELSE /\ calc' = c
            /\ untold' = untold \cup {l \in Fanout(design, v) \ Queued(c) :
                                       delays'.slew[l] # delays.slew[l]}

Visit(v) ==
  /\ Visiting /\ find.at # None /\ calc.entry[v] = find.at
  /\ \E c \in {[calc EXCEPT !.entry[v] = None]} :
       VisitRoot(v, c) \/ VisitLoad(v, c) \/ VisitDriver(v, c)
  /\ UNCHANGED <<design, level, levelized, find, answered, edits>>

(* The delays of checks need the slews of both pins and come last.         *)
FindCheckEdgeDelays(t, g, S) ==
  [t EXCEPT !.check = [c \in Checks |-> IF c \in S THEN CheckDelay(g, t.slew, c) ELSE @[c]]]

(* Incremental from now on, whatever the level: where a search to a lower  *)
(* level ends, nobody remembers that what lies beyond is to be found, and  *)
(* a gate there which has delays already may stop the next search.         *)
Beyond(to) == {a[2] : a \in {b \in Arcs : level[b[2]] > to /\ delays.arc[b] # <<>>}}

(* The set of checks is kept for the next search.                          *)
FoundKept ==
  /\ Visiting
  /\ \A v \in Queued(calc) : calc.entry[v] > find.to
  /\ delays' = FindCheckEdgeDelays(delays, design, calc.checks)
  /\ calc' = [calc EXCEPT !.incremental = TRUE]
  /\ find' = Idle
  /\ answered' = find.to
  /\ untold' = untold \cup (IF calc.incremental THEN {} ELSE Beyond(find.to))
  /\ UNCHANGED <<design, level, levelized, edits>>

Found ==
  /\ Visiting
  /\ \A v \in Queued(calc) : calc.entry[v] > find.to
  /\ delays' = FindCheckEdgeDelays(delays, design, calc.checks)
  /\ calc' = [calc EXCEPT !.checks = {}, !.incremental = TRUE]
  /\ find' = Idle
  /\ answered' = find.to
  /\ untold' = untold \cup (IF calc.incremental THEN {} ELSE Beyond(find.to))
  /\ UNCHANGED <<design, level, levelized, edits>>

------------------------------------------------------------------------------
(* Edits, and what they tell the delay calculator and the levelizer.       *)
Edit ==
  /\ ~Visiting /\ edits < MaxEdits
  /\ edits' = edits + 1
  /\ answered' = None
  /\ UNCHANGED <<level, find>>

OnNet(n) == {v \in Vertices : design.net[v] = n}

SetNetWireCap(n, x) ==
  /\ Edit
  /\ design' = [design EXCEPT !.wireCap[n] = x]
  /\ calc' = DelayInvalid(calc, OnNet(n))
  /\ UNCHANGED <<levelized, delays, untold>>

SetInputSlew(p, x) ==
  /\ Edit
  /\ design' = [design EXCEPT !.inputSlew[p] = x]
  /\ calc' = DelayInvalid(calc, {p})
  /\ UNCHANGED <<levelized, delays, untold>>

SetAnnotatedSlew(l, x) ==
  /\ Edit
  /\ design' = [design EXCEPT !.annotated[l] = x]
  /\ delays' = [delays EXCEPT !.slew[l] = x]
  /\ calc' = DelayInvalid(calc, {l})
  /\ UNCHANGED <<levelized, untold>>

RemoveDelaySlewAnnotations ==
  /\ Edit
  /\ design' = [design EXCEPT !.annotated = [l \in Loads |-> None]]
  /\ calc' = DelaysInvalid(calc)
  /\ untold' = {}
  /\ UNCHANGED <<levelized, delays>>

SetOperatingConditions(x) ==
  /\ Edit
  /\ design' = [design EXCEPT !.conditions = x]
  /\ calc' = DelaysInvalid(calc)
  /\ untold' = {}
  /\ UNCHANGED <<levelized, delays>>

(* The capacitance of the inputs changes with the cell: their drivers are  *)
(* told, and the output.                                                   *)
ReplaceEquivCellAlone(z) ==    (* the drivers of its inputs are not told  *)
  /\ Edit
  /\ design' = [design EXCEPT !.weak[z] = 1 - @]
  /\ calc' = DelayInvalid(calc, {z})
  /\ UNCHANGED <<levelized, delays, untold>>

ReplaceEquivCell(z) ==
  /\ Edit
  /\ design' = [design EXCEPT !.weak[z] = 1 - @]
  /\ calc' = DelayInvalid(calc, {z} \cup UNION {Fanin(design, l) : l \in Fanin(design, z)})
  /\ UNCHANGED <<levelized, delays, untold>>

(* Combinational loops and nets of two drivers are left out.               *)
Connectable(pin, n) ==
  /\ design.net[pin] = None
  /\ IF pin \in Drivers THEN /\ OnNet(n) \cap Drivers = {}
                             /\ pin \notin Downstream(design, OnNet(n))
     ELSE OnNet(n) \cap Drivers \cap Downstream(design, {pin}) = {}

ConnectPinAfter(pin, g) ==
  LET told == IF pin \in Loads THEN {pin} \cup Fanin(g, pin) ELSE {pin}
  IN  /\ calc' = DelayInvalid(calc, told)
      /\ levelized' = levelized \cup {pin} \cup Fanin(g, pin)

(* A load without a driver is seeded without its checks; where its slew is *)
(* annotated its driver does not change it either when it comes.           *)
ConnectPin(pin, n) ==
  /\ Connectable(pin, n)
  /\ Edit
  /\ design' = [design EXCEPT !.net[pin] = n]
  /\ ConnectPinAfter(pin, design')
  /\ untold' = IF calc.incremental /\ pin \in Drivers
               THEN untold \cup {l \in Fanout(design', pin) :
                                  design.annotated[l] # None /\ ChecksOf(l) # {}}
               ELSE untold
  /\ UNCHANGED delays

(* Sta::deleteEdge tells the load of a wire edge and not its driver, which *)
(* keeps the delays of the load it had; without a load nobody is told.     *)
DisconnectPinBefore(pin) ==
  LET loads == IF pin \in Loads THEN {l \in {pin} : Fanin(design, pin) # {}}
               ELSE Fanout(design, pin)
      changed == ({pin} \cup UNION {Fanin(design, l) : l \in loads}) \cap Outputs
  IN  /\ calc' = DelayInvalid(calc, loads)
      /\ levelized' = levelized \cup loads
      /\ untold' = IF calc.incremental THEN untold \cup changed ELSE untold

DisconnectPin(pin) ==
  /\ design.net[pin] # None
  /\ Edit
  /\ DisconnectPinBefore(pin)
  /\ design' = [design EXCEPT !.net[pin] = None]
  /\ UNCHANGED delays

Edits ==
  \/ \E n \in Nets : \E x \in Values \ {design.wireCap[n]} : SetNetWireCap(n, x)
  \/ \E p \in Ports : \E x \in Values \ {design.inputSlew[p]} : SetInputSlew(p, x)
  \/ \E l \in Annotatable : \E x \in Values \ {design.annotated[l]} : SetAnnotatedSlew(l, x)
  \/ RemoveDelaySlewAnnotations
  \/ \E x \in Values \ {design.conditions} : SetOperatingConditions(x)
  \/ \E z \in Outputs : ReplaceEquivCell(z)
  \/ \E pin \in Movable, n \in Nets : ConnectPin(pin, n)
  \/ \E pin \in Movable : DisconnectPin(pin)

Searching == NextLevel \/ Found \/ \E v \in Vertices : Visit(v)

Next ==
  \/ FindDelays
  \/ Searching
  \/ Edits

(* findDelays is one call: its caller waits for it to return.              *)
Spec == Init /\ [][Next]_vars /\ WF_vars(Searching)

------------------------------------------------------------------------------
(* The state has its types; nothing is enqueued to the list that is being  *)
(* visited, which would leave it flagged and in no list; and the checks to *)
(* compute do not outlive the search that found them.                      *)
TypeOK ==
  /\ level \in [Vertices -> Nat]
  /\ levelized \subseteq Vertices
  /\ delays.slew \in [Vertices -> Nat]
  /\ calc.invalid \subseteq Vertices /\ calc.checks \subseteq Checks
  /\ calc.incremental => calc.seeded
  /\ calc.entry \in [Vertices -> {None} \cup Nat]
  /\ ~Visiting => calc.checks = {}

(* What a calculation from scratch finds.                                  *)
FullSlews ==
  LET full[v \in Vertices] ==
        IF Root(design, v) THEN RootSlew(design, v)
        ELSE Max({IF v \in Loads THEN LoadSlew(design, full[u], v)
                  ELSE GateSlew(design, full[u], v) : u \in Fanin(design, v)})
  IN  full

(* Not answered for: what lies downstream of what changed without the      *)
(* calculator being told.  These are gates that lost a load, vertices that *)
(* were given another level while they waited in the queue, loads with a   *)
(* new slew behind a driver whose delays did not count as changed, gates   *)
(* beyond a search to a lower level right after delaysInvalid(), and loads *)
(* of checks that had an annotated slew before they had a driver.          *)
Asked == {v \in Vertices : level[v] <= answered} \ Downstream(design, untold)

(* When a search returns, what it was asked for is what a calculation from *)
(* scratch would find: the slews and the arc delays up to its level, and   *)
(* the checks between pins up to it, however the calls and edits before it *)
(* were mixed.                                                             *)
AnswersRight ==
  answered # None =>
    \E full \in {FullSlews}, asked \in {Asked} :
      /\ \A v \in asked : delays.slew[v] = full[v]
      /\ \A a \in Arcs : a[2] \in asked => delays.arc[a] = GateDelay(design, full[a[1]], a[2])
      /\ \A c \in Checks :
           {c[1], c[2]} \subseteq asked /\ level[c[1]] > 0 /\ level[c[2]] > 0
             => delays.check[c] = CheckDelay(design, full, c)

(* A search returns: every visit enqueues vertices of later levels only,   *)
(* also when an entry waits in the list of a level its vertex has left.    *)
SearchReturns == Visiting ~> ~Visiting
=============================================================================
