------------------------------ MODULE Exceptions ------------------------------
(***************************************************************************)
(* The timing exceptions of an Sdc (sdc/Sdc.cc, sdc/ExceptionPath.cc):     *)
(* false paths, multicycle paths, path delays and group paths, each with   *)
(* -from, -thru and -to points that name sets of objects.  What is added   *)
(* is split by the type of its objects, overrides the multicycle paths and *)
(* path delays it intersects, which are broken into exceptions that leave  *)
(* it out, and is then merged with the exceptions it differs from in one   *)
(* point, found by a hash that leaves that point out.  A reset expands     *)
(* the exceptions it matches and adds back what it does not.               *)
(*                                                                         *)
(* addException calls itself through deleteMatchingExceptions, so that the *)
(* call stack is a variable.  The sets of exceptions are ordered by        *)
(* address: loops over them take their elements in any order.              *)
(*                                                                         *)
(* Left out: transitions, comments and instances (recorded and matched as  *)
(* pins are, in maps of their own), the edges of hierarchical pins, filter *)
(* and loop paths.                                                         *)
(***************************************************************************)
EXTENDS Integers, FiniteSets, Sequences, Functions

CONSTANTS
  Pins, Clocks, Nets,   (* the objects exceptions name                     *)
  Internal,             (* pins that are no usual start or end of a path   *)
  Id,                   (* the id of an object                             *)
  None,                 (* no object, no exception                         *)
  Commands,             (* what the user may ask for                       *)
  MaxCommands,          (* bound: commands                                 *)
  MaxPaths              (* bound: exceptions at a time                     *)

Objects == Pins \cup Clocks \cup Nets

ASSUME ExceptionsAssumption ==
  /\ IsFiniteSet(Objects)
  /\ Pins \cap Clocks = {} /\ Pins \cap Nets = {} /\ Clocks \cap Nets = {}
  /\ Internal \subseteq Pins
  /\ Id \in [Objects -> Nat]
  /\ None \notin Objects \cup Nat
  /\ MaxCommands \in Nat /\ MaxPaths \in Nat

(* An exception has a point, and a thru an object (tcl/Sdc.tcl:2286,       *)
(* :3333); a false path has no value (include/sta/ExceptionPath.hh:136).   *)
ASSUME CommandsAssumption ==
  \A c \in Commands :
    /\ c.op = "clock" => c.clock \in Clocks
    /\ c.op = "make" =>
         /\ c.from \subseteq Pins \cup Clocks /\ c.to \subseteq Pins \cup Clocks
         /\ c.thrus \in Seq((SUBSET (Pins \cup Nets)) \ {{}})
         /\ c.from # {} \/ c.thrus # <<>> \/ c.to # {}
         /\ c.kind \in {"false", "multi", "delay", "group"}
         /\ c.kind = "false" => c.value = 0

VARIABLES
  paths,                (* exceptions_: the recorded exceptions, by address *)
  index,                (* first_from_pin_exceptions_ and the other maps   *)
                        (* from a first point to exceptions, as one        *)
  mergeHash,            (* exception_merge_hash_                           *)
  starts, ends,         (* path_delay_internal_startpoints_, _endpoints_   *)
  calls,                (* the calls under way, the innermost first        *)
  undefined,            (* a null pointer or a deleted exception was used  *)
  meaning,              (* what the commands so far ask for                *)
  commands              (* commands so far                                 *)

sets == <<paths, index, mergeHash>>
points == <<starts, ends>>
vars == <<sets, points, calls, undefined, meaning, commands>>

------------------------------------------------------------------------------
(* Exception points: their objects, and the sum of the objects' ids, which *)
(* is kept up to date as objects come and go.                              *)
HashFactor(o) == IF o \in Clocks THEN 3 ELSE IF o \in Pins THEN 5 ELSE 7

Weight(S) == SumFunction([o \in S |-> Id[o] * HashFactor(o)])

Point(S) == [objs |-> S, hash |-> Weight(S)]
NoPoint == Point({})
HasObjects(p) == p.objs # {}
Clone(p) == Point(p.objs)
Clones(ps) == [i \in DOMAIN ps |-> Clone(ps[i])]

Merged(p, into) ==
  [objs |-> into.objs \cup p.objs, hash |-> into.hash + Weight(p.objs \ into.objs)]

(* deleteObjects subtracts what the other point has of a type of objects   *)
(* this one has too, whether or not an object of it was here.              *)
Deleted(p, q) ==
  LET types == {T \in {Pins, Clocks, Nets} : p.objs \cap T # {}}
  IN  [objs |-> p.objs \ q.objs,
       hash |-> p.hash - Weight(q.objs \cap UNION types)]

IntersectsPts(p, q) ==
  IF HasObjects(p) /\ HasObjects(q) THEN p.objs \cap q.objs # {}
  ELSE ~HasObjects(p) /\ ~HasObjects(q)

------------------------------------------------------------------------------
(* Exceptions.                                                             *)
TypePriority(kind) ==
  CASE kind = "false" -> 4000 [] kind = "delay" -> 3000
    [] kind = "multi" -> 2000 [] kind = "group" -> 0

FromThruToPriority(from, thrus, to) ==
  (IF from.objs \cap Pins # {} THEN 64 ELSE 0)
    + (IF to.objs \cap Pins # {} THEN 32 ELSE 0)
    + (IF thrus # <<>> THEN 16 ELSE 0)
    + (IF from.objs \cap Clocks # {} THEN 8 ELSE 0)
    + (IF to.objs \cap Clocks # {} THEN 4 ELSE 0)

(* Also clone: value is the delay, the cycles or the name of the group.    *)
Exception(kind, minMax, value, from, thrus, to) ==
  [kind |-> kind, minMax |-> minMax, value |-> value,
   from |-> from, thrus |-> thrus, to |-> to,
   prio |-> TypePriority(kind) + FromThruToPriority(from, thrus, to)]

With(e, from, thrus, to) ==
  Exception(e.kind, e.minMax, e.value, from, thrus, to)

Present(p) == IF HasObjects(p) THEN <<p>> ELSE <<>>
Pts(e) == Present(e.from) \o e.thrus \o Present(e.to)

Hash(e, missing) ==
  LET pts == Pts(e)
  IN  TypePriority(e.kind)
        + SumFunction([i \in DOMAIN pts \ {missing} |->
                         pts[i].hash * (2^(i + 4) - 1)])

MergeHashes(e) == {Hash(e, i) : i \in DOMAIN Pts(e)}

(* The exceptions e stands for, each with one object to a point.           *)
Selections(thrus) ==
  {ts \in [DOMAIN thrus -> Objects] : \A i \in DOMAIN ts : ts[i] \in thrus[i].objs}

OneOf(p) == IF HasObjects(p) THEN p.objs ELSE {None}

Elements(e) ==
  {[kind |-> e.kind, minMax |-> e.minMax, value |-> e.value, prio |-> e.prio,
    from |-> f, thrus |-> ts, to |-> t] :
      f \in OneOf(e.from), ts \in Selections(e.thrus), t \in OneOf(e.to)}

Overrides(e, x) ==
  e.kind = x.kind /\ e.prio = x.prio /\ e.minMax = x.minMax

Intersects(e, x) ==
  /\ IntersectsPts(e.from, x.from)
  /\ Len(e.thrus) = Len(x.thrus)
  /\ \A i \in DOMAIN e.thrus : IntersectsPts(e.thrus[i], x.thrus[i])
  /\ IntersectsPts(e.to, x.to)

Mergeable(e, x) ==
  CASE e.kind = "false" -> e.prio = x.prio /\ e.minMax = x.minMax
    [] e.kind = "multi" -> Overrides(e, x) /\ e.value = x.value
    [] e.kind = "delay" ->
         /\ Overrides(e, x) /\ e.value = x.value
         /\ ~HasObjects(e.to) /\ ~HasObjects(x.to)
    [] e.kind = "group" -> x.kind = "group" /\ e.value = x.value

(* The thrus are compared with themselves (ExceptionPath.cc:263): that     *)
(* they are the same rests on their hash alone.                            *)
MergeablePts(e, x, missing) ==
  LET here == Pts(e)  there == Pts(x)
      isThru(i) == i - Len(Present(e.from)) \in DOMAIN e.thrus
  IN  /\ HasObjects(e.from) <=> HasObjects(x.from)
      /\ Len(e.thrus) = Len(x.thrus)
      /\ HasObjects(e.to) <=> HasObjects(x.to)
      /\ \A i \in DOMAIN here \ {missing} :
           isThru(i) \/ here[i].objs = there[i].objs

(* A reset matches exceptions that are more specific than it is; thrus are *)
(* compared as far as both go.                                             *)
ThrusIntersectPts(thrus, given) ==
  \A i \in DOMAIN thrus \cap DOMAIN given : thrus[i].objs \cap given[i] # {}

ResetMatch(e, reset) ==
  /\ reset.from # {} => e.from.objs \cap reset.from # {}
  /\ reset.thrus # <<>> =>
       e.thrus # <<>> /\ ThrusIntersectPts(e.thrus, reset.thrus)
  /\ reset.to # {} => e.to.objs \cap reset.to # {}
  /\ reset.minMax \in {"all", e.minMax}

------------------------------------------------------------------------------
(* What an exception is broken into.                                       *)

(* A point with both pins and clocks would have both priorities.           *)
Split(p) ==
  IF p.objs \cap Pins # {} /\ p.objs \cap Clocks # {}
  THEN <<Point(p.objs \ Clocks), Point(p.objs \cap Clocks)>> ELSE <<p>>

SplitFrom(e) ==
  LET froms == Split(e.from)
  IN  IF Len(froms) = 1 THEN <<e>>
      ELSE [i \in 1..2 |-> With(e, froms[i], Clones(e.thrus), Clone(e.to))]

SplitTo(e) ==
  LET tos == Split(e.to)
  IN  IF Len(tos) = 1 THEN <<e>>
      ELSE [i \in 1..2 |-> With(e, Clone(e.from), Clones(e.thrus), tos[i])]

Parts(e) ==
  LET halves == SplitFrom(e)
  IN  SplitTo(halves[1]) \o (IF Len(halves) = 2 THEN SplitTo(halves[2]) ELSE <<>>)

(* expandExceptionExcluding: e without the paths of x.  The thrus other    *)
(* than the one that loses objects are copies of that one, not of their    *)
(* own (Sdc.cc:4477).                                                      *)
ExcludingFrom(e, x) ==
  LET from == Deleted(Clone(e.from), x.from)
  IN  IF HasObjects(from) THEN {With(e, from, Clones(e.thrus), Clone(e.to))} ELSE {}

ExcludingThru(e, x) ==
  LET thru(i) == Deleted(Clone(e.thrus[i]), x.thrus[i])
      thrus(i) == [j \in DOMAIN e.thrus |->
                     IF j = i THEN thru(i) ELSE Clone(e.thrus[i])]
  IN  {With(e, Clone(e.from), thrus(i), Clone(e.to)) :
         i \in {j \in DOMAIN e.thrus : HasObjects(thru(j))}}

(* Mutant: only the first points are excluded.                             *)
ExcludingToNot(e, x) == {}

ExcludingTo(e, x) ==
  LET to == Deleted(Clone(e.to), x.to)
  IN  IF HasObjects(to) THEN {With(e, Clone(e.from), Clones(e.thrus), to)} ELSE {}

Excluding(e, x) == ExcludingFrom(e, x) \cup ExcludingThru(e, x) \cup ExcludingTo(e, x)

(* expandThru: the recursion passes on one iterator, so that once the last *)
(* thru has been reached by way of the first objects, the other objects    *)
(* of the earlier ones find no thru after them.                            *)
First(S) ==
  LET front == IF S \cap Pins # {} THEN S \cap Pins ELSE S
  IN  CHOOSE o \in front : \A p \in front : Id[o] <= Id[p]

ExpandedThrus(thrus) ==
  LET n == Len(thrus)
      others(k) == thrus[k].objs \ (IF k < n THEN {First(thrus[k].objs)} ELSE {})
      path(k, o) == [i \in 1..k |-> IF i = k THEN o ELSE First(thrus[i].objs)]
  IN  IF n = 0 THEN {<<>>}
      ELSE UNION {{path(k, o) : o \in others(k)} : k \in 1..n}

Single(o) == IF o = None THEN NoPoint ELSE Point({o})

Expansions(e) ==
  {With(e, Single(f), [i \in DOMAIN ts |-> Single(ts[i])], Single(t)) :
     f \in OneOf(e.from), ts \in ExpandedThrus(e.thrus), t \in OneOf(e.to)}

------------------------------------------------------------------------------
(* The maps from first points.  A key is there once it has been used.      *)
NoKeys == [k \in {} |-> {}]

Keys(e, thrusWithNets) ==
  IF HasObjects(e.from) THEN {<<"from", o>> : o \in e.from.objs}
  ELSE IF e.thrus # <<>>
  THEN {<<"thru", o>> : o \in e.thrus[1].objs \ Nets}
         \cup {<<"net", o>> : o \in Nets \cap UNION {e.thrus[i].objs : i \in thrusWithNets}}
  ELSE {<<"to", o>> : o \in e.to.objs}

RecordKeys(e) == Keys(e, DOMAIN e.thrus)
UnrecordKeys(e) == Keys(e, {1})

Found(k) == IF k \in DOMAIN index THEN index[k] ELSE {}

RecordFirstPts(idx, e, i) ==
  [k \in DOMAIN idx \cup RecordKeys(e) |->
     (IF k \in DOMAIN idx THEN idx[k] ELSE {})
       \cup (IF k \in RecordKeys(e) THEN {i} ELSE {})]

UnrecordFirstPts(idx, D) ==
  [k \in DOMAIN idx |-> idx[k] \ {i \in D : k \in UnrecordKeys(paths[i])}]

Unrecord(D) ==
  /\ paths' = [i \in DOMAIN paths \ D |-> paths[i]]
  /\ index' = UnrecordFirstPts(index, D)
  /\ mergeHash' = {one \in mergeHash : one[2] \in D => one[1] \notin MergeHashes(paths[one[2]])}

------------------------------------------------------------------------------
(* The call stack.  Frames: add an exception, its split parts (add2), each *)
(* of a set, record one, merge one, the loop of resetPath.                 *)
Adds(e) == [op |-> "add", e |-> e]
Adds2(e) == [op |-> "add2", e |-> e]
Each(S, reset) == [op |-> "each", todo |-> S, reset |-> reset]
Records(e) == [op |-> "record", e |-> e]
Merges(i) == [op |-> "merge", id |-> i]
Resets(c, next, later) ==
  [op |-> "reset", reset |-> c, next |-> next, later |-> later]

At(op) == ~undefined /\ calls # <<>> /\ Head(calls).op = op

(* resetPath keeps an iterator to the next exception it will look at while *)
(* others are recorded and deleted.                                        *)
Resetting == calls # <<>> /\ calls[Len(calls)].op = "reset"
Next_(stack) == stack[Len(stack)].next
Loses(D) == Resetting /\ Next_(calls) \in D

LoopWith(stack, ids) ==
  IF Resetting THEN [stack EXCEPT ![Len(stack)].later = @ \cup ids] ELSE stack
LoopWithout(stack, D) ==
  IF Resetting THEN [stack EXCEPT ![Len(stack)].later = @ \ D] ELSE stack

UndefinedBehavior ==
  /\ undefined' = TRUE
  /\ UNCHANGED <<sets, points, calls, meaning, commands>>

------------------------------------------------------------------------------
(* What the user asks for.  meaning has the exceptions with one object to  *)
(* a point that the commands leave: a multicycle path or path delay that   *)
(* is given again takes its new value.                                     *)
Sought(c) ==
  Exception(c.kind, c.minMax, c.value, Point(c.from),
            [i \in DOMAIN c.thrus |-> Point(c.thrus[i])], Point(c.to))

Asked(c) == UNION {Elements(e) : e \in Range(Parts(Sought(c)))}

Redefines(x, y) ==
  /\ x.kind \in {"multi", "delay"}
  /\ [x EXCEPT !.value = 0] = [y EXCEPT !.value = 0]

ElementMatches(x, reset) ==
  /\ reset.from # {} => x.from \in reset.from
  /\ reset.thrus # <<>> =>
       /\ x.thrus # <<>>
       /\ \A i \in DOMAIN x.thrus \cap DOMAIN reset.thrus : x.thrus[i] \in reset.thrus[i]
  /\ reset.to # {} => x.to \in reset.to
  /\ reset.minMax \in {"all", x.minMax}

Asks(c) ==
  /\ calls = <<>> /\ ~undefined
  /\ commands < MaxCommands
  /\ commands' = commands + 1

(* makeFalsePath, makeMulticyclePath, makePathDelay, makeGroupPath.        *)
Make(c) ==
  /\ c.op = "make"
  /\ Asks(c)
  /\ meaning' = {x \in meaning : ~\E y \in Asked(c) : Redefines(y, x)} \cup Asked(c)
  /\ calls' = <<Adds(Sought(c))>>
  /\ UNCHANGED <<sets, points, undefined>>

ResetPath(c) ==
  /\ c.op = "reset"
  /\ Asks(c)
  /\ meaning' = {x \in meaning : ~ElementMatches(x, c)}
  /\ \E first \in (IF DOMAIN paths = {} THEN {None} ELSE DOMAIN paths) :
       calls' = <<Resets(c, first, DOMAIN paths \ {first})>>
  /\ UNCHANGED <<sets, points, undefined>>

(* deleteExceptionsReferencing: a clock is deleted.  The exceptions that   *)
(* keep objects are recorded again where they were; the others go.         *)
WithoutClock(e, clk) ==
  LET without(p) == Deleted(p, [objs |-> {clk} \cap p.objs, hash |-> 0])
  IN  [e EXCEPT !.from = without(@), !.to = without(@)]

DeleteClock(c) ==
  LET refs == {i \in DOMAIN paths : c.clock \in paths[i].from.objs \cup paths[i].to.objs}
      lost(p) == p.objs = {c.clock}
      kept == {i \in refs : ~lost(paths[i].from) /\ ~lost(paths[i].to)}
      now(i) == WithoutClock(paths[i], c.clock)
      keys(i) == RecordKeys(now(i))
      idx == UnrecordFirstPts(index, refs)
      all == DOMAIN idx \cup UNION {keys(i) : i \in kept}
  IN  /\ c.op = "clock"
      /\ Asks(c)
      /\ meaning' = {x \in meaning : x.from # c.clock /\ x.to # c.clock}
      /\ paths' = [i \in DOMAIN paths \ (refs \ kept) |->
                     IF i \in kept THEN now(i) ELSE paths[i]]
      /\ index' = [k \in all |-> (IF k \in DOMAIN idx THEN idx[k] ELSE {})
                                  \cup {i \in kept : k \in keys(i)}]
      /\ mergeHash' =
           {one \in mergeHash : one[2] \in refs => one[1] \notin MergeHashes(paths[one[2]])}
             \cup UNION {{<<h, i>> : h \in MergeHashes(now(i))} : i \in kept}
      /\ UNCHANGED <<points, calls, undefined>>

------------------------------------------------------------------------------
(* addException.  The internal points of a path delay are noted first.     *)
Noted(e, p) == IF e.kind = "delay" THEN p.objs \cap Internal ELSE {}

Add ==
  LET e == Head(calls).e
      parts == Parts(e)
  IN  /\ At("add")
      /\ starts' = starts \cup Noted(e, e.from)
      /\ ends' = ends \cup Noted(e, e.to)
      /\ calls' = [i \in DOMAIN parts |-> Adds2(parts[i])] \o Tail(calls)
      /\ UNCHANGED <<sets, undefined, meaning, commands>>

(* findMatchingExceptions looks only under the first point of e.  For a    *)
(* first thru it takes the nets of e, and those of what it finds, to be    *)
(* there (Sdc.cc:4349, 4356).                                              *)
FirstKeys(e) ==
  IF HasObjects(e.from) THEN {"from"} \X e.from.objs
  ELSE IF e.thrus # <<>>
  THEN ({"thru"} \X (e.thrus[1].objs \ Nets)) \cup ({"net"} \X (e.thrus[1].objs \cap Nets))
  ELSE {"to"} \X e.to.objs

Matching(e) ==
  {i \in UNION {Found(k) : k \in FirstKeys(e)} :
     /\ i \in DOMAIN paths
     /\ Overrides(paths[i], e)
     /\ Intersects(paths[i], e)}

NetsMissing(e) ==
  /\ ~HasObjects(e.from) /\ e.thrus # <<>>
  /\ \E k \in DOMAIN index : k[1] = "net"
  /\ \/ e.thrus[1].objs \cap Nets = {}
     \/ \E o \in e.thrus[1].objs \cap Nets : \E i \in Found(<<"net", o>>) :
          i \notin DOMAIN paths \/ paths[i].thrus[1].objs \cap Nets = {}

(* addException2, with deleteMatchingExceptions.                           *)
AddOther ==
  /\ At("add2")
  /\ Head(calls).e.kind \in {"false", "group"}
  /\ calls' = <<Records(Head(calls).e)>> \o Tail(calls)
  /\ UNCHANGED <<sets, points, undefined, meaning, commands>>

AddOverriding ==
  /\ At("add2")
  /\ Head(calls).e.kind \in {"multi", "delay"}
  /\ \E e \in {Head(calls).e} : \E D \in {Matching(e)} :
       IF NetsMissing(e) \/ Loses(D) THEN UndefinedBehavior
       ELSE /\ Unrecord(D)
            /\ calls' = <<Each(UNION {Excluding(paths[i], e) : i \in D}, None), Records(e)>>
                          \o LoopWithout(Tail(calls), D)
            /\ UNCHANGED <<points, undefined, meaning, commands>>

------------------------------------------------------------------------------
(* The loops over expansions: those of resetPath are not added back when   *)
(* they match the reset; their internal points go unless another path      *)
(* delay has them as its first point.                                      *)
(* Mutant: the loop does not go on to the next exception.                  *)
EachAddsAgain(x) ==
  /\ At("each")
  /\ x \in Head(calls).todo
  /\ Head(calls).reset # None => ~ResetMatch(x, Head(calls).reset)
  /\ calls' = <<Adds(x)>> \o calls
  /\ UNCHANGED <<sets, points, undefined, meaning, commands>>

EachAdds(x) ==
  /\ At("each")
  /\ x \in Head(calls).todo
  /\ Head(calls).reset # None => ~ResetMatch(x, Head(calls).reset)
  /\ calls' = <<Adds(x), [Head(calls) EXCEPT !.todo = @ \ {x}]>> \o Tail(calls)
  /\ UNCHANGED <<sets, points, undefined, meaning, commands>>

IsPathDelay(k) == \E i \in index[k] : i \in DOMAIN paths /\ paths[i].kind = "delay"

(* Mutant: other path delays from the pin are not looked for.               *)
UnnotedAlways(side, noted, p) == p.objs

(* pathDelayFrom and pathDelayTo do not test whether the pin has a key.    *)
Unnoted(side, noted, p) ==
  IF noted = {} THEN {}
  ELSE {o \in p.objs \cap Internal :
          <<side, o>> \in DOMAIN index => ~IsPathDelay(<<side, o>>)}

NoKey(side, noted, p) ==
  noted # {} /\ \E o \in p.objs \cap Internal : <<side, o>> \notin DOMAIN index

EachResets(x) ==
  /\ At("each")
  /\ x \in Head(calls).todo
  /\ Head(calls).reset # None
  /\ ResetMatch(x, Head(calls).reset)
  /\ IF NoKey("from", starts, x.from) \/ NoKey("to", ends, x.to)
     THEN UndefinedBehavior
     ELSE /\ starts' = starts \ Unnoted("from", starts, x.from)
          /\ ends' = ends \ Unnoted("to", ends, x.to)
          /\ calls' = <<[Head(calls) EXCEPT !.todo = @ \ {x}]>> \o Tail(calls)
          /\ UNCHANGED <<sets, undefined, meaning, commands>>

EachEnds ==
  /\ At("each")
  /\ Head(calls).todo = {}
  /\ calls' = Tail(calls)
  /\ UNCHANGED <<sets, points, undefined, meaning, commands>>

(* recordException, at a new address.                                      *)
Record ==
  LET e == Head(calls).e
      used == DOMAIN paths \cup UNION {index[k] : k \in DOMAIN index}
      i == CHOOSE n \in 1..MaxPaths : n \notin used
  IN  /\ At("record")
      /\ ~(1..MaxPaths \subseteq used)
      /\ paths' = [n \in DOMAIN paths \cup {i} |-> IF n = i THEN e ELSE paths[n]]
      /\ index' = RecordFirstPts(index, e, i)
      /\ mergeHash' = mergeHash \cup {<<h, i>> : h \in MergeHashes(e)}
      /\ \E ids \in {{}} \cup (IF Resetting /\ Next_(calls) # None THEN {{i}} ELSE {}) :
           calls' = <<Merges(i)>> \o LoopWith(Tail(calls), ids)
      /\ UNCHANGED <<points, undefined, meaning, commands>>

------------------------------------------------------------------------------
(* mergeException: the exception is merged into one that differs from it   *)
(* in one point, then that one into another, until none is found.          *)
Candidates(i, missing) ==
  {m \in DOMAIN paths \ {i} :
     /\ <<Hash(paths[i], missing), m>> \in mergeHash
     /\ Mergeable(paths[i], paths[m])
     /\ MergeablePts(paths[m], paths[i], missing)}

MergePoints(i) == {k \in DOMAIN Pts(paths[i]) : Candidates(i, k) # {}}

MergeInto(e, missing, m) ==
  LET p == Pts(e)[missing]
      froms == Len(Present(e.from))
      nth == missing - froms
  IN  CASE missing <= froms -> [m EXCEPT !.from = Merged(p, @)]
        [] nth \in DOMAIN e.thrus -> [m EXCEPT !.thrus[nth] = Merged(p, @)]
        [] OTHER -> [m EXCEPT !.to = Merged(p, @)]

(* Mutant: what is merged away leaves the maps, with no entry for the other.*)
FirstPtsMergedNot(idx, missing, into, m) == idx

(* The maps from first points only change if the first point did.          *)
FirstPtsMerged(idx, missing, into, m) ==
  IF missing = 1 THEN RecordFirstPts(idx, into, m) ELSE idx

Earliest(S) == {k \in S : \A l \in S : k <= l}

Merge ==
  /\ At("merge")
  /\ \E i \in {Head(calls).id} : \E k \in Earliest(MergePoints(i)) :
       IF Loses({i}) THEN UndefinedBehavior
       ELSE \E m \in Candidates(i, k) : \E into \in {MergeInto(paths[i], k, paths[m])} :
         /\ paths' = [n \in DOMAIN paths \ {i} |-> IF n = m THEN into ELSE paths[n]]
         /\ index' = FirstPtsMerged(UnrecordFirstPts(index, {i}), k, into, m)
         /\ mergeHash' = {one \in mergeHash : one[2] \notin {i, m}}
                           \cup {<<h, m>> : h \in MergeHashes(into)}
         /\ calls' = <<Merges(m)>> \o LoopWithout(Tail(calls), {i})
         /\ UNCHANGED <<points, undefined, meaning, commands>>

MergeEnds ==
  /\ At("merge")
  /\ MergePoints(Head(calls).id) = {}
  /\ calls' = Tail(calls)
  /\ UNCHANGED <<sets, points, undefined, meaning, commands>>

------------------------------------------------------------------------------
(* The loop of resetPath.                                                  *)
ResetNext ==
  LET i == Head(calls).next
      reset == Head(calls).reset
      later == Head(calls).later
  IN  /\ At("reset")
      /\ i # None
      /\ \E next \in (IF later = {} THEN {None} ELSE later) :
           LET loop == Resets(reset, next, later \ {next})
           IN  IF ResetMatch(paths[i], reset)
               THEN /\ Unrecord({i})
                    /\ calls' = <<Each(Expansions(paths[i]), reset), loop>>
               ELSE calls' = <<loop>> /\ UNCHANGED sets
      /\ UNCHANGED <<points, undefined, meaning, commands>>

ResetEnds ==
  /\ At("reset")
  /\ Head(calls).next = None
  /\ calls' = <<>>
  /\ UNCHANGED <<sets, points, undefined, meaning, commands>>

------------------------------------------------------------------------------
Init ==
  /\ paths = [i \in {} |-> None] /\ index = NoKeys /\ mergeHash = {}
  /\ starts = {} /\ ends = {}
  /\ calls = <<>> /\ undefined = FALSE
  /\ meaning = {} /\ commands = 0

Ask == \E c \in Commands : Make(c) \/ ResetPath(c) \/ DeleteClock(c)

Loops ==
  \/ \E x \in (IF At("each") THEN Head(calls).todo ELSE {}) : EachAdds(x) \/ EachResets(x)
  \/ EachEnds \/ ResetNext \/ ResetEnds

Run == Add \/ AddOther \/ AddOverriding \/ Record \/ Merge \/ MergeEnds \/ Loops

Next == Ask \/ Run

(* The program goes on with a command it has started.                      *)
Spec == Init /\ [][Next]_vars /\ WF_vars(Run)

------------------------------------------------------------------------------
(* Whatever has been split, overridden, merged, expanded and reset, the    *)
(* exceptions stand for what the commands asked for (addException,         *)
(* deleteMatchingExceptions, mergeException, resetPath).                   *)
MeaningKept ==
  calls = <<>> /\ ~undefined =>
    UNION {Elements(paths[i]) : i \in DOMAIN paths} = meaning

(* The searches find an exception, which has a point with objects, under   *)
(* each object of its first point, and never one that is gone              *)
(* (recordExceptionFirstPts and its converse).                             *)
FirstPointsIndexed ==
  ~undefined =>
    /\ \A i \in DOMAIN paths :
         RecordKeys(paths[i]) # {} /\ RecordKeys(paths[i]) \subseteq DOMAIN index
    /\ \A k \in DOMAIN index : index[k] = {i \in DOMAIN paths : k \in RecordKeys(paths[i])}

(* The searches start and end paths at the internal pins of path delays,   *)
(* and at no other kind of pin, for as long as there are such path delays. *)
InternalPointsKept ==
  ~undefined =>
    /\ starts \cup ends \subseteq Internal
    /\ \A i \in DOMAIN paths : paths[i].kind = "delay" =>
         /\ paths[i].from.objs \cap Internal \subseteq starts
         /\ paths[i].to.objs \cap Internal \subseteq ends

(* Overriding adds exceptions, which override in their turn, a merge is    *)
(* followed by another, and resetPath goes on to a next exception while    *)
(* others come and go: every command comes to an end, and without using a  *)
(* null pointer or a deleted exception (addException, resetPath).          *)
CommandEnds == calls # <<>> ~> calls = <<>>

==============================================================================
