------------------------------ MODULE NetlistProofs ------------------------------
(***************************************************************************)
(* What holds of a netlist, of any pins, nets and hierarchy, after any     *)
(* edits: pins and nets name each other, and the drivers that are kept of  *)
(* a net are those it has, where the code can see what an edit joins.      *)
(* And what holds of the simulator that such edits tell of themselves: it  *)
(* keeps nothing of what is gone, and when a propagation has ended every   *)
(* logic value follows from those around it and the arcs that are disabled *)
(* are those which constants disable.                                      *)
(*                                                                         *)
(* First what every function of Netlist does to the members of its record, *)
(* stated as a predicate of the record before and the one after; then that *)
(* each keeps the lists (ListsInv), also halfway through the folds of      *)
(* deleteInstance; then the drivers (DriversInv).                          *)
(*                                                                         *)
(* Then the same for Sim: what setPinValue, and the folds that call it, do *)
(* to the members of the simulator (SetsPin, Evolves), and its types       *)
(* (SimTyped); the values but for what is pending (Claims), seeded from    *)
(* nothing, from what edits have left, and by evaluation, and kept by      *)
(* every edit (SimInv); the arcs but for what is pending (ArcsInv).        *)
(***************************************************************************)
EXTENDS Sim, Functions, FiniteSetTheorems, TLAPS

------------------------------------------------------------------------------
(* What the folds over finite sets of the model do, for every set.         *)
(* The definitions of the community modules are recursive, and the         *)
(* induction theorems of the library take an operator, which the provers   *)
(* cannot instantiate: the induction here is that a set of subsets of a    *)
(* finite set has a least one.                                             *)

(* A finite set has no infinite descent of subsets: in any set of subsets  *)
(* there is one that none of the others is part of.                        *)
LEMMA LeastSubset ==
  ASSUME NEW S, IsFiniteSet(S), NEW B, B \subseteq SUBSET S, B # {}
  PROVE  \E T \in B : \A U \in B : U \subseteq T => U = T
<1>1. IsWellFoundedOn(StrictSubsetOrdering(S), FiniteSubsetsOf(S))
  BY FS_StrictSubsetOrderingWellFounded
<1>2. FiniteSubsetsOf(S) = SUBSET S
  BY FS_FiniteSubsetsOfFinite
<1>3. \E T \in B : \A U \in B : ~(<<U, T>> \in StrictSubsetOrdering(S))
  BY <1>1, <1>2, WFMin
<1>4. QED
  BY <1>3 DEF StrictSubsetOrdering

(* And one that is part of none of the others.                             *)
LEMMA GreatestSubset ==
  ASSUME NEW S, IsFiniteSet(S), NEW B, B \subseteq SUBSET S, B # {}
  PROVE  \E T \in B : \A U \in B : T \subseteq U => U = T
<1> DEFINE C == {W \in SUBSET S : \E T \in B : W = S \ T}
<1>1. PICK Z \in C : \A W \in C : W \subseteq Z => W = Z
  <2>1. C \subseteq SUBSET S /\ C # {}
    OBVIOUS
  <2> HIDE DEF C
  <2>2. QED
    BY <2>1, LeastSubset
<1>2. PICK T \in B : Z = S \ T
  OBVIOUS
<1>3. ASSUME NEW U \in B, T \subseteq U PROVE U = T
  <2>1. S \ U \in C /\ S \ U \subseteq Z
    BY <1>2, <1>3
  <2>2. S \ U = S \ T
    BY <2>1, <1>1, <1>2
  <2>3. QED
    BY <2>2, <1>3
<1>4. QED
  BY <1>3

------------------------------------------------------------------------------
(* The element a fold takes first, and what it is to be the table of a     *)
(* fold of the function op over the members F of SUBSET S.                 *)
Pick(s) == CHOOSE x \in s : TRUE

FoldStep(op, base, g, s) ==
  IF s = {} THEN base ELSE op[Pick(s)][g[s \ {Pick(s)}]]

FoldTable(op, base, g, F) == \A s \in F : g[s] = FoldStep(op, base, g, s)

LEMMA PickIn == ASSUME NEW s, s # {} PROVE Pick(s) \in s
BY DEF Pick

(* A fold over a finite set has a table.                                   *)
LEMMA FoldTableExists ==
  ASSUME NEW S, IsFiniteSet(S), NEW V, NEW base \in V, NEW op \in [S -> [V -> V]]
  PROVE  \E g \in [SUBSET S -> V] : FoldTable(op, base, g, SUBSET S)
<1> DEFINE Bad == {F \in SUBSET SUBSET S :
                     ~ \E g \in [SUBSET S -> V] : FoldTable(op, base, g, F)}
<1>1. SUFFICES ASSUME Bad # {} PROVE FALSE
  <2>1. SUBSET S \notin Bad
    BY <1>1
  <2>2. QED
    BY <2>1
<1>2. IsFiniteSet(SUBSET S)
  BY FS_SUBSET
<1>3. PICK F \in Bad : \A G \in Bad : G \subseteq F => G = F
  <2>1. Bad \subseteq SUBSET SUBSET S
    OBVIOUS
  <2> HIDE DEF Bad
  <2>2. QED
    BY <1>1, <1>2, <2>1, LeastSubset
<1>4. F \subseteq SUBSET S /\ ~ \E g \in [SUBSET S -> V] : FoldTable(op, base, g, F)
  OBVIOUS
<1>5. F # {}
  <2>1. [s \in SUBSET S |-> base] \in [SUBSET S -> V]
    OBVIOUS
  <2>2. FoldTable(op, base, [s \in SUBSET S |-> base], {})
    BY DEF FoldTable
  <2>3. QED
    BY <1>4, <2>1, <2>2
<1>6. PICK M \in F : \A s \in F : M \subseteq s => s = M
  BY <1>4, <1>5, GreatestSubset
<1>7. PICK g \in [SUBSET S -> V] : FoldTable(op, base, g, F \ {M})
  <2>1. F \ {M} \notin Bad
    <3> HIDE DEF Bad
    <3>1. QED
      BY <1>3, <1>6
  <2>2. F \ {M} \in SUBSET SUBSET S
    BY <1>4
  <2>3. QED
    BY <2>1, <2>2
<1> DEFINE m == FoldStep(op, base, g, M)
           h == [g EXCEPT ![M] = m]
<1>8. M \in SUBSET S
  BY <1>4, <1>6
<1>9. m \in V
  <2>1. CASE M = {}
    BY <2>1 DEF FoldStep
  <2>2. CASE M # {}
    <3>1. Pick(M) \in S /\ M \ {Pick(M)} \in SUBSET S
      BY <1>8, <2>2, PickIn
    <3>2. g[M \ {Pick(M)}] \in V
      BY <3>1
    <3>3. op[Pick(M)][g[M \ {Pick(M)}]] \in V
      BY <3>1, <3>2
    <3>4. QED
      BY <2>2, <3>3 DEF FoldStep
  <2>3. QED
    BY <2>1, <2>2
<1>10. h \in [SUBSET S -> V]
  BY <1>8, <1>9
<1>11. ASSUME NEW s \in F PROVE h[s] = FoldStep(op, base, h, s)
  <2>1. s \in SUBSET S
    BY <1>4
  <2>2. s # {} => /\ Pick(s) \in s
                  /\ s \ {Pick(s)} \in SUBSET S
                  /\ s \ {Pick(s)} # M
    <3>1. SUFFICES ASSUME s # {} PROVE s \ {Pick(s)} # M
      BY <2>1, PickIn
    <3>2. Pick(s) \in s
      BY <3>1, PickIn
    <3>3. QED
      BY <1>6, <3>2
  <2>3. s # {} => h[s \ {Pick(s)}] = g[s \ {Pick(s)}]
    BY <2>2
  <2>4. FoldStep(op, base, h, s) = FoldStep(op, base, g, s)
    BY <2>3 DEF FoldStep
  <2>5. CASE s = M
    BY <2>4, <2>5, <1>8
  <2>6. CASE s # M
    <3>1. g[s] = FoldStep(op, base, g, s)
      BY <2>6, <1>7 DEF FoldTable
    <3>2. h[s] = g[s]
      BY <2>6, <2>1
    <3>3. QED
      BY <3>1, <3>2, <2>4
  <2>7. QED
    BY <2>5, <2>6
<1>12. FoldTable(op, base, h, F)
  BY <1>11 DEF FoldTable
<1>13. QED
  BY <1>4, <1>10, <1>12

(* What holds of the start and is kept by every step holds of the fold: W  *)
(* has, for the elements taken so far, the values there can be then.       *)
LEMMA FoldStays ==
  ASSUME NEW S, IsFiniteSet(S), NEW h, NEW W, h[{}] \in W[{}],
         \A s \in SUBSET S :
           s # {} /\ h[s \ {Pick(s)}] \in W[s \ {Pick(s)}] => h[s] \in W[s]
  PROVE  h[S] \in W[S]
<1> DEFINE Bad == {T \in SUBSET S : h[T] \notin W[T]}
<1>1. SUFFICES ASSUME Bad # {} PROVE FALSE
  <2>1. S \notin Bad
    BY <1>1
  <2>2. QED
    BY <2>1
<1>2. PICK T \in Bad : \A U \in Bad : U \subseteq T => U = T
  <2>1. Bad \subseteq SUBSET S
    OBVIOUS
  <2> HIDE DEF Bad
  <2>2. QED
    BY <1>1, <2>1, LeastSubset
<1>3. T \in SUBSET S /\ h[T] \notin W[T] /\ T # {}
  OBVIOUS
<1>4. Pick(T) \in T
  BY <1>3, PickIn
<1>5. T \ {Pick(T)} \notin Bad
  BY <1>2, <1>4
<1>6. h[T \ {Pick(T)}] \in W[T \ {Pick(T)}]
  BY <1>3, <1>5
<1>7. QED
  BY <1>3, <1>6

------------------------------------------------------------------------------
(* The types of a netlist's members, and what its lists and maps are,      *)
(* also halfway through the deletion of an instance.                       *)
Found == UNION {[D -> SUBSET Pins] : D \in SUBSET Nets}

Designs ==
  [insts : SUBSET Instances, pins : SUBSET Pins, nets : SUBSET Nets,
   gone : SUBSET (Nets \cup Instances),
   netOf : [Pins -> Nets \cup {NoNet}], termOf : [Pins -> Nets \cup {NoNet}],
   netPins : [Nets -> SUBSET Pins], netTerms : [Nets -> SUBSET Pins],
   constants : [0..1 -> SUBSET Nets], drvrs : Found]

Listed(d) ==
  /\ d.nets \cap d.gone = {}
  /\ DOMAIN d.drvrs \subseteq d.nets
  /\ \A p \in Pins :
       /\ d.netOf[p] # NoNet => p \in d.pins /\ d.netOf[p] \in d.nets
       /\ d.termOf[p] # NoNet => /\ p \in d.pins /\ d.termOf[p] \in d.nets \cup d.gone
                                 /\ Parent[d.termOf[p]] = InstanceOf[p]
  /\ \A n \in Nets, p \in Pins :
       /\ p \in d.netPins[n] <=> d.netOf[p] = n
       /\ p \in d.netTerms[n] <=> d.termOf[p] = n /\ n \in d.nets

Whole(d) == d.pins = {p \in Pins : InstanceOf[p] \in d.insts}

ListsInv(d) == d \in Designs /\ Listed(d) /\ Whole(d)

LEMMA NoNetApart == NoNet \notin Nets
BY NetlistAssumption

LEMMA FoundDef ==
  ASSUME NEW f
  PROVE  f \in Found <=> /\ f = [m \in DOMAIN f |-> f[m]] /\ DOMAIN f \subseteq Nets
                         /\ \A m \in DOMAIN f : f[m] \subseteq Pins
<1>1. ASSUME f \in Found
      PROVE  /\ f = [m \in DOMAIN f |-> f[m]] /\ DOMAIN f \subseteq Nets
             /\ \A m \in DOMAIN f : f[m] \subseteq Pins
  <2>1. PICK D \in SUBSET Nets : f \in [D -> SUBSET Pins]
    BY <1>1 DEF Found
  <2>2. QED
    BY <2>1
<1>2. ASSUME f = [m \in DOMAIN f |-> f[m]], DOMAIN f \subseteq Nets,
             \A m \in DOMAIN f : f[m] \subseteq Pins
      PROVE  f \in Found
  <2>1. f \in [DOMAIN f -> SUBSET Pins]
    BY <1>2
  <2>2. QED
    BY <1>2, <2>1 DEF Found
<1>3. QED
  BY <1>1, <1>2

LEMMA NothingFound == NoDrivers \in Found /\ DOMAIN NoDrivers = {}
<1>1. DOMAIN NoDrivers = {} /\ NoDrivers = [m \in DOMAIN NoDrivers |-> NoDrivers[m]]
  BY DEF NoDrivers
<1>2. QED
  BY <1>1, FoundDef

(* All members but the pins of nets and the drivers found.                 *)
SameButPins(d, e) ==
  /\ e.insts = d.insts /\ e.pins = d.pins /\ e.nets = d.nets /\ e.gone = d.gone
  /\ e.netOf = d.netOf /\ e.termOf = d.termOf /\ e.netTerms = d.netTerms
  /\ e.constants = d.constants

(* What is left of the drivers f found so far when a pin leaves a net: all *)
(* are forgotten where the net has terminals.                              *)
FoundWithout(f, n, p) == [m \in DOMAIN f |-> f[m] \ {q \in {p} : m = n}]

FoundOnLeaving(f, terms, n, p) ==
  IF ~IsDriver(p) THEN f ELSE IF terms[n] # {} THEN NoDrivers ELSE FoundWithout(f, n, p)

LeavesNet(d, n, p, e) ==
  /\ e \in Designs /\ SameButPins(d, e)
  /\ e.netPins = [d.netPins EXCEPT ![n] = @ \ {p}]
  /\ DOMAIN e.drvrs \subseteq DOMAIN d.drvrs
  /\ e.drvrs = FoundOnLeaving(d.drvrs, d.netTerms, n, p)

LEMMA LeaveNet ==
  ASSUME NEW d \in Designs, NEW n \in Nets, NEW p \in Pins,
         NEW e, e = DisconnectNetPin(d, n, p)
  PROVE  LeavesNet(d, n, p, e)
<1> USE DEF LeavesNet
<1> DEFINE pinsOf == [d.netPins EXCEPT ![n] = @ \ {p}]
           a == [d EXCEPT !.netPins = pinsOf]
           fewer == FoundWithout(d.drvrs, n, p)
<1>1. pinsOf \in [Nets -> SUBSET Pins]
  BY DEF Designs
<1>2. a = [d EXCEPT !.netPins[n] = @ \ {p}]
  BY DEF Designs
<1>3. fewer \in Found /\ DOMAIN fewer = DOMAIN d.drvrs
  <2>1. d.drvrs \in Found
    BY DEF Designs
  <2>2. /\ fewer = [m \in DOMAIN fewer |-> fewer[m]] /\ DOMAIN fewer \subseteq Nets
        /\ \A m \in DOMAIN fewer : fewer[m] \subseteq Pins
    BY <2>1, FoundDef DEF FoundWithout
  <2> HIDE DEF fewer
  <2>3. fewer \in Found
    BY <2>2, FoundDef
  <2>4. QED
    BY <2>3 DEF fewer, FoundWithout
<1> HIDE DEF pinsOf
<1>4. a \in Designs /\ SameButPins(d, a) /\ a.netPins = pinsOf /\ a.drvrs = d.drvrs
  BY <1>1 DEF Designs, SameButPins
<1>5. e = IF ~IsDriver(p) THEN a
          ELSE IF a.netTerms[n] # {} THEN ClearNetDrvrPinMap(a)
          ELSE [a EXCEPT !.drvrs = [m \in DOMAIN @ |-> @[m] \ {q \in {p} : m = n}]]
  BY <1>2 DEF DisconnectNetPin
<1>6. [a EXCEPT !.drvrs = [m \in DOMAIN @ |-> @[m] \ {q \in {p} : m = n}]]
        = [a EXCEPT !.drvrs = fewer]
  BY <1>4 DEF Designs, FoundWithout
<1> HIDE DEF a, fewer
<1>7. CASE ~IsDriver(p)
  BY <1>4, <1>5, <1>7 DEF pinsOf, FoundOnLeaving
<1>8. CASE IsDriver(p) /\ a.netTerms[n] # {}
  <2>1. e = [a EXCEPT !.drvrs = NoDrivers]
    BY <1>5, <1>8 DEF ClearNetDrvrPinMap
  <2>2. e \in Designs /\ SameButPins(d, e) /\ e.netPins = pinsOf /\ e.drvrs = NoDrivers
    BY <2>1, <1>4, NothingFound DEF Designs, SameButPins
  <2>3. QED
    BY <1>4, <1>8, <2>2, NothingFound DEF pinsOf, FoundOnLeaving, SameButPins
<1>9. CASE IsDriver(p) /\ a.netTerms[n] = {}
  <2>1. e = [a EXCEPT !.drvrs = fewer]
    BY <1>5, <1>6, <1>9
  <2>2. e \in Designs /\ SameButPins(d, e) /\ e.netPins = pinsOf /\ e.drvrs = fewer
    BY <2>1, <1>3, <1>4 DEF Designs, SameButPins
  <2>3. QED
    BY <1>3, <1>4, <1>9, <2>2 DEF pinsOf, fewer, FoundOnLeaving, SameButPins
<1>10. QED
  BY <1>7, <1>8, <1>9

FoundWith(f, n, p) == [m \in DOMAIN f |-> f[m] \cup {q \in {p} : m = n}]

FoundOnJoining(f, terms, n, p) ==
  IF ~IsDriver(p) THEN f ELSE IF terms[n] # {} THEN NoDrivers ELSE FoundWith(f, n, p)

(* Joining one, likewise.                                                  *)
JoinsNet(d, n, p, e) ==
  /\ e \in Designs /\ SameButPins(d, e)
  /\ e.netPins = [d.netPins EXCEPT ![n] = @ \cup {p}]
  /\ DOMAIN e.drvrs \subseteq DOMAIN d.drvrs
  /\ e.drvrs = FoundOnJoining(d.drvrs, d.netTerms, n, p)

LEMMA JoinNet ==
  ASSUME NEW d \in Designs, NEW n \in Nets, NEW p \in Pins,
         NEW e, e = ConnectNetPin(d, n, p)
  PROVE  JoinsNet(d, n, p, e)
<1> USE DEF JoinsNet
<1> DEFINE pinsOf == [d.netPins EXCEPT ![n] = @ \cup {p}]
           a == [d EXCEPT !.netPins = pinsOf]
           more == FoundWith(d.drvrs, n, p)
<1>1. pinsOf \in [Nets -> SUBSET Pins]
  BY DEF Designs
<1>2. a = [d EXCEPT !.netPins[n] = @ \cup {p}]
  BY DEF Designs
<1>3. more \in Found /\ DOMAIN more = DOMAIN d.drvrs
  <2>1. d.drvrs \in Found
    BY DEF Designs
  <2>2. /\ more = [m \in DOMAIN more |-> more[m]] /\ DOMAIN more \subseteq Nets
        /\ \A m \in DOMAIN more : more[m] \subseteq Pins
    BY <2>1, FoundDef DEF FoundWith
  <2> HIDE DEF more
  <2>3. more \in Found
    BY <2>2, FoundDef
  <2>4. QED
    BY <2>3 DEF more, FoundWith
<1> HIDE DEF pinsOf
<1>4. a \in Designs /\ SameButPins(d, a) /\ a.netPins = pinsOf /\ a.drvrs = d.drvrs
  BY <1>1 DEF Designs, SameButPins
<1>5. e = IF ~IsDriver(p) THEN a
          ELSE IF a.netTerms[n] # {} THEN ClearNetDrvrPinMap(a)
          ELSE [a EXCEPT !.drvrs = [m \in DOMAIN @ |-> @[m] \cup {q \in {p} : m = n}]]
  BY <1>2 DEF ConnectNetPin
<1>6. [a EXCEPT !.drvrs = [m \in DOMAIN @ |-> @[m] \cup {q \in {p} : m = n}]]
        = [a EXCEPT !.drvrs = more]
  BY <1>4 DEF Designs, FoundWith
<1> HIDE DEF a, more
<1>7. CASE ~IsDriver(p)
  BY <1>4, <1>5, <1>7 DEF pinsOf, FoundOnJoining
<1>8. CASE IsDriver(p) /\ a.netTerms[n] # {}
  <2>1. e = [a EXCEPT !.drvrs = NoDrivers]
    BY <1>5, <1>8 DEF ClearNetDrvrPinMap
  <2>2. e \in Designs /\ SameButPins(d, e) /\ e.netPins = pinsOf /\ e.drvrs = NoDrivers
    BY <2>1, <1>4, NothingFound DEF Designs, SameButPins
  <2>3. QED
    BY <1>4, <1>8, <2>2, NothingFound DEF pinsOf, FoundOnJoining, SameButPins
<1>9. CASE IsDriver(p) /\ a.netTerms[n] = {}
  <2>1. e = [a EXCEPT !.drvrs = more]
    BY <1>5, <1>6, <1>9
  <2>2. e \in Designs /\ SameButPins(d, e) /\ e.netPins = pinsOf /\ e.drvrs = more
    BY <2>1, <1>3, <1>4 DEF Designs, SameButPins
  <2>3. QED
    BY <1>3, <1>4, <1>9, <2>2 DEF pinsOf, more, FoundOnJoining, SameButPins
<1>10. QED
  BY <1>7, <1>8, <1>9

(* The pin leaves the net it is on, if it is on one.                       *)
LeftNet(d, p) == IF d.netOf[p] = NoNet THEN d ELSE DisconnectNetPin(d, d.netOf[p], p)

FoundOnLeavingAny(d, p) ==
  IF d.netOf[p] = NoNet THEN d.drvrs
  ELSE FoundOnLeaving(d.drvrs, d.netTerms, d.netOf[p], p)

LeavesAnyNet(d, p, e) ==
  /\ e \in Designs /\ SameButPins(d, e)
  /\ e.netPins = [m \in Nets |-> d.netPins[m] \ {p}]
  /\ DOMAIN e.drvrs \subseteq DOMAIN d.drvrs
  /\ e.drvrs = FoundOnLeavingAny(d, p)

LEMMA LeaveAnyNet ==
  ASSUME NEW d \in Designs, Listed(d), NEW p \in Pins, NEW e, e = LeftNet(d, p)
  PROVE  LeavesAnyNet(d, p, e)
<1> USE DEF LeavesAnyNet
<1> DEFINE n == d.netOf[p]
<1>1. n \in Nets \cup {NoNet} /\ d.netPins \in [Nets -> SUBSET Pins]
  BY DEF Designs
<1>2. \A m \in Nets : p \in d.netPins[m] <=> n = m
  BY DEF Listed
<1>3. CASE n = NoNet
  <2>1. e = d
    BY <1>3 DEF LeftNet
  <2>2. d.netPins = [m \in Nets |-> d.netPins[m] \ {p}]
    BY <1>1, <1>2, <1>3, NoNetApart
  <2>3. QED
    BY <1>3, <2>1, <2>2 DEF SameButPins, FoundOnLeavingAny
<1>4. CASE n # NoNet
  <2> HIDE DEF n
  <2>1. n \in Nets /\ e = DisconnectNetPin(d, n, p)
    BY <1>1, <1>4 DEF LeftNet, n
  <2>2. [d.netPins EXCEPT ![n] = @ \ {p}] = [m \in Nets |-> d.netPins[m] \ {p}]
    BY <1>1, <1>2, <2>1
  <2>3. /\ e \in Designs /\ SameButPins(d, e)
        /\ e.netPins = [d.netPins EXCEPT ![n] = @ \ {p}]
        /\ DOMAIN e.drvrs \subseteq DOMAIN d.drvrs
        /\ e.drvrs = FoundOnLeaving(d.drvrs, d.netTerms, n, p)
    <3>1. LeavesNet(d, n, p, e)
      BY <2>1, LeaveNet
    <3>2. QED
      BY <3>1 DEF LeavesNet
  <2>4. QED
    BY <1>4, <2>2, <2>3 DEF n, FoundOnLeavingAny
<1>5. QED
  BY <1>3, <1>4

------------------------------------------------------------------------------
(* What each edit does to the lists.                                       *)
Connects(d, p, n, e) ==
  /\ e \in Designs
  /\ e.insts = d.insts /\ e.pins = d.pins /\ e.nets = d.nets /\ e.gone = d.gone
  /\ e.constants = d.constants
  /\ DOMAIN e.drvrs \subseteq DOMAIN d.drvrs
  /\ InstanceOf[p] = Top =>
       /\ e.netOf = [d.netOf EXCEPT ![p] = NoNet] /\ e.termOf = [d.termOf EXCEPT ![p] = n]
       /\ e.netPins = [m \in Nets |-> d.netPins[m] \ {p}]
       /\ e.netTerms = [d.netTerms EXCEPT ![n] = @ \cup {p}]
       /\ e.drvrs = FoundOnLeavingAny(d, p)
  /\ InstanceOf[p] # Top =>
       /\ e.netOf = [d.netOf EXCEPT ![p] = n] /\ e.termOf = d.termOf
       /\ e.netPins = [m \in Nets |-> (d.netPins[m] \ {p}) \cup {q \in {p} : m = n}]
       /\ e.netTerms = d.netTerms
       /\ e.drvrs = FoundOnJoining(FoundOnLeavingAny(d, p), d.netTerms, n, p)

LEMMA ConnectDoes ==
  ASSUME NEW d \in Designs, Listed(d), NEW p \in Pins, NEW n \in Nets,
         NEW e, e = Connect(d, p, n)
  PROVE  Connects(d, p, n, e)
<1> USE DEF Connects
<1> DEFINE a == LeftNet(d, p)
<1>1. /\ a \in Designs /\ SameButPins(d, a)
      /\ a.netPins = [m \in Nets |-> d.netPins[m] \ {p}]
      /\ DOMAIN a.drvrs \subseteq DOMAIN d.drvrs
      /\ a.drvrs = FoundOnLeavingAny(d, p)
  <2> HIDE DEF a
  <2>1. a = LeftNet(d, p)
    BY DEF a
  <2>2. QED
    <3>1. LeavesAnyNet(d, p, a)
      BY <2>1, LeaveAnyNet
    <3>2. QED
      BY <3>1 DEF LeavesAnyNet
<1>2. e = IF InstanceOf[p] = Top
          THEN [a EXCEPT !.netTerms[n] = @ \cup {p}, !.termOf[p] = n, !.netOf[p] = NoNet]
          ELSE ConnectNetPin([a EXCEPT !.netOf[p] = n], n, p)
  BY DEF Connect, LeftNet
<1> HIDE DEF a
<1>3. CASE InstanceOf[p] = Top
  <2> DEFINE terms == [a.netTerms EXCEPT ![n] = @ \cup {p}]
             term == [a.termOf EXCEPT ![p] = n]
             net == [a.netOf EXCEPT ![p] = NoNet]
  <2>1. e = [a EXCEPT !.netTerms = terms, !.termOf = term, !.netOf = net]
    BY <1>1, <1>2, <1>3 DEF Designs
  <2>2. terms \in [Nets -> SUBSET Pins] /\ {term, net} \subseteq [Pins -> Nets \cup {NoNet}]
    BY <1>1 DEF Designs
  <2>3. terms = [d.netTerms EXCEPT ![n] = @ \cup {p}] /\ term = [d.termOf EXCEPT ![p] = n]
        /\ net = [d.netOf EXCEPT ![p] = NoNet]
    BY <1>1 DEF SameButPins
  <2> HIDE DEF terms, term, net
  <2>4. /\ e \in Designs /\ e.netTerms = terms /\ e.termOf = term /\ e.netOf = net
        /\ e.insts = a.insts /\ e.pins = a.pins /\ e.nets = a.nets /\ e.gone = a.gone
        /\ e.constants = a.constants
        /\ e.netPins = a.netPins /\ e.drvrs = a.drvrs
    BY <1>1, <2>1, <2>2 DEF Designs
  <2>5. QED
    BY <1>1, <1>3, <2>3, <2>4 DEF SameButPins
<1>4. CASE InstanceOf[p] # Top
  <2> DEFINE net == [a.netOf EXCEPT ![p] = n]
             b == [a EXCEPT !.netOf = net]
  <2>1. e = ConnectNetPin(b, n, p)
    BY <1>1, <1>2, <1>4 DEF Designs
  <2>2. net \in [Pins -> Nets \cup {NoNet}] /\ net = [d.netOf EXCEPT ![p] = n]
    BY <1>1 DEF Designs, SameButPins
  <2> HIDE DEF net
  <2>3. /\ b \in Designs /\ b.netOf = net /\ b.termOf = a.termOf /\ b.netTerms = a.netTerms
        /\ b.insts = a.insts /\ b.pins = a.pins /\ b.nets = a.nets /\ b.gone = a.gone
        /\ b.constants = a.constants
        /\ b.netPins = a.netPins /\ b.drvrs = a.drvrs
    BY <1>1, <2>2 DEF Designs
  <2> HIDE DEF b
  <2>4. /\ e \in Designs /\ SameButPins(b, e)
        /\ e.netPins = [b.netPins EXCEPT ![n] = @ \cup {p}]
        /\ DOMAIN e.drvrs \subseteq DOMAIN b.drvrs
        /\ e.drvrs = FoundOnJoining(b.drvrs, b.netTerms, n, p)
    <3>1. b \in Designs
      BY <2>3
    <3>2. QED
      <4>1. JoinsNet(b, n, p, e)
        BY <2>1, <3>1, JoinNet
      <4>2. QED
        BY <4>1 DEF JoinsNet
  <2>5. e.netPins = [m \in Nets |-> (d.netPins[m] \ {p}) \cup {q \in {p} : m = n}]
    <3>1. e.netPins = [a.netPins EXCEPT ![n] = @ \cup {p}]
      BY <2>3, <2>4
    <3>2. QED
      BY <1>1, <3>1
  <2>6. QED
    BY <1>1, <1>4, <2>2, <2>3, <2>4, <2>5 DEF SameButPins
<1>5. QED
  BY <1>3, <1>4

Disconnects(d, p, e) ==
  /\ e \in Designs
  /\ e.insts = d.insts /\ e.pins = d.pins /\ e.nets = d.nets /\ e.gone = d.gone
  /\ e.constants = d.constants
  /\ DOMAIN e.drvrs \subseteq DOMAIN d.drvrs
  /\ InstanceOf[p] = Top =>
       /\ e.netOf = d.netOf /\ e.netPins = d.netPins
       /\ e.termOf = [d.termOf EXCEPT ![p] = NoNet]
       /\ e.netTerms = [m \in Nets |-> d.netTerms[m] \ {p}]
       /\ e.drvrs = IF d.termOf[p] = NoNet THEN d.drvrs ELSE NoDrivers
  /\ InstanceOf[p] # Top =>
       /\ e.netOf = [d.netOf EXCEPT ![p] = NoNet] /\ e.termOf = d.termOf
       /\ e.netPins = [m \in Nets |-> d.netPins[m] \ {p}]
       /\ e.netTerms = d.netTerms
       /\ e.drvrs = FoundOnLeavingAny(d, p)

LEMMA DisconnectDoes ==
  ASSUME NEW d \in Designs, Listed(d), NEW p \in Pins, NEW e, e = Disconnect(d, p)
  PROVE  Disconnects(d, p, e)
<1> USE DEF Disconnects
<1>0. /\ d.netTerms \in [Nets -> SUBSET Pins] /\ d.termOf \in [Pins -> Nets \cup {NoNet}]
      /\ d.netOf \in [Pins -> Nets \cup {NoNet}] /\ NoNet \notin Nets
  BY NoNetApart DEF Designs
<1>1. CASE InstanceOf[p] = Top /\ d.termOf[p] = NoNet
  <2>1. e = d
    BY <1>1 DEF Disconnect
  <2>2. \A m \in Nets : p \notin d.netTerms[m]
    BY <1>0, <1>1 DEF Listed
  <2>3. d.netTerms = [m \in Nets |-> d.netTerms[m] \ {p}]
    BY <1>0, <2>2
  <2>4. d.termOf = [d.termOf EXCEPT ![p] = NoNet]
    BY <1>0, <1>1
  <2>5. QED
    BY <1>1, <2>1, <2>3, <2>4
<1>2. CASE InstanceOf[p] = Top /\ d.termOf[p] # NoNet
  <2> DEFINE n == d.termOf[p]
             terms == [d.netTerms EXCEPT ![n] = @ \ {p}]
             term == [d.termOf EXCEPT ![p] = NoNet]
  <2>1. e = [d EXCEPT !.netTerms = terms, !.termOf = term, !.drvrs = NoDrivers]
    <3>1. e = ClearNetDrvrPinMap([d EXCEPT !.netTerms[n] = @ \ {p}, !.termOf[p] = NoNet])
      BY <1>2 DEF Disconnect
    <3>2. QED
      BY <3>1 DEF ClearNetDrvrPinMap, Designs
  <2>2. terms \in [Nets -> SUBSET Pins] /\ term \in [Pins -> Nets \cup {NoNet}]
    BY <1>0
  <2>3. terms = [m \in Nets |-> d.netTerms[m] \ {p}]
    <3>1. \A m \in Nets : p \in d.netTerms[m] => m = n
      BY DEF Listed
    <3>2. QED
      BY <1>0, <3>1
  <2> HIDE DEF terms, term
  <2>4. /\ e \in Designs /\ e.netTerms = terms /\ e.termOf = term /\ e.drvrs = NoDrivers
        /\ e.insts = d.insts /\ e.pins = d.pins /\ e.nets = d.nets /\ e.gone = d.gone
        /\ e.constants = d.constants
        /\ e.netPins = d.netPins /\ e.netOf = d.netOf
    BY <2>1, <2>2, NothingFound DEF Designs
  <2>5. QED
    BY <1>2, <2>3, <2>4, NothingFound DEF term
<1>3. CASE InstanceOf[p] # Top
  <2> DEFINE a == LeftNet(d, p)
             net == [a.netOf EXCEPT ![p] = NoNet]
  <2>1. /\ a \in Designs /\ SameButPins(d, a)
        /\ a.netPins = [m \in Nets |-> d.netPins[m] \ {p}]
        /\ DOMAIN a.drvrs \subseteq DOMAIN d.drvrs
        /\ a.drvrs = FoundOnLeavingAny(d, p)
    <3> HIDE DEF a
    <3>1. a = LeftNet(d, p)
      BY DEF a
    <3>2. QED
      <4>1. LeavesAnyNet(d, p, a)
        BY <3>1, LeaveAnyNet
      <4>2. QED
        BY <4>1 DEF LeavesAnyNet
  <2>2. e = [a EXCEPT !.netOf = net]
    <3>1. CASE d.netOf[p] = NoNet
      <4>1. e = d /\ a = d
        BY <1>3, <3>1 DEF Disconnect, LeftNet
      <4>2. net = d.netOf
        BY <1>0, <3>1, <4>1
      <4>3. d = [d EXCEPT !.netOf = d.netOf]
        BY DEF Designs
      <4>4. QED
        BY <4>1, <4>2, <4>3
    <3>2. CASE d.netOf[p] # NoNet
      BY <1>3, <2>1, <3>2 DEF Disconnect, LeftNet, Designs
    <3>3. QED
      BY <3>1, <3>2
  <2>3. net \in [Pins -> Nets \cup {NoNet}] /\ net = [d.netOf EXCEPT ![p] = NoNet]
    BY <2>1 DEF Designs, SameButPins
  <2> HIDE DEF net, a
  <2>4. /\ e \in Designs /\ e.netOf = net /\ e.netTerms = a.netTerms /\ e.termOf = a.termOf
        /\ e.insts = a.insts /\ e.pins = a.pins /\ e.nets = a.nets /\ e.gone = a.gone
        /\ e.constants = a.constants
        /\ e.netPins = a.netPins /\ e.drvrs = a.drvrs
    BY <2>1, <2>2, <2>3 DEF Designs
  <2>5. QED
    BY <1>3, <2>1, <2>3, <2>4 DEF SameButPins
<1>4. QED
  BY <1>1, <1>2, <1>3

DeletesNet(d, n, e) ==
  /\ e \in Designs
  /\ e.insts = d.insts /\ e.pins = d.pins /\ e.termOf = d.termOf
  /\ e.nets = d.nets \ {n} /\ e.gone = d.gone \cup {n}
  /\ e.netOf = [p \in Pins |-> IF p \in d.netPins[n] THEN NoNet ELSE d.netOf[p]]
  /\ e.netPins = [d.netPins EXCEPT ![n] = {}]
  /\ e.netTerms = [d.netTerms EXCEPT ![n] = {}]
  /\ e.drvrs = [m \in DOMAIN d.drvrs \ {n} |-> d.drvrs[m]]

LEMMA DeleteNetDoes ==
  ASSUME NEW d \in Designs, NEW n \in Nets, NEW e, e = DeleteNet(n, d)
  PROVE  DeletesNet(d, n, e)
<1> USE DEF DeletesNet
<1> DEFINE net == [p \in Pins |-> IF p \in d.netPins[n] THEN NoNet ELSE d.netOf[p]]
           pinsOf == [d.netPins EXCEPT ![n] = {}]
           terms == [d.netTerms EXCEPT ![n] = {}]
           const == [v \in 0..1 |-> d.constants[v] \ {n}]
           fewer == [m \in DOMAIN d.drvrs \ {n} |-> d.drvrs[m]]
<1>1. e = [d EXCEPT !.netOf = net, !.netPins = pinsOf, !.netTerms = terms,
                    !.nets = @ \ {n}, !.gone = @ \cup {n}, !.constants = const, !.drvrs = fewer]
  BY DEF DeleteNet, Designs
<1>2. /\ net \in [Pins -> Nets \cup {NoNet}] /\ const \in [0..1 -> SUBSET Nets]
      /\ pinsOf \in [Nets -> SUBSET Pins] /\ terms \in [Nets -> SUBSET Pins]
  BY DEF Designs
<1>3. fewer \in Found
  <2>1. d.drvrs \in Found
    BY DEF Designs
  <2>2. /\ fewer = [m \in DOMAIN fewer |-> fewer[m]] /\ DOMAIN fewer \subseteq Nets
        /\ \A m \in DOMAIN fewer : fewer[m] \subseteq Pins
    BY <2>1, FoundDef
  <2> HIDE DEF fewer
  <2>3. QED
    BY <2>2, FoundDef
<1> DEFINE nets == d.nets \ {n}
           gone == d.gone \cup {n}
<1>11. e = [d EXCEPT !.netOf = net, !.netPins = pinsOf, !.netTerms = terms,
                     !.nets = nets, !.gone = gone, !.constants = const, !.drvrs = fewer]
  BY <1>1
<1>12. nets \in SUBSET Nets /\ gone \in SUBSET (Nets \cup Instances)
  BY DEF Designs
<1> HIDE DEF net, pinsOf, terms, const, fewer, nets, gone
<1>4. /\ e \in Designs /\ e.netOf = net /\ e.netPins = pinsOf /\ e.netTerms = terms
      /\ e.drvrs = fewer /\ e.insts = d.insts /\ e.pins = d.pins /\ e.termOf = d.termOf
      /\ e.nets = nets /\ e.gone = gone
  BY <1>11, <1>12, <1>2, <1>3 DEF Designs
<1>5. QED
  BY <1>4 DEF net, pinsOf, terms, fewer, nets, gone

LEMMA DeleteNetListed ==
  ASSUME NEW d \in Designs, Listed(d), NEW n \in Nets, NEW e, e = DeleteNet(n, d)
  PROVE  Listed(e)
<1>1. /\ e \in Designs
      /\ e.insts = d.insts /\ e.pins = d.pins /\ e.termOf = d.termOf
      /\ e.nets = d.nets \ {n} /\ e.gone = d.gone \cup {n}
      /\ e.netOf = [p \in Pins |-> IF p \in d.netPins[n] THEN NoNet ELSE d.netOf[p]]
      /\ e.netPins = [d.netPins EXCEPT ![n] = {}]
      /\ e.netTerms = [d.netTerms EXCEPT ![n] = {}]
      /\ e.drvrs = [m \in DOMAIN d.drvrs \ {n} |-> d.drvrs[m]]
  <2>1. DeletesNet(d, n, e)
    BY DeleteNetDoes
  <2>2. QED
    BY <2>1 DEF DeletesNet
<1>2. /\ d.netPins \in [Nets -> SUBSET Pins] /\ d.netTerms \in [Nets -> SUBSET Pins]
      /\ NoNet \notin Nets
  BY NoNetApart DEF Designs
<1>3. e.nets \cap e.gone = {} /\ DOMAIN e.drvrs \subseteq e.nets
  BY <1>1 DEF Listed
<1>4. ASSUME NEW p \in Pins
      PROVE  /\ e.netOf[p] # NoNet => p \in e.pins /\ e.netOf[p] \in e.nets
             /\ e.termOf[p] # NoNet => /\ p \in e.pins /\ e.termOf[p] \in e.nets \cup e.gone
                                       /\ Parent[e.termOf[p]] = InstanceOf[p]
  BY <1>1, <1>2 DEF Listed
<1>5. ASSUME NEW m \in Nets, NEW p \in Pins
      PROVE  /\ p \in e.netPins[m] <=> e.netOf[p] = m
             /\ p \in e.netTerms[m] <=> e.termOf[p] = m /\ m \in e.nets
  <2>1. /\ p \in d.netPins[m] <=> d.netOf[p] = m
        /\ p \in d.netPins[n] <=> d.netOf[p] = n
        /\ p \in d.netTerms[m] <=> d.termOf[p] = m /\ m \in d.nets
    BY DEF Listed
  <2>2. QED
    BY <1>1, <1>2, <2>1
<1>6. QED
  BY <1>3, <1>4, <1>5 DEF Listed

DeletesPin(d, p, e) ==
  /\ e \in Designs
  /\ e.insts = d.insts /\ e.nets = d.nets /\ e.gone = d.gone /\ e.pins = d.pins \ {p}
  /\ e.constants = d.constants
  /\ e.netOf = [d.netOf EXCEPT ![p] = NoNet] /\ e.termOf = [d.termOf EXCEPT ![p] = NoNet]
  /\ e.netPins = [m \in Nets |-> d.netPins[m] \ {p}] /\ e.netTerms = d.netTerms
  /\ DOMAIN e.drvrs \subseteq DOMAIN d.drvrs
  /\ e.drvrs = FoundOnLeavingAny(d, p)

LEMMA DeletePinDoes ==
  ASSUME NEW d \in Designs, Listed(d), NEW p \in Pins, NEW e, e = DeletePin(p, d)
  PROVE  DeletesPin(d, p, e)
<1> USE DEF DeletesPin
<1> DEFINE a == LeftNet(d, p)
           net == [a.netOf EXCEPT ![p] = NoNet]
           term == [a.termOf EXCEPT ![p] = NoNet]
<1>1. /\ a \in Designs /\ SameButPins(d, a)
      /\ a.netPins = [m \in Nets |-> d.netPins[m] \ {p}]
      /\ DOMAIN a.drvrs \subseteq DOMAIN d.drvrs
      /\ a.drvrs = FoundOnLeavingAny(d, p)
  <2> HIDE DEF a
  <2>1. a = LeftNet(d, p)
    BY DEF a
  <2>2. QED
    <3>1. LeavesAnyNet(d, p, a)
      BY <2>1, LeaveAnyNet
    <3>2. QED
      BY <3>1 DEF LeavesAnyNet
<1> DEFINE pins == a.pins \ {p}
<1>2. e = [a EXCEPT !.pins = pins, !.netOf = net, !.termOf = term]
  BY <1>1 DEF DeletePin, LeftNet, Designs
<1>3. /\ net = [d.netOf EXCEPT ![p] = NoNet] /\ term = [d.termOf EXCEPT ![p] = NoNet]
      /\ net \in [Pins -> Nets \cup {NoNet}] /\ term \in [Pins -> Nets \cup {NoNet}]
      /\ pins \in SUBSET Pins
  BY <1>1 DEF SameButPins, Designs
<1>13. a \in Designs
  BY <1>1
<1> HIDE DEF a, net, term, pins
<1>4. /\ e \in Designs /\ e.netOf = net /\ e.termOf = term /\ e.pins = pins
      /\ e.insts = a.insts /\ e.nets = a.nets /\ e.gone = a.gone
      /\ e.constants = a.constants
      /\ e.netPins = a.netPins /\ e.netTerms = a.netTerms /\ e.drvrs = a.drvrs
  BY <1>13, <1>2, <1>3 DEF Designs
<1>5. QED
  BY <1>1, <1>3, <1>4 DEF SameButPins, pins

(* A pin may go once its terminal is on no net any more.                   *)
LEMMA DeletePinListed ==
  ASSUME NEW d \in Designs, Listed(d), NEW p \in Pins, d.termOf[p] \notin d.nets,
         NEW e, e = DeletePin(p, d)
  PROVE  Listed(e)
<1>1. /\ e \in Designs
      /\ e.nets = d.nets /\ e.gone = d.gone /\ e.pins = d.pins \ {p}
      /\ e.netOf = [d.netOf EXCEPT ![p] = NoNet] /\ e.termOf = [d.termOf EXCEPT ![p] = NoNet]
      /\ e.netPins = [m \in Nets |-> d.netPins[m] \ {p}] /\ e.netTerms = d.netTerms
      /\ DOMAIN e.drvrs \subseteq DOMAIN d.drvrs
  <2>1. DeletesPin(d, p, e)
    BY DeletePinDoes
  <2>2. QED
    BY <2>1 DEF DeletesPin
<1>2. /\ d.netPins \in [Nets -> SUBSET Pins] /\ d.netOf \in [Pins -> Nets \cup {NoNet}]
      /\ d.termOf \in [Pins -> Nets \cup {NoNet}] /\ NoNet \notin Nets /\ d.nets \subseteq Nets
  BY NoNetApart DEF Designs
<1>3. e.nets \cap e.gone = {} /\ DOMAIN e.drvrs \subseteq e.nets
  BY <1>1 DEF Listed
<1>4. ASSUME NEW q \in Pins
      PROVE  /\ e.netOf[q] # NoNet => q \in e.pins /\ e.netOf[q] \in e.nets
             /\ e.termOf[q] # NoNet => /\ q \in e.pins /\ e.termOf[q] \in e.nets \cup e.gone
                                       /\ Parent[e.termOf[q]] = InstanceOf[q]
  BY <1>1, <1>2 DEF Listed
<1>5. ASSUME NEW m \in Nets, NEW q \in Pins
      PROVE  /\ q \in e.netPins[m] <=> e.netOf[q] = m
             /\ q \in e.netTerms[m] <=> e.termOf[q] = m /\ m \in e.nets
  <2>1. /\ q \in d.netPins[m] <=> d.netOf[q] = m
        /\ q \in d.netTerms[m] <=> d.termOf[q] = m /\ m \in d.nets
    BY DEF Listed
  <2>2. CASE q = p
    BY <1>1, <1>2, <2>1, <2>2
  <2>3. CASE q # p
    BY <1>1, <1>2, <2>1, <2>3
  <2>4. QED
    BY <2>2, <2>3
<1>6. QED
  BY <1>3, <1>4, <1>5 DEF Listed

------------------------------------------------------------------------------
(* deleteInstance deletes one net after the other, then one pin after the  *)
(* other.                                                                  *)
LEMMA NetsDeleted ==
  ASSUME NEW d \in Designs, NEW S \in SUBSET Nets
  PROVE  \E h : /\ h[{}] = d /\ FoldSet(DeleteNet, d, S) = h[S]
               /\ \A s \in SUBSET S :
                    s # {} => h[s] = DeleteNet(Pick(s), h[s \ {Pick(s)}])
<1> DEFINE Step(iter, s) == IF s = {} THEN d ELSE DeleteNet(Pick(s), iter[s \ {Pick(s)}])
           Is(iter) == iter = [s \in SUBSET S |-> Step(iter, s)]
           op == [n \in S |-> [x \in Designs |-> DeleteNet(n, x)]]
<1>1. FoldSet(DeleteNet, d, S) = (CHOOSE iter : Is(iter))[S]
  BY DEF FoldSet, MapThenFoldSet, Pick
<1>2. op \in [S -> [Designs -> Designs]]
  <2>1. \A n \in S, x \in Designs : DeletesNet(x, n, DeleteNet(n, x))
    BY DeleteNetDoes
  <2>2. QED
    BY <2>1 DEF DeletesNet
<1>3. IsFiniteSet(S)
  BY NetlistAssumption, FS_Subset
<1>4. PICK g \in [SUBSET S -> Designs] : FoldTable(op, d, g, SUBSET S)
  <2> HIDE DEF op
  <2>1. QED
    BY <1>2, <1>3, FoldTableExists
<1>5. ASSUME NEW s \in SUBSET S PROVE g[s] = Step(g, s)
  <2>1. g[s] = FoldStep(op, d, g, s)
    BY <1>4 DEF FoldTable
  <2>2. CASE s = {}
    BY <2>1, <2>2 DEF FoldStep
  <2>3. CASE s # {}
    <3>1. Pick(s) \in S /\ s \ {Pick(s)} \in SUBSET S
      BY <2>3, PickIn
    <3>2. g[s \ {Pick(s)}] \in Designs
      BY <3>1
    <3>3. op[Pick(s)][g[s \ {Pick(s)}]] = DeleteNet(Pick(s), g[s \ {Pick(s)}])
      BY <3>1, <3>2
    <3> HIDE DEF op
    <3>4. QED
      BY <2>1, <2>3, <3>3 DEF FoldStep
  <2>4. QED
    BY <2>2, <2>3
<1>6. Is(g)
  <2> HIDE DEF Step
  <2>1. QED
    BY <1>5
<1> DEFINE h == CHOOSE iter : Is(iter)
<1>7. Is(h)
  <2> HIDE DEF Is
  <2>1. QED
    BY <1>6
<1> HIDE DEF h
<1>8. \A s \in SUBSET S : h[s] = Step(h, s)
  <2> HIDE DEF Step
  <2>1. QED
    BY <1>7
<1>9. h[{}] = d /\ FoldSet(DeleteNet, d, S) = h[S]
  <2>1. h[{}] = Step(h, {})
    BY <1>8
  <2>2. QED
    BY <2>1, <1>1 DEF h
<1>10. \A s \in SUBSET S : s # {} => h[s] = DeleteNet(Pick(s), h[s \ {Pick(s)}])
  BY <1>8
<1>11. QED
  BY <1>9, <1>10

LEMMA DeletePinKeeps ==
  ASSUME NEW d \in Designs, Listed(d), NEW p \in Pins, d.termOf[p] \notin d.nets
  PROVE  /\ DeletePin(p, d) \in Designs /\ DeletePin(p, d).nets = d.nets
         /\ DeletePin(p, d).termOf = [d.termOf EXCEPT ![p] = NoNet]
         /\ Listed(DeletePin(p, d))
<1> DEFINE e == DeletePin(p, d)
<1>1. e = DeletePin(p, d)
  OBVIOUS
<1> HIDE DEF e
<1>2. e \in Designs /\ e.nets = d.nets /\ e.termOf = [d.termOf EXCEPT ![p] = NoNet]
  <2>1. DeletesPin(d, p, e)
    BY <1>1, DeletePinDoes
  <2>2. QED
    BY <2>1 DEF DeletesPin
<1>3. Listed(e)
  BY <1>1, DeletePinListed
<1>4. QED
  BY <1>2, <1>3 DEF e

LEMMA PinsDeleted ==
  ASSUME NEW d \in Designs, Listed(d), NEW S \in SUBSET Pins,
         \A p \in S : d.termOf[p] \notin d.nets
  PROVE  \E h : /\ h[{}] = d /\ FoldSet(DeletePin, d, S) = h[S]
               /\ \A s \in SUBSET S :
                    s # {} => h[s] = DeletePin(Pick(s), h[s \ {Pick(s)}])
<1> DEFINE Step(iter, s) == IF s = {} THEN d ELSE DeletePin(Pick(s), iter[s \ {Pick(s)}])
           Is(iter) == iter = [s \in SUBSET S |-> Step(iter, s)]
           V == {x \in Designs : Listed(x) /\ x.nets = d.nets
                                   /\ \A p \in S : x.termOf[p] \notin d.nets}
           op == [p \in S |-> [x \in V |-> DeletePin(p, x)]]
<1>1. FoldSet(DeletePin, d, S) = (CHOOSE iter : Is(iter))[S]
  BY DEF FoldSet, MapThenFoldSet, Pick
<1>2. op \in [S -> [V -> V]]
  <2>1. ASSUME NEW p \in S, NEW x \in V PROVE DeletePin(p, x) \in V
    <3>1. /\ x \in Designs /\ Listed(x) /\ x.nets = d.nets /\ p \in Pins
          /\ \A q \in S : x.termOf[q] \notin d.nets
      OBVIOUS
    <3>2. /\ DeletePin(p, x) \in Designs /\ DeletePin(p, x).nets = x.nets
          /\ DeletePin(p, x).termOf = [x.termOf EXCEPT ![p] = NoNet]
          /\ Listed(DeletePin(p, x))
      <4> HIDE DEF V, op
      <4>1. QED
        BY <3>1, DeletePinKeeps
    <3>3. ASSUME NEW q \in S PROVE DeletePin(p, x).termOf[q] \notin d.nets
      BY <3>1, <3>2, NoNetApart DEF Designs
    <3>4. QED
      BY <3>1, <3>2, <3>3
  <2>2. QED
    BY <2>1
<1>3. IsFiniteSet(S) /\ d \in V
  BY NetlistAssumption, FS_Subset
<1>4. PICK g \in [SUBSET S -> V] : FoldTable(op, d, g, SUBSET S)
  <2> HIDE DEF op, V
  <2>1. QED
    BY <1>2, <1>3, FoldTableExists
<1> HIDE DEF V
<1>5. ASSUME NEW s \in SUBSET S PROVE g[s] = Step(g, s)
  <2>1. g[s] = FoldStep(op, d, g, s)
    BY <1>4 DEF FoldTable
  <2>2. CASE s = {}
    BY <2>1, <2>2 DEF FoldStep
  <2>3. CASE s # {}
    <3>1. Pick(s) \in S /\ s \ {Pick(s)} \in SUBSET S
      BY <2>3, PickIn
    <3>2. g[s \ {Pick(s)}] \in V
      BY <3>1
    <3>3. op[Pick(s)][g[s \ {Pick(s)}]] = DeletePin(Pick(s), g[s \ {Pick(s)}])
      BY <3>1, <3>2
    <3> HIDE DEF op
    <3>4. QED
      BY <2>1, <2>3, <3>3 DEF FoldStep
  <2>4. QED
    BY <2>2, <2>3
<1>6. Is(g)
  <2> HIDE DEF Step
  <2>1. QED
    BY <1>5
<1> DEFINE h == CHOOSE iter : Is(iter)
<1>7. Is(h)
  <2> HIDE DEF Is
  <2>1. QED
    BY <1>6
<1> HIDE DEF h
<1>8. \A s \in SUBSET S : h[s] = Step(h, s)
  <2> HIDE DEF Step
  <2>1. QED
    BY <1>7
<1>9. h[{}] = d /\ FoldSet(DeletePin, d, S) = h[S]
  <2>1. h[{}] = Step(h, {})
    BY <1>8
  <2>2. QED
    BY <2>1, <1>1 DEF h
<1>10. \A s \in SUBSET S : s # {} => h[s] = DeletePin(Pick(s), h[s \ {Pick(s)}])
  BY <1>8
<1>11. QED
  BY <1>9, <1>10

(* The nets in the instance go, and nothing else yet.                      *)
WithoutNets(d, S, x) ==
  /\ x \in Designs /\ Listed(x)
  /\ x.nets = d.nets \ S /\ x.pins = d.pins /\ x.insts = d.insts /\ x.termOf = d.termOf
  /\ DOMAIN x.drvrs \subseteq DOMAIN d.drvrs
  /\ \A p \in Pins : x.netOf[p] \in {d.netOf[p], NoNet}

LEMMA DeletingNets ==
  ASSUME NEW d \in Designs, Listed(d), NEW S \in SUBSET Nets
  PROVE  WithoutNets(d, S, FoldSet(DeleteNet, d, S))
<1>1. PICK h : /\ h[{}] = d /\ FoldSet(DeleteNet, d, S) = h[S]
               /\ \A s \in SUBSET S :
                    s # {} => h[s] = DeleteNet(Pick(s), h[s \ {Pick(s)}])
  BY NetsDeleted
<1> DEFINE W == [s \in SUBSET S |-> {x \in Designs : WithoutNets(d, s, x)}]
<1>2. h[{}] \in W[{}]
  <2>1. WithoutNets(d, {}, d) /\ d \in Designs
    BY DEF WithoutNets
  <2>2. QED
    BY <1>1, <2>1
<1>3. ASSUME NEW s \in SUBSET S, s # {}, h[s \ {Pick(s)}] \in W[s \ {Pick(s)}]
      PROVE  h[s] \in W[s]
  <2> DEFINE n == Pick(s)
             x == h[s \ {n}]
  <2>1. n \in s /\ n \in Nets
    BY <1>3, PickIn
  <2>2. WithoutNets(d, s \ {n}, x)
    BY <1>3
  <2>3. h[s] = DeleteNet(n, x)
    BY <1>1, <1>3
  <2> HIDE DEF n, x, W
  <2>4. x \in Designs /\ Listed(x)
    BY <2>2 DEF WithoutNets
  <2>5. DeletesNet(x, n, h[s])
    BY <2>1, <2>3, <2>4, DeleteNetDoes
  <2>6. Listed(h[s])
    BY <2>1, <2>3, <2>4, DeleteNetListed
  <2>7. d.nets \ s = (d.nets \ (s \ {n})) \ {n}
    BY <2>1
  <2>8. WithoutNets(d, s, h[s])
    <3>1. /\ DOMAIN h[s].drvrs \subseteq DOMAIN x.drvrs
          /\ \A q \in Pins : h[s].netOf[q] \in {x.netOf[q], NoNet}
      BY <2>5 DEF DeletesNet
    <3>2. QED
      BY <2>2, <2>5, <2>6, <2>7, <3>1 DEF WithoutNets, DeletesNet
  <2>9. QED
    <3>1. h[s] \in Designs
      BY <2>8 DEF WithoutNets
    <3>2. QED
      BY <2>8, <3>1 DEF W
<1>4. IsFiniteSet(S)
  BY NetlistAssumption, FS_Subset
<1>5. h[S] \in W[S]
  <2> HIDE DEF W
  <2>1. QED
    BY <1>2, <1>3, <1>4, FoldStays
<1>6. QED
  BY <1>1, <1>5

(* Then its pins.                                                          *)
WithoutPins(d, S, x) ==
  /\ x \in Designs /\ Listed(x)
  /\ x.nets = d.nets /\ x.pins = d.pins \ S /\ x.insts = d.insts
  /\ x.gone = d.gone /\ x.constants = d.constants
  /\ \A p \in Pins : d.termOf[p] \notin d.nets => x.termOf[p] \notin d.nets
  /\ DOMAIN x.drvrs \subseteq DOMAIN d.drvrs
  /\ \A p \in Pins : /\ x.netOf[p] = IF p \in S THEN NoNet ELSE d.netOf[p]
                     /\ p \notin S => x.termOf[p] = d.termOf[p]

LEMMA DeletingPins ==
  ASSUME NEW d \in Designs, Listed(d), NEW S \in SUBSET Pins,
         \A p \in S : d.termOf[p] \notin d.nets
  PROVE  WithoutPins(d, S, FoldSet(DeletePin, d, S))
<1>1. PICK h : /\ h[{}] = d /\ FoldSet(DeletePin, d, S) = h[S]
               /\ \A s \in SUBSET S :
                    s # {} => h[s] = DeletePin(Pick(s), h[s \ {Pick(s)}])
  BY PinsDeleted
<1> DEFINE W == [s \in SUBSET S |-> {x \in Designs : WithoutPins(d, s, x)}]
<1>2. h[{}] \in W[{}]
  <2>1. WithoutPins(d, {}, d) /\ d \in Designs
    BY DEF WithoutPins
  <2>2. QED
    BY <1>1, <2>1
<1>3. ASSUME NEW s \in SUBSET S, s # {}, h[s \ {Pick(s)}] \in W[s \ {Pick(s)}]
      PROVE  h[s] \in W[s]
  <2> DEFINE p == Pick(s)
             x == h[s \ {p}]
  <2>1. p \in s /\ p \in S /\ p \in Pins
    BY <1>3, PickIn
  <2>2. WithoutPins(d, s \ {p}, x)
    BY <1>3
  <2>3. h[s] = DeletePin(p, x)
    BY <1>1, <1>3
  <2> HIDE DEF p, x, W
  <2>4. x \in Designs /\ Listed(x) /\ x.termOf[p] \notin x.nets
    BY <2>1, <2>2 DEF WithoutPins
  <2>5. DeletesPin(x, p, h[s])
    BY <2>1, <2>3, <2>4, DeletePinDoes
  <2>6. Listed(h[s])
    BY <2>1, <2>3, <2>4, DeletePinListed
  <2>7. d.pins \ s = (d.pins \ (s \ {p})) \ {p}
    BY <2>1
  <2>8. \A q \in Pins : d.termOf[q] \notin d.nets => h[s].termOf[q] \notin d.nets
    <3>1. /\ h[s].termOf = [x.termOf EXCEPT ![p] = NoNet] /\ x.termOf \in [Pins -> Nets \cup {NoNet}]
          /\ NoNet \notin d.nets
      BY <2>4, <2>5, NoNetApart DEF DeletesPin, Designs
    <3>2. QED
      BY <2>1, <2>2, <3>1 DEF WithoutPins
  <2>9. WithoutPins(d, s, h[s])
    <3>1. /\ DOMAIN h[s].drvrs \subseteq DOMAIN x.drvrs
          /\ \A q \in Pins : /\ h[s].netOf[q] = IF q = p THEN NoNet ELSE x.netOf[q]
                             /\ q # p => h[s].termOf[q] = x.termOf[q]
      BY <2>4, <2>5 DEF DeletesPin, Designs
    <3>2. ASSUME NEW q \in Pins
          PROVE  /\ h[s].netOf[q] = IF q \in s THEN NoNet ELSE d.netOf[q]
                 /\ q \notin s => h[s].termOf[q] = d.termOf[q]
      BY <2>1, <2>2, <3>1 DEF WithoutPins
    <3>3. QED
      BY <2>2, <2>5, <2>6, <2>7, <2>8, <3>1, <3>2 DEF WithoutPins, DeletesPin
  <2>10. QED
    <3>1. h[s] \in Designs
      BY <2>9 DEF WithoutPins
    <3>2. QED
      BY <2>9, <3>1 DEF W
<1>4. IsFiniteSet(S)
  BY NetlistAssumption, FS_Subset
<1>5. h[S] \in W[S]
  <2> HIDE DEF W
  <2>1. QED
    BY <1>2, <1>3, <1>4, FoldStays
<1>6. QED
  BY <1>1, <1>5

LEMMA DeleteInstanceLists ==
  ASSUME NEW d, ListsInv(d), NEW i \in Instances, NEW e, e = DeleteInstance(d, i)
  PROVE  /\ ListsInv(e) /\ DOMAIN e.drvrs \subseteq DOMAIN d.drvrs
         /\ \A p \in Pins : e.netOf[p] \in {d.netOf[p], NoNet}
<1> DEFINE below == Below(i)
           nets == {n \in d.nets : Parent[n] \in below}
           inside == FoldSet(DeleteNet, d, nets)
           pins == {p \in d.pins : InstanceOf[p] \in below}
           x == FoldSet(DeletePin, inside, pins)
           left == d.insts \ below
           gone == x.gone \cup below
<1>1. d \in Designs /\ Listed(d) /\ Whole(d)
  BY DEF ListsInv
<1>2. below \subseteq Instances /\ nets \in SUBSET Nets /\ pins \in SUBSET Pins
  BY <1>1 DEF Below, Designs
<1>3. e = [x EXCEPT !.insts = @ \ below, !.gone = @ \cup below]
  BY DEF DeleteInstance
<1>4. WithoutNets(d, nets, inside)
  <2> HIDE DEF nets
  <2>1. QED
    BY <1>1, <1>2, DeletingNets
<1>5. \A p \in pins : inside.termOf[p] \notin inside.nets
  <2>1. SUFFICES ASSUME NEW p \in pins, d.termOf[p] \in d.nets PROVE d.termOf[p] \in nets
    BY <1>4 DEF WithoutNets
  <2>2. d.termOf[p] # NoNet /\ p \in Pins
    BY <1>1, <1>2, <2>1, NoNetApart DEF Designs
  <2>3. Parent[d.termOf[p]] = InstanceOf[p]
    BY <1>1, <2>2 DEF Listed
  <2>4. QED
    BY <2>1, <2>3
<1>6. WithoutPins(inside, pins, x)
  <2>1. inside \in Designs /\ Listed(inside)
    BY <1>4 DEF WithoutNets
  <2> HIDE DEF inside, pins
  <2>2. QED
    BY <1>2, <1>5, <2>1, DeletingPins
<1> HIDE DEF below, inside, x
<1>7. /\ x \in Designs /\ Listed(x) /\ x.nets \subseteq Nets
      /\ x.pins = d.pins \ pins /\ x.insts = d.insts
      /\ DOMAIN x.drvrs \subseteq DOMAIN d.drvrs
      /\ \A p \in Pins : x.netOf[p] \in {d.netOf[p], NoNet}
  BY <1>4, <1>6 DEF WithoutNets, WithoutPins, Designs
<1>8. left \in SUBSET Instances /\ gone \in SUBSET (Nets \cup Instances)
  BY <1>1, <1>2, <1>7 DEF Designs
<1>9. e = [x EXCEPT !.insts = left, !.gone = gone]
  BY <1>3, <1>7
<1> HIDE DEF left, gone
<1>10. /\ e \in Designs /\ e.insts = left /\ e.gone = gone /\ e.nets = x.nets /\ e.pins = x.pins
       /\ e.netOf = x.netOf /\ e.termOf = x.termOf /\ e.netPins = x.netPins
       /\ e.netTerms = x.netTerms /\ e.drvrs = x.drvrs
  BY <1>7, <1>8, <1>9 DEF Designs
<1>11. Listed(e)
  <2>1. x.nets \cap gone = {}
    BY <1>2, <1>7, NetlistAssumption DEF Listed, gone
  <2>2. x.gone \subseteq gone
    BY DEF gone
  <2>3. QED
    BY <1>7, <1>10, <2>1, <2>2 DEF Listed
<1>12. Whole(e)
  BY <1>1, <1>7, <1>10 DEF Whole, left, pins
<1>13. QED
  BY <1>7, <1>10, <1>11, <1>12 DEF ListsInv

------------------------------------------------------------------------------
(* The other edits keep the lists too.                                     *)
LEMMA ConnectLists ==
  ASSUME NEW d, ListsInv(d), NEW p \in d.pins, NEW n \in d.nets,
         InstanceOf[p] = Top => d.termOf[p] = NoNet, Parent[n] = Scope(p),
         NEW e, e = Connect(d, p, n)
  PROVE  ListsInv(e)
<1>1. d \in Designs /\ Listed(d) /\ Whole(d) /\ p \in Pins /\ n \in Nets
  BY DEF ListsInv, Designs
<1>2. Connects(d, p, n, e)
  BY <1>1, ConnectDoes
<1>3. /\ d.netPins \in [Nets -> SUBSET Pins] /\ d.netTerms \in [Nets -> SUBSET Pins]
      /\ d.netOf \in [Pins -> Nets \cup {NoNet}] /\ d.termOf \in [Pins -> Nets \cup {NoNet}]
  BY <1>1 DEF Designs
<1>4. e \in Designs /\ Whole(e)
  BY <1>1, <1>2 DEF Connects, Whole
<1>5. e.nets \cap e.gone = {} /\ DOMAIN e.drvrs \subseteq e.nets
  BY <1>1, <1>2 DEF Connects, Listed
<1>6. CASE InstanceOf[p] = Top
  <2>1. /\ e.pins = d.pins /\ e.nets = d.nets /\ e.gone = d.gone
        /\ e.netOf = [d.netOf EXCEPT ![p] = NoNet] /\ e.termOf = [d.termOf EXCEPT ![p] = n]
        /\ e.netPins = [m \in Nets |-> d.netPins[m] \ {p}]
        /\ e.netTerms = [d.netTerms EXCEPT ![n] = @ \cup {p}]
    BY <1>2, <1>6 DEF Connects
  <2>2. Parent[n] = InstanceOf[p] /\ d.termOf[p] = NoNet
    BY <1>6 DEF Scope
  <2>3. ASSUME NEW q \in Pins
        PROVE  /\ e.netOf[q] # NoNet => q \in e.pins /\ e.netOf[q] \in e.nets
               /\ e.termOf[q] # NoNet => /\ q \in e.pins /\ e.termOf[q] \in e.nets \cup e.gone
                                         /\ Parent[e.termOf[q]] = InstanceOf[q]
    BY <1>1, <1>3, <2>1, <2>2 DEF Listed
  <2>4. ASSUME NEW m \in Nets, NEW q \in Pins
        PROVE  /\ q \in e.netPins[m] <=> e.netOf[q] = m
               /\ q \in e.netTerms[m] <=> e.termOf[q] = m /\ m \in e.nets
    <3>1. /\ q \in d.netPins[m] <=> d.netOf[q] = m
          /\ q \in d.netTerms[m] <=> d.termOf[q] = m /\ m \in d.nets
      BY <1>1 DEF Listed
    <3>2. CASE q = p
      BY <1>1, <1>3, <2>1, <2>2, <3>1, <3>2, NoNetApart
    <3>3. CASE q # p
      BY <1>1, <1>3, <2>1, <3>1, <3>3
    <3>4. QED
      BY <3>2, <3>3
  <2>5. QED
    BY <1>4, <1>5, <2>3, <2>4 DEF ListsInv, Listed
<1>7. CASE InstanceOf[p] # Top
  <2>1. /\ e.pins = d.pins /\ e.nets = d.nets /\ e.gone = d.gone
        /\ e.netOf = [d.netOf EXCEPT ![p] = n] /\ e.termOf = d.termOf
        /\ e.netPins = [m \in Nets |-> (d.netPins[m] \ {p}) \cup {q \in {p} : m = n}]
        /\ e.netTerms = d.netTerms
    BY <1>2, <1>7 DEF Connects
  <2>2. ASSUME NEW q \in Pins
        PROVE  /\ e.netOf[q] # NoNet => q \in e.pins /\ e.netOf[q] \in e.nets
               /\ e.termOf[q] # NoNet => /\ q \in e.pins /\ e.termOf[q] \in e.nets \cup e.gone
                                         /\ Parent[e.termOf[q]] = InstanceOf[q]
    BY <1>1, <1>3, <2>1 DEF Listed
  <2>3. ASSUME NEW m \in Nets, NEW q \in Pins
        PROVE  /\ q \in e.netPins[m] <=> e.netOf[q] = m
               /\ q \in e.netTerms[m] <=> e.termOf[q] = m /\ m \in e.nets
    <3>1. /\ q \in d.netPins[m] <=> d.netOf[q] = m
          /\ q \in d.netTerms[m] <=> d.termOf[q] = m /\ m \in d.nets
      BY <1>1 DEF Listed
    <3>2. CASE q = p
      BY <1>1, <1>3, <2>1, <3>1, <3>2
    <3>3. CASE q # p
      BY <1>1, <1>3, <2>1, <3>1, <3>3
    <3>4. QED
      BY <3>2, <3>3
  <2>4. QED
    BY <1>4, <1>5, <2>2, <2>3 DEF ListsInv, Listed
<1>8. QED
  BY <1>6, <1>7

LEMMA DisconnectLists ==
  ASSUME NEW d, ListsInv(d), NEW p \in d.pins, NEW e, e = Disconnect(d, p)
  PROVE  ListsInv(e)
<1>1. d \in Designs /\ Listed(d) /\ Whole(d) /\ p \in Pins
  BY DEF ListsInv, Designs
<1>2. Disconnects(d, p, e)
  BY <1>1, DisconnectDoes
<1>3. /\ d.netPins \in [Nets -> SUBSET Pins] /\ d.netTerms \in [Nets -> SUBSET Pins]
      /\ d.netOf \in [Pins -> Nets \cup {NoNet}] /\ d.termOf \in [Pins -> Nets \cup {NoNet}]
  BY <1>1 DEF Designs
<1>4. e \in Designs /\ Whole(e)
  BY <1>1, <1>2 DEF Disconnects, Whole
<1>5. e.nets \cap e.gone = {} /\ DOMAIN e.drvrs \subseteq e.nets
  BY <1>1, <1>2 DEF Disconnects, Listed
<1>6. CASE InstanceOf[p] = Top
  <2>1. /\ e.pins = d.pins /\ e.nets = d.nets /\ e.gone = d.gone
        /\ e.netOf = d.netOf /\ e.netPins = d.netPins
        /\ e.termOf = [d.termOf EXCEPT ![p] = NoNet]
        /\ e.netTerms = [m \in Nets |-> d.netTerms[m] \ {p}]
    BY <1>2, <1>6 DEF Disconnects
  <2>2. ASSUME NEW q \in Pins
        PROVE  /\ e.netOf[q] # NoNet => q \in e.pins /\ e.netOf[q] \in e.nets
               /\ e.termOf[q] # NoNet => /\ q \in e.pins /\ e.termOf[q] \in e.nets \cup e.gone
                                         /\ Parent[e.termOf[q]] = InstanceOf[q]
    BY <1>1, <1>3, <2>1 DEF Listed
  <2>3. ASSUME NEW m \in Nets, NEW q \in Pins
        PROVE  /\ q \in e.netPins[m] <=> e.netOf[q] = m
               /\ q \in e.netTerms[m] <=> e.termOf[q] = m /\ m \in e.nets
    <3>1. /\ q \in d.netPins[m] <=> d.netOf[q] = m
          /\ q \in d.netTerms[m] <=> d.termOf[q] = m /\ m \in d.nets
      BY <1>1 DEF Listed
    <3>2. CASE q = p
      BY <1>1, <1>3, <2>1, <3>1, <3>2, NoNetApart
    <3>3. CASE q # p
      BY <1>1, <1>3, <2>1, <3>1, <3>3
    <3>4. QED
      BY <3>2, <3>3
  <2>4. QED
    BY <1>4, <1>5, <2>2, <2>3 DEF ListsInv, Listed
<1>7. CASE InstanceOf[p] # Top
  <2>1. /\ e.pins = d.pins /\ e.nets = d.nets /\ e.gone = d.gone
        /\ e.netOf = [d.netOf EXCEPT ![p] = NoNet] /\ e.termOf = d.termOf
        /\ e.netPins = [m \in Nets |-> d.netPins[m] \ {p}]
        /\ e.netTerms = d.netTerms
    BY <1>2, <1>7 DEF Disconnects
  <2>2. ASSUME NEW q \in Pins
        PROVE  /\ e.netOf[q] # NoNet => q \in e.pins /\ e.netOf[q] \in e.nets
               /\ e.termOf[q] # NoNet => /\ q \in e.pins /\ e.termOf[q] \in e.nets \cup e.gone
                                         /\ Parent[e.termOf[q]] = InstanceOf[q]
    BY <1>1, <1>3, <2>1 DEF Listed
  <2>3. ASSUME NEW m \in Nets, NEW q \in Pins
        PROVE  /\ q \in e.netPins[m] <=> e.netOf[q] = m
               /\ q \in e.netTerms[m] <=> e.termOf[q] = m /\ m \in e.nets
    <3>1. /\ q \in d.netPins[m] <=> d.netOf[q] = m
          /\ q \in d.netTerms[m] <=> d.termOf[q] = m /\ m \in d.nets
      BY <1>1 DEF Listed
    <3>2. CASE q = p
      BY <1>1, <1>3, <2>1, <3>1, <3>2, NoNetApart
    <3>3. CASE q # p
      BY <1>1, <1>3, <2>1, <3>1, <3>3
    <3>4. QED
      BY <3>2, <3>3
  <2>4. QED
    BY <1>4, <1>5, <2>2, <2>3 DEF ListsInv, Listed
<1>8. QED
  BY <1>6, <1>7

LEMMA DeleteNetLists ==
  ASSUME NEW d, ListsInv(d), NEW n \in d.nets, NEW e, e = DeleteNet(n, d)
  PROVE  ListsInv(e)
<1>1. d \in Designs /\ Listed(d) /\ Whole(d) /\ n \in Nets
  BY DEF ListsInv, Designs
<1>2. DeletesNet(d, n, e) /\ Listed(e)
  BY <1>1, DeleteNetDoes, DeleteNetListed
<1>3. QED
  BY <1>1, <1>2 DEF DeletesNet, ListsInv, Whole

LEMMA MakeNetLists ==
  ASSUME NEW d, ListsInv(d), NEW n \in Nets, n \notin d.nets \cup d.gone,
         NEW e, e = MakeNet(d, n)
  PROVE  /\ ListsInv(e) /\ e.nets = d.nets \cup {n}
         /\ e.netOf = d.netOf /\ e.termOf = d.termOf /\ e.drvrs = d.drvrs
<1> DEFINE nets == d.nets \cup {n}
<1>1. d \in Designs /\ Listed(d) /\ Whole(d)
  BY DEF ListsInv
<1>2. e = [d EXCEPT !.nets = nets] /\ nets \in SUBSET Nets
  BY <1>1 DEF MakeNet, Designs
<1> HIDE DEF nets
<1>3. /\ e \in Designs /\ e.nets = nets /\ e.insts = d.insts /\ e.pins = d.pins /\ e.gone = d.gone
      /\ e.netOf = d.netOf /\ e.termOf = d.termOf /\ e.netPins = d.netPins
      /\ e.netTerms = d.netTerms /\ e.drvrs = d.drvrs
  BY <1>1, <1>2 DEF Designs
<1>4. Whole(e) /\ e.nets \cap e.gone = {} /\ DOMAIN e.drvrs \subseteq e.nets
  BY <1>1, <1>3 DEF Whole, Listed, nets
<1>5. ASSUME NEW q \in Pins
      PROVE  /\ e.netOf[q] # NoNet => q \in e.pins /\ e.netOf[q] \in e.nets
             /\ e.termOf[q] # NoNet => /\ q \in e.pins /\ e.termOf[q] \in e.nets \cup e.gone
                                       /\ Parent[e.termOf[q]] = InstanceOf[q]
  BY <1>1, <1>3 DEF Listed, nets
<1>6. ASSUME NEW m \in Nets, NEW q \in Pins
      PROVE  /\ q \in e.netPins[m] <=> e.netOf[q] = m
             /\ q \in e.netTerms[m] <=> e.termOf[q] = m /\ m \in e.nets
  <2>1. d.termOf[q] # n
    BY <1>1, NoNetApart DEF Listed
  <2>2. QED
    BY <1>1, <1>3, <2>1 DEF Listed, nets
<1>7. QED
  BY <1>3, <1>4, <1>5, <1>6 DEF ListsInv, Listed, nets

LEMMA MakeInstanceLists ==
  ASSUME NEW d, ListsInv(d), NEW i \in Instances, NEW e, e = MakeInstance(d, i)
  PROVE  /\ ListsInv(e) /\ e.nets = d.nets /\ e.constants = d.constants /\ e.gone = d.gone
         /\ e.insts = d.insts \cup {i} /\ e.pins = d.pins \cup {p \in Pins : InstanceOf[p] = i}
         /\ e.netOf = d.netOf /\ e.termOf = d.termOf /\ e.drvrs = d.drvrs
<1> DEFINE insts == d.insts \cup {i}
           pins == d.pins \cup {p \in Pins : InstanceOf[p] = i}
<1>1. d \in Designs /\ Listed(d) /\ Whole(d)
  BY DEF ListsInv
<1>2. /\ e = [d EXCEPT !.insts = insts, !.pins = pins]
      /\ insts \in SUBSET Instances /\ pins \in SUBSET Pins
  BY <1>1 DEF MakeInstance, Designs
<1>3. Whole(d) => pins = {p \in Pins : InstanceOf[p] \in insts}
  BY DEF Whole
<1>4. d.pins \subseteq pins
  OBVIOUS
<1> HIDE DEF insts, pins
<1>5. /\ e \in Designs /\ e.nets = d.nets /\ e.insts = insts /\ e.pins = pins /\ e.gone = d.gone
      /\ e.constants = d.constants
      /\ e.netOf = d.netOf /\ e.termOf = d.termOf /\ e.netPins = d.netPins
      /\ e.netTerms = d.netTerms /\ e.drvrs = d.drvrs
  BY <1>1, <1>2 DEF Designs
<1>6. Whole(e)
  BY <1>1, <1>3, <1>5 DEF Whole
<1>7. Listed(e)
  BY <1>1, <1>4, <1>5 DEF Listed
<1>8. QED
  BY <1>5, <1>6, <1>7 DEF ListsInv, insts, pins

LEMMA WithDriversLists ==
  ASSUME NEW d, ListsInv(d), NEW n \in d.nets, NEW e, e = WithDrivers(d, n)
  PROVE  /\ ListsInv(e)
         /\ e.drvrs = [m \in DOMAIN d.drvrs \cup {n} |->
                         IF m \in DOMAIN d.drvrs THEN d.drvrs[m] ELSE NetDrivers(d, n)]
         /\ e.insts = d.insts /\ e.pins = d.pins /\ e.nets = d.nets
         /\ e.netOf = d.netOf /\ e.termOf = d.termOf /\ e.netPins = d.netPins
         /\ e.netTerms = d.netTerms
<1> DEFINE more == [m \in DOMAIN d.drvrs \cup {n} |->
                      IF m \in DOMAIN d.drvrs THEN d.drvrs[m] ELSE NetDrivers(d, n)]
<1>1. d \in Designs /\ Listed(d) /\ Whole(d) /\ n \in Nets
  BY DEF ListsInv, Designs
<1>2. e = [d EXCEPT !.drvrs = more]
  BY <1>1 DEF WithDrivers, Designs
<1>3. NetDrivers(d, n) \subseteq Pins
  <2>1. Spanned(d, n) \subseteq Nets
    BY <1>1 DEF Spanned
  <2>2. QED
    BY <1>1, <2>1 DEF NetDrivers, ConnectedPins, Designs
<1>4. more \in Found
  <2>1. d.drvrs \in Found
    BY <1>1 DEF Designs
  <2>2. /\ more = [m \in DOMAIN more |-> more[m]] /\ DOMAIN more \subseteq Nets
        /\ \A m \in DOMAIN more : more[m] \subseteq Pins
    BY <1>1, <1>3, <2>1, FoundDef
  <2> HIDE DEF more
  <2>3. QED
    BY <2>2, FoundDef
<1>5. DOMAIN more \subseteq d.nets
  BY <1>1 DEF Listed
<1> HIDE DEF more
<1>6. /\ e \in Designs /\ e.drvrs = more /\ e.nets = d.nets /\ e.insts = d.insts
      /\ e.pins = d.pins /\ e.gone = d.gone
      /\ e.netOf = d.netOf /\ e.termOf = d.termOf /\ e.netPins = d.netPins
      /\ e.netTerms = d.netTerms
  BY <1>1, <1>2, <1>4 DEF Designs
<1>7. Listed(e) /\ Whole(e)
  BY <1>1, <1>5, <1>6 DEF Listed, Whole
<1>8. QED
  BY <1>6, <1>7 DEF ListsInv, more

(* Nets that are merged are in one instance: VerilogReader::mergeAssignNet *)
(* merges the two sides of an assignment in a module.                      *)
LEMMA MergeLists ==
  ASSUME NEW d, ListsInv(d), NEW n \in d.nets, NEW m \in d.nets, n # m,
         Parent[n] = Parent[m], NEW e, e = MergeInto(d, n, m)
  PROVE  /\ ListsInv(e) /\ e.drvrs = NoDrivers
         /\ e.netOf = [p \in Pins |-> IF p \in d.netPins[n] THEN m ELSE d.netOf[p]]
<1> DEFINE net == [p \in Pins |-> IF p \in d.netPins[n] THEN m ELSE d.netOf[p]]
           term == [p \in Pins |-> IF p \in d.netTerms[n] THEN m ELSE d.termOf[p]]
           pinsOf == [[d.netPins EXCEPT ![n] = {}] EXCEPT ![m] = @ \cup d.netPins[n]]
           terms == [[d.netTerms EXCEPT ![n] = {}] EXCEPT ![m] = @ \cup d.netTerms[n]]
           nets == d.nets \ {n}
           gone == d.gone \cup {n}
<1>1. d \in Designs /\ Listed(d) /\ Whole(d) /\ n \in Nets /\ m \in Nets
  BY DEF ListsInv, Designs
<1>2. /\ d.netPins \in [Nets -> SUBSET Pins] /\ d.netTerms \in [Nets -> SUBSET Pins]
      /\ d.netOf \in [Pins -> Nets \cup {NoNet}] /\ d.termOf \in [Pins -> Nets \cup {NoNet}]
      /\ d.nets \subseteq Nets
  BY <1>1 DEF Designs
<1>3. e = [d EXCEPT !.netOf = net, !.termOf = term, !.netPins = pinsOf, !.netTerms = terms,
                    !.nets = nets, !.gone = gone, !.drvrs = NoDrivers]
  BY <1>1 DEF MergeInto, ClearNetDrvrPinMap, Designs
<1>4. /\ net \in [Pins -> Nets \cup {NoNet}] /\ term \in [Pins -> Nets \cup {NoNet}]
      /\ pinsOf \in [Nets -> SUBSET Pins] /\ terms \in [Nets -> SUBSET Pins]
      /\ nets \in SUBSET Nets /\ gone \in SUBSET (Nets \cup Instances)
  BY <1>1, <1>2 DEF Designs
<1> HIDE DEF net, term, pinsOf, terms, nets, gone
<1>5. /\ e \in Designs /\ e.netOf = net /\ e.termOf = term /\ e.netPins = pinsOf
      /\ e.netTerms = terms /\ e.nets = nets /\ e.gone = gone /\ e.drvrs = NoDrivers
      /\ e.insts = d.insts /\ e.pins = d.pins
  BY <1>1, <1>3, <1>4, NothingFound DEF Designs
<1>6. Whole(e) /\ e.nets \cap e.gone = {} /\ DOMAIN e.drvrs \subseteq e.nets
  BY <1>1, <1>5, NothingFound DEF Whole, Listed, nets, gone
<1>7. ASSUME NEW q \in Pins
      PROVE  /\ e.netOf[q] # NoNet => q \in e.pins /\ e.netOf[q] \in e.nets
             /\ e.termOf[q] # NoNet => /\ q \in e.pins /\ e.termOf[q] \in e.nets \cup e.gone
                                       /\ Parent[e.termOf[q]] = InstanceOf[q]
  <2>1. /\ q \in d.netPins[n] <=> d.netOf[q] = n
        /\ q \in d.netTerms[n] <=> d.termOf[q] = n
        /\ d.netOf[q] # NoNet => q \in d.pins /\ d.netOf[q] \in d.nets
        /\ d.termOf[q] # NoNet => /\ q \in d.pins /\ d.termOf[q] \in d.nets \cup d.gone
                                  /\ Parent[d.termOf[q]] = InstanceOf[q]
    BY <1>1 DEF Listed
  <2>2. e.netOf[q] = IF d.netOf[q] = n THEN m ELSE d.netOf[q]
    BY <1>5, <2>1 DEF net
  <2>3. e.termOf[q] = IF d.termOf[q] = n THEN m ELSE d.termOf[q]
    BY <1>5, <2>1 DEF term
  <2>4. QED
    BY <1>1, <1>5, <2>1, <2>2, <2>3, NoNetApart DEF nets, gone
<1>8. ASSUME NEW k \in Nets, NEW q \in Pins
      PROVE  /\ q \in e.netPins[k] <=> e.netOf[q] = k
             /\ q \in e.netTerms[k] <=> e.termOf[q] = k /\ k \in e.nets
  <2>1. \A j \in Nets : /\ q \in d.netPins[j] <=> d.netOf[q] = j
                        /\ q \in d.netTerms[j] <=> d.termOf[q] = j /\ j \in d.nets
    BY <1>1 DEF Listed
  <2>2. /\ q \in pinsOf[k] <=> (k # n /\ (q \in d.netPins[k] \/ (k = m /\ q \in d.netPins[n])))
        /\ q \in terms[k] <=> (k # n /\ (q \in d.netTerms[k] \/ (k = m /\ q \in d.netTerms[n])))
    BY <1>1, <1>2 DEF pinsOf, terms
  <2>3. /\ net[q] = IF d.netOf[q] = n THEN m ELSE d.netOf[q]
        /\ term[q] = IF d.termOf[q] = n THEN m ELSE d.termOf[q]
    BY <1>1, <2>1 DEF net, term
  <2>4. QED
    BY <1>1, <1>5, <2>1, <2>2, <2>3 DEF nets
<1>9. QED
  BY <1>5, <1>6, <1>7, <1>8 DEF ListsInv, Listed, net

------------------------------------------------------------------------------
(* The lists of a linked netlist, and every edit of one that has them.     *)
(* Nets that are merged are in one instance, as the sides of an assign in  *)
(* a module are: deleteInstance takes away the terminals of the pins it    *)
(* deletes by deleting the nets in the instance.                           *)
MergesInScope == \A e \in Edits : e.op = "merge" => Parent[e.net] = Parent[e.into]

LEMMA LinkedLists == ListsInv(Linked)
<1> DEFINE made == {p \in Pins : InstanceOf[p] \notin SpareInstances}
           pinsOf == [n \in Nets |-> {p \in made : LinkedNet[p] = n}]
           terms == [n \in Nets |-> {p \in made : LinkedTerm[p] = n}]
<1>1. /\ Linked.insts = Instances \ SpareInstances /\ Linked.pins = made
      /\ Linked.nets = Nets \ SpareNets /\ Linked.gone = {}
      /\ Linked.netOf = LinkedNet /\ Linked.termOf = LinkedTerm
      /\ Linked.netPins = pinsOf /\ Linked.netTerms = terms /\ Linked.drvrs = NoDrivers
  BY DEF Linked
<1>2. pinsOf \in [Nets -> SUBSET Pins] /\ terms \in [Nets -> SUBSET Pins]
  OBVIOUS
<1>3. Linked \in Designs
  <2>1. Linked = [insts |-> Instances \ SpareInstances, pins |-> made,
                  nets |-> Nets \ SpareNets, gone |-> {},
                  netOf |-> LinkedNet, termOf |-> LinkedTerm, netPins |-> pinsOf,
                  netTerms |-> terms, constants |-> ConstantNets, drvrs |-> NoDrivers]
    BY DEF Linked
  <2>2. made \in SUBSET Pins
    OBVIOUS
  <2> HIDE DEF made, pinsOf, terms
  <2>3. QED
    BY <2>1, <2>2, <1>2, NothingFound, NetlistAssumption DEF Designs
<1>4. Whole(Linked)
  BY <1>1, NetlistAssumption DEF Whole
<1>5. \A p \in Pins :
        /\ LinkedNet[p] # NoNet => p \in made /\ LinkedNet[p] \in Nets \ SpareNets
        /\ LinkedTerm[p] # NoNet => /\ p \in made /\ LinkedTerm[p] \in Nets \ SpareNets
                                    /\ Parent[LinkedTerm[p]] = InstanceOf[p]
  BY NetlistAssumption, LinkedAssumption
<1>6. ASSUME NEW n \in Nets, NEW p \in Pins
      PROVE  /\ p \in pinsOf[n] <=> LinkedNet[p] = n
             /\ p \in terms[n] <=> LinkedTerm[p] = n /\ n \in Nets \ SpareNets
  BY <1>5, NoNetApart
<1> HIDE DEF made, pinsOf, terms
<1>7. Listed(Linked)
  BY <1>1, <1>5, <1>6, NothingFound DEF Listed
<1>8. QED
  BY <1>3, <1>4, <1>7 DEF ListsInv

(* An edit has the members its kind has.                                   *)
LEMMA EditKinds ==
  ASSUME NEW e \in Edits
  PROVE  /\ e.op \in {"connect", "disconnect"} => e.pin \in Pins
         /\ e.op \in {"connect", "deleteNet", "makeNet", "merge"} => e.net \in Nets
         /\ e.op = "merge" => e.into \in Nets
         /\ e.op \in {"deleteInstance", "makeInstance"} => e.inst \in Instances \ {Top}
<1>1. \/ e \in [op : {"connect"}, pin : Pins, net : Nets]
      \/ e \in [op : {"disconnect"}, pin : Pins]
      \/ e \in [op : {"deleteNet", "makeNet"}, net : Nets]
      \/ e \in [op : {"deleteInstance", "makeInstance"}, inst : Instances \ {Top}]
      \/ e \in [op : {"merge"}, net : Nets, into : Nets]
  BY EditsAssumption
<1>2. CASE e \in [op : {"connect"}, pin : Pins, net : Nets]
  BY <1>2
<1>3. CASE e \in [op : {"disconnect"}, pin : Pins]
  BY <1>3
<1>4. CASE e \in [op : {"deleteNet", "makeNet"}, net : Nets]
  BY <1>4
<1>5. CASE e \in [op : {"deleteInstance", "makeInstance"}, inst : Instances \ {Top}]
  BY <1>5
<1>6. CASE e \in [op : {"merge"}, net : Nets, into : Nets]
  BY <1>6
<1>7. QED
  BY <1>1, <1>2, <1>3, <1>4, <1>5, <1>6

LEMMA EditsKeepLists ==
  ASSUME MergesInScope, ListsInv(design), [Next]_vars
  PROVE  ListsInv(design')
<1>1. CASE UNCHANGED vars
  BY <1>1 DEF vars
<1>2. ASSUME NEW e \in Edits, ConnectPin(e) PROVE ListsInv(design')
  BY <1>2, ConnectLists DEF ConnectPin
<1>3. ASSUME NEW e \in Edits, DisconnectPin(e) PROVE ListsInv(design')
  BY <1>3, DisconnectLists DEF DisconnectPin
<1>4. ASSUME NEW e \in Edits, RemoveNet(e) PROVE ListsInv(design')
  BY <1>4, DeleteNetLists DEF RemoveNet
<1>5. ASSUME NEW e \in Edits, AddNet(e) PROVE ListsInv(design')
  BY <1>5, EditKinds, MakeNetLists DEF AddNet, Edit
<1>6. ASSUME NEW e \in Edits, RemoveInstance(e) PROVE ListsInv(design')
  BY <1>6, EditKinds, DeleteInstanceLists DEF RemoveInstance, Edit
<1>7. ASSUME NEW e \in Edits, AddInstance(e) PROVE ListsInv(design')
  BY <1>7, EditKinds, MakeInstanceLists DEF AddInstance, Edit
<1>8. ASSUME NEW e \in Edits, Merge(e) PROVE ListsInv(design')
  <2>1. /\ e.net \in design.nets /\ e.into \in design.nets /\ e.net # e.into
        /\ Parent[e.net] = Parent[e.into] /\ design' = MergeInto(design, e.net, e.into)
    BY <1>8 DEF Merge, Edit, MergesInScope
  <2>2. QED
    BY <2>1, MergeLists
<1>9. ASSUME NEW n \in Nets, LookUp(n) PROVE ListsInv(design')
  BY <1>9, WithDriversLists DEF LookUp
<1>10. QED
  BY <1>1, <1>2, <1>3, <1>4, <1>5, <1>6, <1>7, <1>8, <1>9 DEF Next

LEMMA ListsInvAgrees == ListsInv(design) => ListsAgree
<1> SUFFICES ASSUME ListsInv(design) PROVE ListsAgree
  OBVIOUS
<1>1. design \in Designs /\ Listed(design) /\ Whole(design)
  BY DEF ListsInv
<1>2. /\ design.netOf \in [Pins -> Nets \cup {NoNet}]
      /\ design.netPins \in [Nets -> SUBSET Pins] /\ design.netTerms \in [Nets -> SUBSET Pins]
      /\ design.nets \subseteq Nets
  BY <1>1 DEF Designs
<1>3. design.netOf \in [Pins -> design.nets \cup {NoNet}]
  BY <1>1, <1>2 DEF Listed
<1>4. ASSUME NEW n \in design.nets
      PROVE  /\ design.netPins[n] = {p \in design.pins : design.netOf[p] = n}
             /\ design.netTerms[n] = {p \in design.pins : design.termOf[p] = n}
  <2>1. \A p \in Pins :
          /\ p \in design.netPins[n] <=> design.netOf[p] = n
          /\ p \in design.netTerms[n] <=> design.termOf[p] = n
          /\ design.netOf[p] = n => p \in design.pins
          /\ design.termOf[p] = n => p \in design.pins
    BY <1>1, <1>2, NoNetApart DEF Listed
  <2>2. design.pins \subseteq Pins
    BY <1>1 DEF Designs
  <2>3. QED
    BY <1>2, <2>1, <2>2
<1>5. QED
  BY <1>1, <1>2, <1>3, <1>4 DEF ListsAgree, Listed, Whole

(* Whatever is connected, disconnected, made, deleted and merged, a pin is *)
(* in the list of the net it names, its terminal in that of the net it     *)
(* ties, no pin names a net that is gone, and drivers are kept of no such  *)
(* net (addPin, deletePin, addTerm, deleteTerm, deleteNet, mergeInto of    *)
(* ConcreteNetwork), provided merged nets are in one instance.             *)
THEOREM ListsStayAgreed == MergesInScope => (Spec => []ListsAgree)
<1> SUFFICES ASSUME MergesInScope PROVE Spec => []ListsAgree
  OBVIOUS
<1>1. Init => ListsInv(design)
  BY LinkedLists DEF Init
<1>2. ListsInv(design) /\ [Next]_vars => ListsInv(design)'
  BY EditsKeepLists
<1>3. QED
  BY <1>1, <1>2, ListsInvAgrees, PTL DEF Spec

------------------------------------------------------------------------------
(* The drivers that are kept.  connectNetPin and disconnectNetPin take a   *)
(* net without terminals not to span the hierarchy; the net of the driver  *)
(* is seen for what it is when it has a terminal, or no pin of it ties it  *)
(* to another net.                                                         *)
Flat(d, n) ==
  /\ \A p \in d.netPins[n] : d.termOf[p] = NoNet
  /\ \A p \in d.netTerms[n] : d.netOf[p] = NoNet

SpanSeen(d, n) == d.netTerms[n] # {} \/ Flat(d, n)

LeavesSeen(d, p) == d.netOf[p] # NoNet => SpanSeen(d, d.netOf[p])

(* Edits that leave the drivers that are kept to what the code can see:    *)
(* any while nothing is kept; otherwise pins that tie no nets are          *)
(* connected and disconnected, drivers on nets that are seen for what they *)
(* are; no driver port is connected; nets that are tied to no other, and   *)
(* leaf instances, are deleted; anything is made and merged.               *)
Careful(e) ==
  \/ DOMAIN design.drvrs = {}
  \/ /\ e.op \in {"connect", "disconnect"} =>
          /\ InstanceOf[e.pin] # Top => design.termOf[e.pin] = NoNet
          /\ IsDriver(e.pin) => LeavesSeen(design, e.pin)
     /\ e.op = "connect" =>
          (IsDriver(e.pin) => InstanceOf[e.pin] # Top /\ SpanSeen(design, e.net))
     /\ e.op = "deleteNet" => Flat(design, e.net)
     /\ e.op = "deleteInstance" =>
          /\ e.inst \in Leaves
          /\ \A p \in Pins : InstanceOf[p] = e.inst /\ IsDriver(p) => LeavesSeen(design, p)

CarefulStep ==
  \/ \E e \in Edits :
       /\ Careful(e)
       /\ \/ ConnectPin(e) \/ DisconnectPin(e) \/ RemoveNet(e) \/ AddNet(e)
          \/ RemoveInstance(e) \/ AddInstance(e) \/ Merge(e)
  \/ \E n \in Nets : LookUp(n)

Current(d) == \A n \in DOMAIN d.drvrs : d.drvrs[n] = NetDrivers(d, n)

PortsByTerm(d) == \A p \in Pins : InstanceOf[p] = Top => d.netOf[p] = NoNet

DriversInv(d) == d \in Designs /\ Listed(d) /\ PortsByTerm(d) /\ Current(d)

(* A pin ties two nets; it drives the nets that span its own.              *)
Ties(d, p, m, k) ==
  \/ d.termOf[p] = m /\ m \in d.nets /\ d.netOf[p] = k
  \/ d.netOf[p] = m /\ d.termOf[p] = k

Drives(d, p, n) ==
  /\ IsDriver(p)
  /\ \E m \in Spanned(d, n) :
       \/ d.netOf[p] = m
       \/ d.termOf[p] = m /\ m \in d.nets /\ d.netOf[p] = NoNet

LEMMA SpannedNets ==
  ASSUME NEW d, NEW n \in Nets
  PROVE  n \in Spanned(d, n) /\ Spanned(d, n) \subseteq Nets
BY DEF Spanned

LEMMA AdjacentTied ==
  ASSUME NEW d \in Designs, Listed(d), NEW m \in Nets, NEW k \in Nets
  PROVE  k \in Adjacent(d, m) <=> \E p \in Pins : Ties(d, p, m, k)
<1>1. d.netPins[m] \subseteq Pins /\ d.netTerms[m] \subseteq Pins
  BY DEF Designs
<1>2. \A p \in Pins : /\ p \in d.netPins[m] <=> d.netOf[p] = m
                      /\ p \in d.netTerms[m] <=> d.termOf[p] = m /\ m \in d.nets
  BY DEF Listed
<1>3. QED
  BY <1>1, <1>2, NoNetApart DEF Adjacent, Ties

LEMMA AdjacentNets ==
  ASSUME NEW d \in Designs, NEW m \in Nets
  PROVE  Adjacent(d, m) \subseteq Nets
<1>1. /\ d.netPins[m] \subseteq Pins /\ d.netTerms[m] \subseteq Pins
      /\ d.netOf \in [Pins -> Nets \cup {NoNet}] /\ d.termOf \in [Pins -> Nets \cup {NoNet}]
  BY DEF Designs
<1>2. QED
  BY <1>1 DEF Adjacent

LEMMA SpannedSame ==
  ASSUME NEW d \in Designs, Listed(d), NEW e \in Designs, Listed(e),
         \A p \in Pins, m \in Nets, k \in Nets : Ties(d, p, m, k) <=> Ties(e, p, m, k),
         NEW n \in Nets
  PROVE  Spanned(e, n) = Spanned(d, n)
<1>1. \A m \in Nets : Adjacent(e, m) = Adjacent(d, m)
  <2>1. ASSUME NEW m \in Nets PROVE Adjacent(e, m) = Adjacent(d, m)
    <3>1. Adjacent(e, m) \subseteq Nets /\ Adjacent(d, m) \subseteq Nets
      BY AdjacentNets
    <3>2. \A k \in Nets : k \in Adjacent(e, m) <=> k \in Adjacent(d, m)
      BY AdjacentTied
    <3>3. QED
      BY <3>1, <3>2
  <2>2. QED
    BY <2>1
<1>2. [m \in Nets |-> Adjacent(e, m)] = [m \in Nets |-> Adjacent(d, m)]
  BY <1>1
<1>3. QED
  BY <1>2 DEF Spanned

LEMMA SpannedApart ==
  ASSUME NEW d \in Designs, Listed(d), NEW n \in d.nets, Flat(d, n), NEW k \in Nets, k # n
  PROVE  n \notin Spanned(d, k)
<1> DEFINE next == [m \in Nets |-> Adjacent(d, m)]
<1>0. n \in Nets
  BY DEF Designs
<1>1. ASSUME NEW m \in Nets PROVE n \notin Adjacent(d, m)
  <2>1. SUFFICES ASSUME NEW p \in Pins, Ties(d, p, m, n) PROVE FALSE
    BY <1>0, AdjacentTied
  <2>2. /\ p \in d.netPins[n] <=> d.netOf[p] = n
        /\ p \in d.netTerms[n] <=> d.termOf[p] = n /\ n \in d.nets
    BY <1>0 DEF Listed
  <2>3. QED
    BY <2>1, <2>2, <1>0, NoNetApart DEF Ties, Flat
<1>2. \A m \in Nets \ {n} : next[m] \subseteq Nets \ {n}
  BY <1>1, AdjacentNets
<1>3. Nets \ {n} \in {S \in SUBSET Nets : k \in S /\ \A m \in S : next[m] \subseteq S}
  BY <1>2
<1> HIDE DEF next
<1>4. QED
  BY <1>0, <1>3 DEF Spanned, next

LEMMA DriversFound ==
  ASSUME NEW d \in Designs, Listed(d), NEW n \in Nets
  PROVE  NetDrivers(d, n) = {p \in Pins : Drives(d, p, n)}
<1>1. Spanned(d, n) \subseteq Nets
  BY SpannedNets
<1>2. \A m \in Nets : d.netPins[m] \subseteq Pins /\ d.netTerms[m] \subseteq Pins
  BY DEF Designs
<1>3. \A m \in Nets, p \in Pins :
        /\ p \in d.netPins[m] <=> d.netOf[p] = m
        /\ p \in d.netTerms[m] <=> d.termOf[p] = m /\ m \in d.nets
  BY DEF Listed
<1>4. QED
  BY <1>1, <1>2, <1>3 DEF NetDrivers, ConnectedPins, Drives

LEMMA CurrentBy ==
  ASSUME NEW e \in Designs, Listed(e),
         \A k \in DOMAIN e.drvrs, q \in Pins : q \in e.drvrs[k] <=> Drives(e, q, k)
  PROVE  Current(e)
<1>1. e.drvrs \in Found
  BY DEF Designs
<1>2. DOMAIN e.drvrs \subseteq Nets /\ \A k \in DOMAIN e.drvrs : e.drvrs[k] \subseteq Pins
  BY <1>1, FoundDef
<1>3. QED
  BY <1>2, DriversFound DEF Current

LEMMA CurrentIs ==
  ASSUME NEW d \in Designs, Listed(d), Current(d)
  PROVE  \A k \in DOMAIN d.drvrs, q \in Pins : q \in d.drvrs[k] <=> Drives(d, q, k)
<1>1. d.drvrs \in Found
  BY DEF Designs
<1>2. DOMAIN d.drvrs \subseteq Nets
  BY <1>1, FoundDef
<1>3. QED
  BY <1>2, DriversFound DEF Current

LEMMA LeafTerm ==
  ASSUME NEW d \in Designs, Listed(d), NEW p \in Pins, InstanceOf[p] \in Leaves
  PROVE  d.termOf[p] = NoNet
<1>1. d.termOf[p] \in Nets \cup {NoNet}
  BY DEF Designs
<1>2. d.termOf[p] # NoNet => Parent[d.termOf[p]] = InstanceOf[p]
  BY DEF Listed
<1>3. QED
  BY <1>1, <1>2, LinkedAssumption

(* What is kept when a pin that ties no nets leaves its own.               *)
LEMMA LeavingKeeps ==
  ASSUME NEW d, DriversInv(d), NEW p \in Pins, InstanceOf[p] # Top, d.termOf[p] = NoNet,
         IsDriver(p) => LeavesSeen(d, p), NEW f, f = FoundOnLeavingAny(d, p)
  PROVE  /\ DOMAIN f \subseteq DOMAIN d.drvrs
         /\ \A k \in DOMAIN f, q \in Pins : q \in f[k] <=> (Drives(d, q, k) /\ q # p)
<1>1. d \in Designs /\ Listed(d) /\ Current(d)
  BY DEF DriversInv
<1>2. \A k \in DOMAIN d.drvrs, q \in Pins : q \in d.drvrs[k] <=> Drives(d, q, k)
  BY <1>1, CurrentIs
<1>3. DOMAIN d.drvrs \subseteq Nets
  <2>1. d.drvrs \in Found
    BY <1>1 DEF Designs
  <2>2. QED
    BY <2>1, FoundDef
<1>4. d.netOf[p] \in Nets \cup {NoNet} /\ (d.netOf[p] # NoNet => d.netOf[p] \in d.nets)
  BY <1>1 DEF Designs, Listed
<1>5. \A k \in DOMAIN d.drvrs : Drives(d, p, k) => IsDriver(p) /\ d.netOf[p] \in Spanned(d, k)
  <2>1. \A k \in DOMAIN d.drvrs : Spanned(d, k) \subseteq Nets
    BY <1>3, SpannedNets
  <2>2. QED
    BY <2>1, NoNetApart DEF Drives
<1>6. CASE ~IsDriver(p) \/ d.netOf[p] = NoNet
  <2>1. f = d.drvrs
    BY <1>6 DEF FoundOnLeavingAny, FoundOnLeaving
  <2>2. \A k \in DOMAIN d.drvrs : ~Drives(d, p, k)
    <3>1. \A k \in DOMAIN d.drvrs : Spanned(d, k) \subseteq Nets
      BY <1>3, SpannedNets
    <3>2. QED
      BY <1>5, <1>6, <3>1, NoNetApart
  <2>3. QED
    BY <1>2, <2>1, <2>2
<1>7. CASE IsDriver(p) /\ d.netOf[p] # NoNet /\ d.netTerms[d.netOf[p]] # {}
  <2>1. f = NoDrivers
    BY <1>7 DEF FoundOnLeavingAny, FoundOnLeaving
  <2>2. QED
    BY <2>1, NothingFound
<1>8. CASE IsDriver(p) /\ d.netOf[p] # NoNet /\ d.netTerms[d.netOf[p]] = {}
  <2> DEFINE n == d.netOf[p]
  <2>1. Flat(d, n) /\ n \in d.nets
    BY <1>4, <1>8 DEF LeavesSeen, SpanSeen
  <2>2. f = [k \in DOMAIN d.drvrs |-> d.drvrs[k] \ {q \in {p} : k = n}]
    BY <1>8 DEF FoundOnLeavingAny, FoundOnLeaving, FoundWithout
  <2>3. \A k \in DOMAIN d.drvrs : Drives(d, p, k) => k = n
    <3> HIDE DEF n
    <3>1. \A k \in DOMAIN d.drvrs : Drives(d, p, k) => n \in Spanned(d, k)
      BY <1>5 DEF n
    <3>2. \A k \in Nets : k # n => n \notin Spanned(d, k)
      BY <1>1, <2>1, SpannedApart
    <3>3. QED
      BY <1>3, <3>1, <3>2
  <2> HIDE DEF n
  <2>4. QED
    BY <1>2, <2>2, <2>3
<1>9. QED
  BY <1>6, <1>7, <1>8

(* A pin that ties no nets may leave its own, ...                          *)
LEMMA LeavingCurrent ==
  ASSUME NEW d, DriversInv(d), NEW p \in Pins, InstanceOf[p] # Top, d.termOf[p] = NoNet,
         IsDriver(p) => LeavesSeen(d, p),
         NEW e \in Designs, Listed(e), e.nets = d.nets,
         e.netOf = [d.netOf EXCEPT ![p] = NoNet], e.termOf = d.termOf,
         e.drvrs = FoundOnLeavingAny(d, p)
  PROVE  DriversInv(e)
<1>1. /\ d \in Designs /\ Listed(d) /\ Current(d) /\ PortsByTerm(d)
      /\ d.netOf \in [Pins -> Nets \cup {NoNet}]
  BY DEF DriversInv, Designs
<1>2. \A q \in Pins : e.netOf[q] = IF q = p THEN NoNet ELSE d.netOf[q]
  BY <1>1
<1>3. \A q \in Pins, m \in Nets, k \in Nets : Ties(d, q, m, k) <=> Ties(e, q, m, k)
  BY <1>1, <1>2, NoNetApart DEF Ties
<1>4. \A n \in Nets : Spanned(e, n) = Spanned(d, n) /\ Spanned(d, n) \subseteq Nets
  BY <1>1, <1>3, SpannedSame, SpannedNets
<1>5. \A n \in Nets, q \in Pins : Drives(e, q, n) <=> (Drives(d, q, n) /\ q # p)
  BY <1>2, <1>4, NoNetApart DEF Drives
<1>6. /\ DOMAIN e.drvrs \subseteq DOMAIN d.drvrs
      /\ \A k \in DOMAIN e.drvrs, q \in Pins : q \in e.drvrs[k] <=> (Drives(d, q, k) /\ q # p)
  BY LeavingKeeps
<1>7. DOMAIN e.drvrs \subseteq Nets
  <2>1. e.drvrs \in Found
    BY DEF Designs
  <2>2. QED
    BY <2>1, FoundDef
<1>8. Current(e)
  BY <1>5, <1>6, <1>7, CurrentBy
<1>9. PortsByTerm(e)
  BY <1>1, <1>2 DEF PortsByTerm
<1>10. QED
  BY <1>8, <1>9 DEF DriversInv

(* ... and join another.                                                   *)
LEMMA JoiningCurrent ==
  ASSUME NEW d, DriversInv(d), NEW p \in Pins, InstanceOf[p] # Top, d.termOf[p] = NoNet,
         IsDriver(p) => LeavesSeen(d, p),
         NEW n \in d.nets, IsDriver(p) => SpanSeen(d, n),
         NEW e \in Designs, Listed(e), e.nets = d.nets,
         e.netOf = [d.netOf EXCEPT ![p] = n], e.termOf = d.termOf,
         e.drvrs = FoundOnJoining(FoundOnLeavingAny(d, p), d.netTerms, n, p)
  PROVE  DriversInv(e)
<1> DEFINE f == FoundOnLeavingAny(d, p)
<1>1. /\ d \in Designs /\ Listed(d) /\ Current(d) /\ PortsByTerm(d) /\ n \in Nets
      /\ d.netOf \in [Pins -> Nets \cup {NoNet}]
  BY DEF DriversInv, Designs
<1>2. \A q \in Pins : e.netOf[q] = IF q = p THEN n ELSE d.netOf[q]
  BY <1>1
<1>3. \A q \in Pins, m \in Nets, k \in Nets : Ties(d, q, m, k) <=> Ties(e, q, m, k)
  BY <1>1, <1>2, NoNetApart DEF Ties
<1>4. \A k \in Nets : Spanned(e, k) = Spanned(d, k) /\ Spanned(d, k) \subseteq Nets
  BY <1>1, <1>3, SpannedSame, SpannedNets
<1>5. \A k \in Nets, q \in Pins :
        Drives(e, q, k) <=> IF q = p THEN IsDriver(p) /\ n \in Spanned(d, k) ELSE Drives(d, q, k)
  <2>1. ASSUME NEW k \in Nets
        PROVE  Drives(e, p, k) <=> (IsDriver(p) /\ n \in Spanned(d, k))
    BY <1>1, <1>2, <1>4, NoNetApart DEF Drives
  <2>2. ASSUME NEW k \in Nets, NEW q \in Pins, q # p
        PROVE  Drives(e, q, k) <=> Drives(d, q, k)
    BY <1>2, <1>4, <2>2 DEF Drives
  <2>3. QED
    BY <2>1, <2>2
<1>6. /\ DOMAIN f \subseteq DOMAIN d.drvrs
      /\ \A k \in DOMAIN f, q \in Pins : q \in f[k] <=> (Drives(d, q, k) /\ q # p)
  BY LeavingKeeps
<1>7. DOMAIN f \subseteq Nets
  <2>1. d.drvrs \in Found
    BY <1>1 DEF Designs
  <2>2. QED
    BY <1>6, <2>1, FoundDef
<1> HIDE DEF f
<1>8. \A k \in DOMAIN e.drvrs, q \in Pins : q \in e.drvrs[k] <=> Drives(e, q, k)
  <2>1. e.drvrs = FoundOnJoining(f, d.netTerms, n, p)
    BY DEF f
  <2>2. CASE ~IsDriver(p)
    <3>1. e.drvrs = f
      BY <2>1, <2>2 DEF FoundOnJoining
    <3>2. QED
      BY <2>2, <3>1, <1>5, <1>6, <1>7 
  <2>3. CASE IsDriver(p) /\ d.netTerms[n] # {}
    <3>1. e.drvrs = NoDrivers
      BY <2>1, <2>3 DEF FoundOnJoining
    <3>2. QED
      BY <3>1, NothingFound
  <2>4. CASE IsDriver(p) /\ d.netTerms[n] = {}
    <3>1. e.drvrs = [k \in DOMAIN f |-> f[k] \cup {q \in {p} : k = n}]
      BY <2>1, <2>4 DEF FoundOnJoining, FoundWith
    <3>2. \A k \in Nets : n \in Spanned(d, k) <=> k = n
      <4>1. Flat(d, n)
        BY <2>4 DEF SpanSeen
      <4>2. \A k \in Nets : k # n => n \notin Spanned(d, k)
        BY <1>1, <4>1, SpannedApart
      <4>3. QED
        BY <1>1, <4>2, SpannedNets
    <3>3. \A k \in DOMAIN e.drvrs, q \in Pins :
            q \in e.drvrs[k] <=> (q \in f[k] \/ (q = p /\ k = n))
      BY <3>1
    <3>4. DOMAIN e.drvrs = DOMAIN f
      BY <3>1
    <3>5. QED
      BY <2>4, <3>2, <3>3, <3>4, <1>5, <1>6, <1>7
  <2>5. QED
    BY <2>2, <2>3, <2>4
<1>9. Current(e)
  BY <1>8, CurrentBy
<1>10. PortsByTerm(e)
  BY <1>1, <1>2 DEF PortsByTerm
<1>11. QED
  BY <1>9, <1>10 DEF DriversInv

(* An edit that changes no driver of a net it keeps the drivers of.        *)
LEMMA SameCurrent ==
  ASSUME NEW d, DriversInv(d), NEW e \in Designs, Listed(e),
         \A q \in Pins, n \in DOMAIN e.drvrs : Drives(e, q, n) <=> Drives(d, q, n),
         DOMAIN e.drvrs \subseteq DOMAIN d.drvrs,
         \A n \in DOMAIN e.drvrs : e.drvrs[n] = d.drvrs[n]
  PROVE  Current(e)
<1>1. d \in Designs /\ Listed(d) /\ Current(d)
  BY DEF DriversInv
<1>2. \A k \in DOMAIN d.drvrs, q \in Pins : q \in d.drvrs[k] <=> Drives(d, q, k)
  BY <1>1, CurrentIs
<1>3. QED
  BY <1>2, CurrentBy

LEMMA NothingKeptCurrent ==
  ASSUME NEW e, DOMAIN e.drvrs = {}
  PROVE  Current(e)
BY DEF Current

LEMMA ConnectCurrent ==
  ASSUME NEW d, DriversInv(d), NEW p \in Pins, NEW n \in d.nets,
         NEW e \in Designs, Listed(e), e = Connect(d, p, n),
         InstanceOf[p] = Top => d.termOf[p] = NoNet,
         \/ DOMAIN d.drvrs = {}
         \/ /\ InstanceOf[p] # Top => d.termOf[p] = NoNet
            /\ IsDriver(p) => LeavesSeen(d, p)
            /\ IsDriver(p) => InstanceOf[p] # Top /\ SpanSeen(d, n)
  PROVE  DriversInv(e)
<1>1. /\ d \in Designs /\ Listed(d) /\ PortsByTerm(d) /\ n \in Nets
      /\ d.netOf \in [Pins -> Nets \cup {NoNet}] /\ d.termOf \in [Pins -> Nets \cup {NoNet}]
  BY DEF DriversInv, Designs
<1>2. Connects(d, p, n, e)
  BY <1>1, ConnectDoes
<1>3. PortsByTerm(e)
  BY <1>1, <1>2 DEF PortsByTerm, Connects
<1>4. CASE DOMAIN d.drvrs = {}
  <2>1. DOMAIN e.drvrs = {}
    BY <1>2, <1>4 DEF Connects
  <2>2. QED
    BY <1>3, <2>1, NothingKeptCurrent DEF DriversInv
<1>5. CASE DOMAIN d.drvrs # {} /\ InstanceOf[p] # Top
  <2>1. /\ e.nets = d.nets /\ e.netOf = [d.netOf EXCEPT ![p] = n] /\ e.termOf = d.termOf
        /\ e.drvrs = FoundOnJoining(FoundOnLeavingAny(d, p), d.netTerms, n, p)
    BY <1>2, <1>5 DEF Connects
  <2>2. QED
    BY <1>5, <2>1, JoiningCurrent
<1>6. CASE DOMAIN d.drvrs # {} /\ InstanceOf[p] = Top
  <2>1. ~IsDriver(p) /\ d.netOf[p] = NoNet
    BY <1>1, <1>6 DEF PortsByTerm
  <2>2. /\ e.nets = d.nets /\ e.netOf = d.netOf /\ e.termOf = [d.termOf EXCEPT ![p] = n]
        /\ e.drvrs = d.drvrs
    BY <1>1, <1>2, <1>6, <2>1 DEF Connects, FoundOnLeavingAny
  <2>3. \A q \in Pins, m \in Nets, k \in Nets : Ties(d, q, m, k) <=> Ties(e, q, m, k)
    BY <1>1, <2>1, <2>2, NoNetApart DEF Ties
  <2>4. DOMAIN e.drvrs \subseteq Nets
    <3>1. e.drvrs \in Found
      BY DEF Designs
    <3>2. QED
      BY <3>1, FoundDef
  <2>5. \A m \in Nets : Spanned(e, m) = Spanned(d, m)
    BY <1>1, <2>3, SpannedSame
  <2>6. \A q \in Pins, m \in Nets : Drives(e, q, m) <=> Drives(d, q, m)
    BY <1>1, <2>1, <2>2, <2>5 DEF Drives
  <2>7. Current(e)
    BY <2>2, <2>4, <2>6, SameCurrent
  <2>8. QED
    BY <1>3, <2>7 DEF DriversInv
<1>7. QED
  BY <1>4, <1>5, <1>6

LEMMA DisconnectCurrent ==
  ASSUME NEW d, DriversInv(d), NEW p \in Pins,
         NEW e \in Designs, Listed(e), e = Disconnect(d, p),
         \/ DOMAIN d.drvrs = {}
         \/ /\ InstanceOf[p] # Top => d.termOf[p] = NoNet
            /\ IsDriver(p) => LeavesSeen(d, p)
  PROVE  DriversInv(e)
<1>1. /\ d \in Designs /\ Listed(d) /\ PortsByTerm(d) /\ Current(d)
      /\ d.netOf \in [Pins -> Nets \cup {NoNet}] /\ d.termOf \in [Pins -> Nets \cup {NoNet}]
  BY DEF DriversInv, Designs
<1>2. Disconnects(d, p, e)
  BY <1>1, DisconnectDoes
<1>3. PortsByTerm(e)
  BY <1>1, <1>2 DEF PortsByTerm, Disconnects
<1>4. CASE DOMAIN d.drvrs = {}
  <2>1. DOMAIN e.drvrs = {}
    BY <1>2, <1>4 DEF Disconnects
  <2>2. QED
    BY <1>3, <2>1, NothingKeptCurrent DEF DriversInv
<1>5. CASE DOMAIN d.drvrs # {} /\ InstanceOf[p] # Top
  <2>1. /\ e.nets = d.nets /\ e.netOf = [d.netOf EXCEPT ![p] = NoNet] /\ e.termOf = d.termOf
        /\ e.drvrs = FoundOnLeavingAny(d, p)
    BY <1>2, <1>5 DEF Disconnects
  <2>2. QED
    BY <1>5, <2>1, LeavingCurrent
<1>6. CASE InstanceOf[p] = Top /\ d.termOf[p] = NoNet
  <2>1. e = d
    BY <1>6 DEF Disconnect
  <2>2. QED
    BY <2>1
<1>7. CASE InstanceOf[p] = Top /\ d.termOf[p] # NoNet
  <2>1. DOMAIN e.drvrs = {}
    BY <1>2, <1>7, NothingFound DEF Disconnects
  <2>2. QED
    BY <1>3, <2>1, NothingKeptCurrent DEF DriversInv
<1>8. QED
  BY <1>4, <1>5, <1>6, <1>7

LEMMA DeleteNetCurrent ==
  ASSUME NEW d, DriversInv(d), NEW n \in d.nets,
         NEW e \in Designs, Listed(e), e = DeleteNet(n, d),
         DOMAIN d.drvrs = {} \/ Flat(d, n)
  PROVE  DriversInv(e)
<1>1. /\ d \in Designs /\ Listed(d) /\ PortsByTerm(d) /\ Current(d) /\ n \in Nets
      /\ d.netOf \in [Pins -> Nets \cup {NoNet}] /\ d.termOf \in [Pins -> Nets \cup {NoNet}]
  BY DEF DriversInv, Designs
<1>2. DeletesNet(d, n, e)
  BY <1>1, DeleteNetDoes
<1>3. /\ \A q \in Pins : e.netOf[q] = IF d.netOf[q] = n THEN NoNet ELSE d.netOf[q]
      /\ e.termOf = d.termOf /\ e.nets = d.nets \ {n}
      /\ DOMAIN e.drvrs = DOMAIN d.drvrs \ {n}
      /\ \A m \in DOMAIN e.drvrs : e.drvrs[m] = d.drvrs[m]
  BY <1>1, <1>2 DEF DeletesNet, Listed
<1>4. PortsByTerm(e)
  BY <1>1, <1>3 DEF PortsByTerm
<1>5. CASE DOMAIN d.drvrs = {}
  BY <1>3, <1>4, <1>5, NothingKeptCurrent DEF DriversInv
<1>6. CASE Flat(d, n)
  <2>1. \A q \in Pins : /\ d.netOf[q] = n => d.termOf[q] = NoNet
                        /\ d.termOf[q] = n => d.netOf[q] = NoNet
    <3>1. \A q \in Pins : /\ q \in d.netPins[n] <=> d.netOf[q] = n
                          /\ q \in d.netTerms[n] <=> d.termOf[q] = n /\ n \in d.nets
      BY <1>1 DEF Listed
    <3>2. QED
      BY <1>6, <3>1 DEF Flat
  <2>2. \A q \in Pins, m \in Nets, k \in Nets : Ties(d, q, m, k) <=> Ties(e, q, m, k)
    BY <1>1, <1>3, <2>1, NoNetApart DEF Ties
  <2>3. DOMAIN e.drvrs \subseteq Nets \ {n}
    <3>1. e.drvrs \in Found
      BY DEF Designs
    <3>2. QED
      BY <1>3, <3>1, FoundDef
  <2>4. \A m \in Nets \ {n} : /\ Spanned(e, m) = Spanned(d, m)
                              /\ Spanned(d, m) \subseteq Nets \ {n}
    <3>1. \A m \in Nets : Spanned(e, m) = Spanned(d, m) /\ Spanned(d, m) \subseteq Nets
      BY <1>1, <2>2, SpannedSame, SpannedNets
    <3>2. \A m \in Nets \ {n} : n \notin Spanned(d, m)
      BY <1>1, <1>6, SpannedApart
    <3>3. QED
      BY <3>1, <3>2
  <2>5. \A q \in Pins, m \in Nets \ {n} : Drives(e, q, m) <=> Drives(d, q, m)
    <3>1. SUFFICES ASSUME NEW q \in Pins, NEW m \in Nets \ {n}, NEW k \in Spanned(d, m)
                   PROVE  (\/ e.netOf[q] = k
                           \/ e.termOf[q] = k /\ k \in e.nets /\ e.netOf[q] = NoNet)
                          <=> (\/ d.netOf[q] = k
                               \/ d.termOf[q] = k /\ k \in d.nets /\ d.netOf[q] = NoNet)
      BY <2>4 DEF Drives
    <3>2. k \in Nets /\ k # n
      BY <2>4
    <3>3. QED
      BY <1>1, <1>3, <2>1, <3>2, NoNetApart
  <2>6. Current(e)
    BY <1>3, <2>3, <2>5, SameCurrent
  <2>7. QED
    BY <1>4, <2>6 DEF DriversInv
<1>7. QED
  BY <1>5, <1>6

LEMMA DeletePinCurrent ==
  ASSUME NEW d, DriversInv(d), NEW p \in Pins, InstanceOf[p] \in Leaves,
         IsDriver(p) => LeavesSeen(d, p), NEW e, e = DeletePin(p, d)
  PROVE  /\ DriversInv(e)
         /\ \A q \in Pins : LeavesSeen(d, q) => LeavesSeen(e, q)
<1>1. /\ d \in Designs /\ Listed(d) /\ d.termOf[p] = NoNet /\ InstanceOf[p] # Top
      /\ d.termOf \in [Pins -> Nets \cup {NoNet}] /\ d.netOf \in [Pins -> Nets \cup {NoNet}]
      /\ NoNet \notin d.nets
  BY LeafTerm, NoNetApart, NetlistAssumption DEF DriversInv, Designs
<1>2. DeletesPin(d, p, e) /\ Listed(e)
  BY <1>1, DeletePinDoes, DeletePinListed
<1>3. /\ e \in Designs /\ e.nets = d.nets /\ e.netOf = [d.netOf EXCEPT ![p] = NoNet]
      /\ e.termOf = d.termOf /\ e.netTerms = d.netTerms
      /\ e.netPins = [m \in Nets |-> d.netPins[m] \ {p}]
      /\ e.drvrs = FoundOnLeavingAny(d, p)
  BY <1>1, <1>2 DEF DeletesPin
<1>4. DriversInv(e)
  BY <1>1, <1>2, <1>3, LeavingCurrent
<1>5. ASSUME NEW q \in Pins, LeavesSeen(d, q) PROVE LeavesSeen(e, q)
  <2>1. SUFFICES ASSUME e.netOf[q] # NoNet PROVE SpanSeen(e, e.netOf[q])
    BY DEF LeavesSeen
  <2>2. e.netOf[q] = d.netOf[q] /\ d.netOf[q] \in Nets /\ SpanSeen(d, d.netOf[q])
    BY <1>1, <1>3, <1>5, <2>1 DEF LeavesSeen
  <2>3. \A r \in Pins : e.netOf[r] \in {d.netOf[r], NoNet}
    BY <1>1, <1>3
  <2>4. d.netTerms[d.netOf[q]] \subseteq Pins
    BY <1>1, <2>2 DEF Designs
  <2>5. e.netPins[d.netOf[q]] \subseteq d.netPins[d.netOf[q]]
    BY <1>3, <2>2
  <2>6. QED
    BY <1>3, <2>2, <2>3, <2>4, <2>5 DEF SpanSeen, Flat
<1>6. QED
  BY <1>4, <1>5

(* The pins of a leaf instance are deleted one after the other, each from  *)
(* a net that is still seen for what it is.                                *)
LEMMA DeletingPinsCurrent ==
  ASSUME NEW d, DriversInv(d), NEW S \in SUBSET Pins,
         \A p \in S : InstanceOf[p] \in Leaves /\ (IsDriver(p) => LeavesSeen(d, p))
  PROVE  DriversInv(FoldSet(DeletePin, d, S))
<1>1. d \in Designs /\ Listed(d)
  BY DEF DriversInv
<1>2. \A p \in S : d.termOf[p] \notin d.nets
  BY <1>1, LeafTerm, NoNetApart DEF Designs
<1>3. PICK h : /\ h[{}] = d /\ FoldSet(DeletePin, d, S) = h[S]
               /\ \A s \in SUBSET S :
                    s # {} => h[s] = DeletePin(Pick(s), h[s \ {Pick(s)}])
  BY <1>1, <1>2, PinsDeleted
<1> DEFINE Good(x) == DriversInv(x) /\ \A p \in S : IsDriver(p) => LeavesSeen(x, p)
           W == [s \in SUBSET S |-> {x \in Designs : Good(x)}]
<1>4. h[{}] \in W[{}]
  BY <1>1, <1>3
<1>5. ASSUME NEW s \in SUBSET S, s # {}, h[s \ {Pick(s)}] \in W[s \ {Pick(s)}]
      PROVE  h[s] \in W[s]
  <2> DEFINE p == Pick(s)
             x == h[s \ {p}]
  <2>1. p \in S /\ p \in Pins
    BY <1>5, PickIn
  <2>2. Good(x)
    BY <1>5
  <2>3. h[s] = DeletePin(p, x)
    BY <1>3, <1>5
  <2> HIDE DEF p, x, W
  <2>4. DriversInv(h[s]) /\ \A q \in Pins : LeavesSeen(x, q) => LeavesSeen(h[s], q)
    BY <2>1, <2>2, <2>3, DeletePinCurrent
  <2>5. Good(h[s]) /\ h[s] \in Designs
    BY <2>2, <2>4 DEF DriversInv
  <2>6. QED
    BY <2>5 DEF W
<1>6. IsFiniteSet(S)
  BY NetlistAssumption, FS_Subset
<1>7. h[S] \in W[S]
  <2> HIDE DEF W
  <2>1. QED
    BY <1>4, <1>5, <1>6, FoldStays
<1>8. QED
  BY <1>3, <1>7

LEMMA BelowLeaf ==
  ASSUME NEW i \in Leaves
  PROVE  Below(i) = {i}
<1>1. {i} \in {S \in SUBSET Instances :
                 i \in S /\ \A c \in Instances \ {Top} : Parent[c] \in S => c \in S}
  BY NetlistAssumption, LinkedAssumption
<1>2. i \in Instances
  BY NetlistAssumption
<1>3. QED
  BY <1>1, <1>2 DEF Below

LEMMA DeleteInstanceCurrent ==
  ASSUME NEW d, DriversInv(d), ListsInv(d), NEW i \in Instances,
         NEW e, e = DeleteInstance(d, i),
         \/ DOMAIN d.drvrs = {}
         \/ /\ i \in Leaves
            /\ \A p \in Pins : InstanceOf[p] = i /\ IsDriver(p) => LeavesSeen(d, p)
  PROVE  DriversInv(e)
<1>1. /\ d \in Designs /\ Listed(d) /\ PortsByTerm(d) /\ d.nets \subseteq Nets /\ d.pins \subseteq Pins
  BY DEF DriversInv, Designs
<1>2. /\ e \in Designs /\ Listed(e) /\ DOMAIN e.drvrs \subseteq DOMAIN d.drvrs
      /\ \A p \in Pins : e.netOf[p] \in {d.netOf[p], NoNet}
  BY DeleteInstanceLists DEF ListsInv
<1>3. PortsByTerm(e)
  BY <1>1, <1>2 DEF PortsByTerm
<1>4. CASE DOMAIN d.drvrs = {}
  BY <1>2, <1>3, <1>4, NothingKeptCurrent DEF DriversInv
<1>5. CASE DOMAIN d.drvrs # {}
  <2> DEFINE nets == {n \in d.nets : Parent[n] \in Below(i)}
             pins == {p \in d.pins : InstanceOf[p] \in Below(i)}
             x == FoldSet(DeletePin, d, pins)
  <2>1. i \in Leaves /\ Below(i) = {i}
    BY <1>5, BelowLeaf
  <2>2. nets = {}
    BY <1>1, <2>1, LinkedAssumption
  <2>3. FoldSet(DeleteNet, d, {}) = d
    BY <1>1, NetsDeleted
  <2>4. e = [x EXCEPT !.insts = @ \ Below(i), !.gone = @ \cup Below(i)]
    BY <2>2, <2>3 DEF DeleteInstance
  <2>5. DriversInv(x)
    <3>1. pins \in SUBSET Pins
      BY <1>1
    <3>2. \A p \in pins : InstanceOf[p] \in Leaves /\ (IsDriver(p) => LeavesSeen(d, p))
      BY <1>1, <1>5, <2>1
    <3> HIDE DEF pins
    <3>3. QED
      BY <3>1, <3>2, DeletingPinsCurrent
  <2> HIDE DEF x
  <2>6. x \in Designs /\ Listed(x) /\ Current(x)
    BY <2>5 DEF DriversInv
  <2>7. /\ e.nets = x.nets /\ e.netOf = x.netOf /\ e.termOf = x.termOf /\ e.drvrs = x.drvrs
    BY <2>4, <2>6 DEF Designs
  <2>8. DOMAIN e.drvrs \subseteq Nets
    <3>1. e.drvrs \in Found
      BY <1>2 DEF Designs
    <3>2. QED
      BY <3>1, FoundDef
  <2>9. \A m \in Nets : Spanned(e, m) = Spanned(x, m)
    <3>1. \A q \in Pins, m \in Nets, k \in Nets : Ties(x, q, m, k) <=> Ties(e, q, m, k)
      BY <2>7 DEF Ties
    <3>2. QED
      BY <1>2, <2>6, <3>1, SpannedSame
  <2>10. \A q \in Pins, m \in Nets : Drives(e, q, m) <=> Drives(x, q, m)
    BY <2>7, <2>9 DEF Drives
  <2>11. Current(e)
    BY <1>2, <2>5, <2>7, <2>8, <2>10, SameCurrent
  <2>12. QED
    BY <1>2, <1>3, <2>11 DEF DriversInv
<1>6. QED
  BY <1>4, <1>5

(* Making nets and instances changes no driver.                            *)
LEMMA MakeCurrent ==
  ASSUME NEW d, DriversInv(d), NEW e \in Designs, Listed(e),
         e.netOf = d.netOf, e.termOf = d.termOf, e.drvrs = d.drvrs,
         d.nets \subseteq e.nets, \A q \in Pins : d.termOf[q] \notin e.nets \ d.nets
  PROVE  DriversInv(e)
<1>1. d \in Designs /\ Listed(d) /\ PortsByTerm(d)
  BY DEF DriversInv
<1>2. \A q \in Pins, m \in Nets, k \in Nets : Ties(d, q, m, k) <=> Ties(e, q, m, k)
  BY DEF Ties
<1>3. \A m \in Nets : Spanned(e, m) = Spanned(d, m)
  BY <1>1, <1>2, SpannedSame
<1>4. \A q \in Pins, m \in Nets : Drives(e, q, m) <=> Drives(d, q, m)
  BY <1>3 DEF Drives
<1>5. DOMAIN e.drvrs \subseteq Nets
  <2>1. e.drvrs \in Found
    BY DEF Designs
  <2>2. QED
    BY <2>1, FoundDef
<1>6. Current(e)
  BY <1>4, <1>5, SameCurrent
<1>7. PortsByTerm(e)
  BY <1>1 DEF PortsByTerm
<1>8. QED
  BY <1>6, <1>7 DEF DriversInv

LEMMA WithDriversCurrent ==
  ASSUME NEW d, DriversInv(d), ListsInv(d), NEW n \in d.nets, NEW e, e = WithDrivers(d, n)
  PROVE  DriversInv(e)
<1>1. d \in Designs /\ Listed(d) /\ PortsByTerm(d) /\ Current(d) /\ n \in Nets
  BY DEF DriversInv, Designs
<1>2. /\ e \in Designs /\ Listed(e)
      /\ e.drvrs = [m \in DOMAIN d.drvrs \cup {n} |->
                      IF m \in DOMAIN d.drvrs THEN d.drvrs[m] ELSE NetDrivers(d, n)]
      /\ e.nets = d.nets /\ e.netOf = d.netOf /\ e.termOf = d.termOf
      /\ e.netPins = d.netPins /\ e.netTerms = d.netTerms
  BY WithDriversLists DEF ListsInv
<1>3. \A m : NetDrivers(e, m) = NetDrivers(d, m)
  BY <1>2 DEF NetDrivers, ConnectedPins, Spanned, Adjacent
<1>4. Current(e)
  BY <1>1, <1>2, <1>3 DEF Current
<1>5. PortsByTerm(e)
  BY <1>1, <1>2 DEF PortsByTerm
<1>6. QED
  BY <1>2, <1>4, <1>5 DEF DriversInv

LEMMA LinkedDrivers == DriversInv(Linked)
<1>1. Linked \in Designs /\ Listed(Linked)
  BY LinkedLists DEF ListsInv
<1>2. Linked.netOf = LinkedNet /\ DOMAIN Linked.drvrs = {}
  BY NothingFound DEF Linked
<1>3. PortsByTerm(Linked)
  BY <1>2, LinkedAssumption DEF PortsByTerm
<1>4. QED
  BY <1>1, <1>2, <1>3, NothingKeptCurrent DEF DriversInv

LEMMA MergeCurrent ==
  ASSUME NEW d, DriversInv(d), ListsInv(d), NEW n \in d.nets, NEW m \in d.nets, n # m,
         Parent[n] = Parent[m], NEW e, e = MergeInto(d, n, m)
  PROVE  DriversInv(e)
<1>1. /\ d \in Designs /\ Listed(d) /\ PortsByTerm(d) /\ n \in Nets
  BY DEF DriversInv, Designs
<1>2. /\ e \in Designs /\ Listed(e) /\ e.drvrs = NoDrivers
      /\ e.netOf = [p \in Pins |-> IF p \in d.netPins[n] THEN m ELSE d.netOf[p]]
  BY MergeLists DEF ListsInv
<1>3. \A p \in Pins : p \in d.netPins[n] => d.netOf[p] # NoNet
  BY <1>1, NoNetApart DEF Listed
<1>4. PortsByTerm(e)
  BY <1>1, <1>2, <1>3 DEF PortsByTerm
<1>5. QED
  BY <1>2, <1>4, NothingFound, NothingKeptCurrent DEF DriversInv

LEMMA CarefulKeepsDrivers ==
  ASSUME MergesInScope, ListsInv(design), DriversInv(design), [CarefulStep]_vars
  PROVE  ListsInv(design') /\ DriversInv(design')
<1>1. [Next]_vars
  BY DEF CarefulStep, Next
<1>2. ListsInv(design')
  BY <1>1, EditsKeepLists
<1>3. design' \in Designs /\ Listed(design')
  BY <1>2 DEF ListsInv
<1>4. CASE UNCHANGED vars
  BY <1>2, <1>4 DEF vars
<1>5. ASSUME NEW n \in Nets, LookUp(n) PROVE DriversInv(design')
  BY <1>5, WithDriversCurrent DEF LookUp
<1>6. ASSUME NEW e \in Edits, Careful(e), ConnectPin(e) PROVE DriversInv(design')
  <2>1. /\ e.op = "connect" /\ e.pin \in Pins /\ e.net \in design.nets
        /\ InstanceOf[e.pin] = Top => design.termOf[e.pin] = NoNet
        /\ design' = Connect(design, e.pin, e.net)
    BY <1>6, EditKinds DEF ConnectPin, Edit
  <2>2. \/ DOMAIN design.drvrs = {}
        \/ /\ InstanceOf[e.pin] # Top => design.termOf[e.pin] = NoNet
           /\ IsDriver(e.pin) => LeavesSeen(design, e.pin)
           /\ IsDriver(e.pin) => InstanceOf[e.pin] # Top /\ SpanSeen(design, e.net)
    BY <1>6, <2>1 DEF Careful
  <2>3. QED
    BY <1>3, <2>1, <2>2, ConnectCurrent
<1>7. ASSUME NEW e \in Edits, Careful(e), DisconnectPin(e) PROVE DriversInv(design')
  <2>1. e.op = "disconnect" /\ e.pin \in Pins /\ design' = Disconnect(design, e.pin)
    BY <1>7, EditKinds DEF DisconnectPin, Edit
  <2>2. \/ DOMAIN design.drvrs = {}
        \/ /\ InstanceOf[e.pin] # Top => design.termOf[e.pin] = NoNet
           /\ IsDriver(e.pin) => LeavesSeen(design, e.pin)
    BY <1>7, <2>1 DEF Careful
  <2>3. QED
    BY <1>3, <2>1, <2>2, DisconnectCurrent
<1>8. ASSUME NEW e \in Edits, Careful(e), RemoveNet(e) PROVE DriversInv(design')
  <2>1. e.op = "deleteNet" /\ e.net \in design.nets /\ design' = DeleteNet(e.net, design)
    BY <1>8 DEF RemoveNet, Edit
  <2>2. DOMAIN design.drvrs = {} \/ Flat(design, e.net)
    BY <1>8, <2>1 DEF Careful
  <2>3. QED
    BY <1>3, <2>1, <2>2, DeleteNetCurrent
<1>9. ASSUME NEW e \in Edits, AddNet(e) PROVE DriversInv(design')
  <2>1. /\ e.net \in Nets /\ e.net \notin design.nets \cup design.gone
        /\ design' = MakeNet(design, e.net)
    BY <1>9, EditKinds DEF AddNet, Edit
  <2>2. /\ design'.nets = design.nets \cup {e.net} /\ design'.netOf = design.netOf
        /\ design'.termOf = design.termOf /\ design'.drvrs = design.drvrs
    BY <2>1, MakeNetLists
  <2>3. \A q \in Pins : design.termOf[q] # e.net
    BY <2>1, NoNetApart DEF ListsInv, Listed
  <2>4. QED
    BY <1>3, <2>2, <2>3, MakeCurrent
<1>10. ASSUME NEW e \in Edits, Careful(e), RemoveInstance(e) PROVE DriversInv(design')
  <2>1. /\ e.op = "deleteInstance" /\ e.inst \in Instances
        /\ design' = DeleteInstance(design, e.inst)
    BY <1>10, EditKinds DEF RemoveInstance, Edit
  <2>2. \/ DOMAIN design.drvrs = {}
        \/ /\ e.inst \in Leaves
           /\ \A p \in Pins : InstanceOf[p] = e.inst /\ IsDriver(p) => LeavesSeen(design, p)
    BY <1>10, <2>1 DEF Careful
  <2>3. QED
    BY <2>1, <2>2, DeleteInstanceCurrent
<1>11. ASSUME NEW e \in Edits, AddInstance(e) PROVE DriversInv(design')
  <2>1. e.inst \in Instances /\ design' = MakeInstance(design, e.inst)
    BY <1>11, EditKinds DEF AddInstance, Edit
  <2>2. /\ design'.nets = design.nets /\ design'.netOf = design.netOf
        /\ design'.termOf = design.termOf /\ design'.drvrs = design.drvrs
    BY <2>1, MakeInstanceLists
  <2>3. QED
    BY <1>3, <2>2, MakeCurrent
<1>12. ASSUME NEW e \in Edits, Merge(e) PROVE DriversInv(design')
  <2>1. /\ e.net \in design.nets /\ e.into \in design.nets /\ e.net # e.into
        /\ Parent[e.net] = Parent[e.into] /\ design' = MergeInto(design, e.net, e.into)
    BY <1>12 DEF Merge, Edit, MergesInScope
  <2>2. QED
    BY <2>1, MergeCurrent
<1>13. DriversInv(design')
  BY <1>4, <1>5, <1>6, <1>7, <1>8, <1>9, <1>10, <1>11, <1>12 DEF CarefulStep
<1>14. QED
  BY <1>2, <1>13

(* As long as edits are careful, the drivers Network::drivers keeps of a   *)
(* net are those it would find now: the entry that connectNetPin and       *)
(* disconnectNetPin keep up to date is the only one the driver is in, or   *)
(* they forget every entry.                                                *)
THEOREM DriversStayCurrent ==
  MergesInScope => (Spec /\ [][CarefulStep]_vars => []DriversCurrent)
<1> SUFFICES ASSUME MergesInScope PROVE Spec /\ [][CarefulStep]_vars => []DriversCurrent
  OBVIOUS
<1> DEFINE Inv == ListsInv(design) /\ DriversInv(design)
<1>1. Init => Inv
  BY LinkedLists, LinkedDrivers DEF Init
<1>2. Inv /\ [CarefulStep]_vars => Inv'
  <2>1. SUFFICES ASSUME Inv, [CarefulStep]_vars PROVE ListsInv(design') /\ DriversInv(design')
    OBVIOUS
  <2>2. QED
    BY <2>1, CarefulKeepsDrivers
<1>3. Inv => DriversCurrent
  BY DEF DriversInv, Current, DriversCurrent
<1> HIDE DEF Inv
<1>4. QED
  BY <1>1, <1>2, <1>3, PTL DEF Spec

(* A table of a fold that is closed in V, as a function of what op does.   *)
TableOf(op, base, g, S, V) ==
  \A T \in SUBSET S :
    /\ g[T] \in V
    /\ T = {} => g[T] = base
    /\ T # {} => /\ Pick(T) \in S /\ T \ {Pick(T)} \in SUBSET S
                 /\ g[T \ {Pick(T)}] \in V
                 /\ g[T] = op[Pick(T)][g[T \ {Pick(T)}]]

(* A fold over a finite set has a table in V if its operation stays there. *)
LEMMA FoldByTable ==
  ASSUME NEW S, IsFiniteSet(S), NEW V, NEW base \in V, NEW op \in [S -> [V -> V]]
  PROVE  \E g : TableOf(op, base, g, S, V)
<1>1. PICK g \in [SUBSET S -> V] : FoldTable(op, base, g, SUBSET S)
  BY FoldTableExists
<1>2. ASSUME NEW T \in SUBSET S
      PROVE  /\ g[T] \in V
             /\ T = {} => g[T] = base
             /\ T # {} => /\ Pick(T) \in S /\ T \ {Pick(T)} \in SUBSET S
                          /\ g[T \ {Pick(T)}] \in V
                          /\ g[T] = op[Pick(T)][g[T \ {Pick(T)}]]
  <2>1. T # {} => Pick(T) \in S /\ T \ {Pick(T)} \in SUBSET S
    BY PickIn
  <2>2. g[T] = FoldStep(op, base, g, T)
    BY <1>1 DEF FoldTable
  <2>3. QED
    BY <1>1, <2>1, <2>2 DEF FoldStep
<1>3. QED
  BY <1>2 DEF TableOf

------------------------------------------------------------------------------
(* The records the simulator can be, and the values of a pin: unknown, 0,  *)
(* 1.                                                                      *)
Sims ==
  [known : SUBSET (Pins \X (0..1)), valid : BOOLEAN, incremental : BOOLEAN,
   constFuncPins : SUBSET Pins, constFuncPinsValid : BOOLEAN, withConstPins : SUBSET Instances,
   invalidInsts : SUBSET Instances, invalidDrvrs : SUBSET Pins, invalidLoads : SUBSET Pins,
   queue : SUBSET Instances, annotate : SUBSET Instances, disabled : SUBSET Pins, busy : BOOLEAN]

Values == {{}, {0}, {1}}

(* A set of at most one of the values is such a value.                     *)
LEMMA AtMostOne ==
  ASSUME NEW V \in SUBSET (0..1)
  PROVE  Cardinality(V) <= 1 <=> V \in Values
<1>1. V \in {{}, {0}, {1}, {0, 1}}
  <2>1. \A x \in V : x = 0 \/ x = 1
    OBVIOUS
  <2>2. 0 \notin V \/ 0 \in V
    OBVIOUS
  <2>3. CASE 0 \in V /\ 1 \in V
    BY <2>1, <2>3
  <2>4. CASE 0 \in V /\ 1 \notin V
    BY <2>1, <2>4
  <2>5. CASE 0 \notin V /\ 1 \in V
    BY <2>1, <2>5
  <2>6. CASE 0 \notin V /\ 1 \notin V
    BY <2>1, <2>6
  <2>7. QED
    BY <2>3, <2>4, <2>5, <2>6
<1>2. Cardinality({}) = 0 /\ Cardinality({0}) = 1 /\ Cardinality({1}) = 1
  BY FS_EmptySet, FS_Singleton
<1>3. Cardinality({0, 1}) = 2
  <2>1. IsFiniteSet({0}) /\ 1 \notin {0} /\ {0, 1} = {0} \cup {1}
    <3>1. IsFiniteSet({0})
      BY FS_Singleton
    <3>2. QED
      BY <3>1
  <2>2. QED
    BY <1>2, <2>1, FS_AddElement
<1>4. ASSUME V = {0, 1} PROVE ~ Cardinality(V) <= 1 /\ V \notin Values
  <2>1. Cardinality(V) = 2
    BY <1>3, <1>4
  <2>2. V \notin Values
    BY <1>4 DEF Values
  <2>3. QED
    BY <2>1, <2>2
<1>5. ASSUME V \in Values PROVE Cardinality(V) <= 1
  <2>1. V = {} \/ V = {0} \/ V = {1}
    BY <1>5 DEF Values
  <2>2. Cardinality(V) = 0 \/ Cardinality(V) = 1
    BY <1>2, <2>1
  <2>3. QED
    BY <2>2
<1>6. V \in Values \/ V = {0, 1}
  BY <1>1 DEF Values
<1>7. QED
  BY <1>4, <1>5, <1>6

(* The value of a pin is made of the known pairs that name it.             *)
LEMMA ValueMembers ==
  ASSUME NEW known \in SUBSET (Pins \X (0..1)), NEW p
  PROVE  /\ \A v : v \in ValueIn(known, p) <=> <<p, v>> \in known
         /\ ValueIn(known, p) \in SUBSET (0..1)
         /\ p \notin Pins => ValueIn(known, p) = {}
<1>1. \A k \in known : k[1] \in Pins /\ k[2] \in 0..1 /\ k = <<k[1], k[2]>>
  OBVIOUS
<1>2. \A v : v \in ValueIn(known, p) <=> \E k \in known : k[1] = p /\ k[2] = v
  BY DEF ValueIn
<1>3. \A v : v \in ValueIn(known, p) <=> <<p, v>> \in known
  BY <1>1, <1>2
<1>4. QED
  BY <1>1, <1>2, <1>3

(* Pins connected to a net are pins of the design.                         *)
LEMMA ConnectedIn ==
  ASSUME NEW d \in Designs, Listed(d), NEW n \in Nets
  PROVE  ConnectedPins(d, n) \subseteq d.pins
<1>1. Spanned(d, n) \subseteq Nets
  BY SpannedNets
<1>2. \A m \in Nets, p \in Pins : p \in d.netPins[m] \/ p \in d.netTerms[m] => p \in d.pins
  BY NoNetApart DEF Listed
<1>3. \A m \in Nets : d.netPins[m] \subseteq Pins /\ d.netTerms[m] \subseteq Pins
  BY DEF Designs
<1>4. QED
  BY <1>1, <1>2, <1>3 DEF ConnectedPins

(* So are the loads of a driver.                                           *)
LEMMA LoadsIn ==
  ASSUME NEW d \in Designs, Listed(d), NEW p \in Pins
  PROVE  Loads(d, p) \subseteq d.pins
<1>1. {d.netOf[p], d.termOf[p]} \ {NoNet} \subseteq Nets
  BY DEF Designs
<1>2. \A n \in {d.netOf[p], d.termOf[p]} \ {NoNet} : ConnectedPins(d, n) \subseteq d.pins
  BY <1>1, ConnectedIn
<1>3. PinConnectedPins(d, p) \subseteq {p} \cup d.pins
  BY <1>2 DEF PinConnectedPins
<1>4. QED
  BY <1>3 DEF Loads

------------------------------------------------------------------------------
(* What setPinValue does to the members of the record.                     *)
Reached(p, v) == {q \in {p} \cup (IF IsDriver(p) THEN Loads(design, p) ELSE {}) : Settable(q, v)}

(* The instances of pins.                                                  *)
Of(pins) == {InstanceOf[q] : q \in pins}

(* setPinValue in these terms: SetPinValue without its local definitions.  *)
LEMMA SetPinIs ==
  ASSUME NEW s, NEW p, NEW v
  PROVE  SetPinValue(s, p, v) =
           IF ~Settable(p, v) THEN s
           ELSE [s EXCEPT
                   !.known = {k \in @ : k[1] \notin Reached(p, v)} \cup (Reached(p, v) \X v),
                   !.withConstPins = @ \cup (IF v = {} THEN {} ELSE Of(Reached(p, v))),
                   !.annotate = @ \cup Of(Reached(p, v)),
                   !.queue = @ \cup Of({q \in Reached(p, v) : InstanceOf[q] \in Leaves /\ q \notin Outputs})]
BY DEF SetPinValue, Reached, Of

(* The pins that setPinValue sets are pins, of the design if p is.         *)
LEMMA ReachedIn ==
  ASSUME ListsInv(design), NEW p \in Pins, NEW v
  PROVE  /\ Reached(p, v) \subseteq Pins
         /\ p \in design.pins => Reached(p, v) \subseteq design.pins
<1>1. Loads(design, p) \subseteq design.pins /\ design.pins \subseteq Pins
  BY LoadsIn DEF ListsInv, Designs
<1>2. QED
  BY <1>1 DEF Reached

(* The members setPinValue leaves alone.                                   *)
SameButValues(s, t) ==
  /\ t.valid = s.valid /\ t.incremental = s.incremental
  /\ t.constFuncPins = s.constFuncPins /\ t.constFuncPinsValid = s.constFuncPinsValid
  /\ t.invalidInsts = s.invalidInsts /\ t.invalidDrvrs = s.invalidDrvrs
  /\ t.invalidLoads = s.invalidLoads /\ t.disabled = s.disabled /\ t.busy = s.busy

SetsPin(s, p, v, t) ==
  /\ t \in Sims /\ SameButValues(s, t)
  /\ \A q \in Pins : ValueIn(t.known, q) = IF Settable(p, v) /\ q \in Reached(p, v) THEN v ELSE ValueIn(s.known, q)
  /\ t.withConstPins = s.withConstPins \cup (IF Settable(p, v) /\ v # {} THEN Of(Reached(p, v)) ELSE {})
  /\ t.annotate = s.annotate \cup (IF Settable(p, v) THEN Of(Reached(p, v)) ELSE {})
  /\ t.queue = s.queue \cup (IF Settable(p, v)
                              THEN Of({q \in Reached(p, v) : InstanceOf[q] \in Leaves /\ q \notin Outputs})
                              ELSE {})

(* setPinValue gives a simulator record whose members are as SetsPin has   *)
(* them.                                                                   *)
LEMMA SetPinDoes ==
  ASSUME NEW s \in Sims, ListsInv(design), NEW p \in Pins, NEW v \in SUBSET (0..1)
  PROVE  SetsPin(s, p, v, SetPinValue(s, p, v))
<1> DEFINE t == SetPinValue(s, p, v)
           R == Reached(p, v)
<1>1. R \subseteq Pins
  BY ReachedIn
<1>2. CASE ~Settable(p, v)
  <2>1. t = s
    BY <1>2, SetPinIs
  <2> HIDE DEF t
  <2>2. QED
    BY <1>2, <2>1 DEF SetsPin, SameButValues, t
<1>3. CASE Settable(p, v)
  <2> DEFINE known == {k \in s.known : k[1] \notin R} \cup (R \X v)
             const == s.withConstPins \cup (IF v = {} THEN {} ELSE Of(R))
             annotate == s.annotate \cup Of(R)
             queue == s.queue \cup Of({q \in R : InstanceOf[q] \in Leaves /\ q \notin Outputs})
  <2>1. t = [s EXCEPT !.known = known, !.withConstPins = const, !.annotate = annotate, !.queue = queue]
    BY <1>3, SetPinIs
  <2>2. \A T \in SUBSET Pins : Of(T) \subseteq Instances
    BY NetlistAssumption DEF Of
  <2>3. s.known \in SUBSET (Pins \X (0..1))
    BY DEF Sims
  <2>4. known \in SUBSET (Pins \X (0..1))
    BY <1>1, <2>3
  <2>5. const \in SUBSET Instances /\ annotate \in SUBSET Instances /\ queue \in SUBSET Instances
    <3>1. {q \in R : InstanceOf[q] \in Leaves /\ q \notin Outputs} \in SUBSET Pins
      BY <1>1
    <3>2. s.withConstPins \in SUBSET Instances /\ s.annotate \in SUBSET Instances /\ s.queue \in SUBSET Instances
      BY DEF Sims
    <3> HIDE DEF R
    <3>3. QED
      BY <1>1, <2>2, <3>1, <3>2
  <2>6. ASSUME NEW q \in Pins
        PROVE  ValueIn(known, q) = IF q \in R THEN v ELSE ValueIn(s.known, q)
    <3>1. \A w : w \in ValueIn(known, q) <=> <<q, w>> \in known
      BY <2>4, ValueMembers
    <3>2. \A w : w \in ValueIn(s.known, q) <=> <<q, w>> \in s.known
      BY <2>3, ValueMembers
    <3>3. \A w : <<q, w>> \in known <=> \/ <<q, w>> \in s.known /\ q \notin R
                                        \/ q \in R /\ w \in v
      <4> HIDE DEF R
      <4>1. QED
        OBVIOUS
    <3> HIDE DEF known, R
    <3>4. QED
      BY <3>1, <3>2, <3>3
  <2> HIDE DEF known, const, annotate, queue, t
  <2>7. t \in Sims /\ SameButValues(s, t)
    BY <2>1, <2>4, <2>5 DEF Sims, SameButValues
  <2>8. t.known = known /\ t.withConstPins = const /\ t.annotate = annotate /\ t.queue = queue
    BY <2>1 DEF Sims
  <2>9. QED
    BY <1>3, <2>6, <2>7, <2>8 DEF SetsPin, t, const, annotate, queue
<1>4. QED
  BY <1>2, <1>3

(* The values fit the pins there are, and are noted.                       *)
Good(s) ==
  /\ s \in Sims
  /\ \A p \in Pins :
       /\ ValueIn(s.known, p) \in Values
       /\ ValueIn(s.known, p) # {} => p \in design.pins /\ InstanceOf[p] \in s.withConstPins
  /\ s.withConstPins \subseteq design.insts /\ s.queue \subseteq design.insts \cap Leaves

(* What a number of calls of setPinValue leave: a value changes only to    *)
(* what no constraint forbids, and the instance is noted.                  *)
Notes(s, t) ==
  /\ s.annotate \subseteq t.annotate /\ s.queue \subseteq t.queue
  /\ s.withConstPins \subseteq t.withConstPins
  /\ \A p \in Pins : ValueIn(t.known, p) # ValueIn(s.known, p) =>
       /\ p \in design.pins /\ Settable(p, ValueIn(t.known, p))
       /\ InstanceOf[p] \in t.annotate
       /\ InstanceOf[p] \in Leaves /\ p \notin Outputs => InstanceOf[p] \in t.queue

(* What a number of calls of setPinValue make of s.                        *)
Evolves(s, t) == t \in Sims /\ SameButValues(s, t) /\ Notes(s, t)

(* None at all leaves s as it is.                                            *)
LEMMA EvolvesSelf ==
  ASSUME NEW s \in Sims
  PROVE  Evolves(s, s)
BY DEF Evolves, SameButValues, Notes

(* What is noted stays noted: Notes goes from step to step.                *)
LEMMA NotesOn ==
  ASSUME NEW s, NEW t, NEW u, Notes(s, t), Notes(t, u)
  PROVE  Notes(s, u)
<1>1. /\ s.annotate \subseteq u.annotate /\ s.queue \subseteq u.queue
      /\ s.withConstPins \subseteq u.withConstPins
  BY DEF Notes
<1>2. ASSUME NEW p \in Pins, ValueIn(u.known, p) # ValueIn(s.known, p)
      PROVE  /\ p \in design.pins /\ Settable(p, ValueIn(u.known, p))
             /\ InstanceOf[p] \in u.annotate
             /\ InstanceOf[p] \in Leaves /\ p \notin Outputs => InstanceOf[p] \in u.queue
  <2>1. CASE ValueIn(u.known, p) # ValueIn(t.known, p)
    BY <2>1 DEF Notes
  <2>2. CASE ValueIn(u.known, p) = ValueIn(t.known, p)
    <3>1. ValueIn(t.known, p) # ValueIn(s.known, p)
      BY <1>2, <2>2
    <3>2. /\ p \in design.pins /\ Settable(p, ValueIn(t.known, p))
          /\ InstanceOf[p] \in t.annotate
          /\ InstanceOf[p] \in Leaves /\ p \notin Outputs => InstanceOf[p] \in t.queue
      BY <3>1 DEF Notes
    <3>3. t.annotate \subseteq u.annotate /\ t.queue \subseteq u.queue
      BY DEF Notes
    <3>4. QED
      BY <2>2, <3>2, <3>3
  <2>3. QED
    BY <2>1, <2>2
<1>3. QED
  BY <1>1, <1>2 DEF Notes

(* Calls one after the other.                                              *)
LEMMA EvolvesOn ==
  ASSUME NEW s, NEW t, NEW u, Evolves(s, t), Evolves(t, u)
  PROVE  Evolves(s, u)
<1>1. u \in Sims /\ SameButValues(s, u)
  BY DEF Evolves, SameButValues
<1>2. Notes(s, u)
  BY NotesOn DEF Evolves
<1>3. QED
  BY <1>1, <1>2 DEF Evolves

(* One call, on a pin of the design; the values stay of the pins there     *)
(* are.                                                                    *)
LEMMA SetPinEvolves ==
  ASSUME ListsInv(design), NEW s \in Sims, NEW p \in design.pins, NEW v \in Values,
         NEW t, t = SetPinValue(s, p, v)
  PROVE  Evolves(s, t) /\ (Good(s) => Good(t))
<1>1. p \in Pins /\ v \in SUBSET (0..1)
  BY DEF ListsInv, Designs, Values
<1>2. SetsPin(s, p, v, t)
  BY <1>1, SetPinDoes
<1>3. Reached(p, v) \subseteq design.pins /\ Reached(p, v) \subseteq Pins
  BY <1>1, ReachedIn
<1>4. \A q \in Reached(p, v) : Settable(q, v)
  BY DEF Reached
<1>5. /\ t \in Sims /\ SameButValues(s, t)
      /\ s.annotate \subseteq t.annotate /\ s.queue \subseteq t.queue
      /\ s.withConstPins \subseteq t.withConstPins
  BY <1>2 DEF SetsPin
<1>6. ASSUME NEW q \in Pins, ValueIn(t.known, q) # ValueIn(s.known, q)
      PROVE  /\ q \in design.pins /\ Settable(q, ValueIn(t.known, q))
             /\ InstanceOf[q] \in t.annotate
             /\ InstanceOf[q] \in Leaves /\ q \notin Outputs => InstanceOf[q] \in t.queue
  <2>1. Settable(p, v) /\ q \in Reached(p, v) /\ ValueIn(t.known, q) = v
    BY <1>2, <1>6 DEF SetsPin
  <2>2. InstanceOf[q] \in t.annotate
    BY <1>2, <2>1 DEF SetsPin, Of
  <2>3. InstanceOf[q] \in Leaves /\ q \notin Outputs => InstanceOf[q] \in t.queue
    BY <1>2, <2>1 DEF SetsPin, Of
  <2>4. QED
    BY <1>3, <1>4, <2>1, <2>2, <2>3
<1>7. Evolves(s, t)
  BY <1>5, <1>6 DEF Evolves, Notes
<1>8. ASSUME Good(s) PROVE Good(t)
  <2>1. Of(Reached(p, v)) \subseteq design.insts
    BY <1>3 DEF Of, ListsInv, Whole
  <2>2. t.withConstPins \subseteq design.insts
    BY <1>2, <1>8, <2>1 DEF SetsPin, Good
  <2>3. t.queue \subseteq design.insts \cap Leaves
    <3>1. Of({q \in Reached(p, v) : InstanceOf[q] \in Leaves /\ q \notin Outputs})
            \subseteq Of(Reached(p, v)) \cap Leaves
      BY DEF Of
    <3>2. QED
      BY <1>2, <1>8, <2>1, <3>1 DEF SetsPin, Good
  <2>4. ASSUME NEW q \in Pins
        PROVE  /\ ValueIn(t.known, q) \in Values
               /\ ValueIn(t.known, q) # {} => q \in design.pins /\ InstanceOf[q] \in t.withConstPins
    <3>1. CASE Settable(p, v) /\ q \in Reached(p, v)
      <4>1. ValueIn(t.known, q) = v
        BY <1>2, <3>1 DEF SetsPin
      <4>2. v # {} => InstanceOf[q] \in t.withConstPins
        BY <1>2, <3>1 DEF SetsPin, Of
      <4>3. QED
        BY <1>3, <3>1, <4>1, <4>2
    <3>2. CASE ~(Settable(p, v) /\ q \in Reached(p, v))
      <4>1. ValueIn(t.known, q) = ValueIn(s.known, q)
        BY <1>2, <3>2 DEF SetsPin
      <4>2. QED
        BY <1>5, <1>8, <4>1 DEF Good
    <3>3. QED
      BY <3>1, <3>2
  <2>5. QED
    BY <1>5, <2>2, <2>3, <2>4 DEF Good
<1>9. QED
  BY <1>7, <1>8

------------------------------------------------------------------------------
(* The folds, as tables of what has been done after each of the elements.  *)
(* What each step of setting pins to a value keeps.                        *)
LEMMA SetEachStays ==
  ASSUME ListsInv(design), NEW s \in Sims, NEW S \in SUBSET Pins, NEW v \in SUBSET (0..1),
         NEW W, s \in W[{}],
         \A T \in SUBSET S, x \in S, t \in Sims :
           x \in T /\ t \in W[T \ {x}] => SetPinValue(t, x, v) \in W[T]
  PROVE  SetEach(s, S, v) \in W[S] /\ SetEach(s, S, v) \in Sims
<1> DEFINE Step(iter, T) == IF T = {} THEN s ELSE SetPinValue(iter[T \ {Pick(T)}], Pick(T), v)
           Is(iter) == iter = [T \in SUBSET S |-> Step(iter, T)]
           op == [x \in S |-> [t \in Sims |-> SetPinValue(t, x, v)]]
           h == CHOOSE iter : Is(iter)
<1>1. SetEach(s, S, v) = h[S]
  BY DEF SetEach, FoldSet, MapThenFoldSet, Pick
<1>2. op \in [S -> [Sims -> Sims]] /\ s \in Sims
  BY SetPinDoes DEF SetsPin
<1>3. IsFiniteSet(S)
  BY NetlistAssumption, FS_Subset
<1>4. PICK g : TableOf(op, s, g, S, Sims)
  <2> HIDE DEF op
  <2>1. QED
    BY <1>2, <1>3, FoldByTable
<1>5. \A T \in SUBSET S : g[T] = Step(g, T)
  BY <1>4 DEF TableOf
<1> DEFINE k == [T \in SUBSET S |-> g[T]]
<1>6. Is(k)
  <2>1. \A T \in SUBSET S : Step(k, T) = Step(g, T)
    BY <1>4 DEF TableOf
  <2> HIDE DEF Step
  <2>2. QED
    BY <1>5, <2>1
<1>7. Is(h)
  <2> HIDE DEF Is, k
  <2>1. QED
    BY <1>6
<1> HIDE DEF h
<1>8. \A T \in SUBSET S : h[T] = Step(h, T)
  <2> HIDE DEF Step
  <2>1. QED
    BY <1>7
<1>9. h[{}] = s
  BY <1>8
<1> DEFINE X == [T \in SUBSET S |-> W[T] \cap Sims]
<1>10. h[{}] \in X[{}]
  BY <1>2, <1>9
<1>11. ASSUME NEW T \in SUBSET S, T # {}, h[T \ {Pick(T)}] \in X[T \ {Pick(T)}]
      PROVE  h[T] \in X[T]
  <2> DEFINE x == Pick(T)
             t == h[T \ {x}]
  <2>1. x \in T /\ x \in S /\ T \ {x} \in SUBSET S
    BY <1>11, PickIn
  <2>2. t \in Sims /\ t \in W[T \ {x}]
    BY <1>11, <2>1
  <2>3. h[T] = SetPinValue(t, x, v)
    BY <1>8, <1>11
  <2>4. SetPinValue(t, x, v) = op[x][t]
    BY <2>1, <2>2
  <2> HIDE DEF x, t, op
  <2>5. h[T] \in Sims
    BY <1>2, <2>1, <2>2, <2>3, <2>4
  <2>6. h[T] \in W[T]
    BY <2>1, <2>2, <2>3
  <2>7. QED
    BY <2>5, <2>6
<1>12. h[S] \in X[S]
  <2> HIDE DEF X
  <2>1. QED
    BY <1>3, <1>10, <1>11, FoldStays
<1>13. QED
  BY <1>1, <1>12

(* Setting pins to a value gives a simulator record.                       *)
LEMMA SetEachIn ==
  ASSUME ListsInv(design), NEW s \in Sims, NEW S \in SUBSET Pins, NEW v \in SUBSET (0..1)
  PROVE  SetEach(s, S, v) \in Sims
<1> DEFINE W == [T \in SUBSET S |-> Sims]
<1>1. s \in W[{}]
  OBVIOUS
<1>2. \A T \in SUBSET S, x \in S, t \in Sims :
        x \in T /\ t \in W[T \ {x}] => SetPinValue(t, x, v) \in W[T]
  BY SetPinDoes DEF SetsPin
<1> HIDE DEF W
<1>3. QED
  BY <1>1, <1>2, SetEachStays

(* What each step of setting pins to their values keeps.                   *)
LEMMA SetAllStays ==
  ASSUME ListsInv(design), NEW s \in Sims, NEW P \in SUBSET (Pins \X (0..1)),
         NEW W, s \in W[{}],
         \A T \in SUBSET P, x \in P, t \in Sims :
           x \in T /\ t \in W[T \ {x}] => SetPinValue(t, x[1], {x[2]}) \in W[T]
  PROVE  SetAll(s, P) \in W[P] /\ SetAll(s, P) \in Sims
<1> DEFINE Step(iter, T) == IF T = {} THEN s ELSE SetPinValue(iter[T \ {Pick(T)}], Pick(T)[1], {Pick(T)[2]})
           Is(iter) == iter = [T \in SUBSET P |-> Step(iter, T)]
           op == [x \in P |-> [t \in Sims |-> SetPinValue(t, x[1], {x[2]})]]
           h == CHOOSE iter : Is(iter)
<1>1. SetAll(s, P) = h[P]
  BY DEF SetAll, FoldSet, MapThenFoldSet, Pick
<1>2. op \in [P -> [Sims -> Sims]] /\ s \in Sims
  <2>1. ASSUME NEW x \in P, NEW t \in Sims PROVE SetPinValue(t, x[1], {x[2]}) \in Sims
    <3>1. x[1] \in Pins /\ {x[2]} \in SUBSET (0..1)
      OBVIOUS
    <3>2. QED
      BY <3>1, SetPinDoes DEF SetsPin
  <2>2. QED
    BY <2>1
<1>3. IsFiniteSet(P)
  <2>1. IsFiniteSet(Pins) /\ IsFiniteSet(0..1)
    <3>1. IsFiniteSet(0..1)
      <4>1. 0 \in Int /\ 1 \in Int
        OBVIOUS
      <4>2. QED
        BY <4>1, FS_Interval
    <3>2. QED
      BY <3>1, NetlistAssumption
  <2>2. IsFiniteSet(Pins \X (0..1))
    BY <2>1, FS_Product
  <2>3. QED
    BY <2>2, FS_Subset
<1>4. PICK g : TableOf(op, s, g, P, Sims)
  <2> HIDE DEF op
  <2>1. QED
    BY <1>2, <1>3, FoldByTable
<1>5. \A T \in SUBSET P : g[T] = Step(g, T)
  BY <1>4 DEF TableOf
<1> DEFINE k == [T \in SUBSET P |-> g[T]]
<1>6. Is(k)
  <2>1. \A T \in SUBSET P : Step(k, T) = Step(g, T)
    BY <1>4 DEF TableOf
  <2> HIDE DEF Step
  <2>2. QED
    BY <1>5, <2>1
<1>7. Is(h)
  <2> HIDE DEF Is, k
  <2>1. QED
    BY <1>6
<1> HIDE DEF h
<1>8. \A T \in SUBSET P : h[T] = Step(h, T)
  <2> HIDE DEF Step
  <2>1. QED
    BY <1>7
<1>9. h[{}] = s
  BY <1>8
<1> DEFINE X == [T \in SUBSET P |-> W[T] \cap Sims]
<1>10. h[{}] \in X[{}]
  BY <1>2, <1>9
<1>11. ASSUME NEW T \in SUBSET P, T # {}, h[T \ {Pick(T)}] \in X[T \ {Pick(T)}]
      PROVE  h[T] \in X[T]
  <2> DEFINE x == Pick(T)
             t == h[T \ {x}]
  <2>1. x \in T /\ x \in P /\ T \ {x} \in SUBSET P
    BY <1>11, PickIn
  <2>2. t \in Sims /\ t \in W[T \ {x}]
    BY <1>11, <2>1
  <2>3. h[T] = SetPinValue(t, x[1], {x[2]})
    BY <1>8, <1>11
  <2>4. SetPinValue(t, x[1], {x[2]}) = op[x][t]
    BY <2>1, <2>2
  <2> HIDE DEF x, t, op
  <2>5. h[T] \in Sims
    BY <1>2, <2>1, <2>2, <2>3, <2>4
  <2>6. h[T] \in W[T]
    BY <2>1, <2>2, <2>3
  <2>7. QED
    BY <2>5, <2>6
<1>12. h[P] \in X[P]
  <2> HIDE DEF X
  <2>1. QED
    BY <1>3, <1>10, <1>11, FoldStays
<1>13. QED
  BY <1>1, <1>12

(* What each step of propagating to the loads that are invalid keeps.      *)
LEMMA InvalidLoadsStay ==
  ASSUME ListsInv(design), NEW s \in Sims, NEW d, d = LookedUp(s), NEW S, S = s.invalidLoads,
         NEW W, s \in W[{}],
         \A T \in SUBSET S, x \in S, t \in Sims :
           x \in T /\ t \in W[T \ {x}] => SetInvalidLoad(d, x, t) \in W[T]
  PROVE  \E t \in Sims : /\ t \in W[S]
                         /\ PropagateToInvalidLoads(s) = [t EXCEPT !.invalidLoads = {}]
<1> DEFINE Step(iter, T) == IF T = {} THEN s ELSE SetInvalidLoad(d, Pick(T), iter[T \ {Pick(T)}])
           Is(iter) == iter = [T \in SUBSET S |-> Step(iter, T)]
           op == [x \in S |-> [t \in Sims |-> SetInvalidLoad(d, x, t)]]
           h == CHOOSE iter : Is(iter)
<1>1. PropagateToInvalidLoads(s) = [h[S] EXCEPT !.invalidLoads = {}]
  BY DEF PropagateToInvalidLoads, FoldSet, MapThenFoldSet, Pick
<1>2. op \in [S -> [Sims -> Sims]] /\ s \in Sims
  <2>1. ASSUME NEW p \in S, NEW t \in Sims PROVE SetInvalidLoad(d, p, t) \in Sims
    <3>1. t.known \in SUBSET (Pins \X (0..1))
      BY DEF Sims
    <3>2. {v \in 0..1 : d.netOf[p] \in d.constants[v]} \in SUBSET (0..1)
          /\ ValueIn(t.known, DrvrOf(d, p)) \in SUBSET (0..1)
      BY <3>1, ValueMembers
    <3>4. p \in Pins
      BY DEF Sims
    <3>3. \A v \in SUBSET (0..1) : SetPinValue(t, p, v) \in Sims
      BY <3>4, SetPinDoes DEF SetsPin
    <3>5. QED
      BY <3>2, <3>3 DEF SetInvalidLoad
  <2>2. QED
    BY <2>1
<1>3. IsFiniteSet(S)
  BY NetlistAssumption, FS_Subset DEF Sims
<1>4. PICK g : TableOf(op, s, g, S, Sims)
  <2> HIDE DEF op
  <2>1. QED
    BY <1>2, <1>3, FoldByTable
<1>5. \A T \in SUBSET S : g[T] = Step(g, T)
  BY <1>4 DEF TableOf
<1> DEFINE k == [T \in SUBSET S |-> g[T]]
<1>6. Is(k)
  <2>1. \A T \in SUBSET S : Step(k, T) = Step(g, T)
    BY <1>4 DEF TableOf
  <2> HIDE DEF Step
  <2>2. QED
    BY <1>5, <2>1
<1>7. Is(h)
  <2> HIDE DEF Is, k
  <2>1. QED
    BY <1>6
<1> HIDE DEF h
<1>8. \A T \in SUBSET S : h[T] = Step(h, T)
  <2> HIDE DEF Step
  <2>1. QED
    BY <1>7
<1>9. h[{}] = s
  BY <1>8
<1> DEFINE X == [T \in SUBSET S |-> W[T] \cap Sims]
<1>10. h[{}] \in X[{}]
  BY <1>2, <1>9
<1>11. ASSUME NEW T \in SUBSET S, T # {}, h[T \ {Pick(T)}] \in X[T \ {Pick(T)}]
      PROVE  h[T] \in X[T]
  <2> DEFINE x == Pick(T)
             t == h[T \ {x}]
  <2>1. x \in T /\ x \in S /\ T \ {x} \in SUBSET S
    BY <1>11, PickIn
  <2>2. t \in Sims /\ t \in W[T \ {x}]
    BY <1>11, <2>1
  <2>3. h[T] = SetInvalidLoad(d, x, t)
    BY <1>8, <1>11
  <2>4. SetInvalidLoad(d, x, t) = op[x][t]
    BY <2>1, <2>2
  <2> HIDE DEF x, t, op
  <2>5. h[T] \in Sims
    BY <1>2, <2>1, <2>2, <2>3, <2>4
  <2>6. h[T] \in W[T]
    BY <2>1, <2>2, <2>3
  <2>7. QED
    BY <2>5, <2>6
<1>12. h[S] \in X[S]
  <2> HIDE DEF X
  <2>1. QED
    BY <1>3, <1>10, <1>11, FoldStays
<1>13. QED
  BY <1>1, <1>12

(* What each step of propagating from the drivers that are invalid keeps.  *)
LEMMA InvalidDrvrsStay ==
  ASSUME ListsInv(design), NEW s \in Sims, NEW S, S = s.invalidDrvrs,
         \A p \in S : DrvrValue(s, p) \in SUBSET (0..1),
         NEW W, s \in W[{}],
         \A T \in SUBSET S, x \in S, t \in Sims :
           x \in T /\ t \in W[T \ {x}] => SetEach(t, Loads(design, x), DrvrValue(s, x)) \in W[T]
  PROVE  \E t \in Sims : /\ t \in W[S]
                         /\ PropagateFromInvalidDrvrs(s) = [t EXCEPT !.invalidDrvrs = {}]
<1> DEFINE Step(iter, T) == IF T = {} THEN s ELSE SetEach(iter[T \ {Pick(T)}], Loads(design, Pick(T)), DrvrValue(s, Pick(T)))
           Is(iter) == iter = [T \in SUBSET S |-> Step(iter, T)]
           op == [x \in S |-> [t \in Sims |-> SetEach(t, Loads(design, x), DrvrValue(s, x))]]
           h == CHOOSE iter : Is(iter)
<1>1. PropagateFromInvalidDrvrs(s) = [h[S] EXCEPT !.invalidDrvrs = {}]
  BY DEF PropagateFromInvalidDrvrs, FoldSet, MapThenFoldSet, Pick
<1>2. op \in [S -> [Sims -> Sims]] /\ s \in Sims
  <2>1. ASSUME NEW p \in S, NEW t \in Sims PROVE SetEach(t, Loads(design, p), DrvrValue(s, p)) \in Sims
    <3>1. Loads(design, p) \in SUBSET Pins
      BY LoadsIn DEF Sims, ListsInv, Designs
    <3>2. QED
      BY <3>1, SetEachIn
  <2>2. QED
    BY <2>1
<1>3. IsFiniteSet(S)
  BY NetlistAssumption, FS_Subset DEF Sims
<1>4. PICK g : TableOf(op, s, g, S, Sims)
  <2> HIDE DEF op
  <2>1. QED
    BY <1>2, <1>3, FoldByTable
<1>5. \A T \in SUBSET S : g[T] = Step(g, T)
  BY <1>4 DEF TableOf
<1> DEFINE k == [T \in SUBSET S |-> g[T]]
<1>6. Is(k)
  <2>1. \A T \in SUBSET S : Step(k, T) = Step(g, T)
    BY <1>4 DEF TableOf
  <2> HIDE DEF Step
  <2>2. QED
    BY <1>5, <2>1
<1>7. Is(h)
  <2> HIDE DEF Is, k
  <2>1. QED
    BY <1>6
<1> HIDE DEF h
<1>8. \A T \in SUBSET S : h[T] = Step(h, T)
  <2> HIDE DEF Step
  <2>1. QED
    BY <1>7
<1>9. h[{}] = s
  BY <1>8
<1> DEFINE X == [T \in SUBSET S |-> W[T] \cap Sims]
<1>10. h[{}] \in X[{}]
  BY <1>2, <1>9
<1>11. ASSUME NEW T \in SUBSET S, T # {}, h[T \ {Pick(T)}] \in X[T \ {Pick(T)}]
      PROVE  h[T] \in X[T]
  <2> DEFINE x == Pick(T)
             t == h[T \ {x}]
  <2>1. x \in T /\ x \in S /\ T \ {x} \in SUBSET S
    BY <1>11, PickIn
  <2>2. t \in Sims /\ t \in W[T \ {x}]
    BY <1>11, <2>1
  <2>3. h[T] = SetEach(t, Loads(design, x), DrvrValue(s, x))
    BY <1>8, <1>11
  <2>4. SetEach(t, Loads(design, x), DrvrValue(s, x)) = op[x][t]
    BY <2>1, <2>2
  <2> HIDE DEF x, t, op
  <2>5. h[T] \in Sims
    BY <1>2, <2>1, <2>2, <2>3, <2>4
  <2>6. h[T] \in W[T]
    BY <2>1, <2>2, <2>3
  <2>7. QED
    BY <2>5, <2>6
<1>12. h[S] \in X[S]
  <2> HIDE DEF X
  <2>1. QED
    BY <1>3, <1>10, <1>11, FoldStays
<1>13. QED
  BY <1>1, <1>12

(* What each of the drivers that are looked up keeps.                      *)
Netlists == {d \in Designs : ListsInv(d) /\ d.nets = design.nets}

(* A design that drivers are looked up in has the nets it had, and any     *)
(* property that each look up keeps.                                       *)
LEMMA LookUpsStay ==
  ASSUME ListsInv(design), NEW s, NEW S, S = NetsLookedUp(s), S \subseteq design.nets,
         NEW W, design \in W[{}],
         \A T \in SUBSET S, x \in S, t \in Netlists :
           x \in T /\ t \in W[T \ {x}] => WithDrivers(t, x) \in W[T]
  PROVE  LookedUp(s) \in W[S]
<1> DEFINE Step(iter, T) == IF T = {} THEN design ELSE WithDrivers(iter[T \ {Pick(T)}], Pick(T))
           Is(iter) == iter = [T \in SUBSET S |-> Step(iter, T)]
           op == [x \in S |-> [t \in Netlists |-> WithDrivers(t, x)]]
           h == CHOOSE iter : Is(iter)
<1>1. LookedUp(s) = h[S]
  BY DEF LookedUp, FoldSet, MapThenFoldSet, Pick
<1>2. op \in [S -> [Netlists -> Netlists]] /\ design \in Netlists
  <2>1. ASSUME NEW n \in S, NEW t \in Netlists PROVE WithDrivers(t, n) \in Netlists
    <3>1. ListsInv(t) /\ n \in t.nets /\ t.nets = design.nets
      BY DEF Netlists
    <3>2. ListsInv(WithDrivers(t, n)) /\ WithDrivers(t, n).nets = t.nets
      BY <3>1, WithDriversLists, ZenonT(40)
    <3>3. QED
      BY <3>1, <3>2 DEF Netlists, ListsInv
  <2>2. QED
    BY <2>1 DEF Netlists, ListsInv, Designs
<1>3. IsFiniteSet(S)
  <2>1. S \in SUBSET Nets
    BY DEF ListsInv, Designs
  <2>2. QED
    BY <2>1, NetlistAssumption, FS_Subset
<1>4. PICK g : TableOf(op, design, g, S, Netlists)
  <2> HIDE DEF op
  <2>1. QED
    BY <1>2, <1>3, FoldByTable
<1>5. \A T \in SUBSET S : g[T] = Step(g, T)
  BY <1>4 DEF TableOf
<1> DEFINE k == [T \in SUBSET S |-> g[T]]
<1>6. Is(k)
  <2>1. \A T \in SUBSET S : Step(k, T) = Step(g, T)
    BY <1>4 DEF TableOf
  <2> HIDE DEF Step
  <2>2. QED
    BY <1>5, <2>1
<1>7. Is(h)
  <2> HIDE DEF Is, k
  <2>1. QED
    BY <1>6
<1> HIDE DEF h
<1>8. \A T \in SUBSET S : h[T] = Step(h, T)
  <2> HIDE DEF Step
  <2>1. QED
    BY <1>7
<1>9. h[{}] = design
  BY <1>8
<1> DEFINE X == [T \in SUBSET S |-> W[T] \cap Netlists]
<1>10. h[{}] \in X[{}]
  BY <1>2, <1>9
<1>11. ASSUME NEW T \in SUBSET S, T # {}, h[T \ {Pick(T)}] \in X[T \ {Pick(T)}]
      PROVE  h[T] \in X[T]
  <2> DEFINE x == Pick(T)
             t == h[T \ {x}]
  <2>1. x \in T /\ x \in S /\ T \ {x} \in SUBSET S
    BY <1>11, PickIn
  <2>2. t \in Netlists /\ t \in W[T \ {x}]
    BY <1>11, <2>1
  <2>3. h[T] = WithDrivers(t, x)
    BY <1>8, <1>11
  <2>4. WithDrivers(t, x) = op[x][t]
    BY <2>1, <2>2
  <2> HIDE DEF x, t, op
  <2>5. h[T] \in Netlists
    BY <1>2, <2>1, <2>2, <2>3, <2>4
  <2>6. h[T] \in W[T]
    BY <2>1, <2>2, <2>3
  <2>7. QED
    BY <2>5, <2>6
<1>12. h[S] \in X[S]
  <2> HIDE DEF X
  <2>1. QED
    BY <1>3, <1>10, <1>11, FoldStays
<1>13. QED
  BY <1>1, <1>12

(* Setting pins of the design to a value is a number of calls of           *)
(* setPinValue.                                                            *)
LEMMA SetEachEvolves ==
  ASSUME ListsInv(design), NEW s \in Sims, NEW S \in SUBSET design.pins, NEW v \in Values
  PROVE  Evolves(s, SetEach(s, S, v)) /\ (Good(s) => Good(SetEach(s, S, v)))
<1> DEFINE W == [T \in SUBSET S |-> {t \in Sims : Evolves(s, t) /\ (Good(s) => Good(t))}]
<1>1. S \in SUBSET Pins /\ v \in SUBSET (0..1)
  BY DEF ListsInv, Designs, Values
<1>2. s \in W[{}]
  BY EvolvesSelf
<1>3. ASSUME NEW T \in SUBSET S, NEW x \in S, NEW t \in Sims, x \in T, t \in W[T \ {x}]
      PROVE  SetPinValue(t, x, v) \in W[T]
  <2>1. Evolves(s, t) /\ (Good(s) => Good(t))
    BY <1>3
  <2>2. x \in design.pins
    OBVIOUS
  <2>3. Evolves(t, SetPinValue(t, x, v)) /\ (Good(t) => Good(SetPinValue(t, x, v)))
    <3> HIDE DEF W
    <3>1. QED
      BY <2>2, SetPinEvolves
  <2>4. Evolves(s, SetPinValue(t, x, v))
    BY <2>1, <2>3, EvolvesOn
  <2>5. SetPinValue(t, x, v) \in Sims
    BY <2>3 DEF Evolves
  <2>6. QED
    BY <2>1, <2>3, <2>4, <2>5
<1>4. SetEach(s, S, v) \in W[S]
  <2> HIDE DEF W
  <2>1. QED
    BY <1>1, <1>2, <1>3, SetEachStays
<1>5. QED
  BY <1>4

(* So is setting pins to values of their own.                              *)
LEMMA SetAllEvolves ==
  ASSUME ListsInv(design), NEW s \in Sims, NEW P \in SUBSET (design.pins \X (0..1))
  PROVE  Evolves(s, SetAll(s, P)) /\ (Good(s) => Good(SetAll(s, P)))
<1> DEFINE W == [T \in SUBSET P |-> {t \in Sims : Evolves(s, t) /\ (Good(s) => Good(t))}]
<1>1. P \in SUBSET (Pins \X (0..1))
  BY DEF ListsInv, Designs
<1>2. s \in W[{}]
  BY EvolvesSelf
<1>3. ASSUME NEW T \in SUBSET P, NEW x \in P, NEW t \in Sims, x \in T, t \in W[T \ {x}]
      PROVE  SetPinValue(t, x[1], {x[2]}) \in W[T]
  <2>1. Evolves(s, t) /\ (Good(s) => Good(t))
    BY <1>3
  <2>2. x[1] \in design.pins /\ {x[2]} \in Values
    BY DEF Values
  <2> DEFINE u == SetPinValue(t, x[1], {x[2]})
  <2>3. Evolves(t, u) /\ (Good(t) => Good(u))
    <3> HIDE DEF W
    <3>1. QED
      BY <2>2, SetPinEvolves
  <2> HIDE DEF u
  <2>4. Evolves(s, u)
    BY <2>1, <2>3, EvolvesOn
  <2>5. u \in Sims
    BY <2>3 DEF Evolves
  <2>6. u \in W[T]
    BY <2>1, <2>3, <2>4, <2>5
  <2>7. QED
    BY <2>6 DEF u
<1>4. SetAll(s, P) \in W[P]
  <2> HIDE DEF W
  <2>1. QED
    BY <1>1, <1>2, <1>3, SetAllStays
<1>5. QED
  BY <1>4

(* The constant nets, the constraints and the cells.                       *)
Setting ==
  /\ ListsInv(design) /\ design.constants = ConstantNets
  /\ cell \in [Leaves -> Cells] /\ \A i \in Leaves : cell[i] \in CellsFor(i)
  /\ constraint \in SUBSET (design.pins \X (0..1))
  /\ \A p \in Pins : ValueIn(constraint, p) \in Values

(* What the simulator notes of pins and instances is of those there are,   *)
(* and of the right kind.                                                  *)
Marks(s) ==
  /\ s.constFuncPins \subseteq {p \in design.pins : IsConstFunc(cell, p)}
  /\ s.invalidLoads \subseteq {p \in design.pins : IsLoad(p)}
  /\ s.invalidDrvrs \subseteq {p \in design.pins : IsDriver(p)}
  /\ s.disabled \subseteq design.pins
  /\ s.invalidInsts \subseteq design.insts

(* A pin outside Pins is unknown.                                          *)
LEMMA ValuesOf ==
  ASSUME NEW known, NEW p, \A q \in Pins : ValueIn(known, q) \in Values,
         known \in SUBSET (Pins \X (0..1))
  PROVE  ValueIn(known, p) \in Values
BY ValueMembers DEF Values

(* The inputs of an instance of the design are all its pins that are no    *)
(* outputs.                                                                *)
LEMMA InputsAll ==
  ASSUME ListsInv(design), NEW i \in design.insts
  PROVE  InputsOf(i) = {p \in Pins \ Outputs : InstanceOf[p] = i}
BY DEF InputsOf, PinsOf, ListsInv, Whole

(* evalExpr gives one of the values.                                       *)
LEMMA EvalTyped ==
  ASSUME Setting, NEW known, NEW i \in design.insts, i \in Leaves
  PROVE  EvalExpr(known, i) \in Values
<1> DEFINE results == {Function(cell[i], f) : f \in Completions(known, i)}
<1>1. {PortOf[p] : p \in InputsOf(i)} = InputPorts(i)
  BY InputsAll DEF Setting, InputPorts
<1>2. Completions(known, i) \subseteq [InputPorts(i) -> 0..1]
  BY <1>1 DEF Completions
<1>3. \A f \in [InputPorts(i) -> 0..1] : Function(cell[i], f) \in 0..1
  BY SimAssumption DEF Setting
<1>4. results \in SUBSET (0..1)
  BY <1>2, <1>3
<1>5. EvalExpr(known, i) = IF cell[i] \in Sequentials \/ Cardinality(results) > 1 THEN {} ELSE results
  BY DEF EvalExpr
<1> HIDE DEF results
<1>6. Cardinality(results) <= 1 <=> results \in Values
  BY <1>4, AtMostOne
<1>7. {} \in Values
  BY DEF Values
<1>8. Cardinality(results) \in Nat
  <2>1. IsFiniteSet(0..1)
    <3>1. 0 \in Int /\ 1 \in Int
      OBVIOUS
    <3>2. QED
      BY <3>1, FS_Interval
  <2>2. QED
    BY <1>4, <2>1, FS_Subset, FS_CardinalityType
<1>9. QED
  BY <1>5, <1>6, <1>7, <1>8

(* So does the function of a tie.                                          *)
LEMMA ConstTyped ==
  ASSUME Setting, NEW p, p \in design.pins, IsConstFunc(cell, p)
  PROVE  ConstFuncValue(p) \in Values
<1>1. InstanceOf[p] \in design.insts /\ InstanceOf[p] \in Leaves
  BY DEF Setting, ListsInv, Whole, IsConstFunc
<1>2. QED
  BY <1>1, EvalTyped DEF ConstFuncValue

(* The pins on constant nets are pins of the design.                       *)
LEMMA ConstantPinsTyped ==
  ASSUME Setting
  PROVE  ConstantPins(design) \in SUBSET (design.pins \X (0..1))
<1>1. \A v \in 0..1 : \A n \in design.constants[v] : ConnectedPins(design, n) \subseteq design.pins
  <2>1. \A v \in 0..1 : design.constants[v] \subseteq Nets
    BY DEF Setting, ListsInv, Designs
  <2>2. QED
    BY <2>1, ConnectedIn DEF Setting, ListsInv
<1>2. QED
  BY <1>1 DEF ConstantPins

(* What a net is tied to.                                                  *)
LEMMA ConstantTyped ==
  ASSUME Setting, NEW n
  PROVE  {v \in 0..1 : n \in design.constants[v]} \in Values
<1>1. ~(n \in design.constants[0] /\ n \in design.constants[1])
  BY SimAssumption DEF Setting
<1>2. {v \in 0..1 : n \in design.constants[v]} \in SUBSET (0..1)
  OBVIOUS
<1>3. 0..1 = {0, 1}
  OBVIOUS
<1>4. QED
  BY <1>1, <1>3 DEF Values

(* A load that edits have left invalid: at most a call of setPinValue.     *)
LEMMA SetInvalidLoadEvolves ==
  ASSUME Setting, NEW d, d.constants = design.constants, NEW s, Good(s), NEW p \in design.pins,
         NEW t, t = SetInvalidLoad(d, p, s)
  PROVE  Evolves(s, t) /\ Good(t)
<1>1. s \in Sims /\ s.known \in SUBSET (Pins \X (0..1)) /\ ListsInv(design)
  BY DEF Good, Sims, Setting
<1>2. ValueIn(s.known, DrvrOf(d, p)) \in Values
  BY <1>1, ValuesOf DEF Good
<1>3. {v \in 0..1 : d.netOf[p] \in d.constants[v]} \in Values
  BY ConstantTyped
<1>4. \A v \in Values : Evolves(s, SetPinValue(s, p, v)) /\ Good(SetPinValue(s, p, v))
  BY <1>1, SetPinEvolves
<1>5. Evolves(s, s)
  BY <1>1, EvolvesSelf
<1>6. QED
  BY <1>2, <1>3, <1>4, <1>5 DEF SetInvalidLoad

(* All of them.                                                            *)
LEMMA InvalidLoadsEvolve ==
  ASSUME Setting, NEW s, Good(s), s.invalidLoads \subseteq design.pins,
         LookedUp(s).constants = design.constants
  PROVE  \E t : /\ Evolves(s, t) /\ Good(t)
                /\ PropagateToInvalidLoads(s) = [t EXCEPT !.invalidLoads = {}]
<1> DEFINE S == s.invalidLoads
           d == LookedUp(s)
           W == [T \in SUBSET S |-> {t \in Sims : Evolves(s, t) /\ Good(t)}]
<1>1. s \in Sims /\ ListsInv(design)
  BY DEF Good, Setting
<1>2. s \in W[{}]
  BY <1>1, EvolvesSelf
<1>3. ASSUME NEW T \in SUBSET S, NEW x \in S, NEW t \in Sims, x \in T, t \in W[T \ {x}]
      PROVE  SetInvalidLoad(d, x, t) \in W[T]
  <2>1. Evolves(s, t) /\ Good(t)
    BY <1>3
  <2>2. x \in design.pins
    OBVIOUS
  <2> DEFINE u == SetInvalidLoad(d, x, t)
  <2>3. Evolves(t, u) /\ Good(u)
    <3> HIDE DEF W, d
    <3>1. d.constants = design.constants
      BY DEF d
    <3>2. QED
      BY <2>1, <2>2, <3>1, SetInvalidLoadEvolves
  <2> HIDE DEF u, d
  <2>4. Evolves(s, u)
    BY <2>1, <2>3, EvolvesOn
  <2>5. u \in Sims
    BY <2>3 DEF Evolves
  <2>6. u \in W[T]
    BY <2>3, <2>4, <2>5
  <2>7. QED
    BY <2>6 DEF u
<1>4. \E t \in Sims : t \in W[S] /\ PropagateToInvalidLoads(s) = [t EXCEPT !.invalidLoads = {}]
  <2> HIDE DEF W, d
  <2>1. d = LookedUp(s) /\ S = s.invalidLoads
    BY DEF d
  <2> HIDE DEF S
  <2>2. QED
    BY <1>1, <1>2, <1>3, <2>1, InvalidLoadsStay
<1>5. QED
  BY <1>4

(* The value a driver passes on is one of the values.                      *)
LEMMA DrvrValueTyped ==
  ASSUME Setting, NEW s, Good(s), s.constFuncPins \subseteq {p \in design.pins : IsConstFunc(cell, p)}, NEW p
  PROVE  DrvrValue(s, p) \in Values
<1>1. s.known \in SUBSET (Pins \X (0..1))
  BY DEF Good, Sims
<1>2. ValueIn(s.known, p) \in Values
  BY <1>1, ValuesOf DEF Good
<1>3. p \in s.constFuncPins => ConstFuncValue(p) \in Values
  BY ConstTyped
<1>4. QED
  BY <1>2, <1>3 DEF DrvrValue

(* The drivers that edits have left invalid pass their values on: calls of *)
(* setPinValue.                                                            *)
LEMMA InvalidDrvrsEvolve ==
  ASSUME Setting, NEW s, Good(s), s.constFuncPins \subseteq {p \in design.pins : IsConstFunc(cell, p)}
  PROVE  \E t : /\ Evolves(s, t) /\ Good(t)
                /\ PropagateFromInvalidDrvrs(s) = [t EXCEPT !.invalidDrvrs = {}]
<1> DEFINE S == s.invalidDrvrs
           W == [T \in SUBSET S |-> {t \in Sims : Evolves(s, t) /\ Good(t)}]
<1>1. s \in Sims /\ ListsInv(design) /\ S \subseteq Pins
  BY DEF Good, Setting, Sims
<1>2. s \in W[{}]
  BY <1>1, EvolvesSelf
<1>3. ASSUME NEW T \in SUBSET S, NEW x \in S, NEW t \in Sims, x \in T, t \in W[T \ {x}]
      PROVE  SetEach(t, Loads(design, x), DrvrValue(s, x)) \in W[T]
  <2>1. Evolves(s, t) /\ Good(t)
    BY <1>3
  <2>2. Loads(design, x) \in SUBSET design.pins
    BY <1>1, LoadsIn DEF ListsInv
  <2>3. DrvrValue(s, x) \in Values
    BY DrvrValueTyped
  <2> DEFINE u == SetEach(t, Loads(design, x), DrvrValue(s, x))
  <2>4. Evolves(t, u) /\ Good(u)
    <3> HIDE DEF W
    <3>1. QED
      BY <1>1, <2>1, <2>2, <2>3, SetEachEvolves
  <2> HIDE DEF u
  <2>5. Evolves(s, u)
    BY <2>1, <2>4, EvolvesOn
  <2>6. u \in Sims
    BY <2>4 DEF Evolves
  <2>7. u \in W[T]
    BY <2>4, <2>5, <2>6
  <2>8. QED
    BY <2>7 DEF u
<1>4. \A p \in S : DrvrValue(s, p) \in SUBSET (0..1)
  BY DrvrValueTyped DEF Values
<1>5. \E t \in Sims : t \in W[S] /\ PropagateFromInvalidDrvrs(s) = [t EXCEPT !.invalidDrvrs = {}]
  <2> HIDE DEF W
  <2>1. S = s.invalidDrvrs
    OBVIOUS
  <2> HIDE DEF S
  <2>2. QED
    BY <1>1, <1>2, <1>3, <1>4, <2>1, InvalidDrvrsStay
<1>6. QED
  BY <1>5

------------------------------------------------------------------------------
(* What looking up drivers leaves alone.                                   *)
SameNets(d, e) ==
  /\ e.insts = d.insts /\ e.pins = d.pins /\ e.nets = d.nets /\ e.gone = d.gone
  /\ e.netOf = d.netOf /\ e.termOf = d.termOf /\ e.netPins = d.netPins
  /\ e.netTerms = d.netTerms /\ e.constants = d.constants

(* Looking up the drivers of a net changes only what is kept of drivers.   *)
LEMMA WithDriversSame ==
  ASSUME NEW d \in Designs, NEW n
  PROVE  SameNets(d, WithDrivers(d, n))
BY DEF SameNets, WithDrivers, Designs

(* Nets that are looked up are nets of the design.                         *)
LEMMA LookedUpIn ==
  ASSUME ListsInv(design), NEW s, s.invalidLoads \subseteq design.pins
  PROVE  NetsLookedUp(s) \subseteq design.nets
<1>1. \A p \in Pins : design.netOf[p] # NoNet => design.netOf[p] \in design.nets
  BY DEF ListsInv, Listed
<1>2. design.pins \subseteq Pins
  BY DEF ListsInv, Designs
<1>3. QED
  BY <1>1, <1>2 DEF NetsLookedUp

(* Looking up those of all invalid loads changes only what is kept of      *)
(* drivers.                                                                *)
LEMMA LookedUpSame ==
  ASSUME ListsInv(design), NEW s, s.invalidLoads \subseteq design.pins
  PROVE  ListsInv(LookedUp(s)) /\ SameNets(design, LookedUp(s))
<1> DEFINE S == NetsLookedUp(s)
           W == [T \in SUBSET S |-> {t \in Netlists : SameNets(design, t)}]
<1>1. S \subseteq design.nets
  BY LookedUpIn
<1>2. design \in W[{}]
  BY DEF SameNets, Netlists, ListsInv
<1>3. ASSUME NEW T \in SUBSET S, NEW x \in S, NEW t \in Netlists, x \in T, t \in W[T \ {x}]
      PROVE  WithDrivers(t, x) \in W[T]
  <2>1. SameNets(design, t) /\ ListsInv(t) /\ t \in Designs /\ x \in t.nets
    BY <1>1, <1>3 DEF Netlists, SameNets
  <2>2. SameNets(t, WithDrivers(t, x)) /\ ListsInv(WithDrivers(t, x))
    BY <2>1, WithDriversSame, WithDriversLists
  <2>3. SameNets(design, WithDrivers(t, x))
    BY <2>1, <2>2 DEF SameNets
  <2>4. WithDrivers(t, x) \in Netlists
    BY <2>2, <2>3 DEF Netlists, SameNets, ListsInv
  <2>5. QED
    BY <2>3, <2>4
<1>4. LookedUp(s) \in W[S]
  <2> HIDE DEF W
  <2>1. S = NetsLookedUp(s)
    OBVIOUS
  <2> HIDE DEF S
  <2>2. QED
    BY <1>1, <1>2, <1>3, <2>1, LookUpsStay
<1>5. QED
  BY <1>4 DEF Netlists

(* What ensureConstantsPropagated begins with: the functions of ties are   *)
(* known, nothing is to be annotated.                                      *)
Ready(s) == [EnsureConstantFuncPins(s) EXCEPT !.annotate = {}, !.busy = TRUE]

(* Its members.                                                            *)
IsReady(s, r) ==
  /\ r \in Sims /\ r.known = s.known /\ r.withConstPins = s.withConstPins
  /\ r.valid = s.valid /\ r.incremental = s.incremental /\ r.disabled = s.disabled
  /\ r.queue = s.queue /\ r.annotate = {} /\ r.busy = TRUE
  /\ r.invalidInsts = s.invalidInsts /\ r.invalidDrvrs = s.invalidDrvrs
  /\ r.invalidLoads = s.invalidLoads /\ r.constFuncPinsValid = TRUE
  /\ r.constFuncPins = IF s.constFuncPinsValid THEN s.constFuncPins
                       ELSE s.constFuncPins \cup {p \in design.pins : IsConstFunc(cell, p)}

(* ensureConstFuncPins leaves a record with these members.                 *)
LEMMA ReadyIs ==
  ASSUME NEW s \in Sims, NEW r, r = Ready(s), ListsInv(design)
  PROVE  IsReady(s, r)
<1>1. design.pins \subseteq Pins
  BY DEF ListsInv, Designs
<1>2. CASE s.constFuncPinsValid
  <2>1. r = [s EXCEPT !.annotate = {}, !.busy = TRUE]
    BY <1>2 DEF Ready, EnsureConstantFuncPins
  <2>2. QED
    BY <1>2, <2>1 DEF Sims, IsReady
<1>3. CASE ~s.constFuncPinsValid
  <2> DEFINE const == s.constFuncPins \cup {p \in design.pins : IsConstFunc(cell, p)}
  <2>1. const \subseteq Pins
    BY <1>1 DEF Sims
  <2>2. r = [s EXCEPT !.constFuncPins = const, !.constFuncPinsValid = TRUE, !.annotate = {}, !.busy = TRUE]
    BY <1>3 DEF Ready, EnsureConstantFuncPins, Recorded, Sims
  <2> HIDE DEF const
  <2>3. /\ r \in Sims /\ r.known = s.known /\ r.withConstPins = s.withConstPins
        /\ r.valid = s.valid /\ r.incremental = s.incremental /\ r.disabled = s.disabled
        /\ r.queue = s.queue /\ r.annotate = {} /\ r.busy = TRUE
        /\ r.invalidInsts = s.invalidInsts /\ r.invalidDrvrs = s.invalidDrvrs
        /\ r.invalidLoads = s.invalidLoads /\ r.constFuncPinsValid = TRUE
        /\ r.constFuncPins = const
    BY <2>1, <2>2 DEF Sims
  <2>4. QED
    BY <1>3, <2>3 DEF const, IsReady
<1>4. QED
  BY <1>2, <1>3

(* clearSimValues leaves no value, as every instance with a value is       *)
(* noted.                                                                  *)
LEMMA ClearedIs ==
  ASSUME NEW s, Good(s), NEW r, r = ClearSimValues(s)
  PROVE  /\ r \in Sims /\ SameButValues([s EXCEPT !.disabled = r.disabled], r)
         /\ \A p \in Pins : ValueIn(r.known, p) = {}
         /\ r.disabled = {p \in s.disabled : InstanceOf[p] \notin s.withConstPins}
         /\ r.withConstPins = {} /\ r.queue = s.queue /\ r.annotate = s.annotate
         /\ Good(r)
<1> DEFINE known == {k \in s.known : InstanceOf[k[1]] \notin s.withConstPins}
           disabled == {p \in s.disabled : InstanceOf[p] \notin s.withConstPins}
<1>1. s \in Sims /\ s.known \in SUBSET (Pins \X (0..1))
  BY DEF Good, Sims
<1>2. known \in SUBSET (Pins \X (0..1)) /\ disabled \in SUBSET Pins
  BY <1>1 DEF Sims
<1>3. r = [s EXCEPT !.known = known, !.disabled = disabled, !.withConstPins = {}]
  BY DEF ClearSimValues
<1>4. ASSUME NEW p \in Pins PROVE ValueIn(known, p) = {}
  <2>1. \A v : v \in ValueIn(known, p) <=> <<p, v>> \in known
    BY <1>2, ValueMembers
  <2>2. \A v : <<p, v>> \in known => <<p, v>> \in s.known /\ InstanceOf[p] \notin s.withConstPins
    OBVIOUS
  <2>3. \A v : <<p, v>> \in s.known => ValueIn(s.known, p) # {}
    BY <1>1, ValueMembers
  <2>4. ValueIn(s.known, p) # {} => InstanceOf[p] \in s.withConstPins
    BY DEF Good
  <2> HIDE DEF known
  <2>5. QED
    BY <2>1, <2>2, <2>3, <2>4
<1> HIDE DEF known, disabled
<1>5. /\ r \in Sims /\ SameButValues([s EXCEPT !.disabled = r.disabled], r)
      /\ r.known = known /\ r.disabled = disabled
      /\ r.withConstPins = {} /\ r.queue = s.queue /\ r.annotate = s.annotate
  BY <1>1, <1>2, <1>3 DEF Sims, SameButValues
<1>6. {} \in Values
  BY DEF Values
<1>7. Good(r)
  BY <1>4, <1>5, <1>6 DEF Good
<1>8. QED
  BY <1>4, <1>5, <1>7 DEF disabled

(* From nothing: calls of setPinValue for constant nets, constraints and   *)
(* ties.                                                                   *)
LEMMA SeedConstantsEvolve ==
  ASSUME Setting, NEW s, Good(s), s.constFuncPins \subseteq {p \in design.pins : IsConstFunc(cell, p)}
  PROVE  Evolves(s, SeedConstants(s)) /\ Good(SeedConstants(s))
<1> DEFINE a == SetAll(s, ConstantPins(design))
           b == SetAll(a, constraint)
           P == UNION {{p} \X ConstFuncValue(p) : p \in b.constFuncPins}
           c == SetAll(b, P)
<1>1. SeedConstants(s) = c
  BY DEF SeedConstants
<1>2. ListsInv(design) /\ s \in Sims
  BY DEF Setting, Good
<1>3. Evolves(s, a) /\ Good(a)
  BY <1>2, ConstantPinsTyped, SetAllEvolves
<1>4. Evolves(a, b) /\ Good(b)
  <2> HIDE DEF a
  <2>1. constraint \in SUBSET (design.pins \X (0..1)) /\ a \in Sims
    BY <1>3 DEF Setting, Good
  <2>2. QED
    BY <1>2, <1>3, <2>1, SetAllEvolves
<1>5. Evolves(b, c) /\ Good(c)
  <2> HIDE DEF a, b
  <2>1. b.constFuncPins = s.constFuncPins /\ b \in Sims
    BY <1>3, <1>4 DEF Evolves, SameButValues
  <2>2. P \in SUBSET (design.pins \X (0..1))
    <3>1. \A p \in s.constFuncPins : p \in design.pins /\ ConstFuncValue(p) \subseteq 0..1
      BY ConstTyped DEF Values
    <3>2. QED
      BY <2>1, <3>1
  <2> HIDE DEF P
  <2>3. QED
    BY <1>2, <1>4, <2>1, <2>2, SetAllEvolves
<1> HIDE DEF a, b, c
<1>6. Evolves(s, c)
  BY <1>3, <1>4, <1>5, EvolvesOn
<1>7. QED
  BY <1>1, <1>5, <1>6

(* From what edits have left: the same, and nothing is invalid any more.   *)
LEMMA SeedInvalidNotes ==
  ASSUME Setting, NEW s, Good(s), Marks(s)
  PROVE  \E t : /\ t = SeedInvalid(s) /\ Good(t) /\ Notes([s EXCEPT !.queue = s.invalidInsts \cap Leaves], t)
                /\ SameButValues([s EXCEPT !.invalidLoads = {}, !.invalidDrvrs = {}], t)
<1> DEFINE q == [s EXCEPT !.queue = s.invalidInsts \cap Leaves]
           l == PropagateToInvalidLoads(q)
           t == PropagateFromInvalidDrvrs(l)
<1>1. SeedInvalid(s) = t
  BY DEF SeedInvalid
<1>2. s \in Sims /\ ListsInv(design)
  BY DEF Setting, Good
<1>3. q \in Sims /\ q.known = s.known /\ q.withConstPins = s.withConstPins
      /\ q.queue = s.invalidInsts \cap Leaves /\ q.invalidLoads = s.invalidLoads
      /\ SameButValues(s, q)
  BY <1>2 DEF Sims, SameButValues
<1>4. Good(q)
  BY <1>3 DEF Good, Marks
<1>5. q.invalidLoads \subseteq design.pins
  BY <1>3 DEF Marks
<1>6. LookedUp(q).constants = design.constants
  BY <1>2, <1>5, LookedUpSame DEF SameNets
<1>7. PICK a : Evolves(q, a) /\ Good(a) /\ l = [a EXCEPT !.invalidLoads = {}]
  <2> HIDE DEF q
  <2>1. QED
    BY <1>4, <1>5, <1>6, InvalidLoadsEvolve
<1>8. a \in Sims
  BY <1>7 DEF Good
<1> HIDE DEF q, l
<1>9. /\ l \in Sims /\ l.known = a.known /\ l.withConstPins = a.withConstPins
      /\ l.queue = a.queue /\ l.annotate = a.annotate /\ l.constFuncPins = a.constFuncPins
      /\ SameButValues([a EXCEPT !.invalidLoads = {}], l)
  BY <1>7, <1>8 DEF Sims, SameButValues
<1>10. Good(l)
  BY <1>7, <1>9 DEF Good
<1>11. l.constFuncPins \subseteq {p \in design.pins : IsConstFunc(cell, p)}
  BY <1>3, <1>7, <1>9 DEF Evolves, SameButValues, Marks
<1>12. PICK b : Evolves(l, b) /\ Good(b) /\ t = [b EXCEPT !.invalidDrvrs = {}]
  BY <1>10, <1>11, InvalidDrvrsEvolve
<1>13. b \in Sims
  BY <1>12 DEF Good
<1> HIDE DEF t
<1>14. /\ t \in Sims /\ t.known = b.known /\ t.withConstPins = b.withConstPins
       /\ t.queue = b.queue /\ t.annotate = b.annotate
       /\ SameButValues([b EXCEPT !.invalidDrvrs = {}], t)
  BY <1>12, <1>13 DEF Sims, SameButValues
<1>15. Good(t)
  BY <1>12, <1>14 DEF Good
<1>16. Notes(q, l) /\ Notes(l, t)
  BY <1>7, <1>9, <1>12, <1>14 DEF Evolves, Notes
<1>17. Notes(q, t)
  BY <1>16, NotesOn
<1>18. SameButValues([s EXCEPT !.invalidLoads = {}, !.invalidDrvrs = {}], t)
  <2>1. SameButValues(s, q) /\ SameButValues(q, a) /\ SameButValues(l, b)
    BY <1>3, <1>7, <1>12 DEF Evolves
  <2>2. SameButValues([a EXCEPT !.invalidLoads = {}], l) /\ SameButValues([b EXCEPT !.invalidDrvrs = {}], t)
    BY <1>9, <1>14
  <2>3. /\ l.valid = a.valid /\ l.incremental = a.incremental
        /\ l.constFuncPinsValid = a.constFuncPinsValid
        /\ l.invalidInsts = a.invalidInsts /\ l.disabled = a.disabled /\ l.busy = a.busy
        /\ l.invalidLoads = {}
    BY <2>2, <1>8 DEF SameButValues, Sims
  <2>4. /\ t.valid = b.valid /\ t.incremental = b.incremental /\ t.constFuncPins = b.constFuncPins
        /\ t.constFuncPinsValid = b.constFuncPinsValid
        /\ t.invalidInsts = b.invalidInsts /\ t.disabled = b.disabled /\ t.busy = b.busy
        /\ t.invalidLoads = b.invalidLoads /\ t.invalidDrvrs = {}
    BY <2>2, <1>13 DEF SameButValues, Sims
  <2> DEFINE x == [s EXCEPT !.invalidLoads = {}, !.invalidDrvrs = {}]
  <2>5. /\ x.valid = s.valid /\ x.incremental = s.incremental /\ x.constFuncPins = s.constFuncPins
        /\ x.constFuncPinsValid = s.constFuncPinsValid
        /\ x.invalidInsts = s.invalidInsts /\ x.disabled = s.disabled /\ x.busy = s.busy
        /\ x.invalidLoads = {} /\ x.invalidDrvrs = {}
    BY <1>2 DEF Sims
  <2> HIDE DEF x
  <2>6. SameButValues(x, t)
    BY <1>9, <2>1, <2>3, <2>4, <2>5 DEF SameButValues
  <2>7. QED
    BY <2>6 DEF x
<1>19. QED
  BY <1>1, <1>15, <1>17, <1>18 DEF q, l, t

(* A leaf instance that is deleted takes its pins with it, and no more.    *)
LEMMA LeafDeleted ==
  ASSUME NEW d, ListsInv(d), NEW i \in Leaves, NEW e, e = DeleteInstance(d, i)
  PROVE  /\ ListsInv(e) /\ e.insts = d.insts \ {i} /\ e.pins = {p \in d.pins : InstanceOf[p] # i}
         /\ e.nets = d.nets /\ e.constants = d.constants /\ e.gone = d.gone \cup {i}
         /\ \A p \in Pins : /\ e.netOf[p] = IF InstanceOf[p] = i THEN NoNet ELSE d.netOf[p]
                            /\ InstanceOf[p] # i => e.termOf[p] = d.termOf[p]
<1> DEFINE nets == {n \in d.nets : Parent[n] \in Below(i)}
           pins == {p \in d.pins : InstanceOf[p] \in Below(i)}
           x == FoldSet(DeletePin, d, pins)
<1>1. /\ d \in Designs /\ Listed(d) /\ Whole(d) /\ d.nets \subseteq Nets /\ d.pins \subseteq Pins
      /\ i \in Instances
  BY NetlistAssumption DEF ListsInv, Designs
<1>2. Below(i) = {i}
  BY BelowLeaf
<1>3. nets = {}
  BY <1>1, <1>2, LinkedAssumption
<1>4. FoldSet(DeleteNet, d, {}) = d
  BY <1>1, NetsDeleted
<1>5. e = [x EXCEPT !.insts = @ \ {i}, !.gone = @ \cup {i}]
  BY <1>2, <1>3, <1>4 DEF DeleteInstance
<1>6. WithoutPins(d, pins, x)
  <2>1. pins \in SUBSET Pins
    BY <1>1
  <2>2. \A p \in pins : d.termOf[p] \notin d.nets
    <3>1. ASSUME NEW p \in pins PROVE d.termOf[p] = NoNet
      <4>1. p \in Pins /\ InstanceOf[p] \in Leaves
        BY <1>1, <1>2
      <4>2. QED
        BY <1>1, <4>1, LeafTerm
    <3>2. QED
      BY <1>1, <3>1, NoNetApart
  <2> HIDE DEF pins
  <2>3. QED
    BY <1>1, <2>1, <2>2, DeletingPins
<1>7. pins = {p \in d.pins : InstanceOf[p] = i}
  BY <1>2
<1> HIDE DEF x, pins
<1>8. x \in Designs
  BY <1>6 DEF WithoutPins
<1>9. /\ e.insts = x.insts \ {i} /\ e.pins = x.pins /\ e.nets = x.nets /\ e.gone = x.gone \cup {i}
      /\ e.constants = x.constants /\ e.netOf = x.netOf /\ e.termOf = x.termOf
  BY <1>5, <1>8 DEF Designs
<1>10. ListsInv(e)
  BY <1>1, DeleteInstanceLists
<1>11. ASSUME NEW p \in Pins
       PROVE  /\ e.netOf[p] = IF InstanceOf[p] = i THEN NoNet ELSE d.netOf[p]
              /\ InstanceOf[p] # i => e.termOf[p] = d.termOf[p]
  <2>1. /\ x.netOf[p] = IF p \in pins THEN NoNet ELSE d.netOf[p]
        /\ p \notin pins => x.termOf[p] = d.termOf[p]
    BY <1>6 DEF WithoutPins
  <2>2. InstanceOf[p] = i /\ p \notin pins => d.netOf[p] = NoNet
    BY <1>1, <1>7 DEF Listed
  <2>3. InstanceOf[p] # i => p \notin pins
    BY <1>7
  <2>4. QED
    BY <1>9, <2>1, <2>2, <2>3
<1>12. QED
  BY <1>6, <1>7, <1>9, <1>10, <1>11 DEF WithoutPins

------------------------------------------------------------------------------
(* The types: every step.                                                  *)
Flow(s) ==
  /\ ~s.busy => s.queue = {}
  /\ s.busy => ~s.valid /\ s.constFuncPinsValid
  /\ s.valid => s.incremental
  /\ s.incremental => s.constFuncPinsValid

(* The inductive invariant of the types: the netlist, values, notes and    *)
(* phases of the simulator.                                                *)
SimTyped == Setting /\ Good(sim) /\ Marks(sim) /\ Flow(sim)

(* It says what TypeOK does.                                               *)
LEMMA SimTypedOK == SimTyped => TypeOK
<1> SUFFICES ASSUME SimTyped PROVE TypeOK
  OBVIOUS
<1>1. /\ sim \in Sims /\ sim.known \in SUBSET (Pins \X (0..1))
      /\ design.pins \subseteq Pins /\ ListsInv(design)
  BY DEF SimTyped, Good, Sims, Setting, ListsInv, Designs
<1>2. ASSUME NEW k \in sim.known
      PROVE  /\ k = <<k[1], k[2]>> /\ k[1] \in Pins /\ k[2] \in 0..1
             /\ ValueIn(sim.known, k[1]) # {}
  <2>1. k = <<k[1], k[2]>> /\ k[1] \in Pins /\ k[2] \in 0..1
    BY <1>1
  <2>2. k[2] \in ValueIn(sim.known, k[1])
    BY <1>1, <2>1, ValueMembers
  <2>3. QED
    BY <2>1, <2>2
<1>3. sim.known \subseteq design.pins \X (0..1)
  BY <1>2 DEF SimTyped, Good
<1>4. \A k \in sim.known : InstanceOf[k[1]] \in sim.withConstPins
  BY <1>2 DEF SimTyped, Good
<1>5. ASSUME NEW p \in design.pins PROVE Cardinality(ValueIn(sim.known, p)) <= 1
  <2>1. p \in Pins /\ ValueIn(sim.known, p) \in SUBSET (0..1)
    BY <1>1, ValueMembers
  <2>2. ValueIn(sim.known, p) \in Values
    BY <2>1 DEF SimTyped, Good
  <2>3. QED
    BY <2>1, <2>2, AtMostOne
<1>6. sim.constFuncPins \cup sim.invalidLoads \cup sim.invalidDrvrs \cup sim.disabled \subseteq design.pins
  BY DEF SimTyped, Marks
<1>7. sim.withConstPins \cup sim.invalidInsts \cup sim.queue \subseteq design.insts
  BY DEF SimTyped, Marks, Good
<1>8. QED
  BY <1>3, <1>4, <1>5, <1>6, <1>7 DEF TypeOK

(* The simulator begins with no values and no notes.                       *)
LEMMA InitTyped == SimInit => SimTyped
<1> SUFFICES ASSUME SimInit PROVE SimTyped
  OBVIOUS
<1>1. ListsInv(design) /\ design.constants = ConstantNets
  BY LinkedLists DEF SimInit, Init, Linked
<1>2. \A p : ValueIn({}, p) = {}
  BY DEF ValueIn
<1>3. {} \in Values
  BY DEF Values
<1>4. Setting
  BY <1>1, <1>2, <1>3, SimAssumption DEF Setting, SimInit, CellsFor
<1>5. InitSim \in Sims
  BY DEF InitSim, Sims
<1>6. sim \in Sims /\ sim.known = {} /\ sim.withConstPins = {} /\ sim.queue = {}
  BY <1>5 DEF SimInit, InitSim
<1>7. Good(sim)
  BY <1>2, <1>3, <1>6 DEF Good
<1>8. Marks(sim) /\ Flow(sim)
  BY DEF Marks, Flow, SimInit, InitSim
<1>9. QED
  BY <1>4, <1>7, <1>8 DEF SimTyped

(* A step that changes of the netlist no more than the drivers found, and  *)
(* that leaves the constraints and the cells.                              *)
LEMMA SettingStays ==
  ASSUME Setting, ListsInv(design'), SameNets(design, design'), UNCHANGED <<cell, constraint>>
  PROVE  Setting'
BY DEF Setting, SameNets

(* ensureConstantsPropagated keeps the types, from nothing or from what    *)
(* edits have left.                                                        *)
LEMMA EnsureTyped ==
  ASSUME SimTyped, EnsureConstantsPropagated
  PROVE  SimTyped'
<1> DEFINE r == Ready(sim)
           z == ClearSimValues(r)
           seeded == IF sim.incremental THEN SeedInvalid(r) ELSE SeedConstants(z)
<1>1. /\ sim' = [seeded EXCEPT !.invalidInsts = {}] /\ UNCHANGED <<cell, constraint>>
      /\ design' = IF sim.incremental THEN LookedUp(sim) ELSE design
  BY DEF EnsureConstantsPropagated, Ready
<1>2. /\ sim \in Sims /\ ListsInv(design) /\ sim.invalidLoads \subseteq design.pins
      /\ design.pins \subseteq Pins
  BY DEF SimTyped, Good, Setting, Marks, ListsInv, Designs
<1>3. ListsInv(design') /\ SameNets(design, design')
  BY <1>1, <1>2, LookedUpSame DEF SameNets
<1>4. Setting'
  BY <1>1, <1>3, SettingStays DEF SimTyped
<1>5. /\ r \in Sims /\ r.known = sim.known /\ r.withConstPins = sim.withConstPins
      /\ r.queue = sim.queue /\ r.disabled = sim.disabled
      /\ r.invalidInsts = sim.invalidInsts /\ r.invalidDrvrs = sim.invalidDrvrs
      /\ r.invalidLoads = sim.invalidLoads
      /\ r.busy /\ r.constFuncPinsValid /\ r.valid = sim.valid
      /\ r.constFuncPins \subseteq sim.constFuncPins \cup {p \in design.pins : IsConstFunc(cell, p)}
  <2> HIDE DEF r
  <2>1. r = Ready(sim)
    BY DEF r
  <2>2. IsReady(sim, r)
    BY <1>2, <2>1, ReadyIs
  <2>3. r.constFuncPins = IF sim.constFuncPinsValid THEN sim.constFuncPins
                          ELSE sim.constFuncPins \cup {p \in design.pins : IsConstFunc(cell, p)}
    BY <2>2 DEF IsReady
  <2>4. /\ r \in Sims /\ r.known = sim.known /\ r.withConstPins = sim.withConstPins
        /\ r.queue = sim.queue /\ r.disabled = sim.disabled
        /\ r.invalidInsts = sim.invalidInsts /\ r.invalidDrvrs = sim.invalidDrvrs
        /\ r.invalidLoads = sim.invalidLoads
        /\ r.busy /\ r.constFuncPinsValid /\ r.valid = sim.valid
    BY <2>2 DEF IsReady
  <2>5. QED
    BY <2>3, <2>4
<1> HIDE DEF r
<1>6. Good(r) /\ Marks(r)
  BY <1>5 DEF SimTyped, Good, Marks
<1>7. CASE sim.incremental
  <2>1. PICK t : /\ t = SeedInvalid(r) /\ Good(t)
                 /\ SameButValues([r EXCEPT !.invalidLoads = {}, !.invalidDrvrs = {}], t)
    BY <1>6, SeedInvalidNotes DEF SimTyped
  <2>2. Marks(t) /\ t \in Sims
    BY <1>5, <1>6, <2>1 DEF Marks, SameButValues, Sims, Good
  <2>3. sim' = [t EXCEPT !.invalidInsts = {}]
    BY <1>1, <1>7, <2>1
  <2>4. /\ sim' \in Sims /\ sim'.known = t.known /\ sim'.withConstPins = t.withConstPins
        /\ sim'.queue = t.queue /\ sim'.constFuncPins = t.constFuncPins
        /\ sim'.invalidLoads = t.invalidLoads /\ sim'.invalidDrvrs = t.invalidDrvrs
        /\ sim'.disabled = t.disabled /\ sim'.invalidInsts = {}
        /\ sim'.busy = t.busy /\ sim'.valid = t.valid /\ sim'.constFuncPinsValid = t.constFuncPinsValid
    BY <2>2, <2>3 DEF Sims
  <2>5. Good(sim)'
    BY <1>3, <2>1, <2>4 DEF Good, SameNets
  <2>6. Marks(sim)'
    BY <1>1, <1>3, <2>2, <2>4 DEF Marks, SameNets
  <2>7. t.busy /\ t.valid = r.valid /\ t.constFuncPinsValid
    BY <1>5, <2>1 DEF SameButValues, Sims
  <2>8. ~sim.valid
    BY DEF EnsureConstantsPropagated
  <2>9. Flow(sim)'
    BY <1>5, <2>4, <2>7, <2>8 DEF Flow
  <2>10. QED
    BY <1>4, <2>5, <2>6, <2>9 DEF SimTyped
<1>8. CASE ~sim.incremental
  <2>1. /\ z \in Sims /\ SameButValues([r EXCEPT !.disabled = z.disabled], z)
        /\ z.disabled \subseteq r.disabled /\ Good(z)
    <3> HIDE DEF z
    <3>1. z = ClearSimValues(r)
      BY DEF z
    <3>2. QED
      BY <1>6, <3>1, ClearedIs
  <2> HIDE DEF z
  <2>2. Marks(z)
    BY <1>5, <1>6, <2>1 DEF Marks, SameButValues, Sims
  <2> DEFINE t == SeedConstants(z)
  <2>3. Evolves(z, t) /\ Good(t)
    BY <2>1, <2>2, SeedConstantsEvolve DEF SimTyped, Marks
  <2>4. sim' = [t EXCEPT !.invalidInsts = {}]
    BY <1>1, <1>8 DEF z
  <2> HIDE DEF t
  <2>5. Marks(t) /\ t \in Sims
    BY <2>2, <2>3 DEF Marks, Evolves, SameButValues
  <2>6. /\ sim' \in Sims /\ sim'.known = t.known /\ sim'.withConstPins = t.withConstPins
        /\ sim'.queue = t.queue /\ sim'.constFuncPins = t.constFuncPins
        /\ sim'.invalidLoads = t.invalidLoads /\ sim'.invalidDrvrs = t.invalidDrvrs
        /\ sim'.disabled = t.disabled /\ sim'.invalidInsts = {}
        /\ sim'.busy = t.busy /\ sim'.valid = t.valid /\ sim'.constFuncPinsValid = t.constFuncPinsValid
    BY <2>4, <2>5 DEF Sims
  <2>7. Good(sim)'
    BY <1>3, <2>3, <2>6 DEF Good, SameNets
  <2>8. Marks(sim)'
    BY <1>1, <1>3, <2>5, <2>6 DEF Marks, SameNets
  <2>9. z.busy /\ z.valid = r.valid /\ z.constFuncPinsValid
    BY <1>5, <2>1 DEF SameButValues, Sims
  <2>10. t.busy /\ t.valid = r.valid /\ t.constFuncPinsValid
    BY <2>3, <2>9 DEF Evolves, SameButValues
  <2>11. ~sim.valid
    BY DEF EnsureConstantsPropagated
  <2>12. Flow(sim)'
    BY <1>5, <2>6, <2>10, <2>11 DEF Flow
  <2>13. QED
    BY <1>4, <2>7, <2>8, <2>12 DEF SimTyped
<1>9. QED
  BY <1>7, <1>8

(* So does the evaluation of an instance, ...                              *)
LEMMA EvalTypedStep ==
  ASSUME SimTyped, NEW i, EvalNext(i)
  PROVE  SimTyped'
<1> DEFINE s == [sim EXCEPT !.queue = @ \ {i}]
           v == EvalExpr(sim.known, i)
           S == {q \in OutputsOf(i) : ValueIn(s.known, q) # v}
<1>1. /\ sim' = SetEach(s, S, v) /\ UNCHANGED <<design, cell, constraint>> /\ i \in sim.queue
  BY DEF EvalNext, EvalInstance
<1>2. sim \in Sims /\ i \in design.insts /\ i \in Leaves /\ ListsInv(design)
  BY <1>1 DEF SimTyped, Good, Setting
<1>3. v \in Values
  BY <1>2, EvalTyped DEF SimTyped
<1>4. S \in SUBSET design.pins
  BY DEF OutputsOf, PinsOf
<1>5. /\ s \in Sims /\ s.known = sim.known /\ s.withConstPins = sim.withConstPins
      /\ s.queue = sim.queue \ {i} /\ SameButValues(sim, s)
  BY <1>2 DEF Sims, SameButValues
<1>6. Good(s)
  BY <1>5 DEF SimTyped, Good
<1> HIDE DEF s, v, S
<1>7. Evolves(s, sim') /\ Good(SetEach(s, S, v))
  BY <1>1, <1>2, <1>3, <1>4, <1>5, <1>6, SetEachEvolves
<1>8. Good(sim)'
  BY <1>1, <1>7 DEF Good
<1>9. Marks(sim)'
  BY <1>1, <1>5, <1>7 DEF SimTyped, Marks, Evolves, SameButValues
<1>10. Setting'
  BY <1>1, SettingStays DEF SimTyped, Setting, SameNets
<1>11. Flow(sim)'
  BY <1>1, <1>5, <1>7 DEF SimTyped, Flow, Evolves, SameButValues
<1>12. QED
  BY <1>8, <1>9, <1>10, <1>11 DEF SimTyped

(* ... and the annotation of arcs.                                         *)
LEMMA AnnotateTyped ==
  ASSUME SimTyped, AnnotateGraphEdges
  PROVE  SimTyped'
<1> DEFINE looked == {p \in design.pins \ Outputs : InstanceOf[p] \in sim.annotate \cap Leaves}
           disabled == (sim.disabled \ looked) \cup {p \in looked : SenseNone(sim.known, p)}
<1>1. /\ sim' = [sim EXCEPT !.disabled = disabled, !.valid = TRUE, !.incremental = TRUE, !.busy = FALSE]
      /\ UNCHANGED <<design, cell, constraint>>
  BY DEF AnnotateGraphEdges
<1>2. sim \in Sims /\ design.pins \subseteq Pins
  BY DEF SimTyped, Good, Setting, ListsInv, Designs
<1>3. disabled \subseteq design.pins
  BY DEF SimTyped, Marks
<1> HIDE DEF disabled
<1>4. /\ sim' \in Sims /\ sim'.known = sim.known /\ sim'.withConstPins = sim.withConstPins
      /\ sim'.queue = sim.queue /\ sim'.constFuncPins = sim.constFuncPins
      /\ sim'.invalidLoads = sim.invalidLoads /\ sim'.invalidDrvrs = sim.invalidDrvrs
      /\ sim'.disabled = disabled /\ sim'.invalidInsts = sim.invalidInsts
      /\ sim'.valid /\ sim'.incremental /\ ~sim'.busy /\ sim'.constFuncPinsValid = sim.constFuncPinsValid
  BY <1>1, <1>2, <1>3 DEF Sims
<1>5. Good(sim)'
  BY <1>1, <1>4 DEF SimTyped, Good
<1>6. Marks(sim)'
  BY <1>1, <1>3, <1>4 DEF SimTyped, Marks
<1>7. Setting'
  BY <1>1, SettingStays DEF SimTyped, Setting, SameNets
<1>8. sim.busy /\ sim.queue = {}
  BY DEF AnnotateGraphEdges
<1>9. Flow(sim)'
  BY <1>4, <1>8 DEF SimTyped, Flow
<1>10. QED
  BY <1>5, <1>6, <1>7, <1>9 DEF SimTyped

(* Calls that change no net: constraints and cells.                        *)
LEMMA CommandKinds ==
  ASSUME NEW e \in Commands
  PROVE  /\ e.op = "setCase" => e.pin \in Pins /\ e.value \in 0..1
         /\ e.op = "removeCase" => e.pin \in Pins
         /\ e.op = "replaceCell" => /\ e.inst \in Leaves /\ e.cell \in Cells
                                    /\ e.cell \in CellsFor(e.inst)
<1>1. e \in [op : {"setCase"}, pin : Pins, value : 0..1] \cup [op : {"removeCase"}, pin : Pins]
            \cup [op : {"replaceCell"}, inst : Leaves, cell : Cells]
  BY SimAssumption
<1>2. e.op = "replaceCell" => e.cell \in CellsFor(e.inst)
  BY DEF CellsFor
<1>3. QED
  BY <1>1, <1>2

(* The constraints on pins after one of them has changed.                  *)
SetIn(known, p, v) == {k \in known : k[1] # p} \cup ({p} \X v)

LEMMA ConstraintSet ==
  ASSUME NEW known \in SUBSET (Pins \X (0..1)), NEW p \in Pins, NEW v \in SUBSET (0..1),
         NEW new, new = SetIn(known, p, v)
  PROVE  /\ new \in SUBSET (Pins \X (0..1))
         /\ \A q : ValueIn(new, q) = IF q = p THEN v ELSE ValueIn(known, q)
<1>1. new \in SUBSET (Pins \X (0..1))
  BY DEF SetIn
<1>2. ASSUME NEW q PROVE ValueIn(new, q) = IF q = p THEN v ELSE ValueIn(known, q)
  <2>1. \A w : w \in ValueIn(new, q) <=> <<q, w>> \in new
    BY <1>1, ValueMembers
  <2>2. \A w : w \in ValueIn(known, q) <=> <<q, w>> \in known
    BY ValueMembers
  <2>3. \A w : <<q, w>> \in new <=> (<<q, w>> \in known /\ q # p) \/ (q = p /\ w \in v)
    BY DEF SetIn
  <2>4. QED
    BY <2>1, <2>2, <2>3
<1>3. QED
  BY <1>1, <1>2

(* setCase and removeCase: constantsInvalid, and the constraint.           *)
LEMMA ConstantsInvalidIs ==
  ASSUME NEW s \in Sims, NEW t, t = ConstantsInvalid(s)
  PROVE  /\ t \in Sims /\ t.known = s.known /\ t.withConstPins = s.withConstPins
         /\ t.queue = s.queue /\ t.annotate = s.annotate /\ t.disabled = s.disabled
         /\ t.constFuncPins = s.constFuncPins /\ t.constFuncPinsValid = s.constFuncPinsValid
         /\ t.invalidInsts = s.invalidInsts /\ t.invalidLoads = s.invalidLoads
         /\ t.invalidDrvrs = s.invalidDrvrs /\ t.busy = s.busy
         /\ t.valid = FALSE /\ t.incremental = FALSE
BY DEF ConstantsInvalid, Sims

(* A case analysis, set or removed, keeps the types.                       *)
LEMMA CaseTyped ==
  ASSUME SimTyped, NEW p \in design.pins, NEW v \in Values,
         constraint' = SetIn(constraint, p, v),
         sim' = ConstantsInvalid(sim), UNCHANGED <<design, cell>>
  PROVE  SimTyped'
<1>1. sim \in Sims /\ constraint \in SUBSET (Pins \X (0..1)) /\ p \in Pins /\ v \in SUBSET (0..1)
  BY DEF SimTyped, Good, Setting, ListsInv, Designs, Values
<1>2. \A q : ValueIn(constraint', q) = IF q = p THEN v ELSE ValueIn(constraint, q)
  BY <1>1, ConstraintSet
<1>3. constraint' \in SUBSET (design.pins \X (0..1))
  BY <1>1 DEF SimTyped, Setting, SetIn
<1>4. Setting'
  BY <1>2, <1>3 DEF SimTyped, Setting
<1>5. /\ sim' \in Sims /\ sim'.known = sim.known /\ sim'.withConstPins = sim.withConstPins
      /\ sim'.queue = sim.queue /\ sim'.disabled = sim.disabled
      /\ sim'.constFuncPins = sim.constFuncPins /\ sim'.invalidInsts = sim.invalidInsts
      /\ sim'.invalidLoads = sim.invalidLoads /\ sim'.invalidDrvrs = sim.invalidDrvrs
      /\ sim'.busy = sim.busy /\ sim'.constFuncPinsValid = sim.constFuncPinsValid
      /\ ~sim'.valid /\ ~sim'.incremental
  BY <1>1, ConstantsInvalidIs
<1>6. Good(sim)'
  BY <1>5 DEF SimTyped, Good
<1>7. Marks(sim)'
  BY <1>5 DEF SimTyped, Marks
<1>8. Flow(sim)'
  BY <1>5 DEF SimTyped, Flow
<1>9. QED
  BY <1>4, <1>6, <1>7, <1>8 DEF SimTyped

(* replaceCell: the arcs are new, the pins are recorded anew.              *)
LEMMA PinsSetFuncIs ==
  ASSUME NEW s \in Sims, NEW i, NEW cells, ListsInv(design), NEW t, t = PinsSetFuncAfter(s, i, cells)
  PROVE  /\ s.invalidInsts \cup {i} \subseteq Instances => t \in Sims
         /\ t.known = s.known /\ t.withConstPins = s.withConstPins
         /\ t.queue = s.queue /\ t.annotate = s.annotate /\ t.busy = s.busy
         /\ t.incremental = s.incremental /\ t.constFuncPinsValid = s.constFuncPinsValid
         /\ t.disabled = s.disabled \ PinsOf(i)
         /\ t.invalidLoads = s.invalidLoads /\ t.invalidDrvrs = s.invalidDrvrs
         /\ t.invalidInsts = s.invalidInsts \cup {j \in {i} : s.incremental /\ j \in s.withConstPins}
         /\ t.valid = (s.valid /\ ~s.incremental)
         /\ t.constFuncPins = (s.constFuncPins \ PinsOf(i)) \cup {p \in PinsOf(i) : IsConstFunc(cells, p)}
<1> DEFINE disabled == s.disabled \ PinsOf(i)
           insts == s.invalidInsts \cup {j \in {i} : s.incremental /\ j \in s.withConstPins}
           valid == s.valid /\ ~s.incremental
           const == (s.constFuncPins \ PinsOf(i)) \cup {p \in PinsOf(i) : IsConstFunc(cells, p)}
           a == [s EXCEPT !.disabled = disabled, !.invalidInsts = insts, !.valid = valid,
                          !.constFuncPins = s.constFuncPins \ PinsOf(i)]
<1>1. t = [a EXCEPT !.constFuncPins = @ \cup {p \in PinsOf(i) : IsConstFunc(cells, p)}]
  BY DEF PinsSetFuncAfter, Recorded
<1>2. t = [s EXCEPT !.disabled = disabled, !.invalidInsts = insts, !.valid = valid, !.constFuncPins = const]
  BY <1>1 DEF Sims
<1>3. PinsOf(i) \subseteq Pins
  BY DEF PinsOf, ListsInv, Designs
<1>4. /\ disabled \in SUBSET Pins /\ valid \in BOOLEAN /\ const \in SUBSET Pins
      /\ s.invalidInsts \cup {i} \subseteq Instances => insts \in SUBSET Instances
  BY <1>3 DEF Sims
<1> HIDE DEF disabled, insts, valid, const
<1>5. /\ s.invalidInsts \cup {i} \subseteq Instances => t \in Sims
      /\ t.known = s.known /\ t.withConstPins = s.withConstPins
      /\ t.queue = s.queue /\ t.annotate = s.annotate /\ t.busy = s.busy
      /\ t.incremental = s.incremental /\ t.constFuncPinsValid = s.constFuncPinsValid
      /\ t.disabled = disabled
      /\ t.invalidLoads = s.invalidLoads /\ t.invalidDrvrs = s.invalidDrvrs
      /\ t.invalidInsts = insts /\ t.valid = valid /\ t.constFuncPins = const
  BY <1>2, <1>4 DEF Sims
<1>6. QED
  BY <1>5 DEF disabled, insts, valid, const

(* replaceCell keeps the types: its pins are of the instance.              *)
LEMMA ReplaceTyped ==
  ASSUME SimTyped, NEW e \in Commands, StaReplaceCell(e)
  PROVE  SimTyped'
<1>1. /\ e.op = "replaceCell" /\ e.inst \in design.insts
      /\ cell' = [cell EXCEPT ![e.inst] = e.cell]
      /\ sim' = PinsSetFuncAfter(sim, e.inst, cell') /\ UNCHANGED <<design, constraint>>
  BY DEF StaReplaceCell, Edit
<1>2. e.inst \in Leaves /\ e.cell \in Cells /\ e.cell \in CellsFor(e.inst)
  BY <1>1, CommandKinds
<1>3. sim \in Sims /\ ListsInv(design) /\ sim.invalidInsts \cup {e.inst} \subseteq Instances
  BY <1>1 DEF SimTyped, Good, Setting, Sims, ListsInv, Designs
<1>4. Setting'
  BY <1>1, <1>2 DEF SimTyped, Setting
<1>5. /\ sim' \in Sims /\ sim'.known = sim.known /\ sim'.withConstPins = sim.withConstPins
      /\ sim'.queue = sim.queue /\ sim'.disabled = sim.disabled \ PinsOf(e.inst)
      /\ sim'.invalidLoads = sim.invalidLoads /\ sim'.invalidDrvrs = sim.invalidDrvrs
      /\ sim'.busy = sim.busy /\ sim'.constFuncPinsValid = sim.constFuncPinsValid
      /\ sim'.valid = (sim.valid /\ ~sim.incremental) /\ sim'.incremental = sim.incremental
  BY <1>1, <1>3, PinsSetFuncIs
<1>6. /\ sim'.invalidInsts = sim.invalidInsts \cup {j \in {e.inst} : sim.incremental /\ j \in sim.withConstPins}
      /\ sim'.constFuncPins = (sim.constFuncPins \ PinsOf(e.inst))
                                \cup {p \in PinsOf(e.inst) : IsConstFunc(cell', p)}
  BY <1>1, <1>3, PinsSetFuncIs
<1>7. Good(sim)'
  BY <1>1, <1>5 DEF SimTyped, Good
<1>8. ASSUME NEW p \in sim'.constFuncPins PROVE p \in design.pins /\ IsConstFunc(cell', p)
  <2>1. CASE p \in PinsOf(e.inst)
    BY <1>6, <2>1 DEF PinsOf
  <2>2. CASE p \notin PinsOf(e.inst)
    <3>1. p \in sim.constFuncPins /\ p \in design.pins /\ IsConstFunc(cell, p)
      BY <1>6, <2>2 DEF SimTyped, Marks
    <3>2. InstanceOf[p] # e.inst
      BY <2>2, <3>1 DEF PinsOf
    <3>3. cell'[InstanceOf[p]] = cell[InstanceOf[p]]
      BY <1>1, <3>1, <3>2 DEF SimTyped, Setting, IsConstFunc
    <3>4. QED
      BY <3>1, <3>3 DEF IsConstFunc
  <2>3. QED
    BY <2>1, <2>2
<1>9. sim'.invalidInsts \subseteq design.insts
  BY <1>1, <1>6 DEF SimTyped, Marks
<1>10. Marks(sim)'
  BY <1>1, <1>5, <1>8, <1>9 DEF SimTyped, Marks
<1>11. Flow(sim)'
  BY <1>5 DEF SimTyped, Flow
<1>12. QED
  BY <1>4, <1>7, <1>10, <1>11 DEF SimTyped

(* Edits: every pin of the design or of a leaf drives or loads its net.    *)
LEMMA DrivesOrLoads ==
  ASSUME NEW p \in Pins
  PROVE  IsDriver(p) <=> ~IsLoad(p)
BY SimAssumption, NetlistAssumption DEF IsDriver, IsLoad

(* The members after connectPinAfter.                                      *)
IsConnected(s, p, t) ==
  /\ t \in Sims /\ t.known = s.known /\ t.withConstPins = s.withConstPins
  /\ t.queue = s.queue /\ t.annotate = s.annotate /\ t.disabled = s.disabled /\ t.busy = s.busy
  /\ t.incremental = s.incremental /\ t.constFuncPinsValid = s.constFuncPinsValid
  /\ t.invalidInsts = s.invalidInsts
  /\ t.valid = (s.valid /\ ~s.incremental)
  /\ t.constFuncPins = s.constFuncPins \cup {q \in {p} : s.incremental /\ IsConstFunc(cell, q)}
  /\ t.invalidLoads = s.invalidLoads \cup {q \in {p} : s.incremental /\ IsLoad(q)}
  /\ t.invalidDrvrs = s.invalidDrvrs \cup {q \in {p} : s.incremental /\ IsDriver(q)}

(* connectPinAfter leaves a record with these members.                     *)
LEMMA ConnectPinAfterIs ==
  ASSUME NEW s \in Sims, NEW p \in Pins, NEW t, t = ConnectPinAfter(s, p)
  PROVE  IsConnected(s, p, t)
<1>1. CASE ~s.incremental
  <2>1. t = s
    BY <1>1 DEF ConnectPinAfter
  <2>2. QED
    BY <1>1, <2>1 DEF IsConnected, Sims
<1>2. CASE s.incremental
  <2> DEFINE const == s.constFuncPins \cup {q \in {p} : IsConstFunc(cell, q)}
             loads == s.invalidLoads \cup {q \in {p} : IsLoad(q)}
             drvrs == s.invalidDrvrs \cup {q \in {p} : IsDriver(q)}
  <2>1. const \in SUBSET Pins /\ loads \in SUBSET Pins /\ drvrs \in SUBSET Pins
    BY DEF Sims
  <2>2. t = [s EXCEPT !.constFuncPins = const, !.invalidLoads = loads,
                      !.invalidDrvrs = drvrs, !.valid = FALSE]
    BY <1>2 DEF ConnectPinAfter, Recorded, Sims
  <2>3. /\ const = s.constFuncPins \cup {q \in {p} : s.incremental /\ IsConstFunc(cell, q)}
        /\ loads = s.invalidLoads \cup {q \in {p} : s.incremental /\ IsLoad(q)}
        /\ drvrs = s.invalidDrvrs \cup {q \in {p} : s.incremental /\ IsDriver(q)}
    BY <1>2
  <2> HIDE DEF const, loads, drvrs
  <2>4. /\ t \in Sims /\ t.known = s.known /\ t.withConstPins = s.withConstPins
        /\ t.queue = s.queue /\ t.annotate = s.annotate /\ t.disabled = s.disabled /\ t.busy = s.busy
        /\ t.incremental = s.incremental /\ t.constFuncPinsValid = s.constFuncPinsValid
        /\ t.invalidInsts = s.invalidInsts /\ t.valid = FALSE
        /\ t.constFuncPins = const /\ t.invalidLoads = loads /\ t.invalidDrvrs = drvrs
    BY <2>1, <2>2 DEF Sims
  <2>5. QED
    BY <1>2, <2>3, <2>4 DEF IsConnected
<1>3. QED
  BY <1>1, <1>2

(* connectPin keeps the types.                                             *)
LEMMA ConnectTyped ==
  ASSUME SimTyped, NEW e \in Edits, StaConnectPin(e)
  PROVE  SimTyped'
<1>1. /\ e.pin \in design.pins /\ e.net \in design.nets /\ Parent[e.net] = Scope(e.pin)
      /\ InstanceOf[e.pin] = Top => design.termOf[e.pin] = NoNet
      /\ design' = Connect(design, e.pin, e.net)
      /\ sim' = ConnectPinAfter(sim, e.pin) /\ UNCHANGED <<cell, constraint>>
  BY DEF StaConnectPin, ConnectPin
<1>2. /\ sim \in Sims /\ ListsInv(design) /\ design \in Designs /\ Listed(design)
      /\ e.pin \in Pins /\ e.net \in Nets
  BY <1>1 DEF SimTyped, Good, Setting, ListsInv, Designs
<1>3. ListsInv(design')
  BY <1>1, <1>2, ConnectLists
<1>4. Connects(design, e.pin, e.net, design')
  BY <1>1, <1>2, ConnectDoes
<1>5. design'.pins = design.pins /\ design'.insts = design.insts /\ design'.constants = design.constants
  BY <1>4 DEF Connects
<1>6. IsConnected(sim, e.pin, sim')
  BY <1>1, <1>2, ConnectPinAfterIs
<1>7. Setting'
  BY <1>1, <1>3, <1>5 DEF SimTyped, Setting
<1>8. Good(sim)'
  BY <1>5, <1>6 DEF SimTyped, Good, IsConnected
<1>9. Marks(sim)'
  BY <1>1, <1>5, <1>6 DEF SimTyped, Marks, IsConnected
<1>10. Flow(sim)'
  BY <1>6 DEF SimTyped, Flow, IsConnected
<1>11. QED
  BY <1>7, <1>8, <1>9, <1>10 DEF SimTyped

------------------------------------------------------------------------------
(* removePropagatedValue and disconnectPinBefore.                          *)
Unset(known, p) == {k \in known : k[1] # p \/ ValueIn(constraint, p) # {}}

(* Of the values only that of the pin is lost, unless it is constrained.   *)
LEMMA UnsetIs ==
  ASSUME NEW known \in SUBSET (Pins \X (0..1)), NEW p
  PROVE  /\ Unset(known, p) \in SUBSET (Pins \X (0..1))
         /\ \A q : ValueIn(Unset(known, p), q) =
                     IF q = p /\ ValueIn(constraint, p) = {} THEN {} ELSE ValueIn(known, q)
<1>1. Unset(known, p) \in SUBSET (Pins \X (0..1))
  BY DEF Unset
<1>2. ASSUME NEW q
      PROVE  ValueIn(Unset(known, p), q) =
               IF q = p /\ ValueIn(constraint, p) = {} THEN {} ELSE ValueIn(known, q)
  <2>1. \A w : w \in ValueIn(Unset(known, p), q) <=> <<q, w>> \in Unset(known, p)
    BY <1>1, ValueMembers
  <2>2. \A w : w \in ValueIn(known, q) <=> <<q, w>> \in known
    BY ValueMembers
  <2>3. \A w : <<q, w>> \in Unset(known, p)
                 <=> <<q, w>> \in known /\ (q # p \/ ValueIn(constraint, p) # {})
    BY DEF Unset
  <2>4. QED
    BY <2>1, <2>2, <2>3
<1>3. QED
  BY <1>1, <1>2

(* Whether removePropagatedValue does anything.                            *)
Removes(s, p) == s.incremental /\ IsLoad(p) /\ InstanceOf[p] \in s.withConstPins

(* The members after disconnectPinBefore.                                  *)
IsDisconnected(s, p, t) ==
  /\ t \in Sims /\ t.withConstPins = s.withConstPins
  /\ t.queue = s.queue /\ t.annotate = s.annotate /\ t.disabled = s.disabled /\ t.busy = s.busy
  /\ t.incremental = s.incremental
  /\ t.constFuncPins = s.constFuncPins /\ t.constFuncPinsValid = s.constFuncPinsValid
  /\ \A q \in Pins : ValueIn(t.known, q) =
       IF q = p /\ Removes(s, p) /\ ValueIn(constraint, p) = {} THEN {} ELSE ValueIn(s.known, q)
  /\ t.invalidInsts = s.invalidInsts \cup {i \in {InstanceOf[p]} : Removes(s, p)}
  /\ t.valid = (s.valid /\ ~Removes(s, p))
  /\ t.invalidLoads = s.invalidLoads \cup {q \in {p} : s.incremental /\ IsLoad(q)}
  /\ t.invalidDrvrs = s.invalidDrvrs \cup {q \in {p} : s.incremental /\ ~IsLoad(q)}

(* disconnectPinBefore leaves a record with these members.                 *)
LEMMA DisconnectPinBeforeIs ==
  ASSUME NEW s \in Sims, NEW p \in Pins, NEW t, t = DisconnectPinBefore(s, p)
  PROVE  IsDisconnected(s, p, t)
<1>0. InstanceOf[p] \in Instances /\ s.known \in SUBSET (Pins \X (0..1))
  BY NetlistAssumption DEF Sims
<1>1. CASE ~s.incremental
  <2>1. t = s
    BY <1>1 DEF DisconnectPinBefore
  <2>2. QED
    BY <1>1, <2>1 DEF IsDisconnected, Removes, Sims
<1>2. CASE s.incremental /\ ~IsLoad(p)
  <2> DEFINE drvrs == s.invalidDrvrs \cup {p}
  <2>1. t = [s EXCEPT !.invalidDrvrs = drvrs] /\ drvrs \in SUBSET Pins
    BY <1>2 DEF DisconnectPinBefore, Sims
  <2>2. drvrs = s.invalidDrvrs \cup {q \in {p} : s.incremental /\ ~IsLoad(q)}
    BY <1>2
  <2> HIDE DEF drvrs
  <2>3. /\ t \in Sims /\ t.withConstPins = s.withConstPins /\ t.known = s.known
        /\ t.queue = s.queue /\ t.annotate = s.annotate /\ t.disabled = s.disabled /\ t.busy = s.busy
        /\ t.incremental = s.incremental /\ t.valid = s.valid /\ t.invalidInsts = s.invalidInsts
        /\ t.constFuncPins = s.constFuncPins /\ t.constFuncPinsValid = s.constFuncPinsValid
        /\ t.invalidLoads = s.invalidLoads /\ t.invalidDrvrs = drvrs
    BY <2>1 DEF Sims
  <2>4. ~Removes(s, p)
    BY <1>2 DEF Removes
  <2>5. s.invalidLoads = s.invalidLoads \cup {q \in {p} : s.incremental /\ IsLoad(q)}
    BY <1>2
  <2>6. t.valid \in BOOLEAN
    BY <2>3 DEF Sims
  <2>7. QED
    BY <2>2, <2>3, <2>4, <2>5, <2>6 DEF IsDisconnected
<1>3. CASE s.incremental /\ IsLoad(p)
  <2> DEFINE loads == s.invalidLoads \cup {p}
             a == [s EXCEPT !.invalidLoads = loads]
  <2>1. t = RemovePropagatedValue(a, p) /\ loads \in SUBSET Pins
    BY <1>3 DEF DisconnectPinBefore, Sims
  <2>2. loads = s.invalidLoads \cup {q \in {p} : s.incremental /\ IsLoad(q)}
    BY <1>3
  <2>3. s.invalidDrvrs = s.invalidDrvrs \cup {q \in {p} : s.incremental /\ ~IsLoad(q)}
    BY <1>3
  <2>4. Removes(s, p) <=> InstanceOf[p] \in s.withConstPins
    BY <1>3 DEF Removes
  <2> HIDE DEF loads
  <2>5. CASE InstanceOf[p] \notin s.withConstPins
    <3>1. t = a
      BY <2>1, <2>5 DEF RemovePropagatedValue, Sims
    <3>2. /\ t \in Sims /\ t.withConstPins = s.withConstPins /\ t.known = s.known
          /\ t.queue = s.queue /\ t.annotate = s.annotate /\ t.disabled = s.disabled /\ t.busy = s.busy
          /\ t.incremental = s.incremental /\ t.valid = s.valid /\ t.invalidInsts = s.invalidInsts
          /\ t.constFuncPins = s.constFuncPins /\ t.constFuncPinsValid = s.constFuncPinsValid
          /\ t.invalidLoads = loads /\ t.invalidDrvrs = s.invalidDrvrs
      BY <2>1, <3>1 DEF Sims
    <3>3. t.valid \in BOOLEAN
      BY <3>2 DEF Sims
    <3>4. QED
      BY <2>2, <2>3, <2>4, <2>5, <3>2, <3>3 DEF IsDisconnected
  <2>6. CASE InstanceOf[p] \in s.withConstPins
    <3> DEFINE insts == s.invalidInsts \cup {InstanceOf[p]}
               known == Unset(s.known, p)
    <3>1. t = [a EXCEPT !.invalidInsts = insts, !.valid = FALSE, !.known = known]
      BY <2>1, <2>6 DEF RemovePropagatedValue, Sims, Unset
    <3>2. t = [s EXCEPT !.invalidLoads = loads, !.invalidInsts = insts, !.valid = FALSE, !.known = known]
      BY <3>1 DEF Sims
    <3>3. insts \in SUBSET Instances
      BY <1>0 DEF Sims
    <3>4. insts = s.invalidInsts \cup {i \in {InstanceOf[p]} : Removes(s, p)}
      BY <2>4, <2>6
    <3>5. /\ known \in SUBSET (Pins \X (0..1))
          /\ \A q \in Pins : ValueIn(known, q) =
               IF q = p /\ Removes(s, p) /\ ValueIn(constraint, p) = {} THEN {} ELSE ValueIn(s.known, q)
      <4>1. /\ Unset(s.known, p) \in SUBSET (Pins \X (0..1))
            /\ \A q : ValueIn(Unset(s.known, p), q) =
                        IF q = p /\ ValueIn(constraint, p) = {} THEN {} ELSE ValueIn(s.known, q)
        BY <1>0, UnsetIs
      <4>2. Removes(s, p)
        BY <2>4, <2>6
      <4>3. QED
        BY <4>1, <4>2
    <3> HIDE DEF insts, known
    <3>6. /\ t \in Sims /\ t.withConstPins = s.withConstPins /\ t.known = known
          /\ t.queue = s.queue /\ t.annotate = s.annotate /\ t.disabled = s.disabled /\ t.busy = s.busy
          /\ t.incremental = s.incremental /\ t.valid = FALSE /\ t.invalidInsts = insts
          /\ t.constFuncPins = s.constFuncPins /\ t.constFuncPinsValid = s.constFuncPinsValid
          /\ t.invalidLoads = loads /\ t.invalidDrvrs = s.invalidDrvrs
      BY <2>1, <3>2, <3>3, <3>5 DEF Sims
    <3>7. QED
      BY <2>2, <2>3, <2>4, <2>6, <3>4, <3>5, <3>6 DEF IsDisconnected
  <2>7. QED
    BY <2>5, <2>6
<1>4. QED
  BY <1>1, <1>2, <1>3

(* disconnectPin keeps the types.                                          *)
LEMMA DisconnectTyped ==
  ASSUME SimTyped, NEW e \in Edits, StaDisconnectPin(e)
  PROVE  SimTyped'
<1>1. /\ e.pin \in design.pins /\ design' = Disconnect(design, e.pin)
      /\ sim' = DisconnectPinBefore(sim, e.pin) /\ UNCHANGED <<cell, constraint>>
  BY DEF StaDisconnectPin, DisconnectPin
<1>2. /\ sim \in Sims /\ ListsInv(design) /\ design \in Designs /\ Listed(design) /\ e.pin \in Pins
  BY <1>1 DEF SimTyped, Good, Setting, ListsInv, Designs
<1>3. ListsInv(design')
  BY <1>1, <1>2, DisconnectLists
<1>4. Disconnects(design, e.pin, design')
  BY <1>1, <1>2, DisconnectDoes
<1>5. design'.pins = design.pins /\ design'.insts = design.insts /\ design'.constants = design.constants
  BY <1>4 DEF Disconnects
<1>6. IsDisconnected(sim, e.pin, sim')
  BY <1>1, <1>2, DisconnectPinBeforeIs
<1>7. Setting'
  BY <1>1, <1>3, <1>5 DEF SimTyped, Setting
<1>8. \A q \in Pins : ValueIn(sim'.known, q) = {} \/ ValueIn(sim'.known, q) = ValueIn(sim.known, q)
  BY <1>6 DEF IsDisconnected
<1>9. {} \in Values
  BY DEF Values
<1>10. Good(sim)'
  BY <1>5, <1>6, <1>8, <1>9 DEF SimTyped, Good, IsDisconnected
<1>11. sim'.invalidInsts \subseteq design'.insts
  BY <1>2, <1>5, <1>6, <1>1 DEF SimTyped, Marks, IsDisconnected, ListsInv, Whole
<1>12. \A q \in {e.pin} : ~IsLoad(q) => IsDriver(q)
  BY <1>2, DrivesOrLoads
<1>13. Marks(sim)'
  BY <1>1, <1>5, <1>6, <1>11, <1>12 DEF SimTyped, Marks, IsDisconnected
<1>14. Flow(sim)'
  BY <1>6 DEF SimTyped, Flow, IsDisconnected
<1>15. QED
  BY <1>7, <1>10, <1>13, <1>14 DEF SimTyped

------------------------------------------------------------------------------
(* deletePinBefore of every pin, and deleteInstanceBefore.                 *)
Without(known, pins) == {k \in known : k[1] \notin pins}

(* Of the values only those of the pins are lost.                          *)
LEMMA WithoutIs ==
  ASSUME NEW known \in SUBSET (Pins \X (0..1)), NEW S
  PROVE  /\ Without(known, S) \in SUBSET (Pins \X (0..1))
         /\ \A q : ValueIn(Without(known, S), q) = IF q \in S THEN {} ELSE ValueIn(known, q)
<1>1. Without(known, S) \in SUBSET (Pins \X (0..1))
  BY DEF Without
<1>2. ASSUME NEW q PROVE ValueIn(Without(known, S), q) = IF q \in S THEN {} ELSE ValueIn(known, q)
  <2>1. \A w : w \in ValueIn(Without(known, S), q) <=> <<q, w>> \in Without(known, S)
    BY <1>1, ValueMembers
  <2>2. \A w : w \in ValueIn(known, q) <=> <<q, w>> \in known
    BY ValueMembers
  <2>3. \A w : <<q, w>> \in Without(known, S) <=> <<q, w>> \in known /\ q \notin S
    BY DEF Without
  <2>4. QED
    BY <2>1, <2>2, <2>3
<1>3. QED
  BY <1>1, <1>2

(* The members after deleteInstanceBefore.                                 *)
IsDeleted(s, i, t) ==
  /\ t \in Sims /\ t.queue = s.queue /\ t.annotate = s.annotate /\ t.busy = s.busy
  /\ t.incremental = s.incremental /\ t.valid = s.valid
  /\ t.constFuncPinsValid = s.constFuncPinsValid
  /\ \A q \in Pins : ValueIn(t.known, q) = IF q \in PinsOf(i) THEN {} ELSE ValueIn(s.known, q)
  /\ t.constFuncPins = s.constFuncPins \ PinsOf(i) /\ t.invalidLoads = s.invalidLoads \ PinsOf(i)
  /\ t.invalidDrvrs = s.invalidDrvrs \ PinsOf(i) /\ t.disabled = s.disabled \ PinsOf(i)
  /\ t.invalidInsts = s.invalidInsts \ {i} /\ t.withConstPins = s.withConstPins \ {i}

(* deleteInstanceBefore leaves a record with these members.                *)
LEMMA DeleteInstanceBeforeIs ==
  ASSUME NEW s \in Sims, NEW i, NEW t, t = DeleteInstanceBefore(s, i)
  PROVE  IsDeleted(s, i, t)
<1> DEFINE known == Without(s.known, PinsOf(i))
           const == s.constFuncPins \ PinsOf(i)
           loads == s.invalidLoads \ PinsOf(i)
           drvrs == s.invalidDrvrs \ PinsOf(i)
           disabled == s.disabled \ PinsOf(i)
           insts == s.invalidInsts \ {i}
           with == s.withConstPins \ {i}
<1>1. t = [s EXCEPT !.constFuncPins = const, !.invalidLoads = loads, !.invalidDrvrs = drvrs,
                    !.known = known, !.disabled = disabled, !.invalidInsts = insts, !.withConstPins = with]
  BY DEF DeleteInstanceBefore, Without
<1>2. s.known \in SUBSET (Pins \X (0..1))
  BY DEF Sims
<1>3. /\ known \in SUBSET (Pins \X (0..1))
      /\ \A q \in Pins : ValueIn(known, q) = IF q \in PinsOf(i) THEN {} ELSE ValueIn(s.known, q)
  <2>1. /\ Without(s.known, PinsOf(i)) \in SUBSET (Pins \X (0..1))
        /\ \A q : ValueIn(Without(s.known, PinsOf(i)), q) = IF q \in PinsOf(i) THEN {} ELSE ValueIn(s.known, q)
    <3> HIDE DEF known
    <3>1. \A S : /\ Without(s.known, S) \in SUBSET (Pins \X (0..1))
                /\ \A q : ValueIn(Without(s.known, S), q) = IF q \in S THEN {} ELSE ValueIn(s.known, q)
      BY <1>2, WithoutIs
    <3>2. QED
      BY <3>1
  <2>2. QED
    BY <2>1
<1>4. /\ const \in SUBSET Pins /\ loads \in SUBSET Pins /\ drvrs \in SUBSET Pins
      /\ disabled \in SUBSET Pins /\ insts \in SUBSET Instances /\ with \in SUBSET Instances
  BY DEF Sims
<1> HIDE DEF known, const, loads, drvrs, disabled, insts, with
<1>5. /\ t \in Sims /\ t.queue = s.queue /\ t.annotate = s.annotate /\ t.busy = s.busy
      /\ t.incremental = s.incremental /\ t.valid = s.valid
      /\ t.constFuncPinsValid = s.constFuncPinsValid /\ t.known = known
      /\ t.constFuncPins = const /\ t.invalidLoads = loads /\ t.invalidDrvrs = drvrs
      /\ t.disabled = disabled /\ t.invalidInsts = insts /\ t.withConstPins = with
  BY <1>1, <1>3, <1>4, ZenonT(40) DEF Sims
<1>6. QED
  BY <1>3, <1>5 DEF IsDeleted, const, loads, drvrs, disabled, insts, with

(* deleteInstance keeps the types: nothing is noted of what is gone.       *)
LEMMA DeleteTyped ==
  ASSUME SimTyped, NEW e \in Edits, StaDeleteInstance(e)
  PROVE  SimTyped'
<1>1. /\ e.op = "deleteInstance" /\ design' = DeleteInstance(design, e.inst)
      /\ sim' = DeleteInstanceBefore(sim, e.inst) /\ UNCHANGED <<cell, constraint>>
      /\ ~sim.busy /\ \A k \in constraint : InstanceOf[k[1]] # e.inst
  BY DEF StaDeleteInstance, RemoveInstance, Edit
<1>2. e.inst \in Leaves
  BY <1>1, SimAssumption
<1>3. sim \in Sims /\ ListsInv(design) /\ design.pins \subseteq Pins
  BY DEF SimTyped, Good, Setting, ListsInv, Designs
<1>4. /\ ListsInv(design') /\ design'.insts = design.insts \ {e.inst}
      /\ design'.pins = {p \in design.pins : InstanceOf[p] # e.inst}
      /\ design'.constants = design.constants
  BY <1>1, <1>2, <1>3, LeafDeleted
<1>5. design'.pins = design.pins \ PinsOf(e.inst)
  BY <1>4 DEF PinsOf
<1>6. IsDeleted(sim, e.inst, sim')
  BY <1>1, <1>3, DeleteInstanceBeforeIs
<1>7. constraint' \in SUBSET (design'.pins \X (0..1))
  BY <1>1, <1>4 DEF SimTyped, Setting
<1>8. Setting'
  BY <1>1, <1>4, <1>7 DEF SimTyped, Setting
<1>9. {} \in Values
  BY DEF Values
<1>10. ASSUME NEW p \in Pins
       PROVE  /\ ValueIn(sim'.known, p) \in Values
              /\ ValueIn(sim'.known, p) # {} => p \in design'.pins /\ InstanceOf[p] \in sim'.withConstPins
  <2>1. CASE p \in PinsOf(e.inst)
    BY <1>6, <1>9, <2>1 DEF IsDeleted
  <2>2. CASE p \notin PinsOf(e.inst)
    <3>1. ValueIn(sim'.known, p) = ValueIn(sim.known, p)
      BY <1>6, <2>2 DEF IsDeleted
    <3>2. /\ ValueIn(sim.known, p) \in Values
          /\ ValueIn(sim.known, p) # {} => p \in design.pins /\ InstanceOf[p] \in sim.withConstPins
      BY DEF SimTyped, Good
    <3>3. p \in design.pins => InstanceOf[p] # e.inst
      BY <2>2 DEF PinsOf
    <3>4. sim'.withConstPins = sim.withConstPins \ {e.inst}
      BY <1>6 DEF IsDeleted
    <3>5. QED
      BY <1>5, <2>2, <3>1, <3>2, <3>3, <3>4
  <2>3. QED
    BY <2>1, <2>2
<1>11. sim'.withConstPins \subseteq design'.insts /\ sim'.queue \subseteq design'.insts \cap Leaves
  BY <1>1, <1>4, <1>6 DEF SimTyped, Good, Flow, IsDeleted
<1>12. Good(sim)'
  BY <1>6, <1>10, <1>11 DEF Good, IsDeleted
<1>13. Marks(sim)'
  BY <1>1, <1>4, <1>5, <1>6 DEF SimTyped, Marks, IsDeleted
<1>14. Flow(sim)'
  BY <1>6 DEF SimTyped, Flow, IsDeleted
<1>15. QED
  BY <1>8, <1>12, <1>13, <1>14 DEF SimTyped

(* makeInstance keeps the types: there are only more pins.                 *)
LEMMA MakeTyped ==
  ASSUME SimTyped, NEW e \in Edits, StaMakeInstance(e)
  PROVE  SimTyped'
<1>1. /\ e.op = "makeInstance" /\ design' = MakeInstance(design, e.inst) /\ UNCHANGED <<cell, constraint, sim>>
  BY DEF StaMakeInstance, AddInstance, Edit
<1>2. e.inst \in Instances
  BY <1>1, EditKinds
<1>3. ListsInv(design)
  BY DEF SimTyped, Setting
<1>4. /\ ListsInv(design') /\ design'.constants = design.constants
      /\ design'.insts = design.insts \cup {e.inst}
      /\ design'.pins = design.pins \cup {p \in Pins : InstanceOf[p] = e.inst}
  BY <1>1, <1>2, <1>3, MakeInstanceLists
<1>5. Setting'
  BY <1>1, <1>4 DEF SimTyped, Setting
<1>6. Good(sim)'
  BY <1>1, <1>4 DEF SimTyped, Good
<1>7. Marks(sim)'
  BY <1>1, <1>4 DEF SimTyped, Marks
<1>8. QED
  BY <1>1, <1>5, <1>6, <1>7 DEF SimTyped

(* Every step keeps the types.                                             *)
LEMMA SimTypedStays ==
  ASSUME SimTyped, [SimNext]_simVars
  PROVE  SimTyped'
<1>1. CASE UNCHANGED simVars
  <2>1. UNCHANGED <<design, cell, constraint, sim>>
    BY <1>1 DEF simVars
  <2>2. Setting' /\ Good(sim)' /\ Marks(sim)' /\ Flow(sim)'
    BY <2>1 DEF SimTyped, Setting, Good, Marks
  <2>3. QED
    BY <2>2 DEF SimTyped
<1>2. CASE EnsureConstantsPropagated
  BY <1>2, EnsureTyped
<1>3. ASSUME NEW i \in Instances, EvalNext(i) PROVE SimTyped'
  BY <1>3, EvalTypedStep
<1>4. CASE AnnotateGraphEdges
  BY <1>4, AnnotateTyped
<1>5. ASSUME NEW e \in Commands, SetCaseAnalysis(e) PROVE SimTyped'
  <2>1. /\ e.pin \in design.pins /\ e.value \in 0..1
        /\ constraint' = {k \in constraint : k[1] # e.pin} \cup {<<e.pin, e.value>>}
        /\ sim' = ConstantsInvalid(sim) /\ UNCHANGED <<design, cell>>
    BY <1>5, CommandKinds DEF SetCaseAnalysis, Edit
  <2>2. {e.value} \in Values /\ constraint' = SetIn(constraint, e.pin, {e.value})
    BY <2>1 DEF Values, SetIn
  <2>3. QED
    BY <2>1, <2>2, CaseTyped
<1>6. ASSUME NEW e \in Commands, RemoveCaseAnalysis(e) PROVE SimTyped'
  <2>1. /\ e.pin \in Pins /\ ValueIn(constraint, e.pin) # {}
        /\ constraint' = {k \in constraint : k[1] # e.pin}
        /\ sim' = ConstantsInvalid(sim) /\ UNCHANGED <<design, cell>>
    BY <1>6, CommandKinds DEF RemoveCaseAnalysis, Edit
  <2>2. constraint \in SUBSET (design.pins \X (0..1))
    BY DEF SimTyped, Setting
  <2>3. e.pin \in design.pins
    BY <2>1, <2>2 DEF ValueIn
  <2>4. {} \in Values /\ constraint' = SetIn(constraint, e.pin, {})
    BY <2>1 DEF Values, SetIn
  <2>5. QED
    BY <2>1, <2>3, <2>4, CaseTyped
<1>7. ASSUME NEW e \in Commands, StaReplaceCell(e) PROVE SimTyped'
  BY <1>7, ReplaceTyped
<1>8. ASSUME NEW e \in Edits, StaConnectPin(e) PROVE SimTyped'
  BY <1>8, ConnectTyped
<1>9. ASSUME NEW e \in Edits, StaDisconnectPin(e) PROVE SimTyped'
  BY <1>9, DisconnectTyped
<1>10. ASSUME NEW e \in Edits, StaDeleteInstance(e) PROVE SimTyped'
  BY <1>10, DeleteTyped
<1>11. ASSUME NEW e \in Edits, StaMakeInstance(e) PROVE SimTyped'
  BY <1>11, MakeTyped
<1>12. QED
  BY <1>1, <1>2, <1>3, <1>4, <1>5, <1>6, <1>7, <1>8, <1>9, <1>10, <1>11 DEF SimNext

(* What the simulator keeps is of the netlist there is, whatever edits,    *)
(* case analyses and propagations there have been, and every instance with *)
(* a value is noted: nothing that deleteInstanceBefore and the other       *)
(* callbacks leave in the sets of Sim names what is gone.                  *)
THEOREM SimTypeStays == SimSpec => []TypeOK
<1>1. SimInit => SimTyped
  BY InitTyped
<1>2. SimTyped /\ [SimNext]_simVars => SimTyped'
  BY SimTypedStays
<1>3. SimTyped => TypeOK
  BY SimTypedOK
<1>4. QED
  BY <1>1, <1>2, <1>3, PTL DEF SimSpec

------------------------------------------------------------------------------
(* The nets of a design of leaf instances: no pin ties two of them, so that *)
(* the pins connected to a net are those at it.                            *)
Wired(d) ==
  /\ ListsInv(d) /\ DriversInv(d)
  /\ \A p \in Pins : NetAt(d, p) \in d.nets \cup {NoNet}
  /\ \A p, q \in Pins :
       IsDriver(p) /\ IsDriver(q) /\ NetAt(d, p) = NetAt(d, q) => p = q \/ NetAt(d, p) = NoNet
  /\ \A p \in Pins : IsDriver(p) => NetAt(d, p) \notin TiedNets

(* The net of a pin of a leaf is netOf, that of a port termOf; pins with a *)
(* net are of the design.                                                  *)
LEMMA NetAtIs ==
  ASSUME NEW d, Wired(d), NEW p \in Pins
  PROVE  /\ NetAt(d, p) \in Nets \cup {NoNet}
         /\ NetAt(d, p) # NoNet => p \in d.pins
         /\ InstanceOf[p] # Top => NetAt(d, p) = d.netOf[p] /\ d.termOf[p] = NoNet /\ InstanceOf[p] \in Leaves
         /\ InstanceOf[p] = Top => NetAt(d, p) = d.termOf[p] /\ d.netOf[p] = NoNet
<1>1. d \in Designs /\ Listed(d) /\ PortsByTerm(d)
  BY DEF Wired, DriversInv
<1>2. d.netOf \in [Pins -> Nets \cup {NoNet}] /\ d.termOf \in [Pins -> Nets \cup {NoNet}]
  BY <1>1 DEF Designs
<1>3. InstanceOf[p] \in Leaves \cup {Top}
  BY SimAssumption
<1>4. InstanceOf[p] \in Leaves => d.termOf[p] = NoNet
  BY <1>1, LeafTerm
<1>5. InstanceOf[p] = Top => d.netOf[p] = NoNet
  BY <1>1 DEF PortsByTerm
<1>6. (d.netOf[p] # NoNet => p \in d.pins) /\ (d.termOf[p] # NoNet => p \in d.pins)
  BY <1>1 DEF Listed
<1>7. QED
  BY <1>2, <1>3, <1>4, <1>5, <1>6 DEF NetAt

(* The pins connected to a net are those at it.                            *)
LEMMA PinsOnNet ==
  ASSUME NEW d, Wired(d), NEW n \in Nets
  PROVE  Flat(d, n) /\ ConnectedPins(d, n) = {p \in Pins : NetAt(d, p) = n}
<1>1. d \in Designs /\ Listed(d) /\ NoNet \notin Nets
  BY NoNetApart DEF Wired, DriversInv
<1>2. d.netPins[n] \subseteq Pins /\ d.netTerms[n] \subseteq Pins
  BY <1>1 DEF Designs
<1>3. ASSUME NEW p \in Pins
      PROVE  /\ p \in d.netPins[n] <=> d.netOf[p] = n
             /\ p \in d.netTerms[n] <=> d.termOf[p] = n /\ n \in d.nets
  BY <1>1 DEF Listed
<1>4. ASSUME NEW p \in d.netPins[n] PROVE d.termOf[p] = NoNet
  <2>1. p \in Pins /\ d.netOf[p] = n
    BY <1>2, <1>3
  <2>2. QED
    BY <1>1, <2>1, NetAtIs
<1>5. ASSUME NEW p \in d.netTerms[n] PROVE d.netOf[p] = NoNet
  <2>1. p \in Pins /\ d.termOf[p] = n
    BY <1>2, <1>3
  <2>2. QED
    BY <1>1, <2>1, NetAtIs
<1>6. Adjacent(d, n) = {}
  BY <1>4, <1>5 DEF Adjacent
<1>7. Spanned(d, n) = {n}
  BY <1>6 DEF Spanned
<1>8. ConnectedPins(d, n) = d.netPins[n] \cup d.netTerms[n]
  BY <1>5, <1>7 DEF ConnectedPins
<1>9. ASSUME NEW p \in Pins PROVE p \in d.netPins[n] \cup d.netTerms[n] <=> NetAt(d, p) = n
  <2>1. NetAt(d, p) \in d.nets \cup {NoNet}
    BY DEF Wired
  <2>2. CASE InstanceOf[p] = Top
    <3>1. NetAt(d, p) = d.termOf[p] /\ d.netOf[p] = NoNet
      BY <2>2, NetAtIs
    <3>2. QED
      BY <1>1, <1>3, <2>1, <3>1
  <2>3. CASE InstanceOf[p] # Top
    <3>1. NetAt(d, p) = d.netOf[p] /\ d.termOf[p] = NoNet
      BY <2>3, NetAtIs
    <3>2. QED
      BY <1>1, <1>3, <3>1
  <2>4. QED
    BY <2>2, <2>3
<1>10. QED
  BY <1>2, <1>4, <1>5, <1>8, <1>9 DEF Flat

(* So are its drivers.                                                     *)
LEMMA DriversOnNet ==
  ASSUME NEW d, Wired(d), NEW n \in Nets
  PROVE  NetDrivers(d, n) = {p \in Pins : IsDriver(p) /\ NetAt(d, p) = n}
BY PinsOnNet DEF NetDrivers

(* The pins connected to a pin are those at its net.                       *)
LEMMA PinsOnPin ==
  ASSUME NEW d, Wired(d), NEW p \in Pins
  PROVE  PinConnectedPins(d, p) = {p} \cup {q \in Pins : NetAt(d, q) = NetAt(d, p) /\ NetAt(d, p) # NoNet}
<1>1. {d.netOf[p], d.termOf[p]} \ {NoNet} = {NetAt(d, p)} \ {NoNet}
  BY NetAtIs
<1>2. NetAt(d, p) \in Nets \cup {NoNet}
  BY NetAtIs
<1>3. CASE NetAt(d, p) = NoNet
  BY <1>1, <1>3 DEF PinConnectedPins
<1>4. CASE NetAt(d, p) # NoNet
  <2>1. NetAt(d, p) \in Nets /\ {NetAt(d, p)} \ {NoNet} = {NetAt(d, p)}
    BY <1>2, <1>4
  <2>2. PinConnectedPins(d, p) = {p} \cup ConnectedPins(d, NetAt(d, p))
    BY <1>1, <2>1 DEF PinConnectedPins
  <2>3. ConnectedPins(d, NetAt(d, p)) = {q \in Pins : NetAt(d, q) = NetAt(d, p)}
    BY <2>1, PinsOnNet
  <2>4. QED
    BY <1>4, <2>2, <2>3
<1>5. QED
  BY <1>3, <1>4

(* The loads that setPinValue passes a value on to are those at the net of *)
(* the driver.                                                             *)
LEMMA LoadsOnPin ==
  ASSUME NEW d, Wired(d), NEW p \in Pins, IsDriver(p)
  PROVE  Loads(d, p) = {q \in Pins : IsLoad(q) /\ NetAt(d, q) = NetAt(d, p) /\ NetAt(d, p) # NoNet}
<1>1. ~IsLoad(p)
  BY DrivesOrLoads
<1>2. Loads(d, p) = {q \in PinConnectedPins(d, p) \ {p} : IsLoad(q)}
  BY DEF Loads
<1>3. PinConnectedPins(d, p) = {p} \cup {q \in Pins : NetAt(d, q) = NetAt(d, p) /\ NetAt(d, p) # NoNet}
  BY PinsOnPin
<1>4. QED
  BY <1>1, <1>2, <1>3

------------------------------------------------------------------------------
(* Each step keeps the design wired.                                       *)
LEMMA LinkedWired ==
  ASSUME Regular
  PROVE  Wired(Linked)
<1>1. ListsInv(Linked) /\ DriversInv(Linked)
  BY LinkedLists, LinkedDrivers
<1>2. /\ Linked.netOf = LinkedNet /\ Linked.termOf = LinkedTerm /\ Linked.nets = Nets \ SpareNets
  BY DEF Linked
<1>3. ASSUME NEW p \in Pins PROVE NetAt(Linked, p) \in Linked.nets \cup {NoNet}
  <2>1. {LinkedNet[p], LinkedTerm[p]} \cap SpareNets = {}
    BY LinkedAssumption
  <2>2. LinkedNet[p] \in Nets \cup {NoNet} /\ LinkedTerm[p] \in Nets \cup {NoNet}
    BY NetlistAssumption
  <2>3. QED
    BY <1>2, <2>1, <2>2 DEF NetAt
<1>4. QED
  BY <1>1, <1>3 DEF Wired, Regular, RegularNets

(* Looking up drivers leaves the nets as they are.                         *)
LEMMA LookedUpWired ==
  ASSUME Wired(design), NEW d, ListsInv(d), DriversInv(d), SameNets(design, d)
  PROVE  Wired(d) /\ \A p \in Pins : NetAt(d, p) = NetAt(design, p)
<1>1. \A p \in Pins : NetAt(d, p) = NetAt(design, p)
  BY DEF SameNets, NetAt
<1>2. d.nets = design.nets
  BY DEF SameNets
<1>3. QED
  BY <1>1, <1>2 DEF Wired

(* Whichever pins of leaves move, if their drivers go where there is none. *)
LEMMA MovedWired ==
  ASSUME NEW d, Wired(d), NEW e, ListsInv(e), DriversInv(e), e.nets = d.nets, NEW p \in Pins, NEW n,
         \A q \in Pins \ {p} : NetAt(e, q) = NetAt(d, q) \/ NetAt(e, q) = NoNet,
         NetAt(e, p) = n, n \in d.nets \cup {NoNet},
         IsDriver(p) => /\ n \notin TiedNets
                        /\ n # NoNet => \A q \in Pins \ {p} : ~(IsDriver(q) /\ NetAt(d, q) = n)
  PROVE  Wired(e)
<1>1. NoNet \notin TiedNets
  BY NoNetApart, NetlistAssumption DEF TiedNets
<1>2. ASSUME NEW q \in Pins
      PROVE  /\ NetAt(e, q) \in e.nets \cup {NoNet}
             /\ IsDriver(q) => NetAt(e, q) \notin TiedNets
  <2>1. NetAt(d, q) \in d.nets \cup {NoNet} /\ (IsDriver(q) => NetAt(d, q) \notin TiedNets)
    BY DEF Wired
  <2>2. CASE q = p
    BY <2>2
  <2>3. CASE q # p
    BY <1>1, <2>1, <2>3
  <2>4. QED
    BY <2>2, <2>3
<1>3. ASSUME NEW q \in Pins, NEW r \in Pins, IsDriver(q), IsDriver(r), NetAt(e, q) = NetAt(e, r)
      PROVE  q = r \/ NetAt(e, q) = NoNet
  <2>1. NetAt(d, q) = NetAt(d, r) => q = r \/ NetAt(d, q) = NoNet
    BY <1>3 DEF Wired
  <2>2. CASE q = p /\ r # p
    BY <1>3, <2>2
  <2>3. CASE q # p /\ r = p
    BY <1>3, <2>3
  <2>4. CASE q # p /\ r # p
    BY <1>3, <2>1, <2>4
  <2>5. QED
    BY <2>2, <2>3, <2>4
<1>4. QED
  BY <1>2, <1>3 DEF Wired

(* connectPin and disconnectPin see what they join: no net spans the       *)
(* hierarchy.                                                              *)
LEMMA SpanOfWired ==
  ASSUME NEW d, Wired(d), NEW p \in Pins
  PROVE  /\ LeavesSeen(d, p)
         /\ \A n \in d.nets : SpanSeen(d, n)
<1>1. d.nets \subseteq Nets /\ \A q \in Pins : d.netOf[q] \in Nets \cup {NoNet}
  BY DEF Wired, ListsInv, Designs
<1>2. \A n \in Nets : SpanSeen(d, n)
  BY PinsOnNet DEF SpanSeen
<1>3. QED
  BY <1>1, <1>2 DEF LeavesSeen

(* connectPin of a pin of a leaf puts it at the net.                       *)
LEMMA ConnectWired ==
  ASSUME NEW d, Wired(d), NEW p \in d.pins, NEW n \in d.nets, InstanceOf[p] # Top, Parent[n] = Scope(p),
         IsDriver(p) => n \notin TiedNets /\ NetDrivers(d, n) = {},
         NEW e, e = Connect(d, p, n)
  PROVE  /\ Wired(e) /\ Connects(d, p, n, e)
         /\ \A q \in Pins : NetAt(e, q) = IF q = p THEN n ELSE NetAt(d, q)
<1>1. d \in Designs /\ Listed(d) /\ ListsInv(d) /\ DriversInv(d) /\ p \in Pins /\ n \in Nets
  BY DEF Wired, ListsInv, Designs
<1>2. ListsInv(e)
  BY <1>1, ConnectLists
<1>3. Connects(d, p, n, e)
  BY <1>1, ConnectDoes
<1>4. LeavesSeen(d, p) /\ SpanSeen(d, n)
  BY <1>1, SpanOfWired
<1>5. d.termOf[p] = NoNet
  BY <1>1, NetAtIs
<1>6. DriversInv(e)
  <2>1. e \in Designs /\ Listed(e)
    BY <1>2 DEF ListsInv
  <2>2. QED
    BY <1>1, <1>4, <1>5, <2>1, ConnectCurrent
<1>7. ASSUME NEW q \in Pins PROVE NetAt(e, q) = IF q = p THEN n ELSE NetAt(d, q)
  <2>1. e.netOf = [d.netOf EXCEPT ![p] = n] /\ e.termOf = d.termOf
    BY <1>3 DEF Connects
  <2>2. d.netOf \in [Pins -> Nets \cup {NoNet}]
    BY <1>1 DEF Designs
  <2>3. QED
    BY <1>1, <2>1, <2>2 DEF NetAt
<1>8. IsDriver(p) => \A q \in Pins \ {p} : ~(IsDriver(q) /\ NetAt(d, q) = n)
  BY <1>1, DriversOnNet
<1>9. e.nets = d.nets
  BY <1>3 DEF Connects
<1>10. Wired(e)
  BY <1>1, <1>2, <1>6, <1>7, <1>8, <1>9, MovedWired
<1>11. QED
  BY <1>3, <1>7, <1>10

(* disconnectPin takes it off its net.                                     *)
LEMMA DisconnectWired ==
  ASSUME NEW d, Wired(d), NEW p \in d.pins, InstanceOf[p] # Top, NEW e, e = Disconnect(d, p)
  PROVE  /\ Wired(e) /\ Disconnects(d, p, e)
         /\ \A q \in Pins : NetAt(e, q) = IF q = p THEN NoNet ELSE NetAt(d, q)
<1>1. d \in Designs /\ Listed(d) /\ ListsInv(d) /\ DriversInv(d) /\ p \in Pins
  BY DEF Wired, ListsInv, Designs
<1>2. ListsInv(e)
  BY <1>1, DisconnectLists
<1>3. Disconnects(d, p, e)
  BY <1>1, DisconnectDoes
<1>4. LeavesSeen(d, p)
  BY <1>1, SpanOfWired
<1>5. d.termOf[p] = NoNet
  BY <1>1, NetAtIs
<1>6. DriversInv(e)
  <2>1. e \in Designs /\ Listed(e)
    BY <1>2 DEF ListsInv
  <2>2. QED
    BY <1>1, <1>4, <1>5, <2>1, DisconnectCurrent
<1>7. ASSUME NEW q \in Pins PROVE NetAt(e, q) = IF q = p THEN NoNet ELSE NetAt(d, q)
  <2>1. e.netOf = [d.netOf EXCEPT ![p] = NoNet] /\ e.termOf = d.termOf
    BY <1>3 DEF Disconnects
  <2>2. d.netOf \in [Pins -> Nets \cup {NoNet}]
    BY <1>1 DEF Designs
  <2>3. QED
    BY <1>1, <2>1, <2>2 DEF NetAt
<1>8. e.nets = d.nets
  BY <1>3 DEF Disconnects
<1>9. NoNet \notin TiedNets
  BY NoNetApart, NetlistAssumption DEF TiedNets
<1>10. Wired(e)
  BY <1>1, <1>2, <1>6, <1>7, <1>8, <1>9, MovedWired
<1>11. QED
  BY <1>3, <1>7, <1>10

(* deleteInstance takes the pins of the leaf off theirs.                   *)
LEMMA DeleteWired ==
  ASSUME NEW d, Wired(d), NEW i \in Leaves, NEW e, e = DeleteInstance(d, i)
  PROVE  /\ Wired(e)
         /\ \A q \in Pins : NetAt(e, q) = IF InstanceOf[q] = i THEN NoNet ELSE NetAt(d, q)
<1>1. ListsInv(d) /\ DriversInv(d) /\ i \in Instances /\ i # Top
  BY NetlistAssumption DEF Wired
<1>2. /\ ListsInv(e) /\ e.nets = d.nets
      /\ \A p \in Pins : /\ e.netOf[p] = IF InstanceOf[p] = i THEN NoNet ELSE d.netOf[p]
                         /\ InstanceOf[p] # i => e.termOf[p] = d.termOf[p]
  BY <1>1, LeafDeleted
<1>3. DriversInv(e)
  <2>1. \A p \in Pins : LeavesSeen(d, p)
    BY SpanOfWired
  <2>2. QED
    BY <1>1, <2>1, DeleteInstanceCurrent
<1>4. \A q \in Pins : NetAt(e, q) = IF InstanceOf[q] = i THEN NoNet ELSE NetAt(d, q)
  BY <1>1, <1>2 DEF NetAt
<1>5. NoNet \notin TiedNets
  BY NoNetApart, NetlistAssumption DEF TiedNets
<1>6. QED
  BY <1>2, <1>3, <1>4, <1>5 DEF Wired

(* makeInstance moves no pin.                                              *)
LEMMA MakeWired ==
  ASSUME NEW d, Wired(d), NEW i \in Instances, NEW e, e = MakeInstance(d, i)
  PROVE  /\ Wired(e) /\ \A q \in Pins : NetAt(e, q) = NetAt(d, q)
<1>1. ListsInv(d) /\ DriversInv(d)
  BY DEF Wired
<1>2. /\ ListsInv(e) /\ e.nets = d.nets /\ e.netOf = d.netOf /\ e.termOf = d.termOf /\ e.drvrs = d.drvrs
  BY <1>1, MakeInstanceLists
<1>3. DriversInv(e)
  <2>1. e \in Designs /\ Listed(e)
    BY <1>2 DEF ListsInv
  <2>2. QED
    BY <1>1, <1>2, <2>1, MakeCurrent
<1>4. \A q \in Pins : NetAt(e, q) = NetAt(d, q)
  BY <1>2 DEF NetAt
<1>5. QED
  BY <1>2, <1>3, <1>4 DEF Wired

------------------------------------------------------------------------------
(* What the output of an instance evaluates to, whatever the netlist is.   *)
PinsAt(i) == {p \in Pins \ Outputs : InstanceOf[p] = i}

(* The values the inputs may have.                                         *)
CompletionsOf(known, i) ==
  {f \in [InputPorts(i) -> 0..1] :
     \A port \in InputPorts(i) : f[port] \in Possible(known, PinAt(PinsAt(i), port))}

(* The one result there is, if there is one.                               *)
Single(c, results) == IF c \in Sequentials \/ Cardinality(results) > 1 THEN {} ELSE results

(* The value of the output of an instance with the cell c.                 *)
EvalOf(c, known, i) == Single(c, {Function(c, f) : f \in CompletionsOf(known, i)})

(* In a design with the instance these are the values of Sim, ...          *)
LEMMA CompletionsAre ==
  ASSUME ListsInv(design), NEW i \in design.insts, NEW known
  PROVE  Completions(known, i) = CompletionsOf(known, i)
<1>1. InputsOf(i) = PinsAt(i)
  BY InputsAll DEF PinsAt
<1>2. {PortOf[p] : p \in InputsOf(i)} = InputPorts(i)
  BY <1>1 DEF InputPorts, PinsAt
<1> DEFINE X == InputsOf(i)
<1>3. Completions(known, i) = {f \in [InputPorts(i) -> 0..1] :
         \A port \in DOMAIN f : f[port] \in Possible(known, PinAt(X, port))}
  BY <1>2 DEF Completions
<1> HIDE DEF X
<1>4. X = PinsAt(i)
  BY <1>1 DEF X
<1>5. QED
  BY <1>3, <1>4 DEF CompletionsOf

(* ... and evalExpr gives this value.                                      *)
LEMMA EvalIs ==
  ASSUME ListsInv(design), NEW i \in design.insts, NEW known
  PROVE  EvalExpr(known, i) = EvalOf(cell[i], known, i)
<1>1. Completions(known, i) = CompletionsOf(known, i)
  BY CompletionsAre
<1>2. EvalExpr(known, i) = Single(cell[i], {Function(cell[i], f) : f \in Completions(known, i)})
  BY DEF EvalExpr, Single
<1>3. QED
  BY <1>1, <1>2 DEF EvalOf

(* An input port is that of an input.                                      *)
LEMMA PortPin ==
  ASSUME NEW i, NEW port \in InputPorts(i)
  PROVE  PinAt(PinsAt(i), port) \in PinsAt(i)
BY DEF InputPorts, PinAt, PinsAt

(* They depend on the values of its inputs alone.                          *)
LEMMA CompletionsSame ==
  ASSUME NEW i, NEW k1, NEW k2, \A p \in PinsAt(i) : ValueIn(k1, p) = ValueIn(k2, p)
  PROVE  CompletionsOf(k1, i) = CompletionsOf(k2, i)
<1>1. \A port \in InputPorts(i) :
        Possible(k1, PinAt(PinsAt(i), port)) = Possible(k2, PinAt(PinsAt(i), port))
  BY PortPin DEF Possible
<1>2. QED
  BY <1>1 DEF CompletionsOf

(* So does what the instance evaluates to.                                 *)
LEMMA EvalSame ==
  ASSUME NEW c, NEW i, NEW k1, NEW k2, \A p \in PinsAt(i) : ValueIn(k1, p) = ValueIn(k2, p)
  PROVE  EvalOf(c, k1, i) = EvalOf(c, k2, i)
BY CompletionsSame DEF EvalOf

(* There are at most two results, and one or none is a value.              *)
LEMMA ResultsTyped ==
  ASSUME NEW i \in Leaves, NEW c \in CellsFor(i), NEW known, NEW R,
         R = {Function(c, f) : f \in CompletionsOf(known, i)}
  PROVE  /\ R \in SUBSET (0..1) /\ Cardinality(R) \in Nat
         /\ ~(Cardinality(R) > 1) <=> R \in Values
<1>1. \A f \in [InputPorts(i) -> 0..1] : Function(c, f) \in 0..1
  BY SimAssumption
<1>2. R \in SUBSET (0..1)
  BY <1>1 DEF CompletionsOf
<1>3. IsFiniteSet(0..1)
  <2>1. 0 \in Int /\ 1 \in Int
    OBVIOUS
  <2>2. QED
    BY <2>1, FS_Interval
<1>4. Cardinality(R) \in Nat
  BY <1>2, <1>3, FS_Subset, FS_CardinalityType
<1>5. Cardinality(R) <= 1 <=> R \in Values
  BY <1>2, AtMostOne
<1>6. QED
  BY <1>2, <1>4, <1>5

(* An instance evaluates to one of the values.                             *)
LEMMA EvalOfTyped ==
  ASSUME NEW i \in Leaves, NEW c \in CellsFor(i), NEW known
  PROVE  EvalOf(c, known, i) \in Values
<1> DEFINE R == {Function(c, f) : f \in CompletionsOf(known, i)}
<1>1. ~(Cardinality(R) > 1) <=> R \in Values
  BY ResultsTyped
<1>2. {} \in Values
  BY DEF Values
<1> HIDE DEF R
<1>3. Single(c, R) \in Values
  BY <1>1, <1>2 DEF Single
<1>4. QED
  BY <1>3 DEF EvalOf, R

(* Nothing is known of the output while nothing is known of the inputs, if *)
(* it depends on them.                                                     *)
LEMMA EvalUnknown ==
  ASSUME RegularCells, NEW i \in Leaves, NEW c \in CellsFor(i), ~Tie(c), NEW known,
         \A p \in PinsAt(i) : ValueIn(known, p) = {}
  PROVE  EvalOf(c, known, i) = {}
<1> DEFINE R == {Function(c, f) : f \in CompletionsOf(known, i)}
<1>1. CASE c \in Sequentials
  BY <1>1 DEF EvalOf, Single
<1>2. CASE c \notin Sequentials
  <2>1. PICK port \in InputPorts(i), f \in [InputPorts(i) -> 0..1] :
          Function(c, [f EXCEPT ![port] = 0]) # Function(c, [f EXCEPT ![port] = 1])
    BY <1>2 DEF RegularCells
  <2>2. \A q \in InputPorts(i) : Possible(known, PinAt(PinsAt(i), q)) = 0..1
    BY PortPin DEF Possible
  <2>3. CompletionsOf(known, i) = [InputPorts(i) -> 0..1]
    BY <2>2 DEF CompletionsOf
  <2>4. PICK g, h : g = [f EXCEPT ![port] = 0] /\ h = [f EXCEPT ![port] = 1]
    OBVIOUS
  <2>5. g \in CompletionsOf(known, i) /\ h \in CompletionsOf(known, i) /\ Function(c, g) # Function(c, h)
    BY <2>1, <2>3, <2>4
  <2>6. R \notin Values
    BY <2>5 DEF Values
  <2>7. Cardinality(R) > 1
    BY <2>6, ResultsTyped
  <2> HIDE DEF R
  <2>8. Single(c, R) = {}
    BY <2>7 DEF Single
  <2>9. QED
    BY <2>8 DEF EvalOf, R
<1>3. QED
  BY <1>1, <1>2

(* A tie has its value.                                                    *)
LEMMA EvalTie ==
  ASSUME RegularCells, NEW i \in Leaves, NEW c \in CellsFor(i), Tie(c), NEW known
  PROVE  /\ EvalOf(c, known, i) = EvalOf(c, {}, i)
         /\ EvalOf(c, known, i) # {}
<1>1. c \notin Sequentials /\ InputPorts(i) = {}
  BY DEF RegularCells
<1>2. CompletionsOf(known, i) = [{} -> 0..1] /\ CompletionsOf({}, i) = [{} -> 0..1]
  BY <1>1 DEF CompletionsOf
<1>3. PICK g : g = [x \in {} |-> 0] 
  OBVIOUS
<1>4. [{} -> 0..1] = {g}
  BY <1>3
<1> DEFINE R == {Function(c, f) : f \in CompletionsOf(known, i)}
<1>5. R = {Function(c, g)}
  BY <1>2, <1>4
<1>6. Function(c, g) \in 0..1
  BY <1>1, <1>4, SimAssumption
<1>7. R \in Values /\ R # {}
  BY <1>5, <1>6 DEF Values
<1>8. ~(Cardinality(R) > 1)
  BY <1>7, ResultsTyped
<1>9. EvalOf(c, known, i) = EvalOf(c, {}, i)
  BY <1>2 DEF EvalOf
<1> HIDE DEF R
<1>10. Single(c, R) = R
  BY <1>1, <1>8 DEF Single
<1>11. QED
  BY <1>7, <1>9, <1>10 DEF EvalOf, R

------------------------------------------------------------------------------
(* What holds of the values, but for what is pending: pins have the values *)
(* they are constrained to; loads that of their net; outputs that of their *)
(* instance; ties their own; free ports none.                              *)
Held(s, con, X) ==
  \A p \in Pins : ValueIn(con, p) # {} => ValueIn(s.known, p) = ValueIn(con, p) \/ p \in X

(* The value v fits the net of p: none without a net, that of a constant   *)
(* net, that of its driver unless the driver is pending.                   *)
Fits(s, d, p, v, PD) ==
  /\ NetAt(d, p) = NoNet => v = {}
  /\ \A w \in 0..1 : NetAt(d, p) \in ConstantNets[w] => v = {w}
  /\ \A q \in Pins : IsDriver(q) /\ NetAt(d, q) = NetAt(d, p) /\ NetAt(d, p) # NoNet =>
                       v = ValueIn(s.known, q) \/ q \in PD

(* A load whose value is pending has none while it has no net.             *)
Loaded(s, d, con, PL, PD) ==
  \A p \in Pins : IsLoad(p) /\ ValueIn(con, p) = {} =>
    /\ NetAt(d, p) = NoNet => ValueIn(s.known, p) = {}
    /\ p \notin PL => Fits(s, d, p, ValueIn(s.known, p), PD)

(* Outputs have the value their instance evaluates to, unless it is        *)
(* pending.                                                                *)
Evaluated(s, d, con, cells, PI) ==
  \A p \in d.pins : InstanceOf[p] \in Leaves /\ p \in Outputs /\ ValueIn(con, p) = {} =>
    \/ ValueIn(s.known, p) = EvalOf(cells[InstanceOf[p]], s.known, InstanceOf[p])
    \/ InstanceOf[p] \in PI

(* Ties have their values.                                                 *)
TiesHeld(s, d, cells, Y) ==
  \A p \in d.pins : IsConstFunc(cells, p) =>
    ValueIn(s.known, p) = EvalOf(cells[InstanceOf[p]], {}, InstanceOf[p]) \/ p \in Y

(* Ports of the design that are not constrained have no value.             *)
PortsFree(s, con) ==
  \A p \in Pins : InstanceOf[p] = Top /\ p \notin Outputs /\ ValueIn(con, p) = {} =>
    ValueIn(s.known, p) = {}

------------------------------------------------------------------------------
(* What setPinValue does to drivers and to loads.                          *)
LEMMA ReachedIs ==
  ASSUME Wired(design), NEW p \in Pins, NEW v, NEW q \in Pins
  PROVE  q \in Reached(p, v) <=>
           /\ Settable(q, v)
           /\ \/ q = p
              \/ /\ IsDriver(p) /\ IsLoad(q)
                 /\ NetAt(design, q) = NetAt(design, p) /\ NetAt(design, p) # NoNet
BY LoadsOnPin DEF Reached

(* A driver that gets a value passes it on to the loads at its net.        *)
SetsDriver(s, p, v, t) ==
  /\ \A q \in Pins : IsDriver(q) =>
       ValueIn(t.known, q) = IF q = p /\ Settable(p, v) THEN v ELSE ValueIn(s.known, q)
  /\ \A q \in Pins : IsLoad(q) =>
       ValueIn(t.known, q) =
         IF /\ Settable(p, v) /\ Settable(q, v)
            /\ NetAt(design, q) = NetAt(design, p) /\ NetAt(design, p) # NoNet
         THEN v ELSE ValueIn(s.known, q)

(* setPinValue does so.                                                    *)
LEMMA SetDriver ==
  ASSUME Wired(design), NEW s \in Sims, NEW p \in Pins, IsDriver(p), NEW v \in SUBSET (0..1),
         NEW t, t = SetPinValue(s, p, v)
  PROVE  SetsDriver(s, p, v, t)
<1>1. ListsInv(design)
  BY DEF Wired
<1>2. SetsPin(s, p, v, t)
  BY <1>1, SetPinDoes
<1>3. ASSUME NEW q \in Pins
      PROVE  ValueIn(t.known, q) = IF Settable(p, v) /\ q \in Reached(p, v) THEN v ELSE ValueIn(s.known, q)
  BY <1>2 DEF SetsPin
<1>4. ASSUME NEW q \in Pins, IsDriver(q)
      PROVE  ValueIn(t.known, q) = IF q = p /\ Settable(p, v) THEN v ELSE ValueIn(s.known, q)
  <2>1. ~IsLoad(q)
    BY <1>4, DrivesOrLoads
  <2>2. q \in Reached(p, v) <=> Settable(q, v) /\ q = p
    BY <2>1, ReachedIs
  <2>3. QED
    BY <1>3, <2>2
<1>5. ASSUME NEW q \in Pins, IsLoad(q)
      PROVE  ValueIn(t.known, q) =
               IF /\ Settable(p, v) /\ Settable(q, v)
                  /\ NetAt(design, q) = NetAt(design, p) /\ NetAt(design, p) # NoNet
               THEN v ELSE ValueIn(s.known, q)
  <2>1. q # p
    BY <1>5, DrivesOrLoads
  <2>2. q \in Reached(p, v) <=>
          /\ Settable(q, v)
          /\ NetAt(design, q) = NetAt(design, p) /\ NetAt(design, p) # NoNet
    BY <1>5, <2>1, ReachedIs
  <2>3. QED
    BY <1>3, <2>2
<1>6. QED
  BY <1>4, <1>5 DEF SetsDriver

(* A load that gets a value is alone in it.                                *)
LEMMA SetLoad ==
  ASSUME Wired(design), NEW s \in Sims, NEW p \in Pins, IsLoad(p), NEW v \in SUBSET (0..1),
         NEW t, t = SetPinValue(s, p, v), NEW q \in Pins
  PROVE  ValueIn(t.known, q) = IF q = p /\ Settable(p, v) THEN v ELSE ValueIn(s.known, q)
<1>1. ListsInv(design)
  BY DEF Wired
<1>2. SetsPin(s, p, v, t)
  BY <1>1, SetPinDoes
<1>3. ValueIn(t.known, q) = IF Settable(p, v) /\ q \in Reached(p, v) THEN v ELSE ValueIn(s.known, q)
  BY <1>2 DEF SetsPin
<1>4. ~IsDriver(p)
  BY DrivesOrLoads
<1>5. q \in Reached(p, v) <=> Settable(q, v) /\ q = p
  BY <1>4, ReachedIs
<1>6. QED
  BY <1>3, <1>5

(* A driver keeps its loads with it.                                       *)
LEMMA SetDriverLoaded ==
  ASSUME Wired(design), NEW s, NEW p \in Pins, IsDriver(p), NEW v, NEW t, SetsDriver(s, p, v, t),
         NEW PL, NEW PD, Loaded(s, design, constraint, PL, PD)
  PROVE  Loaded(t, design, constraint, PL, PD)
<1> SUFFICES ASSUME NEW q \in Pins, IsLoad(q), ValueIn(constraint, q) = {}
             PROVE  /\ NetAt(design, q) = NoNet => ValueIn(t.known, q) = {}
                    /\ q \notin PL => Fits(t, design, q, ValueIn(t.known, q), PD)
  BY DEF Loaded
<1>1. /\ NetAt(design, q) = NoNet => ValueIn(s.known, q) = {}
      /\ q \notin PL => Fits(s, design, q, ValueIn(s.known, q), PD)
  BY DEF Loaded
<1>2. Settable(q, v)
  BY DEF Settable
<1>3. CASE Settable(p, v) /\ NetAt(design, q) = NetAt(design, p) /\ NetAt(design, p) # NoNet
  <2>1. ValueIn(t.known, q) = v /\ ValueIn(t.known, p) = v
    BY <1>2, <1>3 DEF SetsDriver
  <2>2. \A w \in 0..1 : NetAt(design, q) \notin ConstantNets[w]
    BY <1>3 DEF Wired, TiedNets
  <2>3. \A r \in Pins : IsDriver(r) /\ NetAt(design, r) = NetAt(design, q) => r = p
    BY <1>3 DEF Wired
  <2>4. QED
    BY <1>3, <2>1, <2>2, <2>3 DEF Fits
<1>4. CASE ~(Settable(p, v) /\ NetAt(design, q) = NetAt(design, p) /\ NetAt(design, p) # NoNet)
  <2>1. ValueIn(t.known, q) = ValueIn(s.known, q)
    BY <1>4 DEF SetsDriver
  <2>2. ASSUME NEW r \in Pins, IsDriver(r), NetAt(design, r) = NetAt(design, q), NetAt(design, q) # NoNet
        PROVE  ValueIn(t.known, r) = ValueIn(s.known, r)
    BY <1>4, <2>2 DEF SetsDriver
  <2>3. QED
    BY <1>1, <2>1, <2>2 DEF Fits
<1>5. QED
  BY <1>3, <1>4

(* A load that gets the value of its net is no longer pending.             *)
LEMMA SetLoadLoaded ==
  ASSUME Wired(design), NEW s, NEW p \in Pins, IsLoad(p), NEW v, NEW t,
         \A q \in Pins : ValueIn(t.known, q) = IF q = p /\ Settable(p, v) THEN v ELSE ValueIn(s.known, q),
         NEW PL, NEW PD, Loaded(s, design, constraint, PL, PD),
         ValueIn(constraint, p) # {} \/ Fits(s, design, p, v, PD)
  PROVE  Loaded(t, design, constraint, PL \ {p}, PD)
<1> SUFFICES ASSUME NEW q \in Pins, IsLoad(q), ValueIn(constraint, q) = {}
             PROVE  /\ NetAt(design, q) = NoNet => ValueIn(t.known, q) = {}
                    /\ q \notin PL \ {p} => Fits(t, design, q, ValueIn(t.known, q), PD)
  BY DEF Loaded
<1>1. /\ NetAt(design, q) = NoNet => ValueIn(s.known, q) = {}
      /\ q \notin PL => Fits(s, design, q, ValueIn(s.known, q), PD)
  BY DEF Loaded
<1>2. \A r \in Pins : IsDriver(r) => ValueIn(t.known, r) = ValueIn(s.known, r)
  BY DrivesOrLoads
<1>3. CASE q = p
  <2>1. Settable(p, v) /\ Fits(s, design, p, v, PD)
    BY <1>3 DEF Settable
  <2>2. ValueIn(t.known, p) = v
    BY <2>1
  <2>3. QED
    BY <1>2, <1>3, <2>1, <2>2 DEF Fits
<1>4. CASE q # p
  <2>1. ValueIn(t.known, q) = ValueIn(s.known, q)
    BY <1>4
  <2>2. QED
    BY <1>1, <1>2, <1>4, <2>1 DEF Fits
<1>5. QED
  BY <1>3, <1>4

(* Constraints stay.                                                       *)
LEMMA SetHeld ==
  ASSUME Wired(design), NEW s \in Sims, NEW p \in Pins, NEW v \in SUBSET (0..1),
         NEW t, t = SetPinValue(s, p, v), NEW X, Held(s, constraint, X)
  PROVE  /\ Held(t, constraint, X)
         /\ ValueIn(constraint, p) = v => Held(t, constraint, X \ {p})
<1>1. ListsInv(design)
  BY DEF Wired
<1>2. SetsPin(s, p, v, t)
  BY <1>1, SetPinDoes
<1>3. ASSUME NEW q \in Pins, ValueIn(constraint, q) # {}
      PROVE  /\ ValueIn(t.known, q) = ValueIn(constraint, q) \/ q \in X
             /\ ValueIn(constraint, p) = v /\ q = p => ValueIn(t.known, q) = ValueIn(constraint, q)
  <2>1. ValueIn(t.known, q) = IF Settable(p, v) /\ q \in Reached(p, v) THEN v ELSE ValueIn(s.known, q)
    BY <1>2 DEF SetsPin
  <2>2. ValueIn(s.known, q) = ValueIn(constraint, q) \/ q \in X
    BY <1>3 DEF Held
  <2>3. q \in Reached(p, v) => v = ValueIn(constraint, q)
    BY <1>3 DEF Reached, Settable
  <2>4. ValueIn(constraint, p) = v => Settable(p, v) /\ p \in Reached(p, v)
    BY DEF Reached, Settable
  <2>5. QED
    BY <2>1, <2>2, <2>3, <2>4
<1>4. QED
  BY <1>3 DEF Held

(* What holds but for some pins holds but for more: of loads, ...          *)
LEMMA LoadedMore ==
  ASSUME NEW s, NEW d, NEW con, NEW PL, NEW PD, Loaded(s, d, con, PL, PD),
         NEW PL2, NEW PD2, PL \subseteq PL2, PD \subseteq PD2
  PROVE  Loaded(s, d, con, PL2, PD2)
BY DEF Loaded, Fits

(* ... and of constraints.                                                 *)
LEMMA HeldMore ==
  ASSUME NEW s, NEW con, NEW X, Held(s, con, X), NEW Y, X \subseteq Y
  PROVE  Held(s, con, Y)
BY DEF Held

------------------------------------------------------------------------------
(* The design, and that ties are not constrained.                          *)
Sound ==
  /\ Wired(design) /\ Setting /\ RegularCells
  /\ \A p \in design.pins : TieOutput(p) => ValueIn(constraint, p) = {}

(* A pin with a constant function is the output of an instance linked as a *)
(* tie, and no other output is.                                            *)
LEMMA TiesAre ==
  ASSUME Sound, NEW p \in Pins
  PROVE  /\ IsConstFunc(cell, p) => TieOutput(p) /\ Tie(cell[InstanceOf[p]]) /\ IsDriver(p)
         /\ InstanceOf[p] \in Leaves /\ p \in Outputs /\ ~IsConstFunc(cell, p) => ~Tie(cell[InstanceOf[p]])
         /\ InstanceOf[p] \in Leaves => cell[InstanceOf[p]] \in CellsFor(InstanceOf[p])
<1>1. InstanceOf[p] \in Leaves => cell[InstanceOf[p]] \in CellsFor(InstanceOf[p])
  BY DEF Sound, Setting
<1>2. ASSUME IsConstFunc(cell, p) PROVE TieOutput(p) /\ Tie(cell[InstanceOf[p]]) /\ IsDriver(p)
  <2>1. InstanceOf[p] \in Leaves /\ p \in Outputs /\ Tie(cell[InstanceOf[p]])
    BY <1>2 DEF IsConstFunc, Tie
  <2>2. CellsFor(InstanceOf[p]) = {cell[InstanceOf[p]]}
    BY <1>1, <2>1 DEF Sound, RegularCells
  <2>3. LinkedCell[InstanceOf[p]] = cell[InstanceOf[p]]
    BY <2>2 DEF CellsFor
  <2>4. QED
    BY <2>1, <2>3 DEF TieOutput, IsDriver
<1>3. QED
  BY <1>1, <1>2 DEF IsConstFunc, Tie

(* Outputs and ports that have no value yet.                               *)
Quiet(s) ==
  /\ PortsFree(s, constraint)
  /\ \A p \in Pins :
       InstanceOf[p] \in Leaves /\ p \in Outputs /\ ValueIn(constraint, p) = {} /\ ~IsConstFunc(cell, p) =>
         ValueIn(s.known, p) = {}

(* They stay so if nothing but constraints and ties is set.                *)
LEMMA QuietKept ==
  ASSUME NEW s, Quiet(s), NEW t,
         \A q \in Pins : IsDriver(q) /\ ValueIn(constraint, q) = {} /\ ~IsConstFunc(cell, q) =>
                           ValueIn(t.known, q) = ValueIn(s.known, q)
  PROVE  Quiet(t)
<1>1. ASSUME NEW p \in Pins, InstanceOf[p] = Top, p \notin Outputs, ValueIn(constraint, p) = {}
      PROVE  ValueIn(t.known, p) = {}
  <2>1. IsDriver(p) /\ ~IsConstFunc(cell, p)
    BY <1>1, NetlistAssumption DEF IsDriver, IsConstFunc
  <2>2. ValueIn(s.known, p) = {}
    BY <1>1 DEF Quiet, PortsFree
  <2>3. QED
    BY <1>1, <2>1, <2>2
<1>2. ASSUME NEW p \in Pins, InstanceOf[p] \in Leaves, p \in Outputs,
             ValueIn(constraint, p) = {}, ~IsConstFunc(cell, p)
      PROVE  ValueIn(t.known, p) = {}
  BY <1>2 DEF Quiet, IsDriver
<1>3. QED
  BY <1>1, <1>2 DEF Quiet, PortsFree

(* The pins of the pairs that are left.                                    *)
Left(P, T) == {p \in Pins : \E v \in 0..1 : <<p, v>> \in P \ T}

(* One step of setting pairs.                                              *)
LEMMA LeftOver ==
  ASSUME NEW P \in SUBSET (Pins \X (0..1)), NEW T \in SUBSET P, NEW x \in P, x \in T
  PROVE  /\ x[1] \in Pins /\ x[2] \in 0..1 /\ x = <<x[1], x[2]>>
         /\ Left(P, T \ {x}) \ {x[1]} \subseteq Left(P, T)
BY DEF Left

(* None is left at the end.                                                *)
LEMMA LeftNone ==
  ASSUME NEW P
  PROVE  Left(P, P) = {}
BY DEF Left

------------------------------------------------------------------------------
(* From nothing: the loads of constant nets, ...                           *)
LEMMA SeedNets ==
  ASSUME Sound, NEW s \in Sims, \A p \in Pins : ValueIn(s.known, p) = {},
         NEW t, t = SetAll(s, ConstantPins(design))
  PROVE  /\ t \in Sims /\ Quiet(t)
         /\ Loaded(t, design, constraint, {}, {})
<1> DEFINE P == ConstantPins(design)
           W == [T \in SUBSET P |-> {u \in Sims : Quiet(u) /\ Loaded(u, design, constraint, Left(P, T), {})}]
<1>1. P \in SUBSET (design.pins \X (0..1)) /\ design.pins \subseteq Pins /\ ListsInv(design) /\ Wired(design)
      /\ design.constants = ConstantNets
  BY ConstantPinsTyped DEF Sound, Setting, ListsInv, Designs
<1>2. \A n : \A v \in 0..1 : n \in ConstantNets[v] => n \in Nets
  BY NetlistAssumption
<1>3. \A p \in Pins, v \in 0..1 : <<p, v>> \in P <=> NetAt(design, p) \in ConstantNets[v]
  <2>1. \A v \in 0..1 : \A n \in ConstantNets[v] : ConnectedPins(design, n) = {p \in Pins : NetAt(design, p) = n}
    BY <1>1, <1>2, PinsOnNet
  <2>2. \A p, v : <<p, v>> \in P <=> v \in 0..1 /\ \E n \in ConstantNets[v] : p \in ConnectedPins(design, n)
    BY <1>1 DEF ConstantPins
  <2> HIDE DEF P, W
  <2>3. ASSUME NEW p \in Pins, NEW v \in 0..1
        PROVE  <<p, v>> \in P <=> NetAt(design, p) \in ConstantNets[v]
    <3>1. <<p, v>> \in P <=> \E n \in ConstantNets[v] : p \in ConnectedPins(design, n)
      BY <2>2
    <3>2. \A n \in ConstantNets[v] : p \in ConnectedPins(design, n) <=> NetAt(design, p) = n
      BY <2>1
    <3>3. QED
      BY <3>1, <3>2
  <2>4. QED
    BY <2>3
<1> HIDE DEF P
<1>4. s \in W[{}]
  <2>1. Quiet(s)
    <3> HIDE DEF W
    <3>1. QED
      BY DEF Quiet, PortsFree
  <2>2. ASSUME NEW p \in Pins, p \notin Left(P, {}) PROVE Fits(s, design, p, {}, {})
    <3>1. \A w \in 0..1 : NetAt(design, p) \notin ConstantNets[w]
      BY <1>3, <2>2 DEF Left
    <3>2. QED
      BY <3>1 DEF Fits
  <2>3. Loaded(s, design, constraint, Left(P, {}), {})
    BY <2>2 DEF Loaded
  <2>4. QED
    BY <2>1, <2>3
<1>5. ASSUME NEW T \in SUBSET P, NEW x \in P, NEW u \in Sims, x \in T, u \in W[T \ {x}]
      PROVE  SetPinValue(u, x[1], {x[2]}) \in W[T]
  <2> DEFINE p == x[1]
             v == x[2]
             w == SetPinValue(u, p, {v})
  <2>1. P \in SUBSET (Pins \X (0..1))
    BY <1>1
  <2>2. p \in Pins /\ v \in 0..1 /\ x = <<p, v>> /\ Left(P, T \ {x}) \ {p} \subseteq Left(P, T)
    BY <1>5, <2>1, LeftOver
  <2>3. NetAt(design, p) \in ConstantNets[v]
    BY <1>3, <2>2
  <2>4. Quiet(u) /\ Loaded(u, design, constraint, Left(P, T \ {x}), {})
    BY <1>5
  <2> HIDE DEF W, p, v
  <2>5. NetAt(design, p) \in TiedNets
    BY <2>2, <2>3 DEF TiedNets
  <2>6. ~IsDriver(p) /\ IsLoad(p)
    BY <1>1, <2>2, <2>5, DrivesOrLoads DEF Wired
  <2>7. {v} \in SUBSET (0..1)
    BY <2>2
  <2>8. w \in Sims
    BY <1>1, <2>2, <2>7, SetPinDoes DEF SetsPin
  <2>9. \A q \in Pins : ValueIn(w.known, q) = IF q = p /\ Settable(p, {v}) THEN {v} ELSE ValueIn(u.known, q)
    BY <1>1, <2>2, <2>6, <2>7, SetLoad
  <2> HIDE DEF w
  <2>10. Fits(u, design, p, {v}, {})
    <3>1. NoNet \notin TiedNets
      BY NoNetApart, NetlistAssumption DEF TiedNets
    <3>2. \A k \in 0..1 : NetAt(design, p) \in ConstantNets[k] => k = v
      BY <2>2, <2>3, SimAssumption
    <3>3. \A q \in Pins : IsDriver(q) => NetAt(design, q) # NetAt(design, p)
      BY <1>1, <2>5 DEF Wired
    <3>4. QED
      BY <2>5, <3>1, <3>2, <3>3 DEF Fits
  <2>11. Loaded(w, design, constraint, Left(P, T \ {x}) \ {p}, {})
    BY <1>1, <2>2, <2>4, <2>6, <2>9, <2>10, SetLoadLoaded
  <2>12. Loaded(w, design, constraint, Left(P, T), {})
    BY <2>2, <2>11, LoadedMore
  <2>13. Quiet(w)
    BY <2>4, <2>6, <2>9, QuietKept
  <2>14. w \in W[T]
    BY <2>8, <2>12, <2>13 DEF W
  <2>15. QED
    BY <2>14 DEF w, p, v
<1>6. SetAll(s, P) \in W[P]
  <2> HIDE DEF W
  <2>1. P \in SUBSET (Pins \X (0..1))
    BY <1>1
  <2>2. QED
    BY <1>1, <1>4, <1>5, <2>1, SetAllStays
<1>7. QED
  BY <1>6, LeftNone DEF P

(* ... the pins that are constrained, ...                                  *)
LEMMA SeedConstraints ==
  ASSUME Sound, NEW s \in Sims, Quiet(s), Loaded(s, design, constraint, {}, {}),
         NEW t, t = SetAll(s, constraint)
  PROVE  /\ t \in Sims /\ Quiet(t)
         /\ Loaded(t, design, constraint, {}, {}) /\ Held(t, constraint, {})
<1> DEFINE P == constraint
           W == [T \in SUBSET P |-> {u \in Sims : /\ Quiet(u) /\ Loaded(u, design, constraint, {}, {})
                                                  /\ Held(u, constraint, Left(P, T))}]
<1>1. P \in SUBSET (Pins \X (0..1)) /\ ListsInv(design) /\ Wired(design)
  BY DEF Sound, Setting, ListsInv, Designs
<1>2. \A p \in Pins, v \in 0..1 : <<p, v>> \in P => ValueIn(constraint, p) = {v}
  <2>1. ASSUME NEW p \in Pins, NEW v \in 0..1, <<p, v>> \in P PROVE ValueIn(constraint, p) = {v}
    <3>1. v \in ValueIn(constraint, p)
      BY <1>1, <2>1, ValueMembers
    <3>2. ValueIn(constraint, p) \in Values
      BY DEF Sound, Setting
    <3>3. QED
      BY <3>1, <3>2 DEF Values
  <2>2. QED
    BY <2>1
<1>3. s \in W[{}]
  <2>1. ASSUME NEW p \in Pins, ValueIn(constraint, p) # {} PROVE p \in Left(P, {})
    <3>1. PICK v : v \in ValueIn(constraint, p)
      BY <2>1
    <3>2. <<p, v>> \in P
      BY <1>1, <3>1, ValueMembers
    <3>3. QED
      BY <1>1, <3>2 DEF Left
  <2>2. Held(s, constraint, Left(P, {}))
    BY <2>1 DEF Held
  <2>3. QED
    BY <2>2
<1>4. ASSUME NEW T \in SUBSET P, NEW x \in P, NEW u \in Sims, x \in T, u \in W[T \ {x}]
      PROVE  SetPinValue(u, x[1], {x[2]}) \in W[T]
  <2> DEFINE p == x[1]
             v == x[2]
             w == SetPinValue(u, p, {v})
  <2>1. p \in Pins /\ v \in 0..1 /\ x = <<p, v>> /\ Left(P, T \ {x}) \ {p} \subseteq Left(P, T)
    BY <1>1, <1>4, LeftOver
  <2>2. ValueIn(constraint, p) = {v}
    BY <1>2, <2>1
  <2>3. Quiet(u) /\ Loaded(u, design, constraint, {}, {}) /\ Held(u, constraint, Left(P, T \ {x}))
    BY <1>4
  <2> HIDE DEF W, p, v
  <2>4. {v} \in SUBSET (0..1)
    BY <2>1
  <2>5. w \in Sims
    BY <1>1, <2>1, <2>4, SetPinDoes DEF SetsPin
  <2>6. Held(w, constraint, Left(P, T \ {x}) \ {p})
    BY <1>1, <2>1, <2>2, <2>3, <2>4, SetHeld
  <2>7. Held(w, constraint, Left(P, T))
    BY <2>1, <2>6, HeldMore
  <2>8. Loaded(w, design, constraint, {}, {}) /\ Quiet(w)
    <3>1. CASE IsDriver(p)
      <4>1. SetsDriver(u, p, {v}, w)
        BY <1>1, <2>1, <2>4, <3>1, SetDriver
      <4> HIDE DEF w
      <4>2. Loaded(w, design, constraint, {}, {})
        BY <1>1, <2>1, <2>3, <3>1, <4>1, SetDriverLoaded
      <4>3. \A q \in Pins : IsDriver(q) /\ ValueIn(constraint, q) = {} =>
              ValueIn(w.known, q) = ValueIn(u.known, q)
        BY <2>2, <4>1 DEF SetsDriver
      <4>4. Quiet(w)
        BY <2>3, <4>3, QuietKept
      <4>5. QED
        BY <4>2, <4>4
    <3>2. CASE ~IsDriver(p)
      <4>1. IsLoad(p)
        BY <2>1, <3>2, DrivesOrLoads
      <4>2. \A q \in Pins : ValueIn(w.known, q) = IF q = p /\ Settable(p, {v}) THEN {v} ELSE ValueIn(u.known, q)
        BY <1>1, <2>1, <2>4, <4>1, SetLoad
      <4> HIDE DEF w
      <4>3. Loaded(w, design, constraint, {} \ {p}, {})
        BY <1>1, <2>1, <2>2, <2>3, <4>1, <4>2, SetLoadLoaded
      <4>4. Quiet(w)
        BY <2>3, <3>2, <4>2, QuietKept
      <4>5. QED
        BY <4>3, <4>4, LoadedMore
    <3>3. QED
      BY <3>1, <3>2
  <2> HIDE DEF w
  <2>9. w \in W[T]
    BY <2>5, <2>7, <2>8 DEF W
  <2>10. QED
    BY <2>9 DEF w, p, v
<1>5. SetAll(s, P) \in W[P]
  <2> HIDE DEF W
  <2>1. QED
    BY <1>1, <1>3, <1>4, SetAllStays
<1>6. QED
  BY <1>5, LeftNone

(* ... and the ties.                                                       *)
TiePins(s) == UNION {{p} \X ConstFuncValue(p) : p \in s.constFuncPins}

(* A tie evaluates to 0 or to 1 and is not constrained.                    *)
LEMMA TieValue ==
  ASSUME Sound, NEW p \in design.pins, IsConstFunc(cell, p)
  PROVE  /\ ConstFuncValue(p) = EvalOf(cell[InstanceOf[p]], {}, InstanceOf[p])
         /\ ConstFuncValue(p) \in {{0}, {1}}
         /\ ValueIn(constraint, p) = {} /\ IsDriver(p)
<1>1. p \in Pins /\ InstanceOf[p] \in design.insts /\ ListsInv(design)
  BY DEF Sound, Setting, ListsInv, Designs, Whole
<1>2. TieOutput(p) /\ Tie(cell[InstanceOf[p]]) /\ IsDriver(p)
  BY <1>1, TiesAre
<1>3. InstanceOf[p] \in Leaves
  BY <1>2 DEF TieOutput
<1>4. ConstFuncValue(p) = EvalOf(cell[InstanceOf[p]], {}, InstanceOf[p])
  BY <1>1, EvalIs DEF ConstFuncValue
<1>5. cell[InstanceOf[p]] \in CellsFor(InstanceOf[p])
  BY <1>1, <1>3, TiesAre
<1>6. EvalOf(cell[InstanceOf[p]], {}, InstanceOf[p]) # {}
  BY <1>2, <1>3, <1>5, EvalTie DEF Sound
<1>7. EvalOf(cell[InstanceOf[p]], {}, InstanceOf[p]) \in Values
  BY <1>3, <1>5, EvalOfTyped
<1>8. ValueIn(constraint, p) = {}
  BY <1>2 DEF Sound
<1>9. QED
  BY <1>2, <1>4, <1>6, <1>7, <1>8 DEF Values

LEMMA SeedTies ==
  ASSUME Sound, NEW s \in Sims, Quiet(s), Loaded(s, design, constraint, {}, {}), Held(s, constraint, {}),
         s.constFuncPins = {p \in design.pins : IsConstFunc(cell, p)},
         NEW t, t = SetAll(s, TiePins(s))
  PROVE  /\ t \in Sims /\ Quiet(t)
         /\ Loaded(t, design, constraint, {}, {}) /\ Held(t, constraint, {})
         /\ TiesHeld(t, design, cell, {})
<1> DEFINE P == TiePins(s)
           W == [T \in SUBSET P |-> {u \in Sims : /\ Quiet(u) /\ Loaded(u, design, constraint, {}, {})
                                                  /\ Held(u, constraint, {})
                                                  /\ TiesHeld(u, design, cell, Left(P, T))}]
<1>1. ListsInv(design) /\ Wired(design) /\ design.pins \subseteq Pins
  BY DEF Sound, Setting, ListsInv, Designs
<1>2. \A p, v : <<p, v>> \in P <=> p \in design.pins /\ IsConstFunc(cell, p) /\ v \in ConstFuncValue(p)
  <2> HIDE DEF W
  <2>1. QED
    BY DEF TiePins
<1>3. P \in SUBSET (Pins \X (0..1))
  <2>1. \A p \in s.constFuncPins : ConstFuncValue(p) \in SUBSET (0..1) /\ p \in Pins
    BY <1>1, TieValue
  <2>2. QED
    BY <2>1 DEF TiePins
<1> HIDE DEF P
<1>4. s \in W[{}]
  <2>1. ASSUME NEW p \in design.pins, IsConstFunc(cell, p) PROVE p \in Left(P, {})
    <3>1. PICK v \in 0..1 : v \in ConstFuncValue(p)
      BY <2>1, TieValue
    <3>2. <<p, v>> \in P
      BY <1>2, <2>1, <3>1
    <3>3. QED
      BY <1>1, <3>2 DEF Left
  <2>2. TiesHeld(s, design, cell, Left(P, {}))
    BY <2>1 DEF TiesHeld
  <2>3. QED
    BY <2>2
<1>5. ASSUME NEW T \in SUBSET P, NEW x \in P, NEW u \in Sims, x \in T, u \in W[T \ {x}]
      PROVE  SetPinValue(u, x[1], {x[2]}) \in W[T]
  <2> DEFINE p == x[1]
             v == x[2]
             w == SetPinValue(u, p, {v})
  <2>1. p \in Pins /\ v \in 0..1 /\ x = <<p, v>> /\ Left(P, T \ {x}) \ {p} \subseteq Left(P, T)
    BY <1>3, <1>5, LeftOver
  <2>2. p \in design.pins /\ IsConstFunc(cell, p) /\ v \in ConstFuncValue(p)
    BY <1>2, <2>1
  <2>3. /\ Quiet(u) /\ Loaded(u, design, constraint, {}, {}) /\ Held(u, constraint, {})
        /\ TiesHeld(u, design, cell, Left(P, T \ {x}))
    BY <1>5
  <2> HIDE DEF W, p, v
  <2>4. /\ ConstFuncValue(p) = EvalOf(cell[InstanceOf[p]], {}, InstanceOf[p])
        /\ ConstFuncValue(p) \in {{0}, {1}}
        /\ ValueIn(constraint, p) = {} /\ IsDriver(p)
    BY <2>2, TieValue
  <2>5. {v} = EvalOf(cell[InstanceOf[p]], {}, InstanceOf[p]) /\ {v} \in SUBSET (0..1)
    BY <2>1, <2>2, <2>4
  <2>6. w \in Sims
    BY <1>1, <2>1, <2>5, SetPinDoes DEF SetsPin
  <2>7. Held(w, constraint, {})
    BY <1>1, <2>1, <2>3, <2>5, SetHeld
  <2>8. SetsDriver(u, p, {v}, w)
    BY <1>1, <2>1, <2>4, <2>5, SetDriver
  <2> HIDE DEF w
  <2>9. Loaded(w, design, constraint, {}, {})
    BY <1>1, <2>1, <2>3, <2>4, <2>8, SetDriverLoaded
  <2>10. \A q \in Pins : IsDriver(q) /\ q # p => ValueIn(w.known, q) = ValueIn(u.known, q)
    BY <2>8 DEF SetsDriver
  <2>11. Quiet(w)
    BY <2>2, <2>3, <2>10, QuietKept
  <2>12. ValueIn(w.known, p) = {v}
    BY <2>1, <2>4, <2>8 DEF SetsDriver, Settable
  <2>13. TiesHeld(w, design, cell, Left(P, T))
    <3> SUFFICES ASSUME NEW q \in design.pins, IsConstFunc(cell, q)
                 PROVE  \/ ValueIn(w.known, q) = EvalOf(cell[InstanceOf[q]], {}, InstanceOf[q])
                        \/ q \in Left(P, T)
      BY DEF TiesHeld
    <3>1. CASE q = p
      BY <2>5, <2>12, <3>1
    <3>2. CASE q # p
      <4>1. IsDriver(q) /\ q \in Pins
        BY <1>1, TieValue
      <4>2. ValueIn(w.known, q) = ValueIn(u.known, q)
        BY <2>10, <3>2, <4>1
      <4>3. \/ ValueIn(u.known, q) = EvalOf(cell[InstanceOf[q]], {}, InstanceOf[q])
            \/ q \in Left(P, T \ {x})
        BY <2>3 DEF TiesHeld
      <4>4. QED
        BY <2>1, <3>2, <4>2, <4>3
    <3>3. QED
      BY <3>1, <3>2
  <2>14. w \in W[T]
    BY <2>6, <2>7, <2>9, <2>11, <2>13 DEF W
  <2>15. QED
    BY <2>14 DEF w, p, v
<1>6. SetAll(s, P) \in W[P]
  <2> HIDE DEF W
  <2>1. QED
    BY <1>1, <1>3, <1>4, <1>5, SetAllStays
<1>7. QED
  BY <1>6, LeftNone DEF P

------------------------------------------------------------------------------
(* All that holds of the values, but for what is pending.                  *)
Claims(s, d, con, cells, PL, PD, PI) ==
  /\ Held(s, con, {}) /\ Loaded(s, d, con, PL, PD)
  /\ Evaluated(s, d, con, cells, PI) /\ TiesHeld(s, d, cells, {}) /\ PortsFree(s, con)

(* The three calls of SetAll, one after the other.                         *)
LEMMA SeedConstantsIs ==
  ASSUME NEW s \in Sims, Setting
  PROVE  \E a \in Sims, b \in Sims :
           /\ a = SetAll(s, ConstantPins(design)) /\ b = SetAll(a, constraint)
           /\ SeedConstants(s) = SetAll(b, TiePins(b)) /\ b.constFuncPins = s.constFuncPins
<1> DEFINE a == SetAll(s, ConstantPins(design))
           b == SetAll(a, constraint)
<1>1. ListsInv(design) /\ ConstantPins(design) \in SUBSET (design.pins \X (0..1))
      /\ constraint \in SUBSET (design.pins \X (0..1))
  BY ConstantPinsTyped DEF Setting
<1>2. Evolves(s, a)
  BY <1>1, SetAllEvolves
<1>3. a \in Sims
  BY <1>2 DEF Evolves
<1>4. SeedConstants(s) = SetAll(b, TiePins(b))
  BY DEF SeedConstants, TiePins
<1> HIDE DEF a
<1>5. Evolves(a, b)
  BY <1>1, <1>3, SetAllEvolves
<1>6. b \in Sims /\ b.constFuncPins = s.constFuncPins
  BY <1>2, <1>5 DEF Evolves, SameButValues
<1> HIDE DEF b
<1>7. a = SetAll(s, ConstantPins(design)) /\ b = SetAll(a, constraint)
  BY DEF a, b
<1>8. QED
  BY <1>3, <1>4, <1>6, <1>7

(* What a propagation from nothing starts with.                            *)
LEMMA SeedConstantsClaims ==
  ASSUME Sound, NEW s \in Sims, \A p \in Pins : ValueIn(s.known, p) = {},
         s.constFuncPins = {p \in design.pins : IsConstFunc(cell, p)},
         NEW t, t = SeedConstants(s), Notes(s, t)
  PROVE  Claims(t, design, constraint, cell, {}, {}, t.queue)
<1>1. PICK a \in Sims, b \in Sims :
        /\ a = SetAll(s, ConstantPins(design)) /\ b = SetAll(a, constraint)
        /\ t = SetAll(b, TiePins(b)) /\ b.constFuncPins = s.constFuncPins
  BY SeedConstantsIs DEF Sound
<1>2. Quiet(a) /\ Loaded(a, design, constraint, {}, {})
  BY <1>1, SeedNets
<1>3. Quiet(b) /\ Loaded(b, design, constraint, {}, {}) /\ Held(b, constraint, {})
  BY <1>1, <1>2, SeedConstraints
<1>4. /\ Quiet(t) /\ Loaded(t, design, constraint, {}, {}) /\ Held(t, constraint, {})
      /\ TiesHeld(t, design, cell, {})
  BY <1>1, <1>3, SeedTies
<1>5. ASSUME NEW p \in design.pins, InstanceOf[p] \in Leaves, p \in Outputs, ValueIn(constraint, p) = {},
             InstanceOf[p] \notin t.queue
      PROVE  ValueIn(t.known, p) = EvalOf(cell[InstanceOf[p]], t.known, InstanceOf[p])
  <2>1. p \in Pins
    BY DEF Sound, Setting, ListsInv, Designs
  <2>2. cell[InstanceOf[p]] \in CellsFor(InstanceOf[p]) /\ RegularCells
    BY <1>5, <2>1, TiesAre DEF Sound
  <2>3. CASE IsConstFunc(cell, p)
    <3>1. ValueIn(t.known, p) = EvalOf(cell[InstanceOf[p]], {}, InstanceOf[p])
      BY <1>4, <2>3 DEF TiesHeld
    <3>2. Tie(cell[InstanceOf[p]])
      BY <2>1, <2>3, TiesAre
    <3>3. QED
      BY <1>5, <2>2, <3>1, <3>2, EvalTie
  <2>4. CASE ~IsConstFunc(cell, p)
    <3>1. ValueIn(t.known, p) = {}
      BY <1>4, <1>5, <2>1, <2>4 DEF Quiet
    <3>2. ~Tie(cell[InstanceOf[p]])
      BY <1>5, <2>1, <2>4, TiesAre
    <3>3. ASSUME NEW q \in PinsAt(InstanceOf[p]) PROVE ValueIn(t.known, q) = {}
      <4>1. q \in Pins /\ q \notin Outputs /\ InstanceOf[q] = InstanceOf[p]
        BY DEF PinsAt
      <4>2. QED
        BY <1>5, <4>1 DEF Notes
    <3>4. QED
      BY <1>5, <2>2, <3>1, <3>2, <3>3, EvalUnknown
  <2>5. QED
    BY <2>3, <2>4
<1>6. Evaluated(t, design, constraint, cell, t.queue)
  BY <1>5 DEF Evaluated
<1>7. QED
  BY <1>4, <1>6 DEF Claims, Quiet

------------------------------------------------------------------------------
(* The drivers that are looked up are those there are.                     *)
LEMMA LookedUpDrivers ==
  ASSUME Wired(design), NEW s, s.invalidLoads \subseteq design.pins, NEW d, d = LookedUp(s)
  PROVE  /\ Wired(d) /\ SameNets(design, d) /\ \A p \in Pins : NetAt(d, p) = NetAt(design, p)
         /\ \A n \in NetsLookedUp(s) : d.drvrs[n] = {p \in Pins : IsDriver(p) /\ NetAt(design, p) = n}
<1> DEFINE S == NetsLookedUp(s)
           W == [T \in SUBSET S |-> {t \in Netlists : SameNets(design, t) /\ DriversInv(t) /\ T \subseteq DOMAIN t.drvrs}]
<1>1. ListsInv(design) /\ DriversInv(design) /\ S \subseteq design.nets
  BY LookedUpIn DEF Wired
<1>2. design \in W[{}]
  BY <1>1 DEF SameNets, Netlists, ListsInv
<1>3. ASSUME NEW T \in SUBSET S, NEW x \in S, NEW t \in Netlists, x \in T, t \in W[T \ {x}]
      PROVE  WithDrivers(t, x) \in W[T]
  <2>1. SameNets(design, t) /\ DriversInv(t) /\ T \ {x} \subseteq DOMAIN t.drvrs
    BY <1>3
  <2> HIDE DEF W, S
  <2>2. ListsInv(t) /\ t \in Designs /\ x \in t.nets
    BY <1>1, <2>1 DEF Netlists, SameNets
  <2> DEFINE e == WithDrivers(t, x)
  <2>3. SameNets(t, e) /\ ListsInv(e) /\ DriversInv(e)
    BY <2>1, <2>2, WithDriversSame, WithDriversLists, WithDriversCurrent
  <2>4. DOMAIN e.drvrs = DOMAIN t.drvrs \cup {x}
    BY <2>2 DEF WithDrivers, Designs
  <2> HIDE DEF e
  <2>5. SameNets(design, e)
    BY <2>1, <2>3 DEF SameNets
  <2>6. e \in Netlists
    BY <2>3, <2>5 DEF Netlists, SameNets, ListsInv
  <2>7. T \subseteq DOMAIN e.drvrs
    BY <2>1, <2>4
  <2>8. e \in W[T]
    BY <2>3, <2>5, <2>6, <2>7 DEF W
  <2>9. QED
    BY <2>8 DEF e
<1>4. d \in W[S]
  <2> HIDE DEF W
  <2>1. S = NetsLookedUp(s)
    OBVIOUS
  <2> HIDE DEF S
  <2>2. QED
    BY <1>1, <1>2, <1>3, <2>1, LookUpsStay
<1>5. ListsInv(d) /\ SameNets(design, d) /\ DriversInv(d) /\ S \subseteq DOMAIN d.drvrs
  BY <1>4 DEF Netlists
<1> HIDE DEF W
<1>6. Wired(d) /\ \A p \in Pins : NetAt(d, p) = NetAt(design, p)
  BY <1>5, LookedUpWired
<1>7. ASSUME NEW n \in S PROVE d.drvrs[n] = {p \in Pins : IsDriver(p) /\ NetAt(design, p) = n}
  <2>1. n \in Nets
    BY <1>1 DEF ListsInv, Designs
  <2>2. d.drvrs[n] = NetDrivers(d, n)
    BY <1>5, <1>7 DEF DriversInv, Current
  <2>3. NetDrivers(d, n) = {p \in Pins : IsDriver(p) /\ NetAt(d, p) = n}
    BY <1>6, <2>1, DriversOnNet
  <2>4. QED
    BY <1>6, <2>2, <2>3
<1>8. QED
  BY <1>5, <1>6, <1>7

------------------------------------------------------------------------------
(* What edits have left: the loads, ...                                    *)
DriversKept(s, t) == \A p \in Pins : IsDriver(p) => ValueIn(t.known, p) = ValueIn(s.known, p)

(* A load whose value fits its net is no longer pending.                   *)
LEMMA SettledLoad ==
  ASSUME NEW s, NEW d, NEW PL, NEW PD, Loaded(s, d, constraint, PL, PD), NEW p,
         ValueIn(constraint, p) # {} \/ Fits(s, d, p, ValueIn(s.known, p), PD)
  PROVE  Loaded(s, d, constraint, PL \ {p}, PD)
BY DEF Loaded

(* What setting a load that is pending does.                               *)
SettlesLoad(s, p, t) ==
  /\ t \in Sims /\ Held(t, constraint, {}) /\ DriversKept(s, t)
  /\ \A PL, PD : Loaded(s, design, constraint, PL, PD) => Loaded(t, design, constraint, PL \ {p}, PD)

(* setPinValue of a load, with the value of its net or against a           *)
(* constraint, does this.                                                  *)
LEMMA SettleLoad ==
  ASSUME Sound, NEW s \in Sims, Held(s, constraint, {}), NEW p \in Pins, IsLoad(p), NEW v \in SUBSET (0..1),
         ValueIn(constraint, p) # {} \/ \A PD : Fits(s, design, p, v, PD),
         NEW t, t = SetPinValue(s, p, v)
  PROVE  SettlesLoad(s, p, t)
<1>1. Wired(design) /\ ListsInv(design)
  BY DEF Sound, Wired
<1>2. t \in Sims
  BY <1>1, SetPinDoes DEF SetsPin
<1>3. Held(t, constraint, {})
  BY <1>1, SetHeld
<1>4. \A q \in Pins : ValueIn(t.known, q) = IF q = p /\ Settable(p, v) THEN v ELSE ValueIn(s.known, q)
  BY <1>1, SetLoad
<1>5. DriversKept(s, t)
  BY <1>4, DrivesOrLoads DEF DriversKept
<1>6. ASSUME NEW PL, NEW PD, Loaded(s, design, constraint, PL, PD)
      PROVE  Loaded(t, design, constraint, PL \ {p}, PD)
  BY <1>1, <1>4, <1>6, SetLoadLoaded
<1>7. QED
  BY <1>2, <1>3, <1>5, <1>6 DEF SettlesLoad

(* So does each step of propagating to the invalid loads.                  *)
LEMMA SettleInvalidLoad ==
  ASSUME Sound, NEW d, SameNets(design, d), NEW p \in Pins, IsLoad(p), InstanceOf[p] # Top,
         LET n == design.netOf[p]
         IN  n # NoNet /\ n \notin TiedNets => d.drvrs[n] = {q \in Pins : IsDriver(q) /\ NetAt(design, q) = n},
         NEW s \in Sims, Held(s, constraint, {}), NEW PL, NEW PD, Loaded(s, design, constraint, PL, PD),
         NEW t, t = SetInvalidLoad(d, p, s)
  PROVE  /\ t \in Sims /\ Held(t, constraint, {}) /\ DriversKept(s, t)
         /\ Loaded(t, design, constraint, PL \ {p}, PD)
<1> DEFINE n == design.netOf[p]
<1>1. Wired(design) /\ NetAt(design, p) = n /\ d.netOf[p] = n /\ d.constants = ConstantNets
  BY NetAtIs DEF Sound, Setting, SameNets
<1>2. DriversKept(s, s) /\ NoNet \notin TiedNets /\ ConstantNets[0] \cap ConstantNets[1] = {}
  BY NoNetApart, NetlistAssumption, SimAssumption DEF TiedNets, DriversKept
<1>3. n \in TiedNets <=> \E w \in 0..1 : n \in ConstantNets[w]
  BY DEF TiedNets
<1>4. n \in TiedNets => \A q \in Pins : IsDriver(q) => NetAt(design, q) # n
  BY <1>1 DEF Wired
<1> HIDE DEF n
<1>5. CASE n = NoNet
  <2>1. t = s
    BY <1>1, <1>5 DEF SetInvalidLoad
  <2>2. ValueIn(constraint, p) = {} => ValueIn(s.known, p) = {}
    BY <1>1, <1>5 DEF Loaded
  <2>3. Fits(s, design, p, {}, PD)
    BY <1>1, <1>2, <1>3, <1>5 DEF Fits
  <2>4. ValueIn(constraint, p) # {} \/ Fits(s, design, p, ValueIn(s.known, p), PD)
    BY <2>2, <2>3
  <2>5. Loaded(s, design, constraint, PL \ {p}, PD)
    BY <2>4, SettledLoad
  <2>6. QED
    BY <1>2, <2>1, <2>5
<1>6. CASE n \in TiedNets
  <2> DEFINE V == {w \in 0..1 : n \in ConstantNets[w]}
  <2>1. t = SetPinValue(s, p, V)
    BY <1>1, <1>2, <1>3, <1>6 DEF SetInvalidLoad
  <2>2. \A w \in 0..1 : n \in ConstantNets[w] => V = {w}
    BY <1>2
  <2>3. V \in SUBSET (0..1)
    OBVIOUS
  <2> HIDE DEF V
  <2>4. \A X : Fits(s, design, p, V, X)
    BY <1>1, <1>2, <1>4, <1>6, <2>2 DEF Fits
  <2>5. SettlesLoad(s, p, t)
    BY <2>1, <2>3, <2>4, SettleLoad
  <2>6. QED
    BY <2>5 DEF SettlesLoad
<1>7. CASE n # NoNet /\ n \notin TiedNets
  <2>1. d.drvrs[n] = {q \in Pins : IsDriver(q) /\ NetAt(design, q) = n}
    BY <1>7 DEF n
  <2>2. t = IF d.drvrs[n] = {} THEN s ELSE SetPinValue(s, p, ValueIn(s.known, DrvrOf(d, p)))
    BY <1>1, <1>3, <1>7 DEF SetInvalidLoad
  <2>3. CASE d.drvrs[n] = {}
    <3>1. t = s
      BY <2>2, <2>3
    <3>2. Fits(s, design, p, ValueIn(s.known, p), PD)
      BY <1>1, <1>3, <1>7, <2>1, <2>3 DEF Fits
    <3>3. Loaded(s, design, constraint, PL \ {p}, PD)
      BY <3>2, SettledLoad
    <3>4. QED
      BY <1>2, <3>1, <3>3
  <2>4. CASE d.drvrs[n] # {}
    <3> DEFINE r == DrvrOf(d, p)
    <3>1. r \in Pins /\ IsDriver(r) /\ NetAt(design, r) = n
      BY <1>1, <2>1, <2>4 DEF DrvrOf
    <3>2. t = SetPinValue(s, p, ValueIn(s.known, r))
      BY <2>2, <2>4
    <3> HIDE DEF r
    <3>3. \A q \in Pins : IsDriver(q) /\ NetAt(design, q) = n => q = r
      BY <1>1, <1>7, <3>1 DEF Wired
    <3>4. \A X : Fits(s, design, p, ValueIn(s.known, r), X)
      BY <1>1, <1>3, <1>7, <3>3 DEF Fits
    <3>5. ValueIn(s.known, r) \in SUBSET (0..1)
      BY ValueMembers DEF Sims
    <3>6. SettlesLoad(s, p, t)
      BY <3>2, <3>4, <3>5, SettleLoad
    <3>7. QED
      BY <3>6 DEF SettlesLoad
  <2>5. QED
    BY <2>3, <2>4
<1>8. QED
  BY <1>5, <1>6, <1>7

(* All of them: no load is pending any more.                               *)
LEMMA InvalidLoadsSettle ==
  ASSUME Sound, NEW s \in Sims, s.invalidLoads \subseteq {p \in design.pins : IsLoad(p) /\ InstanceOf[p] # Top},
         Held(s, constraint, {}), NEW PD, Loaded(s, design, constraint, s.invalidLoads, PD)
  PROVE  \E t \in Sims : /\ Held(t, constraint, {}) /\ DriversKept(s, t)
                         /\ Loaded(t, design, constraint, {}, PD)
                         /\ PropagateToInvalidLoads(s) = [t EXCEPT !.invalidLoads = {}]
<1> DEFINE S == s.invalidLoads
           d == LookedUp(s)
           W == [T \in SUBSET S |-> {u \in Sims : /\ Held(u, constraint, {}) /\ DriversKept(s, u)
                                                  /\ Loaded(u, design, constraint, S \ T, PD)}]
<1>1. Wired(design) /\ ListsInv(design) /\ design.pins \subseteq Pins /\ design.constants = ConstantNets
  BY DEF Sound, Setting, ListsInv, Designs
<1>2. S \subseteq design.pins /\ \A p \in S : IsLoad(p) /\ InstanceOf[p] # Top
  OBVIOUS
<1>3. /\ SameNets(design, d) /\ \A n \in NetsLookedUp(s) : d.drvrs[n] = {p \in Pins : IsDriver(p) /\ NetAt(design, p) = n}
  BY <1>1, <1>2, LookedUpDrivers
<1>4. \A p \in S : design.netOf[p] # NoNet /\ design.netOf[p] \notin TiedNets => design.netOf[p] \in NetsLookedUp(s)
  BY <1>1 DEF NetsLookedUp, TiedNets
<1>5. s \in W[{}]
  <2>1. DriversKept(s, s) /\ S \ {} = S
    BY DEF DriversKept
  <2>2. QED
    BY <2>1
<1> HIDE DEF d
<1>6. ASSUME NEW T \in SUBSET S, NEW x \in S, NEW u \in Sims, x \in T, u \in W[T \ {x}]
      PROVE  SetInvalidLoad(d, x, u) \in W[T]
  <2> DEFINE w == SetInvalidLoad(d, x, u)
             PL == S \ (T \ {x})
  <2>1. Held(u, constraint, {}) /\ DriversKept(s, u) /\ Loaded(u, design, constraint, PL, PD)
    BY <1>6
  <2>2. PL \ {x} \subseteq S \ T
    OBVIOUS
  <2>3. x \in Pins /\ IsLoad(x) /\ InstanceOf[x] # Top /\ x \in S
    BY <1>1, <1>2, <1>6
  <2> HIDE DEF W, S, PL
  <2>4. LET n == design.netOf[x]
        IN  n # NoNet /\ n \notin TiedNets => d.drvrs[n] = {q \in Pins : IsDriver(q) /\ NetAt(design, q) = n}
    BY <1>3, <1>4, <2>3
  <2>5. w \in Sims /\ Held(w, constraint, {}) /\ DriversKept(u, w) /\ Loaded(w, design, constraint, PL \ {x}, PD)
    BY <1>3, <2>1, <2>3, <2>4, SettleInvalidLoad
  <2> HIDE DEF w
  <2>6. Loaded(w, design, constraint, S \ T, PD)
    BY <2>2, <2>5, LoadedMore
  <2>7. DriversKept(s, w)
    BY <2>1, <2>5 DEF DriversKept
  <2>8. w \in W[T]
    BY <1>6, <2>5, <2>6, <2>7 DEF W
  <2>9. QED
    BY <2>8 DEF w
<1>7. \E t \in Sims : t \in W[S] /\ PropagateToInvalidLoads(s) = [t EXCEPT !.invalidLoads = {}]
  <2>1. d = LookedUp(s)
    BY DEF d
  <2> HIDE DEF W
  <2>2. S = s.invalidLoads
    OBVIOUS
  <2> HIDE DEF S
  <2>3. QED
    BY <1>1, <1>5, <1>6, <2>1, <2>2, InvalidLoadsStay
<1>8. S \ S = {}
  OBVIOUS
<1>9. QED
  BY <1>7, <1>8

(* ... and the drivers, whose loads get their value.                       *)
LEMMA SetLoads ==
  ASSUME Sound, NEW s \in Sims, Held(s, constraint, {}), NEW r \in Pins, IsDriver(r),
         NEW v \in SUBSET (0..1), v = ValueIn(s.known, r),
         NEW PD, Loaded(s, design, constraint, {}, PD),
         NEW t, t = SetEach(s, Loads(design, r), v)
  PROVE  /\ t \in Sims /\ Held(t, constraint, {}) /\ DriversKept(s, t)
         /\ Loaded(t, design, constraint, {}, PD \ {r})
<1> DEFINE S == Loads(design, r)
           W == [T \in SUBSET S |-> {u \in Sims : /\ Held(u, constraint, {}) /\ DriversKept(s, u)
                                                  /\ Loaded(u, design, constraint, S \ T, PD \ {r})}]
<1>1. Wired(design) /\ ListsInv(design)
  BY DEF Sound, Wired
<1>2. S = {q \in Pins : IsLoad(q) /\ NetAt(design, q) = NetAt(design, r) /\ NetAt(design, r) # NoNet}
  BY <1>1, LoadsOnPin
<1> HIDE DEF S
<1>3. s \in W[{}]
  <2>1. ASSUME NEW q \in Pins, IsLoad(q), ValueIn(constraint, q) = {}
        PROVE  /\ NetAt(design, q) = NoNet => ValueIn(s.known, q) = {}
               /\ q \notin S => Fits(s, design, q, ValueIn(s.known, q), PD \ {r})
    <3>1. /\ NetAt(design, q) = NoNet => ValueIn(s.known, q) = {}
          /\ Fits(s, design, q, ValueIn(s.known, q), PD)
      BY <2>1 DEF Loaded
    <3>2. q \notin S => NetAt(design, q) # NetAt(design, r) \/ NetAt(design, q) = NoNet
      BY <1>2, <2>1
    <3>3. QED
      BY <3>1, <3>2 DEF Fits
  <2>2. Loaded(s, design, constraint, S, PD \ {r})
    BY <2>1 DEF Loaded
  <2>3. DriversKept(s, s) /\ S \ {} = S
    BY DEF DriversKept
  <2>4. QED
    BY <2>2, <2>3
<1>4. ASSUME NEW T \in SUBSET S, NEW x \in S, NEW u \in Sims, x \in T, u \in W[T \ {x}]
      PROVE  SetPinValue(u, x, v) \in W[T]
  <2> DEFINE w == SetPinValue(u, x, v)
             PL == S \ (T \ {x})
  <2>1. Held(u, constraint, {}) /\ DriversKept(s, u) /\ Loaded(u, design, constraint, PL, PD \ {r})
    BY <1>4
  <2>2. PL \ {x} \subseteq S \ T
    OBVIOUS
  <2>3. x \in Pins /\ IsLoad(x) /\ NetAt(design, x) = NetAt(design, r) /\ NetAt(design, r) # NoNet
    BY <1>2, <1>4
  <2> HIDE DEF W, PL
  <2>4. \A q \in Pins : IsDriver(q) /\ NetAt(design, q) = NetAt(design, x) => q = r
    BY <1>1, <2>3 DEF Wired
  <2>5. NetAt(design, x) \notin TiedNets
    BY <1>1, <2>3 DEF Wired
  <2>6. ValueIn(u.known, r) = v
    BY <2>1 DEF DriversKept
  <2>7. \A X : Fits(u, design, x, v, X)
    BY <2>3, <2>4, <2>5, <2>6 DEF Fits, TiedNets
  <2>8. SettlesLoad(u, x, w)
    BY <2>1, <2>3, <2>7, SettleLoad
  <2> HIDE DEF w
  <2>9. w \in Sims /\ Held(w, constraint, {}) /\ DriversKept(s, w)
    BY <2>1, <2>8 DEF SettlesLoad, DriversKept
  <2>10. Loaded(w, design, constraint, PL \ {x}, PD \ {r})
    BY <2>1, <2>8 DEF SettlesLoad
  <2>11. Loaded(w, design, constraint, S \ T, PD \ {r})
    BY <2>2, <2>10, LoadedMore
  <2>12. w \in W[T]
    BY <1>4, <2>9, <2>11 DEF W
  <2>13. QED
    BY <2>12 DEF w
<1>5. t \in W[S]
  <2>1. S \in SUBSET Pins /\ t = SetEach(s, S, v)
    BY <1>2 DEF S
  <2> HIDE DEF W
  <2>2. QED
    BY <1>1, <1>3, <1>4, <2>1, SetEachStays
<1>6. S \ S = {}
  OBVIOUS
<1>7. QED
  BY <1>5, <1>6

(* All of them: no driver is pending any more.                             *)
LEMMA InvalidDrvrsSettle ==
  ASSUME Sound, NEW s \in Sims, s.invalidDrvrs \subseteq {p \in design.pins : IsDriver(p)},
         s.constFuncPins \subseteq {p \in design.pins : IsConstFunc(cell, p)},
         Held(s, constraint, {}), TiesHeld(s, design, cell, {}),
         Loaded(s, design, constraint, {}, s.invalidDrvrs)
  PROVE  \E t \in Sims : /\ Held(t, constraint, {}) /\ DriversKept(s, t)
                         /\ Loaded(t, design, constraint, {}, {})
                         /\ PropagateFromInvalidDrvrs(s) = [t EXCEPT !.invalidDrvrs = {}]
<1> DEFINE S == s.invalidDrvrs
           W == [T \in SUBSET S |-> {u \in Sims : /\ Held(u, constraint, {}) /\ DriversKept(s, u)
                                                  /\ Loaded(u, design, constraint, {}, S \ T)}]
<1>1. ListsInv(design) /\ design.pins \subseteq Pins
  BY DEF Sound, Setting, ListsInv, Designs
<1>2. S \subseteq Pins /\ \A p \in S : IsDriver(p)
  BY <1>1
<1>3. ASSUME NEW p PROVE DrvrValue(s, p) = ValueIn(s.known, p)
  <2>1. ASSUME p \in s.constFuncPins PROVE ConstFuncValue(p) = ValueIn(s.known, p)
    <3>1. p \in design.pins /\ IsConstFunc(cell, p)
      BY <2>1
    <3>2. ConstFuncValue(p) = EvalOf(cell[InstanceOf[p]], {}, InstanceOf[p])
      BY <3>1, TieValue
    <3>3. ValueIn(s.known, p) = EvalOf(cell[InstanceOf[p]], {}, InstanceOf[p])
      BY <3>1 DEF TiesHeld
    <3>4. QED
      BY <3>2, <3>3
  <2>2. QED
    BY <2>1 DEF DrvrValue
<1>4. \A p : DrvrValue(s, p) \in SUBSET (0..1)
  BY <1>3, ValueMembers DEF Sims
<1>5. s \in W[{}]
  <2>1. DriversKept(s, s) /\ S \ {} = S
    BY DEF DriversKept
  <2>2. QED
    BY <2>1
<1>6. ASSUME NEW T \in SUBSET S, NEW x \in S, NEW u \in Sims, x \in T, u \in W[T \ {x}]
      PROVE  SetEach(u, Loads(design, x), DrvrValue(s, x)) \in W[T]
  <2> DEFINE w == SetEach(u, Loads(design, x), DrvrValue(s, x))
             PD == S \ (T \ {x})
  <2>1. Held(u, constraint, {}) /\ DriversKept(s, u) /\ Loaded(u, design, constraint, {}, PD)
    BY <1>6
  <2>2. PD \ {x} \subseteq S \ T
    OBVIOUS
  <2>3. x \in Pins /\ IsDriver(x)
    BY <1>2, <1>6
  <2> HIDE DEF W, PD, S
  <2>4. DrvrValue(s, x) = ValueIn(u.known, x) /\ DrvrValue(s, x) \in SUBSET (0..1)
    BY <1>3, <1>4, <2>1, <2>3 DEF DriversKept
  <2>5. w \in Sims /\ Held(w, constraint, {}) /\ DriversKept(u, w) /\ Loaded(w, design, constraint, {}, PD \ {x})
    BY <2>1, <2>3, <2>4, SetLoads
  <2> HIDE DEF w
  <2>6. Loaded(w, design, constraint, {}, S \ T)
    BY <2>2, <2>5, LoadedMore
  <2>7. DriversKept(s, w)
    BY <2>1, <2>5 DEF DriversKept
  <2>8. w \in W[T]
    BY <1>6, <2>5, <2>6, <2>7 DEF W
  <2>9. QED
    BY <2>8 DEF w
<1>7. \E t \in Sims : t \in W[S] /\ PropagateFromInvalidDrvrs(s) = [t EXCEPT !.invalidDrvrs = {}]
  <2> HIDE DEF W
  <2>2. S = s.invalidDrvrs
    OBVIOUS
  <2> HIDE DEF S
  <2>3. QED
    BY <1>1, <1>4, <1>5, <1>6, <2>2, InvalidDrvrsStay
<1>8. S \ S = {}
  OBVIOUS
<1>9. QED
  BY <1>7, <1>8

------------------------------------------------------------------------------
(* Outputs that nothing has happened to are as they were.                  *)
LEMMA EvaluatedKept ==
  ASSUME NEW s, NEW d, NEW con, NEW cells, NEW PI, Evaluated(s, d, con, cells, PI), NEW t, NEW PI2,
         \A p \in d.pins :
           InstanceOf[p] \in Leaves /\ p \in Outputs /\ ValueIn(con, p) = {} /\ InstanceOf[p] \notin PI2 =>
             /\ InstanceOf[p] \notin PI /\ ValueIn(t.known, p) = ValueIn(s.known, p)
             /\ \A q \in PinsAt(InstanceOf[p]) : ValueIn(t.known, q) = ValueIn(s.known, q)
  PROVE  Evaluated(t, d, con, cells, PI2)
<1> SUFFICES ASSUME NEW p \in d.pins, InstanceOf[p] \in Leaves, p \in Outputs, ValueIn(con, p) = {},
                    InstanceOf[p] \notin PI2
             PROVE  ValueIn(t.known, p) = EvalOf(cells[InstanceOf[p]], t.known, InstanceOf[p])
  BY DEF Evaluated
<1>1. /\ InstanceOf[p] \notin PI /\ ValueIn(t.known, p) = ValueIn(s.known, p)
      /\ \A q \in PinsAt(InstanceOf[p]) : ValueIn(t.known, q) = ValueIn(s.known, q)
  OBVIOUS
<1>2. ValueIn(s.known, p) = EvalOf(cells[InstanceOf[p]], s.known, InstanceOf[p])
  BY <1>1 DEF Evaluated
<1>3. EvalOf(cells[InstanceOf[p]], s.known, InstanceOf[p]) = EvalOf(cells[InstanceOf[p]], t.known, InstanceOf[p])
  BY <1>1, EvalSame
<1>4. QED
  BY <1>1, <1>2, <1>3

(* Instances that nothing is noted of have the inputs they had.            *)
LEMMA NotedInputs ==
  ASSUME NEW s, NEW t, Notes(s, t), NEW i \in Leaves, i \notin t.queue
  PROVE  i \notin s.queue /\ \A q \in PinsAt(i) : ValueIn(t.known, q) = ValueIn(s.known, q)
BY DEF Notes, PinsAt

(* While drivers keep their values, ties and ports keep theirs.            *)
LEMMA DriversClaims ==
  ASSUME Sound, NEW s, NEW t, DriversKept(s, t)
  PROVE  /\ TiesHeld(s, design, cell, {}) => TiesHeld(t, design, cell, {})
         /\ PortsFree(s, constraint) => PortsFree(t, constraint)
<1>1. design.pins \subseteq Pins
  BY DEF Sound, Setting, ListsInv, Designs
<1>2. ASSUME TiesHeld(s, design, cell, {}) PROVE TiesHeld(t, design, cell, {})
  <2> SUFFICES ASSUME NEW p \in design.pins, IsConstFunc(cell, p)
               PROVE  ValueIn(t.known, p) = EvalOf(cell[InstanceOf[p]], {}, InstanceOf[p])
    BY DEF TiesHeld
  <2>1. IsDriver(p) /\ p \in Pins
    BY <1>1, TieValue
  <2>2. ValueIn(s.known, p) = EvalOf(cell[InstanceOf[p]], {}, InstanceOf[p])
    BY <1>2 DEF TiesHeld
  <2>3. QED
    BY <2>1, <2>2 DEF DriversKept
<1>3. PortsFree(s, constraint) => PortsFree(t, constraint)
  BY DEF PortsFree, DriversKept, IsDriver
<1>4. QED
  BY <1>2, <1>3

(* The claims are of the known values alone.                               *)
LEMMA SameClaims ==
  ASSUME NEW s, NEW t, t.known = s.known, NEW d, NEW con, NEW cells, NEW PL, NEW PD
  PROVE  /\ Held(s, con, {}) => Held(t, con, {})
         /\ Loaded(s, d, con, PL, PD) => Loaded(t, d, con, PL, PD)
         /\ TiesHeld(s, d, cells, {}) => TiesHeld(t, d, cells, {})
         /\ PortsFree(s, con) => PortsFree(t, con)
         /\ \A PI : Evaluated(s, d, con, cells, PI) => Evaluated(t, d, con, cells, PI)
<1>1. Held(s, con, {}) => Held(t, con, {})
  BY DEF Held
<1>2. Loaded(s, d, con, PL, PD) => Loaded(t, d, con, PL, PD)
  BY DEF Loaded, Fits
<1>3. TiesHeld(s, d, cells, {}) => TiesHeld(t, d, cells, {})
  BY DEF TiesHeld
<1>4. PortsFree(s, con) => PortsFree(t, con)
  BY DEF PortsFree
<1>5. \A PI : Evaluated(s, d, con, cells, PI) => Evaluated(t, d, con, cells, PI)
  BY DEF Evaluated
<1>6. QED
  BY <1>1, <1>2, <1>3, <1>4, <1>5

(* What a propagation from what edits have left starts with.               *)
LEMMA SeedInvalidClaims ==
  ASSUME Sound, NEW s, Good(s), Marks(s), \A p \in s.invalidLoads : InstanceOf[p] # Top,
         Claims(s, design, constraint, cell, s.invalidLoads, s.invalidDrvrs, s.invalidInsts),
         NEW t, t = SeedInvalid(s), Notes([s EXCEPT !.queue = s.invalidInsts \cap Leaves], t)
  PROVE  Claims(t, design, constraint, cell, {}, {}, t.queue)
<1> DEFINE q == [s EXCEPT !.queue = s.invalidInsts \cap Leaves]
           l == PropagateToInvalidLoads(q)
<1>1. t = PropagateFromInvalidDrvrs(l)
  BY DEF SeedInvalid
<1>2. s \in Sims /\ ListsInv(design) /\ Setting /\ design.pins \subseteq Pins
  BY DEF Sound, Setting, Good, ListsInv, Designs
<1>3. q \in Sims /\ q.known = s.known /\ q.withConstPins = s.withConstPins
      /\ q.queue = s.invalidInsts \cap Leaves /\ q.invalidLoads = s.invalidLoads
      /\ SameButValues(s, q)
  BY <1>2 DEF Sims, SameButValues
<1>4. Good(q)
  BY <1>3 DEF Good, Marks
<1>5. q.invalidLoads \subseteq {p \in design.pins : IsLoad(p) /\ InstanceOf[p] # Top}
  BY <1>3 DEF Marks
<1>6. LookedUp(q).constants = design.constants
  BY <1>2, <1>5, LookedUpSame DEF SameNets
<1>7. Notes(q, t)
  OBVIOUS
<1> HIDE DEF q
<1>8. PICK a : Evolves(q, a) /\ Good(a) /\ l = [a EXCEPT !.invalidLoads = {}]
  BY <1>2, <1>4, <1>5, <1>6, InvalidLoadsEvolve
<1>9. l.invalidDrvrs = s.invalidDrvrs /\ l.constFuncPins = s.constFuncPins /\ l \in Sims
  <2>1. a \in Sims /\ a.invalidDrvrs = s.invalidDrvrs /\ a.constFuncPins = s.constFuncPins
    BY <1>3, <1>8 DEF Evolves, SameButValues
  <2>2. QED
    BY <1>8, <2>1 DEF Sims
<1>10. Held(s, constraint, {}) /\ Loaded(s, design, constraint, s.invalidLoads, s.invalidDrvrs)
       /\ TiesHeld(s, design, cell, {}) /\ PortsFree(s, constraint)
       /\ Evaluated(s, design, constraint, cell, s.invalidInsts)
  BY DEF Claims
<1>11. Held(q, constraint, {}) /\ Loaded(q, design, constraint, q.invalidLoads, s.invalidDrvrs)
  BY <1>3, <1>10, SameClaims
<1>12. PICK b \in Sims : /\ Held(b, constraint, {}) /\ DriversKept(q, b)
                         /\ Loaded(b, design, constraint, {}, s.invalidDrvrs)
                         /\ l = [b EXCEPT !.invalidLoads = {}]
  BY <1>3, <1>5, <1>11, InvalidLoadsSettle
<1>13. l.known = b.known
  BY <1>12 DEF Sims
<1> HIDE DEF l
<1>14. Held(l, constraint, {}) /\ Loaded(l, design, constraint, {}, l.invalidDrvrs)
  BY <1>9, <1>12, <1>13, SameClaims
<1>15. DriversKept(s, l)
  BY <1>3, <1>12, <1>13 DEF DriversKept
<1>16. TiesHeld(l, design, cell, {})
  BY <1>10, <1>15, DriversClaims
<1>17. l.invalidDrvrs \subseteq {p \in design.pins : IsDriver(p)}
       /\ l.constFuncPins \subseteq {p \in design.pins : IsConstFunc(cell, p)}
  BY <1>9 DEF Marks
<1>18. PICK c \in Sims : /\ Held(c, constraint, {}) /\ DriversKept(l, c)
                         /\ Loaded(c, design, constraint, {}, {})
                         /\ t = [c EXCEPT !.invalidDrvrs = {}]
  BY <1>1, <1>9, <1>14, <1>16, <1>17, InvalidDrvrsSettle
<1>19. t.known = c.known
  BY <1>18 DEF Sims
<1>20. Held(t, constraint, {}) /\ Loaded(t, design, constraint, {}, {})
  BY <1>18, <1>19, SameClaims
<1>21. DriversKept(s, t)
  BY <1>15, <1>18, <1>19 DEF DriversKept
<1>22. TiesHeld(t, design, cell, {}) /\ PortsFree(t, constraint)
  BY <1>10, <1>21, DriversClaims
<1>23. ASSUME NEW p \in design.pins, InstanceOf[p] \in Leaves, p \in Outputs, InstanceOf[p] \notin t.queue
       PROVE  /\ InstanceOf[p] \notin s.invalidInsts /\ ValueIn(t.known, p) = ValueIn(s.known, p)
              /\ \A r \in PinsAt(InstanceOf[p]) : ValueIn(t.known, r) = ValueIn(s.known, r)
  <2>1. InstanceOf[p] \notin q.queue /\ \A r \in PinsAt(InstanceOf[p]) : ValueIn(t.known, r) = ValueIn(q.known, r)
    BY <1>7, <1>23, NotedInputs
  <2>2. ValueIn(t.known, p) = ValueIn(s.known, p)
    BY <1>2, <1>21, <1>23 DEF DriversKept, IsDriver
  <2>3. QED
    BY <1>3, <1>23, <2>1, <2>2
<1>24. Evaluated(t, design, constraint, cell, t.queue)
  BY <1>10, <1>23, EvaluatedKept
<1>25. QED
  BY <1>20, <1>22, <1>24 DEF Claims

------------------------------------------------------------------------------
(* An instance is evaluated: its outputs get what it evaluates to.         *)
SetsOutputs(s, S, v, t) ==
  \A q \in Pins : IsDriver(q) => ValueIn(t.known, q) = IF q \in S /\ Settable(q, v) THEN v ELSE ValueIn(s.known, q)

(* setPinValue of the outputs that change.                                 *)
LEMMA SetOutputs ==
  ASSUME Sound, NEW s \in Sims, Held(s, constraint, {}), Loaded(s, design, constraint, {}, {}),
         NEW S \in SUBSET Pins, \A p \in S : IsDriver(p), NEW v \in SUBSET (0..1),
         NEW t, t = SetEach(s, S, v)
  PROVE  /\ t \in Sims /\ Held(t, constraint, {}) /\ Loaded(t, design, constraint, {}, {})
         /\ SetsOutputs(s, S, v, t)
<1> DEFINE W == [T \in SUBSET S |-> {u \in Sims : /\ Held(u, constraint, {})
                                                  /\ Loaded(u, design, constraint, {}, {})
                                                  /\ SetsOutputs(s, T, v, u)}]
<1>1. Wired(design) /\ ListsInv(design)
  BY DEF Sound, Wired
<1>2. s \in W[{}]
  <2>1. SetsOutputs(s, {}, v, s)
    BY DEF SetsOutputs
  <2>2. QED
    BY <2>1
<1>3. ASSUME NEW T \in SUBSET S, NEW x \in S, NEW u \in Sims, x \in T, u \in W[T \ {x}]
      PROVE  SetPinValue(u, x, v) \in W[T]
  <2> DEFINE w == SetPinValue(u, x, v)
  <2>1. Held(u, constraint, {}) /\ Loaded(u, design, constraint, {}, {}) /\ SetsOutputs(s, T \ {x}, v, u)
    BY <1>3
  <2>2. x \in Pins /\ IsDriver(x)
    BY <1>3
  <2> HIDE DEF W
  <2>3. w \in Sims
    BY <1>1, <2>2, SetPinDoes DEF SetsPin
  <2>4. Held(w, constraint, {})
    BY <1>1, <2>1, <2>2, SetHeld
  <2>5. SetsDriver(u, x, v, w)
    BY <1>1, <2>2, SetDriver
  <2> HIDE DEF w
  <2>6. Loaded(w, design, constraint, {}, {})
    BY <1>1, <2>1, <2>2, <2>5, SetDriverLoaded
  <2>7. SetsOutputs(s, T, v, w)
    BY <1>3, <2>1, <2>5 DEF SetsOutputs, SetsDriver
  <2>8. w \in W[T]
    BY <2>3, <2>4, <2>6, <2>7 DEF W
  <2>9. QED
    BY <2>8 DEF w
<1>4. t \in W[S]
  <2> HIDE DEF W
  <2>1. QED
    BY <1>1, <1>2, <1>3, SetEachStays
<1>5. QED
  BY <1>4

(* evalInstance: its outputs are as it evaluates, what their loads belong  *)
(* to is queued.                                                           *)
LEMMA EvalClaims ==
  ASSUME Sound, NEW s, Good(s), NEW i \in s.queue, Claims(s, design, constraint, cell, {}, {}, s.queue),
         NEW v, v = EvalExpr(s.known, i),
         NEW r, r = [s EXCEPT !.queue = @ \ {i}],
         NEW t, t = EvalInstance(r, i, v)
  PROVE  Claims(t, design, constraint, cell, {}, {}, t.queue)
<1> DEFINE S == {q \in OutputsOf(i) : ValueIn(r.known, q) # v}
<1>1. s \in Sims /\ i \in design.insts /\ i \in Leaves /\ ListsInv(design) /\ Setting /\ RegularCells
      /\ design.pins \subseteq Pins
  BY DEF Sound, Setting, Good, ListsInv, Designs
<1>2. r \in Sims /\ r.known = s.known /\ r.queue = s.queue \ {i}
  BY <1>1 DEF Sims
<1>3. v \in Values /\ v \in SUBSET (0..1) /\ v = EvalOf(cell[i], s.known, i)
  BY <1>1, EvalTyped, EvalIs DEF Values
<1>4. \A q : q \in S <=> /\ q \in design.pins /\ InstanceOf[q] = i /\ q \in Outputs
                         /\ ValueIn(s.known, q) # v
  BY <1>2 DEF OutputsOf, PinsOf
<1>5. S \in SUBSET Pins /\ S \in SUBSET design.pins /\ \A p \in S : IsDriver(p)
  BY <1>1, <1>4 DEF IsDriver
<1>6. t = SetEach(r, S, v)
  BY DEF EvalInstance
<1> HIDE DEF S
<1>7. Held(s, constraint, {}) /\ Loaded(s, design, constraint, {}, {})
      /\ TiesHeld(s, design, cell, {}) /\ PortsFree(s, constraint)
      /\ Evaluated(s, design, constraint, cell, s.queue)
  BY DEF Claims
<1>8. Held(r, constraint, {}) /\ Loaded(r, design, constraint, {}, {})
  BY <1>2, <1>7, SameClaims
<1>9. Held(t, constraint, {}) /\ Loaded(t, design, constraint, {}, {}) /\ SetsOutputs(r, S, v, t)
  BY <1>2, <1>3, <1>5, <1>6, <1>8, SetOutputs
<1>10. Notes(r, t)
  BY <1>1, <1>2, <1>3, <1>5, <1>6, SetEachEvolves DEF Evolves
<1>11. \A q \in Pins : IsDriver(q) /\ InstanceOf[q] # i => ValueIn(t.known, q) = ValueIn(s.known, q)
  BY <1>2, <1>4, <1>9 DEF SetsOutputs
<1>12. \A q \in design.pins : InstanceOf[q] = i /\ q \in Outputs /\ Settable(q, v) => ValueIn(t.known, q) = v
  BY <1>1, <1>2, <1>4, <1>9 DEF SetsOutputs, IsDriver
<1>13. \A q \in Pins : IsDriver(q) => ValueIn(t.known, q) \in {v, ValueIn(s.known, q)}
  BY <1>2, <1>9 DEF SetsOutputs
<1>14. TiesHeld(t, design, cell, {})
  <2> SUFFICES ASSUME NEW p \in design.pins, IsConstFunc(cell, p)
               PROVE  ValueIn(t.known, p) = EvalOf(cell[InstanceOf[p]], {}, InstanceOf[p])
    BY DEF TiesHeld
  <2>1. IsDriver(p) /\ p \in Pins /\ InstanceOf[p] \in Leaves
    BY <1>1, TieValue DEF IsConstFunc
  <2>2. ValueIn(s.known, p) = EvalOf(cell[InstanceOf[p]], {}, InstanceOf[p])
    BY <1>7 DEF TiesHeld
  <2>3. ASSUME InstanceOf[p] = i PROVE v = EvalOf(cell[i], {}, i)
    <3>1. Tie(cell[i]) /\ cell[i] \in CellsFor(i)
      BY <2>1, <2>3, TiesAre
    <3>2. QED
      BY <1>1, <1>3, <3>1, EvalTie
  <2>4. QED
    BY <1>11, <1>13, <2>1, <2>2, <2>3
<1>15. PortsFree(t, constraint)
  <2> SUFFICES ASSUME NEW p \in Pins, InstanceOf[p] = Top, p \notin Outputs, ValueIn(constraint, p) = {}
               PROVE  ValueIn(t.known, p) = {}
    BY DEF PortsFree
  <2>1. IsDriver(p) /\ InstanceOf[p] # i
    BY <1>1, NetlistAssumption DEF IsDriver
  <2>2. QED
    BY <1>7, <1>11, <2>1 DEF PortsFree
<1>16. ASSUME NEW p \in design.pins, InstanceOf[p] \in Leaves, p \in Outputs, ValueIn(constraint, p) = {},
              InstanceOf[p] \notin t.queue
       PROVE  ValueIn(t.known, p) = EvalOf(cell[InstanceOf[p]], t.known, InstanceOf[p])
  <2>1. InstanceOf[p] \notin r.queue /\ \A q \in PinsAt(InstanceOf[p]) : ValueIn(t.known, q) = ValueIn(r.known, q)
    <3>1. \A j \in Leaves : j \notin t.queue =>
            j \notin r.queue /\ \A q \in PinsAt(j) : ValueIn(t.known, q) = ValueIn(r.known, q)
      BY <1>10 DEF Notes, PinsAt
    <3>2. QED
      BY <1>16, <3>1
  <2>2. EvalOf(cell[InstanceOf[p]], t.known, InstanceOf[p]) = EvalOf(cell[InstanceOf[p]], s.known, InstanceOf[p])
    BY <1>2, <2>1, EvalSame
  <2>3. CASE InstanceOf[p] = i
    <3>1. ValueIn(t.known, p) = v
      BY <1>12, <1>16, <2>3 DEF Settable
    <3>2. QED
      BY <1>3, <2>2, <2>3, <3>1
  <2>4. CASE InstanceOf[p] # i
    <3>1. ValueIn(t.known, p) = ValueIn(s.known, p)
      BY <1>1, <1>11, <1>16, <2>4 DEF IsDriver
    <3>2. ValueIn(s.known, p) = EvalOf(cell[InstanceOf[p]], s.known, InstanceOf[p])
      BY <1>2, <1>7, <1>16, <2>1, <2>4 DEF Evaluated
    <3>3. QED
      BY <2>2, <3>1, <3>2
  <2>5. QED
    BY <2>3, <2>4
<1>17. Evaluated(t, design, constraint, cell, t.queue)
  BY <1>16 DEF Evaluated
<1>18. QED
  BY <1>9, <1>14, <1>15, <1>17 DEF Claims

------------------------------------------------------------------------------
(* The claims when nothing is propagated: a netlist with the same pins on  *)
(* the same nets, ...                                                      *)
LEMMA SamePlaces ==
  ASSUME NEW s, NEW d, NEW con, NEW cells, NEW PL, NEW PD, NEW PI, Claims(s, d, con, cells, PL, PD, PI),
         NEW t, t.known = s.known, NEW e, e.pins = d.pins, \A p \in Pins : NetAt(e, p) = NetAt(d, p)
  PROVE  Claims(t, e, con, cells, PL, PD, PI)
<1>1. Held(s, con, {}) /\ Loaded(s, d, con, PL, PD) /\ TiesHeld(s, d, cells, {}) /\ PortsFree(s, con)
      /\ Evaluated(s, d, con, cells, PI)
  BY DEF Claims
<1>2. Held(t, con, {}) /\ Loaded(t, d, con, PL, PD) /\ TiesHeld(t, d, cells, {}) /\ PortsFree(t, con)
      /\ Evaluated(t, d, con, cells, PI)
  BY <1>1, SameClaims
<1>3. Loaded(t, e, con, PL, PD)
  BY <1>2 DEF Loaded, Fits
<1>4. TiesHeld(t, e, cells, {}) /\ Evaluated(t, e, con, cells, PI)
  BY <1>2 DEF TiesHeld, Evaluated
<1>5. QED
  BY <1>2, <1>3, <1>4 DEF Claims

(* ... a pin that is connected, ...                                        *)
LEMMA ConnectedClaims ==
  ASSUME NEW s, NEW d, NEW con, NEW cells, NEW PL, NEW PD, NEW PI, Claims(s, d, con, cells, PL, PD, PI),
         NEW t, t.known = s.known, NEW e, e.pins = d.pins, NEW p \in Pins, NEW n, n # NoNet,
         \A q \in Pins : NetAt(e, q) = IF q = p THEN n ELSE NetAt(d, q),
         NEW PL2, NEW PD2, NEW PI2, PL \subseteq PL2, PD \subseteq PD2, PI \subseteq PI2,
         IsLoad(p) => p \in PL2, IsDriver(p) => p \in PD2
  PROVE  Claims(t, e, con, cells, PL2, PD2, PI2)
<1>1. Held(s, con, {}) /\ Loaded(s, d, con, PL, PD) /\ TiesHeld(s, d, cells, {}) /\ PortsFree(s, con)
      /\ Evaluated(s, d, con, cells, PI)
  BY DEF Claims
<1>2. Held(t, con, {}) /\ Loaded(t, d, con, PL, PD) /\ TiesHeld(t, d, cells, {}) /\ PortsFree(t, con)
      /\ Evaluated(t, d, con, cells, PI)
  BY <1>1, SameClaims
<1>3. ASSUME NEW q \in Pins, IsLoad(q), ValueIn(con, q) = {}
      PROVE  /\ NetAt(e, q) = NoNet => ValueIn(t.known, q) = {}
             /\ q \notin PL2 => Fits(t, e, q, ValueIn(t.known, q), PD2)
  <2>1. CASE q = p
    BY <1>3, <2>1
  <2>2. CASE q # p
    <3>1. /\ NetAt(d, q) = NoNet => ValueIn(t.known, q) = {}
          /\ q \notin PL2 => Fits(t, d, q, ValueIn(t.known, q), PD)
      BY <1>2, <1>3 DEF Loaded
    <3>2. NetAt(e, q) = NetAt(d, q)
      BY <2>2
    <3>3. \A r \in Pins : IsDriver(r) => NetAt(e, r) = NetAt(d, r) \/ r \in PD2
      OBVIOUS
    <3>4. QED
      BY <3>1, <3>2, <3>3 DEF Fits
  <2>3. QED
    BY <2>1, <2>2
<1>4. Loaded(t, e, con, PL2, PD2)
  BY <1>3 DEF Loaded
<1>5. TiesHeld(t, e, cells, {}) /\ Evaluated(t, e, con, cells, PI2)
  BY <1>2 DEF TiesHeld, Evaluated
<1>6. QED
  BY <1>2, <1>4, <1>5 DEF Claims

(* ... a pin that is disconnected: a load loses its value, ...             *)
LEMMA DisconnectedClaims ==
  ASSUME NEW s, NEW d, NEW con, NEW cells, NEW PL, NEW PD, NEW PI, Claims(s, d, con, cells, PL, PD, PI),
         NEW t, NEW e, e.pins = d.pins, d.pins \subseteq Pins, NEW p \in Pins, InstanceOf[p] # Top,
         \A q \in Pins : NetAt(e, q) = IF q = p THEN NoNet ELSE NetAt(d, q),
         \A q \in Pins : q # p \/ ~IsLoad(p) \/ ValueIn(con, p) # {} => ValueIn(t.known, q) = ValueIn(s.known, q),
         IsLoad(p) /\ ValueIn(con, p) = {} => ValueIn(t.known, p) = {},
         NEW PL2, NEW PD2, NEW PI2, PL \subseteq PL2, PD \subseteq PD2, PI \subseteq PI2,
         ValueIn(t.known, p) = ValueIn(s.known, p) \/ InstanceOf[p] \in PI2
  PROVE  Claims(t, e, con, cells, PL2, PD2, PI2)
<1>1. Held(s, con, {}) /\ Loaded(s, d, con, PL, PD) /\ TiesHeld(s, d, cells, {}) /\ PortsFree(s, con)
      /\ Evaluated(s, d, con, cells, PI)
  BY DEF Claims
<1>2. \A q \in Pins : IsDriver(q) => ValueIn(t.known, q) = ValueIn(s.known, q)
  BY DrivesOrLoads
<1>3. Held(t, con, {})
  BY <1>1 DEF Held
<1>4. ASSUME NEW q \in Pins, IsLoad(q), ValueIn(con, q) = {}
      PROVE  /\ NetAt(e, q) = NoNet => ValueIn(t.known, q) = {}
             /\ q \notin PL2 => Fits(t, e, q, ValueIn(t.known, q), PD2)
  <2>1. CASE q = p
    <3>1. ValueIn(t.known, q) = {} /\ NetAt(e, q) = NoNet
      BY <1>4, <2>1
    <3>2. \A w \in 0..1 : NoNet \notin ConstantNets[w]
      BY NoNetApart, NetlistAssumption
    <3>3. QED
      BY <3>1, <3>2 DEF Fits
  <2>2. CASE q # p
    <3>1. /\ NetAt(d, q) = NoNet => ValueIn(s.known, q) = {}
          /\ q \notin PL2 => Fits(s, d, q, ValueIn(s.known, q), PD)
      BY <1>1, <1>4 DEF Loaded
    <3>2. NetAt(e, q) = NetAt(d, q) /\ ValueIn(t.known, q) = ValueIn(s.known, q)
      BY <2>2
    <3>3. \A r \in Pins : NetAt(e, r) = NetAt(d, r) \/ NetAt(e, r) = NoNet
      OBVIOUS
    <3>4. QED
      BY <1>2, <3>1, <3>2, <3>3 DEF Fits
  <2>3. QED
    BY <2>1, <2>2
<1>5. Loaded(t, e, con, PL2, PD2)
  BY <1>4 DEF Loaded
<1>6. TiesHeld(t, e, cells, {})
  BY <1>1, <1>2 DEF TiesHeld, IsConstFunc, IsDriver
<1>7. PortsFree(t, con)
  BY <1>1, <1>2 DEF PortsFree, IsDriver
<1>8. ASSUME NEW r \in d.pins, InstanceOf[r] \in Leaves, r \in Outputs, ValueIn(con, r) = {}, InstanceOf[r] \notin PI2
      PROVE  /\ InstanceOf[r] \notin PI /\ ValueIn(t.known, r) = ValueIn(s.known, r)
             /\ \A q \in PinsAt(InstanceOf[r]) : ValueIn(t.known, q) = ValueIn(s.known, q)
  <2>1. ValueIn(t.known, r) = ValueIn(s.known, r)
    BY <1>2, <1>8 DEF IsDriver
  <2>2. ASSUME NEW q \in PinsAt(InstanceOf[r]) PROVE ValueIn(t.known, q) = ValueIn(s.known, q)
    <3>1. q \in Pins /\ InstanceOf[q] = InstanceOf[r]
      BY DEF PinsAt
    <3>2. QED
      BY <1>8, <3>1
  <2>3. QED
    BY <1>8, <2>1, <2>2
<1>9. Evaluated(t, d, con, cells, PI2)
  BY <1>1, <1>8, EvaluatedKept
<1>10. Evaluated(t, e, con, cells, PI2)
  BY <1>9 DEF Evaluated
<1>11. QED
  BY <1>3, <1>5, <1>6, <1>7, <1>10 DEF Claims

(* ... a leaf instance that is deleted, ...                                *)
LEMMA DeletedClaims ==
  ASSUME NEW s, NEW d, NEW con, NEW cells, NEW PL, NEW PD, NEW PI, Claims(s, d, con, cells, PL, PD, PI),
         NEW t, NEW e, d.pins \subseteq Pins, NEW i \in Leaves,
         e.pins = {p \in d.pins : InstanceOf[p] # i},
         \A q \in Pins : NetAt(e, q) = IF InstanceOf[q] = i THEN NoNet ELSE NetAt(d, q),
         \A q \in Pins : ValueIn(t.known, q) = IF InstanceOf[q] = i THEN {} ELSE ValueIn(s.known, q),
         \A q \in Pins : InstanceOf[q] = i => ValueIn(con, q) = {},
         NEW PL2, NEW PD2, NEW PI2,
         \A q \in Pins : InstanceOf[q] # i => (q \in PL => q \in PL2) /\ (q \in PD => q \in PD2),
         \A j \in PI : j = i \/ j \in PI2
  PROVE  Claims(t, e, con, cells, PL2, PD2, PI2)
<1>1. Held(s, con, {}) /\ Loaded(s, d, con, PL, PD) /\ TiesHeld(s, d, cells, {}) /\ PortsFree(s, con)
      /\ Evaluated(s, d, con, cells, PI)
  BY DEF Claims
<1>2. \A q \in Pins : InstanceOf[q] # i => ValueIn(t.known, q) = ValueIn(s.known, q)
  OBVIOUS
<1>3. Held(t, con, {})
  BY <1>1 DEF Held
<1>4. ASSUME NEW q \in Pins, IsLoad(q), ValueIn(con, q) = {}
      PROVE  /\ NetAt(e, q) = NoNet => ValueIn(t.known, q) = {}
             /\ q \notin PL2 => Fits(t, e, q, ValueIn(t.known, q), PD2)
  <2>1. CASE InstanceOf[q] = i
    <3>1. ValueIn(t.known, q) = {} /\ NetAt(e, q) = NoNet
      BY <2>1
    <3>2. \A w \in 0..1 : NoNet \notin ConstantNets[w]
      BY NoNetApart, NetlistAssumption
    <3>3. QED
      BY <3>1, <3>2 DEF Fits
  <2>2. CASE InstanceOf[q] # i
    <3>1. /\ NetAt(d, q) = NoNet => ValueIn(s.known, q) = {}
          /\ q \notin PL2 => Fits(s, d, q, ValueIn(s.known, q), PD)
      BY <1>1, <1>4, <2>2 DEF Loaded
    <3>2. NetAt(e, q) = NetAt(d, q) /\ ValueIn(t.known, q) = ValueIn(s.known, q)
      BY <2>2
    <3>3. \A r \in Pins : NetAt(e, r) # NoNet => /\ NetAt(e, r) = NetAt(d, r) /\ InstanceOf[r] # i
                                                 /\ ValueIn(t.known, r) = ValueIn(s.known, r)
      OBVIOUS
    <3>4. ASSUME q \notin PL2, NEW r \in Pins, IsDriver(r), NetAt(e, r) = NetAt(e, q), NetAt(e, q) # NoNet
          PROVE  ValueIn(t.known, q) = ValueIn(t.known, r) \/ r \in PD2
      <4>1. /\ NetAt(d, r) = NetAt(d, q) /\ NetAt(d, q) # NoNet /\ InstanceOf[r] # i
            /\ ValueIn(t.known, r) = ValueIn(s.known, r)
        BY <3>2, <3>3, <3>4
      <4>2. ValueIn(s.known, q) = ValueIn(s.known, r) \/ r \in PD
        BY <3>1, <3>4, <4>1 DEF Fits
      <4>3. QED
        BY <3>2, <4>1, <4>2
    <3>5. QED
      BY <3>1, <3>2, <3>4 DEF Fits
  <2>3. QED
    BY <2>1, <2>2
<1>5. Loaded(t, e, con, PL2, PD2)
  BY <1>4 DEF Loaded
<1>6. TiesHeld(t, e, cells, {})
  BY <1>1, <1>2 DEF TiesHeld
<1>7. PortsFree(t, con)
  BY <1>1, <1>2 DEF PortsFree
<1>8. ASSUME NEW r \in d.pins, InstanceOf[r] # i, InstanceOf[r] \notin PI2
      PROVE  /\ InstanceOf[r] \notin PI /\ ValueIn(t.known, r) = ValueIn(s.known, r)
             /\ \A q \in PinsAt(InstanceOf[r]) : ValueIn(t.known, q) = ValueIn(s.known, q)
  BY <1>2, <1>8 DEF PinsAt
<1>9. Evaluated(s, e, con, cells, PI)
  BY <1>1 DEF Evaluated
<1>10. Evaluated(t, e, con, cells, PI2)
  BY <1>8, <1>9, EvaluatedKept
<1>11. QED
  BY <1>3, <1>5, <1>6, <1>7, <1>10 DEF Claims

(* ... an instance of another cell or a new one: its outputs are unknown,  *)
(* as its inputs are, or it is pending.                                    *)
LEMMA OtherCellClaims ==
  ASSUME NEW s, NEW d, NEW con, NEW cells, NEW PL, NEW PD, NEW PI, Claims(s, d, con, cells, PL, PD, PI),
         NEW t, t.known = s.known, NEW e, NEW cells2, NEW i \in Leaves, e.pins \subseteq Pins,
         \A p \in e.pins : InstanceOf[p] # i => p \in d.pins,
         \A q \in Pins : NetAt(e, q) = NetAt(d, q),
         \A j \in Leaves : j # i => cells2[j] = cells[j],
         RegularCells, cells2[i] \in CellsFor(i), ~Tie(cells2[i]),
         NEW PL2, NEW PD2, NEW PI2, PL \subseteq PL2, PD \subseteq PD2, PI \subseteq PI2,
         i \in PI2 \/ \A q \in Pins : InstanceOf[q] = i => ValueIn(s.known, q) = {}
  PROVE  Claims(t, e, con, cells2, PL2, PD2, PI2)
<1>1. Held(s, con, {}) /\ Loaded(s, d, con, PL, PD) /\ TiesHeld(s, d, cells, {}) /\ PortsFree(s, con)
      /\ Evaluated(s, d, con, cells, PI)
  BY DEF Claims
<1>2. Held(t, con, {}) /\ Loaded(t, d, con, PL, PD) /\ TiesHeld(t, d, cells, {}) /\ PortsFree(t, con)
      /\ Evaluated(t, d, con, cells, PI)
  BY <1>1, SameClaims
<1>3. Loaded(t, d, con, PL2, PD2)
  BY <1>2, LoadedMore
<1>4. Loaded(t, e, con, PL2, PD2)
  BY <1>3 DEF Loaded, Fits
<1>5. TiesHeld(t, e, cells2, {})
  <2> SUFFICES ASSUME NEW p \in e.pins, IsConstFunc(cells2, p)
               PROVE  ValueIn(t.known, p) = EvalOf(cells2[InstanceOf[p]], {}, InstanceOf[p])
    BY DEF TiesHeld
  <2>1. InstanceOf[p] \in Leaves /\ InstanceOf[p] # i
    BY DEF IsConstFunc, Tie
  <2>2. cells2[InstanceOf[p]] = cells[InstanceOf[p]] /\ p \in d.pins
    BY <2>1
  <2>3. IsConstFunc(cells, p)
    BY <2>2 DEF IsConstFunc
  <2>4. QED
    BY <1>2, <2>2, <2>3 DEF TiesHeld
<1>6. Evaluated(t, e, con, cells2, PI2)
  <2> SUFFICES ASSUME NEW p \in e.pins, InstanceOf[p] \in Leaves, p \in Outputs, ValueIn(con, p) = {},
                      InstanceOf[p] \notin PI2
               PROVE  ValueIn(t.known, p) = EvalOf(cells2[InstanceOf[p]], t.known, InstanceOf[p])
    BY DEF Evaluated
  <2>1. CASE InstanceOf[p] # i
    <3>1. p \in d.pins /\ InstanceOf[p] \notin PI /\ cells2[InstanceOf[p]] = cells[InstanceOf[p]]
      BY <2>1
    <3>2. QED
      BY <1>2, <3>1 DEF Evaluated
  <2>2. CASE InstanceOf[p] = i
    <3>1. \A q \in Pins : InstanceOf[q] = i => ValueIn(t.known, q) = {}
      BY <2>2
    <3>2. EvalOf(cells2[i], t.known, i) = {}
      BY <3>1, EvalUnknown DEF PinsAt
    <3>3. QED
      BY <2>2, <3>1, <3>2
  <2>3. QED
    BY <2>1, <2>2
<1>7. QED
  BY <1>2, <1>4, <1>5, <1>6 DEF Claims

------------------------------------------------------------------------------
(* The inductive invariant.                                                *)
TiesFree(d, con) == \A p \in d.pins : TieOutput(p) => ValueIn(con, p) = {}

(* The constant functions that are kept are those there are.               *)
TiesNoted(s, d, cells) ==
  s.constFuncPinsValid => s.constFuncPins = {p \in d.pins : IsConstFunc(cells, p)}

(* Loads that are pending are pins of leaves; an instance that is not      *)
(* there is a spare one or is gone.                                        *)
Placed(s, d) ==
  /\ \A p \in s.invalidLoads : InstanceOf[p] # Top
  /\ Instances \ SpareInstances \subseteq d.insts \cup d.gone

(* What edits have left is pending until a propagation begins; then what   *)
(* is queued is.                                                           *)
PendingOf(s, X) == IF ~s.busy /\ ~s.valid THEN X ELSE {}

(* The instances that are still to be evaluated.                           *)
ToEvaluate(s) == IF s.busy THEN s.queue ELSE PendingOf(s, s.invalidInsts)

(* The claims hold once a propagation has begun.                           *)
Accounted(s, d, con, cells) ==
  s.incremental \/ s.busy =>
    Claims(s, d, con, cells, PendingOf(s, s.invalidLoads), PendingOf(s, s.invalidDrvrs), ToEvaluate(s))

(* All of it.                                                              *)
SimInv ==
  /\ SimTyped /\ Wired(design) /\ TiesFree(design, constraint) /\ TiesNoted(sim, design, cell)
  /\ Placed(sim, design) /\ Accounted(sim, design, constraint, cell)

(* What the lemmas on propagation ask for.                                 *)
LEMMA SimInvSound ==
  ASSUME Regular, SimInv
  PROVE  Sound /\ Setting /\ Good(sim) /\ Marks(sim) /\ Flow(sim) /\ sim \in Sims /\ design.pins \subseteq Pins
BY DEF Regular, SimInv, SimTyped, Sound, TiesFree, Setting, ListsInv, Designs, Good

(* It holds at first, as nothing is claimed before the first propagation.  *)
LEMMA InitInv ==
  ASSUME Regular, SimInit
  PROVE  SimInv
<1>1. design = Linked /\ constraint = {} /\ sim = InitSim
  BY DEF SimInit, Init
<1>2. SimTyped
  BY InitTyped
<1>3. Wired(design)
  BY <1>1, LinkedWired
<1>4. TiesFree(design, constraint)
  BY <1>1 DEF TiesFree, ValueIn
<1>5. ~sim.constFuncPinsValid /\ ~sim.incremental /\ ~sim.busy /\ sim.invalidLoads = {}
  BY <1>1 DEF InitSim
<1>6. design.insts = Instances \ SpareInstances
  BY <1>1 DEF Linked
<1>7. QED
  BY <1>2, <1>3, <1>4, <1>5, <1>6 DEF SimInv, TiesNoted, Placed, Accounted

(* ensureConstantsPropagated keeps it: what is pending is seeded.          *)
LEMMA EnsureInv ==
  ASSUME Regular, SimInv, EnsureConstantsPropagated
  PROVE  SimInv'
<1> DEFINE r == Ready(sim)
           z == ClearSimValues(r)
           seeded == IF sim.incremental THEN SeedInvalid(r) ELSE SeedConstants(z)
<1>1. /\ sim' = [seeded EXCEPT !.invalidInsts = {}] /\ UNCHANGED <<cell, constraint>>
      /\ design' = IF sim.incremental THEN LookedUp(sim) ELSE design
      /\ ~sim.valid /\ ~sim.busy
  BY DEF EnsureConstantsPropagated, Ready
<1>2. Sound /\ Setting /\ Good(sim) /\ Marks(sim) /\ Flow(sim) /\ sim \in Sims /\ design.pins \subseteq Pins
  BY SimInvSound
<1>3. ListsInv(design) /\ Wired(design) /\ sim.invalidLoads \subseteq design.pins
  BY <1>2 DEF Sound, Setting, Marks
<1>4. Wired(design') /\ SameNets(design, design') /\ \A p \in Pins : NetAt(design', p) = NetAt(design, p)
  <2>1. CASE sim.incremental
    BY <1>1, <1>3, <2>1, LookedUpDrivers
  <2>2. CASE ~sim.incremental
    BY <1>1, <1>3, <2>2 DEF SameNets
  <2>3. QED
    BY <2>1, <2>2
<1>5. SimTyped'
  BY EnsureTyped DEF SimInv
<1>6. IsReady(sim, r)
  BY <1>2, <1>3, ReadyIs
<1>7. r.constFuncPins = {p \in design.pins : IsConstFunc(cell, p)}
  <2>1. r.constFuncPins = IF sim.constFuncPinsValid THEN sim.constFuncPins
                          ELSE sim.constFuncPins \cup {p \in design.pins : IsConstFunc(cell, p)}
    BY <1>6 DEF IsReady
  <2>2. CASE sim.constFuncPinsValid
    BY <2>1, <2>2 DEF SimInv, TiesNoted
  <2>3. CASE ~sim.constFuncPinsValid
    BY <1>2, <2>1, <2>3 DEF Marks
  <2>4. QED
    BY <2>2, <2>3
<1>8. Good(r)
  BY <1>2, <1>6 DEF Good, IsReady
<1>9. Marks(r)
  BY <1>2, <1>6, <1>7 DEF Marks, IsReady
<1>10. r \in Sims /\ r.busy /\ r.known = sim.known /\ r.invalidLoads = sim.invalidLoads
       /\ r.invalidDrvrs = sim.invalidDrvrs /\ r.invalidInsts = sim.invalidInsts
       /\ r.valid = sim.valid /\ r.incremental = sim.incremental
  BY <1>6 DEF IsReady
<1> HIDE DEF r
<1>11. \E t \in Sims :
         /\ sim' = [t EXCEPT !.invalidInsts = {}] /\ Claims(t, design, constraint, cell, {}, {}, t.queue)
         /\ t.busy /\ t.constFuncPins = r.constFuncPins /\ t.invalidLoads \subseteq sim.invalidLoads
  <2>1. CASE sim.incremental
    <3>1. PICK t : /\ t = SeedInvalid(r) /\ Good(t)
                   /\ Notes([r EXCEPT !.queue = r.invalidInsts \cap Leaves], t)
                   /\ SameButValues([r EXCEPT !.invalidLoads = {}, !.invalidDrvrs = {}], t)
      BY <1>2, <1>8, <1>9, SeedInvalidNotes
    <3>2. Claims(sim, design, constraint, cell, r.invalidLoads, r.invalidDrvrs, r.invalidInsts)
      BY <1>1, <1>10, <2>1 DEF SimInv, Accounted, PendingOf, ToEvaluate
    <3>3. Claims(r, design, constraint, cell, r.invalidLoads, r.invalidDrvrs, r.invalidInsts)
      BY <1>10, <3>2, SamePlaces
    <3>4. \A p \in r.invalidLoads : InstanceOf[p] # Top
      BY <1>10 DEF SimInv, Placed
    <3>5. Claims(t, design, constraint, cell, {}, {}, t.queue)
      BY <1>2, <1>8, <1>9, <3>1, <3>3, <3>4, SeedInvalidClaims
    <3>6. t \in Sims /\ t.busy /\ t.constFuncPins = r.constFuncPins /\ t.invalidLoads = {}
      BY <1>10, <3>1 DEF Good, SameButValues, Sims
    <3>7. sim' = [t EXCEPT !.invalidInsts = {}]
      BY <1>1, <2>1, <3>1
    <3>8. QED
      BY <3>5, <3>6, <3>7
  <2>2. CASE ~sim.incremental
    <3>1. /\ z \in Sims /\ SameButValues([r EXCEPT !.disabled = z.disabled], z) /\ Good(z)
          /\ \A p \in Pins : ValueIn(z.known, p) = {}
      <4> HIDE DEF z
      <4>1. z = ClearSimValues(r)
        BY DEF z
      <4>2. QED
        BY <1>8, <4>1, ClearedIs
    <3> HIDE DEF z
    <3>2. z.constFuncPins = r.constFuncPins /\ z.busy /\ z.invalidLoads = r.invalidLoads
      BY <1>10, <3>1 DEF SameButValues, Sims
    <3> DEFINE t == SeedConstants(z)
    <3>3. Evolves(z, t)
      BY <1>2, <1>7, <3>1, <3>2, SeedConstantsEvolve
    <3>4. Claims(t, design, constraint, cell, {}, {}, t.queue)
      BY <1>2, <1>7, <3>1, <3>2, <3>3, SeedConstantsClaims DEF Evolves
    <3>5. sim' = [t EXCEPT !.invalidInsts = {}]
      BY <1>1, <2>2 DEF z
    <3> HIDE DEF t
    <3>6. t \in Sims /\ t.busy /\ t.constFuncPins = r.constFuncPins /\ t.invalidLoads = sim.invalidLoads
      BY <1>10, <3>2, <3>3 DEF Evolves, SameButValues
    <3>7. QED
      BY <3>4, <3>5, <3>6
  <2>3. QED
    BY <2>1, <2>2
<1>12. PICK t \in Sims :
         /\ sim' = [t EXCEPT !.invalidInsts = {}] /\ Claims(t, design, constraint, cell, {}, {}, t.queue)
         /\ t.busy /\ t.constFuncPins = r.constFuncPins /\ t.invalidLoads \subseteq sim.invalidLoads
  BY <1>11
<1>13. /\ sim'.known = t.known /\ sim'.queue = t.queue /\ sim'.busy
       /\ sim'.constFuncPins = r.constFuncPins /\ sim'.invalidLoads \subseteq sim.invalidLoads
  BY <1>12 DEF Sims
<1>14. design'.pins = design.pins /\ design'.insts = design.insts /\ design'.gone = design.gone
  BY <1>4 DEF SameNets
<1>15. Claims(sim', design', constraint, cell, {}, {}, sim'.queue)
  BY <1>4, <1>12, <1>13, <1>14, SamePlaces
<1>16. Accounted(sim', design', constraint', cell')
  BY <1>1, <1>13, <1>15 DEF Accounted, PendingOf, ToEvaluate
<1>17. TiesFree(design', constraint') /\ TiesNoted(sim', design', cell') /\ Placed(sim', design')
  BY <1>1, <1>7, <1>13, <1>14 DEF SimInv, TiesFree, TiesNoted, Placed
<1>18. QED
  BY <1>4, <1>5, <1>16, <1>17 DEF SimInv

(* The evaluation of an instance keeps it.                                 *)
LEMMA EvalInv ==
  ASSUME Regular, SimInv, NEW i, EvalNext(i)
  PROVE  SimInv'
<1> DEFINE r == [sim EXCEPT !.queue = @ \ {i}]
           v == EvalExpr(sim.known, i)
           S == {q \in OutputsOf(i) : ValueIn(r.known, q) # v}
<1>1. /\ sim' = EvalInstance(r, i, v) /\ UNCHANGED <<design, cell, constraint>> /\ i \in sim.queue
  BY DEF EvalNext
<1>2. Sound /\ Setting /\ Good(sim) /\ Marks(sim) /\ Flow(sim) /\ sim \in Sims /\ design.pins \subseteq Pins
  BY SimInvSound
<1>3. sim.busy
  BY <1>1, <1>2 DEF Flow
<1>4. Claims(sim, design, constraint, cell, {}, {}, sim.queue)
  BY <1>3 DEF SimInv, Accounted, PendingOf, ToEvaluate
<1>5. Claims(sim', design, constraint, cell, {}, {}, sim'.queue)
  <2> HIDE DEF r, v
  <2>1. r = [sim EXCEPT !.queue = @ \ {i}] /\ v = EvalExpr(sim.known, i)
    BY DEF r, v
  <2>2. QED
    BY <1>1, <1>2, <1>4, <2>1, EvalClaims
<1>6. sim' = SetEach(r, S, v)
  BY <1>1 DEF EvalInstance
<1>7. ListsInv(design) /\ i \in design.insts /\ i \in Leaves /\ S \in SUBSET design.pins
  BY <1>1, <1>2 DEF Setting, Good, OutputsOf, PinsOf
<1>8. v \in Values
  BY <1>2, <1>7, EvalTyped
<1>9. r \in Sims /\ SameButValues(sim, r)
  BY <1>2 DEF Sims, SameButValues
<1> HIDE DEF r, v, S
<1>10. Evolves(r, sim')
  BY <1>6, <1>7, <1>8, <1>9, SetEachEvolves
<1>11. /\ sim'.busy /\ sim'.constFuncPins = sim.constFuncPins
       /\ sim'.constFuncPinsValid = sim.constFuncPinsValid /\ sim'.invalidLoads = sim.invalidLoads
  BY <1>3, <1>9, <1>10 DEF Evolves, SameButValues
<1>12. SimTyped'
  BY EvalTypedStep DEF SimInv
<1>13. Accounted(sim', design', constraint', cell')
  BY <1>1, <1>5, <1>11 DEF Accounted, PendingOf, ToEvaluate
<1>14. Wired(design') /\ TiesFree(design', constraint') /\ TiesNoted(sim', design', cell') /\ Placed(sim', design')
  BY <1>1, <1>11 DEF SimInv, TiesFree, TiesNoted, Placed
<1>15. QED
  BY <1>12, <1>13, <1>14 DEF SimInv

(* So does the annotation of arcs, which ends the propagation with nothing *)
(* queued.                                                                 *)
LEMMA AnnotateInv ==
  ASSUME Regular, SimInv, AnnotateGraphEdges
  PROVE  SimInv'
<1> DEFINE looked == {p \in design.pins \ Outputs : InstanceOf[p] \in sim.annotate \cap Leaves}
           disabled == (sim.disabled \ looked) \cup {p \in looked : SenseNone(sim.known, p)}
<1>1. /\ sim' = [sim EXCEPT !.disabled = disabled, !.valid = TRUE, !.incremental = TRUE, !.busy = FALSE]
      /\ UNCHANGED <<design, cell, constraint>> /\ sim.busy /\ sim.queue = {}
  BY DEF AnnotateGraphEdges
<1> HIDE DEF disabled
<1>2. sim \in Sims
  BY SimInvSound
<1>3. /\ sim'.known = sim.known /\ sim'.valid /\ sim'.incremental /\ ~sim'.busy
      /\ sim'.constFuncPins = sim.constFuncPins
      /\ sim'.constFuncPinsValid = sim.constFuncPinsValid /\ sim'.invalidLoads = sim.invalidLoads
  BY <1>1, <1>2 DEF Sims
<1>4. Claims(sim, design, constraint, cell, {}, {}, {})
  BY <1>1 DEF SimInv, Accounted, PendingOf, ToEvaluate
<1>5. Claims(sim', design, constraint, cell, {}, {}, {})
  BY <1>3, <1>4, SamePlaces
<1>6. Accounted(sim', design', constraint', cell')
  BY <1>1, <1>3, <1>5 DEF Accounted, PendingOf, ToEvaluate
<1>7. SimTyped'
  BY AnnotateTyped DEF SimInv
<1>8. Wired(design') /\ TiesFree(design', constraint') /\ TiesNoted(sim', design', cell') /\ Placed(sim', design')
  BY <1>1, <1>3 DEF SimInv, TiesFree, TiesNoted, Placed
<1>9. QED
  BY <1>6, <1>7, <1>8 DEF SimInv

(* A case analysis: what is propagated next is propagated from nothing.    *)
LEMMA CaseInv ==
  ASSUME Regular, SimInv, NEW p \in design.pins, NEW v \in Values, TieOutput(p) => v = {}, ~sim.busy,
         constraint' = SetIn(constraint, p, v),
         sim' = ConstantsInvalid(sim), UNCHANGED <<design, cell>>
  PROVE  SimInv'
<1>1. Sound /\ Setting /\ sim \in Sims /\ design.pins \subseteq Pins
  BY SimInvSound
<1>2. \A q : ValueIn(constraint', q) = IF q = p THEN v ELSE ValueIn(constraint, q)
  <2>1. constraint \in SUBSET (Pins \X (0..1)) /\ p \in Pins /\ v \in SUBSET (0..1)
    BY <1>1 DEF Setting, Values
  <2>2. \A new : new = SetIn(constraint, p, v) =>
          \A q : ValueIn(new, q) = IF q = p THEN v ELSE ValueIn(constraint, q)
    BY <2>1, ConstraintSet
  <2>3. QED
    BY <2>2
<1>3. /\ sim'.constFuncPins = sim.constFuncPins /\ sim'.constFuncPinsValid = sim.constFuncPinsValid
      /\ sim'.invalidLoads = sim.invalidLoads /\ sim'.busy = sim.busy /\ sim'.incremental = FALSE
  BY <1>1, ConstantsInvalidIs
<1>4. TiesFree(design', constraint')
  BY <1>2 DEF SimInv, TiesFree
<1>5. Accounted(sim', design', constraint', cell')
  BY <1>3 DEF Accounted
<1>6. SimTyped'
  BY CaseTyped DEF SimInv
<1>7. Wired(design') /\ TiesNoted(sim', design', cell') /\ Placed(sim', design')
  BY <1>3 DEF SimInv, TiesNoted, Placed
<1>8. QED
  BY <1>4, <1>5, <1>6, <1>7 DEF SimInv

(* replaceCell keeps it: the instance is noted if it has values, and if    *)
(* not its output is unknown before and after.                             *)
LEMMA ReplaceInv ==
  ASSUME Regular, SimInv, NEW e \in Commands, StaReplaceCell(e)
  PROVE  SimInv'
<1> DEFINE i == e.inst
<1>1. /\ e.op = "replaceCell" /\ i \in design.insts /\ cell[i] # e.cell /\ ~sim.busy
      /\ cell' = [cell EXCEPT ![i] = e.cell]
      /\ sim' = PinsSetFuncAfter(sim, i, cell') /\ UNCHANGED <<design, constraint>>
  BY DEF StaReplaceCell, Edit
<1>2. i \in Leaves /\ e.cell \in CellsFor(i)
  BY <1>1, CommandKinds
<1> HIDE DEF i
<1>3. Sound /\ Setting /\ Good(sim) /\ sim \in Sims /\ design.pins \subseteq Pins /\ RegularCells /\ ListsInv(design)
  BY SimInvSound DEF Sound, Setting
<1>4. /\ sim'.known = sim.known /\ sim'.busy = sim.busy /\ sim'.incremental = sim.incremental
      /\ sim'.constFuncPinsValid = sim.constFuncPinsValid
      /\ sim'.invalidLoads = sim.invalidLoads /\ sim'.invalidDrvrs = sim.invalidDrvrs
      /\ sim'.invalidInsts = sim.invalidInsts \cup {j \in {i} : sim.incremental /\ j \in sim.withConstPins}
      /\ sim'.valid = (sim.valid /\ ~sim.incremental)
      /\ sim'.constFuncPins = (sim.constFuncPins \ PinsOf(i)) \cup {p \in PinsOf(i) : IsConstFunc(cell', p)}
  BY <1>1, <1>3, PinsSetFuncIs
<1>5. cell[i] \in CellsFor(i) /\ cell'[i] = e.cell /\ \A j \in Leaves : j # i => cell'[j] = cell[j]
  BY <1>1, <1>2, <1>3 DEF Setting
<1>6. ~Tie(cell[i]) /\ ~Tie(cell'[i])
  BY <1>1, <1>2, <1>3, <1>5 DEF RegularCells
<1>7. \A p \in Pins : IsConstFunc(cell', p) <=> IsConstFunc(cell, p)
  <2>1. ASSUME NEW p \in Pins PROVE IsConstFunc(cell', p) <=> IsConstFunc(cell, p)
    <3>1. CASE InstanceOf[p] = i
      BY <1>6, <3>1 DEF IsConstFunc, Tie
    <3>2. CASE InstanceOf[p] # i
      BY <1>5, <3>2 DEF IsConstFunc
    <3>3. QED
      BY <3>1, <3>2
  <2>2. QED
    BY <2>1
<1>8. TiesNoted(sim', design', cell')
  <2> SUFFICES ASSUME sim'.constFuncPinsValid
               PROVE  sim'.constFuncPins = {p \in design.pins : IsConstFunc(cell', p)}
    BY <1>1 DEF TiesNoted
  <2>1. sim.constFuncPins = {p \in design.pins : IsConstFunc(cell, p)}
    BY <1>4 DEF SimInv, TiesNoted
  <2>2. PinsOf(i) \subseteq design.pins
    BY DEF PinsOf
  <2>3. \A p \in design.pins : IsConstFunc(cell', p) <=> IsConstFunc(cell, p)
    BY <1>3, <1>7
  <2>4. QED
    BY <1>4, <2>1, <2>2, <2>3
<1>9. Accounted(sim', design', constraint', cell')
  <2> SUFFICES ASSUME sim.incremental
               PROVE  Claims(sim', design, constraint, cell', PendingOf(sim', sim'.invalidLoads),
                             PendingOf(sim', sim'.invalidDrvrs), ToEvaluate(sim'))
    BY <1>1, <1>4 DEF Accounted
  <2> DEFINE PL == PendingOf(sim, sim.invalidLoads)
             PD == PendingOf(sim, sim.invalidDrvrs)
             PI == ToEvaluate(sim)
             PL2 == PendingOf(sim', sim'.invalidLoads)
             PD2 == PendingOf(sim', sim'.invalidDrvrs)
             PI2 == ToEvaluate(sim')
  <2>1. Claims(sim, design, constraint, cell, PL, PD, PI)
    BY DEF SimInv, Accounted
  <2>2. PL \subseteq PL2 /\ PD \subseteq PD2
    BY <1>1, <1>4 DEF PendingOf
  <2>3. PI \subseteq PI2 /\ (i \in sim.withConstPins => i \in PI2)
    BY <1>1, <1>4 DEF PendingOf, ToEvaluate
  <2>4. i \in PI2 \/ \A q \in Pins : InstanceOf[q] = i => ValueIn(sim.known, q) = {}
    BY <1>3, <2>3 DEF Good
  <2> HIDE DEF PL, PD, PI, PL2, PD2, PI2
  <2>5. Claims(sim', design, constraint, cell', PL2, PD2, PI2)
    BY <1>2, <1>3, <1>4, <1>5, <1>6, <2>1, <2>2, <2>3, <2>4, OtherCellClaims
  <2>6. QED
    BY <2>5 DEF PL2, PD2, PI2
<1>10. SimTyped'
  BY ReplaceTyped DEF SimInv
<1>11. Wired(design') /\ TiesFree(design', constraint') /\ Placed(sim', design')
  BY <1>1, <1>4 DEF SimInv, TiesFree, Placed
<1>12. QED
  BY <1>8, <1>9, <1>10, <1>11 DEF SimInv

(* connectPin keeps it: the pin is noted.                                  *)
LEMMA ConnectInv ==
  ASSUME Regular, SimInv, NEW e \in Edits, StaConnectPin(e)
  PROVE  SimInv'
<1> DEFINE p == e.pin
           n == e.net
<1>1. /\ e.op = "connect" /\ p \in design.pins /\ n \in design.nets /\ Parent[n] = Scope(p) /\ ~sim.busy
      /\ design' = Connect(design, p, n) /\ (IsDriver(p) => NetDrivers(design, n) = {})
      /\ sim' = ConnectPinAfter(sim, p) /\ UNCHANGED <<cell, constraint>>
  BY DEF StaConnectPin, ConnectPin, Edit
<1>2. Sound /\ Setting /\ sim \in Sims /\ design.pins \subseteq Pins /\ Wired(design) /\ ListsInv(design)
  BY SimInvSound DEF Sound, Setting
<1>3. InstanceOf[p] # Top /\ (IsDriver(p) => n \notin TiedNets)
  BY <1>1 DEF Regular, RegularEdits
<1> HIDE DEF p, n
<1>4. /\ Wired(design') /\ Connects(design, p, n, design')
      /\ \A q \in Pins : NetAt(design', q) = IF q = p THEN n ELSE NetAt(design, q)
  BY <1>1, <1>2, <1>3, ConnectWired
<1>5. design'.pins = design.pins /\ design'.insts = design.insts /\ design'.gone = design.gone
  BY <1>4 DEF Connects
<1>6. p \in Pins /\ n # NoNet
  BY <1>1, <1>2, NoNetApart DEF ListsInv, Designs
<1>7. IsConnected(sim, p, sim')
  BY <1>1, <1>2, <1>6, ConnectPinAfterIs
<1>8. /\ sim'.known = sim.known /\ sim'.busy = sim.busy /\ sim'.incremental = sim.incremental
      /\ sim'.constFuncPinsValid = sim.constFuncPinsValid /\ sim'.invalidInsts = sim.invalidInsts
      /\ sim'.valid = (sim.valid /\ ~sim.incremental)
      /\ sim'.constFuncPins = sim.constFuncPins \cup {q \in {p} : sim.incremental /\ IsConstFunc(cell, q)}
      /\ sim'.invalidLoads = sim.invalidLoads \cup {q \in {p} : sim.incremental /\ IsLoad(q)}
      /\ sim'.invalidDrvrs = sim.invalidDrvrs \cup {q \in {p} : sim.incremental /\ IsDriver(q)}
  BY <1>7 DEF IsConnected
<1>9. TiesNoted(sim', design', cell')
  BY <1>1, <1>5, <1>8 DEF SimInv, TiesNoted
<1>10. Placed(sim', design')
  BY <1>3, <1>5, <1>8 DEF SimInv, Placed
<1>11. Accounted(sim', design', constraint', cell')
  <2> SUFFICES ASSUME sim.incremental
               PROVE  Claims(sim', design', constraint, cell, PendingOf(sim', sim'.invalidLoads),
                             PendingOf(sim', sim'.invalidDrvrs), ToEvaluate(sim'))
    BY <1>1, <1>8 DEF Accounted
  <2> DEFINE PL == PendingOf(sim, sim.invalidLoads)
             PD == PendingOf(sim, sim.invalidDrvrs)
             PI == ToEvaluate(sim)
             PL2 == PendingOf(sim', sim'.invalidLoads)
             PD2 == PendingOf(sim', sim'.invalidDrvrs)
             PI2 == ToEvaluate(sim')
  <2>1. Claims(sim, design, constraint, cell, PL, PD, PI)
    BY DEF SimInv, Accounted
  <2>2. PL \subseteq PL2 /\ PD \subseteq PD2 /\ PI \subseteq PI2
    BY <1>1, <1>8 DEF PendingOf, ToEvaluate
  <2>3. (IsLoad(p) => p \in PL2) /\ (IsDriver(p) => p \in PD2)
    BY <1>1, <1>8 DEF PendingOf
  <2> HIDE DEF PL, PD, PI, PL2, PD2, PI2
  <2>4. Claims(sim', design', constraint, cell, PL2, PD2, PI2)
    BY <1>4, <1>5, <1>6, <1>8, <2>1, <2>2, <2>3, ConnectedClaims
  <2>5. QED
    BY <2>4 DEF PL2, PD2, PI2
<1>12. SimTyped'
  BY ConnectTyped DEF SimInv
<1>13. TiesFree(design', constraint')
  BY <1>1, <1>5 DEF SimInv, TiesFree
<1>14. QED
  BY <1>4, <1>9, <1>10, <1>11, <1>12, <1>13 DEF SimInv

(* disconnectPin keeps it: the value that the load had is removed and its  *)
(* instance noted; the driver that leaves has no loads.                    *)
LEMMA DisconnectInv ==
  ASSUME Regular, SimInv, NEW e \in Edits, StaDisconnectPin(e)
  PROVE  SimInv'
<1> DEFINE p == e.pin
<1>1. /\ e.op = "disconnect" /\ p \in design.pins /\ ~sim.busy /\ design' = Disconnect(design, p)
      /\ sim' = DisconnectPinBefore(sim, p) /\ UNCHANGED <<cell, constraint>>
  BY DEF StaDisconnectPin, DisconnectPin, Edit
<1>2. Sound /\ Setting /\ Good(sim) /\ sim \in Sims /\ design.pins \subseteq Pins /\ Wired(design)
  BY SimInvSound DEF Sound
<1>3. InstanceOf[p] # Top
  BY <1>1 DEF Regular, RegularEdits
<1> HIDE DEF p
<1>4. /\ Wired(design') /\ Disconnects(design, p, design')
      /\ \A q \in Pins : NetAt(design', q) = IF q = p THEN NoNet ELSE NetAt(design, q)
  BY <1>1, <1>2, <1>3, DisconnectWired
<1>5. design'.pins = design.pins /\ design'.insts = design.insts /\ design'.gone = design.gone
  BY <1>4 DEF Disconnects
<1>6. p \in Pins
  BY <1>1, <1>2
<1>7. IsDisconnected(sim, p, sim')
  BY <1>1, <1>2, <1>6, DisconnectPinBeforeIs
<1>8. /\ sim'.busy = sim.busy /\ sim'.incremental = sim.incremental
      /\ sim'.constFuncPinsValid = sim.constFuncPinsValid /\ sim'.constFuncPins = sim.constFuncPins
      /\ \A q \in Pins : ValueIn(sim'.known, q) =
           IF q = p /\ Removes(sim, p) /\ ValueIn(constraint, p) = {} THEN {} ELSE ValueIn(sim.known, q)
      /\ sim'.invalidInsts = sim.invalidInsts \cup {i \in {InstanceOf[p]} : Removes(sim, p)}
      /\ sim'.valid = (sim.valid /\ ~Removes(sim, p))
      /\ sim'.invalidLoads = sim.invalidLoads \cup {q \in {p} : sim.incremental /\ IsLoad(q)}
      /\ sim.invalidDrvrs \subseteq sim'.invalidDrvrs
  BY <1>7 DEF IsDisconnected
<1>9. TiesNoted(sim', design', cell')
  BY <1>1, <1>5, <1>8 DEF SimInv, TiesNoted
<1>10. Placed(sim', design')
  BY <1>3, <1>5, <1>8 DEF SimInv, Placed
<1>11. Accounted(sim', design', constraint', cell')
  <2> SUFFICES ASSUME sim.incremental
               PROVE  Claims(sim', design', constraint, cell, PendingOf(sim', sim'.invalidLoads),
                             PendingOf(sim', sim'.invalidDrvrs), ToEvaluate(sim'))
    BY <1>1, <1>8 DEF Accounted
  <2> DEFINE PL == PendingOf(sim, sim.invalidLoads)
             PD == PendingOf(sim, sim.invalidDrvrs)
             PI == ToEvaluate(sim)
             PL2 == PendingOf(sim', sim'.invalidLoads)
             PD2 == PendingOf(sim', sim'.invalidDrvrs)
             PI2 == ToEvaluate(sim')
  <2>1. Claims(sim, design, constraint, cell, PL, PD, PI)
    BY DEF SimInv, Accounted
  <2>2. PL \subseteq PL2 /\ PD \subseteq PD2 /\ PI \subseteq PI2
    BY <1>1, <1>8 DEF PendingOf, ToEvaluate
  <2>3. Removes(sim, p) => InstanceOf[p] \in PI2
    BY <1>1, <1>8 DEF PendingOf, ToEvaluate
  <2> HIDE DEF PL, PD, PI, PL2, PD2, PI2
  <2>4. ValueIn(sim'.known, p) = ValueIn(sim.known, p) \/ InstanceOf[p] \in PI2
    BY <1>6, <1>8, <2>3
  <2>5. \A q \in Pins : q # p \/ ~IsLoad(p) \/ ValueIn(constraint, p) # {} =>
                          ValueIn(sim'.known, q) = ValueIn(sim.known, q)
    BY <1>8 DEF Removes
  <2>6. IsLoad(p) /\ ValueIn(constraint, p) = {} => ValueIn(sim'.known, p) = {}
    <3>1. CASE Removes(sim, p)
      BY <1>6, <1>8, <3>1
    <3>2. CASE ~Removes(sim, p) /\ IsLoad(p)
      <4>1. InstanceOf[p] \notin sim.withConstPins
        BY <3>2 DEF Removes
      <4>2. ValueIn(sim.known, p) = {}
        BY <1>2, <1>6, <4>1 DEF Good
      <4>3. QED
        BY <1>6, <1>8, <3>2, <4>2
    <3>3. QED
      BY <3>1, <3>2
  <2>7. Claims(sim', design', constraint, cell, PL2, PD2, PI2)
    BY <1>2, <1>3, <1>4, <1>5, <1>6, <2>1, <2>2, <2>4, <2>5, <2>6, DisconnectedClaims
  <2>8. QED
    BY <2>7 DEF PL2, PD2, PI2
<1>12. SimTyped'
  BY DisconnectTyped DEF SimInv
<1>13. TiesFree(design', constraint')
  BY <1>1, <1>5 DEF SimInv, TiesFree
<1>14. QED
  BY <1>4, <1>9, <1>10, <1>11, <1>12, <1>13 DEF SimInv

(* deleteInstance keeps it, though it tells the loads of what is gone      *)
(* nothing.                                                                *)
LEMMA DeleteInv ==
  ASSUME Regular, SimInv, NEW e \in Edits, StaDeleteInstance(e)
  PROVE  SimInv'
<1> DEFINE i == e.inst
<1>1. /\ e.op = "deleteInstance" /\ design' = DeleteInstance(design, i)
      /\ sim' = DeleteInstanceBefore(sim, i) /\ UNCHANGED <<cell, constraint>>
      /\ ~sim.busy /\ \A k \in constraint : InstanceOf[k[1]] # i
  BY DEF StaDeleteInstance, RemoveInstance, Edit
<1>2. i \in Leaves
  BY <1>1, SimAssumption
<1> HIDE DEF i
<1>3. Sound /\ Setting /\ sim \in Sims /\ design.pins \subseteq Pins /\ Wired(design) /\ ListsInv(design)
  BY SimInvSound DEF Sound, Setting
<1>4. /\ design'.insts = design.insts \ {i} /\ design'.gone = design.gone \cup {i}
      /\ design'.pins = {p \in design.pins : InstanceOf[p] # i}
  BY <1>1, <1>2, <1>3, LeafDeleted
<1>5. /\ Wired(design')
      /\ \A q \in Pins : NetAt(design', q) = IF InstanceOf[q] = i THEN NoNet ELSE NetAt(design, q)
  BY <1>1, <1>2, <1>3, DeleteWired
<1>6. IsDeleted(sim, i, sim')
  BY <1>1, <1>3, DeleteInstanceBeforeIs
<1>7. /\ sim'.busy = sim.busy /\ sim'.incremental = sim.incremental /\ sim'.valid = sim.valid
      /\ sim'.constFuncPinsValid = sim.constFuncPinsValid
      /\ sim'.constFuncPins = sim.constFuncPins \ PinsOf(i)
      /\ sim'.invalidLoads = sim.invalidLoads \ PinsOf(i) /\ sim'.invalidDrvrs = sim.invalidDrvrs \ PinsOf(i)
      /\ sim'.invalidInsts = sim.invalidInsts \ {i}
      /\ \A q \in Pins : ValueIn(sim'.known, q) = IF q \in PinsOf(i) THEN {} ELSE ValueIn(sim.known, q)
  BY <1>6 DEF IsDeleted
<1>8. PinsOf(i) = {p \in design.pins : InstanceOf[p] = i}
  BY DEF PinsOf
<1>9. \A q \in Pins : ValueIn(sim'.known, q) = IF InstanceOf[q] = i THEN {} ELSE ValueIn(sim.known, q)
  <2>1. \A q \in Pins : q \notin design.pins => ValueIn(sim.known, q) = {}
    BY SimInvSound DEF Good
  <2>2. QED
    BY <1>7, <1>8, <2>1
<1>10. \A q \in Pins : InstanceOf[q] = i => ValueIn(constraint, q) = {}
  BY <1>1 DEF ValueIn
<1>11. TiesNoted(sim', design', cell')
  BY <1>1, <1>4, <1>7, <1>8 DEF SimInv, TiesNoted
<1>12. Placed(sim', design')
  BY <1>4, <1>7 DEF SimInv, Placed
<1>13. Accounted(sim', design', constraint', cell')
  <2> SUFFICES ASSUME sim.incremental
               PROVE  Claims(sim', design', constraint, cell, PendingOf(sim', sim'.invalidLoads),
                             PendingOf(sim', sim'.invalidDrvrs), ToEvaluate(sim'))
    BY <1>1, <1>7 DEF Accounted
  <2> DEFINE PL == PendingOf(sim, sim.invalidLoads)
             PD == PendingOf(sim, sim.invalidDrvrs)
             PI == ToEvaluate(sim)
             PL2 == PendingOf(sim', sim'.invalidLoads)
             PD2 == PendingOf(sim', sim'.invalidDrvrs)
             PI2 == ToEvaluate(sim')
  <2>1. Claims(sim, design, constraint, cell, PL, PD, PI)
    BY DEF SimInv, Accounted
  <2>2. \A q \in Pins : InstanceOf[q] # i => (q \in PL => q \in PL2) /\ (q \in PD => q \in PD2)
    BY <1>1, <1>7, <1>8 DEF PendingOf
  <2>3. \A j \in PI : j = i \/ j \in PI2
    BY <1>1, <1>7 DEF PendingOf, ToEvaluate
  <2> HIDE DEF PL, PD, PI, PL2, PD2, PI2
  <2>4. Claims(sim', design', constraint, cell, PL2, PD2, PI2)
    BY <1>2, <1>3, <1>4, <1>5, <1>9, <1>10, <2>1, <2>2, <2>3, DeletedClaims
  <2>5. QED
    BY <2>4 DEF PL2, PD2, PI2
<1>14. SimTyped'
  BY DeleteTyped DEF SimInv
<1>15. TiesFree(design', constraint')
  BY <1>1, <1>4 DEF SimInv, TiesFree
<1>16. QED
  BY <1>5, <1>11, <1>12, <1>13, <1>14, <1>15 DEF SimInv

(* makeInstance keeps it: the new instance has no values.                  *)
LEMMA MakeInv ==
  ASSUME Regular, SimInv, NEW e \in Edits, StaMakeInstance(e)
  PROVE  SimInv'
<1> DEFINE i == e.inst
<1>1. /\ e.op = "makeInstance" /\ design' = MakeInstance(design, i) /\ UNCHANGED <<cell, constraint, sim>>
      /\ ~sim.busy /\ i \notin design.insts \cup design.gone
  BY DEF StaMakeInstance, AddInstance, Edit
<1>2. i \in Instances \ {Top}
  BY <1>1, EditKinds
<1> HIDE DEF i
<1>3. /\ Sound /\ Setting /\ Good(sim) /\ sim \in Sims /\ design.pins \subseteq Pins /\ Wired(design)
      /\ ListsInv(design) /\ RegularCells
  BY SimInvSound DEF Sound, Setting
<1>4. i \in SpareInstances
  BY <1>1, <1>2 DEF SimInv, Placed
<1>5. /\ design'.insts = design.insts \cup {i} /\ design'.gone = design.gone
      /\ design'.pins = design.pins \cup {p \in Pins : InstanceOf[p] = i}
  BY <1>1, <1>2, <1>3, MakeInstanceLists
<1>6. Wired(design') /\ \A q \in Pins : NetAt(design', q) = NetAt(design, q)
  BY <1>1, <1>2, <1>3, MakeWired
<1>7. \A q \in Pins : InstanceOf[q] = i => q \notin design.pins /\ ValueIn(sim.known, q) = {}
  BY <1>1, <1>3 DEF ListsInv, Whole, Good
<1>8. i \in Leaves => /\ cell[i] \in CellsFor(i) /\ ~Tie(cell[i]) /\ ~Tie(LinkedCell[i])
  BY <1>3, <1>4 DEF Setting, RegularCells, CellsFor
<1>9. \A q \in Pins : InstanceOf[q] = i => ~TieOutput(q) /\ ~IsConstFunc(cell, q)
  BY <1>8 DEF TieOutput, IsConstFunc, Tie
<1>10. TiesFree(design', constraint') /\ TiesNoted(sim', design', cell') /\ Placed(sim', design')
  BY <1>1, <1>5, <1>9 DEF SimInv, TiesFree, TiesNoted, Placed
<1>11. Accounted(sim', design', constraint', cell')
  <2> DEFINE PL == PendingOf(sim, sim.invalidLoads)
             PD == PendingOf(sim, sim.invalidDrvrs)
             PI == ToEvaluate(sim)
  <2> SUFFICES ASSUME sim.incremental PROVE Claims(sim, design', constraint, cell, PL, PD, PI)
    BY <1>1 DEF Accounted
  <2>1. Claims(sim, design, constraint, cell, PL, PD, PI)
    BY DEF SimInv, Accounted
  <2> HIDE DEF PL, PD, PI
  <2>2. CASE i \in Leaves
    <3>1. \A p \in design'.pins : InstanceOf[p] # i => p \in design.pins
      BY <1>5
    <3>2. design'.pins \subseteq Pins
      BY <1>3, <1>5
    <3>3. QED
      BY <1>3, <1>6, <1>7, <1>8, <2>1, <2>2, <3>1, <3>2, OtherCellClaims
  <2>3. CASE i \notin Leaves
    <3>1. \A p \in Pins : InstanceOf[p] # i
      BY <1>2, <2>3, SimAssumption
    <3>2. design'.pins = design.pins
      BY <1>5, <3>1
    <3>3. QED
      BY <1>6, <2>1, <3>2, SamePlaces
  <2>4. QED
    BY <2>2, <2>3
<1>12. SimTyped'
  BY MakeTyped DEF SimInv
<1>13. QED
  BY <1>6, <1>10, <1>11, <1>12 DEF SimInv

(* Every step keeps it.                                                    *)
LEMMA SimInvStays ==
  ASSUME Regular, SimInv, [SimNext]_simVars
  PROVE  SimInv'
<1>1. CASE UNCHANGED simVars
  <2>1. UNCHANGED <<design, cell, constraint, sim>>
    BY <1>1 DEF simVars
  <2>2. SimTyped'
    BY SimTypedStays DEF SimInv
  <2>3. QED
    BY <2>1, <2>2 DEF SimInv
<1>2. CASE EnsureConstantsPropagated
  BY <1>2, EnsureInv
<1>3. ASSUME NEW i \in Instances, EvalNext(i) PROVE SimInv'
  BY <1>3, EvalInv
<1>4. CASE AnnotateGraphEdges
  BY <1>4, AnnotateInv
<1>5. ASSUME NEW e \in Commands, SetCaseAnalysis(e) PROVE SimInv'
  <2>1. /\ e.op = "setCase" /\ e.pin \in design.pins /\ e.value \in 0..1 /\ ~sim.busy
        /\ constraint' = {k \in constraint : k[1] # e.pin} \cup {<<e.pin, e.value>>}
        /\ sim' = ConstantsInvalid(sim) /\ UNCHANGED <<design, cell>>
    BY <1>5, CommandKinds DEF SetCaseAnalysis, Edit
  <2>2. {e.value} \in Values /\ constraint' = SetIn(constraint, e.pin, {e.value})
    BY <2>1 DEF Values, SetIn
  <2>3. ~TieOutput(e.pin)
    BY <2>1 DEF Regular, RegularEdits
  <2>4. QED
    BY <2>1, <2>2, <2>3, CaseInv
<1>6. ASSUME NEW e \in Commands, RemoveCaseAnalysis(e) PROVE SimInv'
  <2>1. /\ e.pin \in Pins /\ ValueIn(constraint, e.pin) # {} /\ ~sim.busy
        /\ constraint' = {k \in constraint : k[1] # e.pin}
        /\ sim' = ConstantsInvalid(sim) /\ UNCHANGED <<design, cell>>
    BY <1>6, CommandKinds DEF RemoveCaseAnalysis, Edit
  <2>2. constraint \in SUBSET (design.pins \X (0..1))
    BY DEF SimInv, SimTyped, Setting
  <2>3. e.pin \in design.pins
    BY <2>1, <2>2 DEF ValueIn
  <2>4. {} \in Values /\ constraint' = SetIn(constraint, e.pin, {})
    BY <2>1 DEF Values, SetIn
  <2>5. QED
    BY <2>1, <2>3, <2>4, CaseInv
<1>7. ASSUME NEW e \in Commands, StaReplaceCell(e) PROVE SimInv'
  BY <1>7, ReplaceInv
<1>8. ASSUME NEW e \in Edits, StaConnectPin(e) PROVE SimInv'
  BY <1>8, ConnectInv
<1>9. ASSUME NEW e \in Edits, StaDisconnectPin(e) PROVE SimInv'
  BY <1>9, DisconnectInv
<1>10. ASSUME NEW e \in Edits, StaDeleteInstance(e) PROVE SimInv'
  BY <1>10, DeleteInv
<1>11. ASSUME NEW e \in Edits, StaMakeInstance(e) PROVE SimInv'
  BY <1>11, MakeInv
<1>12. QED
  BY <1>1, <1>2, <1>3, <1>4, <1>5, <1>6, <1>7, <1>8, <1>9, <1>10, <1>11 DEF SimNext

------------------------------------------------------------------------------
(* What the invariant says when a propagation has ended.                   *)
LEMMA SimInvCurrent ==
  ASSUME Regular, SimInv
  PROVE  ConstantsCurrent
<1> SUFFICES ASSUME sim.valid, Driven, NEW p \in design.pins
             PROVE  ValueIn(sim.known, p) = Implied(sim.known, p)
  BY DEF ConstantsCurrent
<1>1. Sound /\ Setting /\ Good(sim) /\ Flow(sim) /\ sim \in Sims /\ design.pins \subseteq Pins /\ Wired(design)
      /\ ListsInv(design) /\ design.constants = ConstantNets
  BY SimInvSound DEF Sound, Setting
<1>2. sim.incremental /\ ~sim.busy
  BY <1>1 DEF Flow
<1>3. Claims(sim, design, constraint, cell, {}, {}, {})
  BY <1>2 DEF SimInv, Accounted, PendingOf, ToEvaluate
<1>4. p \in Pins /\ InstanceOf[p] \in design.insts
  BY <1>1 DEF ListsInv, Whole
<1>5. CASE ValueIn(constraint, p) # {}
  BY <1>3, <1>4, <1>5 DEF Claims, Held, Implied
<1>6. CASE ValueIn(constraint, p) = {} /\ InstanceOf[p] \in Leaves /\ p \in Outputs
  <2>1. ValueIn(sim.known, p) = EvalOf(cell[InstanceOf[p]], sim.known, InstanceOf[p])
    BY <1>3, <1>6 DEF Claims, Evaluated
  <2>2. EvalExpr(sim.known, InstanceOf[p]) = EvalOf(cell[InstanceOf[p]], sim.known, InstanceOf[p])
    BY <1>1, <1>4, EvalIs
  <2>3. QED
    BY <1>6, <2>1, <2>2 DEF Implied
<1>7. CASE ValueIn(constraint, p) = {} /\ ~(InstanceOf[p] \in Leaves /\ p \in Outputs)
  <2> DEFINE n == NetAt(design, p)
             Tied == {v \in 0..1 : \E m \in design.constants[v] : p \in ConnectedPins(design, m)}
             Near == {q \in PinConnectedPins(design, p) \ {p} : IsDriver(q)}
  <2>1. Implied(sim.known, p) = Tied \cup UNION {ValueIn(sim.known, q) : q \in Near}
    BY <1>7 DEF Implied, NetValue
  <2>2. Near = {q \in Pins \ {p} : IsDriver(q) /\ NetAt(design, q) = n /\ n # NoNet}
    BY <1>1, <1>4, PinsOnPin
  <2>3. Tied = {v \in 0..1 : n \in ConstantNets[v]}
    <3>1. ASSUME NEW v \in 0..1, NEW m \in ConstantNets[v]
          PROVE  p \in ConnectedPins(design, m) <=> n = m
      <4>1. m \in Nets
        BY NetlistAssumption
      <4>2. QED
        BY <1>1, <1>4, <4>1, PinsOnNet
    <3>2. QED
      BY <1>1, <3>1
  <2> HIDE DEF n, Tied, Near
  <2>4. n \in design.nets \cup {NoNet} /\ NoNet \notin Nets /\ design.nets \subseteq Nets
    BY <1>1, <1>4, NoNetApart DEF n, Wired, ListsInv, Designs
  <2>5. \A v \in 0..1 : NoNet \notin ConstantNets[v]
    BY NoNetApart, NetlistAssumption
  <2>6. CASE IsDriver(p)
    <3>1. InstanceOf[p] = Top /\ p \notin Outputs
      BY <1>7, <2>6 DEF IsDriver
    <3>2. ValueIn(sim.known, p) = {}
      BY <1>3, <1>4, <1>7, <3>1 DEF Claims, PortsFree
    <3>3. Near = {}
      BY <1>1, <1>4, <2>2, <2>6 DEF n, Wired
    <3>4. Tied = {}
      BY <1>1, <1>4, <2>3, <2>6 DEF n, Wired, TiedNets
    <3>5. QED
      BY <2>1, <3>2, <3>3, <3>4
  <2>7. CASE IsLoad(p)
    <3>1. /\ n = NoNet => ValueIn(sim.known, p) = {}
          /\ \A v \in 0..1 : n \in ConstantNets[v] => ValueIn(sim.known, p) = {v}
          /\ \A q \in Pins : IsDriver(q) /\ NetAt(design, q) = n /\ n # NoNet =>
               ValueIn(sim.known, p) = ValueIn(sim.known, q)
      BY <1>3, <1>4, <1>7, <2>7 DEF Claims, Loaded, Fits, n
    <3>2. CASE n = NoNet
      <4>1. Near = {} /\ Tied = {}
        BY <2>2, <2>3, <2>5, <3>2
      <4>2. QED
        BY <2>1, <3>1, <3>2, <4>1
    <3>3. CASE \E v \in 0..1 : n \in ConstantNets[v]
      <4>1. PICK v \in 0..1 : n \in ConstantNets[v]
        BY <3>3
      <4>2. n \in TiedNets
        BY <4>1 DEF TiedNets
      <4>3. Near = {}
        BY <1>1, <2>2, <4>2 DEF Wired
      <4>4. Tied = {v}
        BY <2>3, <4>1, SimAssumption
      <4>5. QED
        BY <2>1, <3>1, <4>1, <4>3, <4>4
    <3>4. CASE n # NoNet /\ ~\E v \in 0..1 : n \in ConstantNets[v]
      <4>1. n \in design.nets /\ n \in Nets
        BY <2>4, <3>4
      <4>2. p \in ConnectedPins(design, n)
        BY <1>1, <1>4, <4>1, PinsOnNet DEF n
      <4>3. NetDrivers(design, n) # {}
        BY <1>1, <2>7, <3>4, <4>1, <4>2 DEF Driven
      <4>4. PICK r \in Pins : IsDriver(r) /\ NetAt(design, r) = n
        BY <1>1, <4>1, <4>3, DriversOnNet
      <4>5. \A q \in Pins : IsDriver(q) /\ NetAt(design, q) = n => q = r
        BY <1>1, <3>4, <4>4 DEF Wired
      <4>6. r # p
        BY <1>4, <2>7, <4>4, DrivesOrLoads
      <4>7. Near = {r}
        BY <2>2, <3>4, <4>4, <4>5, <4>6
      <4>8. Tied = {}
        BY <2>3, <3>4
      <4>9. ValueIn(sim.known, p) = ValueIn(sim.known, r)
        BY <3>1, <3>4, <4>4
      <4>10. QED
        BY <2>1, <4>7, <4>8, <4>9
    <3>5. QED
      BY <3>2, <3>3, <3>4
  <2>8. QED
    BY <1>4, <2>6, <2>7, DrivesOrLoads
<1>8. QED
  BY <1>5, <1>6, <1>7

(* When ensureConstantsPropagated has ended, from nothing or from what     *)
(* edits have left, every value is its constraint, the function of its     *)
(* instance, its constant net's or its driver's, if every load is driven.  *)
THEOREM SimConstantsCurrent == Regular => (SimSpec => []ConstantsCurrent)
<1> SUFFICES ASSUME Regular PROVE SimSpec => []ConstantsCurrent
  OBVIOUS
<1>1. SimInit => SimInv
  BY InitInv
<1>2. SimInv /\ [SimNext]_simVars => SimInv'
  BY SimInvStays
<1>3. SimInv => ConstantsCurrent
  BY SimInvCurrent
<1>4. QED
  BY <1>1, <1>2, <1>3, PTL DEF SimSpec

------------------------------------------------------------------------------
(* Whether constants disable the arcs from a pin, whatever the netlist is. *)
SenseOf(c, known, p) ==
  \/ ValueIn(known, p) # {}
  \/ /\ c \notin Sequentials
     /\ \A f \in CompletionsOf(known, InstanceOf[p]) :
          Function(c, [f EXCEPT ![PortOf[p]] = 0]) = Function(c, [f EXCEPT ![PortOf[p]] = 1])

(* This is what Sim says, of an instance of the design.                    *)
LEMMA SenseIs ==
  ASSUME ListsInv(design), NEW p, InstanceOf[p] \in design.insts, NEW known
  PROVE  SenseNone(known, p) <=> SenseOf(cell[InstanceOf[p]], known, p)
<1>1. Completions(known, InstanceOf[p]) = CompletionsOf(known, InstanceOf[p])
  BY CompletionsAre
<1>2. QED
  BY <1>1 DEF SenseNone, SenseOf

(* It depends on the values of the inputs of the instance alone.           *)
LEMMA SenseSame ==
  ASSUME NEW c, NEW i, NEW p \in PinsAt(i), NEW k1, NEW k2,
         \A q \in PinsAt(i) : ValueIn(k1, q) = ValueIn(k2, q)
  PROVE  SenseOf(c, k1, p) <=> SenseOf(c, k2, p)
<1>1. InstanceOf[p] = i
  BY DEF PinsAt
<1>2. CompletionsOf(k1, i) = CompletionsOf(k2, i)
  BY CompletionsSame
<1>3. ValueIn(k1, p) = ValueIn(k2, p)
  OBVIOUS
<1>4. QED
  BY <1>1, <1>2, <1>3 DEF SenseOf

(* Nothing is disabled while all is unknown: every input matters.          *)
LEMMA SenseUnknown ==
  ASSUME RegularCells, NEW i \in Leaves, NEW c \in CellsFor(i), NEW p \in PinsAt(i), NEW known,
         \A q \in PinsAt(i) : ValueIn(known, q) = {}
  PROVE  ~SenseOf(c, known, p)
<1>1. InstanceOf[p] = i /\ PortOf[p] \in InputPorts(i) /\ ValueIn(known, p) = {}
  BY DEF PinsAt, InputPorts
<1>2. \A f \in [InputPorts(i) -> 0..1] : f \in CompletionsOf(known, i)
  BY PortPin DEF CompletionsOf, Possible
<1>3. ~Tie(c)
  BY <1>1 DEF RegularCells
<1> DEFINE x == PortOf[p]
<1>4. c \notin Sequentials =>
        \E f \in [InputPorts(i) -> 0..1] : Function(c, [f EXCEPT ![x] = 0]) # Function(c, [f EXCEPT ![x] = 1])
  <2>1. x \in InputPorts(i)
    BY <1>1
  <2> HIDE DEF x
  <2>2. c \notin Sequentials =>
          \A port \in InputPorts(i) : \E f \in [InputPorts(i) -> 0..1] :
            Function(c, [f EXCEPT ![port] = 0]) # Function(c, [f EXCEPT ![port] = 1])
    BY <1>3 DEF RegularCells
  <2>3. QED
    BY <2>1, <2>2
<1>5. QED
  BY <1>1, <1>2, <1>4 DEF SenseOf

------------------------------------------------------------------------------
(* The arcs of an instance are as its values have them; if not, it is to   *)
(* be annotated, or an input is on no driven net or is pending.            *)
ArcsFit(s, cells, i) ==
  \A p \in PinsAt(i) :
    /\ p \in s.disabled => SenseOf(cells[i], s.known, p)
    /\ SenseOf(cells[i], s.known, p) => p \in s.disabled \/ cells[i] # LinkedCell[i]

(* The pin is on no net, or on one that is not constant and has no driver. *)
Apart(d, p) ==
  \/ NetAt(d, p) = NoNet
  \/ NetAt(d, p) \notin TiedNets /\ \A q \in Pins : IsDriver(q) => NetAt(d, q) # NetAt(d, p)

(* The pin, or the driver of its net, is pending.                          *)
Awaits(d, p, PL, PD) ==
  p \in PL \/ \E q \in PD : q \in Pins /\ IsDriver(q) /\ NetAt(d, q) = NetAt(d, p)

(* An input of the instance that is not constrained is apart or pending.   *)
Detached(d, con, i, PL, PD) ==
  \E p \in PinsAt(i) : ValueIn(con, p) = {} /\ (Apart(d, p) \/ Awaits(d, p, PL, PD))

(* What holds of the arcs of every instance.                               *)
ArcsFollow(s, d, con, cells, PL, PD, PA) ==
  \A i \in d.insts \cap Leaves : ArcsFit(s, cells, i) \/ i \in PA \/ Detached(d, con, i, PL, PD)

(* The arcs of an instance fit while its values, its cell and what is      *)
(* disabled stay.                                                          *)
LEMMA ArcsFitKept ==
  ASSUME NEW s, NEW cells, NEW i, ArcsFit(s, cells, i), NEW t, NEW cells2, cells2[i] = cells[i],
         \A p \in PinsAt(i) : ValueIn(t.known, p) = ValueIn(s.known, p) /\ (p \in t.disabled <=> p \in s.disabled)
  PROVE  ArcsFit(t, cells2, i)
<1> SUFFICES ASSUME NEW p \in PinsAt(i)
             PROVE  /\ p \in t.disabled => SenseOf(cells[i], t.known, p)
                    /\ SenseOf(cells[i], t.known, p) => p \in t.disabled \/ cells[i] # LinkedCell[i]
  BY DEF ArcsFit
<1>1. SenseOf(cells[i], t.known, p) <=> SenseOf(cells[i], s.known, p)
  BY SenseSame
<1>2. QED
  BY <1>1 DEF ArcsFit

(* They fit when nothing is known and nothing is disabled.                 *)
LEMMA ArcsFitUnknown ==
  ASSUME RegularCells, NEW i \in Leaves, NEW s, NEW cells, cells[i] \in CellsFor(i),
         \A p \in PinsAt(i) : ValueIn(s.known, p) = {} /\ p \notin s.disabled
  PROVE  ArcsFit(s, cells, i)
BY SenseUnknown DEF ArcsFit

------------------------------------------------------------------------------
(* A load whose net gives it a value has its instance annotated, be the    *)
(* value new or not.                                                       *)
LEMMA LoadMarked ==
  ASSUME Wired(design), NEW s \in Sims, NEW p \in Pins, IsLoad(p), NEW v \in SUBSET (0..1),
         NEW t, t = SetPinValue(s, p, v)
  PROVE  /\ t \in Sims /\ s.annotate \subseteq t.annotate
         /\ ValueIn(constraint, p) = {} => InstanceOf[p] \in t.annotate
<1>1. SetsPin(s, p, v, t)
  BY SetPinDoes DEF Wired
<1>2. t \in Sims /\ t.annotate = s.annotate \cup (IF Settable(p, v) THEN Of(Reached(p, v)) ELSE {})
  BY <1>1 DEF SetsPin
<1>3. ValueIn(constraint, p) = {} => Settable(p, v) /\ p \in Reached(p, v)
  BY DEF Settable, Reached
<1>4. QED
  BY <1>2, <1>3 DEF Of

(* A load that is invalid has its instance annotated, unless it is apart.  *)
LEMMA InvalidLoadMarked ==
  ASSUME Sound, NEW d, SameNets(design, d), NEW p \in Pins, IsLoad(p), InstanceOf[p] # Top,
         LET n == design.netOf[p]
         IN  n # NoNet /\ n \notin TiedNets => d.drvrs[n] = {q \in Pins : IsDriver(q) /\ NetAt(design, q) = n},
         NEW s \in Sims, NEW t, t = SetInvalidLoad(d, p, s)
  PROVE  /\ t \in Sims /\ s.annotate \subseteq t.annotate
         /\ ValueIn(constraint, p) = {} => Apart(design, p) \/ InstanceOf[p] \in t.annotate
<1> DEFINE n == design.netOf[p]
<1>1. Wired(design) /\ NetAt(design, p) = n /\ d.netOf[p] = n /\ d.constants = ConstantNets
  BY NetAtIs DEF Sound, Setting, SameNets
<1>2. n \in TiedNets <=> \E w \in 0..1 : n \in ConstantNets[w]
  BY DEF TiedNets
<1>3. n # NoNet /\ n \notin TiedNets => d.drvrs[n] = {q \in Pins : IsDriver(q) /\ NetAt(design, q) = n}
  BY DEF n
<1> HIDE DEF n
<1>4. CASE t = s
  <2>1. n = NoNet \/ (n \notin TiedNets /\ d.drvrs[n] = {}) => Apart(design, p)
    BY <1>1, <1>3 DEF Apart
  <2>2. CASE n = NoNet \/ (n \notin TiedNets /\ d.drvrs[n] = {})
    BY <1>4, <2>1, <2>2
  <2>3. CASE n # NoNet /\ n \in TiedNets
    <3>1. t = SetPinValue(s, p, {w \in 0..1 : n \in ConstantNets[w]})
      BY <1>1, <1>2, <2>3 DEF SetInvalidLoad
    <3>2. {w \in 0..1 : n \in ConstantNets[w]} \in SUBSET (0..1)
      OBVIOUS
    <3>3. QED
      BY <1>1, <3>1, <3>2, LoadMarked
  <2>4. CASE n # NoNet /\ n \notin TiedNets /\ d.drvrs[n] # {}
    <3>1. t = SetPinValue(s, p, ValueIn(s.known, DrvrOf(d, p)))
      BY <1>1, <1>2, <2>4 DEF SetInvalidLoad
    <3>2. ValueIn(s.known, DrvrOf(d, p)) \in SUBSET (0..1)
      BY ValueMembers DEF Sims
    <3>3. QED
      BY <1>1, <3>1, <3>2, LoadMarked
  <2>5. QED
    BY <2>2, <2>3, <2>4
<1>5. CASE t # s
  <2>1. \E v \in SUBSET (0..1) : t = SetPinValue(s, p, v)
    <3>1. {w \in 0..1 : n \in ConstantNets[w]} \in SUBSET (0..1) /\ ValueIn(s.known, DrvrOf(d, p)) \in SUBSET (0..1)
      BY ValueMembers DEF Sims
    <3>2. \/ t = SetPinValue(s, p, {w \in 0..1 : n \in ConstantNets[w]})
          \/ t = SetPinValue(s, p, ValueIn(s.known, DrvrOf(d, p)))
      BY <1>1, <1>5 DEF SetInvalidLoad
    <3>3. QED
      BY <3>1, <3>2
  <2>2. QED
    BY <1>1, <2>1, LoadMarked
<1>6. QED
  BY <1>4, <1>5

(* All the invalid loads.                                                  *)
LEMMA InvalidLoadsMarked ==
  ASSUME Sound, NEW s \in Sims, s.invalidLoads \subseteq {p \in design.pins : IsLoad(p) /\ InstanceOf[p] # Top}
  PROVE  \E t \in Sims :
           /\ PropagateToInvalidLoads(s) = [t EXCEPT !.invalidLoads = {}]
           /\ \A p \in s.invalidLoads : ValueIn(constraint, p) = {} => Apart(design, p) \/ InstanceOf[p] \in t.annotate
<1> DEFINE S == s.invalidLoads
           d == LookedUp(s)
           W == [T \in SUBSET S |-> {u \in Sims :
                   \A p \in T : ValueIn(constraint, p) = {} => Apart(design, p) \/ InstanceOf[p] \in u.annotate}]
<1>1. Wired(design) /\ ListsInv(design) /\ design.pins \subseteq Pins /\ design.constants = ConstantNets
  BY DEF Sound, Setting, ListsInv, Designs
<1>2. S \subseteq design.pins /\ \A p \in S : IsLoad(p) /\ InstanceOf[p] # Top
  OBVIOUS
<1>3. /\ SameNets(design, d) /\ \A n \in NetsLookedUp(s) : d.drvrs[n] = {p \in Pins : IsDriver(p) /\ NetAt(design, p) = n}
  BY <1>1, <1>2, LookedUpDrivers
<1>4. \A p \in S : design.netOf[p] # NoNet /\ design.netOf[p] \notin TiedNets => design.netOf[p] \in NetsLookedUp(s)
  BY <1>1 DEF NetsLookedUp, TiedNets
<1>5. s \in W[{}]
  OBVIOUS
<1> HIDE DEF d
<1>6. ASSUME NEW T \in SUBSET S, NEW x \in S, NEW u \in Sims, x \in T, u \in W[T \ {x}]
      PROVE  SetInvalidLoad(d, x, u) \in W[T]
  <2> DEFINE w == SetInvalidLoad(d, x, u)
  <2>1. \A p \in T \ {x} : ValueIn(constraint, p) = {} => Apart(design, p) \/ InstanceOf[p] \in u.annotate
    BY <1>6
  <2>2. x \in Pins /\ IsLoad(x) /\ InstanceOf[x] # Top /\ x \in S
    BY <1>1, <1>2, <1>6
  <2> HIDE DEF W, S
  <2>3. LET n == design.netOf[x]
        IN  n # NoNet /\ n \notin TiedNets => d.drvrs[n] = {q \in Pins : IsDriver(q) /\ NetAt(design, q) = n}
    BY <1>3, <1>4, <2>2
  <2>4. /\ w \in Sims /\ u.annotate \subseteq w.annotate
        /\ ValueIn(constraint, x) = {} => Apart(design, x) \/ InstanceOf[x] \in w.annotate
    BY <1>3, <2>2, <2>3, InvalidLoadMarked
  <2> HIDE DEF w
  <2>5. \A p \in T : ValueIn(constraint, p) = {} => Apart(design, p) \/ InstanceOf[p] \in w.annotate
    BY <2>1, <2>4
  <2>6. w \in W[T]
    BY <1>6, <2>4, <2>5 DEF W
  <2>7. QED
    BY <2>6 DEF w
<1>7. \E t \in Sims : t \in W[S] /\ PropagateToInvalidLoads(s) = [t EXCEPT !.invalidLoads = {}]
  <2>1. d = LookedUp(s)
    BY DEF d
  <2> HIDE DEF W
  <2>2. S = s.invalidLoads
    OBVIOUS
  <2> HIDE DEF S
  <2>3. QED
    BY <1>1, <1>5, <1>6, <2>1, <2>2, InvalidLoadsStay
<1>8. QED
  BY <1>7

(* Loads that are set to the same value.                                   *)
LEMMA EachMarked ==
  ASSUME Wired(design), NEW s \in Sims, NEW S \in SUBSET Pins, \A p \in S : IsLoad(p), NEW v \in SUBSET (0..1),
         NEW t, t = SetEach(s, S, v)
  PROVE  /\ t \in Sims /\ s.annotate \subseteq t.annotate
         /\ \A p \in S : ValueIn(constraint, p) = {} => InstanceOf[p] \in t.annotate
<1> DEFINE W == [T \in SUBSET S |-> {u \in Sims : /\ s.annotate \subseteq u.annotate
                   /\ \A p \in T : ValueIn(constraint, p) = {} => InstanceOf[p] \in u.annotate}]
<1>1. ListsInv(design)
  BY DEF Wired
<1>2. s \in W[{}]
  OBVIOUS
<1>3. ASSUME NEW T \in SUBSET S, NEW x \in S, NEW u \in Sims, x \in T, u \in W[T \ {x}]
      PROVE  SetPinValue(u, x, v) \in W[T]
  <2> DEFINE w == SetPinValue(u, x, v)
  <2>1. /\ s.annotate \subseteq u.annotate
        /\ \A p \in T \ {x} : ValueIn(constraint, p) = {} => InstanceOf[p] \in u.annotate
    BY <1>3
  <2>2. x \in Pins /\ IsLoad(x)
    BY <1>3
  <2> HIDE DEF W
  <2>3. /\ w \in Sims /\ u.annotate \subseteq w.annotate
        /\ ValueIn(constraint, x) = {} => InstanceOf[x] \in w.annotate
    BY <2>2, LoadMarked
  <2> HIDE DEF w
  <2>4. w \in W[T]
    BY <1>3, <2>1, <2>3 DEF W
  <2>5. QED
    BY <2>4 DEF w
<1>4. t \in W[S]
  <2> HIDE DEF W
  <2>1. QED
    BY <1>1, <1>2, <1>3, SetEachStays
<1>5. QED
  BY <1>4

(* The loads of all the invalid drivers.                                   *)
LEMMA InvalidDrvrsMarked ==
  ASSUME Sound, NEW s \in Sims, s.invalidDrvrs \subseteq {p \in design.pins : IsDriver(p)},
         s.constFuncPins \subseteq {p \in design.pins : IsConstFunc(cell, p)}
  PROVE  \E t \in Sims :
           /\ PropagateFromInvalidDrvrs(s) = [t EXCEPT !.invalidDrvrs = {}] /\ s.annotate \subseteq t.annotate
           /\ \A q \in s.invalidDrvrs, p \in Pins :
                p \in Loads(design, q) /\ ValueIn(constraint, p) = {} => InstanceOf[p] \in t.annotate
<1> DEFINE S == s.invalidDrvrs
           W == [T \in SUBSET S |-> {u \in Sims : /\ s.annotate \subseteq u.annotate
                   /\ \A q \in T, p \in Pins :
                        p \in Loads(design, q) /\ ValueIn(constraint, p) = {} => InstanceOf[p] \in u.annotate}]
<1>1. ListsInv(design) /\ Wired(design) /\ design.pins \subseteq Pins
  BY DEF Sound, Setting, ListsInv, Designs
<1>2. S \subseteq Pins /\ \A q \in S : IsDriver(q)
  BY <1>1
<1>3. ASSUME NEW q \in S PROVE DrvrValue(s, q) \in SUBSET (0..1)
  <2>1. q \in s.constFuncPins => ConstFuncValue(q) \in SUBSET (0..1)
    BY TieValue
  <2>2. ValueIn(s.known, q) \in SUBSET (0..1)
    BY ValueMembers DEF Sims
  <2>3. QED
    BY <2>1, <2>2 DEF DrvrValue
<1>4. s \in W[{}]
  OBVIOUS
<1>5. ASSUME NEW T \in SUBSET S, NEW x \in S, NEW u \in Sims, x \in T, u \in W[T \ {x}]
      PROVE  SetEach(u, Loads(design, x), DrvrValue(s, x)) \in W[T]
  <2> DEFINE w == SetEach(u, Loads(design, x), DrvrValue(s, x))
  <2>1. /\ s.annotate \subseteq u.annotate
        /\ \A q \in T \ {x}, p \in Pins :
             p \in Loads(design, q) /\ ValueIn(constraint, p) = {} => InstanceOf[p] \in u.annotate
    BY <1>5
  <2>2. x \in Pins /\ IsDriver(x) /\ DrvrValue(s, x) \in SUBSET (0..1)
    BY <1>2, <1>3, <1>5
  <2> HIDE DEF W, S
  <2>3. Loads(design, x) \in SUBSET Pins /\ \A p \in Loads(design, x) : IsLoad(p)
    BY <1>1, <2>2, LoadsOnPin
  <2>4. /\ w \in Sims /\ u.annotate \subseteq w.annotate
        /\ \A p \in Loads(design, x) : ValueIn(constraint, p) = {} => InstanceOf[p] \in w.annotate
    BY <1>1, <2>2, <2>3, EachMarked
  <2> HIDE DEF w
  <2>5. w \in W[T]
    BY <1>5, <2>1, <2>4 DEF W
  <2>6. QED
    BY <2>5 DEF w
<1>6. \E t \in Sims : t \in W[S] /\ PropagateFromInvalidDrvrs(s) = [t EXCEPT !.invalidDrvrs = {}]
  <2> HIDE DEF W
  <2>1. S = s.invalidDrvrs
    OBVIOUS
  <2> HIDE DEF S
  <2>2. QED
    BY <1>1, <1>3, <1>4, <1>5, <2>1, InvalidDrvrsStay
<1>7. QED
  BY <1>6

(* What a propagation from what edits have left has annotated.             *)
LEMMA SeedInvalidMarks ==
  ASSUME Sound, NEW s, Good(s), Marks(s), \A p \in s.invalidLoads : InstanceOf[p] # Top,
         NEW t, t = SeedInvalid(s)
  PROVE  /\ \A p \in s.invalidLoads :
              ValueIn(constraint, p) = {} => Apart(design, p) \/ InstanceOf[p] \in t.annotate
         /\ \A q \in s.invalidDrvrs, p \in Pins :
              p \in Loads(design, q) /\ ValueIn(constraint, p) = {} => InstanceOf[p] \in t.annotate
<1> DEFINE q0 == [s EXCEPT !.queue = s.invalidInsts \cap Leaves]
           l == PropagateToInvalidLoads(q0)
<1>1. t = PropagateFromInvalidDrvrs(l)
  BY DEF SeedInvalid
<1>2. s \in Sims /\ ListsInv(design) /\ Setting
  BY DEF Sound, Setting, Good
<1>3. q0 \in Sims /\ q0.known = s.known /\ q0.withConstPins = s.withConstPins
      /\ q0.queue = s.invalidInsts \cap Leaves /\ q0.invalidLoads = s.invalidLoads /\ SameButValues(s, q0)
  BY <1>2 DEF Sims, SameButValues
<1>4. Good(q0)
  BY <1>3 DEF Good, Marks
<1>5. q0.invalidLoads \subseteq {p \in design.pins : IsLoad(p) /\ InstanceOf[p] # Top}
  BY <1>3 DEF Marks
<1>6. LookedUp(q0).constants = design.constants
  BY <1>2, <1>5, LookedUpSame DEF SameNets
<1> HIDE DEF q0
<1>7. PICK a : Evolves(q0, a) /\ Good(a) /\ l = [a EXCEPT !.invalidLoads = {}]
  BY <1>2, <1>4, <1>5, <1>6, InvalidLoadsEvolve
<1>8. l.invalidDrvrs = s.invalidDrvrs /\ l.constFuncPins = s.constFuncPins /\ l \in Sims
  <2>1. a \in Sims /\ a.invalidDrvrs = s.invalidDrvrs /\ a.constFuncPins = s.constFuncPins
    BY <1>3, <1>7 DEF Evolves, SameButValues
  <2>2. QED
    BY <1>7, <2>1 DEF Sims
<1>9. PICK b \in Sims :
        /\ l = [b EXCEPT !.invalidLoads = {}]
        /\ \A p \in q0.invalidLoads : ValueIn(constraint, p) = {} => Apart(design, p) \/ InstanceOf[p] \in b.annotate
  BY <1>3, <1>5, InvalidLoadsMarked
<1>10. l.annotate = b.annotate
  BY <1>9 DEF Sims
<1> HIDE DEF l
<1>11. l.invalidDrvrs \subseteq {p \in design.pins : IsDriver(p)}
       /\ l.constFuncPins \subseteq {p \in design.pins : IsConstFunc(cell, p)}
  BY <1>8 DEF Marks
<1>12. PICK c \in Sims :
         /\ t = [c EXCEPT !.invalidDrvrs = {}] /\ l.annotate \subseteq c.annotate
         /\ \A q \in l.invalidDrvrs, p \in Pins :
              p \in Loads(design, q) /\ ValueIn(constraint, p) = {} => InstanceOf[p] \in c.annotate
  BY <1>1, <1>8, <1>11, InvalidDrvrsMarked
<1>13. t.annotate = c.annotate
  BY <1>12 DEF Sims
<1>14. QED
  BY <1>3, <1>8, <1>9, <1>10, <1>12, <1>13

------------------------------------------------------------------------------
(* An instance stays apart or pending when a pin moves to another net.     *)
LEMMA MovedDetached ==
  ASSUME NEW d, Wired(d), NEW e, NEW p \in Pins, NEW n,
         \A q \in Pins : NetAt(e, q) = IF q = p THEN n ELSE NetAt(d, q),
         NEW PL, NEW PD, NEW PL2, NEW PD2, PL \subseteq PL2, PD \subseteq PD2,
         IsLoad(p) => n = NoNet \/ p \in PL2, IsDriver(p) => n = NoNet \/ p \in PD2,
         NEW con, NEW i \in Leaves, Detached(d, con, i, PL, PD)
  PROVE  Detached(e, con, i, PL2, PD2)
<1>1. PICK q \in PinsAt(i) : ValueIn(con, q) = {} /\ (Apart(d, q) \/ Awaits(d, q, PL, PD))
  BY DEF Detached
<1>2. q \in Pins /\ ~IsDriver(q) /\ IsLoad(q)
  <2>1. q \in Pins /\ q \notin Outputs /\ InstanceOf[q] = i
    BY DEF PinsAt
  <2>2. i # Top
    BY NetlistAssumption
  <2>3. QED
    BY <2>1, <2>2, DrivesOrLoads DEF IsDriver
<1>3. Apart(e, q) \/ Awaits(e, q, PL2, PD2)
  <2>1. CASE q = p
    BY <1>2, <2>1 DEF Apart, Awaits
  <2>2. CASE q # p /\ NetAt(d, q) = NoNet
    BY <1>2, <2>2 DEF Apart
  <2>3. CASE q # p /\ NetAt(d, q) # NoNet /\ Apart(d, q)
    <3>1. NetAt(e, q) \notin TiedNets /\ \A r \in Pins : IsDriver(r) => NetAt(d, r) # NetAt(e, q)
      BY <1>2, <2>3 DEF Apart
    <3>2. CASE IsDriver(p) /\ n = NetAt(e, q)
      <4>1. p \in PD2 /\ NetAt(e, p) = NetAt(e, q)
        BY <1>2, <2>3, <3>2
      <4>2. QED
        BY <3>2, <4>1 DEF Awaits
    <3>3. CASE ~(IsDriver(p) /\ n = NetAt(e, q))
      BY <3>1, <3>3 DEF Apart
    <3>4. QED
      BY <3>2, <3>3
  <2>4. CASE q # p /\ NetAt(d, q) # NoNet /\ Awaits(d, q, PL, PD)
    <3>1. CASE q \in PL
      BY <3>1 DEF Awaits
    <3>2. CASE q \notin PL
      <4>1. PICK r \in PD : r \in Pins /\ IsDriver(r) /\ NetAt(d, r) = NetAt(d, q)
        BY <2>4, <3>2 DEF Awaits
      <4>2. CASE r # p \/ n = NetAt(d, q)
        <5>1. NetAt(e, r) = NetAt(e, q) /\ r \in PD2
          BY <1>2, <2>4, <4>1, <4>2
        <5>2. QED
          BY <4>1, <5>1 DEF Awaits
      <4>3. CASE r = p /\ n # NetAt(d, q)
        <5>1. NetAt(e, q) = NetAt(d, r) /\ NetAt(d, r) \notin TiedNets
          BY <1>2, <2>4, <4>1 DEF Wired
        <5>2. ASSUME NEW x \in Pins, IsDriver(x) PROVE NetAt(e, x) # NetAt(e, q)
          <6>1. CASE x = p
            BY <1>2, <2>4, <4>3, <6>1
          <6>2. CASE x # p
            <7>1. NetAt(e, x) = NetAt(d, x) /\ (NetAt(d, x) = NetAt(d, r) => x = r)
              BY <2>4, <4>1, <5>2, <6>2 DEF Wired
            <7>2. QED
              BY <4>3, <5>1, <6>2, <7>1
          <6>3. QED
            BY <6>1, <6>2
        <5>3. QED
          BY <5>1, <5>2 DEF Apart
      <4>4. QED
        BY <4>2, <4>3
    <3>3. QED
      BY <3>1, <3>2
  <2>5. QED
    BY <1>1, <2>1, <2>2, <2>3, <2>4
<1>4. QED
  BY <1>1, <1>3 DEF Detached

(* The arcs follow when a pin of a leaf is connected or disconnected.      *)
LEMMA MovedArcs ==
  ASSUME NEW d, Wired(d), NEW e, e.insts = d.insts, NEW p \in Pins, NEW n,
         \A q \in Pins : NetAt(e, q) = IF q = p THEN n ELSE NetAt(d, q),
         NEW PL, NEW PD, NEW PL2, NEW PD2, PL \subseteq PL2, PD \subseteq PD2,
         IsLoad(p) => n = NoNet \/ p \in PL2, IsDriver(p) => n = NoNet \/ p \in PD2,
         NEW s, NEW t, NEW con, NEW cells, t.disabled = s.disabled,
         \A q \in Pins : q # p \/ ValueIn(con, p) # {} => ValueIn(t.known, q) = ValueIn(s.known, q),
         ArcsFollow(s, d, con, cells, PL, PD, {})
  PROVE  ArcsFollow(t, e, con, cells, PL2, PD2, {})
<1>0. \A j \in Leaves : Detached(d, con, j, PL, PD) => Detached(e, con, j, PL2, PD2)
  <2> SUFFICES ASSUME NEW j \in Leaves, Detached(d, con, j, PL, PD) PROVE Detached(e, con, j, PL2, PD2)
    OBVIOUS
  <2>1. QED
    BY MovedDetached
<1> SUFFICES ASSUME NEW i \in e.insts \cap Leaves
             PROVE  ArcsFit(t, cells, i) \/ Detached(e, con, i, PL2, PD2)
  BY DEF ArcsFollow
<1>1. i \in Leaves /\ (ArcsFit(s, cells, i) \/ Detached(d, con, i, PL, PD))
  BY DEF ArcsFollow
<1>2. CASE Detached(d, con, i, PL, PD)
  BY <1>0, <1>1, <1>2
<1>3. CASE ArcsFit(s, cells, i) /\ p \in PinsAt(i) /\ ValueIn(con, p) = {}
  <2>1. IsLoad(p)
    <3>1. InstanceOf[p] # Top /\ p \notin Outputs
      BY <1>1, <1>3, NetlistAssumption DEF PinsAt
    <3>2. QED
      BY <3>1, DrivesOrLoads DEF IsDriver
  <2>2. Apart(e, p) \/ Awaits(e, p, PL2, PD2)
    BY <2>1 DEF Apart, Awaits
  <2>3. QED
    BY <1>3, <2>2 DEF Detached
<1>4. CASE ArcsFit(s, cells, i) /\ (p \notin PinsAt(i) \/ ValueIn(con, p) # {})
  <2>1. \A q \in PinsAt(i) : ValueIn(t.known, q) = ValueIn(s.known, q)
    BY <1>4 DEF PinsAt
  <2>2. QED
    BY <1>4, <2>1, ArcsFitKept
<1>5. QED
  BY <1>1, <1>2, <1>3, <1>4

(* The arcs follow when a leaf is deleted: the loads of its drivers are    *)
(* apart.                                                                  *)
LEMMA DeletedArcs ==
  ASSUME NEW d, Wired(d), NEW e, NEW i \in Leaves, e.insts = d.insts \ {i},
         \A q \in Pins : NetAt(e, q) = IF InstanceOf[q] = i THEN NoNet ELSE NetAt(d, q),
         NEW PL, NEW PD, NEW PL2, NEW PD2,
         \A q \in Pins : InstanceOf[q] # i => (q \in PL => q \in PL2) /\ (q \in PD => q \in PD2),
         NEW s, NEW t, NEW con, NEW cells,
         \A q \in Pins : InstanceOf[q] # i =>
           (q \in t.disabled <=> q \in s.disabled) /\ ValueIn(t.known, q) = ValueIn(s.known, q),
         ArcsFollow(s, d, con, cells, PL, PD, {})
  PROVE  ArcsFollow(t, e, con, cells, PL2, PD2, {})
<1> SUFFICES ASSUME NEW j \in e.insts \cap Leaves
             PROVE  ArcsFit(t, cells, j) \/ Detached(e, con, j, PL2, PD2)
  BY DEF ArcsFollow
<1>1. j \in Leaves /\ j # i /\ (ArcsFit(s, cells, j) \/ Detached(d, con, j, PL, PD))
  BY DEF ArcsFollow
<1>2. \A q \in PinsAt(j) : q \in Pins /\ InstanceOf[q] # i
  BY <1>1 DEF PinsAt
<1>3. CASE ArcsFit(s, cells, j)
  BY <1>2, <1>3, ArcsFitKept
<1>4. CASE Detached(d, con, j, PL, PD)
  <2>1. PICK q \in PinsAt(j) : ValueIn(con, q) = {} /\ (Apart(d, q) \/ Awaits(d, q, PL, PD))
    BY <1>4 DEF Detached
  <2>2. q \in Pins /\ InstanceOf[q] # i /\ NetAt(e, q) = NetAt(d, q)
    BY <1>2
  <2>3. Apart(e, q) \/ Awaits(e, q, PL2, PD2)
    <3>1. CASE NetAt(d, q) = NoNet
      BY <2>2, <3>1 DEF Apart
    <3>2. CASE NetAt(d, q) # NoNet /\ Apart(d, q)
      <4>1. \A r \in Pins : IsDriver(r) => NetAt(e, r) # NetAt(e, q)
        BY <2>2, <3>2 DEF Apart
      <4>2. QED
        BY <2>2, <3>2, <4>1 DEF Apart
    <3>3. CASE NetAt(d, q) # NoNet /\ Awaits(d, q, PL, PD)
      <4>1. CASE q \in PL
        BY <2>2, <4>1 DEF Awaits
      <4>2. CASE q \notin PL
        <5>1. PICK r \in PD : r \in Pins /\ IsDriver(r) /\ NetAt(d, r) = NetAt(d, q)
          BY <3>3, <4>2 DEF Awaits
        <5>2. CASE InstanceOf[r] # i
          <6>1. NetAt(e, r) = NetAt(e, q) /\ r \in PD2
            BY <2>2, <5>1, <5>2
          <6>2. QED
            BY <5>1, <6>1 DEF Awaits
        <5>3. CASE InstanceOf[r] = i
          <6>1. NetAt(e, q) = NetAt(d, r) /\ NetAt(d, r) \notin TiedNets
            BY <2>2, <5>1 DEF Wired
          <6>2. ASSUME NEW x \in Pins, IsDriver(x) PROVE NetAt(e, x) # NetAt(e, q)
            <7>1. CASE InstanceOf[x] = i
              BY <2>2, <3>3, <7>1
            <7>2. CASE InstanceOf[x] # i
              <8>1. NetAt(e, x) = NetAt(d, x) /\ (NetAt(d, x) = NetAt(d, r) => x = r)
                BY <3>3, <5>1, <6>2, <7>2 DEF Wired
              <8>2. QED
                BY <5>3, <6>1, <7>2, <8>1
            <7>3. QED
              BY <7>1, <7>2
          <6>3. QED
            BY <6>1, <6>2 DEF Apart
        <5>4. QED
          BY <5>2, <5>3
      <4>3. QED
        BY <4>1, <4>2
    <3>4. QED
      BY <2>1, <3>1, <3>2, <3>3
  <2>4. QED
    BY <2>1, <2>3 DEF Detached
<1>5. QED
  BY <1>1, <1>3, <1>4

(* The same places of the pins, more pending.                              *)
LEMMA SameDetached ==
  ASSUME NEW d, NEW e, \A q \in Pins : NetAt(e, q) = NetAt(d, q),
         NEW PL, NEW PD, NEW PL2, NEW PD2, PL \subseteq PL2, PD \subseteq PD2,
         NEW con, NEW i, Detached(d, con, i, PL, PD)
  PROVE  Detached(e, con, i, PL2, PD2)
<1>1. PICK q \in PinsAt(i) : ValueIn(con, q) = {} /\ (Apart(d, q) \/ Awaits(d, q, PL, PD))
  BY DEF Detached
<1>2. q \in Pins /\ NetAt(e, q) = NetAt(d, q)
  BY DEF PinsAt
<1>3. Apart(d, q) => Apart(e, q)
  BY <1>2 DEF Apart
<1>4. Awaits(d, q, PL, PD) => Awaits(e, q, PL2, PD2)
  BY <1>2 DEF Awaits
<1>5. QED
  BY <1>1, <1>3, <1>4 DEF Detached

(* Values change only of the pins of instances to annotate.                *)
LEMMA NotedArcs ==
  ASSUME NEW s, NEW d, NEW con, NEW cells, NEW PL, NEW PD, NEW PA, ArcsFollow(s, d, con, cells, PL, PD, PA),
         NEW t, t.disabled = s.disabled, NEW PA2, PA \subseteq PA2,
         \A p \in Pins : ValueIn(t.known, p) # ValueIn(s.known, p) => InstanceOf[p] \in PA2,
         NEW PL2, NEW PD2,
         \A i \in Leaves : Detached(d, con, i, PL, PD) => i \in PA2 \/ Detached(d, con, i, PL2, PD2)
  PROVE  ArcsFollow(t, d, con, cells, PL2, PD2, PA2)
<1> SUFFICES ASSUME NEW i \in d.insts \cap Leaves, i \notin PA2
             PROVE  ArcsFit(t, cells, i) \/ Detached(d, con, i, PL2, PD2)
  BY DEF ArcsFollow
<1>1. ArcsFit(s, cells, i) \/ Detached(d, con, i, PL, PD)
  BY DEF ArcsFollow
<1>2. \A p \in PinsAt(i) : ValueIn(t.known, p) = ValueIn(s.known, p)
  BY DEF PinsAt
<1>3. ArcsFit(s, cells, i) => ArcsFit(t, cells, i)
  BY <1>2, ArcsFitKept
<1>4. QED
  BY <1>1, <1>3

(* Looking up drivers makes no difference to arcs.                         *)
LEMMA SamePlacesArcs ==
  ASSUME NEW s, NEW d, NEW con, NEW cells, NEW PA, ArcsFollow(s, d, con, cells, {}, {}, PA),
         NEW t, t.known = s.known, t.disabled = s.disabled,
         NEW e, e.insts = d.insts, \A p \in Pins : NetAt(e, p) = NetAt(d, p)
  PROVE  ArcsFollow(t, e, con, cells, {}, {}, PA)
<1> SUFFICES ASSUME NEW i \in d.insts \cap Leaves, i \notin PA
             PROVE  ArcsFit(t, cells, i) \/ Detached(e, con, i, {}, {})
  BY DEF ArcsFollow
<1>1. ArcsFit(s, cells, i) \/ Detached(d, con, i, {}, {})
  BY DEF ArcsFollow
<1>2. Detached(d, con, i, {}, {}) => Detached(e, con, i, {}, {})
  BY SameDetached
<1>3. ArcsFit(s, cells, i) => ArcsFit(t, cells, i)
  BY ArcsFitKept
<1>4. QED
  BY <1>1, <1>2, <1>3

------------------------------------------------------------------------------
(* The inductive invariant of the arcs.                                    *)
DisabledNoted(s) == \A p \in s.disabled : InstanceOf[p] \in s.withConstPins

(* The instances to annotate, while a propagation is going on.             *)
PendingArcs(s) == IF s.busy THEN s.annotate ELSE {}

(* What holds of the arcs once a propagation has begun.                    *)
ArcsAccounted(s, d, con, cells) ==
  s.incremental \/ s.busy =>
    ArcsFollow(s, d, con, cells, PendingOf(s, s.invalidLoads), PendingOf(s, s.invalidDrvrs), PendingArcs(s))

(* All of it.                                                              *)
ArcsInv == SimInv /\ DisabledNoted(sim) /\ ArcsAccounted(sim, design, constraint, cell)

(* At first nothing is disabled and nothing claimed.                       *)
LEMMA InitArcs ==
  ASSUME SimInit
  PROVE  DisabledNoted(sim) /\ ArcsAccounted(sim, design, constraint, cell)
BY DEF SimInit, InitSim, DisabledNoted, ArcsAccounted

(* ensureConstantsPropagated has annotated what changes or was pending.    *)
LEMMA EnsureArcs ==
  ASSUME Regular, ArcsInv, EnsureConstantsPropagated
  PROVE  (DisabledNoted(sim) /\ ArcsAccounted(sim, design, constraint, cell))'
<1> DEFINE r == Ready(sim)
           z == ClearSimValues(r)
           seeded == IF sim.incremental THEN SeedInvalid(r) ELSE SeedConstants(z)
<1>1. /\ sim' = [seeded EXCEPT !.invalidInsts = {}] /\ UNCHANGED <<cell, constraint>>
      /\ design' = IF sim.incremental THEN LookedUp(sim) ELSE design
      /\ ~sim.valid /\ ~sim.busy
  BY DEF EnsureConstantsPropagated, Ready
<1>2. /\ Sound /\ Setting /\ Good(sim) /\ Marks(sim) /\ sim \in Sims /\ design.pins \subseteq Pins
      /\ SimInv /\ Placed(sim, design) /\ TiesNoted(sim, design, cell)
      /\ DisabledNoted(sim) /\ ArcsAccounted(sim, design, constraint, cell)
  BY SimInvSound DEF ArcsInv, SimInv
<1>3. ListsInv(design) /\ Wired(design) /\ sim.invalidLoads \subseteq design.pins /\ RegularCells
  BY <1>2 DEF Sound, Setting, Marks
<1>4. SameNets(design, design') /\ \A p \in Pins : NetAt(design', p) = NetAt(design, p)
  <2>1. CASE sim.incremental
    BY <1>1, <1>3, <2>1, LookedUpDrivers
  <2>2. CASE ~sim.incremental
    BY <1>1, <1>3, <2>2 DEF SameNets
  <2>3. QED
    BY <2>1, <2>2
<1>5. IsReady(sim, r)
  BY <1>2, <1>3, ReadyIs
<1>6. r.constFuncPins \subseteq {p \in design.pins : IsConstFunc(cell, p)}
  BY <1>2, <1>5 DEF IsReady, Marks
<1>7. Good(r) /\ Marks(r)
  <2>1. Good(r)
    BY <1>2, <1>5 DEF Good, IsReady
  <2>2. Marks(r)
    BY <1>2, <1>5, <1>6 DEF Marks, IsReady
  <2>3. QED
    BY <2>1, <2>2
<1>8. /\ r \in Sims /\ r.busy /\ r.known = sim.known /\ r.invalidLoads = sim.invalidLoads
      /\ r.invalidDrvrs = sim.invalidDrvrs /\ r.annotate = {} /\ r.disabled = sim.disabled
      /\ r.withConstPins = sim.withConstPins
  BY <1>5 DEF IsReady
<1> HIDE DEF r
<1>9. \E t \in Sims :
        /\ sim' = [t EXCEPT !.invalidInsts = {}] /\ t.busy /\ DisabledNoted(t)
        /\ ArcsFollow(t, design, constraint, cell, {}, {}, t.annotate)
  <2>1. CASE sim.incremental
    <3>1. PICK t : /\ t = SeedInvalid(r) /\ Good(t)
                   /\ Notes([r EXCEPT !.queue = r.invalidInsts \cap Leaves], t)
                   /\ SameButValues([r EXCEPT !.invalidLoads = {}, !.invalidDrvrs = {}], t)
      BY <1>2, <1>7, SeedInvalidNotes
    <3>2. t \in Sims /\ t.busy /\ t.disabled = sim.disabled
      BY <1>8, <3>1 DEF Good, SameButValues, Sims
    <3>3. /\ sim.withConstPins \subseteq t.withConstPins
          /\ \A p \in Pins : ValueIn(t.known, p) # ValueIn(sim.known, p) => InstanceOf[p] \in t.annotate
      <4> DEFINE w == [r EXCEPT !.queue = r.invalidInsts \cap Leaves]
      <4>1. w.known = sim.known /\ w.withConstPins = sim.withConstPins /\ Notes(w, t)
        BY <1>8, <3>1 DEF Sims
      <4> HIDE DEF w
      <4>2. QED
        BY <4>1 DEF Notes
    <3>4. ArcsFollow(sim, design, constraint, cell, sim.invalidLoads, sim.invalidDrvrs, {})
      BY <1>1, <1>2, <2>1 DEF ArcsAccounted, PendingOf, PendingArcs
    <3>5. /\ \A p \in sim.invalidLoads :
               ValueIn(constraint, p) = {} => Apart(design, p) \/ InstanceOf[p] \in t.annotate
          /\ \A q \in sim.invalidDrvrs, p \in Pins :
               p \in Loads(design, q) /\ ValueIn(constraint, p) = {} => InstanceOf[p] \in t.annotate
      <4>1. \A p \in r.invalidLoads : InstanceOf[p] # Top
        BY <1>2, <1>8 DEF Placed
      <4>2. QED
        BY <1>2, <1>7, <1>8, <3>1, <4>1, SeedInvalidMarks
    <3>6. ASSUME NEW i \in Leaves, Detached(design, constraint, i, sim.invalidLoads, sim.invalidDrvrs)
          PROVE  i \in t.annotate \/ Detached(design, constraint, i, {}, {})
      <4>1. PICK p \in PinsAt(i) : /\ ValueIn(constraint, p) = {}
                                   /\ Apart(design, p) \/ Awaits(design, p, sim.invalidLoads, sim.invalidDrvrs)
        BY <3>6 DEF Detached
      <4>2. p \in Pins /\ InstanceOf[p] = i /\ IsLoad(p)
        <5>1. p \in Pins /\ p \notin Outputs /\ InstanceOf[p] = i /\ i # Top
          BY NetlistAssumption DEF PinsAt
        <5>2. QED
          BY <5>1, DrivesOrLoads DEF IsDriver
      <4>3. CASE Apart(design, p)
        BY <4>1, <4>3 DEF Detached
      <4>4. CASE ~Apart(design, p) /\ p \in sim.invalidLoads
        BY <3>5, <4>1, <4>2, <4>4
      <4>5. CASE ~Apart(design, p) /\ p \notin sim.invalidLoads
        <5>1. PICK q \in sim.invalidDrvrs : q \in Pins /\ IsDriver(q) /\ NetAt(design, q) = NetAt(design, p)
          BY <4>1, <4>5 DEF Awaits
        <5>2. NetAt(design, p) # NoNet
          BY <4>5 DEF Apart
        <5>3. p \in Loads(design, q)
          BY <1>3, <4>2, <5>1, <5>2, LoadsOnPin
        <5>4. QED
          BY <3>5, <4>1, <4>2, <5>1, <5>3
      <4>6. QED
        BY <4>3, <4>4, <4>5
    <3>7. ArcsFollow(t, design, constraint, cell, {}, {}, t.annotate)
      BY <3>2, <3>3, <3>4, <3>6, NotedArcs
    <3>8. DisabledNoted(t)
      BY <1>2, <3>2, <3>3 DEF DisabledNoted
    <3>9. sim' = [t EXCEPT !.invalidInsts = {}]
      BY <1>1, <2>1, <3>1
    <3>10. QED
      BY <3>2, <3>7, <3>8, <3>9
  <2>2. CASE ~sim.incremental
    <3>1. /\ z \in Sims /\ SameButValues([r EXCEPT !.disabled = z.disabled], z) /\ Good(z)
          /\ \A p \in Pins : ValueIn(z.known, p) = {}
          /\ z.disabled = {p \in r.disabled : InstanceOf[p] \notin r.withConstPins}
      <4> HIDE DEF z
      <4>1. z = ClearSimValues(r)
        BY DEF z
      <4>2. QED
        BY <1>7, <4>1, ClearedIs
    <3> HIDE DEF z
    <3>2. z.constFuncPins = r.constFuncPins /\ z.busy /\ z.disabled = {}
      <4>1. z.constFuncPins = r.constFuncPins /\ z.busy
        BY <1>8, <3>1 DEF SameButValues, Sims
      <4>2. z.disabled = {}
        BY <1>2, <1>8, <3>1 DEF DisabledNoted
      <4>3. QED
        BY <4>1, <4>2
    <3> DEFINE t == SeedConstants(z)
    <3>3. Evolves(z, t)
      BY <1>2, <1>6, <3>1, <3>2, SeedConstantsEvolve
    <3>4. sim' = [t EXCEPT !.invalidInsts = {}]
      BY <1>1, <2>2 DEF z
    <3> HIDE DEF t
    <3>5. t \in Sims /\ t.busy /\ t.disabled = {}
      BY <3>2, <3>3 DEF Evolves, SameButValues
    <3>6. \A p \in Pins : ValueIn(t.known, p) # {} => InstanceOf[p] \in t.annotate
      BY <3>1, <3>3 DEF Evolves, Notes
    <3>7. ArcsFollow(t, design, constraint, cell, {}, {}, t.annotate)
      <4> SUFFICES ASSUME NEW i \in design.insts \cap Leaves, i \notin t.annotate
                   PROVE  ArcsFit(t, cell, i)
        BY DEF ArcsFollow
      <4>1. \A p \in PinsAt(i) : ValueIn(t.known, p) = {} /\ p \notin t.disabled
        BY <3>5, <3>6 DEF PinsAt
      <4>2. i \in Leaves /\ cell[i] \in CellsFor(i)
        BY <1>2 DEF Setting
      <4>3. QED
        BY <1>3, <4>1, <4>2, ArcsFitUnknown
    <3>8. DisabledNoted(t)
      BY <3>5 DEF DisabledNoted
    <3>9. QED
      BY <3>4, <3>5, <3>7, <3>8
  <2>3. QED
    BY <2>1, <2>2
<1>10. PICK t \in Sims :
         /\ sim' = [t EXCEPT !.invalidInsts = {}] /\ t.busy /\ DisabledNoted(t)
         /\ ArcsFollow(t, design, constraint, cell, {}, {}, t.annotate)
  BY <1>9
<1>11. /\ sim'.known = t.known /\ sim'.annotate = t.annotate /\ sim'.disabled = t.disabled
       /\ sim'.withConstPins = t.withConstPins /\ sim'.busy
  BY <1>10 DEF Sims
<1>12. DisabledNoted(sim')
  BY <1>10, <1>11 DEF DisabledNoted
<1>13. ArcsFollow(sim', design', constraint, cell, {}, {}, sim'.annotate)
  <2>1. design'.insts = design.insts
    BY <1>4 DEF SameNets
  <2>2. QED
    BY <1>4, <1>10, <1>11, <2>1, SamePlacesArcs
<1>14. ArcsAccounted(sim', design', constraint', cell')
  BY <1>1, <1>11, <1>13 DEF ArcsAccounted, PendingOf, PendingArcs
<1>15. QED
  BY <1>12, <1>14

(* So has the evaluation of an instance.                                   *)
LEMMA EvalArcs ==
  ASSUME Regular, ArcsInv, NEW i, EvalNext(i)
  PROVE  (DisabledNoted(sim) /\ ArcsAccounted(sim, design, constraint, cell))'
<1> DEFINE r == [sim EXCEPT !.queue = @ \ {i}]
           v == EvalExpr(sim.known, i)
           S == {q \in OutputsOf(i) : ValueIn(r.known, q) # v}
<1>1. /\ sim' = EvalInstance(r, i, v) /\ UNCHANGED <<design, cell, constraint>> /\ i \in sim.queue
  BY DEF EvalNext
<1>2. /\ Setting /\ Good(sim) /\ Flow(sim) /\ sim \in Sims
      /\ DisabledNoted(sim) /\ ArcsAccounted(sim, design, constraint, cell)
  BY SimInvSound DEF ArcsInv
<1>3. sim.busy
  BY <1>1, <1>2 DEF Flow
<1>4. ArcsFollow(sim, design, constraint, cell, {}, {}, sim.annotate)
  BY <1>2, <1>3 DEF ArcsAccounted, PendingOf, PendingArcs
<1>5. sim' = SetEach(r, S, v)
  BY <1>1 DEF EvalInstance
<1>6. ListsInv(design) /\ i \in design.insts /\ i \in Leaves /\ S \in SUBSET design.pins
  BY <1>1, <1>2 DEF Setting, Good, OutputsOf, PinsOf
<1>7. v \in Values
  BY <1>2, <1>6, EvalTyped
<1>8. /\ r \in Sims /\ r.known = sim.known /\ r.annotate = sim.annotate /\ r.busy
      /\ r.disabled = sim.disabled /\ r.withConstPins = sim.withConstPins
  BY <1>2, <1>3 DEF Sims
<1> HIDE DEF r, v, S
<1>9. Evolves(r, sim')
  BY <1>5, <1>6, <1>7, <1>8, SetEachEvolves
<1>10. /\ sim'.busy /\ sim'.disabled = sim.disabled
       /\ sim.withConstPins \subseteq sim'.withConstPins /\ sim.annotate \subseteq sim'.annotate
       /\ \A p \in Pins : ValueIn(sim'.known, p) # ValueIn(sim.known, p) => InstanceOf[p] \in sim'.annotate
  BY <1>8, <1>9 DEF Evolves, SameButValues, Notes
<1>11. ArcsFollow(sim', design, constraint, cell, {}, {}, sim'.annotate)
  BY <1>4, <1>10, NotedArcs
<1>12. ArcsAccounted(sim', design', constraint', cell')
  BY <1>1, <1>10, <1>11 DEF ArcsAccounted, PendingOf, PendingArcs
<1>13. DisabledNoted(sim')
  BY <1>2, <1>10 DEF DisabledNoted
<1>14. QED
  BY <1>12, <1>13

(* annotateGraphEdges makes the arcs of the instances to annotate fit.     *)
LEMMA AnnotateArcs ==
  ASSUME Regular, ArcsInv, AnnotateGraphEdges
  PROVE  (DisabledNoted(sim) /\ ArcsAccounted(sim, design, constraint, cell))'
<1> DEFINE looked == {p \in design.pins \ Outputs : InstanceOf[p] \in sim.annotate \cap Leaves}
           disabled == (sim.disabled \ looked) \cup {p \in looked : SenseNone(sim.known, p)}
<1>1. /\ sim' = [sim EXCEPT !.disabled = disabled, !.valid = TRUE, !.incremental = TRUE, !.busy = FALSE]
      /\ UNCHANGED <<design, cell, constraint>> /\ sim.busy
  BY DEF AnnotateGraphEdges
<1>2. /\ Sound /\ Setting /\ Good(sim) /\ sim \in Sims /\ design.pins \subseteq Pins /\ RegularCells
      /\ ListsInv(design) /\ DisabledNoted(sim) /\ ArcsAccounted(sim, design, constraint, cell)
  BY SimInvSound DEF ArcsInv, Sound, Setting
<1>3. \A p \in disabled : \/ p \in sim.disabled /\ p \notin looked
                          \/ p \in looked /\ SenseNone(sim.known, p)
  OBVIOUS
<1>4. \A p : p \in disabled <=> IF p \in looked THEN SenseNone(sim.known, p) ELSE p \in sim.disabled
  OBVIOUS
<1>5. \A p : p \in looked <=> p \in design.pins /\ p \notin Outputs
                              /\ InstanceOf[p] \in sim.annotate /\ InstanceOf[p] \in Leaves
  OBVIOUS
<1> HIDE DEF disabled, looked
<1>6. /\ sim'.known = sim.known /\ sim'.incremental /\ ~sim'.busy /\ sim'.valid
      /\ sim'.disabled = disabled /\ sim'.withConstPins = sim.withConstPins
  BY <1>1, <1>2 DEF Sims
<1>7. \A p \in looked : /\ InstanceOf[p] \in design.insts
                        /\ SenseNone(sim.known, p) <=> SenseOf(cell[InstanceOf[p]], sim.known, p)
  <2> SUFFICES ASSUME NEW p \in looked
               PROVE  /\ InstanceOf[p] \in design.insts
                      /\ SenseNone(sim.known, p) <=> SenseOf(cell[InstanceOf[p]], sim.known, p)
    OBVIOUS
  <2>1. InstanceOf[p] \in design.insts
    BY <1>2, <1>5 DEF ListsInv, Whole
  <2>2. QED
    BY <1>2, <2>1, SenseIs
<1>8. DisabledNoted(sim')
  <2> SUFFICES ASSUME NEW p \in disabled PROVE InstanceOf[p] \in sim.withConstPins
    BY <1>6 DEF DisabledNoted
  <2>1. CASE p \in sim.disabled
    BY <1>2, <2>1 DEF DisabledNoted
  <2>2. CASE p \in looked /\ SenseNone(sim.known, p)
    <3> DEFINE i == InstanceOf[p]
    <3>1. i \in Leaves /\ p \in PinsAt(i) /\ SenseOf(cell[i], sim.known, p)
      BY <1>2, <1>5, <1>7, <2>2 DEF PinsAt
    <3>2. cell[i] \in CellsFor(i)
      BY <1>2, <3>1 DEF Setting
    <3> HIDE DEF i
    <3>3. PICK q \in PinsAt(i) : ValueIn(sim.known, q) # {}
      BY <1>2, <3>1, <3>2, SenseUnknown
    <3>4. q \in Pins /\ InstanceOf[q] = i
      BY DEF PinsAt
    <3>5. i \in sim.withConstPins
      BY <1>2, <3>3, <3>4 DEF Good
    <3>6. QED
      BY <3>5 DEF i
  <2>3. QED
    BY <1>3, <2>1, <2>2
<1>9. ArcsFollow(sim, design, constraint, cell, {}, {}, sim.annotate)
  BY <1>1, <1>2 DEF ArcsAccounted, PendingOf, PendingArcs
<1>10. ArcsFollow(sim', design, constraint, cell, {}, {}, {})
  <2> SUFFICES ASSUME NEW i \in design.insts \cap Leaves
               PROVE  ArcsFit(sim', cell, i) \/ Detached(design, constraint, i, {}, {})
    BY DEF ArcsFollow
  <2>1. CASE i \in sim.annotate
    <3>1. ASSUME NEW p \in PinsAt(i)
          PROVE  /\ p \in sim'.disabled => SenseOf(cell[i], sim'.known, p)
                 /\ SenseOf(cell[i], sim'.known, p) => p \in sim'.disabled \/ cell[i] # LinkedCell[i]
      <4>1. p \in Pins /\ p \notin Outputs /\ InstanceOf[p] = i
        BY DEF PinsAt
      <4>2. p \in design.pins
        BY <1>2, <4>1 DEF ListsInv, Whole
      <4>3. p \in looked
        BY <1>5, <2>1, <4>1, <4>2
      <4>4. p \in disabled <=> SenseOf(cell[i], sim.known, p)
        BY <1>4, <1>7, <4>1, <4>3
      <4>5. QED
        BY <1>6, <4>4
    <3>2. QED
      BY <3>1 DEF ArcsFit
  <2>2. CASE i \notin sim.annotate
    <3>1. \A p \in PinsAt(i) : p \notin looked
      BY <1>5, <2>2 DEF PinsAt
    <3>2. \A p \in PinsAt(i) : p \in sim'.disabled <=> p \in sim.disabled
      BY <1>4, <1>6, <3>1
    <3>3. ArcsFit(sim, cell, i) => ArcsFit(sim', cell, i)
      BY <1>6, <3>2, ArcsFitKept
    <3>4. QED
      BY <1>9, <2>2, <3>3 DEF ArcsFollow
  <2>3. QED
    BY <2>1, <2>2
<1>11. ArcsAccounted(sim', design', constraint', cell')
  BY <1>1, <1>6, <1>10 DEF ArcsAccounted, PendingOf, PendingArcs
<1>12. QED
  BY <1>8, <1>11

(* After a case analysis nothing is claimed until a propagation from       *)
(* nothing.                                                                *)
LEMMA CaseArcs ==
  ASSUME Regular, ArcsInv, ~sim.busy, sim' = ConstantsInvalid(sim)
  PROVE  (DisabledNoted(sim) /\ ArcsAccounted(sim, design, constraint, cell))'
<1>1. sim \in Sims /\ DisabledNoted(sim)
  BY SimInvSound DEF ArcsInv
<1>2. /\ sim'.disabled = sim.disabled /\ sim'.withConstPins = sim.withConstPins
      /\ sim'.busy = sim.busy /\ sim'.incremental = FALSE
  BY <1>1, ConstantsInvalidIs
<1>3. QED
  BY <1>1, <1>2 DEF DisabledNoted, ArcsAccounted

(* replaceCell: the new arcs are enabled, whatever the values.             *)
LEMMA ReplaceArcs ==
  ASSUME Regular, NoWayBack, ArcsInv, NEW e \in Commands, StaReplaceCell(e)
  PROVE  (DisabledNoted(sim) /\ ArcsAccounted(sim, design, constraint, cell))'
<1> DEFINE i == e.inst
<1>1. /\ e.op = "replaceCell" /\ i \in design.insts /\ ~sim.busy
      /\ cell' = [cell EXCEPT ![i] = e.cell]
      /\ sim' = PinsSetFuncAfter(sim, i, cell') /\ UNCHANGED <<design, constraint>>
  BY DEF StaReplaceCell, Edit
<1>2. i \in Leaves /\ e.cell # LinkedCell[i]
  BY <1>1, CommandKinds DEF NoWayBack
<1> HIDE DEF i
<1>3. /\ Setting /\ Marks(sim) /\ sim \in Sims /\ design.pins \subseteq Pins /\ ListsInv(design)
      /\ DisabledNoted(sim) /\ ArcsAccounted(sim, design, constraint, cell)
  BY SimInvSound DEF Setting, ArcsInv
<1>4. /\ sim'.known = sim.known /\ sim'.busy = sim.busy /\ sim'.incremental = sim.incremental
      /\ sim'.withConstPins = sim.withConstPins /\ sim'.disabled = sim.disabled \ PinsOf(i)
      /\ sim'.invalidLoads = sim.invalidLoads /\ sim'.invalidDrvrs = sim.invalidDrvrs
      /\ sim'.valid = (sim.valid /\ ~sim.incremental)
  BY <1>1, <1>3, PinsSetFuncIs
<1>5. cell'[i] = e.cell /\ \A j \in Leaves : j # i => cell'[j] = cell[j]
  BY <1>1, <1>2, <1>3 DEF Setting
<1>6. DisabledNoted(sim')
  BY <1>3, <1>4 DEF DisabledNoted
<1>7. ArcsAccounted(sim', design', constraint', cell')
  <2> SUFFICES ASSUME sim.incremental
               PROVE  ArcsFollow(sim', design, constraint, cell', PendingOf(sim', sim'.invalidLoads),
                                 PendingOf(sim', sim'.invalidDrvrs), {})
    BY <1>1, <1>4 DEF ArcsAccounted, PendingArcs
  <2> DEFINE PL == PendingOf(sim, sim.invalidLoads)
             PD == PendingOf(sim, sim.invalidDrvrs)
             PL2 == PendingOf(sim', sim'.invalidLoads)
             PD2 == PendingOf(sim', sim'.invalidDrvrs)
  <2>1. ArcsFollow(sim, design, constraint, cell, PL, PD, {})
    BY <1>1, <1>3 DEF ArcsAccounted, PendingArcs
  <2>2. PL \subseteq PL2 /\ PD \subseteq PD2
    BY <1>1, <1>4 DEF PendingOf
  <2> HIDE DEF PL, PD, PL2, PD2
  <2>3. ArcsFollow(sim', design, constraint, cell', PL2, PD2, {})
    <3> SUFFICES ASSUME NEW j \in design.insts \cap Leaves
                 PROVE  ArcsFit(sim', cell', j) \/ Detached(design, constraint, j, PL2, PD2)
      BY DEF ArcsFollow
    <3>1. CASE j = i
      <4>1. \A p \in PinsAt(j) : p \notin sim'.disabled
        BY <1>3, <1>4, <3>1 DEF PinsAt, PinsOf, Marks
      <4>2. cell'[j] # LinkedCell[j]
        BY <1>2, <1>5, <3>1
      <4>3. QED
        BY <4>1, <4>2 DEF ArcsFit
    <3>2. CASE j # i
      <4>1. \A p \in PinsAt(j) : p \in sim'.disabled <=> p \in sim.disabled
        BY <1>4, <3>2 DEF PinsAt, PinsOf
      <4>2. cell'[j] = cell[j]
        BY <1>5, <3>2
      <4>3. ArcsFit(sim, cell, j) => ArcsFit(sim', cell', j)
        BY <1>4, <4>1, <4>2, ArcsFitKept
      <4>4. Detached(design, constraint, j, PL, PD) => Detached(design, constraint, j, PL2, PD2)
        BY <2>2, SameDetached
      <4>5. QED
        BY <2>1, <4>3, <4>4 DEF ArcsFollow
    <3>3. QED
      BY <3>1, <3>2
  <2>4. QED
    BY <2>3 DEF PL2, PD2
<1>8. QED
  BY <1>6, <1>7

(* connectPin: the load, or the driver of the loads, is pending.           *)
LEMMA ConnectArcs ==
  ASSUME Regular, ArcsInv, NEW e \in Edits, StaConnectPin(e)
  PROVE  (DisabledNoted(sim) /\ ArcsAccounted(sim, design, constraint, cell))'
<1> DEFINE p == e.pin
           n == e.net
<1>1. /\ e.op = "connect" /\ p \in design.pins /\ n \in design.nets /\ Parent[n] = Scope(p) /\ ~sim.busy
      /\ design' = Connect(design, p, n) /\ (IsDriver(p) => NetDrivers(design, n) = {})
      /\ sim' = ConnectPinAfter(sim, p) /\ UNCHANGED <<cell, constraint>>
  BY DEF StaConnectPin, ConnectPin, Edit
<1>2. /\ Sound /\ sim \in Sims /\ design.pins \subseteq Pins /\ Wired(design)
      /\ DisabledNoted(sim) /\ ArcsAccounted(sim, design, constraint, cell)
  BY SimInvSound DEF Sound, ArcsInv
<1>3. InstanceOf[p] # Top /\ (IsDriver(p) => n \notin TiedNets)
  BY <1>1 DEF Regular, RegularEdits
<1> HIDE DEF p, n
<1>4. /\ Connects(design, p, n, design')
      /\ \A q \in Pins : NetAt(design', q) = IF q = p THEN n ELSE NetAt(design, q)
  BY <1>1, <1>2, <1>3, ConnectWired
<1>5. design'.insts = design.insts
  BY <1>4 DEF Connects
<1>6. p \in Pins
  BY <1>1, <1>2
<1>7. /\ sim'.known = sim.known /\ sim'.busy = sim.busy /\ sim'.incremental = sim.incremental
      /\ sim'.withConstPins = sim.withConstPins /\ sim'.disabled = sim.disabled
      /\ sim'.valid = (sim.valid /\ ~sim.incremental)
      /\ sim'.invalidLoads = sim.invalidLoads \cup {q \in {p} : sim.incremental /\ IsLoad(q)}
      /\ sim'.invalidDrvrs = sim.invalidDrvrs \cup {q \in {p} : sim.incremental /\ IsDriver(q)}
  <2>1. IsConnected(sim, p, sim')
    BY <1>1, <1>2, <1>6, ConnectPinAfterIs
  <2>2. QED
    BY <2>1 DEF IsConnected
<1>8. DisabledNoted(sim')
  BY <1>2, <1>7 DEF DisabledNoted
<1>9. ArcsAccounted(sim', design', constraint', cell')
  <2> SUFFICES ASSUME sim.incremental
               PROVE  ArcsFollow(sim', design', constraint, cell, PendingOf(sim', sim'.invalidLoads),
                                 PendingOf(sim', sim'.invalidDrvrs), {})
    BY <1>1, <1>7 DEF ArcsAccounted, PendingArcs
  <2> DEFINE PL == PendingOf(sim, sim.invalidLoads)
             PD == PendingOf(sim, sim.invalidDrvrs)
             PL2 == PendingOf(sim', sim'.invalidLoads)
             PD2 == PendingOf(sim', sim'.invalidDrvrs)
  <2>1. ArcsFollow(sim, design, constraint, cell, PL, PD, {})
    BY <1>1, <1>2 DEF ArcsAccounted, PendingArcs
  <2>2. PL \subseteq PL2 /\ PD \subseteq PD2
    BY <1>1, <1>7 DEF PendingOf
  <2>3. (IsLoad(p) => p \in PL2) /\ (IsDriver(p) => p \in PD2)
    BY <1>1, <1>7 DEF PendingOf
  <2> HIDE DEF PL, PD, PL2, PD2
  <2>4. ArcsFollow(sim', design', constraint, cell, PL2, PD2, {})
    BY <1>2, <1>4, <1>5, <1>6, <1>7, <2>1, <2>2, <2>3, MovedArcs
  <2>5. QED
    BY <2>4 DEF PL2, PD2
<1>10. QED
  BY <1>8, <1>9

(* disconnectPin: the load, or the loads of the driver, are apart.         *)
LEMMA DisconnectArcs ==
  ASSUME Regular, ArcsInv, NEW e \in Edits, StaDisconnectPin(e)
  PROVE  (DisabledNoted(sim) /\ ArcsAccounted(sim, design, constraint, cell))'
<1> DEFINE p == e.pin
<1>1. /\ e.op = "disconnect" /\ p \in design.pins /\ ~sim.busy /\ design' = Disconnect(design, p)
      /\ sim' = DisconnectPinBefore(sim, p) /\ UNCHANGED <<cell, constraint>>
  BY DEF StaDisconnectPin, DisconnectPin, Edit
<1>2. /\ Sound /\ sim \in Sims /\ design.pins \subseteq Pins /\ Wired(design)
      /\ DisabledNoted(sim) /\ ArcsAccounted(sim, design, constraint, cell)
  BY SimInvSound DEF Sound, ArcsInv
<1>3. InstanceOf[p] # Top
  BY <1>1 DEF Regular, RegularEdits
<1> HIDE DEF p
<1>4. /\ Disconnects(design, p, design')
      /\ \A q \in Pins : NetAt(design', q) = IF q = p THEN NoNet ELSE NetAt(design, q)
  BY <1>1, <1>2, <1>3, DisconnectWired
<1>5. design'.insts = design.insts
  BY <1>4 DEF Disconnects
<1>6. p \in Pins
  BY <1>1, <1>2
<1>7. /\ sim'.busy = sim.busy /\ sim'.incremental = sim.incremental
      /\ sim'.withConstPins = sim.withConstPins /\ sim'.disabled = sim.disabled
      /\ \A q \in Pins : q # p \/ ValueIn(constraint, p) # {} => ValueIn(sim'.known, q) = ValueIn(sim.known, q)
      /\ sim'.valid => sim.valid
      /\ sim.invalidLoads \subseteq sim'.invalidLoads /\ sim.invalidDrvrs \subseteq sim'.invalidDrvrs
  <2>1. IsDisconnected(sim, p, sim')
    BY <1>1, <1>2, <1>6, DisconnectPinBeforeIs
  <2>2. QED
    BY <2>1 DEF IsDisconnected
<1>8. DisabledNoted(sim')
  BY <1>2, <1>7 DEF DisabledNoted
<1>9. ArcsAccounted(sim', design', constraint', cell')
  <2> SUFFICES ASSUME sim.incremental
               PROVE  ArcsFollow(sim', design', constraint, cell, PendingOf(sim', sim'.invalidLoads),
                                 PendingOf(sim', sim'.invalidDrvrs), {})
    BY <1>1, <1>7 DEF ArcsAccounted, PendingArcs
  <2> DEFINE PL == PendingOf(sim, sim.invalidLoads)
             PD == PendingOf(sim, sim.invalidDrvrs)
             PL2 == PendingOf(sim', sim'.invalidLoads)
             PD2 == PendingOf(sim', sim'.invalidDrvrs)
  <2>1. ArcsFollow(sim, design, constraint, cell, PL, PD, {})
    BY <1>1, <1>2 DEF ArcsAccounted, PendingArcs
  <2>2. PL \subseteq PL2 /\ PD \subseteq PD2
    BY <1>1, <1>7 DEF PendingOf
  <2> HIDE DEF PL, PD, PL2, PD2
  <2>3. ArcsFollow(sim', design', constraint, cell, PL2, PD2, {})
    BY <1>2, <1>4, <1>5, <1>6, <1>7, <2>1, <2>2, MovedArcs
  <2>4. QED
    BY <2>3 DEF PL2, PD2
<1>10. QED
  BY <1>8, <1>9

(* deleteInstance.                                                         *)
LEMMA DeleteArcs ==
  ASSUME Regular, ArcsInv, NEW e \in Edits, StaDeleteInstance(e)
  PROVE  (DisabledNoted(sim) /\ ArcsAccounted(sim, design, constraint, cell))'
<1> DEFINE i == e.inst
<1>1. /\ e.op = "deleteInstance" /\ design' = DeleteInstance(design, i)
      /\ sim' = DeleteInstanceBefore(sim, i) /\ UNCHANGED <<cell, constraint>> /\ ~sim.busy
  BY DEF StaDeleteInstance, RemoveInstance, Edit
<1>2. i \in Leaves
  BY <1>1, SimAssumption
<1> HIDE DEF i
<1>3. /\ Sound /\ Marks(sim) /\ sim \in Sims /\ design.pins \subseteq Pins /\ Wired(design) /\ ListsInv(design)
      /\ DisabledNoted(sim) /\ ArcsAccounted(sim, design, constraint, cell)
  BY SimInvSound DEF Sound, Setting, ArcsInv
<1>4. design'.insts = design.insts \ {i}
  BY <1>1, <1>2, <1>3, LeafDeleted
<1>5. \A q \in Pins : NetAt(design', q) = IF InstanceOf[q] = i THEN NoNet ELSE NetAt(design, q)
  BY <1>1, <1>2, <1>3, DeleteWired
<1>6. IsDeleted(sim, i, sim')
  BY <1>1, <1>3, DeleteInstanceBeforeIs
<1>7. PinsOf(i) = {p \in design.pins : InstanceOf[p] = i}
  BY DEF PinsOf
<1>8. /\ sim'.busy = sim.busy /\ sim'.incremental = sim.incremental /\ sim'.valid = sim.valid
      /\ sim'.withConstPins = sim.withConstPins \ {i} /\ sim'.disabled = sim.disabled \ PinsOf(i)
      /\ sim'.invalidLoads = sim.invalidLoads \ PinsOf(i) /\ sim'.invalidDrvrs = sim.invalidDrvrs \ PinsOf(i)
      /\ \A q \in Pins : InstanceOf[q] # i => ValueIn(sim'.known, q) = ValueIn(sim.known, q)
  BY <1>6, <1>7 DEF IsDeleted
<1>9. DisabledNoted(sim')
  BY <1>3, <1>7, <1>8 DEF DisabledNoted, Marks
<1>10. ArcsAccounted(sim', design', constraint', cell')
  <2> SUFFICES ASSUME sim.incremental
               PROVE  ArcsFollow(sim', design', constraint, cell, PendingOf(sim', sim'.invalidLoads),
                                 PendingOf(sim', sim'.invalidDrvrs), {})
    BY <1>1, <1>8 DEF ArcsAccounted, PendingArcs
  <2> DEFINE PL == PendingOf(sim, sim.invalidLoads)
             PD == PendingOf(sim, sim.invalidDrvrs)
             PL2 == PendingOf(sim', sim'.invalidLoads)
             PD2 == PendingOf(sim', sim'.invalidDrvrs)
  <2>1. ArcsFollow(sim, design, constraint, cell, PL, PD, {})
    BY <1>1, <1>3 DEF ArcsAccounted, PendingArcs
  <2>2. \A q \in Pins : InstanceOf[q] # i => (q \in PL => q \in PL2) /\ (q \in PD => q \in PD2)
    BY <1>1, <1>7, <1>8 DEF PendingOf
  <2> HIDE DEF PL, PD, PL2, PD2
  <2>3. \A q \in Pins : InstanceOf[q] # i =>
          (q \in sim'.disabled <=> q \in sim.disabled) /\ ValueIn(sim'.known, q) = ValueIn(sim.known, q)
    BY <1>7, <1>8
  <2>4. ArcsFollow(sim', design', constraint, cell, PL2, PD2, {})
    BY <1>2, <1>3, <1>4, <1>5, <2>1, <2>2, <2>3, DeletedArcs
  <2>5. QED
    BY <2>4 DEF PL2, PD2
<1>11. QED
  BY <1>9, <1>10

(* makeInstance: nothing is known of it and nothing disabled.              *)
LEMMA MakeArcs ==
  ASSUME Regular, ArcsInv, NEW e \in Edits, StaMakeInstance(e)
  PROVE  (DisabledNoted(sim) /\ ArcsAccounted(sim, design, constraint, cell))'
<1> DEFINE i == e.inst
<1>1. /\ e.op = "makeInstance" /\ design' = MakeInstance(design, i) /\ UNCHANGED <<cell, constraint, sim>>
      /\ ~sim.busy /\ i \notin design.insts
  BY DEF StaMakeInstance, AddInstance, Edit
<1>2. i \in Instances \ {Top}
  BY <1>1, EditKinds
<1> HIDE DEF i
<1>3. /\ Setting /\ Good(sim) /\ Marks(sim) /\ design.pins \subseteq Pins /\ Wired(design)
      /\ ListsInv(design) /\ RegularCells
      /\ DisabledNoted(sim) /\ ArcsAccounted(sim, design, constraint, cell)
  BY SimInvSound DEF Sound, Setting, ArcsInv
<1>4. design'.insts = design.insts \cup {i}
  BY <1>1, <1>2, <1>3, MakeInstanceLists
<1>5. \A q \in Pins : NetAt(design', q) = NetAt(design, q)
  BY <1>1, <1>2, <1>3, MakeWired
<1>6. \A q \in Pins : InstanceOf[q] = i => q \notin design.pins /\ ValueIn(sim.known, q) = {}
  BY <1>1, <1>3 DEF ListsInv, Whole, Good
<1>7. ArcsAccounted(sim', design', constraint', cell')
  <2> DEFINE PL == PendingOf(sim, sim.invalidLoads)
             PD == PendingOf(sim, sim.invalidDrvrs)
  <2> SUFFICES ASSUME sim.incremental PROVE ArcsFollow(sim, design', constraint, cell, PL, PD, {})
    BY <1>1 DEF ArcsAccounted, PendingArcs
  <2>1. ArcsFollow(sim, design, constraint, cell, PL, PD, {})
    BY <1>1, <1>3 DEF ArcsAccounted, PendingArcs
  <2> HIDE DEF PL, PD
  <2> SUFFICES ASSUME NEW j \in design'.insts \cap Leaves
               PROVE  ArcsFit(sim, cell, j) \/ Detached(design', constraint, j, PL, PD)
    BY DEF ArcsFollow
  <2>2. CASE j = i
    <3>1. \A p \in PinsAt(j) : ValueIn(sim.known, p) = {} /\ p \notin sim.disabled
      BY <1>3, <1>6, <2>2 DEF PinsAt, Marks
    <3>2. j \in Leaves /\ cell[j] \in CellsFor(j)
      BY <1>3 DEF Setting
    <3>3. QED
      BY <1>3, <3>1, <3>2, ArcsFitUnknown
  <2>3. CASE j # i
    <3>1. Detached(design, constraint, j, PL, PD) => Detached(design', constraint, j, PL, PD)
      BY <1>5, SameDetached
    <3>2. QED
      BY <1>4, <2>1, <2>3, <3>1 DEF ArcsFollow
  <2>4. QED
    BY <2>2, <2>3
<1>8. DisabledNoted(sim')
  BY <1>1, <1>3 DEF DisabledNoted
<1>9. QED
  BY <1>7, <1>8

(* Every step keeps the invariant of the arcs.                             *)
LEMMA ArcsInvStays ==
  ASSUME Regular, NoWayBack, ArcsInv, [SimNext]_simVars
  PROVE  ArcsInv'
<1> SUFFICES (DisabledNoted(sim) /\ ArcsAccounted(sim, design, constraint, cell))'
  <2>1. SimInv'
    BY SimInvStays DEF ArcsInv
  <2>2. QED
    BY <2>1 DEF ArcsInv
<1> DEFINE Kept == (DisabledNoted(sim) /\ ArcsAccounted(sim, design, constraint, cell))'
<1>1. CASE UNCHANGED simVars
  <2>1. UNCHANGED <<design, cell, constraint, sim>>
    BY <1>1 DEF simVars
  <2>2. QED
    BY <2>1 DEF ArcsInv
<1>2. CASE EnsureConstantsPropagated
  BY <1>2, EnsureArcs
<1>3. ASSUME NEW i \in Instances, EvalNext(i) PROVE Kept
  BY <1>3, EvalArcs
<1>4. CASE AnnotateGraphEdges
  BY <1>4, AnnotateArcs
<1>5. ASSUME NEW e \in Commands, SetCaseAnalysis(e) \/ RemoveCaseAnalysis(e) PROVE Kept
  <2>1. ~sim.busy /\ sim' = ConstantsInvalid(sim)
    BY <1>5 DEF SetCaseAnalysis, RemoveCaseAnalysis
  <2>2. QED
    BY <2>1, CaseArcs
<1>6. ASSUME NEW e \in Commands, StaReplaceCell(e) PROVE Kept
  BY <1>6, ReplaceArcs
<1>7. ASSUME NEW e \in Edits, StaConnectPin(e) PROVE Kept
  BY <1>7, ConnectArcs
<1>8. ASSUME NEW e \in Edits, StaDisconnectPin(e) PROVE Kept
  BY <1>8, DisconnectArcs
<1>9. ASSUME NEW e \in Edits, StaDeleteInstance(e) PROVE Kept
  BY <1>9, DeleteArcs
<1>10. ASSUME NEW e \in Edits, StaMakeInstance(e) PROVE Kept
  BY <1>10, MakeArcs
<1>11. QED
  BY <1>1, <1>2, <1>3, <1>4, <1>5, <1>6, <1>7, <1>8, <1>9, <1>10 DEF SimNext

(* What it says when a propagation has ended and every load is driven.     *)
LEMMA ArcsInvDisabled ==
  ASSUME Regular, ArcsInv
  PROVE  ArcsDisabled
<1> SUFFICES ASSUME sim.valid, Driven, NEW i \in design.insts \cap Leaves,
                    \A p \in InputsOf(i) : design.netOf[p] # NoNet,
                    NEW p \in InputsOf(i)
             PROVE  /\ p \in sim.disabled => SenseNone(sim.known, p)
                    /\ SenseNone(sim.known, p) => p \in sim.disabled \/ cell[i] # LinkedCell[i]
  BY DEF ArcsDisabled
<1>1. /\ Sound /\ Flow(sim) /\ Wired(design) /\ ListsInv(design) /\ design.constants = ConstantNets
      /\ ArcsAccounted(sim, design, constraint, cell) /\ design.pins \subseteq Pins
  BY SimInvSound DEF Sound, Setting, ArcsInv
<1>2. ArcsFollow(sim, design, constraint, cell, {}, {}, {})
  BY <1>1 DEF Flow, ArcsAccounted, PendingOf, PendingArcs
<1>3. InputsOf(i) = PinsAt(i)
  BY <1>1, InputsAll DEF PinsAt
<1>4. ~Detached(design, constraint, i, {}, {})
  <2> SUFFICES ASSUME NEW q \in PinsAt(i), Apart(design, q) PROVE FALSE
    BY DEF Detached, Awaits
  <2> DEFINE n == NetAt(design, q)
  <2>1. q \in Pins /\ q \notin Outputs /\ InstanceOf[q] = i /\ i # Top
    BY NetlistAssumption DEF PinsAt
  <2>2. IsLoad(q) /\ n = design.netOf[q]
    BY <1>1, <2>1, DrivesOrLoads, NetAtIs DEF IsDriver
  <2>3. n # NoNet /\ n \in design.nets /\ n \in Nets
    <3>1. n # NoNet
      BY <1>3, <2>2
    <3>2. n \in design.nets \cup {NoNet} /\ design.nets \subseteq Nets
      BY <1>1, <2>1 DEF Wired, ListsInv, Designs
    <3>3. QED
      BY <3>1, <3>2
  <2> HIDE DEF n
  <2>4. n \notin TiedNets /\ \A r \in Pins : IsDriver(r) => NetAt(design, r) # n
    BY <2>3 DEF Apart, n
  <2>5. q \in ConnectedPins(design, n)
    BY <1>1, <2>1, <2>3, PinsOnNet DEF n
  <2>6. NetDrivers(design, n) = {}
    BY <1>1, <2>3, <2>4, DriversOnNet
  <2>7. PICK v \in 0..1 : n \in design.constants[v]
    BY <2>2, <2>3, <2>5, <2>6 DEF Driven
  <2>8. QED
    BY <1>1, <2>4, <2>7 DEF TiedNets
<1>5. ArcsFit(sim, cell, i)
  BY <1>2, <1>4 DEF ArcsFollow
<1>6. p \in PinsAt(i) /\ InstanceOf[p] = i
  BY <1>3 DEF PinsAt
<1>7. SenseNone(sim.known, p) <=> SenseOf(cell[i], sim.known, p)
  BY <1>1, <1>6, SenseIs
<1>8. QED
  BY <1>5, <1>6, <1>7 DEF ArcsFit

(* When ensureConstantsPropagated has ended, the arcs that are disabled    *)
(* are those which constants disable, of instances whose inputs are        *)
(* connected, if every load is driven.                                     *)
THEOREM SimArcsDisabled == Regular /\ NoWayBack => (SimSpec => []ArcsDisabled)
<1> SUFFICES ASSUME Regular, NoWayBack PROVE SimSpec => []ArcsDisabled
  OBVIOUS
<1>1. SimInit => ArcsInv
  BY InitInv, InitArcs DEF ArcsInv
<1>2. ArcsInv /\ [SimNext]_simVars => ArcsInv'
  BY ArcsInvStays
<1>3. ArcsInv => ArcsDisabled
  BY ArcsInvDisabled
<1>4. QED
  BY <1>1, <1>2, <1>3, PTL DEF SimSpec

=============================================================================
