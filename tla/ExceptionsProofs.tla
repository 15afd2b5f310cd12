--------------------------- MODULE ExceptionsProofs ---------------------------
(***************************************************************************)
(* What holds of the exceptions of module Exceptions for any objects and   *)
(* commands: the maps from first points, the internal start and end points *)
(* of path delays, and what the exceptions stand for.                      *)
(***************************************************************************)
EXTENDS Exceptions, WellFoundedInduction, TLAPS

(* The commands for which the maps are kept right.  What removes an        *)
(* exception from the maps looks only at the nets of its first thru, and   *)
(* what excludes an exception's paths copies a thru with its nets over the *)
(* others; what drops an end point looks only at the path delays it is the *)
(* first point of.                                                         *)
NetsAlone ==
  \A c \in Commands : c.op = "make" /\ c.from = {} /\ Len(c.thrus) > 1 =>
    \A i \in DOMAIN c.thrus : c.thrus[i] \cap Nets = {}

EndsAlone ==
  \A c \in Commands : (c.op = "make" /\ c.kind = "delay" /\ c.to \cap Internal # {}) =>
    c.from = {} /\ c.thrus = <<>>

(* The commands for which the meaning is kept.  Exceptions that differ in  *)
(* a thru are merged when the hashes of the others are equal, resetPath    *)
(* passes over what is merged into an exception it has seen, and group     *)
(* paths of one name are merged whatever types of points they have.        *)
PointsOnly ==
  \A c \in Commands : c.op # "reset" /\ (c.op = "make" => c.thrus = <<>>)

AllAsked == UNION {Asked(c) : c \in {d \in Commands : d.op = "make"}}

GroupsAlike ==
  \A y, z \in AllAsked :
    y.kind = "group" /\ z.kind = "group" /\ y.value = z.value =>
      y.prio = z.prio /\ y.minMax = z.minMax

------------------------------------------------------------------------------
(* Sequences, whatever they are of.                                        *)
IsSeq(s) == \E S : s \in Seq(S)

LEMMA SeqFacts ==
  ASSUME NEW s, IsSeq(s)
  PROVE  /\ Len(s) \in Nat /\ DOMAIN s = 1 .. Len(s)
         /\ s # <<>> <=> Len(s) >= 1
         /\ s # <<>> => Head(s) = s[1]
<1>1. PICK S : s \in Seq(S)
  BY DEF IsSeq
<1>2. QED
  BY <1>1

LEMMA BuiltSeq ==
  ASSUME NEW n \in Nat, NEW s, s = [i \in 1 .. n |-> s[i]]
  PROVE  IsSeq(s) /\ Len(s) = n /\ DOMAIN s = 1 .. n
<1> DEFINE S == {s[i] : i \in 1 .. n}
<1>1. s \in [1 .. n -> S]
  OBVIOUS
<1> HIDE DEF S
<1>2. s \in Seq(S)
  BY <1>1
<1>3. Len(s) = n /\ DOMAIN s = 1 .. n
  BY <1>1, <1>2
<1>4. QED
  BY <1>2, <1>3 DEF IsSeq

LEMMA Joined ==
  ASSUME NEW s, NEW t, IsSeq(s), IsSeq(t)
  PROVE  /\ IsSeq(s \o t)
         /\ Len(s \o t) = Len(s) + Len(t)
         /\ \A i \in 1 .. Len(s) : (s \o t)[i] = s[i]
         /\ \A i \in 1 .. Len(t) : (s \o t)[Len(s) + i] = t[i]
<1>1. PICK S : s \in Seq(S)
  BY DEF IsSeq
<1>2. PICK T : t \in Seq(T)
  BY DEF IsSeq
<1>3. s \in Seq(S \cup T) /\ t \in Seq(S \cup T)
  BY <1>1, <1>2
<1>4. s \o t \in Seq(S \cup T)
  BY <1>3
<1>5. QED
  BY <1>3, <1>4 DEF IsSeq

LEMMA TailFacts ==
  ASSUME NEW s, IsSeq(s), s # <<>>
  PROVE  /\ IsSeq(Tail(s))
         /\ Len(Tail(s)) = Len(s) - 1
         /\ \A i \in 1 .. Len(s) - 1 : Tail(s)[i] = s[i + 1]
<1>1. PICK S : s \in Seq(S)
  BY DEF IsSeq
<1>2. Tail(s) \in Seq(S)
  BY <1>1
<1>3. QED
  BY <1>1, <1>2 DEF IsSeq

------------------------------------------------------------------------------
(* Exceptions as they are recorded.                                        *)
IsThrus(thrus) ==
  /\ IsSeq(thrus)
  /\ \A i \in DOMAIN thrus : thrus[i].objs \subseteq Objects /\ thrus[i].objs # {}

IsException(e) ==
  /\ e = [kind |-> e.kind, minMax |-> e.minMax, value |-> e.value,
          from |-> e.from, thrus |-> e.thrus, to |-> e.to, prio |-> e.prio]
  /\ e.from.objs \subseteq Objects /\ e.to.objs \subseteq Objects
  /\ IsThrus(e.thrus)
  /\ e.from.objs # {} \/ e.thrus # <<>> \/ e.to.objs # {}
  /\ e.kind \in {"false", "delay", "multi", "group"} /\ e.prio \in Nat
  /\ e.kind = "false" => e.prio >= 4000
  /\ e.kind = "delay" => e.prio < 4000

(* Its nets are where they can be found, and so is its end point           *)
NetAlone(e) ==
  e.from.objs = {} /\ ~(DOMAIN e.thrus \subseteq {1}) =>
    \A i \in DOMAIN e.thrus : e.thrus[i].objs \cap Nets = {}

EndAlone(e) ==
  (e.kind = "delay" /\ e.to.objs \cap Internal # {}) => e.from.objs = {} /\ e.thrus = <<>>

Sound(e) ==
  /\ IsException(e)
  /\ NetsAlone => NetAlone(e)
  /\ EndsAlone => EndAlone(e)

(* An exception with fewer objects to its points, or fewer thrus           *)
ThrusPartOf(ts, thrus) ==
  /\ IsThrus(ts)
  /\ DOMAIN ts \subseteq DOMAIN thrus
  /\ ts = <<>> <=> thrus = <<>>
  /\ \A i \in DOMAIN ts : \E j \in DOMAIN thrus : ts[i].objs \subseteq thrus[j].objs

PartOf(x, e) ==
  /\ x.kind = e.kind /\ x.value = e.value
  /\ x.from.objs \subseteq e.from.objs /\ (x.from.objs = {} <=> e.from.objs = {})
  /\ x.to.objs \subseteq e.to.objs /\ (x.to.objs = {} <=> e.to.objs = {})
  /\ ThrusPartOf(x.thrus, e.thrus)

LEMMA PartSound ==
  ASSUME NEW e, Sound(e), NEW x, PartOf(x, e), IsException(x)
  PROVE  Sound(x)
<1>1. NetAlone(e) => NetAlone(x)
  BY DEF NetAlone, PartOf, ThrusPartOf
<1>2. EndAlone(e) => EndAlone(x)
  BY DEF EndAlone, PartOf, ThrusPartOf
<1>3. QED
  BY <1>1, <1>2 DEF Sound

LEMMA PartOfPart ==
  ASSUME NEW e, NEW x, NEW y, PartOf(x, e), PartOf(y, x)
  PROVE  PartOf(y, e)
BY DEF PartOf, ThrusPartOf

(* The priorities of the points keep those of the kinds apart              *)
LEMMA PriorityRange ==
  ASSUME NEW from, NEW thrus, NEW to
  PROVE  FromThruToPriority(from, thrus, to) \in 0 .. 124
BY DEF FromThruToPriority

LEMMA WithPart ==
  ASSUME NEW e, Sound(e), NEW from, NEW thrus, NEW to,
         from.objs \subseteq e.from.objs, from.objs = {} <=> e.from.objs = {},
         to.objs \subseteq e.to.objs, to.objs = {} <=> e.to.objs = {},
         ThrusPartOf(thrus, e.thrus)
  PROVE  Sound(With(e, from, thrus, to)) /\ PartOf(With(e, from, thrus, to), e)
<1> DEFINE x == With(e, from, thrus, to)
<1>1. /\ x = [kind |-> x.kind, minMax |-> x.minMax, value |-> x.value,
              from |-> x.from, thrus |-> x.thrus, to |-> x.to, prio |-> x.prio]
      /\ x.kind = e.kind /\ x.value = e.value /\ x.from = from /\ x.thrus = thrus /\ x.to = to
  BY DEF With, Exception
<1>p. /\ x.prio \in Nat
      /\ x.kind = "false" => x.prio >= 4000
      /\ x.kind = "delay" => x.prio < 4000
  <2>1. x.prio = TypePriority(e.kind) + FromThruToPriority(from, thrus, to)
    BY DEF With, Exception
  <2>2. e.kind \in {"false", "delay", "multi", "group"}
    BY DEF Sound, IsException
  <2> HIDE DEF x
  <2>3. QED
    BY <1>1, <2>1, <2>2, PriorityRange DEF TypePriority
<1> HIDE DEF x
<1>2. IsException(x)
  BY <1>1, <1>p DEF IsException, Sound, ThrusPartOf
<1>3. PartOf(x, e)
  BY <1>1 DEF PartOf
<1>4. QED
  BY <1>2, <1>3, PartSound DEF x

LEMMA PointsAre ==
  /\ \A S : Point(S).objs = S
  /\ NoPoint.objs = {}
  /\ \A p : Clone(p).objs = p.objs
  /\ \A p, q : Deleted(p, q).objs = p.objs \ q.objs
  /\ \A p, q : Merged(p, q).objs = q.objs \cup p.objs
BY DEF Point, NoPoint, Clone, Deleted, Merged

LEMMA ClonedThrus ==
  ASSUME NEW thrus, IsThrus(thrus)
  PROVE  ThrusPartOf(Clones(thrus), thrus)
<1>1. Len(thrus) \in Nat /\ DOMAIN thrus = 1 .. Len(thrus)
      /\ (thrus # <<>> <=> Len(thrus) >= 1)
  BY SeqFacts DEF IsThrus
<1>2. Clones(thrus) = [i \in 1 .. Len(thrus) |-> Clone(thrus[i])]
  BY <1>1 DEF Clones
<1>3. IsSeq(Clones(thrus)) /\ Len(Clones(thrus)) = Len(thrus)
  <2> DEFINE cloned == Clones(thrus)
  <2>1. cloned = [i \in 1 .. Len(thrus) |-> cloned[i]]
    BY <1>2
  <2> HIDE DEF cloned
  <2>2. QED
    BY <1>1, <2>1, BuiltSeq DEF cloned
<1>4. DOMAIN Clones(thrus) = DOMAIN thrus
  BY <1>1, <1>2
<1>5. \A i \in DOMAIN thrus : Clones(thrus)[i].objs = thrus[i].objs
  BY <1>1, <1>2, PointsAre
<1>6. Clones(thrus) # <<>> <=> Len(Clones(thrus)) >= 1
  BY <1>3, SeqFacts
<1>7. IsThrus(Clones(thrus))
  BY <1>3, <1>4, <1>5 DEF IsThrus
<1>8. QED
  BY <1>1, <1>3, <1>4, <1>5, <1>6, <1>7 DEF ThrusPartOf

------------------------------------------------------------------------------
(* What exceptions are broken into has the points that they have.          *)
LEMMA SplitIs ==
  ASSUME NEW p, p.objs \subseteq Objects
  PROVE  \/ Split(p) = <<p>> /\ Len(Split(p)) = 1
         \/ /\ Len(Split(p)) = 2
            /\ \A i \in 1 .. 2 : Split(p)[i].objs \subseteq p.objs /\ Split(p)[i].objs # {}
            /\ p.objs # {}
<1>1. CASE p.objs \cap Pins # {} /\ p.objs \cap Clocks # {}
  <2> DEFINE one == Point(p.objs \ Clocks)
             two == Point(p.objs \cap Clocks)
  <2>1. Split(p) = <<one, two>>
    BY <1>1 DEF Split
  <2>2. one.objs = p.objs \ Clocks /\ two.objs = p.objs \cap Clocks
    BY PointsAre
  <2>3. one.objs # {} /\ two.objs # {} /\ p.objs # {}
    BY <1>1, <2>2, ExceptionsAssumption
  <2> HIDE DEF one, two
  <2>4. Len(Split(p)) = 2 /\ Split(p)[1] = one /\ Split(p)[2] = two
    BY <2>1
  <2>5. \A i \in 1 .. 2 : i = 1 \/ i = 2
    OBVIOUS
  <2>6. \A i \in 1 .. 2 : Split(p)[i].objs \subseteq p.objs /\ Split(p)[i].objs # {}
    BY <2>2, <2>3, <2>4, <2>5
  <2>7. QED
    BY <2>3, <2>4, <2>6
<1>2. CASE ~(p.objs \cap Pins # {} /\ p.objs \cap Clocks # {})
  BY <1>2 DEF Split
<1>3. QED
  BY <1>1, <1>2

(* A sequence of parts of e                                                *)
ArePartsOf(s, e) ==
  IsSeq(s) /\ \A i \in DOMAIN s : Sound(s[i]) /\ PartOf(s[i], e)

LEMMA ItselfPart ==
  ASSUME NEW e, Sound(e)
  PROVE  ArePartsOf(<<e>>, e) /\ Len(<<e>>) = 1 /\ <<e>>[1] = e
<1>1. <<e>> \in Seq({e}) /\ Len(<<e>>) = 1 /\ DOMAIN <<e>> = 1 .. 1 /\ <<e>>[1] = e
  OBVIOUS
<1>2. \A i \in DOMAIN <<e>> : <<e>>[i] = e
  BY <1>1
<1>3. PartOf(e, e)
  BY DEF PartOf, ThrusPartOf, Sound, IsException
<1>4. QED
  BY <1>1, <1>2, <1>3 DEF ArePartsOf, IsSeq

LEMMA SplitFromParts ==
  ASSUME NEW e, Sound(e)
  PROVE  ArePartsOf(SplitFrom(e), e) /\ Len(SplitFrom(e)) \in 1 .. 2
<1> DEFINE froms == Split(e.from)
           s == SplitFrom(e)
<1>0. e.from.objs \subseteq Objects /\ IsThrus(e.thrus)
  BY DEF Sound, IsException
<1>1. CASE Len(froms) = 1
  BY <1>1, ItselfPart DEF SplitFrom
<1>2. CASE Len(froms) # 1
  <2>1. Len(froms) = 2 /\ \A i \in 1 .. 2 : froms[i].objs \subseteq e.from.objs /\ froms[i].objs # {}
        /\ e.from.objs # {}
    BY <1>0, <1>2, SplitIs
  <2>2. s = [i \in 1 .. 2 |-> With(e, froms[i], Clones(e.thrus), Clone(e.to))]
    BY <1>2 DEF SplitFrom
  <2>3. ASSUME NEW i \in 1 .. 2 PROVE Sound(s[i]) /\ PartOf(s[i], e)
    <3>1. s[i] = With(e, froms[i], Clones(e.thrus), Clone(e.to))
      BY <2>2
    <3>2. Clone(e.to).objs = e.to.objs
      BY PointsAre
    <3>3. QED
      BY <1>0, <2>1, <3>1, <3>2, ClonedThrus, WithPart
  <2>4. s = [i \in 1 .. 2 |-> s[i]]
    BY <2>2
  <2> HIDE DEF s
  <2>5. IsSeq(s) /\ Len(s) = 2 /\ DOMAIN s = 1 .. 2
    BY <2>4, BuiltSeq
  <2>6. QED
    BY <2>3, <2>5 DEF ArePartsOf, s
<1>3. QED
  BY <1>1, <1>2

LEMMA SplitToParts ==
  ASSUME NEW e, Sound(e)
  PROVE  ArePartsOf(SplitTo(e), e) /\ Len(SplitTo(e)) \in 1 .. 2
<1> DEFINE tos == Split(e.to)
           s == SplitTo(e)
<1>0. e.to.objs \subseteq Objects /\ IsThrus(e.thrus)
  BY DEF Sound, IsException
<1>1. CASE Len(tos) = 1
  BY <1>1, ItselfPart DEF SplitTo
<1>2. CASE Len(tos) # 1
  <2>1. Len(tos) = 2 /\ \A i \in 1 .. 2 : tos[i].objs \subseteq e.to.objs /\ tos[i].objs # {}
        /\ e.to.objs # {}
    BY <1>0, <1>2, SplitIs
  <2>2. s = [i \in 1 .. 2 |-> With(e, Clone(e.from), Clones(e.thrus), tos[i])]
    BY <1>2 DEF SplitTo
  <2>3. ASSUME NEW i \in 1 .. 2 PROVE Sound(s[i]) /\ PartOf(s[i], e)
    <3>1. s[i] = With(e, Clone(e.from), Clones(e.thrus), tos[i])
      BY <2>2
    <3>2. Clone(e.from).objs = e.from.objs
      BY PointsAre
    <3>3. QED
      BY <1>0, <2>1, <3>1, <3>2, ClonedThrus, WithPart
  <2>4. s = [i \in 1 .. 2 |-> s[i]]
    BY <2>2
  <2> HIDE DEF s
  <2>5. IsSeq(s) /\ Len(s) = 2 /\ DOMAIN s = 1 .. 2
    BY <2>4, BuiltSeq
  <2>6. QED
    BY <2>3, <2>5 DEF ArePartsOf, s
<1>3. QED
  BY <1>1, <1>2

LEMMA PartsOfParts ==
  ASSUME NEW e, NEW x, PartOf(x, e), NEW s, ArePartsOf(s, x)
  PROVE  ArePartsOf(s, e)
BY PartOfPart DEF ArePartsOf

LEMMA PartsJoined ==
  ASSUME NEW e, NEW s, NEW t, ArePartsOf(s, e), ArePartsOf(t, e)
  PROVE  ArePartsOf(s \o t, e)
<1>1. IsSeq(s) /\ IsSeq(t)
  BY DEF ArePartsOf
<1>2. Len(s) \in Nat /\ DOMAIN s = 1 .. Len(s) /\ Len(t) \in Nat /\ DOMAIN t = 1 .. Len(t)
  BY <1>1, SeqFacts
<1>3. /\ IsSeq(s \o t) /\ Len(s \o t) = Len(s) + Len(t)
      /\ \A i \in 1 .. Len(s) : (s \o t)[i] = s[i]
      /\ \A i \in 1 .. Len(t) : (s \o t)[Len(s) + i] = t[i]
  BY <1>1, Joined
<1>4. DOMAIN (s \o t) = 1 .. Len(s) + Len(t)
  BY <1>3, SeqFacts
<1>5. ASSUME NEW i \in DOMAIN (s \o t) PROVE Sound((s \o t)[i]) /\ PartOf((s \o t)[i], e)
  <2>1. CASE i <= Len(s)
    <3>1. i \in 1 .. Len(s)
      BY <1>2, <1>4, <2>1
    <3>2. QED
      BY <1>2, <1>3, <3>1 DEF ArePartsOf
  <2>2. CASE i > Len(s)
    <3>1. i - Len(s) \in 1 .. Len(t) /\ Len(s) + (i - Len(s)) = i
      BY <1>2, <1>4, <2>2
    <3>2. (s \o t)[i] = t[i - Len(s)]
      BY <1>3, <3>1
    <3>3. QED
      BY <1>2, <3>1, <3>2 DEF ArePartsOf
  <2>3. QED
    BY <1>2, <1>4, <2>1, <2>2
<1>6. QED
  BY <1>3, <1>5 DEF ArePartsOf

LEMMA PartsAre ==
  ASSUME NEW e, Sound(e)
  PROVE  ArePartsOf(Parts(e), e)
<1> DEFINE halves == SplitFrom(e)
           one == SplitTo(halves[1])
           two == IF Len(halves) = 2 THEN SplitTo(halves[2]) ELSE <<>>
<1>1. ArePartsOf(halves, e) /\ Len(halves) \in 1 .. 2
  BY SplitFromParts
<1> HIDE DEF halves
<1>2. DOMAIN halves = 1 .. Len(halves)
  BY <1>1, SeqFacts DEF ArePartsOf
<1>3. ASSUME NEW i \in 1 .. Len(halves) PROVE ArePartsOf(SplitTo(halves[i]), e)
  <2>1. Sound(halves[i]) /\ PartOf(halves[i], e)
    BY <1>1, <1>2, <1>3 DEF ArePartsOf
  <2>2. QED
    BY <2>1, SplitToParts, PartsOfParts
<1>4. ArePartsOf(one, e)
  <2>1. 1 \in 1 .. Len(halves)
    BY <1>1
  <2>2. QED
    BY <1>3, <2>1
<1>5. ArePartsOf(two, e)
  <2>1. CASE Len(halves) = 2
    <3>1. 2 \in 1 .. Len(halves)
      BY <2>1
    <3>2. QED
      BY <1>3, <2>1, <3>1
  <2>2. CASE Len(halves) # 2
    <3>1. <<>> \in Seq({}) /\ DOMAIN <<>> = {}
      OBVIOUS
    <3>2. two = <<>>
      BY <2>2
    <3>3. IsSeq(two)
      BY <3>1, <3>2 DEF IsSeq
    <3>4. QED
      BY <3>1, <3>2, <3>3 DEF ArePartsOf
  <2>3. QED
    BY <2>1, <2>2
<1> HIDE DEF one, two
<1>6. ArePartsOf(one \o two, e)
  BY <1>4, <1>5, PartsJoined
<1>7. QED
  BY <1>6 DEF Parts, one, two, halves

LEMMA ExcludingParts ==
  ASSUME NEW e, Sound(e), NEW x, NEW y \in Excluding(e, x)
  PROVE  Sound(y)
<1>0. IsThrus(e.thrus)
  BY DEF Sound, IsException
<1>1. CASE y \in ExcludingFrom(e, x)
  <2> DEFINE from == Deleted(Clone(e.from), x.from)
  <2>1. from.objs \subseteq e.from.objs /\ Clone(e.to).objs = e.to.objs
    BY PointsAre
  <2>2. from.objs # {} /\ y = With(e, from, Clones(e.thrus), Clone(e.to))
    BY <1>1 DEF ExcludingFrom, HasObjects
  <2> HIDE DEF from
  <2>3. QED
    BY <1>0, <2>1, <2>2, ClonedThrus, WithPart
<1>2. CASE y \in ExcludingTo(e, x)
  <2> DEFINE to == Deleted(Clone(e.to), x.to)
  <2>1. to.objs \subseteq e.to.objs /\ Clone(e.from).objs = e.from.objs
    BY PointsAre
  <2>2. to.objs # {} /\ y = With(e, Clone(e.from), Clones(e.thrus), to)
    BY <1>2 DEF ExcludingTo, HasObjects
  <2> HIDE DEF to
  <2>3. QED
    BY <1>0, <2>1, <2>2, ClonedThrus, WithPart
<1>3. CASE y \in ExcludingThru(e, x)
  <2> DEFINE thru(i) == Deleted(Clone(e.thrus[i]), x.thrus[i])
             thrus(i) == [j \in DOMAIN e.thrus |-> IF j = i THEN thru(i) ELSE Clone(e.thrus[i])]
  <2>1. PICK i \in DOMAIN e.thrus :
          thru(i).objs # {} /\ y = With(e, Clone(e.from), thrus(i), Clone(e.to))
    BY <1>3 DEF ExcludingThru, HasObjects
  <2> DEFINE ts == thrus(i)
  <2>2. DOMAIN e.thrus = 1 .. Len(e.thrus) /\ Len(e.thrus) \in Nat
        /\ (e.thrus # <<>> <=> Len(e.thrus) >= 1)
    BY <1>0, SeqFacts DEF IsThrus
  <2>3. IsSeq(ts) /\ Len(ts) = Len(e.thrus) /\ DOMAIN ts = DOMAIN e.thrus
    <3>1. ts = [j \in 1 .. Len(e.thrus) |-> ts[j]]
      BY <2>2
    <3> HIDE DEF ts
    <3>2. QED
      BY <2>2, <3>1, BuiltSeq
  <2>4. \A j \in DOMAIN ts : ts[j].objs \subseteq e.thrus[i].objs /\ ts[j].objs # {}
    <3>1. Clone(e.thrus[i]).objs = e.thrus[i].objs /\ thru(i).objs \subseteq e.thrus[i].objs
      BY PointsAre
    <3>2. e.thrus[i].objs # {}
      BY <1>0 DEF IsThrus
    <3>3. QED
      BY <2>1, <2>3, <3>1, <3>2
  <2>5. Clone(e.from).objs = e.from.objs /\ Clone(e.to).objs = e.to.objs
    BY PointsAre
  <2>6. ts # <<>> <=> Len(ts) >= 1
    BY <2>3, SeqFacts
  <2>7. y = With(e, Clone(e.from), ts, Clone(e.to))
    BY <2>1
  <2> HIDE DEF ts
  <2>8. IsThrus(ts)
    BY <1>0, <2>3, <2>4 DEF IsThrus
  <2>9. ThrusPartOf(ts, e.thrus)
    BY <2>2, <2>3, <2>4, <2>6, <2>8 DEF ThrusPartOf
  <2>10. QED
    BY <2>5, <2>7, <2>9, WithPart
<1>4. QED
  BY <1>1, <1>2, <1>3 DEF Excluding

(* The first object of a thru is one of its objects                        *)
LEMMA FirstIn ==
  ASSUME NEW S, S \subseteq Objects, S # {}
  PROVE  First(S) \in S
<1> DEFINE front == IF S \cap Pins # {} THEN S \cap Pins ELSE S
           Ids == {Id[o] : o \in front}
<1>1. front # {} /\ front \subseteq S /\ First(S) = CHOOSE o \in front : \A p \in front : Id[o] <= Id[p]
  BY DEF First
<1> HIDE DEF front
<1>2. \A o \in front : Id[o] \in Nat
  BY <1>1, ExceptionsAssumption
<1>3. Ids \subseteq Nat /\ Ids # {}
  BY <1>1, <1>2
<1>4. PICK n \in Ids : \A m \in Ids : <<m, n>> \notin OpToRel(<, Nat)
  BY <1>3, NatLessThanWellFounded, WFMin
<1>5. PICK o \in front : Id[o] = n
  BY <1>4
<1>6. \A p \in front : Id[o] <= Id[p]
  <2>1. TAKE p \in front
  <2>2. Id[p] \in Ids /\ Id[p] \in Nat /\ n \in Nat
    BY <1>2, <1>3
  <2>3. ~(Id[p] < n)
    BY <1>4, <2>2 DEF OpToRel
  <2>4. QED
    BY <1>5, <2>2, <2>3
<1>7. QED
  BY <1>1, <1>5, <1>6

LEMMA ExpandedThrusAre ==
  ASSUME NEW thrus, IsThrus(thrus), NEW ts \in ExpandedThrus(thrus)
  PROVE  /\ IsSeq(ts) /\ Len(ts) \in Nat /\ Len(ts) <= Len(thrus)
         /\ DOMAIN ts = 1 .. Len(ts)
         /\ Len(ts) = 0 <=> thrus = <<>>
         /\ \A i \in DOMAIN ts : ts[i] \in thrus[i].objs
<1> DEFINE n == Len(thrus)
           others(k) == thrus[k].objs \ (IF k < n THEN {First(thrus[k].objs)} ELSE {})
           path(k, o) == [i \in 1 .. k |-> IF i = k THEN o ELSE First(thrus[i].objs)]
<1>1. n \in Nat /\ DOMAIN thrus = 1 .. n /\ (thrus # <<>> <=> n >= 1)
  BY SeqFacts DEF IsThrus
<1>2. CASE n = 0
  <2>1. ts = <<>> /\ thrus = <<>>
    BY <1>1, <1>2 DEF ExpandedThrus
  <2>2. <<>> \in Seq({}) /\ DOMAIN <<>> = 1 .. Len(<<>>) /\ Len(<<>>) = 0
    OBVIOUS
  <2>3. QED
    BY <1>2, <2>1, <2>2 DEF IsSeq
<1>3. CASE n # 0
  <2>1. ts \in UNION {{path(k, o) : o \in others(k)} : k \in 1 .. n}
    BY <1>3 DEF ExpandedThrus
  <2>2. PICK k \in 1 .. n : \E o \in others(k) : ts = path(k, o)
    BY <2>1
  <2>3. PICK o \in others(k) : ts = path(k, o)
    BY <2>2
  <2>4. k \in Nat /\ ts = [i \in 1 .. k |-> ts[i]]
    BY <1>1, <2>3
  <2>5. IsSeq(ts) /\ Len(ts) = k /\ DOMAIN ts = 1 .. k
    BY <2>4, BuiltSeq
  <2>6. ASSUME NEW i \in 1 .. k PROVE ts[i] \in thrus[i].objs
    <3>1. i \in DOMAIN thrus /\ thrus[i].objs # {} /\ thrus[i].objs \subseteq Objects
      BY <1>1 DEF IsThrus
    <3>2. First(thrus[i].objs) \in thrus[i].objs
      BY <3>1, FirstIn
    <3>3. ts[i] = IF i = k THEN o ELSE First(thrus[i].objs)
      BY <2>3
    <3>4. o \in thrus[k].objs
      BY <2>3
    <3>5. QED
      BY <3>2, <3>3, <3>4
  <2>7. QED
    BY <1>1, <1>3, <2>4, <2>5, <2>6
<1>4. QED
  BY <1>2, <1>3

LEMMA SinglesAre ==
  ASSUME NEW p, p.objs \subseteq Objects, NEW o \in OneOf(p)
  PROVE  Single(o).objs \subseteq p.objs /\ (Single(o).objs = {} <=> p.objs = {})
BY ExceptionsAssumption, PointsAre DEF OneOf, HasObjects, Single

LEMMA ExpansionsSound ==
  ASSUME NEW e, Sound(e), NEW y \in Expansions(e)
  PROVE  Sound(y)
<1>1. IsThrus(e.thrus) /\ e.from.objs \subseteq Objects /\ e.to.objs \subseteq Objects
  BY DEF Sound, IsException
<1>2. PICK f \in OneOf(e.from), ts \in ExpandedThrus(e.thrus), t \in OneOf(e.to) :
        y = With(e, Single(f), [i \in DOMAIN ts |-> Single(ts[i])], Single(t))
  BY DEF Expansions
<1> DEFINE thrus == [i \in DOMAIN ts |-> Single(ts[i])]
<1>3. /\ IsSeq(ts) /\ Len(ts) \in Nat /\ Len(ts) <= Len(e.thrus)
      /\ DOMAIN ts = 1 .. Len(ts)
      /\ Len(ts) = 0 <=> e.thrus = <<>>
      /\ \A i \in DOMAIN ts : ts[i] \in e.thrus[i].objs
  BY <1>1, ExpandedThrusAre
<1>4. DOMAIN e.thrus = 1 .. Len(e.thrus) /\ Len(e.thrus) \in Nat
  BY <1>1, SeqFacts DEF IsThrus
<1>5. IsSeq(thrus) /\ Len(thrus) = Len(ts) /\ DOMAIN thrus = DOMAIN ts
  <2>1. thrus = [i \in 1 .. Len(ts) |-> thrus[i]]
    BY <1>3
  <2> HIDE DEF thrus
  <2>2. QED
    BY <1>3, <2>1, BuiltSeq
<1>6. \A i \in DOMAIN thrus : /\ i \in DOMAIN e.thrus
                             /\ thrus[i].objs \subseteq e.thrus[i].objs /\ thrus[i].objs # {}
  <2>1. TAKE i \in DOMAIN thrus
  <2>2. i \in DOMAIN e.thrus /\ ts[i] \in e.thrus[i].objs /\ thrus[i] = Single(ts[i])
    BY <1>3, <1>4, <1>5
  <2>3. ts[i] # None
    BY <1>1, <2>2, ExceptionsAssumption DEF IsThrus
  <2>4. thrus[i].objs = {ts[i]}
    BY <2>2, <2>3, PointsAre DEF Single
  <2>5. QED
    BY <2>2, <2>4
<1>7. thrus # <<>> <=> Len(thrus) >= 1
  BY <1>5, SeqFacts
<1>8. y = With(e, Single(f), thrus, Single(t))
  BY <1>2
<1> HIDE DEF thrus
<1>9. IsThrus(thrus)
  BY <1>1, <1>5, <1>6 DEF IsThrus
<1>10. ThrusPartOf(thrus, e.thrus)
  <2>1. thrus = <<>> <=> e.thrus = <<>>
    BY <1>3, <1>5, <1>7
  <2>2. DOMAIN thrus \subseteq DOMAIN e.thrus
    BY <1>6
  <2>3. QED
    BY <1>6, <1>9, <2>1, <2>2 DEF ThrusPartOf
<1>11. QED
  BY <1>1, <1>8, <1>10, SinglesAre, WithPart

------------------------------------------------------------------------------
(* The keys an exception is found under.                                   *)
LEMMA SameKeys ==
  ASSUME NEW e, Sound(e), NetsAlone
  PROVE  UnrecordKeys(e) = RecordKeys(e)
<1>1. CASE e.from.objs # {} \/ e.thrus = <<>>
  BY <1>1 DEF UnrecordKeys, RecordKeys, Keys, HasObjects
<1>2. CASE e.from.objs = {} /\ e.thrus # <<>>
  <2>1. 1 \in DOMAIN e.thrus
    BY <1>2, SeqFacts DEF Sound, IsException, IsThrus
  <2>2. Nets \cap UNION {e.thrus[i].objs : i \in DOMAIN e.thrus}
          = Nets \cap UNION {e.thrus[i].objs : i \in {1}}
    <3>1. CASE DOMAIN e.thrus \subseteq {1}
      <4>1. DOMAIN e.thrus = {1}
        BY <2>1, <3>1
      <4>2. QED
        BY <4>1
    <3>2. CASE ~(DOMAIN e.thrus \subseteq {1})
      <4>1. \A i \in DOMAIN e.thrus : e.thrus[i].objs \cap Nets = {}
        BY <1>2, <3>2 DEF Sound, NetAlone
      <4>2. QED
        BY <2>1, <4>1
    <3>3. QED
      BY <3>1, <3>2
  <2>3. QED
    BY <1>2, <2>2 DEF UnrecordKeys, RecordKeys, Keys, HasObjects
<1>3. QED
  BY <1>1, <1>2

LEMMA SomeKey ==
  ASSUME NEW e, Sound(e)
  PROVE  RecordKeys(e) # {}
<1>1. CASE e.from.objs # {}
  <2>1. PICK o \in e.from.objs : TRUE
    BY <1>1
  <2>2. <<"from", o>> \in RecordKeys(e)
    BY <1>1 DEF RecordKeys, Keys, HasObjects
  <2>3. QED
    BY <2>2
<1>2. CASE e.from.objs = {} /\ e.thrus # <<>>
  <2>1. 1 \in DOMAIN e.thrus
    BY <1>2, SeqFacts DEF Sound, IsException, IsThrus
  <2>2. PICK o \in e.thrus[1].objs : TRUE
    BY <2>1 DEF Sound, IsException, IsThrus
  <2>3. <<"thru", o>> \in RecordKeys(e) \/ <<"net", o>> \in RecordKeys(e)
    BY <1>2, <2>1 DEF RecordKeys, Keys, HasObjects
  <2>4. QED
    BY <2>3
<1>3. CASE e.from.objs = {} /\ e.thrus = <<>>
  <2>1. PICK o \in e.to.objs : TRUE
    BY <1>3 DEF Sound, IsException
  <2>2. <<"to", o>> \in RecordKeys(e)
    BY <1>3, <2>1 DEF RecordKeys, Keys, HasObjects
  <2>3. QED
    BY <2>2
<1>4. QED
  BY <1>1, <1>2, <1>3

------------------------------------------------------------------------------
(* The points of an exception in a row, and what a merge makes of one.     *)
LEMMA PresentIs ==
  ASSUME NEW p
  PROVE  /\ IsSeq(Present(p))
         /\ p.objs = {} => Len(Present(p)) = 0
         /\ p.objs # {} => Len(Present(p)) = 1 /\ Present(p)[1] = p
<1>1. <<p>> \in Seq({p}) /\ Len(<<p>>) = 1 /\ <<p>>[1] = p
  OBVIOUS
<1>2. <<>> \in Seq({p}) /\ Len(<<>>) = 0
  OBVIOUS
<1>3. CASE p.objs = {}
  BY <1>2, <1>3 DEF Present, HasObjects, IsSeq
<1>4. CASE p.objs # {}
  BY <1>1, <1>4 DEF Present, HasObjects, IsSeq
<1>5. QED
  BY <1>3, <1>4

(* A place in a row of three parts, the outer ones of one place at most    *)
LEMMA InThreeParts ==
  ASSUME NEW A \in 0 .. 1, NEW B \in Nat, NEW C \in 0 .. 1, NEW k \in 1 .. A + B + C
  PROVE  /\ k \in Nat /\ k >= 1
         /\ \/ k = 1 /\ A = 1 /\ k <= A
            \/ /\ ~(k <= A) /\ k - A \in 1 .. B /\ k \in 1 .. A + B
               /\ A + (k - A) = k
            \/ /\ ~(k <= A) /\ C = 1 /\ k = A + B + 1
               /\ k - A = B + 1 /\ k - A \notin 1 .. B
OBVIOUS

LEMMA PtsAre ==
  ASSUME NEW e, IsThrus(e.thrus), NEW k \in DOMAIN Pts(e), NEW F, F = Len(Present(e.from))
  PROVE  /\ F \in 0 .. 1 /\ (F = 0 <=> e.from.objs = {})
         /\ k \in Nat /\ k >= 1
         /\ \/ k = 1 /\ k <= F /\ Pts(e)[k] = e.from
            \/ ~(k <= F) /\ k - F \in DOMAIN e.thrus /\ Pts(e)[k] = e.thrus[k - F]
            \/ /\ ~(k <= F) /\ k - F \notin DOMAIN e.thrus
               /\ k - F = Len(e.thrus) + 1
               /\ e.to.objs # {} /\ Pts(e)[k] = e.to
<1> DEFINE a == Present(e.from)
           b == e.thrus
           c == Present(e.to)
<1>1. /\ IsSeq(a) /\ (e.from.objs = {} => Len(a) = 0)
      /\ e.from.objs # {} => Len(a) = 1 /\ a[1] = e.from
  BY PresentIs
<1>2. /\ IsSeq(c) /\ (e.to.objs = {} => Len(c) = 0)
      /\ e.to.objs # {} => Len(c) = 1 /\ c[1] = e.to
  BY PresentIs
<1>3. IsSeq(b) /\ Len(b) \in Nat /\ DOMAIN b = 1 .. Len(b)
  BY SeqFacts DEF IsThrus
<1>4. Pts(e) = (a \o b) \o c
  BY DEF Pts
<1>5. F = Len(a)
  OBVIOUS
<1> HIDE DEF a, b, c
<1>6. /\ IsSeq(a \o b) /\ Len(a \o b) = F + Len(b)
      /\ \A i \in 1 .. F : (a \o b)[i] = a[i]
      /\ \A i \in 1 .. Len(b) : (a \o b)[F + i] = b[i]
  BY <1>1, <1>3, <1>5, Joined
<1>7. /\ IsSeq((a \o b) \o c) /\ Len((a \o b) \o c) = F + Len(b) + Len(c)
      /\ \A i \in 1 .. F + Len(b) : ((a \o b) \o c)[i] = (a \o b)[i]
      /\ \A i \in 1 .. Len(c) : ((a \o b) \o c)[F + Len(b) + i] = c[i]
  BY <1>2, <1>6, Joined, SMTT(30)
<1>8. F \in 0 .. 1 /\ (F = 0 <=> e.from.objs = {}) /\ Len(c) \in 0 .. 1
  BY <1>1, <1>2, <1>5
<1>9. k \in 1 .. F + Len(b) + Len(c)
  BY <1>4, <1>7, SeqFacts
<1>10. /\ k \in Nat /\ k >= 1
       /\ \/ k = 1 /\ F = 1 /\ k <= F
          \/ /\ ~(k <= F) /\ k - F \in 1 .. Len(b) /\ k \in 1 .. F + Len(b)
             /\ F + (k - F) = k
          \/ /\ ~(k <= F) /\ Len(c) = 1 /\ k = F + Len(b) + 1
             /\ k - F = Len(b) + 1 /\ k - F \notin 1 .. Len(b)
  BY <1>3, <1>8, <1>9, InThreeParts
<1>11. CASE k = 1 /\ F = 1 /\ k <= F
  <2>1. e.from.objs # {} /\ 1 \in 1 .. F /\ 1 \in 1 .. F + Len(b)
    BY <1>3, <1>8, <1>11
  <2>2. Pts(e)[k] = a[1]
    BY <1>4, <1>6, <1>7, <1>11, <2>1
  <2>3. QED
    BY <1>1, <1>8, <1>10, <1>11, <2>1, <2>2
<1>12. CASE /\ ~(k <= F) /\ k - F \in 1 .. Len(b) /\ k \in 1 .. F + Len(b)
            /\ F + (k - F) = k
  <2>1. (a \o b)[F + (k - F)] = b[k - F]
    BY <1>6, <1>12
  <2>2. Pts(e)[k] = b[k - F]
    BY <1>4, <1>7, <1>12, <2>1
  <2>3. QED
    BY <1>3, <1>8, <1>10, <1>12, <2>2 DEF b
<1>13. CASE /\ ~(k <= F) /\ Len(c) = 1 /\ k = F + Len(b) + 1
            /\ k - F = Len(b) + 1 /\ k - F \notin 1 .. Len(b)
  <2>1. e.to.objs # {} /\ c[1] = e.to /\ 1 \in 1 .. Len(c)
    BY <1>2, <1>13
  <2>2. Pts(e)[k] = c[1]
    BY <1>4, <1>7, <1>13, <2>1
  <2>3. QED
    BY <1>3, <1>8, <1>10, <1>13, <2>1, <2>2 DEF b
<1>14. QED
  BY <1>10, <1>11, <1>12, <1>13

(* The internal points of a path delay are noted                           *)
NotedAs(e, S, T) ==
  e.kind = "delay" => e.from.objs \cap Internal \subseteq S /\ e.to.objs \cap Internal \subseteq T

NotedIn(e) == NotedAs(e, starts, ends)

LEMMA MergedFrom ==
  ASSUME NEW e, NEW m, Sound(e), Sound(m), m.kind = "delay" => e.kind = "delay",
         m.from.objs # {}, NEW t, t = [m EXCEPT !.from = Merged(e.from, @)]
  PROVE  /\ Sound(t) /\ RecordKeys(m) \subseteq RecordKeys(t)
         /\ NotedIn(e) /\ NotedIn(m) => NotedIn(t)
<1>0. /\ m = [kind |-> m.kind, minMax |-> m.minMax, value |-> m.value,
              from |-> m.from, thrus |-> m.thrus, to |-> m.to, prio |-> m.prio]
  BY DEF Sound, IsException
<1>1. /\ t = [kind |-> t.kind, minMax |-> t.minMax, value |-> t.value,
              from |-> t.from, thrus |-> t.thrus, to |-> t.to, prio |-> t.prio]
      /\ t.kind = m.kind /\ t.thrus = m.thrus /\ t.to = m.to /\ t.prio = m.prio
      /\ t.from = Merged(e.from, m.from)
  BY <1>0
<1>2. t.from.objs = m.from.objs \cup e.from.objs
  BY <1>1, PointsAre
<1>3. IsException(t)
  BY <1>1, <1>2 DEF IsException, Sound
<1>4. NetAlone(t)
  BY <1>2 DEF NetAlone
<1>5. EndAlone(m) => EndAlone(t)
  BY <1>1 DEF EndAlone
<1>6. Sound(t)
  BY <1>3, <1>4, <1>5 DEF Sound
<1>7. RecordKeys(m) \subseteq RecordKeys(t)
  BY <1>2 DEF RecordKeys, Keys, HasObjects
<1>8. NotedIn(e) /\ NotedIn(m) => NotedIn(t)
  BY <1>1, <1>2 DEF NotedIn, NotedAs
<1>9. QED
  BY <1>6, <1>7, <1>8

LEMMA MergedThru ==
  ASSUME NEW e, NEW m, Sound(e), Sound(m),
         e.from.objs = {} <=> m.from.objs = {}, Len(e.thrus) = Len(m.thrus),
         NEW n \in DOMAIN e.thrus,
         NEW t, t = [m EXCEPT !.thrus[n] = Merged(e.thrus[n], @)]
  PROVE  /\ Sound(t) /\ RecordKeys(m) \subseteq RecordKeys(t)
         /\ NetsAlone /\ (n # 1 \/ m.from.objs # {}) => RecordKeys(t) = RecordKeys(m)
         /\ NotedIn(m) => NotedIn(t)
<1>0. /\ m = [kind |-> m.kind, minMax |-> m.minMax, value |-> m.value,
              from |-> m.from, thrus |-> m.thrus, to |-> m.to, prio |-> m.prio]
      /\ IsThrus(m.thrus) /\ IsThrus(e.thrus)
  BY DEF Sound, IsException
<1> DEFINE thrus == t.thrus
<1>1. /\ t = [kind |-> t.kind, minMax |-> t.minMax, value |-> t.value,
              from |-> t.from, thrus |-> t.thrus, to |-> t.to, prio |-> t.prio]
      /\ t.kind = m.kind /\ t.from = m.from /\ t.to = m.to /\ t.prio = m.prio
      /\ thrus = [m.thrus EXCEPT ![n] = Merged(e.thrus[n], m.thrus[n])]
  BY <1>0
<1>2. /\ Len(m.thrus) \in Nat /\ DOMAIN m.thrus = 1 .. Len(m.thrus)
      /\ DOMAIN e.thrus = 1 .. Len(m.thrus)
  BY <1>0, SeqFacts DEF IsThrus
<1> HIDE DEF thrus
<1>3. IsSeq(thrus) /\ Len(thrus) = Len(m.thrus) /\ DOMAIN thrus = DOMAIN m.thrus
  <2>1. thrus = [i \in 1 .. Len(m.thrus) |-> thrus[i]]
    BY <1>1, <1>2
  <2>2. QED
    BY <1>2, <2>1, BuiltSeq
<1>4. \A i \in DOMAIN thrus :
        thrus[i].objs = IF i = n THEN m.thrus[i].objs \cup e.thrus[i].objs ELSE m.thrus[i].objs
  <2>1. TAKE i \in DOMAIN thrus
  <2>2. thrus[i] = IF i = n THEN Merged(e.thrus[n], m.thrus[n]) ELSE m.thrus[i]
    BY <1>1, <1>3
  <2>3. Merged(e.thrus[n], m.thrus[n]).objs = m.thrus[n].objs \cup e.thrus[n].objs
    BY PointsAre
  <2>4. QED
    BY <2>2, <2>3
<1>5. IsThrus(thrus)
  BY <1>0, <1>2, <1>3, <1>4 DEF IsThrus
<1>6. thrus # <<>>
  BY <1>2, <1>3, SeqFacts
<1>7. IsException(t)
  BY <1>1, <1>5, <1>6 DEF IsException, Sound, thrus
<1>8. NetAlone(e) /\ NetAlone(m) => NetAlone(t)
  <2>1. SUFFICES ASSUME NetAlone(e), NetAlone(m), m.from.objs = {}, ~(DOMAIN thrus \subseteq {1}),
                        NEW i \in DOMAIN thrus
                 PROVE  thrus[i].objs \cap Nets = {}
    BY <1>1 DEF NetAlone, thrus
  <2>2. m.thrus[i].objs \cap Nets = {}
    BY <1>3, <2>1 DEF NetAlone
  <2>3. e.thrus[i].objs \cap Nets = {}
    BY <1>2, <1>3, <2>1 DEF NetAlone
  <2>4. QED
    BY <1>4, <2>2, <2>3
<1>9. EndAlone(m) => EndAlone(t)
  <2>1. m.thrus # <<>>
    BY <1>0, <1>2, SeqFacts DEF IsThrus
  <2>2. QED
    BY <1>1, <2>1 DEF EndAlone
<1>10. Sound(t)
  BY <1>7, <1>8, <1>9 DEF Sound
<1>11. m.thrus # <<>> /\ 1 \in DOMAIN thrus
  BY <1>0, <1>2, <1>3, SeqFacts DEF IsThrus
<1>12. RecordKeys(m) \subseteq RecordKeys(t)
  <2>1. \A i \in DOMAIN m.thrus : i \in DOMAIN thrus /\ m.thrus[i].objs \subseteq thrus[i].objs
    BY <1>3, <1>4
  <2>2. UNION {m.thrus[i].objs : i \in DOMAIN m.thrus} \subseteq UNION {thrus[i].objs : i \in DOMAIN thrus}
    BY <2>1
  <2>3. QED
    BY <1>1, <1>6, <1>11, <1>3, <2>1, <2>2 DEF RecordKeys, Keys, HasObjects, thrus
<1>13. ASSUME NetsAlone, n # 1 \/ m.from.objs # {} PROVE RecordKeys(t) = RecordKeys(m)
  <2>1. CASE m.from.objs # {}
    BY <1>1, <2>1 DEF RecordKeys, Keys, HasObjects
  <2>2. CASE m.from.objs = {}
    <3>1. n # 1 /\ ~(DOMAIN thrus \subseteq {1}) /\ ~(DOMAIN m.thrus \subseteq {1})
      BY <1>2, <1>3, <1>13, <2>2
    <3>2. NetAlone(t) /\ NetAlone(m)
      BY <1>10, <1>13 DEF Sound
    <3>3. \A i \in DOMAIN thrus : thrus[i].objs \cap Nets = {}
      BY <1>1, <2>2, <3>1, <3>2 DEF NetAlone, thrus
    <3>4. \A i \in DOMAIN m.thrus : m.thrus[i].objs \cap Nets = {}
      BY <2>2, <3>1, <3>2 DEF NetAlone
    <3>5. thrus[1].objs = m.thrus[1].objs
      BY <1>4, <1>11, <3>1
    <3>6. Nets \cap UNION {thrus[i].objs : i \in DOMAIN thrus}
            = Nets \cap UNION {m.thrus[i].objs : i \in DOMAIN m.thrus}
      BY <3>3, <3>4
    <3>7. QED
      BY <1>1, <1>6, <1>11, <2>2, <3>5, <3>6 DEF RecordKeys, Keys, HasObjects, thrus
  <2>3. QED
    BY <2>1, <2>2
<1>14. NotedIn(m) => NotedIn(t)
  BY <1>1 DEF NotedIn, NotedAs
<1>15. QED
  BY <1>10, <1>12, <1>13, <1>14

LEMMA MergedTo ==
  ASSUME NEW e, NEW m, Sound(e), Sound(m), m.kind # "delay",
         m.to.objs # {}, NEW t, t = [m EXCEPT !.to = Merged(e.to, @)]
  PROVE  /\ Sound(t) /\ RecordKeys(m) \subseteq RecordKeys(t)
         /\ m.from.objs # {} \/ m.thrus # <<>> => RecordKeys(t) = RecordKeys(m)
         /\ NotedIn(t)
<1>0. /\ m = [kind |-> m.kind, minMax |-> m.minMax, value |-> m.value,
              from |-> m.from, thrus |-> m.thrus, to |-> m.to, prio |-> m.prio]
  BY DEF Sound, IsException
<1>1. /\ t = [kind |-> t.kind, minMax |-> t.minMax, value |-> t.value,
              from |-> t.from, thrus |-> t.thrus, to |-> t.to, prio |-> t.prio]
      /\ t.kind = m.kind /\ t.thrus = m.thrus /\ t.from = m.from /\ t.prio = m.prio
      /\ t.to = Merged(e.to, m.to)
  BY <1>0
<1>2. t.to.objs = m.to.objs \cup e.to.objs
  BY <1>1, PointsAre
<1>3. IsException(t)
  BY <1>1, <1>2 DEF IsException, Sound
<1>4. NetAlone(m) => NetAlone(t)
  BY <1>1 DEF NetAlone
<1>5. EndAlone(t) /\ NotedIn(t)
  BY <1>1 DEF EndAlone, NotedIn, NotedAs
<1>6. Sound(t)
  BY <1>3, <1>4, <1>5 DEF Sound
<1>7. RecordKeys(m) \subseteq RecordKeys(t)
  BY <1>1, <1>2 DEF RecordKeys, Keys, HasObjects
<1>8. m.from.objs # {} \/ m.thrus # <<>> => RecordKeys(t) = RecordKeys(m)
  BY <1>1 DEF RecordKeys, Keys, HasObjects
<1>9. QED
  BY <1>5, <1>6, <1>7, <1>8

(* A merge keeps the keys of the exception merged into, but for the first  *)
(* point, and adds to them there                                           *)
LEMMA MergedKeys ==
  ASSUME NEW e, NEW m, Sound(e), Sound(m), NEW k \in DOMAIN Pts(e),
         Mergeable(e, m), MergeablePts(m, e, k), NEW t, t = MergeInto(e, k, m)
  PROVE  /\ Sound(t) /\ RecordKeys(m) \subseteq RecordKeys(t)
         /\ NetsAlone /\ k # 1 => RecordKeys(t) = RecordKeys(m)
         /\ NotedIn(e) /\ NotedIn(m) => NotedIn(t)
<1> DEFINE F == Len(Present(e.from))
           p == Pts(e)[k]
<1>1. IsThrus(e.thrus) /\ IsThrus(m.thrus)
  BY DEF Sound, IsException
<1>2. /\ e.from.objs = {} <=> m.from.objs = {}
      /\ Len(e.thrus) = Len(m.thrus)
      /\ e.to.objs = {} <=> m.to.objs = {}
  BY DEF MergeablePts, HasObjects
<1>3. m.kind = "delay" => e.kind = "delay" /\ m.to.objs = {}
  <2>1. /\ e.kind \in {"false", "delay", "multi", "group"}
        /\ m.kind \in {"false", "delay", "multi", "group"}
        /\ e.kind = "false" => e.prio >= 4000
        /\ m.kind = "delay" => m.prio < 4000
        /\ e.prio \in Nat /\ m.prio \in Nat
    BY DEF Sound, IsException
  <2>2. CASE e.kind = "false"
    <3>1. e.prio = m.prio
      BY <2>2 DEF Mergeable
    <3>2. QED
      BY <2>1, <2>2, <3>1
  <2>3. CASE e.kind = "delay"
    BY <2>3 DEF Mergeable, HasObjects
  <2>4. CASE e.kind = "multi"
    BY <2>4 DEF Mergeable, Overrides
  <2>5. CASE e.kind = "group"
    BY <2>5 DEF Mergeable
  <2>6. QED
    BY <2>1, <2>2, <2>3, <2>4, <2>5
<1>4. /\ F \in 0 .. 1 /\ (F = 0 <=> e.from.objs = {})
      /\ k \in Nat /\ k >= 1
      /\ \/ k = 1 /\ k <= F /\ p = e.from
         \/ ~(k <= F) /\ k - F \in DOMAIN e.thrus /\ p = e.thrus[k - F]
         \/ /\ ~(k <= F) /\ k - F \notin DOMAIN e.thrus
            /\ k - F = Len(e.thrus) + 1
            /\ e.to.objs # {} /\ p = e.to
  BY <1>1, PtsAre
<1>5. t = CASE k <= F -> [m EXCEPT !.from = Merged(p, @)]
            [] k - F \in DOMAIN e.thrus -> [m EXCEPT !.thrus[k - F] = Merged(p, @)]
            [] OTHER -> [m EXCEPT !.to = Merged(p, @)]
  BY DEF MergeInto
<1>6. DOMAIN e.thrus = 1 .. Len(e.thrus) /\ Len(e.thrus) \in Nat
  BY <1>1, SeqFacts DEF IsThrus
<1> HIDE DEF F, p
<1>7. CASE k = 1 /\ k <= F /\ p = e.from
  <2>1. k - F \notin DOMAIN e.thrus /\ m.from.objs # {}
    BY <1>2, <1>4, <1>6, <1>7
  <2>2. t = [m EXCEPT !.from = Merged(e.from, @)]
    BY <1>5, <1>7, <2>1
  <2>3. QED
    BY <1>3, <1>7, <2>1, <2>2, MergedFrom
<1>8. CASE ~(k <= F) /\ k - F \in DOMAIN e.thrus /\ p = e.thrus[k - F]
  <2>1. t = [m EXCEPT !.thrus[k - F] = Merged(e.thrus[k - F], @)]
    BY <1>5, <1>8
  <2>2. k # 1 => k - F # 1 \/ m.from.objs # {}
    BY <1>2, <1>4
  <2>3. QED
    BY <1>2, <1>8, <2>1, <2>2, MergedThru, SMTT(30)
<1>9. CASE /\ ~(k <= F) /\ k - F \notin DOMAIN e.thrus
           /\ k - F = Len(e.thrus) + 1
           /\ e.to.objs # {} /\ p = e.to
  <2>1. t = [m EXCEPT !.to = Merged(e.to, @)]
    BY <1>5, <1>9
  <2>2. m.to.objs # {} /\ m.kind # "delay"
    BY <1>2, <1>3, <1>9
  <2>3. k # 1 => m.from.objs # {} \/ m.thrus # <<>>
    <3>1. k # 1 => F = 1 \/ Len(e.thrus) >= 1
      BY <1>4, <1>6, <1>9
    <3>2. Len(m.thrus) >= 1 => m.thrus # <<>>
      BY <1>1, SeqFacts DEF IsThrus
    <3>3. QED
      BY <1>2, <1>4, <3>1, <3>2
  <2>4. QED
    BY <2>1, <2>2, <2>3, MergedTo
<1>10. QED
  BY <1>4, <1>7, <1>8, <1>9

------------------------------------------------------------------------------
(* The calls under way, when S and T are the internal points noted and P   *)
(* the exceptions recorded.                                                *)
FrameOk(f, S, T, P) ==
  \/ f.op = "add" /\ Sound(f.e)
  \/ f.op \in {"add2", "record"} /\ Sound(f.e) /\ NotedAs(f.e, S, T)
  \/ f.op = "each" /\ f = Each(f.todo, f.reset) /\ \A x \in f.todo : Sound(x)
  \/ f.op = "merge" /\ f.id \in P
  \/ /\ f.op = "reset" /\ f = Resets(f.reset, f.next, f.later)
     /\ f.next \in P \cup {None} /\ f.later \subseteq P /\ f.next \notin f.later

(* resetPath is called by no other, and mergeException calls none          *)
Shape(s) ==
  \A j \in DOMAIN s :
    /\ s[j].op = "reset" => j = Len(s)
    /\ s[j].op = "merge" => j = 1
    /\ s[j].op = "each" /\ s[j].reset # None => j = Len(s) - 1 /\ s[Len(s)].op = "reset"

Good(s, S, T, P) ==
  IsSeq(s) /\ Shape(s) /\ \A j \in DOMAIN s : FrameOk(s[j], S, T, P)

(* The calls that wait for the innermost                                   *)
Waiting(r, S, T, P) == Good(r, S, T, P) /\ \A j \in DOMAIN r : r[j].op # "merge"

LEMMA FrameStays ==
  ASSUME NEW S, NEW T, NEW P, NEW f, FrameOk(f, S, T, P),
         NEW S2, NEW T2, NEW P2, S \subseteq S2, T \subseteq T2,
         f.op \notin {"merge", "reset"} \/ P2 = P
  PROVE  FrameOk(f, S2, T2, P2)
BY DEF FrameOk, NotedAs

LEMMA WaitingTail ==
  ASSUME NEW s, NEW S, NEW T, NEW P, Good(s, S, T, P), s # <<>>
  PROVE  /\ Waiting(Tail(s), S, T, P)
         /\ Len(Tail(s)) = Len(s) - 1
         /\ \A i \in 1 .. Len(s) - 1 : Tail(s)[i] = s[i + 1]
         /\ FrameOk(Head(s), S, T, P)
         /\ Head(s).op = "reset" => Len(s) = 1
         /\ Head(s).op = "each" /\ Head(s).reset # None =>
              Len(Tail(s)) = 1 /\ Tail(s)[1].op = "reset"
<1> DEFINE r == Tail(s)
<1>1. Len(s) \in Nat /\ DOMAIN s = 1 .. Len(s) /\ Len(s) >= 1 /\ Head(s) = s[1] /\ 1 \in DOMAIN s
  BY SeqFacts DEF Good
<1>2. IsSeq(r) /\ Len(r) = Len(s) - 1 /\ \A i \in 1 .. Len(s) - 1 : r[i] = s[i + 1]
  BY TailFacts DEF Good
<1> HIDE DEF r
<1>3. DOMAIN r = 1 .. Len(s) - 1
  BY <1>2, SeqFacts
<1>4. ASSUME NEW j \in DOMAIN r
      PROVE  /\ j \in Nat /\ j >= 1 /\ j + 1 \in DOMAIN s /\ r[j] = s[j + 1]
             /\ Len(s) - 1 \in 1 .. Len(s) - 1 /\ r[Len(s) - 1] = s[Len(s)]
  <2>1. /\ j \in Nat /\ j >= 1 /\ j + 1 \in DOMAIN s /\ r[j] = s[j + 1]
        /\ Len(s) - 1 \in 1 .. Len(s) - 1 /\ (Len(s) - 1) + 1 = Len(s)
    BY <1>1, <1>2, <1>3
  <2>2. r[Len(s) - 1] = s[(Len(s) - 1) + 1]
    BY <1>2, <2>1
  <2>3. QED
    BY <2>1, <2>2
<1>5. \A j \in DOMAIN r : FrameOk(r[j], S, T, P)
  BY <1>4 DEF Good
<1>6. \A j \in DOMAIN r : r[j].op # "merge"
  <2>1. TAKE j \in DOMAIN r
  <2>2. j + 1 # 1
    BY <1>4
  <2>3. QED
    BY <1>4, <2>2 DEF Good, Shape
<1>7. Shape(r)
  <2>1. SUFFICES ASSUME NEW j \in DOMAIN r
                 PROVE  /\ r[j].op = "reset" => j = Len(r)
                        /\ r[j].op = "each" /\ r[j].reset # None =>
                             j = Len(r) - 1 /\ r[Len(r)].op = "reset"
    BY <1>6 DEF Shape
  <2>2. r[j].op = "reset" => j + 1 = Len(s)
    BY <1>4 DEF Good, Shape
  <2>3. r[j].op = "each" /\ r[j].reset # None => j + 1 = Len(s) - 1 /\ s[Len(s)].op = "reset"
    BY <1>4 DEF Good, Shape
  <2>4. r[Len(r)] = s[Len(s)] /\ j \in Nat
    BY <1>2, <1>4
  <2>5. QED
    BY <1>1, <1>2, <2>2, <2>3, <2>4
<1>8. Waiting(r, S, T, P)
  BY <1>2, <1>5, <1>6, <1>7 DEF Waiting, Good
<1>9. Head(s).op = "reset" => Len(s) = 1
  BY <1>1 DEF Good, Shape
<1>10. ASSUME Head(s).op = "each", Head(s).reset # None
       PROVE  Len(r) = 1 /\ r[1].op = "reset"
  <2>1. Len(s) - 1 = 1 /\ s[Len(s)].op = "reset"
    BY <1>1, <1>10 DEF Good, Shape
  <2>2. Len(s) = 2
    <3>1. \A n \in Nat : n - 1 = 1 => n = 2
      OBVIOUS
    <3>2. QED
      BY <1>1, <2>1, <3>1
  <2>3. r[1] = s[1 + 1]
    BY <1>2, <2>2
  <2>4. QED
    BY <1>2, <2>1, <2>2, <2>3
<1>11. FrameOk(Head(s), S, T, P)
  BY <1>1 DEF Good
<1>12. QED
  BY <1>2, <1>8, <1>9, <1>10, <1>11 DEF r

(* Calls before those that wait                                            *)
LEMMA Called ==
  ASSUME NEW front, NEW r, NEW S, NEW T, NEW P, IsSeq(front), Waiting(r, S, T, P),
         \A j \in DOMAIN front :
           /\ FrameOk(front[j], S, T, P)
           /\ front[j].op # "reset"
           /\ front[j].op = "merge" => j = 1
           /\ front[j].op = "each" /\ front[j].reset # None =>
                j = Len(front) /\ Len(r) = 1 /\ r[1].op = "reset"
  PROVE  Good(front \o r, S, T, P)
<1> DEFINE t == front \o r
<1>1. /\ Len(front) \in Nat /\ DOMAIN front = 1 .. Len(front)
      /\ Len(r) \in Nat /\ DOMAIN r = 1 .. Len(r)
  BY SeqFacts DEF Waiting, Good
<1>2. /\ IsSeq(t) /\ Len(t) = Len(front) + Len(r)
      /\ \A i \in 1 .. Len(front) : t[i] = front[i]
      /\ \A i \in 1 .. Len(r) : t[Len(front) + i] = r[i]
  BY Joined DEF Waiting, Good
<1> HIDE DEF t
<1>3. DOMAIN t = 1 .. Len(front) + Len(r)
  BY <1>2, SeqFacts
<1>4. ASSUME NEW j \in DOMAIN t
      PROVE  /\ FrameOk(t[j], S, T, P)
             /\ t[j].op = "reset" => j = Len(t)
             /\ t[j].op = "merge" => j = 1
             /\ t[j].op = "each" /\ t[j].reset # None => j = Len(t) - 1 /\ t[Len(t)].op = "reset"
  <2>1. CASE j \in 1 .. Len(front)
    <3>1. t[j] = front[j] /\ j \in DOMAIN front
      BY <1>1, <1>2, <2>1
    <3>2. ASSUME t[j].op = "each", t[j].reset # None
          PROVE  j = Len(t) - 1 /\ t[Len(t)].op = "reset"
      <4>1. j = Len(front) /\ Len(r) = 1 /\ r[1].op = "reset"
        BY <3>1, <3>2
      <4>2. 1 \in 1 .. Len(r) /\ Len(t) = Len(front) + 1
        BY <1>2, <4>1
      <4>3. t[Len(front) + 1] = r[1]
        BY <1>2, <4>2
      <4>4. QED
        BY <1>1, <4>1, <4>2, <4>3
    <3>3. QED
      BY <3>1, <3>2
  <2>2. CASE j \notin 1 .. Len(front)
    <3>1. PICK i \in 1 .. Len(r) : j = Len(front) + i
      <4>1. j - Len(front) \in 1 .. Len(r) /\ j = Len(front) + (j - Len(front))
        BY <1>1, <1>3, <2>2
      <4>2. QED
        BY <4>1
    <3>2. t[j] = r[i] /\ i \in DOMAIN r
      BY <1>1, <1>2, <3>1
    <3>3. Len(r) \in 1 .. Len(r) /\ t[Len(t)] = r[Len(r)]
      BY <1>1, <1>2, <3>1
    <3>4. /\ FrameOk(r[i], S, T, P) /\ r[i].op # "merge"
          /\ r[i].op = "reset" => i = Len(r)
          /\ r[i].op = "each" /\ r[i].reset # None => i = Len(r) - 1 /\ r[Len(r)].op = "reset"
      BY <3>2 DEF Waiting, Good, Shape
    <3>5. i = Len(r) => j = Len(t)
      BY <1>2, <3>1
    <3>6. i = Len(r) - 1 => j = Len(t) - 1
      BY <1>1, <1>2, <3>1
    <3>7. QED
      BY <3>2, <3>3, <3>4, <3>5, <3>6
  <2>3. QED
    BY <2>1, <2>2
<1>5. QED
  BY <1>2, <1>4 DEF Good, Shape, t

LEMMA CalledOne ==
  ASSUME NEW f, NEW r, NEW S, NEW T, NEW P, Waiting(r, S, T, P), FrameOk(f, S, T, P),
         f.op # "reset",
         f.op = "each" /\ f.reset # None => Len(r) = 1 /\ r[1].op = "reset"
  PROVE  Good(<<f>> \o r, S, T, P)
<1> DEFINE front == <<f>>
<1>1. front \in Seq({f}) /\ Len(front) = 1 /\ DOMAIN front = {1} /\ front[1] = f
  OBVIOUS
<1> HIDE DEF front
<1>2. IsSeq(front)
  BY <1>1 DEF IsSeq
<1>3. \A j \in DOMAIN front : j = 1 /\ j = Len(front) /\ front[j] = f
  BY <1>1
<1>4. Good(front \o r, S, T, P)
  BY <1>2, <1>3, Called
<1>5. QED
  BY <1>4 DEF front

LEMMA CalledTwo ==
  ASSUME NEW f, NEW g, NEW r, NEW S, NEW T, NEW P, Waiting(r, S, T, P),
         FrameOk(f, S, T, P), FrameOk(g, S, T, P),
         f.op \notin {"reset", "merge"}, g.op \notin {"reset", "merge"},
         f.op = "each" => f.reset = None,
         g.op = "each" /\ g.reset # None => Len(r) = 1 /\ r[1].op = "reset"
  PROVE  Good(<<f, g>> \o r, S, T, P)
<1> DEFINE front == <<f, g>>
<1>1. front \in Seq({f, g}) /\ Len(front) = 2 /\ DOMAIN front = {1, 2} /\ front[1] = f /\ front[2] = g
  OBVIOUS
<1> HIDE DEF front
<1>2. IsSeq(front)
  BY <1>1 DEF IsSeq
<1>3. \A j \in DOMAIN front : (j = 1 /\ front[j] = f) \/ (j = 2 /\ j = Len(front) /\ front[j] = g)
  BY <1>1
<1>4. Good(front \o r, S, T, P)
  BY <1>2, <1>3, Called
<1>5. QED
  BY <1>4 DEF front

(* The exceptions change while resetPath waits                             *)
LEMMA LoopStays ==
  ASSUME NEW r, NEW S, NEW T, NEW P, Waiting(r, S, T, P), NEW Q,
         NEW L, NEW t,
         \/ t = r /\ \A j \in DOMAIN r : r[j].op # "reset"
         \/ /\ r # <<>> /\ r[Len(r)].op = "reset"
            /\ t = [r EXCEPT ![Len(r)].later = L]
            /\ r[Len(r)].next \in Q \cup {None} /\ L \subseteq Q /\ r[Len(r)].next \notin L
  PROVE  Waiting(t, S, T, Q)
<1>1. /\ Len(r) \in Nat /\ DOMAIN r = 1 .. Len(r) /\ IsSeq(r)
      /\ r # <<>> => Len(r) \in DOMAIN r
  BY SeqFacts DEF Waiting, Good
<1>2. ASSUME NEW j \in DOMAIN r, r[j].op # "reset" PROVE FrameOk(r[j], S, T, Q)
  BY <1>2 DEF Waiting, Good, FrameOk
<1>3. CASE t = r /\ \A j \in DOMAIN r : r[j].op # "reset"
  BY <1>2, <1>3 DEF Waiting, Good
<1>4. CASE /\ r # <<>> /\ r[Len(r)].op = "reset"
           /\ t = [r EXCEPT ![Len(r)].later = L]
           /\ r[Len(r)].next \in Q \cup {None} /\ L \subseteq Q /\ r[Len(r)].next \notin L
  <2> DEFINE n == Len(r)
             f == r[n]
             g == [f EXCEPT !.later = L]
  <2>1. n \in DOMAIN r /\ f.op = "reset" /\ FrameOk(f, S, T, P)
    BY <1>1, <1>4 DEF Waiting, Good
  <2>2. f = [op |-> "reset", reset |-> f.reset, next |-> f.next, later |-> f.later]
    BY <2>1 DEF FrameOk, Resets
  <2>3. /\ g = [op |-> "reset", reset |-> g.reset, next |-> g.next, later |-> g.later]
        /\ g.op = "reset" /\ g.next = f.next /\ g.later = L
    BY <2>2
  <2>4. t = [j \in 1 .. n |-> IF j = n THEN g ELSE r[j]]
    <3>1. r = [j \in 1 .. n |-> r[j]]
      <4>1. PICK X : r \in Seq(X)
        BY <1>1 DEF IsSeq
      <4>2. QED
        BY <1>1, <4>1
    <3>2. QED
      BY <1>4, <3>1
  <2> HIDE DEF g
  <2>5. FrameOk(g, S, T, Q)
    BY <1>4, <2>3 DEF FrameOk, Resets
  <2>6. IsSeq(t) /\ Len(t) = n /\ DOMAIN t = DOMAIN r
    <3>1. t = [j \in 1 .. n |-> t[j]]
      BY <2>4
    <3>2. QED
      BY <1>1, <3>1, BuiltSeq
  <2>7. ASSUME NEW j \in DOMAIN r
        PROVE  /\ t[j].op = r[j].op /\ FrameOk(t[j], S, T, Q)
               /\ t[j].op = "each" => t[j].reset = r[j].reset
    <3>1. CASE j = n
      BY <1>1, <2>1, <2>3, <2>4, <2>5, <3>1
    <3>2. CASE j # n
      <4>1. t[j] = r[j]
        BY <1>1, <2>4, <3>2
      <4>2. r[j].op # "reset"
        BY <3>2 DEF Waiting, Good, Shape
      <4>3. QED
        BY <1>2, <4>1, <4>2
    <3>3. QED
      BY <3>1, <3>2
  <2>8. Shape(t)
    <3>1. Shape(r)
      BY DEF Waiting, Good
    <3>2. QED
      BY <2>1, <2>6, <2>7, <3>1 DEF Shape
  <2>9. QED
    BY <2>6, <2>7, <2>8 DEF Waiting, Good
<1>5. QED
  BY <1>3, <1>4

LEMMA LoopAt ==
  ASSUME NEW S, NEW T, NEW P, Good(calls, S, T, P), calls # <<>>, Head(calls).op # "reset",
         NEW r, r = Tail(calls)
  PROVE  /\ Waiting(r, S, T, P) /\ IsSeq(r)
         /\ Resetting => /\ r # <<>> /\ r[Len(r)] = calls[Len(calls)]
                         /\ r[Len(r)].op = "reset"
                         /\ r[Len(r)].next \in P \cup {None} /\ r[Len(r)].later \subseteq P
                         /\ r[Len(r)].next \notin r[Len(r)].later
         /\ ~Resetting => \A j \in DOMAIN r : r[j].op # "reset"
<1>1. /\ Waiting(r, S, T, P)
      /\ Len(r) = Len(calls) - 1
      /\ \A i \in 1 .. Len(calls) - 1 : r[i] = calls[i + 1]
  BY WaitingTail
<1>2. /\ Len(calls) \in Nat /\ Len(calls) >= 1 /\ Head(calls) = calls[1]
      /\ DOMAIN calls = 1 .. Len(calls)
  BY SeqFacts DEF Good
<1>3. IsSeq(r) /\ DOMAIN r = 1 .. Len(r) /\ (r # <<>> <=> Len(r) >= 1) /\ Len(r) \in Nat
  BY <1>1, SeqFacts DEF Waiting, Good
<1>4. Len(r) >= 1 => r[Len(r)] = calls[Len(calls)] /\ Len(r) \in DOMAIN r
  <2>1. SUFFICES ASSUME Len(r) >= 1 PROVE r[Len(r)] = calls[Len(calls)] /\ Len(r) \in DOMAIN r
    OBVIOUS
  <2>2. Len(r) \in 1 .. Len(calls) - 1 /\ Len(r) + 1 = Len(calls) /\ Len(r) \in 1 .. Len(r)
    BY <1>1, <1>2, <2>1
  <2>3. r[Len(r)] = calls[Len(r) + 1]
    BY <1>1, <2>2
  <2>4. QED
    BY <1>3, <2>2, <2>3
<1>5. Resetting => Len(r) >= 1
  <2>1. Len(calls) # 1 => Len(r) >= 1
    BY <1>1, <1>2
  <2>2. QED
    BY <1>2, <2>1 DEF Resetting
<1>6. ASSUME Resetting
      PROVE  /\ r # <<>> /\ r[Len(r)] = calls[Len(calls)]
             /\ r[Len(r)].op = "reset"
             /\ r[Len(r)].next \in P \cup {None} /\ r[Len(r)].later \subseteq P
             /\ r[Len(r)].next \notin r[Len(r)].later
  <2>1. r # <<>> /\ r[Len(r)] = calls[Len(calls)] /\ Len(r) \in DOMAIN r
    BY <1>3, <1>4, <1>5, <1>6
  <2>2. r[Len(r)].op = "reset"
    BY <1>6, <2>1 DEF Resetting
  <2>3. FrameOk(r[Len(r)], S, T, P)
    BY <1>1, <2>1 DEF Waiting, Good
  <2>4. QED
    BY <2>1, <2>2, <2>3 DEF FrameOk
<1>7. ASSUME ~Resetting, NEW j \in DOMAIN r, r[j].op = "reset" PROVE FALSE
  <2>1. j = Len(r) /\ Len(r) >= 1
    BY <1>1, <1>3, <1>7 DEF Waiting, Good, Shape
  <2>2. QED
    BY <1>4, <1>7, <2>1 DEF Resetting
<1>8. QED
  BY <1>1, <1>3, <1>6, <1>7

LEMMA LoopLoses ==
  ASSUME NEW S, NEW T, NEW P, Good(calls, S, T, P), calls # <<>>, Head(calls).op # "reset",
         NEW D, ~Loses(D), NEW Q, Q = P \ D
  PROVE  Waiting(LoopWithout(Tail(calls), D), S, T, Q)
<1> DEFINE r == Tail(calls)
<1>1. /\ Waiting(r, S, T, P)
      /\ Resetting => /\ r # <<>> /\ r[Len(r)] = calls[Len(calls)]
                      /\ r[Len(r)].op = "reset"
                      /\ r[Len(r)].next \in P \cup {None} /\ r[Len(r)].later \subseteq P
                      /\ r[Len(r)].next \notin r[Len(r)].later
      /\ ~Resetting => \A j \in DOMAIN r : r[j].op # "reset"
  BY LoopAt
<1> HIDE DEF r
<1>2. CASE Resetting
  <2>1. r[Len(r)].next \notin D
    BY <1>1, <1>2 DEF Loses, Next_
  <2>2. LoopWithout(r, D) = [r EXCEPT ![Len(r)].later = r[Len(r)].later \ D]
    <3>1. r = [j \in DOMAIN r |-> r[j]] /\ Len(r) \in DOMAIN r
      <4>1. IsSeq(r)
        BY <1>1 DEF Waiting, Good
      <4>2. PICK X : r \in Seq(X)
        BY <4>1 DEF IsSeq
      <4>3. r = [j \in DOMAIN r |-> r[j]]
        BY <4>2
      <4>4. QED
        BY <1>1, <1>2, <4>1, <4>3, SeqFacts
    <3>2. FrameOk(r[Len(r)], S, T, P)
      BY <1>1, <3>1 DEF Waiting, Good
    <3>3. QED
      BY <1>2, <3>1 DEF LoopWithout
  <2> DEFINE L == r[Len(r)].later \ D
             t == LoopWithout(r, D)
  <2>3. /\ r # <<>> /\ r[Len(r)].op = "reset" /\ t = [r EXCEPT ![Len(r)].later = L]
        /\ r[Len(r)].next \in Q \cup {None} /\ L \subseteq Q /\ r[Len(r)].next \notin L
    BY <1>1, <1>2, <2>1, <2>2
  <2> HIDE DEF L, t
  <2>4. Waiting(t, S, T, Q)
    BY <1>1, <2>3, LoopStays
  <2>5. QED
    BY <2>4 DEF r, t
<1>3. CASE ~Resetting
  <2>1. LoopWithout(r, D) = r
    BY <1>3 DEF LoopWithout
  <2>2. QED
    BY <1>1, <1>3, <2>1, LoopStays DEF r
<1>4. QED
  BY <1>2, <1>3

LEMMA LoopGains ==
  ASSUME NEW S, NEW T, NEW P, Good(calls, S, T, P), calls # <<>>, Head(calls).op # "reset",
         NEW i, i \notin P, i # None, NEW ids \in SUBSET {i}, NEW Q, Q = P \cup {i}
  PROVE  Waiting(LoopWith(Tail(calls), ids), S, T, Q)
<1> DEFINE r == Tail(calls)
<1>1. /\ Waiting(r, S, T, P)
      /\ Resetting => /\ r # <<>> /\ r[Len(r)] = calls[Len(calls)]
                      /\ r[Len(r)].op = "reset"
                      /\ r[Len(r)].next \in P \cup {None} /\ r[Len(r)].later \subseteq P
                      /\ r[Len(r)].next \notin r[Len(r)].later
      /\ ~Resetting => \A j \in DOMAIN r : r[j].op # "reset"
  BY LoopAt
<1> HIDE DEF r
<1>2. CASE Resetting
  <2>1. LoopWith(r, ids) = [r EXCEPT ![Len(r)].later = r[Len(r)].later \cup ids]
    <3>1. r = [j \in DOMAIN r |-> r[j]] /\ Len(r) \in DOMAIN r
      <4>1. IsSeq(r)
        BY <1>1 DEF Waiting, Good
      <4>2. PICK X : r \in Seq(X)
        BY <4>1 DEF IsSeq
      <4>3. r = [j \in DOMAIN r |-> r[j]]
        BY <4>2
      <4>4. QED
        BY <1>1, <1>2, <4>1, <4>3, SeqFacts
    <3>2. QED
      BY <1>2, <3>1 DEF LoopWith
  <2> DEFINE L == r[Len(r)].later \cup ids
             t == LoopWith(r, ids)
  <2>2. r[Len(r)].next # i
    BY <1>1, <1>2
  <2>3. /\ r # <<>> /\ r[Len(r)].op = "reset" /\ t = [r EXCEPT ![Len(r)].later = L]
        /\ r[Len(r)].next \in Q \cup {None} /\ L \subseteq Q /\ r[Len(r)].next \notin L
    BY <1>1, <1>2, <2>1, <2>2
  <2> HIDE DEF L, t
  <2>4. Waiting(t, S, T, Q)
    BY <1>1, <2>3, LoopStays
  <2>5. QED
    BY <2>4 DEF r, t
<1>3. CASE ~Resetting
  <2>1. LoopWith(r, ids) = r
    BY <1>3 DEF LoopWith
  <2>2. QED
    BY <1>1, <1>3, <2>1, LoopStays DEF r
<1>4. QED
  BY <1>2, <1>3

------------------------------------------------------------------------------
(* The maps from first points, for the exceptions ps.                      *)
Indexed(idx, ps) ==
  /\ \A i \in DOMAIN ps : RecordKeys(ps[i]) \subseteq DOMAIN idx
  /\ \A k \in DOMAIN idx : idx[k] = {i \in DOMAIN ps : k \in RecordKeys(ps[i])}

LEMMA UnrecordedIndex ==
  ASSUME NetsAlone, \A i \in DOMAIN paths : Sound(paths[i]), Indexed(index, paths),
         NEW D, D \subseteq DOMAIN paths,
         NEW ps, ps = [i \in DOMAIN paths \ D |-> paths[i]]
  PROVE  Indexed(UnrecordFirstPts(index, D), ps)
<1> DEFINE idx == UnrecordFirstPts(index, D)
<1>1. idx = [k \in DOMAIN index |-> index[k] \ {i \in D : k \in RecordKeys(paths[i])}]
  BY SameKeys DEF UnrecordFirstPts
<1>2. DOMAIN idx = DOMAIN index
  BY <1>1
<1>3. \A i \in DOMAIN ps : RecordKeys(ps[i]) \subseteq DOMAIN idx
  BY <1>2 DEF Indexed
<1>4. ASSUME NEW k \in DOMAIN idx
      PROVE  idx[k] = {i \in DOMAIN ps : k \in RecordKeys(ps[i])}
  <2>1. index[k] = {i \in DOMAIN paths : k \in RecordKeys(paths[i])}
    BY <1>2 DEF Indexed
  <2>2. idx[k] = index[k] \ {i \in D : k \in RecordKeys(paths[i])}
    BY <1>1, <1>2
  <2>3. QED
    BY <2>1, <2>2
<1>5. QED
  BY <1>3, <1>4 DEF Indexed

LEMMA RecordedIndex ==
  ASSUME NEW ps, NEW idx, Indexed(idx, ps), NEW i, NEW e,
         i \notin DOMAIN ps \/ RecordKeys(ps[i]) \subseteq RecordKeys(e),
         NEW qs, qs = [n \in DOMAIN ps \cup {i} |-> IF n = i THEN e ELSE ps[n]]
  PROVE  Indexed(RecordFirstPts(idx, e, i), qs)
<1> DEFINE jdx == RecordFirstPts(idx, e, i)
<1>1. /\ DOMAIN jdx = DOMAIN idx \cup RecordKeys(e)
      /\ \A k \in DOMAIN jdx :
           jdx[k] = (IF k \in DOMAIN idx THEN idx[k] ELSE {})
                      \cup (IF k \in RecordKeys(e) THEN {i} ELSE {})
  BY DEF RecordFirstPts
<1> HIDE DEF jdx
<1>2. \A n \in DOMAIN qs : RecordKeys(qs[n]) \subseteq DOMAIN jdx
  BY <1>1 DEF Indexed
<1>3. ASSUME NEW k \in DOMAIN jdx
      PROVE  jdx[k] = {n \in DOMAIN qs : k \in RecordKeys(qs[n])}
  <2>1. (IF k \in DOMAIN idx THEN idx[k] ELSE {}) = {n \in DOMAIN ps : k \in RecordKeys(ps[n])}
    BY DEF Indexed
  <2>2. \A n : n \in jdx[k] <=> (n \in DOMAIN ps /\ k \in RecordKeys(ps[n]))
                                 \/ (n = i /\ k \in RecordKeys(e))
    BY <1>1, <2>1
  <2>3. \A n : n \in DOMAIN qs /\ k \in RecordKeys(qs[n])
                 <=> (n \in DOMAIN ps /\ n # i /\ k \in RecordKeys(ps[n]))
                       \/ (n = i /\ k \in RecordKeys(e))
    OBVIOUS
  <2>4. i \in DOMAIN ps /\ k \in RecordKeys(ps[i]) => k \in RecordKeys(e)
    OBVIOUS
  <2>5. QED
    BY <2>2, <2>3, <2>4
<1>4. QED
  BY <1>2, <1>3 DEF Indexed, jdx

LEMMA SameIndex ==
  ASSUME NEW ps, NEW idx, Indexed(idx, ps), NEW i \in DOMAIN ps, NEW e,
         RecordKeys(e) = RecordKeys(ps[i]),
         NEW qs, qs = [n \in DOMAIN ps |-> IF n = i THEN e ELSE ps[n]]
  PROVE  Indexed(idx, qs)
<1>1. DOMAIN qs = DOMAIN ps /\ \A n \in DOMAIN ps : RecordKeys(qs[n]) = RecordKeys(ps[n])
  OBVIOUS
<1>2. QED
  BY <1>1 DEF Indexed

------------------------------------------------------------------------------
(* While no null pointer or deleted exception has been used: the           *)
(* exceptions recorded and under way are sound, the maps from first points *)
(* are right where the nets are alone, and the points of path delays noted *)
(* where the ends are.                                                     *)
Core ==
  /\ \A i \in DOMAIN paths : Sound(paths[i])
  /\ Good(calls, starts, ends, DOMAIN paths)
  /\ starts \cup ends \subseteq Internal
  /\ NetsAlone => Indexed(index, paths)
  /\ NetsAlone /\ EndsAlone => \A i \in DOMAIN paths : NotedIn(paths[i])

ExceptionsInvariant == ~undefined => Core

(* Only the calls change                                                   *)
LEMMA OnlyCalls ==
  ASSUME Core, UNCHANGED <<sets, points>>, Good(calls', starts, ends, DOMAIN paths)
  PROVE  Core'
BY DEF Core, NotedIn, sets, points

LEMMA SoughtSound ==
  ASSUME NEW c \in Commands, c.op = "make"
  PROVE  Sound(Sought(c))
<1> DEFINE e == Sought(c)
           thrus == [i \in DOMAIN c.thrus |-> Point(c.thrus[i])]
<1>0. /\ c.from \subseteq Pins \cup Clocks /\ c.to \subseteq Pins \cup Clocks
      /\ c.thrus \in Seq((SUBSET (Pins \cup Nets)) \ {{}})
      /\ c.from # {} \/ c.thrus # <<>> \/ c.to # {}
      /\ c.kind \in {"false", "multi", "delay", "group"}
  BY CommandsAssumption
<1>1. /\ e = [kind |-> e.kind, minMax |-> e.minMax, value |-> e.value,
              from |-> e.from, thrus |-> e.thrus, to |-> e.to, prio |-> e.prio]
      /\ e.kind = c.kind /\ e.from = Point(c.from) /\ e.thrus = thrus /\ e.to = Point(c.to)
      /\ e.prio = TypePriority(c.kind) + FromThruToPriority(Point(c.from), thrus, Point(c.to))
  BY DEF Sought, Exception
<1> HIDE DEF e
<1>2. /\ IsSeq(c.thrus) /\ Len(c.thrus) \in Nat /\ DOMAIN c.thrus = 1 .. Len(c.thrus)
      /\ (c.thrus # <<>> <=> Len(c.thrus) >= 1)
  <2>1. IsSeq(c.thrus)
    BY <1>0 DEF IsSeq
  <2>2. QED
    BY <2>1, SeqFacts
<1>3. IsSeq(thrus) /\ Len(thrus) = Len(c.thrus) /\ DOMAIN thrus = DOMAIN c.thrus
  <2>1. thrus = [i \in 1 .. Len(c.thrus) |-> thrus[i]]
    BY <1>2
  <2> HIDE DEF thrus
  <2>2. QED
    BY <1>2, <2>1, BuiltSeq
<1>4. \A i \in DOMAIN thrus : thrus[i].objs = c.thrus[i]
  BY <1>3, PointsAre
<1> HIDE DEF thrus
<1>5. \A i \in DOMAIN c.thrus : c.thrus[i] \subseteq Pins \cup Nets /\ c.thrus[i] # {}
  BY <1>0
<1>6. thrus # <<>> <=> c.thrus # <<>>
  BY <1>2, <1>3, SeqFacts
<1>7. e.from.objs = c.from /\ e.to.objs = c.to
  BY <1>1, PointsAre
<1>8. IsThrus(thrus)
  BY <1>3, <1>4, <1>5 DEF IsThrus, Objects
<1>9. /\ e.prio \in Nat
      /\ e.kind = "false" => e.prio >= 4000
      /\ e.kind = "delay" => e.prio < 4000
  <2> DEFINE p == FromThruToPriority(Point(c.from), thrus, Point(c.to))
  <2>1. p \in 0 .. 124
    BY PriorityRange
  <2> HIDE DEF p
  <2>2. e.prio = TypePriority(c.kind) + p /\ e.kind = c.kind
    BY <1>1 DEF p
  <2>3. c.kind \in {"false", "multi", "delay", "group"}
    BY <1>0
  <2>4. QED
    BY <2>1, <2>2, <2>3 DEF TypePriority
<1>10. IsException(e)
  BY <1>0, <1>1, <1>6, <1>7, <1>8, <1>9 DEF IsException, Objects
<1>11. NetsAlone => NetAlone(e)
  <2>1. SUFFICES ASSUME NetsAlone, c.from = {}, ~(DOMAIN thrus \subseteq {1}),
                        NEW i \in DOMAIN thrus
                 PROVE  thrus[i].objs \cap Nets = {}
    BY <1>1, <1>7 DEF NetAlone
  <2>2. Len(c.thrus) > 1
    BY <1>2, <1>3, <2>1
  <2>3. c.thrus[i] \cap Nets = {}
    BY <1>3, <2>1, <2>2 DEF NetsAlone
  <2>4. QED
    BY <1>4, <2>3
<1>12. EndsAlone => EndAlone(e)
  BY <1>1, <1>6, <1>7 DEF EndsAlone, EndAlone
<1>13. QED
  BY <1>10, <1>11, <1>12 DEF Sound, e

LEMMA NoCalls ==
  ASSUME NEW S, NEW T, NEW P
  PROVE  Waiting(<<>>, S, T, P)
<1>1. <<>> \in Seq({}) /\ DOMAIN <<>> = {}
  OBVIOUS
<1>2. IsSeq(<<>>)
  BY <1>1 DEF IsSeq
<1>3. QED
  BY <1>1, <1>2 DEF Waiting, Good, Shape

LEMMA MakeCore ==
  ASSUME Core, NEW c \in Commands, Make(c)
  PROVE  Core'
<1> DEFINE f == Adds(Sought(c))
<1>1. c.op = "make" /\ calls' = <<f>> /\ UNCHANGED <<sets, points>>
  BY DEF Make
<1>2. f.op = "add" /\ FrameOk(f, starts, ends, DOMAIN paths)
  BY <1>1, SoughtSound DEF Adds, FrameOk
<1> HIDE DEF f
<1>3. Good(<<f>> \o <<>>, starts, ends, DOMAIN paths)
  BY <1>2, NoCalls, CalledOne
<1>4. <<f>> \o <<>> = <<f>>
  OBVIOUS
<1>5. QED
  BY <1>1, <1>3, <1>4, OnlyCalls

(* The loop of resetPath by itself                                         *)
LEMMA LoopGood ==
  ASSUME NEW S, NEW T, NEW P, NEW f, f.op = "reset", FrameOk(f, S, T, P)
  PROVE  Waiting(<<f>>, S, T, P) /\ Len(<<f>>) = 1 /\ <<f>>[1] = f
<1> DEFINE s == <<f>>
<1>1. s \in Seq({f}) /\ Len(s) = 1 /\ DOMAIN s = {1} /\ s[1] = f
  OBVIOUS
<1> HIDE DEF s
<1>2. IsSeq(s)
  BY <1>1 DEF IsSeq
<1>3. Shape(s)
  BY <1>1 DEF Shape
<1>4. Waiting(s, S, T, P)
  BY <1>1, <1>2, <1>3 DEF Waiting, Good
<1>5. QED
  BY <1>1, <1>4 DEF s

LEMMA LoopCalls ==
  ASSUME NEW S, NEW T, NEW P, NEW f, f.op = "each", FrameOk(f, S, T, P),
         NEW g, g.op = "reset", FrameOk(g, S, T, P)
  PROVE  Good(<<f, g>>, S, T, P)
<1> DEFINE s == <<f, g>>
<1>1. s \in Seq({f, g}) /\ Len(s) = 2 /\ DOMAIN s = {1, 2} /\ s[1] = f /\ s[2] = g
  OBVIOUS
<1> HIDE DEF s
<1>2. IsSeq(s)
  BY <1>1 DEF IsSeq
<1>3. Shape(s)
  BY <1>1 DEF Shape
<1>4. Good(s, S, T, P)
  BY <1>1, <1>2, <1>3 DEF Good
<1>5. QED
  BY <1>4 DEF s

LEMMA ResetPathCore ==
  ASSUME Core, NEW c \in Commands, ResetPath(c)
  PROVE  Core'
<1>1. PICK first \in (IF DOMAIN paths = {} THEN {None} ELSE DOMAIN paths) :
        calls' = <<Resets(c, first, DOMAIN paths \ {first})>>
  BY DEF ResetPath
<1>2. UNCHANGED <<sets, points>>
  BY DEF ResetPath
<1> DEFINE f == Resets(c, first, DOMAIN paths \ {first})
<1>3. f.op = "reset" /\ FrameOk(f, starts, ends, DOMAIN paths)
  BY <1>1 DEF Resets, FrameOk
<1> HIDE DEF f
<1>4. Good(<<f>>, starts, ends, DOMAIN paths)
  BY <1>3, LoopGood DEF Waiting
<1>5. QED
  BY <1>1, <1>2, <1>4, OnlyCalls DEF f

LEMMA DeleteClockCore ==
  ASSUME Core, NEW c \in Commands, DeleteClock(c)
  PROVE  Core'
<1> DEFINE refs == {i \in DOMAIN paths : c.clock \in paths[i].from.objs \cup paths[i].to.objs}
           lost(p) == p.objs = {c.clock}
           kept == {i \in refs : ~lost(paths[i].from) /\ ~lost(paths[i].to)}
           now(i) == WithoutClock(paths[i], c.clock)
           keys(i) == RecordKeys(now(i))
           idx == UnrecordFirstPts(index, refs)
           all == DOMAIN idx \cup UNION {keys(i) : i \in kept}
<1>1. /\ paths' = [i \in DOMAIN paths \ (refs \ kept) |-> IF i \in kept THEN now(i) ELSE paths[i]]
      /\ index' = [k \in all |-> (IF k \in DOMAIN idx THEN idx[k] ELSE {})
                                  \cup {i \in kept : k \in keys(i)}]
      /\ UNCHANGED <<points, calls>> /\ calls = <<>>
  BY DEF DeleteClock, Asks
<1>2. ASSUME NEW i \in kept
      PROVE  /\ i \in DOMAIN paths /\ Sound(now(i)) /\ now(i).kind = paths[i].kind
             /\ now(i).from.objs \subseteq paths[i].from.objs
             /\ now(i).to.objs \subseteq paths[i].to.objs
  <2> DEFINE e == paths[i]
             x == now(i)
             D == [objs |-> {c.clock} \cap e.from.objs, hash |-> 0]
             H == [objs |-> {c.clock} \cap e.to.objs, hash |-> 0]
  <2>1. Sound(e) /\ i \in DOMAIN paths
    BY DEF Core
  <2>2. e = [kind |-> e.kind, minMax |-> e.minMax, value |-> e.value,
             from |-> e.from, thrus |-> e.thrus, to |-> e.to, prio |-> e.prio]
    BY <2>1 DEF Sound, IsException
  <2>3. x = [e EXCEPT !.from = Deleted(e.from, D), !.to = Deleted(e.to, H)]
    BY <2>2 DEF WithoutClock
  <2>4. Deleted(e.from, D).objs = e.from.objs \ D.objs /\ Deleted(e.to, H).objs = e.to.objs \ H.objs
    BY PointsAre
  <2>5. D.objs = {c.clock} \cap e.from.objs /\ H.objs = {c.clock} \cap e.to.objs
    OBVIOUS
  <2>6. e.from.objs # {c.clock} /\ e.to.objs # {c.clock}
    OBVIOUS
  <2> HIDE DEF e, x, D, H
  <2>7. /\ x = [kind |-> x.kind, minMax |-> x.minMax, value |-> x.value,
                from |-> x.from, thrus |-> x.thrus, to |-> x.to, prio |-> x.prio]
        /\ x.kind = e.kind /\ x.value = e.value /\ x.thrus = e.thrus /\ x.prio = e.prio
        /\ x.from = Deleted(e.from, D) /\ x.to = Deleted(e.to, H)
    BY <2>2, <2>3
  <2>8. /\ x.from.objs \subseteq e.from.objs /\ (x.from.objs = {} <=> e.from.objs = {})
        /\ x.to.objs \subseteq e.to.objs /\ (x.to.objs = {} <=> e.to.objs = {})
    BY <2>4, <2>5, <2>6, <2>7
  <2>9. IsException(x)
    BY <2>1, <2>7, <2>8 DEF IsException, Sound
  <2>10. PartOf(x, e)
    BY <2>1, <2>7, <2>8 DEF PartOf, ThrusPartOf, Sound, IsException
  <2>11. Sound(x)
    BY <2>1, <2>9, <2>10, PartSound
  <2>12. QED
    BY <2>1, <2>7, <2>8, <2>11 DEF e, x
<1>3. kept \subseteq refs /\ refs \subseteq DOMAIN paths
  OBVIOUS
<1> HIDE DEF refs, kept, now
<1>4. \A i \in DOMAIN paths' : i \in DOMAIN paths /\ (i \in kept \/ i \notin refs)
  BY <1>1, <1>3
<1>5. \A i \in DOMAIN paths' : Sound(paths'[i])
  BY <1>1, <1>2, <1>4 DEF Core
<1>6. NetsAlone /\ EndsAlone => \A i \in DOMAIN paths' : NotedAs(paths'[i], starts', ends')
  <2>1. SUFFICES ASSUME NetsAlone, EndsAlone, NEW i \in DOMAIN paths'
                 PROVE  NotedAs(paths'[i], starts', ends')
    OBVIOUS
  <2>2. NotedAs(paths[i], starts, ends) /\ starts' = starts /\ ends' = ends
    BY <1>1, <1>4, <2>1 DEF Core, NotedIn, points
  <2>3. CASE i \in kept
    BY <1>1, <1>2, <2>1, <2>2, <2>3 DEF NotedAs
  <2>4. CASE i \notin kept
    BY <1>1, <2>1, <2>2, <2>4
  <2>5. QED
    BY <2>3, <2>4
<1>7. ASSUME NetsAlone PROVE Indexed(index', paths')
  <2> DEFINE ps == [i \in DOMAIN paths \ refs |-> paths[i]]
  <2>1. Indexed(idx, ps)
    BY <1>3, <1>7, UnrecordedIndex DEF Core
  <2> HIDE DEF idx
  <2>2. \A i \in DOMAIN paths' : paths'[i] = IF i \in kept THEN now(i) ELSE ps[i]
    BY <1>1, <1>4
  <2>3. DOMAIN paths' = DOMAIN ps \cup kept /\ DOMAIN ps \cap kept = {}
    BY <1>1, <1>3
  <2>4. \A i \in DOMAIN paths' : RecordKeys(paths'[i]) \subseteq DOMAIN index'
    <3>1. TAKE i \in DOMAIN paths'
    <3>2. CASE i \in kept
      BY <1>1, <2>2, <3>2
    <3>3. CASE i \notin kept
      <4>1. i \in DOMAIN ps /\ paths'[i] = ps[i]
        BY <2>2, <2>3, <3>3
      <4>2. RecordKeys(ps[i]) \subseteq DOMAIN idx
        BY <2>1, <4>1 DEF Indexed
      <4>3. QED
        BY <1>1, <4>1, <4>2
    <3>4. QED
      BY <3>2, <3>3
  <2>5. ASSUME NEW k \in DOMAIN index'
        PROVE  index'[k] = {i \in DOMAIN paths' : k \in RecordKeys(paths'[i])}
    <3>1. index'[k] = (IF k \in DOMAIN idx THEN idx[k] ELSE {}) \cup {i \in kept : k \in keys(i)}
      BY <1>1
    <3>2. (IF k \in DOMAIN idx THEN idx[k] ELSE {}) = {i \in DOMAIN ps : k \in RecordKeys(ps[i])}
      BY <2>1 DEF Indexed
    <3>3. \A i : i \in index'[k] <=> (i \in DOMAIN ps /\ k \in RecordKeys(ps[i]))
                                      \/ (i \in kept /\ k \in keys(i))
      BY <3>1, <3>2
    <3>4. \A i \in DOMAIN ps : paths'[i] = ps[i]
      BY <2>2, <2>3
    <3>5. \A i \in kept : RecordKeys(paths'[i]) = keys(i)
      BY <2>2, <2>3
    <3> HIDE DEF ps
    <3>6. QED
      BY <2>3, <3>3, <3>4, <3>5
  <2>6. QED
    BY <2>4, <2>5 DEF Indexed
<1>8. Good(calls', starts', ends', DOMAIN paths')
  BY <1>1, NoCalls DEF Waiting
<1>9. (starts \cup ends \subseteq Internal)'
  BY <1>1 DEF Core, points
<1>10. QED
  BY <1>5, <1>6, <1>7, <1>8, <1>9 DEF Core, NotedIn

(* What a call finds at the head of the calls, and below it                *)
LEMMA AtHead ==
  ASSUME Core, NEW op, At(op)
  PROVE  /\ calls # <<>> /\ Head(calls).op = op
         /\ FrameOk(Head(calls), starts, ends, DOMAIN paths)
         /\ Waiting(Tail(calls), starts, ends, DOMAIN paths)
         /\ op = "reset" => Len(calls) = 1
         /\ op = "each" /\ Head(calls).reset # None =>
              Len(Tail(calls)) = 1 /\ Tail(calls)[1].op = "reset"
<1>1. calls # <<>> /\ Head(calls).op = op /\ Good(calls, starts, ends, DOMAIN paths)
  BY DEF At, Core
<1>2. QED
  BY <1>1, WaitingTail

LEMMA WaitingMore ==
  ASSUME NEW r, NEW S, NEW T, NEW P, Waiting(r, S, T, P), NEW S2, NEW T2,
         S \subseteq S2, T \subseteq T2
  PROVE  Waiting(r, S2, T2, P)
<1>1. \A j \in DOMAIN r : FrameOk(r[j], S2, T2, P)
  BY FrameStays DEF Waiting, Good
<1>2. QED
  BY <1>1 DEF Waiting, Good

LEMMA AddCore ==
  ASSUME Core, Add
  PROVE  Core'
<1> DEFINE e == Head(calls).e
           parts == Parts(e)
           front == [i \in DOMAIN parts |-> Adds2(parts[i])]
           r == Tail(calls)
<1>1. /\ At("add") /\ UNCHANGED sets
      /\ starts' = starts \cup Noted(e, e.from) /\ ends' = ends \cup Noted(e, e.to)
      /\ calls' = front \o r
  BY DEF Add
<1>2. Sound(e) /\ Waiting(r, starts, ends, DOMAIN paths)
  BY <1>1, AtHead DEF FrameOk
<1>3. ArePartsOf(parts, e)
  BY <1>2, PartsAre
<1> HIDE DEF e, parts, r
<1>4. NotedAs(e, starts', ends')
  BY <1>1 DEF NotedAs, Noted
<1>5. /\ Len(parts) \in Nat /\ DOMAIN parts = 1 .. Len(parts)
  BY <1>3, SeqFacts DEF ArePartsOf
<1>6. IsSeq(front) /\ DOMAIN front = DOMAIN parts
  <2>1. front = [i \in 1 .. Len(parts) |-> front[i]]
    BY <1>5
  <2> HIDE DEF front
  <2>2. QED
    BY <1>5, <2>1, BuiltSeq
<1>7. ASSUME NEW i \in DOMAIN front
      PROVE  front[i].op = "add2" /\ FrameOk(front[i], starts', ends', DOMAIN paths)
  <2>1. Sound(parts[i]) /\ PartOf(parts[i], e)
    BY <1>3, <1>6 DEF ArePartsOf
  <2>2. NotedAs(parts[i], starts', ends')
    BY <1>4, <2>1 DEF NotedAs, PartOf
  <2>3. front[i].op = "add2" /\ front[i].e = parts[i]
    BY <1>6 DEF Adds2
  <2>4. QED
    BY <2>1, <2>2, <2>3 DEF FrameOk
<1> HIDE DEF front
<1>8. Waiting(r, starts', ends', DOMAIN paths)
  BY <1>1, <1>2, WaitingMore
<1>9. Good(calls', starts', ends', DOMAIN paths)
  BY <1>1, <1>6, <1>7, <1>8, Called
<1>10. starts' \cup ends' \subseteq Internal
  BY <1>1 DEF Core, Noted
<1>11. NetsAlone /\ EndsAlone => \A i \in DOMAIN paths : NotedAs(paths[i], starts', ends')
  BY <1>1 DEF Core, NotedIn, NotedAs
<1>12. QED
  BY <1>1, <1>9, <1>10, <1>11 DEF Core, NotedIn, sets

LEMMA AddOtherCore ==
  ASSUME Core, AddOther
  PROVE  Core'
<1> DEFINE f == Records(Head(calls).e)
<1>1. At("add2") /\ UNCHANGED <<sets, points>> /\ calls' = <<f>> \o Tail(calls)
  BY DEF AddOther
<1>2. /\ FrameOk(Head(calls), starts, ends, DOMAIN paths) /\ Head(calls).op = "add2"
      /\ Waiting(Tail(calls), starts, ends, DOMAIN paths)
  BY <1>1, AtHead
<1>3. f.op = "record" /\ f.e = Head(calls).e
  BY DEF Records
<1> HIDE DEF f
<1>4. FrameOk(f, starts, ends, DOMAIN paths)
  BY <1>2, <1>3 DEF FrameOk
<1>5. QED
  BY <1>1, <1>2, <1>3, <1>4, CalledOne, OnlyCalls

(* Exceptions are removed, and resetPath is not at one of them             *)
LEMMA UnrecordCore ==
  ASSUME Core, NEW D, D \subseteq DOMAIN paths, Unrecord(D), UNCHANGED points
  PROVE  /\ DOMAIN paths' = DOMAIN paths \ D
         /\ \A i \in DOMAIN paths' : paths'[i] = paths[i]
         /\ NetsAlone => Indexed(index', paths')
         /\ Good(calls', starts, ends, DOMAIN paths') => Core'
<1>1. /\ paths' = [i \in DOMAIN paths \ D |-> paths[i]]
      /\ index' = UnrecordFirstPts(index, D)
  BY DEF Unrecord
<1>2. DOMAIN paths' = DOMAIN paths \ D /\ \A i \in DOMAIN paths' : paths'[i] = paths[i]
  BY <1>1
<1>3. NetsAlone => Indexed(index', paths')
  BY <1>1, UnrecordedIndex DEF Core
<1>4. QED
  BY <1>2, <1>3 DEF Core, NotedIn, points

LEMMA AddOverridingCore ==
  ASSUME Core, AddOverriding, ~undefined'
  PROVE  Core'
<1> DEFINE e == Head(calls).e
           D == Matching(e)
           f == Each(UNION {Excluding(paths[i], e) : i \in D}, None)
           g == Records(e)
           r == LoopWithout(Tail(calls), D)
<1>1. /\ At("add2") /\ ~Loses(D) /\ Unrecord(D) /\ UNCHANGED points
      /\ calls' = <<f, g>> \o r
  BY DEF AddOverriding, UndefinedBehavior
<1>2. D \subseteq DOMAIN paths
  BY DEF Matching
<1> HIDE DEF D
<1>3. /\ calls # <<>> /\ Head(calls).op = "add2"
      /\ FrameOk(Head(calls), starts, ends, DOMAIN paths)
  BY <1>1, AtHead
<1>4. Sound(e) /\ NotedAs(e, starts, ends)
  BY <1>3 DEF FrameOk
<1>5. /\ DOMAIN paths' = DOMAIN paths \ D
      /\ Good(calls', starts, ends, DOMAIN paths') => Core'
  BY <1>1, <1>2, UnrecordCore
<1>6. Waiting(r, starts, ends, DOMAIN paths')
  <2>1. Good(calls, starts, ends, DOMAIN paths)
    BY DEF Core
  <2>2. QED
    BY <1>1, <1>3, <1>5, <2>1, LoopLoses
<1>7. \A x \in UNION {Excluding(paths[i], e) : i \in D} : Sound(x)
  BY <1>2, ExcludingParts DEF Core
<1>8. /\ f.op = "each" /\ f.reset = None /\ f = Each(f.todo, f.reset)
      /\ \A x \in f.todo : Sound(x)
  BY <1>7 DEF Each
<1>9. g.op = "record" /\ g.e = e
  BY DEF Records
<1> HIDE DEF f, g, r, e
<1>10. FrameOk(f, starts, ends, DOMAIN paths') /\ FrameOk(g, starts, ends, DOMAIN paths')
  BY <1>4, <1>8, <1>9 DEF FrameOk
<1>11. Good(<<f, g>> \o r, starts, ends, DOMAIN paths')
  BY <1>6, <1>8, <1>9, <1>10, CalledTwo
<1>12. QED
  BY <1>1, <1>5, <1>11

(* A loop over a set of exceptions goes on without one of them             *)
LEMMA EachGoesOn ==
  ASSUME NEW f, NEW S, NEW T, NEW P, f.op = "each", FrameOk(f, S, T, P), NEW x,
         NEW g, g = [f EXCEPT !.todo = @ \ {x}], NEW S2, NEW T2
  PROVE  /\ g.op = "each" /\ g.reset = f.reset /\ FrameOk(g, S2, T2, P)
         /\ x \in f.todo => Sound(x)
<1>1. f = [op |-> "each", todo |-> f.todo, reset |-> f.reset] /\ \A y \in f.todo : Sound(y)
  BY DEF FrameOk, Each
<1>2. /\ g = [op |-> "each", todo |-> g.todo, reset |-> g.reset]
      /\ g.op = "each" /\ g.reset = f.reset /\ g.todo = f.todo \ {x}
  BY <1>1
<1>3. FrameOk(g, S2, T2, P)
  BY <1>1, <1>2 DEF FrameOk, Each
<1>4. QED
  BY <1>1, <1>2, <1>3

LEMMA EachAddsCore ==
  ASSUME Core, NEW x, EachAdds(x)
  PROVE  Core'
<1> DEFINE f == Adds(x)
           g == [Head(calls) EXCEPT !.todo = @ \ {x}]
           r == Tail(calls)
           h == Head(calls)
           P == DOMAIN paths
<1>1. /\ At("each") /\ x \in h.todo /\ UNCHANGED <<sets, points>>
      /\ calls' = <<f, g>> \o r
  BY DEF EachAdds
<1>2. /\ h.op = "each" /\ FrameOk(h, starts, ends, P) /\ Waiting(r, starts, ends, P)
      /\ h.reset # None => Len(r) = 1 /\ r[1].op = "reset"
  BY <1>1, AtHead
<1>3. g.op = "each" /\ g.reset = h.reset /\ FrameOk(g, starts, ends, P) /\ Sound(x)
  <2>1. g.op = "each" /\ FrameOk(g, starts, ends, P)
    BY <1>2, EachGoesOn
  <2>2. g.reset = h.reset
    BY <1>2, EachGoesOn
  <2>3. Sound(x)
    BY <1>1, <1>2 DEF FrameOk
  <2>4. QED
    BY <2>1, <2>2, <2>3
<1>4. f.op = "add" /\ f.e = x
  BY DEF Adds
<1> HIDE DEF f, g, r, h, P
<1>5. FrameOk(f, starts, ends, P)
  BY <1>3, <1>4 DEF FrameOk
<1>6. Good(<<f, g>> \o r, starts, ends, P)
  BY <1>2, <1>3, <1>4, <1>5, CalledTwo
<1>7. QED
  BY <1>1, <1>6, OnlyCalls DEF P

(* The internal points of the path delays recorded are never dropped       *)
LEMMA EachResetsNoted ==
  ASSUME Core, NetsAlone, EndsAlone, NEW x,
         ~NoKey("from", starts, x.from), ~NoKey("to", ends, x.to),
         NEW S, S = starts \ Unnoted("from", starts, x.from),
         NEW T, T = ends \ Unnoted("to", ends, x.to),
         NEW i \in DOMAIN paths
  PROVE  NotedAs(paths[i], S, T)
<1> DEFINE e == paths[i]
<1>1. Sound(e) /\ NotedAs(e, starts, ends) /\ Indexed(index, paths)
  BY DEF Core, NotedIn
<1>2. ASSUME e.kind = "delay", NEW o \in e.from.objs \cap Internal
      PROVE  o \in S
  <2>1. o \in starts
    BY <1>1, <1>2 DEF NotedAs
  <2>2. <<"from", o>> \in RecordKeys(e)
    BY <1>2 DEF RecordKeys, Keys, HasObjects
  <2>3. <<"from", o>> \in DOMAIN index /\ i \in index[<<"from", o>>]
    BY <1>1, <2>2 DEF Indexed
  <2>4. IsPathDelay(<<"from", o>>)
    BY <1>2, <2>3 DEF IsPathDelay
  <2>5. QED
    BY <2>1, <2>3, <2>4 DEF Unnoted
<1>3. ASSUME e.kind = "delay", NEW o \in e.to.objs \cap Internal
      PROVE  o \in T
  <2>1. o \in ends
    BY <1>1, <1>3 DEF NotedAs
  <2>2. e.from.objs = {} /\ e.thrus = <<>>
    BY <1>1, <1>3 DEF Sound, EndAlone
  <2>3. <<"to", o>> \in RecordKeys(e)
    BY <1>3, <2>2 DEF RecordKeys, Keys, HasObjects
  <2>4. <<"to", o>> \in DOMAIN index /\ i \in index[<<"to", o>>]
    BY <1>1, <2>3 DEF Indexed
  <2>5. IsPathDelay(<<"to", o>>)
    BY <1>3, <2>4 DEF IsPathDelay
  <2>6. QED
    BY <2>1, <2>4, <2>5 DEF Unnoted
<1>4. QED
  BY <1>2, <1>3 DEF NotedAs

LEMMA EachResetsCore ==
  ASSUME Core, NEW x, EachResets(x), ~undefined'
  PROVE  Core'
<1> DEFINE g == [Head(calls) EXCEPT !.todo = @ \ {x}]
           r == Tail(calls)
           h == Head(calls)
           P == DOMAIN paths
<1>1. /\ At("each") /\ h.reset # None
      /\ ~NoKey("from", starts, x.from) /\ ~NoKey("to", ends, x.to)
      /\ starts' = starts \ Unnoted("from", starts, x.from)
      /\ ends' = ends \ Unnoted("to", ends, x.to)
      /\ calls' = <<g>> \o r /\ UNCHANGED sets
  BY DEF EachResets, UndefinedBehavior
<1>2. /\ h.op = "each" /\ FrameOk(h, starts, ends, P) /\ Waiting(r, starts, ends, P)
      /\ Len(r) = 1 /\ r[1].op = "reset"
  BY <1>1, AtHead
<1>3. g.op = "each" /\ FrameOk(g, starts', ends', P)
  BY <1>2, EachGoesOn
<1>4. Waiting(r, starts', ends', P)
  <2>1. IsSeq(r) /\ DOMAIN r = {1}
    <3>1. IsSeq(r)
      BY <1>2 DEF Waiting, Good
    <3>2. DOMAIN r = 1 .. 1
      BY <1>2, <3>1, SeqFacts
    <3>3. QED
      BY <3>1, <3>2
  <2>2. FrameOk(r[1], starts, ends, P)
    BY <1>2, <2>1 DEF Waiting, Good
  <2>3. FrameOk(r[1], starts', ends', P)
    BY <1>2, <2>2 DEF FrameOk
  <2>4. QED
    BY <1>2, <2>1, <2>3 DEF Waiting, Good
<1> HIDE DEF g, r, h, P
<1>5. Good(<<g>> \o r, starts', ends', P)
  BY <1>2, <1>3, <1>4, CalledOne
<1>6. starts' \cup ends' \subseteq Internal
  BY <1>1 DEF Core
<1>7. NetsAlone /\ EndsAlone => \A i \in DOMAIN paths : NotedAs(paths[i], starts', ends')
  BY <1>1, EachResetsNoted
<1>8. QED
  BY <1>1, <1>5, <1>6, <1>7 DEF Core, NotedIn, sets, P

LEMMA EndsCore ==
  ASSUME Core, EachEnds \/ MergeEnds \/ ResetEnds
  PROVE  Core'
<1>1. /\ calls # <<>> /\ UNCHANGED <<sets, points>>
      /\ calls' = Tail(calls) \/ calls' = <<>>
  BY DEF EachEnds, MergeEnds, ResetEnds, At
<1>2. Good(calls, starts, ends, DOMAIN paths)
  BY DEF Core
<1>3. Good(Tail(calls), starts, ends, DOMAIN paths)
  BY <1>1, <1>2, WaitingTail DEF Waiting
<1>4. Good(<<>>, starts, ends, DOMAIN paths)
  BY NoCalls DEF Waiting
<1>5. QED
  BY <1>1, <1>3, <1>4, OnlyCalls

LEMMA RecordCore ==
  ASSUME Core, Record
  PROVE  Core'
<1> DEFINE e == Head(calls).e
           used == DOMAIN paths \cup UNION {index[k] : k \in DOMAIN index}
           i == CHOOSE n \in 1 .. MaxPaths : n \notin used
<1>1. /\ At("record") /\ ~(1 .. MaxPaths \subseteq used) /\ UNCHANGED points
      /\ paths' = [n \in DOMAIN paths \cup {i} |-> IF n = i THEN e ELSE paths[n]]
      /\ index' = RecordFirstPts(index, e, i)
  BY DEF Record
<1>2. PICK ids \in SUBSET {i} : calls' = <<Merges(i)>> \o LoopWith(Tail(calls), ids)
  BY DEF Record
<1>3. i \in 1 .. MaxPaths /\ i \notin used
  BY <1>1
<1> HIDE DEF i
<1>4. i \notin DOMAIN paths /\ i # None
  BY <1>3, ExceptionsAssumption
<1> HIDE DEF used
<1>5. /\ calls # <<>> /\ Head(calls).op = "record"
      /\ FrameOk(Head(calls), starts, ends, DOMAIN paths)
  BY <1>1, AtHead
<1>6. Sound(e) /\ NotedAs(e, starts, ends)
  BY <1>5 DEF FrameOk
<1> DEFINE r == LoopWith(Tail(calls), ids)
           f == Merges(i)
<1> HIDE DEF e
<1>7. DOMAIN paths' = DOMAIN paths \cup {i}
  BY <1>1
<1>8. Waiting(r, starts, ends, DOMAIN paths')
  <2>1. Good(calls, starts, ends, DOMAIN paths)
    BY DEF Core
  <2>2. QED
    BY <1>4, <1>5, <1>7, <2>1, LoopGains
<1>9. f.op = "merge" /\ f.id = i
  BY DEF Merges
<1> HIDE DEF f, r
<1>10. FrameOk(f, starts, ends, DOMAIN paths')
  BY <1>7, <1>9 DEF FrameOk
<1>11. Good(<<f>> \o r, starts, ends, DOMAIN paths')
  BY <1>8, <1>9, <1>10, CalledOne
<1>12. \A n \in DOMAIN paths' : Sound(paths'[n])
  BY <1>1, <1>6 DEF Core
<1>13. NetsAlone /\ EndsAlone => \A n \in DOMAIN paths' : NotedAs(paths'[n], starts, ends)
  BY <1>1, <1>6 DEF Core, NotedIn
<1>14. NetsAlone => Indexed(index', paths')
  BY <1>1, <1>4, RecordedIndex DEF Core
<1>15. QED
  BY <1>1, <1>2, <1>11, <1>12, <1>13, <1>14 DEF Core, NotedIn, points, f, r

LEMMA MergeCore ==
  ASSUME Core, Merge, ~undefined'
  PROVE  Core'
<1>1. At("merge")
  BY DEF Merge
<1>0. PICK i \in {Head(calls).id} : \E k \in Earliest(MergePoints(i)) :
        IF Loses({i}) THEN UndefinedBehavior
        ELSE \E m \in Candidates(i, k) : \E into \in {MergeInto(paths[i], k, paths[m])} :
          /\ paths' = [n \in DOMAIN paths \ {i} |-> IF n = m THEN into ELSE paths[n]]
          /\ index' = FirstPtsMerged(UnrecordFirstPts(index, {i}), k, into, m)
          /\ calls' = <<Merges(m)>> \o LoopWithout(Tail(calls), {i})
          /\ UNCHANGED <<points, undefined, meaning, commands>>
  BY ZenonT(40) DEF Merge
<1> DEFINE e == paths[i]
           r == LoopWithout(Tail(calls), {i})
<1>2. PICK k \in Earliest(MergePoints(i)) :
        /\ ~Loses({i})
        /\ \E m \in Candidates(i, k) : \E into \in {MergeInto(e, k, paths[m])} :
             /\ paths' = [n \in DOMAIN paths \ {i} |-> IF n = m THEN into ELSE paths[n]]
             /\ index' = FirstPtsMerged(UnrecordFirstPts(index, {i}), k, into, m)
             /\ calls' = <<Merges(m)>> \o r
             /\ UNCHANGED <<points, undefined, meaning, commands>>
  <2>4. ~UndefinedBehavior
    BY DEF UndefinedBehavior
  <2>5. QED
    BY <1>0, <2>4, Zenon
<1>3. PICK m \in Candidates(i, k) : \E into \in {MergeInto(e, k, paths[m])} :
             /\ paths' = [n \in DOMAIN paths \ {i} |-> IF n = m THEN into ELSE paths[n]]
             /\ index' = FirstPtsMerged(UnrecordFirstPts(index, {i}), k, into, m)
             /\ calls' = <<Merges(m)>> \o r
             /\ UNCHANGED <<points, undefined, meaning, commands>>
  BY <1>2
<1> DEFINE t == MergeInto(e, k, paths[m])
           ps == [n \in DOMAIN paths \ {i} |-> paths[n]]
           idx == UnrecordFirstPts(index, {i})
<1>4. /\ paths' = [n \in DOMAIN paths \ {i} |-> IF n = m THEN t ELSE paths[n]]
      /\ index' = FirstPtsMerged(idx, k, t, m)
      /\ calls' = <<Merges(m)>> \o r /\ UNCHANGED points
  BY <1>3
<1>5. /\ calls # <<>> /\ Head(calls).op = "merge" /\ i \in DOMAIN paths
  BY <1>0, <1>1, AtHead DEF FrameOk
<1>6. /\ m \in DOMAIN paths /\ m # i
      /\ Mergeable(e, paths[m]) /\ MergeablePts(paths[m], e, k)
  BY <1>3 DEF Candidates
<1>7. k \in DOMAIN Pts(e)
  BY <1>2 DEF Earliest, MergePoints
<1>8. Sound(e) /\ Sound(paths[m])
  BY <1>5, <1>6 DEF Core
<1> HIDE DEF e
<1>9. /\ Sound(t) /\ RecordKeys(paths[m]) \subseteq RecordKeys(t)
      /\ NetsAlone /\ k # 1 => RecordKeys(t) = RecordKeys(paths[m])
      /\ NotedIn(e) /\ NotedIn(paths[m]) => NotedIn(t)
  BY <1>6, <1>7, <1>8, MergedKeys
<1> HIDE DEF t
<1>10. DOMAIN paths' = DOMAIN paths \ {i}
  BY <1>4
<1>11. Waiting(r, starts, ends, DOMAIN paths')
  <2>1. Good(calls, starts, ends, DOMAIN paths)
    BY DEF Core
  <2>2. Head(calls).op # "reset"
    BY <1>5
  <2>3. QED
    BY <1>2, <1>5, <1>10, <2>1, <2>2, LoopLoses
<1>12. Good(<<Merges(m)>> \o r, starts, ends, DOMAIN paths')
  <2> DEFINE f == Merges(m)
  <2>1. f.op = "merge" /\ f.id = m
    BY DEF Merges
  <2> HIDE DEF f, r
  <2>2. FrameOk(f, starts, ends, DOMAIN paths')
    BY <1>6, <1>10, <2>1 DEF FrameOk
  <2>3. Good(<<f>> \o r, starts, ends, DOMAIN paths')
    BY <1>11, <2>1, <2>2, CalledOne
  <2>4. QED
    BY <2>3 DEF f
<1>13. \A n \in DOMAIN paths' : Sound(paths'[n])
  BY <1>4, <1>9 DEF Core
<1>14. NetsAlone /\ EndsAlone => \A n \in DOMAIN paths' : NotedAs(paths'[n], starts, ends)
  <2>1. SUFFICES ASSUME NetsAlone, EndsAlone, NEW n \in DOMAIN paths'
                 PROVE  NotedAs(paths'[n], starts, ends)
    OBVIOUS
  <2>2. \A q \in DOMAIN paths : NotedIn(paths[q])
    BY <2>1 DEF Core
  <2>3. NotedIn(t)
    BY <1>5, <1>6, <1>9, <2>2 DEF e
  <2>4. QED
    BY <1>4, <2>1, <2>2, <2>3 DEF NotedIn
<1>15. ASSUME NetsAlone PROVE Indexed(index', paths')
  <2>1. Indexed(idx, ps)
    BY <1>5, <1>15, UnrecordedIndex DEF Core
  <2>2. m \in DOMAIN ps /\ ps[m] = paths[m]
    BY <1>6
  <2>3. paths' = [n \in DOMAIN ps \cup {m} |-> IF n = m THEN t ELSE ps[n]]
    BY <1>4, <1>6
  <2>4. paths' = [n \in DOMAIN ps |-> IF n = m THEN t ELSE ps[n]]
    BY <1>4
  <2> HIDE DEF ps, idx
  <2>5. CASE k = 1
    <3>1. index' = RecordFirstPts(idx, t, m)
      BY <1>4, <2>5 DEF FirstPtsMerged
    <3>2. RecordKeys(ps[m]) \subseteq RecordKeys(t)
      BY <1>9, <2>2
    <3>3. Indexed(RecordFirstPts(idx, t, m), paths')
      BY <2>1, <2>3, <3>2, RecordedIndex
    <3>4. QED
      BY <3>1, <3>3
  <2>6. CASE k # 1
    <3>1. index' = idx
      BY <1>4, <2>6 DEF FirstPtsMerged
    <3>2. RecordKeys(t) = RecordKeys(ps[m])
      BY <1>9, <1>15, <2>2, <2>6
    <3>3. Indexed(idx, paths')
      BY <2>1, <2>2, <2>4, <3>2, SameIndex
    <3>4. QED
      BY <3>1, <3>3
  <2>7. QED
    BY <2>5, <2>6
<1>16. QED
  BY <1>4, <1>12, <1>13, <1>14, <1>15 DEF Core, NotedIn, points

LEMMA ResetNextCore ==
  ASSUME Core, ResetNext
  PROVE  Core'
<1> DEFINE h == Head(calls)
           i == h.next
           reset == h.reset
           later == h.later
           loop(next) == Resets(reset, next, later \ {next})
           P == DOMAIN paths
<1>1. /\ At("reset") /\ i # None /\ UNCHANGED points
      /\ \E next \in (IF later = {} THEN {None} ELSE later) :
           IF ResetMatch(paths[i], reset)
           THEN Unrecord({i}) /\ calls' = <<Each(Expansions(paths[i]), reset), loop(next)>>
           ELSE calls' = <<loop(next)>> /\ UNCHANGED sets
  BY DEF ResetNext
<1>2. PICK next \in (IF later = {} THEN {None} ELSE later) :
        IF ResetMatch(paths[i], reset)
        THEN Unrecord({i}) /\ calls' = <<Each(Expansions(paths[i]), reset), loop(next)>>
        ELSE calls' = <<loop(next)>> /\ UNCHANGED sets
  BY <1>1
<1>3. h.op = "reset" /\ FrameOk(h, starts, ends, P)
  BY <1>1, AtHead
<1>4. i \in P /\ later \subseteq P /\ i \notin later
  BY <1>1, <1>3 DEF FrameOk
<1> DEFINE l == loop(next)
<1>5. /\ l = Resets(l.reset, l.next, l.later) /\ l.op = "reset"
      /\ l.next = next /\ l.later = later \ {next}
  BY DEF Resets
<1>6. next \in later \cup {None}
  BY <1>2
<1> HIDE DEF l, i, later, reset, h, P
<1>7. FrameOk(l, starts, ends, P) /\ FrameOk(l, starts, ends, P \ {i})
  BY <1>4, <1>5, <1>6 DEF FrameOk
<1>8. CASE ~ResetMatch(paths[i], reset)
  <2>1. calls' = <<l>> /\ UNCHANGED sets
    BY <1>2, <1>8 DEF l
  <2>2. Good(<<l>>, starts, ends, P)
    BY <1>5, <1>7, LoopGood DEF Waiting
  <2>3. QED
    BY <1>1, <2>1, <2>2, OnlyCalls DEF P
<1>9. CASE ResetMatch(paths[i], reset)
  <2> DEFINE f == Each(Expansions(paths[i]), reset)
  <2>1. Unrecord({i}) /\ calls' = <<f, l>>
    BY <1>2, <1>9 DEF l
  <2>2. {i} \subseteq DOMAIN paths
    BY <1>4 DEF P
  <2>3. /\ DOMAIN paths' = P \ {i}
        /\ Good(calls', starts, ends, DOMAIN paths') => Core'
    BY <1>1, <2>1, <2>2, UnrecordCore DEF P
  <2>4. Sound(paths[i])
    BY <1>4 DEF Core, P
  <2>5. /\ f.op = "each" /\ f.reset = reset /\ f = Each(f.todo, f.reset)
        /\ \A x \in f.todo : Sound(x)
    BY <2>4, ExpansionsSound DEF Each
  <2> HIDE DEF f
  <2>6. FrameOk(f, starts, ends, P \ {i})
    BY <2>5 DEF FrameOk
  <2>7. Good(<<f, l>>, starts, ends, P \ {i})
    BY <1>5, <1>7, <2>5, <2>6, LoopCalls
  <2>8. QED
    BY <2>1, <2>3, <2>7
<1>10. QED
  BY <1>8, <1>9

------------------------------------------------------------------------------
LEMMA InitCore ==
  ASSUME Init
  PROVE  Core
<1>1. /\ paths = [i \in {} |-> None] /\ index = [k \in {} |-> {}]
      /\ starts = {} /\ ends = {} /\ calls = <<>>
  BY DEF Init, NoKeys
<1>2. DOMAIN paths = {} /\ DOMAIN index = {}
  BY <1>1
<1>3. Good(calls, starts, ends, DOMAIN paths)
  BY <1>1, NoCalls DEF Waiting
<1>4. QED
  BY <1>1, <1>2, <1>3 DEF Core, Indexed

LEMMA NextCore ==
  ASSUME ExceptionsInvariant, [Next]_vars
  PROVE  ExceptionsInvariant'
<1>1. SUFFICES ASSUME ~undefined' PROVE Core'
  BY DEF ExceptionsInvariant
<1>2. CASE UNCHANGED vars
  <2>1. Core
    BY <1>1, <1>2 DEF ExceptionsInvariant, vars
  <2>2. QED
    BY <1>2, <2>1 DEF Core, NotedIn, vars, sets, points
<1>3. CASE Next
  <2>1. Core
    BY <1>3 DEF ExceptionsInvariant, Next, Ask, Run, Loops, Make, ResetPath, DeleteClock, Asks,
      Add, AddOther, AddOverriding, Record, Merge, MergeEnds, EachAdds, EachResets, EachEnds,
      ResetNext, ResetEnds, At
  <2>2. CASE Ask
    BY <2>1, <2>2, MakeCore, ResetPathCore, DeleteClockCore DEF Ask
  <2>3. CASE Add
    BY <2>1, <2>3, AddCore
  <2>4. CASE AddOther
    BY <2>1, <2>4, AddOtherCore
  <2>5. CASE AddOverriding
    BY <1>1, <2>1, <2>5, AddOverridingCore
  <2>6. CASE Record
    BY <2>1, <2>6, RecordCore
  <2>7. CASE Merge
    BY <1>1, <2>1, <2>7, MergeCore
  <2>8. CASE MergeEnds \/ EachEnds \/ ResetEnds
    BY <2>1, <2>8, EndsCore
  <2>9. CASE ResetNext
    BY <2>1, <2>9, ResetNextCore
  <2>10. CASE \E x \in (IF At("each") THEN Head(calls).todo ELSE {}) : EachAdds(x) \/ EachResets(x)
    BY <1>1, <2>1, <2>10, EachAddsCore, EachResetsCore
  <2>11. QED
    BY <1>3, <2>2, <2>3, <2>4, <2>5, <2>6, <2>7, <2>8, <2>9, <2>10, SMTT(30) DEF Next, Run, Loops
<1>4. QED
  BY <1>2, <1>3

(* The invariant from which the others follow: what is recorded, split,    *)
(* excluded, expanded or merged keeps a point with objects, keeps its nets *)
(* and ends as it was given them, and the calls under way hold exceptions  *)
(* that are there (addException, mergeException, resetPath).               *)
THEOREM ExceptionsSound ==
  Spec => []ExceptionsInvariant
<1>1. Init => ExceptionsInvariant
  BY InitCore DEF ExceptionsInvariant
<1>2. ExceptionsInvariant /\ [Next]_vars => ExceptionsInvariant'
  BY NextCore
<1>3. QED
  BY <1>1, <1>2, PTL DEF Spec

(* The maps hold every exception under each object of its first point, and *)
(* none that is gone, for commands that put nets in a lone -thru or after  *)
(* a -from (recordExceptionFirstPts, unrecordExceptionFirstPts).           *)
THEOREM FirstPointsStayIndexed ==
  NetsAlone => (Spec => []FirstPointsIndexed)
<1>1. NetsAlone /\ ExceptionsInvariant => FirstPointsIndexed
  BY SomeKey DEF ExceptionsInvariant, Core, Indexed, FirstPointsIndexed
<1>2. SUFFICES ASSUME NetsAlone PROVE Spec => []FirstPointsIndexed
  OBVIOUS
<1>3. ExceptionsInvariant => FirstPointsIndexed
  BY <1>1, <1>2
<1>4. QED
  BY <1>3, ExceptionsSound, PTL

(* The internal points of the path delays there are stay noted, for        *)
(* commands that put the internal end points of path delays by themselves  *)
(* too (addException, resetPath, unrecordPathDelayInternalFrom, To).       *)
THEOREM InternalPointsStayKept ==
  NetsAlone /\ EndsAlone => (Spec => []InternalPointsKept)
<1>1. NetsAlone /\ EndsAlone /\ ExceptionsInvariant => InternalPointsKept
  BY DEF ExceptionsInvariant, Core, NotedIn, NotedAs, InternalPointsKept
<1>2. SUFFICES ASSUME NetsAlone, EndsAlone PROVE Spec => []InternalPointsKept
  OBVIOUS
<1>3. ExceptionsInvariant => InternalPointsKept
  BY <1>1, <1>2
<1>4. QED
  BY <1>3, ExceptionsSound, PTL

------------------------------------------------------------------------------
(* What exceptions without thrus stand for.                                *)
NoObjects == [i \in {} |-> None]

IsElement(y) ==
  /\ y = [kind |-> y.kind, minMax |-> y.minMax, value |-> y.value, prio |-> y.prio,
          from |-> y.from, thrus |-> y.thrus, to |-> y.to]
  /\ y.thrus = NoObjects

(* y has the properties of e, but for its points                           *)
Alike(y, e) ==
  y.kind = e.kind /\ y.minMax = e.minMax /\ y.value = e.value /\ y.prio = e.prio

LEMMA NoSelections == Selections(<<>>) = {NoObjects}
<1>1. DOMAIN <<>> = {}
  OBVIOUS
<1>2. NoObjects \in [{} -> Objects]
  BY DEF NoObjects
<1>3. \A f \in [{} -> Objects] : f = NoObjects
  BY DEF NoObjects
<1>4. DOMAIN NoObjects = {}
  BY DEF NoObjects
<1>5. \A ts : ts \in Selections(<<>>) <=>
        ts \in [{} -> Objects] /\ \A i \in DOMAIN ts : ts[i] \in (<<>>)[i].objs
  BY <1>1 DEF Selections
<1>6. \A ts : ts \in Selections(<<>>) <=> ts = NoObjects
  BY <1>2, <1>3, <1>4, <1>5
<1>7. QED
  BY <1>6

LEMMA InElements ==
  ASSUME NEW e, e.thrus = <<>>, NEW y
  PROVE  y \in Elements(e) <=>
           IsElement(y) /\ Alike(y, e) /\ y.from \in OneOf(e.from) /\ y.to \in OneOf(e.to)
<1>1. Elements(e) =
        {[kind |-> e.kind, minMax |-> e.minMax, value |-> e.value, prio |-> e.prio,
          from |-> f, thrus |-> ts, to |-> t] :
           f \in OneOf(e.from), ts \in {NoObjects}, t \in OneOf(e.to)}
  BY NoSelections DEF Elements
<1>2. ASSUME y \in Elements(e)
      PROVE  IsElement(y) /\ Alike(y, e) /\ y.from \in OneOf(e.from) /\ y.to \in OneOf(e.to)
  <2>1. PICK f \in OneOf(e.from), t \in OneOf(e.to) :
          y = [kind |-> e.kind, minMax |-> e.minMax, value |-> e.value, prio |-> e.prio,
               from |-> f, thrus |-> NoObjects, to |-> t]
    BY <1>1, <1>2
  <2>2. QED
    BY <2>1 DEF IsElement, Alike
<1>3. ASSUME IsElement(y), Alike(y, e), y.from \in OneOf(e.from), y.to \in OneOf(e.to)
      PROVE  y \in Elements(e)
  <2>1. y = [kind |-> e.kind, minMax |-> e.minMax, value |-> e.value, prio |-> e.prio,
             from |-> y.from, thrus |-> NoObjects, to |-> y.to]
    BY <1>3 DEF IsElement, Alike
  <2>2. QED
    BY <1>1, <1>3, <2>1
<1>4. QED
  BY <1>2, <1>3

LEMMA SameElement ==
  ASSUME NEW y, NEW z, IsElement(y), IsElement(z),
         Alike(y, z), y.from = z.from, y.to = z.to
  PROVE  y = z
BY DEF IsElement, Alike

LEMMA RedefinesIs ==
  ASSUME NEW y, NEW z, IsElement(y), IsElement(z)
  PROVE  Redefines(z, y) <=>
           /\ z.kind \in {"multi", "delay"}
           /\ z.kind = y.kind /\ z.minMax = y.minMax /\ z.prio = y.prio
           /\ z.from = y.from /\ z.to = y.to
<1>1. [z EXCEPT !.value = 0] =
        [kind |-> z.kind, minMax |-> z.minMax, value |-> 0, prio |-> z.prio,
         from |-> z.from, thrus |-> NoObjects, to |-> z.to]
  BY DEF IsElement
<1>2. [y EXCEPT !.value = 0] =
        [kind |-> y.kind, minMax |-> y.minMax, value |-> 0, prio |-> y.prio,
         from |-> y.from, thrus |-> NoObjects, to |-> y.to]
  BY DEF IsElement
<1> DEFINE u == [kind |-> z.kind, minMax |-> z.minMax, value |-> 0, prio |-> z.prio,
                 from |-> z.from, thrus |-> NoObjects, to |-> z.to]
           v == [kind |-> y.kind, minMax |-> y.minMax, value |-> 0, prio |-> y.prio,
                 from |-> y.from, thrus |-> NoObjects, to |-> y.to]
<1>3. u = v <=>
        /\ z.kind = y.kind /\ z.minMax = y.minMax /\ z.prio = y.prio
        /\ z.from = y.from /\ z.to = y.to
  OBVIOUS
<1>4. QED
  BY <1>1, <1>2, <1>3 DEF Redefines

(* The elements of an exception share what is not a point                  *)
LEMMA SomeElement ==
  ASSUME NEW e, e.thrus = <<>>
  PROVE  \E y : y \in Elements(e)
<1>1. PICK f \in OneOf(e.from), t \in OneOf(e.to) : TRUE
  BY DEF OneOf, HasObjects
<1> DEFINE y == [kind |-> e.kind, minMax |-> e.minMax, value |-> e.value, prio |-> e.prio,
                 from |-> f, thrus |-> NoObjects, to |-> t]
<1>2. IsElement(y) /\ Alike(y, e) /\ y.from = f /\ y.to = t
  BY DEF IsElement, Alike
<1> HIDE DEF y
<1>3. y \in Elements(e)
  BY <1>1, <1>2, InElements
<1>4. QED
  BY <1>3

------------------------------------------------------------------------------
(* Exceptions without thrus whose points have objects of one type, with    *)
(* the priority of their kind and points.                                  *)
OfOneType(p) == p.objs \subseteq Pins \/ p.objs \subseteq Clocks

Priced(e) == e.prio = TypePriority(e.kind) + FromThruToPriority(e.from, e.thrus, e.to)

(* A group path is as one that a command asks for                          *)
InGroup(e) == e.kind = "group" => \E y \in AllAsked : Alike(y, e)

Plain(e) ==
  /\ e.thrus = <<>> /\ OfOneType(e.from) /\ OfOneType(e.to)
  /\ Priced(e) /\ InGroup(e)
  /\ e.kind = "false" => e.value = 0

SameTypes(p, q) ==
  /\ p.objs \cap Pins = {} <=> q.objs \cap Pins = {}
  /\ p.objs \cap Clocks = {} <=> q.objs \cap Clocks = {}

LEMMA PriorityOfTypes ==
  ASSUME NEW p, NEW q, NEW p2, NEW q2
  PROVE  FromThruToPriority(p, <<>>, q) = FromThruToPriority(p2, <<>>, q2)
           <=> SameTypes(p, p2) /\ SameTypes(q, q2)
<1> DEFINE weight(r, T, n) == IF r.objs \cap T # {} THEN n ELSE 0
<1>1. /\ FromThruToPriority(p, <<>>, q) =
           weight(p, Pins, 64) + weight(q, Pins, 32) + 0 + weight(p, Clocks, 8) + weight(q, Clocks, 4)
      /\ FromThruToPriority(p2, <<>>, q2) =
           weight(p2, Pins, 64) + weight(q2, Pins, 32) + 0 + weight(p2, Clocks, 8) + weight(q2, Clocks, 4)
  BY DEF FromThruToPriority
<1>2. /\ \A T : weight(p, T, 64) \in {0, 64} /\ weight(p2, T, 64) \in {0, 64}
      /\ \A T : weight(q, T, 32) \in {0, 32} /\ weight(q2, T, 32) \in {0, 32}
      /\ \A T : weight(p, T, 8) \in {0, 8} /\ weight(p2, T, 8) \in {0, 8}
      /\ \A T : weight(q, T, 4) \in {0, 4} /\ weight(q2, T, 4) \in {0, 4}
  OBVIOUS
<1>3. /\ \A r, T : weight(r, T, 64) = 0 <=> r.objs \cap T = {}
      /\ \A r, T : weight(r, T, 32) = 0 <=> r.objs \cap T = {}
      /\ \A r, T : weight(r, T, 8) = 0 <=> r.objs \cap T = {}
      /\ \A r, T : weight(r, T, 4) = 0 <=> r.objs \cap T = {}
  OBVIOUS
<1>4. \A a, a2 \in {0, 64} : \A b, b2 \in {0, 32} : \A c, c2 \in {0, 8} : \A d, d2 \in {0, 4} :
        a + b + 0 + c + d = a2 + b2 + 0 + c2 + d2
          <=> (a = 0 <=> a2 = 0) /\ (b = 0 <=> b2 = 0) /\ (c = 0 <=> c2 = 0) /\ (d = 0 <=> d2 = 0)
  OBVIOUS
<1> HIDE DEF weight
<1>5. FromThruToPriority(p, <<>>, q) = FromThruToPriority(p2, <<>>, q2)
        <=> /\ weight(p, Pins, 64) = 0 <=> weight(p2, Pins, 64) = 0
            /\ weight(q, Pins, 32) = 0 <=> weight(q2, Pins, 32) = 0
            /\ weight(p, Clocks, 8) = 0 <=> weight(p2, Clocks, 8) = 0
            /\ weight(q, Clocks, 4) = 0 <=> weight(q2, Clocks, 4) = 0
  BY <1>1, <1>2, <1>4
<1>6. QED
  BY <1>3, <1>5 DEF SameTypes

LEMMA TypesOfPart ==
  ASSUME NEW p, NEW q, OfOneType(p), q.objs \subseteq p.objs, q.objs = {} <=> p.objs = {}
  PROVE  OfOneType(q) /\ SameTypes(q, p)
BY ExceptionsAssumption DEF OfOneType, SameTypes

LEMMA WithPlain ==
  ASSUME NEW e, Plain(e), NEW from, NEW thrus, NEW to, thrus = <<>>,
         from.objs \subseteq e.from.objs, from.objs = {} <=> e.from.objs = {},
         to.objs \subseteq e.to.objs, to.objs = {} <=> e.to.objs = {},
         NEW x, x = With(e, from, thrus, to)
  PROVE  Plain(x) /\ Alike(x, e) /\ x.from = from /\ x.to = to
<1>1. /\ x.kind = e.kind /\ x.minMax = e.minMax /\ x.value = e.value
      /\ x.from = from /\ x.thrus = <<>> /\ x.to = to
      /\ x.prio = TypePriority(e.kind) + FromThruToPriority(from, <<>>, to)
  BY DEF With, Exception
<1>2. /\ OfOneType(from) /\ SameTypes(from, e.from)
      /\ OfOneType(to) /\ SameTypes(to, e.to)
  BY TypesOfPart DEF Plain
<1>3. FromThruToPriority(from, <<>>, to) = FromThruToPriority(e.from, <<>>, e.to)
  BY <1>2, PriorityOfTypes
<1>4. x.prio = e.prio /\ Priced(x)
  BY <1>1, <1>3 DEF Plain, Priced
<1>5. Alike(x, e)
  BY <1>1, <1>4 DEF Alike
<1>6. InGroup(x)
  BY <1>1, <1>5 DEF Plain, InGroup, Alike
<1>7. QED
  BY <1>1, <1>2, <1>4, <1>5, <1>6 DEF Plain

------------------------------------------------------------------------------
(* Where y is among the points of e                                        *)
Within(y, e) == y.from \in OneOf(e.from) /\ y.to \in OneOf(e.to)

LEMMA OneOfPart ==
  ASSUME NEW p, NEW q, p.objs \subseteq Objects, q.objs \subseteq Objects,
         p.objs = {} <=> q.objs = {}, NEW r, r.objs = p.objs \ q.objs, NEW o \in OneOf(p)
  PROVE  (r.objs # {} /\ o \in OneOf(r)) <=> o \notin OneOf(q)
BY ExceptionsAssumption DEF OneOf, HasObjects

LEMMA SameOneOf ==
  ASSUME NEW p, NEW q, p.objs = q.objs
  PROVE  OneOf(p) = OneOf(q)
BY DEF OneOf, HasObjects

(* What an exception is broken into stands for what it did, but for what   *)
(* is among the points excluded                                            *)
LEMMA ExcludingExact ==
  ASSUME NEW e, Sound(e), Plain(e), NEW x, Sound(x), Plain(x), Intersects(e, x)
  PROVE  /\ \A g \in Excluding(e, x) : Plain(g)
         /\ \A y : y \in UNION {Elements(g) : g \in Excluding(e, x)}
                     <=> y \in Elements(e) /\ ~Within(y, x)
<1>0. /\ e.thrus = <<>> /\ IsThrus(e.thrus) /\ x.thrus = <<>>
      /\ e.from.objs \subseteq Objects /\ e.to.objs \subseteq Objects
      /\ x.from.objs \subseteq Objects /\ x.to.objs \subseteq Objects
  BY DEF Plain, Sound, IsException
<1>1. (e.from.objs = {} <=> x.from.objs = {}) /\ (e.to.objs = {} <=> x.to.objs = {})
  BY DEF Intersects, IntersectsPts, HasObjects
<1>2. Clones(e.thrus) = <<>>
  BY <1>0, ClonedThrus DEF ThrusPartOf
<1>3. ExcludingThru(e, x) = {}
  <2>1. DOMAIN e.thrus = {}
    BY <1>0
  <2>2. QED
    BY <2>1 DEF ExcludingThru
<1> DEFINE from == Deleted(Clone(e.from), x.from)
           to == Deleted(Clone(e.to), x.to)
           one == With(e, from, Clones(e.thrus), Clone(e.to))
           two == With(e, Clone(e.from), Clones(e.thrus), to)
<1>4. /\ from.objs = e.from.objs \ x.from.objs /\ to.objs = e.to.objs \ x.to.objs
      /\ Clone(e.from).objs = e.from.objs /\ Clone(e.to).objs = e.to.objs
  BY PointsAre
<1>5. /\ ExcludingFrom(e, x) = IF from.objs # {} THEN {one} ELSE {}
      /\ ExcludingTo(e, x) = IF to.objs # {} THEN {two} ELSE {}
  BY DEF ExcludingFrom, ExcludingTo, HasObjects
<1> HIDE DEF from, to
<1>6. ASSUME from.objs # {}
      PROVE  Plain(one) /\ Alike(one, e) /\ one.from = from /\ one.to = Clone(e.to)
  BY <1>2, <1>4, <1>6, WithPlain
<1>7. ASSUME to.objs # {}
      PROVE  Plain(two) /\ Alike(two, e) /\ two.from = Clone(e.from) /\ two.to = to
  BY <1>2, <1>4, <1>7, WithPlain
<1> HIDE DEF one, two
<1>8. \A g : g \in Excluding(e, x) <=> (from.objs # {} /\ g = one) \/ (to.objs # {} /\ g = two)
  BY <1>3, <1>5 DEF Excluding
<1>9. \A g \in Excluding(e, x) : Plain(g)
  BY <1>6, <1>7, <1>8
<1>10. ASSUME NEW y
       PROVE  y \in UNION {Elements(g) : g \in Excluding(e, x)}
                <=> y \in Elements(e) /\ ~Within(y, x)
  <2>1. y \in Elements(e) <=> IsElement(y) /\ Alike(y, e) /\ Within(y, e)
    BY <1>0, InElements DEF Within
  <2>2. ASSUME from.objs # {}
        PROVE  y \in Elements(one) <=>
                 IsElement(y) /\ Alike(y, e) /\ y.from \in OneOf(from) /\ y.to \in OneOf(e.to)
    <3>1. one.thrus = <<>>
      BY <1>6, <2>2 DEF Plain
    <3>2. OneOf(one.to) = OneOf(e.to)
      BY <1>4, <1>6, <2>2, SameOneOf
    <3>3. Alike(y, one) <=> Alike(y, e)
      BY <1>6, <2>2 DEF Alike
    <3>4. QED
      BY <1>6, <2>2, <3>1, <3>2, <3>3, InElements
  <2>3. ASSUME to.objs # {}
        PROVE  y \in Elements(two) <=>
                 IsElement(y) /\ Alike(y, e) /\ y.from \in OneOf(e.from) /\ y.to \in OneOf(to)
    <3>1. two.thrus = <<>>
      BY <1>7, <2>3 DEF Plain
    <3>2. OneOf(two.from) = OneOf(e.from)
      BY <1>4, <1>7, <2>3, SameOneOf
    <3>3. Alike(y, two) <=> Alike(y, e)
      BY <1>7, <2>3 DEF Alike
    <3>4. QED
      BY <1>7, <2>3, <3>1, <3>2, <3>3, InElements
  <2>4. y \in UNION {Elements(g) : g \in Excluding(e, x)}
          <=> (from.objs # {} /\ y \in Elements(one)) \/ (to.objs # {} /\ y \in Elements(two))
    BY <1>8
  <2>5. ASSUME y.from \in OneOf(e.from)
        PROVE  (from.objs # {} /\ y.from \in OneOf(from)) <=> y.from \notin OneOf(x.from)
    <3> DEFINE p == e.from
               q == x.from
               o == y.from
    <3>1. /\ p.objs \subseteq Objects /\ q.objs \subseteq Objects /\ (p.objs = {} <=> q.objs = {})
          /\ from.objs = p.objs \ q.objs /\ o \in OneOf(p)
      BY <1>0, <1>1, <1>4, <2>5
    <3> HIDE DEF p, q, o
    <3>2. (from.objs # {} /\ o \in OneOf(from)) <=> o \notin OneOf(q)
      BY <3>1, OneOfPart
    <3>3. QED
      BY <3>2 DEF o, q
  <2>6. ASSUME y.to \in OneOf(e.to)
        PROVE  (to.objs # {} /\ y.to \in OneOf(to)) <=> y.to \notin OneOf(x.to)
    <3> DEFINE p == e.to
               q == x.to
               o == y.to
    <3>1. /\ p.objs \subseteq Objects /\ q.objs \subseteq Objects /\ (p.objs = {} <=> q.objs = {})
          /\ to.objs = p.objs \ q.objs /\ o \in OneOf(p)
      BY <1>0, <1>1, <1>4, <2>6
    <3> HIDE DEF p, q, o
    <3>2. (to.objs # {} /\ o \in OneOf(to)) <=> o \notin OneOf(q)
      BY <3>1, OneOfPart
    <3>3. QED
      BY <3>2 DEF o, q
  <2>7. from.objs # {} /\ y.from \in OneOf(from) => y.from \in OneOf(e.from)
    BY <1>4 DEF OneOf, HasObjects
  <2>8. to.objs # {} /\ y.to \in OneOf(to) => y.to \in OneOf(e.to)
    BY <1>4 DEF OneOf, HasObjects
  <2>9. QED
    BY <2>1, <2>2, <2>3, <2>4, <2>5, <2>6, <2>7, <2>8 DEF Within
<1>11. QED
  BY <1>9, <1>10

(* What an element redefines is of an exception that has its points        *)
LEMMA RedefinedWithin ==
  ASSUME NEW e, e.thrus = <<>>, Sound(e), NEW p, p.thrus = <<>>, Sound(p),
         NEW z \in Elements(e), NEW y \in Elements(p), Redefines(z, y)
  PROVE  Overrides(p, e) /\ Intersects(p, e) /\ Within(y, e)
<1>1. /\ IsElement(y) /\ Alike(y, p) /\ y.from \in OneOf(p.from) /\ y.to \in OneOf(p.to)
      /\ IsElement(z) /\ Alike(z, e) /\ z.from \in OneOf(e.from) /\ z.to \in OneOf(e.to)
  BY InElements
<1>2. /\ z.kind = y.kind /\ z.minMax = y.minMax /\ z.prio = y.prio
      /\ z.from = y.from /\ z.to = y.to
  BY <1>1, RedefinesIs
<1>3. /\ e.from.objs \subseteq Objects /\ e.to.objs \subseteq Objects
      /\ p.from.objs \subseteq Objects /\ p.to.objs \subseteq Objects
  BY DEF Sound, IsException
<1>4. IntersectsPts(p.from, e.from) /\ IntersectsPts(p.to, e.to)
  BY <1>1, <1>2, <1>3, ExceptionsAssumption DEF IntersectsPts, OneOf, HasObjects
<1>5. DOMAIN p.thrus = {} /\ Len(p.thrus) = Len(e.thrus)
  OBVIOUS
<1>6. QED
  BY <1>1, <1>2, <1>4, <1>5 DEF Overrides, Alike, Intersects, Within

(* Of what is among the points of an exception, each is redefined by one   *)
(* of its elements                                                         *)
LEMMA WithinRedefined ==
  ASSUME NEW e, e.thrus = <<>>, e.kind \in {"multi", "delay"}, NEW p, p.thrus = <<>>,
         NEW y \in Elements(p), Overrides(p, e), Within(y, e)
  PROVE  \E z \in Elements(e) : Redefines(z, y)
<1>1. IsElement(y) /\ Alike(y, p)
  BY InElements
<1> DEFINE z == [kind |-> e.kind, minMax |-> e.minMax, value |-> e.value, prio |-> e.prio,
                 from |-> y.from, thrus |-> NoObjects, to |-> y.to]
<1>2. IsElement(z) /\ Alike(z, e) /\ z.from = y.from /\ z.to = y.to
  BY DEF IsElement, Alike
<1> HIDE DEF z
<1>3. z \in Elements(e)
  BY <1>2, InElements DEF Within
<1>4. Redefines(z, y)
  BY <1>1, <1>2, RedefinesIs DEF Alike, Overrides
<1>5. QED
  BY <1>3, <1>4

------------------------------------------------------------------------------
(* What can be merged differs in its points only                           *)
LEMMA MergeableAlike ==
  ASSUME GroupsAlike, NEW e, Sound(e), Plain(e), NEW m, Sound(m), Plain(m), Mergeable(e, m)
  PROVE  Alike(e, m)
<1>1. /\ e.kind \in {"false", "delay", "multi", "group"}
      /\ m.kind \in {"false", "delay", "multi", "group"}
  BY DEF Sound, IsException
<1>2. CASE e.kind = "false"
  <2>1. e.prio = m.prio /\ e.minMax = m.minMax
    BY <1>2 DEF Mergeable
  <2>2. e.prio >= 4000
    BY <1>2 DEF Sound, IsException
  <2> DEFINE p == FromThruToPriority(m.from, m.thrus, m.to)
  <2>3. p \in 0 .. 124 /\ m.prio = TypePriority(m.kind) + p
    BY PriorityRange DEF Plain, Priced
  <2> HIDE DEF p
  <2>4. m.kind = "false"
    BY <1>1, <2>1, <2>2, <2>3 DEF TypePriority
  <2>5. QED
    BY <1>2, <2>1, <2>4 DEF Plain, Alike
<1>3. CASE e.kind = "delay"
  BY <1>3 DEF Mergeable, Overrides, Alike
<1>4. CASE e.kind = "multi"
  BY <1>4 DEF Mergeable, Overrides, Alike
<1>5. CASE e.kind = "group"
  <2>1. m.kind = "group" /\ m.value = e.value
    BY <1>5 DEF Mergeable
  <2>2. PICK y \in AllAsked : Alike(y, e)
    BY <1>5 DEF Plain, InGroup
  <2>3. PICK z \in AllAsked : Alike(z, m)
    BY <2>1 DEF Plain, InGroup
  <2>4. y.prio = z.prio /\ y.minMax = z.minMax
    BY <1>5, <2>1, <2>2, <2>3 DEF GroupsAlike, Alike
  <2>5. QED
    BY <1>5, <2>1, <2>2, <2>3, <2>4 DEF Alike
<1>6. QED
  BY <1>1, <1>2, <1>3, <1>4, <1>5

LEMMA AlikeTypes ==
  ASSUME NEW e, Plain(e), NEW m, Plain(m), Sound(m), Alike(e, m)
  PROVE  SameTypes(e.from, m.from) /\ SameTypes(e.to, m.to)
<1> DEFINE p == FromThruToPriority(e.from, <<>>, e.to)
           q == FromThruToPriority(m.from, <<>>, m.to)
<1>1. p \in 0 .. 124 /\ q \in 0 .. 124
  BY PriorityRange
<1>2. e.prio = TypePriority(e.kind) + p /\ m.prio = TypePriority(m.kind) + q
  BY DEF Plain, Priced
<1>3. m.kind \in {"false", "delay", "multi", "group"}
  BY DEF Sound, IsException
<1> DEFINE n == TypePriority(m.kind)
<1>4. n \in Nat
  BY <1>3 DEF TypePriority
<1>5. e.prio = n + p /\ m.prio = n + q /\ e.prio = m.prio
  BY <1>2 DEF Alike
<1> HIDE DEF p, q, n
<1>6. p = q
  BY <1>1, <1>4, <1>5
<1>7. QED
  BY <1>6, PriorityOfTypes DEF p, q

LEMMA MergedPoint ==
  ASSUME NEW p, OfOneType(p), p.objs # {}, NEW q, OfOneType(q), q.objs # {}, SameTypes(p, q),
         NEW r, r = Merged(p, q)
  PROVE  /\ OfOneType(r) /\ SameTypes(r, q) /\ r.objs # {}
         /\ \A o : o \in OneOf(r) <=> o \in OneOf(p) \/ o \in OneOf(q)
<1>1. r.objs = q.objs \cup p.objs
  BY PointsAre
<1>2. OfOneType(r) /\ SameTypes(r, q)
  BY <1>1, ExceptionsAssumption DEF OfOneType, SameTypes
<1>3. QED
  BY <1>1, <1>2 DEF OneOf, HasObjects

(* The points of an exception without thrus in a row                       *)
LEMMA TwoPoints ==
  ASSUME NEW e, e.thrus = <<>>
  PROVE  /\ e.from.objs = {} /\ e.to.objs = {} => DOMAIN Pts(e) = {}
         /\ e.from.objs # {} => 1 \in DOMAIN Pts(e) /\ Pts(e)[1] = e.from
         /\ e.from.objs # {} /\ e.to.objs = {} => DOMAIN Pts(e) = {1}
         /\ e.from.objs # {} /\ e.to.objs # {} => DOMAIN Pts(e) = {1, 2} /\ Pts(e)[2] = e.to
         /\ e.from.objs = {} /\ e.to.objs # {} => DOMAIN Pts(e) = {1} /\ Pts(e)[1] = e.to
         /\ Len(Present(e.from)) = IF e.from.objs = {} THEN 0 ELSE 1
<1>1. Pts(e) = (Present(e.from) \o <<>>) \o Present(e.to)
  BY DEF Pts
<1>2. Present(e.from) = IF e.from.objs # {} THEN <<e.from>> ELSE <<>>
  BY DEF Present, HasObjects
<1>3. Present(e.to) = IF e.to.objs # {} THEN <<e.to>> ELSE <<>>
  BY DEF Present, HasObjects
<1>4. ASSUME NEW a, NEW b
      PROVE  /\ (<<>> \o <<>>) \o <<>> = <<>> /\ (<<a>> \o <<>>) \o <<>> = <<a>>
             /\ (<<>> \o <<>>) \o <<b>> = <<b>> /\ <<a>> \o <<>> = <<a>>
  <2>1. <<>> \o <<>> = <<>> /\ <<a>> \o <<>> = <<a>>
    OBVIOUS
  <2>2. <<>> \o <<b>> = <<b>>
    OBVIOUS
  <2>3. QED
    BY <2>1, <2>2
<1>5. ASSUME NEW a
      PROVE  /\ DOMAIN <<>> = {} /\ DOMAIN <<a>> = {1}
             /\ Len(<<>>) = 0 /\ Len(<<a>>) = 1 /\ <<a>>[1] = a /\ <<a>> \in Seq({a})
  OBVIOUS
<1>6. CASE e.from.objs = {} /\ e.to.objs = {}
  BY <1>1, <1>2, <1>3, <1>4, <1>5, <1>6
<1>7. CASE e.from.objs # {} /\ e.to.objs = {}
  <2>1. Pts(e) = <<e.from>> /\ Present(e.from) = <<e.from>>
    BY <1>1, <1>2, <1>3, <1>4, <1>7
  <2>2. QED
    BY <1>5, <1>7, <2>1
<1>8. CASE e.from.objs = {} /\ e.to.objs # {}
  <2>1. Pts(e) = <<e.to>> /\ Present(e.from) = <<>>
    BY <1>1, <1>2, <1>3, <1>4, <1>8
  <2>2. QED
    BY <1>5, <1>8, <2>1
<1>9. CASE e.from.objs # {} /\ e.to.objs # {}
  <2> DEFINE a == <<e.from>>
             b == <<e.to>>
             c == a \o b
  <2>1. Pts(e) = c /\ Present(e.from) = a
    BY <1>1, <1>2, <1>3, <1>4, <1>9
  <2>2. /\ IsSeq(a) /\ Len(a) = 1 /\ a[1] = e.from
        /\ IsSeq(b) /\ Len(b) = 1 /\ b[1] = e.to
    BY <1>5 DEF IsSeq
  <2> HIDE DEF a, b, c
  <2>3. /\ IsSeq(c) /\ Len(c) = 1 + 1
        /\ \A i \in 1 .. 1 : c[i] = a[i]
        /\ \A i \in 1 .. 1 : c[1 + i] = b[i]
    BY <2>2, Joined DEF c
  <2>4. c[1] = a[1] /\ c[2] = b[1]
    <3>1. 1 \in 1 .. 1 /\ 1 + 1 = 2
      OBVIOUS
    <3>2. QED
      BY <2>3, <3>1
  <2>5. DOMAIN c = {1, 2}
    <3>1. DOMAIN c = 1 .. 2
      BY <2>3, SeqFacts
    <3>2. QED
      BY <3>1
  <2>6. QED
    BY <1>9, <2>1, <2>2, <2>4, <2>5
<1>10. QED
  BY <1>6, <1>7, <1>8, <1>9

(* A merge stands for what both did                                        *)
LEMMA MergeExact ==
  ASSUME GroupsAlike, NEW e, Sound(e), Plain(e), NEW m, Sound(m), Plain(m),
         NEW k \in DOMAIN Pts(e), Mergeable(e, m), MergeablePts(m, e, k),
         NEW t, t = MergeInto(e, k, m)
  PROVE  Plain(t) /\ Elements(t) = Elements(e) \cup Elements(m)
<1>1. Alike(e, m) /\ SameTypes(e.from, m.from) /\ SameTypes(e.to, m.to)
  BY MergeableAlike, AlikeTypes
<1>2. /\ e.thrus = <<>> /\ m.thrus = <<>>
      /\ OfOneType(e.from) /\ OfOneType(e.to) /\ OfOneType(m.from) /\ OfOneType(m.to)
      /\ DOMAIN e.thrus = {} /\ DOMAIN m.thrus = {}
  BY DEF Plain
<1>3. /\ e.from.objs = {} <=> m.from.objs = {}
      /\ e.to.objs = {} <=> m.to.objs = {}
      /\ \A i \in DOMAIN Pts(m) \ {k} : Pts(m)[i].objs = Pts(e)[i].objs
  BY <1>2 DEF MergeablePts, HasObjects
<1>4. m = [kind |-> m.kind, minMax |-> m.minMax, value |-> m.value,
           from |-> m.from, thrus |-> m.thrus, to |-> m.to, prio |-> m.prio]
  BY DEF Sound, IsException
<1>5. k - Len(Present(e.from)) \notin DOMAIN e.thrus
  BY <1>2
<1>6. CASE e.from.objs # {} /\ k = 1
  <2> DEFINE r == Merged(e.from, m.from)
  <2>1. t = [m EXCEPT !.from = r]
    BY <1>2, <1>6, TwoPoints DEF MergeInto
  <2>2. /\ OfOneType(r) /\ SameTypes(r, m.from) /\ r.objs # {}
        /\ \A o : o \in OneOf(r) <=> o \in OneOf(e.from) \/ o \in OneOf(m.from)
    BY <1>1, <1>2, <1>3, <1>6, MergedPoint
  <2> HIDE DEF r
  <2>3. /\ Alike(t, m) /\ t.from = r /\ t.thrus = <<>> /\ t.to = m.to
    BY <1>2, <1>4, <2>1 DEF Alike
  <2>4. OneOf(e.to) = OneOf(m.to)
    <3>1. e.to.objs = m.to.objs
      <4>1. CASE m.to.objs = {}
        BY <1>3, <4>1
      <4>2. CASE m.to.objs # {}
        <5>1. 2 \in DOMAIN Pts(m) \ {k} /\ Pts(m)[2] = m.to /\ Pts(e)[2] = e.to
          BY <1>2, <1>3, <1>6, <4>2, TwoPoints
        <5>2. QED
          BY <1>3, <5>1
      <4>3. QED
        BY <4>1, <4>2
    <3>2. QED
      BY <3>1, SameOneOf
  <2>5. SameTypes(t.from, m.from) /\ SameTypes(t.to, m.to)
    BY <2>2, <2>3 DEF SameTypes
  <2>6. FromThruToPriority(t.from, <<>>, t.to) = FromThruToPriority(m.from, <<>>, m.to)
    BY <2>5, PriorityOfTypes
  <2>7. Plain(t)
    BY <1>2, <2>2, <2>3, <2>6 DEF Plain, Priced, InGroup, Alike
  <2>8. \A y : y \in Elements(t) <=> y \in Elements(e) \/ y \in Elements(m)
    <3>1. \A y : (Alike(y, t) <=> Alike(y, m)) /\ (Alike(y, e) <=> Alike(y, m))
      BY <1>1, <2>3 DEF Alike
    <3>2. QED
      BY <1>2, <2>2, <2>3, <2>4, <3>1, InElements
  <2>9. QED
    BY <2>7, <2>8
<1>7. CASE e.to.objs # {} /\ ~(e.from.objs # {} /\ k = 1)
  <2> DEFINE r == Merged(e.to, m.to)
  <2>0. Pts(e)[k] = e.to /\ ~(k <= Len(Present(e.from)))
    BY <1>2, <1>7, TwoPoints
  <2>1. t = [m EXCEPT !.to = r]
    BY <1>5, <2>0 DEF MergeInto
  <2>2. /\ OfOneType(r) /\ SameTypes(r, m.to) /\ r.objs # {}
        /\ \A o : o \in OneOf(r) <=> o \in OneOf(e.to) \/ o \in OneOf(m.to)
    BY <1>1, <1>2, <1>3, <1>7, MergedPoint
  <2> HIDE DEF r
  <2>3. /\ Alike(t, m) /\ t.to = r /\ t.thrus = <<>> /\ t.from = m.from
    BY <1>2, <1>4, <2>1 DEF Alike
  <2>4. OneOf(e.from) = OneOf(m.from)
    <3>1. e.from.objs = m.from.objs
      <4>1. CASE m.from.objs = {}
        BY <1>3, <4>1
      <4>2. CASE m.from.objs # {}
        <5>1. 1 \in DOMAIN Pts(m) \ {k} /\ Pts(m)[1] = m.from /\ Pts(e)[1] = e.from
          BY <1>2, <1>3, <1>7, <4>2, TwoPoints
        <5>2. QED
          BY <1>3, <5>1
      <4>3. QED
        BY <4>1, <4>2
    <3>2. QED
      BY <3>1, SameOneOf
  <2>5. SameTypes(t.from, m.from) /\ SameTypes(t.to, m.to)
    BY <2>2, <2>3 DEF SameTypes
  <2>6. FromThruToPriority(t.from, <<>>, t.to) = FromThruToPriority(m.from, <<>>, m.to)
    BY <2>5, PriorityOfTypes
  <2>7. Plain(t)
    BY <1>2, <2>2, <2>3, <2>6 DEF Plain, Priced, InGroup, Alike
  <2>8. \A y : y \in Elements(t) <=> y \in Elements(e) \/ y \in Elements(m)
    <3>1. \A y : (Alike(y, t) <=> Alike(y, m)) /\ (Alike(y, e) <=> Alike(y, m))
      BY <1>1, <2>3 DEF Alike
    <3>2. QED
      BY <1>2, <2>2, <2>3, <2>4, <3>1, InElements
  <2>9. QED
    BY <2>7, <2>8
<1>8. QED
  BY <1>2, <1>6, <1>7, TwoPoints

------------------------------------------------------------------------------
(* What a command asks for is broken into exceptions of one type of object *)
(* to a point.                                                             *)
LEMMA JoinedMembers ==
  ASSUME NEW s, NEW t, IsSeq(s), IsSeq(t), NEW i \in DOMAIN (s \o t)
  PROVE  \/ i \in DOMAIN s /\ (s \o t)[i] = s[i]
         \/ i - Len(s) \in DOMAIN t /\ (s \o t)[i] = t[i - Len(s)] /\ i \notin DOMAIN s
<1>1. /\ Len(s) \in Nat /\ DOMAIN s = 1 .. Len(s)
      /\ Len(t) \in Nat /\ DOMAIN t = 1 .. Len(t)
  BY SeqFacts
<1>2. /\ IsSeq(s \o t) /\ Len(s \o t) = Len(s) + Len(t)
      /\ \A j \in 1 .. Len(s) : (s \o t)[j] = s[j]
      /\ \A j \in 1 .. Len(t) : (s \o t)[Len(s) + j] = t[j]
  BY Joined
<1>3. i \in 1 .. Len(s) + Len(t)
  BY <1>2, SeqFacts
<1>4. CASE i \in 1 .. Len(s)
  BY <1>1, <1>2, <1>4
<1>5. CASE i \notin 1 .. Len(s)
  <2>1. i - Len(s) \in 1 .. Len(t) /\ Len(s) + (i - Len(s)) = i
    BY <1>1, <1>3, <1>5
  <2>2. (s \o t)[Len(s) + (i - Len(s))] = t[i - Len(s)]
    BY <1>2, <2>1
  <2>3. QED
    BY <1>1, <1>5, <2>1, <2>2
<1>6. QED
  BY <1>4, <1>5

PartElements(e) == UNION {Elements(p) : p \in Range(Parts(e))}

(* Plain but for its end points and its group                              *)
HalfPlain(e) ==
  /\ e.thrus = <<>> /\ OfOneType(e.from) /\ e.to.objs \subseteq Pins \cup Clocks
  /\ Priced(e) /\ (e.kind = "false" => e.value = 0)

LEMMA SplitTypes ==
  ASSUME NEW p, p.objs \subseteq Pins \cup Clocks
  PROVE  /\ Len(Split(p)) = 1 => Split(p) = <<p>> /\ OfOneType(p)
         /\ Len(Split(p)) # 1 => \A i \in 1 .. 2 : OfOneType(Split(p)[i])
         /\ OfOneType(p) => Split(p) = <<p>>
<1>1. CASE p.objs \cap Pins # {} /\ p.objs \cap Clocks # {}
  <2> DEFINE one == Point(p.objs \ Clocks)
             two == Point(p.objs \cap Clocks)
  <2>1. Split(p) = <<one, two>>
    BY <1>1 DEF Split
  <2>2. OfOneType(one) /\ OfOneType(two) /\ ~OfOneType(p)
    BY <1>1, PointsAre, ExceptionsAssumption DEF OfOneType
  <2> HIDE DEF one, two
  <2>3. Len(Split(p)) = 2 /\ Split(p)[1] = one /\ Split(p)[2] = two
    BY <2>1
  <2>4. \A i \in 1 .. 2 : i = 1 \/ i = 2
    OBVIOUS
  <2>5. QED
    BY <2>2, <2>3, <2>4
<1>2. CASE ~(p.objs \cap Pins # {} /\ p.objs \cap Clocks # {})
  <2>1. Split(p) = <<p>> /\ Len(<<p>>) = 1
    BY <1>2 DEF Split
  <2>2. OfOneType(p)
    BY <1>2 DEF OfOneType
  <2>3. QED
    BY <2>1, <2>2
<1>3. QED
  BY <1>1, <1>2

LEMMA WithHalfPlain ==
  ASSUME NEW e, e.thrus = <<>>, e.kind = "false" => e.value = 0,
         NEW from, OfOneType(from), NEW thrus, thrus = <<>>,
         NEW to, to.objs \subseteq Pins \cup Clocks, NEW x, x = With(e, from, thrus, to)
  PROVE  HalfPlain(x) /\ x.to = to
BY DEF With, Exception, HalfPlain, Priced

LEMMA SplitFromPlain ==
  ASSUME NEW e, e.thrus = <<>>, e.kind = "false" => e.value = 0, Priced(e),
         e.from.objs \subseteq Pins \cup Clocks, e.to.objs \subseteq Pins \cup Clocks,
         NEW i \in DOMAIN SplitFrom(e)
  PROVE  HalfPlain(SplitFrom(e)[i])
<1> DEFINE froms == Split(e.from)
<1>1. CASE Len(froms) = 1
  <2>1. OfOneType(e.from)
    BY <1>1, SplitTypes
  <2>2. SplitFrom(e) = <<e>>
    BY <1>1 DEF SplitFrom
  <2>3. DOMAIN <<e>> = {1} /\ <<e>>[1] = e
    OBVIOUS
  <2>4. SplitFrom(e)[i] = e
    BY <2>2, <2>3
  <2>5. QED
    BY <2>1, <2>4 DEF HalfPlain
<1>2. CASE Len(froms) # 1
  <2>1. \A j \in 1 .. 2 : OfOneType(froms[j])
    BY <1>2, SplitTypes
  <2>2. SplitFrom(e) = [j \in 1 .. 2 |-> With(e, froms[j], Clones(e.thrus), Clone(e.to))]
    BY <1>2 DEF SplitFrom
  <2>3. i \in 1 .. 2 /\ SplitFrom(e)[i] = With(e, froms[i], Clones(e.thrus), Clone(e.to))
    BY <2>2
  <2>4. Clones(e.thrus) = <<>>
    <3>1. <<>> \in Seq({}) /\ DOMAIN <<>> = {}
      OBVIOUS
    <3>2. IsThrus(e.thrus)
      BY <3>1 DEF IsThrus, IsSeq
    <3>3. QED
      BY <3>2, ClonedThrus DEF ThrusPartOf
  <2>5. Clone(e.to).objs = e.to.objs
    BY PointsAre
  <2>6. QED
    BY <2>1, <2>3, <2>4, <2>5, WithHalfPlain
<1>3. QED
  BY <1>1, <1>2

LEMMA SplitToPlain ==
  ASSUME NEW e, HalfPlain(e), NEW i \in DOMAIN SplitTo(e)
  PROVE  HalfPlain(SplitTo(e)[i]) /\ OfOneType(SplitTo(e)[i].to)
<1> DEFINE tos == Split(e.to)
<1>1. CASE Len(tos) = 1
  <2>1. OfOneType(e.to)
    BY <1>1, SplitTypes DEF HalfPlain
  <2>2. SplitTo(e) = <<e>>
    BY <1>1 DEF SplitTo
  <2>3. DOMAIN <<e>> = {1} /\ <<e>>[1] = e
    OBVIOUS
  <2>4. SplitTo(e)[i] = e
    BY <2>2, <2>3
  <2>5. QED
    BY <2>1, <2>4
<1>2. CASE Len(tos) # 1
  <2>1. \A j \in 1 .. 2 : OfOneType(tos[j])
    BY <1>2, SplitTypes DEF HalfPlain
  <2>2. SplitTo(e) = [j \in 1 .. 2 |-> With(e, Clone(e.from), Clones(e.thrus), tos[j])]
    BY <1>2 DEF SplitTo
  <2>3. i \in 1 .. 2 /\ SplitTo(e)[i] = With(e, Clone(e.from), Clones(e.thrus), tos[i])
    BY <2>2
  <2>4. Clones(e.thrus) = <<>> /\ e.thrus = <<>>
    <3>1. <<>> \in Seq({}) /\ DOMAIN <<>> = {} /\ e.thrus = <<>>
      BY DEF HalfPlain
    <3>2. IsThrus(e.thrus)
      BY <3>1 DEF IsThrus, IsSeq
    <3>3. QED
      BY <3>1, <3>2, ClonedThrus DEF ThrusPartOf
  <2>5. OfOneType(Clone(e.from)) /\ tos[i].objs \subseteq Pins \cup Clocks
    BY <2>1, <2>3, PointsAre DEF HalfPlain, OfOneType
  <2>6. e.kind = "false" => e.value = 0
    BY DEF HalfPlain
  <2>7. HalfPlain(SplitTo(e)[i]) /\ SplitTo(e)[i].to = tos[i]
    BY <2>3, <2>4, <2>5, <2>6, WithHalfPlain
  <2>8. QED
    BY <2>1, <2>3, <2>7
<1>3. QED
  BY <1>1, <1>2

LEMMA SoughtParts ==
  ASSUME NEW c \in Commands, c.op = "make", c.thrus = <<>>, NEW i \in DOMAIN Parts(Sought(c))
  PROVE  Plain(Parts(Sought(c))[i])
<1> DEFINE e == Sought(c)
           halves == SplitFrom(e)
           one == SplitTo(halves[1])
           two == IF Len(halves) = 2 THEN SplitTo(halves[2]) ELSE <<>>
           p == Parts(e)[i]
<1>1. /\ c.from \subseteq Pins \cup Clocks /\ c.to \subseteq Pins \cup Clocks
      /\ c.kind = "false" => c.value = 0
  BY CommandsAssumption
<1>2. /\ e.thrus = [j \in DOMAIN c.thrus |-> Point(c.thrus[j])]
      /\ e.from.objs = c.from /\ e.to.objs = c.to /\ Priced(e)
      /\ e.kind = c.kind /\ e.value = c.value
  BY PointsAre DEF Sought, Exception, Priced
<1>3. e.thrus = <<>>
  <2>1. DOMAIN c.thrus = {}
    OBVIOUS
  <2>2. QED
    BY <1>2, <2>1
<1>4. Sound(e)
  BY SoughtSound
<1>5. ArePartsOf(halves, e) /\ Len(halves) \in 1 .. 2
  BY <1>4, SplitFromParts
<1>6. \A j \in DOMAIN halves : HalfPlain(halves[j]) /\ Sound(halves[j])
  BY <1>1, <1>2, <1>3, <1>5, SplitFromPlain DEF ArePartsOf
<1>7. i \in DOMAIN (one \o two) /\ p = (one \o two)[i]
  BY DEF Parts
<1> HIDE DEF halves
<1>8. DOMAIN halves = 1 .. Len(halves)
  BY <1>5, SeqFacts DEF ArePartsOf
<1>9. /\ IsSeq(one)
      /\ \A j \in DOMAIN one : HalfPlain(one[j]) /\ OfOneType(one[j].to)
  <2>1. 1 \in DOMAIN halves
    BY <1>5, <1>8
  <2>2. QED
    BY <1>6, <2>1, SplitToParts, SplitToPlain DEF ArePartsOf
<1>10. /\ IsSeq(two)
       /\ \A j \in DOMAIN two : HalfPlain(two[j]) /\ OfOneType(two[j].to)
  <2>1. CASE Len(halves) = 2
    <3>1. 2 \in DOMAIN halves
      BY <1>8, <2>1
    <3>2. QED
      BY <1>6, <2>1, <3>1, SplitToParts, SplitToPlain DEF ArePartsOf
  <2>2. CASE Len(halves) # 2
    <3>1. <<>> \in Seq({}) /\ DOMAIN <<>> = {}
      OBVIOUS
    <3>2. two = <<>>
      BY <2>2
    <3>3. QED
      BY <3>1, <3>2 DEF IsSeq
  <2>3. QED
    BY <2>1, <2>2
<1> HIDE DEF one, two
<1>11. HalfPlain(p) /\ OfOneType(p.to)
  BY <1>7, <1>9, <1>10, JoinedMembers
<1>12. InGroup(p)
  <2>1. PICK y : y \in Elements(p)
    BY <1>11, SomeElement DEF HalfPlain
  <2>2. Alike(y, p)
    BY <1>11, <2>1, InElements DEF HalfPlain
  <2>3. y \in Asked(c)
    BY <2>1 DEF Asked, Range
  <2>4. y \in AllAsked
    BY <2>3 DEF AllAsked
  <2>5. QED
    BY <2>2, <2>4 DEF InGroup
<1>13. QED
  BY <1>11, <1>12 DEF HalfPlain, Plain

LEMMA PlainParts ==
  ASSUME NEW e, Plain(e)
  PROVE  Parts(e) = <<e>> /\ PartElements(e) = Elements(e)
<1>1. Split(e.from) = <<e.from>> /\ Split(e.to) = <<e.to>>
  BY SplitTypes DEF Plain, OfOneType
<1>2. /\ Len(<<e.from>>) = 1 /\ Len(<<e.to>>) = 1
      /\ Len(<<e>>) = 1 /\ <<e>>[1] = e /\ DOMAIN <<e>> = {1} /\ <<e>> \o <<>> = <<e>>
  OBVIOUS
<1>3. SplitFrom(e) = <<e>> /\ SplitTo(e) = <<e>>
  BY <1>1, <1>2 DEF SplitFrom, SplitTo
<1>4. Parts(e) = <<e>>
  BY <1>2, <1>3 DEF Parts
<1>5. Range(Parts(e)) = {e}
  BY <1>2, <1>4 DEF Range
<1>6. QED
  BY <1>4, <1>5 DEF PartElements

------------------------------------------------------------------------------
(* What the calls under way have yet to record, and what they will have    *)
(* overridden the exceptions with by then.                                 *)
Owes(f) ==
  CASE f.op = "add" -> PartElements(f.e)
    [] f.op \in {"add2", "record"} -> Elements(f.e)
    [] f.op = "each" -> UNION {Elements(e) : e \in f.todo}
    [] OTHER -> {}

Imposes(f) == IF f.op \in {"add", "add2", "each"} THEN Owes(f) ELSE {}

OwedBy(s) == UNION {Owes(s[j]) : j \in DOMAIN s}
ImposedBy(s) == UNION {Imposes(s[j]) : j \in DOMAIN s}
Beyond(s, j) == UNION {Imposes(s[k]) : k \in {n \in DOMAIN s : n > j}}

(* y is meant, or one of S that is will override it                        *)
Excused(M, y, S) == y \in M \/ \E z \in S : z \in M /\ Redefines(z, y)

(* The exceptions of the call are plain, and no reset is under way         *)
PlainFrame(f) ==
  /\ f.op # "reset"
  /\ f.op = "add" => \A i \in DOMAIN Parts(f.e) : Plain(Parts(f.e)[i])
  /\ f.op \in {"add2", "record"} => Plain(f.e)
  /\ f.op = "each" => f.reset = None /\ \A e \in f.todo : Plain(e)

Orderly(M, s) ==
  \A j \in DOMAIN s :
    PlainFrame(s[j]) /\ \A y \in Owes(s[j]) : Excused(M, y, Beyond(s, j))

LEMMA ExcusedMore ==
  ASSUME NEW M, NEW y, NEW S, NEW T, S \subseteq T, Excused(M, y, S)
  PROVE  Excused(M, y, T)
BY DEF Excused

LEMMA NoneOwed ==
  ASSUME NEW M
  PROVE  OwedBy(<<>>) = {} /\ ImposedBy(<<>>) = {} /\ Orderly(M, <<>>)
<1>1. DOMAIN <<>> = {}
  OBVIOUS
<1>2. QED
  BY <1>1 DEF OwedBy, ImposedBy, Orderly

(* The innermost call, and those that wait for it                          *)
LEMMA Popped ==
  ASSUME NEW M, NEW s, IsSeq(s), s # <<>>, NEW r, r = Tail(s)
  PROVE  /\ OwedBy(s) = Owes(Head(s)) \cup OwedBy(r)
         /\ ImposedBy(s) = Imposes(Head(s)) \cup ImposedBy(r)
         /\ Orderly(M, s) => /\ Orderly(M, r) /\ PlainFrame(Head(s))
                             /\ \A y \in Owes(Head(s)) : Excused(M, y, ImposedBy(r))
<1>1. Len(s) \in Nat /\ DOMAIN s = 1 .. Len(s) /\ Len(s) >= 1 /\ Head(s) = s[1] /\ 1 \in DOMAIN s
  BY SeqFacts
<1>2. IsSeq(r) /\ Len(r) = Len(s) - 1 /\ \A i \in 1 .. Len(s) - 1 : r[i] = s[i + 1]
  BY TailFacts
<1>3. DOMAIN r = 1 .. Len(s) - 1
  BY <1>2, SeqFacts
<1>4. \A j \in DOMAIN r : j + 1 \in DOMAIN s /\ j + 1 > 1 /\ r[j] = s[j + 1] /\ j \in Int
  BY <1>1, <1>2, <1>3
<1>5. ASSUME NEW j \in DOMAIN s, j # 1
      PROVE  j - 1 \in DOMAIN r /\ r[j - 1] = s[j] /\ j > 1 /\ j \in Int
  <2>1. j - 1 \in 1 .. Len(s) - 1 /\ (j - 1) + 1 = j /\ j > 1 /\ j \in Int
    BY <1>1, <1>5
  <2>2. r[j - 1] = s[(j - 1) + 1]
    BY <1>2, <2>1
  <2>3. QED
    BY <1>3, <2>1, <2>2
<1>6. OwedBy(s) = Owes(Head(s)) \cup OwedBy(r)
  <2>1. ASSUME NEW y \in OwedBy(s) PROVE y \in Owes(s[1]) \cup OwedBy(r)
    <3>1. PICK j \in DOMAIN s : y \in Owes(s[j])
      BY DEF OwedBy
    <3>2. j # 1 => y \in OwedBy(r)
      BY <1>5, <3>1 DEF OwedBy
    <3>3. QED
      BY <3>1, <3>2
  <2>2. Owes(s[1]) \cup OwedBy(r) \subseteq OwedBy(s)
    BY <1>1, <1>4 DEF OwedBy
  <2>3. QED
    BY <1>1, <2>1, <2>2
<1>7. ImposedBy(s) = Imposes(Head(s)) \cup ImposedBy(r)
  <2>1. ASSUME NEW y \in ImposedBy(s) PROVE y \in Imposes(s[1]) \cup ImposedBy(r)
    <3>1. PICK j \in DOMAIN s : y \in Imposes(s[j])
      BY DEF ImposedBy
    <3>2. j # 1 => y \in ImposedBy(r)
      BY <1>5, <3>1 DEF ImposedBy
    <3>3. QED
      BY <3>1, <3>2
  <2>2. Imposes(s[1]) \cup ImposedBy(r) \subseteq ImposedBy(s)
    BY <1>1, <1>4 DEF ImposedBy
  <2>3. QED
    BY <1>1, <2>1, <2>2
<1>8. Beyond(s, 1) \subseteq ImposedBy(r)
  <2>1. \A k \in DOMAIN s : k > 1 => \E j \in DOMAIN r : r[j] = s[k]
    BY <1>5
  <2>2. QED
    BY <2>1 DEF Beyond, ImposedBy
<1>9. ASSUME NEW j \in DOMAIN r PROVE Beyond(s, j + 1) \subseteq Beyond(r, j)
  <2>1. ASSUME NEW k \in DOMAIN s, k > j + 1
        PROVE  \E l \in DOMAIN r : l > j /\ r[l] = s[k]
    <3>1. k \in Int /\ j \in Int /\ j >= 1
      BY <1>1, <1>3
    <3>2. k # 1 /\ k - 1 > j
      BY <2>1, <3>1
    <3>3. QED
      BY <1>5, <3>2
  <2>2. QED
    BY <2>1 DEF Beyond
<1>10. ASSUME Orderly(M, s)
       PROVE  /\ Orderly(M, r) /\ PlainFrame(Head(s))
              /\ \A y \in Owes(Head(s)) : Excused(M, y, ImposedBy(r))
  <2>1. PlainFrame(s[1]) /\ \A y \in Owes(s[1]) : Excused(M, y, ImposedBy(r))
    BY <1>1, <1>8, <1>10, ExcusedMore DEF Orderly
  <2>2. ASSUME NEW j \in DOMAIN r, NEW y \in Owes(r[j]) PROVE Excused(M, y, Beyond(r, j))
    <3>1. j + 1 \in DOMAIN s /\ y \in Owes(s[j + 1])
      BY <1>4
    <3>2. Excused(M, y, Beyond(s, j + 1))
      BY <1>10, <3>1 DEF Orderly
    <3>3. QED
      BY <1>9, <3>2, ExcusedMore
  <2>3. \A j \in DOMAIN r : PlainFrame(r[j])
    BY <1>4, <1>10 DEF Orderly
  <2>4. QED
    BY <1>1, <2>1, <2>2, <2>3 DEF Orderly
<1>11. QED
  BY <1>6, <1>7, <1>10

(* Calls before those that wait                                            *)
LEMMA Pushed ==
  ASSUME NEW M, NEW front, NEW r, IsSeq(front), IsSeq(r), Orderly(M, r),
         \A j \in DOMAIN front :
           PlainFrame(front[j]) /\ \A y \in Owes(front[j]) : Excused(M, y, ImposedBy(r))
  PROVE  /\ OwedBy(front \o r) = OwedBy(front) \cup OwedBy(r)
         /\ ImposedBy(front \o r) = ImposedBy(front) \cup ImposedBy(r)
         /\ Orderly(M, front \o r)
<1> DEFINE n == Len(front)
           s == front \o r
<1>1. /\ n \in Nat /\ DOMAIN front = 1 .. n
      /\ Len(r) \in Nat /\ DOMAIN r = 1 .. Len(r)
  BY SeqFacts
<1>2. /\ IsSeq(s) /\ Len(s) = n + Len(r)
      /\ \A j \in 1 .. n : s[j] = front[j]
      /\ \A j \in 1 .. Len(r) : s[n + j] = r[j]
  BY Joined
<1>3. DOMAIN s = 1 .. n + Len(r)
  BY <1>2, SeqFacts
<1> HIDE DEF n, s
<1>4. \A j \in DOMAIN front : j \in DOMAIN s /\ s[j] = front[j] /\ j <= n /\ j \in Int
  BY <1>1, <1>2, <1>3
<1>5. \A j \in DOMAIN r : n + j \in DOMAIN s /\ s[n + j] = r[j] /\ n + j > n /\ j \in Int
  BY <1>1, <1>2, <1>3
<1>6. ASSUME NEW i \in DOMAIN s, i \notin DOMAIN front
      PROVE  i - n \in DOMAIN r /\ s[i] = r[i - n] /\ i > n /\ i \in Int
  <2> DEFINE l == Len(r)
  <2>0. n \in Nat /\ l \in Nat /\ i \in 1 .. n + l /\ i \notin 1 .. n
    BY <1>1, <1>3, <1>6
  <2> HIDE DEF l
  <2>a. i - n \in 1 .. l /\ n + (i - n) = i /\ i > n /\ i \in Int
    BY <2>0
  <2>1. i - n \in 1 .. Len(r) /\ n + (i - n) = i /\ i > n /\ i \in Int
    BY <2>a DEF l
  <2>2. s[n + (i - n)] = r[i - n]
    BY <1>2, <2>1
  <2>3. QED
    BY <1>1, <2>1, <2>2
<1>7. OwedBy(s) = OwedBy(front) \cup OwedBy(r)
  <2>1. OwedBy(s) \subseteq OwedBy(front) \cup OwedBy(r)
    BY <1>4, <1>6 DEF OwedBy
  <2>2. OwedBy(front) \cup OwedBy(r) \subseteq OwedBy(s)
    BY <1>4, <1>5 DEF OwedBy
  <2>3. QED
    BY <2>1, <2>2
<1>8. ImposedBy(s) = ImposedBy(front) \cup ImposedBy(r)
  <2>1. ImposedBy(s) \subseteq ImposedBy(front) \cup ImposedBy(r)
    BY <1>4, <1>6 DEF ImposedBy
  <2>2. ImposedBy(front) \cup ImposedBy(r) \subseteq ImposedBy(s)
    BY <1>4, <1>5 DEF ImposedBy
  <2>3. QED
    BY <2>1, <2>2
<1>9. ASSUME NEW j \in DOMAIN front PROVE ImposedBy(r) \subseteq Beyond(s, j)
  <2>1. \A k \in DOMAIN r : n + k \in DOMAIN s /\ n + k > j /\ s[n + k] = r[k]
    BY <1>1, <1>4, <1>5
  <2>2. QED
    BY <2>1 DEF ImposedBy, Beyond
<1>10. ASSUME NEW j \in DOMAIN r PROVE Beyond(r, j) \subseteq Beyond(s, n + j)
  <2>1. \A k \in DOMAIN r : k > j => n + k \in DOMAIN s /\ n + k > n + j /\ s[n + k] = r[k]
    BY <1>1, <1>5
  <2>2. QED
    BY <2>1 DEF Beyond
<1>11. Orderly(M, s)
  <2>1. ASSUME NEW i \in DOMAIN s, NEW y \in Owes(s[i]) PROVE Excused(M, y, Beyond(s, i))
    <3>1. CASE i \in DOMAIN front
      <4>1. Excused(M, y, ImposedBy(r))
        BY <1>4, <2>1, <3>1
      <4>2. QED
        BY <1>9, <3>1, <4>1, ExcusedMore
    <3>2. CASE i \notin DOMAIN front
      <4>1. i - n \in DOMAIN r /\ s[i] = r[i - n] /\ n + (i - n) = i
        BY <1>1, <1>6, <3>2
      <4>2. Excused(M, y, Beyond(r, i - n))
        BY <2>1, <4>1 DEF Orderly
      <4>3. Excused(M, y, Beyond(s, n + (i - n)))
        BY <1>10, <4>1, <4>2, ExcusedMore
      <4>4. QED
        BY <4>1, <4>3
    <3>3. QED
      BY <3>1, <3>2
  <2>2. \A i \in DOMAIN s : PlainFrame(s[i])
    BY <1>4, <1>6 DEF Orderly
  <2>3. QED
    BY <2>1, <2>2 DEF Orderly
<1>12. QED
  BY <1>7, <1>8, <1>11 DEF s

LEMMA PushedOne ==
  ASSUME NEW M, NEW f, NEW r, IsSeq(r), Orderly(M, r), PlainFrame(f),
         \A y \in Owes(f) : Excused(M, y, ImposedBy(r))
  PROVE  /\ OwedBy(<<f>> \o r) = Owes(f) \cup OwedBy(r)
         /\ ImposedBy(<<f>> \o r) = Imposes(f) \cup ImposedBy(r)
         /\ Orderly(M, <<f>> \o r)
<1> DEFINE front == <<f>>
<1>1. front \in Seq({f}) /\ DOMAIN front = {1} /\ front[1] = f
  OBVIOUS
<1> HIDE DEF front
<1>2. IsSeq(front)
  BY <1>1 DEF IsSeq
<1>3. OwedBy(front) = Owes(f) /\ ImposedBy(front) = Imposes(f)
  BY <1>1 DEF OwedBy, ImposedBy
<1>4. \A j \in DOMAIN front :
        PlainFrame(front[j]) /\ \A y \in Owes(front[j]) : Excused(M, y, ImposedBy(r))
  BY <1>1
<1>5. /\ OwedBy(front \o r) = OwedBy(front) \cup OwedBy(r)
      /\ ImposedBy(front \o r) = ImposedBy(front) \cup ImposedBy(r)
      /\ Orderly(M, front \o r)
  BY <1>2, <1>4, Pushed
<1>6. QED
  BY <1>3, <1>5 DEF front

LEMMA PushedTwo ==
  ASSUME NEW M, NEW f, NEW g, NEW r, IsSeq(r), Orderly(M, r),
         PlainFrame(f), PlainFrame(g),
         \A y \in Owes(f) \cup Owes(g) : Excused(M, y, ImposedBy(r))
  PROVE  /\ OwedBy(<<f, g>> \o r) = Owes(f) \cup Owes(g) \cup OwedBy(r)
         /\ ImposedBy(<<f, g>> \o r) = Imposes(f) \cup Imposes(g) \cup ImposedBy(r)
         /\ Orderly(M, <<f, g>> \o r)
<1> DEFINE front == <<f, g>>
<1>1. front \in Seq({f, g}) /\ DOMAIN front = {1, 2} /\ front[1] = f /\ front[2] = g
  OBVIOUS
<1> HIDE DEF front
<1>2. IsSeq(front)
  BY <1>1 DEF IsSeq
<1>3. OwedBy(front) = Owes(f) \cup Owes(g) /\ ImposedBy(front) = Imposes(f) \cup Imposes(g)
  BY <1>1 DEF OwedBy, ImposedBy
<1>4. \A j \in DOMAIN front :
        PlainFrame(front[j]) /\ \A y \in Owes(front[j]) : Excused(M, y, ImposedBy(r))
  BY <1>1
<1>5. /\ OwedBy(front \o r) = OwedBy(front) \cup OwedBy(r)
      /\ ImposedBy(front \o r) = ImposedBy(front) \cup ImposedBy(r)
      /\ Orderly(M, front \o r)
  BY <1>2, <1>4, Pushed
<1>6. QED
  BY <1>3, <1>5 DEF front

------------------------------------------------------------------------------
(* What is recorded stands for what the commands ask for, but for what the *)
(* calls under way owe and what they will override.                        *)
Recorded(ps) == UNION {Elements(ps[i]) : i \in DOMAIN ps}

Kept(M, R, s) ==
  /\ \A y \in M : IsElement(y)
  /\ \A y, z \in M : Redefines(z, y) => z = y
  /\ M \subseteq R \cup OwedBy(s)
  /\ \A y \in R : Excused(M, y, ImposedBy(s))
  /\ Orderly(M, s)

MeaningInvariant ==
  /\ ~undefined /\ Core
  /\ \A i \in DOMAIN paths : Plain(paths[i])
  /\ Kept(meaning, Recorded(paths), calls)

LEMMA RecordedElements ==
  ASSUME \A i \in DOMAIN paths : Plain(paths[i])
  PROVE  \A y \in Recorded(paths) : IsElement(y)
BY InElements DEF Recorded, Plain

LEMMA Transitive ==
  ASSUME NEW x, NEW y, NEW z, IsElement(x), IsElement(y), IsElement(z),
         Redefines(x, y), Redefines(y, z)
  PROVE  Redefines(x, z)
BY RedefinesIs

LEMMA Symmetric ==
  ASSUME NEW x, NEW y, IsElement(x), IsElement(y), Redefines(x, y)
  PROVE  Redefines(y, x)
BY RedefinesIs

(* While no command is under way                                           *)
LEMMA KeptIdle ==
  ASSUME MeaningInvariant, calls = <<>>
  PROVE  Recorded(paths) = meaning
BY NoneOwed DEF MeaningInvariant, Kept, Excused

LEMMA AskedElements ==
  ASSUME NEW c \in Commands, c.op = "make", c.thrus = <<>>
  PROVE  /\ \A y \in Asked(c) : IsElement(y)
         /\ \A y, z \in Asked(c) : Redefines(z, y) => z = y
<1> DEFINE e == Sought(c)
           s == Parts(e)
<1>1. \A i \in DOMAIN s : Plain(s[i])
  BY SoughtParts
<1>2. \A i \in DOMAIN s : s[i].value = e.value
  BY SoughtSound, PartsAre DEF ArePartsOf, PartOf
<1> HIDE DEF e, s
<1>3. ASSUME NEW y \in Asked(c) PROVE IsElement(y) /\ y.value = e.value
  <2>1. PICK i \in DOMAIN s : y \in Elements(s[i])
    BY DEF Asked, Range, s, e
  <2>2. QED
    BY <1>1, <1>2, <2>1, InElements DEF Plain, Alike
<1>4. ASSUME NEW y \in Asked(c), NEW z \in Asked(c), Redefines(z, y) PROVE z = y
  <2>1. Alike(z, y) /\ z.from = y.from /\ z.to = y.to
    BY <1>3, <1>4, RedefinesIs DEF Alike
  <2>2. QED
    BY <1>3, <2>1, SameElement
<1>5. QED
  BY <1>3, <1>4

LEMMA MakeMeaning ==
  ASSUME PointsOnly, MeaningInvariant, NEW c \in Commands, Make(c), Core'
  PROVE  MeaningInvariant'
<1> DEFINE f == Adds(Sought(c))
           A == Asked(c)
           M == {y \in meaning : ~\E z \in A : Redefines(z, y)} \cup A
           R == Recorded(paths)
           s == <<f>> \o <<>>
<1>1. /\ c.op = "make" /\ calls = <<>> /\ UNCHANGED <<paths, undefined>>
      /\ meaning' = M /\ calls' = <<f>>
  BY DEF Make, Asks, sets
<1>2. c.thrus = <<>>
  BY <1>1 DEF PointsOnly
<1>3. f.op = "add" /\ f.e = Sought(c)
  BY DEF Adds
<1> HIDE DEF f, A
<1>4. Owes(f) = A /\ Imposes(f) = A
  BY <1>3 DEF Owes, Imposes, PartElements, Asked, A
<1>5. PlainFrame(f)
  BY <1>1, <1>2, <1>3, SoughtParts DEF PlainFrame
<1>6. R = meaning /\ \A y \in meaning : IsElement(y)
  BY <1>1, KeptIdle DEF MeaningInvariant, Kept
<1>7. (\A y \in A : IsElement(y)) /\ (\A y, z \in A : Redefines(z, y) => z = y)
  BY <1>1, <1>2, AskedElements DEF A
<1>8. A \subseteq M /\ calls' = s
  BY <1>1
<1>9. IsSeq(<<>>)
  <2>1. <<>> \in Seq({})
    OBVIOUS
  <2>2. QED
    BY <2>1 DEF IsSeq
<1>10. OwedBy(s) = A /\ ImposedBy(s) = A /\ Orderly(M, s)
  <2>1. \A y \in Owes(f) : Excused(M, y, ImposedBy(<<>>))
    BY <1>4, <1>8 DEF Excused
  <2> HIDE DEF M
  <2>2. /\ OwedBy(s) = Owes(f) \cup OwedBy(<<>>)
        /\ ImposedBy(s) = Imposes(f) \cup ImposedBy(<<>>)
        /\ Orderly(M, s)
    BY <1>5, <1>9, <2>1, NoneOwed, PushedOne
  <2>3. QED
    BY <1>4, <2>2, NoneOwed
<1> HIDE DEF s
<1>11. \A y \in R : Excused(M, y, ImposedBy(s))
  BY <1>6, <1>8, <1>10 DEF Excused
<1>12. \A y, z \in M : Redefines(z, y) => z = y
  <2>1. SUFFICES ASSUME NEW y \in M, NEW z \in M, Redefines(z, y) PROVE z = y
    OBVIOUS
  <2>2. IsElement(y) /\ IsElement(z)
    BY <1>6, <1>7
  <2>3. Redefines(y, z)
    BY <2>1, <2>2, Symmetric
  <2>4. CASE y \in A
    BY <1>7, <2>1, <2>3, <2>4
  <2>5. CASE y \notin A
    <3>1. z \notin A /\ y \in meaning /\ z \in meaning
      BY <2>1, <2>5
    <3>2. QED
      BY <2>1, <3>1 DEF MeaningInvariant, Kept
  <2>6. QED
    BY <2>4, <2>5
<1>13. M \subseteq R \cup OwedBy(s)
  BY <1>6, <1>10
<1>14. \A y \in M : IsElement(y)
  BY <1>6, <1>7
<1> HIDE DEF M
<1>15. Kept(M, R, s)
  BY <1>10, <1>11, <1>12, <1>13, <1>14 DEF Kept
<1>16. Recorded(paths)' = R
  BY <1>1 DEF Recorded
<1>17. QED
  BY <1>1, <1>8, <1>15, <1>16 DEF MeaningInvariant

(* A clock leaves an exception that has other objects where it was         *)
LEMMA WithoutClockIs ==
  ASSUME NEW e, Sound(e), Plain(e), NEW clk, clk # None,
         e.from.objs # {clk}, e.to.objs # {clk}, NEW x, x = WithoutClock(e, clk)
  PROVE  /\ Plain(x)
         /\ \A y : y \in Elements(x) <=> y \in Elements(e) /\ y.from # clk /\ y.to # clk
<1> DEFINE D == [objs |-> {clk} \cap e.from.objs, hash |-> 0]
           H == [objs |-> {clk} \cap e.to.objs, hash |-> 0]
           from == Deleted(e.from, D)
           to == Deleted(e.to, H)
<1>1. e = [kind |-> e.kind, minMax |-> e.minMax, value |-> e.value,
           from |-> e.from, thrus |-> e.thrus, to |-> e.to, prio |-> e.prio]
  BY DEF Sound, IsException
<1>2. x = [e EXCEPT !.from = from, !.to = to]
  BY <1>1 DEF WithoutClock
<1>3. from.objs = e.from.objs \ {clk} /\ to.objs = e.to.objs \ {clk}
  BY PointsAre
<1> HIDE DEF from, to
<1>4. Alike(x, e) /\ x.thrus = e.thrus /\ x.from = from /\ x.to = to
  BY <1>1, <1>2 DEF Alike
<1>5. (from.objs = {} <=> e.from.objs = {}) /\ (to.objs = {} <=> e.to.objs = {})
  BY <1>3
<1>6. /\ OfOneType(x.from) /\ SameTypes(x.from, e.from)
      /\ OfOneType(x.to) /\ SameTypes(x.to, e.to)
  BY <1>3, <1>4, <1>5, TypesOfPart DEF Plain
<1>7. FromThruToPriority(x.from, <<>>, x.to) = FromThruToPriority(e.from, <<>>, e.to)
  BY <1>6, PriorityOfTypes
<1>8. Plain(x)
  BY <1>4, <1>6, <1>7 DEF Plain, Priced, InGroup, Alike
<1>9. /\ \A o : o \in OneOf(x.from) <=> o \in OneOf(e.from) /\ o # clk
      /\ \A o : o \in OneOf(x.to) <=> o \in OneOf(e.to) /\ o # clk
  BY <1>3, <1>4, <1>5 DEF OneOf, HasObjects
<1>10. \A y : Alike(y, x) <=> Alike(y, e)
  BY <1>4 DEF Alike
<1>11. \A y : y \in Elements(x) <=> y \in Elements(e) /\ y.from # clk /\ y.to # clk
  BY <1>8, <1>9, <1>10, InElements DEF Plain
<1>12. QED
  BY <1>8, <1>11

LEMMA DeleteClockMeaning ==
  ASSUME PointsOnly, MeaningInvariant, NEW c \in Commands, DeleteClock(c), Core'
  PROVE  MeaningInvariant'
<1> DEFINE clk == c.clock
           refs == {i \in DOMAIN paths : c.clock \in paths[i].from.objs \cup paths[i].to.objs}
           lost(p) == p.objs = {c.clock}
           kept == {i \in refs : ~lost(paths[i].from) /\ ~lost(paths[i].to)}
           now(i) == WithoutClock(paths[i], c.clock)
           M == {x \in meaning : x.from # c.clock /\ x.to # c.clock}
<1>1. /\ paths' = [i \in DOMAIN paths \ (refs \ kept) |-> IF i \in kept THEN now(i) ELSE paths[i]]
      /\ UNCHANGED <<calls, undefined>> /\ calls = <<>> /\ c.op = "clock"
      /\ meaning' = M
  BY DEF DeleteClock, Asks
<1>2. clk # None
  BY <1>1, CommandsAssumption, ExceptionsAssumption DEF Objects
<1>3. \A i \in DOMAIN paths : Plain(paths[i]) /\ Sound(paths[i])
  BY DEF MeaningInvariant, Core
<1>4. ASSUME NEW i \in kept
      PROVE  /\ Plain(now(i))
             /\ \A y : y \in Elements(now(i)) <=> y \in Elements(paths[i]) /\ y.from # clk /\ y.to # clk
  <2>1. i \in DOMAIN paths /\ paths[i].from.objs # {clk} /\ paths[i].to.objs # {clk}
    OBVIOUS
  <2>2. QED
    BY <1>2, <1>3, <2>1, WithoutClockIs
<1>5. ASSUME NEW i \in DOMAIN paths, i \notin refs, NEW y \in Elements(paths[i])
      PROVE  y.from # clk /\ y.to # clk
  <2>1. y.from \in OneOf(paths[i].from) /\ y.to \in OneOf(paths[i].to)
    BY <1>3, InElements DEF Plain
  <2>2. clk \notin paths[i].from.objs /\ clk \notin paths[i].to.objs
    BY <1>5
  <2>3. QED
    BY <1>2, <2>1, <2>2 DEF OneOf
<1>6. ASSUME NEW i \in refs \ kept, NEW y \in Elements(paths[i])
      PROVE  y.from = clk \/ y.to = clk
  <2>1. y.from \in OneOf(paths[i].from) /\ y.to \in OneOf(paths[i].to)
    BY <1>3, InElements DEF Plain
  <2>2. paths[i].from.objs = {clk} \/ paths[i].to.objs = {clk}
    OBVIOUS
  <2>3. QED
    BY <2>1, <2>2 DEF OneOf, HasObjects
<1>7. kept \subseteq refs /\ refs \subseteq DOMAIN paths
  OBVIOUS
<1>8. \A y : y \in meaning <=> y \in Recorded(paths)
  BY <1>1, KeptIdle
<1>9. \A y \in meaning : IsElement(y)
  BY DEF MeaningInvariant, Kept
<1>10. \A y, z \in meaning : Redefines(z, y) => z = y
  BY DEF MeaningInvariant, Kept
<1> HIDE DEF clk, refs, kept, now
<1>11. DOMAIN paths' = DOMAIN paths \ (refs \ kept)
       /\ \A i \in DOMAIN paths' : paths'[i] = IF i \in kept THEN now(i) ELSE paths[i]
  BY <1>1
<1>12. \A i \in DOMAIN paths' : Plain(paths'[i])
  BY <1>3, <1>4, <1>11
<1>13. ASSUME NEW y \in Recorded(paths') PROVE y \in M
  <2>1. PICK i \in DOMAIN paths' : y \in Elements(paths'[i])
    BY DEF Recorded
  <2>2. i \in DOMAIN paths /\ i \notin refs \ kept
    BY <1>11
  <2>3. y \in Elements(paths[i]) /\ y.from # clk /\ y.to # clk
    BY <1>4, <1>5, <1>11, <2>1, <2>2
  <2>4. y \in meaning
    BY <1>8, <2>2, <2>3 DEF Recorded
  <2>5. QED
    BY <2>3, <2>4 DEF clk
<1>14. ASSUME NEW y \in M PROVE y \in Recorded(paths')
  <2>1. PICK i \in DOMAIN paths : y \in Elements(paths[i])
    BY <1>8 DEF Recorded
  <2>2. y.from # clk /\ y.to # clk
    BY DEF clk
  <2>3. i \notin refs \ kept
    BY <1>6, <2>1, <2>2
  <2>4. i \in DOMAIN paths' /\ y \in Elements(paths'[i])
    BY <1>4, <1>11, <2>1, <2>2, <2>3
  <2>5. QED
    BY <2>4 DEF Recorded
<1>15. M \subseteq meaning
  OBVIOUS
<1> HIDE DEF M
<1>16. Recorded(paths') = M
  BY <1>13, <1>14
<1>17. Kept(M, M, <<>>)
  BY <1>9, <1>10, <1>15, NoneOwed DEF Kept, Excused
<1>18. QED
  BY <1>1, <1>12, <1>16, <1>17, SMTT(30) DEF MeaningInvariant

------------------------------------------------------------------------------
(* What a call finds at the head of the calls, and below it                *)
LEMMA InCall ==
  ASSUME MeaningInvariant, NEW op, At(op), NEW r, r = Tail(calls), NEW h, h = Head(calls)
  PROVE  /\ h.op = op /\ op # "reset" /\ FrameOk(h, starts, ends, DOMAIN paths)
         /\ IsSeq(r) /\ Orderly(meaning, r) /\ PlainFrame(h)
         /\ meaning \subseteq Recorded(paths) \cup Owes(h) \cup OwedBy(r)
         /\ \A y \in Recorded(paths) : Excused(meaning, y, Imposes(h) \cup ImposedBy(r))
         /\ \A y \in Owes(h) : Excused(meaning, y, ImposedBy(r))
         /\ ~Resetting
<1>1. /\ calls # <<>> /\ h.op = op /\ FrameOk(h, starts, ends, DOMAIN paths)
      /\ Waiting(r, starts, ends, DOMAIN paths) /\ IsSeq(calls)
  BY AtHead DEF MeaningInvariant, Core, Good
<1>2. IsSeq(r)
  BY <1>1 DEF Waiting, Good
<1>3. Kept(meaning, Recorded(paths), calls)
  BY DEF MeaningInvariant
<1>4. /\ OwedBy(calls) = Owes(h) \cup OwedBy(r)
      /\ ImposedBy(calls) = Imposes(h) \cup ImposedBy(r)
      /\ Orderly(meaning, r) /\ PlainFrame(h)
      /\ \A y \in Owes(h) : Excused(meaning, y, ImposedBy(r))
  BY <1>1, <1>3, Popped DEF Kept
<1>5. ~Resetting
  <2>1. Len(calls) \in DOMAIN calls
    BY <1>1, SeqFacts
  <2>2. PlainFrame(calls[Len(calls)])
    BY <1>3, <2>1 DEF Kept, Orderly
  <2>3. QED
    BY <2>2 DEF Resetting, PlainFrame
<1>6. h.op # "reset"
  BY <1>4 DEF PlainFrame
<1>7. QED
  BY <1>1, <1>2, <1>3, <1>4, <1>5, <1>6 DEF Kept

(* Only the calls change                                                   *)
LEMMA CallsMeaning ==
  ASSUME MeaningInvariant, Core', UNCHANGED <<paths, undefined, meaning>>,
         meaning \subseteq Recorded(paths) \cup OwedBy(calls'),
         \A y \in Recorded(paths) : Excused(meaning, y, ImposedBy(calls')),
         Orderly(meaning, calls')
  PROVE  MeaningInvariant'
<1>1. Recorded(paths') = Recorded(paths)
  BY DEF Recorded
<1>2. Kept(meaning, Recorded(paths), calls')
  BY DEF MeaningInvariant, Kept
<1>3. Kept(meaning', Recorded(paths'), calls')
  BY <1>1, <1>2
<1>4. QED
  BY <1>3 DEF MeaningInvariant

LEMMA AddMeaning ==
  ASSUME MeaningInvariant, Add, Core'
  PROVE  MeaningInvariant'
<1> DEFINE h == Head(calls)
           e == h.e
           parts == Parts(e)
           front == [i \in DOMAIN parts |-> Adds2(parts[i])]
           r == Tail(calls)
           s == front \o r
<1>1. /\ At("add") /\ UNCHANGED <<paths, undefined, meaning>> /\ calls' = s
  BY DEF Add, sets
<1>2. /\ h.op = "add" /\ FrameOk(h, starts, ends, DOMAIN paths)
      /\ IsSeq(r) /\ Orderly(meaning, r) /\ PlainFrame(h)
      /\ meaning \subseteq Recorded(paths) \cup Owes(h) \cup OwedBy(r)
      /\ \A y \in Recorded(paths) : Excused(meaning, y, Imposes(h) \cup ImposedBy(r))
      /\ \A y \in Owes(h) : Excused(meaning, y, ImposedBy(r))
  BY <1>1, InCall
<1>3. ArePartsOf(parts, e)
  BY <1>2, PartsAre DEF FrameOk
<1>4. Len(parts) \in Nat /\ DOMAIN parts = 1 .. Len(parts)
  BY <1>3, SeqFacts DEF ArePartsOf
<1>5. Owes(h) = PartElements(e) /\ Imposes(h) = PartElements(e)
  BY <1>2 DEF Owes, Imposes
<1>6. \A i \in DOMAIN parts : Plain(parts[i])
  BY <1>2 DEF PlainFrame
<1> HIDE DEF h, e, r, parts
<1>7. IsSeq(front) /\ DOMAIN front = DOMAIN parts
  <2>1. front = [i \in 1 .. Len(parts) |-> front[i]]
    BY <1>4
  <2> HIDE DEF front
  <2>2. QED
    BY <1>4, <2>1, BuiltSeq DEF front
<1>8. \A i \in DOMAIN front : front[i].op = "add2" /\ front[i].e = parts[i]
  BY <1>7 DEF Adds2
<1> HIDE DEF front
<1>9. \A i \in DOMAIN front :
        /\ PlainFrame(front[i])
        /\ Owes(front[i]) = Elements(parts[i]) /\ Imposes(front[i]) = Elements(parts[i])
  BY <1>6, <1>7, <1>8 DEF PlainFrame, Owes, Imposes
<1>10. PartElements(e) = UNION {Elements(parts[i]) : i \in DOMAIN parts}
  BY DEF PartElements, Range, parts
<1>11. OwedBy(front) = PartElements(e) /\ ImposedBy(front) = PartElements(e)
  <2>1. OwedBy(front) = UNION {Elements(parts[i]) : i \in DOMAIN parts}
    BY <1>7, <1>9 DEF OwedBy
  <2>2. ImposedBy(front) = UNION {Elements(parts[i]) : i \in DOMAIN parts}
    BY <1>7, <1>9 DEF ImposedBy
  <2>3. QED
    BY <1>10, <2>1, <2>2
<1>12. \A j \in DOMAIN front :
         PlainFrame(front[j]) /\ \A y \in Owes(front[j]) : Excused(meaning, y, ImposedBy(r))
  BY <1>2, <1>5, <1>7, <1>9, <1>10
<1>13. /\ OwedBy(s) = OwedBy(front) \cup OwedBy(r)
       /\ ImposedBy(s) = ImposedBy(front) \cup ImposedBy(r)
       /\ Orderly(meaning, s)
  BY <1>2, <1>7, <1>12, Pushed
<1> HIDE DEF s
<1>14. QED
  BY <1>1, <1>2, <1>5, <1>11, <1>13, CallsMeaning

LEMMA AddOtherMeaning ==
  ASSUME MeaningInvariant, AddOther, Core'
  PROVE  MeaningInvariant'
<1> DEFINE h == Head(calls)
           f == Records(h.e)
           r == Tail(calls)
           s == <<f>> \o r
<1>1. /\ At("add2") /\ UNCHANGED <<paths, undefined, meaning>> /\ calls' = s
      /\ h.e.kind \in {"false", "group"}
  BY DEF AddOther, sets
<1>2. /\ h.op = "add2" /\ IsSeq(r) /\ Orderly(meaning, r) /\ PlainFrame(h)
      /\ meaning \subseteq Recorded(paths) \cup Owes(h) \cup OwedBy(r)
      /\ \A y \in Recorded(paths) : Excused(meaning, y, Imposes(h) \cup ImposedBy(r))
      /\ \A y \in Owes(h) : Excused(meaning, y, ImposedBy(r))
  BY <1>1, InCall
<1>3. f.op = "record" /\ f.e = h.e
  BY DEF Records
<1> HIDE DEF f, r, h
<1>4. /\ Owes(h) = Elements(h.e) /\ Imposes(h) = Elements(h.e) /\ Plain(h.e)
      /\ Owes(f) = Elements(h.e) /\ Imposes(f) = {} /\ PlainFrame(f)
  BY <1>2, <1>3 DEF Owes, Imposes, PlainFrame
<1>5. \A z \in Elements(h.e) : \A y : ~Redefines(z, y)
  <2>1. \A z \in Elements(h.e) : z.kind \in {"false", "group"}
    BY <1>1, <1>4, InElements DEF Plain, Alike
  <2>2. QED
    BY <2>1 DEF Redefines
<1>6. \A y \in Recorded(paths) : Excused(meaning, y, ImposedBy(r))
  BY <1>2, <1>4, <1>5 DEF Excused
<1>7. /\ OwedBy(s) = Owes(f) \cup OwedBy(r)
      /\ ImposedBy(s) = Imposes(f) \cup ImposedBy(r)
      /\ Orderly(meaning, s)
  BY <1>2, <1>4, PushedOne
<1> HIDE DEF s
<1>8. QED
  BY <1>1, <1>2, <1>4, <1>6, <1>7, CallsMeaning

LEMMA EachAddsMeaning ==
  ASSUME MeaningInvariant, NEW x, EachAdds(x), Core'
  PROVE  MeaningInvariant'
<1> DEFINE h == Head(calls)
           f == Adds(x)
           g == [h EXCEPT !.todo = @ \ {x}]
           r == Tail(calls)
           s == <<f, g>> \o r
<1>1. /\ At("each") /\ x \in h.todo /\ UNCHANGED <<paths, undefined, meaning>>
      /\ calls' = s
  BY DEF EachAdds, sets
<1>2. /\ h.op = "each" /\ FrameOk(h, starts, ends, DOMAIN paths)
      /\ IsSeq(r) /\ Orderly(meaning, r) /\ PlainFrame(h)
      /\ meaning \subseteq Recorded(paths) \cup Owes(h) \cup OwedBy(r)
      /\ \A y \in Recorded(paths) : Excused(meaning, y, Imposes(h) \cup ImposedBy(r))
      /\ \A y \in Owes(h) : Excused(meaning, y, ImposedBy(r))
  BY <1>1, InCall
<1>3. h = [op |-> "each", todo |-> h.todo, reset |-> h.reset]
  BY <1>2 DEF FrameOk, Each
<1>4. g.op = "each" /\ g.todo = h.todo \ {x} /\ g.reset = h.reset
  BY <1>3
<1>5. f.op = "add" /\ f.e = x
  BY DEF Adds
<1> HIDE DEF f, g, h, r
<1>6. Plain(x) /\ h.reset = None /\ \A e \in h.todo : Plain(e)
  BY <1>1, <1>2 DEF PlainFrame
<1>7. Parts(x) = <<x>> /\ PartElements(x) = Elements(x)
  BY <1>6, PlainParts
<1>8. PlainFrame(f)
  <2>1. DOMAIN <<x>> = {1} /\ <<x>>[1] = x
    OBVIOUS
  <2>2. QED
    BY <1>5, <1>6, <1>7, <2>1 DEF PlainFrame
<1>9. PlainFrame(g)
  BY <1>4, <1>6 DEF PlainFrame
<1>10. /\ Owes(f) = Elements(x) /\ Imposes(f) = Elements(x)
       /\ Owes(g) = UNION {Elements(e) : e \in h.todo \ {x}} /\ Imposes(g) = Owes(g)
       /\ Owes(h) = UNION {Elements(e) : e \in h.todo} /\ Imposes(h) = Owes(h)
  BY <1>2, <1>4, <1>5, <1>7 DEF Owes, Imposes
<1>11. Owes(f) \cup Owes(g) = Owes(h)
  BY <1>1, <1>10
<1>12. /\ OwedBy(s) = Owes(f) \cup Owes(g) \cup OwedBy(r)
       /\ ImposedBy(s) = Imposes(f) \cup Imposes(g) \cup ImposedBy(r)
       /\ Orderly(meaning, s)
  <2>1. \A y \in Owes(f) \cup Owes(g) : Excused(meaning, y, ImposedBy(r))
    BY <1>2, <1>11
  <2>2. IsSeq(r) /\ Orderly(meaning, r)
    BY <1>2
  <2>3. QED
    BY <1>8, <1>9, <2>1, <2>2, PushedTwo
<1>13. OwedBy(s) = Owes(h) \cup OwedBy(r) /\ ImposedBy(s) = Imposes(h) \cup ImposedBy(r)
  BY <1>10, <1>11, <1>12
<1> HIDE DEF s
<1>14. QED
  BY <1>1, <1>2, <1>12, <1>13, CallsMeaning

LEMMA EndsMeaning ==
  ASSUME MeaningInvariant, EachEnds \/ MergeEnds, Core'
  PROVE  MeaningInvariant'
<1> DEFINE h == Head(calls)
           r == Tail(calls)
<1>1. /\ At("merge") \/ (At("each") /\ h.todo = {})
      /\ UNCHANGED <<paths, undefined, meaning>> /\ calls' = r
  BY DEF EachEnds, MergeEnds, sets
<1>2. /\ h.op = "merge" \/ (h.op = "each" /\ h.todo = {})
      /\ IsSeq(r) /\ Orderly(meaning, r)
      /\ meaning \subseteq Recorded(paths) \cup Owes(h) \cup OwedBy(r)
      /\ \A y \in Recorded(paths) : Excused(meaning, y, Imposes(h) \cup ImposedBy(r))
  <2>1. CASE At("merge")
    BY <2>1, InCall
  <2>2. CASE At("each") /\ h.todo = {}
    BY <2>2, InCall
  <2>3. QED
    BY <1>1, <2>1, <2>2
<1>3. Owes(h) = {} /\ Imposes(h) = {}
  BY <1>2 DEF Owes, Imposes
<1> HIDE DEF h, r
<1>4. QED
  BY <1>1, <1>2, <1>3, CallsMeaning

LEMMA RecordMeaning ==
  ASSUME MeaningInvariant, Record, Core'
  PROVE  MeaningInvariant'
<1> DEFINE h == Head(calls)
           e == h.e
           used == DOMAIN paths \cup UNION {index[k] : k \in DOMAIN index}
           i == CHOOSE n \in 1 .. MaxPaths : n \notin used
           r == Tail(calls)
           f == Merges(i)
           s == <<f>> \o r
<1>1. /\ At("record") /\ ~(1 .. MaxPaths \subseteq used) /\ UNCHANGED <<undefined, meaning>>
      /\ paths' = [n \in DOMAIN paths \cup {i} |-> IF n = i THEN e ELSE paths[n]]
      /\ \E ids : calls' = <<Merges(i)>> \o LoopWith(Tail(calls), ids)
  BY DEF Record
<1>2. /\ h.op = "record" /\ IsSeq(r) /\ Orderly(meaning, r) /\ PlainFrame(h)
      /\ meaning \subseteq Recorded(paths) \cup Owes(h) \cup OwedBy(r)
      /\ \A y \in Recorded(paths) : Excused(meaning, y, Imposes(h) \cup ImposedBy(r))
      /\ \A y \in Owes(h) : Excused(meaning, y, ImposedBy(r))
      /\ ~Resetting
  BY <1>1, InCall
<1>3. calls' = s
  BY <1>1, <1>2 DEF LoopWith
<1>4. i \notin DOMAIN paths
  BY <1>1
<1>5. f.op = "merge"
  BY DEF Merges
<1> HIDE DEF i, used, f, h, r
<1>6. /\ Owes(h) = Elements(e) /\ Imposes(h) = {} /\ Plain(e)
      /\ Owes(f) = {} /\ Imposes(f) = {} /\ PlainFrame(f)
  BY <1>2, <1>5 DEF Owes, Imposes, PlainFrame
<1>7. /\ OwedBy(s) = Owes(f) \cup OwedBy(r)
      /\ ImposedBy(s) = Imposes(f) \cup ImposedBy(r)
      /\ Orderly(meaning, s)
  BY <1>2, <1>6, PushedOne
<1> HIDE DEF e, s
<1>8. /\ DOMAIN paths' = DOMAIN paths \cup {i} /\ paths'[i] = e
      /\ \A n \in DOMAIN paths : paths'[n] = paths[n]
  BY <1>1, <1>4
<1>9. Recorded(paths') = Recorded(paths) \cup Elements(e)
  BY <1>8 DEF Recorded
<1>10. \A n \in DOMAIN paths' : Plain(paths'[n])
  BY <1>6, <1>8 DEF MeaningInvariant
<1>11. \A y \in Recorded(paths') : Excused(meaning, y, ImposedBy(s))
  BY <1>2, <1>6, <1>7, <1>9 DEF e
<1>12. meaning \subseteq Recorded(paths') \cup OwedBy(s)
  BY <1>2, <1>6, <1>7, <1>9
<1>13. Kept(meaning, Recorded(paths'), s)
  BY <1>7, <1>11, <1>12 DEF MeaningInvariant, Kept
<1>14. QED
  BY <1>1, <1>3, <1>10, <1>13 DEF MeaningInvariant

------------------------------------------------------------------------------
(* Without thrus the maps from first points hold what there is to find     *)
LEMMA NetsAreAlone ==
  ASSUME PointsOnly
  PROVE  NetsAlone
<1>1. Len(<<>>) = 0
  OBVIOUS
<1>2. QED
  BY <1>1 DEF PointsOnly, NetsAlone

LEMMA MatchingComplete ==
  ASSUME Indexed(index, paths), \A i \in DOMAIN paths : Plain(paths[i]) /\ Sound(paths[i]),
         NEW e, Plain(e), Sound(e), NEW i \in DOMAIN paths,
         Overrides(paths[i], e), Intersects(paths[i], e)
  PROVE  i \in Matching(e)
<1> DEFINE p == paths[i]
<1>1. e.thrus = <<>> /\ p.thrus = <<>>
  BY DEF Plain
<1>2. \E k \in FirstKeys(e) : k \in RecordKeys(p)
  <2>1. CASE e.from.objs # {}
    <3>1. PICK o \in p.from.objs : o \in e.from.objs
      BY <2>1 DEF Intersects, IntersectsPts, HasObjects
    <3>2. <<"from", o>> \in FirstKeys(e) /\ <<"from", o>> \in RecordKeys(p)
      BY <2>1, <3>1 DEF FirstKeys, RecordKeys, Keys, HasObjects
    <3>3. QED
      BY <3>2
  <2>2. CASE e.from.objs = {}
    <3>1. p.from.objs = {} /\ e.to.objs # {}
      BY <1>1, <2>2 DEF Intersects, IntersectsPts, HasObjects, Sound, IsException
    <3>2. PICK o \in p.to.objs : o \in e.to.objs
      BY <3>1 DEF Intersects, IntersectsPts, HasObjects
    <3>3. <<"to", o>> \in FirstKeys(e) /\ <<"to", o>> \in RecordKeys(p)
      BY <1>1, <2>2, <3>1, <3>2 DEF FirstKeys, RecordKeys, Keys, HasObjects
    <3>4. QED
      BY <3>3
  <2>3. QED
    BY <2>1, <2>2
<1>3. PICK k \in FirstKeys(e) : k \in RecordKeys(p)
  BY <1>2
<1>4. k \in DOMAIN index /\ i \in index[k]
  BY <1>3 DEF Indexed
<1>5. i \in Found(k)
  BY <1>4 DEF Found
<1>6. QED
  BY <1>3, <1>5 DEF Matching

LEMMA AddOverridingMeaning ==
  ASSUME PointsOnly, MeaningInvariant, AddOverriding, undefined' \/ Core'
  PROVE  MeaningInvariant'
<1> DEFINE h == Head(calls)
           e == h.e
           D == Matching(e)
           X == UNION {Excluding(paths[i], e) : i \in D}
           f == Each(X, None)
           g == Records(e)
           r == Tail(calls)
           s == <<f, g>> \o r
<1>1. At("add2") /\ e.kind \in {"multi", "delay"}
  BY DEF AddOverriding
<1>2. /\ h.op = "add2" /\ FrameOk(h, starts, ends, DOMAIN paths)
      /\ IsSeq(r) /\ Orderly(meaning, r) /\ PlainFrame(h)
      /\ meaning \subseteq Recorded(paths) \cup Owes(h) \cup OwedBy(r)
      /\ \A y \in Recorded(paths) : Excused(meaning, y, Imposes(h) \cup ImposedBy(r))
      /\ \A y \in Owes(h) : Excused(meaning, y, ImposedBy(r))
      /\ ~Resetting
  BY <1>1, InCall
<1>3. Plain(e) /\ Sound(e)
  BY <1>2 DEF PlainFrame, FrameOk
<1>4. ~NetsMissing(e) /\ ~Loses(D)
  BY <1>2, <1>3 DEF NetsMissing, Loses, Plain
<1>5. /\ Unrecord(D) /\ UNCHANGED <<undefined, meaning>>
      /\ calls' = <<f, g>> \o LoopWithout(Tail(calls), D)
  BY <1>4 DEF AddOverriding
<1>6. calls' = s
  BY <1>2, <1>5 DEF LoopWithout
<1>7. Core' /\ ~undefined'
  BY <1>5 DEF MeaningInvariant
<1>8. /\ \A i \in DOMAIN paths : Plain(paths[i]) /\ Sound(paths[i])
      /\ Indexed(index, paths)
  BY NetsAreAlone DEF MeaningInvariant, Core
<1>9. \A i \in D : i \in DOMAIN paths /\ Overrides(paths[i], e) /\ Intersects(paths[i], e)
  BY DEF Matching
<1>10. \A i \in DOMAIN paths : Overrides(paths[i], e) /\ Intersects(paths[i], e) => i \in D
  BY <1>3, <1>8, MatchingComplete
<1>11. /\ DOMAIN paths' = DOMAIN paths \ D
       /\ \A i \in DOMAIN paths' : paths'[i] = paths[i]
  BY <1>5 DEF Unrecord
<1>12. /\ f.op = "each" /\ f.todo = X /\ f.reset = None
       /\ g.op = "record" /\ g.e = e
  BY DEF Each, Records
<1> DEFINE E == Elements(e)
           L == UNION {Elements(x) : x \in X}
           R == Recorded(paths)
           Q == Recorded(paths')
           I == ImposedBy(r)
<1>13. /\ Owes(h) = E /\ Imposes(h) = E
       /\ Owes(f) = L /\ Imposes(f) = L /\ Owes(g) = E /\ Imposes(g) = {}
  BY <1>2, <1>12 DEF Owes, Imposes
(* What is broken off is what the exceptions found stand for, but for what *)
(* e has the points of                                                     *)
<1>14. /\ \A x \in X : Plain(x)
       /\ \A y : y \in L <=> \E i \in D : y \in Elements(paths[i]) /\ ~Within(y, e)
  <2>1. ASSUME NEW i \in D
        PROVE  /\ \A x \in Excluding(paths[i], e) : Plain(x)
               /\ \A y : y \in UNION {Elements(x) : x \in Excluding(paths[i], e)}
                           <=> y \in Elements(paths[i]) /\ ~Within(y, e)
    BY <1>3, <1>8, <1>9, ExcludingExact
  <2>2. \A x : x \in X <=> \E i \in D : x \in Excluding(paths[i], e)
    OBVIOUS
  <2>3. \A y : y \in L <=> \E i \in D : y \in UNION {Elements(x) : x \in Excluding(paths[i], e)}
    BY <2>2
  <2>4. QED
    BY <2>1, <2>2, <2>3
<1>15. \A i \in DOMAIN paths : \A y \in Elements(paths[i]) : \A z \in E :
         Redefines(z, y) => i \in D /\ Within(y, e)
  BY <1>3, <1>8, <1>10, RedefinedWithin DEF Plain
<1>16. \A i \in D : \A y \in Elements(paths[i]) :
         Within(y, e) => \E z \in E : Redefines(z, y)
  BY <1>1, <1>3, <1>8, <1>9, WithinRedefined DEF Plain
<1>17. PlainFrame(f) /\ PlainFrame(g)
  BY <1>3, <1>12, <1>14 DEF PlainFrame
<1> HIDE DEF D, X, f, g, h, r
<1>18. \A y : y \in R <=> \E i \in DOMAIN paths : y \in Elements(paths[i])
  BY DEF Recorded
<1>19. \A y : y \in Q <=> \E i \in DOMAIN paths \ D : y \in Elements(paths[i])
  BY <1>11 DEF Recorded
<1>20. \A y \in R : y \in Q \/ y \in L \/ \E z \in E : Redefines(z, y)
  BY <1>14, <1>16, <1>18, <1>19
<1>21. \A y \in R : (y \in Q \/ y \in L) => Excused(meaning, y, I)
  <2>1. SUFFICES ASSUME NEW y \in R, y \in Q \/ y \in L PROVE Excused(meaning, y, I)
    OBVIOUS
  <2>2. \A z \in E : ~Redefines(z, y)
    BY <1>9, <1>14, <1>15, <1>19, <2>1
  <2>3. Excused(meaning, y, E \cup I)
    BY <1>2, <1>13
  <2>4. QED
    BY <2>2, <2>3 DEF Excused
<1>22. L \subseteq R /\ Q \subseteq R
  BY <1>9, <1>14, <1>18, <1>19
<1>23. \A y \in E : Excused(meaning, y, I)
  BY <1>2, <1>13
<1>24. I \subseteq OwedBy(r)
  <2>1. \A c : Imposes(c) \subseteq Owes(c)
    BY DEF Imposes
  <2>2. QED
    BY <2>1 DEF ImposedBy, OwedBy
<1>25. /\ \A y \in meaning : IsElement(y)
       /\ \A y, z \in meaning : Redefines(z, y) => z = y
  BY DEF MeaningInvariant, Kept
<1>26. \A y \in E : IsElement(y)
  BY <1>3, InElements DEF Plain
<1> HIDE DEF E, L, R, Q, I
(* What is meant is still there or owed: what overrides it is meant in its *)
(* place, or will be overridden by what is                                 *)
<1>27. ASSUME NEW y \in meaning PROVE y \in Q \cup L \cup E \cup OwedBy(r)
  <2>1. CASE y \in R /\ y \notin Q \cup L
    <3>1. PICK z \in E : Redefines(z, y)
      BY <1>20, <2>1
    <3>2. CASE z \in meaning
      <4>1. z = y
        BY <1>25, <3>1, <3>2
      <4>2. QED
        BY <3>1, <4>1
    <3>3. CASE z \notin meaning
      <4>1. PICK w \in I : w \in meaning /\ Redefines(w, z)
        BY <1>23, <3>1, <3>3 DEF Excused
      <4>2. Redefines(w, y)
        BY <1>25, <1>26, <3>1, <4>1, Transitive
      <4>3. w = y
        BY <1>25, <4>1, <4>2
      <4>4. QED
        BY <1>24, <4>1, <4>3
    <3>4. QED
      BY <3>2, <3>3
  <2>2. CASE y \notin R
    BY <1>2, <1>13, <2>2 DEF R
  <2>3. QED
    BY <2>1, <2>2
<1>28. /\ OwedBy(s) = L \cup E \cup OwedBy(r)
       /\ ImposedBy(s) = L \cup I
       /\ Orderly(meaning, s)
  <2>1. \A y \in Owes(f) \cup Owes(g) : Excused(meaning, y, ImposedBy(r))
    BY <1>13, <1>21, <1>22, <1>23 DEF I
  <2>2. IsSeq(r) /\ Orderly(meaning, r)
    BY <1>2
  <2>3. /\ OwedBy(s) = Owes(f) \cup Owes(g) \cup OwedBy(r)
        /\ ImposedBy(s) = Imposes(f) \cup Imposes(g) \cup ImposedBy(r)
        /\ Orderly(meaning, s)
    BY <1>17, <2>1, <2>2, PushedTwo
  <2> HIDE DEF s
  <2>4. QED
    BY <1>13, <2>3 DEF I
<1> HIDE DEF s
<1>29. \A y \in Q : Excused(meaning, y, ImposedBy(s))
  BY <1>21, <1>22, <1>28, ExcusedMore
<1>30. Kept(meaning, Q, s)
  BY <1>25, <1>27, <1>28, <1>29 DEF Kept
<1>31. \A i \in DOMAIN paths' : Plain(paths'[i])
  BY <1>8, <1>11
<1>32. QED
  BY <1>5, <1>6, <1>7, <1>30, <1>31 DEF MeaningInvariant, Q

LEMMA MergeMeaning ==
  ASSUME GroupsAlike, MeaningInvariant, Merge, undefined' \/ Core'
  PROVE  MeaningInvariant'
<1>1. At("merge")
  BY DEF Merge
<1> DEFINE h == Head(calls)
           r == Tail(calls)
<1>2. /\ h.op = "merge" /\ FrameOk(h, starts, ends, DOMAIN paths)
      /\ IsSeq(r) /\ Orderly(meaning, r)
      /\ meaning \subseteq Recorded(paths) \cup Owes(h) \cup OwedBy(r)
      /\ \A y \in Recorded(paths) : Excused(meaning, y, Imposes(h) \cup ImposedBy(r))
      /\ ~Resetting
  BY <1>1, InCall
<1>3. PICK i \in {h.id} : \E k \in Earliest(MergePoints(i)) :
        IF Loses({i}) THEN UndefinedBehavior
        ELSE \E m \in Candidates(i, k) : \E into \in {MergeInto(paths[i], k, paths[m])} :
          /\ paths' = [n \in DOMAIN paths \ {i} |-> IF n = m THEN into ELSE paths[n]]
          /\ calls' = <<Merges(m)>> \o LoopWithout(Tail(calls), {i})
          /\ UNCHANGED <<undefined, meaning>>
  BY ZenonT(40) DEF Merge
<1>4. ~Loses({i}) /\ LoopWithout(r, {i}) = r
  BY <1>2 DEF Loses, LoopWithout
<1>5. PICK k \in Earliest(MergePoints(i)) :
        \E m \in Candidates(i, k) : \E into \in {MergeInto(paths[i], k, paths[m])} :
          /\ paths' = [n \in DOMAIN paths \ {i} |-> IF n = m THEN into ELSE paths[n]]
          /\ calls' = <<Merges(m)>> \o r
          /\ UNCHANGED <<undefined, meaning>>
  BY <1>3, <1>4, Zenon
<1>6. PICK m \in Candidates(i, k) : \E into \in {MergeInto(paths[i], k, paths[m])} :
          /\ paths' = [n \in DOMAIN paths \ {i} |-> IF n = m THEN into ELSE paths[n]]
          /\ calls' = <<Merges(m)>> \o r
          /\ UNCHANGED <<undefined, meaning>>
  BY <1>5
<1> DEFINE e == paths[i]
           t == MergeInto(e, k, paths[m])
           f == Merges(m)
           s == <<f>> \o r
<1>7. /\ paths' = [n \in DOMAIN paths \ {i} |-> IF n = m THEN t ELSE paths[n]]
      /\ calls' = s /\ UNCHANGED <<undefined, meaning>>
  BY <1>6
<1>8. Core' /\ ~undefined'
  BY <1>7 DEF MeaningInvariant
<1>9. i \in DOMAIN paths
  BY <1>2 DEF FrameOk
<1>10. /\ m \in DOMAIN paths /\ m # i
       /\ Mergeable(e, paths[m]) /\ MergeablePts(paths[m], e, k)
  BY DEF Candidates
<1>11. k \in DOMAIN Pts(e)
  BY DEF Earliest, MergePoints
<1>12. \A n \in DOMAIN paths : Plain(paths[n]) /\ Sound(paths[n])
  BY DEF MeaningInvariant, Core
<1>13. Plain(t) /\ Elements(t) = Elements(e) \cup Elements(paths[m])
  <2>1. Plain(e) /\ Sound(e) /\ Plain(paths[m]) /\ Sound(paths[m])
    BY <1>9, <1>10, <1>12
  <2> HIDE DEF e
  <2>2. QED
    BY <1>10, <1>11, <2>1, MergeExact
<1>14. f.op = "merge"
  BY DEF Merges
<1> HIDE DEF t, f, h, r
<1>15. /\ DOMAIN paths' = DOMAIN paths \ {i}
       /\ \A n \in DOMAIN paths' : paths'[n] = IF n = m THEN t ELSE paths[n]
  BY <1>7
<1>16. Recorded(paths') = Recorded(paths)
  <2>1. ASSUME NEW y \in Recorded(paths') PROVE y \in Recorded(paths)
    <3>1. PICK n \in DOMAIN paths' : y \in Elements(paths'[n])
      BY DEF Recorded
    <3>2. y \in Elements(paths[n]) \/ y \in Elements(paths[m]) \/ y \in Elements(paths[i])
      BY <1>13, <1>15, <3>1
    <3>3. QED
      BY <1>9, <1>10, <1>15, <3>2 DEF Recorded
  <2>2. ASSUME NEW y \in Recorded(paths) PROVE y \in Recorded(paths')
    <3>1. PICK n \in DOMAIN paths : y \in Elements(paths[n])
      BY DEF Recorded
    <3>2. m \in DOMAIN paths' /\ paths'[m] = t
      BY <1>10, <1>15
    <3>3. CASE n = i \/ n = m
      <4>1. y \in Elements(t)
        BY <1>13, <3>1, <3>3
      <4>2. QED
        BY <3>2, <4>1 DEF Recorded
    <3>4. CASE n # i /\ n # m
      <4>1. n \in DOMAIN paths' /\ paths'[n] = paths[n]
        BY <1>15, <3>4
      <4>2. QED
        BY <3>1, <4>1 DEF Recorded
    <3>5. QED
      BY <3>3, <3>4
  <2>3. QED
    BY <2>1, <2>2
<1>17. /\ Owes(h) = {} /\ Imposes(h) = {}
       /\ Owes(f) = {} /\ Imposes(f) = {} /\ PlainFrame(f)
  BY <1>2, <1>14 DEF Owes, Imposes, PlainFrame
<1>18. /\ OwedBy(s) = Owes(f) \cup OwedBy(r)
       /\ ImposedBy(s) = Imposes(f) \cup ImposedBy(r)
       /\ Orderly(meaning, s)
  BY <1>2, <1>17, PushedOne
<1> HIDE DEF s
<1>19. Kept(meaning, Recorded(paths'), s)
  BY <1>2, <1>16, <1>17, <1>18 DEF MeaningInvariant, Kept
<1>20. \A n \in DOMAIN paths' : Plain(paths'[n])
  BY <1>12, <1>13, <1>15
<1>21. QED
  BY <1>7, <1>8, <1>19, <1>20 DEF MeaningInvariant

------------------------------------------------------------------------------
LEMMA MeaningInit ==
  ASSUME Init
  PROVE  MeaningInvariant
<1>1. /\ paths = [i \in {} |-> None] /\ calls = <<>> /\ ~undefined /\ meaning = {}
  BY DEF Init
<1>2. DOMAIN paths = {}
  BY <1>1
<1>3. Recorded(paths) = {}
  BY <1>2 DEF Recorded
<1>4. Kept(meaning, Recorded(paths), calls)
  BY <1>1, <1>3, NoneOwed DEF Kept
<1>5. QED
  BY <1>1, <1>2, <1>4, InitCore DEF MeaningInvariant

(* Without resets nothing of the loop of resetPath runs                    *)
LEMMA NoResets ==
  ASSUME PointsOnly, MeaningInvariant
  PROVE  /\ \A c \in Commands : ~ResetPath(c)
         /\ \A x : ~EachResets(x)
         /\ ~ResetNext /\ ~ResetEnds
<1>1. \A c \in Commands : ~ResetPath(c)
  BY DEF ResetPath, PointsOnly
<1>2. ASSUME NEW x, EachResets(x) PROVE FALSE
  <2>1. At("each") /\ Head(calls).reset # None
    BY <1>2 DEF EachResets
  <2>2. PlainFrame(Head(calls)) /\ Head(calls).op = "each"
    BY <2>1, InCall
  <2>3. QED
    BY <2>1, <2>2 DEF PlainFrame
<1>3. ~At("reset")
  BY InCall
<1>4. ~ResetNext /\ ~ResetEnds
  BY <1>3 DEF ResetNext, ResetEnds
<1>5. QED
  BY <1>1, <1>2, <1>4

LEMMA MeaningNext ==
  ASSUME PointsOnly, GroupsAlike, MeaningInvariant, [Next]_vars
  PROVE  MeaningInvariant'
<1>1. ~undefined /\ Core
  BY DEF MeaningInvariant
<1>2. undefined' \/ Core'
  BY <1>1, NextCore DEF ExceptionsInvariant
<1>3. CASE UNCHANGED vars
  <2>1. UNCHANGED <<paths, undefined, meaning>> /\ calls' = calls
    BY <1>3 DEF vars, sets
  <2>2. Core'
    BY <1>1, <1>2, <2>1
  <2>3. /\ meaning \subseteq Recorded(paths) \cup OwedBy(calls)
        /\ \A y \in Recorded(paths) : Excused(meaning, y, ImposedBy(calls))
        /\ Orderly(meaning, calls)
    BY DEF MeaningInvariant, Kept
  <2>4. QED
    BY <2>1, <2>2, <2>3, CallsMeaning
<1>4. CASE Ask
  <2>1. PICK c \in Commands : Make(c) \/ DeleteClock(c)
    BY <1>4, NoResets, SMTT(30) DEF Ask
  <2>2. Core'
    BY <1>1, <1>2, <2>1 DEF Make, DeleteClock
  <2>3. QED
    BY <2>1, <2>2, MakeMeaning, DeleteClockMeaning
<1>5. CASE Add
  BY <1>1, <1>2, <1>5, AddMeaning DEF Add
<1>6. CASE AddOther
  BY <1>1, <1>2, <1>6, AddOtherMeaning DEF AddOther
<1>7. CASE AddOverriding
  BY <1>2, <1>7, AddOverridingMeaning
<1>8. CASE Record
  BY <1>1, <1>2, <1>8, RecordMeaning DEF Record
<1>9. CASE Merge
  BY <1>2, <1>9, MergeMeaning
<1>10. CASE MergeEnds \/ EachEnds
  BY <1>1, <1>2, <1>10, EndsMeaning DEF MergeEnds, EachEnds
<1>11. CASE \E x \in (IF At("each") THEN Head(calls).todo ELSE {}) : EachAdds(x) \/ EachResets(x)
  <2>1. PICK x : EachAdds(x)
    BY <1>11, NoResets
  <2>2. Core'
    BY <1>1, <1>2, <2>1 DEF EachAdds
  <2>3. QED
    BY <2>1, <2>2, EachAddsMeaning
<1>12. CASE Next
  BY <1>4, <1>5, <1>6, <1>7, <1>8, <1>9, <1>10, <1>11, <1>12, NoResets DEF Next, Run, Loops
<1>13. QED
  BY <1>3, <1>12

(* Whatever is split, overridden and merged, the exceptions stand for what *)
(* the commands ask for, and no deleted exception is used, for commands    *)
(* that give -from and -to only and no reset (addException,                *)
(* deleteMatchingExceptions, mergeException, deleteExceptionsReferencing). *)
THEOREM MeaningStaysKept ==
  PointsOnly /\ GroupsAlike => (Spec => [](MeaningKept /\ ~undefined))
<1>1. SUFFICES ASSUME PointsOnly, GroupsAlike
               PROVE  Spec => [](MeaningKept /\ ~undefined)
  OBVIOUS
<1>2. Init => MeaningInvariant
  BY MeaningInit
<1>3. MeaningInvariant /\ [Next]_vars => MeaningInvariant'
  BY <1>1, MeaningNext
<1>4. MeaningInvariant => MeaningKept /\ ~undefined
  BY KeptIdle DEF MeaningInvariant, MeaningKept, Recorded
<1>5. QED
  BY <1>2, <1>3, <1>4, PTL DEF Spec
==============================================================================
