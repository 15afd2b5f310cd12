----------------------------- MODULE SlacksProofs -----------------------------
(***************************************************************************)
(* Proofs about Slacks for any vertices, levels, times and queue sizes, any*)
(* number of edits and queries, and any order of the loops of the queries: *)
(* the state has its types, the total negative slack and the worst slack   *)
(* that are returned are those of the slacks the endpoints have, and a     *)
(* required time that changed is known to be invalid.                      *)
(*                                                                         *)
(* First what each function of Search and WorstSlack leaves in the fields  *)
(* of its record, then the inductive invariant IInv: between the queries,  *)
(* every endpoint that is not in invalid_tns_ is counted in tns_slacks_    *)
(* with the slack it has, is in the queue of the WorstSlack if and only if *)
(* that slack is within the threshold, and is not below the worst; during  *)
(* one, those the loop has still to look at are the exceptions.            *)
(***************************************************************************)
EXTENDS Slacks, FiniteSetTheorems, TLAPS

------------------------------------------------------------------------------
(* What the sums over finite sets of the models amount to, for every set.  *)
(* The definitions of the community modules are recursive, and the         *)
(* induction theorems of the library take an operator, which the provers   *)
(* cannot instantiate: the induction here is that a set of subsets of a    *)
(* finite set has a least one.                                             *)

(* A finite set has no infinite descent of subsets: in any set of subsets  *)
(* there is one that none of the others is part of.                        *)
LEMMA LeastSubset ==
  ASSUME NEW S, IsFiniteSet(S), NEW B, B \subseteq SUBSET S, B # {}
  PROVE  \E T \in B : \A U \in B : U \subseteq T => U = T
<1>1. IsWellFoundedOn(StrictSubsetOrdering(S), FiniteSubsetsOf(S))
  BY FS_StrictSubsetOrderingWellFounded
<1>2. FiniteSubsetsOf(S) = SUBSET S
  BY FS_FiniteSubsetsOfFinite
<1>3. \E T \in B : \A U \in B : ~(<<U, T>> \in StrictSubsetOrdering(S))
  BY <1>1, <1>2, WFMin
<1>4. QED
  BY <1>3 DEF StrictSubsetOrdering

(* And one that is part of none of the others.                             *)
LEMMA GreatestSubset ==
  ASSUME NEW S, IsFiniteSet(S), NEW B, B \subseteq SUBSET S, B # {}
  PROVE  \E T \in B : \A U \in B : T \subseteq U => U = T
<1> DEFINE C == {W \in SUBSET S : \E T \in B : W = S \ T}
<1>1. PICK Z \in C : \A W \in C : W \subseteq Z => W = Z
  <2>1. C \subseteq SUBSET S /\ C # {}
    OBVIOUS
  <2> HIDE DEF C
  <2>2. QED
    BY <2>1, LeastSubset
<1>2. PICK T \in B : Z = S \ T
  OBVIOUS
<1>3. ASSUME NEW U \in B, T \subseteq U PROVE U = T
  <2>1. S \ U \in C /\ S \ U \subseteq Z
    BY <1>2, <1>3
  <2>2. S \ U = S \ T
    BY <2>1, <1>1, <1>2
  <2>3. QED
    BY <2>2, <1>3
<1>4. QED
  BY <1>3

------------------------------------------------------------------------------
(* The element a fold takes first, and what it is to be the table of a     *)
(* fold of the function op over the members F of SUBSET S.                 *)
Pick(s) == CHOOSE x \in s : TRUE

FoldStep(op, base, g, s) ==
  IF s = {} THEN base ELSE op[Pick(s)][g[s \ {Pick(s)}]]

FoldTable(op, base, g, F) == \A s \in F : g[s] = FoldStep(op, base, g, s)

Commutes(op, S, V) ==
  \A x, y \in S, v \in V : op[x][op[y][v]] = op[y][op[x][v]]

(* All of SUBSET S, and the values are of V.                               *)
IsFold(op, base, g, S, V) ==
  g \in [SUBSET S -> V] /\ FoldTable(op, base, g, SUBSET S)

LEMMA PickIn == ASSUME NEW s, s # {} PROVE Pick(s) \in s
BY DEF Pick

(* A fold over a finite set has a table.                                   *)
LEMMA FoldTableExists ==
  ASSUME NEW S, IsFiniteSet(S), NEW V, NEW base \in V, NEW op \in [S -> [V -> V]]
  PROVE  \E g \in [SUBSET S -> V] : FoldTable(op, base, g, SUBSET S)
<1> DEFINE Bad == {F \in SUBSET SUBSET S :
                     ~ \E g \in [SUBSET S -> V] : FoldTable(op, base, g, F)}
<1>1. SUFFICES ASSUME Bad # {} PROVE FALSE
  <2>1. SUBSET S \notin Bad
    BY <1>1
  <2>2. QED
    BY <2>1
<1>2. IsFiniteSet(SUBSET S)
  BY FS_SUBSET
<1>3. PICK F \in Bad : \A G \in Bad : G \subseteq F => G = F
  <2>1. Bad \subseteq SUBSET SUBSET S
    OBVIOUS
  <2> HIDE DEF Bad
  <2>2. QED
    BY <1>1, <1>2, <2>1, LeastSubset
<1>4. F \subseteq SUBSET S /\ ~ \E g \in [SUBSET S -> V] : FoldTable(op, base, g, F)
  OBVIOUS
<1>5. F # {}
  <2>1. [s \in SUBSET S |-> base] \in [SUBSET S -> V]
    OBVIOUS
  <2>2. FoldTable(op, base, [s \in SUBSET S |-> base], {})
    BY DEF FoldTable
  <2>3. QED
    BY <1>4, <2>1, <2>2
<1>6. PICK M \in F : \A s \in F : M \subseteq s => s = M
  BY <1>4, <1>5, GreatestSubset
<1>7. PICK g \in [SUBSET S -> V] : FoldTable(op, base, g, F \ {M})
  <2>1. F \ {M} \notin Bad
    <3> HIDE DEF Bad
    <3>1. QED
      BY <1>3, <1>6
  <2>2. F \ {M} \in SUBSET SUBSET S
    BY <1>4
  <2>3. QED
    BY <2>1, <2>2
<1> DEFINE m == FoldStep(op, base, g, M)
           h == [g EXCEPT ![M] = m]
<1>8. M \in SUBSET S
  BY <1>4, <1>6
<1>9. m \in V
  <2>1. CASE M = {}
    BY <2>1 DEF FoldStep
  <2>2. CASE M # {}
    <3>1. Pick(M) \in S /\ M \ {Pick(M)} \in SUBSET S
      BY <1>8, <2>2, PickIn
    <3>2. g[M \ {Pick(M)}] \in V
      BY <3>1
    <3>3. op[Pick(M)][g[M \ {Pick(M)}]] \in V
      BY <3>1, <3>2
    <3>4. QED
      BY <2>2, <3>3 DEF FoldStep
  <2>3. QED
    BY <2>1, <2>2
<1>10. h \in [SUBSET S -> V]
  BY <1>8, <1>9
<1>11. ASSUME NEW s \in F PROVE h[s] = FoldStep(op, base, h, s)
  <2>1. s \in SUBSET S
    BY <1>4
  <2>2. s # {} => /\ Pick(s) \in s
                  /\ s \ {Pick(s)} \in SUBSET S
                  /\ s \ {Pick(s)} # M
    <3>1. SUFFICES ASSUME s # {} PROVE s \ {Pick(s)} # M
      BY <2>1, PickIn
    <3>2. Pick(s) \in s
      BY <3>1, PickIn
    <3>3. QED
      BY <1>6, <3>2
  <2>3. s # {} => h[s \ {Pick(s)}] = g[s \ {Pick(s)}]
    BY <2>2
  <2>4. FoldStep(op, base, h, s) = FoldStep(op, base, g, s)
    BY <2>3 DEF FoldStep
  <2>5. CASE s = M
    BY <2>4, <2>5, <1>8
  <2>6. CASE s # M
    <3>1. g[s] = FoldStep(op, base, g, s)
      BY <2>6, <1>7 DEF FoldTable
    <3>2. h[s] = g[s]
      BY <2>6, <2>1
    <3>3. QED
      BY <3>1, <3>2, <2>4
  <2>7. QED
    BY <2>5, <2>6
<1>12. FoldTable(op, base, h, F)
  BY <1>11 DEF FoldTable
<1>13. QED
  BY <1>4, <1>10, <1>12

(* What holds of the start and is kept by every step holds of the fold: W  *)
(* has, for the elements taken so far, the values there can be then.       *)
LEMMA FoldStays ==
  ASSUME NEW S, IsFiniteSet(S), NEW h, NEW W, h[{}] \in W[{}],
         \A s \in SUBSET S :
           s # {} /\ h[s \ {Pick(s)}] \in W[s \ {Pick(s)}] => h[s] \in W[s]
  PROVE  h[S] \in W[S]
<1> DEFINE Bad == {T \in SUBSET S : h[T] \notin W[T]}
<1>1. SUFFICES ASSUME Bad # {} PROVE FALSE
  <2>1. S \notin Bad
    BY <1>1
  <2>2. QED
    BY <2>1
<1>2. PICK T \in Bad : \A U \in Bad : U \subseteq T => U = T
  <2>1. Bad \subseteq SUBSET S
    OBVIOUS
  <2> HIDE DEF Bad
  <2>2. QED
    BY <1>1, <2>1, LeastSubset
<1>3. T \in SUBSET S /\ h[T] \notin W[T] /\ T # {}
  OBVIOUS
<1>4. Pick(T) \in T
  BY <1>3, PickIn
<1>5. T \ {Pick(T)} \notin Bad
  BY <1>2, <1>4
<1>6. h[T \ {Pick(T)}] \in W[T \ {Pick(T)}]
  BY <1>3, <1>5
<1>7. QED
  BY <1>3, <1>6

(* Two tables of a fold agree wherever both say something.                 *)
LEMMA FoldTablesAgree ==
  ASSUME NEW S, IsFiniteSet(S), NEW op, NEW base, NEW g, NEW h,
         FoldTable(op, base, g, SUBSET S), FoldTable(op, base, h, SUBSET S)
  PROVE  g[S] = h[S]
<1> DEFINE Bad == {T \in SUBSET S : g[T] # h[T]}
<1>1. SUFFICES ASSUME Bad # {} PROVE FALSE
  <2>1. S \notin Bad
    BY <1>1
  <2>2. QED
    BY <2>1
<1>2. PICK T \in Bad : \A U \in Bad : U \subseteq T => U = T
  <2>1. Bad \subseteq SUBSET S
    OBVIOUS
  <2> HIDE DEF Bad
  <2>2. QED
    BY <1>1, <2>1, LeastSubset
<1>3. T \in SUBSET S /\ g[T] # h[T]
  OBVIOUS
<1>4. g[T] = FoldStep(op, base, g, T) /\ h[T] = FoldStep(op, base, h, T)
  BY <1>3 DEF FoldTable
<1>5. T # {}
  BY <1>3, <1>4 DEF FoldStep
<1>6. T \ {Pick(T)} \notin Bad
  BY <1>2, <1>5, PickIn
<1>7. g[T \ {Pick(T)}] = h[T \ {Pick(T)}]
  BY <1>3, <1>6
<1>8. QED
  BY <1>3, <1>4, <1>7 DEF FoldStep

(* When the order does not matter, any element may be taken first.         *)
LEMMA FoldTableRemove ==
  ASSUME NEW S, IsFiniteSet(S), NEW V, NEW base, NEW op, NEW g,
         IsFold(op, base, g, S, V), Commutes(op, S, V)
  PROVE  \A x \in S : g[S] = op[x][g[S \ {x}]]
<1> DEFINE Bad == {T \in SUBSET S : \E x \in T : g[T] # op[x][g[T \ {x}]]}
<1>1. SUFFICES ASSUME Bad # {} PROVE FALSE
  <2>1. S \notin Bad
    BY <1>1
  <2>2. QED
    BY <2>1
<1>2. PICK T \in Bad : \A U \in Bad : U \subseteq T => U = T
  <2>1. Bad \subseteq SUBSET S
    OBVIOUS
  <2> HIDE DEF Bad
  <2>2. QED
    BY <1>1, <2>1, LeastSubset
<1>3. PICK x \in T : g[T] # op[x][g[T \ {x}]]
  OBVIOUS
<1> DEFINE c == Pick(T)
<1>4. T \in SUBSET S /\ c \in T
  BY PickIn
<1> HIDE DEF c
<1>5. g[T] = op[c][g[T \ {c}]]
  BY <1>4 DEF IsFold, FoldTable, FoldStep, c
<1>6. x # c
  BY <1>3, <1>5
<1>7. g[T \ {c}] = op[x][g[(T \ {c}) \ {x}]]
  <2>1. T \ {c} \notin Bad
    BY <1>2, <1>4
  <2>2. T \ {c} \in SUBSET S /\ x \in T \ {c}
    BY <1>4, <1>6
  <2>3. QED
    BY <2>1, <2>2
<1>8. g[T \ {x}] = op[c][g[(T \ {x}) \ {c}]]
  <2>1. T \ {x} \notin Bad
    BY <1>2
  <2>2. T \ {x} \in SUBSET S /\ c \in T \ {x}
    BY <1>4, <1>6
  <2>3. QED
    BY <2>1, <2>2
<1>9. (T \ {c}) \ {x} = (T \ {x}) \ {c} /\ (T \ {c}) \ {x} \in SUBSET S
  BY <1>4
<1>10. op[c][op[x][g[(T \ {c}) \ {x}]]] = op[x][op[c][g[(T \ {c}) \ {x}]]]
  <2>1. g[(T \ {c}) \ {x}] \in V
    BY <1>9 DEF IsFold
  <2>2. QED
    BY <1>4, <2>1 DEF Commutes
<1>11. QED
  BY <1>3, <1>5, <1>7, <1>8, <1>9, <1>10

------------------------------------------------------------------------------
(* The sum of f over S by its table.                                       *)
IsIntOn(f, S) == \A x \in S : f[x] \in Int

Adding(f, S) == [x \in S |-> [v \in Int |-> f[x] + v]]

LEMMA SumByTable ==
  ASSUME NEW S, IsFiniteSet(S), NEW f, IsIntOn(f, S)
  PROVE  \E g \in [SUBSET S -> Int] :
           /\ FoldTable(Adding(f, S), 0, g, SUBSET S)
           /\ SumFunctionOnSet(f, S) = g[S]
<1> DEFINE NextTable(iter, s) == IF s = {} THEN 0
                                 ELSE LET x == Pick(s) IN f[x] + iter[s \ {x}]
           Is(iter) == iter = [s \in SUBSET S |-> NextTable(iter, s)]
<1>1. SumFunctionOnSet(f, S) = (CHOOSE iter : Is(iter))[S]
  BY DEF SumFunctionOnSet, FoldFunctionOnSet, MapThenFoldSet, Pick
<1>2. Adding(f, S) \in [S -> [Int -> Int]]
  BY DEF Adding, IsIntOn
<1>3. PICK g \in [SUBSET S -> Int] : FoldTable(Adding(f, S), 0, g, SUBSET S)
  <2> DEFINE op == Adding(f, S)
  <2>1. op \in [S -> [Int -> Int]] /\ 0 \in Int
    BY <1>2
  <2> HIDE DEF op
  <2>2. \E g \in [SUBSET S -> Int] : FoldTable(op, 0, g, SUBSET S)
    BY <2>1, FoldTableExists, Zenon
  <2>3. QED
    BY <2>2 DEF op
<1>4. ASSUME NEW s \in SUBSET S PROVE NextTable(g, s) = g[s]
  <2>1. g[s] = FoldStep(Adding(f, S), 0, g, s)
    BY <1>3 DEF FoldTable
  <2>2. CASE s = {}
    BY <2>1, <2>2 DEF FoldStep
  <2>3. CASE s # {}
    <3>1. Pick(s) \in S /\ s \ {Pick(s)} \in SUBSET S
      BY <2>3, PickIn
    <3>2. g[s \ {Pick(s)}] \in Int
      BY <3>1
    <3>3. QED
      BY <2>1, <2>3, <3>1, <3>2 DEF FoldStep, Adding
  <2>4. QED
    BY <2>2, <2>3
<1>5. Is(g)
  BY <1>4
<1> DEFINE h == CHOOSE iter : Is(iter)
<1>6. Is(h)
  <2> HIDE DEF Is
  <2>1. QED
    BY <1>5
<1> HIDE DEF h
<1>7. h \in [SUBSET S -> Int]
  <2> DEFINE Bad == {T \in SUBSET S : h[T] \notin Int}
  <2>1. SUFFICES ASSUME Bad # {} PROVE FALSE
    BY <1>6
  <2>2. PICK T \in Bad : \A U \in Bad : U \subseteq T => U = T
    <3>1. Bad \subseteq SUBSET S
      OBVIOUS
    <3> HIDE DEF Bad
    <3>2. QED
      BY <2>1, <3>1, LeastSubset
  <2>3. T \in SUBSET S /\ h[T] \notin Int
    OBVIOUS
  <2>4. h[T] = NextTable(h, T)
    BY <1>6, <2>3
  <2>5. T # {}
    BY <2>3, <2>4
  <2>6. Pick(T) \in T /\ T \ {Pick(T)} \notin Bad
    BY <2>2, <2>5, PickIn
  <2>7. h[T \ {Pick(T)}] \in Int /\ f[Pick(T)] \in Int
    BY <2>3, <2>6 DEF IsIntOn
  <2>8. QED
    BY <2>3, <2>4, <2>5, <2>7
<1>8. FoldTable(Adding(f, S), 0, h, SUBSET S)
  <2>1. SUFFICES ASSUME NEW s \in SUBSET S
                 PROVE  h[s] = FoldStep(Adding(f, S), 0, h, s)
    BY DEF FoldTable
  <2>2. h[s] = NextTable(h, s)
    BY <1>6
  <2>3. CASE s = {}
    BY <2>2, <2>3 DEF FoldStep
  <2>4. CASE s # {}
    <3>1. Pick(s) \in S /\ s \ {Pick(s)} \in SUBSET S
      BY <2>4, PickIn
    <3>2. h[s \ {Pick(s)}] \in Int
      BY <3>1, <1>7
    <3>3. QED
      BY <2>2, <2>4, <3>1, <3>2 DEF FoldStep, Adding
  <2>5. QED
    BY <2>3, <2>4
<1>9. QED
  BY <1>1, <1>7, <1>8 DEF h

LEMMA SumType ==
  ASSUME NEW S, IsFiniteSet(S), NEW f, IsIntOn(f, S)
  PROVE  SumFunctionOnSet(f, S) \in Int
<1>1. PICK g \in [SUBSET S -> Int] : SumFunctionOnSet(f, S) = g[S]
  BY SumByTable
<1>2. QED
  BY <1>1

LEMMA SumEmpty ==
  ASSUME NEW f
  PROVE  SumFunctionOnSet(f, {}) = 0
<1>1. IsFiniteSet({}) /\ IsIntOn(f, {})
  BY FS_EmptySet DEF IsIntOn
<1>2. PICK g \in [SUBSET {} -> Int] : /\ FoldTable(Adding(f, {}), 0, g, SUBSET {})
                                      /\ SumFunctionOnSet(f, {}) = g[{}]
  BY <1>1, SumByTable
<1>3. QED
  BY <1>2 DEF FoldTable, FoldStep

(* The sum over S is that over the rest of S and the value of any element; *)
(* and what f is elsewhere does not matter.                                *)
LEMMA SumRemoveOther ==
  ASSUME NEW S, IsFiniteSet(S), NEW f, IsIntOn(f, S), NEW x \in S,
         NEW h, \A y \in S \ {x} : h[y] = f[y]
  PROVE  SumFunctionOnSet(f, S) = f[x] + SumFunctionOnSet(h, S \ {x})
<1> DEFINE R == S \ {x}
<1>1. IsFiniteSet(R) /\ IsIntOn(h, R)
  BY FS_RemoveElement DEF IsIntOn
<1>2. PICK g \in [SUBSET S -> Int] : /\ FoldTable(Adding(f, S), 0, g, SUBSET S)
                                     /\ SumFunctionOnSet(f, S) = g[S]
  BY SumByTable
<1>3. PICK k \in [SUBSET R -> Int] : /\ FoldTable(Adding(h, R), 0, k, SUBSET R)
                                     /\ SumFunctionOnSet(h, R) = k[R]
  BY <1>1, SumByTable
<1>4. Commutes(Adding(f, S), S, Int)
  BY DEF Adding, IsIntOn, Commutes
<1>5. g[S] = Adding(f, S)[x][g[R]]
  <2>1. IsFold(Adding(f, S), 0, g, S, Int)
    BY <1>2 DEF IsFold
  <2>2. \A y \in S : g[S] = Adding(f, S)[y][g[S \ {y}]]
    BY <2>1, <1>4, FoldTableRemove
  <2>3. QED
    BY <2>2
<1>6. g[S] = f[x] + g[R]
  <2>1. R \in SUBSET S /\ g[R] \in Int
    OBVIOUS
  <2>2. QED
    BY <1>5, <2>1 DEF Adding
<1>7. FoldTable(Adding(h, R), 0, g, SUBSET R)
  <2>1. SUFFICES ASSUME NEW s \in SUBSET R
                 PROVE  g[s] = FoldStep(Adding(h, R), 0, g, s)
    BY DEF FoldTable
  <2>2. s \in SUBSET S /\ g[s] = FoldStep(Adding(f, S), 0, g, s)
    BY <1>2 DEF FoldTable
  <2>3. CASE s = {}
    BY <2>2, <2>3 DEF FoldStep
  <2>4. CASE s # {}
    <3>1. Pick(s) \in R /\ Pick(s) \in S /\ s \ {Pick(s)} \in SUBSET S
      BY <2>4, PickIn
    <3>2. g[s \ {Pick(s)}] \in Int /\ h[Pick(s)] = f[Pick(s)]
      BY <3>1
    <3>3. QED
      BY <2>2, <2>4, <3>1, <3>2 DEF FoldStep, Adding
  <2>5. QED
    BY <2>3, <2>4
<1>8. g[R] = k[R]
  <2> HIDE DEF R
  <2>1. QED
    BY <1>1, <1>3, <1>7, FoldTablesAgree
<1>9. QED
  BY <1>2, <1>3, <1>6, <1>8

LEMMA SumRemove ==
  ASSUME NEW S, IsFiniteSet(S), NEW f, IsIntOn(f, S), NEW x \in S
  PROVE  SumFunctionOnSet(f, S) = f[x] + SumFunctionOnSet(f, S \ {x})
BY SumRemoveOther

LEMMA SumEqual ==
  ASSUME NEW S, IsFiniteSet(S), NEW f, IsIntOn(f, S),
         NEW h, \A x \in S : h[x] = f[x]
  PROVE  SumFunctionOnSet(h, S) = SumFunctionOnSet(f, S)
<1>1. CASE S = {}
  BY <1>1, SumEmpty
<1>2. CASE S # {}
  <2>1. PICK x \in S : TRUE
    BY <1>2
  <2>2. IsIntOn(h, S)
    BY DEF IsIntOn
  <2>3. SumFunctionOnSet(f, S) = f[x] + SumFunctionOnSet(f, S \ {x})
    BY SumRemove
  <2>4. SumFunctionOnSet(h, S) = h[x] + SumFunctionOnSet(f, S \ {x})
    BY <2>2, SumRemoveOther
  <2>5. QED
    BY <2>3, <2>4
<1>3. QED
  BY <1>1, <1>2

(* A sum splits along any partition in two.                                *)
THEOREM SumSplit ==
  ASSUME NEW S, IsFiniteSet(S), NEW f, IsIntOn(f, S), NEW T \in SUBSET S
  PROVE  SumFunctionOnSet(f, S)
           = SumFunctionOnSet(f, T) + SumFunctionOnSet(f, S \ T)
<1> DEFINE Bad == {U \in SUBSET T : SumFunctionOnSet(f, S)
                     # SumFunctionOnSet(f, U) + SumFunctionOnSet(f, S \ U)}
<1>1. \A U \in SUBSET S : /\ IsFiniteSet(U) /\ IsIntOn(f, U)
                          /\ SumFunctionOnSet(f, U) \in Int
  <2>1. SUFFICES ASSUME NEW U \in SUBSET S
                 PROVE  IsFiniteSet(U) /\ IsIntOn(f, U)
    BY SumType
  <2>2. QED
    BY FS_Subset DEF IsIntOn
<1>2. SUFFICES ASSUME Bad # {} PROVE FALSE
  <2>1. T \notin Bad
    BY <1>2
  <2>2. QED
    BY <2>1
<1>3. PICK U \in Bad : \A W \in Bad : W \subseteq U => W = U
  <2>1. Bad \subseteq SUBSET S
    OBVIOUS
  <2> HIDE DEF Bad
  <2>2. QED
    BY <1>2, <2>1, LeastSubset
<1>4. /\ U \in SUBSET T /\ U \in SUBSET S
      /\ SumFunctionOnSet(f, S) # SumFunctionOnSet(f, U) + SumFunctionOnSet(f, S \ U)
  OBVIOUS
<1>5. U # {}
  <2>1. SUFFICES ASSUME U = {} PROVE FALSE
    OBVIOUS
  <2>2. S \ U = S /\ S \in SUBSET S
    BY <2>1
  <2>3. QED
    BY <1>1, <1>4, <2>1, <2>2, SumEmpty
<1>6. PICK x \in U : TRUE
  BY <1>5
<1> DEFINE W == U \ {x}
<1>7. W \in SUBSET T /\ W \in SUBSET S /\ W \notin Bad
  <2> HIDE DEF Bad
  <2>1. QED
    BY <1>3, <1>4, <1>6
<1>8. SumFunctionOnSet(f, S) = SumFunctionOnSet(f, W) + SumFunctionOnSet(f, S \ W)
  BY <1>7
<1>9. SumFunctionOnSet(f, U) = f[x] + SumFunctionOnSet(f, W)
  BY <1>1, <1>4, SumRemove
<1>10. SumFunctionOnSet(f, S \ W) = f[x] + SumFunctionOnSet(f, S \ U)
  <2>1. x \in S \ W /\ S \ W \in SUBSET S /\ (S \ W) \ {x} = S \ U
    BY <1>4, <1>6
  <2> HIDE DEF W
  <2>2. SumFunctionOnSet(f, S \ W)
          = f[x] + SumFunctionOnSet(f, (S \ W) \ {x})
    BY <1>1, <2>1, SumRemove
  <2>3. QED
    BY <2>1, <2>2
<1>11. /\ f[x] \in Int /\ SumFunctionOnSet(f, W) \in Int
       /\ SumFunctionOnSet(f, S \ U) \in Int
  <2>1. S \ U \in SUBSET S
    OBVIOUS
  <2>2. QED
    BY <1>1, <1>4, <1>6, <1>7, <2>1 DEF IsIntOn
<1> HIDE DEF W, Bad
<1>12. QED
  BY <1>4, <1>8, <1>9, <1>10, <1>11

------------------------------------------------------------------------------
(* A Search has the fields it starts with.                                 *)
Shape(s) ==
  s = [arrivals |-> s.arrivals, requireds |-> s.requireds,
       arr |-> s.arr, req |-> s.req,
       invalidArrivals |-> s.invalidArrivals,
       invalidRequireds |-> s.invalidRequireds,
       reqQueue |-> s.reqQueue, invalidTns |-> s.invalidTns,
       endpointsFound |-> s.endpointsFound, endpoints |-> s.endpoints,
       invalidEndpoints |-> s.invalidEndpoints,
       tnsExists |-> s.tnsExists, tns |-> s.tns, tnsSlacks |-> s.tnsSlacks]

WorstShape(w) ==
  w = [exists |-> w.exists, worst |-> w.worst, slack |-> w.slack,
       threshold |-> w.threshold, queue |-> w.queue, maxSize |-> w.maxSize]

SlackValues == {l - a : l \in Limits, a \in Arrivals}

IsSlackTable(f) ==
  /\ f = [v \in DOMAIN f |-> f[v]]
  /\ DOMAIN f \subseteq Vertices
  /\ \A v \in DOMAIN f : f[v] \in SlackValues

IsPaths(s) ==
  /\ s.arr \in [Vertices -> MaybeNone(Arrivals)]
  /\ s.req \in [Vertices -> Limits \cup {Inf}]

SearchType(s, G) ==
  /\ Shape(s) /\ IsPaths(s)
  /\ s.arrivals \in BOOLEAN /\ s.requireds \in BOOLEAN
  /\ s.invalidArrivals \subseteq G /\ s.invalidRequireds \subseteq G
  /\ s.reqQueue \subseteq Vertices /\ s.invalidTns \subseteq G
  /\ s.endpointsFound \in BOOLEAN
  /\ s.endpoints \subseteq G /\ s.invalidEndpoints \subseteq G
  /\ s.tnsExists \in BOOLEAN /\ s.tns \in Int /\ IsSlackTable(s.tnsSlacks)

LEMMA SlackTables ==
  ASSUME NEW f
  PROVE  f \in UNION {[V -> {l - a : l \in Limits, a \in Arrivals}] :
                        V \in SUBSET Vertices}
           <=> IsSlackTable(f)
<1>1. ASSUME NEW V \in SUBSET Vertices, f \in [V -> SlackValues]
      PROVE  IsSlackTable(f)
  BY <1>1 DEF IsSlackTable
<1>2. ASSUME IsSlackTable(f) 
      PROVE  DOMAIN f \in SUBSET Vertices /\ f \in [DOMAIN f -> SlackValues]
  BY <1>2 DEF IsSlackTable
<1>3. QED
  BY <1>1, <1>2 DEF SlackValues

LEMMA SearchTypes ==
  ASSUME NEW s, NEW G
  PROVE  s \in [arrivals : BOOLEAN, requireds : BOOLEAN,
                arr : [Vertices -> MaybeNone(Arrivals)],
                req : [Vertices -> Limits \cup {Inf}],
                invalidArrivals : SUBSET G,
                invalidRequireds : SUBSET G,
                reqQueue : SUBSET Vertices, invalidTns : SUBSET G,
                endpointsFound : BOOLEAN, endpoints : SUBSET G,
                invalidEndpoints : SUBSET G,
                tnsExists : BOOLEAN, tns : Int,
                tnsSlacks : UNION {[V -> {l - a : l \in Limits, a \in Arrivals}] :
                                     V \in SUBSET Vertices}]
           <=> SearchType(s, G)
<1> DEFINE Tables == UNION {[V -> {l - a : l \in Limits, a \in Arrivals}] :
                              V \in SUBSET Vertices}
<1>1. \A f : f \in Tables <=> IsSlackTable(f)
  BY SlackTables
<1> HIDE DEF Tables
<1>2. s \in [arrivals : BOOLEAN, requireds : BOOLEAN,
                arr : [Vertices -> MaybeNone(Arrivals)],
                req : [Vertices -> Limits \cup {Inf}],
                invalidArrivals : SUBSET G,
                invalidRequireds : SUBSET G,
                reqQueue : SUBSET Vertices, invalidTns : SUBSET G,
                endpointsFound : BOOLEAN, endpoints : SUBSET G,
                invalidEndpoints : SUBSET G,
                tnsExists : BOOLEAN, tns : Int,
                tnsSlacks : Tables]
           <=> SearchType(s, G)
  BY <1>1 DEF SearchType, Shape, IsPaths
<1>3. QED
  BY <1>2 DEF Tables

LEMMA SlackType ==
  ASSUME NEW s, IsPaths(s), NEW v \in Vertices
  PROVE  /\ Slack(s, v) \in Int /\ Slack(s, v) <= Inf
         /\ Slack(s, v) # Inf => /\ s.arr[v] \in Arrivals /\ s.req[v] \in Limits
                                 /\ Slack(s, v) = s.req[v] - s.arr[v]
                                 /\ Slack(s, v) \in SlackValues
<1>1. CASE s.arr[v] = None \/ s.req[v] = Inf
  <2>1. Slack(s, v) = Inf
    BY <1>1 DEF Slack
  <2>2. QED
    BY <2>1, SlacksAssumption
<1>2. CASE s.arr[v] # None /\ s.req[v] # Inf
  <2>1. s.arr[v] \in Arrivals /\ s.req[v] \in Limits
    BY <1>2 DEF IsPaths, MaybeNone
  <2>2. Slack(s, v) = s.req[v] - s.arr[v]
    BY <1>2 DEF Slack
  <2>3. Slack(s, v) \in SlackValues
    BY <2>1, <2>2 DEF SlackValues
  <2>4. Slack(s, v) \in Int /\ Slack(s, v) <= Inf
    <3>1. PICK l \in Limits, a \in Arrivals : Slack(s, v) = l - a
      BY <2>1, <2>2
    <3>2. l \in Int /\ a \in Int /\ Inf \in Int /\ l - a < Inf
      BY SlacksAssumption
    <3>3. QED
      BY <3>1, <3>2
  <2>5. QED
    BY <2>1, <2>2, <2>3, <2>4
<1>3. QED
  BY <1>1, <1>2

LEMMA SlackValuesInt == SlackValues \subseteq Int
BY SlacksAssumption DEF SlackValues

------------------------------------------------------------------------------
(* The sum of a table when entries are taken out and when some are added.  *)
LEMMA SumOfTable ==
  ASSUME NEW f, IsSlackTable(f)
  PROVE  /\ IsFiniteSet(DOMAIN f) /\ IsIntOn(f, DOMAIN f)
         /\ SumFunction(f) \in Int
<1>1. IsFiniteSet(DOMAIN f)
  BY SlacksAssumption, FS_Subset DEF IsSlackTable
<1>2. IsIntOn(f, DOMAIN f)
  BY SlackValuesInt DEF IsSlackTable, IsIntOn
<1>3. QED
  BY <1>1, <1>2, SumType DEF SumFunction

LEMMA SumRestrict ==
  ASSUME NEW f, IsSlackTable(f), NEW C, C \subseteq DOMAIN f
  PROVE  /\ SumFunction(Restrict(f, DOMAIN f \ C))
              = SumFunction(f) - SumFunctionOnSet(f, C)
         /\ SumFunctionOnSet(f, C) \in Int
<1> DEFINE R == DOMAIN f \ C
           g == Restrict(f, R)
<1>1. IsFiniteSet(DOMAIN f) /\ IsIntOn(f, DOMAIN f) /\ SumFunction(f) \in Int
  BY SumOfTable
<1>2. SumFunctionOnSet(f, DOMAIN f)
        = SumFunctionOnSet(f, C) + SumFunctionOnSet(f, DOMAIN f \ C)
  BY <1>1, SumSplit
<1>3. /\ IsFiniteSet(R) /\ IsIntOn(f, R) /\ IsFiniteSet(C) /\ IsIntOn(f, C)
  BY <1>1, FS_Subset DEF IsIntOn
<1>4. SumFunctionOnSet(f, R) \in Int /\ SumFunctionOnSet(f, C) \in Int
  BY <1>3, SumType
<1>5. DOMAIN g = R /\ \A x \in R : g[x] = f[x]
  BY DEF Restrict
<1> HIDE DEF R, g
<1>6. SumFunctionOnSet(g, R) = SumFunctionOnSet(f, R)
  BY <1>3, <1>5, SumEqual
<1>7. QED
  BY <1>2, <1>4, <1>5, <1>6 DEF SumFunction, R, g

LEMMA SumExtend ==
  ASSUME NEW f, IsSlackTable(f), NEW k, IsSlackTable(k),
         DOMAIN f \cap DOMAIN k = {},
         NEW g, DOMAIN g = DOMAIN f \cup DOMAIN k,
         \A v \in DOMAIN g : g[v] = IF v \in DOMAIN k THEN k[v] ELSE f[v]
  PROVE  SumFunction(g) = SumFunction(f) + SumFunction(k)
<1> DEFINE F == DOMAIN f
           K == DOMAIN k
           G == DOMAIN g
<1>1. /\ IsFiniteSet(F) /\ IsIntOn(f, F) /\ SumFunction(f) \in Int
      /\ IsFiniteSet(K) /\ IsIntOn(k, K) /\ SumFunction(k) \in Int
  BY SumOfTable
<1>2. G \ F = K /\ F \in SUBSET G
  OBVIOUS
<1>3. IsFiniteSet(G) /\ IsIntOn(g, G)
  <2>1. IsIntOn(g, G)
    BY <1>1 DEF IsIntOn
  <2>2. QED
    BY <1>1, <2>1, FS_Union
<1>4. (\A v \in F : g[v] = f[v]) /\ (\A v \in K : g[v] = k[v])
  OBVIOUS
<1> HIDE DEF F, K, G
<1>5. SumFunctionOnSet(g, G)
        = SumFunctionOnSet(g, F) + SumFunctionOnSet(g, G \ F)
  BY <1>2, <1>3, SumSplit
<1>6. SumFunctionOnSet(g, F) = SumFunctionOnSet(f, F)
  BY <1>1, <1>4, SumEqual
<1>7. SumFunctionOnSet(g, K) = SumFunctionOnSet(k, K)
  BY <1>1, <1>4, SumEqual
<1>8. QED
  BY <1>2, <1>5, <1>6, <1>7 DEF SumFunction, F, K, G

------------------------------------------------------------------------------
(* What two Searches agree on.                                             *)
SamePaths(t, s) == t.arr = s.arr /\ t.req = s.req
SameFlags(t, s) == t.arrivals = s.arrivals /\ t.requireds = s.requireds
SameTns(t, s) ==
  t.tnsExists = s.tnsExists /\ t.tns = s.tns /\ t.tnsSlacks = s.tnsSlacks
SameEnds(t, s) ==
  /\ t.endpointsFound = s.endpointsFound /\ t.endpoints = s.endpoints
  /\ t.invalidEndpoints = s.invalidEndpoints
SameInvalid(t, s) ==
  /\ t.invalidArrivals = s.invalidArrivals
  /\ t.invalidRequireds = s.invalidRequireds /\ t.reqQueue = s.reqQueue

LEMMA TnsInvalidFields ==
  ASSUME NEW s, Shape(s), NEW V, NEW E
  PROVE  LET t == TnsInvalid(s, V, E)
         IN  /\ Shape(t)
             /\ SameFlags(t, s) /\ SamePaths(t, s) /\ SameTns(t, s)
             /\ SameEnds(t, s) /\ SameInvalid(t, s)
             /\ t.invalidTns = IF s.tnsExists \/ wns.exists
                                 THEN s.invalidTns \cup (V \cap E)
                                 ELSE s.invalidTns
BY DEF Shape, TnsInvalid, SameFlags, SamePaths, SameTns, SameEnds, SameInvalid

LEMMA ArrivalInvalidFields ==
  ASSUME NEW s, Shape(s), NEW V, NEW E
  PROVE  LET t == ArrivalInvalid(s, V, E)
         IN  /\ Shape(t)
             /\ SameFlags(t, s) /\ SamePaths(t, s) /\ SameTns(t, s)
             /\ SameEnds(t, s)
             /\ t.invalidArrivals = IF s.arrivals THEN s.invalidArrivals \cup V
                                                  ELSE s.invalidArrivals
             /\ t.invalidRequireds = s.invalidRequireds
             /\ t.reqQueue = s.reqQueue
             /\ t.invalidTns = IF s.arrivals /\ (s.tnsExists \/ wns.exists)
                                 THEN s.invalidTns \cup (V \cap E)
                                 ELSE s.invalidTns
BY DEF Shape, ArrivalInvalid, TnsInvalid,
       SameFlags, SamePaths, SameTns, SameEnds, SameInvalid

LEMMA RequiredInvalidFields ==
  ASSUME NEW s, Shape(s), NEW V, NEW E
  PROVE  LET t == RequiredInvalid(s, V, E)
         IN  /\ Shape(t)
             /\ SameFlags(t, s) /\ SamePaths(t, s) /\ SameTns(t, s)
             /\ SameEnds(t, s)
             /\ t.invalidArrivals = s.invalidArrivals
             /\ t.invalidRequireds = IF s.requireds
                                       THEN s.invalidRequireds \cup (V \ s.reqQueue)
                                       ELSE s.invalidRequireds
             /\ t.reqQueue = s.reqQueue
             /\ t.invalidTns = IF s.requireds /\ (s.tnsExists \/ wns.exists)
                                 THEN s.invalidTns \cup (V \cap E)
                                 ELSE s.invalidTns
BY DEF Shape, RequiredInvalid, TnsInvalid,
       SameFlags, SamePaths, SameTns, SameEnds, SameInvalid

LEMMA EndpointInvalidFields ==
  ASSUME NEW s, Shape(s), NEW V
  PROVE  LET t == EndpointInvalid(s, V)
         IN  /\ Shape(t)
             /\ SameFlags(t, s) /\ SamePaths(t, s) /\ SameTns(t, s)
             /\ SameInvalid(t, s) /\ t.invalidTns = s.invalidTns
             /\ t.endpointsFound = s.endpointsFound /\ t.endpoints = s.endpoints
             /\ t.invalidEndpoints = IF s.endpointsFound
                                       THEN s.invalidEndpoints \cup V
                                       ELSE s.invalidEndpoints
BY DEF Shape, EndpointInvalid, SameFlags, SamePaths, SameTns, SameInvalid

LEMMA FindEndpointsFields ==
  ASSUME NEW s, Shape(s)
  PROVE  LET t == FindEndpoints(s)
         IN  /\ Shape(t)
             /\ SameFlags(t, s) /\ SamePaths(t, s) /\ SameTns(t, s)
             /\ SameInvalid(t, s) /\ t.invalidTns = s.invalidTns
             /\ t.endpointsFound = TRUE /\ t.invalidEndpoints = {}
             /\ t.endpoints = IF s.endpointsFound
                                THEN (s.endpoints \ s.invalidEndpoints)
                                       \cup (s.invalidEndpoints \cap Endpoints)
                                ELSE Endpoints
<1> DEFINE ends == IF s.endpointsFound
                     THEN (s.endpoints \ s.invalidEndpoints)
                            \cup (s.invalidEndpoints \cap Endpoints)
                     ELSE Endpoints
<1>1. FindEndpoints(s) = [s EXCEPT !.endpointsFound = TRUE,
                                   !.endpoints = ends,
                                   !.invalidEndpoints = {}]
  BY DEF FindEndpoints
<1> HIDE DEF ends
<1>2. LET t == FindEndpoints(s)
      IN  /\ Shape(t)
          /\ SameFlags(t, s) /\ SamePaths(t, s) /\ SameTns(t, s)
          /\ SameInvalid(t, s) /\ t.invalidTns = s.invalidTns
          /\ t.invalidEndpoints = {} /\ t.endpoints = ends
  BY <1>1 DEF Shape, SameFlags, SamePaths, SameTns, SameInvalid
<1>3. FindEndpoints(s).endpointsFound = TRUE
  BY <1>1 DEF Shape
<1>4. QED
  BY <1>2, <1>3 DEF ends

LEMMA SeedRequiredFields ==
  ASSUME NEW s, Shape(s), NEW V
  PROVE  LET t == SeedRequired(s, V)
         IN  /\ Shape(t)
             /\ SameFlags(t, s) /\ SameTns(t, s)
             /\ SameInvalid(t, s) /\ SameEnds(t, s)
             /\ t.invalidTns = s.invalidTns
             /\ t.arr = s.arr
             /\ t.req = [v \in Vertices |->
                           IF v \in V THEN Required(s, v) ELSE s.req[v]]
BY DEF Shape, SeedRequired, SameFlags, SameEnds, SameTns, SameInvalid

------------------------------------------------------------------------------
(* tns_ has not drifted from tns_slacks_, which holds what is negative.    *)
Summed(s) ==
  /\ s.tns \in Int /\ s.tns = SumFunction(s.tnsSlacks)
  /\ \A v \in DOMAIN s.tnsSlacks : s.tnsSlacks[v] < 0

Tabled(s) == IsSlackTable(s.tnsSlacks)

(* The table f without the entries of V.                                   *)
IsWithout(g, f, V) ==
  /\ DOMAIN g = DOMAIN f \ V
  /\ \A v \in DOMAIN f \ V : g[v] = f[v]

LEMMA TnsDecrFields ==
  ASSUME NEW s, Shape(s), Summed(s), Tabled(s), NEW V
  PROVE  LET t == TnsDecr(s, V)
         IN  /\ Shape(t)
             /\ SameFlags(t, s) /\ SamePaths(t, s) /\ SameInvalid(t, s)
             /\ SameEnds(t, s) /\ t.invalidTns = s.invalidTns
             /\ t.tnsExists = s.tnsExists /\ Summed(t) /\ Tabled(t)
             /\ IsWithout(t.tnsSlacks, s.tnsSlacks, V)
<1> DEFINE f == s.tnsSlacks
           counted == V \cap DOMAIN f
           total == s.tns - SumFunctionOnSet(f, counted)
           rest == Restrict(f, DOMAIN f \ counted)
           t == TnsDecr(s, V)
<1>1. t = [s EXCEPT !.tns = total, !.tnsSlacks = rest]
  BY DEF TnsDecr
<1>2. total = SumFunction(rest) /\ total \in Int
  <2>1. IsSlackTable(f) /\ counted \subseteq DOMAIN f
    BY DEF Tabled
  <2> HIDE DEF f, counted
  <2>2. /\ SumFunction(Restrict(f, DOMAIN f \ counted))
              = SumFunction(f) - SumFunctionOnSet(f, counted)
        /\ SumFunctionOnSet(f, counted) \in Int
    BY <2>1, SumRestrict
  <2>3. QED
    BY <2>2 DEF Summed, f
<1>3. IsSlackTable(rest) /\ IsWithout(rest, f, V)
  BY DEF IsSlackTable, Tabled, Restrict, IsWithout
<1> HIDE DEF total, rest, t
<1>4. /\ Shape(t)
      /\ SameFlags(t, s) /\ SamePaths(t, s) /\ SameInvalid(t, s)
      /\ SameEnds(t, s) /\ t.invalidTns = s.invalidTns
      /\ t.tnsExists = s.tnsExists /\ t.tns = total /\ t.tnsSlacks = rest
  BY <1>1 DEF Shape, SameFlags, SamePaths, SameInvalid, SameEnds
<1>5. \A v \in DOMAIN rest : rest[v] < 0
  BY <1>3 DEF IsWithout, Summed
<1>6. QED
  BY <1>2, <1>3, <1>4, <1>5 DEF Summed, Tabled, t

(* The table f with the slacks of V that are negative.                     *)
IsWith(g, f, s, V) ==
  /\ DOMAIN g = DOMAIN f \cup {u \in V : Slack(s, u) < 0}
  /\ \A v \in DOMAIN g : g[v] = IF v \in V THEN Slack(s, v) ELSE f[v]

LEMMA TnsIncrFields ==
  ASSUME NEW s, Shape(s), IsPaths(s), Summed(s), Tabled(s),
         NEW V, V \subseteq Vertices, V \cap DOMAIN s.tnsSlacks = {}
  PROVE  LET t == TnsIncr(s, V)
         IN  /\ Shape(t)
             /\ SameFlags(t, s) /\ SamePaths(t, s) /\ SameInvalid(t, s)
             /\ SameEnds(t, s) /\ t.invalidTns = s.invalidTns
             /\ t.tnsExists = s.tnsExists /\ Summed(t) /\ Tabled(t)
             /\ IsWith(t.tnsSlacks, s.tnsSlacks, s, V)
<1> DEFINE f == s.tnsSlacks
           slacks == [v \in {u \in V : Slack(s, u) < 0} |-> Slack(s, v)]
           total == s.tns + SumFunction(slacks)
           table == [v \in DOMAIN f \cup DOMAIN slacks |->
                       IF v \in DOMAIN slacks THEN slacks[v] ELSE f[v]]
           t == TnsIncr(s, V)
<1>1. t = [s EXCEPT !.tns = total, !.tnsSlacks = table]
  BY DEF TnsIncr
<1>2. IsSlackTable(slacks)
  <2>1. \A v \in V : Slack(s, v) < 0 => Slack(s, v) \in SlackValues
    <3>1. SUFFICES ASSUME NEW v \in V, Slack(s, v) < 0
                   PROVE  Slack(s, v) \in SlackValues
      OBVIOUS
    <3>2. Slack(s, v) # Inf
      BY <3>1, SlacksAssumption
    <3>3. QED
      BY <3>2, SlackType
  <2>2. QED
    BY <2>1 DEF IsSlackTable
<1>3. IsSlackTable(f)
  BY DEF Tabled
<1>4. DOMAIN f \cap DOMAIN slacks = {}
  OBVIOUS
<1>5. IsSlackTable(table)
  BY <1>2, <1>3 DEF IsSlackTable
<1>6. total = SumFunction(table) /\ total \in Int
  <2>1. /\ DOMAIN table = DOMAIN f \cup DOMAIN slacks
        /\ \A v \in DOMAIN table :
             table[v] = IF v \in DOMAIN slacks THEN slacks[v] ELSE f[v]
    OBVIOUS
  <2> HIDE DEF table, slacks, f
  <2>2. SumFunction(table) = SumFunction(f) + SumFunction(slacks)
    BY <2>1, <1>2, <1>3, <1>4, SumExtend
  <2>3. SumFunction(slacks) \in Int
    BY <1>2, SumOfTable
  <2>4. QED
    BY <2>2, <2>3 DEF Summed, f
<1>7. IsWith(table, f, s, V)
  BY DEF IsWith
<1> HIDE DEF total, table, t
<1>8. /\ Shape(t)
      /\ SameFlags(t, s) /\ SamePaths(t, s) /\ SameInvalid(t, s)
      /\ SameEnds(t, s) /\ t.invalidTns = s.invalidTns
      /\ t.tnsExists = s.tnsExists /\ t.tns = total /\ t.tnsSlacks = table
  BY <1>1 DEF Shape, SameFlags, SamePaths, SameInvalid, SameEnds
<1>9. \A v \in DOMAIN table : table[v] < 0
  BY <1>7 DEF IsWith, Summed
<1>10. QED
  BY <1>5, <1>6, <1>7, <1>8, <1>9 DEF Summed, Tabled, t

LEMMA DeletePathsFields ==
  ASSUME NEW s, Shape(s), IsPaths(s), Summed(s), Tabled(s), NEW V
  PROVE  LET t == DeletePaths(s, V)
         IN  /\ Shape(t) /\ IsPaths(t)
             /\ SameFlags(t, s) /\ SameInvalid(t, s)
             /\ SameEnds(t, s) /\ t.invalidTns = s.invalidTns
             /\ t.arr = [v \in Vertices |-> IF v \in V THEN None ELSE s.arr[v]]
             /\ t.req = [v \in Vertices |-> IF v \in V THEN Inf ELSE s.req[v]]
             /\ t.tnsExists = s.tnsExists /\ Summed(t) /\ Tabled(t)
             /\ s.tnsExists =>
                  IsWithout(t.tnsSlacks, s.tnsSlacks, V \cap Endpoints)
<1> DEFINE u == TnsNotifyBefore(s, V)
           arr == [v \in Vertices |-> IF v \in V THEN None ELSE s.arr[v]]
           req == [v \in Vertices |-> IF v \in V THEN Inf ELSE s.req[v]]
           t == DeletePaths(s, V)
<1>1. /\ Shape(u) /\ SameFlags(u, s) /\ SamePaths(u, s) /\ SameInvalid(u, s)
      /\ SameEnds(u, s) /\ u.invalidTns = s.invalidTns
      /\ u.tnsExists = s.tnsExists /\ Summed(u) /\ Tabled(u)
      /\ s.tnsExists => IsWithout(u.tnsSlacks, s.tnsSlacks, V \cap Endpoints)
  <2>1. CASE s.tnsExists
    <3>1. u = TnsDecr(s, V \cap Endpoints)
      BY <2>1 DEF TnsNotifyBefore
    <3> HIDE DEF u
    <3>2. QED
      BY <3>1, TnsDecrFields
  <2>2. CASE ~s.tnsExists
    <3>1. u = s
      BY <2>2 DEF TnsNotifyBefore
    <3>2. QED
      BY <2>2, <3>1 DEF SameFlags, SamePaths, SameInvalid, SameEnds
  <2>3. QED
    BY <2>1, <2>2
<1>2. t = [u EXCEPT
             !.arr = [v \in Vertices |-> IF v \in V THEN None ELSE u.arr[v]],
             !.req = [v \in Vertices |-> IF v \in V THEN Inf ELSE u.req[v]]]
  BY DEF DeletePaths
<1> HIDE DEF u
<1>3. t = [u EXCEPT !.arr = arr, !.req = req]
  BY <1>1, <1>2 DEF SamePaths
<1>4. /\ arr \in [Vertices -> MaybeNone(Arrivals)]
      /\ req \in [Vertices -> Limits \cup {Inf}]
  BY DEF IsPaths, MaybeNone
<1> HIDE DEF t, arr, req
<1>5. /\ Shape(t) /\ SameFlags(t, u) /\ SameInvalid(t, u)
      /\ SameEnds(t, u) /\ t.invalidTns = u.invalidTns /\ SameTns(t, u)
      /\ t.arr = arr /\ t.req = req
  BY <1>1, <1>3 DEF Shape, SameFlags, SameInvalid, SameEnds, SameTns
<1>6. Summed(t) /\ Tabled(t) /\ t.tnsExists = s.tnsExists /\ t.tnsSlacks = u.tnsSlacks
  BY <1>1, <1>5 DEF SameTns, Summed, Tabled
<1>7. IsPaths(t)
  BY <1>4, <1>5 DEF IsPaths
<1>8. SameFlags(t, s) /\ SameInvalid(t, s) /\ SameEnds(t, s)
  BY <1>1, <1>5 DEF SameFlags, SameInvalid, SameEnds
<1>9. QED
  BY <1>1, <1>5, <1>6, <1>7, <1>8 DEF arr, req, t

------------------------------------------------------------------------------
Exact(s) == SearchType(s, graph) /\ Summed(s)

(* The paths of a vertex that is no endpoint are deleted by the next       *)
(* arrival search, if they are not deleted already.                        *)
PathsHeld ==
  \A v \in Vertices \ (Endpoints \cup search.invalidArrivals) :
    search.arr[v] = None /\ search.req[v] = Inf

(* An arrival that is not the one the search would find is to be found.    *)
ArrivalsHeld ==
  search.arrivals =>
    \A v \in Endpoints \ (search.invalidArrivals \cup reached) :
      search.arr[v] = data[v]

LEMMA SetArrivalsFields ==
  ASSUME NEW s, SearchType(s, graph), Summed(s), NEW R,
         graph \subseteq Vertices, data \in [Vertices -> MaybeNone(Arrivals)]
  PROVE  LET t == SetArrivals(s, R)
             set == {v \in Changed : data[v] # None}
             had == {v \in set : s.req[v] # Inf}
         IN  /\ SearchType(t, graph) /\ Summed(t)
             /\ SameFlags(t, s) /\ SameEnds(t, s) /\ SameTns(t, s)
             /\ t.arr = [v \in Vertices |-> IF v \in set THEN data[v] ELSE s.arr[v]]
             /\ t.req = [v \in Vertices |-> IF v \in R THEN Inf ELSE s.req[v]]
             /\ t.invalidArrivals = s.invalidArrivals /\ t.reqQueue = s.reqQueue
             /\ t.invalidRequireds = IF s.requireds
                                       THEN s.invalidRequireds \cup (had \ s.reqQueue)
                                       ELSE s.invalidRequireds
             /\ t.invalidTns = IF s.requireds /\ (s.tnsExists \/ wns.exists)
                                 THEN s.invalidTns \cup had
                                 ELSE s.invalidTns
<1> DEFINE set == {v \in Changed : data[v] # None}
           had == {v \in set : s.req[v] # Inf}
           kept == RequiredInvalid(s, had, Endpoints)
           arr == [v \in Vertices |-> IF v \in set THEN data[v] ELSE s.arr[v]]
           req == [v \in Vertices |-> IF v \in R THEN Inf ELSE s.req[v]]
           t == SetArrivals(s, R)
<1>1. had \subseteq Endpoints /\ Endpoints \subseteq graph /\ had \cap Endpoints = had
  BY DEF Changed, Endpoints
<1>2. /\ arr \in [Vertices -> MaybeNone(Arrivals)]
      /\ req \in [Vertices -> Limits \cup {Inf}]
  BY DEF SearchType, IsPaths, MaybeNone
<1>3. t = [kept EXCEPT
             !.arr = [v \in Vertices |-> IF v \in set THEN data[v] ELSE kept.arr[v]],
             !.req = [v \in Vertices |-> IF v \in R THEN Inf ELSE kept.req[v]]]
  BY DEF SetArrivals
<1> HIDE DEF had, kept, t, set
<1>4. /\ Shape(kept)
      /\ SameFlags(kept, s) /\ SamePaths(kept, s) /\ SameTns(kept, s)
      /\ SameEnds(kept, s) /\ kept.reqQueue = s.reqQueue
      /\ kept.invalidArrivals = s.invalidArrivals
      /\ kept.invalidRequireds = IF s.requireds
                                   THEN s.invalidRequireds \cup (had \ s.reqQueue)
                                   ELSE s.invalidRequireds
      /\ kept.invalidTns = IF s.requireds /\ (s.tnsExists \/ wns.exists)
                             THEN s.invalidTns \cup (had \cap Endpoints)
                             ELSE s.invalidTns
  BY RequiredInvalidFields DEF SearchType, kept
<1>5. t = [kept EXCEPT !.arr = arr, !.req = req]
  BY <1>3, <1>4 DEF SamePaths
<1> HIDE DEF arr, req
<1>6. /\ Shape(t) /\ SameFlags(t, kept) /\ SameEnds(t, kept) /\ SameTns(t, kept)
      /\ SameInvalid(t, kept) /\ t.invalidTns = kept.invalidTns
      /\ t.arr = arr /\ t.req = req
  BY <1>4, <1>5 DEF Shape, SameFlags, SameEnds, SameTns, SameInvalid
<1>7. /\ SameFlags(t, s) /\ SameEnds(t, s) /\ SameTns(t, s)
      /\ t.invalidArrivals = s.invalidArrivals /\ t.reqQueue = s.reqQueue
      /\ t.invalidRequireds = IF s.requireds
                                THEN s.invalidRequireds \cup (had \ s.reqQueue)
                                ELSE s.invalidRequireds
      /\ t.invalidTns = IF s.requireds /\ (s.tnsExists \/ wns.exists)
                          THEN s.invalidTns \cup had
                          ELSE s.invalidTns
  BY <1>1, <1>4, <1>6 DEF SameFlags, SameEnds, SameTns, SameInvalid
<1>8. SearchType(t, graph) /\ Summed(t)
  BY <1>1, <1>2, <1>6, <1>7
     DEF SearchType, IsPaths, SameFlags, SameEnds, SameTns, Summed
<1>9. QED
  BY <1>6, <1>7, <1>8 DEF arr, req, had, set, t

(* What an arrival search leaves behind.                                   *)
Found(F) ==
  /\ Exact(F)
  /\ F.arrivals /\ F.requireds = search.requireds
  /\ SameEnds(F, search)
  /\ F.tnsExists = search.tnsExists /\ F.reqQueue = search.reqQueue
  /\ F.invalidArrivals = {}
  /\ \A v \in Endpoints : F.arr[v] = data[v]
  /\ \A v \in Vertices \ Endpoints : F.arr[v] = None /\ F.req[v] = Inf
  /\ \A v \in Vertices : F.req[v] \in {search.req[v], Inf}
  /\ search.invalidRequireds \subseteq F.invalidRequireds
  /\ F.invalidRequireds \subseteq search.invalidRequireds \cup Changed
  /\ ~search.requireds => F.invalidRequireds = search.invalidRequireds
  /\ F.invalidTns = IF search.tnsExists \/ wns.exists
                      THEN search.invalidTns \cup Changed
                      ELSE search.invalidTns
  /\ \A v \in Endpoints \ Changed :
       F.arr[v] = search.arr[v] /\ F.req[v] = search.req[v]
  /\ search.tnsExists =>
       IsWithout(F.tnsSlacks, search.tnsSlacks, Emptied \cap Endpoints)

LEMMA ArrivalsFound ==
  ASSUME Exact(search), PathsHeld, ArrivalsHeld, graph \subseteq Vertices,
         data \in [Vertices -> MaybeNone(Arrivals)],
         ~search.arrivals => search.invalidArrivals = {},
         NEW R \in SUBSET {v \in Changed : search.req[v] # Inf}
  PROVE  Found(FindAllArrivals(R))
<1> DEFINE D == DeletePaths(search, Emptied)
           S == SetArrivals(D, R)
           N == TnsInvalid(S, Changed, Endpoints)
           F == FindAllArrivals(R)
           set == {v \in Changed : data[v] # None}
           had == {v \in set : D.req[v] # Inf}
<1>1. F = [N EXCEPT !.invalidArrivals = {}, !.arrivals = TRUE]
  BY DEF FindAllArrivals
<1>2. had \subseteq Changed /\ Changed \subseteq Endpoints /\ Endpoints \subseteq graph
  BY DEF Changed, Endpoints
<1>3. /\ Shape(search) /\ IsPaths(search) /\ Summed(search) /\ Tabled(search)
  BY DEF Exact, SearchType, Tabled
<1> HIDE DEF D, S, N, F, set, had
<1>4. /\ Shape(D) /\ IsPaths(D)
      /\ SameFlags(D, search) /\ SameInvalid(D, search)
      /\ SameEnds(D, search) /\ D.invalidTns = search.invalidTns
      /\ D.arr = [v \in Vertices |-> IF v \in Emptied THEN None ELSE search.arr[v]]
      /\ D.req = [v \in Vertices |-> IF v \in Emptied THEN Inf ELSE search.req[v]]
      /\ D.tnsExists = search.tnsExists /\ Summed(D) /\ Tabled(D)
      /\ search.tnsExists =>
           IsWithout(D.tnsSlacks, search.tnsSlacks, Emptied \cap Endpoints)
  BY <1>3, DeletePathsFields DEF D
<1>5. SearchType(D, graph)
  BY <1>4 DEF SearchType, Exact, SameFlags, SameInvalid, SameEnds, Summed, Tabled
<1>6. /\ SearchType(S, graph) /\ Summed(S)
      /\ SameFlags(S, D) /\ SameEnds(S, D) /\ SameTns(S, D)
      /\ S.arr = [v \in Vertices |-> IF v \in set THEN data[v] ELSE D.arr[v]]
      /\ S.req = [v \in Vertices |-> IF v \in R THEN Inf ELSE D.req[v]]
      /\ S.invalidArrivals = D.invalidArrivals /\ S.reqQueue = D.reqQueue
      /\ S.invalidRequireds = IF D.requireds
                                THEN D.invalidRequireds \cup (had \ D.reqQueue)
                                ELSE D.invalidRequireds
      /\ S.invalidTns = IF D.requireds /\ (D.tnsExists \/ wns.exists)
                          THEN D.invalidTns \cup had
                          ELSE D.invalidTns
  BY <1>4, <1>5, SetArrivalsFields DEF S, set, had
<1>7. /\ Shape(N)
      /\ SameFlags(N, S) /\ SamePaths(N, S) /\ SameTns(N, S)
      /\ SameEnds(N, S) /\ SameInvalid(N, S)
      /\ N.invalidTns = IF S.tnsExists \/ wns.exists
                          THEN S.invalidTns \cup (Changed \cap Endpoints)
                          ELSE S.invalidTns
  <2>1. Shape(S)
    BY <1>6 DEF SearchType
  <2>2. QED
    BY <2>1, TnsInvalidFields DEF N
<1>8. /\ Shape(F) /\ SamePaths(F, N) /\ SameTns(F, N) /\ SameEnds(F, N)
      /\ F.requireds = N.requireds
      /\ F.invalidArrivals = {} /\ F.invalidRequireds = N.invalidRequireds
      /\ F.reqQueue = N.reqQueue /\ F.invalidTns = N.invalidTns
  BY <1>1, <1>7 DEF Shape, SamePaths, SameTns, SameEnds
<1>9. F.arrivals = TRUE
  BY <1>1, <1>7 DEF Shape
<1>10. /\ F.arr = S.arr /\ F.req = S.req
       /\ F.requireds = search.requireds
       /\ SameEnds(F, search) /\ F.tnsExists = search.tnsExists
       /\ F.tns = D.tns /\ F.tnsSlacks = D.tnsSlacks
       /\ F.reqQueue = search.reqQueue
       /\ F.invalidRequireds = IF search.requireds
                                 THEN search.invalidRequireds
                                        \cup (had \ search.reqQueue)
                                 ELSE search.invalidRequireds
  BY <1>4, <1>6, <1>7, <1>8
     DEF SamePaths, SameFlags, SameEnds, SameTns, SameInvalid
<1>11. F.invalidTns = IF search.tnsExists \/ wns.exists
                        THEN search.invalidTns \cup Changed
                        ELSE search.invalidTns
  BY <1>2, <1>4, <1>6, <1>7, <1>8, ZenonT(40) DEF SameFlags, SameTns, SameInvalid
<1>12. Exact(F)
  BY <1>2, <1>4, <1>6, <1>8, <1>9, <1>10, <1>11
     DEF Exact, SearchType, IsPaths, Summed, Tabled, SameEnds
<1>13. \A v \in Vertices :
         /\ F.arr[v] = IF v \in set THEN data[v]
                       ELSE IF v \in Emptied THEN None ELSE search.arr[v]
         /\ F.req[v] = IF v \in R \cup Emptied THEN Inf ELSE search.req[v]
  BY <1>4, <1>6, <1>10
<1>14. ASSUME NEW v \in Endpoints PROVE F.arr[v] = data[v]
  <2>1. v \in Vertices /\ v \in graph
    BY <1>2
  <2>2. CASE v \in Changed
    BY <1>13, <2>1, <2>2 DEF set, Emptied, Endpoints
  <2>3. CASE v \notin Changed
    <3>1. v \notin set /\ v \notin Emptied
      BY <2>3 DEF set, Emptied
    <3>2. search.arr[v] = data[v]
      <4>1. CASE v \in Seeds
        BY <2>3, <4>1 DEF Changed
      <4>2. CASE v \notin Seeds
        BY <2>1, <4>2 DEF Seeds, ArrivalsHeld
      <4>3. QED
        BY <4>1, <4>2
    <3>3. QED
      BY <1>13, <2>1, <3>1, <3>2
  <2>4. QED
    BY <2>2, <2>3
<1>15. ASSUME NEW v \in Vertices \ Endpoints
       PROVE  F.arr[v] = None /\ F.req[v] = Inf
  <2>1. v \notin set
    BY <1>2 DEF set
  <2>2. CASE v \in Emptied
    BY <1>13, <2>1, <2>2
  <2>3. CASE v \notin Emptied
    <3>1. v \notin search.invalidArrivals
      BY <2>3 DEF Emptied, Seeds
    <3>2. search.arr[v] = None /\ search.req[v] = Inf
      BY <3>1 DEF PathsHeld
    <3>3. QED
      BY <1>13, <2>1, <2>3, <3>2
  <2>4. QED
    BY <2>2, <2>3
<1>16. ASSUME NEW v \in Endpoints \ Changed
       PROVE  F.arr[v] = search.arr[v] /\ F.req[v] = search.req[v]
  <2>1. v \in Vertices /\ v \notin set /\ v \notin Emptied /\ v \notin R
    BY <1>2 DEF set, Emptied
  <2>2. QED
    BY <1>13, <2>1
<1>17. \A v \in Vertices : F.req[v] \in {search.req[v], Inf}
  BY <1>13
<1>18. QED
  BY <1>2, <1>4, <1>8, <1>9, <1>10, <1>11, <1>12, <1>14, <1>15, <1>16, <1>17
     DEF Found, F

------------------------------------------------------------------------------
RequiredsOk(s) ==
  s.requireds =>
    \A v \in graph \ (s.invalidRequireds \cup s.reqQueue) :
      s.req[v] \in {limit[v], Inf} \/ limit[v] = Inf

EndpointsOk(s) ==
  s.endpointsFound => Endpoints \subseteq s.endpoints \cup s.invalidEndpoints

(* A required time to be found anew is of an endpoint the slack of which   *)
(* is to be counted anew.                                                  *)
NotedOk(s) ==
  s.tnsExists \/ wns.exists => s.invalidRequireds \cap Endpoints \subseteq s.invalidTns

(* The Search s after a search for arrivals, once required times have been *)
(* found: a slack that changed is noted.                                   *)
Searched(s) ==
  /\ Exact(s)
  /\ s.arrivals /\ s.requireds
  /\ s.invalidArrivals = {}
  /\ \A v \in Endpoints : s.arr[v] = data[v]
  /\ \A v \in Vertices \ Endpoints : s.arr[v] = None /\ s.req[v] = Inf
  /\ RequiredsOk(s) /\ EndpointsOk(s)
  /\ s.tnsExists = search.tnsExists
  /\ search.tnsExists \/ wns.exists =>
       /\ search.invalidTns \subseteq s.invalidTns
       /\ \A v \in Endpoints \ s.invalidTns :
            s.arr[v] = search.arr[v] /\ s.req[v] = search.req[v]
  /\ search.tnsExists =>
       IsWithout(s.tnsSlacks, search.tnsSlacks, Emptied \cap Endpoints)

(* And after a search for required times.                                  *)
Ready(s) == Searched(s) /\ s.invalidRequireds \cap Endpoints = {}

LEMMA RequiredType ==
  ASSUME NEW s, NEW v \in Vertices, limit \in [Vertices -> Limits \cup {Inf}]
  PROVE  /\ Required(s, v) \in Limits \cup {Inf}
         /\ Required(s, v) \in {limit[v], Inf}
         /\ v \notin Endpoints => Required(s, v) = Inf
BY DEF Required

LEMMA SeedRequiredType ==
  ASSUME NEW s, Exact(s), NEW V, limit \in [Vertices -> Limits \cup {Inf}]
  PROVE  Exact(SeedRequired(s, V))
<1> DEFINE t == SeedRequired(s, V)
<1>1. /\ Shape(t) /\ SameFlags(t, s) /\ SameTns(t, s)
      /\ SameInvalid(t, s) /\ SameEnds(t, s)
      /\ t.invalidTns = s.invalidTns /\ t.arr = s.arr
      /\ t.req = [v \in Vertices |-> IF v \in V THEN Required(s, v) ELSE s.req[v]]
  BY SeedRequiredFields DEF Exact, SearchType
<1>2. t.req \in [Vertices -> Limits \cup {Inf}]
  BY <1>1, RequiredType DEF Exact, SearchType, IsPaths
<1> HIDE DEF t
<1>3. QED
  BY <1>1, <1>2 DEF t, Exact, SearchType, IsPaths, SameFlags, SameTns,
                    SameInvalid, SameEnds, Summed

LEMMA EndpointsFound ==
  ASSUME NEW s, Exact(s), EndpointsOk(s)
  PROVE  LET t == FindEndpoints(s)
         IN  /\ Exact(t)
             /\ SameFlags(t, s) /\ SamePaths(t, s) /\ SameTns(t, s)
             /\ SameInvalid(t, s) /\ t.invalidTns = s.invalidTns
             /\ t.endpointsFound /\ t.invalidEndpoints = {}
             /\ Endpoints \subseteq t.endpoints
<1> DEFINE t == FindEndpoints(s)
<1>1. /\ Shape(t)
      /\ SameFlags(t, s) /\ SamePaths(t, s) /\ SameTns(t, s)
      /\ SameInvalid(t, s) /\ t.invalidTns = s.invalidTns
      /\ t.endpointsFound = TRUE /\ t.invalidEndpoints = {}
      /\ t.endpoints = IF s.endpointsFound
                         THEN (s.endpoints \ s.invalidEndpoints)
                                \cup (s.invalidEndpoints \cap Endpoints)
                         ELSE Endpoints
  BY FindEndpointsFields DEF Exact, SearchType
<1> HIDE DEF t
<1>2. Endpoints \subseteq t.endpoints /\ t.endpoints \subseteq graph
  <2>1. s.endpoints \subseteq graph /\ Endpoints \subseteq graph
    BY DEF Exact, SearchType, Endpoints
  <2>2. QED
    BY <1>1, <2>1 DEF EndpointsOk
<1>3. Exact(t)
  BY <1>1, <1>2 DEF Exact, SearchType, IsPaths, SameFlags, SamePaths, SameTns,
                    SameInvalid, Summed
<1>4. QED
  BY <1>1, <1>2, <1>3 DEF t

(* The required times found for the first time.                            *)
LEMMA RequiredsSeeded ==
  ASSUME NEW F, Found(F), EndpointsOk(search), ~search.requireds,
         search.invalidRequireds = {}, graph \subseteq Vertices,
         limit \in [Vertices -> Limits \cup {Inf}],
         ~(search.tnsExists \/ wns.exists)
  PROVE  LET found == FindEndpoints(F)
             t == [SeedRequired(found, found.endpoints) EXCEPT !.requireds = TRUE]
         IN  Ready(t) /\ t.invalidRequireds = {}
<1> DEFINE found == FindEndpoints(F)
           u == SeedRequired(found, found.endpoints)
           t == [u EXCEPT !.requireds = TRUE]
<1>1. Exact(F) /\ EndpointsOk(F)
  BY DEF Found, EndpointsOk, SameEnds
<1>2. /\ Exact(found)
      /\ SameFlags(found, F) /\ SamePaths(found, F) /\ SameTns(found, F)
      /\ SameInvalid(found, F) /\ found.invalidTns = F.invalidTns
      /\ found.endpointsFound /\ found.invalidEndpoints = {}
      /\ Endpoints \subseteq found.endpoints
  BY <1>1, EndpointsFound
<1>3. Exact(u) /\ Shape(u)
  BY <1>2, SeedRequiredType DEF Exact, SearchType
<1>4. /\ SameFlags(u, found) /\ SameTns(u, found)
      /\ SameInvalid(u, found) /\ SameEnds(u, found)
      /\ u.invalidTns = found.invalidTns /\ u.arr = found.arr
      /\ u.req = [v \in Vertices |->
                    IF v \in found.endpoints THEN Required(found, v)
                                             ELSE found.req[v]]
  BY <1>2, SeedRequiredFields DEF Exact, SearchType
<1> HIDE DEF found, u
<1>5. /\ Shape(t) /\ t.arrivals = u.arrivals /\ SamePaths(t, u) /\ SameTns(t, u)
      /\ SameInvalid(t, u) /\ SameEnds(t, u) /\ t.invalidTns = u.invalidTns
      /\ t.requireds = TRUE
  <2>1. t = [u EXCEPT !.requireds = TRUE]
    OBVIOUS
  <2> HIDE DEF t
  <2>2. /\ Shape(t) /\ t.arrivals = u.arrivals /\ SamePaths(t, u) /\ SameTns(t, u)
        /\ SameInvalid(t, u) /\ SameEnds(t, u) /\ t.invalidTns = u.invalidTns
    BY <1>3, <2>1 DEF Shape, SamePaths, SameTns, SameInvalid, SameEnds
  <2>3. t.requireds = TRUE
    BY <1>3, <2>1 DEF Shape
  <2>4. QED
    BY <2>2, <2>3
<1> HIDE DEF t
<1>6. Exact(t)
  BY <1>3, <1>5 DEF Exact, SearchType, IsPaths, SamePaths, SameTns,
                          SameInvalid, SameEnds, Summed
<1>7. t.arrivals /\ t.invalidArrivals = {} /\ t.invalidRequireds = {}
  BY <1>2, <1>4, <1>5 DEF Found, SameFlags, SameInvalid
<1>8. t.arr = F.arr
  BY <1>2, <1>4, <1>5 DEF SamePaths
<1>9. \A v \in Vertices \ Endpoints : t.req[v] = Inf
  <2>1. SUFFICES ASSUME NEW v \in Vertices \ Endpoints PROVE u.req[v] = Inf
    BY <1>5 DEF SamePaths
  <2>2. Required(found, v) = Inf /\ F.req[v] = Inf
    BY RequiredType DEF Found
  <2>3. QED
    BY <1>2, <1>4, <2>2 DEF SamePaths
<1>10. \A v \in graph : t.req[v] \in {limit[v], Inf}
  <2>1. SUFFICES ASSUME NEW v \in graph PROVE u.req[v] \in {limit[v], Inf}
    BY <1>5 DEF SamePaths
  <2>2. CASE v \in Endpoints
    BY <1>2, <1>4, <2>2, RequiredType
  <2>3. CASE v \notin Endpoints
    BY <2>3, <1>5, <1>9 DEF SamePaths
  <2>4. QED
    BY <2>2, <2>3
<1>11. RequiredsOk(t)
  BY <1>10 DEF RequiredsOk
<1>12. EndpointsOk(t)
  BY <1>2, <1>4, <1>5 DEF EndpointsOk, SameEnds
<1>13. t.tnsExists = search.tnsExists
  BY <1>2, <1>4, <1>5 DEF SameTns, Found
<1>14. Ready(t)
  BY <1>5, <1>6, <1>7, <1>8, <1>9, <1>11, <1>12, <1>13 DEF Ready, Searched, Found
<1>15. QED
  BY <1>7, <1>14 DEF t, u, found

LEMMA PreambleReady ==
  ASSUME NEW F, Found(F), EndpointsOk(search), RequiredsOk(search),
         NotedOk(search), graph \subseteq Vertices,
         limit \in [Vertices -> Limits \cup {Inf}],
         ~search.requireds => /\ ~(search.tnsExists \/ wns.exists)
                              /\ search.invalidRequireds = {}
  PROVE  Ready(WnsTnsPreamble(F))
<1> DEFINE P == WnsTnsPreamble(F)
<1>1. CASE ~search.requireds
  <2>1. ~F.requireds
    BY <1>1 DEF Found
  <2>2. P = [SeedRequired(FindEndpoints(F), FindEndpoints(F).endpoints)
               EXCEPT !.requireds = TRUE]
    BY <2>1 DEF WnsTnsPreamble
  <2>3. QED
    BY <1>1, <2>2, RequiredsSeeded
<1>2. CASE search.requireds
  <2> DEFINE ends == F.invalidRequireds \cap Endpoints
             u == SeedRequired(F, ends)
  <2>1. F.requireds /\ Exact(F)
    BY <1>2 DEF Found
  <2>2. P = [u EXCEPT !.invalidRequireds = u.invalidRequireds \ ends]
    BY <2>1 DEF WnsTnsPreamble
  <2>3. Exact(u) /\ Shape(u)
    BY <2>1, SeedRequiredType DEF Exact, SearchType
  <2>4. /\ SameFlags(u, F) /\ SameTns(u, F) /\ SameInvalid(u, F) /\ SameEnds(u, F)
        /\ u.invalidTns = F.invalidTns /\ u.arr = F.arr
        /\ u.req = [v \in Vertices |->
                      IF v \in ends THEN Required(F, v) ELSE F.req[v]]
    BY <2>1, SeedRequiredFields DEF Exact, SearchType
  <2> HIDE DEF u, P
  <2>5. /\ Shape(P) /\ SameFlags(P, u) /\ SamePaths(P, u) /\ SameTns(P, u)
        /\ SameEnds(P, u) /\ P.invalidTns = u.invalidTns
        /\ P.invalidArrivals = u.invalidArrivals /\ P.reqQueue = u.reqQueue
        /\ P.invalidRequireds = u.invalidRequireds \ ends
    BY <2>2, <2>3 DEF Shape, SameFlags, SamePaths, SameTns, SameEnds
  <2>6. /\ SameFlags(P, F) /\ SameTns(P, F) /\ SameEnds(P, F)
        /\ P.invalidTns = F.invalidTns /\ P.arr = F.arr /\ P.req = u.req
        /\ P.invalidArrivals = {} /\ P.reqQueue = F.reqQueue
        /\ P.invalidRequireds = F.invalidRequireds \ Endpoints
    BY <2>4, <2>5 DEF SameFlags, SamePaths, SameTns, SameEnds, SameInvalid, Found
  <2>7. Exact(P)
    BY <2>3, <2>5 DEF Exact, SearchType, IsPaths, SameFlags, SamePaths, SameTns,
                      SameEnds, Summed
  <2>8. \A v \in Vertices \ Endpoints : P.req[v] = Inf
    BY <2>4, <2>6 DEF Found
  <2>9. RequiredsOk(P)
    <3>1. SUFFICES ASSUME NEW v \in graph,
                          v \notin P.invalidRequireds \cup P.reqQueue
                   PROVE  P.req[v] \in {limit[v], Inf} \/ limit[v] = Inf
      BY DEF RequiredsOk
    <3>2. CASE v \notin Endpoints
      BY <2>8, <3>2
    <3>3. CASE v \in ends
      BY <2>4, <2>6, <3>3, RequiredType
    <3>4. CASE v \in Endpoints /\ v \notin ends
      <4>1. v \notin F.invalidRequireds /\ v \notin F.reqQueue
        BY <2>6, <3>1, <3>4
      <4>2. v \notin search.invalidRequireds \cup search.reqQueue
        BY <4>1 DEF Found
      <4>3. search.req[v] \in {limit[v], Inf} \/ limit[v] = Inf
        BY <1>2, <4>2 DEF RequiredsOk
      <4>4. P.req[v] = F.req[v] /\ F.req[v] \in {search.req[v], Inf}
        BY <2>4, <2>6, <3>4 DEF Found
      <4>5. QED
        BY <4>3, <4>4
    <3>5. QED
      BY <3>2, <3>3, <3>4
  <2>10. EndpointsOk(P)
    BY <2>6 DEF EndpointsOk, SameEnds, Found
  <2>11. ASSUME search.tnsExists \/ wns.exists
         PROVE  /\ search.invalidTns \subseteq P.invalidTns
                /\ \A v \in Endpoints \ P.invalidTns :
                     P.arr[v] = search.arr[v] /\ P.req[v] = search.req[v]
    <3>1. P.invalidTns = search.invalidTns \cup Changed
      BY <2>6, <2>11 DEF Found
    <3>2. SUFFICES ASSUME NEW v \in Endpoints, v \notin P.invalidTns
                   PROVE  P.arr[v] = search.arr[v] /\ P.req[v] = search.req[v]
      BY <3>1
    <3>3. v \notin Changed /\ v \notin search.invalidRequireds
      BY <2>11, <3>1, <3>2 DEF NotedOk
    <3>4. v \notin ends
      BY <3>3 DEF Found
    <3>5. v \in Vertices
      BY <3>2 DEF Endpoints
    <3>6. QED
      BY <2>4, <2>6, <3>2, <3>3, <3>4, <3>5 DEF Found
  <2>12. QED
    BY <2>1, <2>6, <2>7, <2>8, <2>9, <2>10, <2>11
       DEF Ready, Searched, Found, SameFlags, SameTns, P
<1>3. QED
  BY <1>1, <1>2

LEMMA ArrivalsSearched ==
  ASSUME NEW F, Found(F), search.requireds, EndpointsOk(search),
         RequiredsOk(search), graph \subseteq Vertices
  PROVE  Searched(F)
<1>1. RequiredsOk(F)
  BY DEF RequiredsOk, Found
<1>2. EndpointsOk(F)
  BY DEF EndpointsOk, Found, SameEnds
<1>3. ASSUME search.tnsExists \/ wns.exists
      PROVE  /\ search.invalidTns \subseteq F.invalidTns
             /\ \A v \in Endpoints \ F.invalidTns :
                  F.arr[v] = search.arr[v] /\ F.req[v] = search.req[v]
  BY <1>3 DEF Found
<1>4. QED
  BY <1>1, <1>2, <1>3 DEF Searched, Found

LEMMA VisitReady ==
  ASSUME NEW q, Searched(q), q.invalidRequireds = {}, NEW V,
         graph \subseteq Vertices, limit \in [Vertices -> Limits \cup {Inf}]
  PROVE  Ready(VisitRequireds(q, V))
<1> DEFINE u == SeedRequired(q, V)
           n == TnsInvalid(u, V, Endpoints)
           t == VisitRequireds(q, V)
<1>1. Exact(u) /\ Shape(u)
  BY SeedRequiredType DEF Exact, SearchType, Searched
<1>2. /\ SameFlags(u, q) /\ SameTns(u, q) /\ SameInvalid(u, q) /\ SameEnds(u, q)
      /\ u.invalidTns = q.invalidTns /\ u.arr = q.arr
      /\ u.req = [v \in Vertices |->
                    IF v \in V THEN Required(q, v) ELSE q.req[v]]
  BY SeedRequiredFields DEF Exact, SearchType, Searched
<1>3. /\ Shape(n)
      /\ SameFlags(n, u) /\ SamePaths(n, u) /\ SameTns(n, u)
      /\ SameEnds(n, u) /\ SameInvalid(n, u)
      /\ n.invalidTns = IF u.tnsExists \/ wns.exists
                          THEN u.invalidTns \cup (V \cap Endpoints)
                          ELSE u.invalidTns
  BY <1>1, TnsInvalidFields
<1>4. t = [n EXCEPT !.reqQueue = n.reqQueue \ V]
  BY DEF VisitRequireds
<1> HIDE DEF u, n, t
<1>5. /\ Shape(t)
      /\ SameFlags(t, n) /\ SamePaths(t, n) /\ SameTns(t, n) /\ SameEnds(t, n)
      /\ t.invalidArrivals = n.invalidArrivals
      /\ t.invalidRequireds = n.invalidRequireds
      /\ t.reqQueue = n.reqQueue \ V /\ t.invalidTns = n.invalidTns
  BY <1>3, <1>4 DEF Shape, SameFlags, SamePaths, SameTns, SameEnds
<1>6. /\ SameFlags(t, q) /\ SameTns(t, q) /\ SameEnds(t, q)
      /\ t.invalidArrivals = {} /\ t.invalidRequireds = {}
      /\ t.reqQueue = q.reqQueue \ V /\ t.arr = q.arr /\ t.req = u.req
      /\ t.invalidTns = IF search.tnsExists \/ wns.exists
                          THEN q.invalidTns \cup (V \cap Endpoints)
                          ELSE q.invalidTns
  BY <1>2, <1>3, <1>5
     DEF SameFlags, SamePaths, SameTns, SameEnds, SameInvalid, Searched
<1>7. Exact(t)
  <2>1. Endpoints \subseteq graph
    BY DEF Endpoints
  <2>2. QED
    BY <1>1, <1>2, <1>5, <1>6, <2>1
       DEF Exact, SearchType, IsPaths, SameFlags, SamePaths, SameTns,
           SameEnds, SameInvalid, Summed, Searched
<1>8. \A v \in Vertices \ Endpoints : t.req[v] = Inf
  BY <1>2, <1>6, RequiredType DEF Searched
<1>9. RequiredsOk(t)
  <2>1. SUFFICES ASSUME NEW v \in graph, v \notin t.reqQueue
                 PROVE  t.req[v] \in {limit[v], Inf} \/ limit[v] = Inf
    BY DEF RequiredsOk
  <2>2. CASE v \in V
    BY <1>2, <1>6, <2>2, RequiredType
  <2>3. CASE v \notin V
    BY <1>2, <1>6, <2>1, <2>3 DEF Searched, RequiredsOk
  <2>4. QED
    BY <2>2, <2>3
<1>10. EndpointsOk(t)
  BY <1>6 DEF EndpointsOk, SameEnds, Searched
<1>11. ASSUME search.tnsExists \/ wns.exists
       PROVE  /\ search.invalidTns \subseteq t.invalidTns
              /\ \A v \in Endpoints \ t.invalidTns :
                   t.arr[v] = search.arr[v] /\ t.req[v] = search.req[v]
  <2>1. SUFFICES ASSUME NEW v \in Endpoints, v \notin t.invalidTns
                 PROVE  t.arr[v] = search.arr[v] /\ t.req[v] = search.req[v]
    BY <1>6, <1>11 DEF Searched
  <2>2. v \notin V /\ v \in Vertices
    BY <1>6, <1>11, <2>1 DEF Endpoints
  <2>3. QED
    BY <1>2, <1>6, <1>11, <2>1, <2>2 DEF Searched
<1>12. QED
  BY <1>6, <1>7, <1>8, <1>9, <1>10, <1>11
     DEF Ready, Searched, SameFlags, SameTns, t

LEMMA RequiredsReady ==
  ASSUME NEW F, Found(F), EndpointsOk(search), RequiredsOk(search),
         graph \subseteq Vertices, limit \in [Vertices -> Limits \cup {Inf}],
         ~search.requireds => /\ ~(search.tnsExists \/ wns.exists)
                              /\ search.invalidRequireds = {},
         NEW V
  PROVE  LET found == FindEndpoints(F)
             seeded == IF F.requireds
                         THEN F
                         ELSE [SeedRequired(found, found.endpoints)
                                 EXCEPT !.requireds = TRUE]
             queued == [seeded EXCEPT !.reqQueue = @ \cup F.invalidRequireds,
                                      !.invalidRequireds = {}]
         IN  Ready(VisitRequireds(queued, V))
<1> DEFINE found == FindEndpoints(F)
           seeded == IF F.requireds
                       THEN F
                       ELSE [SeedRequired(found, found.endpoints)
                               EXCEPT !.requireds = TRUE]
           q == [seeded EXCEPT !.reqQueue = @ \cup F.invalidRequireds,
                               !.invalidRequireds = {}]
<1>1. Searched(seeded) /\ seeded.invalidRequireds \subseteq F.invalidRequireds
  <2>1. CASE search.requireds
    <3>1. seeded = F
      BY <2>1 DEF Found
    <3>2. QED
      BY <2>1, <3>1, ArrivalsSearched
  <2>2. CASE ~search.requireds
    <3>1. seeded = [SeedRequired(found, found.endpoints) EXCEPT !.requireds = TRUE]
      BY <2>2 DEF Found
    <3> HIDE DEF seeded
    <3>2. Ready(seeded) /\ seeded.invalidRequireds = {}
      BY <2>2, <3>1, RequiredsSeeded
    <3>3. QED
      BY <3>2 DEF Ready
  <2>3. QED
    BY <2>1, <2>2
<1>2. q = [seeded EXCEPT !.reqQueue = seeded.reqQueue \cup F.invalidRequireds,
                         !.invalidRequireds = {}]
  OBVIOUS
<1>3. F.invalidRequireds \subseteq graph
  BY DEF Found, Exact, SearchType
<1> HIDE DEF seeded, q
<1>4. /\ Shape(q)
      /\ SameFlags(q, seeded) /\ SamePaths(q, seeded) /\ SameTns(q, seeded)
      /\ SameEnds(q, seeded) /\ q.invalidArrivals = seeded.invalidArrivals
      /\ q.reqQueue = seeded.reqQueue \cup F.invalidRequireds
      /\ q.invalidRequireds = {} /\ q.invalidTns = seeded.invalidTns
  BY <1>1, <1>2 DEF Searched, Exact, SearchType, Shape, SameFlags, SamePaths,
                    SameTns, SameEnds
<1>5. Exact(q)
  BY <1>1, <1>3, <1>4 DEF Searched, Exact, SearchType, IsPaths, SameFlags,
                          SamePaths, SameTns, SameEnds, Summed
<1>6. RequiredsOk(q) /\ EndpointsOk(q)
  BY <1>1, <1>4 DEF Searched, RequiredsOk, EndpointsOk, SameFlags, SamePaths, SameEnds
<1>7. Searched(q)
  BY <1>1, <1>4, <1>5, <1>6 DEF Searched, SameFlags, SamePaths, SameTns
<1>8. Ready(VisitRequireds(q, V))
  BY <1>4, <1>7, VisitReady
<1>9. QED
  BY <1>8 DEF q, seeded

------------------------------------------------------------------------------
(* updateTns and findTotalNegativeSlacks leave the right entries.          *)
Counted(s, v) ==
  IF Slack(s, v) < 0
    THEN v \in DOMAIN s.tnsSlacks /\ s.tnsSlacks[v] = Slack(s, v)
    ELSE v \notin DOMAIN s.tnsSlacks

LEMMA SameSlack ==
  ASSUME NEW s, NEW t, NEW v, t.arr[v] = s.arr[v], t.req[v] = s.req[v]
  PROVE  Slack(t, v) = Slack(s, v)
BY DEF Slack

LEMMA UpdateTnsFields ==
  ASSUME NEW s, Exact(s), NEW v \in Vertices
  PROVE  LET t == UpdateTns(s, v)
         IN  /\ Exact(t)
             /\ SameFlags(t, s) /\ SamePaths(t, s) /\ SameInvalid(t, s)
             /\ SameEnds(t, s) /\ t.invalidTns = s.invalidTns
             /\ t.tnsExists = s.tnsExists
             /\ Counted(t, v)
             /\ \A u \in Vertices \ {v} : Counted(s, u) => Counted(t, u)
<1> DEFINE d == TnsDecr(s, {v})
           t == UpdateTns(s, v)
<1>1. Shape(s) /\ Summed(s) /\ Tabled(s) /\ IsPaths(s)
  BY DEF Exact, SearchType, Tabled
<1>2. /\ Shape(d)
      /\ SameFlags(d, s) /\ SamePaths(d, s) /\ SameInvalid(d, s)
      /\ SameEnds(d, s) /\ d.invalidTns = s.invalidTns
      /\ d.tnsExists = s.tnsExists /\ Summed(d) /\ Tabled(d)
      /\ IsWithout(d.tnsSlacks, s.tnsSlacks, {v})
  BY <1>1, TnsDecrFields
<1>3. IsPaths(d) /\ {v} \subseteq Vertices /\ {v} \cap DOMAIN d.tnsSlacks = {}
  BY <1>1, <1>2 DEF IsPaths, SamePaths, IsWithout
<1>4. t = TnsIncr(d, {v})
  BY DEF UpdateTns
<1> HIDE DEF d, t
<1>5. /\ Shape(t)
      /\ SameFlags(t, d) /\ SamePaths(t, d) /\ SameInvalid(t, d)
      /\ SameEnds(t, d) /\ t.invalidTns = d.invalidTns
      /\ t.tnsExists = d.tnsExists /\ Summed(t) /\ Tabled(t)
      /\ IsWith(t.tnsSlacks, d.tnsSlacks, d, {v})
  BY <1>2, <1>3, <1>4, TnsIncrFields
<1>6. /\ SameFlags(t, s) /\ SamePaths(t, s) /\ SameInvalid(t, s)
      /\ SameEnds(t, s) /\ t.invalidTns = s.invalidTns
      /\ t.tnsExists = s.tnsExists
  BY <1>2, <1>5 DEF SameFlags, SamePaths, SameInvalid, SameEnds
<1>7. Exact(t)
  BY <1>5, <1>6 DEF Exact, SearchType, Summed, Tabled, IsPaths, SameFlags,
                    SamePaths, SameInvalid, SameEnds
<1>8. \A u \in Vertices : Slack(t, u) = Slack(s, u) /\ Slack(d, u) = Slack(s, u)
  BY <1>2, <1>6 DEF Slack, SamePaths
<1>9. Counted(t, v)
  BY <1>5, <1>8, <1>3 DEF Counted, IsWith
<1>10. ASSUME NEW u \in Vertices \ {v}, Counted(s, u) PROVE Counted(t, u)
  <2>1. Slack(t, u) = Slack(s, u)
    BY <1>8
  <2>2. u \in DOMAIN t.tnsSlacks <=> u \in DOMAIN s.tnsSlacks
    BY <1>2, <1>5 DEF IsWith, IsWithout
  <2>3. u \in DOMAIN t.tnsSlacks => t.tnsSlacks[u] = s.tnsSlacks[u]
    BY <1>2, <1>5 DEF IsWith, IsWithout
  <2>4. QED
    BY <1>10, <2>1, <2>2, <2>3 DEF Counted
<1>11. QED
  BY <1>6, <1>7, <1>9, <1>10 DEF t

LEMMA NoSlacksSum ==
  IsSlackTable(NoSlacks) /\ SumFunction(NoSlacks) = 0 /\ DOMAIN NoSlacks = {}
<1>1. DOMAIN NoSlacks = {}
  BY DEF NoSlacks
<1>2. IsSlackTable(NoSlacks)
  BY DEF NoSlacks, IsSlackTable
<1> HIDE DEF NoSlacks
<1>3. SumFunction(NoSlacks) = 0
  BY <1>1, SumEmpty DEF SumFunction
<1>4. QED
  BY <1>1, <1>2, <1>3

LEMMA FindTotalFields ==
  ASSUME NEW s, Exact(s), EndpointsOk(s), graph \subseteq Vertices
  PROVE  LET t == FindTotalNegativeSlacks(s)
         IN  /\ Exact(t)
             /\ SameFlags(t, s) /\ SamePaths(t, s) /\ SameInvalid(t, s)
             /\ EndpointsOk(t) /\ t.invalidTns = s.invalidTns
             /\ t.tnsExists
             /\ \A v \in Endpoints : Counted(t, v)
<1> DEFINE z == [s EXCEPT !.tns = 0, !.tnsSlacks = NoSlacks]
           found == FindEndpoints(z)
           c == TnsIncr(found, found.endpoints)
           t == FindTotalNegativeSlacks(s)
<1>1. IsSlackTable(NoSlacks) /\ SumFunction(NoSlacks) = 0 /\ DOMAIN NoSlacks = {}
  BY NoSlacksSum
<1>2. Shape(s)
  BY DEF Exact, SearchType
<1>3. /\ Shape(z) /\ SameFlags(z, s) /\ SamePaths(z, s) /\ SameInvalid(z, s)
      /\ SameEnds(z, s) /\ z.invalidTns = s.invalidTns
      /\ z.tnsExists = s.tnsExists /\ z.tns = 0 /\ z.tnsSlacks = NoSlacks
  <2>1. z = [s EXCEPT !.tns = 0, !.tnsSlacks = NoSlacks]
    OBVIOUS
  <2> HIDE DEF z
  <2>2. /\ Shape(z) /\ SameFlags(z, s) /\ SamePaths(z, s) /\ SameInvalid(z, s)
        /\ SameEnds(z, s) /\ z.invalidTns = s.invalidTns
        /\ z.tnsExists = s.tnsExists /\ z.tnsSlacks = NoSlacks
    BY <1>2, <2>1 DEF Shape, SameFlags, SamePaths, SameInvalid, SameEnds
  <2>3. z.tns = 0
    BY <1>2, <2>1 DEF Shape
  <2>4. QED
    BY <2>2, <2>3
<1> HIDE DEF z
<1>4. Exact(z) /\ EndpointsOk(z)
  BY <1>1, <1>3 DEF Exact, SearchType, IsPaths, SameFlags, SamePaths, SameInvalid,
                    SameEnds, Summed, EndpointsOk
<1> HIDE DEF found
<1>5. /\ Exact(found)
      /\ SameFlags(found, z) /\ SamePaths(found, z) /\ SameTns(found, z)
      /\ SameInvalid(found, z) /\ found.invalidTns = z.invalidTns
      /\ found.endpointsFound /\ found.invalidEndpoints = {}
      /\ Endpoints \subseteq found.endpoints
  BY <1>4, EndpointsFound DEF found
<1>6. /\ Shape(found) /\ IsPaths(found) /\ Summed(found) /\ Tabled(found)
      /\ found.endpoints \subseteq Vertices
      /\ found.endpoints \cap DOMAIN found.tnsSlacks = {}
  BY <1>1, <1>3, <1>5 DEF Exact, SearchType, Tabled, SameTns
<1> HIDE DEF c
<1>7. /\ Shape(c)
      /\ SameFlags(c, found) /\ SamePaths(c, found) /\ SameInvalid(c, found)
      /\ SameEnds(c, found) /\ c.invalidTns = found.invalidTns
      /\ c.tnsExists = found.tnsExists /\ Summed(c) /\ Tabled(c)
      /\ IsWith(c.tnsSlacks, found.tnsSlacks, found, found.endpoints)
  BY <1>6, TnsIncrFields DEF c
<1>8. t = [c EXCEPT !.tnsExists = TRUE]
  BY DEF FindTotalNegativeSlacks, c, found, z
<1> HIDE DEF t
<1>9. /\ Shape(t)
      /\ SameFlags(t, c) /\ SamePaths(t, c) /\ SameInvalid(t, c)
      /\ SameEnds(t, c) /\ t.invalidTns = c.invalidTns
      /\ t.tns = c.tns /\ t.tnsSlacks = c.tnsSlacks
  BY <1>7, <1>8 DEF Shape, SameFlags, SamePaths, SameInvalid, SameEnds
<1>10. t.tnsExists = TRUE
  BY <1>7, <1>8 DEF Shape
<1>11. /\ SameFlags(t, s) /\ SamePaths(t, s) /\ SameInvalid(t, s)
       /\ t.invalidTns = s.invalidTns
  BY <1>3, <1>5, <1>7, <1>9 DEF SameFlags, SamePaths, SameInvalid
<1>12. SameEnds(t, found)
  BY <1>7, <1>9 DEF SameEnds
<1>13. Exact(t)
  BY <1>5, <1>7, <1>9, <1>10, <1>11, <1>12
     DEF Exact, SearchType, Tabled, IsPaths, SameFlags, SamePaths, SameInvalid,
         SameEnds, Summed
<1>14. EndpointsOk(t)
  BY <1>5, <1>12 DEF EndpointsOk, SameEnds
<1>15. ASSUME NEW v \in Endpoints PROVE Counted(t, v)
  <2>1. Slack(t, v) = Slack(found, v)
    BY <1>7, <1>9 DEF Slack, SamePaths
  <2>2. DOMAIN found.tnsSlacks = {}
    BY <1>1, <1>3, <1>5 DEF SameTns
  <2>3. QED
    BY <1>5, <1>7, <1>9, <2>1, <2>2 DEF Counted, IsWith
<1>16. QED
  BY <1>10, <1>11, <1>13, <1>14, <1>15 DEF t

------------------------------------------------------------------------------
WorstType(w, G) ==
  /\ WorstShape(w)
  /\ w.exists \in BOOLEAN /\ w.worst \in MaybeNone(G)
  /\ w.slack \in Int /\ w.slack <= Inf /\ w.threshold \in Int
  /\ w.queue \subseteq G /\ w.maxSize \in Nat

LEMMA NotifyFields ==
  ASSUME NEW w, NEW G, WorstType(w, G), NEW V
  PROVE  LET x == WorstSlackNotifyBefore(w, V)
         IN  /\ WorstType(x, G)
             /\ x.exists = w.exists /\ x.threshold = w.threshold
             /\ x.queue = w.queue \ V
             /\ x.worst = IF w.worst \in V THEN None ELSE w.worst
             /\ x.slack = IF w.worst \in V THEN Inf ELSE w.slack
<1> DEFINE x == WorstSlackNotifyBefore(w, V)
           worst == IF w.worst \in V THEN None ELSE w.worst
           slack == IF w.worst \in V THEN Inf ELSE w.slack
<1>1. x = [w EXCEPT !.worst = worst, !.slack = slack, !.queue = w.queue \ V]
  BY DEF WorstSlackNotifyBefore
<1>2. /\ worst \in MaybeNone(G) /\ slack \in Int /\ slack <= Inf
  BY SlacksAssumption DEF WorstType, MaybeNone
<1> HIDE DEF x, worst, slack
<1>3. /\ WorstShape(x)
      /\ x.exists = w.exists /\ x.threshold = w.threshold
      /\ x.queue = w.queue \ V /\ x.worst = worst /\ x.slack = slack
      /\ x.maxSize = w.maxSize
  BY <1>1 DEF WorstType, WorstShape
<1>4. WorstType(x, G)
  BY <1>2, <1>3 DEF WorstType
<1>5. QED
  BY <1>3, <1>4 DEF x, worst, slack

(* What updateWorstSlack does to w, which x is then, for the slack of v.   *)
Updated(x, w, v, slack) ==
  LET better == w.worst # None /\ slack < w.slack
  IN  /\ x.exists = w.exists /\ x.threshold = w.threshold
      /\ x.queue = IF slack # Inf /\ slack <= w.threshold
                     THEN w.queue \cup {v} ELSE w.queue \ {v}
      /\ x.worst = IF better THEN v ELSE IF v = w.worst THEN None ELSE w.worst
      /\ x.slack = IF better THEN slack ELSE w.slack

LEMMA UpdateWorstFields ==
  ASSUME NEW w, NEW G, WorstType(w, G), NEW v \in G,
         NEW slack \in Int, slack <= Inf
  PROVE  LET x == UpdateWorstSlack(w, v, slack)
         IN  WorstType(x, G) /\ Updated(x, w, v, slack)
<1> DEFINE x == UpdateWorstSlack(w, v, slack)
           better == w.worst # None /\ slack < w.slack
           worst == IF better THEN v ELSE IF v = w.worst THEN None ELSE w.worst
           least == IF better THEN slack ELSE w.slack
           queue == IF slack # Inf /\ slack <= w.threshold
                      THEN w.queue \cup {v} ELSE w.queue \ {v}
<1>1. x = [w EXCEPT !.worst = worst, !.slack = least, !.queue = queue]
  BY DEF UpdateWorstSlack
<1>2. /\ worst \in MaybeNone(G) /\ least \in Int /\ least <= Inf
      /\ queue \subseteq G
  BY DEF WorstType, MaybeNone
<1> HIDE DEF x, worst, least, queue
<1>3. /\ WorstShape(x)
      /\ x.exists = w.exists /\ x.threshold = w.threshold
      /\ x.queue = queue /\ x.worst = worst /\ x.slack = least
      /\ x.maxSize = w.maxSize
  BY <1>1 DEF WorstType, WorstShape
<1>4. WorstType(x, G)
  BY <1>2, <1>3 DEF WorstType
<1>5. QED
  BY <1>3, <1>4 DEF x, worst, least, queue, Updated

LEMMA QueuedFields ==
  ASSUME NEW w, NEW G, WorstType(w, G), NEW v \in G, NEW s,
         Slack(s, v) \in Int, Slack(s, v) <= Inf
  PROVE  LET x == Queued(s, w, v)
             worse == Slack(s, v) < w.slack
         IN  /\ WorstType(x, G)
             /\ x.exists = w.exists /\ x.threshold = w.threshold
             /\ x.queue = IF Slack(s, v) <= w.threshold
                            THEN w.queue \cup {v} ELSE w.queue
             /\ x.worst = IF worse THEN v ELSE w.worst
             /\ x.slack = IF worse THEN Slack(s, v) ELSE w.slack
<1> DEFINE x == Queued(s, w, v)
           worse == Slack(s, v) < w.slack
           worst == IF worse THEN v ELSE w.worst
           least == IF worse THEN Slack(s, v) ELSE w.slack
           queue == IF Slack(s, v) <= w.threshold
                      THEN w.queue \cup {v} ELSE w.queue
<1>1. x = [w EXCEPT !.worst = worst, !.slack = least, !.queue = queue]
  BY DEF Queued
<1>2. /\ worst \in MaybeNone(G) /\ least \in Int /\ least <= Inf
      /\ queue \subseteq G
  BY DEF WorstType, MaybeNone
<1> HIDE DEF x, worst, least, queue
<1>3. /\ WorstShape(x)
      /\ x.exists = w.exists /\ x.threshold = w.threshold
      /\ x.queue = queue /\ x.worst = worst /\ x.slack = least
      /\ x.maxSize = w.maxSize
  BY <1>1 DEF WorstType, WorstShape
<1>4. WorstType(x, G)
  BY <1>2, <1>3 DEF WorstType
<1>5. QED
  BY <1>3, <1>4 DEF x, worst, least, queue

------------------------------------------------------------------------------
(* Those of Q with at most the slack of v.                                 *)
UpTo(s, Q, v) == {u \in Q : Slack(s, u) <= Slack(s, v)}
Below(s, Q, v) == {u \in Q : Slack(s, u) < Slack(s, v)}

(* The vertex at any place of the queue in the order of the slacks exists. *)
LEMMA Placed ==
  ASSUME NEW s, IsPaths(s), NEW Q, Q \subseteq Vertices,
         NEW n \in Nat, n < Cardinality(Q)
  PROVE  \E v \in Q : /\ Cardinality(Below(s, Q, v)) <= n
                      /\ n < Cardinality(UpTo(s, Q, v))
<1>1. IsFiniteSet(Q)
  BY SlacksAssumption, FS_Subset
<1>2. \A v \in Q : Slack(s, v) \in Int
  BY SlackType
<1>3. ASSUME NEW D, D \subseteq Q, D # {}
      PROVE  \E m \in D : \A u \in D : Slack(s, u) <= Slack(s, m)
  <2> DEFINE B == {UpTo(s, Q, v) : v \in D}
  <2>1. B \subseteq SUBSET Q /\ B # {}
    BY <1>3 DEF UpTo
  <2>2. PICK T \in B : \A U \in B : T \subseteq U => U = T
    <3> HIDE DEF B
    <3>1. QED
      BY <1>1, <2>1, GreatestSubset
  <2>3. PICK m \in D : T = UpTo(s, Q, m)
    OBVIOUS
  <2>4. ASSUME NEW u \in D PROVE Slack(s, u) <= Slack(s, m)
    <3>1. SUFFICES ASSUME Slack(s, m) < Slack(s, u) PROVE FALSE
      BY <1>2, <1>3
    <3>2. UpTo(s, Q, m) \subseteq UpTo(s, Q, u)
      BY <1>2, <1>3, <3>1 DEF UpTo
    <3>3. UpTo(s, Q, u) = UpTo(s, Q, m)
      BY <2>2, <2>3, <3>2
    <3>4. u \in UpTo(s, Q, u) /\ u \notin UpTo(s, Q, m)
      BY <1>2, <1>3, <3>1 DEF UpTo
    <3>5. QED
      BY <3>3, <3>4
  <2>5. QED
    BY <2>4
<1> DEFINE Long == {T \in {UpTo(s, Q, v) : v \in Q} : n < Cardinality(T)}
<1>4. Long \subseteq SUBSET Q /\ Long # {}
  <2>1. Q # {}
    BY FS_EmptySet
  <2>2. PICK m \in Q : \A u \in Q : Slack(s, u) <= Slack(s, m)
    BY <1>3, <2>1
  <2>3. UpTo(s, Q, m) = Q
    BY <2>2 DEF UpTo
  <2>4. Long \subseteq SUBSET Q
    BY DEF UpTo
  <2>5. Q \in Long
    BY <2>3
  <2>6. QED
    BY <2>4, <2>5
<1>5. PICK T \in Long : \A U \in Long : U \subseteq T => U = T
  <2> HIDE DEF Long
  <2>1. QED
    BY <1>1, <1>4, LeastSubset
<1>6. PICK v \in Q : T = UpTo(s, Q, v)
  OBVIOUS
<1>7. n < Cardinality(UpTo(s, Q, v))
  BY <1>5, <1>6
<1> DEFINE D == Below(s, Q, v)
<1>8. D \subseteq Q /\ IsFiniteSet(D) /\ Cardinality(D) \in Nat
  <2>1. D \subseteq Q
    BY DEF Below
  <2>2. QED
    BY <1>1, <2>1, FS_Subset, FS_CardinalityType
<1>9. Cardinality(D) <= n
  <2>1. SUFFICES ASSUME n < Cardinality(D) PROVE FALSE
    BY <1>8
  <2>2. D # {}
    BY <2>1, FS_EmptySet
  <2>3. PICK m \in D : \A u \in D : Slack(s, u) <= Slack(s, m)
    BY <1>3, <1>8, <2>2
  <2>4. m \in Q /\ Slack(s, m) < Slack(s, v)
    BY DEF Below
  <2>5. UpTo(s, Q, m) = D
    BY <1>2, <2>3, <2>4 DEF UpTo, Below
  <2>6. UpTo(s, Q, m) \in Long
    BY <2>1, <2>4, <2>5
  <2>7. UpTo(s, Q, m) \subseteq UpTo(s, Q, v)
    BY <1>2, <2>4 DEF UpTo
  <2>8. UpTo(s, Q, m) = UpTo(s, Q, v)
    BY <1>5, <1>6, <2>6, <2>7
  <2>9. v \in UpTo(s, Q, v) /\ v \notin D
    BY <1>2 DEF UpTo, Below
  <2>10. QED
    BY <2>5, <2>8, <2>9
<1>10. QED
  BY <1>7, <1>9

LEMMA ThresholdIn ==
  ASSUME NEW s, IsPaths(s), NEW Q, Q \subseteq Vertices, Q # {}
  PROVE  \E v \in Q : Threshold(s, Q) = Slack(s, v)
<1> DEFINE size == Cardinality(Q)
           index == IF MinQueueSize < size - 1 THEN MinQueueSize ELSE size - 1
           P(v) == Cardinality(Below(s, Q, v)) <= index
                     /\ index < Cardinality(UpTo(s, Q, v))
<1>1. size \in Nat \ {0}
  BY SlacksAssumption, FS_Subset, FS_CardinalityType, FS_EmptySet
<1>2. index \in Nat /\ index < size
  BY <1>1, SlacksAssumption
<1>3. Threshold(s, Q) = Slack(s, CHOOSE v \in Q : P(v))
  BY DEF Threshold, Below, UpTo
<1>4. \E v \in Q : P(v)
  <2> HIDE DEF index
  <2>1. QED
    BY <1>2, Placed
<1>5. (CHOOSE v \in Q : P(v)) \in Q
  <2> HIDE DEF P
  <2>1. QED
    BY <1>4
<1>6. QED
  BY <1>3, <1>5

LEMMA SortQueueFields ==
  ASSUME NEW s, IsPaths(s), NEW w, NEW G, WorstType(w, G), G \subseteq Vertices,
         NEW first \in w.queue
  PROVE  LET x == SortQueue(s, w, first)
         IN  /\ WorstType(x, G)
             /\ x.exists = w.exists
             /\ x.queue = {v \in w.queue : Slack(s, v) <= x.threshold}
             /\ x.worst = first /\ x.slack = Slack(s, first)
             /\ \E v \in w.queue : x.threshold = Slack(s, v)
<1> DEFINE threshold == Threshold(s, w.queue)
           kept == {v \in w.queue : Slack(s, v) <= threshold}
           x == SortQueue(s, w, first)
           size == 2 * Cardinality(kept)
           slack == Slack(s, first)
<1>1. w.queue \subseteq G /\ w.queue \subseteq Vertices
  BY DEF WorstType
<1>2. PICK v \in w.queue : threshold = Slack(s, v)
  BY <1>1, ThresholdIn
<1>3. threshold \in Int /\ slack \in Int /\ slack <= Inf
  BY <1>1, <1>2, SlackType
<1>4. kept \subseteq G /\ size \in Nat
  <2>1. kept \in SUBSET Vertices /\ kept \subseteq G
    BY <1>1
  <2> HIDE DEF kept
  <2>2. Cardinality(kept) \in Nat
    BY <2>1, SlacksAssumption, FS_Subset, FS_CardinalityType
  <2>3. QED
    BY <2>1, <2>2
<1>5. x = [w EXCEPT !.threshold = threshold, !.queue = kept, !.maxSize = size,
                    !.worst = first, !.slack = slack]
  BY DEF SortQueue
<1> HIDE DEF x, threshold, kept, size, slack
<1>6. /\ WorstShape(x)
      /\ x.exists = w.exists /\ x.threshold = threshold
      /\ x.queue = kept /\ x.worst = first /\ x.slack = slack
      /\ x.maxSize = size
  BY <1>5 DEF WorstType, WorstShape
<1>7. WorstType(x, G)
  BY <1>1, <1>3, <1>4, <1>6 DEF WorstType, MaybeNone
<1>8. QED
  BY <1>2, <1>6, <1>7 DEF x, kept, slack

------------------------------------------------------------------------------
Updating == query \in {"tnsUpdate", "wnsUpdate"}

(* The vertices the slack of which is still to be counted.                 *)
Pending == IF Updating THEN todo ELSE search.invalidTns

DesignType ==
  /\ graph \subseteq Vertices /\ reached \subseteq graph
  /\ wired \in [Vertices -> BOOLEAN]
  /\ data \in [Vertices -> MaybeNone(Arrivals)]
  /\ limit \in [Vertices -> Limits \cup {Inf}]

QueryType ==
  /\ query \in Queries /\ todo \subseteq Vertices
  /\ answer.of \in {"none", "tns", "wns"} /\ edits \in 0..MaxEdits

SearchFlags ==
  /\ ~search.arrivals => /\ ~search.requireds /\ search.invalidArrivals = {}
                         /\ search.arr = NoPaths /\ search.req = NoRequireds
  /\ ~search.requireds => search.invalidRequireds = {} /\ search.invalidTns = {}
  /\ search.tnsExists \/ wns.exists => search.requireds
  /\ ~wns.exists => wns = NoWorst

QueryFlags ==
  /\ query # "idle" => answer.of = "none"
  /\ query = "tnsUpdate" => search.tnsExists
  /\ query \in {"wnsUpdate", "worst", "initQueue"} => wns.exists
  /\ Updating => todo \subseteq search.invalidTns

(* What a search left: nothing is invalid but required times off the       *)
(* endpoints.                                                              *)
Fresh ==
  /\ search.requireds /\ search.invalidArrivals = {} /\ reached = {}
  /\ search.invalidRequireds \cap Endpoints = {}

SearchHeld ==
  /\ PathsHeld /\ ArrivalsHeld
  /\ RequiredsOk(search) /\ EndpointsOk(search) /\ NotedOk(search)
  /\ query # "idle" \/ answer.of # "none" => Fresh

(* The endpoints outside P are counted in the table of s.                  *)
AreCounted(s, P) == \A v \in Endpoints \ P : Counted(s, v)

TnsHeld ==
  /\ search.tnsExists => AreCounted(search, Pending)
  /\ answer.of = "tns" => AreCounted(search, {})

Held(s, w, v) ==
  v \in w.queue <=> Slack(s, v) # Inf /\ Slack(s, v) <= w.threshold

(* The queue and the worst slack of w are right outside P.                 *)
AreHeld(s, w, P) ==
  /\ \A v \in Endpoints \ P : Held(s, w, v)
  /\ w.worst # None => \A v \in Endpoints \ P : w.slack <= Slack(s, v)
  /\ w.worst \in Endpoints \ P => w.slack = Slack(s, w.worst)

(* What w refers to is an endpoint, or is to be notified.                  *)
Within(s, w) ==
  /\ w.queue \subseteq Endpoints \cup s.invalidArrivals
  /\ w.worst \in {None} \cup Endpoints \cup s.invalidArrivals

(* The queue is to be initialized.                                         *)
ToQueue == query = "worst" /\ wns.worst = None /\ wns.queue = {}

(* The queue of w while it is filled, P still to be looked at.             *)
AreQueued(s, w, P) ==
  /\ w.queue \subseteq Endpoints \ P
  /\ \A v \in Endpoints \ P : Held(s, w, v) /\ w.slack <= Slack(s, v)
  /\ IF w.worst = None
       THEN w.slack = Inf
       ELSE w.worst \in Endpoints /\ w.slack = Slack(s, w.worst)

WorstHeld ==
  /\ wns.exists =>
       /\ Within(search, wns)
       /\ query # "initQueue" /\ ~ToQueue => AreHeld(search, wns, Pending)
       /\ query = "worst" /\ ~ToQueue => search.invalidTns = {}
       /\ query = "initQueue" => AreQueued(search, wns, todo)

(* The answer a is the worst slack.                                        *)
IsWorst(s, a) ==
  /\ \A v \in Endpoints : a.slack <= Slack(s, v)
  /\ IF a.vertex = None
       THEN a.slack = Inf
       ELSE a.vertex \in Endpoints /\ a.slack = Slack(s, a.vertex)

WorstAnswered == answer.of = "wns" => IsWorst(search, answer)

IInv ==
  /\ DesignType /\ Exact(search) /\ WorstType(wns, graph) /\ QueryType
  /\ SearchFlags /\ QueryFlags
  /\ SearchHeld /\ TnsHeld /\ WorstHeld /\ WorstAnswered

LEMMA InitIInv == Init => IInv
<1> SUFFICES ASSUME Init PROVE IInv
  OBVIOUS
<1>1. DesignType /\ QueryType
  BY SlacksAssumption DEF Init, DesignType, QueryType, Queries, NoAnswer, MaybeNone
<1>2. /\ search.arrivals = FALSE /\ search.requireds = FALSE
      /\ search.endpointsFound = FALSE /\ search.tnsExists = FALSE
  BY DEF Init
<1>3. /\ search.arr = NoPaths /\ search.req = NoRequireds
      /\ search.invalidArrivals = {} /\ search.invalidRequireds = {}
      /\ search.reqQueue = {} /\ search.invalidTns = {}
      /\ search.endpoints = {} /\ search.invalidEndpoints = {}
      /\ search.tnsSlacks = NoSlacks
  BY DEF Init
<1>4. search.tns = 0
  BY DEF Init
<1>5. Shape(search)
  BY DEF Init, Shape
<1>6. NoPaths \in [Vertices -> MaybeNone(Arrivals)]
      /\ NoRequireds \in [Vertices -> Limits \cup {Inf}]
  BY DEF NoPaths, NoRequireds, MaybeNone
<1>7. Exact(search)
  <2>1. Summed(search)
    BY <1>3, <1>4, NoSlacksSum DEF Summed
  <2>2. SearchType(search, graph)
    <3>1. /\ search.arrivals \in BOOLEAN /\ search.requireds \in BOOLEAN
          /\ search.endpointsFound \in BOOLEAN /\ search.tnsExists \in BOOLEAN
      BY <1>2
    <3>2. IsPaths(search) /\ search.tns \in Int /\ IsSlackTable(search.tnsSlacks)
      BY <1>3, <1>4, <1>6, NoSlacksSum DEF IsPaths
    <3>3. QED
      BY <1>3, <1>5, <3>1, <3>2 DEF SearchType
  <2>3. QED
    BY <2>1, <2>2 DEF Exact
<1>8. /\ wns.exists = FALSE /\ wns.worst = None /\ wns.queue = {}
      /\ WorstShape(wns) /\ wns = NoWorst
  BY DEF Init, NoWorst, WorstShape
<1>9. WorstType(wns, graph)
  <2>1. wns.slack = Inf /\ wns.threshold = Inf /\ wns.maxSize = MaxQueueSize
    BY DEF Init, NoWorst
  <2>2. wns.exists \in BOOLEAN
    BY <1>8
  <2>3. QED
    BY <1>8, <2>1, <2>2, SlacksAssumption DEF WorstType, MaybeNone
<1>10. query = "idle" /\ answer.of = "none"
  BY DEF Init, NoAnswer
<1>11. SearchFlags /\ QueryFlags
  BY <1>2, <1>3, <1>8, <1>10 DEF SearchFlags, QueryFlags, Updating
<1>12. SearchHeld
  BY <1>2, <1>3, <1>8, <1>10
     DEF SearchHeld, PathsHeld, ArrivalsHeld, RequiredsOk, EndpointsOk, NotedOk,
         NoPaths, NoRequireds
<1>13. TnsHeld /\ WorstHeld /\ WorstAnswered
  BY <1>2, <1>8, <1>10 DEF TnsHeld, WorstHeld, WorstAnswered
<1>14. QED
  BY <1>1, <1>7, <1>9, <1>11, <1>12, <1>13 DEF IInv
------------------------------------------------------------------------------
(* The Search s when nothing is invalid at the endpoints.                  *)
Settled(s) ==
  /\ Exact(s)
  /\ s.arrivals /\ s.requireds
  /\ s.invalidArrivals = {}
  /\ \A v \in Endpoints : s.arr[v] = data[v]
  /\ \A v \in Vertices \ Endpoints : s.arr[v] = None /\ s.req[v] = Inf
  /\ RequiredsOk(s) /\ EndpointsOk(s)
  /\ s.invalidRequireds \cap Endpoints = {}

LEMMA ReadySettled == ASSUME NEW s, Ready(s) PROVE Settled(s)
BY DEF Ready, Searched, Settled

LEMMA SettledNow ==
  ASSUME IInv, query # "idle" \/ answer.of # "none"
  PROVE  Settled(search) /\ reached = {}
<1>1. Fresh
  BY DEF IInv, SearchHeld
<1>2. search.arrivals /\ search.requireds
  BY <1>1 DEF IInv, SearchFlags, Fresh
<1>3. \A v \in Endpoints : search.arr[v] = data[v]
  BY <1>1, <1>2 DEF IInv, SearchHeld, ArrivalsHeld, Fresh
<1>4. \A v \in Vertices \ Endpoints : search.arr[v] = None /\ search.req[v] = Inf
  BY <1>1 DEF IInv, SearchHeld, PathsHeld, Fresh
<1>5. QED
  BY <1>1, <1>2, <1>3, <1>4 DEF IInv, SearchHeld, Settled, Fresh

LEMMA SettledAfter ==
  ASSUME DesignType, NEW s, Settled(s), UNCHANGED <<graph, wired, data, limit>>,
         reached' = {}, search' = s, ~wns'.exists => wns' = NoWorst
  PROVE  /\ DesignType' /\ Exact(search)' /\ SearchFlags' /\ SearchHeld'
         /\ Endpoints' = Endpoints
<1>1. Endpoints' = Endpoints /\ graph' = graph /\ data' = data /\ limit' = limit
  BY DEF Endpoints
<1>2. DesignType'
  BY DEF DesignType
<1>3. Exact(search)'
  BY <1>1 DEF Settled, Exact
<1>4. SearchFlags'
  BY <1>1 DEF SearchFlags, Settled
<1>5. PathsHeld'
  BY <1>1 DEF PathsHeld, Settled
<1>6. ArrivalsHeld'
  BY <1>1 DEF ArrivalsHeld, Settled
<1>7. RequiredsOk(search)' /\ EndpointsOk(search)' /\ NotedOk(search)'
  BY <1>1 DEF RequiredsOk, EndpointsOk, NotedOk, Settled
<1>8. Fresh'
  BY <1>1 DEF Fresh, Settled
<1>9. QED
  BY <1>1, <1>2, <1>3, <1>4, <1>5, <1>6, <1>7, <1>8 DEF SearchHeld

(* What a search for arrivals leaves of the queue and of the worst slack.  *)
LEMMA NotifiedHeld ==
  ASSUME IInv, query = "idle", NEW s, Ready(s), wns.exists
  PROVE  LET w == WorstSlackNotifyBefore(wns, Emptied)
         IN  Within(s, w) /\ AreHeld(s, w, s.invalidTns)
<1> DEFINE w == WorstSlackNotifyBefore(wns, Emptied)
<1>1. /\ w.threshold = wns.threshold /\ w.queue = wns.queue \ Emptied
      /\ w.worst = IF wns.worst \in Emptied THEN None ELSE wns.worst
      /\ w.slack = IF wns.worst \in Emptied THEN Inf ELSE wns.slack
  BY NotifyFields DEF IInv
<1> HIDE DEF w
<1>2. Within(search, wns) /\ AreHeld(search, wns, search.invalidTns)
  BY DEF IInv, WorstHeld, ToQueue, Pending, Updating
<1>3. search.arrivals /\ search.invalidArrivals \ Endpoints \subseteq Emptied
  <2>1. search.arrivals
    BY DEF IInv, SearchFlags
  <2>2. QED
    BY <2>1 DEF Emptied, Seeds
<1>4. Within(s, w)
  BY <1>1, <1>2, <1>3 DEF Within
<1>5. /\ search.invalidTns \subseteq s.invalidTns
      /\ \A v \in Endpoints \ s.invalidTns : Slack(s, v) = Slack(search, v)
  BY SameSlack DEF Ready, Searched
<1>6. \A v \in Emptied \cap Endpoints : Slack(s, v) = Inf
  BY DEF Emptied, Ready, Searched, Slack
<1>7. \A v \in Endpoints \ s.invalidTns : Held(s, w, v)
  BY <1>1, <1>2, <1>5, <1>6 DEF AreHeld, Held
<1>8. w.worst # None => \A v \in Endpoints \ s.invalidTns : w.slack <= Slack(s, v)
  BY <1>1, <1>2, <1>5 DEF AreHeld
<1>9. w.worst \in Endpoints \ s.invalidTns => w.slack = Slack(s, w.worst)
  <2>1. None \notin Endpoints
    BY SlacksAssumption DEF Endpoints, IInv, DesignType
  <2>2. QED
    BY <1>1, <1>2, <1>5, <2>1 DEF AreHeld
<1>10. QED
  BY <1>4, <1>7, <1>8, <1>9 DEF AreHeld, w

LEMMA CountedStill ==
  ASSUME IInv, query = "idle", NEW s, Ready(s), search.tnsExists
  PROVE  AreCounted(s, s.invalidTns)
<1>1. SUFFICES ASSUME NEW v \in Endpoints, v \notin s.invalidTns
               PROVE  Counted(s, v)
  BY DEF AreCounted
<1>2. /\ Slack(s, v) = Slack(search, v) /\ v \notin search.invalidTns
      /\ IsWithout(s.tnsSlacks, search.tnsSlacks, Emptied \cap Endpoints)
  BY <1>1, SameSlack DEF Ready, Searched
<1>3. Counted(search, v)
  BY <1>1, <1>2 DEF IInv, TnsHeld, AreCounted, Pending, Updating
<1>4. CASE v \in Emptied
  <2>1. Slack(s, v) = Inf
    BY <1>1, <1>4 DEF Emptied, Ready, Searched, Slack
  <2>2. ~(Slack(s, v) < 0)
    BY <2>1, SlacksAssumption
  <2>3. QED
    BY <1>1, <1>2, <1>4, <2>2 DEF Counted, IsWithout
<1>5. CASE v \notin Emptied
  BY <1>1, <1>2, <1>3, <1>5 DEF Counted, IsWithout
<1>6. QED
  BY <1>4, <1>5

LEMMA NotifyNoWorst ==
  ASSUME NEW V
  PROVE  WorstSlackNotifyBefore(NoWorst, V) = NoWorst
<1>1. /\ (IF NoWorst.worst \in V THEN None ELSE NoWorst.worst) = None
      /\ (IF NoWorst.worst \in V THEN Inf ELSE NoWorst.slack) = Inf
      /\ NoWorst.queue \ V = {}
  BY DEF NoWorst
<1>2. WorstSlackNotifyBefore(NoWorst, V)
        = [NoWorst EXCEPT !.worst = None, !.slack = Inf, !.queue = {}]
  BY <1>1 DEF WorstSlackNotifyBefore
<1>3. QED
  BY <1>2 DEF NoWorst

LEMMA PreambleQueried ==
  ASSUME IInv, query = "idle",
         NEW R \in SUBSET {v \in Changed : search.req[v] # Inf}
  PROVE  Ready(WnsTnsPreamble(FindAllArrivals(R)))
<1>1. Found(FindAllArrivals(R))
  BY ArrivalsFound DEF IInv, SearchHeld, SearchFlags, DesignType
<1>2. QED
  BY <1>1, PreambleReady DEF IInv, SearchHeld, SearchFlags, DesignType

(* The WorstSlack after a search for arrivals and required times.          *)
LEMMA WorstHeldAfter ==
  ASSUME IInv, query = "idle", NEW s, Ready(s), wns.exists,
         wns' = WorstSlackNotifyBefore(wns, Emptied),
         search'.invalidArrivals = s.invalidArrivals, SamePaths(search', s),
         Endpoints' = Endpoints, Pending' = s.invalidTns
  PROVE  Within(search, wns)' /\ AreHeld(search, wns, Pending)'
<1>1. Within(s, wns') /\ AreHeld(s, wns', s.invalidTns)
  BY NotifiedHeld
<1>2. \A v : Slack(search', v) = Slack(s, v)
  BY DEF SamePaths, Slack
<1>3. Within(search, wns)'
  BY <1>1 DEF Within
<1>4. AreHeld(search, wns, Pending)'
  BY <1>1, <1>2 DEF AreHeld, Held
<1>5. QED
  BY <1>3, <1>4

------------------------------------------------------------------------------
(* Every query starts with the searches.                                   *)
LEMMA TotalNegativeSlackIInv == IInv /\ TotalNegativeSlack => IInv'
<1> SUFFICES ASSUME IInv, TotalNegativeSlack PROVE IInv'
  OBVIOUS
<1>1. PICK R \in SUBSET {v \in Changed : search.req[v] # Inf} :
        LET s == WnsTnsPreamble(FindAllArrivals(R))
            total == FindTotalNegativeSlacks(s)
        IN  /\ query = "idle"
            /\ reached' = {}
            /\ wns' = WorstSlackNotifyBefore(wns, Emptied)
            /\ IF s.tnsExists
                 THEN /\ search' = s
                      /\ query' = "tnsUpdate"
                      /\ todo' = s.invalidTns
                      /\ answer' = NoAnswer
                 ELSE /\ search' = total
                      /\ answer' = TnsAnswer(total)
                      /\ UNCHANGED <<query, todo>>
            /\ UNCHANGED <<graph, wired, data, limit, edits>>
  BY DEF TotalNegativeSlack
<1> DEFINE s == WnsTnsPreamble(FindAllArrivals(R))
           total == FindTotalNegativeSlacks(s)
<1>2. query = "idle" /\ Ready(s)
  BY <1>1, PreambleQueried
<1> HIDE DEF s
<1>3. /\ reached' = {} /\ wns' = WorstSlackNotifyBefore(wns, Emptied)
      /\ IF s.tnsExists
           THEN /\ search' = s
                /\ query' = "tnsUpdate"
                /\ todo' = s.invalidTns
                /\ answer' = NoAnswer
           ELSE /\ search' = total
                /\ answer' = TnsAnswer(total)
                /\ UNCHANGED <<query, todo>>
      /\ UNCHANGED <<graph, wired, data, limit, edits>>
  BY <1>1 DEF s
<1>4. Settled(s) /\ Exact(s) /\ s.invalidTns \subseteq Vertices
  BY <1>2, ReadySettled DEF Settled, Exact, SearchType, IInv, DesignType
<1>5. /\ Exact(total)
      /\ SameFlags(total, s) /\ SamePaths(total, s) /\ SameInvalid(total, s)
      /\ EndpointsOk(total) /\ total.invalidTns = s.invalidTns
      /\ total.tnsExists
      /\ \A v \in Endpoints : Counted(total, v)
  BY <1>4, FindTotalFields DEF Settled, IInv, DesignType
<1> HIDE DEF total
<1>6. Settled(total)
  BY <1>4, <1>5 DEF Settled, RequiredsOk, SameFlags, SamePaths, SameInvalid
<1>7. /\ WorstType(wns', graph) /\ wns'.exists = wns.exists
      /\ ~wns'.exists => wns' = NoWorst
  BY <1>3, NotifyFields, NotifyNoWorst DEF IInv, SearchFlags
<1>8. /\ DesignType' /\ Exact(search)' /\ SearchFlags' /\ SearchHeld'
      /\ Endpoints' = Endpoints
  BY <1>3, <1>4, <1>6, <1>7, SettledAfter DEF IInv
<1>9. WorstType(wns, graph)'
  BY <1>3, <1>7
<1>10. QueryType' /\ QueryFlags'
  <2>1. CASE s.tnsExists
    BY <1>3, <1>4, <2>1 DEF QueryType, QueryFlags, Updating, Queries, NoAnswer, IInv
  <2>2. CASE ~s.tnsExists
    BY <1>2, <1>3, <2>2 DEF QueryType, QueryFlags, Updating, Queries, TnsAnswer, IInv
  <2>3. QED
    BY <2>1, <2>2
<1>11. search'.invalidTns = s.invalidTns /\ SamePaths(search', s)
       /\ Pending' = s.invalidTns /\ search'.invalidArrivals = s.invalidArrivals
  <2>1. CASE s.tnsExists
    BY <1>3, <2>1 DEF Pending, Updating, SamePaths
  <2>2. CASE ~s.tnsExists
    BY <1>2, <1>3, <1>5, <2>2 DEF Pending, Updating, SamePaths, SameInvalid
  <2>3. QED
    BY <2>1, <2>2
<1>12. TnsHeld'
  <2>1. CASE s.tnsExists
    <3>1. search.tnsExists
      BY <1>2, <2>1 DEF Ready, Searched
    <3>2. AreCounted(s, s.invalidTns)
      BY <1>2, <3>1, CountedStill
    <3>3. answer'.of = "none"
      BY <1>3, <2>1 DEF NoAnswer
    <3>4. QED
      BY <1>3, <1>8, <1>11, <2>1, <3>2, <3>3 DEF TnsHeld, AreCounted
  <2>2. CASE ~s.tnsExists
    BY <1>3, <1>5, <1>8, <2>2 DEF TnsHeld, AreCounted
  <2>3. QED
    BY <2>1, <2>2
<1>13. WorstHeld'
  <2>1. SUFFICES ASSUME wns.exists
                 PROVE  Within(search, wns)' /\ AreHeld(search, wns, Pending)'
    BY <1>2, <1>3, <1>7 DEF WorstHeld, ToQueue
  <2>2. QED
    BY <1>2, <1>3, <1>8, <1>11, <2>1, WorstHeldAfter
<1>14. WorstAnswered'
  BY <1>3 DEF WorstAnswered, NoAnswer, TnsAnswer
<1>15. QED
  BY <1>8, <1>9, <1>10, <1>12, <1>13, <1>14 DEF IInv
LEMMA WorstSlackIInv == IInv /\ WorstSlack => IInv'
<1> SUFFICES ASSUME IInv, WorstSlack PROVE IInv'
  OBVIOUS
<1>1. PICK R \in SUBSET {v \in Changed : search.req[v] # Inf} :
        LET s == WnsTnsPreamble(FindAllArrivals(R))
        IN  /\ query = "idle"
            /\ reached' = {}
            /\ search' = s
            /\ answer' = NoAnswer
            /\ IF wns.exists
                 THEN /\ wns' = WorstSlackNotifyBefore(wns, Emptied)
                      /\ query' = "wnsUpdate"
                      /\ todo' = s.invalidTns
                 ELSE /\ wns' = [NoWorst EXCEPT !.exists = TRUE]
                      /\ query' = "worst"
                      /\ UNCHANGED todo
            /\ UNCHANGED <<graph, wired, data, limit, edits>>
  BY DEF WorstSlack
<1> DEFINE s == WnsTnsPreamble(FindAllArrivals(R))
<1>2. query = "idle" /\ Ready(s)
  BY <1>1, PreambleQueried
<1> HIDE DEF s
<1>3. /\ reached' = {} /\ search' = s /\ answer' = NoAnswer
      /\ IF wns.exists
           THEN /\ wns' = WorstSlackNotifyBefore(wns, Emptied)
                /\ query' = "wnsUpdate"
                /\ todo' = s.invalidTns
           ELSE /\ wns' = [NoWorst EXCEPT !.exists = TRUE]
                /\ query' = "worst"
                /\ UNCHANGED todo
      /\ UNCHANGED <<graph, wired, data, limit, edits>>
  BY <1>1 DEF s
<1>4. Settled(s) /\ s.invalidTns \subseteq Vertices
  BY <1>2, ReadySettled DEF Settled, Exact, SearchType, IInv, DesignType
<1>5. ~wns.exists => /\ WorstShape(wns') /\ wns'.queue = {} /\ wns'.worst = None
                     /\ wns'.slack = Inf /\ wns'.threshold = Inf
                     /\ wns'.maxSize = MaxQueueSize
  BY <1>3 DEF NoWorst, WorstShape
<1>6. ~wns.exists => wns'.exists = TRUE
  BY <1>3 DEF NoWorst
<1>7. WorstType(wns', graph) /\ wns'.exists
  <2>1. CASE wns.exists
    BY <1>3, <2>1, NotifyFields DEF IInv
  <2>2. CASE ~wns.exists
    <3>1. wns'.exists \in BOOLEAN /\ wns'.worst \in MaybeNone(graph)
      BY <1>5, <1>6, <2>2 DEF MaybeNone
    <3>2. QED
      BY <1>5, <1>6, <2>2, <3>1, SlacksAssumption DEF WorstType
  <2>3. QED
    BY <2>1, <2>2
<1>8. /\ DesignType' /\ Exact(search)' /\ SearchFlags' /\ SearchHeld'
      /\ Endpoints' = Endpoints
  BY <1>3, <1>4, <1>7, SettledAfter DEF IInv
<1>9. WorstType(wns, graph)'
  BY <1>3, <1>7
<1>10. QueryType' /\ QueryFlags'
  BY <1>3, <1>4, <1>7 DEF QueryType, QueryFlags, Updating, Queries, NoAnswer, IInv
<1>11. Pending' = s.invalidTns
  BY <1>3 DEF Pending, Updating
<1>12. TnsHeld'
  <2>1. search'.tnsExists = search.tnsExists /\ answer'.of = "none"
    BY <1>2, <1>3 DEF Ready, Searched, NoAnswer
  <2>2. SUFFICES ASSUME search.tnsExists
                 PROVE  AreCounted(search, Pending)'
    BY <2>1 DEF TnsHeld
  <2>3. AreCounted(s, s.invalidTns)
    BY <1>2, <2>2, CountedStill
  <2>4. QED
    BY <1>3, <1>8, <1>11, <2>3 DEF AreCounted
<1>13. WorstHeld'
  <2>1. CASE wns.exists
    <3>1. Within(search, wns)' /\ AreHeld(search, wns, Pending)'
      BY <1>2, <1>3, <1>8, <1>11, <2>1, WorstHeldAfter DEF SamePaths
    <3>2. QED
      BY <1>3, <2>1, <3>1 DEF WorstHeld, ToQueue
  <2>2. CASE ~wns.exists
    BY <1>3, <1>5, <2>2 DEF WorstHeld, ToQueue, Within
  <2>3. QED
    BY <2>1, <2>2
<1>14. WorstAnswered'
  BY <1>3 DEF WorstAnswered, NoAnswer
<1>15. QED
  BY <1>8, <1>9, <1>10, <1>12, <1>13, <1>14 DEF IInv

LEMMA FindRequiredsIInv ==
  ASSUME IInv, NEW level, FindRequireds(level)
  PROVE  IInv'
<1>1. PICK R \in SUBSET {v \in Changed : search.req[v] # Inf} :
        LET s == FindAllArrivals(R)
            found == FindEndpoints(s)
            seeded == IF s.requireds
                        THEN s
                        ELSE [SeedRequired(found, found.endpoints)
                                EXCEPT !.requireds = TRUE]
            queued == [seeded EXCEPT !.reqQueue = @ \cup s.invalidRequireds,
                                     !.invalidRequireds = {}]
        IN  search' = VisitRequireds(queued,
                                     {v \in queued.reqQueue : Level[v] >= level})
  BY DEF FindRequireds
<1>2. /\ query = "idle" /\ query' = query /\ todo' = todo /\ answer' = NoAnswer
      /\ edits' \in 0..MaxEdits
      /\ reached' = {} /\ wns' = WorstSlackNotifyBefore(wns, Emptied)
      /\ UNCHANGED <<graph, wired, data, limit>>
  BY SlacksAssumption DEF FindRequireds, Edit, IInv, QueryType
<1>3. Found(FindAllArrivals(R))
  BY ArrivalsFound DEF IInv, SearchHeld, SearchFlags, DesignType
<1>4. Ready(search')
  BY <1>1, <1>3, RequiredsReady DEF IInv, SearchHeld, SearchFlags, DesignType
<1>5. Settled(search')
  BY <1>4, ReadySettled
<1>6. /\ WorstType(wns', graph) /\ wns'.exists = wns.exists
      /\ ~wns'.exists => wns' = NoWorst
  BY <1>2, NotifyFields, NotifyNoWorst DEF IInv, SearchFlags
<1>7. /\ DesignType' /\ Exact(search)' /\ SearchFlags' /\ SearchHeld'
      /\ Endpoints' = Endpoints
  BY <1>2, <1>5, <1>6, SettledAfter DEF IInv
<1>8. WorstType(wns, graph)'
  BY <1>2, <1>6
<1>9. QueryType' /\ QueryFlags'
  BY <1>2 DEF QueryType, QueryFlags, Updating, NoAnswer, IInv
<1>10. Pending' = search'.invalidTns
  BY <1>2 DEF Pending, Updating
<1>11. TnsHeld'
  <2>1. search'.tnsExists = search.tnsExists /\ answer'.of = "none"
    BY <1>2, <1>4 DEF Ready, Searched, NoAnswer
  <2>2. SUFFICES ASSUME search.tnsExists
                 PROVE  AreCounted(search, Pending)'
    BY <2>1 DEF TnsHeld
  <2>3. AreCounted(search', search'.invalidTns)
    BY <1>2, <1>4, <2>2, CountedStill
  <2>4. QED
    BY <1>7, <1>10, <2>3 DEF AreCounted
<1>12. WorstHeld'
  <2>1. SUFFICES ASSUME wns.exists
                 PROVE  Within(search, wns)' /\ AreHeld(search, wns, Pending)'
    BY <1>2, <1>6 DEF WorstHeld, ToQueue
  <2>2. QED
    BY <1>2, <1>4, <1>7, <1>10, <2>1, WorstHeldAfter DEF SamePaths
<1>13. WorstAnswered'
  BY <1>2 DEF WorstAnswered, NoAnswer
<1>14. QED
  BY <1>7, <1>8, <1>9, <1>11, <1>12, <1>13 DEF IInv
------------------------------------------------------------------------------
(* The loops of the queries and what they return.                          *)
LEMMA UpdateInvalidTnsIInv ==
  ASSUME IInv, NEW v \in todo, UpdateInvalidTns(v)
  PROVE  IInv'
<1>1. /\ query \in {"tnsUpdate", "wnsUpdate"} /\ query # "idle"
      /\ todo' = todo \ {v} /\ query' = query /\ answer' = answer
      /\ UNCHANGED <<graph, wired, data, limit, reached, edits>>
  BY DEF UpdateInvalidTns, design
<1>2. /\ v \in Endpoints /\ search.tnsExists => search' = UpdateTns(search, v)
      /\ v \notin Endpoints \/ ~search.tnsExists => search' = search
      /\ v \in Endpoints /\ wns.exists =>
           wns' = UpdateWorstSlack(wns, v, Slack(search, v))
      /\ v \notin Endpoints \/ ~wns.exists => wns' = wns
  BY DEF UpdateInvalidTns
<1>3. Settled(search) /\ reached = {} /\ answer.of = "none"
  BY <1>1, SettledNow DEF IInv, QueryFlags
<1>4. v \in Vertices /\ v \in graph /\ todo \subseteq search.invalidTns
  BY <1>1, <1>3 DEF IInv, QueryFlags, Updating, Settled, Exact, SearchType, DesignType
<1>5. LET t == UpdateTns(search, v)
      IN  /\ Exact(t)
          /\ SameFlags(t, search) /\ SamePaths(t, search)
          /\ SameInvalid(t, search) /\ SameEnds(t, search)
          /\ t.invalidTns = search.invalidTns /\ t.tnsExists = search.tnsExists
          /\ Counted(t, v)
          /\ \A u \in Vertices \ {v} : Counted(search, u) => Counted(t, u)
  <2>1. Exact(search)
    BY <1>3 DEF Settled
  <2>2. QED
    BY <1>4, <2>1, UpdateTnsFields
<1>6. /\ Exact(search')
      /\ SameFlags(search', search) /\ SamePaths(search', search)
      /\ SameInvalid(search', search) /\ SameEnds(search', search)
      /\ search'.invalidTns = search.invalidTns
      /\ search'.tnsExists = search.tnsExists
  <2>1. CASE v \in Endpoints /\ search.tnsExists
    BY <1>2, <1>5, <2>1
  <2>2. CASE ~(v \in Endpoints /\ search.tnsExists)
    BY <1>2, <1>3, <2>2 DEF Settled, SameFlags, SamePaths, SameInvalid, SameEnds
  <2>3. QED
    BY <2>1, <2>2
<1>7. Settled(search')
  BY <1>3, <1>6 DEF Settled, SameFlags, SamePaths, SameInvalid, SameEnds,
                    RequiredsOk, EndpointsOk
<1>8. Slack(search, v) \in Int /\ Slack(search, v) <= Inf
  BY <1>3, <1>4, SlackType DEF Settled, Exact, SearchType
<1>9. LET w == UpdateWorstSlack(wns, v, Slack(search, v))
      IN  WorstType(w, graph) /\ Updated(w, wns, v, Slack(search, v))
  <2>1. WorstType(wns, graph)
    BY DEF IInv
  <2>2. QED
    BY <1>4, <1>8, <2>1, UpdateWorstFields
<1>10. /\ WorstType(wns', graph) /\ wns'.exists = wns.exists
       /\ ~wns'.exists => wns' = NoWorst
  <2>1. CASE v \in Endpoints /\ wns.exists
    BY <1>2, <1>9, <2>1 DEF Updated
  <2>2. CASE ~(v \in Endpoints /\ wns.exists)
    BY <1>2, <2>2 DEF IInv, SearchFlags
  <2>3. QED
    BY <2>1, <2>2
<1>11. /\ DesignType' /\ Exact(search)' /\ SearchFlags' /\ SearchHeld'
       /\ Endpoints' = Endpoints
  BY <1>1, <1>3, <1>7, <1>10, SettledAfter DEF IInv
<1>12. WorstType(wns, graph)'
  BY <1>1, <1>10
<1>13. QueryType' /\ QueryFlags'
  BY <1>1, <1>3, <1>4, <1>6, <1>10 DEF QueryType, QueryFlags, Updating, IInv
<1>14. Pending = todo /\ Pending' = todo \ {v}
  BY <1>1 DEF Pending, Updating
<1>15. \A u : Slack(search', u) = Slack(search, u)
  BY <1>6 DEF SamePaths, Slack
<1>16. TnsHeld'
  <2>1. SUFFICES ASSUME search.tnsExists, NEW u \in Endpoints, u \notin todo \ {v}
                 PROVE  Counted(search', u)
    BY <1>1, <1>3, <1>6, <1>11, <1>14 DEF TnsHeld, AreCounted
  <2>2. u # v => Counted(search, u)
    BY <1>14, <2>1 DEF IInv, TnsHeld, AreCounted
  <2>3. CASE v \in Endpoints
    <3>1. search' = UpdateTns(search, v)
      BY <1>2, <2>1, <2>3
    <3>2. u \in Vertices
      BY <2>1 DEF Endpoints, IInv, DesignType
    <3>3. QED
      BY <1>5, <2>2, <3>1, <3>2
  <2>4. CASE v \notin Endpoints
    BY <1>2, <2>1, <2>2, <2>4
  <2>5. QED
    BY <2>3, <2>4
<1>17. WorstHeld'
  <2>1. SUFFICES ASSUME wns.exists
                 PROVE  Within(search, wns)' /\ AreHeld(search, wns, Pending)'
    BY <1>1, <1>10 DEF WorstHeld, ToQueue
  <2>2. Within(search, wns) /\ AreHeld(search, wns, todo)
    BY <1>1, <1>14, <2>1 DEF IInv, WorstHeld, ToQueue
  <2>3. search'.invalidArrivals = {} /\ search.invalidArrivals = {}
    BY <1>3, <1>7 DEF Settled
  <2>4. CASE v \notin Endpoints
    BY <1>2, <1>11, <1>14, <1>15, <2>2, <2>3, <2>4 DEF Within, AreHeld, Held
  <2>5. CASE v \in Endpoints
    <3> DEFINE slack == Slack(search, v)
               better == wns.worst # None /\ slack < wns.slack
    <3>1. /\ wns'.threshold = wns.threshold
          /\ wns'.queue = IF slack # Inf /\ slack <= wns.threshold
                            THEN wns.queue \cup {v} ELSE wns.queue \ {v}
          /\ wns'.worst = IF better THEN v
                            ELSE IF v = wns.worst THEN None ELSE wns.worst
          /\ wns'.slack = IF better THEN slack ELSE wns.slack
      BY <1>2, <1>9, <2>1, <2>5 DEF Updated
    <3>2. Within(search, wns)'
      BY <1>11, <2>2, <2>3, <2>5, <3>1 DEF Within
    <3>3. \A u \in Endpoints \ (todo \ {v}) : Held(search', wns', u)
      BY <1>15, <2>2, <3>1 DEF AreHeld, Held
    <3>4. wns'.worst # None =>
            \A u \in Endpoints \ (todo \ {v}) : wns'.slack <= Slack(search', u)
      <4>1. SUFFICES ASSUME wns'.worst # None,
                            NEW u \in Endpoints, u \notin todo \ {v}
                     PROVE  wns'.slack <= slack /\ wns'.slack <= Slack(search, u)
        BY <1>15
      <4>2. /\ wns.slack \in Int /\ slack \in Int /\ Slack(search, u) \in Int
            /\ wns.worst # None
        <5>1. u \in Vertices
          BY <4>1 DEF Endpoints, IInv, DesignType
        <5>2. QED
          BY <1>3, <1>8, <3>1, <4>1, <5>1, SlackType
             DEF IInv, WorstType, Settled, Exact, SearchType
      <4>3. u # v => wns.slack <= Slack(search, u)
        BY <2>2, <4>1, <4>2 DEF AreHeld
      <4>4. wns'.slack <= slack /\ wns'.slack <= wns.slack
        BY <3>1, <4>2
      <4>5. wns'.slack \in Int
        BY <3>1, <4>2
      <4>6. QED
        BY <4>2, <4>3, <4>4, <4>5
    <3>5. wns'.worst \in Endpoints \ (todo \ {v}) =>
            wns'.slack = Slack(search', wns'.worst)
      <4>1. None \notin Endpoints
        BY SlacksAssumption DEF Endpoints, IInv, DesignType
      <4>2. QED
        BY <1>15, <2>2, <3>1, <4>1 DEF AreHeld
    <3>6. QED
      BY <1>11, <1>14, <3>2, <3>3, <3>4, <3>5 DEF AreHeld
  <2>6. QED
    BY <2>4, <2>5
<1>18. WorstAnswered'
  BY <1>1, <1>3 DEF WorstAnswered
<1>19. QED
  BY <1>11, <1>12, <1>13, <1>16, <1>17, <1>18 DEF IInv

LEMMA InvalidTnsUpdatedIInv == IInv /\ InvalidTnsUpdated => IInv'
<1> SUFFICES ASSUME IInv, InvalidTnsUpdated PROVE IInv'
  OBVIOUS
<1>1. /\ query \in {"tnsUpdate", "wnsUpdate"} /\ query # "idle" /\ todo = {}
      /\ wns' = wns /\ todo' = todo /\ edits' = edits
      /\ UNCHANGED <<graph, wired, data, limit, reached>>
      /\ search' = [search EXCEPT !.invalidTns = {}]
      /\ query = "tnsUpdate" => query' = "idle" /\ answer' = TnsAnswer(search)
      /\ query # "tnsUpdate" => query' = "worst" /\ answer' = answer
  BY DEF InvalidTnsUpdated, design
<1>2. Settled(search) /\ reached = {} /\ answer.of = "none"
  BY <1>1, SettledNow DEF IInv, QueryFlags
<1>3. Shape(search)
  BY <1>2 DEF Settled, Exact, SearchType
<1>4. /\ Shape(search') /\ search'.invalidTns = {}
      /\ SameFlags(search', search) /\ SamePaths(search', search)
      /\ SameInvalid(search', search) /\ SameEnds(search', search)
      /\ SameTns(search', search)
  BY <1>1, <1>3 DEF Shape, SameFlags, SamePaths, SameInvalid, SameEnds, SameTns
<1>5. Exact(search')
  BY <1>2, <1>4 DEF Settled, Exact, SearchType, IsPaths, Summed,
                    SameFlags, SamePaths, SameInvalid, SameEnds, SameTns
<1>6. Settled(search')
  BY <1>2, <1>4, <1>5 DEF Settled, SameFlags, SamePaths, SameInvalid, SameEnds,
                          RequiredsOk, EndpointsOk
<1>7. /\ DesignType' /\ Exact(search)' /\ SearchFlags' /\ SearchHeld'
      /\ Endpoints' = Endpoints
  BY <1>1, <1>2, <1>6, SettledAfter DEF IInv, SearchFlags
<1>8. WorstType(wns, graph)'
  BY <1>1 DEF IInv
<1>9. QueryType' /\ QueryFlags'
  BY <1>1, <1>2 DEF QueryType, QueryFlags, Updating, Queries, TnsAnswer, IInv
<1>10. Pending = {} /\ Pending' = {}
  BY <1>1, <1>4 DEF Pending, Updating
<1>11. \A u : Slack(search', u) = Slack(search, u)
  BY <1>4 DEF SamePaths, Slack
<1>12. TnsHeld'
  <2>1. search.tnsExists => AreCounted(search, {})
    BY <1>10 DEF IInv, TnsHeld
  <2>2. AreCounted(search, {}) => AreCounted(search, {})'
    BY <1>4, <1>7, <1>11 DEF AreCounted, Counted, SameTns
  <2>3. query = "tnsUpdate" => search.tnsExists
    BY DEF IInv, QueryFlags
  <2>4. QED
    BY <1>1, <1>2, <1>4, <1>10, <2>1, <2>2, <2>3 DEF TnsHeld, SameTns, TnsAnswer
<1>13. WorstHeld'
  <2>1. SUFFICES ASSUME wns.exists
                 PROVE  Within(search, wns)' /\ AreHeld(search, wns, Pending)'
    BY <1>1, <1>4 DEF WorstHeld
  <2>2. Within(search, wns) /\ AreHeld(search, wns, {})
    BY <1>1, <1>10, <2>1 DEF IInv, WorstHeld, ToQueue
  <2>3. QED
    BY <1>1, <1>4, <1>7, <1>10, <1>11, <2>2 DEF Within, AreHeld, Held, SameInvalid
<1>14. WorstAnswered'
  BY <1>1, <1>2 DEF WorstAnswered, TnsAnswer
<1>15. QED
  BY <1>7, <1>8, <1>9, <1>12, <1>13, <1>14 DEF IInv
(* While there is a worst slack, its queue has what it should have.        *)
LEMMA QueueNow ==
  ASSUME IInv, query = "worst", ~ToQueue
  PROVE  /\ wns.exists /\ Settled(search) /\ reached = {} /\ answer.of = "none"
         /\ AreHeld(search, wns, {})
         /\ wns.queue \subseteq Endpoints /\ wns.worst \in {None} \cup Endpoints
         /\ search.invalidTns = {}
<1>1. Settled(search) /\ reached = {} /\ answer.of = "none" /\ wns.exists
  BY SettledNow DEF IInv, QueryFlags
<1>2. search.invalidTns = {} /\ Pending = {}
  BY <1>1 DEF IInv, WorstHeld, Pending, Updating
<1>3. AreHeld(search, wns, {}) /\ Within(search, wns)
  BY <1>1, <1>2 DEF IInv, WorstHeld
<1>4. QED
  BY <1>1, <1>2, <1>3 DEF Within, Settled

(* A query answers with the worst slack, the Search is as it was.          *)
LEMMA WorstFound ==
  ASSUME IInv, wns.exists, query # "idle", ~Updating,
         UNCHANGED <<graph, wired, data, limit, reached, edits, search, todo>>,
         query' = "idle", answer' = WorstAnswer(wns'), wns'.exists,
         WorstType(wns', graph),
         Within(search, wns'), AreHeld(search, wns', search.invalidTns),
         IsWorst(search, answer')
  PROVE  IInv'
<1>1. Settled(search) /\ reached = {} /\ answer.of = "none"
  BY SettledNow DEF IInv, QueryFlags
<1>2. /\ DesignType' /\ Exact(search)' /\ SearchFlags' /\ SearchHeld'
      /\ Endpoints' = Endpoints
  BY <1>1, SettledAfter DEF IInv
<1>3. WorstType(wns, graph)' /\ QueryType' /\ QueryFlags'
  BY DEF QueryType, QueryFlags, Updating, Queries, WorstAnswer, IInv
<1>4. Pending = search.invalidTns /\ Pending' = search.invalidTns
  BY DEF Pending, Updating
<1>5. TnsHeld'
  BY <1>2, <1>4 DEF IInv, TnsHeld, AreCounted, WorstAnswer
<1>6. WorstHeld'
  BY <1>2, <1>4 DEF WorstHeld, Within, AreHeld, ToQueue
<1>7. WorstAnswered'
  BY <1>2 DEF WorstAnswered, IsWorst
<1>8. QED
  BY <1>2, <1>3, <1>5, <1>6, <1>7 DEF IInv

LEMMA WorstKnownIInv == IInv /\ WorstKnown => IInv'
<1> SUFFICES ASSUME IInv, WorstKnown PROVE IInv'
  OBVIOUS
<1>1. /\ query = "worst" /\ wns.worst # None /\ query' = "idle"
      /\ answer' = WorstAnswer(wns) /\ wns' = wns
      /\ UNCHANGED <<graph, wired, data, limit, reached, edits, search, todo>>
  BY DEF WorstKnown, design
<1>2. /\ wns.exists /\ AreHeld(search, wns, {})
      /\ wns.queue \subseteq Endpoints /\ wns.worst \in {None} \cup Endpoints
      /\ search.invalidTns = {}
  BY <1>1, QueueNow DEF ToQueue
<1>3. Within(search, wns)
  BY <1>2 DEF Within
<1>4. IsWorst(search, answer')
  BY <1>1, <1>2 DEF IsWorst, WorstAnswer, AreHeld
<1>5. QED
  BY <1>1, <1>2, <1>3, <1>4, WorstFound DEF IInv, Updating

LEMMA FindWorstInQueueIInv == IInv /\ FindWorstInQueue => IInv'
<1> SUFFICES ASSUME IInv, FindWorstInQueue PROVE IInv'
  OBVIOUS
<1>1. PICK v \in Worst(search, wns.queue) :
        /\ wns' = [wns EXCEPT !.worst = IF Slack(search, v) = Inf THEN None ELSE v,
                              !.slack = Slack(search, v)]
        /\ query' = "idle"
        /\ answer' = WorstAnswer(wns')
  BY DEF FindWorstInQueue
<1>2. /\ query = "worst" /\ wns.worst = None /\ wns.queue # {}
      /\ UNCHANGED <<graph, wired, data, limit, reached, edits, search, todo>>
  BY DEF FindWorstInQueue, design
<1>3. /\ wns.exists /\ Settled(search) /\ AreHeld(search, wns, {})
      /\ wns.queue \subseteq Endpoints /\ search.invalidTns = {}
  BY <1>2, QueueNow DEF ToQueue
<1>4. v \in wns.queue /\ \A u \in wns.queue : Slack(search, v) <= Slack(search, u)
  BY <1>1 DEF Worst
<1>5. /\ v \in Endpoints /\ v \in graph /\ v \in Vertices
      /\ Slack(search, v) # Inf /\ Slack(search, v) <= wns.threshold
  BY <1>3, <1>4 DEF AreHeld, Held, Endpoints, IInv, DesignType
<1>6. \A u \in Endpoints : Slack(search, u) \in Int /\ Slack(search, u) <= Inf
  <2>1. \A u \in Vertices : Slack(search, u) \in Int /\ Slack(search, u) <= Inf
    BY <1>3, SlackType DEF Settled, Exact, SearchType
  <2>2. QED
    BY <2>1 DEF Endpoints, IInv, DesignType
<1>7. WorstShape(wns) /\ wns.threshold \in Int
  BY DEF IInv, WorstType
<1>8. /\ WorstShape(wns') /\ wns'.exists = wns.exists
      /\ wns'.worst = v /\ wns'.slack = Slack(search, v)
      /\ wns'.threshold = wns.threshold /\ wns'.queue = wns.queue
      /\ wns'.maxSize = wns.maxSize
  <2> DEFINE slack == Slack(search, v)
  <2>1. wns' = [wns EXCEPT !.worst = v, !.slack = slack]
    BY <1>1, <1>5
  <2> HIDE DEF slack
  <2>2. QED
    BY <1>7, <2>1 DEF WorstShape, slack
<1>9. WorstType(wns', graph)
  BY <1>5, <1>6, <1>8 DEF IInv, WorstType, MaybeNone
<1>10. \A u \in Endpoints : Slack(search, v) <= Slack(search, u)
  <2>1. SUFFICES ASSUME NEW u \in Endpoints, u \notin wns.queue
                 PROVE  Slack(search, v) <= Slack(search, u)
    BY <1>4
  <2>2. Slack(search, u) = Inf \/ ~(Slack(search, u) <= wns.threshold)
    BY <1>3, <2>1 DEF AreHeld, Held
  <2>3. QED
    BY <1>5, <1>6, <1>7, <2>1, <2>2
<1>11. v # None
  BY <1>5, SlacksAssumption
<1>12. Within(search, wns') /\ AreHeld(search, wns', {})
  BY <1>3, <1>5, <1>8, <1>10 DEF Within, AreHeld, Held
<1>13. IsWorst(search, answer')
  BY <1>1, <1>5, <1>8, <1>10, <1>11 DEF IsWorst, WorstAnswer
<1>14. QED
  BY <1>1, <1>2, <1>3, <1>8, <1>9, <1>12, <1>13, WorstFound DEF Updating

LEMMA InitQueueIInv == IInv /\ InitQueue => IInv'
<1> SUFFICES ASSUME IInv, InitQueue PROVE IInv'
  OBVIOUS
<1>1. /\ query = "worst" /\ wns.worst = None /\ wns.queue = {}
      /\ wns' = [wns EXCEPT !.slack = Inf, !.threshold = Inf]
      /\ search' = FindEndpoints(search)
      /\ query' = "initQueue" /\ todo' = search'.endpoints
      /\ UNCHANGED <<graph, wired, data, limit, reached, answer, edits>>
  BY DEF InitQueue, design
<1>2. Settled(search) /\ reached = {} /\ answer.of = "none" /\ wns.exists
  BY <1>1, SettledNow DEF IInv, QueryFlags
<1>3. /\ Exact(search')
      /\ SameFlags(search', search) /\ SamePaths(search', search)
      /\ SameTns(search', search) /\ SameInvalid(search', search)
      /\ search'.invalidTns = search.invalidTns
      /\ search'.endpointsFound /\ search'.invalidEndpoints = {}
      /\ Endpoints \subseteq search'.endpoints
  BY <1>1, <1>2, EndpointsFound DEF Settled
<1>4. Settled(search')
  BY <1>2, <1>3 DEF Settled, SameFlags, SamePaths, SameInvalid,
                    RequiredsOk, EndpointsOk
<1>5. /\ WorstShape(wns') /\ wns'.exists = wns.exists
      /\ wns'.worst = None /\ wns'.queue = {} /\ wns'.maxSize = wns.maxSize
      /\ wns'.slack = Inf /\ wns'.threshold = Inf
  BY <1>1 DEF IInv, WorstType, WorstShape
<1>6. WorstType(wns, graph)'
  BY <1>1, <1>5, SlacksAssumption DEF IInv, WorstType, MaybeNone
<1>7. /\ DesignType' /\ Exact(search)' /\ SearchFlags' /\ SearchHeld'
      /\ Endpoints' = Endpoints
  BY <1>1, <1>2, <1>4, <1>5, SettledAfter DEF IInv
<1>8. todo' \subseteq Vertices
  BY <1>1, <1>3 DEF Exact, SearchType, IInv, DesignType
<1>9. QueryType' /\ QueryFlags'
  BY <1>1, <1>2, <1>5, <1>8 DEF QueryType, QueryFlags, Updating, Queries, IInv
<1>10. Pending = search.invalidTns /\ Pending' = search.invalidTns
  BY <1>1, <1>3 DEF Pending, Updating
<1>11. \A u : Slack(search', u) = Slack(search, u)
  BY <1>3 DEF SamePaths, Slack
<1>12. TnsHeld'
  BY <1>1, <1>2, <1>3, <1>7, <1>10, <1>11
     DEF IInv, TnsHeld, AreCounted, Counted, SameTns
<1>13. WorstHeld'
  BY <1>1, <1>3, <1>5, <1>7 DEF WorstHeld, Within, AreQueued
<1>14. WorstAnswered'
  BY <1>1, <1>2 DEF WorstAnswered
<1>15. QED
  BY <1>6, <1>7, <1>9, <1>12, <1>13, <1>14 DEF IInv

LEMMA QueueInitializedIInv == IInv /\ QueueInitialized => IInv'
<1> SUFFICES ASSUME IInv, QueueInitialized PROVE IInv'
  OBVIOUS
<1>1. /\ query = "initQueue" /\ todo = {} /\ query' = "idle"
      /\ answer' = WorstAnswer(wns) /\ wns' = wns
      /\ UNCHANGED <<graph, wired, data, limit, reached, edits, search, todo>>
  BY DEF QueueInitialized, design
<1>2. wns.exists
  BY <1>1 DEF IInv, QueryFlags
<1>3. AreQueued(search, wns, {}) /\ Within(search, wns)
  BY <1>1, <1>2 DEF IInv, WorstHeld
<1>4. IsWorst(search, answer')
  BY <1>1, <1>3 DEF IsWorst, WorstAnswer, AreQueued
<1>5. AreHeld(search, wns, search.invalidTns)
  <2>1. None \notin Endpoints
    BY SlacksAssumption DEF Endpoints, IInv, DesignType
  <2>2. QED
    BY <1>3, <2>1 DEF AreHeld, AreQueued
<1>6. QED
  BY <1>1, <1>2, <1>3, <1>4, <1>5, WorstFound DEF IInv, Updating
(* One more vertex in the queue while it is filled.                        *)
LEMMA QueuedMore ==
  ASSUME IInv, Settled(search), NEW P, AreQueued(search, wns, P),
         NEW v \in P, v \in Endpoints, Slack(search, v) # Inf
  PROVE  LET w == Queued(search, wns, v)
         IN  /\ WorstType(w, graph) /\ w.exists = wns.exists
             /\ AreQueued(search, w, P \ {v})
<1> DEFINE w == Queued(search, wns, v)
           slack == Slack(search, v)
           worse == slack < wns.slack
<1>1. v \in graph /\ v \in Vertices
  BY DEF Endpoints, IInv, DesignType
<1>2. \A u \in Endpoints : Slack(search, u) \in Int /\ Slack(search, u) <= Inf
  <2>1. \A u \in Vertices : Slack(search, u) \in Int /\ Slack(search, u) <= Inf
    BY SlackType DEF Settled, Exact, SearchType
  <2>2. QED
    BY <2>1 DEF Endpoints, IInv, DesignType
<1>3. WorstType(wns, graph) /\ wns.slack \in Int /\ wns.threshold \in Int
  BY DEF IInv, WorstType
<1>4. /\ WorstType(w, graph)
      /\ w.exists = wns.exists /\ w.threshold = wns.threshold
      /\ w.queue = IF slack <= wns.threshold
                     THEN wns.queue \cup {v} ELSE wns.queue
      /\ w.worst = IF worse THEN v ELSE wns.worst
      /\ w.slack = IF worse THEN slack ELSE wns.slack
  BY <1>1, <1>2, <1>3, QueuedFields
<1> HIDE DEF w
<1>5. w.queue \subseteq Endpoints \ (P \ {v})
  BY <1>4 DEF AreQueued
<1>6. \A u \in Endpoints \ (P \ {v}) : Held(search, w, u)
  BY <1>4 DEF AreQueued, Held
<1>7. \A u \in Endpoints \ (P \ {v}) : w.slack <= Slack(search, u)
  BY <1>2, <1>3, <1>4 DEF AreQueued
<1>8. IF w.worst = None
        THEN w.slack = Inf
        ELSE w.worst \in Endpoints /\ w.slack = Slack(search, w.worst)
  <2>1. v # None
    BY <1>1, SlacksAssumption
  <2>2. QED
    BY <1>4, <2>1 DEF AreQueued
<1>9. QED
  BY <1>4, <1>5, <1>6, <1>7, <1>8 DEF AreQueued, w

(* Sorting the queue keeps it right for its new threshold.                 *)
LEMMA SortedQueue ==
  ASSUME IInv, Settled(search), NEW P, NEW w, WorstType(w, graph),
         AreQueued(search, w, P), NEW first \in Worst(search, w.queue)
  PROVE  LET x == SortQueue(search, w, first)
         IN  /\ WorstType(x, graph) /\ x.exists = w.exists
             /\ AreQueued(search, x, P)
<1> DEFINE x == SortQueue(search, w, first)
<1>1. first \in w.queue /\ \A u \in w.queue : Slack(search, first) <= Slack(search, u)
  BY DEF Worst
<1>2. /\ WorstType(x, graph) /\ x.exists = w.exists
      /\ x.queue = {v \in w.queue : Slack(search, v) <= x.threshold}
      /\ x.worst = first /\ x.slack = Slack(search, first)
      /\ \E v \in w.queue : x.threshold = Slack(search, v)
  <2>1. IsPaths(search) /\ graph \subseteq Vertices
    BY DEF Settled, Exact, SearchType, IInv, DesignType
  <2>2. QED
    BY <1>1, <2>1, SortQueueFields
<1> HIDE DEF x
<1>3. \A u \in Endpoints : Slack(search, u) \in Int /\ Slack(search, u) <= Inf
  <2>1. \A u \in Vertices : Slack(search, u) \in Int /\ Slack(search, u) <= Inf
    BY SlackType DEF Settled, Exact, SearchType
  <2>2. QED
    BY <2>1 DEF Endpoints, IInv, DesignType
<1>4. w.queue \subseteq Endpoints \ P /\ w.threshold \in Int
  BY DEF AreQueued, WorstType
<1>5. PICK last \in w.queue : x.threshold = Slack(search, last)
  BY <1>2
<1>6. /\ Slack(search, last) <= w.threshold /\ Slack(search, last) # Inf
      /\ Slack(search, last) \in Int /\ Slack(search, first) \in Int
      /\ Slack(search, first) <= Slack(search, last)
  BY <1>1, <1>3, <1>4, <1>5 DEF AreQueued, Held
<1>7. \A u \in Endpoints \ P : Held(search, x, u) /\ x.slack <= Slack(search, u)
  <2>1. SUFFICES ASSUME NEW u \in Endpoints, u \notin P
                 PROVE  Held(search, x, u) /\ x.slack <= Slack(search, u)
    OBVIOUS
  <2>2. u \in w.queue <=> Slack(search, u) # Inf /\ Slack(search, u) <= w.threshold
    BY <2>1 DEF AreQueued, Held
  <2>3. Slack(search, u) \in Int /\ Slack(search, u) <= Inf
    BY <1>3, <2>1
  <2>4. Held(search, x, u)
    BY <1>2, <1>4, <1>5, <1>6, <2>2, <2>3 DEF Held
  <2>5. CASE u \in w.queue
    BY <1>1, <1>2, <2>4, <2>5
  <2>6. CASE Slack(search, u) = Inf
    BY <1>1, <1>2, <1>3, <1>4, <2>4, <2>6
  <2>7. CASE ~(Slack(search, u) <= w.threshold)
    BY <1>2, <1>4, <1>6, <2>3, <2>4, <2>7
  <2>8. QED
    BY <2>2, <2>4, <2>5, <2>6, <2>7
<1>8. x.queue \subseteq Endpoints \ P
  BY <1>2, <1>4
<1>9. x.worst # None /\ x.worst \in Endpoints /\ x.slack = Slack(search, x.worst)
  <2>1. None \notin Endpoints
    BY SlacksAssumption DEF Endpoints, IInv, DesignType
  <2>2. QED
    BY <1>1, <1>2, <1>4, <2>1
<1>10. QED
  BY <1>2, <1>7, <1>8, <1>9 DEF AreQueued, x

LEMMA QueueEndpointIInv ==
  ASSUME IInv, NEW v \in todo, QueueEndpoint(v)
  PROVE  IInv'
<1>1. /\ query = "initQueue" /\ todo' = todo \ {v} /\ query' = query
      /\ UNCHANGED <<graph, wired, data, limit, reached, search, answer, edits>>
  BY DEF QueueEndpoint, design
<1>2. Settled(search) /\ reached = {} /\ answer.of = "none" /\ wns.exists
  BY <1>1, SettledNow DEF IInv, QueryFlags
<1>3. AreQueued(search, wns, todo)
  BY <1>1, <1>2 DEF IInv, WorstHeld
<1>4. WorstType(wns', graph) /\ wns'.exists /\ AreQueued(search, wns', todo \ {v})
  <2>1. CASE Slack(search, v) = Inf
    <3>1. wns' = wns
      BY <2>1 DEF QueueEndpoint
    <3>2. WorstType(wns, graph) /\ wns.slack <= Inf
      BY DEF IInv, WorstType
    <3>3. AreQueued(search, wns, todo \ {v})
      BY <1>3, <2>1, <3>2 DEF AreQueued, Held
    <3>4. QED
      BY <1>2, <3>1, <3>2, <3>3
  <2>2. CASE Slack(search, v) # Inf
    <3> DEFINE w == Queued(search, wns, v)
    <3>1. v \in Vertices
      BY DEF IInv, QueryType
    <3>2. v \in Endpoints
      BY <1>2, <2>2, <3>1 DEF Settled, Slack
    <3>3. /\ WorstType(w, graph) /\ w.exists = wns.exists
          /\ AreQueued(search, w, todo \ {v})
      BY <1>2, <1>3, <2>2, <3>2, QueuedMore
    <3>4. wns' = w \/ \E first \in Worst(search, w.queue) :
                        wns' = SortQueue(search, w, first)
      BY <2>2 DEF QueueEndpoint
    <3> HIDE DEF w
    <3>5. CASE wns' = w
      BY <1>2, <3>3, <3>5
    <3>6. CASE \E first \in Worst(search, w.queue) :
                 wns' = SortQueue(search, w, first)
      BY <1>2, <3>3, <3>6, SortedQueue, ZenonT(40)
    <3>7. QED
      BY <3>4, <3>5, <3>6
  <2>3. QED
    BY <2>1, <2>2
<1>5. /\ DesignType' /\ Exact(search)' /\ SearchFlags' /\ SearchHeld'
      /\ Endpoints' = Endpoints
  BY <1>1, <1>2, <1>4, SettledAfter DEF IInv
<1>6. WorstType(wns, graph)' /\ QueryType' /\ QueryFlags'
  BY <1>1, <1>4 DEF IInv, QueryType, QueryFlags, Updating
<1>7. Pending = search.invalidTns /\ Pending' = search.invalidTns
  BY <1>1 DEF Pending, Updating
<1>8. TnsHeld'
  BY <1>1, <1>5, <1>7 DEF IInv, TnsHeld, AreCounted
<1>9. WorstHeld'
  <2>1. Within(search, wns)'
    BY <1>4, <1>5 DEF Within, AreQueued
  <2>2. AreQueued(search, wns, todo)'
    BY <1>1, <1>4, <1>5 DEF AreQueued
  <2>3. QED
    BY <1>1, <2>1, <2>2 DEF WorstHeld
<1>10. WorstAnswered'
  BY <1>1, <1>2 DEF WorstAnswered
<1>11. QED
  BY <1>5, <1>6, <1>8, <1>9, <1>10 DEF IInv
------------------------------------------------------------------------------
(* The edits.  One that tells the Search which slacks it may have changed  *)
(* leaves what has been counted, queued and answered right.                *)
LEMMA AnswersKept ==
  ASSUME IInv, query = "idle", query' = query, answer' = NoAnswer, wns' = wns,
         SamePaths(search', search), SameTns(search', search),
         search.tnsExists \/ wns.exists =>
           /\ Endpoints' \ search'.invalidTns \subseteq Endpoints \ search.invalidTns
           /\ Endpoints \cup search.invalidArrivals
                \subseteq Endpoints' \cup search'.invalidArrivals
  PROVE  TnsHeld' /\ WorstHeld' /\ WorstAnswered'
<1>1. Pending = search.invalidTns /\ Pending' = search'.invalidTns
  BY DEF Pending, Updating
<1>2. \A u : Slack(search', u) = Slack(search, u)
  BY DEF SamePaths, Slack
<1>3. answer'.of = "none"
  BY DEF NoAnswer
<1>4. TnsHeld'
  <2>1. search'.tnsExists = search.tnsExists
    BY DEF SameTns
  <2>2. SUFFICES ASSUME search.tnsExists, NEW u \in Endpoints',
                        u \notin search'.invalidTns
                 PROVE  Counted(search', u)
    BY <1>1, <1>3, <2>1 DEF TnsHeld, AreCounted
  <2>3. Counted(search, u)
    BY <1>1, <2>2 DEF IInv, TnsHeld, AreCounted
  <2>4. QED
    BY <1>2, <2>3 DEF Counted, SameTns
<1>5. WorstHeld'
  <2>1. SUFFICES ASSUME wns.exists
                 PROVE  Within(search, wns)' /\ AreHeld(search, wns, Pending)'
    BY DEF WorstHeld
  <2>2. Within(search, wns) /\ AreHeld(search, wns, search.invalidTns)
    BY <1>1, <2>1 DEF IInv, WorstHeld, ToQueue
  <2>3. Within(search, wns)'
    BY <2>1, <2>2 DEF Within
  <2>4. AreHeld(search, wns, Pending)'
    BY <1>1, <1>2, <2>1, <2>2 DEF AreHeld, Held
  <2>5. QED
    BY <2>3, <2>4
<1>6. QED
  BY <1>3, <1>4, <1>5 DEF WorstAnswered

LEMMA EditKept ==
  ASSUME IInv, NEW kind, Edit(kind)
  PROVE  /\ query = "idle" /\ query' = query /\ answer' = NoAnswer
         /\ QueryType' /\ ~Updating /\ ~Updating'
BY SlacksAssumption DEF Edit, IInv, QueryType, Updating, NoAnswer

(* An edit after which the Search is as it was, but for what it has been   *)
(* told, in a graph that has the same vertices.                            *)
LEMMA ToldKept ==
  ASSUME IInv, NEW kind, Edit(kind), DesignType', graph' = graph, wns' = wns,
         Shape(search'),
         SameFlags(search', search), SamePaths(search', search),
         SameTns(search', search),
         search'.endpointsFound = search.endpointsFound,
         search'.endpoints = search.endpoints,
         search'.invalidEndpoints \subseteq graph,
         search'.invalidArrivals \subseteq graph,
         search'.invalidRequireds \subseteq graph,
         search'.reqQueue \subseteq Vertices,
         search'.invalidTns \subseteq graph,
         ~search.arrivals => search'.invalidArrivals = {},
         ~search.requireds => /\ search'.invalidRequireds = {}
                              /\ search'.invalidTns = {},
         search.arrivals =>
           Endpoints \cup search.invalidArrivals
             \subseteq Endpoints' \cup search'.invalidArrivals,
         search.tnsExists \/ wns.exists =>
           Endpoints' \ search'.invalidTns \subseteq Endpoints \ search.invalidTns,
         ArrivalsHeld', RequiredsOk(search)', EndpointsOk(search)',
         NotedOk(search)'
  PROVE  IInv'
<1>1. /\ query = "idle" /\ query' = query /\ answer' = NoAnswer /\ QueryType'
      /\ ~Updating'
  BY EditKept
<1>2. Exact(search)'
  BY DEF IInv, Exact, SearchType, IsPaths, Summed, SameFlags, SamePaths, SameTns
<1>3. WorstType(wns, graph)'
  BY DEF IInv
<1>4. SearchFlags' /\ QueryFlags'
  BY <1>1 DEF IInv, SearchFlags, QueryFlags, SameFlags, SamePaths, SameTns, NoAnswer
<1>5. PathsHeld'
  <2>1. SUFFICES ASSUME NEW v \in Vertices,
                        v \notin Endpoints' \cup search'.invalidArrivals
                 PROVE  search'.arr[v] = None /\ search'.req[v] = Inf
    BY DEF PathsHeld
  <2>2. CASE search.arrivals
    BY <2>1, <2>2 DEF IInv, SearchHeld, PathsHeld, SamePaths
  <2>3. CASE ~search.arrivals
    BY <2>1, <2>3 DEF IInv, SearchFlags, SamePaths, NoPaths, NoRequireds
  <2>4. QED
    BY <2>2, <2>3
<1>6. SearchHeld'
  BY <1>1, <1>5 DEF SearchHeld, NoAnswer
<1>7. search.tnsExists \/ wns.exists => search.arrivals
  BY DEF IInv, SearchFlags
<1>8. TnsHeld' /\ WorstHeld' /\ WorstAnswered'
  BY <1>1, <1>7, AnswersKept
<1>9. QED
  BY <1>1, <1>2, <1>3, <1>4, <1>6, <1>8 DEF IInv
LEMMA UpstreamChangeIInv ==
  ASSUME IInv, NEW v \in Vertices, NEW a \in Arrivals \cup {None},
         UpstreamChange(v, a)
  PROVE  IInv'
<1>1. /\ Edit("upstream") /\ v \in Endpoints
      /\ data' = [data EXCEPT ![v] = a] /\ reached' = reached \cup {v}
      /\ graph' = graph /\ wired' = wired /\ limit' = limit
      /\ search' = search /\ wns' = wns
  BY DEF UpstreamChange
<1>2. DesignType' /\ Endpoints' = Endpoints
  BY <1>1 DEF IInv, DesignType, MaybeNone, Endpoints
<1>3. Shape(search) /\ SearchType(search, graph)
  BY DEF IInv, Exact, SearchType
<1>4. ArrivalsHeld'
  BY <1>1, <1>2 DEF IInv, SearchHeld, ArrivalsHeld, DesignType
<1>5. RequiredsOk(search)' /\ EndpointsOk(search)' /\ NotedOk(search)'
  BY <1>1, <1>2 DEF IInv, SearchHeld, RequiredsOk, EndpointsOk, NotedOk
<1>6. /\ SameFlags(search', search) /\ SamePaths(search', search)
      /\ SameTns(search', search)
  BY <1>1 DEF SameFlags, SamePaths, SameTns
<1>7. /\ ~search.arrivals => search.invalidArrivals = {}
      /\ ~search.requireds => search.invalidRequireds = {} /\ search.invalidTns = {}
  BY DEF IInv, SearchFlags
<1>8. QED
  BY <1>1, <1>2, <1>3, <1>4, <1>5, <1>6, <1>7, ToldKept DEF SearchType

LEMMA LimitChangeIInv ==
  ASSUME IInv, NEW v \in Vertices, NEW l \in Limits, LimitChange(v, l)
  PROVE  IInv'
<1>1. /\ Edit("limit") /\ v \in graph
      /\ limit' = [limit EXCEPT ![v] = l]
      /\ search' = RequiredInvalid(search, {v}, Endpoints)
      /\ graph' = graph /\ wired' = wired /\ data' = data /\ reached' = reached
      /\ wns' = wns
  BY DEF LimitChange
<1>2. DesignType' /\ Endpoints' = Endpoints
  BY <1>1 DEF IInv, DesignType, Endpoints
<1>3. Shape(search) /\ SearchType(search, graph)
  BY DEF IInv, Exact, SearchType
<1>4. /\ Shape(search')
      /\ SameFlags(search', search) /\ SamePaths(search', search)
      /\ SameTns(search', search) /\ SameEnds(search', search)
      /\ search'.invalidArrivals = search.invalidArrivals
      /\ search'.invalidRequireds = IF search.requireds
                                      THEN search.invalidRequireds
                                             \cup ({v} \ search.reqQueue)
                                      ELSE search.invalidRequireds
      /\ search'.reqQueue = search.reqQueue
      /\ search'.invalidTns = IF search.requireds /\ (search.tnsExists \/ wns.exists)
                                THEN search.invalidTns \cup ({v} \cap Endpoints)
                                ELSE search.invalidTns
  <2> DEFINE r == RequiredInvalid(search, {v}, Endpoints)
  <2>1. Shape(search)
    BY <1>3
  <2>2. /\ Shape(r)
        /\ SameFlags(r, search) /\ SamePaths(r, search)
        /\ SameTns(r, search) /\ SameEnds(r, search)
        /\ r.invalidArrivals = search.invalidArrivals
        /\ r.invalidRequireds = IF search.requireds
                                  THEN search.invalidRequireds
                                         \cup ({v} \ search.reqQueue)
                                  ELSE search.invalidRequireds
        /\ r.reqQueue = search.reqQueue
        /\ r.invalidTns = IF search.requireds /\ (search.tnsExists \/ wns.exists)
                            THEN search.invalidTns \cup ({v} \cap Endpoints)
                            ELSE search.invalidTns
    BY <2>1, RequiredInvalidFields, ZenonT(40)
  <2>3. search' = r
    BY <1>1
  <2> HIDE DEF r
  <2>4. QED
    BY ONLY <2>2, <2>3
<1>5. search.tnsExists \/ wns.exists => search.requireds
  BY DEF IInv, SearchFlags
<1>6. ArrivalsHeld' /\ EndpointsOk(search)'
  BY <1>1, <1>2, <1>4, ZenonT(40)
     DEF IInv, SearchHeld, ArrivalsHeld, EndpointsOk, SameFlags, SamePaths, SameEnds
<1>7. RequiredsOk(search)'
  BY <1>1, <1>4 DEF IInv, SearchHeld, RequiredsOk, SameFlags, SamePaths, DesignType
<1>8. NotedOk(search)'
  BY <1>1, <1>2, <1>4, <1>5 DEF IInv, SearchHeld, NotedOk, SameTns
<1>9. /\ ~search.arrivals => search.invalidArrivals = {}
      /\ ~search.requireds => search.invalidRequireds = {} /\ search.invalidTns = {}
  BY DEF IInv, SearchFlags
<1>10. QED
  BY <1>1, <1>2, <1>3, <1>4, <1>5, <1>6, <1>7, <1>8, <1>9, ToldKept
     DEF SearchType, SameEnds

LEMMA RemoveOutputDelayIInv ==
  ASSUME IInv, NEW v \in Vertices, RemoveOutputDelay(v)
  PROVE  IInv'
<1>1. /\ Edit("removeDelay") /\ v \in graph
      /\ limit' = [limit EXCEPT ![v] = Inf]
      /\ search' = ArrivalInvalid(search, {v}, Endpoints)
      /\ graph' = graph /\ wired' = wired /\ data' = data /\ reached' = reached
      /\ wns' = wns
  BY DEF RemoveOutputDelay
<1>2. DesignType' /\ Endpoints' = Endpoints
  BY <1>1 DEF IInv, DesignType, Endpoints
<1>3. Shape(search) /\ SearchType(search, graph)
  BY DEF IInv, Exact, SearchType
<1>4. /\ Shape(search')
      /\ SameFlags(search', search) /\ SamePaths(search', search)
      /\ SameTns(search', search) /\ SameEnds(search', search)
      /\ search'.invalidArrivals = IF search.arrivals
                                     THEN search.invalidArrivals \cup {v}
                                     ELSE search.invalidArrivals
      /\ search'.invalidRequireds = search.invalidRequireds
      /\ search'.reqQueue = search.reqQueue
      /\ search'.invalidTns = IF search.arrivals /\ (search.tnsExists \/ wns.exists)
                                THEN search.invalidTns \cup ({v} \cap Endpoints)
                                ELSE search.invalidTns
  BY <1>1, <1>3, ArrivalInvalidFields, ZenonT(40)
<1>5. /\ search.tnsExists \/ wns.exists => search.requireds /\ search.arrivals
      /\ ~search.arrivals => search.invalidArrivals = {}
      /\ ~search.requireds => search.invalidRequireds = {} /\ search.invalidTns = {}
  BY DEF IInv, SearchFlags
<1>6. ArrivalsHeld' /\ EndpointsOk(search)'
  BY <1>1, <1>2, <1>4
     DEF IInv, SearchHeld, ArrivalsHeld, EndpointsOk, SameFlags, SamePaths, SameEnds
<1>7. RequiredsOk(search)'
  BY <1>1, <1>4 DEF IInv, SearchHeld, RequiredsOk, SameFlags, SamePaths, DesignType
<1>8. NotedOk(search)'
  BY <1>1, <1>2, <1>4, <1>5 DEF IInv, SearchHeld, NotedOk, SameTns
<1>9. QED
  BY <1>1, <1>2, <1>3, <1>4, <1>5, <1>6, <1>7, <1>8, ToldKept
     DEF SearchType, SameEnds

LEMMA DisconnectPinIInv ==
  ASSUME IInv, NEW v \in Vertices, DisconnectPin(v)
  PROVE  IInv'
<1>1. /\ Edit("disconnect") /\ v \in Endpoints
      /\ search' = ArrivalInvalid(search, {v}, Endpoints)
      /\ wired' = [wired EXCEPT ![v] = FALSE] /\ reached' = reached \ {v}
      /\ graph' = graph /\ data' = data /\ limit' = limit /\ wns' = wns
  BY DEF DisconnectPin
<1>2. DesignType' /\ Endpoints' = Endpoints \ {v} /\ v \in graph
  BY <1>1 DEF IInv, DesignType, Endpoints
<1>3. Shape(search) /\ SearchType(search, graph)
  BY DEF IInv, Exact, SearchType
<1>4. /\ Shape(search')
      /\ SameFlags(search', search) /\ SamePaths(search', search)
      /\ SameTns(search', search) /\ SameEnds(search', search)
      /\ search'.invalidArrivals = IF search.arrivals
                                     THEN search.invalidArrivals \cup {v}
                                     ELSE search.invalidArrivals
      /\ search'.invalidRequireds = search.invalidRequireds
      /\ search'.reqQueue = search.reqQueue
      /\ search'.invalidTns = IF search.arrivals /\ (search.tnsExists \/ wns.exists)
                                THEN search.invalidTns \cup ({v} \cap Endpoints)
                                ELSE search.invalidTns
  BY <1>1, <1>3, ArrivalInvalidFields, ZenonT(40)
<1>5. /\ search.tnsExists \/ wns.exists => search.requireds /\ search.arrivals
      /\ ~search.arrivals => search.invalidArrivals = {}
      /\ ~search.requireds => search.invalidRequireds = {} /\ search.invalidTns = {}
  BY DEF IInv, SearchFlags
<1>6. ArrivalsHeld' /\ EndpointsOk(search)'
  BY <1>1, <1>2, <1>4
     DEF IInv, SearchHeld, ArrivalsHeld, EndpointsOk, SameFlags, SamePaths, SameEnds
<1>7. RequiredsOk(search)'
  BY <1>1, <1>4 DEF IInv, SearchHeld, RequiredsOk, SameFlags, SamePaths
<1>8. NotedOk(search)'
  BY <1>1, <1>2, <1>4 DEF IInv, SearchHeld, NotedOk, SameTns
<1>9. QED
  BY <1>1, <1>2, <1>3, <1>4, <1>5, <1>6, <1>7, <1>8, ToldKept
     DEF SearchType, SameEnds

(* The two ways to be connected: r is the Search that may have been told   *)
(* that the required time is invalid.                                      *)
LEMMA ConnectedKept ==
  ASSUME IInv, NEW v \in Vertices, NEW a \in Arrivals \cup {None},
         Edit("connect"), Connected(v, a), NEW r, Shape(r),
         SameFlags(r, search), SamePaths(r, search), SameTns(r, search),
         SameEnds(r, search), r.invalidArrivals = search.invalidArrivals,
         r.reqQueue = search.reqQueue,
         search.invalidRequireds \subseteq r.invalidRequireds,
         r.invalidRequireds \subseteq search.invalidRequireds \cup {v},
         ~search.requireds => r.invalidRequireds = {},
         r.invalidTns = search.invalidTns,
         search' = ConnectAfter(r, v)
  PROVE  IInv'
<1> DEFINE b == ArrivalInvalid(r, {v}, Endpoints \cup {v})
<1>1. /\ v \in graph /\ v \notin Endpoints
      /\ wired' = [wired EXCEPT ![v] = TRUE] /\ data' = [data EXCEPT ![v] = a]
      /\ graph' = graph /\ limit' = limit /\ reached' = reached /\ wns' = wns
      /\ search' = EndpointInvalid(b, {v})
  BY DEF Connected, ConnectAfter
<1>2. DesignType' /\ Endpoints' = Endpoints \cup {v}
  BY <1>1 DEF IInv, DesignType, Endpoints, MaybeNone
<1>3. SearchType(search, graph)
  BY DEF IInv, Exact
<1>4. /\ Shape(b)
      /\ SameFlags(b, r) /\ SamePaths(b, r) /\ SameTns(b, r) /\ SameEnds(b, r)
      /\ b.invalidArrivals = IF r.arrivals THEN r.invalidArrivals \cup {v}
                                           ELSE r.invalidArrivals
      /\ b.invalidRequireds = r.invalidRequireds /\ b.reqQueue = r.reqQueue
      /\ b.invalidTns = IF r.arrivals /\ (r.tnsExists \/ wns.exists)
                          THEN r.invalidTns \cup ({v} \cap (Endpoints \cup {v}))
                          ELSE r.invalidTns
  <2>1. ASSUME NEW E
        PROVE  LET t == ArrivalInvalid(r, {v}, E)
               IN  /\ Shape(t)
                   /\ SameFlags(t, r) /\ SamePaths(t, r) /\ SameTns(t, r)
                   /\ SameEnds(t, r)
                   /\ t.invalidArrivals = IF r.arrivals THEN r.invalidArrivals \cup {v}
                                                        ELSE r.invalidArrivals
                   /\ t.invalidRequireds = r.invalidRequireds
                   /\ t.reqQueue = r.reqQueue
                   /\ t.invalidTns = IF r.arrivals /\ (r.tnsExists \/ wns.exists)
                                       THEN r.invalidTns \cup ({v} \cap E)
                                       ELSE r.invalidTns
    BY ArrivalInvalidFields
  <2>2. QED
    BY <2>1
<1> HIDE DEF b
<1>5. /\ Shape(search')
      /\ SameFlags(search', b) /\ SamePaths(search', b) /\ SameTns(search', b)
      /\ SameInvalid(search', b) /\ search'.invalidTns = b.invalidTns
      /\ search'.endpointsFound = b.endpointsFound
      /\ search'.endpoints = b.endpoints
      /\ search'.invalidEndpoints = IF b.endpointsFound
                                      THEN b.invalidEndpoints \cup {v}
                                      ELSE b.invalidEndpoints
  <2>1. LET t == EndpointInvalid(b, {v})
        IN  /\ Shape(t)
            /\ SameFlags(t, b) /\ SamePaths(t, b) /\ SameTns(t, b)
            /\ SameInvalid(t, b) /\ t.invalidTns = b.invalidTns
            /\ t.endpointsFound = b.endpointsFound /\ t.endpoints = b.endpoints
            /\ t.invalidEndpoints = IF b.endpointsFound
                                      THEN b.invalidEndpoints \cup {v}
                                      ELSE b.invalidEndpoints
    BY <1>4, EndpointInvalidFields
  <2>2. QED
    BY <1>1, <2>1
<1>6. /\ SameFlags(search', search) /\ SamePaths(search', search)
      /\ SameTns(search', search) /\ search'.reqQueue = search.reqQueue
      /\ search'.invalidRequireds = r.invalidRequireds
      /\ search'.invalidArrivals = IF search.arrivals
                                     THEN search.invalidArrivals \cup {v}
                                     ELSE search.invalidArrivals
      /\ search'.invalidTns = IF search.arrivals /\ (search.tnsExists \/ wns.exists)
                                THEN search.invalidTns \cup {v}
                                ELSE search.invalidTns
      /\ search'.endpointsFound = search.endpointsFound
      /\ search'.endpoints = search.endpoints
      /\ search'.invalidEndpoints = IF search.endpointsFound
                                      THEN search.invalidEndpoints \cup {v}
                                      ELSE search.invalidEndpoints
  BY <1>4, <1>5, ZenonT(40) DEF SameFlags, SamePaths, SameTns, SameEnds, SameInvalid
<1>7. /\ search.tnsExists \/ wns.exists => search.requireds /\ search.arrivals
      /\ ~search.arrivals => search.invalidArrivals = {}
      /\ ~search.requireds => search.invalidRequireds = {} /\ search.invalidTns = {}
      /\ search.requireds => search.arrivals
  BY DEF IInv, SearchFlags
<1>8. ArrivalsHeld' /\ EndpointsOk(search)'
  <2>1. ArrivalsHeld /\ EndpointsOk(search) /\ data \in [Vertices -> MaybeNone(Arrivals)]
        /\ graph \subseteq Vertices
    BY DEF IInv, SearchHeld, DesignType
  <2>2. EndpointsOk(search)'
    BY <1>2, <1>6, <2>1 DEF EndpointsOk
  <2>3. \A u \in Endpoints : data'[u] = data[u] /\ u \in Vertices
    BY <1>1, <2>1 DEF Endpoints
  <2>4. search'.arrivals = search.arrivals /\ search'.arr = search.arr
    BY <1>6 DEF SameFlags, SamePaths
  <2>5. ASSUME search'.arrivals,
               NEW u \in Endpoints' \ (search'.invalidArrivals \cup reached')
        PROVE  search'.arr[u] = data'[u]
    <3>1. u \in Endpoints \ (search.invalidArrivals \cup reached)
      BY <1>1, <1>2, <1>6, <2>4, <2>5
    <3>2. search.arr[u] = data[u]
      BY <2>1, <2>4, <2>5, <3>1 DEF ArrivalsHeld
    <3>3. QED
      BY <2>3, <2>4, <3>1, <3>2
  <2>6. ArrivalsHeld'
    BY <2>5 DEF ArrivalsHeld
  <2>7. QED
    BY <2>2, <2>6
<1>9. RequiredsOk(search)'
  BY <1>1, <1>6 DEF IInv, SearchHeld, RequiredsOk, SameFlags, SamePaths
<1>10. NotedOk(search)'
  BY <1>1, <1>2, <1>6, <1>7 DEF IInv, SearchHeld, NotedOk, SameTns
<1>11. QED
  BY <1>1, <1>2, <1>3, <1>5, <1>6, <1>7, <1>8, <1>9, <1>10, ToldKept
     DEF SearchType
LEMMA ConnectPinIInv ==
  ASSUME IInv, NEW v \in Vertices, NEW a \in Arrivals \cup {None}, ConnectPin(v, a)
  PROVE  IInv'
<1> DEFINE r == RequiredInvalid(search, {v}, Endpoints)
<1>1. Edit("connect") /\ Connected(v, a) /\ search' = ConnectAfter(r, v)
  BY DEF ConnectPin
<1>2. v \notin Endpoints
  BY <1>1 DEF Connected
<1>3. Shape(search)
  BY DEF IInv, Exact, SearchType
<1>4. /\ Shape(r)
      /\ SameFlags(r, search) /\ SamePaths(r, search) /\ SameTns(r, search)
      /\ SameEnds(r, search) /\ r.invalidArrivals = search.invalidArrivals
      /\ r.invalidRequireds = IF search.requireds
                                THEN search.invalidRequireds
                                       \cup ({v} \ search.reqQueue)
                                ELSE search.invalidRequireds
      /\ r.reqQueue = search.reqQueue
      /\ r.invalidTns = IF search.requireds /\ (search.tnsExists \/ wns.exists)
                          THEN search.invalidTns \cup ({v} \cap Endpoints)
                          ELSE search.invalidTns
  BY <1>3, RequiredInvalidFields
<1> HIDE DEF r
<1>5. ~search.requireds => search.invalidRequireds = {}
  BY DEF IInv, SearchFlags
<1>6. QED
  BY <1>1, <1>2, <1>4, <1>5, ConnectedKept

LEMMA ConnectDriverIInv ==
  ASSUME IInv, NEW v \in Vertices, NEW a \in Arrivals \cup {None},
         ConnectDriver(v, a)
  PROVE  IInv'
<1>1. Edit("connect") /\ Connected(v, a) /\ search' = ConnectAfter(search, v)
  BY DEF ConnectDriver
<1>2. Shape(search) /\ (~search.requireds => search.invalidRequireds = {})
  BY DEF IInv, Exact, SearchType, SearchFlags
<1>3. /\ SameFlags(search, search) /\ SamePaths(search, search)
      /\ SameTns(search, search) /\ SameEnds(search, search)
  BY DEF SameFlags, SamePaths, SameTns, SameEnds
<1>4. QED
  BY <1>1, <1>2, <1>3, ConnectedKept

LEMMA LevelChangeIInv ==
  ASSUME IInv, NEW v \in Vertices, LevelChange(v)
  PROVE  IInv'
<1> DEFINE q == [search EXCEPT !.reqQueue = search.reqQueue \ {v}]
           b == ArrivalInvalid(q, {v}, Endpoints)
<1>1. /\ Edit("relevelize") /\ v \in graph
      /\ search' = IF search.arrivals
                     THEN RequiredInvalid(b, {v}, Endpoints)
                     ELSE search
      /\ UNCHANGED <<graph, wired, data, limit, reached, wns>>
  BY DEF LevelChange, design
<1>2. DesignType' /\ Endpoints' = Endpoints
  BY <1>1 DEF IInv, DesignType, Endpoints
<1>3. Shape(search) /\ SearchType(search, graph)
  BY DEF IInv, Exact, SearchType
<1>4. /\ Shape(q) /\ SameFlags(q, search) /\ SamePaths(q, search)
      /\ SameTns(q, search) /\ SameEnds(q, search)
      /\ q.invalidArrivals = search.invalidArrivals
      /\ q.invalidRequireds = search.invalidRequireds
      /\ q.reqQueue = search.reqQueue \ {v} /\ q.invalidTns = search.invalidTns
  BY <1>3 DEF Shape, SameFlags, SamePaths, SameTns, SameEnds
<1> HIDE DEF q
<1>5. /\ Shape(b)
      /\ SameFlags(b, q) /\ SamePaths(b, q) /\ SameTns(b, q) /\ SameEnds(b, q)
      /\ b.invalidArrivals = IF q.arrivals THEN q.invalidArrivals \cup {v}
                                           ELSE q.invalidArrivals
      /\ b.invalidRequireds = q.invalidRequireds /\ b.reqQueue = q.reqQueue
      /\ b.invalidTns = IF q.arrivals /\ (q.tnsExists \/ wns.exists)
                          THEN q.invalidTns \cup ({v} \cap Endpoints)
                          ELSE q.invalidTns
  <2>1. Shape(q)
    BY <1>4
  <2>2. QED
    BY <2>1, ArrivalInvalidFields
<1> HIDE DEF b
<1>6. LET t == RequiredInvalid(b, {v}, Endpoints)
      IN  /\ Shape(t)
          /\ SameFlags(t, b) /\ SamePaths(t, b) /\ SameTns(t, b) /\ SameEnds(t, b)
          /\ t.invalidArrivals = b.invalidArrivals
          /\ t.invalidRequireds = IF b.requireds
                                    THEN b.invalidRequireds \cup ({v} \ b.reqQueue)
                                    ELSE b.invalidRequireds
          /\ t.reqQueue = b.reqQueue
          /\ t.invalidTns = IF b.requireds /\ (b.tnsExists \/ wns.exists)
                              THEN b.invalidTns \cup ({v} \cap Endpoints)
                              ELSE b.invalidTns
  <2>1. Shape(b)
    BY <1>5
  <2>2. QED
    BY <2>1, RequiredInvalidFields
<1>7. /\ search.tnsExists \/ wns.exists => search.requireds /\ search.arrivals
      /\ ~search.arrivals => search.invalidArrivals = {}
      /\ ~search.requireds => search.invalidRequireds = {} /\ search.invalidTns = {}
      /\ search.requireds => search.arrivals
  BY DEF IInv, SearchFlags
<1>8. /\ Shape(search')
      /\ SameFlags(search', search) /\ SamePaths(search', search)
      /\ SameTns(search', search) /\ SameEnds(search', search)
      /\ search'.invalidArrivals = IF search.arrivals
                                     THEN search.invalidArrivals \cup {v}
                                     ELSE search.invalidArrivals
      /\ search'.invalidRequireds = IF search.requireds
                                      THEN search.invalidRequireds \cup {v}
                                      ELSE search.invalidRequireds
      /\ search'.reqQueue = IF search.arrivals THEN search.reqQueue \ {v}
                                               ELSE search.reqQueue
      /\ search'.invalidTns = IF search.tnsExists \/ wns.exists
                                THEN search.invalidTns \cup ({v} \cap Endpoints)
                                ELSE search.invalidTns
  <2>1. CASE search.arrivals
    <3>1. search' = RequiredInvalid(b, {v}, Endpoints)
      BY <1>1, <2>1
    <3>2. v \notin b.reqQueue
      BY <1>4, <1>5
    <3>3. QED
      BY <1>4, <1>5, <1>6, <1>7, <2>1, <3>1, <3>2, ZenonT(40)
         DEF SameFlags, SamePaths, SameTns, SameEnds
  <2>2. CASE ~search.arrivals
    BY <1>1, <1>3, <1>7, <2>2 DEF SameFlags, SamePaths, SameTns, SameEnds
  <2>3. QED
    BY <2>1, <2>2
<1>9. ArrivalsHeld' /\ EndpointsOk(search)'
  BY <1>1, <1>2, <1>8
     DEF IInv, SearchHeld, ArrivalsHeld, EndpointsOk, SameFlags, SamePaths, SameEnds
<1>10. RequiredsOk(search)'
  BY <1>1, <1>8 DEF IInv, SearchHeld, RequiredsOk, SameFlags, SamePaths
<1>11. NotedOk(search)'
  BY <1>1, <1>2, <1>7, <1>8 DEF IInv, SearchHeld, NotedOk, SameTns
<1>12. QED
  BY <1>1, <1>2, <1>3, <1>7, <1>8, <1>9, <1>10, <1>11, ToldKept
     DEF SearchType, SameEnds

LEMMA ArrivalsInvalidIInv == IInv /\ ArrivalsInvalid => IInv'
<1> SUFFICES ASSUME IInv, ArrivalsInvalid PROVE IInv'
  OBVIOUS
<1>1. /\ Edit("constraints") /\ wns' = NoWorst
      /\ UNCHANGED <<graph, wired, data, limit, reached>>
      /\ search' = [search EXCEPT
                      !.arrivals = FALSE, !.requireds = FALSE,
                      !.arr = NoPaths, !.req = NoRequireds,
                      !.invalidArrivals = {}, !.invalidRequireds = {},
                      !.reqQueue = {}, !.invalidTns = {}, !.tnsExists = FALSE]
  BY DEF ArrivalsInvalid, design
<1>2. /\ query = "idle" /\ query' = query /\ answer' = NoAnswer /\ QueryType'
      /\ ~Updating'
  BY <1>1, EditKept
<1>3. DesignType' /\ Endpoints' = Endpoints
  BY <1>1 DEF IInv, DesignType, Endpoints
<1>4. SearchType(search, graph) /\ Shape(search) /\ Summed(search)
  BY DEF IInv, Exact, SearchType
<1>5. /\ Shape(search')
      /\ search'.arr = NoPaths /\ search'.req = NoRequireds
      /\ search'.invalidArrivals = {} /\ search'.invalidRequireds = {}
      /\ search'.reqQueue = {} /\ search'.invalidTns = {}
      /\ SameEnds(search', search)
      /\ search'.tns = search.tns /\ search'.tnsSlacks = search.tnsSlacks
  BY <1>1, <1>4 DEF Shape, SameEnds
<1>6. /\ search'.arrivals = FALSE /\ search'.requireds = FALSE
      /\ search'.tnsExists = FALSE
  BY <1>1, <1>4 DEF Shape
<1>7. NoPaths \in [Vertices -> MaybeNone(Arrivals)]
      /\ NoRequireds \in [Vertices -> Limits \cup {Inf}]
  BY DEF NoPaths, NoRequireds, MaybeNone
<1>8. Exact(search)'
  <2>1. /\ search'.arrivals \in BOOLEAN /\ search'.requireds \in BOOLEAN
        /\ search'.tnsExists \in BOOLEAN
    BY <1>6
  <2>2. QED
    BY <1>1, <1>4, <1>5, <1>7, <2>1
       DEF Exact, SearchType, IsPaths, Summed, SameEnds
<1>9. WorstShape(NoWorst) /\ NoWorst.worst = None /\ NoWorst.queue = {}
      /\ NoWorst.slack = Inf /\ NoWorst.threshold = Inf
      /\ NoWorst.maxSize = MaxQueueSize
  BY DEF NoWorst, WorstShape
<1>10. NoWorst.exists = FALSE
  BY DEF NoWorst
<1>11. WorstType(wns, graph)'
  <2>1. NoWorst.exists \in BOOLEAN
    BY <1>10
  <2>2. QED
    BY <1>1, <1>9, <2>1, SlacksAssumption DEF WorstType, MaybeNone
<1>12. SearchFlags' /\ QueryFlags'
  BY <1>1, <1>2, <1>5, <1>6, <1>10 DEF SearchFlags, QueryFlags
<1>13. SearchHeld'
  <2>1. PathsHeld'
    BY <1>5 DEF PathsHeld, NoPaths, NoRequireds
  <2>2. EndpointsOk(search)'
    BY <1>3, <1>5 DEF IInv, SearchHeld, EndpointsOk, SameEnds
  <2>3. QED
    BY <1>1, <1>2, <1>6, <1>10, <2>1, <2>2
       DEF SearchHeld, ArrivalsHeld, RequiredsOk, NotedOk, NoAnswer
<1>14. TnsHeld' /\ WorstHeld' /\ WorstAnswered'
  BY <1>1, <1>2, <1>6, <1>10 DEF TnsHeld, WorstHeld, WorstAnswered, NoAnswer
<1>15. QED
  BY <1>2, <1>3, <1>8, <1>11, <1>12, <1>13, <1>14 DEF IInv
LEMMA RequiredsInvalidIInv ==
  ASSUME IInv, NEW v \in Vertices, NEW l \in Limits, RequiredsInvalid(v, l)
  PROVE  IInv'
<1>1. /\ Edit("checks") /\ wns' = NoWorst
      /\ limit' = [limit EXCEPT ![v] = l]
      /\ UNCHANGED <<graph, wired, data, reached>>
      /\ search' = [search EXCEPT !.requireds = FALSE, !.invalidRequireds = {},
                                  !.invalidTns = {}, !.tnsExists = FALSE]
  BY DEF RequiredsInvalid
<1>2. /\ query = "idle" /\ query' = query /\ answer' = NoAnswer /\ QueryType'
      /\ ~Updating'
  BY <1>1, EditKept
<1>3. DesignType' /\ Endpoints' = Endpoints
  BY <1>1 DEF IInv, DesignType, Endpoints
<1>4. SearchType(search, graph) /\ Shape(search) /\ Summed(search)
  BY DEF IInv, Exact, SearchType
<1>5. /\ Shape(search') /\ SamePaths(search', search)
      /\ search'.arrivals = search.arrivals
      /\ search'.invalidArrivals = search.invalidArrivals
      /\ search'.reqQueue = search.reqQueue
      /\ search'.invalidRequireds = {} /\ search'.invalidTns = {}
      /\ SameEnds(search', search)
      /\ search'.tns = search.tns /\ search'.tnsSlacks = search.tnsSlacks
  BY <1>1, <1>4 DEF Shape, SameEnds, SamePaths
<1>6. search'.requireds = FALSE /\ search'.tnsExists = FALSE
  BY <1>1, <1>4 DEF Shape
<1>7. Exact(search)'
  <2>1. search'.requireds \in BOOLEAN /\ search'.tnsExists \in BOOLEAN
    BY <1>6
  <2>2. QED
    BY <1>1, <1>4, <1>5, <2>1
       DEF Exact, SearchType, IsPaths, Summed, SameEnds, SamePaths
<1>8. WorstShape(NoWorst) /\ NoWorst.worst = None /\ NoWorst.queue = {}
      /\ NoWorst.slack = Inf /\ NoWorst.threshold = Inf
      /\ NoWorst.maxSize = MaxQueueSize
  BY DEF NoWorst, WorstShape
<1>9. NoWorst.exists = FALSE
  BY DEF NoWorst
<1>10. WorstType(wns, graph)'
  <2>1. NoWorst.exists \in BOOLEAN
    BY <1>9
  <2>2. QED
    BY <1>1, <1>8, <2>1, SlacksAssumption DEF WorstType, MaybeNone
<1>11. SearchFlags' /\ QueryFlags'
  BY <1>1, <1>2, <1>5, <1>6, <1>9
     DEF IInv, SearchFlags, SamePaths, QueryFlags
<1>12. SearchHeld'
  <2>1. PathsHeld' /\ ArrivalsHeld'
    BY <1>1, <1>3, <1>5 DEF IInv, SearchHeld, PathsHeld, ArrivalsHeld, SamePaths
  <2>2. EndpointsOk(search)'
    BY <1>3, <1>5 DEF IInv, SearchHeld, EndpointsOk, SameEnds
  <2>3. QED
    BY <1>1, <1>2, <1>6, <1>9, <2>1, <2>2
       DEF SearchHeld, RequiredsOk, NotedOk, NoAnswer
<1>13. TnsHeld' /\ WorstHeld' /\ WorstAnswered'
  BY <1>1, <1>2, <1>6, <1>9 DEF TnsHeld, WorstHeld, WorstAnswered, NoAnswer
<1>14. QED
  BY <1>2, <1>3, <1>7, <1>10, <1>11, <1>12, <1>13 DEF IInv

(* What deleteVertexBefore leaves of the Search.                           *)
LEMMA DeleteVertexFields ==
  ASSUME IInv, NEW v \in Vertices
  PROVE  LET t == DeleteVertexBefore(v)
         IN  /\ SearchType(t, graph \ {v}) /\ Summed(t)
             /\ SameFlags(t, search)
             /\ t.arr = [u \in Vertices |-> IF u = v THEN None ELSE search.arr[u]]
             /\ t.req = [u \in Vertices |-> IF u = v THEN Inf ELSE search.req[u]]
             /\ t.invalidArrivals = search.invalidArrivals \ {v}
             /\ t.invalidRequireds = search.invalidRequireds \ {v}
             /\ t.reqQueue \subseteq search.reqQueue
             /\ search.reqQueue \subseteq t.reqQueue \cup {v}
             /\ t.invalidTns = search.invalidTns \ {v}
             /\ t.endpointsFound = search.endpointsFound
             /\ t.endpoints = search.endpoints \ {v}
             /\ t.invalidEndpoints = search.invalidEndpoints \ {v}
             /\ t.tnsExists = search.tnsExists
             /\ search.tnsExists =>
                  IsWithout(t.tnsSlacks, search.tnsSlacks, {v} \cap Endpoints)
<1> DEFINE t == DeleteVertexBefore(v)
           s == IF search.arrivals THEN DeletePaths(search, {v}) ELSE search
           arrivals == IF s.arrivals THEN s.invalidArrivals \ {v} ELSE s.invalidArrivals
           queue == IF s.requireds THEN s.reqQueue \ {v} ELSE s.reqQueue
           requireds == IF s.requireds THEN s.invalidRequireds \ {v}
                                       ELSE s.invalidRequireds
           tns == IF s.requireds THEN s.invalidTns \ {v} ELSE s.invalidTns
           ends == s.endpoints \ {v}
           invalidEnds == s.invalidEndpoints \ {v}
<1>1. /\ SearchType(search, graph) /\ Shape(search) /\ IsPaths(search)
      /\ Summed(search) /\ Tabled(search)
  BY DEF IInv, Exact, SearchType, Tabled
<1>2. /\ ~search.arrivals => /\ search.invalidArrivals = {}
                             /\ search.arr = NoPaths /\ search.req = NoRequireds
      /\ ~search.requireds => search.invalidRequireds = {} /\ search.invalidTns = {}
      /\ search.tnsExists => search.arrivals
  BY DEF IInv, SearchFlags
<1>3. LET d == DeletePaths(search, {v})
      IN  /\ Shape(d) /\ IsPaths(d)
          /\ SameFlags(d, search) /\ SameInvalid(d, search)
          /\ SameEnds(d, search) /\ d.invalidTns = search.invalidTns
          /\ d.arr = [u \in Vertices |-> IF u \in {v} THEN None ELSE search.arr[u]]
          /\ d.req = [u \in Vertices |-> IF u \in {v} THEN Inf ELSE search.req[u]]
          /\ d.tnsExists = search.tnsExists /\ Summed(d) /\ Tabled(d)
          /\ search.tnsExists =>
               IsWithout(d.tnsSlacks, search.tnsSlacks, {v} \cap Endpoints)
  BY <1>1, DeletePathsFields
<1>4. /\ Shape(s) /\ IsPaths(s)
      /\ SameFlags(s, search) /\ SameInvalid(s, search)
      /\ SameEnds(s, search) /\ s.invalidTns = search.invalidTns
      /\ s.arr = [u \in Vertices |-> IF u = v THEN None ELSE search.arr[u]]
      /\ s.req = [u \in Vertices |-> IF u = v THEN Inf ELSE search.req[u]]
      /\ s.tnsExists = search.tnsExists /\ Summed(s) /\ Tabled(s)
      /\ search.tnsExists =>
           IsWithout(s.tnsSlacks, search.tnsSlacks, {v} \cap Endpoints)
  <2>1. CASE search.arrivals
    <3>1. s = DeletePaths(search, {v})
      BY <2>1
    <3>2. QED
      BY <1>3, <3>1
  <2>2. CASE ~search.arrivals
    <3>1. s = search
      BY <2>2
    <3>2. /\ search.arr = [u \in Vertices |-> IF u = v THEN None ELSE search.arr[u]]
          /\ search.req = [u \in Vertices |-> IF u = v THEN Inf ELSE search.req[u]]
      BY <1>2, <2>2 DEF NoPaths, NoRequireds
    <3> HIDE DEF s
    <3>3. QED
      BY <1>1, <1>2, <2>2, <3>1, <3>2 DEF SameFlags, SameInvalid, SameEnds
  <2>3. QED
    BY <2>1, <2>2
<1>5. t = [s EXCEPT !.invalidArrivals = arrivals, !.reqQueue = queue,
                    !.invalidRequireds = requireds, !.invalidTns = tns,
                    !.endpoints = ends, !.invalidEndpoints = invalidEnds]
  BY DEF DeleteVertexBefore
<1> HIDE DEF s, t
<1>6. /\ arrivals = search.invalidArrivals \ {v}
      /\ requireds = search.invalidRequireds \ {v} /\ tns = search.invalidTns \ {v}
      /\ queue \subseteq search.reqQueue /\ search.reqQueue \subseteq queue \cup {v}
      /\ ends = search.endpoints \ {v}
      /\ invalidEnds = search.invalidEndpoints \ {v}
  BY <1>2, <1>4 DEF SameFlags, SameInvalid, SameEnds
<1> HIDE DEF arrivals, queue, requireds, tns, ends, invalidEnds
<1>7. /\ Shape(t) /\ SameFlags(t, s) /\ SamePaths(t, s) /\ SameTns(t, s)
      /\ t.invalidArrivals = arrivals /\ t.reqQueue = queue
      /\ t.invalidRequireds = requireds /\ t.invalidTns = tns
      /\ t.endpoints = ends /\ t.invalidEndpoints = invalidEnds
      /\ t.endpointsFound = s.endpointsFound
  BY <1>4, <1>5 DEF Shape, SameFlags, SamePaths, SameTns
<1>8. SearchType(t, graph \ {v})
  BY <1>1, <1>4, <1>6, <1>7
     DEF SearchType, IsPaths, SameFlags, SamePaths, SameTns, SameEnds, Tabled,
         Summed
<1>9. Summed(t)
  BY <1>4, <1>7 DEF Summed, SameTns
<1>10. SameFlags(t, search)
  BY <1>4, <1>7 DEF SameFlags
<1>11. QED
  BY <1>4, <1>6, <1>7, <1>8, <1>9, <1>10 DEF SamePaths, SameTns, SameEnds, t
LEMMA DeletePinIInv ==
  ASSUME IInv, NEW v \in Vertices, DeletePin(v)
  PROVE  IInv'
<1>1. /\ Edit("delete") /\ v \in graph
      /\ search' = DeleteVertexBefore(v)
      /\ wns' = IF search.arrivals THEN WorstSlackNotifyBefore(wns, {v}) ELSE wns
      /\ graph' = graph \ {v} /\ reached' = reached \ {v}
      /\ wired' = wired /\ data' = data /\ limit' = limit
  BY DEF DeletePin
<1>2. /\ query = "idle" /\ query' = query /\ answer' = NoAnswer /\ QueryType'
      /\ ~Updating /\ ~Updating'
  BY <1>1, EditKept
<1>3. DesignType' /\ Endpoints' = Endpoints \ {v}
  BY <1>1 DEF IInv, DesignType, Endpoints
<1>4. /\ SearchType(search', graph \ {v}) /\ Summed(search')
      /\ SameFlags(search', search)
      /\ search'.arr = [u \in Vertices |-> IF u = v THEN None ELSE search.arr[u]]
      /\ search'.req = [u \in Vertices |-> IF u = v THEN Inf ELSE search.req[u]]
      /\ search'.invalidArrivals = search.invalidArrivals \ {v}
      /\ search'.invalidRequireds = search.invalidRequireds \ {v}
      /\ search'.reqQueue \subseteq search.reqQueue
      /\ search.reqQueue \subseteq search'.reqQueue \cup {v}
      /\ search'.invalidTns = search.invalidTns \ {v}
      /\ search'.endpointsFound = search.endpointsFound
      /\ search'.endpoints = search.endpoints \ {v}
      /\ search'.invalidEndpoints = search.invalidEndpoints \ {v}
      /\ search'.tnsExists = search.tnsExists
      /\ search.tnsExists =>
           IsWithout(search'.tnsSlacks, search.tnsSlacks, {v} \cap Endpoints)
  BY <1>1, DeleteVertexFields
<1>5. Exact(search)'
  BY <1>1, <1>4 DEF Exact
<1>6. LET w == WorstSlackNotifyBefore(wns, {v})
      IN  /\ WorstType(w, graph)
          /\ w.exists = wns.exists /\ w.threshold = wns.threshold
          /\ w.queue = wns.queue \ {v}
          /\ w.worst = IF wns.worst \in {v} THEN None ELSE wns.worst
          /\ w.slack = IF wns.worst \in {v} THEN Inf ELSE wns.slack
  BY NotifyFields DEF IInv
<1>7. /\ WorstType(wns', graph) /\ wns'.exists = wns.exists
      /\ wns'.threshold = wns.threshold
      /\ wns'.queue = wns.queue \ {v}
      /\ wns'.worst = IF wns.worst = v THEN None ELSE wns.worst
      /\ wns'.slack = IF wns.worst = v THEN Inf ELSE wns.slack
      /\ ~wns'.exists => wns' = NoWorst
  <2>1. CASE search.arrivals
    <3>1. wns' = WorstSlackNotifyBefore(wns, {v})
      BY <1>1, <2>1
    <3>2. QED
      BY <1>6, <3>1, NotifyNoWorst DEF IInv, SearchFlags
  <2>2. CASE ~search.arrivals
    <3>1. wns' = NoWorst /\ wns = NoWorst
      BY <1>1, <2>2 DEF IInv, SearchFlags
    <3>2. NoWorst.worst = None /\ NoWorst.queue = {}
      BY DEF NoWorst
    <3>3. v # None /\ WorstType(wns, graph)
      BY SlacksAssumption DEF IInv
    <3>4. QED
      BY <3>1, <3>2, <3>3
  <2>3. QED
    BY <2>1, <2>2
<1>8. WorstType(wns, graph)'
  <2>1. v # None
    BY SlacksAssumption
  <2>2. wns.worst \in MaybeNone(graph) /\ wns.queue \subseteq graph
    BY DEF IInv, WorstType
  <2>3. wns'.worst \in MaybeNone(graph \ {v}) /\ wns'.queue \subseteq graph \ {v}
    BY <1>7, <2>1, <2>2 DEF MaybeNone
  <2>4. QED
    BY <1>1, <1>7, <2>3 DEF WorstType
<1>9. SearchFlags' /\ QueryFlags'
  <2>1. ~search.arrivals => search'.arr = NoPaths /\ search'.req = NoRequireds
    BY <1>4 DEF IInv, SearchFlags, NoPaths, NoRequireds
  <2>2. QED
    BY <1>2, <1>4, <1>7, <2>1
       DEF IInv, SearchFlags, QueryFlags, SameFlags, NoAnswer
<1>10. SearchHeld'
  <2>1. PathsHeld'
    BY <1>3, <1>4 DEF IInv, SearchHeld, PathsHeld
  <2>2. ArrivalsHeld'
    BY <1>1, <1>3, <1>4
       DEF IInv, SearchHeld, ArrivalsHeld, SameFlags, DesignType, Endpoints
  <2>3. RequiredsOk(search)'
    BY <1>1, <1>4 DEF IInv, SearchHeld, RequiredsOk, SameFlags, DesignType
  <2>4. EndpointsOk(search)' /\ NotedOk(search)'
    BY <1>3, <1>4, <1>7 DEF IInv, SearchHeld, EndpointsOk, NotedOk
  <2>5. QED
    BY <1>2, <2>1, <2>2, <2>3, <2>4 DEF SearchHeld, NoAnswer
<1>11. \A u \in Endpoints \ {v} : Slack(search', u) = Slack(search, u)
  BY <1>4 DEF Slack, Endpoints, IInv, DesignType
<1>12. Pending = search.invalidTns /\ Pending' = search.invalidTns \ {v}
  BY <1>2, <1>4 DEF Pending
<1>13. TnsHeld'
  <2>1. SUFFICES ASSUME search.tnsExists, NEW u \in Endpoints, u # v,
                        u \notin search.invalidTns
                 PROVE  Counted(search', u)
    BY <1>2, <1>3, <1>4, <1>12 DEF TnsHeld, AreCounted, NoAnswer
  <2>2. Counted(search, u)
    BY <1>12, <2>1 DEF IInv, TnsHeld, AreCounted
  <2>3. QED
    BY <1>4, <1>11, <2>1, <2>2 DEF Counted, IsWithout
<1>14. WorstHeld'
  <2>1. SUFFICES ASSUME wns.exists
                 PROVE  Within(search, wns)' /\ AreHeld(search, wns, Pending)'
    BY <1>2, <1>7 DEF WorstHeld
  <2>2. Within(search, wns) /\ AreHeld(search, wns, search.invalidTns)
    BY <1>2, <1>12, <2>1 DEF IInv, WorstHeld, ToQueue
  <2>3. Within(search, wns)'
    BY <1>3, <1>4, <1>7, <2>2 DEF Within
  <2>4. None \notin Endpoints
    BY SlacksAssumption DEF Endpoints, IInv, DesignType
  <2>5. AreHeld(search, wns, Pending)'
    BY <1>3, <1>7, <1>11, <1>12, <2>2, <2>4 DEF AreHeld, Held
  <2>6. QED
    BY <2>3, <2>5
<1>15. WorstAnswered'
  BY <1>2 DEF WorstAnswered, NoAnswer
<1>16. QED
  BY <1>2, <1>3, <1>5, <1>8, <1>9, <1>10, <1>13, <1>14, <1>15 DEF IInv

------------------------------------------------------------------------------
LEMMA StutterIInv == IInv /\ UNCHANGED vars => IInv'
<1> SUFFICES ASSUME IInv, UNCHANGED vars PROVE IInv'
  OBVIOUS
<1>1. /\ UNCHANGED <<graph, wired, data, limit, reached>>
      /\ UNCHANGED <<search, wns, query, todo, answer, edits>>
  BY DEF vars, design
<1>2. Endpoints' = Endpoints /\ Pending' = Pending
  BY <1>1 DEF Endpoints, Pending, Updating
<1>3. /\ DesignType' /\ Exact(search)' /\ WorstType(wns, graph)' /\ QueryType'
      /\ SearchFlags' /\ QueryFlags'
  BY <1>1 DEF IInv, DesignType, Exact, QueryType, SearchFlags, QueryFlags, Updating
<1>4. SearchHeld'
  BY <1>1, <1>2 DEF IInv, SearchHeld, PathsHeld, ArrivalsHeld, RequiredsOk,
                    EndpointsOk, NotedOk, Fresh
<1>5. TnsHeld'
  BY <1>1, <1>2 DEF IInv, TnsHeld, AreCounted
<1>6. WorstHeld' /\ WorstAnswered'
  BY <1>1, <1>2 DEF IInv, WorstHeld, WorstAnswered, Within, AreHeld, AreQueued,
                    ToQueue, IsWorst
<1>7. QED
  BY <1>3, <1>4, <1>5, <1>6 DEF IInv

LEMMA NextIInv == IInv /\ [Next]_vars => IInv'
<1> SUFFICES ASSUME IInv, [Next]_vars PROVE IInv'
  OBVIOUS
<1>1. CASE TotalNegativeSlack \/ WorstSlack
  BY <1>1, TotalNegativeSlackIInv, WorstSlackIInv
<1>2. CASE \E v \in todo : UpdateInvalidTns(v) \/ QueueEndpoint(v)
  BY <1>2, UpdateInvalidTnsIInv, QueueEndpointIInv
<1>3. CASE InvalidTnsUpdated \/ WorstKnown \/ FindWorstInQueue
           \/ InitQueue \/ QueueInitialized
  BY <1>3, InvalidTnsUpdatedIInv, WorstKnownIInv, FindWorstInQueueIInv,
     InitQueueIInv, QueueInitializedIInv
<1>4. CASE \E v \in Vertices, a \in Arrivals \cup {None} :
             UpstreamChange(v, a) \/ ConnectPin(v, a) \/ ConnectDriver(v, a)
  BY <1>4, UpstreamChangeIInv, ConnectPinIInv, ConnectDriverIInv
<1>5. CASE \E v \in Vertices, l \in Limits :
             LimitChange(v, l) \/ RequiredsInvalid(v, l)
  BY <1>5, LimitChangeIInv, RequiredsInvalidIInv
<1>6. CASE \E v \in Vertices :
             RemoveOutputDelay(v) \/ DisconnectPin(v) \/ DeletePin(v) \/ LevelChange(v)
  BY <1>6, RemoveOutputDelayIInv, DisconnectPinIInv, DeletePinIInv, LevelChangeIInv
<1>7. CASE ArrivalsInvalid \/ \E v \in graph : FindRequireds(Level[v])
  BY <1>7, ArrivalsInvalidIInv, FindRequiredsIInv
<1>8. CASE UNCHANGED vars
  BY <1>8, StutterIInv
<1>9. QED
  BY <1>1, <1>2, <1>3, <1>4, <1>5, <1>6, <1>7, <1>8 DEF Next
LEMMA TypeFromIInv == IInv => TypeOK
<1> SUFFICES ASSUME IInv PROVE TypeOK
  OBVIOUS
<1>1. /\ graph \subseteq Vertices /\ reached \subseteq graph
      /\ wired \in [Vertices -> BOOLEAN]
      /\ data \in [Vertices -> MaybeNone(Arrivals)]
      /\ limit \in [Vertices -> Limits \cup {Inf}]
  BY DEF IInv, DesignType
<1>2. /\ SearchType(search, graph)
      /\ \A v \in DOMAIN search.tnsSlacks : search.tnsSlacks[v] < 0
  BY DEF IInv, Exact, Summed
<1>3. /\ wns.exists \in BOOLEAN /\ wns.worst \in MaybeNone(graph)
      /\ wns.slack \in Int /\ wns.threshold \in Int
      /\ wns.queue \subseteq graph /\ wns.maxSize \in Nat
  BY DEF IInv, WorstType
<1>4. /\ query \in Queries /\ todo \subseteq Vertices
      /\ answer.of \in {"none", "tns", "wns"} /\ edits \in 0..MaxEdits
  BY DEF IInv, QueryType
<1>5. QED
  BY <1>1, <1>2, <1>3, <1>4, SearchTypes DEF TypeOK

(* At an endpoint the required time of which is settled, the slack is the  *)
(* one a search from nothing would find.                                   *)
LEMMA SlackIsTrue ==
  ASSUME IInv, answer.of # "none", NEW v \in Endpoints, ~Unsettled(v)
  PROVE  Slack(search, v) = TrueSlack(v)
<1>1. Settled(search)
  BY SettledNow
<1>2. search.arr[v] = data[v]
  BY <1>1 DEF Settled
<1>3. v \in graph /\ v \notin search.invalidRequireds \cup search.reqQueue
  BY <1>1 DEF Settled, Unsettled, Endpoints
<1>4. search.req[v] \in {limit[v], Inf} \/ limit[v] = Inf
  BY <1>1, <1>3 DEF Settled, RequiredsOk
<1>5. search.req[v] = limit[v]
  BY <1>4 DEF Unsettled
<1>6. QED
  BY <1>2, <1>5 DEF Slack, TrueSlack

LEMMA TnsFromIInv == IInv => TnsCurrent
<1> SUFFICES ASSUME IInv PROVE TnsCurrent
  OBVIOUS
<1>1. search.tns = SumFunction(search.tnsSlacks)
  BY DEF IInv, Exact, Summed
<1>2. ASSUME answer.of = "tns", NEW v \in Endpoints, ~Unsettled(v)
      PROVE  IF TrueSlack(v) < 0
               THEN v \in DOMAIN search.tnsSlacks /\ search.tnsSlacks[v] = TrueSlack(v)
               ELSE v \notin DOMAIN search.tnsSlacks
  <2>1. Counted(search, v)
    BY <1>2 DEF IInv, TnsHeld, AreCounted
  <2>2. Slack(search, v) = TrueSlack(v)
    BY <1>2, SlackIsTrue
  <2>3. QED
    BY <2>1, <2>2 DEF Counted
<1>3. QED
  BY <1>1, <1>2 DEF TnsCurrent

LEMMA WorstFromIInv == IInv => WorstIsLeast
<1> SUFFICES ASSUME IInv PROVE WorstIsLeast
  OBVIOUS
<1>1. QueueHolds
  <2>1. SUFFICES ASSUME wns.exists, query # "initQueue", wns.queue # {},
                        NEW v \in Endpoints, v \notin search.invalidTns
                 PROVE  Held(search, wns, v)
    BY DEF QueueHolds, Held
  <2>2. v \notin Pending
    BY <2>1 DEF Pending, IInv, QueryFlags
  <2>3. QED
    BY <2>1, <2>2 DEF IInv, WorstHeld, ToQueue, AreHeld
<1>2. ASSUME answer.of = "wns"
      PROVE  /\ \A v \in Endpoints : answer.slack <= Slack(search, v)
             /\ \A v \in Endpoints : ~Unsettled(v) => answer.slack <= TrueSlack(v)
             /\ IF answer.vertex = None
                  THEN answer.slack = Inf
                  ELSE /\ answer.vertex \in Endpoints
                       /\ answer.slack = Slack(search, answer.vertex)
  <2>1. IsWorst(search, answer)
    BY <1>2 DEF IInv, WorstAnswered
  <2>2. \A v \in Endpoints : ~Unsettled(v) => Slack(search, v) = TrueSlack(v)
    BY <1>2, SlackIsTrue
  <2>3. QED
    BY <2>1, <2>2 DEF IsWorst
<1>3. QED
  BY <1>1, <1>2 DEF WorstIsLeast

LEMMA RequiredsFromIInv == IInv => RequiredsKnown
<1> SUFFICES ASSUME IInv PROVE RequiredsKnown
  OBVIOUS
<1>1. RequiredsOk(search)
  BY DEF IInv, SearchHeld
<1>2. QED
  BY <1>1 DEF RequiredsKnown, RequiredsOk, Endpoints

(* The inductive invariant, from which the properties follow.              *)
THEOREM Invariance == Spec => []IInv
BY InitIInv, NextIInv, PTL DEF Spec

(* The state has its types, and nothing that Search or WorstSlack keeps    *)
(* refers to a deleted vertex (Search::deleteVertexBefore), whatever is    *)
(* edited and queried and however the loops of the queries go.             *)
THEOREM TypeCorrect == Spec => []TypeOK
BY Invariance, TypeFromIInv, PTL

(* When Search::totalNegativeSlack returns, tns_ is the sum of              *)
(* tns_slacks_, and each endpoint there is whose required time is settled  *)
(* is in tns_slacks_ with the slack it has now, if that is negative.  It is *)
(* not said that the total is that of the endpoints alone: a vertex that   *)
(* stopped being an endpoint may keep its entry (Search.cc:3663, 3742), and *)
(* so may an endpoint still Unsettled: one that waits in the backward      *)
(* queue, one that lost its limit but not its required time (Sta.cc:1918), *)
(* and one with a limit whose required time was never found                *)
(* (Search.cc:2662).                                                       *)
THEOREM TnsStaysCurrent == Spec => []TnsCurrent
BY Invariance, TnsFromIInv, PTL

(* The slack that WorstSlack::worstSlack returns is the least of those the *)
(* search holds, though the queue has only the endpoints below a threshold,*)
(* and at most the true slack of every endpoint whose required time is     *)
(* settled.  Of the true slack of one that is Unsettled nothing is said:   *)
(* its required time is missing or left over when the query reads it       *)
(* (Search.cc:2662, 3793).                                                 *)
THEOREM WorstStaysLeast == Spec => []WorstIsLeast
BY Invariance, WorstFromIInv, PTL

(* A finite required time of an endpoint that has a limit, and that is not *)
(* that of the limit, is known to be invalid to the Search or to be in the *)
(* queue of the backward iterator.  An endpoint without a limit may keep   *)
(* the required time it had (Sta.cc:1918), and one whose required time was *)
(* never found may be told to nobody (Search.cc:2662).                     *)
THEOREM RequiredsStayKnown == Spec => []RequiredsKnown
BY Invariance, RequiredsFromIInv, PTL
=============================================================================
