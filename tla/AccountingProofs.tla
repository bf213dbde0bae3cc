--------------------------- MODULE AccountingProofs ---------------------------
(***************************************************************************)
(* Proofs about the two ledgers that add up what their rows reserve: the   *)
(* money of a project and the staging bytes of the installation.  They     *)
(* share what is proved here of sums over finite sets, for which the       *)
(* library offers an operator and no theorem.                              *)
(***************************************************************************)
EXTENDS SpendingLedger, ArtifactCapacity, FiniteSetTheorems, TLAPS

-----------------------------------------------------------------------------
(* Sums.  A proof by induction over finite sets is one by contradiction    *)
(* from a least set that lacks the property (LeastExists).                 *)

\* The element a sum takes first.
First(T) == CHOOSE x \in T : TRUE

\* `it` gives the sums of all subsets of S.
Summing(it, w, S) ==
    it = [T \in SUBSET S |-> IF T = {} THEN 0 ELSE w[First(T)] + it[T \ {First(T)}]]

\* The element taken first is one of the set's.
LEMMA FirstIsElement == \A T : T # {} => First(T) \in T
  BY Zenon DEF First

\* Among subsets of a finite set there is a least one.
LEMMA LeastExists ==
  ASSUME NEW S, IsFiniteSet(S), NEW F, F \subseteq SUBSET S, F # {}
  PROVE  \E T \in F : \A U \in SUBSET T : U \in F => U = T
<1>1. IsWellFoundedOn(StrictSubsetOrdering(S), FiniteSubsetsOf(S))
  BY FS_StrictSubsetOrderingWellFounded
<1>2. F \subseteq FiniteSubsetsOf(S)
  BY FS_FiniteSubsetsOfFinite
<1>3. \E T \in F : \A U \in F : <<U, T>> \notin StrictSubsetOrdering(S)
  BY <1>1, <1>2, WFMin
<1> QED BY <1>3 DEF StrictSubsetOrdering

\* The sums of a set's subsets are those of the larger set's.
LEMMA SummingsAgree ==
  ASSUME NEW S, IsFiniteSet(S), NEW T \in SUBSET S, NEW a, NEW b, NEW w,
         Summing(a, w, S), Summing(b, w, T)
  PROVE  \A U \in SUBSET T : a[U] = b[U]
<1> DEFINE Differ == {U \in SUBSET T : a[U] # b[U]}
<1>1. SUFFICES ASSUME Differ # {} PROVE FALSE
  OBVIOUS
<1>2. PICK U \in Differ : \A V \in SUBSET U : V \in Differ => V = U
  <2>1. Differ \subseteq SUBSET S
    OBVIOUS
  <2> HIDE DEF Differ
  <2> QED BY <2>1, <1>1, LeastExists
<1>3. U \in SUBSET T /\ U \in SUBSET S /\ a[U] # b[U]
  BY <1>2
<1>4. /\ a[U] = IF U = {} THEN 0 ELSE w[First(U)] + a[U \ {First(U)}]
      /\ b[U] = IF U = {} THEN 0 ELSE w[First(U)] + b[U \ {First(U)}]
  BY <1>3, Zenon DEF Summing
<1>5. U # {}
  BY <1>3, <1>4
<1>6. U \ {First(U)} # U
  BY <1>5, FirstIsElement
<1>7. U \ {First(U)} \notin Differ
  BY <1>2, <1>6
<1>8. a[U \ {First(U)}] = b[U \ {First(U)}]
  BY <1>3, <1>7
<1> QED BY <1>3, <1>4, <1>5, <1>8

\* The library's sum, as the sums of all subsets taken at the set itself.
LEMMA SumIsSumming ==
  ASSUME NEW w, NEW S
  PROVE  SumFunctionOnSet(w, S) = (CHOOSE it : Summing(it, w, S))[S]
  BY DEF SumFunctionOnSet, FoldFunctionOnSet, MapThenFoldSet, Summing, First

\* The sum of part of a set, from any steps.
LEMMA SumFromSumming ==
  ASSUME NEW S, IsFiniteSet(S), NEW w, NEW it, Summing(it, w, S)
  PROVE  SumFunctionOnSet(w, S) = it[S]
<1> DEFINE own == CHOOSE f : Summing(f, w, S)
<1>1. Summing(own, w, S)
  BY Zenon
<1> HIDE DEF own
<1>2. own[S] = it[S]
  BY <1>1, SummingsAgree
<1> QED BY <1>2, SumIsSumming DEF own

\* Every finite set has such sums.
LEMMA SummingExists ==
  ASSUME NEW S, IsFiniteSet(S), NEW w
  PROVE  \E it : Summing(it, w, S)
<1> DEFINE Lack == {T \in SUBSET S : ~ \E it : Summing(it, w, T)}
<1>1. SUFFICES ASSUME Lack # {} PROVE FALSE
  BY Zenon
<1>2. PICK T \in Lack : \A U \in SUBSET T : U \in Lack => U = T
  <2>1. Lack \subseteq SUBSET S
    OBVIOUS
  <2> HIDE DEF Lack
  <2> QED BY <2>1, <1>1, LeastExists
<1> DEFINE before(U) == SumFunctionOnSet(w, U \ {First(U)})
           it == [U \in SUBSET T |-> IF U = {} THEN 0 ELSE w[First(U)] + before(U)]
<1>3. ASSUME NEW U \in SUBSET T, U # {}
      PROVE  it[U \ {First(U)}] = before(U)
  <2> DEFINE X == U \ {First(U)}
  <2>1. X \in SUBSET T /\ X # T /\ X \in SUBSET S
    BY <1>3, <1>2, FirstIsElement
  <2>0. X \notin Lack
    BY <2>1, <1>2
  <2>2. PICK a : Summing(a, w, X)
    BY <2>0, <2>1, Zenon
  <2>3. IsFiniteSet(X)
    BY <2>1, FS_Subset
  <2>4. before(U) = a[X]
    BY <2>2, <2>3, SumFromSumming
  <2>5. a[X] = IF X = {} THEN 0 ELSE w[First(X)] + a[X \ {First(X)}]
    BY <2>2, Zenon DEF Summing
  <2>6. X # {} => a[X \ {First(X)}] = SumFunctionOnSet(w, X \ {First(X)})
    <3> SUFFICES ASSUME X # {} PROVE a[X \ {First(X)}] = SumFunctionOnSet(w, X \ {First(X)})
      OBVIOUS
    <3> DEFINE Y == X \ {First(X)}
    <3>1. Y \in SUBSET T /\ Y \in SUBSET X /\ Y \in SUBSET S /\ Y # T
      BY <2>1, FirstIsElement
    <3>0. Y \notin Lack
      <4> HIDE DEF Y, Lack
      <4> QED BY <3>1, <1>2
    <3>2. PICK b : Summing(b, w, Y)
      BY <3>0, <3>1, Zenon
    <3>3. IsFiniteSet(Y)
      BY <3>1, FS_Subset
    <3> HIDE DEF Y
    <3>4. SumFunctionOnSet(w, Y) = b[Y]
      BY <3>2, <3>3, SumFromSumming
    <3>5. a[Y] = b[Y]
      BY <2>2, <2>3, <3>1, <3>2, SummingsAgree
    <3> QED BY <3>4, <3>5 DEF Y
  <2>7. it[X] = IF X = {} THEN 0 ELSE w[First(X)] + SumFunctionOnSet(w, X \ {First(X)})
    BY <2>1
  <2> QED BY <2>4, <2>5, <2>6, <2>7
<1>4. Summing(it, w, T)
  BY <1>3 DEF Summing
<1> QED BY <1>2, <1>4, Zenon

\* A sum is that of its parts.
LEMMA SumUnfolds ==
  ASSUME NEW S, IsFiniteSet(S), NEW w
  PROVE  SumFunctionOnSet(w, S) =
            IF S = {} THEN 0 ELSE w[First(S)] + SumFunctionOnSet(w, S \ {First(S)})
<1>1. PICK it : Summing(it, w, S)
  BY SummingExists
<1>2. it[S] = IF S = {} THEN 0 ELSE w[First(S)] + it[S \ {First(S)}]
  BY <1>1, Zenon DEF Summing
<1> DEFINE X == S \ {First(S)}
<1>3. X \in SUBSET S /\ IsFiniteSet(X)
  BY FS_Subset
<1>4. PICK a : Summing(a, w, X)
  BY <1>3, SummingExists
<1> HIDE DEF X
<1>5. SumFunctionOnSet(w, X) = a[X]
  BY <1>3, <1>4, SumFromSumming
<1>6. it[X] = a[X]
  BY <1>1, <1>3, <1>4, SummingsAgree
<1>7. SumFunctionOnSet(w, S) = it[S]
  BY <1>1, SumFromSumming
<1> QED BY <1>2, <1>5, <1>6, <1>7 DEF X

\* A sum of numbers is a number.
LEMMA SumType ==
  ASSUME NEW S, IsFiniteSet(S), NEW w, \A x \in S : w[x] \in Nat
  PROVE  SumFunctionOnSet(w, S) \in Nat
<1> DEFINE Bad == {T \in SUBSET S : SumFunctionOnSet(w, T) \notin Nat}
<1>1. SUFFICES ASSUME Bad # {} PROVE FALSE
  OBVIOUS
<1>2. PICK T \in Bad : \A U \in SUBSET T : U \in Bad => U = T
  <2>1. Bad \subseteq SUBSET S
    OBVIOUS
  <2> HIDE DEF Bad
  <2> QED BY <2>1, <1>1, LeastExists
<1>3. T \in SUBSET S /\ IsFiniteSet(T)
  BY <1>2, FS_Subset
<1>4. SumFunctionOnSet(w, T) =
          IF T = {} THEN 0 ELSE w[First(T)] + SumFunctionOnSet(w, T \ {First(T)})
  BY <1>3, SumUnfolds
<1>5. T # {}
  BY <1>2, <1>4
<1>6. First(T) \in T
  BY <1>5, FirstIsElement
<1>7. T \ {First(T)} \in SUBSET T /\ T \ {First(T)} # T
  BY <1>6
<1>8. SumFunctionOnSet(w, T \ {First(T)}) \in Nat
  BY <1>2, <1>3, <1>7
<1>9. w[First(T)] \in Nat
  BY <1>3, <1>6
<1> QED BY <1>2, <1>4, <1>5, <1>8, <1>9

\* Any element may be taken first.
LEMMA SumWithout ==
  ASSUME NEW S, IsFiniteSet(S), NEW w, \A x \in S : w[x] \in Nat, NEW e \in S
  PROVE  SumFunctionOnSet(w, S) = w[e] + SumFunctionOnSet(w, S \ {e})
<1> DEFINE sum(T) == SumFunctionOnSet(w, T)
           Bad == {T \in SUBSET S : \E x \in T : sum(T) # w[x] + sum(T \ {x})}
<1>1. SUFFICES ASSUME Bad # {} PROVE FALSE
  OBVIOUS
<1>2. PICK T \in Bad : \A U \in SUBSET T : U \in Bad => U = T
  <2>1. Bad \subseteq SUBSET S
    OBVIOUS
  <2> HIDE DEF Bad
  <2> QED BY <2>1, <1>1, LeastExists
<1>3. T \in SUBSET S
  BY <1>2
<1>4. PICK x \in T : sum(T) # w[x] + sum(T \ {x})
  BY <1>2
<1> DEFINE y == First(T)
<1>5. y \in T
  BY <1>4, FirstIsElement
<1> HIDE DEF y
<1>6. \A U \in SUBSET S : IsFiniteSet(U) /\ sum(U) \in Nat
  <2>1. TAKE U \in SUBSET S
  <2>2. IsFiniteSet(U)
    BY FS_Subset
  <2> QED BY <2>2, SumType
<1>7. sum(T) = w[y] + sum(T \ {y})
  BY <1>3, <1>4, <1>6, SumUnfolds DEF y
<1>8. x # y
  BY <1>4, <1>7
<1> DEFINE B == (T \ {x}) \ {y}
<1>9. /\ T \ {x} \in SUBSET T /\ T \ {x} # T /\ y \in T \ {x}
      /\ T \ {y} \in SUBSET T /\ T \ {y} # T /\ x \in T \ {y}
      /\ B = (T \ {y}) \ {x}
      /\ B \in SUBSET S
  BY <1>3, <1>4, <1>5, <1>8
<1>10. sum(T \ {x}) = w[y] + sum(B)
  <2>1. T \ {x} \notin Bad
    BY <1>2, <1>9
  <2>2. T \ {x} \in SUBSET S
    BY <1>3
  <2> QED BY <2>1, <2>2, <1>9
<1>11. sum(T \ {y}) = w[x] + sum(B)
  <2>1. T \ {y} \notin Bad
    BY <1>2, <1>9
  <2>2. T \ {y} \in SUBSET S
    BY <1>3
  <2>3. sum(T \ {y}) = w[x] + sum((T \ {y}) \ {x})
    BY <2>1, <2>2, <1>9
  <2> QED BY <2>3, <1>9
<1>12. w[x] \in Nat /\ w[y] \in Nat /\ sum(B) \in Nat
  BY <1>3, <1>4, <1>5, <1>6, <1>9
<1> HIDE DEF sum, B
<1> QED BY <1>4, <1>7, <1>10, <1>11, <1>12

\* Only the weights of the set count.
LEMMA SumCongruence ==
  ASSUME NEW S, IsFiniteSet(S), NEW v, NEW w, \A x \in S : v[x] = w[x]
  PROVE  SumFunctionOnSet(v, S) = SumFunctionOnSet(w, S)
<1> DEFINE Bad == {T \in SUBSET S : SumFunctionOnSet(v, T) # SumFunctionOnSet(w, T)}
<1>1. SUFFICES ASSUME Bad # {} PROVE FALSE
  OBVIOUS
<1>2. PICK T \in Bad : \A U \in SUBSET T : U \in Bad => U = T
  <2>1. Bad \subseteq SUBSET S
    OBVIOUS
  <2> HIDE DEF Bad
  <2> QED BY <2>1, <1>1, LeastExists
<1>3. T \in SUBSET S /\ IsFiniteSet(T)
  BY <1>2, FS_Subset
<1>4. /\ SumFunctionOnSet(v, T) =
            IF T = {} THEN 0 ELSE v[First(T)] + SumFunctionOnSet(v, T \ {First(T)})
      /\ SumFunctionOnSet(w, T) =
            IF T = {} THEN 0 ELSE w[First(T)] + SumFunctionOnSet(w, T \ {First(T)})
  BY <1>3, SumUnfolds
<1>5. T # {}
  BY <1>2, <1>4
<1>6. First(T) \in T
  BY <1>5, FirstIsElement
<1>7. T \ {First(T)} \in SUBSET T /\ T \ {First(T)} # T
  BY <1>6
<1>8. SumFunctionOnSet(v, T \ {First(T)}) = SumFunctionOnSet(w, T \ {First(T)})
  BY <1>2, <1>3, <1>7
<1>9. v[First(T)] = w[First(T)]
  BY <1>3, <1>6
<1> QED BY <1>2, <1>4, <1>5, <1>8, <1>9

\* The empty sum.
LEMMA SumEmpty == \A w : SumFunctionOnSet(w, {}) = 0
  BY FS_EmptySet, SumUnfolds

\* One element more.
LEMMA SumInsert ==
  ASSUME NEW S, IsFiniteSet(S), NEW e, e \notin S, NEW w,
         \A x \in S \cup {e} : w[x] \in Nat
  PROVE  SumFunctionOnSet(w, S \cup {e}) = w[e] + SumFunctionOnSet(w, S)
<1>1. IsFiniteSet(S \cup {e})
  BY FS_AddElement
<1>2. SumFunctionOnSet(w, S \cup {e}) = w[e] + SumFunctionOnSet(w, (S \cup {e}) \ {e})
  BY <1>1, SumWithout
<1>3. (S \cup {e}) \ {e} = S
  OBVIOUS
<1> QED BY <1>2, <1>3

\* What e adds to a sum over P.
Counted(w, P, e) == IF e \in P THEN w[e] ELSE 0

\* Without an element, which need not be there.
LEMMA SumPart ==
  ASSUME NEW S, IsFiniteSet(S), NEW P, NEW w, \A x \in S \cap P : w[x] \in Nat, NEW e \in S
  PROVE  SumFunctionOnSet(w, S \cap P) =
            Counted(w, P, e) + SumFunctionOnSet(w, (S \ {e}) \cap P)
<1>1. IsFiniteSet(S \cap P) /\ IsFiniteSet((S \ {e}) \cap P)
  BY FS_Subset
<1>2. SumFunctionOnSet(w, (S \ {e}) \cap P) \in Nat
  BY <1>1, SumType
<1>3. CASE e \in P
  <2>1. SumFunctionOnSet(w, S \cap P) = w[e] + SumFunctionOnSet(w, (S \cap P) \ {e})
    BY <1>1, <1>3, SumWithout
  <2>2. (S \cap P) \ {e} = (S \ {e}) \cap P
    OBVIOUS
  <2> QED BY <1>3, <2>1, <2>2 DEF Counted
<1>4. CASE e \notin P
  <2>1. S \cap P = (S \ {e}) \cap P
    BY <1>4
  <2> QED BY <1>2, <1>4, <2>1 DEF Counted
<1> QED BY <1>3, <1>4

\* What two weights cover together costs no more than their sums.
LEMMA SumCovered ==
  ASSUME NEW S, IsFiniteSet(S), NEW P, NEW Q, NEW b, NEW v, NEW w,
         \A x \in S : b[x] \in Nat,
         \A x \in S \cap P : v[x] \in Nat,
         \A x \in S \cap Q : w[x] \in Nat,
         \A x \in S : b[x] <= Counted(v, P, x) + Counted(w, Q, x)
  PROVE  SumFunctionOnSet(b, S) <= SumFunctionOnSet(v, S \cap P) + SumFunctionOnSet(w, S \cap Q)
<1> DEFINE within(T) ==
       SumFunctionOnSet(b, T) <= SumFunctionOnSet(v, T \cap P) + SumFunctionOnSet(w, T \cap Q)
     Bad == {T \in SUBSET S : ~within(T)}
<1>1. SUFFICES ASSUME Bad # {} PROVE FALSE
  OBVIOUS
<1>2. PICK T \in Bad : \A U \in SUBSET T : U \in Bad => U = T
  <2>1. Bad \subseteq SUBSET S
    OBVIOUS
  <2> HIDE DEF Bad
  <2> QED BY <2>1, <1>1, LeastExists
<1>3. T \in SUBSET S /\ IsFiniteSet(T) /\ ~within(T)
  BY <1>2, FS_Subset
<1>4. T # {}
  <2>1. {} \cap P = {} /\ {} \cap Q = {}
    OBVIOUS
  <2>2. within({})
    BY <2>1, SumEmpty
  <2> QED BY <1>3, <2>2
<1>5. PICK y \in T : TRUE
  BY <1>4
<1> DEFINE R == T \ {y}
<1>6. R \in SUBSET S /\ R \in SUBSET T /\ R # T /\ IsFiniteSet(R)
  BY <1>3, <1>5, FS_Subset
<1>7. within(R)
  <2>1. R \notin Bad
    <3> HIDE DEF R, Bad
    <3> QED BY <1>2, <1>6
  <2> QED BY <1>6, <2>1
<1>8. SumFunctionOnSet(b, T) = b[y] + SumFunctionOnSet(b, R)
  BY <1>3, <1>5, SumWithout
<1>9. SumFunctionOnSet(v, T \cap P) =
        Counted(v, P, y) + SumFunctionOnSet(v, R \cap P)
  <2>1. \A x \in T \cap P : v[x] \in Nat
    BY <1>3
  <2>2. IsFiniteSet(T) /\ y \in T
    BY <1>3, <1>5
  <2> QED BY ONLY <2>1, <2>2, SumPart DEF R
<1>10. SumFunctionOnSet(w, T \cap Q) =
        Counted(w, Q, y) + SumFunctionOnSet(w, R \cap Q)
  <2>1. \A x \in T \cap Q : w[x] \in Nat
    BY <1>3
  <2>2. IsFiniteSet(T) /\ y \in T
    BY <1>3, <1>5
  <2> QED BY ONLY <2>1, <2>2, SumPart DEF R
<1>11. /\ SumFunctionOnSet(b, R) \in Nat
       /\ SumFunctionOnSet(v, R \cap P) \in Nat
       /\ SumFunctionOnSet(w, R \cap Q) \in Nat
  <2>1. IsFiniteSet(R \cap P) /\ IsFiniteSet(R \cap Q)
    BY <1>6, FS_Subset
  <2> QED BY <1>6, <2>1, SumType
<1>12. /\ b[y] \in Nat
       /\ Counted(v, P, y) \in Nat
       /\ Counted(w, Q, y) \in Nat
       /\ b[y] <= Counted(v, P, y) + Counted(w, Q, y)
  BY <1>3, <1>5 DEF Counted
<1> HIDE DEF R, Bad
<1> QED BY <1>3, <1>7, <1>8, <1>9, <1>10, <1>11, <1>12

\* Part of a sum is no more than the sum.
LEMMA SumMonotone ==
  ASSUME NEW S, IsFiniteSet(S), NEW P \in SUBSET S, NEW w, \A x \in S : w[x] \in Nat
  PROVE  SumFunctionOnSet(w, P) <= SumFunctionOnSet(w, S)
<1> DEFINE within(T) == SumFunctionOnSet(w, T \cap P) <= SumFunctionOnSet(w, T)
           Bad == {T \in SUBSET S : ~within(T)}
<1>1. SUFFICES ASSUME Bad # {} PROVE FALSE
  <2>1. S \cap P = P
    OBVIOUS
  <2> QED BY <2>1
<1>2. PICK T \in Bad : \A U \in SUBSET T : U \in Bad => U = T
  <2>1. Bad \subseteq SUBSET S
    OBVIOUS
  <2> HIDE DEF Bad
  <2> QED BY <2>1, <1>1, LeastExists
<1>3. T \in SUBSET S /\ IsFiniteSet(T) /\ ~within(T)
  BY <1>2, FS_Subset
<1>4. T # {}
  <2>1. {} \cap P = {}
    OBVIOUS
  <2>2. within({})
    BY <2>1, SumEmpty
  <2> QED BY <1>3, <2>2
<1>5. PICK y \in T : TRUE
  BY <1>4
<1> DEFINE R == T \ {y}
<1>6. R \in SUBSET S /\ R \in SUBSET T /\ R # T /\ IsFiniteSet(R)
  BY <1>3, <1>5, FS_Subset
<1>7. within(R)
  <2>1. R \notin Bad
    <3> HIDE DEF R, Bad
    <3> QED BY <1>2, <1>6
  <2> QED BY <1>6, <2>1
<1>8. SumFunctionOnSet(w, T) = w[y] + SumFunctionOnSet(w, R)
  BY <1>3, <1>5, SumWithout
<1>9. SumFunctionOnSet(w, T \cap P) = Counted(w, P, y) + SumFunctionOnSet(w, R \cap P)
  <2>1. \A x \in T \cap P : w[x] \in Nat
    BY <1>3
  <2>2. IsFiniteSet(T) /\ y \in T
    BY <1>3, <1>5
  <2> QED BY ONLY <2>1, <2>2, SumPart DEF R
<1>10. SumFunctionOnSet(w, R) \in Nat /\ SumFunctionOnSet(w, R \cap P) \in Nat
  <2>1. IsFiniteSet(R \cap P)
    BY <1>6, FS_Subset
  <2> QED BY <1>6, <2>1, SumType
<1>11. w[y] \in Nat /\ Counted(w, P, y) \in Nat /\ Counted(w, P, y) <= w[y]
  BY <1>3, <1>5 DEF Counted
<1> HIDE DEF R, Bad
<1> QED BY <1>3, <1>7, <1>8, <1>9, <1>10, <1>11

-----------------------------------------------------------------------------
(* The spending ledger, for every number of calls, operations and pieces   *)
(* of evidence and every amount.                                           *)

\* Applying a report yields a row of the ledger, of a recorded call, one
\* revision later.
LEMMA AppliedFacts ==
    ASSUME NEW r \in CallRow, r.state # "absent", NEW o \in Observations
    PROVE  Applied(r, o) \in CallRow /\ Applied(r, o).state # "absent"
<1> DEFINE next == r.revision + 1
           closed(s, x) == [r EXCEPT !.state = s, !.hold = 0, !.settled = x, !.revision = next]
           open(h) == [r EXCEPT !.state = "unresolved", !.hold = h, !.revision = next]
<1>1. 0 \in Maybe /\ None \in Maybe
  BY SpendingAssumption DEF Amounts, Maybe
<1>2. {"released", "settled", "unresolved"} \subseteq States \ {"absent"}
  BY DEF States
<1>3. o.amount \in Maybe /\ r.hold \in Maybe
  BY DEF Observations, CallRow
<1>4. next \in Nat
  BY DEF CallRow
<1>5. \/ Applied(r, o) = closed("released", 0)
      \/ Applied(r, o) = closed("settled", o.amount)
      \/ Applied(r, o) = [r EXCEPT !.revision = next]
      \/ Applied(r, o) = open(None)
      \/ Applied(r, o) = open(r.hold)
  <2>1. CASE o.kind = "not_billed"
    BY <2>1 DEF Applied
  <2>2. CASE o.kind # "not_billed" /\ o.amount # None
    BY <2>2 DEF Applied
  <2>3. CASE o.kind # "not_billed" /\ o.amount = None /\ r.state \in Final
    BY <2>3 DEF Applied
  <2>4. CASE o.kind = "usage" /\ o.amount = None /\ r.state \notin Final
    BY <2>4 DEF Applied
  <2>5. CASE o.kind \notin {"not_billed", "usage"} /\ o.amount = None /\ r.state \notin Final
    BY <2>5 DEF Applied
  <2> QED
    BY <2>1, <2>2, <2>3, <2>4, <2>5
<1> HIDE DEF next
<1>6. \A s \in States \ {"absent"}, x \in Maybe :
         closed(s, x) \in CallRow /\ closed(s, x).state # "absent"
  BY <1>1, <1>4 DEF CallRow
<1>7. \A h \in Maybe : open(h) \in CallRow /\ open(h).state # "absent"
  BY <1>2, <1>4 DEF CallRow
<1>8. [r EXCEPT !.revision = next] \in CallRow /\ [r EXCEPT !.revision = next].state # "absent"
  BY <1>4 DEF CallRow
<1> HIDE DEF closed, open
<1> QED
  BY <1>1, <1>2, <1>3, <1>5, <1>6, <1>7, <1>8

\* The receipt taken from a recorded call is a receipt, and not the empty one.
LEMMA ResultFacts ==
    ASSUME NEW r \in CallRow, r.state # "absent"
    PROVE  Result(r) \in Receipt /\ Result(r) # NoReceipt
  BY DEF Result, Receipt, NoReceipt, CallRow

\* The revision alone moves a row to a row of the same call.
LEMMA BumpFacts ==
    ASSUME NEW r \in CallRow, r.state # "absent"
    PROVE  /\ [r EXCEPT !.revision = @ + 1] \in CallRow
           /\ [r EXCEPT !.revision = @ + 1].state = r.state
           /\ [r EXCEPT !.revision = @ + 1].settled = r.settled
  BY DEF CallRow

\* Owners report observations.
LEMMA ReportsFacts ==
    ASSUME NEW c \in Calls
    PROVE  Reports(c) \subseteq Observations
  BY DEF Reports, Observations, Maybe, Amounts

\* The rows that stand for nothing yet are well-formed.
LEMMA EmptyRows ==
    /\ NoReceipt \in Receipt
    /\ NoCall \in CallRow
    /\ Unseen \in EvidenceRow
<1>1. NoReceipt \in Receipt
  BY DEF NoReceipt, Receipt, States, Maybe
<1>2. NoCall \in CallRow
  BY SpendingAssumption DEF NoCall, CallRow, States, Maybe
<1>3. Unseen \in EvidenceRow
  BY <1>1 DEF Unseen, EvidenceRow, Observations, Maybe
<1> QED
  BY <1>1, <1>2, <1>3

\* Every transaction leaves a well-formed ledger.
LEMMA TypeStep == TypeOK /\ [Next]_vars => TypeOK'
<1> SUFFICES ASSUME TypeOK, [Next]_vars PROVE TypeOK'
  OBVIOUS
<1> USE DEF TypeOK
<1>1. ASSUME NEW c \in Calls, NEW m \in Maybe, NEW l \in Limits \cup {None},
             NEW cost \in Amounts, Reserve(c, m, l, cost)
      PROVE  TypeOK'
  <2>1. [NoCall EXCEPT !.state = "reserved", !.hold = m, !.reserved = m, !.period = month]
           \in CallRow
    <3>1. "reserved" \in States /\ month \in 0 .. Months
      BY SpendingAssumption DEF States
    <3> QED
      BY <3>1, EmptyRows DEF CallRow
  <2>2. call' \in [Calls -> CallRow]
    BY <1>1, <2>1 DEF Reserve
  <2> QED
    BY <1>1, <2>2, SpendingAssumption DEF Reserve
<1>2. ASSUME NEW c \in Calls, Approve(c) PROVE TypeOK'
  <2>1. [call[c] EXCEPT !.state = "accounting_approved", !.revision = @ + 1] \in CallRow
    <3> DEFINE next == call[c].revision + 1
    <3>1. "accounting_approved" \in States /\ call[c] \in CallRow
      BY DEF States
    <3>2. next \in Nat
      BY <3>1 DEF CallRow
    <3> HIDE DEF next
    <3>3. [call[c] EXCEPT !.state = "accounting_approved", !.revision = next] \in CallRow
      BY <3>1, <3>2 DEF CallRow
    <3> QED
      BY <3>3 DEF next
  <2>2. call' = [call EXCEPT ![c] =
                    [call[c] EXCEPT !.state = "accounting_approved", !.revision = @ + 1]]
    BY <1>2 DEF Approve
  <2> QED
    BY <1>2, <2>1, <2>2 DEF Approve
<1>3. ASSUME NEW c \in Calls, NEW e \in Evidence, NEW owned \in BOOLEAN, NEW o \in Reports(c),
             RecordObservation(c, e, o, owned)
      PROVE  TypeOK'
  <2> DEFINE updated == IF Applicable(c, owned) THEN Applied(call[c], o)
                        ELSE [call[c] EXCEPT !.revision = @ + 1]
             row == [Unseen EXCEPT !.known = TRUE,
                                   !.observation = o,
                                   !.wasPending = ~Applicable(c, owned),
                                   !.applied = IF Applicable(c, owned) THEN Result(updated)
                                               ELSE NoReceipt]
  <2>1. o \in Observations
    BY ReportsFacts
  <2>2. updated \in CallRow /\ updated.state # "absent"
    BY <1>3, <2>1, AppliedFacts, BumpFacts DEF RecordObservation, Recorded
  <2>3. row \in EvidenceRow
    <3>1. Result(updated) \in Receipt
      BY <2>2, ResultFacts
    <3> HIDE DEF updated
    <3> QED
      BY <2>1, <3>1, EmptyRows DEF EvidenceRow, Unseen
  <2>4. /\ call' = [call EXCEPT ![c] = updated]
        /\ evidence' = [evidence EXCEPT ![c][e] = row]
    BY <1>3 DEF RecordObservation
  <2> HIDE DEF updated, row
  <2>5. call' \in [Calls -> CallRow]
    BY <2>2, <2>4
  <2>6. evidence' \in [Calls -> [Evidence -> EvidenceRow]]
    BY <2>3, <2>4
  <2> QED
    BY <1>3, <2>5, <2>6 DEF RecordObservation
<1>4. ASSUME NEW c \in Calls, NEW p \in Evidence, NEW a \in Evidence, Reconcile(c, p, a)
      PROVE  TypeOK'
  <2> DEFINE updated == IF AlreadyApplied(c, p, a) THEN [call[c] EXCEPT !.revision = @ + 1]
                        ELSE Applied(call[c], evidence[c][a].observation)
             stamped == IF Stamps(c, p, a)
                        THEN [evidence[c] EXCEPT ![a].applied = Result(updated)]
                        ELSE evidence[c]
             rows == [stamped EXCEPT ![p].resolvedBy = a, ![p].resolution = Result(updated)]
  <2>1. evidence[c][a].observation \in Observations
    BY DEF EvidenceRow
  <2>2. updated \in CallRow /\ updated.state # "absent"
    BY <1>4, <2>1, AppliedFacts, BumpFacts DEF Reconcile, Recorded
  <2>3. Result(updated) \in Receipt
    BY <2>2, ResultFacts
  <2>4. call' = [call EXCEPT ![c] = updated] /\ evidence' = [evidence EXCEPT ![c] = rows]
    BY <1>4 DEF Reconcile
  <2> HIDE DEF updated
  <2>5. stamped \in [Evidence -> EvidenceRow]
    BY <2>3 DEF EvidenceRow
  <2> HIDE DEF stamped
  <2>6. \A row \in EvidenceRow :
           [row EXCEPT !.resolvedBy = a, !.resolution = Result(updated)] \in EvidenceRow
    BY <2>3 DEF EvidenceRow
  <2>7. rows = [stamped EXCEPT ![p] = [stamped[p] EXCEPT !.resolvedBy = a,
                                                         !.resolution = Result(updated)]]
    BY <2>5
  <2>8. rows \in [Evidence -> EvidenceRow]
    BY <2>5, <2>6, <2>7
  <2> HIDE DEF rows
  <2>9. call' \in [Calls -> CallRow]
    BY <2>2, <2>4
  <2>10. evidence' \in [Calls -> [Evidence -> EvidenceRow]]
    BY <2>4, <2>8
  <2> QED
    BY <1>4, <2>9, <2>10 DEF Reconcile
<1>5. ASSUME NEW l \in Limits \cup {None}, ChangeLimit(l) PROVE TypeOK'
  BY <1>5 DEF ChangeLimit
<1>6. CASE NextMonth
  BY <1>6, SpendingAssumption DEF NextMonth
<1>7. CASE UNCHANGED vars
  BY <1>7 DEF vars
<1> QED
  BY <1>1, <1>2, <1>3, <1>4, <1>5, <1>6, <1>7 DEF Next

\* The ledger's rows are well-formed at every moment.
THEOREM TypeCorrect == Spec => []TypeOK
<1>1. Init => TypeOK
  BY EmptyRows, SpendingAssumption DEF Init, TypeOK, Amounts
<1> QED
  BY <1>1, TypeStep, PTL DEF Spec

-----------------------------------------------------------------------------
(* Receipts and corrections.  The inductive invariant says that evidence   *)
(* not recorded yet has left no trace; without it, recording could          *)
(* overwrite a receipt.                                                    *)

EvidenceInv ==
    /\ TypeOK
    /\ \A c \in Calls, e \in Evidence : ~evidence[c][e].known => evidence[c][e] = Unseen

\* Recording touches the new evidence alone, and moves money exactly when it
\* leaves an application receipt.
LEMMA RecordFacts ==
    ASSUME TypeOK, NEW c \in Calls, NEW e \in Evidence, NEW owned \in BOOLEAN,
           NEW o \in Reports(c), RecordObservation(c, e, o, owned)
    PROVE  /\ \A d \in Calls \ {c} : call'[d] = call[d] /\ evidence'[d] = evidence[d]
           /\ \A x \in Evidence \ {e} : evidence'[c][x] = evidence[c][x]
           /\ ~evidence[c][e].known /\ evidence'[c][e].known
           /\ evidence'[c][e].resolvedBy = NoEvidence
           /\ Applicable(c, owned) => evidence'[c][e].applied # NoReceipt
           /\ ~Applicable(c, owned) => /\ call'[c].state = call[c].state
                                      /\ call'[c].settled = call[c].settled
<1> DEFINE updated == IF Applicable(c, owned) THEN Applied(call[c], o)
                      ELSE [call[c] EXCEPT !.revision = @ + 1]
           row == [Unseen EXCEPT !.known = TRUE,
                                 !.observation = o,
                                 !.wasPending = ~Applicable(c, owned),
                                 !.applied = IF Applicable(c, owned) THEN Result(updated)
                                             ELSE NoReceipt]
<1>1. updated \in CallRow /\ updated.state # "absent"
  BY ReportsFacts, AppliedFacts, BumpFacts DEF TypeOK, RecordObservation, Recorded
<1>2. ~Applicable(c, owned) => updated.state = call[c].state /\ updated.settled = call[c].settled
  BY BumpFacts DEF TypeOK, RecordObservation, Recorded
<1>3. /\ call' = [call EXCEPT ![c] = updated]
      /\ evidence' = [evidence EXCEPT ![c][e] = row]
      /\ ~evidence[c][e].known
  BY DEF RecordObservation
<1> HIDE DEF updated
<1>4. Result(updated) # NoReceipt
  BY <1>1, ResultFacts
<1>5. /\ row.known /\ row.resolvedBy = NoEvidence
      /\ Applicable(c, owned) => row.applied # NoReceipt
  BY <1>4 DEF Unseen
<1> HIDE DEF row
<1> QED
  BY <1>2, <1>3, <1>5 DEF TypeOK

\* A correction touches the resolved evidence and its proof alone: it resolves
\* the first, stamps the second if need be, and moves money only by a proof
\* that had moved none.
LEMMA ReconcileFacts ==
    ASSUME TypeOK, NEW c \in Calls, NEW p \in Evidence, NEW a \in Evidence, Reconcile(c, p, a)
    PROVE  /\ \A d \in Calls \ {c} : call'[d] = call[d] /\ evidence'[d] = evidence[d]
           /\ \A x \in Evidence \ {p} :
                 /\ evidence'[c][x].resolvedBy = evidence[c][x].resolvedBy
                 /\ evidence'[c][x].resolution = evidence[c][x].resolution
           /\ \A x \in Evidence : evidence'[c][x].applied =
                 IF x = a /\ Stamps(c, p, a) THEN Result(call'[c]) ELSE evidence[c][x].applied
           /\ \A x \in Evidence : evidence'[c][x].known = evidence[c][x].known
           /\ \A x \in Evidence \ {p, a} : evidence'[c][x] = evidence[c][x]
           /\ evidence[c][p].resolvedBy = NoEvidence /\ evidence[c][p].wasPending
           /\ evidence'[c][p].resolvedBy = a /\ evidence[c][a].known
           /\ Result(call'[c]) # NoReceipt
           /\ AlreadyApplied(c, p, a) => /\ call'[c].state = call[c].state
                                        /\ call'[c].settled = call[c].settled
<1> DEFINE updated == IF AlreadyApplied(c, p, a) THEN [call[c] EXCEPT !.revision = @ + 1]
                      ELSE Applied(call[c], evidence[c][a].observation)
           stamped == IF Stamps(c, p, a)
                      THEN [evidence[c] EXCEPT ![a].applied = Result(updated)]
                      ELSE evidence[c]
           rows == [stamped EXCEPT ![p].resolvedBy = a, ![p].resolution = Result(updated)]
<1>1. updated \in CallRow /\ updated.state # "absent"
  <2>1. evidence[c][a].observation \in Observations
    BY DEF TypeOK, EvidenceRow
  <2> QED
    BY <2>1, AppliedFacts, BumpFacts DEF TypeOK, Reconcile, Recorded
<1>2. AlreadyApplied(c, p, a) =>
         updated.state = call[c].state /\ updated.settled = call[c].settled
  BY BumpFacts DEF TypeOK, Reconcile, Recorded
<1>3. call' = [call EXCEPT ![c] = updated] /\ evidence' = [evidence EXCEPT ![c] = rows]
  BY DEF Reconcile
<1>4. evidence[c] \in [Evidence -> EvidenceRow]
  BY DEF TypeOK
<1> HIDE DEF updated
<1>5. /\ stamped \in [Evidence -> EvidenceRow]
      /\ \A x \in Evidence \ {a} : stamped[x] = evidence[c][x]
      /\ stamped[a].known = evidence[c][a].known
      /\ stamped[a].resolvedBy = evidence[c][a].resolvedBy
      /\ stamped[a].resolution = evidence[c][a].resolution
      /\ stamped[a].applied =
            IF Stamps(c, p, a) THEN Result(updated) ELSE evidence[c][a].applied
  <2>1. Result(updated) \in Receipt
    BY <1>1, ResultFacts
  <2> QED
    BY <1>4, <2>1 DEF EvidenceRow
<1> HIDE DEF stamped
<1>6. /\ \A x \in Evidence \ {p} : rows[x] = stamped[x]
      /\ rows[p].known = stamped[p].known
      /\ rows[p].applied = stamped[p].applied
      /\ rows[p].resolvedBy = a
  BY <1>5 DEF EvidenceRow
<1> HIDE DEF rows
<1>7. call'[c] = updated /\ evidence'[c] = rows
  BY <1>3 DEF TypeOK
<1>8. Result(updated) # NoReceipt
  BY <1>1, ResultFacts
<1>9. \A d \in Calls \ {c} : call'[d] = call[d] /\ evidence'[d] = evidence[d]
  BY <1>3 DEF TypeOK
<1>10. /\ evidence[c][p].resolvedBy = NoEvidence /\ evidence[c][p].wasPending
       /\ evidence[c][a].known
  BY DEF Reconcile, Pending
<1>11. \A x \in Evidence \ {p} :
         /\ evidence'[c][x].resolvedBy = evidence[c][x].resolvedBy
         /\ evidence'[c][x].resolution = evidence[c][x].resolution
         /\ x # a => evidence'[c][x] = evidence[c][x]
  BY <1>5, <1>6, <1>7
<1>12. \A x \in Evidence :
         /\ evidence'[c][x].known = evidence[c][x].known
         /\ evidence'[c][x].applied =
              IF x = a /\ Stamps(c, p, a) THEN Result(call'[c]) ELSE evidence[c][x].applied
  BY <1>5, <1>6, <1>7
<1>13. /\ evidence'[c][p].resolvedBy = a
       /\ Result(call'[c]) # NoReceipt
       /\ AlreadyApplied(c, p, a) => /\ call'[c].state = call[c].state
                                    /\ call'[c].settled = call[c].settled
  BY <1>2, <1>6, <1>7, <1>8
<1> QED
  BY <1>9, <1>10, <1>11, <1>12, <1>13

\* The invariant is inductive.
LEMMA EvidenceStep == EvidenceInv /\ [Next]_vars => EvidenceInv'
<1> SUFFICES ASSUME EvidenceInv, [Next]_vars
             PROVE  \A c \in Calls, e \in Evidence :
                       ~evidence'[c][e].known => evidence'[c][e] = Unseen
  BY TypeStep DEF EvidenceInv
<1>1. ASSUME NEW c \in Calls, NEW e \in Evidence, NEW owned \in BOOLEAN, NEW o \in Reports(c),
             RecordObservation(c, e, o, owned)
      PROVE  \A d \in Calls, x \in Evidence :
                ~evidence'[d][x].known => evidence'[d][x] = Unseen
  BY <1>1, RecordFacts DEF EvidenceInv
<1>2. ASSUME NEW c \in Calls, NEW p \in Evidence, NEW a \in Evidence, Reconcile(c, p, a)
      PROVE  \A d \in Calls, x \in Evidence :
                ~evidence'[d][x].known => evidence'[d][x] = Unseen
  <2>1. evidence[c][p].known
    BY <1>2, ReconcileFacts DEF EvidenceInv, Unseen
  <2> QED
    BY <1>2, <2>1, ReconcileFacts DEF EvidenceInv
<1>3. CASE UNCHANGED evidence
  BY <1>3 DEF EvidenceInv
<1> QED
  BY <1>1, <1>2, <1>3 DEF Next, vars, Reserve, Approve, ChangeLimit, NextMonth

\* Evidence not recorded has left no trace, at every moment.
THEOREM EvidenceInvariant == Spec => []EvidenceInv
<1>1. Init => EvidenceInv
  <2>1. Init => TypeOK
    BY EmptyRows, SpendingAssumption DEF Init, TypeOK, Amounts
  <2> QED
    BY <2>1 DEF Init, EvidenceInv
<1> QED
  BY <1>1, EvidenceStep, PTL DEF Spec

-----------------------------------------------------------------------------
(* The promises, each a consequence of the invariant and of what the two   *)
(* transactions that touch evidence do.                                    *)

\* Receipts of observations and corrections are never rewritten
\* (mark_observation_applied, record_resolution).
THEOREM ReceiptsFinal == Spec => ReceiptsAreFinal
<1> DEFINE kept(c, e) ==
      /\ evidence[c][e].applied # NoReceipt => evidence'[c][e].applied = evidence[c][e].applied
      /\ evidence[c][e].resolvedBy # NoEvidence =>
            /\ evidence'[c][e].resolvedBy = evidence[c][e].resolvedBy
            /\ evidence'[c][e].resolution = evidence[c][e].resolution
<1>1. ASSUME EvidenceInv, [Next]_vars PROVE \A c \in Calls, e \in Evidence : kept(c, e)
  <2>1. ASSUME NEW c \in Calls, NEW e \in Evidence, NEW owned \in BOOLEAN, NEW o \in Reports(c),
               RecordObservation(c, e, o, owned)
        PROVE  \A d \in Calls, x \in Evidence : kept(d, x)
    <3>1. kept(c, e)
      BY <1>1, <2>1, RecordFacts DEF EvidenceInv, Unseen
    <3> QED
      BY <1>1, <2>1, <3>1, RecordFacts DEF EvidenceInv
  <2>2. ASSUME NEW c \in Calls, NEW p \in Evidence, NEW a \in Evidence, Reconcile(c, p, a)
        PROVE  \A d \in Calls, x \in Evidence : kept(d, x)
    BY <1>1, <2>2, ReconcileFacts DEF EvidenceInv, Stamps, AlreadyApplied
  <2>3. CASE UNCHANGED evidence
    BY <2>3
  <2> QED
    BY <1>1, <2>1, <2>2, <2>3 DEF Next, vars, Reserve, Approve, ChangeLimit, NextMonth
<1> QED
  BY <1>1, EvidenceInvariant, PTL DEF Spec, ReceiptsAreFinal

\* Steps that touch no evidence leave every known outcome alone.
LEMMA OtherSteps ==
    ASSUME TypeOK,
           \/ \E c \in Calls, m \in Maybe, l \in Limits \cup {None}, cost \in Amounts :
                 Reserve(c, m, l, cost)
           \/ \E c \in Calls : Approve(c)
           \/ \E l \in Limits \cup {None} : ChangeLimit(l)
           \/ NextMonth
           \/ UNCHANGED vars
    PROVE  \A d \in Calls : Outcome(call'[d]) = Outcome(call[d])
<1>1. ASSUME NEW c \in Calls, NEW m \in Maybe, NEW l \in Limits \cup {None},
             NEW cost \in Amounts, Reserve(c, m, l, cost)
      PROVE  \A d \in Calls : Outcome(call'[d]) = Outcome(call[d])
  <2>1. /\ call[c].state = "absent" /\ call'[c].state = "reserved"
        /\ \A d \in Calls \ {c} : call'[d] = call[d]
    BY <1>1 DEF TypeOK, Reserve, NoCall
  <2> QED
    BY <2>1 DEF Outcome, Final
<1>2. ASSUME NEW c \in Calls, Approve(c)
      PROVE  \A d \in Calls : Outcome(call'[d]) = Outcome(call[d])
  <2>1. /\ call[c].state = "reserved" /\ call'[c].state = "accounting_approved"
        /\ \A d \in Calls \ {c} : call'[d] = call[d]
    BY <1>2 DEF TypeOK, Approve, CallRow
  <2> QED
    BY <2>1 DEF Outcome, Final
<1> QED
  BY <1>1, <1>2 DEF ChangeLimit, NextMonth, vars

\* Every change of a call's known outcome consumes evidence that had not moved
\* its money before (_recover_observation, reconcile).
THEOREM MoneyMovesOnce == Spec => MoneyMovesOnNewEvidence
<1> DEFINE consumed(d) == \E e \in Evidence : ~Spent(d, e) /\ Spent(d, e)'
<1>1. ASSUME EvidenceInv, [Next]_vars
      PROVE  \A d \in Calls : Outcome(call'[d]) # Outcome(call[d]) => consumed(d)
  <2>1. ASSUME NEW c \in Calls, NEW e \in Evidence, NEW owned \in BOOLEAN, NEW o \in Reports(c),
               RecordObservation(c, e, o, owned)
        PROVE  \A d \in Calls : Outcome(call'[d]) # Outcome(call[d]) => consumed(d)
    <3>1. ~Spent(c, e)
      BY <1>1, <2>1, RecordFacts, SpendingAssumption DEF EvidenceInv, Unseen, Spent
    <3>2. Applicable(c, owned) => Spent(c, e)'
      BY <1>1, <2>1, RecordFacts DEF EvidenceInv, Spent
    <3> QED
      BY <1>1, <2>1, <3>1, <3>2, RecordFacts DEF EvidenceInv, Outcome
  <2>2. ASSUME NEW c \in Calls, NEW p \in Evidence, NEW a \in Evidence, Reconcile(c, p, a)
        PROVE  \A d \in Calls : Outcome(call'[d]) # Outcome(call[d]) => consumed(d)
    <3>1. CASE AlreadyApplied(c, p, a)
      BY <1>1, <2>2, <3>1, ReconcileFacts DEF EvidenceInv, Outcome
    <3>2. CASE ~AlreadyApplied(c, p, a)
      <4>1. ~Spent(c, a)
        BY <1>1, <2>2, <3>2, ReconcileFacts, SpendingAssumption
        DEF EvidenceInv, AlreadyApplied, Spent
      <4>2. Spent(c, a)'
        BY <1>1, <2>2, <3>2, ReconcileFacts DEF EvidenceInv, Stamps, Spent
      <4> QED
        BY <1>1, <2>2, <4>1, <4>2, ReconcileFacts DEF EvidenceInv
    <3> QED
      BY <3>1, <3>2
  <2> QED
    BY <1>1, <2>1, <2>2, OtherSteps DEF Next, EvidenceInv
<1>2. EvidenceInv /\ [Next]_vars =>
         [\A c \in Calls :
            Outcome(call'[c]) # Outcome(call[c]) =>
               \E e \in Evidence : ~Spent(c, e) /\ Spent(c, e)']_vars
  BY <1>1
<1> QED
  BY <1>2, EvidenceInvariant, PTL DEF Spec, MoneyMovesOnNewEvidence

\* A known outcome changes only by a reviewed correction (record_observation,
\* _retain_pending).
THEOREM KnownOutcomesWait == Spec => KnownOutcomeNeedsReview
<1> DEFINE reviewed(d) ==
      \E e \in Evidence :
         evidence[d][e].resolvedBy = NoEvidence /\ evidence'[d][e].resolvedBy # NoEvidence
<1>1. ASSUME EvidenceInv, [Next]_vars
      PROVE  \A d \in Calls :
                call[d].state \in Final /\ Outcome(call'[d]) # Outcome(call[d]) => reviewed(d)
  <2>1. ASSUME NEW c \in Calls, NEW e \in Evidence, NEW owned \in BOOLEAN, NEW o \in Reports(c),
               RecordObservation(c, e, o, owned)
        PROVE  \A d \in Calls :
                  call[d].state \in Final /\ Outcome(call'[d]) # Outcome(call[d]) => reviewed(d)
    BY <1>1, <2>1, RecordFacts DEF EvidenceInv, Outcome, Applicable
  <2>2. ASSUME NEW c \in Calls, NEW p \in Evidence, NEW a \in Evidence, Reconcile(c, p, a)
        PROVE  \A d \in Calls :
                  call[d].state \in Final /\ Outcome(call'[d]) # Outcome(call[d]) => reviewed(d)
    BY <1>1, <2>2, ReconcileFacts, SpendingAssumption DEF EvidenceInv
  <2> QED
    BY <1>1, <2>1, <2>2, OtherSteps DEF Next, EvidenceInv
<1>2. EvidenceInv /\ [Next]_vars =>
         [\A c \in Calls :
            call[c].state \in Final /\ Outcome(call'[c]) # Outcome(call[c]) =>
               \E e \in Evidence :
                  evidence[c][e].resolvedBy = NoEvidence /\ evidence'[c][e].resolvedBy # NoEvidence]_vars
  BY <1>1
<1> QED
  BY <1>2, EvidenceInvariant, PTL DEF Spec, KnownOutcomeNeedsReview

-----------------------------------------------------------------------------
(* What is owed.  An approval compares the limit with what the rows say;   *)
(* the invariant relates each row to the bill of its call: an open hold    *)
(* covers the bill, and a known outcome is that of a recorded report.      *)

Reported(c) ==
    /\ \A e \in Evidence : evidence[c][e].known => evidence[c][e].observation \in Reports(c)
    /\ c \in Recorded /\ Active(c) /\ call[c].hold # None => bill[c] <= call[c].hold
    /\ call[c].state = "settled" =>
          \E e \in Evidence :
             /\ evidence[c][e].known
             /\ evidence[c][e].observation = [kind |-> "charge", amount |-> call[c].settled]
    /\ call[c].state = "released" =>
          \E e \in Evidence :
             evidence[c][e].known /\ evidence[c][e].observation.kind = "not_billed"

CostInv ==
    /\ EvidenceInv
    /\ \A c \in Calls : Reported(c)
    /\ \A c \in Recorded : opLimit[OperationOf[c]] # Unset

\* What applying a report leaves of a row: the outcome that was reported, or
\* what there was, the hold perhaps unquantified.
LEMMA AppliedOutcome ==
    ASSUME NEW r \in CallRow, r.state # "absent", NEW c \in Calls, NEW o \in Reports(c)
    PROVE  \/ /\ o = [kind |-> "charge", amount |-> Applied(r, o).settled]
              /\ Applied(r, o).state = "settled"
           \/ o.kind = "not_billed" /\ Applied(r, o).state = "released"
           \/ /\ r.state \in Final
              /\ Applied(r, o).state = r.state /\ Applied(r, o).settled = r.settled
           \/ /\ r.state \notin Final
              /\ Applied(r, o).state = "unresolved"
              /\ Applied(r, o).hold \in {r.hold, None}
<1> DEFINE next == r.revision + 1
<1>1. CASE o.kind = "not_billed"
  <2>1. Applied(r, o) = [r EXCEPT !.state = "released", !.hold = 0, !.settled = 0, !.revision = @ + 1]
    BY <1>1 DEF Applied
  <2> QED
    BY <1>1, <2>1 DEF CallRow
<1>2. CASE o.kind = "charge"
  <2>1. o = [kind |-> "charge", amount |-> o.amount] /\ o.amount # None
    BY <1>2 DEF Reports, Amounts, None
  <2>2. Applied(r, o) = [r EXCEPT !.state = "settled", !.hold = 0, !.settled = o.amount, !.revision = @ + 1]
    BY <1>2, <2>1 DEF Applied
  <2>3. Applied(r, o).state = "settled" /\ Applied(r, o).settled = o.amount
    BY <2>2 DEF CallRow
  <2> QED
    BY <2>1, <2>3
<1>3. CASE o.kind \in {"uncertain", "usage"}
  <2>1. o.amount = None
    BY <1>3 DEF Reports
  <2>2. CASE r.state \in Final
    <3>1. Applied(r, o) = [r EXCEPT !.revision = next]
      BY <1>3, <2>1, <2>2 DEF Applied
    <3> HIDE DEF next
    <3> QED
      BY <2>2, <3>1 DEF CallRow
  <2>3. CASE r.state \notin Final
    <3>1. PICK h \in {r.hold, None} :
             Applied(r, o) = [r EXCEPT !.state = "unresolved", !.hold = h, !.revision = next]
      BY <1>3, <2>1, <2>3 DEF Applied
    <3> HIDE DEF next
    <3> QED
      BY <2>3, <3>1 DEF CallRow
  <2> QED
    BY <2>2, <2>3
<1> QED
  BY <1>1, <1>2, <1>3 DEF Reports

\* Recording leaves every report it finds, adds its own and moves the row by it
\* alone.
LEMMA RecordOutcome ==
    ASSUME TypeOK, NEW c \in Calls, NEW e \in Evidence, NEW owned \in BOOLEAN,
           NEW o \in Reports(c), RecordObservation(c, e, o, owned)
    PROVE  /\ bill' = bill
           /\ evidence'[c][e].known /\ evidence'[c][e].observation = o
           /\ \/ call'[c] = Applied(call[c], o)
              \/ /\ call'[c].state = call[c].state
                 /\ call'[c].hold = call[c].hold
                 /\ call'[c].settled = call[c].settled
<1> DEFINE updated == IF Applicable(c, owned) THEN Applied(call[c], o)
                      ELSE [call[c] EXCEPT !.revision = @ + 1]
           row == [Unseen EXCEPT !.known = TRUE,
                                 !.observation = o,
                                 !.wasPending = ~Applicable(c, owned),
                                 !.applied = IF Applicable(c, owned) THEN Result(updated)
                                             ELSE NoReceipt]
<1>1. \/ updated = Applied(call[c], o)
      \/ /\ updated.state = call[c].state
         /\ updated.hold = call[c].hold
         /\ updated.settled = call[c].settled
  BY DEF TypeOK, CallRow
<1>2. /\ call' = [call EXCEPT ![c] = updated]
      /\ evidence' = [evidence EXCEPT ![c][e] = row]
      /\ bill' = bill
  BY DEF RecordObservation
<1> HIDE DEF updated
<1>3. row.known /\ row.observation = o
  BY DEF Unseen
<1> HIDE DEF row
<1> QED
  BY <1>1, <1>2, <1>3 DEF TypeOK

\* A correction keeps every report and moves the row by its proof alone.
LEMMA ReconcileOutcome ==
    ASSUME TypeOK, NEW c \in Calls, NEW p \in Evidence, NEW a \in Evidence, Reconcile(c, p, a)
    PROVE  /\ bill' = bill
           /\ evidence[c][a].known
           /\ \A x \in Evidence : evidence'[c][x].observation = evidence[c][x].observation
           /\ \/ call'[c] = Applied(call[c], evidence[c][a].observation)
              \/ /\ call'[c].state = call[c].state
                 /\ call'[c].hold = call[c].hold
                 /\ call'[c].settled = call[c].settled
<1> DEFINE updated == IF AlreadyApplied(c, p, a) THEN [call[c] EXCEPT !.revision = @ + 1]
                      ELSE Applied(call[c], evidence[c][a].observation)
           stamped == IF Stamps(c, p, a)
                      THEN [evidence[c] EXCEPT ![a].applied = Result(updated)]
                      ELSE evidence[c]
           rows == [stamped EXCEPT ![p].resolvedBy = a, ![p].resolution = Result(updated)]
<1>1. \/ updated = Applied(call[c], evidence[c][a].observation)
      \/ /\ updated.state = call[c].state
         /\ updated.hold = call[c].hold
         /\ updated.settled = call[c].settled
  BY DEF TypeOK, CallRow
<1>2. /\ call' = [call EXCEPT ![c] = updated]
      /\ evidence' = [evidence EXCEPT ![c] = rows]
      /\ bill' = bill
      /\ evidence[c][a].known
  BY DEF Reconcile
<1>3. evidence[c] \in [Evidence -> EvidenceRow]
  BY DEF TypeOK
<1> HIDE DEF updated
<1>4. DOMAIN stamped = Evidence /\ \A x \in Evidence :
         /\ stamped[x].observation = evidence[c][x].observation
         /\ DOMAIN stamped[x] = DOMAIN Unseen
  BY <1>3 DEF EvidenceRow, Unseen
<1> HIDE DEF stamped
<1>5. \A x \in Evidence : rows[x].observation = stamped[x].observation
  BY <1>4 DEF Unseen
<1> HIDE DEF rows
<1> QED
  BY <1>1, <1>2, <1>4, <1>5 DEF TypeOK

\* The row of a call after a report that was recorded for it.
LEMMA ReportedAfter ==
    ASSUME TypeOK, NEW c \in Calls, c \in Recorded, Reported(c),
           NEW a \in Evidence, NEW o \in Reports(c),
           evidence'[c][a].known, evidence'[c][a].observation = o,
           \A x \in Evidence : evidence'[c][x].known => evidence'[c][x].observation \in Reports(c),
           \A x \in Evidence : evidence[c][x].known =>
               evidence'[c][x].known /\ evidence'[c][x].observation = evidence[c][x].observation,
           bill' = bill,
           \/ call'[c] = Applied(call[c], o)
           \/ /\ call'[c].state = call[c].state
              /\ call'[c].hold = call[c].hold
              /\ call'[c].settled = call[c].settled
    PROVE  Reported(c)'
<1>1. call[c] \in CallRow /\ call[c].state # "absent"
  BY DEF TypeOK, Recorded
<1>2. Reports(c)' = Reports(c)
  BY DEF Reports
<1>3. CASE /\ call'[c].state = call[c].state
           /\ call'[c].hold = call[c].hold
           /\ call'[c].settled = call[c].settled
  BY <1>2, <1>3 DEF Reported, Recorded, Active
<1>4. CASE call'[c] = Applied(call[c], o)
  <2>1. \/ /\ o = [kind |-> "charge", amount |-> call'[c].settled]
           /\ call'[c].state = "settled"
        \/ o.kind = "not_billed" /\ call'[c].state = "released"
        \/ /\ call[c].state \in Final
           /\ call'[c].state = call[c].state /\ call'[c].settled = call[c].settled
        \/ /\ call[c].state \notin Final
           /\ call'[c].state = "unresolved"
           /\ call'[c].hold \in {call[c].hold, None}
    BY <1>1, <1>4, AppliedOutcome
  <2>2. CASE o = [kind |-> "charge", amount |-> call'[c].settled] /\ call'[c].state = "settled"
    BY <1>2, <2>2 DEF Reported, Active, Final
  <2>3. CASE o.kind = "not_billed" /\ call'[c].state = "released"
    BY <1>2, <2>3 DEF Reported, Active, Final
  <2>4. CASE /\ call[c].state \in Final
             /\ call'[c].state = call[c].state /\ call'[c].settled = call[c].settled
    BY <1>2, <2>4 DEF Reported, Active
  <2>5. CASE /\ call[c].state \notin Final
             /\ call'[c].state = "unresolved"
             /\ call'[c].hold \in {call[c].hold, None}
    BY <1>2, <2>5 DEF Reported, Active, Final
  <2> QED
    BY <2>1, <2>2, <2>3, <2>4, <2>5
<1> QED
  BY <1>3, <1>4

\* The first call of an operation fixes its limit.
LEMMA LimitsKnownStep ==
    CostInv /\ [Next]_vars => (\A c \in Recorded : opLimit[OperationOf[c]] # Unset)'
<1> SUFFICES ASSUME CostInv, [Next]_vars, NEW d \in Recorded'
             PROVE  opLimit'[OperationOf[d]] # Unset
  OBVIOUS
<1>1. TypeOK /\ d \in Calls
  BY DEF CostInv, EvidenceInv, Recorded
<1>2. d \in Recorded => opLimit[OperationOf[d]] # Unset
  BY DEF CostInv
<1>3. ASSUME NEW c \in Calls, NEW m \in Maybe, NEW l \in Limits \cup {None},
             NEW cost \in Amounts, Reserve(c, m, l, cost)
      PROVE  opLimit'[OperationOf[d]] # Unset
  <2>1. l # Unset
    BY SpendingAssumption DEF Unset, None
  <2>2. d # c => d \in Recorded
    BY <1>1, <1>3 DEF Reserve, TypeOK, Recorded
  <2>3. OperationOf[d] \in Operations
    BY <1>1, SpendingAssumption
  <2>4. opLimit' = [opLimit EXCEPT ![OperationOf[c]] = l]
    BY <1>3 DEF Reserve
  <2> QED
    BY <1>1, <1>2, <2>1, <2>2, <2>3, <2>4 DEF TypeOK
<1>4. ASSUME NEW c \in Calls, call[c].state # "absent", opLimit' = opLimit,
             \A x \in Calls \ {c} : call'[x] = call[x]
      PROVE  opLimit'[OperationOf[d]] # Unset
  BY <1>1, <1>2, <1>4 DEF Recorded
<1>5. ASSUME NEW c \in Calls, Approve(c) PROVE opLimit'[OperationOf[d]] # Unset
  BY <1>1, <1>4, <1>5 DEF Approve, TypeOK
<1>6. ASSUME NEW c \in Calls, NEW e \in Evidence, NEW owned \in BOOLEAN, NEW o \in Reports(c),
             RecordObservation(c, e, o, owned)
      PROVE  opLimit'[OperationOf[d]] # Unset
  <2>1. opLimit' = opLimit /\ call[c].state # "absent"
    BY <1>6 DEF RecordObservation, Recorded
  <2> QED
    BY <1>1, <1>4, <1>6, <2>1, RecordFacts
<1>7. ASSUME NEW c \in Calls, NEW p \in Evidence, NEW a \in Evidence, Reconcile(c, p, a)
      PROVE  opLimit'[OperationOf[d]] # Unset
  <2>1. opLimit' = opLimit /\ call[c].state # "absent"
    BY <1>7 DEF Reconcile, Recorded
  <2> QED
    BY <1>1, <1>4, <1>7, <2>1, ReconcileFacts
<1>8. CASE UNCHANGED <<call, opLimit>>
  BY <1>1, <1>2, <1>8 DEF Recorded
<1> QED
  BY <1>3, <1>5, <1>6, <1>7, <1>8 DEF Next, vars, ChangeLimit, NextMonth

\* The relation of rows to bills is inductive.
LEMMA CostStep == CostInv /\ [Next]_vars => CostInv'
<1> SUFFICES ASSUME CostInv, [Next]_vars
             PROVE  \A d \in Calls : Reported(d)'
  BY EvidenceStep, LimitsKnownStep DEF CostInv
<1>1. TypeOK /\ \A d \in Calls : Reported(d)
  BY DEF CostInv, EvidenceInv
<1>2. ASSUME NEW d \in Calls, call'[d] = call[d], evidence'[d] = evidence[d], bill'[d] = bill[d]
      PROVE  Reported(d)'
  BY <1>1, <1>2 DEF Reported, Recorded, Active, Reports
<1>3. ASSUME NEW c \in Calls, NEW m \in Maybe, NEW l \in Limits \cup {None},
             NEW cost \in Amounts, Reserve(c, m, l, cost)
      PROVE  \A d \in Calls : Reported(d)'
  <2>1. /\ call'[c].state = "reserved" /\ call'[c].hold = m /\ bill'[c] = cost
        /\ m # None => cost <= m
        /\ evidence' = evidence
        /\ \A d \in Calls \ {c} : call'[d] = call[d] /\ bill'[d] = bill[d]
    BY <1>1, <1>3 DEF TypeOK, Reserve, NoCall
  <2>2. Reported(c)'
    BY <1>1, <2>1 DEF Reported, Recorded, Active, Reports
  <2> QED
    BY <1>2, <2>1, <2>2
<1>4. ASSUME NEW c \in Calls, Approve(c) PROVE \A d \in Calls : Reported(d)'
  <2>1. /\ call[c].state = "reserved" /\ call'[c].state = "accounting_approved"
        /\ call'[c].hold = call[c].hold /\ bill' = bill /\ evidence' = evidence
        /\ \A d \in Calls \ {c} : call'[d] = call[d]
    BY <1>1, <1>4 DEF TypeOK, Approve, CallRow
  <2>2. Reported(c)'
    BY <1>1, <2>1 DEF Reported, Recorded, Active, Reports, Final
  <2> QED
    BY <1>2, <2>1, <2>2
<1>5. ASSUME NEW c \in Calls, NEW e \in Evidence, NEW owned \in BOOLEAN, NEW o \in Reports(c),
             RecordObservation(c, e, o, owned)
      PROVE  \A d \in Calls : Reported(d)'
  <2>1. /\ \A d \in Calls \ {c} : call'[d] = call[d] /\ evidence'[d] = evidence[d]
        /\ \A x \in Evidence \ {e} : evidence'[c][x] = evidence[c][x]
        /\ ~evidence[c][e].known
    BY <1>1, <1>5, RecordFacts
  <2>2. /\ bill' = bill
        /\ evidence'[c][e].known /\ evidence'[c][e].observation = o
        /\ \/ call'[c] = Applied(call[c], o)
           \/ /\ call'[c].state = call[c].state
              /\ call'[c].hold = call[c].hold
              /\ call'[c].settled = call[c].settled
    BY <1>1, <1>5, RecordOutcome
  <2>3. /\ \A x \in Evidence : evidence'[c][x].known => evidence'[c][x].observation \in Reports(c)
        /\ \A x \in Evidence : evidence[c][x].known =>
              evidence'[c][x].known /\ evidence'[c][x].observation = evidence[c][x].observation
    BY <1>1, <2>1, <2>2 DEF Reported
  <2>4. c \in Recorded
    BY <1>5 DEF RecordObservation
  <2>5. Reported(c)'
    BY <1>1, <2>2, <2>3, <2>4, ReportedAfter
  <2> QED
    BY <1>2, <2>1, <2>2, <2>5
<1>6. ASSUME NEW c \in Calls, NEW p \in Evidence, NEW a \in Evidence, Reconcile(c, p, a)
      PROVE  \A d \in Calls : Reported(d)'
  <2> DEFINE o == evidence[c][a].observation
  <2>1. /\ \A d \in Calls \ {c} : call'[d] = call[d] /\ evidence'[d] = evidence[d]
        /\ \A x \in Evidence : evidence'[c][x].known = evidence[c][x].known
    BY <1>1, <1>6, ReconcileFacts
  <2>2. /\ bill' = bill
        /\ evidence[c][a].known
        /\ \A x \in Evidence : evidence'[c][x].observation = evidence[c][x].observation
        /\ \/ call'[c] = Applied(call[c], o)
           \/ /\ call'[c].state = call[c].state
              /\ call'[c].hold = call[c].hold
              /\ call'[c].settled = call[c].settled
    BY <1>1, <1>6, ReconcileOutcome
  <2>3. /\ o \in Reports(c)
        /\ evidence'[c][a].known /\ evidence'[c][a].observation = o
        /\ \A x \in Evidence : evidence'[c][x].known => evidence'[c][x].observation \in Reports(c)
        /\ \A x \in Evidence : evidence[c][x].known =>
              evidence'[c][x].known /\ evidence'[c][x].observation = evidence[c][x].observation
    BY <1>1, <2>1, <2>2 DEF Reported
  <2>4. c \in Recorded
    BY <1>6 DEF Reconcile
  <2> HIDE DEF o
  <2>5. Reported(c)'
    BY <1>1, <2>2, <2>3, <2>4, ReportedAfter
  <2> QED
    BY <1>2, <2>1, <2>2, <2>5
<1>7. CASE UNCHANGED <<call, evidence, bill>>
  BY <1>2, <1>7
<1> QED
  BY <1>3, <1>4, <1>5, <1>6, <1>7 DEF Next, vars, ChangeLimit, NextMonth

\* Every row stands in that relation to its bill, at every moment.
THEOREM CostInvariant == Spec => []CostInv
<1>1. Init => CostInv
  <2>1. Init => TypeOK
    BY EmptyRows, SpendingAssumption DEF Init, TypeOK, Amounts
  <2>2. Init => \A c \in Calls : Reported(c)
    BY DEF Init, Reported, Recorded, NoCall, Unseen
  <2>3. Init => Recorded = {}
    BY DEF Init, Recorded, NoCall
  <2> QED
    BY <2>1, <2>2, <2>3 DEF Init, CostInv, EvidenceInv
<1> QED
  BY <1>1, CostStep, PTL DEF Spec

\* What the limit allows covers the bills of the calls that may have been sent.
LEMMA AllowedCoversBills ==
    ASSUME CostInv, NEW S, S \subseteq Recorded, NEW c \in S, call[c].state = "reserved",
           NEW cap \in Nat, Allows(cap, c, S, call[c].hold), Truthful(S),
           \A d \in Calls \ {c} : call'[d] = call[d]
    PROVE  Billed(S) <= cap
<1> DEFINE Others == S \ {c}
           Sent == {d \in S : call'[d].state # "reserved"}
           Rest == Sent \ {c}
           settledOf == [d \in Calls |-> call[d].settled]
           heldOf == [d \in Calls |-> call[d].hold]
           P == {d \in Others : call[d].state = "settled"}
           Q == {d \in Others : Active(d) /\ call[d].hold # None}
<1>1. TypeOK /\ \A d \in Calls : Reported(d)
  BY DEF CostInv, EvidenceInv
<1>2. S \subseteq Calls /\ IsFiniteSet(S)
  <2>1. S \subseteq Calls
    BY DEF Recorded
  <2> QED
    BY <2>1, SpendingAssumption, FS_Subset
<1>3. IsFiniteSet(Sent) /\ IsFiniteSet(Rest) /\ IsFiniteSet(P) /\ IsFiniteSet(Q)
  BY <1>2, FS_Subset
<1>4. /\ call[c].hold # None
      /\ \A d \in S : ~Incomplete(d)
      /\ SumFunctionOnSet(settledOf, P) + SumFunctionOnSet(heldOf, Q) + call[c].hold <= cap
  <2>1. Settled(S \ {c}) = SumFunctionOnSet(settledOf, P) /\ Held(S \ {c}) = SumFunctionOnSet(heldOf, Q)
    BY DEF Settled, Held
  <2>2. cap # None
    BY DEF None
  <2> HIDE DEF P, Q, settledOf, heldOf
  <2> QED
    BY <2>1, <2>2 DEF Allows
<1>5. \A d \in Calls : bill[d] \in Nat
  BY SpendingAssumption DEF TypeOK, Amounts, CostInv, EvidenceInv
<1>6. call[c].hold \in Nat /\ bill[c] <= call[c].hold
  <2>1. call[c].hold \in Nat
    BY <1>1, <1>2, <1>4, SpendingAssumption DEF TypeOK, CallRow, Maybe, Amounts
  <2>2. c \in Calls /\ c \in Recorded /\ Active(c)
    BY <1>2 DEF Active, Final
  <2> QED
    BY <1>1, <1>4, <2>1, <2>2 DEF Reported
<1>7. ASSUME NEW d \in P PROVE settledOf[d] \in Nat /\ bill[d] = settledOf[d]
  <2>1. d \in Calls /\ d \in S /\ call[d].state = "settled"
    BY <1>2
  <2>2. PICK e \in Evidence :
           /\ evidence[d][e].known
           /\ evidence[d][e].observation = [kind |-> "charge", amount |-> call[d].settled]
    BY <1>1, <2>1 DEF Reported
  <2>3. bill[d] = call[d].settled
    BY <2>1, <2>2 DEF Truthful, Agrees
  <2> QED
    BY <1>5, <2>1, <2>3
<1>8. ASSUME NEW d \in Q PROVE heldOf[d] \in Nat /\ bill[d] <= heldOf[d]
  <2>1. d \in Calls /\ d \in S /\ d \in Recorded /\ Active(d) /\ call[d].hold # None
    BY <1>2
  <2>2. call[d].hold \in Nat
    BY <1>1, <2>1, SpendingAssumption DEF TypeOK, CallRow, Maybe, Amounts
  <2> QED
    BY <1>1, <2>1, <2>2 DEF Reported
<1>9. ASSUME NEW d \in Rest, d \notin P, d \notin Q PROVE bill[d] = 0
  <2>1. d \in Calls /\ d \in S /\ d # c
    BY <1>2
  <2>2. call[d].state \in States \ {"absent"} /\ ~Incomplete(d)
    BY <1>1, <1>4, <2>1 DEF TypeOK, CallRow, Recorded
  <2>3. call[d].state = "released"
    BY <1>9, <2>1, <2>2 DEF States, Final, Active, Incomplete
  <2>4. PICK e \in Evidence :
           evidence[d][e].known /\ evidence[d][e].observation.kind = "not_billed"
    BY <1>1, <2>1, <2>3 DEF Reported
  <2> QED
    BY <2>1, <2>4 DEF Truthful, Agrees
<1>10. Billed(S) = SumFunctionOnSet(bill, Sent)
  BY DEF Billed
<1>11. Rest \subseteq Calls /\ Sent \subseteq Calls /\ (c \notin Sent => Rest = Sent)
  BY <1>2
<1>12. Rest = Sent \ {c} /\ c \in Calls
  BY <1>2
<1>13. P \cap Q = {}
  BY DEF Active, Final
<1> HIDE DEF Sent, Rest, P, Q, settledOf, heldOf
<1>14. SumFunctionOnSet(bill, Rest) <=
          SumFunctionOnSet(settledOf, Rest \cap P) + SumFunctionOnSet(heldOf, Rest \cap Q)
  <2>1. \A d \in Rest : bill[d] \in Nat /\ bill[d] <= Counted(settledOf, P, d) + Counted(heldOf, Q, d)
    BY <1>5, <1>7, <1>8, <1>9, <1>11, <1>13 DEF Counted
  <2>2. (\A d \in Rest \cap P : settledOf[d] \in Nat) /\ (\A d \in Rest \cap Q : heldOf[d] \in Nat)
    BY <1>7, <1>8
  <2> QED
    BY <1>3, <2>1, <2>2, SumCovered
<1>15. /\ SumFunctionOnSet(settledOf, P \cap Rest) <= SumFunctionOnSet(settledOf, P)
       /\ SumFunctionOnSet(heldOf, Q \cap Rest) <= SumFunctionOnSet(heldOf, Q)
  BY <1>3, <1>7, <1>8, SumMonotone
<1>16. Rest \cap P = P \cap Rest /\ Rest \cap Q = Q \cap Rest
  OBVIOUS
<1>17. SumFunctionOnSet(bill, Sent) <= bill[c] + SumFunctionOnSet(bill, Rest)
  <2>1. CASE c \in Sent
    <3>1. \A x \in Sent : bill[x] \in Nat
      BY <1>5, <1>11
    <3>2. SumFunctionOnSet(bill, Sent) = bill[c] + SumFunctionOnSet(bill, Sent \ {c})
      BY <1>3, <2>1, <3>1, SumWithout
    <3>3. SumFunctionOnSet(bill, Rest) \in Nat
      BY <1>3, <1>5, <1>11, SumType
    <3> QED
      BY <1>5, <1>12, <3>2, <3>3
  <2>2. CASE c \notin Sent
    <3>1. SumFunctionOnSet(bill, Rest) \in Nat
      BY <1>3, <1>5, <1>11, SumType
    <3> QED
      BY <1>5, <1>11, <1>12, <2>2, <3>1
  <2> QED
    BY <2>1, <2>2
<1>18. /\ SumFunctionOnSet(bill, Rest) \in Nat /\ SumFunctionOnSet(bill, Sent) \in Nat
       /\ SumFunctionOnSet(settledOf, P) \in Nat /\ SumFunctionOnSet(heldOf, Q) \in Nat
       /\ SumFunctionOnSet(settledOf, P \cap Rest) \in Nat
       /\ SumFunctionOnSet(heldOf, Q \cap Rest) \in Nat
  <2>1. IsFiniteSet(P \cap Rest) /\ IsFiniteSet(Q \cap Rest)
    BY <1>3, FS_Subset
  <2> QED
    BY <1>3, <1>5, <1>7, <1>8, <1>11, <2>1, SumType
<1>19. bill[c] \in Nat
  BY <1>5, <1>12
<1>20. SumFunctionOnSet(bill, Rest) <= SumFunctionOnSet(settledOf, P) + SumFunctionOnSet(heldOf, Q)
  <2>1. SumFunctionOnSet(bill, Rest) <=
           SumFunctionOnSet(settledOf, P \cap Rest) + SumFunctionOnSet(heldOf, Q \cap Rest)
    BY <1>14, <1>16
  <2> QED
    BY <1>15, <1>18, <2>1
<1>21. SumFunctionOnSet(bill, Sent) <= cap
  BY <1>4, <1>6, <1>17, <1>18, <1>19, <1>20
<1> QED
  BY <1>10, <1>21

\* At its approval a call, with every other call of the period or of the
\* operation that was let go, fits the limit at what it is truthfully billed
\* (_require_allowance, _totals_columns).
THEOREM ApprovalsFit == Spec => ApprovalFitsTrueCost
<1> DEFINE fits(c) ==
      LET inPeriod == InPeriod(call[c].period)
          inOperation == InOperation(OperationOf[c])
      IN  /\ limit # None /\ Truthful(inPeriod) => Billed(inPeriod) <= limit
          /\ opLimit[OperationOf[c]] # None /\ Truthful(inOperation) =>
                Billed(inOperation) <= opLimit[OperationOf[c]]
<1>1. ASSUME CostInv, [Next]_vars, NEW c \in Calls,
             call[c].state = "reserved", call'[c].state = "accounting_approved"
      PROVE  fits(c)
  <2>1. TypeOK
    BY <1>1 DEF CostInv, EvidenceInv
  <2>2. Approve(c)
    <3>1. ASSUME NEW d \in Calls, NEW m \in Maybe, NEW l \in Limits \cup {None},
                 NEW cost \in Amounts, Reserve(d, m, l, cost)
          PROVE  FALSE
      BY <1>1, <2>1, <3>1 DEF TypeOK, Reserve, NoCall
    <3>2. ASSUME NEW d \in Calls, Approve(d) PROVE d = c
      BY <1>1, <2>1, <3>2 DEF TypeOK, Approve
    <3>3. ASSUME NEW d \in Calls, NEW e \in Evidence, NEW owned \in BOOLEAN, NEW o \in Reports(d),
                 RecordObservation(d, e, o, owned)
          PROVE  FALSE
      <4>1. d = c
        BY <1>1, <2>1, <3>3, RecordFacts
      <4>2. call'[c] = Applied(call[c], o)
        BY <1>1, <2>1, <3>3, <4>1, RecordOutcome
      <4>3. call[c] \in CallRow /\ call[c].state # "absent"
        BY <1>1, <2>1 DEF TypeOK
      <4>4. Applied(call[c], o).state # "accounting_approved"
        BY <3>3, <4>1, <4>3, AppliedOutcome, <1>1 DEF Final
      <4> QED
        BY <1>1, <4>2, <4>4
    <3>4. ASSUME NEW d \in Calls, NEW p \in Evidence, NEW a \in Evidence, Reconcile(d, p, a)
          PROVE  FALSE
      <4>1. d = c
        BY <1>1, <2>1, <3>4, ReconcileFacts
      <4>2. call'[c] = Applied(call[c], evidence[c][a].observation) /\ evidence[c][a].known
        BY <1>1, <2>1, <3>4, <4>1, ReconcileOutcome
      <4>3. call[c] \in CallRow /\ call[c].state # "absent"
        BY <1>1, <2>1 DEF TypeOK
      <4>4. evidence[c][a].observation \in Reports(c)
        BY <1>1, <4>2 DEF CostInv, Reported
      <4>5. Applied(call[c], evidence[c][a].observation).state # "accounting_approved"
        BY <4>3, <4>4, AppliedOutcome, <1>1 DEF Final
      <4> QED
        BY <1>1, <4>2, <4>5
    <3>5. ~UNCHANGED call
      BY <1>1
    <3> QED
      BY <1>1, <3>1, <3>2, <3>3, <3>4, <3>5 DEF Next, vars, ChangeLimit, NextMonth
  <2>3. \A d \in Calls \ {c} : call'[d] = call[d]
    BY <2>1, <2>2 DEF TypeOK, Approve
  <2>4. /\ Allows(limit, c, InPeriod(call[c].period), call[c].hold)
        /\ Allows(opLimit[OperationOf[c]], c, InOperation(OperationOf[c]), call[c].hold)
    BY <2>2 DEF Approve, Allowance
  <2>5. /\ c \in InPeriod(call[c].period) /\ InPeriod(call[c].period) \subseteq Recorded
        /\ c \in InOperation(OperationOf[c]) /\ InOperation(OperationOf[c]) \subseteq Recorded
    BY <1>1 DEF InPeriod, InOperation, Recorded
  <2>6. ASSUME limit # None, Truthful(InPeriod(call[c].period))
        PROVE  Billed(InPeriod(call[c].period)) <= limit
    <3>1. limit \in Nat
      BY <2>1, <2>6, SpendingAssumption DEF TypeOK
    <3> QED
      BY <1>1, <2>3, <2>4, <2>5, <2>6, <3>1, AllowedCoversBills
  <2>7. ASSUME opLimit[OperationOf[c]] # None, Truthful(InOperation(OperationOf[c]))
        PROVE  Billed(InOperation(OperationOf[c])) <= opLimit[OperationOf[c]]
    <3>1. opLimit[OperationOf[c]] \in Nat
      <4>1. c \in Recorded
        BY <2>5
      <4>2. opLimit[OperationOf[c]] # Unset
        BY <1>1, <4>1 DEF CostInv
      <4>3. OperationOf[c] \in Operations
        BY SpendingAssumption
      <4> QED
        BY <2>1, <2>7, <4>2, <4>3, SpendingAssumption DEF TypeOK
    <3> QED
      BY <1>1, <2>3, <2>4, <2>5, <2>7, <3>1, AllowedCoversBills
  <2> QED
    BY <2>6, <2>7
<1>2. CostInv /\ [Next]_vars =>
         [\A c \in Calls :
            call[c].state = "reserved" /\ call'[c].state = "accounting_approved" =>
               LET inPeriod == InPeriod(call[c].period)
                   inOperation == InOperation(OperationOf[c])
               IN  /\ limit # None /\ Truthful(inPeriod) => Billed(inPeriod) <= limit
                   /\ opLimit[OperationOf[c]] # None /\ Truthful(inOperation) =>
                         Billed(inOperation) <= opLimit[OperationOf[c]]]_vars
  BY <1>1
<1> QED
  BY <1>2, CostInvariant, PTL DEF Spec, ApprovalFitsTrueCost

-----------------------------------------------------------------------------
(* The allocation of staging space, for every number of clients and names, *)
(* every size and every limit.                                             *)

\* The ledger's own ceilings, without the sums it stands for.
CeilingsHold == ledger.spool <= SpoolLimit /\ ledger.protected <= ProtectedLimit

\* What a call has read is never better than what others leave now; only the
\* bytes reserved here can have taken from it, and no bytes are ever counted
\* as occupied.
ReadingsAreModest ==
    /\ ledger.occupied = 0
    /\ \A c \in Clients : reading[c] # NoReading => reading[c].free <= Usable - foreign

AllocationInv == AllocationTypeOK /\ CeilingsHold /\ ReadingsAreModest /\ FloorKept /\ BytesAreOwned

\* The empty rows are no rows.
LEMMA NullFacts ==
    /\ NoReservation \notin Reservation
    /\ NoObligation \notin Obligation
    /\ NoReading \notin Reading
<1>1. NoReservation \notin Reservation
  BY CapacityAssumption DEF NoReservation, Reservation
<1>2. NoObligation \notin Obligation
  BY CapacityAssumption DEF NoObligation, Obligation
<1>3. -1 \notin Backups
  BY CapacityAssumption
<1>4. NoReading \notin Reading
  BY <1>3 DEF NoReading, Reading
<1> QED
  BY <1>1, <1>2, <1>4

\* A call that fits leaves the ledger within its ceilings, and the floor holds
\* of what it will have reserved.
LEMMA FitsFacts ==
    ASSUME NEW seen \in Reading, NEW bytes \in ByteLimits,
           ledger \in Ledger, ledger.occupied = 0, foreign \in 0 .. Usable,
           seen.free <= Usable - foreign,
           Fits(seen, bytes)
    PROVE  /\ ledger.spool + bytes <= SpoolLimit
           /\ ledger.protected + 2 * bytes <= ProtectedLimit
           /\ (Usable - foreign - 2 * (ledger.protected + 2 * bytes)) * 5 >= Usable
<1> DEFINE p == ledger.protected
           projected == p + 2 * bytes
           backup == IF seen.backup > projected THEN seen.backup ELSE projected
<1>1. p \in Nat /\ bytes \in Nat /\ seen.free \in Int /\ seen.backup \in Int /\ Usable \in Nat
  <2>1. p \in Nat
    BY DEF Ledger
  <2>2. bytes \in Nat /\ Usable \in Nat
    BY CapacityAssumption
  <2>3. seen.free \in 0 .. Usable /\ seen.backup \in Backups
    BY DEF Reading
  <2>4. seen.backup \in Nat
    BY <2>3, CapacityAssumption
  <2> QED
    BY <2>1, <2>2, <2>3, <2>4
<1>2. backup \in Int /\ backup >= projected
  BY <1>1
<1>3. (seen.free - (p - 0) - 2 * bytes - backup) * 5 >= Usable
  BY DEF Fits, ProjectedFree
<1> HIDE DEF p, backup
<1>4. (Usable - foreign - 2 * (p + 2 * bytes)) * 5 >= Usable
  BY <1>1, <1>2, <1>3
<1> QED
  BY <1>4 DEF Fits, p

\* The installation starts with nothing reserved.
LEMMA AllocationInitInv == AllocationInit => AllocationInv
<1> SUFFICES ASSUME AllocationInit PROVE AllocationInv
  OBVIOUS
<1>1. 0 <= SpoolLimit /\ 0 <= ProtectedLimit
  BY CapacityAssumption
<1>2. Reserved = {}
  BY DEF AllocationInit, Reserved
<1>3. AllocationTypeOK
  BY CapacityAssumption DEF AllocationInit, AllocationTypeOK, Ledger
<1>4. CeilingsHold /\ ReadingsAreModest /\ FloorKept
  BY <1>1, <1>2 DEF AllocationInit, CeilingsHold, ReadingsAreModest, FloorKept
<1>5. BytesAreOwned
  BY <1>2 DEF AllocationInit, BytesAreOwned
<1> QED
  BY <1>3, <1>4, <1>5 DEF AllocationInv

\* What an allocation finds: its reservation and obligation are both new or both
\* the original ones, and bytes are charged in the first case only.
LEMMA AllocateFacts ==
    ASSUME AllocationInv, NEW c \in Clients, NEW s \in Reservations, NEW a \in Attempts,
           NEW o \in Obligations, NEW origin \in Origins, NEW bytes \in ByteLimits,
           Allocate(c, s, a, o, origin, bytes)
    PROVE  \/ /\ s \in Reserved
              /\ ledger' = ledger
              /\ staging' = staging
              /\ obligation' = obligation
              /\ job' = job
           \/ /\ s \notin Reserved
              /\ a \notin Staged
              /\ obligation[o] = NoObligation
              /\ \A other \in Obligations : obligation[other].target # a
              /\ Fits(reading[c], bytes)
              /\ ledger' = [ledger EXCEPT !.spool = @ + bytes, !.protected = @ + 2 * bytes]
<1>1. AllocationTypeOK /\ BytesAreOwned
  BY DEF AllocationInv
<1>2. [attempt |-> a, limit |-> bytes] \in Reservation
  BY DEF Reservation
<1>3. [target |-> a, origin |-> origin] \in Obligation
  BY DEF Obligation
<1>4. CASE Repeats(s, a, bytes)
  <2>1. s \in Reserved
    BY <1>2, <1>4, NullFacts DEF Repeats, Reserved
  <2>2. \E other \in Obligations : obligation[other].target = a
    BY <1>1, <1>4, <2>1 DEF BytesAreOwned, Repeats
  <2>3. SameObligation(o, a, origin)
    BY <2>2 DEF Allocate, Permitted, NewObligation
  <2>4. staging' = staging /\ obligation' = obligation
    BY <1>1, <1>4, <2>3 DEF Allocate, Repeats, SameObligation, AllocationTypeOK
  <2>5. \E other \in Obligations : obligation[other].target = a /\ job[other] # "absent"
    BY <1>1, <1>4, <2>1 DEF BytesAreOwned, Repeats
  <2>6. job[o] # "absent"
    BY <1>1, <1>3, <2>3, <2>5, NullFacts DEF BytesAreOwned, SameObligation
  <2>7. job' = job
    BY <1>1, <2>6 DEF Allocate, AllocationTypeOK
  <2> QED
    BY <2>1, <2>4, <2>7 DEF Allocate, Charged
<1>5. CASE ~Repeats(s, a, bytes)
  <2>1. NewReservation(reading[c], s, a, bytes)
    BY <1>5 DEF Allocate, Permitted
  <2>2. s \notin Reserved
    BY <2>1 DEF NewReservation, Reserved
  <2>3. ~SameObligation(o, a, origin)
    BY <1>1, <1>3, <2>1, NullFacts DEF SameObligation, BytesAreOwned, NewReservation
  <2>4. NewObligation(o, a, origin, bytes)
    BY <2>3 DEF Allocate, Permitted
  <2> QED
    BY <2>1, <2>2, <2>4 DEF NewReservation, NewObligation, Allocate, Charged
<1> QED
  BY <1>4, <1>5

\* An allocation keeps the invariant, new or repeated.
LEMMA AllocateInv ==
    ASSUME AllocationInv, NEW c \in Clients, NEW s \in Reservations, NEW a \in Attempts,
           NEW o \in Obligations, NEW origin \in Origins, NEW bytes \in ByteLimits,
           Allocate(c, s, a, o, origin, bytes)
    PROVE  AllocationInv'
<1>1. AllocationTypeOK /\ CeilingsHold /\ ReadingsAreModest /\ FloorKept /\ BytesAreOwned
  BY DEF AllocationInv
<1>2. bytes \in Nat /\ SpoolLimit \in Nat /\ ProtectedLimit \in Nat /\ Usable \in Nat
  BY CapacityAssumption
<1>3. UNCHANGED <<active, copies, foreign>>
  BY DEF Allocate
<1>4. reading[c] \in Reading /\ reading[c].free <= Usable - foreign
  BY <1>1 DEF Allocate, AllocationTypeOK, ReadingsAreModest
<1> DEFINE row == [attempt |-> a, limit |-> bytes]
           duty == [target |-> a, origin |-> origin]
<1>5. row \in Reservation /\ duty \in Obligation
  BY DEF Reservation, Obligation
<1>6. \/ ledger' = ledger /\ Reserved' = Reserved
      \/ /\ ledger' = [ledger EXCEPT !.spool = @ + bytes, !.protected = @ + 2 * bytes]
         /\ Fits(reading[c], bytes)
  <2>1. \/ ledger' = ledger /\ staging' = staging
        \/ /\ ledger' = [ledger EXCEPT !.spool = @ + bytes, !.protected = @ + 2 * bytes]
           /\ Fits(reading[c], bytes)
    BY AllocateFacts
  <2> QED
    BY <2>1 DEF Reserved
<1>7. ledger' \in Ledger /\ ledger'.occupied = 0
  <2>1. ledger \in Ledger /\ ledger.occupied = 0
    BY <1>1 DEF AllocationTypeOK, ReadingsAreModest
  <2>2. ledger.spool + bytes \in Nat /\ ledger.protected + 2 * bytes \in Nat
    BY <1>2, <2>1 DEF Ledger
  <2>3. ledger' = ledger \/ ledger' = [ledger EXCEPT !.spool = @ + bytes, !.protected = @ + 2 * bytes]
    BY <1>6
  <2> QED
    BY <2>1, <2>2, <2>3 DEF Ledger
<1>8. AllocationTypeOK'
  BY <1>1, <1>3, <1>5, <1>7 DEF Allocate, AllocationTypeOK
<1>9. CeilingsHold' /\ FloorKept'
  <2>1. CASE ledger' = ledger /\ Reserved' = Reserved
    BY <1>1, <1>3, <2>1 DEF CeilingsHold, FloorKept
  <2>2. CASE /\ ledger' = [ledger EXCEPT !.spool = @ + bytes, !.protected = @ + 2 * bytes]
             /\ Fits(reading[c], bytes)
    <3>1. ledger \in Ledger /\ ledger.occupied = 0 /\ foreign \in 0 .. Usable
      BY <1>1 DEF AllocationTypeOK, ReadingsAreModest
    <3>2. /\ ledger.spool + bytes <= SpoolLimit
          /\ ledger.protected + 2 * bytes <= ProtectedLimit
          /\ (Usable - foreign - 2 * (ledger.protected + 2 * bytes)) * 5 >= Usable
      BY <1>4, <2>2, <3>1, FitsFacts
    <3>3. ledger'.spool = ledger.spool + bytes /\ ledger'.protected = ledger.protected + 2 * bytes
      BY <2>2, <3>1 DEF Ledger
    <3> QED
      BY <1>3, <3>2, <3>3 DEF CeilingsHold, FloorKept
  <2> QED
    BY <1>6, <2>1, <2>2
<1>10. ReadingsAreModest'
  BY <1>1, <1>3, <1>7 DEF Allocate, ReadingsAreModest, AllocationTypeOK
<1>11. BytesAreOwned'
  <2>1. CASE staging' = staging /\ obligation' = obligation /\ job' = job
    BY <1>1, <1>3, <2>1 DEF BytesAreOwned, Reserved, Staged
  <2>2. CASE /\ s \notin Reserved
             /\ a \notin Staged
             /\ obligation[o] = NoObligation
             /\ \A other \in Obligations : obligation[other].target # a
    <3>1. /\ staging' = [staging EXCEPT ![s] = row]
          /\ obligation' = [obligation EXCEPT ![o] = duty]
          /\ job' = [job EXCEPT ![o] = IF @ = "absent" THEN "live" ELSE @]
      BY DEF Allocate
    <3>2. /\ \A t \in Reservations : staging'[t] = IF t = s THEN row ELSE staging[t]
          /\ \A x \in Obligations : obligation'[x] = IF x = o THEN duty ELSE obligation[x]
          /\ \A x \in Obligations : x # o => job'[x] = job[x]
          /\ job'[o] # "absent"
      BY <1>1, <3>1 DEF AllocationTypeOK
    <3>3. Reserved' = Reserved \cup {s}
      BY <1>5, <3>2, NullFacts DEF Reserved
    <3>4. Staged' = Staged \cup {a}
      BY <2>2, <3>2, <3>3 DEF Staged, Reserved
    <3>5. \A x \in Obligations : obligation[x].target # a
      BY <2>2
    <3>6. \A t \in Reserved' : \E x \in Obligations :
              obligation'[x].target = staging'[t].attempt /\ job'[x] # "absent"
      <4> SUFFICES ASSUME NEW t \in Reserved'
                   PROVE  \E x \in Obligations :
                              obligation'[x].target = staging'[t].attempt /\ job'[x] # "absent"
        OBVIOUS
      <4>1. CASE t = s
        BY <3>2, <4>1
      <4>2. CASE t # s
        <5>1. PICK x \in Obligations :
                  obligation[x].target = staging[t].attempt /\ job[x] # "absent"
          BY <1>1, <3>3, <4>2 DEF BytesAreOwned
        <5>2. staging[t].attempt \in Attempts
          BY <1>1, <3>3, <4>2 DEF AllocationTypeOK, Reserved, Reservation
        <5>3. x # o
          BY <2>2, <5>1, <5>2, CapacityAssumption DEF NoObligation
        <5> QED
          BY <3>2, <3>3, <4>2, <5>1, <5>3 DEF Reserved
      <4> QED
        BY <4>1, <4>2
    <3>7. \A x, other \in Obligations :
              obligation'[x] # NoObligation /\ obligation'[x].target = obligation'[other].target
                  => x = other
      BY <1>1, <2>2, <3>2 DEF BytesAreOwned
    <3>8. \A x \in Obligations : obligation'[x] # NoObligation => obligation'[x].target \in Staged'
      BY <1>1, <3>2, <3>4 DEF BytesAreOwned
    <3>9. \A b \in Attempts : copies'[b] > 0 => b \in Staged'
      BY <1>1, <1>3, <3>4 DEF BytesAreOwned
    <3> QED
      BY <3>6, <3>7, <3>8, <3>9 DEF BytesAreOwned
  <2> QED
    BY <2>1, <2>2, AllocateFacts
<1> QED
  BY <1>8, <1>9, <1>10, <1>11 DEF AllocationInv

\* So does every step.
LEMMA AllocationStepInv == AllocationInv /\ [AllocationNext]_allocationVars => AllocationInv'
<1> SUFFICES ASSUME AllocationInv, [AllocationNext]_allocationVars PROVE AllocationInv'
  OBVIOUS
<1>1. AllocationTypeOK /\ CeilingsHold /\ ReadingsAreModest /\ FloorKept /\ BytesAreOwned
  BY DEF AllocationInv
<1> USE DEF CeilingsHold, FloorKept, Reserved, Staged
<1>2. CASE \E c \in Clients : ReadCapacity(c)
  <2>1. PICK c \in Clients : ReadCapacity(c)
    BY <1>2
  <2>2. PICK free \in 0 .. Usable - foreign, b \in Backups :
            reading' = [reading EXCEPT ![c] = [free |-> free, backup |-> b]]
    BY <2>1 DEF ReadCapacity
  <2>3. free \in 0 .. Usable /\ free <= Usable - foreign
    BY <1>1, CapacityAssumption DEF AllocationTypeOK
  <2>4. [free |-> free, backup |-> b] \in Reading
    BY <2>3 DEF Reading
  <2>5. AllocationTypeOK'
    BY <1>1, <2>1, <2>2, <2>4 DEF ReadCapacity, AllocationTypeOK
  <2>6. ReadingsAreModest'
    BY <1>1, <2>1, <2>2, <2>3 DEF ReadCapacity, ReadingsAreModest, AllocationTypeOK
  <2> QED
    BY <1>1, <2>1, <2>5, <2>6 DEF ReadCapacity, AllocationInv, BytesAreOwned
<1>3. CASE \E c \in Clients, s \in Reservations, a \in Attempts, o \in Obligations,
              origin \in Origins, bytes \in ByteLimits :
               \/ Allocate(c, s, a, o, origin, bytes)
               \/ Reject(c, s, a, o, origin, bytes)
  <2>1. PICK c \in Clients, s \in Reservations, a \in Attempts, o \in Obligations,
             origin \in Origins, bytes \in ByteLimits :
               \/ Allocate(c, s, a, o, origin, bytes)
               \/ Reject(c, s, a, o, origin, bytes)
    BY <1>3
  <2>2. CASE Allocate(c, s, a, o, origin, bytes)
    BY <2>2, AllocateInv
  <2>3. CASE Reject(c, s, a, o, origin, bytes)
    BY <1>1, <2>3 DEF Reject, AllocationInv, AllocationTypeOK, ReadingsAreModest, BytesAreOwned
  <2> QED
    BY <2>1, <2>2, <2>3
<1>4. CASE \E a \in Attempts : Write(a) \/ Erase(a)
  <2>1. PICK a \in Attempts : Write(a) \/ Erase(a)
    BY <1>4
  <2>2. copies' \in [Attempts -> 0 .. 2]
    BY <1>1, <2>1 DEF Write, Erase, AllocationTypeOK
  <2>3. \A b \in Attempts : copies'[b] > 0 => b \in Staged
    BY <1>1, <2>1 DEF Write, Erase, AllocationTypeOK, BytesAreOwned
  <2>4. UNCHANGED <<ledger, staging, obligation, job, active, reading, foreign>>
    BY <2>1 DEF Write, Erase
  <2> QED
    BY <1>1, <2>2, <2>3, <2>4 DEF AllocationInv, AllocationTypeOK, ReadingsAreModest, BytesAreOwned
<1>5. CASE \E o \in Obligations : EndJob(o)
  BY <1>1, <1>5 DEF EndJob, AllocationInv, AllocationTypeOK, ReadingsAreModest, BytesAreOwned
<1>6. CASE Deactivate
  <2>1. active' \in BOOLEAN
    BY <1>6 DEF Deactivate
  <2>2. UNCHANGED <<ledger, staging, obligation, job, reading, copies, foreign>>
    BY <1>6 DEF Deactivate
  <2> QED
    BY <1>1, <2>1, <2>2 DEF AllocationInv, AllocationTypeOK, ReadingsAreModest, BytesAreOwned
<1>7. CASE Shrink
  <2>1. foreign' \in 0 .. Usable /\ foreign' <= foreign
    BY <1>1, <1>7, CapacityAssumption DEF Shrink, AllocationTypeOK
  <2>2. UNCHANGED <<ledger, staging, obligation, job, active, reading, copies>>
    BY <1>7 DEF Shrink
  <2>3. AllocationTypeOK' /\ BytesAreOwned' /\ CeilingsHold'
    BY <1>1, <2>1, <2>2 DEF AllocationTypeOK, BytesAreOwned
  <2>4. ReadingsAreModest'
    <3> SUFFICES ASSUME NEW c \in Clients, reading[c] # NoReading
                 PROVE  reading[c].free <= Usable - foreign'
      BY <1>1, <2>2 DEF ReadingsAreModest
    <3>1. reading[c].free \in Int /\ reading[c].free <= Usable - foreign
      BY <1>1 DEF AllocationTypeOK, Reading, ReadingsAreModest
    <3> QED
      BY <1>1, <2>1, <3>1, CapacityAssumption DEF AllocationTypeOK
  <2>5. FloorKept'
    BY <1>1, <2>1, <2>2, CapacityAssumption DEF AllocationTypeOK, Ledger
  <2> QED
    BY <2>3, <2>4, <2>5 DEF AllocationInv
<1>8. CASE UNCHANGED allocationVars
  BY <1>1, <1>8 DEF allocationVars, AllocationInv, AllocationTypeOK, ReadingsAreModest, BytesAreOwned
<1> QED
  BY <1>2, <1>3, <1>4, <1>5, <1>6, <1>7, <1>8 DEF AllocationNext

\* The strengthening of the invariants is inductive.
THEOREM Invariance == AllocationSpec => []AllocationInv
<1> QED
  BY AllocationInitInv, AllocationStepInv, PTL DEF AllocationSpec

\* Every table holds rows of its kind.
THEOREM TypesHold == AllocationSpec => []AllocationTypeOK
<1>1. AllocationInv => AllocationTypeOK
  BY DEF AllocationInv
<1> QED
  BY <1>1, Invariance, PTL

\* Whatever calls read before others reserved and wrote, a fifth of the disk
\* stays free for good, even with every reserved byte written and backed up.
THEOREM FloorHolds == AllocationSpec => []FloorKept
<1>1. AllocationInv => FloorKept
  BY DEF AllocationInv
<1> QED
  BY <1>1, Invariance, PTL

\* Every reserved attempt has exactly one obligation, with an admitted job, and
\* nothing is written without a reservation.
THEOREM OwnersHold == AllocationSpec => []BytesAreOwned
<1>1. AllocationInv => BytesAreOwned
  BY DEF AllocationInv
<1> QED
  BY <1>1, Invariance, PTL

\* Reservations and obligations are final, and a retry is not charged.
THEOREM RetriesAreFree == AllocationSpec => AllocationsAreFinal
<1> DEFINE Free ==
        /\ \A s \in Reserved : staging'[s] = staging[s]
        /\ \A o \in Obligations : obligation[o] # NoObligation => obligation'[o] = obligation[o]
        /\ ledger' # ledger =>
               \E s \in Reservations \ Reserved :
                   /\ staging' = [staging EXCEPT ![s] = staging'[s]]
                   /\ ledger'.spool = ledger.spool + staging'[s].limit
                   /\ ledger'.protected = ledger.protected + 2 * staging'[s].limit
<1>1. AllocationInv /\ [AllocationNext]_allocationVars => [Free]_allocationVars
  <2> SUFFICES ASSUME AllocationInv, AllocationNext PROVE Free
    OBVIOUS
  <2>1. AllocationTypeOK
    BY DEF AllocationInv
  <2>2. ASSUME NEW c \in Clients, NEW s \in Reservations, NEW a \in Attempts,
               NEW o \in Obligations, NEW origin \in Origins, NEW bytes \in ByteLimits,
               Allocate(c, s, a, o, origin, bytes)
        PROVE  Free
    <3>1. CASE s \in Reserved
      BY <2>2, <3>1, AllocateFacts DEF Reserved
    <3>2. CASE s \notin Reserved
      <4>1. /\ obligation[o] = NoObligation
            /\ ledger' = [ledger EXCEPT !.spool = @ + bytes, !.protected = @ + 2 * bytes]
        BY <2>2, <3>2, AllocateFacts
      <4>2. /\ staging' = [staging EXCEPT ![s] = [attempt |-> a, limit |-> bytes]]
            /\ obligation' = [obligation EXCEPT ![o] = [target |-> a, origin |-> origin]]
        BY <2>2 DEF Allocate
      <4>3. staging'[s] = [attempt |-> a, limit |-> bytes]
        BY <2>1, <4>2 DEF AllocationTypeOK
      <4>4. \A t \in Reserved : staging'[t] = staging[t]
        BY <2>1, <3>2, <4>2 DEF AllocationTypeOK, Reserved
      <4>5. \A x \in Obligations : obligation[x] # NoObligation => obligation'[x] = obligation[x]
        BY <2>1, <4>1, <4>2 DEF AllocationTypeOK
      <4>6. /\ ledger'.spool = ledger.spool + staging'[s].limit
            /\ ledger'.protected = ledger.protected + 2 * staging'[s].limit
        BY <2>1, <4>1, <4>3 DEF AllocationTypeOK, Ledger
      <4>7. staging' = [staging EXCEPT ![s] = staging'[s]]
        BY <4>2, <4>3
      <4> QED
        BY <3>2, <4>4, <4>5, <4>6, <4>7
    <3> QED
      BY <3>1, <3>2
  <2>3. ASSUME UNCHANGED <<ledger, staging, obligation>> PROVE Free
    BY <2>3 DEF Reserved
  <2> HIDE DEF Free
  <2> QED
    BY <2>2, <2>3 DEF AllocationNext, ReadCapacity, Reject, Write, Erase, EndJob, Deactivate, Shrink
<1>2. (AllocationInv /\ [AllocationNext]_allocationVars =>
         [/\ \A s \in Reserved : staging'[s] = staging[s]
          /\ \A o \in Obligations : obligation[o] # NoObligation => obligation'[o] = obligation[o]
          /\ ledger' # ledger =>
                 \E s \in Reservations \ Reserved :
                     /\ staging' = [staging EXCEPT ![s] = staging'[s]]
                     /\ ledger'.spool = ledger.spool + staging'[s].limit
                     /\ ledger'.protected = ledger.protected + 2 * staging'[s].limit]_allocationVars)
  BY <1>1
<1> QED
  BY <1>2, Invariance, PTL DEF AllocationSpec, AllocationsAreFinal

\* What the two copies of every reserved attempt may occupy is what the ledger
\* protects.
Charges ==
    /\ ledger.spool = SumFunctionOnSet(Sizes, Reserved)
    /\ ledger.protected = 2 * ledger.spool
    /\ ledger.spool = SumFunctionOnSet([a \in Attempts |-> LimitOf(a)], Staged)

SumsInv == AllocationInv /\ Charges /\ OperationWithinAllowance

\* The sets summed over are finite and what is summed is a number.
LEMMA SizeFacts ==
    ASSUME AllocationTypeOK
    PROVE  /\ IsFiniteSet(Reserved) /\ IsFiniteSet(Staged)
           /\ \A s \in Reserved : Sizes[s] \in Nat /\ Sizes[s] = staging[s].limit
           /\ Staged \subseteq Attempts
           /\ \A a : LimitOf(a) \in Nat
<1>1. IsFiniteSet(Reserved)
  BY CapacityAssumption, FS_Subset DEF Reserved
<1>2. IsFiniteSet(Staged)
  <2>1. [s \in Reserved |-> staging[s].attempt] \in Surjection(Reserved, Staged)
    BY DEF Staged, Surjection
  <2> QED
    BY <1>1, <2>1, FS_Surjection
<1>3. \A s \in Reserved : staging[s] \in Reservation
  BY DEF AllocationTypeOK, Reserved
<1>4. \A s \in Reserved : Sizes[s] \in Nat /\ Sizes[s] = staging[s].limit
  BY <1>3, CapacityAssumption DEF Sizes, Reservation, Reserved
<1>5. Staged \subseteq Attempts
  BY <1>3 DEF Staged, Reservation
<1>6. ASSUME NEW a PROVE LimitOf(a) \in Nat
  <2>1. IsFiniteSet({s \in Reserved : staging[s].attempt = a})
    BY <1>1, FS_Subset
  <2> QED
    BY <1>4, <2>1, SumType DEF LimitOf
<1> QED
  BY <1>1, <1>2, <1>4, <1>5, <1>6

\* A reservation leaves the space of every other attempt as it was.
LEMMA LimitsAfterReserving ==
    ASSUME AllocationTypeOK, NEW s \in Reservations, s \notin Reserved,
           NEW a \in Attempts, a \notin Staged, NEW bytes \in ByteLimits,
           staging' = [staging EXCEPT ![s] = [attempt |-> a, limit |-> bytes]]
    PROVE  /\ Reserved' = Reserved \cup {s}
           /\ Staged' = Staged \cup {a}
           /\ Sizes'[s] = bytes
           /\ \A t \in Reserved : Sizes'[t] = Sizes[t]
           /\ LimitOf(a)' = bytes
           /\ \A b : b # a => LimitOf(b)' = LimitOf(b)
<1>1. \A t \in Reservations :
         staging'[t] = IF t = s THEN [attempt |-> a, limit |-> bytes] ELSE staging[t]
  BY DEF AllocationTypeOK
<1>2. [attempt |-> a, limit |-> bytes] # NoReservation
  <2>1. [attempt |-> a, limit |-> bytes] \in Reservation
    BY DEF Reservation
  <2> QED
    BY <2>1, NullFacts
<1>3. Reserved' = Reserved \cup {s}
  BY <1>1, <1>2 DEF Reserved
<1>4. Staged' = Staged \cup {a}
  BY <1>1, <1>3 DEF Staged, Reserved
<1>5. Sizes'[s] = bytes /\ \A t \in Reserved : Sizes'[t] = Sizes[t]
  BY <1>1 DEF Sizes, Reserved
<1>6. IsFiniteSet(Reserved)
  BY SizeFacts
<1>7. LimitOf(a)' = bytes
  <2>1. {t \in Reserved' : staging'[t].attempt = a} = {s}
    <3>1. \A t \in Reserved : staging[t].attempt # a
      BY DEF Staged
    <3> QED
      BY <1>1, <1>3, <3>1 DEF Reserved
  <2>2. SumFunctionOnSet(Sizes', {s}) = Sizes'[s]
    <3>1. IsFiniteSet({}) /\ {s} = {} \cup {s} /\ s \notin {}
      BY FS_EmptySet
    <3>2. \A x \in {s} : Sizes'[x] \in Nat
      BY <1>5, CapacityAssumption
    <3>3. SumFunctionOnSet(Sizes', {} \cup {s}) = Sizes'[s] + SumFunctionOnSet(Sizes', {})
      BY <3>1, <3>2, SumInsert
    <3>4. SumFunctionOnSet(Sizes', {}) = 0
      BY SumEmpty
    <3> QED
      BY <1>5, <3>1, <3>3, <3>4, CapacityAssumption
  <2> QED
    BY <1>5, <2>1, <2>2 DEF LimitOf
<1>8. ASSUME NEW b, b # a PROVE LimitOf(b)' = LimitOf(b)
  <2> DEFINE T == {t \in Reserved : staging[t].attempt = b}
  <2>1. {t \in Reserved' : staging'[t].attempt = b} = T
    BY <1>1, <1>3, <1>8 DEF Reserved
  <2>2. IsFiniteSet(T)
    BY <1>6, FS_Subset
  <2>3. \A t \in T : Sizes'[t] = Sizes[t]
    BY <1>5
  <2>4. SumFunctionOnSet(Sizes', T) = SumFunctionOnSet(Sizes, T)
    BY <2>2, <2>3, SumCongruence
  <2> QED
    BY <2>1, <2>4 DEF LimitOf
<1> QED
  BY <1>3, <1>4, <1>5, <1>7, <1>8

\* A new reservation is charged once, in the ledger and in both sums.
LEMMA ChargesStep ==
    ASSUME AllocationTypeOK, Charges, NEW s \in Reservations, s \notin Reserved,
           NEW a \in Attempts, a \notin Staged, NEW bytes \in ByteLimits,
           staging' = [staging EXCEPT ![s] = [attempt |-> a, limit |-> bytes]],
           ledger' = [ledger EXCEPT !.spool = @ + bytes, !.protected = @ + 2 * bytes]
    PROVE  Charges'
<1> DEFINE Spaces == [b \in Attempts |-> LimitOf(b)]
<1>1. /\ Reserved' = Reserved \cup {s}
      /\ Staged' = Staged \cup {a}
      /\ Sizes'[s] = bytes
      /\ \A t \in Reserved : Sizes'[t] = Sizes[t]
      /\ LimitOf(a)' = bytes
      /\ \A b : b # a => LimitOf(b)' = LimitOf(b)
  BY LimitsAfterReserving
<1>2. /\ IsFiniteSet(Reserved) /\ IsFiniteSet(Staged) /\ Staged \subseteq Attempts
      /\ \A t \in Reserved : Sizes[t] \in Nat
      /\ \A b : LimitOf(b) \in Nat
  BY SizeFacts
<1>3. bytes \in Nat /\ ledger.spool \in Nat /\ ledger.protected \in Nat
  BY CapacityAssumption DEF AllocationTypeOK, Ledger
<1>4. ledger'.spool = ledger.spool + bytes /\ ledger'.protected = ledger.protected + 2 * bytes
  BY DEF AllocationTypeOK, Ledger
<1>5. SumFunctionOnSet(Sizes', Reserved') = bytes + SumFunctionOnSet(Sizes, Reserved)
  <2>1. \A t \in Reserved \cup {s} : Sizes'[t] \in Nat
    BY <1>1, <1>2, <1>3
  <2>2. SumFunctionOnSet(Sizes', Reserved \cup {s}) = Sizes'[s] + SumFunctionOnSet(Sizes', Reserved)
    BY <1>2, <2>1, SumInsert
  <2>3. SumFunctionOnSet(Sizes', Reserved) = SumFunctionOnSet(Sizes, Reserved)
    BY <1>1, <1>2, SumCongruence
  <2> QED
    BY <1>1, <2>2, <2>3
<1>6. SumFunctionOnSet(Spaces', Staged') = bytes + SumFunctionOnSet(Spaces, Staged)
  <2>1. /\ Spaces'[a] = bytes
        /\ \A b \in Staged : Spaces'[b] = Spaces[b] /\ Spaces[b] \in Nat
    BY <1>1, <1>2
  <2> HIDE DEF Spaces
  <2>2. \A b \in Staged \cup {a} : Spaces'[b] \in Nat
    BY <1>3, <2>1
  <2>3. SumFunctionOnSet(Spaces', Staged \cup {a}) = Spaces'[a] + SumFunctionOnSet(Spaces', Staged)
    BY <1>2, <2>2, SumInsert
  <2>4. SumFunctionOnSet(Spaces', Staged) = SumFunctionOnSet(Spaces, Staged)
    BY <1>2, <2>1, SumCongruence
  <2> QED
    BY <1>1, <2>1, <2>3, <2>4
<1>7. ledger'.spool = SumFunctionOnSet(Sizes', Reserved')
  <2>1. ledger.spool = SumFunctionOnSet(Sizes, Reserved)
    BY DEF Charges
  <2> QED
    BY <1>3, <1>4, <1>5, <2>1
<1>8. ledger'.protected = 2 * ledger'.spool
  BY <1>3, <1>4 DEF Charges
<1>9. ledger'.spool = SumFunctionOnSet(Spaces', Staged')
  BY <1>3, <1>4, <1>6 DEF Charges
<1> QED
  BY <1>7, <1>8, <1>9 DEF Charges

\* The space an operation has staged grows by what it newly reserves, or not at
\* all.
LEMMA StagedByOperation ==
    ASSUME AllocationTypeOK, NEW s \in Reservations, s \notin Reserved,
           NEW a \in Attempts, a \notin Staged, NEW bytes \in ByteLimits,
           NEW o \in Obligations, NEW origin \in Origins,
           \A other \in Obligations : obligation[other].target # a,
           staging' = [staging EXCEPT ![s] = [attempt |-> a, limit |-> bytes]],
           obligation' = [obligation EXCEPT ![o] = [target |-> a, origin |-> origin]],
           NEW op \in BusinessOperations
    PROVE  /\ OriginalBytes(op) \in Nat /\ OriginalBytes(op)' \in Nat
           /\ OriginalBytes(op)' <= OriginalBytes(op) + (IF op = origin THEN bytes ELSE 0)
<1> DEFINE Due == [x \in Obligations |-> LimitOf(obligation[x].target)]
           Own == {x \in Obligations : obligation[x].origin = op}
           Rest == Own \ {o}
<1>1. /\ LimitOf(a)' = bytes
      /\ \A b : b # a => LimitOf(b)' = LimitOf(b)
  BY LimitsAfterReserving
<1>2. /\ obligation'[o] = [target |-> a, origin |-> origin]
      /\ \A x \in Obligations \ {o} : obligation'[x] = obligation[x]
  BY DEF AllocationTypeOK
<1>3. /\ Due'[o] = bytes /\ bytes \in Nat
      /\ \A x \in Obligations \ {o} : Due'[x] = Due[x]
      /\ \A x \in Obligations : Due[x] \in Nat
  BY <1>1, <1>2, SizeFacts, CapacityAssumption
<1>4. Own' = IF op = origin THEN Rest \cup {o} ELSE Rest
  BY <1>2
<1>5. IsFiniteSet(Own) /\ IsFiniteSet(Rest)
  BY CapacityAssumption, FS_Subset
<1>6. OriginalBytes(op) = SumFunctionOnSet(Due, Own) /\ OriginalBytes(op)' = SumFunctionOnSet(Due', Own')
  BY DEF OriginalBytes
<1>7. Own \subseteq Obligations /\ Rest \subseteq Obligations \ {o} /\ Rest = Own \ {o}
  OBVIOUS
<1> HIDE DEF Due, Own, Rest
<1>8. SumFunctionOnSet(Due', Rest) = SumFunctionOnSet(Due, Rest)
  BY <1>3, <1>5, <1>7, SumCongruence
<1>9. SumFunctionOnSet(Due, Rest) \in Nat /\ SumFunctionOnSet(Due, Own) \in Nat
  BY <1>3, <1>5, <1>7, SumType
<1>10. SumFunctionOnSet(Due, Rest) <= SumFunctionOnSet(Due, Own)
  BY <1>3, <1>5, <1>7, SumMonotone
<1>11. CASE op = origin
  <2>1. \A x \in Rest \cup {o} : Due'[x] \in Nat
    BY <1>3, <1>7
  <2>2. SumFunctionOnSet(Due', Rest \cup {o}) = Due'[o] + SumFunctionOnSet(Due', Rest)
    BY <1>5, <1>7, <2>1, SumInsert
  <2> QED
    BY <1>3, <1>4, <1>6, <1>8, <1>9, <1>10, <1>11, <2>2
<1>12. CASE op # origin
  BY <1>4, <1>6, <1>8, <1>9, <1>10, <1>12
<1> QED
  BY <1>11, <1>12

\* Steps that reserve nothing leave all sums as they are.
LEMMA NothingReserved ==
    ASSUME Charges, OperationWithinAllowance, UNCHANGED <<ledger, staging, obligation>>
    PROVE  Charges' /\ OperationWithinAllowance'
<1>1. Reserved' = Reserved /\ Staged' = Staged /\ Sizes' = Sizes
  BY DEF Reserved, Staged, Sizes
<1>2. \A a : LimitOf(a)' = LimitOf(a)
  BY <1>1 DEF LimitOf
<1>3. [a \in Attempts |-> LimitOf(a)]' = [a \in Attempts |-> LimitOf(a)]
  BY <1>2
<1>4. \A op : OriginalBytes(op)' = OriginalBytes(op)
  BY <1>2 DEF OriginalBytes
<1> QED
  BY <1>1, <1>3, <1>4 DEF Charges, OperationWithinAllowance

\* The sums stay what the ledger says.
LEMMA SumsStep == SumsInv /\ [AllocationNext]_allocationVars => SumsInv'
<1> SUFFICES ASSUME SumsInv, [AllocationNext]_allocationVars
             PROVE  Charges' /\ OperationWithinAllowance'
  BY AllocationStepInv DEF SumsInv
<1>1. ASSUME NEW c \in Clients, NEW s \in Reservations, NEW a \in Attempts,
             NEW o \in Obligations, NEW origin \in Origins, NEW bytes \in ByteLimits,
             Allocate(c, s, a, o, origin, bytes)
      PROVE  Charges' /\ OperationWithinAllowance'
  <2>1. AllocationInv /\ AllocationTypeOK
    BY DEF SumsInv, AllocationInv
  <2>2. CASE ledger' = ledger /\ staging' = staging /\ obligation' = obligation
    BY <2>2, NothingReserved DEF SumsInv
  <2>3. CASE /\ s \notin Reserved
             /\ a \notin Staged
             /\ obligation[o] = NoObligation
             /\ \A other \in Obligations : obligation[other].target # a
             /\ ledger' = [ledger EXCEPT !.spool = @ + bytes, !.protected = @ + 2 * bytes]
    <3>1. /\ staging' = [staging EXCEPT ![s] = [attempt |-> a, limit |-> bytes]]
          /\ obligation' = [obligation EXCEPT ![o] = [target |-> a, origin |-> origin]]
      BY <1>1 DEF Allocate
    <3>2. Charges'
      BY <2>1, <2>3, <3>1, ChargesStep DEF SumsInv
    <3>3. ~SameObligation(o, a, origin)
      BY <2>3 DEF SameObligation
    <3>4. origin \in BusinessOperations => OriginalBytes(origin) + bytes <= OperationLimit
      BY <1>1, <3>3 DEF Allocate, Permitted, NewObligation
    <3>5. ASSUME NEW op \in BusinessOperations PROVE OriginalBytes(op)' <= OperationLimit
      <4>1. /\ OriginalBytes(op) \in Nat /\ OriginalBytes(op)' \in Nat
            /\ OriginalBytes(op)' <= OriginalBytes(op) + (IF op = origin THEN bytes ELSE 0)
        BY <2>1, <2>3, <3>1, StagedByOperation
      <4>2. OriginalBytes(op) <= OperationLimit
        BY DEF SumsInv, OperationWithinAllowance
      <4>3. bytes \in Nat /\ OperationLimit \in Nat
        BY CapacityAssumption
      <4> QED
        BY <3>4, <4>1, <4>2, <4>3
    <3> QED
      BY <3>2, <3>5 DEF OperationWithinAllowance
  <2> QED
    BY <1>1, <2>1, <2>2, <2>3, AllocateFacts
<1>2. CASE UNCHANGED <<ledger, staging, obligation>>
  BY <1>2, NothingReserved DEF SumsInv
<1> QED
  BY <1>1, <1>2
  DEF AllocationNext, allocationVars, ReadCapacity, Reject, Write, Erase, EndJob, Deactivate, Shrink

\* Nothing reserved adds up to nothing.
LEMMA SumsInit == AllocationInit => SumsInv
<1> SUFFICES ASSUME AllocationInit PROVE SumsInv
  OBVIOUS
<1>1. AllocationInv
  BY AllocationInitInv
<1>2. Reserved = {} /\ Staged = {}
  BY DEF AllocationInit, Reserved, Staged
<1>3. Charges
  <2>1. \A w : SumFunctionOnSet(w, {}) = 0
    BY SumEmpty
  <2> QED
    BY <1>2, <2>1 DEF AllocationInit, Charges
<1>4. ASSUME NEW op \in BusinessOperations PROVE OriginalBytes(op) <= OperationLimit
  <2> DEFINE Due == [x \in Obligations |-> LimitOf(obligation[x].target)]
             Own == {x \in Obligations : obligation[x].origin = op}
  <2>1. \A b : LimitOf(b) = 0
    <3>1. \A b : {s \in Reserved : staging[s].attempt = b} = {}
      BY <1>2
    <3> QED
      BY <3>1, SumEmpty DEF LimitOf
  <2>2. \A x \in Own : Due[x] = 0
    BY <2>1
  <2>3. IsFiniteSet(Own)
    BY CapacityAssumption, FS_Subset
  <2>4. OriginalBytes(op) = SumFunctionOnSet(Due, Own)
    BY DEF OriginalBytes
  <2>5. Own \cap {} = {}
    OBVIOUS
  <2> HIDE DEF Due, Own
  <2>6. SumFunctionOnSet(Due, Own) <=
           SumFunctionOnSet(Due, Own \cap {}) + SumFunctionOnSet(Due, Own \cap {})
    <3>1. \A x \in Own :
             /\ Due[x] \in Nat
             /\ Due[x] <= Counted(Due, {}, x) + Counted(Due, {}, x)
      BY <2>2 DEF Counted
    <3>2. \A x \in Own \cap {} : Due[x] \in Nat
      OBVIOUS
    <3> QED
      BY <2>3, <3>1, <3>2, SumCovered
  <2>7. SumFunctionOnSet(Due, {}) = 0
    BY SumEmpty
  <2> QED
    BY <2>2, <2>3, <2>4, <2>5, <2>6, <2>7, SumType, CapacityAssumption
<1> QED
  BY <1>1, <1>3, <1>4 DEF SumsInv, OperationWithinAllowance

\* The space of the bytes on the disk is at most what the ledger protects.
LEMMA DiskIsCovered == SumsInv => LedgerCoversBytes
<1> SUFFICES ASSUME SumsInv PROVE LedgerCoversBytes
  OBVIOUS
<1> DEFINE Spaces == [a \in Attempts |-> LimitOf(a)]
           Present == [a \in Attempts |-> copies[a] * LimitOf(a)]
<1>1. AllocationTypeOK /\ CeilingsHold /\ Charges
  BY DEF SumsInv, AllocationInv
<1>2. IsFiniteSet(Staged) /\ Staged \subseteq Attempts /\ \A a : LimitOf(a) \in Nat
  BY <1>1, SizeFacts
<1>3. ASSUME NEW a \in Staged
      PROVE  Spaces[a] \in Nat /\ Present[a] \in Nat /\ Present[a] <= Spaces[a] + Spaces[a]
  <2>1. copies[a] \in {0, 1, 2}
    BY <1>1, <1>2 DEF AllocationTypeOK
  <2>2. Present[a] = copies[a] * Spaces[a] /\ Spaces[a] \in Nat
    BY <1>2
  <2> HIDE DEF Spaces, Present
  <2> QED
    BY <2>1, <2>2
<1>4. OnDisk = SumFunctionOnSet(Present, Staged)
  BY DEF OnDisk
<1>5. ledger.spool = SumFunctionOnSet(Spaces, Staged) /\ ledger.protected = 2 * ledger.spool
  BY <1>1 DEF Charges
<1>6. ledger.spool \in Nat
  BY <1>1 DEF AllocationTypeOK, Ledger
<1> HIDE DEF Spaces, Present
<1>7. SumFunctionOnSet(Present, Staged) <=
         SumFunctionOnSet(Spaces, Staged \cap Staged) + SumFunctionOnSet(Spaces, Staged \cap Staged)
  BY <1>2, <1>3, SumCovered DEF Counted
<1>8. Staged \cap Staged = Staged
  OBVIOUS
<1>9. OnDisk <= ledger.protected
  <2>1. SumFunctionOnSet(Present, Staged) <= ledger.spool + ledger.spool
    BY <1>5, <1>7, <1>8
  <2>2. SumFunctionOnSet(Present, Staged) \in Nat
    BY <1>2, <1>3, SumType
  <2> QED
    BY <1>4, <1>5, <1>6, <2>1, <2>2
<1>10. ledger.spool = SumFunctionOnSet(Sizes, Reserved)
  BY <1>1 DEF Charges
<1> QED
  BY <1>1, <1>9, <1>10 DEF LedgerCoversBytes, CeilingsHold

\* The strengthening by the sums is inductive.
THEOREM SumsInvariance == AllocationSpec => []SumsInv
<1> QED
  BY SumsInit, SumsStep, PTL DEF AllocationSpec

\* The ledger charges exactly what is reserved, within its ceilings, and covers
\* every byte on the disk (PostgresArtifactAttemptRepository.reserve).
THEOREM LedgerCovers == AllocationSpec => []LedgerCoversBytes
<1> QED
  BY DiskIsCovered, SumsInvariance, PTL

\* However many calls stage for one operation, what they reserve stays within
\* its allowance (create_staging).
THEOREM AllowanceHolds == AllocationSpec => []OperationWithinAllowance
<1>1. SumsInv => OperationWithinAllowance
  BY DEF SumsInv
<1> QED
  BY <1>1, SumsInvariance, PTL
===============================================================================
