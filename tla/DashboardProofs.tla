--------------------------- MODULE DashboardProofs ---------------------------
(***************************************************************************)
(* The two safety properties of the dashboard, for every set of rows, any  *)
(* window and any limit.                                                   *)
(*                                                                         *)
(* The sums of an answer are folds over finite sets.  They are reasoned    *)
(* about by induction, in the form of a set C of subsets that contains one *)
(* as soon as it contains all that are smaller.                            *)
(***************************************************************************)
EXTENDS Dashboard, FiniteSetTheorems, TLAPS

LEMMA NatSetInduction ==
  ASSUME NEW T, 0 \in T, \A n \in Nat : n \in T => n + 1 \in T
  PROVE  \A n \in Nat : n \in T
<1> SUFFICES ASSUME Nat \ T # {} PROVE FALSE
  OBVIOUS
<1> DEFINE R == OpToRel(<, Nat)
<1>1. IsWellFoundedOn(R, Nat)
  BY NatLessThanWellFounded
<1>2. \A m, n \in Nat : m < n => <<m, n>> \in R
  BY DEF OpToRel
<1> HIDE DEF R
<1>3. PICK x \in Nat \ T : \A y \in Nat \ T : ~ (<<y, x>> \in R)
  BY <1>1, WFMin
<1>4. x - 1 \in Nat /\ x - 1 < x
  OBVIOUS
<1>5. x - 1 \in T
  BY <1>2, <1>3, <1>4
<1> QED
  BY <1>3, <1>4, <1>5

LEMMA SubsetInduction ==
  ASSUME NEW S, IsFiniteSet(S), NEW C,
         \A U \in SUBSET S :
           IsFiniteSet(U) /\ (\A V \in SUBSET U : V # U => V \in C) => U \in C
  PROVE  \A U \in SUBSET S : U \in C
<1> DEFINE T == {U \in SUBSET S : U \notin C}
<1> SUFFICES ASSUME T # {} PROVE FALSE
  OBVIOUS
<1>1. IsWellFoundedOn(StrictSubsetOrdering(S), FiniteSubsetsOf(S))
  BY FS_StrictSubsetOrderingWellFounded
<1>2. \A U \in SUBSET S : IsFiniteSet(U)
  BY FS_Subset
<1>3. T \subseteq FiniteSubsetsOf(S)
  BY <1>2 DEF FiniteSubsetsOf
<1> HIDE DEF T
<1>4. PICK least \in T : \A U \in T : ~ (<<U, least>> \in StrictSubsetOrdering(S))
  BY <1>1, <1>3, WFMin
<1>5. least \in SUBSET S /\ least \notin C
  BY <1>4 DEF T
<1>6. ASSUME NEW V \in SUBSET least, V # least
      PROVE  V \in C
  <2>1. <<V, least>> \in StrictSubsetOrdering(S)
    BY <1>5, <1>6 DEF StrictSubsetOrdering
  <2> QED
    BY <1>4, <1>5, <2>1 DEF T
<1> QED
  BY <1>2, <1>5, <1>6

------------------------------------------------------------------------------
(* Sums.                                                                    *)

\* The recursion that Total unfolds to.
Summing(f, sum) ==
  sum = [s \in SUBSET DOMAIN f |->
           IF s = {} THEN 0 ELSE f[CHOOSE x \in s : TRUE] + sum[s \ {CHOOSE x \in s : TRUE}]]

LEMMA TotalUnfolds ==
  ASSUME NEW f
  PROVE  Total(f) = (CHOOSE sum : Summing(f, sum))[DOMAIN f]
BY DEF Total, SumFunction, SumFunctionOnSet, FoldFunctionOnSet, MapThenFoldSet, Summing

\* A table that counts the rows of every key in its domain adds up to the number
\* of rows that have such a key.
LEMMA TotalOfCounts ==
  ASSUME NEW w, IsFiniteSet(w), NEW key, NEW f, IsFiniteSet(DOMAIN f),
         \A k \in DOMAIN f : f[k] = Cardinality({r \in w : key[r] = k})
  PROVE  Total(f) = Cardinality({r \in w : key[r] \in DOMAIN f})
<1> DEFINE D       == DOMAIN f
           Of(s)   == {r \in w : key[r] \in s}
           count   == [s \in SUBSET D |-> Cardinality(Of(s))]
           Pick(s) == CHOOSE x \in s : TRUE
<1>1. ASSUME NEW s \in SUBSET D, s # {}
      PROVE  /\ Pick(s) \in s /\ s \ {Pick(s)} \in SUBSET D
             /\ Cardinality(Of(s)) = f[Pick(s)] + Cardinality(Of(s \ {Pick(s)}))
             /\ Cardinality(Of(s)) \in Nat
  <2>1. Pick(s) \in s
    BY <1>1
  <2> DEFINE p    == Pick(s)
             mine == {r \in w : key[r] = p}
             rest == Of(s \ {p})
  <2>2. mine \union rest = Of(s) /\ mine \intersect rest = {}
    BY <2>1
  <2>3. IsFiniteSet(mine) /\ IsFiniteSet(rest) /\ IsFiniteSet(Of(s))
    BY FS_Subset
  <2>4. f[p] = Cardinality(mine)
    BY <2>1
  <2> HIDE DEF mine, rest, p
  <2>5. Cardinality(Of(s)) = Cardinality(mine) + Cardinality(rest) - Cardinality({})
    BY <2>2, <2>3, FS_Union
  <2>6. Cardinality(mine) \in Nat /\ Cardinality(rest) \in Nat /\ Cardinality(Of(s)) \in Nat
    BY <2>3, FS_CardinalityType
  <2> HIDE DEF Of
  <2>7. Cardinality(Of(s)) = f[p] + Cardinality(rest)
    BY <2>4, <2>5, <2>6, FS_EmptySet
  <2> QED
    BY <2>1, <2>6, <2>7 DEF p, rest, Of
<1>2. Cardinality(Of({})) = 0
  BY FS_EmptySet
<1>3. Summing(f, count)
  <2> DEFINE step == [s \in SUBSET D |-> IF s = {} THEN 0 ELSE f[Pick(s)] + count[s \ {Pick(s)}]]
  <2>1. ASSUME NEW s \in SUBSET D
        PROVE  count[s] = step[s]
    <3>1. CASE s = {}
      BY <1>2, <3>1
    <3>2. CASE s # {}
      BY <1>1, <3>2
    <3> QED
      BY <3>1, <3>2
  <2>2. count = step
    BY <2>1
  <2> QED
    BY <2>2 DEF Summing
<1> DEFINE sum == CHOOSE g : Summing(f, g)
<1>4. Summing(f, sum)
  BY <1>3
<1> HIDE DEF sum
<1>5. \A s \in SUBSET D : s # {} => sum[s] = f[Pick(s)] + sum[s \ {Pick(s)}]
  BY <1>4 DEF Summing
<1>6. sum[{}] = 0
  BY <1>4 DEF Summing
<1> DEFINE C == {s \in SUBSET D : sum[s] = Cardinality(Of(s))}
<1>7. ASSUME NEW U \in SUBSET D, \A V \in SUBSET U : V # U => V \in C
      PROVE  U \in C
  <2>1. CASE U = {}
    BY <1>2, <1>6, <2>1
  <2>2. CASE U # {}
    <3>1. /\ U \ {Pick(U)} \in SUBSET U /\ U \ {Pick(U)} # U
      BY <1>1, <2>2
    <3>2. sum[U \ {Pick(U)}] = Cardinality(Of(U \ {Pick(U)}))
      BY <1>7, <3>1
    <3>3. sum[U] = f[Pick(U)] + sum[U \ {Pick(U)}]
      BY <1>5, <2>2
    <3>4. Cardinality(Of(U)) = f[Pick(U)] + Cardinality(Of(U \ {Pick(U)}))
      BY <1>1, <2>2
    <3> HIDE DEF Of, Pick
    <3> QED
      BY <3>2, <3>3, <3>4
  <2> QED
    BY <2>1, <2>2
<1>8. D \in C
  <2>1. IsFiniteSet(D) /\ D \in SUBSET D
    OBVIOUS
  <2> HIDE DEF C, D
  <2>2. \A U \in SUBSET D : U \in C
    BY <1>7, <2>1, SubsetInduction
  <2> QED
    BY <2>1, <2>2
<1> QED
  BY <1>8, TotalUnfolds DEF sum

------------------------------------------------------------------------------
(* Counts by column, and the largest of them.                               *)

LEMMA ImageIsFinite ==
  ASSUME NEW w, IsFiniteSet(w), NEW key
  PROVE  IsFiniteSet({key[r] : r \in w})
<1> DEFINE T == {key[r] : r \in w}
           f == [r \in w |-> key[r]]
<1>1. f \in Surjection(w, T)
  BY DEF Surjection
<1> QED
  BY <1>1, FS_Surjection

LEMMA ColumnIsFinite ==
  ASSUME NEW w, IsFiniteSet(w), NEW column
  PROVE  IsFiniteSet({r[column] : r \in w})
<1> DEFINE key == [r \in w |-> r[column]]
<1>1. IsFiniteSet({key[r] : r \in w})
  BY ImageIsFinite
<1>2. {key[r] : r \in w} = {r[column] : r \in w}
  OBVIOUS
<1> QED
  BY <1>1, <1>2

Having(w, column, k)     == {r \in w : r[column] = k}
HavingOne(w, column, ks) == {r \in w : r[column] \in ks}

\* Some of the counts of a column add up to the rows that have one of those keys.
LEMMA SomeCountsAddUp ==
  ASSUME NEW w, IsFiniteSet(w), NEW column, NEW f,
         \A k \in DOMAIN f : \E r \in w : r[column] = k,
         \A k \in DOMAIN f : f[k] = Cardinality(Having(w, column, k))
  PROVE  Total(f) = Cardinality(HavingOne(w, column, DOMAIN f))
<1> DEFINE key == [r \in w |-> r[column]]
<1>1. IsFiniteSet(DOMAIN f)
  <2> DEFINE K == {r[column] : r \in w}
  <2>1. IsFiniteSet(K) /\ DOMAIN f \in SUBSET K
    BY ColumnIsFinite
  <2> HIDE DEF K
  <2> QED
    BY <2>1, FS_Subset
<1>2. \A k : {r \in w : key[r] = k} = Having(w, column, k)
  BY DEF Having
<1>3. {r \in w : key[r] \in DOMAIN f} = HavingOne(w, column, DOMAIN f)
  BY DEF HavingOne
<1>4. \A k \in DOMAIN f : f[k] = Cardinality({r \in w : key[r] = k})
  BY <1>2
<1> HIDE DEF key
<1>5. Total(f) = Cardinality({r \in w : key[r] \in DOMAIN f})
  BY <1>1, <1>4, TotalOfCounts
<1> QED
  BY <1>3, <1>5

LEMMA CountsAddUp ==
  ASSUME NEW w, IsFiniteSet(w), NEW column
  PROVE  Total(Counts(w, column)) = Cardinality(w)
<1> DEFINE f == Counts(w, column)
<1>1. /\ \A k \in DOMAIN f : \E r \in w : r[column] = k
      /\ \A r \in w : r[column] \in DOMAIN f
      /\ \A k \in DOMAIN f : f[k] = Cardinality(Having(w, column, k))
  BY DEF Counts, Having
<1>2. HavingOne(w, column, DOMAIN f) = w
  BY <1>1 DEF HavingOne
<1> HIDE DEF f
<1>3. Total(f) = Cardinality(HavingOne(w, column, DOMAIN f))
  BY <1>1, SomeCountsAddUp
<1> QED
  BY <1>2, <1>3 DEF f

LEMMA LargestExists ==
  ASSUME NEW D, IsFiniteSet(D), D # {}, NEW f, \A k \in D : f[k] \in Nat
  PROVE  \E m \in D : \A k \in D : f[k] <= f[m]
<1> DEFINE Largest(U, m) == m \in U /\ \A k \in U : f[k] <= f[m]
           C == {U \in SUBSET D : U = {} \/ \E m \in U : Largest(U, m)}
<1>1. ASSUME NEW U \in SUBSET D, \A V \in SUBSET U : V # U => V \in C
      PROVE  U \in C
  <2>1. CASE U = {}
    BY <2>1
  <2>2. CASE U # {}
    <3>1. PICK e \in U : TRUE
      BY <2>2
    <3>2. U \ {e} \in SUBSET U /\ U \ {e} # U
      BY <3>1
    <3>3. CASE U \ {e} = {}
      <4>1. Largest(U, e)
        BY <3>1, <3>3
      <4> QED
        BY <3>1, <4>1
    <3>4. CASE U \ {e} # {}
      <4>1. PICK m \in U \ {e} : Largest(U \ {e}, m)
        BY <1>1, <3>2, <3>4
      <4>2. f[m] \in Nat /\ f[e] \in Nat
        BY <3>1
      <4>3. CASE f[e] <= f[m]
        <5>1. Largest(U, m)
          BY <4>1, <4>3
        <5> QED
          BY <5>1
      <4>4. CASE ~(f[e] <= f[m])
        <5>1. Largest(U, e)
          BY <3>1, <4>1, <4>2, <4>4
        <5> QED
          BY <3>1, <5>1
      <4> QED
        BY <4>3, <4>4
    <3> QED
      BY <3>3, <3>4
  <2> QED
    BY <2>1, <2>2
<1>2. D \in C
  <2>1. D \in SUBSET D
    OBVIOUS
  <2> HIDE DEF C
  <2>2. \A U \in SUBSET D : U \in C
    BY <1>1, SubsetInduction
  <2> QED
    BY <2>1, <2>2
<1> QED
  BY <1>2

\* LIMIT n: there are n keys that no other key has more rows than.
LEMMA TopKeysExist ==
  ASSUME NEW D, IsFiniteSet(D), NEW f, \A k \in D : f[k] \in Nat
  PROVE  \A n \in Nat : n <= Cardinality(D) =>
           \E keys \in SUBSET D :
             /\ Cardinality(keys) = n
             /\ \A k \in keys, other \in D \ keys : f[k] >= f[other]
<1> DEFINE Best(keys, n) == /\ Cardinality(keys) = n
                           /\ \A k \in keys, other \in D \ keys : f[k] >= f[other]
           T == {n \in Nat : n <= Cardinality(D) => \E keys \in SUBSET D : Best(keys, n)}
<1>1. 0 \in T
  BY FS_EmptySet
<1>2. ASSUME NEW n \in Nat, n \in T
      PROVE  n + 1 \in T
  <2> SUFFICES ASSUME n + 1 <= Cardinality(D)
               PROVE  \E keys \in SUBSET D : Best(keys, n + 1)
    OBVIOUS
  <2>1. Cardinality(D) \in Nat
    BY FS_CardinalityType
  <2>2. PICK keys \in SUBSET D : Best(keys, n)
    BY <1>2, <2>1
  <2>3. D \ keys # {}
    <3>1. D \ keys = {} => keys = D
      OBVIOUS
    <3> QED
      BY <2>1, <2>2, <3>1
  <2>4. IsFiniteSet(D \ keys) /\ IsFiniteSet(keys)
    BY FS_Subset
  <2>5. PICK m \in D \ keys : \A k \in D \ keys : f[k] <= f[m]
    BY <2>3, <2>4, LargestExists
  <2>6. Cardinality(keys \union {m}) = n + 1
    BY <2>2, <2>4, <2>5, FS_AddElement
  <2>7. ASSUME NEW k \in keys \union {m}, NEW other \in D \ (keys \union {m})
        PROVE  f[k] >= f[other]
    <3>1. f[k] \in Nat /\ f[other] \in Nat /\ f[m] \in Nat
      BY <2>5
    <3> QED
      BY <2>2, <2>5, <3>1
  <2>8. keys \union {m} \in SUBSET D
    BY <2>5
  <2> QED
    BY <2>6, <2>7, <2>8
<1>3. \A n \in Nat : n \in T
  <2> HIDE DEF T
  <2> QED
    BY <1>1, <1>2, NatSetInduction
<1> QED
  BY <1>3

LEMMA MinOfTwo ==
  ASSUME NEW m \in Nat, NEW n \in Nat
  PROVE  Min({m, n}) \in Nat /\ Min({m, n}) <= m /\ Min({m, n}) <= n
<1>1. CASE m <= n
  <2>1. m \in {m, n} /\ \A y \in {m, n} : m <= y
    BY <1>1
  <2>2. Min({m, n}) \in {m, n} /\ \A y \in {m, n} : Min({m, n}) <= y
    BY <2>1 DEF Min
  <2> QED
    BY <2>2
<1>2. CASE ~(m <= n)
  <2>1. n \in {m, n} /\ \A y \in {m, n} : n <= y
    BY <1>2
  <2>2. Min({m, n}) \in {m, n} /\ \A y \in {m, n} : Min({m, n}) <= y
    BY <2>1 DEF Min
  <2> QED
    BY <2>2
<1> QED
  BY <1>1, <1>2

\* A list of the most frequent keys is part of the counts.
LEMMA TopAddsUp ==
  ASSUME NEW w, IsFiniteSet(w), NEW column, NEW top, top = Top(Counts(w, column))
  PROVE  /\ \A k \in DOMAIN top : top[k] = Cardinality(Having(w, column, k))
         /\ Total(top) \in Nat /\ Total(top) <= Cardinality(w)
<1> DEFINE D == {r[column] : r \in w}
           f == Counts(w, column)
           Limit == Min({TopLimit, Cardinality(D)})
           Best(keys) == /\ Cardinality(keys) = Limit
                         /\ \A k \in keys, other \in D \ keys : f[k] >= f[other]
<1>1. DOMAIN f = D /\ \A k \in D : f[k] = Cardinality(Having(w, column, k))
  BY DEF Counts, Having
<1>2. IsFiniteSet(D) /\ Cardinality(D) \in Nat
  BY ColumnIsFinite, FS_CardinalityType
<1>3. Limit \in Nat /\ Limit <= Cardinality(D)
  BY <1>2, LimitAssumption, MinOfTwo
<1>4. \A k \in D : f[k] \in Nat
  <2>1. \A k : IsFiniteSet(Having(w, column, k))
    BY FS_Subset DEF Having
  <2> QED
    BY <1>1, <2>1, FS_CardinalityType
<1> DEFINE chosen == CHOOSE keys \in SUBSET D : Best(keys)
<1>5. chosen \in SUBSET D
  <2> HIDE DEF D, f, Limit
  <2>1. \E keys \in SUBSET D : Best(keys)
    BY <1>2, <1>3, <1>4, TopKeysExist
  <2> QED
    BY <2>1
<1>6. top = [x \in chosen |-> f[x]]
  BY <1>1 DEF Top, Restrict
<1> HIDE DEF chosen, f
<1>7. DOMAIN top = chosen /\ \A k \in chosen : top[k] = f[k]
  BY <1>6
<1>8. \A k \in DOMAIN top : \E r \in w : r[column] = k
  BY <1>5, <1>7
<1>9. \A k \in DOMAIN top : top[k] = Cardinality(Having(w, column, k))
  BY <1>1, <1>5, <1>7
<1>10. Total(top) = Cardinality(HavingOne(w, column, DOMAIN top))
  BY <1>8, <1>9, SomeCountsAddUp
<1>11. HavingOne(w, column, DOMAIN top) \in SUBSET w
  BY DEF HavingOne
<1> QED
  BY <1>9, <1>10, <1>11, FS_Subset, FS_CardinalityType

\* What is drawn of a timeline.
AutomatedBars(t)  == [b \in DOMAIN t |-> t[b].automated]
LegitimateBars(t) == [b \in DOMAIN t |-> t[b].legitimate]

\* The buckets of the timeline hold every row once.
LEMMA TimelineAddsUp ==
  ASSUME NEW w, IsFiniteSet(w), NEW h, NEW t, t = Timeline(w, h)
  PROVE  /\ Total(AutomatedBars(t)) = Cardinality(Automated(w))
         /\ Total(LegitimateBars(t)) = Cardinality(w \ Automated(w))
<1> DEFINE width == Width(w, h)
           key   == [r \in w |-> r.ts \div width]
           In(rows, b) == Cardinality({r \in rows : r.ts \div width = b})
<1>1. t = [b \in Buckets(w, width) |->
            [automated |-> In(Automated(w), b), legitimate |-> In(w \ Automated(w), b)]]
  BY DEF Timeline
<1>2. Automated(w) \in SUBSET w
  BY DEF Automated
<1> HIDE DEF width
<1>3. DOMAIN t = {key[r] : r \in w}
  BY <1>1 DEF Buckets
<1>4. IsFiniteSet(DOMAIN t)
  <2> HIDE DEF key
  <2>1. IsFiniteSet({key[r] : r \in w})
    BY ImageIsFinite
  <2> QED
    BY <1>3, <2>1
<1>5. ASSUME NEW rows \in SUBSET w, NEW f, DOMAIN f = DOMAIN t,
             \A b \in DOMAIN f : f[b] = In(rows, b)
      PROVE  Total(f) = Cardinality(rows)
  <2>1. IsFiniteSet(rows)
    BY FS_Subset
  <2>2. \A b : {r \in rows : key[r] = b} = {r \in rows : r.ts \div width = b}
    OBVIOUS
  <2>3. \A b \in DOMAIN f : f[b] = Cardinality({r \in rows : key[r] = b})
    BY <1>5, <2>2
  <2>4. {r \in rows : key[r] \in DOMAIN f} = rows
    BY <1>3, <1>5
  <2> HIDE DEF key
  <2>5. Total(f) = Cardinality({r \in rows : key[r] \in DOMAIN f})
    BY <1>4, <1>5, <2>1, <2>3, TotalOfCounts
  <2> QED
    BY <2>4, <2>5
<1> DEFINE automated  == [b \in DOMAIN t |-> t[b].automated]
           legitimate == [b \in DOMAIN t |-> t[b].legitimate]
<1>6. /\ \A b \in DOMAIN t : automated[b] = In(Automated(w), b)
      /\ \A b \in DOMAIN t : legitimate[b] = In(w \ Automated(w), b)
  <2>1. \A b \in DOMAIN t : t[b] = [automated  |-> In(Automated(w), b),
                                   legitimate |-> In(w \ Automated(w), b)]
    BY <1>1, Zenon
  <2> HIDE DEF In
  <2> QED
    BY <2>1
<1>7. DOMAIN automated = DOMAIN t /\ DOMAIN legitimate = DOMAIN t
  OBVIOUS
<1> HIDE DEF automated, legitimate, In
<1>8. Total(automated) = Cardinality(Automated(w))
  BY <1>2, <1>5, <1>6, <1>7
<1>9. Total(legitimate) = Cardinality(w \ Automated(w))
  BY <1>5, <1>6, <1>7
<1> QED
  BY <1>8, <1>9 DEF automated, legitimate, AutomatedBars, LegitimateBars

\* The automated share of the verdicts counts the automated rows.
LEMMA JudgedAddUp ==
  ASSUME NEW w, IsFiniteSet(w), NEW v, v = VerdictBreakdown(w)
  PROVE  Total([k \in DOMAIN v \ Legitimate |-> v[k]]) = Cardinality(Automated(w))
<1> DEFINE f == [k \in DOMAIN v \ Legitimate |-> v[k]]
<1>1. /\ DOMAIN v = {r["verdict"] : r \in w}
      /\ \A k \in DOMAIN v : v[k] = Cardinality(Having(w, "verdict", k))
  BY DEF VerdictBreakdown, Counts, Having
<1>2. DOMAIN f = DOMAIN v \ Legitimate /\ \A k \in DOMAIN f : f[k] = v[k]
  OBVIOUS
<1>3. HavingOne(w, "verdict", DOMAIN f) = Automated(w)
  BY <1>1, <1>2 DEF HavingOne, Automated
<1> HIDE DEF f
<1>4. \A k \in DOMAIN f : \E r \in w : r["verdict"] = k
  BY <1>1, <1>2
<1>5. \A k \in DOMAIN f : f[k] = Cardinality(Having(w, "verdict", k))
  BY <1>1, <1>2
<1>6. Total(f) = Cardinality(HavingOne(w, "verdict", DOMAIN f))
  BY <1>4, <1>5, SomeCountsAddUp
<1> QED
  BY <1>3, <1>6 DEF f

------------------------------------------------------------------------------
(* The rows and the clock.                                                  *)

RowsInv ==
  /\ now \in Nat
  /\ IsFiniteSet(events)
  /\ \A r \in events : r.ts \in Nat

LEMMA RowsTyping == Spec => []RowsInv
<1>1. Init => RowsInv
  BY FS_EmptySet DEF Init, RowsInv
<1>2. RowsInv /\ [Next]_vars => RowsInv'
  <2> SUFFICES ASSUME RowsInv, [Next]_vars PROVE RowsInv'
    OBVIOUS
  <2>1. CASE Record
    <3>1. PICK k \in Kinds : events' = events \union {[k EXCEPT !.id = Cardinality(events) + 1,
                                                            !.ts = now]}
      BY <2>1 DEF Record
    <3>2. [k EXCEPT !.id = Cardinality(events) + 1, !.ts = now].ts = now
      BY KindAssumption
    <3>3. now' = now
      BY <2>1 DEF Record
    <3> DEFINE row == [k EXCEPT !.id = Cardinality(events) + 1, !.ts = now]
    <3>4. events' = events \union {row} /\ row.ts = now
      BY <3>1, <3>2
    <3> HIDE DEF row
    <3> QED
      BY <3>3, <3>4, FS_AddElement DEF RowsInv
  <2>2. CASE Tick
    BY <2>2 DEF Tick, RowsInv
  <2>3. CASE UNCHANGED <<now, events>>
    BY <2>3 DEF RowsInv
  <2> QED
    BY <2>1, <2>2, <2>3
       DEF Next, vars, Open, Timer, Click, Serve, Draw, FetchFails
<1> QED
  BY <1>1, <1>2, PTL DEF Spec

LEMMA WindowIsFinite ==
  ASSUME NEW rows, IsFiniteSet(rows), NEW h, NEW at
  PROVE  /\ IsFiniteSet(Window(rows, h, at)) /\ Cardinality(Window(rows, h, at)) \in Nat
         /\ IsFiniteSet(Automated(Window(rows, h, at)))
         /\ Cardinality(Automated(Window(rows, h, at))) \in Nat
<1>1. /\ Window(rows, h, at) \in SUBSET rows
      /\ Automated(Window(rows, h, at)) \in SUBSET rows
  BY DEF Window, Automated
<1> QED
  BY <1>1, FS_Subset, FS_CardinalityType

\* A query that is asked later sees no more of the same rows.
LEMMA LaterSeesLess ==
  ASSUME NEW rows, IsFiniteSet(rows), \A r \in rows : r.ts \in Nat, NEW h \in Nat,
         NEW early \in Nat, NEW late \in Nat, early <= late
  PROVE  /\ Cardinality(Window(rows, h, late)) <= Cardinality(Window(rows, h, early))
         /\ Cardinality(Automated(Window(rows, h, late)))
            <= Cardinality(Automated(Window(rows, h, early)))
<1>1. h * Hour \in Nat
  BY WidthAssumption
<1>2. Window(rows, h, late) \in SUBSET Window(rows, h, early)
  <2> SUFFICES ASSUME NEW r \in rows, r.ts >= late - h * Hour
               PROVE  r.ts >= early - h * Hour
    BY DEF Window
  <2>1. r.ts \in Nat
    OBVIOUS
  <2> QED
    BY <1>1, <2>1
<1>3. Automated(Window(rows, h, late)) \in SUBSET Automated(Window(rows, h, early))
  BY <1>2 DEF Automated
<1> QED
  BY <1>2, <1>3, WindowIsFinite, FS_Subset

\* What the property adds up in an answer.
DrawnAutomated(a)  == Total(AutomatedBars(a.timeline))
DrawnLegitimate(a) == Total(LegitimateBars(a.timeline))
Requested(a)       == Total([s \in DOMAIN a.top_sources |-> a.top_sources[s].requests])
JudgedAutomated(a) == Total([v \in DOMAIN a.verdicts \ Legitimate |-> a.verdicts[v]])

\* The fields of one answer in terms of the rows that were there when each of its
\* queries was asked.
LEMMA AnswerCounts ==
  ASSUME NEW rows, IsFiniteSet(rows), NEW h, NEW at, NEW a, a = Answer(rows, h, at)
  PROVE  /\ a.summary.events = Cardinality(Window(rows, h, at[1]))
         /\ a.summary.automated = Cardinality(Automated(Window(rows, h, at[1])))
         /\ Total(a.verdicts) = Cardinality(Window(rows, h, at[2]))
         /\ JudgedAutomated(a) = Cardinality(Automated(Window(rows, h, at[2])))
         /\ Total(a.top_paths) \in Nat
         /\ Total(a.top_paths) <= Cardinality(Window(rows, h, at[3]))
         /\ DrawnAutomated(a) = Cardinality(Automated(Window(rows, h, at[5])))
         /\ DrawnAutomated(a) + DrawnLegitimate(a) = Cardinality(Window(rows, h, at[5]))
         /\ Requested(a) \in Nat
         /\ Requested(a) <= Cardinality(Window(rows, h, at[6]))
<1> DEFINE W(i) == Window(rows, h, at[i])
<1>1. /\ a.summary = Summary(W(1)) /\ a.verdicts = VerdictBreakdown(W(2))
      /\ a.top_paths = TopPaths(W(3)) /\ a.timeline = Timeline(W(5), h)
      /\ a.top_sources = TopSources(W(6))
  BY DEF Answer
<1>2. \A i : IsFiniteSet(W(i)) /\ Automated(W(i)) \in SUBSET W(i)
  BY WindowIsFinite DEF Automated
<1> HIDE DEF W
<1>3. /\ a.summary.events = Cardinality(W(1))
      /\ a.summary.automated = Cardinality(Automated(W(1)))
  BY <1>1 DEF Summary
<1>4. /\ Total(a.verdicts) = Cardinality(W(2))
      /\ JudgedAutomated(a) = Cardinality(Automated(W(2)))
  BY <1>1, <1>2, CountsAddUp, JudgedAddUp DEF VerdictBreakdown, JudgedAutomated
<1>5. Total(a.top_paths) \in Nat /\ Total(a.top_paths) <= Cardinality(W(3))
  BY <1>1, <1>2, TopAddsUp DEF TopPaths
<1>6. /\ DrawnAutomated(a) = Cardinality(Automated(W(5)))
      /\ DrawnLegitimate(a) = Cardinality(W(5) \ Automated(W(5)))
  <2>1. IsFiniteSet(W(5)) /\ a.timeline = Timeline(W(5), h)
    BY <1>1, <1>2
  <2> QED
    BY <2>1, TimelineAddsUp DEF DrawnAutomated, DrawnLegitimate
<1>7. Cardinality(Automated(W(5))) + Cardinality(W(5) \ Automated(W(5))) = Cardinality(W(5))
  <2>1. W(5) \intersect Automated(W(5)) = Automated(W(5))
    BY <1>2
  <2>2. Cardinality(W(5)) \in Nat /\ Cardinality(Automated(W(5))) \in Nat
    BY <1>2, FS_Subset, FS_CardinalityType
  <2>3. Cardinality(W(5) \ Automated(W(5)))
        = Cardinality(W(5)) - Cardinality(W(5) \intersect Automated(W(5)))
    BY <1>2, FS_Difference
  <2> QED
    BY <2>1, <2>2, <2>3
<1>8. Requested(a) \in Nat /\ Requested(a) <= Cardinality(W(6))
  <2> DEFINE top == Top(Counts(W(6), "src_ip_hash"))
  <2>1. /\ DOMAIN a.top_sources = DOMAIN top
        /\ \A s \in DOMAIN top : a.top_sources[s].requests = top[s]
    BY <1>1 DEF TopSources
  <2>2. top = [s \in DOMAIN top |-> top[s]]
    BY DEF Top, Restrict
  <2> HIDE DEF top
  <2>3. [s \in DOMAIN a.top_sources |-> a.top_sources[s].requests] = top
    BY <2>1, <2>2
  <2> QED
    BY <1>2, <2>3, TopAddsUp DEF top, Requested
<1> QED
  BY <1>3, <1>4, <1>5, <1>6, <1>7, <1>8 DEF W

\* One answer of the dashboard agrees with itself, wherever the clock moves
\* between its queries (main.py:95-108, storage.py:173-360).
THEOREM AnswersAgree == Spec => []AnswersAddUp
<1>1. RowsInv => AnswersAddUp
  <2> SUFFICES ASSUME RowsInv
               PROVE  AnswersAddUp
    OBVIOUS
  <2> SUFFICES ASSUME NEW h \in Windows, NEW moved \in 1 .. 8
               PROVE  LET a == Answer(events, h, [i \in 1 .. 7 |-> IF i < moved THEN now ELSE now + 1])
                          buckets   == DOMAIN a.timeline
                          automated == Total([b \in buckets |-> a.timeline[b].automated])
                          drawn     == automated + Total([b \in buckets |-> a.timeline[b].legitimate])
                          requests  == Total([s \in DOMAIN a.top_sources |-> a.top_sources[s].requests])
                          judged    == Total([v \in DOMAIN a.verdicts \ Legitimate |-> a.verdicts[v]])
                      IN /\ a.summary.events >= Total(a.verdicts) /\ Total(a.verdicts) >= drawn
                         /\ drawn >= requests
                         /\ Total(a.verdicts) >= Total(a.top_paths) /\ Total(a.top_paths) <= a.summary.events
                         /\ a.summary.automated >= judged /\ judged >= automated
                         /\ moved \in {1, 8} => /\ Total(a.verdicts) = a.summary.events
                                                /\ drawn = a.summary.events
                                                /\ automated = a.summary.automated
                                                /\ judged = a.summary.automated
    BY Zenon DEF AnswersAddUp
  <2> DEFINE at == [i \in 1 .. 7 |-> IF i < moved THEN now ELSE now + 1]
             a  == Answer(events, h, at)
  <2> HIDE DEF a
  <2> SUFFICES LET automated == DrawnAutomated(a)
                   drawn     == automated + DrawnLegitimate(a)
                   requests  == Requested(a)
                   judged    == JudgedAutomated(a)
               IN /\ a.summary.events >= Total(a.verdicts) /\ Total(a.verdicts) >= drawn
                  /\ drawn >= requests
                  /\ Total(a.verdicts) >= Total(a.top_paths) /\ Total(a.top_paths) <= a.summary.events
                  /\ a.summary.automated >= judged /\ judged >= automated
                  /\ moved \in {1, 8} => /\ Total(a.verdicts) = a.summary.events
                                         /\ drawn = a.summary.events
                                         /\ automated = a.summary.automated
                                         /\ judged = a.summary.automated
    BY Zenon DEF a, DrawnAutomated, AutomatedBars, DrawnLegitimate, LegitimateBars, Requested,
                 JudgedAutomated
  <2> DEFINE automated == DrawnAutomated(a)
             drawn     == automated + DrawnLegitimate(a)
             n(i) == Cardinality(Window(events, h, at[i]))
             m(i) == Cardinality(Automated(Window(events, h, at[i])))
  <2>1. /\ a.summary.events = n(1) /\ a.summary.automated = m(1)
        /\ Total(a.verdicts) = n(2) /\ JudgedAutomated(a) = m(2)
        /\ Total(a.top_paths) \in Nat /\ Total(a.top_paths) <= n(3)
        /\ automated = m(5) /\ drawn = n(5)
        /\ Requested(a) \in Nat /\ Requested(a) <= n(6)
    <3>1. IsFiniteSet(events)
      BY DEF RowsInv
    <3>2. a = Answer(events, h, at)
      BY DEF a
    <3> HIDE DEF at
    <3> QED
      BY <3>1, <3>2, AnswerCounts
  <2>2. /\ \A i \in 1 .. 7 : at[i] \in Nat
        /\ \A i, j \in 1 .. 7 : i <= j => at[i] <= at[j]
        /\ moved \in {1, 8} => \A i, j \in 1 .. 7 : at[i] = at[j]
    BY DEF RowsInv
  <2>3. \A i \in 1 .. 7 : n(i) \in Nat /\ m(i) \in Nat
    BY WindowIsFinite DEF RowsInv
  <2>4. ASSUME NEW i \in 1 .. 7, NEW j \in 1 .. 7, i <= j
        PROVE  n(j) <= n(i) /\ m(j) <= m(i)
    BY <2>2, <2>4, LaterSeesLess, WindowAssumption DEF RowsInv
  <2>5. moved \in {1, 8} => \A i, j \in 1 .. 7 : n(i) = n(j) /\ m(i) = m(j)
    BY <2>2
  <2> HIDE DEF n, m
  <2>6. n(2) <= n(1) /\ n(5) <= n(2) /\ n(6) <= n(5) /\ n(3) <= n(2) /\ n(3) <= n(1)
    BY <2>4
  <2>7. m(2) <= m(1) /\ m(5) <= m(2)
    BY <2>4
  <2>8. moved \in {1, 8} => n(1) = n(2) /\ n(1) = n(5) /\ m(1) = m(5) /\ m(1) = m(2)
    BY <2>5
  <2> QED
    BY <2>1, <2>3, <2>6, <2>7, <2>8
<1> QED
  BY <1>1, RowsTyping, PTL

------------------------------------------------------------------------------
(* The widths of the buckets.                                               *)

Charts(w, h) == {k \in DOMAIN Widths(h) : Cardinality(Buckets(w, Widths(h)[k])) >= 3}

\* The width is that of the first candidate with a chart, if any, else the finest.
LEMMA WidthIsFirstChart ==
  ASSUME NEW w, NEW h \in Nat
  PROVE  \E k \in DOMAIN Widths(h) :
           /\ Width(w, h) = Widths(h)[k]
           /\ k \in Charts(w, h) \/ (k = Len(Widths(h)) /\ Charts(w, h) = {})
           /\ \A j \in Charts(w, h) : k <= j
<1> DEFINE last == Len(Widths(h))
           C    == Charts(w, h) \union {last}
<1>1. last \in 1 .. 3 /\ DOMAIN Widths(h) = 1 .. last
  <2>1. CASE h <= FineHours
    <3>1. Widths(h) = <<1>>
      BY <2>1 DEF Widths
    <3> QED
      BY <3>1
  <2>2. CASE ~(h <= FineHours) /\ h <= HourlyHours
    <3>1. Widths(h) = <<Hour, 1>>
      BY <2>2 DEF Widths
    <3> QED
      BY <3>1
  <2>3. CASE ~(h <= FineHours) /\ ~(h <= HourlyHours)
    <3>1. Widths(h) = <<Day, Hour, 1>>
      BY <2>3 DEF Widths
    <3> QED
      BY <3>1
  <2> QED
    BY <2>1, <2>2, <2>3
<1>2. Charts(w, h) \subseteq 1 .. last
  BY <1>1 DEF Charts
<1>3. Width(w, h) = Widths(h)[Min(C)]
  BY DEF Width, Charts
<1> HIDE DEF last
<1>4. \E k \in C : \A j \in C : k <= j
  <2>1. CASE 1 \in C
    BY <1>1, <1>2, <2>1
  <2>2. CASE 1 \notin C /\ 2 \in C
    BY <1>1, <1>2, <2>2
  <2>3. CASE 1 \notin C /\ 2 \notin C
    BY <1>1, <1>2, <2>3
  <2> QED
    BY <2>1, <2>2, <2>3
<1>5. Min(C) \in C /\ \A j \in C : Min(C) <= j
  BY <1>4 DEF Min
<1>6. Min(C) \in DOMAIN Widths(h)
  BY <1>1, <1>2, <1>5
<1>7. Min(C) \in Charts(w, h) \/ (Min(C) = last /\ Charts(w, h) = {})
  <2>1. CASE Charts(w, h) = {}
    BY <1>5, <2>1
  <2>2. CASE Charts(w, h) # {}
    <3>1. PICK j \in Charts(w, h) : TRUE
      BY <2>2
    <3>2. CASE Min(C) = last
      <4>1. j \in C /\ j \in 1 .. last
        BY <1>2, <3>1
      <4>2. last <= j
        BY <1>5, <3>2, <4>1
      <4>3. j = last
        BY <1>1, <4>1, <4>2
      <4> QED
        BY <3>1, <3>2, <4>3
    <3>3. CASE Min(C) # last
      BY <1>5, <3>3
    <3> QED
      BY <3>2, <3>3
  <2> QED
    BY <2>1, <2>2
<1> QED
  BY <1>3, <1>5, <1>6, <1>7 DEF last

\* The timeline is a chart whenever the window has three minutes to show, and no
\* finer than that takes (storage.py:258-286).
THEOREM TimelinesAreCharts == Spec => []TimelineIsAChart
<1>1. RowsInv => TimelineIsAChart
  <2> SUFFICES ASSUME RowsInv, NEW h \in Windows, NEW w, w = Window(events, h, now)
               PROVE  /\ Distinct(w, "ts") >= 3 => Cardinality(DOMAIN Timeline(w, h)) >= 3
                      /\ \A width \in {Hour, Day} :
                           (h > FineHours /\ (width = Day => h > HourlyHours)
                             /\ Cardinality(Buckets(w, width)) >= 3) => Width(w, h) >= width
    BY DEF TimelineIsAChart
  <2>1. h \in Nat
    BY WindowAssumption
  <2>2. PICK k \in DOMAIN Widths(h) :
          /\ Width(w, h) = Widths(h)[k]
          /\ k \in Charts(w, h) \/ (k = Len(Widths(h)) /\ Charts(w, h) = {})
          /\ \A j \in Charts(w, h) : k <= j
    BY <2>1, WidthIsFirstChart
  <2>3. ASSUME Distinct(w, "ts") >= 3
        PROVE  Cardinality(DOMAIN Timeline(w, h)) >= 3
    <3>1. DOMAIN Timeline(w, h) = Buckets(w, Widths(h)[k])
      BY <2>2 DEF Timeline
    <3>2. CASE k \in Charts(w, h)
      BY <3>1, <3>2 DEF Charts
    <3>3. CASE k = Len(Widths(h))
      <4>1. Widths(h)[k] = 1
        BY <2>1, <3>3, HoursAssumption DEF Widths
      <4>2. \A r \in w : r.ts \div 1 = r["ts"]
        BY DEF RowsInv, Window
      <4>3. Buckets(w, 1) = {r["ts"] : r \in w}
        BY <4>2 DEF Buckets
      <4> QED
        BY <2>3, <3>1, <4>1, <4>3 DEF Distinct
    <3> QED
      BY <2>2, <3>2, <3>3
  <2>4. ASSUME NEW width \in {Hour, Day}, h > FineHours, width = Day => h > HourlyHours,
               Cardinality(Buckets(w, width)) >= 3
        PROVE  Width(w, h) >= width
    <3>1. CASE h > HourlyHours
      <4>1. Widths(h) = <<Day, Hour, 1>>
        BY <2>1, <2>4, <3>1, HoursAssumption DEF Widths
      <4>2. CASE width = Day
        <5>1. 1 \in Charts(w, h)
          BY <2>4, <4>1, <4>2 DEF Charts
        <5>2. k = 1
          BY <2>2, <4>1, <5>1
        <5> QED
          BY <2>2, <4>1, <4>2, <5>2, WidthAssumption
      <4>3. CASE width = Hour
        <5>1. 2 \in Charts(w, h)
          BY <2>4, <4>1, <4>3 DEF Charts
        <5>2. k \in {1, 2}
          BY <2>2, <4>1, <5>1
        <5> QED
          BY <2>2, <4>1, <4>3, <5>2, WidthAssumption
      <4> QED
        BY <4>2, <4>3
    <3>2. CASE ~(h > HourlyHours)
      <4>1. Widths(h) = <<Hour, 1>> /\ width = Hour
        BY <2>1, <2>4, <3>2, HoursAssumption DEF Widths
      <4>2. 1 \in Charts(w, h)
        BY <2>4, <4>1 DEF Charts
      <4>3. k = 1
        BY <2>2, <4>1, <4>2
      <4> QED
        BY <2>2, <4>1, <4>3, WidthAssumption
    <3> QED
      BY <3>1, <3>2
  <2> QED
    BY <2>3, <2>4
<1> QED
  BY <1>1, RowsTyping, PTL
==============================================================================
