---------------------------- MODULE RedactProofs ----------------------------
(***************************************************************************)
(* What is kept of a submission, for any fields, any names, any number of  *)
(* fields and wherever the limit cuts them off.                            *)
(*                                                                         *)
(* Nothing about a state has to be strengthened: RedactInv says only what  *)
(* a submission is.  The argument is about the sequence of tokens.  Whole  *)
(* is the fields one behind the other, so every token of it belongs to one *)
(* field, to a separator or to a bracket (Laid), and what is received is   *)
(* the beginning of it.  A redactor that replaces is a choice of places    *)
(* where something begins, of where it ends and of what comes instead      *)
(* (Sub); those places are shown to be the secret fields that were         *)
(* received far enough (JsonFound, WordsFound), and replacing whole fields *)
(* leaves the values of the others alone (Replacement).  A form is taken   *)
(* apart and put together: its pieces are the fields (ParsedFacts),        *)
(* grouping moves them about (GroupedFacts), and of one that has a value   *)
(* there is only one copy.                                                 *)
(***************************************************************************)
EXTENDS Redact, SequenceTheorems, FiniteSetTheorems, WellFoundedInduction, TLAPS

\* Induction on the natural numbers, for a set.
LEMMA NatSetInduction ==
  ASSUME NEW T, 0 \in T, \A n \in Nat : n \in T => n + 1 \in T
  PROVE  \A n \in Nat : n \in T
<1> SUFFICES ASSUME Nat \ T # {} PROVE FALSE
  OBVIOUS
<1> DEFINE R == OpToRel(<, Nat)
<1>1. IsWellFoundedOn(R, Nat)
  BY NatLessThanWellFounded
<1>2. \A m, n \in Nat : m < n => <<m, n>> \in R
  BY DEF OpToRel
<1> HIDE DEF R
<1>3. PICK x \in Nat \ T : \A y \in Nat \ T : ~ (<<y, x>> \in R)
  BY <1>1, WFMin
<1>4. x - 1 \in Nat /\ x - 1 < x
  OBVIOUS
<1>5. x - 1 \in T
  BY <1>2, <1>3, <1>4
<1> QED
  BY <1>3, <1>4, <1>5

------------------------------------------------------------------------------
(* Flattened sequences.                                                     *)

\* The recursion that FlattenSeq unfolds to.
Flattening(seqs, f) ==
  f = [i \in 1 .. Len(seqs) |-> IF i = 1 THEN seqs[i] ELSE f[i - 1] \o seqs[i]]

\* f[i] is what the first i of some sequences flatten to, for i up to n.
Partial(seqs, n, f) ==
  /\ f[0] = <<>>
  /\ \A i \in 1 .. n : f[i] = f[i - 1] \o seqs[i]

LEMMA FlattenUnfolds ==
  ASSUME NEW seqs, Len(seqs) # 0
  PROVE  FlattenSeq(seqs) = (CHOOSE f : Flattening(seqs, f))[Len(seqs)]
BY DEF FlattenSeq, Flattening

LEMMA PartialExists ==
  ASSUME NEW X, NEW seqs \in Seq(Seq(X))
  PROVE  \E f \in [0 .. Len(seqs) -> Seq(X)] : Partial(seqs, Len(seqs), f)
<1> DEFINE Has(n) == \E f \in [0 .. n -> Seq(X)] : Partial(seqs, n, f)
           T      == {n \in Nat : n <= Len(seqs) => Has(n)}
<1>1. Has(0)
  <2> DEFINE f == [i \in 0 .. 0 |-> <<>>]
  <2>1. f \in [0 .. 0 -> Seq(X)] /\ Partial(seqs, 0, f)
    BY DEF Partial
  <2> QED
    BY <2>1
<1>2. ASSUME NEW n \in Nat, n + 1 <= Len(seqs), Has(n)
      PROVE  Has(n + 1)
  <2>1. PICK f \in [0 .. n -> Seq(X)] : Partial(seqs, n, f)
    BY <1>2
  <2> DEFINE more == f[n] \o seqs[n + 1]
             g    == [i \in 0 .. n + 1 |-> IF i = n + 1 THEN more ELSE f[i]]
  <2>2. f[n] \in Seq(X) /\ seqs[n + 1] \in Seq(X)
    BY <1>2
  <2>3. more \in Seq(X)
    BY <2>2, ConcatProperties
  <2>4. g \in [0 .. n + 1 -> Seq(X)]
    <3> HIDE DEF more
    <3> QED
      BY <2>3
  <2>5. /\ g[n + 1] = more
        /\ \A i \in 0 .. n : g[i] = f[i]
    <3> HIDE DEF more
    <3> QED
      OBVIOUS
  <2> HIDE DEF g
  <2>6. g[0] = <<>>
    <3>1. g[0] = f[0]
      BY ONLY <1>2, <2>5
    <3> QED
      BY ONLY <2>1, <3>1 DEF Partial
  <2>7. ASSUME NEW i \in 1 .. n + 1
        PROVE  g[i] = g[i - 1] \o seqs[i]
    <3>1. CASE i = n + 1
      <4>1. g[n] = f[n] /\ i - 1 = n
        BY <2>5, <3>1
      <4> QED
        BY <2>5, <3>1, <4>1
    <3>2. CASE i # n + 1
      <4>1. i \in 1 .. n /\ i \in 0 .. n /\ i - 1 \in 0 .. n
        BY <3>2
      <4>2. f[i] = f[i - 1] \o seqs[i]
        BY <2>1, <4>1 DEF Partial
      <4> QED
        BY <2>5, <4>1, <4>2
    <3> QED
      BY <3>1, <3>2
  <2> QED
    BY <2>4, <2>6, <2>7 DEF Partial
<1> HIDE DEF Has
<1>3. 0 \in T /\ \A n \in Nat : n \in T => n + 1 \in T
  BY <1>1, <1>2
<1> HIDE DEF T
<1>4. \A n \in Nat : n \in T
  BY <1>3, NatSetInduction
<1>5. Len(seqs) \in T
  BY <1>4
<1> QED
  BY <1>5 DEF T, Has

LEMMA FlattenIsLastPrefix ==
  ASSUME NEW X, NEW seqs \in Seq(Seq(X)), NEW f \in [0 .. Len(seqs) -> Seq(X)],
         Partial(seqs, Len(seqs), f)
  PROVE  FlattenSeq(seqs) = f[Len(seqs)]
<1>1. CASE Len(seqs) = 0
  BY <1>1 DEF FlattenSeq, Partial
<1>2. CASE Len(seqs) # 0
  <2> DEFINE g    == [i \in 1 .. Len(seqs) |-> f[i]]
             step == [i \in 1 .. Len(seqs) |-> IF i = 1 THEN seqs[i] ELSE g[i - 1] \o seqs[i]]
  <2>0. \A i \in 1 .. Len(seqs) : f[i] = IF i = 1 THEN seqs[i] ELSE f[i - 1] \o seqs[i]
    <3> SUFFICES ASSUME NEW i \in 1 .. Len(seqs)
                 PROVE  f[i] = IF i = 1 THEN seqs[i] ELSE f[i - 1] \o seqs[i]
      OBVIOUS
    <3>1. f[i] = f[i - 1] \o seqs[i]
      BY DEF Partial
    <3>2. CASE i = 1
      <4>1. seqs[1] \in Seq(X)
        BY <3>2
      <4>2. <<>> \o seqs[1] = seqs[1]
        BY <4>1, ConcatEmptySeq
      <4>3. f[i - 1] = <<>>
        BY <3>2 DEF Partial
      <4> QED
        BY <3>1, <3>2, <4>2, <4>3
    <3> QED
      BY <3>1, <3>2
  <2>1. ASSUME NEW i \in 1 .. Len(seqs)
        PROVE  g[i] = step[i]
    <3>1. CASE i = 1
      BY <2>0, <3>1
    <3>2. CASE i # 1
      <4>1. i - 1 \in 1 .. Len(seqs)
        BY <3>2
      <4>2. g[i - 1] = f[i - 1] /\ g[i] = f[i]
        BY <4>1
      <4>3. step[i] = g[i - 1] \o seqs[i]
        BY <3>2
      <4> HIDE DEF g, step
      <4> QED
        BY <2>0, <3>2, <4>2, <4>3
    <3> QED
      BY <3>1, <3>2
  <2>2. g = step
    BY <2>1
  <2>3. Flattening(seqs, g)
    BY <2>2 DEF Flattening
  <2> DEFINE h == CHOOSE h : Flattening(seqs, h)
  <2>4. Flattening(seqs, h)
    BY <2>3
  <2>5. FlattenSeq(seqs) = h[Len(seqs)]
    BY <1>2, FlattenUnfolds
  <2> HIDE DEF h
  <2> DEFINE T == {n \in Nat : n + 1 \in 1 .. Len(seqs) => h[n + 1] = f[n + 1]}
  <2>6. \A i \in 1 .. Len(seqs) :
          h[i] = IF i = 1 THEN seqs[i] ELSE h[i - 1] \o seqs[i]
    BY <2>4 DEF Flattening
  <2>8. 0 \in T
    BY <2>0, <2>6
  <2>9. ASSUME NEW n \in Nat, n \in T
        PROVE  n + 1 \in T
    <3> SUFFICES ASSUME n + 2 \in 1 .. Len(seqs)
                 PROVE  h[n + 2] = f[n + 2]
      OBVIOUS
    <3>1. h[n + 1] = f[n + 1]
      BY <2>9
    <3>2. n + 2 # 1 /\ (n + 2) - 1 = n + 1
      OBVIOUS
    <3> QED
      BY <2>0, <2>6, <3>1, <3>2
  <2> HIDE DEF T
  <2>10. \A n \in Nat : n \in T
    BY <2>8, <2>9, NatSetInduction
  <2>11. Len(seqs) - 1 \in T
    BY <1>2, <2>10
  <2> QED
    BY <1>2, <2>5, <2>11 DEF T
<1> QED
  BY <1>1, <1>2

LEMMA FlattenType ==
  ASSUME NEW X, NEW seqs \in Seq(Seq(X))
  PROVE  FlattenSeq(seqs) \in Seq(X)
<1>1. PICK f \in [0 .. Len(seqs) -> Seq(X)] : Partial(seqs, Len(seqs), f)
  BY PartialExists
<1>2. FlattenSeq(seqs) = f[Len(seqs)]
  BY <1>1, FlattenIsLastPrefix
<1> QED
  BY <1>2

LEMMA CatFacts ==
  ASSUME NEW X, NEW s \in Seq(X), NEW t \in Seq(X)
  PROVE  /\ s \o t \in Seq(X) /\ Len(s \o t) = Len(s) + Len(t)
         /\ \A i \in 1 .. Len(s) : (s \o t)[i] = s[i]
         /\ \A i \in 1 .. Len(t) : (s \o t)[Len(s) + i] = t[i]
<1> DEFINE c == s \o t
<1>1. Len(s) \in Nat /\ Len(t) \in Nat
  OBVIOUS
<1>2. /\ c \in Seq(X) /\ Len(c) = Len(s) + Len(t)
      /\ \A i \in 1 .. Len(s) + Len(t) : c[i] = IF i <= Len(s) THEN s[i] ELSE t[i - Len(s)]
  BY ConcatProperties
<1> HIDE DEF c
<1>3. ASSUME NEW i \in 1 .. Len(s)
      PROVE  c[i] = s[i]
  BY <1>1, <1>2
<1>4. ASSUME NEW i \in 1 .. Len(t)
      PROVE  c[Len(s) + i] = t[i]
  <2>1. /\ Len(s) + i \in 1 .. Len(s) + Len(t) /\ ~ (Len(s) + i <= Len(s))
        /\ (Len(s) + i) - Len(s) = i
    BY <1>1
  <2> QED
    BY <1>2, <2>1
<1> QED
  BY <1>2, <1>3, <1>4 DEF c

LEMMA CatSet ==
  ASSUME NEW X, NEW s \in Seq(X), NEW t \in Seq(X)
  PROVE  ToSet(s \o t) = ToSet(s) \union ToSet(t)
<1> DEFINE m == Len(s)
           n == Len(t)
           c == s \o t
<1>1. m \in Nat /\ n \in Nat /\ DOMAIN s = 1 .. m /\ DOMAIN t = 1 .. n
  OBVIOUS
<1>2. /\ c \in Seq(X) /\ Len(c) = m + n /\ \A i \in 1 .. m : c[i] = s[i]
      /\ \A i \in 1 .. n : c[m + i] = t[i]
  BY CatFacts
<1>3. DOMAIN c = 1 .. m + n
  BY ONLY <1>2
<1> HIDE DEF m, n, c
<1>4. \A i \in 1 .. m + n : i \in 1 .. m \/ (i - m \in 1 .. n /\ m + (i - m) = i)
  BY ONLY <1>1
<1>5. \A i \in 1 .. n : m + i \in 1 .. m + n
  BY ONLY <1>1
<1>6. \A i \in 1 .. m : i \in 1 .. m + n
  BY ONLY <1>1
<1>7. ToSet(c) \subseteq ToSet(s) \union ToSet(t)
  <2> SUFFICES ASSUME NEW i \in 1 .. m + n
               PROVE  c[i] \in ToSet(s) \union ToSet(t)
    BY <1>3 DEF ToSet
  <2>1. CASE i \in 1 .. m
    BY ONLY <1>1, <1>2, <2>1 DEF ToSet
  <2>2. CASE i - m \in 1 .. n /\ m + (i - m) = i
    BY ONLY <1>1, <1>2, <2>2 DEF ToSet
  <2> QED
    BY <1>4, <2>1, <2>2
<1>8. ToSet(s) \subseteq ToSet(c) /\ ToSet(t) \subseteq ToSet(c)
  BY ONLY <1>1, <1>2, <1>3, <1>5, <1>6 DEF ToSet
<1> QED
  BY ONLY <1>7, <1>8 DEF c

\* f holds what the first of some sequences flatten to, up to all of them.
Sums(seqs, f) ==
  /\ Partial(seqs, Len(seqs), f)
  /\ FlattenSeq(seqs) = f[Len(seqs)]

LEMMA SumsExist ==
  ASSUME NEW X, NEW seqs \in Seq(Seq(X))
  PROVE  \E f \in [0 .. Len(seqs) -> Seq(X)] : Sums(seqs, f)
<1>1. PICK f \in [0 .. Len(seqs) -> Seq(X)] : Partial(seqs, Len(seqs), f)
  BY PartialExists
<1>2. FlattenSeq(seqs) = f[Len(seqs)]
  BY <1>1, FlattenIsLastPrefix
<1> QED
  BY <1>1, <1>2 DEF Sums

\* A property of what the first k of some sequences flatten to, by induction on k.
LEMMA SumsInduction ==
  ASSUME NEW n \in Nat, NEW T, 0 \in T, \A k \in 1 .. n : k - 1 \in T => k \in T
  PROVE  \A k \in 0 .. n : k \in T
<1> DEFINE U == { k \in Nat : k <= n => k \in T }
<1>1. 0 \in U
  OBVIOUS
<1>2. \A k \in Nat : k \in U => k + 1 \in U
  <2> SUFFICES ASSUME NEW k \in Nat, k \in U, k + 1 <= n
               PROVE  k + 1 \in T
    OBVIOUS
  <2>1. k + 1 \in 1 .. n /\ (k + 1) - 1 = k /\ k \in T
    OBVIOUS
  <2> QED
    BY <2>1
<1> HIDE DEF U
<1>3. \A k \in Nat : k \in U
  BY <1>1, <1>2, NatSetInduction
<1> QED
  BY <1>3 DEF U

LEMMA FlattenedSet ==
  ASSUME NEW X, NEW seqs \in Seq(Seq(X)), NEW x
  PROVE  x \in ToSet(FlattenSeq(seqs)) <=> \E i \in 1 .. Len(seqs) : x \in ToSet(seqs[i])
<1> DEFINE n == Len(seqs)
<1>1. n \in Nat /\ \A i \in 1 .. n : seqs[i] \in Seq(X)
  OBVIOUS
<1>2. PICK f \in [0 .. Len(seqs) -> Seq(X)] : Sums(seqs, f)
  BY SumsExist
<1>3. /\ \A k \in 0 .. n : f[k] \in Seq(X)
      /\ f[0] = <<>> /\ \A k \in 1 .. n : f[k] = f[k - 1] \o seqs[k]
      /\ FlattenSeq(seqs) = f[n]
  BY <1>2 DEF Sums, Partial
<1> HIDE DEF n
<1> DEFINE T == { k \in Nat : x \in ToSet(f[k]) <=> \E i \in 1 .. k : x \in ToSet(seqs[i]) }
<1>4. 0 \in T
  BY ONLY <1>3 DEF ToSet
<1>5. \A k \in 1 .. n : k - 1 \in T => k \in T
  <2> SUFFICES ASSUME NEW k \in 1 .. n, k - 1 \in T
               PROVE  k \in T
    OBVIOUS
  <2>1. k \in Nat /\ 1 .. k = (1 .. k - 1) \union {k} /\ k - 1 \in 0 .. n
    BY ONLY <1>1, k \in 1 .. n
  <2>2. f[k] = f[k - 1] \o seqs[k] /\ f[k - 1] \in Seq(X) /\ seqs[k] \in Seq(X)
    BY ONLY <1>1, <1>3, <2>1, k \in 1 .. n
  <2>3. ToSet(f[k]) = ToSet(f[k - 1]) \union ToSet(seqs[k])
    BY ONLY <2>2, CatSet
  <2>4. x \in ToSet(f[k - 1]) <=> \E i \in 1 .. k - 1 : x \in ToSet(seqs[i])
    OBVIOUS
  <2> QED
    BY ONLY <2>1, <2>3, <2>4
<1> HIDE DEF T
<1>6. n \in T
  <2>1. \A k \in 0 .. n : k \in T
    BY <1>1, <1>4, <1>5, SumsInduction
  <2> QED
    BY ONLY <1>1, <2>1
<1>7. x \in ToSet(f[n]) <=> \E i \in 1 .. n : x \in ToSet(seqs[i])
  BY <1>6 DEF T
<1> QED
  BY <1>3, <1>7 DEF n

LEMMA FlattenCat ==
  ASSUME NEW X, NEW p \in Seq(Seq(X)), NEW q \in Seq(Seq(X))
  PROVE  FlattenSeq(p \o q) = FlattenSeq(p) \o FlattenSeq(q)
<1> DEFINE m == Len(p)
           n == Len(q)
           s == p \o q
<1>1. m \in Nat /\ n \in Nat /\ \A k \in 1 .. n : q[k] \in Seq(X)
  OBVIOUS
<1>2. /\ s \in Seq(Seq(X)) /\ Len(s) = m + n /\ \A i \in 1 .. m : s[i] = p[i]
      /\ \A i \in 1 .. n : s[m + i] = q[i]
  BY CatFacts
<1>3. PICK f \in [0 .. Len(p) -> Seq(X)] : Sums(p, f)
  BY SumsExist
<1>4. PICK g \in [0 .. Len(q) -> Seq(X)] : Sums(q, g)
  BY SumsExist
<1>5. PICK h \in [0 .. Len(s) -> Seq(X)] : Sums(s, h)
  BY <1>2, SumsExist
<1>6. /\ \A k \in 0 .. m : f[k] \in Seq(X)
      /\ f[0] = <<>> /\ \A k \in 1 .. m : f[k] = f[k - 1] \o p[k]
      /\ FlattenSeq(p) = f[m]
  BY <1>3 DEF Sums, Partial
<1>7. /\ \A k \in 0 .. n : g[k] \in Seq(X)
      /\ g[0] = <<>> /\ \A k \in 1 .. n : g[k] = g[k - 1] \o q[k]
      /\ FlattenSeq(q) = g[n]
  BY <1>4 DEF Sums, Partial
<1>8. /\ h[0] = <<>> /\ \A k \in 1 .. m + n : h[k] = h[k - 1] \o s[k]
      /\ FlattenSeq(s) = h[m + n]
  BY <1>2, <1>5 DEF Sums, Partial
<1> HIDE DEF m, n, s
<1> DEFINE T == { k \in Nat : h[k] = f[k] }
           U == { k \in Nat : h[m + k] = f[m] \o g[k] }
<1>9. m \in T
  <2>1. 0 \in T
    BY ONLY <1>6, <1>8
  <2>2. \A k \in 1 .. m : k - 1 \in T => k \in T
    <3> SUFFICES ASSUME NEW k \in 1 .. m, k - 1 \in T
                 PROVE  k \in T
      OBVIOUS
    <3>1. k \in Nat /\ k \in 1 .. m + n
      BY ONLY <1>1, k \in 1 .. m
    <3>2. h[k - 1] = f[k - 1]
      OBVIOUS
    <3>3. h[k] = h[k - 1] \o s[k] /\ f[k] = f[k - 1] \o p[k] /\ s[k] = p[k]
      BY ONLY <1>2, <1>6, <1>8, <3>1, k \in 1 .. m
    <3> QED
      BY ONLY <3>1, <3>2, <3>3
  <2> HIDE DEF T
  <2>3. \A k \in 0 .. m : k \in T
    BY <1>1, <2>1, <2>2, SumsInduction
  <2> QED
    BY ONLY <1>1, <2>3
<1>10. n \in U
  <2>1. f[m] \in Seq(X) /\ h[m] = f[m]
    BY ONLY <1>1, <1>6, <1>9
  <2>2. 0 \in U
    <3>1. f[m] \o <<>> = f[m] /\ m + 0 = m
      BY <1>1, <2>1, ConcatEmptySeq
    <3> QED
      BY ONLY <1>7, <2>1, <3>1
  <2>3. \A k \in 1 .. n : k - 1 \in U => k \in U
    <3> SUFFICES ASSUME NEW k \in 1 .. n, k - 1 \in U
                 PROVE  k \in U
      OBVIOUS
    <3>1. m + k \in 1 .. m + n /\ (m + k) - 1 = m + (k - 1) /\ k - 1 \in 0 .. n /\ k \in Nat
      BY ONLY <1>1, k \in 1 .. n
    <3>2. h[m + k] = h[m + (k - 1)] \o q[k]
      BY ONLY <1>2, <1>8, <3>1, k \in 1 .. n
    <3>3. h[m + (k - 1)] = f[m] \o g[k - 1]
      BY k - 1 \in U
    <3>4. g[k - 1] \in Seq(X) /\ q[k] \in Seq(X) /\ g[k] = g[k - 1] \o q[k]
      BY ONLY <1>1, <1>7, <3>1, k \in 1 .. n
    <3>5. (f[m] \o g[k - 1]) \o q[k] = f[m] \o (g[k - 1] \o q[k])
      <4> DEFINE a == f[m]
                 b == g[k - 1]
                 c == q[k]
      <4>1. a \in Seq(X) /\ b \in Seq(X) /\ c \in Seq(X)
        BY ONLY <2>1, <3>4
      <4> HIDE DEF a, b, c
      <4>2. (a \o b) \o c = a \o (b \o c)
        BY ONLY <4>1, SMTT(30)
      <4> QED
        BY <4>2 DEF a, b, c
    <3>6. h[m + k] = f[m] \o g[k]
      BY ONLY <3>2, <3>3, <3>4, <3>5
    <3> QED
      BY ONLY <3>1, <3>6
  <2> HIDE DEF U
  <2>4. \A k \in 0 .. n : k \in U
    BY <1>1, <2>2, <2>3, SumsInduction
  <2> QED
    BY ONLY <1>1, <2>4
<1> QED
  BY ONLY <1>6, <1>7, <1>8, <1>10 DEF s

\* If all but one of some sequences are empty, they flatten to that one.
LEMMA OnePiece ==
  ASSUME NEW X, NEW seqs \in Seq(Seq(X)), NEW q,
         \A j \in 1 .. Len(seqs) : j # q => seqs[j] = <<>>
  PROVE  FlattenSeq(seqs) = IF q \in 1 .. Len(seqs) THEN seqs[q] ELSE <<>>
<1> DEFINE n == Len(seqs)
<1>1. n \in Nat /\ \A i \in 1 .. n : seqs[i] \in Seq(X) /\ (i # q => seqs[i] = <<>>)
  BY SMTT(30)
<1>2. PICK f \in [0 .. Len(seqs) -> Seq(X)] : Sums(seqs, f)
  BY SumsExist
<1>3. /\ f[0] = <<>> /\ \A k \in 1 .. n : f[k] = f[k - 1] \o seqs[k]
      /\ FlattenSeq(seqs) = f[n]
  BY <1>2 DEF Sums, Partial
<1> HIDE DEF n
<1> DEFINE T == { k \in Nat : f[k] = IF q \in 1 .. k THEN seqs[q] ELSE <<>> }
<1>4. 0 \in T
  BY ONLY <1>3
<1>5. \A k \in 1 .. n : k - 1 \in T => k \in T
  <2> SUFFICES ASSUME NEW k \in 1 .. n, k - 1 \in T
               PROVE  k \in T
    OBVIOUS
  <2>1. k \in Nat /\ 1 .. k = (1 .. k - 1) \union {k} /\ k \notin 1 .. k - 1
    BY ONLY <1>1, k \in 1 .. n
  <2>2. f[k] = f[k - 1] \o seqs[k] /\ seqs[k] \in Seq(X)
    BY ONLY <1>1, <1>3, k \in 1 .. n
  <2>3. f[k - 1] = IF q \in 1 .. k - 1 THEN seqs[q] ELSE <<>>
    OBVIOUS
  <2>4. CASE k = q
    <3>1. <<>> \o seqs[k] = seqs[k]
      BY <2>2, ConcatEmptySeq
    <3> QED
      BY ONLY <2>1, <2>2, <2>3, <2>4, <3>1
  <2>5. CASE k # q
    <3>1. seqs[k] = <<>>
      BY <1>1, <2>5
    <3>2. f[k - 1] \in Seq(X)
      <4>1. q \in 1 .. k - 1 => q \in 1 .. n
        BY <1>1
      <4>2. <<>> \in Seq(X)
        OBVIOUS
      <4> QED
        BY ONLY <1>1, <2>3, <4>1, <4>2
    <3>3. f[k - 1] \o <<>> = f[k - 1]
      BY <3>2, ConcatEmptySeq
    <3> QED
      BY ONLY <2>1, <2>2, <2>3, <2>5, <3>1, <3>3
  <2> QED
    BY <2>4, <2>5
<1> HIDE DEF T
<1>6. n \in T
  <2>1. \A k \in 0 .. n : k \in T
    BY <1>1, <1>4, <1>5, SumsInduction
  <2> QED
    BY ONLY <1>1, <2>1
<1>7. f[n] = IF q \in 1 .. n THEN seqs[q] ELSE <<>>
  BY <1>6 DEF T
<1> QED
  BY <1>3, <1>7 DEF n

------------------------------------------------------------------------------
(* The tokens that are among some.                                          *)

\* The pieces that Only flattens.
Singles(s, tokens) == [i \in 1 .. Len(s) |-> IF s[i] \in tokens THEN <<s[i]>> ELSE <<>>]

LEMMA OnlyIs ==
  ASSUME NEW X, NEW s \in Seq(X), NEW tokens
  PROVE  /\ Only(s, tokens) = FlattenSeq(Singles(s, tokens))
         /\ Singles(s, tokens) \in Seq(Seq(X)) /\ Len(Singles(s, tokens)) = Len(s)
         /\ Only(s, tokens) \in Seq(X)
<1> DEFINE n == Len(s)
           p == Singles(s, tokens)
<1>1. n \in Nat /\ DOMAIN s = 1 .. n /\ \A i \in 1 .. n : s[i] \in X
  OBVIOUS
<1>2. Only(s, tokens) = FlattenSeq(p)
  BY <1>1 DEF Only, Singles
<1>3. p \in [1 .. n -> Seq(X)]
  <2>1. \A i \in 1 .. n : <<s[i]>> \in Seq(X)
    BY <1>1
  <2> QED
    BY <2>1 DEF Singles
<1>4. p \in Seq(Seq(X)) /\ Len(p) = n
  <2> HIDE DEF p, n
  <2> QED
    BY ONLY <1>1, <1>3
<1>5. FlattenSeq(p) \in Seq(X)
  BY <1>4, FlattenType
<1> QED
  BY <1>2, <1>4, <1>5

LEMMA OnlyCat ==
  ASSUME NEW X, NEW s \in Seq(X), NEW t \in Seq(X), NEW tokens
  PROVE  Only(s \o t, tokens) = Only(s, tokens) \o Only(t, tokens)
<1> DEFINE m == Len(s)
           n == Len(t)
           c == s \o t
           p == Singles(s, tokens)
           q == Singles(t, tokens)
           r == Singles(c, tokens)
<1>1. m \in Nat /\ n \in Nat
  OBVIOUS
<1>2. /\ c \in Seq(X) /\ Len(c) = m + n /\ \A i \in 1 .. m : c[i] = s[i]
      /\ \A i \in 1 .. n : c[m + i] = t[i]
  BY CatFacts
<1>3. /\ p \in Seq(Seq(X)) /\ Len(p) = m /\ q \in Seq(Seq(X)) /\ Len(q) = n
      /\ r \in Seq(Seq(X)) /\ Len(r) = m + n
  BY <1>2, OnlyIs
<1>4. /\ \A i \in 1 .. m : p[i] = IF s[i] \in tokens THEN <<s[i]>> ELSE <<>>
      /\ \A i \in 1 .. n : q[i] = IF t[i] \in tokens THEN <<t[i]>> ELSE <<>>
      /\ \A i \in 1 .. Len(c) : r[i] = IF c[i] \in tokens THEN <<c[i]>> ELSE <<>>
  BY DEF Singles
<1>5. /\ Only(s, tokens) = FlattenSeq(p) /\ Only(t, tokens) = FlattenSeq(q)
      /\ Only(c, tokens) = FlattenSeq(r)
  BY <1>2, OnlyIs
<1> HIDE DEF m, n, c, p, q, r
<1>6. r = p \o q
  <2> DEFINE u == p \o q
  <2>1. /\ u \in Seq(Seq(X)) /\ Len(u) = m + n /\ \A i \in 1 .. m : u[i] = p[i]
        /\ \A i \in 1 .. n : u[m + i] = q[i]
    <3>1. /\ p \o q \in Seq(Seq(X)) /\ Len(p \o q) = Len(p) + Len(q)
          /\ \A i \in 1 .. Len(p) : (p \o q)[i] = p[i]
          /\ \A i \in 1 .. Len(q) : (p \o q)[Len(p) + i] = q[i]
      <4>1. p \in Seq(Seq(X)) /\ q \in Seq(Seq(X))
        BY ONLY <1>3
      <4> QED
        BY ONLY <4>1, CatFacts
    <3> QED
      BY ONLY <1>3, <3>1
  <2> HIDE DEF u
  <2>2. ASSUME NEW i \in 1 .. m + n
        PROVE  r[i] = u[i]
    <3>1. CASE i \in 1 .. m
      <4>1. i \in 1 .. Len(c)
        BY ONLY <1>1, <1>2, <3>1
      <4>2. c[i] = s[i] /\ u[i] = p[i]
        BY ONLY <1>2, <2>1, <3>1
      <4> QED
        BY ONLY <1>4, <3>1, <4>1, <4>2
    <3>2. CASE i \notin 1 .. m
      <4>1. i - m \in 1 .. n /\ m + (i - m) = i /\ m + (i - m) \in 1 .. Len(c)
        BY ONLY <1>1, <1>2, <3>2, i \in 1 .. m + n
      <4>2. c[m + (i - m)] = t[i - m] /\ u[m + (i - m)] = q[i - m]
        BY ONLY <1>2, <2>1, <4>1
      <4> QED
        BY ONLY <1>4, <4>1, <4>2
    <3> QED
      BY <3>1, <3>2
  <2>3. DOMAIN r = 1 .. m + n /\ DOMAIN u = 1 .. m + n
    BY ONLY <1>1, <1>3, <2>1
  <2>4. r = u
    BY ONLY <1>1, <1>3, <2>1, <2>2, <2>3
  <2> QED
    BY <2>4 DEF u
<1>7. FlattenSeq(p \o q) = FlattenSeq(p) \o FlattenSeq(q)
  BY <1>3, FlattenCat
<1> QED
  BY ONLY <1>5, <1>6, <1>7 DEF c

LEMMA OnlyFlat ==
  ASSUME NEW X, NEW seqs \in Seq(Seq(X)), NEW tokens
  PROVE  /\ [j \in 1 .. Len(seqs) |-> Only(seqs[j], tokens)] \in Seq(Seq(X))
         /\ Only(FlattenSeq(seqs), tokens)
            = FlattenSeq([j \in 1 .. Len(seqs) |-> Only(seqs[j], tokens)])
<1> DEFINE n == Len(seqs)
           some == [j \in 1 .. n |-> Only(seqs[j], tokens)]
<1>1. n \in Nat /\ \A i \in 1 .. n : seqs[i] \in Seq(X)
  OBVIOUS
<1>2. \A i \in 1 .. n : Only(seqs[i], tokens) \in Seq(X)
  BY <1>1, OnlyIs
<1>3. some \in Seq(Seq(X)) /\ Len(some) = n /\ \A i \in 1 .. n : some[i] = Only(seqs[i], tokens)
  <2> HIDE DEF n
  <2> QED
    BY ONLY <1>1, <1>2
<1> HIDE DEF some
<1>4. PICK f \in [0 .. Len(seqs) -> Seq(X)] : Sums(seqs, f)
  BY SumsExist
<1>5. PICK g \in [0 .. Len(some) -> Seq(X)] : Sums(some, g)
  BY <1>3, SumsExist
<1>6. /\ \A k \in 0 .. n : f[k] \in Seq(X)
      /\ f[0] = <<>> /\ \A k \in 1 .. n : f[k] = f[k - 1] \o seqs[k]
      /\ FlattenSeq(seqs) = f[n]
  BY <1>4 DEF Sums, Partial
<1>7. /\ g[0] = <<>> /\ \A k \in 1 .. n : g[k] = g[k - 1] \o some[k]
      /\ FlattenSeq(some) = g[n]
  BY <1>3, <1>5 DEF Sums, Partial
<1> HIDE DEF n
<1> DEFINE T == { k \in Nat : Only(f[k], tokens) = g[k] }
<1>8. 0 \in T
  <2>1. Only(<<>>, tokens) = <<>>
    BY DEF Only, FlattenSeq
  <2> QED
    BY ONLY <1>6, <1>7, <2>1
<1>9. \A k \in 1 .. n : k - 1 \in T => k \in T
  <2> SUFFICES ASSUME NEW k \in 1 .. n, k - 1 \in T
               PROVE  k \in T
    OBVIOUS
  <2>1. k \in Nat /\ k - 1 \in 0 .. n
    BY ONLY <1>1, k \in 1 .. n
  <2>2. f[k] = f[k - 1] \o seqs[k] /\ f[k - 1] \in Seq(X) /\ seqs[k] \in Seq(X)
    BY ONLY <1>1, <1>6, <2>1, k \in 1 .. n
  <2>3. Only(f[k - 1] \o seqs[k], tokens) = Only(f[k - 1], tokens) \o Only(seqs[k], tokens)
    <3> DEFINE a == f[k - 1]
               b == seqs[k]
    <3>1. a \in Seq(X) /\ b \in Seq(X)
      BY ONLY <2>2
    <3> HIDE DEF a, b
    <3>2. Only(a \o b, tokens) = Only(a, tokens) \o Only(b, tokens)
      BY ONLY <3>1, OnlyCat
    <3> QED
      BY <3>2 DEF a, b
  <2>4. Only(f[k - 1], tokens) = g[k - 1]
    OBVIOUS
  <2>5. g[k] = g[k - 1] \o some[k] /\ some[k] = Only(seqs[k], tokens)
    BY ONLY <1>3, <1>7, k \in 1 .. n
  <2>6. Only(f[k], tokens) = g[k]
    BY ONLY <2>2, <2>3, <2>4, <2>5
  <2> QED
    BY ONLY <2>1, <2>6
<1> HIDE DEF T
<1>10. n \in T
  <2>1. \A k \in 0 .. n : k \in T
    BY <1>1, <1>8, <1>9, SumsInduction
  <2> QED
    BY ONLY <1>1, <2>1
<1>11. Only(f[n], tokens) = g[n]
  BY <1>10 DEF T
<1> QED
  BY ONLY <1>3, <1>6, <1>7, <1>11 DEF n, some

LEMMA OnlySet ==
  ASSUME NEW X, NEW s \in Seq(X), NEW tokens
  PROVE  ToSet(Only(s, tokens)) = ToSet(s) \intersect tokens
<1> DEFINE n == Len(s)
           p == Singles(s, tokens)
<1>1. n \in Nat /\ DOMAIN s = 1 .. n
  OBVIOUS
<1>2. Only(s, tokens) = FlattenSeq(p) /\ p \in Seq(Seq(X)) /\ Len(p) = n
  BY OnlyIs
<1>3. \A i \in 1 .. n : p[i] = IF s[i] \in tokens THEN <<s[i]>> ELSE <<>>
  BY DEF Singles
<1> HIDE DEF p, n
<1>4. \A x : x \in ToSet(FlattenSeq(p)) <=> \E i \in 1 .. n : x \in ToSet(p[i])
  <2> TAKE x
  <2> QED
    BY <1>2, FlattenedSet
<1>5. \A i \in 1 .. n : ToSet(p[i]) = IF s[i] \in tokens THEN {s[i]} ELSE {}
  <2>1. \A x : ToSet(<<x>>) = {x}
    BY DEF ToSet
  <2>2. ToSet(<<>>) = {}
    BY DEF ToSet
  <2> QED
    BY ONLY <1>3, <2>1, <2>2
<1>6. \A x : x \in ToSet(s) <=> \E i \in 1 .. n : x = s[i]
  BY <1>1 DEF ToSet
<1> SUFFICES ASSUME NEW x
             PROVE  x \in ToSet(Only(s, tokens)) <=> x \in ToSet(s) /\ x \in tokens
  OBVIOUS
<1>7. x \in ToSet(Only(s, tokens)) <=> \E i \in 1 .. n : x \in ToSet(p[i])
  BY ONLY <1>2, <1>4
<1>8. \A i \in 1 .. n : x \in ToSet(p[i]) <=> x = s[i] /\ s[i] \in tokens
  BY ONLY <1>5
<1> QED
  BY ONLY <1>6, <1>7, <1>8

\* What is left is nothing, if nothing is among them.
LEMMA OnlyNone ==
  ASSUME NEW X, NEW s \in Seq(X), NEW tokens
  PROVE  Only(s, tokens) = <<>> <=> ToSet(s) \intersect tokens = {}
<1> DEFINE o == Only(s, tokens)
<1>1. o \in Seq(X)
  BY OnlyIs
<1>2. ToSet(o) = ToSet(s) \intersect tokens
  BY OnlySet
<1> HIDE DEF o
<1>3. o = <<>> <=> ToSet(o) = {}
  <2>1. o = <<>> => ToSet(o) = {}
    BY DEF ToSet
  <2>2. o # <<>> => o[1] \in ToSet(o)
    BY <1>1 DEF ToSet
  <2> QED
    BY <2>1, <2>2
<1> QED
  BY <1>2, <1>3 DEF o

------------------------------------------------------------------------------
(* Replacing what matches.                                                  *)

\* The recursion of Sub, at i.
Step(b, end, new, f, i) ==
  IF i > Len(b) THEN <<>>
  ELSE IF i \in DOMAIN end THEN new[i] \o f[end[i] + 1]
  ELSE <<b[i]>> \o f[i + 1]

Unfolding(b, end, new, f) == f = [i \in 1 .. Len(b) + 1 |-> Step(b, end, new, f, i)]

\* Some matches in b, each with what replaces it.
Matching(X, b, end, new) ==
  /\ b \in Seq(X) /\ DOMAIN end \subseteq 1 .. Len(b)
  /\ \A i \in DOMAIN end : end[i] \in i .. Len(b) /\ new[i] \in Seq(X)

LEMMA SubUnfolds ==
  ASSUME NEW b, NEW end, NEW new
  PROVE  Sub(b, end, new) = (CHOOSE f : Unfolding(b, end, new, f))[1]
BY Zenon DEF Sub, Unfolding, Step

LEMMA StepType ==
  ASSUME NEW X, NEW b, NEW end, NEW new, Matching(X, b, end, new),
         NEW f \in [1 .. Len(b) + 1 -> Seq(X)], NEW i \in 1 .. Len(b) + 1
  PROVE  Step(b, end, new, f, i) \in Seq(X)
<1>1. b \in Seq(X) /\ Len(b) \in Nat
  BY DEF Matching
<1>2. CASE i > Len(b)
  BY <1>2 DEF Step
<1>3. CASE i <= Len(b) /\ i \in DOMAIN end
  <2>1. end[i] \in i .. Len(b) /\ new[i] \in Seq(X)
    BY <1>3 DEF Matching
  <2>2. f[end[i] + 1] \in Seq(X)
    BY <1>1, <2>1
  <2>3. Step(b, end, new, f, i) = new[i] \o f[end[i] + 1]
    <3>1. ~ (i > Len(b)) /\ i \in DOMAIN end
      BY <1>1, <1>3
    <3> QED
      BY ONLY <3>1 DEF Step
  <2> QED
    BY ONLY <2>1, <2>2, <2>3
<1>4. CASE i <= Len(b) /\ i \notin DOMAIN end
  <2>1. <<b[i]>> \in Seq(X) /\ f[i + 1] \in Seq(X)
    BY <1>1, <1>4
  <2>2. Step(b, end, new, f, i) = <<b[i]>> \o f[i + 1]
    <3>1. ~ (i > Len(b)) /\ i \notin DOMAIN end
      BY <1>1, <1>4
    <3> QED
      BY ONLY <3>1 DEF Step
  <2> QED
    BY ONLY <2>1, <2>2
<1> QED
  BY <1>1, <1>2, <1>3, <1>4

\* The recursion looks behind i only.
LEMMA StepLooksBehind ==
  ASSUME NEW X, NEW b, NEW end, NEW new, Matching(X, b, end, new), NEW f, NEW g,
         NEW i \in 1 .. Len(b) + 1, \A j \in i + 1 .. Len(b) + 1 : f[j] = g[j]
  PROVE  Step(b, end, new, f, i) = Step(b, end, new, g, i)
<1>1. Len(b) \in Nat
  BY DEF Matching
<1>2. CASE i > Len(b)
  BY <1>2 DEF Step
<1>3. CASE i <= Len(b) /\ i \in DOMAIN end
  <2>1. end[i] + 1 \in i + 1 .. Len(b) + 1
    BY <1>1, <1>3 DEF Matching
  <2>2. f[end[i] + 1] = g[end[i] + 1]
    BY <2>1
  <2> QED
    BY <1>3, <2>2 DEF Step
<1>4. CASE i <= Len(b) /\ i \notin DOMAIN end
  <2>1. f[i + 1] = g[i + 1]
    BY <1>1, <1>4
  <2> QED
    BY <1>4, <2>1 DEF Step
<1> QED
  BY <1>1, <1>2, <1>3, <1>4

LEMMA SubExists ==
  ASSUME NEW X, NEW b, NEW end, NEW new, Matching(X, b, end, new)
  PROVE  \E f \in [1 .. Len(b) + 1 -> Seq(X)] :
           \A i \in 1 .. Len(b) + 1 : f[i] = Step(b, end, new, f, i)
<1> DEFINE n      == Len(b)
           From(k) == n + 1 - k .. n + 1
           Has(k) == \E f \in [1 .. n + 1 -> Seq(X)] :
                       \A i \in From(k) : f[i] = Step(b, end, new, f, i)
           T      == { k \in Nat : k <= n => Has(k) }
<1>1. n \in Nat
  BY DEF Matching
<1>2. Has(0)
  <2> DEFINE f == [i \in 1 .. n + 1 |-> <<>>]
  <2>1. f \in [1 .. n + 1 -> Seq(X)]
    OBVIOUS
  <2>2. \A i \in From(0) : f[i] = Step(b, end, new, f, i)
    BY <1>1 DEF Step
  <2> QED
    BY <2>1, <2>2
<1>3. ASSUME NEW k \in Nat, k + 1 <= n, Has(k)
      PROVE  Has(k + 1)
  <2>1. PICK f \in [1 .. n + 1 -> Seq(X)] : \A i \in From(k) : f[i] = Step(b, end, new, f, i)
    BY <1>3
  <2> DEFINE at == n - k
             x  == Step(b, end, new, f, at)
             g  == [f EXCEPT ![at] = x]
  <2>2. at \in 1 .. n + 1 /\ From(k + 1) = {at} \union From(k) /\ at \notin From(k)
    BY <1>1, <1>3
  <2>3. x \in Seq(X)
    BY <2>2, StepType
  <2>4. g \in [1 .. n + 1 -> Seq(X)] /\ g[at] = x /\ \A i \in 1 .. n + 1 : i # at => g[i] = f[i]
    <3> HIDE DEF x, at
    <3> QED
      BY <2>2, <2>3
  <2> HIDE DEF g
  <2>5. ASSUME NEW i \in From(k + 1)
        PROVE  g[i] = Step(b, end, new, g, i)
    <3>1. i \in 1 .. n + 1 /\ \A j \in i + 1 .. n + 1 : j # at
      BY <1>1, <1>3, <2>5
    <3>2. Step(b, end, new, g, i) = Step(b, end, new, f, i)
      <4>1. \A j \in i + 1 .. n + 1 : j \in 1 .. n + 1
        BY <1>1, <3>1
      <4>2. \A j \in i + 1 .. Len(b) + 1 : g[j] = f[j]
        BY <2>4, <3>1, <4>1
      <4> QED
        BY <3>1, <4>2, StepLooksBehind
    <3>3. CASE i = at
      BY <2>4, <3>2, <3>3
    <3>4. CASE i # at
      BY <2>1, <2>2, <2>4, <2>5, <3>1, <3>2, <3>4
    <3> QED
      BY <3>3, <3>4
  <2> QED
    BY <2>4, <2>5
<1> HIDE DEF Has
<1>4. 0 \in T /\ \A k \in Nat : k \in T => k + 1 \in T
  BY <1>1, <1>2, <1>3
<1>5. Has(n)
  <2> HIDE DEF T
  <2>1. \A k \in Nat : k \in T
    BY <1>4, NatSetInduction
  <2> QED
    BY <1>1, <2>1 DEF T
<1>6. From(n) = 1 .. n + 1
  BY <1>1
<1> QED
  BY <1>5, <1>6 DEF Has

\* f holds what is made of b from each position on.
Replacing(b, end, new, f) ==
  /\ f[Len(b) + 1] = <<>>
  /\ \A i \in 1 .. Len(b) : f[i] = IF i \in DOMAIN end THEN new[i] \o f[end[i] + 1]
                                   ELSE <<b[i]>> \o f[i + 1]
  /\ Sub(b, end, new) = f[1]

LEMMA SubFacts ==
  ASSUME NEW X, NEW b, NEW end, NEW new, Matching(X, b, end, new)
  PROVE  \E f \in [1 .. Len(b) + 1 -> Seq(X)] : Replacing(b, end, new, f)
<1> DEFINE n == Len(b)
<1>1. n \in Nat
  BY DEF Matching
<1>2. PICK f \in [1 .. n + 1 -> Seq(X)] : \A i \in 1 .. n + 1 : f[i] = Step(b, end, new, f, i)
  BY SubExists
<1>3. Unfolding(b, end, new, f)
  <2>1. f = [i \in 1 .. n + 1 |-> Step(b, end, new, f, i)]
    BY <1>2
  <2> QED
    BY <2>1 DEF Unfolding
<1> DEFINE h == CHOOSE h : Unfolding(b, end, new, h)
<1>4. Unfolding(b, end, new, h) /\ Sub(b, end, new) = h[1]
  BY <1>3, SubUnfolds
<1> HIDE DEF h
<1>5. \A i \in 1 .. n + 1 : h[i] = Step(b, end, new, h, i)
  BY <1>4 DEF Unfolding
<1> DEFINE T == { k \in Nat : k <= n => h[n + 1 - k] = f[n + 1 - k] }
           V == { k \in Nat : \A j \in 0 .. k : j \in T }
<1>6. \A k \in Nat : (\A j \in 0 .. k - 1 : j \in T) => k \in T
  <2> SUFFICES ASSUME NEW k \in Nat, \A j \in 0 .. k - 1 : j \in T, k <= n
               PROVE  h[n + 1 - k] = f[n + 1 - k]
    OBVIOUS
  <2> DEFINE i == n + 1 - k
  <2>1. i \in 1 .. n + 1
    BY <1>1
  <2>2. \A j \in i + 1 .. n + 1 : h[j] = f[j]
    <3> SUFFICES ASSUME NEW j \in i + 1 .. n + 1
                 PROVE  h[j] = f[j]
      OBVIOUS
    <3>1. n + 1 - j \in 0 .. k - 1 /\ n + 1 - j <= n /\ n + 1 - (n + 1 - j) = j
      BY <1>1, <2>1
    <3>2. n + 1 - j \in T
      BY <3>1
    <3> QED
      BY <3>1, <3>2
  <2>3. Step(b, end, new, h, i) = Step(b, end, new, f, i)
    BY <2>1, <2>2, StepLooksBehind
  <2> QED
    BY <1>2, <1>5, <2>1, <2>3
<1>7. \A k \in Nat : k \in V
  <2>1. 0 \in V
    BY <1>6
  <2>2. \A k \in Nat : k \in V => k + 1 \in V
    <3> HIDE DEF T
    <3> SUFFICES ASSUME NEW k \in Nat, k \in V
                 PROVE  k + 1 \in V
      OBVIOUS
    <3>1. \A j \in 0 .. (k + 1) - 1 : j \in T
      OBVIOUS
    <3>2. k + 1 \in T
      BY <1>6, <3>1
    <3> QED
      BY <3>1, <3>2
  <2> HIDE DEF V
  <2> QED
    BY <2>1, <2>2, NatSetInduction
<1>8. h[1] = f[1]
  <2>1. n \in V
    BY <1>1, <1>7
  <2>2. n \in T
    BY <1>1, <2>1
  <2> QED
    BY <1>1, <2>2
<1>9. f[n + 1] = <<>>
  <2>1. n + 1 \in 1 .. n + 1 /\ n + 1 > Len(b)
    BY <1>1
  <2>2. Step(b, end, new, f, n + 1) = <<>>
    BY ONLY <2>1 DEF Step
  <2> QED
    BY ONLY <1>2, <2>1, <2>2
<1>10. \A i \in 1 .. n : f[i] = IF i \in DOMAIN end THEN new[i] \o f[end[i] + 1]
                                ELSE <<b[i]>> \o f[i + 1]
  <2> TAKE i \in 1 .. n
  <2>1. i \in 1 .. n + 1 /\ ~ (i > Len(b))
    BY <1>1
  <2>2. f[i] = Step(b, end, new, f, i)
    BY ONLY <1>2, <2>1
  <2> QED
    BY ONLY <2>1, <2>2 DEF Step
<1> QED
  BY <1>4, <1>8, <1>9, <1>10 DEF Replacing

\* A property of what is behind a position, by induction from the end.
LEMMA BackwardInduction ==
  ASSUME NEW n \in Nat, NEW T, n + 1 \in T,
         \A i \in 1 .. n : (\A j \in i + 1 .. n + 1 : j \in T) => i \in T
  PROVE  \A i \in 1 .. n + 1 : i \in T
<1> DEFINE V == { k \in Nat : \A j \in n + 1 - k .. n + 1 : j \in 1 .. n + 1 => j \in T }
<1>1. 0 \in V
  OBVIOUS
<1>2. \A k \in Nat : k \in V => k + 1 \in V
  <2> SUFFICES ASSUME NEW k \in Nat, k \in V, NEW j \in n + 1 - (k + 1) .. n + 1, j \in 1 .. n + 1
               PROVE  j \in T
    OBVIOUS
  <2>1. CASE j \in n + 1 - k .. n + 1
    BY <2>1
  <2>2. CASE j \notin n + 1 - k .. n + 1
    <3>1. j = n - k /\ j \in 1 .. n
      BY <2>2
    <3>2. \A i \in j + 1 .. n + 1 : i \in T
      BY <3>1
    <3> QED
      BY <3>1, <3>2
  <2> QED
    BY <2>1, <2>2
<1> HIDE DEF V
<1>3. \A k \in Nat : k \in V
  BY <1>1, <1>2, NatSetInduction
<1>4. n \in V
  BY <1>3
<1> QED
  BY <1>4 DEF V

LEMMA SubSeqSplit ==
  ASSUME NEW X, NEW b \in Seq(X), NEW p \in 1 .. Len(b), NEW e \in p .. Len(b)
  PROVE  SubSeq(b, p, Len(b)) = SubSeq(b, p, e) \o SubSeq(b, e + 1, Len(b))
<1> DEFINE n == Len(b)
           s == SubSeq(b, p, e)
           u == SubSeq(b, e + 1, n)
           w == SubSeq(b, p, n)
<1>1. n \in Nat /\ p \in Int /\ e \in Int /\ p <= e /\ e <= n /\ 1 <= p
  OBVIOUS
<1>2. \A i \in 1 .. n : b[i] \in X
  OBVIOUS
<1>3. /\ s \in Seq(X) /\ Len(s) = e - p + 1 /\ \A i \in 1 .. e - p + 1 : s[i] = b[p + i - 1]
  BY ONLY <1>1, <1>2, SubSeqProperties
<1>4. /\ u \in Seq(X) /\ Len(u) = n - e /\ \A i \in 1 .. n - e : u[i] = b[e + i]
  <2>1. /\ u \in Seq(X) /\ Len(u) = IF e + 1 <= n THEN n - (e + 1) + 1 ELSE 0
        /\ \A i \in 1 .. n - (e + 1) + 1 : u[i] = b[(e + 1) + i - 1]
    BY ONLY <1>1, <1>2, SubSeqProperties
  <2>2. n - (e + 1) + 1 = n - e /\ \A i \in 1 .. n - e : (e + 1) + i - 1 = e + i
    BY ONLY <1>1
  <2> HIDE DEF u, n
  <2> QED
    BY ONLY <1>1, <2>1, <2>2
<1>5. /\ w \in Seq(X) /\ Len(w) = n - p + 1 /\ \A i \in 1 .. n - p + 1 : w[i] = b[p + i - 1]
  BY ONLY <1>1, <1>2, SubSeqProperties
<1> HIDE DEF n, s, u, w
<1>6. /\ s \o u \in Seq(X) /\ Len(s \o u) = Len(s) + Len(u)
      /\ \A i \in 1 .. Len(s) : (s \o u)[i] = s[i]
      /\ \A i \in 1 .. Len(u) : (s \o u)[Len(s) + i] = u[i]
  <2>1. s \in Seq(X) /\ u \in Seq(X)
    BY ONLY <1>3, <1>4
  <2> QED
    BY ONLY <2>1, CatFacts
<1> DEFINE c == s \o u
<1>7. c \in Seq(X) /\ Len(c) = n - p + 1
  BY ONLY <1>1, <1>3, <1>4, <1>6
<1>8. ASSUME NEW i \in 1 .. n - p + 1
      PROVE  w[i] = c[i]
  <2>1. CASE i \in 1 .. e - p + 1
    BY ONLY <1>3, <1>5, <1>6, <2>1, i \in 1 .. n - p + 1
  <2>2. CASE i \notin 1 .. e - p + 1
    <3> DEFINE k == i - (e - p + 1)
    <3>1. k \in 1 .. n - e /\ (e - p + 1) + k = i /\ e + k = p + i - 1
      BY ONLY <1>1, <2>2, i \in 1 .. n - p + 1
    <3> HIDE DEF k
    <3>2. (s \o u)[Len(s) + k] = u[k]
      BY ONLY <1>4, <1>6, <3>1
    <3>3. c[i] = u[k]
      BY ONLY <1>3, <3>1, <3>2
    <3> QED
      BY ONLY <1>4, <1>5, <3>1, <3>3, i \in 1 .. n - p + 1
  <2> QED
    BY <2>1, <2>2
<1> HIDE DEF c
<1>9. w = c
  <2>1. DOMAIN w = 1 .. n - p + 1 /\ DOMAIN c = 1 .. n - p + 1
    BY ONLY <1>1, <1>5, <1>7
  <2> QED
    BY ONLY <1>5, <1>7, <1>8, <2>1
<1> QED
  BY <1>9 DEF c, s, u, w, n

\* What is replaced, and what replaces it, has none of some tokens: they are kept.
LEMMA SubKeeps ==
  ASSUME NEW X, NEW b, NEW end, NEW new, Matching(X, b, end, new), NEW tokens,
         \A i \in DOMAIN end : /\ ToSet(new[i]) \intersect tokens = {}
                               /\ \A j \in i .. end[i] : b[j] \notin tokens
  PROVE  Only(Sub(b, end, new), tokens) = Only(b, tokens)
<1> DEFINE n == Len(b)
           Rest(p) == SubSeq(b, p, n)
<1>1. /\ b \in Seq(X) /\ n \in Nat /\ DOMAIN end \subseteq 1 .. n
      /\ \A i \in DOMAIN end : end[i] \in i .. n /\ new[i] \in Seq(X)
      /\ \A i \in 1 .. n : b[i] \in X
  BY DEF Matching
<1>2. PICK f \in [1 .. n + 1 -> Seq(X)] : Replacing(b, end, new, f)
  BY SubFacts
<1>3. /\ f[n + 1] = <<>> /\ Sub(b, end, new) = f[1] /\ \A i \in 1 .. n + 1 : f[i] \in Seq(X)
      /\ \A i \in 1 .. n : f[i] = IF i \in DOMAIN end THEN new[i] \o f[end[i] + 1]
                                  ELSE <<b[i]>> \o f[i + 1]
  BY <1>2 DEF Replacing
<1>4. \A p \in 1 .. n + 1 : Rest(p) \in Seq(X)
  <2> TAKE p \in 1 .. n + 1
  <2>1. p \in Int /\ n \in Int /\ \A i \in p .. n : b[i] \in X
    BY <1>1
  <2> QED
    BY ONLY <2>1, SubSeqProperties
<1> DEFINE T == { p \in 1 .. n + 1 : Only(f[p], tokens) = Only(Rest(p), tokens) }
<1>5. n + 1 \in T
  <2>1. Rest(n + 1) = <<>>
    BY <1>1, SubSeqEmpty
  <2>2. n + 1 \in 1 .. n + 1
    BY <1>1
  <2>3. Only(f[n + 1], tokens) = Only(Rest(n + 1), tokens)
    BY <1>3, <2>1
  <2> QED
    BY <2>2, <2>3
<1>6. \A i \in 1 .. n : (\A j \in i + 1 .. n + 1 : j \in T) => i \in T
  <2> SUFFICES ASSUME NEW i \in 1 .. n, \A j \in i + 1 .. n + 1 : j \in T
               PROVE  Only(f[i], tokens) = Only(Rest(i), tokens)
    OBVIOUS
  <2>1. CASE i \in DOMAIN end
    <3> DEFINE e == end[i]
               r == f[e + 1]
               x == new[i]
               s == SubSeq(b, i, e)
               u == Rest(e + 1)
    <3>1. e \in i .. n /\ e + 1 \in i + 1 .. n + 1 /\ e + 1 \in 1 .. n + 1 /\ x \in Seq(X)
      BY <1>1, <2>1
    <3>2. f[i] = x \o r /\ r \in Seq(X) /\ u \in Seq(X)
      <4>1. f[i] = x \o r
        BY ONLY <1>3, <2>1, i \in 1 .. n
      <4>2. r \in Seq(X) /\ u \in Seq(X)
        BY <1>3, <1>4, <3>1
      <4> QED
        BY ONLY <4>1, <4>2
    <3>3. Rest(i) = s \o u
      BY <1>1, <3>1, SubSeqSplit
    <3>4. s \in Seq(X) /\ ToSet(s) \intersect tokens = {}
      <4>1. i \in Int /\ e \in Int /\ \A j \in i .. e : b[j] \in X
        BY <1>1, <3>1
      <4>2. /\ s \in Seq(X) /\ Len(s) = IF i <= e THEN e - i + 1 ELSE 0
            /\ \A j \in 1 .. e - i + 1 : s[j] = b[i + j - 1]
        BY ONLY <4>1, SubSeqProperties
      <4>3. DOMAIN s = 1 .. e - i + 1 /\ \A j \in 1 .. e - i + 1 : i + j - 1 \in i .. e
        <5> HIDE DEF s, e
        <5> QED
          BY ONLY <3>1, <4>1, <4>2
      <4>4. \A j \in DOMAIN s : s[j] \notin tokens
        <5>1. \A j \in i .. e : b[j] \notin tokens
          BY <2>1
        <5> QED
          BY ONLY <4>2, <4>3, <5>1
      <4> QED
        BY <4>2, <4>4 DEF ToSet
    <3>5. Only(r, tokens) = Only(u, tokens)
      <4>1. e + 1 \in T
        BY <3>1
      <4> QED
        BY <4>1
    <3>6. ToSet(x) \intersect tokens = {}
      BY <2>1
    <3> HIDE DEF e, r, x, s, u
    <3>7. Only(x, tokens) = <<>> /\ Only(s, tokens) = <<>>
      BY ONLY <3>1, <3>4, <3>6, OnlyNone
    <3>8. x \in Seq(X) /\ r \in Seq(X) /\ s \in Seq(X) /\ u \in Seq(X)
      BY ONLY <3>1, <3>2, <3>4
    <3>9. Only(x \o r, tokens) = Only(x, tokens) \o Only(r, tokens)
      BY ONLY <3>8, OnlyCat, SMTT(30)
    <3>10. Only(s \o u, tokens) = Only(s, tokens) \o Only(u, tokens)
      BY ONLY <3>8, OnlyCat, SMTT(30)
    <3> QED
      BY ONLY <3>2, <3>3, <3>5, <3>7, <3>9, <3>10
  <2>2. CASE i \notin DOMAIN end
    <3> DEFINE r == f[i + 1]
               x == <<b[i]>>
               u == Rest(i + 1)
    <3>1. i + 1 \in i + 1 .. n + 1 /\ i + 1 \in 1 .. n + 1 /\ b[i] \in X
      BY <1>1
    <3>2. f[i] = x \o r /\ r \in Seq(X) /\ u \in Seq(X) /\ x \in Seq(X)
      <4>1. f[i] = x \o r
        BY ONLY <1>3, <2>2, i \in 1 .. n
      <4>2. r \in Seq(X) /\ u \in Seq(X) /\ x \in Seq(X)
        BY <1>3, <1>4, <3>1
      <4> QED
        BY ONLY <4>1, <4>2
    <3>3. Rest(i) = x \o u
      <4>1. n \in i .. Len(b)
        BY <1>1
      <4> QED
        BY <1>1, <4>1, SubSeqRecursiveFirst
    <3>4. Only(r, tokens) = Only(u, tokens)
      <4>1. i + 1 \in T
        BY <3>1
      <4> QED
        BY <4>1
    <3> HIDE DEF r, x, u
    <3>5. r \in Seq(X) /\ u \in Seq(X) /\ x \in Seq(X)
      BY ONLY <3>2
    <3>6. Only(x \o r, tokens) = Only(x, tokens) \o Only(r, tokens)
      BY ONLY <3>5, OnlyCat, SMTT(30)
    <3>7. Only(x \o u, tokens) = Only(x, tokens) \o Only(u, tokens)
      BY ONLY <3>5, OnlyCat
    <3> QED
      BY ONLY <3>2, <3>3, <3>4, <3>6, <3>7
  <2> QED
    BY <2>1, <2>2
<1>7. 1 \in T
  <2> HIDE DEF T
  <2>1. \A i \in 1 .. n + 1 : i \in T
    BY ONLY <1>1, <1>5, <1>6, BackwardInduction
  <2> QED
    BY ONLY <1>1, <2>1
<1>8. Rest(1) = b
  BY <1>1, SubSeqFull
<1> QED
  BY <1>3, <1>7, <1>8

\* The match at m has all of some tokens, and what replaces it none: they are gone.
LEMMA SubDrops ==
  ASSUME NEW X, NEW b, NEW end, NEW new, Matching(X, b, end, new), NEW tokens,
         NEW m \in DOMAIN end,
         \A i \in DOMAIN end : ToSet(new[i]) \intersect tokens = {} /\ (i < m => end[i] < m),
         \A j \in 1 .. Len(b) : b[j] \in tokens => j \in m .. end[m]
  PROVE  /\ ToSet(Sub(b, end, new)) \intersect tokens = {}
         /\ ToSet(new[m]) \subseteq ToSet(Sub(b, end, new))
<1> DEFINE n == Len(b)
<1>1. /\ b \in Seq(X) /\ n \in Nat /\ DOMAIN end \subseteq 1 .. n
      /\ \A i \in DOMAIN end : end[i] \in i .. n /\ new[i] \in Seq(X)
      /\ \A i \in 1 .. n : b[i] \in X
  BY DEF Matching
<1>2. PICK f \in [1 .. n + 1 -> Seq(X)] : Replacing(b, end, new, f)
  BY SubFacts
<1>3. /\ f[n + 1] = <<>> /\ Sub(b, end, new) = f[1] /\ \A i \in 1 .. n + 1 : f[i] \in Seq(X)
      /\ \A i \in 1 .. n : f[i] = IF i \in DOMAIN end THEN new[i] \o f[end[i] + 1]
                                  ELSE <<b[i]>> \o f[i + 1]
  BY <1>2 DEF Replacing
<1>4. m \in 1 .. n /\ end[m] \in m .. n
  BY <1>1
<1> HIDE DEF n
<1> DEFINE Fine(p) == /\ ToSet(f[p]) \intersect tokens = {}
                      /\ p <= m => ToSet(new[m]) \subseteq ToSet(f[p])
           T == { p \in 1 .. n + 1 : p \notin m + 1 .. end[m] => Fine(p) }
<1>5. n + 1 \in T
  <2>1. ToSet(<<>>) = {}
    BY DEF ToSet
  <2> QED
    BY ONLY <1>1, <1>3, <1>4, <2>1
<1>6. \A i \in 1 .. n : (\A j \in i + 1 .. n + 1 : j \in T) => i \in T
  <2> SUFFICES ASSUME NEW i \in 1 .. n, \A j \in i + 1 .. n + 1 : j \in T,
                      i \notin m + 1 .. end[m]
               PROVE  Fine(i)
    <3>1. \A i \in 1 .. n : i \in 1 .. n + 1
      BY <1>1
    <3> HIDE DEF Fine
    <3> QED
      BY <3>1
  <2>1. CASE i \in DOMAIN end
    <3> DEFINE e == end[i]
               r == f[e + 1]
               x == new[i]
    <3>1. e \in i .. n /\ e + 1 \in i + 1 .. n + 1 /\ e + 1 \in 1 .. n + 1 /\ x \in Seq(X)
      BY <1>1, <2>1, SMTT(30)
    <3>2. f[i] = x \o r /\ r \in Seq(X)
      <4>1. f[i] = x \o r
        BY ONLY <1>3, <2>1, i \in 1 .. n
      <4>2. r \in Seq(X)
        BY <1>3, <3>1
      <4> QED
        BY ONLY <4>1, <4>2
    <3>3. ToSet(f[i]) = ToSet(x) \union ToSet(r)
      <4> HIDE DEF x, r
      <4> QED
        BY ONLY <3>1, <3>2, CatSet
    <3>4. e + 1 \notin m + 1 .. end[m] /\ (i < m => e + 1 <= m)
      <4>1. i < m => e < m
        BY <2>1
      <4>2. i = m => e = end[m]
        OBVIOUS
      <4> DEFINE z == end[m]
      <4>3. i > m => i > z
        BY <1>1, <1>4
      <4>4. m \in Int /\ z \in Int /\ m <= z /\ i \in Int /\ e \in Int /\ i <= e
        BY <1>1, <1>4, <3>1
      <4>5. i = m => e = z
        BY <4>2
      <4> HIDE DEF e, z
      <4>6. e + 1 \notin m + 1 .. z /\ (i < m => e + 1 <= m)
        BY ONLY <4>1, <4>3, <4>4, <4>5
      <4> QED
        BY <4>6 DEF z
    <3>5. Fine(e + 1)
      <4>1. e + 1 \in T
        BY <3>1
      <4> QED
        BY <3>4, <4>1
    <3>6. ToSet(x) \intersect tokens = {} /\ (i = m => x = new[m])
      BY <2>1
    <3>7. i <= m => i < m \/ i = m
      BY <1>1, <1>4
    <3> HIDE DEF e, x
    <3> QED
      BY ONLY <3>3, <3>4, <3>5, <3>6, <3>7
  <2>2. CASE i \notin DOMAIN end
    <3> DEFINE r == f[i + 1]
               x == <<b[i]>>
    <3>1. i + 1 \in i + 1 .. n + 1 /\ i + 1 \in 1 .. n + 1 /\ b[i] \in X
      BY <1>1
    <3>2. f[i] = x \o r /\ r \in Seq(X) /\ x \in Seq(X)
      <4>1. f[i] = x \o r
        BY ONLY <1>3, <2>2, i \in 1 .. n
      <4>2. r \in Seq(X) /\ x \in Seq(X)
        BY <1>3, <3>1
      <4> QED
        BY ONLY <4>1, <4>2
    <3>3. i # m
      BY <2>2
    <3>4. i + 1 \notin m + 1 .. end[m] /\ (i <= m => i + 1 <= m) /\ i \notin m .. end[m]
      BY <1>1, <1>4, <3>3
    <3>5. Fine(i + 1)
      <4>1. i + 1 \in T
        BY <3>1
      <4> QED
        BY <3>4, <4>1
    <3>6. ToSet(x) = {b[i]} /\ b[i] \notin tokens
      <4>1. b[i] \notin tokens
        BY <3>4 DEF n
      <4> QED
        BY <4>1 DEF ToSet
    <3>7. ToSet(f[i]) = ToSet(x) \union ToSet(r)
      <4> HIDE DEF x, r
      <4> QED
        BY ONLY <3>2, CatSet
    <3> HIDE DEF x
    <3> QED
      BY ONLY <3>4, <3>5, <3>6, <3>7
  <2> QED
    BY <2>1, <2>2
<1>7. 1 \in T
  <2> HIDE DEF T
  <2>1. \A i \in 1 .. n + 1 : i \in T
    BY ONLY <1>1, <1>5, <1>6, BackwardInduction
  <2> QED
    BY ONLY <1>1, <2>1
<1>8. 1 \notin m + 1 .. end[m] /\ 1 <= m
  BY <1>4
<1> QED
  BY <1>3, <1>7, <1>8

------------------------------------------------------------------------------
(* Tokens.                                                                  *)

Marks  == {Quote, Backslash, Colon, Comma, Equals, Amp, Space, Bracket}
Names  == SecretNames \union ToSet(UsernameFields)
Tokens == Marks \union { Name(n) : n \in Names } \union { Part(i, k) : i \in Nat, k \in 1 .. 2 }

LEMMA MarksDiffer ==
  /\ Quote # Backslash /\ Quote # Colon /\ Quote # Comma /\ Quote # Equals
  /\ Quote # Amp /\ Quote # Space /\ Quote # Bracket
  /\ Backslash # Colon /\ Colon # Comma /\ Colon # Equals
  /\ Equals # Amp /\ Equals # Space /\ Amp # Space /\ Amp # Colon /\ Space # Colon
  /\ Bracket # Colon /\ Bracket # Comma /\ Comma # Quote
BY DEF Quote, Backslash, Colon, Comma, Equals, Amp, Space, Bracket, Mark

LEMMA KindsDiffer ==
  /\ \A m \in Marks : \A n : m # Name(n)
  /\ \A m \in Marks : \A i, k : m # Part(i, k)
  /\ \A m \in Marks : \A v : m # Digest(v)
  /\ \A n, i, k : Name(n) # Part(i, k)
  /\ \A n, v : Name(n) # Digest(v)
  /\ \A i, k, v : Part(i, k) # Digest(v)
BY DEF Marks, Quote, Backslash, Colon, Comma, Equals, Amp, Space, Bracket,
       Mark, Name, Part, Digest

LEMMA TokensTell ==
  /\ \A m, n : Name(m) = Name(n) => m = n
  /\ \A i, j, k, l : Part(i, k) = Part(j, l) => i = j /\ k = l
BY DEF Name, Part

LEMMA TokensType ==
  /\ Marks \subseteq Tokens
  /\ \A n \in Names : Name(n) \in Tokens
  /\ \A i \in Nat : Part(i, 1) \in Tokens /\ Part(i, 2) \in Tokens
BY DEF Tokens

------------------------------------------------------------------------------
(* What is sent.                                                            *)

RedactInv ==
  /\ place \in {"json", "form", "other", "query"}
  /\ fields \in Seq([name : Names, form : Forms])
  /\ limit \in Nat

LEMMA FieldType ==
  ASSUME RedactInv, NEW k \in 1 .. Len(fields)
  PROVE  k \in Nat /\ fields[k].name \in Names /\ fields[k].form \in Forms
<1> DEFINE F == [name : Names, form : Forms]
<1>1. fields \in Seq(F)
  BY DEF RedactInv
<1>2. \A x \in F : x.name \in Names /\ x.form \in Forms
  OBVIOUS
<1> HIDE DEF F
<1>3. fields[k] \in F
  BY <1>1
<1> QED
  BY <1>2, <1>3

\* w is t between s and u.
Wraps(w, s, t, u) ==
  /\ Len(w) = Len(s) + Len(t) + Len(u)
  /\ \A i \in 1 .. Len(s) : w[i] = s[i]
  /\ \A i \in 1 .. Len(t) : w[Len(s) + i] = t[i]
  /\ \A i \in 1 .. Len(u) : w[Len(s) + Len(t) + i] = u[i]

LEMMA WrapFacts ==
  ASSUME NEW X, NEW s \in Seq(X), NEW t \in Seq(X), NEW u \in Seq(X)
  PROVE  s \o t \o u \in Seq(X) /\ Wraps(s \o t \o u, s, t, u)
<1> DEFINE c == s \o t
           d == c \o u
<1>1. Len(s) \in Nat /\ Len(t) \in Nat /\ Len(u) \in Nat
  OBVIOUS
<1>2. /\ c \in Seq(X) /\ Len(c) = Len(s) + Len(t)
      /\ \A i \in 1 .. Len(s) : c[i] = s[i]
      /\ \A i \in 1 .. Len(t) : c[Len(s) + i] = t[i]
  BY CatFacts
<1> HIDE DEF c
<1>3. /\ d \in Seq(X) /\ Len(d) = Len(c) + Len(u)
      /\ \A i \in 1 .. Len(c) : d[i] = c[i]
      /\ \A i \in 1 .. Len(u) : d[Len(c) + i] = u[i]
  <2>1. c \in Seq(X) /\ u \in Seq(X)
    BY <1>2
  <2> QED
    BY ONLY <2>1, CatFacts
<1> HIDE DEF d
<1>4. \A i \in 1 .. Len(s) : d[i] = s[i]
  BY <1>1, <1>2, <1>3
<1>5. \A i \in 1 .. Len(t) : d[Len(s) + i] = t[i]
  <2> TAKE i \in 1 .. Len(t)
  <2>1. Len(s) + i \in 1 .. Len(c)
    BY <1>1, <1>2
  <2> QED
    BY <1>2, <1>3, <2>1
<1>6. \A i \in 1 .. Len(u) : d[Len(s) + Len(t) + i] = u[i]
  BY <1>2, <1>3
<1>7. Len(d) = Len(s) + Len(t) + Len(u)
  BY <1>2, <1>3
<1>8. d \in Seq(X) /\ Wraps(d, s, t, u)
  BY ONLY <1>3, <1>4, <1>5, <1>6, <1>7 DEF Wraps
<1> QED
  BY <1>8 DEF c, d

\* The parts of a value, one by one.
IsValue(i, v) ==
  /\ v \in Seq(Tokens)
  /\ fields[i].form = "blank" => Len(v) = 0
  /\ fields[i].form = "escaped" =>
       Len(v) = 4 /\ v[1] = Part(i, 1) /\ v[2] = Backslash /\ v[3] = Quote /\ v[4] = Part(i, 2)
  /\ fields[i].form \notin {"blank", "escaped"} =>
       Len(v) = 2 /\ v[1] = Part(i, 1) /\ v[2] = Part(i, 2)

LEMMA ValueIs ==
  ASSUME NEW i \in Nat
  PROVE  IsValue(i, Value(i))
<1>1. Part(i, 1) \in Tokens /\ Part(i, 2) \in Tokens /\ Backslash \in Tokens /\ Quote \in Tokens
  BY TokensType DEF Marks
<1> DEFINE a == Part(i, 1)
           b == Part(i, 2)
           f == fields[i].form
<1>2. /\ <<a, Backslash, Quote, b>> \in Seq(Tokens) /\ <<a, b>> \in Seq(Tokens)
      /\ <<>> \in Seq(Tokens)
  <2> HIDE DEF a, b
  <2> QED
    BY <1>1 DEF a, b
<1>3. Value(i) = IF f = "blank" THEN <<>>
                 ELSE IF f = "escaped" THEN <<a, Backslash, Quote, b>> ELSE <<a, b>>
  BY DEF Value
<1> HIDE DEF a, b, f
<1>4. \/ f = "blank" /\ Value(i) = <<>>
      \/ f = "escaped" /\ Value(i) = <<a, Backslash, Quote, b>>
      \/ f \notin {"blank", "escaped"} /\ Value(i) = <<a, b>>
  BY <1>3
<1>5. f = "blank" /\ Value(i) = <<>> => IsValue(i, Value(i))
  BY <1>2 DEF IsValue, f
<1>6. f = "escaped" /\ Value(i) = <<a, Backslash, Quote, b>> => IsValue(i, Value(i))
  BY <1>2 DEF IsValue, f, a, b
<1>7. f \notin {"blank", "escaped"} /\ Value(i) = <<a, b>> => IsValue(i, Value(i))
  BY <1>2 DEF IsValue, f, a, b
<1> QED
  BY <1>4, <1>5, <1>6, <1>7

\* A field of a JSON body, token by token.
IsJsonField(k, w) ==
  LET v == Value(k)
      f == fields[k].form
  IN /\ w \in Seq(Tokens)
     /\ w[1] = Quote /\ w[2] = Name(fields[k].name) /\ w[3] = Quote /\ w[4] = Colon
     /\ f = "number" => Len(w) = 4 + Len(v) /\ \A i \in 1 .. Len(v) : w[4 + i] = v[i]
     /\ f = "list" => /\ Len(w) = 8 + Len(v) /\ \A i \in 1 .. Len(v) : w[6 + i] = v[i]
                      /\ w[5] = Bracket /\ w[6] = Quote
                      /\ w[7 + Len(v)] = Quote /\ w[8 + Len(v)] = Bracket
     /\ f \notin {"number", "list"} =>
          /\ Len(w) = 6 + Len(v) /\ \A i \in 1 .. Len(v) : w[5 + i] = v[i]
          /\ w[5] = Quote /\ w[6 + Len(v)] = Quote

\* A field of another body, or of the query.
IsPlainField(k, w) ==
  LET v == Value(k)
  IN /\ w \in Seq(Tokens) /\ Len(w) = 2 + Len(v)
     /\ w[1] = Name(fields[k].name)
     /\ w[2] = IF fields[k].form = "colon" THEN Colon ELSE Equals
     /\ \A i \in 1 .. Len(v) : w[2 + i] = v[i]

LEMMA InJsonFacts ==
  ASSUME NEW k \in Nat
  PROVE  LET v == Value(k)
             w == InJson(k)
             f == fields[k].form
         IN /\ w \in Seq(Tokens)
            /\ f = "number" => Len(w) = Len(v) /\ \A i \in 1 .. Len(v) : w[i] = v[i]
            /\ f = "list" => /\ Len(w) = 4 + Len(v) /\ \A i \in 1 .. Len(v) : w[2 + i] = v[i]
                             /\ w[1] = Bracket /\ w[2] = Quote
                             /\ w[3 + Len(v)] = Quote /\ w[4 + Len(v)] = Bracket
            /\ f \notin {"number", "list"} =>
                 /\ Len(w) = 2 + Len(v) /\ \A i \in 1 .. Len(v) : w[1 + i] = v[i]
                 /\ w[1] = Quote /\ w[2 + Len(v)] = Quote
<1> DEFINE v == Value(k)
           f == fields[k].form
           a == <<Bracket, Quote>>
           b == <<Quote, Bracket>>
           q == <<Quote>>
<1>1. v \in Seq(Tokens) /\ Len(v) \in Nat
  BY ValueIs DEF IsValue
<1>2. Quote \in Tokens /\ Bracket \in Tokens
  BY TokensType DEF Marks
<1>3. /\ a \in Seq(Tokens) /\ b \in Seq(Tokens) /\ q \in Seq(Tokens)
      /\ Len(a) = 2 /\ a[1] = Bracket /\ a[2] = Quote
      /\ Len(b) = 2 /\ b[1] = Quote /\ b[2] = Bracket
      /\ Len(q) = 1 /\ q[1] = Quote
  BY <1>2
<1>4. InJson(k) = IF f = "number" THEN v ELSE IF f = "list" THEN a \o v \o b ELSE q \o v \o q
  BY DEF InJson
<1> HIDE DEF v, f, a, b, q
<1>5. CASE f = "number"
  <2>1. InJson(k) = v
    BY <1>4, <1>5
  <2> QED
    BY <1>1, <1>5, <2>1 DEF v, f
<1>6. CASE f = "list"
  <2> DEFINE w == a \o v \o b
  <2>1. InJson(k) = w
    BY <1>4, <1>6
  <2>2. /\ w \in Seq(Tokens) /\ Len(w) = Len(a) + Len(v) + Len(b)
        /\ \A i \in 1 .. Len(a) : w[i] = a[i]
        /\ \A i \in 1 .. Len(v) : w[Len(a) + i] = v[i]
        /\ \A i \in 1 .. Len(b) : w[Len(a) + Len(v) + i] = b[i]
    <3>1. a \in Seq(Tokens) /\ v \in Seq(Tokens) /\ b \in Seq(Tokens)
      BY ONLY <1>1, <1>3
    <3>2. Wraps(w, a, v, b)
      BY ONLY <3>1, WrapFacts
    <3>3. w \in Seq(Tokens)
      BY ONLY <3>1, WrapFacts
    <3> QED
      BY ONLY <3>2, <3>3 DEF Wraps
  <2> HIDE DEF w
  <2>3. /\ Len(w) = 4 + Len(v) /\ \A i \in 1 .. Len(v) : w[2 + i] = v[i]
        /\ w[1] = Bracket /\ w[2] = Quote
    BY ONLY <1>1, <1>3, <2>2
  <2>4. w[3 + Len(v)] = Quote /\ w[4 + Len(v)] = Bracket
    <3>1. /\ 1 \in 1 .. Len(b) /\ 2 \in 1 .. Len(b) /\ Len(a) + Len(v) + 1 = 3 + Len(v)
          /\ Len(a) + Len(v) + 2 = 4 + Len(v)
      BY ONLY <1>1, <1>3
    <3> QED
      BY ONLY <1>3, <2>2, <3>1
  <2> QED
    BY <1>6, <2>1, <2>2, <2>3, <2>4 DEF v, f
<1>7. CASE f \notin {"number", "list"}
  <2> DEFINE w == q \o v \o q
  <2>1. InJson(k) = w
    BY <1>4, <1>7
  <2>2. /\ w \in Seq(Tokens) /\ Len(w) = Len(q) + Len(v) + Len(q)
        /\ \A i \in 1 .. Len(q) : w[i] = q[i]
        /\ \A i \in 1 .. Len(v) : w[Len(q) + i] = v[i]
        /\ \A i \in 1 .. Len(q) : w[Len(q) + Len(v) + i] = q[i]
    <3>1. q \in Seq(Tokens) /\ v \in Seq(Tokens)
      BY ONLY <1>1, <1>3
    <3>2. Wraps(w, q, v, q)
      BY ONLY <3>1, WrapFacts
    <3>3. w \in Seq(Tokens)
      BY ONLY <3>1, WrapFacts
    <3> QED
      BY ONLY <3>2, <3>3 DEF Wraps
  <2> HIDE DEF w
  <2>3. /\ Len(w) = 2 + Len(v) /\ \A i \in 1 .. Len(v) : w[1 + i] = v[i]
        /\ w[1] = Quote
    BY ONLY <1>1, <1>3, <2>2
  <2>4. w[2 + Len(v)] = Quote
    <3>1. 1 \in 1 .. Len(q) /\ Len(q) + Len(v) + 1 = 2 + Len(v)
      BY ONLY <1>1, <1>3
    <3> QED
      BY ONLY <1>3, <2>2, <3>1
  <2> QED
    BY <1>7, <2>1, <2>2, <2>3, <2>4 DEF v, f
<1> QED
  BY <1>5, <1>6, <1>7

LEMMA WrittenIs ==
  ASSUME RedactInv, NEW k \in 1 .. Len(fields)
  PROVE  IF place = "json" THEN IsJsonField(k, Written(k)) ELSE IsPlainField(k, Written(k))
<1> DEFINE n == Name(fields[k].name)
           v == Value(k)
<1>1. k \in Nat /\ n \in Tokens
  <2>1. k \in Nat /\ fields[k].name \in Names
    BY FieldType
  <2> QED
    BY <2>1, TokensType
<1>2. v \in Seq(Tokens) /\ Len(v) \in Nat
  BY <1>1, ValueIs DEF IsValue
<1>3. Quote \in Tokens /\ Colon \in Tokens /\ Equals \in Tokens
  BY TokensType DEF Marks
<1> HIDE DEF n, v
<1>4. CASE place = "json"
  <2> DEFINE h == <<Quote, n, Quote, Colon>>
             u == InJson(k)
             w == h \o u
  <2>1. /\ h \in Seq(Tokens) /\ Len(h) = 4
        /\ h[1] = Quote /\ h[2] = n /\ h[3] = Quote /\ h[4] = Colon
    BY <1>1, <1>3
  <2>2. Written(k) = w
    BY <1>4 DEF Written, n
  <2>3. /\ u \in Seq(Tokens)
        /\ fields[k].form = "number" => Len(u) = Len(v) /\ \A i \in 1 .. Len(v) : u[i] = v[i]
        /\ fields[k].form = "list" =>
             /\ Len(u) = 4 + Len(v) /\ \A i \in 1 .. Len(v) : u[2 + i] = v[i]
             /\ u[1] = Bracket /\ u[2] = Quote
             /\ u[3 + Len(v)] = Quote /\ u[4 + Len(v)] = Bracket
        /\ fields[k].form \notin {"number", "list"} =>
             /\ Len(u) = 2 + Len(v) /\ \A i \in 1 .. Len(v) : u[1 + i] = v[i]
             /\ u[1] = Quote /\ u[2 + Len(v)] = Quote
    BY <1>1, InJsonFacts DEF v
  <2> HIDE DEF h, u
  <2>4. /\ w \in Seq(Tokens) /\ Len(w) = Len(h) + Len(u)
        /\ \A i \in 1 .. Len(h) : w[i] = h[i]
        /\ \A i \in 1 .. Len(u) : w[Len(h) + i] = u[i]
    <3>1. h \in Seq(Tokens) /\ u \in Seq(Tokens)
      BY ONLY <2>1, <2>3
    <3> QED
      BY ONLY <3>1, CatFacts
  <2> HIDE DEF w
  <2>5. w \in Seq(Tokens) /\ w[1] = Quote /\ w[2] = n /\ w[3] = Quote /\ w[4] = Colon
    BY ONLY <2>1, <2>4
  <2>6. Len(w) = 4 + Len(u) /\ \A i \in 1 .. Len(u) : w[4 + i] = u[i]
    BY ONLY <2>1, <2>4
  <2>7. ASSUME fields[k].form = "number"
        PROVE  Len(w) = 4 + Len(v) /\ \A i \in 1 .. Len(v) : w[4 + i] = v[i]
    BY ONLY <2>3, <2>6, <2>7
  <2>8. ASSUME fields[k].form = "list"
        PROVE  /\ Len(w) = 8 + Len(v) /\ \A i \in 1 .. Len(v) : w[6 + i] = v[i]
               /\ w[5] = Bracket /\ w[6] = Quote
               /\ w[7 + Len(v)] = Quote /\ w[8 + Len(v)] = Bracket
    <3>1. /\ 1 \in 1 .. Len(u) /\ 2 \in 1 .. Len(u) /\ 3 + Len(v) \in 1 .. Len(u)
          /\ 4 + Len(v) \in 1 .. Len(u)
          /\ \A i \in 1 .. Len(v) : 2 + i \in 1 .. Len(u) /\ 4 + (2 + i) = 6 + i
          /\ 4 + (3 + Len(v)) = 7 + Len(v) /\ 4 + (4 + Len(v)) = 8 + Len(v)
          /\ 4 + 1 = 5 /\ 4 + 2 = 6
      BY ONLY <1>2, <2>3, <2>8
    <3> QED
      BY ONLY <1>2, <2>3, <2>6, <2>8, <3>1
  <2>9. ASSUME fields[k].form \notin {"number", "list"}
        PROVE  /\ Len(w) = 6 + Len(v) /\ \A i \in 1 .. Len(v) : w[5 + i] = v[i]
               /\ w[5] = Quote /\ w[6 + Len(v)] = Quote
    <3>1. /\ 1 \in 1 .. Len(u) /\ 2 + Len(v) \in 1 .. Len(u)
          /\ \A i \in 1 .. Len(v) : 1 + i \in 1 .. Len(u) /\ 4 + (1 + i) = 5 + i
          /\ 4 + (2 + Len(v)) = 6 + Len(v) /\ 4 + 1 = 5
      BY ONLY <1>2, <2>3, <2>9
    <3> QED
      BY ONLY <1>2, <2>3, <2>6, <2>9, <3>1
  <2>10. IsJsonField(k, w)
    BY ONLY <2>5, <2>7, <2>8, <2>9 DEF IsJsonField, n, v
  <2> QED
    BY <1>4, <2>2, <2>10
<1>5. CASE place # "json"
  <2> DEFINE e == IF fields[k].form = "colon" THEN Colon ELSE Equals
             h == <<n, e>>
             w == h \o v
  <2>1. e \in Tokens
    BY <1>3
  <2>2. Written(k) = w
    BY <1>5 DEF Written, n, v
  <2> HIDE DEF e
  <2>3. h \in Seq(Tokens) /\ Len(h) = 2 /\ h[1] = n /\ h[2] = e
    BY <1>1, <2>1
  <2> HIDE DEF h
  <2>4. /\ w \in Seq(Tokens) /\ Len(w) = Len(h) + Len(v)
        /\ \A i \in 1 .. Len(h) : w[i] = h[i]
        /\ \A i \in 1 .. Len(v) : w[Len(h) + i] = v[i]
    <3>1. h \in Seq(Tokens) /\ v \in Seq(Tokens)
      BY ONLY <1>2, <2>3
    <3> QED
      BY ONLY <3>1, CatFacts
  <2> HIDE DEF w
  <2>5. /\ w \in Seq(Tokens) /\ Len(w) = 2 + Len(v) /\ w[1] = n /\ w[2] = e
        /\ \A i \in 1 .. Len(v) : w[2 + i] = v[i]
    BY ONLY <1>2, <2>3, <2>4
  <2>6. IsPlainField(k, w)
    BY ONLY <2>5 DEF IsPlainField, n, v, e
  <2> QED
    BY <1>5, <2>2, <2>6
<1> QED
  BY <1>4, <1>5

LEMMA WrittenType ==
  ASSUME RedactInv, NEW k \in 1 .. Len(fields)
  PROVE  Written(k) \in Seq(Tokens) /\ Len(Written(k)) \in Nat /\ Len(Written(k)) >= 2
<1>1. Value(k) \in Seq(Tokens) /\ Len(Value(k)) \in Nat
  BY FieldType, ValueIs DEF IsValue
<1> DEFINE w == Written(k)
           l == Len(Value(k))
<1>2. CASE place = "json"
  <2>1. IsJsonField(k, w)
    BY <1>2, WrittenIs
  <2>2. w \in Seq(Tokens) /\ Len(w) \in {4 + l, 8 + l, 6 + l}
    BY <2>1 DEF IsJsonField
  <2> HIDE DEF w, l
  <2> QED
    BY <1>1, <2>2 DEF l, w
<1>3. CASE place # "json"
  <2>1. IsPlainField(k, w)
    BY <1>3, WrittenIs
  <2> QED
    BY <1>1, <2>1 DEF IsPlainField
<1> QED
  BY <1>2, <1>3

\* A field with the separator before it, and the bracket before the first.
Piece(k)  == (IF k = 1 THEN <<>> ELSE <<Separator>>) \o Written(k)
Pieces(n) == [k \in 1 .. n |-> Piece(k)]
Opening   == IF place = "json" THEN <<Bracket>> ELSE <<>>

LEMMA SeparatorType ==
  Separator \in Tokens /\ <<Separator>> \in Seq(Tokens) /\ Opening \in Seq(Tokens)
<1>1. Comma \in Tokens /\ Space \in Tokens /\ Amp \in Tokens /\ Bracket \in Tokens
  BY TokensType DEF Marks
<1>2. Separator \in Tokens
  BY <1>1 DEF Separator
<1>3. Opening \in Seq(Tokens)
  BY <1>1 DEF Opening
<1> QED
  BY <1>2, <1>3

LEMMA PieceType ==
  ASSUME RedactInv, NEW k \in 1 .. Len(fields)
  PROVE  /\ Piece(k) \in Seq(Tokens)
         /\ LET d == IF k = 1 THEN 0 ELSE 1
            IN /\ Len(Piece(k)) = d + Len(Written(k))
               /\ d = 1 => Piece(k)[1] = Separator
               /\ \A i \in 1 .. Len(Written(k)) : Piece(k)[d + i] = Written(k)[i]
<1> DEFINE w == Written(k)
           h == IF k = 1 THEN <<>> ELSE <<Separator>>
<1>1. w \in Seq(Tokens) /\ Len(w) \in Nat
  BY WrittenType
<1>2. /\ h \in Seq(Tokens) /\ Len(h) = IF k = 1 THEN 0 ELSE 1
      /\ k # 1 => h[1] = Separator
  BY SeparatorType
<1>3. Piece(k) = h \o w
  BY DEF Piece
<1> DEFINE c == h \o w
<1> HIDE DEF w, h
<1>4. /\ c \in Seq(Tokens) /\ Len(c) = Len(h) + Len(w)
      /\ \A i \in 1 .. Len(h) : c[i] = h[i]
      /\ \A i \in 1 .. Len(w) : c[Len(h) + i] = w[i]
  <2>1. h \in Seq(Tokens) /\ w \in Seq(Tokens)
    BY ONLY <1>1, <1>2
  <2> QED
    BY ONLY <2>1, CatFacts
<1> HIDE DEF c
<1>5. Piece(k) = c
  BY <1>3 DEF c
<1>6. k # 1 => c[1] = Separator
  BY <1>2, <1>4
<1>7. /\ Len(c) = (IF k = 1 THEN 0 ELSE 1) + Len(w)
      /\ \A i \in 1 .. Len(w) : c[(IF k = 1 THEN 0 ELSE 1) + i] = w[i]
  BY ONLY <1>2, <1>4
<1> QED
  BY ONLY <1>4, <1>5, <1>6, <1>7 DEF w

\* What is sent grows piece by piece.
LEMMA SentGrows ==
  ASSUME RedactInv
  PROVE  /\ Sent(0) = Opening
         /\ \A k \in 0 .. Len(fields) : Sent(k) \in Seq(Tokens)
         /\ \A k \in 1 .. Len(fields) : Sent(k) = Sent(k - 1) \o Piece(k)
<1> DEFINE n == Len(fields)
<1>1. n \in Nat
  BY DEF RedactInv
<1>2. \A k \in 1 .. n : Piece(k) \in Seq(Tokens)
  BY PieceType
<1>3. \A k \in 0 .. n : Pieces(k) \in Seq(Seq(Tokens)) /\ Len(Pieces(k)) = k
  <2> SUFFICES ASSUME NEW k \in 0 .. n
               PROVE  Pieces(k) \in Seq(Seq(Tokens)) /\ Len(Pieces(k)) = k
    OBVIOUS
  <2> DEFINE S == Seq(Tokens)
  <2>1. k \in Nat /\ \A i \in 1 .. k : Piece(i) \in S
    BY <1>1, <1>2
  <2> HIDE DEF S
  <2>2. Pieces(k) \in [1 .. k -> S]
    BY ONLY <2>1 DEF Pieces
  <2>3. Pieces(k) \in Seq(S) /\ Len(Pieces(k)) = k
    BY ONLY <2>1, <2>2
  <2> QED
    BY <2>3 DEF S
<1>4. \A k \in Nat : Sent(k) = Opening \o FlattenSeq(Pieces(k))
  BY DEF Sent, Joined, Opening, Pieces, Piece
<1>5. n \in 0 .. n
  BY <1>1
<1>6. PICK f \in [0 .. Len(Pieces(n)) -> Seq(Tokens)] : Sums(Pieces(n), f)
  BY <1>3, <1>5, SumsExist
<1>7. /\ \A k \in 0 .. n : f[k] \in Seq(Tokens)
      /\ f[0] = <<>> /\ \A k \in 1 .. n : f[k] = f[k - 1] \o Piece(k)
  <2>1. Len(Pieces(n)) = n /\ \A k \in 1 .. n : Pieces(n)[k] = Piece(k)
    BY <1>1, <1>3, <1>5 DEF Pieces
  <2> QED
    BY <1>6, <2>1 DEF Sums, Partial
<1>8. \A k \in 0 .. n : FlattenSeq(Pieces(k)) = f[k]
  <2> SUFFICES ASSUME NEW k \in 0 .. n
               PROVE  FlattenSeq(Pieces(k)) = f[k]
    OBVIOUS
  <2> DEFINE g == [i \in 0 .. k |-> f[i]]
  <2>1. k \in Nat /\ Pieces(k) \in Seq(Seq(Tokens)) /\ Len(Pieces(k)) = k
    BY <1>1, <1>3
  <2>2. g \in [0 .. Len(Pieces(k)) -> Seq(Tokens)]
    <3>1. \A i \in 0 .. k : f[i] \in Seq(Tokens)
      BY <1>1, <1>7
    <3> QED
      BY <2>1, <3>1
  <2>3. Partial(Pieces(k), Len(Pieces(k)), g)
    <3>1. /\ \A i \in 1 .. k : g[i] = f[i] /\ g[i - 1] = f[i - 1] /\ i \in 1 .. n
          /\ \A i \in 1 .. k : Pieces(k)[i] = Piece(i)
          /\ g[0] = f[0] /\ g[k] = f[k]
      BY <1>1 DEF Pieces
    <3> HIDE DEF g
    <3> QED
      BY ONLY <1>7, <2>1, <3>1 DEF Partial
  <2>4. g[k] = f[k]
    BY <1>1
  <2> HIDE DEF g
  <2>5. FlattenSeq(Pieces(k)) = g[Len(Pieces(k))]
    BY ONLY <2>1, <2>2, <2>3, FlattenIsLastPrefix
  <2> QED
    BY ONLY <2>1, <2>4, <2>5
<1>9. Opening \in Seq(Tokens)
  BY SeparatorType
<1>10. \A k \in 0 .. n : Sent(k) = Opening \o f[k]
  <2> SUFFICES ASSUME NEW k \in 0 .. n
               PROVE  Sent(k) = Opening \o f[k]
    OBVIOUS
  <2>1. k \in Nat
    BY <1>1
  <2>2. Sent(k) = Opening \o FlattenSeq(Pieces(k))
    BY ONLY <1>4, <2>1
  <2>3. FlattenSeq(Pieces(k)) = f[k]
    BY <1>8
  <2> QED
    BY ONLY <2>2, <2>3
<1>11. Sent(0) = Opening
  <2>1. Opening \o <<>> = Opening
    BY <1>9, ConcatEmptySeq
  <2>2. Sent(0) = Opening \o f[0]
    BY <1>1, <1>10
  <2> QED
    BY ONLY <1>7, <2>1, <2>2
<1>12. \A k \in 0 .. n : Sent(k) \in Seq(Tokens)
  <2> TAKE k \in 0 .. n
  <2>1. f[k] \in Seq(Tokens)
    BY <1>7
  <2>2. Opening \o f[k] \in Seq(Tokens)
    BY ONLY <1>9, <2>1, ConcatProperties
  <2> QED
    BY <1>10, <2>2
<1>13. \A k \in 1 .. n : Sent(k) = Sent(k - 1) \o Piece(k)
  <2> SUFFICES ASSUME NEW k \in 1 .. n
               PROVE  Sent(k) = Sent(k - 1) \o Piece(k)
    OBVIOUS
  <2> DEFINE a == Opening
             b == f[k - 1]
             c == Piece(k)
  <2>1. k \in 0 .. n /\ k - 1 \in 0 .. n
    BY <1>1
  <2>2. Sent(k) = a \o f[k] /\ Sent(k - 1) = a \o b
    BY <1>10, <2>1
  <2>3. f[k] = b \o c
    BY <1>7
  <2>4. a \in Seq(Tokens) /\ b \in Seq(Tokens) /\ c \in Seq(Tokens)
    BY <1>2, <1>7, <1>9, <2>1
  <2> HIDE DEF a, b, c
  <2>5. a \o (b \o c) = (a \o b) \o c
    BY ONLY <2>4, SMTT(30)
  <2>6. Sent(k) = Sent(k - 1) \o c
    BY ONLY <2>2, <2>3, <2>5
  <2> QED
    BY <2>6 DEF c
<1> QED
  BY <1>11, <1>12, <1>13

\* Where field k begins and ends.
Start(k) == Len(Sent(k)) - Len(Written(k)) + 1
Stop(k)  == Len(Sent(k))

\* Field k stands in s, behind a separator unless it is the first.
Stands(s, k) ==
  /\ Start(k) \in 1 .. Len(s) /\ Stop(k) \in Start(k) .. Len(s)
  /\ \A i \in 1 .. Len(Written(k)) : s[Start(k) - 1 + i] = Written(k)[i]
  /\ k > 1 => /\ Stop(k - 1) \in Nat /\ Start(k) = Stop(k - 1) + 2
              /\ s[Start(k) - 1] = Separator

\* Nothing else does but brackets.
Covered(s, k) ==
  \A p \in 1 .. Len(s) :
    \/ \E j \in 1 .. k : p \in Start(j) .. Stop(j)
    \/ \E j \in 2 .. k : p = Start(j) - 1
    \/ place = "json" /\ s[p] = Bracket

LEMMA StandsFirst ==
  ASSUME RedactInv, NEW k \in 1 .. Len(fields)
  PROVE  /\ Stands(Sent(k), k)
         /\ Stop(k - 1) \in Nat /\ Start(k) = Stop(k - 1) + (IF k = 1 THEN 1 ELSE 2)
<1> DEFINE w == Written(k)
           d == IF k = 1 THEN 0 ELSE 1
           s == Sent(k - 1)
           u == Piece(k)
           c == s \o u
<1>1. w \in Seq(Tokens) /\ Len(w) \in Nat /\ Len(w) >= 2
  BY WrittenType
<1>2. /\ u \in Seq(Tokens) /\ Len(u) = d + Len(w) /\ (d = 1 => u[1] = Separator)
      /\ \A i \in 1 .. Len(w) : u[d + i] = w[i]
  BY PieceType
<1>3. /\ s \in Seq(Tokens) /\ Len(s) \in Nat /\ Sent(k) = c
  <2>1. k - 1 \in 0 .. Len(fields)
    BY DEF RedactInv
  <2> QED
    BY <2>1, SentGrows
<1>4. d \in {0, 1} /\ (k > 1 <=> d = 1) /\ (k = 1 <=> d = 0)
  BY DEF RedactInv
<1>5. Len(s) = Stop(k - 1)
  BY DEF Stop
<1> HIDE DEF w, d, s, u
<1>6. /\ c \in Seq(Tokens) /\ Len(c) = Len(s) + Len(u)
      /\ \A i \in 1 .. Len(s) : c[i] = s[i]
      /\ \A i \in 1 .. Len(u) : c[Len(s) + i] = u[i]
  <2>1. s \in Seq(Tokens) /\ u \in Seq(Tokens)
    BY ONLY <1>2, <1>3
  <2> QED
    BY ONLY <2>1, CatFacts
<1> HIDE DEF c
<1>7. Start(k) = Len(s) + d + 1 /\ Stop(k) = Len(s) + d + Len(w) /\ Len(c) = Stop(k)
  <2>1. Start(k) = Len(c) - Len(w) + 1 /\ Stop(k) = Len(c)
    BY <1>3 DEF Start, Stop, w
  <2> QED
    BY ONLY <1>1, <1>2, <1>3, <1>4, <1>6, <2>1, SMTT(30)
<1>8. \A i \in 1 .. Len(w) : c[Start(k) - 1 + i] = w[i]
  <2> TAKE i \in 1 .. Len(w)
  <2>1. d + i \in 1 .. Len(u) /\ Start(k) - 1 + i = Len(s) + (d + i)
    BY ONLY <1>1, <1>2, <1>3, <1>4, <1>7, i \in 1 .. Len(w), SMTT(30)
  <2> QED
    BY <1>2, <1>6, <2>1
<1>9. d = 1 => c[Start(k) - 1] = Separator
  <2> SUFFICES ASSUME d = 1
               PROVE  c[Start(k) - 1] = Separator
    OBVIOUS
  <2>1. 1 \in 1 .. Len(u) /\ Start(k) - 1 = Len(s) + 1
    BY <1>1, <1>2, <1>3, <1>7
  <2> QED
    BY <1>2, <1>6, <2>1
<1>10. Start(k) \in 1 .. Len(c) /\ Stop(k) \in Start(k) .. Len(c)
  BY ONLY <1>1, <1>3, <1>4, <1>7
<1>11. Stop(k - 1) \in Nat /\ Start(k) = Stop(k - 1) + d + 1
  BY ONLY <1>3, <1>5, <1>7
<1>12. d = 1 => Start(k) = Stop(k - 1) + 2
  BY ONLY <1>11
<1>13. Stands(c, k)
  BY ONLY <1>4, <1>8, <1>9, <1>10, <1>11, <1>12 DEF Stands, w
<1> QED
  BY <1>3, <1>11, <1>12, <1>13 DEF d

LEMMA StandsLonger ==
  ASSUME NEW k, NEW s \in Seq(Tokens), NEW u \in Seq(Tokens), Stands(s, k),
         Len(Written(k)) \in Nat, Stop(k) = Start(k) - 1 + Len(Written(k))
  PROVE  Stands(s \o u, k)
<1> DEFINE c == s \o u
           w == Written(k)
<1>1. Len(s) \in Nat /\ Len(u) \in Nat
  OBVIOUS
<1>2. Len(c) = Len(s) + Len(u) /\ \A i \in 1 .. Len(s) : c[i] = s[i]
  BY CatFacts
<1> HIDE DEF c
<1>3. /\ Start(k) \in 1 .. Len(s) /\ Stop(k) \in Start(k) .. Len(s)
      /\ \A i \in 1 .. Len(w) : s[Start(k) - 1 + i] = w[i]
      /\ k > 1 => /\ Stop(k - 1) \in Nat /\ Start(k) = Stop(k - 1) + 2
                  /\ s[Start(k) - 1] = Separator
  BY DEF Stands
<1>4. Start(k) \in 1 .. Len(c) /\ Stop(k) \in Start(k) .. Len(c)
  BY ONLY <1>1, <1>2, <1>3
<1>5. \A i \in 1 .. Len(w) : Start(k) - 1 + i \in 1 .. Len(s)
  BY <1>1, <1>3
<1>6. k > 1 => Start(k) - 1 \in 1 .. Len(s)
  BY ONLY <1>1, <1>3
<1>7. Stands(c, k)
  BY ONLY <1>2, <1>3, <1>4, <1>5, <1>6 DEF Stands, w
<1> QED
  BY <1>7 DEF c

LEMMA FieldLength ==
  ASSUME RedactInv, NEW k \in 1 .. Len(fields)
  PROVE  /\ Len(Written(k)) \in Nat /\ Len(Written(k)) >= 2
         /\ Stop(k) = Start(k) - 1 + Len(Written(k))
         /\ Start(k) \in Nat /\ Stop(k) \in Nat /\ 1 <= Start(k) /\ Start(k) < Stop(k)
<1>1. Len(Written(k)) \in Nat /\ Len(Written(k)) >= 2
  BY WrittenType
<1>2. Sent(k) \in Seq(Tokens) /\ Len(Sent(k)) \in Nat
  <2>1. k \in 0 .. Len(fields)
    BY DEF RedactInv
  <2>2. Sent(k) \in Seq(Tokens)
    BY <2>1, SentGrows
  <2> QED
    BY <2>2
<1>3. Stop(k) = Start(k) - 1 + Len(Written(k))
  BY <1>1, <1>2 DEF Stop, Start
<1>4. Start(k) \in 1 .. Len(Sent(k))
  BY StandsFirst DEF Stands
<1> QED
  BY <1>1, <1>2, <1>3, <1>4

LEMMA FieldOrder ==
  ASSUME RedactInv, NEW k \in 1 .. Len(fields), NEW j \in 1 .. Len(fields), j < k
  PROVE  Stop(j) + 1 < Start(k)
<1> DEFINE n == Len(fields)
           T == { i \in Nat : i > j => Stop(j) + 1 < Start(i) }
<1>1. n \in Nat /\ \A i \in 1 .. n : i \in Int
  BY DEF RedactInv
<1>2. /\ \A i \in 1 .. n : Start(i) \in Nat /\ Stop(i) \in Nat /\ Start(i) < Stop(i)
      /\ \A i \in 1 .. n : i > 1 => Start(i) = Stop(i - 1) + 2
  <2>1. \A i \in 1 .. n : Start(i) \in Nat /\ Stop(i) \in Nat /\ Start(i) < Stop(i)
    BY FieldLength
  <2>2. \A i \in 1 .. n : Start(i) = Stop(i - 1) + (IF i = 1 THEN 1 ELSE 2)
    BY StandsFirst
  <2> QED
    BY <2>1, <2>2
<1>3. 0 \in T
  OBVIOUS
<1>4. \A i \in 1 .. n : i - 1 \in T => i \in T
  <2> SUFFICES ASSUME NEW i \in 1 .. n, i - 1 \in T, i > j
               PROVE  Stop(j) + 1 < Start(i)
    BY <1>1
  <2>1. i > 1 /\ i - 1 \in 1 .. n
    BY <1>1
  <2>2. CASE i - 1 = j
    BY <1>2, <2>1, <2>2
  <2>3. CASE i - 1 # j
    <3>1. Stop(j) + 1 < Start(i - 1)
      BY <1>1, <2>3
    <3>2. /\ Start(i) = Stop(i - 1) + 2 /\ Start(i - 1) < Stop(i - 1)
          /\ Start(i - 1) \in Nat /\ Stop(i - 1) \in Nat /\ Stop(j) \in Nat
      BY <1>2, <2>1
    <3> QED
      BY ONLY <3>1, <3>2
  <2> QED
    BY <2>2, <2>3
<1> HIDE DEF T
<1>5. \A i \in 0 .. n : i \in T
  BY <1>1, <1>3, <1>4, SumsInduction
<1>6. k \in T
  BY <1>1, <1>5
<1> QED
  BY <1>6 DEF T

\* Fields and separators, one behind another.
Laid(s, k) == (\A j \in 1 .. k : Stands(s, j)) /\ Covered(s, k)

LEMMA SentIsLaid ==
  ASSUME RedactInv
  PROVE  \A k \in 0 .. Len(fields) : Laid(Sent(k), k)
<1> DEFINE n == Len(fields)
           T == { k \in Nat : Laid(Sent(k), k) }
<1>1. n \in Nat
  BY DEF RedactInv
<1>2. 0 \in T
  <2>1. Sent(0) = Opening
    BY SentGrows
  <2>2. \A p \in 1 .. Len(Opening) : place = "json" /\ Opening[p] = Bracket
    BY DEF Opening
  <2>3. Covered(Sent(0), 0)
    BY <2>1, <2>2 DEF Covered
  <2> QED
    BY <2>3 DEF Laid
<1>3. \A k \in 1 .. n : k - 1 \in T => k \in T
  <2> SUFFICES ASSUME NEW k \in 1 .. n, k - 1 \in T
               PROVE  k \in T
    OBVIOUS
  <2> DEFINE s == Sent(k - 1)
             u == Piece(k)
             c == s \o u
  <2>1. s \in Seq(Tokens) /\ u \in Seq(Tokens) /\ Sent(k) = c
    <3>1. k - 1 \in 0 .. n
      BY <1>1
    <3> QED
      BY <3>1, SentGrows, PieceType
  <2>2. Laid(s, k - 1)
    OBVIOUS
  <2>3. Stands(c, k)
    BY <2>1, StandsFirst
  <2> HIDE DEF u
  <2>4. ASSUME NEW j \in 1 .. k - 1
        PROVE  Stands(c, j)
    <3>1. Stands(s, j)
      BY <2>2 DEF Laid
    <3>2. j \in 1 .. n
      BY <1>1
    <3>3. Len(Written(j)) \in Nat /\ Stop(j) = Start(j) - 1 + Len(Written(j))
      BY <3>2, FieldLength
    <3> HIDE DEF s
    <3> QED
      BY ONLY <2>1, <3>1, <3>3, StandsLonger
  <2>5. \A i \in 1 .. Len(s) : c[i] = s[i]
    <3> HIDE DEF s
    <3> QED
      BY ONLY <2>1, CatFacts
  <2>6. /\ Len(s) = Stop(k - 1) /\ Len(c) = Stop(k) /\ Len(s) \in Nat
        /\ Start(k) = Len(s) + (IF k = 1 THEN 1 ELSE 2)
    BY <2>1, StandsFirst DEF Stop
  <2> HIDE DEF s, c
  <2>7. Covered(c, k)
    <3> SUFFICES ASSUME NEW p \in 1 .. Len(c)
                 PROVE  \/ \E j \in 1 .. k : p \in Start(j) .. Stop(j)
                        \/ \E j \in 2 .. k : p = Start(j) - 1
                        \/ place = "json" /\ c[p] = Bracket
      BY DEF Covered
    <3>0. /\ \A j \in 1 .. k - 1 : j \in 1 .. k
          /\ \A j \in 2 .. k - 1 : j \in 2 .. k
          /\ k \in 1 .. k /\ (k # 1 => k \in 2 .. k)
      BY <1>1
    <3>1. CASE p \in 1 .. Len(s)
      <4>1. \/ \E j \in 1 .. k - 1 : p \in Start(j) .. Stop(j)
            \/ \E j \in 2 .. k - 1 : p = Start(j) - 1
            \/ place = "json" /\ s[p] = Bracket
        BY <2>2, <3>1 DEF Laid, Covered
      <4>2. c[p] = s[p]
        BY <2>5, <3>1
      <4> QED
        BY ONLY <3>0, <4>1, <4>2
    <3>2. CASE p \notin 1 .. Len(s)
      <4>1. Start(k) \in Nat /\ Stop(k) \in Nat
        BY FieldLength
      <4>2. p \in Start(k) .. Stop(k) \/ (k # 1 /\ p = Start(k) - 1)
        BY ONLY <2>6, <3>2, <4>1, p \in 1 .. Len(c)
      <4> QED
        BY ONLY <3>0, <4>2
    <3> QED
      BY <3>1, <3>2
  <2>8. \A j \in 1 .. k : Stands(c, j)
    <3>1. \A j \in 1 .. k : j = k \/ j \in 1 .. k - 1
      BY <1>1
    <3> QED
      BY ONLY <2>3, <2>4, <3>1
  <2>9. k \in Nat
    BY <1>1
  <2> QED
    BY <2>1, <2>7, <2>8, <2>9 DEF Laid
<1> HIDE DEF T
<1>4. \A k \in 0 .. n : k \in T
  BY <1>1, <1>2, <1>3, SumsInduction
<1> QED
  BY <1>4 DEF T

LEMMA WholeIsLaid ==
  ASSUME RedactInv
  PROVE  Whole \in Seq(Tokens) /\ Laid(Whole, Len(fields))
<1> DEFINE n == Len(fields)
           s == Sent(n)
           u == Opening
           c == s \o u
<1>1. n \in Nat /\ n \in 0 .. n
  BY DEF RedactInv
<1>2. s \in Seq(Tokens) /\ u \in Seq(Tokens) /\ Whole = c
  BY <1>1, SentGrows, SeparatorType DEF Whole, Opening
<1>3. Laid(s, n)
  BY <1>1, SentIsLaid
<1>4. \A p \in 1 .. Len(u) : place = "json" /\ u[p] = Bracket
  BY DEF Opening
<1> HIDE DEF s, u
<1>5. /\ c \in Seq(Tokens) /\ Len(c) = Len(s) + Len(u)
      /\ \A i \in 1 .. Len(s) : c[i] = s[i]
      /\ \A i \in 1 .. Len(u) : c[Len(s) + i] = u[i]
  BY ONLY <1>2, CatFacts
<1>6. Len(s) \in Nat /\ Len(u) \in Nat
  BY <1>2
<1>7. \A j \in 1 .. n : Stands(c, j)
  <2> TAKE j \in 1 .. n
  <2>1. Stands(s, j)
    BY <1>3 DEF Laid
  <2>2. Len(Written(j)) \in Nat /\ Stop(j) = Start(j) - 1 + Len(Written(j))
    BY FieldLength
  <2> QED
    BY ONLY <1>2, <2>1, <2>2, StandsLonger
<1> HIDE DEF c
<1>8. Covered(c, n)
  <2> SUFFICES ASSUME NEW p \in 1 .. Len(c)
               PROVE  \/ \E j \in 1 .. n : p \in Start(j) .. Stop(j)
                      \/ \E j \in 2 .. n : p = Start(j) - 1
                      \/ place = "json" /\ c[p] = Bracket
    BY DEF Covered
  <2>1. CASE p \in 1 .. Len(s)
    BY <1>3, <1>5, <2>1 DEF Laid, Covered
  <2>2. CASE p \notin 1 .. Len(s)
    <3>1. p - Len(s) \in 1 .. Len(u) /\ Len(s) + (p - Len(s)) = p
      BY ONLY <1>5, <1>6, <2>2, p \in 1 .. Len(c)
    <3>2. c[p] = u[p - Len(s)]
      BY <1>5, <3>1
    <3> QED
      BY <1>4, <3>1, <3>2
  <2> QED
    BY <2>1, <2>2
<1> QED
  BY <1>2, <1>5, <1>7, <1>8 DEF Laid

\* Where the tokens of a field can be.
LEMMA ValueTokens ==
  ASSUME NEW k \in Nat, NEW i \in 1 .. Len(Value(k))
  PROVE  \/ Value(k)[i] \in {Part(k, 1), Part(k, 2)}
         \/ fields[k].form = "escaped" /\ Value(k)[i] \in {Backslash, Quote}
<1>1. IsValue(k, Value(k))
  BY ValueIs
<1>2. CASE fields[k].form = "blank"
  BY <1>1, <1>2 DEF IsValue
<1>3. CASE fields[k].form = "escaped"
  <2>1. i \in {1, 2, 3, 4}
    <3>1. Len(Value(k)) = 4
      BY <1>1, <1>3 DEF IsValue
    <3> QED
      BY ONLY <3>1, i \in 1 .. Len(Value(k))
  <2> QED
    BY <1>1, <1>3, <2>1 DEF IsValue
<1>4. CASE fields[k].form \notin {"blank", "escaped"}
  <2>1. i \in {1, 2}
    <3>1. Len(Value(k)) = 2
      BY <1>1, <1>4 DEF IsValue
    <3> QED
      BY ONLY <3>1, i \in 1 .. Len(Value(k))
  <2> QED
    BY <1>1, <1>4, <2>1 DEF IsValue
<1> QED
  BY <1>2, <1>3, <1>4

LEMMA ValueHas ==
  ASSUME NEW k \in Nat, NEW i \in 1 .. Len(Value(k))
  PROVE  /\ \A n : Value(k)[i] # Name(n)
         /\ Value(k)[i] \notin {Amp, Space, Equals, Colon, Bracket}
         /\ \A j, q : Value(k)[i] = Part(j, q) => j = k
<1>1. /\ Part(k, 1) \notin Marks /\ Part(k, 2) \notin Marks
      /\ \A n : Part(k, 1) # Name(n) /\ Part(k, 2) # Name(n)
      /\ \A n : Backslash # Name(n) /\ Quote # Name(n)
      /\ \A j, q : Backslash # Part(j, q) /\ Quote # Part(j, q)
  BY KindsDiffer DEF Marks
<1>2. {Amp, Space, Equals, Colon, Bracket} \subseteq Marks
  BY DEF Marks
<1>3. {Backslash, Quote} \intersect {Amp, Space, Equals, Colon, Bracket} = {}
  BY DEF Quote, Backslash, Colon, Equals, Amp, Space, Bracket, Mark
<1>4. \A j, q : /\ Part(k, 1) = Part(j, q) => j = k
                /\ Part(k, 2) = Part(j, q) => j = k
  BY TokensTell
<1> DEFINE x == Value(k)[i]
<1>5. x \in {Part(k, 1), Part(k, 2), Backslash, Quote}
  BY ValueTokens
<1> HIDE DEF x
<1>6. CASE x \in {Part(k, 1), Part(k, 2)}
  BY ONLY <1>1, <1>2, <1>4, <1>6 DEF x
<1>7. CASE x \in {Backslash, Quote}
  BY ONLY <1>1, <1>3, <1>7 DEF x
<1> QED
  BY <1>5, <1>6, <1>7

LEMMA JsonTokens ==
  ASSUME NEW k \in Nat, NEW w, IsJsonField(k, w), NEW o \in 1 .. Len(w)
  PROVE  /\ \A n : w[o] = Name(n) => o = 2
         /\ \A j, q : w[o] = Part(j, q) => j = k /\ o > 4 /\ (IsText(k) => o > 5 /\ o < Len(w))
<1> DEFINE v == Value(k)
           f == fields[k].form
           x == w[o]
<1>1. Len(v) \in Nat
  BY ValueIs DEF IsValue
<1>2. \A i \in 1 .. Len(v) : /\ \A n : v[i] # Name(n)
                             /\ \A j, q : v[i] = Part(j, q) => j = k
  BY ValueHas
<1>3. /\ \A n : Quote # Name(n) /\ Colon # Name(n) /\ Bracket # Name(n)
      /\ \A j, q : Quote # Part(j, q) /\ Colon # Part(j, q) /\ Bracket # Part(j, q)
      /\ \A n, j, q : Name(n) # Part(j, q)
  BY KindsDiffer DEF Marks
<1>4. /\ w[1] = Quote /\ w[2] = Name(fields[k].name) /\ w[3] = Quote /\ w[4] = Colon
      /\ f = "number" => Len(w) = 4 + Len(v) /\ \A i \in 1 .. Len(v) : w[4 + i] = v[i]
      /\ f = "list" => /\ Len(w) = 8 + Len(v) /\ \A i \in 1 .. Len(v) : w[6 + i] = v[i]
                       /\ w[5] = Bracket /\ w[6] = Quote
                       /\ w[7 + Len(v)] = Quote /\ w[8 + Len(v)] = Bracket
      /\ f \notin {"number", "list"} =>
           /\ Len(w) = 6 + Len(v) /\ \A i \in 1 .. Len(v) : w[5 + i] = v[i]
           /\ w[5] = Quote /\ w[6 + Len(v)] = Quote
  BY DEF IsJsonField
<1>5. IsText(k) <=> f \notin {"number", "list"}
  BY DEF IsText
<1> HIDE DEF v, f, x
<1>6. CASE o \in {1, 3, 4}
  <2>1. x \in {Quote, Colon}
    BY <1>4, <1>6 DEF x
  <2> QED
    BY ONLY <1>3, <2>1 DEF x
<1>7. CASE o = 2
  <2>1. x = Name(fields[k].name)
    BY <1>4, <1>7 DEF x
  <2> QED
    BY ONLY <1>3, <1>7, <2>1 DEF x
<1>8. CASE o > 4
  <2>1. CASE f = "number"
    <3>1. o - 4 \in 1 .. Len(v) /\ 4 + (o - 4) = o
      BY <1>1, <1>4, <1>8, <2>1
    <3>2. x = v[o - 4]
      BY ONLY <1>4, <2>1, <3>1 DEF x
    <3> QED
      BY ONLY <1>2, <1>5, <1>8, <2>1, <3>1, <3>2 DEF x
  <2>2. CASE f = "list"
    <3>1. \/ o \in {5, 6, 7 + Len(v), 8 + Len(v)}
          \/ o - 6 \in 1 .. Len(v) /\ 6 + (o - 6) = o
      BY <1>1, <1>4, <1>8, <2>2
    <3>2. CASE o \in {5, 6, 7 + Len(v), 8 + Len(v)}
      <4>1. x \in {Quote, Bracket}
        BY ONLY <1>4, <2>2, <3>2 DEF x
      <4> QED
        BY ONLY <1>3, <4>1 DEF x
    <3>3. CASE o - 6 \in 1 .. Len(v) /\ 6 + (o - 6) = o
      <4>1. x = v[o - 6]
        BY ONLY <1>4, <2>2, <3>3 DEF x
      <4> QED
        BY ONLY <1>2, <1>5, <1>8, <2>2, <3>3, <4>1 DEF x
    <3> QED
      BY <3>1, <3>2, <3>3
  <2>3. CASE f \notin {"number", "list"}
    <3>1. \/ o \in {5, 6 + Len(v)}
          \/ o - 5 \in 1 .. Len(v) /\ 5 + (o - 5) = o /\ o > 5 /\ o < Len(w)
      BY <1>1, <1>4, <1>8, <2>3
    <3>2. CASE o \in {5, 6 + Len(v)}
      <4>1. x = Quote
        BY ONLY <1>4, <2>3, <3>2 DEF x
      <4> QED
        BY ONLY <1>3, <4>1 DEF x
    <3>3. CASE o - 5 \in 1 .. Len(v) /\ 5 + (o - 5) = o /\ o > 5 /\ o < Len(w)
      <4>1. x = v[o - 5]
        BY ONLY <1>4, <2>3, <3>3 DEF x
      <4> QED
        BY ONLY <1>2, <1>8, <3>3, <4>1 DEF x
    <3> QED
      BY <3>1, <3>2, <3>3
  <2> QED
    BY <2>1, <2>2, <2>3
<1>9. o \in {1, 3, 4} \/ o = 2 \/ o > 4
  BY <1>4
<1> QED
  BY <1>6, <1>7, <1>8, <1>9

LEMMA PlainTokens ==
  ASSUME NEW k \in Nat, NEW w, IsPlainField(k, w), NEW o \in 1 .. Len(w)
  PROVE  /\ \A n : w[o] = Name(n) => o = 1
         /\ \A j, q : w[o] = Part(j, q) => j = k /\ o > 2
         /\ w[o] \notin {Amp, Space} /\ (w[o] = Equals => o = 2)
<1> DEFINE v == Value(k)
           x == w[o]
<1>1. Len(v) \in Nat
  BY ValueIs DEF IsValue
<1>2. \A i \in 1 .. Len(v) : /\ \A n : v[i] # Name(n)
                             /\ \A j, q : v[i] = Part(j, q) => j = k
                             /\ v[i] \notin {Amp, Space, Equals}
  BY ValueHas
<1>3. /\ \A n : Equals # Name(n) /\ Colon # Name(n) /\ Amp # Name(n) /\ Space # Name(n)
      /\ \A j, q : Equals # Part(j, q) /\ Colon # Part(j, q)
      /\ \A n, j, q : Name(n) # Part(j, q)
      /\ {Equals, Colon} \intersect {Amp, Space} = {}
  <2>1. {Equals, Colon} \intersect {Amp, Space} = {}
    BY MarksDiffer
  <2> QED
    BY <2>1, KindsDiffer DEF Marks
<1>4. /\ Len(w) = 2 + Len(v)
      /\ w[1] = Name(fields[k].name) /\ w[2] \in {Equals, Colon}
      /\ \A i \in 1 .. Len(v) : w[2 + i] = v[i]
  BY DEF IsPlainField
<1> HIDE DEF v, x
<1>5. CASE o = 1
  <2>1. x = Name(fields[k].name)
    BY <1>4, <1>5 DEF x
  <2>2. Name(fields[k].name) # Equals /\ Name(fields[k].name) \notin {Amp, Space}
    BY <1>3
  <2> QED
    BY ONLY <1>3, <1>5, <2>1, <2>2 DEF x
<1>6. CASE o = 2
  <2>1. x \in {Equals, Colon}
    BY <1>4, <1>6 DEF x
  <2> QED
    BY ONLY <1>3, <1>6, <2>1 DEF x
<1>7. CASE o > 2
  <2>1. o - 2 \in 1 .. Len(v) /\ 2 + (o - 2) = o
    BY <1>1, <1>4, <1>7
  <2>2. x = v[o - 2]
    BY ONLY <1>4, <2>1 DEF x
  <2> QED
    BY ONLY <1>2, <1>7, <2>1, <2>2 DEF x
<1> QED
  BY <1>4, <1>5, <1>6, <1>7

------------------------------------------------------------------------------
(* What is received.                                                        *)

LEMMA MinIs ==
  ASSUME NEW S \in SUBSET Int, NEW x \in S, \A y \in S : x <= y
  PROVE  Min(S) = x
<1> DEFINE m == Min(S)
<1>1. m \in S /\ \A y \in S : m <= y
  BY DEF Min
<1> HIDE DEF m
<1>2. m <= x /\ x <= m /\ m \in Int /\ x \in Int
  BY <1>1
<1>3. m = x
  BY ONLY <1>2
<1> QED
  BY <1>3 DEF m

LEMMA MaxIs ==
  ASSUME NEW S \in SUBSET Int, NEW x \in S, \A y \in S : y <= x
  PROVE  Max(S) = x
<1> DEFINE m == Max(S)
<1>1. m \in S /\ \A y \in S : y <= m
  BY DEF Max
<1> HIDE DEF m
<1>2. m <= x /\ x <= m /\ m \in Int /\ x \in Int
  BY <1>1
<1>3. m = x
  BY ONLY <1>2
<1> QED
  BY <1>3 DEF m

LEMMA MinFacts ==
  ASSUME NEW S \in SUBSET Nat, S # {}
  PROVE  Min(S) \in S /\ \A y \in S : Min(S) <= y
<1> DEFINE R == OpToRel(<, Nat)
<1>1. IsWellFoundedOn(R, Nat)
  BY NatLessThanWellFounded
<1>2. \A m, n \in Nat : m < n => <<m, n>> \in R
  BY DEF OpToRel
<1> HIDE DEF R
<1>3. PICK x \in S : \A y \in S : ~ (<<y, x>> \in R)
  BY <1>1, WFMin
<1>4. \A y \in S : x <= y
  <2> SUFFICES ASSUME NEW y \in S
               PROVE  x <= y
    OBVIOUS
  <2>1. x \in Nat /\ y \in Nat /\ ~ (y < x)
    BY <1>2, <1>3
  <2> QED
    BY ONLY <2>1
<1>5. Min(S) = x
  <2>1. S \in SUBSET Int
    OBVIOUS
  <2> QED
    BY <1>4, <2>1, MinIs
<1> QED
  BY <1>4, <1>5

LEMMA NextOfFacts ==
  ASSUME NEW X, NEW b \in Seq(X), NEW i \in 1 .. Len(b) + 1, NEW tokens
  PROVE  /\ NextOf(tokens, b, i) \in i .. Len(b) + 1
         /\ \A j \in i .. NextOf(tokens, b, i) - 1 : j \in 1 .. Len(b) /\ b[j] \notin tokens
         /\ NextOf(tokens, b, i) <= Len(b) => b[NextOf(tokens, b, i)] \in tokens
<1> DEFINE n == Len(b)
           S == { j \in i .. n : b[j] \in tokens } \union {n + 1}
           r == NextOf(tokens, b, i)
<1>1. n \in Nat /\ i \in Nat /\ 1 <= i /\ i <= n + 1
  OBVIOUS
<1>2. S \in SUBSET Nat /\ S # {}
  BY <1>1
<1>3. r = Min(S)
  BY DEF NextOf
<1> DEFINE m == Min(S)
<1>4. m \in S /\ \A y \in S : m <= y
  <2> HIDE DEF S
  <2> QED
    BY <1>2, MinFacts
<1> HIDE DEF m
<1>5. m \in i .. n + 1 /\ (m <= n => b[m] \in tokens)
  BY <1>1, <1>4
<1>6. \A j \in i .. m - 1 : j \in 1 .. n /\ b[j] \notin tokens
  <2> SUFFICES ASSUME NEW j \in i .. m - 1
               PROVE  j \in 1 .. n /\ b[j] \notin tokens
    OBVIOUS
  <2>1. j \in i .. n /\ j \in 1 .. n /\ j < m
    BY ONLY <1>1, <1>5, j \in i .. m - 1
  <2>2. b[j] \in tokens => j \in S
    BY <2>1
  <2>3. j \in S => m <= j
    BY <1>4
  <2> HIDE DEF S
  <2> QED
    BY <1>5, <2>1, <2>2, <2>3
<1> QED
  BY <1>3, <1>5, <1>6 DEF m

LEMMA NextOfIs ==
  ASSUME NEW X, NEW b \in Seq(X), NEW i \in 1 .. Len(b) + 1, NEW tokens,
         NEW r \in i .. Len(b) + 1, \A j \in i .. r - 1 : b[j] \notin tokens,
         r <= Len(b) => b[r] \in tokens
  PROVE  NextOf(tokens, b, i) = r
<1> DEFINE m == NextOf(tokens, b, i)
           n == Len(b)
<1>1. n \in Nat
  OBVIOUS
<1>2. /\ m \in i .. n + 1 /\ (m <= n => b[m] \in tokens)
      /\ \A j \in i .. m - 1 : b[j] \notin tokens
  BY NextOfFacts
<1> HIDE DEF m
<1>3. ~ (m < r)
  <2>1. m < r => m <= n /\ m \in i .. r - 1
    BY <1>1, <1>2
  <2> QED
    BY <1>2, <2>1
<1>4. ~ (r < m)
  <2>1. r < m => r <= n /\ r \in i .. m - 1
    BY <1>1, <1>2
  <2> QED
    BY <1>2, <2>1
<1>5. m = r
  BY <1>1, <1>2, <1>3, <1>4
<1> QED
  BY <1>5 DEF m

LEMMA ReceivedFacts ==
  ASSUME RedactInv
  PROVE  /\ Received \in Seq(Tokens) /\ Len(Received) \in Nat /\ Len(Whole) \in Nat
         /\ Len(Received) <= Len(Whole)
         /\ \A p \in 1 .. Len(Received) : Received[p] = Whole[p]
         /\ Received = Whole <=> Len(Received) = Len(Whole)
         /\ \A k \in 1 .. Len(fields) : InFull(k) <=> Stop(k) <= Len(Received)
<1> DEFINE b == Received
           w == Whole
           l == Len(w)
           m == IF place = "query" THEN l ELSE IF limit <= l THEN limit ELSE l
<1>1. w \in Seq(Tokens) /\ l \in Nat /\ limit \in Nat
  BY WholeIsLaid DEF RedactInv
<1>2. \A k \in 1 .. Len(fields) : Stop(k) \in Nat /\ Stop(k) <= l
  BY <1>1, WholeIsLaid, FieldLength DEF Laid, Stands
<1>3. Min({limit, l}) = IF limit <= l THEN limit ELSE l
  <2>1. {limit, l} \in SUBSET Int
    BY <1>1
  <2>2. CASE limit <= l
    BY <1>1, <2>1, <2>2, MinIs
  <2>3. CASE ~ (limit <= l)
    <3>1. l <= limit
      BY <1>1, <2>3
    <3>2. Min({limit, l}) = l
      BY <1>1, <2>1, <3>1, MinIs
    <3> QED
      BY <2>3, <3>2
  <2> QED
    BY <2>2, <2>3
<1>4. m \in 0 .. l
  BY <1>1
<1>5. b = SubSeq(w, 1, m)
  <2>1. CASE place = "query"
    <3>1. SubSeq(w, 1, l) = w
      BY <1>1, SubSeqFull
    <3> QED
      BY <2>1, <3>1 DEF Received
  <2>2. CASE place # "query"
    BY <1>3, <2>2 DEF Received
  <2> QED
    BY <2>1, <2>2
<1>6. /\ b \in Seq(Tokens) /\ Len(b) = m /\ \A p \in 1 .. m : b[p] = w[p]
  <2> HIDE DEF b, w, m
  <2>1. m \in Int /\ \A p \in 1 .. m : w[p] \in Tokens
    BY <1>1, <1>4 DEF l
  <2>2. /\ b \in Seq(Tokens) /\ Len(b) = IF 1 <= m THEN m - 1 + 1 ELSE 0
        /\ \A p \in 1 .. m - 1 + 1 : b[p] = w[1 + p - 1]
    BY ONLY <1>5, <2>1, SubSeqProperties
  <2>3. (IF 1 <= m THEN m - 1 + 1 ELSE 0) = m /\ m - 1 + 1 = m
    BY <1>1, <1>4
  <2>4. \A p \in 1 .. m : 1 + p - 1 = p
    BY ONLY <2>1
  <2> QED
    BY ONLY <2>2, <2>3, <2>4
<1>7. b = w <=> Len(b) = l
  <2>1. m = l => SubSeq(w, 1, m) = w
    BY <1>1, SubSeqFull
  <2> HIDE DEF b, w, m
  <2> QED
    BY ONLY <1>5, <1>6, <2>1 DEF l
<1>8. \A k \in 1 .. Len(fields) : InFull(k) <=> Stop(k) <= m
  BY <1>1, <1>2 DEF InFull, Stop
<1> HIDE DEF m
<1> QED
  BY <1>1, <1>4, <1>6, <1>7, <1>8

LEMMA FieldTokens ==
  ASSUME RedactInv, NEW k \in 1 .. Len(fields), NEW o \in 1 .. Len(Written(k)),
         Start(k) - 1 + o <= Len(Received)
  PROVE  Start(k) - 1 + o \in 1 .. Len(Received) /\ Received[Start(k) - 1 + o] = Written(k)[o]
<1>1. Start(k) \in Nat /\ 1 <= Start(k) /\ Len(Written(k)) \in Nat /\ Len(Received) \in Nat
  BY FieldLength, ReceivedFacts
<1>2. Start(k) - 1 + o \in 1 .. Len(Received)
  BY <1>1
<1>3. Whole[Start(k) - 1 + o] = Written(k)[o]
  BY WholeIsLaid DEF Laid, Stands
<1> QED
  BY <1>2, <1>3, ReceivedFacts

\* What a position of it can be.
LEMMA Positions ==
  ASSUME RedactInv, NEW p \in 1 .. Len(Received)
  PROVE  \/ \E k \in 1 .. Len(fields) : \E o \in 1 .. Len(Written(k)) :
              p = Start(k) - 1 + o /\ Received[p] = Written(k)[o]
         \/ \E k \in 2 .. Len(fields) : p = Start(k) - 1 /\ Received[p] = Separator
         \/ place = "json" /\ Received[p] = Bracket
<1> DEFINE n == Len(fields)
<1>1. n \in Nat
  BY DEF RedactInv
<1>2. /\ Received[p] = Whole[p] /\ p \in 1 .. Len(Whole)
  BY ReceivedFacts
<1>3. \/ \E k \in 1 .. n : p \in Start(k) .. Stop(k)
      \/ \E k \in 2 .. n : p = Start(k) - 1
      \/ place = "json" /\ Whole[p] = Bracket
  BY <1>2, WholeIsLaid DEF Laid, Covered
<1>4. ASSUME NEW k \in 1 .. n, p \in Start(k) .. Stop(k)
      PROVE  \E o \in 1 .. Len(Written(k)) : p = Start(k) - 1 + o /\ Received[p] = Written(k)[o]
  <2> DEFINE o == p - (Start(k) - 1)
  <2>1. o \in 1 .. Len(Written(k)) /\ p = Start(k) - 1 + o
    BY <1>4, FieldLength
  <2>2. Start(k) - 1 + o <= Len(Received)
    BY <2>1, ReceivedFacts
  <2>3. Received[Start(k) - 1 + o] = Written(k)[o]
    <3> HIDE DEF o
    <3> QED
      BY <2>1, <2>2, FieldTokens
  <2> QED
    BY <2>1, <2>3
<1>5. ASSUME NEW k \in 2 .. n, p = Start(k) - 1
      PROVE  Received[p] = Separator
  <2>1. k \in 1 .. n /\ k > 1
    BY <1>1
  <2>2. Whole[Start(k) - 1] = Separator
    BY <2>1, WholeIsLaid DEF Laid, Stands
  <2> QED
    BY <1>2, <1>5, <2>2
<1> QED
  BY <1>2, <1>3, <1>4, <1>5

\* The parts of a field are in it.
LEMMA PartsAt ==
  ASSUME RedactInv, NEW k \in 1 .. Len(fields), NEW p \in 1 .. Len(Received), NEW q,
         Received[p] = Part(k, q)
  PROVE  \E o \in 1 .. Len(Written(k)) :
           /\ p = Start(k) - 1 + o /\ Received[p] = Written(k)[o] /\ o > 2
           /\ place = "json" => o > 4
           /\ place = "json" /\ IsText(k) => o > 5 /\ o < Len(Written(k))
<1>1. Separator \in Marks /\ Bracket \in Marks
  BY DEF Separator, Marks
<1>2. Received[p] # Separator /\ Received[p] # Bracket
  BY <1>1, KindsDiffer
<1>3. PICK j \in 1 .. Len(fields) : \E o \in 1 .. Len(Written(j)) :
        p = Start(j) - 1 + o /\ Received[p] = Written(j)[o]
  BY <1>2, Positions
<1>4. PICK o \in 1 .. Len(Written(j)) : p = Start(j) - 1 + o /\ Received[p] = Written(j)[o]
  BY <1>3
<1>5. j \in Nat /\ o \in Nat /\ Written(j)[o] = Part(k, q)
  BY <1>4, FieldType
<1>6. CASE place = "json"
  <2>1. IsJsonField(j, Written(j))
    BY <1>6, WrittenIs
  <2>2. k = j /\ o > 4 /\ (IsText(j) => o > 5 /\ o < Len(Written(j)))
    BY <1>5, <2>1, JsonTokens
  <2>3. o > 2
    BY <1>5, <2>2
  <2> QED
    BY <1>4, <2>2, <2>3
<1>7. CASE place # "json"
  <2>1. IsPlainField(j, Written(j))
    BY <1>7, WrittenIs
  <2>2. k = j /\ o > 2
    BY <1>5, <2>1, PlainTokens
  <2> QED
    BY <1>4, <1>7, <2>2
<1> QED
  BY <1>6, <1>7

LEMMA PartsWithin ==
  ASSUME RedactInv, NEW k \in 1 .. Len(fields), NEW p \in 1 .. Len(Received),
         Received[p] \in {Part(k, 1), Part(k, 2)}
  PROVE  p \in Start(k) .. Stop(k)
<1>1. PICK q \in {1, 2} : Received[p] = Part(k, q)
  OBVIOUS
<1>2. PICK o \in 1 .. Len(Written(k)) : p = Start(k) - 1 + o
  BY <1>1, PartsAt
<1> QED
  BY <1>2, FieldLength

\* The fields of a set are replaced, each from where it begins on: their values are
\* gone, and those of the others are kept.
Replaces(H, end, new) ==
  /\ H \subseteq 1 .. Len(fields) /\ DOMAIN end = { Start(k) : k \in H }
  /\ \A k \in H :
       /\ end[Start(k)] <= Stop(k)
       /\ \A p \in 1 .. Len(Received) :
            Received[p] \in {Part(k, 1), Part(k, 2)} => p <= end[Start(k)]
       /\ \A j, q : Part(j, q) \notin ToSet(new[Start(k)])

LEMMA Replacement ==
  ASSUME RedactInv, NEW X, NEW H, NEW end, NEW new, Matching(X, Received, end, new),
         Replaces(H, end, new), NEW k \in 1 .. Len(fields)
  PROVE  IF k \in H
         THEN /\ OfField(k, Sub(Received, end, new)) = <<>>
              /\ ToSet(new[Start(k)]) \subseteq ToSet(Sub(Received, end, new))
         ELSE OfField(k, Sub(Received, end, new)) = OfField(k, Received)
<1> DEFINE b == Received
           s == Sub(b, end, new)
           tokens == {Part(k, 1), Part(k, 2)}
<1>1. /\ b \in Seq(X) /\ DOMAIN end \subseteq 1 .. Len(b) /\ Len(b) \in Nat
      /\ \A i \in DOMAIN end : end[i] \in i .. Len(b) /\ new[i] \in Seq(X)
  BY DEF Matching
<1>2. \A i \in DOMAIN end : \E j \in H : i = Start(j)
  BY DEF Replaces
<1>3. \A i \in DOMAIN end : ToSet(new[i]) \intersect tokens = {}
  BY <1>2 DEF Replaces
<1>4. \A p \in 1 .. Len(b) : b[p] \in tokens => p \in Start(k) .. Stop(k)
  BY PartsWithin
<1>5. \A j \in H : /\ j \in 1 .. Len(fields) /\ j \in Nat
                   /\ Start(j) \in Nat /\ Stop(j) \in Nat /\ Start(j) <= Stop(j)
                   /\ end[Start(j)] <= Stop(j) /\ Start(j) \in DOMAIN end
  <2> TAKE j \in H
  <2>1. j \in 1 .. Len(fields) /\ end[Start(j)] <= Stop(j) /\ Start(j) \in DOMAIN end
    BY DEF Replaces
  <2> QED
    BY <2>1, FieldLength, FieldType
<1>6. \A j \in H : (j < k => Stop(j) + 1 < Start(k)) /\ (k < j => Stop(k) + 1 < Start(j))
  BY <1>5, FieldOrder
<1>7. k \in Nat /\ Start(k) \in Nat /\ Stop(k) \in Nat /\ Start(k) <= Stop(k)
  BY FieldLength, FieldType
<1> HIDE DEF b, s, tokens
<1>8. CASE k \notin H
  <2>1. \A i \in DOMAIN end : \A p \in i .. end[i] : b[p] \notin tokens
    <3> SUFFICES ASSUME NEW i \in DOMAIN end, NEW p \in i .. end[i], b[p] \in tokens
                 PROVE  FALSE
      OBVIOUS
    <3>1. PICK j \in H : i = Start(j)
      BY <1>2
    <3>2. p \in 1 .. Len(b) /\ p \in Start(j) .. Stop(j)
      BY <1>1, <1>5, <3>1
    <3>3. p \in Start(k) .. Stop(k)
      BY <1>4, <3>2
    <3>4. j # k
      BY <1>8
    <3> QED
      BY <1>5, <1>6, <1>7, <3>2, <3>3, <3>4
  <2>2. Only(s, tokens) = Only(b, tokens)
    BY <1>3, <2>1, SubKeeps DEF b, s
  <2> QED
    BY <1>8, <2>2 DEF OfField, s, b, tokens
<1>9. CASE k \in H
  <2> DEFINE m == Start(k)
  <2>1. m \in DOMAIN end
    BY <1>5, <1>9
  <2>2. \A i \in DOMAIN end : i < m => end[i] < m
    <3> SUFFICES ASSUME NEW i \in DOMAIN end, i < m
                 PROVE  end[i] < m
      OBVIOUS
    <3>1. PICK j \in H : i = Start(j)
      BY <1>2
    <3>2. /\ Start(j) \in Nat /\ Stop(j) \in Nat /\ end[i] <= Stop(j) /\ end[i] \in Int
          /\ j \in Nat
      BY <1>1, <1>5, <3>1
    <3>3. j < k
      BY <1>6, <1>7, <3>1, <3>2
    <3> QED
      BY <1>6, <1>7, <3>2, <3>3
  <2>3. \A p \in 1 .. Len(b) : b[p] \in tokens => p \in m .. end[m]
    <3> SUFFICES ASSUME NEW p \in 1 .. Len(b), b[p] \in tokens
                 PROVE  p \in m .. end[m]
      OBVIOUS
    <3>1. p >= m
      BY <1>4
    <3>2. p <= end[m]
      BY <1>9 DEF Replaces, b, tokens
    <3>3. end[m] \in Int
      BY <1>1, <2>1
    <3> QED
      BY <3>1, <3>2, <3>3
  <2> HIDE DEF m
  <2>4. ToSet(s) \intersect tokens = {} /\ ToSet(new[m]) \subseteq ToSet(s)
    BY <1>3, <2>1, <2>2, <2>3, SubDrops DEF b, s
  <2>5. s \in Seq(X)
    <3>1. PICK f \in [1 .. Len(b) + 1 -> Seq(X)] : Replacing(b, end, new, f)
      BY SubFacts DEF b
    <3>2. 1 \in 1 .. Len(b) + 1
      BY <1>1
    <3> QED
      BY <3>1, <3>2 DEF Replacing, s
  <2>6. Only(s, tokens) = <<>>
    BY <2>4, <2>5, OnlyNone
  <2> QED
    BY <1>9, <2>4, <2>6 DEF OfField, s, b, tokens, m
<1> QED
  BY <1>8, <1>9

------------------------------------------------------------------------------
(* A JSON body.                                                             *)

\* The fields that the pattern finds.
Found == { k \in 1 .. Len(fields) : /\ fields[k].name \in SecretNames /\ IsText(k)
                                    /\ Stop(k) <= Len(Received) }

LEMMA JsonNames ==
  ASSUME RedactInv, place = "json", NEW p \in 1 .. Len(Received), NEW n, Received[p] = Name(n)
  PROVE  \E k \in 1 .. Len(fields) : p = Start(k) + 1 /\ n = fields[k].name
<1>1. Separator \in Marks /\ Bracket \in Marks
  BY DEF Separator, Marks
<1>2. Received[p] # Separator /\ Received[p] # Bracket
  BY <1>1, KindsDiffer
<1>3. PICK j \in 1 .. Len(fields) : \E o \in 1 .. Len(Written(j)) :
        p = Start(j) - 1 + o /\ Received[p] = Written(j)[o]
  BY <1>2, Positions
<1>4. PICK o \in 1 .. Len(Written(j)) : p = Start(j) - 1 + o /\ Received[p] = Written(j)[o]
  BY <1>3
<1>5. j \in Nat /\ o \in Nat /\ Written(j)[o] = Name(n)
  BY <1>4, FieldType
<1>6. IsJsonField(j, Written(j))
  BY WrittenIs
<1>7. o = 2
  BY <1>5, <1>6, JsonTokens
<1>8. Name(n) = Name(fields[j].name)
  BY <1>5, <1>6, <1>7 DEF IsJsonField
<1>9. n = fields[j].name
  BY <1>8, TokensTell
<1>10. Start(j) \in Nat
  BY FieldLength
<1> QED
  BY <1>4, <1>7, <1>9, <1>10

\* The value of a text, where it stands.
LEMMA JsonText ==
  ASSUME RedactInv, place = "json", NEW k \in 1 .. Len(fields), IsText(k)
  PROVE  /\ Stop(k) = Start(k) + 5 + Len(Value(k))
         /\ Len(Value(k)) \in Nat /\ Start(k) \in Nat
         /\ \A i \in 1 .. Len(Value(k)) :
              Start(k) + 4 + i <= Len(Received) => Received[Start(k) + 4 + i] = Value(k)[i]
         /\ Stop(k) <= Len(Received) => Received[Stop(k)] = Quote
<1> DEFINE w == Written(k)
           v == Value(k)
           b == Received
           a == Start(k)
           z == Stop(k)
<1>1. Len(v) \in Nat
  BY FieldType, ValueIs DEF IsValue
<1>2. /\ Len(w) = 6 + Len(v) /\ w[6 + Len(v)] = Quote
      /\ \A i \in 1 .. Len(v) : w[5 + i] = v[i]
  BY WrittenIs DEF IsJsonField, IsText
<1>3. a \in Nat /\ z = a - 1 + Len(w)
  BY FieldLength
<1>4. \A o \in 1 .. Len(w) : a - 1 + o <= Len(b) => b[a - 1 + o] = w[o]
  BY FieldTokens
<1> HIDE DEF w, v, b, a, z
<1>5. z = a + 5 + Len(v)
  BY <1>1, <1>2, <1>3
<1>6. ASSUME NEW i \in 1 .. Len(v), a + 4 + i <= Len(b)
      PROVE  b[a + 4 + i] = v[i]
  <2>1. 5 + i \in 1 .. Len(w) /\ a - 1 + (5 + i) = a + 4 + i
    BY <1>1, <1>2, <1>3
  <2> QED
    BY ONLY <1>2, <1>4, <1>6, <2>1
<1>7. ASSUME z <= Len(b)
      PROVE  b[z] = Quote
  <2>1. 6 + Len(v) \in 1 .. Len(w) /\ a - 1 + (6 + Len(v)) = z
    BY <1>1, <1>2, <1>3
  <2> QED
    BY ONLY <1>2, <1>4, <1>7, <2>1
<1> QED
  BY <1>1, <1>3, <1>5, <1>6, <1>7 DEF v, b, a, z

\* In a value a quote stands behind one backslash, and the last token is neither.
LEMMA ValueQuotes ==
  ASSUME NEW k \in Nat
  PROVE  LET v == Value(k)
         IN /\ \A i \in 1 .. Len(v) : v[i] = Quote =>
                 /\ i > 2 /\ i - 1 \in 1 .. Len(v) /\ i - 2 \in 1 .. Len(v)
                 /\ v[i - 1] = Backslash /\ v[i - 2] # Backslash
            /\ Len(v) > 0 => v[Len(v)] # Backslash /\ v[Len(v)] # Quote
<1> DEFINE v == Value(k)
<1>1. IsValue(k, v)
  BY ValueIs
<1>2. /\ Part(k, 1) # Quote /\ Part(k, 2) # Quote /\ Quote # Backslash
      /\ Part(k, 1) # Backslash /\ Part(k, 2) # Backslash
  BY KindsDiffer, MarksDiffer DEF Marks
<1> HIDE DEF v
<1>3. CASE fields[k].form = "blank"
  BY <1>1, <1>3 DEF IsValue, v
<1>4. CASE fields[k].form = "escaped"
  <2>1. /\ Len(v) = 4 /\ v[1] = Part(k, 1) /\ v[2] = Backslash /\ v[3] = Quote
        /\ v[4] = Part(k, 2)
    BY <1>1, <1>4 DEF IsValue
  <2>2. \A i \in 1 .. 4 : v[i] = Quote => i = 3
    BY ONLY <1>2, <2>1
  <2> QED
    BY <1>2, <2>1, <2>2 DEF v
<1>5. CASE fields[k].form \notin {"blank", "escaped"}
  <2>1. Len(v) = 2 /\ v[1] = Part(k, 1) /\ v[2] = Part(k, 2)
    BY <1>1, <1>5 DEF IsValue
  <2>2. \A i \in 1 .. 2 : v[i] # Quote
    BY ONLY <1>2, <2>1
  <2> QED
    BY <1>2, <2>1, <2>2 DEF v
<1> QED
  BY <1>3, <1>4, <1>5

\* The string that begins behind the opening quote ends at the closing one.
LEMMA JsonStringEnd ==
  ASSUME RedactInv, place = "json", NEW k \in 1 .. Len(fields), IsText(k)
  PROVE  StringEnd(Received, Start(k) + 5)
         = IF Stop(k) <= Len(Received) THEN Stop(k) ELSE Len(Received) + 1
<1> DEFINE b == Received
           n == Len(b)
           v == Value(k)
           a == Start(k) + 5
           z == Stop(k)
           E == { q \in a .. n : b[q] = Quote /\ ~ IsEscaped(b, a, q) }
           S == E \union {n + 1}
<1>1. /\ z = Start(k) + 5 + Len(v) /\ Len(v) \in Nat /\ Start(k) \in Nat
      /\ \A i \in 1 .. Len(v) : Start(k) + 4 + i <= n => b[Start(k) + 4 + i] = v[i]
      /\ z <= n => b[z] = Quote
  BY JsonText
<1>2. n \in Nat
  BY ReceivedFacts
<1>3. /\ \A i \in 1 .. Len(v) : v[i] = Quote =>
           /\ i > 2 /\ i - 1 \in 1 .. Len(v) /\ i - 2 \in 1 .. Len(v)
           /\ v[i - 1] = Backslash /\ v[i - 2] # Backslash
      /\ Len(v) > 0 => v[Len(v)] # Backslash /\ v[Len(v)] # Quote
  BY FieldType, ValueQuotes
<1>4. StringEnd(b, a) = Min(S)
  BY DEF StringEnd
<1>5. a \in Nat /\ z = a + Len(v)
  BY <1>1
<1>6. \A i \in 1 .. Len(v) : a - 1 + i <= n => b[a - 1 + i] = v[i]
  <2> TAKE i \in 1 .. Len(v)
  <2>1. a - 1 + i = Start(k) + 4 + i
    BY <1>1
  <2> HIDE DEF a, b, n, v
  <2> QED
    BY ONLY <1>1, <2>1, i \in 1 .. Len(v)
<1> HIDE DEF b, n, v, a, z
<1>7. ASSUME NEW q \in a .. n, q < z, b[q] = Quote
      PROVE  IsEscaped(b, a, q)
  <2> DEFINE i == q - (a - 1)
             r == q - 2
  <2>1. i \in 1 .. Len(v) /\ a - 1 + i = q
    BY <1>2, <1>5, <1>7
  <2>2. v[i] = Quote
    <3> HIDE DEF i
    <3> QED
      BY <1>2, <1>6, <1>7, <2>1
  <2>3. /\ i > 2 /\ i - 1 \in 1 .. Len(v) /\ i - 2 \in 1 .. Len(v)
        /\ v[i - 1] = Backslash /\ v[i - 2] # Backslash
    <3> HIDE DEF i
    <3> QED
      BY <1>3, <2>1, <2>2
  <2>4. b[q - 1] = v[i - 1]
    <3>1. a - 1 + (i - 1) = q - 1 /\ q - 1 <= n
      BY <1>2, <1>5, <1>7
    <3> HIDE DEF i
    <3> QED
      BY <1>6, <2>3, <3>1
  <2>5. b[r] = v[i - 2]
    <3>1. a - 1 + (i - 2) = r /\ r <= n
      BY <1>2, <1>5, <1>7
    <3> HIDE DEF i, r
    <3> QED
      BY <1>6, <2>3, <3>1
  <2>6. r \in a - 1 .. q - 1 /\ (q - r) % 2 = 0 /\ \A j \in r + 1 .. q - 1 : j = q - 1
    BY <1>2, <1>5, <1>7, <2>3
  <2> HIDE DEF r, i
  <2> QED
    BY ONLY <2>3, <2>4, <2>5, <2>6 DEF IsEscaped
<1>8. ASSUME z <= n, IsEscaped(b, a, z)
      PROVE  FALSE
  <2>1. PICK r \in a - 1 .. z - 1 : /\ \A j \in r + 1 .. z - 1 : b[j] = Backslash
                                   /\ (z - r) % 2 = 0
    BY <1>8 DEF IsEscaped
  <2>2. r # z - 1
    BY <1>5, <2>1
  <2>3. z - 1 \in r + 1 .. z - 1 /\ Len(v) > 0 /\ Len(v) \in 1 .. Len(v)
        /\ a - 1 + Len(v) = z - 1 /\ z - 1 <= n
    BY <1>1, <1>2, <1>5, <1>8, <2>2, SMTT(30)
  <2>4. b[z - 1] = v[Len(v)]
    BY <1>6, <2>3
  <2> QED
    BY <1>3, <2>1, <2>3, <2>4
<1>9. S \in SUBSET Int
  BY <1>2, <1>5
<1>10. CASE z <= n
  <2>1. z \in S
    BY <1>1, <1>2, <1>5, <1>8, <1>10
  <2>2. \A y \in S : z <= y
    <3> SUFFICES ASSUME NEW y \in S, y < z
                 PROVE  FALSE
      BY <1>1, <1>2, <1>5
    <3>1. y \in E
      BY <1>2, <1>5, <1>10
    <3> QED
      BY <1>7, <3>1
  <2> HIDE DEF S
  <2>3. Min(S) = z
    BY <1>9, <2>1, <2>2, MinIs
  <2> QED
    BY <1>4, <1>10, <2>3 DEF b, n, a, z
<1>11. CASE ~ (z <= n)
  <2>1. E = {}
    <3> SUFFICES ASSUME NEW y \in E
                 PROVE  FALSE
      OBVIOUS
    <3>1. y \in a .. n /\ y < z /\ b[y] = Quote
      BY <1>1, <1>2, <1>5, <1>11
    <3> QED
      BY <1>7, <3>1
  <2>2. S = {n + 1}
    BY <2>1
  <2> HIDE DEF S
  <2>3. Min(S) = n + 1
    BY <1>2, <1>9, <2>2, MinIs
  <2> QED
    BY <1>4, <1>11, <2>3 DEF b, n, a, z
<1> QED
  BY <1>10, <1>11

LEMMA JsonKeyEnd ==
  ASSUME RedactInv, place = "json", NEW k \in 1 .. Len(fields), Start(k) + 2 <= Len(Received)
  PROVE  /\ KeyEnd(Received, Start(k)) = Start(k) + 2
         /\ Received[Start(k)] = Quote /\ Received[Start(k) + 1] = Name(fields[k].name)
<1> DEFINE b == Received
           n == Len(b)
           a == Start(k)
           w == Written(k)
<1>1. b \in Seq(Tokens) /\ n \in Nat /\ a \in Nat /\ 1 <= a /\ a + 2 <= n
  BY ReceivedFacts, FieldLength
<1>2. /\ Len(w) \in Nat /\ Len(w) >= 6
      /\ w[1] = Quote /\ w[2] = Name(fields[k].name) /\ w[3] = Quote
  <2>1. IsJsonField(k, w)
    BY WrittenIs
  <2> DEFINE v == Value(k)
             f == fields[k].form
  <2>2. IsValue(k, v)
    BY FieldType, ValueIs
  <2> HIDE DEF v, w, f
  <2>3. Len(v) \in Nat /\ (f = "number" => Len(v) = 2)
    BY <2>2 DEF IsValue, f
  <2>4. /\ f = "number" => Len(w) = 4 + Len(v)
        /\ f = "list" => Len(w) = 8 + Len(v)
        /\ f \notin {"number", "list"} => Len(w) = 6 + Len(v)
    BY <2>1 DEF IsJsonField, v, f
  <2>5. \/ Len(w) = 4 + Len(v) /\ Len(v) = 2
        \/ Len(w) = 8 + Len(v) \/ Len(w) = 6 + Len(v)
    BY ONLY <2>3, <2>4
  <2>6. Len(w) \in Nat /\ Len(w) >= 6
    <3>1. Len(v) \in Nat
      BY <2>3
    <3>2. CASE Len(w) = 4 + Len(v) /\ Len(v) = 2
      BY ONLY <3>2
    <3>3. CASE Len(w) = 8 + Len(v)
      BY ONLY <3>1, <3>3
    <3>4. CASE Len(w) = 6 + Len(v)
      BY ONLY <3>1, <3>4
    <3> QED
      BY ONLY <2>5, <3>2, <3>3, <3>4
  <2> QED
    BY <2>1, <2>6 DEF IsJsonField
<1>3. \A o \in 1 .. Len(w) : a - 1 + o <= n => b[a - 1 + o] = w[o]
  BY FieldTokens
<1> HIDE DEF b, n, a, w
<1>4. b[a] = Quote /\ b[a + 1] = Name(fields[k].name) /\ b[a + 2] = Quote
  <2>1. /\ 1 \in 1 .. Len(w) /\ 2 \in 1 .. Len(w) /\ 3 \in 1 .. Len(w)
        /\ a - 1 + 1 = a /\ a - 1 + 2 = a + 1 /\ a - 1 + 3 = a + 2
        /\ a <= n /\ a + 1 <= n
    BY <1>1, <1>2
  <2> QED
    BY ONLY <1>1, <1>2, <1>3, <2>1
<1>5. NextOf({Quote}, b, a + 1) = a + 2
  <2>1. a + 1 \in 1 .. n + 1 /\ a + 2 \in a + 1 .. n + 1 /\ \A j \in a + 1 .. (a + 2) - 1 : j = a + 1
    BY <1>1
  <2>2. Quote # Name(fields[k].name)
    BY KindsDiffer DEF Marks
  <2> DEFINE quotes == {Quote}
  <2>3. \A j \in a + 1 .. (a + 2) - 1 : b[j] \notin quotes
    BY <1>4, <2>1, <2>2
  <2>4. a + 2 <= Len(b) => b[a + 2] \in quotes
    BY <1>1, <1>4, <2>1 DEF n
  <2> HIDE DEF quotes
  <2>5. NextOf(quotes, b, a + 1) = a + 2
    BY <1>1, <1>4, <2>1, <2>3, <2>4, NextOfIs DEF n
  <2> QED
    BY <2>5 DEF quotes
<1> QED
  BY <1>4, <1>5 DEF KeyEnd, b, a

\* The pattern finds the secret texts that are there in full, and nothing else.
LEMMA JsonFound ==
  ASSUME RedactInv, place = "json"
  PROVE  /\ \A i \in 1 .. Len(Received) :
              IsSecretPair(Received, i) <=> \E k \in Found : i = Start(k)
         /\ \A k \in Found : /\ Start(k) \in 1 .. Len(Received)
                             /\ KeyEnd(Received, Start(k)) = Start(k) + 2
                             /\ ValueEnd(Received, Start(k)) = Stop(k)
<1> DEFINE b == Received
           n == Len(b)
<1>1. b \in Seq(Tokens) /\ n \in Nat
  BY ReceivedFacts
<1>2. ASSUME NEW k \in 1 .. Len(fields), IsText(k)
      PROVE  /\ Start(k) \in Nat /\ 1 <= Start(k) /\ Stop(k) \in Nat
             /\ Start(k) + 5 <= Stop(k)
             /\ StringEnd(b, Start(k) + 5) = IF Stop(k) <= n THEN Stop(k) ELSE n + 1
  <2>1. /\ Stop(k) = Start(k) + 5 + Len(Value(k)) /\ Len(Value(k)) \in Nat
    BY <1>2, JsonText
  <2>2. Start(k) \in Nat /\ 1 <= Start(k) /\ Stop(k) \in Nat
    BY FieldLength
  <2>3. StringEnd(b, Start(k) + 5) = IF Stop(k) <= n THEN Stop(k) ELSE n + 1
    BY <1>2, JsonStringEnd
  <2> HIDE DEF b, n
  <2> QED
    BY <2>1, <2>2, <2>3
<1>3. ASSUME NEW k \in 1 .. Len(fields), Start(k) + 4 <= n
      PROVE  /\ b[Start(k) + 3] = Colon
             /\ b[Start(k) + 4] = Quote <=> IsText(k)
  <2> DEFINE w == Written(k)
             v == Value(k)
             a == Start(k)
             f == fields[k].form
  <2>1. IsJsonField(k, w) /\ k \in Nat
    BY WrittenIs, FieldType
  <2>2. IsValue(k, v)
    BY <2>1, ValueIs
  <2>3. \A o \in 1 .. Len(w) : a - 1 + o <= n => b[a - 1 + o] = w[o]
    BY FieldTokens
  <2>4. a \in Nat
    BY FieldLength
  <2>5. Bracket # Quote /\ Part(k, 1) # Quote
    BY KindsDiffer, MarksDiffer DEF Marks
  <2>6. /\ f = "number" => Len(w) = 6 /\ w[5] = Part(k, 1)
        /\ f = "list" => Len(w) = 8 + Len(v) /\ w[5] = Bracket
        /\ f \notin {"number", "list"} => Len(w) = 6 + Len(v) /\ w[5] = Quote
        /\ w[4] = Colon
    <3> HIDE DEF w
    <3>1. f = "number" => Len(v) = 2 /\ v[1] = Part(k, 1)
      BY <2>2 DEF IsValue
    <3> HIDE DEF v, f
    <3>2. f = "number" => Len(w) = 4 + Len(v) /\ \A i \in 1 .. Len(v) : w[4 + i] = v[i]
      BY <2>1 DEF IsJsonField, v, f
    <3>3. f = "number" => 1 \in 1 .. Len(v) /\ 4 + 1 = 5
      BY <3>1
    <3>4. f = "number" => Len(w) = 6 /\ w[5] = Part(k, 1)
      <4> SUFFICES ASSUME f = "number"
                   PROVE  Len(w) = 6 /\ w[5] = Part(k, 1)
        OBVIOUS
      <4>0. Len(v) = 2 /\ Len(w) = 4 + Len(v)
        BY ONLY <3>1, <3>2, f = "number"
      <4>1. Len(w) = 6
        BY ONLY <4>0
      <4>2. w[4 + 1] = v[1]
        BY ONLY <3>2, <3>3, f = "number"
      <4> QED
        BY ONLY <3>1, <3>3, <4>1, <4>2, f = "number"
    <3> QED
      BY <2>1, <3>4 DEF IsJsonField, v, f
  <2>7. Len(v) \in Nat
    BY <2>2 DEF IsValue
  <2> HIDE DEF w, v, a, f, b, n
  <2>8. 4 \in 1 .. Len(w) /\ 5 \in 1 .. Len(w)
    BY ONLY <2>6, <2>7
  <2>9. b[a + 3] = w[4] /\ b[a + 4] = w[5]
    <3>1. a - 1 + 4 = a + 3 /\ a - 1 + 5 = a + 4 /\ a + 3 <= n /\ a + 4 <= n
      BY <1>1, <1>3, <2>4 DEF a
    <3> QED
      BY ONLY <2>3, <2>8, <3>1
  <2> QED
    BY <2>5, <2>6, <2>9 DEF IsText, f, a
<1>4. ASSUME NEW i \in 1 .. n, IsSecretPair(b, i)
      PROVE  \E k \in Found : i = Start(k)
  <2> DEFINE e == NextOf({Quote}, b, i + 1)
  <2>1. /\ b[i] = Quote /\ e + 2 <= n /\ \E j \in i .. e : IsName(b[j], SecretNames)
        /\ b[e + 2] = Quote /\ StringEnd(b, e + 3) <= n
    BY <1>4 DEF IsSecretPair, KeyEnd, ValueEnd
  <2>2. /\ e \in i + 1 .. n + 1 /\ (e <= n => b[e] = Quote)
        /\ \A j \in i + 1 .. e - 1 : b[j] # Quote
    <3>1. i + 1 \in 1 .. n + 1
      BY <1>1
    <3> QED
      BY <1>1, <3>1, NextOfFacts
  <2> HIDE DEF e, n
  <2>3. PICK j \in i .. e : IsName(b[j], SecretNames)
    BY <2>1
  <2>4. PICK m \in SecretNames : b[j] = Name(m)
    BY <2>3 DEF IsName
  <2>5. j \in 1 .. n /\ e \in Nat
    BY <1>1, <2>1, <2>2
  <2>6. PICK k \in 1 .. Len(fields) : j = Start(k) + 1 /\ m = fields[k].name
    BY <2>4, <2>5, JsonNames DEF b, n
  <2>7. Start(k) \in Nat /\ 1 <= Start(k)
    BY FieldLength
  <2>8. j # i /\ j # e
    <3>1. Quote # Name(m)
      BY KindsDiffer DEF Marks
    <3>2. e <= n
      BY <1>1, <2>1, <2>5
    <3> QED
      BY <2>1, <2>2, <2>4, <3>1, <3>2
  <2>9. Start(k) + 2 <= n /\ i <= Start(k) /\ Start(k) <= e - 1
    BY <1>1, <2>1, <2>3, <2>5, <2>6, <2>7, <2>8, SMTT(30)
  <2>10. KeyEnd(b, Start(k)) = Start(k) + 2 /\ b[Start(k)] = Quote
    BY <2>9, JsonKeyEnd DEF b, n
  <2>11. i = Start(k)
    <3>1. i < Start(k) => Start(k) \in i + 1 .. e - 1
      BY <2>5, <2>7, <2>9
    <3> QED
      BY <2>2, <2>7, <2>9, <2>10, <3>1
  <2>12. e = Start(k) + 2
    BY <2>10, <2>11 DEF KeyEnd, e
  <2>13. Start(k) + 4 <= n /\ e + 2 = Start(k) + 4 /\ e + 3 = Start(k) + 5
    BY <2>1, <2>7, <2>12
  <2>14. IsText(k)
    BY <1>3, <2>1, <2>13
  <2>15. Stop(k) <= n
    <3>1. StringEnd(b, Start(k) + 5) <= n
      BY <2>1, <2>13
    <3>2. StringEnd(b, Start(k) + 5) = IF Stop(k) <= n THEN Stop(k) ELSE n + 1
      BY <1>2, <2>14
    <3> QED
      BY ONLY <1>1, <3>1, <3>2
  <2>16. k \in Found
    BY <2>6, <2>14, <2>15 DEF Found, b, n
  <2> QED
    BY <2>11, <2>16
<1>5. ASSUME NEW k \in Found
      PROVE  /\ Start(k) \in 1 .. n
             /\ KeyEnd(b, Start(k)) = Start(k) + 2
             /\ ValueEnd(b, Start(k)) = Stop(k)
             /\ IsSecretPair(b, Start(k))
  <2>1. k \in 1 .. Len(fields) /\ fields[k].name \in SecretNames /\ IsText(k) /\ Stop(k) <= n
    BY <1>5 DEF Found
  <2>2. /\ Start(k) \in Nat /\ 1 <= Start(k) /\ Stop(k) \in Nat /\ Start(k) + 5 <= Stop(k)
        /\ StringEnd(b, Start(k) + 5) = Stop(k)
    BY <1>2, <2>1
  <2> HIDE DEF n
  <2>3. Start(k) + 2 <= n /\ Start(k) + 4 <= n /\ Start(k) \in 1 .. n
    BY <1>1, <2>1, <2>2
  <2>4. /\ KeyEnd(b, Start(k)) = Start(k) + 2
        /\ b[Start(k)] = Quote /\ b[Start(k) + 1] = Name(fields[k].name)
    BY <2>1, <2>3, JsonKeyEnd DEF n
  <2>5. b[Start(k) + 3] = Colon /\ b[Start(k) + 4] = Quote
    BY <1>3, <2>1, <2>3
  <2>6. ValueEnd(b, Start(k)) = Stop(k)
    <3>1. (Start(k) + 2) + 3 = Start(k) + 5
      BY <2>2
    <3> QED
      BY <2>2, <2>4, <3>1 DEF ValueEnd
  <2>7. \E j \in Start(k) .. KeyEnd(b, Start(k)) : IsName(b[j], SecretNames)
    <3>1. Start(k) + 1 \in Start(k) .. Start(k) + 2
      BY <2>2
    <3>2. IsName(b[Start(k) + 1], SecretNames)
      BY <2>1, <2>4 DEF IsName
    <3> QED
      BY <2>4, <3>1, <3>2
  <2>8. /\ b[KeyEnd(b, Start(k)) + 1] = Colon /\ b[KeyEnd(b, Start(k)) + 2] = Quote
        /\ KeyEnd(b, Start(k)) + 2 <= Len(b)
    <3>1. (Start(k) + 2) + 1 = Start(k) + 3 /\ (Start(k) + 2) + 2 = Start(k) + 4
      BY <2>2
    <3> QED
      BY <2>3, <2>4, <2>5, <3>1 DEF n
  <2>9. ValueEnd(b, Start(k)) <= Len(b)
    BY <2>1, <2>6 DEF n
  <2> QED
    BY <2>3, <2>4, <2>6, <2>7, <2>8, <2>9 DEF IsSecretPair
<1> QED
  BY <1>4, <1>5

\* What is stored has digests too.
Kept == Tokens \union { Digest(v) : v \in Seq(Tokens) }

LEMMA Slice ==
  ASSUME NEW X, NEW s \in Seq(X), NEW p \in 1 .. Len(s) + 1, NEW e \in p - 1 .. Len(s)
  PROVE  /\ SubSeq(s, p, e) \in Seq(X) /\ Len(SubSeq(s, p, e)) = e - p + 1
         /\ DOMAIN SubSeq(s, p, e) = 1 .. e - p + 1
         /\ \A i \in 1 .. e - p + 1 : SubSeq(s, p, e)[i] = s[p + i - 1]
<1> DEFINE c == SubSeq(s, p, e)
           n == Len(s)
<1>1. n \in Nat /\ p \in Int /\ e \in Int /\ p - 1 <= e /\ e <= n /\ 1 <= p
  OBVIOUS
<1>2. \A i \in p .. e : s[i] \in X
  BY <1>1
<1>3. /\ c \in Seq(X) /\ Len(c) = IF p <= e THEN e - p + 1 ELSE 0
      /\ \A i \in 1 .. e - p + 1 : c[i] = s[p + i - 1]
  BY ONLY <1>1, <1>2, SubSeqProperties
<1> HIDE DEF c, n
<1>4. (IF p <= e THEN e - p + 1 ELSE 0) = e - p + 1
  BY ONLY <1>1
<1>5. Len(c) = e - p + 1
  BY ONLY <1>3, <1>4
<1>6. DOMAIN c = 1 .. e - p + 1
  BY ONLY <1>3, <1>5
<1> QED
  BY <1>3, <1>5, <1>6 DEF c

LEMMA SameSequence ==
  ASSUME NEW X, NEW s \in Seq(X), NEW u \in Seq(X), Len(s) = Len(u),
         \A i \in 1 .. Len(s) : s[i] = u[i]
  PROVE  s = u
OBVIOUS

LEMMA StrippedIs ==
  ASSUME NEW X, NEW v \in Seq(X), Len(v) > 0 => v[Len(v)] # Quote
  PROVE  Stripped(v) = v
<1> DEFINE S == {0} \union { i \in DOMAIN v : v[i] # Quote }
<1>1. Len(v) \in Nat /\ DOMAIN v = 1 .. Len(v)
  OBVIOUS
<1>2. S \in SUBSET Int /\ Len(v) \in S /\ \A y \in S : y <= Len(v)
  BY <1>1
<1>3. Max(S) = Len(v)
  <2> HIDE DEF S
  <2> QED
    BY <1>2, MaxIs
<1>4. SubSeq(v, 1, Len(v)) = v
  BY SubSeqFull
<1> QED
  BY <1>3, <1>4 DEF Stripped

LEMMA JsonRedacted ==
  ASSUME RedactInv, place = "json", NEW k \in 1 .. Len(fields)
  PROVE  IF k \in Found
         THEN /\ OfField(k, RedactJson(Received)) = <<>>
              /\ Digest(Value(k)) \in ToSet(RedactJson(Received))
         ELSE OfField(k, RedactJson(Received)) = OfField(k, Received)
<1> DEFINE b     == Received
           n     == Len(b)
           found == { i \in DOMAIN b : IsSecretPair(b, i) }
           KeyPart(i) == SubSeq(b, i, KeyEnd(b, i) + 2)
           ValuePart(i) == << Digest(Stripped(SubSeq(b, KeyEnd(b, i) + 3, ValueEnd(b, i) - 1))), Quote >>
           end   == [i \in found |-> ValueEnd(b, i)]
           new   == [i \in found |-> KeyPart(i) \o ValuePart(i)]
<1>1. b \in Seq(Tokens) /\ n \in Nat /\ DOMAIN b = 1 .. n
  BY ReceivedFacts
<1>2. RedactJson(b) = Sub(b, end, new)
  BY DEF RedactJson
<1>3. found = { Start(j) : j \in Found }
  BY <1>1, JsonFound
<1>4. ASSUME NEW j \in Found
      PROVE  /\ j \in 1 .. Len(fields) /\ IsText(j) /\ Stop(j) <= n
             /\ Start(j) \in 1 .. n /\ Stop(j) \in Nat /\ j \in Nat
             /\ Stop(j) = Start(j) + 5 + Len(Value(j))
             /\ Value(j) \in Seq(Tokens) /\ Len(Value(j)) \in Nat
             /\ KeyEnd(b, Start(j)) + 2 = Start(j) + 4
             /\ KeyEnd(b, Start(j)) + 3 = Start(j) + 5
             /\ ValueEnd(b, Start(j)) = Stop(j)
  <2>1. j \in 1 .. Len(fields) /\ IsText(j) /\ Stop(j) <= n
    BY DEF Found
  <2>2. /\ Start(j) \in 1 .. n /\ KeyEnd(b, Start(j)) = Start(j) + 2
        /\ ValueEnd(b, Start(j)) = Stop(j)
    BY JsonFound
  <2>3. Stop(j) = Start(j) + 5 + Len(Value(j))
    BY <2>1, JsonText
  <2>4. Stop(j) \in Nat /\ j \in Nat
    BY <2>1, FieldLength, FieldType
  <2>5. Value(j) \in Seq(Tokens) /\ Len(Value(j)) \in Nat
    BY <2>4, ValueIs DEF IsValue
  <2>6. (Start(j) + 2) + 2 = Start(j) + 4 /\ (Start(j) + 2) + 3 = Start(j) + 5
    BY <2>2
  <2> QED
    BY <2>1, <2>2, <2>3, <2>4, <2>5, <2>6
<1> HIDE DEF found
<1>5. DOMAIN end = { Start(j) : j \in Found }
  BY <1>3
<1>6. ASSUME NEW j \in Found
      PROVE  /\ end[Start(j)] = Stop(j)
             /\ KeyPart(Start(j)) \in Seq(Tokens)
             /\ \A i, q : Part(i, q) \notin ToSet(KeyPart(Start(j)))
             /\ ValuePart(Start(j)) = << Digest(Value(j)), Quote >>
             /\ new[Start(j)] = KeyPart(Start(j)) \o ValuePart(Start(j))
  <2> DEFINE a == Start(j)
             h == SubSeq(b, a, a + 4)
             c == SubSeq(b, a + 5, Stop(j) - 1)
             v == Value(j)
  <2>0. a \in found
    BY <1>3
  <2>1. end[a] = Stop(j) /\ new[a] = KeyPart(a) \o ValuePart(a)
    BY <1>4, <2>0
  <2>2. KeyPart(a) = h /\ ValuePart(a) = << Digest(Stripped(c)), Quote >>
    BY <1>4
  <2>3. a + 5 <= Stop(j) /\ Stop(j) <= n /\ a \in Nat /\ 1 <= a /\ Stop(j) = a + 5 + Len(v)
    BY <1>4
  <2>4. /\ h \in Seq(Tokens) /\ DOMAIN h = 1 .. 5 /\ \A i \in 1 .. 5 : h[i] = b[a + i - 1]
    <3>1. a \in 1 .. n + 1 /\ a + 4 \in a - 1 .. n /\ (a + 4) - a + 1 = 5
      BY <1>1, <2>3
    <3> HIDE DEF a, b
    <3> QED
      BY <1>1, <3>1, Slice
  <2>5. \A i, q : Part(i, q) \notin ToSet(h)
    <3> SUFFICES ASSUME NEW i, NEW q, NEW x \in 1 .. 5, h[x] = Part(i, q)
                 PROVE  FALSE
      BY <2>4 DEF ToSet
    <3>1. a - 1 + x <= n /\ a - 1 + x = a + x - 1
      BY <1>1, <2>3
    <3>2. x \in 1 .. Len(Written(j))
      <4> DEFINE l == Len(Written(j))
      <4>1. l \in Nat /\ Stop(j) = Start(j) - 1 + l
        BY <1>4, FieldLength
      <4> HIDE DEF l
      <4>2. 5 <= l
        BY <2>3, <4>1
      <4> QED
        BY <4>1, <4>2 DEF l
    <3>3. Written(j)[x] = Part(i, q)
      BY <1>4, <2>4, <3>1, <3>2, FieldTokens
    <3>4. IsJsonField(j, Written(j))
      BY <1>4, WrittenIs
    <3>5. i = j /\ (IsText(i) => x > 5)
      BY <1>4, <3>2, <3>3, <3>4, JsonTokens, SMTT(30)
    <3> QED
      BY <1>4, <3>5, SMTT(30)
  <2>6. c = v
    <3>1. a + 5 \in 1 .. n + 1 /\ Stop(j) - 1 \in (a + 5) - 1 .. n
          /\ (Stop(j) - 1) - (a + 5) + 1 = Len(v)
      <4> DEFINE l == Len(v)
                 z == Stop(j)
      <4>1. l \in Nat /\ a + 5 <= z /\ z <= n /\ a \in Nat /\ 1 <= a /\ z = a + 5 + l
        BY <1>4, <2>3
      <4> HIDE DEF l, z, a, n
      <4>2. /\ a + 5 \in 1 .. n + 1 /\ z - 1 \in (a + 5) - 1 .. n
            /\ (z - 1) - (a + 5) + 1 = l
        BY ONLY <1>1, <4>1
      <4> QED
        BY ONLY <4>2 DEF l, z
    <3>2. c \in Seq(Tokens) /\ Len(c) = Len(v) /\ \A i \in 1 .. Len(v) : c[i] = b[(a + 5) + i - 1]
      <4> DEFINE p == a + 5
                 e == Stop(j) - 1
                 s == SubSeq(b, p, e)
      <4>1. p \in 1 .. Len(b) + 1 /\ e \in p - 1 .. Len(b) /\ e - p + 1 = Len(v)
        BY <3>1
      <4> HIDE DEF p, e, b, v
      <4>2. s \in Seq(Tokens) /\ Len(s) = e - p + 1 /\ \A i \in 1 .. e - p + 1 : s[i] = b[p + i - 1]
        BY ONLY <1>1, <4>1, Slice
      <4> HIDE DEF s
      <4>3. s \in Seq(Tokens) /\ Len(s) = Len(v) /\ \A i \in 1 .. Len(v) : s[i] = b[p + i - 1]
        BY ONLY <4>1, <4>2
      <4> QED
        BY <4>3 DEF s, p, e
    <3>3. \A i \in 1 .. Len(v) : b[a + 4 + i] = v[i]
      <4> TAKE i \in 1 .. Len(v)
      <4>1. a + 4 + i <= n
        BY <1>4, <2>3, SMTT(30)
      <4> QED
        BY <1>4, <4>1, JsonText
    <3>4. \A i \in 1 .. Len(v) : (a + 5) + i - 1 = a + 4 + i
      BY <1>4, <2>3
    <3>5. v \in Seq(Tokens)
      BY <1>4
    <3> HIDE DEF a, b, v, c
    <3>6. \A i \in 1 .. Len(c) : c[i] = v[i]
      BY ONLY <3>2, <3>3, <3>4
    <3> QED
      BY ONLY <3>2, <3>5, <3>6, SameSequence
  <2>7. Stripped(v) = v
    <3>1. Len(v) > 0 => v[Len(v)] # Quote
      BY <1>4, ValueQuotes
    <3> QED
      BY <1>4, <3>1, StrippedIs
  <2> HIDE DEF c, v, h
  <2> QED
    BY <2>1, <2>2, <2>4, <2>5, <2>6, <2>7 DEF v
<1>7. Quote \in Marks /\ Quote \in Tokens
  BY TokensType DEF Marks
<1>8. ASSUME NEW j \in Found
      PROVE  /\ new[Start(j)] \in Seq(Kept)
             /\ ToSet(new[Start(j)]) = ToSet(KeyPart(Start(j))) \union {Digest(Value(j)), Quote}
  <2> DEFINE h == KeyPart(Start(j))
             u == << Digest(Value(j)), Quote >>
  <2>1. h \in Seq(Tokens) /\ new[Start(j)] = h \o u
    BY <1>6
  <2>2. h \in Seq(Kept)
    <3> HIDE DEF h
    <3> QED
      BY <2>1 DEF Kept
  <2>3. u \in Seq(Kept) /\ ToSet(u) = {Digest(Value(j)), Quote}
    <3>1. Digest(Value(j)) \in Kept /\ Quote \in Kept
      BY <1>4, <1>7 DEF Kept
    <3>2. ToSet(u) = {Digest(Value(j)), Quote}
      BY DEF ToSet
    <3> QED
      BY <3>1, <3>2
  <2> HIDE DEF h, u
  <2>4. h \o u \in Seq(Kept) /\ ToSet(h \o u) = ToSet(h) \union ToSet(u)
    <3>1. h \o u \in Seq(Kept)
      BY ONLY <2>2, <2>3, ConcatProperties
    <3>2. ToSet(h \o u) = ToSet(h) \union ToSet(u)
      BY ONLY <2>2, <2>3, CatSet
    <3> QED
      BY <3>1, <3>2
  <2> QED
    BY <2>1, <2>3, <2>4 DEF h
<1> HIDE DEF end, new, KeyPart, ValuePart
<1>9. Matching(Kept, b, end, new)
  <2>1. b \in Seq(Kept)
    BY <1>1 DEF Kept
  <2>2. DOMAIN end \subseteq 1 .. Len(b)
    BY <1>4, <1>5
  <2>3. \A i \in DOMAIN end : end[i] \in i .. Len(b) /\ new[i] \in Seq(Kept)
    <3> SUFFICES ASSUME NEW i \in DOMAIN end
                 PROVE  end[i] \in i .. Len(b) /\ new[i] \in Seq(Kept)
      OBVIOUS
    <3>1. PICK j \in Found : i = Start(j)
      BY <1>5
    <3>2. /\ Start(j) \in Nat /\ Stop(j) \in Nat /\ Stop(j) <= n
          /\ Stop(j) = Start(j) + 5 + Len(Value(j)) /\ Len(Value(j)) \in Nat
      BY <1>4
    <3>3. Stop(j) \in Start(j) .. n
      BY ONLY <1>1, <3>2
    <3> QED
      BY <1>6, <1>8, <3>1, <3>3
  <2> QED
    BY <2>1, <2>2, <2>3 DEF Matching
<1>10. Replaces(Found, end, new)
  <2>1. Found \subseteq 1 .. Len(fields)
    BY DEF Found
  <2>2. ASSUME NEW j \in Found
        PROVE  /\ end[Start(j)] <= Stop(j)
               /\ \A p \in 1 .. Len(Received) :
                    Received[p] \in {Part(j, 1), Part(j, 2)} => p <= end[Start(j)]
               /\ \A i, q : Part(i, q) \notin ToSet(new[Start(j)])
    <3>1. end[Start(j)] = Stop(j) /\ Stop(j) \in Nat
      BY <1>4, <1>6
    <3>2. \A p \in 1 .. Len(Received) :
            Received[p] \in {Part(j, 1), Part(j, 2)} => p <= end[Start(j)]
      BY <1>4, <3>1, PartsWithin
    <3>3. \A i, q : Part(i, q) \notin {Digest(Value(j)), Quote}
      BY <1>7, KindsDiffer
    <3>4. \A i, q : Part(i, q) \notin ToSet(new[Start(j)])
      BY <1>6, <1>8, <3>3
    <3> QED
      BY <3>1, <3>2, <3>4
  <2> QED
    BY <1>5, <2>1, <2>2 DEF Replaces
<1>11. IF k \in Found
       THEN /\ OfField(k, Sub(b, end, new)) = <<>>
            /\ ToSet(new[Start(k)]) \subseteq ToSet(Sub(b, end, new))
       ELSE OfField(k, Sub(b, end, new)) = OfField(k, b)
  BY <1>9, <1>10, Replacement
<1> QED
  BY <1>2, <1>8, <1>11

------------------------------------------------------------------------------
(* A body that is not JSON.                                                 *)

LEMMA PlainNames ==
  ASSUME RedactInv, place # "json", NEW p \in 1 .. Len(Received), NEW n, Received[p] = Name(n)
  PROVE  \E k \in 1 .. Len(fields) : p = Start(k) /\ n = fields[k].name
<1>1. Separator \in Marks
  BY DEF Separator, Marks
<1>2. Received[p] # Separator
  BY <1>1, KindsDiffer
<1>3. PICK j \in 1 .. Len(fields) : \E o \in 1 .. Len(Written(j)) :
        p = Start(j) - 1 + o /\ Received[p] = Written(j)[o]
  BY <1>2, Positions
<1>4. PICK o \in 1 .. Len(Written(j)) : p = Start(j) - 1 + o /\ Received[p] = Written(j)[o]
  BY <1>3
<1>5. j \in Nat /\ o \in Nat /\ Written(j)[o] = Name(n)
  BY <1>4, FieldType
<1>6. IsPlainField(j, Written(j))
  BY WrittenIs
<1>7. o = 1
  BY <1>5, <1>6, PlainTokens
<1>8. Name(n) = Name(fields[j].name)
  BY <1>5, <1>6, <1>7 DEF IsPlainField
<1>9. n = fields[j].name
  BY <1>8, TokensTell
<1>10. Start(j) \in Nat
  BY FieldLength
<1> QED
  BY <1>4, <1>7, <1>9, <1>10

\* A field and its value, where they stand.
LEMMA PlainText ==
  ASSUME RedactInv, place # "json", NEW k \in 1 .. Len(fields)
  PROVE  LET b == Received
             a == Start(k)
             v == Value(k)
         IN /\ Stop(k) = a + 1 + Len(v) /\ Len(v) \in Nat /\ v \in Seq(Tokens)
            /\ a \in Nat /\ 1 <= a
            /\ a <= Len(b) => b[a] = Name(fields[k].name)
            /\ a + 1 <= Len(b) => b[a + 1] = IF fields[k].form = "colon" THEN Colon ELSE Equals
            /\ \A i \in 1 .. Len(v) : a + 1 + i <= Len(b) => b[a + 1 + i] = v[i]
            /\ \A p \in a .. Stop(k) : p <= Len(b) =>
                 b[p] \notin {Amp, Space} /\ (b[p] = Equals => p = a + 1)
<1> DEFINE w == Written(k)
           v == Value(k)
           b == Received
           a == Start(k)
           z == Stop(k)
<1>1. Len(v) \in Nat /\ v \in Seq(Tokens)
  BY FieldType, ValueIs DEF IsValue
<1>2. /\ Len(w) = 2 + Len(v) /\ w[1] = Name(fields[k].name)
      /\ w[2] = IF fields[k].form = "colon" THEN Colon ELSE Equals
      /\ \A i \in 1 .. Len(v) : w[2 + i] = v[i]
  BY WrittenIs DEF IsPlainField
<1>3. a \in Nat /\ 1 <= a /\ z = a - 1 + Len(w)
  BY FieldLength
<1>4. \A o \in 1 .. Len(w) : a - 1 + o <= Len(b) => b[a - 1 + o] = w[o]
  BY FieldTokens
<1>5. \A o \in 1 .. Len(w) : w[o] \notin {Amp, Space} /\ (w[o] = Equals => o = 2)
  BY FieldType, WrittenIs, PlainTokens
<1> HIDE DEF w, v, b, a, z
<1>6. z = a + 1 + Len(v)
  BY <1>1, <1>2, <1>3
<1>7. ASSUME NEW i \in 1 .. Len(v), a + 1 + i <= Len(b)
      PROVE  b[a + 1 + i] = v[i]
  <2>1. 2 + i \in 1 .. Len(w) /\ a - 1 + (2 + i) = a + 1 + i
    BY <1>1, <1>2, <1>3
  <2> QED
    BY ONLY <1>2, <1>4, <1>7, <2>1
<1>8. /\ a <= Len(b) => b[a] = w[1]
      /\ a + 1 <= Len(b) => b[a + 1] = w[2]
  <2>1. 1 \in 1 .. Len(w) /\ 2 \in 1 .. Len(w) /\ a - 1 + 1 = a /\ a - 1 + 2 = a + 1
    BY <1>1, <1>2, <1>3
  <2> QED
    BY ONLY <1>4, <2>1
<1>9. ASSUME NEW p \in a .. z, p <= Len(b)
      PROVE  b[p] \notin {Amp, Space} /\ (b[p] = Equals => p = a + 1)
  <2> DEFINE o == p - (a - 1)
  <2>1. o \in 1 .. Len(w) /\ a - 1 + o = p /\ (o = 2 => p = a + 1)
    BY <1>1, <1>2, <1>3, <1>6
  <2> HIDE DEF o
  <2>2. b[p] = w[o]
    BY <1>4, <1>9, <2>1
  <2> QED
    BY <1>5, <2>1, <2>2
<1> QED
  BY <1>1, <1>2, <1>3, <1>6, <1>7, <1>8, <1>9 DEF v, b, a, z

\* Behind a field is a separator.
LEMMA PlainSeparator ==
  ASSUME RedactInv, place # "json", NEW k \in 1 .. Len(fields), Stop(k) + 1 <= Len(Received)
  PROVE  Received[Stop(k) + 1] = Separator
<1> DEFINE p == Stop(k) + 1
<1>1. Start(k) \in Nat /\ Stop(k) \in Nat /\ Start(k) < Stop(k) /\ k \in Nat
  BY FieldLength, FieldType
<1>2. p \in 1 .. Len(Received)
  BY <1>1, ReceivedFacts
<1>3. ASSUME NEW j \in 1 .. Len(fields), NEW o \in 1 .. Len(Written(j)), p = Start(j) - 1 + o
      PROVE  FALSE
  <2>1. /\ Len(Written(j)) \in Nat /\ Stop(j) = Start(j) - 1 + Len(Written(j))
        /\ Start(j) \in Nat /\ Stop(j) \in Nat /\ j \in Nat
    BY FieldLength, FieldType
  <2>2. Start(j) <= p /\ p <= Stop(j)
    BY <1>3, <2>1
  <2>3. CASE j < k
    <3>1. Stop(j) + 1 < Start(k)
      BY <2>3, FieldOrder
    <3> QED
      BY <1>1, <2>1, <2>2, <3>1
  <2>4. CASE k < j
    <3>1. Stop(k) + 1 < Start(j)
      BY <2>4, FieldOrder
    <3> QED
      BY <1>1, <2>1, <2>2, <3>1
  <2>5. CASE j = k
    BY <1>1, <2>2, <2>5
  <2> QED
    BY <1>1, <2>1, <2>3, <2>4, <2>5
<1> HIDE DEF p
<1>4. Received[p] = Separator
  BY <1>2, <1>3, Positions
<1> QED
  BY <1>4 DEF p

\* The words that the pattern finds.
FoundWords ==
  { k \in 1 .. Len(fields) : /\ fields[k].name \in LeadingNames /\ fields[k].form # "colon"
                             /\ Start(k) + 2 <= Len(Received) }

\* Where the received part of a field ends.
Cut(k) == IF Stop(k) <= Len(Received) THEN Stop(k) ELSE Len(Received)

IsSecretWord(b, i) ==
  IsName(b[i], LeadingNames) /\ i + 2 < WordEnd(b, i) /\ b[i + 1] = Equals

LEMMA WordsFound ==
  ASSUME RedactInv, place = "other"
  PROVE  /\ \A i \in 1 .. Len(Received) :
              IsSecretWord(Received, i) <=> \E k \in FoundWords : i = Start(k)
         /\ \A k \in FoundWords : /\ WordEnd(Received, Start(k)) = Cut(k) + 1
                                  /\ Cut(k) \in Start(k) + 2 .. Stop(k)
                                  /\ Cut(k) <= Len(Received)
<1> DEFINE b == Received
           n == Len(b)
<1>1. b \in Seq(Tokens) /\ n \in Nat
  BY ReceivedFacts
<1>2. ASSUME NEW k \in FoundWords
      PROVE  /\ WordEnd(b, Start(k)) = Cut(k) + 1
             /\ Cut(k) \in Start(k) + 2 .. Stop(k) /\ Cut(k) <= n
             /\ IsSecretWord(b, Start(k))
  <2> DEFINE a == Start(k)
             z == Stop(k)
             v == Value(k)
             e == Cut(k)
  <2>1. /\ k \in 1 .. Len(fields) /\ fields[k].name \in LeadingNames
        /\ fields[k].form # "colon" /\ a + 2 <= n
    BY DEF FoundWords
  <2>2. Len(v) = 2
    <3>1. fields[k].form \in Forms /\ k \in Nat
      BY <2>1, FieldType
    <3>2. fields[k].form = "string"
      BY <2>1, <3>1 DEF Forms
    <3>3. IsValue(k, v)
      BY <3>1, ValueIs
    <3> QED
      BY <3>2, <3>3 DEF IsValue
  <2>3. /\ z = a + 1 + Len(v) /\ a \in Nat /\ 1 <= a
        /\ a <= n => b[a] = Name(fields[k].name)
        /\ a + 1 <= n => b[a + 1] = IF fields[k].form = "colon" THEN Colon ELSE Equals
        /\ \A p \in a .. z : p <= n => b[p] \notin {Amp, Space}
    BY <2>1, PlainText
  <2>4. z + 1 <= n => b[z + 1] = Space
    <3>1. Separator = Space
      BY DEF Separator
    <3> QED
      BY <2>1, <3>1, PlainSeparator
  <2>5. e = IF z <= n THEN z ELSE n
    BY DEF Cut
  <2> HIDE DEF a, z, v, e, b, n
  <2>6. z = a + 3
    BY ONLY <2>2, <2>3
  <2>7. /\ e \in a + 2 .. z /\ e <= n /\ e \in Nat
        /\ (e + 1 <= n => e = z)
        /\ a + 2 \in 1 .. n + 1 /\ e + 1 \in a + 2 .. n + 1
    BY ONLY <1>1, <2>1, <2>3, <2>5, <2>6
  <2>8. \A j \in a + 2 .. (e + 1) - 1 : b[j] \notin {Amp, Space}
    <3>1. \A j \in a + 2 .. (e + 1) - 1 : j \in a .. z /\ j <= n
      BY ONLY <1>1, <2>3, <2>6, <2>7
    <3> QED
      BY <2>3, <3>1
  <2>9. e + 1 <= n => b[e + 1] \in {Amp, Space}
    BY <2>4, <2>7
  <2>10. NextOf({Amp, Space}, b, a + 2) = e + 1
    BY <1>1, <2>7, <2>8, <2>9, NextOfIs DEF n
  <2>11. WordEnd(b, a) = e + 1
    BY <2>10 DEF WordEnd
  <2>12. a <= n /\ a + 1 <= n /\ a + 2 < e + 1
    BY ONLY <1>1, <2>1, <2>3, <2>7
  <2>13. IsSecretWord(b, a)
    BY <2>1, <2>3, <2>11, <2>12 DEF IsSecretWord, IsName
  <2> QED
    BY <2>7, <2>11, <2>13 DEF a, z, e
<1>3. ASSUME NEW i \in 1 .. n, IsSecretWord(b, i)
      PROVE  \E k \in FoundWords : i = Start(k)
  <2> DEFINE e == NextOf({Amp, Space}, b, i + 2)
  <2>1. IsName(b[i], LeadingNames) /\ i + 2 < e /\ b[i + 1] = Equals
    BY <1>3 DEF IsSecretWord, WordEnd
  <2>2. PICK m \in LeadingNames : b[i] = Name(m)
    BY <2>1 DEF IsName
  <2>3. PICK k \in 1 .. Len(fields) : i = Start(k) /\ m = fields[k].name
    BY <2>2, PlainNames
  <2>4. i + 2 <= n
    <3>1. CASE i + 2 \in 1 .. n + 1
      <4>1. e \in i + 2 .. n + 1
        BY <1>1, <3>1, NextOfFacts
      <4> HIDE DEF e
      <4> QED
        BY <1>1, <2>1, <4>1
    <3>2. CASE i + 2 \notin 1 .. n + 1
      <4>1. { j \in i + 2 .. n : b[j] \in {Amp, Space} } \union {n + 1} = {n + 1}
        BY <1>1, <3>2
      <4>2. e = Min({n + 1})
        BY <4>1 DEF NextOf
      <4>3. Min({n + 1}) = n + 1
        <5>1. {n + 1} \in SUBSET Int /\ n + 1 \in {n + 1} /\ \A y \in {n + 1} : n + 1 <= y
          BY <1>1
        <5> QED
          BY <5>1, MinIs
      <4> HIDE DEF e
      <4> QED
        BY <1>1, <2>1, <3>2, <4>2, <4>3
    <3> QED
      BY <3>1, <3>2
  <2>5. fields[k].form # "colon"
    <3>1. i + 1 <= n
      BY <1>1, <2>4
    <3>2. b[i + 1] = IF fields[k].form = "colon" THEN Colon ELSE Equals
      BY <2>3, <3>1, PlainText
    <3> QED
      BY <2>1, <3>2, MarksDiffer
  <2>6. k \in FoundWords
    BY <2>2, <2>3, <2>4, <2>5 DEF FoundWords
  <2> QED
    BY <2>3, <2>6
<1> QED
  BY <1>2, <1>3

LEMMA InlineRedacted ==
  ASSUME RedactInv, place = "other", NEW k \in 1 .. Len(fields)
  PROVE  IF k \in FoundWords
         THEN /\ OfField(k, RedactInline(Received)) = <<>>
              /\ Stop(k) <= Len(Received) => Digest(Value(k)) \in ToSet(RedactInline(Received))
         ELSE OfField(k, RedactInline(Received)) = OfField(k, Received)
<1> DEFINE b     == Received
           n     == Len(b)
           found == { i \in DOMAIN b : /\ IsName(b[i], LeadingNames) /\ i + 2 < WordEnd(b, i)
                                       /\ b[i + 1] = Equals }
           V(i)  == SubSeq(b, i + 2, WordEnd(b, i) - 1)
           end   == [i \in found |-> WordEnd(b, i) - 1]
           new   == [i \in found |-> << b[i], Equals, Digest(V(i)) >>]
<1>1. b \in Seq(Tokens) /\ n \in Nat /\ DOMAIN b = 1 .. n
  BY ReceivedFacts
<1>2. RedactInline(b) = Sub(b, end, new)
  BY DEF RedactInline
<1>3. found = { Start(j) : j \in FoundWords }
  <2>1. \A i \in 1 .. n : i \in found <=> IsSecretWord(b, i)
    BY <1>1 DEF IsSecretWord
  <2>2. found \subseteq 1 .. n
    BY <1>1
  <2>3. \A j \in FoundWords : Start(j) \in 1 .. n
    <3> TAKE j \in FoundWords
    <3>1. j \in 1 .. Len(fields) /\ Start(j) + 2 <= n
      BY DEF FoundWords
    <3>2. Start(j) \in Nat /\ 1 <= Start(j)
      BY <3>1, FieldLength
    <3> HIDE DEF n
    <3> QED
      BY ONLY <1>1, <3>1, <3>2
  <2>4. \A i \in 1 .. n : IsSecretWord(b, i) <=> \E j \in FoundWords : i = Start(j)
    BY WordsFound
  <2> HIDE DEF found, n
  <2> QED
    BY <2>1, <2>2, <2>3, <2>4
<1>4. ASSUME NEW j \in FoundWords
      PROVE  /\ j \in 1 .. Len(fields) /\ j \in Nat
             /\ Start(j) \in 1 .. n /\ Start(j) \in found
             /\ Stop(j) \in Nat /\ Cut(j) \in Nat
             /\ Cut(j) \in Start(j) + 2 .. Stop(j) /\ Cut(j) <= n
             /\ WordEnd(b, Start(j)) = Cut(j) + 1
             /\ b[Start(j)] = Name(fields[j].name)
  <2>1. j \in 1 .. Len(fields)
    BY DEF FoundWords
  <2>2. j \in Nat /\ Stop(j) \in Nat /\ Start(j) \in Nat /\ 1 <= Start(j)
    BY <2>1, FieldLength, FieldType
  <2>3. /\ Cut(j) \in Start(j) + 2 .. Stop(j) /\ Cut(j) <= n
        /\ WordEnd(b, Start(j)) = Cut(j) + 1
    BY WordsFound
  <2>4. Start(j) \in found
    BY <1>3
  <2> HIDE DEF n, b, found
  <2>5. Start(j) \in 1 .. n /\ Cut(j) \in Nat
    BY <1>1, <2>2, <2>3
  <2>6. b[Start(j)] = Name(fields[j].name)
    BY <2>1, <2>5, PlainText DEF b, n
  <2> QED
    BY <2>1, <2>2, <2>3, <2>4, <2>5, <2>6
<1> HIDE DEF found
<1>5. DOMAIN end = { Start(j) : j \in FoundWords }
  BY <1>3
<1>6. ASSUME NEW j \in FoundWords
      PROVE  /\ end[Start(j)] = Cut(j)
             /\ new[Start(j)] = << Name(fields[j].name), Equals, Digest(V(Start(j))) >>
             /\ V(Start(j)) \in Seq(Tokens)
             /\ Stop(j) <= n => V(Start(j)) = Value(j)
  <2> DEFINE a == Start(j)
             e == Cut(j)
             v == Value(j)
             c == SubSeq(b, a + 2, e)
  <2>1. (e + 1) - 1 = e
    BY <1>4
  <2>2. end[a] = e /\ V(a) = c
    BY <1>4, <2>1
  <2>3. new[a] = << b[a], Equals, Digest(V(a)) >>
    BY <1>4
  <2>4. a + 2 \in 1 .. n + 1 /\ e \in (a + 2) - 1 .. n
    BY <1>1, <1>4
  <2>5. /\ c \in Seq(Tokens) /\ Len(c) = e - (a + 2) + 1
        /\ \A i \in 1 .. e - (a + 2) + 1 : c[i] = b[(a + 2) + i - 1]
    <3> DEFINE p == a + 2
    <3>1. p \in 1 .. Len(b) + 1 /\ e \in p - 1 .. Len(b)
      BY <2>4
    <3> HIDE DEF p, e, b
    <3>2. LET s == SubSeq(b, p, e)
          IN /\ s \in Seq(Tokens) /\ Len(s) = e - p + 1
             /\ \A i \in 1 .. e - p + 1 : s[i] = b[p + i - 1]
      BY ONLY <1>1, <3>1, Slice
    <3> QED
      BY <3>2 DEF p
  <2>6. ASSUME Stop(j) <= n
        PROVE  c = v
    <3>1. /\ Stop(j) = a + 1 + Len(v) /\ Len(v) \in Nat /\ v \in Seq(Tokens)
          /\ \A i \in 1 .. Len(v) : a + 1 + i <= n => b[a + 1 + i] = v[i]
      BY <1>4, PlainText
    <3>2. e = Stop(j) /\ a \in Nat
      BY <1>4, <2>6 DEF Cut
    <3> HIDE DEF a, b, n, v, c, e
    <3>3. e - (a + 2) + 1 = Len(v)
      BY ONLY <3>1, <3>2
    <3>4. \A i \in 1 .. Len(v) : (a + 2) + i - 1 = a + 1 + i /\ a + 1 + i <= n
      BY ONLY <1>1, <2>6, <3>1, <3>2
    <3>5. Len(c) = Len(v) /\ \A i \in 1 .. Len(c) : c[i] = v[i]
      BY ONLY <2>5, <3>1, <3>3, <3>4
    <3> QED
      BY ONLY <2>5, <3>1, <3>5, SameSequence
  <2> HIDE DEF c, v, e, end, new, V
  <2> QED
    BY <1>4, <2>2, <2>3, <2>5, <2>6 DEF v, e
<1>7. Equals \in Marks /\ Equals \in Tokens
  BY TokensType DEF Marks
<1>8. ASSUME NEW j \in FoundWords
      PROVE  /\ new[Start(j)] \in Seq(Kept)
             /\ ToSet(new[Start(j)]) = {Name(fields[j].name), Equals, Digest(V(Start(j)))}
  <2> DEFINE x == Name(fields[j].name)
             y == Digest(V(Start(j)))
  <2>1. new[Start(j)] = <<x, Equals, y>>
    BY <1>6
  <2>2. x \in Kept /\ Equals \in Kept /\ y \in Kept
    <3>1. x \in Tokens
      BY <1>4, FieldType, TokensType
    <3> QED
      BY <1>6, <1>7, <3>1 DEF Kept
  <2> HIDE DEF x, y
  <2>3. <<x, Equals, y>> \in Seq(Kept)
    BY ONLY <2>2
  <2>4. ToSet(<<x, Equals, y>>) = {x, Equals, y}
    BY DEF ToSet
  <2> QED
    BY <2>1, <2>3, <2>4 DEF x, y
<1> HIDE DEF end, new, V
<1>9. Matching(Kept, b, end, new)
  <2>1. b \in Seq(Kept)
    BY <1>1 DEF Kept
  <2>2. DOMAIN end \subseteq 1 .. Len(b)
    BY <1>4, <1>5
  <2>3. \A i \in DOMAIN end : end[i] \in i .. Len(b) /\ new[i] \in Seq(Kept)
    <3> SUFFICES ASSUME NEW i \in DOMAIN end
                 PROVE  end[i] \in i .. Len(b) /\ new[i] \in Seq(Kept)
      OBVIOUS
    <3>1. PICK j \in FoundWords : i = Start(j)
      BY <1>5
    <3>2. /\ Start(j) \in 1 .. n /\ Cut(j) \in Nat /\ Cut(j) \in Start(j) + 2 .. Stop(j)
          /\ Cut(j) <= n
      BY <1>4
    <3>3. Cut(j) \in Start(j) .. n
      BY ONLY <1>1, <3>2
    <3> QED
      BY <1>6, <1>8, <3>1, <3>3
  <2> QED
    BY <2>1, <2>2, <2>3 DEF Matching
<1>10. Replaces(FoundWords, end, new)
  <2>1. FoundWords \subseteq 1 .. Len(fields)
    BY DEF FoundWords
  <2>2. ASSUME NEW j \in FoundWords
        PROVE  /\ end[Start(j)] <= Stop(j)
               /\ \A p \in 1 .. Len(Received) :
                    Received[p] \in {Part(j, 1), Part(j, 2)} => p <= end[Start(j)]
               /\ \A i, q : Part(i, q) \notin ToSet(new[Start(j)])
    <3>1. end[Start(j)] = Cut(j) /\ Cut(j) <= Stop(j)
      BY <1>4, <1>6
    <3>2. ASSUME NEW p \in 1 .. Len(Received), Received[p] \in {Part(j, 1), Part(j, 2)}
          PROVE  p <= end[Start(j)]
      <4>1. p <= Stop(j) /\ p <= n
        BY <1>4, <3>2, PartsWithin
      <4> QED
        BY <3>1, <4>1 DEF Cut
    <3>3. \A i, q : Part(i, q) \notin {Name(fields[j].name), Equals, Digest(V(Start(j)))}
      BY <1>7, KindsDiffer
    <3>4. \A i, q : Part(i, q) \notin ToSet(new[Start(j)])
      BY <1>8, <3>3
    <3> QED
      BY <3>1, <3>2, <3>4
  <2> QED
    BY <1>5, <2>1, <2>2 DEF Replaces
<1>11. IF k \in FoundWords
       THEN /\ OfField(k, Sub(b, end, new)) = <<>>
            /\ ToSet(new[Start(k)]) \subseteq ToSet(Sub(b, end, new))
       ELSE OfField(k, Sub(b, end, new)) = OfField(k, b)
  BY <1>9, <1>10, Replacement
<1> QED
  BY <1>2, <1>6, <1>8, <1>11

------------------------------------------------------------------------------
(* What is in a sequence once.                                              *)

Once(s, x) ==
  \E i \in 1 .. Len(s) : s[i] = x /\ \A j \in 1 .. Len(s) : s[j] = x => j = i

LEMMA CatOnce ==
  ASSUME NEW X, NEW s \in Seq(X), NEW t \in Seq(X), NEW x,
         \/ Once(s, x) /\ x \notin ToSet(t)
         \/ x \notin ToSet(s) /\ Once(t, x)
  PROVE  Once(s \o t, x)
<1> DEFINE c == s \o t
           m == Len(s)
           n == Len(t)
<1>1. m \in Nat /\ n \in Nat /\ DOMAIN s = 1 .. m /\ DOMAIN t = 1 .. n
  OBVIOUS
<1>2. /\ Len(c) = m + n
      /\ \A i \in 1 .. m : c[i] = s[i]
      /\ \A i \in 1 .. n : c[m + i] = t[i]
  BY CatFacts
<1>3. /\ x \notin ToSet(s) => \A i \in 1 .. m : s[i] # x
      /\ x \notin ToSet(t) => \A i \in 1 .. n : t[i] # x
  BY <1>1 DEF ToSet
<1> HIDE DEF c, m, n
<1>4. \A j \in 1 .. m + n : j \in 1 .. m \/ (j - m \in 1 .. n /\ m + (j - m) = j)
  BY ONLY <1>1
<1>5. CASE Once(s, x) /\ x \notin ToSet(t)
  <2>1. PICK i \in 1 .. m : s[i] = x /\ \A j \in 1 .. m : s[j] = x => j = i
    BY <1>5 DEF Once, m
  <2>2. i \in 1 .. m + n /\ c[i] = x
    BY <1>1, <1>2, <2>1
  <2>3. ASSUME NEW j \in 1 .. m + n, c[j] = x
        PROVE  j = i
    <3>1. CASE j \in 1 .. m
      BY ONLY <1>2, <2>1, <2>3, <3>1
    <3>2. CASE j - m \in 1 .. n /\ m + (j - m) = j
      BY ONLY <1>2, <1>3, <1>5, <2>3, <3>2
    <3> QED
      BY <1>4, <3>1, <3>2
  <2>4. Once(c, x)
    BY ONLY <1>2, <2>2, <2>3 DEF Once
  <2> QED
    BY <2>4 DEF c
<1>6. CASE x \notin ToSet(s) /\ Once(t, x)
  <2>1. PICK i \in 1 .. n : t[i] = x /\ \A j \in 1 .. n : t[j] = x => j = i
    BY <1>6 DEF Once, n
  <2>2. m + i \in 1 .. m + n /\ c[m + i] = x
    BY <1>1, <1>2, <2>1
  <2>3. ASSUME NEW j \in 1 .. m + n, c[j] = x
        PROVE  j = m + i
    <3>1. CASE j \in 1 .. m
      BY ONLY <1>2, <1>3, <1>6, <2>3, <3>1
    <3>2. CASE j - m \in 1 .. n /\ m + (j - m) = j
      BY ONLY <1>2, <2>1, <2>3, <3>2
    <3> QED
      BY <1>4, <3>1, <3>2
  <2>4. Once(c, x)
    BY ONLY <1>2, <2>2, <2>3 DEF Once
  <2> QED
    BY <2>4 DEF c
<1> QED
  BY <1>5, <1>6

LEMMA FlattenOnce ==
  ASSUME NEW X, NEW seqs \in Seq(Seq(X)), NEW x, NEW q \in 1 .. Len(seqs), Once(seqs[q], x),
         \A j \in 1 .. Len(seqs) : j # q => x \notin ToSet(seqs[j])
  PROVE  Once(FlattenSeq(seqs), x)
<1> DEFINE n == Len(seqs)
<1>1. /\ n \in Nat /\ q \in 1 .. n
      /\ \A i \in 1 .. n : seqs[i] \in Seq(X) /\ (i # q => x \notin ToSet(seqs[i]))
  OBVIOUS
<1>2. PICK f \in [0 .. Len(seqs) -> Seq(X)] : Sums(seqs, f)
  BY SumsExist
<1>3. /\ \A k \in 0 .. n : f[k] \in Seq(X)
      /\ f[0] = <<>> /\ \A k \in 1 .. n : f[k] = f[k - 1] \o seqs[k]
      /\ FlattenSeq(seqs) = f[n]
  BY <1>2 DEF Sums, Partial
<1> HIDE DEF n
<1> DEFINE T == { k \in Nat : IF q \in 1 .. k THEN Once(f[k], x) ELSE x \notin ToSet(f[k]) }
<1>4. 0 \in T
  BY ONLY <1>3 DEF ToSet
<1>5. \A k \in 1 .. n : k - 1 \in T => k \in T
  <2> SUFFICES ASSUME NEW k \in 1 .. n, k - 1 \in T
               PROVE  k \in T
    OBVIOUS
  <2> DEFINE a == f[k - 1]
             u == seqs[k]
  <2>1. k \in Nat /\ 1 .. k = (1 .. k - 1) \union {k} /\ k \notin 1 .. k - 1 /\ k - 1 \in 0 .. n
    BY ONLY <1>1, k \in 1 .. n
  <2>2. f[k] = a \o u /\ u \in Seq(X) /\ a \in Seq(X)
    BY ONLY <1>1, <1>3, <2>1, k \in 1 .. n
  <2>3. IF q \in 1 .. k - 1 THEN Once(a, x) ELSE x \notin ToSet(a)
    OBVIOUS
  <2>4. (k = q => Once(u, x)) /\ (k # q => x \notin ToSet(u))
    BY <1>1
  <2> HIDE DEF a, u
  <2>5. CASE k = q
    <3>1. Once(a \o u, x)
      BY ONLY <2>1, <2>2, <2>3, <2>4, <2>5, CatOnce
    <3> QED
      BY <2>1, <2>2, <2>5, <3>1
  <2>6. CASE k # q /\ q \in 1 .. k - 1
    <3>1. Once(a \o u, x)
      BY ONLY <2>2, <2>3, <2>4, <2>6, CatOnce
    <3> QED
      BY <2>1, <2>2, <2>6, <3>1
  <2>7. CASE k # q /\ q \notin 1 .. k - 1
    <3>1. ToSet(a \o u) = ToSet(a) \union ToSet(u)
      BY ONLY <2>2, CatSet
    <3>2. x \notin ToSet(f[k])
      BY <2>2, <2>3, <2>4, <2>7, <3>1
    <3> QED
      BY <2>1, <2>7, <3>2
  <2> QED
    BY <2>5, <2>6, <2>7
<1> HIDE DEF T
<1>6. n \in T
  <2>1. \A k \in 0 .. n : k \in T
    BY <1>1, <1>4, <1>5, SumsInduction
  <2> QED
    BY ONLY <1>1, <2>1
<1>7. IF q \in 1 .. n THEN Once(f[n], x) ELSE x \notin ToSet(f[n])
  BY <1>6 DEF T
<1> QED
  BY <1>1, <1>3, <1>7

LEMMA SingleOnce ==
  ASSUME NEW x
  PROVE  Once(<<x>>, x) /\ ToSet(<<x>>) = {x}
<1>1. Len(<<x>>) = 1 /\ <<x>>[1] = x /\ 1 .. 1 = {1}
  OBVIOUS
<1> QED
  BY <1>1 DEF Once, ToSet

LEMMA OnlyOnce ==
  ASSUME NEW X, NEW s \in Seq(X), NEW x, Once(s, x), NEW tokens, x \in tokens
  PROVE  Once(Only(s, tokens), x)
<1> DEFINE p == Singles(s, tokens)
<1>1. PICK q \in 1 .. Len(s) : s[q] = x /\ \A j \in 1 .. Len(s) : s[j] = x => j = q
  BY DEF Once
<1>2. Only(s, tokens) = FlattenSeq(p) /\ p \in Seq(Seq(X)) /\ Len(p) = Len(s)
  BY OnlyIs
<1>3. \A i \in 1 .. Len(s) : p[i] = IF s[i] \in tokens THEN <<s[i]>> ELSE <<>>
  BY DEF Singles
<1> HIDE DEF p
<1>4. Once(p[q], x)
  <2>1. p[q] = <<x>>
    BY <1>1, <1>3
  <2> QED
    BY <2>1, SingleOnce
<1>5. \A j \in 1 .. Len(p) : j # q => x \notin ToSet(p[j])
  <2> SUFFICES ASSUME NEW j \in 1 .. Len(s), j # q
               PROVE  x \notin ToSet(p[j])
    BY <1>2
  <2>1. s[j] # x
    BY <1>1
  <2>2. ToSet(<<s[j]>>) = {s[j]} /\ ToSet(<<>>) = {}
    BY SingleOnce DEF ToSet
  <2> QED
    BY <1>3, <2>1, <2>2
<1>6. Once(FlattenSeq(p), x)
  BY <1>1, <1>2, <1>4, <1>5, FlattenOnce
<1> QED
  BY <1>2, <1>6

\* If some tokens stand within a part of a sequence, they are those of the part.
LEMMA OnlyWithin ==
  ASSUME NEW X, NEW s \in Seq(X), NEW tokens,
         NEW p \in 1 .. Len(s), NEW e \in p .. Len(s),
         \A i \in 1 .. Len(s) : s[i] \in tokens => i \in p .. e
  PROVE  Only(s, tokens) = Only(SubSeq(s, p, e), tokens)
<1> DEFINE n == Len(s)
           a == SubSeq(s, 1, p - 1)
           c == SubSeq(s, p, e)
           d == SubSeq(s, e + 1, n)
           r == SubSeq(s, p, n)
<1>1. n \in Nat /\ p \in 1 .. n /\ e \in p .. n
  OBVIOUS
<1>2. /\ a \in Seq(X) /\ DOMAIN a = 1 .. p - 1 /\ \A i \in 1 .. p - 1 : a[i] = s[i]
  <2> DEFINE z == p - 1
  <2>1. 1 \in 1 .. Len(s) + 1 /\ z \in 1 - 1 .. Len(s) /\ z - 1 + 1 = z
        /\ \A i \in 1 .. z : 1 + i - 1 = i
    BY <1>1
  <2> HIDE DEF z
  <2>2. LET u == SubSeq(s, 1, z)
        IN u \in Seq(X) /\ DOMAIN u = 1 .. z - 1 + 1 /\ \A i \in 1 .. z - 1 + 1 : u[i] = s[1 + i - 1]
    BY ONLY <2>1, s \in Seq(X), Slice
  <2>3. LET u == SubSeq(s, 1, z)
        IN u \in Seq(X) /\ DOMAIN u = 1 .. z /\ \A i \in 1 .. z : u[i] = s[i]
    BY ONLY <2>1, <2>2
  <2> QED
    BY <2>3 DEF z
<1>3. c \in Seq(X)
  <2>1. p \in 1 .. Len(s) + 1 /\ e \in p - 1 .. Len(s)
    BY <1>1
  <2> QED
    BY <2>1, Slice
<1>4. /\ d \in Seq(X) /\ DOMAIN d = 1 .. n - e /\ \A i \in 1 .. n - e : d[i] = s[e + i]
  <2> DEFINE z == e + 1
  <2>1. z \in 1 .. Len(s) + 1 /\ n \in z - 1 .. Len(s) /\ n - z + 1 = n - e
        /\ \A i \in 1 .. n - e : z + i - 1 = e + i
    BY <1>1
  <2> HIDE DEF z
  <2>2. LET u == SubSeq(s, z, n)
        IN u \in Seq(X) /\ DOMAIN u = 1 .. n - z + 1 /\ \A i \in 1 .. n - z + 1 : u[i] = s[z + i - 1]
    BY ONLY <2>1, s \in Seq(X), Slice
  <2>3. LET u == SubSeq(s, z, n)
        IN u \in Seq(X) /\ DOMAIN u = 1 .. n - e /\ \A i \in 1 .. n - e : u[i] = s[e + i]
    BY ONLY <2>1, <2>2
  <2> QED
    BY <2>3 DEF z
<1>5. r = c \o d
  BY SubSeqSplit
<1>6. s = a \o r
  <2>1. CASE p = 1
    <3>1. a = <<>>
      <4>1. SubSeq(s, 1, 0) = <<>>
        BY SubSeqEmpty
      <4> QED
        BY <2>1, <4>1
    <3>2. r = s
      BY <2>1, SubSeqFull
    <3>3. <<>> \o s = s
      BY ConcatEmptySeq
    <3> QED
      BY <3>1, <3>2, <3>3
  <2>2. CASE p # 1
    <3>1. 1 \in 1 .. Len(s) /\ p - 1 \in 1 .. Len(s) /\ (p - 1) + 1 = p
      BY <1>1, <2>2
    <3>2. SubSeq(s, 1, Len(s)) = SubSeq(s, 1, p - 1) \o SubSeq(s, (p - 1) + 1, Len(s))
      BY <3>1, SubSeqSplit
    <3>3. SubSeq(s, 1, Len(s)) = s
      BY SubSeqFull
    <3> QED
      BY <3>1, <3>2, <3>3
  <2> QED
    BY <2>1, <2>2
<1>7. ToSet(a) \intersect tokens = {}
  <2>1. \A i \in 1 .. p - 1 : i \in 1 .. n /\ i \notin p .. e
    BY <1>1
  <2> HIDE DEF a
  <2> QED
    BY <1>2, <2>1 DEF ToSet
<1>8. ToSet(d) \intersect tokens = {}
  <2>1. \A i \in 1 .. n - e : e + i \in 1 .. n /\ e + i \notin p .. e
    BY <1>1
  <2> HIDE DEF d
  <2> QED
    BY <1>4, <2>1 DEF ToSet
<1> HIDE DEF a, c, d, r
<1>9. Only(a, tokens) = <<>> /\ Only(d, tokens) = <<>>
  BY <1>2, <1>4, <1>7, <1>8, OnlyNone
<1>10. Only(c, tokens) \in Seq(X)
  BY <1>3, OnlyIs
<1>11. Only(r, tokens) = Only(c, tokens)
  <2>1. Only(c \o d, tokens) = Only(c, tokens) \o Only(d, tokens)
    BY ONLY <1>3, <1>4, OnlyCat
  <2>2. Only(c, tokens) \o <<>> = Only(c, tokens)
    BY <1>10, ConcatEmptySeq
  <2> QED
    BY <1>5, <1>9, <2>1, <2>2
<1>12. r \in Seq(X)
  <2>1. c \o d \in Seq(X)
    BY ONLY <1>3, <1>4, ConcatProperties
  <2> QED
    BY <1>5, <2>1
<1>13. Only(a \o r, tokens) = Only(a, tokens) \o Only(r, tokens)
  BY ONLY <1>2, <1>12, OnlyCat
<1>14. <<>> \o Only(c, tokens) = Only(c, tokens)
  BY <1>10, ConcatEmptySeq
<1>15. Only(s, tokens) = Only(c, tokens)
  BY <1>6, <1>9, <1>11, <1>13, <1>14
<1> QED
  BY <1>15 DEF c

------------------------------------------------------------------------------
(* A form.                                                                  *)

\* The fields of which something was received.
Reached == { k \in 1 .. Len(fields) : Start(k) <= Len(Received) }

\* A piece of a form is a field, as far as it was received.
LEMMA PieceStarts ==
  ASSUME RedactInv, place = "form"
  PROVE  /\ \A i \in 1 .. Len(Received) :
              (Received[i] # Amp /\ (i = 1 \/ Received[i - 1] = Amp))
                <=> \E k \in Reached : i = Start(k)
         /\ \A k \in Reached : /\ NextOf({Amp}, Received, Start(k)) = Cut(k) + 1
                               /\ Start(k) \in 1 .. Len(Received)
                               /\ Cut(k) \in Start(k) .. Stop(k) /\ Cut(k) <= Len(Received)
<1> DEFINE b == Received
           n == Len(b)
<1>1. b \in Seq(Tokens) /\ n \in Nat
  BY ReceivedFacts
<1>2. Separator = Amp /\ Amp \in Marks /\ Opening = <<>>
  BY DEF Separator, Marks, Opening
<1>3. ASSUME NEW k \in Reached
      PROVE  /\ NextOf({Amp}, b, Start(k)) = Cut(k) + 1
             /\ Start(k) \in 1 .. n
             /\ Cut(k) \in Start(k) .. Stop(k) /\ Cut(k) <= n
             /\ b[Start(k)] # Amp /\ (Start(k) = 1 \/ b[Start(k) - 1] = Amp)
  <2> DEFINE a == Start(k)
             z == Stop(k)
             e == Cut(k)
  <2>1. k \in 1 .. Len(fields) /\ a <= n
    BY DEF Reached
  <2>2. /\ a \in Nat /\ 1 <= a /\ z \in Nat /\ a < z
        /\ a <= n => b[a] = Name(fields[k].name)
        /\ \A p \in a .. z : p <= n => b[p] \notin {Amp, Space}
    BY <2>1, PlainText, FieldLength
  <2>3. z + 1 <= n => b[z + 1] = Amp
    BY <1>2, <2>1, PlainSeparator
  <2>4. e = IF z <= n THEN z ELSE n
    BY DEF Cut
  <2>5. a = 1 \/ b[a - 1] = Amp
    <3>1. Stop(k - 1) \in Nat /\ a = Stop(k - 1) + (IF k = 1 THEN 1 ELSE 2)
      BY <2>1, StandsFirst
    <3>2. CASE k = 1
      <4>1. Sent(0) = <<>>
        BY <1>2, SentGrows
      <4>2. Stop(k - 1) = 0
        BY <3>2, <4>1 DEF Stop
      <4> HIDE DEF a
      <4> QED
        BY <3>1, <3>2, <4>2
    <3>3. CASE k # 1
      <4> DEFINE y == Stop(k - 1)
      <4>1. k - 1 \in 1 .. Len(fields) /\ a = y + 2 /\ y \in Nat
        BY <2>1, <3>1, <3>3
      <4> HIDE DEF a, n, y
      <4>2. y + 1 <= n /\ a - 1 = y + 1
        BY ONLY <1>1, <2>1, <4>1
      <4>3. b[y + 1] = Amp
        BY <1>2, <4>1, <4>2, PlainSeparator DEF y, n
      <4> QED
        BY <4>2, <4>3
    <3> QED
      BY <3>2, <3>3
  <2>6. b[a] # Amp
    BY <1>2, <2>1, <2>2, KindsDiffer
  <2> HIDE DEF a, z, e, b, n
  <2>7. /\ a \in 1 .. n /\ e \in a .. z /\ e <= n /\ e \in Nat /\ (e + 1 <= n => e = z)
        /\ a \in 1 .. n + 1 /\ e + 1 \in a .. n + 1
        /\ \A j \in a .. (e + 1) - 1 : j \in a .. z /\ j <= n
    BY ONLY <1>1, <2>1, <2>2, <2>4
  <2>8. NextOf({Amp}, b, a) = e + 1
    <3> DEFINE amps == {Amp}
    <3>1. \A j \in a .. (e + 1) - 1 : b[j] \notin amps
      BY <2>2, <2>7
    <3>2. e + 1 <= n => b[e + 1] \in amps
      BY <2>3, <2>7
    <3> HIDE DEF amps
    <3>3. NextOf(amps, b, a) = e + 1
      BY <1>1, <2>7, <3>1, <3>2, NextOfIs DEF n
    <3> QED
      BY <3>3 DEF amps
  <2> QED
    BY <2>5, <2>6, <2>7, <2>8 DEF a, z, e
<1>4. ASSUME NEW i \in 1 .. n, b[i] # Amp, i = 1 \/ b[i - 1] = Amp
      PROVE  \E k \in Reached : i = Start(k)
  <2>1. PICK k \in 1 .. Len(fields) : \E o \in 1 .. Len(Written(k)) : i = Start(k) - 1 + o
    BY <1>2, <1>4, Positions
  <2>2. PICK o \in 1 .. Len(Written(k)) : i = Start(k) - 1 + o
    BY <2>1
  <2>3. Start(k) \in Nat /\ 1 <= Start(k) /\ Len(Written(k)) \in Nat
    BY FieldLength
  <2>4. CASE o = 1
    <3>1. i = Start(k)
      BY <2>2, <2>3, <2>4
    <3> QED
      BY <3>1 DEF Reached
  <2>5. CASE o # 1
    <3> DEFINE q == o - 1
    <3>1. /\ q \in 1 .. Len(Written(k)) /\ i - 1 = Start(k) - 1 + q
          /\ Start(k) - 1 + q <= n /\ i # 1
      BY <1>1, <2>2, <2>3, <2>5
    <3> HIDE DEF q
    <3>2. b[i - 1] = Written(k)[q]
      BY <3>1, FieldTokens
    <3>3. Written(k)[q] # Amp
      BY <3>1, FieldType, WrittenIs, PlainTokens
    <3> QED
      BY <1>4, <3>1, <3>2, <3>3
  <2> QED
    BY <2>4, <2>5
<1> QED
  BY <1>3, <1>4

PairOf(k) == Pair(SubSeq(Received, Start(k), Cut(k)))

\* What the form parser makes of a field.
LEMMA PairFacts ==
  ASSUME RedactInv, place = "form", NEW k \in Reached
  PROVE  LET p == PairOf(k)
             v == Value(k)
         IN /\ p = [key |-> <<Name(fields[k].name)>>, value |-> p.value]
            /\ p.value \in Seq(Tokens) /\ Len(p.value) <= Len(v)
            /\ \A i \in 1 .. Len(p.value) : p.value[i] = v[i]
            /\ Stop(k) <= Len(Received) => p.value = v
            /\ OfField(k, p.value) = OfField(k, Received)
<1> DEFINE b == Received
           n == Len(b)
           a == Start(k)
           z == Stop(k)
           e == Cut(k)
           v == Value(k)
           c == SubSeq(b, a, e)
           m == Len(c)
           x == SubSeq(c, 3, m)
           T == {Part(k, 1), Part(k, 2)}
<1>1. b \in Seq(Tokens) /\ n \in Nat /\ k \in 1 .. Len(fields)
  BY ReceivedFacts DEF Reached
<1>2. /\ a \in 1 .. n /\ e \in a .. z /\ e <= n /\ e = IF z <= n THEN z ELSE n
  BY PieceStarts DEF Cut
<1>3. /\ z = a + 1 + Len(v) /\ Len(v) \in Nat /\ v \in Seq(Tokens) /\ a \in Nat /\ 1 <= a
      /\ a <= n => b[a] = Name(fields[k].name)
      /\ a + 1 <= n => b[a + 1] = IF fields[k].form = "colon" THEN Colon ELSE Equals
      /\ \A i \in 1 .. Len(v) : a + 1 + i <= n => b[a + 1 + i] = v[i]
  BY <1>1, PlainText
<1>4. fields[k].form # "colon"
  <2>1. fields[k].form \in Forms
    BY <1>1, FieldType
  <2> QED
    BY <2>1 DEF Forms
<1>5. /\ c \in Seq(Tokens) /\ m = e - a + 1 /\ m \in Nat
      /\ \A i \in 1 .. m : c[i] = b[a + i - 1]
  <2>1. a \in 1 .. Len(b) + 1 /\ e \in a - 1 .. Len(b) /\ e - a + 1 \in Nat
    BY <1>1, <1>2, <1>3
  <2> HIDE DEF a, b, e
  <2> QED
    BY <1>1, <2>1, Slice
<1>6. \A i \in 1 .. n : b[i] \in T => i >= a + 2 /\ i <= e
  <2> SUFFICES ASSUME NEW i \in 1 .. n, b[i] \in T
               PROVE  i >= a + 2 /\ i <= e
    OBVIOUS
  <2>1. PICK o \in 1 .. Len(Written(k)) : i = a - 1 + o /\ o > 2
    BY <1>1, PartsAt
  <2>2. i \in a .. z
    BY <1>1, PartsWithin
  <2>3. Len(Written(k)) \in Nat
    BY <1>1, FieldLength
  <2> HIDE DEF a, z, e, n, b
  <2>4. i >= a + 2
    BY ONLY <1>1, <1>3, <2>1, <2>3
  <2> QED
    BY ONLY <1>1, <1>2, <2>2, <2>4
<1> HIDE DEF b, n, a, z, e, v, c, T
<1>7. m >= 1 /\ m <= Len(v) + 2
  BY ONLY <1>1, <1>2, <1>3, <1>5
<1>15. /\ a \in Nat /\ e \in Nat /\ n \in Nat /\ m \in Nat /\ Len(v) \in Nat
       /\ 1 <= a /\ a <= e /\ e <= n /\ m = e - a + 1 /\ m <= Len(v) + 2
  BY ONLY <1>1, <1>2, <1>3, <1>5, <1>7
<1>8. NextOf({Equals}, c, 1) = 2
  <2>1. c[1] = Name(fields[k].name)
    <3>1. 1 \in 1 .. m /\ a + 1 - 1 = a /\ a <= n
      BY ONLY <1>1, <1>2, <1>5, <1>7
    <3> QED
      BY <1>3, <1>5, <3>1
  <2>2. 2 <= m => c[2] = Equals
    <3> SUFFICES ASSUME 2 <= m
                 PROVE  c[2] = Equals
      OBVIOUS
    <3>1. 2 \in 1 .. m /\ a + 2 - 1 = a + 1 /\ a + 1 <= n
      BY ONLY <1>1, <1>2, <1>5, 2 <= m
    <3> QED
      BY <1>3, <1>4, <1>5, <3>1
  <2>3. Name(fields[k].name) # Equals
    BY KindsDiffer DEF Marks
  <2> DEFINE r == 2
  <2>4. 1 \in 1 .. Len(c) + 1 /\ r \in 1 .. Len(c) + 1 /\ \A j \in 1 .. r - 1 : j = 1
    BY ONLY <1>5, <1>7
  <2> DEFINE equals == {Equals}
  <2>5. \A j \in 1 .. r - 1 : c[j] \notin equals
    BY <2>1, <2>3, <2>4
  <2>6. r <= Len(c) => c[r] \in equals
    BY <2>2
  <2> HIDE DEF equals, r, m
  <2>7. NextOf(equals, c, 1) = r
    BY ONLY <1>5, <2>4, <2>5, <2>6, NextOfIs
  <2> QED
    BY <2>7 DEF equals, r
<1>9. SubSeq(c, 1, 1) = <<Name(fields[k].name)>>
  <2>1. 1 \in 1 .. Len(c) + 1 /\ 1 \in 1 - 1 .. Len(c) /\ 1 - 1 + 1 = 1
        /\ 1 \in 1 .. m /\ 1 + 1 - 1 = 1 /\ a + 1 - 1 = a /\ a <= n
    BY ONLY <1>1, <1>2, <1>3, <1>5, <1>7
  <2> DEFINE s == SubSeq(c, 1, 1)
             y == Name(fields[k].name)
  <2>2. /\ s \in Seq(Tokens) /\ Len(s) = 1 - 1 + 1
        /\ \A i \in 1 .. 1 - 1 + 1 : s[i] = c[1 + i - 1]
    BY ONLY <1>5, <2>1, Slice
  <2> HIDE DEF s, y
  <2>3. s \in Seq(Tokens) /\ Len(s) = 1 /\ s[1] = c[1]
    BY ONLY <2>1, <2>2
  <2>4. c[1] = y
    BY <1>3, <1>5, <2>1 DEF y
  <2>5. s = <<y>>
    BY ONLY <2>3, <2>4
  <2> QED
    BY <2>5 DEF s, y
<1>10. PairOf(k) = [key |-> <<Name(fields[k].name)>>, value |-> x]
  <2>1. 2 - 1 = 1 /\ 2 + 1 = 3
    OBVIOUS
  <2>2. PairOf(k) = [key |-> SubSeq(c, 1, 2 - 1), value |-> SubSeq(c, 2 + 1, m)]
    BY <1>8 DEF PairOf, Pair, a, b, c, e
  <2> QED
    BY <1>9, <2>1, <2>2
<1>11. /\ x \in Seq(Tokens) /\ Len(x) = IF m >= 2 THEN m - 2 ELSE 0
       /\ \A i \in 1 .. Len(x) : x[i] = v[i]
  <2>1. CASE m = 1
    <3>1. SubSeq(c, 3, 1) = <<>>
      BY <1>5, SubSeqEmpty
    <3>2. x = <<>>
      BY <2>1, <3>1
    <3> QED
      BY <2>1, <3>2
  <2>2. CASE m >= 2
    <3>1. 3 \in 1 .. Len(c) + 1 /\ m \in 3 - 1 .. Len(c)
      BY ONLY <1>5, <2>2
    <3> HIDE DEF m
    <3>2. /\ x \in Seq(Tokens) /\ Len(x) = m - 3 + 1
          /\ \A i \in 1 .. m - 3 + 1 : x[i] = c[3 + i - 1]
      BY ONLY <1>5, <3>1, Slice
    <3> HIDE DEF x
    <3>3. Len(x) = m - 2
      BY ONLY <1>5, <3>2
    <3>4. ASSUME NEW i \in 1 .. Len(x)
          PROVE  x[i] = v[i]
      <4>1. i \in 1 .. m - 3 + 1 /\ 3 + i - 1 \in 1 .. m /\ i \in 1 .. Len(v)
            /\ a + (3 + i - 1) - 1 = a + 1 + i /\ a + 1 + i <= n
        BY ONLY <1>15, <2>2, <3>3, i \in 1 .. Len(x)
      <4>2. x[i] = b[a + (3 + i - 1) - 1]
        BY ONLY <1>5, <3>2, <4>1
      <4> QED
        BY <1>3, <4>1, <4>2
    <3> QED
      BY <2>2, <3>2, <3>3, <3>4
  <2> QED
    BY <1>5, <1>7, <2>1, <2>2
<1> HIDE DEF x, m
<1>12. Len(x) <= Len(v)
  BY ONLY <1>3, <1>5, <1>7, <1>11
<1>13. ASSUME z <= n
       PROVE  x = v
  <2>1. Len(x) = Len(v)
    BY ONLY <1>1, <1>2, <1>3, <1>5, <1>11, <1>13
  <2> QED
    BY <1>3, <1>11, <2>1, SameSequence
<1>14. Only(x, T) = Only(b, T)
  <2>1. CASE m >= 3
    <3> DEFINE p == a + 2
               y == SubSeq(b, p, e)
    <3>1. p \in 1 .. n /\ e \in p .. n /\ p \in 1 .. n + 1 /\ e \in p - 1 .. n
      BY ONLY <1>15, <2>1
    <3>2. \A i \in 1 .. Len(b) : b[i] \in T => i \in p .. e
      BY <1>6, <1>15 DEF n
    <3> HIDE DEF p
    <3>3. Only(b, T) = Only(y, T)
      BY ONLY <1>1, <3>1, <3>2, OnlyWithin DEF n
    <3>4. y \in Seq(Tokens) /\ Len(y) = e - p + 1 /\ \A i \in 1 .. e - p + 1 : y[i] = b[p + i - 1]
      BY ONLY <1>1, <3>1, Slice DEF n
    <3> HIDE DEF y
    <3>5. Len(x) = e - p + 1
      BY ONLY <1>2, <1>3, <1>5, <1>11, <2>1, SMTT(30) DEF p
    <3>6. ASSUME NEW i \in 1 .. Len(x)
          PROVE  x[i] = y[i]
      <4>1. /\ i \in 1 .. e - p + 1 /\ p + i - 1 = a + 1 + i /\ i \in 1 .. Len(v)
            /\ a + 1 + i <= n
        BY ONLY <1>12, <1>15, <3>5, i \in 1 .. Len(x) DEF p
      <4> QED
        BY <1>3, <1>11, <3>4, <4>1
    <3>7. x = y
      BY ONLY <1>11, <3>4, <3>5, <3>6, SameSequence
    <3> QED
      BY <3>3, <3>7
  <2>2. CASE ~(m >= 3)
    <3>1. Len(x) = 0
      BY ONLY <1>5, <1>7, <1>11, <2>2
    <3>2. ToSet(x) \intersect T = {}
      BY <1>11, <3>1 DEF ToSet
    <3>3. \A i \in 1 .. n : b[i] \notin T
      <4>1. \A i \in 1 .. n : ~(i >= a + 2 /\ i <= e)
        BY ONLY <1>15, <2>2
      <4> QED
        BY ONLY <1>6, <4>1
    <3>4. ToSet(b) \intersect T = {}
      BY <1>1, <3>3 DEF ToSet, n
    <3> QED
      BY <1>1, <1>11, <3>2, <3>4, OnlyNone
  <2> QED
    BY <2>1, <2>2
<1> QED
  BY <1>10, <1>11, <1>12, <1>13, <1>14 DEF OfField, T, b, n, z, v

Pairs == [key : Seq(Tokens), value : Seq(Tokens)]

LEMMA PairType ==
  ASSUME RedactInv, place = "form", NEW k \in Reached
  PROVE  PairOf(k) \in Pairs /\ PairOf(k).key = <<Name(fields[k].name)>>
<1> DEFINE y == <<Name(fields[k].name)>>
<1>1. Name(fields[k].name) \in Tokens
  BY FieldType, TokensType DEF Reached
<1>2. y \in Seq(Tokens)
  BY <1>1
<1>3. PairOf(k) = [key |-> y, value |-> PairOf(k).value] /\ PairOf(k).value \in Seq(Tokens)
  BY PairFacts
<1> HIDE DEF y
<1>4. PairOf(k) \in Pairs /\ PairOf(k).key = y
  BY ONLY <1>2, <1>3 DEF Pairs
<1> QED
  BY <1>4 DEF y

\* A form is parsed into the pairs of the fields that were received, each once.
LEMMA ParsedFacts ==
  ASSUME RedactInv, place = "form"
  PROVE  /\ Parsed(Received) \in Seq(Pairs)
         /\ ToSet(Parsed(Received)) = { PairOf(k) : k \in Reached }
         /\ \A k \in Reached :
              (\A j \in Reached : PairOf(j) = PairOf(k) => j = k)
                => Once(Parsed(Received), PairOf(k))
<1> DEFINE b == Received
           n == Len(b)
           P(i) == Pair(SubSeq(b, i, NextOf({Amp}, b, i) - 1))
           s == [i \in DOMAIN b |-> IF b[i] # Amp /\ (i = 1 \/ b[i - 1] = Amp)
                                    THEN << P(i) >> ELSE <<>>]
<1>1. b \in Seq(Tokens) /\ n \in Nat /\ DOMAIN b = 1 .. n
  BY ReceivedFacts
<1>2. Parsed(b) = FlattenSeq(s)
  BY DEF Parsed
<1>3. ASSUME NEW k \in Reached
      PROVE  Start(k) \in 1 .. n /\ P(Start(k)) = PairOf(k)
  <2> DEFINE e == Cut(k)
  <2>1. Start(k) \in 1 .. n /\ NextOf({Amp}, b, Start(k)) = e + 1 /\ e \in Start(k) .. Stop(k)
    BY PieceStarts
  <2>2. Start(k) \in Nat /\ Stop(k) \in Nat
    BY FieldLength DEF Reached
  <2> HIDE DEF e
  <2>3. (e + 1) - 1 = e
    BY ONLY <2>1, <2>2
  <2> QED
    BY <2>1, <2>3 DEF PairOf, e
<1>4. ASSUME NEW i \in 1 .. n
      PROVE  \/ s[i] = <<>> /\ \A k \in Reached : i # Start(k)
             \/ \E k \in Reached : i = Start(k) /\ s[i] = <<PairOf(k)>>
  <2>1. CASE b[i] # Amp /\ (i = 1 \/ b[i - 1] = Amp)
    <3>1. PICK k \in Reached : i = Start(k)
      BY <2>1, PieceStarts
    <3>2. s[i] = <<P(i)>>
      BY <1>1, <2>1
    <3>3. P(i) = PairOf(k)
      BY <1>3, <3>1
    <3> QED
      BY <3>1, <3>2, <3>3
  <2>2. CASE ~(b[i] # Amp /\ (i = 1 \/ b[i - 1] = Amp))
    <3>1. s[i] = <<>>
      BY <1>1, <2>2
    <3>2. \A k \in Reached : i # Start(k)
      BY <2>2, PieceStarts
    <3> QED
      BY <3>1, <3>2
  <2> QED
    BY <2>1, <2>2
<1>5. DOMAIN s = 1 .. n
  BY <1>1
<1> HIDE DEF P, s
<1>6. ASSUME NEW j \in Reached, NEW k \in Reached, Start(j) = Start(k)
      PROVE  j = k
  <2>1. /\ j \in 1 .. Len(fields) /\ k \in 1 .. Len(fields) /\ j \in Nat /\ k \in Nat
        /\ Start(j) \in Nat /\ Start(k) \in Nat /\ Start(j) < Stop(j) /\ Start(k) < Stop(k)
        /\ Stop(j) \in Nat /\ Stop(k) \in Nat
    BY FieldLength, FieldType DEF Reached
  <2>2. (j < k => Stop(j) + 1 < Start(k)) /\ (k < j => Stop(k) + 1 < Start(j))
    BY <2>1, FieldOrder
  <2> QED
    BY <1>6, <2>1, <2>2
<1>7. \A i \in 1 .. n : s[i] \in Seq(Pairs)
  <2> SUFFICES ASSUME NEW i \in 1 .. n
               PROVE  s[i] \in Seq(Pairs)
    OBVIOUS
  <2>1. CASE s[i] = <<>>
    BY <2>1
  <2>2. CASE \E k \in Reached : i = Start(k) /\ s[i] = <<PairOf(k)>>
    <3>1. PICK k \in Reached : s[i] = <<PairOf(k)>>
      BY <2>2
    <3> DEFINE x == PairOf(k)
    <3>2. x \in Pairs
      BY PairType
    <3> HIDE DEF x
    <3>3. <<x>> \in Seq(Pairs)
      BY ONLY <3>2
    <3> QED
      BY <3>1, <3>3 DEF x
  <2> QED
    BY <1>4, <2>1, <2>2
<1>8. s \in Seq(Seq(Pairs)) /\ Len(s) = n
  <2>1. s = [i \in 1 .. n |-> s[i]]
    BY <1>1, <1>5 DEF s
  <2> QED
    BY ONLY <1>1, <1>7, <2>1
<1>9. \A i \in 1 .. n : \A x : x \in ToSet(s[i]) <=> \E k \in Reached : i = Start(k) /\ x = PairOf(k)
  <2> SUFFICES ASSUME NEW i \in 1 .. n, NEW x
               PROVE  x \in ToSet(s[i]) <=> \E k \in Reached : i = Start(k) /\ x = PairOf(k)
    OBVIOUS
  <2>1. CASE s[i] = <<>> /\ \A k \in Reached : i # Start(k)
    BY <2>1 DEF ToSet
  <2>2. CASE \E k \in Reached : i = Start(k) /\ s[i] = <<PairOf(k)>>
    <3>1. PICK k \in Reached : i = Start(k) /\ s[i] = <<PairOf(k)>>
      BY <2>2
    <3>2. ToSet(s[i]) = {PairOf(k)}
      BY <3>1, SingleOnce
    <3> QED
      BY <1>6, <3>1, <3>2
  <2> QED
    BY <1>4, <2>1, <2>2
<1>10. FlattenSeq(s) \in Seq(Pairs)
  BY <1>8, FlattenType
<1>11. \A x : x \in ToSet(FlattenSeq(s)) <=> \E i \in 1 .. n : x \in ToSet(s[i])
  BY <1>8, FlattenedSet
<1>12. ToSet(FlattenSeq(s)) = { PairOf(k) : k \in Reached }
  <2>1. \A x : x \in ToSet(FlattenSeq(s)) <=> \E k \in Reached : x = PairOf(k)
    <3> SUFFICES ASSUME NEW x
                 PROVE  x \in ToSet(FlattenSeq(s)) <=> \E k \in Reached : x = PairOf(k)
      OBVIOUS
    <3>1. x \in ToSet(FlattenSeq(s)) <=> \E i \in 1 .. n : x \in ToSet(s[i])
      BY ONLY <1>11
    <3>2. \A i \in 1 .. n : x \in ToSet(s[i]) <=> \E k \in Reached : i = Start(k) /\ x = PairOf(k)
      BY ONLY <1>9
    <3>3. \A k \in Reached : Start(k) \in 1 .. n
      BY ONLY <1>3
    <3> QED
      BY ONLY <3>1, <3>2, <3>3
  <2> QED
    BY ONLY <2>1
<1>13. ASSUME NEW k \in Reached, \A j \in Reached : PairOf(j) = PairOf(k) => j = k
       PROVE  Once(FlattenSeq(s), PairOf(k))
  <2> DEFINE q == Start(k)
             x == PairOf(k)
  <2>1. q \in 1 .. Len(s)
    BY <1>3, <1>8
  <2>2. Once(s[q], x)
    <3>1. PICK j \in Reached : q = Start(j) /\ s[q] = <<PairOf(j)>>
      BY <1>3, <1>4
    <3>2. j = k
      BY <1>6, <3>1
    <3> QED
      BY <3>1, <3>2, SingleOnce
  <2>3. \A j \in 1 .. Len(s) : j # q => x \notin ToSet(s[j])
    BY <1>8, <1>9, <1>13
  <2> HIDE DEF q, x
  <2>4. Once(FlattenSeq(s), x)
    BY ONLY <1>8, <2>1, <2>2, <2>3, FlattenOnce
  <2> QED
    BY <2>4 DEF x
<1> QED
  BY <1>2, <1>10, <1>12, <1>13

\* Grouping loses no pair, and repeats none.
LEMMA GroupedFacts ==
  ASSUME NEW P, NEW pairs \in Seq(P)
  PROVE  /\ Grouped(pairs) \in Seq(P)
         /\ ToSet(Grouped(pairs)) = ToSet(pairs)
         /\ \A x : Once(pairs, x) => Once(Grouped(pairs), x)
<1> DEFINE n == Len(pairs)
           Repeats(i) == \E j \in 1 .. i - 1 : pairs[j].key = pairs[i].key
           Same(i) == { p \in ToSet(pairs) : p.key = pairs[i].key }
           g == [i \in DOMAIN pairs |-> IF Repeats(i) THEN <<>> ELSE Only(pairs, Same(i))]
<1>1. n \in Nat /\ DOMAIN pairs = 1 .. n /\ ToSet(pairs) = { pairs[i] : i \in 1 .. n }
  BY DEF ToSet
<1>2. Grouped(pairs) = FlattenSeq(g)
  BY DEF Grouped
<1>3. \A i \in 1 .. n : g[i] = IF Repeats(i) THEN <<>> ELSE Only(pairs, Same(i))
  BY <1>1
<1>4. g = [i \in 1 .. n |-> g[i]]
  BY <1>1
<1> HIDE DEF g
<1>5. \A i \in 1 .. n : g[i] \in Seq(P)
  <2> SUFFICES ASSUME NEW i \in 1 .. n
               PROVE  g[i] \in Seq(P)
    OBVIOUS
  <2>1. Only(pairs, Same(i)) \in Seq(P)
    BY OnlyIs
  <2>2. <<>> \in Seq(P)
    OBVIOUS
  <2> HIDE DEF Repeats, Same
  <2>3. g[i] = <<>> \/ g[i] = Only(pairs, Same(i))
    BY <1>3
  <2> QED
    BY ONLY <2>1, <2>2, <2>3
<1>6. g \in Seq(Seq(P)) /\ Len(g) = n
  BY ONLY <1>1, <1>4, <1>5
<1>7. FlattenSeq(g) \in Seq(P)
  BY <1>6, FlattenType
<1>8. \A x : x \in ToSet(FlattenSeq(g)) <=> \E i \in 1 .. n : x \in ToSet(g[i])
  BY <1>6, FlattenedSet
<1>9. \A i \in 1 .. n : \A x : x \in ToSet(g[i]) => ~Repeats(i) /\ x \in Same(i)
  <2> SUFFICES ASSUME NEW i \in 1 .. n, NEW x, x \in ToSet(g[i])
               PROVE  ~Repeats(i) /\ x \in Same(i)
    OBVIOUS
  <2>1. CASE Repeats(i)
    <3>1. ToSet(<<>>) = {}
      BY DEF ToSet
    <3> HIDE DEF Repeats
    <3> QED
      BY <1>3, <2>1, <3>1
  <2>2. CASE ~Repeats(i)
    <3>1. ToSet(Only(pairs, Same(i))) = ToSet(pairs) \intersect Same(i)
      BY OnlySet
    <3> HIDE DEF Repeats, Same
    <3> QED
      BY <1>3, <2>2, <3>1
  <2> QED
    BY <2>1, <2>2
<1>10. ASSUME NEW x \in ToSet(pairs)
       PROVE  \E q \in 1 .. n : /\ g[q] = Only(pairs, Same(q)) /\ x \in Same(q)
                                /\ x \in ToSet(g[q])
                                /\ \A j \in 1 .. n : j # q => x \notin ToSet(g[j])
  <2> DEFINE S == { i \in 1 .. n : pairs[i].key = x.key }
             q == Min(S)
  <2>1. S \in SUBSET Nat /\ S # {}
    <3>1. S # {}
      BY <1>1
    <3> QED
      BY <1>1, <3>1
  <2>2. q \in S /\ \A y \in S : q <= y
    BY <2>1, MinFacts
  <2>3. q \in 1 .. n /\ pairs[q].key = x.key
    BY <2>2
  <2>4. ~Repeats(q)
    <3> HIDE DEF q
    <3>1. \A j \in 1 .. q - 1 : j \in 1 .. n /\ ~(q <= j)
      BY ONLY <1>1, <2>3
    <3> QED
      BY <2>2, <2>3, <3>1
  <2>5. x \in Same(q)
    BY <2>3
  <2>6. g[q] = Only(pairs, Same(q))
    <3> HIDE DEF Repeats, Same, q
    <3> QED
      BY <1>3, <2>3, <2>4
  <2>7. x \in ToSet(g[q])
    <3>1. ToSet(Only(pairs, Same(q))) = ToSet(pairs) \intersect Same(q)
      BY OnlySet
    <3> HIDE DEF q, Same
    <3> QED
      BY <2>5, <2>6, <3>1
  <2>8. ASSUME NEW j \in 1 .. n, j # q, x \in ToSet(g[j])
        PROVE  FALSE
    <3>1. ~Repeats(j) /\ x \in Same(j)
      BY <1>9, <2>8
    <3>2. j \in S
      BY <3>1
    <3>3. q <= j
      BY <2>2, <3>2
    <3> HIDE DEF q, S
    <3>4. q \in 1 .. j - 1
      BY ONLY <1>1, <2>3, <3>3, j \in 1 .. n, j # q
    <3> QED
      BY <2>3, <3>1, <3>4
  <2> HIDE DEF q, Same
  <2> QED
    BY <2>3, <2>5, <2>6, <2>7, <2>8
<1>11. ToSet(FlattenSeq(g)) = ToSet(pairs)
  <2>1. \A i \in 1 .. n : \A x \in Same(i) : x \in ToSet(pairs)
    OBVIOUS
  <2> HIDE DEF Repeats, Same
  <2> QED
    BY <1>8, <1>9, <1>10, <2>1
<1>12. ASSUME NEW x, Once(pairs, x)
       PROVE  Once(FlattenSeq(g), x)
  <2>1. x \in ToSet(pairs)
    BY <1>1, <1>12 DEF Once
  <2>2. PICK q \in 1 .. n : /\ g[q] = Only(pairs, Same(q)) /\ x \in Same(q)
                            /\ \A j \in 1 .. n : j # q => x \notin ToSet(g[j])
    BY <1>10, <2>1
  <2> HIDE DEF Same, n
  <2>3. Once(g[q], x)
    BY <1>12, <2>2, OnlyOnce
  <2> QED
    BY <1>6, <2>2, <2>3, FlattenOnce
<1> QED
  BY <1>2, <1>7, <1>11, <1>12

IsSecret(k) == fields[k].name \in SecretNames

\* What a pair is made into.
LEMMA RedactedFacts ==
  ASSUME RedactInv, place = "form", NEW k \in Reached
  PROVE  LET r == Redacted(PairOf(k))
             x == PairOf(k).value
             y == Name(fields[k].name)
         IN /\ r \in Seq(Kept)
            /\ IsSecret(k) => ToSet(r) = {y, Equals, Digest(x)}
            /\ ~IsSecret(k) => /\ ToSet(r) = {y, Equals} \union ToSet(x)
                               /\ \A j : OfField(j, r) = OfField(j, x)
<1> DEFINE p == PairOf(k)
           x == p.value
           n == fields[k].name
           y == Name(n)
           w == IF IsSecret(k) THEN <<Digest(x)>> ELSE x
           h == <<y>>
           e == <<Equals>>
<1>1. p.key = h /\ x \in Seq(Tokens) /\ y \in Tokens /\ Equals \in Tokens /\ Equals \in Marks
  <2>1. k \in 1 .. Len(fields)
    BY DEF Reached
  <2>2. n \in Names
    BY <2>1, FieldType
  <2> QED
    BY <2>2, PairType, PairFacts, TokensType DEF Marks
<1>2. (\E j \in DOMAIN h : IsName(h[j], SecretNames)) <=> IsSecret(k)
  <2>1. DOMAIN h = {1} /\ h[1] = y
    OBVIOUS
  <2>2. IsName(y, SecretNames) <=> n \in SecretNames
    BY TokensTell DEF IsName
  <2> HIDE DEF h, y, n
  <2> QED
    BY <2>1, <2>2 DEF IsSecret, n
<1> HIDE DEF p, y, h, n
<1>3. Redacted(p) = h \o e \o w
  BY <1>1, <1>2 DEF Redacted
<1>4. h \in Seq(Kept) /\ e \in Seq(Kept) /\ x \in Seq(Kept) /\ w \in Seq(Kept)
  <2>1. y \in Kept /\ Equals \in Kept /\ x \in Seq(Kept)
    BY <1>1 DEF Kept
  <2>2. Digest(x) \in Kept
    BY <1>1 DEF Kept
  <2> DEFINE d == Digest(x)
  <2> HIDE DEF x, d
  <2>3. <<y>> \in Seq(Kept) /\ <<Equals>> \in Seq(Kept) /\ <<d>> \in Seq(Kept)
    BY <2>1, <2>2 DEF d
  <2> QED
    BY <2>1, <2>3 DEF h, d
<1>5. ToSet(h) = {y} /\ ToSet(e) = {Equals} /\ ToSet(w) = IF IsSecret(k) THEN {Digest(x)} ELSE ToSet(x)
  BY SingleOnce DEF h
<1>6. \A j : ~IsSecret(k) => w = x
  OBVIOUS
<1> DEFINE c == h \o e
           r == c \o w
           T(j) == {Part(j, 1), Part(j, 2)}
<1>7. \A j : y \notin T(j) /\ Equals \notin T(j)
  BY <1>1, KindsDiffer DEF y
<1> HIDE DEF w, e, x, T
<1>8. c \in Seq(Kept) /\ ToSet(c) = {y, Equals}
  <2>1. c \in Seq(Kept)
    BY ONLY <1>4, ConcatProperties
  <2>2. ToSet(c) = ToSet(h) \union ToSet(e)
    BY ONLY <1>4, CatSet
  <2> HIDE DEF c
  <2> QED
    BY ONLY <1>5, <2>1, <2>2
<1> HIDE DEF c
<1>9. r \in Seq(Kept) /\ ToSet(r) = ToSet(c) \union ToSet(w)
  BY ONLY <1>4, <1>8, CatSet, ConcatProperties
<1>10. ASSUME ~IsSecret(k), NEW j
       PROVE  OfField(j, r) = OfField(j, x)
  <2> DEFINE tokens == T(j)
  <2> HIDE DEF tokens
  <2>1. Only(r, T(j)) = Only(c, T(j)) \o Only(w, T(j))
    <3>1. c \in Seq(Kept) /\ w \in Seq(Kept)
      BY ONLY <1>4, <1>8
    <3>2. Only(c \o w, tokens) = Only(c, tokens) \o Only(w, tokens)
      BY ONLY <3>1, OnlyCat
    <3> QED
      BY ONLY <3>2 DEF tokens
  <2>2. Only(c, T(j)) = <<>>
    <3>1. ToSet(c) \intersect T(j) = {}
      BY <1>7, <1>8
    <3> QED
      BY ONLY <1>8, <3>1, OnlyNone
  <2>3. Only(w, T(j)) \in Seq(Kept)
    BY ONLY <1>4, OnlyIs
  <2>4. <<>> \o Only(w, T(j)) = Only(w, T(j))
    BY ONLY <2>3, ConcatEmptySeq
  <2>5. w = x
    BY <1>6, <1>10
  <2>6. Only(r, T(j)) = Only(x, T(j))
    BY ONLY <2>1, <2>2, <2>4, <2>5
  <2> QED
    BY ONLY <2>6 DEF OfField, T
<1>11. Redacted(p) = r
  BY <1>3 DEF c, e
<1> HIDE DEF r
<1>12. /\ IsSecret(k) => ToSet(r) = {y, Equals, Digest(x)}
       /\ ~IsSecret(k) => ToSet(r) = {y, Equals} \union ToSet(x)
  BY ONLY <1>5, <1>8, <1>9
<1> QED
  BY <1>9, <1>10, <1>11, <1>12 DEF p, x, y, n

\* In a form all secret values are replaced, and no others.
LEMMA FormRedacted ==
  ASSUME RedactInv, place = "form", NEW k \in 1 .. Len(fields)
  PROVE  IF IsSecret(k)
         THEN /\ OfField(k, RedactForm(Received)) = <<>>
              /\ Stop(k) <= Len(Received) => Digest(Value(k)) \in ToSet(RedactForm(Received))
         ELSE OfField(k, RedactForm(Received)) = OfField(k, Received)
<1> DEFINE b == Received
           g == Grouped(Parsed(b))
           n == Len(g)
           T == {Part(k, 1), Part(k, 2)}
           R == [i \in DOMAIN g |-> Redacted(g[i])]
           Mark1(i) == IF i = 1 THEN <<>> ELSE <<Amp>>
           s == [i \in DOMAIN R |-> Mark1(i) \o R[i]]
<1>1. /\ b \in Seq(Tokens) /\ Len(b) \in Nat /\ k \in Nat
      /\ \A p \in 1 .. Len(b) : b[p] \in T => p \in Start(k) .. Stop(k)
      /\ Start(k) \in Nat /\ Stop(k) \in Nat /\ Start(k) <= Stop(k)
  BY ReceivedFacts, PartsWithin, FieldLength, FieldType
<1>2. /\ g \in Seq(Pairs) /\ ToSet(g) = { PairOf(j) : j \in Reached }
      /\ \A x : Once(Parsed(b), x) => Once(g, x)
  BY ParsedFacts, GroupedFacts
<1> HIDE DEF g
<1>3. /\ n \in Nat /\ DOMAIN g = 1 .. n
      /\ \A i \in 1 .. n : \E j \in Reached : g[i] = PairOf(j)
      /\ \A j \in Reached : \E i \in 1 .. n : g[i] = PairOf(j)
  <2>1. n \in Nat /\ DOMAIN g = 1 .. n /\ ToSet(g) = { g[i] : i \in 1 .. n }
    BY <1>2 DEF ToSet
  <2> HIDE DEF n
  <2>2. \A x : (\E i \in 1 .. n : x = g[i]) <=> (\E j \in Reached : x = PairOf(j))
    BY ONLY <1>2, <2>1
  <2> QED
    BY ONLY <2>1, <2>2
<1>4. RedactForm(b) = FlattenSeq(s) /\ DOMAIN s = 1 .. n
  <2>1. DOMAIN R = 1 .. n
    BY <1>3
  <2> QED
    BY <2>1 DEF RedactForm, Joined, g
<1>5. \A i \in 1 .. n : s[i] = Mark1(i) \o Redacted(g[i])
  BY <1>3
<1>6. s = [i \in 1 .. n |-> s[i]]
  BY <1>3, <1>4
<1> HIDE DEF s, R
<1>7. ASSUME NEW i \in 1 .. n, NEW j \in Reached, g[i] = PairOf(j)
      PROVE  /\ s[i] \in Seq(Kept)
             /\ ToSet(Redacted(PairOf(j))) \subseteq ToSet(s[i])
             /\ IsSecret(j) \/ j # k => ToSet(s[i]) \intersect T = {}
             /\ ~IsSecret(j) => OfField(k, s[i]) = OfField(k, PairOf(j).value)
  <2> DEFINE r == Redacted(PairOf(j))
             a == Mark1(i)
             x == PairOf(j).value
             y == Name(fields[j].name)
  <2>1. /\ r \in Seq(Kept)
        /\ IsSecret(j) => ToSet(r) = {y, Equals, Digest(x)}
        /\ ~IsSecret(j) => /\ ToSet(r) = {y, Equals} \union ToSet(x)
                           /\ OfField(k, r) = OfField(k, x)
    BY RedactedFacts
  <2>2. /\ x \in Seq(Tokens) /\ Len(x) <= Len(Value(j))
        /\ \A q \in 1 .. Len(x) : x[q] = Value(j)[q]
    BY PairFacts
  <2>3. a \in Seq(Kept) /\ ToSet(a) \subseteq {Amp} /\ Amp \in Marks /\ Equals \in Marks
    <3>1. Amp \in Marks /\ Equals \in Marks
      BY DEF Marks
    <3>2. Amp \in Kept
      BY <3>1, TokensType DEF Kept
    <3>3. <<Amp>> \in Seq(Kept) /\ <<>> \in Seq(Kept) /\ ToSet(<<Amp>>) = {Amp} /\ ToSet(<<>>) = {}
      BY <3>2, SingleOnce DEF ToSet
    <3> QED
      BY <3>1, <3>3
  <2>4. s[i] = a \o r
    BY <1>5, <1>7
  <2>5. T \intersect {Amp, Equals, y, Digest(x)} = {}
    BY <2>3, KindsDiffer
  <2>6. j # k => ToSet(x) \intersect T = {}
    <3> SUFFICES ASSUME j # k, NEW q \in 1 .. Len(x), x[q] \in T
                 PROVE  FALSE
      BY <2>2, SMTT(30) DEF ToSet
    <3>1. j \in Nat /\ Len(Value(j)) \in Nat
      BY FieldType, ValueIs DEF Reached, IsValue
    <3>2. q \in 1 .. Len(Value(j))
      BY <2>2, <3>1
    <3>3. Value(j)[q] = Part(k, 1) \/ Value(j)[q] = Part(k, 2)
      BY <2>2
    <3> QED
      BY <3>1, <3>2, <3>3, ValueHas
  <2> HIDE DEF a, r, x, y, T, Mark1
  <2>7. s[i] \in Seq(Kept) /\ ToSet(s[i]) = ToSet(a) \union ToSet(r)
    <3>1. a \o r \in Seq(Kept) /\ ToSet(a \o r) = ToSet(a) \union ToSet(r)
      BY ONLY <2>1, <2>3, CatSet, ConcatProperties
    <3> QED
      BY <2>4, <3>1
  <2>8. IsSecret(j) \/ j # k => ToSet(s[i]) \intersect T = {}
    BY <2>1, <2>3, <2>5, <2>6, <2>7
  <2>9. Only(s[i], T) = Only(r, T)
    <3>1. Only(a \o r, T) = Only(a, T) \o Only(r, T)
      BY ONLY <2>1, <2>3, OnlyCat
    <3>2. ToSet(a) \intersect T = {}
      BY <2>3, <2>5
    <3>3. Only(a, T) = <<>>
      BY ONLY <2>3, <3>2, OnlyNone
    <3>4. Only(r, T) \in Seq(Kept)
      BY ONLY <2>1, OnlyIs
    <3>5. <<>> \o Only(r, T) = Only(r, T)
      BY ONLY <3>4, ConcatEmptySeq
    <3> QED
      BY ONLY <2>4, <3>1, <3>3, <3>5
  <2>10. OfField(k, s[i]) = OfField(k, r)
    BY <2>9 DEF OfField, T
  <2> QED
    BY <2>1, <2>7, <2>8, <2>10 DEF r, x
<1> HIDE DEF T
<1>8. s \in Seq(Seq(Kept)) /\ Len(s) = n
  <2>1. \A i \in 1 .. n : s[i] \in Seq(Kept)
    BY <1>3, <1>7
  <2>2. n \in Nat
    BY <1>3
  <2> HIDE DEF n
  <2> QED
    BY ONLY <1>6, <2>1, <2>2
<1>9. FlattenSeq(s) \in Seq(Kept)
  BY <1>8, FlattenType
<1>10. \A x : x \in ToSet(FlattenSeq(s)) <=> \E i \in 1 .. n : x \in ToSet(s[i])
  BY <1>8, FlattenedSet
<1>11. ASSUME \A i \in 1 .. n : ToSet(s[i]) \intersect T = {}
       PROVE  OfField(k, FlattenSeq(s)) = <<>>
  <2>1. ToSet(FlattenSeq(s)) \intersect T = {}
    BY <1>10, <1>11
  <2>2. Only(FlattenSeq(s), T) = <<>>
    BY ONLY <1>9, <2>1, OnlyNone
  <2> QED
    BY <2>2 DEF OfField, T
<1>12. CASE IsSecret(k)
  <2>1. \A i \in 1 .. n : ToSet(s[i]) \intersect T = {}
    BY <1>3, <1>7, <1>12
  <2>2. ASSUME Stop(k) <= Len(b)
        PROVE  Digest(Value(k)) \in ToSet(FlattenSeq(s))
    <3>1. k \in Reached
      BY <1>1, <2>2 DEF Reached
    <3>2. PairOf(k).value = Value(k)
      BY <2>2, <3>1, PairFacts
    <3>3. PICK i \in 1 .. n : g[i] = PairOf(k)
      BY <1>3, <3>1
    <3>4. Digest(PairOf(k).value) \in ToSet(Redacted(PairOf(k)))
      BY <1>12, <3>1, RedactedFacts
    <3>5. Digest(Value(k)) \in ToSet(s[i])
      BY <1>7, <3>1, <3>2, <3>3, <3>4
    <3> QED
      BY <1>10, <3>5
  <2> QED
    BY <1>4, <1>11, <1>12, <2>1, <2>2
<1>13. CASE ~IsSecret(k) /\ OfField(k, b) = <<>>
  <2>1. ASSUME NEW i \in 1 .. n
        PROVE  ToSet(s[i]) \intersect T = {}
    <3>1. PICK j \in Reached : g[i] = PairOf(j)
      BY <1>3
    <3>2. CASE j # k
      BY <1>7, <3>1, <3>2
    <3>3. CASE j = k
      <4>1. OfField(k, s[i]) = <<>>
        BY <1>7, <1>13, <3>1, <3>3, PairFacts
      <4>2. s[i] \in Seq(Kept)
        BY <1>7, <3>1
      <4>3. Only(s[i], T) = <<>>
        BY <4>1 DEF OfField, T
      <4> QED
        BY ONLY <4>2, <4>3, OnlyNone
    <3> QED
      BY <3>2, <3>3
  <2> QED
    BY <1>4, <1>11, <1>13, <2>1
<1>14. CASE ~IsSecret(k) /\ OfField(k, b) # <<>>
  <2>1. PICK p \in 1 .. Len(b) : b[p] \in T
    <3>1. Only(b, T) # <<>>
      BY <1>14 DEF OfField, T
    <3>2. ToSet(b) \intersect T # {}
      BY ONLY <1>1, <3>1, OnlyNone
    <3> QED
      BY <1>1, <3>2 DEF ToSet
  <2>2. k \in Reached
    <3>1. p \in Start(k) .. Stop(k)
      BY <1>1, <2>1
    <3> QED
      BY <1>1, <3>1 DEF Reached
  <2>3. OfField(k, PairOf(k).value) = OfField(k, b)
    BY <2>2, PairFacts
  <2>4. \A j \in Reached : PairOf(j) = PairOf(k) => j = k
    <3> SUFFICES ASSUME NEW j \in Reached, PairOf(j) = PairOf(k), j # k
                 PROVE  FALSE
      OBVIOUS
    <3>1. PICK i \in 1 .. n : g[i] = PairOf(j)
      BY <1>3
    <3>2. ToSet(s[i]) \intersect T = {} /\ s[i] \in Seq(Kept)
      BY <1>7, <3>1
    <3>3. Only(s[i], T) = <<>>
      BY ONLY <3>2, OnlyNone
    <3>4. OfField(k, s[i]) = OfField(k, PairOf(k).value)
      BY <1>7, <1>14, <2>2, <3>1
    <3> QED
      BY <1>14, <2>3, <3>3, <3>4 DEF OfField, T
  <2>5. Once(g, PairOf(k))
    BY <1>2, <2>2, <2>4, ParsedFacts
  <2>6. PICK q \in 1 .. n : /\ g[q] = PairOf(k)
                            /\ \A i \in 1 .. n : g[i] = PairOf(k) => i = q
    BY <2>5 DEF Once
  <2> DEFINE o == [i \in 1 .. Len(s) |-> Only(s[i], T)]
  <2>7. o \in Seq(Seq(Kept)) /\ Only(FlattenSeq(s), T) = FlattenSeq(o) /\ Len(o) = n
    <3>1. o \in Seq(Seq(Kept)) /\ Only(FlattenSeq(s), T) = FlattenSeq(o)
      BY ONLY <1>8, OnlyFlat
    <3>2. n \in Nat
      BY <1>3
    <3>3. Len(o) = n
      BY ONLY <1>8, <3>2
    <3> QED
      BY <3>1, <3>3
  <2>8. \A i \in 1 .. n : o[i] = Only(s[i], T)
    BY <1>8
  <2> HIDE DEF o
  <2>9. \A i \in 1 .. Len(o) : i # q => o[i] = <<>>
    <3> SUFFICES ASSUME NEW i \in 1 .. n, i # q
                 PROVE  o[i] = <<>>
      BY <2>7
    <3>1. PICK j \in Reached : g[i] = PairOf(j)
      BY <1>3
    <3>2. j # k
      BY <2>6, <3>1
    <3>3. ToSet(s[i]) \intersect T = {} /\ s[i] \in Seq(Kept)
      BY <1>7, <3>1, <3>2
    <3>4. Only(s[i], T) = <<>>
      BY ONLY <3>3, OnlyNone
    <3> QED
      BY <2>8, <3>4
  <2>10. FlattenSeq(o) = o[q]
    BY <2>6, <2>7, <2>9, OnePiece
  <2>11. o[q] = OfField(k, s[q])
    BY <2>6, <2>8 DEF OfField, T
  <2>12. OfField(k, s[q]) = OfField(k, b)
    BY <1>7, <1>14, <2>2, <2>3, <2>6
  <2>13. OfField(k, FlattenSeq(s)) = Only(FlattenSeq(s), T)
    BY DEF OfField, T
  <2> QED
    BY <1>4, <1>14, <2>7, <2>10, <2>11, <2>12, <2>13
<1> QED
  BY <1>12, <1>13, <1>14

------------------------------------------------------------------------------
(* What is stored.                                                          *)

\* What is stored of a field, whatever the place.
LEMMA StoredFacts ==
  ASSUME RedactInv, NEW k \in 1 .. Len(fields)
  PROVE  IF IsSecret(k) /\ ~Unseen(k)
         THEN /\ OfField(k, Stored) = <<>>
              /\ InFull(k) => Digest(Value(k)) \in ToSet(Stored)
         ELSE OfField(k, Stored) = OfField(k, Received)
<1>1. InFull(k) <=> Stop(k) <= Len(Received)
  BY ReceivedFacts
<1>2. CASE place = "query"
  BY <1>2 DEF Stored, Unseen
<1>3. CASE place = "json"
  <2>1. Stored = RedactJson(Received)
    BY <1>3 DEF Stored, RedactBody
  <2>2. k \in Found <=> IsSecret(k) /\ ~Unseen(k)
    BY <1>1, <1>3 DEF Found, IsSecret, Unseen
  <2> QED
    BY <1>3, <2>1, <2>2, JsonRedacted
<1>4. CASE place = "form"
  <2>1. Stored = RedactForm(Received)
    BY <1>4 DEF Stored, RedactBody
  <2>2. ~Unseen(k)
    BY <1>4 DEF Unseen
  <2> QED
    BY <1>1, <1>4, <2>1, <2>2, FormRedacted
<1>5. CASE place = "other"
  <2>1. Stored = RedactInline(Received)
    BY <1>5 DEF Stored, RedactBody
  <2>2. Unseen(k) <=> fields[k].name \notin LeadingNames \/ fields[k].form = "colon"
    BY <1>5 DEF Unseen
  <2>3. fields[k].name \in LeadingNames => IsSecret(k)
    BY NamesAssumption DEF IsSecret
  <2>4. CASE k \in FoundWords
    <3>1. IsSecret(k) /\ ~Unseen(k)
      BY <2>2, <2>3, <2>4 DEF FoundWords
    <3> QED
      BY <1>1, <1>5, <2>1, <2>4, <3>1, InlineRedacted
  <2>5. CASE k \notin FoundWords
    <3>1. OfField(k, Stored) = OfField(k, Received)
      BY <1>5, <2>1, <2>5, InlineRedacted
    <3>2. CASE IsSecret(k) /\ ~Unseen(k)
      <4>1. ~(Start(k) + 2 <= Len(Received))
        BY <2>2, <2>5, <3>2 DEF FoundWords
      <4>2. /\ Start(k) \in Nat /\ Len(Received) \in Nat /\ Received \in Seq(Tokens)
            /\ Len(Written(k)) \in Nat /\ Stop(k) = Start(k) - 1 + Len(Written(k))
        BY FieldLength, ReceivedFacts
      <4>3. ASSUME NEW p \in 1 .. Len(Received),
                   Received[p] \in {Part(k, 1), Part(k, 2)}
            PROVE  FALSE
        <5>1. PICK q \in {1, 2} : Received[p] = Part(k, q)
          BY <4>3
        <5>2. PICK o \in 1 .. Len(Written(k)) : p = Start(k) - 1 + o /\ o > 2
          BY <5>1, PartsAt
        <5> QED
          BY <4>1, <4>2, <5>2
      <4>4. OfField(k, Received) = <<>>
        <5> DEFINE T == {Part(k, 1), Part(k, 2)}
        <5>1. ToSet(Received) \intersect T = {}
          BY <4>2, <4>3 DEF ToSet
        <5> HIDE DEF T
        <5>2. Only(Received, T) = <<>>
          BY <4>2, <5>1, OnlyNone
        <5> QED
          BY <5>2 DEF OfField, T
      <4>5. ~InFull(k)
        <5>1. fields[k].form \in Forms /\ k \in Nat
          BY FieldType
        <5>2. fields[k].form = "string"
          BY <1>5, <2>2, <3>2, <5>1 DEF Forms
        <5>3. IsValue(k, Value(k))
          BY <5>1, ValueIs
        <5>4. Len(Value(k)) = 2
          BY <5>2, <5>3 DEF IsValue
        <5>5. Stop(k) = Start(k) + 1 + Len(Value(k))
          BY <1>5, PlainText
        <5>6. Stop(k) = Start(k) + 3
          BY <4>2, <5>4, <5>5
        <5>7. ~(Stop(k) <= Len(Received))
          BY ONLY <4>1, <4>2, <5>6
        <5> QED
          BY <1>1, <5>7
      <4> QED
        BY <3>1, <3>2, <4>4, <4>5
    <3> QED
      BY <3>1, <3>2
  <2> QED
    BY <2>4, <2>5
<1> QED
  BY <1>2, <1>3, <1>4, <1>5 DEF RedactInv

LEMMA SecretsFollow ==
  ASSUME RedactInv
  PROVE  SecretsAreHashed
<1> SUFFICES ASSUME NEW i \in DOMAIN fields, fields[i].name \in SecretNames, ~Unseen(i)
             PROVE  /\ OfField(i, Stored) = <<>>
                    /\ InFull(i) /\ Value(i) # <<>> =>
                         \E k \in DOMAIN Stored : Stored[k] = Digest(Value(i))
  BY DEF SecretsAreHashed
<1>1. i \in 1 .. Len(fields)
  BY DEF RedactInv
<1>2. Digest(Value(i)) \in ToSet(Stored) => \E k \in DOMAIN Stored : Stored[k] = Digest(Value(i))
  BY DEF ToSet
<1> QED
  BY <1>1, <1>2, StoredFacts DEF IsSecret

LEMMA OthersFollow ==
  ASSUME RedactInv
  PROVE  OnlySecretsAreHashed
<1> SUFFICES ASSUME NEW i \in DOMAIN fields, fields[i].name \notin SecretNames
             PROVE  OfField(i, Stored) = OfField(i, Received)
  BY DEF OnlySecretsAreHashed
<1>1. i \in 1 .. Len(fields)
  BY DEF RedactInv
<1> QED
  BY <1>1, StoredFacts DEF IsSecret

------------------------------------------------------------------------------
(* The user name.                                                           *)

\* A prefix, element by element.
LEMMA PrefixIs ==
  ASSUME NEW X, NEW s \in Seq(X), NEW t \in Seq(X), Len(s) <= Len(t),
         \A i \in 1 .. Len(s) : s[i] = t[i]
  PROVE  IsPrefix(s, t)
<1> DEFINE n == Len(s)
           x == SubSeq(s, 1, n)
           y == SubSeq(t, 1, n)
<1>1. n \in Nat /\ Len(t) \in Nat /\ n <= Len(t)
  OBVIOUS
<1> HIDE DEF n
<1>2. /\ 1 \in 1 .. Len(s) + 1 /\ n \in 1 - 1 .. Len(s) /\ 1 \in 1 .. Len(t) + 1
      /\ n \in 1 - 1 .. Len(t) /\ n - 1 + 1 = n /\ \A i \in 1 .. n : 1 + i - 1 = i
  BY <1>1 DEF n
<1>3. x \in Seq(X) /\ Len(x) = n - 1 + 1 /\ \A i \in 1 .. n - 1 + 1 : x[i] = s[1 + i - 1]
  BY ONLY <1>2, s \in Seq(X), Slice
<1>4. y \in Seq(X) /\ Len(y) = n - 1 + 1 /\ \A i \in 1 .. n - 1 + 1 : y[i] = t[1 + i - 1]
  BY ONLY <1>2, t \in Seq(X), Slice
<1> HIDE DEF x, y
<1>5. \A i \in 1 .. n : s[i] = t[i]
  BY DEF n
<1>6. Len(x) = Len(y) /\ \A i \in 1 .. Len(x) : x[i] = y[i]
  BY ONLY <1>2, <1>3, <1>4, <1>5
<1>7. x = y
  BY ONLY <1>3, <1>4, <1>6, SameSequence
<1> QED
  BY <1>1, <1>7 DEF IsPrefix, n, x, y

LEMMA DecodedType ==
  ASSUME NEW k \in Nat
  PROVE  Decoded(k) \in Seq(Tokens) /\ (fields[k].form # "escaped" => Decoded(k) = Value(k))
<1>1. Part(k, 1) \in Tokens /\ Part(k, 2) \in Tokens /\ Quote \in Tokens
  BY TokensType DEF Marks
<1>2. <<Part(k, 1), Quote, Part(k, 2)>> \in Seq(Tokens)
  <2> DEFINE x == Part(k, 1)
             y == Part(k, 2)
  <2> HIDE DEF x, y
  <2>1. <<x, Quote, y>> \in Seq(Tokens)
    BY <1>1 DEF x, y
  <2> QED
    BY <2>1 DEF x, y
<1>3. Value(k) \in Seq(Tokens)
  BY ValueIs DEF IsValue
<1> QED
  BY <1>2, <1>3 DEF Decoded

\* A form has a value under the names that were received.
LEMMA FormNames ==
  ASSUME RedactInv, place = "form", NEW n
  PROVE  /\ PairsNamed(n) # {} <=> \E k \in Reached : fields[k].name = n
         /\ PairsNamed(n) # {} => \E k \in Reached :
              fields[k].name = n /\ Parsed(Received)[Min(PairsNamed(n))] = PairOf(k)
<1> DEFINE p == Parsed(Received)
           S == PairsNamed(n)
<1>1. p \in Seq(Pairs) /\ ToSet(p) = { PairOf(k) : k \in Reached }
  BY ParsedFacts
<1>2. S = { i \in DOMAIN p : p[i].key = <<Name(n)>> }
  BY DEF PairsNamed
<1>3. \A k \in Reached : PairOf(k).key = <<Name(fields[k].name)>>
  BY PairType
<1>4. \A m : <<Name(m)>> = <<Name(n)>> => m = n
  <2> SUFFICES ASSUME NEW m, <<Name(m)>> = <<Name(n)>>
               PROVE  m = n
    OBVIOUS
  <2> DEFINE x == Name(m)
             y == Name(n)
  <2>1. x = y
    <3> HIDE DEF x, y
    <3>1. <<x>> = <<y>>
      BY DEF x, y
    <3>2. <<x>>[1] = x /\ <<y>>[1] = y
      OBVIOUS
    <3> QED
      BY <3>1, <3>2
  <2> QED
    BY <2>1, TokensTell
<1> HIDE DEF p, S
<1>5. DOMAIN p = 1 .. Len(p) /\ Len(p) \in Nat /\ S \in SUBSET Nat /\ S \subseteq DOMAIN p
  BY <1>1, <1>2
<1>6. \A x : (\E i \in DOMAIN p : x = p[i]) <=> (\E k \in Reached : x = PairOf(k))
  <2>1. ToSet(p) = { p[i] : i \in DOMAIN p }
    BY DEF ToSet
  <2> QED
    BY ONLY <1>1, <2>1
<1>7. ASSUME NEW i \in S
      PROVE  \E k \in Reached : fields[k].name = n /\ p[i] = PairOf(k)
  <2>1. i \in DOMAIN p /\ p[i].key = <<Name(n)>>
    BY <1>2
  <2>2. PICK k \in Reached : p[i] = PairOf(k)
    BY <1>6, <2>1
  <2>3. <<Name(fields[k].name)>> = <<Name(n)>>
    BY <1>3, <2>1, <2>2
  <2>4. fields[k].name = n
    BY ONLY <1>4, <2>3
  <2> QED
    BY <2>2, <2>4
<1>8. ASSUME NEW k \in Reached, fields[k].name = n
      PROVE  S # {}
  <2>1. PICK i \in DOMAIN p : p[i] = PairOf(k)
    BY <1>6
  <2>2. i \in S
    BY <1>2, <1>3, <1>8, <2>1
  <2> QED
    BY <2>2
<1>9. S # {} => Min(S) \in S
  BY <1>5, MinFacts
<1> QED
  BY <1>7, <1>8, <1>9 DEF S, p

\* JSON has one under a name if the last field of it is a string.
LEMMA JsonTextNames ==
  ASSUME RedactInv, NEW n
  PROVE  /\ TextNamed(n) # {} => \E k \in 1 .. Len(fields) :
              fields[k].name = n /\ IsStr(k) /\ Max(TextNamed(n)) = k
         /\ \A k \in 1 .. Len(fields) :
              /\ fields[k].name = n /\ IsStr(k)
              /\ \A j \in 1 .. Len(fields) : fields[j].name = n => j = k
              => TextNamed(n) # {}
<1> DEFINE S == FieldsNamed(n)
           T == TextNamed(n)
<1>1. DOMAIN fields = 1 .. Len(fields) /\ Len(fields) \in Nat
  BY DEF RedactInv
<1>2. /\ S = { i \in 1 .. Len(fields) : fields[i].name = n }
      /\ T = { i \in S : i = Max(S) /\ IsStr(i) }
  BY <1>1 DEF FieldsNamed, TextNamed
<1> HIDE DEF S, T
<1>3. S \in SUBSET Int /\ T \in SUBSET Int
  BY <1>1, <1>2
<1>4. ASSUME NEW k \in T
      PROVE  k \in 1 .. Len(fields) /\ fields[k].name = n /\ IsStr(k) /\ Max(T) = k
  <2>1. \A y \in T : y = k
    BY <1>2
  <2>2. k \in Int /\ \A y \in T : y <= k
    BY <1>3, <2>1
  <2>3. Max(T) = k
    BY <1>3, <2>2, MaxIs
  <2> QED
    BY <1>2, <2>3
<1>5. ASSUME NEW k \in 1 .. Len(fields), fields[k].name = n, IsStr(k),
             \A j \in 1 .. Len(fields) : fields[j].name = n => j = k
      PROVE  T # {}
  <2>1. k \in S /\ \A y \in S : y <= k
    BY <1>1, <1>2, <1>5
  <2>2. Max(S) = k
    BY <1>3, <2>1, MaxIs
  <2>3. k \in T
    BY <1>2, <1>5, <2>1, <2>2
  <2> QED
    BY <2>3
<1> QED
  BY <1>4, <1>5 DEF T

\* The fields that may give a name, and the places of the names that are given.
Users == { i \in 1 .. Len(fields) : IsText(i) /\ fields[i].name \in ToSet(UsernameFields) }
Given == { k \in 1 .. Len(UsernameFields) : IsGiven(UsernameFields[k]) }

\* What is counted, if a name is: all or the beginning of one of its values.
LEMMA GivenFacts ==
  ASSUME RedactInv, NEW n, n \in ToSet(UsernameFields), IsGiven(n)
  PROVE  LET u == IF place = "form" THEN Parsed(Received)[Min(PairsNamed(n))].value
                  ELSE Decoded(Max(TextNamed(n)))
         IN \E k \in Users : /\ fields[k].name = n
                             /\ IsPrefix(u, Decoded(k))
                             /\ Received = Whole => u = Decoded(k)
<1>1. place = "form" \/ place = "json"
  BY DEF IsGiven
<1>2. CASE place = "form"
  <2>1. PICK k \in Reached : fields[k].name = n /\ Parsed(Received)[Min(PairsNamed(n))] = PairOf(k)
    <3>1. PairsNamed(n) # {}
      BY <1>2 DEF IsGiven
    <3> QED
      BY <1>2, <3>1, FormNames
  <2> DEFINE u == PairOf(k).value
             d == Decoded(k)
  <2>2. k \in 1 .. Len(fields) /\ k \in Nat /\ fields[k].form \in {"string", "blank"}
    <3>1. k \in 1 .. Len(fields)
      BY DEF Reached
    <3> QED
      BY <1>2, <3>1, FieldType DEF Forms
  <2>3. k \in Users
    BY <2>1, <2>2 DEF Users, IsText
  <2>4. d \in Seq(Tokens) /\ d = Value(k)
    BY <2>2, DecodedType
  <2>5. /\ u \in Seq(Tokens) /\ Len(u) <= Len(d) /\ \A i \in 1 .. Len(u) : u[i] = d[i]
        /\ Stop(k) <= Len(Received) => u = d
    BY <1>2, <2>4, PairFacts
  <2> HIDE DEF u, d
  <2>6. IsPrefix(u, d)
    BY ONLY <2>4, <2>5, PrefixIs
  <2>7. Received = Whole => Stop(k) <= Len(Received)
    <3>1. Laid(Whole, Len(fields))
      BY WholeIsLaid
    <3>2. Stop(k) \in Start(k) .. Len(Whole)
      BY <2>2, <3>1 DEF Laid, Stands
    <3>3. Start(k) \in Nat /\ Len(Whole) \in Nat
      BY <2>2, FieldLength, ReceivedFacts
    <3> QED
      BY <3>2, <3>3
  <2> QED
    BY <1>2, <2>1, <2>3, <2>5, <2>6, <2>7 DEF u, d
<1>3. CASE place = "json"
  <2>1. TextNamed(n) # {}
    BY <1>3 DEF IsGiven
  <2>2. PICK k \in 1 .. Len(fields) : fields[k].name = n /\ IsStr(k) /\ Max(TextNamed(n)) = k
    BY <2>1, JsonTextNames
  <2>3. k \in Users
    BY <2>2 DEF Users, IsText, IsStr
  <2> DEFINE d == Decoded(k)
  <2>4. d \in Seq(Tokens)
    BY FieldType, DecodedType
  <2> HIDE DEF d
  <2>5. IsPrefix(d, d)
    BY <2>4, PrefixIs
  <2> QED
    BY <1>3, <2>2, <2>3, <2>5 DEF d
<1> QED
  BY <1>1, <1>2, <1>3

\* In a body that was received whole, a name under which a text was sent is given.
LEMMA UsersGive ==
  ASSUME RedactInv, Received = Whole, place \in {"json", "form"}, NEW i \in Users,
         \A j \in 1 .. Len(fields) : fields[j].name = fields[i].name => j = i
  PROVE  IsGiven(fields[i].name)
<1>1. i \in 1 .. Len(fields) /\ IsText(i)
  BY DEF Users
<1>2. CASE place = "form"
  <2>1. Laid(Whole, Len(fields))
    BY WholeIsLaid
  <2>2. Start(i) \in 1 .. Len(Whole)
    BY <1>1, <2>1 DEF Laid, Stands
  <2>3. i \in Reached
    BY <1>1, <2>2 DEF Reached
  <2>4. PairsNamed(fields[i].name) # {}
    BY <1>2, <2>3, FormNames
  <2> QED
    BY <1>2, <2>4 DEF IsGiven
<1>3. CASE place = "json"
  <2>1. IsStr(i)
    <3>1. fields[i].form \in Forms
      BY <1>1, FieldType
    <3> QED
      BY <1>1, <1>3, <3>1 DEF Forms, IsText, IsStr
  <2>2. TextNamed(fields[i].name) # {}
    BY <1>1, <2>1, JsonTextNames
  <2> QED
    BY <1>3, <2>2 DEF IsGiven
<1> QED
  BY <1>2, <1>3

\* The first of the names that are given counts.
LEMMA UsernameIs ==
  ASSUME RedactInv
  PROVE  LET n == UsernameFields[Min(Given)]
         IN /\ Given = {} => Username = <<>>
            /\ Given # {} =>
                 /\ Min(Given) \in Given /\ \A k \in Given : Min(Given) <= k
                 /\ Username = IF place = "form" THEN Parsed(Received)[Min(PairsNamed(n))].value
                               ELSE Decoded(Max(TextNamed(n)))
<1>1. DOMAIN UsernameFields = 1 .. Len(UsernameFields) /\ Len(UsernameFields) \in Nat
  BY NamesAssumption
<1>2. Given = { k \in DOMAIN UsernameFields : IsGiven(UsernameFields[k]) }
  BY <1>1 DEF Given
<1>3. Given \in SUBSET Nat
  BY <1>1 DEF Given
<1>4. Given # {} => Min(Given) \in Given /\ \A k \in Given : Min(Given) <= k
  BY <1>3, MinFacts
<1> QED
  BY <1>2, <1>4 DEF Username

LEMMA UserFollows ==
  ASSUME RedactInv
  PROVE  UserIsCountedAsSent
<1> DEFINE Rank(i) == CHOOSE k \in DOMAIN UsernameFields : UsernameFields[k] = fields[i].name
           first   == { i \in Users : \A j \in Users : Rank(i) <= Rank(j) }
           m       == Min(Given)
           n       == UsernameFields[m]
<1>1. DOMAIN UsernameFields = 1 .. Len(UsernameFields) /\ Len(UsernameFields) \in Nat
  BY NamesAssumption
<1>2. DOMAIN fields = 1 .. Len(fields)
  BY DEF RedactInv
<1>3. ASSUME NEW k \in Given
      PROVE  /\ k \in Nat /\ k \in DOMAIN UsernameFields /\ IsGiven(UsernameFields[k])
             /\ UsernameFields[k] \in ToSet(UsernameFields)
  BY <1>1 DEF Given, ToSet
<1>4. ASSUME NEW i \in Users
      PROVE  Rank(i) \in DOMAIN UsernameFields /\ UsernameFields[Rank(i)] = fields[i].name
  <2>1. \E k \in DOMAIN UsernameFields : UsernameFields[k] = fields[i].name
    BY DEF Users, ToSet
  <2> QED
    BY <2>1
<1>5. ASSUME NEW i \in Users, NEW k \in DOMAIN UsernameFields, UsernameFields[k] = fields[i].name
      PROVE  Rank(i) = k
  BY <1>4, <1>5, NamesAssumption DEF IsInjective
<1> HIDE DEF Rank
<1>6. ASSUME Given # {}
      PROVE  \E k \in Users : /\ fields[k].name = n
                              /\ IsPrefix(Username, Decoded(k))
                              /\ Received = Whole => Username = Decoded(k)
  <2>1. m \in Given
    BY <1>6, UsernameIs
  <2>2. n \in ToSet(UsernameFields) /\ IsGiven(n)
    BY <1>3, <2>1
  <2> DEFINE u == IF place = "form" THEN Parsed(Received)[Min(PairsNamed(n))].value
                  ELSE Decoded(Max(TextNamed(n)))
  <2>3. Username = u
    BY <1>6, UsernameIs
  <2>4. \E k \in Users : /\ fields[k].name = n /\ IsPrefix(u, Decoded(k))
                         /\ Received = Whole => u = Decoded(k)
    BY <2>2, GivenFacts
  <2> HIDE DEF u, n
  <2> QED
    BY <2>3, <2>4
<1>7. Username # <<>> => \E i \in Users : IsPrefix(Username, Decoded(i))
  BY <1>6, UsernameIs
<1>8. place = "json" /\ Received # Whole => Username = <<>>
  <2> SUFFICES ASSUME place = "json", Received # Whole
               PROVE  Given = {}
    BY UsernameIs
  <2> QED
    BY DEF Given, IsGiven
<1>9. ASSUME \A i, j \in DOMAIN fields : fields[i].name = fields[j].name => i = j,
             Received = Whole, place \in {"json", "form"}
      PROVE  IF first = {} THEN Username = <<>> ELSE \E i \in first : Username = Decoded(i)
  <2>1. ASSUME NEW i \in Users
        PROVE  Rank(i) \in Given
    <3>1. i \in 1 .. Len(fields)
      BY DEF Users
    <3>2. IsGiven(fields[i].name)
      BY <1>2, <1>9, <3>1, UsersGive
    <3> QED
      BY <1>1, <1>4, <3>2 DEF Given
  <2>2. CASE Given = {}
    <3>1. Users = {}
      BY <2>1, <2>2
    <3>2. first = {}
      BY <3>1
    <3> QED
      BY <2>2, <3>2, UsernameIs
  <2>3. CASE Given # {}
    <3>1. PICK k \in Users : fields[k].name = n /\ Username = Decoded(k)
      BY <1>6, <1>9, <2>3
    <3>2. m \in Given /\ \A j \in Given : m <= j
      BY <2>3, UsernameIs
    <3>3. Rank(k) = m
      BY <1>3, <1>5, <3>1, <3>2
    <3>4. k \in first
      BY <2>1, <3>2, <3>3
    <3> QED
      BY <3>1, <3>4
  <2> QED
    BY <2>2, <2>3
<1>10. Users = { i \in DOMAIN fields : IsText(i) /\ fields[i].name \in ToSet(UsernameFields) }
  BY <1>2 DEF Users
<1> QED
  BY <1>7, <1>8, <1>9, <1>10 DEF UserIsCountedAsSent, Rank

------------------------------------------------------------------------------
(* Every state is of that kind.                                             *)

LEMMA RedactIsInductive == Init => RedactInv
BY DEF Init, RedactInv

LEMMA RedactStep == RedactInv /\ [Next]_vars => RedactInv'
<1> SUFFICES ASSUME RedactInv, [Next]_vars
             PROVE  RedactInv'
  OBVIOUS
<1>1. CASE AddField
  <2>1. PICK n \in Names, f \in Forms : fields' = Append(fields, [name |-> n, form |-> f])
    BY <1>1 DEF AddField, Names
  <2>2. Forms' = Forms /\ place' = place /\ limit' = limit
    BY <1>1 DEF AddField, Forms
  <2>3. fields' \in Seq([name : Names, form : Forms])
    BY <2>1 DEF RedactInv
  <2> QED
    BY <2>2, <2>3 DEF RedactInv
<1>2. CASE AllowMore
  <2>1. Forms' = Forms /\ place' = place /\ fields' = fields /\ limit' = limit + 1
    BY <1>2 DEF AllowMore, Forms
  <2> QED
    BY <2>1 DEF RedactInv
<1>3. CASE UNCHANGED vars
  <2>1. Forms' = Forms
    BY <1>3 DEF vars, Forms
  <2> QED
    BY <1>3, <2>1 DEF vars, RedactInv
<1> QED
  BY <1>1, <1>2, <1>3 DEF Next

LEMMA RedactIsInvariant == Spec => []RedactInv
<1>1. Init => RedactInv
  BY RedactIsInductive
<1>2. RedactInv /\ [Next]_vars => RedactInv'
  BY RedactStep
<1> QED
  BY <1>1, <1>2, PTL DEF Spec

(* A value under a secret name is never stored in clear where the code can see that
   it is secret, and its digest is stored instead, for any fields and any limit
   (redact.py:65-88).  Where it cannot, Unseen, README.md:198 is refuted by a run. *)
THEOREM SecretsNeverStored == Spec => []SecretsAreHashed
<1>1. RedactInv => SecretsAreHashed
  BY SecretsFollow
<1> QED
  BY <1>1, RedactIsInvariant, PTL

(* Everything else that was received is stored as it was, whatever secrets stand
   around it and however they are quoted (redact.py:28-31, 47-88). *)
THEOREM RestStoredAsReceived == Spec => []OnlySecretsAreHashed
<1>1. RedactInv => OnlySecretsAreHashed
  BY OthersFollow
<1> QED
  BY <1>1, RedactIsInvariant, PTL

(* The user name that is counted is the one that was sent: the first of
   USERNAME_FIELDS with a text, a beginning of it if a form was cut, none if JSON was
   (main.py:30, 46-67). *)
THEOREM UserNameCounted == Spec => []UserIsCountedAsSent
<1>1. RedactInv => UserIsCountedAsSent
  BY UserFollows
<1> QED
  BY <1>1, RedactIsInvariant, PTL
==============================================================================
