-------------------------- MODULE ClientOfferProofs --------------------------
(***************************************************************************)
(* What the parser makes of a hello that is whole, of one that is cut and  *)
(* of one that overruns, and what the JA4 of a whole one says, for every   *)
(* offer of any length.                                                    *)
(*                                                                         *)
(* All of it follows from where the parts of a hello lie: the length       *)
(* written in front of each part is the one that the parser finds the      *)
(* next part by.  That a JA4 says what was offered follows from offering   *)
(* nothing twice: a list is then as long as the set of its values.         *)
(***************************************************************************)
EXTENDS ClientOffer, SequenceTheorems, FiniteSetTheorems, FunctionTheorems,
        WellFoundedInduction, TLAPS

LEMMA NatSetInduction ==
  ASSUME NEW T, 0 \in T, \A n \in Nat : n \in T => n + 1 \in T
  PROVE  \A n \in Nat : n \in T
<1> SUFFICES ASSUME Nat \ T # {} PROVE FALSE
  OBVIOUS
<1> DEFINE R == OpToRel(<, Nat)
<1>1. IsWellFoundedOn(R, Nat)
  BY NatLessThanWellFounded
<1>2. \A m, n \in Nat : m < n => <<m, n>> \in R
  BY DEF OpToRel
<1> HIDE DEF R
<1>3. PICK x \in Nat \ T : \A y \in Nat \ T : ~ (<<y, x>> \in R)
  BY <1>1, WFMin
<1>4. x - 1 \in Nat /\ x - 1 < x
  OBVIOUS
<1>5. x - 1 \in T
  BY <1>2, <1>3, <1>4
<1> QED
  BY <1>3, <1>4, <1>5

------------------------------------------------------------------------------
(* Flattened sequences.                                                     *)

\* The recursion that FlattenSeq unfolds to.
Flattening(seqs, f) ==
  f = [i \in 1 .. Len(seqs) |-> IF i = 1 THEN seqs[i] ELSE f[i - 1] \o seqs[i]]

\* f[i] is what the first i of some sequences flatten to, for i up to n.
Partial(seqs, n, f) ==
  /\ f[0] = <<>>
  /\ \A i \in 1 .. n : f[i] = f[i - 1] \o seqs[i]

LEMMA FlattenUnfolds ==
  ASSUME NEW seqs, Len(seqs) # 0
  PROVE  FlattenSeq(seqs) = (CHOOSE f : Flattening(seqs, f))[Len(seqs)]
BY DEF FlattenSeq, Flattening

LEMMA PartialExists ==
  ASSUME NEW X, NEW seqs \in Seq(Seq(X))
  PROVE  \E f \in [0 .. Len(seqs) -> Seq(X)] : Partial(seqs, Len(seqs), f)
<1> DEFINE Has(n) == \E f \in [0 .. n -> Seq(X)] : Partial(seqs, n, f)
           T      == {n \in Nat : n <= Len(seqs) => Has(n)}
<1>1. Has(0)
  <2> DEFINE f == [i \in 0 .. 0 |-> <<>>]
  <2>1. f \in [0 .. 0 -> Seq(X)] /\ Partial(seqs, 0, f)
    BY DEF Partial
  <2> QED
    BY <2>1
<1>2. ASSUME NEW n \in Nat, n + 1 <= Len(seqs), Has(n)
      PROVE  Has(n + 1)
  <2>1. PICK f \in [0 .. n -> Seq(X)] : Partial(seqs, n, f)
    BY <1>2
  <2> DEFINE more == f[n] \o seqs[n + 1]
             g    == [i \in 0 .. n + 1 |-> IF i = n + 1 THEN more ELSE f[i]]
  <2>2. f[n] \in Seq(X) /\ seqs[n + 1] \in Seq(X)
    BY <1>2
  <2>3. more \in Seq(X)
    BY <2>2, ConcatProperties
  <2>4. g \in [0 .. n + 1 -> Seq(X)]
    <3> HIDE DEF more
    <3> QED
      BY <2>3
  <2>5. /\ g[n + 1] = more
        /\ \A i \in 0 .. n : g[i] = f[i]
    <3> HIDE DEF more
    <3> QED
      OBVIOUS
  <2> HIDE DEF g
  <2>6. g[0] = <<>>
    <3>1. g[0] = f[0]
      BY ONLY <1>2, <2>5
    <3> QED
      BY ONLY <2>1, <3>1 DEF Partial
  <2>7. ASSUME NEW i \in 1 .. n + 1
        PROVE  g[i] = g[i - 1] \o seqs[i]
    <3>1. CASE i = n + 1
      <4>1. g[n] = f[n] /\ i - 1 = n
        BY <2>5, <3>1
      <4> QED
        BY <2>5, <3>1, <4>1
    <3>2. CASE i # n + 1
      <4>1. i \in 1 .. n /\ i \in 0 .. n /\ i - 1 \in 0 .. n
        BY <3>2
      <4>2. f[i] = f[i - 1] \o seqs[i]
        BY <2>1, <4>1 DEF Partial
      <4> QED
        BY <2>5, <4>1, <4>2
    <3> QED
      BY <3>1, <3>2
  <2> QED
    BY <2>4, <2>6, <2>7 DEF Partial
<1> HIDE DEF Has
<1>3. 0 \in T /\ \A n \in Nat : n \in T => n + 1 \in T
  BY <1>1, <1>2
<1> HIDE DEF T
<1>4. \A n \in Nat : n \in T
  BY <1>3, NatSetInduction
<1>5. Len(seqs) \in T
  BY <1>4
<1> QED
  BY <1>5 DEF T, Has

LEMMA FlattenIsLastPrefix ==
  ASSUME NEW X, NEW seqs \in Seq(Seq(X)), NEW f \in [0 .. Len(seqs) -> Seq(X)],
         Partial(seqs, Len(seqs), f)
  PROVE  FlattenSeq(seqs) = f[Len(seqs)]
<1>1. CASE Len(seqs) = 0
  BY <1>1 DEF FlattenSeq, Partial
<1>2. CASE Len(seqs) # 0
  <2> DEFINE g    == [i \in 1 .. Len(seqs) |-> f[i]]
             step == [i \in 1 .. Len(seqs) |-> IF i = 1 THEN seqs[i] ELSE g[i - 1] \o seqs[i]]
  <2>0. \A i \in 1 .. Len(seqs) : f[i] = IF i = 1 THEN seqs[i] ELSE f[i - 1] \o seqs[i]
    <3> SUFFICES ASSUME NEW i \in 1 .. Len(seqs)
                 PROVE  f[i] = IF i = 1 THEN seqs[i] ELSE f[i - 1] \o seqs[i]
      OBVIOUS
    <3>1. f[i] = f[i - 1] \o seqs[i]
      BY DEF Partial
    <3>2. CASE i = 1
      <4>1. seqs[1] \in Seq(X)
        BY <3>2
      <4>2. <<>> \o seqs[1] = seqs[1]
        BY <4>1, ConcatEmptySeq
      <4>3. f[i - 1] = <<>>
        BY <3>2 DEF Partial
      <4> QED
        BY <3>1, <3>2, <4>2, <4>3
    <3> QED
      BY <3>1, <3>2
  <2>1. ASSUME NEW i \in 1 .. Len(seqs)
        PROVE  g[i] = step[i]
    <3>1. CASE i = 1
      BY <2>0, <3>1
    <3>2. CASE i # 1
      <4>1. i - 1 \in 1 .. Len(seqs)
        BY <3>2
      <4>2. g[i - 1] = f[i - 1] /\ g[i] = f[i]
        BY <4>1
      <4>3. step[i] = g[i - 1] \o seqs[i]
        BY <3>2
      <4> HIDE DEF g, step
      <4> QED
        BY <2>0, <3>2, <4>2, <4>3
    <3> QED
      BY <3>1, <3>2
  <2>2. g = step
    BY <2>1
  <2>3. Flattening(seqs, g)
    BY <2>2 DEF Flattening
  <2> DEFINE h == CHOOSE h : Flattening(seqs, h)
  <2>4. Flattening(seqs, h)
    BY <2>3
  <2>5. FlattenSeq(seqs) = h[Len(seqs)]
    BY <1>2, FlattenUnfolds
  <2> HIDE DEF h
  <2> DEFINE T == {n \in Nat : n + 1 \in 1 .. Len(seqs) => h[n + 1] = f[n + 1]}
  <2>6. \A i \in 1 .. Len(seqs) :
          h[i] = IF i = 1 THEN seqs[i] ELSE h[i - 1] \o seqs[i]
    BY <2>4 DEF Flattening
  <2>8. 0 \in T
    BY <2>0, <2>6
  <2>9. ASSUME NEW n \in Nat, n \in T
        PROVE  n + 1 \in T
    <3> SUFFICES ASSUME n + 2 \in 1 .. Len(seqs)
                 PROVE  h[n + 2] = f[n + 2]
      OBVIOUS
    <3>1. h[n + 1] = f[n + 1]
      BY <2>9
    <3>2. n + 2 # 1 /\ (n + 2) - 1 = n + 1
      OBVIOUS
    <3> QED
      BY <2>0, <2>6, <3>1, <3>2
  <2> HIDE DEF T
  <2>10. \A n \in Nat : n \in T
    BY <2>8, <2>9, NatSetInduction
  <2>11. Len(seqs) - 1 \in T
    BY <1>2, <2>10
  <2> QED
    BY <1>2, <2>5, <2>11 DEF T
<1> QED
  BY <1>1, <1>2

LEMMA FlattenType ==
  ASSUME NEW X, NEW seqs \in Seq(Seq(X))
  PROVE  FlattenSeq(seqs) \in Seq(X)
<1>1. PICK f \in [0 .. Len(seqs) -> Seq(X)] : Partial(seqs, Len(seqs), f)
  BY PartialExists
<1>2. FlattenSeq(seqs) = f[Len(seqs)]
  BY <1>1, FlattenIsLastPrefix
<1> QED
  BY <1>2

------------------------------------------------------------------------------
(* The parts of a hello.                                                    *)

\* Where the bytes of two parts lie that follow each other.
LEMMA CatFacts ==
  ASSUME NEW s \in Seq(Nat), NEW t \in Seq(Nat)
  PROVE  /\ s \o t \in Seq(Nat) /\ Len(s \o t) = Len(s) + Len(t)
         /\ \A i \in 1 .. Len(s) : (s \o t)[i] = s[i]
         /\ \A i \in 1 .. Len(t) : (s \o t)[Len(s) + i] = t[i]
<1> DEFINE c == s \o t
<1>1. Len(s) \in Nat /\ Len(t) \in Nat
  OBVIOUS
<1>2. /\ c \in Seq(Nat) /\ Len(c) = Len(s) + Len(t)
      /\ \A i \in 1 .. Len(s) + Len(t) : c[i] = IF i <= Len(s) THEN s[i] ELSE t[i - Len(s)]
  BY ConcatProperties
<1> HIDE DEF c
<1>3. ASSUME NEW i \in 1 .. Len(s)
      PROVE  c[i] = s[i]
  BY <1>1, <1>2
<1>4. ASSUME NEW i \in 1 .. Len(t)
      PROVE  c[Len(s) + i] = t[i]
  <2>1. /\ Len(s) + i \in 1 .. Len(s) + Len(t) /\ ~ (Len(s) + i <= Len(s))
        /\ (Len(s) + i) - Len(s) = i
    BY <1>1
  <2> QED
    BY <1>2, <2>1
<1> QED
  BY <1>2, <1>3, <1>4 DEF c

LEMMA U16BytesFacts ==
  ASSUME NEW n \in Nat
  PROVE  /\ U16Bytes(n) \in Seq(Nat) /\ Len(U16Bytes(n)) = 2
         /\ 256 * U16Bytes(n)[1] + U16Bytes(n)[2] = n
<1>1. n \div 256 \in Nat /\ n % 256 \in Nat /\ 256 * (n \div 256) + (n % 256) = n
  OBVIOUS
<1> QED
  BY <1>1 DEF U16Bytes

LEMMA ShortFacts ==
  ASSUME NEW bytes \in Seq(Nat)
  PROVE  /\ Short(bytes) \in Seq(Nat) /\ Len(Short(bytes)) = 1 + Len(bytes)
         /\ Short(bytes)[1] = Len(bytes)
<1> DEFINE first == <<Len(bytes)>>
<1>1. first \in Seq(Nat) /\ Len(first) = 1 /\ first[1] = Len(bytes)
  OBVIOUS
<1> HIDE DEF first
<1> QED
  BY <1>1, ConcatProperties DEF Short, first

LEMMA LongFacts ==
  ASSUME NEW bytes \in Seq(Nat)
  PROVE  /\ Long(bytes) \in Seq(Nat) /\ Len(Long(bytes)) = 2 + Len(bytes)
         /\ 256 * Long(bytes)[1] + Long(bytes)[2] = Len(bytes)
         /\ \A i \in 1 .. Len(bytes) : Long(bytes)[2 + i] = bytes[i]
<1> DEFINE first == U16Bytes(Len(bytes))
<1>1. Len(bytes) \in Nat
  OBVIOUS
<1>2. /\ first \in Seq(Nat) /\ Len(first) = 2
      /\ 256 * first[1] + first[2] = Len(bytes)
  BY <1>1, U16BytesFacts
<1> HIDE DEF first
<1>3. /\ first \o bytes \in Seq(Nat) /\ Len(first \o bytes) = Len(first) + Len(bytes)
      /\ \A i \in 1 .. Len(first) : (first \o bytes)[i] = first[i]
      /\ \A i \in 1 .. Len(bytes) : (first \o bytes)[Len(first) + i] = bytes[i]
  BY ONLY CatFacts, <1>2, bytes \in Seq(Nat)
<1> QED
  BY <1>1, <1>2, <1>3 DEF Long, first

LEMMA WireType ==
  ASSUME NEW values \in Seq(Nat)
  PROVE  Wire(values) \in Seq(Nat)
<1> DEFINE parts == [i \in DOMAIN values |-> U16Bytes(values[i])]
<1>0. \A i \in 1 .. Len(values) : values[i] \in Nat
  OBVIOUS
<1>1. \A i \in 1 .. Len(values) : U16Bytes(values[i]) \in Seq(Nat)
  BY <1>0, U16BytesFacts
<1>2. parts \in Seq(Seq(Nat))
  BY <1>1
<1> HIDE DEF parts
<1> QED
  BY <1>2, FlattenType DEF Wire, parts

LEMMA BodyType ==
  ASSUME NEW e \in Extensions
  PROVE  Body(e) \in Seq(Nat)
<1>1. CASE e.type = ServerName
  <2>1. e.values \in Seq(Nat) /\ <<0>> \in Seq(Nat)
    BY <1>1, OfferAssumption DEF ServerName, ALPN
  <2>2. <<0>> \o Long(e.values) \in Seq(Nat)
    BY <2>1, LongFacts, ConcatProperties
  <2> QED
    BY <1>1, <2>2, LongFacts DEF Body
<1>2. CASE e.type = ALPN
  <2> DEFINE parts == [i \in DOMAIN e.values |-> Short(e.values[i])]
  <2>1. e.values \in Seq(Seq(Nat))
    BY <1>2, OfferAssumption
  <2>2. \A i \in DOMAIN e.values : e.values[i] \in Seq(Nat)
    BY <2>1
  <2>3. \A i \in DOMAIN e.values : Short(e.values[i]) \in Seq(Nat)
    BY <2>2, ShortFacts
  <2>4. parts \in Seq(Seq(Nat))
    <3>1. DOMAIN e.values = 1 .. Len(e.values) /\ Len(e.values) \in Nat
      BY <2>1
    <3> HIDE <2>1
    <3> QED
      BY <2>3, <3>1
  <2> HIDE DEF parts
  <2>5. Long(FlattenSeq(parts)) \in Seq(Nat)
    BY <2>4, FlattenType, LongFacts
  <2> QED
    BY <1>2, <2>5 DEF Body, parts, ServerName, ALPN
<1>3. CASE e.type \notin {ServerName, ALPN}
  <2>1. Wire(e.values) \in Seq(Nat)
    BY <1>3, OfferAssumption, WireType
  <2> QED
    BY <1>3, <2>1, LongFacts, ShortFacts DEF Body
<1> QED
  BY <1>1, <1>2, <1>3

\* An extension as it stands in its block.
Written(e) == U16Bytes(e.type) \o Long(Body(e))

LEMMA WrittenFacts ==
  ASSUME NEW e \in Extensions
  PROVE  /\ Written(e) \in Seq(Nat) /\ Len(Written(e)) = 4 + Len(Body(e))
         /\ 256 * Written(e)[1] + Written(e)[2] = e.type
         /\ 256 * Written(e)[3] + Written(e)[4] = Len(Body(e))
         /\ \A i \in 1 .. Len(Body(e)) : Written(e)[4 + i] = Body(e)[i]
<1> DEFINE t == U16Bytes(e.type)
           v == Long(Body(e))
           m == Len(Body(e))
<1>1. t \in Seq(Nat) /\ Len(t) = 2 /\ 256 * t[1] + t[2] = e.type
  BY OfferAssumption, U16BytesFacts
<1>2. Body(e) \in Seq(Nat) /\ m \in Nat
  BY BodyType
<1>3. /\ v \in Seq(Nat) /\ Len(v) = 2 + m /\ 256 * v[1] + v[2] = m
      /\ \A i \in 1 .. m : v[2 + i] = Body(e)[i]
  BY <1>2, LongFacts
<1> HIDE DEF t, v, m
<1>4. /\ t \o v \in Seq(Nat) /\ Len(t \o v) = Len(t) + Len(v)
      /\ \A i \in 1 .. Len(t) : (t \o v)[i] = t[i]
      /\ \A i \in 1 .. Len(v) : (t \o v)[Len(t) + i] = v[i]
  <2>1. t \in Seq(Nat) /\ v \in Seq(Nat)
    BY <1>1, <1>3
  <2> QED
    BY ONLY CatFacts, <2>1
<1>5. /\ Len(t \o v) = 4 + m
      /\ \A i \in 1 .. 2 : (t \o v)[i] = t[i]
      /\ \A i \in 1 .. 2 + m : (t \o v)[2 + i] = v[i]
  <2> DEFINE x == t \o v
  <2>1. 2 + (2 + m) = 4 + m
    BY ONLY <1>2
  <2>2. /\ Len(x) = Len(t) + Len(v)
        /\ \A i \in 1 .. Len(t) : x[i] = t[i]
        /\ \A i \in 1 .. Len(v) : x[Len(t) + i] = v[i]
    BY <1>4
  <2> HIDE DEF x
  <2>3. Len(t) = 2 /\ Len(v) = 2 + m
    BY <1>1, <1>3
  <2>4. /\ Len(x) = 4 + m
        /\ \A i \in 1 .. 2 : x[i] = t[i]
        /\ \A i \in 1 .. 2 + m : x[2 + i] = v[i]
    BY ONLY <2>1, <2>2, <2>3
  <2> QED
    BY <2>4 DEF x
<1>6. /\ (t \o v)[1] = t[1] /\ (t \o v)[2] = t[2]
      /\ (t \o v)[3] = v[1] /\ (t \o v)[4] = v[2]
  <2>1. /\ 1 \in 1 .. 2 /\ 2 \in 1 .. 2 /\ 1 \in 1 .. 2 + m /\ 2 \in 1 .. 2 + m
        /\ 2 + 1 = 3 /\ 2 + 2 = 4
    BY <1>2
  <2>2. (t \o v)[2 + 1] = v[1] /\ (t \o v)[2 + 2] = v[2]
    BY <1>5, <2>1
  <2> QED
    BY <1>5, <2>1, <2>2
<1>7. ASSUME NEW i \in 1 .. m
      PROVE  (t \o v)[4 + i] = Body(e)[i]
  <2>1. 2 + i \in 1 .. 2 + m /\ 2 + (2 + i) = 4 + i
    BY <1>2
  <2>2. (t \o v)[2 + (2 + i)] = v[2 + i]
    BY <1>5, <2>1
  <2>3. v[2 + i] = Body(e)[i]
    BY <1>3
  <2> QED
    BY <2>1, <2>2, <2>3
<1>8. Written(e) = t \o v /\ Len(Body(e)) = m
  BY DEF Written, t, v, m
<1>9. 256 * (t \o v)[1] + (t \o v)[2] = e.type /\ 256 * (t \o v)[3] + (t \o v)[4] = m
  BY <1>1, <1>3, <1>6
<1>10. \A i \in 1 .. m : (t \o v)[4 + i] = Body(e)[i]
  BY <1>7
<1> QED
  BY <1>4, <1>5, <1>8, <1>9, <1>10

\* The parts that Block flattens.
Parts(exts) == [i \in 1 .. Len(exts) |-> Written(exts[i])]

LEMMA BlockIsFlattened ==
  ASSUME NEW exts \in Seq(Extensions)
  PROVE  /\ Parts(exts) \in Seq(Seq(Nat)) /\ Len(Parts(exts)) = Len(exts)
         /\ Block(exts) = FlattenSeq(Parts(exts))
         /\ Block(exts) \in Seq(Nat)
<1>1. \A i \in 1 .. Len(exts) : Written(exts[i]) \in Seq(Nat)
  BY WrittenFacts
<1>2. Parts(exts) \in Seq(Seq(Nat)) /\ Len(Parts(exts)) = Len(exts)
  BY <1>1 DEF Parts
<1>3. Block(exts) = FlattenSeq(Parts(exts))
  BY Zenon, LenProperties DEF Block, Parts, Written
<1> QED
  BY <1>2, <1>3, FlattenType

------------------------------------------------------------------------------
(* Where the parts lie up to the compression methods.                       *)

Offers == [legacy : Nat, session : Seq(Nat), ciphers : Seq(Nat), extensions : Seq(Extensions)]

\* A header with s bytes of session and w of cipher suites.
IsHeader(u, s, w) ==
  /\ s \in Nat /\ w \in Nat
  /\ u \in Seq(Nat) /\ Len(u) = 16 + RandomBytes + s + w
  /\ u[1] = 22 /\ u[6] = 1
  /\ u[12 + RandomBytes] = s
  /\ 256 * u[13 + RandomBytes + s] + u[14 + RandomBytes + s] = w
  /\ u[15 + RandomBytes + s + w] = 1

LEMMA HeaderFacts ==
  ASSUME NEW o \in Offers
  PROVE  IsHeader(UpToCompression(o), Len(o.session), Len(Wire(o.ciphers)))
<1> DEFINE s == Len(o.session)
           w == Len(Wire(o.ciphers))
           u == UpToCompression(o)
<1> DEFINE r  == RandomBytes
           p1 == <<22, 3, 1, 0, 0, 1, 0, 0, 0>>
           p2 == U16Bytes(o.legacy)
           p3 == [i \in 1 .. RandomBytes |-> 7]
           p4 == Short(o.session)
           p5 == Long(Wire(o.ciphers))
           p6 == Short(<<0>>)
           u2 == p1 \o p2
           u3 == u2 \o p3
           u4 == u3 \o p4
           u5 == u4 \o p5
           u6 == u5 \o p6
<1>1. u = u6
  BY DEF UpToCompression
<1>2. r \in Nat /\ s \in Nat /\ w \in Nat /\ Wire(o.ciphers) \in Seq(Nat)
  BY RandomAssumption, WireType DEF Offers
<1>3. p1 \in Seq(Nat) /\ Len(p1) = 9 /\ p1[1] = 22 /\ p1[6] = 1
  OBVIOUS
<1>4. p2 \in Seq(Nat) /\ Len(p2) = 2
  BY U16BytesFacts DEF Offers
<1>5. p3 \in Seq(Nat) /\ Len(p3) = r
  BY RandomAssumption
<1>6. p4 \in Seq(Nat) /\ Len(p4) = 1 + s /\ p4[1] = s
  BY ShortFacts DEF Offers
<1>7. p5 \in Seq(Nat) /\ Len(p5) = 2 + w /\ 256 * p5[1] + p5[2] = w
  BY <1>2, LongFacts
<1>8. p6 \in Seq(Nat) /\ Len(p6) = 2 /\ p6[1] = 1
  <2> DEFINE zero == <<0>>
  <2>1. zero \in Seq(Nat) /\ Len(zero) = 1
    OBVIOUS
  <2> HIDE DEF zero
  <2>2. /\ Short(zero) \in Seq(Nat) /\ Len(Short(zero)) = 1 + Len(zero)
        /\ Short(zero)[1] = Len(zero)
    BY ONLY <2>1, ShortFacts
  <2>3. p6 = Short(zero)
    BY DEF zero
  <2> HIDE DEF p6
  <2> QED
    BY <2>1, <2>2, <2>3
<1> HIDE DEF p1, p2, p3, p4, p5, p6, r, s, w, u
<1>9. /\ u2 \in Seq(Nat) /\ Len(u2) = Len(p1) + Len(p2)
      /\ \A i \in 1 .. Len(p1) : u2[i] = p1[i]
  BY ONLY <1>3, <1>4, CatFacts, ZenonT(30)
<1>10. Len(u2) = 11 /\ u2[1] = 22 /\ u2[6] = 1
  <2>1. 1 \in 1 .. Len(p1) /\ 6 \in 1 .. Len(p1) /\ Len(p1) + Len(p2) = 11
    BY ONLY <1>3, <1>4
  <2> QED
    BY ONLY <1>3, <1>9, <2>1
<1> HIDE DEF u2
<1>11. /\ u3 \in Seq(Nat) /\ Len(u3) = Len(u2) + Len(p3)
       /\ \A i \in 1 .. Len(u2) : u3[i] = u2[i]
  BY ONLY <1>9, <1>5, CatFacts
<1>12. Len(u3) = 11 + r /\ u3[1] = 22 /\ u3[6] = 1
  BY <1>5, <1>10, <1>11
<1> HIDE DEF u3
<1>13. /\ u4 \in Seq(Nat) /\ Len(u4) = Len(u3) + Len(p4)
       /\ \A i \in 1 .. Len(u3) : u4[i] = u3[i]
       /\ \A i \in 1 .. Len(p4) : u4[Len(u3) + i] = p4[i]
  BY ONLY <1>11, <1>6, CatFacts
<1>14. Len(u4) = 12 + r + s /\ u4[1] = 22 /\ u4[6] = 1 /\ u4[12 + r] = s
  <2>0. Len(u4) = 12 + r + s
    BY ONLY <1>2, <1>6, <1>12, <1>13
  <2>1. 1 \in 1 .. Len(p4) /\ Len(u3) + 1 = 12 + r
    BY ONLY <1>2, <1>6, <1>12
  <2>2. u4[Len(u3) + 1] = p4[1]
    BY ONLY <1>13, <2>1
  <2>3. 1 \in 1 .. Len(u3) /\ 6 \in 1 .. Len(u3)
    BY ONLY <1>2, <1>12
  <2> QED
    BY ONLY <1>6, <1>12, <1>13, <2>0, <2>1, <2>2, <2>3
<1> HIDE DEF u4
<1>15. /\ u5 \in Seq(Nat) /\ Len(u5) = Len(u4) + Len(p5)
       /\ \A i \in 1 .. Len(u4) : u5[i] = u4[i]
       /\ \A i \in 1 .. Len(p5) : u5[Len(u4) + i] = p5[i]
  BY ONLY <1>13, <1>7, CatFacts
<1>16. /\ Len(u5) = 14 + r + s + w
       /\ u5[1] = 22 /\ u5[6] = 1 /\ u5[12 + r] = s
       /\ 256 * u5[13 + r + s] + u5[14 + r + s] = w
  <2>0. Len(u5) = 14 + r + s + w
    BY ONLY <1>2, <1>7, <1>14, <1>15
  <2>1. /\ 1 \in 1 .. Len(p5) /\ Len(u4) + 1 = 13 + r + s
        /\ 2 \in 1 .. Len(p5) /\ Len(u4) + 2 = 14 + r + s
    BY ONLY <1>2, <1>7, <1>14
  <2>2. u5[Len(u4) + 1] = p5[1] /\ u5[Len(u4) + 2] = p5[2]
    BY ONLY <1>15, <2>1
  <2>3. u5[13 + r + s] = p5[1] /\ u5[14 + r + s] = p5[2]
    BY ONLY <2>1, <2>2
  <2>4. 1 \in 1 .. Len(u4) /\ 6 \in 1 .. Len(u4) /\ 12 + r \in 1 .. Len(u4)
    BY ONLY <1>2, <1>14
  <2> QED
    BY ONLY <1>7, <1>14, <1>15, <2>0, <2>3, <2>4
<1> HIDE DEF u5
<1>17. /\ u6 \in Seq(Nat) /\ Len(u6) = Len(u5) + Len(p6)
       /\ \A i \in 1 .. Len(u5) : u6[i] = u5[i]
       /\ \A i \in 1 .. Len(p6) : u6[Len(u5) + i] = p6[i]
  BY ONLY <1>15, <1>8, CatFacts
<1>18. u6[15 + r + s + w] = 1
  <2>1. 1 \in 1 .. Len(p6) /\ Len(u5) + 1 = 15 + r + s + w
    BY ONLY <1>2, <1>8, <1>16
  <2>2. u6[Len(u5) + 1] = p6[1]
    BY ONLY <1>17, <2>1
  <2> QED
    BY ONLY <1>8, <2>1, <2>2
<1>19. /\ u6[1] = 22 /\ u6[6] = 1 /\ u6[12 + r] = s
       /\ u6[13 + r + s] = u5[13 + r + s] /\ u6[14 + r + s] = u5[14 + r + s]
  <2>1. /\ 1 \in 1 .. Len(u5) /\ 6 \in 1 .. Len(u5) /\ 12 + r \in 1 .. Len(u5)
        /\ 13 + r + s \in 1 .. Len(u5) /\ 14 + r + s \in 1 .. Len(u5)
    BY ONLY <1>2, <1>16
  <2> QED
    BY ONLY <1>16, <1>17, <2>1
<1>20. Len(u6) = 16 + r + s + w
  BY ONLY <1>2, <1>8, <1>16, <1>17
<1> HIDE DEF u6
<1>21. IsHeader(u, s, w)
  BY <1>1, <1>2, <1>16, <1>17, <1>18, <1>19, <1>20 DEF IsHeader, r
<1> QED
  BY <1>21 DEF u, s, w

\* The values among some bytes depend on those bytes only.
LEMMA SameValues ==
  ASSUME NEW b, NEW c, NEW from \in Nat, NEW last \in Nat,
         \A i \in from .. last : b[i] = c[i]
  PROVE  U16s(b, from, last) = U16s(c, from, last)
<1> DEFINE n == (last + 1 - from) \div 2
<1>1. ASSUME NEW i \in 1 .. n
      PROVE  U16(b, from + 2 * (i - 1)) = U16(c, from + 2 * (i - 1))
  <2>1. n \in Int /\ 2 * n <= last + 1 - from
    OBVIOUS
  <2> HIDE DEF n
  <2>2. from + 2 * (i - 1) \in from .. last /\ from + 2 * (i - 1) + 1 \in from .. last
    BY <2>1
  <2> QED
    BY <2>2 DEF U16
<1>2. [i \in 1 .. n |-> U16(b, from + 2 * (i - 1))] = [i \in 1 .. n |-> U16(c, from + 2 * (i - 1))]
  BY <1>1, Zenon
<1> HIDE DEF n
<1>3. n = (last + 1 - from) \div 2
  BY DEF n
<1> QED
  BY ONLY <1>2, <1>3, Zenon DEF U16s

\* A record that begins like an offer, as far as it goes, has its cipher suites if it
\* goes to the end of the compression methods, and then they are those of the offer.
LEMMA HeaderIsRead ==
  ASSUME NEW u, NEW s, NEW w, IsHeader(u, s, w),
         NEW b \in Seq(Nat), \A i \in 1 .. Len(u) : i <= Len(b) => b[i] = u[i]
  PROVE  /\ HasCiphers(b) <=> Len(b) >= Len(u)
         /\ Len(b) >= Len(u) =>
              /\ CiphersAt(b) = 13 + RandomBytes + s
              /\ CompressionAt(b) = 15 + RandomBytes + s + w
              /\ ExtensionsAt(b) = Len(u) + 1
              /\ U16(b, 10) = U16(u, 10)
              /\ U16s(b, CiphersAt(b) + 2, CompressionAt(b) - 1)
                 = U16s(u, 15 + RandomBytes + s, 14 + RandomBytes + s + w)
<1> DEFINE r == RandomBytes
           n == Len(b)
           c1 == 13 + r + s
           c2 == 15 + r + s + w
<1>1. /\ r \in Nat /\ s \in Nat /\ w \in Nat /\ n \in Nat
      /\ Len(u) = 16 + r + s + w
      /\ u[1] = 22 /\ u[6] = 1 /\ u[12 + r] = s
      /\ 256 * u[c1] + u[14 + r + s] = w /\ u[c2] = 1
  BY RandomAssumption DEF IsHeader
<1>2. \A i \in 1 .. Len(u) : i <= n => b[i] = u[i]
  OBVIOUS
<1>3. HasCiphers(b) <=>
        /\ n >= 9 /\ b[1] = 22 /\ b[6] = 1 /\ 12 + r <= n
        /\ CiphersAt(b) + 1 <= n /\ CompressionAt(b) <= n /\ ExtensionsAt(b) - 1 <= n
  BY DEF HasCiphers, SessionAt
<1>4. /\ CiphersAt(b) = 12 + r + 1 + b[12 + r]
      /\ CompressionAt(b) = CiphersAt(b) + 2 + (256 * b[CiphersAt(b)] + b[CiphersAt(b) + 1])
      /\ ExtensionsAt(b) = CompressionAt(b) + 1 + b[CompressionAt(b)]
  BY DEF CiphersAt, CompressionAt, ExtensionsAt, SessionAt, U16
<1>5. n >= 9 => b[1] = 22 /\ b[6] = 1
  <2>1. n \in Nat /\ 1 \in 1 .. Len(u) /\ 6 \in 1 .. Len(u)
    BY ONLY <1>1
  <2>2. u[1] = 22 /\ u[6] = 1
    BY ONLY <1>1
  <2> HIDE DEF n
  <2>3. n >= 9 => 1 <= n /\ 6 <= n
    BY ONLY <2>1
  <2> QED
    BY ONLY <1>2, <2>1, <2>2, <2>3
<1>6. 12 + r <= n => CiphersAt(b) = c1
  <2> SUFFICES ASSUME 12 + r <= n
               PROVE  CiphersAt(b) = c1
    OBVIOUS
  <2>1. b[12 + r] = s
    <3>1. 12 + r \in 1 .. Len(u)
      BY ONLY <1>1
    <3> QED
      BY ONLY <1>1, <1>2, <3>1, 12 + r <= n
  <2> QED
    BY ONLY <1>1, <1>4, <2>1
<1>7. c1 + 1 <= n /\ CiphersAt(b) = c1 => CompressionAt(b) = c2
  <2> SUFFICES ASSUME c1 + 1 <= n, CiphersAt(b) = c1
               PROVE  CompressionAt(b) = c2
    OBVIOUS
  <2>1. c1 \in 1 .. Len(u) /\ c1 <= n /\ c1 + 1 \in 1 .. Len(u) /\ c1 + 1 = 14 + r + s
    BY ONLY <1>1, c1 + 1 <= n
  <2>2. b[c1] = u[c1] /\ b[c1 + 1] = u[14 + r + s]
    BY ONLY <1>2, <2>1, c1 + 1 <= n
  <2>3. 256 * b[c1] + b[c1 + 1] = w
    BY ONLY <1>1, <2>2
  <2>4. CompressionAt(b) = c1 + 2 + w
    BY ONLY <1>4, <2>3, CiphersAt(b) = c1
  <2> QED
    BY ONLY <1>1, <2>4
<1>8. c2 <= n /\ CompressionAt(b) = c2 => ExtensionsAt(b) = Len(u) + 1
  <2> SUFFICES ASSUME c2 <= n, CompressionAt(b) = c2
               PROVE  ExtensionsAt(b) = Len(u) + 1
    OBVIOUS
  <2>1. c2 \in 1 .. Len(u)
    BY ONLY <1>1
  <2>2. b[c2] = 1
    <3>1. u[c2] = 1
      BY ONLY <1>1
    <3> HIDE DEF c2, n
    <3> QED
      BY ONLY <1>2, <2>1, <3>1, c2 <= n
  <2>3. ExtensionsAt(b) = c2 + 1 + 1
    BY ONLY <1>4, <2>2, CompressionAt(b) = c2
  <2> QED
    BY ONLY <1>1, <2>3
<1>9. HasCiphers(b) => n >= Len(u)
  BY ONLY <1>1, <1>3, <1>6, <1>7, <1>8
<1>10. ASSUME n >= Len(u)
       PROVE  CiphersAt(b) = c1 /\ CompressionAt(b) = c2 /\ ExtensionsAt(b) = Len(u) + 1
  <2>1. 12 + r <= Len(u) /\ c1 + 1 <= Len(u) /\ c2 <= Len(u)
    BY ONLY <1>1
  <2>2. n \in Nat /\ Len(u) \in Nat /\ r \in Nat /\ c1 \in Nat /\ c2 \in Nat
    BY ONLY <1>1
  <2> HIDE DEF n, r, c1, c2
  <2>3. 12 + r <= n /\ c1 + 1 <= n /\ c2 <= n
    BY ONLY <1>10, <2>1, <2>2
  <2> QED
    BY ONLY <1>6, <1>7, <1>8, <2>3
<1>11. n >= Len(u) => HasCiphers(b)
  <2> SUFFICES ASSUME n >= Len(u)
               PROVE  HasCiphers(b)
    OBVIOUS
  <2>0. /\ Len(u) \in Nat /\ 9 <= Len(u) /\ 12 + r <= Len(u) /\ c1 + 1 <= Len(u)
        /\ c2 <= Len(u) /\ (Len(u) + 1) - 1 = Len(u)
        /\ r \in Nat /\ c1 \in Nat /\ c2 \in Nat /\ n \in Nat
    BY ONLY <1>1
  <2>1. /\ n >= 9 /\ 12 + r <= n /\ c1 + 1 <= n /\ c2 <= n /\ (Len(u) + 1) - 1 <= n
    <3> HIDE DEF c1, c2, n, r
    <3> QED
      BY ONLY <2>0, n >= Len(u)
  <2> HIDE DEF c1, c2
  <2> QED
    BY ONLY <1>3, <1>5, <1>10, <2>1, n >= Len(u)
<1>12. ASSUME n >= Len(u)
       PROVE  /\ U16(b, 10) = U16(u, 10)
              /\ U16s(b, c1 + 2, c2 - 1) = U16s(u, 15 + r + s, 14 + r + s + w)
  <2>1. /\ 10 \in 1 .. Len(u) /\ 11 \in 1 .. Len(u) /\ 10 <= n /\ 11 <= n
        /\ c1 + 2 = 15 + r + s /\ c2 - 1 = 14 + r + s + w
        /\ c1 + 2 \in Nat /\ c2 - 1 \in Nat
    <3>1. 10 <= Len(u) /\ 11 <= Len(u) /\ Len(u) \in Nat
      BY ONLY <1>1
    <3>2. c1 + 2 = 15 + r + s /\ c1 + 2 \in Nat
      BY ONLY <1>1
    <3>3. c2 - 1 = 14 + r + s + w /\ c2 - 1 \in Nat
      BY ONLY <1>1
    <3>4. 10 <= n /\ 11 <= n
      <4>1. n \in Nat /\ n >= Len(u)
        BY ONLY <1>1, <1>12
      <4> HIDE DEF n
      <4> QED
        BY ONLY <3>1, <4>1
    <3>5. 10 \in 1 .. Len(u) /\ 11 \in 1 .. Len(u)
      BY ONLY <3>1
    <3> QED
      BY ONLY <3>2, <3>3, <3>4, <3>5
  <2>2. ASSUME NEW i \in c1 + 2 .. c2 - 1
        PROVE  b[i] = u[i]
    <3>1. i \in 1 .. Len(u)
      BY ONLY <1>1, <2>2
    <3> QED
      BY ONLY <1>1, <1>2, <1>12, <3>1
  <2>3. U16s(b, c1 + 2, c2 - 1) = U16s(u, c1 + 2, c2 - 1)
    <3> DEFINE from == c1 + 2
               last == c2 - 1
    <3>1. from \in Nat /\ last \in Nat /\ \A i \in from .. last : b[i] = u[i]
      BY ONLY <2>1, <2>2
    <3> HIDE DEF from, last
    <3>2. U16s(b, from, last) = U16s(u, from, last)
      BY ONLY <3>1, SameValues
    <3> QED
      BY ONLY <3>2 DEF from, last
  <2>4. U16(b, 10) = U16(u, 10)
    <3>1. b[10] = u[10] /\ b[11] = u[11]
      BY ONLY <1>2, <2>1
    <3> QED
      BY ONLY <3>1 DEF U16
  <2> HIDE DEF c1, c2
  <2> QED
    BY <2>1, <2>3, <2>4
<1> QED
  BY <1>9, <1>10, <1>11, <1>12

\* What such a record is parsed as.  The header gives all but the extensions.
Parsed(u, s, w, exts) ==
  Hello(U16(u, 10), U16s(u, 15 + RandomBytes + s, 14 + RandomBytes + s + w), exts)

\* Where the block of the extensions ends, by its own length.
BlockEnd(u, b) == Len(u) + 2 + U16(b, Len(u) + 1)

LEMMA ParseFacts ==
  ASSUME NEW u, NEW s, NEW w, IsHeader(u, s, w),
         NEW b \in Seq(Nat), \A i \in 1 .. Len(u) : i <= Len(b) => b[i] = u[i]
  PROVE  /\ ~ (Len(b) >= Len(u)) => ParseClientHello(b) = NotClientHello
         /\ Len(b) >= Len(u) /\ Len(u) + 2 > Len(b) =>
              ParseClientHello(b) = Parsed(u, s, w, <<>>)
         /\ Len(b) >= Len(u) + 2 =>
              ParseClientHello(b) =
                IF BlockEnd(u, b) > Len(b) THEN NotClientHello
                ELSE Parsed(u, s, w, ExtensionsIn(b, Len(u) + 3, BlockEnd(u, b)))
<1> DEFINE n  == Len(b)
           cs == U16s(u, 15 + RandomBytes + s, 14 + RandomBytes + s + w)
           mine == U16s(b, CiphersAt(b) + 2, CompressionAt(b) - 1)
<1>1. n \in Nat /\ Len(u) \in Nat
  BY DEF IsHeader
<1>2. /\ HasCiphers(b) <=> n >= Len(u)
      /\ n >= Len(u) => ExtensionsAt(b) = Len(u) + 1 /\ U16(b, 10) = U16(u, 10) /\ mine = cs
  BY HeaderIsRead
<1>3. ParseClientHello(b) =
        IF ~ HasCiphers(b) THEN NotClientHello
        ELSE IF ExtensionsAt(b) + 1 > n THEN Hello(U16(b, 10), mine, <<>>)
        ELSE IF ExtensionsEnd(b) > n THEN NotClientHello
        ELSE Hello(U16(b, 10), mine, ExtensionsIn(b, ExtensionsAt(b) + 2, ExtensionsEnd(b)))
  BY Zenon DEF ParseClientHello
<1>4. \A exts : Parsed(u, s, w, exts) = Hello(U16(u, 10), cs, exts)
  BY Zenon DEF Parsed
<1> HIDE DEF mine, cs
<1>5. ~ (n >= Len(u)) => ParseClientHello(b) = NotClientHello
  BY <1>2, <1>3
<1>6. ASSUME n >= Len(u), Len(u) + 2 > n
      PROVE  ParseClientHello(b) = Parsed(u, s, w, <<>>)
  <2>1. ExtensionsAt(b) + 1 > n
    BY <1>1, <1>2, <1>6
  <2> QED
    BY <1>2, <1>3, <1>4, <1>6, <2>1
<1>7. ASSUME n >= Len(u) + 2
      PROVE  ParseClientHello(b) =
               IF BlockEnd(u, b) > n THEN NotClientHello
               ELSE Parsed(u, s, w, ExtensionsIn(b, Len(u) + 3, BlockEnd(u, b)))
  <2>1. n >= Len(u)
    BY <1>1, <1>7
  <2>2. ExtensionsAt(b) = Len(u) + 1
    BY <1>2, <2>1
  <2>3. /\ ~ (ExtensionsAt(b) + 1 > n) /\ ExtensionsAt(b) + 2 = Len(u) + 3
        /\ ExtensionsAt(b) + 1 = Len(u) + 2
    BY <1>1, <1>7, <2>2
  <2>4. ExtensionsEnd(b) = BlockEnd(u, b)
    BY <2>2, <2>3 DEF ExtensionsEnd, BlockEnd
  <2> QED
    BY <1>2, <1>3, <1>4, <2>1, <2>3, <2>4
<1> QED
  BY <1>5, <1>6, <1>7

\* A header, and a block behind it.
Carries(e, u, block) ==
  /\ e \in Seq(Nat) /\ Len(e) = Len(u) + 2 + Len(block)
  /\ \A i \in 1 .. Len(u) : e[i] = u[i]
  /\ U16(e, Len(u) + 1) = Len(block)
  /\ \A i \in 1 .. Len(block) : e[Len(u) + 2 + i] = block[i]

LEMMA BehindHeader ==
  ASSUME NEW u, NEW s, NEW w, IsHeader(u, s, w), NEW block \in Seq(Nat), NEW e,
         e = u \o Long(block)
  PROVE  Carries(e, u, block)
<1> DEFINE v == Long(block)
           k == Len(u)
           m == Len(block)
<1>1. u \in Seq(Nat) /\ k \in Nat /\ m \in Nat
  BY DEF IsHeader
<1>2. /\ v \in Seq(Nat) /\ Len(v) = 2 + m /\ 256 * v[1] + v[2] = m
      /\ \A i \in 1 .. m : v[2 + i] = block[i]
  BY LongFacts
<1> HIDE DEF v
<1>3. /\ u \o v \in Seq(Nat) /\ Len(u \o v) = Len(u) + Len(v)
      /\ \A i \in 1 .. Len(u) : (u \o v)[i] = u[i]
      /\ \A i \in 1 .. Len(v) : (u \o v)[Len(u) + i] = v[i]
  BY ONLY <1>1, <1>2, CatFacts
<1>4. e = u \o v
  BY DEF v
<1> HIDE DEF m, k
<1>5. /\ e \in Seq(Nat) /\ Len(e) = k + 2 + m
      /\ \A i \in 1 .. k : e[i] = u[i]
      /\ \A i \in 1 .. 2 + m : e[k + i] = v[i]
  <2>1. Len(u) = k
    BY DEF k
  <2> QED
    <3>1. Len(e) = k + (2 + m)
      BY ONLY <1>2, <1>3, <1>4, <2>1
    <3>2. k + (2 + m) = k + 2 + m
      BY ONLY <1>1
    <3>3. \A i \in 1 .. k : e[i] = u[i]
      BY ONLY <1>3, <1>4, <2>1
    <3>4. \A i \in 1 .. 2 + m : e[k + i] = v[i]
      BY ONLY <1>2, <1>3, <1>4, <2>1
    <3> QED
      BY ONLY <1>3, <1>4, <3>1, <3>2, <3>3, <3>4
<1>6. U16(e, k + 1) = m
  <2>1. 1 \in 1 .. 2 + m /\ 2 \in 1 .. 2 + m /\ (k + 1) + 1 = k + 2
    BY ONLY <1>1
  <2>2. e[k + 1] = v[1] /\ e[(k + 1) + 1] = v[2]
    BY ONLY <1>5, <2>1
  <2> QED
    BY ONLY <1>2, <2>2 DEF U16
<1>7. ASSUME NEW i \in 1 .. m
      PROVE  e[k + 2 + i] = block[i]
  <2>1. 2 + i \in 1 .. 2 + m /\ k + (2 + i) = k + 2 + i
    BY ONLY <1>1, <1>7
  <2>2. e[k + (2 + i)] = v[2 + i]
    BY ONLY <1>5, <2>1
  <2> QED
    BY ONLY <1>2, <1>7, <2>1, <2>2
<1> QED
  BY <1>5, <1>6, <1>7 DEF Carries, k, m

------------------------------------------------------------------------------
(* A hello that is cut.                                                     *)

LEMMA CutIsRefused ==
  ASSUME NEW u, NEW s, NEW w, IsHeader(u, s, w), NEW block \in Seq(Nat), NEW e,
         e = u \o Long(block), NEW n \in 0 .. Len(e) - 1, NEW b, b = SubSeq(e, 1, n)
  PROVE  IF n \in {Len(u), Len(u) + 1} THEN ParseClientHello(b) = Parsed(u, s, w, <<>>)
         ELSE ParseClientHello(b) = NotClientHello
<1> DEFINE k == Len(u)
           m == Len(block)
<1>1. k \in Nat /\ m \in Nat
  BY DEF IsHeader
<1>2. /\ e \in Seq(Nat) /\ Len(e) = k + 2 + m
      /\ \A i \in 1 .. k : e[i] = u[i]
      /\ U16(e, k + 1) = m
  <2>1. Carries(e, u, block)
    BY BehindHeader
  <2> QED
    BY <2>1 DEF Carries
<1>3. n \in Nat /\ n < k + 2 + m
  BY <1>1, <1>2
<1>4. /\ b \in Seq(Nat) /\ Len(b) = n
      /\ \A i \in 1 .. n : b[i] = e[i]
  <2>1. ASSUME NEW i \in 1 .. n
        PROVE  e[i] \in Nat
    <3>1. i \in 1 .. Len(e)
      <4> DEFINE l == Len(e)
      <4>1. n < l /\ l \in Nat
        BY <1>1, <1>2, <1>3
      <4> HIDE DEF l
      <4>2. i \in 1 .. l
        BY ONLY <1>3, <4>1, i \in 1 .. n
      <4> QED
        BY <4>2 DEF l
    <3> HIDE DEF k, m
    <3> QED
      BY ONLY <1>2, <3>1
  <2> QED
    BY <1>3, <2>1, SubSeqProperties
<1>5. \A i \in 1 .. k : i <= Len(b) => b[i] = u[i]
  BY <1>1, <1>2, <1>3, <1>4
<1>6. /\ ~ (Len(b) >= Len(u)) => ParseClientHello(b) = NotClientHello
      /\ Len(b) >= Len(u) /\ Len(u) + 2 > Len(b) =>
           ParseClientHello(b) = Parsed(u, s, w, <<>>)
      /\ Len(b) >= Len(u) + 2 =>
           ParseClientHello(b) =
             IF BlockEnd(u, b) > Len(b) THEN NotClientHello
             ELSE Parsed(u, s, w, ExtensionsIn(b, Len(u) + 3, BlockEnd(u, b)))
  BY <1>4, <1>5, ParseFacts, Zenon
<1>7. CASE n < k
  BY <1>1, <1>3, <1>4, <1>6, <1>7
<1>8. CASE n \in {k, k + 1}
  BY <1>1, <1>3, <1>4, <1>6, <1>8
<1>9. CASE n >= k + 2
  <2>1. b[k + 1] = e[k + 1] /\ b[(k + 1) + 1] = e[(k + 1) + 1]
    <3>1. k + 1 \in 1 .. n /\ (k + 1) + 1 \in 1 .. n
      BY ONLY <1>1, <1>3, <1>9
    <3> QED
      BY ONLY <1>4, <3>1
  <2>2. U16(b, k + 1) = m
    BY <1>2, <2>1 DEF U16
  <2>3. BlockEnd(u, b) = k + 2 + m
    BY <2>2 DEF BlockEnd
  <2>4. BlockEnd(u, b) > Len(b)
    BY <1>1, <1>3, <1>4, <2>3
  <2>5. n \notin {k, k + 1}
    BY <1>1, <1>3, <1>9
  <2>6. ParseClientHello(b) = NotClientHello
    BY <1>4, <1>6, <1>9, <2>4
  <2> QED
    BY <2>5, <2>6
<1> QED
  BY <1>1, <1>3, <1>7, <1>8, <1>9

\* A hello that is complete.
LEMMA WholeIsRead ==
  ASSUME NEW u, NEW s, NEW w, IsHeader(u, s, w), NEW block \in Seq(Nat), NEW e,
         e = u \o Long(block)
  PROVE  ParseClientHello(e)
         = Parsed(u, s, w, ExtensionsIn(e, Len(u) + 3, Len(u) + 2 + Len(block)))
<1> DEFINE k == Len(u)
           m == Len(block)
<1>1. k \in Nat /\ m \in Nat
  BY DEF IsHeader
<1>2. /\ e \in Seq(Nat) /\ Len(e) = k + 2 + m
      /\ \A i \in 1 .. k : e[i] = u[i]
      /\ U16(e, k + 1) = m
  <2>1. Carries(e, u, block)
    BY BehindHeader
  <2> QED
    BY <2>1 DEF Carries
<1>3. Len(e) >= Len(u) + 2 =>
        ParseClientHello(e) =
          IF BlockEnd(u, e) > Len(e) THEN NotClientHello
          ELSE Parsed(u, s, w, ExtensionsIn(e, Len(u) + 3, BlockEnd(u, e)))
  <2>1. \A i \in 1 .. Len(u) : i <= Len(e) => e[i] = u[i]
    BY <1>2
  <2> QED
    BY <1>2, <2>1, ParseFacts, Zenon
<1>4. BlockEnd(u, e) = k + 2 + m
  BY <1>2 DEF BlockEnd
<1>5. Len(e) >= Len(u) + 2 /\ ~ (BlockEnd(u, e) > Len(e))
  BY <1>1, <1>2, <1>4
<1> QED
  BY <1>3, <1>4, <1>5

\* What is offered is always an offer, and what was read is what was sent.
OfferInv ==
  /\ offer \in Offers
  /\ ch = ParseClientHello(Encode(offer))

LEMMA SwappedType ==
  ASSUME NEW S, NEW q \in Seq(S), NEW i \in DOMAIN q
  PROVE  Swapped(q, i) \in Seq(S)
<1>1. i \in 1 .. Len(q) /\ 1 \in 1 .. Len(q)
  OBVIOUS
<1>2. q[i] \in S /\ q[1] \in S
  BY <1>1
<1>3. [q EXCEPT ![1] = q[i]] \in Seq(S) /\ Len([q EXCEPT ![1] = q[i]]) = Len(q)
  BY <1>1, <1>2, ExceptSeq
<1> DEFINE p == [q EXCEPT ![1] = q[i]]
<1>4. [p EXCEPT ![i] = q[1]] \in Seq(S)
  <2> HIDE DEF p
  <2> QED
    BY <1>1, <1>2, <1>3, ExceptSeq DEF p
<1> QED
  BY <1>4 DEF Swapped

LEMMA OfferTyping == Spec => []OfferInv
<1>1. Init => OfferInv
  <2> SUFFICES ASSUME Init
               PROVE  offer \in Offers
    BY DEF Init, OfferInv
  <2>1. <<>> \in Seq(Nat) /\ <<7, 7>> \in Seq(Nat) /\ <<>> \in Seq(Extensions)
    OBVIOUS
  <2>2. offer \in [ legacy : Versions, session : {<<>>, <<7, 7>>},
                   ciphers : {<<>>}, extensions : {<<>>} ]
    BY DEF Init
  <2> QED
    BY <2>1, <2>2, OfferAssumption DEF Offers
<1>2. OfferInv /\ [Next]_vars => OfferInv'
  <2> SUFFICES ASSUME OfferInv, [Next]_vars
               PROVE  OfferInv'
    OBVIOUS
  <2>1. ASSUME NEW o \in Offers, Received(o)
        PROVE  OfferInv'
    BY <2>1 DEF Received, OfferInv
  <2>2. /\ offer.ciphers \in Seq(Nat) /\ offer.extensions \in Seq(Extensions)
        /\ \A q \in Seq(Nat) : [offer EXCEPT !.ciphers = q] \in Offers
        /\ \A q \in Seq(Extensions) : [offer EXCEPT !.extensions = q] \in Offers
    BY DEF OfferInv, Offers
  <2>3. ASSUME NEW c \in Ciphers, OfferCipher(c)
        PROVE  OfferInv'
    <3>1. Append(offer.ciphers, c) \in Seq(Nat)
      BY <2>2, OfferAssumption
    <3> QED
      BY <2>1, <2>2, <2>3, <3>1 DEF OfferCipher
  <2>4. ASSUME NEW e \in Extensions, OfferExtension(e)
        PROVE  OfferInv'
    <3>1. Append(offer.extensions, e) \in Seq(Extensions)
      BY <2>2
    <3> QED
      BY <2>1, <2>2, <2>4, <3>1 DEF OfferExtension
  <2>5. CASE Shuffle
    <3>1. \A i \in DOMAIN offer.ciphers : Swapped(offer.ciphers, i) \in Seq(Nat)
      BY <2>2, SwappedType
    <3>2. \A i \in DOMAIN offer.extensions : Swapped(offer.extensions, i) \in Seq(Extensions)
      BY <2>2, SwappedType
    <3> QED
      BY <2>1, <2>2, <2>5, <3>1, <3>2 DEF Shuffle
  <2>6. CASE UNCHANGED vars
    BY <2>6 DEF vars, OfferInv
  <2> QED
    BY <2>3, <2>4, <2>5, <2>6 DEF Next
<1> QED
  BY <1>1, <1>2, PTL DEF Spec

\* A record that ends before the hello does is refused, except right behind the
\* compression methods, wherever they are (ja4.go:84-87, 142-147).
THEOREM CutHellosFailClosed == Spec => []CutHelloFailsClosed
<1>1. OfferInv => CutHelloFailsClosed
  <2> SUFFICES ASSUME OfferInv, NEW n \in 0 .. Len(Encode(offer)) - 1
               PROVE  LET cut  == ParseClientHello(SubSeq(Encode(offer), 1, n))
                          bare == Len(UpToCompression(offer))
                      IN IF n \in {bare, bare + 1} THEN cut = [ch EXCEPT !.extensions = <<>>]
                         ELSE cut = NotClientHello
    BY Zenon DEF CutHelloFailsClosed
  <2> DEFINE u == UpToCompression(offer)
             s == Len(offer.session)
             w == Len(Wire(offer.ciphers))
             block == Block(offer.extensions)
             e == Encode(offer)
             b == SubSeq(e, 1, n)
  <2>1. IsHeader(u, s, w) /\ block \in Seq(Nat)
    BY HeaderFacts, BlockIsFlattened DEF OfferInv, Offers
  <2>2. e = u \o Long(block) /\ n \in 0 .. Len(e) - 1
    BY DEF Encode
  <2> HIDE DEF u, s, w, block, e
  <2>3. IF n \in {Len(u), Len(u) + 1} THEN ParseClientHello(b) = Parsed(u, s, w, <<>>)
        ELSE ParseClientHello(b) = NotClientHello
    BY <2>1, <2>2, CutIsRefused
  <2>4. ch = Parsed(u, s, w, ExtensionsIn(e, Len(u) + 3, Len(u) + 2 + Len(block)))
    BY <2>1, <2>2, WholeIsRead, ZenonT(30) DEF OfferInv, e
  <2>5. [ch EXCEPT !.extensions = <<>>] = Parsed(u, s, w, <<>>)
    <3>1. \A v, c, x : [Hello(v, c, x) EXCEPT !.extensions = <<>>] = Hello(v, c, <<>>)
      <4> SUFFICES ASSUME NEW v, NEW c, NEW x
                   PROVE  [Hello(v, c, x) EXCEPT !.extensions = <<>>] = Hello(v, c, <<>>)
        OBVIOUS
      <4> DEFINE D == {"ok", "legacy", "ciphers", "extensions"}
                 l == [Hello(v, c, x) EXCEPT !.extensions = <<>>]
                 r == Hello(v, c, <<>>)
      <4>1. DOMAIN l = D /\ DOMAIN r = D
        BY DEF Hello
      <4>2. /\ l.ok = r.ok /\ l.legacy = r.legacy /\ l.ciphers = r.ciphers
            /\ l.extensions = r.extensions
        BY DEF Hello
      <4> QED
        BY <4>1, <4>2 DEF Hello
    <3> QED
      BY <2>4, <3>1, Zenon DEF Parsed
  <2> QED
    BY <2>3, <2>5 DEF u, e
<1> QED
  BY <1>1, OfferTyping, PTL

------------------------------------------------------------------------------
(* Reading a block of extensions.                                           *)

\* Whether the list ends at p, and what is read there if it does not.
Stops(b, p, last) == p + 3 > last \/ p + 3 + U16(b, p + 2) > last

ReadAt(b, p) ==
  [type |-> U16(b, p), body |-> SubSeq(b, p + 4, p + 3 + U16(b, p + 2))]

Step(b, last, f, p) ==
  IF Stops(b, p, last) THEN <<>> ELSE <<ReadAt(b, p)>> \o f[p + 4 + U16(b, p + 2)]

\* The recursion that ExtensionsIn unfolds to.
Reading(b, last, f) == f = [p \in Nat |-> Step(b, last, f, p)]

LEMMA ExtensionsInUnfolds ==
  ASSUME NEW b, NEW from, NEW last
  PROVE  ExtensionsIn(b, from, last)
         = GenuineExtensions((CHOOSE f : Reading(b, last, f))[from])
BY DEF ExtensionsIn, Reading, Step, Stops, ReadAt

LEMMA ReadingExists ==
  ASSUME NEW b \in Seq(Nat), NEW last \in Nat, last <= Len(b)
  PROVE  \E f : Reading(b, last, f)
<1> DEFINE Behind(n, f) == /\ f = [p \in Nat |-> f[p]]
                           /\ \A p \in Nat : p + n > last => f[p] = Step(b, last, f, p)
           Has(n)       == \E f : Behind(n, f)
           T            == {n \in Nat : Has(n)}
<1>1. ASSUME NEW p \in Nat, ~ Stops(b, p, last)
      PROVE  U16(b, p + 2) \in Nat
  <2>1. ~ (p + 3 > last)
    BY <1>1 DEF Stops
  <2>2. p + 2 \in 1 .. Len(b) /\ (p + 2) + 1 \in 1 .. Len(b)
    BY <2>1
  <2>3. b[p + 2] \in Nat /\ b[(p + 2) + 1] \in Nat
    BY <2>2
  <2> QED
    BY <2>3 DEF U16
<1>2. Has(0)
  <2> DEFINE f == [p \in Nat |-> <<>>]
  <2>1. Behind(0, f)
    BY DEF Step, Stops
  <2> QED
    BY <2>1
<1>3. ASSUME NEW n \in Nat, Has(n)
      PROVE  Has(n + 1)
  <2>1. PICK f : Behind(n, f)
    BY <1>3
  <2> DEFINE g == [p \in Nat |-> IF p + n > last THEN f[p] ELSE Step(b, last, f, p)]
  <2>2. g = [p \in Nat |-> g[p]] /\ \A p \in Nat : g[p] = IF p + n > last THEN f[p] ELSE Step(b, last, f, p)
    OBVIOUS
  <2> HIDE DEF g
  <2>3. ASSUME NEW p \in Nat, p + (n + 1) > last
        PROVE  Step(b, last, g, p) = Step(b, last, f, p)
    <3>1. CASE Stops(b, p, last)
      BY <3>1 DEF Step
    <3>2. CASE ~ Stops(b, p, last)
      <4> DEFINE q == p + 4 + U16(b, p + 2)
      <4>1. U16(b, p + 2) \in Nat
        BY <1>1, <3>2
      <4>2. q \in Nat /\ q + n > last
        BY <2>3, <4>1
      <4>3. g[q] = f[q]
        BY <2>2, <4>2
      <4> QED
        BY <3>2, <4>3 DEF Step
    <3> QED
      BY <3>1, <3>2
  <2>4. ASSUME NEW p \in Nat, p + (n + 1) > last
        PROVE  g[p] = Step(b, last, g, p)
    <3>1. g[p] = Step(b, last, f, p)
      BY <2>1, <2>2
    <3> QED
      BY <2>3, <2>4, <3>1
  <2> QED
    BY <2>2, <2>4
<1> HIDE DEF Has
<1>4. 0 \in T /\ \A n \in Nat : n \in T => n + 1 \in T
  BY <1>2, <1>3
<1> HIDE DEF T
<1>5. \A n \in Nat : n \in T
  BY <1>4, NatSetInduction
<1>6. last + 1 \in T
  BY <1>5
<1>7. PICK f : Behind(last + 1, f)
  BY <1>6 DEF T, Has
<1>8. /\ f = [p \in Nat |-> f[p]]
      /\ \A p \in Nat : f[p] = Step(b, last, f, p)
  BY <1>7
<1>9. [p \in Nat |-> f[p]] = [p \in Nat |-> Step(b, last, f, p)]
  BY <1>8, Zenon
<1> QED
  BY <1>8, <1>9, Zenon DEF Reading

\* What the parser makes of the extensions of an offer before GREASE is dropped.
AsRead(exts) == [i \in 1 .. Len(exts) |-> [type |-> exts[i].type, body |-> Body(exts[i])]]

\* One extension, wherever it stands.
LEMMA OneIsRead ==
  ASSUME NEW b \in Seq(Nat), NEW last \in Nat, last <= Len(b), NEW p \in Nat \ {0},
         NEW e \in Extensions, (p + 3) + Len(Body(e)) <= last,
         \A i \in 1 .. Len(Written(e)) : b[(p - 1) + i] = Written(e)[i]
  PROVE  /\ ~ Stops(b, p, last)
         /\ ReadAt(b, p) = [type |-> e.type, body |-> Body(e)]
         /\ U16(b, p + 2) = Len(Body(e))
<1> DEFINE v == Written(e)
           m == Len(Body(e))
<1>1. /\ Body(e) \in Seq(Nat) /\ m \in Nat
      /\ Len(v) = 4 + m
      /\ 256 * v[1] + v[2] = e.type /\ 256 * v[3] + v[4] = m
      /\ \A i \in 1 .. m : v[4 + i] = Body(e)[i]
  <2>1. Body(e) \in Seq(Nat)
    BY ONLY e \in Extensions, BodyType
  <2>2. /\ Len(v) = 4 + m
        /\ 256 * v[1] + v[2] = e.type /\ 256 * v[3] + v[4] = m
        /\ \A i \in 1 .. m : v[4 + i] = Body(e)[i]
    BY ONLY e \in Extensions, WrittenFacts
  <2> QED
    BY ONLY <2>1, <2>2
<1>2. \A i \in 1 .. Len(v) : b[(p - 1) + i] = v[i]
  OBVIOUS
<1>3. (p + 3) + m <= last /\ p \in Nat /\ p >= 1 /\ last \in Nat /\ m \in Nat
  BY <1>1
<1> HIDE DEF v, m
<1>4. \A i \in 1 .. 4 + m : b[(p - 1) + i] = v[i]
  BY ONLY <1>1, <1>2
<1>5. b[p] = v[1] /\ b[p + 1] = v[2] /\ b[p + 2] = v[3] /\ b[(p + 2) + 1] = v[4]
  <2>1. /\ 1 \in 1 .. 4 + m /\ 2 \in 1 .. 4 + m /\ 3 \in 1 .. 4 + m /\ 4 \in 1 .. 4 + m
        /\ (p - 1) + 1 = p /\ (p - 1) + 2 = p + 1
        /\ (p - 1) + 3 = p + 2 /\ (p - 1) + 4 = (p + 2) + 1
    BY <1>1
  <2>2. /\ b[(p - 1) + 1] = v[1] /\ b[(p - 1) + 2] = v[2]
        /\ b[(p - 1) + 3] = v[3] /\ b[(p - 1) + 4] = v[4]
    BY ONLY <1>4, <2>1
  <2> QED
    BY ONLY <2>1, <2>2
<1>6. U16(b, p) = e.type /\ U16(b, p + 2) = m
  BY ONLY <1>1, <1>5 DEF U16
<1>7. ~ Stops(b, p, last)
  <2>1. ~ (p + 3 > last) /\ ~ (p + 3 + m > last)
    BY ONLY <1>3
  <2> QED
    BY <1>6, <2>1 DEF Stops
<1>8. SubSeq(b, p + 4, p + 3 + m) = Body(e)
  <2> DEFINE a == p + 4
             z == p + 3 + m
             c == SubSeq(b, a, z)
  <2>1. ASSUME NEW i \in a .. z
        PROVE  b[i] \in Nat
    <3>1. i \in 1 .. Len(b)
      BY <1>1, <1>3
    <3> QED
      BY <3>1
  <2>2. /\ a \in Int /\ z \in Int /\ (z - a) + 1 = m
        /\ (IF a <= z THEN (z - a) + 1 ELSE 0) = m
    BY ONLY <1>3
  <2>3. \A i \in 1 .. m : 4 + i \in 1 .. 4 + m /\ a + (i - 1) = (p - 1) + (4 + i)
    BY ONLY <1>3
  <2> HIDE DEF a, z
  <2>4. /\ c \in Seq(Nat)
        /\ Len(c) = IF a <= z THEN (z - a) + 1 ELSE 0
        /\ \A i \in 1 .. (z - a) + 1 : c[i] = b[a + i - 1]
    BY ONLY <2>1, <2>2, SubSeqProperties
  <2> HIDE DEF c
  <2>5. Len(c) = m
    BY ONLY <2>2, <2>4
  <2>6. ASSUME NEW i \in 1 .. m
        PROVE  c[i] = Body(e)[i]
    <3>1. c[i] = b[(p - 1) + (4 + i)]
      BY ONLY <2>2, <2>3, <2>4, <2>6
    <3>2. b[(p - 1) + (4 + i)] = v[4 + i]
      BY ONLY <1>4, <2>3, <2>6
    <3> QED
      BY ONLY <1>1, <2>6, <3>1, <3>2
  <2>7. Len(Body(e)) = m
    BY DEF m
  <2>8. Body(e) \in Seq(Nat) /\ Len(c) = Len(Body(e))
    BY <1>1, <2>5, <2>7
  <2>9. \A i \in 1 .. Len(c) : c[i] = Body(e)[i]
    BY <2>5, <2>6
  <2>10. c = Body(e)
    BY ONLY <2>4, <2>8, <2>9, SeqEqual
  <2> QED
    BY <2>10 DEF a, z, c
<1> QED
  BY <1>6, <1>7, <1>8 DEF ReadAt, m

LEMMA BlockIsRead ==
  ASSUME NEW exts \in Seq(Extensions), NEW b \in Seq(Nat), NEW last \in Nat,
         last <= Len(b), NEW from \in Nat \ {0},
         (from - 1) + Len(Block(exts)) <= last,
         \A i \in 1 .. Len(Block(exts)) : b[(from - 1) + i] = Block(exts)[i],
         Stops(b, from + Len(Block(exts)), last)
  PROVE  ExtensionsIn(b, from, last) = GenuineExtensions(AsRead(exts))
<1> DEFINE n     == Len(exts)
           parts == Parts(exts)
           block == Block(exts)
           recs  == AsRead(exts)
<1>1. n \in Nat /\ parts \in Seq(Seq(Nat)) /\ Len(parts) = n
  BY BlockIsFlattened
<1>2. PICK f \in [0 .. n -> Seq(Nat)] : Partial(parts, n, f)
  BY <1>1, PartialExists
<1>3. block = f[n] /\ block \in Seq(Nat)
  BY <1>1, <1>2, FlattenIsLastPrefix, BlockIsFlattened
<1>4. /\ (from - 1) + Len(block) <= last
      /\ \A i \in 1 .. Len(block) : b[(from - 1) + i] = block[i]
      /\ Stops(b, from + Len(block), last)
  OBVIOUS
<1>5. ASSUME NEW j \in 1 .. n
      PROVE  /\ f[j] \in Seq(Nat) /\ f[j - 1] \in Seq(Nat) /\ exts[j] \in Extensions
             /\ f[j] = f[j - 1] \o Written(exts[j])
  <2>1. j - 1 \in 0 .. n /\ j \in 0 .. n /\ j \in 1 .. Len(exts)
    BY <1>1
  <2>2. parts[j] = Written(exts[j])
    BY <2>1 DEF Parts
  <2>3. f[j] = f[j - 1] \o parts[j]
    BY <1>1, <1>2 DEF Partial
  <2>4. exts[j] \in Extensions
    BY <2>1
  <2> QED
    BY <1>2, <2>1, <2>2, <2>3, <2>4
<1> HIDE DEF n, parts, block
\* The bytes of every beginning of the block are where the block is.
<1> DEFINE Lies(j) == /\ (from - 1) + Len(f[j]) <= last
                      /\ \A i \in 1 .. Len(f[j]) : b[(from - 1) + i] = f[j][i]
<1>6. Lies(n)
  BY <1>3, <1>4
<1>7. ASSUME NEW j \in 1 .. n
      PROVE  /\ Len(f[j - 1]) \in Nat /\ Len(Written(exts[j])) \in Nat
             /\ Len(f[j]) = Len(f[j - 1]) + Len(Written(exts[j]))
             /\ \A i \in 1 .. Len(f[j - 1]) : f[j][i] = f[j - 1][i]
             /\ \A i \in 1 .. Len(Written(exts[j])) : f[j][Len(f[j - 1]) + i] = Written(exts[j])[i]
  <2> DEFINE g == f[j - 1]
             v == Written(exts[j])
  <2>1. g \in Seq(Nat) /\ v \in Seq(Nat) /\ f[j] = g \o v
    BY <1>5, WrittenFacts
  <2> HIDE DEF g, v
  <2>2. /\ Len(g \o v) = Len(g) + Len(v)
        /\ \A i \in 1 .. Len(g) : (g \o v)[i] = g[i]
        /\ \A i \in 1 .. Len(v) : (g \o v)[Len(g) + i] = v[i]
    BY ONLY <2>1, CatFacts
  <2>3. Len(g) \in Nat /\ Len(v) \in Nat
    BY <2>1
  <2> QED
    BY <2>1, <2>2, <2>3 DEF g, v
<1>8. ASSUME NEW j \in 1 .. n, Lies(j)
      PROVE  Lies(j - 1)
  <2>0. /\ Len(f[j - 1]) \in Nat /\ Len(Written(exts[j])) \in Nat
        /\ Len(f[j]) = Len(f[j - 1]) + Len(Written(exts[j]))
    BY <1>7
  <2>1. Len(f[j - 1]) <= Len(f[j]) /\ Len(f[j]) \in Nat
    <3> DEFINE x == Len(f[j - 1])
               l == Len(Written(exts[j]))
    <3>1. x \in Nat /\ l \in Nat /\ Len(f[j]) = x + l
      BY ONLY <2>0
    <3> HIDE DEF x, l
    <3>2. x <= Len(f[j]) /\ Len(f[j]) \in Nat
      BY ONLY <3>1
    <3> QED
      BY <3>2 DEF x
  <2>2. (from - 1) + Len(f[j - 1]) <= last
    BY <1>7, <1>8, <2>1
  <2>3. ASSUME NEW i \in 1 .. Len(f[j - 1])
        PROVE  b[(from - 1) + i] = f[j - 1][i]
    <3>1. i \in 1 .. Len(f[j])
      BY <1>7, <2>1
    <3> QED
      BY <1>7, <1>8, <3>1
  <2> QED
    BY <2>2, <2>3
<1> DEFINE T == {k \in Nat : k <= n => Lies(n - k)}
<1> HIDE DEF Lies
<1>9. \A k \in Nat : k \in T
  <2>1. 0 \in T
    BY <1>1, <1>6
  <2>2. ASSUME NEW k \in Nat, k \in T
        PROVE  k + 1 \in T
    <3> SUFFICES ASSUME k + 1 <= n
                 PROVE  Lies(n - (k + 1))
      OBVIOUS
    <3>1. n - k \in 1 .. n /\ (n - k) - 1 = n - (k + 1)
      BY <1>1
    <3>2. Lies(n - k)
      BY <1>1, <2>2
    <3>3. Lies((n - k) - 1)
      BY <1>8, <3>1, <3>2
    <3> QED
      BY <3>1, <3>3
  <2> HIDE DEF T
  <2> QED
    BY <2>1, <2>2, NatSetInduction
<1>10. ASSUME NEW j \in 1 .. n
       PROVE  Lies(j)
  <2>1. n - j \in Nat /\ n - j <= n /\ n - (n - j) = j
    BY <1>1
  <2> QED
    BY <1>9, <2>1
<1> HIDE DEF T
\* So each extension of the offer is read, and then what is behind it.
<1> DEFINE R == CHOOSE R : Reading(b, last, R)
           P(j) == from + Len(f[j])
<1>11. \A p \in Nat : R[p] = Step(b, last, R, p)
  <2>1. Reading(b, last, R)
    BY ReadingExists
  <2> HIDE DEF R
  <2> QED
    BY <2>1 DEF Reading
<1>12. ExtensionsIn(b, from, last) = GenuineExtensions(R[from])
  BY ExtensionsInUnfolds
<1> HIDE DEF R
<1>13. ASSUME NEW j \in 1 .. n
       PROVE  R[P(j - 1)] = <<recs[j]>> \o R[P(j)]
  <2> DEFINE p == P(j - 1)
             e == exts[j]
  <2>0. e \in Extensions /\ e = exts[j]
    BY <1>5
  <2> DEFINE x == Len(f[j - 1])
             y == Len(f[j])
             m == Len(Body(e))
             l == Len(Written(e))
  <2>1. /\ x \in Nat /\ l = 4 + m /\ m \in Nat /\ y = x + l
        /\ from \in Nat /\ from >= 1 /\ last \in Nat
    <3>1. x \in Nat /\ y = x + l
      BY <1>7
    <3> HIDE DEF e
    <3>2. Body(e) \in Seq(Nat) /\ l = 4 + m
      BY <2>0, WrittenFacts, BodyType
    <3> QED
      BY <3>1, <3>2
  <2>10. (from - 1) + y <= last
    BY <1>10 DEF Lies
  <2>11. p = from + x /\ P(j) = from + y
    OBVIOUS
  <2> HIDE DEF x, y, m, l, P, p
  <2>2. p \in Nat \ {0} /\ P(j) = p + 4 + m
    BY ONLY <2>1, <2>11
  <2>3. (p + 3) + m <= last
    BY ONLY <2>1, <2>10, <2>11
  <2>12. \A i \in 1 .. l : x + i \in 1 .. y /\ (from - 1) + (x + i) = (p - 1) + i
    BY ONLY <2>1, <2>11
  <2>4. ASSUME NEW i \in 1 .. Len(Written(e))
        PROVE  b[(p - 1) + i] = Written(e)[i]
    <3>1. x + i \in 1 .. y /\ (from - 1) + (x + i) = (p - 1) + i
      BY <2>12 DEF l
    <3>2. b[(from - 1) + (x + i)] = f[j][x + i]
      BY <1>10, <3>1 DEF Lies, y
    <3>3. f[j][x + i] = Written(e)[i]
      BY <1>7 DEF x
    <3> QED
      BY ONLY <3>1, <3>2, <3>3
  <2>5. (p + 3) + Len(Body(e)) <= last /\ e \in Extensions
    BY <2>0, <2>3 DEF m
  <2> HIDE DEF e
  <2>6. /\ ~ Stops(b, p, last) /\ U16(b, p + 2) = Len(Body(e))
        /\ ReadAt(b, p) = [type |-> e.type, body |-> Body(e)]
    BY <2>2, <2>4, <2>5, OneIsRead
  <2>7. recs[j] = [type |-> e.type, body |-> Body(e)]
    BY <2>0 DEF AsRead, n
  <2>8. R[p] = <<ReadAt(b, p)>> \o R[p + 4 + U16(b, p + 2)]
    BY <1>11, <2>2, <2>6 DEF Step
  <2>9. P(j) = p + 4 + U16(b, p + 2) /\ R[P(j - 1)] = R[p]
    BY <2>2, <2>6 DEF m, p
  <2> HIDE DEF recs
  <2> QED
    BY <2>6, <2>7, <2>8, <2>9
<1>14. R[P(n)] = <<>>
  <2> DEFINE p == P(n)
  <2>1. p \in Nat /\ p = from + Len(block)
    BY <1>3
  <2>2. Stops(b, p, last)
    BY <1>4, <2>1
  <2> HIDE DEF p
  <2> QED
    BY ONLY <1>11, <2>1, <2>2 DEF Step, p
<1>15. recs \in Seq({recs[i] : i \in 1 .. n}) /\ Len(recs) = n
  BY <1>1 DEF AsRead, n
<1> DEFINE L == {k \in Nat : k <= n => R[P(n - k)] = SubSeq(recs, (n - k) + 1, n)}
<1> HIDE DEF recs, P
<1>16. 0 \in L
  <2>1. n - 0 = n /\ n + 1 \in Int /\ n \in Int /\ n < n + 1
    BY <1>1
  <2>2. SubSeq(recs, n + 1, n) = <<>>
    BY <2>1, SubSeqEmpty
  <2> QED
    BY <1>14, <2>1, <2>2
<1>17. ASSUME NEW k \in Nat, k \in L
       PROVE  k + 1 \in L
  <2> SUFFICES ASSUME k + 1 <= n
               PROVE  R[P(n - (k + 1))] = SubSeq(recs, (n - (k + 1)) + 1, n)
    OBVIOUS
  <2> DEFINE j == n - k
  <2>1. j \in 1 .. n /\ j - 1 = n - (k + 1) /\ (n - (k + 1)) + 1 = j /\ n \in j .. n
    BY <1>1
  <2>2. R[P(j)] = SubSeq(recs, j + 1, n)
    BY <1>17, <2>1
  <2> HIDE DEF j
  <2>3. SubSeq(recs, j, n) = <<recs[j]>> \o SubSeq(recs, j + 1, n)
    BY <1>15, <2>1, SubSeqRecursiveFirst
  <2>4. R[P(j - 1)] = <<recs[j]>> \o R[P(j)]
    BY <1>13, <2>1
  <2> QED
    BY <2>1, <2>2, <2>3, <2>4
<1> HIDE DEF L
<1>18. \A k \in Nat : k \in L
  BY <1>16, <1>17, NatSetInduction
<1>19. n \in L
  BY <1>1, <1>18
<1>20. P(0) = from
  <2>1. f[0] = <<>>
    BY <1>2 DEF Partial
  <2> QED
    BY <2>1 DEF P
<1>21. R[from] = recs
  <2>1. n - n = 0 /\ 0 + 1 = 1
    BY <1>1
  <2>2. R[P(n - n)] = SubSeq(recs, (n - n) + 1, n)
    BY <1>1, <1>19 DEF L
  <2>3. SubSeq(recs, 1, n) = recs
    BY <1>15, SubSeqFull
  <2> QED
    BY <1>20, <2>1, <2>2, <2>3
<1> QED
  BY <1>12, <1>21 DEF recs

------------------------------------------------------------------------------
(* A hello that overruns.                                                   *)

LEMMA WholeHelloIsRead ==
  ASSUME NEW o \in Offers
  PROVE  ParseClientHello(Encode(o))
         = Parsed(UpToCompression(o), Len(o.session), Len(Wire(o.ciphers)),
                  GenuineExtensions(AsRead(o.extensions)))
<1> DEFINE u == UpToCompression(o)
           s == Len(o.session)
           w == Len(Wire(o.ciphers))
           block == Block(o.extensions)
           e == Encode(o)
           from == Len(u) + 3
           last == Len(u) + 2 + Len(block)
<1>1. IsHeader(u, s, w) /\ block \in Seq(Nat) /\ o.extensions \in Seq(Extensions)
  BY HeaderFacts, BlockIsFlattened DEF Offers
<1>2. e = u \o Long(block)
  BY DEF Encode
<1> HIDE DEF u, s, w, block, e
<1>3. Len(u) \in Nat /\ Len(block) \in Nat
  BY <1>1 DEF IsHeader
<1>4. ParseClientHello(e) = Parsed(u, s, w, ExtensionsIn(e, from, last))
  BY ONLY <1>1, <1>2, WholeIsRead, Zenon DEF from, last
<1>5. /\ e \in Seq(Nat) /\ Len(e) = Len(u) + 2 + Len(block)
      /\ \A i \in 1 .. Len(block) : e[Len(u) + 2 + i] = block[i]
  <2>1. Carries(e, u, block)
    BY <1>1, <1>2, BehindHeader
  <2> QED
    BY <2>1 DEF Carries
<1>6. /\ from \in Nat \ {0} /\ last \in Nat /\ last = Len(e) /\ from - 1 = Len(u) + 2
      /\ (from - 1) + Len(block) = last /\ (from + Len(block)) + 3 > last
  BY <1>3, <1>5
<1>7. Stops(e, from + Len(block), last)
  BY <1>6 DEF Stops
<1> HIDE DEF from, last
<1>8. /\ last <= Len(e) /\ (from - 1) + Len(block) <= last
      /\ \A i \in 1 .. Len(block) : e[(from - 1) + i] = block[i]
  <2>1. last <= Len(e) /\ (from - 1) + Len(block) <= last
    BY ONLY <1>6
  <2>2. \A i \in 1 .. Len(block) : e[(from - 1) + i] = block[i]
    BY ONLY <1>5, <1>6
  <2> QED
    BY ONLY <2>1, <2>2
<1>9. ExtensionsIn(e, from, last) = GenuineExtensions(AsRead(o.extensions))
  BY <1>1, <1>5, <1>6, <1>7, <1>8, BlockIsRead, ZenonT(30) DEF block
<1> QED
  BY <1>4, <1>9 DEF u, s, w, e

\* A list, and bytes behind it that begin with an overrunning extension.
OverrunBlock(exts, type, rest) ==
  ((Block(exts) \o U16Bytes(type)) \o U16Bytes(Len(rest) + 1)) \o rest

Overrun(u, exts, type, rest) == (u \o Long(OverrunBlock(exts, type, rest))) \o <<0>>

LEMMA OverrunIsDropped ==
  ASSUME NEW u, NEW s, NEW w, IsHeader(u, s, w), NEW exts \in Seq(Extensions),
         NEW type \in Nat, NEW rest \in Seq(Nat)
  PROVE  ParseClientHello(Overrun(u, exts, type, rest))
         = Parsed(u, s, w, GenuineExtensions(AsRead(exts)))
<1> DEFINE block == OverrunBlock(exts, type, rest)
           e    == Overrun(u, exts, type, rest)
           good == Block(exts)
           t    == U16Bytes(type)
           c    == U16Bytes(Len(rest) + 1)
           g    == Len(good)
           k    == Len(rest)
           h    == Len(u)
           b2   == good \o t
           b3   == b2 \o c
           b4   == b3 \o rest
           e1   == u \o Long(block)
           zero == <<0>>
<1>1. good \in Seq(Nat) /\ g \in Nat /\ k \in Nat /\ h \in Nat /\ u \in Seq(Nat)
  <2>1. good \in Seq(Nat)
    BY BlockIsFlattened
  <2>2. h \in Nat /\ u \in Seq(Nat)
    BY DEF IsHeader
  <2> QED
    BY <2>1, <2>2
<1>2. /\ t \in Seq(Nat) /\ Len(t) = 2
      /\ c \in Seq(Nat) /\ Len(c) = 2 /\ 256 * c[1] + c[2] = k + 1
  <2>1. t \in Seq(Nat) /\ Len(t) = 2
    BY ONLY type \in Nat, U16BytesFacts
  <2>2. k + 1 \in Nat
    BY ONLY <1>1
  <2>3. /\ c \in Seq(Nat) /\ Len(c) = 2
        /\ 256 * c[1] + c[2] = k + 1
    <3> HIDE DEF k
    <3> QED
      BY ONLY <2>2, U16BytesFacts DEF k
  <2> QED
    BY ONLY <2>1, <2>3
<1>3. zero \in Seq(Nat) /\ Len(zero) = 1
  OBVIOUS
<1>4. block = b4 /\ e = e1 \o zero /\ rest \in Seq(Nat) /\ Len(good) = g /\ Len(rest) = k
  BY DEF OverrunBlock, Overrun
<1> HIDE DEF good, t, c, g, k, zero, block, e
<1>5. /\ b2 \in Seq(Nat) /\ Len(b2) = Len(good) + Len(t)
      /\ \A i \in 1 .. Len(good) : b2[i] = good[i]
  BY ONLY <1>1, <1>2, CatFacts
<1> HIDE DEF b2
<1>6. /\ b3 \in Seq(Nat) /\ Len(b3) = Len(b2) + Len(c)
      /\ \A i \in 1 .. Len(b2) : b3[i] = b2[i]
      /\ \A i \in 1 .. Len(c) : b3[Len(b2) + i] = c[i]
  BY ONLY <1>5, <1>2, CatFacts
<1> HIDE DEF b3
<1>7. /\ b4 \in Seq(Nat) /\ Len(b4) = Len(b3) + Len(rest)
      /\ \A i \in 1 .. Len(b3) : b4[i] = b3[i]
  BY ONLY <1>6, <1>4, CatFacts
<1> HIDE DEF b4
\* The block: the list first, and a length behind it that is too large.
<1>8. /\ block \in Seq(Nat) /\ Len(block) = g + 4 + k
      /\ \A i \in 1 .. g : block[i] = good[i]
      /\ 256 * block[g + 3] + block[g + 4] = k + 1
  <2>1. Len(b2) = g + 2 /\ Len(b3) = g + 4 /\ Len(b4) = g + 4 + k
    BY ONLY <1>1, <1>2, <1>4, <1>5, <1>6, <1>7
  <2>2. /\ 1 \in 1 .. Len(c) /\ 2 \in 1 .. Len(c)
        /\ Len(b2) + 1 = g + 3 /\ Len(b2) + 2 = g + 4
        /\ g + 3 \in 1 .. Len(b3) /\ g + 4 \in 1 .. Len(b3)
    BY ONLY <1>1, <1>2, <2>1
  <2>3. b3[g + 3] = c[1] /\ b3[g + 4] = c[2]
    BY ONLY <1>6, <2>2
  <2>4. b4[g + 3] = c[1] /\ b4[g + 4] = c[2]
    BY ONLY <1>7, <2>2, <2>3
  <2>5. ASSUME NEW i \in 1 .. g
        PROVE  b4[i] = good[i]
    <3>1. i \in 1 .. Len(good) /\ i \in 1 .. Len(b2) /\ i \in 1 .. Len(b3)
      BY ONLY <1>1, <1>4, <2>1, <2>5
    <3> QED
      BY ONLY <1>5, <1>6, <1>7, <3>1
  <2> QED
    BY ONLY <1>2, <1>4, <1>7, <2>1, <2>4, <2>5
<1> HIDE DEF e1, h
<1>9. /\ e1 \in Seq(Nat) /\ Len(e1) = h + 2 + Len(block)
      /\ \A i \in 1 .. h : e1[i] = u[i]
      /\ U16(e1, h + 1) = Len(block)
      /\ \A i \in 1 .. Len(block) : e1[h + 2 + i] = block[i]
  <2>1. IsHeader(u, s, w) /\ e1 = u \o Long(block)
    BY DEF e1
  <2>2. Carries(e1, u, block)
    BY <1>8, <2>1, BehindHeader
  <2> QED
    BY <2>2 DEF Carries, h
<1>10. /\ e1 \o zero \in Seq(Nat) /\ Len(e1 \o zero) = Len(e1) + Len(zero)
       /\ \A i \in 1 .. Len(e1) : (e1 \o zero)[i] = e1[i]
  BY ONLY <1>3, <1>9, CatFacts
<1> DEFINE last == h + 2 + (g + 4 + k)
           from == h + 3
<1>11. /\ e \in Seq(Nat) /\ Len(e) = last + 1 /\ Len(e1) = last
       /\ \A i \in 1 .. last : e[i] = e1[i]
  BY ONLY <1>3, <1>4, <1>8, <1>9, <1>10
<1>12. \A i \in 1 .. h : i \in 1 .. last
  BY ONLY <1>1
<1>13. U16(e, h + 1) = g + 4 + k
  <2>1. h + 1 \in 1 .. last /\ (h + 1) + 1 \in 1 .. last
    BY ONLY <1>1
  <2>2. e[h + 1] = e1[h + 1] /\ e[(h + 1) + 1] = e1[(h + 1) + 1]
    BY ONLY <1>11, <2>1
  <2> QED
    BY ONLY <1>8, <1>9, <2>2 DEF U16
<1>14. BlockEnd(u, e) = last
  BY <1>13 DEF BlockEnd, h
<1>15. ParseClientHello(e) = Parsed(u, s, w, ExtensionsIn(e, from, last))
  <2>1. \A i \in 1 .. Len(u) : i <= Len(e) => e[i] = u[i]
    BY <1>9, <1>11, <1>12 DEF h
  <2>2. Len(e) >= Len(u) + 2 /\ ~ (BlockEnd(u, e) > Len(e))
    <3>1. last + 1 >= h + 2 /\ ~ (last > last + 1)
      BY ONLY <1>1
    <3> HIDE DEF last
    <3> QED
      BY <1>11, <1>14, <3>1 DEF h
  <2>3. Len(e) >= Len(u) + 2 =>
          ParseClientHello(e) =
            IF BlockEnd(u, e) > Len(e) THEN NotClientHello
            ELSE Parsed(u, s, w, ExtensionsIn(e, Len(u) + 3, BlockEnd(u, e)))
    BY <1>11, <2>1, ParseFacts, Zenon
  <2> QED
    BY <1>14, <2>2, <2>3 DEF h
<1>16. Stops(e, from + g, last)
  <2> DEFINE p == from + g
  <2>1. /\ p + 2 = h + 2 + (g + 3) /\ (p + 2) + 1 = h + 2 + (g + 4)
        /\ g + 3 \in 1 .. g + 4 + k /\ g + 4 \in 1 .. g + 4 + k
        /\ h + 2 + (g + 3) \in 1 .. last /\ h + 2 + (g + 4) \in 1 .. last
        /\ p + 3 + (k + 1) > last
    BY ONLY <1>1
  <2>2. e[p + 2] = block[g + 3] /\ e[(p + 2) + 1] = block[g + 4]
    <3>1. Len(block) = g + 4 + k
      BY ONLY <1>8
    <3> HIDE DEF p, last
    <3>2. /\ e1[h + 2 + (g + 3)] = block[g + 3]
          /\ e1[h + 2 + (g + 4)] = block[g + 4]
      BY ONLY <1>9, <2>1, <3>1
    <3>3. /\ e[h + 2 + (g + 3)] = e1[h + 2 + (g + 3)]
          /\ e[h + 2 + (g + 4)] = e1[h + 2 + (g + 4)]
      BY ONLY <1>11, <2>1
    <3> QED
      BY ONLY <2>1, <3>2, <3>3
  <2>3. U16(e, p + 2) = k + 1
    BY ONLY <1>8, <2>2 DEF U16
  <2>4. p + 3 + U16(e, p + 2) > last
    BY ONLY <2>1, <2>3
  <2> HIDE DEF p, last
  <2>5. Stops(e, p, last)
    BY ONLY <2>4 DEF Stops
  <2> QED
    BY ONLY <2>5 DEF p
<1>17. /\ from \in Nat \ {0} /\ last \in Nat /\ last <= last + 1
       /\ from - 1 = h + 2 /\ (from - 1) + g <= last
       /\ \A i \in 1 .. g : i \in 1 .. g + 4 + k /\ h + 2 + i \in 1 .. last
  BY ONLY <1>1
<1>18. \A i \in 1 .. g : e[(from - 1) + i] = good[i]
  <2>1. from - 1 = h + 2 /\ Len(block) = g + 4 + k
    BY ONLY <1>8, <1>17
  <2>2. \A i \in 1 .. g : i \in 1 .. g + 4 + k /\ h + 2 + i \in 1 .. last
    BY ONLY <1>17
  <2> HIDE DEF from, last
  <2>3. ASSUME NEW i \in 1 .. g
        PROVE  e[(h + 2) + i] = good[i]
    BY ONLY <1>8, <1>9, <1>11, <2>1, <2>2, <2>3
  <2> QED
    BY ONLY <2>1, <2>3
<1> HIDE DEF from, last
<1>19. ExtensionsIn(e, from, last) = GenuineExtensions(AsRead(exts))
  BY <1>4, <1>11, <1>16, <1>17, <1>18, BlockIsRead DEF good
<1> QED
  BY <1>15, <1>19 DEF e

\* An extension that claims more than its block has left ends the list, whatever the
\* list is and whatever the extension carries (ja4.go:153-166).
THEOREM OverrunsEndTheList == Spec => []OverrunEndsTheList
<1>1. OfferInv => OverrunEndsTheList
  <2> SUFFICES ASSUME OfferInv, NEW i \in DOMAIN offer.extensions
               PROVE  ParseClientHello(Overrunning(offer, i))
                      = ParseClientHello(Encode([offer EXCEPT !.extensions = SubSeq(@, 1, i - 1)]))
    BY DEF OverrunEndsTheList
  <2> DEFINE exts  == offer.extensions
             front == SubSeq(exts, 1, i - 1)
             back  == SubSeq(exts, i + 1, Len(exts))
             rest  == Body(exts[i]) \o Block(back)
             type  == exts[i].type
             u     == UpToCompression(offer)
             s     == Len(offer.session)
             w     == Len(Wire(offer.ciphers))
             o     == [offer EXCEPT !.extensions = front]
  <2>1. offer \in Offers /\ exts \in Seq(Extensions) /\ i \in 1 .. Len(exts)
    BY DEF OfferInv, Offers
  <2>2. exts[i] \in Extensions
    BY <2>1
  <2>3. front \in Seq(Extensions) /\ back \in Seq(Extensions)
    <3>1. \A j \in 1 .. i - 1 : exts[j] \in Extensions
      BY <2>1
    <3>2. \A j \in i + 1 .. Len(exts) : exts[j] \in Extensions
      BY <2>1
    <3>3. 1 \in Int /\ i - 1 \in Int /\ i + 1 \in Int /\ Len(exts) \in Int
      BY <2>1
    <3> HIDE DEF exts
    <3> QED
      BY <3>1, <3>2, <3>3, SubSeqProperties
  <2>4. rest \in Seq(Nat) /\ type \in Nat
    <3>1. Body(exts[i]) \in Seq(Nat) /\ Block(back) \in Seq(Nat)
      BY <2>2, <2>3, BodyType, BlockIsFlattened
    <3> QED
      BY <2>2, <3>1, CatFacts, OfferAssumption
  <2>5. IsHeader(u, s, w)
    BY <2>1, HeaderFacts
  <2>6. Overrunning(offer, i) = Overrun(u, front, type, rest)
    BY Zenon DEF Overrunning, Overrun, OverrunBlock
  <2> HIDE DEF u, s, w, rest, type, front
  <2>7. ParseClientHello(Overrunning(offer, i)) = Parsed(u, s, w, GenuineExtensions(AsRead(front)))
    BY <2>3, <2>4, <2>5, <2>6, OverrunIsDropped
  <2>8. /\ o \in Offers /\ o.extensions = front /\ o.session = offer.session
        /\ o.ciphers = offer.ciphers /\ o.legacy = offer.legacy
    BY <2>1, <2>3 DEF Offers
  <2> HIDE DEF o
  <2>9. UpToCompression(o) = u
    BY <2>8 DEF UpToCompression, u
  <2>10. ParseClientHello(Encode(o)) = Parsed(u, s, w, GenuineExtensions(AsRead(front)))
    BY <2>8, <2>9, WholeHelloIsRead DEF s, w
  <2> QED
    BY <2>7, <2>10 DEF o, front
<1> QED
  BY <1>1, OfferTyping, PTL

------------------------------------------------------------------------------
(* What a hello says.                                                       *)

\* Where the values of a list lie.
LEMMA WireFacts ==
  ASSUME NEW values \in Seq(Nat)
  PROVE  /\ Wire(values) \in Seq(Nat) /\ Len(Wire(values)) = 2 * Len(values)
         /\ \A i \in 1 .. Len(values) :
              256 * Wire(values)[2 * i - 1] + Wire(values)[2 * i] = values[i]
<1> DEFINE parts == [i \in DOMAIN values |-> U16Bytes(values[i])]
           n     == Len(values)
<1>1. n \in Nat /\ DOMAIN values = 1 .. n
  OBVIOUS
<1>2. ASSUME NEW i \in 1 .. n
      PROVE  /\ parts[i] \in Seq(Nat) /\ Len(parts[i]) = 2
             /\ 256 * parts[i][1] + parts[i][2] = values[i]
  <2> DEFINE v == values[i]
  <2>1. v \in Nat /\ parts[i] = U16Bytes(v)
    OBVIOUS
  <2> HIDE DEF parts, v
  <2>2. /\ U16Bytes(v) \in Seq(Nat) /\ Len(U16Bytes(v)) = 2
        /\ 256 * U16Bytes(v)[1] + U16Bytes(v)[2] = v
    BY ONLY <2>1, U16BytesFacts
  <2> QED
    BY <2>1, <2>2 DEF v
<1>3. parts \in Seq(Seq(Nat)) /\ Len(parts) = n
  BY <1>1, <1>2
<1>4. Wire(values) = FlattenSeq(parts)
  BY Zenon DEF Wire
<1> HIDE DEF parts, n
<1>5. PICK f \in [0 .. n -> Seq(Nat)] : Partial(parts, n, f)
  BY <1>3, PartialExists
<1>6. FlattenSeq(parts) = f[n]
  BY <1>3, <1>5, FlattenIsLastPrefix
<1> DEFINE Good(k) == /\ Len(f[k]) = 2 * k
                      /\ \A i \in 1 .. k : 256 * f[k][2 * i - 1] + f[k][2 * i] = values[i]
           T       == {k \in Nat : k <= n => Good(k)}
<1>7. Good(0)
  BY <1>5 DEF Partial
<1>8. ASSUME NEW k \in Nat, k + 1 <= n, Good(k)
      PROVE  Good(k + 1)
  <2> DEFINE a == f[k]
             c == parts[k + 1]
             d == f[k + 1]
             v == values[k + 1]
  <2>1. k + 1 \in 1 .. n /\ k \in 0 .. n /\ k + 1 \in 0 .. n /\ (k + 1) - 1 = k
    BY <1>1, <1>8
  <2>2. a \in Seq(Nat) /\ d = a \o c
    <3>1. f[k + 1] = f[(k + 1) - 1] \o parts[k + 1]
      BY ONLY <1>5, <2>1 DEF Partial
    <3> QED
      BY ONLY <1>5, <2>1, <3>1
  <2>3. c \in Seq(Nat) /\ Len(c) = 2 /\ 256 * c[1] + c[2] = v
    BY <1>2, <2>1
  <2>4. Len(a) = 2 * k /\ \A i \in 1 .. k : 256 * a[2 * i - 1] + a[2 * i] = values[i]
    BY <1>8
  <2> HIDE DEF a, c, d, v
  <2>5. /\ Len(d) = Len(a) + Len(c)
        /\ \A i \in 1 .. Len(a) : d[i] = a[i]
        /\ \A i \in 1 .. Len(c) : d[Len(a) + i] = c[i]
    BY ONLY <2>2, <2>3, CatFacts
  <2>6. Len(d) = 2 * (k + 1)
    BY ONLY <2>3, <2>4, <2>5, k \in Nat
  <2>7. 256 * d[2 * (k + 1) - 1] + d[2 * (k + 1)] = v
    <3>1. 2 * (k + 1) - 1 = Len(a) + 1 /\ 2 * (k + 1) = Len(a) + 2
      BY ONLY <2>4, k \in Nat
    <3>2. 1 \in 1 .. Len(c) /\ 2 \in 1 .. Len(c)
      BY ONLY <2>3
    <3>3. d[Len(a) + 1] = c[1] /\ d[Len(a) + 2] = c[2]
      BY ONLY <2>5, <3>2
    <3> QED
      BY ONLY <2>3, <3>1, <3>3
  <2>8. ASSUME NEW i \in 1 .. k
        PROVE  256 * d[2 * i - 1] + d[2 * i] = values[i]
    <3>1. 2 * i - 1 \in 1 .. 2 * k /\ 2 * i \in 1 .. 2 * k
      BY ONLY k \in Nat, i \in 1 .. k
    <3>2. d[2 * i - 1] = a[2 * i - 1] /\ d[2 * i] = a[2 * i]
      BY ONLY <2>4, <2>5, <3>1
    <3> QED
      BY ONLY <2>4, <3>2, i \in 1 .. k
  <2>9. ASSUME NEW i \in 1 .. k + 1
        PROVE  256 * d[2 * i - 1] + d[2 * i] = values[i]
    <3>1. i \in 1 .. k \/ i = k + 1
      BY ONLY k \in Nat, i \in 1 .. k + 1
    <3> QED
      BY <2>7, <2>8, <3>1 DEF v
  <2> QED
    BY <2>6, <2>9 DEF d
<1> HIDE DEF Good
<1>9. \A k \in Nat : k \in T
  <2>1. 0 \in T
    BY <1>7
  <2>2. ASSUME NEW k \in Nat, k \in T
        PROVE  k + 1 \in T
    <3> SUFFICES ASSUME k + 1 <= n
                 PROVE  Good(k + 1)
      OBVIOUS
    <3>1. k <= n
      BY <1>1
    <3> QED
      BY <1>8, <2>2, <3>1
  <2> HIDE DEF T
  <2> QED
    BY <2>1, <2>2, NatSetInduction
<1>10. Good(n)
  BY <1>1, <1>9
<1> QED
  BY <1>1, <1>4, <1>5, <1>6, <1>10 DEF Good, n

\* Where the header says the version, and where the cipher suites.
LEMMA HeaderValues ==
  ASSUME NEW o \in Offers
  PROVE  LET u == UpToCompression(o)
             s == Len(o.session)
             w == Len(Wire(o.ciphers))
         IN /\ U16(u, 10) = o.legacy
            /\ \A i \in 1 .. w : u[14 + RandomBytes + s + i] = Wire(o.ciphers)[i]
<1> DEFINE s == Len(o.session)
           wire == Wire(o.ciphers)
           w == Len(wire)
           u == UpToCompression(o)
           r  == RandomBytes
           p1 == <<22, 3, 1, 0, 0, 1, 0, 0, 0>>
           p2 == U16Bytes(o.legacy)
           p3 == [i \in 1 .. RandomBytes |-> 7]
           p4 == Short(o.session)
           p5 == Long(wire)
           p6 == Short(<<0>>)
           u2 == p1 \o p2
           u3 == u2 \o p3
           u4 == u3 \o p4
           u5 == u4 \o p5
           u6 == u5 \o p6
<1>1. u = u6
  BY DEF UpToCompression
<1>2. r \in Nat /\ s \in Nat /\ w \in Nat /\ wire \in Seq(Nat)
  BY RandomAssumption, WireType DEF Offers
<1>3. p1 \in Seq(Nat) /\ Len(p1) = 9
  OBVIOUS
<1>4. p2 \in Seq(Nat) /\ Len(p2) = 2 /\ 256 * p2[1] + p2[2] = o.legacy
  BY U16BytesFacts DEF Offers
<1>5. p3 \in Seq(Nat) /\ Len(p3) = r
  BY RandomAssumption
<1>6. p4 \in Seq(Nat) /\ Len(p4) = 1 + s
  BY ShortFacts DEF Offers
<1>7. p5 \in Seq(Nat) /\ Len(p5) = 2 + w /\ \A i \in 1 .. w : p5[2 + i] = wire[i]
  <2> HIDE DEF wire
  <2> QED
    BY ONLY <1>2, LongFacts
<1>8. p6 \in Seq(Nat)
  <2> DEFINE zero == <<0>>
  <2>1. zero \in Seq(Nat)
    OBVIOUS
  <2> HIDE DEF zero
  <2>2. Short(zero) \in Seq(Nat)
    BY ONLY <2>1, ShortFacts
  <2> QED
    BY ONLY <2>2 DEF zero
<1> HIDE DEF p1, p2, p3, p4, p5, p6, r, s, wire, w, u
<1>9. /\ u2 \in Seq(Nat) /\ Len(u2) = Len(p1) + Len(p2)
      /\ \A i \in 1 .. Len(p2) : u2[Len(p1) + i] = p2[i]
  BY ONLY <1>3, <1>4, CatFacts
<1>10. Len(u2) = 11 /\ u2[10] = p2[1] /\ u2[11] = p2[2]
  <2>1. /\ 1 \in 1 .. Len(p2) /\ 2 \in 1 .. Len(p2) /\ Len(p1) + Len(p2) = 11
        /\ Len(p1) + 1 = 10 /\ Len(p1) + 2 = 11
    BY ONLY <1>3, <1>4
  <2>2. u2[Len(p1) + 1] = p2[1] /\ u2[Len(p1) + 2] = p2[2]
    BY ONLY <1>9, <2>1
  <2> QED
    BY ONLY <1>9, <2>1, <2>2
<1> HIDE DEF u2
<1>11. /\ u3 \in Seq(Nat) /\ Len(u3) = Len(u2) + Len(p3)
       /\ \A i \in 1 .. Len(u2) : u3[i] = u2[i]
  BY ONLY <1>9, <1>5, CatFacts
<1> HIDE DEF u3
<1>12. /\ u4 \in Seq(Nat) /\ Len(u4) = Len(u3) + Len(p4)
       /\ \A i \in 1 .. Len(u3) : u4[i] = u3[i]
  BY ONLY <1>11, <1>6, CatFacts
<1> HIDE DEF u4
<1>13. /\ u5 \in Seq(Nat) /\ Len(u5) = Len(u4) + Len(p5)
       /\ \A i \in 1 .. Len(u4) : u5[i] = u4[i]
       /\ \A i \in 1 .. Len(p5) : u5[Len(u4) + i] = p5[i]
  BY ONLY <1>12, <1>7, CatFacts
<1> HIDE DEF u5
<1>14. \A i \in 1 .. Len(u5) : u6[i] = u5[i]
  BY ONLY <1>13, <1>8, CatFacts
<1> HIDE DEF u6
<1>15. Len(u3) = 11 + r /\ Len(u4) = 12 + r + s /\ Len(u5) = 14 + r + s + w
  BY ONLY <1>2, <1>5, <1>6, <1>7, <1>10, <1>11, <1>12, <1>13
<1>16. u[10] = p2[1] /\ u[11] = p2[2]
  <2>1. /\ 10 \in 1 .. Len(u2) /\ 11 \in 1 .. Len(u2)
        /\ 10 \in 1 .. Len(u3) /\ 11 \in 1 .. Len(u3)
        /\ 10 \in 1 .. Len(u4) /\ 11 \in 1 .. Len(u4)
        /\ 10 \in 1 .. Len(u5) /\ 11 \in 1 .. Len(u5)
    BY ONLY <1>2, <1>10, <1>15
  <2>2. u3[10] = u2[10] /\ u3[11] = u2[11]
    BY ONLY <1>11, <2>1
  <2>3. u4[10] = u3[10] /\ u4[11] = u3[11]
    BY ONLY <1>12, <2>1
  <2>4. u5[10] = u4[10] /\ u5[11] = u4[11]
    BY ONLY <1>13, <2>1
  <2>5. u6[10] = u5[10] /\ u6[11] = u5[11]
    BY ONLY <1>14, <2>1
  <2> QED
    BY ONLY <1>1, <1>10, <2>2, <2>3, <2>4, <2>5
<1>17. U16(u, 10) = o.legacy
  <2>1. 256 * u[10] + u[10 + 1] = o.legacy
    BY ONLY <1>4, <1>16
  <2> QED
    BY ONLY <2>1 DEF U16
<1>18. ASSUME NEW i \in 1 .. w
       PROVE  u[14 + r + s + i] = wire[i]
  <2>1. /\ 2 + i \in 1 .. Len(p5) /\ Len(u4) + (2 + i) = 14 + r + s + i
        /\ 14 + r + s + i \in 1 .. Len(u5)
    BY ONLY <1>2, <1>7, <1>15, i \in 1 .. w
  <2>2. u5[Len(u4) + (2 + i)] = p5[2 + i]
    BY ONLY <1>13, <2>1
  <2>3. p5[2 + i] = wire[i]
    BY ONLY <1>7, i \in 1 .. w
  <2>4. u6[14 + r + s + i] = u5[14 + r + s + i]
    BY ONLY <1>14, <2>1
  <2> QED
    BY ONLY <1>1, <2>1, <2>2, <2>3, <2>4
<1> QED
  BY <1>17, <1>18 DEF u, r, s, w, wire

\* The bytes from .. last of b are a list of values.
HasValues(b, from, last, values) ==
  /\ from \in Nat /\ last \in Nat /\ last + 1 = from + Len(Wire(values))
  /\ \A i \in 1 .. Len(Wire(values)) : b[(from - 1) + i] = Wire(values)[i]

\* The list is read whole, wherever it stands.
LEMMA ValuesAreRead ==
  ASSUME NEW b, NEW from, NEW last, NEW values \in Seq(Nat), HasValues(b, from, last, values)
  PROVE  U16s(b, from, last) = Genuine(values)
<1> DEFINE wire == Wire(values)
           w    == Len(wire)
           n    == Len(values)
           At(i) == U16(b, from + 2 * (i - 1))
<1>1. from \in Nat /\ last \in Nat /\ n \in Nat
  BY DEF HasValues
<1>2. w = 2 * n /\ \A i \in 1 .. n : 256 * wire[2 * i - 1] + wire[2 * i] = values[i]
  BY ONLY values \in Seq(Nat), WireFacts
<1>3. last + 1 = from + w /\ \A i \in 1 .. w : b[(from - 1) + i] = wire[i]
  BY DEF HasValues
<1> HIDE DEF wire, w, n
<1>4. (last + 1 - from) \div 2 = n
  BY ONLY <1>1, <1>2, <1>3
<1>5. ASSUME NEW i \in 1 .. n
      PROVE  At(i) = values[i]
  <2> DEFINE p == from + 2 * (i - 1)
  <2>1. /\ 2 * i - 1 \in 1 .. w /\ 2 * i \in 1 .. w
        /\ p = (from - 1) + (2 * i - 1) /\ p + 1 = (from - 1) + 2 * i
    BY ONLY <1>1, <1>2, i \in 1 .. n
  <2> HIDE DEF p
  <2>2. b[p] = wire[2 * i - 1] /\ b[p + 1] = wire[2 * i]
    BY ONLY <1>3, <2>1
  <2>3. 256 * wire[2 * i - 1] + wire[2 * i] = values[i]
    BY ONLY <1>2, i \in 1 .. n
  <2>4. U16(b, p) = values[i]
    BY ONLY <2>2, <2>3 DEF U16
  <2> QED
    BY ONLY <2>4 DEF p
<1>6. [i \in 1 .. n |-> At(i)] = values
  <2> HIDE DEF At
  <2>1. values = [i \in 1 .. n |-> values[i]]
    BY DEF n
  <2> QED
    BY ONLY <1>5, <2>1
<1>7. U16s(b, from, last) = Genuine([i \in 1 .. (last + 1 - from) \div 2 |-> At(i)])
  BY Zenon DEF U16s
<1> HIDE DEF At
<1> QED
  BY ONLY <1>4, <1>6, <1>7

\* What is parsed of the header of an offer is the offer's.
LEMMA HeaderSays ==
  ASSUME NEW o \in Offers, NEW exts
  PROVE  Parsed(UpToCompression(o), Len(o.session), Len(Wire(o.ciphers)), exts)
         = Hello(o.legacy, Genuine(o.ciphers), exts)
<1> DEFINE u    == UpToCompression(o)
           s    == Len(o.session)
           c    == o.ciphers
           w    == Len(Wire(c))
           from == 15 + RandomBytes + s
           last == 14 + RandomBytes + s + w
<1>1. c \in Seq(Nat) /\ s \in Nat /\ RandomBytes \in Nat
  BY RandomAssumption DEF Offers
<1>2. w \in Nat
  <2>1. Wire(c) \in Seq(Nat)
    BY <1>1, WireFacts
  <2> QED
    BY <2>1
<1>3. /\ U16(u, 10) = o.legacy
      /\ \A i \in 1 .. w : u[14 + RandomBytes + s + i] = Wire(c)[i]
  BY HeaderValues
<1> HIDE DEF u, s, c
<1>4. HasValues(u, from, last, c)
  <2>1. /\ from \in Nat /\ last \in Nat /\ last + 1 = from + w
        /\ from - 1 = 14 + RandomBytes + s
    BY ONLY <1>1, <1>2
  <2> HIDE DEF from, last
  <2> QED
    BY ONLY <1>3, <2>1 DEF HasValues
<1>5. U16s(u, from, last) = Genuine(c)
  BY ONLY <1>1, <1>4, ValuesAreRead
<1> QED
  BY ONLY <1>3, <1>5 DEF Parsed, u, s, c

\* What was read off a connection is what its client sent, in the order it was sent:
\* the version, the cipher suites, and every extension with its body, but GREASE.
ReadAsSent ==
  ch = Hello(offer.legacy, Genuine(offer.ciphers),
             GenuineExtensions(AsRead(offer.extensions)))

\* A hello that arrives whole is read in full, however long its lists are and
\* whatever bytes its extensions carry (ja4.go:88-186): nothing that is written is
\* skipped, nothing is read twice, and no length is taken for a value.
THEOREM HellosAreReadAsSent == Spec => []ReadAsSent
<1>1. OfferInv => ReadAsSent
  BY WholeHelloIsRead, HeaderSays, Zenon DEF OfferInv, ReadAsSent
<1> QED
  BY <1>1, OfferTyping, PTL

------------------------------------------------------------------------------
(* Lists without GREASE.                                                    *)

\* The pieces that Without flattens.
Kept(s, drop) == [i \in 1 .. Len(s) |-> IF s[i] \in drop THEN <<>> ELSE <<s[i]>>]

\* r is what is left of the first k of s.
LeftOf(s, drop, k, r) ==
  /\ ToSet(r) = { s[i] : i \in 1 .. k } \ drop
  /\ IsInjective(s) => IsInjective(r)

\* What a list without some values is: what is left is in it, nothing else, and
\* no value more often than before.
LEMMA WithoutFacts ==
  ASSUME NEW X, NEW s \in Seq(X), NEW drop
  PROVE  /\ Without(s, drop) \in Seq(X)
         /\ ToSet(Without(s, drop)) = ToSet(s) \ drop
         /\ IsInjective(s) => IsInjective(Without(s, drop))
<1> DEFINE n     == Len(s)
           parts == Kept(s, drop)
<1>1. n \in Nat /\ DOMAIN s = 1 .. n /\ \A i \in 1 .. n : s[i] \in X
  OBVIOUS
<1>2. parts \in Seq(Seq(X)) /\ Len(parts) = n
  <2>1. \A i \in 1 .. n : parts[i] \in Seq(X)
    BY <1>1 DEF Kept
  <2>2. parts = [i \in 1 .. n |-> parts[i]]
    BY DEF Kept
  <2> HIDE DEF parts, n
  <2> QED
    BY <1>1, <2>1, <2>2
<1>3. Without(s, drop) = FlattenSeq(parts)
  BY <1>1, Zenon DEF Without, Kept
<1>4. PICK f \in [0 .. n -> Seq(X)] : Partial(parts, n, f)
  BY <1>2, PartialExists
<1>5. FlattenSeq(parts) = f[n]
  BY <1>2, <1>4, FlattenIsLastPrefix
<1> DEFINE Good(k) == LeftOf(s, drop, k, f[k])
           T       == {k \in Nat : k <= n => Good(k)}
<1>6. Good(0)
  <2>1. f[0] = <<>>
    BY <1>4 DEF Partial
  <2>2. ToSet(f[0]) = {} /\ IsInjective(f[0])
    BY <2>1 DEF ToSet, IsInjective
  <2>3. { s[i] : i \in 1 .. 0 } = {}
    OBVIOUS
  <2> QED
    BY <2>2, <2>3 DEF LeftOf
<1>7. ASSUME NEW k \in Nat, k + 1 <= n, Good(k)
      PROVE  Good(k + 1)
  <2> DEFINE a == f[k]
             c == f[k + 1]
             v == s[k + 1]
  <2>1. k + 1 \in 1 .. n /\ k \in 0 .. n /\ k + 1 \in 0 .. n /\ (k + 1) - 1 = k
    BY <1>1, <1>7
  <2>2. a \in Seq(X) /\ v \in X
    BY <1>1, <2>1
  <2>3. parts[k + 1] = IF v \in drop THEN <<>> ELSE <<v>>
    BY <2>1 DEF Kept
  <2>4. c = a \o parts[k + 1]
    <3>1. f[k + 1] = f[(k + 1) - 1] \o parts[k + 1]
      BY ONLY <1>4, <2>1 DEF Partial
    <3> QED
      BY ONLY <2>1, <3>1
  <2>5. ToSet(a) = { s[i] : i \in 1 .. k } \ drop /\ (IsInjective(s) => IsInjective(a))
    BY <1>7 DEF LeftOf
  <2>6. { s[i] : i \in 1 .. k + 1 } = { s[i] : i \in 1 .. k } \union {v}
    <3>1. 1 .. k + 1 = (1 .. k) \union {k + 1}
      OBVIOUS
    <3> QED
      BY <3>1
  <2> HIDE DEF a, c, parts
  <2>7. CASE v \in drop
    <3>1. c = a
      BY <2>2, <2>3, <2>4, <2>7
    <3>2. { s[i] : i \in 1 .. k + 1 } \ drop = { s[i] : i \in 1 .. k } \ drop
      BY <2>6, <2>7
    <3> QED
      BY <2>5, <3>1, <3>2 DEF LeftOf, a, c
  <2>8. CASE v \notin drop
    <3> DEFINE m == Len(a)
    <3>1. m \in Nat /\ DOMAIN a = 1 .. m
      BY <2>2
    <3>2. c \in Seq(X) /\ Len(c) = m + 1 /\ c[m + 1] = v /\ \A j \in 1 .. m : c[j] = a[j]
      BY <2>2, <2>3, <2>4, <2>8
    <3> HIDE DEF m, v
    <3>3. DOMAIN c = (1 .. m) \union {m + 1}
      BY <3>1, <3>2
    <3>4. ToSet(c) = ToSet(a) \union {v}
      BY <3>1, <3>2, <3>3 DEF ToSet
    <3>5. ToSet(c) = { s[i] : i \in 1 .. k + 1 } \ drop
      BY <2>5, <2>6, <2>8, <3>4
    <3>6. ASSUME IsInjective(s)
          PROVE  IsInjective(c)
      <4>1. v \notin ToSet(a)
        <5>1. \A i \in 1 .. k : i \in 1 .. n /\ i # k + 1
          BY <1>1, <2>1
        <5>2. \A i \in 1 .. k : s[i] # v
          BY <1>1, <2>1, <3>6, <5>1 DEF IsInjective, v
        <5> QED
          BY <2>5, <5>2
      <4>2. \A j \in 1 .. m : c[j] # v
        BY <3>1, <3>2, <4>1 DEF ToSet
      <4>3. \A i, j \in 1 .. m : c[i] = c[j] => i = j
        BY <2>5, <3>1, <3>2, <3>6 DEF IsInjective
      <4> QED
        BY <3>2, <3>3, <4>2, <4>3 DEF IsInjective
    <3> QED
      BY <3>5, <3>6 DEF LeftOf, c
  <2> QED
    BY <2>7, <2>8
<1> HIDE DEF Good
<1>8. \A k \in Nat : k \in T
  <2>1. 0 \in T
    BY <1>6
  <2>2. ASSUME NEW k \in Nat, k \in T
        PROVE  k + 1 \in T
    <3> SUFFICES ASSUME k + 1 <= n
                 PROVE  Good(k + 1)
      OBVIOUS
    <3>1. k <= n
      BY <1>1
    <3> QED
      BY <1>7, <2>2, <3>1
  <2> HIDE DEF T
  <2> QED
    BY <2>1, <2>2, NatSetInduction
<1>9. Good(n)
  BY <1>1, <1>8
<1>10. { s[i] : i \in 1 .. n } = ToSet(s)
  BY <1>1 DEF ToSet
<1> QED
  BY <1>1, <1>3, <1>4, <1>5, <1>9, <1>10 DEF Good, LeftOf

\* A list that says nothing twice has as many values as entries, and as a bag it
\* is the set of them.
LEMMA InjectiveSequence ==
  ASSUME NEW X, NEW s \in Seq(X), IsInjective(s)
  PROVE  /\ IsFiniteSet(ToSet(s)) /\ Cardinality(ToSet(s)) = Len(s)
         /\ ToBag(s) = SetToBag(ToSet(s))
<1> DEFINE n == Len(s)
<1>1. n \in Nat /\ DOMAIN s = 1 .. n
  OBVIOUS
<1>2. ExistsBijection(1 .. n, ToSet(s))
  <2>1. s = [i \in 1 .. n |-> s[i]]
    BY <1>1
  <2>2. s \in [1 .. n -> ToSet(s)]
    BY <1>1, <2>1 DEF ToSet
  <2>3. \A a, b \in 1 .. n : s[a] = s[b] => a = b
    BY <1>1 DEF IsInjective
  <2>4. \A x \in ToSet(s) : \E i \in 1 .. n : s[i] = x
    BY <1>1 DEF ToSet
  <2> HIDE DEF n
  <2> QED
    BY <2>2, <2>3, <2>4, Fun_IsBij, Fun_ExistsBij
<1>3. IsFiniteSet(ToSet(s)) /\ Cardinality(ToSet(s)) = n
  BY <1>1, <1>2, FS_NatBijection, FS_CountingElements
<1>4. ASSUME NEW x \in Range(s)
      PROVE  Cardinality({i \in DOMAIN s : s[i] = x}) = 1
  <2>1. PICK i \in DOMAIN s : s[i] = x
    BY DEF Range
  <2>2. {j \in DOMAIN s : s[j] = x} = {i}
    BY <2>1 DEF IsInjective
  <2> QED
    BY <2>2, FS_Singleton
<1>5. Range(s) = ToSet(s)
  BY DEF Range, ToSet
<1>6. ToBag(s) = [x \in Range(s) |-> 1]
  BY <1>4, Zenon DEF ToBag
<1> QED
  BY <1>3, <1>5, <1>6, Zenon DEF SetToBag

\* The values that the parser takes for GREASE are those that are.
LEMMA GREASEIsListed ==
  ASSUME NEW v \in Nat
  PROVE  IsGREASE(v) <=> v \in GREASEPoints
<1>1. ASSUME IsGREASE(v)
      PROVE  v \in GREASEPoints
  <2> DEFINE r == v % 256
             k == r \div 16
  <2>1. r \in 0 .. 255 /\ v = 257 * r /\ v % 16 = 10
    BY <1>1 DEF IsGREASE
  <2>2. r % 16 = 10
    <3> HIDE DEF r
    <3> QED
      BY ONLY <2>1
  <2> HIDE DEF r
  <2>3. k \in 0 .. 15 /\ r = 16 * k + 10
    BY ONLY <2>1, <2>2
  <2> HIDE DEF k
  <2>4. v = 2570 + 4112 * k
    BY ONLY <2>1, <2>3
  <2> QED
    BY <2>3, <2>4 DEF GREASEPoints
<1>2. ASSUME v \in GREASEPoints
      PROVE  IsGREASE(v)
  <2>1. PICK k \in 0 .. 15 : v = 2570 + 4112 * k
    BY <1>2 DEF GREASEPoints
  <2> DEFINE r == 16 * k + 10
  <2>2. r \in 0 .. 255 /\ v = 256 * r + r
    BY <2>1
  <2>3. v % 16 = 10
    BY ONLY <2>1
  <2> HIDE DEF r
  <2>4. v \div 256 = r /\ v % 256 = r
    BY ONLY <2>2
  <2> QED
    BY <2>3, <2>4 DEF IsGREASE
<1> QED
  BY <1>1, <1>2

LEMMA ServerNameIsRead ==
  ASSUME NEW v \in Seq(Nat)
  PROVE  ParseSNI(Long(<<0>> \o Long(v))) = v
<1> DEFINE m     == Len(v)
           zero  == <<0>>
           lv    == Long(v)
           inner == zero \o lv
           body  == Long(inner)
<1>1. m \in Nat /\ DOMAIN v = 1 .. m
  OBVIOUS
<1>2. zero \in Seq(Nat) /\ Len(zero) = 1
  OBVIOUS
<1>3. /\ lv \in Seq(Nat) /\ Len(lv) = 2 + m /\ 256 * lv[1] + lv[2] = m
      /\ \A i \in 1 .. m : lv[2 + i] = v[i]
  BY LongFacts
<1> HIDE DEF m, zero, lv
<1>4. /\ inner \in Seq(Nat) /\ Len(inner) = Len(zero) + Len(lv)
      /\ \A i \in 1 .. Len(lv) : inner[Len(zero) + i] = lv[i]
  <2>1. zero \in Seq(Nat) /\ lv \in Seq(Nat)
    BY ONLY <1>2, <1>3
  <2>2. /\ zero \o lv \in Seq(Nat) /\ Len(zero \o lv) = Len(zero) + Len(lv)
        /\ \A i \in 1 .. Len(lv) : (zero \o lv)[Len(zero) + i] = lv[i]
    BY ONLY <2>1, CatFacts, Zenon
  <2> QED
    BY ONLY <2>2 DEF inner
<1> HIDE DEF inner
<1>5. /\ body \in Seq(Nat) /\ Len(body) = 2 + Len(inner)
      /\ \A i \in 1 .. Len(inner) : body[2 + i] = inner[i]
  BY ONLY <1>4, LongFacts
<1> HIDE DEF body
<1>6. Len(inner) = 3 + m /\ Len(body) = 5 + m
  BY ONLY <1>1, <1>2, <1>3, <1>4, <1>5
<1>7. ASSUME NEW i \in 1 .. 2 + m
      PROVE  body[3 + i] = lv[i]
  <2>1. 1 + i \in 1 .. Len(inner) /\ 2 + (1 + i) = 3 + i /\ i \in 1 .. Len(lv)
    BY ONLY <1>1, <1>3, <1>6, i \in 1 .. 2 + m
  <2>2. inner[1 + i] = lv[i]
    BY ONLY <1>2, <1>4, <2>1
  <2> QED
    BY ONLY <1>5, <2>1, <2>2
<1>8. U16(body, 4) = m
  <2>1. 1 \in 1 .. 2 + m /\ 2 \in 1 .. 2 + m /\ 3 + 1 = 4 /\ 3 + 2 = 5 /\ 4 + 1 = 5
    BY ONLY <1>1
  <2>2. body[3 + 1] = lv[1] /\ body[3 + 2] = lv[2]
    BY <1>7, <2>1
  <2> QED
    BY ONLY <1>3, <2>1, <2>2 DEF U16
<1>9. SubSeq(body, 6, 5 + m) = v
  <2>1. /\ SubSeq(body, 6, 5 + m) = [i \in 1 .. m |-> body[i + 5]]
    BY ONLY <1>1, <1>5, <1>6
  <2>2. \A i \in 1 .. m : body[i + 5] = v[i]
    <3> TAKE i \in 1 .. m
    <3>1. 2 + i \in 1 .. 2 + m /\ 3 + (2 + i) = i + 5
      BY ONLY <1>1, i \in 1 .. m
    <3>2. body[3 + (2 + i)] = lv[2 + i]
      BY <1>7, <3>1
    <3> QED
      BY ONLY <1>3, <3>1, <3>2, i \in 1 .. m
  <2>3. v = [i \in 1 .. m |-> v[i]]
    BY <1>1
  <2> QED
    BY ONLY <2>1, <2>2, <2>3
<1>10. ~ (Len(body) < 5 \/ 5 + m > Len(body))
  BY ONLY <1>1, <1>6
<1>11. ParseSNI(body) = v
  BY ONLY <1>8, <1>9, <1>10 DEF ParseSNI
<1> QED
  BY ONLY <1>11 DEF body, inner, zero, lv

\* What some sequences flatten to begins with the first.
LEMMA FlattenStarts ==
  ASSUME NEW seqs \in Seq(Seq(Nat)), Len(seqs) # 0
  PROVE  /\ seqs[1] \in Seq(Nat) /\ Len(seqs[1]) <= Len(FlattenSeq(seqs))
         /\ \A i \in 1 .. Len(seqs[1]) : FlattenSeq(seqs)[i] = seqs[1][i]
<1> DEFINE n     == Len(seqs)
           first == seqs[1]
<1>1. n \in Nat \ {0} /\ first \in Seq(Nat)
  OBVIOUS
<1>2. PICK f \in [0 .. n -> Seq(Nat)] : Partial(seqs, n, f)
  BY PartialExists
<1>3. FlattenSeq(seqs) = f[n]
  BY <1>2, FlattenIsLastPrefix
<1> DEFINE Good(s) == Len(first) <= Len(s) /\ \A i \in 1 .. Len(first) : s[i] = first[i]
           T       == {k \in Nat : k + 1 <= n => Good(f[k + 1])}
<1>4. Good(f[1])
  <2>1. f[1] = f[0] \o first /\ f[0] = <<>>
    <3>1. 1 \in 1 .. n /\ 1 - 1 = 0
      BY <1>1
    <3>2. f[1] = f[1 - 1] \o seqs[1] /\ f[0] = <<>>
      BY ONLY <1>2, <3>1 DEF Partial
    <3> QED
      BY ONLY <3>1, <3>2
  <2>2. f[1] = first
    BY <1>1, <2>1, ConcatEmptySeq
  <2> HIDE DEF first
  <2> QED
    BY <1>1, <2>2
<1>5. ASSUME NEW k \in Nat, (k + 1) + 1 <= n, Good(f[k + 1])
      PROVE  Good(f[(k + 1) + 1])
  <2> DEFINE a == f[k + 1]
             p == seqs[(k + 1) + 1]
             c == f[(k + 1) + 1]
  <2>1. (k + 1) + 1 \in 1 .. n /\ k + 1 \in 0 .. n /\ ((k + 1) + 1) - 1 = k + 1
    BY <1>1, <1>5
  <2>2. a \in Seq(Nat) /\ p \in Seq(Nat) /\ c = a \o p
    <3>1. f[(k + 1) + 1] = f[((k + 1) + 1) - 1] \o seqs[(k + 1) + 1]
      BY ONLY <1>2, <2>1 DEF Partial
    <3>2. f[k + 1] \in Seq(Nat)
      BY ONLY <1>2, <2>1
    <3>3. seqs[(k + 1) + 1] \in Seq(Nat)
      BY <2>1
    <3> QED
      BY ONLY <2>1, <3>1, <3>2, <3>3
  <2>3. Good(a)
    BY <1>5
  <2> HIDE DEF a, p, c, first, n
  <2>4. Len(c) = Len(a) + Len(p) /\ \A i \in 1 .. Len(a) : c[i] = a[i]
    BY ONLY <2>2, CatFacts
  <2>5. Len(a) \in Nat /\ Len(p) \in Nat /\ Len(first) \in Nat
    BY ONLY <1>1, <2>2
  <2>6. Len(first) <= Len(c) /\ \A i \in 1 .. Len(first) : i \in 1 .. Len(a)
    BY ONLY <2>3, <2>4, <2>5
  <2>7. Good(c)
    BY ONLY <2>3, <2>4, <2>6
  <2> QED
    BY <2>7 DEF c
<1> HIDE DEF Good
<1>6. \A k \in Nat : k \in T
  <2>1. 0 \in T
    BY <1>4
  <2>2. ASSUME NEW k \in Nat, k \in T
        PROVE  k + 1 \in T
    <3> SUFFICES ASSUME (k + 1) + 1 <= n
                 PROVE  Good(f[(k + 1) + 1])
      OBVIOUS
    <3>1. k + 1 <= n
      BY <1>1
    <3> QED
      BY <1>5, <2>2, <3>1
  <2> HIDE DEF T
  <2> QED
    BY <2>1, <2>2, NatSetInduction
<1>7. n - 1 \in Nat /\ (n - 1) + 1 = n
  BY <1>1
<1>8. Good(f[n])
  <2>1. n - 1 \in T
    BY <1>6, <1>7
  <2> HIDE DEF n
  <2> QED
    BY <1>1, <1>7, <2>1
<1> QED
  BY <1>1, <1>3, <1>8 DEF Good

LEMMA FirstProtocolIsRead ==
  ASSUME NEW v \in Seq(Seq(Nat))
  PROVE  ParseALPN(Long(FlattenSeq([i \in DOMAIN v |-> Short(v[i])])))
         = IF v = <<>> THEN <<>> ELSE v[1]
<1> DEFINE parts == [i \in DOMAIN v |-> Short(v[i])]
           list  == FlattenSeq(parts)
           body  == Long(list)
<1>1. parts \in Seq(Seq(Nat)) /\ Len(parts) = Len(v)
  <2>1. \A i \in DOMAIN v : Short(v[i]) \in Seq(Nat)
    BY ShortFacts
  <2>2. DOMAIN v = 1 .. Len(v) /\ Len(v) \in Nat
    OBVIOUS
  <2> QED
    BY ONLY <2>1, <2>2
<1>2. CASE v = <<>>
  <2>1. Len(parts) = 0
    BY <1>1, <1>2
  <2> HIDE DEF parts
  <2>2. list = <<>>
    BY ONLY <2>1 DEF FlattenSeq
  <2>3. list \in Seq(Nat) /\ Len(list) = 0
    BY ONLY <2>2
  <2> HIDE DEF list
  <2>4. Len(body) = 2 + Len(list)
    BY ONLY <2>3, LongFacts
  <2> HIDE DEF body
  <2>5. Len(body) < 3
    BY ONLY <2>3, <2>4
  <2>6. ParseALPN(body) = <<>>
    BY ONLY <2>5 DEF ParseALPN
  <2> QED
    BY ONLY <1>2, <2>6 DEF body, list, parts
<1>3. CASE v # <<>>
  <2> DEFINE first == v[1]
             m     == Len(first)
             piece == Short(first)
  <2>1. Len(v) # 0 /\ first \in Seq(Nat) /\ m \in Nat /\ parts[1] = piece
    BY <1>3
  <2>2. list \in Seq(Nat)
    <3> HIDE DEF parts
    <3> QED
      BY ONLY <1>1, FlattenType
  <2>3. /\ Len(parts[1]) <= Len(list)
        /\ \A i \in 1 .. Len(parts[1]) : list[i] = parts[1][i]
    <3>1. Len(parts) # 0
      BY <1>1, <2>1
    <3> HIDE DEF parts
    <3> QED
      BY ONLY <1>1, <3>1, FlattenStarts
  <2> HIDE DEF list, parts, first, m
  <2>4. /\ Len(piece) = 1 + m /\ piece[1] = m
        /\ \A i \in 1 .. m : piece[1 + i] = first[i]
    <3> DEFINE one == <<m>>
    <3>1. one \in Seq(Nat) /\ Len(one) = 1 /\ one[1] = m
      BY <2>1
    <3>2. piece = one \o first
      BY DEF Short, m
    <3> HIDE DEF one, piece
    <3>3. /\ Len(piece) = Len(one) + Len(first)
          /\ \A i \in 1 .. Len(one) : piece[i] = one[i]
          /\ \A i \in 1 .. Len(first) : piece[Len(one) + i] = first[i]
      <4>1. one \in Seq(Nat) /\ first \in Seq(Nat)
        BY <2>1, <3>1
      <4> QED
        BY ONLY <3>2, <4>1, CatFacts
    <3>4. 1 \in 1 .. Len(one) /\ m = Len(first)
      BY ONLY <3>1 DEF m
    <3> QED
      BY ONLY <3>1, <3>3, <3>4
  <2> HIDE DEF piece
  <2>5. /\ body \in Seq(Nat) /\ Len(body) = 2 + Len(list)
        /\ \A i \in 1 .. Len(list) : body[2 + i] = list[i]
    BY ONLY <2>2, LongFacts
  <2> HIDE DEF body
  <2>6. Len(list) \in Nat /\ 1 + m <= Len(list)
    BY ONLY <2>1, <2>2, <2>3, <2>4
  <2>7. ASSUME NEW i \in 1 .. 1 + m
        PROVE  body[2 + i] = piece[i]
    <3>1. i \in 1 .. Len(list) /\ i \in 1 .. Len(piece)
      BY ONLY <2>1, <2>4, <2>6, i \in 1 .. 1 + m
    <3> QED
      BY ONLY <2>1, <2>3, <2>5, <3>1
  <2>8. body[3] = m
    <3>1. 1 \in 1 .. 1 + m /\ 2 + 1 = 3
      BY ONLY <2>1
    <3>2. body[2 + 1] = piece[1]
      BY <2>7, <3>1
    <3> QED
      BY ONLY <2>4, <3>1, <3>2
  <2>9. SubSeq(body, 4, 3 + m) = first
    <3>1. SubSeq(body, 4, 3 + m) = [i \in 1 .. m |-> body[i + 3]]
      BY ONLY <2>1, <2>5, <2>6
    <3>2. \A i \in 1 .. m : body[i + 3] = first[i]
      <4> TAKE i \in 1 .. m
      <4>1. 1 + i \in 1 .. 1 + m /\ 2 + (1 + i) = i + 3
        BY ONLY <2>1, i \in 1 .. m
      <4>2. body[2 + (1 + i)] = piece[1 + i]
        BY <2>7, <4>1
      <4> QED
        BY ONLY <2>4, <4>1, <4>2, i \in 1 .. m
    <3>3. first = [i \in 1 .. m |-> first[i]]
      BY <2>1 DEF m
    <3> QED
      BY ONLY <3>1, <3>2, <3>3
  <2>10. ~ (Len(body) < 3 \/ 3 + m > Len(body))
    BY ONLY <2>1, <2>5, <2>6
  <2>11. ParseALPN(body) = first
    BY ONLY <2>8, <2>9, <2>10 DEF ParseALPN
  <2> QED
    BY ONLY <1>3, <2>11 DEF body, list, parts, first
<1> QED
  BY <1>2, <1>3

LEMMA ListIsRead ==
  ASSUME NEW v \in Seq(Nat)
  PROVE  ParseU16List(Long(Wire(v))) = Genuine(v)
<1> DEFINE wire == Wire(v)
           body == Long(wire)
<1>1. wire \in Seq(Nat) /\ Len(wire) \in Nat
  BY WireType
<1>2. Len(body) = 2 + Len(wire) /\ \A i \in 1 .. Len(wire) : body[2 + i] = wire[i]
  <2> HIDE DEF wire
  <2> QED
    BY ONLY <1>1, LongFacts
<1> HIDE DEF body
<1>3. HasValues(body, 3, Len(body), v)
  <2>1. 3 - 1 = 2
    OBVIOUS
  <2> HIDE DEF wire
  <2>2. Len(body) \in Nat /\ Len(body) + 1 = 3 + Len(wire)
    BY ONLY <1>1, <1>2
  <2> QED
    BY ONLY <1>2, <2>1, <2>2 DEF HasValues, wire
<1>4. U16s(body, 3, Len(body)) = Genuine(v)
  BY ONLY v \in Seq(Nat), <1>3, ValuesAreRead
<1> QED
  BY ONLY <1>4 DEF ParseU16List, body, wire

LEMMA VersionsAreRead ==
  ASSUME NEW v \in Seq(Nat)
  PROVE  ParseSupportedVersions(Short(Wire(v))) = Genuine(v)
<1> DEFINE wire == Wire(v)
           body == Short(wire)
           w    == Len(wire)
<1>1. wire \in Seq(Nat) /\ w \in Nat
  BY WireType
<1>2. /\ body \in Seq(Nat) /\ Len(body) = 1 + w /\ body[1] = w
      /\ \A i \in 1 .. w : body[1 + i] = wire[i]
  <2> DEFINE one == <<w>>
  <2>1. one \in Seq(Nat) /\ Len(one) = 1 /\ one[1] = w
    BY <1>1
  <2>2. body = one \o wire
    BY DEF Short
  <2> HIDE DEF one, body, wire
  <2>3. /\ body \in Seq(Nat) /\ Len(body) = Len(one) + w
        /\ \A i \in 1 .. Len(one) : body[i] = one[i]
        /\ \A i \in 1 .. w : body[Len(one) + i] = wire[i]
    BY ONLY <1>1, <2>1, <2>2, CatFacts
  <2> QED
    BY ONLY <1>1, <2>1, <2>3
<1> HIDE DEF body, w
<1>3. body # <<>>
  BY ONLY <1>1, <1>2
<1>4. Min({Len(body), body[1] + 2}) = 1 + w
  <2>1. {Len(body), body[1] + 2} = {1 + w, w + 2}
    BY ONLY <1>2
  <2>2. Min({1 + w, w + 2}) = 1 + w
    BY ONLY <1>1 DEF Min
  <2> QED
    BY ONLY <2>1, <2>2
<1>5. HasValues(body, 2, 1 + w, v)
  <2>1. 2 - 1 = 1
    OBVIOUS
  <2>2. 1 + w \in Nat /\ (1 + w) + 1 = 2 + w
    BY ONLY <1>1
  <2> QED
    BY ONLY <1>2, <2>1, <2>2 DEF HasValues, wire, w
<1>6. U16s(body, 2, 1 + w) = Genuine(v)
  BY ONLY v \in Seq(Nat), <1>5, ValuesAreRead
<1> QED
  BY ONLY <1>3, <1>4, <1>6 DEF ParseSupportedVersions, body, wire

\* Without the extension, there is nothing to read.
LEMMA NothingIsRead ==
  /\ ParseSNI(<<>>) = <<>> /\ ParseALPN(<<>>) = <<>> /\ ParseSupportedVersions(<<>>) = <<>>
  /\ ParseU16List(<<>>) = Genuine(<<>>) /\ Genuine(<<>>) = <<>>
<1>1. ParseSNI(<<>>) = <<>> /\ ParseALPN(<<>>) = <<>> /\ ParseSupportedVersions(<<>>) = <<>>
  BY DEF ParseSNI, ParseALPN, ParseSupportedVersions
<1>2. ParseU16List(<<>>) = Genuine(<<>>)
  <2> DEFINE none == [i \in 1 .. ((0 + 1 - 3) \div 2) |-> U16(<<>>, 3 + 2 * (i - 1))]
  <2>1. ParseU16List(<<>>) = Genuine(none)
    <3>1. Len(<<>>) = 0
      OBVIOUS
    <3> QED
      BY <3>1, Zenon DEF ParseU16List, U16s
  <2>2. none = <<>>
    OBVIOUS
  <2> QED
    BY <2>1, <2>2
<1>3. Genuine(<<>>) = <<>>
  <2> DEFINE drop == { v \in ToSet(<<>>) : IsGREASE(v) }
             none == [i \in DOMAIN <<>> |-> IF <<>>[i] \in drop THEN <<>> ELSE << <<>>[i] >>]
  <2>1. none = <<>>
    OBVIOUS
  <2>2. FlattenSeq(<<>>) = <<>>
    BY DEF FlattenSeq
  <2> QED
    BY <2>1, <2>2, Zenon DEF Genuine, Without
<1> QED
  BY <1>1, <1>2, <1>3

------------------------------------------------------------------------------
(* What a hello means.                                                      *)

\* No cipher suite and no type of extension twice, which OfferCipher and
\* OfferExtension see to.
OffersOnce(o) ==
  /\ IsInjective(o.ciphers)
  /\ \A i, j \in DOMAIN o.extensions : o.extensions[i].type = o.extensions[j].type => i = j

\* The extensions that the parser keeps of an offer's.
KeptOf(o) == GenuineExtensions(AsRead(o.extensions))

LEMMA CarriedFacts ==
  ASSUME NEW o \in Offers, OffersOnce(o)
  PROVE  /\ \A i \in DOMAIN o.extensions :
              Carried(o, o.extensions[i].type) = o.extensions[i].values
         /\ \A type : type \notin TypesOf(o) => Carried(o, type) = <<>>
<1>1. ASSUME NEW i \in DOMAIN o.extensions
      PROVE  Carried(o, o.extensions[i].type) = o.extensions[i].values
  <2> DEFINE e == o.extensions[i]
             t == e.type
  <2>1. t \in TypesOf(o) /\ e \in ToSet(o.extensions)
    BY DEF TypesOf, ToSet
  <2>2. \A x \in ToSet(o.extensions) : x.type = t => x = e
    BY DEF ToSet, OffersOnce
  <2> HIDE DEF e, t
  <2>3. (CHOOSE x \in ToSet(o.extensions) : x.type = t) = e
    BY <2>1, <2>2 DEF t
  <2> QED
    BY <2>1, <2>3 DEF Carried, e, t
<1> QED
  BY <1>1 DEF Carried

LEMMA KeptFacts ==
  ASSUME NEW o \in Offers, OffersOnce(o)
  PROVE  /\ KeptOf(o) \in Seq([type : Nat, body : Seq(Nat)])
         /\ IsInjective(KeptOf(o))
         /\ ToSet(KeptOf(o))
            = { [type |-> o.extensions[i].type, body |-> Body(o.extensions[i])] :
                i \in { j \in DOMAIN o.extensions : o.extensions[j].type \notin GREASEPoints } }
<1> DEFINE exts == o.extensions
           n    == Len(exts)
           recs == AsRead(exts)
           X    == [type : Nat, body : Seq(Nat)]
           Rec(i) == [type |-> exts[i].type, body |-> Body(exts[i])]
           drop == { e \in ToSet(recs) : IsGREASE(e.type) }
<1>1. n \in Nat /\ DOMAIN exts = 1 .. n /\ \A i \in 1 .. n : exts[i] \in Extensions
  BY DEF Offers
<1>2. \A i \in 1 .. n : exts[i].type \in Nat /\ Body(exts[i]) \in Seq(Nat)
  BY <1>1, OfferAssumption, BodyType
<1>3. recs = [i \in 1 .. n |-> Rec(i)]
  BY DEF AsRead
<1>4. \A i \in 1 .. n : Rec(i) \in X /\ Rec(i).type = exts[i].type
  BY <1>2
<1> HIDE DEF Rec, recs, X, n
<1>5. recs \in Seq(X) /\ DOMAIN recs = 1 .. n /\ \A i \in 1 .. n : recs[i] = Rec(i)
  BY ONLY <1>1, <1>3, <1>4
<1>6. IsInjective(recs)
  <2>1. \A i, j \in 1 .. n : recs[i] = recs[j] => i = j
    BY <1>1, <1>4, <1>5 DEF OffersOnce
  <2> QED
    BY <1>5, <2>1 DEF IsInjective
<1>7. KeptOf(o) = Without(recs, drop)
  BY Zenon DEF KeptOf, GenuineExtensions, recs
<1> HIDE DEF drop
<1>8. /\ KeptOf(o) \in Seq(X) /\ IsInjective(KeptOf(o))
      /\ ToSet(KeptOf(o)) = ToSet(recs) \ drop
  BY ONLY <1>5, <1>6, <1>7, WithoutFacts
<1>9. ToSet(recs) = { Rec(i) : i \in 1 .. n }
  BY <1>5 DEF ToSet
<1>10. \A i \in 1 .. n : Rec(i) \in drop <=> exts[i].type \in GREASEPoints
  BY <1>2, <1>4, <1>9, GREASEIsListed DEF drop
<1>11. ToSet(KeptOf(o))
       = { Rec(i) : i \in { j \in 1 .. n : exts[j].type \notin GREASEPoints } }
  BY <1>8, <1>9, <1>10
<1> QED
  BY <1>1, <1>8, <1>11 DEF X, Rec

\* What is found of a type that is not GREASE: its one extension, or none.
LEMMA BodyFacts ==
  ASSUME NEW o \in Offers, OffersOnce(o), NEW type, type \notin GREASEPoints
  PROVE  /\ \A i \in DOMAIN o.extensions :
              o.extensions[i].type = type => BodyOf(KeptOf(o), type) = Body(o.extensions[i])
         /\ type \notin TypesOf(o) => BodyOf(KeptOf(o), type) = <<>>
<1> DEFINE r    == KeptOf(o)
           n    == Len(r)
           same == { i \in DOMAIN r : r[i].type = type }
           Rec(i) == [type |-> o.extensions[i].type, body |-> Body(o.extensions[i])]
           G    == { j \in DOMAIN o.extensions : o.extensions[j].type \notin GREASEPoints }
<1>1. /\ r \in Seq([type : Nat, body : Seq(Nat)]) /\ IsInjective(r)
      /\ ToSet(r) = { Rec(i) : i \in G }
  BY KeptFacts
<1>2. BodyOf(r, type) = IF same = {} THEN <<>> ELSE r[Max(same)].body
  BY Zenon DEF BodyOf
<1>3. n \in Nat /\ DOMAIN r = 1 .. n
  BY <1>1
<1> HIDE DEF r, G
<1>4. ASSUME NEW i \in DOMAIN o.extensions, o.extensions[i].type = type
      PROVE  BodyOf(r, type) = Body(o.extensions[i])
  <2>1. Rec(i) \in ToSet(r)
    BY <1>1, <1>4 DEF G
  <2>2. PICK k \in DOMAIN r : r[k] = Rec(i)
    BY <2>1 DEF ToSet
  <2>3. ASSUME NEW j \in same
        PROVE  j = k
    <3>1. PICK m \in G : r[j] = Rec(m)
      BY <1>1 DEF ToSet
    <3>2. o.extensions[m].type = type
      BY <3>1
    <3>3. m = i
      BY <1>4, <3>2 DEF G, OffersOnce
    <3>4. r[j] = r[k]
      BY <2>2, <3>1, <3>3
    <3> QED
      BY <1>1, <2>2, <3>4 DEF IsInjective
  <2>4. same = {k}
    BY <1>4, <2>2, <2>3
  <2> HIDE DEF same
  <2>5. k \in Nat
    BY <1>3
  <2>6. Max({k}) = k
    BY ONLY <2>5 DEF Max
  <2> QED
    BY <1>2, <2>2, <2>4, <2>6
<1>5. ASSUME type \notin TypesOf(o)
      PROVE  BodyOf(r, type) = <<>>
  <2>1. ASSUME NEW j \in same
        PROVE  FALSE
    <3>1. PICK m \in G : r[j] = Rec(m)
      BY <1>1 DEF ToSet
    <3> QED
      BY <1>5, <3>1 DEF TypesOf, G
  <2> QED
    BY <1>2, <2>1
<1> QED
  BY <1>4, <1>5 DEF r

\* The types that are counted and hashed.
LEMMA TypesFacts ==
  ASSUME NEW o \in Offers, OffersOnce(o)
  PROVE  /\ Types(KeptOf(o)) \in Seq(Nat) /\ IsInjective(Types(KeptOf(o)))
         /\ Len(Types(KeptOf(o))) \in Nat
         /\ ToSet(Types(KeptOf(o))) = TypesOf(o) \ GREASEPoints
<1> DEFINE r == KeptOf(o)
           n == Len(r)
           t == Types(r)
           Rec(i) == [type |-> o.extensions[i].type, body |-> Body(o.extensions[i])]
           G    == { j \in DOMAIN o.extensions : o.extensions[j].type \notin GREASEPoints }
<1>1. /\ r \in Seq([type : Nat, body : Seq(Nat)]) /\ IsInjective(r)
      /\ ToSet(r) = { Rec(i) : i \in G }
  BY KeptFacts
<1>2. n \in Nat /\ DOMAIN r = 1 .. n /\ \A i \in 1 .. n : r[i].type \in Nat
  <2> DEFINE X == [type : Nat, body : Seq(Nat)]
  <2>1. \A x \in X : x.type \in Nat
    OBVIOUS
  <2>2. r \in Seq(X)
    BY <1>1
  <2> HIDE DEF r, X
  <2>3. n \in Nat /\ DOMAIN r = 1 .. n /\ \A i \in 1 .. n : r[i] \in X
    BY ONLY <2>2
  <2> QED
    BY <2>1, <2>3
<1> HIDE DEF r, G, n
<1>3. t = [i \in 1 .. n |-> r[i].type]
  BY <1>2 DEF Types
<1>4. t \in Seq(Nat) /\ DOMAIN t = 1 .. n
  BY ONLY <1>2, <1>3
<1>5. ASSUME NEW i \in 1 .. n, NEW j \in 1 .. n, t[i] = t[j]
      PROVE  i = j
  <2>1. r[i].type = r[j].type
    BY <1>3, <1>5
  <2>2. PICK a \in G : r[i] = Rec(a)
    BY <1>1, <1>2 DEF ToSet
  <2>3. PICK b \in G : r[j] = Rec(b)
    BY <1>1, <1>2 DEF ToSet
  <2>4. o.extensions[a].type = o.extensions[b].type
    BY <2>1, <2>2, <2>3
  <2>5. a = b
    BY <2>4 DEF G, OffersOnce
  <2> QED
    BY <1>1, <1>2, <2>2, <2>3, <2>5 DEF IsInjective
<1>6. ASSUME NEW x \in ToSet(t)
      PROVE  x \in TypesOf(o) \ GREASEPoints
  <2>1. PICK i \in 1 .. n : x = r[i].type
    BY <1>3, <1>4 DEF ToSet
  <2>2. PICK a \in G : r[i] = Rec(a)
    BY <1>1, <1>2 DEF ToSet
  <2> QED
    BY <2>1, <2>2 DEF G, TypesOf
<1>7. ASSUME NEW x \in TypesOf(o) \ GREASEPoints
      PROVE  x \in ToSet(t)
  <2>1. PICK a \in G : x = o.extensions[a].type
    BY DEF TypesOf, G
  <2>2. PICK i \in 1 .. n : r[i] = Rec(a)
    BY <1>1, <1>2 DEF ToSet
  <2>3. t[i] = x
    BY <1>3, <2>1, <2>2
  <2> QED
    BY <1>4, <2>3 DEF ToSet
<1> HIDE DEF t
<1>8. IsInjective(t) /\ ToSet(t) = TypesOf(o) \ GREASEPoints /\ Len(t) \in Nat
  BY <1>4, <1>5, <1>6, <1>7 DEF IsInjective
<1> QED
  BY <1>4, <1>8 DEF t, r

LEMMA GenuineIs ==
  ASSUME NEW v \in Seq(Nat)
  PROVE  Genuine(v) = Without(v, GREASEPoints)
<1> DEFINE listed == { x \in ToSet(v) : IsGREASE(x) }
           One(i, drop) == IF v[i] \in drop THEN <<>> ELSE <<v[i]>>
           Pieces(drop) == [i \in DOMAIN v |-> One(i, drop)]
<1>1. \A i \in DOMAIN v : v[i] \in listed <=> v[i] \in GREASEPoints
  BY GREASEIsListed DEF ToSet
<1>2. Pieces(listed) = Pieces(GREASEPoints)
  <2>1. \A i \in DOMAIN v : One(i, listed) = One(i, GREASEPoints)
    BY <1>1
  <2> HIDE DEF One
  <2> QED
    BY <2>1
<1>3. Genuine(v) = FlattenSeq(Pieces(listed))
  BY Zenon DEF Genuine, Without
<1>4. Without(v, GREASEPoints) = FlattenSeq(Pieces(GREASEPoints))
  BY Zenon DEF Without
<1> QED
  BY ONLY <1>2, <1>3, <1>4

\* The four kinds of extensions whose bodies are read.
LEMMA CarriedIsRead ==
  ASSUME NEW o \in Offers, OffersOnce(o)
  PROVE  /\ ParseSNI(BodyOf(KeptOf(o), ServerName)) = Carried(o, ServerName)
         /\ ParseALPN(BodyOf(KeptOf(o), ALPN))
            = IF Carried(o, ALPN) = <<>> THEN <<>> ELSE Carried(o, ALPN)[1]
         /\ ParseU16List(BodyOf(KeptOf(o), SigAlgs))
            = Without(Carried(o, SigAlgs), GREASEPoints)
         /\ ParseSupportedVersions(BodyOf(KeptOf(o), SupportedVers))
            = Without(Carried(o, SupportedVers), GREASEPoints)
         /\ Carried(o, SupportedVers) \in Seq(Nat)
<1> DEFINE exts == o.extensions
<1>1. \A i \in DOMAIN exts : exts[i] \in Extensions
  BY DEF Offers
<1>2. {ServerName, ALPN, SigAlgs, SupportedVers} \intersect GREASEPoints = {}
  BY DEF ServerName, ALPN, SigAlgs, SupportedVers, GREASEPoints
<1>3. /\ ServerName # ALPN /\ ServerName # SigAlgs /\ ServerName # SupportedVers
      /\ ALPN # SigAlgs /\ ALPN # SupportedVers /\ SigAlgs # SupportedVers
  BY DEF ServerName, ALPN, SigAlgs, SupportedVers
<1>4. Genuine(<<>>) = Without(<<>>, GREASEPoints) /\ Without(<<>>, GREASEPoints) = <<>>
  <2>1. <<>> \in Seq(Nat)
    OBVIOUS
  <2> QED
    BY ONLY <2>1, GenuineIs, NothingIsRead
<1>5. ASSUME NEW type, type \notin TypesOf(o), type \notin GREASEPoints
      PROVE  BodyOf(KeptOf(o), type) = <<>> /\ Carried(o, type) = <<>>
  BY <1>5, BodyFacts, CarriedFacts
<1>6. ASSUME NEW type \in TypesOf(o), type \notin GREASEPoints
      PROVE  \E e \in Extensions : /\ e.type = type /\ Carried(o, type) = e.values
                                   /\ BodyOf(KeptOf(o), type) = Body(e)
  <2>1. PICK i \in DOMAIN exts : exts[i].type = type
    BY DEF TypesOf
  <2>2. Carried(o, type) = exts[i].values
    BY <2>1, CarriedFacts
  <2>3. BodyOf(KeptOf(o), type) = Body(exts[i])
    BY <1>6, <2>1, BodyFacts
  <2> QED
    BY <1>1, <2>1, <2>2, <2>3
<1>7. ParseSNI(BodyOf(KeptOf(o), ServerName)) = Carried(o, ServerName)
  <2>1. CASE ServerName \notin TypesOf(o)
    BY <1>2, <1>5, <2>1, NothingIsRead
  <2>2. CASE ServerName \in TypesOf(o)
    <3>1. PICK e \in Extensions : /\ e.type = ServerName /\ Carried(o, ServerName) = e.values
                                  /\ BodyOf(KeptOf(o), ServerName) = Body(e)
      BY <1>2, <1>6, <2>2
    <3>2. e.values \in Seq(Nat)
      BY <1>3, <3>1, OfferAssumption
    <3>3. Body(e) = Long(<<0>> \o Long(e.values))
      BY <3>1 DEF Body
    <3> QED
      BY <3>1, <3>2, <3>3, ServerNameIsRead
  <2> QED
    BY <2>1, <2>2
<1>8. ParseALPN(BodyOf(KeptOf(o), ALPN))
      = IF Carried(o, ALPN) = <<>> THEN <<>> ELSE Carried(o, ALPN)[1]
  <2>1. CASE ALPN \notin TypesOf(o)
    BY <1>2, <1>5, <2>1, NothingIsRead
  <2>2. CASE ALPN \in TypesOf(o)
    <3>1. PICK e \in Extensions : /\ e.type = ALPN /\ Carried(o, ALPN) = e.values
                                  /\ BodyOf(KeptOf(o), ALPN) = Body(e)
      BY <1>2, <1>6, <2>2
    <3>2. e.values \in Seq(Seq(Nat))
      BY <3>1, OfferAssumption
    <3>3. Body(e) = Long(FlattenSeq([i \in DOMAIN e.values |-> Short(e.values[i])]))
      BY <1>3, <3>1, Zenon DEF Body
    <3> QED
      BY <3>1, <3>2, <3>3, FirstProtocolIsRead
  <2> QED
    BY <2>1, <2>2
<1>9. ParseU16List(BodyOf(KeptOf(o), SigAlgs)) = Without(Carried(o, SigAlgs), GREASEPoints)
  <2>1. CASE SigAlgs \notin TypesOf(o)
    BY <1>2, <1>4, <1>5, <2>1, NothingIsRead
  <2>2. CASE SigAlgs \in TypesOf(o)
    <3>1. PICK e \in Extensions : /\ e.type = SigAlgs /\ Carried(o, SigAlgs) = e.values
                                  /\ BodyOf(KeptOf(o), SigAlgs) = Body(e)
      BY <1>2, <1>6, <2>2
    <3>2. e.values \in Seq(Nat)
      BY <1>3, <3>1, OfferAssumption
    <3>3. Body(e) = Long(Wire(e.values))
      BY <1>3, <3>1 DEF Body
    <3> QED
      BY <3>1, <3>2, <3>3, ListIsRead, GenuineIs
  <2> QED
    BY <2>1, <2>2
<1>10. /\ ParseSupportedVersions(BodyOf(KeptOf(o), SupportedVers))
          = Without(Carried(o, SupportedVers), GREASEPoints)
       /\ Carried(o, SupportedVers) \in Seq(Nat)
  <2>1. CASE SupportedVers \notin TypesOf(o)
    <3>1. <<>> \in Seq(Nat)
      OBVIOUS
    <3> QED
      BY <1>2, <1>4, <1>5, <2>1, <3>1, NothingIsRead
  <2>2. CASE SupportedVers \in TypesOf(o)
    <3>1. PICK e \in Extensions :
            /\ e.type = SupportedVers /\ Carried(o, SupportedVers) = e.values
            /\ BodyOf(KeptOf(o), SupportedVers) = Body(e)
      BY <1>2, <1>6, <2>2
    <3>2. e.values \in Seq(Nat)
      BY <1>3, <3>1, OfferAssumption
    <3>3. Body(e) = Short(Wire(e.values))
      BY <1>3, <3>1 DEF Body
    <3> QED
      BY <3>1, <3>2, <3>3, VersionsAreRead, GenuineIs
  <2> QED
    BY <2>1, <2>2
<1> QED
  BY <1>7, <1>8, <1>9, <1>10

LEMMA GreatestExists ==
  ASSUME NEW s \in Seq(Nat), ToSet(s) # {}
  PROVE  \E m \in ToSet(s) : \A x \in ToSet(s) : m >= x
<1> DEFINE n == Len(s)
           Has(k) == \E i \in 1 .. k : \A j \in 1 .. k : s[i] >= s[j]
           T == {k \in Nat : k + 1 <= n => Has(k + 1)}
<1>1. n \in Nat /\ DOMAIN s = 1 .. n /\ \A i \in 1 .. n : s[i] \in Nat
  OBVIOUS
<1>2. n # 0
  BY <1>1 DEF ToSet
<1>3. 0 \in T
  <2>1. ASSUME 1 <= n
        PROVE  Has(1)
    <3>1. 1 \in 1 .. n /\ s[1] >= s[1]
      BY <1>1, <2>1
    <3>2. \A j \in 1 .. 1 : j = 1
      OBVIOUS
    <3> QED
      BY <3>1, <3>2
  <2> QED
    BY <2>1
<1>4. ASSUME NEW k \in Nat, (k + 1) + 1 <= n, Has(k + 1)
      PROVE  Has((k + 1) + 1)
  <2>1. PICK i \in 1 .. k + 1 : \A j \in 1 .. k + 1 : s[i] >= s[j]
    BY <1>4
  <2>2. \A j \in 1 .. (k + 1) + 1 : j \in 1 .. n /\ (j \in 1 .. k + 1 \/ j = (k + 1) + 1)
    BY <1>1, <1>4
  <2>3. i \in 1 .. (k + 1) + 1 /\ (k + 1) + 1 \in 1 .. (k + 1) + 1
    OBVIOUS
  <2> HIDE DEF n
  <2>4. CASE s[i] >= s[(k + 1) + 1]
    BY <2>1, <2>2, <2>3, <2>4
  <2>5. CASE ~ (s[i] >= s[(k + 1) + 1])
    <3>1. \A j \in 1 .. (k + 1) + 1 : s[(k + 1) + 1] >= s[j]
      BY <1>1, <2>1, <2>2, <2>3, <2>5
    <3> QED
      BY <2>3, <3>1
  <2> QED
    BY <2>4, <2>5
<1> HIDE DEF Has
<1>5. \A k \in Nat : k \in T
  <2>1. ASSUME NEW k \in Nat, k \in T
        PROVE  k + 1 \in T
    <3> SUFFICES ASSUME (k + 1) + 1 <= n
                 PROVE  Has((k + 1) + 1)
      OBVIOUS
    <3>1. k + 1 <= n
      BY <1>1
    <3> QED
      BY <1>4, <2>1, <3>1
  <2> HIDE DEF T
  <2> QED
    BY <1>3, <2>1, NatSetInduction
<1>6. n - 1 \in Nat /\ (n - 1) + 1 = n
  BY <1>1, <1>2
<1>7. Has(n)
  <2>1. n - 1 \in T
    BY <1>5, <1>6
  <2> HIDE DEF n
  <2> QED
    BY <1>1, <1>6, <2>1
<1> QED
  BY <1>1, <1>7 DEF Has, ToSet

\* The greatest version offered, or the legacy one.
LEMMA VersionIsMeant ==
  ASSUME NEW o \in Offers, OffersOnce(o), NEW ciphers
  PROVE  NegotiatedVersion(Hello(o.legacy, ciphers, KeptOf(o)))
         = LET versions == ToSet(Carried(o, SupportedVers)) \ (GREASEPoints \union {0})
           IN IF versions = {} THEN o.legacy ELSE Max(versions)
<1> DEFINE h        == Hello(o.legacy, ciphers, KeptOf(o))
           v        == Carried(o, SupportedVers)
           versions == ToSet(v) \ (GREASEPoints \union {0})
           read     == ToSet(Without(v, GREASEPoints))
           best     == Max({0} \union read)
<1>1. h.extensions = KeptOf(o) /\ h.legacy = o.legacy
  BY DEF Hello
<1>2. /\ ParseSupportedVersions(BodyOf(KeptOf(o), SupportedVers)) = Without(v, GREASEPoints)
      /\ v \in Seq(Nat)
  BY CarriedIsRead
<1>3. NegotiatedVersion(h) = IF best # 0 THEN best ELSE o.legacy
  BY <1>1, <1>2, Zenon DEF NegotiatedVersion
<1> HIDE DEF v
<1>4. read = ToSet(v) \ GREASEPoints
  BY <1>2, WithoutFacts
<1>5. /\ versions = ToSet(Without(v, GREASEPoints \union {0}))
      /\ Without(v, GREASEPoints \union {0}) \in Seq(Nat)
  BY <1>2, WithoutFacts
<1>6. {0} \union read = {0} \union versions
  BY <1>4
<1>7. versions \subseteq Nat \ {0}
  BY <1>2 DEF ToSet
<1> HIDE DEF versions, read
<1>8. CASE versions = {}
  <2>1. {0} \union read = {0}
    BY <1>6, <1>8
  <2>2. Max({0}) = 0
    BY DEF Max
  <2>3. best = 0
    BY ONLY <2>1, <2>2
  <2> QED
    BY ONLY <1>3, <1>8, <2>3 DEF h, v, versions
<1>9. CASE versions # {}
  <2>1. PICK m \in versions : \A x \in versions : m >= x
    <3> DEFINE s == Without(v, GREASEPoints \union {0})
    <3>1. s \in Seq(Nat) /\ ToSet(s) # {} /\ versions = ToSet(s)
      BY <1>5, <1>9
    <3> HIDE DEF s
    <3> QED
      BY <3>1, GreatestExists
  <2>2. m \in Nat \ {0}
    BY <1>7
  <2>3. Max(versions) = m
    <3>1. \A y \in versions : (\A x \in versions : y >= x) => y = m
      BY <1>7, <2>1
    <3> QED
      BY <2>1, <3>1 DEF Max
  <2>4. Max({0} \union versions) = m
    <3> DEFINE S == {0} \union versions
    <3>1. m \in S /\ \A x \in S : m >= x
      BY <2>1, <2>2
    <3>2. S \subseteq Nat
      BY <1>7
    <3> HIDE DEF S
    <3>3. \A y \in S : (\A x \in S : y >= x) => y = m
      BY <3>1, <3>2
    <3>4. Max(S) = m
      BY <3>1, <3>3 DEF Max
    <3> QED
      BY <3>4 DEF S
  <2>5. best = m
    BY ONLY <1>6, <2>4
  <2> QED
    BY ONLY <1>3, <1>9, <2>2, <2>3, <2>5 DEF h, v, versions
<1> QED
  BY <1>8, <1>9

\* Where what stands at j of a shuffled sequence stood.
Before(i, j) == IF j = i THEN 1 ELSE IF j = 1 THEN i ELSE j

LEMMA SwappedFacts ==
  ASSUME NEW X, NEW s \in Seq(X), NEW i \in DOMAIN s
  PROVE  /\ DOMAIN Swapped(s, i) = DOMAIN s /\ ToSet(Swapped(s, i)) = ToSet(s)
         /\ \A j \in DOMAIN s : Before(i, j) \in DOMAIN s
         /\ \A j \in DOMAIN s : Swapped(s, i)[j] = s[Before(i, j)]
         /\ \A j, k \in DOMAIN s : Before(i, j) = Before(i, k) => j = k
<1>1. 1 \in DOMAIN s /\ i \in DOMAIN s
  OBVIOUS
<1>2. DOMAIN Swapped(s, i) = DOMAIN s
  BY DEF Swapped
<1>3. \A j \in DOMAIN s : Swapped(s, i)[j] = s[Before(i, j)]
  BY <1>1 DEF Swapped, Before
<1>4. \A j \in DOMAIN s : Before(i, j) \in DOMAIN s
  BY <1>1 DEF Before
<1>5. \A j, k \in DOMAIN s : Before(i, j) = Before(i, k) => j = k
  BY DEF Before
<1>6. ToSet(Swapped(s, i)) = ToSet(s)
  <2>1. \A j \in DOMAIN s : Before(i, Before(i, j)) = j
    BY DEF Before
  <2>2. \A j \in DOMAIN s : s[j] = Swapped(s, i)[Before(i, j)]
    BY <1>3, <1>4, <2>1
  <2> QED
    BY <1>2, <1>3, <1>4, <2>2 DEF ToSet
<1> QED
  BY <1>2, <1>3, <1>4, <1>5, <1>6

\* The inductive invariant: what is offered is offered once, however often a client
\* adds to it or shuffles it.
LEMMA OffersAreOnce == Spec => [](OfferInv /\ OffersOnce(offer))
<1>1. Init => OffersOnce(offer)
  <2> SUFFICES ASSUME Init
               PROVE  OffersOnce(offer)
    OBVIOUS
  <2>1. offer.ciphers = <<>> /\ offer.extensions = <<>>
    BY DEF Init
  <2> QED
    BY <2>1 DEF OffersOnce, IsInjective
<1>2. OfferInv /\ OffersOnce(offer) /\ [Next]_vars => OffersOnce(offer')
  <2> SUFFICES ASSUME OfferInv, OffersOnce(offer), [Next]_vars
               PROVE  OffersOnce(offer')
    OBVIOUS
  <2>1. /\ offer.ciphers \in Seq(Nat) /\ offer.extensions \in Seq(Extensions)
        /\ \A q : /\ [offer EXCEPT !.ciphers = q].ciphers = q
                  /\ [offer EXCEPT !.ciphers = q].extensions = offer.extensions
                  /\ [offer EXCEPT !.extensions = q].extensions = q
                  /\ [offer EXCEPT !.extensions = q].ciphers = offer.ciphers
    BY DEF OfferInv, Offers
  <2>2. ASSUME NEW c \in Ciphers, OfferCipher(c)
        PROVE  OffersOnce(offer')
    <3> DEFINE s == offer.ciphers
               t == Append(s, c)
    <3>1. c \notin ToSet(s) /\ offer' = [offer EXCEPT !.ciphers = t]
      BY <2>2 DEF OfferCipher, Received
    <3>2. /\ DOMAIN s = 1 .. Len(s) /\ DOMAIN t = 1 .. Len(s) + 1 /\ Len(s) \in Nat
          /\ t[Len(s) + 1] = c /\ \A j \in 1 .. Len(s) : t[j] = s[j]
      <4>1. c \in Nat
        BY OfferAssumption
      <4> QED
        BY <2>1, <4>1
    <3> HIDE DEF s, t
    <3>3. IsInjective(t)
      <4>1. \A j \in 1 .. Len(s) + 1 : j \in 1 .. Len(s) \/ j = Len(s) + 1
        BY <3>2
      <4>2. \A j \in 1 .. Len(s) : t[j] # c
        BY <3>1, <3>2 DEF ToSet
      <4>3. \A j, k \in 1 .. Len(s) : t[j] = t[k] => j = k
        BY <3>2 DEF OffersOnce, IsInjective, s
      <4> QED
        BY <3>2, <4>1, <4>2, <4>3 DEF IsInjective
    <3> QED
      BY <2>1, <3>1, <3>3 DEF OffersOnce
  <2>3. ASSUME NEW e \in Extensions, OfferExtension(e)
        PROVE  OffersOnce(offer')
    <3> DEFINE s == offer.extensions
               t == Append(s, e)
    <3>1. e.type \notin TypesOf(offer) /\ offer' = [offer EXCEPT !.extensions = t]
      BY <2>3 DEF OfferExtension, Received
    <3>2. /\ DOMAIN s = 1 .. Len(s) /\ DOMAIN t = 1 .. Len(s) + 1 /\ Len(s) \in Nat
          /\ t[Len(s) + 1] = e /\ \A j \in 1 .. Len(s) : t[j] = s[j]
      BY <2>1
    <3> HIDE DEF t
    <3>3. \A j, k \in DOMAIN t : t[j].type = t[k].type => j = k
      <4>1. \A j \in 1 .. Len(s) + 1 : j \in 1 .. Len(s) \/ j = Len(s) + 1
        BY <3>2
      <4>2. \A j \in 1 .. Len(s) : t[j].type # e.type
        BY <3>1, <3>2 DEF TypesOf
      <4>3. \A j, k \in 1 .. Len(s) : t[j].type = t[k].type => j = k
        BY <3>2 DEF OffersOnce
      <4> QED
        BY <3>2, <4>1, <4>2, <4>3
    <3> QED
      BY <2>1, <3>1, <3>3 DEF OffersOnce
  <2>4. CASE Shuffle
    <3>1. ASSUME NEW i \in DOMAIN offer.ciphers,
                 offer' = [offer EXCEPT !.ciphers = Swapped(@, i)]
          PROVE  OffersOnce(offer')
      <4> DEFINE s == offer.ciphers
                 t == Swapped(s, i)
      <4>1. /\ DOMAIN t = DOMAIN s /\ \A j \in DOMAIN s : Before(i, j) \in DOMAIN s
            /\ \A j \in DOMAIN s : t[j] = s[Before(i, j)]
            /\ \A j, k \in DOMAIN s : Before(i, j) = Before(i, k) => j = k
        BY <2>1, SwappedFacts
      <4>2. IsInjective(t)
        <5> HIDE DEF t
        <5> QED
          BY <4>1 DEF OffersOnce, IsInjective
      <4>3. offer'.ciphers = t /\ offer'.extensions = offer.extensions
        BY <2>1, <3>1
      <4> QED
        BY <4>2, <4>3 DEF OffersOnce
    <3>2. ASSUME NEW i \in DOMAIN offer.extensions,
                 offer' = [offer EXCEPT !.extensions = Swapped(@, i)]
          PROVE  OffersOnce(offer')
      <4> DEFINE s == offer.extensions
                 t == Swapped(s, i)
      <4>1. /\ DOMAIN t = DOMAIN s /\ \A j \in DOMAIN s : Before(i, j) \in DOMAIN s
            /\ \A j \in DOMAIN s : t[j] = s[Before(i, j)]
            /\ \A j, k \in DOMAIN s : Before(i, j) = Before(i, k) => j = k
        BY <2>1, SwappedFacts
      <4>2. \A j, k \in DOMAIN t : t[j].type = t[k].type => j = k
        <5> HIDE DEF t
        <5> QED
          BY <4>1 DEF OffersOnce
      <4>3. offer'.extensions = t /\ offer'.ciphers = offer.ciphers
        BY <2>1, <3>2
      <4> QED
        BY <4>2, <4>3 DEF OffersOnce
    <3> QED
      BY <2>4, <3>1, <3>2 DEF Shuffle, Received
  <2>5. CASE UNCHANGED vars
    BY <2>5 DEF vars
  <2> QED
    BY <2>2, <2>3, <2>4, <2>5 DEF Next
<1>3. OffersOnce(offer)' <=> OffersOnce(offer')
  BY DEF OffersOnce
<1> QED
  BY <1>1, <1>2, <1>3, OfferTyping, PTL DEF Spec

\* The lists that are counted and hashed.
LEMMA ListsAreMeant ==
  ASSUME NEW o \in Offers, OffersOnce(o)
  PROVE  /\ Len(Genuine(o.ciphers)) = Cardinality(ToSet(o.ciphers) \ GREASEPoints)
         /\ ToBag(Genuine(o.ciphers)) = SetToBag(ToSet(o.ciphers) \ GREASEPoints)
         /\ ToSet(Types(KeptOf(o))) = TypesOf(o) \ GREASEPoints
         /\ Len(Types(KeptOf(o))) = Cardinality(TypesOf(o) \ GREASEPoints)
         /\ Hashed(Types(KeptOf(o)))
            = SetToBag((TypesOf(o) \ GREASEPoints) \ {ServerName, ALPN})
<1>1. o.ciphers \in Seq(Nat) /\ IsInjective(o.ciphers)
  BY DEF Offers, OffersOnce
<1> DEFINE g == Genuine(o.ciphers)
           t == Types(KeptOf(o))
           h == Without(t, {ServerName, ALPN})
<1>2. g \in Seq(Nat) /\ IsInjective(g) /\ ToSet(g) = ToSet(o.ciphers) \ GREASEPoints
  BY <1>1, GenuineIs, WithoutFacts
<1>3. t \in Seq(Nat) /\ IsInjective(t) /\ ToSet(t) = TypesOf(o) \ GREASEPoints
  BY TypesFacts
<1>4. Hashed(t) = ToBag(h)
  BY Zenon DEF Hashed
<1> HIDE DEF g, t
<1>5. h \in Seq(Nat) /\ IsInjective(h) /\ ToSet(h) = ToSet(t) \ {ServerName, ALPN}
  BY <1>3, WithoutFacts
<1> HIDE DEF h
<1>6. Cardinality(ToSet(g)) = Len(g) /\ ToBag(g) = SetToBag(ToSet(g))
  BY ONLY <1>2, InjectiveSequence
<1>7. Cardinality(ToSet(t)) = Len(t)
  BY ONLY <1>3, InjectiveSequence
<1>8. ToBag(h) = SetToBag(ToSet(h))
  BY ONLY <1>5, InjectiveSequence
<1>9. Hashed(t) = SetToBag((TypesOf(o) \ GREASEPoints) \ {ServerName, ALPN})
  BY ONLY <1>3, <1>4, <1>5, <1>8
<1> QED
  BY ONLY <1>2, <1>3, <1>6, <1>7, <1>9 DEF g, t

\* The JA4 of what is read of an offer is what the offer means.
LEMMA HelloIsMeant ==
  ASSUME NEW o \in Offers, OffersOnce(o)
  PROVE  JA4(Hello(o.legacy, Genuine(o.ciphers), KeptOf(o))) = Meaning(o)
<1> DEFINE h         == Hello(o.legacy, Genuine(o.ciphers), KeptOf(o))
           t         == Types(KeptOf(o))
           versions  == ToSet(Carried(o, SupportedVers)) \ (GREASEPoints \union {0})
           version   == IF versions = {} THEN o.legacy ELSE Max(versions)
           protocols == Carried(o, ALPN)
           protocol  == IF protocols = <<>> THEN <<>> ELSE protocols[1]
           ciphers   == ToSet(o.ciphers) \ GREASEPoints
           types     == TypesOf(o) \ GREASEPoints
           hashed    == types \ {ServerName, ALPN}
           algs      == Without(Carried(o, SigAlgs), GREASEPoints)
<1>1. h.ciphers = Genuine(o.ciphers) /\ h.extensions = KeptOf(o)
  BY DEF Hello
<1>2. NegotiatedVersion(h) = version
  BY VersionIsMeant, Zenon
<1>3. /\ Len(Genuine(o.ciphers)) = Cardinality(ciphers) /\ ToSet(t) = types
      /\ ToBag(Genuine(o.ciphers)) = SetToBag(ciphers)
      /\ Len(t) = Cardinality(types) /\ Hashed(t) = SetToBag(hashed)
  BY ListsAreMeant, Zenon
<1>4. /\ ParseALPN(BodyOf(KeptOf(o), ALPN)) = protocol
      /\ ParseU16List(BodyOf(KeptOf(o), SigAlgs)) = algs
  BY CarriedIsRead, Zenon
<1>5. DOMAIN Hashed(t) = {} <=> hashed = {}
  <2> HIDE DEF hashed, t
  <2>1. DOMAIN SetToBag(hashed) = hashed
    BY DEF SetToBag
  <2> QED
    BY <1>3, <2>1
<1>6. JA4(h) = << << VersionString(version), ServerName \in types,
                     TwoDigits(Cardinality(ciphers)), TwoDigits(Cardinality(types)),
                     ALPNCode(protocol) >>,
                  SetToBag(ciphers),
                  IF hashed = {} THEN <<>> ELSE << SetToBag(hashed), algs >> >>
  <2>1. JA4(h) = << << VersionString(NegotiatedVersion(h)), ServerName \in ToSet(t),
                       TwoDigits(Len(Genuine(o.ciphers))), TwoDigits(Len(t)),
                       ALPNCode(ParseALPN(BodyOf(KeptOf(o), ALPN))) >>,
                    ToBag(Genuine(o.ciphers)),
                    IF DOMAIN Hashed(t) = {} THEN <<>>
                    ELSE << Hashed(t), ParseU16List(BodyOf(KeptOf(o), SigAlgs)) >> >>
    BY <1>1, Zenon DEF JA4
  <2> HIDE DEF h, t, version, protocol, ciphers, types, hashed, algs
  <2> QED
    BY ONLY <1>2, <1>3, <1>4, <1>5, <2>1
<1>7. Meaning(o) = << << VersionString(version), ServerName \in types,
                         TwoDigits(Cardinality(ciphers)), TwoDigits(Cardinality(types)),
                         ALPNCode(protocol) >>,
                      SetToBag(ciphers),
                      IF hashed = {} THEN <<>> ELSE << SetToBag(hashed), algs >> >>
  BY Zenon DEF Meaning
<1> QED
  BY ONLY <1>6, <1>7

\* The JA4 of a whole hello is that of its offer, with any number of GREASE values and
\* of unknown extensions between what it reads: the greatest version, the counts, the
\* first protocol, the bags that are sorted and hashed, the signature algorithms in
\* their order, and the server name (ja4.go:88-186, 271-311, 336-398).
THEOREM HellosAreReadAsMeant == Spec => []ReadAsMeant
<1>1. OfferInv /\ OffersOnce(offer) => ReadAsMeant
  <2> SUFFICES ASSUME OfferInv, OffersOnce(offer)
               PROVE  ReadAsMeant
    OBVIOUS
  <2>1. offer \in Offers
    BY DEF OfferInv
  <2>2. ch = Hello(offer.legacy, Genuine(offer.ciphers), KeptOf(offer))
    BY WholeHelloIsRead, HeaderSays, Zenon DEF OfferInv, KeptOf
  <2>3. ch.ok /\ ch.extensions = KeptOf(offer)
    BY <2>2 DEF Hello
  <2>4. JA4(ch) = Meaning(offer)
    BY <2>1, <2>2, HelloIsMeant
  <2>5. SNIOf(ch) = Carried(offer, ServerName)
    BY <2>1, <2>3, CarriedIsRead, Zenon DEF SNIOf
  <2> QED
    BY <2>3, <2>4, <2>5 DEF ReadAsMeant
<1> QED
  BY <1>1, OffersAreOnce, PTL

\* What of an offer its fingerprint depends on.
Counted(o)  == ToSet(o.ciphers) \ GREASEPoints
TypesIn(o)  == TypesOf(o) \ GREASEPoints
HashedIn(o) == TypesIn(o) \ {ServerName, ALPN}

\* What two offers have to agree in for the same JA4.
LEMMA SameMeaning ==
  ASSUME NEW o, NEW p, o.legacy = p.legacy, Counted(o) = Counted(p), TypesIn(o) = TypesIn(p),
         Carried(o, SupportedVers) = Carried(p, SupportedVers),
         Carried(o, ALPN) = Carried(p, ALPN), Carried(o, SigAlgs) = Carried(p, SigAlgs)
  PROVE  Meaning(o) = Meaning(p)
BY ZenonT(60) DEF Meaning, Counted, TypesIn

\* What two offers with the same JA4 agree in.
LEMMA MeaningTells ==
  ASSUME NEW o, NEW p, Meaning(o) = Meaning(p)
  PROVE  /\ Counted(o) = Counted(p) /\ HashedIn(o) = HashedIn(p)
         /\ ServerName \in TypesIn(o) <=> ServerName \in TypesIn(p)
         /\ TwoDigits(Cardinality(TypesIn(o))) = TwoDigits(Cardinality(TypesIn(p)))
<1> DEFINE Vs(q)  == ToSet(Carried(q, SupportedVers)) \ (GREASEPoints \union {0})
           Ver(q) == VersionString(IF Vs(q) = {} THEN q.legacy ELSE Max(Vs(q)))
           Pr(q)  == ALPNCode(IF Carried(q, ALPN) = <<>> THEN <<>> ELSE Carried(q, ALPN)[1])
           Named(q) == ServerName \in TypesIn(q)
           NC(q)  == TwoDigits(Cardinality(Counted(q)))
           NT(q)  == TwoDigits(Cardinality(TypesIn(q)))
           Algs(q) == Without(Carried(q, SigAlgs), GREASEPoints)
           C(q)   == IF HashedIn(q) = {} THEN <<>> ELSE << SetToBag(HashedIn(q)), Algs(q) >>
           A(q)   == << Ver(q), Named(q), NC(q), NT(q), Pr(q) >>
<1>1. \A q : Meaning(q) = << A(q), SetToBag(Counted(q)), C(q) >>
  BY ZenonT(60) DEF Meaning, Counted, TypesIn, HashedIn
<1> HIDE DEF Vs, Ver, Pr, NC, NT, Algs, Named
<1>2. A(o) = A(p) /\ SetToBag(Counted(o)) = SetToBag(Counted(p)) /\ C(o) = C(p)
  <2> HIDE DEF A, C
  <2>1. << A(o), SetToBag(Counted(o)), C(o) >> = << A(p), SetToBag(Counted(p)), C(p) >>
    BY ONLY <1>1, Meaning(o) = Meaning(p)
  <2> QED
    BY ONLY <2>1
<1>3. (Named(o) <=> Named(p)) /\ NT(o) = NT(p)
  BY ONLY <1>2
<1>4. Counted(o) = Counted(p)
  <2>1. \A S : DOMAIN SetToBag(S) = S
    BY DEF SetToBag
  <2> QED
    BY <1>2, <2>1
<1>5. HashedIn(o) = HashedIn(p)
  <2>1. \A S : DOMAIN SetToBag(S) = S
    BY DEF SetToBag
  <2>2. CASE HashedIn(o) = {} /\ HashedIn(p) # {}
    <3>1. <<>> = << SetToBag(HashedIn(p)), Algs(p) >>
      BY ONLY <1>2, <2>2
    <3> QED
      BY ONLY <3>1
  <2>3. CASE HashedIn(o) # {} /\ HashedIn(p) = {}
    <3>1. <<>> = << SetToBag(HashedIn(o)), Algs(o) >>
      BY ONLY <1>2, <2>3
    <3> QED
      BY ONLY <3>1
  <2>4. CASE HashedIn(o) # {} /\ HashedIn(p) # {}
    <3>1. << SetToBag(HashedIn(o)), Algs(o) >> = << SetToBag(HashedIn(p)), Algs(p) >>
      BY ONLY <1>2, <2>4
    <3>2. SetToBag(HashedIn(o)) = SetToBag(HashedIn(p))
      BY ONLY <3>1
    <3> QED
      BY <2>1, <3>2
  <2> QED
    BY <2>2, <2>3, <2>4
<1> QED
  BY <1>3, <1>4, <1>5 DEF Named, NT

\* The extensions of a type are the same in both.
SameOfType(o, p, type) ==
  \A e : e.type = type => (e \in ToSet(o.extensions) <=> e \in ToSet(p.extensions))

LEMMA SameCarried ==
  ASSUME NEW o \in Offers, NEW p \in Offers, OffersOnce(o), OffersOnce(p), NEW type,
         SameOfType(o, p, type)
  PROVE  Carried(o, type) = Carried(p, type)
<1>1. CASE type \in TypesOf(o)
  <2>1. PICK i \in DOMAIN o.extensions : o.extensions[i].type = type
    BY <1>1 DEF TypesOf
  <2>2. o.extensions[i] \in ToSet(p.extensions)
    BY <2>1 DEF ToSet, SameOfType
  <2>3. PICK j \in DOMAIN p.extensions : p.extensions[j] = o.extensions[i]
    BY <2>2 DEF ToSet
  <2> QED
    BY <2>1, <2>3, CarriedFacts
<1>2. CASE type \notin TypesOf(o)
  <2>1. type \notin TypesOf(p)
    <3> SUFFICES ASSUME NEW j \in DOMAIN p.extensions, p.extensions[j].type = type
                 PROVE  FALSE
      BY DEF TypesOf
    <3>1. p.extensions[j] \in ToSet(o.extensions)
      BY DEF ToSet, SameOfType
    <3> QED
      BY <1>2, <3>1 DEF ToSet, TypesOf
  <2> QED
    BY <1>2, <2>1, CarriedFacts
<1> QED
  BY <1>1, <1>2

LEMMA TypesAreFinite ==
  ASSUME NEW o \in Offers
  PROVE  /\ IsFiniteSet(TypesIn(o)) /\ Cardinality(TypesIn(o)) \in Nat
         /\ Cardinality(TypesIn(o)) <= Len(o.extensions)
<1> DEFINE exts  == o.extensions
           n     == Len(exts)
           types == [i \in 1 .. n |-> exts[i].type]
<1>1. n \in Nat /\ DOMAIN exts = 1 .. n
  BY DEF Offers
<1>2. TypesOf(o) = { types[i] : i \in 1 .. n }
  BY <1>1 DEF TypesOf
<1>3. types \in Surjection(1 .. n, TypesOf(o))
  <2>1. types \in [1 .. n -> TypesOf(o)] /\ \A x \in TypesOf(o) : \E i \in 1 .. n : types[i] = x
    BY <1>2
  <2> HIDE DEF types, n
  <2> QED
    BY ONLY <2>1, Fun_IsSurj
<1> HIDE DEF types, n
<1>4. IsFiniteSet(1 .. n) /\ Cardinality(1 .. n) = n
  BY <1>1, FS_Interval
<1>5. IsFiniteSet(TypesOf(o)) /\ Cardinality(TypesOf(o)) <= n
  BY ONLY <1>3, <1>4, FS_Surjection
<1>6. IsFiniteSet(TypesIn(o)) /\ Cardinality(TypesIn(o)) <= Cardinality(TypesOf(o))
  <2>1. TypesIn(o) \in SUBSET TypesOf(o)
    BY DEF TypesIn
  <2> QED
    BY ONLY <1>5, <2>1, FS_Subset
<1>7. Cardinality(TypesIn(o)) \in Nat /\ Cardinality(TypesOf(o)) \in Nat
  BY ONLY <1>5, <1>6, FS_CardinalityType
<1> QED
  BY ONLY <1>1, <1>5, <1>6, <1>7 DEF n

\* What an offer o becomes when it is p next, as a set of cipher suites and of
\* extensions: the same, or one more of either.
Becomes(o, p, ciphers, exts) ==
  /\ o \in Offers /\ p \in Offers /\ OffersOnce(o) /\ OffersOnce(p)
  /\ p.legacy = o.legacy
  /\ ToSet(p.ciphers) = ToSet(o.ciphers) \union ciphers
  /\ ToSet(p.extensions) = ToSet(o.extensions) \union exts

LEMMA TypesOfIs ==
  ASSUME NEW o
  PROVE  TypesOf(o) = { e.type : e \in ToSet(o.extensions) }
BY DEF TypesOf, ToSet

\* GREASE changes nothing.
LEMMA GREASEMeansNothing ==
  ASSUME NEW o, NEW p, NEW ciphers, NEW exts, Becomes(o, p, ciphers, exts),
         ciphers \subseteq GREASEPoints, \A e \in exts : e.type \in GREASEPoints
  PROVE  Meaning(p) = Meaning(o)
<1>1. Counted(p) = Counted(o)
  BY DEF Becomes, Counted
<1>2. TypesIn(p) = TypesIn(o)
  BY TypesOfIs DEF Becomes, TypesIn
<1>3. ASSUME NEW type, type \notin GREASEPoints
      PROVE  Carried(p, type) = Carried(o, type)
  <2>1. SameOfType(p, o, type)
    BY <1>3 DEF Becomes, SameOfType
  <2> QED
    BY <2>1, SameCarried DEF Becomes
<1>4. {SupportedVers, ALPN, SigAlgs} \intersect GREASEPoints = {}
  BY DEF ALPN, SigAlgs, SupportedVers, GREASEPoints
<1>5. p.legacy = o.legacy
  BY DEF Becomes
<1> QED
  BY <1>1, <1>2, <1>3, <1>4, <1>5, SameMeaning

LEMMA CipherIsMeant ==
  ASSUME NEW o, NEW p, NEW c, Becomes(o, p, {c}, {}),
         c \notin GREASEPoints, c \notin ToSet(o.ciphers)
  PROVE  Meaning(p) # Meaning(o)
<1>1. c \in Counted(p) /\ c \notin Counted(o)
  BY DEF Becomes, Counted
<1> QED
  BY <1>1, MeaningTells

\* The count says so of an ALPN extension that offers no protocol.
LEMMA ExtensionIsMeant ==
  ASSUME NEW o, NEW p, NEW e, Becomes(o, p, {}, {e}),
         e.type \notin GREASEPoints, e.type \notin TypesOf(o), Len(o.extensions) < 99
  PROVE  Meaning(p) # Meaning(o)
<1>1. TypesIn(p) = TypesIn(o) \union {e.type} /\ e.type \notin TypesIn(o)
  BY TypesOfIs DEF Becomes, TypesIn
<1>2. CASE e.type \notin {ServerName, ALPN}
  BY <1>1, <1>2, MeaningTells DEF HashedIn
<1>3. CASE e.type = ServerName
  BY <1>1, <1>3, MeaningTells
<1>4. CASE e.type = ALPN
  <2> DEFINE m == Cardinality(TypesIn(o))
             n == Cardinality(TypesIn(p))
  <2>1. m \in Nat /\ m <= Len(o.extensions) /\ IsFiniteSet(TypesIn(o))
    BY TypesAreFinite DEF Becomes
  <2>2. n = m + 1
    BY <1>1, <2>1, FS_AddElement
  <2>3. Len(o.extensions) \in Nat
    BY DEF Becomes, Offers
  <2>4. TwoDigits(n) # TwoDigits(m)
    <3> HIDE DEF m, n
    <3>1. m < 99 /\ n <= 99 /\ m \in Nat /\ n \in Nat
      BY <2>1, <2>2, <2>3
    <3>2. TwoDigits(m) = m
      BY ONLY <3>1 DEF TwoDigits, Min
    <3>3. TwoDigits(n) = n
      BY ONLY <3>1 DEF TwoDigits, Min
    <3> QED
      BY ONLY <2>1, <2>2, <3>2, <3>3
  <2> QED
    BY <2>4, MeaningTells
<1> QED
  BY <1>2, <1>3, <1>4

LEMMA AppendedSet ==
  ASSUME NEW X, NEW s \in Seq(X), NEW x \in X
  PROVE  ToSet(Append(s, x)) = ToSet(s) \union {x}
<1> DEFINE n == Len(s)
           t == Append(s, x)
<1>1. /\ n \in Nat /\ DOMAIN s = 1 .. n /\ DOMAIN t = 1 .. n + 1
      /\ t[n + 1] = x /\ \A i \in 1 .. n : t[i] = s[i]
  OBVIOUS
<1>2. 1 .. n + 1 = (1 .. n) \union {n + 1}
  BY <1>1
<1> HIDE DEF n, t
<1>3. ToSet(t) = ToSet(s) \union {x}
  BY <1>1, <1>2 DEF ToSet
<1> QED
  BY <1>3 DEF t

\* A client keeps its JA4 when it shuffles its offer or adds GREASE, and changes it with
\* anything else it adds (ja4.go:43-45, 358-360), for offers of any cipher suites and of
\* up to 99 extensions.  The counts end at 99 (ja4.go:287-292), and only the count tells
\* an ALPN extension without a protocol from none.
THEOREM JA4sFollowTheStack ==
  ASSUME MaxExtensions \in 0 .. 99
  PROVE  Spec => JA4FollowsTheStack
<1> DEFINE Same    == JA4(ch') = JA4(ch)
           Renamed == \/ Shuffle
                      \/ \E c \in Ciphers \intersect GREASEPoints : OfferCipher(c)
                      \/ \E e \in Extensions : e.type \in GREASEPoints /\ OfferExtension(e)
           Inv     == OfferInv /\ OffersOnce(offer)
<1>1. Inv /\ Inv' /\ ReadAsMeant /\ ReadAsMeant' /\ [Next]_vars => [Same <=> Renamed]_vars
  <2> SUFFICES ASSUME Inv, Inv', ReadAsMeant, ReadAsMeant', Next
               PROVE  Same <=> Renamed
    BY DEF vars
  <2>1. Same <=> Meaning(offer') = Meaning(offer)
    BY DEF ReadAsMeant
  <2>2. /\ offer \in Offers /\ offer' \in Offers
        /\ OffersOnce(offer) /\ OffersOnce(offer')
    BY DEF OfferInv, OffersOnce
  <2>3. /\ offer.ciphers \in Seq(Nat) /\ offer.extensions \in Seq(Extensions)
        /\ \A q : /\ [offer EXCEPT !.ciphers = q].ciphers = q
                  /\ [offer EXCEPT !.ciphers = q].extensions = offer.extensions
                  /\ [offer EXCEPT !.ciphers = q].legacy = offer.legacy
                  /\ [offer EXCEPT !.extensions = q].extensions = q
                  /\ [offer EXCEPT !.extensions = q].ciphers = offer.ciphers
                  /\ [offer EXCEPT !.extensions = q].legacy = offer.legacy
    BY <2>2 DEF Offers
  <2> HIDE DEF Same, Inv
  <2>4. ASSUME NEW c \in Ciphers, OfferCipher(c)
        PROVE  Becomes(offer, offer', {c}, {}) /\ c \notin ToSet(offer.ciphers)
    <3>1. /\ c \notin ToSet(offer.ciphers)
          /\ offer' = [offer EXCEPT !.ciphers = Append(offer.ciphers, c)]
      BY <2>4 DEF OfferCipher, Received
    <3>2. c \in Nat
      BY OfferAssumption
    <3>3. ToSet(Append(offer.ciphers, c)) = ToSet(offer.ciphers) \union {c}
      BY <2>3, <3>2, AppendedSet
    <3> QED
      BY <2>2, <2>3, <3>1, <3>3 DEF Becomes
  <2>5. ASSUME NEW e \in Extensions, OfferExtension(e)
        PROVE  /\ Becomes(offer, offer', {}, {e}) /\ e.type \notin TypesOf(offer)
               /\ Len(offer.extensions) < 99
    <3>1. /\ e.type \notin TypesOf(offer) /\ Len(offer.extensions) < MaxExtensions
          /\ offer' = [offer EXCEPT !.extensions = Append(offer.extensions, e)]
      BY <2>5 DEF OfferExtension, Received
    <3>2. ToSet(Append(offer.extensions, e)) = ToSet(offer.extensions) \union {e}
      BY <2>3, AppendedSet
    <3>3. Len(offer.extensions) < 99
      <4>1. Len(offer.extensions) \in Nat
        BY <2>3
      <4>2. Len(offer.extensions) < MaxExtensions
        BY ONLY <3>1
      <4>3. MaxExtensions \in Int /\ MaxExtensions <= 99
        OBVIOUS
      <4> QED
        BY ONLY <4>1, <4>2, <4>3
    <3> QED
      BY <2>2, <2>3, <3>1, <3>2, <3>3 DEF Becomes
  <2>6. ASSUME Shuffle
        PROVE  Becomes(offer, offer', {}, {})
    <3>1. CASE \E i \in DOMAIN offer.ciphers :
                 offer' = [offer EXCEPT !.ciphers = Swapped(offer.ciphers, i)]
      BY <2>2, <2>3, <3>1, SwappedFacts DEF Becomes
    <3>2. CASE \E i \in DOMAIN offer.extensions :
                 offer' = [offer EXCEPT !.extensions = Swapped(offer.extensions, i)]
      BY <2>2, <2>3, <3>2, SwappedFacts DEF Becomes
    <3> QED
      BY <2>6, <3>1, <3>2 DEF Shuffle, Received
  <2>7. ASSUME Renamed
        PROVE  Same
    <3>1. CASE Shuffle
      BY <2>1, <2>6, <3>1, GREASEMeansNothing
    <3>2. ASSUME NEW c \in Ciphers \intersect GREASEPoints, OfferCipher(c)
          PROVE  Same
      <4>1. Becomes(offer, offer', {c}, {})
        BY <2>4, <3>2
      <4>2. {c} \subseteq GREASEPoints /\ \A e \in {} : e.type \in GREASEPoints
        OBVIOUS
      <4>3. Meaning(offer') = Meaning(offer)
        BY <4>1, <4>2, GREASEMeansNothing
      <4> QED
        BY <2>1, <4>3
    <3>3. ASSUME NEW e \in Extensions, e.type \in GREASEPoints, OfferExtension(e)
          PROVE  Same
      <4>1. Becomes(offer, offer', {}, {e})
        BY <2>5, <3>3
      <4>2. {} \subseteq GREASEPoints /\ \A x \in {e} : x.type \in GREASEPoints
        BY <3>3
      <4>3. Meaning(offer') = Meaning(offer)
        BY <4>1, <4>2, GREASEMeansNothing
      <4> QED
        BY <2>1, <4>3
    <3> QED
      BY <2>7, <3>1, <3>2, <3>3
  <2>8. ASSUME Same
        PROVE  Renamed
    <3>1. ASSUME NEW c \in Ciphers, OfferCipher(c), c \notin GREASEPoints
          PROVE  FALSE
      BY <2>1, <2>4, <2>8, <3>1, CipherIsMeant
    <3>2. ASSUME NEW e \in Extensions, OfferExtension(e), e.type \notin GREASEPoints
          PROVE  FALSE
      BY <2>1, <2>5, <2>8, <3>2, ExtensionIsMeant
    <3> QED
      BY <3>1, <3>2 DEF Next
  <2> QED
    BY <2>7, <2>8
<1> QED
  BY <1>1, OffersAreOnce, HellosAreReadAsMeant, PTL DEF Spec, JA4FollowsTheStack
==============================================================================
