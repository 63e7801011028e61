----------------------------- MODULE ClientHello -----------------------------
(***************************************************************************)
(* The ClientHello parser and the JA4 fingerprint (tlsfront/ja4.go).       *)
(*                                                                         *)
(* A record is a sequence of bytes; positions count from 1.  The digests   *)
(* in a JA4 are taken to be injective, so a sorted and hashed list is the  *)
(* bag of its values, and a list hashed as it stands is itself.            *)
(***************************************************************************)
EXTENDS Integers, SequencesExt

CONSTANT RandomBytes   \* length of the client random, 32

ASSUME RandomAssumption == RandomBytes \in Nat

ServerName    == 0     \* extServerName
ALPN          == 16    \* extALPN
SigAlgs       == 13    \* extSigAlgs
SupportedVers == 43    \* extSupportedVers

\* errNotClientHello
NotClientHello == [ok |-> FALSE]

\* Mutant: the high byte is not compared with the low one.
EndsInA(v) == v % 16 = 10

IsGREASE(v) == v \div 256 = v % 256 /\ v % 16 = 10

\* s without the values in drop: the loop that appends what it keeps.
Without(s, drop) ==
  FlattenSeq([i \in DOMAIN s |-> IF s[i] \in drop THEN <<>> ELSE <<s[i]>>])

Genuine(values) == Without(values, { v \in ToSet(values) : IsGREASE(v) })

U16(b, i) == 256 * b[i] + b[i + 1]

\* The whole u16s among the bytes from .. last.
U16s(b, from, last) ==
  Genuine([i \in 1 .. ((last + 1 - from) \div 2) |-> U16(b, from + 2 * (i - 1))])

------------------------------------------------------------------------------
GenuineExtensions(exts) == Without(exts, { e \in ToSet(exts) : IsGREASE(e.type) })

\* The extensions among the bytes from .. last.  One that claims to reach beyond
\* them ends the list; those before it are kept.
ExtensionsIn(b, from, last) ==
  LET Read[p \in Nat] ==
        IF p + 3 > last \/ p + 3 + U16(b, p + 2) > last THEN <<>>
        ELSE << [type |-> U16(b, p), body |-> SubSeq(b, p + 4, p + 3 + U16(b, p + 2))] >>
             \o Read[p + 4 + U16(b, p + 2)]
  IN GenuineExtensions(Read[from])

\* The body of the last extension of a type, or an empty one.
BodyOf(exts, type) ==
  LET same == { i \in DOMAIN exts : exts[i].type = type }
  IN IF same = {} THEN <<>> ELSE exts[Max(same)].body

ParseSNI(body) ==
  IF Len(body) < 5 \/ 5 + U16(body, 4) > Len(body) THEN <<>>
  ELSE SubSeq(body, 6, 5 + U16(body, 4))

\* The first protocol of the list; no other one is read.
ParseALPN(body) ==
  IF Len(body) < 3 \/ 3 + body[3] > Len(body) THEN <<>> ELSE SubSeq(body, 4, 3 + body[3])

ParseU16List(body) == U16s(body, 3, Len(body))

ParseSupportedVersions(body) ==
  IF body = <<>> THEN <<>> ELSE U16s(body, 2, Min({Len(body), body[1] + 2}))

Hello(version, ciphers, exts) ==
  [ ok |-> TRUE, legacy |-> version, ciphers |-> ciphers, extensions |-> exts ]

\* Where the parts of a record begin, each found by the length of the one before.
SessionAt         == 12 + RandomBytes
CiphersAt(b)      == SessionAt + 1 + b[SessionAt]
CompressionAt(b)  == CiphersAt(b) + 2 + U16(b, CiphersAt(b))
ExtensionsAt(b)   == CompressionAt(b) + 1 + b[CompressionAt(b)]
ExtensionsEnd(b)  == ExtensionsAt(b) + 1 + U16(b, ExtensionsAt(b))

\* The record is there up to the end of the compression methods.
HasCiphers(b) ==
  /\ Len(b) >= 9 /\ b[1] = 22 /\ b[6] = 1
  /\ SessionAt <= Len(b)
  /\ CiphersAt(b) + 1 <= Len(b)
  /\ CompressionAt(b) <= Len(b)
  /\ ExtensionsAt(b) - 1 <= Len(b)

\* Mutant: the extensions are read from the record, not from their own block.
ParseUnbounded(b) ==
  IF ~HasCiphers(b) THEN NotClientHello
  ELSE Hello(U16(b, 10), U16s(b, CiphersAt(b) + 2, CompressionAt(b) - 1),
             ExtensionsIn(b, ExtensionsAt(b) + 2, Len(b)))

ParseClientHello(b) ==
  IF ~HasCiphers(b) THEN NotClientHello
  ELSE LET ciphers == U16s(b, CiphersAt(b) + 2, CompressionAt(b) - 1)
       IN IF ExtensionsAt(b) + 1 > Len(b) THEN Hello(U16(b, 10), ciphers, <<>>)
          ELSE IF ExtensionsEnd(b) > Len(b) THEN NotClientHello
          ELSE Hello(U16(b, 10), ciphers,
                     ExtensionsIn(b, ExtensionsAt(b) + 2, ExtensionsEnd(b)))

------------------------------------------------------------------------------
VersionString(v) ==
  CASE v = 772 -> "13" [] v = 771 -> "12" [] v = 770 -> "11" [] v = 769 -> "10"
    [] v = 768 -> "s3" [] v = 512 -> "s2" [] v = 256 -> "s1" [] OTHER -> "00"

NegotiatedVersion(ch) ==
  LET best == Max({0} \union ToSet(ParseSupportedVersions(BodyOf(ch.extensions, SupportedVers))))
  IN IF best # 0 THEN best ELSE ch.legacy

TwoDigits(n) == Min({n, 99})

IsAlnum(c) == c \in 48 .. 57 \/ c \in 65 .. 90 \/ c \in 97 .. 122

HexDigit(n) == IF n < 10 THEN 48 + n ELSE 87 + n

\* First and last character of the first protocol, or of their hexadecimal form.
ALPNCode(value) ==
  IF value = <<>> THEN <<48, 48>>
  ELSE IF IsAlnum(Head(value)) /\ IsAlnum(Last(value)) THEN <<Head(value), Last(value)>>
  ELSE <<HexDigit(Head(value) \div 16), HexDigit(Last(value) % 16)>>

Types(exts) == [i \in DOMAIN exts |-> exts[i].type]

\* Mutant: the extensions are hashed in the order they came in.
HashedInOrder(types) == Without(types, {ServerName, ALPN})

\* SNI and ALPN are in part A already; the others are sorted, then hashed.
Hashed(types) == ToBag(Without(types, {ServerName, ALPN}))

JA4(ch) ==
  LET types == Types(ch.extensions)
  IN << << VersionString(NegotiatedVersion(ch)), ServerName \in ToSet(types),
           TwoDigits(Len(ch.ciphers)), TwoDigits(Len(types)),
           ALPNCode(ParseALPN(BodyOf(ch.extensions, ALPN))) >>,
        ToBag(ch.ciphers),
        IF DOMAIN Hashed(types) = {} THEN <<>>
        ELSE << Hashed(types), ParseU16List(BodyOf(ch.extensions, SigAlgs)) >> >>

\* Fingerprint.SNI.
SNIOf(ch) == ParseSNI(BodyOf(ch.extensions, ServerName))
==============================================================================
