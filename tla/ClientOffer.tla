---------------------------- MODULE ClientOffer ----------------------------
(***************************************************************************)
(* What the parser of ClientHello makes of the hellos clients send.        *)
(*                                                                         *)
(* A client is external: it composes an offer step by step, and writes it  *)
(* in the format of TLS, which Encode is the reference for.  Meaning is    *)
(* what a JA4 says of an offer, defined on the offer and not on its bytes. *)
(***************************************************************************)
EXTENDS ClientHello

CONSTANTS
  Ciphers,        \* cipher suites a client may offer, GREASE points among them
  Extensions,     \* extensions: records of a type and the values it carries
  Versions,       \* values of legacy_version
  MaxCiphers, MaxExtensions   \* bounds on one offer

ASSUME OfferAssumption ==
  /\ Ciphers \subseteq Nat /\ Versions \subseteq Nat
  /\ \A e \in Extensions : /\ e.type \in Nat
                           /\ e.values \in IF e.type = ALPN THEN Seq(Seq(Nat)) ELSE Seq(Nat)

VARIABLES
  offer,          \* what the client offers on its next connection
  ch              \* the hello that the parser reads off that connection

vars == <<offer, ch>>

\* The values ja4.go:44 lists: 0x0a0a, 0x1a1a .. 0xfafa.
GREASEPoints == { 2570 + 4112 * k : k \in 0 .. 15 }

TypesOf(o) == { o.extensions[i].type : i \in DOMAIN o.extensions }

\* What the extension of a type carries: an offer has at most one.
Carried(o, type) ==
  IF type \notin TypesOf(o) THEN <<>>
  ELSE (CHOOSE e \in ToSet(o.extensions) : e.type = type).values

------------------------------------------------------------------------------
U16Bytes(n)   == << n \div 256, n % 256 >>
Short(bytes)  == << Len(bytes) >> \o bytes            \* preceded by their length
Long(bytes)   == U16Bytes(Len(bytes)) \o bytes        \* in one byte, in two
Wire(values)  == FlattenSeq([i \in DOMAIN values |-> U16Bytes(values[i])])

Body(e) ==
  IF e.type = ServerName THEN Long(<<0>> \o Long(e.values))
  ELSE IF e.type = ALPN THEN Long(FlattenSeq([i \in DOMAIN e.values |-> Short(e.values[i])]))
  ELSE IF e.type = SigAlgs THEN Long(Wire(e.values))
  ELSE IF e.type = SupportedVers THEN Short(Wire(e.values))
  ELSE Wire(e.values)

Block(exts) ==
  FlattenSeq([i \in DOMAIN exts |-> U16Bytes(exts[i].type) \o Long(Body(exts[i]))])

\* Up to the compression methods.  The lengths of the record and of the message,
\* which the parser skips, are left at 0.
UpToCompression(o) ==
  <<22, 3, 1, 0, 0, 1, 0, 0, 0>> \o U16Bytes(o.legacy) \o [i \in 1 .. RandomBytes |-> 7]
    \o Short(o.session) \o Long(Wire(o.ciphers)) \o Short(<<0>>)

Encode(o) == UpToCompression(o) \o Long(Block(o.extensions))

\* The hello of o in which extension i claims one byte more than its block has left.
Overrunning(o, i) ==
  LET exts   == o.extensions
      before == Block(SubSeq(exts, 1, i - 1)) \o U16Bytes(exts[i].type)
      rest   == Body(exts[i]) \o Block(SubSeq(exts, i + 1, Len(exts)))
  IN UpToCompression(o) \o Long(before \o U16Bytes(Len(rest) + 1) \o rest) \o <<0>>

\* Sets of what was offered, where the code counts, sorts and hashes lists.
\* 0 is no version.
Meaning(o) ==
  LET versions  == ToSet(Carried(o, SupportedVers)) \ (GREASEPoints \union {0})
      protocols == Carried(o, ALPN)
      ciphers   == ToSet(o.ciphers) \ GREASEPoints
      types     == TypesOf(o) \ GREASEPoints
      hashed    == types \ {ServerName, ALPN}
  IN << << VersionString(IF versions = {} THEN o.legacy ELSE Max(versions)),
           ServerName \in types,
           TwoDigits(Cardinality(ciphers)), TwoDigits(Cardinality(types)),
           ALPNCode(IF protocols = <<>> THEN <<>> ELSE protocols[1]) >>,
        SetToBag(ciphers),
        IF hashed = {} THEN <<>>
        ELSE << SetToBag(hashed), Without(Carried(o, SigAlgs), GREASEPoints) >> >>

------------------------------------------------------------------------------
Received(o) ==
  /\ offer' = o
  /\ ch' = ParseClientHello(Encode(o))

Init ==
  /\ offer \in [ legacy : Versions, session : {<<>>, <<7, 7>>},
                 ciphers : {<<>>}, extensions : {<<>>} ]
  /\ ch = ParseClientHello(Encode(offer))

OfferCipher(c) ==
  /\ Len(offer.ciphers) < MaxCiphers
  /\ c \notin ToSet(offer.ciphers)
  /\ Received([offer EXCEPT !.ciphers = Append(@, c)])

OfferExtension(e) ==
  /\ Len(offer.extensions) < MaxExtensions
  /\ e.type \notin TypesOf(offer)
  /\ Received([offer EXCEPT !.extensions = Append(@, e)])

Swapped(s, i) == [s EXCEPT ![1] = s[i], ![i] = s[1]]

\* A client that offers the same in another order.
Shuffle ==
  \/ \E i \in DOMAIN offer.ciphers : Received([offer EXCEPT !.ciphers = Swapped(@, i)])
  \/ \E i \in DOMAIN offer.extensions :
        Received([offer EXCEPT !.extensions = Swapped(@, i)])

Next ==
  \/ \E c \in Ciphers : OfferCipher(c)
  \/ \E e \in Extensions : OfferExtension(e)
  \/ Shuffle

Spec == Init /\ [][Next]_vars

------------------------------------------------------------------------------
(* A complete hello is read as it was meant: version, counts, ALPN, the hashed
   lists and the server name are those of the offer, whatever GREASE and whatever
   unknown extensions lie between them (ja4.go:88-186, 339-398). *)
ReadAsMeant ==
  /\ ch.ok
  /\ JA4(ch) = Meaning(offer)
  /\ SNIOf(ch) = Carried(offer, ServerName)

(* A record that ends anywhere before the hello does is an error (ja4.go:84-87),
   except right behind the compression methods, where it is taken for a hello that
   offers no extensions (ja4.go:142-147): never is a part of them fingerprinted. *)
CutHelloFailsClosed ==
  \A n \in 0 .. Len(Encode(offer)) - 1 :
    LET cut  == ParseClientHello(SubSeq(Encode(offer), 1, n))
        bare == Len(UpToCompression(offer))
    IN IF n \in {bare, bare + 1} THEN cut = [ch EXCEPT !.extensions = <<>>]
       ELSE cut = NotClientHello

(* What a false length can do: an extension that claims more than its block has left
   ends the list.  The hello is that of the extensions before it, and nothing behind
   the block is read (ja4.go:153-166).  It is not the error that ja4.go:84-87 ("fails
   closed on short reads instead of trusting declared lengths") announces. *)
OverrunEndsTheList ==
  \A i \in DOMAIN offer.extensions :
    ParseClientHello(Overrunning(offer, i))
      = ParseClientHello(Encode([offer EXCEPT !.extensions = SubSeq(@, 1, i - 1)]))

(* A client keeps its JA4 when it shuffles what it offers or adds GREASE, and with
   any other addition it becomes another client (ja4.go:43-45, 358-360). *)
JA4FollowsTheStack ==
  [][ (JA4(ch') = JA4(ch)) <=>
      ( \/ Shuffle
        \/ \E c \in Ciphers \intersect GREASEPoints : OfferCipher(c)
        \/ \E e \in Extensions : e.type \in GREASEPoints /\ OfferExtension(e) ) ]_vars
==============================================================================
