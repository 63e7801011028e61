------------------------------- MODULE Redact -------------------------------
(***************************************************************************)
(* What the capture handler keeps of the fields a client submits: the      *)
(* redacted body (redact.py) and the user name (main.py).                  *)
(*                                                                         *)
(* A body is a sequence of tokens: punctuation, field names, and the two   *)
(* parts of each value.  White space between JSON tokens and the encoding  *)
(* of characters are left out; digests are injective.                      *)
(***************************************************************************)
EXTENDS Integers, SequencesExt

CONSTANTS
  SecretNames,      \* names that contain one of SECRET_FIELD_PATTERNS
  LeadingNames,     \* those that begin with it
  UsernameFields,   \* USERNAME_FIELDS, in their order
  MaxFields         \* bound on the fields of one body

ASSUME NamesAssumption ==
  /\ LeadingNames \subseteq SecretNames
  /\ UsernameFields \in Seq(ToSet(UsernameFields)) /\ IsInjective(UsernameFields)

VARIABLES
  place,            \* where the fields are: a body of some type, or the query
  fields,           \* the fields, each a name and a form of value
  limit             \* max_body_bytes, in tokens

vars == <<place, fields, limit>>

Mark(c)     == [mark |-> c]
Name(n)     == [name |-> n]
Part(i, k)  == [field |-> i, part |-> k]
Digest(v)   == [sha256 |-> v]

Quote == Mark("quote")   Backslash == Mark("backslash")   Colon == Mark("colon")
Comma == Mark("comma")   Equals == Mark("equals")         Amp == Mark("amp")
Space == Mark("space")   Bracket == Mark("bracket")

IsName(token, names) == \E n \in names : token = Name(n)

\* The first of some tokens from position i on, or the end of b.
NextOf(tokens, b, i) == Min({ j \in i .. Len(b) : b[j] \in tokens } \union {Len(b) + 1})

\* The tokens of s that are among some.
Only(s, tokens) == FlattenSeq([i \in DOMAIN s |-> IF s[i] \in tokens THEN <<s[i]>> ELSE <<>>])

Joined(parts, mark) ==
  FlattenSeq([i \in DOMAIN parts |-> (IF i = 1 THEN <<>> ELSE <<mark>>) \o parts[i]])

------------------------------------------------------------------------------
\* Mutant: a value ends at the first quote, escaped or not.
StringEndUnescaped(b, from) == NextOf({Quote}, b, from)

\* Mutant: a value ends at the last quote.
StringEndGreedy(b, from) == Max({ j \in DOMAIN b : b[j] = Quote } \union {from})

\* A quote behind an odd number of backslashes.
IsEscaped(b, from, q) ==
  \E r \in from - 1 .. q - 1 : /\ r >= from => b[r] # Backslash
                               /\ \A j \in r + 1 .. q - 1 : b[j] = Backslash
                               /\ (q - r) % 2 = 0

\* Where the string that begins at from ends; beyond b if it does not.
StringEnd(b, from) ==
  Min({ q \in from .. Len(b) : b[q] = Quote /\ ~ IsEscaped(b, from, q) } \union {Len(b) + 1})

\* .strip('"'), of a value without its own quotes.
Stripped(v) == SubSeq(v, 1, Max({0} \union { i \in DOMAIN v : v[i] # Quote }))

\* re.sub: from the left, what matches is replaced, and the search goes on behind it.
\* For each i where a match begins, end[i] is where it ends and new[i] what replaces it.
Sub(b, end, new) ==
  LET From[i \in 1 .. Len(b) + 1] ==
        IF i > Len(b) THEN <<>>
        ELSE IF i \in DOMAIN end THEN new[i] \o From[end[i] + 1]
        ELSE <<b[i]>> \o From[i + 1]
  IN From[1]

\* From a quote on, the text to the next one is tried as a key, and what follows as
\* a colon and a string.
KeyEnd(b, i)   == NextOf({Quote}, b, i + 1)
ValueEnd(b, i) == StringEnd(b, KeyEnd(b, i) + 3)

\* What _JSON_SECRET_RE matches from i on.
IsSecretPair(b, i) ==
  /\ b[i] = Quote /\ KeyEnd(b, i) + 2 <= Len(b)
  /\ \E j \in i .. KeyEnd(b, i) : IsName(b[j], SecretNames)
  /\ b[KeyEnd(b, i) + 1] = Colon /\ b[KeyEnd(b, i) + 2] = Quote
  /\ ValueEnd(b, i) <= Len(b)

RedactJson(b) ==
  LET found == { i \in DOMAIN b : IsSecretPair(b, i) }
  IN Sub(b, [i \in found |-> ValueEnd(b, i)],
            [i \in found |->
               SubSeq(b, i, KeyEnd(b, i) + 2) \o
               << Digest(Stripped(SubSeq(b, KeyEnd(b, i) + 3, ValueEnd(b, i) - 1))), Quote >>])

\* The pattern for bodies of other types: a word that begins with a secret name, and =.
WordEnd(b, i) == NextOf({Amp, Space}, b, i + 2)

RedactInline(b) ==
  LET found == { i \in DOMAIN b : /\ IsName(b[i], LeadingNames) /\ i + 2 < WordEnd(b, i)
                                  /\ b[i + 1] = Equals }
  IN Sub(b, [i \in found |-> WordEnd(b, i) - 1],
            [i \in found |-> << b[i], Equals, Digest(SubSeq(b, i + 2, WordEnd(b, i) - 1)) >>])

Pair(piece) ==
  LET at == NextOf({Equals}, piece, 1)
  IN [key |-> SubSeq(piece, 1, at - 1), value |-> SubSeq(piece, at + 1, Len(piece))]

\* parse_qs(keep_blank_values=True), as a sequence of keys and values.  A piece begins
\* where b does and behind each &; empty ones are skipped.
Parsed(b) ==
  FlattenSeq([ i \in DOMAIN b |->
    IF b[i] # Amp /\ (i = 1 \/ b[i - 1] = Amp)
    THEN << Pair(SubSeq(b, i, NextOf({Amp}, b, i) - 1)) >> ELSE <<>> ])

\* The values of one key stand together, where its first one stood.
Grouped(pairs) ==
  FlattenSeq([ i \in DOMAIN pairs |->
    IF \E j \in 1 .. i - 1 : pairs[j].key = pairs[i].key THEN <<>>
    ELSE Only(pairs, { p \in ToSet(pairs) : p.key = pairs[i].key }) ])

Redacted(p) ==
  p.key \o <<Equals>> \o (IF \E j \in DOMAIN p.key : IsName(p.key[j], SecretNames)
                          THEN << Digest(p.value) >> ELSE p.value)

RedactForm(b) ==
  LET pairs == Grouped(Parsed(b))
  IN Joined([i \in DOMAIN pairs |-> Redacted(pairs[i])], Amp)

RedactBody(b) ==
  IF place = "json" THEN RedactJson(b) ELSE IF place = "form" THEN RedactForm(b)
  ELSE RedactInline(b)

------------------------------------------------------------------------------
\* What the client sends, and what the handler keeps.

Value(i) ==
  IF fields[i].form = "blank" THEN <<>>
  ELSE IF fields[i].form = "escaped" THEN <<Part(i, 1), Backslash, Quote, Part(i, 2)>>
  ELSE <<Part(i, 1), Part(i, 2)>>

\* A value of JSON: a number, a string in a list, or a string.
InJson(i) ==
  IF fields[i].form = "number" THEN Value(i)
  ELSE IF fields[i].form = "list" THEN <<Bracket, Quote>> \o Value(i) \o <<Quote, Bracket>>
  ELSE <<Quote>> \o Value(i) \o <<Quote>>

Written(i) ==
  IF place = "json" THEN <<Quote, Name(fields[i].name), Quote, Colon>> \o InJson(i)
  ELSE <<Name(fields[i].name), IF fields[i].form = "colon" THEN Colon ELSE Equals>> \o Value(i)

Separator ==
  IF place = "json" THEN Comma ELSE IF place = "other" THEN Space ELSE Amp

\* The first n fields, as they are sent.
Sent(n) == (IF place = "json" THEN <<Bracket>> ELSE <<>>)
             \o Joined([i \in 1 .. n |-> Written(i)], Separator)

Whole == Sent(Len(fields)) \o (IF place = "json" THEN <<Bracket>> ELSE <<>>)

\* raw_body[: max_body_bytes]; the query is not cut.
Received == IF place = "query" THEN Whole ELSE SubSeq(Whole, 1, Min({limit, Len(Whole)}))

\* What the row has of the body, and of the query.
Stored == IF place = "query" THEN Received ELSE RedactBody(Received)

\* Mutant: values that are no strings are turned into some.
Anything(i) == TRUE

\* isinstance(value, str)
IsStr(i) == fields[i].form \in {"string", "escaped", "blank"}

\* json.loads; the text of a form is decoded as it is.
Decoded(i) ==
  IF fields[i].form = "escaped" THEN <<Part(i, 1), Quote, Part(i, 2)>> ELSE Value(i)

\* The pairs of a form under a name, and the field of a JSON body: the last one counts,
\* if it is a string.
PairsNamed(n)  == { i \in DOMAIN Parsed(Received) : Parsed(Received)[i].key = <<Name(n)>> }
FieldsNamed(n) == { i \in DOMAIN fields : fields[i].name = n }
TextNamed(n)   == { i \in FieldsNamed(n) : i = Max(FieldsNamed(n)) /\ IsStr(i) }

\* Nothing is found in a JSON body that was cut.
IsGiven(n) ==
  \/ place = "form" /\ PairsNamed(n) # {}
  \/ place = "json" /\ Received = Whole /\ TextNamed(n) # {}

\* _extract_username.  "" counts as no name, like None.  A form gives the first of
\* several values.
Username ==
  LET given == { k \in DOMAIN UsernameFields : IsGiven(UsernameFields[k]) }
      name  == UsernameFields[Min(given)]
  IN IF given = {} THEN <<>>
     ELSE IF place = "form" THEN Parsed(Received)[Min(PairsNamed(name))].value
     ELSE Decoded(Max(TextNamed(name)))

------------------------------------------------------------------------------
Forms ==
  IF place = "json" THEN {"string", "escaped", "blank", "number", "list"}
  ELSE IF place = "form" THEN {"string", "blank"}
  ELSE IF place = "other" THEN {"string", "colon"}
  ELSE {"string"}

Init ==
  /\ place \in {"json", "form", "other", "query"}
  /\ fields = <<>>
  /\ limit = 0

AddField ==
  /\ Len(fields) < MaxFields
  /\ \E n \in SecretNames \union ToSet(UsernameFields), f \in Forms :
        fields' = Append(fields, [name |-> n, form |-> f])
  /\ UNCHANGED <<place, limit>>

\* Wherever the limit falls: the fields stand for the end of a longer body.
AllowMore ==
  /\ limit < Len(Whole)
  /\ limit' = limit + 1
  /\ UNCHANGED <<place, fields>>

Next == AddField \/ AllowMore

Spec == Init /\ [][Next]_vars

------------------------------------------------------------------------------
IsText(i) == fields[i].form \notin {"number", "list"}

OfField(i, b) == Only(b, {Part(i, 1), Part(i, 2)})

InFull(i) == place = "query" \/ Len(Sent(i)) <= limit

\* Where redaction does not look or does not match: secrets are stored as they came.
Unseen(i) ==
  \/ place = "json" /\ (~IsText(i) \/ ~InFull(i))
  \/ place = "other" /\ (fields[i].name \notin LeadingNames \/ fields[i].form = "colon")
  \/ place = "query"

(* Of a value submitted under a secret name nothing is stored in clear, and its digest
   is stored once it was received in full, wherever the code can see that it is one:
   whatever stands around it and wherever max_body_bytes cuts it (redact.py:65-88). *)
SecretsAreHashed ==
  LET stored == Stored
  IN \A i \in DOMAIN fields : fields[i].name \in SecretNames /\ ~Unseen(i) =>
       /\ OfField(i, stored) = <<>>
       /\ InFull(i) /\ Value(i) # <<>> => \E k \in DOMAIN stored : stored[k] = Digest(Value(i))

(* README.md:198 promises that no password is kept and that "Tudo vira hash SHA-256
   antes de chegar no banco", and redact.py:3-4 that everything is one-way: nothing of
   a value submitted under a secret name is stored in clear. *)
NoSecretInClear ==
  LET stored == Stored
  IN \A i \in DOMAIN fields : fields[i].name \in SecretNames => OfField(i, stored) = <<>>

(* Redaction takes nothing else away: a field that is not secret is stored as it
   was received, whatever stands around it (test_redact.py:24, 32). *)
OnlySecretsAreHashed ==
  LET received == Received
      stored   == Stored
  IN \A i \in DOMAIN fields : fields[i].name \notin SecretNames =>
       OfField(i, stored) = OfField(i, received)

(* The user name that is counted is the one a form and a JSON body agree on, the
   first of USERNAME_FIELDS that is given as a string; a body that was cut may count
   for a prefix of a name if it is a form and for none if it is JSON, and a name that
   is repeated for any of its values (main.py:30, 46-67). *)
UserIsCountedAsSent ==
  LET users == { i \in DOMAIN fields : IsText(i) /\ fields[i].name \in ToSet(UsernameFields) }
      Rank(i) == CHOOSE k \in DOMAIN UsernameFields : UsernameFields[k] = fields[i].name
      first == { i \in users : \A j \in users : Rank(i) <= Rank(j) }
      distinct == \A i, j \in DOMAIN fields : fields[i].name = fields[j].name => i = j
  IN /\ Username # <<>> => \E i \in users : IsPrefix(Username, Decoded(i))
     /\ place = "json" /\ Received # Whole => Username = <<>>
     /\ distinct /\ Received = Whole /\ place \in {"json", "form"} =>
          IF first = {} THEN Username = <<>> ELSE \E i \in first : Username = Decoded(i)
==============================================================================
