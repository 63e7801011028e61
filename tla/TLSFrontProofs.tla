---------------------------- MODULE TLSFrontProofs ----------------------------
(***************************************************************************)
(* The listener for any number of connections, any timeout and any records *)
(* and headers.                                                            *)
(*                                                                         *)
(* How long a connection waits is no fact about it alone: what it is owed  *)
(* covers a whole timeout for each one ahead of it in the backlog, and     *)
(* what is left of the deadline of the one that is being read.             *)
(***************************************************************************)
EXTENDS TLSFront, SequenceTheorems, TLAPS

QueueInv ==
  /\ \A k \in DOMAIN queue : state[queue[k]] = "queued"
  /\ \A c \in Conns : state[c] = "queued" => \E k \in DOMAIN queue : queue[k] = c
  /\ \A j, k \in DOMAIN queue : queue[j] = queue[k] => j = k

\* What is left of the read in progress.
Rest == IF Reading = {} THEN 0 ELSE left

WaitInv == \A k \in DOMAIN queue : owed[queue[k]] >= Timeout * (k - 1) + Rest

FingerprintOf(r) ==
  LET ch == ParseClientHello(r)
  IN IF ch.ok THEN [ja4 |-> JA4(ch), sni |-> SNIOf(ch)] ELSE NoFingerprint

PrintInv ==
  /\ fp = [c \in Conns |-> fp[c]]
  /\ \A c \in Conns : state[c] = "open" => fp[c] = FingerprintOf(record[c])

IInv == TypeOK /\ QueueInv /\ WaitInv /\ PrintInv

------------------------------------------------------------------------------
(* The headers of a request.                                               *)

\* What the Director writes for a connection is its own, or is left out because
\* there is nothing to say.
LEMMA SetIsOwn ==
  ASSUME NEW c \in Conns, fp[c] = FingerprintOf(record[c])
  PROVE  /\ DOMAIN Set(c) \subseteq TrustedHeaders
         /\ \A h \in DOMAIN Set(c) : Set(c)[h] = Own(c)[h]
         /\ \A h \in TrustedHeaders \ DOMAIN Set(c) : Own(c)[h] = <<>>
<1> DEFINE ch == ParseClientHello(record[c])
<1>1. JA4(ch) # <<>>
  BY DEF JA4
<1>2. CASE ch.ok
  <2>1. fp[c].ja4 = JA4(ch) /\ fp[c].sni = SNIOf(ch)
    BY <1>2 DEF FingerprintOf
  <2>2. /\ Own(c)["X-Edge-Client-IP"] = c /\ Own(c)["X-Edge-JA4"] = JA4(ch)
        /\ Own(c)["X-Edge-JA4-Raw"] = JA4(ch) /\ Own(c)["X-Edge-JA4-SNI"] = SNIOf(ch)
    BY <1>2 DEF Own, TrustedHeaders
  <2> HIDE DEF ch
  <2>3. CASE SNIOf(ch) = <<>>
    <3>1. DOMAIN Set(c) = {"X-Edge-Client-IP", "X-Edge-JA4", "X-Edge-JA4-Raw"}
      BY <1>1, <2>1, <2>3 DEF Set
    <3>2. \A h \in DOMAIN Set(c) : Set(c)[h] = IF h = "X-Edge-Client-IP" THEN c ELSE JA4(ch)
      BY <1>1, <2>1, <2>3, <3>1 DEF Set
    <3> QED
      BY <2>2, <2>3, <3>1, <3>2 DEF TrustedHeaders
  <2>4. CASE SNIOf(ch) # <<>>
    <3>1. DOMAIN Set(c) = TrustedHeaders
      BY <1>1, <2>1, <2>4 DEF Set, TrustedHeaders
    <3>2. \A h \in DOMAIN Set(c) :
            Set(c)[h] = IF h = "X-Edge-Client-IP" THEN c
                        ELSE IF h = "X-Edge-JA4-SNI" THEN SNIOf(ch) ELSE JA4(ch)
      BY <1>1, <2>1, <2>4, <3>1 DEF Set
    <3> QED
      BY <2>2, <3>1, <3>2 DEF TrustedHeaders
  <2> QED
    BY <2>3, <2>4
<1>3. CASE ~ch.ok
  <2>1. fp[c].ja4 = <<>>
    BY <1>3 DEF FingerprintOf, NoFingerprint
  <2>2. DOMAIN Set(c) = {"X-Edge-Client-IP"} /\ Set(c)["X-Edge-Client-IP"] = c
    BY <2>1 DEF Set
  <2>3. /\ Own(c)["X-Edge-Client-IP"] = c
        /\ \A h \in TrustedHeaders \ {"X-Edge-Client-IP"} : Own(c)[h] = <<>>
    BY <1>3 DEF Own, TrustedHeaders
  <2> QED
    BY <2>2, <2>3 DEF TrustedHeaders
<1> QED
  BY <1>2, <1>3

LEMMA ForwardedIsOwn == PrintInv => OwnFingerprint
<1> SUFFICES ASSUME PrintInv, NEW c \in Conns, state[c] = "open",
                    NEW headers \in Requests, NEW listed \in Listed
             PROVE  LET out == Forwarded(c, headers, listed)
                    IN /\ \A h \in TrustedHeaders :
                            IF h \in DOMAIN out THEN out[h] = Own(c)[h]
                            ELSE h \in listed \/ Own(c)[h] = <<>>
                       /\ DOMAIN headers \ (TrustedHeaders \union listed) \subseteq DOMAIN out
  BY DEF OwnFingerprint
<1> DEFINE own  == Set(c)
           rest == Restrict(headers, DOMAIN headers \ TrustedHeaders)
           all  == Director(c, headers)
           out  == Forwarded(c, headers, listed)
<1>1. /\ DOMAIN own \subseteq TrustedHeaders
      /\ \A h \in DOMAIN own : own[h] = Own(c)[h]
      /\ \A h \in TrustedHeaders \ DOMAIN own : Own(c)[h] = <<>>
  BY SetIsOwn DEF PrintInv
<1>2. DOMAIN rest = DOMAIN headers \ TrustedHeaders
  BY DEF Restrict
<1> HIDE DEF own, rest
<1>3. /\ DOMAIN all = DOMAIN own \union DOMAIN rest
      /\ \A h \in DOMAIN own : all[h] = own[h]
  BY DEF Director, Over, own, rest
<1> HIDE DEF all
<1>4. DOMAIN out = DOMAIN all \ listed /\ \A h \in DOMAIN out : out[h] = all[h]
  BY DEF Forwarded, Restrict, all
<1> HIDE DEF out
<1>5. ASSUME NEW h \in TrustedHeaders
      PROVE  IF h \in DOMAIN out THEN out[h] = Own(c)[h] ELSE h \in listed \/ Own(c)[h] = <<>>
  BY <1>1, <1>2, <1>3, <1>4
<1>6. DOMAIN headers \ (TrustedHeaders \union listed) \subseteq DOMAIN out
  BY <1>2, <1>3, <1>4
<1> QED
  BY <1>5, <1>6 DEF out

------------------------------------------------------------------------------
(* The backlog.                                                            *)

LEMMA InitListener == Init => IInv
<1> SUFFICES ASSUME Init PROVE IInv
  OBVIOUS
<1>1. queue = <<>> /\ DOMAIN queue = {} /\ queue \in Seq(Conns)
  BY DEF Init
<1>2. \A c \in Conns : state[c] = "away"
  BY DEF Init
<1>3. TypeOK
  BY <1>1, <1>2, TimeoutAssumption DEF Init, TypeOK, Reading
<1>4. QueueInv /\ WaitInv
  BY <1>1, <1>2 DEF QueueInv, WaitInv
<1>5. PrintInv
  BY <1>2 DEF Init, PrintInv
<1> QED
  BY <1>3, <1>4, <1>5 DEF IInv

LEMMA ConnectInv == ASSUME IInv, NEW c \in Conns, Connect(c) PROVE IInv'
<1> DEFINE n == Len(queue)
<1>1. /\ state[c] = "away" /\ state' = [state EXCEPT ![c] = "queued"]
      /\ queue' = Append(queue, c)
      /\ owed' = [owed EXCEPT ![c] = Timeout * (n + (IF Reading = {} THEN 0 ELSE 1))]
      /\ UNCHANGED <<sent, left, record, fp>>
  BY DEF Connect
<1>2. queue \in Seq(Conns) /\ n \in Nat /\ DOMAIN queue = 1 .. n
  BY LenProperties DEF IInv, TypeOK
<1>3. /\ queue' \in Seq(Conns) /\ DOMAIN queue' = 1 .. n + 1 /\ queue'[n + 1] = c
      /\ \A k \in 1 .. n : queue'[k] = queue[k] /\ queue[k] # c /\ queue[k] \in Conns
  <2>1. /\ queue' \in Seq(Conns) /\ Len(queue') = n + 1 /\ queue'[n + 1] = c
        /\ \A k \in 1 .. n : queue'[k] = queue[k]
    BY <1>1, <1>2, AppendProperties
  <2>2. \A k \in 1 .. n : queue[k] # c /\ queue[k] \in Conns
    BY <1>1, <1>2, ElementOfSeq DEF IInv, QueueInv
  <2> QED
    BY <2>1, <2>2, LenProperties
<1>4. Reading' = Reading /\ Rest' = Rest
  BY <1>1 DEF Reading, Rest, IInv, TypeOK
<1>5. TypeOK'
  BY <1>1, <1>2, <1>3, <1>4, TimeoutAssumption DEF IInv, TypeOK
<1>6. QueueInv'
  BY <1>1, <1>2, <1>3 DEF IInv, TypeOK, QueueInv
<1>7. WaitInv'
  <2> SUFFICES ASSUME NEW k \in 1 .. n + 1
               PROVE  owed'[queue'[k]] >= Timeout * (k - 1) + Rest
    BY <1>3, <1>4 DEF WaitInv
  <2>1. CASE k \in 1 .. n
    BY <1>1, <1>2, <1>3, <2>1 DEF IInv, TypeOK, WaitInv
  <2>2. CASE k = n + 1
    <3>1. owed'[c] = Timeout * (n + (IF Reading = {} THEN 0 ELSE 1))
      BY <1>1 DEF IInv, TypeOK
    <3>2. Rest <= IF Reading = {} THEN 0 ELSE Timeout
      BY TimeoutAssumption DEF Rest, IInv, TypeOK
    <3>3. Timeout * (n + 1) = Timeout * n + Timeout
      BY <1>2, TimeoutAssumption
    <3>4. Rest \in Nat /\ Timeout * n \in Nat
      BY <1>2, TimeoutAssumption DEF Rest, IInv, TypeOK
    <3>5. owed'[c] >= Timeout * n + Rest
      BY <1>2, <3>1, <3>2, <3>3, <3>4, TimeoutAssumption
    <3> QED
      BY <1>2, <1>3, <2>2, <3>5
  <2> QED
    BY <1>2, <2>1, <2>2
<1>8. PrintInv'
  BY <1>1 DEF IInv, TypeOK, PrintInv
<1> QED
  BY <1>5, <1>6, <1>7, <1>8 DEF IInv

\* A step that moves nobody into or out of the backlog keeps its order.
LEMMA QueueStays ==
  ASSUME IInv, queue' = queue,
         \A c \in Conns : state'[c] = "queued" <=> state[c] = "queued"
  PROVE  QueueInv'
<1>1. \A k \in DOMAIN queue : queue[k] \in Conns
  BY ElementOfSeq, LenProperties DEF IInv, TypeOK
<1> QED
  BY <1>1 DEF IInv, QueueInv

\* Nobody is kept waiting for longer if the read in progress does not get more time.
LEMMA WaitsStay ==
  ASSUME IInv, UNCHANGED <<queue, owed>>, Rest' \in Int, Rest' <= Rest
  PROVE  WaitInv'
<1> SUFFICES ASSUME NEW k \in DOMAIN queue
             PROVE  owed[queue[k]] >= Timeout * (k - 1) + Rest'
  BY DEF WaitInv
<1>1. queue[k] \in Conns /\ k \in Nat
  BY ElementOfSeq, LenProperties DEF IInv, TypeOK
<1>2. owed[queue[k]] \in Int /\ Timeout * (k - 1) \in Int /\ Rest \in Int
  BY <1>1, TimeoutAssumption DEF IInv, TypeOK, Rest
<1> QED
  BY <1>2 DEF IInv, WaitInv

LEMMA SendInv == ASSUME IInv, NEW c \in Conns, Send(c) PROVE IInv'
<1>1. UNCHANGED <<state, queue, left, record, fp, owed>>
  BY DEF Send
<1>2. sent' \in [Conns -> {"nothing", "header", "record", "bad"}]
  BY DEF Send, IInv, TypeOK
<1>3. Reading' = Reading /\ Rest' = Rest /\ Rest \in Int
  BY <1>1, TimeoutAssumption DEF Reading, Rest, IInv, TypeOK
<1>4. TypeOK'
  BY <1>1, <1>2, <1>3 DEF IInv, TypeOK
<1>5. QueueInv' /\ WaitInv'
  BY <1>1, <1>3, QueueStays, WaitsStay
<1>6. PrintInv'
  BY <1>1 DEF IInv, PrintInv
<1> QED
  BY <1>4, <1>5, <1>6 DEF IInv

\* The one at the head gets a timeout to send its record; those behind it have one
\* connection fewer ahead.
LEMMA AcceptInv == ASSUME IInv, Accept PROVE IInv'
<1> DEFINE n == Len(queue)
           c == Head(queue)
<1>1. /\ Reading = {} /\ queue # <<>> /\ state' = [state EXCEPT ![c] = "header"]
      /\ queue' = Tail(queue) /\ left' = Timeout
      /\ owed' = [owed EXCEPT ![c] = 0] /\ UNCHANGED <<sent, record, fp>>
  BY DEF Accept
<1>2. queue \in Seq(Conns) /\ n \in Nat \ {0} /\ DOMAIN queue = 1 .. n
  BY <1>1, LenProperties, EmptySeq DEF IInv, TypeOK
<1>3. /\ queue' \in Seq(Conns) /\ DOMAIN queue' = 1 .. n - 1 /\ c \in Conns /\ c = queue[1]
      /\ \A k \in 1 .. n - 1 : queue'[k] = queue[k + 1]
  <2>1. /\ c \in Conns /\ c = queue[1] /\ queue' \in Seq(Conns) /\ Len(queue') = n - 1
        /\ \A k \in 1 .. n - 1 : queue'[k] = queue[k + 1]
    BY <1>1, <1>2, HeadTailProperties
  <2> QED
    BY <2>1, LenProperties
<1>4. \A k \in 2 .. n : queue[k] \in Conns /\ queue[k] # c
  BY <1>2, <1>3, ElementOfSeq DEF IInv, QueueInv
<1>5. Reading' = {c} /\ Rest = 0 /\ Rest' = Timeout
  BY <1>1, <1>3 DEF Reading, Rest, IInv, TypeOK
<1>6. TypeOK'
  BY <1>1, <1>3, <1>5, TimeoutAssumption DEF IInv, TypeOK
<1>7. QueueInv'
  <2>1. \A k \in DOMAIN queue' : state'[queue'[k]] = "queued"
    BY <1>1, <1>2, <1>3, <1>4 DEF IInv, TypeOK, QueueInv
  <2>2. ASSUME NEW d \in Conns, state'[d] = "queued"
        PROVE  \E k \in DOMAIN queue' : queue'[k] = d
    <3>1. d # c /\ state[d] = "queued"
      BY <1>1, <1>3, <2>2 DEF IInv, TypeOK
    <3>2. PICK k \in 1 .. n : queue[k] = d
      BY <1>2, <3>1 DEF IInv, QueueInv
    <3>3. k # 1 /\ k - 1 \in 1 .. n - 1 /\ queue'[k - 1] = d
      BY <1>2, <1>3, <3>1, <3>2
    <3> QED
      BY <1>3, <3>3
  <2>3. ASSUME NEW j \in 1 .. n - 1, NEW k \in 1 .. n - 1, queue'[j] = queue'[k]
        PROVE  j = k
    <3>1. j + 1 \in DOMAIN queue /\ k + 1 \in DOMAIN queue
      BY <1>2
    <3>2. queue[j + 1] = queue[k + 1]
      BY <1>3, <2>3
    <3>3. j + 1 = k + 1
      BY <3>1, <3>2 DEF IInv, QueueInv
    <3> QED
      BY <1>2, <3>3
  <2> QED
    BY <1>3, <2>1, <2>2, <2>3 DEF QueueInv
<1>8. WaitInv'
  <2> SUFFICES ASSUME NEW k \in 1 .. n - 1
               PROVE  owed'[queue[k + 1]] >= Timeout * (k - 1) + Timeout
    BY <1>3, <1>5 DEF WaitInv
  <2>1. k + 1 \in 2 .. n /\ k + 1 \in 1 .. n /\ (k + 1) - 1 = k
    BY <1>2
  <2>2. owed'[queue[k + 1]] = owed[queue[k + 1]]
    BY <1>1, <1>4, <2>1 DEF IInv, TypeOK
  <2>3. owed[queue[k + 1]] >= Timeout * k + 0
    BY <1>2, <1>5, <2>1 DEF IInv, WaitInv
  <2>4. Timeout * k = Timeout * (k - 1) + Timeout
    BY <1>2, TimeoutAssumption
  <2>5. Timeout * k \in Int
    BY <1>2, TimeoutAssumption
  <2> QED
    BY <2>2, <2>3, <2>4, <2>5
<1>9. PrintInv'
  BY <1>1, <1>3 DEF IInv, TypeOK, PrintInv
<1> QED
  BY <1>6, <1>7, <1>8, <1>9 DEF IInv

LEMMA ReadHeaderInv == ASSUME IInv, NEW c \in Conns, ReadHeader(c) PROVE IInv'
<1>1. /\ state[c] = "header" /\ state' = [state EXCEPT ![c] = "body"]
      /\ UNCHANGED <<sent, queue, left, record, fp, owed>>
  BY DEF ReadHeader
<1>2. \A d \in Conns : /\ state'[d] = "queued" <=> state[d] = "queued"
                       /\ state'[d] = "open" <=> state[d] = "open"
                       /\ d \in Reading' <=> d \in Reading
  BY <1>1 DEF Reading, IInv, TypeOK
<1>3. Reading' = Reading
  BY <1>2 DEF Reading
<1>4. TypeOK'
  BY <1>1, <1>3 DEF IInv, TypeOK
<1>5. Rest' = Rest /\ Rest \in Int
  BY <1>1, <1>3, TimeoutAssumption DEF Rest, IInv, TypeOK
<1>6. QueueInv' /\ WaitInv'
  BY <1>1, <1>2, <1>5, QueueStays, WaitsStay
<1>7. PrintInv'
  BY <1>1, <1>2 DEF IInv, PrintInv
<1> QED
  BY <1>4, <1>6, <1>7 DEF IInv

\* The read in progress ends, with a connection or without.
LEMMA ReadEnds ==
  ASSUME IInv, NEW c \in Reading, NEW to \in {"open", "away"},
         state' = [state EXCEPT ![c] = to], left' = 0, UNCHANGED <<queue, owed>>
  PROVE  /\ state' \in [Conns -> {"away", "queued", "header", "body", "open"}]
         /\ Reading' = {} /\ QueueInv' /\ WaitInv'
<1>1. c \in Conns /\ state[c] \in {"header", "body"} /\ \A d \in Reading : d = c
  BY DEF Reading, IInv, TypeOK
<1>2. /\ state' \in [Conns -> {"away", "queued", "header", "body", "open"}]
      /\ \A d \in Conns : state'[d] = IF d = c THEN to ELSE state[d]
  BY <1>1 DEF IInv, TypeOK
<1>3. Reading' = {}
  BY <1>1, <1>2 DEF Reading
<1>4. \A d \in Conns : state'[d] = "queued" <=> state[d] = "queued"
  BY <1>1, <1>2
<1>5. Rest' = 0 /\ Rest \in Nat
  BY <1>3, TimeoutAssumption DEF Rest, IInv, TypeOK
<1> QED
  BY <1>2, <1>3, <1>4, <1>5, QueueStays, WaitsStay

LEMMA ReadBodyInv == ASSUME IInv, NEW c \in Conns, ReadBody(c) PROVE IInv'
<1>1. PICK r \in Records :
        /\ record' = [record EXCEPT ![c] = r]
        /\ fp' = [fp EXCEPT ![c] = FingerprintOf(r)]
  BY DEF ReadBody, FingerprintOf
<1>2. /\ state[c] = "body" /\ state' = [state EXCEPT ![c] = "open"] /\ left' = 0
      /\ sent' = [sent EXCEPT ![c] = "nothing"] /\ UNCHANGED <<queue, owed>>
  BY DEF ReadBody
<1>3. /\ state' \in [Conns -> {"away", "queued", "header", "body", "open"}]
      /\ Reading' = {} /\ QueueInv' /\ WaitInv'
  BY <1>2, ReadEnds DEF Reading
<1>4. record' \in [Conns -> Records \union {<<>>}]
  BY <1>1 DEF IInv, TypeOK
<1>5. TypeOK'
  BY <1>2, <1>3, <1>4, TimeoutAssumption DEF IInv, TypeOK
<1>6. PrintInv'
  <2>1. fp' = [d \in Conns |-> fp'[d]] /\ fp'[c] = FingerprintOf(r) /\ record'[c] = r
    BY <1>1 DEF IInv, TypeOK, PrintInv
  <2>2. \A d \in Conns \ {c} : /\ fp'[d] = fp[d] /\ record'[d] = record[d]
                               /\ state'[d] = state[d]
    BY <1>1, <1>2 DEF IInv, TypeOK, PrintInv
  <2> QED
    BY <2>1, <2>2 DEF IInv, PrintInv
<1> QED
  BY <1>3, <1>5, <1>6 DEF IInv

LEMMA DropInv == ASSUME IInv, NEW c \in Conns, Drop(c) PROVE IInv'
<1>1. /\ c \in Reading /\ state' = [state EXCEPT ![c] = "away"] /\ left' = 0
      /\ sent' = [sent EXCEPT ![c] = "nothing"] /\ UNCHANGED <<queue, record, fp, owed>>
  BY DEF Drop
<1>2. /\ state' \in [Conns -> {"away", "queued", "header", "body", "open"}]
      /\ Reading' = {} /\ QueueInv' /\ WaitInv'
  BY <1>1, ReadEnds
<1>3. TypeOK'
  BY <1>1, <1>2, TimeoutAssumption DEF IInv, TypeOK
<1>4. PrintInv'
  BY <1>1 DEF IInv, TypeOK, PrintInv
<1> QED
  BY <1>2, <1>3, <1>4 DEF IInv

LEMMA CloseInv == ASSUME IInv, NEW c \in Conns, Close(c) PROVE IInv'
<1>1. /\ state[c] = "open" /\ state' = [state EXCEPT ![c] = "away"]
      /\ record' = [record EXCEPT ![c] = <<>>] /\ fp' = [fp EXCEPT ![c] = NoFingerprint]
      /\ UNCHANGED <<sent, queue, left, owed>>
  BY DEF Close
<1>2. /\ state' \in [Conns -> {"away", "queued", "header", "body", "open"}]
      /\ \A d \in Conns : state'[d] = IF d = c THEN "away" ELSE state[d]
  BY <1>1 DEF IInv, TypeOK
<1>3. Reading' = Reading /\ \A d \in Conns : state'[d] = "queued" <=> state[d] = "queued"
  BY <1>1, <1>2 DEF Reading
<1>4. TypeOK'
  BY <1>1, <1>2, <1>3 DEF IInv, TypeOK
<1>5. Rest' = Rest /\ Rest \in Int
  BY <1>1, <1>3, TimeoutAssumption DEF Rest, IInv, TypeOK
<1>6. QueueInv' /\ WaitInv'
  BY <1>1, <1>3, <1>5, QueueStays, WaitsStay
<1>7. PrintInv'
  BY <1>1, <1>2 DEF IInv, TypeOK, PrintInv
<1> QED
  BY <1>4, <1>6, <1>7 DEF IInv

\* Time passes while somebody is being read, for the deadline and for those who wait
\* alike, or while the backlog is empty.
LEMMA TickInv == ASSUME IInv, Tick PROVE IInv'
<1>1. /\ ~Busy /\ left' = IF Reading = {} THEN left ELSE left - 1
      /\ owed' = [c \in Conns |-> IF state[c] = "queued" THEN owed[c] - 1 ELSE owed[c]]
      /\ UNCHANGED <<state, sent, queue, record, fp>>
  BY DEF Tick
<1>2. Reading' = Reading
  BY <1>1 DEF Reading
<1>3. Reading # {} => left \in 1 .. Timeout
  BY <1>1, TimeoutAssumption DEF Busy, IInv, TypeOK
<1>4. TypeOK'
  <2>1. left' \in 0 .. Timeout
    BY <1>1, <1>3, TimeoutAssumption DEF IInv, TypeOK
  <2>2. owed' \in [Conns -> Int]
    BY <1>1 DEF IInv, TypeOK
  <2> QED
    BY <1>1, <1>2, <2>1, <2>2 DEF IInv, TypeOK
<1>5. QueueInv'
  BY <1>1, QueueStays
<1>6. WaitInv'
  <2> SUFFICES ASSUME NEW k \in DOMAIN queue
               PROVE  owed'[queue[k]] >= Timeout * (k - 1) + Rest'
    BY <1>1 DEF WaitInv
  <2>1. queue[k] \in Conns /\ k \in Nat /\ DOMAIN queue # {} /\ queue # <<>>
    BY ElementOfSeq, LenProperties DEF IInv, TypeOK
  <2>2. Reading # {}
    BY <1>1, <2>1 DEF Busy
  <2>3. Rest = left /\ Rest' = left - 1 /\ left \in Int
    BY <1>1, <1>2, <2>2, TimeoutAssumption DEF Rest, IInv, TypeOK
  <2>4. owed'[queue[k]] = owed[queue[k]] - 1 /\ owed[queue[k]] \in Int
    BY <1>1, <2>1 DEF IInv, TypeOK, QueueInv
  <2>5. Timeout * (k - 1) \in Int
    BY <2>1, TimeoutAssumption
  <2> QED
    BY <2>3, <2>4, <2>5 DEF IInv, WaitInv
<1>7. PrintInv'
  BY <1>1 DEF IInv, PrintInv
<1> QED
  BY <1>4, <1>5, <1>6, <1>7 DEF IInv

LEMMA DieInv == ASSUME IInv, Die PROVE IInv'
<1>1. /\ state' = [c \in Conns |-> "away"] /\ queue' = <<>>
      /\ record' = [c \in Conns |-> <<>>] /\ fp' = [c \in Conns |-> NoFingerprint]
      /\ sent' = [c \in Conns |-> "nothing"] /\ owed' = [c \in Conns |-> 0]
      /\ UNCHANGED left
  BY DEF Die
<1>2. queue' \in Seq(Conns) /\ DOMAIN queue' = {}
  BY <1>1
<1>3. Reading' = {}
  BY <1>1 DEF Reading
<1>4. TypeOK'
  BY <1>1, <1>2, <1>3 DEF IInv, TypeOK
<1>5. QueueInv' /\ WaitInv'
  BY <1>1, <1>2 DEF QueueInv, WaitInv
<1>6. PrintInv'
  BY <1>1 DEF PrintInv
<1> QED
  BY <1>4, <1>5, <1>6 DEF IInv

LEMMA ListenerInv == Spec => []IInv
<1>1. IInv /\ [Next]_vars => IInv'
  <2> SUFFICES ASSUME IInv, [Next]_vars PROVE IInv'
    OBVIOUS
  <2>1. CASE Listener
    BY <2>1, AcceptInv, ReadHeaderInv, ReadBodyInv, DropInv DEF Listener
  <2>2. CASE Tick
    BY <2>2, TickInv
  <2>3. CASE Die
    BY <2>3, DieInv
  <2>4. CASE \E c \in Conns : Connect(c) \/ Send(c) \/ Close(c)
    BY <2>4, ConnectInv, SendInv, CloseInv
  <2>5. CASE UNCHANGED vars
    BY <2>5 DEF vars, IInv, TypeOK, QueueInv, WaitInv, PrintInv, Rest, Reading
  <2> QED
    BY <2>1, <2>2, <2>3, <2>4, <2>5 DEF Next
<1> QED
  BY InitListener, <1>1, PTL DEF Spec

------------------------------------------------------------------------------
(* The variables keep their types, and there is never more than one connection
   being read, so one deadline is enough (main.go:86-129). *)
THEOREM ListenerTyping == Spec => []TypeOK
<1>1. IInv => TypeOK
  BY DEF IInv
<1> QED
  BY <1>1, ListenerInv, PTL

(* A connection waits for at most one timeout for each one ahead of it, however many
   there are and whatever they send (main.go:50-53, 86-129). *)
THEOREM NobodyWaitsLonger == Spec => []WaitBound
<1>1. ASSUME IInv PROVE WaitBound
  <2> SUFFICES ASSUME NEW c \in Conns, state[c] = "queued" PROVE owed[c] >= 0
    BY DEF WaitBound
  <2>1. PICK k \in DOMAIN queue : queue[k] = c
    BY <1>1 DEF IInv, QueueInv
  <2>2. k \in Nat \ {0}
    BY <1>1, LenProperties DEF IInv, TypeOK
  <2>3. Timeout * (k - 1) \in Nat /\ Rest \in Nat /\ owed[c] \in Int
    <3>1. Timeout * (k - 1) \in Nat
      BY <2>2, TimeoutAssumption
    <3>2. Rest \in Nat /\ owed[c] \in Int
      BY <1>1, TimeoutAssumption DEF Rest, IInv, TypeOK
    <3> QED
      BY <3>1, <3>2
  <2>4. owed[c] >= Timeout * (k - 1) + Rest
    BY <1>1, <2>1 DEF IInv, WaitInv
  <2> QED
    BY <2>3, <2>4
<1> QED
  BY <1>1, ListenerInv, PTL

(* No request carries trusted headers that its client wrote, or those of another
   connection, for any records, headers and Connection headers (main.go:207-231). *)
THEOREM FingerprintsAreOwn == Spec => []OwnFingerprint
<1>1. IInv => OwnFingerprint
  BY ForwardedIsOwn DEF IInv
<1> QED
  BY <1>1, ListenerInv, PTL
==============================================================================
