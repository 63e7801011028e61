------------------------------ MODULE TLSFront ------------------------------
(***************************************************************************)
(* The listener and the reverse proxy of tlsfront (tlsfront/main.go).      *)
(*                                                                         *)
(* net/http accepts connections in one goroutine, and fpListener.Accept    *)
(* reads a whole TLS record before it returns one, so the connections      *)
(* behind wait in the backlog of the kernel.  Time is counted in ticks;    *)
(* none passes while the listener has something to do.  Clients send what  *)
(* they like, when they like; a slot that is away may connect again.       *)
(***************************************************************************)
EXTENDS ClientHello

CONSTANTS
  Conns,      \* slots for connections
  Records,    \* first records that clients send, as bytes
  Timeout,    \* handshakeReadTimeout, in ticks
  Requests,   \* headers of the requests clients send
  Listed      \* the names that their Connection headers list

ASSUME TimeoutAssumption == Timeout \in Nat \ {0}

VARIABLES
  state,      \* "away", "queued", being read ("header" or "body"), or "open"
  sent,       \* how much of its record has arrived; "bad": closed, or oversized
  queue,      \* the connections not accepted yet
  left,       \* ticks to the read deadline
  record,     \* prefixConn.prefix: the record of an open connection
  fp,         \* fpConn.fp
  owed        \* history: how long a queued connection may be kept waiting yet

vars == <<state, sent, queue, left, record, fp, owed>>

NoFingerprint == [ja4 |-> <<>>, sni |-> <<>>]

Reading == { c \in Conns : state[c] \in {"header", "body"} }

HeaderHere(c) == sent[c] \in {"header", "record"}

\* The listener can go on without waiting for a client.
Busy ==
  \/ Reading = {} /\ queue # <<>>
  \/ \E c \in Reading : \/ left = 0 \/ sent[c] \in {"record", "bad"}
                        \/ state[c] = "header" /\ HeaderHere(c)

------------------------------------------------------------------------------
Init ==
  /\ state = [c \in Conns |-> "away"]
  /\ sent = [c \in Conns |-> "nothing"]
  /\ queue = <<>>
  /\ left = 0
  /\ record = [c \in Conns |-> <<>>]
  /\ fp = [c \in Conns |-> NoFingerprint]
  /\ owed = [c \in Conns |-> 0]

Connect(c) ==
  /\ state[c] = "away"
  /\ state' = [state EXCEPT ![c] = "queued"]
  /\ queue' = Append(queue, c)
  /\ owed' = [owed EXCEPT ![c] =
                Timeout * (Len(queue) + (IF Reading = {} THEN 0 ELSE 1))]
  /\ UNCHANGED <<sent, left, record, fp>>

Send(c) ==
  /\ state[c] \in {"queued", "header", "body"}
  /\ \/ sent[c] = "nothing" /\ sent' = [sent EXCEPT ![c] = "header"]
     \/ sent[c] = "header" /\ sent' = [sent EXCEPT ![c] = "record"]
     \/ sent[c] \in {"nothing", "header"} /\ sent' = [sent EXCEPT ![c] = "bad"]
  /\ UNCHANGED <<state, queue, left, record, fp, owed>>

\* Mutant: a goroutine reads the record, and the listener accepts meanwhile.
AcceptMeanwhile ==
  /\ queue # <<>>
  /\ state' = [state EXCEPT ![Head(queue)] = "header"]
  /\ queue' = Tail(queue)
  /\ left' = Timeout
  /\ owed' = [owed EXCEPT ![Head(queue)] = 0]
  /\ UNCHANGED <<sent, record, fp>>

\* Listener.Accept, and the deadline for the whole record.
Accept ==
  /\ Reading = {}
  /\ queue # <<>>
  /\ state' = [state EXCEPT ![Head(queue)] = "header"]
  /\ queue' = Tail(queue)
  /\ left' = Timeout
  /\ owed' = [owed EXCEPT ![Head(queue)] = 0]
  /\ UNCHANGED <<sent, record, fp>>

\* Mutant: a deadline for each of the two reads.
ReadHeaderRenewing(c) ==
  /\ state[c] = "header"
  /\ HeaderHere(c)
  /\ state' = [state EXCEPT ![c] = "body"]
  /\ left' = Timeout
  /\ UNCHANGED <<sent, queue, record, fp, owed>>

ReadHeader(c) ==
  /\ state[c] = "header"
  /\ HeaderHere(c)
  /\ state' = [state EXCEPT ![c] = "body"]
  /\ UNCHANGED <<sent, queue, left, record, fp, owed>>

\* Accept returns the connection with its fingerprint, an empty one if the record
\* is no ClientHello.
ReadBody(c) ==
  /\ state[c] = "body"
  /\ sent[c] = "record"
  /\ state' = [state EXCEPT ![c] = "open"]
  /\ \E r \in Records :
        /\ record' = [record EXCEPT ![c] = r]
        /\ fp' = [fp EXCEPT ![c] =
                    LET ch == ParseClientHello(r)
                    IN IF ch.ok THEN [ja4 |-> JA4(ch), sni |-> SNIOf(ch)]
                       ELSE NoFingerprint]
  /\ sent' = [sent EXCEPT ![c] = "nothing"]
  /\ left' = 0
  /\ UNCHANGED <<queue, owed>>

\* Mutant: the reads have no deadline.
DropOnError(c) ==
  /\ c \in Reading
  /\ sent[c] = "bad"
  /\ state' = [state EXCEPT ![c] = "away"]
  /\ sent' = [sent EXCEPT ![c] = "nothing"]
  /\ left' = 0
  /\ UNCHANGED <<queue, record, fp, owed>>

\* readRecord fails, on its deadline or on what it read; Accept tries the next one.
Drop(c) ==
  /\ c \in Reading
  /\ left = 0 \/ sent[c] = "bad"
  /\ state' = [state EXCEPT ![c] = "away"]
  /\ sent' = [sent EXCEPT ![c] = "nothing"]
  /\ left' = 0
  /\ UNCHANGED <<queue, record, fp, owed>>

Close(c) ==
  /\ state[c] = "open"
  /\ state' = [state EXCEPT ![c] = "away"]
  /\ record' = [record EXCEPT ![c] = <<>>]
  /\ fp' = [fp EXCEPT ![c] = NoFingerprint]
  /\ UNCHANGED <<sent, queue, left, owed>>

Tick ==
  /\ ~Busy
  /\ left' = IF Reading = {} THEN left ELSE left - 1
  /\ owed' = [c \in Conns |-> IF state[c] = "queued" THEN owed[c] - 1 ELSE owed[c]]
  /\ UNCHANGED <<state, sent, queue, record, fp>>

\* Listener.Accept fails for good, main ends the process, and every connection with
\* it.  A temporary failure is not modelled: net/http tries again after a pause.
Die ==
  /\ Reading = {}
  /\ state' = [c \in Conns |-> "away"]
  /\ queue' = <<>>
  /\ record' = [c \in Conns |-> <<>>]
  /\ fp' = [c \in Conns |-> NoFingerprint]
  /\ sent' = [c \in Conns |-> "nothing"]
  /\ owed' = [c \in Conns |-> 0]
  /\ UNCHANGED left

Listener == Accept \/ \E c \in Conns : ReadHeader(c) \/ ReadBody(c) \/ Drop(c)

Next ==
  \/ Listener \/ Tick \/ Die
  \/ \E c \in Conns : Connect(c) \/ Send(c) \/ Close(c)

Spec == Init /\ [][Next]_vars

\* The goroutine that accepts is scheduled, and time goes on.
FairSpec == Spec /\ WF_vars(Listener) /\ WF_vars(Tick)

\* At most one connection is being read: there is one deadline.
TypeOK ==
  /\ state \in [Conns -> {"away", "queued", "header", "body", "open"}]
  /\ \A c, d \in Reading : c = d
  /\ sent \in [Conns -> {"nothing", "header", "record", "bad"}]
  /\ queue \in Seq(Conns)
  /\ left \in 0 .. Timeout
  /\ record \in [Conns -> Records \union {<<>>}]
  /\ owed \in [Conns -> Int]

(* A connection is accepted after at most one handshakeReadTimeout for each one
   that was ahead of it when it connected, whatever those send and however slowly
   (main.go:50-53, 86-129).  With none ahead, at once; a silent one behind n others
   sits for n + 1 timeouts, not for one.  The pauses of net/http after temporary
   failures of Accept would come on top. *)
WaitBound == \A c \in Conns : state[c] = "queued" => owed[c] >= 0

(* No connection is left in the backlog: silent, slow and broken ones are given up
   in the end, and the one behind them is accepted (main.go:113-120). *)
EveryConnectionIsReached ==
  \A c \in Conns : state[c] = "queued" ~> state[c] # "queued"

------------------------------------------------------------------------------
\* Requests on an open connection.  A header is what it says and who wrote it.

TrustedHeaders == {"X-Edge-JA4", "X-Edge-JA4-Raw", "X-Edge-JA4-SNI", "X-Edge-Client-IP"}

\* Some headers written over others.
Over(new, old) ==
  [h \in DOMAIN new \union DOMAIN old |-> IF h \in DOMAIN new THEN new[h] ELSE old[h]]

\* What the Director sets for connection c.  The raw form lists what the JA4 hashes.
Set(c) ==
  LET names == {"X-Edge-Client-IP"}
               \union (IF fp[c].ja4 = <<>> THEN {} ELSE {"X-Edge-JA4", "X-Edge-JA4-Raw"})
               \union (IF fp[c].ja4 = <<>> \/ fp[c].sni = <<>> THEN {} ELSE {"X-Edge-JA4-SNI"})
  IN [h \in names |-> CASE h = "X-Edge-Client-IP" -> c
                        [] h = "X-Edge-JA4-SNI"   -> fp[c].sni
                        [] OTHER                  -> fp[c].ja4]

\* Mutant: the client's headers are overwritten, and dropped only by being so.
DirectorOverwriting(c, headers) == Over(Set(c), headers)

Director(c, headers) == Over(Set(c), Restrict(headers, DOMAIN headers \ TrustedHeaders))

\* ReverseProxy removes the headers that Connection lists after the Director ran.
Forwarded(c, headers, listed) ==
  LET h == Director(c, headers) IN Restrict(h, DOMAIN h \ listed)

\* What the sensor may be told of connection c, from the record it began with.
Own(c) ==
  LET ch == ParseClientHello(record[c])
  IN [ h \in TrustedHeaders |->
         CASE h = "X-Edge-Client-IP" -> c
           [] h # "X-Edge-Client-IP" /\ ~ch.ok -> <<>>
           [] h = "X-Edge-JA4-SNI" /\ ch.ok -> SNIOf(ch)
           [] OTHER -> JA4(ch) ]

(* Whatever a client writes, the trusted headers the sensor gets are those of the
   connection the request came on: never the client's, never another connection's.
   One is missing only if the hello has nothing to say there, or if the client's
   Connection header lists it, which main.go:39-40 ("Anything arriving under these
   names from the client is dropped") does not foresee (main.go:207-231, 244-249). *)
OwnFingerprint ==
  \A c \in Conns : state[c] = "open" =>
    \A headers \in Requests, listed \in Listed :
      LET out == Forwarded(c, headers, listed)
          own == Own(c)
      IN /\ \A h \in TrustedHeaders :
              IF h \in DOMAIN out THEN out[h] = own[h] ELSE h \in listed \/ own[h] = <<>>
         /\ DOMAIN headers \ (TrustedHeaders \union listed) \subseteq DOMAIN out
==============================================================================
