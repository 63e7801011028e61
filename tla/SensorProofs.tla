---------------------------- MODULE SensorProofs ----------------------------
(***************************************************************************)
(* The capture service for any number of connections, requests, addresses  *)
(* and rows, any window and any clock.                                     *)
(*                                                                         *)
(* The properties are about rows that are in the table; they are inductive *)
(* once it is said what a handler in flight knows:                         *)
(*   - a handler past its await owns the loop, so at most one is;          *)
(*   - a handler that has measured knows the velocity of the table as it   *)
(*     is at this moment, and so the row it inserts can be rebuilt;        *)
(*   - the ids of requests in flight differ, and those not recorded are    *)
(*     not in the table;                                                   *)
(*   - no row has an id above lastId or a time in the future, so a new row *)
(*     comes after all others, by id and by time.                          *)
(***************************************************************************)
EXTENDS Sensor, FiniteSetTheorems, TLAPS

------------------------------------------------------------------------------
(* What is needed of the classifier.                                       *)

IsRequest(req)    == req.exploits \in Nat
IsFingerprint(fp) == fp.missing_baseline \in Nat

\* The best scored intent exists, is an intent, and no intent beats it.
LEMMA TopIntentIsBest ==
  ASSUME NEW scores \in ScoreBoards
  PROVE  /\ TopIntent(scores) \in IntentVerdicts
         /\ \A v \in IntentVerdicts : scores[v] <= scores[TopIntent(scores)]
<1> DEFINE Best(i) == /\ \A j \in 1 .. 4 : scores[IntentOrder[j]] <= scores[IntentOrder[i]]
                      /\ \A j \in 1 .. (i - 1) : scores[IntentOrder[j]] < scores[IntentOrder[i]]
<1>1. /\ scores[IntentOrder[1]] \in Nat /\ scores[IntentOrder[2]] \in Nat
      /\ scores[IntentOrder[3]] \in Nat /\ scores[IntentOrder[4]] \in Nat
  BY DEF ScoreBoards, Verdicts, IntentVerdicts, IntentOrder
<1>2. \E i \in 1 .. 4 : Best(i)
  BY <1>1
<1>3. PICK i \in 1 .. 4 : Best(i) /\ TopIntent(scores) = IntentOrder[i]
  BY <1>2 DEF TopIntent
<1>4. \A v \in IntentVerdicts : \E j \in 1 .. 4 : v = IntentOrder[j]
  BY DEF IntentVerdicts, IntentOrder
<1>5. IntentOrder[i] \in IntentVerdicts
  BY DEF IntentVerdicts, IntentOrder
<1> QED
  BY <1>3, <1>4, <1>5

\* classify always reaches one of the seven verdicts.
LEMMA DecideIsTotal ==
  ASSUME NEW scores \in ScoreBoards
  PROVE  Decide[scores] \in Verdicts
BY TopIntentIsBest DEF Decide, Verdicts

\* Every request has a fingerprint that can be scored.
LEMMA PrintIsScorable ==
  ASSUME NEW req, NEW host
  PROVE  IsFingerprint(BuildFingerprint(req, host))
<1> DEFINE missing == BaselineHeaders \ Names(req.headers)
<1>1. IsFiniteSet(BaselineHeaders)
  <2>1. IsFiniteSet({"accept"})
    BY FS_Singleton
  <2>2. IsFiniteSet({"accept"} \union {"accept-encoding"})
    BY <2>1, FS_AddElement
  <2>3. IsFiniteSet(({"accept"} \union {"accept-encoding"}) \union {"accept-language"})
    BY <2>2, FS_AddElement
  <2>4. IsFiniteSet((({"accept"} \union {"accept-encoding"}) \union {"accept-language"})
                      \union {"user-agent"})
    BY <2>3, FS_AddElement
  <2>5. BaselineHeaders = (({"accept"} \union {"accept-encoding"}) \union {"accept-language"})
                            \union {"user-agent"}
    BY DEF BaselineHeaders
  <2> QED
    BY <2>4, <2>5
<1>2. Cardinality(missing) \in Nat
  BY <1>1, FS_Subset, FS_CardinalityType
<1>3. BuildFingerprint(req, host).missing_baseline = Cardinality(missing)
  BY DEF BuildFingerprint
<1> QED
  BY <1>2, <1>3 DEF IsFingerprint

\* The scores are a table of numbers.
LEMMA ScoresType ==
  ASSUME NEW req, NEW fp, NEW vel, IsRequest(req), IsFingerprint(fp)
  PROVE  Scores(req, fp, vel) \in ScoreBoards
<1>2. /\ PathSignals(req).vuln_scanner \in Nat
      /\ PathSignals(req).recon_probe \in Nat
      /\ PathSignals(req).credential_attack \in Nat
      /\ PathSignals(req).content_scraper \in Nat
  BY DEF PathSignals, IsRequest, Worth
<1>3. /\ FingerprintSignals(fp).verified_crawler \in Nat
      /\ FingerprintSignals(fp).content_scraper \in Nat
      /\ FingerprintSignals(fp).unclassified_automation \in Nat
  BY DEF FingerprintSignals, IsFingerprint, Worth
<1>4. /\ TLSSignals(fp).unclassified_automation \in Nat
      /\ TLSSignals(fp).likely_human \in Nat
  BY DEF TLSSignals, Worth
<1>5. HumanSignals(fp, vel) \in Nat /\ StatusSignals(req) \in Nat
  BY DEF HumanSignals, StatusSignals, Worth
<1>6. ASSUME NEW login
      PROVE  /\ VelocitySignals(vel, login).vuln_scanner \in Nat
             /\ VelocitySignals(vel, login).recon_probe \in Nat
             /\ VelocitySignals(vel, login).credential_attack \in Nat
             /\ VelocitySignals(vel, login).unclassified_automation \in Nat
             /\ VelocitySignals(vel, login).content_scraper \in Nat
  BY DEF VelocitySignals, Worth
<1> QED
  BY <1>2, <1>3, <1>4, <1>5, <1>6 DEF Scores, ScoreBoards, Verdicts, IntentVerdicts

------------------------------------------------------------------------------

LoopInv ==
  /\ pc \in [Slots -> Labels]
  /\ loop \in Slots \union {Nobody}
  /\ \A s \in Slots : pc[s] \in Running <=> loop = s

CountersInv == arrivals \in Nat /\ lastId \in Nat /\ synced \in 0 .. lastId /\ now \in Int

JobInv ==
  /\ job = [s \in Slots |-> job[s]]
  /\ \A s \in Slots : pc[s] # "free" => job[s].rid \in 1 .. arrivals /\ job[s].req \in Requests
  /\ \A s, t \in Slots : pc[s] # "free" /\ pc[t] # "free" /\ s # t => job[s].rid # job[t].rid

PrintInv ==
  \A s \in Slots : pc[s] \in Running =>
    \E host : job[s].fp = BuildFingerprint(job[s].req, host)

MeasureInv ==
  \A s \in Slots : pc[s] = "measured" =>
    job[s].vel = VelocityFor(events, job[s].req.ip, job[s].since, job[s].fp.client_id)

RowsInv ==
  \A r \in events : /\ r.id \in 1 .. lastId /\ r.ts \in Int /\ r.ts <= now
                    /\ r.verdict \in Verdicts
                    /\ r.rid \in 1 .. arrivals

IInv ==
  /\ LoopInv /\ CountersInv /\ JobInv /\ PrintInv /\ MeasureInv /\ RowsInv
  /\ VerdictRebuildable /\ StoredExactlyWhenAnswered /\ IdOrderIsTimeOrder

------------------------------------------------------------------------------
(* Facts about fingerprints and tables.                                    *)

\* Every captured request has an identity and a fingerprint that can be scored.
LEMMA PrintFacts ==
  ASSUME NEW req, NEW host
  PROVE  /\ BuildFingerprint(req, host).client_id # NoClient
         /\ IsFingerprint(BuildFingerprint(req, host))
<1>1. BuildFingerprint(req, host).client_id = ClientId(req.headers, req.ja4, req.lang, UAFamily(req.ua))
  BY DEF BuildFingerprint
<1>2. ClientId(req.headers, req.ja4, req.lang, UAFamily(req.ua)) # NoClient
  BY DEF ClientId, NoClient
<1> QED
  BY <1>1, <1>2, PrintIsScorable

LEMMA InitInv == Init => IInv
<1> SUFFICES ASSUME Init
             PROVE  IInv
  OBVIOUS
<1>1. LoopInv
  BY SensorAssumption DEF Init, LoopInv, Labels, Running
<1>2. CountersInv
  BY DEF Init, CountersInv
<1>3. JobInv
  BY DEF Init, JobInv
<1>4. PrintInv /\ MeasureInv
  BY DEF Init, PrintInv, MeasureInv, Running
<1>5. RowsInv /\ VerdictRebuildable /\ IdOrderIsTimeOrder
  BY DEF Init, RowsInv, VerdictRebuildable, IdOrderIsTimeOrder
<1>6. StoredExactlyWhenAnswered
  BY DEF StoredExactlyWhenAnswered, Init
<1> QED
  BY <1>1, <1>2, <1>3, <1>4, <1>5, <1>6 DEF IInv

------------------------------------------------------------------------------
(* One lemma per operation.                                                *)

\* What is said of the table alone survives every step that leaves it alone.
LEMMA TableKept ==
  ASSUME IInv, UNCHANGED <<events, lastId>>, now' \in Int, now' >= now,
         arrivals' \in Nat, arrivals' >= arrivals
  PROVE  RowsInv' /\ VerdictRebuildable' /\ IdOrderIsTimeOrder'
<1>1. RowsInv'
  BY DEF IInv, RowsInv, CountersInv
<1>2. VerdictRebuildable'
  BY DEF IInv, VerdictRebuildable, Before
<1>3. IdOrderIsTimeOrder'
  BY DEF IInv, IdOrderIsTimeOrder
<1> QED
  BY <1>1, <1>2, <1>3

LEMMA ArriveInv ==
  ASSUME IInv, NEW s \in Slots, Arrive(s)
  PROVE  IInv'
<1>1. PICK req \in Requests :
        job' = [job EXCEPT ![s] = [rid |-> arrivals + 1, req |-> req, arrived |-> now]]
  BY DEF Arrive
<1>2. /\ job'[s].rid = arrivals + 1 /\ job'[s].req = req
      /\ \A t \in Slots \ {s} : job'[t] = job[t]
      /\ job' = [t \in Slots |-> job'[t]]
  BY <1>1 DEF IInv, JobInv
<1>3. pc' = [pc EXCEPT ![s] = "reading"] /\ pc[s] = "free" /\ arrivals' = arrivals + 1
  BY DEF Arrive
<1>4. pc'[s] = "reading" /\ \A t \in Slots \ {s} : pc'[t] = pc[t]
  BY <1>3 DEF IInv, LoopInv
<1>5. LoopInv'
  BY <1>3, <1>4 DEF IInv, LoopInv, Labels, Running, Arrive
<1>6. CountersInv'
  BY DEF IInv, CountersInv, Arrive
<1>7. JobInv'
  BY <1>2, <1>3, <1>4 DEF IInv, JobInv, CountersInv
<1>8. PrintInv'
  BY <1>2, <1>4 DEF IInv, PrintInv, Running
<1>9. MeasureInv'
  BY <1>2, <1>4 DEF IInv, MeasureInv, Arrive
<1>10. RowsInv' /\ VerdictRebuildable' /\ IdOrderIsTimeOrder'
  BY TableKept DEF IInv, CountersInv, Arrive
<1>11. StoredExactlyWhenAnswered'
  <2>1. \A r \in events : r.rid \in 1 .. arrivals
    BY DEF IInv, RowsInv
  <2>2. events' = events
    BY DEF Arrive
  <2>3. \A r \in events : r.rid # job'[s].rid
    BY <1>2, <2>1 DEF IInv, CountersInv
  <2> QED
    BY <1>2, <1>4, <2>2, <2>3 DEF IInv, StoredExactlyWhenAnswered
<1> QED
  BY <1>5, <1>6, <1>7, <1>8, <1>9, <1>10, <1>11 DEF IInv

LEMMA BodyCompleteInv ==
  ASSUME IInv, NEW s \in Slots, BodyComplete(s)
  PROVE  IInv'
<1>1. /\ pc[s] = "reading" /\ pc'[s] = "ready" /\ job' = job
      /\ pc' \in [Slots -> Labels]
      /\ \A t \in Slots \ {s} : pc'[t] = pc[t]
  BY DEF BodyComplete, IInv, LoopInv, Labels
<1>2. LoopInv'
  BY <1>1 DEF IInv, LoopInv, Running, BodyComplete
<1>3. CountersInv'
  BY DEF IInv, CountersInv, BodyComplete
<1>4. JobInv'
  BY <1>1 DEF IInv, JobInv, BodyComplete
<1>5. PrintInv' /\ MeasureInv'
  BY <1>1 DEF IInv, PrintInv, MeasureInv, Running, BodyComplete
<1>6. RowsInv' /\ VerdictRebuildable' /\ IdOrderIsTimeOrder'
  BY TableKept DEF IInv, CountersInv, BodyComplete
<1>7. StoredExactlyWhenAnswered'
  BY <1>1 DEF IInv, StoredExactlyWhenAnswered, BodyComplete
<1> QED
  BY <1>2, <1>3, <1>4, <1>5, <1>6, <1>7 DEF IInv

\* Disconnect and Respond give the slot back.
LEMMA FreeInv ==
  ASSUME IInv, NEW s \in Slots,
         pc' = [pc EXCEPT ![s] = "free"], job' = [job EXCEPT ![s] = NoJob],
         loop' = IF loop = s THEN Nobody ELSE loop,
         UNCHANGED <<now, events, lastId, synced, arrivals>>
  PROVE  IInv'
<1>1. /\ pc'[s] = "free" /\ pc' \in [Slots -> Labels]
      /\ \A t \in Slots \ {s} : pc'[t] = pc[t]
  BY DEF IInv, LoopInv, Labels
<1>2. /\ job' = [t \in Slots |-> job'[t]]
      /\ \A t \in Slots \ {s} : job'[t] = job[t]
  BY DEF IInv, JobInv
<1>3. LoopInv'
  BY <1>1, SensorAssumption DEF IInv, LoopInv, Running
<1>4. CountersInv'
  BY DEF IInv, CountersInv
<1>5. JobInv'
  BY <1>1, <1>2 DEF IInv, JobInv
<1>6. PrintInv' /\ MeasureInv'
  BY <1>1, <1>2 DEF IInv, PrintInv, MeasureInv, Running
<1>7. RowsInv' /\ VerdictRebuildable' /\ IdOrderIsTimeOrder'
  BY TableKept DEF IInv, CountersInv
<1>8. StoredExactlyWhenAnswered'
  BY <1>1, <1>2 DEF IInv, StoredExactlyWhenAnswered
<1> QED
  BY <1>3, <1>4, <1>5, <1>6, <1>7, <1>8 DEF IInv

LEMMA DisconnectInv ==
  ASSUME IInv, NEW s \in Slots, Disconnect(s)
  PROVE  IInv'
<1>1. loop # s
  BY DEF IInv, LoopInv, Running, Disconnect
<1> QED
  BY <1>1, FreeInv DEF Disconnect

LEMMA RespondInv ==
  ASSUME IInv, NEW s \in Slots, Respond(s)
  PROVE  IInv'
<1>1. loop = s
  BY DEF IInv, LoopInv, Running, Respond
<1> QED
  BY <1>1, FreeInv DEF Respond

LEMMA ResumeInv ==
  ASSUME IInv, NEW s \in Slots, Resume(s)
  PROVE  IInv'
<1>1. PICK host \in RDNS[job[s].req.ip] : job' = [job EXCEPT ![s] = Identified(@, host)]
  BY DEF Resume
<1>2. /\ job'[s].rid = job[s].rid /\ job'[s].req = job[s].req
      /\ job'[s].fp = BuildFingerprint(job[s].req, host)
      /\ job' = [t \in Slots |-> job'[t]]
      /\ \A t \in Slots \ {s} : job'[t] = job[t]
  BY <1>1 DEF IInv, JobInv, Identified
<1>3. /\ pc[s] = "ready" /\ pc'[s] = "identified" /\ pc' \in [Slots -> Labels]
      /\ \A t \in Slots \ {s} : pc'[t] = pc[t]
  BY DEF Resume, IInv, LoopInv, Labels, Running
<1>4. LoopInv'
  BY <1>3, SensorAssumption DEF IInv, LoopInv, Running, Resume
<1>5. CountersInv'
  BY DEF IInv, CountersInv, Resume
<1>6. JobInv'
  BY <1>2, <1>3 DEF IInv, JobInv, Resume
<1>7. PrintInv'
  BY <1>2, <1>3 DEF IInv, PrintInv, Running
<1>8. MeasureInv'
  BY <1>2, <1>3 DEF IInv, MeasureInv, Resume
<1>9. RowsInv' /\ VerdictRebuildable' /\ IdOrderIsTimeOrder'
  BY TableKept DEF IInv, CountersInv, Resume
<1>10. StoredExactlyWhenAnswered'
  BY <1>2, <1>3 DEF IInv, StoredExactlyWhenAnswered, Resume
<1> QED
  BY <1>4, <1>5, <1>6, <1>7, <1>8, <1>9, <1>10 DEF IInv

LEMMA MeasureKeepsInv ==
  ASSUME IInv, NEW s \in Slots, Measure(s)
  PROVE  IInv'
<1>1. /\ job'[s].rid = job[s].rid /\ job'[s].req = job[s].req /\ job'[s].fp = job[s].fp
      /\ job'[s].vel = VelocityFor(events, job[s].req.ip, job'[s].since, job[s].fp.client_id)
      /\ job' = [t \in Slots |-> job'[t]]
      /\ \A t \in Slots \ {s} : job'[t] = job[t]
  BY DEF IInv, JobInv, Measured, Measure
<1>2. /\ pc[s] = "identified" /\ pc'[s] = "measured" /\ pc' \in [Slots -> Labels]
      /\ \A t \in Slots \ {s} : pc'[t] = pc[t]
  BY DEF Measure, IInv, LoopInv, Labels, Running
<1>3. LoopInv'
  BY <1>2 DEF IInv, LoopInv, Running, Measure
<1>4. CountersInv'
  BY DEF IInv, CountersInv, Measure
<1>5. JobInv'
  BY <1>1, <1>2 DEF IInv, JobInv, Measure
<1>6. PrintInv'
  BY <1>1, <1>2 DEF IInv, PrintInv, Running
<1>7. MeasureInv'
  BY <1>1, <1>2 DEF IInv, MeasureInv, Measure
<1>8. RowsInv' /\ VerdictRebuildable' /\ IdOrderIsTimeOrder'
  BY TableKept DEF IInv, CountersInv, Measure
<1>9. StoredExactlyWhenAnswered'
  BY <1>1, <1>2 DEF IInv, StoredExactlyWhenAnswered, Measure
<1> QED
  BY <1>3, <1>4, <1>5, <1>6, <1>7, <1>8, <1>9 DEF IInv

\* The new row comes last, by id and by time, and was judged by the table as
\* it was before.
LEMMA RecordInv ==
  ASSUME IInv, NEW s \in Slots, Record(s)
  PROVE  IInv'
<1> DEFINE new == Row(job[s])
<1>1. /\ new.id = lastId + 1 /\ new.ts = now /\ new.rid = job[s].rid
      /\ new.client_id = job[s].fp.client_id /\ new.src_ip_hash = job[s].req.ip
      /\ new.since = job[s].since /\ new.request = job[s].req /\ new.fingerprint = job[s].fp
      /\ new.signals = Scores(job[s].req, job[s].fp, job[s].vel)
      /\ new.verdict = Classify(job[s].req, job[s].fp, job[s].vel)
  BY DEF Row
<1>2. /\ events' = events \union {new} /\ lastId' = lastId + 1
      /\ UNCHANGED <<now, up, loop, job, synced, arrivals>>
      /\ pc[s] = "measured" /\ pc'[s] = "recorded" /\ pc' \in [Slots -> Labels]
      /\ \A t \in Slots \ {s} : pc'[t] = pc[t]
  BY DEF Record, IInv, LoopInv, Labels, Running
<1>3. job[s].fp.client_id # NoClient /\ IsFingerprint(job[s].fp)
  BY <1>2, PrintFacts DEF IInv, PrintInv, Running
<1>4. new.verdict \in Verdicts
  <2>1. IsRequest(job[s].req)
    BY <1>2, SensorAssumption DEF IInv, JobInv, IsRequest
  <2> QED
    BY <1>1, <1>3, <2>1, ScoresType, DecideIsTotal DEF Classify
<1> HIDE DEF new
<1>5. LoopInv'
  BY <1>2 DEF IInv, LoopInv, Running
<1>6. CountersInv'
  BY <1>2 DEF IInv, CountersInv
<1>7. JobInv' /\ PrintInv'
  BY <1>2 DEF IInv, JobInv, PrintInv, Running
<1>8. MeasureInv'
  <2>1. \A t \in Slots : pc'[t] # "measured"
    BY <1>2 DEF IInv, LoopInv, Running
  <2> QED
    BY <2>1 DEF MeasureInv
<1>9. RowsInv'
  <2>1. job[s].rid \in 1 .. arrivals
    BY <1>2 DEF IInv, JobInv
  <2>2. new.id \in 1 .. lastId' /\ new.ts \in Int /\ new.ts <= now' /\ new.rid \in 1 .. arrivals'
    BY <1>1, <1>2, <2>1 DEF IInv, CountersInv
  <2> QED
    BY <1>2, <1>4, <2>2 DEF IInv, RowsInv, CountersInv
<1>10. \A r \in events : r.id < new.id /\ r.ts <= new.ts /\ r.id \in Int
  BY <1>1 DEF IInv, RowsInv, CountersInv
<1>11. events' = events \union {new}
  BY <1>2
<1>12. VerdictRebuildable'
  <2>1. ASSUME NEW r \in events
        PROVE  Before(r)' = Before(r)
    <3>1. ~(new.id < r.id)
      BY <1>1, <1>10 DEF IInv, CountersInv
    <3>2. Before(r)' = {q \in events \union {new} : q.id < r.id}
      BY <1>2 DEF Before
    <3> QED
      BY <3>1, <3>2 DEF Before
  <2>2. ASSUME NEW r, r = new
        PROVE  Before(r)' = events
    <3>1. Before(r)' = {q \in events \union {new} : q.id < new.id}
      BY <1>2, <2>2 DEF Before
    <3>2. new.id \in Int
      BY <1>1 DEF IInv, CountersInv
    <3> QED
      BY <1>10, <3>1, <3>2
  <2>3. job[s].vel = VelocityFor(events, job[s].req.ip, job[s].since, job[s].fp.client_id)
    BY <1>2 DEF IInv, MeasureInv
  <2>4. SUFFICES ASSUME NEW r \in events'
                 PROVE  LET own == VelocityFor(Before(r)', r.src_ip_hash, r.since, r.client_id)
                        IN /\ r.signals = Scores(r.request, r.fingerprint, own)
                           /\ r.verdict = Classify(r.request, r.fingerprint, own)
    BY DEF VerdictRebuildable
  <2>5. CASE r \in events
    BY <2>1, <2>5 DEF IInv, VerdictRebuildable
  <2>6. CASE r = new
    BY <1>1, <2>2, <2>3, <2>6
  <2> QED
    BY <1>11, <2>5, <2>6
<1>13. StoredExactlyWhenAnswered'
  <2>1. \A r \in events : r.rid # new.rid
    BY <1>1, <1>2 DEF IInv, StoredExactlyWhenAnswered
  <2>2. \A t \in Slots \ {s} : pc[t] # "free" => job[t].rid # new.rid
    BY <1>1, <1>2 DEF IInv, JobInv
  <2>3. \A q, r \in events' : q.rid = r.rid => q = r
    BY <1>11, <2>1 DEF IInv, StoredExactlyWhenAnswered
  <2>4. \A t \in Slots : pc'[t] # "free" =>
          (pc'[t] = "recorded" <=> \E r \in events' : r.rid = job'[t].rid)
    BY <1>1, <1>2, <1>11, <2>2 DEF IInv, StoredExactlyWhenAnswered
  <2> QED
    BY <2>3, <2>4 DEF StoredExactlyWhenAnswered
<1>14. IdOrderIsTimeOrder'
  <2>1. new.id \in Int /\ new.ts \in Int
    BY <1>1 DEF IInv, CountersInv
  <2>3. SUFFICES ASSUME NEW q \in events', NEW r \in events', q.id < r.id
                 PROVE  q.ts <= r.ts
    BY DEF IdOrderIsTimeOrder
  <2>4. CASE q = new
    BY <1>10, <1>11, <2>1, <2>3, <2>4
  <2>5. CASE q # new /\ r = new
    BY <1>10, <1>11, <2>5
  <2>6. CASE q # new /\ r # new
    BY <1>11, <2>3, <2>6 DEF IInv, IdOrderIsTimeOrder
  <2> QED
    BY <2>4, <2>5, <2>6
<1> QED
  BY <1>5, <1>6, <1>7, <1>8, <1>9, <1>12, <1>13, <1>14 DEF IInv

LEMMA StoreFailsInv ==
  ASSUME IInv, NEW s \in Slots, StoreFails(s)
  PROVE  IInv'
<1>1. /\ pc[s] \in {"identified", "measured"} /\ pc'[s] = "failed" /\ pc' \in [Slots -> Labels]
      /\ \A t \in Slots \ {s} : pc'[t] = pc[t]
  BY DEF StoreFails, IInv, LoopInv, Labels, Running
<1>2. LoopInv'
  BY <1>1 DEF IInv, LoopInv, Running, StoreFails
<1>3. CountersInv'
  BY DEF IInv, CountersInv, StoreFails
<1>4. JobInv' /\ PrintInv' /\ MeasureInv'
  BY <1>1 DEF IInv, JobInv, PrintInv, MeasureInv, Running, StoreFails
<1>5. RowsInv' /\ VerdictRebuildable' /\ IdOrderIsTimeOrder'
  BY TableKept DEF IInv, CountersInv, StoreFails
<1>6. StoredExactlyWhenAnswered'
  BY <1>1 DEF IInv, StoredExactlyWhenAnswered, StoreFails
<1> QED
  BY <1>2, <1>3, <1>4, <1>5, <1>6 DEF IInv

\* The clock, a checkpoint and a restart touch no handler and no row.
LEMMA SurroundingsInv ==
  ASSUME IInv, UNCHANGED <<loop, pc, job, events, lastId, arrivals>>,
         now' \in Int, now' >= now, synced' \in 0 .. lastId
  PROVE  IInv'
<1>1. LoopInv' /\ JobInv' /\ PrintInv' /\ MeasureInv'
  BY DEF IInv, LoopInv, JobInv, PrintInv, MeasureInv
<1>2. CountersInv'
  BY DEF IInv, CountersInv
<1>3. RowsInv' /\ VerdictRebuildable' /\ IdOrderIsTimeOrder'
  BY TableKept DEF IInv, CountersInv
<1>4. StoredExactlyWhenAnswered'
  BY DEF IInv, StoredExactlyWhenAnswered
<1> QED
  BY <1>1, <1>2, <1>3, <1>4 DEF IInv

\* What a stop leaves behind, for a table that keeps the rows up to some id.
LEMMA StopInv ==
  ASSUME IInv, Stop, NEW k \in synced .. lastId,
         events' = {r \in events : r.id <= k}, lastId' = k
  PROVE  IInv'
<1>1. /\ loop' = Nobody /\ pc' = [t \in Slots |-> "free"] /\ job' = [t \in Slots |-> NoJob]
      /\ UNCHANGED <<now, arrivals, synced>>
  BY DEF Stop
<1>2. LoopInv'
  BY <1>1, SensorAssumption DEF LoopInv, Labels, Running
<1>3. CountersInv'
  BY <1>1 DEF IInv, CountersInv
<1>4. JobInv' /\ PrintInv' /\ MeasureInv'
  BY <1>1 DEF JobInv, PrintInv, MeasureInv, Running
<1>5. events' = {r \in events : r.id <= k}
  OBVIOUS
<1>6. RowsInv'
  BY <1>1 DEF IInv, RowsInv, CountersInv
<1>7. VerdictRebuildable'
  <2>1. \A r \in events' : Before(r)' = Before(r)
    BY <1>5 DEF IInv, RowsInv, CountersInv, Before
  <2> QED
    BY <1>5, <2>1 DEF IInv, VerdictRebuildable
<1>8. StoredExactlyWhenAnswered'
  BY <1>1, <1>5 DEF IInv, StoredExactlyWhenAnswered
<1>9. IdOrderIsTimeOrder'
  BY <1>5 DEF IInv, IdOrderIsTimeOrder
<1> QED
  BY <1>2, <1>3, <1>4, <1>6, <1>7, <1>8, <1>9 DEF IInv

LEMMA CrashInv ==
  ASSUME IInv, Crash
  PROVE  IInv'
<1>1. lastId \in synced .. lastId
  BY DEF IInv, CountersInv
<1>2. events' = {r \in events : r.id <= lastId}
  BY DEF Crash, IInv, RowsInv, CountersInv
<1> QED
  BY <1>1, <1>2, StopInv DEF Crash

------------------------------------------------------------------------------
(* The invariant, and what follows from it.                                *)

LEMMA NextInv == IInv /\ [Next]_vars => IInv'
<1> SUFFICES ASSUME IInv, [Next]_vars
             PROVE  IInv'
  OBVIOUS
<1>1. ASSUME NEW s \in Slots,
             \/ Arrive(s) \/ BodyComplete(s) \/ Disconnect(s) \/ Resume(s)
             \/ Measure(s) \/ Record(s) \/ StoreFails(s) \/ Respond(s)
      PROVE  IInv'
  BY <1>1, ArriveInv, BodyCompleteInv, DisconnectInv, ResumeInv, MeasureKeepsInv, RecordInv,
     StoreFailsInv, RespondInv
<1>2. CASE Tick
  BY <1>2, SurroundingsInv DEF Tick, IInv, CountersInv
<1>3. CASE Checkpoint
  BY <1>3, SurroundingsInv DEF Checkpoint, IInv, CountersInv
<1>4. CASE Crash
  BY <1>4, CrashInv
<1>5. CASE PowerLoss
  BY <1>5, StopInv DEF PowerLoss
<1>6. CASE Restart
  BY <1>6, SurroundingsInv DEF Restart, IInv, CountersInv
<1>7. CASE UNCHANGED vars
  BY <1>7, SurroundingsInv DEF vars, IInv, CountersInv
<1> QED
  BY <1>1, <1>2, <1>3, <1>4, <1>5, <1>6, <1>7 DEF Next

LEMMA Invariance == Spec => []IInv
BY InitInv, NextInv, PTL DEF Spec

\* Every stored verdict can be rebuilt from the table, however requests of any
\* number of clients interleave and however often the service is cut off.
THEOREM VerdictsAreRebuildable == Spec => []VerdictRebuildable
BY Invariance, PTL DEF IInv

\* No request is stored twice, or answered with its decoy and not stored.
THEOREM NothingLostOrDoubled == Spec => []StoredExactlyWhenAnswered
BY Invariance, PTL DEF IInv

\* The table is in the same order by id and by time.
THEOREM OrdersAgree == Spec => []IdOrderIsTimeOrder
BY Invariance, PTL DEF IInv

\* No step takes a row that a checkpoint has reached.
THEOREM DurabilityHolds == Spec => DurableRowsStay
<1> DEFINE Durable == {r \in events : r.id <= synced}
<1>1. IInv /\ [Next]_vars => [Durable \subseteq events']_vars
  <2> SUFFICES ASSUME IInv, Next
               PROVE  Durable \subseteq events'
    OBVIOUS
  <2>1. CASE UNCHANGED events
    BY <2>1
  <2>2. CASE \E s \in Slots : Record(s)
    BY <2>2 DEF Record
  <2>3. CASE PowerLoss
    BY <2>3 DEF PowerLoss, IInv, CountersInv, RowsInv
  <2> QED
    BY <2>1, <2>2, <2>3 DEF Next, Arrive, BodyComplete, Disconnect, Resume, Measure, StoreFails,
       Respond, Tick, Checkpoint, Crash, Restart
<1> QED
  BY <1>1, Invariance, PTL DEF Spec, DurableRowsStay

\* The bounds of the model are kept, and every stored verdict is one of the seven.
BoundsInv == now \in 0 .. MaxTime /\ up \in BOOLEAN /\ arrivals \in 0 .. MaxArrivals

THEOREM Typing == Spec => []TypeOK
<1>1. Init => BoundsInv
  BY SensorAssumption DEF Init, BoundsInv
<1>2. BoundsInv /\ [Next]_vars => BoundsInv'
  <2> SUFFICES ASSUME BoundsInv, [Next]_vars
               PROVE  BoundsInv'
    OBVIOUS
  <2>1. CASE UNCHANGED vars
    BY <2>1 DEF BoundsInv, vars
  <2>2. CASE Tick
    BY <2>2, SensorAssumption DEF BoundsInv, Tick
  <2>3. CASE \E s \in Slots : Arrive(s)
    BY <2>3, SensorAssumption DEF BoundsInv, Arrive
  <2>4. CASE Crash \/ PowerLoss \/ Restart \/ Checkpoint
    BY <2>4 DEF BoundsInv, Crash, PowerLoss, Stop, Restart, Checkpoint
  <2>5. CASE \E s \in Slots : \/ BodyComplete(s) \/ Disconnect(s) \/ Resume(s) \/ Measure(s)
                               \/ Record(s) \/ StoreFails(s) \/ Respond(s)
    BY <2>5 DEF BoundsInv, BodyComplete, Disconnect, Resume, Measure, Record, StoreFails, Respond
  <2> QED
    BY <2>1, <2>2, <2>3, <2>4, <2>5 DEF Next
<1>3. IInv /\ BoundsInv => TypeOK
  BY DEF IInv, LoopInv, CountersInv, JobInv, RowsInv, BoundsInv, TypeOK
<1> QED
  BY <1>1, <1>2, <1>3, Invariance, PTL DEF Spec

------------------------------------------------------------------------------
(* The table implements the independent profiles.                          *)

Mapped == [i \in RequestIdentities |-> Bucket(i)]

\* A row comes under the identity of its own request.
LEMMA IdentityIsRequests ==
  ASSUME IInv, NEW s \in Slots, pc[s] = "measured"
  PROVE  <<job[s].fp.client_id, job[s].req.ip>> \in RequestIdentities
<1>1. PICK host : job[s].fp = BuildFingerprint(job[s].req, host)
  BY DEF IInv, PrintInv, Running
<1>2. job[s].req \in Requests
  BY DEF IInv, JobInv
<1>3. job[s].fp.client_id = ClientOf(job[s].req)
  BY <1>1 DEF ClientOf, BuildFingerprint
<1> QED
  BY <1>2, <1>3 DEF RequestIdentities

LEMMA ProfilesStart == Init => Buckets!ProfilesInit
<1> SUFFICES ASSUME Init
             PROVE  Mapped = [i \in RequestIdentities |-> {}]
  BY DEF Buckets!ProfilesInit, Mapped
<1>1. \A i \in RequestIdentities : Bucket(i) = {}
  BY DEF Init, Bucket
<1> QED
  BY <1>1 DEF Mapped

\* Record is an observation of its own identity.
LEMMA RecordObserves ==
  ASSUME IInv, NEW s \in Slots, Record(s)
  PROVE  Buckets!ProfilesNext
<1> DEFINE new == Row(job[s])
           i   == <<job[s].fp.client_id, job[s].req.ip>>
<1>1. /\ new.id = lastId + 1
      /\ new.client_id = job[s].fp.client_id /\ new.src_ip_hash = job[s].req.ip
      /\ new.since = job[s].since /\ new.request = job[s].req /\ new.fingerprint = job[s].fp
      /\ new.signals = Scores(job[s].req, job[s].fp, job[s].vel)
      /\ new.verdict = Classify(job[s].req, job[s].fp, job[s].vel)
  BY DEF Row
<1>2. events' = events \union {new} /\ pc[s] = "measured"
  BY DEF Record
<1>3. i \in RequestIdentities
  BY <1>2, IdentityIsRequests
<1>4. job[s].vel = VelocityFor(events, job[s].req.ip, job[s].since, job[s].fp.client_id)
  BY <1>2 DEF IInv, MeasureInv
<1>5. job[s].fp.client_id # NoClient
  BY <1>2, PrintFacts DEF IInv, PrintInv, Running
<1> PICK e : e = new
  OBVIOUS
<1> PICK own : own = i
  OBVIOUS
<1> HIDE DEF new
<1>6. \A q \in events : q.id < e.id
  BY <1>1 DEF IInv, RowsInv, CountersInv
<1>7. Matching(events, job[s].req.ip, job[s].since, job[s].fp.client_id)
        = {q \in Bucket(own) : q.ts >= job[s].since}
  BY <1>5 DEF Matching, Bucket
<1>8. JudgedBy(Bucket(own), e)
  BY <1>1, <1>4, <1>7 DEF JudgedBy, VelocityFor
<1>9. /\ Bucket(own)' = Bucket(own) \union {e}
      /\ \A j \in RequestIdentities \ {own} : Bucket(j)' = Bucket(j)
  BY <1>1, <1>2 DEF Bucket
<1>10. e \notin Bucket(own)
  BY <1>6, <1>1 DEF Bucket, IInv, CountersInv
<1>11. Mapped' = [Mapped EXCEPT ![own] = @ \union {e}]
  BY <1>3, <1>9 DEF Mapped
<1>12. /\ e \in Mapped'[own] \ Mapped[own] /\ JudgedBy(Mapped[own], e)
       /\ \A j \in RequestIdentities : \A q \in Mapped[j] : q.id < e.id
  BY <1>3, <1>6, <1>8, <1>9, <1>10 DEF Mapped, Bucket
<1>13. Buckets!Observe(own)
  BY <1>11, <1>12 DEF Buckets!Observe, Mapped
<1> QED
  BY <1>3, <1>13 DEF Buckets!ProfilesNext

LEMMA PowerLossForgets ==
  ASSUME IInv, PowerLoss
  PROVE  Buckets!ProfilesNext
<1>1. PICK k \in synced .. lastId : events' = {r \in events : r.id <= k}
  BY DEF PowerLoss
<1>2. ASSUME NEW i \in RequestIdentities
      PROVE  Bucket(i)' = {r \in Bucket(i) : r.id <= k}
  BY <1>1 DEF Bucket
<1>3. Mapped' = [i \in RequestIdentities |-> Mapped'[i]]
  BY DEF Mapped
<1>4. \A i \in RequestIdentities : Mapped'[i] \subseteq Mapped[i]
  BY <1>2 DEF Mapped
<1>5. ASSUME NEW i \in RequestIdentities, NEW j \in RequestIdentities,
             NEW kept \in Mapped'[i], NEW gone \in Mapped[j] \ Mapped'[j]
      PROVE  kept.id < gone.id
  <2>1. kept \in events /\ kept.id <= k /\ gone \in events /\ ~(gone.id <= k)
    BY <1>2 DEF Mapped, Bucket
  <2>2. kept.id \in Int /\ gone.id \in Int /\ k \in Int
    BY <2>1 DEF IInv, RowsInv, CountersInv
  <2> QED
    BY <2>1, <2>2
<1>6. Buckets!Forget
  BY <1>3, <1>4, <1>5 DEF Buckets!Forget, Mapped
<1> QED
  BY <1>6 DEF Buckets!ProfilesNext

\* The velocity a request is judged by is its own client's, and no one else's:
\* the shared table, the event loop, crashes and power losses implement a
\* separate, private history per client and address.
THEOREM TableImplementsProfiles == Spec => IndependentProfiles
<1>1. IInv /\ [Next]_vars => [Buckets!ProfilesNext]_Mapped
  <2> SUFFICES ASSUME IInv, [Next]_vars
               PROVE  Buckets!ProfilesNext \/ UNCHANGED Mapped
    OBVIOUS
  <2>1. CASE UNCHANGED events
    BY <2>1 DEF Mapped, Bucket
  <2>2. CASE \E s \in Slots : Record(s)
    BY <2>2, RecordObserves
  <2>3. CASE PowerLoss
    BY <2>3, PowerLossForgets
  <2> QED
    BY <2>1, <2>2, <2>3 DEF Next, Arrive, BodyComplete, Disconnect, Resume, Measure, StoreFails,
       Respond, Tick, Checkpoint, Crash, Restart, vars
<1> QED
  BY <1>1, ProfilesStart, Invariance, PTL DEF Spec, IndependentProfiles, Buckets!ProfilesSpec, Mapped
==============================================================================
