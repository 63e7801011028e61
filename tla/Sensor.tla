------------------------------- MODULE Sensor -------------------------------
(***************************************************************************)
(* The capture service (honeypot/app/main.py) over the events table.       *)
(*                                                                         *)
(* uvicorn runs one event loop.  A capture coroutine gives it up in one    *)
(* place only, while it awaits the body; from there to its response it     *)
(* calls blocking functions, so other coroutines do not run.  Requests     *)
(* are therefore handled in the order their bodies are complete, not the   *)
(* order they arrive in, and the steps of a handler are not interleaved    *)
(* with those of another one - which is what makes the velocity it reads   *)
(* the velocity at the moment it records.  Nothing else does: the store's  *)
(* lock is released between velocity_for and record.                       *)
(*                                                                         *)
(* The clock counts the seconds of iso(utc_now()) and may move between any *)
(* two steps; it does not go back.  A crash loses the requests in flight;  *)
(* a power loss also loses a suffix of the rows not yet checkpointed       *)
(* (journal_mode=WAL, synchronous=NORMAL).                                 *)
(***************************************************************************)
EXTENDS EventStore

CONSTANTS Slots,           \* connections the server handles at a time
          Nobody,          \* the event loop is idle
          Requests,        \* requests clients send, each with the field ip
          RDNS,            \* ip -> the answers forward_confirmed_rdns may give
          VelocityWindow,  \* velocity_window_seconds
          MaxTime,         \* bound: the clock
          MaxArrivals      \* bound: requests accepted

ASSUME SensorAssumption ==
         /\ Nobody \notin Slots
         /\ VelocityWindow \in Nat
         /\ MaxTime \in Nat
         /\ MaxArrivals \in Nat
         /\ \A q \in Requests : q.exploits \in Nat

VARIABLES now,       \* the clock
          up,        \* the process runs
          loop,      \* the slot whose coroutine is running, or Nobody
          pc,        \* slot -> where its coroutine is
          job,       \* slot -> the request it handles and the locals assigned so far
          events,    \* the table
          lastId,    \* sqlite_sequence
          synced,    \* rows up to this id survive a power loss
          arrivals   \* requests accepted so far

vars == <<now, up, loop, pc, job, events, lastId, synced, arrivals>>

Running == {"identified", "measured", "recorded", "failed"}
Labels  == {"free", "reading", "ready"} \union Running

NoJob == [rid |-> 0]

\* Every identity a request may come under.
ClientOf(req) == BuildFingerprint(req, None).client_id
RequestIdentities == {<<ClientOf(req), req.ip>> : req \in Requests}

Init ==
  /\ now = 0 /\ up = TRUE /\ loop = Nobody /\ arrivals = 0
  /\ pc = [s \in Slots |-> "free"]
  /\ job = [s \in Slots |-> NoJob]
  /\ events = {} /\ lastId = 0 /\ synced = 0

------------------------------------------------------------------------------
\* A request line and headers arrive; capture starts and awaits the body.
Arrive(s) ==
  /\ up /\ pc[s] = "free" /\ arrivals < MaxArrivals
  /\ arrivals' = arrivals + 1
  /\ \E req \in Requests :
       job' = [job EXCEPT ![s] = [rid |-> arrivals + 1, req |-> req, arrived |-> now]]
  /\ pc' = [pc EXCEPT ![s] = "reading"]
  /\ UNCHANGED <<now, up, loop, events, lastId, synced>>

\* The last byte of the body is there: the coroutine may be scheduled.
BodyComplete(s) ==
  /\ pc[s] = "reading"
  /\ pc' = [pc EXCEPT ![s] = "ready"]
  /\ UNCHANGED <<now, up, loop, job, events, lastId, synced, arrivals>>

\* The client goes away first: request.body() raises, nothing is recorded.
Disconnect(s) ==
  /\ pc[s] = "reading"
  /\ pc' = [pc EXCEPT ![s] = "free"]
  /\ job' = [job EXCEPT ![s] = NoJob]
  /\ UNCHANGED <<now, up, loop, events, lastId, synced, arrivals>>

Identified(j, host) ==
  [rid |-> j.rid, req |-> j.req, arrived |-> j.arrived, fp |-> BuildFingerprint(j.req, host)]

\* Mutant: capture runs in a thread pool, so handlers overlap.
ResumeInThread(s) ==
  /\ pc[s] = "ready"
  /\ loop' = s
  /\ \E host \in RDNS[job[s].req.ip] : job' = [job EXCEPT ![s] = Identified(@, host)]
  /\ pc' = [pc EXCEPT ![s] = "identified"]
  /\ UNCHANGED <<now, up, events, lastId, synced, arrivals>>

\* The event loop resumes the coroutine, which identifies its client.
Resume(s) ==
  /\ pc[s] = "ready" /\ loop = Nobody
  /\ loop' = s
  /\ \E host \in RDNS[job[s].req.ip] : job' = [job EXCEPT ![s] = Identified(@, host)]
  /\ pc' = [pc EXCEPT ![s] = "identified"]
  /\ UNCHANGED <<now, up, events, lastId, synced, arrivals>>

\* store.velocity_for, over the window that ends now.
Measured(j) ==
  LET since == now - VelocityWindow
  IN [rid |-> j.rid, req |-> j.req, arrived |-> j.arrived, fp |-> j.fp, since |-> since,
      vel |-> VelocityFor(events, j.req.ip, since, j.fp.client_id)]

Measure(s) ==
  /\ pc[s] = "identified"
  /\ job' = [job EXCEPT ![s] = Measured(@)]
  /\ pc' = [pc EXCEPT ![s] = "measured"]
  /\ UNCHANGED <<now, up, loop, events, lastId, synced, arrivals>>

\* Mutant: the row carries the time its request arrived.
RowOfArrival(j) ==
  [ id            |-> lastId + 1,
    ts            |-> j.arrived,
    src_ip_hash   |-> j.req.ip,
    client_id     |-> j.fp.client_id,
    username_hash |-> j.req.user,
    ua_raw        |-> j.req.ua,
    path          |-> j.req.path,
    status        |-> DecoyStatus(j.req),
    verdict       |-> Classify(j.req, j.fp, j.vel),
    signals       |-> Scores(j.req, j.fp, j.vel),
    request       |-> j.req,
    fingerprint   |-> j.fp,
    rid           |-> j.rid,
    since         |-> j.since ]

\* The event of the job j, recorded under the next id at the present time.
Row(j) ==
  [ id            |-> lastId + 1,
    ts            |-> now,
    src_ip_hash   |-> j.req.ip,
    client_id     |-> j.fp.client_id,
    username_hash |-> j.req.user,
    ua_raw        |-> j.req.ua,
    path          |-> j.req.path,
    status        |-> DecoyStatus(j.req),
    verdict       |-> Classify(j.req, j.fp, j.vel),
    signals       |-> Scores(j.req, j.fp, j.vel),
    request       |-> j.req,
    fingerprint   |-> j.fp,
    rid           |-> j.rid,
    since         |-> j.since ]

\* Mutant: ids are not taken from the sequence.
RecordReusingIds(s) ==
  /\ pc[s] = "measured"
  /\ events' = events \union {Row(job[s])}
  /\ pc' = [pc EXCEPT ![s] = "recorded"]
  /\ UNCHANGED <<now, up, loop, job, lastId, synced, arrivals>>

\* Mutant: INSERT OR REPLACE, one row per client.
RecordReplacing(s) ==
  /\ pc[s] = "measured"
  /\ events' = {r \in events : r.client_id # job[s].fp.client_id} \union {Row(job[s])}
  /\ lastId' = lastId + 1
  /\ pc' = [pc EXCEPT ![s] = "recorded"]
  /\ UNCHANGED <<now, up, loop, job, synced, arrivals>>

\* classify, then store.record: one INSERT, committed at once.
Record(s) ==
  /\ pc[s] = "measured"
  /\ events' = events \union {Row(job[s])}
  /\ lastId' = lastId + 1
  /\ pc' = [pc EXCEPT ![s] = "recorded"]
  /\ UNCHANGED <<now, up, loop, job, synced, arrivals>>

\* Mutant: the error is raised when the row is committed already.
StoreFailsLate(s) ==
  /\ pc[s] = "measured"
  /\ events' = events \union {Row(job[s])}
  /\ lastId' = lastId + 1
  /\ pc' = [pc EXCEPT ![s] = "failed"]
  /\ UNCHANGED <<now, up, loop, job, synced, arrivals>>

\* The SELECT of velocity_for or the INSERT of record raises (disk full, database
\* locked); the client will get a 500 and nothing is stored.
StoreFails(s) ==
  /\ pc[s] \in {"identified", "measured"}
  /\ pc' = [pc EXCEPT ![s] = "failed"]
  /\ UNCHANGED <<now, up, loop, job, events, lastId, synced, arrivals>>

\* Mutant: a coroutine the store failed never ends.
RespondWithDecoy(s) ==
  /\ pc[s] = "recorded"
  /\ pc' = [pc EXCEPT ![s] = "free"]
  /\ job' = [job EXCEPT ![s] = NoJob]
  /\ loop' = Nobody
  /\ UNCHANGED <<now, up, events, lastId, synced, arrivals>>

\* The coroutine ends: the decoy or the error is sent, the loop is free.
Respond(s) ==
  /\ pc[s] \in {"recorded", "failed"}
  /\ pc' = [pc EXCEPT ![s] = "free"]
  /\ job' = [job EXCEPT ![s] = NoJob]
  /\ loop' = Nobody
  /\ UNCHANGED <<now, up, events, lastId, synced, arrivals>>

------------------------------------------------------------------------------
Tick ==
  /\ now < MaxTime
  /\ now' = now + 1
  /\ UNCHANGED <<up, loop, pc, job, events, lastId, synced, arrivals>>

\* A WAL checkpoint reaches the disk.
Checkpoint ==
  /\ up /\ synced < lastId
  /\ synced' = lastId
  /\ UNCHANGED <<now, up, loop, pc, job, events, lastId, arrivals>>

Stop ==
  /\ up /\ up' = FALSE
  /\ loop' = Nobody
  /\ pc' = [s \in Slots |-> "free"]
  /\ job' = [s \in Slots |-> NoJob]
  /\ UNCHANGED <<now, arrivals, synced>>

Crash == Stop /\ UNCHANGED <<events, lastId>>

PowerLoss ==
  /\ Stop
  /\ \E k \in synced .. lastId :
       /\ events' = {r \in events : r.id <= k}
       /\ lastId' = k

\* restart: unless-stopped.
Restart ==
  /\ ~up /\ up' = TRUE
  /\ UNCHANGED <<now, loop, pc, job, events, lastId, synced, arrivals>>

Handle(s) == Measure(s) \/ Record(s) \/ StoreFails(s) \/ Respond(s)

Next ==
  \/ \E s \in Slots : \/ Arrive(s) \/ BodyComplete(s) \/ Disconnect(s) \/ Resume(s)
                      \/ Measure(s) \/ Record(s) \/ StoreFails(s) \/ Respond(s)
  \/ Tick \/ Checkpoint \/ Crash \/ PowerLoss \/ Restart

Spec == Init /\ [][Next]_vars

\* A running coroutine goes on.  asyncio's ready queue is first in, first out,
\* so a coroutine that is ready again and again while the loop is idle runs.
Fairness == \A s \in Slots : WF_vars(Handle(s)) /\ SF_vars(Resume(s))

FairSpec == Spec /\ Fairness

------------------------------------------------------------------------------
TypeOK ==
  /\ now \in 0 .. MaxTime /\ up \in BOOLEAN /\ loop \in Slots \union {Nobody}
  /\ pc \in [Slots -> Labels]
  /\ arrivals \in 0 .. MaxArrivals /\ lastId \in Nat /\ synced \in 0 .. lastId
  /\ \A s \in Slots : pc[s] # "free" => job[s].rid \in 1 .. arrivals /\ job[s].req \in Requests
  /\ \A r \in events : r.id \in 1 .. lastId /\ r.ts <= now /\ r.verdict \in Verdicts

\* Every stored verdict can be rebuilt from the table: the row's signals are
\* those of its own request given the rows of the same client behind the same
\* address that came before it and were in its window.  Nothing was recorded
\* between velocity_for and record, no row was counted twice, missed or borrowed
\* from a neighbour, and what a power loss took was counted by nobody.
Before(r) == {q \in events : q.id < r.id}

VerdictRebuildable ==
  \A r \in events :
    LET own == VelocityFor(Before(r), r.src_ip_hash, r.since, r.client_id)
    IN /\ r.signals = Scores(r.request, r.fingerprint, own)
       /\ r.verdict = Classify(r.request, r.fingerprint, own)

\* A request is stored at most once, and exactly once by the time its decoy is
\* sent; one that is answered with an error or not yet recorded is not stored.
StoredExactlyWhenAnswered ==
  /\ \A q, r \in events : q.rid = r.rid => q = r
  /\ \A s \in Slots : pc[s] # "free" =>
       (pc[s] = "recorded" <=> \E r \in events : r.rid = job[s].rid)

\* The dashboard reads the table by id (recent) and by time (timeline): the two
\* orders agree, though requests are recorded in the order their bodies complete
\* and not the order they arrive in.
IdOrderIsTimeOrder ==
  \A q, r \in events : q.id < r.id => q.ts <= r.ts

\* A checkpointed row stays as it is, through crashes and power losses.
DurableRowsStay ==
  [][ {r \in events : r.id <= synced} \subseteq events' ]_vars

\* A request whose body is complete is answered unless the process stops: no
\* coroutine starves while others are served, and a failing store gives the event
\* loop back.
EveryReadyRequestEnds == \A s \in Slots : pc[s] = "ready" ~> pc[s] = "free"

\* Every client behind an address has a bucket of its own (module Profiles):
\* the table read by identity implements the independent profiles.  Velocity is
\* not diluted by the neighbours of a client, and never charged to them.
Bucket(i) == {r \in events : <<r.client_id, r.src_ip_hash>> = i}

Buckets == INSTANCE Profiles WITH
             Identities <- RequestIdentities,
             JudgedBy   <- JudgedBy,
             profile    <- [i \in RequestIdentities |-> Bucket(i)]

IndependentProfiles == Buckets!ProfilesSpec
==============================================================================
