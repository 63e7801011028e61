# edge-deception-lab in TLA+

A specification of the web honeypot in this repository: TLA+ modules translated
from its Python, Go and page sources, TLC configurations that check them on small instances,
and TLAPS proofs of the properties that matter most. Paths below are relative to
the repository root.

    tlc -config MCSensor.cfg MCSensor        check one instance
    tlapm SensorProofs.tla                   check one module of proofs

## 1. The system

nginx (`edge/`) takes plain HTTP, `tlsfront/` takes TLS and tells what it read off
the ClientHello in `X-Edge-*` headers; both forward to the capture service (`honeypot/app/main.py`), one uvicorn
process with one event loop. Each request, of any path, is fingerprinted,
classified, stored in SQLite and answered with a decoy. A dashboard polls JSON
endpoints that query the same table.

| Component | State | Operations | Hard behaviour | What makes it correct |
|---|---|---|---|---|
| Capture service, `main.py` | coroutines in flight, the running one | accept, await body, identify, measure, classify, record, respond | one await in the handler; the store's lock is *not* held from measuring to recording; errors and crashes between any two steps | a verdict is that of the client's own history; a request is stored once or answered with an error |
| Event store, `storage.py` | table `events`, `sqlite_sequence`, WAL | `record`, `velocity_for`, queries | power loss under `synchronous=NORMAL`; a window that rows leave one at a time | rows of one identity are never counted for another; id order is time order; checkpointed rows stay |
| Opening the store, `storage.py` | schema of a file | SCHEMA script, `_migrate` | each statement commits by itself; starts are cut off and retried | what is served has the whole schema; every file is served in the end |
| Classifier, `classifier.py` | none | `classify` | thresholds, two axes in one table of scores, evidence that moves between verdicts and falls away as rows expire | identity over intent over automation; forged headers are worth nothing; no history makes a verdict milder than that of a new client; confidence honest about its margin |
| Fingerprint, `fingerprint.py` | none | `build_fingerprint`, crawler verification | the identity must not depend on the address | total, and read by the classifier only |
| rDNS, `enrich.py` | `lru_cache` of answers, failures too | `forward_confirmed_rdns` | DNS changes and fails between its two queries; stale answers; the second query knows IPv4 only | nobody is verified that the crawler's zone never listed |
| Decoys, `decoys.py` | none | `resolve` | the status feeds the classifier | |
| Redaction, `redact.py`, `main.py` | none | `redact_body`, `digest`, `_extract_username` | bodies cut at a limit, three formats with their own quoting, two parsers of one user name | a secret the patterns can see is never kept in clear (finding 6 lists the rest), nothing else is taken |
| Dashboard, `static/dashboard.html` | window, charts | `load`, timer, buttons | overlapping loads, late answers | what is drawn belongs to the chosen window |
| Analytics, `storage.py`, `main.py` | none | `summary`, `timeline`, `top_*`, `recent` | seven windows in one answer, bucket widths that fall through | the numbers of one answer agree |
| tlsfront listener and proxy, `tlsfront/main.go` | backlog, the connection being read, fingerprints | `Accept`, `readRecord`, `Director` | one silent connection holds up the next; fingerprints cross goroutines; clients write headers too | every connection waits for a bounded time, and is described by its own hello |
| ClientHello and JA4, `tlsfront/ja4.go` | none | `ParseClientHello`, `JA4` | cut and lying records, GREASE, shuffled lists | a whole hello is read as meant, one that is cut short not at all; of one whose extensions overrun their block the leading part is read (finding 5); a JA4 is that of the stack |
| Edge, deployment, tools | | | third-party, packaging, development only | |

Interactions: the capture handler calls `enrich` (blocking), `fingerprint`,
`store.velocity_for`, `classify` and `store.record` synchronously, in that order,
after its only `await`. `classify` reads the decoy's status. Dashboard endpoints
are coroutines of the same loop without an `await`. `tlsfront` and the edge reach
the service over HTTP only.

`tlsfront`'s headers become the `ja4` of a request, which is half of a client's
identity in `Sensor`.

The hazards, each at its line and with the properties that cover it, are listed in
`PROJECT.json`.

## 2. Modules

    Fingerprint <- Classifier <- EventStore <- Sensor  <- MCSensor
                       |              |           |--- INSTANCE Profiles
                       |              `------ Session <- MCSession
                       `--- Enrich <- MCEnrich
    StoreOpen <- MCStoreOpen
    ClientHello <- ClientOffer <- MCClientOffer
         `-------- TLSFront <- MCTLSFront
    Redact <- MCRedact
    Analytics <- Dashboard <- MCDashboard

    SensorProofs, SessionProofs, EnrichProofs, StoreOpenProofs, TLSFrontProofs,
    ClientOfferProofs, DashboardProofs, RedactProofs: the theorems of section 5, each
    module extends the one it is named after; what is proved about the classifier
    stands at the beginning of SessionProofs, and what the first and the third need
    of it is repeated there

**Fingerprint**, **Classifier**: pure operators. A User-Agent is the set of the
needles found in it, a path stands for the prefix class it is in, `exploits`
counts the exploit patterns found, a digest is the digested value (taken to be
injective). Weights are counted in halves so that scores are integers; the
thresholds are constants with the value of the code beside them, so that small
instances can cross them. `Scores` is the sum of the signal families, `Decide` and
`Confidence` are functions on score tables; confidence is an exact fraction.

**EventStore**: the table as a set of rows and the SELECT of `velocity_for`
(`Matching` is its WHERE, `Aggregate` its columns).

**Sensor**: the capture service. `pc[s]` is where the coroutine of connection `s`
is, `job[s]` holds its locals, `loop` is the running coroutine.

| Action | Code |
|---|---|
| `Arrive` | a request reaches `capture`, which awaits `request.body()` |
| `BodyComplete`, `Disconnect` | the body is complete, or the client is gone and `body()` raises |
| `Resume` | the event loop resumes the coroutine: rDNS and `build_fingerprint` |
| `Measure` | `store.velocity_for` |
| `Record` | `classify` and `store.record`: INSERT and commit |
| `StoreFails` | SELECT or INSERT raises: a 500, nothing stored |
| `Respond` | the coroutine ends, the loop is free |
| `Tick`, `Checkpoint` | the clock; a WAL checkpoint reaches the disk |
| `Crash`, `PowerLoss`, `Restart` | the process dies; un-synced rows are lost with it; `restart: unless-stopped` |

The clock counts seconds and does not go back. Nothing in the module makes
`Measure` and `Record` one step: that no other handler runs between them is a
consequence of the event loop (`Resume` needs an idle loop), and
`VerdictRebuildable` is what depends on it.

**Profiles**: the abstract specification. One private history per identity, each
request appended to its own and judged by it alone. No table, no loop, no clock.
`Sensor` implements it under the mapping of the table to its rows by identity.

**Session**: one client stack sends any sequence of requests; every request it
could send next is judged in every state, and compared with what another stack
would get after the same history. `window` is the sliding window of `velocity_for`:
the rows of the client that are in it, in the order of their times. `Request` appends
a row; `Expire` is time passing, which takes any number of the oldest rows, so a
client that slows down loses its past row by row. A clock is not needed: any
sequence of gaps between requests is some sequence of these two actions.

**Enrich**: the two DNS queries of a lookup as separate steps, with the zone
changing and failing between them, and the LRU cache that keeps every answer.
A zone lists addresses of both families; `ForwardQuery` sees those in `IPv4Addresses`,
as `gethostbyname_ex` does.
Three variables are history: which cached answers a failure gave, which pairs the
forward zone ever listed, and who was asked about since an address last was.

**StoreOpen**: every statement of `__init__` and `_migrate` as a committed step,
with crashes anywhere and restarts on the same file, on files of every release.

**ClientHello**: the parser of `ja4.go` on sequences of bytes, position by
position, and the JA4 it prints, as the lists that are hashed. `Without` is the loop
that appends what is not GREASE, as a flattened sequence of kept values. **ClientOffer** is
the client: it composes an offer, adds to it and shuffles it, and encodes it as TLS
does. `Meaning` is what a JA4 says of an *offer*, defined on sets, without bytes,
cursors or sorting; the properties compare the two.

**TLSFront**: the listener with its backlog. `state[c]` is where connection `c` is.

| Action | Code |
|---|---|
| `Connect`, `Send`, `Close` | a client connects, sends a header, the rest, or something broken; an open connection ends |
| `Accept` | `Listener.Accept` returns a connection and `readRecord` sets its deadline |
| `ReadHeader`, `ReadBody` | the two `io.ReadFull`; the second parses, and returns the connection with its fingerprint |
| `Drop` | a read fails, on the deadline or on what was sent; `Accept` calls itself |
| `Tick` | time passes, never while the listener could go on |
| `Die` | `Listener.Accept` fails, `main` ends |

`Forwarded` is what the sensor gets of a request: the `Director`, then the removal
of the headers that `Connection` lists, which `ReverseProxy` does *after* it.
`owed` is history: the time a queued connection may be kept waiting yet.

**Redact**: one submission, as a sequence of tokens. Its fields and the limit grow
step by step, so every cut of every body is a state. The three redactors work on
tokens as the code works on characters: the JSON pattern tries each quote as the
start of a key, the form is parsed and written again. `Sub` is `re.sub`: it is told
where matches begin, where they end and what replaces them, and goes on behind each;
`IsSecretPair` and the set in `RedactInline` are what the two patterns match. `Unseen`
lists the places where the code has no way to see a secret.

**Analytics**: the seven queries as operators on sets of rows. `Answer` evaluates
each at its own idea of now, as `api_summary` does. **Dashboard**: the page.
`loads` are the calls of `load()` under way, each with its window and the state of
its two answers; `Serve` answers one fetch, `Draw` paints under the window that is
selected by *then*, as the code does, `FetchFails` rejects `Promise.all`. A member of
`Kinds` is a row as a client makes it; `Record` fills in its id and time.

The modules keep the source's names. A definition marked `Mutant:` is a plausible
slip in the definition below it. Each property of a passing run has one, and TLC
finds the property violated when it takes that definition's place; no
specification uses it otherwise.

## 3. Checked with TLC

| Run | Instance | What it shows |
|---|---|---|
| `session` | nine client stacks, five targets, two user names and two user agents, a sliding window of up to four rows | `ForgedHeadersBuyNothing`, `AutomationNeverOutvotesIntent`, `IdentityOutranksBehaviour`, `ConfidenceIsHonest`, `HistoryNeverLaunders`, `RehabilitatedOnlyBy` for each next request after each history |
| `session_sweep` | one browser, the thresholds of the code, windows of 24 requests | violated, finding 2 |
| `sensor` | two connections, three requests by three clients behind two addresses, in any mix, rows of the same second in the window and older ones out, one tick of the clock, fair scheduling | `VerdictRebuildable`, `StoredExactlyWhenAnswered`, `IdOrderIsTimeOrder`, `DurableRowsStay`, the refinement `IndependentProfiles`, and `EveryReadyRequestEnds` |
| `enrich` | four IPv4 addresses and an IPv6 one, two cache entries, six states of the DNS, three changes | `VerifiedOnlyIfVouchedFor`, `RefusedOnlyAfterFailure`, `KeptWhileInUse` |
| `enrich_real` | the same without the IPv6 address | violated, finding 3 |
| `store_open` | no file and files of five releases, four migrations, three indexes, three failures | `ServesCompleteSchema`, `EventuallyServes` |
| `store_open_old` | the same | violated, finding 1 |
| `clienthello` | every offer of up to two of four ciphers and three of eight extensions, in every order, two versions, with and without a session id | `ReadAsMeant`, `CutHelloFailsClosed`, `OverrunEndsTheList`, `JA4FollowsTheStack` |
| `tlsfront` | three connections, a timeout of two ticks, three records, headers that imitate the trusted ones or remove them | `WaitBound`, `OwnFingerprint`, `EveryConnectionIsReached` |
| `redact` | up to three fields, four names, JSON, form, other text and query, cut anywhere | `SecretsAreHashed`, `OnlySecretsAreHashed`, `UserIsCountedAsSent` |
| `redact_clear` | the same | violated, finding 6 |
| `dashboard` | three rows over eight minutes with hours of two and days of four, three windows; two overlapping loads, two clicks, one failed fetch | `AnswersAddUp`, `TimelineIsAChart`, `SettlesOnTheWindow` |

Some of these say less than one might hope, and the difference is worth knowing:

* `WaitBound`. The comment at `tlsfront/main.go:50-53` says that the timeout bounds
  how long a silent connection can sit. Behind *n* others it sits for *n* + 1
  timeouts, because `Accept` reads each record before it takes the next connection.
  A plain-HTTP client on this port is a silent one: the bytes of `GET /` declare a
  record of 8239 bytes that never comes.
* `OwnFingerprint`. No client can forge a trusted header, but one can remove its own
  by listing it in `Connection` (finding 7).
* `RefusedOnlyAfterFailure`. It is about crawlers that come over IPv4. One that comes
  over IPv6 is always refused (finding 4).
* `OverrunEndsTheList`. It describes what the parser does with a length that lies; the
  comments promise an error (finding 5).
* `CutHelloFailsClosed`. Only the first record is read: a hello that spans two has
  no JA4, or, when it is cut right behind the compression methods, one without
  extensions.
* `JA4FollowsTheStack`. "Any other addition" includes the extension with which a
  browser resumes a session: its JA4 and `client_id` differ from those of its first
  visit, and its velocity starts again.
* `SecretsAreHashed`. It is about the places where the code can see a secret, those
  outside `Unseen`. It says nothing of the others, where secrets may be stored in
  clear although `README.md:198` promises hashes for all; `NoSecretInClear` is that
  promise (finding 6).
* `RehabilitatedOnlyBy`. The exceptions for `Expire` are many because the window
  slides: a browser without client hints that asked for twenty missing paths is
  `vuln_scanner`, and `likely_human` again when the oldest of the twenty is a
  window old, with nineteen still in it. What no exception covers is in the other
  invariant, `HistoryNeverLaunders`.
* `UserIsCountedAsSent`. Of a repeated user name a form gives the first value, JSON
  the last.
* `SettlesOnTheWindow`. It says *in the end*: a late answer is drawn under a window
  it was not asked for, with the subtitle of the new one, until the timer or a
  faster answer paints over it.

### Bounds

* `MaxArrivals`, `MaxTime`, `MaxSent`, `MaxChanges`, `MaxFailures`,
  `MaxCiphers`, `MaxExtensions`, `MaxFields`, `MaxRows`, `MaxRowsOnPage`, `MaxClicks`
  bound counters that are unbounded in the code; each stands in one guard. `Loads` bounds the calls
  of `load()` under way at once.
* `sensor`: three requests are the least for which one handler is delayed by its
  body while another one of the same client and one of a neighbour are recorded.
  `VelocityWindow` is 0 and the clock ticks once: a row of the same second, at the
  edge of the window, counts, and one of the second before does not. Windows that
  rows leave one after another are the matter of `session`. The thresholds are lowered
  so that two earlier rows change a verdict; with the thresholds of the code three
  requests would never differ. No symmetry is used, because the run checks liveness.
* `session`: the thresholds are lowered so that each is crossed within four rows, and
  crossed back as any number of them expire; the order of the thresholds
  (`SweepPaths` below `EnumerationPaths`, `FewUsernames` below `ManyUsernames`) is
  that of the code. `MaxSent` bounds the rows in the window, not the length of a
  session, which goes on as rows expire. User names and User-Agents are interchangeable,
  hence the symmetry set. The stacks cover browsers with and without TLS data, the same
  headers over a scripted handshake, scripts, a crawler and its impersonator.
* `enrich`: two entries for five addresses make evictions and re-lookups happen;
  three changes are a failure, a recovery and a change of zone.
* `store_open`: three failures cut a start off, then the next two in other places.
  The four indexes of the first release all read columns of that release and are
  one in the instance.
* `clienthello`: two ciphers and three extensions are the least in which sorting,
  shuffling and a GREASE value between genuine ones differ from keeping the order.
  The random of a hello, which the parser skips, is two bytes instead of 32. Among
  the values are ones that look like GREASE in one byte only, and a protocol name
  that is not alphanumeric.
* `tlsfront`: with three connections one is read and two wait, so the order of the
  backlog matters; two ticks distinguish a deadline for the record from one for each
  of its two reads.
* `redact`: with three fields a secret stands between two others, or a name is
  repeated with something between. The limit takes every value.
* `dashboard`: three rows spread over one, two or three buckets of each width. Two
  loads overlap in every order of their four answers. A failed fetch and a click may
  fall anywhere. Rows beyond the first, and minutes, come only before the page opens:
  what an answer contains and when it is drawn are separate questions here, since an
  answer under way is only known to have every row or not.

`CHECK_DEADLOCK FALSE` stands in the configurations of `Sensor`, which ends when its
bounded arrivals and clock are used up, of `StoreOpen`, where a
start that fails with the failures used up ends the behaviour, of `Redact`, where a
body of `MaxFields` fields that is received whole ends it, and of `Dashboard`, which
ends if the clock runs out and nobody opened a page.

### Fairness

`WF(Handle(s))`: a coroutine that runs goes on to its end; there is no `await`
after the body, and the models have no query that blocks forever. `SF(Resume(s))`:
the loop is idle again and again, not all the time, so weak fairness says
nothing; asyncio's ready queue is first in, first out, which lets no ready
coroutine be passed over forever. Nothing is assumed of clients (`BodyComplete`
may never happen) or of restarts. `WF(Proceed)` in `StoreOpen`: a start that is
not killed executes its next statement. `WF(Listener)` and `WF(Tick)` in `TLSFront`:
the goroutine that accepts is scheduled when it can go on, and time passes when it
cannot; clients owe nothing. `WF(Timer)`, `WF(Serve(l))` and `WF(Draw(l))` in
`Dashboard`: the interval fires while the page is open, a fetch that is not rejected
is answered, and the browser runs the continuation. `Enrich`, `Session`,
`ClientOffer` and `Redact` are checked for safety only.

## 4. Findings

1. **A database of an earlier release is never opened** (`honeypot/app/storage.py:89`).
   SCHEMA creates indexes on `ja4` and `client_id` before `_migrate` adds these
   columns, so `CREATE INDEX` fails and the service never starts on such a file,
   although the comment at lines 58-59 says a lab "should not have to throw the
   data away to pick up a new field". `store_open_old` shows it.
   `EventuallyServes` is stated for new and current files for this reason.
2. **A sweep by a real browser is likely_human** (`honeypot/app/classifier.py:413`).
   Evidence of a human above the best intent wins, and only one point of it
   depends on velocity. `README.md:63` says likely_human means low velocity, and
   `tests/test_classifier.py:142` that a browser UA "shouldn't rescue an obvious
   directory sweep". `session_sweep` shows it with the thresholds of the code.
3. **A resolver timeout makes a genuine crawler an impersonator**
   (`honeypot/app/enrich.py:23`). Failures are cached like refusals, while
   `classifier.py:220-221` relies on "the real ones always pass rDNS".
   `enrich_real` shows it.
4. **A genuine crawler over IPv6 is an impersonator** (`honeypot/app/enrich.py:40`).
   `gethostbyname_ex` returns IPv4 addresses only, so the forward query never confirms
   an IPv6 address, which `is_private` and `gethostbyaddr` take and `tlsfront` listens
   for. The same comment says otherwise. In `enrich` the restriction of
   `RefusedOnlyAfterFailure` to IPv4 is what this costs; without it the property is
   refuted by the IPv6 address at its first lookup.
5. **A hello that lies about an extension's length gets a JA4**
   (`tlsfront/ja4.go:153-166`). The loop over the extensions breaks off and the parser
   returns what it has so far, while `ja4.go:84-87` says it "fails closed on short
   reads instead of trusting declared lengths" and `ja4_test.go:244-245` that
   "Truncation and garbage have to come back as errors". `OverrunEndsTheList` of
   `clienthello` describes what is read instead.
6. **Some secrets are stored in clear** (`honeypot/app/main.py:184`). The query is
   stored as it came; JSON values that are numbers or lists, or that `max_body_bytes`
   cuts before their closing quote, and pairs in other text whose name only contains
   a secret word or is followed by a colon, are not matched. `README.md:198` ("Tudo
   vira hash SHA-256 antes de chegar no banco"), `redact.py:3-4` ("Everything here is
   one-way"), `docs/ARCHITECTURE.md:164` ("Só digest salgado") and the header of
   `tests/test_redact.py` promise hashes only. `redact_clear` shows the query;
   `Unseen` lists the rest.
7. **A client can remove its own JA4** (`tlsfront/main.go:208`). `ReverseProxy` drops
   the headers that `Connection` lists after the `Director` has set the trusted ones.
   `docs/ARCHITECTURE.md:168` and `main.go:215-216` rely on the order, delete first,
   set then. In `tlsfront` the exception `h \in listed` of `OwnFingerprint` is this
   case, and the run refutes the property without it.

## 5. Proved with TLAPS

For all values of the constants that satisfy the named assumptions (the
thresholds are naturals in their order, decoys answer 200, 401 or 404, a scripted
TLS family is not that of a browser, an
hour is no longer than a day, TLS values and the bytes of names are naturals):

* **SensorProofs**: `Typing`, `VerdictsAreRebuildable`, `NothingLostOrDoubled`,
  `OrdersAgree`, `DurabilityHolds`, and `TableImplementsProfiles`, that `Sensor`
  implements `Profiles`. They hold for any number of connections, clients,
  addresses and requests, and any window.
* **SessionProofs**: `SessionTyping`, `ForgeryIsFutile`, `AutomationIsNoAlibi`,
  `IdentityIsProvenOrNothing`, `NoOtherRehabilitation` (an action property),
  `NothingLaundersAnAttack` and `ConfidenceIsEarned`, for any stacks, targets,
  thresholds in their order and windows of any length.
* **EnrichProofs**: `EnrichTyping`, `NobodyVouchesForThemselves`,
  `OnlyFailuresRefuseTheGenuine`, `RepeatedRequestsCostNothing`, for any addresses,
  any states of the DNS and any size of the cache (`OnlyFailuresRefuseTheGenuine`
  for those of the addresses that are IPv4). Assumed: a host that a PTR names
  has a (possibly empty) set of addresses in each state of the DNS, and the request
  claims to be one of the crawlers.
* **StoreOpenProofs**: `StoreTyping`, `WhatIsServedIsComplete`, for any indexes and
  migrations of the columns there are, any file whose table, if there is one, has at
  least the columns of the first release, and any number of cut-off starts.
* **TLSFrontProofs**: `ListenerTyping`, `NobodyWaitsLonger`, `FingerprintsAreOwn`,
  for any number of connections, any timeout, records, headers and `Connection`
  headers.
* **ClientOfferProofs**: `HellosAreReadAsSent`, `HellosAreReadAsMeant`,
  `CutHellosFailClosed`, `OverrunsEndTheList` and `JA4sFollowTheStack` (an action
  property), for offers of any length, extensions of any content, a random of any
  length, and any place of the cut or the overrun. `ReadAsSent` is no property of a
  run: `clienthello` checks `ReadAsMeant`, of which it is the half below the JA4.
  `JA4sFollowTheStack` assumes that a client offers at most 99 extensions. With more
  the counts of a JA4 end, and only the count tells an ALPN extension that names no
  protocol from none.
* **DashboardProofs**: `AnswersAgree`, `TimelinesAreCharts`, for any finite table, any
  windows, widths of buckets and limits of the ranked lists, wherever between its
  queries the clock moves.
* **SessionProofs**, about the classifier's operators, on all inputs: `DecideIsTotal`,
  `AutomationIsASeparateAxis`, `IntentEvidenceNeverExonerates`,
  `HeldAgainIsJudgedAgain`, `LongerHistoryNeverExonerates`, `ContradictedIsNeverHuman`,
  `ForgedHeadersDoNotMatter`.
* **RedactProofs**: `SecretsNeverStored`, `RestStoredAsReceived`, `UserNameCounted`,
  for any number of fields with any names, in any place, form and order, and any
  limit. Assumed: a name that begins with a secret word contains one, and
  USERNAME_FIELDS has no name twice.

**The argument in SensorProofs.** None of the three state properties is inductive:
they speak of rows in the table, and say nothing of the handler about to insert
one. `IInv` adds what a handler in flight knows. `LoopInv`: a handler past its
await owns the loop, so there is at most one. `MeasureInv`: a handler that has
measured holds the velocity of the table *as it is at this moment*; with `LoopInv`
no other handler can insert until it has, and a power loss frees every slot, so
`MeasureInv` survives every step and the row it inserts is rebuildable.
`RowsInv`: no row has an id above `lastId` or a time in the future, so the new row
is after all others, and the rows before an old row stay what they were. `JobInv`:
ids of requests in flight differ and are at most `arrivals`, whence no request is
stored twice. `PrintInv`: the fingerprint of a handler is that of its request,
whatever rDNS said, so the identity does not depend on rDNS; the refinement
needs this. There is one lemma per action (`ArriveInv`, ..., `CrashInv`), combined
in `NextInv`. For the refinement `Record` maps to `Observe`, `PowerLoss` to
`Forget`, all other actions to stuttering. Power loss keeps rebuildability because
it takes a suffix by id, and a verdict depends on smaller ids only.

**The argument in EnrichProofs.** An answer is as good as the queries that gave it
were. `CacheInv`: a host in the cache was vouched for when it got there, and
`vouched` only grows. `LookupInv`: between the queries a genuine address holds a host
of the crawler that every state of the DNS lists it under, so if the address is IPv4
only a failure can refuse it (`GenuineInv`). `RecencyInv` is a separate invariant that ties the order of
the cache to history: `since` of a cached address is the set of entries *behind* it;
an entry that is pushed out stood first in a full cache of distinct addresses, so
all the others and the new one, `CacheSize` of them, came after it. A hit moves an
entry, which needs the position of each entry before and after (`MovedToEnd`).

**The argument in StoreOpenProofs.** `Progress`: at statement `at` of a start the
indexes before it exist, and so do the columns before it, because a column `_migrate`
does not add was there when it looked, and no statement drops one.

**The argument in TLSFrontProofs.** `WaitBound` is about one connection and not
inductive. `WaitInv` says that the connection at position *k* of the backlog is owed
*k* - 1 timeouts and what is left of the read in progress. `Accept` moves everybody
one position ahead and starts a timeout; a tick takes from both sides, since the
listener is reading whenever somebody waits; `QueueInv` says that the backlog holds
exactly the queued connections, each once. `PrintInv`: the fingerprint of an open
connection is that of its record, from which `SetIsOwn` and `ForwardedIsOwn` derive
what is forwarded.

**The argument in SessionProofs.** What the later theorems need of a session is
`WindowInv`, that the window is a sequence of at most `MaxSent` rows; its aggregates
are natural counts (`AggregateType`) and count the request being handled. The heart
is `HeldAgain`, the comparison of two velocities: the second holds against the client
whatever the first did (each signal is a comparison of one count with a threshold, and
only path_sweep ends where path_enumeration begins), and calls it calm only if the
first did. `HeldAgainScores` carries that to the scores, no intent falls and the human
does not gain, and `HeldAgainIsJudgedAgain` to the verdict. The three results about
histories are instances of it. `NothingLaundersAnAttack`: the empty window holds
nothing against a client and is calm. `LongerHistoryNeverExonerates`: larger
counts hold what smaller ones did unless a sweep became an enumeration, and the ratio,
which may fall, is a hypothesis. `NoOtherRehabilitation`: a request only makes counts
grow (`WindowGrows`), so the ratio and the sweep are all it can take back; when rows
expire, the exceptions of the property are exactly the ways in which `HeldAgain` fails
from the longer window to the shorter one. Confidence is what is claimed over a scale, both
of which grow with the score of the verdict, and capped. `CapIsMonotone` compares two
such fractions by multiplying out, whichever of them is capped; `MarginGrows` says that
one more point adds more to the claim than to the scale; `ClaimedForIntent` and
`VerdictSays` tell which score is claimed. `OwnEvidenceAddsConfidence` and
`RivalEvidenceCostsConfidence` then split on the verdict.

**The argument in ClientOfferProofs.** The parser never searches: each part is found
by the length in front of it. `IsHeader` says where the lengths of a hello stand, and
`HeaderFacts` that an offer has them there. `HeaderIsRead` compares a record with such
a header byte by byte *as far as the record goes*: it has its cipher suites exactly if
it reaches the end of the compression methods. A cut behind that point leaves a block
that is shorter than its length, which is refused; hence the two exceptions, where
not even the length is left (`CutIsRefused`). The list of extensions is a recursive
function of a position. `ReadingExists` constructs it, since a CHOOSE without a witness
says nothing; `OneIsRead` is one step of it, and `BlockIsRead` goes from the end of the
list to its beginning: if the reading stops behind the block, then what is read from
extension *k* on is the list from *k* on. A whole block stops at its end, one that
overruns at the length that is too large, and so both give the extensions before it.
`WireFacts` does the same for lists of values. For these, `OfferInv` is enough: an offer
is made of what the constants allow and `ch` was parsed from it.

What a JA4 *says* is another matter: the code counts and sorts lists, `Meaning` speaks
of sets. They agree because nothing is offered twice, which is inductive
(`OffersAreOnce`), and because taking values out of a list keeps that (`WithoutFacts`);
an injective list is as long as its set and its bag counts each value once
(`InjectiveSequence`). `CarriedIsRead` goes through the four bodies that are read, and
needs that GREASE is what `GREASEPoints` lists and none of the four types
(`GREASEIsListed`, from the arithmetic of the two bytes). For `JA4sFollowTheStack` a JA4 is
taken apart again: `MeaningTells` names what two offers of one JA4 have in common, and
every addition but GREASE changes one of these: a bag of ciphers, a bag of types, the
server-name flag, or, for ALPN, the count.

**The argument in DashboardProofs.** Sums are folds over finite sets. `TotalOfCounts`:
counts by key add up to the size of the set, by induction on the set of keys. From it
follow the breakdown of verdicts, the bars of the timeline, whose automated and
legitimate halves are counts of disjoint sets, and that a ranked list adds up to no
more, since the rows of the keys it keeps are some of all. `LaterSeesLess`: a query asked later sees
fewer of the same rows, so the sums decrease in the order of the queries and are equal
if the clock stood still. `RowsInv` is all that is needed of the table, that it is
finite and its times are naturals. `WidthIsFirstChart` is the fall-through of the
bucket widths; the finest bucket is a minute, so three minutes are three bars.

**The argument in RedactProofs.** The state needs no strengthening: `RedactInv` only
says what a submission is, and nothing is claimed of the fields in `Unseen`. The difficulty is in the operators, which search through
text. `Laid` says what the text is: field behind field, each token of it part of one
field, a separator or a bracket, by induction on the number of fields (`SentIsLaid`);
what is received is the beginning of it (`ReceivedFacts`). From it follows where a
search can stop. In JSON a quote opens a field, closes its key, encloses or stands
inside its value, and of all these only the first has a secret name between it and
the next quote and then a colon; an escaped quote has exactly one backslash before it,
so the value ends where the client ended it (`JsonStringEnd`, `JsonFound`). In other
text a word ends at a space or with the text (`WordsFound`). So the matches are the
secret fields received far enough, and `Sub` replaces fields as a whole: `SubDrops` and
`SubKeeps` say, for any matches, which tokens are gone and which remain in their order,
by induction from the end of the text, and `Replacement` joins the two. A form is
taken apart and put together again. `ParsedFacts`: its pieces are the fields, as far
as they were received; `GroupedFacts`: grouping moves pairs and loses or repeats none.
A field that is not secret and has a value is in one piece only (`Once`), and so its
value is written once. `UserFollows` needs that the first place of a given name is
that of the field with the least rank, which is where USERNAME_FIELDS must not repeat
a name.

**Model-checked only.** Liveness (`EveryReadyRequestEnds`, `EventuallyServes`,
`EveryConnectionIsReached`, `SettlesOnTheWindow`) and whatever needs ENABLED are out
of the prover's reach. Every other property of a passing run is also a theorem. The
library's induction theorems, which take an operator, cannot be used; where induction
was needed (sums, flattened sequences, the list of extensions, the text of a body) it
is derived, for sets instead of operators, from the existence of minimal elements
(`NatSetInduction`, `BackwardInduction`, `SubsetInduction`). SelectSeq, of which the
prover has no definition, is written as a flattened sequence (`Without`, `Only`). No
module uses a RECURSIVE operator.

## 6. Abstractions, and what is not modelled

* Texts are sets of needles, classes or values; regular expressions, JSON, headers'
  values and wording are left out. Digests are injective. Rounding of confidence
  to three places is left out.
* A lookup in `Sensor` returns any answer of `RDNS[ip]`; how it comes about is
  in `Enrich`. How long it blocks the event loop is not modelled (`setdefaulttimeout`
  does not bound the resolver calls); `KeptWhileInUse` says how seldom it does.
* The table of `Sensor` starts empty. Rows without a `client_id`, which an earlier
  release would have left, are in no table the service opens, because of finding 1.
* `TLSFront` ends where the TLS handshake begins, which is the Go library's. `Accept`
  calls itself after a failed read; the depth of these calls is not in the model. Nor
  are the temporary failures of the listener's `Accept`, after which net/http pauses
  for up to a second and tries again: `Die` stands for the others. Such pauses come
  on top of what `WaitBound` allows.
* `Redact` has one limit for bodies and leaves out white space between JSON tokens,
  escapes other than that of a quote, and the encoding of characters.
* A client that vanishes after its body is complete is not noticed by the handler,
  so it is no action.
* `Analytics` leaves out averages, maxima, rounding, labels and the listing of
  `recent()`. `Dashboard` leaves out drawing, tooltips and the theme; while a page is
  open the clock stands still, so that no row leaves the window by itself.
* Not modelled: the configuration, whose values are the constants; nginx, a
  third-party program that is only configured; certificates and flags of tlsfront;
  the traffic simulator and the capture tool, which run outside the system. Modelled
  in part: of the decoys the status, which is what the classifier reads (the bodies
  are fixed text), of the deployment `Restart` and the single event loop.

## 7. Plan

Done: the core (classifier, store, capture service, its refinement and proofs),
rDNS and its cache, opening the store, the TLS front with its parser, redaction, the
dashboard with its queries, and the proofs of section 5.

What could follow, in this order:

1. `TLSFront` composed with `Sensor` through the `ja4` of requests, so that a client
   that removes its own headers, or resumes a session, is followed to its verdicts.
2. `Dashboard` with the clock running while the page is open, on a coarser model of
   the answers.
