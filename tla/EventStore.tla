----------------------------- MODULE EventStore -----------------------------
(***************************************************************************)
(* The events table and the sliding-window query over it                   *)
(* (honeypot/app/storage.py).  The table is the set of its rows; AUTO-     *)
(* INCREMENT gives every row an id above all earlier ones.  A row written  *)
(* by the capture handler has the columns the properties need, among them  *)
(*   id, ts, src_ip_hash, client_id, username_hash, ua_raw, path, status,  *)
(*   verdict, signals.                                                     *)
(* A caller of velocity_for without an identity passes client_id NoClient, *)
(* its None.                                                               *)
(***************************************************************************)
EXTENDS Classifier

NoClient == <<>>

AtLeastOne(n) == IF n = 0 THEN 1 ELSE n

\* Mutant: the request being handled is not counted.
AggregatePast(rows) ==
  [ requests             |-> Cardinality(rows),
    distinct_paths       |-> AtLeastOne(Cardinality({r.path : r \in rows})),
    distinct_usernames   |-> Cardinality({r.username_hash : r \in rows} \ {None}),
    distinct_user_agents |-> AtLeastOne(Cardinality({r.ua_raw : r \in rows})),
    not_found            |-> Cardinality({r \in rows : r.status = 404}) ]

\* The SELECT of velocity_for.  distinct_usernames skips NULL; the request
\* being handled is counted in requests and nowhere else.
Aggregate(rows) ==
  [ requests             |-> Cardinality(rows) + 1,
    distinct_paths       |-> AtLeastOne(Cardinality({r.path : r \in rows})),
    distinct_usernames   |-> Cardinality({r.username_hash : r \in rows} \ {None}),
    distinct_user_agents |-> AtLeastOne(Cardinality({r.ua_raw : r \in rows})),
    not_found            |-> Cardinality({r \in rows : r.status = 404}) ]

\* Mutant: velocity is keyed by address alone.
MatchingAddress(rows, ip, since, client) ==
  {r \in rows : r.src_ip_hash = ip /\ r.ts >= since}

\* Its WHERE clause: by client and address, or by address alone.
Matching(rows, ip, since, client) ==
  {r \in rows : /\ r.src_ip_hash = ip
                /\ client # NoClient => r.client_id = client
                /\ r.ts >= since}

VelocityFor(rows, ip, since, client) == Aggregate(Matching(rows, ip, since, client))

\* The event e was judged by the rows of this bucket that were in its window.
JudgedBy(bucket, e) ==
  LET own == Aggregate({q \in bucket : q.ts >= e.since})
  IN /\ e.signals = Scores(e.request, e.fingerprint, own)
     /\ e.verdict = Classify(e.request, e.fingerprint, own)
==============================================================================
