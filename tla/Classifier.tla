------------------------------ MODULE Classifier ------------------------------
(***************************************************************************)
(* The behavioural classifier (honeypot/app/classifier.py) and the decoy   *)
(* lookup whose status it reads (honeypot/app/decoys.py).                  *)
(*                                                                         *)
(* A request is a record                                                   *)
(*   [method, path, exploits, user, headers, ua, wildcard, lang, ja4]      *)
(* where exploits counts the exploit patterns found in path and query and  *)
(* user is the user name found in the body.  Prefix tests on paths are     *)
(* membership in the class of the paths that have such a prefix.           *)
(*                                                                         *)
(* Weights are counted in halves, so that every score is an integer.  The  *)
(* thresholds are constants: the values in the code are given beside them. *)
(***************************************************************************)
EXTENDS Fingerprint, Integers

CONSTANTS ArtifactPaths, AdminPaths, LoginPaths, ContentPaths,  \* prefix classes
          FailingLogins,       \* paths whose POST always answers 401
          StaticStatus,        \* path -> status of its decoy
          SweepPaths,          \* 8
          EnumerationPaths,    \* 20
          RatioRequests,       \* 5
          FewUsernames,        \* 2
          ManyUsernames,       \* 5
          ManyUserAgents,      \* 3
          HighVolume,          \* 60
          CalmRequests,        \* 5
          CalmPaths            \* 3

ASSUME ThresholdAssumption ==
         /\ {SweepPaths, EnumerationPaths, RatioRequests, FewUsernames, ManyUsernames,
             ManyUserAgents, HighVolume, CalmRequests, CalmPaths} \subseteq Nat
         /\ 2 <= SweepPaths /\ SweepPaths <= EnumerationPaths
         /\ FewUsernames <= ManyUsernames
         /\ RatioRequests >= 2

ASSUME StatusAssumption ==
         \A p \in DOMAIN StaticStatus : StaticStatus[p] \in {200, 401}

IntentVerdicts == {"vuln_scanner", "credential_attack", "content_scraper", "recon_probe"}

Verdicts == IntentVerdicts \union
            {"verified_crawler", "unclassified_automation", "likely_human"}

\* sorted() is stable: equal scores keep the order of INTENT_VERDICTS.
IntentOrder == <<"vuln_scanner", "credential_attack", "content_scraper", "recon_probe">>

------------------------------------------------------------------------------
\* decoys.resolve, as far as the status goes.
DecoyStatus(req) ==
  IF req.method = "POST" /\ req.path \in FailingLogins THEN 401
  ELSE IF req.path \in DOMAIN StaticStatus             THEN StaticStatus[req.path]
  ELSE 404

------------------------------------------------------------------------------
(* Signals.  Each family of signals adds its weights to the verdicts it has *)
(* something to say about.                                                 *)

Worth(present, weight) == IF present THEN weight ELSE 0

IsLoginAttempt(req) == req.method = "POST" /\ req.path \in LoginPaths

PathSignals(req) ==
  [ vuln_scanner      |-> Worth(req.path \in ArtifactPaths, 8) + 10 * req.exploits,
    recon_probe       |-> Worth(req.path \in AdminPaths, 5),
    credential_attack |-> Worth(IsLoginAttempt(req), 6),
    content_scraper   |-> Worth(req.method = "GET" /\ req.path \in ContentPaths, 3) ]

Contradicted(fp) == fp.tls_family \in ScriptedFamilies /\ fp.claims_browser

TLSSignals(fp) ==
  [ unclassified_automation |->
      Worth(Contradicted(fp), 10)
      + Worth(fp.tls_family \in ScriptedFamilies /\ ~fp.claims_browser, 6),
    likely_human |->
      Worth(fp.tls_family = "chromium" /\ fp.claims_browser /\ ~fp.tool_signature, 5) ]

FingerprintSignals(fp) ==
  [ verified_crawler |-> Worth(fp.declared_crawler # None /\ fp.crawler_verified, 16),
    content_scraper  |-> Worth(fp.declared_crawler # None /\ ~fp.crawler_verified, 10),
    unclassified_automation |->
      Worth(fp.tool_signature, 7)
      + Worth(fp.ua_raw = {}, 5)
      + Worth(fp.claims_browser /\ ~fp.has_sec_fetch, 6)
      + 2 * fp.missing_baseline
      + Worth(fp.wildcard_accept /\ fp.claims_browser, 3)
      + Worth(fp.header_count <= 4, 3) ]

\* not_found of the requests - 1 events in the window answered 404.
HighNotFoundRatio(vel) ==
  vel.requests >= RatioRequests /\ 10 * vel.not_found >= 6 * (vel.requests - 1)

\* Mutant: path_enumeration fires at the threshold and not above it.
VelocitySignalsAtThreshold(vel, login) ==
  [ vuln_scanner |-> Worth(vel.distinct_paths = EnumerationPaths, 8)
                     + Worth(HighNotFoundRatio(vel), 5),
    recon_probe  |-> Worth(vel.distinct_paths \in SweepPaths .. (EnumerationPaths - 1), 4),
    credential_attack |->
      Worth(login /\ vel.distinct_usernames >= ManyUsernames, 10)
      + Worth(login /\ vel.distinct_usernames \in FewUsernames .. (ManyUsernames - 1), 4),
    unclassified_automation |-> Worth(vel.distinct_user_agents >= ManyUserAgents, 6),
    content_scraper         |-> Worth(vel.requests >= HighVolume, 4) ]

VelocitySignals(vel, login) ==
  [ vuln_scanner |-> Worth(vel.distinct_paths >= EnumerationPaths, 8)
                     + Worth(HighNotFoundRatio(vel), 5),
    recon_probe  |-> Worth(vel.distinct_paths \in SweepPaths .. (EnumerationPaths - 1), 4),
    credential_attack |->
      Worth(login /\ vel.distinct_usernames >= ManyUsernames, 10)
      + Worth(login /\ vel.distinct_usernames \in FewUsernames .. (ManyUsernames - 1), 4),
    unclassified_automation |-> Worth(vel.distinct_user_agents >= ManyUserAgents, 6),
    content_scraper         |-> Worth(vel.requests >= HighVolume, 4) ]

\* Mutant: header evidence counts against a handshake that contradicts it.
HumanSignalsUnchecked(fp, vel) ==
  Worth(fp.has_sec_fetch /\ fp.claims_browser /\ ~fp.tool_signature, 6)
  + Worth(fp.has_client_hints, 3)
  + Worth(fp.has_referer, 2)
  + Worth(fp.missing_baseline = 0 /\ fp.header_count >= 8, 4)
  + Worth(vel.requests <= CalmRequests /\ vel.distinct_paths <= CalmPaths, 2)

\* Mutant: the calm of a new client is credited to one with a history.
HumanSignalsOfRegulars(fp, vel) ==
  IF Contradicted(fp) THEN 0
  ELSE Worth(fp.has_sec_fetch /\ fp.claims_browser /\ ~fp.tool_signature, 6)
       + Worth(fp.has_client_hints, 3)
       + Worth(fp.has_referer, 2)
       + Worth(fp.missing_baseline = 0 /\ fp.header_count >= 8, 4)
       + Worth(vel.requests >= CalmRequests /\ vel.distinct_paths <= CalmPaths, 2)

\* The weight for likely_human.  Forged evidence is discarded, not outweighed.
HumanSignals(fp, vel) ==
  IF Contradicted(fp) THEN 0
  ELSE Worth(fp.has_sec_fetch /\ fp.claims_browser /\ ~fp.tool_signature, 6)
       + Worth(fp.has_client_hints, 3)
       + Worth(fp.has_referer, 2)
       + Worth(fp.missing_baseline = 0 /\ fp.header_count >= 8, 4)
       + Worth(vel.requests <= CalmRequests /\ vel.distinct_paths <= CalmPaths, 2)

\* The weight for recon_probe.
StatusSignals(req) == Worth(DecoyStatus(req) = 404, 1)

Scores(req, fp, vel) ==
  LET path  == PathSignals(req)
      stack == FingerprintSignals(fp)
      tls   == TLSSignals(fp)
      speed == VelocitySignals(vel, IsLoginAttempt(req))
  IN [ verified_crawler  |-> stack.verified_crawler,
       vuln_scanner      |-> path.vuln_scanner + speed.vuln_scanner,
       credential_attack |-> path.credential_attack + speed.credential_attack,
       content_scraper   |-> path.content_scraper + stack.content_scraper + speed.content_scraper,
       recon_probe       |-> path.recon_probe + speed.recon_probe + StatusSignals(req),
       unclassified_automation |-> stack.unclassified_automation + tls.unclassified_automation
                                   + speed.unclassified_automation,
       likely_human      |-> tls.likely_human + HumanSignals(fp, vel) ]

------------------------------------------------------------------------------
(* The decision: which verdict the scores amount to, and how sure it is.   *)

\* The first of the best scored intents.
TopIntent(scores) ==
  IntentOrder[CHOOSE i \in 1 .. 4 :
                /\ \A j \in 1 .. 4 : scores[IntentOrder[j]] <= scores[IntentOrder[i]]
                /\ \A j \in 1 .. (i - 1) : scores[IntentOrder[j]] < scores[IntentOrder[i]]]

\* An intent wins when there is evidence of it and no more evidence of a human.
IntentWins(scores) ==
  /\ scores[TopIntent(scores)] > 0
  /\ scores[TopIntent(scores)] >= scores.likely_human

ScoreBoards == [Verdicts -> Nat]

\* Mutant: automation competes with the intents for the highest score.
DecideOnOneAxis ==
  [scores \in ScoreBoards |->
     IF scores.verified_crawler > 0 THEN "verified_crawler"
     ELSE IF IntentWins(scores) /\ scores[TopIntent(scores)] >= scores.unclassified_automation
          THEN TopIntent(scores)
     ELSE IF scores.unclassified_automation > scores.likely_human
          THEN "unclassified_automation"
     ELSE "likely_human"]

\* Mutant: a proven identity is looked at only if there is no intent.
DecideBehaviourFirst ==
  [scores \in ScoreBoards |->
     IF IntentWins(scores) THEN TopIntent(scores)
     ELSE IF scores.verified_crawler > 0 THEN "verified_crawler"
     ELSE IF scores.unclassified_automation > scores.likely_human
          THEN "unclassified_automation"
     ELSE "likely_human"]

Decide ==
  [scores \in ScoreBoards |->
     IF scores.verified_crawler > 0 THEN "verified_crawler"
     ELSE IF IntentWins(scores) THEN TopIntent(scores)
     ELSE IF scores.unclassified_automation > scores.likely_human
          THEN "unclassified_automation"
     ELSE "likely_human"]

Classify(req, fp, vel) == Decide[Scores(req, fp, vel)]

------------------------------------------------------------------------------
(* Confidence, as an exact fraction with the denominator 320 * Scale.      *)

AtMost(x, limit) == IF x <= limit THEN x ELSE limit

RunnerUp(scores) ==
  LET rest == {scores[v] : v \in IntentVerdicts \ {TopIntent(scores)}}
  IN CHOOSE x \in rest : \A y \in rest : y <= x

\* The margin is a quotient by the top score, so the fraction is one of Scale.
Scale(scores) == IF IntentWins(scores) THEN scores[TopIntent(scores)] ELSE 1

\* Mutant: the margin is the runner-up's share, not the distance to it.
ClaimedInRunnerUp(scores) ==
  LET top   == scores[TopIntent(scores)]
      auto  == scores.unclassified_automation
      human == scores.likely_human
  IN IF IntentWins(scores) THEN 112 * top + 80 * RunnerUp(scores)
                                + top * (5 * AtMost(top, 16) + 3 * AtMost(auto, 16))
     ELSE IF auto > human  THEN 112 + 10 * AtMost(auto, 16)
     ELSE IF human = 0     THEN 96
     ELSE 112 + 10 * AtMost(human, 16)

\* 0.35 + 0.25 margin + 0.25 magnitude + 0.15 corroboration for an intent,
\* 0.35 + 0.5 magnitude for the other two, 0.3 when there is no evidence at all.
Claimed(scores) ==
  LET top   == scores[TopIntent(scores)]
      auto  == scores.unclassified_automation
      human == scores.likely_human
  IN IF IntentWins(scores) THEN 112 * top + 80 * (top - RunnerUp(scores))
                                + top * (5 * AtMost(top, 16) + 3 * AtMost(auto, 16))
     ELSE IF auto > human  THEN 112 + 10 * AtMost(auto, 16)
     ELSE IF human = 0     THEN 96
     ELSE 112 + 10 * AtMost(human, 16)

\* _finish: the cap is 0.99; rounding to three places is left out.
Capped(claimed, scale) ==
  IF 100 * claimed >= 99 * 320 * scale THEN [num |-> 99, den |-> 100]
                                       ELSE [num |-> claimed, den |-> 320 * scale]

Confidence ==
  [scores \in ScoreBoards |->
     IF scores.verified_crawler > 0 THEN [num |-> 99, den |-> 100]
     ELSE Capped(Claimed(scores), Scale(scores))]
==============================================================================
