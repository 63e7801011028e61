---------------------------- MODULE SessionProofs ----------------------------
(***************************************************************************)
(* What the classifier promises for every request, client stack, velocity  *)
(* and value of the thresholds, and the safety properties of a session,    *)
(* for every set of stacks, targets and users and every length.            *)
(***************************************************************************)
EXTENDS Session, SequenceTheorems, FiniteSetTheorems, TLAPS

\* The best scored intent exists, is an intent, and no intent beats it.
LEMMA TopIntentIsBest ==
  ASSUME NEW scores \in ScoreBoards
  PROVE  /\ TopIntent(scores) \in IntentVerdicts
         /\ \A v \in IntentVerdicts : scores[v] <= scores[TopIntent(scores)]
<1> DEFINE Best(i) == /\ \A j \in 1 .. 4 : scores[IntentOrder[j]] <= scores[IntentOrder[i]]
                      /\ \A j \in 1 .. (i - 1) : scores[IntentOrder[j]] < scores[IntentOrder[i]]
<1>1. /\ scores[IntentOrder[1]] \in Nat /\ scores[IntentOrder[2]] \in Nat
      /\ scores[IntentOrder[3]] \in Nat /\ scores[IntentOrder[4]] \in Nat
  BY DEF ScoreBoards, Verdicts, IntentVerdicts, IntentOrder
<1>2. \E i \in 1 .. 4 : Best(i)
  BY <1>1
<1>3. PICK i \in 1 .. 4 : Best(i) /\ TopIntent(scores) = IntentOrder[i]
  BY <1>2 DEF TopIntent
<1>4. \A v \in IntentVerdicts : \E j \in 1 .. 4 : v = IntentOrder[j]
  BY DEF IntentVerdicts, IntentOrder
<1>5. IntentOrder[i] \in IntentVerdicts
  BY DEF IntentVerdicts, IntentOrder
<1> QED
  BY <1>3, <1>4, <1>5

\* The best scored intent depends on the scores of the intents alone.
LEMMA TopIntentReadsIntents ==
  ASSUME NEW a \in ScoreBoards, NEW b \in ScoreBoards,
         \A v \in IntentVerdicts : a[v] = b[v]
  PROVE  TopIntent(a) = TopIntent(b)
<1>1. \A i \in 1 .. 4 : IntentOrder[i] \in IntentVerdicts
  BY DEF IntentOrder, IntentVerdicts
<1>2. \A i \in 1 .. 4 : a[IntentOrder[i]] = b[IntentOrder[i]]
  BY <1>1
<1>3. \A i \in 1 .. 4 :
        (/\ \A j \in 1 .. 4 : a[IntentOrder[j]] <= a[IntentOrder[i]]
         /\ \A j \in 1 .. (i - 1) : a[IntentOrder[j]] < a[IntentOrder[i]])
        <=>
        (/\ \A j \in 1 .. 4 : b[IntentOrder[j]] <= b[IntentOrder[i]]
         /\ \A j \in 1 .. (i - 1) : b[IntentOrder[j]] < b[IntentOrder[i]])
  BY <1>2
<1> QED
  BY <1>3 DEF TopIntent

\* classify always reaches one of the seven verdicts.
THEOREM DecideIsTotal ==
  ASSUME NEW scores \in ScoreBoards
  PROVE  Decide[scores] \in Verdicts
BY TopIntentIsBest DEF Decide, Verdicts

\* The two axes are separate: whatever the evidence of automation, a request
\* that gets an intent verdict keeps it, and one that gets none does not gain one.
THEOREM AutomationIsASeparateAxis ==
  ASSUME NEW a \in ScoreBoards, NEW b \in ScoreBoards,
         \A v \in Verdicts \ {"unclassified_automation"} : a[v] = b[v]
  PROVE  \/ Decide[a] = Decide[b]
         \/ {Decide[a], Decide[b]} = {"unclassified_automation", "likely_human"}
<1>1. TopIntent(a) = TopIntent(b)
  BY TopIntentReadsIntents DEF Verdicts, IntentVerdicts
<1>2. /\ a["verified_crawler"] = b["verified_crawler"]
      /\ a["likely_human"] = b["likely_human"]
      /\ a[TopIntent(a)] = b[TopIntent(b)]
  BY <1>1, TopIntentIsBest DEF Verdicts, IntentVerdicts
<1>3. IntentWins(a) <=> IntentWins(b)
  BY <1>1, <1>2 DEF IntentWins
<1> QED
  BY <1>1, <1>2, <1>3 DEF Decide

\* More evidence of an intent, and no more of a human, never turns an intent
\* verdict into "likely_human" or into the alert-only one.
THEOREM IntentEvidenceNeverExonerates ==
  ASSUME NEW a \in ScoreBoards, NEW b \in ScoreBoards,
         \A v \in IntentVerdicts : a[v] <= b[v],
         a["likely_human"] >= b["likely_human"],
         a["verified_crawler"] = b["verified_crawler"],
         Decide[a] \in IntentVerdicts
  PROVE  Decide[b] \in IntentVerdicts
<1>1. a["verified_crawler"] = 0 /\ IntentWins(a)
  BY DEF Decide, IntentVerdicts, ScoreBoards, Verdicts
<1>2. a[TopIntent(a)] <= b[TopIntent(b)]
  <2>1. TopIntent(a) \in IntentVerdicts /\ b[TopIntent(a)] <= b[TopIntent(b)]
    BY TopIntentIsBest
  <2>2. a[TopIntent(a)] <= b[TopIntent(a)]
    BY <2>1
  <2>3. a[TopIntent(a)] \in Nat /\ b[TopIntent(a)] \in Nat /\ b[TopIntent(b)] \in Nat
    BY TopIntentIsBest DEF ScoreBoards, Verdicts
  <2> QED
    BY <2>1, <2>2, <2>3
<1>3. IntentWins(b)
  <2>1. /\ a[TopIntent(a)] \in Nat /\ a.likely_human \in Nat
        /\ b[TopIntent(b)] \in Nat /\ b.likely_human \in Nat
    BY TopIntentIsBest DEF ScoreBoards, Verdicts
  <2>2. a[TopIntent(a)] > 0 /\ a[TopIntent(a)] >= a.likely_human
    BY <1>1 DEF IntentWins
  <2> QED
    BY <1>2, <2>1, <2>2 DEF IntentWins
<1> QED
  BY <1>1, <1>3, TopIntentIsBest DEF Decide

------------------------------------------------------------------------------
(* What a request, a fingerprint and a velocity are, as far as the scores   *)
(* need to know.                                                            *)

IsRequest(req)    == req.exploits \in Nat
IsFingerprint(fp) == fp.missing_baseline \in Nat

\* Every request has a fingerprint that can be scored.
LEMMA PrintIsScorable ==
  ASSUME NEW req, NEW host
  PROVE  IsFingerprint(BuildFingerprint(req, host))
<1> DEFINE missing == BaselineHeaders \ Names(req.headers)
<1>1. IsFiniteSet(BaselineHeaders)
  <2>1. IsFiniteSet({"accept"})
    BY FS_Singleton
  <2>2. IsFiniteSet({"accept"} \union {"accept-encoding"})
    BY <2>1, FS_AddElement
  <2>3. IsFiniteSet(({"accept"} \union {"accept-encoding"}) \union {"accept-language"})
    BY <2>2, FS_AddElement
  <2>4. IsFiniteSet((({"accept"} \union {"accept-encoding"}) \union {"accept-language"})
                      \union {"user-agent"})
    BY <2>3, FS_AddElement
  <2>5. BaselineHeaders = (({"accept"} \union {"accept-encoding"}) \union {"accept-language"})
                            \union {"user-agent"}
    BY DEF BaselineHeaders
  <2> QED
    BY <2>4, <2>5
<1>2. Cardinality(missing) \in Nat
  BY <1>1, FS_Subset, FS_CardinalityType
<1>3. BuildFingerprint(req, host).missing_baseline = Cardinality(missing)
  BY DEF BuildFingerprint
<1> QED
  BY <1>2, <1>3 DEF IsFingerprint

LEMMA ScoresType ==
  ASSUME NEW req, NEW fp, NEW vel, IsRequest(req), IsFingerprint(fp)
  PROVE  Scores(req, fp, vel) \in ScoreBoards
<1>2. /\ PathSignals(req).vuln_scanner \in Nat
      /\ PathSignals(req).recon_probe \in Nat
      /\ PathSignals(req).credential_attack \in Nat
      /\ PathSignals(req).content_scraper \in Nat
  BY DEF PathSignals, IsRequest, Worth
<1>3. /\ FingerprintSignals(fp).verified_crawler \in Nat
      /\ FingerprintSignals(fp).content_scraper \in Nat
      /\ FingerprintSignals(fp).unclassified_automation \in Nat
  BY DEF FingerprintSignals, IsFingerprint, Worth
<1>4. /\ TLSSignals(fp).unclassified_automation \in Nat
      /\ TLSSignals(fp).likely_human \in Nat
  BY DEF TLSSignals, Worth
<1>5. HumanSignals(fp, vel) \in Nat /\ StatusSignals(req) \in Nat
  BY DEF HumanSignals, StatusSignals, Worth
<1>6. ASSUME NEW login
      PROVE  /\ VelocitySignals(vel, login).vuln_scanner \in Nat
             /\ VelocitySignals(vel, login).recon_probe \in Nat
             /\ VelocitySignals(vel, login).credential_attack \in Nat
             /\ VelocitySignals(vel, login).unclassified_automation \in Nat
             /\ VelocitySignals(vel, login).content_scraper \in Nat
  BY DEF VelocitySignals, Worth
<1> QED
  BY <1>2, <1>3, <1>4, <1>5, <1>6 DEF Scores, ScoreBoards, Verdicts, IntentVerdicts

(* The scores of a client that claims no crawler identity, and of one whose *)
(* handshake contradicts its User-Agent.                                   *)

\* The intents are scored on what the client does, not on what it is.
LEMMA IntentsReadBehaviour ==
  ASSUME NEW req, NEW vel, NEW f, NEW g,
         f.declared_crawler = None, g.declared_crawler = None
  PROVE  \A v \in IntentVerdicts : Scores(req, f, vel)[v] = Scores(req, g, vel)[v]
<1>1. FingerprintSignals(f).content_scraper = FingerprintSignals(g).content_scraper
  BY DEF FingerprintSignals, Worth
<1> QED
  BY <1>1 DEF Scores, IntentVerdicts

LEMMA NoClaimNoCrawler ==
  ASSUME NEW req, NEW vel, NEW fp, fp.declared_crawler = None
  PROVE  Scores(req, fp, vel).verified_crawler = 0
BY DEF Scores, FingerprintSignals, Worth

\* The verdict of a verified crawler goes to proven identities, and to no one else.
LEMMA VerifiedExactlyWhenProven ==
  ASSUME NEW req, NEW vel, NEW fp, IsRequest(req), IsFingerprint(fp)
  PROVE  Classify(req, fp, vel) = "verified_crawler"
         <=> fp.declared_crawler # None /\ fp.crawler_verified
<1> DEFINE S == Scores(req, fp, vel)
<1>1. S \in ScoreBoards
  BY ScoresType
<1>2. S.verified_crawler = IF fp.declared_crawler # None /\ fp.crawler_verified THEN 16 ELSE 0
  BY DEF Scores, FingerprintSignals, Worth
<1>3. TopIntent(S) # "verified_crawler"
  BY <1>1, TopIntentIsBest DEF IntentVerdicts
<1>4. Decide[S] = "verified_crawler" <=> S.verified_crawler > 0
  BY <1>1, <1>3 DEF Decide
<1> QED
  BY <1>2, <1>4 DEF Classify

LEMMA ContradictedScores ==
  ASSUME NEW req, NEW vel, NEW fp, IsFingerprint(fp), Contradicted(fp)
  PROVE  /\ Scores(req, fp, vel).likely_human = 0
         /\ Scores(req, fp, vel).unclassified_automation > 0
<1>1. fp.tls_family # "chromium"
  BY ScriptedAssumption DEF Contradicted
<1>2. TLSSignals(fp).likely_human = 0 /\ HumanSignals(fp, vel) = 0
  BY <1>1 DEF TLSSignals, HumanSignals, Worth
<1>3. TLSSignals(fp).unclassified_automation >= 10
  BY DEF TLSSignals, Worth, Contradicted
<1>4. /\ FingerprintSignals(fp).unclassified_automation \in Nat
      /\ TLSSignals(fp).unclassified_automation \in Nat
  BY DEF FingerprintSignals, TLSSignals, IsFingerprint, Worth
<1>5. VelocitySignals(vel, IsLoginAttempt(req)).unclassified_automation \in Nat
  BY DEF VelocitySignals, Worth
<1> QED
  BY <1>2, <1>3, <1>4, <1>5 DEF Scores

\* A client whose TLS handshake contradicts its User-Agent is never taken for a
\* human, whatever it asks for, whatever headers it copies, at any velocity.
THEOREM ContradictedIsNeverHuman ==
  ASSUME NEW req, NEW vel, NEW fp, IsRequest(req), IsFingerprint(fp), Contradicted(fp)
  PROVE  Classify(req, fp, vel) # "likely_human"
<1>1. Scores(req, fp, vel) \in ScoreBoards
  BY ScoresType
<1>2. TopIntent(Scores(req, fp, vel)) # "likely_human"
  BY <1>1, TopIntentIsBest DEF IntentVerdicts
<1> QED
  BY <1>1, <1>2, ContradictedScores DEF Classify, Decide

\* Two such clients that claim no crawler identity get the same verdict for the
\* same request after the same history: the headers they forge buy nothing.
THEOREM ForgedHeadersDoNotMatter ==
  ASSUME NEW req, NEW vel, NEW f, NEW g, IsRequest(req),
         IsFingerprint(f), IsFingerprint(g), Contradicted(f), Contradicted(g),
         f.declared_crawler = None, g.declared_crawler = None
  PROVE  Classify(req, f, vel) = Classify(req, g, vel)
<1> DEFINE a == Scores(req, f, vel)
           b == Scores(req, g, vel)
<1>1. a \in ScoreBoards /\ b \in ScoreBoards
  BY ScoresType
<1>2. \A v \in IntentVerdicts : a[v] = b[v]
  BY IntentsReadBehaviour
<1>3. /\ a.likely_human = 0 /\ a.unclassified_automation > 0
      /\ b.likely_human = 0 /\ b.unclassified_automation > 0
  BY ContradictedScores
<1>4. a.verified_crawler = 0 /\ b.verified_crawler = 0
  BY NoClaimNoCrawler
<1> HIDE DEF a, b
<1>5. TopIntent(a) = TopIntent(b)
  BY <1>1, <1>2, TopIntentReadsIntents
<1>6. a[TopIntent(a)] = b[TopIntent(b)]
  BY <1>1, <1>2, <1>5, TopIntentIsBest
<1>7. IntentWins(a) <=> IntentWins(b)
  BY <1>3, <1>5, <1>6 DEF IntentWins
<1>8. Decide[a] = Decide[b]
  BY <1>1, <1>3, <1>4, <1>5, <1>7 DEF Decide
<1> QED
  BY <1>8 DEF Classify, a, b

------------------------------------------------------------------------------
(* A history that grows.                                                    *)

IsVelocity(vel) ==
  {vel.requests, vel.distinct_paths, vel.distinct_usernames} \subseteq Nat

\* All that the velocity u holds against a client, v holds against it as well,
\* and v makes it no calmer.
HeldAgain(u, v) ==
  /\ u.distinct_paths >= EnumerationPaths => v.distinct_paths >= EnumerationPaths
  /\ u.distinct_paths \in SweepPaths .. (EnumerationPaths - 1)
     => v.distinct_paths \in SweepPaths .. (EnumerationPaths - 1)
  /\ HighNotFoundRatio(u) => HighNotFoundRatio(v)
  /\ u.distinct_usernames >= ManyUsernames => v.distinct_usernames >= ManyUsernames
  /\ u.distinct_usernames >= FewUsernames => v.distinct_usernames >= FewUsernames
  /\ u.requests >= HighVolume => v.requests >= HighVolume
  /\ v.requests <= CalmRequests /\ v.distinct_paths <= CalmPaths
     => u.requests <= CalmRequests /\ u.distinct_paths <= CalmPaths

\* What that does to the scores of one and the same request: no intent loses
\* evidence, and the only evidence of a human that depends on the history, the
\* calm of a new client, can only go.
LEMMA HeldAgainScores ==
  ASSUME NEW req, NEW fp, NEW u, NEW v, IsRequest(req), IsVelocity(u), IsVelocity(v),
         HeldAgain(u, v)
  PROVE  /\ \A i \in IntentVerdicts : Scores(req, fp, u)[i] <= Scores(req, fp, v)[i]
         /\ Scores(req, fp, u).likely_human >= Scores(req, fp, v).likely_human
         /\ Scores(req, fp, u).verified_crawler = Scores(req, fp, v).verified_crawler
<1> DEFINE login == IsLoginAttempt(req)
           a == Scores(req, fp, u)
           b == Scores(req, fp, v)
           su == VelocitySignals(u, login)
           sv == VelocitySignals(v, login)
<1> USE ThresholdAssumption
<1>1. /\ PathSignals(req).vuln_scanner \in Nat
      /\ PathSignals(req).recon_probe \in Nat
      /\ PathSignals(req).credential_attack \in Nat
      /\ PathSignals(req).content_scraper \in Nat
      /\ FingerprintSignals(fp).content_scraper \in Nat
      /\ StatusSignals(req) \in Nat
  BY DEF PathSignals, FingerprintSignals, StatusSignals, IsRequest, Worth
<1>2. su.vuln_scanner \in Nat /\ sv.vuln_scanner \in Nat /\ su.vuln_scanner <= sv.vuln_scanner
  BY DEF VelocitySignals, IsVelocity, HeldAgain, Worth
<1>3. su.recon_probe \in Nat /\ sv.recon_probe \in Nat /\ su.recon_probe <= sv.recon_probe
  BY DEF VelocitySignals, IsVelocity, HeldAgain, Worth
<1>4. /\ su.credential_attack \in Nat /\ sv.credential_attack \in Nat
      /\ su.credential_attack <= sv.credential_attack
  BY DEF VelocitySignals, IsVelocity, HeldAgain, Worth
<1>5. /\ su.content_scraper \in Nat /\ sv.content_scraper \in Nat
      /\ su.content_scraper <= sv.content_scraper
  BY DEF VelocitySignals, IsVelocity, HeldAgain, Worth
<1>6. /\ HumanSignals(fp, u) \in Nat /\ HumanSignals(fp, v) \in Nat
      /\ HumanSignals(fp, u) >= HumanSignals(fp, v)
  BY DEF HumanSignals, IsVelocity, HeldAgain, Worth
<1>7. TLSSignals(fp).likely_human \in Nat
  BY DEF TLSSignals, Worth
<1>8. /\ a.vuln_scanner = PathSignals(req).vuln_scanner + su.vuln_scanner
      /\ a.credential_attack = PathSignals(req).credential_attack + su.credential_attack
      /\ a.content_scraper = PathSignals(req).content_scraper
                             + FingerprintSignals(fp).content_scraper + su.content_scraper
      /\ a.recon_probe = PathSignals(req).recon_probe + su.recon_probe + StatusSignals(req)
      /\ a.likely_human = TLSSignals(fp).likely_human + HumanSignals(fp, u)
      /\ a.verified_crawler = FingerprintSignals(fp).verified_crawler
  BY DEF Scores
<1>9. /\ b.vuln_scanner = PathSignals(req).vuln_scanner + sv.vuln_scanner
      /\ b.credential_attack = PathSignals(req).credential_attack + sv.credential_attack
      /\ b.content_scraper = PathSignals(req).content_scraper
                             + FingerprintSignals(fp).content_scraper + sv.content_scraper
      /\ b.recon_probe = PathSignals(req).recon_probe + sv.recon_probe + StatusSignals(req)
      /\ b.likely_human = TLSSignals(fp).likely_human + HumanSignals(fp, v)
      /\ b.verified_crawler = FingerprintSignals(fp).verified_crawler
  BY DEF Scores
<1> HIDE DEF a, b, su, sv
<1>10. /\ a.vuln_scanner <= b.vuln_scanner
       /\ a.credential_attack <= b.credential_attack
       /\ a.content_scraper <= b.content_scraper
       /\ a.recon_probe <= b.recon_probe
  BY <1>1, <1>2, <1>3, <1>4, <1>5, <1>8, <1>9
<1>11. a.likely_human >= b.likely_human
  BY <1>6, <1>7, <1>8, <1>9
<1>12. a.verified_crawler = b.verified_crawler
  BY <1>8, <1>9
<1>13. \A i \in IntentVerdicts : a[i] <= b[i]
  BY <1>10 DEF IntentVerdicts
<1> QED
  BY <1>11, <1>12, <1>13 DEF a, b

\* An attack stays one as long as nothing held against the client is dropped.
THEOREM HeldAgainIsJudgedAgain ==
  ASSUME NEW req, NEW fp, NEW u, NEW v, IsRequest(req), IsFingerprint(fp),
         IsVelocity(u), IsVelocity(v), HeldAgain(u, v),
         Classify(req, fp, u) \in IntentVerdicts
  PROVE  Classify(req, fp, v) \in IntentVerdicts
<1>1. Scores(req, fp, u) \in ScoreBoards /\ Scores(req, fp, v) \in ScoreBoards
  BY ScoresType
<1>2. Decide[Scores(req, fp, u)] \in IntentVerdicts
  BY DEF Classify
<1>3. Decide[Scores(req, fp, v)] \in IntentVerdicts
  BY <1>1, <1>2, HeldAgainScores, IntentEvidenceNeverExonerates
<1> QED
  BY <1>3 DEF Classify

\* A request that would be judged an attack after some history still is after
\* any longer one, unless the share of 404 answers fell below the threshold or
\* a sweep became an enumeration: _velocity_signals takes nothing else back.
THEOREM LongerHistoryNeverExonerates ==
  ASSUME NEW req, NEW fp, NEW u, NEW v, IsRequest(req), IsFingerprint(fp),
         IsVelocity(u), IsVelocity(v),
         u.requests <= v.requests, u.distinct_paths <= v.distinct_paths,
         u.distinct_usernames <= v.distinct_usernames,
         HighNotFoundRatio(u) => HighNotFoundRatio(v),
         v.distinct_paths < EnumerationPaths \/ u.distinct_paths >= EnumerationPaths
           \/ u.distinct_paths < SweepPaths,
         Classify(req, fp, u) \in IntentVerdicts
  PROVE  Classify(req, fp, v) \in IntentVerdicts
<1>1. HeldAgain(u, v)
  BY ThresholdAssumption DEF HeldAgain, IsVelocity
<1> QED
  BY <1>1, HeldAgainIsJudgedAgain

------------------------------------------------------------------------------
(* The two best scored intents, which the confidence is made of.            *)

\* The runner-up is the score of another intent, and no other one beats it.
LEMMA RunnerUpIsBest ==
  ASSUME NEW scores \in ScoreBoards
  PROVE  /\ \E w \in IntentVerdicts \ {TopIntent(scores)} : RunnerUp(scores) = scores[w]
         /\ \A w \in IntentVerdicts \ {TopIntent(scores)} : scores[w] <= RunnerUp(scores)
<1> DEFINE others == IntentVerdicts \ {TopIntent(scores)}
           rest   == {scores[v] : v \in others}
           Best(x) == \A y \in rest : y <= x
<1>1. \A v \in IntentVerdicts : scores[v] \in Nat
  BY DEF ScoreBoards, Verdicts
<1>2. \E w \in others : \A v \in others : scores[v] <= scores[w]
  <2>1. TopIntent(scores) \in IntentVerdicts
    BY TopIntentIsBest
  <2>2. CASE TopIntent(scores) = "vuln_scanner"
    <3>1. others = {"credential_attack", "content_scraper", "recon_probe"}
      BY <2>2 DEF IntentVerdicts
    <3> QED
      BY <1>1, <3>1 DEF IntentVerdicts
  <2>3. CASE TopIntent(scores) = "credential_attack"
    <3>1. others = {"vuln_scanner", "content_scraper", "recon_probe"}
      BY <2>3 DEF IntentVerdicts
    <3> QED
      BY <1>1, <3>1 DEF IntentVerdicts
  <2>4. CASE TopIntent(scores) = "content_scraper"
    <3>1. others = {"vuln_scanner", "credential_attack", "recon_probe"}
      BY <2>4 DEF IntentVerdicts
    <3> QED
      BY <1>1, <3>1 DEF IntentVerdicts
  <2>5. CASE TopIntent(scores) = "recon_probe"
    <3>1. others = {"vuln_scanner", "credential_attack", "content_scraper"}
      BY <2>5 DEF IntentVerdicts
    <3> QED
      BY <1>1, <3>1 DEF IntentVerdicts
  <2> QED
    BY <2>1, <2>2, <2>3, <2>4, <2>5 DEF IntentVerdicts
<1>3. \E x \in rest : Best(x)
  BY <1>2
<1>4. RunnerUp(scores) = CHOOSE x \in rest : Best(x)
  BY DEF RunnerUp
<1> HIDE DEF Best
<1>5. RunnerUp(scores) \in rest /\ Best(RunnerUp(scores))
  BY <1>3, <1>4
<1> QED
  BY <1>5 DEF Best

\* More evidence of the best scored intent, and no more of the others, leaves
\* it the best scored one.
LEMMA TopIntentKept ==
  ASSUME NEW a \in ScoreBoards, NEW b \in ScoreBoards,
         a[TopIntent(a)] <= b[TopIntent(a)],
         \A v \in IntentVerdicts \ {TopIntent(a)} : b[v] <= a[v]
  PROVE  TopIntent(b) = TopIntent(a)
<1> DEFINE Best(f, i) == /\ \A j \in 1 .. 4 : f[IntentOrder[j]] <= f[IntentOrder[i]]
                         /\ \A j \in 1 .. (i - 1) : f[IntentOrder[j]] < f[IntentOrder[i]]
<1>1. ASSUME NEW f \in ScoreBoards
      PROVE  \A i \in 1 .. 4 : f[IntentOrder[i]] \in Nat
  BY DEF ScoreBoards, Verdicts, IntentVerdicts, IntentOrder
<1>2. ASSUME NEW f \in ScoreBoards
      PROVE  \E i \in 1 .. 4 : Best(f, i)
  BY <1>1
<1>3. ASSUME NEW f \in ScoreBoards
      PROVE  \A i, j \in 1 .. 4 : Best(f, i) /\ Best(f, j) => i = j
  <2> SUFFICES ASSUME NEW i \in 1 .. 4, NEW j \in 1 .. 4, Best(f, i), Best(f, j), i < j
               PROVE  FALSE
    OBVIOUS
  <2>1. f[IntentOrder[i]] < f[IntentOrder[j]] /\ f[IntentOrder[j]] <= f[IntentOrder[i]]
    OBVIOUS
  <2> QED
    BY <1>1, <2>1
<1>4. PICK i \in 1 .. 4 : Best(a, i) /\ TopIntent(a) = IntentOrder[i]
  BY <1>2 DEF TopIntent
<1>5. \A j \in 1 .. 4 : IntentOrder[j] \in IntentVerdicts
                        /\ (j # i => IntentOrder[j] # IntentOrder[i])
  BY DEF IntentOrder, IntentVerdicts
<1>6. \A j \in 1 .. 4 : j # i => b[IntentOrder[j]] <= a[IntentOrder[j]]
  BY <1>4, <1>5
<1>7. Best(b, i)
  BY <1>1, <1>4, <1>6
<1>8. PICK k \in 1 .. 4 : Best(b, k) /\ TopIntent(b) = IntentOrder[k]
  BY <1>2 DEF TopIntent
<1> HIDE DEF Best
<1> QED
  BY <1>3, <1>4, <1>7, <1>8

\* The runner-up depends on the scores of the other intents alone.
LEMMA RunnerUpReadsOthers ==
  ASSUME NEW a \in ScoreBoards, NEW b \in ScoreBoards, TopIntent(a) = TopIntent(b),
         \A v \in IntentVerdicts \ {TopIntent(a)} : a[v] <= b[v]
  PROVE  /\ RunnerUp(a) \in Nat /\ RunnerUp(b) \in Nat
         /\ RunnerUp(a) <= a[TopIntent(a)]
         /\ RunnerUp(a) <= RunnerUp(b)
<1>1. \A v \in IntentVerdicts : a[v] \in Nat /\ b[v] \in Nat
  BY DEF ScoreBoards, Verdicts
<1>2. PICK w \in IntentVerdicts \ {TopIntent(a)} : RunnerUp(a) = a[w]
  BY RunnerUpIsBest
<1>3. PICK x \in IntentVerdicts \ {TopIntent(b)} : RunnerUp(b) = b[x]
  BY RunnerUpIsBest
<1>4. b[w] <= RunnerUp(b)
  BY RunnerUpIsBest
<1>5. a[w] <= b[w] /\ a[w] <= a[TopIntent(a)]
  BY TopIntentIsBest
<1> QED
  BY <1>1, <1>2, <1>3, <1>4, <1>5

------------------------------------------------------------------------------
(* Sessions.                                                                *)

\* The client keeps its stack.
StackFixed == stack \in Stacks

LEMMA StackNeverChanges == Spec => []StackFixed
<1>1. Init => StackFixed
  BY DEF Init, StackFixed
<1>2. StackFixed /\ [Next]_vars => StackFixed'
  BY DEF StackFixed, Next, vars, Request, Expire
<1> QED
  BY <1>1, <1>2, PTL DEF Spec

\* An aggregate of finitely many rows has natural counts, and counts the request
\* being handled.
LEMMA AggregateType ==
  ASSUME NEW rows, IsFiniteSet(rows)
  PROVE  /\ IsVelocity(Aggregate(rows))
         /\ Aggregate(rows).requests = Cardinality(rows) + 1 /\ Aggregate(rows).requests >= 1
         /\ Aggregate(rows).distinct_paths >= 1
         /\ Aggregate(rows).not_found \in Nat
         /\ Aggregate(rows).not_found < Aggregate(rows).requests
<1> DEFINE paths   == {r.path : r \in rows}
           names   == {r.username_hash : r \in rows}
           missing == {r \in rows : r.status = 404}
<1>1. IsFiniteSet(paths) /\ IsFiniteSet(names)
  <2> DEFINE pathOf == [r \in rows |-> r.path]
             nameOf == [r \in rows |-> r.username_hash]
  <2>1. pathOf \in Surjection(rows, paths) /\ nameOf \in Surjection(rows, names)
    BY DEF Surjection
  <2> QED
    BY <2>1, FS_Surjection
<1>2. IsFiniteSet(names \ {None}) /\ IsFiniteSet(missing)
      /\ Cardinality(missing) <= Cardinality(rows)
  BY <1>1, FS_Subset
<1>3. /\ Cardinality(rows) \in Nat /\ Cardinality(paths) \in Nat
      /\ Cardinality(names \ {None}) \in Nat /\ Cardinality(missing) \in Nat
  BY <1>1, <1>2, FS_CardinalityType
<1>4. /\ Aggregate(rows).requests = Cardinality(rows) + 1
      /\ Aggregate(rows).distinct_paths = AtLeastOne(Cardinality(paths))
      /\ Aggregate(rows).distinct_usernames = Cardinality(names \ {None})
      /\ Aggregate(rows).not_found = Cardinality(missing)
  BY DEF Aggregate
<1> HIDE DEF paths, names, missing
<1> QED
  BY <1>2, <1>3, <1>4 DEF AtLeastOne, IsVelocity

\* More rows, no smaller aggregates.
LEMMA AggregateGrows ==
  ASSUME NEW more, IsFiniteSet(more), NEW rows \in SUBSET more
  PROVE  /\ Aggregate(rows).requests <= Aggregate(more).requests
         /\ Aggregate(rows).distinct_paths <= Aggregate(more).distinct_paths
         /\ Aggregate(rows).distinct_usernames <= Aggregate(more).distinct_usernames
<1> DEFINE pathsOf(R) == {r.path : r \in R}
           namesOf(R) == {r.username_hash : r \in R} \ {None}
           pathOf     == [r \in more |-> r.path]
           nameOf     == [r \in more |-> r.username_hash]
<1>1. IsFiniteSet(pathsOf(more)) /\ IsFiniteSet(namesOf(more))
  <2>1. /\ pathOf \in Surjection(more, pathsOf(more))
        /\ nameOf \in Surjection(more, {r.username_hash : r \in more})
    BY DEF Surjection
  <2> QED
    BY <2>1, FS_Surjection, FS_Subset
<1>2. pathsOf(rows) \subseteq pathsOf(more) /\ namesOf(rows) \subseteq namesOf(more)
  OBVIOUS
<1>3. /\ Cardinality(rows) <= Cardinality(more)
      /\ Cardinality(pathsOf(rows)) <= Cardinality(pathsOf(more))
      /\ Cardinality(namesOf(rows)) <= Cardinality(namesOf(more))
      /\ IsFiniteSet(rows) /\ IsFiniteSet(pathsOf(rows)) /\ IsFiniteSet(namesOf(rows))
  BY <1>1, <1>2, FS_Subset
<1>4. /\ Cardinality(rows) \in Nat /\ Cardinality(more) \in Nat
      /\ Cardinality(pathsOf(rows)) \in Nat /\ Cardinality(pathsOf(more)) \in Nat
  BY <1>1, <1>3, FS_CardinalityType
<1>5. ASSUME NEW R
      PROVE  /\ Aggregate(R).requests = Cardinality(R) + 1
             /\ Aggregate(R).distinct_paths = AtLeastOne(Cardinality(pathsOf(R)))
             /\ Aggregate(R).distinct_usernames = Cardinality(namesOf(R))
  BY DEF Aggregate
<1> HIDE DEF pathsOf, namesOf
<1> QED
  BY <1>3, <1>4, <1>5 DEF AtLeastOne

\* What is known of the window: at most MaxSent rows, one per request.
WindowInv == window \in Seq(Columns) /\ Len(window) <= MaxSent

RowsOf(w) == {Row(w, i) : i \in 1 .. Len(w)}

LEMMA RowsFinite ==
  ASSUME NEW w \in Seq(Columns)
  PROVE  IsFiniteSet(RowsOf(w))
<1> DEFINE row == [i \in 1 .. Len(w) |-> Row(w, i)]
<1>1. row \in Surjection(1 .. Len(w), RowsOf(w))
  BY DEF Surjection, RowsOf
<1>2. IsFiniteSet(1 .. Len(w))
  BY FS_Interval
<1> QED
  BY <1>1, <1>2, FS_Surjection

LEMMA WindowTyping == Spec => []WindowInv
<1>1. Init => WindowInv
  BY BoundAssumption DEF Init, WindowInv
<1>2. WindowInv /\ [Next]_vars => WindowInv'
  <2> SUFFICES ASSUME WindowInv, [Next]_vars PROVE WindowInv'
    OBVIOUS
  <2>1. CASE Request
    <3>1. PICK target \in Targets, user \in Users \union {None}, agent \in Agents \union {None} :
            /\ Len(window) < MaxSent
            /\ window' = Append(window, [ path |-> target.path, username_hash |-> user,
                                          ua_raw |-> agent, status |-> DecoyStatus(target) ])
      BY <2>1 DEF Request
    <3>2. DecoyStatus(target) \in {200, 401, 404}
      BY StatusAssumption DEF DecoyStatus
    <3>3. [ path |-> target.path, username_hash |-> user, ua_raw |-> agent,
            status |-> DecoyStatus(target) ] \in Columns
      BY <3>2 DEF Columns
    <3> QED
      BY <3>1, <3>3, AppendProperties, BoundAssumption DEF WindowInv
  <2>2. CASE Expire
    <3>1. PICK n \in 1 .. Len(window) : window' = SubSeq(window, n + 1, Len(window))
      BY <2>2 DEF Expire
    <3>2. Len(window) \in Nat /\ \A i \in n + 1 .. Len(window) : window[i] \in Columns
      BY DEF WindowInv
    <3>3. window' \in Seq(Columns) /\ Len(window') <= Len(window)
      BY <3>1, <3>2, SubSeqProperties
    <3> QED
      BY <3>3, BoundAssumption DEF WindowInv
  <2>3. CASE UNCHANGED vars
    BY <2>3 DEF vars, WindowInv
  <2> QED
    BY <2>1, <2>2, <2>3 DEF Next
<1> QED
  BY <1>1, <1>2, PTL DEF Spec

\* The velocity of a window counts the request being handled, which no 404 of
\* the window can be (storage.py:142-171).
THEOREM SessionTyping == Spec => []TypeOK
<1>1. StackFixed /\ WindowInv => TypeOK
  <2> SUFFICES ASSUME StackFixed, WindowInv PROVE TypeOK
    OBVIOUS
  <2>1. Velocity = Aggregate(RowsOf(window)) /\ IsFiniteSet(RowsOf(window))
    BY RowsFinite DEF WindowInv, Velocity, VelocityOf, RowsOf
  <2>2. Velocity.not_found < Velocity.requests
    BY <2>1, AggregateType
  <2> QED
    BY <2>2 DEF TypeOK, StackFixed, WindowInv
<1> QED
  BY <1>1, StackNeverChanges, WindowTyping, PTL

\* What the scores need to know of a stack, of a target and of a claim.
LEMMA PrintType ==
  ASSUME NEW s \in Stacks
  PROVE  IsFingerprint(StackPrint[s])
BY PrintIsScorable DEF StackPrint

LEMMA ClaimIsRead ==
  ASSUME NEW s \in Stacks
  PROVE  /\ StackPrint[s].declared_crawler = DeclaredCrawler(s.ua)
         /\ StackPrint[s].declared_crawler # None <=> Claiming(s)
<1>1. StackPrint[s].declared_crawler = DeclaredCrawler(s.ua)
  BY DEF StackPrint, BuildFingerprint
<1>2. CASE Claiming(s)
  BY <1>1, <1>2, CrawlerHostsAssumption DEF Claiming, DeclaredCrawler
<1>3. CASE ~Claiming(s)
  BY <1>1, <1>3 DEF Claiming, DeclaredCrawler
<1> QED
  BY <1>1, <1>2, <1>3

LEMMA SessionScoresType ==
  ASSUME NEW s \in Stacks, NEW target \in Targets
  PROVE  ScoresOf(s, target) \in ScoreBoards
<1>1. IsRequest(target)
  BY TargetAssumption DEF IsRequest
<1> QED
  BY <1>1, PrintType, ScoresType DEF ScoresOf

\* Whatever headers a client copies, a handshake that contradicts them decides:
\* it is never a human, and gets the verdict any other such client gets.
THEOREM ForgeryIsFutile == Spec => []ForgedHeadersBuyNothing
<1>1. StackFixed => ForgedHeadersBuyNothing
  <2> SUFFICES ASSUME StackFixed, stack \in Forged, NEW target \in Targets
               PROVE  /\ Judge(target) # "likely_human"
                      /\ \A s \in Forged : JudgeAs(s, target) = Judge(target)
    BY DEF ForgedHeadersBuyNothing
  <2>1. IsRequest(target)
    BY TargetAssumption DEF IsRequest
  <2>2. \A s \in Forged : /\ IsFingerprint(StackPrint[s]) /\ Contradicted(StackPrint[s])
                          /\ StackPrint[s].declared_crawler = None
    BY PrintType, ClaimIsRead DEF Forged
  <2>3. Judge(target) # "likely_human"
    BY <2>1, <2>2, ContradictedIsNeverHuman DEF Judge, JudgeAs, ScoresOf, Classify
  <2>4. ASSUME NEW s \in Forged
        PROVE  JudgeAs(s, target) = Judge(target)
    BY <2>1, <2>2, ForgedHeadersDoNotMatter DEF Judge, JudgeAs, ScoresOf, Classify
  <2> QED
    BY <2>3, <2>4
<1> QED
  BY <1>1, StackNeverChanges, PTL

\* However much or little evidence of automation two clients leave, the same
\* behaviour and the same evidence of a human give the same intent verdict.
THEOREM AutomationIsNoAlibi == Spec => []AutomationNeverOutvotesIntent
<1>1. StackFixed => AutomationNeverOutvotesIntent
  <2> SUFFICES ASSUME StackFixed, NEW target \in Targets, ~Claiming(stack),
                      Decide[ScoresOf(stack, target)] \in IntentVerdicts,
                      NEW s \in Stacks, ~Claiming(s),
                      ScoresOf(s, target).likely_human = ScoresOf(stack, target).likely_human
               PROVE  Decide[ScoresOf(s, target)] = Decide[ScoresOf(stack, target)]
    BY DEF AutomationNeverOutvotesIntent
  <2> DEFINE mine   == ScoresOf(stack, target)
             theirs == ScoresOf(s, target)
  <2>1. mine \in ScoreBoards /\ theirs \in ScoreBoards
    BY SessionScoresType DEF StackFixed
  <2>2. /\ StackPrint[stack].declared_crawler = None
        /\ StackPrint[s].declared_crawler = None
    BY ClaimIsRead DEF StackFixed
  <2>3. \A v \in IntentVerdicts : theirs[v] = mine[v]
    BY <2>2, IntentsReadBehaviour DEF ScoresOf
  <2>4. mine.verified_crawler = 0 /\ theirs.verified_crawler = 0
    BY <2>2, NoClaimNoCrawler DEF ScoresOf
  <2>5. mine.likely_human = theirs.likely_human /\ Decide[mine] \in IntentVerdicts
    OBVIOUS
  <2> HIDE DEF mine, theirs
  <2>6. TopIntent(theirs) = TopIntent(mine)
    BY <2>1, <2>3, TopIntentReadsIntents
  <2>7. theirs[TopIntent(theirs)] = mine[TopIntent(mine)]
    BY <2>1, <2>3, <2>6, TopIntentIsBest
  <2>8. IntentWins(mine)
    BY <2>1, <2>4, <2>5 DEF Decide, IntentVerdicts
  <2>9. IntentWins(theirs)
    BY <2>5, <2>7, <2>8 DEF IntentWins
  <2>10. Decide[theirs] = Decide[mine]
    BY <2>1, <2>4, <2>6, <2>8, <2>9 DEF Decide
  <2> QED
    BY <2>10 DEF mine, theirs
<1> QED
  BY <1>1, StackNeverChanges, PTL

\* The verdict of a verified crawler goes to proven identities, to all of them
\* and to no one else, whatever they ask for and however they behave.
THEOREM IdentityIsProvenOrNothing == Spec => []IdentityOutranksBehaviour
<1>1. StackFixed => IdentityOutranksBehaviour
  <2> DEFINE proven == /\ Claiming(stack)
                       /\ VerifyCrawler(DeclaredCrawler(stack.ua), stack.host)
  <2> SUFFICES ASSUME StackFixed, NEW target \in Targets
               PROVE  Judge(target) = "verified_crawler" <=> proven
    BY DEF IdentityOutranksBehaviour
  <2> DEFINE fp == StackPrint[stack]
  <2>1. fp.declared_crawler # None /\ fp.crawler_verified <=> proven
    <3>1. fp.crawler_verified <=> fp.declared_crawler # None
                                  /\ VerifyCrawler(DeclaredCrawler(stack.ua), stack.host)
      BY DEF StackFixed, StackPrint, BuildFingerprint
    <3> QED
      BY <3>1, ClaimIsRead DEF StackFixed
  <2>2. IsRequest(target) /\ IsFingerprint(fp)
    BY PrintType, TargetAssumption DEF StackFixed, IsRequest
  <2> QED
    BY <2>1, <2>2, VerifiedExactlyWhenProven DEF Judge, JudgeAs, ScoresOf, Classify
<1> QED
  BY <1>1, StackNeverChanges, PTL

------------------------------------------------------------------------------
(* How an attack verdict may be lost.                                       *)

LEMMA VelocityType ==
  ASSUME NEW w \in Seq(Columns)
  PROVE  /\ IsVelocity(VelocityOf(w))
         /\ VelocityOf(w).requests >= 1 /\ VelocityOf(w).distinct_paths >= 1
<1>1. VelocityOf(w) = Aggregate(RowsOf(w)) /\ IsFiniteSet(RowsOf(w))
  BY RowsFinite DEF VelocityOf, RowsOf
<1> QED
  BY <1>1, AggregateType

\* A request adds a row and leaves the others as they were.
LEMMA WindowGrows ==
  ASSUME WindowInv, WindowInv', Request
  PROVE  /\ Velocity.requests <= Velocity'.requests
         /\ Velocity.distinct_paths <= Velocity'.distinct_paths
         /\ Velocity.distinct_usernames <= Velocity'.distinct_usernames
<1>1. PICK row : window' = Append(window, row)
  BY DEF Request
<1>2. Len(window) \in Nat /\ Len(window') = Len(window) + 1
  BY <1>1 DEF WindowInv
<1>3. \A i \in 1 .. Len(window) : window'[i] = window[i]
  BY <1>1 DEF WindowInv
<1>4. RowsOf(window) \subseteq RowsOf(window')
  <2>1. \A i \in 1 .. Len(window) : Row(window, i) = Row(window', i)
    BY <1>3 DEF Row
  <2>2. \A i \in 1 .. Len(window) : i \in 1 .. Len(window')
    BY <1>2
  <2> QED
    BY <2>1, <2>2 DEF RowsOf
<1>5. IsFiniteSet(RowsOf(window'))
  BY RowsFinite DEF WindowInv
<1>6. Velocity = Aggregate(RowsOf(window)) /\ Velocity' = Aggregate(RowsOf(window'))
  BY DEF Velocity, VelocityOf, RowsOf
<1> QED
  BY <1>4, <1>5, <1>6, AggregateGrows

\* A request that would have been judged an attack is let through as human one
\* step later only if a request diluted the share of 404 answers or turned the
\* sweep into an enumeration, or rows that left the window took something held
\* against the client with them (classify over velocity_for, storage.py:142-171).
THEOREM NoOtherRehabilitation == Spec => RehabilitatedOnlyBy
<1> DEFINE Kept == \A target \in Suspected : JudgeAfter(stack', target, Velocity') # "likely_human"
           Asked == /\ Len(window') > Len(window)
                    /\ \/ Grinding /\ ~Grinding'
                       \/ Sweeping /\ Enumerating'
           Dropped == \/ Enumerating /\ ~Enumerating'
                      \/ Sweeping /\ ~Sweeping'
                      \/ Grinding /\ ~Grinding'
                      \/ Stuffing /\ ~Stuffing'
                      \/ Guessing /\ ~Guessing'
                      \/ Hammering /\ ~Hammering'
                      \/ ~Calm /\ Calm'
           Left == Len(window') < Len(window) /\ Dropped
<1>1. StackFixed /\ WindowInv /\ WindowInv' /\ [Next]_vars => [Kept \/ Asked \/ Left]_vars
  <2> SUFFICES ASSUME StackFixed, WindowInv, WindowInv', Next, ~Asked, ~Left,
                      NEW target \in Targets, Judge(target) \in IntentVerdicts
               PROVE  JudgeAfter(stack', target, Velocity') # "likely_human"
    BY DEF Suspected
  <2> DEFINE fp == StackPrint[stack]
  <2>1. IsRequest(target) /\ IsFingerprint(fp)
    BY PrintType, TargetAssumption DEF StackFixed, IsRequest
  <2>2. Classify(target, fp, Velocity) \in IntentVerdicts
    BY DEF Judge, JudgeAs, ScoresOf, Classify
  <2>3. stack' = stack
    BY DEF Next, Request, Expire
  <2>4. IsVelocity(Velocity) /\ IsVelocity(Velocity')
    BY VelocityType DEF WindowInv, Velocity
  <2>5. ASSUME Request
        PROVE  Classify(target, fp, Velocity') \in IntentVerdicts
    <3>1. Len(window') > Len(window)
      BY <2>5 DEF Request, WindowInv
    <3>2. HighNotFoundRatio(Velocity) => HighNotFoundRatio(Velocity')
      BY <3>1 DEF Grinding
    <3>3. \/ Velocity'.distinct_paths < EnumerationPaths
          \/ Velocity.distinct_paths >= EnumerationPaths
          \/ Velocity.distinct_paths < SweepPaths
      BY <2>4, <3>1, ThresholdAssumption DEF Sweeping, Enumerating, IsVelocity
    <3> QED
      BY <2>1, <2>2, <2>4, <2>5, <3>2, <3>3, WindowGrows, LongerHistoryNeverExonerates
  <2>6. ASSUME Expire
        PROVE  Classify(target, fp, Velocity') \in IntentVerdicts
    <3>1. Len(window') < Len(window)
      <4>1. PICK n \in 1 .. Len(window) : window' = SubSeq(window, n + 1, Len(window))
        BY <2>6 DEF Expire
      <4>2. Len(window) \in Nat /\ \A i \in n + 1 .. Len(window) : window[i] \in Columns
        BY DEF WindowInv
      <4> QED
        BY <4>1, <4>2, SubSeqProperties
    <3>2. ~Dropped
      BY <3>1
    <3>3. /\ Velocity.distinct_paths \in Nat /\ Velocity'.distinct_paths \in Nat
          /\ SweepPaths \in Nat /\ EnumerationPaths \in Nat
      BY <2>4, ThresholdAssumption DEF IsVelocity
    <3>4. HeldAgain(Velocity, Velocity')
      BY <3>2, <3>3
      DEF HeldAgain, Enumerating, Sweeping, Grinding, Stuffing, Guessing, Hammering, Calm
    <3> QED
      BY <2>1, <2>2, <2>4, <3>4, HeldAgainIsJudgedAgain
  <2>7. Classify(target, fp, Velocity') \in IntentVerdicts
    BY <2>5, <2>6 DEF Next
  <2> QED
    BY <2>3, <2>7 DEF JudgeAfter, IntentVerdicts
<1> QED
  BY <1>1, StackNeverChanges, WindowTyping, PTL DEF Spec, RehabilitatedOnlyBy

\* What the sensor would call an attack from a client it has never seen, it calls
\* an attack from every client with that stack, whatever its window holds.
THEOREM NothingLaundersAnAttack == Spec => []HistoryNeverLaunders
<1>1. StackFixed /\ WindowInv => HistoryNeverLaunders
  <2> DEFINE fp    == StackPrint[stack]
             fresh == VelocityOf(<<>>)
  <2> SUFFICES ASSUME StackFixed, WindowInv, NEW target \in Targets,
                      JudgeAfter(stack, target, fresh) \in IntentVerdicts
               PROVE  Judge(target) \in IntentVerdicts
    BY DEF HistoryNeverLaunders
  <2>1. IsRequest(target) /\ IsFingerprint(fp)
    BY PrintType, TargetAssumption DEF StackFixed, IsRequest
  <2>2. /\ fresh.requests = 1 /\ fresh.distinct_paths = 1
        /\ fresh.distinct_usernames = 0 /\ IsVelocity(fresh)
    <3> DEFINE paths == {r.path : r \in {}}
               names == {r.username_hash : r \in {}} \ {None}
    <3>1. {Row(<<>>, i) : i \in 1 .. Len(<<>>)} = {}
      OBVIOUS
    <3>2. fresh = Aggregate({})
      BY <3>1 DEF VelocityOf
    <3>3. /\ fresh.requests = Cardinality({}) + 1
          /\ fresh.distinct_paths = AtLeastOne(Cardinality(paths))
          /\ fresh.distinct_usernames = Cardinality(names)
      BY <3>2 DEF Aggregate
    <3>4. paths = {} /\ names = {}
      OBVIOUS
    <3>5. Cardinality({}) = 0
      BY FS_EmptySet
    <3> HIDE DEF fresh, paths, names
    <3> QED
      BY <3>3, <3>4, <3>5 DEF AtLeastOne, IsVelocity
  <2>3. ~HighNotFoundRatio(fresh) /\ fresh.distinct_paths < SweepPaths
    BY <2>2, ThresholdAssumption DEF HighNotFoundRatio
  <2>4. /\ IsVelocity(Velocity) /\ fresh.requests <= Velocity.requests
        /\ fresh.distinct_paths <= Velocity.distinct_paths
        /\ fresh.distinct_usernames <= Velocity.distinct_usernames
    BY <2>2, VelocityType DEF WindowInv, Velocity, IsVelocity
  <2>5. Classify(target, fp, fresh) \in IntentVerdicts
    BY DEF JudgeAfter
  <2> HIDE DEF fresh
  <2>6. Classify(target, fp, Velocity) \in IntentVerdicts
    BY <2>1, <2>2, <2>3, <2>4, <2>5, LongerHistoryNeverExonerates
  <2> QED
    BY <2>6 DEF Judge, JudgeAs, ScoresOf, Classify
<1> QED
  BY <1>1, StackNeverChanges, WindowTyping, PTL

------------------------------------------------------------------------------
(* How sure a verdict is.                                                   *)

\* Fractions keep their order under the cap.
LEMMA CapIsMonotone ==
  ASSUME NEW c \in Nat, NEW d \in Nat, NEW s \in Nat \ {0}, NEW t \in Nat \ {0},
         c * t <= d * s
  PROVE  ~Less(Capped(d, t), Capped(c, s))
<1>1. CASE 100 * d >= 99 * 320 * t
  <2>1. Capped(d, t) = [num |-> 99, den |-> 100]
    BY <1>1 DEF Capped
  <2>2. CASE 100 * c >= 99 * 320 * s
    BY <2>1, <2>2 DEF Capped, Less
  <2>3. CASE ~(100 * c >= 99 * 320 * s)
    <3>1. Capped(c, s) = [num |-> c, den |-> 320 * s]
      BY <2>3 DEF Capped
    <3> QED
      BY <2>1, <2>3, <3>1 DEF Less
  <2> QED
    BY <2>2, <2>3
<1>2. CASE ~(100 * d >= 99 * 320 * t)
  <2>1. Capped(d, t) = [num |-> d, den |-> 320 * t]
    BY <1>2 DEF Capped
  <2>2. CASE 100 * c >= 99 * 320 * s
    <3>1. (99 * 320 * s) * t <= (100 * c) * t
      BY <2>2
    <3>2. (100 * d) * s < (99 * 320 * t) * s
      BY <1>2
    <3>3. /\ (100 * c) * t = 100 * (c * t) /\ (100 * d) * s = 100 * (d * s)
          /\ (99 * 320 * s) * t = (99 * 320 * t) * s
      OBVIOUS
    <3>4. c * t \in Nat /\ d * s \in Nat /\ (99 * 320 * t) * s \in Nat
      OBVIOUS
    <3> QED
      BY <3>1, <3>2, <3>3, <3>4
  <2>3. CASE ~(100 * c >= 99 * 320 * s)
    <3>1. Capped(c, s) = [num |-> c, den |-> 320 * s]
      BY <2>3 DEF Capped
    <3>2. Less(Capped(d, t), Capped(c, s)) <=> d * (320 * s) < c * (320 * t)
      BY <2>1, <3>1 DEF Less
    <3>3. d * (320 * s) = 320 * (d * s) /\ c * (320 * t) = 320 * (c * t)
      OBVIOUS
    <3>4. c * t \in Nat /\ d * s \in Nat
      OBVIOUS
    <3> QED
      BY <3>2, <3>3, <3>4
  <2> QED
    BY <2>2, <2>3
<1> QED
  BY <1>1, <1>2

\* What is claimed is at least 0.3.
LEMMA CapIsInRange ==
  ASSUME NEW c \in Nat, NEW s \in Nat \ {0}, 96 * s <= c
  PROVE  /\ ~Less(Capped(c, s), [num |-> 3, den |-> 10])
         /\ ~Less([num |-> 99, den |-> 100], Capped(c, s))
BY DEF Less, Capped

\* One more half point for an intent that has top of them, runnerUp for the
\* next one, and weight for its magnitude and the corroboration.
LEMMA MarginGrows ==
  ASSUME NEW top \in Nat, NEW runnerUp \in Nat, NEW weight \in Nat, NEW more \in Nat,
         weight <= more
  PROVE  (112 * top + 80 * (top - runnerUp) + top * weight) * (top + 1)
         <= (112 * (top + 1) + 80 * ((top + 1) - runnerUp) + (top + 1) * more) * top
<1> DEFINE square == top * (top + 1)
<1>1. square \in Nat
  OBVIOUS
<1>2. (112 * top + 80 * (top - runnerUp) + top * weight) * (top + 1)
      = 192 * square - 80 * (runnerUp * (top + 1)) + square * weight
  OBVIOUS
<1>3. (112 * (top + 1) + 80 * ((top + 1) - runnerUp) + (top + 1) * more) * top
      = 192 * square - 80 * (runnerUp * top) + square * more
  OBVIOUS
<1>4. square * weight <= square * more
  BY <1>1
<1>5. runnerUp * (top + 1) = runnerUp * top + runnerUp
  OBVIOUS
<1>6. runnerUp * top \in Nat /\ square * weight \in Nat /\ square * more \in Nat
  BY <1>1
<1> HIDE DEF square
<1> QED
  BY <1>1, <1>2, <1>3, <1>4, <1>5, <1>6

Weight(scores) == 5 * AtMost(scores[TopIntent(scores)], 16)
                  + 3 * AtMost(scores.unclassified_automation, 16)

\* A score board has natural scores and a runner-up no better than the top.
LEMMA ScoreTypes ==
  ASSUME NEW S \in ScoreBoards
  PROVE  /\ S[TopIntent(S)] \in Nat /\ S.unclassified_automation \in Nat
         /\ S.likely_human \in Nat /\ S.verified_crawler \in Nat
         /\ RunnerUp(S) \in Nat /\ RunnerUp(S) <= S[TopIntent(S)]
         /\ Weight(S) \in Nat
<1>1. /\ S[TopIntent(S)] \in Nat /\ S.unclassified_automation \in Nat
      /\ S.likely_human \in Nat /\ S.verified_crawler \in Nat
  BY TopIntentIsBest DEF ScoreBoards, Verdicts
<1>2. RunnerUp(S) \in Nat /\ RunnerUp(S) <= S[TopIntent(S)]
  <2>1. \A v \in IntentVerdicts : S[v] <= S[v]
    BY DEF ScoreBoards, Verdicts
  <2> QED
    BY <2>1, RunnerUpReadsOthers
<1>3. Weight(S) \in Nat
  BY <1>1 DEF Weight, AtMost
<1> QED
  BY <1>1, <1>2, <1>3

LEMMA ClaimedForIntent ==
  ASSUME NEW S \in ScoreBoards, IntentWins(S)
  PROVE  /\ Scale(S) = S[TopIntent(S)] /\ Scale(S) \in Nat \ {0}
         /\ Claimed(S) = 112 * S[TopIntent(S)] + 80 * (S[TopIntent(S)] - RunnerUp(S))
                         + S[TopIntent(S)] * Weight(S)
         /\ Claimed(S) \in Nat /\ 96 * Scale(S) <= Claimed(S)
<1>1. Scale(S) = S[TopIntent(S)] /\ Scale(S) \in Nat \ {0}
  BY ScoreTypes DEF Scale, IntentWins
<1>2. Claimed(S) = 112 * S[TopIntent(S)] + 80 * (S[TopIntent(S)] - RunnerUp(S))
                   + S[TopIntent(S)] * Weight(S)
  BY DEF Claimed, Weight
<1>3. ASSUME NEW top \in Nat, NEW next \in Nat, NEW weight \in Nat, next <= top
      PROVE  /\ 112 * top + 80 * (top - next) + top * weight \in Nat
             /\ 96 * top <= 112 * top + 80 * (top - next) + top * weight
  <2>1. top * weight \in Nat
    OBVIOUS
  <2> QED
    BY <1>3, <2>1
<1> QED
  BY <1>1, <1>2, <1>3, ScoreTypes

LEMMA ClaimedForOthers ==
  ASSUME NEW S \in ScoreBoards, ~IntentWins(S)
  PROVE  /\ Scale(S) = 1
         /\ Claimed(S) = IF S.unclassified_automation > S.likely_human
                         THEN 112 + 10 * AtMost(S.unclassified_automation, 16)
                         ELSE IF S.likely_human = 0 THEN 96
                         ELSE 112 + 10 * AtMost(S.likely_human, 16)
         /\ Claimed(S) \in Nat /\ 96 <= Claimed(S)
BY ScoreTypes DEF Scale, Claimed, AtMost

\* What the verdict says about the scores.
LEMMA VerdictSays ==
  ASSUME NEW S \in ScoreBoards
  PROVE  /\ Decide[S] = "verified_crawler" <=> S.verified_crawler > 0
         /\ Decide[S] \in IntentVerdicts <=> S.verified_crawler = 0 /\ IntentWins(S)
         /\ Decide[S] \in IntentVerdicts => Decide[S] = TopIntent(S)
         /\ Decide[S] = "unclassified_automation"
            <=> /\ S.verified_crawler = 0 /\ ~IntentWins(S)
                /\ S.unclassified_automation > S.likely_human
         /\ Decide[S] = "likely_human"
            <=> /\ S.verified_crawler = 0 /\ ~IntentWins(S)
                /\ ~(S.unclassified_automation > S.likely_human)
BY TopIntentIsBest, ScoreTypes DEF Decide, IntentVerdicts

LEMMA ConfidenceInRange ==
  ASSUME NEW S \in ScoreBoards
  PROVE  /\ ~Less(Confidence[S], [num |-> 3, den |-> 10])
         /\ ~Less([num |-> 99, den |-> 100], Confidence[S])
<1>1. CASE S.verified_crawler > 0
  BY <1>1 DEF Confidence, Less
<1>2. CASE ~(S.verified_crawler > 0)
  <2>1. Confidence[S] = Capped(Claimed(S), Scale(S))
    BY <1>2 DEF Confidence
  <2>2. Claimed(S) \in Nat /\ Scale(S) \in Nat \ {0} /\ 96 * Scale(S) <= Claimed(S)
    BY ClaimedForIntent, ClaimedForOthers
  <2> QED
    BY <2>1, <2>2, CapIsInRange
<1> QED
  BY <1>1, <1>2

\* One more half point of evidence for the verdict.
LEMMA OwnEvidenceAddsConfidence ==
  ASSUME NEW S \in ScoreBoards, NEW R \in ScoreBoards, NEW verdict,
         verdict = Decide[S], R[verdict] = S[verdict] + 1,
         \A v \in Verdicts \ {verdict} : R[v] = S[v]
  PROVE  ~Less(Confidence[R], Confidence[S])
<1>1. /\ verdict \in Verdicts /\ R[verdict] = S[verdict] + 1
      /\ \A v \in Verdicts \ {verdict} : R[v] = S[v]
  BY DecideIsTotal
<1>2. CASE verdict = "verified_crawler"
  <2>1. S.verified_crawler > 0 /\ S.verified_crawler \in Nat
    BY <1>2, VerdictSays, ScoreTypes
  <2>2. R.verified_crawler = S.verified_crawler + 1
    BY <1>1, <1>2
  <2>3. R.verified_crawler > 0
    BY <2>1, <2>2
  <2> QED
    BY <2>1, <2>3 DEF Confidence, Less
<1>3. ASSUME verdict # "verified_crawler"
      PROVE  /\ Confidence[S] = Capped(Claimed(S), Scale(S))
             /\ Confidence[R] = Capped(Claimed(R), Scale(R))
  <2>1. S.verified_crawler = 0
    BY <1>3, VerdictSays, ScoreTypes
  <2>2. R.verified_crawler = 0
    BY <1>1, <1>3, <2>1 DEF Verdicts
  <2> QED
    BY <2>1, <2>2 DEF Confidence
<1>4. CASE verdict \in IntentVerdicts
  <2>1. IntentWins(S) /\ verdict = TopIntent(S)
    BY <1>4, VerdictSays
  <2>2. \A v \in IntentVerdicts \ {verdict} : R[v] = S[v] /\ S[v] \in Nat
    BY <1>1 DEF Verdicts, ScoreBoards
  <2>3. TopIntent(R) = TopIntent(S)
    BY <1>1, <2>1, <2>2, TopIntentKept, ScoreTypes
  <2>4. RunnerUp(R) = RunnerUp(S)
    <3>1. RunnerUp(R) <= RunnerUp(S) /\ RunnerUp(S) <= RunnerUp(R)
      BY <2>1, <2>2, <2>3, RunnerUpReadsOthers
    <3> QED
      BY <3>1, ScoreTypes
  <2>5. /\ R.unclassified_automation = S.unclassified_automation
        /\ R.likely_human = S.likely_human
    BY <1>1, <1>4 DEF Verdicts, IntentVerdicts
  <2> DEFINE top == S[TopIntent(S)]
  <2>6. R[TopIntent(R)] = top + 1
    BY <1>1, <2>1, <2>3
  <2>7. IntentWins(R)
    BY <2>1, <2>5, <2>6, ScoreTypes DEF IntentWins
  <2>8. Weight(S) <= Weight(R)
    BY <2>5, <2>6, ScoreTypes DEF Weight, AtMost
  <2>9. /\ Scale(S) = top /\ Scale(R) = top + 1
        /\ Claimed(S) = 112 * top + 80 * (top - RunnerUp(S)) + top * Weight(S)
        /\ Claimed(R) = 112 * (top + 1) + 80 * ((top + 1) - RunnerUp(S)) + (top + 1) * Weight(R)
    <3>1. /\ Scale(S) = top
          /\ Claimed(S) = 112 * top + 80 * (top - RunnerUp(S)) + top * Weight(S)
      BY <2>1, ClaimedForIntent
    <3>2. /\ Scale(R) = R[TopIntent(R)]
          /\ Claimed(R) = 112 * R[TopIntent(R)] + 80 * (R[TopIntent(R)] - RunnerUp(R))
                          + R[TopIntent(R)] * Weight(R)
      BY <2>7, ClaimedForIntent
    <3> HIDE DEF top
    <3> QED
      BY <2>4, <2>6, <3>1, <3>2
  <2>10. Claimed(S) * Scale(R) <= Claimed(R) * Scale(S)
    BY <2>8, <2>9, MarginGrows, ScoreTypes
  <2>11. /\ Claimed(S) \in Nat /\ Scale(S) \in Nat \ {0}
         /\ Claimed(R) \in Nat /\ Scale(R) \in Nat \ {0}
    BY <2>1, <2>7, ClaimedForIntent
  <2> QED
    BY <1>3, <1>4, <2>10, <2>11, CapIsMonotone DEF IntentVerdicts
<1>5. CASE verdict \in {"unclassified_automation", "likely_human"}
  <2>1. S.verified_crawler = 0 /\ ~IntentWins(S)
    BY <1>5, VerdictSays
  <2>2. \A v \in IntentVerdicts : R[v] = S[v]
    BY <1>1, <1>5 DEF Verdicts, IntentVerdicts
  <2>3. TopIntent(R) = TopIntent(S) /\ R[TopIntent(R)] = S[TopIntent(S)]
    BY <2>2, TopIntentReadsIntents, TopIntentIsBest
  <2>4. R.likely_human >= S.likely_human
    BY <1>1, ScoreTypes DEF Verdicts
  <2>5. ~IntentWins(R)
    BY <2>1, <2>3, <2>4, ScoreTypes DEF IntentWins
  <2>6. Claimed(S) <= Claimed(R)
    <3>1. CASE verdict = "unclassified_automation"
      <4>1. S.unclassified_automation > S.likely_human
        BY <3>1, VerdictSays
      <4>2. R.unclassified_automation = S.unclassified_automation + 1
            /\ R.likely_human = S.likely_human
        BY <1>1, <3>1 DEF Verdicts
      <4> QED
        BY <2>1, <2>5, <4>1, <4>2, ClaimedForOthers, ScoreTypes DEF AtMost
    <3>2. CASE verdict = "likely_human"
      <4>1. ~(S.unclassified_automation > S.likely_human)
        BY <3>2, VerdictSays
      <4>2. R.unclassified_automation = S.unclassified_automation
            /\ R.likely_human = S.likely_human + 1
        BY <1>1, <3>2 DEF Verdicts
      <4> QED
        BY <2>1, <2>5, <4>1, <4>2, ClaimedForOthers, ScoreTypes DEF AtMost
    <3> QED
      BY <1>5, <3>1, <3>2
  <2>7. /\ Scale(S) = 1 /\ Scale(R) = 1 /\ Claimed(S) \in Nat /\ Claimed(R) \in Nat
    BY <2>1, <2>5, ClaimedForOthers
  <2>8. Claimed(S) * Scale(R) <= Claimed(R) * Scale(S)
    BY <2>6, <2>7
  <2> QED
    BY <1>3, <1>5, <2>7, <2>8, CapIsMonotone
<1> QED
  BY <1>1, <1>2, <1>4, <1>5 DEF Verdicts

\* One more half point of evidence for another intent.
LEMMA RivalEvidenceCostsConfidence ==
  ASSUME NEW S \in ScoreBoards, NEW R \in ScoreBoards,
         NEW rival \in IntentVerdicts \ {Decide[S]},
         R[rival] = S[rival] + 1, \A v \in Verdicts \ {rival} : R[v] = S[v],
         Decide[R] = Decide[S]
  PROVE  ~Less(Confidence[S], Confidence[R])
<1>1. /\ \A v \in Verdicts \ {rival} : R[v] = S[v]
      /\ \A v \in Verdicts : S[v] <= R[v] /\ S[v] \in Nat /\ R[v] \in Nat
  <2>1. \A v \in Verdicts : S[v] \in Nat /\ R[v] \in Nat
    BY DEF ScoreBoards
  <2> QED
    BY <2>1
<1>2. /\ R.verified_crawler = S.verified_crawler
      /\ R.likely_human = S.likely_human
      /\ R.unclassified_automation = S.unclassified_automation
  BY <1>1 DEF Verdicts, IntentVerdicts
<1>3. CASE S.verified_crawler > 0
  BY <1>2, <1>3 DEF Confidence, Less
<1>4. CASE S.verified_crawler = 0 /\ IntentWins(S)
  <2>1. /\ IntentWins(R) /\ TopIntent(R) = TopIntent(S) /\ Decide[S] = TopIntent(S)
    BY <1>4, VerdictSays
  <2>2. R[TopIntent(R)] = S[TopIntent(S)]
    BY <1>1, <2>1, TopIntentIsBest DEF Verdicts
  <2>3. RunnerUp(S) <= RunnerUp(R)
    BY <1>1, <2>1, RunnerUpReadsOthers DEF Verdicts
  <2>4. Weight(R) = Weight(S)
    BY <1>2, <2>2 DEF Weight
  <2>5. /\ Scale(S) = Scale(R) /\ Scale(S) \in Nat \ {0}
        /\ Claimed(S) \in Nat /\ Claimed(R) \in Nat /\ Claimed(R) <= Claimed(S)
    <3>1. ASSUME NEW top \in Nat, NEW m \in Nat, NEW n \in Nat, NEW w \in Nat, m <= n
          PROVE  112 * top + 80 * (top - n) + top * w <= 112 * top + 80 * (top - m) + top * w
      <4>1. top * w \in Nat
        OBVIOUS
      <4> QED
        BY <3>1, <4>1
    <3>2. Scale(S) = Scale(R) /\ Scale(S) \in Nat \ {0} /\ Claimed(S) \in Nat /\ Claimed(R) \in Nat
      BY <1>4, <2>1, <2>2, ClaimedForIntent
    <3>3. /\ Claimed(S) = 112 * S[TopIntent(S)] + 80 * (S[TopIntent(S)] - RunnerUp(S))
                          + S[TopIntent(S)] * Weight(S)
          /\ Claimed(R) = 112 * S[TopIntent(S)] + 80 * (S[TopIntent(S)] - RunnerUp(R))
                          + S[TopIntent(S)] * Weight(S)
      BY <1>4, <2>1, <2>2, <2>4, ClaimedForIntent
    <3>4. /\ S[TopIntent(S)] \in Nat /\ RunnerUp(S) \in Nat /\ RunnerUp(R) \in Nat
          /\ Weight(S) \in Nat
      BY ScoreTypes
    <3> QED
      BY <2>3, <3>1, <3>2, <3>3, <3>4
  <2>6. Claimed(R) * Scale(S) <= Claimed(S) * Scale(R)
    BY <2>5
  <2>7. /\ Confidence[S] = Capped(Claimed(S), Scale(S))
        /\ Confidence[R] = Capped(Claimed(R), Scale(R))
    BY <1>2, <1>4 DEF Confidence
  <2> QED
    BY <2>5, <2>6, <2>7, CapIsMonotone
<1>5. CASE S.verified_crawler = 0 /\ ~IntentWins(S)
  <2>1. ~IntentWins(R)
    BY <1>2, <1>5, VerdictSays
  <2>2. Claimed(R) = Claimed(S) /\ Scale(R) = 1 /\ Scale(S) = 1 /\ Claimed(S) \in Nat
    BY <1>2, <1>5, <2>1, ClaimedForOthers
  <2>3. /\ Confidence[S] = Capped(Claimed(S), Scale(S))
        /\ Confidence[R] = Capped(Claimed(S), Scale(S))
    BY <1>2, <1>5, <2>2 DEF Confidence
  <2> QED
    BY <2>2, <2>3, CapIsMonotone
<1> QED
  BY <1>1, <1>3, <1>4, <1>5 DEF Verdicts

\* Every confidence lies in 0.3 .. 0.99; evidence for the verdict never lowers
\* it, evidence for another intent never raises it (classifier.py:403-430).
THEOREM ConfidenceIsEarned == Spec => []ConfidenceIsHonest
<1>1. StackFixed => ConfidenceIsHonest
  <2> SUFFICES ASSUME StackFixed, NEW target \in Targets,
                      NEW S, S = ScoresOf(stack, target)
               PROVE  /\ ~Less(Confidence[S], [num |-> 3, den |-> 10])
                      /\ ~Less([num |-> 99, den |-> 100], Confidence[S])
                      /\ ~Less(Confidence[[S EXCEPT ![Decide[S]] = @ + 1]], Confidence[S])
                      /\ \A v \in IntentVerdicts \ {Decide[S]} :
                           Decide[[S EXCEPT ![v] = @ + 1]] = Decide[S]
                           => ~Less(Confidence[S], Confidence[[S EXCEPT ![v] = @ + 1]])
    BY DEF ConfidenceIsHonest
  <2>1. S \in ScoreBoards
    BY SessionScoresType DEF StackFixed
  <2>2. ASSUME NEW v \in Verdicts
        PROVE  /\ [S EXCEPT ![v] = @ + 1] \in ScoreBoards
               /\ [S EXCEPT ![v] = @ + 1][v] = S[v] + 1
               /\ \A w \in Verdicts \ {v} : [S EXCEPT ![v] = @ + 1][w] = S[w]
    BY <2>1 DEF ScoreBoards
  <2>3. ~Less(Confidence[[S EXCEPT ![Decide[S]] = @ + 1]], Confidence[S])
    <3>1. Decide[S] \in Verdicts
      BY <2>1, DecideIsTotal
    <3> DEFINE verdict == Decide[S]
               R       == [S EXCEPT ![verdict] = @ + 1]
    <3>2. /\ R \in ScoreBoards /\ R[verdict] = S[verdict] + 1
          /\ \A w \in Verdicts \ {verdict} : R[w] = S[w]
      BY <2>2, <3>1
    <3>3. verdict = Decide[S]
      OBVIOUS
    <3> HIDE DEF verdict, R
    <3>4. ~Less(Confidence[R], Confidence[S])
      BY <2>1, <3>2, <3>3, OwnEvidenceAddsConfidence
    <3> QED
      BY <3>4 DEF verdict, R
  <2>4. ASSUME NEW v \in IntentVerdicts \ {Decide[S]},
               Decide[[S EXCEPT ![v] = @ + 1]] = Decide[S]
        PROVE  ~Less(Confidence[S], Confidence[[S EXCEPT ![v] = @ + 1]])
    <3>1. v \in Verdicts
      BY DEF Verdicts
    <3> DEFINE R == [S EXCEPT ![v] = @ + 1]
    <3>2. /\ R \in ScoreBoards /\ R[v] = S[v] + 1
          /\ \A w \in Verdicts \ {v} : R[w] = S[w]
      BY <2>2, <3>1
    <3>3. Decide[R] = Decide[S]
      BY <2>4
    <3> HIDE DEF R
    <3>4. ~Less(Confidence[S], Confidence[R])
      BY <2>1, <3>2, <3>3, RivalEvidenceCostsConfidence
    <3> QED
      BY <3>4 DEF R
  <2> QED
    BY <2>1, <2>3, <2>4, ConfidenceInRange
<1> QED
  BY <1>1, StackNeverChanges, PTL
==============================================================================
