------------------------------- MODULE Session -------------------------------
(***************************************************************************)
(* One client's session: a fixed client stack sends requests, the store    *)
(* keeps their rows, the rows of the last window_seconds make the velocity *)
(* and the classifier judges every request the client could send next.     *)
(*                                                                         *)
(* This is the long run of legal requests a table of unit tests cannot     *)
(* cover: which histories raise a verdict, and which lower one.  The rows  *)
(* leave the sliding window as they came, oldest first, some or all of     *)
(* them between two requests.  Module Sensor has the clock, several        *)
(* clients and the event loop.                                             *)
(***************************************************************************)
EXTENDS EventStore

CONSTANTS Stacks,       \* client stacks: [headers, ua, wildcard, lang, ja4, host]
          Targets,      \* what a client asks for: [method, path, exploits]
          Users,        \* user names tried
          Agents,       \* User-Agent strings of one family, which leave the identity as it is
          StrayPath,    \* stands for a path not asked for before in the window
          MaxSent       \* bound: rows in the window

ASSUME StrayAssumption ==
         StrayPath \notin ArtifactPaths \union AdminPaths \union LoginPaths
                          \union ContentPaths \union FailingLogins \union DOMAIN StaticStatus

ASSUME BoundAssumption == MaxSent \in Nat /\ None \notin Agents

ASSUME TargetAssumption == \A t \in Targets : t.exploits \in Nat

VARIABLES stack,     \* the client's stack
          window     \* its rows in the window, oldest first

vars == <<stack, window>>

Columns == [ path : {t.path : t \in Targets}, username_hash : Users \union {None},
             ua_raw : Agents \union {None}, status : {200, 401, 404} ]

\* The i-th row.  Its place tells it from its likes; a stray path is one of its own.
Row(w, i) ==
  [ id            |-> i,
    path          |-> <<w[i].path, IF w[i].path = StrayPath THEN i ELSE 0>>,
    username_hash |-> w[i].username_hash,
    ua_raw        |-> w[i].ua_raw,
    status        |-> w[i].status ]

\* EventStore.velocity_for over the rows of this client.
VelocityOf(w) == Aggregate({Row(w, i) : i \in 1 .. Len(w)})
Velocity      == VelocityOf(window)

\* The fingerprint reads the stack and the confirmed rDNS name only.
StackPrint == [s \in Stacks |-> BuildFingerprint(s, s.host)]

ScoresOf(s, target)    == Scores(target, StackPrint[s], Velocity)
JudgeAs(s, target)     == Decide[ScoresOf(s, target)]
Judge(target)          == JudgeAs(stack, target)

------------------------------------------------------------------------------
Init == stack \in Stacks /\ window = <<>>

\* EventStore.record of one request, judged before by the rows of the window.
\* Only a body carries a user name, and a client without User-Agent has no other.
Request ==
  \E target \in Targets, user \in Users \union {None}, agent \in Agents \union {None} :
    /\ Len(window) < MaxSent
    /\ user # None => target.method = "POST"
    /\ agent = None <=> stack.ua = {}
    /\ window' = Append(window, [ path |-> target.path, username_hash |-> user,
                                  ua_raw |-> agent, status |-> DecoyStatus(target) ])
    /\ UNCHANGED stack

\* Time passes the ts of the n oldest rows by more than the window.
Expire ==
  \E n \in 1 .. Len(window) :
    /\ window' = SubSeq(window, n + 1, Len(window))
    /\ UNCHANGED stack

Next == Request \/ Expire

Spec == Init /\ [][Next]_vars

------------------------------------------------------------------------------
TypeOK ==
  /\ stack \in Stacks
  /\ window \in Seq(Columns) /\ Len(window) <= MaxSent
  /\ Velocity.not_found < Velocity.requests

Claiming(s) == s.ua \cap CrawlerTokens # {}
Forged      == {s \in Stacks : Contradicted(StackPrint[s]) /\ ~Claiming(s)}

\* What the verdicts of a client whose TLS stack contradicts its User-Agent
\* depend on: only on what it does.  However many browser headers another such
\* client copied, the same request after the same history gets the same
\* verdict (_human_signals: forged evidence is discarded, not outweighed), and
\* never that of a human.
ForgedHeadersBuyNothing ==
  stack \in Forged =>
    \A target \in Targets :
      /\ Judge(target) # "likely_human"
      /\ \A s \in Forged : JudgeAs(s, target) = Judge(target)

\* Automation is a separate axis (classify): of two clients with the same
\* evidence of a human, neither escapes an intent verdict the other one gets,
\* however different the evidence of automation is.
AutomationNeverOutvotesIntent ==
  \A target \in Targets :
    LET mine == ScoresOf(stack, target)
    IN ~Claiming(stack) /\ Decide[mine] \in IntentVerdicts =>
         \A s \in Stacks :
           LET theirs == ScoresOf(s, target)
           IN ~Claiming(s) /\ theirs.likely_human = mine.likely_human
              => Decide[theirs] = Decide[mine]

\* A crawler whose identity is proven keeps its verdict whatever it asks for
\* and however long its history is; an unproven claim never gets it.
IdentityOutranksBehaviour ==
  LET proven == Claiming(stack) /\ VerifyCrawler(DeclaredCrawler(stack.ua), stack.host)
  IN \A target \in Targets : Judge(target) = "verified_crawler" <=> proven

Less(a, b) == a.num * b.den < b.num * a.den

\* Confidence stays within [0.3, 0.99] and is honest about its margin: one more
\* half point of evidence for the verdict never lowers it, one more half point
\* for the runner-up never raises it ("10 vs 9 shouldn't read like 10 vs 0").
ConfidenceIsHonest ==
  \A target \in Targets :
    LET S       == ScoresOf(stack, target)
        verdict == Decide[S]
        now     == Confidence[S]
    IN /\ ~Less(now, [num |-> 3, den |-> 10])
       /\ ~Less([num |-> 99, den |-> 100], now)
       /\ ~Less(Confidence[[S EXCEPT ![verdict] = @ + 1]], now)
       /\ \A v \in IntentVerdicts \ {verdict} :
            LET rival == [S EXCEPT ![v] = @ + 1]
            IN Decide[rival] = verdict => ~Less(now, Confidence[rival])

\* The verdict of a request of this stack after a history.
JudgeAfter(s, target, vel) == Classify(target, StackPrint[s], vel)

Suspected == {target \in Targets : Judge(target) \in IntentVerdicts}

\* What the velocity holds against a client, and for it.
Enumerating == Velocity.distinct_paths >= EnumerationPaths
Sweeping    == Velocity.distinct_paths >= SweepPaths /\ ~Enumerating
Grinding    == HighNotFoundRatio(Velocity)
Stuffing    == Velocity.distinct_usernames >= ManyUsernames
Guessing    == Velocity.distinct_usernames >= FewUsernames
Hammering   == Velocity.requests >= HighVolume
Calm        == Velocity.requests <= CalmRequests /\ Velocity.distinct_paths <= CalmPaths

\* How an attack verdict may be lost.  If a request that would have been given
\* an intent verdict would be let through as human after one more step, then
\* either that step is a request that diluted the share of 404 answers below the
\* threshold or carried the client from a sweep to an enumeration (path_sweep
\* and path_enumeration score different verdicts), or rows left the window and
\* took with them something the velocity held against the client, or left it as
\* calm as a new one.  Nothing else a client asks for rehabilitates it.
RehabilitatedOnlyBy ==
  [][ \/ \A target \in Suspected : JudgeAfter(stack', target, Velocity') # "likely_human"
      \/ /\ Len(window') > Len(window)
         /\ \/ Grinding /\ ~Grinding'
            \/ Sweeping /\ Enumerating'
      \/ /\ Len(window') < Len(window)
         /\ \/ Enumerating /\ ~Enumerating'
            \/ Sweeping /\ ~Sweeping'
            \/ Grinding /\ ~Grinding'
            \/ Stuffing /\ ~Stuffing'
            \/ Guessing /\ ~Guessing'
            \/ Hammering /\ ~Hammering'
            \/ ~Calm /\ Calm' ]_vars

\* No history launders an attack: a request that gets an intent verdict from a
\* client the sensor has never seen gets one from every client with the same
\* stack, whatever it has sent before and however much of that has left the
\* window.  Nothing a client can do first makes the classifier more lenient.
HistoryNeverLaunders ==
  \A target \in Targets :
    JudgeAfter(stack, target, VelocityOf(<<>>)) \in IntentVerdicts
      => Judge(target) \in IntentVerdicts

\* likely_human means a coherent browser and low velocity (README.md:63), and "a
\* spoofed browser UA shouldn't rescue an obvious directory sweep"
\* (test_classifier.py:142): a client that enumerates paths which mostly answer
\* 404 is never taken for a human, whatever browser it runs.
SweepIsNeverHuman ==
  Enumerating /\ Grinding
    => \A target \in Targets : Judge(target) # "likely_human"
==============================================================================
