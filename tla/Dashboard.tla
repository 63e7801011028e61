----------------------------- MODULE Dashboard -----------------------------
(***************************************************************************)
(* The dashboard page and the handlers behind it: load() of dashboard.html *)
(* with its timer and its window buttons, and api_summary and api_events   *)
(* of main.py, each of which runs to its end on the event loop.            *)
(*                                                                         *)
(* What an answer contains is judged at every state by the operators of    *)
(* Analytics; of an answer under way the state only keeps whether it still *)
(* has every row.                                                          *)
(***************************************************************************)
EXTENDS Analytics

CONSTANTS
  Kinds,          \* rows, the id and the time of which are still to be filled in
  Windows,        \* the hours of the buttons
  FirstWindow,    \* the window that is selected at first, 24
  Loads,          \* slots for calls of load() under way at once (bound)
  MaxTime, MaxRows, MaxRowsOnPage, MaxClicks, MaxFailures   \* bounds

ASSUME WindowAssumption == FirstWindow \in Windows /\ Windows \subseteq Nat

ASSUME KindAssumption == \A k \in Kinds : "ts" \in DOMAIN k

VARIABLES
  events, now,
  open,           \* whether a page is open
  hours,          \* the window selected on it
  loads,          \* the calls of load() under way
  shown,          \* what is drawn
  clicks, failures

vars == <<events, now, open, hours, loads, shown, clicks, failures>>

Idle == [hours |-> 0, summary |-> "waiting", recent |-> "waiting"]

Blank == [window |-> 0, subtitle |-> 0, complete |-> FALSE]

Begun(h) == \E l \in Loads :
  /\ loads[l] = Idle
  /\ loads' = [loads EXCEPT ![l].hours = h]

------------------------------------------------------------------------------
Init ==
  /\ events = {} /\ now = 0
  /\ open = FALSE /\ hours = FirstWindow
  /\ loads = [l \in Loads |-> Idle]
  /\ shown = Blank
  /\ clicks = 0 /\ failures = 0

\* The capture handler stores a row: answers that were given before lack it.
Record ==
  /\ Cardinality(events) < (IF open THEN MaxRowsOnPage ELSE MaxRows)
  /\ \E k \in Kinds :
        events' = events \union { [k EXCEPT !.id = Cardinality(events) + 1, !.ts = now] }
  /\ LET Aged(answer) == IF answer = "complete" THEN "short" ELSE answer
     IN loads' = [l \in Loads |-> [loads[l] EXCEPT !.summary = Aged(@), !.recent = Aged(@)]]
  /\ shown' = [shown EXCEPT !.complete = FALSE]
  /\ UNCHANGED <<now, open, hours, clicks, failures>>

\* Answers do not keep what the clock changes: it runs while no page is open.
Tick ==
  /\ now < MaxTime /\ ~open
  /\ now' = now + 1
  /\ UNCHANGED <<events, open, hours, loads, shown, clicks, failures>>

\* The script of the page: load(); setInterval(load, 15000).
Open ==
  /\ ~open /\ now = 0 /\ Cardinality(events) <= MaxRowsOnPage
  /\ open' = TRUE
  /\ Begun(hours)
  /\ UNCHANGED <<events, now, hours, shown, clicks, failures>>

\* Mutant: no timer.
TimerNever == FALSE

Timer ==
  /\ open
  /\ Begun(hours)
  /\ UNCHANGED <<events, now, open, hours, shown, clicks, failures>>

Click(h) ==
  /\ open /\ clicks < MaxClicks
  /\ hours' = h
  /\ Begun(h)
  /\ clicks' = clicks + 1
  /\ UNCHANGED <<events, now, open, shown, failures>>

\* One of the two handlers answers, with all the rows there are.
Serve(l) ==
  /\ loads[l] # Idle
  /\ \/ loads[l].summary = "waiting" /\ loads' = [loads EXCEPT ![l].summary = "complete"]
     \/ loads[l].recent = "waiting" /\ loads' = [loads EXCEPT ![l].recent = "complete"]
  /\ UNCHANGED <<events, now, open, hours, shown, clicks, failures>>

\* Both answers are there: drawn under the window that is selected by now.
Draw(l) ==
  /\ loads[l].summary # "waiting" /\ loads[l].recent # "waiting"
  /\ shown' = [ window |-> loads[l].hours, subtitle |-> hours,
                complete |-> loads[l].summary = "complete" /\ loads[l].recent = "complete" ]
  /\ loads' = [loads EXCEPT ![l] = Idle]
  /\ UNCHANGED <<events, now, open, hours, clicks, failures>>

\* A fetch is rejected, and load() with it; the page stays as it is.
FetchFails(l) ==
  /\ loads[l] # Idle /\ failures < MaxFailures
  /\ loads' = [loads EXCEPT ![l] = Idle]
  /\ failures' = failures + 1
  /\ UNCHANGED <<events, now, open, hours, shown, clicks>>

Next ==
  \/ Record \/ Tick \/ Open \/ Timer
  \/ \E h \in Windows : Click(h)
  \/ \E l \in Loads : Serve(l) \/ Draw(l) \/ FetchFails(l)

Spec == Init /\ [][Next]_vars

\* The interval fires for as long as the page is open; requests are answered.
FairSpec ==
  Spec /\ WF_vars(Timer) /\ \A l \in Loads : WF_vars(Serve(l)) /\ WF_vars(Draw(l))

------------------------------------------------------------------------------
Total(counts) == SumFunction(counts)

(* One answer of api_summary agrees with itself: if the clock stood still, the
   verdicts and the timeline add up to the total and the automated ones to the
   automated share, and the top lists to no more.  If it moved between the queries,
   what is asked later has lost rows off the beginning of the window, and gained none
   (main.py:95-108, storage.py:173-360). *)
AnswersAddUp ==
  \A h \in Windows, moved \in 1 .. 8 :
    LET a == Answer(events, h, [i \in 1 .. 7 |-> IF i < moved THEN now ELSE now + 1])
        buckets   == DOMAIN a.timeline
        automated == Total([b \in buckets |-> a.timeline[b].automated])
        drawn     == automated + Total([b \in buckets |-> a.timeline[b].legitimate])
        requests  == Total([s \in DOMAIN a.top_sources |-> a.top_sources[s].requests])
        judged    == Total([v \in DOMAIN a.verdicts \ Legitimate |-> a.verdicts[v]])
    IN /\ a.summary.events >= Total(a.verdicts) /\ Total(a.verdicts) >= drawn
       /\ drawn >= requests
       /\ Total(a.verdicts) >= Total(a.top_paths) /\ Total(a.top_paths) <= a.summary.events
       /\ a.summary.automated >= judged /\ judged >= automated
       /\ moved \in {1, 8} => /\ Total(a.verdicts) = a.summary.events
                              /\ drawn = a.summary.events
                              /\ automated = a.summary.automated
                              /\ judged = a.summary.automated

(* The timeline has three buckets or more whenever the window has rows of three
   different minutes, and it is never finer than it takes (storage.py:258-286). *)
TimelineIsAChart ==
  \A h \in Windows :
    LET w == Window(events, h, now)
    IN /\ Distinct(w, "ts") >= 3 => Cardinality(DOMAIN Timeline(w, h)) >= 3
       /\ \A width \in {Hour, Day} :
            (h > FineHours /\ (width = Day => h > HourlyHours)
              /\ Cardinality(Buckets(w, width)) >= 3) => Width(w, h) >= width

(* Late answers may be drawn under a window that was selected after they were asked
   for, and failed ones leave the page as it was, but once nobody clicks and no row
   comes the page shows the selected window, under its own name and with every row
   (dashboard.html:427-496, 505-506). *)
SettlesOnTheWindow ==
  <>[](open => shown = [window |-> hours, subtitle |-> hours, complete |-> TRUE])
==============================================================================
