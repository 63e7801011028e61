----------------------------- MODULE Analytics -----------------------------
(***************************************************************************)
(* The queries of the dashboard (storage.py:173-390), as operators on the  *)
(* rows of the table.  Times are minutes.  Averages, maxima and rounding   *)
(* are left out; an answer holds the counts they are computed from.        *)
(***************************************************************************)
EXTENDS Integers, Sequences, FiniteSetsExt, Functions

CONSTANTS
  Hour, Day,          \* their lengths in minutes
  FineHours,          \* windows up to 2 hours are drawn by the minute,
  HourlyHours,        \* up to 48 hours by the hour if that gives a chart
  TopLimit            \* LIMIT of the top_* queries, 10

ASSUME WidthAssumption == Hour \in Nat \ {0} /\ Day \in Nat \ {0} /\ Hour <= Day

ASSUME HoursAssumption == FineHours \in Nat /\ HourlyHours \in Nat /\ FineHours <= HourlyHours

ASSUME LimitAssumption == TopLimit \in Nat

None == "none"

Legitimate == {"likely_human", "verified_crawler"}

Automated(w) == { r \in w : r.verdict \notin Legitimate }

\* WHERE ts >= since
Window(rows, hours, at) == { r \in rows : r.ts >= at - hours * Hour }

\* SELECT column, COUNT( * ) .. GROUP BY column
Counts(w, column) ==
  [ k \in { r[column] : r \in w } |-> Cardinality({ r \in w : r[column] = k }) ]

\* COUNT(DISTINCT column)
Distinct(w, column) == Cardinality({ r[column] : r \in w })

\* ORDER BY n DESC LIMIT: ties are broken somehow.
Top(counts) ==
  Restrict(counts, CHOOSE keys \in SUBSET DOMAIN counts :
    /\ Cardinality(keys) = Min({TopLimit, Cardinality(DOMAIN counts)})
    /\ \A k \in keys, other \in DOMAIN counts \ keys : counts[k] >= counts[other])

------------------------------------------------------------------------------
Summary(w) ==
  [ events |-> Cardinality(w), unique_sources |-> Distinct(w, "src_ip_hash"),
    unique_client_stacks |-> Distinct(w, "client_id"),
    credential_attempts |-> Cardinality({ r \in w : r.username_hash # None }),
    automated |-> Cardinality(Automated(w)) ]

VerdictBreakdown(w) == Counts(w, "verdict")

TopPaths(w) == Top(Counts(w, "path"))

\* COALESCE(tool_signature, ua_family)
TopTools(w) ==
  Top(Counts({ [r EXCEPT !.tool = IF @ # None THEN @ ELSE r.ua_family] : r \in w }, "tool"))

\* Mutant: one width of bucket for each kind of window.
OneWidth(hours) ==
  IF hours <= FineHours THEN <<1>> ELSE IF hours <= HourlyHours THEN <<Hour>> ELSE <<Day>>

\* The candidates, coarsest first.
Widths(hours) ==
  IF hours <= FineHours THEN <<1>>
  ELSE IF hours <= HourlyHours THEN <<Hour, 1>> ELSE <<Day, Hour, 1>>

\* Mutant: buckets in which all is legitimate are left out.
AutomatedBuckets(w, width) == { r.ts \div width : r \in Automated(w) }

Buckets(w, width) == { r.ts \div width : r \in w }

\* The first candidate with three buckets, or the last one.
Width(w, hours) ==
  LET charts == { k \in DOMAIN Widths(hours) :
                    Cardinality(Buckets(w, Widths(hours)[k])) >= 3 }
  IN Widths(hours)[Min(charts \union {Len(Widths(hours))})]

Timeline(w, hours) ==
  LET width == Width(w, hours)
      In(rows, b) == Cardinality({ r \in rows : r.ts \div width = b })
  IN [ b \in Buckets(w, width) |->
         [ automated |-> In(Automated(w), b), legitimate |-> In(w \ Automated(w), b) ] ]

\* The verdict of a source is one it got most often.
TopSources(w) ==
  LET top == Top(Counts(w, "src_ip_hash"))
      Of(s) == { r \in w : r.src_ip_hash = s }
      Most(counts) == CHOOSE v \in DOMAIN counts : \A u \in DOMAIN counts : counts[v] >= counts[u]
  IN [ s \in DOMAIN top |->
         [ requests |-> top[s], distinct_paths |-> Distinct(Of(s), "path"),
           verdict |-> Most(Counts(Of(s), "verdict")) ] ]

TopTLSStacks(w) ==
  LET seen  == { r \in w : r.ja4 # None }
      top   == Top(Counts(seen, "tls_family"))
      Of(f) == { r \in seen : r.tls_family = f }
  IN [ f \in DOMAIN top |->
         [ count |-> top[f], fingerprints |-> Distinct(Of(f), "ja4"),
           claims_browser |-> Cardinality({ r \in Of(f) : r.claims_browser }) ] ]

\* api_summary: seven queries, each with its own idea of now.
Answer(rows, hours, at) ==
  LET W(i) == Window(rows, hours, at[i])
  IN [ summary |-> Summary(W(1)), verdicts |-> VerdictBreakdown(W(2)),
       top_paths |-> TopPaths(W(3)), top_clients |-> TopTools(W(4)),
       timeline |-> Timeline(W(5), hours), top_sources |-> TopSources(W(6)),
       tls_stacks |-> TopTLSStacks(W(7)) ]
==============================================================================
