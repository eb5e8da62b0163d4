----------------------------- MODULE FailureWindow -----------------------------
(***************************************************************************)
(* The FailureTracker against a log of every request: the buckets stand    *)
(* for a rolling window over the outcomes of the active URL, and the       *)
(* counter of failures in a row for the last outcomes, however old.        *)
(***************************************************************************)
EXTENDS FailureTracker, FiniteSets

CONSTANT MaxLoad    \* bound on the requests in a window

ASSUME LoadAssumption == MaxLoad \in Nat \ {0}

VARIABLES
    tracker,
    log,        \* the outcomes since the samples were last cleared, younger than Window
    latest,     \* whether the last outcome failed, the one before it, and so on, none
                \* of them aging, since the samples were last cleared
    quiet,      \* the time since the last trigger for this URL, Window when longer
    outcome     \* what the last step reported, and whether it triggered a check

vars == <<tracker, log, latest, quiet, outcome>>

Outcomes == [of : {"none", "ok", "failed"}, triggered : BOOLEAN]
None == [of |-> "none", triggered |-> FALSE]

\* No outcome yet.
NoFailure == [k \in 1 .. Failures - 1 |-> FALSE]
\* One more outcome: all others move back by one.
Latest(failed) == [k \in 1 .. Failures - 1 |-> IF k = 1 THEN failed ELSE latest[k - 1]]

Init ==
    /\ tracker = NewTracker /\ log = <<>> /\ latest = NoFailure
    /\ quiet = Window /\ outcome = None

\* The log a unit of time later: its oldest entries leave it.
Later(s) ==
    LET old == Cardinality({i \in 1 .. Len(s) : s[i].age + 1 >= Window})
    IN  [i \in 1 .. Len(s) - old |-> [s[i + old] EXCEPT !.age = @ + 1]]

Tick ==
    /\ tracker' = Aged(tracker)
    /\ log' = Later(log)
    /\ quiet' = Older(quiet)
    /\ outcome' = None
    /\ UNCHANGED latest

\* report of RequestFailureSignal, for the active URL.
Report(failed) ==
    LET r == record(tracker, failed)
    IN  /\ Len(log) < MaxLoad
        /\ tracker' = r.tracker
        /\ log' = IF r.tracker.buckets = <<>> THEN <<>> ELSE Append(log, [age |-> 0, failed |-> failed])
        /\ latest' = IF r.tracker.buckets = <<>> THEN NoFailure ELSE Latest(failed)
        /\ quiet' = IF r.triggered THEN 0 ELSE quiet
        /\ outcome' = [of |-> IF failed THEN "failed" ELSE "ok", triggered |-> r.triggered]

\* check_completed when the active URL stays.
CheckKept ==
    /\ tracker' = clear_samples(tracker)
    /\ log' = <<>> /\ latest' = NoFailure /\ outcome' = None
    /\ UNCHANGED quiet

\* check_completed when the active URL changed.
CheckSwitched ==
    /\ tracker' = NewTracker
    /\ log' = <<>> /\ latest' = NoFailure /\ quiet' = Window /\ outcome' = None

Next == Tick \/ (\E failed \in BOOLEAN : Report(failed)) \/ CheckKept \/ CheckSwitched

Spec == Init /\ [][Next]_vars

-----------------------------------------------------------------------------
(* Properties.                                                             *)

\* The types, and the running totals of FailureTracker are the sums over its
\* buckets, so that the subtractions of prune never underflow.
TypeOK ==
    /\ tracker.buckets \in Seq([age : 0 .. Window, requests : 1 .. MaxLoad, failures : 0 .. MaxLoad])
    /\ tracker.requests = RequestsIn(tracker.buckets) /\ tracker.failures = FailuresIn(tracker.buckets)
    /\ tracker.consecutive \in 0 .. Failures - 1 /\ tracker.since \in 0 .. Window
    /\ log \in Seq([age : 0 .. Window - 1, failed : BOOLEAN])
    /\ latest \in [1 .. Failures - 1 -> BOOLEAN]
    /\ quiet \in 0 .. Window /\ outcome \in Outcomes

Failed(s) == Cardinality({i \in DOMAIN s : s[i].failed})

\* The ends of the log that a window with buckets may stand for: it never counts a
\* request older than Window and always those that are younger by a bucket.
Recent(s) ==
    {SubSeq(s, k, Len(s)) : k \in {k \in 1 .. Len(s) + 1 : \A i \in 1 .. k - 1 : s[i].age > Window - Width}}

\* What record counts is the end of the log: no request is counted that is older
\* than the window, none is lost that is younger by a bucket, and none twice.
Rolling ==
    LET t == prune(tracker)
    IN  \E s \in Recent(log) : t.requests = Len(s) /\ t.failures = Failed(s)

\* Memory is bounded whatever the load: there are no more buckets than a window
\* has room for (record_sample starts a bucket only when the last one is full).
Bounded == Len(tracker.buckets) > 0 => (Len(tracker.buckets) - 1) * Width < Window

\* record triggers a check exactly when a threshold is reached and the last trigger
\* for this URL is a window ago, although checks clear the samples in between
\* (check_completed).  The thresholds are Failures failures in a row since the
\* samples were cleared, however long ago the first of them was (prune leaves
\* consecutive_failures alone), and, among the requests of the window, Failures
\* failures that are at least Rate percent.
Justified ==
    [][outcome'.of # "none" =>
        LET failed == outcome'.of = "failed"
            streak == failed /\ \A k \in 1 .. Failures - 1 : latest[k]
        IN  \E s \in Recent(Append(log, [age |-> 0, failed |-> failed])) :
                (outcome'.triggered <=>
                    /\ quiet = Window
                    /\ \/ streak
                       \/ Failed(s) >= Failures /\ Failed(s) * 100 >= Rate * Len(s))]_vars
================================================================================
