---------------------------- MODULE FailureTracker ----------------------------
(***************************************************************************)
(* The FailureTracker of Dynode's monitoring: outcomes of requests in      *)
(* buckets of time, and the decision to trigger a check.                   *)
(*                                                                         *)
(* The code keeps instants and only ever compares now - instant with the   *)
(* window or the width of a bucket.  The model keeps that difference, the  *)
(* age, which stops growing at Window: beyond it all comparisons agree.    *)
(***************************************************************************)
EXTENDS Naturals, Sequences

CONSTANTS
    Failures,       \* trigger.failures
    Rate,           \* trigger.rate, percent
    Window,         \* trigger.window
    MaxBuckets      \* MAX_BUCKETS

ASSUME TrackerAssumption ==
    /\ {Failures, Window, MaxBuckets} \subseteq Nat \ {0}
    /\ Rate \in 1 .. 100

\* the width of a bucket, at least the unit of time
Width == IF Window \div MaxBuckets = 0 THEN 1 ELSE Window \div MaxBuckets

\* FailureTracker::default.  since is the age of last_triggered_at, Window when
\* there is none.
NewTracker == [buckets |-> <<>>, requests |-> 0, failures |-> 0, consecutive |-> 0, since |-> Window]

Older(age) == IF age < Window THEN age + 1 ELSE age
Aged(t) ==
    [buckets |-> [i \in DOMAIN t.buckets |-> [t.buckets[i] EXCEPT !.age = Older(@)]],
     requests |-> t.requests, failures |-> t.failures, consecutive |-> t.consecutive,
     since |-> Older(t.since)]

One(failed) == IF failed THEN 1 ELSE 0
\* The sum of a sequence of numbers.
Total(counts) ==
    LET total[n \in 0 .. Len(counts)] == IF n = 0 THEN 0 ELSE total[n - 1] + counts[n]
    IN  total[Len(counts)]
RequestsIn(buckets) == Total([i \in 1 .. Len(buckets) |-> buckets[i].requests])
FailuresIn(buckets) == Total([i \in 1 .. Len(buckets) |-> buckets[i].failures])

\* Mutant of Expired: prune looks at the front once and not again.
ExpiredOne(buckets) == IF buckets # <<>> /\ buckets[1].age >= Window THEN 1 ELSE 0

\* How many buckets prune pops from the front.
Expired(buckets) ==
    CHOOSE k \in 0 .. Len(buckets) :
        /\ \A i \in 1 .. k : buckets[i].age >= Window
        /\ k < Len(buckets) => buckets[k + 1].age < Window

prune(t) ==
    LET k == Expired(t.buckets)
        gone == SubSeq(t.buckets, 1, k)
    IN  [buckets |-> SubSeq(t.buckets, k + 1, Len(t.buckets)), requests |-> t.requests - RequestsIn(gone),
         failures |-> t.failures - FailuresIn(gone), consecutive |-> t.consecutive, since |-> t.since]

\* Mutant of record_sample: every request starts a bucket.
RecordSampleApart(t, failed) ==
    [t EXCEPT !.buckets = Append(@, [age |-> 0, requests |-> 1, failures |-> One(failed)])]

record_sample(t, failed) ==
    LET n == Len(t.buckets)
        last == t.buckets[n]
    IN  IF n = 0 \/ last.age >= Width
        THEN [t EXCEPT !.buckets = Append(@, [age |-> 0, requests |-> 1, failures |-> One(failed)])]
        ELSE [t EXCEPT !.buckets[n] = [age |-> last.age, requests |-> last.requests + 1,
                                       failures |-> last.failures + One(failed)]]

\* Mutant of clear_samples: the running totals stay.
ClearBuckets(t) == [t EXCEPT !.buckets = <<>>, !.consecutive = 0]

clear_samples(t) == [NewTracker EXCEPT !.since = t.since]

\* Mutant of Counted: a success does not end the failures in a row.
CountedOn(t, failed) ==
    LET s == record_sample(prune(t), failed)
    IN  [buckets |-> s.buckets, requests |-> s.requests + 1, failures |-> s.failures + One(failed),
         consecutive |-> s.consecutive + One(failed), since |-> s.since]

Counted(t, failed) ==
    LET s == record_sample(prune(t), failed)
    IN  [buckets |-> s.buckets, requests |-> s.requests + 1, failures |-> s.failures + One(failed),
         consecutive |-> IF failed THEN s.consecutive + 1 ELSE 0, since |-> s.since]

Reached(t) ==
    \/ t.consecutive >= Failures
    \/ t.failures >= Failures /\ t.failures * 100 >= Rate * t.requests

\* record: the tracker after an outcome, and whether it triggers a check.
record(t, failed) ==
    LET c == Counted(t, failed)
        triggered == Reached(c) /\ c.since >= Window
    IN  [triggered |-> triggered,
         tracker |-> IF triggered THEN [clear_samples(c) EXCEPT !.since = 0]
                     ELSE IF Reached(c) THEN clear_samples(c) ELSE c]
===============================================================================
