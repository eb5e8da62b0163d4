----------------------------- MODULE DynodeMonitor -----------------------------
(***************************************************************************)
(* Dynode, for one chain with several URLs: the requests of NodeService,   *)
(* which go to the active URL first and then to the others; the            *)
(* RequestFailureSignal that counts how the active URL answers; and the    *)
(* ChainMonitor with its NodeHealthEvaluator, which observes the URLs and  *)
(* replaces the active one.                                                *)
(*                                                                         *)
(* URLs are numbers in the order of the configuration: 1 is preferred.     *)
(* How a node is at a moment is its condition; an observation sees the     *)
(* condition of that moment.  The timer of the scheduled check may fire    *)
(* at any time between two checks.                                         *)
(***************************************************************************)
EXTENDS FailureTracker, FiniteSets

CONSTANTS
    N,              \* the number of URLs, at least two
    Conditions,     \* of a node, some of "ok", "error", "behind", "slow"
    LatencyLimited, \* trigger.latency is set
    Clients,        \* requests that run side by side
    MaxAttempts,    \* retry.max_attempts, 0 for all URLs
    RetryEnabled,   \* retry.enabled
    MaxLoad         \* bound on the requests counted in a window

ASSUME MonitorAssumption ==
    /\ N \in Nat \ {0, 1} /\ {MaxAttempts, MaxLoad} \subseteq Nat
    /\ LatencyLimited \in BOOLEAN /\ RetryEnabled \in BOOLEAN

VARIABLES
    active,     \* nodes[chain].url
    condition,  \* [Urls -> Conditions]
    signal,     \* RequestFailureState: active_url, tracker, pending
    permit,     \* the permit of Notify
    monitor,    \* where ChainMonitor::run is, and the cycle it is in
    client      \* the requests

vars == <<active, condition, signal, permit, monitor, client>>

Urls == 1 .. N

is_usable(c) == c = "ok" \/ (c = "slow" /\ ~LatencyLimited)
Usable(u) == is_usable(condition[u])

Go(stage) == monitor' = [monitor EXCEPT !.at = stage]
At(stage) == monitor.at = stage
Pending(p) == signal' = [signal EXCEPT !.pending = p]

-----------------------------------------------------------------------------
(* NodeService: a request tries the active URL, then the others.           *)

max_attempts == IF ~RetryEnabled THEN 1 ELSE IF MaxAttempts = 0 \/ MaxAttempts > N THEN N ELSE MaxAttempts

\* Mutant of OrderedUrls: the active URL is put first and stays in its place too.
OrderedNoSwap(offset) ==
    [i \in Urls |-> IF i = 1 THEN active ELSE 2 + ((i - 2 + offset) % (N - 1))]

\* get_ordered_urls: the active URL changes places with the first one, and the
\* others are rotated by a hash of the request.
OrderedUrls(offset) ==
    LET swapped == [i \in Urls |-> IF i = 1 THEN active ELSE IF i = active THEN 1 ELSE i]
    IN  [i \in Urls |-> IF i = 1 THEN active ELSE swapped[2 + ((i - 2 + offset) % (N - 1))]]

HandleRequest(c, offset) ==
    /\ client[c].at = "idle"
    /\ client' = [client EXCEPT ![c] = [at |-> "attempt", urls |-> OrderedUrls(offset), index |-> 1]]
    /\ UNCHANGED <<active, condition, signal, permit, monitor>>

Idle == [at |-> "idle"]
Answered(q, answer) ==
    IF answer = "failed" /\ q.index < max_attempts
    THEN [at |-> "attempt", urls |-> q.urls, index |-> q.index + 1] ELSE Idle

\* Mutant of Report: the URL of the request is not compared with the active one.
ReportAny(url, failed) == record(signal.tracker, failed)

\* report, under the lock; nothing for another URL.
Report(url, failed) ==
    IF signal.url = url THEN record(signal.tracker, failed)
    ELSE [triggered |-> FALSE, tracker |-> signal.tracker]

\* An upstream or the cache answers: well, or with an error to be retried (the cache
\* keeps errors that came with a good status).  Only the first attempt is counted,
\* and no answer of the cache.
Attempt(c, answer, cached) ==
    LET q == client[c]
        r == Report(q.urls[1], answer = "failed")
        counted == q.index = 1 /\ ~cached
    IN  /\ q.at = "attempt"
        /\ counted => prune(signal.tracker).requests < MaxLoad
        /\ signal' = IF counted
                     THEN [url |-> signal.url, tracker |-> r.tracker, pending |-> signal.pending \/ r.triggered]
                     ELSE signal
        /\ client' = [client EXCEPT ![c] =
               IF counted /\ r.triggered THEN [q EXCEPT !.at = answer] ELSE Answered(q, answer)]
        /\ UNCHANGED <<active, condition, permit, monitor>>

\* Mutant of NotifyOne: the notification is not kept for a monitor that is about
\* to wait (notify_waiters).
NotifyWaiters(c) ==
    /\ client[c].at \in {"ok", "failed"}
    /\ permit' = (permit \/ At("parked"))
    /\ client' = [client EXCEPT ![c] = Answered(client[c], client[c].at)]
    /\ UNCHANGED <<active, condition, signal, monitor>>

\* notify_one, after the lock.
NotifyOne(c) ==
    /\ client[c].at \in {"ok", "failed"}
    /\ permit' = TRUE
    /\ client' = [client EXCEPT ![c] = Answered(client[c], client[c].at)]
    /\ UNCHANGED <<active, condition, signal, monitor>>

-----------------------------------------------------------------------------
(* ChainMonitor::run waits for the timer or the signal.                    *)

Resting(stage) == [at |-> stage, current |-> active, seen |-> {}, good |-> {}, left |-> {}]

\* Mutant of Scheduled: the timer is not set again after a check.
ScheduledOnce ==
    /\ At("delay")
    /\ monitor' = Resting("observe")
    /\ UNCHANGED <<active, condition, signal, permit, client>>

\* The timer fires; before the first check it is the initial delay.
Scheduled ==
    /\ monitor.at \in {"delay", "wait", "park", "parked"}
    /\ monitor' = Resting("observe")
    /\ UNCHANGED <<active, condition, signal, permit, client>>

\* wait: the future of the notification is made, then the flag is looked at.
TakePending ==
    /\ At("wait")
    /\ monitor' = IF signal.pending THEN [Resting("is_current") EXCEPT !.current = signal.url] ELSE Resting("park")
    /\ Pending(FALSE)
    /\ UNCHANGED <<active, condition, permit, client>>

Park ==
    /\ At("park") /\ Go("parked")
    /\ UNCHANGED <<active, condition, signal, permit, client>>

Wake ==
    /\ At("parked") /\ permit
    /\ permit' = FALSE /\ Go("wait")
    /\ UNCHANGED <<active, condition, signal, client>>

IsCurrent ==
    /\ At("is_current")
    /\ monitor' = Resting(IF monitor.current = active THEN "observe" ELSE "wait")
    /\ UNCHANGED <<active, condition, signal, permit, client>>

-----------------------------------------------------------------------------
(* NodeHealthEvaluator::check.                                             *)

First(S) == CHOOSE u \in S : \A v \in S : u <= v

probe_indices(current, usable) == (1 .. (IF usable THEN current - 1 ELSE N)) \ {current}

See(u, rest) ==
    monitor' = [at |-> IF rest = {} THEN "select" ELSE "probe", current |-> monitor.current,
                seen |-> monitor.seen \union {u}, left |-> rest,
                good |-> IF Usable(u) THEN monitor.good \union {u} ELSE monitor.good]

\* Mutant of ObserveCurrent: a usable URL is kept without a look at better ones.
ObserveKeepUsable ==
    /\ At("observe")
    /\ See(monitor.current, IF Usable(monitor.current) THEN {} ELSE probe_indices(monitor.current, FALSE))
    /\ UNCHANGED <<active, condition, signal, permit, client>>

\* observe_nodes: the active URL first.
ObserveCurrent ==
    /\ At("observe")
    /\ See(monitor.current, probe_indices(monitor.current, Usable(monitor.current)))
    /\ UNCHANGED <<active, condition, signal, permit, client>>

\* Then the others in order, up to the first that is usable.
Probe ==
    LET u == First(monitor.left)
    IN  /\ At("probe")
        /\ See(u, IF Usable(u) THEN {} ELSE monitor.left \ {u})
        /\ UNCHANGED <<active, condition, signal, permit, client>>

\* select_node: what is usable, and before the active URL if that is usable.
Candidates ==
    {u \in monitor.good \ {monitor.current} : monitor.current \in monitor.good => u < monitor.current}

\* switch_if_current, when select_node chose a URL.
Select ==
    /\ At("select") /\ Go("complete")
    /\ active' = IF Candidates # {} /\ active = monitor.current THEN First(Candidates) ELSE active
    /\ UNCHANGED <<condition, signal, permit, client>>

\* Mutant of CheckCompleted: check returns the URL it began with.
CompleteWithFirst ==
    /\ At("complete")
    /\ signal' = [url |-> monitor.current, pending |-> FALSE,
                  tracker |-> IF signal.url = monitor.current THEN clear_samples(signal.tracker) ELSE NewTracker]
    /\ monitor' = Resting("wait")
    /\ UNCHANGED <<active, condition, permit, client>>

\* check_completed, with the URL that is active now.
CheckCompleted ==
    /\ At("complete")
    /\ signal' = [url |-> active, pending |-> FALSE,
                  tracker |-> IF signal.url = active THEN clear_samples(signal.tracker) ELSE NewTracker]
    /\ monitor' = Resting("wait")
    /\ UNCHANGED <<active, condition, permit, client>>

-----------------------------------------------------------------------------
(* The environment.                                                        *)

Tick ==
    /\ signal' = [signal EXCEPT !.tracker = Aged(@)]
    /\ UNCHANGED <<active, condition, permit, monitor, client>>

ConditionChanges(u, c) ==
    /\ condition' = [condition EXCEPT ![u] = c]
    /\ UNCHANGED <<active, signal, permit, monitor, client>>

-----------------------------------------------------------------------------
Init ==
    /\ active = 1 /\ condition \in [Urls -> Conditions]
    /\ signal = [url |-> 1, tracker |-> NewTracker, pending |-> FALSE] /\ permit = FALSE
    /\ monitor = [at |-> "delay", current |-> 1, seen |-> {}, good |-> {}, left |-> {}]
    /\ client = [c \in Clients |-> Idle]

MonitorStep == TakePending \/ Park \/ Wake \/ IsCurrent \/ ObserveCurrent \/ Probe \/ Select \/ CheckCompleted

ClientStep(c) == (\E answer \in {"ok", "failed"}, cached \in BOOLEAN : Attempt(c, answer, cached)) \/ NotifyOne(c)

Next ==
    \/ Scheduled
    \/ MonitorStep
    \/ \E c \in Clients : ClientStep(c) \/ (\E offset \in 0 .. N - 2 : HandleRequest(c, offset))
    \/ Tick
    \/ \E u \in Urls, c \in Conditions : ConditionChanges(u, c)

Spec == Init /\ [][Next]_vars

\* The timer fires and the task of the monitor runs.
FairSpec == Spec /\ WF_vars(Scheduled) /\ WF_vars(MonitorStep)

-----------------------------------------------------------------------------
(* Properties.                                                             *)

\* The types.  The order of a request is a permutation: no URL is tried twice and,
\* with enough attempts, none is left out (get_ordered_urls).
TypeOK ==
    /\ active \in Urls /\ condition \in [Urls -> Conditions] /\ permit \in BOOLEAN
    /\ signal.url \in Urls /\ signal.pending \in BOOLEAN
    /\ monitor.at \in {"delay", "wait", "park", "parked", "is_current", "observe", "probe", "select", "complete"}
    /\ monitor.current \in Urls /\ monitor.good \subseteq monitor.seen /\ monitor.seen \subseteq Urls
    /\ monitor.left \subseteq Urls \ monitor.seen
    /\ \A c \in Clients :
           \/ client[c] = Idle
           \/ /\ client[c].at \in {"attempt", "ok", "failed"} /\ client[c].index \in 1 .. max_attempts
              /\ client[c].urls \in [Urls -> Urls] /\ {client[c].urls[i] : i \in Urls} = Urls

\* Between two checks the signal counts the outcomes of the URL that is active:
\* check_completed is given the URL that check leaves active, whether it switched
\* or not.  Otherwise report would drop every outcome from then on.
SignalFollows ==
    /\ monitor.at \in {"delay", "wait", "park", "parked", "is_current"} => signal.url = active
    /\ At("is_current") => monitor.current = active

\* An outcome is counted only for the URL that gave it: neither the late answer of
\* a request that began before the monitor switched (report compares the URLs), nor
\* that of a fallback (handle_request_inner) moves the tracker of another URL.
OnlyOwnOutcomes ==
    [][\A c \in Clients :
           client'[c] # client[c] /\ signal'.tracker # signal.tracker =>
               client[c].urls[client[c].index] = signal.url]_vars

\* A check leaves the first URL active that it saw usable: all URLs before it were
\* seen in this check and were not usable.  If none was usable the active URL stays.
\* observe_nodes stops early and select_node looks at what it saw: together they
\* act as if all URLs had been observed.
BestSeen ==
    At("complete") =>
        IF monitor.good = {} THEN active = monitor.current /\ monitor.seen = Urls
        ELSE active \in monitor.good /\ 1 .. active - 1 \subseteq monitor.seen \ monitor.good

\* A monitor that waits for a notification gets one when a check is pending, although
\* the flag and the notification are set one after the other (report, wait).
NoLostWakeup ==
    monitor.at \in {"park", "parked"} /\ signal.pending =>
        permit \/ \E c \in Clients : client[c].at \in {"ok", "failed"}

\* When the conditions settle, the preferred URL among the usable ones becomes and
\* stays active: a failing URL is left, a fallback gives way (ChainMonitor::run).
Recovers ==
    \A b \in Urls :
        <>[](Usable(b) /\ \A u \in 1 .. b - 1 : ~Usable(u)) => <>[](active = b)
================================================================================
