-------------------------- MODULE DynodeMonitor_proofs --------------------------
(***************************************************************************)
(* Proofs about DynodeMonitor: for any number of URLs and requests, any    *)
(* thresholds and conditions, the signal follows the active URL, a check   *)
(* leaves the best URL it saw active, no wake-up is lost, and the order of *)
(* every request is a permutation of the URLs.                             *)
(***************************************************************************)
EXTENDS DynodeMonitor, WellFoundedInduction, TLAPS

Stages == {"delay", "wait", "park", "parked", "is_current", "observe", "probe", "select", "complete"}
Calm == {"delay", "wait", "park", "parked", "is_current"}

Types ==
    /\ active \in Urls /\ permit \in BOOLEAN
    /\ DOMAIN signal = {"url", "tracker", "pending"} /\ signal.url \in Urls /\ signal.pending \in BOOLEAN
    /\ monitor \in [at : Stages, current : Urls, seen : SUBSET Urls, good : SUBSET Urls, left : SUBSET Urls]
    /\ client = [c \in Clients |-> client[c]] /\ \A c \in Clients : "at" \in DOMAIN client[c]

\* Only the end of a check changes the active URL, and tells the signal next.
Tracked ==
    /\ ~At("complete") => signal.url = active
    /\ monitor.at \in {"is_current", "observe", "probe", "select"} => monitor.current = active

\* The URLs that a check of the current URL looks at.
Scope == 1 .. (IF monitor.current \in monitor.good THEN monitor.current - 1 ELSE N)

\* What a check has seen: all URLs of the scope but the ones left, none of them
\* usable until the last.
Cycle ==
    /\ At("observe") => monitor.seen = {} /\ monitor.good = {}
    /\ At("probe") =>
           /\ monitor.current \in monitor.seen /\ monitor.good \subseteq {monitor.current}
           /\ monitor.left # {} /\ monitor.left \subseteq Scope \ {monitor.current}
           /\ Scope \ {monitor.current} \subseteq monitor.seen \union monitor.left
    /\ At("select") =>
           /\ monitor.current \in monitor.seen
           /\ \/ monitor.good \subseteq {monitor.current} /\ Scope \ {monitor.current} \subseteq monitor.seen
              \/ \E g \in Urls \ {monitor.current} :
                     /\ monitor.good \subseteq {g, monitor.current} /\ g \in monitor.good
                     /\ monitor.current \in monitor.good => g < monitor.current
                     /\ 1 .. g - 1 \subseteq monitor.seen

MonitorInv == Types /\ Tracked /\ Cycle /\ BestSeen /\ NoLostWakeup

-----------------------------------------------------------------------------
\* The first of some URLs.
LEMMA FirstUrl ==
  ASSUME NEW S \in SUBSET Urls, S # {}
  PROVE  First(S) \in S /\ \A v \in S : First(S) <= v
<1>1. S \subseteq Nat
  BY MonitorAssumption DEF Urls
<1>2. PICK u \in S : \A v \in S : <<v, u>> \notin OpToRel(<, Nat)
  BY <1>1, WFMin, NatLessThanWellFounded, Zenon
<1>3. \A v \in S : ~(v < u)
  BY <1>1, <1>2, Zenon DEF OpToRel
<1>4. \A v \in S : u <= v
  BY <1>1, <1>3
<1> QED
  BY <1>4 DEF First

\* A decision of the tracker.
LEMMA Decides ==
  ASSUME NEW t, NEW failed
  PROVE  record(t, failed).triggered \in BOOLEAN
BY Zenon DEF record

\* The proxy starts with the first URL active and the monitor in its delay.
LEMMA InitInv == Init => MonitorInv
<1> SUFFICES ASSUME Init PROVE MonitorInv
  OBVIOUS
<1>1. 1 \in Urls
  BY MonitorAssumption DEF Urls
<1>2. Types
  BY <1>1, Zenon DEF Init, Types, Stages, Idle
<1>3. monitor.at = "delay" /\ signal.url = active
  BY DEF Init
<1> QED
  BY <1>2, <1>3 DEF MonitorInv, Tracked, Cycle, BestSeen, NoLostWakeup, At

\* Steps that leave the monitor and what it knows alone.
LEMMA Aside ==
  ASSUME MonitorInv, UNCHANGED <<active, monitor>>, signal'.url = signal.url
  PROVE  Tracked' /\ Cycle' /\ BestSeen'
<1>1. Tracked'
  BY DEF MonitorInv, Tracked, At
<1>2. Cycle'
  BY DEF MonitorInv, Cycle, At, Scope
<1>3. BestSeen'
  BY DEF MonitorInv, BestSeen, At
<1> QED
  BY <1>1, <1>2, <1>3

\* A request arrives and takes its order of URLs.
LEMMA HandleRequestInv ==
  ASSUME MonitorInv, NEW c \in Clients, NEW offset, HandleRequest(c, offset)
  PROVE  MonitorInv'
<1>1. Types'
  BY DEF MonitorInv, Types, HandleRequest
<1>2. NoLostWakeup'
  <2> SUFFICES ASSUME monitor.at \in {"park", "parked"}, signal.pending, ~permit
               PROVE  \E d \in Clients : client'[d].at \in {"ok", "failed"}
    BY DEF NoLostWakeup, HandleRequest
  <2>1. PICK d \in Clients : client[d].at \in {"ok", "failed"}
    BY DEF MonitorInv, NoLostWakeup
  <2>2. d # c /\ client'[d] = client[d]
    BY <2>1 DEF HandleRequest, MonitorInv, Types
  <2> QED
    BY <2>1, <2>2
<1> QED
  BY <1>1, <1>2, Aside DEF MonitorInv, HandleRequest

\* A request that asked for a check wakes the monitor.
LEMMA NotifyOneInv ==
  ASSUME MonitorInv, NEW c \in Clients, NotifyOne(c)
  PROVE  MonitorInv'
<1>1. "at" \in DOMAIN Answered(client[c], client[c].at)
  BY DEF MonitorInv, Types, Answered, Idle
<1>2. Types'
  BY <1>1 DEF MonitorInv, Types, NotifyOne
<1>3. NoLostWakeup'
  BY DEF NoLostWakeup, NotifyOne
<1> QED
  BY <1>2, <1>3, Aside DEF MonitorInv, NotifyOne

\* A request tries its next URL, and its failure may ask for a check.
LEMMA AttemptInv ==
  ASSUME MonitorInv, NEW c \in Clients, NEW answer \in {"ok", "failed"}, NEW cached \in BOOLEAN, Attempt(c, answer, cached)
  PROVE  MonitorInv'
<1> DEFINE r == Report(client[c].urls[1], answer = "failed")
           counted == client[c].index = 1 /\ ~cached
<1>1. r.triggered \in BOOLEAN
  BY Decides, Zenon DEF Report
<1>2. /\ client[c].at = "attempt"
      /\ signal' = IF counted
                   THEN [url |-> signal.url, tracker |-> r.tracker, pending |-> signal.pending \/ r.triggered]
                   ELSE signal
      /\ client' = [client EXCEPT ![c] =
             IF counted /\ r.triggered THEN [client[c] EXCEPT !.at = answer] ELSE Answered(client[c], answer)]
      /\ UNCHANGED <<active, condition, permit, monitor>>
  BY Zenon DEF Attempt
<1>3. "at" \in DOMAIN client[c] /\ client = [d \in Clients |-> client[d]]
  BY DEF MonitorInv, Types
<1>4. "at" \in DOMAIN Answered(client[c], answer)
  BY <1>3 DEF Answered, Idle
<1> HIDE DEF r, counted
<1>5. Types'
  <2>1. DOMAIN signal' = {"url", "tracker", "pending"} /\ signal'.url \in Urls /\ signal'.pending \in BOOLEAN
    BY <1>1, <1>2 DEF MonitorInv, Types
  <2>2. client' = [d \in Clients |-> client'[d]]
    BY <1>2, <1>3
  <2>3. ASSUME NEW d \in Clients PROVE "at" \in DOMAIN client'[d]
    BY <1>2, <1>3, <1>4 DEF MonitorInv, Types
  <2> QED
    BY <1>2, <2>1, <2>2, <2>3 DEF MonitorInv, Types
<1>6. NoLostWakeup'
  <2> SUFFICES ASSUME monitor.at \in {"park", "parked"}, signal'.pending, ~permit
               PROVE  \E d \in Clients : client'[d].at \in {"ok", "failed"}
    BY <1>2 DEF NoLostWakeup
  <2>1. CASE signal.pending
    <3>1. PICK d \in Clients : client[d].at \in {"ok", "failed"}
      BY <2>1 DEF MonitorInv, NoLostWakeup
    <3>2. d # c /\ client'[d] = client[d]
      BY <1>2, <1>3, <3>1
    <3> QED
      BY <3>1, <3>2
  <2>2. CASE ~signal.pending
    <3>1. counted /\ r.triggered
      BY <1>1, <1>2, <2>2
    <3>2. client'[c] = [client[c] EXCEPT !.at = answer]
      BY <1>2, <1>3, <3>1
    <3>3. client'[c].at = answer
      BY <1>3, <3>2
    <3> QED
      BY <3>3
  <2> QED
    BY <2>1, <2>2
<1> QED
  BY <1>2, <1>5, <1>6, Aside DEF MonitorInv

\* The clock ages the samples and the nodes change; the monitor goes on.
LEMMA EnvironmentInv ==
  ASSUME MonitorInv, Tick \/ \E u \in Urls, c \in Conditions : ConditionChanges(u, c)
  PROVE  MonitorInv'
<1>1. /\ signal'.url = signal.url /\ signal'.pending = signal.pending /\ DOMAIN signal' = DOMAIN signal
      /\ UNCHANGED <<active, permit, monitor, client>>
  BY DEF Tick, ConditionChanges, MonitorInv, Types
<1>2. Types'
  BY <1>1 DEF MonitorInv, Types
<1>3. NoLostWakeup'
  BY <1>1 DEF MonitorInv, NoLostWakeup
<1> QED
  BY <1>1, <1>2, <1>3, Aside DEF MonitorInv

\* Where the monitor rests, or begins a check of the active URL.
LEMMA RestingInv ==
  ASSUME MonitorInv, NEW stage \in Calm \union {"observe"}, monitor' = Resting(stage),
         active' = active, signal'.url = active
  PROVE  /\ monitor' \in [at : Stages, current : Urls, seen : SUBSET Urls, good : SUBSET Urls, left : SUBSET Urls]
         /\ Tracked' /\ Cycle' /\ BestSeen'
<1>1. /\ monitor'.at = stage /\ monitor'.current = active
      /\ monitor'.seen = {} /\ monitor'.good = {} /\ monitor'.left = {}
      /\ stage \notin {"probe", "select", "complete"}
  BY DEF Resting, Calm
<1>2. Tracked'
  BY <1>1 DEF Tracked, At
<1>3. Cycle'
  BY <1>1 DEF Cycle, At
<1>4. BestSeen'
  BY <1>1 DEF BestSeen, At
<1>5. monitor' \in [at : Stages, current : Urls, seen : SUBSET Urls, good : SUBSET Urls, left : SUBSET Urls]
  BY DEF MonitorInv, Types, Resting, Calm, Stages
<1> QED
  BY <1>2, <1>3, <1>4, <1>5

\* The timer of the monitor fires.
LEMMA ScheduledInv == ASSUME MonitorInv, Scheduled PROVE MonitorInv'
<1>1. signal.url = active
  BY DEF MonitorInv, Tracked, Scheduled, At
<1>2. /\ Tracked' /\ Cycle' /\ BestSeen'
      /\ monitor' \in [at : Stages, current : Urls, seen : SUBSET Urls, good : SUBSET Urls, left : SUBSET Urls]
  BY <1>1, RestingInv DEF Scheduled
<1>3. Types'
  BY <1>2 DEF MonitorInv, Types, Scheduled
<1>4. NoLostWakeup'
  BY DEF NoLostWakeup, Scheduled, Resting
<1> QED
  BY <1>2, <1>3, <1>4 DEF MonitorInv

\* The monitor takes the pending check, or parks.
LEMMA TakePendingInv == ASSUME MonitorInv, TakePending PROVE MonitorInv'
<1>1. /\ signal.url = active /\ signal'.url = active /\ signal'.pending = FALSE
      /\ DOMAIN signal' = DOMAIN signal /\ UNCHANGED <<active, permit, client>>
  BY DEF MonitorInv, Tracked, TakePending, At, Types, Pending
<1>2. PICK stage \in {"is_current", "park"} : monitor' = Resting(stage)
  BY <1>1 DEF TakePending, Resting
<1>3. /\ Tracked' /\ Cycle' /\ BestSeen'
      /\ monitor' \in [at : Stages, current : Urls, seen : SUBSET Urls, good : SUBSET Urls, left : SUBSET Urls]
  BY <1>1, <1>2, RestingInv DEF Calm
<1>4. Types'
  BY <1>1, <1>3, Zenon DEF MonitorInv, Types
<1>5. NoLostWakeup'
  BY <1>1 DEF NoLostWakeup
<1> QED
  BY <1>3, <1>4, <1>5 DEF MonitorInv

\* The monitor drops a check that is no longer about the active URL.
LEMMA IsCurrentInv == ASSUME MonitorInv, IsCurrent PROVE MonitorInv'
<1>1. signal.url = active
  BY DEF MonitorInv, Tracked, IsCurrent, At
<1>2. PICK stage \in {"observe", "wait"} : monitor' = Resting(stage)
  BY DEF IsCurrent
<1>3. /\ Tracked' /\ Cycle' /\ BestSeen'
      /\ monitor' \in [at : Stages, current : Urls, seen : SUBSET Urls, good : SUBSET Urls, left : SUBSET Urls]
  BY <1>1, <1>2, RestingInv DEF Calm, IsCurrent
<1>4. Types'
  BY <1>3 DEF MonitorInv, Types, IsCurrent
<1>5. NoLostWakeup'
  BY <1>2 DEF NoLostWakeup, Resting
<1> QED
  BY <1>3, <1>4, <1>5 DEF MonitorInv

\* The signal is told of the end of the check and of the active URL.
LEMMA CheckCompletedInv == ASSUME MonitorInv, CheckCompleted PROVE MonitorInv'
<1>1. /\ signal'.url = active /\ signal'.pending = FALSE /\ DOMAIN signal' = {"url", "tracker", "pending"}
      /\ UNCHANGED <<active, permit, client>> /\ monitor' = Resting("wait")
  BY DEF CheckCompleted
<1>2. /\ Tracked' /\ Cycle' /\ BestSeen'
      /\ monitor' \in [at : Stages, current : Urls, seen : SUBSET Urls, good : SUBSET Urls, left : SUBSET Urls]
  BY <1>1, RestingInv DEF Calm
<1>3. Types'
  BY <1>1, <1>2, Zenon DEF MonitorInv, Types
<1>4. NoLostWakeup'
  BY <1>1 DEF NoLostWakeup
<1> QED
  BY <1>2, <1>3, <1>4 DEF MonitorInv

\* The monitor falls asleep only with the flag down or a permit on its way, and
\* looks at the flag again when it wakes.
LEMMA ParkInv == ASSUME MonitorInv, Park \/ Wake PROVE MonitorInv'
<1>1. PICK stage \in {"parked", "wait"} :
         /\ monitor' = [monitor EXCEPT !.at = stage]
         /\ monitor.at \in {"park", "parked"}
         /\ stage = "parked" => permit' = permit
         /\ UNCHANGED <<active, signal, client>> /\ permit' \in BOOLEAN
  BY Zenon DEF Park, Wake, Go, At, MonitorInv, Types
<1>2. monitor'.at = stage /\ monitor'.current = monitor.current
  BY <1>1 DEF MonitorInv, Types
<1>3. Types'
  BY <1>1 DEF MonitorInv, Types, Stages
<1>4. Tracked'
  BY <1>1, <1>2 DEF MonitorInv, Tracked, At
<1>5. Cycle' /\ BestSeen'
  BY <1>1, <1>2 DEF Cycle, BestSeen, At
<1>6. NoLostWakeup'
  BY <1>1, <1>2 DEF MonitorInv, NoLostWakeup
<1> QED
  BY <1>3, <1>4, <1>5, <1>6 DEF MonitorInv

\* What an observation does to the cycle, for both actions that make one.
LEMMA SeeFacts ==
  ASSUME MonitorInv, NEW u \in Urls, NEW rest \in SUBSET Urls, See(u, rest),
         UNCHANGED <<active, signal, permit, client>>, monitor.at \in {"observe", "probe"}
  PROVE  /\ Types' /\ Tracked' /\ BestSeen' /\ NoLostWakeup'
         /\ monitor'.at = (IF rest = {} THEN "select" ELSE "probe")
         /\ monitor'.current = monitor.current /\ monitor'.left = rest
         /\ monitor'.seen = monitor.seen \union {u}
         /\ monitor'.good = IF Usable(u) THEN monitor.good \union {u} ELSE monitor.good
<1>1. /\ monitor'.at = (IF rest = {} THEN "select" ELSE "probe")
      /\ monitor'.current = monitor.current /\ monitor'.left = rest
      /\ monitor'.seen = monitor.seen \union {u}
      /\ monitor'.good = IF Usable(u) THEN monitor.good \union {u} ELSE monitor.good
  BY DEF See
<1>2. monitor' \in [at : Stages, current : Urls, seen : SUBSET Urls, good : SUBSET Urls, left : SUBSET Urls]
  BY DEF See, MonitorInv, Types, Stages
<1>3. Types'
  BY <1>2 DEF MonitorInv, Types
<1>4. Tracked'
  BY <1>1 DEF MonitorInv, Tracked, At
<1>5. BestSeen' /\ NoLostWakeup'
  BY <1>1 DEF BestSeen, NoLostWakeup, At
<1> QED
  BY <1>1, <1>3, <1>4, <1>5

\* The check looks at the current URL first.
LEMMA ObserveCurrentInv == ASSUME MonitorInv, ObserveCurrent PROVE MonitorInv'
<1> DEFINE cur == monitor.current
           rest == probe_indices(cur, Usable(cur))
<1>1. cur \in Urls /\ monitor.seen = {} /\ monitor.good = {}
  BY DEF MonitorInv, Types, Cycle, ObserveCurrent
<1>2. rest \in SUBSET Urls
  BY <1>1, MonitorAssumption DEF probe_indices, Urls
<1>3. See(cur, rest) /\ UNCHANGED <<active, signal, permit, client>> /\ monitor.at = "observe"
  BY Zenon DEF ObserveCurrent, At
<1>4. PICK c, w : c = cur /\ w = rest
  OBVIOUS
<1>5. /\ Types' /\ Tracked' /\ BestSeen' /\ NoLostWakeup'
      /\ monitor'.at = (IF w = {} THEN "select" ELSE "probe")
      /\ monitor'.current = c /\ monitor'.left = w
      /\ monitor'.seen = monitor.seen \union {c}
      /\ monitor'.good = IF Usable(c) THEN monitor.good \union {c} ELSE monitor.good
  <2>1. c \in Urls /\ w \in SUBSET Urls /\ See(c, w) /\ monitor.at \in {"observe", "probe"}
    BY <1>1, <1>2, <1>3, <1>4, Zenon
  <2> QED
    BY <1>3, <1>4, <2>1, SeeFacts, Zenon
<1>6. monitor'.good = (IF Usable(c) THEN {c} ELSE {}) /\ monitor'.seen = {c}
  BY <1>1, <1>5
<1>7. Scope' = 1 .. (IF Usable(c) THEN c - 1 ELSE N)
  BY <1>5, <1>6 DEF Scope
<1>8. w = Scope' \ {c}
  BY <1>4, <1>7 DEF probe_indices
<1>9. Cycle'
  BY <1>5, <1>6, <1>8 DEF Cycle, At
<1> QED
  BY <1>5, <1>9 DEF MonitorInv

\* The check looks at one more URL of its scope.
LEMMA ProbeInv == ASSUME MonitorInv, Probe PROVE MonitorInv'
<1>1. PICK u, w, c : u = First(monitor.left) /\ w = (IF Usable(u) THEN {} ELSE monitor.left \ {u}) /\ c = monitor.current
  BY Zenon
<1>2. /\ c \in Urls /\ monitor.left \in SUBSET Urls /\ c \in monitor.seen
      /\ monitor.good \subseteq {c} /\ monitor.left # {} /\ monitor.left \subseteq Scope \ {c}
      /\ Scope \ {c} \subseteq monitor.seen \union monitor.left
  BY <1>1 DEF MonitorInv, Types, Cycle, Probe
<1>3. u \in monitor.left /\ \A v \in monitor.left : u <= v
  BY <1>1, <1>2, FirstUrl
<1>4. See(u, w) /\ UNCHANGED <<active, signal, permit, client>> /\ monitor.at = "probe"
  BY <1>1, Zenon DEF Probe, At
<1>5. u \in Urls /\ w \in SUBSET Urls
  BY <1>1, <1>2, <1>3
<1>6. /\ Types' /\ Tracked' /\ BestSeen' /\ NoLostWakeup'
      /\ monitor'.at = (IF w = {} THEN "select" ELSE "probe")
      /\ monitor'.current = c /\ monitor'.left = w
      /\ monitor'.seen = monitor.seen \union {u}
      /\ monitor'.good = IF Usable(u) THEN monitor.good \union {u} ELSE monitor.good
  BY <1>1, <1>4, <1>5, SeeFacts
<1>7. Cycle'
  <2>1. CASE Usable(u)
    <3>1. w = {} /\ monitor'.at = "select" /\ monitor'.good = monitor.good \union {u}
      BY <1>1, <1>6, <2>1
    <3>2. u # c /\ u \in Scope
      BY <1>2, <1>3
    <3>3. c \in monitor.good => u < c
      BY <1>1, <1>2, <1>5, <3>2, MonitorAssumption DEF Scope, Urls
    <3>4. ASSUME NEW v \in 1 .. u - 1 PROVE v \in monitor'.seen
      <4>1. v \in Scope /\ ~(u <= v)
        BY <1>1, <1>2, <1>5, <3>2, MonitorAssumption DEF Scope, Urls
      <4> QED
        BY <1>2, <1>3, <1>6, <4>1
    <3>5. u \in Urls \ {c} /\ monitor'.good \subseteq {u, c} /\ u \in monitor'.good
      BY <1>2, <1>5, <3>1, <3>2
    <3>6. c \in monitor'.good => u < c
      BY <3>1, <3>2, <3>3
    <3> QED
      BY <1>2, <1>6, <3>1, <3>4, <3>5, <3>6 DEF Cycle, At
  <2>2. CASE ~Usable(u)
    <3>1. monitor'.good = monitor.good /\ w = monitor.left \ {u}
      BY <1>1, <1>6, <2>2
    <3>2. Scope' = Scope
      BY <1>1, <1>6, <3>1 DEF Scope
    <3>3. /\ w \subseteq Scope' \ {c} /\ Scope' \ {c} \subseteq monitor'.seen \union w
          /\ c \in monitor'.seen /\ monitor'.good \subseteq {c}
      BY <1>2, <1>6, <3>1, <3>2
    <3> QED
      BY <1>6, <3>3 DEF Cycle, At
  <2> QED
    BY <2>1, <2>2
<1> QED
  BY <1>6, <1>7 DEF MonitorInv

\* The check switches to the best URL it saw, if it is better.
LEMMA SelectInv == ASSUME MonitorInv, Select PROVE MonitorInv'
<1>1. PICK c, good, seen : c = monitor.current /\ good = monitor.good /\ seen = monitor.seen
  OBVIOUS
<1>2. /\ c \in Urls /\ seen \in SUBSET Urls /\ active = c /\ monitor.at = "select"
      /\ monitor'.at = "complete" /\ monitor'.current = c /\ monitor'.good = good /\ monitor'.seen = seen
  BY <1>1 DEF MonitorInv, Types, Tracked, Select, Go, At
<1>3. active' = IF Candidates # {} THEN First(Candidates) ELSE active
  BY <1>1, <1>2 DEF Select
<1>4. /\ c \in seen
      /\ \/ good \subseteq {c} /\ Scope \ {c} \subseteq seen
         \/ \E g \in Urls \ {c} : /\ good \subseteq {g, c} /\ g \in good
                                  /\ c \in good => g < c
                                  /\ 1 .. g - 1 \subseteq seen
  BY <1>1, <1>2 DEF MonitorInv, Cycle, At
<1>5. BestSeen' /\ active' \in Urls
  <2>1. CASE good \subseteq {c} /\ Scope \ {c} \subseteq seen
    <3>1. active' = c
      BY <1>1, <1>2, <1>3, <2>1 DEF Candidates
    <3>2. CASE good = {}
      <4>1. seen = Urls
        BY <1>1, <1>2, <1>4, <2>1, <3>2, Zenon DEF Scope, Urls
      <4> QED
        BY <1>2, <3>1, <3>2, <4>1 DEF BestSeen, At, Urls
    <3>3. CASE good # {}
      <4>1. good = {c} /\ Scope = 1 .. c - 1
        BY <1>1, <2>1, <3>3 DEF Scope
      <4>2. 1 .. c - 1 \subseteq seen \ good
        BY <1>2, <2>1, <4>1, MonitorAssumption DEF Urls
      <4> QED
        BY <1>2, <3>1, <4>1, <4>2 DEF BestSeen, At
    <3> QED
      BY <3>2, <3>3
  <2>2. CASE \E g \in Urls \ {c} : /\ good \subseteq {g, c} /\ g \in good
                                   /\ c \in good => g < c
                                   /\ 1 .. g - 1 \subseteq seen
    <3>1. PICK g \in Urls \ {c} : /\ good \subseteq {g, c} /\ g \in good
                                  /\ c \in good => g < c
                                  /\ 1 .. g - 1 \subseteq seen
      BY <2>2
    <3>2. Candidates = {g}
      BY <1>1, <3>1 DEF Candidates
    <3>3. First({g}) = g
      BY <3>1, FirstUrl
    <3>4. active' = g
      BY <1>3, <3>2, <3>3
    <3>5. 1 .. g - 1 \subseteq seen \ good
      BY <1>2, <3>1, MonitorAssumption DEF Urls
    <3> QED
      BY <1>2, <3>1, <3>4, <3>5 DEF BestSeen, At
  <2> QED
    BY <1>4, <2>1, <2>2
<1>6. Types'
  BY <1>5 DEF MonitorInv, Types, Select, Go, Stages
<1>7. Tracked' /\ Cycle' /\ NoLostWakeup'
  BY <1>2 DEF Tracked, Cycle, NoLostWakeup, At
<1> QED
  BY <1>5, <1>6, <1>7 DEF MonitorInv

-----------------------------------------------------------------------------
\* MonitorInv is inductive.
LEMMA StepInv == MonitorInv /\ [Next]_vars => MonitorInv'
<1> SUFFICES ASSUME MonitorInv, [Next]_vars PROVE MonitorInv'
  OBVIOUS
<1>1. CASE Scheduled
  BY <1>1, ScheduledInv
<1>2. CASE MonitorStep
  BY <1>2, TakePendingInv, ParkInv, IsCurrentInv, ObserveCurrentInv, ProbeInv, SelectInv, CheckCompletedInv
     DEF MonitorStep
<1>3. ASSUME NEW c \in Clients, ClientStep(c) \/ (\E offset \in 0 .. N - 2 : HandleRequest(c, offset))
      PROVE  MonitorInv'
  BY <1>3, AttemptInv, NotifyOneInv, HandleRequestInv DEF ClientStep
<1>4. CASE Tick \/ \E u \in Urls, c \in Conditions : ConditionChanges(u, c)
  BY <1>4, EnvironmentInv
<1>5. CASE UNCHANGED vars
  <2>1. UNCHANGED <<active, signal, permit, monitor, client>>
    BY <1>5 DEF vars
  <2>2. Types' /\ NoLostWakeup'
    BY <2>1 DEF MonitorInv, Types, NoLostWakeup
  <2> QED
    BY <2>1, <2>2, Aside DEF MonitorInv
<1> QED
  BY <1>1, <1>2, <1>3, <1>4, <1>5 DEF Next

\* MonitorInv holds throughout, for any number of URLs and of requests.
THEOREM Invariance == Spec => []MonitorInv
BY InitInv, StepInv, PTL DEF Spec

\* Between two checks the signal counts the outcomes of the active URL, so that
\* report never drops them (check_completed).
THEOREM Follows == Spec => []SignalFollows
<1>1. MonitorInv => SignalFollows
  BY DEF MonitorInv, Tracked, SignalFollows, At
<1> QED
  BY <1>1, Invariance, PTL

\* A check leaves the first URL active that it saw usable, with none usable before
\* it, although observe_nodes stops early.
THEOREM ChoosesBest == Spec => []BestSeen
<1>1. MonitorInv => BestSeen
  BY DEF MonitorInv
<1> QED
  BY <1>1, Invariance, PTL

\* The monitor never sleeps through a pending check: a permit is there or a
\* request is about to give it (report, wait).
THEOREM Wakes == Spec => []NoLostWakeup
<1>1. MonitorInv => NoLostWakeup
  BY DEF MonitorInv
<1> QED
  BY <1>1, Invariance, PTL

\* An outcome moves the tracker only when it is the first attempt's, and that was
\* made at the URL which the signal follows at the moment of the report.
THEOREM CountsOwn == Spec => OnlyOwnOutcomes
<1> DEFINE Own(c) == client'[c] # client[c] /\ signal'.tracker # signal.tracker =>
                         client[c].urls[client[c].index] = signal.url
<1>1. ASSUME MonitorInv, NEW d \in Clients, NEW answer \in {"ok", "failed"}, NEW cached \in BOOLEAN,
             Attempt(d, answer, cached), NEW c \in Clients
      PROVE  Own(c)
  <2>1. CASE c # d
    BY <1>1, <2>1 DEF Attempt, MonitorInv, Types
  <2>2. CASE c = d
    <3>1. PICK r, counted : /\ r = Report(client[c].urls[1], answer = "failed")
                            /\ counted = (client[c].index = 1 /\ ~cached)
      OBVIOUS
    <3>2. signal' = IF counted
                    THEN [url |-> signal.url, tracker |-> r.tracker, pending |-> signal.pending \/ r.triggered]
                    ELSE signal
      BY <1>1, <2>2, <3>1, Zenon DEF Attempt
    <3>3. CASE counted /\ signal.url = client[c].urls[1]
      BY <3>1, <3>3
    <3>4. CASE counted /\ signal.url # client[c].urls[1]
      <4>1. r.tracker = signal.tracker
        BY <3>1, <3>4 DEF Report
      <4> QED
        BY <3>2, <3>4, <4>1
    <3>5. CASE ~counted
      BY <3>2, <3>5
    <3> QED
      BY <3>1, <3>3, <3>4, <3>5
  <2> QED
    BY <2>1, <2>2
<1>2. ASSUME MonitorInv, Next, NEW c \in Clients PROVE Own(c)
  <2>1. CASE Scheduled \/ MonitorStep \/ Tick
    BY <2>1 DEF Scheduled, MonitorStep, TakePending, Park, Wake, IsCurrent, ObserveCurrent, Probe, Select,
               CheckCompleted, Tick
  <2>2. ASSUME NEW d \in Clients, NotifyOne(d) PROVE Own(c)
    BY <2>2 DEF NotifyOne
  <2>3. ASSUME NEW d \in Clients, NEW offset \in 0 .. N - 2, HandleRequest(d, offset) PROVE Own(c)
    BY <2>3 DEF HandleRequest
  <2>4. ASSUME NEW u \in Urls, NEW x \in Conditions, ConditionChanges(u, x) PROVE Own(c)
    BY <2>4 DEF ConditionChanges
  <2> HIDE DEF Own
  <2> QED
    BY <1>1, <1>2, <2>1, <2>2, <2>3, <2>4 DEF Next, ClientStep
<1>3. MonitorInv /\ [Next]_vars => [\A c \in Clients : Own(c)]_vars
  <2> HIDE DEF Own
  <2> QED
    BY <1>2
<1> QED
  BY <1>3, Invariance, PTL DEF Spec, OnlyOwnOutcomes

-----------------------------------------------------------------------------
(* The order of the URLs and the other types.                              *)

Order == {f \in [Urls -> Urls] : {f[i] : i \in Urls} = Urls}
Requests == [at : {"attempt", "ok", "failed"}, urls : Order, index : 1 .. max_attempts]

\* What TypeOK adds to MonitorInv.
RequestInv ==
    /\ condition \in [Urls -> Conditions] /\ client \in [Clients -> {Idle} \union Requests]
    /\ monitor.good \subseteq monitor.seen /\ monitor.left \intersect monitor.seen = {}

\* Swapping the active URL to the front and rotating the others loses none of them
\* (get_ordered_urls).
LEMMA OrderedUrlsPermute ==
  ASSUME active \in Urls, NEW offset \in 0 .. N - 2
  PROVE  OrderedUrls(offset) \in Order
<1> DEFINE swapped == [i \in Urls |-> IF i = 1 THEN active ELSE IF i = active THEN 1 ELSE i]
           place(i) == 2 + ((i - 2 + offset) % (N - 1))
           f == OrderedUrls(offset)
<1>1. N \in Nat /\ N - 1 \in Nat \ {0} /\ Urls = 1 .. N
  BY MonitorAssumption DEF Urls
<1>2. \A a \in Nat : a % (N - 1) \in 0 .. N - 2
  BY <1>1
<1>3. \A a \in 0 .. N - 2 : a % (N - 1) = a /\ (a + (N - 1)) % (N - 1) = a
  BY <1>1
<1>4. \A i \in 2 .. N : place(i) \in 2 .. N
  <2> TAKE i \in 2 .. N
  <2>1. PICK a \in Nat : a = i - 2 + offset
    BY <1>1
  <2>2. PICK m \in 0 .. N - 2 : m = a % (N - 1)
    BY <1>2, Zenon
  <2>3. 2 + m \in 2 .. N
    BY <1>1
  <2> QED
    BY <2>1, <2>2, <2>3
<1>5. f = [i \in Urls |-> IF i = 1 THEN active ELSE swapped[place(i)]]
  BY Zenon DEF OrderedUrls
<1>6. \A i \in 2 .. N : swapped[i] \in Urls /\ swapped[i] = (IF i = active THEN 1 ELSE i)
  BY <1>1
<1> HIDE DEF f, swapped
<1>7. f \in [Urls -> Urls]
  <2>1. \A i \in Urls : (IF i = 1 THEN active ELSE swapped[place(i)]) \in Urls
    <3> HIDE DEF place
    <3> QED
      BY <1>1, <1>4, <1>6
  <2> QED
    BY <1>5, <2>1
<1>8. ASSUME NEW u \in Urls PROVE \E i \in Urls : f[i] = u
  <2>1. CASE u = active
    <3> HIDE DEF place
    <3>1. 1 \in Urls /\ f[1] = active
      BY <1>1, <1>5
    <3> QED
      BY <2>1, <3>1
  <2>2. CASE u # active
    <3>1. PICK w \in 2 .. N : swapped[w] = u
      <4>1. CASE u = 1
        BY <1>1, <1>6, <2>2, <4>1
      <4>2. CASE u # 1
        BY <1>1, <1>6, <2>2, <4>2
      <4> QED
        BY <4>1, <4>2
    <3>2. PICK i \in 2 .. N : i - 2 + offset = w - 2 \/ i - 2 + offset = (w - 2) + (N - 1)
      <4>1. CASE w - 2 >= offset
        <5>1. w - offset \in 2 .. N /\ (w - offset) - 2 + offset = w - 2
          BY <1>1, <4>1
        <5> QED
          BY <5>1
      <4>2. CASE ~(w - 2 >= offset)
        <5>1. w - offset + (N - 1) \in 2 .. N /\ (w - offset + (N - 1)) - 2 + offset = (w - 2) + (N - 1)
          BY <1>1, <4>2
        <5> QED
          BY <5>1
      <4> QED
        BY <4>1, <4>2
    <3>3. (i - 2 + offset) % (N - 1) = w - 2
      BY <1>1, <1>3, <3>2
    <3>4. place(i) = w
      BY <1>1, <3>3
    <3> HIDE DEF place
    <3> QED
      BY <1>1, <1>5, <3>1, <3>4
  <2> QED
    BY <2>1, <2>2
<1>9. {f[i] : i \in Urls} = Urls
  BY <1>7, <1>8
<1> QED
  BY <1>7, <1>9 DEF f, Order

\* Every request has at least one attempt.
LEMMA Attempts == max_attempts \in Nat /\ 1 <= max_attempts
BY MonitorAssumption DEF max_attempts

\* An answer ends a request or leaves it to its next attempt.
LEMMA AnsweredType ==
  ASSUME NEW q \in Requests, NEW answer
  PROVE  Answered(q, answer) \in {Idle} \union Requests
<1>1. q.urls \in Order /\ q.index \in 1 .. max_attempts
  BY DEF Requests
<1>2. CASE answer = "failed" /\ q.index < max_attempts
  <2>1. q.index + 1 \in 1 .. max_attempts
    BY <1>1, <1>2, Attempts
  <2> QED
    BY <1>1, <1>2, <2>1 DEF Answered, Requests
<1>3. CASE ~(answer = "failed" /\ q.index < max_attempts)
  BY <1>3 DEF Answered
<1> QED
  BY <1>2, <1>3

\* A request that is not idle has all fields.
LEMMA Running ==
  ASSUME RequestInv, NEW c \in Clients, client[c].at # "idle"
  PROVE  client[c] \in Requests
BY DEF RequestInv, Idle

\* The steps of a request.
LEMMA ClientRequests ==
  ASSUME MonitorInv, RequestInv, NEW c \in Clients,
         ClientStep(c) \/ \E offset \in 0 .. N - 2 : HandleRequest(c, offset)
  PROVE  RequestInv'
<1> SUFFICES ASSUME TRUE PROVE \E x \in {Idle} \union Requests : client' = [client EXCEPT ![c] = x]
  BY Zenon DEF RequestInv, ClientStep, Attempt, NotifyOne, HandleRequest
<1>1. ASSUME NEW offset \in 0 .. N - 2, HandleRequest(c, offset)
      PROVE  \E x \in Requests : client' = [client EXCEPT ![c] = x]
  <2>1. PICK f \in Order : f = OrderedUrls(offset)
    BY OrderedUrlsPermute DEF MonitorInv, Types
  <2>2. client' = [client EXCEPT ![c] = [at |-> "attempt", urls |-> f, index |-> 1]]
    BY <1>1, <2>1, Zenon DEF HandleRequest
  <2>3. [at |-> "attempt", urls |-> f, index |-> 1] \in Requests
    BY Attempts DEF Requests
  <2> QED
    BY <2>2, <2>3, Zenon
<1>2. ASSUME NotifyOne(c)
      PROVE  \E x \in {Idle} \union Requests : client' = [client EXCEPT ![c] = x]
  <2>1. client[c] \in Requests
    BY <1>2, Running DEF NotifyOne
  <2> QED
    BY <1>2, <2>1, AnsweredType, Zenon DEF NotifyOne
<1>3. ASSUME NEW answer \in {"ok", "failed"}, NEW cached \in BOOLEAN, Attempt(c, answer, cached)
      PROVE  \E x \in {Idle} \union Requests : client' = [client EXCEPT ![c] = x]
  <2>1. client[c] \in Requests
    BY <1>3, Running DEF Attempt
  <2>2. PICK q \in Requests : q = client[c]
    BY <2>1
  <2>3. \E b \in BOOLEAN : client' = [client EXCEPT ![c] = IF b THEN [q EXCEPT !.at = answer] ELSE Answered(q, answer)]
    <3>1. PICK r : r = Report(q.urls[1], answer = "failed")
      OBVIOUS
    <3>2. PICK b \in BOOLEAN : b <=> (q.index = 1 /\ ~cached) /\ r.triggered
      BY Zenon
    <3>3. client' = [client EXCEPT ![c] = IF (q.index = 1 /\ ~cached) /\ r.triggered THEN [q EXCEPT !.at = answer]
                                          ELSE Answered(q, answer)]
      BY <1>3, <2>2, <3>1, Zenon DEF Attempt
    <3> QED
      BY <3>2, <3>3, Zenon
  <2>4. [q EXCEPT !.at = answer] \in Requests /\ Answered(q, answer) \in {Idle} \union Requests
    BY AnsweredType DEF Requests
  <2> QED
    BY <2>3, <2>4, Zenon
<1> QED
  BY <1>1, <1>2, <1>3 DEF ClientStep

\* The steps of a check.
LEMMA MonitorRequests ==
  ASSUME MonitorInv, RequestInv, Scheduled \/ MonitorStep
  PROVE  RequestInv'
<1>1. UNCHANGED <<condition, client>>
  BY Zenon DEF Scheduled, MonitorStep, TakePending, Park, Wake, IsCurrent, ObserveCurrent, Probe, Select, CheckCompleted
<1> SUFFICES monitor'.good \subseteq monitor'.seen /\ monitor'.left \intersect monitor'.seen = {}
  BY <1>1, Zenon DEF RequestInv
<1>2. monitor.seen \subseteq Urls /\ monitor.left \subseteq Urls /\ monitor.current \in Urls
  BY DEF MonitorInv, Types
<1>3. CASE Scheduled \/ IsCurrent \/ CheckCompleted \/ TakePending
  <2>1. monitor'.good = {} /\ monitor'.left = {}
    <3>1. CASE Scheduled
      BY <3>1 DEF Scheduled, Resting
    <3>2. CASE IsCurrent
      BY <3>2 DEF IsCurrent, Resting
    <3>3. CASE CheckCompleted
      BY <3>3 DEF CheckCompleted, Resting
    <3>4. CASE TakePending
      <4>1. CASE signal.pending
        BY <3>4, <4>1 DEF TakePending, Resting
      <4>2. CASE ~signal.pending
        BY <3>4, <4>2 DEF TakePending, Resting
      <4> QED
        BY <4>1, <4>2
    <3> QED
      BY <1>3, <3>1, <3>2, <3>3, <3>4
  <2> QED
    BY <2>1
<1>4. CASE Park \/ Wake \/ Select
  BY <1>4 DEF Park, Wake, Select, Go, RequestInv, MonitorInv, Types
<1>5. ASSUME NEW u, NEW rest, See(u, rest), u \notin rest, rest \intersect monitor.seen = {}
      PROVE  monitor'.good \subseteq monitor'.seen /\ monitor'.left \intersect monitor'.seen = {}
  BY <1>5 DEF See, RequestInv
<1>6. CASE ObserveCurrent
  <2>1. PICK u, rest : u = monitor.current /\ rest = probe_indices(u, Usable(u)) /\ See(u, rest)
    BY <1>6, Zenon DEF ObserveCurrent
  <2>2. u \notin rest /\ monitor.seen = {}
    BY <1>6, <2>1 DEF probe_indices, MonitorInv, Cycle, ObserveCurrent
  <2> QED
    BY <1>5, <2>1, <2>2
<1>7. CASE Probe
  <2>1. PICK u, rest : u = First(monitor.left) /\ rest = (IF Usable(u) THEN {} ELSE monitor.left \ {u}) /\ See(u, rest)
    BY <1>7, Zenon DEF Probe
  <2> QED
    BY <1>5, <2>1 DEF RequestInv
<1> QED
  BY <1>3, <1>4, <1>6, <1>7 DEF MonitorStep

\* RequestInv is inductive on top of MonitorInv.
LEMMA StepRequests == MonitorInv /\ RequestInv /\ [Next]_vars => RequestInv'
<1> SUFFICES ASSUME MonitorInv, RequestInv, [Next]_vars PROVE RequestInv'
  OBVIOUS
<1>1. CASE Scheduled \/ MonitorStep
  BY <1>1, MonitorRequests
<1>2. ASSUME NEW c \in Clients, ClientStep(c) \/ \E offset \in 0 .. N - 2 : HandleRequest(c, offset)
      PROVE  RequestInv'
  BY <1>2, ClientRequests
<1>3. CASE Tick \/ UNCHANGED vars
  BY <1>3 DEF Tick, vars, RequestInv
<1>4. ASSUME NEW u \in Urls, NEW c \in Conditions, ConditionChanges(u, c) PROVE RequestInv'
  BY <1>4 DEF ConditionChanges, RequestInv
<1> QED
  BY <1>1, <1>2, <1>3, <1>4 DEF Next

\* Every request tries the URLs in an order that repeats none and leaves none out,
\* whichever URL is active and however the hash rotates the others, and never more
\* often than effective_max_attempts allows.
THEOREM TypeCorrect == Spec => []TypeOK
<1>1. Init => RequestInv
  BY DEF Init, RequestInv
<1>2. MonitorInv /\ RequestInv => TypeOK
  BY DEF MonitorInv, Types, Stages, RequestInv, Requests, Order, TypeOK
<1> QED
  BY <1>1, <1>2, StepRequests, Invariance, PTL DEF Spec
=============================================================================
