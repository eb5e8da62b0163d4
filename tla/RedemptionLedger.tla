--------------------------- MODULE RedemptionLedger ---------------------------
(***************************************************************************)
(* What redeeming reward points promises (apps/api, apps/daemon,           *)
(* crates/storage): points and stock are taken together and only when      *)
(* there are enough, a redemption is paid at most once, it is completed    *)
(* only when paid, and an outcome is final.                                *)
(*                                                                         *)
(* A redemption whose message two consumers examine at the same time is    *)
(* contended: nothing is promised of its payment and its outcome, but it   *)
(* still touches no account.  RewardsRedemption implements this module.    *)
(***************************************************************************)
EXTENDS Naturals

CONSTANTS
    Users, Options, Requests,
    Cost,       \* [Options -> points]
    Limited,    \* the options with a number of remaining pieces
    Stock,      \* [Limited -> remaining pieces at the start]
    Balance,    \* [Users -> points at the start]
    Awards      \* the points that reward events give

VARIABLES points, stock, outcome, transfers, contended

vars == <<points, stock, outcome, transfers, contended>>
accounts == <<points, stock>>

Init ==
    /\ points = Balance /\ stock = Stock
    /\ outcome = [r \in Requests |-> "none"]
    /\ transfers = [r \in Requests |-> 0]
    /\ contended = {}

Earn(u, n) ==
    /\ points' = [points EXCEPT ![u] = @ + n]
    /\ UNCHANGED <<stock, outcome, transfers, contended>>

Grant(r, u, o) ==
    /\ outcome[r] = "none" /\ points[u] >= Cost[o]
    /\ points' = [points EXCEPT ![u] = @ - Cost[o]]
    /\ IF o \in Limited
       THEN stock[o] > 0 /\ stock' = [stock EXCEPT ![o] = @ - 1]
       ELSE UNCHANGED stock
    /\ outcome' = [outcome EXCEPT ![r] = "open"]
    /\ UNCHANGED <<transfers, contended>>

Pay(r) ==
    /\ outcome[r] = "open" /\ transfers[r] = 0
    /\ transfers' = [transfers EXCEPT ![r] = 1]
    /\ UNCHANGED <<accounts, outcome, contended>>

Complete(r) ==
    /\ outcome[r] = "open" /\ transfers[r] = 1
    /\ outcome' = [outcome EXCEPT ![r] = "completed"]
    /\ UNCHANGED <<accounts, transfers, contended>>

\* A failed redemption may have been paid: the answer to a transfer can be lost.
Fail(r) ==
    /\ outcome[r] = "open"
    /\ outcome' = [outcome EXCEPT ![r] = "failed"]
    /\ UNCHANGED <<accounts, transfers, contended>>

Contend(r) ==
    /\ outcome[r] = "open"
    /\ contended' = contended \union {r}
    /\ UNCHANGED <<accounts, outcome, transfers>>

\* A contended redemption is paid again, or its outcome is replaced.
Unpromised(r) ==
    /\ r \in contended
    /\ \/ transfers' = [transfers EXCEPT ![r] = @ + 1] /\ UNCHANGED outcome
       \/ /\ \E x \in {"open", "completed", "failed"} : outcome' = [outcome EXCEPT ![r] = x]
          /\ UNCHANGED transfers
    /\ UNCHANGED <<accounts, contended>>

Next ==
    \/ \E u \in Users, n \in Awards : Earn(u, n)
    \/ \E r \in Requests, u \in Users, o \in Options : Grant(r, u, o)
    \/ \E r \in Requests : Pay(r) \/ Complete(r) \/ Fail(r) \/ Contend(r) \/ Unpromised(r)

Spec == Init /\ [][Next]_vars
===============================================================================
