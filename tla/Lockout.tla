------------------------------ MODULE Lockout ------------------------------
(***************************************************************************)
(* What the daemon promises about repeated failures, without threads,      *)
(* locks or scans: each attempt that is judged is judged in one step, and  *)
(* only while its user is not locked out.                                  *)
(***************************************************************************)
EXTENDS Naturals

CONSTANTS Uids, Configs

VARIABLES
    strikes,  \* consecutive failures on record for each user
    gate      \* "off": open; "running": locked out; "expired": due to reopen

vars == <<strikes, gate>>

Limit(c) == IF c.maxFailures < 1 THEN 1
            ELSE IF c.maxFailures > 20 THEN 20 ELSE c.maxFailures

Init ==
    /\ strikes = [u \in Uids |-> 0]
    /\ gate = [u \in Uids |-> "off"]

Succeed(u) ==
    /\ gate[u] = "off"
    /\ strikes' = [strikes EXCEPT ![u] = 0]
    /\ UNCHANGED gate

\* The strike that reaches the limit of the configuration closes the gate.
Fail(u, c) ==
    /\ gate[u] = "off"
    /\ strikes' = [strikes EXCEPT ![u] = @ + 1]
    /\ gate' = [gate EXCEPT ![u] = IF strikes[u] + 1 >= Limit(c) THEN "running" ELSE @]

Expire(u) ==
    /\ gate[u] = "running"
    /\ gate' = [gate EXCEPT ![u] = "expired"]
    /\ UNCHANGED strikes

Reopen(u) ==
    /\ gate[u] = "expired"
    /\ gate' = [gate EXCEPT ![u] = "off"]
    /\ strikes' = [strikes EXCEPT ![u] = 0]

\* The daemon restarts: nothing of this is on disk.
Forget == strikes' = [u \in Uids |-> 0] /\ gate' = [u \in Uids |-> "off"]

Next ==
    \/ \E u \in Uids : Succeed(u) \/ Expire(u) \/ Reopen(u)
    \/ \E u \in Uids, c \in Configs : Fail(u, c)
    \/ Forget

Spec == Init /\ [][Next]_vars
=============================================================================
