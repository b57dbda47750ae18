------------------------------- MODULE Policy -------------------------------
(***************************************************************************)
(* The attempt limiter of daemon/src/policy.rs: what one user's entry of   *)
(* Policy.per_uid holds and what the three operations of Policy do to it.  *)
(*                                                                         *)
(* The Instant in locked_until is abstracted to where the clock stands     *)
(* with respect to it: no lockout was set, it lies in the future           *)
(* ("running"), or it has passed ("expired").                              *)
(***************************************************************************)
EXTENDS Naturals

LockStates == {"off", "running", "expired"}

\* Attempts::default()
NoFailures == [failures |-> 0, lock |-> "off"]

\* max_failures.clamp(1, 20)
Clamp(m) == IF m < 1 THEN 1 ELSE IF m > 20 THEN 20 ELSE m

-----------------------------------------------------------------------------
(* Policy::check: the entry it leaves behind, and whether it refuses.      *)

Refuses(p) == p.lock = "running"

\* The lockout ends but the counter is kept (Bad...: a faulty variant of the
\* definition that follows, to test the properties with).
BadAfterCheck(p) == IF p.lock = "expired" THEN [failures |-> p.failures, lock |-> "off"] ELSE p

AfterCheck(p) == IF p.lock = "expired" THEN NoFailures ELSE p

(* Policy::record_success and Policy::record_failure.                      *)

AfterSuccess(p) == NoFailures

\* One attempt too many.
BadAfterFailure(p, max) ==
    LET n == p.failures + 1
    IN  [failures |-> n,
         lock     |-> IF n > Clamp(max) THEN "running" ELSE p.lock]

AfterFailure(p, max) ==
    LET n == p.failures + 1
    IN  [failures |-> n,
         lock     |-> IF n >= Clamp(max) THEN "running" ELSE p.lock]

(* The lockout deadline passes.                                            *)
AfterDeadline(p) == [failures |-> p.failures, lock |-> "expired"]
=============================================================================
