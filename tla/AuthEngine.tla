----------------------------- MODULE AuthEngine -----------------------------
(***************************************************************************)
(* Engine::authenticate of daemon/src/session.rs: the decision "this       *)
(* attempt unlocks, is refused, or falls through to the password", taken   *)
(* by any number of attempts at once, with everything they share: the      *)
(* configuration, the enrolled identities, the attempt limiter, the lock   *)
(* of each user, the scan permits and the channel of ScanState events.     *)
(*                                                                         *)
(* One action is one stretch of the async function between two awaits.     *)
(*                                                                         *)
(* The tokio mutexes and the semaphore hand over in FIFO order; here they  *)
(* go to any waiter, and strong fairness stands for the queue.             *)
(***************************************************************************)
EXTENDS Policy, FiniteSets

CONSTANTS
    Uids,        \* the accounts of the machine
    Attempts,    \* calls of authenticate that may be in flight together
    Services,    \* PAM service names
    Identities,  \* identity names
    Configs,     \* configurations: see IsConfig
    Stores,      \* what may be enrolled and enabled: sets of <<identity, model>>
    Evidence,    \* what a completed scan may report: see IsEvidence
    Slots,       \* permits of scan_slots (2 in main.rs)
    ChanCap,     \* capacity of the ScanState channel (64 in main.rs)
    None

IsConfig(c) ==
    /\ c.enabled \in BOOLEAN
    /\ c.services \subseteq Services
    /\ c.excluded \subseteq Uids
    /\ c.strictness \in {"off", "light", "heavy"}
    /\ c.requireAttention \in BOOLEAN
    /\ c.voteK \in Nat \ {0}
    /\ c.maxFailures \in Nat

\* frames: the embeddings of the vote window, each as the set of identities
\* one of whose same-spectrum templates it clears tau against.
IsEvidence(ev) ==
    /\ ev.deny \in BOOLEAN
    /\ ev.attention \in BOOLEAN
    /\ ev.confirm \in BOOLEAN
    /\ \A f \in DOMAIN ev.frames : ev.frames[f] \subseteq Identities

ASSUME AuthAssumption ==
    /\ None \notin Uids \cup Attempts \cup Configs
    /\ Slots \in Nat \ {0}
    /\ ChanCap \in Nat \ {0}
    /\ IsFiniteSet(Attempts)
    /\ \A c \in Configs : IsConfig(c)
    /\ \A ev \in Evidence : IsEvidence(ev)

VARIABLES
    cfg,      \* Engine.cfg
    store,    \* per uid, the enabled identities with the model they belong to
    policy,   \* Engine.policy: one Policy entry per uid
    holder,   \* Engine.auth_locks: who holds the lock of each uid
    permits,  \* free permits of Engine.scan_slots
    backlog,  \* events waiting in the ScanState channel
    pc,       \* where each attempt is
    who,      \* the uid argument of each attempt
    snap,     \* the configuration each attempt cloned when it began
    verdict,  \* what an attempt has concluded so far
    reply,    \* the last AuthOutcome each attempt returned
    base      \* history: the failure counter an attempt found at its check

vars == <<cfg, store, policy, holder, permits, backlog,
          pc, who, snap, verdict, reply, base>>

shared == <<cfg, store, policy, holder, permits, backlog>>
local  == <<pc, who, snap, verdict, reply, base>>

-----------------------------------------------------------------------------
(* Where an attempt can be.                                                *)

Holding  == {"waking", "searching", "scanning", "record", "finishing"}
Critical == {"check", "enrolled", "refusing", "slot"} \cup Holding
PCs      == {"idle", "lock"} \cup Critical

\* Attempts that have passed the policy check and have not been judged yet.
Unjudged == {"enrolled", "slot", "waking", "searching", "scanning", "record"}

Verdicts == {"none", "accepted", "rejected", "no_identities",
             "camera_error", "timeout"}

\* The AuthOutcome of a verdict: success, deny or unavailable.
Outcome(v) ==
    IF v = "accepted" THEN "success"
    ELSE IF v \in {"rejected", "timeout"} THEN "deny" ELSE "unavailable"

Init ==
    /\ cfg \in Configs
    /\ store \in [Uids -> Stores]
    /\ policy = [u \in Uids |-> NoFailures]
    /\ holder = [u \in Uids |-> None]
    /\ permits = Slots
    /\ backlog = 0
    /\ pc = [a \in Attempts |-> "idle"]
    /\ who = [a \in Attempts |-> None]
    /\ snap = [a \in Attempts |-> None]
    /\ verdict = [a \in Attempts |-> "none"]
    /\ reply = [a \in Attempts |-> "none"]
    /\ base = [a \in Attempts |-> 0]

-----------------------------------------------------------------------------
(* Helpers shared by the steps.                                            *)

Goto(a, from, to) ==
    /\ pc[a] = from
    /\ pc' = [pc EXCEPT ![a] = to]

\* Faulty variants, named Bad..., turn the definition that follows them into
\* what a plausible bug would make of it; they serve to test the properties.

BadEmit == backlog' = backlog + 1

\* Engine::emit: send on the bounded channel, waiting while it is full.
Emit == /\ backlog < ChanCap
        /\ backlog' = backlog + 1

\* The uid guard outlives the function.
BadReturn(a, from, outcome) ==
    /\ Goto(a, from, "idle")
    /\ reply' = [reply EXCEPT ![a] = outcome]
    /\ who' = [who EXCEPT ![a] = None]
    /\ snap' = [snap EXCEPT ![a] = None]
    /\ verdict' = [verdict EXCEPT ![a] = "none"]
    /\ base' = [base EXCEPT ![a] = 0]
    /\ UNCHANGED holder

\* authenticate() returns: its outcome goes to the caller, its locals and
\* the uid guard are dropped.
Return(a, from, outcome) ==
    /\ Goto(a, from, "idle")
    /\ reply' = [reply EXCEPT ![a] = outcome]
    /\ who' = [who EXCEPT ![a] = None]
    /\ snap' = [snap EXCEPT ![a] = None]
    /\ verdict' = [verdict EXCEPT ![a] = "none"]
    /\ base' = [base EXCEPT ![a] = 0]
    /\ holder' = [holder EXCEPT ![who[a]] = None]

NotAllowed(c, u, s) ==
    \/ ~c.enabled
    \/ s \notin c.services
    \/ u \in c.excluded

LivenessOk(c, ev) ==
    \/ c.strictness = "off"
    \/ /\ ~ev.deny
       /\ c.requireAttention => ev.attention
       /\ c.strictness = "heavy" => ev.confirm

\* Store::load_enabled(uid, model_id)
LoadEnabled(u, model) == {i \in Identities : <<i, model>> \in store[u]}

\* matcher::vote over the loaded identities: the frames that match one.
Accepted(c, ev, ids) ==
    Cardinality({f \in DOMAIN ev.frames : ev.frames[f] \cap ids # {}}) >= c.voteK

-----------------------------------------------------------------------------
(* The steps of an attempt, in the order of the function.                  *)

\* Disabled, a service that is not allowed, an excluded user: unavailable at
\* once, before any lock is taken.
Decline(a, u, s) ==
    /\ pc[a] = "idle"
    /\ NotAllowed(cfg, u, s)
    /\ reply' = [reply EXCEPT ![a] = "unavailable"]
    /\ UNCHANGED <<shared, pc, who, snap, verdict, base>>

\* The configuration is cloned here, before the uid lock is awaited.
Begin(a, u, s) ==
    /\ ~NotAllowed(cfg, u, s)
    /\ Goto(a, "idle", "lock")
    /\ who' = [who EXCEPT ![a] = u]
    /\ snap' = [snap EXCEPT ![a] = cfg]
    /\ reply' = [reply EXCEPT ![a] = "none"]
    /\ UNCHANGED <<shared, verdict, base>>

\* No lock per user, as before the audit the comment of auth_locks names.
BadLockUid(a) ==
    /\ Goto(a, "lock", "check")
    /\ holder' = [holder EXCEPT ![who[a]] = a]
    /\ UNCHANGED <<cfg, store, policy, permits, backlog, who, snap, verdict, reply, base>>

LockUid(a) ==
    /\ Goto(a, "lock", "check")
    /\ holder[who[a]] = None
    /\ holder' = [holder EXCEPT ![who[a]] = a]
    /\ UNCHANGED <<cfg, store, policy, permits, backlog, who, snap, verdict, reply, base>>

CheckRefuses(a) ==
    /\ Return(a, "check", "deny")
    /\ Refuses(policy[who[a]])
    /\ UNCHANGED <<cfg, store, policy, permits, backlog>>

CheckAllows(a) ==
    LET p == AfterCheck(policy[who[a]])
    IN  /\ Goto(a, "check", "enrolled")
        /\ ~Refuses(policy[who[a]])
        /\ policy' = [policy EXCEPT ![who[a]] = p]
        /\ base' = [base EXCEPT ![a] = p.failures]
        /\ UNCHANGED <<cfg, store, holder, permits, backlog, who, snap, verdict, reply>>

\* Store::any_enabled, which does not ask which model an identity is for.
Enrolled(a) ==
    /\ Goto(a, "enrolled", IF store[who[a]] = {} THEN "refusing" ELSE "slot")
    /\ UNCHANGED <<shared, who, snap, verdict, reply, base>>

\* Rejected is emitted and the attempt returns without having had a permit.
ReturnUnenrolled(a) ==
    /\ Emit
    /\ Return(a, "refusing", "unavailable")
    /\ UNCHANGED <<cfg, store, policy, permits>>

TakeSlot(a) ==
    /\ Goto(a, "slot", "waking")
    /\ permits > 0
    /\ permits' = permits - 1
    /\ UNCHANGED <<cfg, store, policy, holder, backlog, who, snap, verdict, reply, base>>

EmitWaking(a) ==
    /\ Goto(a, "waking", "searching")
    /\ Emit
    /\ UNCHANGED <<cfg, store, policy, holder, permits, who, snap, verdict, reply, base>>

EmitSearching(a) ==
    /\ Goto(a, "searching", "scanning")
    /\ Emit
    /\ UNCHANGED <<cfg, store, policy, holder, permits, who, snap, verdict, reply, base>>

\* The pump task forwards a progress event of the running scan.
EmitProgress(a) ==
    /\ pc[a] = "scanning"
    /\ Emit
    /\ UNCHANGED <<cfg, store, policy, holder, permits, local>>

\* A scan that failed is recorded like a face that did not match.
BadScanFails(a, why) ==
    /\ Goto(a, "scanning", "record")
    /\ verdict' = [verdict EXCEPT ![a] = why]
    /\ UNCHANGED <<shared, who, snap, reply, base>>

\* Worker::scan failed: no identity is loaded and nothing is recorded.
ScanFails(a, why) ==
    /\ Goto(a, "scanning", "finishing")
    /\ verdict' = [verdict EXCEPT ![a] = why]
    /\ UNCHANGED <<shared, who, snap, reply, base>>

\* The answer any_enabled gave before the scan is trusted after it.
BadScanReports(a, ev) ==
    /\ Goto(a, "scanning", "record")
    /\ verdict' = [verdict EXCEPT ![a] =
                     IF Accepted(snap[a], ev, Identities) /\ LivenessOk(snap[a], ev)
                     THEN "accepted" ELSE "rejected"]
    /\ UNCHANGED <<shared, who, snap, reply, base>>

\* Worker::scan returned evidence. The identities are read now, not before
\* the scan, and with the model that made the embeddings.
ScanReports(a, ev) ==
    LET ids == LoadEnabled(who[a], ev.model)
    IN  /\ Goto(a, "scanning", IF ids = {} THEN "finishing" ELSE "record")
        /\ verdict' = [verdict EXCEPT ![a] =
                         IF ids = {} THEN "no_identities"
                         ELSE IF Accepted(snap[a], ev, ids) /\ LivenessOk(snap[a], ev)
                              THEN "accepted" ELSE "rejected"]
        /\ UNCHANGED <<shared, who, snap, reply, base>>

Record(a) ==
    LET p == policy[who[a]]
    IN  /\ Goto(a, "record", "finishing")
        /\ policy' = [policy EXCEPT ![who[a]] =
                        IF verdict[a] = "accepted" THEN AfterSuccess(p)
                        ELSE AfterFailure(p, snap[a].maxFailures)]
        /\ UNCHANGED <<cfg, store, holder, permits, backlog, who, snap, verdict, reply, base>>

\* The camera-error path forgets the permit.
BadFinish(a) ==
    /\ Emit
    /\ Return(a, "finishing", Outcome(verdict[a]))
    /\ permits' = IF verdict[a] = "camera_error" THEN permits ELSE permits + 1
    /\ UNCHANGED <<cfg, store, policy>>

\* The closing event (Matched, Rejected, Timeout or CameraError) is sent, then
\* the function returns and drops the permit and the uid guard.
Finish(a) ==
    /\ Emit
    /\ Return(a, "finishing", Outcome(verdict[a]))
    /\ permits' = permits + 1
    /\ UNCHANGED <<cfg, store, policy>>

-----------------------------------------------------------------------------
(* What happens around the attempts.                                       *)

\* Daemon1.set_settings installs another configuration.
SetSettings(c) ==
    /\ cfg' = c
    /\ UNCHANGED <<store, policy, holder, permits, backlog, local>>

\* An enrollment, a deletion or set_identity_enabled changes what is enabled.
StoreChanges(u, s) ==
    /\ store' = [store EXCEPT ![u] = s]
    /\ UNCHANGED <<cfg, policy, holder, permits, backlog, local>>

\* The clock reaches locked_until.
LockoutExpires(u) ==
    /\ Refuses(policy[u])
    /\ policy' = [policy EXCEPT ![u] = AfterDeadline(policy[u])]
    /\ UNCHANGED <<cfg, store, holder, permits, backlog, local>>

\* run_signal_pump (or drain, without a bus) takes one event.
Deliver ==
    /\ backlog > 0
    /\ backlog' = backlog - 1
    /\ UNCHANGED <<cfg, store, policy, holder, permits, local>>

\* The daemon process dies and is started again: configuration and templates
\* are on disk, everything else is gone, the failure counters included.
Restart ==
    /\ policy' = [u \in Uids |-> NoFailures]
    /\ holder' = [u \in Uids |-> None]
    /\ permits' = Slots
    /\ backlog' = 0
    /\ pc' = [a \in Attempts |-> "idle"]
    /\ who' = [a \in Attempts |-> None]
    /\ snap' = [a \in Attempts |-> None]
    /\ verdict' = [a \in Attempts |-> "none"]
    /\ reply' = [a \in Attempts |-> "none"]
    /\ base' = [a \in Attempts |-> 0]
    /\ UNCHANGED <<cfg, store>>

\* A step the code of an attempt takes by itself once it has begun.
Advance(a) ==
    \/ LockUid(a)
    \/ CheckRefuses(a)
    \/ CheckAllows(a)
    \/ Enrolled(a)
    \/ ReturnUnenrolled(a)
    \/ TakeSlot(a)
    \/ EmitWaking(a)
    \/ EmitSearching(a)
    \/ \E why \in {"camera_error", "timeout"} : ScanFails(a, why)
    \/ \E ev \in Evidence : ScanReports(a, ev)
    \/ Record(a)
    \/ Finish(a)

Environment ==
    \/ \E c \in Configs : SetSettings(c)
    \/ \E u \in Uids, s \in Stores : StoreChanges(u, s)
    \/ \E u \in Uids : LockoutExpires(u)
    \/ Deliver
    \/ Restart

Next ==
    \/ \E a \in Attempts, u \in Uids, s \in Services : Decline(a, u, s)
    \/ \E a \in Attempts, u \in Uids, s \in Services : Begin(a, u, s)
    \/ \E a \in Attempts : Advance(a)
    \/ \E a \in Attempts : EmitProgress(a)
    \/ Environment

Spec == Init /\ [][Next]_vars

\* Every attempt keeps running: the mutexes, the semaphore and the channel
\* are FIFO queues, and Worker::scan gives up after its own budget. The
\* consumer of the channel runs for as long as the daemon.
Fairness ==
    /\ \A a \in Attempts : SF_vars(Advance(a))
    /\ WF_vars(Deliver)

FairSpec == Spec /\ Fairness

-----------------------------------------------------------------------------
(* Properties.                                                             *)

TypeOK ==
    /\ cfg \in Configs
    /\ store \in [Uids -> Stores]
    /\ policy \in [Uids -> [failures : Nat, lock : LockStates]]
    /\ holder \in [Uids -> Attempts \cup {None}]
    /\ permits \in 0..Slots
    /\ backlog \in 0..ChanCap
    /\ pc \in [Attempts -> PCs]
    /\ who \in [Attempts -> Uids \cup {None}]
    /\ snap \in [Attempts -> Configs \cup {None}]
    /\ verdict \in [Attempts -> Verdicts]
    /\ reply \in [Attempts -> {"none", "success", "deny", "unavailable"}]
    /\ base \in [Attempts -> Nat]

\* Check, scan and record are one critical section per user: no two attempts
\* of the same uid are inside it together (session.rs, auth_locks).
OneAttemptPerUser ==
    \A a, b \in Attempts :
        (pc[a] \in Critical /\ pc[b] \in Critical /\ who[a] = who[b]) => a = b

\* An attempt that passed the policy check is judged under the verdict it
\* was given: no other attempt locks the user out between check and record.
NoJudgementPastLockout ==
    \A a \in Attempts : pc[a] \in Unjudged => policy[who[a]].lock = "off"

\* However many attempts run at once and whatever SetSettings does meanwhile,
\* a user who is not locked out has fewer failures on record than some
\* configuration allows, and a lockout stops the counter at that limit.
FailureBudget ==
    \A u \in Uids :
        \E c \in Configs :
            /\ policy[u].failures <= Clamp(c.maxFailures)
            /\ policy[u].lock = "off" => policy[u].failures < Clamp(c.maxFailures)

Counted(v, n) == IF v = "accepted" THEN 0
                 ELSE IF v = "rejected" THEN n + 1 ELSE n

\* Every attempt that ends has moved the counter of its user by exactly what
\* its verdict says: one for a rejected face, back to zero for an accepted
\* one, and nothing for a camera error, a timeout or a missing enrollment.
CountedOnce ==
    \A a \in Attempts :
        /\ pc[a] \in Unjudged \cup {"refusing"} => policy[who[a]].failures = base[a]
        /\ pc[a] = "finishing" =>
             policy[who[a]].failures = Counted(verdict[a], base[a])

\* A permit of scan_slots is either free or with an attempt at the camera,
\* on every path out of the function.
PermitsConserved ==
    permits + Cardinality({a \in Attempts : pc[a] \in Holding}) = Slots

\* An account whose last enabled face was deleted or disabled while the camera
\* was open is refused: its attempt is not judged by what any_enabled said
\* before the scan.
RevokedFaceRefused ==
    [][\A a \in Attempts :
          (pc[a] = "scanning" /\ pc'[a] = "record") => store[who[a]] # {}]_vars

\* Every attempt that takes the uid lock's queue returns to its caller.
AttemptsReturn ==
    \A a \in Attempts : pc[a] # "idle" ~> pc[a] = "idle"

-----------------------------------------------------------------------------
\* The promise to the rest of the system: check, scan and record are one
\* atomic judgement of a user who is not locked out.
Promise == INSTANCE Lockout WITH
    strikes <- [u \in Uids |-> policy[u].failures],
    gate    <- [u \in Uids |-> policy[u].lock]

\* (session.rs, the doc of auth_locks; policy.rs)
PromiseKept == Promise!Spec
=============================================================================
