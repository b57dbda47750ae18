-------------------------- MODULE AuthEngineProofs --------------------------
(***************************************************************************)
(* The safety of AuthEngine, for any number of users, attempts, permits    *)
(* and configurations.                                                     *)
(*                                                                         *)
(* The argument is the one the comment of auth_locks makes: an attempt     *)
(* between its check and its return holds the lock of its uid, so nobody   *)
(* else can touch that user's entry of the limiter but the clock, and the  *)
(* clock only ends a lockout that has started.                             *)
(***************************************************************************)
EXTENDS AuthEngine, FiniteSetTheorems, TLAPS

\* An attempt under way has its arguments and its configuration.
LocalsSet ==
    \A a \in Attempts : pc[a] # "idle" => who[a] \in Uids /\ snap[a] \in Configs

\* From the policy check to the return, the attempt holds its user's lock.
GuardHeld ==
    \A a \in Attempts : pc[a] \in Critical => holder[who[a]] = a

\* Only a verdict of the matcher reaches the limiter.
JudgedOnly ==
    \A a \in Attempts : pc[a] = "record" => verdict[a] \in {"accepted", "rejected"}

\* The part of the invariant that does not look into the limiter.
Inv == TypeOK /\ LocalsSet /\ GuardHeld /\ JudgedOnly

-----------------------------------------------------------------------------
(* The limiter's operations keep its entries well formed.                  *)

\* The clamp of record_failure always leaves a limit of at least one.
LEMMA ClampType ==
    ASSUME NEW m \in Nat
    PROVE  Clamp(m) \in 1..20
BY DEF Clamp

\* Every operation of Policy maps an entry to an entry.
LEMMA PolicyType ==
    ASSUME NEW p \in [failures : Nat, lock : LockStates], NEW m \in Nat
    PROVE  /\ NoFailures \in [failures : Nat, lock : LockStates]
           /\ AfterCheck(p) \in [failures : Nat, lock : LockStates]
           /\ AfterSuccess(p) \in [failures : Nat, lock : LockStates]
           /\ AfterFailure(p, m) \in [failures : Nat, lock : LockStates]
           /\ AfterDeadline(p) \in [failures : Nat, lock : LockStates]
BY DEF NoFailures, AfterCheck, AfterSuccess, AfterFailure, AfterDeadline, LockStates, Clamp

\* Configurations carry a limit that is a natural number.
LEMMA ConfigMax ==
    ASSUME NEW c \in Configs
    PROVE  c.maxFailures \in Nat
BY AuthAssumption DEF IsConfig

-----------------------------------------------------------------------------
(* The initial states.                                                     *)

\* Nothing is under way when the daemon starts.
LEMMA InitInv == Init => Inv
BY AuthAssumption
   DEF Init, Inv, TypeOK, LocalsSet, GuardHeld, JudgedOnly, PCs, Critical,
       Holding, Verdicts, NoFailures, LockStates

-----------------------------------------------------------------------------
(* The permits. AtCamera are the attempts that hold one.                   *)

AtCamera == {a \in Attempts : pc[a] \in Holding}

\* AtCamera is finite, so that its size is a number.
LEMMA AtCameraFinite ==
    IsFiniteSet(AtCamera) /\ Cardinality(AtCamera) \in Nat
BY AuthAssumption, FS_Subset, FS_CardinalityType DEF AtCamera

\* While an attempt is at the camera some permit is out.
LEMMA PermitFree ==
    ASSUME TypeOK, PermitsConserved, NEW a \in Attempts, pc[a] \in Holding
    PROVE  permits + 1 \in 0..Slots
<1> DEFINE n == Cardinality(AtCamera)
<1>1. a \in AtCamera
  BY DEF AtCamera
<1>2. n \in Nat /\ n # 0
  BY <1>1, AtCameraFinite, FS_EmptySet
<1>3. permits + n = Slots
  BY DEF PermitsConserved, AtCamera
<1>4. permits \in Nat /\ Slots \in Nat
  BY AuthAssumption DEF TypeOK
<1> HIDE DEF n
<1>5. QED
  BY <1>2, <1>3, <1>4

-----------------------------------------------------------------------------
(* Every step keeps the invariant.                                         *)

\* PermitsConserved is needed for one conjunct only: that a returned permit
\* does not take the semaphore above the Slots main.rs created.
LEMMA NextInv == Inv /\ PermitsConserved /\ [Next]_vars => Inv'
<1> SUFFICES ASSUME Inv, PermitsConserved, [Next]_vars
             PROVE  Inv'
  OBVIOUS
<1>1. ASSUME NEW a \in Attempts, Advance(a)
      PROVE  Inv'
  <2>1. ASSUME LockUid(a)
        PROVE  Inv'
    BY <2>1, AuthAssumption
       DEF Inv, TypeOK, LocalsSet, GuardHeld, JudgedOnly, PCs, Critical, Holding,
           Verdicts, LockUid, Goto
  <2>2. ASSUME CheckRefuses(a)
        PROVE  Inv'
    BY <2>2, AuthAssumption
       DEF Inv, TypeOK, LocalsSet, GuardHeld, JudgedOnly, PCs, Critical, Holding,
           Verdicts, CheckRefuses, Return, Goto
  <2>3. ASSUME CheckAllows(a)
        PROVE  Inv'
    <3> DEFINE p == AfterCheck(policy[who[a]])
    <3>1. who[a] \in Uids
      BY <2>3 DEF Inv, TypeOK, LocalsSet, CheckAllows, Goto
    <3>2. p \in [failures : Nat, lock : LockStates] /\ p.failures \in Nat
      BY <3>1, PolicyType DEF Inv, TypeOK
    <3> HIDE DEF p
    <3>3. QED
      BY <2>3, <3>1, <3>2, AuthAssumption
         DEF Inv, TypeOK, LocalsSet, GuardHeld, JudgedOnly, PCs, Critical, Holding,
           Verdicts, CheckAllows, Goto, p
  <2>4. ASSUME Enrolled(a)
        PROVE  Inv'
    BY <2>4, AuthAssumption
       DEF Inv, TypeOK, LocalsSet, GuardHeld, JudgedOnly, PCs, Critical, Holding,
           Verdicts, Enrolled, Goto, shared
  <2>5. ASSUME ReturnUnenrolled(a)
        PROVE  Inv'
    BY <2>5, AuthAssumption
       DEF Inv, TypeOK, LocalsSet, GuardHeld, JudgedOnly, PCs, Critical, Holding,
           Verdicts, ReturnUnenrolled, Return, Goto, Emit
  <2>6. ASSUME TakeSlot(a)
        PROVE  Inv'
    BY <2>6, AuthAssumption
       DEF Inv, TypeOK, LocalsSet, GuardHeld, JudgedOnly, PCs, Critical, Holding,
           Verdicts, TakeSlot, Goto
  <2>7. ASSUME EmitWaking(a)
        PROVE  Inv'
    BY <2>7, AuthAssumption
       DEF Inv, TypeOK, LocalsSet, GuardHeld, JudgedOnly, PCs, Critical, Holding,
           Verdicts, EmitWaking, Goto, Emit
  <2>8. ASSUME EmitSearching(a)
        PROVE  Inv'
    BY <2>8, AuthAssumption
       DEF Inv, TypeOK, LocalsSet, GuardHeld, JudgedOnly, PCs, Critical, Holding,
           Verdicts, EmitSearching, Goto, Emit
  <2>9. ASSUME NEW why \in {"camera_error", "timeout"}, ScanFails(a, why)
        PROVE  Inv'
    BY <2>9, AuthAssumption
       DEF Inv, TypeOK, LocalsSet, GuardHeld, JudgedOnly, PCs, Critical, Holding,
           Verdicts, ScanFails, Goto, shared
  <2>10. ASSUME NEW ev \in Evidence, ScanReports(a, ev)
        PROVE  Inv'
    BY <2>10, AuthAssumption
       DEF Inv, TypeOK, LocalsSet, GuardHeld, JudgedOnly, PCs, Critical, Holding,
           Verdicts, ScanReports, Goto, shared
  <2>11. ASSUME Record(a)
        PROVE  Inv'
    <3>1. who[a] \in Uids /\ snap[a].maxFailures \in Nat
      BY <2>11, ConfigMax DEF Inv, TypeOK, LocalsSet, Record, Goto
    <3>2. policy' \in [Uids -> [failures : Nat, lock : LockStates]]
      BY <2>11, <3>1, PolicyType DEF Inv, TypeOK, Record
    <3>3. QED
      BY <2>11, <3>1, <3>2, AuthAssumption
         DEF Inv, TypeOK, LocalsSet, GuardHeld, JudgedOnly, PCs, Critical, Holding,
           Verdicts, Record, Goto
  <2>12. ASSUME Finish(a)
        PROVE  Inv'
    <3>1. permits' \in 0..Slots
      BY <2>12, PermitFree DEF Inv, Finish, Return, Goto, Holding
    <3>2. QED
      BY <2>12, <3>1, AuthAssumption
         DEF Inv, TypeOK, LocalsSet, GuardHeld, JudgedOnly, PCs, Critical, Holding,
           Verdicts, Finish, Return, Goto, Emit, Outcome
  <2>13. QED
    BY <1>1, <2>1, <2>2, <2>3, <2>4, <2>5, <2>6, <2>7, <2>8, <2>9, <2>10, <2>11, <2>12 DEF Advance
<1>2. ASSUME NEW a \in Attempts, NEW u \in Uids, NEW s \in Services, Decline(a, u, s)
      PROVE  Inv'
  BY <1>2 DEF Inv, TypeOK, LocalsSet, GuardHeld, JudgedOnly, Decline, shared
<1>3. ASSUME NEW a \in Attempts, NEW u \in Uids, NEW s \in Services, Begin(a, u, s)
      PROVE  Inv'
  BY <1>3, AuthAssumption
     DEF Inv, TypeOK, LocalsSet, GuardHeld, JudgedOnly, PCs, Critical, Holding,
         Verdicts, Begin, Goto, shared
<1>4. ASSUME NEW a \in Attempts, EmitProgress(a)
      PROVE  Inv'
  BY <1>4, AuthAssumption
     DEF Inv, TypeOK, LocalsSet, GuardHeld, JudgedOnly, EmitProgress, Emit, local
<1>5. CASE Environment
  <2>1. ASSUME NEW c \in Configs, SetSettings(c)
        PROVE  Inv'
    BY <2>1 DEF Inv, TypeOK, LocalsSet, GuardHeld, JudgedOnly, SetSettings, local
  <2>2. ASSUME NEW u \in Uids, NEW s \in Stores, StoreChanges(u, s)
        PROVE  Inv'
    BY <2>2 DEF Inv, TypeOK, LocalsSet, GuardHeld, JudgedOnly, StoreChanges, local
  <2>3. ASSUME NEW u \in Uids, LockoutExpires(u)
        PROVE  Inv'
    BY <2>3, PolicyType
       DEF Inv, TypeOK, LocalsSet, GuardHeld, JudgedOnly, LockoutExpires, local
  <2>4. CASE Deliver
    BY <2>4, AuthAssumption
       DEF Inv, TypeOK, LocalsSet, GuardHeld, JudgedOnly, Deliver, local
  <2>5. CASE Restart
    BY <2>5, AuthAssumption, PolicyType
       DEF Inv, TypeOK, LocalsSet, GuardHeld, JudgedOnly, PCs, Critical, Holding,
           Verdicts, Restart, NoFailures, LockStates
  <2>6. QED
    BY <1>5, <2>1, <2>2, <2>3, <2>4, <2>5 DEF Environment
<1>6. CASE UNCHANGED vars
  BY <1>6 DEF Inv, TypeOK, LocalsSet, GuardHeld, JudgedOnly, vars
<1>7. QED
  BY <1>1, <1>2, <1>3, <1>4, <1>5, <1>6 DEF Next

-----------------------------------------------------------------------------
(* The permits, step by step.                                              *)

\* Only taking a permit, returning it and a restart change who is at the
\* camera or how many permits are free.
LEMMA CameraFrame ==
    ASSUME NEW a \in Attempts, TypeOK, Advance(a), ~TakeSlot(a), ~Finish(a)
    PROVE  permits' = permits /\ AtCamera' = AtCamera
<1>1. CASE LockUid(a)
  BY <1>1 DEF LockUid, Goto, AtCamera, Holding, TypeOK
<1>2. CASE CheckRefuses(a)
  BY <1>2 DEF CheckRefuses, Return, Goto, AtCamera, Holding, TypeOK
<1>3. CASE CheckAllows(a)
  BY <1>3 DEF CheckAllows, Goto, AtCamera, Holding, TypeOK
<1>4. CASE Enrolled(a)
  BY <1>4 DEF Enrolled, Goto, shared, AtCamera, Holding, TypeOK
<1>5. CASE ReturnUnenrolled(a)
  BY <1>5 DEF ReturnUnenrolled, Return, Goto, Emit, AtCamera, Holding, TypeOK
<1>6. CASE EmitWaking(a) \/ EmitSearching(a)
  BY <1>6 DEF EmitWaking, EmitSearching, Goto, Emit, AtCamera, Holding, TypeOK
<1>7. CASE \E why \in {"camera_error", "timeout"} : ScanFails(a, why)
  BY <1>7 DEF ScanFails, Goto, shared, AtCamera, Holding, TypeOK
<1>8. CASE \E ev \in Evidence : ScanReports(a, ev)
  BY <1>8 DEF ScanReports, Goto, shared, AtCamera, Holding, TypeOK
<1>9. CASE Record(a)
  BY <1>9 DEF Record, Goto, AtCamera, Holding, TypeOK
<1>10. QED
  BY <1>1, <1>2, <1>3, <1>4, <1>5, <1>6, <1>7, <1>8, <1>9 DEF Advance

\* A step moves a permit between the semaphore and an attempt, or no permit.
LEMMA NextPermits == Inv /\ PermitsConserved /\ [Next]_vars => PermitsConserved'
<1> SUFFICES ASSUME Inv, PermitsConserved, [Next]_vars
             PROVE  permits' + Cardinality(AtCamera') = Slots
  BY DEF PermitsConserved, AtCamera
<1>1. permits + Cardinality(AtCamera) = Slots
  BY DEF PermitsConserved, AtCamera
<1>2. permits \in Nat /\ Slots \in Nat
  BY AuthAssumption DEF Inv, TypeOK
<1>3. ASSUME permits' = permits, AtCamera' = AtCamera
      PROVE  permits' + Cardinality(AtCamera') = Slots
  BY <1>1, <1>3
<1>4. ASSUME NEW a \in Attempts, TakeSlot(a)
      PROVE  permits' + Cardinality(AtCamera') = Slots
  <2>1. a \notin AtCamera /\ AtCamera' = AtCamera \cup {a} /\ permits' = permits - 1
    BY <1>4 DEF Inv, TypeOK, TakeSlot, Goto, AtCamera, Holding
  <2>2. Cardinality(AtCamera') = Cardinality(AtCamera) + 1
    BY <2>1, AtCameraFinite, FS_AddElement
  <2>3. QED
    BY <2>1, <2>2, <1>1, <1>2, AtCameraFinite
<1>5. ASSUME NEW a \in Attempts, Finish(a)
      PROVE  permits' + Cardinality(AtCamera') = Slots
  <2>1. a \in AtCamera /\ AtCamera' = AtCamera \ {a} /\ permits' = permits + 1
    BY <1>5 DEF Inv, TypeOK, Finish, Return, Goto, AtCamera, Holding
  <2>2. Cardinality(AtCamera') = Cardinality(AtCamera) - 1
    BY <2>1, AtCameraFinite, FS_RemoveElement
  <2>3. QED
    BY <2>1, <2>2, <1>1, <1>2, AtCameraFinite
<1>6. CASE Restart
  <2>1. AtCamera' = {} /\ permits' = Slots
    BY <1>6 DEF Restart, AtCamera, Holding
  <2>2. QED
    BY <2>1, <1>2, FS_EmptySet
<1>7. ASSUME NEW a \in Attempts, Advance(a)
      PROVE  permits' + Cardinality(AtCamera') = Slots
  BY <1>3, <1>4, <1>5, <1>7, CameraFrame DEF Inv
<1>8. ASSUME NEW a \in Attempts, NEW u \in Uids, NEW s \in Services,
             Decline(a, u, s) \/ Begin(a, u, s)
      PROVE  permits' + Cardinality(AtCamera') = Slots
  <2>1. permits' = permits /\ AtCamera' = AtCamera
    BY <1>8 DEF Decline, Begin, Goto, shared, AtCamera, Holding, Inv, TypeOK
  <2>2. QED
    BY <2>1, <1>3
<1>9. ASSUME NEW a \in Attempts, EmitProgress(a)
      PROVE  permits' + Cardinality(AtCamera') = Slots
  BY <1>3, <1>9 DEF EmitProgress, Emit, local, AtCamera
<1>10. CASE Environment
  <2>1. CASE ~Restart
    <3>1. permits' = permits /\ pc' = pc
      BY <1>10, <2>1
         DEF Environment, SetSettings, StoreChanges, LockoutExpires, Deliver, local
    <3>2. QED
      BY <1>3, <3>1 DEF AtCamera
  <2>2. QED
    BY <1>6, <2>1
<1>11. CASE UNCHANGED vars
  BY <1>3, <1>11 DEF vars, AtCamera
<1>12. QED
  BY <1>7, <1>8, <1>9, <1>10, <1>11 DEF Next

-----------------------------------------------------------------------------
(* The limiter: who may change an entry, and how. *)

\* A step changes the limiter only as policy.rs does: an attempt checks or
\* records, a deadline passes, or the daemon starts again.
LEMMA PolicyFrame ==
    ASSUME [Next]_vars
    PROVE  \/ UNCHANGED policy
           \/ \E a \in Attempts : CheckAllows(a) \/ Record(a)
           \/ \E u \in Uids : LockoutExpires(u)
           \/ Restart
<1>1. ASSUME NEW a \in Attempts, Advance(a), ~CheckAllows(a), ~Record(a)
      PROVE  UNCHANGED policy
  BY <1>1
     DEF Advance, LockUid, CheckRefuses, Enrolled, ReturnUnenrolled, TakeSlot,
         EmitWaking, EmitSearching, ScanFails, ScanReports, Finish, shared
<1>2. CASE Environment
  BY <1>2 DEF Environment, SetSettings, StoreChanges, Deliver
<1>3. QED
  BY <1>1, <1>2 DEF Next, Decline, Begin, EmitProgress, shared, vars

\* Seen from one user, whose entry only an attempt of that user touches.
PolicyStep(u) ==
    \/ policy'[u] = policy[u]
    \/ \E a \in Attempts : (CheckAllows(a) \/ Record(a)) /\ who[a] = u
    \/ LockoutExpires(u)
    \/ Restart

\* PolicyFrame, for the entry of one user.
LEMMA PolicyFrameOfUser ==
    ASSUME TypeOK, [Next]_vars, NEW u \in Uids
    PROVE  PolicyStep(u)
<1>1. ASSUME NEW a \in Attempts, CheckAllows(a) \/ Record(a)
      PROVE  PolicyStep(u)
  BY <1>1 DEF CheckAllows, Record, PolicyStep, TypeOK
<1>2. ASSUME NEW v \in Uids, LockoutExpires(v)
      PROVE  PolicyStep(u)
  BY <1>2 DEF LockoutExpires, PolicyStep, TypeOK
<1>3. QED
  BY <1>1, <1>2, PolicyFrame DEF PolicyStep

-----------------------------------------------------------------------------
(* The budget of failures. *)

WithinBudget(p) ==
    \E c \in Configs :
        /\ p.failures <= Clamp(c.maxFailures)
        /\ p.lock = "off" => p.failures < Clamp(c.maxFailures)

\* A cleared entry is within the budget of any configuration.
LEMMA ClearedWithinBudget ==
    ASSUME NEW c \in Configs
    PROVE  WithinBudget(NoFailures)
BY ConfigMax, ClampType DEF WithinBudget, NoFailures

\* So is an entry after one more failure, if it was not locked before.
LEMMA FailureWithinBudget ==
    ASSUME NEW p \in [failures : Nat, lock : LockStates], NEW c \in Configs,
           p.lock = "off", WithinBudget(p)
    PROVE  WithinBudget(AfterFailure(p, c.maxFailures))
<1> DEFINE q == AfterFailure(p, c.maxFailures)
<1>1. PICK d \in Configs : p.failures < Clamp(d.maxFailures)
  BY DEF WithinBudget
<1>2. /\ Clamp(c.maxFailures) \in Nat /\ Clamp(d.maxFailures) \in Nat
      /\ p.failures \in Nat
  BY ConfigMax, ClampType
<1>3. CASE p.failures + 1 >= Clamp(c.maxFailures)
  <2>1. q.failures = p.failures + 1 /\ q.lock = "running"
    BY <1>3 DEF AfterFailure
  <2>2. q.failures <= Clamp(d.maxFailures)
    BY <1>1, <1>2, <2>1
  <2>3. QED
    BY <2>1, <2>2 DEF WithinBudget
<1>4. CASE ~(p.failures + 1 >= Clamp(c.maxFailures))
  <2>1. q.failures = p.failures + 1
    BY DEF AfterFailure
  <2>2. q.failures < Clamp(c.maxFailures)
    BY <1>2, <1>4, <2>1
  <2>3. QED
    BY <1>2, <2>1, <2>2 DEF WithinBudget
<1>5. QED
  BY <1>3, <1>4

\* A failure is recorded on an open entry only, so it stays within the budget.
LEMMA NextBudget ==
    Inv /\ NoJudgementPastLockout /\ FailureBudget /\ [Next]_vars => FailureBudget'
<1> SUFFICES ASSUME Inv, NoJudgementPastLockout, FailureBudget, [Next]_vars,
                    NEW u \in Uids
             PROVE  WithinBudget(policy'[u])
  BY DEF FailureBudget, WithinBudget
<1> USE DEF Inv
<1>1. /\ WithinBudget(policy[u])
      /\ policy[u] \in [failures : Nat, lock : LockStates]
  BY DEF FailureBudget, WithinBudget, TypeOK
<1>2. WithinBudget(NoFailures)
  BY ClearedWithinBudget DEF TypeOK
<1>3. ASSUME NEW a \in Attempts, CheckAllows(a), who[a] = u
      PROVE  WithinBudget(policy'[u])
  BY <1>1, <1>2, <1>3 DEF CheckAllows, AfterCheck, TypeOK
<1>4. ASSUME NEW a \in Attempts, Record(a), who[a] = u
      PROVE  WithinBudget(policy'[u])
  <2>1. policy[u].lock = "off" /\ snap[a] \in Configs
    BY <1>4 DEF NoJudgementPastLockout, Unjudged, LocalsSet, Record, Goto
  <2>2. WithinBudget(AfterFailure(policy[u], snap[a].maxFailures))
    BY <1>1, <2>1, FailureWithinBudget
  <2>3. QED
    BY <1>2, <1>4, <2>2 DEF Record, AfterSuccess, TypeOK
<1>5. CASE LockoutExpires(u)
  BY <1>1, <1>5 DEF LockoutExpires, AfterDeadline, WithinBudget, TypeOK
<1>6. CASE Restart
  BY <1>2, <1>6 DEF Restart
<1>7. QED
  BY <1>1, <1>3, <1>4, <1>5, <1>6, PolicyFrameOfUser DEF PolicyStep

-----------------------------------------------------------------------------
(* Judgement under the user's lock. *)

\* What the limiter says of the user of attempt a while a is under way.
Judged(a) ==
    /\ pc[a] \in Unjudged => policy[who[a]].lock = "off"
    /\ pc[a] \in Unjudged \cup {"refusing"} => policy[who[a]].failures = base[a]
    /\ pc[a] = "finishing" =>
         policy[who[a]].failures = Counted(verdict[a], base[a])

AllJudged == \A a \in Attempts : Judged(a)

\* The two properties are the two halves of AllJudged.
LEMMA JudgedMeans == AllJudged <=> NoJudgementPastLockout /\ CountedOnce
BY DEF AllJudged, Judged, NoJudgementPastLockout, CountedOnce

\* The attempt's own steps.
LEMMA JudgedAdvance ==
    ASSUME Inv, NEW a \in Attempts, Judged(a), Advance(a)
    PROVE  Judged(a)'
<1> USE DEF Inv, TypeOK, LocalsSet
<1>1. CASE LockUid(a)
  BY <1>1 DEF LockUid, Goto, Judged, Unjudged, Holding
<1>2. CASE CheckRefuses(a)
  BY <1>2 DEF CheckRefuses, Return, Goto, Judged, Unjudged, Holding
<1>3. CASE CheckAllows(a)
  BY <1>3 DEF CheckAllows, Goto, Refuses, AfterCheck, LockStates, NoFailures, Judged, Unjudged, Holding
<1>4. CASE Enrolled(a)
  BY <1>4 DEF Enrolled, Goto, shared, Judged, Unjudged, Holding
<1>5. CASE ReturnUnenrolled(a)
  BY <1>5 DEF ReturnUnenrolled, Return, Goto, Emit, Judged, Unjudged, Holding
<1>6. CASE TakeSlot(a)
  BY <1>6 DEF TakeSlot, Goto, Judged, Unjudged, Holding
<1>7. CASE EmitWaking(a) \/ EmitSearching(a)
  BY <1>7 DEF EmitWaking, EmitSearching, Goto, Emit, Judged, Unjudged, Holding
<1>8. CASE \E why \in {"camera_error", "timeout"} : ScanFails(a, why)
  BY <1>8 DEF ScanFails, Goto, shared, Counted, Judged, Unjudged, Holding
<1>9. CASE \E ev \in Evidence : ScanReports(a, ev)
  BY <1>9 DEF ScanReports, Goto, shared, Counted, Judged, Unjudged, Holding
<1>10. CASE Record(a)
  BY <1>10 DEF Record, Goto, AfterSuccess, AfterFailure, NoFailures, Counted, JudgedOnly, Judged, Unjudged, Holding
<1>11. CASE Finish(a)
  BY <1>11 DEF Finish, Return, Goto, Emit, Judged, Unjudged, Holding
<1>12. QED
  BY <1>1, <1>2, <1>3, <1>4, <1>5, <1>6, <1>7, <1>8, <1>9, <1>10, <1>11 DEF Advance

\* An attempt with the same place and locals before and after a step.
Rests(a) ==
    pc'[a] = pc[a] /\ who'[a] = who[a] /\ base'[a] = base[a] /\ verdict'[a] = verdict[a]

\* Nobody else's step disturbs it: a check or a record of the same user would
\* have to hold the same lock, and the clock ends only a running lockout.
LEMMA JudgedRests ==
    ASSUME Inv, NEW a \in Attempts, Judged(a), [Next]_vars, Rests(a)
    PROVE  Judged(a)'
<1> USE DEF Inv
<1>1. CASE pc[a] \notin Unjudged \cup {"refusing", "finishing"}
  BY <1>1 DEF Rests, Judged
<1>2. CASE pc[a] \in Unjudged \cup {"refusing", "finishing"}
  <2>1. who[a] \in Uids /\ pc[a] \in Critical /\ holder[who[a]] = a
    BY <1>2 DEF LocalsSet, GuardHeld, Unjudged, Critical, Holding
  <2>2. ASSUME NEW b \in Attempts, CheckAllows(b) \/ Record(b), who[b] = who[a]
        PROVE  FALSE
    <3>1. pc[b] \in Critical /\ pc'[b] # pc[b]
      BY <2>2 DEF CheckAllows, Record, Goto, Critical, Holding, TypeOK
    <3>2. b = a
      BY <2>1, <2>2, <3>1 DEF GuardHeld
    <3>3. QED
      BY <3>1, <3>2 DEF Rests
  <2>3. ~Restart
    BY <1>2 DEF Restart, Rests, Unjudged
  <2>4. CASE policy'[who[a]] = policy[who[a]]
    BY <2>4 DEF Rests, Judged
  <2>5. CASE LockoutExpires(who[a])
    BY <1>2, <2>1, <2>5
       DEF LockoutExpires, Refuses, AfterDeadline, Rests, Judged, TypeOK
  <2>6. QED
    BY <2>1, <2>2, <2>3, <2>4, <2>5, PolicyFrameOfUser DEF PolicyStep
<1>3. QED
  BY <1>1, <1>2

\* Every attempt either takes a step of its own, rests, or has left.
LEMMA NextJudged == Inv /\ AllJudged /\ [Next]_vars => AllJudged'
<1> SUFFICES ASSUME Inv, AllJudged, [Next]_vars, NEW a \in Attempts
             PROVE  Judged(a)'
  BY DEF AllJudged
<1>1. Judged(a)
  BY DEF AllJudged
<1>2. CASE Advance(a)
  BY <1>1, <1>2, JudgedAdvance
<1>3. CASE Rests(a)
  BY <1>1, <1>3, JudgedRests
<1>4. CASE pc'[a] \in {"idle", "lock"}
  BY <1>4 DEF Judged, Unjudged
<1>5. Advance(a) \/ Rests(a) \/ pc'[a] \in {"idle", "lock"}
  <2>1. ASSUME NEW b \in Attempts, b # a, Advance(b)
        PROVE  Rests(a)
    BY <2>1
       DEF Inv, TypeOK, Advance, LockUid, CheckRefuses, CheckAllows, Enrolled,
           ReturnUnenrolled, TakeSlot, EmitWaking, EmitSearching, ScanFails,
           ScanReports, Record, Finish, Return, Goto, Emit, shared, Rests
  <2>2. ASSUME NEW b \in Attempts, NEW u \in Uids, NEW s \in Services,
               Decline(b, u, s) \/ Begin(b, u, s)
        PROVE  Rests(a) \/ pc'[a] \in {"idle", "lock"}
    BY <2>2 DEF Inv, TypeOK, Decline, Begin, Goto, Rests
  <2>3. CASE Environment
    BY <2>3 DEF Environment, SetSettings, StoreChanges, LockoutExpires, Deliver,
                Restart, local, Rests
  <2>4. CASE UNCHANGED local
    BY <2>4 DEF local, Rests
  <2>5. QED
    BY <2>1, <2>2, <2>3, <2>4 DEF Next, EmitProgress, vars, local
<1>6. QED
  BY <1>2, <1>3, <1>4, <1>5

-----------------------------------------------------------------------------
(* The abstract specification. *)

\* Promise talks of the limiter only: its variables, written out.
LEMMA PromiseInit == Init => Promise!Init
BY DEF Init, Promise!Init, NoFailures

\* Clamp is the limit of the abstract specification.
LEMMA SameLimit == ASSUME NEW c PROVE Promise!Limit(c) = Clamp(c.maxFailures)
BY DEF Promise!Limit, Clamp

\* Every step is a step of Lockout, or leaves its variables alone.
LEMMA PromiseNext ==
    Inv /\ NoJudgementPastLockout /\ [Next]_vars => [Promise!Next]_(Promise!vars)
<1> DEFINE strikes == [u \in Uids |-> policy[u].failures]
           gate    == [u \in Uids |-> policy[u].lock]
<1> SUFFICES ASSUME Inv, NoJudgementPastLockout, [Next]_vars
             PROVE  \/ Promise!Next
                    \/ strikes' = strikes /\ gate' = gate
  BY DEF Promise!vars
<1> USE DEF Inv, TypeOK
<1>1. CASE UNCHANGED policy
  BY <1>1
<1>2. ASSUME NEW a \in Attempts, CheckAllows(a)
      PROVE  Promise!Next \/ (strikes' = strikes /\ gate' = gate)
  <2>1. PICK u \in Uids : u = who[a]
    BY <1>2 DEF LocalsSet, CheckAllows, Goto
  <2>2. CASE policy[u].lock = "expired"
    <3>1. Promise!Reopen(u)
      BY <1>2, <2>1, <2>2 DEF CheckAllows, AfterCheck, NoFailures, Promise!Reopen
    <3>2. QED
      BY <2>1, <3>1 DEF Promise!Next
  <2>3. CASE policy[u].lock # "expired"
    <3>1. policy' = policy
      BY <1>2, <2>1, <2>3 DEF CheckAllows, AfterCheck
    <3>2. QED
      BY <3>1
  <2>4. QED
    BY <2>2, <2>3
<1>3. ASSUME NEW a \in Attempts, Record(a)
      PROVE  Promise!Next
  <2>1. PICK u \in Uids, c \in Configs :
          u = who[a] /\ c = snap[a] /\ policy[u].lock = "off"
    BY <1>3 DEF LocalsSet, NoJudgementPastLockout, Unjudged, Record, Goto
  <2>2. CASE verdict[a] = "accepted"
    <3>1. policy' = [policy EXCEPT ![u] = NoFailures]
      BY <1>3, <2>1, <2>2 DEF Record, AfterSuccess
    <3>2. strikes' = [strikes EXCEPT ![u] = 0] /\ gate' = gate
      BY <2>1, <3>1 DEF NoFailures
    <3>3. Promise!Succeed(u)
      BY <2>1, <3>2 DEF Promise!Succeed
    <3>4. QED
      BY <2>1, <3>3 DEF Promise!Next
  <2>3. CASE verdict[a] # "accepted"
    <3> DEFINE n == policy[u].failures + 1
               max == Promise!Limit(c)
    <3>1. policy' = [policy EXCEPT ![u] =
                       [failures |-> n, lock |-> IF n >= max THEN "running" ELSE "off"]]
      BY <1>3, <2>1, <2>3, SameLimit DEF Record, AfterFailure
    <3>2. /\ strikes' = [strikes EXCEPT ![u] = n]
          /\ gate' = [gate EXCEPT ![u] = IF n >= max THEN "running" ELSE "off"]
      BY <2>1, <3>1
    <3>3. Promise!Fail(u, c)
      BY <2>1, <3>2 DEF Promise!Fail
    <3>4. QED
      BY <2>1, <3>3 DEF Promise!Next
  <2>4. QED
    BY <2>2, <2>3
<1>4. ASSUME NEW u \in Uids, LockoutExpires(u)
      PROVE  Promise!Next
  <2>1. Promise!Expire(u)
    BY <1>4 DEF LockoutExpires, Refuses, AfterDeadline, Promise!Expire
  <2>2. QED
    BY <2>1 DEF Promise!Next
<1>5. CASE Restart
  <2>1. Promise!Forget
    BY <1>5 DEF Restart, NoFailures, Promise!Forget
  <2>2. QED
    BY <2>1 DEF Promise!Next
<1>6. QED
  BY <1>1, <1>2, <1>3, <1>4, <1>5, PolicyFrame

-----------------------------------------------------------------------------
(* The theorems. *)

\* What all of them rest on, as one inductive invariant.
IInv == Inv /\ PermitsConserved /\ AllJudged /\ FailureBudget

\* The daemon starts with every permit free and every counter at zero.
LEMMA InitIInv == Init => IInv
<1> SUFFICES ASSUME Init
             PROVE  IInv
  OBVIOUS
<1>1. Inv
  BY InitInv
<1>2. PermitsConserved
  <2>1. AtCamera = {}
    BY DEF Init, AtCamera, Holding
  <2>2. permits = Slots /\ Slots \in Nat
    BY AuthAssumption DEF Init
  <2>3. QED
    BY <2>1, <2>2, FS_EmptySet DEF PermitsConserved, AtCamera
<1>3. AllJudged
  BY DEF Init, AllJudged, Judged, Unjudged, Holding
<1>4. FailureBudget
  <2>1. WithinBudget(NoFailures)
    BY ClearedWithinBudget DEF Init
  <2>2. QED
    BY <2>1 DEF Init, FailureBudget, WithinBudget
<1>5. QED
  BY <1>1, <1>2, <1>3, <1>4 DEF IInv

\* The invariant holds in every state the daemon can reach.
THEOREM Invariance == Spec => []IInv
<1>1. IInv /\ [Next]_vars => IInv'
  BY NextInv, NextPermits, NextJudged, NextBudget, JudgedMeans DEF IInv
<1>2. QED
  BY InitIInv, <1>1, PTL DEF Spec

\* Every variable keeps its type.
THEOREM TypeCorrect == Spec => []TypeOK
<1>1. IInv => TypeOK
  BY DEF IInv, Inv
<1>2. QED
  BY Invariance, <1>1, PTL

\* Check, scan and record are a critical section of each user.
THEOREM MutualExclusion == Spec => []OneAttemptPerUser
<1>1. IInv => OneAttemptPerUser
  BY DEF IInv, Inv, GuardHeld, OneAttemptPerUser
<1>2. QED
  BY Invariance, <1>1, PTL

\* Nobody is judged while locked out, with any number of attempts in flight.
THEOREM JudgedInTime == Spec => []NoJudgementPastLockout
<1>1. IInv => NoJudgementPastLockout
  BY JudgedMeans DEF IInv
<1>2. QED
  BY Invariance, <1>1, PTL

\* Each attempt moves the counter by exactly what its verdict says.
THEOREM ExactCount == Spec => []CountedOnce
<1>1. IInv => CountedOnce
  BY JudgedMeans DEF IInv
<1>2. QED
  BY Invariance, <1>1, PTL

\* The counter never passes the limit of the configurations in use.
THEOREM Budgeted == Spec => []FailureBudget
<1>1. IInv => FailureBudget
  BY DEF IInv
<1>2. QED
  BY Invariance, <1>1, PTL

\* No path through authenticate() loses or invents a camera permit.
THEOREM PermitsSafe == Spec => []PermitsConserved
<1>1. IInv => PermitsConserved
  BY DEF IInv
<1>2. QED
  BY Invariance, <1>1, PTL

\* An account with no enabled face left when the scan reports is not judged, let
\* alone accepted.
THEOREM RevocationRespected == Spec => RevokedFaceRefused
<1> DEFINE Respected ==
      \A a \in Attempts :
        (pc[a] = "scanning" /\ pc'[a] = "record") => store[who[a]] # {}
<1>1. IInv /\ [Next]_vars => [Respected]_vars
  <2> SUFFICES ASSUME IInv, Next, NEW a \in Attempts,
                      pc[a] = "scanning", pc'[a] = "record"
               PROVE  store[who[a]] # {}
    BY DEF vars
  <2> USE DEF IInv, Inv, TypeOK
  <2>1. PICK ev \in Evidence : ScanReports(a, ev)
    <3>1. ASSUME NEW b \in Attempts, Advance(b)
          PROVE  \E ev \in Evidence : ScanReports(a, ev)
      BY <3>1
         DEF Advance, LockUid, CheckRefuses, CheckAllows, Enrolled, ReturnUnenrolled,
             TakeSlot, EmitWaking, EmitSearching, ScanFails, ScanReports, Record,
             Finish, Return, Goto
    <3>2. ~UNCHANGED pc
      OBVIOUS
    <3>3. QED
      BY <3>1, <3>2
         DEF Next, Decline, Begin, Goto, EmitProgress, Environment, SetSettings,
             StoreChanges, LockoutExpires, Deliver, Restart, local
  <2>2. QED
    BY <2>1 DEF ScanReports, Goto, LoadEnabled
<1>2. QED
  BY Invariance, <1>1, PTL DEF Spec, RevokedFaceRefused

\* The daemon, seen through its limiter, is the atomic judge of Lockout.
THEOREM Refinement == Spec => PromiseKept
<1>1. IInv => Inv /\ NoJudgementPastLockout
  BY JudgedMeans DEF IInv
<1>2. QED
  BY Invariance, <1>1, PromiseInit, PromiseNext, PTL DEF Spec, PromiseKept, Promise!Spec
=============================================================================
