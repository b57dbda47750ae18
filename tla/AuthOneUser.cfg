\* One user, three attempts, limits that change, identities that come and go.
SPECIFICATION Spec
CONSTANTS
    u1 = u1
    u2 = u2
    a1 = a1
    a2 = a2
    a3 = a3
    alice = alice
    bob = bob
    None = None
    Uids = {u1}
    Attempts = {a1, a2, a3}
    Services = {"gdm", "sshd"}
    Identities = {alice, bob}
    Configs <- MCConfigs
    Stores <- MCStores
    Evidence <- MCEvidence
    Slots = 1
    ChanCap = 1
SYMMETRY Symmetry
INVARIANTS
    TypeOK
    OneAttemptPerUser
    NoJudgementPastLockout
    FailureBudget
    CountedOnce
PROPERTIES
    RevokedFaceRefused
    PromiseKept
