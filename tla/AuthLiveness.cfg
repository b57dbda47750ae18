\* Two users, two attempts, one permit: nobody waits forever.
SPECIFICATION FairSpec
CONSTANTS
    u1 = u1
    u2 = u2
    a1 = a1
    a2 = a2
    a3 = a3
    alice = alice
    bob = bob
    None = None
    Uids = {u1, u2}
    Attempts = {a1, a2}
    Services = {"gdm"}
    Identities = {alice, bob}
    Configs <- OneConfig
    Stores <- OneStore
    Evidence <- OneScan
    Slots = 1
    ChanCap = 1
INVARIANTS
    PermitsConserved
PROPERTIES
    AttemptsReturn
