\* Two users and two overlapping poses whose first scan is RGB. Nothing can
\* be called any more once MaxSessions sessions are used up and closed.
SPECIFICATION Spec
CONSTANTS
    k1 = k1
    k2 = k2
    p1 = p1
    p2 = p2
    f1 = f1
    f2 = f2
    u1 = u1
    u2 = u2
    m1 = m1
    m2 = m2
    None = None
    Uids = {u1, u2}
    Starts = {k1}
    Poses = {p1, p2}
    Faces = {f1}
    Models = {m1, m2}
    Cameras <- RgbFirst
    Reports = {TRUE}
    MaxTemplates = 2
    OtherCap = 1
    MaxSessions = 2
SYMMETRY Symmetry
CHECK_DEADLOCK FALSE
INVARIANTS
    TypeOK
    OwnFacesOnly
    OneModelPerIdentity
PROPERTIES
    EndedStaysEnded
