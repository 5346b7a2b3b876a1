SPECIFICATION Spec
CONSTANTS
    c1 = c1
    c2 = c2
    c3 = c3
    Conns = {c1, c2, c3}
    Plans <- MCPlans
    Script <- MCScript
    MaxFrames = 3
    CertCapacity = 1
    IPs = {"10.0.0.1"}
    None = None
INVARIANTS
    CertSound
    HandledAsSent
    RelayFaithful
PROPERTY
    ConnectionEnds
CHECK_DEADLOCK FALSE
