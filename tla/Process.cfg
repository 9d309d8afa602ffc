CONSTANTS
    Sockets = {s1, s2, s3}
    None = None
    Threads = {"game", "net"}
    Interval = 2
    MaxSteps = 2
    Wrap = 4

SPECIFICATION Spec

INVARIANTS
    JoinedFirst
    CountBounded

PROPERTIES
    ShutsDown
    KeepsTicking

CHECK_DEADLOCK FALSE
