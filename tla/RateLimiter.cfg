CONSTANTS
    Client = {c1, c2}
    Observed = c1
    Proxy = Proxy
    Garbage = Garbage
    TrustProxy = TRUE
    MaxRequests = 2
    Window = 4
    MaxTracked = 2
    Slot = {r1, r2}
    MaxDelay = 1
    MaxAsked = 5
SPECIFICATION LimiterSpec
SYMMETRY MCSymmetry
INVARIANTS AdmittedAreBounded
PROPERTIES OnlyBusyClientsAreRefused
