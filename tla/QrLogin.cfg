CONSTANTS
    Request = {r1, r2, r3}
    User = {u1, u2}
    MaxAttempts = 2
SPECIFICATION Spec
INVARIANTS WrongCodesAreBounded
PROPERTY KeepsHandshake
