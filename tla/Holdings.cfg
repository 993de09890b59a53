CONSTANTS
    User = {u1}
    Request = {r1, r2}
    Name = {n1, n2, n3}
    Key = {k1, k2, k3}
    MaxKeys = 1
    MaxProcessing = 1
    MaxFaults = 1
SPECIFICATION Spec
SYMMETRY MCSymmetry
INVARIANTS RowsHaveFiles OnlyRacesLeak ProcessingIsBounded KeysAreBounded
CHECK_DEADLOCK FALSE
