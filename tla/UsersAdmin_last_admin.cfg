CONSTANTS
    u1 = u1
    u2 = u2
    User = {u1, u2}
    Request = {r1, r2}
    NoOne = NoOne
    Patch <- RolePatch
    InitRows <- MCInitRows
SPECIFICATION Spec
INVARIANT AdminAlwaysRemains
