CONSTANTS
    u1 = u1
    u2 = u2
    x1 = x1
    x2 = x2
    e1 = e1
    e2 = e2
    p1 = p1
    User = {u1, u2}
    Email = {e1, e2}
    Request = {r1, r2}
    Account = {x1, x2}
    ProviderOf <- MCProviderOf
    EmailOf <- MCEmailOf
    Passkey = {p1}
    MaxPasskeys = 1
    RequireVerifiedEmail = TRUE
    InitTables <- MCInitTables
    MaxEvents = 5
SPECIFICATION Spec
SYMMETRY MCSymmetry
INVARIANTS VerifiedIsProven JoinsAreProven SessionsAreProven NobodyIsLockedOut
PROPERTIES ProviderAccountsStay LastMethodKept
CHECK_DEADLOCK FALSE
