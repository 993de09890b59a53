CONSTANTS
    u1 = u1
    u2 = u2
    User = {u1, u2}
    Request = {r1, r2}
    NoOne = NoOne
    Patch <- MCPatch
    InitRows <- MCEmptyRows
SPECIFICATION FairSpec
INVARIANTS GuardIsSound AuditTellsWhatHappened
PROPERTIES LastAdminKept DeletedIsFinal EveryRequestEnds
