CONSTANTS
    Request = {r1, r2, r3}
    Token = {t1, t2, t3, t4}
    MaxFailed = 2
    MaxResets = 1
    RequireVerifiedEmail = TRUE
    MaxVersion = 1
SPECIFICATION Spec
SYMMETRY MCSymmetry
INVARIANTS TokensWorkOnce SessionsDieWithPassword GuessesAreBounded ResetsAreBounded
