CONSTANTS
    Request = {r1, r2}
    Token = {t1, t2}
    MaxVersion = 1
    MaxSecrets = 2
    MaxBatches = 3
SPECIFICATION Spec
SYMMETRY MCSymmetry
INVARIANTS ProofsOpenOneSession CodesWorkOnce OldCodesAreGone EnforcedSecretIsConfirmed
