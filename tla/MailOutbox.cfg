CONSTANTS
    Mail = {m1, m2, m3}
    Readable = {m1, m2}
    Recovery = Recovery
    NoMail = NoMail
    Retries = 1
    MaxStarts = 3
    MaxFaults = 1
SPECIFICATION FairSpec
INVARIANTS StoredUntilHandled ResendsAreBounded
PROPERTY StoredMailIsHandled
CHECK_DEADLOCK FALSE
