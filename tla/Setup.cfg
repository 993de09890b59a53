CONSTANTS
    Template <- MCTemplate
    EditLine <- MCEditLine
    Prometheus <- MCPrometheus
    Shell <- MCShell
    MaxCommands = 3
    MaxEdits = 1
SPECIFICATION Spec
INVARIANTS SetValuesStay ReadyIsWhatServes SetupFailsForCause ScrapesWork
CHECK_DEADLOCK FALSE
