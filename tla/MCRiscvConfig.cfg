SPECIFICATION ScriptSpec
CONSTANTS
    Inputs <- MCInputs
CHECK_DEADLOCK FALSE
INVARIANTS
    VerdictIsRight
    ReportReadsBack
