SPECIFICATION Spec
CONSTANTS
    c1 = c1
    NoOne = NoOne
    Callers = {c1}
    Controls <- AllControls
    Flags <- MCAllFlags
CHECK_DEADLOCK FALSE
INVARIANTS TypeOK AnswersAreHonest NoLostWakeUp
PROPERTIES CallsReturn StopTakesEffect StartupCompletes ImplementsContract
