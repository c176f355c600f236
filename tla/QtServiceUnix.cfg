SPECIFICATION Spec
CONSTANTS
    i1 = i1
    i2 = i2
    i3 = i3
    c1 = c1
    c2 = c2
    NoOne = NoOne
    Callers = {c1}
    Commands <- AllCommands
    Instances <- MCInstances
    Flags = {}
INVARIANTS TypeOK UnhurriedIsSingle UnhurriedIsReachable AnswersAreHonest
PROPERTIES CallsReturn StopTakesEffect
