SPECIFICATION Spec
CONSTANTS
    i1 = i1
    i2 = i2
    i3 = i3
    c1 = c1
    c2 = c2
    NoOne = NoOne
    Callers <- MCCallers
    Commands <- AllCommands
    Instances <- MCTwoInstances
    Flags = {}
INVARIANT IsRunningAsDocumented
