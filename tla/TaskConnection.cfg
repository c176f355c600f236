SPECIFICATION Spec
CONSTANTS
    j1 = j1
    j2 = j2
    n1 = n1
    n2 = n2
    NoJob = NoJob
    NoName = NoName
    Unnamed = Unnamed
    Jobs <- MCJobs
    Names <- MCNames
    MaxRenames = 2
INVARIANTS TypeOK UndisturbedKeepsConnection LeftOpenByFailure
PROPERTY ExecutionEnds
