SPECIFICATION Spec
CONSTANTS
    NoJob = NoJob
    j1 = j1
    j2 = j2
    j3 = j3
    Jobs <- MCJobs
    MaxOther = 2
INVARIANTS TypeOK NoJobMissed DuplicatesFromWindow ConnectedOnce
PROPERTIES DeafMisses InsertedIsServed
