SPECIFICATION Spec
CONSTANTS
    p1 = p1
    p2 = p2
    Programs <- MCPrograms
    MayCreate = TRUE
INVARIANTS TypeOK ServingIsVerified
PROPERTY ReadyComesToServe
