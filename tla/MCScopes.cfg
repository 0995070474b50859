CONSTANTS
    Nests <- MCNests
SPECIFICATION Spec
INVARIANTS
    TypeOK
    OwnBuiltinsInForce
    ReadsNearestScope
    AssignmentsReachTheirScope
