SPECIFICATION Spec
CONSTANTS
    Key = {garage}
    Task = {t1, t2}
    MaxProposals = 2
    Capacity = 1
    MaxAttempts = 1
    MaxChanges = 2
    MaxRestarts = 1
SYMMETRY Tasks
INVARIANTS
    TypeOK
    OpenIsCurrent
    SnoozesReturn
    RunsOnce
    
PROPERTIES
    KeepsPromise
    RevokedStays
CHECK_DEADLOCK FALSE
