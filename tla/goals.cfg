SPECIFICATION FairSpec
CONSTANTS
    lamp = lamp
    heating = heating
    evening = evening
    night = night
    NoRun = NoRun
    Run = {evening, night}
    Device = {lamp, heating}
    Plan <- MCPlan
    Limit = 2
    MaxForeign = 1
    MaxRestarts = 1
INVARIANTS
    TypeOK
    ReservationExact
    ResultIsTruthful
    ReverseOrder
    
    
PROPERTIES
    WritesAreOwned
    KeepsReservations
    RunEnds
CHECK_DEADLOCK FALSE
