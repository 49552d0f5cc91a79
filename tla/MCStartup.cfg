SPECIFICATION FairSpec
CONSTANTS
    old = old
    new = new
    late = late
    Process = {old, new, late}
    Box <- MCBox
    NoMigrations = {late}
    Port <- MCPort
    Applied = 1
    MaxStarts <- MCMaxStarts
CHECK_DEADLOCK FALSE
INVARIANTS
    RunningIsMigrated
    MigratedInOrder
    SomeoneSurvives
PROPERTIES
    AllOrNothing
