SPECIFICATION FairSpec
CONSTANTS
    Objs = {t1, t2}
    Specs <- RepeatingSpecs
    MaxTicks = 1
INVARIANTS
    TypeOK
    StateTellsTheTruth
    NoDrift
    ExpirationsCounted
PROPERTIES
    TimeoutsReturn
CHECK_DEADLOCK FALSE
