\* Each family's channel, and a family exchanged for another.
SPECIFICATION FairCommandSpec
CONSTANTS
    Family <- Families
    Modes <- SomeModes
    Level = {1, 2}
    Distance = {"near", "far"}
    Shift <- TwoShifts
    Histories <- All
INVARIANTS
    CurrentIsTheirs
PROPERTIES
    LastChoiceWins
    ConvergenceFollows
CHECK_DEADLOCK FALSE
