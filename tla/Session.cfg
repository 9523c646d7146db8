SPECIFICATION FairSpec
CONSTANTS
    MaxTail = 2
    MaxResume = 1
    MaxSteps = 1
INVARIANTS PauseHolds RecordTrue
PROPERTIES StopStands SessionSettles
