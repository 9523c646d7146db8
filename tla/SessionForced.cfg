SPECIFICATION FairSpec
CONSTANTS
    MaxTail = 1
    MaxResume = 1
    MaxSteps = 1
PROPERTIES ClosingForced
