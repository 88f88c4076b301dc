SPECIFICATION NavSpec
CONSTANTS
    Anime = {1, 2}
    Listed = {2}
    MaxSteps = 7
PROPERTIES OwnWalkDemotes
CHECK_DEADLOCK FALSE
