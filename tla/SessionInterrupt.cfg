\* SIGINT before the sender node exists.
CONSTANTS
    SceneTags <- MCSceneTags
    OtherTags <- MCOtherTags
    MaxFrames = 1
    MaxLives = 1
SPECIFICATION Spec
CHECK_DEADLOCK FALSE
INVARIANTS InterruptTerminates
