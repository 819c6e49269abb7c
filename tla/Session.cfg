\* One batch of frames of each of two runs of the sender.
CONSTANTS
    SceneTags <- MCSceneTags
    OtherTags <- MCOtherTags
    MaxFrames = 1
    MaxLives = 2
SPECIFICATION Spec
INVARIANTS NoNullDeref IdsKnownWhenRunning FrameBeforeValue OnlyKnownNodes
           FollowsFirstRun
PROPERTIES ReceiverStarts InterruptEnds
CHECK_DEADLOCK FALSE
