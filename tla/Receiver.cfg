\* One particle, the clock shows frames 0 and 1, ticks wrap at 2.
CONSTANTS
    FrameCount = 3
    Int16Max = 2
    Particle = {p1}
    Position <- MCPosition
    Path <- MCPath
    SemMax = 1
    MaxBatch = 1
SPECIFICATION Spec
INVARIANTS NoCircularWait PointersSound RunsBeforeFrame
PROPERTIES DrawingIsolated FollowsAnimation AppearsAtomic
