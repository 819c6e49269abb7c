\* Progress of the three threads: one particle, two frames, ticks wrap at 1.
CONSTANTS
    FrameCount = 2
    Int16Max = 1
    Particle = {p1}
    Position <- MCPosition
    Path <- MCPath
    SemMax = 1
    MaxBatch = 1
SPECIFICATION Spec
PROPERTIES UpdateEnds ClockTicks
