\* A busy main thread misses the tick that deletes the particles.
CONSTANTS
    FrameCount = 5
    Int16Max = 5
    ParticleCount = 2
    Position <- MCPosition
    Path <- MCPath
    LeadIn = 2
    SemMax = 2
SPECIFICATION Spec
INVARIANTS DeletedAtEnd
