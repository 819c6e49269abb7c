\* Two particles, the clock shows frames 0..3, ticks wrap at 5.
CONSTANTS
    FrameCount = 5
    Int16Max = 5
    ParticleCount = 2
    Position <- MCPosition
    Path <- MCPath
    LeadIn = 2
    SemMax = 2
SPECIFICATION Spec
INVARIANTS LayerMatchesTag
PROPERTIES Animates Streams
