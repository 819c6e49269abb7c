\* One particle that comes back to a place, the clocks show frames 0..3 and wrap at 1.
CONSTANTS
    FrameCount = 5
    Int16Max = 5
    Particle = {p1}
    Position <- MCPosition
    Path <- MCPath
    MaxFlight = 0
SPECIFICATION Spec
INVARIANTS InAgreement DrawnWellNow InStepShown
PROPERTIES Attributed
