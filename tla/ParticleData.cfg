\* Every trajectory of five frames over four positions, and every call on it.
CONSTANTS
    FrameCount = 5
    Int16Max = 32767
    Position = {a, b, c, d}
SPECIFICATION Spec
INVARIANTS
    ProcessMatchesReference
    ActiveWindow
    FindMatchesReference
    AttributedToSent
