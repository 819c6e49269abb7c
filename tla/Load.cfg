\* Four entries, with all combinations of frame numbers and sizes.  A uint16
\* counts to 2: three and four files are too many, and so are four particles.
\* No temporal property, so the entries may be permuted.
CONSTANTS
    Part = {"load"}
    Fps = {25}
    OneSecond = 1000000
    FrameCounts = {2}
    Null = Null
    File = {f1, f2, f3, f4}
    Number = {0, 1, 2, 3, 4}
    Size = {1, 2, 4}
    Wrap = 3
    Period = 5
    MaxLate = 20
SPECIFICATION MCSpec
SYMMETRY Entries
INVARIANTS WritesInside LoadsWhatIsThere GapsAreRejected
CHECK_DEADLOCK FALSE
