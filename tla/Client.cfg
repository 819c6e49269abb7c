\* Start and end: no, one, or more data files, or no readable directory; the
\* default frequency, none, and one with a period of 0 microseconds.
\* Pacing: a period of five units, delays of up to four periods.
CONSTANTS
    Part = {"main", "timer"}
    Fps = {0, 25, 2000000}
    OneSecond = 1000000
    FrameCounts = {0, 1, 2}
    Null = Null
    File = {f1}
    Number = {1}
    Size = {1}
    Wrap = 2
    Period = 5
    MaxLate = 20
SPECIFICATION MCSpec
INVARIANTS MishapsHaveCauses NeverEarly InStep
PROPERTIES StartsOrEnds CatchesUp
CHECK_DEADLOCK FALSE
