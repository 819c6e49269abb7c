\* The counter after a late pass of the loop.
CONSTANTS
    Period = 5
    MaxLate = 20
SPECIFICATION Spec
PROPERTIES CounterCorresponds
