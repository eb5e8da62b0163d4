SPECIFICATION Spec
CONSTANTS
    Failures = 3
    Rate = 50
    Window = 7
    MaxBuckets = 3
    MaxLoad = 6
INVARIANTS TypeOK Rolling Bounded
PROPERTY Justified
