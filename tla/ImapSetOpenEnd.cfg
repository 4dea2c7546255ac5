\* Intervals with an undefined end ("b:*") added with add(interval).
CONSTANTS
    Ids <- MCIds
    IntBits <- MCWideInt
    MaxValues = 1
    MaxIntervals = 1
    OpenIntervals = TRUE
SPECIFICATION Spec
INVARIANT EncodeRoundTrip
