\* add(values) and bounded add(interval): grouping and the wire round trip.
CONSTANTS
    Ids <- MCIds
    IntBits <- MCWideInt
    MaxValues = 3
    MaxIntervals = 3
    OpenIntervals = FALSE
SPECIFICATION Spec
INVARIANT AddValuesMatchesRuns
INVARIANT EncodeRoundTrip
