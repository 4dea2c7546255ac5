\* Ids beyond the range of the int the add() loop narrows them to.
CONSTANTS
    Ids <- MCIdsNarrow
    IntBits <- MCNarrowInt
    MaxValues = 2
    MaxIntervals = 2
    OpenIntervals = FALSE
SPECIFICATION Spec
INVARIANT EncodeRoundTrip
