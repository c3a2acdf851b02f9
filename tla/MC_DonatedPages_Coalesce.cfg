CONSTANTS
    Guests = {g1}
    NumPages = 4
SPECIFICATION TrackerSpec
INVARIANT NoAdjacentRanges
