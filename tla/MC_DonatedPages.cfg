CONSTANTS
    Guests = {g1, g2}
    NumPages = 5
SPECIFICATION TrackerSpec
SYMMETRY GuestSymmetry
INVARIANTS
    TrackerTypeOK
    NoOverlap
    FindPageRangeCorrect
PROPERTY
    TrackerImplementsDonationSet
