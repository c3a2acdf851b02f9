CONSTANTS
    Cpus = {c1, c2}
    Guests = {g1, g2}
    NumPages = 2
    RegionPages = 2
    GuestGpas = {s1}
    NoCpu = NoCpu
    NoPage = NoPage
    AllocFails = TRUE
SPECIFICATION Spec
SYMMETRY Symmetry
INVARIANTS
    DonationTypeOK
    RootIsolation
    TrackerMatchesRootEpt
    NoOverlap
    LargeEntriesIntact
PROPERTY
    GuestMapsOnlyDonatedPages
\* Failed adds can leak every page: once every borrower is destroyed too,
\* no handler of the protocol has anything left to do.
CHECK_DEADLOCK FALSE
