CONSTANTS
    Cpus = {c1}
    Guests = {g1}
    NumPages = 2
    RegionPages = 2
    GuestGpas = {s1}
    NoCpu = NoCpu
    NoPage = NoPage
    AllocFails = TRUE
SPECIFICATION Spec
INVARIANT
    UnmappedPagesTracked
