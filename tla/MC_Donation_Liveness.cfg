CONSTANTS
    Cpus = {c1, c2}
    Guests = {g1}
    NumPages = 2
    RegionPages = 2
    GuestGpas = {s1}
    NoCpu = NoCpu
    NoPage = NoPage
    AllocFails = FALSE
SPECIFICATION Spec
PROPERTIES
    HandlersReturn
