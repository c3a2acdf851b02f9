CONSTANTS
    dom0 = dom0
    g1 = g1
    g2 = g2
    i1 = i1
    i2 = i2
    a = a
    b = b
    c = c
    e = e
    NoDomain = NoDomain
    Domains = {dom0, g1, g2}
    Root = dom0
    Iommus = {i1, i2}
    Devices = {a, b, c, e}
    IommuOf <- MCIommuOf
    Catchall = {i1}
    CoherentIommus = {i2}
    SnoopIommus = {i2}
    PsiIommus = {i2}
    Passthru = {c, e}
    PassthruDomains = {g1}
    RootDevs <- MCRootDevs
    NumIoPages = 2
    IoRegionPages = 2
SPECIFICATION IommuSpec
INVARIANTS
    DmaIsolation
    NoStaleWalk
