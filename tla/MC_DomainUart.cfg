CONSTANTS
    v1 = v1
    v2 = v2
    v3 = v3
    x3F8 = x3F8
    x2F8 = x2F8
    x3E8 = x3E8
    x2E8 = x2E8
    OtherPort = OtherPort
    NoPort = NoPort
    Vcpus <- MCVcpus
    ComOrder <- MCComOrder
INIT UartInit
NEXT UartNext
INVARIANTS
    ConsoleIsDumped
CHECK_DEADLOCK FALSE
