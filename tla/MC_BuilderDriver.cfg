CONSTANTS
    r1 = r1
    r2 = r2
    r3 = r3
    Requests <- MCRequests
    Image = Image
    Initrd = Initrd
    Cmdl = Cmdl
    CreateVm = CreateVm
    DestroyVm = DestroyVm
    OtherCode = OtherCode
    NoFailure = NoFailure
INIT DriverInit
NEXT DriverNext
INVARIANTS
    NoResourceLeak
CHECK_DEADLOCK FALSE
