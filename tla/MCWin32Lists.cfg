SPECIFICATION Win32Spec
CONSTANTS
    sys = sys
    prog1 = prog1
    prog2 = prog2
    logon = logon
    e1 = e1
    e2 = e2
    w1 = w1
    d1 = d1
    l1 = l1
    k1 = k1
    k2 = k2
    k3 = k3
    Procs = {sys, prog1, prog2, logon}
    System = sys
    Kernel = Kernel
    Entries = {e1, e2, w1, d1, l1, k1, k2, k3}
    PsHead = PsHead
    Null = Null
    Junk = Junk
    Odd = Odd
    Process <- MCProcess
    Module <- MCModule
    Loads <- MCLoads
    short <- MCShort
    Requests <- MCRequests
    Started <- MCStarted
    MaxIter = 4
    MaxCalls = 2
    MaxChanges = 3
    MaxFaults = 1
INVARIANTS WalkFindsSurvivors ModulesFindSurvivors SearchIsTrue KeysAreTrue
CONSTRAINT FewEvents
CHECK_DEADLOCK FALSE
