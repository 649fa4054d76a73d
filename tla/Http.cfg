SPECIFICATION Spec
CONSTANTS
    f1 = f1
    f2 = f2
    t1 = t1
    s1 = s1
    Absent = Absent
    Threads = {t1}
    Simple = {s1}
    Files = {f1, f2}
    Orig <- MCOrig
    Asks <- MCAsks
    Versions <- MCVersions
    ErrorBody <- MCErrorBody
    Garbage <- MCGarbage
    RIO_BUFSIZE = 2
    SockSize = 2
    MAXBUF = 2
    NrTimes = 1
    MaxChanges = 1
INVARIANTS
    StreamExact UndisturbedSucceeds AcceptedIsWhole
PROPERTIES
    WorkersReturn ClientEnds
CHECK_DEADLOCK FALSE
