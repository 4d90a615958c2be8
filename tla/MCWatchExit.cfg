SPECIFICATION Spec
CONSTANTS
    src1 = src1
    src2 = src2
    tmp = tmp
    old = old
    new = new
    Absent = Absent
    NoFile = NoFile
    Files <- MCTwoFiles
    Ignored <- MCNoIgnored
    Contents <- MCContents
    MaxEdits = 2
    MaxFaults = 0
INVARIANT PushNeverExits
CHECK_DEADLOCK FALSE
