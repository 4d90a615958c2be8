SPECIFICATION FairSpec
CONSTANTS
    src1 = src1
    src2 = src2
    tmp = tmp
    old = old
    new = new
    Absent = Absent
    NoFile = NoFile
    Files <- MCFilesSmall
    Ignored <- MCIgnored
    Contents <- MCContents
    MaxEdits = 3
    MaxFaults = 1
INVARIANT TypeOK
INVARIANT NothingSilentlyLost
INVARIANT SyncedWhenQuiet
PROPERTY ChangesReachPod
PROPERTY StopHonoured
PROPERTY IgnoredUntouched
CHECK_DEADLOCK FALSE
