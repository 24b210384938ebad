CONSTANTS
    Wheel = {"cp310", "cp311a", "cp311b"}
    Dir = {"cp310", "cp311a"}
    dst <- DstDir
    Task = {t1, t2}
    t1 = t1
    t2 = t2
    Missing = Missing
    Broken = Broken
    MaxVersion = 2
    MaxFaults = 3
SPECIFICATION FairSpec
INVARIANTS InstallSound
PROPERTIES Repaired
CHECK_DEADLOCK FALSE
