\* Two processes, upgrades, an edited rule and a stop.
SPECIFICATION Spec
CONSTANTS
    Processes = {w1, w2}
    MetaVersions <- MCVersions
    ReadVersions <- MCVersions
    FirstBuild <- MCFirstBuild
    SomePages <- MCPages
    MaxStops = 1
    MaxChanges = 1
    None = None
SYMMETRY MCSymmetry
INVARIANTS
    TypeOK
PROPERTIES
    ReadingNeverVanishes
    PassLeavesCurrentReading
    PassReadsWithItsBuild
    SecondPassWritesNothing
CHECK_DEADLOCK FALSE
