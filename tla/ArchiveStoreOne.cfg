\* One process at a time, stopped anywhere.
SPECIFICATION Spec
CONSTANTS
    b1 = b1
    b2 = b2
    a1 = a1
    a2 = a2
    Writers = {w1}
    Urls = {u1}
    Replies = {r1}
    Bodies = {b1, b2}
    AssetUrls = {a1, a2}
    Refs <- MCRefs
    Times <- MCTimes
    TicksPerSecond = 2
    MaxOps = 3
    NoItem = NoItem
    NoCapture = NoCapture
INVARIANTS
    TypeOK
    WindowCoversEveryCapture
PROPERTIES
    ImplementsCaptureLog
CHECK_DEADLOCK FALSE
