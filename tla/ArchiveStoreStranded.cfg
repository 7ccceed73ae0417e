\* One process, stopped between the item record and the capture record.
SPECIFICATION Spec
CONSTANTS
    b1 = b1
    b2 = b2
    a1 = a1
    a2 = a2
    Writers = {w1}
    Urls = {u1}
    Replies = {r1}
    Bodies = {b1, b2}
    AssetUrls = {a1, a2}
    Refs <- MCRefs
    Times <- MCTimes
    TicksPerSecond = 2
    MaxOps = 1
    NoItem = NoItem
    NoCapture = NoCapture
INVARIANT
    ItemExactlyWhenCaptured
CHECK_DEADLOCK FALSE
