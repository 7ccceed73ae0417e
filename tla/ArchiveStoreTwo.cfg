\* Two processes over one archive, each stopped anywhere.
SPECIFICATION Spec
CONSTANTS
    b1 = b1
    b2 = b2
    a1 = a1
    a2 = a2
    Writers = {w1, w2}
    Urls = {u1}
    Replies = {r1, r2}
    Bodies = {b1, b2}
    AssetUrls = {a1}
    Refs <- MCRefsOne
    Times = {0, 1}
    TicksPerSecond = 2
    MaxOps = 3
    NoItem = NoItem
    NoCapture = NoCapture
INVARIANTS
    RecordsPointAtStoredBytes
    EveryCaptureHasItsItem
PROPERTIES
    NoCaptureIsLost
CHECK_DEADLOCK FALSE
