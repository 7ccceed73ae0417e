\* Seven pages, a ceiling of four of them, two hops and a queue of two pages: one
\* page only the crawler refuses, one only robots.txt does, one declares a base.
SPECIFICATION Spec
CONSTANTS
    home = home
    pa = pa
    pb = pb
    pc = pc
    pd = pd
    pe = pe
    pf = pf
    Pages = {home, pa, pb, pc, pd, pe, pf}
    Start = home
    Links <- MCLinks
    Allowed = {home, pa, pc, pd, pe, pf}
    EngineAllowed = {home, pa, pb, pc, pe, pf}
    DeclaresBase = {pb}
    MaxPages = 4
    MaxDepth = 2
    Concurrency = 2
    QueueFactor = 1
    HasDeadline = TRUE
INVARIANTS
    TypeOK
    EveryPageSentIsAnswered
    LostLinksAreAnswered
    RefusedIsNeverDelivered
    RecoveryKeepsTheBounds
PROPERTIES
    ImplementsEngineContract
    EngineEnds
CHECK_DEADLOCK FALSE
