\* Two pages that share references, ceilings of two, a stop anywhere.
SPECIFICATION Spec
CONSTANTS
    p = p
    q = q
    wide = wide
    narrow = narrow
    script = script
    lan = lan
    w1 = w1
    w2 = w2
    w3 = w3
    n1 = n1
    n2 = n2
    n3 = n3
    photo = photo
    NoUrl = NoUrl
    NoCapture = NoCapture
    Urls = {photo, wide, narrow, script, lan}
    Captures = {p, q}
    Refs <- MCRefsShared
    Inside = {lan}
    Dead = {}
    Sizes = {1, 3}
    MaxPerCapture = 2
    MaxAssetBytes = 2
    MaxCaptureBytes = 2
    MaxSilences = 2
    TimedRuns = {"crawl"}
    MaxStops = 1
INVARIANTS
    TypeOK
    AskedOncePerPass
    SilenceIsBounded
    TransferIsBounded
    HeldBytesAreListed
    LesserKindsLoseFirst
    RecordAccountsForThePage
PROPERTIES
    PlainPageIsRecovered
CHECK_DEADLOCK FALSE
