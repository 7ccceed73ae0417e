\* Three pictures and their narrower renditions on a host that never answers.
SPECIFICATION Spec
CONSTANTS
    p = p
    q = q
    wide = wide
    narrow = narrow
    script = script
    lan = lan
    w1 = w1
    w2 = w2
    w3 = w3
    n1 = n1
    n2 = n2
    n3 = n3
    photo = photo
    NoUrl = NoUrl
    NoCapture = NoCapture
    Urls = {w1, w2, w3, n1, n2, n3, photo}
    Captures = {p}
    Refs <- MCRefsDead
    Inside = {}
    Dead = {w1, w2, w3, n1, n2, n3}
    Sizes = {1}
    MaxPerCapture = 128
    MaxAssetBytes = 2
    MaxCaptureBytes = 8
    MaxSilences = 3
    TimedRuns = {}
    MaxStops = 0
PROPERTIES
    CeilingMissIsRecoverable
CHECK_DEADLOCK FALSE
