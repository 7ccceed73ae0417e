\* A crawl and a listing under one ceiling, killed anywhere.
SPECIFICATION Spec
CONSTANTS
    p = p
    pAlias = pAlias
    q = q
    odd = odd
    lan = lan
    hostP = hostP
    hostQ = hostQ
    Addresses <- MCAddressesFew
    Canon <- MCCanon
    Unaddressable = Unaddressable
    InsideANetwork = {lan}
    LandsOn <- MCLandsOn
    Origin <- MCOrigin
    MaxPages = 2
    HasDeadline = FALSE
    Kinds = {"both"}
    MaxRuns = 1
    NoAddress = NoAddress
INVARIANTS
    EveryLossIsOwed
    RunStaysWithinMaxPages
PROPERTIES
    NotAskedAgain
CHECK_DEADLOCK FALSE
