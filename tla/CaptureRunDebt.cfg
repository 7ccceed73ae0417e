\* A listing and a resume of what it left, over every kind of address.
SPECIFICATION Spec
CONSTANTS
    p = p
    pAlias = pAlias
    q = q
    odd = odd
    lan = lan
    hostP = hostP
    hostQ = hostQ
    Addresses <- MCAddressesOdd
    Canon <- MCCanon
    Unaddressable = Unaddressable
    InsideANetwork = {lan}
    LandsOn <- MCLandsOn
    Origin <- MCOrigin
    MaxPages = 2
    HasDeadline = TRUE
    Kinds = {"sitemap", "resume"}
    MaxRuns = 2
    NoAddress = NoAddress
INVARIANTS
    TypeOK
    PaidDebtIsDropped
PROPERTIES
    DebtIsKept
CHECK_DEADLOCK FALSE
