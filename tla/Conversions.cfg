SPECIFICATION Spec
CONSTANTS
    Token = "archeion"
    Tracking = {9}
    MaxSitemapUrls = 1
    OnHost = {"on", "here"}
    MaxNestingDepth = 2
    SeedScheme = "https"
    SeedHost = "seed"
    Limit = 2
    Prescan = 12
    MinArticleChars = 3
    ShareDenominator = 4
    MaxText = 1
    MaxMarkdown = 1
    MaxRulesBytes = 2
    SlugMaxBytes = 3
    ScanCeilings <- ScanMax
INVARIANTS
    BoundaryIsHeld
    DocumentsAreReadWhole
    FilingIsFaithful
CHECK_DEADLOCK FALSE
