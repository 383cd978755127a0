SPECIFICATION Spec
CONSTANTS
    NoProduct = NoProduct
    Products <- MCProducts
    Campaigns <- MCCampaigns
    Allowed <- MCAllowed
    BaseThreshold <- MCBaseThreshold
    Utterances <- MCUtterances
    ConfidenceThreshold = 62
    MaxNegativeTurns = 2
    MaxClarifications = 1
    MaxRetries = 2
    UnsafeTemplates = {}
    RestrictedTemplates = {}
    MaxTurns = 5
INVARIANTS
    TypeOK
    PatienceRunsOut
    TransferAgrees
    HandoffIsKept
    UnsureReplyAsks
    VerifyAccountIsAsked
    OrderIsEligible
PROPERTIES
    StickyTransfer
