SPECIFICATION FairSpec
CONSTANTS
    Account = "SGD"
    Pairs <- MCPairs
    QuoteCcy <- MCQuoteCcy
    Needed <- MCNeeded
    Quoted <- MCQuoted
    RefreshSecs = 2
    MaxAttempts = 2
    Mids = {2, 3}
INVARIANTS
    TypeOK
    FreshWhenSized
    PipValueTrue
PROPERTY RatesComeBack
