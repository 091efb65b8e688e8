SPECIFICATION FairDownload
CONSTANTS
    Pairs <- MCPairs
    Gran = 2
    Start = 1
    End = 7
    PageSize = 2
    MaxAttempts = 3
    LastTime = 9
INVARIANTS
    HistoryComplete
    ReplaysPrefix
PROPERTY DownloadEnds
CHECK_DEADLOCK FALSE
