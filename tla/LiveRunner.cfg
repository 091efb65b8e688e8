SPECIFICATION FairSpec
CONSTANTS
    FailureWindow = 3
    MaxFailures = 3
    Backoff <- MCBackoff
    MaxBacklog = 2
PROPERTIES
    EveryEventOnceInOrder
    NoEventInShutdown
    ExhaustedExactly
    DeadStreamRestarts
    WatchdogRuns
    EventsFlowAgain
