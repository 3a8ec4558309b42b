CONSTANTS
    w1 = w1  w2 = w2
    NoHost = NoHost
    Worker = {w1, w2}
    NHosts = 8
SPECIFICATION FairSpec
INVARIANT TypeOK
INVARIANT AtMostOnce
INVARIANT BackPressure
INVARIANT AllButOneReturned
INVARIANT NothingLeftRunning
PROPERTY PromptScanEnds
PROPERTY TearsDown
