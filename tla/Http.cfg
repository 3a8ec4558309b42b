CONSTANTS
    c1 = c1  c2 = c2
    None = None
    Call = {c1, c2}
    Paths = 1
    PreferHttps = FALSE
    Flags <- PlainAndAll
    TTL = 1
    NotFoundTTL = 1
    MaxNow = 2
    MaxChanges = 1
SPECIFICATION FairSpec
INVARIANT TypeOK
INVARIANT OnlyOrphansBlock
PROPERTY NoNeedlessSearch
PROPERTY SearchIsExhaustive
PROPERTY HonestNo
PROPERTY CallsReturn
\* Every call ends and the client is closed: then nothing more happens.
CHECK_DEADLOCK FALSE
