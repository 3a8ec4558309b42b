CONSTANTS
    d1 = d1  d2 = d2
    p554 = p554  p80 = p80
    Detection = {d1, d2}
    Port = {p554, p80}
    RtspPort = {p554}
    OnvifPort = {p80}
    Limit <- TwoInTotal
SPECIFICATION FairSpec
INVARIANT TypeOK
INVARIANT SlotsConserved
INVARIANT ProbesUnderTotal
INVARIANT CancelledIsTold
PROPERTY EveryCallEnds
