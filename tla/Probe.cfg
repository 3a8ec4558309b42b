CONSTANTS
    None = None
    DetectResult <- SomeResults
    DeviceTexts <- SomeDeviceTexts
    NetworkTexts <- SomeNetworkTexts
SPECIFICATION FairSpec
INVARIANT TypeOK
INVARIANT AnswerIsBest
INVARIANT EarnedConfidence
PROPERTY EveryProbeEnds
\* A probe ends.
CHECK_DEADLOCK FALSE
