CONSTANTS
    None = None
    DetectResult <- SomeResults
    DeviceTexts <- SomeDeviceTexts
    NetworkTexts <- SomeNetworkTexts
SPECIFICATION Spec
INVARIANT PartialAnswerKept
\* A probe ends.
CHECK_DEADLOCK FALSE
