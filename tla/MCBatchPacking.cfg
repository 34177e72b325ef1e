SPECIFICATION Spec
CONSTANTS
    MaxRecordPlaintext = 10
    AeadTagLen = 2
    FloorRange = {5, 6}
    MinGap = 2
    MaxGap = 4
    FrameHeaderSize = 2
    LenMod = 16
    PayloadLens = {0, 3, 4, 8, 9}
    MaxItems = 4
INVARIANTS
    PackingMinimal
    PackingKeepsFrames
    PaddingReachesBoundary
CHECK_DEADLOCK FALSE
