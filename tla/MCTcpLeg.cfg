SPECIFICATION FairSpec
CONSTANTS
    MaxRecordPlaintext = 8
    AeadTagLen = 2
    FloorRange = {4, 5}
    MinGap = 2
    MaxGap = 3
    FrameHeaderSize = 2
    LenMod = 16
    RecordHeaderSize = 1
    PayloadLens = {0, 3, 7, 15}
    CoverTargets = {3, 7}
    FrameTypes = {"data"}
    AuthWindow = 1
    MaxFrames = 3
    MaxFailures = 1
    MaxInterference = 0
    MaxNow = 0
INVARIANTS
    TypeOK
    StagingHoldsWholeFrames
    CountersInStep
    LengthsShaped
PROPERTIES
    InOrder
    FramesSettle
CHECK_DEADLOCK FALSE
