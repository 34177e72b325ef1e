SPECIFICATION FairSpec
CONSTANTS
    MaxRecordPlaintext = 8
    AeadTagLen = 2
    FloorRange = {7}
    MinGap = 2
    MaxGap = 3
    FrameHeaderSize = 2
    LenMod = 16
    RecordHeaderSize = 1
    PayloadLens = {3, 12}
    CoverTargets = {}
    FrameTypes = {"data"}
    AuthWindow = 1
    MaxFrames = 2
    MaxFailures = 0
    MaxInterference = 0
    MaxNow = 0
PROPERTY
    FramesSettle
CHECK_DEADLOCK FALSE
