SPECIFICATION Spec
CONSTANTS
    MaxRecordPlaintext = 8
    AeadTagLen = 2
    FloorRange = {7}
    MinGap = 2
    MaxGap = 3
    FrameHeaderSize = 2
    LenMod = 16
    RecordHeaderSize = 1
    PayloadLens = {1}
    CoverTargets = {}
    FrameTypes = {"data", "future"}
    AuthWindow = 1
    MaxFrames = 3
    MaxFailures = 0
    MaxInterference = 2
    MaxNow = 1
PROPERTY
    InOrder
CHECK_DEADLOCK FALSE
