SPECIFICATION FairSpec
CONSTANTS
    MaxRecordPlaintext = 8
    AeadTagLen = 2
    FloorRange = {7}
    MinGap = 2
    MaxGap = 3
    FrameHeaderSize = 2
    LenMod = 16
    RecordHeaderSize = 1
    PayloadLens = {3}
    CoverTargets = {}
    FrameTypes = {"data"}
    AuthWindow = 1
    MaxFrames = 1
    MaxFailures = 0
    MaxInterference = 0
    MaxNow = 2
PROPERTY
    FrameTagsChecked
CHECK_DEADLOCK FALSE
