SPECIFICATION EfiSpec
CONSTANTS
    Word = 128
    MaxTotal = 64
    FbSize = 14
    NameSize = 6
    Infos <- MCInfos
    MaxTags = 9
    Wide = 256
    Page = 4
    FreePages = {0, 1, 2, 3, 4, 5, 6, 7}
    MaxSegs = 2
    PhSize = 4
    Cases <- MCCases
INVARIANTS FramebufferInside FindInside MountsFirstRootfs EfiCopiesInside
PROPERTIES BootEnds EfiHandsOver
CHECK_DEADLOCK FALSE
