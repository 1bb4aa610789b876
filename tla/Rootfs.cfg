SPECIFICATION Spec
CONSTANTS
    HeaderSize = 2
    EntrySize = 3
    MaxEntries = 3
    MaxPathLen = 4
    Paths <- MCPaths
    PathLen <- MCPathLen
    Top <- MCTop
    NameLen <- MCNameLen
    Images <- MCImages
    ItemLists <- MCItems
    OutSizes = {0, 1, 2, 3, 4, 5, 6}
INVARIANTS ReadsInsideModule ListInsideBuffer ListExact PackedRoundTrip
