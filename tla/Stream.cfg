CONSTANTS
    Frames = 3
    Ends <- FrameEnds
    Header = 2
    Block = 4
    Junk = 1
SPECIFICATION FairSpec
INVARIANTS
    TypeOK
    FramesWhole
    SuccessIsComplete
    HandleKept
PROPERTIES
    ReaderReturns
    MeetsDelivery
