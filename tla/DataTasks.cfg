SPECIFICATION FairSpec
CONSTANTS
    Images = {"a", "b"}
    Files = {"x", "y"}
    Faults = {"open", "decode", "process"}
    HttpFaults = {"url", "connect", "transfer", "status"}
    Sessions <- BothWays
    Asks = 2
INVARIANTS
    DataInv
    PixelsAlone
PROPERTIES
    ImageShown
    DownloadEnds
