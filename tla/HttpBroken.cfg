SPECIFICATION FairSpec
CONSTANTS
    Images = {"a"}
    Files = {"x"}
    Faults = {}
    HttpFaults = {"transfer"}
    Sessions <- MainThreadOnly
    Asks = 1
PROPERTY BrokenEnds
