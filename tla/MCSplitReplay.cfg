SPECIFICATION Spec
CONSTANTS
    Host <- MCHost
    Pcap <- MCPcap
    Capture <- MCCapture
    Corrupted <- MCCorrupted
    MaxPcaps = 4
INVARIANTS
    TypeOK
    PacketsAccounted
    FramesAccounted
    SuccessMeansDelivered
    PairsAreSplit
PROPERTIES
    SidesFixed
