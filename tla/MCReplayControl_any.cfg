SPECIFICATION LiveSpec
CONSTANTS
    folder = folder
    capture = capture
    missing = missing
    NoThread = NoThread
    Path <- MCPath
    Pcaps <- MCPcaps
    Selection <- MCOneCapture
    MaxPlays = 2
    Patient = FALSE
    Endless = TRUE
INVARIANTS
    TypeOK
    ButtonNeverStuck
    NoDanglingWrapper
    StopLatency
PROPERTIES
    PcapsBegunOnce
    EveryReplayEnds
    CloseCompletes
