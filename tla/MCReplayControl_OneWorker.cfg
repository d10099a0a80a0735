SPECIFICATION Spec
CONSTANTS
    folder = folder
    capture = capture
    missing = missing
    NoThread = NoThread
    Path <- MCPath
    Pcaps <- MCPcaps
    Selection <- MCSmallSelection
    MaxPlays = 2
    Patient = FALSE
    Endless = FALSE
INVARIANT
    OneWorker
