SPECIFICATION Spec
CONSTANTS
    folder = folder
    capture = capture
    missing = missing
    NoThread = NoThread
    Path <- MCPath
    Pcaps <- MCPcaps
    Selection <- MCSelection
    MaxPlays = 3
    Patient = TRUE
    Endless = TRUE
INVARIANTS
    NoReplayAfterFree
    CompleteUnlessStopped
    FilesEmptiedBeforePlay
PROPERTIES
    ImplementsJob
