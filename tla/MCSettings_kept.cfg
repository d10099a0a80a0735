SPECIFICATION Spec
CONSTANTS
    Text <- MCText
    Order <- MCOrder
    Initial <- MCInitial
    Fallback <- MCFallback
    Choice <- MCChoice
    Address <- MCAddress
    FirstIf <- MCFirstIf
    Number <- MCNumber
    Handmade <- MCHandmade
    NoFile = NoFile
    NoGrid = NoGrid
PROPERTY
    SettingsKept
