SPECIFICATION Spec
CONSTANTS
    Words <- MCWords
    Size <- MCSize
    Initializers <- MCInitializers
    Spaced <- MCSpaced
    Given <- MCGiven
    Sorted <- MCSorted
    Version <- MCVersion
    Refused <- MCRefused
    Handmade <- MCHandmade
    NoData = NoData
INVARIANTS
    TypeOK
PROPERTIES
    RoundTrip
    VersionKept
