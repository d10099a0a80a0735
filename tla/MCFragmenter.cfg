SPECIFICATION LiveSpec
CONSTANTS
    LengthFields <- MCLengthFields
    Caplens <- MCCaplens
    HeaderLengths <- MCHeaderLengths
    OriginalUnits <- MCOriginalUnits
INVARIANTS
    TypeOK
    Consecutive
    FitsLink
    WithinCapture
    WholePacketSent
    OffsetsHonest
PROPERTIES
    Returns
