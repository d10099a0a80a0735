SPECIFICATION FairSpec
CHECK_DEADLOCK FALSE
CONSTANTS
    Devs <- MCDevs
    Adapters <- MCAdapters
    Guid <- MCGuid
    atoi <- MCatoi
    inet_addr <- MCinet_addr
    Attributes <- MCAttributes
    Entries <- MCEntries
    Times <- MCTimes
    Lines <- MCLines
    Selections <- MCSelections
    Saved <- MCSaved
    Delays <- MCDelays
INVARIANTS
    TypeOK
    
    AtMostOneLate
    FindsAccounted
    
    RefusedForReason
PROPERTIES
    EveryCommandEnds
