CONSTANTS
    None = None
    CodeDepth = 2
    ValueDepth = 2
    Reparsed <- MCReparsed
    Restored <- MCRestored
    RestoredTorn <- MCRestoredTorn
    Redumped <- MCRedumped
    MaskXor <- MCXor
    Contents <- MCContents
    Options <- MCOptions
    Masks <- MCMasks
    Requests <- MCRequests
    Statistics <- MCStatistics
    Rooms <- MCRooms
SPECIFICATION Spec
CHECK_DEADLOCK FALSE
INVARIANTS ParsesBack SavedReadsBack TornSaveIsLocal DumpRoundTrip ReceivedAsSent
