SPECIFICATION Spec
CONSTANTS
    None = None
    Values <- MCValues
    Metadata <- MCMetadata
    Settings <- MCSettings
    MaxSends = 2
CHECK_DEADLOCK FALSE
INVARIANTS
    RoundTrip
    
