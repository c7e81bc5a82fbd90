SPECIFICATION FairSpec
CONSTANTS
    Lags = {short, long}
    NoLag = NoLag
INVARIANTS
    CaptureIsAcknowledged
PROPERTIES
    GivenUpHelperEnds
    EndIsNoticed
\* The interface may be closed.
CHECK_DEADLOCK FALSE
