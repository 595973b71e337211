SPECIFICATION FairSpec
CONSTANTS
    Timeout = 5
    Period = 3
    MaxAge = 15
    Absent = Absent
INVARIANT TypeOK
INVARIANT LiveMarkerNeverExpires
INVARIANT NotReadyWithoutClient
PROPERTY Recovers
PROPERTY FailsClosed
