\* Listings of up to three rows from two servers, every agent started
\* before the client's time(0).
CONSTANTS
    Servers = {s1, s2}
    Clients <- MCClients
    StartTimes <- StartedBefore
    CurTime = 3600
    MaxRows = 3
    UintBits = 16
SPECIFICATION Spec
INVARIANTS
    TypeOK
    UptimeIsElapsedTime
    ListingFaithful
    ListingComplete
CHECK_DEADLOCK FALSE
