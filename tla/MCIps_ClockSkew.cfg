\* One agent's start time, read from the server's clock, is one second
\* after the client's time(0).
CONSTANTS
    Servers = {s1, s2}
    Clients <- MCClients
    StartTimes <- StartedSkewed
    CurTime = 3600
    MaxRows = 3
    UintBits = 16
SPECIFICATION Spec
INVARIANT UptimeIsElapsedTime
CHECK_DEADLOCK FALSE
