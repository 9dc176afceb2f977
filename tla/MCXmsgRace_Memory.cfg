\* Two sends and two receives on one ticket at once, numRcv 1.
CONSTANTS
    Senders = {1, 2}
    Receivers = {r1, r2}
    Tickets <- MCTickets
    SndTicket <- SendToTicket1
    RcvTicket <- RcvFromTicket1
    NumRcv = 1
SPECIFICATION Spec
INVARIANT MemorySafe
CHECK_DEADLOCK FALSE
