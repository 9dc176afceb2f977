\* Queue consistency, FIFO order, receive counts, and the channel contract.
CONSTANTS
    Tickets <- MCTickets
    Reserved <- MCReserved
    MsgNumbers = {1, 2}
    NumRcvValues = {1, 2}
    NumDeliValues = {0}
    MaxMsgs = 2
    MaxSends = 3
    MaxRcvs = 2
    MaxTime = 1
    IncExpireInt = 1
SPECIFICATION Spec
INVARIANTS
    TypeOK
    XmsgQueConsistent
    TicketQueFIFO
    NoOrphanMessage
    DeliveredNumRcvTimes
PROPERTIES
    ImplementsChannel
CHECK_DEADLOCK FALSE
