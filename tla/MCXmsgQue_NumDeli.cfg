\* Receive counts when a sender also asks for deliveries (numDeli > 0).
CONSTANTS
    Tickets <- MCTickets
    Reserved <- MCReserved
    MsgNumbers = {1, 2}
    NumRcvValues = {1, 2}
    NumDeliValues = {0, 1}
    MaxMsgs = 2
    MaxSends = 3
    MaxRcvs = 2
    MaxTime = 1
    IncExpireInt = 1
SPECIFICATION Spec
INVARIANTS
    DeliveredNumRcvTimes
CHECK_DEADLOCK FALSE
