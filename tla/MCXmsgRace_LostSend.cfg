\* Two sends to different tickets at once, no receiver.
CONSTANTS
    Senders = {1, 2}
    Receivers = {}
    Tickets <- MCTickets
    SndTicket <- OwnTicket
    RcvTicket <- RcvFromTicket1
    NumRcv = 1
SPECIFICATION Spec
INVARIANT NoLostSend
CHECK_DEADLOCK FALSE
