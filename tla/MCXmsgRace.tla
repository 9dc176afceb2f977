------------------------------ MODULE MCXmsgRace -----------------------------
(* Tickets 1 and 2; message addresses are the senders 1, 2; receivers are  *)
(* model values.                                                           *)
EXTENDS XmsgRace

MCTickets == {1, 2}
\* each sender sends to the ticket of its own number
OwnTicket == [w \in Senders |-> w]
\* every sender / receiver uses ticket 1
SendToTicket1 == [w \in Senders |-> 1]
RcvFromTicket1 == [r \in Receivers |-> 1]
=============================================================================
