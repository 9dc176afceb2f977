------------------------------ MODULE MCXmsgQue ------------------------------
(* Two tickets (one reserved, one a client may obtain), three message       *)
(* slots, two message numbers, numRcv of 1 or 2.                            *)
EXTENDS XmsgQue

MCTickets == {1, 4}
MCReserved == {1}
=============================================================================
