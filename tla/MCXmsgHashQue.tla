---------------------------- MODULE MCXmsgHashQue ---------------------------
(* The registry with two hash slots and nine ticket values, so that tickets *)
(* share buckets and a client ticket can be linked in at the head, the      *)
(* tail and the middle of a bucket and then taken out again.                *)
EXTENDS XmsgHashQue

MCTickets == 1..9
MCReserved == {1, 2, 3}
=============================================================================
