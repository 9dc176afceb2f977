---------------------------- MODULE MCXmsgReqQue ----------------------------
(* Model of the dispatcher with three sockets and two worker threads.      *)
EXTENDS XmsgReqQue, TLC

CONSTANTS s1, s2, s3

MCSocks == {s1, s2, s3}

\* Socket descriptors are interchangeable (safety runs only).
SockSymmetry == Permutations(MCSocks)
=============================================================================
