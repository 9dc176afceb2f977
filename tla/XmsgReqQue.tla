----------------------------- MODULE XmsgReqQue -----------------------------
(***************************************************************************)
(* The request dispatcher and worker pool of the irodsXmsg server          *)
(* (src/iRODS/server/core/src/xmsgLib.c).                                  *)
(*                                                                         *)
(* The listener hands every accepted socket to addReqToQue, which appends  *)
(* it to the linked list XmsgReqHead under ReqQueCondMutex and signals     *)
(* ReqQueCond.  NUM_XMSG_THR threads run procReqRoutine: getReqFromQue     *)
(* pops the head (waiting on the condition while the list is empty and     *)
(* re-checking after every wake-up), then the thread reads the startup     *)
(* pack, sends the version, and loops select / readAndProcClientMsg until  *)
(* one of them fails, then closes the socket.                              *)
(*                                                                         *)
(* Every critical section of ReqQueCondMutex lies inside one action, and   *)
(* pthread_cond_wait releases the mutex atomically, so the mutex itself is *)
(* not a variable: a thread is either outside the critical section or      *)
(* blocked in cond_wait (pc "wait"), or woken and about to re-lock (pc     *)
(* "woken").                                                               *)
(***************************************************************************)
EXTENDS Naturals, Sequences, SequencesExt, FiniteSets

CONSTANTS
    Socks,          \* socket descriptors the listener may accept
    NumXmsgThr,     \* NUM_XMSG_THR, the size of the worker pool
    Nil             \* "no request" (myXmsgReq == NULL)

ASSUME NumXmsgThr \in Nat \ {0} /\ Socks # {} /\ Nil \notin Socks

Workers == 1..NumXmsgThr

VARIABLES
    reqQue,     \* the list XmsgReqHead, head first
    sockState,  \* per socket: "new" | "queued" | "taken" | "closed" | "dropped"
    pc,         \* per worker: where in procReqRoutine it is
    myReq,      \* per worker: the socket of myXmsgReq, or Nil
    lastSelect, \* per worker: the outcome of its last select()
    acceptLog,  \* history: sockets in the order addReqToQue received them
    takeLog     \* history: sockets in the order workers popped them

vars == <<reqQue, sockState, pc, myReq, lastSelect, acceptLog, takeLog>>

PCs == {"get", "wait", "woken", "startup", "version", "select", "read", "close"}
SelectOutcomes == {"none", "ready", "timeout", "eintr", "error"}

-----------------------------------------------------------------------------

Init ==
    /\ reqQue = <<>>
    /\ sockState = [s \in Socks |-> "new"]
    /\ pc = [w \in Workers |-> "get"]
    /\ myReq = [w \in Workers |-> Nil]
    /\ lastSelect = [w \in Workers |-> "none"]
    /\ acceptLog = <<>>
    /\ takeLog = <<>>

\* pthread_cond_signal: wake one thread blocked in cond_wait, if any.
SignalReqQueCond ==
    IF \E w \in Workers : pc[w] = "wait"
    THEN \E w \in {v \in Workers : pc[v] = "wait"} :
            pc' = [pc EXCEPT ![w] = "woken"]
    ELSE UNCHANGED pc

\* Mutant: myXmsgReq->sock is never set, the calloc'd request carries 0.
AddReqToQueNoSock(s) ==
    /\ sockState[s] = "new"
    /\ reqQue' = Append(reqQue, Nil)
    /\ sockState' = [sockState EXCEPT ![s] = "queued"]
    /\ acceptLog' = Append(acceptLog, s)
    /\ SignalReqQueCond
    /\ UNCHANGED <<myReq, lastSelect, takeLog>>

\* Mutant: the request is queued on top of the list.
AddReqToQueOnTop(s) ==
    /\ sockState[s] = "new"
    /\ reqQue' = <<s>> \o reqQue
    /\ sockState' = [sockState EXCEPT ![s] = "queued"]
    /\ acceptLog' = Append(acceptLog, s)
    /\ SignalReqQueCond
    /\ UNCHANGED <<myReq, lastSelect, takeLog>>

\* Mutant: pthread_cond_signal is left out.
AddReqToQueNoSignal(s) ==
    /\ sockState[s] = "new"
    /\ reqQue' = Append(reqQue, s)
    /\ sockState' = [sockState EXCEPT ![s] = "queued"]
    /\ acceptLog' = Append(acceptLog, s)
    /\ UNCHANGED <<pc, myReq, lastSelect, takeLog>>

\* addReqToQue(sock): append at the bottom of the list, then signal.
AddReqToQue(s) ==
    /\ sockState[s] = "new"
    /\ reqQue' = Append(reqQue, s)
    /\ sockState' = [sockState EXCEPT ![s] = "queued"]
    /\ acceptLog' = Append(acceptLog, s)
    /\ SignalReqQueCond
    /\ UNCHANGED <<myReq, lastSelect, takeLog>>

\* Mutant: XmsgReqHead is not advanced past the request taken.
TakeHeadNoPop(w) ==
    /\ myReq' = [myReq EXCEPT ![w] = Head(reqQue)]
    /\ reqQue' = reqQue
    /\ sockState' = [sockState EXCEPT ![Head(reqQue)] = "taken"]
    /\ takeLog' = Append(takeLog, Head(reqQue))
    /\ pc' = [pc EXCEPT ![w] = "startup"]

\* Pop the head of XmsgReqHead for worker w (both branches of getReqFromQue).
TakeHead(w) ==
    /\ myReq' = [myReq EXCEPT ![w] = Head(reqQue)]
    /\ reqQue' = Tail(reqQue)
    /\ sockState' = [sockState EXCEPT ![Head(reqQue)] = "taken"]
    /\ takeLog' = Append(takeLog, Head(reqQue))
    /\ pc' = [pc EXCEPT ![w] = "startup"]

\* Mutant: the first critical section waits on the condition before
\* looking at the list.
GetReqFromQueWaitFirst(w) ==
    /\ pc[w] = "get"
    /\ pc' = [pc EXCEPT ![w] = "wait"]
    /\ UNCHANGED <<reqQue, sockState, myReq, takeLog, lastSelect, acceptLog>>

\* getReqFromQue, first critical section: take the head if there is one,
\* otherwise block in pthread_cond_wait (which releases the mutex).
GetReqFromQue(w) ==
    /\ pc[w] = "get"
    /\ \/ /\ reqQue # <<>>
          /\ TakeHead(w)
       \/ /\ reqQue = <<>>
          /\ pc' = [pc EXCEPT ![w] = "wait"]
          /\ UNCHANGED <<reqQue, sockState, myReq, takeLog>>
    /\ UNCHANGED <<lastSelect, acceptLog>>

\* pthread_cond_wait may return without a signal.
SpuriousWakeup(w) ==
    /\ pc[w] = "wait"
    /\ pc' = [pc EXCEPT ![w] = "woken"]
    /\ UNCHANGED <<reqQue, sockState, myReq, lastSelect, acceptLog, takeLog>>

\* getReqFromQue after cond_wait returns holding the mutex: re-check the
\* list; if it is empty unlock and loop, otherwise take the head.
RecheckAfterWait(w) ==
    /\ pc[w] = "woken"
    /\ \/ /\ reqQue = <<>>
          /\ pc' = [pc EXCEPT ![w] = "get"]
          /\ UNCHANGED <<reqQue, sockState, myReq, takeLog>>
       \/ /\ reqQue # <<>>
          /\ TakeHead(w)
    /\ UNCHANGED <<lastSelect, acceptLog>>

\* Free myXmsgReq and go back to getReqFromQue; the socket is left as
\* newState ("closed" after close(), "dropped" when the code never closes it).
ReleaseReq(w, newState) ==
    /\ sockState' = [sockState EXCEPT ![myReq[w]] = newState]
    /\ myReq' = [myReq EXCEPT ![w] = Nil]
    /\ pc' = [pc EXCEPT ![w] = "get"]

\* readStartupPack: on error the request is freed and the loop continues
\* without closing the socket.
ReadStartupPack(w) ==
    /\ pc[w] = "startup"
    /\ \/ /\ pc' = [pc EXCEPT ![w] = "version"]
          /\ UNCHANGED <<sockState, myReq>>
       \/ ReleaseReq(w, "dropped")
    /\ UNCHANGED <<reqQue, lastSelect, acceptLog, takeLog>>

\* sendVersion: on error an SYS_AGENT_INIT_ERR version is sent, the request
\* is freed, and again the socket is not closed.
SendVersion(w) ==
    /\ pc[w] = "version"
    /\ \/ /\ pc' = [pc EXCEPT ![w] = "select"]
          /\ UNCHANGED <<sockState, myReq>>
       \/ ReleaseReq(w, "dropped")
    /\ UNCHANGED <<reqQue, lastSelect, acceptLog, takeLog>>

\* select() returns: readable (numSock > 0) or timed out (numSock == 0)
\* both go on to readAndProcClientMsg; any error other than EINTR breaks.
SelectReturn(w) ==
    /\ pc[w] = "select"
    /\ \E r \in {"ready", "timeout", "error"} :
          /\ lastSelect' = [lastSelect EXCEPT ![w] = r]
          /\ pc' = [pc EXCEPT ![w] = IF r = "error" THEN "close" ELSE "read"]
    /\ UNCHANGED <<reqQue, sockState, myReq, acceptLog, takeLog>>

\* select() interrupted by a signal: FD_SET again and retry.
SelectInterrupted(w) ==
    /\ pc[w] = "select"
    /\ lastSelect' = [lastSelect EXCEPT ![w] = "eintr"]
    /\ UNCHANGED <<reqQue, sockState, pc, myReq, acceptLog, takeLog>>

\* readAndProcClientMsg returns >= 0: one command served, select again.
ReadClientMsgOk(w) ==
    /\ pc[w] = "read"
    /\ pc' = [pc EXCEPT ![w] = "select"]
    /\ UNCHANGED <<reqQue, sockState, myReq, lastSelect, acceptLog, takeLog>>

\* readAndProcClientMsg returns < 0 (the client disconnected or erred).
ReadClientMsgFail(w) ==
    /\ pc[w] = "read"
    /\ pc' = [pc EXCEPT ![w] = "close"]
    /\ UNCHANGED <<reqQue, sockState, myReq, lastSelect, acceptLog, takeLog>>

\* close (rsComm.sock); free (myXmsgReq).
CloseConn(w) ==
    /\ pc[w] = "close"
    /\ ReleaseReq(w, "closed")
    /\ UNCHANGED <<reqQue, lastSelect, acceptLog, takeLog>>

Next ==
    \/ \E s \in Socks : AddReqToQue(s)
    \/ \E w \in Workers :
        \/ GetReqFromQue(w)
        \/ SpuriousWakeup(w)
        \/ RecheckAfterWait(w)
        \/ ReadStartupPack(w)
        \/ SendVersion(w)
        \/ SelectReturn(w)
        \/ SelectInterrupted(w)
        \/ ReadClientMsgOk(w)
        \/ ReadClientMsgFail(w)
        \/ CloseConn(w)

(***************************************************************************)
(* Fairness.  Each worker thread keeps running (weak fairness on its       *)
(* steps) and select eventually returns something other than EINTR.  The  *)
(* code itself bounds no session (a select timeout does not end it), so    *)
(* the assumption that every client session is finite is stated as strong  *)
(* fairness of readAndProcClientMsg failing: a worker that reads again and *)
(* again eventually sees the client disconnect.  Spurious wake-ups, EINTR  *)
(* and further client commands are never forced.                          *)
(***************************************************************************)
Fairness ==
    \A w \in Workers :
        /\ WF_vars(GetReqFromQue(w))
        /\ WF_vars(RecheckAfterWait(w))
        /\ WF_vars(ReadStartupPack(w))
        /\ WF_vars(SendVersion(w))
        /\ WF_vars(SelectReturn(w))
        /\ SF_vars(ReadClientMsgFail(w))
        /\ WF_vars(CloseConn(w))

Spec == Init /\ [][Next]_vars
FairSpec == Spec /\ Fairness

-----------------------------------------------------------------------------

TypeOK ==
    /\ reqQue \in Seq(Socks)
    /\ sockState \in [Socks -> {"new", "queued", "taken", "closed", "dropped"}]
    /\ pc \in [Workers -> PCs]
    /\ myReq \in [Workers -> Socks \cup {Nil}]
    /\ lastSelect \in [Workers -> SelectOutcomes]
    /\ acceptLog \in Seq(Socks)
    /\ takeLog \in Seq(Socks)

\* A socket being served is held by exactly one worker and is no longer in
\* XmsgReqHead: the pop in getReqFromQue never hands one request to two
\* threads, and a queued socket is in the list exactly once.
ExclusiveService ==
    /\ \A s \in Socks :
         sockState[s] = "taken" <=> \E w \in Workers : myReq[w] = s
    /\ \A v, w \in Workers : v # w /\ myReq[v] # Nil => myReq[v] # myReq[w]
    /\ \A s \in Socks :
         sockState[s] = "queued" <=>
            Cardinality({i \in DOMAIN reqQue : reqQue[i] = s}) = 1

\* Workers take connections in the order the listener accepted them
\* (addReqToQue appends at the bottom, getReqFromQue pops the head).
DispatchInAcceptOrder == IsPrefix(takeLog, acceptLog)

QueuedEventuallyTaken ==
    \A s \in Socks : sockState[s] = "queued" ~> sockState[s] # "queued"

\* The spec (section 4.4): a failed handshake terminates the connection.
\* Every socket a worker releases is closed, never merely forgotten.
NoSocketLeak == \A s \in Socks : sockState[s] # "dropped"

\* The spec (sections 4.4, 5): an idle-read timeout ends the session.  After
\* select() times out the worker closes the connection rather than reading.
TimeoutEndsSession ==
    [][\A w \in Workers :
         (pc[w] = "select" /\ lastSelect'[w] = "timeout") => pc'[w] = "close"]_vars


\* The dispatcher seen through XmsgDispatch: XmsgReqHead is the waiting
\* FIFO, myXmsgReq what each worker serves, and a socket a worker has
\* released (closed, or freed without close) is finished.
Dispatch == INSTANCE XmsgDispatch
                WITH queue <- reqQue,
                     serving <- myReq,
                     finished <- {s \in Socks : sockState[s] \in {"closed", "dropped"}}

\* addReqToQue, getReqFromQue and procReqRoutine implement the dispatch
\* contract, its liveness included: under the workers' fairness, the
\* signal of addReqToQue and the re-check after pthread_cond_wait never
\* leave a waiting connection while a worker is idle.
ImplementsDispatch == Dispatch!FairSpec

=============================================================================
