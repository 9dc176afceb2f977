------------------------------ MODULE XmsgRace ------------------------------
(***************************************************************************)
(* Worker threads of the irodsXmsg server running rsSendXmsg and           *)
(* rsRcvXmsg at the same time (src/iRODS/server/core/src/xmsgLib.c).       *)
(*                                                                         *)
(* Nothing locks XmsgQue, the ticket queues or the counters of a message:  *)
(* only the request queue has a mutex.  Every statement that reads or      *)
(* writes shared memory is one step here, so TLC explores every way the    *)
(* statements of two workers can interleave.  A message lives at the       *)
(* address of the sender that allocated it; each sender sends one message  *)
(* to its ticket, and a receiver asks for ANY_MSG_NUMBER on its ticket.    *)
(* A NULL dereference ends the server (crashed).                           *)
(***************************************************************************)
EXTENDS Integers, Sequences, SequencesExt, FiniteSets

CONSTANTS
    Senders,        \* workers serving rsSendXmsg; also the message addresses
    Receivers,      \* workers serving rsRcvXmsg
    Tickets,        \* registered tickets
    SndTicket,      \* [Senders -> Tickets]
    RcvTicket,      \* [Receivers -> Tickets]
    NumRcv          \* numRcv of every message sent

ASSUME /\ Senders \subseteq Nat \ {0} /\ NumRcv \in Nat \ {0}
       /\ SndTicket \in [Senders -> Tickets] /\ RcvTicket \in [Receivers -> Tickets]

Null == 0
Ptr == Senders \cup {Null}

VARIABLES
    qhead, qtail,   \* XmsgQue.head, XmsgQue.tail
    thead, ttail,   \* [Tickets -> Ptr]: ticketMsgStruct->xmsgQue
    nxtSeq,         \* [Tickets -> Nat]: nxtSeqNumber
    lnk,            \* [Senders -> [next, prev, tnext, tprev]]
    numRcv,         \* [Senders -> Int]: sendXmsgInfo->numRcv
    seqNo,          \* [Senders -> Int]: seqNumber
    freed,          \* messages passed to free()
    spc, rpc,       \* the statement each sender / receiver is at
    rx,             \* [Receivers -> Ptr]: the irodsXmsg_t a receiver works on
    rval,           \* [Receivers -> Int]: numRcv as loaded for numRcv--
    crashed         \* a worker dereferenced NULL

vars == <<qhead, qtail, thead, ttail, nxtSeq, lnk, numRcv, seqNo, freed,
          spc, rpc, rx, rval, crashed>>

SPCs == {"new", "gput", "gtop1", "gtop2", "gtop3",
         "tput", "tfirst1", "tfirst2", "tend1", "tend2", "tend3", "tend4", "seq", "inc", "done"}
RPCs == {"find", "dec1", "dec2", "check", "grm1", "grm2", "grm3",
         "trm1", "trm2", "trm3", "free"}

\* Follow one link field from p until NULL, at most one step per message.
RECURSIVE Chain(_, _, _)
Chain(p, f, n) ==
    IF p = Null \/ n > Cardinality(Senders) THEN <<>>
    ELSE <<p>> \o Chain(lnk[p][f], f, n + 1)

SGo(w, from, to) == spc[w] = from /\ spc' = [spc EXCEPT ![w] = to]
RGo(r, from, to) == rpc[r] = from /\ rpc' = [rpc EXCEPT ![r] = to]
SetLnk(a, f, v) == lnk' = [lnk EXCEPT ![a][f] = v]
Alive == ~crashed

-----------------------------------------------------------------------------

Init ==
    /\ qhead = Null /\ qtail = Null
    /\ thead = [t \in Tickets |-> Null] /\ ttail = [t \in Tickets |-> Null]
    /\ nxtSeq = [t \in Tickets |-> 0]
    /\ lnk = [a \in Senders |-> [next |-> Null, prev |-> Null,
                                 tnext |-> Null, tprev |-> Null]]
    /\ numRcv = [a \in Senders |-> 0] /\ seqNo = [a \in Senders |-> 0]
    /\ freed = {}
    /\ spc = [w \in Senders |-> "new"] /\ rpc = [r \in Receivers |-> "find"]
    /\ rx = [r \in Receivers |-> Null] /\ rval = [r \in Receivers |-> 0]
    /\ crashed = FALSE

(* --- rsSendXmsg: a new irodsXmsg_t, then addXmsgToXmsgQue (45-54), then *)
(* --- addXmsgToTicketMsgStruct (130-142).                                *)

\* calloc of the message with numRcv; line 47 tests XmsgQue.head.
SendNew(w) ==
    /\ Alive /\ SGo(w, "new", IF qhead = Null THEN "gput" ELSE "gtop1")
    /\ numRcv' = [numRcv EXCEPT ![w] = NumRcv]
    /\ UNCHANGED <<qhead, qtail, thead, ttail, nxtSeq, lnk, seqNo, freed,
                   rpc, rx, rval, crashed>>

\* line 48: head = tail = xmsg
GlobalPutFirst(w) ==
    /\ Alive /\ SGo(w, "gput", "tput")
    /\ qhead' = w /\ qtail' = w
    /\ UNCHANGED <<thead, ttail, nxtSeq, lnk, numRcv, seqNo, freed, rpc, rx, rval, crashed>>

\* line 51: xmsgQue->head->prev = xmsg (head read again)
GlobalTop1(w) ==
    /\ Alive /\ SGo(w, "gtop1", "gtop2")
    /\ IF qhead = Null THEN crashed' = TRUE /\ UNCHANGED lnk
       ELSE SetLnk(qhead, "prev", w) /\ UNCHANGED crashed
    /\ UNCHANGED <<qhead, qtail, thead, ttail, nxtSeq, numRcv, seqNo, freed, rpc, rx, rval>>

\* line 52: xmsg->next = xmsgQue->head
GlobalTop2(w) ==
    /\ Alive /\ SGo(w, "gtop2", "gtop3") /\ SetLnk(w, "next", qhead)
    /\ UNCHANGED <<qhead, qtail, thead, ttail, nxtSeq, numRcv, seqNo, freed, rpc, rx, rval, crashed>>

\* line 53: xmsgQue->head = xmsg; line 130 then tests the ticket queue head.
GlobalTop3(w) ==
    /\ Alive /\ SGo(w, "gtop3", "tput") /\ qhead' = w
    /\ UNCHANGED <<qtail, thead, ttail, nxtSeq, lnk, numRcv, seqNo, freed, rpc, rx, rval, crashed>>

\* line 130: is the ticket queue empty?
TicketTest(w) ==
    LET t == SndTicket[w]
    IN /\ Alive /\ SGo(w, "tput", IF thead[t] = Null THEN "tfirst1" ELSE "tend1")
       /\ UNCHANGED <<qhead, qtail, thead, ttail, nxtSeq, lnk, numRcv, seqNo, freed, rpc, rx, rval, crashed>>

\* line 131: head = tail = xmsg
TicketFirst1(w) ==
    LET t == SndTicket[w]
    IN /\ Alive /\ SGo(w, "tfirst1", "tfirst2")
       /\ thead' = [thead EXCEPT ![t] = w] /\ ttail' = [ttail EXCEPT ![t] = w]
       /\ UNCHANGED <<qhead, qtail, nxtSeq, lnk, numRcv, seqNo, freed, rpc, rx, rval, crashed>>

\* line 132: xmsg->tnext = xmsg->tprev = NULL
TicketFirst2(w) ==
    /\ Alive /\ SGo(w, "tfirst2", "seq")
    /\ lnk' = [lnk EXCEPT ![w].tnext = Null, ![w].tprev = Null]
    /\ UNCHANGED <<qhead, qtail, thead, ttail, nxtSeq, numRcv, seqNo, freed, rpc, rx, rval, crashed>>

\* line 135: ticketMsgStruct->xmsgQue.tail->tnext = xmsg
TicketEnd1(w) ==
    LET t == SndTicket[w]
    IN /\ Alive /\ SGo(w, "tend1", "tend2")
       /\ IF ttail[t] = Null THEN crashed' = TRUE /\ UNCHANGED lnk
          ELSE SetLnk(ttail[t], "tnext", w) /\ UNCHANGED crashed
       /\ UNCHANGED <<qhead, qtail, thead, ttail, nxtSeq, numRcv, seqNo, freed, rpc, rx, rval>>

\* line 136: xmsg->tprev = ticketMsgStruct->xmsgQue.tail
TicketEnd2(w) ==
    /\ Alive /\ SGo(w, "tend2", "tend3") /\ SetLnk(w, "tprev", ttail[SndTicket[w]])
    /\ UNCHANGED <<qhead, qtail, thead, ttail, nxtSeq, numRcv, seqNo, freed, rpc, rx, rval, crashed>>

\* line 137: ticketMsgStruct->xmsgQue.tail = xmsg
TicketEnd3(w) ==
    /\ Alive /\ SGo(w, "tend3", "tend4")
    /\ ttail' = [ttail EXCEPT ![SndTicket[w]] = w]
    /\ UNCHANGED <<qhead, qtail, thead, nxtSeq, lnk, numRcv, seqNo, freed, rpc, rx, rval, crashed>>

\* line 138: xmsg->tnext = NULL
TicketEnd4(w) ==
    /\ Alive /\ SGo(w, "tend4", "seq") /\ SetLnk(w, "tnext", Null)
    /\ UNCHANGED <<qhead, qtail, thead, ttail, nxtSeq, numRcv, seqNo, freed, rpc, rx, rval, crashed>>

\* line 141: xmsg->seqNumber = ticketMsgStruct->nxtSeqNumber
TakeSeq(w) ==
    /\ Alive /\ SGo(w, "seq", "inc")
    /\ seqNo' = [seqNo EXCEPT ![w] = nxtSeq[SndTicket[w]]]
    /\ UNCHANGED <<qhead, qtail, thead, ttail, nxtSeq, lnk, numRcv, freed, rpc, rx, rval, crashed>>

\* line 142: nxtSeqNumber = nxtSeqNumber + 1
IncSeq(w) ==
    /\ Alive /\ SGo(w, "inc", "done")
    /\ nxtSeq' = [nxtSeq EXCEPT ![SndTicket[w]] = @ + 1]
    /\ UNCHANGED <<qhead, qtail, thead, ttail, lnk, numRcv, seqNo, freed, rpc, rx, rval, crashed>>

(* --- rsRcvXmsg: getIrodsXmsgByMsgNum (173), then _rsRcvXmsg (547-561). *)

\* line 173: the head of the ticket queue.  A call that finds the queue
\* empty returns SYS_NO_XMSG_FOR_MSG_NUMBER and changes nothing shared.
RcvFind(r) ==
    /\ Alive /\ RGo(r, "find", "dec1") /\ thead[RcvTicket[r]] # Null
    /\ rx' = [rx EXCEPT ![r] = thead[RcvTicket[r]]]
    /\ UNCHANGED <<qhead, qtail, thead, ttail, nxtSeq, lnk, numRcv, seqNo, freed, spc, rval, crashed>>

\* line 547, the load of sendXmsgInfo->numRcv--
RcvDec1(r) ==
    /\ Alive /\ RGo(r, "dec1", "dec2") /\ rval' = [rval EXCEPT ![r] = numRcv[rx[r]]]
    /\ UNCHANGED <<qhead, qtail, thead, ttail, nxtSeq, lnk, numRcv, seqNo, freed, spc, rx, crashed>>

\* line 547, the store of sendXmsgInfo->numRcv--
RcvDec2(r) ==
    /\ Alive /\ RGo(r, "dec2", "check") /\ numRcv' = [numRcv EXCEPT ![rx[r]] = rval[r] - 1]
    /\ UNCHANGED <<qhead, qtail, thead, ttail, nxtSeq, lnk, seqNo, freed, spc, rx, rval, crashed>>

\* line 549 (numDeli is 0): done with this message, or the message stays
\* and the worker is ready for the client's next command.
RcvCheck(r) ==
    /\ Alive /\ RGo(r, "check", IF numRcv[rx[r]] <= 0 THEN "grm1" ELSE "find")
    /\ UNCHANGED <<qhead, qtail, thead, ttail, nxtSeq, lnk, numRcv, seqNo, freed, spc, rx, rval, crashed>>

\* rmXmsgFromXmsgQue lines 68-73 / rmXmsgFromXmsgTcketQue lines 96-101:
\* the predecessor (or the head) skips the message.
RmFwd(r, from, to, nf, pf, hd) ==
    LET a == rx[r]
    IN /\ Alive /\ RGo(r, from, to)
       /\ IF lnk[a][pf] = Null
          THEN /\ hd' = lnk[a][nf] /\ UNCHANGED lnk
          ELSE /\ SetLnk(lnk[a][pf], nf, lnk[a][nf]) /\ UNCHANGED hd

\* lines 75-80 / 103-108: the successor (or the tail) skips the message.
RmBack(r, from, to, nf, pf, tl) ==
    LET a == rx[r]
    IN /\ Alive /\ RGo(r, from, to)
       /\ IF lnk[a][nf] = Null
          THEN /\ tl' = lnk[a][pf] /\ UNCHANGED lnk
          ELSE /\ SetLnk(lnk[a][nf], pf, lnk[a][pf]) /\ UNCHANGED tl

\* line 82 / 110: the message's own link pair is cleared.
RmClear(r, from, to, nf, pf) ==
    /\ Alive /\ RGo(r, from, to)
    /\ lnk' = [lnk EXCEPT ![rx[r]][nf] = Null, ![rx[r]][pf] = Null]

RcvGlobalRm1(r) ==
    /\ RmFwd(r, "grm1", "grm2", "next", "prev", qhead)
    /\ UNCHANGED <<qtail, thead, ttail, nxtSeq, numRcv, seqNo, freed, spc, rx, rval, crashed>>
RcvGlobalRm2(r) ==
    /\ RmBack(r, "grm2", "grm3", "next", "prev", qtail)
    /\ UNCHANGED <<qhead, thead, ttail, nxtSeq, numRcv, seqNo, freed, spc, rx, rval, crashed>>
RcvGlobalRm3(r) ==
    /\ RmClear(r, "grm3", "trm1", "next", "prev")
    /\ UNCHANGED <<qhead, qtail, thead, ttail, nxtSeq, numRcv, seqNo, freed, spc, rx, rval, crashed>>

\* The ticket queue is the one of irodsXmsg->ticketMsgStruct (line 545).
RcvTicketRm1(r) ==
    LET t == SndTicket[rx[r]]
        a == rx[r]
    IN /\ Alive /\ RGo(r, "trm1", "trm2")
       /\ IF lnk[a].tprev = Null
          THEN thead' = [thead EXCEPT ![t] = lnk[a].tnext] /\ UNCHANGED lnk
          ELSE SetLnk(lnk[a].tprev, "tnext", lnk[a].tnext) /\ UNCHANGED thead
       /\ UNCHANGED <<qhead, qtail, ttail, nxtSeq, numRcv, seqNo, freed, spc, rx, rval, crashed>>
RcvTicketRm2(r) ==
    LET t == SndTicket[rx[r]]
        a == rx[r]
    IN /\ Alive /\ RGo(r, "trm2", "trm3")
       /\ IF lnk[a].tnext = Null
          THEN ttail' = [ttail EXCEPT ![t] = lnk[a].tprev] /\ UNCHANGED lnk
          ELSE SetLnk(lnk[a].tnext, "tprev", lnk[a].tprev) /\ UNCHANGED ttail
       /\ UNCHANGED <<qhead, qtail, thead, nxtSeq, numRcv, seqNo, freed, spc, rx, rval, crashed>>
RcvTicketRm3(r) ==
    /\ RmClear(r, "trm3", "free", "tnext", "tprev")
    /\ UNCHANGED <<qhead, qtail, thead, ttail, nxtSeq, numRcv, seqNo, freed, spc, rx, rval, crashed>>

\* line 561: free (irodsXmsg); the worker waits for the next command.
RcvFree(r) ==
    /\ Alive /\ RGo(r, "free", "find") /\ freed' = freed \cup {rx[r]}
    /\ UNCHANGED <<qhead, qtail, thead, ttail, nxtSeq, lnk, numRcv, seqNo, spc, rx, rval, crashed>>

Next ==
    \/ \E w \in Senders :
          \/ SendNew(w) \/ GlobalPutFirst(w)
          \/ GlobalTop1(w) \/ GlobalTop2(w) \/ GlobalTop3(w)
          \/ TicketTest(w) \/ TicketFirst1(w) \/ TicketFirst2(w)
          \/ TicketEnd1(w) \/ TicketEnd2(w) \/ TicketEnd3(w) \/ TicketEnd4(w)
          \/ TakeSeq(w) \/ IncSeq(w)
    \/ \E r \in Receivers :
          \/ RcvFind(r) \/ RcvDec1(r) \/ RcvDec2(r) \/ RcvCheck(r)
          \/ RcvGlobalRm1(r) \/ RcvGlobalRm2(r) \/ RcvGlobalRm3(r)
          \/ RcvTicketRm1(r) \/ RcvTicketRm2(r) \/ RcvTicketRm3(r)
          \/ RcvFree(r)

Spec == Init /\ [][Next]_vars

-----------------------------------------------------------------------------

TypeOK ==
    /\ {qhead, qtail} \subseteq Ptr
    /\ thead \in [Tickets -> Ptr] /\ ttail \in [Tickets -> Ptr]
    /\ nxtSeq \in [Tickets -> Nat]
    /\ lnk \in [Senders -> [next : Ptr, prev : Ptr, tnext : Ptr, tprev : Ptr]]
    /\ numRcv \in [Senders -> Int] /\ seqNo \in [Senders -> Nat]
    /\ freed \subseteq Senders
    /\ spc \in [Senders -> SPCs] /\ rpc \in [Receivers -> RPCs]
    /\ rx \in [Receivers -> Ptr] /\ rval \in [Receivers -> Int]
    /\ crashed \in BOOLEAN

\* Messages some receiver is unlinking right now.
InRemoval == {rx[r] : r \in {q \in Receivers : rpc[q] \in
                 {"grm1", "grm2", "grm3", "trm1", "trm2", "trm3", "free"}}}

\* The spec (sections 5, 8): sends do not lose messages.  Once
\* addXmsgToXmsgQue and addXmsgToTicketMsgStruct have returned, a message
\* that no receiver has retired is reachable from XmsgQue.head and from
\* its ticket queue's head until a receive takes it out.
NoLostSend ==
    \A w \in Senders :
        (spc[w] = "done" /\ w \notin freed \cup InRemoval) =>
            /\ w \in ToSet(Chain(qhead, "next", 0))
            /\ w \in ToSet(Chain(thead[SndTicket[w]], "tnext", 0))

\* _rsRcvXmsg never works on freed memory: a receiver between line 547 and
\* its own free() holds a message that nobody has freed yet.
NoUseAfterFree ==
    \A r \in Receivers : rpc[r] \in RPCs \ {"find"} => rx[r] \notin freed

\* No worker dereferences a NULL head or tail (lines 51 and 135).
NoNullDeref == ~crashed

\* Memory safety of the unlocked send and receive paths: no worker touches
\* a freed message (line 547 after another receiver's line 561) and none
\* dereferences a NULL head or tail (lines 51, 135).
MemorySafe == NoUseAfterFree /\ NoNullDeref

=============================================================================
