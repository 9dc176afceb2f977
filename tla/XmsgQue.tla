------------------------------- MODULE XmsgQue -------------------------------
(***************************************************************************)
(* Messages of the irodsXmsg server (src/iRODS/server/core/src/xmsgLib.c)  *)
(* at the level of their pointers: every irodsXmsg_t is linked into the    *)
(* global queue XmsgQue (next / prev, new messages on top) and into the    *)
(* queue of its ticket (tnext / tprev, new messages at the end).  A        *)
(* receive decrements numRcv and, once numRcv and numDeli are both <= 0,   *)
(* unlinks the message from both queues, frees it, and takes a drained     *)
(* single-message or expired ticket out of the hash queue.                 *)
(*                                                                         *)
(* The hash queue itself is the contract of module XmsgHashQue: a ticket   *)
(* is either registered or not.  The server API routines rsGetXmsgTicket,  *)
(* rsSendXmsg and rsRcvXmsg that call these routines are not in this       *)
(* repository; they follow the spec (sections 4.2, 4.4).                   *)
(*                                                                         *)
(* Each action is one whole API call; the xmsg server does not lock these  *)
(* structures (their interleaving is left to a later module).             *)
(***************************************************************************)
EXTENDS Integers, Sequences, SequencesExt, FiniteSets

CONSTANTS
    Tickets,        \* rcvTicket values
    Reserved,       \* permanent MULTI_MSG tickets of initXmsgHashQue
    MsgNumbers,     \* msgNumber values a sender may attach (all > 0)
    NumRcvValues,   \* numRcv values a sender may ask for
    NumDeliValues,  \* numDeli values a sender may ask for
    MaxMsgs,        \* irodsXmsg_t allocations alive at once
    MaxSends,       \* bound on rsSendXmsg calls
    MaxRcvs,        \* bound on deliveries of one message
    MaxTime,        \* bound on the clock
    IncExpireInt    \* INC_EXPIRE_INT

ASSUME /\ Reserved \subseteq Tickets
       /\ MsgNumbers \subseteq Nat \ {0}
       /\ MaxMsgs \in Nat \ {0} /\ MaxSends \in Nat /\ MaxTime \in Nat

Null == 0
AnyMsgNumber == 0       \* ANY_MSG_NUMBER
Addrs == 1..MaxMsgs
Ptr == Addrs \cup {Null}
Forever == MaxTime + 1  \* expireTime of the reserved tickets, never reached

VARIABLES
    msg,        \* [Addrs -> record]: the irodsXmsg_t / sendXmsgInfo_t at an address
    link,       \* [Addrs -> [next, prev, tnext, tprev]]
    xmsgQue,    \* XmsgQue: [head, tail]
    tms,        \* [Tickets -> ticketMsgStruct_t]: [reg, multi, expire, nxtSeq, head, tail]
    now,        \* time (NULL)
    status,     \* status of the last API call
    nsent,      \* history: number of messages admitted so far
    delivered,  \* history: [1..MaxSends -> deliveries] of each admitted message
    wanted      \* history: [1..MaxSends -> max(numRcv, 1)] at admission

vars == <<msg, link, xmsgQue, tms, now, status, nsent, delivered, wanted>>

FreeMsg == [chan |-> 0, seq |-> 0, msgNumber |-> 0, numRcv |-> 0,
            numDeli |-> 0, id |-> 0]
NoLinks == [next |-> Null, prev |-> Null, tnext |-> Null, tprev |-> Null]

Live == {a \in Addrs : msg[a].chan # 0}
MsgsOf(t) == {a \in Live : msg[a].chan = t}

\* Follow one link field from p until NULL (at most MaxMsgs + 1 steps, so a
\* cycle shows up as a walk longer than there are messages).
RECURSIVE Walk(_, _, _)
Walk(p, f, n) ==
    IF p = Null \/ n > MaxMsgs THEN <<>>
    ELSE <<p>> \o Walk(link[p][f], f, n + 1)

-----------------------------------------------------------------------------

Init ==
    /\ msg = [a \in Addrs |-> FreeMsg]
    /\ link = [a \in Addrs |-> NoLinks]
    /\ xmsgQue = [head |-> Null, tail |-> Null]
    /\ tms = [t \in Tickets |->
                [reg |-> t \in Reserved, multi |-> t \in Reserved,
                 expire |-> IF t \in Reserved THEN Forever ELSE 0,
                 nxtSeq |-> 0, head |-> Null, tail |-> Null]]
    /\ now = 0
    /\ status = "none"
    /\ nsent = 0
    /\ delivered = [i \in 1..MaxSends |-> 0]
    /\ wanted = [i \in 1..MaxSends |-> 0]

\* rsGetXmsgTicket: register ticket t (addTicketToHQue) with a fresh
\* ticketMsgStruct_t: empty queue, nxtSeqNumber 0.
GetXmsgTicket(t) ==
    /\ \/ /\ ~tms[t].reg
          /\ \E multi \in BOOLEAN, e \in now..(now + IncExpireInt) :
                tms' = [tms EXCEPT ![t] = [reg |-> TRUE, multi |-> multi,
                          expire |-> e, nxtSeq |-> 0, head |-> Null, tail |-> Null]]
          /\ status' = "ok"
       \/ /\ tms[t].reg
          /\ status' = "SYS_DUPLICATE_XMSG_TICKET"
          /\ UNCHANGED tms
    /\ UNCHANGED <<msg, link, xmsgQue, now, nsent, delivered, wanted>>

\* Mutant: the old head's prev is not pointed at the new message.
AddXmsgToXmsgQueNoBackLink(l, q, a) ==
    IF q.head = Null
    THEN <<[l EXCEPT ![a].next = Null, ![a].prev = Null], [head |-> a, tail |-> a]>>
    ELSE <<[l EXCEPT ![a].next = q.head, ![a].prev = Null], [q EXCEPT !.head = a]>>

\* addXmsgToXmsgQue: put the message on top of XmsgQue.
AddXmsgToXmsgQue(l, q, a) ==
    IF q.head = Null
    THEN <<[l EXCEPT ![a].next = Null, ![a].prev = Null], [head |-> a, tail |-> a]>>
    ELSE <<[l EXCEPT ![a].next = q.head, ![a].prev = Null, ![q.head].prev = a],
           [q EXCEPT !.head = a]>>

\* Mutant: the ticket queue is also filled on top, like XmsgQue.
AddXmsgToTicketMsgStructOnTop(l, ts, a) ==
    LET ts1 == [ts EXCEPT !.expire = IF now + IncExpireInt > @ THEN now + IncExpireInt ELSE @,
                          !.nxtSeq = @ + 1]
    IN IF ts.head = Null
       THEN <<[l EXCEPT ![a].tnext = Null, ![a].tprev = Null],
              [ts1 EXCEPT !.head = a, !.tail = a]>>
       ELSE <<[l EXCEPT ![ts.head].tprev = a, ![a].tnext = ts.head, ![a].tprev = Null],
              [ts1 EXCEPT !.head = a]>>

\* addXmsgToTicketMsgStruct: raise the ticket's expireTime to sendTime +
\* INC_EXPIRE_INT, link the message at the end of the ticket queue, and
\* give it the next sequence number.
AddXmsgToTicketMsgStruct(l, ts, a) ==
    LET ts1 == [ts EXCEPT !.expire = IF now + IncExpireInt > @ THEN now + IncExpireInt ELSE @,
                          !.nxtSeq = @ + 1]
    IN IF ts.head = Null
       THEN <<[l EXCEPT ![a].tnext = Null, ![a].tprev = Null],
              [ts1 EXCEPT !.head = a, !.tail = a]>>
       ELSE <<[l EXCEPT ![ts.tail].tnext = a, ![a].tprev = ts.tail, ![a].tnext = Null],
              [ts1 EXCEPT !.tail = a]>>

\* Mutant: the msgNumber of sendXmsgInfo is not copied (calloc leaves 0).
NewIrodsXmsgNoMsgNumber(t, k, d, n) ==
    [chan |-> t, seq |-> tms[t].nxtSeq, msgNumber |-> 0, numRcv |-> k,
     numDeli |-> d, id |-> nsent + 1]

\* The new irodsXmsg_t of rsSendXmsg for ticket t: numRcv k, numDeli d,
\* msgNumber n, and the sequence number addXmsgToTicketMsgStruct gives it.
NewIrodsXmsg(t, k, d, n) ==
    [chan |-> t, seq |-> tms[t].nxtSeq, msgNumber |-> n, numRcv |-> k,
     numDeli |-> d, id |-> nsent + 1]

\* rsSendXmsg: find the ticket by rcvTicket, check the send ticket, then
\* queue a new message in XmsgQue and in the ticket's queue.
SendXmsg(t) ==
    /\ \/ /\ ~tms[t].reg
          /\ status' = "SYS_UNMATCHED_XMSG_TICKET"
          /\ UNCHANGED <<msg, link, xmsgQue, tms, nsent, wanted>>
       \/ /\ tms[t].reg
          /\ status' = "SYS_UNMATCHED_XMSG_TICKET"   \* wrong sendTicket
          /\ UNCHANGED <<msg, link, xmsgQue, tms, nsent, wanted>>
       \/ /\ tms[t].reg
          /\ nsent < MaxSends
          /\ Live # Addrs
          /\ LET a == CHOOSE x \in Addrs \ Live : \A y \in Addrs \ Live : x <= y
                 g == AddXmsgToXmsgQue(link, xmsgQue, a)
                 c == AddXmsgToTicketMsgStruct(g[1], tms[t], a)
             IN \E k \in NumRcvValues, d \in NumDeliValues, n \in MsgNumbers :
                  /\ msg' = [msg EXCEPT ![a] = NewIrodsXmsg(t, k, d, n)]
                  /\ wanted' = [wanted EXCEPT ![nsent + 1] = IF k > 1 THEN k ELSE 1]
                  /\ link' = c[1]
                  /\ xmsgQue' = g[2]
                  /\ tms' = [tms EXCEPT ![t] = c[2]]
          /\ nsent' = nsent + 1
          /\ status' = "ok"
    /\ UNCHANGED <<now, delivered>>

\* getIrodsXmsgByMsgNum: the head of the ticket queue for ANY_MSG_NUMBER,
\* else the first message along tnext with that msgNumber, else Null.
GetIrodsXmsgByMsgNum(t, n) ==
    LET q == Walk(tms[t].head, "tnext", 0)
        i == SelectInSeq(q, LAMBDA a : msg[a].msgNumber = n)
    IN IF n = AnyMsgNumber THEN tms[t].head
       ELSE IF i = 0 THEN Null ELSE q[i]

\* rmXmsgFromXmsgQue / rmXmsgFromXmsgTcketQue: unlink a through the link
\* pair (nf, pf) from the queue with head and tail q.
Unlink(l, q, a, nf, pf) ==
    LET pv == l[a][pf]
        nx == l[a][nf]
        l1 == IF pv = Null THEN l ELSE [l EXCEPT ![pv][nf] = nx]
        l2 == IF nx = Null THEN l1 ELSE [l1 EXCEPT ![nx][pf] = pv]
        q1 == [q EXCEPT !.head = IF pv = Null THEN nx ELSE @,
                        !.tail = IF nx = Null THEN pv ELSE @]
    IN <<[l2 EXCEPT ![a][nf] = Null, ![a][pf] = Null], q1>>

\* Mutant: a message is kept until numRcv drops below zero.
XmsgDoneOffByOne(m) == m.numRcv < 0 /\ m.numDeli <= 0

\* _rsRcvXmsg, after numRcv--: done with this message.
XmsgDone(m) == m.numRcv <= 0 /\ m.numDeli <= 0

\* Mutant: the ticket is taken out without checking that its queue is empty.
TicketDoneAnyQueue(ts) == ~ts.multi \/ now >= ts.expire

\* _rsRcvXmsg: "take out the ticket too" once its queue is empty and it is
\* single-message or expired.
TicketDone(ts) == ts.head = Null /\ (~ts.multi \/ now >= ts.expire)

\* rsRcvXmsg: getIrodsXmsgByMsgNum, then _rsRcvXmsg.
RcvXmsg(t, n) ==
    /\ \/ /\ ~tms[t].reg
          /\ status' = "SYS_UNMATCHED_XMSG_TICKET"
          /\ UNCHANGED <<msg, link, xmsgQue, tms, delivered>>
       \/ /\ tms[t].reg
          /\ GetIrodsXmsgByMsgNum(t, n) = Null
          /\ status' = "SYS_NO_XMSG_FOR_MSG_NUMBER"
          /\ UNCHANGED <<msg, link, xmsgQue, tms, delivered>>
       \/ /\ tms[t].reg
          /\ GetIrodsXmsgByMsgNum(t, n) # Null
          /\ LET a == GetIrodsXmsgByMsgNum(t, n)
                 m == [msg[a] EXCEPT !.numRcv = @ - 1]
             IN /\ delivered[m.id] < MaxRcvs
                /\ delivered' = [delivered EXCEPT ![m.id] = @ + 1]
                /\ status' = "ok"
                /\ IF XmsgDone(m)
                   THEN LET g == Unlink(link, xmsgQue, a, "next", "prev")
                            c == Unlink(g[1], tms[t], a, "tnext", "tprev")
                        IN /\ link' = c[1]
                           /\ xmsgQue' = g[2]
                           /\ msg' = [msg EXCEPT ![a] = FreeMsg]
                           /\ tms' = [tms EXCEPT ![t] =
                                 [c[2] EXCEPT !.reg = ~TicketDone(c[2])]]
                   ELSE /\ msg' = [msg EXCEPT ![a] = m]
                        /\ UNCHANGED <<link, xmsgQue, tms>>
    /\ UNCHANGED <<now, nsent, wanted>>

\* The clock advances.
Tick ==
    /\ now < MaxTime
    /\ now' = now + 1
    /\ UNCHANGED <<msg, link, xmsgQue, tms, status, nsent, delivered, wanted>>

Next ==
    \/ \E t \in Tickets :
        \/ GetXmsgTicket(t)
        \/ SendXmsg(t)
        \/ \E n \in MsgNumbers \cup {AnyMsgNumber} : RcvXmsg(t, n)
    \/ Tick

Spec == Init /\ [][Next]_vars

-----------------------------------------------------------------------------

TypeOK ==
    /\ msg \in [Addrs -> {FreeMsg} \cup
                 [chan : Tickets, seq : Nat, msgNumber : MsgNumbers,
                  numRcv : Int, numDeli : Int, id : 1..MaxSends]]
    /\ link \in [Addrs -> [next : Ptr, prev : Ptr, tnext : Ptr, tprev : Ptr]]
    /\ xmsgQue \in [head : Ptr, tail : Ptr]
    /\ tms \in [Tickets -> [reg : BOOLEAN, multi : BOOLEAN, expire : Nat,
                            nxtSeq : Nat, head : Ptr, tail : Ptr]]
    /\ now \in 0..MaxTime
    /\ nsent \in 0..MaxSends
    /\ delivered \in [1..MaxSends -> 0..MaxRcvs]
    /\ wanted \in [1..MaxSends -> Nat]

\* XmsgQue holds every live message exactly once, newest on top, and its
\* prev links retrace its next links: the two link pairs of irodsXmsg_t
\* never get crossed by the four add / remove routines.
XmsgQueConsistent ==
    LET fw == Walk(xmsgQue.head, "next", 0)
    IN /\ Len(fw) = Cardinality(Live)
       /\ ToSet(fw) = Live
       /\ \A i \in 1..(Len(fw) - 1) : msg[fw[i]].id > msg[fw[i + 1]].id
       /\ Walk(xmsgQue.tail, "prev", 0) = Reverse(fw)

\* The spec (section 5): a ticket queue is FIFO.  Along tnext it holds
\* exactly the ticket's live messages in increasing sequence number, and
\* tprev retraces it.
TicketQueFIFO ==
    \A t \in Tickets :
        LET fw == Walk(tms[t].head, "tnext", 0)
        IN /\ Len(fw) = Cardinality(MsgsOf(t))
           /\ ToSet(fw) = MsgsOf(t)
           /\ \A i \in 1..(Len(fw) - 1) : msg[fw[i]].seq < msg[fw[i + 1]].seq
           /\ Walk(tms[t].tail, "tprev", 0) = Reverse(fw)

\* A ticket is taken out of the hash queue only when no message is left
\* in it: no live message belongs to an unregistered ticket.
NoOrphanMessage == \A a \in Live : tms[msg[a].chan].reg

\* The spec (section 8): a message sent with numRcv = k is delivered at
\* most max(k, 1) times, and exactly that often once it has been freed.
DeliveredNumRcvTimes ==
    \A i \in 1..nsent :
        IF \E a \in Live : msg[a].id = i
        THEN delivered[i] < wanted[i]
        ELSE delivered[i] = wanted[i]

-----------------------------------------------------------------------------

\* The channel of ticket t as its clients see it: the messages along
\* tnext from the ticket queue's head, each with the receives it has left.
ChannelOf(t) ==
    LET w == Walk(tms[t].head, "tnext", 0)
    IN [i \in 1..Len(w) |->
          [id |-> msg[w[i]].id, num |-> msg[w[i]].msgNumber, left |-> msg[w[i]].numRcv]]

Channel == INSTANCE XmsgChannel
               WITH reg <- [t \in Tickets |-> tms[t].reg],
                    chan <- [t \in Tickets |-> ChannelOf(t)],
                    sent <- nsent

\* The linked structures implement the broker's contract (XmsgChannel):
\* through every sequence of rsGetXmsgTicket, rsSendXmsg and rsRcvXmsg
\* calls, each ticket queue behaves as a FIFO channel from which a receive
\* by msgNumber takes the oldest matching message, a message is retired
\* after its last receive, and a ticket disappears only once it is empty.
ImplementsChannel == Channel!Spec

=============================================================================
