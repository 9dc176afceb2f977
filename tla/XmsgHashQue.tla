----------------------------- MODULE XmsgHashQue ----------------------------
(***************************************************************************)
(* The ticket registry XmsgHashQue of the irodsXmsg server                 *)
(* (src/iRODS/server/core/src/xmsgLib.c), at the level of its pointers.    *)
(*                                                                         *)
(* NUM_HASH_SLOT buckets, each a doubly linked list (head, tail, and the   *)
(* hnext / hprev fields of every ticketMsgStruct_t) kept in descending     *)
(* order of rcvTicket.  addTicketToHQue callocs a struct and links it in   *)
(* (addTicketMsgStructToHQue); getTicketMsgStructByTicket walks a bucket   *)
(* and stops at the first entry whose ticket is not above the one sought;  *)
(* rmTicketMsgStructFromHQue unlinks a struct (it is never freed).         *)
(*                                                                         *)
(* Addresses of structs are 1..MaxStructs; 0 is NULL.  The registry is one *)
(* record so that initXmsgHashQue can be written as three insertions.      *)
(***************************************************************************)
EXTENDS Integers, FiniteSets

CONSTANTS
    Tickets,        \* rcvTicket values a client may be given
    Reserved,       \* the permanent tickets initXmsgHashQue registers
    NumHashSlot,    \* NUM_HASH_SLOT
    MaxStructs      \* bound on ticketMsgStruct_t allocations

ASSUME /\ Reserved \subseteq Tickets /\ Tickets \subseteq Nat \ {0}
       /\ NumHashSlot \in Nat \ {0} /\ MaxStructs >= Cardinality(Reserved)

Null == 0
Hang == -1              \* a bucket walk that never reaches NULL
Addrs == 1..MaxStructs
Slots == 0..(NumHashSlot - 1)
Ptr == Addrs \cup {Null}

VARIABLES
    hq,     \* [rcv, hnext, hprev, head, tail, nalloc]: the registry
    live,   \* history: structs whose insertion succeeded and that were not removed
    result  \* status returned by the last addTicketToHQue

vars == <<hq, live, result>>

\* ticketHashFunc: rcvTicket % NUM_HASH_SLOT
TicketHashFunc(t) == t % NumHashSlot

EmptyHQ ==
    [rcv |-> [a \in Addrs |-> 0],
     hnext |-> [a \in Addrs |-> Null], hprev |-> [a \in Addrs |-> Null],
     head |-> [s \in Slots |-> Null], tail |-> [s \in Slots |-> Null],
     nalloc |-> 0]

(***************************************************************************)
(* The scan shared by addTicketMsgStructToHQue and                         *)
(* getTicketMsgStructByTicket: from p onward along hnext, the first struct *)
(* whose rcvTicket is not above t, or Null at the end of the list, or Hang *)
(* if the walk goes on longer than there are structs (a cycle, on which    *)
(* the C loop never terminates).                                           *)
(***************************************************************************)
RECURSIVE FirstNotAbove(_, _, _, _)
FirstNotAbove(h, t, p, steps) ==
    IF p = Null THEN Null
    ELSE IF steps > MaxStructs THEN Hang
    ELSE IF h.rcv[p] <= t THEN p
    ELSE FirstNotAbove(h, t, h.hnext[p], steps + 1)

ScanBucket(h, t) == FirstNotAbove(h, t, h.head[TicketHashFunc(t)], 0)

\* getTicketMsgStructByTicket: the struct, Null (SYS_UNMATCHED_XMSG_TICKET)
\* or Hang.
GetTicketMsgStructByTicket(h, t) ==
    LET p == ScanBucket(h, t)
    IN IF p \in Addrs /\ h.rcv[p] # t THEN Null ELSE p

\* addTicketMsgStructToHQue of the struct at address a holding ticket t,
\* on a registry where the scan terminates and finds no duplicate.  The
\* middle case is lines 263-266 as written, including line 266.
LinkTicketMsgStruct(h, a, t) ==
    LET s == TicketHashFunc(t)
        p == ScanBucket(h, t)
        h1 == [h EXCEPT !.rcv[a] = t, !.hnext[a] = Null, !.hprev[a] = Null,
                        !.nalloc = @ + 1]
    IN CASE h.head[s] = Null ->
              [h1 EXCEPT !.head[s] = a, !.tail[s] = a]
         [] p = Null ->
              [h1 EXCEPT !.hnext[h.tail[s]] = a, !.hprev[a] = h.tail[s],
                         !.tail[s] = a]
         [] p = h.head[s] ->
              [h1 EXCEPT !.hprev[p] = a, !.hnext[a] = p, !.head[s] = a]
         [] OTHER ->
              LET h2 == [h1 EXCEPT !.hprev[a] = h.hprev[p], !.hnext[a] = p]
                  h3 == [h2 EXCEPT !.hnext[h.hprev[p]] = a]
              IN [h3 EXCEPT !.hprev[p] = p]

\* addTicketToHQue succeeds: the bucket is empty, or its scan ends and
\* stops at no struct with the same ticket.
CanLink(h, t) ==
    LET p == ScanBucket(h, t)
    IN \/ h.head[TicketHashFunc(t)] = Null
       \/ p = Null
       \/ p \in Addrs /\ h.rcv[p] # t

\* rmTicketMsgStructFromHQue: unlink via the struct's own hprev / hnext.
RmTicketMsgStructFromHQue(h, a) ==
    LET s == TicketHashFunc(h.rcv[a])
        pv == h.hprev[a]
        nx == h.hnext[a]
        h1 == IF pv = Null THEN [h EXCEPT !.head[s] = nx]
              ELSE [h EXCEPT !.hnext[pv] = nx]
        h2 == IF nx = Null THEN [h1 EXCEPT !.tail[s] = pv]
              ELSE [h1 EXCEPT !.hprev[nx] = pv]
    IN [h2 EXCEPT !.hprev[a] = Null, !.hnext[a] = Null]

\* initXmsgHashQue: the reserved tickets, in ascending order.
RECURSIVE InitTickets(_, _)
InitTickets(h, ts) ==
    IF ts = {} THEN h
    ELSE LET t == CHOOSE x \in ts : \A y \in ts : x <= y
         IN InitTickets(LinkTicketMsgStruct(h, h.nalloc + 1, t), ts \ {t})

-----------------------------------------------------------------------------

Init ==
    /\ hq = InitTickets(EmptyHQ, Reserved)
    /\ live = 1..Cardinality(Reserved)
    /\ result = "none"

\* A client obtains a new ticket t (addTicketToHQue); a duplicate is
\* rejected with SYS_DUPLICATE_XMSG_TICKET and the struct freed.
AddTicketToHQue(t) ==
    /\ hq.nalloc < MaxStructs
    /\ \/ /\ CanLink(hq, t)
          /\ hq' = LinkTicketMsgStruct(hq, hq.nalloc + 1, t)
          /\ live' = live \cup {hq.nalloc + 1}
          /\ result' = "ok"
       \/ /\ ScanBucket(hq, t) \in Addrs
          /\ hq.rcv[ScanBucket(hq, t)] = t
          /\ result' = "duplicate"
          /\ UNCHANGED <<hq, live>>

\* _rsRcvXmsg retires the last message of the ticket found by
\* getTicketMsgStructByTicket and takes the ticket out of the hash queue.
\* The reserved tickets never expire, so they are never taken out.
RemoveTicket(t) ==
    /\ t \notin Reserved
    /\ GetTicketMsgStructByTicket(hq, t) \in Addrs
    /\ hq' = RmTicketMsgStructFromHQue(hq, GetTicketMsgStructByTicket(hq, t))
    /\ live' = live \ {GetTicketMsgStructByTicket(hq, t)}
    /\ UNCHANGED result

Next ==
    \E t \in Tickets : AddTicketToHQue(t) \/ RemoveTicket(t)

Spec == Init /\ [][Next]_vars

-----------------------------------------------------------------------------

TypeOK ==
    /\ hq.rcv \in [Addrs -> Tickets \cup {0}]
    /\ hq.hnext \in [Addrs -> Ptr] /\ hq.hprev \in [Addrs -> Ptr]
    /\ hq.head \in [Slots -> Ptr] /\ hq.tail \in [Slots -> Ptr]
    /\ hq.nalloc \in 0..MaxStructs
    /\ live \subseteq Addrs
    /\ result \in {"none", "ok", "duplicate"}

\* The spec (sections 4.1, 8): a lookup of a registered ticket returns its
\* channel, and a lookup of a ticket that is not registered (never was, or
\* was taken out) returns NotFound.
LookupMatchesRegistry ==
    \A t \in Tickets :
        GetTicketMsgStructByTicket(hq, t) =
            IF \E a \in live : hq.rcv[a] = t
            THEN CHOOSE a \in live : hq.rcv[a] = t
            ELSE Null

\* getTicketMsgStructByTicket and the duplicate scan of addTicketToHQue
\* always reach a verdict: no bucket walk runs round a cycle, which would
\* spin the worker thread forever.
BucketWalksTerminate == \A t \in Tickets : ScanBucket(hq, t) # Hang

=============================================================================
