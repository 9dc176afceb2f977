----------------------------- MODULE XmsgChannel -----------------------------
(***************************************************************************)
(* What the message broker promises its clients (spec.md sections 4.1,     *)
(* 4.2, 8), with no pointers: a registered ticket owns a FIFO channel of   *)
(* messages; a send appends; a receive takes the first message with the    *)
(* asked-for number (any number: the first message), counts one delivery   *)
(* and retires the message after its last one; a ticket goes away only    *)
(* once its channel is empty.  Calls that fail change nothing.             *)
(***************************************************************************)
EXTENDS Integers, Sequences, SequencesExt

CONSTANTS
    Tickets,
    Reserved,       \* tickets registered from the start
    MsgNumbers,     \* numbers a sender may attach
    NumRcvValues,   \* receiver counts a sender may ask for
    MaxSends,
    AnyMsgNumber    \* asks for the first message whatever its number

VARIABLES
    reg,        \* [Tickets -> BOOLEAN]: the ticket is registered
    chan,       \* [Tickets -> Seq([id, num, left])]: its channel, oldest first
    sent        \* messages accepted so far (their ids are 1..sent)

vars == <<reg, chan, sent>>

\* Index in chan[t] of the message a receive for number n gets, 0 if none.
Pick(t, n) ==
    IF n = AnyMsgNumber THEN IF chan[t] = <<>> THEN 0 ELSE 1
    ELSE SelectInSeq(chan[t], LAMBDA m : m.num = n)

Init ==
    /\ reg = [t \in Tickets |-> t \in Reserved]
    /\ chan = [t \in Tickets |-> <<>>]
    /\ sent = 0

Register(t) ==
    /\ ~reg[t]
    /\ reg' = [reg EXCEPT ![t] = TRUE]
    /\ UNCHANGED <<chan, sent>>

Send(t) ==
    /\ reg[t] /\ sent < MaxSends
    /\ \E n \in MsgNumbers, k \in NumRcvValues :
          chan' = [chan EXCEPT ![t] = Append(@, [id |-> sent + 1, num |-> n, left |-> k])]
    /\ sent' = sent + 1
    /\ UNCHANGED reg

\* One delivery of the picked message.  Retiring the last message of a
\* channel may also take its ticket away.
Receive(t, n) ==
    LET i == Pick(t, n)
        m == chan[t][i]
    IN /\ reg[t] /\ i # 0
       /\ IF m.left - 1 <= 0
          THEN /\ chan' = [chan EXCEPT ![t] = RemoveAt(@, i)]
               /\ reg' \in {reg, [reg EXCEPT ![t] = (chan'[t] # <<>>)]}
          ELSE /\ chan' = [chan EXCEPT ![t][i].left = @ - 1]
               /\ UNCHANGED reg
       /\ UNCHANGED sent

Next ==
    \E t \in Tickets :
        \/ Register(t) \/ Send(t)
        \/ \E n \in MsgNumbers \cup {AnyMsgNumber} : Receive(t, n)

Spec == Init /\ [][Next]_vars

=============================================================================
