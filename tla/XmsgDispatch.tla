---------------------------- MODULE XmsgDispatch ----------------------------
(***************************************************************************)
(* What the dispatcher and the worker pool of the irodsXmsg server promise *)
(* (spec.md section 4.4), with no lists, mutexes or condition variables:   *)
(* accepted connections wait in one FIFO; an idle worker takes the oldest; *)
(* a worker serves one connection at a time and then releases it.  While a *)
(* connection waits and a worker is idle, some worker eventually takes it. *)
(***************************************************************************)
EXTENDS Sequences, SequencesExt

CONSTANTS
    Socks,      \* connections the listener may accept
    Workers,    \* the worker threads
    Nil         \* "serving nothing"

VARIABLES
    queue,      \* accepted connections not yet taken, oldest first
    serving,    \* [Workers -> Socks \cup {Nil}]
    finished    \* connections a worker has released

vars == <<queue, serving, finished>>

Init ==
    /\ queue = <<>>
    /\ serving = [w \in Workers |-> Nil]
    /\ finished = {}

\* The listener accepts a connection it has not seen before.
Accept(s) ==
    /\ s \notin ToSet(queue) \cup {serving[w] : w \in Workers} \cup finished
    /\ queue' = Append(queue, s)
    /\ UNCHANGED <<serving, finished>>

\* An idle worker takes the oldest waiting connection.
Take(w) ==
    /\ serving[w] = Nil /\ queue # <<>>
    /\ serving' = [serving EXCEPT ![w] = Head(queue)]
    /\ queue' = Tail(queue)
    /\ UNCHANGED finished

\* A worker ends its session and becomes idle.
Release(w) ==
    /\ serving[w] # Nil
    /\ finished' = finished \cup {serving[w]}
    /\ serving' = [serving EXCEPT ![w] = Nil]
    /\ UNCHANGED queue

Next ==
    \/ \E s \in Socks : Accept(s)
    \/ \E w \in Workers : Take(w) \/ Release(w)

\* Some idle worker takes a waiting connection: which worker is not
\* promised, only that the pool as a whole does not sit on it.
FairSpec == Init /\ [][Next]_vars /\ WF_vars(\E w \in Workers : Take(w))

=============================================================================
