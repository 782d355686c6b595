---------------------------- MODULE BoundedFifo ----------------------------
(***************************************************************************)
(* What putOnQ and getOffQ promise together: a FIFO of at most Capacity    *)
(* items between one producer and one consumer.  An item is first in the   *)
(* producer's hand, then in the queue, then in the consumer's hand; each   *)
(* hand holds one item at most.                                            *)
(***************************************************************************)
EXTENDS Integers, Sequences

CONSTANTS Items, Capacity

VARIABLES incoming, queue, outgoing  \* sequences; the hands have length 0 or 1

vars == <<incoming, queue, outgoing>>

Init == incoming = <<>> /\ queue = <<>> /\ outgoing = <<>>

Offer(x) ==
    /\ incoming = <<>> /\ incoming' = <<x>>
    /\ UNCHANGED <<queue, outgoing>>

Put ==
    /\ incoming # <<>> /\ Len(queue) < Capacity
    /\ queue' = queue \o incoming /\ incoming' = <<>>
    /\ UNCHANGED outgoing

Get ==
    /\ queue # <<>> /\ outgoing = <<>>
    /\ outgoing' = <<Head(queue)>> /\ queue' = Tail(queue)
    /\ UNCHANGED incoming

Finish ==
    /\ outgoing # <<>> /\ outgoing' = <<>>
    /\ UNCHANGED <<incoming, queue>>

Next == (\E x \in Items : Offer(x)) \/ Put \/ Get \/ Finish

\* A started put ends, and what is queued is handed out and finished.
Spec == Init /\ [][Next]_vars /\ WF_vars(Put) /\ WF_vars(Get) /\ WF_vars(Finish)
=============================================================================
