----------------------------- MODULE BoundedFifo -----------------------------
(***************************************************************************)
(* What a single-producer single-consumer channel promises: a queue of     *)
(* bounded length, values leave in the order in which they entered, none   *)
(* is lost, duplicated or altered.  A full channel rejects the value.      *)
(***************************************************************************)
EXTENDS Naturals, Sequences

CONSTANTS Values,   \* what may be sent
          Bound,    \* how many values the channel holds
          Nothing   \* nothing was received yet

VARIABLES queue,    \* values sent and not yet received
          received  \* the value the consumer received last

fifoVars == <<queue, received>>

FifoInit ==
    /\ queue = <<>>
    /\ received = Nothing

Enqueue ==
    /\ Len(queue) < Bound
    /\ \E v \in Values : queue' = Append(queue, v)
    /\ UNCHANGED received

Dequeue ==
    /\ queue # <<>>
    /\ received' = Head(queue)
    /\ queue' = Tail(queue)

FifoNext == Enqueue \/ Dequeue

FifoSpec == FifoInit /\ [][FifoNext]_fifoVars
=============================================================================
