---------------------------- MODULE HandleChannel ----------------------------
(***************************************************************************)
(* PacketChannel and RouteGenerationChannel: fixed shared slots whose      *)
(* handles circulate between one producer and one consumer.  A handle goes *)
(* from the producer's stack of available ones through the ready ring to   *)
(* the consumer, which borrows the slot and sends the handle back through  *)
(* the returned ring.  The rings are the queues SpscRing implements, with  *)
(* Capacity usable entries each, so pushes and pops are single steps; the  *)
(* slot bytes are not atomic and are written in two steps.                 *)
(***************************************************************************)
EXTENDS Naturals, Sequences

CONSTANTS Capacity,  \* template parameter of the channel
          Payloads,  \* frames or route generations
          Nothing,   \* a slot under construction, no payload
          NoHandle   \* the producer holds no handle

Handles == 0 .. Capacity - 1

VARIABLES
    available,  \* available_[0 .. available_count_ - 1], the last one on top
    ready,      \* ready_
    returned,   \* returned_
    slots,      \* slots_
    ppc, held,  \* producer: where it is in a call, the handle it fills
    loan,       \* what the consumer saw in each slot it borrows, or Nothing
    received    \* the payload the consumer borrowed last

producer == <<available, ppc, held>>
consumer == <<loan, received>>
vars == <<ready, returned, slots, producer, consumer>>

\* The constructor: every handle is available, slot zero on top.
Init ==
    /\ available = [i \in 1 .. Capacity |-> Capacity - i]
    /\ ready = <<>>
    /\ returned = <<>>
    /\ slots = [h \in Handles |-> Nothing]
    /\ ppc = "idle" /\ held = NoHandle
    /\ loan = [h \in Handles |-> Nothing]
    /\ received = Nothing

-----------------------------------------------------------------------------
(* The producer.                                                           *)

\* try_send, try_acquire and producer_available start with reclaim().
Call ==
    /\ ppc = "idle"
    /\ ppc' = "reclaim"
    /\ UNCHANGED <<ready, returned, slots, available, held, consumer>>

\* One turn of the reclaim() loop, which runs until the ring is empty.
Reclaim ==
    /\ ppc = "reclaim"
    /\ returned # <<>>
    /\ available' = Append(available, Head(returned))
    /\ returned' = Tail(returned)
    /\ UNCHANGED <<ready, slots, ppc, held, consumer>>

\* producer_available returns, or no slot is available and the call is refused.
ReturnReclaimed ==
    /\ ppc = "reclaim"
    /\ returned = <<>>
    /\ ppc' = "idle"
    /\ UNCHANGED <<ready, returned, slots, available, held, consumer>>

\* A slip in try_acquire(): the handle is read but stays on the stack.
AcquireKeeping ==
    /\ ppc = "reclaim"
    /\ returned = <<>>
    /\ available # <<>>
    /\ held' = available[Len(available)]
    /\ slots' = [slots EXCEPT ![held'] = Nothing]
    /\ ppc' = "write"
    /\ UNCHANGED <<available, ready, returned, consumer>>

\* The top handle is taken and its slot is reset, or starts being overwritten.
Acquire ==
    /\ ppc = "reclaim"
    /\ returned = <<>>
    /\ available # <<>>
    /\ held' = available[Len(available)]
    /\ available' = SubSeq(available, 1, Len(available) - 1)
    /\ slots' = [slots EXCEPT ![held'] = Nothing]
    /\ ppc' = "write"
    /\ UNCHANGED <<ready, returned, consumer>>

\* A slip in try_send(): the handle is pushed without the frame copy.
WriteSkipped(p) ==
    /\ ppc = "write"
    /\ ppc' = "publish"
    /\ UNCHANGED <<ready, returned, slots, available, held, consumer>>

Write(p) ==
    /\ ppc = "write"
    /\ ppc' = "publish"
    /\ slots' = [slots EXCEPT ![held] = p]
    /\ UNCHANGED <<ready, returned, available, held, consumer>>

\* The push of try_send or publish(); when the ring refuses it the handle goes
\* back on the stack.
Publish ==
    /\ ppc = "publish"
    /\ IF Len(ready) < Capacity
       THEN /\ ready' = Append(ready, held)
            /\ UNCHANGED available
       ELSE /\ available' = Append(available, held)
            /\ UNCHANGED ready
    /\ held' = NoHandle
    /\ ppc' = "idle"
    /\ UNCHANGED <<returned, slots, consumer>>

\* RouteGenerationChannel::cancel: a generation that does not fit is given up.
Cancel ==
    /\ ppc = "write"
    /\ Len(available) < Capacity
    /\ available' = Append(available, held)
    /\ held' = NoHandle
    /\ ppc' = "idle"
    /\ UNCHANGED <<ready, returned, slots, consumer>>

-----------------------------------------------------------------------------
(* The consumer.                                                           *)

Receive ==
    /\ ready # <<>>
    /\ ready' = Tail(ready)
    /\ loan' = [loan EXCEPT ![Head(ready)] = slots[Head(ready)]]
    /\ received' = slots[Head(ready)]
    /\ UNCHANGED <<returned, slots, producer>>

\* A slip of a caller: the handle is returned while the frame is still used.
ReleaseEarly(h) ==
    /\ loan[h] # Nothing
    /\ returned' = IF Len(returned) < Capacity THEN Append(returned, h) ELSE returned
    /\ UNCHANGED <<ready, slots, producer, consumer>>

\* release(): the callers release every borrowed handle once and ignore the
\* result, so a push the ring refuses would lose the handle.
Release(h) ==
    /\ loan[h] # Nothing
    /\ returned' = IF Len(returned) < Capacity THEN Append(returned, h) ELSE returned
    /\ loan' = [loan EXCEPT ![h] = Nothing]
    /\ UNCHANGED <<ready, slots, producer, received>>

Producer ==
    \/ Call \/ Reclaim \/ ReturnReclaimed \/ Acquire
    \/ (\E p \in Payloads : Write(p)) \/ Publish \/ Cancel
Consumer == Receive \/ \E h \in Handles : Release(h)

Next == Producer \/ Consumer

Spec == Init /\ [][Next]_vars

-----------------------------------------------------------------------------
(* Properties.                                                             *)

\* Handles, payloads and program counters have their types.
TypeOK ==
    /\ available \in Seq(Handles)
    /\ ready \in Seq(Handles)
    /\ returned \in Seq(Handles)
    /\ slots \in [Handles -> Payloads \cup {Nothing}]
    /\ ppc \in {"idle", "reclaim", "write", "publish"}
    /\ held \in Handles \cup {NoHandle}
    /\ loan \in [Handles -> Payloads \cup {Nothing}]
    /\ received \in Payloads \cup {Nothing}

Positions(where, s, h) == {<<where, i>> : i \in {j \in DOMAIN s : s[j] = h}}

\* Every place where a handle is.
Whereabouts(h) ==
    Positions("available", available, h)
        \cup Positions("ready", ready, h)
        \cup Positions("returned", returned, h)
        \cup (IF held = h THEN {<<"held", 1>>} ELSE {})
        \cup (IF loan[h] # Nothing THEN {<<"loan", 1>>} ELSE {})

\* Every handle is in exactly one place: no slot leaks, none has two owners.
HandlesConserved ==
    \A h \in Handles : \E place \in Whereabouts(h) : Whereabouts(h) = {place}

\* "The borrowed frame remains immutable until release(handle)."
BorrowedImmutable ==
    \A h \in Handles : loan[h] # Nothing => slots[h] = loan[h]

Fifo == INSTANCE BoundedFifo
            WITH queue <- [i \in 1 .. Len(ready) |-> slots[ready[i]]],
                 Values <- Payloads, Bound <- Capacity

\* The channel is a bounded FIFO of payloads, each delivered once and whole.
ChannelIsFifo == Fifo!FifoSpec
=============================================================================
