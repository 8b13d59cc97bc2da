------------------------------ MODULE SpscRing ------------------------------
(***************************************************************************)
(* SpscRing: the lock-free ring between two shards.  The producer alone    *)
(* writes head, the consumer alone writes tail, one slot stays unused so   *)
(* that equal indices mean empty.  Each call is split where the code       *)
(* touches shared memory: the acquire load of the other index, the copy of *)
(* the slot (a begin and an end, since a slot is many bytes) and the       *)
(* release store of the own index.  Release and acquire order the slot     *)
(* bytes with the index, so an interleaving of these steps is what the     *)
(* two pthreads can observe.  A rejected call is a stuttering step.        *)
(***************************************************************************)
EXTENDS Integers, Sequences

CONSTANTS Capacity,  \* template parameter, including the unused slot
          Values,    \* what may be pushed
          Erase,     \* TRUE: the consumer calls try_pop_and_clear
          Nothing    \* a slot that is cleared or half written, no value

ASSUME SpscRingAssumption ==
    /\ Capacity \in Nat /\ Capacity > 1
    /\ Nothing \notin Values
    /\ Erase \in BOOLEAN

VARIABLES
    head, tail,  \* head_ and tail_
    slots,       \* slots_
    ppc, pval,   \* producer: where it is in try_push, the value it pushes
    cpc, cval,   \* consumer: where it is in try_pop, its copy of the slot
    received,    \* the value the last successful try_pop returned
    credit       \* what is left of the producer's last producer_available

producerVars == <<ppc, pval, credit>>
consumerVars == <<cpc, cval, received>>
vars == <<head, tail, slots, producerVars, consumerVars>>

Index == 0 .. Capacity - 1

\* increment() wraps at the end of the array.
Increment(i) == (i + 1) % Capacity

\* Number of published values between tail and head.
Count == IF head >= tail THEN head - tail ELSE head - tail + Capacity

\* The slots whose value the producer has published and the consumer not freed.
Published(i) ==
    IF head >= tail THEN tail <= i /\ i < head ELSE tail <= i \/ i < head

\* A slip in producer_available(): the unused slot is counted as free.
ProducerAvailableAll ==
    IF tail > head THEN tail - head ELSE Capacity - head + tail

\* producer_available() as the code computes it from one load of tail.
ProducerAvailable ==
    IF tail > head THEN tail - head - 1 ELSE Capacity - head + tail - 1

Init ==
    /\ head = 0
    /\ tail = 0
    /\ slots = [i \in Index |-> Nothing]
    /\ ppc = "idle" /\ pval = Nothing
    /\ cpc = "idle" /\ cval = Nothing
    /\ received = Nothing
    /\ credit = 0

-----------------------------------------------------------------------------
(* The producer.                                                           *)

\* producer_available() before a batch: that many pushes must then succeed.
Preflight ==
    /\ ppc = "idle"
    /\ credit' = ProducerAvailable
    /\ UNCHANGED <<head, tail, slots, ppc, pval, consumerVars>>

\* A slip in try_push(): the admission check is left out.
PushBeginUnchecked(v) ==
    /\ ppc = "idle"
    /\ ppc' = "copy"
    /\ pval' = v
    /\ slots' = [slots EXCEPT ![head] = Nothing]
    /\ credit' = IF credit > 0 THEN credit - 1 ELSE 0
    /\ UNCHANGED <<head, tail, consumerVars>>

\* try_push: tail is loaded once; a full ring rejects the value.
PushBegin(v) ==
    /\ ppc = "idle"
    /\ Increment(head) # tail
    /\ ppc' = "copy"
    /\ pval' = v
    /\ slots' = [slots EXCEPT ![head] = Nothing]
    /\ credit' = IF credit > 0 THEN credit - 1 ELSE 0
    /\ UNCHANGED <<head, tail, consumerVars>>

PushCopied ==
    /\ ppc = "copy"
    /\ ppc' = "publish"
    /\ slots' = [slots EXCEPT ![head] = pval]
    /\ UNCHANGED <<head, tail, pval, credit, consumerVars>>

PushPublish ==
    /\ ppc = "publish"
    /\ ppc' = "idle"
    /\ pval' = Nothing
    /\ head' = Increment(head)
    /\ UNCHANGED <<tail, slots, credit, consumerVars>>

-----------------------------------------------------------------------------
(* The consumer.                                                           *)

\* A slip in try_pop(): tail is compared with head after it was advanced.
PopBeginAhead ==
    /\ cpc = "idle"
    /\ Increment(tail) # head
    /\ cpc' = "copy"
    /\ UNCHANGED <<head, tail, slots, producerVars, cval, received>>

\* try_pop: head is loaded once; an empty ring returns false.
PopBegin ==
    /\ cpc = "idle"
    /\ tail # head
    /\ cpc' = "copy"
    /\ UNCHANGED <<head, tail, slots, producerVars, cval, received>>

PopCopied ==
    /\ cpc = "copy"
    /\ cpc' = IF Erase THEN "clear" ELSE "publish"
    /\ cval' = slots[tail]
    /\ UNCHANGED <<head, tail, slots, producerVars, received>>

\* A slip in try_pop_and_clear(): the wrong slot is erased.
PopClearNext ==
    /\ cpc = "clear"
    /\ cpc' = "publish"
    /\ slots' = [slots EXCEPT ![Increment(tail)] = Nothing]
    /\ UNCHANGED <<head, tail, producerVars, cval, received>>

\* try_pop_and_clear erases the slot before it releases it.
PopClear ==
    /\ cpc = "clear"
    /\ cpc' = "publish"
    /\ slots' = [slots EXCEPT ![tail] = Nothing]
    /\ UNCHANGED <<head, tail, producerVars, cval, received>>

PopPublish ==
    /\ cpc = "publish"
    /\ cpc' = "idle"
    /\ tail' = Increment(tail)
    /\ received' = cval
    /\ cval' = Nothing
    /\ UNCHANGED <<head, slots, producerVars>>

Producer == Preflight \/ (\E v \in Values : PushBegin(v)) \/ PushCopied \/ PushPublish
Consumer == PopBegin \/ PopCopied \/ PopClear \/ PopPublish

Next == Producer \/ Consumer

Spec == Init /\ [][Next]_vars

-----------------------------------------------------------------------------
(* Properties.                                                             *)

\* The indices stay in the array and every slot holds a value or nothing.
TypeOK ==
    /\ head \in Index
    /\ tail \in Index
    /\ slots \in [Index -> Values \cup {Nothing}]
    /\ ppc \in {"idle", "copy", "publish"}
    /\ pval \in Values \cup {Nothing}
    /\ cpc \in {"idle", "copy", "clear", "publish"}
    /\ cval \in Values \cup {Nothing}
    /\ received \in Values \cup {Nothing}
    /\ credit \in Nat

\* The producer never writes the slot the consumer copies or erases: no data
\* race on slot bytes, without a lock.
NoSlotRace ==
    ~(ppc = "copy" /\ cpc \in {"copy", "clear"} /\ head = tail)

\* The consumer "can only increase availability before subsequent pushes, so
\* one producer may safely preflight an indivisible packet batch": as long as
\* the snapshot is not used up, a push is not rejected.
PreflightHonoured ==
    credit > 0 /\ ppc = "idle" => Increment(head) # tail

\* With try_pop_and_clear no slot outside the published range keeps the bytes
\* of a secret: only the slot the producer has just filled is not erased.
SecretsErased ==
    Erase => \A i \in Index :
               slots[i] # Nothing =>
                  Published(i) \/ (i = head /\ ppc = "publish")

\* The published values, oldest first.  A value the consumer has copied but
\* not released is still in the ring, also when its slot is already erased.
Contents ==
    [j \in 1 .. Count |->
        IF j = 1 /\ cpc = "publish" THEN cval
        ELSE slots[IF tail + j - 1 < Capacity THEN tail + j - 1
                                              ELSE tail + j - 1 - Capacity]]

Fifo == INSTANCE BoundedFifo
            WITH queue <- Contents, Bound <- Capacity - 1

\* The ring is a bounded FIFO of Capacity - 1 values: nothing is lost,
\* duplicated, reordered, overwritten or torn.
RingIsFifo == Fifo!FifoSpec
=============================================================================
