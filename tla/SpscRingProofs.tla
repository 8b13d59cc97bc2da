--------------------------- MODULE SpscRingProofs ---------------------------
(***************************************************************************)
(* Proofs about the SpscRing of every capacity and every set of values.    *)
(***************************************************************************)
EXTENDS SpscRing, SequenceTheorems, TLAPS

-----------------------------------------------------------------------------
(* Index arithmetic.                                                       *)

\* increment() steps to the next slot and wraps at the end of the array.
LEMMA IncrementIs ==
    ASSUME NEW i \in Index
    PROVE  Increment(i) = IF i = Capacity - 1 THEN 0 ELSE i + 1
<1>0. Capacity \in Nat /\ Capacity > 1 /\ i \in Int /\ 0 <= i /\ i < Capacity
    BY SpscRingAssumption DEF Index
<1>1. CASE i = Capacity - 1
    <2>1. Capacity % Capacity = 0
        BY <1>0
    <2> QED BY <1>0, <1>1, <2>1 DEF Increment
<1>2. CASE i # Capacity - 1
    <2>1. i + 1 \in 0 .. Capacity - 1
        BY <1>0, <1>2
    <2>2. (i + 1) % Capacity = i + 1
        BY <1>0, <2>1
    <2> QED BY <1>0, <1>2, <2>2 DEF Increment
<1> QED BY <1>1, <1>2

\* The next index stays inside the array.
LEMMA IncrementType ==
    ASSUME NEW i \in Index
    PROVE  Increment(i) \in Index
BY IncrementIs, SpscRingAssumption DEF Index

\* What the indices of the ring say about its content.
LEMMA CountFacts ==
    ASSUME head \in Index, tail \in Index
    PROVE  /\ Count \in 0 .. Capacity - 1
           /\ Count = 0 <=> head = tail
           /\ Count = Capacity - 1 <=> Increment(head) = tail
           /\ ProducerAvailable = Capacity - 1 - Count
BY IncrementIs, SpscRingAssumption DEF Index, Count, ProducerAvailable

\* Publishing at head adds one value, releasing at tail removes one.
LEMMA CountPush ==
    ASSUME head \in Index, tail \in Index, Increment(head) # tail,
           head' = Increment(head), tail' = tail
    PROVE  Count' = Count + 1
BY IncrementIs, SpscRingAssumption DEF Index, Count

\* A pop makes the published range shorter by one.
LEMMA CountPop ==
    ASSUME head \in Index, tail \in Index, head # tail,
           tail' = Increment(tail), head' = head
    PROVE  Count' = Count - 1
BY IncrementIs, SpscRingAssumption DEF Index, Count

-----------------------------------------------------------------------------
(* The inductive invariant.                                                *)

\* The producer is inside try_push only while a slot is free, and the slot it
\* is about to publish holds its value.
ProducerInv ==
    /\ ppc # "idle" => Increment(head) # tail /\ pval \in Values
    /\ ppc = "publish" => slots[head] = pval

\* The consumer is inside try_pop only while a value is published; it holds a
\* copy of that value once it has copied the slot.
ConsumerInv ==
    /\ cpc # "idle" => head # tail
    /\ cpc = "clear" => Erase /\ cval = slots[tail]
    /\ cpc = "publish" => /\ cval \in Values
                          /\ IF Erase THEN slots[tail] = Nothing
                                      ELSE slots[tail] = cval

\* A published slot holds a value until the consumer erases it.
PublishedInv ==
    \A i \in Index :
       Published(i) => \/ slots[i] \in Values
                       \/ i = tail /\ cpc = "publish" /\ Erase

\* The rest of a preflighted batch, with the push under way, still fits.
CreditInv ==
    credit + (IF ppc = "idle" THEN 0 ELSE 1) <= Capacity - 1 - Count

IInv == TypeOK /\ ProducerInv /\ ConsumerInv /\ PublishedInv /\ CreditInv
        /\ SecretsErased

\* An empty ring satisfies the invariant.
LEMMA InitIInv == Init => IInv
<1> SUFFICES ASSUME Init PROVE IInv
    OBVIOUS
<1>1. TypeOK
    BY SpscRingAssumption DEF Init, TypeOK, Index
<1>2. Count = 0 /\ \A i \in Index : ~Published(i)
    BY SpscRingAssumption DEF Init, Count, Published, Index
<1> QED
    BY <1>1, <1>2, SpscRingAssumption
    DEF IInv, Init, ProducerInv, ConsumerInv, PublishedInv, CreditInv, SecretsErased

\* Every step of the producer or the consumer preserves the invariant.
LEMMA NextIInv == IInv /\ [Next]_vars => IInv'
<1> SUFFICES ASSUME IInv, [Next]_vars PROVE IInv'
    OBVIOUS
<1>0. /\ head \in Index /\ tail \in Index /\ TypeOK
      /\ Capacity \in Nat /\ Capacity > 1 /\ Nothing \notin Values
      /\ Index = 0 .. Capacity - 1
    BY SpscRingAssumption DEF IInv, TypeOK, Index
<1>a. /\ Increment(head) \in Index /\ Increment(tail) \in Index
      /\ Count \in 0 .. Capacity - 1
      /\ Count = 0 <=> head = tail
      /\ Count = Capacity - 1 <=> Increment(head) = tail
      /\ ProducerAvailable = Capacity - 1 - Count
    BY <1>0, IncrementType, CountFacts
<1>b. ASSUME UNCHANGED <<head, tail>>
      PROVE  Count' = Count /\ \A i \in Index : Published(i)' <=> Published(i)
    BY <1>b DEF Count, Published
<1>1. CASE Preflight
    BY <1>1, <1>0, <1>a, <1>b
    DEF Preflight, consumerVars, IInv, TypeOK, ProducerInv, ConsumerInv,
        PublishedInv, CreditInv, SecretsErased
<1>2. ASSUME NEW v \in Values, PushBegin(v) PROVE IInv'
    <2> USE <1>2 DEF PushBegin, consumerVars
    <2>1. ~Published(head) /\ (head # tail \/ cpc = "idle")
        BY <1>0 DEF Published, IInv, ConsumerInv
    <2>2. TypeOK'
        BY <1>0 DEF TypeOK
    <2>3. ProducerInv'
        BY <1>0 DEF ProducerInv
    <2>4. ConsumerInv'
        BY <1>0, <2>1 DEF IInv, ConsumerInv, TypeOK
    <2>5. PublishedInv'
        BY <1>0, <1>b, <2>1 DEF IInv, PublishedInv, TypeOK
    <2>6. CreditInv'
        BY <1>0, <1>a, <1>b DEF IInv, CreditInv, TypeOK
    <2>7. SecretsErased'
        BY <1>0, <1>b, <2>1 DEF IInv, SecretsErased, TypeOK
    <2> QED BY <2>2, <2>3, <2>4, <2>5, <2>6, <2>7 DEF IInv
<1>3. CASE PushCopied
    <2> USE <1>3 DEF PushCopied, consumerVars
    <2>1. ~Published(head) /\ (head # tail \/ cpc = "idle")
        BY <1>0 DEF Published, IInv, ConsumerInv
    <2>2. TypeOK'
        BY <1>0 DEF TypeOK
    <2>3. ProducerInv'
        BY <1>0 DEF IInv, ProducerInv, TypeOK
    <2>4. ConsumerInv'
        BY <1>0, <2>1 DEF IInv, ConsumerInv, TypeOK
    <2>5. PublishedInv'
        BY <1>0, <1>b, <2>1 DEF IInv, PublishedInv, TypeOK
    <2>6. CreditInv'
        BY <1>0, <1>a, <1>b DEF IInv, CreditInv, TypeOK
    <2>7. SecretsErased'
        BY <1>0, <1>b, <2>1 DEF IInv, SecretsErased, TypeOK
    <2> QED BY <2>2, <2>3, <2>4, <2>5, <2>6, <2>7 DEF IInv
<1>4. CASE PushPublish
    <2> USE <1>4 DEF PushPublish, consumerVars
    <2>1. Increment(head) # tail /\ slots[head] \in Values
        BY DEF IInv, ProducerInv
    <2>2. Count' = Count + 1
        BY <1>0, <2>1, CountPush
    <2>3. \A i \in Index : Published(i)' <=> (Published(i) \/ i = head)
        BY <1>0, <2>1, IncrementIs DEF Published
    <2>4. TypeOK'
        BY <1>0, <1>a DEF TypeOK
    <2>5. ProducerInv'
        BY DEF ProducerInv
    <2>6. ConsumerInv'
        BY <2>1 DEF IInv, ConsumerInv
    <2>7. PublishedInv'
        BY <1>0, <2>1, <2>3 DEF IInv, PublishedInv
    <2>8. CreditInv'
        BY <1>0, <1>a, <2>2 DEF IInv, CreditInv, TypeOK
    <2>9. SecretsErased'
        BY <1>0, <2>3 DEF IInv, SecretsErased
    <2> QED BY <2>4, <2>5, <2>6, <2>7, <2>8, <2>9 DEF IInv
<1>5. CASE PopBegin
    BY <1>5, <1>0, <1>b
    DEF PopBegin, producerVars, IInv, TypeOK, ProducerInv, ConsumerInv,
        PublishedInv, CreditInv, SecretsErased
<1>6. CASE PopCopied
    <2> USE <1>6 DEF PopCopied, producerVars
    <2>1. Published(tail)
        BY <1>0 DEF Published, IInv, ConsumerInv
    <2>2. slots[tail] \in Values
        BY <1>0, <2>1 DEF IInv, PublishedInv
    <2>3. TypeOK'
        BY <1>0, <2>2 DEF TypeOK
    <2>4. ~Erase \/ cpc' = "clear"
        OBVIOUS
    <2>5. ConsumerInv'
        BY <1>0, <2>2, SpscRingAssumption DEF IInv, ConsumerInv, TypeOK
    <2>6. PublishedInv'
        BY <1>0, <1>b, <2>4 DEF IInv, PublishedInv
    <2> QED BY <1>0, <1>b, <2>3, <2>5, <2>6
        DEF IInv, ProducerInv, CreditInv, SecretsErased
<1>7. CASE PopClear
    <2> USE <1>7 DEF PopClear, producerVars
    <2>1. Published(tail) /\ head # tail /\ Erase
        BY <1>0 DEF Published, IInv, ConsumerInv
    <2>2. slots[tail] \in Values
        BY <1>0, <2>1 DEF IInv, PublishedInv
    <2>3. TypeOK'
        BY <1>0 DEF TypeOK
    <2>4. ProducerInv'
        BY <1>0, <2>1 DEF IInv, ProducerInv, TypeOK
    <2>5. ConsumerInv'
        BY <1>0, <2>1, <2>2 DEF IInv, ConsumerInv, TypeOK
    <2>6. PublishedInv'
        BY <1>0, <1>b, <2>1 DEF IInv, PublishedInv, TypeOK
    <2>7. CreditInv'
        BY <1>b DEF IInv, CreditInv
    <2>8. SecretsErased'
        BY <1>0, <1>b DEF IInv, SecretsErased, TypeOK
    <2> QED BY <2>3, <2>4, <2>5, <2>6, <2>7, <2>8 DEF IInv
<1>8. CASE PopPublish
    <2> USE <1>8 DEF PopPublish, producerVars
    <2>1. head # tail
        BY DEF IInv, ConsumerInv
    <2>2. Count' = Count - 1
        BY <1>0, <2>1, CountPop
    <2>3. \A i \in Index : Published(i)' <=> (Published(i) /\ i # tail)
        BY <1>0, <2>1, IncrementIs DEF Published
    <2>5. TypeOK'
        BY <1>0, <1>a DEF TypeOK
    <2>6. ProducerInv'
        BY <1>0, <2>1, IncrementIs DEF IInv, ProducerInv
    <2>7. ConsumerInv'
        BY DEF ConsumerInv
    <2>8. PublishedInv'
        BY <1>0, <2>3 DEF IInv, PublishedInv
    <2>9. CreditInv'
        BY <1>0, <1>a, <2>2 DEF IInv, CreditInv, TypeOK
    <2>10. SecretsErased'
        BY <1>0, <2>3 DEF IInv, SecretsErased, ConsumerInv
    <2> QED BY <2>5, <2>6, <2>7, <2>8, <2>9, <2>10 DEF IInv
<1>9. CASE UNCHANGED vars
    BY <1>9, <1>b
    DEF vars, producerVars, consumerVars, IInv, TypeOK, ProducerInv, ConsumerInv,
        PublishedInv, CreditInv, SecretsErased
<1> QED
    BY <1>1, <1>2, <1>3, <1>4, <1>5, <1>6, <1>7, <1>8, <1>9
    DEF Next, Producer, Consumer

-----------------------------------------------------------------------------
(* The theorems.                                                           *)

\* Indices, counters and slots fit together in every state.
THEOREM Invariance == Spec => []IInv
<1>1. Init => IInv
    BY InitIInv
<1>2. IInv /\ [Next]_vars => IInv'
    BY NextIInv
<1> QED BY <1>1, <1>2, PTL DEF Spec

\* Indices, slots and program counters keep their types for every capacity.
THEOREM TypeCorrect == Spec => []TypeOK
BY Invariance, PTL DEF IInv

\* Producer and consumer never touch the same slot at the same time.
THEOREM SlotRaceFree == Spec => []NoSlotRace
<1>1. IInv => NoSlotRace
    BY DEF IInv, ConsumerInv, NoSlotRace
<1> QED BY <1>1, Invariance, PTL

\* A batch preflighted with producer_available is never rejected half way.
THEOREM PreflightSound == Spec => []PreflightHonoured
<1>1. IInv => PreflightHonoured
    BY CountFacts, SpscRingAssumption
    DEF IInv, TypeOK, CreditInv, PreflightHonoured
<1> QED BY <1>1, Invariance, PTL

\* try_pop_and_clear leaves no secret behind in a released slot.
THEOREM NoSecretLeft == Spec => []SecretsErased
BY Invariance, PTL DEF IInv

-----------------------------------------------------------------------------
(* The ring implements BoundedFifo.                                        *)

\* The slot of the j-th oldest published value.
At(j) == IF tail + j - 1 < Capacity THEN tail + j - 1 ELSE tail + j - 1 - Capacity

\* The j-th oldest published value.
Item(j) == IF j = 1 /\ cpc = "publish" THEN cval ELSE slots[At(j)]

\* Where the n-th published value is.
LEMMA AtFacts ==
    ASSUME head \in Index, tail \in Index, NEW j \in 1 .. Count
    PROVE  /\ At(j) \in Index
           /\ Published(At(j))
           /\ At(j) # head
           /\ At(j) = tail <=> j = 1
BY SpscRingAssumption DEF Index, At, Count, Published

\* The published values are a sequence of values, not longer than the bound.
LEMMA ContentsType ==
    ASSUME IInv
    PROVE  /\ Contents \in Seq(Values)
           /\ Len(Contents) = Count
           /\ \A j \in 1 .. Count : Contents[j] = Item(j)
<1>0. head \in Index /\ tail \in Index /\ Count \in Nat
    BY CountFacts, SpscRingAssumption DEF IInv, TypeOK
<1>1. \A j \in 1 .. Count : Item(j) \in Values
    <2> SUFFICES ASSUME NEW j \in 1 .. Count PROVE Item(j) \in Values
        OBVIOUS
    <2> QED BY <1>0, AtFacts DEF IInv, ConsumerInv, PublishedInv, Item
<1>2. Contents = [j \in 1 .. Count |-> Item(j)]
    BY DEF Contents, Item, At
<1>3. Contents \in [1 .. Count -> Values]
    BY <1>1, <1>2
<1> QED BY <1>0, <1>2, <1>3

\* Append and Tail, element by element.
LEMMA AppendIs ==
    ASSUME NEW S, NEW s \in Seq(S), NEW v \in S, NEW n, n = Len(s)
    PROVE  Append(s, v) = [j \in 1 .. n + 1 |-> IF j = n + 1 THEN v ELSE s[j]]
<1> DEFINE t == [j \in 1 .. n + 1 |-> IF j = n + 1 THEN v ELSE s[j]]
<1>0. n \in Nat /\ \A j \in 1 .. n : s[j] \in S
    BY LenProperties, ElementOfSeq
<1>1. t \in [1 .. n + 1 -> S]
    BY <1>0
<1>2. t \in Seq(S) /\ Len(t) = n + 1
    BY <1>0, <1>1
<1>3. /\ Append(s, v) \in Seq(S) /\ Len(Append(s, v)) = n + 1
      /\ \A j \in 1 .. n : Append(s, v)[j] = s[j]
      /\ Append(s, v)[n + 1] = v
    BY AppendProperties
<1>4. \A j \in 1 .. n + 1 : Append(s, v)[j] = t[j]
    BY <1>0, <1>3
<1> HIDE DEF t
<1>5. Append(s, v) = t
    BY <1>2, <1>3, <1>4, SeqEqual
<1> QED BY <1>5 DEF t

\* The tail of a sequence as a function.
LEMMA TailIs ==
    ASSUME NEW S, NEW s \in Seq(S), NEW n, n = Len(s), n >= 1
    PROVE  Tail(s) = [j \in 1 .. n - 1 |-> s[j + 1]]
<1> DEFINE t == [j \in 1 .. n - 1 |-> s[j + 1]]
<1>0. n \in Nat /\ s # <<>> /\ \A j \in 1 .. n : s[j] \in S
    BY LenProperties, ElementOfSeq, EmptySeq
<1>1. t \in [1 .. n - 1 -> S] /\ n - 1 \in Nat
    BY <1>0
<1>2. t \in Seq(S) /\ Len(t) = n - 1
    BY <1>1
<1>3. /\ Tail(s) \in Seq(S) /\ Len(Tail(s)) = n - 1
      /\ \A j \in 1 .. n - 1 : Tail(s)[j] = s[j + 1]
    BY <1>0, HeadTailProperties
<1>4. \A j \in 1 .. n - 1 : Tail(s)[j] = t[j]
    BY <1>3
<1> HIDE DEF t
<1>5. Tail(s) = t
    BY <1>2, <1>3, <1>4, SeqEqual
<1> QED BY <1>5 DEF t

\* A step that moves neither index and keeps every published value keeps the
\* queue.
LEMMA ContentsKept ==
    ASSUME IInv, IInv', Count' = Count,
           \A j \in 1 .. Count : Item(j)' = Item(j)
    PROVE  Contents' = Contents
<1>1. Contents = [j \in 1 .. Count |-> Item(j)]
    BY DEF Contents, Item, At
<1>2. Contents' = [j \in 1 .. Count' |-> Item(j)']
    BY DEF Contents, Item, At
<1> QED BY <1>1, <1>2

\* PushPublish appends, PopPublish removes the head, nothing else is visible.
LEMMA StepRefines ==
    ASSUME IInv, IInv', [Next]_vars
    PROVE  [Fifo!FifoNext]_(Fifo!fifoVars)
<1>0. /\ head \in Index /\ tail \in Index /\ TypeOK
      /\ Capacity \in Nat /\ Capacity > 1 /\ Nothing \notin Values
      /\ Index = 0 .. Capacity - 1
      /\ Count \in Nat
    BY SpscRingAssumption, CountFacts DEF IInv, TypeOK, Index
<1> USE DEF Fifo!fifoVars, Fifo!FifoNext
<1>a. ASSUME UNCHANGED <<head, tail, received>>,
             \A j \in 1 .. Count : Item(j)' = Item(j)
      PROVE  UNCHANGED Fifo!fifoVars
    <2>1. Count' = Count
        BY <1>a DEF Count
    <2> QED BY <1>a, <2>1, ContentsKept
<1>1. CASE Preflight \/ PopBegin \/ UNCHANGED vars
    <2>1. \A j \in 1 .. Count : Item(j)' = Item(j)
        BY <1>1 DEF Preflight, PopBegin, vars, consumerVars, Item, At
    <2> QED BY <1>1, <1>a, <2>1 DEF Preflight, PopBegin, vars, consumerVars
<1>2. CASE (\E v \in Values : PushBegin(v)) \/ PushCopied
    <2>1. \A j \in 1 .. Count : Item(j)' = Item(j)
        <3> SUFFICES ASSUME NEW j \in 1 .. Count PROVE Item(j)' = Item(j)
            OBVIOUS
        <3>1. At(j) \in Index /\ At(j) # head
            BY <1>0, AtFacts
        <3>2. At(j)' = At(j)
            BY <1>2 DEF PushBegin, PushCopied, At
        <3> QED BY <1>0, <1>2, <3>1, <3>2
            DEF PushBegin, PushCopied, consumerVars, Item, TypeOK
    <2> QED BY <1>2, <1>a, <2>1 DEF PushBegin, PushCopied, consumerVars
<1>3. CASE PushPublish
    <2> USE <1>3 DEF PushPublish, consumerVars
    <2>1. Increment(head) # tail /\ pval \in Values /\ slots[head] = pval
        BY DEF IInv, ProducerInv
    <2>2. Count' = Count + 1 /\ Count < Capacity - 1
        BY <1>0, <2>1, CountPush, CountFacts
    <2>3. \A j \in 1 .. Count : Item(j)' = Item(j)
        BY <1>0 DEF Item, At
    <2>4. ASSUME NEW n \in Nat, n = Count + 1 PROVE Item(n)' = pval
        <3>1. At(n)' = At(n) /\ At(n) = head
            BY <1>0, <2>2, <2>4 DEF At, Count
        <3>2. ~(n = 1 /\ cpc = "publish")
            BY <1>0, <2>4, CountFacts DEF IInv, ConsumerInv
        <3> QED BY <1>0, <2>1, <3>1, <3>2 DEF Item
    <2>5. Contents' = Append(Contents, pval)
        <3>1. Contents' = [j \in 1 .. Count + 1 |-> Item(j)']
            BY <2>2 DEF Contents, Item, At
        <3>2. Contents' = [j \in 1 .. Count + 1 |->
                               IF j = Count + 1 THEN pval ELSE Contents[j]]
            BY <1>0, <2>3, <2>4, <3>1, ContentsType
        <3>3. Contents \in Seq(Values) /\ Count = Len(Contents)
            BY ContentsType
        <3>4. Append(Contents, pval) = [j \in 1 .. Count + 1 |->
                               IF j = Count + 1 THEN pval ELSE Contents[j]]
            BY ONLY <2>1, <3>3, AppendIs
        <3> QED BY <3>2, <3>4
    <2> QED BY <1>0, <2>1, <2>2, <2>5, ContentsType DEF Fifo!Enqueue
<1>4. CASE PopCopied
    <2> USE <1>4 DEF PopCopied, producerVars
    <2>1. \A j \in 1 .. Count : Item(j)' = Item(j)
        <3> SUFFICES ASSUME NEW j \in 1 .. Count PROVE Item(j)' = Item(j)
            OBVIOUS
        <3>1. At(j)' = At(j) /\ (j = 1 => At(j) = tail)
            BY <1>0, AtFacts DEF At
        <3> QED BY <3>1 DEF Item
    <2> QED BY <1>a, <2>1
<1>5. CASE PopClear
    <2> USE <1>5 DEF PopClear, producerVars
    <2>1. \A j \in 1 .. Count : Item(j)' = Item(j)
        <3> SUFFICES ASSUME NEW j \in 1 .. Count PROVE Item(j)' = Item(j)
            OBVIOUS
        <3>1. At(j)' = At(j) /\ At(j) \in Index /\ (j = 1 <=> At(j) = tail)
            BY <1>0, AtFacts DEF At
        <3>2. cval = slots[tail]
            BY DEF IInv, ConsumerInv
        <3> QED BY <1>0, <3>1, <3>2 DEF Item, TypeOK
    <2> QED BY <1>a, <2>1
<1>6. CASE PopPublish
    <2> USE <1>6 DEF PopPublish, producerVars
    <2>1. head # tail
        BY DEF IInv, ConsumerInv
    <2>2. Count' = Count - 1 /\ Count >= 1
        BY <1>0, <2>1, CountPop, CountFacts
    <2>3. ASSUME NEW j \in 1 .. Count - 1 PROVE Item(j)' = Contents[j + 1]
        <3>0. /\ tail \in Int /\ j \in Int /\ 1 <= j /\ j < Capacity - 1
              /\ tail < Capacity
              /\ tail' = IF tail = Capacity - 1 THEN 0 ELSE tail + 1
            BY <1>0, <2>2, CountFacts, IncrementIs
        <3>1. At(j)' = At(j + 1)
            BY <1>0, <3>0 DEF At
        <3>2. Contents[j + 1] = slots[At(j + 1)]
            BY <1>0, ContentsType DEF Item
        <3> QED BY <3>1, <3>2 DEF Item
    <2>4. Contents' = Tail(Contents)
        <3>1. Contents' = [j \in 1 .. Count - 1 |-> Item(j)']
            BY <2>2 DEF Contents, Item, At
        <3>2. Contents' = [j \in 1 .. Count - 1 |-> Contents[j + 1]]
            BY <2>3, <3>1
        <3>3. Contents \in Seq(Values) /\ Count = Len(Contents)
            BY ContentsType
        <3>4. Tail(Contents) = [j \in 1 .. Count - 1 |-> Contents[j + 1]]
            BY ONLY <2>2, <3>3, TailIs
        <3> QED BY <3>2, <3>4
    <2>5. Head(Contents) = cval /\ Contents # <<>>
        BY <1>0, <2>2, ContentsType DEF Item
    <2> QED BY <2>4, <2>5 DEF Fifo!Dequeue
<1> QED
    BY <1>1, <1>2, <1>3, <1>4, <1>5, <1>6 DEF Next, Producer, Consumer

\* For every capacity and every set of values the ring is a bounded FIFO
\* queue: what try_pop returns is what try_push was given, in that order,
\* nothing lost, overwritten, torn or returned twice.
THEOREM Refinement == Spec => RingIsFifo
<1>1. Init => Fifo!FifoInit
    <2> SUFFICES ASSUME Init PROVE Fifo!FifoInit
        OBVIOUS
    <2>1. Contents = <<>>
        BY InitIInv, ContentsType DEF Init, Count
    <2> QED BY <2>1 DEF Init, Fifo!FifoInit
<1>2. IInv /\ IInv' /\ [Next]_vars => [Fifo!FifoNext]_(Fifo!fifoVars)
    BY StepRefines
<1> QED BY <1>1, <1>2, Invariance, PTL DEF Spec, RingIsFifo, Fifo!FifoSpec
=============================================================================
