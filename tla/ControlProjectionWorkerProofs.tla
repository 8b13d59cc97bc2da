-------------------- MODULE ControlProjectionWorkerProofs --------------------
(***************************************************************************)
(* The handshake between notify() and the two waits of run() loses no      *)
(* wake-up and the rings lose no command, for rings of every size and any  *)
(* number of commands, whether or not the thread starts before its object  *)
(* is built.                                                               *)
(***************************************************************************)
EXTENDS ControlProjectionWorker, SequenceTheorems, TLAPS

\* What makes NoLostWakeup inductive: work that arrives while the worker is
\* between its predicate and its sleep cannot get past the mutex, so the
\* notification that goes with it is still to come.
ParkedIsLockedOut ==
    /\ wpc = "emptyPark" /\ (stop \/ commands # <<>>) => cpc = "lock"
    /\ wpc = "fullPark" /\ (stop \/ Len(results) < ResultEntries) => cpc = "lock"

IInv == TypeOK /\ NoLostWakeup /\ ParkedIsLockedOut /\ Len(current) <= 1

\* The constructor establishes the invariant.
LEMMA InitIInv == Init => IInv
BY WorkerAssumption
DEF Init, IInv, TypeOK, NoLostWakeup, ParkedIsLockedOut, Ids

\* Every step of the two threads keeps it.
LEMMA NextIInv == IInv /\ [Next]_vars => IInv'
<1> SUFFICES ASSUME IInv, [Next]_vars PROVE IInv'
    OBVIOUS
<1> USE WorkerAssumption DEF IInv, TypeOK, Ids
<1> USE DEF NoLostWakeup, ParkedIsLockedOut
<1>1. CASE Start
    BY <1>1 DEF Start, rings, control
<1>2. CASE Take
    BY <1>2 DEF Take, control
<1>3. CASE FindEmpty
    BY <1>3 DEF FindEmpty, rings, control
<1>4. CASE EmptyWait
    BY <1>4 DEF EmptyWait, rings, control
<1>5. CASE Push
    <2>1. /\ results \o current \in Seq(Ids)
          /\ Len(results \o current) = Len(results) + Len(current)
        BY ConcatProperties
    <2>2. <<>> \in Seq(Ids) /\ Len(<<>>) = 0
        OBVIOUS
    <2>3. CASE Len(results) < ResultEntries
        <3>1. results' = results \o current /\ current' = <<>> /\ wpc' = "top"
            BY <1>5, <2>3 DEF Push
        <3>2. Len(results') <= ResultEntries
            BY <2>1, <2>3, <3>1
        <3> HIDE DEF NoLostWakeup, ParkedIsLockedOut
        <3>3. TypeOK'
            BY <1>5, <2>1, <2>2, <3>1, <3>2 DEF Push, control
        <3> QED BY <1>5, <2>2, <3>1, <3>3
            DEF Push, control, NoLostWakeup, ParkedIsLockedOut
    <2>4. CASE ~(Len(results) < ResultEntries) /\ stop
        BY <1>5, <2>2, <2>4 DEF Push, control
    <2>5. CASE ~(Len(results) < ResultEntries) /\ ~stop
        BY <1>5, <2>5 DEF Push, control
    <2> QED BY <2>3, <2>4, <2>5
<1>6. CASE FullWait
    BY <1>6 DEF FullWait, rings, control
<1>7. CASE Sleep
    BY <1>7 DEF Sleep, rings, control
<1>8. CASE WakeSpuriously
    BY <1>8 DEF WakeSpuriously, Woken, rings, control
<1>9. CASE Exit
    BY <1>9 DEF Exit, rings, control
<1>10. CASE Construct
    BY <1>10 DEF Construct, Woken, rings
<1>11. CASE Submit
    BY <1>11 DEF Submit, worker
<1>12. CASE Read
    BY <1>12 DEF Read, worker
<1>13. CASE Destroy
    BY <1>13 DEF Destroy, rings, worker
<1>14. CASE Lock
    BY <1>14 DEF Lock, MutexHeld, rings, worker
<1>15. CASE Notify
    BY <1>15 DEF Notify, Woken, rings
<1>16. CASE Join
    BY <1>16 DEF Join, rings, worker
<1>17. CASE UNCHANGED vars
    BY <1>17 DEF vars, rings, worker, control
<1> QED
    BY <1>1, <1>2, <1>3, <1>4, <1>5, <1>6, <1>7, <1>8, <1>9, <1>10, <1>11,
       <1>12, <1>13, <1>14, <1>15, <1>16, <1>17
    DEF Next, Run, Control, Destroyed

\* A worker that waits has seen an empty ring that nobody has filled without notifying.
THEOREM Invariance == Spec => []IInv
BY InitIInv, NextIInv, PTL DEF Spec

\* Ring lengths, ids and program counters stay within their types.
THEOREM TypeCorrect == Spec => []TypeOK
BY Invariance, PTL DEF IInv

\* No interleaving of submit, read or the destructor with the two waits makes
\* the worker sleep through its notification.
THEOREM WakeupNeverLost == Spec => []NoLostWakeup
BY Invariance, PTL DEF IInv
-----------------------------------------------------------------------------
(* No command is lost, repeated or overtaken.                              *)

\* The ids that were submitted after `read` and before `next`.
Span(read, next) == [i \in 1 .. next - 1 - read |-> read + i]

\* What makes LosslessInOrder inductive: the worker holds a command only while
\* it pushes, and until the object is built nothing has been submitted, so the
\* stop flag that a worker finds uninitialized discards nothing.
InHand ==
    /\ wpc \in {"created", "top", "emptyWait", "emptyPark", "emptySleep"}
           => current = <<>>
    /\ cpc = "constructing"
           => /\ commands = <<>> /\ results = <<>> /\ current = <<>>
              /\ nextId = 1 /\ lastRead = 0
    /\ ~stop => lastRead < nextId

OrderInv == InHand /\ LosslessInOrder

\* A span of command numbers is a sequence of numbers.
LEMMA SpanIsSeq ==
    ASSUME NEW l \in 0 .. MaxId, NEW n \in 1 .. MaxId + 1, l < n
    PROVE  Span(l, n) \in Seq(Ids) /\ Len(Span(l, n)) = n - 1 - l
BY WorkerAssumption DEF Span, Ids

\* What is left of a span after its first number.
LEMMA SpanTail ==
    ASSUME NEW l \in 0 .. MaxId, NEW n \in 1 .. MaxId + 1, l + 1 < n
    PROVE  Head(Span(l, n)) = l + 1 /\ Tail(Span(l, n)) = Span(l + 1, n)
<1> USE WorkerAssumption
<1>1. /\ Span(l, n) \in Seq(Ids) /\ Len(Span(l, n)) = n - 1 - l
      /\ Span(l + 1, n) \in Seq(Ids) /\ Len(Span(l + 1, n)) = n - 2 - l
    BY SpanIsSeq
<1>2. \A i \in 1 .. n - 1 - l : Span(l, n)[i] = l + i
    BY DEF Span
<1>3. \A i \in 1 .. n - 2 - l : Span(l + 1, n)[i] = l + 1 + i
    BY DEF Span
<1>4. Span(l, n) # <<>> /\ Head(Span(l, n)) = l + 1
    BY <1>1, <1>2
<1>5. /\ Tail(Span(l, n)) \in Seq(Ids) /\ Len(Tail(Span(l, n))) = n - 2 - l
      /\ \A i \in 1 .. n - 2 - l : Tail(Span(l, n))[i] = Span(l, n)[i + 1]
    BY <1>1, <1>4, HeadTailProperties
<1>6. \A i \in 1 .. n - 2 - l : Tail(Span(l, n))[i] = Span(l + 1, n)[i]
    BY <1>2, <1>3, <1>5
<1> QED BY <1>1, <1>4, <1>5, <1>6, SeqEqual, SMT

\* A span grows by the next number.
LEMMA SpanAppend ==
    ASSUME NEW l \in 0 .. MaxId, NEW n \in 1 .. MaxId, l < n
    PROVE  Append(Span(l, n), n) = Span(l, n + 1)
BY WorkerAssumption, SpanIsSeq DEF Span, Ids

\* The first of the results is the first of everything under way.
LEMMA ConcatTail ==
    ASSUME NEW S, NEW s \in Seq(S), NEW t \in Seq(S), s # <<>>
    PROVE  /\ s \o t # <<>>
           /\ Head(s \o t) = Head(s)
           /\ Tail(s) \o t = Tail(s \o t)
OBVIOUS

\* A push at the end of the second of two queues.
LEMMA ConcatAppend ==
    ASSUME NEW S, NEW s \in Seq(S), NEW t \in Seq(S), NEW e \in S
    PROVE  s \o Append(t, e) = Append(s \o t, e)
OBVIOUS

\* A queue is its first element and the rest.
LEMMA ConcatHead ==
    ASSUME NEW S, NEW s \in Seq(S), s # <<>>
    PROVE  <<Head(s)>> \o Tail(s) = s
OBVIOUS

\* Nothing is submitted at the start.
LEMMA InitOrderInv == Init => OrderInv
BY WorkerAssumption DEF Init, OrderInv, InHand, LosslessInOrder

\* A command moves from one queue to the next at its turn.
LEMMA NextOrderInv == IInv /\ OrderInv /\ [Next]_vars => OrderInv'
<1> SUFFICES ASSUME IInv, OrderInv, [Next]_vars PROVE OrderInv'
    OBVIOUS
<1> USE WorkerAssumption DEF OrderInv, InHand
<1>0. /\ commands \in Seq(Ids) /\ results \in Seq(Ids) /\ current \in Seq(Ids)
      /\ nextId \in 1 .. MaxId + 1 /\ lastRead \in 0 .. MaxId
      /\ stop \in BOOLEAN
    BY DEF IInv, TypeOK
<1> DEFINE all == results \o current \o commands
<1>a. LosslessInOrder <=> (~stop => all = Span(lastRead, nextId))
    BY DEF LosslessInOrder, Span
<1>b. LosslessInOrder' <=> (~stop' => all' = Span(lastRead', nextId'))
    BY DEF LosslessInOrder, Span
<1>c. /\ results \o current \in Seq(Ids)
      /\ results \o <<>> = results
      /\ all = results \o (current \o commands)
      /\ current \o commands \in Seq(Ids)
      /\ <<>> \o commands = commands
    BY <1>0, ConcatProperties, ConcatAssociative, ConcatEmptySeq
<1>1. CASE Start
    BY <1>1, <1>a, <1>b DEF Start, rings, control
<1>2. CASE Take
    <2>1. current = <<>>
        BY <1>2 DEF Take
    <2>2. current' \in Seq(Ids) /\ commands' \in Seq(Ids) /\ results' = results
        BY <1>0, <1>2 DEF Take
    <2>3. current' \o commands' = commands
        BY <1>0, <1>2, ConcatHead DEF Take
    <2>4. all' = results \o (current' \o commands')
        BY <1>0, <2>2, ConcatAssociative
    <2>5. all' = all
        BY <1>c, <2>1, <2>3, <2>4
    <2> HIDE DEF all
    <2> QED BY <1>2, <1>a, <1>b, <2>2, <2>5 DEF Take, control
<1>3. CASE FindEmpty
    BY <1>3, <1>a, <1>b DEF FindEmpty, rings, control
<1>4. CASE EmptyWait
    BY <1>4, <1>a, <1>b DEF EmptyWait, rings, control
<1>5. CASE Push
    <2>1. CASE Len(results) < ResultEntries
        <3>1. results' = results \o current /\ current' = <<>> /\ commands' = commands
            BY <1>5, <2>1 DEF Push
        <3>2. all' = all
            BY <1>0, <1>c, <3>1, ConcatEmptySeq
        <3>3. cpc = "constructing" => results' = <<>>
            BY <1>0, <1>c, <3>1
        <3> QED BY <1>5, <1>a, <1>b, <3>1, <3>2, <3>3 DEF Push, control
    <2>2. CASE ~(Len(results) < ResultEntries)
        BY <1>5, <1>a, <1>b, <2>2 DEF Push, control
    <2> QED BY <2>1, <2>2
<1>6. CASE FullWait
    BY <1>6, <1>a, <1>b DEF FullWait, rings, control
<1>7. CASE Sleep
    BY <1>7, <1>a, <1>b DEF Sleep, rings, control
<1>8. CASE WakeSpuriously
    BY <1>8, <1>a, <1>b DEF WakeSpuriously, Woken, rings, control
<1>9. CASE Exit
    BY <1>9, <1>a, <1>b DEF Exit, rings, control
<1>10. CASE Construct
    <2>1. all' = <<>> /\ nextId' = 1 /\ lastRead' = 0
        BY <1>0, <1>10, <1>c DEF Construct, rings
    <2>2. Span(0, 1) = <<>>
        BY DEF Span
    <2> QED BY <1>10, <1>b, <2>1, <2>2 DEF Construct, Woken, rings
<1>11. CASE Submit
    <2>1. /\ nextId \in Ids /\ commands' = Append(commands, nextId)
          /\ results' = results /\ current' = current
        BY <1>0, <1>11 DEF Submit, Ids, worker
    <2>2. all' = Append(all, nextId)
        <3> DEFINE before == results \o current
        <3>1. before \in Seq(Ids)
            BY <1>c
        <3>2. all = before \o commands /\ all' = before \o Append(commands, nextId)
            BY <2>1
        <3> HIDE DEF all, before
        <3> QED BY <1>0, <2>1, <3>1, <3>2, ConcatAppend
    <2>3. ~stop => Append(Span(lastRead, nextId), nextId) = Span(lastRead, nextId + 1)
        BY <1>0, <2>1, SpanAppend DEF Ids
    <2> HIDE DEF all
    <2> QED BY <1>0, <1>11, <1>a, <1>b, <2>2, <2>3 DEF Submit, worker
<1>12. CASE Read
    <2>1. all # <<>> /\ Head(all) = Head(results) /\ all' = Tail(all)
        <3>1. Tail(results) \in Seq(Ids)
            BY <1>0, <1>12 DEF Read
        <3>2. all' = (Tail(results) \o current) \o commands
            BY <1>12 DEF Read, worker
        <3> DEFINE rest == current \o commands
        <3>3. rest \in Seq(Ids) /\ results \in Seq(Ids) /\ results # <<>>
            BY <1>0, <1>c, <1>12 DEF Read
        <3>4. all = results \o rest /\ all' = Tail(results) \o rest
            BY <1>0, <1>c, <3>1, <3>2, ConcatAssociative
        <3> HIDE DEF all, rest
        <3> QED BY <3>3, <3>4, ConcatTail
    <2>2. ~stop => lastRead + 1 < nextId
        <3> HIDE DEF all
        <3> QED BY <1>0, <1>a, <2>1, SpanIsSeq
    <2>3. ~stop => /\ Head(all) = lastRead + 1
                   /\ Tail(all) = Span(lastRead + 1, nextId)
        BY <1>0, <1>a, <2>2, SpanTail
    <2> HIDE DEF all
    <2> QED BY <1>0, <1>12, <1>a, <1>b, <2>1, <2>2, <2>3 DEF Read, worker
<1>13. CASE Destroy
    BY <1>13, <1>a, <1>b DEF Destroy, rings, worker
<1>14. CASE Lock
    BY <1>14, <1>a, <1>b DEF Lock, rings, worker
<1>15. CASE Notify
    BY <1>15, <1>a, <1>b DEF Notify, Woken, rings
<1>16. CASE Join
    BY <1>16, <1>a, <1>b DEF Join, rings, worker
<1>17. CASE UNCHANGED vars
    BY <1>17, <1>a, <1>b DEF vars, rings, worker, control
<1> QED
    BY <1>1, <1>2, <1>3, <1>4, <1>5, <1>6, <1>7, <1>8, <1>9, <1>10, <1>11,
       <1>12, <1>13, <1>14, <1>15, <1>16, <1>17
    DEF Next, Run, Control, Destroyed

\* "Result order equals command order" and "backpressure is lossless": until
\* the worker is told to stop, every command that was submitted and not read is
\* in a ring or with the worker, once and in order.
THEOREM NothingLostOrReordered == Spec => []LosslessInOrder
BY InitOrderInv, NextOrderInv, Invariance, PTL DEF Spec, OrderInv

=============================================================================
