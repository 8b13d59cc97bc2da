--------------------- MODULE OspfRoutePublicationProofs ---------------------
(***************************************************************************)
(* The route channel and the publication of OSPF routes through it, for    *)
(* any number of routers, slots and route changes: no slot leaks or has    *)
(* two owners, generations arrive once, whole and in order, and a router   *)
(* that is not dirty has its routes installed or on their way.             *)
(***************************************************************************)
EXTENDS OspfRoutePublication, SequenceTheorems, FiniteSetTheorems, TLAPS

-----------------------------------------------------------------------------
(* Sequences without repetition.                                           *)

Distinct(s) == \A i, j \in DOMAIN s : s[i] = s[j] => i = j

\* What is in a queue after a push.
LEMMA AppendRange ==
    ASSUME NEW S, NEW s \in Seq(S), NEW e \in S
    PROVE  /\ Range(Append(s, e)) = Range(s) \cup {e}
           /\ Distinct(s) /\ e \notin Range(s) => Distinct(Append(s, e))
BY DEF Range, Distinct

\* What is in a queue after a pop.
LEMMA TailRange ==
    ASSUME NEW S, NEW s \in Seq(S), s # <<>>
    PROVE  /\ Head(s) \in Range(s)
           /\ Distinct(s) => /\ Range(Tail(s)) = Range(s) \ {Head(s)}
                             /\ Distinct(Tail(s))
<1>1. /\ Len(s) \in Nat \ {0} /\ Head(s) = s[1] /\ DOMAIN s = 1 .. Len(s)
      /\ DOMAIN Tail(s) = 1 .. Len(s) - 1
      /\ \A i \in 1 .. Len(s) - 1 : Tail(s)[i] = s[i + 1]
    OBVIOUS
<1>2. Head(s) \in Range(s)
    BY <1>1 DEF Range
<1>3. ASSUME Distinct(s) PROVE Range(Tail(s)) = Range(s) \ {Head(s)}
    <2>1. ASSUME NEW x \in Range(Tail(s)) PROVE x \in Range(s) \ {Head(s)}
        BY <1>1, <1>3, <2>1 DEF Range, Distinct
    <2>2. ASSUME NEW x \in Range(s), x # Head(s) PROVE x \in Range(Tail(s))
        <3>1. PICK i \in DOMAIN s : x = s[i]
            BY <2>2 DEF Range
        <3>2. i - 1 \in 1 .. Len(s) - 1 /\ Tail(s)[i - 1] = s[(i - 1) + 1]
            BY <1>1, <2>2, <3>1
        <3> QED BY <1>1, <3>1, <3>2 DEF Range
    <2> QED BY <2>1, <2>2
<1>4. ASSUME Distinct(s) PROVE Distinct(Tail(s))
    BY <1>1, <1>4 DEF Distinct
<1> QED BY <1>2, <1>3, <1>4

\* What is in the stack of free handles after a pop.
LEMMA FrontRange ==
    ASSUME NEW S, NEW s \in Seq(S), s # <<>>
    PROVE  LET front == SubSeq(s, 1, Len(s) - 1)
               last == s[Len(s)]
           IN /\ front \in Seq(S) /\ last \in Range(s) /\ last \in S
              /\ Distinct(s) => /\ Range(front) = Range(s) \ {last}
                                /\ Distinct(front)
<1> DEFINE front == SubSeq(s, 1, Len(s) - 1)
           last == s[Len(s)]
<1>1. Len(s) \in Nat \ {0} /\ DOMAIN s = 1 .. Len(s) /\ last \in S
    OBVIOUS
<1>2. /\ front \in Seq(S) /\ DOMAIN front = 1 .. Len(s) - 1
      /\ \A i \in 1 .. Len(s) - 1 : front[i] = s[i]
    OBVIOUS
<1> HIDE DEF front
<1>3. last \in Range(s)
    BY <1>1 DEF Range
<1>4. ASSUME Distinct(s) PROVE Range(front) = Range(s) \ {last}
    BY <1>1, <1>2, <1>4 DEF Range, Distinct
<1>5. ASSUME Distinct(s) PROVE Distinct(front)
    BY <1>1, <1>2, <1>5 DEF Distinct
<1> QED BY <1>1, <1>2, <1>3, <1>4, <1>5 DEF front

\* The pigeonhole: handles without repetition, one of them missing, leave room.
LEMMA RoomForOneMore ==
    ASSUME NEW s \in Seq(Channel!Handles), Distinct(s),
           NEW h \in Channel!Handles, h \notin Range(s)
    PROVE  Len(s) < Capacity
<1> DEFINE T == Channel!Handles \ {h}
<1>a. ASSUME NEW a \in Int, NEW b \in Int, a <= b + 1
      PROVE  IsFiniteSet(a .. b) /\ Cardinality(a .. b) = b - a + 1
    <2>1. /\ IsFiniteSet(a .. b)
          /\ Cardinality(a .. b) = IF a > b THEN 0 ELSE b - a + 1
        BY FS_Interval, Zenon
    <2> QED BY <1>a, <2>1
<1>1. IsFiniteSet(T) /\ Cardinality(T) = Capacity - 1
    <2>1. 0 \in Int /\ Capacity - 1 \in Int /\ 0 <= Capacity - 1 + 1
        BY PublicationAssumption
    <2>2. IsFiniteSet(0 .. Capacity - 1) /\ Cardinality(0 .. Capacity - 1) = Capacity - 1 - 0 + 1
        BY <1>a, <2>1, Zenon
    <2>3. /\ IsFiniteSet(Channel!Handles) /\ Cardinality(Channel!Handles) = Capacity
        BY PublicationAssumption, <2>2 DEF Channel!Handles
    <2> QED BY <2>3, FS_RemoveElement, Zenon
<1>2. Len(s) \in Nat /\ IsFiniteSet(1 .. Len(s)) /\ Cardinality(1 .. Len(s)) = Len(s)
    <2>1. 1 \in Int /\ Len(s) \in Int /\ 1 <= Len(s) + 1 /\ Len(s) \in Nat
        OBVIOUS
    <2>2. IsFiniteSet(1 .. Len(s)) /\ Cardinality(1 .. Len(s)) = Len(s) - 1 + 1
        BY <1>a, <2>1, Zenon
    <2> QED BY <2>1, <2>2
<1>3. s \in Injection(1 .. Len(s), T)
    BY DEF Range, Distinct, Injection, IsInjective
<1>4. Cardinality(1 .. Len(s)) <= Cardinality(T)
    BY <1>1, <1>3, FS_Injection
<1> QED BY PublicationAssumption, <1>1, <1>2, <1>4
-----------------------------------------------------------------------------
(* The channel.                                                            *)

\* Who has which handles.
Stacked == Range(available)
Queued == Range(ready)
Returning == Range(returned)
Filling == {h \in Channel!Handles : h = held}
Lent == {h \in Channel!Handles : loan[h] # Nothing}

\* Every handle has an owner.
Owned == Channel!Handles = Stacked \cup Queued \cup Returning \cup Filling \cup Lent

\* No handle has two.
Exclusive ==
    /\ Distinct(available) /\ Distinct(ready) /\ Distinct(returned)
    /\ Stacked \cap (Queued \cup Returning \cup Filling \cup Lent) = {}
    /\ Queued \cap (Returning \cup Filling \cup Lent) = {}
    /\ Returning \cap (Filling \cup Lent) = {}
    /\ Filling \cap Lent = {}

\* The producer holds a handle from try_acquire to publish or cancel; a slot
\* that is published has been filled.
Whole ==
    /\ ppc \in {"write", "publish"} <=> held # NoHandle
    /\ ppc = "publish" => slots[held] \in RouteGenerations
    /\ \A h \in Queued : slots[h] \in RouteGenerations

ChannelInv ==
    Channel!TypeOK /\ Owned /\ Exclusive /\ Whole /\ Channel!BorrowedImmutable

\* All slots are free at the start.
LEMMA InitChannelInv == Channel!Init => ChannelInv
<1> SUFFICES ASSUME Channel!Init PROVE ChannelInv
    OBVIOUS
<1> USE PublicationAssumption DEF Channel!Init
<1>1. /\ available \in Seq(Channel!Handles) /\ Len(available) = Capacity
      /\ \A i \in 1 .. Capacity : available[i] = Capacity - i
    BY DEF Channel!Handles
<1>2. DOMAIN available = 1 .. Capacity
    BY <1>1
<1>3. Stacked = Channel!Handles
    <2>1. ASSUME NEW h \in Channel!Handles PROVE h \in Stacked
        <3>1. Capacity - h \in 1 .. Capacity /\ Capacity - (Capacity - h) = h
            BY DEF Channel!Handles
        <3> QED BY <1>1, <1>2, <3>1 DEF Stacked, Range
    <2> QED BY <1>1, <1>2, <2>1 DEF Stacked, Range
<1>4. Queued = {} /\ Returning = {} /\ Filling = {} /\ Lent = {}
    BY DEF Queued, Returning, Filling, Lent, Range, Channel!Handles
<1>5. Distinct(available) /\ Distinct(ready) /\ Distinct(returned)
    BY <1>1, <1>2 DEF Distinct
<1>6. Channel!TypeOK
    BY <1>1 DEF Channel!TypeOK
<1> QED BY <1>3, <1>4, <1>5, <1>6
    DEF ChannelInv, Owned, Exclusive, Whole, Channel!BorrowedImmutable

\* Every channel operation keeps each slot in one place.
LEMMA NextChannelInv == ChannelInv /\ [Channel!Next]_(Channel!vars) => ChannelInv'
<1> SUFFICES ASSUME ChannelInv, [Channel!Next]_(Channel!vars) PROVE ChannelInv'
    OBVIOUS
<1>0. /\ available \in Seq(Channel!Handles) /\ ready \in Seq(Channel!Handles)
      /\ returned \in Seq(Channel!Handles)
      /\ Distinct(available) /\ Distinct(ready) /\ Distinct(returned)
      /\ NoHandle \notin Channel!Handles /\ Nothing \notin RouteGenerations
      /\ held \in Channel!Handles \cup {NoHandle}
    BY PublicationAssumption DEF ChannelInv, Exclusive, Channel!TypeOK, Channel!Handles
<1>1. CASE Channel!Call \/ Channel!ReturnReclaimed
    <2>1. /\ UNCHANGED <<ready, returned, slots, available, held, loan, received>>
          /\ ppc \in {"idle", "reclaim"} /\ ppc' \in {"idle", "reclaim"}
        BY <1>1 DEF Channel!Call, Channel!ReturnReclaimed, Channel!consumer
    <2>2. UNCHANGED <<Stacked, Queued, Returning, Filling, Lent>>
        BY <2>1 DEF Stacked, Queued, Returning, Filling, Lent
    <2> QED BY <2>1, <2>2 DEF ChannelInv, Owned, Exclusive, Whole, Channel!TypeOK,
                              Channel!BorrowedImmutable
<1>2. CASE Channel!Reclaim
    <2> DEFINE h == Head(returned)
    <2>1. /\ returned # <<>> /\ available' = Append(available, h)
          /\ returned' = Tail(returned) /\ h \in Channel!Handles
          /\ UNCHANGED <<ready, slots, ppc, held, loan, received>>
        BY <1>0, <1>2 DEF Channel!Reclaim, Channel!consumer
    <2>2. Returning' = Returning \ {h} /\ h \in Returning /\ Distinct(returned')
        BY <1>0, <2>1, TailRange DEF Returning
    <2>3. h \notin Stacked
        BY <2>2 DEF ChannelInv, Exclusive
    <2>4. Stacked' = Stacked \cup {h} /\ Distinct(available')
        BY <1>0, <2>1, <2>3, AppendRange DEF Stacked
    <2>5. UNCHANGED <<Queued, Filling, Lent>>
        BY <2>1 DEF Queued, Filling, Lent
    <2>6. Channel!TypeOK'
        BY <1>0, <2>1 DEF ChannelInv, Channel!TypeOK
    <2> HIDE DEF h
    <2>7. Owned' /\ Exclusive'
        BY <1>0, <2>1, <2>2, <2>3, <2>4, <2>5 DEF ChannelInv, Owned, Exclusive
    <2> QED BY <2>1, <2>5, <2>6, <2>7 DEF ChannelInv, Whole, Channel!BorrowedImmutable
<1>3. CASE Channel!Acquire
    <2> DEFINE h == available[Len(available)]
    <2>1. /\ available # <<>> /\ held' = h
          /\ available' = SubSeq(available, 1, Len(available) - 1)
          /\ slots' = [slots EXCEPT ![h] = Nothing]
          /\ ppc = "reclaim" /\ ppc' = "write"
          /\ UNCHANGED <<ready, returned, loan, received>>
        BY <1>3 DEF Channel!Acquire, Channel!consumer
    <2>2. /\ h \in Stacked /\ h \in Channel!Handles /\ Stacked' = Stacked \ {h}
          /\ Distinct(available') /\ available' \in Seq(Channel!Handles)
        BY <1>0, <2>1, FrontRange DEF Stacked
    <2> HIDE DEF h
    <2>3. Filling = {} /\ Filling' = {h} /\ UNCHANGED <<Queued, Returning, Lent>>
        BY <1>0, <2>1, <2>2 DEF Filling, Queued, Returning, Lent, ChannelInv, Whole
    <2>4. Owned' /\ Exclusive'
        BY <1>0, <2>1, <2>2, <2>3 DEF ChannelInv, Owned, Exclusive
    <2>5. h \notin Queued /\ h \notin Lent
        BY <2>2 DEF ChannelInv, Exclusive
    <2>6. Channel!TypeOK'
        BY <1>0, <2>1, <2>2 DEF ChannelInv, Channel!TypeOK
    <2>7. Whole'
        BY <1>0, <2>1, <2>2, <2>3, <2>5 DEF ChannelInv, Whole, Channel!TypeOK
    <2>8. Channel!BorrowedImmutable'
        BY <2>1, <2>2, <2>5 DEF ChannelInv, Lent, Channel!BorrowedImmutable, Channel!TypeOK
    <2> QED BY <2>4, <2>6, <2>7, <2>8 DEF ChannelInv
<1>4. CASE \E p \in RouteGenerations : Channel!Write(p)
    <2>1. PICK p \in RouteGenerations : Channel!Write(p)
        BY <1>4
    <2>2. /\ slots' = [slots EXCEPT ![held] = p] /\ ppc = "write" /\ ppc' = "publish"
          /\ UNCHANGED <<ready, returned, available, held, loan, received>>
        BY <2>1 DEF Channel!Write, Channel!consumer
    <2>3. held \in Channel!Handles /\ held \in Filling
        BY <1>0, <2>2 DEF ChannelInv, Whole, Filling
    <2>4. UNCHANGED <<Stacked, Queued, Returning, Filling, Lent>>
        BY <2>2 DEF Stacked, Queued, Returning, Filling, Lent
    <2>5. held \notin Queued /\ held \notin Lent
        BY <2>3 DEF ChannelInv, Exclusive
    <2>6. Channel!TypeOK'
        BY <2>2, <2>3 DEF ChannelInv, Channel!TypeOK
    <2>7. Owned' /\ Exclusive'
        BY <2>2, <2>4 DEF ChannelInv, Owned, Exclusive
    <2>8. Whole'
        <3>1. \A h \in Queued : h \in Channel!Handles
            BY DEF ChannelInv, Owned
        <3> QED BY <1>0, <2>2, <2>3, <2>4, <2>5, <3>1 DEF ChannelInv, Whole, Channel!TypeOK
    <2>9. Channel!BorrowedImmutable'
        BY <2>2, <2>3, <2>5 DEF ChannelInv, Lent, Channel!BorrowedImmutable, Channel!TypeOK
    <2> QED BY <2>6, <2>7, <2>8, <2>9 DEF ChannelInv
<1>5. CASE Channel!Publish
    <2>1. /\ ppc = "publish" /\ ppc' = "idle" /\ held' = NoHandle
          /\ UNCHANGED <<returned, slots, loan, received>>
        BY <1>5 DEF Channel!Publish, Channel!consumer
    <2>2. held \in Channel!Handles /\ Filling = {held} /\ Filling' = {}
        BY <1>0, <2>1 DEF ChannelInv, Whole, Filling
    <2>3. held \notin Stacked /\ held \notin Queued
        BY <2>2 DEF ChannelInv, Exclusive
    <2>4. UNCHANGED <<Returning, Lent>>
        BY <2>1 DEF Returning, Lent
    <2>5. Len(ready) < Capacity
        BY <1>0, <2>2, <2>3, RoomForOneMore DEF Queued
    <2>6. ready' = Append(ready, held) /\ available' = available
        BY <1>5, <2>5 DEF Channel!Publish
    <2>7. Queued' = Queued \cup {held} /\ Distinct(ready') /\ Stacked' = Stacked
        BY <1>0, <2>2, <2>3, <2>6, AppendRange DEF Queued, Stacked
    <2>8. Channel!TypeOK'
        BY <1>0, <2>1, <2>2, <2>6 DEF ChannelInv, Channel!TypeOK
    <2>9. Owned' /\ Exclusive'
        BY <1>0, <2>1, <2>2, <2>4, <2>6, <2>7 DEF ChannelInv, Owned, Exclusive
    <2> QED BY <1>0, <2>1, <2>7, <2>8, <2>9
        DEF ChannelInv, Whole, Channel!BorrowedImmutable
<1>6. CASE Channel!Cancel
    <2>1. /\ ppc = "write" /\ ppc' = "idle" /\ held' = NoHandle
          /\ available' = Append(available, held)
          /\ UNCHANGED <<ready, returned, slots, loan, received>>
        BY <1>6 DEF Channel!Cancel, Channel!consumer
    <2>2. held \in Channel!Handles /\ Filling = {held} /\ Filling' = {}
        BY <1>0, <2>1 DEF ChannelInv, Whole, Filling
    <2>3. held \notin Stacked
        BY <2>2 DEF ChannelInv, Exclusive
    <2>4. UNCHANGED <<Queued, Returning, Lent>>
        BY <2>1 DEF Queued, Returning, Lent
    <2>5. Stacked' = Stacked \cup {held} /\ Distinct(available')
        BY <1>0, <2>1, <2>2, <2>3, AppendRange DEF Stacked
    <2>6. Channel!TypeOK'
        BY <1>0, <2>1, <2>2 DEF ChannelInv, Channel!TypeOK
    <2>7. Owned' /\ Exclusive'
        BY <1>0, <2>1, <2>2, <2>4, <2>5 DEF ChannelInv, Owned, Exclusive
    <2> QED BY <1>0, <2>1, <2>4, <2>6, <2>7
        DEF ChannelInv, Whole, Channel!BorrowedImmutable
<1>7. CASE Channel!Receive
    <2> DEFINE h == Head(ready)
    <2>1. /\ ready # <<>> /\ ready' = Tail(ready)
          /\ loan' = [loan EXCEPT ![h] = slots[h]] /\ received' = slots[h]
          /\ UNCHANGED <<returned, slots, available, ppc, held>>
        BY <1>7 DEF Channel!Receive, Channel!producer
    <2>2. h \in Queued /\ Queued' = Queued \ {h} /\ Distinct(ready')
        BY <1>0, <2>1, TailRange DEF Queued
    <2>3. h \in Channel!Handles /\ slots[h] \in RouteGenerations /\ slots[h] # Nothing
        BY <1>0, <2>1, <2>2 DEF ChannelInv, Whole
    <2>4. ready' \in Seq(Channel!Handles)
        BY <1>0, <2>1
    <2> HIDE DEF h
    <2>5. Lent' = Lent \cup {h}
        BY <2>1, <2>3 DEF Lent, ChannelInv, Channel!TypeOK
    <2>6. UNCHANGED <<Stacked, Returning, Filling>>
        BY <2>1 DEF Stacked, Returning, Filling
    <2>7. Channel!TypeOK'
        BY <2>1, <2>3, <2>4 DEF ChannelInv, Channel!TypeOK
    <2>8. Owned' /\ Exclusive'
        BY <1>0, <2>1, <2>2, <2>3, <2>5, <2>6 DEF ChannelInv, Owned, Exclusive
    <2>9. Whole' /\ Channel!BorrowedImmutable'
        BY <2>1, <2>2, <2>3
        DEF ChannelInv, Whole, Channel!BorrowedImmutable, Channel!TypeOK
    <2> QED BY <2>7, <2>8, <2>9 DEF ChannelInv
<1>8. CASE \E h \in Channel!Handles : Channel!Release(h)
    <2>1. PICK h \in Channel!Handles : Channel!Release(h)
        BY <1>8
    <2>2. /\ loan[h] # Nothing /\ loan' = [loan EXCEPT ![h] = Nothing]
          /\ UNCHANGED <<ready, slots, available, ppc, held, received>>
        BY <2>1 DEF Channel!Release, Channel!producer
    <2>3. h \in Lent /\ h \notin Returning
        BY <2>2 DEF Lent, ChannelInv, Exclusive
    <2>4. Len(returned) < Capacity
        BY <1>0, <2>3, RoomForOneMore DEF Returning
    <2>5. returned' = Append(returned, h)
        BY <2>1, <2>4 DEF Channel!Release
    <2>6. Returning' = Returning \cup {h} /\ Distinct(returned')
        BY <1>0, <2>3, <2>5, AppendRange DEF Returning
    <2>7. Lent' = Lent \ {h}
        BY <2>2 DEF Lent, ChannelInv, Channel!TypeOK
    <2>8. UNCHANGED <<Stacked, Queued, Filling>>
        BY <2>2 DEF Stacked, Queued, Filling
    <2>9. Channel!TypeOK'
        BY <1>0, <2>2, <2>5 DEF ChannelInv, Channel!TypeOK
    <2>10. Owned' /\ Exclusive'
        BY <1>0, <2>2, <2>3, <2>6, <2>7, <2>8 DEF ChannelInv, Owned, Exclusive
    <2>11. Whole' /\ Channel!BorrowedImmutable'
        BY <2>2, <2>8 DEF ChannelInv, Whole, Channel!BorrowedImmutable, Channel!TypeOK
    <2> QED BY <2>9, <2>10, <2>11 DEF ChannelInv
<1>9. CASE UNCHANGED Channel!vars
    <2>1. UNCHANGED <<ready, returned, slots, available, ppc, held, loan, received>>
        BY <1>9 DEF Channel!vars, Channel!producer, Channel!consumer
    <2>2. UNCHANGED <<Stacked, Queued, Returning, Filling, Lent>>
        BY <2>1 DEF Stacked, Queued, Returning, Filling, Lent
    <2> QED BY <2>1, <2>2 DEF ChannelInv, Owned, Exclusive, Whole, Channel!TypeOK,
                              Channel!BorrowedImmutable
<1> QED
    BY <1>1, <1>2, <1>3, <1>4, <1>5, <1>6, <1>7, <1>8, <1>9
    DEF Channel!Next, Channel!Producer, Channel!Consumer

\* A handle with one owner, and in the owner's sequence once, is in one place.
LEMMA OwnedOnce == ChannelInv => Channel!HandlesConserved
<1> SUFFICES ASSUME ChannelInv, NEW h \in Channel!Handles
             PROVE  \E place \in Channel!Whereabouts(h) :
                       Channel!Whereabouts(h) = {place}
    BY DEF Channel!HandlesConserved
<1> DEFINE P(where, s) == {<<where, i>> : i \in {j \in DOMAIN s : s[j] = h}}
<1>1. Channel!Whereabouts(h) =
          P("available", available) \cup P("ready", ready) \cup P("returned", returned)
              \cup (IF held = h THEN {<<"held", 1>>} ELSE {})
              \cup (IF loan[h] # Nothing THEN {<<"loan", 1>>} ELSE {})
    BY DEF Channel!Whereabouts, Channel!Positions
<1>2. ASSUME NEW where, NEW s, h \notin Range(s) PROVE P(where, s) = {}
    BY <1>2 DEF Range
<1>3. ASSUME NEW where, NEW s, Distinct(s), h \in Range(s)
      PROVE  \E place : P(where, s) = {place}
    <2>1. PICK i \in DOMAIN s : s[i] = h
        BY <1>3 DEF Range
    <2>2. P(where, s) = {<<where, i>>}
        BY <1>3, <2>1 DEF Distinct
    <2> QED BY <2>2
<1> HIDE DEF P
<1>4. /\ h \in Filling <=> held = h
      /\ h \in Lent <=> loan[h] # Nothing
    BY DEF Filling, Lent
<1>5. CASE h \in Stacked
    <2>1. h \notin Queued \cup Returning \cup Filling \cup Lent /\ Distinct(available)
        BY <1>5 DEF ChannelInv, Exclusive
    <2> QED BY <1>1, <1>2, <1>3, <1>4, <1>5, <2>1 DEF Stacked, Queued, Returning
<1>6. CASE h \in Queued
    <2>1. h \notin Stacked \cup Returning \cup Filling \cup Lent /\ Distinct(ready)
        BY <1>6 DEF ChannelInv, Exclusive
    <2> QED BY <1>1, <1>2, <1>3, <1>4, <1>6, <2>1 DEF Stacked, Queued, Returning
<1>7. CASE h \in Returning
    <2>1. h \notin Stacked \cup Queued \cup Filling \cup Lent /\ Distinct(returned)
        BY <1>7 DEF ChannelInv, Exclusive
    <2> QED BY <1>1, <1>2, <1>3, <1>4, <1>7, <2>1 DEF Stacked, Queued, Returning
<1>8. CASE h \in Filling \cup Lent
    <2>1. /\ h \notin Stacked \cup Queued \cup Returning
          /\ ~(h \in Filling /\ h \in Lent)
        BY <1>8 DEF ChannelInv, Exclusive
    <2> QED BY <1>1, <1>2, <1>4, <1>8, <2>1 DEF Stacked, Queued, Returning
<1> QED BY <1>5, <1>6, <1>7, <1>8 DEF ChannelInv, Owned

-----------------------------------------------------------------------------
(* The channel is a bounded FIFO of route generations.                     *)

Contents == [i \in 1 .. Len(ready) |-> slots[ready[i]]]

\* The contents of the published slots are a sequence of payloads.
LEMMA ContentsType ==
    ASSUME ChannelInv
    PROVE  Contents \in Seq(RouteGenerations) /\ Len(Contents) = Len(ready)
<1>1. ready \in Seq(Channel!Handles)
    BY DEF ChannelInv, Channel!TypeOK
<1>2. \A i \in 1 .. Len(ready) : slots[ready[i]] \in RouteGenerations
    BY <1>1 DEF ChannelInv, Whole, Queued, Range
<1> QED BY <1>1, <1>2 DEF Contents

\* A step of the channel appends to the contents, takes the first, or leaves
\* them alone.
LEMMA ContentsStep ==
    ASSUME ChannelInv, [Channel!Next]_(Channel!vars)
    PROVE  \/ UNCHANGED <<Contents, received>>
           \/ /\ Channel!Publish /\ Len(ready) < Capacity
              /\ Contents' = Append(Contents, slots[held])
              /\ slots[held] \in RouteGenerations /\ received' = received
           \/ /\ Channel!Receive /\ Contents # <<>>
              /\ Contents' = Tail(Contents) /\ received' = Head(Contents)
<1>0. /\ ready \in Seq(Channel!Handles) /\ Len(ready) \in Nat
      /\ DOMAIN ready = 1 .. Len(ready)
      /\ slots \in [Channel!Handles -> RouteGenerations \cup {Nothing}]
      /\ NoHandle \notin Channel!Handles
      /\ held \in Channel!Handles \cup {NoHandle}
    BY PublicationAssumption DEF ChannelInv, Channel!TypeOK, Channel!Handles
<1>1. CASE UNCHANGED <<ready, slots, received>>
    BY <1>1 DEF Contents
<1>2. ASSUME NEW h \in Channel!Handles, h \notin Queued, NEW v,
             slots' = [slots EXCEPT ![h] = v], UNCHANGED <<ready, received>>
      PROVE  UNCHANGED <<Contents, received>>
    <2>1. \A i \in 1 .. Len(ready) : ready[i] # h /\ slots'[ready[i]] = slots[ready[i]]
        BY <1>0, <1>2 DEF Queued, Range
    <2> QED BY <1>2, <2>1 DEF Contents
<1>3. CASE Channel!Acquire
    <2> DEFINE h == available[Len(available)]
    <2>1. h \in Stacked /\ h \in Channel!Handles
        BY <1>3, FrontRange DEF Channel!Acquire, ChannelInv, Channel!TypeOK, Stacked
    <2>2. h \notin Queued
        BY <2>1 DEF ChannelInv, Exclusive
    <2> QED BY <1>2, <1>3, <2>1, <2>2 DEF Channel!Acquire, Channel!consumer
<1>4. CASE \E p \in RouteGenerations : Channel!Write(p)
    <2>1. held \in Channel!Handles
        BY <1>0, <1>4 DEF Channel!Write, ChannelInv, Whole
    <2>2. held \notin Queued
        BY <2>1 DEF ChannelInv, Exclusive, Filling
    <2> QED BY <1>2, <1>4, <2>1, <2>2 DEF Channel!Write, Channel!consumer
<1>5. CASE Channel!Publish
    <2>1. /\ ppc = "publish" /\ held \in Channel!Handles
          /\ slots[held] \in RouteGenerations
        BY <1>0, <1>5 DEF Channel!Publish, ChannelInv, Whole
    <2>2. held \notin Queued /\ Distinct(ready)
        BY <2>1 DEF ChannelInv, Exclusive, Filling
    <2>3. Len(ready) < Capacity
        BY <1>0, <2>1, <2>2, RoomForOneMore DEF Queued
    <2>4. ready' = Append(ready, held) /\ UNCHANGED <<slots, received>>
        BY <1>5, <2>3 DEF Channel!Publish, Channel!consumer
    <2>5. Contents' = Append(Contents, slots[held])
        BY <1>0, <2>1, <2>4, ContentsType DEF Contents
    <2> QED BY <1>5, <2>1, <2>3, <2>4, <2>5
<1>6. CASE Channel!Receive
    <2>1. /\ ready # <<>> /\ ready' = Tail(ready) /\ slots' = slots
          /\ received' = slots[Head(ready)]
        BY <1>6 DEF Channel!Receive
    <2>2. Contents # <<>> /\ Head(Contents) = slots[Head(ready)]
        BY <1>0, <2>1, ContentsType DEF Contents
    <2>3. Contents' = Tail(Contents)
        BY <1>0, <2>1, ContentsType DEF Contents
    <2> QED BY <1>6, <2>1, <2>2, <2>3
<1>7. CASE \/ Channel!Call \/ Channel!Reclaim \/ Channel!ReturnReclaimed \/ Channel!Cancel
           \/ \E h \in Channel!Handles : Channel!Release(h)
    BY <1>1, <1>7
    DEF Channel!Call, Channel!Reclaim, Channel!ReturnReclaimed, Channel!Cancel,
        Channel!Release, Channel!consumer, Channel!producer
<1>8. CASE UNCHANGED Channel!vars
    BY <1>1, <1>8 DEF Channel!vars, Channel!consumer
<1> QED
    BY <1>3, <1>4, <1>5, <1>6, <1>7, <1>8
    DEF Channel!Next, Channel!Producer, Channel!Consumer

\* The bounded FIFO, in terms of the contents.
LEMMA FifoInitial == Channel!Init => Channel!Fifo!FifoInit
BY DEF Channel!Init, Channel!Fifo!FifoInit

\* Every channel operation is a step of the FIFO or a stutter.
LEMMA FifoStep ==
    ChannelInv /\ [Channel!Next]_(Channel!vars)
        => [Channel!Fifo!FifoNext]_(Channel!Fifo!fifoVars)
<1> SUFFICES ASSUME ChannelInv, [Channel!Next]_(Channel!vars)
             PROVE  [Channel!Fifo!FifoNext]_(Channel!Fifo!fifoVars)
    OBVIOUS
<1>1. CASE UNCHANGED <<Contents, received>>
    BY <1>1 DEF Contents, Channel!Fifo!fifoVars
<1>2. CASE /\ Len(ready) < Capacity
           /\ Contents' = Append(Contents, slots[held])
           /\ slots[held] \in RouteGenerations /\ received' = received
    <2>1. Channel!Fifo!Enqueue
        BY <1>2, ContentsType DEF Contents, Channel!Fifo!Enqueue
    <2> QED BY <2>1 DEF Channel!Fifo!FifoNext
<1>3. CASE /\ Contents # <<>> /\ Contents' = Tail(Contents)
           /\ received' = Head(Contents)
    <2>1. Channel!Fifo!Dequeue
        BY <1>3 DEF Contents, Channel!Fifo!Dequeue
    <2> QED BY <2>1 DEF Channel!Fifo!FifoNext
<1> QED BY <1>1, <1>2, <1>3, ContentsStep

-----------------------------------------------------------------------------
(* Publication.                                                            *)

OspfTypes ==
    /\ routes \in [Routers -> Versions] /\ processes \in [Routers -> BOOLEAN]
    /\ published \in [Routers -> Versions] /\ pending \in [Routers -> BOOLEAN]
    /\ generation \in [Routers -> Numbers]
    /\ manager \in [Routers -> [generation : Numbers, routes : Versions]]

TurnTypes ==
    /\ workPending \in BOOLEAN /\ linkPending \in BOOLEAN
    /\ wpc \in {"top", "commands", "publish", "park", "sleep"}
    /\ cursor \in 1 .. NumRouters + 1
    /\ npc \in {"wait", "turn", "submitted", "await", "read", "drain", "install"}

\* One command is under way at a time, and only while the network owner waits
\* for its result; its router has a version left.
OneCommand ==
    /\ \/ commands = <<>>
       \/ \E r \in Routers, keep \in BOOLEAN :
             /\ commands = <<[router |-> r, keep |-> keep]>>
             /\ routes[r] < MaxVersion
    /\ results \in {<<>>, <<"done">>}
    /\ IF npc \in {"submitted", "await"} THEN (commands = <<>>) # (results = <<>>)
                                         ELSE commands = <<>> /\ results = <<>>

\* The channel is in a call only while the worker serves a dirty router, and
\* what it is about to publish is the state of that router.
ServesDirty ==
    /\ ppc # "idle" => wpc = "publish" /\ cursor \in Routers /\ Dirty(cursor)
    /\ ppc = "publish" =>
          slots[held] = [router |-> cursor, generation |-> generation[cursor],
                         routes |-> routes[cursor]]

\* The slot of router r is filled, and not yet published.
Filled(r) == ppc = "publish" /\ cursor = r

\* A router that stops computing has published its last routes, and numbers
\* are spent no faster than routes change.
Spent ==
    \A r \in Routers :
        /\ published[r] <= routes[r]
        /\ ~pending[r] /\ ~processes[r] => published[r] = routes[r]
        /\ generation[r] <= routes[r] + MaxSkipped
        /\ Dirty(r) /\ ~Filled(r) => generation[r] < routes[r] + MaxSkipped

\* The network owner borrows one slot, while it installs.
OneLoan == IF npc = "install" THEN \E h \in Channel!Handles : Lent = {h} ELSE Lent = {}

PublicationInv ==
    /\ ChannelInv /\ OspfTypes /\ TurnTypes /\ OneCommand /\ ServesDirty /\ Spent
    /\ OneLoan

\* No number on its way or installed is newer than the router's last one, and
\* the one about to be published is newer than all of them.
Numbered ==
    /\ \A r \in Routers :
          /\ manager[r].generation <= generation[r]
          /\ Filled(r) => manager[r].generation < generation[r]
    /\ \A i \in DOMAIN UnderWay :
          LET g == UnderWay[i] IN
          /\ g.generation <= generation[g.router]
          /\ Filled(g.router) => g.generation < generation[g.router]

FlightInv == Numbered /\ GenerationsIncrease /\ AcknowledgedIsLast

\* The number the worker is about to write exists.
LEMMA FillNumber ==
    ASSUME PublicationInv, Fill
    PROVE  /\ cursor \in Routers /\ ppc = "write" /\ Dirty(cursor)
           /\ generation[cursor] < routes[cursor] + MaxSkipped
           /\ generation'[cursor] = generation[cursor] + 1
           /\ [router |-> cursor, generation |-> generation[cursor] + 1,
               routes |-> routes[cursor]] \in RouteGenerations
<1>1. cursor \in Routers /\ ppc = "write" /\ Dirty(cursor)
    BY DEF Fill, Serving, Channel!Write, PublicationInv, ServesDirty
<1>2. generation[cursor] < routes[cursor] + MaxSkipped
    BY <1>1 DEF PublicationInv, Spent, Filled
<1>3. generation'[cursor] = generation[cursor] + 1
    BY <1>1 DEF Fill, PublicationInv, OspfTypes
<1>4. routes[cursor] \in Versions /\ generation[cursor] \in Numbers
    BY <1>1 DEF PublicationInv, OspfTypes
<1>5. generation[cursor] + 1 \in Numbers
    BY <1>2, <1>4, PublicationAssumption DEF Versions, Numbers
<1> QED BY <1>1, <1>2, <1>3, <1>4, <1>5 DEF RouteGenerations

\* Both threads keep to the protocol of the channel.
LEMMA ChannelStep ==
    PublicationInv /\ [Next]_vars => [Channel!Next]_(Channel!vars)
<1> SUFFICES ASSUME PublicationInv, [Next]_vars PROVE [Channel!Next]_(Channel!vars)
    OBVIOUS
<1> USE DEF Channel!Next, Channel!Producer, Channel!Consumer
<1>1. CASE UNCHANGED channel
    BY <1>1 DEF channel, Channel!vars, Channel!producer, Channel!consumer
<1>2. CASE BeginAcquire
    BY <1>2 DEF BeginAcquire
<1>3. CASE Backpressure
    BY <1>3 DEF Backpressure
<1>4. CASE Overflow
    BY <1>4 DEF Overflow
<1>5. CASE Fill
    BY <1>5, FillNumber DEF Fill
<1>6. CASE PublishRoutes
    BY <1>6 DEF PublishRoutes
<1>7. CASE Borrow
    BY <1>7 DEF Borrow
<1>8. CASE Install
    BY <1>8 DEF Install
<1>9. CASE StartTurn \/ Apply \/ StartPublishing \/ NothingToPublish \/ EndTurn \/ Sleep
    BY <1>1, <1>9 DEF StartTurn, Apply, StartPublishing, NothingToPublish, EndTurn, Sleep
<1>10. CASE Deadline \/ FrameArrives \/ \E r \in Routers : RunProcess(r)
    BY <1>1, <1>10 DEF Deadline, FrameArrives, RunProcess
<1>11. CASE \/ BeginTurn \/ SubmitNotify \/ ReadResult \/ ReadNotify \/ Pump \/ FinishPump
            \/ \E r \in Routers, keep \in Keep : Configure(r, keep)
    BY <1>1, <1>11
    DEF BeginTurn, SubmitNotify, ReadResult, ReadNotify, Pump, FinishPump, Configure
<1>12. CASE UNCHANGED vars
    BY <1>1, <1>12 DEF vars
<1> QED
    BY <1>2, <1>3, <1>4, <1>5, <1>6, <1>7, <1>8, <1>9, <1>10, <1>11, <1>12
    DEF Next, Worker, Network

\* The two threads start idle, with an unused channel.
LEMMA InitPublicationInv == Init => PublicationInv
<1> SUFFICES ASSUME Init PROVE PublicationInv
    OBVIOUS
<1>1. ChannelInv
    BY InitChannelInv DEF Init
<1>a. 0 \in Versions /\ 0 \in Numbers /\ 1 \in 1 .. NumRouters + 1
    BY PublicationAssumption DEF Versions, Numbers
<1>b. OspfTypes
    BY <1>a DEF Init, OspfTypes
<1>2. OspfTypes /\ TurnTypes /\ OneCommand
    BY <1>a, <1>b DEF Init, TurnTypes, OneCommand
<1>3. ServesDirty /\ Spent
    BY PublicationAssumption
    DEF Init, Channel!Init, ServesDirty, Spent, Dirty, Filled, Routers
<1>4. OneLoan
    BY DEF Init, Channel!Init, OneLoan, Lent
<1> QED BY <1>1, <1>2, <1>3, <1>4 DEF PublicationInv

\* The parts of the invariant other than the channel's own.
Rest == OspfTypes /\ TurnTypes /\ OneCommand /\ ServesDirty /\ Spent /\ OneLoan

\* Every step of the two threads keeps the invariant.
LEMMA NextPublicationInv == PublicationInv /\ [Next]_vars => PublicationInv'
<1> SUFFICES ASSUME PublicationInv, [Next]_vars PROVE PublicationInv'
    OBVIOUS
<1>a. ChannelInv'
    BY ChannelStep, NextChannelInv DEF PublicationInv
<1> SUFFICES Rest'
    BY <1>a DEF PublicationInv, Rest
<1>b. Rest
    BY DEF PublicationInv, Rest
<1>c. Keep \subseteq BOOLEAN /\ NumRouters \in Nat /\ MaxVersion \in Nat /\ MaxSkipped \in Nat
    BY PublicationAssumption
<1> USE <1>b, <1>c DEF Rest, OspfTypes, TurnTypes, channel, ospf, worker, rings, network
<1>1. CASE StartTurn \/ StartPublishing \/ NothingToPublish \/ EndTurn \/ Sleep \/ Deadline
    <2>1. UNCHANGED <<channel, ospf, rings, network>>
        BY <1>1 DEF StartTurn, StartPublishing, NothingToPublish, EndTurn, Sleep, Deadline
    <2>2. ppc = "idle"
        <3>1. NothingToPublish \/ ~(wpc = "publish" /\ cursor \in Routers)
            BY <1>1 DEF StartTurn, StartPublishing, EndTurn, Sleep, Deadline
        <3> QED BY <3>1 DEF NothingToPublish, ServesDirty
    <2>3. TurnTypes'
        <3>1. CASE NothingToPublish
            BY <3>1 DEF NothingToPublish, Serving, Routers
        <3>2. CASE StartTurn
            BY <3>2 DEF StartTurn
        <3>3. CASE StartPublishing
            BY <3>3 DEF StartPublishing
        <3>4. CASE EndTurn \/ Sleep \/ Deadline
            BY <3>4 DEF EndTurn, Sleep, Deadline
        <3> QED BY <1>1, <3>1, <3>2, <3>3, <3>4
    <2>4. Lent' = Lent
        BY <2>1 DEF Lent
    <2> QED BY <2>1, <2>2, <2>3, <2>4 DEF OneCommand, ServesDirty, Spent, Filled, Dirty, OneLoan
<1>2. CASE Apply
    <2>1. PICK r \in Routers, keep \in BOOLEAN :
             commands = <<[router |-> r, keep |-> keep]>> /\ routes[r] < MaxVersion
        BY <1>2 DEF Apply, OneCommand
    <2>2. /\ processes' = [processes EXCEPT ![r] = keep]
          /\ routes' = [routes EXCEPT ![r] = @ + 1]
          /\ pending' = [pending EXCEPT ![r] = TRUE]
          /\ commands' = <<>> /\ results' = Append(results, "done")
          /\ wpc = "commands"
          /\ UNCHANGED <<channel, worker, network, published, generation>>
        <3> DEFINE c == [router |-> r, keep |-> keep]
        <3>1. Head(<<c>>) = c /\ Tail(<<c>>) = <<>> /\ c.router = r /\ c.keep = keep
            OBVIOUS
        <3>2. Head(commands).router = r /\ Head(commands).keep = keep /\ Tail(commands) = <<>>
            BY <2>1, <3>1
        <3> HIDE DEF c
        <3> QED BY <1>2, <3>2 DEF Apply
    <2>3. routes[r] + 1 \in Versions
        BY <2>1 DEF Versions
    <2>4. ppc = "idle" /\ Lent' = Lent
        BY <2>2 DEF ServesDirty, Lent
    <2>5. results = <<>> /\ npc \in {"submitted", "await"}
        BY <2>1 DEF OneCommand
    <2>6. OspfTypes' /\ TurnTypes'
        BY <2>2, <2>3
    <2>7. OneCommand'
        BY <2>2, <2>5 DEF OneCommand
    <2>8. ServesDirty' /\ OneLoan'
        BY <2>2, <2>4 DEF ServesDirty, OneLoan
    <2>9. Spent'
        BY <2>2, <2>3, <2>4 DEF Spent, Filled, Dirty, Versions, Numbers
    <2> QED BY <2>6, <2>7, <2>8, <2>9
<1>3. ASSUME NEW r \in Routers, RunProcess(r) PROVE Rest'
    <2>1. /\ routes' = [routes EXCEPT ![r] = @ + 1] /\ wpc = "commands" /\ processes[r]
          /\ routes[r] + Len(commands) < MaxVersion
          /\ UNCHANGED <<channel, worker, rings, network, processes, published,
                         pending, generation>>
        BY <1>3 DEF RunProcess
    <2>2. Len(commands) \in {0, 1} /\ (commands # <<>> => Len(commands) = 1)
        BY DEF OneCommand
    <2>3. routes[r] + 1 \in Versions
        BY <2>1, <2>2 DEF Versions
    <2>4. ppc = "idle" /\ Lent' = Lent
        BY <2>1 DEF ServesDirty, Lent
    <2>5. OspfTypes' /\ TurnTypes'
        BY <2>1, <2>3
    <2>6. OneCommand'
        BY <2>1, <2>2 DEF OneCommand, Versions
    <2>7. ServesDirty' /\ OneLoan'
        BY <2>1, <2>4 DEF ServesDirty, OneLoan
    <2>8. Spent'
        <3> SUFFICES ASSUME NEW q \in Routers
                     PROVE  /\ published[q] <= routes'[q]
                            /\ ~pending[q] /\ ~processes[q] => published[q] = routes'[q]
                            /\ generation[q] <= routes'[q] + MaxSkipped
                            /\ Dirty(q)' => generation[q] < routes'[q] + MaxSkipped
            BY <2>1 DEF Spent, Filled
        <3>1. CASE q = r
            BY <2>1, <3>1 DEF Spent, Versions, Numbers
        <3>2. CASE q # r
            BY <2>1, <2>4, <3>2 DEF Spent, Filled, Dirty
        <3> QED BY <3>1, <3>2
    <2> QED BY <2>5, <2>6, <2>7, <2>8
<1>4. CASE BeginAcquire
    <2>1. /\ UNCHANGED <<ospf, worker, rings, network>> /\ loan' = loan
          /\ Serving /\ Dirty(cursor) /\ ppc \in {"idle", "reclaim"}
          /\ ppc' \in {"reclaim", "write"}
        BY <1>4 DEF BeginAcquire, Channel!Call, Channel!Reclaim, Channel!Acquire,
                    Channel!consumer
    <2>2. Lent' = Lent
        BY <2>1 DEF Lent
    <2> QED BY <2>1, <2>2 DEF OneCommand, ServesDirty, Spent, Filled, Dirty, OneLoan, Serving
<1>5. CASE Backpressure
    <2>1. /\ UNCHANGED <<ospf, wpc, workPending, rings, network>> /\ loan' = loan
          /\ Serving /\ cursor' = cursor + 1 /\ ppc = "reclaim" /\ ppc' = "idle"
        BY <1>5 DEF Backpressure, Channel!ReturnReclaimed, Channel!consumer
    <2>2. Lent' = Lent
        BY <2>1 DEF Lent
    <2>3. TurnTypes'
        BY <2>1 DEF Serving, Routers
    <2> QED BY <2>1, <2>2, <2>3 DEF OneCommand, ServesDirty, Spent, Filled, Dirty, OneLoan
<1>6. CASE Overflow
    <2>1. /\ UNCHANGED <<routes, processes, published, pending, workPending, wpc, rings,
                         network>>
          /\ loan' = loan /\ Serving /\ cursor' = cursor + 1
          /\ ppc = "write" /\ ppc' = "idle" /\ SkipNumber(cursor)
        BY <1>6 DEF Overflow, Channel!Cancel, Channel!consumer
    <2>2. Lent' = Lent
        BY <2>1 DEF Lent
    <2>3. cursor \in Routers /\ routes[cursor] \in Versions /\ generation[cursor] \in Numbers
        BY <2>1 DEF Serving
    <2>4. /\ generation' \in [Routers -> Numbers]
          /\ \A r \in Routers : \/ generation'[r] = generation[r]
                                \/ generation'[r] < routes[r] + MaxSkipped
        BY <2>1, <2>3 DEF SkipNumber, Versions, Numbers
    <2>5. TurnTypes' /\ OspfTypes'
        BY <2>1, <2>3, <2>4 DEF Routers
    <2>6. OneCommand' /\ ServesDirty' /\ OneLoan'
        BY <2>1, <2>2 DEF OneCommand, ServesDirty, OneLoan
    <2>7. Spent'
        BY <2>1, <2>4 DEF Spent, Filled, Dirty, Versions, Numbers
    <2> QED BY <2>5, <2>6, <2>7
<1>7. CASE Fill
    <2>1. /\ UNCHANGED <<routes, processes, published, pending, worker, rings, network>>
          /\ Serving /\ loan' = loan /\ ppc' = "publish" /\ held' = held
          /\ generation' = [generation EXCEPT ![cursor] = @ + 1]
          /\ slots' = [slots EXCEPT ![held] =
                [router |-> cursor, generation |-> generation'[cursor],
                 routes |-> routes[cursor]]]
        BY <1>7 DEF Fill, Channel!Write, Channel!consumer
    <2>2. Lent' = Lent
        BY <2>1 DEF Lent
    <2>3. held \in Channel!Handles /\ held \in DOMAIN slots
        BY <1>7, PublicationAssumption
        DEF Fill, Channel!Write, PublicationInv, ChannelInv, Whole, Channel!TypeOK,
            Channel!Handles
    <2>4. /\ cursor \in Routers /\ Dirty(cursor)
          /\ generation[cursor] < routes[cursor] + MaxSkipped
          /\ generation[cursor] + 1 \in Numbers
        BY <1>7, FillNumber DEF RouteGenerations
    <2>5. OspfTypes' /\ TurnTypes'
        BY <2>1, <2>4
    <2>6. OneCommand' /\ OneLoan'
        BY <2>1, <2>2 DEF OneCommand, OneLoan
    <2>7. ServesDirty'
        BY <2>1, <2>3, <2>4 DEF ServesDirty, Serving, Dirty
    <2>8. Spent'
        BY <2>1, <2>4 DEF Spent, Filled, Dirty, Versions, Numbers
    <2> QED BY <2>5, <2>6, <2>7, <2>8
<1>8. CASE PublishRoutes
    <2>1. Channel!Publish /\ Len(ready) < Capacity
        <3>1. Channel!Publish /\ held \in Channel!Handles
            BY <1>8, PublicationAssumption
            DEF PublishRoutes, Channel!Publish, PublicationInv, ChannelInv, Whole,
                Channel!TypeOK, Channel!Handles
        <3>2. held \notin Queued /\ Distinct(ready) /\ ready \in Seq(Channel!Handles)
            BY <3>1 DEF PublicationInv, ChannelInv, Exclusive, Filling, Channel!TypeOK
        <3> QED BY <3>1, <3>2, RoomForOneMore DEF Queued
    <2>2. ready' # ready
        <3>1. ready \in Seq(Channel!Handles)
            BY DEF PublicationInv, ChannelInv, Channel!TypeOK
        <3>2. ready' = Append(ready, held)
            BY <2>1 DEF Channel!Publish
        <3> QED BY <3>1, <3>2
    <2>3. /\ UNCHANGED <<routes, processes, generation, workPending, wpc, rings, npc, manager>>
          /\ published' = [published EXCEPT ![cursor] = routes[cursor]]
          /\ pending' = [pending EXCEPT ![cursor] = FALSE]
          /\ linkPending' = TRUE /\ cursor' = cursor + 1
          /\ ppc = "publish" /\ ppc' = "idle" /\ loan' = loan /\ cursor \in Routers
        BY <1>8, <2>1, <2>2 DEF PublishRoutes, Channel!Publish, Channel!consumer, Serving
    <2>4. Lent' = Lent
        BY <2>3 DEF Lent
    <2>5. OspfTypes' /\ TurnTypes'
        BY <2>3 DEF Routers
    <2>6. OneCommand' /\ OneLoan' /\ ServesDirty'
        BY <2>3, <2>4 DEF OneCommand, OneLoan, ServesDirty
    <2>7. Spent'
        BY <2>3 DEF Spent, Filled, Dirty, Versions, Numbers
    <2> QED BY <2>5, <2>6, <2>7
<1>9. CASE FrameArrives \/ BeginTurn \/ Pump \/ FinishPump
    <2>1. /\ UNCHANGED <<channel, ospf, cursor, rings, manager>> /\ Lent' = Lent
          /\ wpc' = IF wpc = "sleep" /\ FrameArrives THEN "top" ELSE wpc
          /\ TurnTypes'
          /\ npc \notin {"submitted", "await", "install"} \/ npc' = npc
          /\ npc' \notin {"submitted", "await", "install"} \/ npc' = npc
        BY <1>9 DEF FrameArrives, Notify, BeginTurn, Pump, FinishPump, Lent
    <2>2. wpc = "publish" => wpc' = "publish"
        BY <2>1
    <2> QED BY <2>1, <2>2 DEF OneCommand, ServesDirty, Spent, Filled, Dirty, OneLoan
<1>10. CASE SubmitNotify \/ ReadResult \/ ReadNotify
    <2>1. /\ UNCHANGED <<channel, ospf, cursor, commands, manager>> /\ Lent' = Lent
          /\ wpc = "publish" => wpc' = "publish"
          /\ TurnTypes' /\ npc # "install" /\ npc' # "install"
        BY <1>10 DEF SubmitNotify, ReadResult, ReadNotify, Notify, Lent
    <2>2. OneCommand'
        <3>1. CASE SubmitNotify
            BY <3>1, <2>1 DEF SubmitNotify, OneCommand
        <3>2. CASE ReadResult
            <4>1. results = <<"done">> /\ results' = <<>> /\ commands = <<>>
                <5>1. results = <<"done">> /\ npc = "await"
                    BY <3>2 DEF ReadResult, OneCommand
                <5>2. Tail(<<"done">>) = <<>>
                    OBVIOUS
                <5>3. (commands = <<>>) # (results = <<>>) /\ results # <<>>
                    BY <3>2, <5>1 DEF OneCommand, ReadResult
                <5> QED BY <3>2, <5>1, <5>2, <5>3 DEF ReadResult
            <4> QED BY <3>2, <4>1, <2>1 DEF ReadResult, OneCommand
        <3>3. CASE ReadNotify
            BY <3>3, <2>1 DEF ReadNotify, OneCommand
        <3> QED BY <1>10, <3>1, <3>2, <3>3
    <2> QED BY <2>1, <2>2 DEF ServesDirty, Spent, Filled, Dirty, OneLoan
<1>11. ASSUME NEW r \in Routers, NEW keep \in Keep, Configure(r, keep) PROVE Rest'
    <2>1. /\ UNCHANGED <<channel, ospf, worker, results, manager>> /\ Lent' = Lent
          /\ TurnTypes' /\ npc # "install" /\ npc' = "submitted"
          /\ commands = <<>> /\ results = <<>> /\ routes[r] < MaxVersion
          /\ commands' = <<[router |-> r, keep |-> keep]>>
        <3>1. commands = <<>> /\ results = <<>>
            BY <1>11 DEF Configure, OneCommand
        <3>2. Append(<<>>, [router |-> r, keep |-> keep]) = <<[router |-> r, keep |-> keep]>>
            OBVIOUS
        <3>3. TurnTypes'
            BY <1>11 DEF Configure
        <3> QED BY <1>11, <3>1, <3>2, <3>3 DEF Configure, Lent
    <2>2. OneCommand'
        BY <2>1 DEF OneCommand
    <2> QED BY <2>1, <2>2 DEF ServesDirty, Spent, Filled, Dirty, OneLoan
<1>12. CASE Borrow
    <2>1. /\ UNCHANGED <<ospf, worker, rings, linkPending, manager, ppc, held, slots>>
          /\ npc = "drain" /\ npc' = "install" /\ ready # <<>>
          /\ loan' = [loan EXCEPT ![Head(ready)] = slots[Head(ready)]]
        BY <1>12 DEF Borrow, Channel!Receive, Channel!producer
    <2> DEFINE h == Head(ready)
    <2>2. /\ h \in Channel!Handles /\ slots[h] # Nothing /\ h \in DOMAIN loan
          /\ DOMAIN loan = Channel!Handles
        <3>1. h \in Queued /\ h \in Channel!Handles
            BY <2>1, TailRange DEF PublicationInv, ChannelInv, Channel!TypeOK, Queued
        <3> QED BY <3>1, PublicationAssumption
            DEF PublicationInv, ChannelInv, Channel!TypeOK, Whole
    <2> HIDE DEF h
    <2>3. Lent' = {h}
        BY <2>1, <2>2 DEF OneLoan, Lent, h
    <2>4. OneLoan'
        BY <2>1, <2>2, <2>3 DEF OneLoan
    <2> QED BY <2>1, <2>4 DEF OneCommand, ServesDirty, Spent, Filled, Dirty
<1>13. CASE Install
    <2>1. PICK h \in Channel!Handles :
             /\ loan[h] # Nothing /\ Channel!Release(h)
             /\ LET new == loan[h] IN
                manager' = IF new.generation > manager[new.router].generation
                           THEN [manager EXCEPT ![new.router] =
                                    [generation |-> new.generation, routes |-> new.routes]]
                           ELSE manager
        BY <1>13 DEF Install
    <2>2. /\ UNCHANGED <<ospf, worker, rings, linkPending, ppc, held, slots>>
          /\ npc = "install" /\ npc' = "drain" /\ loan' = [loan EXCEPT ![h] = Nothing]
        BY <1>13, <2>1 DEF Install, Channel!Release, Channel!producer
    <2>3. loan[h] \in RouteGenerations /\ DOMAIN loan = Channel!Handles
        BY <2>1 DEF PublicationInv, ChannelInv, Channel!TypeOK
    <2>4. Lent = {h}
        BY <2>1, <2>2 DEF OneLoan, Lent
    <2>5. Lent' = {}
        BY <2>2, <2>3, <2>4 DEF Lent
    <2>6. manager' \in [Routers -> [generation : Numbers, routes : Versions]]
        BY <2>1, <2>3 DEF RouteGenerations
    <2> QED BY <2>2, <2>5, <2>6 DEF OneCommand, ServesDirty, Spent, Filled, Dirty, OneLoan
<1>14. CASE UNCHANGED vars
    BY <1>14 DEF vars, OneCommand, ServesDirty, Spent, Filled, Dirty, OneLoan, Lent
<1> QED
    BY <1>1, <1>2, <1>3, <1>4, <1>5, <1>6, <1>7, <1>8, <1>9, <1>10, <1>11, <1>12,
       <1>13, <1>14
    DEF Next, Worker, Network

-----------------------------------------------------------------------------
(* What is on its way.                                                     *)

\* A channel operation that publishes and receives nothing leaves the contents alone.
LEMMA ContentsKept ==
    ASSUME ChannelInv, [Channel!Next]_(Channel!vars), ready' = ready
    PROVE  Contents' = Contents
<1>1. ready \in Seq(Channel!Handles)
    BY DEF ChannelInv, Channel!TypeOK
<1>2. ASSUME Channel!Publish, Len(ready) < Capacity PROVE FALSE
    <2>1. held \in Channel!Handles
        BY <1>2, PublicationAssumption
        DEF Channel!Publish, ChannelInv, Whole, Channel!TypeOK, Channel!Handles
    <2> QED BY <1>1, <1>2, <2>1 DEF Channel!Publish
<1>3. ASSUME Channel!Receive PROVE FALSE
    BY <1>1, <1>3 DEF Channel!Receive
<1> QED BY <1>2, <1>3, ContentsStep

\* What is under way when nothing is borrowed.
LEMMA UnderWayIdle ==
    ASSUME ChannelInv, Lent = {}
    PROVE  UnderWay = Contents
<1>1. UnderWay = <<>> \o Contents
    BY DEF UnderWay, Lent, Contents
<1> QED BY <1>1, ContentsType, ConcatEmptySeq

\* What is under way when the network owner borrows the first slot.
LEMMA UnderWayLoan ==
    ASSUME ChannelInv, NEW h, Lent = {h}
    PROVE  /\ UnderWay = <<loan[h]>> \o Contents
           /\ loan[h] \in RouteGenerations
<1>1. (CHOOSE x \in Lent : TRUE) = h
    OBVIOUS
<1>2. UnderWay = <<loan[h]>> \o Contents
    BY <1>1 DEF UnderWay, Lent, Contents
<1>3. h \in Channel!Handles /\ loan[h] # Nothing
    BY DEF Lent
<1> QED BY <1>2, <1>3 DEF ChannelInv, Channel!TypeOK

\* What is under way is a sequence of payloads.
LEMMA UnderWayType ==
    ASSUME PublicationInv
    PROVE  UnderWay \in Seq(RouteGenerations)
<1>1. ChannelInv /\ Contents \in Seq(RouteGenerations)
    BY ContentsType DEF PublicationInv
<1>2. CASE Lent = {}
    BY <1>1, <1>2, UnderWayIdle
<1>3. ASSUME NEW h, Lent = {h} PROVE UnderWay \in Seq(RouteGenerations)
    <2>1. UnderWay = <<loan[h]>> \o Contents /\ <<loan[h]>> \in Seq(RouteGenerations)
        BY <1>1, <1>3, UnderWayLoan
    <2> QED BY <1>1, <2>1, ConcatProperties
<1> QED BY <1>2, <1>3 DEF PublicationInv, OneLoan

\* Generations g, oldest first, are newer than those installed in m, and newer
\* than the ones before them.
Increasing(g, m) ==
    \A i \in DOMAIN g :
        /\ g[i].generation > m[g[i].router].generation
        /\ \A j \in 1 .. i - 1 : g[j].router = g[i].router
                                    => g[j].generation < g[i].generation

\* The routes of router r are the ones in version v once g is installed over m.
EndsWith(g, m, r, v) ==
    /\ (\A j \in DOMAIN g : j > 0 => g[j].router # r) => m[r].routes = v
    /\ \A i \in DOMAIN g :
          g[i].router = r /\ (\A j \in DOMAIN g : j > i => g[j].router # r)
              => g[i].routes = v

\* The two properties in terms of what is under way and what is installed.
LEMMA FlightDefs ==
    /\ GenerationsIncrease <=> Increasing(UnderWay, manager)
    /\ AcknowledgedIsLast <=>
          \A r \in Routers : ~Dirty(r) => EndsWith(UnderWay, manager, r, routes[r])
BY DEF GenerationsIncrease, AcknowledgedIsLast, Increasing, EndsWith, LastOf

Managers == [Routers -> [generation : Numbers, routes : Versions]]

\* A publication is the last of its router and leaves the others alone.
LEMMA AppendFlight ==
    ASSUME NEW g \in Seq(RouteGenerations), NEW m \in Managers,
           NEW x \in RouteGenerations
    PROVE  /\ /\ Increasing(g, m) /\ m[x.router].generation < x.generation
              /\ \A i \in DOMAIN g : g[i].router = x.router
                                        => g[i].generation < x.generation
              => Increasing(Append(g, x), m)
           /\ EndsWith(Append(g, x), m, x.router, x.routes)
           /\ \A r \in Routers, v \in Versions :
                 r # x.router /\ EndsWith(g, m, r, v) => EndsWith(Append(g, x), m, r, v)
<1> DEFINE a == Append(g, x)
<1>1. /\ Len(g) \in Nat /\ DOMAIN g = 1 .. Len(g) /\ DOMAIN a = 1 .. Len(g) + 1
      /\ \A i \in 1 .. Len(g) : a[i] = g[i] /\ g[i] \in RouteGenerations
      /\ a[Len(g) + 1] = x
    OBVIOUS
<1> HIDE DEF a
<1>2. ASSUME Increasing(g, m), m[x.router].generation < x.generation,
             \A i \in DOMAIN g : g[i].router = x.router => g[i].generation < x.generation
      PROVE  Increasing(a, m)
    <2> SUFFICES ASSUME NEW i \in 1 .. Len(g) + 1
                 PROVE  /\ a[i].generation > m[a[i].router].generation
                        /\ \A j \in 1 .. i - 1 : a[j].router = a[i].router
                              => a[j].generation < a[i].generation
        BY <1>1 DEF Increasing
    <2>0. m[x.router].generation \in Nat /\ x.generation \in Nat
        BY DEF Managers, RouteGenerations, Numbers
    <2>1. CASE i = Len(g) + 1
        BY <1>1, <1>2, <2>0, <2>1
    <2>2. CASE i \in 1 .. Len(g)
        BY <1>1, <1>2, <2>2 DEF Increasing
    <2> QED BY <1>1, <2>1, <2>2
<1>3. EndsWith(a, m, x.router, x.routes)
    <2>1. Len(g) + 1 \in DOMAIN a /\ Len(g) + 1 > 0
        BY <1>1
    <2>2. ASSUME NEW i \in DOMAIN a, \A j \in DOMAIN a : j > i => a[j].router # x.router
          PROVE  i = Len(g) + 1
        BY <1>1, <2>1, <2>2
    <2> QED BY <1>1, <2>1, <2>2 DEF EndsWith
<1>4. ASSUME NEW r \in Routers, NEW v \in Versions, r # x.router, EndsWith(g, m, r, v)
      PROVE  EndsWith(a, m, r, v)
    <2>1. ASSUME \A j \in DOMAIN a : j > 0 => a[j].router # r PROVE m[r].routes = v
        BY <1>1, <1>4, <2>1 DEF EndsWith
    <2>2. ASSUME NEW i \in DOMAIN a, a[i].router = r,
                 \A j \in DOMAIN a : j > i => a[j].router # r
          PROVE  a[i].routes = v
        <3>1. i \in 1 .. Len(g) /\ g[i].router = r
            BY <1>1, <1>4, <2>2
        <3>2. \A j \in DOMAIN g : j > i => g[j].router # r
            BY <1>1, <2>2
        <3> QED BY <1>1, <1>4, <3>1, <3>2 DEF EndsWith
    <2> QED BY <2>1, <2>2 DEF EndsWith
<1> QED BY <1>2, <1>3, <1>4 DEF a

\* The route manager takes over the oldest generation.
LEMMA TailFlight ==
    ASSUME NEW g \in Seq(RouteGenerations), NEW m \in Managers, NEW n, g # <<>>,
           n = [m EXCEPT ![Head(g).router] =
                   [generation |-> Head(g).generation, routes |-> Head(g).routes]]
    PROVE  /\ Increasing(g, m) => Increasing(Tail(g), n)
           /\ \A r \in Routers, v \in Versions :
                 EndsWith(g, m, r, v) => EndsWith(Tail(g), n, r, v)
<1> DEFINE t == Tail(g)
<1>1. /\ Len(g) \in Nat \ {0} /\ DOMAIN g = 1 .. Len(g) /\ DOMAIN t = 1 .. Len(g) - 1
      /\ \A i \in 1 .. Len(g) - 1 : t[i] = g[i + 1]
      /\ \A i \in 1 .. Len(g) : g[i] \in RouteGenerations
      /\ Head(g) = g[1]
    OBVIOUS
<1> HIDE DEF t
<1>2. /\ g[1].router \in Routers
      /\ \A r \in Routers :
            n[r] = IF r = g[1].router THEN [generation |-> g[1].generation,
                                            routes |-> g[1].routes] ELSE m[r]
    BY <1>1 DEF RouteGenerations, Managers
<1>3. ASSUME Increasing(g, m) PROVE Increasing(t, n)
    <2> SUFFICES ASSUME NEW i \in 1 .. Len(g) - 1
                 PROVE  /\ t[i].generation > n[t[i].router].generation
                        /\ \A j \in 1 .. i - 1 : t[j].router = t[i].router
                              => t[j].generation < t[i].generation
        BY <1>1 DEF Increasing
    <2>1. t[i] = g[i + 1] /\ i + 1 \in DOMAIN g /\ g[i + 1].router \in Routers
        BY <1>1 DEF RouteGenerations
    <2>2. /\ g[i + 1].generation > m[g[i + 1].router].generation
          /\ \A j \in 1 .. i : g[j].router = g[i + 1].router
                                  => g[j].generation < g[i + 1].generation
        BY <1>3, <2>1 DEF Increasing
    <2>3. t[i].generation > n[t[i].router].generation
        <3>1. g[1].generation \in Nat /\ g[i + 1].generation \in Nat
            BY <1>1, <2>1 DEF RouteGenerations, Numbers
        <3>2. CASE g[i + 1].router = g[1].router
            <4>1. g[1].generation < g[i + 1].generation
                BY <2>2, <3>2
            <4> QED BY <1>2, <2>1, <3>1, <3>2, <4>1
        <3>3. CASE g[i + 1].router # g[1].router
            BY <1>2, <2>1, <2>2, <3>3
        <3> QED BY <3>2, <3>3
    <2>4. ASSUME NEW j \in 1 .. i - 1, t[j].router = t[i].router
          PROVE  t[j].generation < t[i].generation
        <3>1. t[j] = g[j + 1] /\ j + 1 \in 1 .. i
            BY <1>1
        <3> QED BY <2>1, <2>2, <2>4, <3>1
    <2> QED BY <2>3, <2>4
<1>4. ASSUME NEW r \in Routers, NEW v \in Versions, EndsWith(g, m, r, v)
      PROVE  EndsWith(t, n, r, v)
    <2>1. ASSUME \A j \in DOMAIN t : j > 0 => t[j].router # r PROVE n[r].routes = v
        <3>1. \A j \in DOMAIN g : j > 1 => g[j].router # r
            <4> SUFFICES ASSUME NEW j \in DOMAIN g, j > 1 PROVE g[j].router # r
                OBVIOUS
            <4>1. j - 1 \in DOMAIN t /\ j - 1 > 0 /\ t[j - 1] = g[(j - 1) + 1]
                BY <1>1
            <4>2. (j - 1) + 1 = j
                BY <1>1
            <4> QED BY <2>1, <4>1, <4>2
        <3>2. CASE g[1].router = r
            <4>1. g[1].routes = v
                BY <1>1, <1>4, <3>1, <3>2 DEF EndsWith
            <4> QED BY <1>2, <3>2, <4>1
        <3>3. CASE g[1].router # r
            <4>1. \A j \in DOMAIN g : j > 0 => g[j].router # r
                BY <1>1, <3>1, <3>3
            <4> QED BY <1>2, <1>4, <3>3, <4>1 DEF EndsWith
        <3> QED BY <3>2, <3>3
    <2>2. ASSUME NEW i \in DOMAIN t, t[i].router = r,
                 \A j \in DOMAIN t : j > i => t[j].router # r
          PROVE  t[i].routes = v
        <3>1. i + 1 \in DOMAIN g /\ t[i] = g[i + 1] /\ i \in Nat
            BY <1>1
        <3>2. ASSUME NEW j \in DOMAIN g, j > i + 1 PROVE g[j].router # r
            <4>1. /\ j - 1 \in DOMAIN t /\ j - 1 > i /\ t[j - 1] = g[(j - 1) + 1]
                  /\ (j - 1) + 1 = j
                BY <1>1, <3>1, <3>2
            <4> QED BY <2>2, <4>1
        <3> QED BY <1>4, <2>2, <3>1, <3>2 DEF EndsWith
    <2> QED BY <2>1, <2>2 DEF EndsWith
<1> QED BY <1>1, <1>3, <1>4 DEF t

\* Nothing is under way at the start.
LEMMA InitFlightInv == Init => FlightInv
<1> SUFFICES ASSUME Init PROVE FlightInv
    OBVIOUS
<1>1. UnderWay = <<>>
    <2>1. ChannelInv /\ Lent = {}
        BY InitChannelInv DEF Init, Channel!Init, Lent
    <2>2. Contents = <<>>
        BY DEF Init, Channel!Init, Contents
    <2> QED BY <2>1, <2>2, UnderWayIdle
<1>2. DOMAIN UnderWay = {}
    BY <1>1
<1>3. Numbered
    BY <1>2 DEF Init, Channel!Init, Numbered, Filled
<1>4. GenerationsIncrease
    BY <1>2 DEF GenerationsIncrease
<1>5. AcknowledgedIsLast
    BY <1>2 DEF Init, AcknowledgedIsLast
<1> QED BY <1>3, <1>4, <1>5 DEF FlightInv

\* A step that leaves alone what is on its way and what is installed, changes
\* routes only of routers it makes dirty, and spends numbers only forward.
LEMMA FlightKept ==
    ASSUME PublicationInv, PublicationInv', FlightInv,
           UnderWay' = UnderWay, manager' = manager,
           \A r \in Routers : Dirty(r)' \/ (~Dirty(r) /\ routes'[r] = routes[r]),
           \A r \in Routers :
              /\ generation'[r] >= generation[r]
              /\ Filled(r)' => Filled(r) \/ generation'[r] > generation[r]
    PROVE  FlightInv'
<1>1. GenerationsIncrease'
    BY DEF FlightInv, GenerationsIncrease
<1>2. AcknowledgedIsLast'
    BY DEF FlightInv, AcknowledgedIsLast, LastOf
<1>3. Numbered'
    <2>0. \A r \in Routers : /\ manager[r].generation \in Nat /\ generation[r] \in Nat
                             /\ generation'[r] \in Nat
        BY DEF PublicationInv, OspfTypes, Numbers
    <2>1. ASSUME NEW r \in Routers
          PROVE  /\ manager[r].generation <= generation'[r]
                 /\ Filled(r)' => manager[r].generation < generation'[r]
        BY <2>0 DEF FlightInv, Numbered
    <2>2. ASSUME NEW i \in DOMAIN UnderWay
          PROVE  LET g == UnderWay[i] IN
                 /\ g.generation <= generation'[g.router]
                 /\ Filled(g.router)' => g.generation < generation'[g.router]
        <3>1. UnderWay[i].router \in Routers /\ UnderWay[i].generation \in Nat
            <4>1. UnderWay[i] \in RouteGenerations
                BY UnderWayType
            <4> QED BY <4>1 DEF RouteGenerations, Numbers
        <3> QED BY <2>0, <3>1 DEF FlightInv, Numbered
    <2> QED BY <2>1, <2>2 DEF Numbered
<1> QED BY <1>1, <1>2, <1>3 DEF FlightInv

\* Every step keeps the order of what is under way.
LEMMA NextFlightInv == PublicationInv /\ FlightInv /\ [Next]_vars => FlightInv'
<1> SUFFICES ASSUME PublicationInv, FlightInv, [Next]_vars PROVE FlightInv'
    OBVIOUS
<1>a. PublicationInv' /\ ChannelInv /\ [Channel!Next]_(Channel!vars)
    BY NextPublicationInv, ChannelStep DEF PublicationInv
<1>t. /\ routes \in [Routers -> Versions] /\ generation \in [Routers -> Numbers]
      /\ \A r \in Routers : generation[r] \in Nat /\ routes[r] \in Nat
      /\ manager \in Managers
    BY DEF PublicationInv, OspfTypes, Numbers, Versions, Managers
<1>b. ASSUME ready' = ready, loan' = loan PROVE UnderWay' = UnderWay
    <2>1. Contents' = Contents
        BY <1>a, <1>b, ContentsKept
    <2> QED BY <1>b, <2>1 DEF UnderWay, Contents
<1> USE DEF channel, ospf, worker, rings, network
<1>1. CASE /\ UNCHANGED <<ready, loan, manager, routes, processes, published, pending,
                          generation>>
           /\ \A r \in Routers : Filled(r)' => Filled(r)
    <2>1. UnderWay' = UnderWay
        BY <1>1, <1>b
    <2>2. \A r \in Routers : Dirty(r)' <=> Dirty(r)
        BY <1>1 DEF Dirty
    <2> QED BY <1>1, <1>a, <1>t, <2>1, <2>2, FlightKept
<1>2. CASE StartTurn \/ StartPublishing \/ NothingToPublish \/ EndTurn \/ Sleep \/ Deadline
    <2>1. UNCHANGED <<channel, ospf, network>>
        BY <1>2 DEF StartTurn, StartPublishing, NothingToPublish, EndTurn, Sleep, Deadline
    <2>2. cursor' = cursor \/ ppc = "idle"
        BY <1>2 DEF StartTurn, StartPublishing, NothingToPublish, EndTurn, Sleep, Deadline,
                    PublicationInv, ServesDirty
    <2> QED BY <1>1, <2>1, <2>2 DEF Filled
<1>3. CASE Apply
    <2>1. /\ UNCHANGED <<channel, worker, network, published, generation>>
          /\ \E r \in Routers : /\ routes' = [routes EXCEPT ![r] = @ + 1]
                                /\ pending' = [pending EXCEPT ![r] = TRUE]
                                /\ \A q \in Routers : q # r => processes'[q] = processes[q]
        <3>1. PICK r \in Routers, keep \in BOOLEAN : commands = <<[router |-> r, keep |-> keep]>>
            BY <1>3 DEF Apply, PublicationInv, OneCommand
        <3> DEFINE c == [router |-> r, keep |-> keep]
        <3>2. Head(<<c>>) = c /\ c.router = r
            OBVIOUS
        <3>3. Head(commands).router = r
            BY <3>1, <3>2
        <3> QED BY <1>3, <3>3 DEF Apply, PublicationInv, OspfTypes
    <2>2. UnderWay' = UnderWay
        BY <1>b, <2>1
    <2>3. \A r \in Routers : Dirty(r)' \/ (~Dirty(r) /\ routes'[r] = routes[r])
        BY <1>t, <2>1 DEF Dirty, PublicationInv, OspfTypes
    <2> QED BY <1>a, <1>t, <2>1, <2>2, <2>3, FlightKept DEF Filled
<1>4. ASSUME NEW r \in Routers, RunProcess(r) PROVE FlightInv'
    <2>1. /\ UNCHANGED <<channel, worker, network, processes, published, pending, generation>>
          /\ routes' = [routes EXCEPT ![r] = @ + 1] /\ processes[r]
          /\ wpc = "commands"
        BY <1>4 DEF RunProcess
    <2>2. UnderWay' = UnderWay
        BY <1>b, <2>1
    <2>3. ASSUME NEW q \in Routers PROVE Dirty(q)' \/ (~Dirty(q) /\ routes'[q] = routes[q])
        <3>1. CASE q # r
            BY <1>t, <2>1, <3>1 DEF Dirty
        <3>2. CASE q = r
            <4>1. /\ published[r] <= routes[r] /\ routes'[r] = routes[r] + 1
                  /\ published[r] \in Nat /\ routes[r] \in Nat
                BY <1>t, <2>1 DEF PublicationInv, Spent, OspfTypes, Versions
            <4>2. published[r] # routes'[r]
                BY <4>1
            <4> QED BY <2>1, <3>2, <4>2 DEF Dirty
        <3> QED BY <3>1, <3>2
    <2> QED BY <1>a, <1>t, <2>1, <2>2, <2>3, FlightKept DEF Filled
<1>5. CASE BeginAcquire \/ Backpressure
    <2>1. UNCHANGED <<ready, loan, ospf, network>> /\ ppc # "publish" /\ ppc' # "publish"
        BY <1>5 DEF BeginAcquire, Backpressure, Channel!Call, Channel!Reclaim,
                    Channel!Acquire, Channel!ReturnReclaimed, Channel!consumer
    <2> QED BY <1>1, <2>1 DEF Filled
<1>6. CASE Overflow
    <2>1. /\ UNCHANGED <<ready, loan, routes, processes, published, pending, network>>
          /\ SkipNumber(cursor) /\ cursor \in Routers /\ ppc' = "idle"
        BY <1>6 DEF Overflow, Channel!Cancel, Channel!consumer, Serving
    <2>2. UnderWay' = UnderWay /\ \A r \in Routers : Dirty(r)' <=> Dirty(r)
        BY <1>b, <2>1 DEF Dirty
    <2>3. \A r \in Routers : generation'[r] >= generation[r]
        BY <1>t, <2>1 DEF SkipNumber
    <2> QED BY <1>a, <2>1, <2>2, <2>3, FlightKept DEF Filled
<1>7. CASE Fill
    <2>1. /\ UNCHANGED <<ready, loan, routes, processes, published, pending, network, cursor>>
          /\ generation' = [generation EXCEPT ![cursor] = @ + 1] /\ cursor \in Routers
        BY <1>7 DEF Fill, Channel!Write, Channel!consumer, Serving
    <2>2. UnderWay' = UnderWay /\ \A r \in Routers : Dirty(r)' <=> Dirty(r)
        BY <1>b, <2>1 DEF Dirty
    <2>3. \A r \in Routers : /\ generation'[r] >= generation[r]
                             /\ r = cursor => generation'[r] > generation[r]
        BY <1>t, <2>1
    <2> QED BY <1>a, <2>1, <2>2, <2>3, FlightKept DEF Filled
<1>8. CASE PublishRoutes
    <2> DEFINE x == slots[held]
    <2>1. /\ ppc = "publish" /\ ppc' = "idle" /\ cursor \in Routers /\ loan' = loan
          /\ UNCHANGED <<routes, processes, generation, manager>>
        BY <1>8 DEF PublishRoutes, Serving, Channel!Publish, Channel!consumer
    <2>2. /\ x = [router |-> cursor, generation |-> generation[cursor],
                  routes |-> routes[cursor]]
          /\ x \in RouteGenerations
        BY <2>1 DEF PublicationInv, ServesDirty, ChannelInv, Whole
    <2>3. Contents' = Append(Contents, x) /\ ready' # ready
        <3>1. /\ held \in Channel!Handles /\ held \notin Queued /\ Distinct(ready)
              /\ ready \in Seq(Channel!Handles)
            BY <2>1, PublicationAssumption
            DEF PublicationInv, ChannelInv, Exclusive, Filling, Whole, Channel!TypeOK,
                Channel!Handles
        <3>2. Len(ready) < Capacity
            BY <3>1, RoomForOneMore DEF Queued
        <3>3. ready' = Append(ready, held)
            BY <1>8, <3>2 DEF PublishRoutes, Channel!Publish
        <3>4. ready' # ready /\ slots' = slots
            BY <1>8, <3>1, <3>3 DEF PublishRoutes, Channel!Publish
        <3> QED BY <1>a, <3>1, <3>3, <3>4, ContentsType DEF Contents
    <2>4. /\ published' = [published EXCEPT ![cursor] = routes[cursor]]
          /\ pending' = [pending EXCEPT ![cursor] = FALSE]
        BY <1>8, <2>3 DEF PublishRoutes
    <2> HIDE DEF x
    <2>5. UnderWay' = Append(UnderWay, x)
        <3>0. Lent' = Lent /\ Contents \in Seq(RouteGenerations)
            BY <1>a, <2>1, ContentsType DEF Lent
        <3>1. CASE Lent = {}
            <4>1. UnderWay = Contents /\ UnderWay' = <<>> \o Contents'
                BY <1>a, <3>0, <3>1, UnderWayIdle DEF UnderWay, Lent, Contents
            <4>2. Append(Contents, x) \in Seq(RouteGenerations)
                BY <2>2, <3>0
            <4> QED BY <2>3, <4>1, <4>2, ConcatEmptySeq
        <3>2. ASSUME NEW h, Lent = {h} PROVE UnderWay' = Append(UnderWay, x)
            <4>1. /\ UnderWay = <<loan[h]>> \o Contents /\ loan[h] \in RouteGenerations
                  /\ UnderWay' = <<loan[h]>> \o Contents'
                <5>1. (CHOOSE y \in Lent : TRUE) = h
                    BY <3>2
                <5>2. UnderWay' = <<loan[h]>> \o Contents'
                    BY <2>1, <3>0, <3>2, <5>1 DEF UnderWay, Lent, Contents
                <5> QED BY <1>a, <3>2, <5>2, UnderWayLoan
            <4>2. <<loan[h]>> \in Seq(RouteGenerations)
                BY <4>1
            <4>3. <<loan[h]>> \o Append(Contents, x) = Append(<<loan[h]>> \o Contents, x)
                BY <2>2, <3>0, <4>2
            <4> QED BY <2>3, <4>1, <4>3
        <3> QED BY <3>1, <3>2 DEF PublicationInv, OneLoan
    <2>6. UnderWay \in Seq(RouteGenerations)
        BY UnderWayType
    <2>7. Increasing(UnderWay, manager)
        BY FlightDefs DEF FlightInv
    <2>8. /\ manager[cursor].generation < generation[cursor]
          /\ \A i \in DOMAIN UnderWay : UnderWay[i].router = cursor
                                          => UnderWay[i].generation < generation[cursor]
        BY <2>1 DEF FlightInv, Numbered, Filled
    <2>9. x.router = cursor /\ x.generation = generation[cursor] /\ x.routes = routes[cursor]
        BY <2>2
    <2>10. GenerationsIncrease'
        <3>1. Increasing(Append(UnderWay, x), manager)
            BY <1>t, <2>2, <2>6, <2>7, <2>8, <2>9, AppendFlight
        <3> QED BY <2>1, <2>5, <3>1 DEF GenerationsIncrease, Increasing
    <2>11. AcknowledgedIsLast'
        <3> SUFFICES ASSUME NEW r \in Routers, ~Dirty(r)'
                     PROVE  EndsWith(Append(UnderWay, x), manager, r, routes[r])
            BY <2>1, <2>5 DEF AcknowledgedIsLast, EndsWith, LastOf
        <3>1. CASE r = cursor
            BY <1>t, <2>2, <2>6, <2>9, <3>1, AppendFlight
        <3>2. CASE r # cursor
            <4>1. ~Dirty(r)
                BY <2>1, <2>4, <3>2 DEF Dirty, PublicationInv, OspfTypes
            <4>2. EndsWith(UnderWay, manager, r, routes[r]) /\ routes[r] \in Versions
                BY <1>t, <4>1, FlightDefs DEF FlightInv
            <4> QED BY <1>t, <2>2, <2>6, <2>9, <3>2, <4>2, AppendFlight
        <3> QED BY <3>1, <3>2
    <2>12. Numbered'
        <3>0. Append(UnderWay, x) \in Seq(RouteGenerations)
            BY <2>2, <2>6
        <3>1. ASSUME NEW i \in DOMAIN Append(UnderWay, x)
              PROVE  Append(UnderWay, x)[i].generation
                        <= generation[Append(UnderWay, x)[i].router]
            <4>1. CASE i \in DOMAIN UnderWay
                <5>1. Append(UnderWay, x)[i] = UnderWay[i]
                    BY <2>2, <2>6, <4>1
                <5> QED BY <4>1, <5>1 DEF FlightInv, Numbered
            <4>2. CASE i = Len(UnderWay) + 1
                <5>1. Append(UnderWay, x)[i] = x
                    BY <2>2, <2>6, <4>2
                <5> QED BY <1>t, <2>1, <2>9, <5>1
            <4>3. i \in DOMAIN UnderWay \/ i = Len(UnderWay) + 1
                BY <2>2, <2>6
            <4> QED BY <4>1, <4>2, <4>3
        <3> QED BY <2>1, <2>5, <3>1 DEF FlightInv, Numbered, Filled
    <2> QED BY <2>10, <2>11, <2>12 DEF FlightInv
<1>9. CASE \/ FrameArrives \/ BeginTurn \/ Pump \/ FinishPump
           \/ SubmitNotify \/ ReadResult \/ ReadNotify
           \/ \E r \in Routers, keep \in Keep : Configure(r, keep)
    <2>1. UNCHANGED <<channel, ospf, manager, cursor>>
        BY <1>9 DEF FrameArrives, BeginTurn, Pump, FinishPump, SubmitNotify, ReadResult,
                    ReadNotify, Configure, Notify
    <2> QED BY <1>1, <2>1 DEF Filled
<1>10. CASE Borrow
    <2> DEFINE h == Head(ready)
    <2>1. /\ UNCHANGED <<ospf, worker, manager, ppc, slots>>
          /\ npc = "drain" /\ ready # <<>> /\ ready' = Tail(ready)
          /\ loan' = [loan EXCEPT ![h] = slots[h]]
        BY <1>10 DEF Borrow, Channel!Receive, Channel!producer
    <2>2. /\ h \in Channel!Handles /\ slots[h] \in RouteGenerations /\ slots[h] # Nothing
          /\ loan \in [Channel!Handles -> RouteGenerations \cup {Nothing}]
          /\ ready \in Seq(Channel!Handles)
        <3>1. h \in Queued /\ h \in Channel!Handles
            BY <2>1, TailRange DEF PublicationInv, ChannelInv, Channel!TypeOK, Queued
        <3> QED BY <3>1, PublicationAssumption
            DEF PublicationInv, ChannelInv, Channel!TypeOK, Whole
    <2>3. /\ Contents # <<>> /\ Contents' = Tail(Contents) /\ Head(Contents) = slots[h]
          /\ Contents \in Seq(RouteGenerations)
        BY <1>a, <2>1, <2>2, ContentsType DEF Contents
    <2> HIDE DEF h
    <2>4. Lent = {} /\ Lent' = {h} /\ loan'[h] = slots[h]
        BY <2>1, <2>2 DEF PublicationInv, OneLoan, Lent
    <2>5. UnderWay = Contents /\ UnderWay' = <<slots[h]>> \o Contents'
        <3>1. (CHOOSE y \in {h} : TRUE) = h
            OBVIOUS
        <3>2. UnderWay' = <<slots[h]>> \o Contents'
            BY <2>4, <3>1 DEF UnderWay, Lent, Contents
        <3> QED BY <1>a, <2>4, <3>2, UnderWayIdle
    <2>6. <<Head(Contents)>> \o Tail(Contents) = Contents
        BY <2>3
    <2>7. UnderWay' = UnderWay
        BY <2>3, <2>5, <2>6
    <2>8. \A r \in Routers : Dirty(r)' <=> Dirty(r)
        BY <2>1 DEF Dirty
    <2> QED BY <1>a, <1>t, <2>1, <2>7, <2>8, FlightKept DEF Filled
<1>11. CASE Install
    <2>1. PICK h \in Channel!Handles :
             /\ loan[h] # Nothing /\ Channel!Release(h)
             /\ LET new == loan[h] IN
                manager' = IF new.generation > manager[new.router].generation
                           THEN [manager EXCEPT ![new.router] =
                                    [generation |-> new.generation, routes |-> new.routes]]
                           ELSE manager
        BY <1>11 DEF Install
    <2>2. /\ UNCHANGED <<ospf, worker, ready, ppc, slots>> /\ npc = "install"
          /\ loan' = [loan EXCEPT ![h] = Nothing]
        BY <1>11, <2>1 DEF Install, Channel!Release, Channel!producer
    <2>3. loan \in [Channel!Handles -> RouteGenerations \cup {Nothing}]
        BY DEF PublicationInv, ChannelInv, Channel!TypeOK
    <2>4. Lent = {h} /\ Lent' = {}
        BY <2>1, <2>2, <2>3 DEF PublicationInv, OneLoan, Lent
    <2>5. Contents' = Contents /\ Contents \in Seq(RouteGenerations)
        BY <1>a, <2>2, ContentsType DEF Contents
    <2>6. /\ UnderWay = <<loan[h]>> \o Contents /\ UnderWay' = Contents
          /\ loan[h] \in RouteGenerations
        <3>1. UnderWay' = <<>> \o Contents'
            BY <2>4 DEF UnderWay, Lent, Contents
        <3> QED BY <1>a, <2>4, <2>5, <3>1, UnderWayLoan, ConcatEmptySeq
    <2> DEFINE x == loan[h]
    <2>7. ASSUME NEW v \in RouteGenerations, NEW c \in Seq(RouteGenerations)
          PROVE  Head(<<v>> \o c) = v /\ Tail(<<v>> \o c) = c /\ <<v>> \o c # <<>>
        OBVIOUS
    <2>8. UnderWay # <<>> /\ Head(UnderWay) = x /\ UnderWay' = Tail(UnderWay)
        BY <2>5, <2>6, <2>7
    <2> HIDE DEF x
    <2>9. UnderWay \in Seq(RouteGenerations)
        BY UnderWayType
    <2>10. UnderWay[1] = x /\ 1 \in DOMAIN UnderWay
        BY <2>8, <2>9
    <2>11. Increasing(UnderWay, manager)
        BY FlightDefs DEF FlightInv
    <2>12. x.generation > manager[x.router].generation
        BY <2>10, <2>11 DEF Increasing
    <2>13. manager' = [manager EXCEPT ![x.router] =
                          [generation |-> x.generation, routes |-> x.routes]]
        BY <2>1, <2>12 DEF x
    <2>14. GenerationsIncrease'
        <3>1. Increasing(Tail(UnderWay), manager')
            BY <1>t, <2>8, <2>9, <2>11, <2>13, TailFlight
        <3> QED BY <2>8, <3>1 DEF GenerationsIncrease, Increasing
    <2>15. AcknowledgedIsLast'
        <3> SUFFICES ASSUME NEW r \in Routers, ~Dirty(r)'
                     PROVE  EndsWith(Tail(UnderWay), manager', r, routes[r])
            BY <2>2, <2>8 DEF AcknowledgedIsLast, EndsWith, LastOf
        <3>1. ~Dirty(r)
            BY <2>2 DEF Dirty
        <3>2. EndsWith(UnderWay, manager, r, routes[r]) /\ routes[r] \in Versions
            BY <1>t, <3>1, FlightDefs DEF FlightInv
        <3> QED BY <1>t, <2>8, <2>9, <2>13, <3>2, TailFlight
    <2>16. Numbered'
        <3>0. x.router \in Routers
            BY <2>6 DEF RouteGenerations, x
        <3>1. /\ x.generation <= generation[x.router]
              /\ Filled(x.router) => x.generation < generation[x.router]
            BY <2>10 DEF FlightInv, Numbered
        <3>2. ASSUME NEW r \in Routers
              PROVE  /\ manager'[r].generation <= generation[r]
                     /\ Filled(r) => manager'[r].generation < generation[r]
            <4>1. CASE r = x.router
                BY <1>t, <2>13, <3>0, <3>1, <4>1 DEF Managers
            <4>2. CASE r # x.router
                BY <1>t, <2>13, <3>0, <4>2 DEF Managers, FlightInv, Numbered
            <4> QED BY <4>1, <4>2
        <3>3. ASSUME NEW i \in DOMAIN Tail(UnderWay)
              PROVE  LET g == Tail(UnderWay)[i] IN
                     /\ g.generation <= generation[g.router]
                     /\ Filled(g.router) => g.generation < generation[g.router]
            <4>1. i + 1 \in DOMAIN UnderWay /\ Tail(UnderWay)[i] = UnderWay[i + 1]
                BY <2>8, <2>9
            <4> QED BY <4>1 DEF FlightInv, Numbered
        <3> QED BY <2>2, <2>8, <3>2, <3>3 DEF Numbered, Filled
    <2> QED BY <2>14, <2>15, <2>16 DEF FlightInv
<1>12. CASE UNCHANGED vars
    BY <1>1, <1>12 DEF vars, Filled
<1> QED
    BY <1>2, <1>3, <1>4, <1>5, <1>6, <1>7, <1>8, <1>9, <1>10, <1>11, <1>12
    DEF Next, Worker, Network

-----------------------------------------------------------------------------
(* The theorems.                                                           *)

\* Both invariants hold throughout.
LEMMA PublicationInvariance == Spec => [](PublicationInv /\ FlightInv)
<1>1. Init => PublicationInv /\ FlightInv
    BY InitPublicationInv, InitFlightInv
<1>2. (PublicationInv /\ FlightInv) /\ [Next]_vars => (PublicationInv /\ FlightInv)'
    BY NextPublicationInv, NextFlightInv
<1> QED BY <1>1, <1>2, PTL DEF Spec

\* Versions, numbers, rings and program counters stay within their types.
THEOREM PublicationTyped == Spec => []TypeOK
<1>1. PublicationInv => TypeOK
    <2> SUFFICES ASSUME PublicationInv PROVE TypeOK
        OBVIOUS
    <2>1. Len(commands) <= 1 /\ Len(results) <= 1
        <3>1. Len(<<>>) <= 1 /\ \A c : Len(<<c>>) <= 1
            OBVIOUS
        <3> QED BY <3>1 DEF PublicationInv, OneCommand
    <2> QED BY <2>1 DEF PublicationInv, ChannelInv, OspfTypes, TurnTypes, TypeOK
<1> QED BY <1>1, PublicationInvariance, PTL

\* publish_routes and drain_ospf_routes keep to the protocol of the channel:
\* their steps are steps of its producer and of its consumer.
THEOREM PublicationKeepsProtocol == Spec => ChannelProtocol
<1>1. Init => Channel!Init
    BY DEF Init
<1>2. PublicationInv /\ [Next]_vars => [Channel!Next]_(Channel!vars)
    BY ChannelStep
<1> QED BY <1>1, <1>2, PublicationInvariance, PTL DEF Spec, ChannelProtocol, Channel!Spec

\* No slot of the route channel leaks and none has two owners.
THEOREM SlotsConserved == Spec => []HandlesConserved
<1>1. PublicationInv => HandlesConserved
    BY OwnedOnce DEF PublicationInv, HandlesConserved
<1> QED BY <1>1, PublicationInvariance, PTL

\* The bytes of a borrowed slot stay as they were received until release().
THEOREM BorrowedStays == Spec => []BorrowedImmutable
<1>1. PublicationInv => BorrowedImmutable
    BY DEF PublicationInv, ChannelInv, BorrowedImmutable
<1> QED BY <1>1, PublicationInvariance, PTL

\* The route channel is a bounded FIFO: generations are received once, whole
\* and in the order of publication.
THEOREM RouteChannelIsFifo == Spec => ChannelIsFifo
<1>1. Init => Channel!Fifo!FifoInit
    BY FifoInitial DEF Init
<1>2. PublicationInv /\ [Next]_vars => [Channel!Fifo!FifoNext]_(Channel!Fifo!fifoVars)
    BY ChannelStep, FifoStep DEF PublicationInv
<1> QED
    BY <1>1, <1>2, PublicationInvariance, PTL
    DEF Spec, ChannelIsFifo, Channel!ChannelIsFifo, Channel!Fifo!FifoSpec

\* The route manager never refuses a generation as old.
THEOREM NumbersIncrease == Spec => []GenerationsIncrease
<1>1. FlightInv => GenerationsIncrease
    BY DEF FlightInv
<1> QED BY <1>1, PublicationInvariance, PTL

\* An acknowledged publication loses no withdrawal: the routes of a router that
\* is not dirty are installed, or the last ones on their way.
THEOREM AcknowledgementSettles == Spec => []AcknowledgedIsLast
<1>1. FlightInv => AcknowledgedIsLast
    BY DEF FlightInv
<1> QED BY <1>1, PublicationInvariance, PTL
=============================================================================
