------------------------ MODULE OspfAdjacencyProofs ------------------------
(***************************************************************************)
(* What OspfAdjacency promises of each router, for any number of faults,   *)
(* any database and any size of a description.                             *)
(*                                                                         *)
(* Typing needs no hypothesis.  That no request is bad, no turn is         *)
(* rejected, who waits has a timer and a Full router has what was          *)
(* described to it hold for any number of losses and expiries, and for the *)
(* restarts and resets of a router whose description nobody works with     *)
(* (ForgottenUnseen).  Without that hypothesis the branch for a bad        *)
(* request can be taken: it moves the state to ExStart and leaves the      *)
(* lists, the timers and the finish flag of the old exchange.              *)
(***************************************************************************)
EXTENDS OspfAdjacency, FiniteSetTheorems, TLAPS

(***************************************************************************)
(* A process and the packets on its link.  An update holds one instance of *)
(* each of its keys.                                                       *)
(***************************************************************************)
Process ==
  [nb : Neighbor, db : [Keys -> Nat], next : Nat, own : Nat, fight : Nat,
   originate : BOOLEAN, held : BOOLEAN, recent : SUBSET Keys, hello : BOOLEAN]

OnePerKey(lsas) == \A x, y \in lsas : x[1] = y[1] => x = y

HelloPacket == [type : {"hello"}, sees : BOOLEAN]
DescriptionPacket ==
  [type : {"dd"}, init : BOOLEAN, more : BOOLEAN, master : BOOLEAN, seq : Nat,
   headers : SUBSET Lsas]
RequestPacket == [type : {"request"}, keys : SUBSET Keys]
UpdatePacket == [type : {"update"}, lsas : {u \in SUBSET Lsas : OnePerKey(u)}]
AckPacket == [type : {"ack"}, lsas : SUBSET Lsas]
Packet == HelloPacket \union DescriptionPacket \union RequestPacket
          \union UpdatePacket \union AckPacket

(***************************************************************************)
(* What always holds of the process of r: its types, and a retransmission  *)
(* is never newer than the database, which only a reset shrinks.           *)
(***************************************************************************)
Base(r, p) ==
  /\ p \in Process
  /\ p.nb.cursor <= Len(p.nb.summaries)
  /\ OnePerKey(p.nb.retransmissions)
  /\ p.own > p.db[r]
  /\ \A e \in p.nb.retransmissions : p.db[e[1]] >= e[2]
  /\ p.nb.state <= TwoWay => p.nb.retransmissions = {}

(***************************************************************************)
(* What holds of the process of r as long as no request is bad: which      *)
(* timers run in which state, and which lists are empty.                   *)
(***************************************************************************)
Orderly(p) ==
  /\ p.nb.dd # "idle" <=> p.nb.state \in {ExStart, Exchange}
  /\ p.nb.finish => p.nb.state = Exchange
  /\ p.nb.state < Loading => p.nb.request = "idle"
  /\ p.nb.state = Loading => p.nb.requests # {} /\ p.nb.request # "idle"
  /\ p.nb.state = Full => p.nb.requests = {} /\ p.nb.request # "pending"
  /\ p.nb.update = "pending" => p.nb.retransmissions # {}
  /\ p.nb.retransmissions # {} => p.nb.update # "idle"

(***************************************************************************)
(* What the process of r makes of descriptions: its summary list is not    *)
(* newer than its database; of what its neighbour described it has each    *)
(* LSA, or a newer one of its own in hand, or a request open; and it has   *)
(* no request open for anything else.                                      *)
(***************************************************************************)
Has(r, p, x) == p.db[x[1]] >= x[2] \/ (x[1] = r /\ p.fight >= x[2])

Accounted(r, p) ==
  /\ \A i \in 1 .. Len(p.nb.summaries) :
       p.db[p.nb.summaries[i][1]] >= p.nb.summaries[i][2]
  /\ \A k \in p.nb.requests : \E x \in p.nb.described : x[1] = k
  /\ \A x \in p.nb.described : x[1] \in p.nb.requests \/ Has(r, p, x)
  /\ p.nb.state <= TwoWay => p.nb.described = {} /\ p.nb.summaries = <<>>

\* From p to q no LSA is forgotten and no header is added but those of D.
Gains(p, q, D) ==
  /\ \A k \in Keys : q.db[k] >= p.db[k]
  /\ q.nb.described \subseteq p.nb.described \union D

Advances(r, p, q, D) == Gains(p, q, D) /\ (Accounted(r, p) => Accounted(r, q))

\* The instances in lsas are as new as what the neighbour described.
Current(p, lsas) ==
  \A x \in p.nb.described, y \in lsas : y[1] = x[1] => y[2] >= x[2]

\* What a packet describes, brings and asks for.
Headers(packet) == IF packet.type = "dd" THEN packet.headers ELSE {}
Instances(packet) == IF packet.type = "update" THEN packet.lsas ELSE {}
Asked(packet) == IF packet.type = "request" THEN packet.keys ELSE {}

\* The packets that are true to the database b of their sender, and ask for
\* nothing that the database c of their receiver does not have.
TrueTo(b, c) ==
  {packet \in Packet :
     /\ \A x \in Headers(packet) : b[x[1]] >= x[2]
     /\ \A y \in Instances(packet) : y[2] = b[y[1]]
     /\ \A k \in Asked(packet) : c[k] > 0}

\* A request names at least one LSA.
Asking(packet) == packet.type = "request" => packet.keys # {}
AskingPacket == {packet \in Packet : Asking(packet)}

(***************************************************************************)
(* Of the link L to a router with the headers D and the database c, from a *)
(* router with the database b: the sender still has what it described, no  *)
(* update is older than a description that arrived or that goes before it, *)
(* and every request can be answered.                                      *)
(***************************************************************************)
Flow(D, L, b, c) ==
  /\ \A x \in D : b[x[1]] >= x[2]
  /\ \A i \in 1 .. Len(L) :
       /\ \A x \in Headers(L[i]) : b[x[1]] >= x[2]
       /\ \A k \in Asked(L[i]) : c[k] > 0
       /\ \A x \in D, y \in Instances(L[i]) : y[1] = x[1] => y[2] >= x[2]
  /\ \A i, j \in 1 .. Len(L) : i < j =>
       \A x \in Headers(L[i]), y \in Instances(L[j]) : y[1] = x[1] => y[2] >= x[2]

BaseInv ==
  /\ faults \in 0 .. MaxFaults /\ lost \in BOOLEAN
  /\ proc \in [Routers -> Process] /\ link \in [Routers -> Seq(Packet)]
  /\ \A r \in Routers : Base(r, proc[r])

FlowInv ==
  \A r \in Routers :
    /\ Accounted(r, proc[r])
    /\ Flow(proc[r].nb.described, link[r], proc[Other(r)].db, proc[r].db)

Grown(b, f) == \A k \in Keys : f[k] >= b[k]

(***************************************************************************)
(* Nobody works with what r described: its neighbour has no header of it,  *)
(* none is under way, and no request is under way to r.                    *)
(***************************************************************************)
Undescribed(L) == \A i \in 1 .. Len(L) : Headers(L[i]) = {}
Unasked(L) == \A i \in 1 .. Len(L) : Asked(L[i]) = {}

Unused(r) ==
  /\ proc[Other(r)].nb.described = {}
  /\ Undescribed(link[Other(r)]) /\ Unasked(link[r])

\* A router forgets LSAs only when nobody works with what it described.
ForgottenUnseen ==
  \A r \in Routers :
    (\E k \in Keys : proc'[r].db[k] < proc[r].db[k]) => Unused(r)

OrderlyInv ==
  \A r \in Routers : Orderly(proc[r]) /\ link[r] \in Seq(AskingPacket)

-----------------------------------------------------------------------------
(***************************************************************************)
(* The constants, and the summary list.                                    *)
(***************************************************************************)

\* Keys are natural numbers and the two routers are among them.
LEMMA KeyFacts ==
  /\ Routers \subseteq Keys /\ Keys \subseteq Nat /\ IsFiniteSet(Keys)
  /\ Foreign \subseteq Keys /\ Home \in Routers
  /\ \A k \in Foreign : k \notin Routers
  /\ \A r \in Routers : Other(r) \in Routers /\ Other(r) # r
  <1>1. IsFiniteSet({1, 2})
    <2>1. IsFiniteSet({1})
      BY FS_Singleton
    <2>2. IsFiniteSet({1} \union {2})
      BY <2>1, FS_AddElement
    <2>3. {1} \union {2} = {1, 2}
      OBVIOUS
    <2> QED BY <2>2, <2>3
  <1>2. IsFiniteSet(Keys)
    BY <1>1, FS_Union, OspfAdjacencyAssumption DEF Keys, Routers
  <1> QED BY <1>2, OspfAdjacencyAssumption DEF Keys, Routers, Other

\* begin(): the place of a record in the sorted list is the number of records
\* up to it, so every place holds one.
LEMMA SortedPlaces ==
  ASSUME NEW held \in SUBSET Keys,
         NEW i \in 1 .. Cardinality(held)
  PROVE  \E k \in held : Cardinality({j \in held : j <= k}) = i
  <1> DEFINE Upto(k) == {j \in held : j <= k}
             n == Cardinality(held)
             rank == [k \in held |-> Cardinality(Upto(k))]
  <1>1. IsFiniteSet(held) /\ held \subseteq Nat
    BY KeyFacts, FS_Subset
  <1>2. n \in Nat
    BY <1>1, FS_CardinalityType
  <1>3. ASSUME NEW k \in held
        PROVE  IsFiniteSet(Upto(k)) /\ Cardinality(Upto(k)) \in 1 .. n
    <2>1. Upto(k) \in SUBSET held /\ k \in Upto(k)
      BY <1>1
    <2>2. IsFiniteSet(Upto(k)) /\ Cardinality(Upto(k)) <= n
      BY <1>1, <2>1, FS_Subset
    <2>3. Cardinality(Upto(k)) \in Nat /\ Cardinality(Upto(k)) # 0
      BY <2>1, <2>2, FS_CardinalityType, FS_EmptySet
    <2> HIDE DEF Upto, n
    <2> QED BY <1>2, <2>2, <2>3
  <1>4. ASSUME NEW j \in held, NEW k \in held, j < k
        PROVE  Cardinality(Upto(j)) # Cardinality(Upto(k))
    <2>1. Upto(j) \in SUBSET Upto(k) /\ k \in Upto(k) /\ k \notin Upto(j)
      <3>1. j \in Nat /\ k \in Nat /\ held \subseteq Nat
        BY <1>1
      <3>2. \A i0 \in Nat : i0 <= j => i0 <= k
        BY <3>1, <1>4
      <3>3. ~(k <= j) /\ k <= k
        BY <3>1, <1>4
      <3> QED BY <3>1, <3>2, <3>3
    <2>2. IsFiniteSet(Upto(k))
      BY <1>3
    <2> HIDE DEF Upto
    <2> QED BY <2>1, <2>2, FS_Subset
  <1>5. rank \in Injection(held, 1 .. n)
    <2>1. rank \in [held -> 1 .. n]
      BY <1>3
    <2>2. ASSUME NEW j \in held, NEW k \in held, rank[j] = rank[k]
          PROVE  j = k
      <3>1. j \in Nat /\ k \in Nat
        BY <1>1
      <3>2. Cardinality(Upto(j)) = Cardinality(Upto(k))
        BY <2>2
      <3> HIDE DEF Upto
      <3> QED BY <3>1, <3>2, <1>4
    <2> QED BY <2>1, <2>2 DEF Injection, IsInjective
  <1>6. IsFiniteSet(1 .. n) /\ Cardinality(1 .. n) = n
    <2>1. 1 \in Int /\ n \in Int /\ (1 > n => n = 0)
      BY <1>2
    <2> HIDE DEF n
    <2> QED BY <1>2, <2>1, FS_Interval
  <1>7. rank \in Surjection(held, 1 .. n)
    BY <1>5, <1>6, FS_Injection
  <1>8. \E k \in held : rank[k] = i
    BY <1>7 DEF Surjection
  <1> QED BY <1>8

\* begin(): the summary list is a sequence of LSAs, those of the database.
LEMMA SummariesType ==
  ASSUME NEW db \in [Keys -> Nat]
  PROVE  /\ Summaries(db) \in Seq(Lsas)
         /\ \A i \in 1 .. Len(Summaries(db)) :
              db[Summaries(db)[i][1]] >= Summaries(db)[i][2]
  <1> DEFINE held == {k \in Keys : db[k] > 0}
             At(i) == CHOOSE k \in held : Cardinality({j \in held : j <= k}) = i
  <1>1. Cardinality(held) \in Nat
    BY KeyFacts, FS_Subset, FS_CardinalityType
  <1>2. ASSUME NEW i \in 1 .. Cardinality(held)
        PROVE  <<At(i), db[At(i)]>> \in Lsas
    <2>1. \E k \in held : Cardinality({j \in held : j <= k}) = i
      BY SortedPlaces
    <2>2. At(i) \in held
      BY <2>1
    <2>3. At(i) \in Keys /\ db[At(i)] \in Nat \ {0}
      BY <2>2
    <2> HIDE DEF At
    <2> QED BY <2>3 DEF Lsas, Generation
  <1>3. Summaries(db) = [i \in 1 .. Cardinality(held) |-> <<At(i), db[At(i)]>>]
    BY DEF Summaries
  <1> HIDE DEF held, At
  <1>4. Summaries(db) \in Seq(Lsas) /\ Len(Summaries(db)) = Cardinality(held)
    BY <1>1, <1>2, <1>3
  <1>5. ASSUME NEW i \in 1 .. Cardinality(held)
        PROVE  db[Summaries(db)[i][1]] >= Summaries(db)[i][2]
    <2>1. Summaries(db)[i] = <<At(i), db[At(i)]>>
      BY <1>3
    <2>2. At(i) \in Keys
      BY <1>2 DEF Lsas
    <2> QED BY <2>1, <2>2
  <1> QED BY <1>4, <1>5

-----------------------------------------------------------------------------
(***************************************************************************)
(* The neighbour state machine.                                            *)
(***************************************************************************)

\* neighbor_transition(): every event leads to a state; a new exchange begins
\* in ExStart, and only a reset leads back below it.
LEMMA TransitionType ==
  ASSUME NEW s \in Down .. Full, NEW event, NEW b \in BOOLEAN
  PROVE  LET t == NeighborTransition(s, event, b) IN
         /\ t \in [state : Down .. Full, clear : BOOLEAN, begin : BOOLEAN]
         /\ t.begin => t.state = ExStart
         /\ t.state <= TwoWay => t.clear \/ s <= TwoWay
  BY DEF NeighborTransition, Down, InitState, TwoWay, ExStart, Exchange, Loading, Full

\* The lists and flags of an adjacency that was cleared.
Emptied(nb) ==
  /\ nb.cursor = 0 /\ nb.finish = FALSE
  /\ nb.requests = {} /\ nb.request = "idle" /\ nb.described = {}
  /\ nb.retransmissions = {} /\ nb.update = "idle"

\* The fields of a process after an event.
LEMMA ApplyFields ==
  ASSUME NEW p \in Process, NEW event
  PROVE  LET t == NeighborTransition(p.nb.state, event, p.nb.requests # {})
             q == Apply(p, event) IN
         /\ q \in Process
         /\ q.db = p.db /\ q.own = p.own /\ q.fight = p.fight
         /\ q.nb.state = t.state
         /\ t.begin => q.nb.dd = "pending" /\ q.nb.summaries = Summaries(p.db)
         /\ ~t.begin /\ t.clear => q.nb.dd = "idle" /\ q.nb.summaries = <<>>
         /\ t.begin \/ t.clear => Emptied(q.nb)
         /\ ~t.begin /\ ~t.clear => q.nb = [p.nb EXCEPT !.state = t.state]
  <1> DEFINE t == NeighborTransition(p.nb.state, event, p.nb.requests # {})
             q == Apply(p, event)
  <1>1. p.nb \in Neighbor /\ p.db \in [Keys -> Nat]
    BY DEF Process
  <1>2. t \in [state : Down .. Full, clear : BOOLEAN, begin : BOOLEAN]
    BY <1>1, TransitionType DEF Neighbor
  <1>3. Summaries(p.db) \in Seq(Lsas)
    BY <1>1, SummariesType
  <1>4. NoNeighbor \in Neighbor
    BY DEF NoNeighbor, Neighbor, Down, Full, Timer, Lsas, Generation
  <1>5. q = [p EXCEPT
        !.originate = @ \/ t.clear,
        !.next = IF t.begin THEN @ + 1 ELSE @,
        !.nb = IF t.begin
                 THEN [NoNeighbor EXCEPT !.state = t.state,
                                         !.seq = p.next + 1,
                                         !.dd = "pending",
                                         !.summaries = Summaries(p.db)]
                 ELSE [(IF t.clear THEN NoNeighbor ELSE p.nb) EXCEPT !.state = t.state]]
    BY DEF Apply
  <1> DEFINE N == IF t.begin
                 THEN [NoNeighbor EXCEPT !.state = t.state,
                                         !.seq = p.next + 1,
                                         !.dd = "pending",
                                         !.summaries = Summaries(p.db)]
                 ELSE [(IF t.clear THEN NoNeighbor ELSE p.nb) EXCEPT !.state = t.state]
  <1> HIDE DEF t, q
  <1>6. N \in Neighbor /\ N.state = t.state
    <2>0. p.next + 1 \in Nat /\ "pending" \in Timer /\ t.state \in Down .. Full
      BY <1>2 DEF Process, Timer
    <2>1. CASE t.begin
      BY <1>3, <1>4, <2>0, <2>1 DEF Neighbor
    <2>2. CASE ~t.begin /\ t.clear
      BY <1>4, <2>0, <2>2 DEF Neighbor
    <2>3. CASE ~t.begin /\ ~t.clear
      BY <1>1, <2>0, <2>3 DEF Neighbor
    <2> QED BY <1>2, <2>1, <2>2, <2>3
  <1> DEFINE o == p.originate \/ t.clear
             x == IF t.begin THEN p.next + 1 ELSE p.next
  <1>7. q = [p EXCEPT !.originate = o, !.next = x, !.nb = N]
    BY <1>5
  <1>9. o \in BOOLEAN /\ x \in Nat
    BY <1>2 DEF Process
  <1> HIDE DEF N, o, x
  <1>8. q \in Process /\ q.nb = N /\ q.db = p.db /\ q.own = p.own /\ q.fight = p.fight
    BY <1>6, <1>7, <1>9 DEF Process
  <1>10. /\ NoNeighbor.dd = "idle" /\ NoNeighbor.summaries = <<>>
         /\ Emptied(NoNeighbor)
    BY DEF NoNeighbor, Emptied
  <1>11. t.begin => N.dd = "pending" /\ N.summaries = Summaries(p.db) /\ Emptied(N)
    BY <1>4, <1>10 DEF N, Neighbor, Emptied
  <1>12. ~t.begin /\ t.clear => N.dd = "idle" /\ N.summaries = <<>> /\ Emptied(N)
    BY <1>4, <1>10 DEF N, Neighbor, Emptied
  <1>13. ~t.begin /\ ~t.clear => N = [p.nb EXCEPT !.state = t.state]
    BY DEF N
  <1> QED BY <1>2, <1>6, <1>8, <1>11, <1>12, <1>13 DEF t, q

\* A step that leaves the database alone and adds no retransmission.
LEMMA BaseStep ==
  ASSUME NEW r \in Routers, NEW p, NEW q, Base(r, p), q \in Process,
         q.db = p.db, q.own = p.own,
         q.nb.cursor <= Len(q.nb.summaries),
         q.nb.retransmissions \subseteq p.nb.retransmissions,
         q.nb.state <= TwoWay => q.nb.retransmissions = {}
  PROVE  Base(r, q)
  BY DEF Base, OnePerKey

\* A step that keeps the lists of the exchange; a fight-back may be over.
LEMMA AdvanceGrown ==
  ASSUME NEW r \in Routers, NEW p \in Process, NEW q \in Process,
         \A k \in Keys : q.db[k] >= p.db[k],
         q.fight = p.fight \/ q.db[r] >= p.fight,
         q.nb.summaries = p.nb.summaries,
         q.nb.described = p.nb.described, q.nb.requests = p.nb.requests,
         q.nb.state <= TwoWay => p.nb.state <= TwoWay
  PROVE  Advances(r, p, q, {})
  <1>1. /\ p.nb \in Neighbor /\ p.db \in [Keys -> Nat] /\ q.db \in [Keys -> Nat]
        /\ p.fight \in Nat
    BY DEF Process
  <1>2. ASSUME NEW x \in Lsas, p.db[x[1]] >= x[2] PROVE q.db[x[1]] >= x[2]
    <2>1. x[1] \in Keys /\ x[2] \in Nat
      BY DEF Lsas, Generation
    <2>2. p.db[x[1]] \in Nat /\ q.db[x[1]] \in Nat /\ q.db[x[1]] >= p.db[x[1]]
      BY <1>1, <2>1
    <2> QED BY <1>2, <2>1, <2>2
  <1>3. p.nb.summaries \in Seq(Lsas) /\ p.nb.described \in SUBSET Lsas
    BY <1>1 DEF Neighbor
  <1>4. ASSUME Accounted(r, p) PROVE Accounted(r, q)
    <2>1. ASSUME NEW i \in 1 .. Len(q.nb.summaries)
          PROVE  q.db[q.nb.summaries[i][1]] >= q.nb.summaries[i][2]
      <3>1. p.nb.summaries[i] \in Lsas
        BY <1>3
      <3>2. p.db[p.nb.summaries[i][1]] >= p.nb.summaries[i][2]
        BY <1>4 DEF Accounted
      <3> QED BY <1>2, <3>1, <3>2
    <2>2. ASSUME NEW x \in q.nb.described
          PROVE  x[1] \in q.nb.requests \/ Has(r, q, x)
      <3>1. x \in Lsas /\ x \in p.nb.described
        BY <1>3
      <3>2. x[2] \in Nat /\ q.db[r] \in Nat
        BY <1>1, <3>1, KeyFacts DEF Lsas, Generation
      <3>3. CASE p.db[x[1]] >= x[2]
        BY <1>2, <3>1, <3>3 DEF Has
      <3>4. CASE x[1] = r /\ p.fight >= x[2]
        BY <1>1, <3>2, <3>4 DEF Has
      <3> QED BY <1>4, <3>1, <3>3, <3>4 DEF Accounted, Has
    <2> QED BY <1>4, <2>1, <2>2 DEF Accounted
  <1> QED BY <1>4 DEF Advances, Gains

\* The same when the database does not change.
LEMMA AdvanceSame ==
  ASSUME NEW r \in Routers, NEW p \in Process, NEW q \in Process,
         q.db = p.db, q.fight = p.fight,
         q.nb.summaries = p.nb.summaries,
         q.nb.described = p.nb.described, q.nb.requests = p.nb.requests,
         q.nb.state <= TwoWay => p.nb.state <= TwoWay
  PROVE  Advances(r, p, q, {})
  <1>1. \A k \in Keys : q.db[k] >= p.db[k]
    BY DEF Process
  <1> QED BY <1>1, AdvanceGrown

\* A step that empties the lists, with or without a new summary list.
LEMMA AdvanceEmptied ==
  ASSUME NEW r \in Routers, NEW p \in Process, NEW q \in Process,
         q.db = p.db, Emptied(q.nb),
         q.nb.summaries = <<>> \/ q.nb.summaries = Summaries(p.db),
         q.nb.state <= TwoWay => q.nb.summaries = <<>>
  PROVE  Advances(r, p, q, {})
  <1>1. p.db \in [Keys -> Nat]
    BY DEF Process
  <1>2. \A k \in Keys : q.db[k] >= p.db[k]
    BY <1>1
  <1>3. \A i \in 1 .. Len(q.nb.summaries) :
          q.db[q.nb.summaries[i][1]] >= q.nb.summaries[i][2]
    BY <1>1, SummariesType
  <1>4. q.nb.requests = {} /\ q.nb.described = {}
    BY DEF Emptied
  <1> QED BY <1>2, <1>3, <1>4 DEF Advances, Gains, Accounted

\* Two steps, one after the other.
LEMMA AdvanceTwice ==
  ASSUME NEW r \in Routers, NEW p \in Process, NEW a \in Process, NEW q \in Process,
         NEW C, NEW D, Advances(r, p, a, {}), Advances(r, a, q, C), C \subseteq D
  PROVE  Advances(r, p, q, D)
  <1>1. ASSUME NEW k \in Keys PROVE q.db[k] >= p.db[k]
    <2>1. p.db[k] \in Nat /\ a.db[k] \in Nat /\ q.db[k] \in Nat
      BY DEF Process
    <2>2. a.db[k] >= p.db[k] /\ q.db[k] >= a.db[k]
      BY DEF Advances, Gains
    <2> QED BY <2>1, <2>2
  <1>2. q.nb.described \subseteq p.nb.described \union D
    BY DEF Advances, Gains
  <1> QED BY <1>1, <1>2 DEF Advances, Gains

\* The step that adds headers may also come first.
LEMMA AdvanceAfter ==
  ASSUME NEW r \in Routers, NEW p \in Process, NEW a \in Process, NEW q \in Process,
         NEW D, Advances(r, p, a, D), Advances(r, a, q, {})
  PROVE  Advances(r, p, q, D)
  <1>1. ASSUME NEW k \in Keys PROVE q.db[k] >= p.db[k]
    <2>1. p.db[k] \in Nat /\ a.db[k] \in Nat /\ q.db[k] \in Nat
      BY DEF Process
    <2>2. a.db[k] >= p.db[k] /\ q.db[k] >= a.db[k]
      BY DEF Advances, Gains
    <2> QED BY <2>1, <2>2
  <1>2. q.nb.described \subseteq p.nb.described \union D
    BY DEF Advances, Gains
  <1> QED BY <1>1, <1>2 DEF Advances, Gains

\* A handler may ignore its packet.
LEMMA AdvanceNot ==
  ASSUME NEW r \in Routers, NEW p \in Process, NEW D
  PROVE  Advances(r, p, p, D)
  <1>1. \A k \in Keys : p.db[k] >= p.db[k]
    BY DEF Process
  <1> QED BY <1>1 DEF Advances, Gains

\* apply_neighbor_actions(): any event keeps Base, and the account.
LEMMA ApplyBase ==
  ASSUME NEW r \in Routers, NEW p, NEW event, Base(r, p)
  PROVE  Base(r, Apply(p, event)) /\ Advances(r, p, Apply(p, event), {})
  <1> DEFINE t == NeighborTransition(p.nb.state, event, p.nb.requests # {})
             q == Apply(p, event)
  <1>1. p \in Process /\ p.nb \in Neighbor /\ p.db \in [Keys -> Nat]
    BY DEF Base, Process
  <1>2. /\ t \in [state : Down .. Full, clear : BOOLEAN, begin : BOOLEAN]
        /\ t.begin => t.state = ExStart
        /\ t.state <= TwoWay => t.clear \/ p.nb.state <= TwoWay
    BY <1>1, TransitionType DEF Neighbor
  <1>3. Summaries(p.db) \in Seq(Lsas)
    BY <1>1, SummariesType
  <1>4. /\ q \in Process /\ q.db = p.db /\ q.own = p.own /\ q.fight = p.fight
        /\ q.nb.state = t.state
        /\ t.begin => q.nb.dd = "pending" /\ q.nb.summaries = Summaries(p.db)
        /\ ~t.begin /\ t.clear => q.nb.dd = "idle" /\ q.nb.summaries = <<>>
        /\ t.begin \/ t.clear => Emptied(q.nb)
        /\ ~t.begin /\ ~t.clear => q.nb = [p.nb EXCEPT !.state = t.state]
    BY <1>1, ApplyFields
  <1> HIDE DEF t, q
  <1>5. q.nb.cursor <= Len(q.nb.summaries) /\ q.nb.retransmissions \subseteq p.nb.retransmissions
    <2>1. CASE t.begin
      BY <1>3, <1>4, <2>1 DEF Emptied
    <2>2. CASE ~t.begin /\ t.clear
      BY <1>4, <2>2 DEF Emptied
    <2>3. CASE ~t.begin /\ ~t.clear
      BY <1>1, <1>4, <2>3 DEF Base, Neighbor
    <2> QED BY <1>2, <2>1, <2>2, <2>3
  <1>6. q.nb.state <= TwoWay => q.nb.retransmissions = {}
    <2>1. CASE t.begin \/ t.clear
      BY <1>2, <1>4, <2>1 DEF Emptied
    <2>2. CASE ~t.begin /\ ~t.clear
      BY <1>1, <1>2, <1>4, <2>2 DEF Base, Neighbor
    <2> QED BY <1>2, <2>1, <2>2
  <1>7. Base(r, q)
    BY <1>4, <1>5, <1>6, BaseStep
  <1>8. Advances(r, p, q, {})
    <2>1. CASE t.begin
      BY <1>1, <1>2, <1>4, <2>1, AdvanceEmptied DEF ExStart, TwoWay
    <2>2. CASE ~t.begin /\ t.clear
      BY <1>1, <1>4, <2>2, AdvanceEmptied
    <2>3. CASE ~t.begin /\ ~t.clear
      <3>1. /\ q.nb.summaries = p.nb.summaries /\ q.nb.described = p.nb.described
            /\ q.nb.requests = p.nb.requests
        BY <1>1, <1>4, <2>3 DEF Neighbor
      <3>2. q.nb.state <= TwoWay => p.nb.state <= TwoWay
        BY <1>2, <1>4, <2>3
      <3> QED BY <1>1, <1>4, <3>1, <3>2, AdvanceSame
    <2> QED BY <1>2, <2>1, <2>2, <2>3
  <1> QED BY <1>7, <1>8 DEF q

\* The events that end or begin an exchange leave no timer of the old one.
Restarting == {"inactivity_timer", "hello_received", "one_way_received",
               "two_way_received", "sequence_number_mismatch"}

\* After such an event the timers agree with the new state.
LEMMA ApplyOrderly ==
  ASSUME NEW p \in Process, Orderly(p), NEW event \in Restarting
  PROVE  Orderly(Apply(p, event))
  <1> DEFINE t == NeighborTransition(p.nb.state, event, p.nb.requests # {})
             q == Apply(p, event)
  <1> SUFFICES Orderly(q)
    OBVIOUS
  <1>1. p.nb \in Neighbor
    BY DEF Process
  <1>2. /\ t \in [state : Down .. Full, clear : BOOLEAN, begin : BOOLEAN]
        /\ t.begin => t.state = ExStart
    BY <1>1, TransitionType DEF Neighbor
  <1>3. /\ t.clear /\ ~t.begin => t.state <= InitState
        /\ ~t.clear /\ ~t.begin => t.state = p.nb.state \/ (p.nb.state = Down /\ t.state = InitState)
    BY <1>1 DEF Restarting, NeighborTransition, Neighbor, Down, InitState, TwoWay, ExStart,
                Exchange, Loading, Full
  <1>4. /\ q.nb.state = t.state
        /\ t.begin => q.nb.dd = "pending" /\ q.nb.summaries = Summaries(p.db)
        /\ ~t.begin /\ t.clear => q.nb.dd = "idle" /\ q.nb.summaries = <<>>
        /\ t.begin \/ t.clear => Emptied(q.nb)
        /\ ~t.begin /\ ~t.clear => q.nb = [p.nb EXCEPT !.state = t.state]
    BY ApplyFields
  <1> HIDE DEF t, q
  <1>5. CASE t.begin
    <2>1. /\ q.nb.state = ExStart /\ q.nb.dd = "pending" /\ q.nb.finish = FALSE
          /\ q.nb.requests = {} /\ q.nb.request = "idle"
          /\ q.nb.retransmissions = {} /\ q.nb.update = "idle"
      BY <1>2, <1>4, <1>5 DEF Emptied
    <2> QED BY <2>1 DEF Orderly, ExStart, Exchange, Loading, Full
  <1>6. CASE ~t.begin /\ t.clear
    <2>1. /\ q.nb.state \in {Down, InitState} /\ q.nb.dd = "idle" /\ q.nb.finish = FALSE
          /\ q.nb.requests = {} /\ q.nb.request = "idle"
          /\ q.nb.retransmissions = {} /\ q.nb.update = "idle"
      BY <1>2, <1>3, <1>4, <1>6 DEF Emptied, Down, InitState, Full
    <2> QED BY <2>1 DEF Orderly, Down, InitState, ExStart, Exchange, Loading, Full
  <1>7. CASE ~t.begin /\ ~t.clear
    <2>1. /\ q.nb.dd = p.nb.dd /\ q.nb.finish = p.nb.finish
          /\ q.nb.requests = p.nb.requests /\ q.nb.request = p.nb.request
          /\ q.nb.retransmissions = p.nb.retransmissions /\ q.nb.update = p.nb.update
      BY <1>1, <1>4, <1>7 DEF Neighbor
    <2>2. CASE t.state = p.nb.state
      BY <1>4, <2>1, <2>2 DEF Orderly
    <2>3. CASE p.nb.state = Down /\ t.state = InitState
      BY <1>4, <2>1, <2>3 DEF Orderly, Down, InitState, ExStart, Exchange, Loading, Full
    <2> QED BY <1>3, <1>7, <2>2, <2>3
  <1> QED BY <1>2, <1>5, <1>6, <1>7

\* NegotiationDone and ExchangeDone only move the state.
LEMMA ApplyForward ==
  ASSUME NEW p \in Process,
         NEW event \in {"negotiation_done", "exchange_done", "loading_done"}
  PROVE  LET q == Apply(p, event) IN
         /\ q \in Process
         /\ q.db = p.db /\ q.own = p.own /\ q.fight = p.fight
         /\ q.nb = [p.nb EXCEPT !.state = q.nb.state]
         /\ q.nb.state =
              CASE event = "negotiation_done" /\ p.nb.state = ExStart -> Exchange
                [] event = "exchange_done" /\ p.nb.state = Exchange ->
                     IF p.nb.requests # {} THEN Loading ELSE Full
                [] event = "loading_done" /\ p.nb.state = Loading -> Full
                [] OTHER -> p.nb.state
  <1> DEFINE t == NeighborTransition(p.nb.state, event, p.nb.requests # {})
  <1>1. p.nb.state \in Down .. Full
    BY DEF Process, Neighbor
  <1>2. /\ t.clear = FALSE /\ t.begin = FALSE
        /\ t.state =
              CASE event = "negotiation_done" /\ p.nb.state = ExStart -> Exchange
                [] event = "exchange_done" /\ p.nb.state = Exchange ->
                     IF p.nb.requests # {} THEN Loading ELSE Full
                [] event = "loading_done" /\ p.nb.state = Loading -> Full
                [] OTHER -> p.nb.state
    BY <1>1 DEF NeighborTransition, Down, InitState, TwoWay, ExStart, Exchange, Loading, Full
  <1> HIDE DEF t
  <1>3. /\ Apply(p, event) \in Process
        /\ Apply(p, event).db = p.db /\ Apply(p, event).own = p.own
        /\ Apply(p, event).fight = p.fight
        /\ Apply(p, event).nb.state = t.state
        /\ ~t.begin /\ ~t.clear => Apply(p, event).nb = [p.nb EXCEPT !.state = t.state]
    BY ApplyFields DEF t
  <1> QED BY <1>2, <1>3

-----------------------------------------------------------------------------
(***************************************************************************)
(* Receiving.                                                              *)
(***************************************************************************)

\* A hello: its two events, one after the other.
LEMMA HelloKeeps ==
  ASSUME NEW r \in Routers, NEW p, Base(r, p), NEW packet \in HelloPacket
  PROVE  /\ Base(r, ReceiveHello(p, packet))
         /\ Orderly(p) => Orderly(ReceiveHello(p, packet))
         /\ Advances(r, p, ReceiveHello(p, packet), {})
  <1> DEFINE q == Apply(p, "hello_received")
             event == IF packet.sees THEN "two_way_received" ELSE "one_way_received"
  <1>1. Base(r, q) /\ q \in Process /\ p \in Process
    BY ApplyBase DEF Base
  <1>2. Orderly(p) => Orderly(q)
    BY <1>1, ApplyOrderly DEF Restarting
  <1>3. event \in Restarting
    BY DEF Restarting
  <1> HIDE DEF q, event
  <1>4. Base(r, Apply(q, event)) /\ (Orderly(p) => Orderly(Apply(q, event)))
    BY <1>1, <1>2, <1>3, ApplyBase, ApplyOrderly
  <1>5. Advances(r, p, q, {}) /\ Advances(r, q, Apply(q, event), {})
    BY <1>1, ApplyBase DEF q
  <1>6. Apply(q, event) \in Process
    BY <1>4 DEF Base
  <1>7. Advances(r, p, Apply(q, event), {})
    BY <1>1, <1>5, <1>6, AdvanceTwice
  <1> QED BY <1>4, <1>7 DEF ReceiveHello, q, event

\* process_database_description() touches only the requests: what is newer than
\* in the database is requested.
LEMMA ProcessFields ==
  ASSUME NEW p \in Process, NEW headers \in SUBSET Lsas
  PROVE  LET q == ProcessDescription(p, headers) IN
         /\ q \in Process
         /\ q.db = p.db /\ q.own = p.own /\ q.fight = p.fight
         /\ q.nb = [p.nb EXCEPT !.requests = q.nb.requests,
                                !.described = q.nb.described]
         /\ q.nb.requests = p.nb.requests \union
                              {h[1] : h \in {x \in headers : x[2] > p.db[x[1]]}}
         /\ q.nb.described = p.nb.described \union headers
  <1> DEFINE R == p.nb.requests \union
                    {h[1] : h \in {x \in headers : x[2] > p.db[x[1]]}}
             D == p.nb.described \union headers
             q == ProcessDescription(p, headers)
  <1>1. p.nb \in Neighbor
    BY DEF Process
  <1>2. R \in SUBSET Keys /\ D \in SUBSET Lsas
    BY <1>1 DEF Neighbor, Lsas
  <1>3. q = [p EXCEPT !.nb = [p.nb EXCEPT !.requests = R, !.described = D]]
    BY <1>1 DEF ProcessDescription, Process, Neighbor
  <1> HIDE DEF R, D, q
  <1>4. q.nb = [p.nb EXCEPT !.requests = R, !.described = D]
    BY <1>3 DEF Process
  <1>5. q.nb \in Neighbor /\ q.nb.requests = R /\ q.nb.described = D
    BY <1>1, <1>2, <1>4 DEF Neighbor
  <1>6. q \in Process /\ q.db = p.db /\ q.own = p.own /\ q.fight = p.fight
    BY <1>3, <1>4, <1>5 DEF Process
  <1> QED BY <1>4, <1>5, <1>6 DEF q, R, D

\* So each header is accounted for.
LEMMA ProcessAdvances ==
  ASSUME NEW r \in Routers, NEW p \in Process, NEW headers \in SUBSET Lsas,
         p.nb.state > TwoWay
  PROVE  Advances(r, p, ProcessDescription(p, headers), headers)
  <1> DEFINE q == ProcessDescription(p, headers)
             fresh == {x \in headers : x[2] > p.db[x[1]]}
  <1>1. /\ q \in Process /\ q.db = p.db /\ q.fight = p.fight
        /\ q.nb = [p.nb EXCEPT !.requests = q.nb.requests, !.described = q.nb.described]
        /\ q.nb.requests = p.nb.requests \union {h[1] : h \in fresh}
        /\ q.nb.described = p.nb.described \union headers
    BY ProcessFields
  <1> HIDE DEF q
  <1>2. p.nb \in Neighbor /\ p.db \in [Keys -> Nat]
    BY DEF Process
  <1>3. q.nb.summaries = p.nb.summaries /\ q.nb.state = p.nb.state
    BY <1>1, <1>2 DEF Neighbor
  <1>4. ~(q.nb.state <= TwoWay)
    <2>1. p.nb.state \in Down .. Full
      BY <1>2 DEF Neighbor
    <2> QED BY <1>3, <2>1 DEF Down, Full, TwoWay
  <1>5. ASSUME NEW x \in headers PROVE x[1] \in q.nb.requests \/ Has(r, q, x)
    <2>1. x[1] \in Keys /\ x[2] \in Nat /\ p.db[x[1]] \in Nat
      BY <1>2 DEF Lsas, Generation
    <2>2. CASE x[2] > p.db[x[1]]
      BY <1>1, <2>2
    <2>3. CASE p.db[x[1]] >= x[2]
      BY <1>1, <2>3 DEF Has
    <2> QED BY <2>1, <2>2, <2>3
  <1>6. ASSUME Accounted(r, p) PROVE Accounted(r, q)
    <2>1. ASSUME NEW k \in q.nb.requests PROVE \E x \in q.nb.described : x[1] = k
      <3>1. CASE k \in p.nb.requests
        <4>1. PICK x \in p.nb.described : x[1] = k
          BY <1>6, <3>1 DEF Accounted
        <4> QED BY <1>1, <4>1
      <3>2. CASE k \in {h[1] : h \in fresh}
        BY <1>1, <3>2
      <3> QED BY <1>1, <3>1, <3>2
    <2>2. ASSUME NEW x \in q.nb.described PROVE x[1] \in q.nb.requests \/ Has(r, q, x)
      <3>1. CASE x \in headers
        BY <1>5, <3>1
      <3>2. CASE x \in p.nb.described
        <4>1. x[1] \in p.nb.requests \/ Has(r, p, x)
          BY <1>6, <3>2 DEF Accounted
        <4>2. Has(r, p, x) => Has(r, q, x)
          BY <1>1 DEF Has
        <4> QED BY <1>1, <4>1, <4>2
      <3> QED BY <1>1, <3>1, <3>2
    <2>3. \A i \in 1 .. Len(q.nb.summaries) :
            q.db[q.nb.summaries[i][1]] >= q.nb.summaries[i][2]
      BY <1>1, <1>3, <1>6 DEF Accounted
    <2> QED BY <1>4, <2>1, <2>2, <2>3 DEF Accounted
  <1>7. \A k \in Keys : q.db[k] >= p.db[k]
    BY <1>1, <1>2
  <1> QED BY <1>1, <1>6, <1>7 DEF Advances, Gains, q

\* ExchangeDone leaves Exchange, with a request due if one is open.
LEMMA ExchangeDoneFields ==
  ASSUME NEW p \in Process, NEW otherwise \in Timer
  PROVE  LET q == ExchangeDone(p, otherwise) IN
         /\ q \in Process
         /\ q.db = p.db /\ q.own = p.own /\ q.fight = p.fight
         /\ q.nb.dd = "idle" /\ q.nb.finish = FALSE
         /\ q.nb.cursor = p.nb.cursor /\ q.nb.summaries = p.nb.summaries
         /\ q.nb.retransmissions = p.nb.retransmissions
         /\ q.nb.update = p.nb.update /\ q.nb.requests = p.nb.requests
         /\ q.nb.acks = p.nb.acks /\ q.nb.described = p.nb.described
         /\ q.nb.state = IF p.nb.state = Exchange
                           THEN IF p.nb.requests # {} THEN Loading ELSE Full
                           ELSE p.nb.state
         /\ q.nb.request = IF q.nb.state = Loading THEN "pending" ELSE otherwise
  <1> DEFINE a == Apply(p, "exchange_done")
             q == ExchangeDone(p, otherwise)
             req == IF a.nb.state = Loading THEN "pending" ELSE otherwise
             o == a.originate \/ a.nb.state = Full
  <1>1. /\ a \in Process
        /\ a.db = p.db /\ a.own = p.own /\ a.fight = p.fight
        /\ a.nb = [p.nb EXCEPT !.state = a.nb.state]
        /\ a.nb.state = IF p.nb.state = Exchange
                          THEN IF p.nb.requests # {} THEN Loading ELSE Full
                          ELSE p.nb.state
    BY ApplyForward
  <1> HIDE DEF a
  <1>2. req \in Timer /\ o \in BOOLEAN
    BY DEF Timer
  <1>3. a.nb \in Neighbor /\ p.nb \in Neighbor
    BY <1>1 DEF Process
  <1>4. q = [a EXCEPT !.nb = [a.nb EXCEPT !.dd = "idle", !.finish = FALSE, !.request = req],
                      !.originate = o]
    BY <1>1, <1>3 DEF ExchangeDone, a, Process, Neighbor
  <1> HIDE DEF q, o
  <1>5. q.nb = [a.nb EXCEPT !.dd = "idle", !.finish = FALSE, !.request = req]
    BY <1>1, <1>4 DEF Process
  <1> HIDE DEF req
  <1>6. /\ q.nb \in Neighbor /\ q.nb.state = a.nb.state /\ q.nb.request = req
        /\ q.nb.dd = "idle" /\ q.nb.finish = FALSE
        /\ q.nb.cursor = a.nb.cursor /\ q.nb.summaries = a.nb.summaries
        /\ q.nb.retransmissions = a.nb.retransmissions
        /\ q.nb.update = a.nb.update /\ q.nb.requests = a.nb.requests
        /\ q.nb.acks = a.nb.acks /\ q.nb.described = a.nb.described
    BY <1>2, <1>3, <1>5 DEF Neighbor, Timer
  <1>7. /\ a.nb.cursor = p.nb.cursor /\ a.nb.summaries = p.nb.summaries
        /\ a.nb.retransmissions = p.nb.retransmissions
        /\ a.nb.update = p.nb.update /\ a.nb.requests = p.nb.requests
        /\ a.nb.acks = p.nb.acks /\ a.nb.described = p.nb.described
    BY <1>1, <1>3 DEF Neighbor
  <1>8. q \in Process /\ q.db = a.db /\ q.own = a.own /\ q.fight = a.fight
    BY <1>1, <1>2, <1>4, <1>6 DEF Process
  <1> QED BY <1>1, <1>6, <1>7, <1>8 DEF req, q

\* The negotiation: a description is ignored or settles master and slave.
LEMMA ExStartKeeps ==
  ASSUME NEW r \in Routers, NEW p, Base(r, p), NEW d \in DescriptionPacket,
         p.nb.state = ExStart
  PROVE  /\ Base(r, DescriptionInExStart(r, p, d))
         /\ Orderly(p) => Orderly(DescriptionInExStart(r, p, d))
         /\ Advances(r, p, DescriptionInExStart(r, p, d), d.headers)
  <1> DEFINE a == Apply(p, "negotiation_done")
             b == ProcessDescription(a, d.headers)
             slave == d.init /\ d.more /\ d.master /\ d.headers = {} /\ Other(r) > r
             n == IF slave THEN d.seq ELSE b.nb.seq + 1
             q == [b EXCEPT !.nb.negotiated = TRUE, !.nb.dd = "pending", !.nb.seq = n]
  <1>1. p \in Process /\ p.nb \in Neighbor
    BY DEF Base, Process
  <1>2. /\ a \in Process /\ a.db = p.db /\ a.own = p.own
        /\ a.nb = [p.nb EXCEPT !.state = Exchange]
    BY <1>1, ApplyForward
  <1>17. Advances(r, p, a, {})
    BY ApplyBase
  <1>3. d.headers \in SUBSET Lsas /\ d.seq \in Nat
    BY DEF DescriptionPacket
  <1> HIDE DEF a
  <1>4. /\ b \in Process /\ b.db = p.db /\ b.own = p.own
        /\ b.nb = [a.nb EXCEPT !.requests = b.nb.requests, !.described = b.nb.described]
    BY <1>2, <1>3, ProcessFields
  <1> HIDE DEF b
  <1>5. b.nb \in Neighbor /\ n \in Nat
    BY <1>3, <1>4 DEF Process, Neighbor
  <1> HIDE DEF n
  <1>13. q = [b EXCEPT !.nb = [b.nb EXCEPT !.negotiated = TRUE, !.dd = "pending", !.seq = n]]
    BY <1>4, <1>5 DEF Process, Neighbor
  <1> HIDE DEF q
  <1>6. q.nb = [b.nb EXCEPT !.negotiated = TRUE, !.dd = "pending", !.seq = n]
    BY <1>4, <1>13 DEF Process
  <1>7. q.nb \in Neighbor
    BY <1>5, <1>6 DEF Neighbor, Timer
  <1>8. q \in Process /\ q.db = p.db /\ q.own = p.own
    BY <1>4, <1>6, <1>7, <1>13 DEF Process
  <1>14. a.nb \in Neighbor
    BY <1>2 DEF Process
  <1>15. /\ a.nb.state = Exchange /\ a.nb.finish = p.nb.finish
         /\ a.nb.cursor = p.nb.cursor /\ a.nb.summaries = p.nb.summaries
         /\ a.nb.retransmissions = p.nb.retransmissions
         /\ a.nb.update = p.nb.update /\ a.nb.request = p.nb.request
    BY <1>1, <1>2 DEF Neighbor
  <1>16. /\ b.nb.state = Exchange /\ b.nb.finish = p.nb.finish
         /\ b.nb.cursor = p.nb.cursor /\ b.nb.summaries = p.nb.summaries
         /\ b.nb.retransmissions = p.nb.retransmissions
         /\ b.nb.update = p.nb.update /\ b.nb.request = p.nb.request
    BY <1>4, <1>14, <1>15 DEF Neighbor
  <1>9. /\ q.nb.state = Exchange /\ q.nb.dd = "pending" /\ q.nb.finish = p.nb.finish
        /\ q.nb.cursor = p.nb.cursor /\ q.nb.summaries = p.nb.summaries
        /\ q.nb.retransmissions = p.nb.retransmissions
        /\ q.nb.update = p.nb.update /\ q.nb.request = p.nb.request
    BY <1>5, <1>6, <1>16 DEF Neighbor
  <1>10. Base(r, q)
    BY <1>8, <1>9, BaseStep DEF Base, Exchange, TwoWay
  <1>11. Orderly(p) => Orderly(q)
    BY <1>9 DEF Orderly, ExStart, Exchange, Loading, Full
  <1>12. DescriptionInExStart(r, p, d) \in {p, q}
    BY DEF DescriptionInExStart, q, n, b, a
  <1>18. Advances(r, p, b, d.headers)
    <2>0. a.nb.state > TwoWay
      BY <1>15 DEF Exchange, TwoWay
    <2>1. Advances(r, a, b, d.headers)
      BY <1>2, <1>3, <2>0, ProcessAdvances DEF b
    <2> QED BY <1>1, <1>2, <1>4, <1>17, <2>1, AdvanceTwice
  <1>19. Advances(r, p, q, d.headers)
    <2>1. /\ q.nb.requests = b.nb.requests /\ q.nb.described = b.nb.described
          /\ q.fight = b.fight
      BY <1>4, <1>5, <1>6, <1>13 DEF Neighbor, Process
    <2>2. Advances(r, b, q, {})
      BY <1>4, <1>8, <1>9, <1>16, <2>1, AdvanceSame
    <2> QED BY <1>1, <1>4, <1>8, <1>18, <2>2, AdvanceAfter
  <1>20. Advances(r, p, p, d.headers)
    BY <1>1, AdvanceNot
  <1> QED BY <1>10, <1>11, <1>12, <1>19, <1>20

\* The exchange: a mismatch, an answer of the slave, the next description of
\* the master, or its end.
LEMMA ExchangeKeeps ==
  ASSUME NEW r \in Routers, NEW p, Base(r, p), NEW d \in DescriptionPacket,
         p.nb.state = Exchange
  PROVE  /\ Base(r, DescriptionInExchange(r, p, d))
         /\ Orderly(p) => Orderly(DescriptionInExchange(r, p, d))
         /\ Advances(r, p, DescriptionInExchange(r, p, d), d.headers)
  <1> DEFINE a == Apply(p, "sequence_number_mismatch")
             b == ProcessDescription(p, d.headers)
             s == [b EXCEPT !.nb.seq = d.seq, !.nb.dd = "pending", !.nb.finish = ~d.more]
             m == [b EXCEPT !.nb.seq = @ + 1, !.nb.dd = "pending"]
             e == ExchangeDone(b, "armed")
  <1>1. p \in Process /\ p.nb \in Neighbor
    BY DEF Base, Process
  <1>2. d.headers \in SUBSET Lsas /\ d.seq \in Nat /\ d.more \in BOOLEAN
    BY DEF DescriptionPacket
  <1>3. /\ b \in Process /\ b.db = p.db /\ b.own = p.own
        /\ b.nb = [p.nb EXCEPT !.requests = b.nb.requests, !.described = b.nb.described]
    BY <1>1, <1>2, ProcessFields
  <1>11. Advances(r, p, b, d.headers)
    BY <1>1, <1>2, ProcessAdvances DEF Exchange, TwoWay
  <1> HIDE DEF b
  <1>4. b.nb \in Neighbor
    BY <1>3 DEF Process
  <1>5. /\ b.nb.state = Exchange /\ b.nb.dd = p.nb.dd /\ b.nb.finish = p.nb.finish
        /\ b.nb.cursor = p.nb.cursor /\ b.nb.summaries = p.nb.summaries
        /\ b.nb.retransmissions = p.nb.retransmissions
        /\ b.nb.update = p.nb.update /\ b.nb.request = p.nb.request
    BY <1>1, <1>3, <1>4 DEF Neighbor
  <1>6. Base(r, a) /\ (Orderly(p) => Orderly(a)) /\ Advances(r, p, a, d.headers)
    <2>1. Base(r, a) /\ (Orderly(p) => Orderly(a)) /\ Advances(r, p, a, {})
      BY <1>1, ApplyBase, ApplyOrderly DEF Restarting
    <2> QED BY <2>1 DEF Advances, Gains
  <1>12. ASSUME NEW x \in Process, Advances(r, b, x, {})
         PROVE  Advances(r, p, x, d.headers)
    BY <1>1, <1>3, <1>11, <1>12, AdvanceAfter
  <1>7. Base(r, s) /\ (Orderly(p) => Orderly(s)) /\ Advances(r, p, s, d.headers)
    <2>0. s = [b EXCEPT !.nb = [b.nb EXCEPT !.seq = d.seq, !.dd = "pending", !.finish = ~d.more]]
      BY <1>3, <1>4 DEF Process, Neighbor
    <2> HIDE DEF s
    <2>1. s.nb = [b.nb EXCEPT !.seq = d.seq, !.dd = "pending", !.finish = ~d.more]
      BY <1>3, <2>0 DEF Process
    <2>2. s.nb \in Neighbor
      BY <1>2, <1>4, <2>1 DEF Neighbor, Timer
    <2>3. s \in Process /\ s.db = p.db /\ s.own = p.own
      BY <1>3, <2>0, <2>1, <2>2 DEF Process
    <2>4. /\ s.nb.state = Exchange /\ s.nb.dd = "pending"
          /\ s.nb.cursor = p.nb.cursor /\ s.nb.summaries = p.nb.summaries
          /\ s.nb.retransmissions = p.nb.retransmissions
          /\ s.nb.update = p.nb.update /\ s.nb.request = p.nb.request
      BY <1>4, <1>5, <2>1 DEF Neighbor
    <2>5. Base(r, s)
      BY <2>3, <2>4, BaseStep DEF Base, Exchange, TwoWay
    <2>6. Orderly(p) => Orderly(s)
      BY <2>4 DEF Orderly, ExStart, Exchange, Loading, Full
    <2>7. /\ s.nb.requests = b.nb.requests /\ s.nb.described = b.nb.described
          /\ s.fight = b.fight
      BY <1>3, <1>4, <2>0, <2>1 DEF Neighbor, Process
    <2>8. Advances(r, b, s, {})
      BY <1>3, <1>5, <2>3, <2>4, <2>7, AdvanceSame
    <2> QED BY <1>12, <2>3, <2>5, <2>6, <2>8
  <1>8. Base(r, m) /\ (Orderly(p) => Orderly(m)) /\ Advances(r, p, m, d.headers)
    <2>0. m = [b EXCEPT !.nb = [b.nb EXCEPT !.seq = b.nb.seq + 1, !.dd = "pending"]]
      BY <1>3, <1>4 DEF Process, Neighbor
    <2> HIDE DEF m
    <2>1. m.nb = [b.nb EXCEPT !.seq = b.nb.seq + 1, !.dd = "pending"]
      BY <1>3, <2>0 DEF Process
    <2>2. m.nb \in Neighbor
      <3> DEFINE n == b.nb.seq + 1
      <3>1. n \in Nat
        BY <1>4 DEF Neighbor
      <3>2. m.nb = [b.nb EXCEPT !.seq = n, !.dd = "pending"]
        BY <2>1
      <3> HIDE DEF n
      <3> QED BY <1>4, <3>1, <3>2 DEF Neighbor, Timer
    <2>3. m \in Process /\ m.db = p.db /\ m.own = p.own
      BY <1>3, <2>0, <2>1, <2>2 DEF Process
    <2>4. /\ m.nb.state = Exchange /\ m.nb.dd = "pending"
          /\ m.nb.cursor = p.nb.cursor /\ m.nb.summaries = p.nb.summaries
          /\ m.nb.retransmissions = p.nb.retransmissions
          /\ m.nb.update = p.nb.update /\ m.nb.request = p.nb.request
      BY <1>4, <1>5, <2>1 DEF Neighbor
    <2>5. Base(r, m)
      BY <2>3, <2>4, BaseStep DEF Base, Exchange, TwoWay
    <2>6. Orderly(p) => Orderly(m)
      BY <2>4 DEF Orderly, ExStart, Exchange, Loading, Full
    <2>7. /\ m.nb.requests = b.nb.requests /\ m.nb.described = b.nb.described
          /\ m.fight = b.fight
      BY <1>3, <1>4, <2>0, <2>1 DEF Neighbor, Process
    <2>8. Advances(r, b, m, {})
      BY <1>3, <1>5, <2>3, <2>4, <2>7, AdvanceSame
    <2> QED BY <1>12, <2>3, <2>5, <2>6, <2>8
  <1>9. Base(r, e) /\ (Orderly(p) => Orderly(e)) /\ Advances(r, p, e, d.headers)
    <2>1. /\ e \in Process /\ e.db = p.db /\ e.own = p.own
          /\ e.db = b.db /\ e.fight = b.fight /\ e.nb.described = b.nb.described
          /\ e.nb.dd = "idle" /\ e.nb.finish = FALSE
          /\ e.nb.cursor = p.nb.cursor /\ e.nb.summaries = p.nb.summaries
          /\ e.nb.retransmissions = p.nb.retransmissions
          /\ e.nb.update = p.nb.update /\ e.nb.requests = b.nb.requests
          /\ e.nb.state = IF b.nb.requests # {} THEN Loading ELSE Full
          /\ e.nb.request = IF e.nb.state = Loading THEN "pending" ELSE "armed"
      BY <1>3, <1>5, ExchangeDoneFields DEF Timer
    <2> HIDE DEF e
    <2>2. Base(r, e)
      BY <2>1, BaseStep DEF Base, Loading, Full, TwoWay
    <2>3. Orderly(p) => Orderly(e)
      BY <2>1 DEF Orderly, ExStart, Exchange, Loading, Full
    <2>4. Advances(r, b, e, {})
      BY <1>3, <1>5, <2>1, AdvanceSame DEF Loading, Full, TwoWay
    <2> QED BY <1>12, <2>1, <2>2, <2>3, <2>4
  <1>10. DescriptionInExchange(r, p, d) \in {a, s, m, e}
    BY DEF DescriptionInExchange, a, b, s, m, e
  <1> QED BY <1>6, <1>7, <1>8, <1>9, <1>10

\* A description, by state: ignored, negotiated, exchanged or, after
\* the exchange, repeated or refused.
LEMMA DescriptionKeeps ==
  ASSUME NEW r \in Routers, NEW p, Base(r, p), NEW d \in DescriptionPacket
  PROVE  /\ Base(r, ReceiveDescription(r, p, d))
         /\ Orderly(p) => Orderly(ReceiveDescription(r, p, d))
         /\ Advances(r, p, ReceiveDescription(r, p, d), d.headers)
  <1>1. p \in Process /\ p.nb.state \in Down .. Full
    BY DEF Base, Process, Neighbor
  <1>2. CASE p.nb.state < ExStart
    <2>1. ReceiveDescription(r, p, d) = p
      BY <1>1, <1>2 DEF ReceiveDescription, ExStart, Exchange
    <2> QED BY <1>1, <2>1, AdvanceNot
  <1>3. CASE p.nb.state = ExStart
    <2>1. ReceiveDescription(r, p, d) = DescriptionInExStart(r, p, d)
      BY <1>3 DEF ReceiveDescription, ExStart, Exchange
    <2> QED BY <1>3, <2>1, ExStartKeeps
  <1>4. CASE p.nb.state = Exchange
    <2>1. ReceiveDescription(r, p, d) = DescriptionInExchange(r, p, d)
      BY <1>4 DEF ReceiveDescription, ExStart, Exchange
    <2> QED BY <1>4, <2>1, ExchangeKeeps
  <1>5. CASE p.nb.state > Exchange
    <2>1. ReceiveDescription(r, p, d) = DescriptionWhenDone(r, p, d)
      BY <1>1, <1>5 DEF ReceiveDescription, ExStart, Exchange, Down, Full
    <2>2. DescriptionWhenDone(r, p, d) \in {p, Apply(p, "sequence_number_mismatch")}
      BY DEF DescriptionWhenDone
    <2> DEFINE a == Apply(p, "sequence_number_mismatch")
    <2>3. Base(r, a) /\ (Orderly(p) => Orderly(a)) /\ Advances(r, p, a, {})
      BY <1>1, ApplyBase, ApplyOrderly DEF Restarting
    <2>4. Advances(r, p, a, d.headers)
      BY <2>3 DEF Advances, Gains
    <2> HIDE DEF a
    <2> QED BY <1>1, <2>1, <2>2, <2>3, <2>4, AdvanceNot DEF a
  <1> QED BY <1>1, <1>2, <1>3, <1>4, <1>5 DEF ExStart, Exchange, Down, Full

\* queue_retransmission(): one entry for each key, and the update is due.
LEMMA QueueFields ==
  ASSUME NEW nb \in Neighbor, NEW lsas \in SUBSET Lsas, OnePerKey(lsas),
         OnePerKey(nb.retransmissions)
  PROVE  LET q == Queue(nb, lsas) IN
         /\ q \in Neighbor /\ OnePerKey(q.retransmissions)
         /\ lsas \subseteq q.retransmissions
         /\ \A e \in q.retransmissions :
              e \in lsas \/ (e \in nb.retransmissions /\ \A x \in lsas : x[1] # e[1])
         /\ q.update = "pending"
         /\ q.state = nb.state /\ q.dd = nb.dd /\ q.finish = nb.finish
         /\ q.cursor = nb.cursor /\ q.summaries = nb.summaries
         /\ q.requests = nb.requests /\ q.request = nb.request
         /\ q.described = nb.described
  <1> DEFINE R == {e \in nb.retransmissions : \A x \in lsas : x[1] # e[1]} \union lsas
  <1>1. R \in SUBSET Lsas /\ OnePerKey(R) /\ lsas \subseteq R
    BY DEF Neighbor, OnePerKey
  <1>2. \A e \in R :
          e \in lsas \/ (e \in nb.retransmissions /\ \A x \in lsas : x[1] # e[1])
    OBVIOUS
  <1>3. Queue(nb, lsas) = [nb EXCEPT !.retransmissions = R, !.update = "pending"]
    BY DEF Queue, Neighbor
  <1> HIDE DEF R
  <1>4. /\ Queue(nb, lsas) \in Neighbor /\ Queue(nb, lsas).retransmissions = R
        /\ Queue(nb, lsas).update = "pending"
    BY <1>1, <1>3 DEF Neighbor, Timer
  <1>5. LET q == Queue(nb, lsas) IN
         /\ q.state = nb.state /\ q.dd = nb.dd /\ q.finish = nb.finish
         /\ q.cursor = nb.cursor /\ q.summaries = nb.summaries
         /\ q.requests = nb.requests /\ q.request = nb.request
         /\ q.described = nb.described
    BY <1>3 DEF Neighbor
  <1> QED BY <1>1, <1>2, <1>3, <1>4, <1>5

\* A step that queues LSAs the database holds, in Exchange or later.
LEMMA QueueKeeps ==
  ASSUME NEW r \in Routers, NEW p, Base(r, p), NEW q \in Process,
         q.db \in [Keys -> Nat], q.own > q.db[r],
         \A k \in Keys : q.db[k] >= p.db[k],
         NEW lsas \in SUBSET Lsas, OnePerKey(lsas),
         \A x \in lsas : q.db[x[1]] = x[2],
         p.nb.state >= Exchange,
         q.nb = Queue(p.nb, lsas)
  PROVE  /\ Base(r, q)
         /\ Orderly(p) /\ lsas # {} => Orderly(q)
         /\ q.fight = p.fight \/ q.db[r] >= p.fight => Advances(r, p, q, {})
  <1>1. p \in Process /\ p.nb \in Neighbor /\ p.db \in [Keys -> Nat]
    BY DEF Base, Process
  <1>2. /\ OnePerKey(q.nb.retransmissions) /\ lsas \subseteq q.nb.retransmissions
        /\ \A e \in q.nb.retransmissions : e \in lsas \/ e \in p.nb.retransmissions
        /\ q.nb.update = "pending"
        /\ q.nb.state = p.nb.state /\ q.nb.dd = p.nb.dd /\ q.nb.finish = p.nb.finish
        /\ q.nb.cursor = p.nb.cursor /\ q.nb.summaries = p.nb.summaries
        /\ q.nb.requests = p.nb.requests /\ q.nb.request = p.nb.request
        /\ q.nb.described = p.nb.described
    <2>1. OnePerKey(p.nb.retransmissions)
      BY DEF Base
    <2> QED BY <1>1, <2>1, QueueFields
  <1>3. ASSUME NEW e \in q.nb.retransmissions
        PROVE  q.db[e[1]] >= e[2]
    <2>1. CASE e \in lsas
      <3>1. e[1] \in Keys /\ e[2] \in Nat
        BY <2>1 DEF Lsas, Generation
      <3> QED BY <2>1, <3>1
    <2>2. CASE e \in p.nb.retransmissions
      <3>1. e[1] \in Keys /\ e[2] \in Nat
        BY <1>1, <2>2 DEF Neighbor, Lsas, Generation
      <3>2. p.db[e[1]] >= e[2]
        BY <2>2 DEF Base
      <3>3. p.db[e[1]] \in Nat /\ q.db[e[1]] \in Nat /\ q.db[e[1]] >= p.db[e[1]]
        BY <1>1, <3>1
      <3> QED BY <3>1, <3>2, <3>3
    <2> QED BY <1>2, <2>1, <2>2
  <1>4. p.nb.state \in Down .. Full
    BY <1>1 DEF Neighbor
  <1>5. Base(r, q)
    BY <1>2, <1>3, <1>4 DEF Base, Exchange, TwoWay, Down, Full
  <1>6. ASSUME Orderly(p), lsas # {} PROVE Orderly(q)
    BY <1>2, <1>6 DEF Orderly
  <1>7. q.fight = p.fight \/ q.db[r] >= p.fight => Advances(r, p, q, {})
    BY <1>1, <1>2, AdvanceGrown
  <1> QED BY <1>5, <1>6, <1>7

\* A request: Base whatever is asked for, Orderly if it can be answered.
LEMMA RequestKeeps ==
  ASSUME NEW r \in Routers, NEW p, Base(r, p), NEW keys \in SUBSET Keys
  PROVE  /\ Base(r, ReceiveRequest(p, keys))
         /\ /\ Orderly(p) /\ keys # {}
            /\ p.nb.state >= Exchange => \A k \in keys : p.db[k] > 0
            => Orderly(ReceiveRequest(p, keys))
         /\ Advances(r, p, ReceiveRequest(p, keys), {})
  <1>1. p \in Process /\ p.nb \in Neighbor /\ p.db \in [Keys -> Nat]
        /\ p.nb.state \in Down .. Full
    BY DEF Base, Process, Neighbor
  <1>2. CASE p.nb.state < Exchange
    BY <1>1, <1>2, AdvanceNot DEF ReceiveRequest
  <1> DEFINE unknown == {k \in keys : p.db[k] = 0}
             known == {k \in keys : \A u \in unknown : k < u}
             L == {<<k, p.db[k]>> : k \in known}
             n == Queue(p.nb, L)
             q == [p EXCEPT !.nb = n]
             m == [n EXCEPT !.state = ExStart, !.dd = "pending", !.update = p.nb.update]
             b == [p EXCEPT !.nb = m]
  <1>3. ~(p.nb.state < Exchange) =>
          ReceiveRequest(p, keys) = IF unknown = {} THEN q ELSE b
    BY DEF ReceiveRequest
  <1>4. unknown = {} => known = keys
    OBVIOUS
  <1>5. /\ known \subseteq Keys
        /\ \A k \in known : p.db[k] > 0
        /\ unknown = {} <=> \A k \in keys : p.db[k] > 0
    <2>1. ASSUME NEW k \in known PROVE k \notin unknown
      <3>1. k \in Keys /\ Keys \subseteq Nat
        BY KeyFacts
      <3>2. \A u \in unknown : k < u
        OBVIOUS
      <3> HIDE DEF unknown, known
      <3>3. k \in Nat /\ ~(k < k)
        BY <3>1
      <3> QED BY <3>2, <3>3
    <2> QED BY <1>1, <2>1
  <1> HIDE DEF unknown, known
  <1>6. L \in SUBSET Lsas /\ \A x \in L : p.db[x[1]] = x[2]
    BY <1>1, <1>5 DEF Lsas, Generation
  <1>7. OnePerKey(L) /\ (known # {} => L # {})
    <2>1. ASSUME NEW x \in L, NEW y \in L, x[1] = y[1] PROVE x = y
      <3>1. PICK j \in known : x = <<j, p.db[j]>>
        OBVIOUS
      <3>2. PICK k \in known : y = <<k, p.db[k]>>
        OBVIOUS
      <3> QED BY <2>1, <3>1, <3>2
    <2>2. \A k \in known : <<k, p.db[k]>> \in L
      OBVIOUS
    <2> HIDE DEF L
    <2> QED BY <2>1, <2>2 DEF OnePerKey
  <1> HIDE DEF L
  <1>8. CASE p.nb.state >= Exchange
    <2>1. n \in Neighbor
      BY <1>1, <1>6, <1>7, QueueFields DEF Base
    <2> HIDE DEF n
    <2>2. /\ q \in Process /\ q.nb = n /\ q.db = p.db /\ q.own = p.own
          /\ q.fight = p.fight
      BY <1>1, <2>1 DEF Process
    <2> HIDE DEF q
    <2>3. q.db \in [Keys -> Nat] /\ q.own > q.db[r] /\ \A k \in Keys : q.db[k] >= p.db[k]
      BY <1>1, <2>2 DEF Base
    <2>4. \A x \in L : q.db[x[1]] = x[2]
      BY <1>6, <2>2
    <2>5. q.nb = Queue(p.nb, L)
      BY <2>2 DEF n
    <2>6. /\ Base(r, q) /\ (Orderly(p) /\ L # {} => Orderly(q))
          /\ Advances(r, p, q, {})
      BY <1>6, <1>7, <1>8, <2>2, <2>3, <2>4, <2>5, QueueKeeps
    <2>7. m \in Neighbor
      <3>1. ExStart \in Down .. Full /\ "pending" \in Timer /\ p.nb.update \in Timer
        BY <1>1 DEF ExStart, Down, Full, Timer, Neighbor
      <3> QED BY <2>1, <3>1 DEF Neighbor
    <2>8. /\ m.cursor = n.cursor /\ m.summaries = n.summaries
          /\ m.retransmissions = n.retransmissions /\ m.state = ExStart
          /\ m.requests = n.requests /\ m.described = n.described
      BY <2>1 DEF Neighbor
    <2> HIDE DEF m
    <2>9. /\ b \in Process /\ b.nb = m /\ b.db = p.db /\ b.own = p.own
          /\ b.fight = p.fight
      BY <1>1, <2>7 DEF Process
    <2> HIDE DEF b
    <2>10. Base(r, b)
      BY <2>2, <2>6, <2>8, <2>9, BaseStep DEF Base, ExStart, TwoWay
    <2>11. ReceiveRequest(p, keys) = IF unknown = {} THEN q ELSE b
      BY <1>1, <1>3, <1>8 DEF Exchange, Down, Full
    <2>12. Advances(r, q, b, {})
      <3>1. ~(b.nb.state <= TwoWay)
        BY <2>8, <2>9 DEF ExStart, TwoWay
      <3> QED BY <2>2, <2>8, <2>9, <3>1, AdvanceSame
    <2>13. Advances(r, p, b, {})
      BY <1>1, <2>2, <2>6, <2>9, <2>12, AdvanceAfter
    <2> QED BY <1>4, <1>5, <1>7, <1>8, <2>6, <2>10, <2>11, <2>13
  <1> QED BY <1>1, <1>2, <1>8 DEF Exchange, Down, Full

\* An acknowledgment: the timer stops with the last retransmission.
LEMMA AckKeeps ==
  ASSUME NEW r \in Routers, NEW p, Base(r, p), NEW headers
  PROVE  /\ Base(r, ReceiveAck(p, headers))
         /\ Orderly(p) => Orderly(ReceiveAck(p, headers))
         /\ Advances(r, p, ReceiveAck(p, headers), {})
  <1>1. p \in Process /\ p.nb \in Neighbor /\ p.nb.state \in Down .. Full
    BY DEF Base, Process, Neighbor
  <1>2. CASE p.nb.state < Exchange
    BY <1>1, <1>2, AdvanceNot DEF ReceiveAck
  <1>3. CASE p.nb.state >= Exchange
    <2> DEFINE kept == p.nb.retransmissions \ headers
               u == IF kept = {} THEN "idle" ELSE p.nb.update
               q == [p EXCEPT !.nb.retransmissions = kept, !.nb.update = u]
    <2>1. ReceiveAck(p, headers) = q
      BY <1>1, <1>3 DEF ReceiveAck, Exchange, Down, Full, Process, Neighbor
    <2>2. kept \in SUBSET Lsas /\ u \in Timer /\ kept \subseteq p.nb.retransmissions
      BY <1>1 DEF Neighbor, Timer
    <2>3. q = [p EXCEPT !.nb = [p.nb EXCEPT !.retransmissions = kept, !.update = u]]
      BY <1>1 DEF Process, Neighbor
    <2> HIDE DEF q, u, kept
    <2>4. q.nb = [p.nb EXCEPT !.retransmissions = kept, !.update = u]
      BY <1>1, <2>3 DEF Process
    <2>5. q.nb \in Neighbor /\ q.nb.retransmissions = kept /\ q.nb.update = u
      BY <1>1, <2>2, <2>4 DEF Neighbor
    <2>6. q \in Process /\ q.db = p.db /\ q.own = p.own /\ q.fight = p.fight
      BY <1>1, <2>3, <2>4, <2>5 DEF Process
    <2>7. /\ q.nb.state = p.nb.state /\ q.nb.dd = p.nb.dd /\ q.nb.finish = p.nb.finish
          /\ q.nb.cursor = p.nb.cursor /\ q.nb.summaries = p.nb.summaries
          /\ q.nb.requests = p.nb.requests /\ q.nb.request = p.nb.request
          /\ q.nb.described = p.nb.described
      BY <1>1, <2>4 DEF Neighbor
    <2>8. Base(r, q)
      BY <1>1, <1>3, <2>2, <2>5, <2>6, <2>7, BaseStep DEF Base, Exchange, TwoWay, Down, Full
    <2>9. Orderly(p) => Orderly(q)
      BY <2>2, <2>5, <2>7 DEF Orderly, u
    <2>10. Advances(r, p, q, {})
      BY <1>1, <2>6, <2>7, AdvanceSame
    <2> QED BY <2>1, <2>8, <2>9, <2>10
  <1> QED BY <1>1, <1>2, <1>3 DEF Exchange, Down, Full

\* LinkStateDatabase::install() takes only a newer instance, and never one of
\* the router's own LSA.
LEMMA InstallNewer ==
  ASSUME NEW r \in Routers, NEW p \in Process, NEW x \in Lsas, NEW early
  PROVE  /\ Install(r, p, x, early) = "installed" => x[2] > p.db[x[1]] /\ x[1] # r
         /\ Install(r, p, x, early) = "fight_back_required" => x[1] = r
         /\ Install(r, p, x, early) = "identical" => x[2] = p.db[x[1]]
  <1>1. x[1] \in Keys /\ x[2] \in Nat
    BY DEF Lsas, Generation
  <1>2. p.db[x[1]] \in Nat
    BY <1>1 DEF Process
  <1> QED BY <1>1, <1>2 DEF Install

\* The generations to fight back are at most one, so the largest is a number.
LEMMA LargestOfTwo ==
  ASSUME NEW f \in Nat, NEW S \in SUBSET Nat, \A a, b \in S : a = b
  PROVE  /\ Max({f} \union S) \in Nat
         /\ \A y \in {f} \union S : Max({f} \union S) >= y
  <1>1. \E m \in {f} \union S : \A y \in {f} \union S : m >= y
    <2>1. CASE S = {}
      BY <2>1
    <2>2. CASE S # {}
      <3>1. PICK g \in S : TRUE
        BY <2>2
      <3>2. {f} \union S = {f, g} /\ g \in Nat
        BY <3>1
      <3>3. CASE f >= g
        BY <3>2, <3>3
      <3>4. CASE g >= f
        BY <3>2, <3>4
      <3> QED BY <3>2, <3>3, <3>4
    <2> QED BY <2>1, <2>2
  <1>2. /\ Max({f} \union S) \in {f} \union S
        /\ \A y \in {f} \union S : Max({f} \union S) >= y
    BY <1>1 DEF Max
  <1> QED BY <1>2

\* An update: installing, answering requests, fighting back and queueing
\* keep one retransmission for each key, none newer than the database.
LEMMA UpdateKeeps ==
  ASSUME NEW r \in Routers, NEW p, Base(r, p), NEW lsas \in SUBSET Lsas, OnePerKey(lsas),
         NEW early
  PROVE  /\ Base(r, ReceiveUpdate(r, p, lsas, early))
         /\ Orderly(p) => Orderly(ReceiveUpdate(r, p, lsas, early))
         /\ Gains(p, ReceiveUpdate(r, p, lsas, early), {})
         /\ Accounted(r, p) /\ Current(p, lsas) =>
              Accounted(r, ReceiveUpdate(r, p, lsas, early))
  <1> DEFINE With(results) == {x \in lsas : Install(r, p, x, early) \in results}
             installed == With({"installed"})
             fight == {x[2] : x \in With({"fight_back_required"})}
             answered == {x[1] : x \in {y \in lsas : Answers(Install(r, p, y, early))}}
             implied == With({"identical"}) \intersect p.nb.retransmissions
             kept == p.nb.retransmissions \ implied
             D == [k \in Keys |-> IF \E x \in installed : x[1] = k
                                    THEN (CHOOSE x \in installed : x[1] = k)[2]
                                    ELSE p.db[k]]
             rec == p.recent \union {x[1] : x \in installed}
             F == Max({p.fight} \union fight)
             o == p.originate \/ fight # {}
             R == p.nb.requests \ answered
             u == IF implied # {} /\ kept = {} THEN "idle" ELSE p.nb.update
             A == p.nb.acks \union (lsas \ implied)
             n == [p.nb EXCEPT !.requests = R, !.retransmissions = kept,
                               !.update = u, !.acks = A]
             q == [p EXCEPT !.db = D, !.recent = rec, !.fight = F, !.originate = o,
                            !.nb = n]
             l == [Apply(q, "loading_done") EXCEPT !.nb.request = "armed",
                                                   !.originate = TRUE]
  <1>1. p \in Process /\ p.nb \in Neighbor /\ p.db \in [Keys -> Nat] /\ p.fight \in Nat
        /\ p.recent \in SUBSET Keys /\ p.originate \in BOOLEAN
    BY DEF Base, Process
  <1>2. p.nb.state \in Down .. Full
    BY <1>1 DEF Neighbor
  <1>3. CASE p.nb.state < Exchange
    <2>1. Advances(r, p, p, {})
      BY <1>1, AdvanceNot
    <2> QED BY <1>3, <2>1 DEF ReceiveUpdate, Advances
  <1>4. CASE ~(p.nb.state < Exchange)
    <2> DEFINE z == [p EXCEPT !.db = D, !.recent = rec, !.fight = F, !.originate = o,
                              !.nb.requests = R, !.nb.retransmissions = kept,
                              !.nb.update = u, !.nb.acks = A]
    <2>12. z = q
      <3> HIDE DEF D, rec, F, o, R, kept, u, A
      <3> QED BY <1>1 DEF Process, Neighbor
    <2>13. ReceiveUpdate(r, p, lsas, early) =
            IF z.nb.state = Loading /\ z.nb.requests = {}
              THEN [Apply(z, "loading_done") EXCEPT !.nb.request = "armed", !.originate = TRUE]
              ELSE z
      BY <1>4, Zenon DEF ReceiveUpdate
    <2>1. ReceiveUpdate(r, p, lsas, early) =
            IF q.nb.state = Loading /\ q.nb.requests = {} THEN l ELSE q
      <3> HIDE DEF z, q
      <3> QED BY <2>12, <2>13
    <2>2. D \in [Keys -> Nat] /\ D[r] = p.db[r] /\ \A k \in Keys : D[k] >= p.db[k]
      <3>1. ASSUME NEW k \in Keys
            PROVE  D[k] \in Nat /\ D[k] >= p.db[k] /\ (k = r => D[k] = p.db[k])
        <4>1. p.db[k] \in Nat
          BY <1>1
        <4>2. CASE \E x \in installed : x[1] = k
          <5> DEFINE x == CHOOSE y \in installed : y[1] = k
          <5>1. x \in installed /\ x[1] = k
            BY <4>2
          <5> HIDE DEF x
          <5>2. x \in Lsas /\ Install(r, p, x, early) = "installed"
            BY <5>1
          <5>3. x[2] > p.db[x[1]] /\ x[1] # r /\ x[2] \in Nat
            BY <1>1, <5>2, InstallNewer DEF Lsas, Generation
          <5>4. D[k] = x[2]
            BY <4>2 DEF x
          <5> QED BY <4>1, <5>1, <5>3, <5>4
        <4>3. CASE ~\E x \in installed : x[1] = k
          <5>1. D[k] = p.db[k]
            BY <4>3
          <5> QED BY <4>1, <5>1
        <4> QED BY <4>2, <4>3
      <3>2. r \in Keys
        BY KeyFacts
      <3> QED BY <3>1, <3>2
    <2>3. F \in Nat /\ F >= p.fight /\ \A a \in fight : F >= a
      <3>1. fight \in SUBSET Nat
        BY DEF Lsas, Generation
      <3>2. ASSUME NEW a \in fight, NEW b \in fight PROVE a = b
        <4>1. PICK x \in With({"fight_back_required"}) : a = x[2]
          OBVIOUS
        <4>2. PICK y \in With({"fight_back_required"}) : b = y[2]
          OBVIOUS
        <4>3. x[1] = r /\ y[1] = r /\ x \in lsas /\ y \in lsas
          BY <1>1, InstallNewer
        <4> QED BY <4>1, <4>2, <4>3 DEF OnePerKey
      <3> HIDE DEF fight
      <3> QED BY <1>1, <3>1, <3>2, LargestOfTwo
    <2>14. ASSUME NEW y \in lsas, Answers(Install(r, p, y, early))
           PROVE  D[y[1]] >= y[2] \/ (y[1] = r /\ F >= y[2])
      <3>1. y \in Lsas /\ y[1] \in Keys /\ y[2] \in Nat
        BY DEF Lsas, Generation
      <3>2. CASE Install(r, p, y, early) = "installed"
        <4>1. y \in installed
          BY <3>2
        <4> DEFINE x == CHOOSE w \in installed : w[1] = y[1]
        <4>2. x \in installed /\ x[1] = y[1]
          BY <4>1
        <4>3. D[y[1]] = x[2]
          BY <3>1, <4>1
        <4> HIDE DEF x
        <4>4. x = y
          BY <4>2 DEF OnePerKey
        <4> HIDE DEF D
        <4> QED BY <3>1, <4>3, <4>4
      <3>3. CASE Install(r, p, y, early) = "identical"
        <4>1. y[2] = p.db[y[1]]
          BY <1>1, <3>1, <3>3, InstallNewer
        <4> HIDE DEF D
        <4> QED BY <2>2, <3>1, <4>1
      <3>4. CASE Install(r, p, y, early) = "fight_back_required"
        <4>1. y[1] = r
          BY <1>1, <3>1, <3>4, InstallNewer
        <4>2. y[2] \in fight
          BY <3>4
        <4> HIDE DEF F
        <4> QED BY <2>3, <4>1, <4>2
      <3> QED BY <2>14, <3>2, <3>3, <3>4 DEF Answers
    <2>15. ASSUME NEW k \in answered
           PROVE  \E y \in lsas : y[1] = k /\ Answers(Install(r, p, y, early))
      OBVIOUS
    <2>4. rec \in SUBSET Keys /\ o \in BOOLEAN
      BY <1>1 DEF Lsas
    <2>5. /\ R \in SUBSET Keys /\ kept \in SUBSET Lsas /\ u \in Timer /\ A \in SUBSET Lsas
          /\ kept \subseteq p.nb.retransmissions /\ R \subseteq p.nb.requests
      BY <1>1 DEF Neighbor, Timer
    <2>6. (kept # {} => p.nb.retransmissions # {} /\ u = p.nb.update)
          /\ (kept = {} => u = "idle" \/ (u = p.nb.update /\ p.nb.retransmissions = {}))
      OBVIOUS
    <2> HIDE DEF D, F, rec, o, R, kept, u, A, With, installed, fight, answered, implied
    <2>7. /\ n \in Neighbor /\ n.requests = R /\ n.retransmissions = kept /\ n.update = u
          /\ n.state = p.nb.state /\ n.dd = p.nb.dd /\ n.finish = p.nb.finish
          /\ n.cursor = p.nb.cursor /\ n.summaries = p.nb.summaries
          /\ n.request = p.nb.request /\ n.described = p.nb.described
      BY <1>1, <2>5 DEF Neighbor
    <2> HIDE DEF n
    <2>8. q \in Process /\ q.nb = n /\ q.db = D /\ q.own = p.own /\ q.fight = F
      BY <1>1, <2>2, <2>3, <2>4, <2>7 DEF Process
    <2> HIDE DEF q
    <2>9. Base(r, q)
      <3>1. ASSUME NEW e \in kept PROVE D[e[1]] >= e[2]
        <4>1. e[1] \in Keys /\ e[2] \in Nat
          BY <2>5 DEF Lsas, Generation
        <4>2. p.db[e[1]] >= e[2] /\ p.db[e[1]] \in Nat
          BY <1>1, <2>5, <4>1 DEF Base
        <4>3. D[e[1]] >= p.db[e[1]] /\ D[e[1]] \in Nat
          BY <2>2, <4>1
        <4> QED BY <4>1, <4>2, <4>3
      <3>2. OnePerKey(kept)
        BY <2>5 DEF Base, OnePerKey
      <3>3. n.state > TwoWay
        BY <1>2, <1>4, <2>7 DEF Exchange, TwoWay, Down, Full
      <3>4. ~(n.state <= TwoWay)
        BY <1>2, <2>7, <3>3 DEF TwoWay, Down, Full
      <3> QED BY <2>2, <2>7, <2>8, <3>1, <3>2, <3>4 DEF Base
    <2>16. Gains(p, q, {})
      BY <2>2, <2>7, <2>8 DEF Gains
    <2>17. ASSUME NEW x \in Lsas, Has(r, p, x) PROVE Has(r, q, x)
      <3>1. x[1] \in Keys /\ x[2] \in Nat
        BY DEF Lsas, Generation
      <3>2. p.db[x[1]] \in Nat /\ D[x[1]] \in Nat /\ D[x[1]] >= p.db[x[1]]
        BY <1>1, <2>2, <3>1
      <3>3. CASE p.db[x[1]] >= x[2]
        BY <2>8, <3>1, <3>2, <3>3 DEF Has
      <3>4. CASE x[1] = r /\ p.fight >= x[2]
        BY <1>1, <2>3, <2>8, <3>1, <3>4 DEF Has
      <3> QED BY <2>17, <3>3, <3>4 DEF Has
    <2>18. ASSUME Accounted(r, p), Current(p, lsas) PROVE Accounted(r, q)
      <3>0. /\ q.nb.summaries = p.nb.summaries /\ q.nb.described = p.nb.described
            /\ q.nb.requests = R /\ q.nb.state = p.nb.state
        BY <2>7, <2>8
      <3>1. ASSUME NEW i \in 1 .. Len(q.nb.summaries)
            PROVE  q.db[q.nb.summaries[i][1]] >= q.nb.summaries[i][2]
        <4> DEFINE x == p.nb.summaries[i]
        <4>1. x \in Lsas
          BY <1>1, <3>0 DEF Neighbor
        <4>2. p.db[x[1]] >= x[2]
          BY <2>18, <3>0 DEF Accounted
        <4>3. x[1] \in Keys /\ x[2] \in Nat
          BY <4>1 DEF Lsas, Generation
        <4>4. p.db[x[1]] \in Nat /\ D[x[1]] \in Nat /\ D[x[1]] >= p.db[x[1]]
          BY <1>1, <2>2, <4>3
        <4> QED BY <2>8, <3>0, <4>2, <4>3, <4>4
      <3>2. \A k \in q.nb.requests : \E x \in q.nb.described : x[1] = k
        BY <2>5, <2>18, <3>0 DEF Accounted
      <3>3. ASSUME NEW x \in q.nb.described PROVE x[1] \in q.nb.requests \/ Has(r, q, x)
        <4>1. x \in Lsas /\ x \in p.nb.described
          BY <1>1, <3>0 DEF Neighbor
        <4>2. CASE Has(r, p, x)
          BY <2>17, <4>1, <4>2
        <4>3. CASE x[1] \in p.nb.requests /\ x[1] \notin answered
          BY <3>0, <4>3 DEF R
        <4>4. CASE x[1] \in answered
          <5>1. PICK y \in lsas : y[1] = x[1] /\ Answers(Install(r, p, y, early))
            BY <2>15, <4>4
          <5>2. y[2] >= x[2]
            BY <2>18, <4>1, <5>1 DEF Current
          <5>3. D[x[1]] >= y[2] \/ (x[1] = r /\ F >= y[2])
            BY <2>14, <5>1
          <5>4. x[2] \in Nat /\ y[2] \in Nat /\ D[x[1]] \in Nat /\ F \in Nat
            BY <2>2, <2>3, <4>1 DEF Lsas, Generation
          <5> QED BY <2>8, <5>2, <5>3, <5>4 DEF Has
        <4> QED BY <2>18, <4>1, <4>2, <4>3, <4>4 DEF Accounted
      <3>4. ~(q.nb.state <= TwoWay)
        BY <1>2, <1>4, <3>0 DEF Exchange, TwoWay, Down, Full
      <3> QED BY <3>1, <3>2, <3>3, <3>4 DEF Accounted
    <2>10. CASE ~(q.nb.state = Loading /\ q.nb.requests = {})
      <3>1. Orderly(p) => Orderly(q)
        BY <2>5, <2>6, <2>7, <2>8, <2>10 DEF Orderly
      <3> QED BY <2>1, <2>9, <2>10, <2>16, <2>18, <3>1
    <2>11. CASE q.nb.state = Loading /\ q.nb.requests = {}
      <3> DEFINE a == Apply(q, "loading_done")
      <3>1. /\ a \in Process /\ a.db = q.db /\ a.own = q.own /\ a.fight = q.fight
            /\ a.nb = [q.nb EXCEPT !.state = Full]
        BY <2>8, <2>11, ApplyForward
      <3> HIDE DEF a
      <3>2. a.nb \in Neighbor /\ q.nb \in Neighbor
        BY <2>8, <3>1 DEF Process
      <3>3. l = [a EXCEPT !.nb = [a.nb EXCEPT !.request = "armed"], !.originate = TRUE]
        BY <3>1, <3>2 DEF a, Process, Neighbor
      <3> HIDE DEF l
      <3>4. l.nb = [a.nb EXCEPT !.request = "armed"]
        BY <3>1, <3>3 DEF Process
      <3>5. l.nb \in Neighbor
        BY <3>2, <3>4 DEF Neighbor, Timer
      <3>6. l \in Process /\ l.db = q.db /\ l.own = q.own /\ l.fight = q.fight
        BY <3>1, <3>3, <3>4, <3>5 DEF Process
      <3>7. /\ a.nb.state = Full /\ a.nb.dd = q.nb.dd /\ a.nb.finish = q.nb.finish
            /\ a.nb.cursor = q.nb.cursor /\ a.nb.summaries = q.nb.summaries
            /\ a.nb.retransmissions = q.nb.retransmissions
            /\ a.nb.update = q.nb.update /\ a.nb.requests = q.nb.requests
            /\ a.nb.described = q.nb.described
        BY <3>1, <3>2 DEF Neighbor
      <3>8. /\ l.nb.state = Full /\ l.nb.dd = q.nb.dd /\ l.nb.finish = q.nb.finish
            /\ l.nb.cursor = q.nb.cursor /\ l.nb.summaries = q.nb.summaries
            /\ l.nb.retransmissions = q.nb.retransmissions
            /\ l.nb.update = q.nb.update /\ l.nb.requests = q.nb.requests
            /\ l.nb.described = q.nb.described /\ l.nb.request = "armed"
        BY <3>2, <3>4, <3>7 DEF Neighbor
      <3>9. Base(r, l)
        BY <2>9, <3>6, <3>8, BaseStep DEF Base, Full, TwoWay
      <3>10. Orderly(p) => Orderly(l)
        BY <2>6, <2>7, <2>8, <2>11, <3>8 DEF Orderly, ExStart, Exchange, Loading, Full
      <3>11. Advances(r, q, l, {})
        BY <2>8, <3>6, <3>8, AdvanceSame DEF Full, TwoWay
      <3>12. Gains(p, l, {})
        BY <2>16, <3>6, <3>8 DEF Gains
      <3> QED BY <2>1, <2>11, <2>18, <3>9, <3>10, <3>11, <3>12 DEF Advances
    <2> QED BY <2>10, <2>11
  <1> QED BY <1>3, <1>4

\* Every handler keeps the process in order, unless the request is bad.
LEMMA HandleKeeps ==
  ASSUME NEW r \in Routers, NEW p, Base(r, p), NEW packet \in Packet, NEW early
  PROVE  /\ Base(r, Handle(r, p, packet, early))
         /\ /\ Orderly(p) /\ Asking(packet)
            /\ packet.type = "request" /\ p.nb.state >= Exchange =>
                 \A k \in packet.keys : p.db[k] > 0
            => Orderly(Handle(r, p, packet, early))
         /\ Gains(p, Handle(r, p, packet, early), Headers(packet))
         /\ Accounted(r, p) /\ Current(p, Instances(packet)) =>
              Accounted(r, Handle(r, p, packet, early))
  <1>1. CASE packet \in HelloPacket
    <2>1. Handle(r, p, packet, early) = ReceiveHello(p, packet)
      BY <1>1 DEF Handle, HelloPacket
    <2>2. Advances(r, p, ReceiveHello(p, packet), {})
      BY <1>1, HelloKeeps
    <2>3. Headers(packet) = {} /\ packet.type # "request"
      BY <1>1 DEF Headers, HelloPacket
    <2> QED BY <1>1, <2>1, <2>2, <2>3, HelloKeeps DEF Advances
  <1>2. CASE packet \in DescriptionPacket
    <2>1. Handle(r, p, packet, early) = ReceiveDescription(r, p, packet)
      BY <1>2 DEF Handle, DescriptionPacket
    <2>2. Advances(r, p, ReceiveDescription(r, p, packet), packet.headers)
      BY <1>2, DescriptionKeeps
    <2>3. Headers(packet) = packet.headers /\ packet.type # "request"
      BY <1>2 DEF Headers, DescriptionPacket
    <2> QED BY <1>2, <2>1, <2>2, <2>3, DescriptionKeeps DEF Advances
  <1>3. CASE packet \in RequestPacket
    <2>1. Handle(r, p, packet, early) = ReceiveRequest(p, packet.keys)
          /\ packet.keys \in SUBSET Keys /\ packet.type = "request"
      BY <1>3 DEF Handle, RequestPacket
    <2>2. Advances(r, p, ReceiveRequest(p, packet.keys), {})
      BY <2>1, RequestKeeps
    <2>3. Headers(packet) = {}
      BY <2>1 DEF Headers
    <2> QED BY <2>1, <2>2, <2>3, RequestKeeps DEF Asking, Advances
  <1>4. CASE packet \in UpdatePacket
    <2>1. Handle(r, p, packet, early) = ReceiveUpdate(r, p, packet.lsas, early)
          /\ packet.lsas \in SUBSET Lsas /\ OnePerKey(packet.lsas)
      BY <1>4 DEF Handle, UpdatePacket
    <2>2. Headers(packet) = {} /\ Instances(packet) = packet.lsas
      BY <1>4 DEF Headers, Instances, UpdatePacket
    <2> QED BY <2>1, <2>2, UpdateKeeps
  <1>5. CASE packet \in AckPacket
    <2>1. Handle(r, p, packet, early) = ReceiveAck(p, packet.lsas)
      BY <1>5 DEF Handle, AckPacket
    <2>2. Advances(r, p, ReceiveAck(p, packet.lsas), {})
      BY AckKeeps
    <2>3. Headers(packet) = {}
      BY <1>5 DEF Headers, AckPacket
    <2> QED BY <2>1, <2>2, <2>3, AckKeeps DEF Advances
  <1> QED BY <1>1, <1>2, <1>3, <1>4, <1>5 DEF Packet

-----------------------------------------------------------------------------
(***************************************************************************)
(* The owner turn.                                                         *)
(***************************************************************************)

\* originate_local_lsas(): the router's own LSA is newer than the one it had.
LEMMA OriginateKeeps ==
  ASSUME NEW r \in Routers, NEW p, Base(r, p)
  PROVE  /\ Base(r, OriginateLocalLsas(r, p))
         /\ Orderly(p) => Orderly(OriginateLocalLsas(r, p))
         /\ Advances(r, p, OriginateLocalLsas(r, p), {})
  <1> DEFINE seq == IF p.fight > p.db[r] THEN Max({p.own, p.fight + 1}) ELSE p.own
             D == [p.db EXCEPT ![r] = seq]
             L == {<<r, seq>>}
             n == IF p.nb.state = Full THEN Queue(p.nb, L) ELSE p.nb
             q == [p EXCEPT !.db = D, !.own = seq + 1, !.fight = 0,
                            !.originate = FALSE, !.held = TRUE, !.nb = n]
  <1>1. p \in Process /\ p.nb \in Neighbor /\ p.db \in [Keys -> Nat] /\ p.own \in Nat
        /\ p.fight \in Nat /\ r \in Keys
    BY KeyFacts DEF Base, Process
  <1>2. seq \in Nat /\ seq >= p.own /\ seq >= p.fight
    <2>1. CASE p.fight > p.db[r]
      <3> DEFINE S == {p.own, p.fight + 1}
      <3>1. \E m \in S : \A y \in S : m >= y
        <4>1. CASE p.own >= p.fight + 1
          BY <1>1, <4>1
        <4>2. CASE p.fight + 1 >= p.own
          BY <1>1, <4>2
        <4> QED BY <1>1, <4>1, <4>2
      <3>2. Max(S) \in S /\ \A y \in S : Max(S) >= y
        BY <3>1 DEF Max
      <3>3. Max(S) \in Nat /\ Max(S) >= p.own /\ Max(S) >= p.fight
        BY <1>1, <3>2
      <3> QED BY <2>1, <3>3
    <2>2. CASE ~(p.fight > p.db[r])
      <3>1. p.db[r] \in Nat /\ p.own > p.db[r]
        BY <1>1 DEF Base
      <3> QED BY <1>1, <2>2, <3>1
    <2> QED BY <2>1, <2>2
  <1>3. OriginateLocalLsas(r, p) = q
    BY <1>1, Zenon DEF OriginateLocalLsas
  <1> HIDE DEF seq
  <1>4. p.db[r] \in Nat /\ p.own > p.db[r]
    BY <1>1 DEF Base
  <1>5. seq > p.db[r] /\ seq + 1 \in Nat
    BY <1>1, <1>2, <1>4
  <1>6. D \in [Keys -> Nat] /\ D[r] = seq /\ \A k \in Keys : D[k] >= p.db[k]
    BY <1>1, <1>2, <1>5
  <1>7. L \in SUBSET Lsas /\ OnePerKey(L) /\ (\A x \in L : D[x[1]] = x[2]) /\ L # {}
    <2>1. seq \in Nat \ {0}
      BY <1>2, <1>4, <1>5
    <2> QED BY <1>1, <1>6, <2>1 DEF Lsas, Generation, OnePerKey
  <1>8. n \in Neighbor
    <2>1. OnePerKey(p.nb.retransmissions)
      BY DEF Base
    <2> QED BY <1>1, <1>7, <2>1, QueueFields
  <1> HIDE DEF D, L, n
  <1>9. q \in Process /\ q.db = D /\ q.own = seq + 1 /\ q.nb = n
    BY <1>1, <1>5, <1>6, <1>8 DEF Process
  <1> HIDE DEF q
  <1>10. q.own > q.db[r] /\ q.db[r] >= p.fight
    BY <1>2, <1>6, <1>9
  <1>11. CASE p.nb.state = Full
    <2>1. q.nb = Queue(p.nb, L)
      BY <1>9, <1>11 DEF n
    <2>2. p.nb.state >= Exchange
      BY <1>11 DEF Full, Exchange
    <2>3. /\ Base(r, q) /\ (Orderly(p) /\ L # {} => Orderly(q))
          /\ Advances(r, p, q, {})
      BY <1>6, <1>7, <1>9, <1>10, <2>1, <2>2, QueueKeeps
    <2> QED BY <1>3, <1>7, <2>3
  <1>12. CASE p.nb.state # Full
    <2>1. q.nb = p.nb
      BY <1>9, <1>12 DEF n
    <2>2. ASSUME NEW e \in p.nb.retransmissions PROVE D[e[1]] >= e[2]
      <3>1. e[1] \in Keys /\ e[2] \in Nat
        BY <1>1 DEF Neighbor, Lsas, Generation
      <3>2. p.db[e[1]] >= e[2] /\ p.db[e[1]] \in Nat
        BY <1>1, <3>1 DEF Base
      <3>3. D[e[1]] >= p.db[e[1]] /\ D[e[1]] \in Nat
        BY <1>6, <3>1
      <3> QED BY <3>1, <3>2, <3>3
    <2>3. Base(r, q)
      BY <1>9, <1>10, <2>1, <2>2 DEF Base
    <2>4. Orderly(p) => Orderly(q)
      BY <2>1 DEF Orderly
    <2>5. Advances(r, p, q, {})
      BY <1>1, <1>6, <1>9, <1>10, <2>1, AdvanceGrown
    <2> QED BY <1>3, <2>3, <2>4, <2>5
  <1> QED BY <1>11, <1>12

\* The headers of a description are within the summary list.
LEMMA HeaderFacts ==
  ASSUME NEW nb \in Neighbor, nb.cursor <= Len(nb.summaries)
  PROVE  HeaderCount(nb) \in Nat /\ nb.cursor + HeaderCount(nb) <= Len(nb.summaries)
  <1> DEFINE a == Len(nb.summaries) - nb.cursor
             S == {a, HeaderCapacity}
  <1>1. nb.cursor \in Nat /\ Len(nb.summaries) \in Nat /\ a \in Nat
    BY DEF Neighbor
  <1>2. HeaderCapacity \in Nat
    BY OspfAdjacencyAssumption
  <1>3. \E m \in S : \A y \in S : m =< y
    <2> HIDE DEF a
    <2>1. CASE a <= HeaderCapacity
      BY <1>1, <1>2, <2>1
    <2>2. CASE HeaderCapacity <= a
      BY <1>1, <1>2, <2>2
    <2> QED BY <1>1, <1>2, <2>1, <2>2
  <1>4. Min(S) \in S /\ \A y \in S : Min(S) =< y
    BY <1>3 DEF Min
  <1>5. Min(S) \in Nat /\ Min(S) <= a
    BY <1>1, <1>2, <1>4
  <1>6. HeaderCount(nb) \in {0, Min(S)}
    BY DEF HeaderCount
  <1> HIDE DEF S
  <1> QED BY <1>1, <1>5, <1>6

\* The timer of a packet that was sent is armed, or stays idle.
LEMMA SentType ==
  ASSUME NEW timer \in Timer
  PROVE  /\ Sent(timer) \in Timer /\ Sent(timer) # "pending"
         /\ Sent(timer) = "idle" <=> timer = "idle"
  BY DEF Sent, Timer

\* The description of the turn moves the cursor and, sent by a slave that is
\* done, ends the exchange.
LEMMA DescriptionSentKeeps ==
  ASSUME NEW r \in Routers, NEW p, Base(r, p)
  PROVE  /\ Base(r, DescriptionSent(r, p))
         /\ Orderly(p) => Orderly(DescriptionSent(r, p))
         /\ Advances(r, p, DescriptionSent(r, p), {})
         /\ DescriptionSent(r, p).db = p.db
  <1> DEFINE c == p.nb.cursor + HeaderCount(p.nb)
             more == More(p.nb)
             n == [p.nb EXCEPT !.cursor = c, !.sentMore = more, !.dd = "armed"]
             s == [p EXCEPT !.nb = n]
             e == ExchangeDone(s, Sent(p.nb.request))
  <1>1. p \in Process /\ p.nb \in Neighbor
    BY DEF Base, Process
  <1>2. c \in Nat /\ c <= Len(p.nb.summaries) /\ more \in BOOLEAN
    <2>1. HeaderCount(p.nb) \in Nat /\ c <= Len(p.nb.summaries)
      BY <1>1, HeaderFacts DEF Base
    <2>2. p.nb.cursor \in Nat
      BY <1>1 DEF Neighbor
    <2>3. more \in BOOLEAN
      BY DEF More
    <2> QED BY <2>1, <2>2, <2>3
  <1>3. [p EXCEPT !.nb.cursor = @ + HeaderCount(p.nb),
                  !.nb.sentMore = More(p.nb), !.nb.dd = "armed"] = s
    <2> HIDE DEF more
    <2> QED BY <1>1 DEF Process, Neighbor, more
  <1>4. \/ p.nb.dd # "pending" /\ DescriptionSent(r, p) = p
        \/ p.nb.dd = "pending" /\ DescriptionSent(r, p) = s
        \/ p.nb.dd = "pending" /\ p.nb.finish /\ DescriptionSent(r, p) = e
    <2> HIDE DEF s
    <2> QED BY <1>3, Zenon DEF DescriptionSent
  <1> HIDE DEF c, more
  <1>5. /\ n \in Neighbor /\ n.cursor = c /\ n.dd = "armed"
        /\ n.summaries = p.nb.summaries /\ n.state = p.nb.state /\ n.finish = p.nb.finish
        /\ n.requests = p.nb.requests /\ n.request = p.nb.request
        /\ n.retransmissions = p.nb.retransmissions /\ n.update = p.nb.update
        /\ n.described = p.nb.described
    BY <1>1, <1>2 DEF Neighbor, Timer
  <1> HIDE DEF n
  <1>6. s \in Process /\ s.nb = n /\ s.db = p.db /\ s.own = p.own /\ s.fight = p.fight
    BY <1>1, <1>5 DEF Process
  <1> HIDE DEF s
  <1>7. Base(r, s)
    BY <1>2, <1>5, <1>6, BaseStep DEF Base
  <1>8. Orderly(p) /\ p.nb.dd = "pending" => Orderly(s)
    BY <1>5, <1>6 DEF Orderly
  <1>9. Sent(p.nb.request) \in Timer /\ Sent(p.nb.request) # "pending"
    BY <1>1, SentType DEF Neighbor
  <1>10. /\ e \in Process /\ e.db = s.db /\ e.own = s.own /\ e.fight = s.fight
         /\ e.nb.described = s.nb.described
         /\ e.nb.dd = "idle" /\ e.nb.finish = FALSE
         /\ e.nb.cursor = s.nb.cursor /\ e.nb.summaries = s.nb.summaries
         /\ e.nb.retransmissions = s.nb.retransmissions
         /\ e.nb.update = s.nb.update /\ e.nb.requests = s.nb.requests
         /\ e.nb.state = IF s.nb.state = Exchange
                           THEN IF s.nb.requests # {} THEN Loading ELSE Full
                           ELSE s.nb.state
         /\ e.nb.request = IF e.nb.state = Loading THEN "pending" ELSE Sent(p.nb.request)
    BY <1>6, <1>9, ExchangeDoneFields
  <1> HIDE DEF e
  <1>11. Base(r, e)
    <2>1. s.nb.state \in Down .. Full
      BY <1>5, <1>6 DEF Neighbor
    <2>2. e.nb.state <= TwoWay => s.nb.state <= TwoWay
      BY <1>10, <2>1 DEF Exchange, Loading, Full, TwoWay, Down
    <2>3. e.nb.cursor <= Len(e.nb.summaries)
      BY <1>7, <1>10 DEF Base
    <2>4. e.nb.state <= TwoWay => e.nb.retransmissions = {}
      BY <1>7, <1>10, <2>2 DEF Base
    <2> QED BY <1>7, <1>10, <2>3, <2>4, BaseStep
  <1>12. Orderly(p) /\ p.nb.finish => Orderly(e)
    <2> SUFFICES ASSUME Orderly(p), p.nb.finish PROVE Orderly(e)
      OBVIOUS
    <2>1. s.nb.state = Exchange
      BY <1>5, <1>6 DEF Orderly
    <2> QED BY <1>5, <1>6, <1>9, <1>10, <2>1 DEF Orderly, ExStart, Exchange, Loading, Full
  <1>13. Advances(r, p, s, {})
    BY <1>1, <1>5, <1>6, AdvanceSame
  <1>14. Advances(r, p, e, {})
    <2>1. p.nb.state \in Down .. Full
      BY <1>1 DEF Neighbor
    <2>2. e.nb.state <= TwoWay => p.nb.state <= TwoWay
      BY <1>5, <1>6, <1>10, <2>1 DEF Exchange, Loading, Full, TwoWay, Down
    <2> QED BY <1>1, <1>5, <1>6, <1>10, <2>2, AdvanceSame
  <1>15. Advances(r, p, p, {})
    BY <1>1, AdvanceNot
  <1> QED BY <1>4, <1>6, <1>7, <1>8, <1>10, <1>11, <1>12, <1>13, <1>14, <1>15

\* What the rest of the turn clears.
LEMMA TurnKeeps ==
  ASSUME NEW r \in Routers, NEW d, Base(r, d), NEW q,
         q = [d EXCEPT !.hello = FALSE, !.nb.acks = {},
                       !.nb.update = Sent(@), !.nb.request = Sent(@)]
  PROVE  /\ Base(r, q)
         /\ Orderly(d) => Orderly(q)
         /\ Advances(r, d, q, {}) /\ q.db = d.db
  <1>1. d \in Process /\ d.nb \in Neighbor
    BY DEF Base, Process
  <1> DEFINE u == Sent(d.nb.update)
             s == Sent(d.nb.request)
             n == [d.nb EXCEPT !.acks = {}, !.update = u, !.request = s]
  <1>2. /\ u \in Timer /\ u # "pending" /\ (u = "idle" <=> d.nb.update = "idle")
        /\ s \in Timer /\ s # "pending" /\ (s = "idle" <=> d.nb.request = "idle")
    BY <1>1, SentType DEF Neighbor
  <1>3. q = [d EXCEPT !.hello = FALSE, !.nb = n]
    BY <1>1 DEF Process, Neighbor
  <1> HIDE DEF u, s
  <1>4. /\ n \in Neighbor /\ n.update = u /\ n.request = s
        /\ n.cursor = d.nb.cursor /\ n.summaries = d.nb.summaries
        /\ n.state = d.nb.state /\ n.finish = d.nb.finish /\ n.dd = d.nb.dd
        /\ n.requests = d.nb.requests /\ n.retransmissions = d.nb.retransmissions
        /\ n.described = d.nb.described
    BY <1>1, <1>2 DEF Neighbor
  <1> HIDE DEF n
  <1>5. q \in Process /\ q.nb = n /\ q.db = d.db /\ q.own = d.own /\ q.fight = d.fight
    BY <1>1, <1>3, <1>4 DEF Process
  <1>6. Base(r, q)
    BY <1>4, <1>5, BaseStep DEF Base
  <1>7. Orderly(d) => Orderly(q)
    BY <1>2, <1>4, <1>5 DEF Orderly
  <1>8. Advances(r, d, q, {})
    BY <1>1, <1>4, <1>5, AdvanceSame
  <1> QED BY <1>5, <1>6, <1>7, <1>8

\* An emitter yields one packet or none.
LEMMA WhenType ==
  ASSUME NEW due \in BOOLEAN, NEW packet, NEW S, due => packet \in S
  PROVE  When(due, packet) \in Seq(S)
  BY DEF When

\* What a turn writes on the link: requests are never empty.
LEMMA EmittedPackets ==
  ASSUME NEW r \in Routers, NEW p, NEW d, Base(r, p), Base(r, d)
  PROVE  LET s == EmitHello(p) \o EmitAcknowledgment(p)
                    \o EmitDatabaseDescription(r, p.nb)
                    \o EmitLinkStateUpdate(d) \o EmitLinkStateRequest(d)
         IN /\ s \in Seq(Packet)
            /\ Orderly(d) => s \in Seq(AskingPacket)
            /\ \A c : Accounted(r, p) /\ d.db = p.db
                       /\ (\A k \in d.nb.requests : c[k] > 0)
                       => {EmitHello(p), EmitAcknowledgment(p),
                           EmitDatabaseDescription(r, p.nb),
                           EmitLinkStateUpdate(d), EmitLinkStateRequest(d)}
                          \subseteq Seq(TrueTo(p.db, c))
  <1> DEFINE H == [type |-> "hello", sees |-> p.nb.state # Down]
             A == [type |-> "ack", lsas |-> p.nb.acks]
             hs == {p.nb.summaries[i] :
                      i \in p.nb.cursor + 1 .. p.nb.cursor + HeaderCount(p.nb)}
             D == [type |-> "dd", init |-> ~p.nb.negotiated, more |-> More(p.nb),
                   master |-> ~p.nb.negotiated \/ Master(r), seq |-> p.nb.seq,
                   headers |-> hs]
             ls == {<<e[1], d.db[e[1]]>> : e \in d.nb.retransmissions}
             U == [type |-> "update", lsas |-> ls]
             R == [type |-> "request", keys |-> d.nb.requests]
  <1>1. p.nb \in Neighbor /\ d.nb \in Neighbor /\ d.db \in [Keys -> Nat]
    BY DEF Base, Process
  <1>2. H \in HelloPacket /\ A \in AckPacket /\ R \in RequestPacket
    BY <1>1 DEF HelloPacket, AckPacket, RequestPacket, Neighbor
  <1>3. D \in DescriptionPacket
    <2>1. HeaderCount(p.nb) \in Nat /\ p.nb.cursor + HeaderCount(p.nb) <= Len(p.nb.summaries)
      BY <1>1, HeaderFacts DEF Base
    <2>2. p.nb.cursor \in Nat /\ p.nb.summaries \in Seq(Lsas) /\ p.nb.seq \in Nat
          /\ p.nb.negotiated \in BOOLEAN
      BY <1>1 DEF Neighbor
    <2>3. hs \in SUBSET Lsas
      BY <2>1, <2>2
    <2>4. More(p.nb) \in BOOLEAN /\ (~p.nb.negotiated) \in BOOLEAN
          /\ (~p.nb.negotiated \/ Master(r)) \in BOOLEAN
      BY DEF More
    <2> HIDE DEF hs
    <2> QED BY <2>2, <2>3, <2>4 DEF DescriptionPacket
  <1>4. U \in UpdatePacket
    <2>1. ASSUME NEW e \in d.nb.retransmissions
          PROVE  <<e[1], d.db[e[1]]>> \in Lsas
      <3>1. e[1] \in Keys /\ e[2] \in Nat /\ e[2] # 0
        BY <1>1 DEF Neighbor, Lsas, Generation
      <3>2. d.db[e[1]] \in Nat /\ d.db[e[1]] >= e[2]
        BY <1>1, <3>1 DEF Base
      <3>3. d.db[e[1]] \in Nat \ {0}
        BY <3>1, <3>2
      <3> QED BY <3>1, <3>3 DEF Lsas, Generation
    <2>2. ls \in SUBSET Lsas
      BY <2>1
    <2>3. ASSUME NEW x \in ls, NEW y \in ls, x[1] = y[1] PROVE x = y
      <3>1. PICK e \in d.nb.retransmissions : x = <<e[1], d.db[e[1]]>>
        OBVIOUS
      <3>2. PICK g \in d.nb.retransmissions : y = <<g[1], d.db[g[1]]>>
        OBVIOUS
      <3> QED BY <2>3, <3>1, <3>2
    <2> HIDE DEF ls
    <2>4. OnePerKey(ls)
      BY <2>3 DEF OnePerKey
    <2> QED BY <2>2, <2>4 DEF UpdatePacket
  <1>5. {H, A, D, U, R} \subseteq Packet
    BY <1>2, <1>3, <1>4 DEF Packet
  <1>6. {H, A, D, U} \subseteq AskingPacket
    BY <1>5 DEF AskingPacket, Asking
  <1>7. Orderly(d) /\ d.nb.request = "pending" => R \in AskingPacket
    <2> SUFFICES ASSUME Orderly(d), d.nb.request = "pending" PROVE R \in AskingPacket
      OBVIOUS
    <2>1. d.nb.state \in Down .. Full
      BY <1>1 DEF Neighbor
    <2>2. d.nb.requests # {}
      BY <2>1 DEF Orderly, Down, Loading, Full
    <2> QED BY <1>5, <2>2 DEF AskingPacket, Asking
  <1>13. ASSUME NEW c, Accounted(r, p), d.db = p.db, \A k \in d.nb.requests : c[k] > 0
         PROVE  {H, A, D, U, R} \subseteq TrueTo(p.db, c)
    <2>1. /\ Headers(H) = {} /\ Instances(H) = {} /\ Asked(H) = {}
          /\ Headers(A) = {} /\ Instances(A) = {} /\ Asked(A) = {}
      BY DEF Headers, Instances, Asked
    <2>2. Headers(D) = hs /\ Instances(D) = {} /\ Asked(D) = {}
      <3> HIDE DEF hs
      <3> QED BY DEF Headers, Instances, Asked
    <2>3. Headers(U) = {} /\ Instances(U) = ls /\ Asked(U) = {}
      <3> HIDE DEF ls
      <3> QED BY DEF Headers, Instances, Asked
    <2>4. Headers(R) = {} /\ Instances(R) = {} /\ Asked(R) = d.nb.requests
      BY DEF Headers, Instances, Asked
    <2>5. ASSUME NEW x \in hs PROVE p.db[x[1]] >= x[2]
      <3>1. PICK i \in p.nb.cursor + 1 .. p.nb.cursor + HeaderCount(p.nb) :
              x = p.nb.summaries[i]
        OBVIOUS
      <3>2. HeaderCount(p.nb) \in Nat /\ p.nb.cursor + HeaderCount(p.nb) <= Len(p.nb.summaries)
        <4>1. p.nb.cursor <= Len(p.nb.summaries)
          BY DEF Base
        <4> QED BY <1>1, <4>1, HeaderFacts
      <3>4. p.nb.cursor \in Nat /\ Len(p.nb.summaries) \in Nat
        BY <1>1 DEF Neighbor
      <3>3. i \in 1 .. Len(p.nb.summaries)
        BY <3>1, <3>2, <3>4
      <3> QED BY <1>13, <3>1, <3>3 DEF Accounted
    <2>6. ASSUME NEW y \in ls PROVE y[2] = p.db[y[1]]
      <3>1. PICK e \in d.nb.retransmissions : y = <<e[1], d.db[e[1]]>>
        OBVIOUS
      <3> QED BY <1>13, <3>1
    <2> HIDE DEF H, A, D, U, R, hs, ls
    <2>7. /\ H \in TrueTo(p.db, c) /\ A \in TrueTo(p.db, c)
          /\ D \in TrueTo(p.db, c) /\ U \in TrueTo(p.db, c)
      BY <1>5, <2>1, <2>2, <2>3, <2>5, <2>6 DEF TrueTo
    <2>8. R \in TrueTo(p.db, c)
      BY <1>5, <1>13, <2>4 DEF TrueTo
    <2> QED BY <2>7, <2>8
  <1> HIDE DEF H, A, D, U, R
  <1>8. p.hello \in BOOLEAN
    BY DEF Base, Process
  <1>9. /\ EmitHello(p) = When(p.hello, H)
        /\ EmitAcknowledgment(p) = When(p.nb.acks # {}, A)
        /\ EmitDatabaseDescription(r, p.nb) = When(p.nb.dd = "pending", D)
        /\ EmitLinkStateUpdate(d) = When(d.nb.update = "pending", U)
        /\ EmitLinkStateRequest(d) = When(d.nb.request = "pending", R)
    BY DEF EmitHello, EmitAcknowledgment, EmitDatabaseDescription, EmitLinkStateUpdate,
           EmitLinkStateRequest, H, A, D, U, R
  <1>10. ASSUME NEW S, {H, A, D, U} \subseteq S, d.nb.request = "pending" => R \in S
         PROVE  /\ EmitHello(p) \o EmitAcknowledgment(p)
                     \o EmitDatabaseDescription(r, p.nb)
                     \o EmitLinkStateUpdate(d) \o EmitLinkStateRequest(d) \in Seq(S)
                /\ {EmitHello(p), EmitAcknowledgment(p),
                    EmitDatabaseDescription(r, p.nb),
                    EmitLinkStateUpdate(d), EmitLinkStateRequest(d)} \subseteq Seq(S)
    <2>1. EmitHello(p) \in Seq(S)
      BY <1>8, <1>9, <1>10, WhenType
    <2>2. EmitAcknowledgment(p) \in Seq(S)
      BY <1>9, <1>10, WhenType
    <2>3. EmitDatabaseDescription(r, p.nb) \in Seq(S)
      <3>1. D \in S /\ (p.nb.dd = "pending") \in BOOLEAN
        BY <1>10
      <3>2. When(p.nb.dd = "pending", D) \in Seq(S)
        BY <3>1, WhenType
      <3> QED BY <1>9, <3>2
    <2>4. EmitLinkStateUpdate(d) \in Seq(S)
      BY <1>9, <1>10, WhenType
    <2>5. EmitLinkStateRequest(d) \in Seq(S)
      BY <1>9, <1>10, WhenType
    <2> QED BY <2>1, <2>2, <2>3, <2>4, <2>5
  <1>11. EmitHello(p) \o EmitAcknowledgment(p)
           \o EmitDatabaseDescription(r, p.nb)
           \o EmitLinkStateUpdate(d) \o EmitLinkStateRequest(d) \in Seq(Packet)
    BY <1>5, <1>10
  <1>12. Orderly(d) =>
           EmitHello(p) \o EmitAcknowledgment(p)
             \o EmitDatabaseDescription(r, p.nb)
             \o EmitLinkStateUpdate(d) \o EmitLinkStateRequest(d) \in Seq(AskingPacket)
    BY <1>6, <1>7, <1>10
  <1>14. ASSUME NEW c, Accounted(r, p), d.db = p.db, \A k \in d.nb.requests : c[k] > 0
         PROVE  {EmitHello(p), EmitAcknowledgment(p), EmitDatabaseDescription(r, p.nb),
                 EmitLinkStateUpdate(d), EmitLinkStateRequest(d)}
                \subseteq Seq(TrueTo(p.db, c))
    <2>1. {H, A, D, U, R} \subseteq TrueTo(p.db, c)
      BY <1>13, <1>14
    <2> QED BY <1>10, <2>1
  <1> QED BY <1>11, <1>12, <1>14

-----------------------------------------------------------------------------
(***************************************************************************)
(* The actions.                                                            *)
(***************************************************************************)

\* A step of one router that leaves the link alone.
LEMMA OneRouterStep ==
  ASSUME BaseInv, NEW r \in Routers, NEW q, Base(r, q),
         proc' = [proc EXCEPT ![r] = q], UNCHANGED link,
         faults' \in 0 .. MaxFaults, lost' \in BOOLEAN
  PROVE  BaseInv' /\ (OrderlyInv /\ Orderly(q) => OrderlyInv')
  <1>1. proc \in [Routers -> Process] /\ q \in Process
    BY DEF BaseInv, Base
  <1>2. proc' \in [Routers -> Process] /\ proc'[r] = q
        /\ \A s \in Routers : s # r => proc'[s] = proc[s]
    BY <1>1
  <1>3. \A s \in Routers : Base(s, proc'[s])
    BY <1>2 DEF BaseInv
  <1>4. BaseInv'
    BY <1>2, <1>3 DEF BaseInv
  <1>5. OrderlyInv /\ Orderly(q) => \A s \in Routers : Orderly(proc'[s])
    BY <1>2 DEF OrderlyInv
  <1>6. OrderlyInv /\ Orderly(q) => OrderlyInv'
    BY <1>5 DEF OrderlyInv
  <1> QED BY <1>4, <1>6

\* A whole packet: each type has its lemma above.
LEMMA ReceiveInv ==
  ASSUME BaseInv, NEW r \in Routers, Receive(r)
  PROVE  BaseInv' /\ (OrderlyInv /\ RequestsAnswerable => OrderlyInv')
  <1> DEFINE packet == Head(link[r])
  <1>1. proc \in [Routers -> Process] /\ link \in [Routers -> Seq(Packet)]
        /\ Base(r, proc[r]) /\ faults \in 0 .. MaxFaults /\ lost \in BOOLEAN
    BY DEF BaseInv
  <1>2. link[r] # <<>> /\ link[r] \in Seq(Packet)
    BY <1>1 DEF Receive
  <1>3. packet \in Packet /\ Tail(link[r]) \in Seq(Packet)
    BY <1>2
  <1>4. PICK early : proc' = [proc EXCEPT ![r] = Handle(r, proc[r], packet, early)]
    BY DEF Receive
  <1> DEFINE q == Handle(r, proc[r], packet, early)
  <1>5. Base(r, q)
    BY <1>1, <1>3, HandleKeeps
  <1>6. OrderlyInv /\ RequestsAnswerable =>
          /\ Orderly(q) /\ Tail(link[r]) \in Seq(AskingPacket)
    <2> SUFFICES ASSUME OrderlyInv, RequestsAnswerable
                 PROVE  Orderly(q) /\ Tail(link[r]) \in Seq(AskingPacket)
      OBVIOUS
    <2>1. Orderly(proc[r]) /\ link[r] \in Seq(AskingPacket)
      BY DEF OrderlyInv
    <2>2. packet \in AskingPacket /\ Tail(link[r]) \in Seq(AskingPacket)
      BY <1>2, <2>1
    <2>3. Asking(packet)
      BY <2>2 DEF AskingPacket
    <2>4. packet.type = "request" /\ proc[r].nb.state >= Exchange =>
            \A k \in packet.keys : proc[r].db[k] > 0
      BY <1>2 DEF RequestsAnswerable
    <2> HIDE DEF packet
    <2> QED BY <1>1, <1>3, <2>1, <2>2, <2>3, <2>4, HandleKeeps
  <1>7. /\ link' = [link EXCEPT ![r] = Tail(link[r])]
        /\ UNCHANGED <<faults, lost>> /\ proc' = [proc EXCEPT ![r] = q]
    BY <1>4 DEF Receive
  <1> HIDE DEF q, packet
  <1>8. q \in Process
    BY <1>5 DEF Base
  <1>9. proc' \in [Routers -> Process] /\ link' \in [Routers -> Seq(Packet)]
    BY <1>1, <1>3, <1>7, <1>8
  <1>10. \A s \in Routers : proc'[s] = (IF s = r THEN q ELSE proc[s])
    BY <1>1, <1>7
  <1>11. \A s \in Routers : Base(s, proc'[s])
    BY <1>5, <1>10 DEF BaseInv
  <1>12. BaseInv'
    BY <1>1, <1>7, <1>9, <1>11 DEF BaseInv
  <1>13. OrderlyInv /\ RequestsAnswerable => OrderlyInv'
    <2> SUFFICES ASSUME OrderlyInv, RequestsAnswerable, NEW s \in Routers
                 PROVE  Orderly(proc'[s]) /\ link'[s] \in Seq(AskingPacket)
      BY DEF OrderlyInv
    <2>1. Orderly(proc'[s])
      BY <1>6, <1>10 DEF OrderlyInv
    <2>2. link'[s] \in Seq(AskingPacket)
      BY <1>1, <1>6, <1>7 DEF OrderlyInv
    <2> QED BY <2>1, <2>2
  <1> QED BY <1>12, <1>13

\* A whole owner turn: what it sends is well formed, and a request names an LSA.
LEMMA EmitInv ==
  ASSUME BaseInv, NEW r \in Routers, NEW p, Base(r, p), Emit(r, p)
  PROVE  BaseInv' /\ (OrderlyInv /\ Orderly(p) => OrderlyInv')
  <1> DEFINE d == DescriptionSent(r, p)
             q == [d EXCEPT !.hello = FALSE, !.nb.acks = {},
                            !.nb.update = Sent(@), !.nb.request = Sent(@)]
             s == EmitHello(p) \o EmitAcknowledgment(p)
                    \o EmitDatabaseDescription(r, p.nb)
                    \o EmitLinkStateUpdate(d) \o EmitLinkStateRequest(d)
             o == Other(r)
  <1>1. proc \in [Routers -> Process] /\ link \in [Routers -> Seq(Packet)]
        /\ faults \in 0 .. MaxFaults /\ lost \in BOOLEAN /\ o \in Routers
    BY KeyFacts DEF BaseInv
  <1>2. Base(r, d) /\ (Orderly(p) => Orderly(d))
    BY DescriptionSentKeeps
  <1>3. /\ proc' = [proc EXCEPT ![r] = q]
        /\ link' = [link EXCEPT ![o] =
                      @ \o EmitHello(p) \o EmitAcknowledgment(p)
                        \o EmitDatabaseDescription(r, p.nb)
                        \o EmitLinkStateUpdate(d) \o EmitLinkStateRequest(d)]
        /\ UNCHANGED <<faults, lost>>
    BY Zenon DEF Emit
  <1> HIDE DEF d
  <1>4. Base(r, q) /\ (Orderly(d) => Orderly(q))
    BY <1>2, TurnKeeps
  <1>5. s \in Seq(Packet) /\ (Orderly(d) => s \in Seq(AskingPacket))
    BY <1>2, EmittedPackets
  <1> HIDE DEF q
  <1>6. q \in Process
    BY <1>4 DEF Base
  <1>7. \A x \in Routers : proc'[x] = (IF x = r THEN q ELSE proc[x])
    BY <1>1, <1>3
  <1>8. \A x \in Routers : Base(x, proc'[x])
    BY <1>4, <1>7 DEF BaseInv
  <1>9. ASSUME NEW S, link[o] \in Seq(S), s \in Seq(S)
        PROVE  link'[o] \in Seq(S)
    BY <1>1, <1>3, <1>9
  <1>10. \A x \in Routers : x # o => link'[x] = link[x]
    BY <1>1, <1>3
  <1>11. link' \in [Routers -> Seq(Packet)]
    BY <1>1, <1>3, <1>5, <1>9, <1>10
  <1>12. proc' \in [Routers -> Process]
    BY <1>1, <1>3, <1>6
  <1>13. BaseInv'
    BY <1>1, <1>3, <1>8, <1>11, <1>12 DEF BaseInv
  <1>14. OrderlyInv /\ Orderly(p) => OrderlyInv'
    <2> SUFFICES ASSUME OrderlyInv, Orderly(p), NEW x \in Routers
                 PROVE  Orderly(proc'[x]) /\ link'[x] \in Seq(AskingPacket)
      BY DEF OrderlyInv
    <2>1. Orderly(proc'[x])
      BY <1>2, <1>4, <1>7 DEF OrderlyInv
    <2>2. link[x] \in Seq(AskingPacket) /\ link[o] \in Seq(AskingPacket)
      BY <1>1 DEF OrderlyInv
    <2>3. link'[x] \in Seq(AskingPacket)
      BY <1>2, <1>5, <1>9, <1>10, <2>2
    <2> QED BY <2>1, <2>3
  <1> QED BY <1>13, <1>14

\* A timer becomes due only if there is something to send.
LEMMA ElapseInv ==
  ASSUME BaseInv, NEW r \in Routers, Elapse(r)
  PROVE  /\ BaseInv' /\ (OrderlyInv => OrderlyInv')
         /\ \A s \in Routers : Advances(s, proc[s], proc'[s], {})
  <1> DEFINE Due(timer, some) == IF timer = "armed" /\ some THEN "pending" ELSE timer
             Later(p) == [p EXCEPT !.held = FALSE, !.recent = {}]
             Fired(p) ==
               [p EXCEPT !.hello = TRUE,
                  !.nb.dd = Due(@, TRUE),
                  !.nb.request = Due(@, p.nb.requests # {}),
                  !.nb.update = Due(@, p.nb.retransmissions # {})]
  <1>1. proc \in [Routers -> Process] /\ link \in [Routers -> Seq(Packet)]
        /\ faults \in 0 .. MaxFaults /\ lost \in BOOLEAN
    BY DEF BaseInv
  <1>2. /\ proc' = [s \in Routers |-> IF s = r THEN Fired(Later(proc[s])) ELSE Later(proc[s])]
        /\ UNCHANGED <<link, faults, lost>>
    BY DEF Elapse
  <1>3. ASSUME NEW s \in Routers, NEW p, Base(s, p)
        PROVE  /\ Base(s, Later(p)) /\ (Orderly(p) => Orderly(Later(p)))
               /\ Advances(s, p, Later(p), {})
    <2> DEFINE q == Later(p)
    <2>1. p \in Process
      BY <1>3 DEF Base
    <2>2. /\ q \in Process /\ q.nb = p.nb /\ q.db = p.db /\ q.own = p.own
          /\ q.fight = p.fight
      BY <2>1 DEF Process
    <2> HIDE DEF q
    <2>3. Base(s, q)
      BY <1>3, <2>2, BaseStep DEF Base
    <2>4. Orderly(p) => Orderly(q)
      BY <2>2 DEF Orderly
    <2>5. Advances(s, p, q, {})
      BY <2>1, <2>2, AdvanceSame
    <2> QED BY <2>3, <2>4, <2>5 DEF q
  <1>4. ASSUME NEW s \in Routers, NEW p, Base(s, p)
        PROVE  /\ Base(s, Fired(p)) /\ (Orderly(p) => Orderly(Fired(p)))
               /\ Advances(s, p, Fired(p), {})
    <2> DEFINE d == Due(p.nb.dd, TRUE)
               k == Due(p.nb.request, p.nb.requests # {})
               u == Due(p.nb.update, p.nb.retransmissions # {})
               n == [p.nb EXCEPT !.dd = d, !.request = k, !.update = u]
               q == Fired(p)
    <2>1. p \in Process /\ p.nb \in Neighbor
      BY <1>4 DEF Base, Process
    <2>2. p.nb.dd \in Timer /\ p.nb.request \in Timer /\ p.nb.update \in Timer
      BY <2>1 DEF Neighbor
    <2>3. /\ d \in Timer /\ (d = "idle" <=> p.nb.dd = "idle")
          /\ k \in Timer /\ (k = "idle" <=> p.nb.request = "idle")
          /\ k = "pending" => p.nb.request = "pending" \/ p.nb.requests # {}
          /\ u \in Timer /\ (u = "idle" <=> p.nb.update = "idle")
          /\ u = "pending" => p.nb.update = "pending" \/ p.nb.retransmissions # {}
      BY <2>2 DEF Timer
    <2>4. q = [p EXCEPT !.hello = TRUE, !.nb = n]
      <3> HIDE DEF Due
      <3> QED BY <2>1 DEF Process, Neighbor
    <2> HIDE DEF d, k, u, q
    <2>5. /\ n \in Neighbor /\ n.dd = d /\ n.request = k /\ n.update = u
          /\ n.cursor = p.nb.cursor /\ n.summaries = p.nb.summaries
          /\ n.state = p.nb.state /\ n.finish = p.nb.finish
          /\ n.requests = p.nb.requests /\ n.retransmissions = p.nb.retransmissions
          /\ n.described = p.nb.described
      BY <2>1, <2>3 DEF Neighbor
    <2> HIDE DEF n
    <2>6. /\ q \in Process /\ q.nb = n /\ q.db = p.db /\ q.own = p.own
          /\ q.fight = p.fight
      BY <2>1, <2>4, <2>5 DEF Process
    <2>7. Base(s, q)
      BY <1>4, <2>5, <2>6, BaseStep DEF Base
    <2>8. Orderly(p) => Orderly(q)
      BY <2>3, <2>5, <2>6 DEF Orderly
    <2>9. Advances(s, p, q, {})
      BY <2>1, <2>5, <2>6, AdvanceSame
    <2> QED BY <2>7, <2>8, <2>9 DEF q
  <1> HIDE DEF Later, Fired
  <1>5. ASSUME NEW s \in Routers
        PROVE  /\ Base(s, proc'[s]) /\ (Orderly(proc[s]) => Orderly(proc'[s]))
               /\ Advances(s, proc[s], proc'[s], {})
    <2>1. Base(s, proc[s])
      BY DEF BaseInv
    <2>2. /\ Base(s, Later(proc[s])) /\ (Orderly(proc[s]) => Orderly(Later(proc[s])))
          /\ Advances(s, proc[s], Later(proc[s]), {})
      BY <1>3, <2>1
    <2>3. /\ Base(s, Fired(Later(proc[s])))
          /\ Orderly(Later(proc[s])) => Orderly(Fired(Later(proc[s])))
          /\ Advances(s, Later(proc[s]), Fired(Later(proc[s])), {})
      BY <1>4, <2>2
    <2>4. proc'[s] \in {Later(proc[s]), Fired(Later(proc[s]))}
      BY <1>2
    <2>5. proc[s] \in Process /\ Later(proc[s]) \in Process
          /\ Fired(Later(proc[s])) \in Process
      BY <2>1, <2>2, <2>3 DEF Base
    <2>6. Advances(s, proc[s], Fired(Later(proc[s])), {})
      BY <2>2, <2>3, <2>5, AdvanceAfter
    <2> QED BY <2>2, <2>3, <2>4, <2>6
  <1>6. \A s \in Routers : proc'[s] \in Process
    BY <1>5 DEF Base
  <1>7. proc' \in [Routers -> Process]
    BY <1>2, <1>6
  <1>8. BaseInv'
    BY <1>1, <1>2, <1>5, <1>7 DEF BaseInv
  <1>9. OrderlyInv => OrderlyInv'
    BY <1>2, <1>5 DEF OrderlyInv
  <1> QED BY <1>5, <1>8, <1>9

\* An LSA from elsewhere is installed and flooded.
LEMMA LearnInv ==
  ASSUME BaseInv, NEW k \in Foreign, NEW g \in 1 .. MaxForeign, Learn(k, g)
  PROVE  /\ BaseInv' /\ (OrderlyInv => OrderlyInv')
         /\ \A s \in Routers : Advances(s, proc[s], proc'[s], {})
  <1> DEFINE p == proc[Home]
             D == [p.db EXCEPT ![k] = g]
             rec == p.recent \union {k}
             L == {<<k, g>>}
             n == IF p.nb.state >= Exchange THEN Queue(p.nb, L) ELSE p.nb
             q == [p EXCEPT !.db = D, !.recent = rec, !.nb = n]
  <1>1. /\ Home \in Routers /\ k \in Keys /\ k # Home /\ Home \in Keys
        /\ proc \in [Routers -> Process] /\ Base(Home, p)
        /\ faults \in 0 .. MaxFaults /\ lost \in BOOLEAN
    BY KeyFacts DEF BaseInv
  <1>2. p \in Process /\ p.nb \in Neighbor /\ p.db \in [Keys -> Nat] /\ p.recent \in SUBSET Keys
    BY <1>1 DEF Process
  <1>3. g \in Nat \ {0} /\ g > p.db[k]
    BY OspfAdjacencyAssumption DEF Learn
  <1>4. proc' = [proc EXCEPT ![Home] = q] /\ UNCHANGED <<link, faults, lost>>
    <2>1. UNCHANGED <<link, faults, lost>>
      BY DEF Learn
    <2>2. proc' = [proc EXCEPT ![Home].db[k] = g,
                               ![Home].recent = @ \union {k},
                               ![Home].nb = IF @.state >= Exchange
                                              THEN Queue(@, {<<k, g>>}) ELSE @]
      BY DEF Learn
    <2>3. [proc EXCEPT ![Home].db[k] = g,
                       ![Home].recent = @ \union {k},
                       ![Home].nb = IF @.state >= Exchange
                                      THEN Queue(@, {<<k, g>>}) ELSE @]
          = [proc EXCEPT ![Home] = q]
      BY <1>1, <1>2 DEF Process
    <2> QED BY <2>1, <2>2, <2>3
  <1>5. D \in [Keys -> Nat] /\ D[k] = g /\ D[Home] = p.db[Home]
        /\ \A j \in Keys : D[j] >= p.db[j]
    BY <1>1, <1>2, <1>3
  <1>6. rec \in SUBSET Keys
    BY <1>1, <1>2
  <1>7. L \in SUBSET Lsas /\ OnePerKey(L) /\ (\A x \in L : D[x[1]] = x[2]) /\ L # {}
    BY <1>1, <1>3, <1>5 DEF Lsas, Generation, OnePerKey
  <1>8. n \in Neighbor
    <2>1. OnePerKey(p.nb.retransmissions)
      BY <1>1 DEF Base
    <2> QED BY <1>2, <1>7, <2>1, QueueFields
  <1>9. p.own > p.db[Home]
    BY <1>1 DEF Base
  <1> HIDE DEF D, L, n, rec, p
  <1>10. q \in Process /\ q.db = D /\ q.own = p.own /\ q.nb = n /\ q.fight = p.fight
    BY <1>2, <1>5, <1>6, <1>8 DEF Process
  <1> HIDE DEF q
  <1>11. q.own > q.db[Home] /\ q.db \in [Keys -> Nat]
    BY <1>5, <1>9, <1>10
  <1>12. Base(Home, q) /\ (Orderly(p) => Orderly(q)) /\ Advances(Home, p, q, {})
    <2>1. CASE p.nb.state >= Exchange
      <3>1. q.nb = Queue(p.nb, L)
        BY <1>10, <2>1 DEF n
      <3> QED BY <1>1, <1>5, <1>7, <1>10, <1>11, <2>1, <3>1, QueueKeeps
    <2>2. CASE ~(p.nb.state >= Exchange)
      <3>1. q.nb = p.nb
        BY <1>10, <2>2 DEF n
      <3>2. ASSUME NEW e \in p.nb.retransmissions PROVE D[e[1]] >= e[2]
        <4>1. e[1] \in Keys /\ e[2] \in Nat
          BY <1>2 DEF Neighbor, Lsas, Generation
        <4>2. p.db[e[1]] >= e[2] /\ p.db[e[1]] \in Nat
          BY <1>1, <1>2, <4>1 DEF Base
        <4>3. D[e[1]] >= p.db[e[1]] /\ D[e[1]] \in Nat
          BY <1>5, <4>1
        <4> QED BY <4>1, <4>2, <4>3
      <3>3. Base(Home, q)
        BY <1>1, <1>10, <1>11, <3>1, <3>2 DEF Base
      <3>4. Orderly(p) => Orderly(q)
        BY <3>1 DEF Orderly
      <3>5. Advances(Home, p, q, {})
        BY <1>1, <1>2, <1>5, <1>10, <3>1, AdvanceGrown
      <3> QED BY <3>3, <3>4, <3>5
    <2> QED BY <2>1, <2>2
  <1>13. faults' \in 0 .. MaxFaults /\ lost' \in BOOLEAN /\ UNCHANGED link
    BY <1>1, <1>4
  <1>14. BaseInv' /\ (OrderlyInv /\ Orderly(q) => OrderlyInv')
    BY <1>1, <1>4, <1>12, <1>13, OneRouterStep
  <1>15. OrderlyInv => Orderly(p)
    BY <1>1 DEF OrderlyInv, p
  <1>16. ASSUME NEW s \in Routers PROVE Advances(s, proc[s], proc'[s], {})
    <2>1. CASE s = Home
      BY <1>1, <1>4, <1>12, <2>1 DEF p
    <2>2. CASE s # Home
      <3>1. proc'[s] = proc[s] /\ proc[s] \in Process
        BY <1>1, <1>4, <2>2
      <3> QED BY <3>1, AdvanceNot
    <2> QED BY <2>1, <2>2
  <1> QED BY <1>12, <1>14, <1>15, <1>16

\* A new process.
LEMMA FreshKeeps ==
  ASSUME NEW r \in Routers
  PROVE  /\ Base(r, Fresh) /\ Orderly(Fresh)
         /\ Accounted(r, Fresh) /\ Fresh.nb.described = {}
  <1>1. NoNeighbor \in Neighbor
    BY DEF NoNeighbor, Neighbor, Down, Full, Timer, Lsas, Generation
  <1>2. /\ NoNeighbor.dd = "idle" /\ NoNeighbor.summaries = <<>> /\ NoNeighbor.cursor = 0
        /\ NoNeighbor.state = Down /\ NoNeighbor.finish = FALSE
        /\ NoNeighbor.requests = {} /\ NoNeighbor.request = "idle"
        /\ NoNeighbor.retransmissions = {} /\ NoNeighbor.update = "idle"
        /\ NoNeighbor.described = {}
    BY DEF NoNeighbor
  <1>3. /\ Fresh \in Process /\ Fresh.nb = NoNeighbor /\ Fresh.own = 1
        /\ Fresh.db = [k \in Keys |-> 0]
    BY <1>1 DEF Fresh, Process
  <1>4. Fresh.db[r] = 0
    BY <1>3, KeyFacts
  <1>5. Base(r, Fresh)
    BY <1>2, <1>3, <1>4 DEF Base, OnePerKey
  <1>6. Orderly(Fresh)
    BY <1>2, <1>3 DEF Orderly, Down, ExStart, Exchange, Loading, Full
  <1>7. Accounted(r, Fresh) /\ Fresh.nb.described = {}
    BY <1>2, <1>3 DEF Accounted
  <1> QED BY <1>5, <1>6, <1>7

\* reset_database() ends an exchange under way, so that no retransmission is
\* left of an LSA that is gone.
LEMMA ResetInv ==
  ASSUME BaseInv, NEW r \in Routers, ResetDatabase(r)
  PROVE  /\ BaseInv' /\ (OrderlyInv => OrderlyInv')
         /\ Accounted(r, proc[r]) => Accounted(r, proc'[r])
         /\ proc'[r].nb.described \subseteq proc[r].nb.described
  <1> DEFINE p == proc[r]
             D == [k \in Keys |-> IF k = r THEN p.db[k] ELSE 0]
             e == [p EXCEPT !.db = D, !.originate = TRUE]
             a == Apply(e, "one_way_received")
             q == IF e.nb.state > TwoWay THEN a ELSE e
  <1>1. /\ proc \in [Routers -> Process] /\ Base(r, p) /\ r \in Keys
        /\ faults \in 0 .. MaxFaults /\ lost \in BOOLEAN
    BY KeyFacts DEF BaseInv
  <1>2. p \in Process /\ p.nb \in Neighbor /\ p.db \in [Keys -> Nat]
    BY <1>1 DEF Process
  <1>3. proc' = [proc EXCEPT ![r] = q] /\ UNCHANGED <<link, lost>> /\ faults' \in 0 .. MaxFaults
    <2>1. faults' \in 0 .. MaxFaults
      BY <1>1, OspfAdjacencyAssumption DEF ResetDatabase, Fault
    <2>2. proc' = [proc EXCEPT ![r] = q] /\ UNCHANGED <<link, lost>>
      BY <1>1, <1>2 DEF ResetDatabase
    <2> QED BY <2>1, <2>2
  <1>4. D \in [Keys -> Nat] /\ D[r] = p.db[r]
    BY <1>1, <1>2
  <1> HIDE DEF D
  <1>5. e \in Process /\ e.nb = p.nb /\ e.db = D /\ e.own = p.own
    BY <1>2, <1>4 DEF Process
  <1> HIDE DEF e
  <1>6. Orderly(p) => Orderly(e)
    BY <1>5 DEF Orderly
  <1>7. p.nb.state \in Down .. Full
    BY <1>2 DEF Neighbor
  <1>8. CASE e.nb.state > TwoWay
    <2>1. q = a
      BY <1>8
    <2> DEFINE t == NeighborTransition(e.nb.state, "one_way_received", e.nb.requests # {})
    <2>2. t = [state |-> InitState, clear |-> TRUE, begin |-> FALSE]
      BY <1>5, <1>7, <1>8 DEF NeighborTransition, TwoWay, Down, Full
    <2>3. /\ a \in Process /\ a.db = e.db /\ a.own = e.own
          /\ a.nb.state = t.state
          /\ ~t.begin /\ t.clear => a.nb.dd = "idle" /\ a.nb.summaries = <<>>
          /\ t.begin \/ t.clear => Emptied(a.nb)
      BY <1>5, ApplyFields
    <2> HIDE DEF t, a
    <2>4. /\ a.nb.state = InitState /\ a.nb.dd = "idle" /\ a.nb.summaries = <<>>
          /\ a.nb.cursor = 0 /\ a.nb.finish = FALSE
          /\ a.nb.requests = {} /\ a.nb.request = "idle"
          /\ a.nb.retransmissions = {} /\ a.nb.update = "idle"
          /\ a.nb.described = {}
      BY <2>2, <2>3 DEF Emptied
    <2>5. a.own > a.db[r]
      BY <1>1, <1>4, <1>5, <2>3 DEF Base
    <2>6. Base(r, a)
      BY <2>3, <2>4, <2>5 DEF Base, OnePerKey
    <2>7. Orderly(a)
      BY <2>4 DEF Orderly, InitState, ExStart, Exchange, Loading, Full
    <2>8. BaseInv' /\ (OrderlyInv /\ Orderly(a) => OrderlyInv')
      BY <1>1, <1>3, <2>1, <2>6, OneRouterStep
    <2>9. Accounted(r, a)
      BY <2>4 DEF Accounted
    <2>10. proc'[r] = a
      BY <1>1, <1>3, <2>1
    <2> QED BY <2>4, <2>7, <2>8, <2>9, <2>10
  <1>9. CASE ~(e.nb.state > TwoWay)
    <2>1. q = e
      BY <1>9
    <2>2. e.nb.retransmissions = {} /\ e.nb.cursor <= Len(e.nb.summaries)
      BY <1>1, <1>5, <1>7, <1>9 DEF Base, TwoWay, Down, Full
    <2>3. e.own > e.db[r]
      BY <1>1, <1>4, <1>5 DEF Base
    <2>4. Base(r, e)
      BY <1>5, <2>2, <2>3 DEF Base, OnePerKey
    <2>5. BaseInv' /\ (OrderlyInv /\ Orderly(e) => OrderlyInv')
      BY <1>1, <1>3, <2>1, <2>4, OneRouterStep
    <2>6. OrderlyInv => Orderly(p)
      BY DEF OrderlyInv
    <2>7. proc'[r] = e
      BY <1>1, <1>3, <2>1
    <2>8. Accounted(r, p) => Accounted(r, e)
      <3> SUFFICES ASSUME Accounted(r, p) PROVE Accounted(r, e)
        OBVIOUS
      <3>1. p.nb.described = {} /\ p.nb.summaries = <<>>
        BY <1>5, <1>7, <1>9 DEF Accounted, TwoWay, Down, Full
      <3>2. p.nb.requests = {}
        BY <3>1 DEF Accounted
      <3> QED BY <1>5, <3>1, <3>2 DEF Accounted
    <2> QED BY <1>5, <1>6, <2>5, <2>6, <2>7, <2>8
  <1> QED BY <1>8, <1>9

\* The initial state: two new processes and empty links.
LEMMA InitBoth == Init => BaseInv /\ OrderlyInv
  <1> SUFFICES ASSUME Init PROVE BaseInv /\ OrderlyInv
    OBVIOUS
  <1>1. \A r \in Routers : Base(r, Fresh) /\ Orderly(Fresh)
    BY FreshKeeps
  <1>2. Fresh \in Process
    BY <1>1, OspfAdjacencyAssumption DEF Base
  <1>3. /\ proc = [r \in Routers |-> Fresh] /\ link = [r \in Routers |-> <<>>]
        /\ faults = 0 /\ lost = FALSE
    BY DEF Init
  <1>4. faults \in 0 .. MaxFaults
    BY <1>3, OspfAdjacencyAssumption
  <1>5. BaseInv
    <2>1. proc \in [Routers -> Process] /\ \A r \in Routers : proc[r] = Fresh
      BY <1>2, <1>3
    <2>2. <<>> \in Seq(Packet)
      OBVIOUS
    <2>3. link \in [Routers -> Seq(Packet)]
      BY <1>3, <2>2
    <2>4. lost \in BOOLEAN
      BY <1>3
    <2>5. \A r \in Routers : Base(r, proc[r])
      BY <1>1, <2>1
    <2> QED BY <1>4, <2>1, <2>3, <2>4, <2>5 DEF BaseInv
  <1>6. OrderlyInv
    BY <1>1, <1>3 DEF OrderlyInv
  <1> QED BY <1>5, <1>6

\* Every step keeps the types; every step that finds requests answerable also
\* keeps the timers and lists in order.
LEMMA NextBoth ==
  BaseInv /\ [Next]_vars =>
    BaseInv' /\ (OrderlyInv /\ RequestsAnswerable => OrderlyInv')
  <1> SUFFICES ASSUME BaseInv, [Next]_vars
               PROVE  BaseInv' /\ (OrderlyInv /\ RequestsAnswerable => OrderlyInv')
    OBVIOUS
  <1>0. \A r \in Routers : Base(r, proc[r]) /\ (OrderlyInv => Orderly(proc[r]))
    BY DEF BaseInv, OrderlyInv
  <1>1. ASSUME NEW r \in Routers, Receive(r)
        PROVE  BaseInv' /\ (OrderlyInv /\ RequestsAnswerable => OrderlyInv')
    BY <1>1, ReceiveInv
  <1>2. ASSUME NEW r \in Routers, RunReady(r)
        PROVE  BaseInv' /\ (OrderlyInv => OrderlyInv')
    BY <1>0, <1>2, EmitInv DEF RunReady
  <1>3. ASSUME NEW r \in Routers, RunReadyOriginating(r)
        PROVE  BaseInv' /\ (OrderlyInv => OrderlyInv')
    <2> DEFINE p == OriginateLocalLsas(r, proc[r])
    <2>1. Emit(r, p)
      BY <1>3, Zenon DEF RunReadyOriginating
    <2>2. Base(r, p) /\ (Orderly(proc[r]) => Orderly(p))
      BY <1>0, OriginateKeeps
    <2> HIDE DEF p
    <2>3. BaseInv' /\ (OrderlyInv /\ Orderly(p) => OrderlyInv')
      BY <2>1, <2>2, EmitInv
    <2> QED BY <1>0, <2>2, <2>3
  <1>4. ASSUME NEW r \in Routers, Elapse(r)
        PROVE  BaseInv' /\ (OrderlyInv => OrderlyInv')
    BY <1>4, ElapseInv
  <1>5. ASSUME NEW r \in Routers, Lose(r)
        PROVE  BaseInv' /\ (OrderlyInv => OrderlyInv')
    <2>1. /\ link[r] # <<>> /\ link' = [link EXCEPT ![r] = Tail(@)]
          /\ lost' = TRUE /\ UNCHANGED proc
      BY <1>5 DEF Lose
    <2>2. faults' \in 0 .. MaxFaults
      BY <1>5, OspfAdjacencyAssumption DEF Lose, Fault, BaseInv
    <2>3. link' \in [Routers -> Seq(Packet)]
      BY <2>1 DEF BaseInv
    <2>4. BaseInv'
      BY <2>1, <2>2, <2>3 DEF BaseInv
    <2>5. ASSUME OrderlyInv, NEW s \in Routers PROVE link'[s] \in Seq(AskingPacket)
      BY <2>1, <2>5 DEF OrderlyInv, BaseInv
    <2>6. OrderlyInv => OrderlyInv'
      BY <2>1, <2>5 DEF OrderlyInv
    <2> QED BY <2>4, <2>6
  <1>6. ASSUME NEW r \in Routers, Restart(r)
        PROVE  BaseInv' /\ (OrderlyInv => OrderlyInv')
    <2>1. faults' \in 0 .. MaxFaults /\ lost' \in BOOLEAN /\ UNCHANGED link
          /\ proc' = [proc EXCEPT ![r] = Fresh]
      BY <1>6, OspfAdjacencyAssumption DEF Restart, Fault, BaseInv
    <2> QED BY <2>1, FreshKeeps, OneRouterStep
  <1>7. ASSUME NEW r \in Routers, Expire(r)
        PROVE  BaseInv' /\ (OrderlyInv => OrderlyInv')
    <2> DEFINE q == Apply(proc[r], "inactivity_timer")
    <2>1. faults' \in 0 .. MaxFaults /\ lost' \in BOOLEAN /\ UNCHANGED link
          /\ proc' = [proc EXCEPT ![r] = q]
      BY <1>7, OspfAdjacencyAssumption DEF Expire, Fault, BaseInv
    <2>2. Base(r, q) /\ proc[r] \in Process
      BY <1>0, ApplyBase DEF Base
    <2>3. Orderly(proc[r]) => Orderly(q)
      BY <2>2, ApplyOrderly DEF Restarting
    <2> HIDE DEF q
    <2>4. BaseInv' /\ (OrderlyInv /\ Orderly(q) => OrderlyInv')
      BY <2>1, <2>2, OneRouterStep
    <2> QED BY <1>0, <2>3, <2>4
  <1>8. ASSUME NEW r \in Routers, ResetDatabase(r)
        PROVE  BaseInv' /\ (OrderlyInv => OrderlyInv')
    BY <1>8, ResetInv
  <1>9. ASSUME NEW k \in Foreign, NEW g \in 1 .. MaxForeign, Learn(k, g)
        PROVE  BaseInv' /\ (OrderlyInv => OrderlyInv')
    BY <1>9, LearnInv
  <1>10. CASE UNCHANGED vars
    BY <1>10 DEF vars, BaseInv, OrderlyInv
  <1> QED BY <1>1, <1>2, <1>3, <1>4, <1>5, <1>6, <1>7, <1>8, <1>9, <1>10 DEF Next

-----------------------------------------------------------------------------
(***************************************************************************)
(* What is described and what follows it on the link.                      *)
(***************************************************************************)

\* Fields of a packet that are absent count as empty.
LEMMA PacketParts ==
  ASSUME NEW packet \in Packet
  PROVE  /\ Headers(packet) \in SUBSET Lsas /\ Instances(packet) \in SUBSET Lsas
         /\ Asked(packet) \in SUBSET Keys
  BY DEF Packet, HelloPacket, DescriptionPacket, RequestPacket, UpdatePacket, AckPacket,
         Headers, Instances, Asked

\* Flow survives a step after which the receiver has fewer headers, and each
\* of the two databases has grown or is out of use.
LEMMA FlowGrown ==
  ASSUME NEW D \in SUBSET Lsas, NEW C \in SUBSET D, NEW L \in Seq(Packet),
         NEW b \in [Keys -> Nat], NEW c \in [Keys -> Nat],
         NEW f \in [Keys -> Nat], NEW g \in [Keys -> Nat],
         Flow(D, L, b, c),
         Grown(b, f) \/ (C = {} /\ Undescribed(L)),
         Grown(c, g) \/ Unasked(L)
  PROVE  Flow(C, L, f, g)
  <1>1. ASSUME NEW x \in Lsas, b[x[1]] >= x[2], Grown(b, f)
        PROVE  f[x[1]] >= x[2]
    <2>1. x[1] \in Keys /\ x[2] \in Nat
      BY DEF Lsas, Generation
    <2>2. b[x[1]] \in Nat /\ f[x[1]] \in Nat /\ f[x[1]] >= b[x[1]]
      BY <1>1, <2>1 DEF Grown
    <2> QED BY <1>1, <2>1, <2>2
  <1>2. \A x \in C : f[x[1]] >= x[2]
    BY <1>1 DEF Flow
  <1>3. ASSUME NEW i \in 1 .. Len(L)
        PROVE  /\ \A x \in Headers(L[i]) : f[x[1]] >= x[2]
               /\ \A k \in Asked(L[i]) : g[k] > 0
    <2>1. L[i] \in Packet
      OBVIOUS
    <2>2. Headers(L[i]) \in SUBSET Lsas /\ Asked(L[i]) \in SUBSET Keys
      BY <2>1, PacketParts
    <2>3. \A x \in Headers(L[i]) : f[x[1]] >= x[2]
      BY <1>1, <2>2 DEF Flow, Undescribed
    <2>4. ASSUME NEW k \in Asked(L[i]), Grown(c, g) PROVE g[k] > 0
      <3>1. k \in Keys /\ c[k] > 0
        BY <2>2 DEF Flow
      <3> QED BY <2>4, <3>1 DEF Grown
    <2> QED BY <2>3, <2>4 DEF Unasked
  <1> QED BY <1>2, <1>3 DEF Flow

\* The head of the link is taken off: what it describes now counts as described.
LEMMA FlowTaken ==
  ASSUME NEW D, NEW L \in Seq(Packet), L # <<>>, NEW b, NEW c, Flow(D, L, b, c)
  PROVE  /\ Flow(D \union Headers(Head(L)), Tail(L), b, c)
         /\ \A x \in D, y \in Instances(Head(L)) : y[1] = x[1] => y[2] >= x[2]
         /\ \A k \in Asked(Head(L)) : c[k] > 0
  <1>1. Len(L) \in Nat /\ Len(L) > 0 /\ Head(L) = L[1] /\ 1 \in 1 .. Len(L)
    OBVIOUS
  <1>2. ASSUME NEW i \in 1 .. Len(Tail(L))
        PROVE  Tail(L)[i] = L[i + 1] /\ i + 1 \in 1 .. Len(L) /\ 1 < i + 1 /\ i \in Nat
    OBVIOUS
  <1>3. \A x \in D \union Headers(Head(L)) : b[x[1]] >= x[2]
    BY <1>1 DEF Flow
  <1>4. ASSUME NEW i \in 1 .. Len(Tail(L))
        PROVE  /\ \A x \in Headers(Tail(L)[i]) : b[x[1]] >= x[2]
               /\ \A k \in Asked(Tail(L)[i]) : c[k] > 0
               /\ \A x \in D \union Headers(Head(L)), y \in Instances(Tail(L)[i]) :
                    y[1] = x[1] => y[2] >= x[2]
    BY <1>1, <1>2 DEF Flow
  <1>5. ASSUME NEW i \in 1 .. Len(Tail(L)), NEW j \in 1 .. Len(Tail(L)), i < j
        PROVE  \A x \in Headers(Tail(L)[i]), y \in Instances(Tail(L)[j]) :
                 y[1] = x[1] => y[2] >= x[2]
    <2>1. i + 1 < j + 1
      BY <1>2, <1>5
    <2> QED BY <1>2, <2>1 DEF Flow
  <1>6. Flow(D \union Headers(Head(L)), Tail(L), b, c)
    BY <1>3, <1>4, <1>5 DEF Flow
  <1> QED BY <1>1, <1>6 DEF Flow

\* Packets that are true to the database of their sender are sent.
LEMMA FlowSent ==
  ASSUME NEW D \in SUBSET Lsas, NEW L \in Seq(Packet), NEW b \in [Keys -> Nat], NEW c,
         Flow(D, L, b, c), NEW s \in Seq(TrueTo(b, c))
  PROVE  Flow(D, L \o s, b, c)
  <1> DEFINE M == L \o s
             Old(i) == i \in 1 .. Len(L) /\ M[i] = L[i]
             New(i) == i > Len(L) /\ M[i] \in TrueTo(b, c)
  <1>1. Len(L) \in Nat /\ Len(M) \in Nat
    BY DEF TrueTo
  <1>2. ASSUME NEW i \in 1 .. Len(M) PROVE Old(i) \/ New(i)
    <2>1. Len(M) = Len(L) + Len(s) /\ Len(s) \in Nat
      OBVIOUS
    <2>2. CASE i <= Len(L)
      BY <1>1, <2>1, <2>2
    <2>3. CASE i > Len(L)
      <3>1. M[i] = s[i - Len(L)] /\ i - Len(L) \in 1 .. Len(s)
        BY <1>1, <2>1, <2>3
      <3> QED BY <2>3, <3>1
    <2> QED BY <1>1, <2>2, <2>3
  <1> HIDE DEF M
  <1>3. ASSUME NEW packet \in TrueTo(b, c)
        PROVE  /\ packet \in Packet
               /\ \A x \in Headers(packet) : b[x[1]] >= x[2]
               /\ \A y \in Instances(packet) : y[2] = b[y[1]]
               /\ \A k \in Asked(packet) : c[k] > 0
    BY DEF TrueTo
  <1>4. ASSUME NEW i \in 1 .. Len(M)
        PROVE  /\ \A x \in Headers(M[i]) : b[x[1]] >= x[2]
               /\ \A k \in Asked(M[i]) : c[k] > 0
    <2>1. CASE Old(i)
      BY <2>1 DEF Flow
    <2>2. CASE New(i)
      BY <1>3, <2>2
    <2> QED BY <1>2, <2>1, <2>2
  <1>5. ASSUME NEW i \in 1 .. Len(M), NEW x \in D, NEW y \in Instances(M[i]), y[1] = x[1]
        PROVE  y[2] >= x[2]
    <2>1. CASE Old(i)
      BY <1>5, <2>1 DEF Flow
    <2>2. CASE New(i)
      BY <1>3, <1>5, <2>2 DEF Flow
    <2> QED BY <1>2, <2>1, <2>2
  <1>6. ASSUME NEW i \in 1 .. Len(M), NEW j \in 1 .. Len(M), i < j,
               NEW x \in Headers(M[i]), NEW y \in Instances(M[j]), y[1] = x[1]
        PROVE  y[2] >= x[2]
    <2>1. CASE New(j)
      <3>1. y[2] = b[y[1]]
        BY <1>3, <2>1
      <3>2. b[x[1]] >= x[2]
        BY <1>4
      <3> QED BY <1>6, <3>1, <3>2
    <2>2. CASE Old(j)
      <3>1. ~(i > Len(L))
        BY <1>1, <1>6, <2>2
      <3>2. Old(i)
        BY <1>2, <3>1
      <3> QED BY <1>6, <2>2, <3>2 DEF Flow
    <2> QED BY <1>2, <2>1, <2>2
  <1>7. \A x \in D : b[x[1]] >= x[2]
    BY DEF Flow
  <1>8. Flow(D, M, b, c)
    BY <1>4, <1>5, <1>6, <1>7 DEF Flow
  <1> QED BY <1>8 DEF M

\* The parts of FlowInv that concern one router.
LEMMA FlowTypes ==
  ASSUME BaseInv, NEW r \in Routers
  PROVE  /\ proc[r] \in Process /\ proc[r].db \in [Keys -> Nat]
         /\ proc[r].nb.described \in SUBSET Lsas /\ link[r] \in Seq(Packet)
         /\ Other(r) \in Routers /\ Other(r) # r /\ Other(Other(r)) = r
         /\ \A s \in Routers : s = r \/ s = Other(r)
  <1>1. proc[r] \in Process /\ link[r] \in Seq(Packet)
    BY DEF BaseInv
  <1>2. /\ Other(r) \in Routers /\ Other(r) # r /\ Other(Other(r)) = r
        /\ \A s \in Routers : s = r \/ s = Other(r)
    BY DEF Routers, Other
  <1> QED BY <1>1, <1>2 DEF Process, Neighbor

\* A step that leaves the link alone.
LEMMA FlowStep ==
  ASSUME BaseInv, BaseInv', FlowInv, UNCHANGED link,
         \A s \in Routers :
           /\ Accounted(s, proc'[s])
           /\ proc'[s].nb.described \subseteq proc[s].nb.described
           /\ Grown(proc[s].db, proc'[s].db) \/ Unused(s)
  PROVE  FlowInv'
  <1> SUFFICES ASSUME NEW r \in Routers
               PROVE  Flow(proc'[r].nb.described, link[r], proc'[Other(r)].db, proc'[r].db)
    BY DEF FlowInv
  <1> DEFINE o == Other(r)
             D == proc[r].nb.described
             C == proc'[r].nb.described
             b == proc[o].db
             c == proc[r].db
             f == proc'[o].db
             g == proc'[r].db
  <1>1. /\ D \in SUBSET Lsas /\ link[r] \in Seq(Packet)
        /\ c \in [Keys -> Nat] /\ o \in Routers /\ Other(o) = r
    BY FlowTypes
  <1>2. b \in [Keys -> Nat]
    BY <1>1, FlowTypes
  <1>3. g \in [Keys -> Nat] /\ f \in [Keys -> Nat]
    BY <1>1 DEF BaseInv, Process
  <1>4. Flow(D, link[r], b, c)
    BY DEF FlowInv
  <1>5. Grown(b, f) \/ (C = {} /\ Undescribed(link[r]))
    BY <1>1 DEF Unused
  <1>6. Grown(c, g) \/ Unasked(link[r])
    BY DEF Unused
  <1>7. C \in SUBSET D
    OBVIOUS
  <1> HIDE DEF o, D, C, b, c, f, g
  <1>8. Flow(C, link[r], f, g)
    BY <1>1, <1>2, <1>3, <1>4, <1>5, <1>6, <1>7, FlowGrown
  <1> QED BY <1>8 DEF o, C, f, g

\* The same when both routers advance.
LEMMA FlowAdvanced ==
  ASSUME BaseInv, BaseInv', FlowInv, UNCHANGED link,
         \A s \in Routers : Advances(s, proc[s], proc'[s], {})
  PROVE  FlowInv'
  <1>1. ASSUME NEW s \in Routers
        PROVE  /\ Accounted(s, proc'[s])
               /\ proc'[s].nb.described \subseteq proc[s].nb.described
               /\ Grown(proc[s].db, proc'[s].db)
    BY DEF Advances, Gains, Grown, FlowInv
  <1> QED BY <1>1, FlowStep

\* One router has advanced and one link has changed.
LEMMA FlowOneRouter ==
  ASSUME BaseInv, FlowInv, NEW r \in Routers, NEW q \in Process, Accounted(r, q),
         proc' = [proc EXCEPT ![r] = q],
         Flow(q.nb.described, link'[r], proc[Other(r)].db, q.db),
         Flow(proc[Other(r)].nb.described, link'[Other(r)], q.db, proc[Other(r)].db)
  PROVE  FlowInv'
  <1>1. Other(r) \in Routers /\ Other(r) # r /\ Other(Other(r)) = r
        /\ \A s \in Routers : s = r \/ s = Other(r)
    BY FlowTypes
  <1>2. proc'[r] = q /\ proc'[Other(r)] = proc[Other(r)]
    BY <1>1 DEF BaseInv
  <1> DEFINE Good(s) == /\ Accounted(s, proc'[s])
                        /\ Flow(proc'[s].nb.described, link'[s], proc'[Other(s)].db, proc'[s].db)
  <1>3. Good(r)
    BY <1>2
  <1>4. Good(Other(r))
    BY <1>1, <1>2 DEF FlowInv
  <1>5. \A s \in Routers : Good(s)
    BY <1>1, <1>3, <1>4
  <1> QED BY <1>5 DEF FlowInv

\* A packet is handled: an update is current for what was described.
LEMMA ReceiveFlow ==
  ASSUME BaseInv, FlowInv, NEW r \in Routers, Receive(r)
  PROVE  FlowInv'
  <1> DEFINE packet == Head(link[r])
             o == Other(r)
             p == proc[r]
             D == p.nb.described
             b == proc[o].db
             C == proc[o].nb.described
             T == D \union Headers(packet)
  <1>1. /\ p \in Process /\ p.db \in [Keys -> Nat] /\ D \in SUBSET Lsas
        /\ link[r] \in Seq(Packet) /\ o \in Routers /\ o # r /\ Other(o) = r
    BY FlowTypes
  <1>2. /\ b \in [Keys -> Nat] /\ C \in SUBSET Lsas
        /\ link[o] \in Seq(Packet)
    BY <1>1, FlowTypes
  <1>3. Base(r, p) /\ link \in [Routers -> Seq(Packet)]
    BY DEF BaseInv
  <1>4. /\ Accounted(r, p) /\ Flow(D, link[r], b, p.db)
        /\ Flow(C, link[o], p.db, b)
    BY <1>1 DEF FlowInv
  <1>5. link[r] # <<>>
    BY DEF Receive
  <1>6. packet \in Packet /\ Tail(link[r]) \in Seq(Packet)
    BY <1>1, <1>5
  <1>7. PICK early : proc' = [proc EXCEPT ![r] = Handle(r, p, packet, early)]
    BY DEF Receive
  <1> DEFINE q == Handle(r, p, packet, early)
  <1>8. /\ Flow(T, Tail(link[r]), b, p.db)
        /\ \A x \in D, y \in Instances(packet) : y[1] = x[1] => y[2] >= x[2]
    BY <1>1, <1>4, <1>5, FlowTaken
  <1>9. Current(p, Instances(packet))
    BY <1>8 DEF Current
  <1> HIDE DEF packet, p
  <1>10. Base(r, q) /\ Gains(p, q, Headers(packet)) /\ Accounted(r, q)
    BY <1>3, <1>4, <1>6, <1>9, HandleKeeps
  <1>11. link'[r] = Tail(link[r]) /\ link'[o] = link[o]
    BY <1>1, <1>3 DEF Receive
  <1>12. proc' = [proc EXCEPT ![r] = q]
    BY <1>7
  <1> HIDE DEF q
  <1>13. /\ q \in Process /\ q.db \in [Keys -> Nat] /\ Grown(p.db, q.db)
         /\ q.nb.described \in SUBSET T
    BY <1>10 DEF Base, Process, Gains, Grown
  <1>14. T \in SUBSET Lsas
    BY <1>1, <1>6, PacketParts
  <1>15. Grown(b, b)
    BY <1>2 DEF Grown
  <1> HIDE DEF D, o, b, C, T
  <1>16. Flow(q.nb.described, Tail(link[r]), b, q.db)
    BY <1>1, <1>2, <1>6, <1>8, <1>13, <1>14, <1>15, FlowGrown
  <1>17. Flow(C, link[o], q.db, b)
    BY <1>1, <1>2, <1>4, <1>13, <1>15, FlowGrown
  <1>18. /\ Flow(q.nb.described, link'[r], proc[Other(r)].db, q.db)
         /\ Flow(proc[Other(r)].nb.described, link'[Other(r)], q.db, proc[Other(r)].db)
    BY <1>11, <1>16, <1>17 DEF o, b, C
  <1> QED BY <1>10, <1>12, <1>13, <1>18, FlowOneRouter

\* An owner turn: what it sends is true to the database, and what it asks for
\* was described.
LEMMA EmitFlow ==
  ASSUME BaseInv, FlowInv, NEW r \in Routers, NEW p, Base(r, p),
         Advances(r, proc[r], p, {}), Emit(r, p)
  PROVE  FlowInv'
  <1> DEFINE d == DescriptionSent(r, p)
             q == [d EXCEPT !.hello = FALSE, !.nb.acks = {},
                            !.nb.update = Sent(@), !.nb.request = Sent(@)]
             o == Other(r)
             c == proc[o].db
             D == proc[o].nb.described
  <1>1. /\ proc[r] \in Process /\ proc[r].db \in [Keys -> Nat]
        /\ proc[r].nb.described \in SUBSET Lsas
        /\ link[r] \in Seq(Packet) /\ o \in Routers /\ o # r /\ Other(o) = r
    BY FlowTypes
  <1>2. /\ c \in [Keys -> Nat] /\ D \in SUBSET Lsas /\ link[o] \in Seq(Packet)
    BY <1>1, FlowTypes
  <1>3. /\ Accounted(r, proc[r])
        /\ Flow(proc[r].nb.described, link[r], c, proc[r].db)
        /\ Flow(D, link[o], proc[r].db, c)
    BY <1>1 DEF FlowInv
  <1>4. /\ proc' = [proc EXCEPT ![r] = q]
        /\ link' = [link EXCEPT ![o] =
                      @ \o EmitHello(p) \o EmitAcknowledgment(p)
                        \o EmitDatabaseDescription(r, p.nb)
                        \o EmitLinkStateUpdate(d) \o EmitLinkStateRequest(d)]
    BY Zenon DEF Emit
  <1>5. Base(r, d) /\ Advances(r, p, d, {}) /\ d.db = p.db
    BY DescriptionSentKeeps
  <1> HIDE DEF d
  <1>6. Base(r, q) /\ Advances(r, d, q, {}) /\ q.db = d.db
    BY <1>5, TurnKeeps
  <1> HIDE DEF q, o, c, D
  <1>7. p \in Process /\ d \in Process /\ q \in Process
    BY <1>5, <1>6 DEF Base
  <1>8. Advances(r, proc[r], d, {})
    BY <1>1, <1>5, <1>7, AdvanceAfter
  <1>9. Advances(r, proc[r], q, {})
    BY <1>1, <1>6, <1>7, <1>8, AdvanceAfter
  <1>10. ASSUME NEW k \in d.nb.requests PROVE c[k] > 0
    <2>1. Accounted(r, d) /\ d.nb.described \subseteq proc[r].nb.described
      BY <1>3, <1>8 DEF Advances, Gains
    <2>2. PICK x \in proc[r].nb.described : x[1] = k
      BY <2>1 DEF Accounted
    <2>3. c[x[1]] >= x[2]
      BY <1>3 DEF Flow
    <2>4. x[1] \in Keys /\ x[2] \in Nat \ {0}
      BY <1>1 DEF Lsas, Generation
    <2>5. c[x[1]] \in Nat
      BY <1>2, <2>4
    <2> QED BY <2>2, <2>3, <2>4, <2>5
  <1>11. Accounted(r, p)
    BY <1>3 DEF Advances
  <1>12. {EmitHello(p), EmitAcknowledgment(p), EmitDatabaseDescription(r, p.nb),
          EmitLinkStateUpdate(d), EmitLinkStateRequest(d)} \subseteq Seq(TrueTo(p.db, c))
    BY <1>5, <1>10, <1>11, EmittedPackets
  <1>13. p.db \in [Keys -> Nat] /\ Grown(proc[r].db, p.db) /\ Grown(c, c)
    BY <1>2, <1>7 DEF Process, Advances, Gains, Grown
  <1>14. Flow(D, link[o], p.db, c)
    BY <1>1, <1>2, <1>3, <1>13, FlowGrown
  <1>15. ASSUME NEW M \in Seq(Packet), Flow(D, M, p.db, c), NEW s \in Seq(TrueTo(p.db, c))
         PROVE  M \o s \in Seq(Packet) /\ Flow(D, M \o s, p.db, c)
    <2>1. s \in Seq(Packet)
      BY DEF TrueTo
    <2>2. M \o s \in Seq(Packet)
      BY <2>1
    <2>3. Flow(D, M \o s, p.db, c)
      BY <1>2, <1>13, <1>15, FlowSent
    <2> QED BY <2>2, <2>3
  <1> DEFINE L1 == link[o] \o EmitHello(p)
             L2 == L1 \o EmitAcknowledgment(p)
             L3 == L2 \o EmitDatabaseDescription(r, p.nb)
             L4 == L3 \o EmitLinkStateUpdate(d)
             L5 == L4 \o EmitLinkStateRequest(d)
  <1>16. link'[o] = L5 /\ link'[r] = link[r]
    BY <1>1, <1>4 DEF BaseInv
  <1>17. L1 \in Seq(Packet) /\ Flow(D, L1, p.db, c)
    BY <1>2, <1>12, <1>14, <1>15
  <1> HIDE DEF L1
  <1>18. L2 \in Seq(Packet) /\ Flow(D, L2, p.db, c)
    BY <1>12, <1>15, <1>17
  <1> HIDE DEF L2
  <1>19. L3 \in Seq(Packet) /\ Flow(D, L3, p.db, c)
    BY <1>12, <1>15, <1>18
  <1> HIDE DEF L3
  <1>20. L4 \in Seq(Packet) /\ Flow(D, L4, p.db, c)
    BY <1>12, <1>15, <1>19
  <1> HIDE DEF L4
  <1>21. Flow(D, L5, p.db, c)
    BY <1>12, <1>15, <1>20
  <1> HIDE DEF L5
  <1>22. /\ Accounted(r, q) /\ q.nb.described \in SUBSET proc[r].nb.described
         /\ Grown(proc[r].db, q.db) /\ q.db \in [Keys -> Nat]
    BY <1>3, <1>7, <1>9 DEF Advances, Gains, Grown, Process
  <1>23. Flow(q.nb.described, link[r], c, q.db)
    BY <1>1, <1>2, <1>3, <1>13, <1>22, FlowGrown
  <1>24. Flow(D, link'[o], q.db, c)
    BY <1>5, <1>6, <1>16, <1>21
  <1>25. /\ Flow(q.nb.described, link'[r], proc[Other(r)].db, q.db)
         /\ Flow(proc[Other(r)].nb.described, link'[Other(r)], q.db, proc[Other(r)].db)
    BY <1>16, <1>23, <1>24 DEF o, c, D
  <1> QED BY <1>4, <1>7, <1>22, <1>25, FlowOneRouter

\* A step forgets no LSA of r, unless r restarts or resets its database.
LEMMA NextGrows ==
  ASSUME BaseInv, [Next]_vars, NEW s \in Routers
  PROVE  Grown(proc[s].db, proc'[s].db) \/ Restart(s) \/ ResetDatabase(s)
  <1>1. /\ Base(s, proc[s]) /\ proc[s].db \in [Keys -> Nat]
        /\ proc \in [Routers -> Process] /\ link \in [Routers -> Seq(Packet)]
    BY DEF BaseInv, Process
  <1>2. proc'[s] = proc[s] => Grown(proc[s].db, proc'[s].db)
    BY <1>1 DEF Grown
  <1>3. ASSUME NEW r \in Routers, NEW q, proc' = [proc EXCEPT ![r] = q],
               r = s => \E D : Gains(proc[s], q, D)
        PROVE  Grown(proc[s].db, proc'[s].db)
    <2>1. CASE r = s
      <3>1. proc'[s] = q
        BY <1>1, <1>3, <2>1
      <3> QED BY <1>3, <2>1, <3>1 DEF Gains, Grown
    <2>2. CASE r # s
      BY <1>1, <1>2, <1>3, <2>2
    <2> QED BY <2>1, <2>2
  <1>4. ASSUME NEW r \in Routers, Receive(r) PROVE Grown(proc[s].db, proc'[s].db)
    <2> DEFINE packet == Head(link[r])
    <2>1. packet \in Packet
      BY <1>1, <1>4 DEF Receive
    <2>2. PICK early : proc' = [proc EXCEPT ![r] = Handle(r, proc[r], packet, early)]
      BY <1>4 DEF Receive
    <2> HIDE DEF packet
    <2>3. r = s => Gains(proc[s], Handle(r, proc[r], packet, early), Headers(packet))
      BY <1>1, <2>1, HandleKeeps
    <2> QED BY <1>3, <2>2, <2>3
  <1>5. ASSUME NEW r \in Routers, NEW p, Base(r, p), Emit(r, p),
               r = s => Gains(proc[s], p, {})
        PROVE  Grown(proc[s].db, proc'[s].db)
    <2> DEFINE d == DescriptionSent(r, p)
               q == [d EXCEPT !.hello = FALSE, !.nb.acks = {},
                              !.nb.update = Sent(@), !.nb.request = Sent(@)]
    <2>1. proc' = [proc EXCEPT ![r] = q]
      BY <1>5, Zenon DEF Emit
    <2>2. Base(r, d) /\ d.db = p.db
      BY <1>5, DescriptionSentKeeps
    <2> HIDE DEF d
    <2>3. q.db = d.db
      BY <2>2, TurnKeeps
    <2> HIDE DEF q
    <2>4. CASE r = s
      <3>1. proc'[s] = q
        BY <1>1, <2>1, <2>4
      <3> QED BY <1>5, <2>2, <2>3, <2>4, <3>1 DEF Gains, Grown
    <2>5. CASE r # s
      BY <1>1, <1>2, <2>1, <2>5
    <2> QED BY <2>4, <2>5
  <1>6. ASSUME NEW r \in Routers, RunReady(r) PROVE Grown(proc[s].db, proc'[s].db)
    <2>1. Base(r, proc[r]) /\ Emit(r, proc[r])
      BY <1>6 DEF RunReady, BaseInv
    <2>2. Gains(proc[s], proc[s], {})
      BY <1>1, AdvanceNot DEF Base, Advances
    <2> QED BY <1>5, <2>1, <2>2
  <1>7. ASSUME NEW r \in Routers, RunReadyOriginating(r) PROVE Grown(proc[s].db, proc'[s].db)
    <2> DEFINE p == OriginateLocalLsas(r, proc[r])
    <2>1. Emit(r, p)
      BY <1>7, Zenon DEF RunReadyOriginating
    <2>2. Base(r, p) /\ Gains(proc[r], p, {})
      BY OriginateKeeps DEF Advances, BaseInv
    <2> HIDE DEF p
    <2> QED BY <1>5, <2>1, <2>2
  <1>8. ASSUME NEW r \in Routers, Elapse(r) PROVE Grown(proc[s].db, proc'[s].db)
    BY <1>8, ElapseInv DEF Advances, Gains, Grown
  <1>9. ASSUME NEW r \in Routers, Lose(r) PROVE Grown(proc[s].db, proc'[s].db)
    BY <1>2, <1>9 DEF Lose
  <1>10. ASSUME NEW r \in Routers, Expire(r) PROVE Grown(proc[s].db, proc'[s].db)
    <2>1. proc' = [proc EXCEPT ![r] = Apply(proc[r], "inactivity_timer")]
      BY <1>10 DEF Expire
    <2>2. Gains(proc[r], Apply(proc[r], "inactivity_timer"), {})
      BY ApplyBase DEF Advances, BaseInv
    <2> QED BY <1>3, <2>1, <2>2
  <1>11. ASSUME NEW k \in Foreign, NEW g \in 1 .. MaxForeign, Learn(k, g)
         PROVE  Grown(proc[s].db, proc'[s].db)
    BY <1>11, LearnInv DEF Advances, Gains, Grown
  <1>12. ASSUME NEW r \in Routers, Restart(r) \/ ResetDatabase(r), r # s
         PROVE  Grown(proc[s].db, proc'[s].db)
    <2>1. proc'[s] = proc[s]
      BY <1>1, <1>12 DEF Restart, ResetDatabase
    <2> QED BY <1>2, <2>1
  <1>13. CASE UNCHANGED vars
    BY <1>2, <1>13 DEF vars
  <1> QED BY <1>4, <1>6, <1>7, <1>8, <1>9, <1>10, <1>11, <1>12, <1>13 DEF Next

\* Every step keeps the account and the flow, if what a router forgets is unseen.
LEMMA NextFlow ==
  ASSUME BaseInv, FlowInv, [Next]_vars, [ForgottenUnseen]_vars
  PROVE  FlowInv'
  <1>0. BaseInv'
    BY NextBoth
  <1>1. ASSUME NEW s \in Routers PROVE Base(s, proc[s]) /\ proc[s] \in Process
    BY DEF BaseInv
  <1>2. ASSUME NEW s \in Routers
        PROVE  Grown(proc[s].db, proc'[s].db) \/ Unused(s)
    <2>1. proc[s].db \in [Keys -> Nat] /\ proc'[s].db \in [Keys -> Nat]
      BY <1>0 DEF BaseInv, Process
    <2>2. CASE UNCHANGED vars
      BY <2>1, <2>2 DEF vars, Grown
    <2>3. CASE ForgottenUnseen
      <3>1. (\E k \in Keys : proc'[s].db[k] < proc[s].db[k]) => Unused(s)
        BY <2>3 DEF ForgottenUnseen
      <3>2. (\A k \in Keys : ~(proc'[s].db[k] < proc[s].db[k])) => Grown(proc[s].db, proc'[s].db)
        BY <2>1 DEF Grown
      <3> QED BY <3>1, <3>2
    <2> QED BY <2>2, <2>3
  <1>3. ASSUME NEW r \in Routers, NEW q, proc' = [proc EXCEPT ![r] = q], UNCHANGED link,
               Accounted(r, q), q.nb.described \subseteq proc[r].nb.described
        PROVE  FlowInv'
    <2>1. ASSUME NEW s \in Routers
          PROVE  Accounted(s, proc'[s]) /\ proc'[s].nb.described \subseteq proc[s].nb.described
      <3>1. CASE s = r
        BY <1>3, <3>1 DEF BaseInv
      <3>2. CASE s # r
        BY <1>3, <3>2 DEF BaseInv, FlowInv
      <3> QED BY <3>1, <3>2
    <2> QED BY <1>0, <1>2, <1>3, <2>1, FlowStep
  <1>4. ASSUME NEW r \in Routers, Receive(r) PROVE FlowInv'
    BY <1>4, ReceiveFlow
  <1>5. ASSUME NEW r \in Routers, RunReady(r) PROVE FlowInv'
    <2>1. Advances(r, proc[r], proc[r], {}) /\ Emit(r, proc[r])
      BY <1>1, <1>5, AdvanceNot DEF RunReady
    <2> QED BY <1>1, <2>1, EmitFlow
  <1>6. ASSUME NEW r \in Routers, RunReadyOriginating(r) PROVE FlowInv'
    <2> DEFINE p == OriginateLocalLsas(r, proc[r])
    <2>1. Emit(r, p)
      BY <1>6, Zenon DEF RunReadyOriginating
    <2>2. Base(r, p) /\ Advances(r, proc[r], p, {})
      BY <1>1, OriginateKeeps
    <2> HIDE DEF p
    <2> QED BY <2>1, <2>2, EmitFlow
  <1>7. ASSUME NEW r \in Routers, Elapse(r) PROVE FlowInv'
    <2>1. UNCHANGED link
      BY <1>7 DEF Elapse
    <2>2. \A s \in Routers : Advances(s, proc[s], proc'[s], {})
      BY <1>7, ElapseInv
    <2> QED BY <1>0, <2>1, <2>2, FlowAdvanced
  <1>8. ASSUME NEW r \in Routers, Lose(r) PROVE FlowInv'
    <2> DEFINE o == Other(r)
               D == proc[r].nb.described
               C == proc[o].nb.described
               b == proc[o].db
               c == proc[r].db
               T == D \union Headers(Head(link[r]))
    <2>1. /\ c \in [Keys -> Nat] /\ D \in SUBSET Lsas /\ link[r] \in Seq(Packet)
          /\ o \in Routers /\ o # r /\ Other(o) = r
      BY FlowTypes
    <2>2. b \in [Keys -> Nat]
      BY <2>1, FlowTypes
    <2>3. /\ link[r] # <<>> /\ link'[r] = Tail(link[r]) /\ link'[o] = link[o]
          /\ UNCHANGED proc
      BY <1>8, <2>1 DEF Lose, BaseInv
    <2>4. /\ Accounted(r, proc[r]) /\ Flow(D, link[r], b, c) /\ Flow(C, link[o], c, b)
      BY <2>1 DEF FlowInv
    <2>5. Flow(T, Tail(link[r]), b, c)
      BY <2>1, <2>3, <2>4, FlowTaken
    <2>6. /\ T \in SUBSET Lsas /\ D \in SUBSET T /\ Tail(link[r]) \in Seq(Packet)
      <3>1. Head(link[r]) \in Packet
        BY <2>1, <2>3
      <3> QED BY <2>1, <2>3, <3>1, PacketParts
    <2>7. Grown(b, b) /\ Grown(c, c)
      BY <2>1, <2>2 DEF Grown
    <2> HIDE DEF o, D, C, b, c, T
    <2>8. Flow(D, Tail(link[r]), b, c)
      BY <2>1, <2>2, <2>5, <2>6, <2>7, FlowGrown
    <2>9. proc' = [proc EXCEPT ![r] = proc[r]]
      BY <2>3 DEF BaseInv
    <2>10. /\ Flow(proc[r].nb.described, link'[r], proc[Other(r)].db, proc[r].db)
           /\ Flow(proc[Other(r)].nb.described, link'[Other(r)], proc[r].db, proc[Other(r)].db)
      BY <2>3, <2>4, <2>8 DEF o, D, C, b, c
    <2> QED BY <1>1, <2>4, <2>9, <2>10, FlowOneRouter
  <1>9. ASSUME NEW r \in Routers, Restart(r) PROVE FlowInv'
    <2>1. proc' = [proc EXCEPT ![r] = Fresh] /\ UNCHANGED link
      BY <1>9 DEF Restart
    <2>2. Accounted(r, Fresh) /\ Fresh.nb.described \subseteq proc[r].nb.described
      BY FreshKeeps
    <2> QED BY <1>3, <2>1, <2>2
  <1>10. ASSUME NEW r \in Routers, Expire(r) PROVE FlowInv'
    <2> DEFINE q == Apply(proc[r], "inactivity_timer")
    <2>1. proc' = [proc EXCEPT ![r] = q] /\ UNCHANGED link
      BY <1>10 DEF Expire
    <2>2. Advances(r, proc[r], q, {})
      BY <1>1, ApplyBase
    <2> HIDE DEF q
    <2>3. Accounted(r, q) /\ q.nb.described \subseteq proc[r].nb.described
      BY <2>2 DEF Advances, Gains, FlowInv
    <2> QED BY <1>3, <2>1, <2>3
  <1>11. ASSUME NEW r \in Routers, ResetDatabase(r) PROVE FlowInv'
    <2>1. /\ Accounted(r, proc[r]) => Accounted(r, proc'[r])
          /\ proc'[r].nb.described \subseteq proc[r].nb.described
      BY <1>11, ResetInv
    <2>2. PICK q : proc' = [proc EXCEPT ![r] = q]
      BY <1>11 DEF ResetDatabase
    <2>3. proc'[r] = q /\ UNCHANGED link
      BY <1>11, <2>2 DEF BaseInv, ResetDatabase
    <2>4. Accounted(r, q) /\ q.nb.described \subseteq proc[r].nb.described
      BY <2>1, <2>3 DEF FlowInv
    <2> QED BY <1>3, <2>2, <2>3, <2>4
  <1>12. ASSUME NEW k \in Foreign, NEW g \in 1 .. MaxForeign, Learn(k, g) PROVE FlowInv'
    <2>1. UNCHANGED link
      BY <1>12 DEF Learn
    <2>2. \A s \in Routers : Advances(s, proc[s], proc'[s], {})
      BY <1>12, LearnInv
    <2> QED BY <1>0, <2>1, <2>2, FlowAdvanced
  <1>13. CASE UNCHANGED vars
    BY <1>13 DEF vars, FlowInv
  <1> QED BY <1>4, <1>5, <1>6, <1>7, <1>8, <1>9, <1>10, <1>11, <1>12, <1>13 DEF Next

\* A request at the head of the link is one of the link.
LEMMA FlowAnswers ==
  BaseInv /\ FlowInv => RequestsAnswerable
  <1> SUFFICES ASSUME BaseInv, FlowInv, NEW r \in Routers,
                      link[r] # <<>>, Head(link[r]).type = "request"
               PROVE  \A k \in Head(link[r]).keys : proc[r].db[k] > 0
    BY DEF RequestsAnswerable
  <1>1. link[r] \in Seq(Packet)
    BY DEF BaseInv
  <1>2. Flow(proc[r].nb.described, link[r], proc[Other(r)].db, proc[r].db)
    BY DEF FlowInv
  <1>3. \A k \in Asked(Head(link[r])) : proc[r].db[k] > 0
    BY <1>1, <1>2, FlowTaken
  <1> QED BY <1>3 DEF Asked

\* A Full router has no request open, so it has all that was described.
LEMMA FullAccounted ==
  OrderlyInv /\ FlowInv => FullHasDescribed
  <1> SUFFICES ASSUME OrderlyInv, FlowInv, NEW r \in Routers, proc[r].nb.state = Full,
                      NEW x \in proc[r].nb.described
               PROVE  proc[r].db[x[1]] >= x[2] \/ (x[1] = r /\ proc[r].fight >= x[2])
    BY DEF FullHasDescribed
  <1>1. proc[r].nb.requests = {}
    BY DEF OrderlyInv, Orderly
  <1>2. x[1] \in proc[r].nb.requests \/ Has(r, proc[r], x)
    BY DEF FlowInv, Accounted
  <1> QED BY <1>1, <1>2 DEF Has

\* Initially nothing is described and nothing is under way.
LEMMA InitFlow == Init => FlowInv
  <1> SUFFICES ASSUME Init, NEW r \in Routers
               PROVE  /\ Accounted(r, proc[r])
                      /\ Flow(proc[r].nb.described, link[r], proc[Other(r)].db, proc[r].db)
    BY DEF FlowInv
  <1>1. proc[r] = Fresh /\ link[r] = <<>>
    BY DEF Init
  <1>2. Accounted(r, Fresh) /\ Fresh.nb.described = {}
    BY FreshKeeps
  <1> QED BY <1>1, <1>2 DEF Flow

-----------------------------------------------------------------------------
(***************************************************************************)
(* The theorems.                                                           *)
(***************************************************************************)

\* Whatever happens to InstanceProcess and its link, Base holds of both routers.
THEOREM BaseAlways == Spec => []BaseInv
  <1>1. Init => BaseInv
    BY InitBoth
  <1>2. BaseInv /\ [Next]_vars => BaseInv'
    BY NextBoth
  <1> QED BY <1>1, <1>2, PTL DEF Spec

\* Every field of a process stays in its domain, the cursor stays within the
\* summary list that begin() has built, queue_retransmission() keeps one entry
\* for each key, and a router's next sequence number is beyond its own LSA.
THEOREM AdjacencyTyped == Spec => []TypeOK
  <1>1. ASSUME BaseInv PROVE TypeOK
    <2>1. ASSUME NEW r \in Routers
          PROVE  LET p == proc[r] IN
                 /\ p.nb \in Neighbor
                 /\ p.nb.cursor <= Len(p.nb.summaries)
                 /\ \A d, e \in p.nb.retransmissions : d[1] = e[1] => d = e
                 /\ p.db \in [Keys -> Generation]
                 /\ p.own > p.db[r]
                 /\ p.recent \subseteq Keys
                 /\ p.fight \in Generation /\ p.next \in Nat
                 /\ {p.originate, p.held, p.hello} \subseteq BOOLEAN
      BY <1>1 DEF BaseInv, Base, Process, OnePerKey, Generation
    <2> QED BY <1>1, <2>1 DEF TypeOK, BaseInv
  <1> QED BY <1>1, BaseAlways, PTL

\* A retransmission is never newer than what the database holds, so the update
\* that run_ready() emits for it can always be encoded.
THEOREM RetransmissionsHeld ==
  Spec => [](\A r \in Routers : \A e \in proc[r].nb.retransmissions :
               proc[r].db[e[1]] >= e[2])
  <1>1. BaseInv => \A r \in Routers : \A e \in proc[r].nb.retransmissions :
                     proc[r].db[e[1]] >= e[2]
    BY DEF BaseInv, Base
  <1> QED BY <1>1, BaseAlways, PTL

\* Where states, timers and lists of the neighbours agree, run_ready() has
\* something to encode for every packet that is due.
LEMMA OrderlyTurns ==
  ASSUME BaseInv, OrderlyInv
  PROVE  TurnNeverRejected
  <1> SUFFICES ASSUME NEW r \in Routers
               PROVE  LET nb == proc[r].nb IN
                      /\ nb.request = "pending" => nb.requests # {}
                      /\ nb.update = "pending" => nb.retransmissions # {}
                      /\ \A e \in nb.retransmissions : proc[r].db[e[1]] >= e[2]
    BY DEF TurnNeverRejected
  <1>1. Base(r, proc[r]) /\ Orderly(proc[r])
    BY DEF BaseInv, OrderlyInv
  <1>2. proc[r].nb.state \in Down .. Full
    BY <1>1 DEF Base, Process, Neighbor
  <1>3. proc[r].nb.request = "pending" => proc[r].nb.state = Loading
    BY <1>1, <1>2 DEF Orderly, Down, Loading, Full
  <1> QED BY <1>1, <1>3 DEF Base, Orderly

\* There, who waits has a deadline armed or its packet due.
LEMMA OrderlyTimers == OrderlyInv => NothingForgotten
  BY DEF OrderlyInv, Orderly, NothingForgotten

\* A router that works with a description has its LSAs, or a request open that
\* process_database_description() made; its neighbour still has them; and no
\* update on the link is older than a description before it.  Any number of
\* packets may be lost and of inactivity timers expire; a database is lost only
\* when nobody works with what it described.
THEOREM AccountKept ==
  Spec /\ [][ForgottenUnseen]_vars => [](BaseInv /\ OrderlyInv /\ FlowInv)
  <1>1. Init => BaseInv /\ OrderlyInv /\ FlowInv
    BY InitBoth, InitFlow
  <1>2. BaseInv /\ OrderlyInv /\ FlowInv /\ [Next]_vars /\ [ForgottenUnseen]_vars
          => BaseInv' /\ OrderlyInv' /\ FlowInv'
    BY NextBoth, NextFlow, FlowAnswers
  <1> QED BY <1>1, <1>2, PTL DEF Spec

\* receive_validated() is never asked for an LSA that it does not have, under
\* the same hypothesis.
THEOREM RequestsAnswered ==
  Spec /\ [][ForgottenUnseen]_vars => []RequestsAnswerable
  BY AccountKept, FlowAnswers, PTL

\* A neighbour that is Full has received every LSA that was described to it, or
\* has a fight-back for its own in hand, under the same hypothesis.
THEOREM FullMeansSynchronized ==
  Spec /\ [][ForgottenUnseen]_vars => []FullHasDescribed
  BY AccountKept, FullAccounted, PTL

\* run_ready() is never given up because an emitter has nothing to encode, and a
\* neighbour that negotiates, exchanges, loads or waits for an acknowledgment has
\* its deadline armed or its packet due, under the same hypothesis.
THEOREM TurnsAndTimers ==
  Spec /\ [][ForgottenUnseen]_vars => []TurnNeverRejected /\ []NothingForgotten
  BY AccountKept, OrderlyTurns, OrderlyTimers, PTL

\* No router restarts or resets its database.
NoneForgets == \A r \in Routers : ~Restart(r) /\ ~ResetDatabase(r)

\* Losses and expiries alone, however many, never lead to a bad request, to a
\* Full router that misses an LSA, to a rejected turn or to a forgotten timer.
THEOREM LossAndExpiryHarmless ==
  Spec /\ [][NoneForgets]_vars =>
    /\ []RequestsAnswerable /\ []FullHasDescribed
    /\ []TurnNeverRejected /\ []NothingForgotten
  <1>1. BaseInv /\ [Next]_vars /\ [NoneForgets]_vars => [ForgottenUnseen]_vars
    <2> SUFFICES ASSUME BaseInv, [Next]_vars, NoneForgets PROVE ForgottenUnseen
      OBVIOUS
    <2> SUFFICES ASSUME NEW r \in Routers, NEW k \in Keys
                 PROVE  ~(proc'[r].db[k] < proc[r].db[k])
      BY DEF ForgottenUnseen
    <2>1. Grown(proc[r].db, proc'[r].db)
      BY NextGrows DEF NoneForgets
    <2>2. BaseInv'
      BY NextBoth
    <2>3. proc[r].db[k] \in Nat /\ proc'[r].db[k] \in Nat
      BY <2>2 DEF BaseInv, Process
    <2> QED BY <2>1, <2>3 DEF Grown
  <1>2. Spec /\ [][NoneForgets]_vars => [][ForgottenUnseen]_vars
    BY <1>1, BaseAlways, PTL DEF Spec
  <1> QED BY <1>2, RequestsAnswered, FullMeansSynchronized, TurnsAndTimers, PTL
=============================================================================
