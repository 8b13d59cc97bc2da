--------------------------- MODULE OspfAdjacency ---------------------------
(***************************************************************************)
(* Two OSPF routers on a point-to-point link: the neighbour state machine, *)
(* the database exchange, flooding with acknowledgments, fight-back after  *)
(* a restart, and the owner turn (run_ready) that emits what is due.       *)
(*                                                                         *)
(* The link keeps the order of packets and may lose them.  Time is split   *)
(* in short steps (packets) and Elapse, which lets a retransmit interval   *)
(* pass once the network is quiet: the interval (5 s) is longer than a     *)
(* round trip.  MinLSInterval (5 s) separates two originations of a router *)
(* and MinLSArrival (1 s) two installations of an LSA.                     *)
(*                                                                         *)
(* An LSA is a key and a generation; 0 is absent.  The LSA of router r has *)
(* the key r.  Aging, MaxAge and sequence wrap are left out, so is DR      *)
(* election: an adjacency is always required on this kind of link.  The    *)
(* fields of an exchange that are read only after the next begin are reset *)
(* when the adjacency is cleared.                                          *)
(***************************************************************************)
EXTENDS Integers, Sequences, FiniteSets, FiniteSetsExt

CONSTANTS Foreign,        \* keys of LSAs of other routers, greater than 2
          Home,           \* the router behind which the others are
          MaxForeign,     \* bound: generations of a foreign LSA
          HeaderCapacity, \* LSA headers in one database description
          MaxFaults       \* bound: losses, restarts, expiries and resets

Routers == {1, 2}  \* router identities: the larger one is the master

ASSUME OspfAdjacencyAssumption ==
  /\ Foreign \subseteq Nat \ (0 .. 2) /\ IsFiniteSet(Foreign)
  /\ Home \in Routers
  /\ HeaderCapacity \in Nat \ {0}
  /\ {MaxForeign, MaxFaults} \subseteq Nat

VARIABLES
  proc,    \* the process of each router, with its one neighbour
  link,    \* packets on their way to each router
  faults,  \* faults so far
  lost     \* a packet was lost

vars == <<proc, link, faults, lost>>

Keys == Routers \union Foreign
Other(r) == 3 - r
Master(r) == r > Other(r)

(***************************************************************************)
(* NeighborState, in the order of the code.  TwoWay is never reached here. *)
(***************************************************************************)
Down == 0
InitState == 1
TwoWay == 2
ExStart == 3
Exchange == 4
Loading == 5
Full == 6

(***************************************************************************)
(* A pending flag and its deadline: neither, the deadline, the flag.       *)
(***************************************************************************)
Timer == {"idle", "armed", "pending"}

NoNeighbor ==
  [state |-> Down, seq |-> 0, negotiated |-> FALSE, cursor |-> 0,
   sentMore |-> TRUE, finish |-> FALSE, dd |-> "idle", summaries |-> <<>>,
   requests |-> {}, request |-> "idle", retransmissions |-> {},
   update |-> "idle", acks |-> {}, described |-> {}]

\* A new process.  The code draws the first DD sequence number at random; here
\* it is always the same.
Fresh ==
  [nb |-> NoNeighbor, db |-> [k \in Keys |-> 0], next |-> 0, own |-> 1,
   fight |-> 0, originate |-> TRUE, held |-> FALSE, recent |-> {},
   hello |-> TRUE]

Init ==
  /\ proc = [r \in Routers |-> Fresh]
  /\ link = [r \in Routers |-> <<>>]
  /\ faults = 0 /\ lost = FALSE

----------------------------------------------------------------------------
(***************************************************************************)
(* The neighbour state machine, for links that require an adjacency.       *)
(***************************************************************************)
NeighborTransition(s, event, requestsPending) ==
  LET To(state, clear, begin) ==
        [state |-> state, clear |-> clear, begin |-> begin]
  IN CASE event = "inactivity_timer" -> To(Down, TRUE, FALSE)
       [] event = "hello_received" /\ s = Down -> To(InitState, FALSE, FALSE)
       [] event = "one_way_received" /\ s >= TwoWay ->
            To(InitState, TRUE, FALSE)
       [] event = "sequence_number_mismatch" /\ s >= Exchange ->
            To(ExStart, TRUE, TRUE)
       [] event = "two_way_received" /\ s = InitState ->
            To(ExStart, FALSE, TRUE)
       [] event = "negotiation_done" /\ s = ExStart ->
            To(Exchange, FALSE, FALSE)
       [] event = "exchange_done" /\ s = Exchange ->
            To(IF requestsPending THEN Loading ELSE Full, FALSE, FALSE)
       [] event = "loading_done" /\ s = Loading -> To(Full, FALSE, FALSE)
       [] OTHER -> To(s, FALSE, FALSE)

(***************************************************************************)
(* NeighborDatabaseExchange::begin: the database summary list, by key.     *)
(***************************************************************************)
Summaries(db) ==
  LET held == {k \in Keys : db[k] > 0}
      At(i) == CHOOSE k \in held : Cardinality({j \in held : j <= k}) = i
  IN [i \in 1 .. Cardinality(held) |-> <<At(i), db[At(i)]>>]

(***************************************************************************)
(* A slip for the runs: the new exchange keeps the requests of the old one *)
(***************************************************************************)
ApplyKeepingRequests(p, event) ==
  LET t == NeighborTransition(p.nb.state, event, p.nb.requests # {})
      nb == [(IF t.clear THEN NoNeighbor ELSE p.nb) EXCEPT !.state = t.state]
  IN [p EXCEPT
        !.originate = @ \/ t.clear,
        !.next = IF t.begin THEN @ + 1 ELSE @,
        !.nb = IF t.begin
                 THEN [NoNeighbor EXCEPT !.state = t.state,
                                         !.seq = p.next + 1,
                                         !.dd = "pending",
                                         !.requests = p.nb.requests,
                                         !.summaries = Summaries(p.db)]
                 ELSE nb]

(***************************************************************************)
(* apply_neighbor_event and apply_neighbor_actions: the state, the reset   *)
(* of the adjacency, and the start of a new exchange.                      *)
(***************************************************************************)
Apply(p, event) ==
  LET t == NeighborTransition(p.nb.state, event, p.nb.requests # {})
      nb == [(IF t.clear THEN NoNeighbor ELSE p.nb) EXCEPT !.state = t.state]
  IN [p EXCEPT
        !.originate = @ \/ t.clear,
        !.next = IF t.begin THEN @ + 1 ELSE @,
        !.nb = IF t.begin
                 THEN [NoNeighbor EXCEPT !.state = t.state,
                                         !.seq = p.next + 1,
                                         !.dd = "pending",
                                         !.summaries = Summaries(p.db)]
                 ELSE nb]

----------------------------------------------------------------------------
(***************************************************************************)
(* Receiving.  A handler maps the process to the process.                  *)
(***************************************************************************)
ReceiveHello(p, packet) ==
  Apply(Apply(p, "hello_received"),
        IF packet.sees THEN "two_way_received" ELSE "one_way_received")

(***************************************************************************)
(* A slip for the runs: only what is missing altogether is requested.      *)
(***************************************************************************)
ProcessDescriptionMissing(p, headers) ==
  [p EXCEPT !.nb.requests = @ \union {h[1] : h \in {x \in headers : p.db[x[1]] = 0}},
            !.nb.described = @ \union headers]

(***************************************************************************)
(* process_database_description: what the neighbour has newer is requested *)
(***************************************************************************)
ProcessDescription(p, headers) ==
  [p EXCEPT !.nb.requests = @ \union {h[1] : h \in {x \in headers : x[2] > p.db[x[1]]}},
            !.nb.described = @ \union headers]

(***************************************************************************)
(* A slip for the runs: Loading begins without a request being due.        *)
(***************************************************************************)
ExchangeDoneUnarmed(p, otherwise) ==
  LET q == Apply(p, "exchange_done")
  IN [q EXCEPT !.nb.dd = "idle", !.nb.finish = FALSE,
               !.nb.request = otherwise,
               !.originate = @ \/ q.nb.state = Full]

(***************************************************************************)
(* ExchangeDone: Full when nothing is to be requested, otherwise Loading.  *)
(***************************************************************************)
ExchangeDone(p, otherwise) ==
  LET q == Apply(p, "exchange_done")
  IN [q EXCEPT !.nb.dd = "idle", !.nb.finish = FALSE,
               !.nb.request = IF q.nb.state = Loading THEN "pending"
                                                      ELSE otherwise,
               !.originate = @ \/ q.nb.state = Full]

DescriptionInExStart(r, p, d) ==
  LET becomeSlave == d.init /\ d.more /\ d.master /\ d.headers = {}
                     /\ Other(r) > r
      remainMaster == ~d.init /\ ~d.master /\ d.seq = p.nb.seq
                      /\ Other(r) < r
      q == ProcessDescription(Apply(p, "negotiation_done"), d.headers)
  IN IF becomeSlave \/ remainMaster
       THEN [q EXCEPT !.nb.negotiated = TRUE, !.nb.dd = "pending",
                      !.nb.seq = IF becomeSlave THEN d.seq ELSE @ + 1]
       ELSE p

DescriptionInExchange(r, p, d) ==
  LET mismatch == \/ d.init
                  \/ d.master = Master(r)
                  \/ IF Master(r) THEN d.seq # p.nb.seq ELSE d.seq < p.nb.seq
      q == ProcessDescription(p, d.headers)
  IN IF mismatch THEN Apply(p, "sequence_number_mismatch")
     ELSE IF ~Master(r)
       THEN [q EXCEPT !.nb.seq = d.seq, !.nb.dd = "pending",
                      !.nb.finish = ~d.more]
     ELSE IF q.nb.sentMore \/ d.more
       THEN [q EXCEPT !.nb.seq = @ + 1, !.nb.dd = "pending"]
     ELSE ExchangeDone(q, "armed")

(***************************************************************************)
(* A slip for the runs: a peer that began anew is merely rejected.         *)
(***************************************************************************)
DescriptionWhenDoneRejected(r, p, d) == p

(***************************************************************************)
(* A description in Loading or Full: the last one again, or a peer that    *)
(* began anew.                                                             *)
(***************************************************************************)
DescriptionWhenDone(r, p, d) ==
  LET duplicate == ~d.init /\ d.master = ~Master(r) /\ d.seq = p.nb.seq
  IN IF duplicate THEN p ELSE Apply(p, "sequence_number_mismatch")

ReceiveDescription(r, p, d) ==
  CASE p.nb.state < ExStart  -> p
    [] p.nb.state = ExStart  -> DescriptionInExStart(r, p, d)
    [] p.nb.state = Exchange -> DescriptionInExchange(r, p, d)
    [] OTHER                 -> DescriptionWhenDone(r, p, d)

(***************************************************************************)
(* queue_retransmission: one entry for each key, the last one queued.      *)
(***************************************************************************)
Queue(nb, lsas) ==
  [nb EXCEPT !.retransmissions =
               {e \in @ : \A x \in lsas : x[1] # e[1]} \union lsas,
             !.update = "pending"]

(***************************************************************************)
(* A link-state request.  The entries before one that the database does    *)
(* not have are queued, without the timer; the unknown one then only moves *)
(* the state to ExStart and asks for a description.  Entries come in the   *)
(* order of the description.                                               *)
(***************************************************************************)
ReceiveRequest(p, keys) ==
  LET unknown == {k \in keys : p.db[k] = 0}
      known == {k \in keys : \A u \in unknown : k < u}
      queued == Queue(p.nb, {<<k, p.db[k]>> : k \in known})
  IN IF p.nb.state < Exchange THEN p
     ELSE IF unknown = {} THEN [p EXCEPT !.nb = queued]
     ELSE [p EXCEPT !.nb = [queued EXCEPT !.state = ExStart, !.dd = "pending",
                                          !.update = p.nb.update]]

(***************************************************************************)
(* LinkStateDatabase::install.  early: the keys whose installed instance   *)
(* is younger than MinLSArrival when this update arrives.                  *)
(***************************************************************************)
Install(r, p, x, early) ==
  CASE x[2] < p.db[x[1]] -> "older"
    [] x[2] = p.db[x[1]] -> "identical"
    [] x[1] = r          -> "fight_back_required"
    [] x[1] \in early /\ p.db[x[1]] > 0 -> "too_soon"
    [] OTHER             -> "installed"

(***************************************************************************)
(* received_lsa: the results that answer a request.                        *)
(***************************************************************************)
Answers(result) == result \in {"installed", "identical", "fight_back_required"}

(***************************************************************************)
(* A link-state update: install, answer requests, acknowledge, or take the *)
(* identical instance as an acknowledgment; then LoadingDone.              *)
(***************************************************************************)
ReceiveUpdate(r, p, lsas, early) ==
  IF p.nb.state < Exchange THEN p ELSE
  LET With(results) == {x \in lsas : Install(r, p, x, early) \in results}
      installed == With({"installed"})
      fight == {x[2] : x \in With({"fight_back_required"})}
      answered == {x[1] : x \in {y \in lsas : Answers(Install(r, p, y, early))}}
      implied == With({"identical"}) \intersect p.nb.retransmissions
      kept == p.nb.retransmissions \ implied
      q == [p EXCEPT
              !.db = [k \in Keys |-> IF \E x \in installed : x[1] = k
                                       THEN (CHOOSE x \in installed : x[1] = k)[2]
                                       ELSE @[k]],
              !.recent = @ \union {x[1] : x \in installed},
              !.fight = Max({@} \union fight),
              !.originate = @ \/ fight # {},
              !.nb.requests = @ \ answered,
              !.nb.retransmissions = kept,
              !.nb.update = IF implied # {} /\ kept = {} THEN "idle" ELSE @,
              !.nb.acks = @ \union (lsas \ implied)]
  IN IF q.nb.state = Loading /\ q.nb.requests = {}
       THEN [Apply(q, "loading_done") EXCEPT !.nb.request = "armed",
                                             !.originate = TRUE]
       ELSE q

(***************************************************************************)
(* A slip for the runs: the update stays due when its list is empty.       *)
(***************************************************************************)
ReceiveAckKeepingTimer(p, headers) ==
  IF p.nb.state < Exchange THEN p
  ELSE [p EXCEPT !.nb.retransmissions = @ \ headers]

ReceiveAck(p, headers) ==
  IF p.nb.state < Exchange THEN p ELSE
  LET kept == p.nb.retransmissions \ headers
  IN [p EXCEPT !.nb.retransmissions = kept,
               !.nb.update = IF kept = {} THEN "idle" ELSE @]

Handle(r, p, packet, early) ==
  CASE packet.type = "hello"   -> ReceiveHello(p, packet)
    [] packet.type = "dd"      -> ReceiveDescription(r, p, packet)
    [] packet.type = "request" -> ReceiveRequest(p, packet.keys)
    [] packet.type = "update"  -> ReceiveUpdate(r, p, packet.lsas, early)
    [] packet.type = "ack"     -> ReceiveAck(p, packet.lsas)

Receive(r) ==
  /\ link[r] # <<>>
  /\ \E early \in SUBSET proc[r].recent :
       proc' = [proc EXCEPT ![r] = Handle(r, @, Head(link[r]), early)]
  /\ link' = [link EXCEPT ![r] = Tail(@)]
  /\ UNCHANGED <<faults, lost>>

----------------------------------------------------------------------------
(***************************************************************************)
(* The owner turn.  Each emitter yields its packet when it is due.         *)
(***************************************************************************)
OriginateLocalLsas(r, p) ==
  LET seq == IF p.fight > p.db[r] THEN Max({p.own, p.fight + 1}) ELSE p.own
  IN [p EXCEPT !.db[r] = seq, !.own = seq + 1, !.fight = 0,
               !.originate = FALSE, !.held = TRUE,
               !.nb = IF @.state = Full THEN Queue(@, {<<r, seq>>}) ELSE @]

When(due, packet) == IF due THEN <<packet>> ELSE <<>>

EmitHello(p) == When(p.hello, [type |-> "hello", sees |-> p.nb.state # Down])

EmitAcknowledgment(p) ==
  When(p.nb.acks # {}, [type |-> "ack", lsas |-> p.nb.acks])

HeaderCount(nb) ==
  IF nb.negotiated THEN Min({Len(nb.summaries) - nb.cursor, HeaderCapacity})
                   ELSE 0

More(nb) ==
  ~nb.negotiated \/ nb.cursor + HeaderCount(nb) < Len(nb.summaries)

EmitDatabaseDescription(r, nb) ==
  When(nb.dd = "pending",
       [type |-> "dd", init |-> ~nb.negotiated, more |-> More(nb),
        master |-> ~nb.negotiated \/ Master(r), seq |-> nb.seq,
        headers |-> {nb.summaries[i] :
                       i \in nb.cursor + 1 .. nb.cursor + HeaderCount(nb)}])

(***************************************************************************)
(* A slip for the runs: what was sent is not sent again.                   *)
(***************************************************************************)
SentOnce(timer) == IF timer = "pending" THEN "idle" ELSE timer

Sent(timer) == IF timer = "pending" THEN "armed" ELSE timer

(***************************************************************************)
(* What sending the description changes.  The slave is done when it has    *)
(* answered the master's last one with its own last one.                   *)
(***************************************************************************)
DescriptionSent(r, p) ==
  LET sent == [p EXCEPT !.nb.cursor = @ + HeaderCount(p.nb),
                        !.nb.sentMore = More(p.nb), !.nb.dd = "armed"]
  IN IF p.nb.dd # "pending" THEN p
     ELSE IF p.nb.negotiated /\ ~Master(r) /\ p.nb.finish /\ ~More(p.nb)
       THEN ExchangeDone(sent, Sent(p.nb.request))
       ELSE sent

EmitLinkStateUpdate(p) ==
  When(p.nb.update = "pending",
       [type |-> "update", lsas |-> {<<e[1], p.db[e[1]]>> :
                                       e \in p.nb.retransmissions}])

EmitLinkStateRequest(p) ==
  When(p.nb.request = "pending",
       [type |-> "request", keys |-> p.nb.requests])

Emit(r, p) ==
  /\ \E d \in {DescriptionSent(r, p)} :
       /\ proc' = [proc EXCEPT ![r] =
                     [d EXCEPT !.hello = FALSE, !.nb.acks = {},
                               !.nb.update = Sent(@), !.nb.request = Sent(@)]]
       /\ link' = [link EXCEPT ![Other(r)] =
                     @ \o EmitHello(p) \o EmitAcknowledgment(p)
                       \o EmitDatabaseDescription(r, p.nb)
                       \o EmitLinkStateUpdate(d) \o EmitLinkStateRequest(d)]
  /\ UNCHANGED <<faults, lost>>

Working(p) ==
  p.hello \/ p.nb.acks # {} \/ "pending" \in {p.nb.dd, p.nb.update, p.nb.request}

(***************************************************************************)
(* run_ready, with or without an origination that is due.  Its deadline    *)
(* may be later than MinLSInterval, hence the choice.                      *)
(***************************************************************************)
RunReady(r) == Working(proc[r]) /\ Emit(r, proc[r])

RunReadyOriginating(r) ==
  /\ proc[r].originate /\ ~proc[r].held
  /\ \E p \in {OriginateLocalLsas(r, proc[r])} : Emit(r, p)

(***************************************************************************)
(* A retransmit interval passes once the packets and the originations that *)
(* MinLSInterval allows are through: the deadlines of r and its Hello are  *)
(* due, and MinLSInterval and MinLSArrival are over everywhere.            *)
(***************************************************************************)
Elapse(r) ==
  /\ \A s \in Routers :
       /\ link[s] = <<>> /\ ~Working(proc[s])
       /\ proc[s].originate => proc[s].held
  /\ LET Due(timer, some) == IF timer = "armed" /\ some THEN "pending" ELSE timer
         Later(p) == [p EXCEPT !.held = FALSE, !.recent = {}]
         Fired(p) ==
           [p EXCEPT !.hello = TRUE,
              !.nb.dd = Due(@, TRUE),
              !.nb.request = Due(@, p.nb.requests # {}),
              !.nb.update = Due(@, p.nb.retransmissions # {})]
     IN proc' = [s \in Routers |-> IF s = r THEN Fired(Later(proc[s]))
                                            ELSE Later(proc[s])]
  /\ UNCHANGED <<link, faults, lost>>

(***************************************************************************)
(* An update from a neighbour on another interface, flooded on this one.   *)
(***************************************************************************)
Learn(k, g) ==
  /\ g > proc[Home].db[k]
  /\ proc' = [proc EXCEPT ![Home].db[k] = g,
                          ![Home].recent = @ \union {k},
                          ![Home].nb = IF @.state >= Exchange
                                         THEN Queue(@, {<<k, g>>}) ELSE @]
  /\ UNCHANGED <<link, faults, lost>>

----------------------------------------------------------------------------
(***************************************************************************)
(* Faults: a lost packet, a process that starts anew, an inactivity timer  *)
(* (or the reset of a neighbour by the operator), a database reset.        *)
(***************************************************************************)
Fault == faults < MaxFaults /\ faults' = faults + 1

Lose(r) ==
  /\ Fault
  /\ link[r] # <<>>
  /\ link' = [link EXCEPT ![r] = Tail(@)]
  /\ lost' = TRUE
  /\ UNCHANGED proc

Restart(r) ==
  /\ Fault
  /\ proc' = [proc EXCEPT ![r] = Fresh]
  /\ UNCHANGED <<link, lost>>

Expire(r) ==
  /\ Fault
  /\ proc[r].nb.state # Down
  /\ proc' = [proc EXCEPT ![r] = Apply(@, "inactivity_timer")]
  /\ UNCHANGED <<link, lost>>

ResetDatabase(r) ==
  /\ Fault
  /\ LET erased == [proc[r] EXCEPT
                      !.db = [k \in Keys |-> IF k = r THEN @[k] ELSE 0],
                      !.originate = TRUE]
     IN proc' = [proc EXCEPT ![r] = IF erased.nb.state > TwoWay
                                      THEN Apply(erased, "one_way_received")
                                      ELSE erased]
  /\ UNCHANGED <<link, lost>>

Next ==
  \/ \E r \in Routers : \/ Receive(r)
                        \/ RunReady(r) \/ RunReadyOriginating(r)
                        \/ Elapse(r)
                        \/ Lose(r) \/ Restart(r) \/ Expire(r) \/ ResetDatabase(r)
  \/ \E k \in Foreign, g \in 1 .. MaxForeign : Learn(k, g)

(***************************************************************************)
(* The owner's loop runs as long as there is work, the link delivers what  *)
(* it does not lose, and every clock advances.                             *)
(***************************************************************************)
Work == \E r \in Routers : Receive(r) \/ RunReady(r)

Fairness ==
  /\ WF_vars(Work)
  /\ \A r \in Routers : WF_vars(RunReadyOriginating(r)) /\ SF_vars(Elapse(r))

Spec == Init /\ [][Next]_vars /\ Fairness

----------------------------------------------------------------------------
Generation == Nat
Lsas == Keys \X (Generation \ {0})
Neighbor ==
  [state : Down .. Full, seq : Nat, negotiated : BOOLEAN, cursor : Nat,
   sentMore : BOOLEAN, finish : BOOLEAN, dd : Timer, summaries : Seq(Lsas),
   requests : SUBSET Keys, request : Timer, retransmissions : SUBSET Lsas,
   update : Timer, acks : SUBSET Lsas, described : SUBSET Lsas]

(***************************************************************************)
(* Type invariant; the cursor stays within the summary list, and each key  *)
(* has at most one retransmission entry.                                   *)
(***************************************************************************)
TypeOK ==
  /\ \A r \in Routers :
       LET p == proc[r] IN
       /\ p.nb \in Neighbor
       /\ p.nb.cursor <= Len(p.nb.summaries)
       /\ \A d, e \in p.nb.retransmissions : d[1] = e[1] => d = e
       /\ p.db \in [Keys -> Generation]
       /\ p.own > p.db[r]
       /\ p.recent \subseteq Keys
       /\ p.fight \in Generation /\ p.next \in Nat
       /\ {p.originate, p.held, p.hello} \subseteq BOOLEAN
  /\ faults \in 0 .. MaxFaults /\ lost \in BOOLEAN

(***************************************************************************)
(* An emitter that is due has something to send.  run_ready gives up the   *)
(* whole turn, for every interface, when an emitter has nothing to encode. *)
(***************************************************************************)
TurnNeverRejected ==
  \A r \in Routers :
    LET nb == proc[r].nb IN
    /\ nb.request = "pending" => nb.requests # {}
    /\ nb.update = "pending" => nb.retransmissions # {}
    /\ \A e \in nb.retransmissions : proc[r].db[e[1]] >= e[2]

(***************************************************************************)
(* Who waits has a timer: a router that negotiates or exchanges will send  *)
(* a description, one that loads has requests open and will send them, and *)
(* an LSA that is not acknowledged will be sent again.                     *)
(***************************************************************************)
NothingForgotten ==
  \A r \in Routers :
    LET nb == proc[r].nb IN
    /\ nb.state \in {ExStart, Exchange} => nb.dd # "idle"
    /\ nb.state = Loading => nb.requests # {} /\ nb.request # "idle"
    /\ nb.retransmissions # {} => nb.update # "idle"

(***************************************************************************)
(* A Full router has every LSA its neighbour described in this exchange,   *)
(* or a fight-back or a newer generation of its own LSA in hand.           *)
(***************************************************************************)
FullHasDescribed ==
  \A r \in Routers :
    LET p == proc[r] IN
    p.nb.state = Full =>
      \A x \in p.nb.described :
        p.db[x[1]] >= x[2] \/ (x[1] = r /\ p.fight >= x[2])

(***************************************************************************)
(* On a link that keeps the order, no request names an LSA that the router *)
(* it reaches does not have: a description of an old exchange cannot pass  *)
(* for one of the new, since "a fresh DD sequence is consumed for every    *)
(* new exchange" (apply_neighbor_actions).  One fault (a loss, an expiry,  *)
(* a reset or a restart) does not break it; two do: next_dd_sequence_      *)
(* moves by one per exchange and the number in use by one per description, *)
(* so a new exchange can begin with a number of the old one.               *)
(***************************************************************************)
RequestsAnswerable ==
  \A r \in Routers :
    /\ link[r] # <<>> /\ Head(link[r]).type = "request"
    /\ proc[r].nb.state >= Exchange
    => \A k \in Head(link[r]).keys : proc[r].db[k] > 0

BothFull == \A r \in Routers : proc[r].nb.state = Full

(***************************************************************************)
(* After restarts, expiries and resets, if no packet was lost, the routers *)
(* become Full and stay so, and a router's LSA is nowhere newer than at    *)
(* the router itself: fight-back has replaced the old generations.         *)
(***************************************************************************)
AdjacencyRecovers ==
  <>[](\/ lost
       \/ /\ BothFull
          /\ \A r \in Routers : proc[Other(r)].db[r] <= proc[r].db[r])

(***************************************************************************)
(* Loading ends, whether or not a packet was lost.                         *)
(***************************************************************************)
LoadingEnds == []<>(\A r \in Routers : proc[r].nb.state # Loading)

(***************************************************************************)
(* The routers become Full and stay so although packets are lost.          *)
(***************************************************************************)
AdjacencySurvivesLoss == <>[]BothFull

(***************************************************************************)
(* An acknowledged instance was delivered: when a router takes an LSA from *)
(* its retransmission list, the neighbour has that generation or a newer   *)
(* one.                                                                    *)
(***************************************************************************)
AcknowledgedIsDelivered ==
  [][\A r \in Routers :
       \A e \in proc[r].nb.retransmissions :
         \/ proc[Other(r)].db[e[1]] >= e[2]
         \/ \E d \in proc'[r].nb.retransmissions : d[1] = e[1]
         \/ proc'[r].nb.state # proc[r].nb.state]_vars
=============================================================================
