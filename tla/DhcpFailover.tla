---------------------------- MODULE DhcpFailover ----------------------------
(***************************************************************************)
(* The DHCPv4 and DHCPv6 failover relationship between a primary and a     *)
(* secondary server: the endpoint state machine, the session that         *)
(* negotiates and synchronises over one TCP connection, and the pieces of  *)
(* the owner's turn (service_dhcp_failover) that drive it.                 *)
(*                                                                         *)
(* The pieces of the turn are separate actions here and may happen in any  *)
(* order: every turn of the owner is a sequence of them, so what holds for *)
(* this specification holds for the owner.  The read loop is taken message *)
(* by message; nothing else happens until it ends.  Deadlines are kept as  *)
(* the time that remains.                                                  *)
(***************************************************************************)
EXTENDS Integers, Sequences

CONSTANTS Holders,          \* servers that start with a binding
          Versions,         \* the protocols to explore, a subset of {4, 6}
          MCLT,             \* maximum client lead time
          StartupPeriod,    \* startup_seconds
          ResponseDelay,    \* maximum_response_delay_seconds
          SafePeriod,       \* safe_period_seconds / auto_partner_down_seconds
          SendInterval,     \* time without transmission after which CONTACT is due
          PendingCapacity,  \* entries of Session::pending_
          StreamCapacity,   \* messages TCP takes before write() is refused
          MaxXid,           \* largest transaction identifier
          MaxOpens          \* bound: connections opened

ASSUME FailoverConstants ==
  /\ Versions \subseteq {4, 6} /\ Holders \subseteq {"primary", "secondary"}
  /\ {MCLT, StartupPeriod, ResponseDelay, SafePeriod, SendInterval,
      PendingCapacity, StreamCapacity, MaxXid,
      MaxOpens} \subseteq Nat \ {0}
  /\ PendingCapacity > 5  \* 16 in the code; more than the messages of a turn

VARIABLES version,   \* which of the two protocols the pair runs
          node,      \* role -> session, endpoint and owner state of a server
          sock,      \* role -> "none", "open", or "closed" (TCP reports closed)
          paired,    \* both sockets belong to the same live connection
          backlog,   \* a completed connection waits in the secondary's listener
          chan,      \* role -> messages TCP will deliver to it, in order
          reading,   \* the role that is in its read loop, or "none"
          opens      \* connections the primary has opened (bound)

vars == <<version, node, sock, paired, backlog, chan, reading, opens>>

Role == {"primary", "secondary"}
Other(r) == CHOOSE o \in Role : o # r

Never == -1
None == "none"

State == {"startup", "normal", "communications_interrupted", "partner_down",
          "potential_conflict", "recover", "recover_wait", "recover_done",
          "resolution_interrupted", "conflict_done"}

Phase == {"disconnected", "awaiting_connect", "awaiting_connect_ack",
          "synchronizing", "established"}

\* The bindings a server starts with: its own one, if it holds any.
InitialLeases == [r \in Role |-> {r} \cap Holders]

-----------------------------------------------------------------------------
(* The endpoint state machine. *)

Transition(e, state, duration) ==
  [e EXCEPT !.state = state, !.stateIn = duration,
            !.escaped = @ \/ state = "partner_down"]

\* configure() forgets what the partner said; got and escaped are history.
Configure(e) ==
  Transition([e EXCEPT !.comm = FALSE, !.partner = None, !.complete = FALSE,
                       !.got = {}, !.escaped = FALSE],
             "startup", IF version = 4 THEN StartupPeriod ELSE Never)

EnterConflict(e) ==
  Transition([e EXCEPT !.complete = FALSE], "potential_conflict", Never)

EvaluateV4(e) ==
  LET Heard(states) == e.comm /\ e.partner \in states
      In(state) == e.state = state
  IN
  CASE In("startup") /\ Heard(State) ->
         Transition([e EXCEPT !.complete = FALSE], "recover", Never)
    [] In("startup") /\ ~e.comm /\ e.stateIn = 0 ->
         Transition(e, "partner_down", MCLT)
    [] In("recover") /\ Heard({"potential_conflict", "resolution_interrupted",
                               "conflict_done"}) -> EnterConflict(e)
    [] In("recover") /\ e.comm /\ e.complete
         /\ ~Heard({"potential_conflict", "resolution_interrupted",
                    "conflict_done"}) ->
         Transition(e, "recover_wait", MCLT)
    [] In("recover_wait") /\ e.stateIn = 0 ->
         Transition(e, "recover_done", Never)
    [] In("recover_done") /\ Heard({"normal", "recover_done"}) ->
         Transition(e, "normal", Never)
    [] In("recover_done") /\ Heard({"potential_conflict"}) -> EnterConflict(e)
    [] In("normal") /\ ~e.comm ->
         Transition(e, "communications_interrupted", SafePeriod)
    [] In("normal") /\ Heard(State \ {"normal"}) ->
         Transition(e, "communications_interrupted", Never)
    [] In("communications_interrupted")
         /\ Heard({"normal", "communications_interrupted", "recover_done"}) ->
         Transition(e, "normal", Never)
    [] In("communications_interrupted")
         /\ Heard({"partner_down", "potential_conflict", "conflict_done",
                   "resolution_interrupted"}) -> EnterConflict(e)
    [] In("communications_interrupted") /\ ~e.comm /\ e.stateIn = 0 ->
         Transition(e, "partner_down", MCLT)
    [] In("partner_down") /\ Heard({"recover_done"}) ->
         Transition(e, "normal", Never)
    [] In("partner_down")
         /\ Heard(State \ {"recover_done", "recover", "recover_wait",
                           "startup"}) -> EnterConflict(e)
    [] In("potential_conflict") /\ ~e.comm ->
         Transition(e, "resolution_interrupted", Never)
    [] In("potential_conflict") /\ e.comm /\ e.complete ->
         Transition(e, IF e.role = "primary" THEN "conflict_done"
                                             ELSE "normal", Never)
    [] In("resolution_interrupted") /\ e.comm -> EnterConflict(e)
    [] In("conflict_done") /\ Heard({"normal"}) ->
         Transition(e, "normal", Never)
    [] OTHER -> e

\* RFC 8156 adds one rule; a v6 startup has no deadline, so no escape.
EvaluateV6(e) ==
  IF e.state = "recover_done" /\ e.comm
       /\ e.partner \in {"recover", "recover_wait"}
  THEN Transition(e, "communications_interrupted", Never)
  ELSE EvaluateV4(e)

Evaluate(e) == IF version = 4 THEN EvaluateV4(e) ELSE EvaluateV6(e)

CommunicationChanged(e, available) ==
  IF available = e.comm THEN e
  ELSE Evaluate([e EXCEPT !.comm = available,
                          !.contactIn = IF available THEN ResponseDelay
                                                     ELSE Never])

PartnerStateChanged(e, state) == Evaluate([e EXCEPT !.partner = state])

UpdateRequestFinished(e) == Evaluate([e EXCEPT !.complete = TRUE])

EndpointService(e) ==
  Evaluate(IF e.comm /\ e.contactIn = 0
           THEN [e EXCEPT !.comm = FALSE, !.contactIn = Never] ELSE e)

\* The next identifier; 0 is never used, the counter wraps to 1.
AllocateXid(e) == [e EXCEPT !.next = IF @ = MaxXid THEN 1 ELSE @ + 1]

ResponsivenessV4(e) ==
  CASE e.state \in {"normal", "communications_interrupted", "partner_down",
                    "resolution_interrupted", "conflict_done"} -> "responsive"
    [] e.state = "recover_done" -> "renew_responsive"
    [] OTHER -> "unresponsive"

ResponsivenessV6(e) ==
  IF e.state = "normal" /\ e.role = "secondary" THEN "renew_responsive"
  ELSE ResponsivenessV4(e)

Responsiveness(e) ==
  IF version = 4 THEN ResponsivenessV4(e) ELSE ResponsivenessV6(e)

-----------------------------------------------------------------------------
(* The session. *)

Disconnect(s) ==
  [CommunicationChanged(s, FALSE) EXCEPT !.pending = <<>>,
                                         !.phase = "disconnected"]

\* A slip in transport_closed(): the endpoint is not told.
TransportClosedSilently(s) ==
  [s EXCEPT !.pending = <<>>, !.phase = "disconnected", !.sync = 0]

TransportClosed(s) == [Disconnect(s) EXCEPT !.sync = 0]

\* A full queue fails the session, which the caller sees in the phase.
Enqueue(s, type, xid) ==
  IF s.phase # "disconnected" /\ Len(s.pending) = PendingCapacity
  THEN Disconnect(s)
  ELSE [s EXCEPT !.pending = Append(@, [type |-> type, xid |-> xid])]

TransportConnected(s) ==
  LET t == [s EXCEPT !.pending = <<>>, !.sync = 0, !.sendIn = SendInterval]
  IN IF s.role = "primary"
     THEN Enqueue([t EXCEPT !.phase = "awaiting_connect_ack"], "connect", 0)
     ELSE [t EXCEPT !.phase = "awaiting_connect"]

Ok(s) == [s |-> s, ok |-> s.phase # "disconnected"]
Rejected(s) == [s |-> Disconnect(s), ok |-> FALSE]

\* UPDREQALL with a fresh identifier, which the answer has to carry.
RequestUpdate(s) ==
  LET t == AllocateXid(s)
  IN Enqueue([t EXCEPT !.sync = s.next], "update_request_all", s.next)

\* The endpoint starts anew; the secondary answers, both announce their state.
Negotiated(s) ==
  LET e == Configure(s)
      a == IF s.phase = "awaiting_connect" THEN Enqueue(e, "connect_ack", 0)
                                           ELSE e
      t == Enqueue(a, "state", 0)
  IN IF t.phase = "disconnected" THEN t
     ELSE [t EXCEPT !.phase = "synchronizing", !.interval = TRUE]

ReceiveDone(s, m) ==
  IF m.xid # s.sync THEN Rejected(s)
  ELSE Ok([UpdateRequestFinished([s EXCEPT !.sync = 0])
             EXCEPT !.phase = "established"])

ReceiveV4(s, m) ==
  CASE s.phase = "disconnected" -> [s |-> s, ok |-> FALSE]
    [] s.phase = "awaiting_connect" ->
         IF m.type # "connect" THEN Rejected(s)
         ELSE Ok(Negotiated(s))
    [] s.phase = "awaiting_connect_ack" ->
         IF m.type # "connect_ack" THEN Rejected(s)
         ELSE Ok(Negotiated(s))
    [] OTHER ->
         CASE m.type \in {"connect", "connect_ack"} -> Rejected(s)
           [] m.type = "update_done" -> ReceiveDone(s, m)
           [] m.type = "state" ->
                LET t == CommunicationChanged(
                           PartnerStateChanged(s, m.state), TRUE)
                IN Ok(IF t.sync = 0 THEN RequestUpdate(t) ELSE t)
           [] m.type = "contact" -> Ok(CommunicationChanged(s, TRUE))
           [] OTHER -> Ok(s)

\* A message of a negotiated v6 session, which shows that the partner is there.
ReceiveNegotiatedV6(t, m) ==
  CASE m.type \in {"connect", "connect_ack"} -> Rejected(t)
    [] m.type = "update_done" -> ReceiveDone(t, m)
    [] m.type = "state" -> Ok(PartnerStateChanged(t, m.state))
    [] OTHER -> Ok(t)

\* The clocks of the pair agree, so the skew test never closes the session.
ReceiveV6(s, m) ==
  LET Synchronize(t) ==
        IF t.phase = "disconnected" THEN t
        ELSE RequestUpdate(CommunicationChanged(t, TRUE))
  IN
  CASE s.phase = "disconnected" -> [s |-> s, ok |-> FALSE]
    [] s.phase = "awaiting_connect" ->
         IF m.type # "connect" THEN Rejected(s)
         ELSE Ok(Synchronize(Negotiated(s)))
    [] s.phase = "awaiting_connect_ack" ->
         IF m.type # "connect_ack" THEN Rejected(s)
         ELSE Ok(Synchronize(Negotiated(s)))
    [] OTHER -> ReceiveNegotiatedV6(CommunicationChanged(s, TRUE), m)

Receive(s, m) == IF version = 4 THEN ReceiveV4(s, m) ELSE ReceiveV6(s, m)

\* A slip in service(): CONTACT is queued behind messages still to be sent.
KeepaliveUnchecked(e, exempt) ==
  IF ~e.comm /\ e.phase \notin exempt
  THEN [e EXCEPT !.phase = "disconnected", !.pending = <<>>]
  ELSE IF e.interval /\ e.sendIn = 0 THEN Enqueue(e, "contact", 0) ELSE e

\* What Session::service does once the endpoint was serviced.
Keepalive(e, exempt) ==
  CASE ~e.comm /\ e.phase \notin exempt ->
         [e EXCEPT !.phase = "disconnected", !.pending = <<>>]
    [] (e.comm \/ e.phase \in exempt)
         /\ e.interval /\ e.pending = <<>> /\ e.sendIn = 0 ->
         Enqueue(e, "contact", 0)
    [] OTHER -> e

ServiceV4(s) ==
  IF s.phase = "disconnected" THEN s
  ELSE Keepalive(EndpointService(s),
                 {"awaiting_connect", "awaiting_connect_ack"})

ServiceV6(s) ==
  IF s.phase = "disconnected" THEN s ELSE Keepalive(EndpointService(s), {})

SessionService(s) == IF version = 4 THEN ServiceV4(s) ELSE ServiceV6(s)

\* The state a STATE message carries.  Startup is announced as normal, and
\* the v4 wire has no number for recover_wait.
Advertised(e) ==
  CASE e.state = "startup" -> "normal"
    [] e.state = "recover_wait" /\ version = 4 -> "recover"
    [] OTHER -> e.state

PrepareNext(s) ==
  LET p == Head(s.pending)
  IN IF s.out # <<>> \/ s.pending = <<>> THEN s
     ELSE [s EXCEPT !.pending = Tail(@), !.sendIn = SendInterval,
               !.out = <<[type |-> p.type, xid |-> p.xid,
                          state |-> IF p.type = "state" THEN Advertised(s)
                                                        ELSE None,
                          lease |-> None]>>]

-----------------------------------------------------------------------------
(* The pieces of the owner's turn. *)

\* A slip: the synchronisation of the old connection goes on over the new one.
OwnerResetKeepingRequest(s) ==
  [s EXCEPT !.out = IF s.role = "secondary" THEN <<>> ELSE @]

OwnerReset(s) ==
  [s EXCEPT !.todo = {}, !.req = 0, !.bind = 0,
            !.out = IF s.role = "secondary" THEN <<>> ELSE @]

\* What the owner does with a message the session t has accepted.
Accepted(t, m) ==
  CASE m.type = "update_request_all" ->
         IF t.req # 0 THEN [s |-> t, ok |-> FALSE]
         ELSE Ok([t EXCEPT !.todo = t.leases, !.req = m.xid, !.bind = 0])
    [] m.type = "binding_ack" ->
         IF t.bind = 0 \/ m.xid # t.bind \/ m.lease \notin t.todo
         THEN [s |-> t, ok |-> FALSE]
         ELSE Ok([t EXCEPT !.todo = @ \ {m.lease}, !.bind = 0])
    [] m.type = "binding_update" ->
         Ok([t EXCEPT !.leases = @ \union {m.lease},
                      !.got = @ \union {m.lease},
                      !.out = <<[m EXCEPT !.type = "binding_ack"]>>])
    [] OTHER -> Ok(t)

\* One message of the read loop.  ok = FALSE makes the owner close the socket.
Dispatch(s, m) ==
  LET Process(q) == IF q.ok THEN Accepted(q.s, m) ELSE q
  IN Process(Receive(s, m))

\* A slip: UPDDONE is sent although a binding has not been acknowledged.
SynchronizationStepEarly(s) ==
  IF s.out # <<>> \/ s.req = 0 THEN s
  ELSE [Enqueue(s, "update_done", s.req) EXCEPT !.req = 0]

\* With nothing waiting to be written: the next binding of the snapshot the
\* partner asked for, or UPDDONE once it has acknowledged all of them.
SynchronizationStep(s) ==
  CASE s.out # <<>> \/ s.req = 0 \/ s.bind # 0 -> s
    [] s.out = <<>> /\ s.req # 0 /\ s.bind = 0 /\ s.todo = {} ->
         [Enqueue(s, "update_done", s.req) EXCEPT !.req = 0]
    [] OTHER ->
         [AllocateXid(s) EXCEPT
            !.bind = s.next,
            !.out = <<[type |-> "binding_update", xid |-> s.next,
                       state |-> None,
                       lease |-> CHOOSE l \in s.todo : TRUE]>>]

-----------------------------------------------------------------------------
InitialNode(r) ==
  [role |-> r, phase |-> "disconnected", pending |-> <<>>, sync |-> 0,
   interval |-> version = 6, sendIn |-> SendInterval, state |-> "startup",
   partner |-> None, comm |-> FALSE, complete |-> FALSE,
   stateIn |-> IF version = 4 THEN StartupPeriod ELSE Never,
   contactIn |-> Never, next |-> 1, out |-> <<>>, req |-> 0, todo |-> {},
   bind |-> 0, leases |-> InitialLeases[r], got |-> {},
   escaped |-> FALSE]

Init ==
  /\ version \in Versions
  /\ node = [r \in Role |-> InitialNode(r)]
  /\ sock = [r \in Role |-> "none"]
  /\ paired = FALSE
  /\ backlog = FALSE
  /\ chan = [r \in Role |-> <<>>]
  /\ reading = None
  /\ opens = 0

\* The primary opens a connection.  A secondary that still holds a socket of
\* the previous one refuses it, and the primary learns that when it writes.
Open ==
  /\ sock["primary"] = "none" /\ opens < MaxOpens
  /\ opens' = opens + 1
  /\ sock' = [sock EXCEPT !["primary"] = "open"]
  /\ paired' = (sock["secondary"] = "none")
  /\ backlog' = (sock["secondary"] = "none")
  /\ chan' = [r \in Role |-> IF sock["secondary"] = "none" THEN <<>>
                                                           ELSE chan[r]]
  /\ node' = [node EXCEPT !["primary"] = TransportConnected(OwnerReset(@))]
  /\ UNCHANGED <<version, reading>>

Accept ==
  /\ backlog
  /\ backlog' = FALSE
  /\ sock' = [sock EXCEPT !["secondary"] = "open"]
  /\ node' = [node EXCEPT !["secondary"] = TransportConnected(OwnerReset(@))]
  /\ UNCHANGED <<version, paired, chan, reading, opens>>

\* The owner gives the socket up.  TCP drops it without telling the peer.
CloseSocket(r, s) ==
  /\ node' = [node EXCEPT ![r] = TransportClosed(s)]
  /\ sock' = [sock EXCEPT ![r] = "none"]
  /\ paired' = FALSE
  /\ backlog' = FALSE
  /\ chan' = [chan EXCEPT ![r] = <<>>]

Closed(r) ==
  /\ sock[r] = "closed"
  /\ CloseSocket(r, node[r])
  /\ UNCHANGED <<version, reading, opens>>

Service(r) ==
  /\ sock[r] = "open"
  /\ node' = [node EXCEPT ![r] = SessionService(@)]
  /\ UNCHANGED <<version, sock, paired, backlog, chan, reading, opens>>

\* tcp_->write and what becomes of the segment: taken into the stream, refused
\* for lack of room, or answered with a reset because the peer's socket is gone.
WriteOut(r, s) ==
  \/ /\ s.out # <<>> /\ paired /\ Len(chan[Other(r)]) < StreamCapacity
     /\ chan' = [chan EXCEPT ![Other(r)] = @ \o s.out]
     /\ node' = [node EXCEPT ![r] = [s EXCEPT !.out = <<>>]]
     /\ UNCHANGED sock
  \/ /\ s.out = <<>> \/ (paired /\ Len(chan[Other(r)]) = StreamCapacity)
     /\ node' = [node EXCEPT ![r] = s]
     /\ UNCHANGED <<chan, sock>>
  \/ /\ s.out # <<>> /\ ~paired
     /\ node' = [node EXCEPT ![r] = s]
     /\ sock' = [sock EXCEPT ![r] = "closed"]
     /\ UNCHANGED chan

\* A message of the read loop, which begins unless a message still waits to be
\* written.  A failure ends the turn with the socket closed.
Read(r) ==
  /\ sock[r] = "open" /\ chan[r] # <<>>
  /\ reading = r \/ (reading = None /\ node[r].out = <<>>)
  /\ \E d \in {Dispatch(node[r], Head(chan[r]))} :
       \/ /\ d.ok
          /\ node' = [node EXCEPT ![r] = d.s]
          /\ chan' = [chan EXCEPT ![r] = Tail(@)]
          /\ reading' = r
          /\ UNCHANGED <<sock, paired, backlog>>
       \/ ~d.ok /\ CloseSocket(r, d.s) /\ reading' = None
  /\ UNCHANGED <<version, opens>>

\* The rest of the turn: synchronise, take the next pending message, write.
Transmit(r) ==
  /\ sock[r] = "open"
  /\ reading \in {r, None} /\ reading' = None
  /\ \E step \in {SynchronizationStep(node[r])} :
       \/ step.phase # node[r].phase /\ CloseSocket(r, step)
       \/ /\ step.phase = node[r].phase
          /\ WriteOut(r, PrepareNext(step))
          /\ UNCHANGED <<paired, backlog>>
  /\ UNCHANGED <<version, opens>>

\* TCP gives up on the path (retransmission limit, reset).
Lose(r) ==
  /\ sock[r] = "open" /\ paired
  /\ sock' = [sock EXCEPT ![r] = "closed"]
  /\ UNCHANGED <<version, node, paired, backlog, chan, reading, opens>>

RequestPartnerDown(r) ==
  /\ node[r].state \in {"normal", "communications_interrupted",
                        "resolution_interrupted"}
  /\ node' = [node EXCEPT ![r] = Transition(@, "partner_down", MCLT)]
  /\ UNCHANGED <<version, sock, paired, backlog, chan, reading, opens>>

Tick ==
  LET Run(t) == IF t > 0 THEN t - 1 ELSE t
  IN /\ node' = [r \in Role |->
                  [node[r] EXCEPT !.stateIn = Run(@), !.contactIn = Run(@),
                                  !.sendIn = Run(@)]]
     /\ UNCHANGED <<version, sock, paired, backlog, chan, reading, opens>>

Next ==
  \/ /\ reading = None
     /\ \/ Open \/ Accept \/ Tick
        \/ \E r \in Role : \/ Closed(r) \/ Service(r)
                            \/ Lose(r) \/ RequestPartnerDown(r)
  \/ \E r \in Role : Read(r) \/ Transmit(r)

Spec == Init /\ [][Next]_vars

-----------------------------------------------------------------------------
(* Properties *)

Timer(limit) == {Never} \union 0..limit
Message ==
  [type : {"connect", "connect_ack", "state", "contact", "update_request_all",
           "update_done", "binding_update", "binding_ack"},
   xid : 0..MaxXid, state : State \union {None}, lease : Role \union {None}]

\* Every field stays in its domain; queues respect their capacities.
TypeOK ==
  /\ version \in Versions
  /\ sock \in [Role -> {"none", "open", "closed"}]
  /\ paired \in BOOLEAN /\ backlog \in BOOLEAN
  /\ reading \in Role \union {None} /\ opens \in 0..MaxOpens
  /\ \A r \in Role :
       /\ \A i \in DOMAIN chan[r] : chan[r][i] \in Message
       /\ Len(chan[r]) <= StreamCapacity
       /\ node[r].phase \in Phase /\ node[r].state \in State
       /\ node[r].partner \in State \union {None}
       /\ node[r].comm \in BOOLEAN /\ node[r].complete \in BOOLEAN
       /\ node[r].contactIn \in Timer(ResponseDelay)
       /\ node[r].next \in 1..MaxXid
       /\ Len(node[r].pending) <= PendingCapacity
       /\ Len(node[r].out) <= 1

\* Communication counts as up only while the server holds a socket and has
\* accepted the negotiation of this very connection, whatever late message or
\* stale partner state is around; a closed or refused connection takes it down.
CommunicationNeedsNegotiation ==
  \A r \in Role :
    node[r].comm => /\ node[r].phase \in {"synchronizing", "established"}
                    /\ sock[r] # "none"

\* A server that answers clients has received every binding of its partner
\* since it was last (re)configured, unless it went through partner_down or
\* an interrupted conflict resolution, which the protocol lets answer early.
ServesOnlyAfterFullUpdate ==
  \A r \in Role :
    /\ Responsiveness(node[r]) # "unresponsive"
    /\ node[r].state # "resolution_interrupted"
    => node[r].escaped \/ InitialLeases[Other(r)] \subseteq node[r].got

\* An UPDDONE that reaches a negotiated session answers the request this
\* session has outstanding: neither a message left over from the previous
\* connection nor one prepared before a reconnect is taken for the answer.
UpdateDoneAnswersRequest ==
  \A r \in Role : \A i \in DOMAIN chan[r] :
    /\ chan[r][i].type = "update_done"
    /\ node[r].phase \in {"synchronizing", "established"}
    => chan[r][i].xid = node[r].sync

\* The pending queue never refuses an entry, also when what was left of the
\* previous connection is still waiting in front of the new one's messages.
PendingNeverFull == \A r \in Role : Len(node[r].pending) < PendingCapacity
=============================================================================
