------------------------ MODULE DhcpFailoverProofs ------------------------
(***************************************************************************)
(* What DhcpFailover promises, proved for every value of its constants.    *)
(*                                                                         *)
(* The inductive invariant follows one request for an update through the   *)
(* two servers: it is pending or written at the server that asks, on its   *)
(* way, owed or answered at the partner, or answered and on its way back,  *)
(* and never in two of these places.  Its counterpart for the data says    *)
(* that what the partner no longer has to send was received.  The rest     *)
(* separates connections: what was prepared for the last one and goes over *)
(* the next is read before the negotiation, and ends it.                   *)
(*                                                                         *)
(* The invariant is stated over two sessions and two streams rather than   *)
(* over the variables, so that the parts of a turn can be taken one after  *)
(* the other.                                                              *)
(***************************************************************************)
EXTENDS DhcpFailover, TLAPS

(***************************************************************************)
(* Sets of sessions and messages.                                          *)
(***************************************************************************)
Types == {"connect", "connect_ack", "state", "contact", "update_request_all",
          "update_done", "binding_update", "binding_ack"}
Entry == [type : Types, xid : 0..MaxXid]
Leases == Role \union {None}

Session ==
  [role : Role, phase : Phase, pending : Seq(Entry), sync : 0..MaxXid,
   interval : BOOLEAN, sendIn : Int, state : State,
   partner : State \union {None}, comm : BOOLEAN, complete : BOOLEAN,
   stateIn : Int, contactIn : Timer(ResponseDelay), next : 1..MaxXid,
   out : Seq(Message), req : 0..MaxXid, todo : SUBSET Leases, bind : 0..MaxXid,
   leases : SUBSET Leases, got : SUBSET Leases, escaped : BOOLEAN]

Talking == {"synchronizing", "established"}

(***************************************************************************)
(* Queues: whether a type occurs, whether only some do, whether it occurs  *)
(* at most once and with the identifier x.                                 *)
(***************************************************************************)
Has(q, type) == \E i \in DOMAIN q : q[i].type = type
Only(q, types) == \A i \in DOMAIN q : q[i].type \in types
Single(q, type) ==
  \A i, j \in DOMAIN q : q[i].type = type /\ q[j].type = type => i = j
Carries(q, type, x) == \A i \in DOMAIN q : q[i].type = type => q[i].xid = x
Once(q, type, x) == Single(q, type) /\ Carries(q, type, x)

(***************************************************************************)
(* A request for an update: at the server that makes it, and at the server *)
(* that answers it.                                                        *)
(***************************************************************************)
Asking(s) == Has(s.pending, "update_request_all") \/ Has(s.out, "update_request_all")
AskingOnce(s, x) ==
  /\ Once(s.pending, "update_request_all", x)
  /\ Once(s.out, "update_request_all", x)
  /\ ~(Has(s.pending, "update_request_all") /\ Has(s.out, "update_request_all"))

Finished(s) == Has(s.pending, "update_done") \/ Has(s.out, "update_done")
Answering(s) == s.req # 0 \/ Finished(s)
AnsweringOnce(s, x) ==
  /\ s.req \in {0, x}
  /\ Once(s.pending, "update_done", x)
  /\ Once(s.out, "update_done", x)
  /\ s.req # 0 => ~Finished(s)
  /\ ~(Has(s.pending, "update_done") /\ Has(s.out, "update_done"))

\* The request of s is in one place: at s, on its way to the partner p, at p,
\* or, answered, on its way back.
OneRequest(s, p, there, back) ==
  LET x == s.sync IN
  /\ AskingOnce(s, x) /\ AnsweringOnce(p, x)
  /\ Once(there, "update_request_all", x) /\ Once(back, "update_done", x)
  /\ Asking(s) =>
       /\ x # 0 /\ ~Has(there, "update_request_all")
       /\ ~Answering(p) /\ ~Has(back, "update_done")
  /\ Has(there, "update_request_all") =>
       x # 0 /\ ~Answering(p) /\ ~Has(back, "update_done")
  /\ Answering(p) => x # 0 /\ ~Has(back, "update_done")
  /\ Has(back, "update_done") => x # 0

\* The bindings acknowledged in a queue are among those received.
Acked(q, got) ==
  \A i \in DOMAIN q : q[i].type = "binding_ack" => q[i].lease \in got

\* What s acknowledged it has; what p still has to send it, or all of it.
Transferred(s, p, there, back, all) ==
  /\ Acked(there, s.got) /\ Acked(s.out, s.got)
  /\ p.req # 0 => all \subseteq s.got \union p.todo
  /\ Finished(p) \/ Has(back, "update_done") => all \subseteq s.got

\* What s has asked for: the part that does not depend on the partner holds
\* also after the connection is gone.
Request(s, p, there, back, joined, all) ==
  s.phase \in Talking =>
    /\ AskingOnce(s, s.sync)
    /\ Asking(s) => s.sync # 0 /\ ~Has(back, "update_done")
    /\ Once(back, "update_done", s.sync)
    /\ Has(back, "update_done") => s.sync # 0 /\ all \subseteq s.got
    /\ joined => /\ OneRequest(s, p, there, back)
                 /\ Transferred(s, p, there, back, all)

\* The queue of s: one message of each type at most, so that it has room.
Owing(s) == s.req # 0 \/ Has(s.pending, "update_done")
PendingTypes(r) ==
  {IF r = "primary" THEN "connect" ELSE "connect_ack", "contact", "state",
   "update_request_all", "update_done"}
QueueOk(r, q) == Only(q, PendingTypes(r)) /\ \A type \in Types : Single(q, type)
Queue(s, p, back, joined, waiting) ==
  /\ QueueOk(s.role, s.pending)
  /\ s.req # 0 => ~Has(s.pending, "update_done")
  /\ s.phase \notin Talking => ~Has(s.pending, "update_request_all")
  /\ s.phase \in Talking \union {"awaiting_connect_ack"} =>
       /\ Single(back, "update_request_all")
       /\ Owing(s) => ~Has(back, "update_request_all")
       /\ joined /\ ~waiting /\ Asking(p) =>
            ~Owing(s) /\ ~Has(back, "update_request_all")

\* The beginning of a connection.  m is the primary, p the secondary, mq and
\* pq what TCP will deliver to them.  A message that the primary had prepared
\* for the old connection goes first over the new one; either nothing of that
\* kind is left (Gone), or the secondary has not negotiated and never will.
Opening == {"connect", "contact"}
Gone(m, pq) == Only(pq, Opening) /\ Only(m.out, Opening)
Stale(p, mq, pq, waiting) ==
  /\ p.phase \notin Talking
  /\ ~Has(mq, "connect_ack")
  /\ ~waiting => ~Has(p.pending, "connect_ack") /\ ~Has(p.out, "connect_ack")
  /\ pq # <<>> => Head(pq).type # "connect"
Waiting(p, waiting) == p.phase = "awaiting_connect" \/ waiting
Early(m, p, waiting) == m.phase = "awaiting_connect_ack" \/ Waiting(p, waiting)

Begin(m, p, mq, pq, joined, waiting) ==
  /\ m.phase = "awaiting_connect_ack" =>
       ~Has(mq, "update_done") /\ m.req = 0 /\ Only(m.pending, Opening)
  /\ p.phase = "awaiting_connect" =>
       Only(p.pending, {"contact"}) /\ Only(p.out, {"contact"}) /\ p.req = 0
  /\ Waiting(p, waiting) => Only(pq, Opening) \/ Head(pq).type # "connect"
  /\ joined /\ Early(m, p, waiting) =>
       /\ m.phase \notin Talking
       /\ m.req = 0 /\ Only(m.pending, Opening)
       /\ Gone(m, pq) \/ Stale(p, mq, pq, waiting)
       /\ Waiting(p, waiting) => Only(mq, {"contact"})
       /\ ~waiting => ~Answering(p)

\* A server that answers clients, or is about to, is up to date.
Served == {"recover_wait", "recover_done", "normal", "communications_interrupted",
           "conflict_done"}
Updated(s, all) ==
  /\ s.state = "partner_down" => s.escaped
  /\ s.complete \/ s.state \in Served => s.escaped \/ all \subseteq s.got

\* What holds of one server by itself, of the two, and of the whole system.
Alone(s, r, all) ==
  /\ s \in Session /\ s.role = r /\ Len(s.out) <= 1
  /\ s.comm => s.phase \in Talking
  /\ s.phase # (IF r = "primary" THEN "awaiting_connect" ELSE "awaiting_connect_ack")
  /\ InitialLeases[r] \subseteq s.leases
  /\ Updated(s, all)

Core(m, p, mq, pq, joined, waiting) ==
  /\ Alone(m, "primary", InitialLeases["secondary"])
  /\ Alone(p, "secondary", InitialLeases["primary"])
  /\ mq \in Seq(Message) /\ pq \in Seq(Message)
  /\ joined \in BOOLEAN /\ waiting \in BOOLEAN
  /\ waiting => p.phase = "disconnected" /\ mq = <<>>
  /\ Request(m, p, pq, mq, joined, InitialLeases["secondary"])
  /\ Request(p, m, mq, pq, joined, InitialLeases["primary"])
  /\ Queue(m, p, mq, joined, waiting) /\ Queue(p, m, pq, joined, waiting)
  /\ Begin(m, p, mq, pq, joined, waiting)

\* The sockets, and how they bound what the sessions can be.
SocketInv ==
  /\ version \in Versions /\ opens \in 0..MaxOpens
  /\ node = [r \in Role |-> node[r]] /\ chan = [r \in Role |-> chan[r]]
  /\ sock \in [Role -> {"none", "open", "closed"}]
  /\ \A r \in Role : Len(chan[r]) <= StreamCapacity
  /\ reading \in Role \union {None}
  /\ \A r \in Role : sock[r] = "none" => node[r].phase = "disconnected"
  /\ backlog => paired /\ sock["secondary"] = "none"
  /\ paired => sock["primary"] # "none" /\ (sock["secondary"] # "none" \/ backlog)
  /\ sock["primary"] = "none" => chan["primary"] = <<>>
  /\ \A r \in Role : reading = r => Only(node[r].out, {"binding_ack"}) /\ sock[r] = "open"

CoreInv ==
  Core(node["primary"], node["secondary"], chan["primary"], chan["secondary"],
       paired, backlog)

Inv == SocketInv /\ CoreInv

----------------------------------------------------------------------------
(***************************************************************************)
(* Sequences.                                                              *)
(***************************************************************************)

\* A sequence with an element appended.
LEMMA Pushed ==
  ASSUME NEW S, NEW q \in Seq(S), NEW e \in S
  PROVE  /\ Append(q, e) \in Seq(S) /\ q \o <<e>> = Append(q, e)
         /\ Len(Append(q, e)) = Len(q) + 1
         /\ DOMAIN q = 1..Len(q) /\ DOMAIN Append(q, e) = 1..(Len(q) + 1)
         /\ Len(q) \in Nat
         /\ \A i \in 1..Len(q) : Append(q, e)[i] = q[i]
         /\ Append(q, e)[Len(q) + 1] = e
  OBVIOUS

\* A sequence without its first element.
LEMMA Popped ==
  ASSUME NEW S, NEW q \in Seq(S), q # <<>>
  PROVE  /\ Head(q) \in S /\ Tail(q) \in Seq(S)
         /\ Len(q) \in Nat \ {0} /\ Len(Tail(q)) = Len(q) - 1
         /\ DOMAIN q = 1..Len(q) /\ DOMAIN Tail(q) = 1..(Len(q) - 1)
         /\ q[1] = Head(q)
         /\ \A i \in 1..(Len(q) - 1) : Tail(q)[i] = q[i + 1]
  OBVIOUS

\* What a queue holds after an element was appended.
LEMMA PushedHas ==
  ASSUME NEW S, NEW q \in Seq(S), NEW e \in S, NEW type, NEW types, NEW x
  PROVE  /\ Has(Append(q, e), type) <=> Has(q, type) \/ e.type = type
         /\ Only(Append(q, e), types) <=> Only(q, types) /\ e.type \in types
         /\ Single(q, type) /\ ~(Has(q, type) /\ e.type = type) =>
              Single(Append(q, e), type)
         /\ Once(q, type, x) /\ ~(Has(q, type) /\ e.type = type)
              /\ (e.type = type => e.xid = x) => Once(Append(q, e), type, x)
  <1> DEFINE a == Append(q, e)
             n == Len(q)
  <1>1. /\ DOMAIN q = 1..n /\ DOMAIN a = 1..(n + 1) /\ n \in Nat
        /\ \A i \in 1..n : a[i] = q[i]
        /\ a[n + 1] = e
    BY Pushed
  <1> HIDE DEF a, n
  <1>2. Has(a, type) <=> Has(q, type) \/ e.type = type
    BY <1>1 DEF Has
  <1>3. Only(a, types) <=> Only(q, types) /\ e.type \in types
    BY <1>1 DEF Only
  <1>4. Single(q, type) /\ ~(Has(q, type) /\ e.type = type) => Single(a, type)
    BY <1>1 DEF Single, Has
  <1>5. Carries(q, type, x) /\ (e.type = type => e.xid = x) => Carries(a, type, x)
    BY <1>1 DEF Carries
  <1> QED BY <1>2, <1>3, <1>4, <1>5 DEF a, Once

\* What a queue holds after its first element was taken.
LEMMA PoppedHas ==
  ASSUME NEW S, NEW q \in Seq(S), q # <<>>, NEW type, NEW types, NEW x
  PROVE  /\ Has(Tail(q), type) => Has(q, type)
         /\ Head(q).type = type => Has(q, type)
         /\ Has(q, type) => Has(Tail(q), type) \/ Head(q).type = type
         /\ Only(q, types) => Only(Tail(q), types) /\ Head(q).type \in types
         /\ Single(q, type) => /\ Single(Tail(q), type)
                               /\ Head(q).type = type => ~Has(Tail(q), type)
         /\ Once(q, type, x) => /\ Once(Tail(q), type, x)
                                /\ Head(q).type = type => Head(q).xid = x
  <1> DEFINE t == Tail(q)
             h == Head(q)
             n == Len(q)
  <1>1. /\ DOMAIN q = 1..n /\ DOMAIN t = 1..(n - 1) /\ n \in Nat \ {0}
        /\ \A i \in 1..(n - 1) : t[i] = q[i + 1]
        /\ q[1] = h
    BY Popped
  <1>a. \A i \in 1..(n - 1) : i + 1 \in 1..n
    BY <1>1
  <1>b. \A i \in 1..n : i = 1 \/ (i - 1 \in 1..(n - 1) /\ t[i - 1] = q[i])
    BY <1>1
  <1> HIDE DEF t, h, n
  <1>2. (Has(t, type) => Has(q, type)) /\ (h.type = type => Has(q, type))
    BY <1>1, <1>a DEF Has
  <1>3. Has(q, type) => Has(t, type) \/ h.type = type
    BY <1>1, <1>b DEF Has
  <1>4. Only(q, types) => Only(t, types) /\ h.type \in types
    BY <1>1, <1>a DEF Only
  <1>5. Single(q, type) => Single(t, type) /\ (h.type = type => ~Has(t, type))
    <2> SUFFICES ASSUME \A i, j \in 1..n : q[i].type = type /\ q[j].type = type => i = j
                 PROVE  /\ \A i, j \in 1..(n - 1) :
                             t[i].type = type /\ t[j].type = type => i = j
                        /\ h.type = type => ~ \E i \in 1..(n - 1) : t[i].type = type
      BY <1>1 DEF Single, Has
    <2>1. ASSUME NEW i \in 1..(n - 1), NEW j \in 1..(n - 1),
                 t[i].type = type, t[j].type = type
          PROVE  i = j
      <3>1. i + 1 = j + 1
        BY <2>1, <1>1, <1>a
      <3> QED BY <3>1
    <2>2. ASSUME h.type = type, NEW i \in 1..(n - 1), t[i].type = type
          PROVE  FALSE
      <3>1. i + 1 = 1
        BY <2>2, <1>1, <1>a
      <3> QED BY <3>1
    <2> QED BY <2>1, <2>2
  <1>6. Carries(q, type, x) => Carries(t, type, x) /\ (h.type = type => h.xid = x)
    BY <1>1, <1>a DEF Carries
  <1> QED BY <1>2, <1>3, <1>4, <1>5, <1>6 DEF t, h, Once

\* The same facts one by one.
LEMMA HasPushed ==
  ASSUME NEW S, NEW q \in Seq(S), NEW e \in S, NEW type
  PROVE  Has(Append(q, e), type) <=> Has(q, type) \/ e.type = type
  BY PushedHas

\* A queue of some types stays one when such a message is appended.
LEMMA OnlyPushed ==
  ASSUME NEW S, NEW q \in Seq(S), NEW e \in S, NEW types
  PROVE  Only(Append(q, e), types) <=> Only(q, types) /\ e.type \in types
  BY PushedHas

\* A type occurs at most once after a message of another type, or the first one.
LEMMA SinglePushed ==
  ASSUME NEW S, NEW q \in Seq(S), NEW e \in S, NEW type,
         Single(q, type), ~(Has(q, type) /\ e.type = type)
  PROVE  Single(Append(q, e), type)
  BY PushedHas

\* So it does with the identifier it carries.
LEMMA OncePushed ==
  ASSUME NEW S, NEW q \in Seq(S), NEW e \in S, NEW type, NEW x,
         Once(q, type, x), ~(Has(q, type) /\ e.type = type),
         e.type = type => e.xid = x
  PROVE  Once(Append(q, e), type, x)
  BY PushedHas

\* What a queue holds when its first message is taken.
LEMMA HasPopped ==
  ASSUME NEW S, NEW q \in Seq(S), q # <<>>, NEW type
  PROVE  /\ Has(Tail(q), type) => Has(q, type)
         /\ Head(q).type = type => Has(q, type)
         /\ Has(q, type) => Has(Tail(q), type) \/ Head(q).type = type
         /\ Single(q, type) => /\ Single(Tail(q), type)
                               /\ Head(q).type = type => ~Has(Tail(q), type)
  BY PoppedHas

\* A queue of some types stays one when its first message is taken.
LEMMA OnlyPopped ==
  ASSUME NEW S, NEW q \in Seq(S), q # <<>>, NEW types, Only(q, types)
  PROVE  Only(Tail(q), types) /\ Head(q).type \in types
  BY PoppedHas

\* A message that occurs once is gone when it was the first.
LEMMA OncePopped ==
  ASSUME NEW S, NEW q \in Seq(S), q # <<>>, NEW type, NEW x, Once(q, type, x)
  PROVE  /\ Once(Tail(q), type, x)
         /\ Head(q).type = type => Head(q).xid = x /\ ~Has(Tail(q), type)
  BY PoppedHas DEF Once

\* Only some types means not the others.
LEMMA OnlyExcludes ==
  ASSUME NEW q, NEW types, Only(q, types), NEW type, type \notin types
  PROVE  ~Has(q, type) /\ Single(q, type)
  BY DEF Only, Has, Single

\* What does not occur occurs at most once.
LEMMA AbsentOnce ==
  ASSUME NEW q, NEW type, NEW x, ~Has(q, type)
  PROVE  Once(q, type, x) /\ Single(q, type)
  BY DEF Has, Single, Once, Carries

\* The roles, and the phases of a session that was negotiated.
LEMMA Roles ==
  /\ Other("primary") = "secondary" /\ Other("secondary") = "primary"
  /\ \A r \in Role : Other(r) \in Role /\ Other(r) # r /\ Other(Other(r)) = r
  <1>1. Other("primary") = "secondary" /\ Other("secondary") = "primary"
    BY DEF Other, Role
  <1> QED BY <1>1 DEF Role

\* The constants, one by one.
LEMMA Constants ==
  /\ MCLT \in Nat /\ StartupPeriod \in Nat /\ ResponseDelay \in Nat
  /\ SafePeriod \in Nat /\ SendInterval \in Nat /\ StreamCapacity \in Nat \ {0}
  /\ MaxXid \in Nat \ {0} /\ MaxOpens \in Nat
  /\ PendingCapacity \in Nat /\ PendingCapacity > 5
  BY FailoverConstants

----------------------------------------------------------------------------
(***************************************************************************)
(* The endpoint and the session.                                           *)
(***************************************************************************)

\* t is s but for what only the endpoint reads, and is as well updated.
Alike(s, t) ==
  /\ t \in Session
  /\ t.role = s.role /\ t.phase = s.phase /\ t.pending = s.pending
  /\ t.sync = s.sync /\ t.out = s.out /\ t.req = s.req /\ t.todo = s.todo
  /\ t.leases = s.leases /\ t.got = s.got
  /\ \A all \in SUBSET Role : Updated(s, all) => Updated(t, all)

\* A transition of the endpoint changes the state and the time in it.
LEMMA TransitionFields ==
  ASSUME NEW e \in Session, NEW st \in State, NEW d \in Int
  PROVE  LET t == Transition(e, st, d) IN
         /\ t \in Session /\ t.state = st /\ t.complete = e.complete
         /\ t.escaped = (e.escaped \/ st = "partner_down")
         /\ t.role = e.role /\ t.phase = e.phase /\ t.pending = e.pending
         /\ t.sync = e.sync /\ t.out = e.out /\ t.req = e.req /\ t.todo = e.todo
         /\ t.leases = e.leases /\ t.got = e.got /\ t.comm = e.comm
  BY DEF Transition, Session

\* What an evaluation of the endpoint may do: it serves only when it did, or
\* when the update is complete, and forgets a complete update elsewhere.
Evaluated(e, t) ==
  \/ t = e
  \/ \E st \in State, d \in Int :
       /\ t = Transition(e, st, d)
       /\ st \in Served => e.complete \/ e.state \in Served \union {"partner_down"}
  \/ \E st \in {"recover", "potential_conflict"}, d \in Int :
       t = Transition([e EXCEPT !.complete = FALSE], st, d)

\* evaluate() of the DHCPv4 endpoint, state by state.
LEMMA EvaluateV4Result ==
  ASSUME NEW e \in Session
  PROVE  Evaluated(e, EvaluateV4(e))
  <1>1. e.complete \in BOOLEAN /\ e.comm \in BOOLEAN
    BY DEF Session
  <1>2. {MCLT, SafePeriod, Never} \subseteq Int
    BY Constants DEF Never
  <1>3. CASE e.state = "startup"
    BY <1>1, <1>2, <1>3 DEF EvaluateV4, EnterConflict, Evaluated, State, Served
  <1>4. CASE e.state = "normal"
    BY <1>1, <1>2, <1>4 DEF EvaluateV4, EnterConflict, Evaluated, State, Served
  <1>5. CASE e.state = "communications_interrupted"
    BY <1>1, <1>2, <1>5 DEF EvaluateV4, EnterConflict, Evaluated, State, Served
  <1>6. CASE e.state = "partner_down"
    BY <1>1, <1>2, <1>6 DEF EvaluateV4, EnterConflict, Evaluated, State, Served
  <1>7. CASE e.state = "potential_conflict"
    BY <1>1, <1>2, <1>7 DEF EvaluateV4, EnterConflict, Evaluated, State, Served
  <1>8. CASE e.state = "recover"
    BY <1>1, <1>2, <1>8 DEF EvaluateV4, EnterConflict, Evaluated, State, Served
  <1>9. CASE e.state = "recover_wait"
    BY <1>1, <1>2, <1>9 DEF EvaluateV4, EnterConflict, Evaluated, State, Served
  <1>10. CASE e.state = "recover_done"
    BY <1>1, <1>2, <1>10 DEF EvaluateV4, EnterConflict, Evaluated, State, Served
  <1>11. CASE e.state = "resolution_interrupted"
    BY <1>1, <1>2, <1>11 DEF EvaluateV4, EnterConflict, Evaluated, State, Served
  <1>12. CASE e.state = "conflict_done"
    BY <1>1, <1>2, <1>12 DEF EvaluateV4, EnterConflict, Evaluated, State, Served
  <1> QED BY <1>3, <1>4, <1>5, <1>6, <1>7, <1>8, <1>9, <1>10, <1>11, <1>12 DEF Session, State

\* evaluate() of the DHCPv6 endpoint, which has one rule more.
LEMMA EvaluateV6Result ==
  ASSUME NEW e \in Session
  PROVE  Evaluated(e, EvaluateV6(e))
  BY EvaluateV4Result, SMTT(60) DEF EvaluateV6, Evaluated, State, Served, Never

\* Evaluating the endpoint changes nothing that the session reads.
LEMMA EvaluateAlike ==
  ASSUME NEW e \in Session
  PROVE  Alike(e, Evaluate(e)) /\ Evaluate(e).comm = e.comm
  <1> DEFINE t == Evaluate(e)
  <1>1. Evaluated(e, t)
    BY EvaluateV4Result, EvaluateV6Result DEF Evaluate
  <1> HIDE DEF t
  <1>2. CASE t = e
    BY <1>2 DEF Alike, t
  <1>3. ASSUME NEW st \in State, NEW d \in Int, t = Transition(e, st, d),
               st \in Served => e.complete \/ e.state \in Served \union {"partner_down"}
        PROVE  Alike(e, t) /\ t.comm = e.comm
    <2>1. /\ t \in Session /\ t.state = st /\ t.complete = e.complete
          /\ t.escaped = (e.escaped \/ st = "partner_down")
          /\ t.role = e.role /\ t.phase = e.phase /\ t.pending = e.pending
          /\ t.sync = e.sync /\ t.out = e.out /\ t.req = e.req /\ t.todo = e.todo
          /\ t.leases = e.leases /\ t.got = e.got /\ t.comm = e.comm
      BY <1>3, TransitionFields
    <2>2. ASSUME NEW all \in SUBSET Role, Updated(e, all)
          PROVE  Updated(t, all)
      BY <2>1, <2>2, <1>3 DEF Updated, Served
    <2> QED BY <2>1, <2>2 DEF Alike
  <1>4. ASSUME NEW st \in {"recover", "potential_conflict"}, NEW d \in Int,
               t = Transition([e EXCEPT !.complete = FALSE], st, d)
        PROVE  Alike(e, t) /\ t.comm = e.comm
    <2> DEFINE f == [e EXCEPT !.complete = FALSE]
    <2>0. /\ f \in Session /\ f.complete = FALSE /\ f.escaped = e.escaped
          /\ f.role = e.role /\ f.phase = e.phase /\ f.pending = e.pending
          /\ f.sync = e.sync /\ f.out = e.out /\ f.req = e.req /\ f.todo = e.todo
          /\ f.leases = e.leases /\ f.got = e.got /\ f.comm = e.comm
      BY DEF Session
    <2>a. t = Transition(f, st, d) /\ st \in State
      BY <1>4 DEF State
    <2> HIDE DEF f
    <2>1. /\ t \in Session /\ t.state = st /\ t.complete = f.complete
          /\ t.escaped = (f.escaped \/ st = "partner_down")
          /\ t.role = f.role /\ t.phase = f.phase /\ t.pending = f.pending
          /\ t.sync = f.sync /\ t.out = f.out /\ t.req = f.req /\ t.todo = f.todo
          /\ t.leases = f.leases /\ t.got = f.got /\ t.comm = f.comm
      BY <2>0, <2>a, TransitionFields
    <2>2. ASSUME NEW all \in SUBSET Role, Updated(e, all)
          PROVE  Updated(t, all)
      BY <2>0, <2>1, <2>2, <1>4 DEF Updated, Served
    <2> QED BY <2>0, <2>1, <2>2 DEF Alike
  <1> QED BY <1>1, <1>2, <1>3, <1>4 DEF Evaluated, t

\* Sessions that are alike to alike ones.
LEMMA AlikeChain ==
  ASSUME NEW s, NEW t, NEW u, Alike(s, t), Alike(t, u)
  PROVE  Alike(s, u)
  BY DEF Alike

\* Communication comes up or goes down.
LEMMA CommunicationAlike ==
  ASSUME NEW e \in Session, NEW b \in BOOLEAN
  PROVE  Alike(e, CommunicationChanged(e, b)) /\ CommunicationChanged(e, b).comm = b
  <1>1. CASE b = e.comm
    BY <1>1 DEF CommunicationChanged, Alike
  <1>2. CASE b # e.comm
    <2> DEFINE c == IF b THEN ResponseDelay ELSE Never
               f == [e EXCEPT !.comm = b, !.contactIn = c]
    <2>0. c \in Timer(ResponseDelay)
      BY Constants DEF Timer
    <2> HIDE DEF c
    <2>1. f \in Session /\ f.comm = b
      BY <2>0 DEF Session
    <2>2. Alike(e, f)
      BY <2>1 DEF Alike, Session, Updated
    <2>3. CommunicationChanged(e, b) = Evaluate(f)
      BY <1>2 DEF CommunicationChanged, c
    <2> HIDE DEF f
    <2>4. Alike(f, Evaluate(f)) /\ Evaluate(f).comm = f.comm
      BY <2>1, EvaluateAlike
    <2> QED BY <2>1, <2>2, <2>3, <2>4, AlikeChain
  <1> QED BY <1>1, <1>2

\* The partner announces its state.
LEMMA PartnerAlike ==
  ASSUME NEW e \in Session, NEW st \in State \union {None}
  PROVE  Alike(e, PartnerStateChanged(e, st)) /\ PartnerStateChanged(e, st).comm = e.comm
  <1> DEFINE f == [e EXCEPT !.partner = st]
  <1>1. f \in Session /\ f.comm = e.comm
    BY DEF Session
  <1>2. Alike(e, f)
    BY <1>1 DEF Alike, Session, Updated
  <1>3. PartnerStateChanged(e, st) = Evaluate(f)
    BY DEF PartnerStateChanged
  <1> HIDE DEF f
  <1>4. Alike(f, Evaluate(f)) /\ Evaluate(f).comm = f.comm
    BY <1>1, EvaluateAlike
  <1> QED BY <1>1, <1>2, <1>3, <1>4, AlikeChain

\* The endpoint notices that the partner is silent.
LEMMA EndpointAlike ==
  ASSUME NEW e \in Session
  PROVE  Alike(e, EndpointService(e)) /\ (EndpointService(e).comm => e.comm)
  <1> DEFINE f == IF e.comm /\ e.contactIn = 0
                    THEN [e EXCEPT !.comm = FALSE, !.contactIn = Never] ELSE e
  <1>1. f \in Session /\ (f.comm => e.comm)
    BY DEF Session, Timer
  <1>2. Alike(e, f)
    BY <1>1 DEF Alike, Session, Updated
  <1>3. EndpointService(e) = Evaluate(f)
    BY DEF EndpointService
  <1> HIDE DEF f
  <1>4. Alike(f, Evaluate(f)) /\ Evaluate(f).comm = f.comm
    BY <1>1, EvaluateAlike
  <1> QED BY <1>1, <1>2, <1>3, <1>4, AlikeChain

\* t is s in all that outlives the connection.
Lasting(s, t) ==
  /\ t \in Session /\ t.role = s.role
  /\ t.out = s.out /\ t.req = s.req /\ t.todo = s.todo
  /\ t.leases = s.leases /\ t.got = s.got
  /\ \A all \in SUBSET Role : Updated(s, all) => Updated(t, all)

\* A session that failed or whose transport was closed.
LEMMA DisconnectFields ==
  ASSUME NEW s \in Session
  PROVE  LET t == Disconnect(s) IN
         /\ Lasting(s, t) /\ t.sync = s.sync
         /\ t.phase = "disconnected" /\ t.pending = <<>> /\ ~t.comm
  <1> DEFINE f == CommunicationChanged(s, FALSE)
             t == [f EXCEPT !.pending = <<>>, !.phase = "disconnected"]
  <1>1. Alike(s, f) /\ f.comm = FALSE
    BY CommunicationAlike
  <1>2. f \in Session
    BY <1>1 DEF Alike
  <1> HIDE DEF f
  <1>3. /\ t \in Session /\ t.role = f.role /\ t.out = f.out /\ t.req = f.req
        /\ t.todo = f.todo /\ t.leases = f.leases /\ t.got = f.got
        /\ t.sync = f.sync /\ t.comm = f.comm
        /\ t.phase = "disconnected" /\ t.pending = <<>>
        /\ t.state = f.state /\ t.complete = f.complete /\ t.escaped = f.escaped
    <2>1. "disconnected" \in Phase /\ <<>> \in Seq(Entry)
      BY DEF Phase
    <2> QED BY <1>2, <2>1 DEF Session
  <1>4. t = Disconnect(s)
    BY DEF Disconnect, f
  <1> HIDE DEF t
  <1>5. \A all \in SUBSET Role : Updated(f, all) => Updated(t, all)
    BY <1>3 DEF Updated
  <1> QED BY <1>1, <1>3, <1>4, <1>5 DEF Lasting, Alike

\* A session whose transport was closed also forgets its request.
LEMMA TransportClosedFields ==
  ASSUME NEW s \in Session
  PROVE  LET t == TransportClosed(s) IN
         /\ Lasting(s, t) /\ t.sync = 0
         /\ t.phase = "disconnected" /\ t.pending = <<>> /\ ~t.comm
  <1> DEFINE f == Disconnect(s)
             t == [f EXCEPT !.sync = 0]
  <1>1. /\ Lasting(s, f)
        /\ f.phase = "disconnected" /\ f.pending = <<>> /\ ~f.comm
    BY DisconnectFields
  <1>2. f \in Session
    BY <1>1 DEF Lasting
  <1> HIDE DEF f
  <1>3. /\ t \in Session /\ t.role = f.role /\ t.out = f.out /\ t.req = f.req
        /\ t.todo = f.todo /\ t.leases = f.leases /\ t.got = f.got
        /\ t.sync = 0 /\ t.comm = f.comm /\ t.phase = f.phase /\ t.pending = f.pending
        /\ t.state = f.state /\ t.complete = f.complete /\ t.escaped = f.escaped
    <2>1. 0 \in 0..MaxXid
      BY Constants
    <2> QED BY <1>2, <2>1 DEF Session
  <1>4. t = TransportClosed(s)
    BY DEF TransportClosed, f
  <1> HIDE DEF t
  <1>5. \A all \in SUBSET Role : Updated(f, all) => Updated(t, all)
    BY <1>3 DEF Updated
  <1> QED BY <1>1, <1>3, <1>4, <1>5 DEF Lasting

\* A message is queued while there is room.
LEMMA EnqueueFields ==
  ASSUME NEW s \in Session, Len(s.pending) < PendingCapacity,
         NEW type \in Types, NEW x \in 0..MaxXid
  PROVE  LET t == Enqueue(s, type, x) IN
         /\ Lasting(s, t) /\ t.sync = s.sync /\ t.phase = s.phase /\ t.comm = s.comm
         /\ t.pending = Append(s.pending, [type |-> type, xid |-> x])
         /\ t.next = s.next
  <1> DEFINE e == [type |-> type, xid |-> x]
             q == Append(s.pending, e)
             t == [s EXCEPT !.pending = q]
  <1>1. e \in Entry
    BY DEF Entry
  <1>2. s.pending \in Seq(Entry) /\ Len(s.pending) # PendingCapacity
    BY Constants DEF Session
  <1>3. q \in Seq(Entry)
    BY <1>1, <1>2, Pushed
  <1>4. t = Enqueue(s, type, x)
    BY <1>2 DEF Enqueue
  <1> HIDE DEF e, q
  <1>5. /\ t \in Session /\ t.role = s.role /\ t.out = s.out /\ t.req = s.req
        /\ t.todo = s.todo /\ t.leases = s.leases /\ t.got = s.got
        /\ t.sync = s.sync /\ t.comm = s.comm /\ t.phase = s.phase /\ t.pending = q
        /\ t.state = s.state /\ t.complete = s.complete /\ t.escaped = s.escaped
        /\ t.next = s.next
    BY <1>3 DEF Session
  <1> HIDE DEF t
  <1>6. \A all \in SUBSET Role : Updated(s, all) => Updated(t, all)
    BY <1>5 DEF Updated
  <1> QED BY <1>4, <1>5, <1>6 DEF Lasting, q, e

\* At most one message of each of five types waits, and there is room for more.
LEMMA Room ==
  ASSUME NEW r \in Role, NEW q \in Seq(Entry), QueueOk(r, q)
  PROVE  Len(q) <= 5 /\ Len(q) < PendingCapacity
  <1>1. Len(q) \in Nat /\ DOMAIN q = 1..Len(q)
    OBVIOUS
  <1>2. PendingTypes(r) \subseteq Types
    BY DEF PendingTypes, Types
  <1>3. \A i \in DOMAIN q : q[i].type \in PendingTypes(r)
    BY DEF QueueOk, Only
  <1>4. \A i, j \in DOMAIN q : q[i].type = q[j].type => i = j
    BY <1>2, <1>3 DEF QueueOk, Single
  <1>5. ASSUME Len(q) > 5 PROVE FALSE
    <2>1. {1, 2, 3, 4, 5, 6} \subseteq DOMAIN q
      BY <1>1, <1>5
    <2> DEFINE f(i) == q[i].type
    <2>2. /\ {f(1), f(2), f(3), f(4), f(5), f(6)} \subseteq PendingTypes(r)
          /\ \A i, j \in {1, 2, 3, 4, 5, 6} : f(i) = f(j) => i = j
      BY <2>1, <1>3, <1>4
    <2> HIDE DEF f
    <2>3. f(1) # f(2) /\ f(1) # f(3) /\ f(1) # f(4) /\ f(1) # f(5) /\ f(1) # f(6)
      BY <2>2
    <2>4. f(2) # f(3) /\ f(2) # f(4) /\ f(2) # f(5) /\ f(2) # f(6)
      BY <2>2
    <2>5. /\ f(3) # f(4) /\ f(3) # f(5) /\ f(3) # f(6)
          /\ f(4) # f(5) /\ f(4) # f(6) /\ f(5) # f(6)
      BY <2>2
    <2> QED BY <2>2, <2>3, <2>4, <2>5 DEF PendingTypes
  <1> QED BY <1>1, <1>5, Constants

\* A type that a queue does not hold can be appended.
LEMMA QueuePushed ==
  ASSUME NEW r \in Role, NEW q \in Seq(Entry), QueueOk(r, q),
         NEW type \in PendingTypes(r), NEW x \in 0..MaxXid, ~Has(q, type)
  PROVE  LET e == [type |-> type, xid |-> x] IN
         /\ e \in Entry /\ Append(q, e) \in Seq(Entry)
         /\ QueueOk(r, Append(q, e))
  <1> DEFINE e == [type |-> type, xid |-> x]
  <1>1. type \in Types
    BY DEF PendingTypes, Types
  <1>2. e \in Entry /\ e.type = type
    BY <1>1 DEF Entry
  <1> HIDE DEF e
  <1>3. Append(q, e) \in Seq(Entry)
    BY <1>2, Pushed
  <1>4. Only(Append(q, e), PendingTypes(r))
    BY <1>2, PushedHas DEF QueueOk
  <1>5. ASSUME NEW other \in Types PROVE Single(Append(q, e), other)
    BY <1>2, PushedHas DEF QueueOk
  <1> QED BY <1>2, <1>3, <1>4, <1>5 DEF QueueOk, e

\* UPDREQALL is queued with an identifier that is not 0.
LEMMA RequestFields ==
  ASSUME NEW s \in Session, QueueOk(s.role, s.pending),
         ~Has(s.pending, "update_request_all")
  PROVE  LET t == RequestUpdate(s) IN
         /\ Lasting(s, t) /\ t.phase = s.phase /\ t.comm = s.comm
         /\ t.sync # 0 /\ QueueOk(t.role, t.pending)
         /\ t.pending = Append(s.pending, [type |-> "update_request_all",
                                           xid |-> t.sync])
  <1> DEFINE n == s.next
             f == [AllocateXid(s) EXCEPT !.sync = n]
             t == Enqueue(f, "update_request_all", n)
  <1>1. n \in 0..MaxXid /\ n # 0
    BY Constants DEF Session
  <1>2. /\ f \in Session /\ f.role = s.role /\ f.phase = s.phase /\ f.pending = s.pending
        /\ f.sync = n /\ f.out = s.out /\ f.req = s.req /\ f.todo = s.todo
        /\ f.leases = s.leases /\ f.got = s.got /\ f.comm = s.comm
        /\ f.state = s.state /\ f.complete = s.complete /\ f.escaped = s.escaped
    <2>1. (IF s.next = MaxXid THEN 1 ELSE s.next + 1) \in 1..MaxXid
      BY Constants DEF Session
    <2> QED BY <1>1, <2>1 DEF AllocateXid, Session
  <1>3. t = RequestUpdate(s)
    BY DEF RequestUpdate
  <1> HIDE DEF f, n
  <1>4. s.role \in Role /\ s.pending \in Seq(Entry)
    BY DEF Session
  <1>5. Len(f.pending) < PendingCapacity
    BY <1>2, <1>4, Room
  <1>6. "update_request_all" \in Types
    BY DEF Types
  <1>7. /\ Lasting(f, t) /\ t.sync = f.sync /\ t.phase = f.phase /\ t.comm = f.comm
        /\ t.pending = Append(f.pending, [type |-> "update_request_all", xid |-> n])
    BY <1>1, <1>2, <1>5, <1>6, EnqueueFields
  <1> HIDE DEF t
  <1>8. Lasting(s, t)
    BY <1>2, <1>7 DEF Lasting, Updated
  <1>9. QueueOk(s.role, t.pending)
    <2>1. "update_request_all" \in PendingTypes(s.role)
      BY DEF PendingTypes
    <2> QED BY <1>1, <1>2, <1>4, <1>7, <2>1, QueuePushed
  <1> QED BY <1>1, <1>2, <1>3, <1>7, <1>8, <1>9 DEF Lasting

\* The session after the negotiation: the endpoint starts anew, and a request
\* that is already queued carries the identifier the session remembers.
Begun(s, t) ==
  /\ t \in Session /\ t.role = s.role /\ t.phase = "synchronizing"
  /\ t.out = s.out /\ t.req = s.req /\ t.todo = s.todo /\ t.leases = s.leases
  /\ t.got = {} /\ \A all \in SUBSET Role : Updated(t, all)
  /\ QueueOk(t.role, t.pending) /\ ~Has(t.pending, "update_done")
  /\ Once(t.pending, "update_request_all", t.sync)
  /\ Has(t.pending, "update_request_all") => t.sync # 0

\* A session that waits for the first message of a connection.
Opened(s) ==
  /\ s \in Session /\ QueueOk(s.role, s.pending)
  /\ \/ s.phase = "awaiting_connect_ack" /\ s.role = "primary"
        /\ Only(s.pending, Opening)
     \/ s.phase = "awaiting_connect" /\ s.role = "secondary"
        /\ Only(s.pending, {"contact"})

\* configure() forgets what the partner said and leaves the session alone.
LEMMA ConfigureFields ==
  ASSUME NEW s \in Session
  PROVE  LET t == Configure(s) IN
         /\ t \in Session /\ t.role = s.role /\ t.phase = s.phase
         /\ t.pending = s.pending /\ t.sync = s.sync /\ t.out = s.out
         /\ t.req = s.req /\ t.todo = s.todo /\ t.leases = s.leases
         /\ t.got = {} /\ ~t.comm /\ \A all \in SUBSET Role : Updated(t, all)
  <1> DEFINE f == [s EXCEPT !.comm = FALSE, !.partner = None, !.complete = FALSE,
                            !.got = {}, !.escaped = FALSE]
             d == IF version = 4 THEN StartupPeriod ELSE Never
             t == Transition(f, "startup", d)
  <1>1. d \in Int /\ "startup" \in State /\ None \in State \union {None}
    BY Constants DEF Never, State
  <1>2. /\ f \in Session /\ f.role = s.role /\ f.phase = s.phase
        /\ f.pending = s.pending /\ f.sync = s.sync /\ f.out = s.out
        /\ f.req = s.req /\ f.todo = s.todo /\ f.leases = s.leases
        /\ f.got = {} /\ f.comm = FALSE /\ f.complete = FALSE /\ f.escaped = FALSE
    BY <1>1 DEF Session
  <1>3. t = Configure(s)
    BY DEF Configure
  <1> HIDE DEF f, d
  <1>4. /\ t \in Session /\ t.state = "startup" /\ t.complete = f.complete
        /\ t.escaped = (f.escaped \/ "startup" = "partner_down")
        /\ t.role = f.role /\ t.phase = f.phase /\ t.pending = f.pending
        /\ t.sync = f.sync /\ t.out = f.out /\ t.req = f.req /\ t.todo = f.todo
        /\ t.leases = f.leases /\ t.got = f.got /\ t.comm = f.comm
    BY <1>1, <1>2, TransitionFields
  <1> HIDE DEF t
  <1>5. \A all \in SUBSET Role : Updated(t, all)
    BY <1>2, <1>4 DEF Updated, Served
  <1> QED BY <1>2, <1>3, <1>4, <1>5

\* A session that waited for the first message has begun after it.
LEMMA NegotiatedBegun ==
  ASSUME NEW s, Opened(s)
  PROVE  LET t == Negotiated(s) IN
         /\ Begun(s, t) /\ ~t.comm /\ ~Has(t.pending, "update_request_all")
  <1> DEFINE e == Configure(s)
             a == IF s.phase = "awaiting_connect" THEN Enqueue(e, "connect_ack", 0) ELSE e
             b == Enqueue(a, "state", 0)
             t == [b EXCEPT !.phase = "synchronizing", !.interval = TRUE]
  <1>0. /\ s \in Session /\ s.role \in Role /\ 0 \in 0..MaxXid
        /\ {"connect_ack", "state"} \subseteq Types /\ s.phase # "disconnected"
        /\ Only(s.pending, Opening) /\ s.pending \in Seq(Entry)
        /\ "synchronizing" \in Phase
    BY Constants DEF Opened, Session, Types, Only, Opening, Phase
  <1>1. /\ e \in Session /\ e.role = s.role /\ e.phase = s.phase
        /\ e.pending = s.pending /\ e.sync = s.sync /\ e.out = s.out
        /\ e.req = s.req /\ e.todo = s.todo /\ e.leases = s.leases
        /\ e.got = {} /\ ~e.comm /\ \A all \in SUBSET Role : Updated(e, all)
    BY <1>0, ConfigureFields
  <1> HIDE DEF e
  <1>2. /\ QueueOk(s.role, e.pending) /\ Len(e.pending) < PendingCapacity
        /\ ~Has(e.pending, "connect_ack") /\ ~Has(e.pending, "state")
        /\ ~Has(e.pending, "update_request_all") /\ ~Has(e.pending, "update_done")
    <2>1. QueueOk(s.role, e.pending)
      BY <1>1 DEF Opened
    <2> QED BY <1>0, <1>1, <2>1, Room, OnlyExcludes DEF Opening
  <1>3. /\ Lasting(e, a) /\ a.phase = s.phase /\ ~a.comm
        /\ a.pending \in Seq(Entry) /\ QueueOk(s.role, a.pending)
        /\ ~Has(a.pending, "state") /\ ~Has(a.pending, "update_request_all")
        /\ ~Has(a.pending, "update_done")
    <2>1. CASE s.phase = "awaiting_connect"
      <3> DEFINE m == [type |-> "connect_ack", xid |-> 0]
      <3>1. /\ Lasting(e, a) /\ a.phase = e.phase /\ a.comm = e.comm
            /\ a.pending = Append(e.pending, m)
        BY <1>0, <1>1, <1>2, <2>1, EnqueueFields
      <3>2. "connect_ack" \in PendingTypes(s.role)
        BY <2>1, <1>0 DEF Opened, PendingTypes
      <3>3. m \in Entry /\ a.pending \in Seq(Entry) /\ QueueOk(s.role, a.pending)
        BY <1>0, <1>1, <1>2, <3>1, <3>2, QueuePushed
      <3>4. m.type = "connect_ack"
        OBVIOUS
      <3>5. ~a.comm
        BY <1>1, <3>1
      <3> HIDE DEF m, a
      <3>6. /\ ~Has(a.pending, "state") /\ ~Has(a.pending, "update_request_all")
            /\ ~Has(a.pending, "update_done")
        BY <1>0, <1>1, <1>2, <3>1, <3>3, <3>4, HasPushed
      <3> QED BY <1>1, <3>1, <3>3, <3>5, <3>6
    <2>2. CASE s.phase # "awaiting_connect"
      BY <1>0, <1>1, <1>2, <2>2 DEF Lasting
    <2> QED BY <2>1, <2>2
  <1>4. a \in Session /\ a.role = s.role
    BY <1>1, <1>3 DEF Lasting
  <1> HIDE DEF a
  <1>5. /\ Lasting(a, b) /\ b.phase = s.phase /\ ~b.comm
        /\ QueueOk(s.role, b.pending)
        /\ ~Has(b.pending, "update_request_all") /\ ~Has(b.pending, "update_done")
    <2> DEFINE m == [type |-> "state", xid |-> 0]
    <2>0. Len(a.pending) < PendingCapacity
      BY <1>0, <1>3, Room
    <2>1. /\ Lasting(a, b) /\ b.phase = a.phase /\ b.comm = a.comm
          /\ b.pending = Append(a.pending, m)
      BY <1>0, <1>3, <1>4, <2>0, EnqueueFields
    <2>2. "state" \in PendingTypes(s.role)
      BY DEF PendingTypes
    <2>3. m \in Entry /\ b.pending \in Seq(Entry) /\ QueueOk(s.role, b.pending)
      BY <1>0, <1>3, <2>1, <2>2, QueuePushed
    <2>4. m.type = "state"
      OBVIOUS
    <2>5. ~b.comm
      BY <1>3, <2>1
    <2> HIDE DEF m, b
    <2>6. ~Has(b.pending, "update_request_all") /\ ~Has(b.pending, "update_done")
      BY <1>3, <2>1, <2>3, <2>4, HasPushed
    <2> QED BY <1>3, <2>1, <2>3, <2>5, <2>6
  <1>6. b \in Session
    BY <1>5 DEF Lasting
  <1>7. t = Negotiated(s)
    BY <1>0, <1>5 DEF Negotiated, b, a, e
  <1> HIDE DEF b
  <1>8. /\ t \in Session /\ t.role = b.role /\ t.phase = "synchronizing"
        /\ t.pending = b.pending /\ t.out = b.out /\ t.req = b.req
        /\ t.todo = b.todo /\ t.leases = b.leases /\ t.got = b.got
        /\ t.comm = b.comm /\ t.state = b.state /\ t.complete = b.complete
        /\ t.escaped = b.escaped
    BY <1>0, <1>6 DEF Session
  <1> HIDE DEF t
  <1>9. \A all \in SUBSET Role : Updated(t, all)
    BY <1>1, <1>3, <1>5, <1>8 DEF Lasting, Updated
  <1>10. Once(t.pending, "update_request_all", t.sync)
    BY <1>5, <1>8 DEF Has, Once, Single, Carries
  <1> QED BY <1>1, <1>3, <1>4, <1>5, <1>7, <1>8, <1>9, <1>10 DEF Begun, Lasting

\* What a message does to the session that waits for the first one.
LEMMA DispatchOpened ==
  ASSUME NEW s, Opened(s), NEW m \in Message
  PROVE  LET d == Dispatch(s, m) IN
         /\ d.ok => /\ Begun(s, d.s)
                    /\ m.type = IF s.phase = "awaiting_connect" THEN "connect"
                                                                ELSE "connect_ack"
         /\ ~d.ok => Lasting(s, d.s)
  <1> DEFINE t == Negotiated(s)
             c == CommunicationChanged(t, TRUE)
             u == RequestUpdate(c)
             right == IF s.phase = "awaiting_connect" THEN "connect" ELSE "connect_ack"
             v == IF version = 4 THEN t ELSE u
  <1>0. s \in Session /\ s.phase \in {"awaiting_connect", "awaiting_connect_ack"}
    BY DEF Opened
  <1>1. Begun(s, t) /\ ~Has(t.pending, "update_request_all")
    BY NegotiatedBegun
  <1>2. t \in Session /\ t.phase = "synchronizing"
    BY <1>1 DEF Begun
  <1> HIDE DEF t
  <1>3. Alike(t, c)
    BY <1>2, CommunicationAlike
  <1>4. /\ c \in Session /\ QueueOk(c.role, c.pending)
        /\ ~Has(c.pending, "update_request_all") /\ ~Has(c.pending, "update_done")
    BY <1>1, <1>3 DEF Alike, Begun
  <1> HIDE DEF c
  <1>5. /\ Lasting(c, u) /\ u.phase = c.phase
        /\ u.sync # 0 /\ QueueOk(u.role, u.pending)
        /\ u.pending = Append(c.pending, [type |-> "update_request_all", xid |-> u.sync])
    BY <1>4, RequestFields
  <1>6. u = RequestUpdate(c)
    OBVIOUS
  <1> HIDE DEF u
  <1>7. /\ ~Has(u.pending, "update_done")
        /\ Once(u.pending, "update_request_all", u.sync)
    <2> DEFINE e == [type |-> "update_request_all", xid |-> u.sync]
    <2>1. u \in Session /\ u.sync \in 0..MaxXid /\ c.pending \in Seq(Entry)
      BY <1>4, <1>5 DEF Lasting, Session
    <2>2. e \in Entry /\ e.type = "update_request_all" /\ e.xid = u.sync
      BY <2>1 DEF Entry, Types
    <2>3. u.pending = Append(c.pending, e)
      BY <1>5
    <2> HIDE DEF e
    <2>4. Once(c.pending, "update_request_all", u.sync)
      BY <1>4, AbsentOnce
    <2>5. Once(Append(c.pending, e), "update_request_all", u.sync)
      BY <1>4, <2>1, <2>2, <2>4, OncePushed
    <2>6. ~Has(Append(c.pending, e), "update_done")
      BY <1>4, <2>1, <2>2, HasPushed
    <2> QED BY <2>3, <2>5, <2>6
  <1>8. Begun(s, u)
    <2>1. \A all \in SUBSET Role : Updated(u, all)
      BY <1>1, <1>3, <1>5 DEF Begun, Alike, Lasting
    <2> QED BY <1>1, <1>3, <1>5, <1>7, <2>1 DEF Begun, Alike, Lasting
  <1>9. Begun(s, v) /\ v.phase = "synchronizing"
    BY <1>1, <1>8 DEF Begun
  <1>10. Receive(s, m) = IF m.type = right THEN [s |-> v, ok |-> TRUE] ELSE Rejected(s)
    <2>1. Ok(v) = [s |-> v, ok |-> TRUE]
      BY <1>9 DEF Ok
    <2>2. version # 4 => v = RequestUpdate(CommunicationChanged(t, TRUE))
      BY DEF u, c
    <2> HIDE DEF u, c
    <2> QED BY <1>0, <1>2, <2>1, <2>2 DEF Receive, ReceiveV4, ReceiveV6, t
  <1>11. CASE m.type = right
    <2>1. Dispatch(s, m) = Accepted(v, m)
      BY <1>10, <1>11 DEF Dispatch
    <2>2. Accepted(v, m) = [s |-> v, ok |-> TRUE]
      BY <1>9, <1>11 DEF Accepted, Ok
    <2> HIDE DEF v
    <2> QED BY <1>9, <1>11, <2>1, <2>2
  <1>12. CASE m.type # right
    <2>1. Dispatch(s, m) = [s |-> Disconnect(s), ok |-> FALSE]
      BY <1>10, <1>12 DEF Dispatch, Rejected
    <2>2. Lasting(s, Disconnect(s))
      BY <1>0, DisconnectFields
    <2> QED BY <2>1, <2>2
  <1> QED BY <1>11, <1>12

\* UPDDONE completes the update the session has asked for.
LEMMA FinishedFields ==
  ASSUME NEW s \in Session
  PROVE  LET t == [UpdateRequestFinished([s EXCEPT !.sync = 0])
                     EXCEPT !.phase = "established"] IN
         /\ t \in Session /\ t.role = s.role /\ t.phase = "established"
         /\ t.pending = s.pending /\ t.sync = 0 /\ t.out = s.out
         /\ t.req = s.req /\ t.todo = s.todo /\ t.leases = s.leases /\ t.got = s.got
         /\ \A all \in SUBSET Role :
              Updated(s, all) /\ all \subseteq s.got => Updated(t, all)
  <1> DEFINE f == [s EXCEPT !.sync = 0]
             g == [f EXCEPT !.complete = TRUE]
             h == Evaluate(g)
             t == [h EXCEPT !.phase = "established"]
  <1>0. 0 \in 0..MaxXid /\ "established" \in Phase
    BY Constants DEF Phase
  <1>1. /\ f \in Session /\ f.role = s.role /\ f.pending = s.pending /\ f.sync = 0
        /\ f.out = s.out /\ f.req = s.req /\ f.todo = s.todo /\ f.leases = s.leases
        /\ f.got = s.got /\ f.state = s.state /\ f.escaped = s.escaped
    BY <1>0 DEF Session
  <1>2. t = [UpdateRequestFinished(f) EXCEPT !.phase = "established"]
    BY DEF UpdateRequestFinished
  <1> HIDE DEF f
  <1>3. /\ g \in Session /\ g.role = f.role /\ g.pending = f.pending /\ g.sync = f.sync
        /\ g.out = f.out /\ g.req = f.req /\ g.todo = f.todo /\ g.leases = f.leases
        /\ g.got = f.got /\ g.state = f.state /\ g.escaped = f.escaped
    BY <1>1 DEF Session
  <1> HIDE DEF g
  <1>4. Alike(g, h)
    BY <1>3, EvaluateAlike
  <1>5. h \in Session
    BY <1>4 DEF Alike
  <1> HIDE DEF h
  <1>6. /\ t \in Session /\ t.role = h.role /\ t.phase = "established"
        /\ t.pending = h.pending /\ t.sync = h.sync /\ t.out = h.out
        /\ t.req = h.req /\ t.todo = h.todo /\ t.leases = h.leases /\ t.got = h.got
        /\ t.state = h.state /\ t.escaped = h.escaped /\ t.complete = h.complete
    BY <1>0, <1>5 DEF Session
  <1> HIDE DEF t
  <1>7. ASSUME NEW all \in SUBSET Role, Updated(s, all), all \subseteq s.got
        PROVE  Updated(t, all)
    <2>1. Updated(g, all)
      BY <1>1, <1>3, <1>7 DEF Updated
    <2>2. Updated(h, all)
      BY <2>1, <1>4 DEF Alike
    <2> QED BY <2>2, <1>6 DEF Updated
  <1> QED BY <1>1, <1>2, <1>3, <1>4, <1>6, <1>7 DEF Alike, f

\* What a message does to a negotiated session that accepts it.
Effect(s, m, t) ==
  /\ t \in Session /\ t.role = s.role /\ t.phase \in Talking
  /\ \A all \in SUBSET Role :
       Updated(s, all) /\ (m.type = "update_done" => all \subseteq s.got)
         => Updated(t, all)
  /\ m.type \notin {"connect", "connect_ack"}
  /\ \/ /\ m.type \in {"state", "contact"}
        /\ t.pending = s.pending /\ t.sync = s.sync /\ t.out = s.out
        /\ t.req = s.req /\ t.todo = s.todo /\ t.leases = s.leases /\ t.got = s.got
     \/ /\ m.type = "state" /\ s.sync = 0 /\ t.sync # 0
        /\ t.pending = Append(s.pending, [type |-> "update_request_all", xid |-> t.sync])
        /\ t.out = s.out
        /\ t.req = s.req /\ t.todo = s.todo /\ t.leases = s.leases /\ t.got = s.got
     \/ /\ m.type = "update_done" /\ m.xid = s.sync /\ t.sync = 0
        /\ t.pending = s.pending /\ t.out = s.out
        /\ t.req = s.req /\ t.todo = s.todo /\ t.leases = s.leases /\ t.got = s.got
     \/ /\ m.type = "update_request_all" /\ s.req = 0
        /\ t.req = m.xid /\ t.todo = s.leases
        /\ t.pending = s.pending /\ t.sync = s.sync /\ t.out = s.out
        /\ t.leases = s.leases /\ t.got = s.got
     \/ /\ m.type = "binding_ack" /\ t.todo = s.todo \ {m.lease}
        /\ t.pending = s.pending /\ t.sync = s.sync /\ t.out = s.out
        /\ t.req = s.req /\ t.leases = s.leases /\ t.got = s.got
     \/ /\ m.type = "binding_update"
        /\ t.leases = s.leases \union {m.lease} /\ t.got = s.got \union {m.lease}
        /\ t.out = <<[m EXCEPT !.type = "binding_ack"]>>
        /\ t.pending = s.pending /\ t.sync = s.sync
        /\ t.req = s.req /\ t.todo = s.todo

\* The owner's part of accepting a message.
LEMMA AcceptedEffect ==
  ASSUME NEW s, NEW t, Alike(s, t), s.phase \in Talking, NEW m \in Message,
         m.type \in {"update_request_all", "binding_ack", "binding_update"}
  PROVE  LET d == Accepted(t, m) IN
         (d.ok => Effect(s, m, d.s)) /\ (~d.ok => Lasting(s, d.s))
  <1>0. /\ t \in Session /\ t.phase \in Talking /\ t.phase # "disconnected"
        /\ Lasting(s, t) /\ m.xid \in 0..MaxXid /\ m.lease \in Leases
    BY DEF Alike, Talking, Lasting, Message, Leases
  <1>1. ASSUME NEW u \in Session, u.role = t.role, u.phase = t.phase,
               u.state = t.state, u.complete = t.complete, u.escaped = t.escaped,
               t.got \subseteq u.got
        PROVE  \A all \in SUBSET Role : Updated(s, all) => Updated(u, all)
    BY <1>1 DEF Alike, Updated
  <1>2. CASE m.type = "update_request_all"
    <2> DEFINE u == [t EXCEPT !.todo = t.leases, !.req = m.xid, !.bind = 0]
    <2>1. 0 \in 0..MaxXid
      BY Constants
    <2>2. /\ u \in Session /\ u.role = t.role /\ u.phase = t.phase
          /\ u.pending = t.pending /\ u.sync = t.sync /\ u.out = t.out
          /\ u.req = m.xid /\ u.todo = t.leases /\ u.leases = t.leases /\ u.got = t.got
          /\ u.state = t.state /\ u.complete = t.complete /\ u.escaped = t.escaped
      BY <1>0, <2>1 DEF Session
    <2>3. Accepted(t, m) = IF t.req # 0 THEN [s |-> t, ok |-> FALSE] ELSE Ok(u)
      BY <1>2 DEF Accepted
    <2> HIDE DEF u
    <2>4. Ok(u) = [s |-> u, ok |-> TRUE]
      BY <1>0, <2>2 DEF Ok
    <2>5. \A all \in SUBSET Role : Updated(s, all) => Updated(u, all)
      BY <1>1, <2>2
    <2>6. t.req = 0 => Effect(s, m, u)
      BY <1>0, <1>2, <2>2, <2>5 DEF Effect, Alike
    <2> QED BY <1>0, <2>3, <2>4, <2>6
  <1>3. CASE m.type = "binding_ack"
    <2> DEFINE u == [t EXCEPT !.todo = @ \ {m.lease}, !.bind = 0]
    <2>1. 0 \in 0..MaxXid
      BY Constants
    <2>2. /\ u \in Session /\ u.role = t.role /\ u.phase = t.phase
          /\ u.pending = t.pending /\ u.sync = t.sync /\ u.out = t.out
          /\ u.req = t.req /\ u.todo = t.todo \ {m.lease}
          /\ u.leases = t.leases /\ u.got = t.got
          /\ u.state = t.state /\ u.complete = t.complete /\ u.escaped = t.escaped
      BY <1>0, <2>1 DEF Session
    <2>3. \/ Accepted(t, m) = [s |-> t, ok |-> FALSE]
          \/ Accepted(t, m) = Ok(u)
      BY <1>3 DEF Accepted
    <2> HIDE DEF u
    <2>4. Ok(u) = [s |-> u, ok |-> TRUE]
      BY <1>0, <2>2 DEF Ok
    <2>5. \A all \in SUBSET Role : Updated(s, all) => Updated(u, all)
      BY <1>1, <2>2
    <2>6. Effect(s, m, u)
      BY <1>0, <1>3, <2>2, <2>5 DEF Effect, Alike
    <2> QED BY <1>0, <2>3, <2>4, <2>6
  <1>4. CASE m.type = "binding_update"
    <2> DEFINE a == [m EXCEPT !.type = "binding_ack"]
               o == <<a>>
               u == [t EXCEPT !.leases = @ \union {m.lease},
                              !.got = @ \union {m.lease}, !.out = o]
    <2>1. a \in Message
      BY DEF Message
    <2>2. o \in Seq(Message)
      BY <2>1
    <2>3. Accepted(t, m) = Ok(u)
      BY <1>4 DEF Accepted
    <2>a. o = <<[m EXCEPT !.type = "binding_ack"]>>
      OBVIOUS
    <2> HIDE DEF o
    <2>4. /\ u \in Session /\ u.role = t.role /\ u.phase = t.phase
          /\ u.pending = t.pending /\ u.sync = t.sync /\ u.out = o
          /\ u.req = t.req /\ u.todo = t.todo
          /\ u.leases = t.leases \union {m.lease} /\ u.got = t.got \union {m.lease}
          /\ u.state = t.state /\ u.complete = t.complete /\ u.escaped = t.escaped
      BY <1>0, <2>2 DEF Session
    <2> HIDE DEF u, a
    <2>5. Ok(u) = [s |-> u, ok |-> TRUE]
      BY <1>0, <2>4 DEF Ok
    <2>6. \A all \in SUBSET Role : Updated(s, all) => Updated(u, all)
      <3>1. t.got \subseteq u.got
        BY <2>4
      <3> QED BY <1>1, <2>4, <3>1
    <2>7. Effect(s, m, u)
      BY <1>0, <1>4, <2>4, <2>6, <2>a DEF Effect, Alike
    <2> QED BY <2>3, <2>5, <2>7
  <1> QED BY <1>2, <1>3, <1>4

\* A session that stays alike has taken a plain message.
LEMMA PlainEffect ==
  ASSUME NEW s, NEW t, Alike(s, t), s.phase \in Talking,
         NEW m, m.type \in {"state", "contact"}
  PROVE  Effect(s, m, t)
  BY DEF Effect, Alike

\* What a message does to a negotiated session.
LEMMA DispatchTalking ==
  ASSUME NEW s \in Session, s.phase \in Talking, QueueOk(s.role, s.pending),
         s.sync = 0 => ~Has(s.pending, "update_request_all"), NEW m \in Message
  PROVE  LET d == Dispatch(s, m) IN
         (d.ok => Effect(s, m, d.s)) /\ (~d.ok => Lasting(s, d.s))
  <1> DEFINE b == IF version = 4 THEN s ELSE CommunicationChanged(s, TRUE)
             R(t) == [s |-> t, ok |-> TRUE]
  <1>0. s.phase \notin {"disconnected", "awaiting_connect", "awaiting_connect_ack"}
    BY DEF Talking
  <1>1. Alike(s, b)
    BY CommunicationAlike DEF Alike
  <1>2. b \in Session /\ b.phase = s.phase
    BY <1>1 DEF Alike
  <1>3. ASSUME NEW t, t.phase \in Talking PROVE Ok(t) = R(t)
    BY <1>3 DEF Ok, Talking
  <1>4. m.type \in Types /\ m.state \in State \union {None}
    BY DEF Message, Types
  <1>5. CASE m.type \in {"connect", "connect_ack"}
    <2>1. Receive(s, m) = Rejected(b)
      BY <1>0, <1>5 DEF Receive, ReceiveV4, ReceiveV6, ReceiveNegotiatedV6
    <2> HIDE DEF b
    <2>2. Dispatch(s, m) = [s |-> Disconnect(b), ok |-> FALSE]
      BY <2>1 DEF Dispatch, Rejected
    <2>3. Lasting(b, Disconnect(b))
      BY <1>2, DisconnectFields
    <2>4. Lasting(s, Disconnect(b))
      BY <1>1, <2>3 DEF Lasting, Alike
    <2> QED BY <2>2, <2>4
  <1>6. CASE m.type = "update_done"
    <2>1. Receive(s, m) = ReceiveDone(b, m)
      BY <1>0, <1>6 DEF Receive, ReceiveV4, ReceiveV6, ReceiveNegotiatedV6
    <2> HIDE DEF b
    <2>2. CASE m.xid # b.sync
      <3>1. Dispatch(s, m) = [s |-> Disconnect(b), ok |-> FALSE]
        BY <2>1, <2>2 DEF Dispatch, Rejected, ReceiveDone
      <3>2. Lasting(b, Disconnect(b))
        BY <1>2, DisconnectFields
      <3>3. Lasting(s, Disconnect(b))
        BY <1>1, <3>2 DEF Lasting, Alike
      <3> QED BY <3>1, <3>3
    <2>3. CASE m.xid = b.sync
      <3> DEFINE t == [UpdateRequestFinished([b EXCEPT !.sync = 0])
                         EXCEPT !.phase = "established"]
      <3>1. /\ t \in Session /\ t.role = b.role /\ t.phase = "established"
            /\ t.pending = b.pending /\ t.sync = 0 /\ t.out = b.out
            /\ t.req = b.req /\ t.todo = b.todo /\ t.leases = b.leases /\ t.got = b.got
            /\ \A all \in SUBSET Role :
                 Updated(b, all) /\ all \subseteq b.got => Updated(t, all)
        BY <1>2, FinishedFields
      <3>2. Receive(s, m) = Ok(t)
        BY <2>1, <2>3 DEF ReceiveDone
      <3> HIDE DEF t
      <3>3. t.phase \in Talking
        BY <3>1 DEF Talking
      <3>4. Dispatch(s, m) = Accepted(t, m)
        BY <3>2, <3>3, <1>3 DEF Dispatch
      <3>5. Accepted(t, m) = R(t)
        BY <3>3, <1>3, <1>6 DEF Accepted
      <3>6. \A all \in SUBSET Role :
              Updated(s, all) /\ all \subseteq s.got => Updated(t, all)
        BY <3>1, <1>1 DEF Alike
      <3>7. Effect(s, m, t)
        BY <1>1, <1>6, <2>3, <3>1, <3>3, <3>6 DEF Effect, Alike
      <3> QED BY <3>4, <3>5, <3>7
    <2> QED BY <2>2, <2>3
  <1>7. CASE m.type = "contact"
    <2> DEFINE t == CommunicationChanged(s, TRUE)
    <2>1. Alike(s, t)
      BY CommunicationAlike
    <2>2. Receive(s, m) = Ok(t)
      BY <1>0, <1>7 DEF Receive, ReceiveV4, ReceiveV6, ReceiveNegotiatedV6
    <2> HIDE DEF t
    <2>3. t.phase \in Talking
      BY <2>1 DEF Alike
    <2>4. Dispatch(s, m) = Accepted(t, m)
      BY <2>2, <2>3, <1>3 DEF Dispatch
    <2>5. Accepted(t, m) = R(t)
      BY <2>3, <1>3, <1>7 DEF Accepted
    <2>6. Effect(s, m, t)
      BY <1>7, <2>1, PlainEffect
    <2> QED BY <2>4, <2>5, <2>6
  <1>8. CASE m.type = "state"
    <2> DEFINE f == PartnerStateChanged(b, m.state)
               g == CommunicationChanged(f, TRUE)
               t == IF version # 4 THEN f
                    ELSE IF g.sync = 0 THEN RequestUpdate(g) ELSE g
    <2>1. Receive(s, m) = Ok(t)
      BY <1>0, <1>8 DEF Receive, ReceiveV4, ReceiveV6, ReceiveNegotiatedV6
    <2> HIDE DEF b
    <2>2. Alike(b, f)
      BY <1>2, <1>4, PartnerAlike
    <2>3. f \in Session
      BY <2>2 DEF Alike
    <2> HIDE DEF f
    <2>4. Alike(f, g)
      BY <2>3, CommunicationAlike
    <2>5. Alike(s, f) /\ Alike(s, g)
      BY <1>1, <2>2, <2>4, AlikeChain
    <2> HIDE DEF g
    <2>6. Effect(s, m, t) /\ t.phase \in Talking
      <3>1. CASE version # 4 \/ g.sync # 0
        <4>1. Alike(s, t)
          BY <2>5, <3>1
        <4> HIDE DEF t
        <4> QED BY <1>8, <4>1, PlainEffect DEF Alike
      <3>2. CASE version = 4 /\ g.sync = 0
        <4>1. /\ g \in Session /\ s.sync = 0 /\ QueueOk(g.role, g.pending)
              /\ ~Has(g.pending, "update_request_all")
          BY <2>5, <3>2 DEF Alike
        <4>2. t = RequestUpdate(g)
          BY <3>2
        <4> HIDE DEF t
        <4>3. /\ Lasting(g, t) /\ t.phase = g.phase /\ t.sync # 0
              /\ t.pending = Append(g.pending, [type |-> "update_request_all",
                                                xid |-> t.sync])
          BY <4>1, <4>2, RequestFields
        <4>4. \A all \in SUBSET Role : Updated(s, all) => Updated(t, all)
          BY <4>3, <2>5 DEF Alike, Lasting
        <4> QED BY <1>8, <2>5, <4>1, <4>3, <4>4 DEF Effect, Alike, Lasting
      <3> QED BY <3>1, <3>2
    <2> HIDE DEF t
    <2>7. Dispatch(s, m) = Accepted(t, m)
      BY <2>1, <2>6, <1>3 DEF Dispatch
    <2>8. Accepted(t, m) = R(t)
      BY <2>6, <1>3, <1>8 DEF Accepted
    <2> QED BY <2>6, <2>7, <2>8
  <1>9. CASE m.type \in {"update_request_all", "binding_ack", "binding_update"}
    <2>1. Receive(s, m) = Ok(b)
      BY <1>0, <1>9 DEF Receive, ReceiveV4, ReceiveV6, ReceiveNegotiatedV6
    <2> HIDE DEF b
    <2>2. Dispatch(s, m) = Accepted(b, m)
      BY <2>1, <1>2, <1>3 DEF Dispatch
    <2> QED BY <1>1, <1>9, <2>2, AcceptedEffect
  <1> QED BY <1>4, <1>5, <1>6, <1>7, <1>8, <1>9 DEF Types

\* A session without a connection accepts nothing.
LEMMA DispatchDisconnected ==
  ASSUME NEW s \in Session, s.phase = "disconnected", NEW m
  PROVE  Dispatch(s, m) = [s |-> s, ok |-> FALSE] /\ Lasting(s, s)
  BY DEF Dispatch, Receive, ReceiveV4, ReceiveV6, Lasting

\* What the service of a session does: nothing, or it ends the session, or it
\* queues a CONTACT behind nothing.
Serviced(s, t) ==
  /\ Lasting(s, t) /\ t.sync = s.sync
  /\ \/ t.phase = s.phase /\ t.pending = s.pending /\ (t.comm => s.comm)
     \/ t.phase = "disconnected" /\ t.pending = <<>> /\ ~t.comm
     \/ /\ t.phase = s.phase /\ s.pending = <<>> /\ (t.comm => s.comm)
        /\ t.pending = <<[type |-> "contact", xid |-> 0]>>

\* What service() does after the endpoint was serviced.
LEMMA KeepaliveServiced ==
  ASSUME NEW s \in Session, NEW e, Alike(s, e), e.comm => s.comm, NEW exempt
  PROVE  Serviced(s, Keepalive(e, exempt))
  <1>0. e \in Session /\ e.comm \in BOOLEAN /\ e.interval \in BOOLEAN
    BY DEF Alike, Session
  <1>1. Serviced(s, e)
    BY DEF Serviced, Alike, Lasting
  <1>2. CASE ~e.comm /\ e.phase \notin exempt
    <2> DEFINE t == [e EXCEPT !.phase = "disconnected", !.pending = <<>>]
    <2>1. "disconnected" \in Phase /\ <<>> \in Seq(Entry)
      BY DEF Phase
    <2>2. /\ t \in Session /\ t.role = e.role /\ t.out = e.out /\ t.req = e.req
          /\ t.todo = e.todo /\ t.leases = e.leases /\ t.got = e.got
          /\ t.sync = e.sync /\ t.comm = e.comm
          /\ t.phase = "disconnected" /\ t.pending = <<>>
          /\ t.state = e.state /\ t.complete = e.complete /\ t.escaped = e.escaped
      BY <1>0, <2>1 DEF Session
    <2>3. t = Keepalive(e, exempt)
      BY <1>2 DEF Keepalive
    <2> HIDE DEF t
    <2>4. \A all \in SUBSET Role : Updated(s, all) => Updated(t, all)
      BY <2>2 DEF Updated, Alike
    <2>5. ~t.comm
      BY <2>2, <1>2
    <2> QED BY <2>2, <2>3, <2>4, <2>5 DEF Serviced, Lasting, Alike
  <1>3. CASE /\ e.comm \/ e.phase \in exempt
             /\ e.interval /\ e.pending = <<>> /\ e.sendIn = 0
    <2> DEFINE t == Enqueue(e, "contact", 0)
    <2>1. /\ Len(e.pending) < PendingCapacity /\ "contact" \in Types /\ 0 \in 0..MaxXid
      BY <1>3, Constants DEF Types
    <2>2. /\ Lasting(e, t) /\ t.sync = e.sync /\ t.phase = e.phase /\ t.comm = e.comm
          /\ t.pending = Append(e.pending, [type |-> "contact", xid |-> 0])
      BY <1>0, <2>1, EnqueueFields
    <2>3. Keepalive(e, exempt) = t
      BY <1>3 DEF Keepalive
    <2> HIDE DEF t
    <2>4. t.pending = <<[type |-> "contact", xid |-> 0]>>
      BY <1>3, <2>2
    <2>5. Lasting(s, t)
      BY <2>2 DEF Lasting, Alike
    <2>6. t.comm => s.comm
      BY <2>2
    <2> QED BY <1>3, <2>2, <2>3, <2>4, <2>5, <2>6 DEF Serviced, Alike
  <1>4. CASE /\ ~(~e.comm /\ e.phase \notin exempt)
             /\ ~(/\ e.comm \/ e.phase \in exempt
                  /\ e.interval /\ e.pending = <<>> /\ e.sendIn = 0)
    <2>1. Keepalive(e, exempt) = e
      BY <1>4 DEF Keepalive
    <2> QED BY <1>1, <2>1
  <1> QED BY <1>2, <1>3, <1>4

\* service() of both protocols.
LEMMA SessionServiced ==
  ASSUME NEW s \in Session
  PROVE  Serviced(s, SessionService(s))
  <1>1. CASE s.phase = "disconnected"
    <2>1. SessionService(s) = s
      BY <1>1 DEF SessionService, ServiceV4, ServiceV6
    <2> QED BY <2>1 DEF Serviced, Lasting
  <1>2. CASE s.phase # "disconnected"
    <2> DEFINE e == EndpointService(s)
               exempt == IF version = 4 THEN {"awaiting_connect", "awaiting_connect_ack"}
                                        ELSE {}
    <2>1. Alike(s, e) /\ (e.comm => s.comm)
      BY EndpointAlike
    <2>2. SessionService(s) = Keepalive(e, exempt)
      BY <1>2 DEF SessionService, ServiceV4, ServiceV6
    <2> HIDE DEF e, exempt
    <2> QED BY <2>1, <2>2, KeepaliveServiced
  <1> QED BY <1>1, <1>2

\* What the synchronisation step of a turn does: nothing, or it queues UPDDONE
\* for the request once nothing is left to send, or it sends the next binding.
Stepped(s, t) ==
  /\ t \in Session /\ t.role = s.role /\ t.phase = s.phase /\ t.comm = s.comm
  /\ t.sync = s.sync /\ t.leases = s.leases /\ t.got = s.got /\ t.todo = s.todo
  /\ \A all \in SUBSET Role : Updated(s, all) => Updated(t, all)
  /\ \/ t.pending = s.pending /\ t.out = s.out /\ t.req = s.req
     \/ /\ s.req # 0 /\ s.todo = {} /\ t.req = 0 /\ t.out = s.out
        /\ t.pending = Append(s.pending, [type |-> "update_done", xid |-> s.req])
     \/ /\ s.out = <<>> /\ s.req # 0 /\ t.pending = s.pending /\ t.req = s.req
        /\ \E m \in Message : t.out = <<m>> /\ m.type = "binding_update"

\* The synchronisation step is one of the three.
LEMMA SynchronizationStepped ==
  ASSUME NEW s \in Session, QueueOk(s.role, s.pending)
  PROVE  Stepped(s, SynchronizationStep(s))
  <1>1. CASE s.out # <<>> \/ s.req = 0 \/ s.bind # 0
    <2>1. SynchronizationStep(s) = s
      BY <1>1 DEF SynchronizationStep
    <2> QED BY <2>1 DEF Stepped
  <1>2. CASE s.out = <<>> /\ s.req # 0 /\ s.bind = 0 /\ s.todo = {}
    <2> DEFINE f == Enqueue(s, "update_done", s.req)
               t == [f EXCEPT !.req = 0]
    <2>1. /\ s.req \in 0..MaxXid /\ "update_done" \in Types /\ 0 \in 0..MaxXid
          /\ s.role \in Role /\ s.pending \in Seq(Entry)
      BY Constants DEF Session, Types
    <2>2. Len(s.pending) < PendingCapacity
      BY <2>1, Room
    <2>3. /\ Lasting(s, f) /\ f.sync = s.sync /\ f.phase = s.phase /\ f.comm = s.comm
          /\ f.pending = Append(s.pending, [type |-> "update_done", xid |-> s.req])
      BY <2>1, <2>2, EnqueueFields
    <2>4. t = SynchronizationStep(s)
      BY <1>2 DEF SynchronizationStep
    <2>5. f \in Session
      BY <2>3 DEF Lasting
    <2> HIDE DEF f
    <2>6. /\ t \in Session /\ t.role = f.role /\ t.out = f.out /\ t.req = 0
          /\ t.todo = f.todo /\ t.leases = f.leases /\ t.got = f.got
          /\ t.sync = f.sync /\ t.comm = f.comm /\ t.phase = f.phase
          /\ t.pending = f.pending
          /\ t.state = f.state /\ t.complete = f.complete /\ t.escaped = f.escaped
      BY <2>1, <2>5 DEF Session
    <2> HIDE DEF t
    <2>7. \A all \in SUBSET Role : Updated(s, all) => Updated(t, all)
      BY <2>3, <2>6 DEF Updated, Lasting
    <2> QED BY <1>2, <2>3, <2>4, <2>6, <2>7 DEF Stepped, Lasting
  <1>3. CASE s.out = <<>> /\ s.req # 0 /\ s.bind = 0 /\ s.todo # {}
    <2> DEFINE n == s.next
               m == [type |-> "binding_update", xid |-> n, state |-> None,
                     lease |-> CHOOSE l \in s.todo : TRUE]
               o == <<m>>
               k == IF n = MaxXid THEN 1 ELSE n + 1
               t == [s EXCEPT !.next = k, !.bind = n, !.out = o]
    <2>1. n \in 0..MaxXid /\ n \in 1..MaxXid /\ k \in 1..MaxXid
      BY Constants DEF Session
    <2>2. (CHOOSE l \in s.todo : TRUE) \in Leases
      BY <1>3 DEF Session
    <2>3. m \in Message /\ m.type = "binding_update"
      BY <2>1, <2>2 DEF Message, Leases
    <2>4. o \in Seq(Message)
      BY <2>3
    <2>5. t = SynchronizationStep(s)
      <3>1. AllocateXid(s) = [s EXCEPT !.next = k]
        BY DEF AllocateXid
      <3>2. [[s EXCEPT !.next = k] EXCEPT !.bind = n, !.out = o] = t
        BY DEF Session
      <3>3. SynchronizationStep(s) = [AllocateXid(s) EXCEPT !.bind = n, !.out = o]
        BY <1>3 DEF SynchronizationStep
      <3> QED BY <3>1, <3>2, <3>3
    <2>6. o = <<m>>
      OBVIOUS
    <2> HIDE DEF n, k, o, m
    <2>7. /\ t \in Session /\ t.role = s.role /\ t.out = o /\ t.req = s.req
          /\ t.todo = s.todo /\ t.leases = s.leases /\ t.got = s.got
          /\ t.sync = s.sync /\ t.comm = s.comm /\ t.phase = s.phase
          /\ t.pending = s.pending
          /\ t.state = s.state /\ t.complete = s.complete /\ t.escaped = s.escaped
      BY <2>1, <2>4 DEF Session
    <2> HIDE DEF t
    <2>8. \A all \in SUBSET Role : Updated(s, all) => Updated(t, all)
      BY <2>7 DEF Updated
    <2> QED BY <1>3, <2>3, <2>5, <2>6, <2>7, <2>8 DEF Stepped
  <1> QED BY <1>1, <1>2, <1>3

\* What preparing the next message does: nothing, or the first pending message
\* becomes the one to be written.
Prepared(s, t) ==
  /\ t \in Session /\ t.role = s.role /\ t.phase = s.phase /\ t.comm = s.comm
  /\ t.sync = s.sync /\ t.leases = s.leases /\ t.got = s.got /\ t.todo = s.todo
  /\ t.req = s.req
  /\ \A all \in SUBSET Role : Updated(s, all) => Updated(t, all)
  /\ \/ t.pending = s.pending /\ t.out = s.out
     \/ /\ s.out = <<>> /\ s.pending # <<>> /\ t.pending = Tail(s.pending)
        /\ \E m \in Message : /\ t.out = <<m>> /\ m.type = Head(s.pending).type
                              /\ m.xid = Head(s.pending).xid

\* prepare_next() is one of the two.
LEMMA NextPrepared ==
  ASSUME NEW s \in Session
  PROVE  Prepared(s, PrepareNext(s))
  <1>1. CASE s.out # <<>> \/ s.pending = <<>>
    <2>1. PrepareNext(s) = s
      BY <1>1 DEF PrepareNext
    <2> QED BY <2>1 DEF Prepared
  <1>2. CASE s.out = <<>> /\ s.pending # <<>>
    <2> DEFINE p == Head(s.pending)
               a == IF p.type = "state" THEN Advertised(s) ELSE None
               m == [type |-> p.type, xid |-> p.xid, state |-> a, lease |-> None]
               o == <<m>>
               q == Tail(s.pending)
               t == [s EXCEPT !.pending = q, !.sendIn = SendInterval, !.out = o]
    <2>1. s.pending \in Seq(Entry) /\ s.state \in State
      BY DEF Session
    <2>2. p \in Entry /\ q \in Seq(Entry)
      BY <1>2, <2>1, Popped
    <2>3. a \in State \union {None}
      BY <2>1 DEF Advertised, State
    <2>4. t = PrepareNext(s)
      BY <1>2 DEF PrepareNext
    <2> HIDE DEF a, p
    <2>5. m \in Message /\ m.type = p.type /\ m.xid = p.xid
      BY <2>2, <2>3 DEF Message, Entry, Types
    <2>6. o \in Seq(Message) /\ o = <<m>>
      BY <2>5
    <2>7. SendInterval \in Int
      BY Constants
    <2> HIDE DEF o, m, q
    <2>8. /\ t \in Session /\ t.role = s.role /\ t.out = o /\ t.req = s.req
          /\ t.todo = s.todo /\ t.leases = s.leases /\ t.got = s.got
          /\ t.sync = s.sync /\ t.comm = s.comm /\ t.phase = s.phase
          /\ t.pending = q
          /\ t.state = s.state /\ t.complete = s.complete /\ t.escaped = s.escaped
      BY <2>2, <2>6, <2>7 DEF Session
    <2> HIDE DEF t
    <2>9. \A all \in SUBSET Role : Updated(s, all) => Updated(t, all)
      BY <2>8 DEF Updated
    <2> QED BY <1>2, <2>4, <2>5, <2>6, <2>8, <2>9 DEF Prepared, p, q
  <1> QED BY <1>1, <1>2

\* A connection opens: the owner forgets the old synchronisation, the primary
\* queues CONNECT, the secondary waits for it and drops what it had to write.
Connected(s, t) ==
  /\ t \in Session /\ t.role = s.role /\ t.comm = s.comm
  /\ t.sync = 0 /\ t.req = 0 /\ t.leases = s.leases /\ t.got = s.got
  /\ \A all \in SUBSET Role : Updated(s, all) => Updated(t, all)
  /\ s.role = "primary" =>
       /\ t.phase = "awaiting_connect_ack" /\ t.out = s.out
       /\ t.pending = <<[type |-> "connect", xid |-> 0]>>
  /\ s.role = "secondary" =>
       t.phase = "awaiting_connect" /\ t.out = <<>> /\ t.pending = <<>>

\* transport_connected() after the owner has reset its part.
LEMMA SessionConnected ==
  ASSUME NEW s \in Session
  PROVE  Connected(s, TransportConnected(OwnerReset(s)))
  <1> DEFINE o == IF s.role = "secondary" THEN <<>> ELSE s.out
             f == [s EXCEPT !.todo = {}, !.req = 0, !.bind = 0, !.out = o]
             g == [f EXCEPT !.pending = <<>>, !.sync = 0, !.sendIn = SendInterval]
             h == [g EXCEPT !.phase = "awaiting_connect_ack"]
             k == [g EXCEPT !.phase = "awaiting_connect"]
  <1>0. /\ o \in Seq(Message) /\ 0 \in 0..MaxXid /\ SendInterval \in Int
        /\ <<>> \in Seq(Entry) /\ s.role \in Role
        /\ {"awaiting_connect", "awaiting_connect_ack"} \subseteq Phase
        /\ "connect" \in Types /\ PendingCapacity > 0 /\ {} \in SUBSET Leases
    BY Constants DEF Session, Phase, Types
  <1>1. f = OwnerReset(s)
    BY DEF OwnerReset
  <1>a. (s.role = "secondary" => o = <<>>) /\ (s.role = "primary" => o = s.out)
    OBVIOUS
  <1> HIDE DEF o
  <1>2. /\ f \in Session /\ f.role = s.role /\ f.out = o /\ f.req = 0
        /\ f.leases = s.leases /\ f.got = s.got /\ f.comm = s.comm
        /\ f.state = s.state /\ f.complete = s.complete /\ f.escaped = s.escaped
    BY <1>0 DEF Session
  <1> HIDE DEF f
  <1>3. /\ g \in Session /\ g.role = f.role /\ g.out = f.out /\ g.req = f.req
        /\ g.leases = f.leases /\ g.got = f.got /\ g.comm = f.comm
        /\ g.state = f.state /\ g.complete = f.complete /\ g.escaped = f.escaped
        /\ g.sync = 0 /\ g.pending = <<>>
    BY <1>0, <1>2 DEF Session
  <1>b. TransportConnected(f) = IF f.role = "primary" THEN Enqueue(h, "connect", 0) ELSE k
    BY DEF TransportConnected
  <1> HIDE DEF g
  <1>4. CASE s.role = "primary"
    <2>1. /\ h \in Session /\ h.role = g.role /\ h.out = g.out /\ h.req = g.req
          /\ h.leases = g.leases /\ h.got = g.got /\ h.comm = g.comm
          /\ h.state = g.state /\ h.complete = g.complete /\ h.escaped = g.escaped
          /\ h.sync = 0 /\ h.pending = <<>> /\ h.phase = "awaiting_connect_ack"
      BY <1>0, <1>3 DEF Session
    <2> HIDE DEF h
    <2> DEFINE t == Enqueue(h, "connect", 0)
    <2>2. Len(h.pending) < PendingCapacity
      BY <1>0, <2>1
    <2>3. /\ Lasting(h, t) /\ t.sync = h.sync /\ t.phase = h.phase /\ t.comm = h.comm
          /\ t.pending = Append(h.pending, [type |-> "connect", xid |-> 0])
      BY <1>0, <2>1, <2>2, EnqueueFields
    <2>4. t = TransportConnected(OwnerReset(s))
      BY <1>1, <1>2, <1>b, <1>4
    <2> HIDE DEF t
    <2>5. t.pending = <<[type |-> "connect", xid |-> 0]>>
      BY <2>1, <2>3
    <2>6. \A all \in SUBSET Role : Updated(s, all) => Updated(t, all)
      BY <1>2, <1>3, <2>1, <2>3 DEF Updated, Lasting
    <2> QED BY <1>2, <1>3, <1>4, <1>a, <2>1, <2>3, <2>4, <2>5, <2>6 DEF Connected, Lasting
  <1>5. CASE s.role = "secondary"
    <2>1. /\ k \in Session /\ k.role = g.role /\ k.out = g.out /\ k.req = g.req
          /\ k.leases = g.leases /\ k.got = g.got /\ k.comm = g.comm
          /\ k.state = g.state /\ k.complete = g.complete /\ k.escaped = g.escaped
          /\ k.sync = 0 /\ k.pending = <<>> /\ k.phase = "awaiting_connect"
      BY <1>0, <1>3 DEF Session
    <2>2. k = TransportConnected(OwnerReset(s))
      BY <1>1, <1>2, <1>b, <1>5
    <2> HIDE DEF k
    <2>3. \A all \in SUBSET Role : Updated(s, all) => Updated(k, all)
      BY <1>2, <1>3, <2>1 DEF Updated
    <2> QED BY <1>2, <1>3, <1>5, <1>a, <2>1, <2>2, <2>3 DEF Connected
  <1> QED BY <1>0, <1>4, <1>5 DEF Role

----------------------------------------------------------------------------
(***************************************************************************)
(* What moves through the queues.                                          *)
(***************************************************************************)

\* Acknowledgements in a queue that grows, shrinks, or is read by a server
\* that received more.
LEMMA AckedPushed ==
  ASSUME NEW S, NEW q \in Seq(S), NEW e \in S, NEW got, Acked(q, got),
         e.type = "binding_ack" => e.lease \in got
  PROVE  Acked(Append(q, e), got)
  <1> DEFINE a == Append(q, e)
             n == Len(q)
  <1>1. /\ DOMAIN q = 1..n /\ DOMAIN a = 1..(n + 1) /\ n \in Nat
        /\ \A i \in 1..n : a[i] = q[i]
        /\ a[n + 1] = e
    BY Pushed
  <1> HIDE DEF a, n
  <1>2. Acked(a, got)
    BY <1>1 DEF Acked
  <1> QED BY <1>2 DEF a

\* Acknowledgements in what is left of a queue, and in its first message.
LEMMA AckedPopped ==
  ASSUME NEW S, NEW q \in Seq(S), q # <<>>, NEW got, Acked(q, got)
  PROVE  /\ Acked(Tail(q), got)
         /\ Head(q).type = "binding_ack" => Head(q).lease \in got
  <1> DEFINE t == Tail(q)
             h == Head(q)
             n == Len(q)
  <1>1. /\ DOMAIN q = 1..n /\ DOMAIN t = 1..(n - 1) /\ n \in Nat \ {0}
        /\ \A i \in 1..(n - 1) : t[i] = q[i + 1]
        /\ q[1] = h
    BY Popped
  <1>2. \A i \in 1..(n - 1) : i + 1 \in 1..n
    BY <1>1
  <1> HIDE DEF t, h, n
  <1>3. \A i \in 1..n : q[i].type = "binding_ack" => q[i].lease \in got
    BY <1>1 DEF Acked
  <1>4. h.type = "binding_ack" => h.lease \in got
    BY <1>1, <1>3
  <1>5. \A i \in 1..(n - 1) : t[i].type = "binding_ack" => t[i].lease \in got
    BY <1>1, <1>2, <1>3
  <1> QED BY <1>1, <1>4, <1>5 DEF Acked, t, h

\* Acknowledgements stay justified when more bindings are received.
LEMMA AckedMore ==
  ASSUME NEW q, NEW got, NEW more, got \subseteq more, Acked(q, got)
  PROVE  Acked(q, more)
  BY DEF Acked

\* No acknowledgement, nothing to justify.
LEMMA AckedNone ==
  ASSUME NEW q, NEW types, Only(q, types), "binding_ack" \notin types, NEW got
  PROVE  Acked(q, got)
  BY DEF Acked, Only

\* Acknowledgements in a queue of one message, and in an empty one.
LEMMA AckedOne ==
  ASSUME NEW e, NEW got
  PROVE  /\ Acked(<<e>>, got) <=> (e.type = "binding_ack" => e.lease \in got)
         /\ Acked(<<>>, got)
  BY DEF Acked

\* A queue of one message, type by type.
LEMMA OneMessage ==
  ASSUME NEW e
  PROVE  /\ \A type : Has(<<e>>, type) <=> e.type = type
         /\ \A type : ~Has(<<>>, type)
         /\ \A types : Only(<<e>>, types) <=> e.type \in types
         /\ \A types : Only(<<>>, types)
         /\ \A type, x : Once(<<e>>, type, x) <=> (e.type = type => e.xid = x)
         /\ \A type, x : Once(<<>>, type, x)
         /\ \A type : Single(<<e>>, type) /\ Single(<<>>, type)
  BY DEF Has, Only, Single, Once, Carries

\* A queue with a message appended, type by type.
LEMMA MorePushed ==
  ASSUME NEW S, NEW q \in Seq(S), NEW e \in S
  PROVE  /\ Append(q, e) \in Seq(S) /\ Append(q, e) # <<>>
         /\ q # <<>> => Head(Append(q, e)) = Head(q)
         /\ q = <<>> => Append(q, e) = <<e>>
         /\ \A type : Has(Append(q, e), type) <=> Has(q, type) \/ e.type = type
         /\ \A types : Only(Append(q, e), types) <=> Only(q, types) /\ e.type \in types
         /\ \A type : Single(q, type) /\ ~(Has(q, type) /\ e.type = type) =>
              Single(Append(q, e), type)
         /\ \A type, x : Once(q, type, x) /\ e.type # type =>
              Once(Append(q, e), type, x)
         /\ \A type : ~Has(q, type) /\ e.type = type => Once(Append(q, e), type, e.xid)
  <1>1. /\ Append(q, e) \in Seq(S) /\ Append(q, e) # <<>>
        /\ q # <<>> => Head(Append(q, e)) = Head(q)
        /\ q = <<>> => Append(q, e) = <<e>>
    <2>1. /\ Append(q, e) \in Seq(S) /\ Len(Append(q, e)) = Len(q) + 1
          /\ Len(q) \in Nat /\ \A i \in 1..Len(q) : Append(q, e)[i] = q[i]
      BY Pushed
    <2>2. Append(q, e) # <<>>
      BY <2>1
    <2>3. ASSUME q # <<>> PROVE Head(Append(q, e)) = Head(q)
      <3>1. Len(q) \in Nat \ {0} /\ q[1] = Head(q)
        BY <2>3, Popped
      <3>2. Append(q, e)[1] = Head(Append(q, e))
        BY <2>1, <2>2, Popped
      <3> QED BY <2>1, <3>1, <3>2
    <2>4. q = <<>> => Append(q, e) = <<e>>
      OBVIOUS
    <2> QED BY <2>1, <2>2, <2>3, <2>4
  <1>2. ASSUME NEW type PROVE Has(Append(q, e), type) <=> Has(q, type) \/ e.type = type
    BY HasPushed
  <1>3. ASSUME NEW types
        PROVE Only(Append(q, e), types) <=> Only(q, types) /\ e.type \in types
    BY OnlyPushed
  <1>4. ASSUME NEW type, Single(q, type), ~(Has(q, type) /\ e.type = type)
        PROVE Single(Append(q, e), type)
    BY <1>4, SinglePushed
  <1>5. ASSUME NEW type, NEW x, Once(q, type, x), e.type # type
        PROVE Once(Append(q, e), type, x)
    BY <1>5, OncePushed
  <1>6. ASSUME NEW type, ~Has(q, type), e.type = type
        PROVE Once(Append(q, e), type, e.xid)
    BY <1>6, OncePushed, AbsentOnce
  <1> QED BY <1>1, <1>2, <1>3, <1>4, <1>5, <1>6

\* A queue without its first message, type by type.
LEMMA MorePopped ==
  ASSUME NEW S, NEW q \in Seq(S), q # <<>>
  PROVE  /\ Head(q) \in S /\ Tail(q) \in Seq(S)
         /\ \A type : Has(Tail(q), type) => Has(q, type)
         /\ \A type : Has(q, type) <=> Has(Tail(q), type) \/ Head(q).type = type
         /\ \A types : Only(q, types) => Only(Tail(q), types) /\ Head(q).type \in types
         /\ \A type : Single(q, type) =>
              Single(Tail(q), type) /\ (Head(q).type = type => ~Has(Tail(q), type))
         /\ \A type, x : Once(q, type, x) =>
              /\ Once(Tail(q), type, x)
              /\ Head(q).type = type => Head(q).xid = x /\ ~Has(Tail(q), type)
  <1>1. Head(q) \in S /\ Tail(q) \in Seq(S)
    BY Popped
  <1>2. ASSUME NEW type
        PROVE /\ Has(Tail(q), type) => Has(q, type)
              /\ Has(q, type) <=> Has(Tail(q), type) \/ Head(q).type = type
              /\ Single(q, type) =>
                   Single(Tail(q), type) /\ (Head(q).type = type => ~Has(Tail(q), type))
    BY HasPopped
  <1>3. ASSUME NEW types, Only(q, types) PROVE Only(Tail(q), types) /\ Head(q).type \in types
    BY <1>3, OnlyPopped
  <1>4. ASSUME NEW type, NEW x, Once(q, type, x)
        PROVE /\ Once(Tail(q), type, x)
              /\ Head(q).type = type => Head(q).xid = x /\ ~Has(Tail(q), type)
    BY <1>4, OncePopped
  <1> QED BY <1>1, <1>2, <1>3, <1>4

\* What a message leaves in a queue that excludes it.
LEMMA Excluded ==
  ASSUME NEW q
  PROVE  /\ \A types, type : Only(q, types) /\ type \notin types => ~Has(q, type)
         /\ \A type, x : ~Has(q, type) => Once(q, type, x) /\ Single(q, type)
         /\ \A types, more : Only(q, types) /\ types \subseteq more => Only(q, more)
  BY OnlyExcludes, AbsentOnce DEF Only

\* A step of a server by itself: what it has to ask and to answer is where it
\* was or one place further, and nothing is added but CONTACT and UPDDONE.
Local(s, t) ==
  /\ t \in Session /\ t.role = s.role /\ Len(t.out) <= 1
  /\ t.sync = s.sync /\ t.leases = s.leases /\ t.got = s.got /\ t.todo = s.todo
  /\ t.phase = s.phase \/ t.phase = "disconnected"
  /\ t.comm => s.comm /\ t.phase = s.phase
  /\ \A all \in SUBSET Role : Updated(s, all) => Updated(t, all)
  /\ \A x : AskingOnce(s, x) => AskingOnce(t, x)
  /\ Asking(t) => Asking(s)
  /\ \A got : Acked(s.out, got) => Acked(t.out, got)
  /\ t.req \in {0, s.req}
  /\ \A x : AnsweringOnce(s, x) => AnsweringOnce(t, x)
  /\ Answering(t) => Answering(s)
  /\ Finished(t) => Finished(s) \/ (s.req # 0 /\ s.todo = {})
  /\ Owing(t) => Owing(s)
  /\ t.req # 0 => ~Has(t.pending, "update_done")
  /\ QueueOk(t.role, t.pending)
  /\ Has(t.pending, "update_request_all") =>
       Has(s.pending, "update_request_all") /\ t.phase = s.phase
  /\ ~Has(s.pending, "connect_ack") /\ ~Has(s.out, "connect_ack") =>
       ~Has(t.pending, "connect_ack") /\ ~Has(t.out, "connect_ack")
  /\ \A types : s.req = 0 /\ "contact" \in types /\ Only(s.pending, types) =>
       /\ Only(t.pending, types)
       /\ Only(s.out, types) => Only(t.out, types)

\* The steps that a server takes by itself are local.
LEMMA ServicedLocal ==
  ASSUME NEW s \in Session, NEW t, Serviced(s, t), Len(s.out) <= 1,
         QueueOk(s.role, s.pending), s.req # 0 => ~Has(s.pending, "update_done")
  PROVE  Local(s, t)
  <1>1. /\ Lasting(s, t) /\ t.sync = s.sync /\ t.out = s.out /\ t.req = s.req
        /\ t.todo = s.todo
    BY DEF Serviced, Lasting
  <1>2. CASE t.phase = s.phase /\ t.pending = s.pending /\ (t.comm => s.comm)
    BY <1>1, <1>2 DEF Local, Lasting, AskingOnce, Asking, AnsweringOnce, Answering,
       Finished, Owing
  <1> DEFINE c == [type |-> "contact", xid |-> 0]
  <1>3. /\ \A type : ~Has(<<>>, type) /\ \A types : Only(<<>>, types)
        /\ \A type, x : Once(<<>>, type, x)
        /\ \A type : Single(<<>>, type) /\ Single(<<c>>, type)
        /\ \A type : Has(<<c>>, type) <=> "contact" = type
        /\ \A types : Only(<<c>>, types) <=> "contact" \in types
        /\ \A type, x : Once(<<c>>, type, x) <=> ("contact" = type => 0 = x)
    BY OneMessage
  <1>4. "contact" \in PendingTypes(s.role)
    BY DEF PendingTypes
  <1> HIDE DEF c
  <1>5. CASE t.phase = "disconnected" /\ t.pending = <<>> /\ ~t.comm
    BY <1>1, <1>3, <1>5 DEF Local, Lasting, AskingOnce, Asking, AnsweringOnce, Answering,
       Finished, Owing, QueueOk
  <1>6. CASE t.phase = s.phase /\ s.pending = <<>> /\ (t.comm => s.comm) /\ t.pending = <<c>>
    BY <1>1, <1>3, <1>4, <1>6 DEF Local, Lasting, AskingOnce, Asking, AnsweringOnce,
       Answering, Finished, Owing, QueueOk
  <1> QED BY <1>2, <1>5, <1>6 DEF Serviced, c

\* The synchronisation step is local.
LEMMA SteppedLocal ==
  ASSUME NEW s \in Session, NEW t, Stepped(s, t), Len(s.out) <= 1,
         QueueOk(s.role, s.pending), s.req # 0 => ~Has(s.pending, "update_done")
  PROVE  Local(s, t)
  <1>1. /\ t \in Session /\ t.role = s.role /\ t.phase = s.phase /\ t.comm = s.comm
        /\ t.sync = s.sync /\ t.leases = s.leases /\ t.got = s.got /\ t.todo = s.todo
        /\ \A all \in SUBSET Role : Updated(s, all) => Updated(t, all)
    BY DEF Stepped
  <1>2. CASE t.pending = s.pending /\ t.out = s.out /\ t.req = s.req
    BY <1>1, <1>2 DEF Local, AskingOnce, Asking, AnsweringOnce, Answering, Finished, Owing
  <1>3. CASE /\ s.req # 0 /\ s.todo = {} /\ t.req = 0 /\ t.out = s.out
             /\ t.pending = Append(s.pending, [type |-> "update_done", xid |-> s.req])
    <2> DEFINE e == [type |-> "update_done", xid |-> s.req]
               q == Append(s.pending, e)
    <2>1. e \in Entry /\ e.type = "update_done" /\ e.xid = s.req /\ s.pending \in Seq(Entry)
          /\ s.role \in Role /\ s.req \in 0..MaxXid
      BY DEF Entry, Session, Types
    <2>2. ~Has(s.pending, "update_done") /\ "update_done" \in PendingTypes(s.role)
      BY <1>3 DEF PendingTypes
    <2>3. QueueOk(s.role, q)
      BY <2>1, <2>2, QueuePushed
    <2> HIDE DEF e
    <2>4. /\ \A type : Has(q, type) <=> Has(s.pending, type) \/ e.type = type
          /\ \A types : Only(q, types) <=> Only(s.pending, types) /\ e.type \in types
          /\ \A type, x : Once(s.pending, type, x) /\ e.type # type => Once(q, type, x)
          /\ Once(q, "update_done", e.xid)
      BY <2>1, <2>2, MorePushed
    <2>5. t.pending = q
      BY <1>3 DEF e
    <2> HIDE DEF q
    <2>6. \A x : AskingOnce(s, x) => AskingOnce(t, x)
      BY <1>3, <2>1, <2>4, <2>5 DEF AskingOnce
    <2>7. Asking(t) => Asking(s)
      BY <1>3, <2>1, <2>4, <2>5 DEF Asking
    <2>8. \A x : AnsweringOnce(s, x) => AnsweringOnce(t, x)
      BY <1>3, <2>1, <2>2, <2>4, <2>5 DEF AnsweringOnce, Finished
    <2> QED BY <1>1, <1>3, <2>1, <2>2, <2>3, <2>4, <2>5, <2>6, <2>7, <2>8
            DEF Local, Answering, Finished, Owing
  <1>4. CASE /\ s.out = <<>> /\ s.req # 0 /\ t.pending = s.pending /\ t.req = s.req
             /\ \E m \in Message : t.out = <<m>> /\ m.type = "binding_update"
    <2>1. PICK m \in Message : t.out = <<m>> /\ m.type = "binding_update"
      BY <1>4
    <2>2. /\ \A type : Has(<<m>>, type) <=> m.type = type
          /\ \A type, x : Once(<<m>>, type, x) <=> (m.type = type => m.xid = x)
          /\ \A got : Acked(<<m>>, got)
      BY <2>1, OneMessage, AckedOne
    <2>3. Len(t.out) <= 1
      BY <2>1
    <2> QED BY <1>1, <1>4, <2>1, <2>2, <2>3
            DEF Local, AskingOnce, Asking, AnsweringOnce, Answering, Finished, Owing
  <1> QED BY <1>2, <1>3, <1>4 DEF Stepped

\* Taking the next pending message is local.
LEMMA PreparedLocal ==
  ASSUME NEW s \in Session, NEW t, Prepared(s, t), Len(s.out) <= 1,
         QueueOk(s.role, s.pending), s.req # 0 => ~Has(s.pending, "update_done")
  PROVE  Local(s, t)
  <1>1. /\ t \in Session /\ t.role = s.role /\ t.phase = s.phase /\ t.comm = s.comm
        /\ t.sync = s.sync /\ t.leases = s.leases /\ t.got = s.got /\ t.todo = s.todo
        /\ t.req = s.req
        /\ \A all \in SUBSET Role : Updated(s, all) => Updated(t, all)
    BY DEF Prepared
  <1>2. CASE t.pending = s.pending /\ t.out = s.out
    BY <1>1, <1>2 DEF Local, AskingOnce, Asking, AnsweringOnce, Answering, Finished, Owing
  <1>3. CASE /\ s.out = <<>> /\ s.pending # <<>> /\ t.pending = Tail(s.pending)
             /\ \E m \in Message : /\ t.out = <<m>> /\ m.type = Head(s.pending).type
                                   /\ m.xid = Head(s.pending).xid
    <2> DEFINE q == Tail(s.pending)
               h == Head(s.pending)
    <2>1. PICK m \in Message : t.out = <<m>> /\ m.type = h.type /\ m.xid = h.xid
      BY <1>3
    <2>2. /\ \A type : Has(<<m>>, type) <=> m.type = type
          /\ \A type : ~Has(<<>>, type)
          /\ \A types : Only(<<m>>, types) <=> m.type \in types
          /\ \A type, x : Once(<<m>>, type, x) <=> (m.type = type => m.xid = x)
      BY OneMessage
    <2>3. s.pending \in Seq(Entry) /\ Len(t.out) <= 1
      BY <2>1 DEF Session
    <2>4. /\ \A type : Has(s.pending, type) <=> Has(q, type) \/ h.type = type
          /\ \A types : Only(s.pending, types) => Only(q, types) /\ h.type \in types
          /\ \A type : Single(s.pending, type) =>
               Single(q, type) /\ (h.type = type => ~Has(q, type))
          /\ \A type, x : Once(s.pending, type, x) =>
               Once(q, type, x) /\ (h.type = type => h.xid = x /\ ~Has(q, type))
      BY <1>3, <2>3, MorePopped
    <2>5. h.type # "binding_ack"
      BY <2>4 DEF QueueOk, PendingTypes
    <2>6. t.pending = q
      BY <1>3
    <2>7. QueueOk(s.role, q)
      BY <2>4 DEF QueueOk
    <2>8. \A got : Acked(t.out, got)
      BY <2>1, <2>5, AckedOne
    <2> HIDE DEF q, h
    <2>9. \A x : AskingOnce(s, x) => AskingOnce(t, x)
      BY <1>3, <2>1, <2>2, <2>4, <2>6 DEF AskingOnce
    <2>10. Asking(t) => Asking(s)
      BY <2>1, <2>2, <2>4, <2>6 DEF Asking
    <2>11. Finished(t) => Finished(s)
      BY <2>1, <2>2, <2>4, <2>6 DEF Finished
    <2>12. \A x : AnsweringOnce(s, x) => AnsweringOnce(t, x)
      BY <1>1, <1>3, <2>1, <2>2, <2>4, <2>6, <2>11 DEF AnsweringOnce
    <2>13. Owing(t) => Owing(s)
      BY <1>1, <2>4, <2>6 DEF Owing
    <2>14. ~Has(s.pending, "connect_ack") /\ ~Has(s.out, "connect_ack") =>
             ~Has(t.pending, "connect_ack") /\ ~Has(t.out, "connect_ack")
      BY <2>1, <2>2, <2>4, <2>6
    <2>15. \A types : Only(s.pending, types) => Only(t.pending, types) /\ Only(t.out, types)
      BY <2>1, <2>2, <2>4, <2>6
    <2>16. /\ t.req # 0 => ~Has(t.pending, "update_done")
           /\ Has(t.pending, "update_request_all") => Has(s.pending, "update_request_all")
      BY <1>1, <2>4, <2>6
    <2> QED BY <1>1, <2>3, <2>6, <2>7, <2>8, <2>9, <2>10, <2>11, <2>12, <2>13, <2>14,
               <2>15, <2>16 DEF Local, Answering
  <1> QED BY <1>2, <1>3 DEF Prepared

----------------------------------------------------------------------------
(***************************************************************************)
(* Steps of the two servers.                                               *)
(***************************************************************************)

\* The bindings the servers start with are named after the servers.
LEMMA InitialRange ==
  /\ InitialLeases["primary"] \in SUBSET Role
  /\ InitialLeases["secondary"] \in SUBSET Role
  /\ \A r \in Role : InitialLeases[r] \in SUBSET Role
  BY DEF InitialLeases, Role

\* A local step of the server that asks.
LEMMA LocalAsker ==
  ASSUME NEW s, NEW t, NEW p, NEW there, NEW back, NEW joined, NEW all, Local(s, t),
         Request(s, p, there, back, joined, all)
  PROVE  Request(t, p, there, back, joined, all)
  <1>1. SUFFICES ASSUME t.phase \in Talking PROVE Request(t, p, there, back, joined, all)
    BY DEF Request
  <1>2. s.phase \in Talking
    BY <1>1 DEF Local, Talking
  <1> QED BY <1>1, <1>2 DEF Request, Local, OneRequest, Transferred

\* A local step of the server that answers.
LEMMA LocalAnswerer ==
  ASSUME NEW s, NEW p, NEW q, NEW there, NEW back, NEW joined, NEW all, Local(p, q),
         Request(s, p, there, back, joined, all)
  PROVE  Request(s, q, there, back, joined, all)
  <1>1. OneRequest(s, p, there, back) => OneRequest(s, q, there, back)
    BY DEF OneRequest, Local
  <1>2. ASSUME Transferred(s, p, there, back, all), AnsweringOnce(p, s.sync)
        PROVE  Transferred(s, q, there, back, all)
    <2>1. q.req # 0 => p.req # 0 /\ q.todo = p.todo
      BY DEF Local
    <2>2. Finished(q) => all \subseteq s.got
      BY <1>2 DEF Local, Transferred
    <2> QED BY <1>2, <2>1, <2>2 DEF Transferred
  <1> QED BY <1>1, <1>2 DEF Request, OneRequest

\* A local step leaves the queue in order.
LEMMA LocalQueue ==
  ASSUME NEW s, NEW t, NEW p, NEW back, NEW joined, NEW waiting, Local(s, t),
         Queue(s, p, back, joined, waiting)
  PROVE  Queue(t, p, back, joined, waiting)
  BY DEF Local, Queue, Talking

\* A local step of the partner.
LEMMA LocalPartner ==
  ASSUME NEW s, NEW p, NEW q, NEW back, NEW joined, NEW waiting, Local(p, q),
         Queue(s, p, back, joined, waiting)
  PROVE  Queue(s, q, back, joined, waiting)
  BY DEF Local, Queue

\* What holds of one server by itself is kept by its local steps.
LEMMA LocalAlone ==
  ASSUME NEW s, NEW t, NEW r \in Role, NEW all \in SUBSET Role, Local(s, t),
         Alone(s, r, all)
  PROVE  Alone(t, r, all)
  <1>1. t.phase # (IF r = "primary" THEN "awaiting_connect" ELSE "awaiting_connect_ack")
    BY DEF Local, Alone
  <1>2. t \in Session /\ t.role = r /\ Len(t.out) <= 1 /\ t.leases = s.leases
    BY DEF Local, Alone
  <1>3. t.comm => t.phase \in Talking
    BY DEF Local, Alone
  <1> QED BY <1>1, <1>2, <1>3 DEF Local, Alone

\* A local step of the primary.
LEMMA LocalMain ==
  ASSUME NEW m, NEW p, NEW mq, NEW pq, NEW joined, NEW waiting, NEW t,
         Core(m, p, mq, pq, joined, waiting), Local(m, t)
  PROVE  Core(t, p, mq, pq, joined, waiting)
  <1>1. Alone(t, "primary", InitialLeases["secondary"])
    BY InitialRange, LocalAlone DEF Core, Role
  <1>2. Begin(t, p, mq, pq, joined, waiting)
    <2>1. "contact" \in Opening
      BY DEF Opening
    <2>2. m.req = 0 => t.req = 0
      BY DEF Local
    <2>3. m.req = 0 /\ Only(m.pending, Opening) =>
            Only(t.pending, Opening) /\ (Only(m.out, Opening) => Only(t.out, Opening))
      BY <2>1 DEF Local
    <2>4. t.phase = m.phase \/ t.phase = "disconnected"
      BY DEF Local
    <2>5. Begin(m, p, mq, pq, joined, waiting)
      BY DEF Core
    <2>6. Early(t, p, waiting) => Early(m, p, waiting)
      BY <2>4 DEF Early
    <2> QED BY <2>2, <2>3, <2>4, <2>5, <2>6 DEF Begin, Gone, Talking
  <1> QED BY <1>1, <1>2, LocalAsker, LocalAnswerer, LocalQueue, LocalPartner DEF Core

\* A local step of the secondary.
LEMMA LocalPeer ==
  ASSUME NEW m, NEW p, NEW mq, NEW pq, NEW joined, NEW waiting, NEW t,
         Core(m, p, mq, pq, joined, waiting), Local(p, t)
  PROVE  Core(m, t, mq, pq, joined, waiting)
  <1>1. Alone(t, "secondary", InitialLeases["primary"])
    BY InitialRange, LocalAlone DEF Core, Role
  <1>4. t.phase = p.phase \/ t.phase = "disconnected"
    BY DEF Local
  <1>2. Begin(m, t, mq, pq, joined, waiting)
    <2>2. p.req = 0 => t.req = 0
      BY DEF Local
    <2>3. p.req = 0 /\ Only(p.pending, {"contact"}) =>
            /\ Only(t.pending, {"contact"})
            /\ Only(p.out, {"contact"}) => Only(t.out, {"contact"})
      BY DEF Local
    <2>5. Begin(m, p, mq, pq, joined, waiting)
      BY DEF Core
    <2>6. /\ Early(m, t, waiting) => Early(m, p, waiting)
          /\ Waiting(t, waiting) => Waiting(p, waiting)
      BY <1>4 DEF Early, Waiting
    <2>7. Stale(p, mq, pq, waiting) => Stale(t, mq, pq, waiting)
      BY <1>4 DEF Stale, Local, Talking
    <2>8. Answering(t) => Answering(p)
      BY DEF Local
    <2> QED BY <1>4, <2>2, <2>3, <2>5, <2>6, <2>7, <2>8 DEF Begin
  <1> QED BY <1>1, <1>2, <1>4, LocalAsker, LocalAnswerer, LocalQueue, LocalPartner DEF Core

\* TCP takes the message that s had to write.
Written(s, e, t) ==
  /\ s.out = <<e>> /\ e \in Message
  /\ t \in Session /\ t.out = <<>>
  /\ t.role = s.role /\ t.phase = s.phase /\ t.pending = s.pending /\ t.comm = s.comm
  /\ t.sync = s.sync /\ t.req = s.req /\ t.todo = s.todo
  /\ t.leases = s.leases /\ t.got = s.got
  /\ \A all : Updated(s, all) => Updated(t, all)

\* The queues of a server that has written.
LEMMA WrittenQueues ==
  ASSUME NEW s, NEW e, NEW t, Written(s, e, t)
  PROVE  /\ \A type : Has(s.out, type) <=> e.type = type
         /\ \A type : ~Has(t.out, type)
         /\ \A type, x : Once(s.out, type, x) <=> (e.type = type => e.xid = x)
         /\ \A type, x : Once(t.out, type, x)
         /\ \A types : Only(s.out, types) <=> e.type \in types
         /\ \A types : Only(t.out, types)
         /\ \A got : Acked(s.out, got) <=> (e.type = "binding_ack" => e.lease \in got)
         /\ \A got : Acked(t.out, got)
  BY OneMessage, AckedOne DEF Written

\* The server that asks writes: its request may go on its way.
LEMMA WrittenAsker ==
  ASSUME NEW s, NEW e, NEW t, NEW p, NEW there \in Seq(Message), NEW back, NEW all,
         Written(s, e, t), Request(s, p, there, back, TRUE, all)
  PROVE  Request(t, p, Append(there, e), back, TRUE, all)
  <1> DEFINE u == Append(there, e)
  <1>1. /\ \A type : Has(s.out, type) <=> e.type = type
        /\ \A type : ~Has(t.out, type)
        /\ \A type, x : Once(s.out, type, x) <=> (e.type = type => e.xid = x)
        /\ \A type, x : Once(t.out, type, x)
        /\ \A got : Acked(s.out, got) <=> (e.type = "binding_ack" => e.lease \in got)
        /\ \A got : Acked(t.out, got)
    BY WrittenQueues
  <1>2. /\ \A type : Has(u, type) <=> Has(there, type) \/ e.type = type
        /\ \A type, x : Once(there, type, x) /\ e.type # type => Once(u, type, x)
        /\ \A type : ~Has(there, type) /\ e.type = type => Once(u, type, e.xid)
    BY MorePushed DEF Written
  <1>3. \A got : Acked(there, got) /\ Acked(s.out, got) => Acked(u, got)
    BY <1>1, AckedPushed DEF Written
  <1> HIDE DEF u
  <1>4. /\ \A x : AskingOnce(s, x) => AskingOnce(t, x)
        /\ Asking(t) => Asking(s)
        /\ e.type = "update_request_all" => Asking(s)
        /\ \A x : e.type = "update_request_all" /\ AskingOnce(s, x) => ~Asking(t) /\ e.xid = x
    BY <1>1 DEF AskingOnce, Asking, Written
  <1>5. t.sync = s.sync /\ t.phase = s.phase /\ t.got = s.got
    BY DEF Written
  <1>6. OneRequest(s, p, there, back) => OneRequest(t, p, u, back)
    BY <1>2, <1>4, <1>5 DEF OneRequest
  <1>7. Transferred(s, p, there, back, all) => Transferred(t, p, u, back, all)
    BY <1>1, <1>3, <1>5 DEF Transferred
  <1>8. Request(t, p, u, back, TRUE, all)
    BY <1>4, <1>5, <1>6, <1>7 DEF Request
  <1> QED BY <1>8 DEF u

\* The server that answers writes: its answer may go on its way back.
LEMMA WrittenAnswerer ==
  ASSUME NEW s, NEW p, NEW e, NEW q, NEW there, NEW back \in Seq(Message), NEW all,
         Written(p, e, q), Request(s, p, there, back, TRUE, all)
  PROVE  Request(s, q, there, Append(back, e), TRUE, all)
  <1> DEFINE u == Append(back, e)
  <1>1. /\ \A type : Has(p.out, type) <=> e.type = type
        /\ \A type : ~Has(q.out, type)
        /\ \A type, x : Once(p.out, type, x) <=> (e.type = type => e.xid = x)
        /\ \A type, x : Once(q.out, type, x)
    BY WrittenQueues
  <1>2. /\ \A type : Has(u, type) <=> Has(back, type) \/ e.type = type
        /\ \A type, x : Once(back, type, x) /\ e.type # type => Once(u, type, x)
        /\ \A type : ~Has(back, type) /\ e.type = type => Once(u, type, e.xid)
    BY MorePushed DEF Written
  <1> HIDE DEF u
  <1>3. q.req = p.req /\ q.todo = p.todo /\ q.pending = p.pending
    BY DEF Written
  <1>4. /\ \A x : AnsweringOnce(p, x) => AnsweringOnce(q, x)
        /\ Answering(q) => Answering(p)
        /\ e.type = "update_done" => Answering(p) /\ Finished(p)
        /\ Finished(q) => Finished(p)
        /\ \A x : e.type = "update_done" /\ AnsweringOnce(p, x) => ~Answering(q) /\ e.xid = x
    BY <1>1, <1>3 DEF AnsweringOnce, Answering, Finished
  <1>5. OneRequest(s, p, there, back) => OneRequest(s, q, there, u)
    BY <1>2, <1>4 DEF OneRequest
  <1>6. Transferred(s, p, there, back, all) => Transferred(s, q, there, u, all)
    BY <1>2, <1>3, <1>4 DEF Transferred
  <1>7. ASSUME s.phase \in Talking PROVE Request(s, q, there, u, TRUE, all)
    <2>1. OneRequest(s, q, there, u) /\ Transferred(s, q, there, u, all)
      BY <1>5, <1>6, <1>7 DEF Request
    <2> QED BY <2>1 DEF Request, OneRequest, Transferred
  <1>8. Request(s, q, there, u, TRUE, all)
    BY <1>7 DEF Request
  <1> QED BY <1>8 DEF u

\* Writing leaves the queue of pending messages as it is.
LEMMA WrittenQueue ==
  ASSUME NEW s, NEW e, NEW t, NEW p, NEW back, NEW joined, NEW waiting,
         Written(s, e, t), Queue(s, p, back, joined, waiting)
  PROVE  Queue(t, p, back, joined, waiting)
  BY DEF Written, Queue, Owing

\* The partner writes: its request is the only one on its way.
LEMMA WrittenPartner ==
  ASSUME NEW s, NEW p, NEW e, NEW q, NEW back \in Seq(Message), NEW waiting,
         Written(p, e, q), Queue(s, p, back, TRUE, waiting),
         waiting => s.phase = "disconnected",
         ~(Has(p.pending, "update_request_all") /\ Has(p.out, "update_request_all"))
  PROVE  Queue(s, q, Append(back, e), TRUE, waiting)
  <1> DEFINE u == Append(back, e)
  <1>1. /\ \A type : Has(p.out, type) <=> e.type = type
        /\ \A type : ~Has(q.out, type)
    BY WrittenQueues
  <1>2. /\ \A type : Has(u, type) <=> Has(back, type) \/ e.type = type
        /\ \A type : Single(back, type) /\ ~(Has(back, type) /\ e.type = type) =>
             Single(u, type)
    BY MorePushed DEF Written
  <1> HIDE DEF u
  <1>3. /\ Asking(q) => Asking(p) /\ e.type # "update_request_all"
        /\ e.type = "update_request_all" => Asking(p)
    BY <1>1 DEF Asking, Written
  <1>4. Queue(s, q, u, TRUE, waiting)
    BY <1>2, <1>3 DEF Queue, Talking
  <1> QED BY <1>4 DEF u

\* What a server has to ask it has to ask once.
LEMMA AskedOnce ==
  ASSUME NEW s, NEW p, NEW there, NEW back, NEW joined, NEW all, NEW waiting,
         Request(s, p, there, back, joined, all), Queue(s, p, back, joined, waiting)
  PROVE  ~(Has(s.pending, "update_request_all") /\ Has(s.out, "update_request_all"))
  BY DEF Request, Queue, AskingOnce

\* What holds of one server by itself is kept when it writes.
LEMMA WrittenAlone ==
  ASSUME NEW s, NEW e, NEW t, NEW r, NEW all, Written(s, e, t), Alone(s, r, all)
  PROVE  Alone(t, r, all)
  <1>1. Len(t.out) <= 1
    BY DEF Written
  <1> QED BY <1>1 DEF Written, Alone

\* The primary writes.
LEMMA WrittenMain ==
  ASSUME NEW m, NEW p, NEW mq, NEW pq, NEW waiting, NEW e, NEW t,
         Core(m, p, mq, pq, TRUE, waiting), Written(m, e, t)
  PROVE  Core(t, p, mq, Append(pq, e), TRUE, waiting)
  <1> DEFINE u == Append(pq, e)
  <1>1. Alone(t, "primary", InitialLeases["secondary"])
    BY WrittenAlone DEF Core
  <1>2. pq \in Seq(Message) /\ e \in Message
    BY DEF Core, Written
  <1>3. /\ u \in Seq(Message) /\ u # <<>>
        /\ pq # <<>> => Head(u) = Head(pq)
        /\ pq = <<>> => Head(u) = e
        /\ \A types : Only(u, types) <=> Only(pq, types) /\ e.type \in types
    <2>1. pq = <<>> => u = <<e>>
      BY <1>2, MorePushed
    <2>2. Head(<<e>>) = e
      OBVIOUS
    <2> QED BY <1>2, <2>1, <2>2, MorePushed
  <1>4. /\ Request(t, p, u, mq, TRUE, InitialLeases["secondary"])
        /\ Request(p, t, mq, u, TRUE, InitialLeases["primary"])
    BY <1>2, WrittenAsker, WrittenAnswerer DEF Core
  <1>5. ~(Has(m.pending, "update_request_all") /\ Has(m.out, "update_request_all"))
    BY AskedOnce DEF Core
  <1>6. Queue(t, p, mq, TRUE, waiting) /\ Queue(p, t, u, TRUE, waiting)
    BY <1>2, <1>5, WrittenQueue, WrittenPartner DEF Core
  <1> HIDE DEF u
  <1>7. Begin(t, p, mq, u, TRUE, waiting)
    <2>1. Begin(m, p, mq, pq, TRUE, waiting)
      BY DEF Core
    <2>2. /\ t.phase = m.phase /\ t.req = m.req /\ t.pending = m.pending
          /\ \A types : Only(m.out, types) <=> e.type \in types
          /\ \A types : Only(t.out, types)
      <3>1. t.phase = m.phase /\ t.req = m.req /\ t.pending = m.pending
        BY DEF Written
      <3> QED BY <3>1, WrittenQueues
    <2>3. Early(t, p, waiting) <=> Early(m, p, waiting)
      BY <2>2 DEF Early
    <2>4. Gone(m, pq) => Gone(t, u)
      BY <1>3, <2>2 DEF Gone
    <2>5. Only(pq, Opening) /\ e.type = "connect" => Gone(t, u)
      BY <1>3, <2>2 DEF Gone, Opening
    <2>6. pq = <<>> => Only(pq, Opening)
      BY OneMessage
    <2>7. Stale(p, mq, pq, waiting) => Gone(t, u) \/ Stale(p, mq, u, waiting)
      BY <1>3, <2>5, <2>6 DEF Stale
    <2>8. ASSUME Waiting(p, waiting) PROVE Only(u, Opening) \/ Head(u).type # "connect"
      <3>1. Gone(m, pq) \/ Stale(p, mq, pq, waiting)
        BY <2>1, <2>8 DEF Begin, Early
      <3>2. CASE Gone(m, pq)
        BY <2>4, <3>2 DEF Gone
      <3>3. CASE Stale(p, mq, pq, waiting)
        BY <2>7, <3>3, <1>3 DEF Gone, Stale
      <3> QED BY <3>1, <3>2, <3>3
    <2> QED BY <2>1, <2>2, <2>3, <2>4, <2>7, <2>8 DEF Begin
  <1>8. Core(t, p, mq, u, TRUE, waiting)
    BY <1>1, <1>3, <1>4, <1>6, <1>7 DEF Core
  <1> QED BY <1>8 DEF u

\* The secondary writes.
LEMMA WrittenPeer ==
  ASSUME NEW m, NEW p, NEW mq, NEW pq, NEW e, NEW t,
         Core(m, p, mq, pq, TRUE, FALSE), Written(p, e, t)
  PROVE  Core(m, t, Append(mq, e), pq, TRUE, FALSE)
  <1> DEFINE u == Append(mq, e)
  <1>1. Alone(t, "secondary", InitialLeases["primary"])
    BY WrittenAlone DEF Core
  <1>2. mq \in Seq(Message) /\ e \in Message
    BY DEF Core, Written
  <1>3. /\ u \in Seq(Message)
        /\ \A type : Has(u, type) <=> Has(mq, type) \/ e.type = type
        /\ \A types : Only(u, types) <=> Only(mq, types) /\ e.type \in types
    BY <1>2, MorePushed
  <1>4. /\ Request(m, t, pq, u, TRUE, InitialLeases["secondary"])
        /\ Request(t, m, u, pq, TRUE, InitialLeases["primary"])
    BY <1>2, WrittenAsker, WrittenAnswerer DEF Core
  <1>5. ~(Has(p.pending, "update_request_all") /\ Has(p.out, "update_request_all"))
    BY AskedOnce DEF Core
  <1>6. Queue(t, m, pq, TRUE, FALSE) /\ Queue(m, t, u, TRUE, FALSE)
    BY <1>2, <1>5, WrittenQueue, WrittenPartner DEF Core
  <1> HIDE DEF u
  <1>7. Begin(m, t, u, pq, TRUE, FALSE)
    <2>1. Begin(m, p, mq, pq, TRUE, FALSE)
      BY DEF Core
    <2>2. /\ t.phase = p.phase /\ t.req = p.req /\ t.pending = p.pending
          /\ \A types : Only(p.out, types) <=> e.type \in types
          /\ \A types : Only(t.out, types)
          /\ \A type : Has(p.out, type) <=> e.type = type
          /\ \A type : ~Has(t.out, type)
      <3>1. t.phase = p.phase /\ t.req = p.req /\ t.pending = p.pending
        BY DEF Written
      <3> QED BY <3>1, WrittenQueues
    <2>3. /\ Early(m, t, FALSE) <=> Early(m, p, FALSE)
          /\ Waiting(t, FALSE) <=> Waiting(p, FALSE)
      BY <2>2 DEF Early, Waiting
    <2>4. Stale(p, mq, pq, FALSE) => Stale(t, u, pq, FALSE)
      BY <1>3, <2>2 DEF Stale
    <2>5. /\ Answering(t) => Answering(p)
          /\ ~Answering(p) => e.type # "update_done"
      BY <2>2 DEF Answering, Finished
    <2>6. m.phase = "awaiting_connect_ack" => ~Has(u, "update_done")
      BY <1>3, <2>1, <2>5 DEF Begin, Early
    <2>7. p.phase = "awaiting_connect" => e.type = "contact"
      BY <2>1, <2>2 DEF Begin
    <2> QED BY <1>3, <2>1, <2>2, <2>3, <2>4, <2>5, <2>6, <2>7 DEF Begin, Waiting
  <1>8. Core(m, t, u, pq, TRUE, FALSE)
    BY <1>1, <1>3, <1>4, <1>6, <1>7 DEF Core
  <1> QED BY <1>8 DEF u

\* An accepted message and what its reader asks for: nothing changes, or the
\* reader has a request to make, or its request was answered.
LEMMA EffectAsking ==
  ASSUME NEW s \in Session, NEW e \in Message, NEW t, Effect(s, e, t)
  PROVE  /\ s.got \subseteq t.got /\ s.leases \subseteq t.leases
         /\ Acked(s.out, s.got) => Acked(t.out, t.got)
         /\ Len(s.out) <= 1 => Len(t.out) <= 1
         /\ \/ /\ t.sync = s.sync /\ e.type # "update_done"
               /\ Asking(t) => Asking(s)
               /\ \A x : AskingOnce(s, x) => AskingOnce(t, x)
            \/ /\ e.type = "state" /\ s.sync = 0 /\ t.sync # 0 /\ t.got = s.got
               /\ ~Asking(s) => AskingOnce(t, t.sync)
            \/ /\ e.type = "update_done" /\ e.xid = s.sync /\ t.sync = 0 /\ t.got = s.got
               /\ Asking(t) => Asking(s)
  <1>1. CASE /\ t.pending = s.pending /\ t.out = s.out /\ t.leases = s.leases
             /\ t.got = s.got /\ t.sync = s.sync /\ e.type # "update_done"
    BY <1>1 DEF Asking, AskingOnce
  <1>2. CASE /\ e.type = "state" /\ s.sync = 0 /\ t.sync # 0
             /\ t.pending = Append(s.pending,
                                   [type |-> "update_request_all", xid |-> t.sync])
             /\ t.out = s.out
             /\ t.req = s.req /\ t.todo = s.todo /\ t.leases = s.leases /\ t.got = s.got
    <2> DEFINE c == [type |-> "update_request_all", xid |-> t.sync]
               q == Append(s.pending, c)
    <2>1. c \in Entry /\ c.type = "update_request_all" /\ c.xid = t.sync
          /\ s.pending \in Seq(Entry)
      BY DEF Effect, Entry, Session, Types
    <2> HIDE DEF c
    <2>2. ~Has(s.pending, "update_request_all") => Once(q, "update_request_all", t.sync)
      BY <2>1, MorePushed
    <2>3. t.pending = q
      BY <1>2 DEF c
    <2> HIDE DEF q
    <2>4. ~Asking(s) => AskingOnce(t, t.sync)
      BY <1>2, <2>2, <2>3, AbsentOnce DEF Asking, AskingOnce
    <2> QED BY <1>2, <2>4
  <1>3. CASE /\ e.type = "update_done" /\ e.xid = s.sync /\ t.sync = 0
             /\ t.pending = s.pending /\ t.out = s.out
             /\ t.leases = s.leases /\ t.got = s.got
    BY <1>3 DEF Asking
  <1>4. CASE /\ e.type = "binding_update"
             /\ t.leases = s.leases \union {e.lease} /\ t.got = s.got \union {e.lease}
             /\ t.out = <<[e EXCEPT !.type = "binding_ack"]>>
             /\ t.pending = s.pending /\ t.sync = s.sync
    <2> DEFINE a == [e EXCEPT !.type = "binding_ack"]
    <2>1. a.type = "binding_ack" /\ a.lease = e.lease
      BY DEF Message
    <2>2. t.out = <<a>> /\ Len(t.out) <= 1
      BY <1>4
    <2> HIDE DEF a
    <2>3. /\ ~Has(t.out, "update_request_all")
          /\ \A x : Once(t.out, "update_request_all", x)
          /\ Acked(t.out, t.got)
      BY <1>4, <2>1, <2>2, OneMessage, AckedOne
    <2> QED BY <1>4, <2>2, <2>3 DEF Asking, AskingOnce
  <1> QED BY <1>1, <1>2, <1>3, <1>4 DEF Effect

\* An accepted message and what its reader has to answer: nothing is added,
\* or the message is the request.
LEMMA EffectAnswering ==
  ASSUME NEW s \in Session, NEW e \in Message, NEW t, Effect(s, e, t)
  PROVE  \/ /\ e.type # "update_request_all" /\ t.req = s.req
            /\ t.todo = s.todo \/ (e.type = "binding_ack" /\ t.todo = s.todo \ {e.lease})
            /\ Answering(t) => Answering(s)
            /\ Finished(t) => Finished(s)
            /\ \A x : AnsweringOnce(s, x) => AnsweringOnce(t, x)
            /\ Has(t.pending, "update_done") <=> Has(s.pending, "update_done")
         \/ /\ e.type = "update_request_all" /\ s.req = 0
            /\ t.req = e.xid /\ t.todo = s.leases
            /\ t.pending = s.pending /\ t.out = s.out
  <1>1. CASE /\ t.pending = s.pending /\ t.out = s.out /\ t.req = s.req /\ t.todo = s.todo
             /\ e.type # "update_request_all"
    BY <1>1 DEF Answering, Finished, AnsweringOnce
  <1>2. CASE /\ e.type = "state" /\ s.sync = 0 /\ t.sync # 0
             /\ t.pending = Append(s.pending,
                                   [type |-> "update_request_all", xid |-> t.sync])
             /\ t.out = s.out
             /\ t.req = s.req /\ t.todo = s.todo /\ t.leases = s.leases /\ t.got = s.got
    <2> DEFINE c == [type |-> "update_request_all", xid |-> t.sync]
               q == Append(s.pending, c)
    <2>1. c \in Entry /\ c.type = "update_request_all" /\ s.pending \in Seq(Entry)
      BY DEF Effect, Entry, Session, Types
    <2> HIDE DEF c
    <2>2. /\ Has(q, "update_done") <=> Has(s.pending, "update_done")
          /\ \A x : Once(s.pending, "update_done", x) => Once(q, "update_done", x)
      BY <2>1, MorePushed
    <2>3. t.pending = q
      BY <1>2 DEF c
    <2> HIDE DEF q
    <2> QED BY <1>2, <2>2, <2>3 DEF Answering, Finished, AnsweringOnce
  <1>3. CASE /\ e.type = "binding_ack" /\ t.todo = s.todo \ {e.lease}
             /\ t.pending = s.pending /\ t.out = s.out /\ t.req = s.req
    BY <1>3 DEF Answering, Finished, AnsweringOnce
  <1>4. CASE /\ e.type = "binding_update"
             /\ t.out = <<[e EXCEPT !.type = "binding_ack"]>>
             /\ t.pending = s.pending /\ t.req = s.req /\ t.todo = s.todo
    <2> DEFINE a == [e EXCEPT !.type = "binding_ack"]
    <2>1. a.type = "binding_ack"
      BY DEF Message
    <2>2. t.out = <<a>>
      BY <1>4
    <2> HIDE DEF a
    <2>3. /\ ~Has(t.out, "update_done")
          /\ \A x : Once(t.out, "update_done", x)
      BY <2>1, <2>2, OneMessage
    <2> QED BY <1>4, <2>3 DEF Answering, Finished, AnsweringOnce
  <1> QED BY <1>1, <1>2, <1>3, <1>4 DEF Effect

\* The server that asks reads.
LEMMA EffectAsker ==
  ASSUME NEW s \in Session, NEW t, NEW p, NEW there, NEW back \in Seq(Message),
         NEW joined, NEW all, s.phase \in Talking, back # <<>>,
         Effect(s, Head(back), t), Request(s, p, there, back, joined, all)
  PROVE  Request(t, p, there, Tail(back), joined, all)
  <1> DEFINE e == Head(back)
             u == Tail(back)
  <1>1. /\ e \in Message
        /\ \A type : Has(back, type) <=> Has(u, type) \/ e.type = type
        /\ \A type, x : Once(back, type, x) =>
             Once(u, type, x) /\ (e.type = type => e.xid = x /\ ~Has(u, type))
    BY MorePopped
  <1> HIDE DEF e, u
  <1>2. /\ s.got \subseteq t.got
        /\ Acked(s.out, s.got) => Acked(t.out, t.got)
        /\ \/ /\ t.sync = s.sync /\ e.type # "update_done"
              /\ Asking(t) => Asking(s)
              /\ \A x : AskingOnce(s, x) => AskingOnce(t, x)
           \/ /\ e.type = "state" /\ s.sync = 0 /\ t.sync # 0 /\ t.got = s.got
              /\ ~Asking(s) => AskingOnce(t, t.sync)
           \/ /\ e.type = "update_done" /\ e.xid = s.sync /\ t.sync = 0 /\ t.got = s.got
              /\ Asking(t) => Asking(s)
    BY <1>1, EffectAsking DEF e
  <1>3. Acked(there, s.got) => Acked(there, t.got)
    BY <1>2, AckedMore
  <1>4. /\ AskingOnce(s, s.sync)
        /\ Asking(s) => s.sync # 0 /\ ~Has(back, "update_done")
        /\ Once(back, "update_done", s.sync)
        /\ Has(back, "update_done") => s.sync # 0 /\ all \subseteq s.got
        /\ joined => /\ OneRequest(s, p, there, back)
                     /\ Transferred(s, p, there, back, all)
    BY DEF Request
  <1>5. joined => Transferred(t, p, there, u, all)
    BY <1>1, <1>2, <1>3, <1>4 DEF Transferred
  <1>6. CASE /\ t.sync = s.sync /\ e.type # "update_done"
             /\ Asking(t) => Asking(s)
             /\ \A x : AskingOnce(s, x) => AskingOnce(t, x)
    <2>1. joined => OneRequest(t, p, there, u)
      BY <1>1, <1>4, <1>6 DEF OneRequest
    <2> QED BY <1>1, <1>2, <1>4, <1>5, <1>6, <2>1 DEF Request, u
  <1>7. ASSUME ~Asking(t) \/ (~Asking(s) /\ AskingOnce(t, t.sync) /\ t.sync # 0),
               ~Has(u, "update_done"),
               joined => /\ ~Has(there, "update_request_all")
                         /\ ~Answering(p) /\ AnsweringOnce(p, s.sync)
        PROVE  Request(t, p, there, u, joined, all)
    <2>1. AskingOnce(t, t.sync) /\ (Asking(t) => t.sync # 0)
      BY <1>7, AbsentOnce DEF Asking, AskingOnce
    <2>2. Once(u, "update_done", t.sync)
      BY <1>7, AbsentOnce
    <2>3. joined => AnsweringOnce(p, t.sync)
      <3>1. joined => p.req = 0 /\ ~Has(p.pending, "update_done") /\ ~Has(p.out, "update_done")
        BY <1>7 DEF Answering, Finished
      <3> QED BY <3>1, AbsentOnce DEF AnsweringOnce
    <2>4. joined => Once(there, "update_request_all", t.sync)
      BY <1>7, AbsentOnce
    <2>5. joined => OneRequest(t, p, there, u)
      BY <1>7, <2>1, <2>2, <2>3, <2>4 DEF OneRequest
    <2> QED BY <1>5, <1>7, <2>1, <2>2, <2>5 DEF Request
  <1>8. CASE /\ e.type = "state" /\ s.sync = 0 /\ t.sync # 0 /\ t.got = s.got
             /\ ~Asking(s) => AskingOnce(t, t.sync)
    <2>1. ~Asking(s) /\ ~Has(u, "update_done")
      BY <1>1, <1>4, <1>8
    <2>2. joined => /\ ~Has(there, "update_request_all")
                    /\ ~Answering(p) /\ AnsweringOnce(p, s.sync)
      BY <1>4, <1>8 DEF OneRequest
    <2> QED BY <1>7, <1>8, <2>1, <2>2 DEF u
  <1>9. CASE /\ e.type = "update_done" /\ e.xid = s.sync /\ t.sync = 0 /\ t.got = s.got
             /\ Asking(t) => Asking(s)
    <2>1. ~Asking(t) /\ ~Has(u, "update_done")
      BY <1>1, <1>4, <1>9
    <2>2. joined => /\ ~Has(there, "update_request_all")
                    /\ ~Answering(p) /\ AnsweringOnce(p, s.sync)
      BY <1>1, <1>4, <1>9 DEF OneRequest
    <2> QED BY <1>7, <2>1, <2>2 DEF u
  <1> QED BY <1>2, <1>6, <1>8, <1>9

\* The server that answers reads.
LEMMA EffectAnswerer ==
  ASSUME NEW s, NEW p \in Session, NEW q, NEW there \in Seq(Message), NEW back,
         NEW joined, NEW all, there # <<>>, all \subseteq p.leases,
         Effect(p, Head(there), q), Request(s, p, there, back, joined, all)
  PROVE  Request(s, q, Tail(there), back, joined, all)
  <1> DEFINE e == Head(there)
             u == Tail(there)
  <1>1. /\ e \in Message
        /\ \A type : Has(there, type) <=> Has(u, type) \/ e.type = type
        /\ \A type, x : Once(there, type, x) =>
             Once(u, type, x) /\ (e.type = type => e.xid = x /\ ~Has(u, type))
    BY MorePopped
  <1>2. Acked(there, s.got) =>
          Acked(u, s.got) /\ (e.type = "binding_ack" => e.lease \in s.got)
    BY AckedPopped
  <1> HIDE DEF e, u
  <1>3. \/ /\ e.type # "update_request_all" /\ q.req = p.req
           /\ q.todo = p.todo \/ (e.type = "binding_ack" /\ q.todo = p.todo \ {e.lease})
           /\ Answering(q) => Answering(p)
           /\ Finished(q) => Finished(p)
           /\ \A x : AnsweringOnce(p, x) => AnsweringOnce(q, x)
        \/ /\ e.type = "update_request_all" /\ p.req = 0
           /\ q.req = e.xid /\ q.todo = p.leases
           /\ q.pending = p.pending /\ q.out = p.out
    BY <1>1, EffectAnswering DEF e
  <1>4. ASSUME OneRequest(s, p, there, back) PROVE OneRequest(s, q, u, back)
    <2>1. CASE /\ e.type # "update_request_all"
               /\ Answering(q) => Answering(p)
               /\ \A x : AnsweringOnce(p, x) => AnsweringOnce(q, x)
      BY <1>1, <1>4, <2>1 DEF OneRequest
    <2>2. CASE /\ e.type = "update_request_all" /\ p.req = 0
               /\ q.req = e.xid /\ q.pending = p.pending /\ q.out = p.out
      <3>1. AnsweringOnce(q, s.sync)
        BY <1>1, <1>4, <2>2 DEF OneRequest, AnsweringOnce, Answering, Finished
      <3> QED BY <1>1, <1>4, <2>2, <3>1 DEF OneRequest
    <2> QED BY <1>3, <2>1, <2>2
  <1>5. ASSUME Transferred(s, p, there, back, all) PROVE Transferred(s, q, u, back, all)
    <2>1. q.req # 0 => all \subseteq s.got \union q.todo
      BY <1>2, <1>3, <1>5 DEF Transferred
    <2>2. Finished(q) => Finished(p)
      BY <1>3 DEF Finished
    <2> QED BY <1>2, <1>5, <2>1, <2>2 DEF Transferred
  <1>6. Request(s, q, u, back, joined, all)
    BY <1>4, <1>5 DEF Request
  <1> QED BY <1>6 DEF u

\* Reading leaves the queue in order.
LEMMA EffectQueue ==
  ASSUME NEW s \in Session, NEW t, NEW p, NEW there, NEW back \in Seq(Message),
         NEW joined, NEW all, s.phase \in Talking, back # <<>>,
         Effect(s, Head(back), t), Request(s, p, there, back, joined, all),
         Queue(s, p, back, joined, FALSE)
  PROVE  Queue(t, p, Tail(back), joined, FALSE)
  <1> DEFINE e == Head(back)
             u == Tail(back)
  <1>1. /\ e \in Message
        /\ \A type : Has(back, type) <=> Has(u, type) \/ e.type = type
        /\ \A type : Single(back, type) =>
             Single(u, type) /\ (e.type = type => ~Has(u, type))
    BY MorePopped
  <1> HIDE DEF e, u
  <1>2. t.role = s.role /\ t.phase \in Talking
    BY DEF Effect
  <1>3. QueueOk(t.role, t.pending)
    <2>1. CASE t.pending = s.pending
      BY <1>2, <2>1 DEF Queue
    <2>2. CASE /\ s.sync = 0 /\ t.sync # 0
               /\ t.pending = Append(s.pending,
                                     [type |-> "update_request_all", xid |-> t.sync])
      <3>1. s.role \in Role /\ s.pending \in Seq(Entry) /\ t.sync \in 0..MaxXid
        BY DEF Session, Effect
      <3>2. ~Has(s.pending, "update_request_all")
        BY <2>2 DEF Request, Asking
      <3>3. "update_request_all" \in PendingTypes(s.role)
        BY DEF PendingTypes
      <3>4. QueueOk(s.role, s.pending)
        BY DEF Queue
      <3> QED BY <1>2, <2>2, <3>1, <3>2, <3>3, <3>4, QueuePushed
    <2> QED BY <2>1, <2>2 DEF Effect
  <1>4. \/ /\ e.type # "update_request_all" /\ t.req = s.req
           /\ Has(t.pending, "update_done") <=> Has(s.pending, "update_done")
        \/ /\ e.type = "update_request_all" /\ s.req = 0
           /\ t.pending = s.pending
    BY <1>1, EffectAnswering DEF e
  <1>5. /\ Single(back, "update_request_all")
        /\ Owing(s) => ~Has(back, "update_request_all")
        /\ joined /\ Asking(p) => ~Owing(s) /\ ~Has(back, "update_request_all")
        /\ s.req # 0 => ~Has(s.pending, "update_done")
    BY DEF Queue
  <1>6. CASE /\ e.type # "update_request_all" /\ t.req = s.req
             /\ Has(t.pending, "update_done") <=> Has(s.pending, "update_done")
    <2>1. Queue(t, p, u, joined, FALSE)
      BY <1>1, <1>2, <1>3, <1>5, <1>6 DEF Queue, Owing
    <2> QED BY <2>1 DEF u
  <1>7. CASE e.type = "update_request_all" /\ s.req = 0 /\ t.pending = s.pending
    <2>1. Queue(t, p, u, joined, FALSE)
      BY <1>1, <1>2, <1>3, <1>5, <1>7 DEF Queue, Owing
    <2> QED BY <2>1 DEF u
  <1> QED BY <1>4, <1>6, <1>7

\* The partner reads: it asks only when nothing of an earlier request is left.
LEMMA EffectPartner ==
  ASSUME NEW s, NEW p \in Session, NEW q, NEW e \in Message, NEW back, NEW there,
         NEW joined, NEW waiting, NEW all, p.phase \in Talking, Effect(p, e, q),
         Request(p, s, back, there, joined, all), Queue(s, p, back, joined, waiting)
  PROVE  Queue(s, q, back, joined, waiting)
  <1>1. \/ Asking(q) => Asking(p)
        \/ p.sync = 0
    BY EffectAsking
  <1>2. CASE Asking(q) => Asking(p)
    BY <1>2 DEF Queue
  <1>3. CASE p.sync = 0
    <2>1. joined => ~Has(back, "update_request_all") /\ ~Answering(s)
      BY <1>3 DEF Request, OneRequest
    <2>2. ~Answering(s) => ~Owing(s)
      BY DEF Answering, Owing, Finished
    <2> QED BY <2>1, <2>2 DEF Queue
  <1> QED BY <1>1, <1>2, <1>3

\* What holds of one server by itself is kept when it reads.
LEMMA EffectAlone ==
  ASSUME NEW s, NEW e \in Message, NEW t, NEW r \in Role, NEW all \in SUBSET Role,
         Effect(s, e, t), Alone(s, r, all), e.type = "update_done" => all \subseteq s.got
  PROVE  Alone(t, r, all)
  <1>1. s \in Session
    BY DEF Alone
  <1>2. s.leases \subseteq t.leases /\ (Len(s.out) <= 1 => Len(t.out) <= 1)
    BY <1>1, EffectAsking
  <1>3. t.phase \in Talking /\ t.phase \notin {"awaiting_connect", "awaiting_connect_ack"}
    BY DEF Effect, Talking
  <1>4. Updated(t, all)
    BY DEF Effect, Alone
  <1>5. t \in Session /\ t.role = r /\ Len(t.out) <= 1
    BY <1>2 DEF Effect, Alone
  <1> QED BY <1>2, <1>3, <1>4, <1>5 DEF Alone

\* The primary reads a message after it has negotiated.
LEMMA EffectMain ==
  ASSUME NEW m, NEW p, NEW mq, NEW pq, NEW joined, NEW waiting, NEW t,
         Core(m, p, mq, pq, joined, waiting), m.phase \in Talking, mq # <<>>,
         Effect(m, Head(mq), t)
  PROVE  Core(t, p, Tail(mq), pq, joined, waiting)
  <1>1. /\ m \in Session /\ mq \in Seq(Message) /\ Head(mq) \in Message
        /\ Tail(mq) \in Seq(Message) /\ ~waiting
        /\ Head(mq).type = "update_done" => Has(mq, "update_done")
    BY MorePopped DEF Core, Alone
  <1>2. InitialLeases["secondary"] \subseteq p.leases
    BY DEF Core, Alone
  <1>3. Head(mq).type = "update_done" => InitialLeases["secondary"] \subseteq m.got
    BY <1>1 DEF Core, Request
  <1>4. Alone(t, "primary", InitialLeases["secondary"])
    BY <1>1, <1>3, EffectAlone, InitialRange DEF Core, Role
  <1>5. Request(t, p, pq, Tail(mq), joined, InitialLeases["secondary"])
    BY <1>1, EffectAsker DEF Core
  <1>6. Request(p, t, Tail(mq), pq, joined, InitialLeases["primary"])
    <2>1. InitialLeases["primary"] \subseteq m.leases
      BY DEF Core, Alone
    <2> QED BY <1>1, <2>1, EffectAnswerer DEF Core
  <1>7. Queue(t, p, Tail(mq), joined, FALSE)
    BY <1>1, EffectQueue DEF Core
  <1>8. Queue(p, t, pq, joined, waiting)
    BY <1>1, EffectPartner DEF Core
  <1>9. Begin(t, p, Tail(mq), pq, joined, waiting)
    <2>1. Begin(m, p, mq, pq, joined, waiting)
      BY DEF Core
    <2>2. t.phase # "awaiting_connect_ack" /\ m.phase # "awaiting_connect_ack"
      BY DEF Effect, Talking
    <2>3. Early(t, p, waiting) <=> Early(m, p, waiting)
      BY <2>2 DEF Early
    <2> QED BY <2>1, <2>2, <2>3 DEF Begin
  <1>10. waiting = FALSE /\ joined \in BOOLEAN
    BY <1>1 DEF Core
  <1> QED BY <1>1, <1>4, <1>5, <1>6, <1>7, <1>8, <1>9, <1>10 DEF Core

\* The secondary reads a message after it has negotiated.
LEMMA EffectPeer ==
  ASSUME NEW m, NEW p, NEW mq, NEW pq, NEW joined, NEW waiting, NEW t,
         Core(m, p, mq, pq, joined, waiting), p.phase \in Talking, pq # <<>>,
         Effect(p, Head(pq), t)
  PROVE  Core(m, t, mq, Tail(pq), joined, waiting)
  <1>1. /\ p \in Session /\ pq \in Seq(Message) /\ Head(pq) \in Message
        /\ Tail(pq) \in Seq(Message)
        /\ Head(pq).type = "update_done" => Has(pq, "update_done")
    BY MorePopped DEF Core, Alone
  <1>2. waiting = FALSE /\ joined \in BOOLEAN
    BY DEF Core, Talking
  <1>3. Head(pq).type = "update_done" => InitialLeases["primary"] \subseteq p.got
    BY <1>1 DEF Core, Request
  <1>4. Alone(t, "secondary", InitialLeases["primary"])
    BY <1>1, <1>3, EffectAlone, InitialRange DEF Core, Role
  <1>5. Request(t, m, mq, Tail(pq), joined, InitialLeases["primary"])
    BY <1>1, EffectAsker DEF Core
  <1>6. Request(m, t, Tail(pq), mq, joined, InitialLeases["secondary"])
    <2>1. InitialLeases["secondary"] \subseteq p.leases
      BY DEF Core, Alone
    <2> QED BY <1>1, <2>1, EffectAnswerer DEF Core
  <1>7. Queue(t, m, Tail(pq), joined, FALSE)
    BY <1>1, <1>2, EffectQueue DEF Core
  <1>8. Queue(m, t, mq, joined, waiting)
    BY <1>1, EffectPartner DEF Core
  <1>9. Begin(m, t, mq, Tail(pq), joined, waiting)
    <2>1. Begin(m, p, mq, pq, joined, waiting)
      BY DEF Core
    <2>2. /\ t.phase \in Talking
          /\ t.phase # "awaiting_connect" /\ p.phase # "awaiting_connect"
      BY DEF Effect, Talking
    <2>3. /\ Early(m, t, waiting) <=> Early(m, p, waiting)
          /\ ~Waiting(t, waiting)
      BY <1>2, <2>2 DEF Early, Waiting
    <2>4. ASSUME joined, Early(m, p, waiting)
          PROVE  Gone(m, Tail(pq)) /\ ~Answering(t)
      <3>1. Gone(m, pq) /\ ~Answering(p)
        BY <1>2, <2>1, <2>4 DEF Begin, Stale
      <3>2. Only(Tail(pq), Opening) /\ Head(pq).type \in Opening
        BY <1>1, <3>1, MorePopped DEF Gone
      <3>3. Head(pq).type = "contact"
        BY <3>2 DEF Opening, Effect
      <3>4. Answering(t) => Answering(p)
        BY <1>1, <3>3, EffectAnswering
      <3> QED BY <3>1, <3>2, <3>4 DEF Gone
    <2> QED BY <2>1, <2>2, <2>3, <2>4 DEF Begin
  <1> QED BY <1>1, <1>2, <1>4, <1>5, <1>6, <1>7, <1>8, <1>9 DEF Core

\* A negotiation leaves what the server has to answer.
LEMMA BegunAnswerer ==
  ASSUME NEW s, NEW p, NEW q, NEW there \in Seq(Message), NEW back, NEW joined, NEW all,
         there # <<>>, Head(there).type \in {"connect", "connect_ack"}, Begun(p, q),
         Request(s, p, there, back, joined, all)
  PROVE  Request(s, q, Tail(there), back, joined, all)
  <1> DEFINE u == Tail(there)
  <1>1. /\ \A type : Has(u, type) => Has(there, type)
        /\ \A type, x : Once(there, type, x) => Once(u, type, x)
    BY MorePopped
  <1>2. Acked(there, s.got) => Acked(u, s.got)
    BY AckedPopped
  <1> HIDE DEF u
  <1>3. q.req = p.req /\ q.todo = p.todo /\ q.out = p.out /\ ~Has(q.pending, "update_done")
    BY DEF Begun
  <1>4. /\ \A x : AnsweringOnce(p, x) => AnsweringOnce(q, x)
        /\ Answering(q) => Answering(p)
        /\ Finished(q) => Finished(p)
    BY <1>3, AbsentOnce DEF AnsweringOnce, Answering, Finished
  <1>5. OneRequest(s, p, there, back) => OneRequest(s, q, u, back)
    BY <1>1, <1>4 DEF OneRequest
  <1>6. Transferred(s, p, there, back, all) => Transferred(s, q, u, back, all)
    BY <1>2, <1>3, <1>4 DEF Transferred
  <1>7. Request(s, q, u, back, joined, all)
    BY <1>5, <1>6 DEF Request
  <1> QED BY <1>7 DEF u

\* The first request of a connection, made when nothing of the last one is left.
LEMMA BegunAsker ==
  ASSUME NEW s, NEW t, NEW p, NEW there, NEW back, NEW joined, NEW all, Begun(s, t),
         ~Has(s.out, "update_request_all"), ~Has(back, "update_done"),
         joined => /\ ~Has(there, "update_request_all") /\ ~Answering(p)
                   /\ \A got : Acked(there, got) /\ Acked(s.out, got)
  PROVE  Request(t, p, there, back, joined, all)
  <1>1. /\ t.out = s.out /\ Once(t.pending, "update_request_all", t.sync)
        /\ Has(t.pending, "update_request_all") => t.sync # 0
    BY DEF Begun
  <1>2. AskingOnce(t, t.sync) /\ (Asking(t) => t.sync # 0)
    BY <1>1, AbsentOnce DEF Asking, AskingOnce
  <1>3. Once(back, "update_done", t.sync)
    BY AbsentOnce
  <1>4. ASSUME joined
        PROVE  OneRequest(t, p, there, back) /\ Transferred(t, p, there, back, all)
    <2>1. p.req = 0 /\ ~Has(p.pending, "update_done") /\ ~Has(p.out, "update_done")
      BY <1>4 DEF Answering, Finished
    <2>2. AnsweringOnce(p, t.sync)
      BY <2>1, AbsentOnce DEF AnsweringOnce
    <2>3. Once(there, "update_request_all", t.sync)
      BY <1>4, AbsentOnce
    <2>4. OneRequest(t, p, there, back)
      BY <1>2, <1>3, <1>4, <2>2, <2>3 DEF OneRequest
    <2>5. Transferred(t, p, there, back, all)
      BY <1>1, <1>4, <2>1 DEF Transferred, Finished
    <2> QED BY <2>4, <2>5
  <1> QED BY <1>2, <1>3, <1>4 DEF Request

\* What holds of one server by itself holds after a negotiation.
LEMMA BegunAlone ==
  ASSUME NEW s, NEW t, NEW r \in Role, NEW all \in SUBSET Role, Begun(s, t),
         Alone(s, r, all)
  PROVE  Alone(t, r, all)
  <1>1. t.phase \in Talking /\ t.phase \notin {"awaiting_connect", "awaiting_connect_ack"}
    BY DEF Begun, Talking
  <1>2. t \in Session /\ t.role = r /\ Len(t.out) <= 1 /\ t.leases = s.leases
    BY DEF Begun, Alone
  <1>3. Updated(t, all)
    BY DEF Begun
  <1> QED BY <1>1, <1>2, <1>3 DEF Alone

\* The primary receives the answer to CONNECT.
LEMMA BegunMain ==
  ASSUME NEW m, NEW p, NEW mq, NEW pq, NEW joined, NEW waiting, NEW t,
         Core(m, p, mq, pq, joined, waiting), m.phase = "awaiting_connect_ack",
         mq # <<>>, Head(mq).type = "connect_ack", Only(m.out, {"binding_ack"}),
         Begun(m, t)
  PROVE  Core(t, p, Tail(mq), pq, joined, waiting)
  <1>1. /\ mq \in Seq(Message) /\ Tail(mq) \in Seq(Message)
        /\ \A type : Has(Tail(mq), type) => Has(mq, type)
        /\ \A type : Single(mq, type) => Single(Tail(mq), type)
        /\ Has(mq, "connect_ack")
    BY MorePopped DEF Core
  <1>2. waiting = FALSE /\ joined \in BOOLEAN
    BY DEF Core
  <1>3. Begin(m, p, mq, pq, joined, waiting)
    BY DEF Core
  <1>4. /\ ~Has(Tail(mq), "update_done") /\ m.req = 0
        /\ ~Has(m.out, "update_request_all")
    BY <1>1, <1>3, Excluded DEF Begin
  <1>5. ASSUME joined
        PROVE  Only(pq, Opening) /\ Only(m.out, Opening) /\ ~Answering(p)
    BY <1>1, <1>2, <1>3, <1>5 DEF Begin, Early, Stale, Gone
  <1>6. /\ "update_request_all" \notin Opening /\ "binding_ack" \notin Opening
        /\ "connect_ack" \notin {"contact"}
    BY DEF Opening
  <1>7. Alone(t, "primary", InitialLeases["secondary"])
    BY BegunAlone, InitialRange DEF Core, Role
  <1>8. joined => /\ ~Has(pq, "update_request_all")
                  /\ \A got : Acked(pq, got) /\ Acked(m.out, got)
    BY <1>5, <1>6, Excluded, AckedNone
  <1>9. Request(t, p, pq, Tail(mq), joined, InitialLeases["secondary"])
    BY <1>4, <1>5, <1>8, BegunAsker
  <1>10. Request(p, t, Tail(mq), pq, joined, InitialLeases["primary"])
    BY <1>1, BegunAnswerer DEF Core
  <1>11. t.req = 0 /\ ~Has(t.pending, "update_done") /\ QueueOk(t.role, t.pending)
         /\ t.phase \in Talking /\ t.phase # "awaiting_connect_ack"
    BY <1>4 DEF Begun, Talking
  <1>12. Queue(t, p, Tail(mq), joined, waiting)
    <2>1. /\ Single(mq, "update_request_all")
          /\ joined /\ ~waiting /\ Asking(p) => ~Has(mq, "update_request_all")
      BY DEF Core, Queue
    <2> QED BY <1>1, <1>11, <2>1 DEF Queue, Owing
  <1>13. Queue(p, t, pq, joined, waiting)
    <2>1. ~Answering(p) => ~Owing(p)
      BY DEF Answering, Owing, Finished
    <2> QED BY <1>5, <1>8, <2>1 DEF Core, Queue
  <1>14. Begin(t, p, Tail(mq), pq, joined, waiting)
    <2>1. ~(joined /\ Waiting(p, waiting))
      BY <1>1, <1>3, <1>6, Excluded DEF Begin, Early
    <2>2. Early(t, p, waiting) <=> Waiting(p, waiting)
      BY <1>11 DEF Early
    <2> QED BY <1>3, <1>11, <2>1, <2>2 DEF Begin
  <1> QED BY <1>1, <1>2, <1>7, <1>9, <1>10, <1>12, <1>13, <1>14 DEF Core

\* The secondary receives CONNECT.
LEMMA BegunPeer ==
  ASSUME NEW m, NEW p, NEW mq, NEW pq, NEW joined, NEW waiting, NEW t,
         Core(m, p, mq, pq, joined, waiting), p.phase = "awaiting_connect",
         pq # <<>>, Head(pq).type = "connect", Begun(p, t)
  PROVE  Core(m, t, mq, Tail(pq), joined, waiting)
  <1>1. /\ pq \in Seq(Message) /\ Tail(pq) \in Seq(Message)
        /\ \A types : Only(pq, types) => Only(Tail(pq), types)
    BY MorePopped DEF Core
  <1>2. waiting = FALSE /\ joined \in BOOLEAN
    BY DEF Core
  <1>3. Begin(m, p, mq, pq, joined, waiting)
    BY DEF Core
  <1>4. /\ Only(Tail(pq), Opening) /\ p.req = 0 /\ Only(p.out, {"contact"})
    BY <1>1, <1>3 DEF Begin, Waiting
  <1>5. /\ "update_request_all" \notin Opening /\ "update_done" \notin Opening
        /\ "update_request_all" \notin {"contact"} /\ "binding_ack" \notin {"contact"}
        /\ "update_done" \notin {"contact"}
    BY DEF Opening
  <1>6. /\ ~Has(Tail(pq), "update_request_all") /\ ~Has(Tail(pq), "update_done")
        /\ ~Has(p.out, "update_request_all") /\ ~Has(p.out, "update_done")
        /\ Single(Tail(pq), "update_request_all")
    BY <1>4, <1>5, Excluded
  <1>7. ASSUME joined
        PROVE  /\ m.phase \notin Talking /\ m.req = 0 /\ Only(m.pending, Opening)
               /\ Only(m.out, Opening) /\ Only(mq, {"contact"})
    BY <1>3, <1>7 DEF Begin, Early, Waiting, Gone, Stale
  <1>8. joined => /\ ~Answering(m) /\ ~Has(mq, "update_request_all") /\ ~Owing(m)
                  /\ \A got : Acked(mq, got) /\ Acked(p.out, got)
    <2>1. joined => ~Has(m.pending, "update_done") /\ ~Has(m.out, "update_done")
                    /\ ~Has(mq, "update_request_all")
      BY <1>5, <1>7, Excluded
    <2>2. joined => \A got : Acked(mq, got) /\ Acked(p.out, got)
      BY <1>4, <1>5, <1>7, AckedNone
    <2> QED BY <1>7, <2>1, <2>2 DEF Answering, Finished, Owing
  <1>9. Alone(t, "secondary", InitialLeases["primary"])
    BY BegunAlone, InitialRange DEF Core, Role
  <1>10. Request(t, m, mq, Tail(pq), joined, InitialLeases["primary"])
    BY <1>6, <1>8, BegunAsker
  <1>11. Request(m, t, Tail(pq), mq, joined, InitialLeases["secondary"])
    BY <1>1, BegunAnswerer DEF Core
  <1>12. /\ t.req = 0 /\ ~Has(t.pending, "update_done") /\ QueueOk(t.role, t.pending)
         /\ t.phase \in Talking /\ t.phase # "awaiting_connect" /\ t.out = p.out
    BY <1>4 DEF Begun, Talking
  <1>13. Queue(t, m, Tail(pq), joined, waiting)
    BY <1>6, <1>12 DEF Queue, Owing
  <1>14. Queue(m, t, mq, joined, waiting)
    BY <1>8 DEF Core, Queue
  <1>15. Begin(m, t, mq, Tail(pq), joined, waiting)
    <2>1. ~Waiting(t, waiting) /\ ~Answering(t)
      BY <1>2, <1>6, <1>12 DEF Waiting, Answering, Finished
    <2>2. joined => Gone(m, Tail(pq))
      BY <1>4, <1>7 DEF Gone
    <2> QED BY <1>3, <1>7, <1>12, <2>1, <2>2 DEF Begin
  <1> QED BY <1>1, <1>2, <1>9, <1>10, <1>11, <1>13, <1>14, <1>15 DEF Core

\* A connection is gone: what was to be joined no longer is.
Shut(s, t) ==
  /\ Lasting(s, t) /\ t.phase = "disconnected" /\ t.pending = <<>> /\ ~t.comm

\* A server without a connection asks and owes nothing that counts.
LEMMA ShutAlone ==
  ASSUME NEW s, NEW t, NEW r \in Role, NEW all \in SUBSET Role, Shut(s, t),
         Alone(s, r, all)
  PROVE  /\ Alone(t, r, all)
         /\ \A p, there, back, joined, any : Request(t, p, there, back, joined, any)
         /\ \A p, back, joined, waiting : Queue(t, p, back, joined, waiting)
  <1>1. "disconnected" \notin Talking \union {"awaiting_connect", "awaiting_connect_ack"}
    BY DEF Talking
  <1>2. Alone(t, r, all)
    BY <1>1 DEF Shut, Lasting, Alone
  <1>3. \A p, there, back, joined, any : Request(t, p, there, back, joined, any)
    BY <1>1 DEF Shut, Request
  <1>4. QueueOk(t.role, t.pending) /\ \A type : ~Has(t.pending, type)
    BY OneMessage DEF Shut, QueueOk
  <1>5. \A p, back, joined, waiting : Queue(t, p, back, joined, waiting)
    BY <1>1, <1>4 DEF Shut, Queue
  <1> QED BY <1>2, <1>3, <1>5

\* The primary gives its socket up.
LEMMA ShutMain ==
  ASSUME NEW m, NEW p, NEW mq, NEW pq, NEW joined, NEW waiting, NEW t,
         Core(m, p, mq, pq, joined, waiting), Shut(m, t)
  PROVE  Core(t, p, <<>>, pq, FALSE, FALSE)
  <1>1. /\ Alone(t, "primary", InitialLeases["secondary"])
        /\ Request(t, p, pq, <<>>, FALSE, InitialLeases["secondary"])
        /\ Queue(t, p, <<>>, FALSE, FALSE)
    BY ShutAlone, InitialRange DEF Core, Role
  <1>2. Request(p, t, <<>>, pq, FALSE, InitialLeases["primary"])
    BY DEF Core, Request
  <1>3. Queue(p, t, pq, FALSE, FALSE)
    BY DEF Core, Queue
  <1>4. Begin(t, p, <<>>, pq, FALSE, FALSE)
    BY DEF Core, Begin, Shut, Waiting
  <1>5. <<>> \in Seq(Message)
    OBVIOUS
  <1> QED BY <1>1, <1>2, <1>3, <1>4, <1>5 DEF Core

\* The secondary gives its socket up.
LEMMA ShutPeer ==
  ASSUME NEW m, NEW p, NEW mq, NEW pq, NEW joined, NEW waiting, NEW t,
         Core(m, p, mq, pq, joined, waiting), Shut(p, t)
  PROVE  Core(m, t, mq, <<>>, FALSE, FALSE)
  <1>1. /\ Alone(t, "secondary", InitialLeases["primary"])
        /\ Request(t, m, mq, <<>>, FALSE, InitialLeases["primary"])
        /\ Queue(t, m, <<>>, FALSE, FALSE)
    BY ShutAlone, InitialRange DEF Core, Role
  <1>2. Request(m, t, <<>>, mq, FALSE, InitialLeases["secondary"])
    BY DEF Core, Request
  <1>3. Queue(m, t, mq, FALSE, FALSE)
    BY DEF Core, Queue
  <1>4. Begin(m, t, mq, <<>>, FALSE, FALSE)
    BY DEF Core, Begin, Shut, Waiting
  <1>5. <<>> \in Seq(Message)
    OBVIOUS
  <1> QED BY <1>1, <1>2, <1>3, <1>4, <1>5 DEF Core

\* What holds of one server by itself holds when its transport has connected.
LEMMA ConnectedAlone ==
  ASSUME NEW s, NEW t, NEW r \in Role, NEW all \in SUBSET Role, Connected(s, t),
         Alone(s, r, all), ~s.comm
  PROVE  /\ Alone(t, r, all) /\ t.phase \notin Talking /\ t.req = 0
         /\ r = "primary" => /\ t.phase = "awaiting_connect_ack" /\ t.out = s.out
                             /\ t.pending = <<[type |-> "connect", xid |-> 0]>>
         /\ r = "secondary" =>
              t.phase = "awaiting_connect" /\ t.out = <<>> /\ t.pending = <<>>
  <1>1. s.role = r /\ Len(s.out) <= 1
    BY DEF Alone
  <1>2. /\ r = "primary" => /\ t.phase = "awaiting_connect_ack" /\ t.out = s.out
                            /\ t.pending = <<[type |-> "connect", xid |-> 0]>>
        /\ r = "secondary" =>
             t.phase = "awaiting_connect" /\ t.out = <<>> /\ t.pending = <<>>
    BY <1>1 DEF Connected
  <1>3. r = "primary" \/ r = "secondary"
    BY DEF Role
  <1>4. Len(t.out) <= 1
    BY <1>1, <1>2, <1>3
  <1>5. t.phase \notin Talking /\ t.req = 0
        /\ t.phase # (IF r = "primary" THEN "awaiting_connect" ELSE "awaiting_connect_ack")
    BY <1>2, <1>3 DEF Talking, Connected
  <1>6. ~t.comm
    BY DEF Connected
  <1> QED BY <1>1, <1>2, <1>4, <1>5, <1>6 DEF Connected, Alone

\* The queues of the primary that opens a connection.
LEMMA ConnectedQueue ==
  LET q == <<[type |-> "connect", xid |-> 0]>> IN
  /\ QueueOk("primary", q) /\ Only(q, Opening)
  /\ \A type : Has(q, type) <=> type = "connect"
  /\ QueueOk("secondary", <<>>) /\ \A type : ~Has(<<>>, type)
  /\ \A types : Only(<<>>, types)
  /\ \A type : Single(<<>>, type)
  <1> DEFINE c == [type |-> "connect", xid |-> 0]
  <1>1. c.type = "connect" /\ "connect" \in Opening /\ "connect" \in PendingTypes("primary")
    BY DEF Opening, PendingTypes
  <1> HIDE DEF c
  <1>2. /\ QueueOk("primary", <<c>>) /\ Only(<<c>>, Opening)
        /\ \A type : Has(<<c>>, type) <=> type = "connect"
    BY <1>1, OneMessage DEF QueueOk
  <1>3. /\ QueueOk("secondary", <<>>) /\ \A type : ~Has(<<>>, type)
        /\ \A types : Only(<<>>, types)
        /\ \A type : Single(<<>>, type)
    BY OneMessage DEF QueueOk
  <1> QED BY <1>2, <1>3 DEF c

\* The primary opens a connection that the listener takes.
LEMMA OpenTaken ==
  ASSUME NEW m, NEW p, NEW mq, NEW pq, NEW joined, NEW waiting, NEW t,
         Core(m, p, mq, pq, joined, waiting), Connected(m, t), ~m.comm,
         p.phase = "disconnected"
  PROVE  Core(t, p, <<>>, <<>>, TRUE, TRUE)
  <1>1. /\ Alone(t, "primary", InitialLeases["secondary"])
        /\ t.phase \notin Talking /\ t.req = 0 /\ t.phase = "awaiting_connect_ack"
        /\ t.pending = <<[type |-> "connect", xid |-> 0]>>
    BY ConnectedAlone, InitialRange DEF Core, Role
  <1>2. /\ QueueOk("primary", t.pending) /\ Only(t.pending, Opening)
        /\ \A type : Has(t.pending, type) <=> type = "connect"
        /\ \A type : ~Has(<<>>, type)
        /\ \A types : Only(<<>>, types)
        /\ \A type : Single(<<>>, type)
    BY <1>1, ConnectedQueue
  <1>3. p.phase \notin Talking /\ p.phase # "awaiting_connect"
        /\ p.phase # "awaiting_connect_ack" /\ t.role = "primary"
    BY <1>1 DEF Talking, Alone
  <1>4. /\ Request(t, p, <<>>, <<>>, TRUE, InitialLeases["secondary"])
        /\ Request(p, t, <<>>, <<>>, TRUE, InitialLeases["primary"])
    BY <1>1, <1>3 DEF Request
  <1>5. Queue(t, p, <<>>, TRUE, TRUE)
    BY <1>1, <1>2, <1>3 DEF Queue, Owing
  <1>6. Queue(p, t, <<>>, TRUE, TRUE)
    BY <1>3 DEF Core, Queue
  <1>7. Stale(p, <<>>, <<>>, TRUE)
    BY <1>2, <1>3 DEF Stale
  <1>8. Begin(t, p, <<>>, <<>>, TRUE, TRUE)
    BY <1>1, <1>2, <1>3, <1>7 DEF Begin
  <1>9. <<>> \in Seq(Message)
    OBVIOUS
  <1> QED BY <1>1, <1>4, <1>5, <1>6, <1>8, <1>9 DEF Core

\* The primary opens a connection that the secondary refuses.
LEMMA OpenRefused ==
  ASSUME NEW m, NEW p, NEW pq, NEW t,
         Core(m, p, <<>>, pq, FALSE, FALSE), Connected(m, t), ~m.comm
  PROVE  Core(t, p, <<>>, pq, FALSE, FALSE)
  <1>1. /\ Alone(t, "primary", InitialLeases["secondary"])
        /\ t.phase \notin Talking /\ t.req = 0 /\ t.phase = "awaiting_connect_ack"
        /\ t.pending = <<[type |-> "connect", xid |-> 0]>>
    BY ConnectedAlone, InitialRange DEF Core, Role
  <1>2. /\ QueueOk("primary", t.pending) /\ Only(t.pending, Opening)
        /\ \A type : Has(t.pending, type) <=> type = "connect"
        /\ \A type : ~Has(<<>>, type)
        /\ \A type : Single(<<>>, type)
    BY <1>1, ConnectedQueue
  <1>3. t.role = "primary"
    BY <1>1 DEF Alone
  <1>4. /\ Request(t, p, pq, <<>>, FALSE, InitialLeases["secondary"])
        /\ Request(p, t, <<>>, pq, FALSE, InitialLeases["primary"])
    BY <1>1 DEF Core, Request
  <1>5. Queue(t, p, <<>>, FALSE, FALSE)
    BY <1>1, <1>2, <1>3 DEF Queue, Owing
  <1>6. Queue(p, t, pq, FALSE, FALSE)
    BY DEF Core, Queue
  <1>7. Begin(t, p, <<>>, pq, FALSE, FALSE)
    BY <1>1, <1>2 DEF Core, Begin
  <1> QED BY <1>1, <1>4, <1>5, <1>6, <1>7 DEF Core

\* The secondary accepts the connection that waits for it.
LEMMA AcceptTaken ==
  ASSUME NEW m, NEW p, NEW mq, NEW pq, NEW t,
         Core(m, p, mq, pq, TRUE, TRUE), Connected(p, t), ~p.comm
  PROVE  Core(m, t, mq, pq, TRUE, FALSE)
  <1>1. /\ Alone(t, "secondary", InitialLeases["primary"])
        /\ t.phase \notin Talking /\ t.req = 0 /\ t.phase = "awaiting_connect"
        /\ t.out = <<>> /\ t.pending = <<>>
    BY ConnectedAlone, InitialRange DEF Core, Role
  <1>2. /\ QueueOk("secondary", <<>>) /\ \A type : ~Has(<<>>, type)
        /\ \A types : Only(<<>>, types)
        /\ \A type : Single(<<>>, type)
    BY ConnectedQueue
  <1>3. Begin(m, p, mq, pq, TRUE, TRUE) /\ mq = <<>>
    BY DEF Core
  <1>4. /\ Waiting(p, TRUE) /\ Early(m, p, TRUE)
        /\ t.role = "secondary" /\ ~Asking(t) /\ ~Answering(t)
    BY <1>1, <1>2 DEF Waiting, Early, Alone, Asking, Answering, Finished
  <1>5. /\ m.phase \notin Talking /\ m.req = 0 /\ Only(m.pending, Opening)
        /\ Gone(m, pq) \/ Stale(p, mq, pq, TRUE)
        /\ Only(pq, Opening) \/ Head(pq).type # "connect"
    BY <1>3, <1>4 DEF Begin
  <1>6. /\ Request(m, t, pq, mq, TRUE, InitialLeases["secondary"])
        /\ Request(t, m, mq, pq, TRUE, InitialLeases["primary"])
    BY <1>1, <1>5 DEF Request
  <1>7. Queue(m, t, mq, TRUE, FALSE)
    BY <1>4 DEF Core, Queue
  <1>8. Queue(t, m, pq, TRUE, FALSE)
    BY <1>1, <1>2, <1>4 DEF Queue, Talking
  <1>9. Stale(p, mq, pq, TRUE) => Stale(t, mq, pq, FALSE)
    BY <1>1, <1>2 DEF Stale
  <1>10. Begin(m, t, mq, pq, TRUE, FALSE)
    BY <1>1, <1>2, <1>3, <1>4, <1>5, <1>9 DEF Begin
  <1> QED BY <1>1, <1>3, <1>6, <1>7, <1>8, <1>10 DEF Core

----------------------------------------------------------------------------
(***************************************************************************)
(* Steps of the specification.                                             *)
(***************************************************************************)

\* What the invariant says of each server.
LEMMA Servers ==
  ASSUME Inv, NEW r \in Role
  PROVE  /\ node[r] \in Session /\ node[r].role = r /\ Len(node[r].out) <= 1
         /\ chan[r] \in Seq(Message)
         /\ node[r].comm => node[r].phase \in Talking
         /\ QueueOk(r, node[r].pending)
         /\ node[r].req # 0 => ~Has(node[r].pending, "update_done")
         /\ node[r].phase \in Talking /\ node[r].sync = 0 =>
              ~Has(node[r].pending, "update_request_all")
         /\ node[r].phase \in {"awaiting_connect", "awaiting_connect_ack"} => Opened(node[r])
  <1>1. CASE r = "primary"
    <2>1. Alone(node[r], r, InitialLeases["secondary"]) /\ chan[r] \in Seq(Message)
      BY <1>1 DEF Inv, CoreInv, Core
    <2>2. /\ QueueOk(node[r].role, node[r].pending)
          /\ node[r].req # 0 => ~Has(node[r].pending, "update_done")
      BY <1>1 DEF Inv, CoreInv, Core, Queue
    <2>3. node[r].phase \in Talking /\ node[r].sync = 0 =>
            ~Has(node[r].pending, "update_request_all")
      BY <1>1 DEF Inv, CoreInv, Core, Request, Asking
    <2>4. node[r].phase = "awaiting_connect_ack" => Only(node[r].pending, Opening)
      BY <1>1 DEF Inv, CoreInv, Core, Begin
    <2>5. node[r].phase # "awaiting_connect"
      BY <1>1, <2>1 DEF Alone
    <2> QED BY <1>1, <2>1, <2>2, <2>3, <2>4, <2>5 DEF Alone, Opened
  <1>2. CASE r = "secondary"
    <2>1. Alone(node[r], r, InitialLeases["primary"]) /\ chan[r] \in Seq(Message)
      BY <1>2 DEF Inv, CoreInv, Core
    <2>2. /\ QueueOk(node[r].role, node[r].pending)
          /\ node[r].req # 0 => ~Has(node[r].pending, "update_done")
      BY <1>2 DEF Inv, CoreInv, Core, Queue
    <2>3. node[r].phase \in Talking /\ node[r].sync = 0 =>
            ~Has(node[r].pending, "update_request_all")
      BY <1>2 DEF Inv, CoreInv, Core, Request, Asking
    <2>4. node[r].phase = "awaiting_connect" => Only(node[r].pending, {"contact"})
      BY <1>2 DEF Inv, CoreInv, Core, Begin
    <2>5. node[r].phase # "awaiting_connect_ack"
      BY <1>2, <2>1 DEF Alone
    <2> QED BY <1>2, <2>1, <2>2, <2>3, <2>4, <2>5 DEF Alone, Opened
  <1> QED BY <1>1, <1>2 DEF Role

\* The invariant holds at the start.
LEMMA InitInv ==
  ASSUME Init
  PROVE  Inv
  <1>1. \A r \in Role : node[r] = InitialNode(r) /\ sock[r] = "none" /\ chan[r] = <<>>
    BY DEF Init
  <1>2. ASSUME NEW r \in Role, NEW all \in SUBSET Role
        PROVE  /\ Alone(node[r], r, all) /\ node[r].phase = "disconnected"
               /\ node[r].pending = <<>> /\ node[r].req = 0
    <2> DEFINE s == InitialNode(r)
    <2>1. /\ "disconnected" \in Phase /\ "startup" \in State /\ 0 \in 0..MaxXid
          /\ 1 \in 1..MaxXid /\ SendInterval \in Int /\ Never \in Timer(ResponseDelay)
          /\ (IF version = 4 THEN StartupPeriod ELSE Never) \in Int
          /\ <<>> \in Seq(Entry) /\ <<>> \in Seq(Message)
          /\ InitialLeases[r] \in SUBSET Leases /\ (version = 6) \in BOOLEAN
      BY Constants, InitialRange DEF Phase, State, Never, Timer, Leases
    <2>2. s \in Session
      BY <2>1 DEF InitialNode, Session
    <2>3. /\ s.role = r /\ s.phase = "disconnected" /\ s.pending = <<>> /\ s.req = 0
          /\ s.out = <<>> /\ s.comm = FALSE /\ s.leases = InitialLeases[r]
          /\ s.state = "startup" /\ s.complete = FALSE
      BY DEF InitialNode
    <2> HIDE DEF s
    <2>4. Updated(s, all)
      BY <2>3 DEF Updated, Served
    <2>5. Len(s.out) <= 1
      BY <2>3
    <2>6. "disconnected" \notin Talking \union {"awaiting_connect", "awaiting_connect_ack"}
      BY DEF Talking
    <2>7. Alone(s, r, all)
      BY <2>2, <2>3, <2>4, <2>5, <2>6 DEF Alone
    <2> QED BY <1>1, <2>3, <2>7 DEF s
  <1> DEFINE m == node["primary"]
             p == node["secondary"]
  <1>3. /\ Alone(m, "primary", InitialLeases["secondary"])
        /\ Alone(p, "secondary", InitialLeases["primary"])
        /\ m.phase = "disconnected" /\ m.pending = <<>> /\ m.req = 0
        /\ p.phase = "disconnected" /\ p.pending = <<>> /\ p.req = 0
        /\ m.role = "primary" /\ p.role = "secondary"
    BY <1>2, InitialRange DEF Role, Alone
  <1>4. chan["primary"] = <<>> /\ chan["secondary"] = <<>> /\ <<>> \in Seq(Message)
    BY <1>1 DEF Role
  <1>5. paired = FALSE /\ backlog = FALSE
    BY DEF Init
  <1>6. "disconnected" \notin Talking \union {"awaiting_connect", "awaiting_connect_ack"}
    BY DEF Talking
  <1> HIDE DEF m, p
  <1>7. QueueOk("primary", <<>>) /\ QueueOk("secondary", <<>>) /\ \A type : ~Has(<<>>, type)
    BY OneMessage DEF QueueOk
  <1>8. Queue(m, p, <<>>, FALSE, FALSE) /\ Queue(p, m, <<>>, FALSE, FALSE)
    BY <1>3, <1>6, <1>7 DEF Queue
  <1>9. /\ Request(m, p, <<>>, <<>>, FALSE, InitialLeases["secondary"])
        /\ Request(p, m, <<>>, <<>>, FALSE, InitialLeases["primary"])
    BY <1>3, <1>6 DEF Request
  <1>10. Begin(m, p, <<>>, <<>>, FALSE, FALSE)
    BY <1>3, <1>6 DEF Begin, Waiting
  <1>11. CoreInv
    BY <1>3, <1>4, <1>5, <1>8, <1>9, <1>10 DEF CoreInv, Core, m, p
  <1>12. SocketInv
    <2>1. /\ version \in Versions /\ opens \in 0..MaxOpens
          /\ node = [r \in Role |-> node[r]] /\ chan = [r \in Role |-> chan[r]]
          /\ sock \in [Role -> {"none", "open", "closed"}]
          /\ reading = None /\ None \notin Role
      BY Constants DEF Init, None, Role
    <2>2. \A r \in Role : Len(chan[r]) <= StreamCapacity
      BY <1>1, Constants
    <2>3. \A r \in Role : node[r].phase = "disconnected"
      BY <1>2
    <2> QED BY <1>4, <1>5, <2>1, <2>2, <2>3 DEF SocketInv
  <1> QED BY <1>11, <1>12 DEF Inv

\* Steps in which each server at most serviced its session.
LEMMA QuietStep ==
  ASSUME Inv, UNCHANGED <<version, paired, backlog, chan, reading, opens>>,
         node' = [r \in Role |-> node'[r]],
         \A r \in Role : Serviced(node[r], node'[r]),
         sock' \in [Role -> {"none", "open", "closed"}],
         \A r \in Role : sock'[r] = "none" <=> sock[r] = "none",
         \A r \in Role : reading = r => sock'[r] = sock[r]
  PROVE  Inv'
  <1>1. \A r \in Role : Local(node[r], node'[r])
    BY Servers, ServicedLocal
  <1>2. "primary" \in Role /\ "secondary" \in Role
    BY DEF Role
  <1>3. Core(node'["primary"], node["secondary"], chan["primary"], chan["secondary"],
             paired, backlog)
    BY <1>1, <1>2, LocalMain DEF Inv, CoreInv
  <1>4. Core(node'["primary"], node'["secondary"], chan["primary"], chan["secondary"],
             paired, backlog)
    BY <1>1, <1>2, <1>3, LocalPeer
  <1>5. CoreInv'
    BY <1>4 DEF CoreInv
  <1>6. \A r \in Role : node[r].phase = "disconnected" => node'[r].phase = "disconnected"
    BY DEF Serviced
  <1>7. \A r \in Role : node'[r].out = node[r].out
    BY DEF Serviced, Lasting
  <1>8. SocketInv'
    BY <1>2, <1>6, <1>7 DEF Inv, SocketInv
  <1> QED BY <1>5, <1>8 DEF Inv

\* An operator's partner-down order touches only the endpoint.
LEMMA PartnerDownServiced ==
  ASSUME NEW s \in Session
  PROVE  Serviced(s, Transition(s, "partner_down", MCLT))
  <1> DEFINE t == Transition(s, "partner_down", MCLT)
  <1>1. "partner_down" \in State /\ MCLT \in Int
    BY Constants DEF State
  <1>2. /\ t \in Session /\ t.state = "partner_down"
        /\ t.escaped = (s.escaped \/ "partner_down" = "partner_down")
        /\ t.role = s.role /\ t.phase = s.phase /\ t.pending = s.pending
        /\ t.sync = s.sync /\ t.out = s.out /\ t.req = s.req /\ t.todo = s.todo
        /\ t.leases = s.leases /\ t.got = s.got /\ t.comm = s.comm
    BY <1>1, TransitionFields
  <1> HIDE DEF t
  <1>3. \A all \in SUBSET Role : Updated(t, all)
    BY <1>2 DEF Updated
  <1> QED BY <1>2, <1>3 DEF Serviced, Lasting, t

\* Time passes.
LEMMA TickServiced ==
  ASSUME NEW s \in Session, NEW a \in Int, NEW b \in Timer(ResponseDelay), NEW c \in Int
  PROVE  Serviced(s, [s EXCEPT !.stateIn = a, !.contactIn = b, !.sendIn = c])
  <1> DEFINE t == [s EXCEPT !.stateIn = a, !.contactIn = b, !.sendIn = c]
  <1>1. /\ t \in Session /\ t.role = s.role /\ t.phase = s.phase /\ t.pending = s.pending
        /\ t.sync = s.sync /\ t.out = s.out /\ t.req = s.req /\ t.todo = s.todo
        /\ t.leases = s.leases /\ t.got = s.got /\ t.comm = s.comm
        /\ t.state = s.state /\ t.complete = s.complete /\ t.escaped = s.escaped
    BY DEF Session
  <1> HIDE DEF t
  <1>2. \A all \in SUBSET Role : Updated(s, all) => Updated(t, all)
    BY <1>1 DEF Updated
  <1> QED BY <1>1, <1>2 DEF Serviced, Lasting, t

\* A server that does nothing is serviced.
LEMMA SameServiced ==
  ASSUME NEW s \in Session
  PROVE  Serviced(s, s)
  BY DEF Serviced, Lasting

\* A step that changes one server.
LEMMA OneServer ==
  ASSUME Inv, NEW r \in Role, NEW t, node' = [node EXCEPT ![r] = t]
  PROVE  /\ node' = [o \in Role |-> node'[o]]
         /\ node'[r] = t /\ \A o \in Role : o # r => node'[o] = node[o]
  BY DEF Inv, SocketInv

\* Service.
LEMMA ServiceStep ==
  ASSUME Inv, NEW r \in Role, Service(r)
  PROVE  Inv'
  <1>1. /\ node' = [node EXCEPT ![r] = SessionService(node[r])]
        /\ UNCHANGED <<version, sock, paired, backlog, chan, reading, opens>>
    BY DEF Service
  <1>2. /\ node' = [o \in Role |-> node'[o]] /\ node'[r] = SessionService(node[r])
        /\ \A o \in Role : o # r => node'[o] = node[o]
    BY <1>1, OneServer
  <1>3. \A o \in Role : Serviced(node[o], node'[o])
    BY <1>2, Servers, SessionServiced, SameServiced
  <1>4. sock' \in [Role -> {"none", "open", "closed"}]
    BY <1>1 DEF Inv, SocketInv
  <1> QED BY <1>1, <1>2, <1>3, <1>4, QuietStep

\* RequestPartnerDown.
LEMMA PartnerDownStep ==
  ASSUME Inv, NEW r \in Role, RequestPartnerDown(r)
  PROVE  Inv'
  <1>1. /\ node' = [node EXCEPT ![r] = Transition(node[r], "partner_down", MCLT)]
        /\ UNCHANGED <<version, sock, paired, backlog, chan, reading, opens>>
    BY DEF RequestPartnerDown
  <1>2. /\ node' = [o \in Role |-> node'[o]]
        /\ node'[r] = Transition(node[r], "partner_down", MCLT)
        /\ \A o \in Role : o # r => node'[o] = node[o]
    BY <1>1, OneServer
  <1>3. \A o \in Role : Serviced(node[o], node'[o])
    BY <1>2, Servers, PartnerDownServiced, SameServiced
  <1>4. sock' \in [Role -> {"none", "open", "closed"}]
    BY <1>1 DEF Inv, SocketInv
  <1> QED BY <1>1, <1>2, <1>3, <1>4, QuietStep

\* Lose.
LEMMA LoseStep ==
  ASSUME Inv, NEW r \in Role, Lose(r), reading = None
  PROVE  Inv'
  <1>1. /\ sock[r] = "open" /\ sock' = [sock EXCEPT ![r] = "closed"]
        /\ UNCHANGED <<version, node, paired, backlog, chan, reading, opens>>
    BY DEF Lose
  <1>2. /\ sock \in [Role -> {"none", "open", "closed"}] /\ node = [o \in Role |-> node[o]]
    BY DEF Inv, SocketInv
  <1>3. /\ sock' \in [Role -> {"none", "open", "closed"}]
        /\ \A o \in Role : sock'[o] = "none" <=> sock[o] = "none"
        /\ \A o \in Role : reading = o => sock'[o] = sock[o]
    BY <1>1, <1>2 DEF None, Role
  <1>4. \A o \in Role : Serviced(node[o], node'[o])
    BY <1>1, Servers, SameServiced
  <1>5. node' = [o \in Role |-> node'[o]]
    BY <1>1, <1>2
  <1> QED BY <1>1, <1>3, <1>4, <1>5, QuietStep

\* Tick.
LEMMA TickStep ==
  ASSUME Inv, Tick
  PROVE  Inv'
  <1> DEFINE Run(t) == IF t > 0 THEN t - 1 ELSE t
             Later(o) == [node[o] EXCEPT !.stateIn = Run(@), !.contactIn = Run(@),
                                         !.sendIn = Run(@)]
  <1>1. /\ node' = [o \in Role |-> Later(o)]
        /\ UNCHANGED <<version, sock, paired, backlog, chan, reading, opens>>
    BY DEF Tick
  <1>2. ASSUME NEW o \in Role PROVE Serviced(node[o], Later(o))
    <2>1. node[o] \in Session
      BY Servers
    <2>2. node[o].stateIn \in Int /\ node[o].contactIn \in Timer(ResponseDelay)
          /\ node[o].sendIn \in Int
      BY <2>1 DEF Session
    <2>3. Run(node[o].stateIn) \in Int /\ Run(node[o].sendIn) \in Int
      BY <2>2
    <2>4. Run(node[o].contactIn) \in Timer(ResponseDelay)
      BY <2>2, Constants DEF Timer, Never
    <2> HIDE DEF Run
    <2> QED BY <2>1, <2>3, <2>4, TickServiced
  <1>3. \A o \in Role : node'[o] = Later(o)
    BY <1>1
  <1>4. node' = [o \in Role |-> node'[o]]
    BY <1>1
  <1> HIDE DEF Later
  <1>5. \A o \in Role : Serviced(node[o], node'[o])
    BY <1>2, <1>3
  <1>6. sock' \in [Role -> {"none", "open", "closed"}]
    BY <1>1 DEF Inv, SocketInv
  <1> QED BY <1>1, <1>4, <1>5, <1>6, QuietStep

\* Open.
LEMMA OpenStep ==
  ASSUME Inv, Open, reading = None
  PROVE  Inv'
  <1> DEFINE t == TransportConnected(OwnerReset(node["primary"]))
             free == sock["secondary"] = "none"
  <1>1. "primary" \in Role /\ "secondary" \in Role
    BY DEF Role
  <1>2. /\ node' = [node EXCEPT !["primary"] = t]
        /\ sock["primary"] = "none" /\ sock' = [sock EXCEPT !["primary"] = "open"]
        /\ paired' = free /\ backlog' = free
        /\ chan' = [r \in Role |-> IF free THEN <<>> ELSE chan[r]]
        /\ opens < MaxOpens /\ opens' = opens + 1 /\ version' = version /\ reading' = reading
    BY DEF Open
  <1>3. Connected(node["primary"], t)
    BY <1>1, Servers, SessionConnected
  <1> HIDE DEF t
  <1>4. /\ node' = [o \in Role |-> node'[o]] /\ node'["primary"] = t
        /\ node'["secondary"] = node["secondary"]
    BY <1>1, <1>2, OneServer
  <1>5. /\ sock \in [Role -> {"none", "open", "closed"}]
        /\ node["primary"].phase = "disconnected" /\ paired \in BOOLEAN /\ backlog \in BOOLEAN
        /\ ~paired /\ ~backlog /\ chan["primary"] = <<>>
        /\ free => node["secondary"].phase = "disconnected"
    BY <1>1, <1>2 DEF Inv, SocketInv, CoreInv, Core
  <1>6. ~node["primary"].comm
    BY <1>1, <1>5, Servers DEF Talking
  <1>7. Core(node["primary"], node["secondary"], <<>>, chan["secondary"], FALSE, FALSE)
    BY <1>5 DEF Inv, CoreInv
  <1>8. ASSUME free PROVE CoreInv'
    <2>1. Core(t, node["secondary"], <<>>, <<>>, TRUE, TRUE)
      BY <1>3, <1>5, <1>6, <1>7, <1>8, OpenTaken
    <2>2. /\ chan'["primary"] = <<>> /\ chan'["secondary"] = <<>>
          /\ paired' = TRUE /\ backlog' = TRUE
      BY <1>1, <1>2, <1>8
    <2> QED BY <1>4, <2>1, <2>2 DEF CoreInv
  <1>9. ASSUME ~free PROVE CoreInv'
    <2>1. Core(t, node["secondary"], <<>>, chan["secondary"], FALSE, FALSE)
      BY <1>3, <1>6, <1>7, OpenRefused
    <2>2. /\ chan'["primary"] = <<>> /\ chan'["secondary"] = chan["secondary"]
          /\ paired' = FALSE /\ backlog' = FALSE
      BY <1>1, <1>2, <1>5, <1>9
    <2> QED BY <1>4, <2>1, <2>2 DEF CoreInv
  <1>10. SocketInv'
    <2>1. opens \in 0..MaxOpens /\ MaxOpens \in Nat /\ version \in Versions
      BY Constants DEF Inv, SocketInv
    <2>2. opens' \in 0..MaxOpens
      BY <1>2, <2>1
    <2>3. /\ chan' = [r \in Role |-> chan'[r]]
          /\ \A r \in Role : chan'[r] = <<>> \/ chan'[r] = chan[r]
      BY <1>2
    <2>4. \A r \in Role : Len(chan'[r]) <= StreamCapacity
      <3>1. Len(<<>>) <= StreamCapacity
        BY Constants
      <3> QED BY <2>3, <3>1 DEF Inv, SocketInv
    <2>5. /\ sock' \in [Role -> {"none", "open", "closed"}]
          /\ sock'["primary"] = "open" /\ sock'["secondary"] = sock["secondary"]
      BY <1>1, <1>2, <1>5
    <2>6. \A r \in Role : sock'[r] = "none" => node'[r].phase = "disconnected"
      BY <1>4, <1>5, <2>5 DEF Role
    <2>7. reading' = None /\ \A r \in Role : reading' # r
      BY <1>2 DEF None, Role
    <2> QED BY <1>2, <1>4, <2>1, <2>2, <2>3, <2>4, <2>5, <2>6, <2>7 DEF SocketInv
  <1> QED BY <1>8, <1>9, <1>10 DEF Inv

\* Accept.
LEMMA AcceptStep ==
  ASSUME Inv, Accept, reading = None
  PROVE  Inv'
  <1> DEFINE t == TransportConnected(OwnerReset(node["secondary"]))
  <1>1. "primary" \in Role /\ "secondary" \in Role
    BY DEF Role
  <1>2. /\ node' = [node EXCEPT !["secondary"] = t]
        /\ backlog /\ sock' = [sock EXCEPT !["secondary"] = "open"]
        /\ backlog' = FALSE /\ UNCHANGED <<version, paired, chan, reading, opens>>
    BY DEF Accept
  <1>3. Connected(node["secondary"], t)
    BY <1>1, Servers, SessionConnected
  <1> HIDE DEF t
  <1>4. /\ node' = [o \in Role |-> node'[o]] /\ node'["secondary"] = t
        /\ node'["primary"] = node["primary"]
    BY <1>1, <1>2, OneServer
  <1>5. /\ sock \in [Role -> {"none", "open", "closed"}]
        /\ node["secondary"].phase = "disconnected"
        /\ paired = TRUE /\ backlog = TRUE /\ sock["primary"] # "none"
    BY <1>1, <1>2 DEF Inv, SocketInv, CoreInv, Core
  <1>6. ~node["secondary"].comm
    BY <1>1, <1>5, Servers DEF Talking
  <1>7. Core(node["primary"], t, chan["primary"], chan["secondary"], TRUE, FALSE)
    BY <1>3, <1>5, <1>6, AcceptTaken DEF Inv, CoreInv
  <1>8. CoreInv'
    BY <1>2, <1>4, <1>5, <1>7 DEF CoreInv
  <1>9. /\ sock' \in [Role -> {"none", "open", "closed"}]
        /\ sock'["secondary"] = "open" /\ sock'["primary"] = sock["primary"]
    BY <1>1, <1>2, <1>5
  <1>10. \A r \in Role : sock'[r] = "none" => node'[r].phase = "disconnected"
    BY <1>5, <1>9 DEF Role
  <1>11. \A r \in Role : reading' # r
    BY <1>2 DEF None, Role
  <1>12. SocketInv'
    BY <1>2, <1>4, <1>5, <1>9, <1>10, <1>11 DEF Inv, SocketInv
  <1> QED BY <1>8, <1>12 DEF Inv

\* A server gives its socket up with a session s in which its own lasts.
LEMMA CloseStep ==
  ASSUME Inv, NEW r \in Role, NEW s, Lasting(node[r], s), CloseSocket(r, s),
         version' = version, opens' = opens, reading' = None
  PROVE  Inv'
  <1> DEFINE t == TransportClosed(s)
  <1>1. "primary" \in Role /\ "secondary" \in Role /\ (r = "primary" \/ r = "secondary")
    BY DEF Role
  <1>2. /\ node' = [node EXCEPT ![r] = t] /\ sock' = [sock EXCEPT ![r] = "none"]
        /\ paired' = FALSE /\ backlog' = FALSE /\ chan' = [chan EXCEPT ![r] = <<>>]
    BY DEF CloseSocket
  <1>3. s \in Session
    BY DEF Lasting
  <1>4. /\ Lasting(s, t) /\ t.phase = "disconnected" /\ t.pending = <<>> /\ ~t.comm
    BY <1>3, TransportClosedFields
  <1> HIDE DEF t
  <1>5. Shut(node[r], t)
    BY <1>4 DEF Shut, Lasting
  <1>6. /\ node' = [o \in Role |-> node'[o]] /\ node'[r] = t
        /\ \A o \in Role : o # r => node'[o] = node[o]
    BY <1>2, OneServer
  <1>7. /\ sock \in [Role -> {"none", "open", "closed"}] /\ chan = [o \in Role |-> chan[o]]
    BY DEF Inv, SocketInv
  <1>8. /\ chan' = [o \in Role |-> chan'[o]] /\ chan'[r] = <<>>
        /\ \A o \in Role : o # r => chan'[o] = chan[o]
        /\ sock' \in [Role -> {"none", "open", "closed"}] /\ sock'[r] = "none"
        /\ \A o \in Role : o # r => sock'[o] = sock[o]
    BY <1>2, <1>7
  <1>9. CoreInv'
    <2>1. CASE r = "primary"
      BY <1>1, <1>2, <1>5, <1>6, <1>8, <2>1, ShutMain DEF Inv, CoreInv
    <2>2. CASE r = "secondary"
      BY <1>1, <1>2, <1>5, <1>6, <1>8, <2>2, ShutPeer DEF Inv, CoreInv
    <2> QED BY <1>1, <2>1, <2>2
  <1>10. SocketInv'
    <2>1. \A o \in Role : Len(chan'[o]) <= StreamCapacity
      <3>1. Len(<<>>) <= StreamCapacity
        BY Constants
      <3> QED BY <1>8, <3>1 DEF Inv, SocketInv
    <2>2. \A o \in Role : sock'[o] = "none" => node'[o].phase = "disconnected"
      BY <1>4, <1>6, <1>8 DEF Inv, SocketInv
    <2>3. sock'["primary"] = "none" => chan'["primary"] = <<>>
      BY <1>1, <1>8 DEF Inv, SocketInv
    <2>4. \A o \in Role : reading' # o
      BY DEF None, Role
    <2> QED BY <1>2, <1>6, <1>8, <2>1, <2>2, <2>3, <2>4 DEF Inv, SocketInv
  <1> QED BY <1>9, <1>10 DEF Inv

\* What the read loop makes of a message, whatever the session is waiting for.
LEMMA Dispatched ==
  ASSUME Inv, NEW r \in Role, chan[r] # <<>>
  PROVE  LET d == Dispatch(node[r], Head(chan[r]))
             h == Head(chan[r]) IN
         /\ d.ok => \/ node[r].phase \in Talking /\ Effect(node[r], h, d.s)
                    \/ /\ Begun(node[r], d.s)
                       /\ \/ /\ node[r].phase = "awaiting_connect"
                             /\ h.type = "connect" /\ r = "secondary"
                          \/ /\ node[r].phase = "awaiting_connect_ack"
                             /\ h.type = "connect_ack" /\ r = "primary"
         /\ ~d.ok => Lasting(node[r], d.s)
  <1> DEFINE s == node[r]
             h == Head(chan[r])
             d == Dispatch(s, h)
  <1>1. /\ s \in Session /\ s.role = r /\ QueueOk(s.role, s.pending)
        /\ s.phase \in Talking /\ s.sync = 0 => ~Has(s.pending, "update_request_all")
        /\ s.phase \in {"awaiting_connect", "awaiting_connect_ack"} => Opened(s)
        /\ chan[r] \in Seq(Message)
    BY Servers
  <1>2. h \in Message
    BY <1>1, MorePopped
  <1>3. s.phase \in Talking \union {"awaiting_connect", "awaiting_connect_ack",
                                    "disconnected"}
    BY <1>1 DEF Session, Phase, Talking
  <1> HIDE DEF s, h
  <1>4. CASE s.phase \in Talking
    <2>1. (d.ok => Effect(s, h, d.s)) /\ (~d.ok => Lasting(s, d.s))
      BY <1>1, <1>2, <1>4, DispatchTalking
    <2> QED BY <1>4, <2>1 DEF s, h
  <1>5. CASE s.phase \in {"awaiting_connect", "awaiting_connect_ack"}
    <2>1. /\ d.ok => /\ Begun(s, d.s)
                     /\ h.type = IF s.phase = "awaiting_connect" THEN "connect"
                                                                 ELSE "connect_ack"
          /\ ~d.ok => Lasting(s, d.s)
      BY <1>1, <1>2, <1>5, DispatchOpened
    <2>2. /\ s.phase = "awaiting_connect" => r = "secondary"
          /\ s.phase = "awaiting_connect_ack" => r = "primary"
      BY <1>1, <1>5 DEF Opened
    <2> QED BY <1>5, <2>1, <2>2 DEF s, h
  <1>6. CASE s.phase = "disconnected"
    <2>1. d = [s |-> s, ok |-> FALSE] /\ Lasting(s, s)
      BY <1>1, <1>6, DispatchDisconnected
    <2> QED BY <2>1 DEF s, h
  <1> QED BY <1>3, <1>4, <1>5, <1>6

\* A message of the read loop that the server accepts.
LEMMA ReadCore ==
  ASSUME Inv, NEW r \in Role, NEW t, chan[r] # <<>>, Only(node[r].out, {"binding_ack"}),
         \/ node[r].phase \in Talking /\ Effect(node[r], Head(chan[r]), t)
         \/ /\ Begun(node[r], t)
            /\ \/ /\ node[r].phase = "awaiting_connect"
                  /\ Head(chan[r]).type = "connect" /\ r = "secondary"
               \/ /\ node[r].phase = "awaiting_connect_ack"
                  /\ Head(chan[r]).type = "connect_ack" /\ r = "primary"
  PROVE  /\ r = "primary" => Core(t, node["secondary"], Tail(chan["primary"]),
                                  chan["secondary"], paired, backlog)
         /\ r = "secondary" => Core(node["primary"], t, chan["primary"],
                                    Tail(chan["secondary"]), paired, backlog)
  <1>1. CASE r = "primary"
    BY <1>1, EffectMain, BegunMain DEF Inv, CoreInv
  <1>2. CASE r = "secondary"
    BY <1>2, EffectPeer, BegunPeer DEF Inv, CoreInv
  <1> QED BY <1>1, <1>2 DEF Role

\* What a server has to write while it reads is an acknowledgement.
LEMMA ReadOut ==
  ASSUME NEW s, NEW m \in Message, NEW t, Only(s.out, {"binding_ack"}),
         Effect(s, m, t) \/ Begun(s, t)
  PROVE  Only(t.out, {"binding_ack"})
  <1>1. CASE t.out = s.out
    BY <1>1
  <1>2. CASE t.out = <<[m EXCEPT !.type = "binding_ack"]>>
    <2> DEFINE a == [m EXCEPT !.type = "binding_ack"]
    <2>1. a.type = "binding_ack"
      BY DEF Message
    <2>2. t.out = <<a>>
      BY <1>2
    <2> HIDE DEF a
    <2> QED BY <2>1, <2>2, OneMessage
  <1> QED BY <1>1, <1>2 DEF Effect, Begun

\* Read.
LEMMA ReadStep ==
  ASSUME Inv, NEW r \in Role, Read(r)
  PROVE  Inv'
  <1> DEFINE d == Dispatch(node[r], Head(chan[r]))
  <1>1. /\ sock[r] = "open" /\ chan[r] # <<>>
        /\ reading = r \/ (reading = None /\ node[r].out = <<>>)
        /\ \/ /\ d.ok
              /\ node' = [node EXCEPT ![r] = d.s]
              /\ chan' = [chan EXCEPT ![r] = Tail(chan[r])]
              /\ reading' = r
              /\ UNCHANGED <<sock, paired, backlog>>
           \/ ~d.ok /\ CloseSocket(r, d.s) /\ reading' = None
        /\ version' = version /\ opens' = opens
    BY DEF Read
  <1>2. /\ d.ok => \/ node[r].phase \in Talking /\ Effect(node[r], Head(chan[r]), d.s)
                   \/ /\ Begun(node[r], d.s)
                      /\ \/ /\ node[r].phase = "awaiting_connect"
                            /\ Head(chan[r]).type = "connect" /\ r = "secondary"
                         \/ /\ node[r].phase = "awaiting_connect_ack"
                            /\ Head(chan[r]).type = "connect_ack" /\ r = "primary"
        /\ ~d.ok => Lasting(node[r], d.s)
    BY <1>1, Dispatched
  <1> HIDE DEF d
  <1>3. Only(node[r].out, {"binding_ack"})
    <2>1. Only(<<>>, {"binding_ack"})
      BY OneMessage
    <2> QED BY <1>1, <2>1 DEF Inv, SocketInv
  <1>4. ASSUME ~d.ok, CloseSocket(r, d.s), reading' = None PROVE Inv'
    BY <1>1, <1>2, <1>4, CloseStep
  <1>5. ASSUME d.ok, node' = [node EXCEPT ![r] = d.s],
               chan' = [chan EXCEPT ![r] = Tail(chan[r])],
               reading' = r, UNCHANGED <<sock, paired, backlog>>
        PROVE  Inv'
    <2>1. /\ r = "primary" => Core(d.s, node["secondary"], Tail(chan["primary"]),
                                   chan["secondary"], paired, backlog)
          /\ r = "secondary" => Core(node["primary"], d.s, chan["primary"],
                                     Tail(chan["secondary"]), paired, backlog)
      BY <1>1, <1>2, <1>3, <1>5, ReadCore
    <2>2. /\ node' = [o \in Role |-> node'[o]] /\ node'[r] = d.s
          /\ \A o \in Role : o # r => node'[o] = node[o]
      BY <1>5, OneServer
    <2>3. chan = [o \in Role |-> chan[o]] /\ "primary" \in Role /\ "secondary" \in Role
      BY DEF Inv, SocketInv, Role
    <2>4. /\ chan' = [o \in Role |-> chan'[o]] /\ chan'[r] = Tail(chan[r])
          /\ \A o \in Role : o # r => chan'[o] = chan[o]
      BY <1>5, <2>3
    <2>5. CoreInv'
      <3>1. ASSUME r = "primary" PROVE CoreInv'
        BY <1>5, <2>1, <2>2, <2>3, <2>4, <3>1 DEF CoreInv
      <3>2. ASSUME r = "secondary" PROVE CoreInv'
        BY <1>5, <2>1, <2>2, <2>3, <2>4, <3>2 DEF CoreInv
      <3> QED BY <3>1, <3>2 DEF Role
    <2>6. chan[r] \in Seq(Message) /\ Head(chan[r]) \in Message
      BY <1>1, Servers, MorePopped
    <2>7. Only(d.s.out, {"binding_ack"})
      BY <1>2, <1>3, <1>5, <2>6, ReadOut
    <2>8. \A o \in Role : Len(chan'[o]) <= StreamCapacity
      <3>1. Len(Tail(chan[r])) = Len(chan[r]) - 1 /\ Len(chan[r]) \in Nat
        BY <1>1, <2>6, Popped
      <3>2. \A o \in Role : Len(chan[o]) <= StreamCapacity
        BY DEF Inv, SocketInv
      <3>3. Len(chan'[r]) <= StreamCapacity
        BY <2>4, <3>1, <3>2, Constants
      <3> QED BY <2>4, <3>2, <3>3
    <2>9. \A o \in Role : sock'[o] = "none" => node'[o].phase = "disconnected"
      BY <1>1, <1>5, <2>2 DEF Inv, SocketInv
    <2>10. sock'["primary"] = "none" => chan'["primary"] = <<>>
      BY <1>1, <1>5, <2>3, <2>4 DEF Inv, SocketInv
    <2>11. \A o \in Role : reading' = o => Only(node'[o].out, {"binding_ack"})
                                           /\ sock'[o] = "open"
      BY <1>1, <1>5, <2>2, <2>7
    <2>12. SocketInv'
      BY <1>1, <1>5, <2>2, <2>4, <2>8, <2>9, <2>10, <2>11 DEF Inv, SocketInv
    <2> QED BY <2>5, <2>12 DEF Inv
  <1> QED BY <1>1, <1>4, <1>5

\* The synchronisation step and the next pending message, one after the other.
LEMMA TurnCore ==
  ASSUME Inv, NEW r \in Role
  PROVE  LET step == SynchronizationStep(node[r])
             u == PrepareNext(step) IN
         /\ step.phase = node[r].phase
         /\ u \in Session /\ Len(u.out) <= 1
         /\ u.phase = node[r].phase \/ u.phase = "disconnected"
         /\ r = "primary" => Core(u, node["secondary"], chan["primary"],
                                  chan["secondary"], paired, backlog)
         /\ r = "secondary" => Core(node["primary"], u, chan["primary"],
                                    chan["secondary"], paired, backlog)
  <1> DEFINE s == node[r]
             t == SynchronizationStep(s)
             u == PrepareNext(t)
  <1>1. /\ s \in Session /\ s.role = r /\ Len(s.out) <= 1 /\ QueueOk(s.role, s.pending)
        /\ s.req # 0 => ~Has(s.pending, "update_done")
    BY Servers
  <1> HIDE DEF s
  <1>2. Stepped(s, t)
    BY <1>1, SynchronizationStepped
  <1> HIDE DEF t
  <1>3. Local(s, t)
    BY <1>1, <1>2, SteppedLocal
  <1>4. /\ t \in Session /\ Len(t.out) <= 1 /\ QueueOk(t.role, t.pending)
        /\ t.req # 0 => ~Has(t.pending, "update_done")
    BY <1>3 DEF Local
  <1>5. Prepared(t, u)
    BY <1>4, NextPrepared
  <1> HIDE DEF u
  <1>6. Local(t, u)
    BY <1>4, <1>5, PreparedLocal
  <1>7. t.phase = s.phase
    BY <1>2 DEF Stepped
  <1>8. u \in Session /\ Len(u.out) <= 1 /\ (u.phase = s.phase \/ u.phase = "disconnected")
    BY <1>6, <1>7 DEF Local
  <1>9. r = "primary" => Core(u, node["secondary"], chan["primary"], chan["secondary"],
                              paired, backlog)
    <2>1. r = "primary" => Core(t, node["secondary"], chan["primary"], chan["secondary"],
                                paired, backlog)
      BY <1>3, LocalMain DEF Inv, CoreInv, s
    <2> QED BY <1>6, <2>1, LocalMain
  <1>10. r = "secondary" => Core(node["primary"], u, chan["primary"], chan["secondary"],
                                 paired, backlog)
    <2>1. r = "secondary" => Core(node["primary"], t, chan["primary"], chan["secondary"],
                                  paired, backlog)
      BY <1>3, LocalPeer DEF Inv, CoreInv, s
    <2> QED BY <1>6, <2>1, LocalPeer
  <1> QED BY <1>7, <1>8, <1>9, <1>10 DEF s, t, u

\* TCP takes the one message there is to write.
LEMMA TakenWritten ==
  ASSUME NEW s \in Session, s.out # <<>>, Len(s.out) <= 1
  PROVE  \E e \in Message : Written(s, e, [s EXCEPT !.out = <<>>])
  <1> DEFINE t == [s EXCEPT !.out = <<>>]
             e == Head(s.out)
  <1>1. s.out \in Seq(Message) /\ <<>> \in Seq(Message)
    BY DEF Session
  <1>2. s.out = <<e>> /\ e \in Message
    <2>1. e \in Message /\ Len(s.out) \in Nat \ {0} /\ s.out[1] = e
          /\ DOMAIN s.out = 1..Len(s.out)
      BY <1>1, Popped
    <2>2. Len(s.out) = 1
      <3> DEFINE n == Len(s.out)
      <3>1. n \in Nat \ {0} /\ n <= 1
        BY <2>1
      <3> HIDE DEF n
      <3>2. n = 1
        BY <3>1
      <3> QED BY <3>2 DEF n
    <2>3. s.out = <<s.out[1]>>
      <3>1. DOMAIN s.out = 1..1 /\ s.out = [i \in DOMAIN s.out |-> s.out[i]]
        BY <1>1, <2>1, <2>2
      <3> QED BY <3>1
    <2> QED BY <2>1, <2>3
  <1> HIDE DEF e
  <1>3. /\ t \in Session /\ t.out = <<>>
        /\ t.role = s.role /\ t.phase = s.phase /\ t.pending = s.pending /\ t.comm = s.comm
        /\ t.sync = s.sync /\ t.req = s.req /\ t.todo = s.todo
        /\ t.leases = s.leases /\ t.got = s.got
        /\ t.state = s.state /\ t.complete = s.complete /\ t.escaped = s.escaped
    BY <1>1 DEF Session
  <1> HIDE DEF t
  <1>4. \A all : Updated(s, all) => Updated(t, all)
    BY <1>3 DEF Updated
  <1>5. Written(s, e, t)
    BY <1>2, <1>3, <1>4 DEF Written
  <1> QED BY <1>2, <1>5 DEF t

\* Transmit.
LEMMA TransmitStep ==
  ASSUME Inv, NEW r \in Role, Transmit(r)
  PROVE  Inv'
  <1> DEFINE step == SynchronizationStep(node[r])
             u == PrepareNext(step)
             o == Other(r)
  <1>1. /\ step.phase = node[r].phase
        /\ u \in Session /\ Len(u.out) <= 1
        /\ u.phase = node[r].phase \/ u.phase = "disconnected"
        /\ r = "primary" => Core(u, node["secondary"], chan["primary"],
                                 chan["secondary"], paired, backlog)
        /\ r = "secondary" => Core(node["primary"], u, chan["primary"],
                                   chan["secondary"], paired, backlog)
    BY TurnCore
  <1>2. /\ sock[r] = "open" /\ reading' = None
        /\ WriteOut(r, u) /\ UNCHANGED <<paired, backlog>>
        /\ version' = version /\ opens' = opens
    BY <1>1 DEF Transmit
  <1>3. /\ \/ /\ u.out # <<>> /\ paired /\ Len(chan[o]) < StreamCapacity
              /\ chan' = [chan EXCEPT ![o] = chan[o] \o u.out]
              /\ node' = [node EXCEPT ![r] = [u EXCEPT !.out = <<>>]]
              /\ sock' = sock
           \/ /\ node' = [node EXCEPT ![r] = u] /\ chan' = chan /\ sock' = sock
           \/ /\ ~paired /\ node' = [node EXCEPT ![r] = u] /\ chan' = chan
              /\ sock' = [sock EXCEPT ![r] = "closed"]
    BY <1>2 DEF WriteOut
  <1> HIDE DEF step, u
  <1>4. /\ "primary" \in Role /\ "secondary" \in Role /\ (r = "primary" \/ r = "secondary")
        /\ o \in Role /\ o # r
        /\ r = "primary" => o = "secondary"
        /\ r = "secondary" => o = "primary"
    BY Roles DEF Role
  <1> HIDE DEF o
  <1>5. /\ paired \in BOOLEAN /\ backlog \in BOOLEAN
        /\ sock \in [Role -> {"none", "open", "closed"}] /\ chan = [q \in Role |-> chan[q]]
        /\ \A q \in Role : sock[q] = "none" => node[q].phase = "disconnected"
        /\ backlog => sock["secondary"] = "none"
        /\ paired => sock["primary"] # "none"
        /\ paired => sock["secondary"] # "none" \/ backlog
        /\ backlog => paired
        /\ sock["primary"] = "none" => chan["primary"] = <<>>
        /\ \A q \in Role : Len(chan[q]) <= StreamCapacity
        /\ version \in Versions /\ opens \in 0..MaxOpens
    BY DEF Inv, SocketInv, CoreInv, Core
  <1>6. \A q \in Role : reading' # q
    BY <1>2 DEF None, Role
  <1>7. ASSUME u.out # <<>>, paired, Len(chan[o]) < StreamCapacity,
               chan' = [chan EXCEPT ![o] = chan[o] \o u.out],
               node' = [node EXCEPT ![r] = [u EXCEPT !.out = <<>>]], sock' = sock
        PROVE  Inv'
    <2> DEFINE t == [u EXCEPT !.out = <<>>]
    <2>1. PICK e \in Message : Written(u, e, t)
      BY <1>1, <1>7, TakenWritten
    <2>2. /\ node' = [q \in Role |-> node'[q]] /\ node'[r] = t
          /\ \A q \in Role : q # r => node'[q] = node[q]
      BY <1>7, OneServer
    <2> HIDE DEF t
    <2>3. chan[o] \in Seq(Message) /\ u.out = <<e>>
      BY <1>4, <2>1, Servers DEF Written
    <2>4. /\ chan[o] \o u.out = Append(chan[o], e)
          /\ Len(Append(chan[o], e)) = Len(chan[o]) + 1 /\ Len(chan[o]) \in Nat
      BY <2>3, Pushed
    <2>5. /\ chan' = [q \in Role |-> chan'[q]] /\ chan'[o] = Append(chan[o], e)
          /\ \A q \in Role : q # o => chan'[q] = chan[q]
      BY <1>4, <1>5, <1>7, <2>4
    <2>6. paired = TRUE /\ paired' = TRUE /\ backlog' = backlog
      BY <1>2, <1>5, <1>7
    <2>7. ASSUME r = "primary" PROVE CoreInv'
      <3>1. Core(t, node["secondary"], chan["primary"], Append(chan["secondary"], e),
                 TRUE, backlog)
        BY <1>1, <2>1, <2>6, <2>7, WrittenMain
      <3> QED BY <1>4, <2>2, <2>5, <2>6, <2>7, <3>1 DEF CoreInv
    <2>8. ASSUME r = "secondary" PROVE CoreInv'
      <3>1. backlog = FALSE
        BY <1>2, <1>5, <2>8
      <3>2. Core(node["primary"], t, Append(chan["primary"], e), chan["secondary"],
                 TRUE, FALSE)
        BY <1>1, <2>1, <2>6, <2>8, <3>1, WrittenPeer
      <3> QED BY <1>4, <2>2, <2>5, <2>6, <2>8, <3>1, <3>2 DEF CoreInv
    <2>9. \A q \in Role : Len(chan'[q]) <= StreamCapacity
      <3>1. Len(chan'[o]) <= StreamCapacity
        BY <1>7, <2>4, <2>5, Constants
      <3> QED BY <1>5, <2>5, <3>1
    <2>10. \A q \in Role : sock'[q] = "none" => node'[q].phase = "disconnected"
      BY <1>2, <1>5, <1>7, <2>2
    <2>11. sock'["primary"] = "none" => chan'["primary"] = <<>>
      BY <1>5, <1>7
    <2>12. SocketInv'
      BY <1>2, <1>5, <1>6, <1>7, <2>2, <2>5, <2>9, <2>10, <2>11 DEF SocketInv, Inv
    <2> QED BY <1>4, <2>7, <2>8, <2>12 DEF Inv
  <1>8. ASSUME node' = [node EXCEPT ![r] = u], chan' = chan,
               sock' = sock \/ (~paired /\ sock' = [sock EXCEPT ![r] = "closed"])
        PROVE  Inv'
    <2>1. /\ node' = [q \in Role |-> node'[q]] /\ node'[r] = u
          /\ \A q \in Role : q # r => node'[q] = node[q]
      BY <1>8, OneServer
    <2>2. CoreInv'
      BY <1>1, <1>2, <1>4, <1>8, <2>1 DEF CoreInv
    <2>3. /\ sock' \in [Role -> {"none", "open", "closed"}]
          /\ \A q \in Role : sock'[q] = "none" <=> sock[q] = "none"
      BY <1>2, <1>5, <1>8
    <2>4. \A q \in Role : sock'[q] = "none" => node'[q].phase = "disconnected"
      BY <1>2, <1>5, <2>1, <2>3
    <2>5. SocketInv'
      BY <1>2, <1>4, <1>5, <1>6, <1>8, <2>1, <2>3, <2>4 DEF SocketInv, Inv
    <2> QED BY <2>2, <2>5 DEF Inv
  <1> QED BY <1>3, <1>7, <1>8

\* Every step of the specification keeps the invariant.
LEMMA NextInv ==
  ASSUME Inv, [Next]_vars
  PROVE  Inv'
  <1>1. CASE Next
    <2>1. ASSUME reading = None, Open PROVE Inv'
      BY <2>1, OpenStep
    <2>2. ASSUME reading = None, Accept PROVE Inv'
      BY <2>2, AcceptStep
    <2>3. ASSUME Tick PROVE Inv'
      BY <2>3, TickStep
    <2>4. ASSUME NEW r \in Role, reading = None, Closed(r) PROVE Inv'
      <3>1. Lasting(node[r], node[r])
        BY Servers DEF Lasting
      <3> QED BY <2>4, <3>1, CloseStep DEF Closed
    <2>5. ASSUME NEW r \in Role, Service(r) PROVE Inv'
      BY <2>5, ServiceStep
    <2>6. ASSUME NEW r \in Role, reading = None, Lose(r) PROVE Inv'
      BY <2>6, LoseStep
    <2>7. ASSUME NEW r \in Role, RequestPartnerDown(r) PROVE Inv'
      BY <2>7, PartnerDownStep
    <2>8. ASSUME NEW r \in Role, Read(r) PROVE Inv'
      BY <2>8, ReadStep
    <2>9. ASSUME NEW r \in Role, Transmit(r) PROVE Inv'
      BY <2>9, TransmitStep
    <2> QED BY <1>1, <2>1, <2>2, <2>3, <2>4, <2>5, <2>6, <2>7, <2>8, <2>9 DEF Next
  <1>2. CASE UNCHANGED vars
    BY <1>2 DEF vars, Inv, SocketInv, CoreInv
  <1> QED BY <1>1, <1>2

----------------------------------------------------------------------------
(***************************************************************************)
(* The theorems.                                                           *)
(***************************************************************************)

\* The invariant holds in every reachable state of service_dhcp_failover().
THEOREM Invariance == Spec => []Inv
  <1>1. Init => Inv
    BY InitInv
  <1>2. Inv /\ [Next]_vars => Inv'
    BY NextInv
  <1> QED BY <1>1, <1>2, PTL DEF Spec

\* Every field of the session, the endpoint and the owner stays in its domain,
\* and neither the pending queue nor the stream outgrows its capacity.
THEOREM Typing == Spec => []TypeOK
  <1>1. ASSUME Inv PROVE TypeOK
    <2>1. ASSUME NEW r \in Role
          PROVE  /\ \A i \in DOMAIN chan[r] : chan[r][i] \in Message
                 /\ node[r].phase \in Phase /\ node[r].state \in State
                 /\ node[r].partner \in State \union {None}
                 /\ node[r].comm \in BOOLEAN /\ node[r].complete \in BOOLEAN
                 /\ node[r].contactIn \in Timer(ResponseDelay)
                 /\ node[r].next \in 1..MaxXid
                 /\ Len(node[r].pending) <= PendingCapacity
                 /\ Len(node[r].out) <= 1
      <3>1. /\ node[r] \in Session /\ chan[r] \in Seq(Message)
            /\ QueueOk(r, node[r].pending) /\ Len(node[r].out) <= 1
        BY <1>1, Servers
      <3>2. node[r].pending \in Seq(Entry)
        BY <3>1 DEF Session
      <3>3. Len(node[r].pending) < PendingCapacity /\ Len(node[r].pending) \in Nat
        BY <3>1, <3>2, Room
      <3>4. Len(node[r].pending) <= PendingCapacity
        BY <3>3, Constants
      <3>5. \A i \in DOMAIN chan[r] : chan[r][i] \in Message
        BY <3>1
      <3> QED BY <3>1, <3>4, <3>5 DEF Session
    <2>2. paired \in BOOLEAN /\ backlog \in BOOLEAN
      BY <1>1 DEF Inv, CoreInv, Core
    <2> QED BY <1>1, <2>1, <2>2 DEF TypeOK, Inv, SocketInv
  <1> QED BY <1>1, Invariance, PTL

\* Endpoint::communication_changed(): communication is up only while the server
\* holds a socket and has accepted the negotiation of this very connection.
THEOREM Negotiation == Spec => []CommunicationNeedsNegotiation
  <1>1. ASSUME Inv PROVE CommunicationNeedsNegotiation
    <2>1. SUFFICES ASSUME NEW r \in Role, node[r].comm
                   PROVE  node[r].phase \in {"synchronizing", "established"}
                          /\ sock[r] # "none"
      BY DEF CommunicationNeedsNegotiation
    <2>2. node[r].phase \in Talking
      BY <1>1, <2>1, Servers
    <2> QED BY <1>1, <2>2 DEF Talking, Inv, SocketInv
  <1> QED BY <1>1, Invariance, PTL

\* UPDDONE: whatever was left over from an earlier connection, one that reaches
\* a negotiated session answers the request this session has outstanding.
THEOREM AnswersMatch == Spec => []UpdateDoneAnswersRequest
  <1>1. ASSUME Inv PROVE UpdateDoneAnswersRequest
    <2>1. SUFFICES ASSUME NEW r \in Role, NEW i \in DOMAIN chan[r],
                          chan[r][i].type = "update_done", node[r].phase \in Talking
                   PROVE  chan[r][i].xid = node[r].sync
      BY DEF UpdateDoneAnswersRequest, Talking
    <2>2. Once(chan[r], "update_done", node[r].sync)
      BY <1>1, <2>1 DEF Inv, CoreInv, Core, Request, Role
    <2> QED BY <2>1, <2>2 DEF Once, Carries
  <1> QED BY <1>1, Invariance, PTL

\* A server that answers clients has received every binding of its partner
\* since it was last configured, but for the escapes the protocol provides.
THEOREM ServesUpToDate == Spec => []ServesOnlyAfterFullUpdate
  <1>1. ASSUME Inv PROVE ServesOnlyAfterFullUpdate
    <2>1. SUFFICES ASSUME NEW r \in Role, Responsiveness(node[r]) # "unresponsive",
                          node[r].state # "resolution_interrupted"
                   PROVE  node[r].escaped \/ InitialLeases[Other(r)] \subseteq node[r].got
      BY DEF ServesOnlyAfterFullUpdate
    <2>2. Updated(node[r], InitialLeases[Other(r)])
      BY <1>1, Roles DEF Inv, CoreInv, Core, Alone, Role
    <2>3. node[r].state \in Served \union {"partner_down"}
      BY <2>1 DEF Responsiveness, ResponsivenessV4, ResponsivenessV6, Served
    <2> QED BY <2>2, <2>3 DEF Updated
  <1> QED BY <1>1, Invariance, PTL

\* Session::enqueue(): the pending queue never refuses an entry, because it
\* holds at most one message of each of five types.
THEOREM PendingHasRoom == Spec => []PendingNeverFull
  <1>1. ASSUME Inv PROVE PendingNeverFull
    <2>1. SUFFICES ASSUME NEW r \in Role PROVE Len(node[r].pending) < PendingCapacity
      BY DEF PendingNeverFull
    <2>2. node[r] \in Session /\ QueueOk(r, node[r].pending)
      BY <1>1, Servers
    <2>3. node[r].pending \in Seq(Entry)
      BY <2>2 DEF Session
    <2> QED BY <2>2, <2>3, Room
  <1> QED BY <1>1, Invariance, PTL
===========================================================================
