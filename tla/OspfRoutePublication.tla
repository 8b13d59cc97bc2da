------------------------ MODULE OspfRoutePublication ------------------------
(***************************************************************************)
(* How OSPF routes reach the forwarding tables: the OSPF ControlWorker     *)
(* publishes complete route generations, one per router, through the       *)
(* RouteGenerationChannel, and the network owner (NetworkPlaneWorker)      *)
(* installs them when it pumps.  Both threads sleep on condition variables *)
(* between turns.  A notify is one step here: it sets its durable          *)
(* predicate, waits for the mutex and wakes a sleeper, which is what       *)
(* ControlProjectionWorker shows of the same code in small steps.          *)
(***************************************************************************)
EXTENDS Naturals, Sequences

CONSTANTS NumRouters,   \* routers with an OSPF configuration
          Capacity,     \* slots of the channel: RouteChannel has two
          MaxVersion,   \* bound: route sets each router goes through
          MaxSkipped,   \* bound: generation numbers counted but not published
          Keep,         \* what a configuration leaves: TRUE for some process
          Oversized,    \* routers whose processes compute more than a slot holds
          Nothing, NoHandle

Routers == 1 .. NumRouters
Versions == 0 .. MaxVersion
Numbers == 0 .. MaxVersion + MaxSkipped

\* RouteGeneration: the device, its generation number and its routes.
RouteGenerations == [router : Routers, generation : Numbers, routes : Versions]

ASSUME PublicationAssumption ==
    /\ NumRouters \in Nat \ {0} /\ Capacity \in Nat \ {0}
    /\ MaxVersion \in Nat /\ MaxSkipped \in Nat
    /\ Keep \subseteq BOOLEAN /\ Oversized \subseteq Routers
    /\ Nothing \notin RouteGenerations /\ NoHandle \notin 0 .. Capacity - 1

VARIABLES
    available, ready, returned, slots, ppc, held, loan, received,  \* channel
    routes,       \* the routes the OSPF processes of a router have computed
    processes,    \* whether a router has an OSPF process (and so a deadline)
    published,    \* published_route_generation: what was acknowledged
    pending,      \* route_publication_pending_
    generation,   \* next_route_generation_
    workPending,  \* work_pending_
    wpc, cursor,  \* OSPF worker: where it is in its turn, the router it serves
    commands, results,  \* rings of the OSPF worker, one command at a time
    linkPending,  \* forwarding_egress_pending_ of the network owner
    npc,          \* network owner: where it is in its turn
    manager       \* RouteManagerState of each router

channel == <<available, ready, returned, slots, ppc, held, loan, received>>
ospf == <<routes, processes, published, pending, generation>>
worker == <<workPending, wpc, cursor>>
rings == <<commands, results>>
network == <<linkPending, npc, manager>>
vars == <<channel, ospf, worker, rings, network>>

Channel == INSTANCE HandleChannel WITH Payloads <- RouteGenerations

Init ==
    /\ Channel!Init
    /\ routes = [r \in Routers |-> 0]
    /\ processes = [r \in Routers |-> TRUE]
    /\ published = [r \in Routers |-> 0]
    /\ pending = [r \in Routers |-> FALSE]
    /\ generation = [r \in Routers |-> 0]
    /\ workPending = FALSE /\ wpc = "top" /\ cursor = 1
    /\ commands = <<>> /\ results = <<>>
    /\ linkPending = FALSE /\ npc = "wait"
    /\ manager = [r \in Routers |-> [generation |-> 0, routes |-> 0]]

-----------------------------------------------------------------------------
(* The OSPF worker: one turn of ControlWorker::run().                      *)

\* A turn starts by clearing the wake-up it answers.
StartTurn ==
    /\ wpc = "top"
    /\ wpc' = "commands"
    /\ workPending' = FALSE
    /\ UNCHANGED <<channel, ospf, cursor, rings, network>>

\* A slip in apply(): the replacement of a configuration is not marked.
ApplyUnmarked ==
    /\ wpc = "commands"
    /\ commands # <<>>
    /\ LET c == Head(commands) IN
       /\ processes' = [processes EXCEPT ![c.router] = c.keep]
       /\ routes' = [routes EXCEPT ![c.router] = @ + 1]
    /\ commands' = Tail(commands)
    /\ results' = Append(results, "done")
    /\ UNCHANGED <<channel, worker, network, published, pending, generation>>

\* A command that replaces or removes the OSPF configuration of a router.
Apply ==
    /\ wpc = "commands"
    /\ commands # <<>>
    /\ LET c == Head(commands) IN
       /\ processes' = [processes EXCEPT ![c.router] = c.keep]
       /\ routes' = [routes EXCEPT ![c.router] = @ + 1]
       /\ pending' = [pending EXCEPT ![c.router] = TRUE]
    /\ commands' = Tail(commands)
    /\ results' = Append(results, "done")
    /\ UNCHANGED <<channel, worker, network, published, generation>>

\* A packet or a timer makes a process compute other routes.  The bound leaves
\* a version to the command under way.
RunProcess(r) ==
    /\ wpc = "commands"
    /\ processes[r]
    /\ routes[r] + Len(commands) < MaxVersion
    /\ routes' = [routes EXCEPT ![r] = @ + 1]
    /\ UNCHANGED <<channel, worker, rings, network, processes, published,
                   pending, generation>>

\* The commands are done, publication walks over the routers.
StartPublishing ==
    /\ wpc = "commands"
    /\ commands = <<>>
    /\ wpc' = "publish"
    /\ cursor' = 1
    /\ UNCHANGED <<channel, ospf, workPending, rings, network>>

\* The routers publish_routes has something to publish for.
Dirty(r) == pending[r] \/ (processes[r] /\ routes[r] # published[r])

Serving == wpc = "publish" /\ cursor \in Routers

NothingToPublish ==
    /\ Serving /\ ppc = "idle"
    /\ ~Dirty(cursor)
    /\ cursor' = cursor + 1
    /\ UNCHANGED <<channel, ospf, workPending, wpc, rings, network>>

\* try_acquire: the returned slots are reclaimed, then one is taken.
BeginAcquire ==
    /\ Serving
    /\ Dirty(cursor)
    /\ Channel!Call \/ Channel!Reclaim \/ Channel!Acquire
    /\ UNCHANGED <<ospf, worker, rings, network>>

\* No slot: the router stays dirty, the turn goes on with the next one.
Backpressure ==
    /\ Serving
    /\ available = <<>>
    /\ Channel!ReturnReclaimed
    /\ cursor' = cursor + 1
    /\ UNCHANGED <<ospf, workPending, wpc, rings, network>>

Overflows(r) == r \in Oversized /\ processes[r]

\* A number is spent without a publication; no more than MaxSkipped count.
SkipNumber(r) ==
    generation' = [generation EXCEPT ![r] =
                      IF @ + 1 < routes[r] + MaxSkipped THEN @ + 1 ELSE @]

\* A slip: a generation that does not fit keeps its slot.
OverflowLeaking ==
    /\ Serving
    /\ Overflows(cursor)
    /\ ppc = "write"
    /\ ppc' = "idle" /\ held' = NoHandle
    /\ SkipNumber(cursor)
    /\ cursor' = cursor + 1
    /\ UNCHANGED <<available, ready, returned, slots, loan, received, routes,
                   processes, published, pending, workPending, wpc, rings, network>>

\* cancel(): the generation does not fit; its number is spent, the router stays
\* dirty.
Overflow ==
    /\ Serving
    /\ Overflows(cursor)
    /\ Channel!Cancel
    /\ SkipNumber(cursor)
    /\ cursor' = cursor + 1
    /\ UNCHANGED <<routes, processes, published, pending, workPending, wpc, rings,
                   network>>

\* A slip: the generation number is not advanced before it is written.
FillSameGeneration ==
    /\ Serving /\ ~Overflows(cursor)
    /\ generation' = [generation EXCEPT ![cursor] = @ + 1]
    /\ Channel!Write([router |-> cursor, generation |-> generation[cursor],
                      routes |-> routes[cursor]])
    /\ UNCHANGED <<routes, processes, published, pending, worker, rings, network>>

\* The slot is filled with the complete generation of the router.
Fill ==
    /\ Serving /\ ~Overflows(cursor)
    /\ generation' = [generation EXCEPT ![cursor] = @ + 1]
    /\ Channel!Write([router |-> cursor, generation |-> generation'[cursor],
                      routes |-> routes[cursor]])
    /\ UNCHANGED <<routes, processes, published, pending, worker, rings, network>>

\* A slip: the network owner is not woken after a publication.
PublishSilently ==
    /\ Serving
    /\ Channel!Publish
    /\ published' = [published EXCEPT ![cursor] = routes[cursor]]
    /\ pending' = [pending EXCEPT ![cursor] = FALSE]
    /\ cursor' = cursor + 1
    /\ UNCHANGED <<routes, processes, generation, workPending, wpc, rings, network>>

\* publish, acknowledge, route_wakeup.  A refused push leaves the router dirty.
PublishRoutes ==
    /\ Serving
    /\ Channel!Publish
    /\ IF ready' # ready
       THEN /\ published' = [published EXCEPT ![cursor] = routes[cursor]]
            /\ pending' = [pending EXCEPT ![cursor] = FALSE]
            /\ linkPending' = TRUE
       ELSE UNCHANGED <<published, pending, linkPending>>
    /\ cursor' = cursor + 1
    /\ UNCHANGED <<routes, processes, generation, workPending, wpc, rings, npc, manager>>

\* The wait at the end of the turn: the predicate, with the mutex held.
EndTurn ==
    /\ wpc = "publish"
    /\ cursor \notin Routers
    /\ wpc' = IF workPending \/ commands # <<>> THEN "top" ELSE "park"
    /\ UNCHANGED <<channel, ospf, workPending, cursor, rings, network>>

Sleep ==
    /\ wpc = "park"
    /\ wpc' = "sleep"
    /\ UNCHANGED <<channel, ospf, workPending, cursor, rings, network>>

\* wait_until: the next deadline of some process passes (hello, dead interval,
\* retransmission, refresh); without a process the wait has no deadline.
Deadline ==
    /\ wpc = "sleep"
    /\ \E r \in Routers : processes[r]
    /\ wpc' = "top"
    /\ UNCHANGED <<channel, ospf, workPending, cursor, rings, network>>

Worker ==
    \/ StartTurn \/ Apply \/ StartPublishing \/ NothingToPublish \/ BeginAcquire
    \/ Backpressure \/ Overflow \/ Fill \/ PublishRoutes \/ EndTurn \/ Sleep

-----------------------------------------------------------------------------
(* notify() of the OSPF worker, called from other threads.                 *)

Notify ==
    /\ wpc # "park"
    /\ workPending' = TRUE
    /\ wpc' = IF wpc = "sleep" THEN "top" ELSE wpc
    /\ UNCHANGED cursor

\* A forwarding shard passes an OSPF frame to the worker.
FrameArrives ==
    /\ \E r \in Routers : processes[r]
    /\ Notify
    /\ UNCHANGED <<channel, ospf, rings, network>>

-----------------------------------------------------------------------------
(* The network owner: one turn of NetworkPlaneWorker::run().               *)

\* A turn starts when a route generation or a control command is waiting.
BeginTurn ==
    /\ npc = "wait"
    /\ linkPending
    /\ npc' = "turn"
    /\ linkPending' = FALSE
    /\ UNCHANGED <<channel, ospf, worker, rings, manager>>

\* A control command reconfigures OSPF on a router: execute_ospf submits.
Configure(r, keep) ==
    /\ npc \in {"wait", "turn"}
    /\ routes[r] < MaxVersion
    /\ commands' = Append(commands, [router |-> r, keep |-> keep])
    /\ linkPending' = IF npc = "wait" THEN FALSE ELSE linkPending
    /\ npc' = "submitted"
    /\ UNCHANGED <<channel, ospf, worker, results, manager>>

\* submit() notifies; execute_ospf then polls for the result.
SubmitNotify ==
    /\ npc = "submitted"
    /\ Notify
    /\ npc' = "await"
    /\ UNCHANGED <<channel, ospf, rings, linkPending, manager>>

ReadResult ==
    /\ npc = "await"
    /\ results # <<>>
    /\ results' = Tail(results)
    /\ npc' = "read"
    /\ UNCHANGED <<channel, ospf, worker, commands, linkPending, manager>>

\* read() notifies; the turn goes on with the next command or with the pump.
ReadNotify ==
    /\ npc = "read"
    /\ Notify
    /\ npc' = "turn"
    /\ UNCHANGED <<channel, ospf, rings, linkPending, manager>>

Pump ==
    /\ npc = "turn"
    /\ npc' = "drain"
    /\ UNCHANGED <<channel, ospf, worker, rings, linkPending, manager>>

\* drain_ospf_routes: a generation is borrowed.
Borrow ==
    /\ npc = "drain"
    /\ Channel!Receive
    /\ npc' = "install"
    /\ UNCHANGED <<ospf, worker, rings, linkPending, manager>>

\* The route manager accepts a newer generation; the slot is released.
Install ==
    /\ npc = "install"
    /\ \E h \in Channel!Handles :
          /\ loan[h] # Nothing
          /\ Channel!Release(h)
          /\ LET new == loan[h] IN
             manager' = IF new.generation > manager[new.router].generation
                        THEN [manager EXCEPT ![new.router] =
                                 [generation |-> new.generation, routes |-> new.routes]]
                        ELSE manager
    /\ npc' = "drain"
    /\ UNCHANGED <<ospf, worker, rings, linkPending>>

\* No generation left: the owner waits for the next command or publication.
FinishPump ==
    /\ npc = "drain"
    /\ ready = <<>>
    /\ npc' = "wait"
    /\ UNCHANGED <<channel, ospf, worker, rings, linkPending, manager>>

Network ==
    \/ BeginTurn \/ SubmitNotify \/ ReadResult \/ ReadNotify \/ Pump \/ Borrow
    \/ Install \/ FinishPump

Next ==
    \/ Worker \/ Deadline \/ FrameArrives \/ Network
    \/ \E r \in Routers : RunProcess(r)
    \/ \E r \in Routers, keep \in Keep : Configure(r, keep)

\* Both threads run when they can, deadlines pass, and a mutex that is freed
\* again and again is granted in the end.  Configurations, frames and route
\* changes may stop.
Fairness ==
    /\ WF_vars(Worker) /\ WF_vars(Deadline) /\ WF_vars(Network)
    /\ SF_vars(SubmitNotify) /\ SF_vars(ReadNotify)

Spec == Init /\ [][Next]_vars /\ Fairness

-----------------------------------------------------------------------------
(* Properties.                                                             *)

\* Versions, flags, rings and program counters have their types.
TypeOK ==
    /\ Channel!TypeOK
    /\ routes \in [Routers -> Versions]
    /\ processes \in [Routers -> BOOLEAN]
    /\ published \in [Routers -> Versions]
    /\ pending \in [Routers -> BOOLEAN]
    /\ generation \in [Routers -> Numbers]
    /\ workPending \in BOOLEAN
    /\ wpc \in {"top", "commands", "publish", "park", "sleep"}
    /\ cursor \in 1 .. NumRouters + 1
    /\ Len(commands) <= 1 /\ Len(results) <= 1
    /\ linkPending \in BOOLEAN
    /\ npc \in {"wait", "turn", "submitted", "await", "read", "drain", "install"}
    /\ manager \in [Routers -> [generation : Numbers, routes : Versions]]

\* The generations on their way, oldest first: the borrowed one, if any, and
\* those in the ready ring.
UnderWay ==
    LET lent == {h \in Channel!Handles : loan[h] # Nothing}
        borrowed == IF lent = {} THEN <<>> ELSE <<loan[CHOOSE h \in lent : TRUE]>>
    IN borrowed \o [i \in 1 .. Len(ready) |-> slots[ready[i]]]

\* No generation of the router follows position i.
LastOf(r, i) == \A j \in DOMAIN UnderWay : j > i => UnderWay[j].router # r

\* A router that is not dirty is settled: the last generation on its way, or
\* the installed one when none is, carries its current routes.  Otherwise the
\* acknowledgement of a publication would have lost a withdrawal.
AcknowledgedIsLast ==
    \A r \in Routers : ~Dirty(r) =>
        /\ LastOf(r, 0) => manager[r].routes = routes[r]
        /\ \A i \in DOMAIN UnderWay :
              UnderWay[i].router = r /\ LastOf(r, i) => UnderWay[i].routes = routes[r]

\* Generations arrive in increasing order, so that the route manager never
\* refuses one as old.
GenerationsIncrease ==
    \A i \in DOMAIN UnderWay :
       LET g == UnderWay[i] IN
       /\ g.generation > manager[g.router].generation
       /\ \A j \in 1 .. i - 1 :
             UnderWay[j].router = g.router => UnderWay[j].generation < g.generation

\* "The next owner turn retries without losing a withdrawal": routes that
\* differ from the installed ones are installed, or replaced, in the end.
RoutesReachManager ==
    \A r \in Routers : (manager[r].routes # routes[r]) ~> (manager[r].routes = routes[r])

\* The same while some OSPF process is left, whose deadlines end the sleep of
\* the worker: a router that met backpressure is retried, and one whose routes
\* do not fit holds up neither itself after a change nor anybody else.
RoutesReachManagerByDeadline ==
    \A r \in Routers :
       (manager[r].routes # routes[r])
           ~> \/ manager[r].routes = routes[r] \/ Overflows(r)
              \/ \A q \in Routers : ~processes[q]

\* Every slot of the route channel is in exactly one place while the worker
\* publishes, cancels and meets backpressure and the network owner borrows.
HandlesConserved == Channel!HandlesConserved

\* "The borrowed frame remains immutable until release(handle)": drain_ospf_routes
\* installs from the slot's bytes while the worker fills other slots.
BorrowedImmutable == Channel!BorrowedImmutable

\* The network owner receives each published generation once, whole and in the
\* order of publication, although it travels as a handle through two rings.
ChannelIsFifo == Channel!ChannelIsFifo

\* Both threads keep to the protocol of the channel: publish_routes gives every
\* slot it acquired to publish() or cancel() before it takes the next one.
ChannelProtocol == Channel!Spec
=============================================================================
