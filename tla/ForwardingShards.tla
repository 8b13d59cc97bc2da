--------------------------- MODULE ForwardingShards ---------------------------
(***************************************************************************)
(* The packet plane with separate forwarding threads (NetworkPlane::Impl   *)
(* with parallel()), and the supervisor operations that change it.  The    *)
(* owner is the control thread together with the network thread: dispatch  *)
(* is synchronous, so at any time one of the two works and the other       *)
(* waits, except that the network thread pumps frames between the          *)
(* commands.  Each shard is a thread of its own with four rings to the     *)
(* owner (the queues of SpscRing, so pushes and pops are single steps).    *)
(*                                                                         *)
(* Abstracted: a router has one port, the cables are point to point, a     *)
(* frame is the identity of its sender, propagation takes any time, and    *)
(* the waits on wait_condition_ are guards (ControlProjectionWorker has    *)
(* the wake-ups).  impl_->links, impl_->endpoints and the fabric's slots   *)
(* change together and are one variable, wire.                             *)
(***************************************************************************)
EXTENDS Integers, Sequences

CONSTANTS
    Routers,        \* registry slots, 0 .. n - 1
    Links,          \* topology slots, 0 .. m - 1
    NShards,        \* separate_forwarding_shards
    MaxGeneration,  \* the largest value of a slot generation
    SavedGeneration, \* the generation of every slot at the start
    SavedRouters,   \* the routers of the laboratory at the start
    SavedLinks,     \* its cables; cable l joins the routers 2l and 2l + 1
    Speeds,         \* the rates a port can be configured to
    DefaultSpeed,   \* the rate of a port that was never configured
    CableSpeeds,    \* the rates a cable can be configured to; 0 is none
    RingFrames,     \* forwarding_ring_frames
    WorkBudget,     \* fabric_work_budget_frames
    MaxFrames,      \* bound: frames sent in a behaviour
    MaxEdits        \* bound: supervisor operations in a behaviour

Shards == 0 .. NShards - 1
Generations == 1 .. MaxGeneration
Ends == {1, 2}
Peer(e) == 3 - e

ASSUME ForwardingShardsAssumption ==
    /\ Routers \subseteq Nat /\ Links \subseteq Nat
    /\ NShards \in Nat \ {0}
    /\ MaxGeneration \in Nat \ {0} /\ SavedGeneration \in Generations
    /\ SavedRouters \subseteq Routers /\ SavedLinks \subseteq Links
    /\ \A l \in SavedLinks : {2 * l, 2 * l + 1} \subseteq SavedRouters
    /\ Speeds \subseteq Nat \ {0} /\ DefaultSpeed \in Speeds
    /\ CableSpeeds \subseteq Nat
    /\ RingFrames \in Nat \ {0} /\ WorkBudget \in Nat \ {0}
    /\ MaxFrames \in Nat /\ MaxEdits \in Nat

\* A drain can empty a full egress ring: both are 64 frames.
ASSUME DrainEmptiesRing == RingFrames <= WorkBudget

VARIABLES
    device,    \* devices_: the registry slots of the routers
    port,      \* hardware_: the port of each router; present also says that the
               \* equipment supports the configured rate
    cable,     \* topology_: the registry slots of the links
    live,      \* router_generations, the owner's mirror; 0 is none
    binding,   \* router_bindings: the cable end of each port, or None
    wire,      \* links, endpoints and the fabric slots, or None
    forwarder, \* routers[i].generation, written by the shard; 0 is none
    commands, results, ingress, egress,  \* the rings of each shard
    stage,     \* where each shard is in run()
    budget,    \* ingress_budget of each shard
    resume,    \* resume_requested_ of each shard
    owner,     \* what the owner is doing
    sent, edits  \* the bounded counters

registries == <<device, port, cable>>
plane == <<live, binding, wire>>
rings == <<commands, results, ingress, egress>>
turn == <<stage, budget>>
vars == <<registries, plane, forwarder, rings, turn, resume, owner, sent, edits>>

None == [none |-> TRUE]
Idle == [does |-> "idle"]

Handle(i) == [index |-> i, generation |-> device[i].generation]
PortHandle(i) == [node |-> Handle(i), generation |-> port[i].generation]
Shard(i) == i % NShards

FreshPort == [present |-> TRUE, generation |-> 1, signal |-> FALSE,
              speed |-> DefaultSpeed]
FreeCable(g) == [occupied |-> FALSE, generation |-> g, ends |-> None,
                 admin |-> FALSE, speed |-> 0, carrier |-> FALSE]

\* The program of a cable.
Program(l) ==
    [generation |-> cable[l].generation, carrier |-> cable[l].admin,
     ends |-> [e \in Ends |-> PortHandle(cable[l].ends[e].index)],
     tx |-> [e \in Ends |-> <<>>]]

\* The binding of a port to an end of the medium w in slot l.
Bound(l, w, e) ==
    [port |-> w.ends[e], link |-> l, generation |-> w.generation, end |-> e]

SavedDevice == [occupied |-> TRUE, quiescing |-> FALSE, generation |-> SavedGeneration]
SavedCable(l) ==
    [occupied |-> TRUE, generation |-> SavedGeneration,
     ends |-> [e \in Ends |-> [index |-> 2 * l + e - 1, generation |-> SavedGeneration]],
     admin |-> TRUE, speed |-> 0, carrier |-> TRUE]

\* The constructors, or a restored laboratory: DeviceRegistry::restore and
\* TopologyRegistry::restore accept any nonzero generations.
Init ==
    /\ device = [i \in Routers |-> IF i \in SavedRouters THEN SavedDevice
                                   ELSE [SavedDevice EXCEPT !.occupied = FALSE]]
    /\ port = [i \in Routers |-> IF i \div 2 \in SavedLinks
                                 THEN [FreshPort EXCEPT !.signal = TRUE]
                                 ELSE FreshPort]
    /\ cable = [l \in Links |-> IF l \in SavedLinks THEN SavedCable(l)
                                ELSE FreeCable(SavedGeneration)]
    /\ live = [i \in Routers |-> IF i \in SavedRouters THEN SavedGeneration ELSE 0]
    /\ wire = [l \in Links |-> IF l \in SavedLinks THEN Program(l) ELSE None]
    /\ binding = [i \in Routers |->
           IF i \div 2 \in SavedLinks
           THEN Bound(i \div 2, wire[i \div 2], (i % 2) + 1) ELSE None]
    /\ forwarder = live
    /\ commands = [s \in Shards |-> <<>>]
    /\ results = [s \in Shards |-> <<>>]
    /\ ingress = [s \in Shards |-> <<>>]
    /\ egress = [s \in Shards |-> <<>>]
    /\ stage = [s \in Shards |-> "wait"]
    /\ budget = [s \in Shards |-> WorkBudget]
    /\ resume = [s \in Shards |-> FALSE]
    /\ owner = Idle
    /\ sent = 0 /\ edits = 0

-----------------------------------------------------------------------------
(* Registries and plane tables.                                            *)

\* release(): a slot generation skips zero when it wraps.
NextGeneration(g) == IF g = MaxGeneration THEN 1 ELSE g + 1

\* DeviceRegistry::get.
Registered(h) ==
    device[h.index].occupied /\ device[h.index].generation = h.generation

\* resolve(): the live port of an endpoint.
Resolves(h) == Registered(h) /\ port[h.index].present

Attached(h) ==
    {l \in Links : cable[l].occupied /\ \E e \in Ends : cable[l].ends[e] = h}

\* The lookups of add_router and create_link take the first free slot.
FirstFree(slots, i) ==
    ~slots[i].occupied /\ \A j \in DOMAIN slots : j < i => slots[j].occupied

\* A slip: the source of a delayed frame is looked up by its index.
EnqueueByIndex(w, f) ==
    LET b == binding[f.from.index] IN
    IF b = None \/ w[b.link] = None \/ w[b.link].generation # b.generation
         \/ ~w[b.link].carrier
    THEN w
    ELSE [w EXCEPT ![b.link].tx[b.end] =
             Append(@, [from |-> f.from,
                        aim |-> w[b.link].ends[Peer(b.end)].node])]

\* send() and drain_forwarding_egress: a frame whose sender no longer owns the
\* bound port is dropped, and so is one for a cable of another generation or
\* without carrier.  aim records, for the properties, who was at the other end
\* when it left.
Enqueue(w, f) ==
    LET b == binding[f.from.index] IN
    IF b = None \/ b.port.node # f.from \/ w[b.link] = None
         \/ w[b.link].generation # b.generation \/ ~w[b.link].carrier
    THEN w
    ELSE [w EXCEPT ![b.link].tx[b.end] =
             Append(@, [from |-> f.from,
                        aim |-> w[b.link].ends[Peer(b.end)].node])]

\* The shards know the routers at the ends.  The plane asks them when an end is
\* a management connector, and the model for every end.
ShardsAnswer(ends) ==
    \A e \in Ends : forwarder[ends[e].node.index] = ends[e].node.generation

\* A slip: only the first end's binding is cleared.
WithoutLinkHalf(l) ==
    [i \in Routers |-> IF binding[i] = Bound(l, wire[l], 1) THEN None ELSE binding[i]]

\* clear_binding for both ends of the medium that was removed: a binding to
\* another cable or of another port generation stays.
WithoutLink(l) ==
    [i \in Routers |-> IF \E e \in Ends : binding[i] = Bound(l, wire[l], e)
                       THEN None ELSE binding[i]]

\* The ports of a cable's registered ends, with the given signal.
WithSignal(l, up) ==
    [i \in Routers |->
        IF port[i].present /\ \E e \in Ends :
               cable[l].ends[e] = Handle(i) /\ Registered(Handle(i))
        THEN [port[i] EXCEPT !.signal = up] ELSE port[i]]

-----------------------------------------------------------------------------
(* The owner: deactivate() and reconcile().  The control thread works in   *)
(* the stages withdraw, report and erase, the network thread in remove and *)
(* configure, and between any two of them frames move.                     *)

LinkWork == {"withdraw", "remove", "configure", "report", "erase"}

\* deactivate(l) for reconcile(), delete_link or the delete_router of a router.
Deactivating(l, then, router) ==
    [does |-> "withdraw", link |-> l, then |-> then, remove |-> router]

Reconcile(l) == owner' = Deactivating(l, "configure", -1)

\* reconcile(NodeHandle): the cable of the router's port.
ReconcileNode(i) ==
    IF Attached(Handle(i)) = {} THEN owner' = Idle
    ELSE Reconcile(CHOOSE l \in Attached(Handle(i)) : TRUE)

\* A slip: the medium is removed before its carrier is withdrawn.
WithdrawLast(l) ==
    /\ owner.does = "withdraw" /\ owner.link = l
    /\ wire[l] # None
    /\ wire' = [wire EXCEPT ![l] = None]
    /\ binding' = WithoutLink(l)
    /\ owner' = [owner EXCEPT !.does = "remove"]
    /\ UNCHANGED <<registries, live, forwarder, rings, turn, resume, sent, edits>>

\* deactivate(), control thread: carrier and both signals are withdrawn.
Withdraw(l) ==
    /\ owner.does = "withdraw" /\ owner.link = l
    /\ cable' = [cable EXCEPT ![l].carrier = FALSE]
    /\ port' = WithSignal(l, FALSE)
    /\ owner' = [owner EXCEPT !.does = "remove"]
    /\ UNCHANGED <<device, plane, forwarder, rings, turn, resume, sent, edits>>

\* remove_link is refused for a handle without a medium, which is usual, and
\* when a shard does not know an end.
Removable(l) ==
    /\ wire[l] # None /\ wire[l].generation = cable[l].generation
    /\ ShardsAnswer(wire[l].ends)

\* deactivate(), network thread: the fabric returns the frames to the pool and
\* the bindings go.  A refusal changes nothing, and the caller ignores it.
RemoveMedium(l) ==
    /\ owner.does = "remove" /\ owner.link = l
    /\ IF Removable(l)
       THEN wire' = [wire EXCEPT ![l] = None] /\ binding' = WithoutLink(l)
       ELSE UNCHANGED <<wire, binding>>
    /\ owner' = [owner EXCEPT !.does = owner.then]
    /\ UNCHANGED <<registries, live, forwarder, rings, turn, resume, sent, edits>>

\* The refusals of reconcile(): an end without live equipment, two rates, or a
\* rate other than the cable's own (0 is none).  A router port has a rate.
Compatible(l) ==
    LET ends == cable[l].ends IN
    /\ \A e \in Ends : Resolves(ends[e])
    /\ port[ends[1].index].speed = port[ends[2].index].speed
    /\ cable[l].speed \in {0, port[ends[1].index].speed}

\* The refusals of configure_link: a router the plane does not have, a port
\* bound to another cable, other ports for a medium that is there already.
Configurable(l, w) ==
    /\ \A e \in Ends :
          LET h == w.ends[e].node IN
          /\ live[h.index] = h.generation
          /\ binding[h.index] # None =>
                binding[h.index].link = l /\ binding[h.index].generation = w.generation
    /\ wire[l] # None /\ wire[l].generation = w.generation => wire[l].ends = w.ends
    /\ ShardsAnswer(w.ends)

\* reconcile(), network thread: the medium and both bindings, or nothing.
ConfigureLink(l) ==
    LET w == Program(l) IN
    /\ owner.does = "configure" /\ owner.link = l
    /\ IF Compatible(l) /\ Configurable(l, w)
       THEN /\ wire' = [wire EXCEPT ![l] = w]
            /\ binding' = [i \in Routers |->
                   IF \E e \in Ends : w.ends[e].node.index = i
                   THEN Bound(l, w, CHOOSE e \in Ends : w.ends[e].node.index = i)
                   ELSE binding[i]]
            /\ owner' = [owner EXCEPT !.does = "report"]
       ELSE owner' = Idle /\ UNCHANGED <<wire, binding>>
    /\ UNCHANGED <<registries, live, forwarder, rings, turn, resume, sent, edits>>

\* reconcile(), control thread: carrier and signals after the plane's success.
ReportCarrier(l) ==
    /\ owner.does = "report" /\ owner.link = l
    /\ cable' = [cable EXCEPT ![l].carrier = cable[l].admin]
    /\ port' = WithSignal(l, cable[l].admin)
    /\ owner' = Idle
    /\ UNCHANGED <<device, plane, forwarder, rings, turn, resume, sent, edits>>

\* TopologyRegistry::erase after deactivate(), whatever the plane answered;
\* delete_router then asks the plane to remove the router, which starts by
\* replacing the OSPF generation under the barrier.
EraseLink(l) ==
    /\ owner.does = "erase" /\ owner.link = l
    /\ cable' = [cable EXCEPT ![l] = FreeCable(NextGeneration(@.generation))]
    /\ owner' = IF owner.remove = -1 THEN Idle
                ELSE [does |-> "pause", next |-> 0, remove |-> owner.remove]
    /\ UNCHANGED <<device, port, plane, forwarder, rings, turn, resume, sent, edits>>

-----------------------------------------------------------------------------
(* The owner: operations on cables and equipment.                          *)

Begin == owner = Idle /\ edits < MaxEdits /\ edits' = edits + 1

\* create_link: both nodes exist, are different and have a free port.
CreateLink(l, i, j, up, speed) ==
    LET ends == [e \in Ends |-> IF e = 1 THEN Handle(i) ELSE Handle(j)] IN
    /\ Begin
    /\ i # j /\ device[i].occupied /\ device[j].occupied
    /\ Attached(Handle(i)) = {} /\ Attached(Handle(j)) = {}
    /\ FirstFree(cable, l)
    /\ cable' = [cable EXCEPT ![l] = [@ EXCEPT !.occupied = TRUE, !.ends = ends,
                                                !.admin = up, !.speed = speed,
                                                !.carrier = FALSE]]
    /\ Reconcile(l)
    /\ UNCHANGED <<device, port, plane, forwarder, rings, turn, resume, sent>>

\* set_link_properties, and set_link_admin with the speed the cable has.
SetLinkProperties(l, up, speed) ==
    /\ Begin
    /\ cable[l].occupied
    /\ cable' = [cable EXCEPT ![l].admin = up, ![l].speed = speed]
    /\ Reconcile(l)
    /\ UNCHANGED <<device, port, plane, forwarder, rings, turn, resume, sent>>

\* set_mda and set_card: new equipment gives a present port a new generation
\* and no signal, whether the port is there again (stays) or not; a port that
\* comes back keeps the generation of its removal.
SwapHardware(i, stays) ==
    /\ Begin
    /\ device[i].occupied
    /\ port' = [port EXCEPT ![i] =
           IF @.present
           THEN [@ EXCEPT !.present = stays, !.signal = FALSE,
                          !.generation = NextGeneration(port[i].generation)]
           ELSE [@ EXCEPT !.present = TRUE]]
    /\ ReconcileNode(i)
    /\ UNCHANGED <<device, cable, plane, forwarder, rings, turn, resume, sent>>

\* configure_port.  A rate the equipment supports makes the port live again
\* (fits); the administrative edits of cards and MDAs leave all this alone and
\* reconcile too.
ConfigurePort(i, speed, fits) ==
    /\ Begin
    /\ device[i].occupied
    /\ port[i].present => fits
    /\ port' = [port EXCEPT ![i].speed = speed, ![i].present = fits]
    /\ ReconcileNode(i)
    /\ UNCHANGED <<device, cable, plane, forwarder, rings, turn, resume, sent>>

\* delete_link.
DeleteLink(l) ==
    /\ Begin
    /\ cable[l].occupied
    /\ owner' = Deactivating(l, "erase", -1)
    /\ UNCHANGED <<registries, plane, forwarder, rings, turn, resume, sent>>

-----------------------------------------------------------------------------
(* The owner: routers.                                                     *)

\* execute_forward submits and then reads the answer; the caller's next step
\* is in owner.
Submit(s, c) == commands' = [commands EXCEPT ![s] = Append(@, c)]

\* create_network_device: the registry slot and the inventory exist before the
\* plane is asked; add_router of the plane refuses a slot in use.
CreateRouter(i) ==
    /\ Begin
    /\ FirstFree(device, i)
    /\ live[i] = 0
    /\ device' = [device EXCEPT ![i].occupied = TRUE, ![i].quiescing = FALSE]
    /\ port' = [port EXCEPT ![i] = FreshPort]
    /\ Submit(Shard(i), [kind |-> "add_router", device |-> Handle(i)])
    /\ owner' = [does |-> "add_router", router |-> i]
    /\ UNCHANGED <<cable, plane, forwarder, results, ingress, egress, turn,
                   resume, sent>>

ReleaseDevice(i) ==
    device' = [device EXCEPT ![i] =
                  [occupied |-> FALSE, quiescing |-> FALSE,
                   generation |-> NextGeneration(@.generation)]]

\* The answer of the shard: admitted, or the slot is released again.
RouterAdded(i) ==
    /\ owner = [does |-> "add_router", router |-> i]
    /\ results[Shard(i)] # <<>>
    /\ results' = [results EXCEPT ![Shard(i)] = Tail(@)]
    /\ IF Head(results[Shard(i)])
       THEN live' = [live EXCEPT ![i] = device[i].generation] /\ UNCHANGED device
       ELSE ReleaseDevice(i) /\ UNCHANGED live
    /\ owner' = Idle
    /\ UNCHANGED <<port, cable, binding, wire, forwarder, commands, ingress,
                   egress, turn, resume, sent, edits>>

\* delete_router marks the slot and deletes its cable before it asks the plane
\* to remove the router.
DeleteRouter(i) ==
    /\ Begin
    /\ device[i].occupied
    /\ device' = [device EXCEPT ![i].quiescing = TRUE]
    /\ owner' = IF Attached(Handle(i)) = {}
                THEN [does |-> "pause", next |-> 0, remove |-> i]
                ELSE Deactivating(CHOOSE l \in Attached(Handle(i)) : TRUE, "erase", i)
    /\ UNCHANGED <<port, cable, plane, forwarder, rings, turn, resume, sent>>

\* checkpoint, router_checkpoint and restore stop the forwarding threads too.
Checkpoint ==
    /\ Begin
    /\ owner' = [does |-> "pause", next |-> 0, remove |-> -1]
    /\ UNCHANGED <<registries, plane, forwarder, rings, turn, resume, sent>>

\* pause_forwarding, first loop: a pause command for every shard.
SubmitPause ==
    /\ owner.does = "pause"
    /\ Submit(owner.next, [kind |-> "pause"])
    /\ owner' = IF owner.next + 1 = NShards
                THEN [owner EXCEPT !.does = "await", !.next = 0]
                ELSE [owner EXCEPT !.next = @ + 1]
    /\ UNCHANGED <<registries, plane, forwarder, results, ingress, egress, turn,
                   resume, sent, edits>>

\* Second loop: the answers in the order of the shards.
AwaitPause ==
    /\ owner.does = "await"
    /\ results[owner.next] # <<>>
    /\ results' = [results EXCEPT ![owner.next] = Tail(@)]
    /\ owner' = IF owner.next + 1 = NShards
                THEN [does |-> "drain", next |-> 0, remove |-> owner.remove,
                      left |-> WorkBudget]
                ELSE [owner EXCEPT !.next = @ + 1]
    /\ UNCHANGED <<registries, plane, forwarder, commands, ingress, egress, turn,
                   resume, sent, edits>>

\* The last drain_forwarding_egress of pause_forwarding, shard by shard, at
\* most WorkBudget frames of each.
FinalDrain ==
    LET s == owner.next
        more == owner.left > 0 /\ egress[s] # <<>>
    IN
    /\ owner.does = "drain"
    /\ \/ /\ more
          /\ wire' = Enqueue(wire, Head(egress[s]))
          /\ egress' = [egress EXCEPT ![s] = Tail(@)]
          /\ owner' = [owner EXCEPT !.left = @ - 1]
       \/ /\ ~more
          /\ owner' = IF s + 1 < NShards
                      THEN [owner EXCEPT !.next = @ + 1, !.left = WorkBudget]
                      ELSE [does |-> "quiet", next |-> 0, remove |-> owner.remove]
          /\ UNCHANGED <<wire, egress>>
    /\ UNCHANGED <<registries, live, binding, forwarder, commands, results,
                   ingress, turn, resume, sent, edits>>

\* resume_forwarding, one shard after the other, after the work under the
\* barrier.
ResumeShard ==
    /\ owner.does \in {"quiet", "resume"}
    /\ resume' = [resume EXCEPT ![owner.next] = TRUE]
    /\ owner' = IF owner.next + 1 < NShards
                THEN [owner EXCEPT !.does = "resume", !.next = @ + 1]
                ELSE IF owner.remove = -1 THEN Idle
                     ELSE [does |-> "withdrawn", router |-> owner.remove]
    /\ UNCHANGED <<registries, plane, forwarder, rings, turn, sent, edits>>

\* A slip: the slot is released although the plane kept the router.
RemoveRefusedErasing(i) ==
    /\ owner = [does |-> "withdrawn", router |-> i]
    /\ ReleaseDevice(i)
    /\ owner' = Idle
    /\ UNCHANGED <<port, cable, plane, forwarder, rings, turn, resume, sent, edits>>

\* The OSPF generation could not be replaced: remove_router and delete_router
\* return false and the router stays, quiescing and without its cable.
RemoveRefused(i) ==
    /\ owner = [does |-> "withdrawn", router |-> i]
    /\ owner' = Idle
    /\ UNCHANGED <<registries, plane, forwarder, rings, turn, resume, sent, edits>>

\* It was replaced: remove_router removes the forwarder.
RemoveForwarder(i) ==
    /\ owner = [does |-> "withdrawn", router |-> i]
    /\ live[i] = device[i].generation
    /\ Submit(Shard(i), [kind |-> "remove_router", device |-> Handle(i)])
    /\ owner' = [does |-> "remove_router", router |-> i]
    /\ UNCHANGED <<registries, plane, forwarder, results, ingress, egress, turn,
                   resume, sent, edits>>

RouterRemoved(i) ==
    /\ owner = [does |-> "remove_router", router |-> i]
    /\ results[Shard(i)] # <<>>
    /\ results' = [results EXCEPT ![Shard(i)] = Tail(@)]
    /\ IF Head(results[Shard(i)])
       THEN live' = [live EXCEPT ![i] = 0] /\ ReleaseDevice(i)
       ELSE UNCHANGED <<live, device>>
    /\ owner' = Idle
    /\ UNCHANGED <<port, cable, binding, wire, forwarder, commands, ingress,
                   egress, turn, resume, sent, edits>>

-----------------------------------------------------------------------------
(* The owner: frames.  The network thread pumps while no command is being  *)
(* executed, and drains the egress rings while it waits for a shard.       *)

Pumping ==
    \/ owner.does \in {"idle"} \union LinkWork
    \/ owner.does = "pause" /\ owner.next = 0
Waiting == owner.does \in {"add_router", "remove_router", "await"}

DrainEgress(s) ==
    /\ Pumping \/ Waiting
    /\ egress[s] # <<>>
    /\ wire' = Enqueue(wire, Head(egress[s]))
    /\ egress' = [egress EXCEPT ![s] = Tail(@)]
    /\ UNCHANGED <<registries, live, binding, forwarder, commands, results,
                   ingress, turn, resume, owner, sent, edits>>

\* pump_delivery and deliver: the frame leaves the medium for the ring of the
\* destination's shard, or is dropped when the ring is full.
Deliver(l, e) ==
    /\ Pumping
    /\ wire[l] # None /\ wire[l].carrier /\ wire[l].tx[e] # <<>>
    /\ wire' = [wire EXCEPT ![l].tx[e] = Tail(@)]
    /\ ingress' = [ingress EXCEPT ![Shard(wire[l].ends[Peer(e)].node.index)] =
           IF Len(@) = RingFrames THEN @
           ELSE Append(@, [to |-> wire[l].ends[Peer(e)].node,
                           aim |-> Head(wire[l].tx[e]).aim])]
    /\ UNCHANGED <<registries, live, binding, forwarder, commands, results,
                   egress, turn, resume, owner, sent, edits>>

-----------------------------------------------------------------------------
(* The shards.                                                             *)

\* apply_forward_ingress: owner.router(handle) compares the generations.
Accepts(f) == forwarder[f.to.index] = f.to.generation

\* A router of the shard emits a frame, unless the egress ring is full.
Emit(s, i) ==
    /\ forwarder[i] # 0 /\ Shard(i) = s
    /\ sent < MaxFrames
    /\ sent' = sent + 1
    /\ egress' = IF Len(egress[s]) = RingFrames THEN egress
                 ELSE [egress EXCEPT ![s] = Append(@,
                     [from |-> [index |-> i, generation |-> forwarder[i]]])]

EmitNothing == UNCHANGED <<egress, sent>>

\* One turn of the ingress loop; the accepting router may answer.
HandleIngress(s) ==
    /\ stage[s] = "ingress"
    /\ ingress[s] # <<>>
    /\ budget[s] > 0
    /\ budget' = [budget EXCEPT ![s] = @ - 1]
    /\ ingress' = [ingress EXCEPT ![s] = Tail(@)]
    /\ \/ Accepts(Head(ingress[s])) /\ Emit(s, Head(ingress[s]).to.index)
       \/ EmitNothing
    /\ UNCHANGED <<registries, plane, forwarder, commands, results, stage, resume,
                   owner, edits>>

\* The loop ends when the ring is empty or the budget is spent.
EndIngress(s) ==
    /\ stage[s] = "ingress"
    /\ ingress[s] = <<>> \/ budget[s] = 0
    /\ budget' = [budget EXCEPT ![s] = WorkBudget]
    /\ stage' = [stage EXCEPT ![s] = "command"]
    /\ UNCHANGED <<registries, plane, forwarder, rings, resume, owner, sent, edits>>

\* Without a command that can run the thread goes on to its timers; a pause
\* waits until every delivered frame was handled.
Runnable(s) ==
    commands[s] # <<>> /\ (Head(commands[s]).kind = "pause" => ingress[s] = <<>>)

NoCommand(s) ==
    /\ stage[s] = "command" /\ ~Runnable(s)
    /\ stage' = [stage EXCEPT ![s] = "maintenance"]
    /\ UNCHANGED <<registries, plane, budget, forwarder, rings, resume, owner, sent, edits>>

\* Pops the command, runs apply_forward_command and publishes the result.
Answer(s, success) ==
    /\ stage[s] = "command" /\ Runnable(s)
    /\ commands' = [commands EXCEPT ![s] = Tail(@)]
    /\ results' = [results EXCEPT ![s] = Append(@, success)]
    /\ stage' = [stage EXCEPT ![s] =
           IF Head(commands[s]).kind = "pause" THEN "acknowledged"
           ELSE "maintenance"]
    /\ UNCHANGED <<registries, plane, budget, ingress, egress, resume, owner, sent, edits>>

\* add_router allocates a forwarder; the allocation may fail.
ShardAdds(s, success) ==
    LET h == Head(commands[s]).device IN
    /\ commands[s] # <<>> /\ Head(commands[s]).kind = "add_router"
    /\ success => forwarder[h.index] = 0
    /\ Answer(s, success)
    /\ forwarder' = IF success THEN [forwarder EXCEPT ![h.index] = h.generation]
                    ELSE forwarder

ShardRemoves(s) ==
    LET h == Head(commands[s]).device
        success == forwarder[h.index] = h.generation IN
    /\ commands[s] # <<>> /\ Head(commands[s]).kind = "remove_router"
    /\ Answer(s, success)
    /\ forwarder' = IF success THEN [forwarder EXCEPT ![h.index] = 0]
                    ELSE forwarder

ShardAcknowledgesPause(s) ==
    /\ commands[s] # <<>> /\ Head(commands[s]).kind = "pause"
    /\ Answer(s, TRUE)
    /\ UNCHANGED forwarder

\* A slip: resume_requested_ is not cleared before the wait.
ClearResumeNever(s) ==
    /\ stage[s] = "acknowledged"
    /\ UNCHANGED resume
    /\ stage' = [stage EXCEPT ![s] = "paused"]
    /\ UNCHANGED <<registries, plane, budget, forwarder, rings, owner, sent, edits>>

\* resume_requested_.store(false), after the result was published.
ClearResume(s) ==
    /\ stage[s] = "acknowledged"
    /\ resume' = [resume EXCEPT ![s] = FALSE]
    /\ stage' = [stage EXCEPT ![s] = "paused"]
    /\ UNCHANGED <<registries, plane, budget, forwarder, rings, owner, sent, edits>>

LeavePause(s) ==
    /\ stage[s] = "paused" /\ resume[s]
    /\ stage' = [stage EXCEPT ![s] = "maintenance"]
    /\ UNCHANGED <<registries, plane, budget, forwarder, rings, resume, owner, sent, edits>>

\* service_forwarding: the timers of any router of the shard may send.
Maintenance(s) ==
    /\ stage[s] = "maintenance"
    /\ (\E i \in Routers : Emit(s, i)) \/ EmitNothing
    /\ stage' = [stage EXCEPT ![s] = "wait"]
    /\ UNCHANGED <<registries, plane, budget, forwarder, commands, results, ingress,
                   resume, owner, edits>>

\* The wait ends by its predicate or at the deadline of a router's timer.
Wake(s) ==
    /\ stage[s] = "wait"
    /\ \/ commands[s] # <<>> \/ ingress[s] # <<>>
       \/ sent < MaxFrames /\ \E i \in Routers : Shard(i) = s /\ forwarder[i] # 0
    /\ stage' = [stage EXCEPT ![s] = "ingress"]
    /\ UNCHANGED <<registries, plane, budget, forwarder, rings, resume, owner, sent, edits>>

-----------------------------------------------------------------------------
Edit ==
    \/ \E l \in Links, i, j \in Routers, up \in BOOLEAN, speed \in CableSpeeds :
          CreateLink(l, i, j, up, speed)
    \/ \E l \in Links, up \in BOOLEAN, speed \in CableSpeeds :
          SetLinkProperties(l, up, speed)
    \/ \E i \in Routers, stays \in BOOLEAN : SwapHardware(i, stays)
    \/ \E i \in Routers, speed \in Speeds, fits \in BOOLEAN :
          ConfigurePort(i, speed, fits)
    \/ \E l \in Links : DeleteLink(l)
    \/ \E i \in Routers : CreateRouter(i)
    \/ \E i \in Routers : DeleteRouter(i)
    \/ Checkpoint

OwnerGoesOn ==
    \/ \E l \in Links : \/ Withdraw(l) \/ RemoveMedium(l) \/ ConfigureLink(l)
                        \/ ReportCarrier(l) \/ EraseLink(l)
    \/ \E i \in Routers : RouterAdded(i)
    \/ SubmitPause \/ AwaitPause \/ FinalDrain \/ ResumeShard
    \/ \E i \in Routers : RemoveRefused(i)
    \/ \E i \in Routers : RemoveForwarder(i)
    \/ \E i \in Routers : RouterRemoved(i)

Pump ==
    \/ \E s \in Shards : DrainEgress(s)
    \/ \E l \in Links, e \in Ends : Deliver(l, e)

ShardStep(s) ==
    \/ HandleIngress(s) \/ EndIngress(s)
    \/ NoCommand(s)
    \/ \E success \in BOOLEAN : ShardAdds(s, success)
    \/ ShardRemoves(s) \/ ShardAcknowledgesPause(s)
    \/ ClearResume(s) \/ LeavePause(s)
    \/ Maintenance(s) \/ Wake(s)

Next == Edit \/ OwnerGoesOn \/ Pump \/ \E s \in Shards : ShardStep(s)

\* Threads keep running; no operation has to be requested.
Fairness ==
    /\ WF_vars(OwnerGoesOn)
    /\ \A s \in Shards : WF_vars(ShardStep(s))

Spec == Init /\ [][Next]_vars /\ Fairness

-----------------------------------------------------------------------------
(* Properties.                                                             *)

Node == [index : Routers, generation : Generations]
Port == [node : Node, generation : Generations]

\* Types and ring bounds: deliver() and emit() drop a frame rather than exceed
\* the ring, and no shard ever owes more than one answer.
TypeOK ==
    /\ device \in [Routers -> [occupied : BOOLEAN, generation : Generations,
                               quiescing : BOOLEAN]]
    /\ port \in [Routers -> [present : BOOLEAN, generation : Generations,
                             signal : BOOLEAN, speed : Speeds]]
    /\ \A l \in Links : cable[l].generation \in Generations
    /\ live \in [Routers -> 0 .. MaxGeneration]
    /\ forwarder \in [Routers -> 0 .. MaxGeneration]
    /\ \A s \in Shards :
          /\ Len(commands[s]) + Len(results[s]) <= 1
          /\ Len(ingress[s]) <= RingFrames /\ Len(egress[s]) <= RingFrames
    /\ \A i \in Routers : binding[i] = None \/ binding[i].port \in Port

\* A frame ends where the cable it entered ended: whatever was deleted, created
\* or cabled anew while it was in an egress ring, on the medium or in an
\* ingress ring, the router that handles it is the one that was at the other
\* end, and a cable only carries frames of the routers at its ends.
NoMisdelivery ==
    /\ \A s \in Shards : \A n \in 1 .. Len(ingress[s]) :
          LET f == ingress[s][n] IN
          Accepts(f) => f.aim = [index |-> f.to.index,
                                 generation |-> forwarder[f.to.index]]
    /\ \A l \in Links : wire[l] # None => \A e \in Ends :
          \A n \in 1 .. Len(wire[l].tx[e]) :
              LET f == wire[l].tx[e][n] IN
              /\ f.from = wire[l].ends[e].node
              /\ f.aim = wire[l].ends[Peer(e)].node

\* The checkpoint barrier is complete: while the owner reads or replaces the
\* forwarders directly, no shard is running and no frame is in a ring between
\* the threads, where no checkpoint would record it.
BarrierComplete ==
    owner.does = "quiet" => \A s \in Shards :
        /\ stage[s] \in {"acknowledged", "paused"}
        /\ commands[s] = <<>> /\ results[s] = <<>>
        /\ ingress[s] = <<>> /\ egress[s] = <<>>

\* Control registry, owner mirror and forwarding thread agree on the routers
\* that exist whenever the owner is between operations, also after a refused
\* admission or a refused removal.
RegistriesAgree ==
    owner = Idle => \A i \in Routers :
        /\ live[i] = (IF device[i].occupied THEN device[i].generation ELSE 0)
        /\ forwarder[i] = live[i]

\* A port is bound to a cable exactly when the cable ends there, and no cable
\* ends at a router the plane does not have.
BindingsReciprocal ==
    /\ \A i \in Routers : binding[i] # None =>
          LET w == wire[binding[i].link] IN
          w # None /\ binding[i] = Bound(binding[i].link, w, binding[i].end)
    /\ \A l \in Links : wire[l] # None => \A e \in Ends :
          LET h == wire[l].ends[e].node IN
          /\ live[h.index] = h.generation
          /\ binding[h.index] = Bound(l, wire[l], e)

\* A cable shown with carrier has, at every moment of an edit, a medium of its
\* generation and ends that carries: carrier is withdrawn before the medium is
\* removed and reported after it was configured.  Between edits carrier is what
\* the administrative state, the equipment and the rates of that time call for,
\* no other medium carries, and a port has signal exactly when its cable has
\* carrier, whatever removal or program the plane refused on the way.
CarrierTruthful ==
    /\ \A l \in Links : cable[l].carrier =>
          /\ wire[l] # None
          /\ wire[l].carrier /\ wire[l].generation = cable[l].generation
          /\ \A e \in Ends : wire[l].ends[e].node = cable[l].ends[e]
    /\ owner = Idle => \A l \in Links :
          /\ cable[l].carrier <=>
                cable[l].occupied /\ cable[l].admin /\ Compatible(l)
          /\ wire[l] # None /\ wire[l].carrier => cable[l].carrier
    /\ owner = Idle => \A i \in Routers : device[i].occupied =>
          (port[i].signal <=> \E l \in Attached(Handle(i)) : cable[l].carrier)

\* "Runtime processing resumes": a forwarding thread that stopped at the
\* barrier leaves it again.
ProcessingResumes ==
    \A s \in Shards : stage[s] = "paused" ~> stage[s] # "paused"
=============================================================================
