----------------------- MODULE ForwardingShardsProofs -----------------------
(***************************************************************************)
(* The packet plane with any number of routers, cables and forwarding      *)
(* threads, rings of any size and slot generations that wrap: no frame     *)
(* reaches a router it was not sent to, the barrier is complete, and the   *)
(* registries, the plane's tables and the forwarding threads agree.        *)
(***************************************************************************)
EXTENDS ForwardingShards, TLAPS

-----------------------------------------------------------------------------
(* The inductive invariant: types.                                         *)

Cable == [occupied : BOOLEAN, generation : Generations,
          ends : {None} \union [Ends -> Node], admin : BOOLEAN, speed : Nat,
          carrier : BOOLEAN]
Wire == [generation : Generations, carrier : BOOLEAN, ends : [Ends -> Port],
         tx : [Ends -> Seq([from : Node, aim : Node])]]
Binding == [port : Port, link : Links, generation : Generations, end : Ends]
PortState == [present : BOOLEAN, generation : Generations, signal : BOOLEAN,
              speed : Speeds]

Barrier == {"pause", "await", "drain", "quiet", "resume"}
RouterCommand == {"add_router", "withdrawn", "remove_router"}

RegistryTypes ==
    /\ device \in [Routers -> [occupied : BOOLEAN, quiescing : BOOLEAN,
                               generation : Generations]]
    /\ port \in [Routers -> PortState]
    /\ cable \in [Links -> Cable]
    /\ live \in [Routers -> 0 .. MaxGeneration]
    /\ binding \in [Routers -> {None} \union Binding]
    /\ wire \in [Links -> {None} \union Wire]

ShardTypes ==
    /\ forwarder \in [Routers -> 0 .. MaxGeneration]
    /\ ingress \in [Shards -> Seq([to : Node, aim : Node])]
    /\ egress \in [Shards -> Seq([from : Node])]
    /\ \A s \in Shards : Len(egress[s]) <= RingFrames
    /\ stage \in [Shards -> {"wait", "ingress", "command", "maintenance",
                             "acknowledged", "paused"}]
    /\ resume \in [Shards -> BOOLEAN]
    /\ DOMAIN commands = Shards /\ DOMAIN results = Shards

OwnerTypes ==
    \/ owner = Idle
    \/ owner \in [does : LinkWork, link : Links, then : {"configure", "erase"},
                  remove : Routers \union {-1}]
    \/ owner \in [does : RouterCommand, router : Routers]
    \/ owner \in [does : Barrier \ {"drain"}, next : Shards,
                  remove : Routers \union {-1}]
    \/ owner \in [does : {"drain"}, next : Shards, left : Nat,
                  remove : Routers \union {-1}]

-----------------------------------------------------------------------------
(* Commands, answers and the barrier.                                      *)

\* No command is under way to the shard.
Quiescent(s) == commands[s] = <<>> /\ results[s] = <<>>

\* The shard waits to be resumed and nothing has resumed it yet.
Parked(s) ==
    /\ stage[s] = "acknowledged" \/ (stage[s] = "paused" /\ ~resume[s])
    /\ ingress[s] = <<>>

\* The shard was told to pause; its answer may be there.
Pausing(s) ==
    \/ commands[s] = <<[kind |-> "pause"]>> /\ results[s] = <<>>
    \/ commands[s] = <<>> /\ results[s] = <<TRUE>> /\ Parked(s)

Stopped(s) == Quiescent(s) /\ Parked(s)

\* The command to add or to remove router i, or its answer, is under way.
Adding(i) ==
    \/ /\ commands[Shard(i)] = <<[kind |-> "add_router", device |-> Handle(i)]>>
       /\ results[Shard(i)] = <<>> /\ forwarder[i] = 0
    \/ /\ commands[Shard(i)] = <<>>
       /\ \E ok \in BOOLEAN :
             /\ results[Shard(i)] = <<ok>>
             /\ forwarder[i] = IF ok THEN device[i].generation ELSE 0

Removing(i) ==
    \/ /\ commands[Shard(i)] = <<[kind |-> "remove_router", device |-> Handle(i)]>>
       /\ results[Shard(i)] = <<>> /\ forwarder[i] = device[i].generation
    \/ commands[Shard(i)] = <<>> /\ results[Shard(i)] = <<TRUE>> /\ forwarder[i] = 0

\* What is under way to the shards at each point of the owner's operation.
Protocol ==
    /\ owner.does \in {"idle", "withdrawn", "resume"} \union LinkWork =>
          \A s \in Shards : Quiescent(s)
    /\ owner.does = "pause" => \A s \in Shards :
          IF s < owner.next THEN Pausing(s) ELSE Quiescent(s)
    /\ owner.does = "await" => \A s \in Shards :
          IF s < owner.next THEN Stopped(s) ELSE Pausing(s)
    /\ owner.does = "drain" => \A s \in Shards :
          /\ Stopped(s)
          /\ s < owner.next => egress[s] = <<>>
          /\ s = owner.next => Len(egress[s]) <= owner.left
    /\ owner.does = "quiet" => \A s \in Shards : Stopped(s) /\ egress[s] = <<>>
    /\ owner.does = "quiet" => owner.next = 0
    /\ owner.does \in {"add_router", "remove_router"} =>
          \A s \in Shards \ {Shard(owner.router)} : Quiescent(s)
    /\ owner.does = "add_router" => Adding(owner.router)
    /\ owner.does = "remove_router" => Removing(owner.router)

\* Registry, mirror and shard agree about router i.
Agree(i) ==
    /\ live[i] = (IF device[i].occupied THEN device[i].generation ELSE 0)
    /\ forwarder[i] = live[i]

Commanded(i) ==
    owner.does \in {"add_router", "remove_router"} /\ owner.router = i

Agreement ==
    /\ \A i \in Routers : ~Commanded(i) => Agree(i)
    /\ owner.does = "add_router" =>
          device[owner.router].occupied /\ live[owner.router] = 0
    /\ owner.does = "remove_router" =>
          /\ device[owner.router].occupied
          /\ live[owner.router] = device[owner.router].generation
    /\ owner.does = "withdrawn" => device[owner.router].occupied
    /\ owner.does \in Barrier /\ owner.remove # -1 => device[owner.remove].occupied

-----------------------------------------------------------------------------
(* Cables, media and ports.                                                *)

\* Router i is being created or deleted and has no cable.
Bare(i) ==
    \/ owner.does \in RouterCommand /\ owner.router = i
    \/ owner.does \in Barrier /\ owner.remove = i

EndsAt(l, e, i) == cable[l].occupied /\ cable[l].ends[e].index = i

Cabling ==
    /\ \A l \in Links : cable[l].occupied =>
          /\ cable[l].ends \in [Ends -> Node]
          /\ \A e \in Ends : /\ Registered(cable[l].ends[e])
                             /\ ~Bare(cable[l].ends[e].index)
    /\ \A l, m \in Links, e, f \in Ends :
          cable[l].occupied /\ cable[m].occupied
             /\ cable[l].ends[e].index = cable[m].ends[f].index => l = m /\ e = f

\* The owner is at work on cable l.
Worked(l) == owner.does \in LinkWork /\ owner.link = l

Media ==
    /\ \A l \in Links :
          IF wire[l] = None THEN ~cable[l].carrier
          ELSE /\ cable[l].occupied
               /\ wire[l].generation = cable[l].generation
               /\ wire[l].carrier # cable[l].carrier =>
                     owner.does \in {"remove", "report"} /\ owner.link = l
               /\ \A e \in Ends :
                     /\ wire[l].ends[e].node = cable[l].ends[e]
                     /\ binding[cable[l].ends[e].index] = Bound(l, wire[l], e)
    /\ \A i \in Routers : binding[i] # None =>
          /\ wire[binding[i].link] # None
          /\ binding[i] = Bound(binding[i].link, wire[binding[i].link], binding[i].end)
          /\ binding[i].port.node.index = i

\* What the stages of the work on a cable have reached.
Stages ==
    /\ owner.does \in LinkWork => cable[owner.link].occupied
    /\ owner.does \in LinkWork \ {"withdraw"} => ~cable[owner.link].carrier
    /\ owner.does \in {"configure", "erase"} => wire[owner.link] = None
    /\ owner.does = "report" => /\ wire[owner.link] # None
                               /\ wire[owner.link].carrier = cable[owner.link].admin
                               /\ Compatible(owner.link)
    /\ owner.does \in LinkWork /\ owner.remove # -1 =>
          /\ device[owner.remove].occupied
          /\ \E e \in Ends : EndsAt(owner.link, e, owner.remove)

\* The carrier of a cable is the verdict of reconcile().
Settled ==
    \A l \in Links : cable[l].occupied /\ ~Worked(l) =>
        (cable[l].carrier <=> cable[l].admin /\ Compatible(l))

Carried(i) == \E l \in Links, e \in Ends : cable[l].carrier /\ EndsAt(l, e, i)
Unsettled(i) ==
    owner.does = "withdraw" /\ \E e \in Ends : EndsAt(owner.link, e, i)

Signals ==
    /\ \A i \in Routers : ~port[i].present => ~port[i].signal
    /\ \A i \in Routers : device[i].occupied /\ ~Unsettled(i) =>
          (port[i].signal <=> Carried(i))

Topology == Cabling /\ Media /\ Stages /\ Settled /\ Signals

-----------------------------------------------------------------------------
(* Frames.                                                                 *)

Frames ==
    /\ \A s \in Shards : \A n \in 1 .. Len(ingress[s]) :
          ingress[s][n].aim = ingress[s][n].to
    /\ \A l \in Links : wire[l] # None => \A e \in Ends :
          \A n \in 1 .. Len(wire[l].tx[e]) :
             /\ wire[l].tx[e][n].from = wire[l].ends[e].node
             /\ wire[l].tx[e][n].aim = wire[l].ends[Peer(e)].node

PlaneInv ==
    /\ RegistryTypes /\ ShardTypes /\ OwnerTypes
    /\ Protocol /\ Agreement /\ Topology /\ Frames

-----------------------------------------------------------------------------
(* Facts about the constants and the values.                               *)

\* The absent medium, binding or pair of ends is none of the present ones.
LEMMA NoneIsNone ==
    /\ None \notin Wire /\ None \notin Binding /\ None \notin [Ends -> Node]
<1>1. DOMAIN None = {"none"}
    BY DEF None
<1>2. \A x \in Wire : "ends" \in DOMAIN x
    BY DEF Wire
<1>3. \A x \in Binding : "port" \in DOMAIN x
    BY DEF Binding
<1>4. \A x \in [Ends -> Node] : 1 \in DOMAIN x /\ 2 \in DOMAIN x
    BY DEF Ends
<1>5. None \notin [Ends -> Node]
    <2> SUFFICES ASSUME None \in [Ends -> Node] PROVE FALSE
        OBVIOUS
    <2>1. 1 \in {"none"} /\ 2 \in {"none"}
        BY <1>1, <1>4
    <2> QED BY <2>1
<1> QED BY <1>1, <1>2, <1>3, <1>5

\* A ring after a push and after a pop.
LEMMA Pushed ==
    ASSUME NEW S, NEW q \in Seq(S), NEW x \in S
    PROVE  /\ Append(q, x) \in Seq(S) /\ Len(q) \in Nat
           /\ Len(Append(q, x)) = Len(q) + 1
           /\ \A n \in 1 .. Len(q) : Append(q, x)[n] = q[n]
           /\ Append(q, x)[Len(q) + 1] = x
OBVIOUS

\* The same for the ring after a pop.
LEMMA Popped ==
    ASSUME NEW S, NEW q \in Seq(S), q # <<>>
    PROVE  /\ Head(q) \in S /\ Head(q) = q[1] /\ Len(q) \in Nat \ {0}
           /\ Tail(q) \in Seq(S) /\ Len(Tail(q)) = Len(q) - 1
           /\ \A n \in 1 .. Len(Tail(q)) : Tail(q)[n] = q[n + 1]
OBVIOUS

\* Every router has a forwarding thread.
LEMMA ShardOf ==
    ASSUME NEW i \in Routers
    PROVE  Shard(i) \in Shards
BY ForwardingShardsAssumption DEF Shard, Shards

\* release() leaves a generation a slot may have.
LEMMA NextGenerationType ==
    ASSUME NEW g \in Generations
    PROVE  NextGeneration(g) \in Generations
BY ForwardingShardsAssumption DEF NextGeneration, Generations

\* What the arithmetic of shards, ends, generations and budgets comes to.
LEMMA Numbers ==
    /\ NShards \in Nat \ {0} /\ 0 \in Shards /\ Shards \subseteq Nat
    /\ \A s \in Shards : s < NShards /\ (s + 1 # NShards => s + 1 \in Shards)
    /\ \A s \in Nat : s < NShards => s \in Shards
    /\ Generations \subseteq Nat \ {0} /\ Generations \subseteq 0 .. MaxGeneration
    /\ 0 \in 0 .. MaxGeneration /\ 1 \in Generations
    /\ Ends = {1, 2} /\ \A e \in Ends : Peer(e) \in Ends /\ Peer(e) # e
    /\ WorkBudget \in Nat /\ RingFrames \in Nat /\ RingFrames <= WorkBudget
    /\ -1 \notin Routers
BY ForwardingShardsAssumption, DrainEmptiesRing DEF Shards, Generations, Ends, Peer

\* The ends of the saved cables: end e of cable l is at router 2l + e - 1.
LEMMA SavedEnds ==
    /\ \A l \in SavedLinks, e \in Ends :
          /\ l \in Links /\ 2 * l + e - 1 \in SavedRouters
          /\ 2 * l + e - 1 \in Routers
          /\ (2 * l + e - 1) \div 2 = l /\ ((2 * l + e - 1) % 2) + 1 = e
    /\ \A i \in Routers : i \div 2 \in SavedLinks =>
          /\ (i % 2) + 1 \in Ends /\ 2 * (i \div 2) + ((i % 2) + 1) - 1 = i
          /\ i \in SavedRouters
<1>1. ASSUME NEW l \in SavedLinks, NEW e \in Ends
      PROVE  /\ l \in Links /\ 2 * l + e - 1 \in SavedRouters
             /\ 2 * l + e - 1 \in Routers
             /\ (2 * l + e - 1) \div 2 = l /\ ((2 * l + e - 1) % 2) + 1 = e
    <2>1. l \in Nat /\ l \in Links /\ {2 * l, 2 * l + 1} \subseteq SavedRouters
        BY ForwardingShardsAssumption
    <2>2. e = 1 \/ e = 2
        BY DEF Ends
    <2>3. (2 * l) \div 2 = l /\ (2 * l + 1) \div 2 = l
        BY <2>1
    <2>4. (2 * l) % 2 = 0 /\ (2 * l + 1) % 2 = 1
        BY <2>1
    <2>5. SavedRouters \subseteq Routers
        BY ForwardingShardsAssumption
    <2>6. CASE e = 1
        <3>1. 2 * l + e - 1 = 2 * l
            BY <2>1, <2>6
        <3> QED BY <2>1, <2>3, <2>4, <2>5, <2>6, <3>1
    <2>7. CASE e = 2
        <3>1. 2 * l + e - 1 = 2 * l + 1
            BY <2>1, <2>7
        <3> QED BY <2>1, <2>3, <2>4, <2>5, <2>7, <3>1
    <2> QED BY <2>2, <2>6, <2>7
<1>2. ASSUME NEW i \in Routers, i \div 2 \in SavedLinks
      PROVE  /\ (i % 2) + 1 \in Ends /\ 2 * (i \div 2) + ((i % 2) + 1) - 1 = i
             /\ i \in SavedRouters
    <2>1. i \in Nat
        BY ForwardingShardsAssumption
    <2>2. i % 2 \in {0, 1} /\ i = 2 * (i \div 2) + (i % 2) /\ i \div 2 \in Nat
        BY <2>1
    <2>3. (i % 2) + 1 \in Ends /\ 2 * (i \div 2) + ((i % 2) + 1) - 1 = i
        BY <2>2 DEF Ends
    <2>4. 2 * (i \div 2) + ((i % 2) + 1) - 1 \in SavedRouters
        BY <1>1, <1>2, <2>3
    <2> QED BY <2>3, <2>4
<1> QED BY <1>1, <1>2

\* An empty or restored laboratory satisfies the invariant.
LEMMA InitPlane == Init => PlaneInv
<1> SUFFICES ASSUME Init PROVE PlaneInv
    OBVIOUS
<1> USE DEF Init
<1>1. owner = Idle /\ owner.does = "idle"
    BY DEF Idle
<1>2. SavedGeneration \in Generations
    BY ForwardingShardsAssumption
<1>3. SavedRouters \subseteq Routers /\ DefaultSpeed \in Speeds /\ Speeds \subseteq Nat \ {0}
    BY ForwardingShardsAssumption
<1>4. ASSUME NEW i \in Routers
      PROVE  /\ device[i] \in [occupied : BOOLEAN, quiescing : BOOLEAN,
                               generation : Generations]
             /\ device[i].occupied <=> i \in SavedRouters
             /\ device[i].generation = SavedGeneration
             /\ port[i] \in PortState /\ port[i].present = TRUE
             /\ port[i].signal <=> i \div 2 \in SavedLinks
             /\ port[i].generation = 1 /\ port[i].speed = DefaultSpeed
    <2>1. /\ device[i] = IF i \in SavedRouters THEN SavedDevice
                         ELSE [SavedDevice EXCEPT !.occupied = FALSE]
          /\ port[i] = IF i \div 2 \in SavedLinks
                       THEN [FreshPort EXCEPT !.signal = TRUE] ELSE FreshPort
        OBVIOUS
    <2> HIDE DEF Init
    <2>2. /\ device[i] \in [occupied : BOOLEAN, quiescing : BOOLEAN,
                            generation : Generations]
          /\ device[i].occupied <=> i \in SavedRouters
          /\ device[i].generation = SavedGeneration
        <3>1. CASE i \in SavedRouters
            BY <1>2, <2>1, <3>1 DEF SavedDevice
        <3>2. CASE i \notin SavedRouters
            <4>1. device[i] = [occupied |-> FALSE, quiescing |-> FALSE,
                               generation |-> SavedGeneration]
                BY <2>1, <3>2 DEF SavedDevice
            <4> QED BY <1>2, <3>2, <4>1
        <3> QED BY <3>1, <3>2
    <2>3. CASE i \div 2 \in SavedLinks
        <3>1. port[i] = [present |-> TRUE, generation |-> 1, signal |-> TRUE,
                         speed |-> DefaultSpeed]
            BY <2>1, <2>3 DEF FreshPort
        <3> QED BY <1>3, <2>2, <2>3, <3>1, Numbers DEF PortState
    <2>4. CASE i \div 2 \notin SavedLinks
        <3>1. port[i] = FreshPort
            BY <2>1, <2>4
        <3> QED BY <1>3, <2>2, <2>4, <3>1, Numbers DEF PortState, FreshPort
    <2> QED BY <2>3, <2>4
<1>5. ASSUME NEW l \in Links
      PROVE  /\ cable[l] \in Cable
             /\ cable[l].occupied <=> l \in SavedLinks
             /\ cable[l].carrier <=> l \in SavedLinks
             /\ cable[l].admin <=> l \in SavedLinks
             /\ cable[l].generation = SavedGeneration /\ cable[l].speed = 0
             /\ l \in SavedLinks => \A e \in Ends : cable[l].ends[e] =
                   [index |-> 2 * l + e - 1, generation |-> SavedGeneration]
    <2>1. CASE l \in SavedLinks
        <3>1. cable[l] = SavedCable(l)
            BY <2>1
        <3>2. \A e \in Ends : [index |-> 2 * l + e - 1,
                               generation |-> SavedGeneration] \in Node
            BY <1>2, <2>1, SavedEnds DEF Node
        <3>3. cable[l].ends = [e \in Ends |-> [index |-> 2 * l + e - 1,
                                               generation |-> SavedGeneration]]
            BY <3>1 DEF SavedCable
        <3>4. cable[l].ends \in [Ends -> Node]
            BY <3>2, <3>3
        <3> QED BY <1>2, <2>1, <3>1, <3>3, <3>4 DEF SavedCable, Cable
    <2>2. CASE l \notin SavedLinks
        BY <1>2, <2>2 DEF FreeCable, Cable
    <2> QED BY <2>1, <2>2
<1>6. ASSUME NEW l \in SavedLinks, NEW e \in Ends
      PROVE  /\ 2 * l + e - 1 \in Routers /\ cable[l].ends[e].index = 2 * l + e - 1
             /\ Registered(cable[l].ends[e])
             /\ PortHandle(cable[l].ends[e].index) \in Port
             /\ PortHandle(cable[l].ends[e].index).node = cable[l].ends[e]
    <2> DEFINE i == 2 * l + e - 1
    <2>1. l \in Links /\ i \in Routers /\ i \in SavedRouters
        BY SavedEnds
    <2>2. cable[l].ends[e] = [index |-> i, generation |-> SavedGeneration]
        BY <1>5, <2>1
    <2> HIDE DEF i
    <2>3. device[i].occupied /\ device[i].generation = SavedGeneration
          /\ port[i].generation = 1
        BY <1>4, <2>1
    <2>4. Handle(i) = cable[l].ends[e] /\ Handle(i) \in Node
        BY <1>2, <2>1, <2>2, <2>3 DEF Handle, Node
    <2>5. PortHandle(i) \in Port /\ PortHandle(i).node = Handle(i)
        BY <2>3, <2>4, Numbers DEF PortHandle, Port
    <2>6. Registered(cable[l].ends[e]) /\ cable[l].ends[e].index = i
        BY <2>2, <2>3 DEF Registered
    <2> QED BY <2>1, <2>3, <2>4, <2>5, <2>6 DEF i
<1>7. ASSUME NEW l \in SavedLinks
      PROVE  /\ wire[l] \in Wire /\ wire[l] # None
             /\ wire[l].generation = SavedGeneration /\ wire[l].carrier = TRUE
             /\ \A e \in Ends : /\ wire[l].ends[e].node = cable[l].ends[e]
                                 /\ wire[l].tx[e] = <<>>
    <2>1. l \in Links /\ wire[l] = Program(l)
        BY SavedEnds, Numbers
    <2>2. Program(l).ends = [e \in Ends |-> PortHandle(cable[l].ends[e].index)]
        BY DEF Program
    <2>3. \A e \in Ends : /\ PortHandle(cable[l].ends[e].index) \in Port
                          /\ PortHandle(cable[l].ends[e].index).node = cable[l].ends[e]
        BY <1>6
    <2>4. /\ Program(l).ends \in [Ends -> Port]
          /\ \A e \in Ends : Program(l).ends[e].node = cable[l].ends[e]
        BY <2>2, <2>3, Zenon
    <2>5. Program(l) = [generation |-> SavedGeneration, carrier |-> TRUE,
                        ends |-> Program(l).ends, tx |-> [e \in Ends |-> <<>>]]
        BY <1>5, <2>1 DEF Program, Cable
    <2>6. Program(l) \in Wire
        <3>1. [e \in Ends |-> <<>>] \in [Ends -> Seq([from : Node, aim : Node])]
            OBVIOUS
        <3> DEFINE P == Program(l).ends
        <3>2. P \in [Ends -> Port]
            BY <2>4
        <3> HIDE DEF P
        <3>3. [generation |-> SavedGeneration, carrier |-> TRUE,
               ends |-> P, tx |-> [e \in Ends |-> <<>>]] \in Wire
            BY <1>2, <3>1, <3>2 DEF Wire
        <3> QED BY <2>5, <3>3 DEF P
    <2> QED BY <2>1, <2>4, <2>5, <2>6, NoneIsNone
<1>8. \A l \in Links : l \notin SavedLinks => wire[l] = None
    OBVIOUS
<1>9. ASSUME NEW i \in Routers, i \div 2 \in SavedLinks
      PROVE  /\ binding[i] = Bound(i \div 2, wire[i \div 2], (i % 2) + 1)
             /\ binding[i] \in Binding /\ binding[i] # None
             /\ binding[i].link = i \div 2 /\ binding[i].end = (i % 2) + 1
    <2> DEFINE l == i \div 2
               e == (i % 2) + 1
    <2>1. binding[i] = Bound(l, wire[l], e)
        BY <1>9
    <2>2. l \in SavedLinks /\ e \in Ends /\ l \in Links
        BY <1>9, SavedEnds
    <2> HIDE DEF l, e
    <2>3. wire[l].ends[e] \in Port /\ wire[l].generation \in Generations
        BY <1>7, <2>2 DEF Wire
    <2>4. Bound(l, wire[l], e) \in Binding /\ Bound(l, wire[l], e).link = l
          /\ Bound(l, wire[l], e).end = e
        BY <2>2, <2>3 DEF Bound, Binding
    <2> QED BY <2>1, <2>4, NoneIsNone DEF l, e
<1>10. \A i \in Routers : i \div 2 \notin SavedLinks => binding[i] = None
    OBVIOUS
<1>11. /\ device = [i \in Routers |-> device[i]] /\ port = [i \in Routers |-> port[i]]
       /\ cable = [l \in Links |-> cable[l]] /\ wire = [l \in Links |-> wire[l]]
       /\ binding = [i \in Routers |-> binding[i]]
    OBVIOUS
<1>12. RegistryTypes
    <2>1. cable \in [Links -> Cable]
        BY <1>5
    <2>6. device \in [Routers -> [occupied : BOOLEAN, quiescing : BOOLEAN,
                                  generation : Generations]]
        BY <1>4
    <2>2. port \in [Routers -> PortState]
        BY <1>4
    <2>3. wire \in [Links -> {None} \union Wire]
        BY <1>7, <1>8
    <2>4. binding \in [Routers -> {None} \union Binding]
        BY <1>9, <1>10
    <2>5. live \in [Routers -> 0 .. MaxGeneration]
        BY <1>2, Numbers
    <2> QED BY <2>1, <2>2, <2>3, <2>4, <2>5, <2>6 DEF RegistryTypes
<1>13. ShardTypes
    BY <1>12, Numbers, SMTT(30) DEF ShardTypes, RegistryTypes
<1>14. Protocol
    BY <1>1 DEF Protocol, LinkWork, Quiescent
<1>15. Agreement
    BY <1>1, <1>4 DEF Agreement, Agree, Barrier
<1>16. \A l \in SavedLinks : cable[l].ends # None
    <2> SUFFICES ASSUME NEW l \in SavedLinks PROVE cable[l].ends # None
        OBVIOUS
    <2>1. DOMAIN cable[l].ends = Ends
        BY SavedEnds, Numbers DEF SavedCable
    <2> HIDE DEF Init
    <2> QED BY <2>1, Numbers DEF None
<1>17. \A s \in Shards : ingress[s] = <<>>
    OBVIOUS
<1> HIDE DEF Init
<1>18. Cabling
    <2>1. ASSUME NEW l \in Links, cable[l].occupied
          PROVE  /\ cable[l].ends \in [Ends -> Node]
                 /\ \A e \in Ends : Registered(cable[l].ends[e])
        <3>1. l \in SavedLinks /\ cable[l].ends \in {None} \union [Ends -> Node]
            BY <1>5, <2>1 DEF Cable
        <3> QED BY <1>6, <1>16, <3>1
    <2>2. ASSUME NEW l \in Links, NEW m \in Links, NEW e \in Ends, NEW f \in Ends,
                 cable[l].occupied, cable[m].occupied,
                 cable[l].ends[e].index = cable[m].ends[f].index
          PROVE  l = m /\ e = f
        <3>1. l \in SavedLinks /\ m \in SavedLinks
            BY <1>5, <2>2
        <3>2. 2 * l + e - 1 = 2 * m + f - 1
            BY <1>6, <2>2, <3>1
        <3> QED BY <3>1, <3>2, SavedEnds
    <2>3. \A i \in Routers : ~Bare(i)
        BY <1>1 DEF Bare, Barrier, RouterCommand, LinkWork
    <2>4. \A l \in Links, e \in Ends : cable[l].occupied => ~Bare(cable[l].ends[e].index)
        BY <1>5, <1>6, <2>3
    <2> QED BY <2>1, <2>2, <2>4 DEF Cabling
<1>19. Media
    <2>1. ASSUME NEW l \in SavedLinks, NEW e \in Ends
          PROVE  binding[cable[l].ends[e].index] = Bound(l, wire[l], e)
        <3> DEFINE i == 2 * l + e - 1
        <3>1. cable[l].ends[e].index = i /\ i \in Routers
            BY <1>6
        <3>2. i \div 2 = l /\ (i % 2) + 1 = e
            BY SavedEnds
        <3> HIDE DEF i
        <3> QED BY <1>9, <3>1, <3>2
    <2>2. ASSUME NEW i \in Routers, binding[i] # None
          PROVE  /\ wire[binding[i].link] # None
                 /\ binding[i] = Bound(binding[i].link, wire[binding[i].link], binding[i].end)
                 /\ binding[i].port.node.index = i
        <3> DEFINE l == i \div 2
                   e == (i % 2) + 1
        <3>1. l \in SavedLinks
            BY <1>10, <2>2
        <3>2. e \in Ends /\ 2 * l + e - 1 = i
            BY <3>1, SavedEnds
        <3>3. binding[i].link = l /\ binding[i].end = e /\ binding[i] = Bound(l, wire[l], e)
            BY <1>9, <3>1
        <3> HIDE DEF l, e
        <3>4. wire[l] # None /\ wire[l].ends[e].node = cable[l].ends[e]
            BY <1>7, <3>1, <3>2
        <3>5. cable[l].ends[e].index = i
            BY <1>6, <3>1, <3>2
        <3>6. binding[i].port = wire[l].ends[e]
            BY <3>3 DEF Bound
        <3> QED BY <3>3, <3>4, <3>5, <3>6
    <2>3. \A l \in Links : wire[l] = None <=> l \notin SavedLinks
        BY <1>7, <1>8
    <2>4. ASSUME NEW l \in Links
          PROVE  IF wire[l] = None THEN ~cable[l].carrier
                 ELSE /\ cable[l].occupied
                      /\ wire[l].generation = cable[l].generation
                      /\ wire[l].carrier = cable[l].carrier
                      /\ \A e \in Ends :
                            /\ wire[l].ends[e].node = cable[l].ends[e]
                            /\ binding[cable[l].ends[e].index] = Bound(l, wire[l], e)
        <3>1. CASE wire[l] = None
            BY <1>5, <2>3, <3>1
        <3>2. CASE wire[l] # None
            <4>1. l \in SavedLinks /\ cable[l].carrier \in BOOLEAN
                BY <1>5, <2>3, <3>2 DEF Cable
            <4> QED BY <1>5, <1>7, <2>1, <3>2, <4>1
        <3> QED BY <3>1, <3>2
    <2> QED BY <2>2, <2>4 DEF Media
<1>20. Stages
    BY <1>1 DEF Stages, LinkWork
<1>21. \A l \in SavedLinks : Compatible(l)
    <2> SUFFICES ASSUME NEW l \in SavedLinks PROVE Compatible(l)
        OBVIOUS
    <2>1. l \in Links /\ cable[l].speed = 0
        BY <1>5, SavedEnds, Numbers
    <2>2. \A e \in Ends : /\ Registered(cable[l].ends[e])
                          /\ cable[l].ends[e].index \in Routers
        BY <1>6
    <2>3. \A e \in Ends : Resolves(cable[l].ends[e])
        BY <1>4, <2>2 DEF Resolves
    <2> QED BY <1>4, <2>1, <2>2, <2>3, Numbers DEF Compatible
<1>22. Settled
    BY <1>5, <1>21 DEF Settled
<1>23. Signals
    <2>1. ASSUME NEW i \in Routers
          PROVE  i \div 2 \in SavedLinks <=> Carried(i)
        <3>1. CASE i \div 2 \in SavedLinks
            <4>1. (i % 2) + 1 \in Ends /\ cable[i \div 2].ends[(i % 2) + 1].index = i
                BY <1>6, <3>1, SavedEnds
            <4>2. i \div 2 \in Links /\ cable[i \div 2].carrier /\ cable[i \div 2].occupied
                BY <1>5, <3>1, <4>1, SavedEnds
            <4> QED BY <3>1, <4>1, <4>2 DEF Carried, EndsAt
        <3>2. CASE Carried(i)
            <4>1. PICK l \in Links, e \in Ends : cable[l].carrier /\ EndsAt(l, e, i)
                BY <3>2 DEF Carried
            <4>2. l \in SavedLinks
                BY <1>5, <4>1
            <4>3. i = 2 * l + e - 1
                BY <1>6, <4>1, <4>2 DEF EndsAt
            <4>4. i \div 2 = l
                BY <4>2, <4>3, SavedEnds
            <4> QED BY <3>2, <4>2, <4>4
        <3> QED BY <3>1, <3>2
    <2>2. ASSUME NEW i \in Routers
          PROVE  port[i].present /\ (port[i].signal <=> Carried(i))
        <3>1. port[i].present = TRUE /\ (port[i].signal <=> i \div 2 \in SavedLinks)
            BY <1>4
        <3> QED BY <2>1, <3>1
    <2> QED BY <2>2 DEF Signals
<1>24. Frames
    <2>1. \A l \in Links : wire[l] # None => \A e \in Ends : wire[l].tx[e] = <<>>
        BY <1>7, <1>8
    <2> QED BY <1>17, <2>1 DEF Frames
<1> QED BY <1>1, <1>12, <1>13, <1>14, <1>15, <1>18, <1>19, <1>20, <1>22, <1>23, <1>24
        DEF PlaneInv, OwnerTypes, Topology

-----------------------------------------------------------------------------
(* The steps of a shard.                                                   *)

\* A step of a shard leaves the tables of the owner alone.
LEMMA PlaneKept ==
    ASSUME PlaneInv, UNCHANGED <<registries, plane, owner>>
    PROVE  RegistryTypes' /\ OwnerTypes' /\ Topology'
<1>1. UNCHANGED <<device, port, cable, live, binding, wire, owner>>
    BY DEF registries, plane
<1>2. RegistryTypes' /\ OwnerTypes'
    BY <1>1 DEF PlaneInv, RegistryTypes, OwnerTypes
<1>3. Cabling'
    BY <1>1 DEF PlaneInv, Topology, Cabling, Registered, Bare
<1>4. Media'
    BY <1>1 DEF PlaneInv, Topology, Media, Bound
<1>5. Signals'
    BY <1>1 DEF PlaneInv, Topology, Signals, Carried, Unsettled, EndsAt
<1>6. \A l \in Links : Compatible(l)' = Compatible(l)
    BY <1>1 DEF Compatible, Resolves, Registered
<1>7. Stages'
    BY <1>1 DEF PlaneInv, Topology, Stages, Compatible, Resolves, Registered, EndsAt
<1>8. Settled'
    BY <1>1, <1>6 DEF PlaneInv, Topology, Settled, Worked
<1> QED BY <1>2, <1>3, <1>4, <1>5, <1>7, <1>8 DEF Topology

\* A step that takes and gives no command, and leaves the parked shards alone.
LEMMA QuietShard ==
    ASSUME PlaneInv,
           UNCHANGED <<registries, plane, owner, forwarder, commands, results>>,
           \A s \in Shards : Parked(s) => Parked(s)' /\ egress'[s] = egress[s],
           ShardTypes',
           \A s \in Shards : \A n \in 1 .. Len(ingress'[s]) :
              ingress'[s][n].aim = ingress'[s][n].to
    PROVE  PlaneInv'
<1>1. RegistryTypes' /\ OwnerTypes' /\ Topology'
    BY PlaneKept
<1>2. UNCHANGED <<device, port, cable, live, binding, wire, owner>>
    BY DEF registries, plane
<1>3. \A s \in Shards : /\ Quiescent(s)' = Quiescent(s)
                        /\ Pausing(s) => Pausing(s)'
                        /\ Stopped(s) => Stopped(s)' /\ egress'[s] = egress[s]
    BY DEF Quiescent, Pausing, Stopped
<1>4. \A i \in Routers : Adding(i)' = Adding(i) /\ Removing(i)' = Removing(i)
    BY <1>2 DEF Adding, Removing, Handle, Shard
<1>5. Protocol'
    <2>1. OwnerTypes /\ Protocol
        BY DEF PlaneInv
    <2>2. owner.does \in {"add_router", "remove_router"} => owner.router \in Routers
        BY <2>1 DEF OwnerTypes, Idle, LinkWork, Barrier, RouterCommand
    <2> HIDE DEF Protocol, LinkWork
    <2>3. Protocol => Protocol'
        BY <1>2, <1>3, <1>4, <2>2 DEF Protocol, LinkWork
    <2> QED BY <2>1, <2>3
<1>6. Agreement'
    BY <1>2 DEF PlaneInv, Agreement, Agree, Commanded
<1>7. Frames'
    BY <1>2 DEF PlaneInv, Frames
<1> QED BY <1>1, <1>5, <1>6, <1>7 DEF PlaneInv

\* queue_egress: the frame goes to the end of the shard's ring or nowhere.
LEMMA EmitStep ==
    ASSUME ShardTypes, NEW s \in Shards,
           (\E i \in Routers : Emit(s, i)) \/ EmitNothing
    PROVE  /\ egress' \in [Shards -> Seq([from : Node])]
           /\ \A t \in Shards : Len(egress'[t]) <= RingFrames
           /\ \A t \in Shards \ {s} : egress'[t] = egress[t]
<1>1. egress \in [Shards -> Seq([from : Node])] /\ \A t \in Shards : Len(egress[t]) <= RingFrames
    BY DEF ShardTypes
<1>2. CASE EmitNothing
    BY <1>1, <1>2 DEF EmitNothing
<1>3. CASE \E i \in Routers : Emit(s, i)
    <2>1. PICK i \in Routers : Emit(s, i)
        BY <1>3
    <2> DEFINE f == [from |-> [index |-> i, generation |-> forwarder[i]]]
    <2>2. forwarder[i] \in Generations
        BY <2>1, ForwardingShardsAssumption DEF Emit, ShardTypes, Generations
    <2>3. f \in [from : Node]
        BY <2>2 DEF Node
    <2>4. egress' = egress \/ (/\ Len(egress[s]) # RingFrames
                               /\ egress' = [egress EXCEPT ![s] = Append(egress[s], f)])
        BY <2>1 DEF Emit
    <2> HIDE DEF f
    <2>5. CASE egress' = egress
        BY <1>1, <2>5
    <2>6. CASE /\ Len(egress[s]) # RingFrames
               /\ egress' = [egress EXCEPT ![s] = Append(egress[s], f)]
        <3>1. /\ Append(egress[s], f) \in Seq([from : Node])
              /\ Len(Append(egress[s], f)) = Len(egress[s]) + 1
              /\ Len(egress[s]) \in Nat
            BY <1>1, <2>3, Pushed
        <3>2. Len(Append(egress[s], f)) <= RingFrames
            BY <1>1, <2>6, <3>1, Numbers
        <3> QED BY <1>1, <2>6, <3>1, <3>2
    <2> QED BY <2>4, <2>5, <2>6
<1> QED BY <1>2, <1>3

\* The turn of the ingress loop.
LEMMA HandleIngressStep ==
    ASSUME PlaneInv, NEW s \in Shards, HandleIngress(s)
    PROVE  PlaneInv'
<1>1. /\ stage[s] = "ingress" /\ ingress[s] # <<>>
      /\ ingress' = [ingress EXCEPT ![s] = Tail(ingress[s])]
      /\ UNCHANGED <<registries, plane, owner, forwarder, commands, results>>
      /\ UNCHANGED <<stage, resume>>
    BY DEF HandleIngress
<1>2. ShardTypes
    BY DEF PlaneInv
<1>3. ingress \in [Shards -> Seq([to : Node, aim : Node])]
    BY <1>2 DEF ShardTypes
<1>4. (\E i \in Routers : Emit(s, i)) \/ EmitNothing
    <2>1. Head(ingress[s]) \in [to : Node, aim : Node]
        BY <1>1, <1>3, Popped
    <2>2. Head(ingress[s]).to.index \in Routers
        BY <2>1 DEF Node
    <2> QED BY <2>2 DEF HandleIngress
<1>5. /\ egress' \in [Shards -> Seq([from : Node])]
      /\ \A t \in Shards : Len(egress'[t]) <= RingFrames
      /\ \A t \in Shards \ {s} : egress'[t] = egress[t]
    BY <1>2, <1>4, EmitStep
<1>6. /\ Tail(ingress[s]) \in Seq([to : Node, aim : Node])
      /\ Len(Tail(ingress[s])) = Len(ingress[s]) - 1
      /\ \A n \in 1 .. Len(Tail(ingress[s])) : Tail(ingress[s])[n] = ingress[s][n + 1]
    <2>1. ingress[s] \in Seq([to : Node, aim : Node])
        BY <1>3
    <2> QED BY <1>1, <2>1, Popped, Zenon
<1>7. ShardTypes'
    BY <1>1, <1>2, <1>3, <1>5, <1>6 DEF ShardTypes
<1>8. \A t \in Shards : Parked(t) => Parked(t)' /\ egress'[t] = egress[t]
    BY <1>1, <1>3, <1>5 DEF Parked
<1>9. ASSUME NEW t \in Shards, NEW n \in 1 .. Len(ingress'[t])
      PROVE  ingress'[t][n].aim = ingress'[t][n].to
    <2>1. \A m \in 1 .. Len(ingress[t]) : ingress[t][m].aim = ingress[t][m].to
        BY DEF PlaneInv, Frames
    <2>2. CASE t # s
        BY <1>1, <1>3, <2>1, <2>2
    <2>3. CASE t = s
        <3>1. ingress'[s] = Tail(ingress[s])
            BY <1>1, <1>3
        <3>2. n \in 1 .. Len(Tail(ingress[s]))
            BY <2>3, <3>1
        <3>3. n + 1 \in 1 .. Len(ingress[s]) /\ ingress'[s][n] = ingress[s][n + 1]
            BY <1>3, <1>6, <3>1, <3>2
        <3> QED BY <2>1, <2>3, <3>3
    <2> QED BY <2>2, <2>3
<1> QED BY <1>1, <1>7, <1>8, <1>9, QuietShard

\* The steps of run() that move no frame.
LEMMA TurnStep ==
    ASSUME PlaneInv, NEW s \in Shards,
           EndIngress(s) \/ NoCommand(s) \/ Wake(s) \/ ClearResume(s) \/ LeavePause(s)
    PROVE  PlaneInv'
<1>1. /\ UNCHANGED <<registries, plane, owner, forwarder, commands, results>>
      /\ UNCHANGED <<ingress, egress>>
    BY DEF EndIngress, NoCommand, Wake, ClearResume, LeavePause, rings
<1>2. ShardTypes
    BY DEF PlaneInv
<1>3. \/ /\ stage[s] \in {"ingress", "command", "wait"}
         /\ UNCHANGED resume
         /\ stage' = [stage EXCEPT ![s] = stage'[s]]
         /\ stage'[s] \in {"ingress", "command", "maintenance"}
      \/ /\ stage[s] = "acknowledged"
         /\ resume' = [resume EXCEPT ![s] = FALSE]
         /\ stage' = [stage EXCEPT ![s] = "paused"]
      \/ /\ stage[s] = "paused" /\ resume[s] /\ UNCHANGED resume
         /\ stage' = [stage EXCEPT ![s] = "maintenance"]
    <2>1. stage \in [Shards -> {"wait", "ingress", "command", "maintenance",
                                "acknowledged", "paused"}]
        BY <1>2 DEF ShardTypes
    <2> QED BY <2>1 DEF EndIngress, NoCommand, Wake, ClearResume, LeavePause
<1>4. ShardTypes'
    <2>1. stage' \in [Shards -> {"wait", "ingress", "command", "maintenance",
                                 "acknowledged", "paused"}]
        BY <1>2, <1>3 DEF ShardTypes
    <2>2. resume' \in [Shards -> BOOLEAN]
        BY <1>2, <1>3 DEF ShardTypes
    <2> QED BY <1>1, <1>2, <2>1, <2>2 DEF ShardTypes
<1>5. \A t \in Shards : Parked(t) => Parked(t)' /\ egress'[t] = egress[t]
    <2>1. /\ resume \in [Shards -> BOOLEAN]
          /\ stage \in [Shards -> {"wait", "ingress", "command", "maintenance",
                                   "acknowledged", "paused"}]
        BY <1>2 DEF ShardTypes
    <2> QED BY <1>1, <1>3, <2>1 DEF Parked
<1>6. \A t \in Shards : \A n \in 1 .. Len(ingress'[t]) :
         ingress'[t][n].aim = ingress'[t][n].to
    BY <1>1 DEF PlaneInv, Frames
<1> QED BY <1>1, <1>4, <1>5, <1>6, QuietShard

\* service_forwarding emits frames and nothing else.
LEMMA MaintenanceStep ==
    ASSUME PlaneInv, NEW s \in Shards, Maintenance(s)
    PROVE  PlaneInv'
<1>1. /\ UNCHANGED <<registries, plane, owner, forwarder, commands, results>>
      /\ UNCHANGED <<ingress, resume>>
      /\ stage[s] = "maintenance" /\ stage' = [stage EXCEPT ![s] = "wait"]
      /\ (\E i \in Routers : Emit(s, i)) \/ EmitNothing
    BY DEF Maintenance
<1>2. ShardTypes
    BY DEF PlaneInv
<1>3. /\ egress' \in [Shards -> Seq([from : Node])]
      /\ \A t \in Shards : Len(egress'[t]) <= RingFrames
      /\ \A t \in Shards \ {s} : egress'[t] = egress[t]
    BY <1>1, <1>2, EmitStep
<1>4. ShardTypes'
    <2>1. stage' \in [Shards -> {"wait", "ingress", "command", "maintenance",
                                 "acknowledged", "paused"}]
        BY <1>1, <1>2 DEF ShardTypes
    <2> QED BY <1>1, <1>2, <1>3, <2>1 DEF ShardTypes
<1>5. \A t \in Shards : Parked(t) => Parked(t)' /\ egress'[t] = egress[t]
    <2>1. stage \in [Shards -> {"wait", "ingress", "command", "maintenance",
                                "acknowledged", "paused"}]
        BY <1>2 DEF ShardTypes
    <2> QED BY <1>1, <1>3, <2>1 DEF Parked
<1>6. \A t \in Shards : \A n \in 1 .. Len(ingress'[t]) :
         ingress'[t][n].aim = ingress'[t][n].to
    BY <1>1 DEF PlaneInv, Frames
<1> QED BY <1>1, <1>4, <1>5, <1>6, QuietShard

\* The command in the ring of a shard is the one the owner waits for.
LEMMA WhichCommand ==
    ASSUME PlaneInv, NEW s \in Shards, commands[s] # <<>>
    PROVE  \/ /\ owner.does \in {"pause", "await"}
              /\ commands[s] = <<[kind |-> "pause"]>> /\ results[s] = <<>>
           \/ /\ owner.does = "add_router" /\ owner.router \in Routers
              /\ s = Shard(owner.router) /\ results[s] = <<>>
              /\ commands[s] = <<[kind |-> "add_router", device |-> Handle(owner.router)]>>
              /\ forwarder[owner.router] = 0
           \/ /\ owner.does = "remove_router" /\ owner.router \in Routers
              /\ s = Shard(owner.router) /\ results[s] = <<>>
              /\ commands[s] = <<[kind |-> "remove_router", device |-> Handle(owner.router)]>>
              /\ forwarder[owner.router] = device[owner.router].generation
<1>1. ~Quiescent(s) /\ ~Stopped(s)
    BY DEF Quiescent, Stopped
<1>2. Pausing(s) => commands[s] = <<[kind |-> "pause"]>> /\ results[s] = <<>>
    BY DEF Pausing
<1>3. Protocol
    BY DEF PlaneInv
<1>4. \/ owner.does \in {"idle", "withdrawn"} \union LinkWork \union Barrier
      \/ owner.does \in {"add_router", "remove_router"} /\ owner.router \in Routers
    BY DEF PlaneInv, OwnerTypes, Idle, LinkWork, RouterCommand, Barrier
<1>5. CASE owner.does \in {"idle", "withdrawn", "resume", "drain", "quiet"} \union LinkWork
    BY <1>1, <1>3, <1>5 DEF Protocol, LinkWork
<1>6. CASE owner.does \in {"pause", "await"}
    BY <1>1, <1>2, <1>3, <1>6 DEF Protocol, LinkWork
<1>7. CASE owner.does = "add_router" /\ owner.router \in Routers
    <2>1. s = Shard(owner.router) /\ Adding(owner.router)
        BY <1>1, <1>3, <1>7 DEF Protocol, LinkWork
    <2> QED BY <1>7, <2>1 DEF Adding
<1>8. CASE owner.does = "remove_router" /\ owner.router \in Routers
    <2>1. s = Shard(owner.router) /\ Removing(owner.router)
        BY <1>1, <1>3, <1>8 DEF Protocol, LinkWork
    <2> QED BY <1>8, <2>1 DEF Removing
<1> QED BY <1>4, <1>5, <1>6, <1>7, <1>8 DEF Barrier

\* apply_forward_command of the one command there is.
LEMMA AnswerStep ==
    ASSUME PlaneInv, NEW s \in Shards, NEW success \in BOOLEAN, commands[s] # <<>>,
           Answer(s, success)
    PROVE  /\ RegistryTypes' /\ OwnerTypes' /\ Topology' /\ Frames'
           /\ results[s] = <<>> /\ commands'[s] = <<>> /\ results'[s] = <<success>>
           /\ \A t \in Shards \ {s} :
                 /\ commands'[t] = commands[t] /\ results'[t] = results[t]
                 /\ stage'[t] = stage[t]
           /\ stage'[s] = IF Head(commands[s]).kind = "pause" THEN "acknowledged"
                          ELSE "maintenance"
           /\ UNCHANGED <<device, live, owner, ingress, egress, resume>>
           /\ forwarder' \in [Routers -> 0 .. MaxGeneration] => ShardTypes'
<1>1. /\ commands' = [commands EXCEPT ![s] = Tail(commands[s])]
      /\ results' = [results EXCEPT ![s] = Append(results[s], success)]
      /\ stage' = [stage EXCEPT ![s] =
             IF Head(commands[s]).kind = "pause" THEN "acknowledged" ELSE "maintenance"]
      /\ UNCHANGED <<registries, plane, owner>>
      /\ UNCHANGED <<ingress, egress, resume>>
    BY DEF Answer
<1>2. ShardTypes
    BY DEF PlaneInv
<1>3. results[s] = <<>> /\ \E c : commands[s] = <<c>>
    BY WhichCommand
<1>4. Tail(commands[s]) = <<>> /\ Append(results[s], success) = <<success>>
    <2>1. PICK c : commands[s] = <<c>>
        BY <1>3
    <2>2. Tail(<<c>>) = <<>> /\ Append(<<>>, success) = <<success>>
        OBVIOUS
    <2> QED BY <1>3, <2>1, <2>2
<1>5. /\ commands'[s] = <<>> /\ results'[s] = <<success>>
      /\ stage'[s] = IF Head(commands[s]).kind = "pause" THEN "acknowledged"
                     ELSE "maintenance"
      /\ \A t \in Shards \ {s} : /\ commands'[t] = commands[t] /\ results'[t] = results[t]
                                 /\ stage'[t] = stage[t]
      /\ DOMAIN commands' = Shards /\ DOMAIN results' = Shards
      /\ stage' \in [Shards -> {"wait", "ingress", "command", "maintenance",
                                "acknowledged", "paused"}]
    BY <1>1, <1>2, <1>4 DEF ShardTypes
<1>6. RegistryTypes' /\ OwnerTypes' /\ Topology'
    BY <1>1, PlaneKept
<1>7. Frames'
    BY <1>1 DEF PlaneInv, Frames, plane
<1>8. UNCHANGED <<device, live, owner>>
    BY <1>1 DEF registries, plane
<1>9. forwarder' \in [Routers -> 0 .. MaxGeneration] => ShardTypes'
    BY <1>1, <1>2, <1>5 DEF ShardTypes
<1> QED BY <1>1, <1>3, <1>5, <1>6, <1>7, <1>8, <1>9

\* The shard that acknowledges a pause is parked.
LEMMA PauseAnswered ==
    ASSUME PlaneInv, NEW s \in Shards, ShardAcknowledgesPause(s)
    PROVE  PlaneInv'
<1>1. /\ commands[s] # <<>> /\ Head(commands[s]).kind = "pause"
      /\ Answer(s, TRUE) /\ UNCHANGED forwarder
    BY DEF ShardAcknowledgesPause
<1>2. /\ RegistryTypes' /\ OwnerTypes' /\ Topology' /\ Frames'
      /\ results[s] = <<>> /\ commands'[s] = <<>> /\ results'[s] = <<TRUE>>
      /\ \A t \in Shards \ {s} : /\ commands'[t] = commands[t] /\ results'[t] = results[t]
                                 /\ stage'[t] = stage[t]
      /\ stage'[s] = "acknowledged"
      /\ UNCHANGED <<device, live, owner, ingress, egress, resume>>
      /\ ShardTypes'
    BY <1>1, AnswerStep DEF PlaneInv, ShardTypes
<1>3. ingress[s] = <<>>
    BY <1>1 DEF Answer, Runnable
<1>4. owner.does \in {"pause", "await"} /\ commands[s] = <<[kind |-> "pause"]>>
    <2>1. Head(<<[kind |-> "add_router", device |-> Handle(owner.router)]>>).kind = "add_router"
        OBVIOUS
    <2>2. Head(<<[kind |-> "remove_router", device |-> Handle(owner.router)]>>).kind = "remove_router"
        OBVIOUS
    <2> QED BY <1>1, <2>1, <2>2, WhichCommand
<1>5. Pausing(s)' /\ ~Quiescent(s) /\ ~Stopped(s)
    BY <1>2, <1>3, <1>4 DEF Pausing, Parked, Quiescent, Stopped
<1>6. \A t \in Shards \ {s} : /\ Quiescent(t)' = Quiescent(t)
                              /\ Pausing(t)' = Pausing(t)
                              /\ Stopped(t)' = Stopped(t)
    BY <1>2 DEF Quiescent, Pausing, Stopped, Parked
<1>7. Protocol'
    <2>1. Protocol
        BY DEF PlaneInv
    <2> QED BY <1>2, <1>4, <1>5, <1>6, <2>1 DEF Protocol, LinkWork
<1>8. Agreement'
    BY <1>1, <1>2 DEF PlaneInv, Agreement, Agree, Commanded
<1> QED BY <1>2, <1>7, <1>8 DEF PlaneInv

\* An admitted router has the generation the owner asked for.
LEMMA AddAnswered ==
    ASSUME PlaneInv, NEW s \in Shards, NEW success \in BOOLEAN, ShardAdds(s, success)
    PROVE  PlaneInv'
<1> DEFINE i == owner.router
           h == Head(commands[s]).device
<1>1. /\ commands[s] # <<>> /\ Head(commands[s]).kind = "add_router"
      /\ Answer(s, success)
      /\ forwarder' = IF success THEN [forwarder EXCEPT ![h.index] = h.generation]
                      ELSE forwarder
    BY DEF ShardAdds
<1>2. /\ owner.does = "add_router" /\ i \in Routers /\ s = Shard(i) /\ results[s] = <<>>
      /\ commands[s] = <<[kind |-> "add_router", device |-> Handle(i)]>>
      /\ forwarder[i] = 0
    <2>1. Head(<<[kind |-> "pause"]>>).kind = "pause"
        OBVIOUS
    <2>2. Head(<<[kind |-> "remove_router", device |-> Handle(owner.router)]>>).kind = "remove_router"
        OBVIOUS
    <2> QED BY <1>1, <2>1, <2>2, WhichCommand
<1>3. h.index = i /\ h.generation = device[i].generation
    <2>1. Head(<<[kind |-> "add_router", device |-> Handle(i)]>>).device = Handle(i)
        OBVIOUS
    <2> QED BY <1>2, <2>1 DEF Handle
<1>4. /\ forwarder \in [Routers -> 0 .. MaxGeneration]
      /\ device[i].generation \in 0 .. MaxGeneration
    BY <1>2, Numbers DEF PlaneInv, ShardTypes, RegistryTypes
<1>5. /\ forwarder' \in [Routers -> 0 .. MaxGeneration]
      /\ forwarder'[i] = IF success THEN device[i].generation ELSE 0
      /\ \A j \in Routers \ {i} : forwarder'[j] = forwarder[j]
    BY <1>1, <1>2, <1>3, <1>4
<1>6. /\ RegistryTypes' /\ OwnerTypes' /\ Topology' /\ Frames' /\ ShardTypes'
      /\ commands'[s] = <<>> /\ results'[s] = <<success>>
      /\ \A t \in Shards \ {s} : /\ commands'[t] = commands[t] /\ results'[t] = results[t]
      /\ UNCHANGED <<device, live, owner, ingress, egress, resume>>
    BY <1>1, <1>5, AnswerStep
<1>7. Adding(i)'
    BY <1>2, <1>5, <1>6 DEF Adding, Shard
<1>8. \A t \in Shards \ {s} : Quiescent(t)'
    BY <1>2, <1>6 DEF PlaneInv, Protocol, LinkWork, Quiescent
<1>9. Protocol'
    BY <1>2, <1>6, <1>7, <1>8 DEF Protocol, LinkWork, Shard
<1>10. Agreement'
    BY <1>2, <1>5, <1>6 DEF PlaneInv, Agreement, Agree, Commanded, Barrier
<1> QED BY <1>6, <1>9, <1>10 DEF PlaneInv

\* A removed router is gone from its shard when the answer is there.
LEMMA RemoveAnswered ==
    ASSUME PlaneInv, NEW s \in Shards, ShardRemoves(s)
    PROVE  PlaneInv'
<1> DEFINE i == owner.router
           h == Head(commands[s]).device
<1>1. /\ commands[s] # <<>> /\ Head(commands[s]).kind = "remove_router"
      /\ Answer(s, forwarder[h.index] = h.generation)
      /\ forwarder' = IF forwarder[h.index] = h.generation
                      THEN [forwarder EXCEPT ![h.index] = 0] ELSE forwarder
    BY DEF ShardRemoves
<1>2. /\ owner.does = "remove_router" /\ i \in Routers /\ s = Shard(i) /\ results[s] = <<>>
      /\ commands[s] = <<[kind |-> "remove_router", device |-> Handle(i)]>>
      /\ forwarder[i] = device[i].generation
    <2>1. Head(<<[kind |-> "pause"]>>).kind = "pause"
        OBVIOUS
    <2>2. Head(<<[kind |-> "add_router", device |-> Handle(owner.router)]>>).kind = "add_router"
        OBVIOUS
    <2> QED BY <1>1, <2>1, <2>2, WhichCommand
<1>3. h.index = i /\ h.generation = device[i].generation
    <2>1. Head(<<[kind |-> "remove_router", device |-> Handle(i)]>>).device = Handle(i)
        OBVIOUS
    <2> QED BY <1>2, <2>1 DEF Handle
<1>4. forwarder \in [Routers -> 0 .. MaxGeneration]
    BY DEF PlaneInv, ShardTypes
<1>5. /\ Answer(s, TRUE) /\ forwarder' = [forwarder EXCEPT ![i] = 0]
    <2>1. (forwarder[h.index] = h.generation) = TRUE
        BY <1>2, <1>3
    <2> QED BY <1>1, <1>3, <2>1
<1>6. /\ forwarder' \in [Routers -> 0 .. MaxGeneration] /\ forwarder'[i] = 0
      /\ \A j \in Routers \ {i} : forwarder'[j] = forwarder[j]
    BY <1>2, <1>4, <1>5, Numbers
<1>7. /\ RegistryTypes' /\ OwnerTypes' /\ Topology' /\ Frames' /\ ShardTypes'
      /\ commands'[s] = <<>> /\ results'[s] = <<TRUE>>
      /\ \A t \in Shards \ {s} : /\ commands'[t] = commands[t] /\ results'[t] = results[t]
      /\ UNCHANGED <<device, live, owner, ingress, egress, resume>>
    BY <1>1, <1>5, <1>6, AnswerStep
<1>8. Removing(i)'
    BY <1>2, <1>6, <1>7 DEF Removing, Shard
<1>9. \A t \in Shards \ {s} : Quiescent(t)'
    BY <1>2, <1>7 DEF PlaneInv, Protocol, LinkWork, Quiescent
<1>10. Protocol'
    BY <1>2, <1>7, <1>8, <1>9 DEF Protocol, LinkWork, Shard
<1>11. Agreement'
    BY <1>2, <1>6, <1>7 DEF PlaneInv, Agreement, Agree, Commanded, Barrier
<1> QED BY <1>7, <1>10, <1>11 DEF PlaneInv

\* Every step of a forwarding thread keeps the invariant.
LEMMA ShardStepKeeps ==
    ASSUME PlaneInv, NEW s \in Shards, ShardStep(s)
    PROVE  PlaneInv'
BY HandleIngressStep, TurnStep, MaintenanceStep, PauseAnswered, AddAnswered,
   RemoveAnswered DEF ShardStep

-----------------------------------------------------------------------------
(* The steps of the owner that change no cable.                            *)

\* The fields the owner's record has at each point of its operation.
LEMMA OwnerFields ==
    ASSUME OwnerTypes
    PROVE  /\ owner.does \in {"idle"} \union LinkWork \union RouterCommand \union Barrier
           /\ owner.does = "idle" => owner = Idle
           /\ owner.does \in LinkWork =>
                 owner \in [does : LinkWork, link : Links, then : {"configure", "erase"},
                            remove : Routers \union {-1}]
           /\ owner.does \in RouterCommand =>
                 owner \in [does : RouterCommand, router : Routers]
           /\ owner.does \in Barrier \ {"drain"} =>
                 owner \in [does : Barrier \ {"drain"}, next : Shards,
                            remove : Routers \union {-1}]
           /\ owner.does = "drain" =>
                 owner \in [does : {"drain"}, next : Shards, left : Nat,
                            remove : Routers \union {-1}]
BY DEF OwnerTypes, Idle, LinkWork, RouterCommand, Barrier

\* A settled cable stays settled while its ends keep their registration, their
\* equipment and their rates.
LEMMA SettledKept ==
    ASSUME PlaneInv,
           \A l \in Links : cable'[l].occupied /\ ~Worked(l)' =>
              \/ cable'[l].carrier <=> cable'[l].admin /\ Compatible(l)'
              \/ /\ cable'[l] = cable[l] /\ ~Worked(l)
                 /\ \A e \in Ends :
                       /\ Registered(cable[l].ends[e])'
                       /\ port'[cable[l].ends[e].index].present =
                             port[cable[l].ends[e].index].present
                       /\ port'[cable[l].ends[e].index].speed =
                             port[cable[l].ends[e].index].speed
    PROVE  Settled'
<1> SUFFICES ASSUME NEW l \in Links, cable'[l].occupied, ~Worked(l)'
             PROVE  cable'[l].carrier <=> cable'[l].admin /\ Compatible(l)'
    BY DEF Settled
<1>1. CASE cable'[l].carrier <=> cable'[l].admin /\ Compatible(l)'
    BY <1>1
<1>2. CASE /\ cable'[l] = cable[l] /\ ~Worked(l)
           /\ \A e \in Ends :
                 /\ Registered(cable[l].ends[e])'
                 /\ port'[cable[l].ends[e].index].present =
                       port[cable[l].ends[e].index].present
                 /\ port'[cable[l].ends[e].index].speed =
                       port[cable[l].ends[e].index].speed
    <2>1. /\ cable[l].carrier <=> cable[l].admin /\ Compatible(l)
          /\ \A e \in Ends : Registered(cable[l].ends[e])
        BY <1>2 DEF PlaneInv, Topology, Settled, Cabling
    <2>2. Compatible(l)' <=> Compatible(l)
        <3>1. \A e \in Ends : Resolves(cable[l].ends[e])' <=> Resolves(cable[l].ends[e])
            BY <1>2, <2>1 DEF Resolves
        <3>2. /\ port'[cable[l].ends[1].index].speed = port[cable[l].ends[1].index].speed
              /\ port'[cable[l].ends[2].index].speed = port[cable[l].ends[2].index].speed
            BY <1>2, Numbers
        <3> QED BY <1>2, <3>1, <3>2 DEF Compatible
    <2> QED BY <1>2, <2>1, <2>2
<1> QED BY <1>1, <1>2

\* The tables stay as they are while the owner goes on.
LEMMA TopologyKept ==
    ASSUME PlaneInv, UNCHANGED <<device, port, cable, binding, wire>>,
           owner.does \notin LinkWork, owner'.does \notin LinkWork,
           \A i \in Routers : Bare(i)' => Bare(i)
    PROVE  Topology'
<1>1. \A l \in Links : cable[l].occupied => cable[l].ends \in [Ends -> Node]
    BY DEF PlaneInv, Topology, Cabling
<1>2. \A l \in Links, e \in Ends : cable[l].occupied => cable[l].ends[e].index \in Routers
    BY <1>1 DEF Node
<1>3. Cabling'
    BY <1>2 DEF PlaneInv, Topology, Cabling, Registered
<1>4. Media'
    BY DEF PlaneInv, Topology, Media, Bound, LinkWork
<1>5. Signals'
    BY DEF PlaneInv, Topology, Signals, Carried, Unsettled, EndsAt, LinkWork
<1>6. Stages'
    BY DEF Stages, LinkWork
<1>7. Settled'
    <2>1. \A l \in Links : ~Worked(l) /\ ~Worked(l)'
        BY DEF Worked
    <2>2. \A l \in Links, e \in Ends : cable[l].occupied => Registered(cable[l].ends[e])'
        BY DEF PlaneInv, Topology, Cabling, Registered
    <2> QED BY <2>1, <2>2, SettledKept
<1> QED BY <1>3, <1>4, <1>5, <1>6, <1>7 DEF Topology

\* Frames that do not move stay good.
LEMMA FramesKept ==
    ASSUME PlaneInv, UNCHANGED <<wire, ingress>>
    PROVE  Frames'
BY DEF PlaneInv, Frames

\* A checkpoint begins with the barrier.
LEMMA CheckpointStep ==
    ASSUME PlaneInv, Checkpoint
    PROVE  PlaneInv'
<1>1. /\ owner = Idle /\ owner.does = "idle"
      /\ owner' = [does |-> "pause", next |-> 0, remove |-> -1]
      /\ UNCHANGED <<device, port, cable, live, binding, wire, forwarder>>
      /\ UNCHANGED <<commands, results, ingress, egress, stage, resume>>
    BY DEF Checkpoint, Begin, Idle, registries, plane, rings, turn
<1>2. OwnerTypes'
    BY <1>1, Numbers DEF OwnerTypes, Barrier
<1>3. RegistryTypes' /\ ShardTypes'
    BY <1>1 DEF PlaneInv, RegistryTypes, ShardTypes
<1>4. Protocol'
    <2>1. \A s \in Shards : Quiescent(s)'
        BY <1>1 DEF PlaneInv, Protocol, LinkWork, Quiescent
    <2> QED BY <1>1, <2>1, Numbers DEF Protocol, LinkWork
<1>5. Agreement'
    BY <1>1 DEF PlaneInv, Agreement, Agree, Commanded, Barrier
<1>6. Topology'
    BY <1>1, TopologyKept, Numbers DEF Bare, Barrier, RouterCommand, LinkWork
<1>7. Frames'
    BY <1>1, FramesKept
<1> QED BY <1>2, <1>3, <1>4, <1>5, <1>6, <1>7 DEF PlaneInv

\* pause_forwarding, first loop.
LEMMA SubmitPauseStep ==
    ASSUME PlaneInv, SubmitPause
    PROVE  PlaneInv'
<1> DEFINE p == [kind |-> "pause"]
<1>0. PICK n \in Shards : n = owner.next
    BY OwnerFields DEF PlaneInv, SubmitPause, Barrier
<1>1. /\ owner.does = "pause"
      /\ commands' = [commands EXCEPT ![n] = Append(commands[n], p)]
      /\ owner' = IF n + 1 = NShards THEN [owner EXCEPT !.does = "await", !.next = 0]
                  ELSE [owner EXCEPT !.next = n + 1]
      /\ UNCHANGED <<device, port, cable, live, binding, wire, forwarder>>
      /\ UNCHANGED <<results, ingress, egress, stage, resume>>
    BY <1>0 DEF SubmitPause, Submit, registries, plane, turn
<1>2. owner \in [does : Barrier \ {"drain"}, next : Shards, remove : Routers \union {-1}]
    BY <1>1, OwnerFields DEF PlaneInv, Barrier
<1>3. n \in Shards /\ n \in Nat /\ owner.remove \in Routers \union {-1}
    BY <1>2, Numbers
<1>4. /\ owner' \in [does : Barrier \ {"drain"}, next : Shards,
                     remove : Routers \union {-1}]
      /\ owner'.remove = owner.remove
      /\ \/ n + 1 = NShards /\ owner'.does = "await" /\ owner'.next = 0
         \/ n + 1 # NShards /\ owner'.does = "pause" /\ owner'.next = n + 1
    BY <1>0, <1>1, <1>2, <1>3, Numbers DEF Barrier
<1>5. OwnerTypes'
    BY <1>4 DEF OwnerTypes
<1>6. RegistryTypes' /\ ShardTypes'
    BY <1>1 DEF PlaneInv, RegistryTypes, ShardTypes
<1>7. \A s \in Shards : IF s < n THEN Pausing(s) ELSE Quiescent(s)
    BY <1>0, <1>1 DEF PlaneInv, Protocol, LinkWork
<1>8. commands'[n] = <<p>> /\ \A s \in Shards \ {n} : commands'[s] = commands[s]
    <2>1. commands[n] = <<>> /\ Append(<<>>, p) = <<p>>
        BY <1>3, <1>7 DEF Quiescent
    <2>2. DOMAIN commands = Shards
        BY DEF PlaneInv, ShardTypes
    <2> QED BY <1>1, <1>3, <2>1, <2>2
<1>9. /\ Pausing(n)'
      /\ \A s \in Shards \ {n} : Pausing(s)' = Pausing(s) /\ Quiescent(s)' = Quiescent(s)
    <2>1. results'[n] = <<>>
        BY <1>1, <1>3, <1>7 DEF Quiescent
    <2>2. Pausing(n)'
        BY <1>8, <2>1 DEF Pausing
    <2>3. \A s \in Shards \ {n} : Pausing(s)' = Pausing(s) /\ Quiescent(s)' = Quiescent(s)
        BY <1>1, <1>8 DEF Pausing, Quiescent, Parked
    <2> QED BY <2>2, <2>3
<1>10. Protocol'
    <2>1. CASE n + 1 = NShards /\ owner'.does = "await" /\ owner'.next = 0
        <3>1. \A s \in Shards : s < n \/ s = n
            BY <1>3, <2>1, Numbers DEF Shards
        <3>2. \A s \in Shards : Pausing(s)' /\ ~(s < 0)
            BY <1>7, <1>9, <3>1, Numbers
        <3> QED BY <2>1, <3>2 DEF Protocol, LinkWork
    <2>2. CASE n + 1 # NShards /\ owner'.does = "pause" /\ owner'.next = n + 1
        <3>1. \A s \in Shards : s < n + 1 <=> s < n \/ s = n
            BY <1>3, Numbers
        <3>2. \A s \in Shards : IF s < n + 1 THEN Pausing(s)' ELSE Quiescent(s)'
            BY <1>7, <1>9, <3>1
        <3> QED BY <2>2, <3>2 DEF Protocol, LinkWork
    <2> QED BY <1>4, <2>1, <2>2
<1>11. Agreement'
    BY <1>1, <1>4 DEF PlaneInv, Agreement, Agree, Commanded, Barrier
<1>12. Topology'
    BY <1>1, <1>4, TopologyKept DEF Bare, Barrier, RouterCommand, LinkWork
<1>13. Frames'
    BY <1>1, FramesKept
<1> QED BY <1>5, <1>6, <1>10, <1>11, <1>12, <1>13 DEF PlaneInv

\* pause_forwarding, second loop.
LEMMA AwaitPauseStep ==
    ASSUME PlaneInv, AwaitPause
    PROVE  PlaneInv'
<1>0. PICK n \in Shards : n = owner.next
    BY OwnerFields DEF PlaneInv, AwaitPause, Barrier
<1>1. /\ owner.does = "await" /\ results[n] # <<>>
      /\ results' = [results EXCEPT ![n] = Tail(results[n])]
      /\ owner' = IF n + 1 = NShards
                  THEN [does |-> "drain", next |-> 0, remove |-> owner.remove,
                        left |-> WorkBudget]
                  ELSE [owner EXCEPT !.next = n + 1]
      /\ UNCHANGED <<device, port, cable, live, binding, wire, forwarder>>
      /\ UNCHANGED <<commands, ingress, egress, stage, resume>>
    BY <1>0 DEF AwaitPause, registries, plane, turn
<1>2. owner \in [does : Barrier \ {"drain"}, next : Shards, remove : Routers \union {-1}]
    BY <1>1, OwnerFields DEF PlaneInv, Barrier
<1>3. n \in Shards /\ n \in Nat /\ owner.remove \in Routers \union {-1}
    BY <1>2, Numbers
<1>4. \/ /\ n + 1 = NShards /\ owner'.does = "drain" /\ owner'.next = 0
         /\ owner'.left = WorkBudget /\ owner'.remove = owner.remove
         /\ owner' \in [does : {"drain"}, next : Shards, left : Nat,
                        remove : Routers \union {-1}]
      \/ /\ n + 1 # NShards /\ owner'.does = "await" /\ owner'.next = n + 1
         /\ owner'.remove = owner.remove
         /\ owner' \in [does : Barrier \ {"drain"}, next : Shards,
                        remove : Routers \union {-1}]
    BY <1>0, <1>1, <1>2, <1>3, Numbers DEF Barrier
<1>5. OwnerTypes'
    BY <1>4 DEF OwnerTypes
<1>6. RegistryTypes' /\ ShardTypes'
    BY <1>1 DEF PlaneInv, RegistryTypes, ShardTypes
<1>7. \A s \in Shards : IF s < n THEN Stopped(s) ELSE Pausing(s)
    BY <1>0, <1>1 DEF PlaneInv, Protocol, LinkWork
<1>8. Pausing(n) /\ results[n] = <<TRUE>> /\ commands[n] = <<>> /\ Parked(n)
    <2>1. Pausing(n)
        BY <1>3, <1>7
    <2> QED BY <1>1, <2>1 DEF Pausing
<1>9. results'[n] = <<>> /\ \A s \in Shards \ {n} : results'[s] = results[s]
    <2>1. Tail(<<TRUE>>) = <<>>
        OBVIOUS
    <2>2. DOMAIN results = Shards
        BY DEF PlaneInv, ShardTypes
    <2> QED BY <1>1, <1>3, <1>8, <2>1, <2>2
<1>10. /\ Stopped(n)'
       /\ \A s \in Shards \ {n} : Pausing(s)' = Pausing(s) /\ Stopped(s)' = Stopped(s)
    BY <1>1, <1>3, <1>8, <1>9 DEF Pausing, Stopped, Quiescent, Parked
<1>11. Protocol'
    <2>1. CASE /\ n + 1 = NShards /\ owner'.does = "drain" /\ owner'.next = 0
               /\ owner'.left = WorkBudget
        <3>1. \A s \in Shards : s < n \/ s = n
            BY <1>3, <2>1, Numbers DEF Shards
        <3>2. \A s \in Shards : Stopped(s)' /\ ~(s < 0)
            BY <1>7, <1>10, <3>1, Numbers
        <3>3. \A s \in Shards : Len(egress'[s]) <= WorkBudget
            <4>1. \A s \in Shards : Len(egress[s]) <= RingFrames /\ Len(egress[s]) \in Nat
                BY DEF PlaneInv, ShardTypes
            <4> QED BY <1>1, <4>1, Numbers
        <3> QED BY <2>1, <3>2, <3>3 DEF Protocol, LinkWork
    <2>2. CASE n + 1 # NShards /\ owner'.does = "await" /\ owner'.next = n + 1
        <3>1. \A s \in Shards : s < n + 1 <=> s < n \/ s = n
            BY <1>3, Numbers
        <3>2. \A s \in Shards : IF s < n + 1 THEN Stopped(s)' ELSE Pausing(s)'
            BY <1>7, <1>10, <3>1
        <3> QED BY <2>2, <3>2 DEF Protocol, LinkWork
    <2> QED BY <1>4, <2>1, <2>2
<1>12. Agreement'
    BY <1>1, <1>4 DEF PlaneInv, Agreement, Agree, Commanded, Barrier
<1>13. Topology'
    BY <1>1, <1>4, TopologyKept DEF Bare, Barrier, RouterCommand, LinkWork
<1>14. Frames'
    BY <1>1, FramesKept
<1> QED BY <1>5, <1>6, <1>11, <1>12, <1>13, <1>14 DEF PlaneInv

\* resume_forwarding: a resumed shard is no longer asked to wait.
LEMMA ResumeStep ==
    ASSUME PlaneInv, ResumeShard
    PROVE  PlaneInv'
<1>1. /\ owner.does \in {"quiet", "resume"}
      /\ resume' = [resume EXCEPT ![owner.next] = TRUE]
      /\ owner' = IF owner.next + 1 < NShards
                  THEN [owner EXCEPT !.does = "resume", !.next = owner.next + 1]
                  ELSE IF owner.remove = -1 THEN Idle
                       ELSE [does |-> "withdrawn", router |-> owner.remove]
      /\ UNCHANGED <<device, port, cable, live, binding, wire, forwarder>>
      /\ UNCHANGED <<commands, results, ingress, egress, stage>>
    BY DEF ResumeShard, registries, plane, rings, turn
<1>2. owner \in [does : Barrier \ {"drain"}, next : Shards, remove : Routers \union {-1}]
    BY <1>1, OwnerFields DEF PlaneInv, Barrier
<1>3. owner.next \in Shards /\ owner.next \in Nat /\ owner.remove \in Routers \union {-1}
    BY <1>2, Numbers
<1>4. \/ /\ owner'.does = "resume" /\ owner'.remove = owner.remove
         /\ owner' \in [does : Barrier \ {"drain"}, next : Shards,
                        remove : Routers \union {-1}]
      \/ owner' = Idle /\ owner'.does = "idle"
      \/ /\ owner.remove \in Routers /\ owner'.does = "withdrawn"
         /\ owner'.router = owner.remove
         /\ owner' \in [does : RouterCommand, router : Routers]
    <2>1. CASE owner.next + 1 < NShards
        <3>1. owner.next + 1 \in Shards
            BY <1>3, <2>1, Numbers
        <3> QED BY <1>1, <1>2, <2>1, <3>1 DEF Barrier
    <2>2. CASE ~(owner.next + 1 < NShards) /\ owner.remove = -1
        BY <1>1, <2>2 DEF Idle
    <2>3. CASE ~(owner.next + 1 < NShards) /\ owner.remove # -1
        BY <1>1, <1>3, <2>3 DEF RouterCommand
    <2> QED BY <2>1, <2>2, <2>3
<1>5. OwnerTypes'
    BY <1>4 DEF OwnerTypes
<1>6. RegistryTypes' /\ ShardTypes'
    BY <1>1, <1>3 DEF PlaneInv, RegistryTypes, ShardTypes
<1>7. \A s \in Shards : Quiescent(s)'
    <2>1. \A s \in Shards : Quiescent(s)
        BY <1>1 DEF PlaneInv, Protocol, LinkWork, Stopped
    <2> QED BY <1>1, <2>1 DEF Quiescent
<1>8. Protocol'
    BY <1>4, <1>7 DEF Protocol, LinkWork
<1>9. Agreement'
    BY <1>1, <1>2, <1>4, Numbers DEF PlaneInv, Agreement, Agree, Commanded, Barrier
<1>10. Topology'
    BY <1>1, <1>4, TopologyKept, Numbers DEF Bare, Barrier, RouterCommand, LinkWork
<1>11. Frames'
    BY <1>1, FramesKept
<1> QED BY <1>5, <1>6, <1>8, <1>9, <1>10, <1>11 DEF PlaneInv

\* A refused removal leaves the router as it was, without its cable.
LEMMA RefusedStep ==
    ASSUME PlaneInv, NEW i \in Routers, RemoveRefused(i)
    PROVE  PlaneInv'
<1>1. /\ owner.does = "withdrawn" /\ owner' = Idle /\ owner'.does = "idle"
      /\ UNCHANGED <<device, port, cable, live, binding, wire, forwarder>>
      /\ UNCHANGED <<commands, results, ingress, egress, stage, resume>>
    BY DEF RemoveRefused, registries, plane, rings, turn, Idle
<1>2. OwnerTypes' /\ RegistryTypes' /\ ShardTypes'
    BY <1>1 DEF PlaneInv, OwnerTypes, RegistryTypes, ShardTypes
<1>3. Protocol'
    BY <1>1 DEF PlaneInv, Protocol, LinkWork, Quiescent
<1>4. Agreement'
    BY <1>1 DEF PlaneInv, Agreement, Agree, Commanded, Barrier
<1>5. Topology'
    BY <1>1, TopologyKept DEF Bare, Barrier, RouterCommand, LinkWork
<1>6. Frames'
    BY <1>1, FramesKept
<1> QED BY <1>2, <1>3, <1>4, <1>5, <1>6 DEF PlaneInv

\* The shard is asked to remove what the owner still has.
LEMMA RemoveForwarderStep ==
    ASSUME PlaneInv, NEW i \in Routers, RemoveForwarder(i)
    PROVE  PlaneInv'
<1> DEFINE c == [kind |-> "remove_router", device |-> Handle(i)]
           s == Shard(i)
<1>1. /\ owner = [does |-> "withdrawn", router |-> i]
      /\ live[i] = device[i].generation
      /\ commands' = [commands EXCEPT ![s] = Append(commands[s], c)]
      /\ owner' = [does |-> "remove_router", router |-> i]
      /\ UNCHANGED <<device, port, cable, live, binding, wire, forwarder>>
      /\ UNCHANGED <<results, ingress, egress, stage, resume>>
    BY DEF RemoveForwarder, Submit, registries, plane, turn
<1>2. /\ owner.does = "withdrawn" /\ owner.router = i
      /\ owner'.does = "remove_router" /\ owner'.router = i
    BY <1>1
<1>3. OwnerTypes' /\ RegistryTypes' /\ ShardTypes'
    BY <1>1 DEF PlaneInv, OwnerTypes, RegistryTypes, ShardTypes, RouterCommand
<1>4. device[i].occupied /\ Agree(i)
    BY <1>2 DEF PlaneInv, Agreement, Commanded
<1>5. s \in Shards
    BY ShardOf
<1>6. \A t \in Shards : Quiescent(t)
    BY <1>2 DEF PlaneInv, Protocol, LinkWork
<1>7. commands'[s] = <<c>> /\ \A t \in Shards \ {s} : commands'[t] = commands[t]
    <2>1. commands[s] = <<>> /\ Append(<<>>, c) = <<c>>
        BY <1>5, <1>6 DEF Quiescent
    <2>2. DOMAIN commands = Shards
        BY DEF PlaneInv, ShardTypes
    <2> HIDE DEF c
    <2> QED BY <1>1, <1>5, <2>1, <2>2
<1>8. Removing(i)'
    <2>1. results'[s] = <<>>
        BY <1>1, <1>5, <1>6 DEF Quiescent
    <2>2. Handle(i)' = Handle(i)
        BY <1>1 DEF Handle
    <2>3. forwarder'[i] = device'[i].generation
        BY <1>1, <1>4 DEF Agree
    <2> QED BY <1>7, <2>1, <2>2, <2>3 DEF Removing, Shard
<1>9. \A t \in Shards \ {s} : Quiescent(t)'
    BY <1>1, <1>6, <1>7 DEF Quiescent
<1>10. Protocol'
    BY <1>2, <1>8, <1>9 DEF Protocol, LinkWork, Shard
<1>11. Agreement'
    BY <1>1, <1>2, <1>4 DEF PlaneInv, Agreement, Agree, Commanded, Barrier
<1>12. Topology'
    BY <1>1, <1>2, TopologyKept DEF Bare, Barrier, RouterCommand, LinkWork
<1>13. Frames'
    BY <1>1, FramesKept
<1> QED BY <1>3, <1>10, <1>11, <1>12, <1>13 DEF PlaneInv

\* A slot without a cable is released.
LEMMA TopologyReleased ==
    ASSUME PlaneInv, NEW i \in Routers, Bare(i),
           UNCHANGED <<port, cable, binding, wire>>,
           \A j \in Routers \ {i} : device'[j] = device[j],
           ~device'[i].occupied, owner.does \notin LinkWork, owner' = Idle
    PROVE  Topology'
<1>1. owner'.does = "idle"
    BY DEF Idle
<1>2. \A l \in Links : cable[l].occupied => cable[l].ends \in [Ends -> Node]
    BY DEF PlaneInv, Topology, Cabling
<1>3. \A l \in Links, e \in Ends : cable[l].occupied =>
         cable[l].ends[e].index \in Routers \ {i}
    BY <1>2 DEF Node, PlaneInv, Topology, Cabling
<1>4. Cabling'
    BY <1>1, <1>3 DEF PlaneInv, Topology, Cabling, Registered, Bare, Barrier, RouterCommand
<1>5. Media'
    BY <1>1 DEF PlaneInv, Topology, Media, Bound, LinkWork
<1>6. Signals'
    BY <1>1 DEF PlaneInv, Topology, Signals, Carried, Unsettled, EndsAt, LinkWork
<1>7. Stages'
    BY <1>1 DEF Stages, LinkWork
<1>8. Settled'
    <2>1. \A l \in Links : ~Worked(l) /\ ~Worked(l)'
        BY <1>1 DEF Worked, LinkWork
    <2>2. \A l \in Links, e \in Ends : cable[l].occupied => Registered(cable[l].ends[e])'
        BY <1>4 DEF Cabling
    <2> QED BY <2>1, <2>2, SettledKept
<1> QED BY <1>4, <1>5, <1>6, <1>7, <1>8 DEF Topology

\* release() of a registry slot.
LEMMA ReleaseTypes ==
    ASSUME RegistryTypes, NEW i \in Routers, ReleaseDevice(i)
    PROVE  /\ device' \in [Routers -> [occupied : BOOLEAN, quiescing : BOOLEAN,
                                       generation : Generations]]
           /\ device'[i].occupied = FALSE
           /\ \A j \in Routers \ {i} : device'[j] = device[j]
<1>1. /\ device \in [Routers -> [occupied : BOOLEAN, quiescing : BOOLEAN,
                                 generation : Generations]]
      /\ NextGeneration(device[i].generation) \in Generations
    BY NextGenerationType DEF RegistryTypes
<1> QED BY <1>1 DEF ReleaseDevice

\* The answer to an admission: both tables agree again.
LEMMA AddedStep ==
    ASSUME PlaneInv, NEW i \in Routers, RouterAdded(i)
    PROVE  PlaneInv'
<1> DEFINE s == Shard(i)
<1>1. /\ owner = [does |-> "add_router", router |-> i] /\ results[s] # <<>>
      /\ results' = [results EXCEPT ![s] = Tail(results[s])]
      /\ IF Head(results[s])
         THEN live' = [live EXCEPT ![i] = device[i].generation] /\ UNCHANGED device
         ELSE ReleaseDevice(i) /\ UNCHANGED live
      /\ owner' = Idle
      /\ UNCHANGED <<port, cable, binding, wire, forwarder>>
      /\ UNCHANGED <<commands, ingress, egress, stage, resume>>
    BY DEF RouterAdded, turn
<1>2. owner.does = "add_router" /\ owner.router = i /\ owner'.does = "idle"
    BY <1>1 DEF Idle
<1>3. s \in Shards
    BY ShardOf
<1>4. PICK ok \in BOOLEAN :
         /\ commands[s] = <<>> /\ results[s] = <<ok>>
         /\ forwarder[i] = IF ok THEN device[i].generation ELSE 0
    BY <1>1, <1>2 DEF PlaneInv, Protocol, LinkWork, Adding
<1>5. Head(results[s]) = ok /\ Tail(results[s]) = <<>>
    <2>1. Head(<<ok>>) = ok /\ Tail(<<ok>>) = <<>>
        OBVIOUS
    <2> QED BY <1>4, <2>1
<1>6. \A t \in Shards : Quiescent(t)'
    <2>1. \A t \in Shards \ {s} : Quiescent(t)
        BY <1>2 DEF PlaneInv, Protocol, LinkWork
    <2>2. DOMAIN results = Shards
        BY DEF PlaneInv, ShardTypes
    <2> QED BY <1>1, <1>3, <1>4, <1>5, <2>1, <2>2 DEF Quiescent
<1>7. /\ OwnerTypes' /\ ShardTypes' /\ Protocol' /\ Frames'
    <2>1. ShardTypes'
        BY <1>1 DEF PlaneInv, ShardTypes
    <2>2. Protocol'
        BY <1>2, <1>6 DEF Protocol, LinkWork
    <2> QED BY <1>1, <2>1, <2>2, FramesKept DEF OwnerTypes
<1>8. RegistryTypes /\ live[i] = 0 /\ device[i].occupied
    BY <1>2 DEF PlaneInv, Agreement
<1>9. \A j \in Routers \ {i} : Agree(j)
    BY <1>2 DEF PlaneInv, Agreement, Commanded
<1>10. CASE ok
    <2>1. live' = [live EXCEPT ![i] = device[i].generation] /\ UNCHANGED device
        BY <1>1, <1>5, <1>10
    <2>2. RegistryTypes'
        BY <1>1, <1>8, <2>1, Numbers DEF RegistryTypes
    <2>3. \A j \in Routers : Agree(j)'
        BY <1>1, <1>4, <1>8, <1>9, <1>10, <2>1 DEF Agree, RegistryTypes
    <2>4. Agreement'
        BY <1>2, <2>3 DEF Agreement, Barrier
    <2>5. Topology'
        BY <1>1, <1>2, <2>1, TopologyKept DEF Bare, Barrier, RouterCommand, LinkWork
    <2> QED BY <1>7, <2>2, <2>4, <2>5 DEF PlaneInv
<1>11. CASE ~ok
    <2>1. ReleaseDevice(i) /\ UNCHANGED live
        BY <1>1, <1>5, <1>11
    <2>2. /\ device' \in [Routers -> [occupied : BOOLEAN, quiescing : BOOLEAN,
                                      generation : Generations]]
          /\ device'[i].occupied = FALSE
          /\ \A j \in Routers \ {i} : device'[j] = device[j]
        BY <1>8, <2>1, ReleaseTypes
    <2>3. RegistryTypes'
        BY <1>1, <1>8, <2>1, <2>2 DEF RegistryTypes
    <2>4. \A j \in Routers : Agree(j)'
        BY <1>1, <1>4, <1>8, <1>9, <1>11, <2>1, <2>2 DEF Agree
    <2>5. Agreement'
        BY <1>2, <2>4 DEF Agreement, Barrier
    <2>6. Bare(i)
        BY <1>2 DEF Bare, RouterCommand
    <2>7. Topology'
        BY <1>1, <1>2, <2>2, <2>6, TopologyReleased DEF LinkWork
    <2> QED BY <1>7, <2>3, <2>5, <2>7 DEF PlaneInv
<1> QED BY <1>10, <1>11

\* The answer to a removal: both tables agree again.
LEMMA RemovedStep ==
    ASSUME PlaneInv, NEW i \in Routers, RouterRemoved(i)
    PROVE  PlaneInv'
<1> DEFINE s == Shard(i)
<1>1. /\ owner = [does |-> "remove_router", router |-> i] /\ results[s] # <<>>
      /\ results' = [results EXCEPT ![s] = Tail(results[s])]
      /\ IF Head(results[s])
         THEN live' = [live EXCEPT ![i] = 0] /\ ReleaseDevice(i)
         ELSE UNCHANGED <<live, device>>
      /\ owner' = Idle
      /\ UNCHANGED <<port, cable, binding, wire, forwarder>>
      /\ UNCHANGED <<commands, ingress, egress, stage, resume>>
    BY DEF RouterRemoved, turn
<1>2. owner.does = "remove_router" /\ owner.router = i /\ owner'.does = "idle"
    BY <1>1 DEF Idle
<1>3. s \in Shards
    BY ShardOf
<1>4. commands[s] = <<>> /\ results[s] = <<TRUE>> /\ forwarder[i] = 0
    BY <1>1, <1>2 DEF PlaneInv, Protocol, LinkWork, Removing
<1>5. Head(results[s]) = TRUE /\ Tail(results[s]) = <<>>
    <2>1. \A x : Head(<<x>>) = x /\ Tail(<<x>>) = <<>>
        OBVIOUS
    <2> QED BY <1>4, <2>1
<1>6. \A t \in Shards : Quiescent(t)'
    <2>1. \A t \in Shards \ {s} : Quiescent(t)
        BY <1>2 DEF PlaneInv, Protocol, LinkWork
    <2>2. DOMAIN results = Shards
        BY DEF PlaneInv, ShardTypes
    <2> QED BY <1>1, <1>3, <1>4, <1>5, <2>1, <2>2 DEF Quiescent
<1>7. /\ OwnerTypes' /\ ShardTypes' /\ Protocol' /\ Frames'
    <2>1. ShardTypes'
        BY <1>1 DEF PlaneInv, ShardTypes
    <2>2. Protocol'
        BY <1>2, <1>6 DEF Protocol, LinkWork
    <2> QED BY <1>1, <2>1, <2>2, FramesKept DEF OwnerTypes
<1>8. live' = [live EXCEPT ![i] = 0] /\ ReleaseDevice(i)
    BY <1>1, <1>5
<1>9. RegistryTypes /\ \A j \in Routers \ {i} : Agree(j)
    BY <1>2 DEF PlaneInv, Agreement, Commanded
<1>10. /\ device' \in [Routers -> [occupied : BOOLEAN, quiescing : BOOLEAN,
                                   generation : Generations]]
       /\ device'[i].occupied = FALSE
       /\ \A j \in Routers \ {i} : device'[j] = device[j]
    BY <1>8, <1>9, ReleaseTypes
<1>11. RegistryTypes'
    BY <1>1, <1>8, <1>9, <1>10, Numbers DEF RegistryTypes
<1>12. \A j \in Routers : Agree(j)'
    BY <1>1, <1>4, <1>8, <1>9, <1>10 DEF Agree, RegistryTypes
<1>13. Agreement'
    BY <1>2, <1>12 DEF Agreement, Barrier
<1>14. Bare(i)
    BY <1>2 DEF Bare, RouterCommand
<1>15. Topology'
    BY <1>1, <1>2, <1>10, <1>14, TopologyReleased DEF LinkWork
<1> QED BY <1>7, <1>11, <1>13, <1>15 DEF PlaneInv

\* create_network_device: the slot was free, so no cable ends there.
LEMMA CreateRouterStep ==
    ASSUME PlaneInv, NEW i \in Routers, CreateRouter(i)
    PROVE  PlaneInv'
<1> DEFINE c == [kind |-> "add_router", device |-> Handle(i)]
           s == Shard(i)
<1>1. /\ owner = Idle /\ ~device[i].occupied /\ live[i] = 0
      /\ device' = [device EXCEPT ![i].occupied = TRUE, ![i].quiescing = FALSE]
      /\ port' = [port EXCEPT ![i] = FreshPort]
      /\ commands' = [commands EXCEPT ![s] = Append(commands[s], c)]
      /\ owner' = [does |-> "add_router", router |-> i]
      /\ UNCHANGED <<cable, live, binding, wire, forwarder>>
      /\ UNCHANGED <<results, ingress, egress, stage, resume>>
    BY DEF CreateRouter, Begin, FirstFree, Submit, plane, turn
<1>2. owner.does = "idle" /\ owner'.does = "add_router" /\ owner'.router = i
    BY <1>1 DEF Idle
<1>3. RegistryTypes
    BY DEF PlaneInv
<1>4. /\ device' \in [Routers -> [occupied : BOOLEAN, quiescing : BOOLEAN,
                                  generation : Generations]]
      /\ device'[i].occupied = TRUE /\ device'[i].generation = device[i].generation
      /\ \A j \in Routers \ {i} : device'[j] = device[j]
    BY <1>1, <1>3 DEF RegistryTypes
<1>5. /\ port' \in [Routers -> PortState]
      /\ port'[i].signal = FALSE /\ port'[i].present = TRUE
      /\ \A j \in Routers \ {i} : port'[j] = port[j]
    BY <1>1, <1>3, Numbers, ForwardingShardsAssumption
       DEF RegistryTypes, FreshPort, PortState
<1>6. RegistryTypes'
    BY <1>1, <1>3, <1>4, <1>5 DEF RegistryTypes
<1>7. OwnerTypes' /\ ShardTypes'
    BY <1>1 DEF PlaneInv, OwnerTypes, ShardTypes, RouterCommand
<1>8. \A t \in Shards : Quiescent(t)
    BY <1>2 DEF PlaneInv, Protocol, LinkWork
<1>9. s \in Shards
    BY ShardOf
<1>10. commands'[s] = <<c>> /\ \A t \in Shards \ {s} : commands'[t] = commands[t]
    <2>1. commands[s] = <<>> /\ Append(<<>>, c) = <<c>>
        BY <1>8, <1>9 DEF Quiescent
    <2>2. DOMAIN commands = Shards
        BY DEF PlaneInv, ShardTypes
    <2> HIDE DEF c
    <2> QED BY <1>1, <1>9, <2>1, <2>2
<1>11. \A j \in Routers : Agree(j)
    BY <1>2 DEF PlaneInv, Agreement, Commanded
<1>12. Protocol'
    <2>1. Adding(i)'
        <3>1. results'[s] = <<>>
            BY <1>1, <1>8, <1>9 DEF Quiescent
        <3>2. Handle(i)' = Handle(i)
            BY <1>4 DEF Handle
        <3>3. forwarder'[i] = 0
            BY <1>1, <1>11 DEF Agree
        <3> QED BY <1>10, <3>1, <3>2, <3>3 DEF Adding, Shard
    <2>2. \A t \in Shards \ {s} : Quiescent(t)'
        BY <1>1, <1>8, <1>10 DEF Quiescent
    <2> QED BY <1>2, <2>1, <2>2 DEF Protocol, LinkWork, Shard
<1>13. Agreement'
    BY <1>1, <1>2, <1>4, <1>11 DEF Agreement, Agree, Commanded, Barrier
<1>14. \A l \in Links, e \in Ends : cable[l].occupied =>
          cable[l].ends[e] \in Node /\ cable[l].ends[e].index \in Routers \ {i}
    <2>1. \A l \in Links : cable[l].occupied =>
             /\ cable[l].ends \in [Ends -> Node]
             /\ \A e \in Ends : Registered(cable[l].ends[e])
        BY DEF PlaneInv, Topology, Cabling
    <2> QED BY <1>1, <2>1 DEF Node, Registered
<1>15. Cabling'
    BY <1>1, <1>2, <1>4, <1>14
       DEF PlaneInv, Topology, Cabling, Registered, Bare, Barrier, RouterCommand
<1>16. Media'
    BY <1>1, <1>2 DEF PlaneInv, Topology, Media, Bound
<1>17. Signals'
    <2>1. \A j \in Routers : Carried(j)' = Carried(j) /\ ~Unsettled(j)' /\ ~Unsettled(j)
        BY <1>1, <1>2 DEF Carried, Unsettled, EndsAt
    <2>2. ~Carried(i)
        BY <1>14 DEF Carried, EndsAt
    <2> QED BY <1>4, <1>5, <2>1, <2>2 DEF PlaneInv, Topology, Signals
<1>18. Frames'
    BY <1>1, FramesKept
<1>19. Stages'
    BY <1>2 DEF Stages, LinkWork
<1>20. Settled'
    <2>1. \A l \in Links : ~Worked(l) /\ ~Worked(l)'
        BY <1>2 DEF Worked, LinkWork
    <2>2. \A l \in Links, e \in Ends : cable[l].occupied => Registered(cable[l].ends[e])'
        BY <1>1, <1>15 DEF Cabling
    <2> QED BY <1>1, <1>5, <1>14, <2>1, <2>2, SettledKept
<1> QED BY <1>6, <1>7, <1>12, <1>13, <1>15, <1>16, <1>17, <1>18, <1>19, <1>20
        DEF PlaneInv, Topology

-----------------------------------------------------------------------------
(* Frames.                                                                 *)

\* The same medium, with other frames on it.
SameMedium(v, w) ==
    /\ (v = None) = (w = None)
    /\ w # None => /\ v.generation = w.generation /\ v.carrier = w.carrier
                   /\ v.ends = w.ends

\* The frames of a medium are of the router at their end, for the other one.
GoodMedium(w) ==
    w # None => \A e \in Ends : \A n \in 1 .. Len(w.tx[e]) :
        /\ w.tx[e][n].from = w.ends[e].node
        /\ w.tx[e][n].aim = w.ends[Peer(e)].node

\* A frame enters the medium only at the end its sender owns.
LEMMA EnqueueKeeps ==
    ASSUME PlaneInv, NEW f \in [from : Node]
    PROVE  /\ Enqueue(wire, f) \in [Links -> {None} \union Wire]
           /\ \A l \in Links : /\ SameMedium(Enqueue(wire, f)[l], wire[l])
                               /\ GoodMedium(Enqueue(wire, f)[l])
<1> DEFINE b == binding[f.from.index]
           k == b.link
           e == b.end
           x == [from |-> f.from, aim |-> wire[k].ends[Peer(e)].node]
           q == wire[k].tx[e]
           W == Enqueue(wire, f)
<1>1. /\ wire \in [Links -> {None} \union Wire]
      /\ \A l \in Links : GoodMedium(wire[l])
    BY DEF PlaneInv, RegistryTypes, Frames, GoodMedium
<1>2. \A l \in Links : SameMedium(wire[l], wire[l])
    BY DEF SameMedium
<1>3. CASE b = None \/ b.port.node # f.from \/ wire[k] = None
             \/ wire[k].generation # b.generation \/ ~wire[k].carrier
    <2>1. W = wire
        BY <1>3 DEF Enqueue
    <2> HIDE DEF W
    <2>2. /\ W \in [Links -> {None} \union Wire]
          /\ \A l \in Links : SameMedium(W[l], wire[l]) /\ GoodMedium(W[l])
        BY <1>1, <1>2, <2>1
    <2> QED BY <2>2 DEF W
<1>4. CASE ~(b = None \/ b.port.node # f.from \/ wire[k] = None
               \/ wire[k].generation # b.generation \/ ~wire[k].carrier)
    <2>1. f.from \in Node /\ f.from.index \in Routers
        BY DEF Node
    <2>2. b \in Binding
        BY <1>4, <2>1 DEF PlaneInv, RegistryTypes
    <2>3. k \in Links /\ e \in Ends /\ Peer(e) \in Ends
        BY <2>2, Numbers DEF Binding
    <2>4. wire[k] \in Wire /\ wire[k] # None
        BY <1>1, <1>4, <2>3
    <2>5. wire[k].ends[e].node = f.from
        <3>1. b = Bound(k, wire[k], e)
            BY <1>4, <2>1 DEF PlaneInv, Topology, Media
        <3>2. b.port = wire[k].ends[e]
            BY <3>1 DEF Bound
        <3> QED BY <1>4, <3>2
    <2>6. W = [wire EXCEPT ![k].tx[e] = Append(wire[k].tx[e], x)]
        BY <1>4 DEF Enqueue
    <2>7. /\ wire[k].tx \in [Ends -> Seq([from : Node, aim : Node])]
          /\ wire[k].ends \in [Ends -> Port] /\ wire[k].generation \in Generations
          /\ wire[k].carrier \in BOOLEAN
        BY <2>4 DEF Wire
    <2>8. x \in [from : Node, aim : Node] /\ q \in Seq([from : Node, aim : Node])
        BY <2>1, <2>3, <2>7 DEF Port
    <2>9. /\ Append(q, x) \in Seq([from : Node, aim : Node]) /\ Len(q) \in Nat
          /\ Len(Append(q, x)) = Len(q) + 1
          /\ \A n \in 1 .. Len(q) : Append(q, x)[n] = q[n]
          /\ Append(q, x)[Len(q) + 1] = x
        <3> DEFINE S == [from : Node, aim : Node]
        <3>1. x \in S /\ q \in Seq(S)
            BY <2>8
        <3> HIDE DEF x, q, S
        <3>2. /\ Append(q, x) \in Seq(S) /\ Len(q) \in Nat
              /\ Len(Append(q, x)) = Len(q) + 1
              /\ \A n \in 1 .. Len(q) : Append(q, x)[n] = q[n]
              /\ Append(q, x)[Len(q) + 1] = x
            BY <3>1, Pushed
        <3> QED BY <3>2 DEF S
    <2>10. /\ x.from = wire[k].ends[e].node
           /\ x.aim = wire[k].ends[Peer(e)].node
        BY <2>5
    <2> DEFINE v == [wire[k] EXCEPT !.tx = [wire[k].tx EXCEPT ![e] = Append(q, x)]]
    <2>11. W = [wire EXCEPT ![k] = v]
        BY <2>6
    <2>12. /\ v.generation = wire[k].generation /\ v.carrier = wire[k].carrier
           /\ v.ends = wire[k].ends /\ v.tx = [wire[k].tx EXCEPT ![e] = Append(q, x)]
           /\ v \in Wire
        BY <2>3, <2>4, <2>7, <2>9 DEF Wire
    <2> HIDE DEF W, v, x, q
    <2>13. SameMedium(v, wire[k])
        BY <2>4, <2>12, NoneIsNone DEF SameMedium
    <2>14. GoodMedium(v)
        <3> SUFFICES ASSUME NEW g \in Ends, NEW n \in 1 .. Len(v.tx[g])
                     PROVE  /\ v.tx[g][n].from = v.ends[g].node
                            /\ v.tx[g][n].aim = v.ends[Peer(g)].node
            BY DEF GoodMedium
        <3>1. \A m \in 1 .. Len(wire[k].tx[g]) :
                /\ wire[k].tx[g][m].from = wire[k].ends[g].node
                /\ wire[k].tx[g][m].aim = wire[k].ends[Peer(g)].node
            BY <1>1, <2>3, <2>4 DEF GoodMedium
        <3>2. CASE g # e
            <4>1. v.tx[g] = wire[k].tx[g]
                BY <2>7, <2>12, <3>2
            <4> QED BY <2>12, <3>1, <4>1
        <3>3. CASE g = e
            <4>1. v.tx[g] = Append(q, x) /\ q = wire[k].tx[g]
                BY <2>3, <2>7, <2>12, <3>3 DEF q
            <4>2. n \in 1 .. Len(q) \/ n = Len(q) + 1
                <5>1. n \in 1 .. Len(q) + 1 /\ Len(q) \in Nat
                    BY <2>9, <4>1
                <5> QED BY <5>1
            <4>4. CASE n \in 1 .. Len(q)
                <5>1. v.tx[g][n] = wire[k].tx[g][n] /\ n \in 1 .. Len(wire[k].tx[g])
                    BY <2>9, <4>1, <4>4
                <5> QED BY <2>12, <3>1, <5>1
            <4>5. CASE n = Len(q) + 1
                <5>1. v.tx[g][n] = x
                    BY <2>9, <4>1, <4>5
                <5> QED BY <2>10, <2>12, <3>3, <5>1
            <4> QED BY <4>2, <4>4, <4>5
        <3> QED BY <3>2, <3>3
    <2>15. /\ W \in [Links -> {None} \union Wire]
           /\ \A l \in Links : SameMedium(W[l], wire[l]) /\ GoodMedium(W[l])
        BY <1>1, <1>2, <2>3, <2>11, <2>12, <2>13, <2>14
    <2> QED BY <2>15 DEF W
<1> QED BY <1>3, <1>4

\* Frames come and go, the media stay.
LEMMA MediaKept ==
    ASSUME PlaneInv, UNCHANGED <<device, port, cable, live, binding>>,
           wire' \in [Links -> {None} \union Wire],
           \A l \in Links : SameMedium(wire'[l], wire[l]) /\ GoodMedium(wire'[l]),
           \A s \in Shards : \A n \in 1 .. Len(ingress'[s]) :
              ingress'[s][n].aim = ingress'[s][n].to,
           \/ owner' = owner
           \/ owner.does \in Barrier /\ owner'.does \in Barrier
                /\ owner'.remove = owner.remove
    PROVE  RegistryTypes' /\ Topology' /\ Frames'
<1>1. \A i \in Routers : Bare(i)' => Bare(i)
    BY DEF Bare, Barrier, RouterCommand, LinkWork
<1>2. owner'.does \in LinkWork \/ owner.does \in LinkWork => owner' = owner
    BY DEF Barrier, LinkWork
<1>3. RegistryTypes'
    BY DEF PlaneInv, RegistryTypes
<1>4. Frames'
    BY DEF Frames, GoodMedium
<1>5. \A l \in Links : cable[l].occupied => cable[l].ends \in [Ends -> Node]
    BY DEF PlaneInv, Topology, Cabling
<1>6. \A l \in Links, e \in Ends : cable[l].occupied => cable[l].ends[e].index \in Routers
    BY <1>5 DEF Node
<1>7. Cabling'
    BY <1>1, <1>2, <1>6 DEF PlaneInv, Topology, Cabling, Registered
<1>8. \A i \in Routers : binding[i] # None => binding[i].link \in Links
    BY DEF PlaneInv, RegistryTypes, Binding
<1>9. \A l \in Links : /\ (wire'[l] = None) = (wire[l] = None)
                       /\ wire[l] # None => /\ wire'[l].generation = wire[l].generation
                                            /\ wire'[l].carrier = wire[l].carrier
                                            /\ wire'[l].ends = wire[l].ends
    BY DEF SameMedium
<1>10. Media'
    <2>1. Media
        BY DEF PlaneInv, Topology
    <2>2. \A l \in Links : owner.does \in {"remove", "report"} /\ owner.link = l =>
             owner'.does \in {"remove", "report"} /\ owner'.link = l
        BY <1>2 DEF LinkWork
    <2>3. \A l \in Links, e \in Ends : wire[l] # None =>
             Bound(l, wire[l], e)' = Bound(l, wire[l], e)
        BY <1>9 DEF Bound
    <2>4. ASSUME NEW l \in Links
          PROVE  IF wire'[l] = None THEN ~cable'[l].carrier
                 ELSE /\ cable'[l].occupied
                      /\ wire'[l].generation = cable'[l].generation
                      /\ wire'[l].carrier # cable'[l].carrier =>
                            owner'.does \in {"remove", "report"} /\ owner'.link = l
                      /\ \A e \in Ends :
                            /\ wire'[l].ends[e].node = cable'[l].ends[e]
                            /\ binding'[cable'[l].ends[e].index] = Bound(l, wire'[l], e)
        <3>1. CASE wire[l] = None
            BY <1>9, <2>1, <3>1 DEF Media
        <3>2. CASE wire[l] # None
            <4>1. /\ cable[l].occupied /\ wire[l].generation = cable[l].generation
                  /\ wire[l].carrier # cable[l].carrier =>
                        owner.does \in {"remove", "report"} /\ owner.link = l
                  /\ \A e \in Ends :
                        /\ wire[l].ends[e].node = cable[l].ends[e]
                        /\ binding[cable[l].ends[e].index] = Bound(l, wire[l], e)
                BY <2>1, <3>2 DEF Media
            <4> QED BY <1>9, <2>2, <2>3, <3>2, <4>1
        <3> QED BY <3>1, <3>2
    <2>5. ASSUME NEW i \in Routers, binding'[i] # None
          PROVE  /\ wire'[binding'[i].link] # None
                 /\ binding'[i] = Bound(binding'[i].link, wire'[binding'[i].link],
                                        binding'[i].end)
                 /\ binding'[i].port.node.index = i
        <3> DEFINE l == binding[i].link
                   e == binding[i].end
        <3>1. binding[i] # None /\ l \in Links /\ e \in Ends
            BY <2>5 DEF PlaneInv, RegistryTypes, Binding
        <3>2. /\ wire[l] # None /\ binding[i] = Bound(l, wire[l], e)
              /\ binding[i].port.node.index = i
            BY <2>1, <3>1 DEF Media
        <3>3. wire'[l] # None /\ Bound(l, wire'[l], e) = Bound(l, wire[l], e)
            BY <1>9, <3>1, <3>2 DEF Bound
        <3> HIDE DEF l, e
        <3>4. binding'[i].link = l /\ binding'[i].end = e /\ binding'[i] = binding[i]
            BY DEF l, e
        <3> QED BY <3>2, <3>3, <3>4
    <2> QED BY <2>4, <2>5 DEF Media
<1>11. Signals'
    <2>1. \A i \in Routers : Carried(i)' = Carried(i)
        BY DEF Carried, EndsAt
    <2>2. \A i \in Routers : Unsettled(i)' = Unsettled(i)
        BY <1>2 DEF Unsettled, EndsAt, LinkWork
    <2> QED BY <2>1, <2>2 DEF PlaneInv, Topology, Signals
<1>12. Stages'
    <2>1. SUFFICES ASSUME owner'.does \in LinkWork PROVE Stages'
        BY DEF Stages, LinkWork
    <2>2. owner' = owner /\ owner.link \in Links
        BY <1>2, <2>1, OwnerFields DEF PlaneInv
    <2>3. Compatible(owner.link)' = Compatible(owner.link)
        BY <2>2 DEF Compatible, Resolves, Registered
    <2>4. Stages
        BY DEF PlaneInv, Topology
    <2> QED BY <1>9, <2>2, <2>3, <2>4 DEF Stages, EndsAt
<1>13. Settled'
    <2>1. \A l \in Links : Worked(l)' = Worked(l)
        BY <1>2 DEF Worked
    <2>2. \A l \in Links, e \in Ends : cable[l].occupied => Registered(cable[l].ends[e])'
        BY <1>7 DEF Cabling
    <2> QED BY <2>1, <2>2, SettledKept
<1> QED BY <1>3, <1>4, <1>7, <1>10, <1>11, <1>12, <1>13 DEF Topology

\* One of the rings after a pop.
LEMMA RingPopped ==
    ASSUME NEW S, NEW r \in [Shards -> Seq(S)], NEW s \in Shards, r[s] # <<>>,
           \A t \in Shards : Len(r[t]) <= RingFrames
    PROVE  /\ [r EXCEPT ![s] = Tail(r[s])] \in [Shards -> Seq(S)]
           /\ [r EXCEPT ![s] = Tail(r[s])][s] = Tail(r[s])
           /\ Len(Tail(r[s])) = Len(r[s]) - 1
           /\ \A t \in Shards \ {s} : [r EXCEPT ![s] = Tail(r[s])][t] = r[t]
           /\ \A t \in Shards : /\ Len([r EXCEPT ![s] = Tail(r[s])][t]) <= RingFrames
                                 /\ Len(r[t]) \in Nat
<1>1. \A t \in Shards : r[t] \in Seq(S)
    OBVIOUS
<1>2. Tail(r[s]) \in Seq(S) /\ Len(Tail(r[s])) = Len(r[s]) - 1
    BY <1>1, Popped
<1>3. \A t \in Shards : Len(r[t]) \in Nat
    BY <1>1
<1>4. Len(Tail(r[s])) <= RingFrames
    <2>1. Len(r[s]) \in Nat /\ Len(r[s]) <= RingFrames
        BY <1>3
    <2> QED BY <1>2, <2>1, Numbers
<1> QED BY <1>2, <1>3, <1>4

\* The owner takes a frame from an egress ring.
LEMMA DrainStep ==
    ASSUME PlaneInv, NEW s \in Shards, DrainEgress(s)
    PROVE  PlaneInv'
<1>1. /\ Pumping \/ Waiting
      /\ egress[s] # <<>>
      /\ wire' = Enqueue(wire, Head(egress[s]))
      /\ egress' = [egress EXCEPT ![s] = Tail(egress[s])]
      /\ UNCHANGED <<device, port, cable, live, binding, forwarder, owner>>
      /\ UNCHANGED <<commands, results, ingress, stage, resume>>
    BY DEF DrainEgress, registries, turn
<1>2. egress \in [Shards -> Seq([from : Node])] /\ \A t \in Shards : Len(egress[t]) <= RingFrames
    BY DEF PlaneInv, ShardTypes
<1>3. /\ Head(egress[s]) \in [from : Node] /\ Tail(egress[s]) \in Seq([from : Node])
      /\ Len(Tail(egress[s])) = Len(egress[s]) - 1 /\ Len(egress[s]) \in Nat
    BY <1>1, <1>2, Popped
<1>4. RegistryTypes' /\ Topology' /\ Frames'
    <2>1. \A t \in Shards : \A n \in 1 .. Len(ingress'[t]) :
             ingress'[t][n].aim = ingress'[t][n].to
        BY <1>1 DEF PlaneInv, Frames
    <2>2. /\ wire' \in [Links -> {None} \union Wire]
          /\ \A l \in Links : SameMedium(wire'[l], wire[l]) /\ GoodMedium(wire'[l])
        BY <1>1, <1>3, EnqueueKeeps
    <2> QED BY <1>1, <2>1, <2>2, MediaKept
<1>5. ShardTypes'
    <2>1. /\ egress' \in [Shards -> Seq([from : Node])]
          /\ \A t \in Shards : Len(egress'[t]) <= RingFrames
        BY <1>1, <1>2, RingPopped
    <2> QED BY <1>1, <2>1 DEF PlaneInv, ShardTypes
<1>6. OwnerTypes'
    BY <1>1 DEF PlaneInv, OwnerTypes
<1>7. owner.does # "drain" /\ owner.does # "quiet"
    BY <1>1 DEF Pumping, Waiting, LinkWork
<1>8. Protocol'
    <2>1. \A t \in Shards : /\ Quiescent(t)' = Quiescent(t) /\ Pausing(t)' = Pausing(t)
                            /\ Stopped(t)' = Stopped(t)
        BY <1>1 DEF Quiescent, Pausing, Stopped, Parked
    <2>2. \A i \in Routers : Adding(i)' = Adding(i) /\ Removing(i)' = Removing(i)
        BY <1>1 DEF Adding, Removing, Handle, Shard
    <2>3. owner.does \in {"add_router", "remove_router"} => owner.router \in Routers
        BY OwnerFields DEF PlaneInv, RouterCommand
    <2>4. Protocol
        BY DEF PlaneInv
    <2> QED BY <1>1, <1>7, <2>1, <2>2, <2>3, <2>4 DEF Protocol, LinkWork
<1>9. Agreement'
    BY <1>1 DEF PlaneInv, Agreement, Agree, Commanded
<1> QED BY <1>4, <1>5, <1>6, <1>8, <1>9 DEF PlaneInv

\* The last drain before the barrier counts as complete.
LEMMA FinalDrainStep ==
    ASSUME PlaneInv, FinalDrain
    PROVE  PlaneInv'
<1>0. /\ owner.does = "drain"
      /\ owner \in [does : {"drain"}, next : Shards, left : Nat,
                    remove : Routers \union {-1}]
    BY OwnerFields DEF PlaneInv, FinalDrain
<1>1. PICK s \in Shards : s = owner.next
    BY <1>0
<1>2. PICK k \in Nat : k = owner.left
    BY <1>0
<1>3. /\ UNCHANGED <<device, port, cable, live, binding, forwarder>>
      /\ UNCHANGED <<commands, results, ingress, stage, resume>>
    BY DEF FinalDrain, registries, turn
<1>4. \/ /\ k > 0 /\ egress[s] # <<>>
         /\ wire' = Enqueue(wire, Head(egress[s]))
         /\ egress' = [egress EXCEPT ![s] = Tail(egress[s])]
         /\ owner' = [owner EXCEPT !.left = k - 1]
      \/ /\ ~(k > 0 /\ egress[s] # <<>>)
         /\ owner' = IF s + 1 < NShards
                     THEN [owner EXCEPT !.next = s + 1, !.left = WorkBudget]
                     ELSE [does |-> "quiet", next |-> 0, remove |-> owner.remove]
         /\ UNCHANGED <<wire, egress>>
    BY <1>1, <1>2 DEF FinalDrain
<1>5. /\ egress \in [Shards -> Seq([from : Node])]
      /\ \A t \in Shards : Len(egress[t]) <= RingFrames /\ Len(egress[t]) \in Nat
    <2>1. /\ egress \in [Shards -> Seq([from : Node])]
          /\ \A t \in Shards : Len(egress[t]) <= RingFrames
        BY DEF PlaneInv, ShardTypes
    <2>2. \A t \in Shards : egress[t] \in Seq([from : Node])
        BY <2>1
    <2>3. \A t \in Shards : Len(egress[t]) \in Nat
        BY <2>2
    <2> QED BY <2>1, <2>3
<1>6. \A t \in Shards : /\ Stopped(t) /\ (t < s => egress[t] = <<>>)
                        /\ t = s => Len(egress[t]) <= k
    BY <1>0, <1>1, <1>2 DEF PlaneInv, Protocol, LinkWork
<1>7. \A t \in Shards : Stopped(t)'
    BY <1>3, <1>6 DEF Stopped, Quiescent, Parked
<1>8. \A t \in Shards : \A n \in 1 .. Len(ingress'[t]) :
         ingress'[t][n].aim = ingress'[t][n].to
    BY <1>3 DEF PlaneInv, Frames
<1>9. ASSUME owner'.does \in Barrier, owner'.remove = owner.remove
      PROVE  Agreement'
    BY <1>0, <1>3, <1>9 DEF PlaneInv, Agreement, Agree, Commanded, Barrier
<1>10. CASE /\ k > 0 /\ egress[s] # <<>>
            /\ wire' = Enqueue(wire, Head(egress[s]))
            /\ egress' = [egress EXCEPT ![s] = Tail(egress[s])]
            /\ owner' = [owner EXCEPT !.left = k - 1]
    <2>1. /\ owner' \in [does : {"drain"}, next : Shards, left : Nat,
                         remove : Routers \union {-1}]
          /\ owner'.does = "drain" /\ owner'.next = s /\ owner'.left = k - 1
          /\ owner'.remove = owner.remove
        BY <1>0, <1>1, <1>10
    <2>2. /\ Head(egress[s]) \in [from : Node] /\ Tail(egress[s]) \in Seq([from : Node])
          /\ Len(Tail(egress[s])) = Len(egress[s]) - 1
        BY <1>5, <1>10, Popped
    <2>3. /\ wire' \in [Links -> {None} \union Wire]
          /\ \A l \in Links : SameMedium(wire'[l], wire[l]) /\ GoodMedium(wire'[l])
        BY <1>10, <2>2, EnqueueKeeps
    <2>4. RegistryTypes' /\ Topology' /\ Frames'
        BY <1>0, <1>3, <1>8, <2>1, <2>3, MediaKept DEF Barrier
    <2>5. /\ egress' \in [Shards -> Seq([from : Node])]
          /\ \A t \in Shards : Len(egress'[t]) <= RingFrames
          /\ Len(egress'[s]) <= k - 1
          /\ \A t \in Shards \ {s} : egress'[t] = egress[t]
        <3>1. /\ egress' \in [Shards -> Seq([from : Node])]
              /\ egress'[s] = Tail(egress[s])
              /\ \A t \in Shards \ {s} : egress'[t] = egress[t]
              /\ \A t \in Shards : Len(egress'[t]) <= RingFrames
            BY <1>5, <1>10, RingPopped
        <3>2. Len(egress[s]) \in Nat /\ Len(egress[s]) <= k
            BY <1>5, <1>6
        <3> QED BY <2>2, <3>1, <3>2
    <2>6. ShardTypes'
        BY <1>3, <2>5 DEF PlaneInv, ShardTypes
    <2>7. Protocol'
        <3>1. \A t \in Shards : t < s => t # s
            BY Numbers
        <3> QED BY <1>6, <1>7, <2>1, <2>5, <3>1 DEF Protocol, LinkWork
    <2>8. OwnerTypes' /\ Agreement'
        BY <1>9, <2>1 DEF OwnerTypes, Barrier
    <2> QED BY <2>4, <2>6, <2>7, <2>8 DEF PlaneInv
<1>11. CASE /\ ~(k > 0 /\ egress[s] # <<>>)
            /\ owner' = IF s + 1 < NShards
                        THEN [owner EXCEPT !.next = s + 1, !.left = WorkBudget]
                        ELSE [does |-> "quiet", next |-> 0, remove |-> owner.remove]
            /\ UNCHANGED <<wire, egress>>
    <2>1. \A t \in Shards : t <= s => egress[t] = <<>>
        <3>1. egress[s] = <<>>
            <4>1. CASE k > 0
                BY <1>11, <4>1
            <4>2. CASE ~(k > 0)
                <5>1. Len(egress[s]) = 0 /\ egress[s] \in Seq([from : Node])
                    BY <1>5, <1>6, <4>2
                <5> QED BY <5>1
            <4> QED BY <4>1, <4>2
        <3>2. \A t \in Shards : t <= s => t = s \/ t < s
            BY Numbers
        <3> QED BY <1>6, <3>1, <3>2
    <2>2. \A l \in Links : SameMedium(wire'[l], wire[l]) /\ GoodMedium(wire'[l])
        BY <1>11 DEF SameMedium, GoodMedium, PlaneInv, Frames
    <2>3. wire' \in [Links -> {None} \union Wire]
        BY <1>11 DEF PlaneInv, RegistryTypes
    <2>4. ShardTypes'
        BY <1>3, <1>11 DEF PlaneInv, ShardTypes
    <2>5. CASE s + 1 < NShards
        <3>1. s + 1 \in Shards
            BY <2>5, Numbers
        <3>2. /\ owner' \in [does : {"drain"}, next : Shards, left : Nat,
                             remove : Routers \union {-1}]
              /\ owner'.does = "drain" /\ owner'.next = s + 1 /\ owner'.left = WorkBudget
              /\ owner'.remove = owner.remove
            BY <1>0, <1>11, <2>5, <3>1, Numbers
        <3>3. RegistryTypes' /\ Topology' /\ Frames'
            BY <1>0, <1>3, <1>8, <2>2, <2>3, <3>2, MediaKept DEF Barrier
        <3>4. Protocol'
            <4>1. \A t \in Shards : t < s + 1 => t <= s
                BY Numbers
            <4>2. \A t \in Shards : Len(egress[t]) <= WorkBudget
                BY <1>5, Numbers
            <4> QED BY <1>7, <1>11, <2>1, <3>2, <4>1, <4>2 DEF Protocol, LinkWork
        <3>5. OwnerTypes' /\ Agreement'
            BY <1>9, <3>2 DEF OwnerTypes, Barrier
        <3> QED BY <2>4, <3>3, <3>4, <3>5 DEF PlaneInv
    <2>6. CASE ~(s + 1 < NShards)
        <3>1. \A t \in Shards : t <= s
            BY <2>6, Numbers
        <3>2. /\ owner' \in [does : Barrier \ {"drain"}, next : Shards,
                             remove : Routers \union {-1}]
              /\ owner'.does = "quiet" /\ owner'.next = 0
              /\ owner'.remove = owner.remove
            BY <1>0, <1>11, <2>6, Numbers DEF Barrier
        <3>3. RegistryTypes' /\ Topology' /\ Frames'
            BY <1>0, <1>3, <1>8, <2>2, <2>3, <3>2, MediaKept DEF Barrier
        <3>4. Protocol'
            BY <1>7, <1>11, <2>1, <3>1, <3>2 DEF Protocol, LinkWork
        <3>5. OwnerTypes' /\ Agreement'
            BY <1>9, <3>2 DEF OwnerTypes, Barrier
        <3> QED BY <2>4, <3>3, <3>4, <3>5 DEF PlaneInv
    <2> QED BY <2>5, <2>6
<1> QED BY <1>4, <1>10, <1>11

\* deliver(): a frame leaves the medium for the router at the other end.
LEMMA DeliverStep ==
    ASSUME PlaneInv, NEW l \in Links, NEW e \in Ends, Deliver(l, e)
    PROVE  PlaneInv'
<1> DEFINE h == wire[l].ends[Peer(e)].node
           q == wire[l].tx[e]
           x == [to |-> h, aim |-> Head(q).aim]
           z == Shard(h.index)
<1>1. /\ Pumping
      /\ wire[l] # None /\ q # <<>>
      /\ wire' = [wire EXCEPT ![l].tx[e] = Tail(wire[l].tx[e])]
      /\ ingress' = [ingress EXCEPT ![z] = IF Len(ingress[z]) = RingFrames THEN ingress[z]
                                           ELSE Append(ingress[z], x)]
      /\ UNCHANGED <<device, port, cable, live, binding, forwarder, owner>>
      /\ UNCHANGED <<commands, results, egress, stage, resume>>
    BY DEF Deliver, registries, turn
<1>2. /\ wire \in [Links -> {None} \union Wire] /\ wire[l] \in Wire
      /\ \A k \in Links : GoodMedium(wire[k])
    BY <1>1 DEF PlaneInv, RegistryTypes, Frames, GoodMedium
<1>3. /\ wire[l].tx \in [Ends -> Seq([from : Node, aim : Node])]
      /\ wire[l].ends \in [Ends -> Port] /\ wire[l].generation \in Generations
      /\ wire[l].carrier \in BOOLEAN
    BY <1>2 DEF Wire
<1>4. h \in Node /\ h.index \in Routers /\ q \in Seq([from : Node, aim : Node])
    BY <1>3, Numbers DEF Port, Node
<1>5. z \in Shards
    BY <1>4, ShardOf
<1>6. /\ Head(q) = q[1] /\ Len(q) \in Nat \ {0}
      /\ Tail(q) \in Seq([from : Node, aim : Node]) /\ Len(Tail(q)) = Len(q) - 1
      /\ \A n \in 1 .. Len(Tail(q)) : Tail(q)[n] = q[n + 1]
    <2> HIDE DEF q
    <2> QED BY <1>1, <1>4, Popped, Zenon
<1>7. Head(q).aim = h
    <2>1. 1 \in 1 .. Len(q)
        BY <1>6
    <2> QED BY <1>1, <1>2, <1>6, <2>1 DEF GoodMedium
<1>8. x \in [to : Node, aim : Node] /\ x.aim = x.to
    BY <1>4, <1>7
<1> DEFINE v == [wire[l] EXCEPT !.tx = [wire[l].tx EXCEPT ![e] = Tail(q)]]
<1>9. wire' = [wire EXCEPT ![l] = v]
    BY <1>1
<1>10. /\ v.generation = wire[l].generation /\ v.carrier = wire[l].carrier
       /\ v.ends = wire[l].ends /\ v.tx = [wire[l].tx EXCEPT ![e] = Tail(q)]
       /\ v \in Wire
    BY <1>2, <1>3, <1>6 DEF Wire
<1> HIDE DEF v
<1>11. SameMedium(v, wire[l])
    BY <1>1, <1>10, NoneIsNone DEF SameMedium
<1>12. GoodMedium(v)
    <2> SUFFICES ASSUME NEW g \in Ends, NEW n \in 1 .. Len(v.tx[g])
                 PROVE  /\ v.tx[g][n].from = v.ends[g].node
                        /\ v.tx[g][n].aim = v.ends[Peer(g)].node
        BY DEF GoodMedium
    <2>1. \A m \in 1 .. Len(wire[l].tx[g]) :
            /\ wire[l].tx[g][m].from = wire[l].ends[g].node
            /\ wire[l].tx[g][m].aim = wire[l].ends[Peer(g)].node
        BY <1>1, <1>2 DEF GoodMedium
    <2>2. CASE g # e
        <3>1. v.tx[g] = wire[l].tx[g]
            BY <1>3, <1>10, <2>2
        <3> QED BY <1>10, <2>1, <3>1
    <2>3. CASE g = e
        <3>1. v.tx[g] = Tail(q) /\ q = wire[l].tx[g]
            BY <1>3, <1>10, <2>3
        <3> HIDE DEF q
        <3>2. n + 1 \in 1 .. Len(q) /\ Tail(q)[n] = q[n + 1]
            BY <1>6, <3>1
        <3> QED BY <1>10, <2>1, <3>1, <3>2
    <2> QED BY <2>2, <2>3
<1>13. /\ wire' \in [Links -> {None} \union Wire]
       /\ \A k \in Links : SameMedium(wire'[k], wire[k]) /\ GoodMedium(wire'[k])
    <2>1. \A k \in Links : SameMedium(wire[k], wire[k])
        BY DEF SameMedium
    <2> QED BY <1>2, <1>9, <1>10, <1>11, <1>12, <2>1
<1> DEFINE S == [to : Node, aim : Node]
<1>14. ingress \in [Shards -> Seq(S)]
    BY DEF PlaneInv, ShardTypes
<1>15. /\ ingress'[z] = ingress[z] \/ ingress'[z] = Append(ingress[z], x)
       /\ \A t \in Shards \ {z} : ingress'[t] = ingress[t]
       /\ DOMAIN ingress' = Shards /\ ingress' = [t \in Shards |-> ingress'[t]]
    <2> HIDE DEF x, z, S
    <2> QED BY <1>1, <1>5, <1>14
<1>16. x \in S
    BY <1>8
<1> HIDE DEF S, x, z, h
<1>17. /\ Append(ingress[z], x) \in Seq(S) /\ Len(ingress[z]) \in Nat
       /\ Len(Append(ingress[z], x)) = Len(ingress[z]) + 1
       /\ \A n \in 1 .. Len(ingress[z]) : Append(ingress[z], x)[n] = ingress[z][n]
       /\ Append(ingress[z], x)[Len(ingress[z]) + 1] = x
    <2>1. ingress[z] \in Seq(S)
        BY <1>5, <1>14
    <2> QED BY <1>16, <2>1, Pushed
<1>18. ingress' \in [Shards -> Seq(S)]
    <2>1. \A t \in Shards : ingress'[t] \in Seq(S)
        BY <1>5, <1>14, <1>15, <1>17
    <2> QED BY <1>15, <2>1
<1>19. ASSUME NEW t \in Shards, NEW n \in 1 .. Len(ingress'[t])
       PROVE  ingress'[t][n].aim = ingress'[t][n].to
    <2>1. \A m \in 1 .. Len(ingress[t]) : ingress[t][m].aim = ingress[t][m].to
        BY DEF PlaneInv, Frames
    <2>2. CASE ingress'[t] = ingress[t]
        BY <2>1, <2>2
    <2>3. CASE t = z /\ ingress'[t] = Append(ingress[z], x)
        <3>1. n \in 1 .. Len(ingress[z]) + 1
            BY <1>17, <2>3
        <3>2. n \in 1 .. Len(ingress[z]) \/ n = Len(ingress[z]) + 1
            BY <1>17, <3>1
        <3> QED BY <1>8, <1>17, <2>1, <2>3, <3>2
    <2> QED BY <1>15, <2>2, <2>3
<1>20. RegistryTypes' /\ Topology' /\ Frames'
    BY <1>1, <1>13, <1>19, MediaKept
<1>21. ShardTypes'
    BY <1>1, <1>18 DEF PlaneInv, ShardTypes, S
<1>22. OwnerTypes'
    BY <1>1 DEF PlaneInv, OwnerTypes
<1>23. Protocol'
    <2>1. \A t \in Shards : Quiescent(t)' = Quiescent(t)
        BY <1>1 DEF Quiescent
    <2>2. \/ owner.does \in {"idle"} \union LinkWork
          \/ owner.does = "pause" /\ owner.next = 0
        BY <1>1 DEF Pumping
    <2>3. \A t \in Shards : Quiescent(t) /\ ~(t < 0)
        BY <2>2, Numbers DEF PlaneInv, Protocol, LinkWork
    <2> QED BY <1>1, <2>1, <2>2, <2>3 DEF Protocol, LinkWork
<1>24. Agreement'
    BY <1>1 DEF PlaneInv, Agreement, Agree, Commanded
<1> QED BY <1>20, <1>21, <1>22, <1>23, <1>24 DEF PlaneInv

-----------------------------------------------------------------------------
(* Cables.                                                                 *)

\* What the ends of a cable in use are, and that no two cables share a router.
LEMMA CableEnds ==
    ASSUME PlaneInv
    PROVE  /\ \A l \in Links, e \in Ends : cable[l].occupied =>
                 /\ cable[l].ends[e] \in Node /\ cable[l].ends[e].index \in Routers
                 /\ Registered(cable[l].ends[e])
                 /\ cable[l].ends[e] = Handle(cable[l].ends[e].index)
           /\ \A l, m \in Links, e, f \in Ends, i \in Routers :
                 EndsAt(l, e, i) /\ EndsAt(m, f, i) => l = m /\ e = f
<1>1. \A l \in Links : cable[l].occupied =>
         /\ cable[l].ends \in [Ends -> Node]
         /\ \A e \in Ends : Registered(cable[l].ends[e])
    BY DEF PlaneInv, Topology, Cabling
<1>2. \A h \in Node : Registered(h) => h.index \in Routers /\ h = Handle(h.index)
    BY DEF Node, Registered, Handle
<1>3. \A l, m \in Links, e, f \in Ends, i \in Routers :
         EndsAt(l, e, i) /\ EndsAt(m, f, i) => l = m /\ e = f
    BY DEF PlaneInv, Topology, Cabling, EndsAt
<1>4. \A l \in Links, e \in Ends : cable[l].occupied => cable[l].ends[e] \in Node
    BY <1>1
<1> QED BY <1>1, <1>2, <1>3, <1>4

\* The cable found by a router's handle is the one that ends at its slot.
LEMMA AttachedEnds ==
    ASSUME PlaneInv, NEW i \in Routers, NEW l \in Links
    PROVE  l \in Attached(Handle(i)) <=> \E e \in Ends : EndsAt(l, e, i)
<1>1. Handle(i).index = i
    BY DEF Handle
<1>2. ASSUME l \in Attached(Handle(i)) PROVE \E e \in Ends : EndsAt(l, e, i)
    BY <1>1, <1>2 DEF Attached, EndsAt
<1>3. ASSUME NEW e \in Ends, EndsAt(l, e, i) PROVE l \in Attached(Handle(i))
    <2>1. cable[l].occupied /\ cable[l].ends[e].index = i
        BY <1>3 DEF EndsAt
    <2>2. cable[l].ends[e] = Handle(cable[l].ends[e].index)
        BY <2>1, CableEnds
    <2> QED BY <2>1, <2>2 DEF Attached
<1> QED BY <1>2, <1>3

\* remove_link clears exactly the bindings to this cable.
LEMMA Unbound ==
    ASSUME PlaneInv, NEW l \in Links, NEW i \in Routers
    PROVE  WithoutLink(l)[i] = IF binding[i] # None /\ binding[i].link = l
                               THEN None ELSE binding[i]
<1>1. WithoutLink(l)[i] = IF \E e \in Ends : binding[i] = Bound(l, wire[l], e)
                          THEN None ELSE binding[i]
    BY DEF WithoutLink
<1>2. ASSUME binding[i] # None, binding[i].link = l
      PROVE  \E e \in Ends : binding[i] = Bound(l, wire[l], e)
    <2>1. binding[i].end \in Ends
        BY <1>2 DEF PlaneInv, RegistryTypes, Binding
    <2>2. binding[i] = Bound(l, wire[l], binding[i].end)
        BY <1>2 DEF PlaneInv, Topology, Media
    <2> QED BY <2>1, <2>2
<1>3. ASSUME NEW e \in Ends, binding[i] = Bound(l, wire[l], e)
      PROVE  binding[i].link = l
    BY <1>3 DEF Bound
<1> QED BY <1>1, <1>2, <1>3

\* A cable without carrier loses its medium.
LEMMA MediumDropped ==
    ASSUME PlaneInv, NEW l \in Links, owner.link = l, ~cable[l].carrier,
           wire' = [wire EXCEPT ![l] = None], binding' = WithoutLink(l),
           UNCHANGED <<cable, ingress>>
    PROVE  /\ wire' \in [Links -> {None} \union Wire] /\ wire'[l] = None
           /\ binding' \in [Routers -> {None} \union Binding]
           /\ Media' /\ Frames'
<1>1. wire \in [Links -> {None} \union Wire]
    BY DEF PlaneInv, RegistryTypes
<1>2. wire' \in [Links -> {None} \union Wire] /\ wire'[l] = None
      /\ \A m \in Links \ {l} : wire'[m] = wire[m]
    BY <1>1
<1>3. \A i \in Routers : binding'[i] = IF binding[i] # None /\ binding[i].link = l
                                       THEN None ELSE binding[i]
    BY Unbound
<1>4. binding' = [i \in Routers |-> binding'[i]]
    BY DEF WithoutLink
<1>5. \A i \in Routers : binding[i] \in {None} \union Binding
    BY DEF PlaneInv, RegistryTypes
<1>6. binding' \in [Routers -> {None} \union Binding]
    <2>1. \A i \in Routers : binding'[i] \in {None} \union Binding
        BY <1>3, <1>5
    <2> QED BY <1>4, <2>1
<1>7. Frames'
    BY <1>2 DEF PlaneInv, Frames
<1>8. Media
    BY DEF PlaneInv, Topology
<1>9. ASSUME NEW m \in Links, wire'[m] # None
      PROVE  /\ cable'[m].occupied
             /\ wire'[m].generation = cable'[m].generation
             /\ wire'[m].carrier = cable'[m].carrier
             /\ \A e \in Ends :
                   /\ wire'[m].ends[e].node = cable'[m].ends[e]
                   /\ binding'[cable'[m].ends[e].index] = Bound(m, wire'[m], e)
    <2>1. m # l /\ wire'[m] = wire[m] /\ cable'[m] = cable[m] /\ wire[m] # None
        BY <1>2, <1>9
    <2>2. /\ cable[m].occupied
          /\ wire[m].generation = cable[m].generation
          /\ wire[m].carrier = cable[m].carrier
          /\ \A e \in Ends :
                /\ wire[m].ends[e].node = cable[m].ends[e]
                /\ binding[cable[m].ends[e].index] = Bound(m, wire[m], e)
        BY <1>8, <2>1 DEF Media
    <2>3. ASSUME NEW e \in Ends
          PROVE  binding'[cable[m].ends[e].index] = Bound(m, wire[m], e)
        <3>1. cable[m].ends[e].index \in Routers
            BY <2>2, CableEnds
        <3>2. binding[cable[m].ends[e].index] = Bound(m, wire[m], e)
            BY <2>2
        <3>3. binding[cable[m].ends[e].index].link = m
            BY <3>2 DEF Bound
        <3> QED BY <1>3, <2>1, <3>1, <3>2, <3>3
    <2> QED BY <2>1, <2>2, <2>3
<1>10. ASSUME NEW m \in Links, wire'[m] = None
       PROVE  ~cable'[m].carrier
    BY <1>2, <1>8, <1>10 DEF Media
<1>11. ASSUME NEW i \in Routers, binding'[i] # None
       PROVE  /\ wire'[binding'[i].link] # None
              /\ binding'[i] = Bound(binding'[i].link, wire'[binding'[i].link],
                                     binding'[i].end)
              /\ binding'[i].port.node.index = i
    <2>1. binding'[i] = binding[i] /\ binding[i] # None /\ binding[i].link # l
        BY <1>3, <1>11
    <2>2. binding[i].link \in Links
        BY <1>5, <2>1 DEF Binding
    <2>3. wire'[binding[i].link] = wire[binding[i].link]
        BY <1>2, <2>1, <2>2
    <2> QED BY <1>8, <2>1, <2>3 DEF Media
<1>12. Media'
    BY <1>9, <1>10, <1>11 DEF Media
<1> QED BY <1>2, <1>6, <1>7, <1>12

\* The ports at the ends of a cable, and only those, get the signal.
LEMMA Signalled ==
    ASSUME PlaneInv, NEW l \in Links, cable[l].occupied, NEW up \in BOOLEAN,
           port' = WithSignal(l, up)
    PROVE  /\ port' \in [Routers -> PortState]
           /\ \A i \in Routers :
                /\ port'[i].present = port[i].present
                /\ port'[i].speed = port[i].speed
                /\ port'[i].signal =
                      (IF port[i].present /\ \E e \in Ends : EndsAt(l, e, i)
                       THEN up ELSE port[i].signal)
<1>1. \A i \in Routers : port[i] \in PortState
    BY DEF PlaneInv, RegistryTypes
<1>2. ASSUME NEW i \in Routers
      PROVE  (\E e \in Ends : cable[l].ends[e] = Handle(i) /\ Registered(Handle(i)))
                <=> \E e \in Ends : EndsAt(l, e, i)
    <2>1. ASSUME NEW e \in Ends, cable[l].ends[e] = Handle(i) PROVE EndsAt(l, e, i)
        BY <2>1 DEF EndsAt, Handle
    <2>2. ASSUME NEW e \in Ends, EndsAt(l, e, i)
          PROVE  cable[l].ends[e] = Handle(i) /\ Registered(Handle(i))
        <3>1. cable[l].ends[e].index = i
            BY <2>2 DEF EndsAt
        <3>2. cable[l].ends[e] = Handle(cable[l].ends[e].index)
              /\ Registered(cable[l].ends[e])
            BY CableEnds
        <3> QED BY <3>1, <3>2
    <2> QED BY <2>1, <2>2
<1>3. ASSUME NEW i \in Routers
      PROVE  port'[i] = IF port[i].present /\ \E e \in Ends : EndsAt(l, e, i)
                        THEN [port[i] EXCEPT !.signal = up] ELSE port[i]
    BY <1>2 DEF WithSignal
<1>4. port' = [i \in Routers |-> port'[i]]
    BY DEF WithSignal
<1>5. ASSUME NEW i \in Routers
      PROVE  /\ port'[i] \in PortState
             /\ port'[i].present = port[i].present
             /\ port'[i].speed = port[i].speed
             /\ port'[i].signal =
                   (IF port[i].present /\ \E e \in Ends : EndsAt(l, e, i)
                    THEN up ELSE port[i].signal)
    <2>1. CASE port[i].present /\ \E e \in Ends : EndsAt(l, e, i)
        <3>1. port'[i] = [port[i] EXCEPT !.signal = up]
            BY <1>3, <2>1
        <3> QED BY <1>1, <2>1, <3>1 DEF PortState
    <2>2. CASE ~(port[i].present /\ \E e \in Ends : EndsAt(l, e, i))
        <3>1. port'[i] = port[i]
            BY <1>3, <2>2
        <3> QED BY <1>1, <2>2, <3>1
    <2> QED BY <2>1, <2>2
<1> QED BY <1>4, <1>5

\* The signals after the carrier of a cable is withdrawn.
LEMMA SignalWithdrawn ==
    ASSUME PlaneInv, NEW l \in Links, cable[l].occupied,
           port' = WithSignal(l, FALSE),
           \A m \in Links \ {l} : cable'[m] = cable[m],
           ~cable'[l].carrier,
           \A i \in Routers : device'[i].occupied = device[i].occupied,
           owner.does = "withdraw" => owner.link = l,
           owner'.does # "withdraw"
    PROVE  Signals'
<1>1. \A i \in Routers :
         /\ port'[i].present = port[i].present
         /\ port'[i].signal = (IF port[i].present /\ \E e \in Ends : EndsAt(l, e, i)
                               THEN FALSE ELSE port[i].signal)
    BY Signalled
<1>2. Signals
    BY DEF PlaneInv, Topology
<1>3. \A i \in Routers : ~port'[i].present => ~port'[i].signal
    BY <1>1, <1>2 DEF Signals
<1>4. ASSUME NEW i \in Routers, NEW e \in Ends, EndsAt(l, e, i)
      PROVE  ~port'[i].signal /\ ~Carried(i)'
    <2>1. ~port'[i].signal
        BY <1>1, <1>2, <1>4 DEF Signals
    <2>2. ASSUME NEW m \in Links, NEW f \in Ends, cable'[m].carrier, EndsAt(m, f, i)'
          PROVE  FALSE
        <3>1. m # l /\ cable'[m] = cable[m]
            BY <2>2
        <3>2. EndsAt(m, f, i)
            BY <2>2, <3>1 DEF EndsAt
        <3> QED BY <1>4, <3>1, <3>2, CableEnds
    <2> QED BY <2>1, <2>2 DEF Carried
<1>5. ASSUME NEW i \in Routers, ~\E e \in Ends : EndsAt(l, e, i), device'[i].occupied
      PROVE  port'[i].signal <=> Carried(i)'
    <2>1. port'[i].signal = port[i].signal
        BY <1>1, <1>5
    <2>2. ~Unsettled(i) /\ device[i].occupied
        BY <1>5 DEF Unsettled
    <2>3. port[i].signal <=> Carried(i)
        BY <1>2, <2>2 DEF Signals
    <2>4. \A m \in Links, f \in Ends :
             (cable'[m].carrier /\ EndsAt(m, f, i)') <=> (cable[m].carrier /\ EndsAt(m, f, i))
        BY <1>5 DEF EndsAt
    <2>5. Carried(i)' <=> Carried(i)
        BY <2>4 DEF Carried
    <2> QED BY <2>1, <2>3, <2>5
<1> QED BY <1>3, <1>4, <1>5 DEF Signals

\* The cables in use keep their ends.
LEMMA CablesKept ==
    ASSUME PlaneInv,
           \A l \in Links : cable'[l].occupied =>
              /\ cable[l].occupied /\ cable'[l].ends = cable[l].ends
              /\ \A e \in Ends : ~Bare(cable[l].ends[e].index)',
           \A i \in Routers : /\ device'[i].occupied = device[i].occupied
                              /\ device'[i].generation = device[i].generation
    PROVE  Cabling'
<1>1. \A l \in Links, e \in Ends : cable[l].occupied =>
         cable[l].ends[e].index \in Routers /\ Registered(cable[l].ends[e])
    BY CableEnds
<1>2. Cabling
    BY DEF PlaneInv, Topology
<1>3. ASSUME NEW l \in Links, cable'[l].occupied
      PROVE  /\ cable'[l].ends \in [Ends -> Node]
             /\ \A e \in Ends : /\ Registered(cable[l].ends[e])'
                                /\ ~Bare(cable[l].ends[e].index)'
    <2>1. cable[l].occupied /\ cable'[l].ends = cable[l].ends
        BY <1>3
    <2>2. cable'[l].ends \in [Ends -> Node]
        BY <1>2, <2>1 DEF Cabling
    <2>3. \A e \in Ends : Registered(cable[l].ends[e])'
        BY <1>1, <2>1 DEF Registered
    <2> QED BY <1>3, <2>2, <2>3
<1>4. \A l, m \in Links, e, f \in Ends :
          cable'[l].occupied /\ cable'[m].occupied
             /\ cable'[l].ends[e].index = cable'[m].ends[f].index => l = m /\ e = f
    BY <1>2 DEF Cabling
<1> QED BY <1>3, <1>4 DEF Cabling

\* What the link operations leave alone.
LEMMA PlaneIdle ==
    ASSUME PlaneInv, owner.does \in {"idle"} \union LinkWork,
           UNCHANGED <<live, forwarder, commands, results, ingress, egress, stage, resume>>,
           \A i \in Routers : /\ device'[i].occupied = device[i].occupied
                              /\ device'[i].generation = device[i].generation,
           \/ owner'.does \in {"idle"} \union LinkWork
           \/ \E i \in Routers : /\ device[i].occupied
                                 /\ owner' = [does |-> "pause", next |-> 0, remove |-> i]
    PROVE  ShardTypes' /\ Protocol' /\ Agreement'
<1>1. ShardTypes'
    BY DEF PlaneInv, ShardTypes
<1>2. \A s \in Shards : Quiescent(s)'
    BY DEF PlaneInv, Protocol, LinkWork, Quiescent
<1>3. \A i \in Routers : Agree(i)'
    BY DEF PlaneInv, Agreement, Agree, Commanded, LinkWork
<1>4. CASE owner'.does \in {"idle"} \union LinkWork
    BY <1>1, <1>2, <1>3, <1>4 DEF Protocol, LinkWork, Agreement, Barrier
<1>5. ASSUME NEW i \in Routers, device[i].occupied,
             owner' = [does |-> "pause", next |-> 0, remove |-> i]
      PROVE  Protocol' /\ Agreement'
    <2>1. owner'.does = "pause" /\ owner'.next = 0 /\ owner'.remove = i
        BY <1>5
    <2>2. Protocol'
        BY <1>2, <2>1, Numbers DEF Protocol, LinkWork
    <2>3. device'[i].occupied
        BY <1>5
    <2> QED BY <1>3, <2>1, <2>2, <2>3 DEF Agreement
<1> QED BY <1>1, <1>4, <1>5

\* The owner goes from one stage of the work on a cable to the next.
LEMMA NextStage ==
    ASSUME PlaneInv, owner.does \in LinkWork, NEW x \in LinkWork,
           owner' = [owner EXCEPT !.does = x]
    PROVE  /\ owner.link \in Links /\ owner.then \in {"configure", "erase"}
           /\ owner'.does = x /\ owner'.link = owner.link
           /\ owner'.remove = owner.remove /\ OwnerTypes'
<1>1. owner \in [does : LinkWork, link : Links, then : {"configure", "erase"},
                 remove : Routers \union {-1}]
    BY OwnerFields DEF PlaneInv
<1>2. owner' \in [does : LinkWork, link : Links, then : {"configure", "erase"},
                  remove : Routers \union {-1}]
    BY <1>1
<1> QED BY <1>1, <1>2 DEF OwnerTypes

\* No router is being created or deleted while the owner works on a cable.
LEMMA NothingBare ==
    ASSUME owner'.does \in {"idle"} \union LinkWork
    PROVE  \A i : ~Bare(i)'
BY DEF Bare, Barrier, RouterCommand, LinkWork

\* The media stay while the registry's view of their cables changes.
LEMMA MediaStay ==
    ASSUME Media, UNCHANGED <<wire, binding>>,
           \A m \in Links :
              IF wire[m] = None THEN ~cable'[m].carrier
              ELSE /\ cable'[m].occupied
                   /\ cable'[m].generation = cable[m].generation
                   /\ cable'[m].ends = cable[m].ends
                   /\ wire[m].carrier # cable'[m].carrier =>
                         owner'.does \in {"remove", "report"} /\ owner'.link = m
    PROVE  Media'
<1>1. ASSUME NEW m \in Links, wire[m] # None
      PROVE  /\ wire'[m].generation = cable'[m].generation
             /\ \A e \in Ends :
                   /\ wire'[m].ends[e].node = cable'[m].ends[e]
                   /\ binding'[cable'[m].ends[e].index] = Bound(m, wire'[m], e)
    BY <1>1 DEF Media
<1>2. \A i \in Routers : binding'[i] # None =>
         /\ wire'[binding'[i].link] # None
         /\ binding'[i] = Bound(binding'[i].link, wire'[binding'[i].link],
                                binding'[i].end)
         /\ binding'[i].port.node.index = i
    BY DEF Media
<1> QED BY <1>1, <1>2 DEF Media

\* deactivate() on the control thread: carrier and signals go, the medium stays.
LEMMA WithdrawStep ==
    ASSUME PlaneInv, NEW l \in Links, Withdraw(l)
    PROVE  PlaneInv'
<1>1. /\ owner.does = "withdraw" /\ owner.link = l
      /\ cable' = [cable EXCEPT ![l].carrier = FALSE]
      /\ port' = WithSignal(l, FALSE)
      /\ owner' = [owner EXCEPT !.does = "remove"]
      /\ UNCHANGED <<device, live, binding, wire, forwarder>>
      /\ UNCHANGED <<commands, results, ingress, egress, stage, resume>>
    BY DEF Withdraw, plane, rings, turn
<1>2. owner.does \in LinkWork /\ "remove" \in LinkWork
    BY <1>1 DEF LinkWork
<1>3. /\ owner'.does = "remove" /\ owner'.link = l
      /\ owner'.remove = owner.remove /\ OwnerTypes'
    BY <1>1, <1>2, NextStage
<1>4. RegistryTypes /\ Media /\ Stages
    BY DEF PlaneInv, Topology
<1>5. cable[l].occupied
    BY <1>1, <1>2, <1>4 DEF Stages
<1>6. /\ cable' \in [Links -> Cable] /\ \A m \in Links \ {l} : cable'[m] = cable[m]
      /\ ~cable'[l].carrier /\ cable'[l].occupied = cable[l].occupied
      /\ cable'[l].ends = cable[l].ends /\ cable'[l].generation = cable[l].generation
    BY <1>1, <1>4 DEF RegistryTypes, Cable
<1>7. /\ port' \in [Routers -> PortState]
      /\ \A i \in Routers : /\ port'[i].present = port[i].present
                            /\ port'[i].speed = port[i].speed
    BY <1>1, <1>5, Signalled
<1>8. Signals'
    BY <1>1, <1>3, <1>5, <1>6, SignalWithdrawn
<1>9. RegistryTypes'
    BY <1>1, <1>4, <1>6, <1>7 DEF RegistryTypes
<1>10. Cabling'
    BY <1>1, <1>2, <1>3, <1>6, NothingBare, CablesKept
<1>11. Media'
    <2>1. \A m \in Links \ {l} : wire[m] # None => wire[m].carrier = cable[m].carrier
        BY <1>1, <1>4 DEF Media
    <2>2. \A m \in Links :
             IF wire[m] = None THEN ~cable[m].carrier ELSE cable[m].occupied
        BY <1>4 DEF Media
    <2> QED BY <1>1, <1>3, <1>4, <1>6, <2>1, <2>2, MediaStay
<1>12. Stages'
    BY <1>1, <1>2, <1>3, <1>4, <1>5, <1>6 DEF Stages, EndsAt
<1>13. Settled'
    <2>1. \A m \in Links : (Worked(m)' <=> m = l) /\ (Worked(m) <=> m = l)
        BY <1>1, <1>2, <1>3 DEF Worked
    <2>2. \A m \in Links, e \in Ends : cable'[m].occupied =>
             Registered(cable[m].ends[e])' /\ cable'[m].ends[e].index \in Routers
        BY <1>10 DEF Cabling, Node
    <2> QED BY <1>6, <1>7, <2>1, <2>2, SettledKept
<1>14. Frames'
    BY <1>1, FramesKept
<1>15. ShardTypes' /\ Protocol' /\ Agreement'
    BY <1>1, <1>2, <1>3, PlaneIdle
<1> QED BY <1>3, <1>8, <1>9, <1>10, <1>11, <1>12, <1>13, <1>14, <1>15
        DEF PlaneInv, Topology

\* The shards and the owner know the routers at the ends of a cable in use.
LEMMA EndsAnswer ==
    ASSUME PlaneInv, owner.does \in LinkWork, NEW l \in Links, cable[l].occupied,
           NEW e \in Ends
    PROVE  LET h == cable[l].ends[e] IN
           live[h.index] = h.generation /\ forwarder[h.index] = h.generation
<1>1. cable[l].ends[e].index \in Routers /\ Registered(cable[l].ends[e])
    BY CableEnds
<1>2. Agree(cable[l].ends[e].index)
    BY <1>1 DEF PlaneInv, Agreement, Commanded, LinkWork
<1> QED BY <1>1, <1>2 DEF Agree, Registered

\* deactivate() on the network thread: a medium that is there can be removed.
LEMMA RemoveMediumStep ==
    ASSUME PlaneInv, NEW l \in Links, RemoveMedium(l)
    PROVE  PlaneInv'
<1>1. /\ owner.does = "remove" /\ owner.link = l
      /\ owner' = [owner EXCEPT !.does = owner.then]
      /\ UNCHANGED <<device, port, cable, live, forwarder>>
      /\ UNCHANGED <<commands, results, ingress, egress, stage, resume>>
    BY DEF RemoveMedium, registries, rings, turn
<1>2. owner.does \in LinkWork
    BY <1>1 DEF LinkWork
<1>3. owner.then \in {"configure", "erase"} /\ owner.then \in LinkWork
    BY <1>2, OwnerFields DEF PlaneInv, LinkWork
<1>4. /\ owner'.does \in {"configure", "erase"} /\ owner'.link = l
      /\ owner'.remove = owner.remove /\ OwnerTypes'
    BY <1>1, <1>2, <1>3, NextStage
<1>5. RegistryTypes /\ Media /\ Stages /\ Cabling /\ Signals /\ Settled
    BY DEF PlaneInv, Topology
<1>6. cable[l].occupied /\ ~cable[l].carrier
    BY <1>1, <1>2, <1>5 DEF Stages
<1>7. /\ wire' \in [Links -> {None} \union Wire] /\ wire'[l] = None
      /\ binding' \in [Routers -> {None} \union Binding]
      /\ Media' /\ Frames'
    <2>1. CASE wire[l] = None
        <3>1. UNCHANGED <<wire, binding>>
            BY <2>1 DEF RemoveMedium, Removable
        <3>2. Media'
            <4>1. \A m \in Links : wire[m] # None => wire[m].carrier = cable[m].carrier
                BY <1>1, <1>5, <2>1 DEF Media
            <4> QED BY <1>1, <1>5, <3>1, <4>1 DEF Media
        <3> QED BY <1>1, <1>5, <2>1, <3>1, <3>2, FramesKept DEF RegistryTypes
    <2>2. CASE wire[l] # None
        <3>1. /\ wire[l].generation = cable[l].generation
              /\ \A e \in Ends : wire[l].ends[e].node = cable[l].ends[e]
            BY <1>5, <2>2 DEF Media
        <3>2. ShardsAnswer(wire[l].ends)
            BY <1>2, <1>6, <3>1, EndsAnswer DEF ShardsAnswer
        <3>3. wire' = [wire EXCEPT ![l] = None] /\ binding' = WithoutLink(l)
            BY <2>2, <3>1, <3>2 DEF RemoveMedium, Removable
        <3> QED BY <1>1, <1>6, <3>3, MediumDropped
    <2> QED BY <2>1, <2>2
<1>8. RegistryTypes'
    BY <1>1, <1>5, <1>7 DEF RegistryTypes
<1>9. owner'.does \in LinkWork
    BY <1>4 DEF LinkWork
<1>10. Cabling'
    BY <1>1, <1>9, NothingBare, CablesKept
<1>11. Signals'
    BY <1>1, <1>4, <1>5 DEF Signals, Carried, Unsettled, EndsAt
<1>12. Stages'
    BY <1>1, <1>2, <1>4, <1>5, <1>6, <1>7 DEF Stages, EndsAt
<1>13. Settled'
    <2>1. \A m \in Links : (Worked(m)' <=> m = l) /\ (Worked(m) <=> m = l)
        BY <1>1, <1>2, <1>4, <1>9 DEF Worked
    <2>2. \A m \in Links, e \in Ends : cable'[m].occupied => Registered(cable[m].ends[e])'
        BY <1>10 DEF Cabling
    <2> QED BY <1>1, <2>1, <2>2, SettledKept
<1>14. ShardTypes' /\ Protocol' /\ Agreement'
    BY <1>1, <1>2, <1>9, PlaneIdle
<1> QED BY <1>4, <1>7, <1>8, <1>10, <1>11, <1>12, <1>13, <1>14 DEF PlaneInv, Topology

\* erase(): the slot of a cable without a medium is free again.
LEMMA EraseLinkStep ==
    ASSUME PlaneInv, NEW l \in Links, EraseLink(l)
    PROVE  PlaneInv'
<1>1. /\ owner.does = "erase" /\ owner.link = l
      /\ cable' = [cable EXCEPT ![l] = FreeCable(NextGeneration(cable[l].generation))]
      /\ owner' = IF owner.remove = -1 THEN Idle
                  ELSE [does |-> "pause", next |-> 0, remove |-> owner.remove]
      /\ UNCHANGED <<device, port, live, binding, wire, forwarder>>
      /\ UNCHANGED <<commands, results, ingress, egress, stage, resume>>
    BY DEF EraseLink, plane, rings, turn
<1>2. owner.does \in LinkWork
    BY <1>1 DEF LinkWork
<1>3. RegistryTypes /\ Media /\ Stages /\ Cabling /\ Signals
    BY DEF PlaneInv, Topology
<1>4. cable[l].occupied /\ ~cable[l].carrier /\ wire[l] = None
    BY <1>1, <1>2, <1>3 DEF Stages
<1>5. /\ cable' \in [Links -> Cable] /\ ~cable'[l].occupied /\ ~cable'[l].carrier
      /\ \A m \in Links \ {l} : cable'[m] = cable[m]
    <2>1. cable[l].generation \in Generations /\ cable \in [Links -> Cable]
        BY <1>3 DEF RegistryTypes, Cable
    <2>2. NextGeneration(cable[l].generation) \in Generations
        BY <2>1, NextGenerationType
    <2> DEFINE v == FreeCable(NextGeneration(cable[l].generation))
    <2>3. v \in Cable /\ ~v.occupied /\ ~v.carrier
        BY <2>2 DEF FreeCable, Cable
    <2>4. cable' = [cable EXCEPT ![l] = v]
        BY <1>1
    <2> HIDE DEF v
    <2> QED BY <2>1, <2>3, <2>4
<1>6. /\ OwnerTypes' /\ owner'.does \in {"idle", "pause"}
      /\ \/ owner'.does = "idle"
         \/ /\ owner.remove \in Routers /\ device[owner.remove].occupied
            /\ owner' = [does |-> "pause", next |-> 0, remove |-> owner.remove]
            /\ \E e \in Ends : EndsAt(l, e, owner.remove)
    <2>1. owner.remove \in Routers \union {-1}
        BY <1>2, OwnerFields DEF PlaneInv
    <2>2. CASE owner.remove = -1
        BY <1>1, <2>2 DEF OwnerTypes, Idle
    <2>3. CASE owner.remove # -1
        <3>1. owner.remove \in Routers
              /\ owner' = [does |-> "pause", next |-> 0, remove |-> owner.remove]
            BY <1>1, <2>1, <2>3
        <3>2. OwnerTypes' /\ owner'.does = "pause"
            BY <3>1, Numbers DEF OwnerTypes, Barrier
        <3>3. device[owner.remove].occupied /\ \E e \in Ends : EndsAt(l, e, owner.remove)
            BY <1>1, <1>2, <1>3, <2>3 DEF Stages
        <3> QED BY <3>1, <3>2, <3>3
    <2> QED BY <2>2, <2>3
<1>7. ASSUME NEW m \in Links, cable'[m].occupied, NEW e \in Ends
      PROVE  m # l /\ cable[m].occupied /\ ~Bare(cable[m].ends[e].index)'
    <2>1. m # l /\ cable'[m] = cable[m] /\ cable[m].occupied
        BY <1>5, <1>7
    <2>2. CASE owner'.does = "idle"
        BY <2>1, <2>2, NothingBare
    <2>3. CASE /\ owner.remove \in Routers
               /\ owner' = [does |-> "pause", next |-> 0, remove |-> owner.remove]
               /\ \E f \in Ends : EndsAt(l, f, owner.remove)
        <3>1. PICK f \in Ends : EndsAt(l, f, owner.remove)
            BY <2>3
        <3>2. ~EndsAt(m, e, owner.remove)
            BY <2>1, <2>3, <3>1, CableEnds
        <3>3. cable'[m].ends[e].index # owner.remove
            BY <2>1, <3>2 DEF EndsAt
        <3>4. owner'.does = "pause" /\ owner'.remove = owner.remove
            BY <2>3
        <3> QED BY <2>1, <3>3, <3>4 DEF Bare, RouterCommand, Barrier
    <2> QED BY <1>6, <2>2, <2>3
<1>8. Cabling'
    <2>1. \A m \in Links : cable'[m].occupied => cable'[m] = cable[m]
        BY <1>5
    <2> QED BY <1>1, <1>7, <2>1, CablesKept
<1>9. Media'
    <2>1. \A m \in Links : wire[m] # None => wire[m].carrier = cable[m].carrier
        BY <1>1, <1>3 DEF Media
    <2>2. \A m \in Links :
             IF wire[m] = None THEN ~cable[m].carrier ELSE cable[m].occupied
        BY <1>3 DEF Media
    <2> QED BY <1>1, <1>3, <1>4, <1>5, <2>1, <2>2, MediaStay
<1>10. Signals'
    <2>1. \A i \in Routers, m \in Links, e \in Ends :
             (cable'[m].carrier /\ EndsAt(m, e, i)') <=> (cable[m].carrier /\ EndsAt(m, e, i))
        BY <1>4, <1>5 DEF EndsAt
    <2>2. \A i \in Routers : (Carried(i)' <=> Carried(i)) /\ ~Unsettled(i)
        BY <1>1, <2>1 DEF Carried, Unsettled
    <2> QED BY <1>1, <1>3, <2>2 DEF Signals
<1>11. Stages'
    BY <1>6 DEF Stages, LinkWork
<1>12. Settled'
    <2>1. \A m \in Links \ {l} : ~Worked(m)
        BY <1>1 DEF Worked
    <2>2. \A m \in Links : cable'[m].occupied => m # l /\ cable'[m] = cable[m]
        BY <1>5
    <2>3. \A m \in Links, e \in Ends : cable'[m].occupied =>
             Registered(cable[m].ends[e])'
        BY <1>8 DEF Cabling
    <2> QED BY <1>1, <2>1, <2>2, <2>3, SettledKept
<1>13. Frames'
    BY <1>1, FramesKept
<1>14. ShardTypes' /\ Protocol' /\ Agreement'
    BY <1>1, <1>2, <1>6, PlaneIdle
<1>15. RegistryTypes'
    BY <1>1, <1>3, <1>5 DEF RegistryTypes
<1> QED BY <1>6, <1>8, <1>9, <1>10, <1>11, <1>12, <1>13, <1>14, <1>15
        DEF PlaneInv, Topology

\* reconcile() on the control thread: carrier and signals follow the medium.
LEMMA ReportCarrierStep ==
    ASSUME PlaneInv, NEW l \in Links, ReportCarrier(l)
    PROVE  PlaneInv'
<1> DEFINE up == cable[l].admin
<1>1. /\ owner.does = "report" /\ owner.link = l
      /\ cable' = [cable EXCEPT ![l].carrier = up]
      /\ port' = WithSignal(l, up) /\ owner' = Idle
      /\ UNCHANGED <<device, live, binding, wire, forwarder>>
      /\ UNCHANGED <<commands, results, ingress, egress, stage, resume>>
    BY DEF ReportCarrier, plane, rings, turn
<1>2. owner.does \in LinkWork /\ owner'.does = "idle" /\ OwnerTypes'
    BY <1>1 DEF LinkWork, Idle, OwnerTypes
<1>3. RegistryTypes /\ Media /\ Stages /\ Cabling /\ Signals
    BY DEF PlaneInv, Topology
<1>4. /\ cable[l].occupied /\ wire[l] # None /\ wire[l].carrier = up
      /\ Compatible(l)
    BY <1>1, <1>2, <1>3 DEF Stages
<1>5. up \in BOOLEAN
    BY <1>3 DEF RegistryTypes, Cable
<1>6. /\ cable' \in [Links -> Cable] /\ \A m \in Links \ {l} : cable'[m] = cable[m]
      /\ cable'[l].carrier = up /\ cable'[l].occupied = cable[l].occupied
      /\ cable'[l].ends = cable[l].ends /\ cable'[l].generation = cable[l].generation
      /\ cable'[l].admin = up /\ cable'[l].speed = cable[l].speed
    BY <1>1, <1>3, <1>5 DEF RegistryTypes, Cable
<1>7. /\ port' \in [Routers -> PortState]
      /\ \A i \in Routers :
           /\ port'[i].present = port[i].present
           /\ port'[i].speed = port[i].speed
           /\ port'[i].signal = (IF port[i].present /\ \E e \in Ends : EndsAt(l, e, i)
                                 THEN up ELSE port[i].signal)
    BY <1>1, <1>4, <1>5, Signalled
<1> HIDE DEF up
<1>8. RegistryTypes'
    BY <1>1, <1>3, <1>6, <1>7 DEF RegistryTypes
<1>9. Cabling'
    BY <1>1, <1>2, <1>6, NothingBare, CablesKept
<1>10. Media'
    <2>1. \A m \in Links \ {l} : wire[m] # None => wire[m].carrier = cable[m].carrier
        BY <1>1, <1>3 DEF Media
    <2>2. \A m \in Links :
             IF wire[m] = None THEN ~cable[m].carrier ELSE cable[m].occupied
        BY <1>3 DEF Media
    <2> QED BY <1>1, <1>3, <1>4, <1>6, <2>1, <2>2, MediaStay
<1>11. Stages'
    BY <1>2 DEF Stages, LinkWork
<1>12. Settled'
    <2>1. \A m \in Links \ {l} : ~Worked(m)
        BY <1>1 DEF Worked
    <2>2. \A m \in Links, e \in Ends : cable[m].occupied =>
             Registered(cable[m].ends[e])' /\ cable[m].ends[e].index \in Routers
        BY <1>1, CableEnds DEF Registered
    <2>3. cable'[l].carrier <=> cable'[l].admin /\ Compatible(l)'
        <3>1. ASSUME NEW e \in Ends PROVE Resolves(cable[l].ends[e])'
            <4>1. port[cable[l].ends[e].index].present
                BY <1>4 DEF Compatible, Resolves
            <4>2. /\ cable'[l].ends[e] = cable[l].ends[e]
                  /\ cable[l].ends[e].index \in Routers /\ Registered(cable[l].ends[e])'
                BY <1>4, <1>6, <2>2
            <4> QED BY <1>7, <4>1, <4>2 DEF Resolves
        <3>2. /\ port'[cable[l].ends[1].index].speed = port[cable[l].ends[1].index].speed
              /\ port'[cable[l].ends[2].index].speed = port[cable[l].ends[2].index].speed
            BY <1>4, <1>7, <2>2, Numbers
        <3>3. Compatible(l)'
            BY <1>4, <1>6, <3>1, <3>2 DEF Compatible
        <3> QED BY <1>6, <3>3
    <2> QED BY <1>6, <1>7, <2>1, <2>2, <2>3, SettledKept
<1>13. Signals'
    <2>1. \A i \in Routers : ~port'[i].present => ~port'[i].signal
        BY <1>3, <1>7 DEF Signals
    <2>2. ASSUME NEW i \in Routers, NEW e \in Ends, EndsAt(l, e, i)
          PROVE  port'[i].signal <=> Carried(i)'
        <3>1. port[i].present
            <4>1. cable[l].ends[e].index = i
                BY <2>2 DEF EndsAt
            <4> QED BY <1>4, <4>1 DEF Compatible, Resolves
        <3>2. port'[i].signal = up
            BY <1>7, <2>2, <3>1
        <3>3. EndsAt(l, e, i)'
            BY <1>6, <2>2 DEF EndsAt
        <3>4. up => Carried(i)'
            BY <1>6, <3>3 DEF Carried
        <3>5. ASSUME NEW m \in Links, NEW f \in Ends, cable'[m].carrier, EndsAt(m, f, i)'
              PROVE  up
            <4>1. EndsAt(m, f, i)
                BY <1>6, <3>5 DEF EndsAt
            <4>2. m = l
                BY <2>2, <4>1, CableEnds
            <4> QED BY <1>6, <3>5, <4>2
        <3>6. Carried(i)' => up
            BY <3>5 DEF Carried
        <3> QED BY <3>2, <3>4, <3>6
    <2>3. ASSUME NEW i \in Routers, ~\E e \in Ends : EndsAt(l, e, i), device'[i].occupied
          PROVE  port'[i].signal <=> Carried(i)'
        <3>1. port'[i].signal = port[i].signal
            BY <1>7, <2>3
        <3>2. ~Unsettled(i) /\ device[i].occupied
            BY <1>1, <2>3 DEF Unsettled
        <3>3. port[i].signal <=> Carried(i)
            BY <1>3, <3>2 DEF Signals
        <3>4. \A m \in Links, f \in Ends :
                 (cable'[m].carrier /\ EndsAt(m, f, i)')
                    <=> (cable[m].carrier /\ EndsAt(m, f, i))
            BY <1>6, <2>3 DEF EndsAt
        <3>5. Carried(i)' <=> Carried(i)
            BY <3>4 DEF Carried
        <3> QED BY <3>1, <3>3, <3>5
    <2> QED BY <2>1, <2>2, <2>3 DEF Signals
<1>14. Frames'
    BY <1>1, FramesKept
<1>15. ShardTypes' /\ Protocol' /\ Agreement'
    BY <1>1, <1>2, PlaneIdle
<1> QED BY <1>2, <1>8, <1>9, <1>10, <1>11, <1>12, <1>13, <1>14, <1>15
        DEF PlaneInv, Topology

\* An edit is recorded in the registries and the work on a cable begins.
LEMMA WorkBegins ==
    ASSUME PlaneInv, NEW l \in Links, NEW then \in {"configure", "erase"},
           NEW r \in Routers \union {-1},
           owner = Idle, owner' = Deactivating(l, then, r),
           cable' \in [Links -> Cable], cable'[l].occupied,
           \A m \in Links \ {l} : cable'[m] = cable[m],
           cable'[l].carrier = cable[l].carrier,
           cable'[l].generation = cable[l].generation,
           wire[l] # None => cable'[l].ends = cable[l].ends,
           Cabling',
           r # -1 => device'[r].occupied /\ \E e \in Ends : EndsAt(l, e, r)',
           device' \in [Routers -> [occupied : BOOLEAN, quiescing : BOOLEAN,
                                    generation : Generations]],
           \A i \in Routers : /\ device'[i].occupied = device[i].occupied
                              /\ device'[i].generation = device[i].generation,
           port' \in [Routers -> PortState],
           \A i \in Routers : ~port'[i].present => ~port'[i].signal,
           \A i \in Routers : (~\E e \in Ends : EndsAt(l, e, i)') => port'[i] = port[i],
           UNCHANGED <<live, binding, wire, forwarder>>,
           UNCHANGED <<commands, results, ingress, egress, stage, resume>>
    PROVE  PlaneInv'
<1>1. owner.does = "idle"
    BY DEF Idle
<1>2. /\ owner'.does = "withdraw" /\ owner'.link = l /\ owner'.remove = r
      /\ owner' \in [does : LinkWork, link : Links, then : {"configure", "erase"},
                     remove : Routers \union {-1}]
    BY DEF Deactivating, LinkWork
<1>3. OwnerTypes' /\ owner'.does \in LinkWork
    BY <1>2 DEF OwnerTypes
<1>4. RegistryTypes /\ Media /\ Cabling /\ Signals
    BY DEF PlaneInv, Topology
<1>5. \A m \in Links :
         IF wire[m] = None THEN ~cable[m].carrier
         ELSE cable[m].occupied /\ wire[m].carrier = cable[m].carrier
    BY <1>1, <1>4 DEF Media
<1>6. Media'
    <2>1. ASSUME NEW m \in Links
          PROVE  /\ cable'[m].carrier = cable[m].carrier
                 /\ cable'[m].generation = cable[m].generation
                 /\ wire[m] # None => /\ cable'[m].ends = cable[m].ends
                                      /\ cable'[m].occupied
        BY <1>5
    <2> QED BY <1>4, <1>5, <2>1, MediaStay
<1>7. Stages'
    BY <1>2 DEF Stages, LinkWork
<1>8. Settled'
    <2>1. \A m \in Links : m # l => ~Worked(m) /\ cable'[m] = cable[m]
        BY <1>1 DEF Worked, LinkWork
    <2>2. Worked(l)'
        BY <1>2, <1>3 DEF Worked
    <2>3. ASSUME NEW m \in Links, m # l, cable'[m].occupied, NEW e \in Ends
          PROVE  /\ Registered(cable[m].ends[e])'
                 /\ port'[cable[m].ends[e].index] = port[cable[m].ends[e].index]
        <3>1. cable'[m] = cable[m] /\ cable[m].occupied
            BY <2>1, <2>3
        <3>2. Registered(cable[m].ends[e])'
            BY <2>3 DEF Cabling
        <3>3. PICK i \in Routers : i = cable[m].ends[e].index
            BY <3>1, CableEnds
        <3>4. ~\E f \in Ends : EndsAt(l, f, i)'
            BY <2>3, <3>1, <3>3 DEF Cabling, EndsAt
        <3> QED BY <3>2, <3>3, <3>4
    <2> QED BY <2>1, <2>2, <2>3, SettledKept
<1>9. Signals'
    <2>1. ASSUME NEW i \in Routers, device'[i].occupied, ~Unsettled(i)'
          PROVE  port'[i].signal <=> Carried(i)'
        <3>1. \A e \in Ends : ~EndsAt(l, e, i)'
            BY <1>2, <2>1 DEF Unsettled
        <3>2. port'[i] = port[i]
            BY <3>1
        <3>3. port[i].signal <=> Carried(i)
            BY <1>1, <1>4, <2>1 DEF Signals, Unsettled
        <3>4. ASSUME NEW m \in Links, NEW e \in Ends
              PROVE  (cable'[m].carrier /\ EndsAt(m, e, i)')
                        <=> (cable[m].carrier /\ EndsAt(m, e, i))
            <4>1. CASE m # l
                BY <4>1 DEF EndsAt
            <4>2. CASE m = l
                <5>1. ~EndsAt(l, e, i)'
                    BY <3>1
                <5>2. cable[l].carrier => cable'[l].ends = cable[l].ends
                    BY <1>5
                <5>3. ~(cable[l].carrier /\ EndsAt(l, e, i))
                    BY <5>1, <5>2 DEF EndsAt
                <5> QED BY <4>2, <5>1, <5>3
            <4> QED BY <4>1, <4>2
        <3>5. Carried(i)' <=> Carried(i)
            BY <3>4 DEF Carried
        <3> QED BY <3>2, <3>3, <3>5
    <2> QED BY <2>1 DEF Signals
<1>10. Frames'
    BY FramesKept
<1>11. ShardTypes' /\ Protocol' /\ Agreement'
    BY <1>1, <1>3, PlaneIdle
<1>12. RegistryTypes'
    BY <1>4 DEF RegistryTypes
<1> QED BY <1>3, <1>6, <1>7, <1>8, <1>9, <1>10, <1>11, <1>12 DEF PlaneInv, Topology

\* An edit of a router without a cable.
LEMMA UncabledStep ==
    ASSUME PlaneInv, NEW i \in Routers, owner = Idle, Attached(Handle(i)) = {},
           device' \in [Routers -> [occupied : BOOLEAN, quiescing : BOOLEAN,
                                    generation : Generations]],
           \A j \in Routers : /\ device'[j].occupied = device[j].occupied
                              /\ device'[j].generation = device[j].generation,
           port' \in [Routers -> PortState], ~port'[i].signal,
           \A j \in Routers \ {i} : port'[j] = port[j],
           UNCHANGED <<cable, live, binding, wire, forwarder>>,
           UNCHANGED <<commands, results, ingress, egress, stage, resume>>,
           \/ owner' = Idle
           \/ /\ device[i].occupied
              /\ owner' = [does |-> "pause", next |-> 0, remove |-> i]
    PROVE  PlaneInv'
<1>1. owner.does = "idle"
    BY DEF Idle
<1>2. /\ OwnerTypes' /\ owner'.does \in {"idle", "pause"}
      /\ \A j : Bare(j)' => j = i
      /\ \/ owner'.does = "idle"
         \/ /\ device[i].occupied
            /\ owner' = [does |-> "pause", next |-> 0, remove |-> i]
    <2>1. CASE owner' = Idle
        <3>1. owner'.does = "idle"
            BY <2>1 DEF Idle
        <3>2. OwnerTypes'
            BY <2>1 DEF OwnerTypes
        <3>3. \A j : ~Bare(j)'
            BY <3>1, NothingBare
        <3> QED BY <3>1, <3>2, <3>3
    <2>2. CASE /\ device[i].occupied
               /\ owner' = [does |-> "pause", next |-> 0, remove |-> i]
        <3>1. owner'.does = "pause" /\ owner'.remove = i
            BY <2>2
        <3>2. OwnerTypes'
            BY <2>2, Numbers DEF OwnerTypes, Barrier
        <3>3. \A j : Bare(j)' => j = i
            BY <3>1 DEF Bare, RouterCommand, Barrier
        <3> QED BY <2>2, <3>1, <3>2, <3>3
    <2> QED BY <2>1, <2>2
<1>3. RegistryTypes /\ Media /\ Cabling /\ Signals
    BY DEF PlaneInv, Topology
<1>4. \A l \in Links, e \in Ends : ~EndsAt(l, e, i)
    BY AttachedEnds
<1>5. \A l \in Links, e \in Ends : cable[l].occupied =>
         cable[l].ends[e].index \in Routers \ {i}
    BY <1>4, CableEnds DEF EndsAt
<1>6. Cabling'
    <2>1. \A l \in Links, e \in Ends : cable'[l].occupied => ~Bare(cable[l].ends[e].index)'
        BY <1>2, <1>5
    <2> QED BY <2>1, CablesKept
<1>7. Media'
    <2>1. \A m \in Links :
             IF wire[m] = None THEN ~cable[m].carrier
             ELSE cable[m].occupied /\ wire[m].carrier = cable[m].carrier
        BY <1>1, <1>3 DEF Media
    <2> QED BY <1>3, <2>1, MediaStay
<1>8. Stages'
    BY <1>2 DEF Stages, LinkWork
<1>9. Settled'
    <2>1. \A l \in Links : ~Worked(l)
        BY <1>1 DEF Worked, LinkWork
    <2>2. \A l \in Links, e \in Ends : cable[l].occupied =>
             /\ Registered(cable[l].ends[e])'
             /\ port'[cable[l].ends[e].index] = port[cable[l].ends[e].index]
        BY <1>5, <1>6 DEF Cabling
    <2> QED BY <2>1, <2>2, SettledKept
<1>10. Signals'
    <2>1. \A j \in Routers : (Carried(j)' <=> Carried(j)) /\ ~Unsettled(j)
        BY <1>1 DEF Carried, EndsAt, Unsettled
    <2>2. ~Carried(i)
        BY <1>4 DEF Carried
    <2>3. \A j \in Routers \ {i} : device'[j].occupied => (port'[j].signal <=> Carried(j)')
        BY <1>3, <2>1 DEF Signals
    <2>4. \A j \in Routers : ~port'[j].present => ~port'[j].signal
        BY <1>3 DEF Signals
    <2> QED BY <2>1, <2>2, <2>3, <2>4 DEF Signals
<1>11. Frames'
    BY FramesKept
<1>12. ShardTypes' /\ Protocol' /\ Agreement'
    BY <1>1, <1>2, PlaneIdle
<1>13. RegistryTypes'
    BY <1>3 DEF RegistryTypes
<1> QED BY <1>2, <1>6, <1>7, <1>8, <1>9, <1>10, <1>11, <1>12, <1>13
        DEF PlaneInv, Topology

\* create_link: two routers without a cable, a free slot, no medium yet.
LEMMA CreateLinkStep ==
    ASSUME PlaneInv, NEW l \in Links, NEW i \in Routers, NEW j \in Routers,
           NEW up \in BOOLEAN, NEW speed \in CableSpeeds,
           CreateLink(l, i, j, up, speed)
    PROVE  PlaneInv'
<1> DEFINE ends == [e \in Ends |-> IF e = 1 THEN Handle(i) ELSE Handle(j)]
<1>1. /\ owner = Idle /\ i # j /\ device[i].occupied /\ device[j].occupied
      /\ Attached(Handle(i)) = {} /\ Attached(Handle(j)) = {}
      /\ ~cable[l].occupied
      /\ cable' = [cable EXCEPT ![l] = [cable[l] EXCEPT !.occupied = TRUE, !.ends = ends,
                                               !.admin = up, !.speed = speed,
                                               !.carrier = FALSE]]
      /\ owner' = Deactivating(l, "configure", -1)
      /\ UNCHANGED <<device, port, live, binding, wire, forwarder>>
      /\ UNCHANGED <<commands, results, ingress, egress, stage, resume>>
    BY DEF CreateLink, Begin, FirstFree, Reconcile, plane, rings, turn
<1>2. owner'.does \in LinkWork
    BY <1>1 DEF Deactivating, LinkWork
<1>3. RegistryTypes /\ Signals /\ speed \in Nat
    BY ForwardingShardsAssumption DEF PlaneInv, Topology
<1>4. \A k \in Routers : Handle(k) \in Node /\ Handle(k).index = k
    BY <1>3 DEF RegistryTypes, Handle, Node
<1>5. /\ ends \in [Ends -> Node] /\ ends[1] = Handle(i) /\ ends[2] = Handle(j)
      /\ ends[1].index = i /\ ends[2].index = j
    BY <1>4, Numbers
<1> HIDE DEF ends
<1>6. /\ cable' \in [Links -> Cable]
      /\ cable'[l].occupied /\ cable'[l].ends = ends /\ ~cable'[l].carrier
      /\ cable'[l].generation = cable[l].generation
      /\ \A m \in Links \ {l} : cable'[m] = cable[m]
    <2> DEFINE v == [cable[l] EXCEPT !.occupied = TRUE, !.ends = ends,
                                     !.admin = up, !.speed = speed, !.carrier = FALSE]
    <2>1. cable[l] \in Cable /\ cable \in [Links -> Cable]
        BY <1>3 DEF RegistryTypes
    <2>2. /\ v \in Cable /\ v.occupied /\ v.ends = ends /\ v.carrier = FALSE
          /\ v.generation = cable[l].generation
        BY <1>3, <1>5, <2>1 DEF Cable
    <2>3. cable' = [cable EXCEPT ![l] = v]
        BY <1>1
    <2> HIDE DEF v
    <2> QED BY <2>1, <2>2, <2>3
<1>7. \A m \in Links, e \in Ends : ~EndsAt(m, e, i) /\ ~EndsAt(m, e, j)
    BY <1>1, AttachedEnds
<1>8. \A e \in Ends : /\ Registered(ends[e])
                      /\ ends[e].index \in {i, j}
    <2>1. Registered(Handle(i)) /\ Registered(Handle(j))
        BY <1>1 DEF Registered, Handle
    <2> QED BY <1>5, <2>1, Numbers
<1>9. Cabling'
    <2>1. ASSUME NEW m \in Links, cable'[m].occupied
          PROVE  /\ cable'[m].ends \in [Ends -> Node]
                 /\ \A e \in Ends : /\ Registered(cable[m].ends[e])'
                                    /\ ~Bare(cable[m].ends[e].index)'
        <3>1. \A e \in Ends : ~Bare(cable[m].ends[e].index)'
            BY <1>2, NothingBare
        <3>2. CASE m = l
            BY <1>1, <1>5, <1>6, <1>8, <3>1, <3>2 DEF Registered
        <3>3. CASE m # l
            <4>1. cable'[m] = cable[m] /\ cable[m].occupied
                BY <1>6, <2>1, <3>3
            <4>2. cable[m].ends \in [Ends -> Node]
                  /\ \A e \in Ends : Registered(cable[m].ends[e])
                BY <4>1 DEF PlaneInv, Topology, Cabling
            <4> QED BY <1>1, <3>1, <4>1, <4>2 DEF Registered
        <3> QED BY <3>2, <3>3
    <2>2. ASSUME NEW m \in Links, NEW k \in Links, NEW e \in Ends, NEW f \in Ends,
                 cable'[m].occupied, cable'[k].occupied,
                 cable'[m].ends[e].index = cable'[k].ends[f].index
          PROVE  m = k /\ e = f
        <3>1. CASE m # l /\ k # l
            BY <1>6, <2>2, <3>1 DEF PlaneInv, Topology, Cabling
        <3>2. CASE m = l /\ k = l
            BY <1>1, <1>5, <1>6, <2>2, <3>2, Numbers
        <3>3. CASE m = l /\ k # l
            <4>1. cable[k].occupied /\ cable[k].ends[f].index \in {i, j}
                BY <1>6, <1>8, <2>2, <3>3
            <4> QED BY <1>7, <4>1 DEF EndsAt
        <3>4. CASE m # l /\ k = l
            <4>1. cable[m].occupied /\ cable[m].ends[e].index \in {i, j}
                BY <1>6, <1>8, <2>2, <3>4
            <4> QED BY <1>7, <4>1 DEF EndsAt
        <3> QED BY <3>1, <3>2, <3>3, <3>4
    <2> QED BY <1>2, <1>6, <2>1, <2>2 DEF Cabling
<1>10. wire[l] = None /\ ~cable[l].carrier /\ cable[l].carrier \in BOOLEAN
    BY <1>1, <1>3 DEF PlaneInv, Topology, Media, RegistryTypes, Cable
<1>11. /\ device' \in [Routers -> [occupied : BOOLEAN, quiescing : BOOLEAN,
                                   generation : Generations]]
       /\ port' \in [Routers -> PortState]
       /\ \A k \in Routers : ~port'[k].present => ~port'[k].signal
    BY <1>1, <1>3 DEF RegistryTypes, Signals
<1>12. cable'[l].carrier = cable[l].carrier
    BY <1>6, <1>10 DEF Cable
<1> QED BY <1>1, <1>6, <1>9, <1>10, <1>11, <1>12, WorkBegins

\* set_link_properties: the medium follows in the reconciliation.
LEMMA SetLinkPropertiesStep ==
    ASSUME PlaneInv, NEW l \in Links, NEW up \in BOOLEAN, NEW speed \in CableSpeeds,
           SetLinkProperties(l, up, speed)
    PROVE  PlaneInv'
<1>1. /\ owner = Idle /\ cable[l].occupied
      /\ cable' = [cable EXCEPT ![l].admin = up, ![l].speed = speed]
      /\ owner' = Deactivating(l, "configure", -1)
      /\ UNCHANGED <<device, port, live, binding, wire, forwarder>>
      /\ UNCHANGED <<commands, results, ingress, egress, stage, resume>>
    BY DEF SetLinkProperties, Begin, Reconcile, plane, rings, turn
<1>2. RegistryTypes /\ Signals /\ speed \in Nat
    BY ForwardingShardsAssumption DEF PlaneInv, Topology
<1>3. /\ cable' \in [Links -> Cable] /\ \A m \in Links \ {l} : cable'[m] = cable[m]
      /\ \A m \in Links : /\ cable'[m].occupied = cable[m].occupied
                          /\ cable'[m].generation = cable[m].generation
                          /\ cable'[m].ends = cable[m].ends
                          /\ cable'[m].carrier = cable[m].carrier
    BY <1>1, <1>2 DEF RegistryTypes, Cable
<1>4. owner'.does \in LinkWork
    BY <1>1 DEF Deactivating, LinkWork
<1>5. Cabling'
    BY <1>1, <1>3, <1>4, NothingBare, CablesKept
<1>6. /\ device' \in [Routers -> [occupied : BOOLEAN, quiescing : BOOLEAN,
                                  generation : Generations]]
      /\ port' \in [Routers -> PortState]
      /\ \A i \in Routers : ~port'[i].present => ~port'[i].signal
    BY <1>1, <1>2 DEF RegistryTypes, Signals
<1> QED BY <1>1, <1>3, <1>5, <1>6, WorkBegins

\* delete_link: the cable keeps its slot until its medium is gone.
LEMMA DeleteLinkStep ==
    ASSUME PlaneInv, NEW l \in Links, DeleteLink(l)
    PROVE  PlaneInv'
<1>1. /\ owner = Idle /\ cable[l].occupied
      /\ owner' = Deactivating(l, "erase", -1)
      /\ UNCHANGED <<device, port, cable, live, binding, wire, forwarder>>
      /\ UNCHANGED <<commands, results, ingress, egress, stage, resume>>
    BY DEF DeleteLink, Begin, registries, plane, rings, turn
<1>2. RegistryTypes /\ Signals
    BY DEF PlaneInv, Topology
<1>3. owner'.does \in LinkWork
    BY <1>1 DEF Deactivating, LinkWork
<1>4. Cabling'
    BY <1>1, <1>3, NothingBare, CablesKept
<1>5. /\ device' \in [Routers -> [occupied : BOOLEAN, quiescing : BOOLEAN,
                                  generation : Generations]]
      /\ port' \in [Routers -> PortState] /\ cable' \in [Links -> Cable]
      /\ \A i \in Routers : ~port'[i].present => ~port'[i].signal
    BY <1>1, <1>2 DEF RegistryTypes, Signals
<1> QED BY <1>1, <1>4, <1>5, WorkBegins

\* delete_router: the cable of the router is deleted before the barrier.
LEMMA DeleteRouterStep ==
    ASSUME PlaneInv, NEW i \in Routers, DeleteRouter(i)
    PROVE  PlaneInv'
<1>1. /\ owner = Idle /\ device[i].occupied
      /\ device' = [device EXCEPT ![i].quiescing = TRUE]
      /\ owner' = IF Attached(Handle(i)) = {}
                  THEN [does |-> "pause", next |-> 0, remove |-> i]
                  ELSE Deactivating(CHOOSE l \in Attached(Handle(i)) : TRUE, "erase", i)
      /\ UNCHANGED <<port, cable, live, binding, wire, forwarder>>
      /\ UNCHANGED <<commands, results, ingress, egress, stage, resume>>
    BY DEF DeleteRouter, Begin, plane, rings, turn
<1>2. RegistryTypes /\ Signals
    BY DEF PlaneInv, Topology
<1>3. /\ device' \in [Routers -> [occupied : BOOLEAN, quiescing : BOOLEAN,
                                  generation : Generations]]
      /\ \A j \in Routers : /\ device'[j].occupied = device[j].occupied
                            /\ device'[j].generation = device[j].generation
    BY <1>1, <1>2 DEF RegistryTypes
<1>4. /\ port' \in [Routers -> PortState] /\ cable' \in [Links -> Cable]
      /\ \A j \in Routers : ~port'[j].present => ~port'[j].signal
    BY <1>1, <1>2 DEF RegistryTypes, Signals
<1>5. CASE Attached(Handle(i)) = {}
    <2>1. \A l \in Links, e \in Ends : ~EndsAt(l, e, i)
        BY <1>5, AttachedEnds
    <2>2. ~port'[i].signal
        BY <1>1, <1>2, <2>1 DEF Signals, Carried, Unsettled, Idle
    <2> QED BY <1>1, <1>3, <1>4, <1>5, <2>2, UncabledStep
<1>6. CASE Attached(Handle(i)) # {}
    <2>1. PICK l \in Attached(Handle(i)) : owner' = Deactivating(l, "erase", i)
        BY <1>1, <1>6
    <2>2. l \in Links /\ cable[l].occupied
        BY DEF Attached
    <2>3. \E e \in Ends : EndsAt(l, e, i)
        BY <2>2, AttachedEnds
    <2>4. owner'.does \in LinkWork
        BY <2>1 DEF Deactivating, LinkWork
    <2>5. Cabling'
        BY <1>1, <1>3, <2>4, NothingBare, CablesKept
    <2>6. device'[i].occupied /\ \E e \in Ends : EndsAt(l, e, i)'
        BY <1>1, <1>3, <2>3 DEF EndsAt
    <2> QED BY <1>1, <1>3, <1>4, <2>1, <2>2, <2>5, <2>6, WorkBegins
<1> QED BY <1>5, <1>6

\* An edit of a router's equipment, and the reconciliation of its cable.
LEMMA EquipmentStep ==
    ASSUME PlaneInv, NEW i \in Routers, owner = Idle, ReconcileNode(i),
           NEW v \in PortState, port' = [port EXCEPT ![i] = v],
           ~v.present => ~v.signal,
           v.signal => port[i].signal, device[i].occupied,
           UNCHANGED <<device, cable, live, binding, wire, forwarder>>,
           UNCHANGED <<commands, results, ingress, egress, stage, resume>>
    PROVE  PlaneInv'
<1>1. RegistryTypes /\ Signals
    BY DEF PlaneInv, Topology
<1>2. /\ device' \in [Routers -> [occupied : BOOLEAN, quiescing : BOOLEAN,
                                  generation : Generations]]
      /\ port' \in [Routers -> PortState] /\ cable' \in [Links -> Cable]
      /\ port'[i] = v /\ \A j \in Routers \ {i} : port'[j] = port[j]
    BY <1>1 DEF RegistryTypes
<1>3. \A j \in Routers : ~port'[j].present => ~port'[j].signal
    BY <1>1, <1>2 DEF Signals
<1>4. CASE Attached(Handle(i)) = {}
    <2>1. \A l \in Links, e \in Ends : ~EndsAt(l, e, i)
        BY <1>4, AttachedEnds
    <2>2. ~port[i].signal
        BY <1>1, <2>1 DEF Signals, Carried, Unsettled, Idle
    <2>3. owner' = Idle
        BY <1>4 DEF ReconcileNode
    <2> QED BY <1>2, <1>4, <2>2, <2>3, UncabledStep
<1>5. CASE Attached(Handle(i)) # {}
    <2>1. PICK l \in Attached(Handle(i)) : owner' = Deactivating(l, "configure", -1)
        BY <1>5 DEF ReconcileNode, Reconcile
    <2>2. l \in Links /\ cable[l].occupied
        BY DEF Attached
    <2>3. \E e \in Ends : EndsAt(l, e, i)
        BY <2>2, AttachedEnds
    <2>4. owner'.does \in LinkWork
        BY <2>1 DEF Deactivating, LinkWork
    <2>5. Cabling'
        BY <2>4, NothingBare, CablesKept
    <2>6. \A j \in Routers : (~\E e \in Ends : EndsAt(l, e, j)') => port'[j] = port[j]
        BY <1>2, <2>3 DEF EndsAt
    <2> QED BY <1>2, <1>3, <2>1, <2>2, <2>5, <2>6, WorkBegins
<1> QED BY <1>4, <1>5

\* set_mda and set_card: new equipment has no signal until its cable is
\* reconciled.
LEMMA SwapHardwareStep ==
    ASSUME PlaneInv, NEW i \in Routers, NEW stays \in BOOLEAN, SwapHardware(i, stays)
    PROVE  PlaneInv'
<1>1. /\ owner = Idle /\ device[i].occupied /\ ReconcileNode(i)
      /\ UNCHANGED <<device, cable, live, binding, wire, forwarder>>
      /\ UNCHANGED <<commands, results, ingress, egress, stage, resume>>
    BY DEF SwapHardware, Begin, plane, rings, turn
<1>2. port[i] \in PortState /\ NextGeneration(port[i].generation) \in Generations
    <2>1. port[i] \in PortState
        BY DEF PlaneInv, RegistryTypes
    <2> QED BY <2>1, NextGenerationType DEF PortState
<1>3. CASE port[i].present
    <2> DEFINE v == [port[i] EXCEPT !.present = stays, !.signal = FALSE,
                         !.generation = NextGeneration(port[i].generation)]
    <2>1. v \in PortState /\ ~v.signal
        BY <1>2 DEF PortState
    <2>2. port' = [port EXCEPT ![i] =
                      IF port[i].present THEN v ELSE [port[i] EXCEPT !.present = TRUE]]
        BY DEF SwapHardware
    <2> HIDE DEF v
    <2>3. port' = [port EXCEPT ![i] = v]
        BY <1>3, <2>2
    <2> QED BY <1>1, <2>1, <2>3, EquipmentStep
<1>4. CASE ~port[i].present
    <2> DEFINE v == [port[i] EXCEPT !.present = TRUE]
    <2>1. v \in PortState /\ v.present /\ v.signal = port[i].signal
        BY <1>2 DEF PortState
    <2>2. port' = [port EXCEPT ![i] = v]
        BY <1>4 DEF SwapHardware
    <2> HIDE DEF v
    <2> QED BY <1>1, <2>1, <2>2, EquipmentStep
<1> QED BY <1>3, <1>4

\* configure_port: the rate, and whether the equipment supports it.
LEMMA ConfigurePortStep ==
    ASSUME PlaneInv, NEW i \in Routers, NEW speed \in Speeds, NEW fits \in BOOLEAN,
           ConfigurePort(i, speed, fits)
    PROVE  PlaneInv'
<1> DEFINE v == [port[i] EXCEPT !.speed = speed, !.present = fits]
<1>1. /\ owner = Idle /\ device[i].occupied /\ ReconcileNode(i)
      /\ port[i].present => fits
      /\ port' = [port EXCEPT ![i] = v]
      /\ UNCHANGED <<device, cable, live, binding, wire, forwarder>>
      /\ UNCHANGED <<commands, results, ingress, egress, stage, resume>>
    BY DEF ConfigurePort, Begin, plane, rings, turn
<1>2. port[i] \in PortState /\ (~port[i].present => ~port[i].signal)
    BY DEF PlaneInv, RegistryTypes, Topology, Signals
<1>3. v \in PortState /\ v.present = fits /\ v.signal = port[i].signal
    BY <1>2 DEF PortState
<1> HIDE DEF v
<1> QED BY <1>1, <1>2, <1>3, EquipmentStep

\* A cable without a medium has no port that is bound elsewhere.
LEMMA Unclaimed ==
    ASSUME PlaneInv, NEW l \in Links, cable[l].occupied, wire[l] = None, NEW e \in Ends
    PROVE  binding[cable[l].ends[e].index] = None
<1> SUFFICES ASSUME binding[cable[l].ends[e].index] # None PROVE FALSE
    OBVIOUS
<1>1. PICK i \in Routers : i = cable[l].ends[e].index
    BY CableEnds
<1>2. EndsAt(l, e, i)
    BY <1>1 DEF EndsAt
<1>3. PICK m \in Links, f \in Ends : m = binding[i].link /\ f = binding[i].end
    BY <1>1 DEF PlaneInv, RegistryTypes, Binding
<1>4. /\ wire[m] # None /\ binding[i] = Bound(m, wire[m], f)
      /\ binding[i].port.node.index = i
    BY <1>1, <1>3 DEF PlaneInv, Topology, Media
<1>5. cable[m].occupied /\ wire[m].ends[f].node = cable[m].ends[f]
    BY <1>4 DEF PlaneInv, Topology, Media
<1>6. binding[i].port = wire[m].ends[f]
    BY <1>4 DEF Bound
<1>7. EndsAt(m, f, i)
    BY <1>4, <1>5, <1>6 DEF EndsAt
<1>8. m = l
    BY <1>2, <1>7, CableEnds
<1> QED BY <1>4, <1>8

\* The program of a cable with live ends.
LEMMA ProgramType ==
    ASSUME PlaneInv, NEW l \in Links, cable[l].occupied
    PROVE  /\ Program(l) \in Wire
           /\ Program(l).generation = cable[l].generation
           /\ Program(l).carrier = cable[l].admin
           /\ \A e \in Ends : /\ Program(l).ends[e].node = cable[l].ends[e]
                              /\ Program(l).tx[e] = <<>>
<1>1. \A e \in Ends : cable[l].ends[e].index \in Routers
                      /\ cable[l].ends[e] = Handle(cable[l].ends[e].index)
    BY CableEnds
<1>2. cable[l].admin \in BOOLEAN /\ cable[l].generation \in Generations
    BY DEF PlaneInv, RegistryTypes, Cable
<1>3. \A i \in Routers : PortHandle(i) \in Port /\ PortHandle(i).node = Handle(i)
    BY DEF PlaneInv, RegistryTypes, PortState, PortHandle, Handle, Port, Node
<1> QED BY <1>1, <1>2, <1>3 DEF Program, Wire

\* reconcile() on the network thread: the plane takes every compatible cable.
LEMMA ConfigureLinkStep ==
    ASSUME PlaneInv, NEW l \in Links, ConfigureLink(l)
    PROVE  PlaneInv'
<1> DEFINE ends == cable[l].ends
           w == Program(l)
<1>1. /\ owner.does = "configure" /\ owner.link = l
      /\ UNCHANGED <<device, port, cable, live, forwarder>>
      /\ UNCHANGED <<commands, results, ingress, egress, stage, resume>>
    BY DEF ConfigureLink, registries, rings, turn
<1>2. owner.does \in LinkWork
    BY <1>1 DEF LinkWork
<1>3. RegistryTypes /\ Media /\ Stages /\ Cabling /\ Signals /\ Settled
    BY DEF PlaneInv, Topology
<1>4. cable[l].occupied /\ ~cable[l].carrier /\ wire[l] = None
    BY <1>1, <1>2, <1>3 DEF Stages
<1>5. \A m \in Links :
         IF wire[m] = None THEN ~cable[m].carrier
         ELSE cable[m].occupied /\ wire[m].carrier = cable[m].carrier
    BY <1>1, <1>3 DEF Media
<1>6. \A m \in Links, e \in Ends : cable[m].occupied =>
         cable[m].ends[e].index \in Routers /\ Registered(cable[m].ends[e])'
    BY <1>1, CableEnds DEF Registered
<1>7. \A m \in Links \ {l} : ~Worked(m)
    BY <1>1 DEF Worked
<1>8. CASE ~Compatible(l)
    <2>1. owner' = Idle /\ UNCHANGED <<wire, binding>>
        BY <1>8 DEF ConfigureLink
    <2>2. owner'.does = "idle" /\ OwnerTypes'
        BY <2>1 DEF Idle, OwnerTypes
    <2>3. Cabling'
        BY <1>1, <2>2, NothingBare, CablesKept
    <2>4. Media'
        BY <1>1, <1>3, <1>5, <2>1, MediaStay
    <2>5. Stages'
        BY <2>2 DEF Stages, LinkWork
    <2>6. Settled'
        <3>1. ~Compatible(l)' /\ ~cable'[l].carrier
            BY <1>1, <1>4, <1>8 DEF Compatible, Resolves, Registered
        <3> QED BY <1>1, <1>6, <1>7, <3>1, SettledKept
    <2>7. Signals'
        <3>1. \A i \in Routers : ~Unsettled(i) /\ Carried(i)' = Carried(i)
            BY <1>1 DEF Unsettled, Carried, EndsAt
        <3> QED BY <1>1, <1>3, <3>1 DEF Signals
    <2>8. ShardTypes' /\ Protocol' /\ Agreement'
        BY <1>1, <1>2, <2>2, PlaneIdle
    <2>9. RegistryTypes' /\ Frames'
        BY <1>1, <1>3, <2>1, FramesKept DEF RegistryTypes
    <2> QED BY <2>2, <2>3, <2>4, <2>5, <2>6, <2>7, <2>8, <2>9 DEF PlaneInv, Topology
<1>9. CASE Compatible(l)
    <2>1. /\ w \in Wire /\ w # None /\ w.generation = cable[l].generation
          /\ w.carrier = cable[l].admin
          /\ \A e \in Ends : w.ends[e].node = ends[e] /\ w.tx[e] = <<>>
        BY <1>4, ProgramType, NoneIsNone
    <2> HIDE DEF w
    <2>2. Configurable(l, w)
        <3>1. \A e \in Ends : /\ live[ends[e].index] = ends[e].generation
                              /\ forwarder[ends[e].index] = ends[e].generation
                              /\ binding[ends[e].index] = None
            BY <1>2, <1>4, EndsAnswer, Unclaimed
        <3> QED BY <1>4, <2>1, <3>1 DEF Configurable, ShardsAnswer
    <2>3. /\ wire' = [wire EXCEPT ![l] = w]
          /\ binding' = [i \in Routers |->
                 IF \E e \in Ends : w.ends[e].node.index = i
                 THEN Bound(l, w, CHOOSE e \in Ends : w.ends[e].node.index = i)
                 ELSE binding[i]]
          /\ owner' = [owner EXCEPT !.does = "report"]
        BY <1>9, <2>2 DEF ConfigureLink, w
    <2>4. \A e \in Ends, i \in Routers : w.ends[e].node.index = i <=> EndsAt(l, e, i)
        BY <1>4, <2>1 DEF EndsAt
    <2>5. ASSUME NEW i \in Routers, NEW e \in Ends, EndsAt(l, e, i)
          PROVE  binding'[i] = Bound(l, w, e)
        <3>1. \A f \in Ends : w.ends[f].node.index = i <=> f = e
            BY <2>4, <2>5, CableEnds
        <3>2. (CHOOSE f \in Ends : w.ends[f].node.index = i) = e
            BY <3>1
        <3>3. binding'[i] = Bound(l, w, CHOOSE f \in Ends : w.ends[f].node.index = i)
            BY <2>3, <3>1
        <3> QED BY <3>2, <3>3
    <2>6. \A i \in Routers : (~\E e \in Ends : EndsAt(l, e, i)) => binding'[i] = binding[i]
        BY <2>3, <2>4
    <2>7. binding' = [i \in Routers |-> binding'[i]]
        BY <2>3
    <2>8. \A e \in Ends : /\ Bound(l, w, e) \in Binding /\ Bound(l, w, e) # None
                          /\ Bound(l, w, e).link = l /\ Bound(l, w, e).end = e
                          /\ Bound(l, w, e).port = w.ends[e]
        <3>1. \A e \in Ends : Bound(l, w, e) \in Binding
            BY <2>1 DEF Bound, Binding, Wire
        <3> QED BY <3>1, NoneIsNone DEF Bound
    <2>9. /\ wire' \in [Links -> {None} \union Wire] /\ wire'[l] = w
          /\ \A m \in Links \ {l} : wire'[m] = wire[m]
        BY <1>3, <2>1, <2>3 DEF RegistryTypes
    <2>10. RegistryTypes'
        <3>1. ASSUME NEW i \in Routers PROVE binding'[i] \in {None} \union Binding
            BY <1>3, <2>5, <2>6, <2>8 DEF RegistryTypes
        <3>2. binding' \in [Routers -> {None} \union Binding]
            BY <2>7, <3>1
        <3> QED BY <1>1, <1>3, <2>9, <3>2 DEF RegistryTypes
    <2>11. /\ owner'.does = "report" /\ owner'.link = l
           /\ owner'.remove = owner.remove /\ OwnerTypes'
        <3>1. "report" \in LinkWork
            BY DEF LinkWork
        <3> QED BY <1>1, <1>2, <2>3, <3>1, NextStage
    <2>12. owner'.does \in LinkWork
        BY <2>11 DEF LinkWork
    <2>13. Cabling'
        BY <1>1, <2>12, NothingBare, CablesKept
    <2>14. Media'
        <3>1. ASSUME NEW m \in Links, wire'[m] # None
              PROVE  /\ cable'[m].occupied
                     /\ wire'[m].generation = cable'[m].generation
                     /\ wire'[m].carrier # cable'[m].carrier =>
                           owner'.does \in {"remove", "report"} /\ owner'.link = m
                     /\ \A e \in Ends :
                           /\ wire'[m].ends[e].node = cable'[m].ends[e]
                           /\ binding'[cable'[m].ends[e].index] = Bound(m, wire'[m], e)
            <4>1. CASE m = l
                <5>1. wire'[m] = w /\ cable'[m] = cable[m]
                    BY <1>1, <2>9, <4>1
                <5>2. ASSUME NEW e \in Ends
                      PROVE  binding'[cable[m].ends[e].index] = Bound(m, w, e)
                    <6>1. PICK i \in Routers : i = cable[l].ends[e].index
                        BY <1>4, <1>6
                    <6>2. EndsAt(l, e, i)
                        BY <1>4, <6>1 DEF EndsAt
                    <6> QED BY <2>5, <4>1, <6>1, <6>2
                <5> QED BY <1>4, <2>1, <2>11, <4>1, <5>1, <5>2
            <4>2. CASE m # l
                <5>1. wire'[m] = wire[m] /\ cable'[m] = cable[m] /\ wire[m] # None
                    BY <1>1, <2>9, <3>1, <4>2
                <5>2. /\ cable[m].occupied
                      /\ wire[m].generation = cable[m].generation
                      /\ wire[m].carrier = cable[m].carrier
                      /\ \A e \in Ends :
                            /\ wire[m].ends[e].node = cable[m].ends[e]
                            /\ binding[cable[m].ends[e].index] = Bound(m, wire[m], e)
                    BY <1>3, <1>5, <5>1 DEF Media
                <5>3. ASSUME NEW e \in Ends
                      PROVE  binding'[cable[m].ends[e].index] =
                                binding[cable[m].ends[e].index]
                    <6>1. PICK i \in Routers : i = cable[m].ends[e].index
                        BY <1>6, <5>2
                    <6>2. EndsAt(m, e, i)
                        BY <5>2, <6>1 DEF EndsAt
                    <6>3. ~\E f \in Ends : EndsAt(l, f, i)
                        BY <4>2, <6>2, CableEnds
                    <6> QED BY <2>6, <6>1, <6>3
                <5> QED BY <5>1, <5>2, <5>3
            <4> QED BY <4>1, <4>2
        <3>2. ASSUME NEW m \in Links, wire'[m] = None PROVE ~cable'[m].carrier
            <4>1. m # l /\ wire[m] = None /\ cable'[m] = cable[m]
                BY <1>1, <2>1, <2>9, <3>2
            <4> QED BY <1>5, <4>1
        <3>3. ASSUME NEW i \in Routers, binding'[i] # None
              PROVE  /\ wire'[binding'[i].link] # None
                     /\ binding'[i] = Bound(binding'[i].link, wire'[binding'[i].link],
                                            binding'[i].end)
                     /\ binding'[i].port.node.index = i
            <4>1. CASE \E e \in Ends : EndsAt(l, e, i)
                <5>1. PICK e \in Ends : EndsAt(l, e, i)
                    BY <4>1
                <5>2. binding'[i] = Bound(l, w, e)
                    BY <2>5, <5>1
                <5>3. /\ binding'[i].link = l /\ binding'[i].end = e
                      /\ binding'[i].port = w.ends[e]
                    BY <2>8, <5>2
                <5>4. w.ends[e].node.index = i
                    BY <2>4, <5>1
                <5> QED BY <2>1, <2>9, <5>2, <5>3, <5>4
            <4>2. CASE ~\E e \in Ends : EndsAt(l, e, i)
                <5>1. binding'[i] = binding[i] /\ binding[i] # None
                    BY <2>6, <3>3, <4>2
                <5>2. binding[i].link \in Links
                    BY <1>3, <5>1 DEF RegistryTypes, Binding
                <5>3. /\ wire[binding[i].link] # None
                      /\ binding[i] = Bound(binding[i].link, wire[binding[i].link],
                                            binding[i].end)
                      /\ binding[i].port.node.index = i
                    BY <1>3, <5>1 DEF Media
                <5>4. wire'[binding[i].link] = wire[binding[i].link]
                    BY <1>4, <2>9, <5>2, <5>3
                <5> QED BY <5>1, <5>3, <5>4
            <4> QED BY <4>1, <4>2
        <3> QED BY <3>1, <3>2, <3>3 DEF Media
    <2>15. Stages'
        <3>1. Compatible(l)'
            BY <1>1, <1>9 DEF Compatible, Resolves, Registered
        <3> QED BY <1>1, <1>2, <1>3, <1>4, <2>1, <2>9, <2>11, <3>1
                DEF Stages, EndsAt, LinkWork
    <2>16. Settled'
        <3>1. Worked(l)'
            BY <2>11, <2>12 DEF Worked
        <3> QED BY <1>1, <1>6, <1>7, <3>1, SettledKept
    <2>17. Signals'
        <3>1. \A i \in Routers : ~Unsettled(i) /\ Carried(i)' = Carried(i)
            BY <1>1 DEF Unsettled, Carried, EndsAt
        <3> QED BY <1>1, <1>3, <3>1 DEF Signals
    <2>18. Frames'
        <3>1. \A m \in Links : wire'[m] # None => \A e \in Ends :
                 \A n \in 1 .. Len(wire'[m].tx[e]) :
                    /\ wire'[m].tx[e][n].from = wire'[m].ends[e].node
                    /\ wire'[m].tx[e][n].aim = wire'[m].ends[Peer(e)].node
            <4>1. \A e \in Ends : 1 .. Len(w.tx[e]) = {}
                BY <2>1
            <4> QED BY <2>9, <4>1 DEF PlaneInv, Frames
        <3> QED BY <1>1, <3>1 DEF PlaneInv, Frames
    <2>19. ShardTypes' /\ Protocol' /\ Agreement'
        BY <1>1, <1>2, <2>12, PlaneIdle
    <2> QED BY <2>10, <2>11, <2>13, <2>14, <2>15, <2>16, <2>17, <2>18, <2>19
            DEF PlaneInv, Topology
<1> QED BY <1>8, <1>9

-----------------------------------------------------------------------------
(* The theorems.                                                           *)

\* Every step keeps the invariant.
LEMMA NextPlane == PlaneInv /\ [Next]_vars => PlaneInv'
<1> SUFFICES ASSUME PlaneInv, [Next]_vars PROVE PlaneInv'
    OBVIOUS
<1>1. CASE UNCHANGED vars
    <2>1. UNCHANGED <<registries, plane, owner, forwarder, commands, results>>
          /\ UNCHANGED <<ingress, egress, stage, resume>>
        BY <1>1 DEF vars, rings, turn
    <2>2. \A s \in Shards : Parked(s) => Parked(s)' /\ egress'[s] = egress[s]
        BY <2>1 DEF Parked
    <2>3. ShardTypes'
        BY <2>1 DEF PlaneInv, ShardTypes
    <2>4. \A s \in Shards : \A n \in 1 .. Len(ingress'[s]) :
             ingress'[s][n].aim = ingress'[s][n].to
        BY <2>1 DEF PlaneInv, Frames
    <2> QED BY <2>1, <2>2, <2>3, <2>4, QuietShard
<1>2. CASE Edit
    BY <1>2, CreateLinkStep, SetLinkPropertiesStep, SwapHardwareStep, ConfigurePortStep,
       DeleteLinkStep, CreateRouterStep, DeleteRouterStep, CheckpointStep DEF Edit
<1>3. CASE OwnerGoesOn
    BY <1>3, WithdrawStep, RemoveMediumStep, ConfigureLinkStep, ReportCarrierStep,
       EraseLinkStep, AddedStep, SubmitPauseStep, AwaitPauseStep, FinalDrainStep,
       ResumeStep, RefusedStep, RemoveForwarderStep, RemovedStep DEF OwnerGoesOn
<1>4. CASE Pump
    BY <1>4, DrainStep, DeliverStep DEF Pump
<1>5. CASE \E s \in Shards : ShardStep(s)
    BY <1>5, ShardStepKeeps
<1> QED BY <1>1, <1>2, <1>3, <1>4, <1>5 DEF Next

\* The invariant holds throughout.
THEOREM PlaneInvariant == Spec => []PlaneInv
BY InitPlane, NextPlane, PTL DEF Spec

\* A frame reaches only the router that was at the other end of the cable it
\* entered, whatever is deleted, created or cabled anew while it travels, and
\* although the slot generations wrap.
THEOREM FramesArriveWhereSent == Spec => []NoMisdelivery
<1>1. PlaneInv => NoMisdelivery
    <2> SUFFICES ASSUME PlaneInv PROVE NoMisdelivery
        OBVIOUS
    <2>1. ASSUME NEW s \in Shards, NEW n \in 1 .. Len(ingress[s]), Accepts(ingress[s][n])
          PROVE  ingress[s][n].aim = [index |-> ingress[s][n].to.index,
                                      generation |-> forwarder[ingress[s][n].to.index]]
        <3>1. ingress[s] \in Seq([to : Node, aim : Node])
            BY DEF PlaneInv, ShardTypes
        <3> DEFINE S == [to : Node, aim : Node]
        <3>2. ingress[s][n].to \in Node
            <4>1. \A f \in S : f.to \in Node
                OBVIOUS
            <4>2. ingress[s] \in Seq(S)
                BY <3>1
            <4> HIDE DEF S
            <4>3. ingress[s][n] \in S
                BY <4>2
            <4> QED BY <4>1, <4>3
        <3>3. ingress[s][n].aim = ingress[s][n].to
            BY DEF PlaneInv, Frames
        <3> QED BY <2>1, <3>2, <3>3 DEF Accepts, Node
    <2>2. \A l \in Links : wire[l] # None => \A e \in Ends :
             \A n \in 1 .. Len(wire[l].tx[e]) :
                /\ wire[l].tx[e][n].from = wire[l].ends[e].node
                /\ wire[l].tx[e][n].aim = wire[l].ends[Peer(e)].node
        BY DEF PlaneInv, Frames
    <2> QED BY <2>1, <2>2 DEF NoMisdelivery
<1> QED BY <1>1, PlaneInvariant, PTL

\* While the owner works under the barrier every forwarding thread waits and
\* every ring is empty.
THEOREM BarrierIsComplete == Spec => []BarrierComplete
<1>1. PlaneInv => BarrierComplete
    BY DEF PlaneInv, Protocol, LinkWork, Stopped, Quiescent, Parked, BarrierComplete
<1> QED BY <1>1, PlaneInvariant, PTL

\* Between operations the registry, the owner's mirror and the forwarding
\* threads know the same routers.
THEOREM RoutersAgree == Spec => []RegistriesAgree
<1>1. PlaneInv => RegistriesAgree
    <2> SUFFICES ASSUME PlaneInv, owner = Idle PROVE \A i \in Routers : Agree(i)
        BY DEF RegistriesAgree, Agree
    <2>1. owner.does = "idle"
        BY DEF Idle
    <2> QED BY <2>1 DEF PlaneInv, Agreement, Commanded
<1> QED BY <1>1, PlaneInvariant, PTL

\* Ports and media refer to each other, and no medium ends at a router the
\* plane does not have.
THEOREM BindingsMatchMedia == Spec => []BindingsReciprocal
<1>1. PlaneInv => BindingsReciprocal
    <2> SUFFICES ASSUME PlaneInv PROVE BindingsReciprocal
        OBVIOUS
    <2>1. Media /\ Cabling /\ Agreement
        BY DEF PlaneInv, Topology
    <2>2. ASSUME NEW l \in Links, wire[l] # None, NEW e \in Ends
          PROVE  LET h == wire[l].ends[e].node IN
                 /\ live[h.index] = h.generation
                 /\ binding[h.index] = Bound(l, wire[l], e)
        <3>1. /\ cable[l].occupied /\ wire[l].ends[e].node = cable[l].ends[e]
              /\ binding[cable[l].ends[e].index] = Bound(l, wire[l], e)
            BY <2>1, <2>2 DEF Media
        <3>2. /\ cable[l].ends[e].index \in Routers /\ Registered(cable[l].ends[e])
            BY <3>1, CableEnds
        <3>3. ~Commanded(cable[l].ends[e].index)
            BY <2>1, <3>1 DEF Cabling, Bare, Commanded, RouterCommand
        <3>4. Agree(cable[l].ends[e].index)
            BY <2>1, <3>2, <3>3 DEF Agreement
        <3>5. live[cable[l].ends[e].index] = cable[l].ends[e].generation
            BY <3>2, <3>4 DEF Agree, Registered
        <3> QED BY <3>1, <3>5
    <2>3. \A i \in Routers : binding[i] # None =>
             /\ wire[binding[i].link] # None
             /\ binding[i] = Bound(binding[i].link, wire[binding[i].link],
                                   binding[i].end)
        BY <2>1 DEF Media
    <2> QED BY <2>2, <2>3 DEF BindingsReciprocal
<1> QED BY <1>1, PlaneInvariant, PTL

\* A cable shown with carrier is carried by the plane at every moment of an
\* edit; between edits its carrier is the verdict of reconcile() on the present
\* equipment and rates, no other medium carries, and the signal of every port is
\* that of its cable, although reconcile() and the plane may refuse each step.
THEOREM CarrierIsTruthful == Spec => []CarrierTruthful
<1>1. PlaneInv => CarrierTruthful
    <2> SUFFICES ASSUME PlaneInv PROVE CarrierTruthful
        OBVIOUS
    <2>1. Media /\ Signals /\ Settled /\ Stages
        BY DEF PlaneInv, Topology
    <2>2. ASSUME NEW l \in Links, cable[l].carrier
          PROVE  /\ wire[l] # None
                 /\ wire[l].carrier /\ wire[l].generation = cable[l].generation
                 /\ \A e \in Ends : wire[l].ends[e].node = cable[l].ends[e]
        <3>1. ~(owner.does \in {"remove", "report"} /\ owner.link = l)
            BY <2>1, <2>2 DEF Stages, LinkWork
        <3>2. /\ wire[l] # None /\ wire[l].carrier = cable[l].carrier
              /\ wire[l].generation = cable[l].generation
              /\ \A e \in Ends : wire[l].ends[e].node = cable[l].ends[e]
            BY <2>1, <2>2, <3>1 DEF Media
        <3> QED BY <2>2, <3>2
    <2>4. ASSUME owner = Idle, NEW l \in Links
          PROVE  /\ cable[l].carrier <=>
                       cable[l].occupied /\ cable[l].admin /\ Compatible(l)
                 /\ wire[l] # None /\ wire[l].carrier => cable[l].carrier
        <3>1. owner.does = "idle" /\ ~Worked(l)
            BY <2>4 DEF Idle, Worked, LinkWork
        <3>2. IF wire[l] = None THEN ~cable[l].carrier
              ELSE cable[l].occupied /\ wire[l].carrier = cable[l].carrier
            BY <2>1, <3>1 DEF Media
        <3>3. cable[l].occupied =>
                 (cable[l].carrier <=> cable[l].admin /\ Compatible(l))
            BY <2>1, <3>1 DEF Settled
        <3> QED BY <3>2, <3>3
    <2>3. ASSUME owner = Idle, NEW i \in Routers, device[i].occupied
          PROVE  port[i].signal <=> \E l \in Attached(Handle(i)) : cable[l].carrier
        <3>1. ~Unsettled(i)
            BY <2>3 DEF Unsettled, Idle
        <3>2. port[i].signal <=> Carried(i)
            BY <2>1, <2>3, <3>1 DEF Signals
        <3>3. \A l \in Links : l \in Attached(Handle(i)) <=> \E e \in Ends : EndsAt(l, e, i)
            BY AttachedEnds
        <3>4. Attached(Handle(i)) \subseteq Links
            BY DEF Attached
        <3>5. Carried(i) <=> \E l \in Attached(Handle(i)) : cable[l].carrier
            BY <3>3, <3>4 DEF Carried
        <3> QED BY <3>2, <3>5
    <2> QED BY <2>2, <2>3, <2>4 DEF CarrierTruthful
<1> QED BY <1>1, PlaneInvariant, PTL

\* A frame that finds the ring full is dropped.
RingsBounded == \A s \in Shards : Len(ingress[s]) <= RingFrames

\* No step puts a frame into a full ingress ring.
LEMMA NextBounded == PlaneInv /\ RingsBounded /\ [Next]_vars => RingsBounded'
<1> SUFFICES ASSUME PlaneInv, RingsBounded, [Next]_vars,
                    NEW s \in Shards
             PROVE  Len(ingress'[s]) <= RingFrames
    BY DEF RingsBounded
<1> DEFINE S == [to : Node, aim : Node]
<1>1. ingress \in [Shards -> Seq(S)]
    BY DEF PlaneInv, ShardTypes
<1>2. Len(ingress[s]) <= RingFrames
    BY DEF RingsBounded
<1> HIDE DEF S
<1>3. \A t \in Shards : ingress[t] \in Seq(S)
    BY <1>1
<1>4. \A t \in Shards : Len(ingress[t]) \in Nat
    BY <1>3
<1>5. CASE ingress' = ingress
    BY <1>2, <1>5
<1>6. ASSUME NEW t \in Shards, HandleIngress(t)
      PROVE  Len(ingress'[s]) <= RingFrames
    <2>1. ingress[t] # <<>> /\ ingress' = [ingress EXCEPT ![t] = Tail(ingress[t])]
        BY <1>6 DEF HandleIngress
    <2>2. Len(Tail(ingress[t])) = Len(ingress[t]) - 1
        BY <1>3, <2>1, Popped
    <2>3. CASE s = t
        <3>1. Len(ingress'[s]) = Len(ingress[s]) - 1 /\ Len(ingress[s]) \in Nat
            BY <1>1, <1>4, <2>1, <2>2, <2>3
        <3> QED BY <1>2, <3>1, Numbers
    <2>4. CASE s # t
        BY <1>1, <1>2, <2>1, <2>4
    <2> QED BY <2>3, <2>4
<1>7. ASSUME NEW l \in Links, NEW e \in Ends, Deliver(l, e)
      PROVE  Len(ingress'[s]) <= RingFrames
    <2> DEFINE x == [to |-> wire[l].ends[Peer(e)].node, aim |-> Head(wire[l].tx[e]).aim]
               z == Shard(wire[l].ends[Peer(e)].node.index)
    <2>1. ingress' = [ingress EXCEPT ![z] = IF Len(ingress[z]) = RingFrames THEN ingress[z]
                                            ELSE Append(ingress[z], x)]
        BY <1>7 DEF Deliver
    <2> HIDE DEF x, z
    <2>2. CASE s = z /\ Len(ingress[s]) # RingFrames
        <3>1. ingress'[s] = Append(ingress[s], x)
            BY <1>1, <2>1, <2>2
        <3>2. Len(Append(ingress[s], x)) = Len(ingress[s]) + 1
            BY <1>3
        <3>3. Len(ingress[s]) \in Nat
            BY <1>4
        <3> QED BY <1>2, <2>2, <3>1, <3>2, <3>3, Numbers
    <2>3. CASE ~(s = z /\ Len(ingress[s]) # RingFrames)
        <3>1. ingress'[s] = ingress[s]
            BY <1>1, <2>1, <2>3
        <3> QED BY <1>2, <3>1
    <2> QED BY <2>2, <2>3
<1>8. CASE UNCHANGED vars
    BY <1>5, <1>8 DEF vars, rings
<1>9. CASE Edit
    BY <1>5, <1>9 DEF Edit, CreateLink, SetLinkProperties, SwapHardware, ConfigurePort,
                      DeleteLink, CreateRouter, DeleteRouter, Checkpoint, rings
<1>10. CASE OwnerGoesOn
    BY <1>5, <1>10 DEF OwnerGoesOn, Withdraw, RemoveMedium, ConfigureLink,
                       ReportCarrier, EraseLink, RouterAdded, SubmitPause, AwaitPause,
                       FinalDrain, ResumeShard, RemoveRefused, RemoveForwarder,
                       RouterRemoved, rings
<1>11. CASE Pump
    BY <1>5, <1>7, <1>11 DEF Pump, DrainEgress
<1>12. ASSUME NEW t \in Shards, ShardStep(t)
       PROVE  Len(ingress'[s]) <= RingFrames
    BY <1>5, <1>6, <1>12 DEF ShardStep, EndIngress, NoCommand, ShardAdds, ShardRemoves,
       ShardAcknowledgesPause, Answer, ClearResume, LeavePause, Maintenance, Wake, rings
<1> QED BY <1>8, <1>9, <1>10, <1>11, <1>12 DEF Next

\* Types, and the rings stay within their bounds: deliver() and emit() drop a
\* frame rather than exceed the ring, and no shard ever owes more than one answer.
THEOREM PlaneTyped == Spec => []TypeOK
<1>1. Init => RingsBounded
    BY Numbers DEF Init, RingsBounded
<1>2. PlaneInv /\ RingsBounded => TypeOK
    <2> SUFFICES ASSUME PlaneInv, RingsBounded PROVE TypeOK
        OBVIOUS
    <2>1. ASSUME NEW s \in Shards PROVE Len(commands[s]) + Len(results[s]) <= 1
        <3>1. ASSUME NEW q, NEW r, NEW x, q = <<>>, r = <<x>>
              PROVE  Len(q) + Len(r) <= 1 /\ Len(r) + Len(q) <= 1
            <4>1. Len(q) = 0 /\ Len(r) = 1
                BY <3>1
            <4> QED BY <4>1
        <3> DEFINE Single(q) == \E x : q = <<x>>
        <3>2. Quiescent(s) \/ Pausing(s)
              \/ \E i \in Routers : s = Shard(i) /\ (Adding(i) \/ Removing(i))
            <4>1. owner.does \in {"idle"} \union LinkWork
                                   \union RouterCommand \union Barrier
                BY OwnerFields DEF PlaneInv
            <4>2. owner.does \in RouterCommand => owner.router \in Routers
                BY OwnerFields DEF PlaneInv
            <4>3. Protocol
                BY DEF PlaneInv
            <4> QED BY <4>1, <4>2, <4>3 DEF Protocol, LinkWork, Stopped, RouterCommand, Barrier
        <3>3. CASE Quiescent(s)
            <4>1. Len(commands[s]) = 0 /\ Len(results[s]) = 0
                BY <3>3 DEF Quiescent
            <4> QED BY <4>1
        <3>4. CASE Pausing(s)
            <4>1. \/ commands[s] = <<>> /\ Single(results[s])
                  \/ results[s] = <<>> /\ Single(commands[s])
                BY <3>4 DEF Pausing
            <4> QED BY <3>1, <4>1, Zenon
        <3>5. ASSUME NEW i \in Routers, s = Shard(i), Adding(i) \/ Removing(i)
              PROVE  Len(commands[s]) + Len(results[s]) <= 1
            <4>1. \/ commands[s] = <<>> /\ Single(results[s])
                  \/ results[s] = <<>> /\ Single(commands[s])
                BY <3>5 DEF Adding, Removing
            <4> QED BY <3>1, <4>1, Zenon
        <3> QED BY <3>2, <3>3, <3>4, <3>5
    <2>2. \A s \in Shards : Len(ingress[s]) <= RingFrames /\ Len(egress[s]) <= RingFrames
        BY DEF PlaneInv, ShardTypes, RingsBounded
    <2>3. \A i \in Routers : binding[i] = None \/ binding[i].port \in Port
        BY DEF PlaneInv, RegistryTypes, Binding
    <2>4. \A l \in Links : cable[l].generation \in Generations
        BY DEF PlaneInv, RegistryTypes, Cable
    <2> QED BY <2>1, <2>2, <2>3, <2>4
            DEF TypeOK, PlaneInv, RegistryTypes, ShardTypes, PortState
<1> QED BY <1>1, <1>2, NextBounded, PlaneInvariant, PTL DEF Spec
=============================================================================
