# A TLA+ specification of Router-Simulator

Router-Simulator runs a laboratory of virtual routers, hosts and switches in the
browser.  The core is C++20 compiled to WebAssembly with pthreads; a React
application talks to it through a Worker.  This directory specifies the parts of
the core where threads, terminals, datastores and protocol peers interact,
model-checks them with TLC and proves the central results with TLAPS.

## 1. Inventory

| Part | State it keeps | Operations | Interacts with |
|---|---|---|---|
| Candidate workflows (`session_workflows.cpp`) | per session: mode, base generation, private change set; per router: running generation, global baseline, global change set, revision table | enter, leave, transition, record_edit, commit, discard, classic_write, close, close_device, checkpoint/restore | `SessionRegistry` (slots and modes), `LabRuntime` (values) |
| Datastores (`lab_runtime.cpp`) | running configuration, global candidate, private candidate and policy candidate per session | session create/close, mode changes, MD edits, commit, discard, classic commands, policy transactions, router deletion | workflow controller for permission, supervisor for checkpoints |
| Ring (`spsc_ring.hpp`) | slots, head, tail | push, pop, erasing pop, preflight | every pair of threads |
| Slot channels (`ospf_packet_channel.hpp`, `ospf_route_channel.hpp`) | slots, stack of free handles, two rings | send or acquire/publish/cancel, receive, release, reclaim | OSPF worker, forwarding shards, network owner |
| Secondary control worker (`control_projection_worker.cpp`) | two rings, stop flag, thread id, mutex and condition | submit, read, run, destroy | `LabRuntime` telemetry |
| OSPF worker (`ospf_control_worker.cpp`) | processes of each router, generations, publication flags | commands, receive, run processes, publish routes, sleep | network owner through rings and channels |
| Network owner (`network_plane_worker.cpp`, `network_plane.cpp`) | packet plane, route managers | commands, pump, sleep | control owner, OSPF worker, forwarding shards |
| Forwarding shards (`network_plane.cpp`) | per shard: command, result, ingress and egress ring, forwarders, pause and resume flags | add, remove, pause, resume, ingress, egress, maintenance | network owner, fabric |
| Registries, supervisor (`lab_registry.cpp`, `runtime_supervisor*.cpp`) | generation-checked slots of devices, hosts, switches, links, sessions; carrier and signal | create, delete, rewire, set admin state, dispatch to the network owner | everything on the control shard |
| Checkpoints, memory growth | staged state, growth phase | barrier, capture, restore, reserve | all owners |
| OSPF protocol (`ospf_process*.cpp`, `ospf_fsm.cpp`, `ospf_lsdb.cpp`, `ospf_database_exchange.cpp`) | neighbour states, summary, request and retransmission lists, link-state database, timers | receive, run_ready, originate, reset | neighbours over the fabric, OSPF worker |
| DHCP failover (`dhcpv4_failover.cpp`, `dhcpv6_failover.cpp`, `router_forwarder.cpp`) | endpoint state, session phase, pending messages, synchronisation cursor | connect, receive, service, synchronise, close | partner over TCP |
| IPsec, IKE (`ipsec_*.cpp`, `ikev2_sa.cpp`) | replay window, association pairs, counters, IKE state, child bindings, pending request | protect, unprotect, install, erase, rekey, delete, liveness | IKE on the control owner, SAD on the forwarding owner |
| DHCP clients and servers, DNS(SEC), IP, TCP/QUIC, TLS | leases, caches, connections | packets, timers | inside one owner thread each |
| CLI, web application, contracts | prompts, presentation, message types | parsing, rendering, validation | control owner |

What is hard to test here: the interleavings of two threads around a ring, a
condition variable or a borrowed slot; two or more terminals that commit, lock,
discard and disconnect in an unplanned order; backpressure when a ring or a
channel is full at the moment something must not be lost; a wake-up nobody sends;
a slot that is reused while somebody holds its old handle; a connection, packet or
router that is lost in the middle of a negotiation; and an answer that arrives after
its asker has moved on.  `PROJECT.json` lists each of these hazards at its line with
the property that would catch it, and the ones no property covers, with the reason.

## 2. Modules

### SessionWorkflows
One router's candidate arbitration.  All calls run on the control shard, so a call
is one atomic step; a refused call changes nothing and is a stuttering step.  The
variables carry the names of the code's fields: `mode` and `base` are
`SessionRecord::mode` and `base_generation` ("closed" is a free slot), `changes`
the private `ChangeSet`, `running`, `globalBaseline`, `globalKeys` and `revisions`
the fields of `RouterCandidates` (revision 0: the key has no entry).  A change set
is a set of keys because `ChangeSet::add` ignores a repeated key and the order is
never read.  Each public call is an action: `Enter`, `Leave`, `Transition`,
`RecordEdit`, `CommitPrivate`/`CommitGlobal` (two branches of `commit`),
`ClassicWrite`, `Discard`, `Close`, `CloseDevice`.  `since` and `globalSince` are
history variables, in no guard: the keys other owners committed since a baseline
was taken.  They give the revision table a reference to be compared with.

`router()` re-initialises a slot lazily when its device generation changed, and
`close_device` clears it; both together are `CloseDevice`, which goes to
`FreshRouter` at once.  The 64-bit generation is bounded by `MaxRunning` in
`CanApply`.

### CandidateDatastores (extends SessionWorkflows)
The values the controller arbitrates.  A configuration (`ConfigurationIntent`) is a
function from keys to values.  Each action is one command with everything it
changes: the controller call and the copies `LabRuntime` makes around it.
`running_configuration` and `apply_configuration` copy all fields, so they are the
assignment of a whole function.  A command that fails validation is rolled back from
the checkpoint taken before it, a stuttering step.  The confirmation dialogue of the
CLI determines the discard flags: a leave always passes `true`, a transition passes
`true` exactly when the exclusive candidate is dirty.  A terminal that is created
directly in a configuration mode is `SessionCreate` followed by `EnterMode`.
`DirectWrite` is what the web client does without a terminal: its operations on names,
cards, ports, interfaces and routes, and the replacement of a whole configuration, write
running and touch neither the controller nor a candidate.

### BoundedFifo, SpscRing
`BoundedFifo` is the abstract channel: a queue of bounded length and the last value
received.  `SpscRing` splits `try_push` and `try_pop` where they touch shared
memory: the load of the other index, the copy of the slot (a begin and an end,
between which a reader would see `Nothing`), the erasure, the store of the own
index.  The acquire/release pairs of the code order slot bytes with indices, so
interleavings of these steps are what the two threads can see.  The refinement maps
the ring to the sequence of published values; the linearisation point of a push is
the store of `head`, that of a pop the store of `tail`.

### HandleChannel
`PacketChannel` and `RouteGenerationChannel` differ only in who copies the payload:
`try_send` acquires, writes and publishes in one call, the route channel exposes the
steps.  Its rings are the FIFOs SpscRing implements.  `Publish` also stands for
the cancel that follows a refused `publish`.  `loan` records what the consumer saw in
a slot it borrows, and is the reference for immutability.

### ControlProjectionWorker
The worker thread and the control owner.  A wait is predicate with the mutex held,
park, sleep; a notify is lock and unlock, then wake.  Spurious wake-ups are allowed.
`StartupRace = TRUE` lets the thread run before the members declared after `thread_`
are initialised: C++ initialises members in declaration order and the thread is one
of the first.  With `FALSE` the thread starts after the constructor, which is the
common schedule and the one the other properties are about.

### OspfRoutePublication (instantiates HandleChannel)
The OSPF worker and the network owner around the two-slot route channel.  A route
set is abstracted to a version number per router.  The worker's turn clears
`work_pending_`, takes commands, runs processes, walks over the routers, publishes,
and sleeps until a notify or, if some process exists, its next deadline.  A route set
in `Oversized` does not fit its slot: the worker has then used a generation number and
cancels the slot it acquired (`SkipNumber`, `Overflow`).  The network
owner answers a command or a wake-up, may reconfigure OSPF (`execute_ospf` submits
and polls), then pumps: it borrows, installs and releases until the channel is empty.
A notify is one step here; ControlProjectionWorker shows the same code in small
steps.  The channel is not abstracted: its variables are HandleChannel's, and
`ChannelProtocol` says that what the two threads do to it is a behaviour of
HandleChannel's specification, so HandleChannel's properties are checked in the place
where the code uses it.  A rebuild of the forwarding tables always succeeds, and
routers are not deleted.

### DhcpFailover
A primary and a secondary server, each with its `Endpoint` (the state machine of
`evaluate`, in the versions of DHCPv4 and DHCPv6), its `Session` (negotiation,
pending messages, keepalive) and the owner that drives both from
`service_dhcp_failover`.  A node is a record of these fields.  The pieces of the
owner's turn are separate actions in any order, so every turn of the code is covered
and more; `Read` takes one message of the read loop and dispatches it (`reading` names
the server that is in the loop, and nothing else happens until its turn ends), and
`Transmit` is the rest of the turn: a synchronisation step, the next pending message,
and the write of what fits.  TCP is external: an ordered stream that
may be closed at any time (`Lose`), a listener with one pending connection.  Bindings
are a set; a synchronisation sends them one by one and waits for each
acknowledgement.  Deadlines are kept as the time that remains and run down in `Tick`.
`got` and `escaped` are history variables: what a server received since it asked for
a full update, and whether it ever left through a timer instead.

### ReplayWindow, IpsecTunnel
ReplayWindow is the pure algorithm: a window is a record of its highest number and
the set of bit positions, `Reconstruct` follows the code's two cases for extended
sequence numbers, with the word size and the width as parameters.  IpsecTunnel uses it
in one endpoint: the IKE SA with its child bindings and its one pending request, the
SAD with its capacity on the other side of two message queues, and the traffic of the
peer, which is lost, or arrives late, twice or out of order.  `current` is what the
peer has sent; the history variable `authentic` holds the numbers that passed
authentication, and is the reference for the window.

### OspfAdjacency
Two routers on a point-to-point link.  A process is a record: the neighbour with its
summary, request, retransmission and acknowledgement lists, the database as a
generation per LSA, and what is due.  `Handle` is `receive_validated`, one packet at a
time, with the parts for hello, description, request, update and acknowledgement;
`RunReady` is the whole owner turn with everything it emits.  A timer is idle, armed
or pending; `Elapse` lets armed timers pass once the link is quiet, since the
retransmit interval is longer than a round trip.  Faults (`Lose`, `Expire`,
`ResetDatabase`, `Restart`) are bounded by `MaxFaults`.  Whether MinLSArrival has
passed is a choice.  The counter of description numbers starts at 0 in every new
process, which is one of the values the code may draw at random: a restart in the model
always repeats its numbers, one in the code only by chance.

### ForwardingShards
The packet plane with its shard threads, composed with the registries, the supervisor
and the hardware inventory that change it.  Supervisor and network thread are one
owner, because dispatch is synchronous, in the steps between which frames or shards
can move: a command is submitted, awaited, and its answer applied to the other
registry.  `deactivate()` and `reconcile()` are five stages: the control thread
withdraws carrier and signals (`Withdraw`), the network thread removes the medium
(`RemoveMedium`), and then either configures the cable again (`ConfigureLink`), after
which the control thread reports carrier (`ReportCarrier`), or the cable is erased
(`EraseLink`).  Frames move between any two of them.  `Compatible` has the refusals of
`reconcile()`: an end without live equipment, two rates, a rate other than the cable's
own.  `Configurable` and `Removable` have those of the plane, and the caller goes on
after a refusal exactly as the code does, ignoring the one of `remove_link`.  A speed of
zero occurs in the code only on cables between two hosts.  Equipment is
removed, inserted or replaced in one edit (`SwapHardware`), and a port is configured to
a rate its equipment supports (`ConfigurePort`).  `present` stands for the two
conditions of `resolve()`, presence and a compatible rate.  The model starts with a restored laboratory in
which `SavedLinks` are up.  A shard handles ingress, takes a command, acknowledges, waits while
paused, and runs maintenance, in the order of `ForwardingShardWorker::run`.  Slots have
generations that wrap past zero like the code's 32 bit ones; frames carry the
handle of their sender, so a reused slot can be told from its predecessor.  Deletion
of a router goes through the pause barrier of `replace_ospf_generation`, as does a
checkpoint.  The last drain of the barrier (`FinalDrain`) takes the frames one by one,
shard after shard, at most `WorkBudget` of each, as `drain_forwarding_egress` does.

## 3. Runs

| Run | Bounds | Shows |
|---|---|---|
| datastores | 2 sessions, 2 keys, 2 values, room for 1 key per session and router, all modes, classic commands, direct writes of one path, 1 policy transaction at a time, generations to 3 | exact conflict detection, running generation and, among terminals, running values locked by an exclusive session, a dirty shared candidate keeps its values |
| spsc_ring | 4 slots, 3 values, erasing pops | race freedom, preflight, nothing left in released slots, refinement of a FIFO |
| projection_worker | rings of 2, 6 commands | no lost wake-up, order, answers, shutdown |
| route_publication | 2 routers, 2 slots, versions to 2, one of them oversized | acknowledgements, increasing generations, delivery; ownership and immutability of slots, FIFO, and use of the channel by its protocol |
| dhcp_failover | both versions, 2 connections, 1 binding, every period 1, identifiers to 3, 6 pending messages | communication only after negotiation, service only after a full update, UPDATE-DONE answers the request of this connection, pending queue never full |
| ipsec_tunnel | 3 children of which 2 at a time, SAD for 5 associations, words of 4, window of 2, 4 packets, with and without extended numbers | no replay, no fresh packet refused, the window summarises what was accepted, whole pairs, bindings installed, closing leaves nothing |
| ospf_adjacency | 2 routers, 1 further LSA, 1 header per description, 1 fault | no turn rejected, who waits has a timer, Full has everything described; recovery and end of loading |
| forwarding_shards | 2 slots, 1 cable, 2 shards, rings of 1, 2 frames, 2 rates, 3 edits of a laboratory with the cable up, generations to 3 | no misdelivery, complete barrier, agreeing registries, reciprocal bindings, truthful carrier |
| stale_commit, withdrawal_stalls, dd_sequence_reuse, lost_resume | the modes, routers, faults (two) and shards each needs | the disagreements of section 6 |

Why the bounds are enough for the interesting cases.  Two sessions are an owner and a
rival; two keys against room for one fill the change sets and the revision table, and
generations to 3 allow one commit that a baseline saw and one that it missed.  A third
session adds nothing to the pairwise checks of the controller, and the theorems hold for
any number.  Four slots let the ring wrap in every position with several values inside;
the plain pop is the same call without its erasure and is covered by the theorems, which
hold for both.  Six commands exceed the five places a command can be in (two rings of
two and the worker), so both rings fill.  Two routers with two versions each fill the
two route slots; three are needed in `withdrawal_stalls`, one more than the slots.  Two
connections are the least for a reconnect with state of the first; identifiers to 3
wrap; the pending queue has six entries, the least that `FailoverConstants` allows and
fewer than the 16 of `pending_`: it holds at most one message of each of five types, so
it is never full.  Words of 4 with a window of 2 have every position of the window
relative to the edge of a subspace; a SAD for five associations is full in the middle of
a third pair.  One header per description makes the exchange take several descriptions;
one fault at any point is the difference between the happy path and recovery; the
invariants of that run were also checked with up to three faults, without the further
LSA, and two faults are what `dd_sequence_reuse` needs.  Rings of one entry are full at once, which is
where frames are dropped; all slots start with the last generation, so the first reuse
wraps.  Since the cable is up at the start, three edits are enough to delete, make again
and break it, or to delete a router, put another one in its slot and cable it.
The code's rings have 64 entries (`forwarding_ring_frames`), of which 63 can be used,
and its pump a budget of 64 frames (`fabric_work_budget_frames`): the last drain of the
barrier is complete only because the budget is not below the ring, which is the
assumption `DrainEmptiesRing`. Sessions are interchangeable, so symmetry is used in the
safety run of the datastores (its action properties do not distinguish them) and in no
liveness run. Deadlock is checked except where the system may rightly stop: an idle
laboratory sleeps without a deadline, a closed tunnel and a bounded number of edits end.

Each module also states its types (`TypeOK`).  Type correctness and the invariants that
only support others (`AtMostOneExclusive`, `GenerationsBehindRunning`,
`CleanBaselineIsRunning`) are proved where a module has proofs and are not repeated in
the runs: `ConflictDetectionExact` and `RunningLockedByExclusive` already fail when one
of the latter does.

Every property of a passing run has a mutant, a plausible slip in the modelled code defined next to
the definition it would replace, under which TLC finds the property violated.

## 4. Fairness

Threads that can run do run: weak fairness of each thread's steps, since pthreads
are scheduled by the browser and yield in every wait and poll loop.  A mutex the
other side frees again and again is granted in the end: strong fairness of taking
it.  The control owner polls `read()` until its answer comes
(`lab_runtime.cpp:26764`).  A condition variable is fair only in that a notified
sleeper runs; spurious wake-ups, submissions, configurations, frames and route
changes have no fairness.  The deadline of an OSPF process passes in the end because
a process always has a next one (hello, refresh).

In OspfAdjacency the owner loop runs what is due (weak fairness of receiving and of
`run_ready`), and time passes: `Elapse` is strongly fair, because it waits for a quiet
link, which the owners bring about again and again.  Faults and new LSAs have no
fairness.  In ForwardingShards the owner goes on with a command it has begun and each
shard thread runs; edits and frames have no fairness.  In IpsecTunnel the
forwarding owner answers and IKE takes the answers.

## 5. Proofs

The theorems hold for every value of the constants that satisfies the named
assumptions; TLC evaluates those in every run.

* **CandidateDatastoresProofs.**  First the controller alone: the inductive invariant is
  the conjunction of the five state properties; none of the deeper ones is inductive
  alone.  Exactness of conflict detection needs that no stored generation is ahead of
  `running` (a key committed now gets a revision above every baseline) and that a clean
  global baseline follows `running` (the first edit of a clean candidate may then reset
  its history). `RunningLockedByExclusive` follows from the single owner. Then the
  composition: `DatastoresImplementWorkflows` shows that every command of the runtime
  is, on the controller's variables, a step of SessionWorkflows or a stutter.  All
  results above therefore hold of the composition, and the proofs of the values use
  them: `ValuesLocked` rests on the single exclusive owner and holds of every step that is
  not a direct write, `DirtyCandidateKept` on the
  invariant `SharedInitialised` (whoever works on the shared candidate, or has left
  changes in it, has initialised it), which makes the copy of running on entry harmless.
* **SpscRingProofs.**  The inductive invariant relates indices and program counters:
  while the producer copies there is a free slot, while the consumer copies there is
  a published value, so their slots differ; published slots hold values; the credit
  is at most the free space; unpublished slots are empty if the ring erases.  The
  argument is arithmetic modulo the capacity (`CountFacts`, `CountPush`,
  `CountPop`).  `Refinement` shows with `ContentsKept`, `AppendIs` and `TailIs` that
  every step is an enqueue, a dequeue or a stutter of `BoundedFifo`.
* **ControlProjectionWorkerProofs.**  The invariant behind `NoLostWakeup` says that a
  parked worker (mutex held) has seen a predicate that can only have become true by a
  caller that is still before its lock.  It also covers the startup race.
  `NothingLostOrReordered` adds that results, the command in hand and commands, read in
  this order, are the span of numbers between the last one read and the next one
  submitted (`OrderInv`); each step moves a border of that span or a number across the
  hand of the worker.
* **OspfRoutePublicationProofs.**  First the channel by itself: every handle is in
  exactly one of the free stack, the producer's hand, the two rings and the loans
  (`ChannelInv`), so the rings have room whenever a handle is returned, and the contents
  of the ready ring are a FIFO (`FifoStep`).  Then the two threads: their program
  counters say which channel operation comes next (`PublicationInv`), so every step is a
  channel step or a stutter (`PublicationKeepsProtocol`), and HandleChannel's results
  hold in the composition.  `FlightInv` is about what is under way, the borrowed
  generation followed by the contents: numbers increase along it, and its last entry for
  a router that is not dirty holds the router's routes.
* **IpsecTunnelProofs.**  `ReplayWindow` first: `Reconstruct` gives back the number a
  packet was sent with whenever the number is within reach of the window
  (`SubspaceOf`), and `Commit` keeps the window the summary of what was accepted
  (`CommitSummary`).  The invariant then relates IKE and SAD through the one request
  that may be under way (`Exchange`: asked, answered, or dropped because the IKE SA
  is no longer established),
  and says which associations the bindings and that request account for (`Cover`).
* **ForwardingShardsProofs.**  The inductive invariant `PlaneInv` has a part for each
  kind of agreement.  `Protocol` gives, for each point of the owner's operation, what is
  in the command and result ring of every shard; the barrier is built up in it shard by
  shard, and the drain is complete because a ring holds no more than the budget
  (`DrainEmptiesRing`).  `Agreement` compares registry, mirror and forwarder of every
  router except the one a command is under way for.  `Cabling` says that two cables
  share no router, `Media` that media and bindings match in both directions.  `Stages`
  gives for each stage of an edit what carrier, signal and medium of its cable are; it is
  here that the order of withdrawal, removal, programming and report is used, and that
  the refusals of the plane turn out to leave nothing behind: a medium of the cable's
  generation is always removable.  `Settled` is what `CarrierTruthful` says of the other
  cables, `Signals` the same for ports.  `Frames` says that a frame on a medium or in an ingress ring is for
  the router it is addressed to.  The results hold for any number of routers, cables and
  shards, any ring size, and generations that wrap at any value.  `ProcessingResumes` is
  no part of it: `lost_resume` refutes it.
* **DhcpFailoverProofs.**  The inductive invariant follows one request for a full update:
  it is pending or written at the server that asks, on its way, owed or answered at the
  partner, or answered and on its way back, never in two of these places and always with
  the identifier the asking session remembers (`OneRequest`).  Its counterpart for the
  data says that what the partner no longer has to send was received (`Transferred`),
  which is why an UPDATE-DONE means a full update.  The hard part is what survives a
  connection: a message prepared for the old one goes first over the new one.  `Begin`
  says that either none of those is left (`Gone`), or the partner has not negotiated and
  will close on reading it (`Stale`).  `Queue` bounds the pending messages, one of each
  of five types, which needs the assumption `PendingCapacity > 5` of
  `FailoverConstants` (16 in the code).  The invariant is stated over two sessions and
  two streams, `Core(m, p, mq, pq, joined, waiting)`, so that receiving, synchronising,
  preparing and writing are separate lemmas that the actions chain.  TLC checked it on
  the instance of `dhcp_failover` first.
* **OspfAdjacencyProofs.**  `Base` is typing, together with what the owner turn needs to
  encode an update: one retransmission for each key, none newer than the database.  It
  needs no hypothesis and holds for any number of faults, any LSAs from elsewhere and any
  size of a description.  That the summary list is a sequence of LSAs is an argument about
  cardinalities (`SortedPlaces`: the place of a record is the number of records up to it,
  so every place is taken) and not an induction.  `Orderly` says which timers run in which
  state and which lists are empty; `TurnNeverRejected` and `NothingForgotten` follow from
  it.  Every step keeps it except the branch for a bad request, which `dd_sequence_reuse`
  reaches; section 6 says what the branch leaves behind.

  The last part shows when the branch is not taken and proves `FullHasDescribed`.  `Accounted` is
  about one router: of what was described to it, it has each LSA, or a fight-back in
  hand, or a request open, and no request is open for anything else.  An update that
  answers a request with an older instance would break it, and so would a router asked
  for what it never described; `Flow` excludes both.  It is about one direction of the
  link: the sender still has what it described and what it is about to describe, an update
  is at least as new as every description that arrived or goes before it on the link, and
  what is asked for exists.  The order of the link is used in two lemmas, `FlowTaken` (the
  description at the head becomes part of what was described) and `FlowSent` (a turn sends
  only what is true to its database, `TrueTo`).  `Flow` breaks when a router loses its
  database while its neighbour works with what it described, so the hypothesis of
  `RequestsAnswered`, `FullMeansSynchronized` and `TurnsAndTimers` is `ForgottenUnseen`: a database shrinks
  only while the neighbour has no header of it, none is on the link and no request is on
  its way (`Unused`).  A restart before the first description, or after the neighbour has
  ended the adjacency, is of this kind; a restart while the neighbour is Full is not.
  Losses, expiries, originations and LSAs from elsewhere shrink no database
  (`NextGrows`), so `LossAndExpiryHarmless` needs only that no router restarts or resets
  its database.  TLC checked the invariant under `ForgottenUnseen` first, with two
  faults: completely without the further LSA (850,000 states), and without a violation
  in 8 million states with it.

Only model-checked: liveness (`EveryCommandAnswered`, `DestructorReturns`,
`RoutesReachManagerByDeadline`, `AdjacencyRecovers`, `LoadingEnds`), which the prover
does not support; the bounds on sent packets in IpsecTunnel's `TypeOK`, a sum over a
set and so an induction; and, of OspfAdjacency, what its invariants say of a router that
restarts or resets its database while its neighbour still works with what it described:
`ospf_adjacency` checks that for one fault.

## 6. Disagreements between code and its documentation

1. `stale_commit`: a private commit installs its complete snapshot, so paths
   others committed since return to old values without a conflict.
2. The same property, `CommitInstallsOnlyEdits`, with `Modes = {"global", "exclusive"}`:
   leaving exclusive mode discards the keys but not the values of the shared candidate; a
   later commit of the clean candidate installs them.
3. `RunningValuesLocked` of `datastores`: the documentation speaks of a single writer in
   exclusive mode, and the property says so of terminals only.  The operations of
   `DirectWrite` ask for no lock; without their exception the property is violated.
4. `withdrawal_stalls`: releasing a route slot does not notify the OSPF worker; the
   withdrawal of the last process may stay unpublished after backpressure.
5. `dd_sequence_reuse`: a new exchange takes `++next_dd_sequence_`
   (`ospf_process_output.cpp:245`), but within an exchange the number goes up with each
   description, so the new exchange can begin with a number the slave still uses.  Its old
   description is then taken for an answer, and it requests an LSA that the master, after
   a reset, no longer has: the branch for a bad request.  This branch
   (`ospf_process_origination.cpp:1221`) begins a new exchange but, unlike
   `apply_neighbor_actions`, keeps timers, lists and `complete_after_reply` of the old
   one, and the entries of the request before the unknown one stay queued although no
   update is due.
6. `lost_resume`: a shard clears its resume flag after it has acknowledged the pause,
   and can overwrite the resume of the network owner.

The `findings` of `PROJECT.json` describe each counterexample and quote the lines.

Observations made while modelling, without a run of their own.  Where a formula is
named it is in the module and TLC shows it violated.

* `ExclusiveExcludesGlobal` (SessionWorkflows): `transition()` looks at the other
  sessions only when the target is exclusive, so a read-only session moves to global
  while another one is exclusive (`session_workflows.cpp:224`, against the comment at
  line 155).
* `ThreadIdPublished` (ControlProjectionWorker, `StartupRace = TRUE`): the thread is a
  member declared before the members it uses (`control_projection_worker.hpp:88`), so
  its published identity can be overwritten by their initialisation.
* Failover: `communication_changed` sets the contact deadline and no message moves it,
  so an established pair falls back after the response delay.  `Session::service` runs
  before the read in the owner's turn and may drop a session whose answer has already
  arrived.  It returns early while disconnected, so the timed escapes of the endpoint
  are then not evaluated.
* `DeletionDrains` (IpsecTunnel): liveness moves the IKE SA to deleting while an
  install is in flight; `complete_child_install` refuses the answer, the request stays
  pending and the deletions that follow are refused.  The IKE SA and the SAD are not
  wired to the forwarder yet.
* `AcknowledgedIsDelivered` (OspfAdjacency): an instance that comes within
  MinLSArrival is not installed (`ospf_lsdb.cpp:285`) but acknowledged.
* `AdjacencySurvivesLoss` (OspfAdjacency): when the last description of the slave is
  lost, the master stays in Exchange until the neighbour expires or restarts.
* Supervisor: a `delete_router` that the network owner refuses leaves the router
  registered, quiescing and without its cables; `deactivate()` ignores a refused removal
  and `delete_link` erases the cable all the same, which would leave a medium behind.
  For cables between routers the proof shows that no such refusal occurs.  The generation check of ingress frames is
  a second line of defence: the barrier of `remove_router` has emptied the rings
  before a slot can be reused.

## 7. Plan

Modelled first because everything depends on it: datastores, rings, channels,
worker hand-off and route publication; then the protocols with a peer (failover,
IPsec, OSPF) and the packet plane with its registries.  Next:

1. Proofs: `FullHasDescribed` of OspfAdjacency after a restart in the middle of an
   exchange, which needs an invariant about the description numbers of the exchanges in
   flight and a bound on the faults.
2. The route manager with its rebuild and fallback, composed with route publication.
3. Leases of the DHCP servers under the failover states; the neighbour cache and
   duplicate address detection; the TCP connection; designated router election.
4. The staged restore of all owners, with memory growth.

## 8. Not modelled

The repository has about 190,000 lines; the modules translate about 5,800 of them, 3 per
cent, so nothing here speaks for the program as a whole.  Most of the rest transforms
data inside one thread and has no interleavings: packet and checkpoint formats, parsers
and encoders, the command line and its generated schema, configuration of each service
field by field, cryptography, telemetry, the user interface.  A model of it would repeat
it, and unit tests reach it well.  What is left of the parts with control of their own
is listed in the plan, and each component of `PROJECT.json` names what its modules leave
out.  The largest omissions are

* hosts, switches and the management port in the packet plane: a cable that ends at one
  of them adds steps that can fail to `configure_link` and `remove_link` (their link
  signals and port profiles), with the rollbacks of these steps;
* the contents of forwarding: lookup, neighbour resolution, fragmentation, filters;
* OSPF areas, ageing, election, shortest paths and authentication;
* the DHCP servers and clients, DNS, TCP, TLS and QUIC;
* the binary checkpoint and the restore of the single owners from it.
