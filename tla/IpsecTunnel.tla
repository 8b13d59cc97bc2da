---------------------------- MODULE IpsecTunnel ----------------------------
(***************************************************************************)
(* The IPsec of one endpoint: the IKE SA (ikev2::Sa) on the control owner, *)
(* the security association database (Sad) on the forwarding owner, and    *)
(* ESP traffic through the associations.  IKE asks the forwarding owner to *)
(* install or erase a pair of associations and learns the result in a      *)
(* later message.  The peer's packets are lost, duplicated and reordered:  *)
(* whatever it has sent may arrive again at any time.                      *)
(*                                                                         *)
(* One IKE SA and one policy.  Child SA identifiers are never used again.  *)
(* AH processes sequence numbers and lifetimes in the same order as ESP.   *)
(***************************************************************************)
EXTENDS ReplayWindow, Sequences, FiniteSets, FiniteSetsExt

CONSTANTS Children,        \* child SA identifiers, 1 .. n
          MaximumChildren, \* maximum_child_sas
          SadCapacity,     \* associations the SAD has room for
          HardPackets,     \* hard_packets, 0 when there is no limit
          MaximumUnanswered, \* maximum_unanswered_requests
          Esn,             \* negotiated choices of extended sequence numbers
          MaxSent          \* bound: packets the peer sends altogether

ASSUME IpsecTunnelAssumption ==
  /\ Children \subseteq Nat \ {0} /\ IsFiniteSet(Children)
  /\ Esn \subseteq BOOLEAN
  /\ {MaximumChildren, SadCapacity, HardPackets, MaximumUnanswered,
      MaxSent} \subseteq Nat

VARIABLES
  state,       \* state_ of the IKE SA
  binding,     \* child_sas_: "none", "active" or "retiring"; "gone" once erased
  pending,     \* pending_child_install_ / pending_child_remove_, or NoRequest
  previous,    \* pending_remove_previous_state_
  unanswered,  \* unanswered_liveness_requests_
  idle,        \* the liveness deadline has passed
  requests, answers,  \* messages between the control and the forwarding owner
  sad,         \* entries_: [child, outbound]
  window,      \* child -> replay window of its inbound association
  packets,     \* child -> counters.packets of the inbound association
  current,     \* child -> outbound_sequence of the peer's association
  authentic    \* history: child -> sequence numbers that passed authentication

ike == <<state, binding, pending, previous, unanswered, idle>>
messages == <<requests, answers>>
traffic == <<window, packets, current, authentic>>
vars == <<ike, messages, sad, traffic>>

NoRequest == [op |-> "none", child |-> 0, replaces |-> 0, esn |-> FALSE]
Request == [op : {"none", "install", "remove"}, child : Children \union {0},
            replaces : Children \union {0}, esn : BOOLEAN]

Bound == {c \in Children : binding[c] \in {"active", "retiring"}}
Pair(c) == {[child |-> c, outbound |-> o] : o \in BOOLEAN}
HasInbound(c) == [child |-> c, outbound |-> FALSE] \in sad

Init ==
  /\ state = "created"
  /\ binding = [c \in Children |-> "none"]
  /\ pending = NoRequest /\ previous = "active"
  /\ unanswered = 0 /\ idle = FALSE
  /\ requests = <<>> /\ answers = <<>>
  /\ sad = {}
  /\ window = [c \in Children |-> EmptyWindow(FALSE)]
  /\ packets = [c \in Children |-> 0]
  /\ current = [c \in Children |-> 0]
  /\ authentic = [c \in Children |-> {}]

-----------------------------------------------------------------------------
(* The IKE SA. *)

IkeStep(from, to) ==
  /\ state = from
  /\ state' = to
  /\ UNCHANGED <<binding, pending, previous, messages, sad, traffic>>

BeginInitialExchange ==
  IkeStep("created", "initial_exchange") /\ idle' = FALSE /\ UNCHANGED unanswered

CompleteInitialExchange ==
  IkeStep("initial_exchange", "authenticating") /\ idle' = FALSE /\ UNCHANGED unanswered

CompleteAuthentication ==
  \/ IkeStep("authenticating", "established") /\ idle' = FALSE /\ unanswered' = 0
  \/ IkeStep("authenticating", "failed") /\ UNCHANGED <<idle, unanswered>>

\* The request is remembered and sent to the forwarding owner.
Ask(request) ==
  /\ pending' = request
  /\ requests' = Append(requests, request)

\* begin_child_install and begin_child_rekey (replaces # 0): a rekey may use
\* the one binding above the maximum.
BeginChildInstall(c, replaces, esn) ==
  /\ state = "established" /\ pending = NoRequest
  /\ binding[c] = "none" /\ \A d \in Children : d > c => binding[d] = "none"
  /\ IF replaces = 0 THEN Cardinality(Bound) < MaximumChildren
     ELSE /\ replaces # c /\ binding[replaces] = "active"
          /\ Cardinality(Bound) <= MaximumChildren
  /\ Ask([op |-> "install", child |-> c, replaces |-> replaces, esn |-> esn])
  /\ UNCHANGED <<state, binding, previous, unanswered, idle, answers, sad,
                 traffic>>

\* A slip in complete_child_install(): the result is not looked at.
CompleteChildInstallBlindly ==
  /\ answers # <<>> /\ Head(answers).op = "install"
  /\ answers' = Tail(answers)
  /\ binding' = [binding EXCEPT ![pending.child] = "active"]
  /\ pending' = NoRequest /\ unanswered' = 0 /\ idle' = FALSE
  /\ UNCHANGED <<state, previous, requests, sad, traffic>>

\* An answer that finds the IKE SA no longer established is dropped, its
\* request stays pending.
CompleteChildInstall ==
  LET answer == Head(answers)
      c == pending.child
  IN
  /\ answers # <<>> /\ answer.op = "install"
  /\ answers' = Tail(answers)
  /\ \/ /\ state # "established"
        /\ UNCHANGED <<binding, pending, unanswered, idle>>
     \/ /\ state = "established" /\ ~answer.ok
        /\ pending' = NoRequest
        /\ UNCHANGED <<binding, unanswered, idle>>
     \/ /\ state = "established" /\ answer.ok
        /\ binding' = [d \in Children |->
                         IF d = c THEN "active"
                         ELSE IF d = pending.replaces /\ d \in Bound
                              THEN "retiring" ELSE binding[d]]
        /\ pending' = NoRequest
        /\ unanswered' = 0 /\ idle' = FALSE
  /\ UNCHANGED <<state, previous, requests, sad, traffic>>

BeginChildDelete(c) ==
  /\ state \in {"established", "deleting"} /\ pending = NoRequest
  /\ c \in Bound
  /\ previous' = binding[c]
  /\ binding' = [binding EXCEPT ![c] = "retiring"]
  /\ Ask([op |-> "remove", child |-> c, replaces |-> 0, esn |-> FALSE])
  /\ UNCHANGED <<state, unanswered, idle, answers, sad, traffic>>

CompleteChildDelete ==
  LET answer == Head(answers) IN
  /\ answers # <<>> /\ answer.op = "remove"
  /\ state \in {"established", "deleting"}
  /\ answers' = Tail(answers)
  /\ binding' = [binding EXCEPT ![pending.child] =
                   IF answer.ok THEN "gone" ELSE previous]
  /\ pending' = NoRequest
  /\ UNCHANGED <<state, previous, unanswered, idle, requests, sad, traffic>>

BeginIkeDelete ==
  /\ pending = NoRequest
  /\ IkeStep("established", "deleting")
  /\ UNCHANGED <<idle, unanswered>>

\* A slip in complete_ike_delete(): the child SAs are not looked at.
CompleteIkeDeleteEarly ==
  /\ pending = NoRequest
  /\ IkeStep("deleting", "closed") /\ idle' = FALSE /\ unanswered' = 0

CompleteIkeDelete ==
  /\ Bound = {} /\ pending = NoRequest
  /\ IkeStep("deleting", "closed")
  /\ idle' = FALSE /\ unanswered' = 0

\* An authenticated IKE or ESP message of the peer.
NoteAuthenticatedActivity ==
  /\ state = "established"
  /\ idle' = FALSE /\ unanswered' = 0
  /\ UNCHANGED <<state, binding, pending, previous, messages, sad, traffic>>

IdleIntervalPasses ==
  /\ state = "established" /\ ~idle
  /\ idle' = TRUE
  /\ UNCHANGED <<state, binding, pending, previous, unanswered, messages, sad,
                 traffic>>

\* After too many unanswered requests the IKE SA is deleted, whatever is under
\* way.
PollLiveness ==
  /\ state = "established" /\ idle
  /\ IF unanswered >= MaximumUnanswered
     THEN state' = "deleting" /\ UNCHANGED <<unanswered, idle>>
     ELSE unanswered' = unanswered + 1 /\ idle' = FALSE /\ UNCHANGED state
  /\ UNCHANGED <<binding, pending, previous, messages, sad, traffic>>

-----------------------------------------------------------------------------
(* The forwarding owner. *)

Answer(request, ok) ==
  /\ requests' = Tail(requests)
  /\ answers' = Append(answers, [op |-> request.op, ok |-> ok])

\* A slip in install_pair(): the inbound half stays when the other is refused.
InstallPairHalf(request) ==
  LET room == SadCapacity - Cardinality(sad)
      half == [child |-> request.child, outbound |-> FALSE]
  IN /\ sad' = CASE room >= 2 -> sad \union Pair(request.child)
                 [] room = 1 -> sad \union {half}
                 [] OTHER -> sad
     /\ Answer(request, room >= 2)
     /\ window' = [window EXCEPT ![request.child] = EmptyWindow(request.esn)]
     /\ UNCHANGED <<ike, packets, current, authentic>>

\* Both associations with fresh counters, or the SAD as it was.
InstallPair(request) ==
  LET fits == Cardinality(sad \union Pair(request.child)) <= SadCapacity
  IN /\ sad' = IF fits THEN sad \union Pair(request.child) ELSE sad
     /\ Answer(request, fits)
     /\ window' = [window EXCEPT ![request.child] = EmptyWindow(request.esn)]
     /\ UNCHANGED <<ike, packets, current, authentic>>

\* The associations go with their counters.
ErasePair(request) ==
  LET c == request.child
      found == Pair(c) \subseteq sad
  IN /\ sad' = IF found THEN sad \ Pair(c) ELSE sad
     /\ Answer(request, found)
     /\ IF found
        THEN /\ window' = [window EXCEPT ![c] = EmptyWindow(FALSE)]
             /\ packets' = [packets EXCEPT ![c] = 0]
             /\ current' = [current EXCEPT ![c] = 0]
             /\ authentic' = [authentic EXCEPT ![c] = {}]
        ELSE UNCHANGED traffic
     /\ UNCHANGED ike

Forward ==
  /\ requests # <<>>
  /\ \/ Head(requests).op = "install" /\ InstallPair(Head(requests))
     \/ Head(requests).op = "remove" /\ ErasePair(Head(requests))

\* assess_sa_use: a packet that reaches the hard limit still passes.
HardExpired(count) == HardPackets # 0 /\ count >= HardPackets

\* protect_esp at the peer, whose lifetime has no limit; a packet its crypto
\* engine fails on uses up a sequence number like one that is lost.
PeerProtect(c) ==
  /\ HasInbound(c)
  /\ current[c] < Largest(window[c].esn)
  /\ MapThenSumSet(LAMBDA d : current[d], Children) < MaxSent
  /\ current' = [current EXCEPT ![c] = @ + 1]
  /\ UNCHANGED <<ike, messages, sad, window, packets, authentic>>

\* A slip in unprotect_esp(): the window moves before the packet is verified.
UnprotectEarly(c, s, selectorOk) ==
  /\ HasInbound(c)
  /\ \E candidate \in Admissible(window[c], Low(s)) :
       /\ CanCommit(window[c], candidate)
       /\ window' = [window EXCEPT ![c] = Commit(@, candidate)]
       /\ authentic' = IF candidate = s THEN [authentic EXCEPT ![c] = @ \union {s}]
                                        ELSE authentic
  /\ UNCHANGED <<ike, messages, sad, current, packets>>

\* unprotect_esp of packet s: the tag covers the whole sequence number, so it
\* verifies only if the reconstructed one is the one it was sent with.  The
\* window moves before the selectors and the lifetime are looked at.
Unprotect(c, s, selectorOk) ==
  /\ HasInbound(c)
  /\ s \in Admissible(window[c], Low(s)) /\ CanCommit(window[c], s)
  /\ window' = [window EXCEPT ![c] = Commit(@, s)]
  /\ authentic' = [authentic EXCEPT ![c] = @ \union {s}]
  /\ packets' = IF selectorOk /\ ~HardExpired(packets[c])
                THEN [packets EXCEPT ![c] = @ + 1] ELSE packets
  /\ UNCHANGED <<ike, messages, sad, current>>

Control ==
  \/ BeginInitialExchange \/ CompleteInitialExchange \/ CompleteAuthentication
  \/ \E c \in Children, r \in Children \union {0}, esn \in Esn :
       BeginChildInstall(c, r, esn)
  \/ CompleteChildInstall
  \/ (\E c \in Children : BeginChildDelete(c)) \/ CompleteChildDelete
  \/ BeginIkeDelete \/ CompleteIkeDelete
  \/ NoteAuthenticatedActivity \/ IdleIntervalPasses \/ PollLiveness

Traffic ==
  \E c \in Children :
     \/ PeerProtect(c)
     \/ \E s \in 1 .. current[c], ok \in BOOLEAN : Unprotect(c, s, ok)

Next == Control \/ Forward \/ Traffic

\* The owners finish what they began: answers are read, requests executed, and
\* an IKE SA under deletion has its child SAs removed one after the other.
Fairness ==
  /\ WF_vars(Forward) /\ WF_vars(CompleteChildInstall) /\ WF_vars(CompleteChildDelete)
  /\ WF_vars(state = "deleting" /\ \E c \in Children : BeginChildDelete(c))
  /\ WF_vars(CompleteIkeDelete)

Spec == Init /\ [][Next]_vars /\ Fairness

-----------------------------------------------------------------------------
(* Properties *)

\* Every part of the state has its type.
TypeOK ==
  /\ state \in {"created", "initial_exchange", "authenticating", "established",
                "deleting", "closed", "failed"}
  /\ binding \in [Children -> {"none", "active", "retiring", "gone"}]
  /\ pending \in Request /\ previous \in {"active", "retiring"}
  /\ unanswered \in 0 .. MaximumUnanswered /\ idle \in BOOLEAN
  /\ Len(requests) + Len(answers) <= 1
  /\ sad \subseteq [child : Children, outbound : BOOLEAN]
  /\ \A c \in Children :
       /\ window[c].esn \in BOOLEAN /\ window[c].highest \in 0 .. MaxSent
       /\ packets[c] \in 0 .. IF HardPackets = 0 THEN MaxSent ELSE HardPackets
       /\ current[c] \in 0 .. MaxSent
       /\ authentic[c] \subseteq 1 .. MaxSent

\* No packet is handed up twice, however often and in whatever order the
\* network repeats it, also across a wrap of the low word.
NoReplay ==
  [][ \A c \in Children :
        packets'[c] > packets[c] => authentic'[c] # authentic[c] ]_vars

\* A packet that arrives for the first time, in the window or ahead of it by
\* less than a word, is found admissible with the very sequence number it was
\* sent with, whatever was lost or reordered before.
FreshPacketAdmitted ==
  \A c \in Children : HasInbound(c) =>
    \A s \in (1 .. current[c]) \ authentic[c] :
      InReach(window[c], s) =>
        Admissible(window[c], Low(s)) = {s} /\ CanCommit(window[c], s)

\* The window is the exact summary of the packets authenticated so far, and is
\* one that restore() accepts, so that a checkpoint can be taken at any time.
WindowSummarises ==
  \A c \in Children : HasInbound(c) =>
    /\ \A s \in authentic[c] : s <= window[c].highest
    /\ window[c].bitmap = {d \in Distances : window[c].highest - d \in authentic[c]}
    /\ Restorable(window[c])

\* A child SA is in the SAD with both directions or not at all.
SadHoldsWholePairs == \A c \in Children : Pair(c) \cap sad \in {{}, Pair(c)}

\* IKE never believes in a pair the forwarding owner does not have, unless its
\* removal is under way; it stays within the rekey headroom.
BindingsInstalled ==
  /\ \A c \in Bound : pending.child # c => Pair(c) \subseteq sad
  /\ Cardinality(Bound) <= MaximumChildren + 1

\* "Key ownership is released only after no binding or transaction remains":
\* a closed IKE SA leaves no association behind in the SAD and no request.
ClosedLeavesNothing == state = "closed" => sad = {} /\ requests = <<>>

\* "IKE SA deletion first blocks new CHILD creation, then drains every owned
\* forwarding pair through the same acknowledged delete path."
DeletionDrains == state = "deleting" ~> state = "closed"
=============================================================================
