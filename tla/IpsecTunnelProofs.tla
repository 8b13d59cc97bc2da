------------------------- MODULE IpsecTunnelProofs -------------------------
(***************************************************************************)
(* The tunnel for words, windows and capacities of every size: no packet   *)
(* is handed up twice, a fresh one in reach of the window is admitted with *)
(* its own sequence number, and the IKE SA and the SAD agree about which   *)
(* pairs exist.                                                            *)
(***************************************************************************)
EXTENDS IpsecTunnel, FiniteSetTheorems, TLAPS

-----------------------------------------------------------------------------
(* Sequence numbers and their words.                                       *)

\* A number is its high part and its low word.
LEMMA Words ==
    ASSUME NEW s \in Nat, NEW W \in Nat \ {0}
    PROVE  /\ s \div W \in Nat /\ s % W \in 0 .. W - 1
           /\ s = (s \div W) * W + (s % W)
OBVIOUS

\* Of two multiples of a word, the difference in words shows in the difference.
LEMMA WordOrder ==
    ASSUME NEW p \in Int, NEW q \in Int, NEW W \in Nat \ {0}, p < q
    PROVE  p * W + W <= q * W
<1>1. q - p >= 1 /\ q - p \in Int
    OBVIOUS
<1>2. (q - p) * W >= W
    BY <1>1
<1> QED BY <1>2

\* A number within a word after the window's end is in the word that
\* reconstruct() takes its low word to be of.
LEMMA SubspaceOf ==
    ASSUME NEW highest \in Nat, NEW s \in Nat,
           s > highest - Width, s <= highest - Width + WordSize
    PROVE  Subspace(highest, Low(s)) = s \div WordSize
<1> DEFINE W == WordSize
           behind == Width - 1
           H == highest \div W
           hl == highest % W
           q == s \div W
           l == s % W
<1>1. W \in Nat \ {0} /\ behind \in Nat /\ 2 * behind < W
    BY ReplayWindowAssumption
<1>2. /\ H \in Nat /\ hl \in 0 .. W - 1 /\ highest = H * W + hl
      /\ q \in Nat /\ l \in 0 .. W - 1 /\ s = q * W + l
    BY <1>1, Words
<1>3. s >= highest - behind /\ s <= highest - behind + W - 1
    BY ReplayWindowAssumption
<1>4. Subspace(highest, Low(s)) =
         CASE hl < behind /\ l >= W - (behind - hl) -> H - 1
           [] hl >= behind /\ l < hl - behind -> H + 1
           [] OTHER -> H
    BY DEF Subspace, Low
<1> SUFFICES Subspace(highest, Low(s)) = q
    OBVIOUS
<1> HIDE DEF W, behind, H, hl, q, l
<1>5. \A p, r \in Int : p < r => p * W + W <= r * W
    BY <1>1, WordOrder
<1>6. CASE hl < behind /\ l >= W - (behind - hl)
    <2>1. ~(q > H - 1)
        <3> SUFFICES ASSUME q > H - 1 PROVE FALSE
            OBVIOUS
        <3>1. H * W <= q * W
            BY <1>1, <1>2, <1>5
        <3> QED BY <1>1, <1>2, <1>3, <1>6, <3>1
    <2>2. ~(q < H - 1)
        <3> SUFFICES ASSUME q < H - 1 PROVE FALSE
            OBVIOUS
        <3>1. q * W + W <= (H - 1) * W
            BY <1>1, <1>2, <1>5
        <3>2. (H - 1) * W = H * W - W
            BY <1>1, <1>2
        <3> QED BY <1>1, <1>2, <1>3, <1>6, <3>1, <3>2
    <2>3. q = H - 1
        BY <1>2, <2>1, <2>2
    <2>4. Subspace(highest, Low(s)) = H - 1
        <3>1. ~(hl >= behind /\ l < hl - behind)
            BY <1>1, <1>2, <1>6
        <3> QED BY <1>4, <1>6, <3>1
    <2> QED BY <2>3, <2>4
<1>7. CASE hl >= behind /\ l < hl - behind
    <2>1. ~(q > H + 1)
        <3> SUFFICES ASSUME q > H + 1 PROVE FALSE
            OBVIOUS
        <3>1. (H + 1) * W + W <= q * W /\ (H + 1) * W = H * W + W
            BY <1>1, <1>2, <1>5
        <3> QED BY <1>1, <1>2, <1>3, <1>7, <3>1
    <2>2. ~(q < H + 1)
        <3> SUFFICES ASSUME q < H + 1 PROVE FALSE
            OBVIOUS
        <3>1. q * W <= H * W
            BY <1>1, <1>2, <1>5
        <3> QED BY <1>1, <1>2, <1>3, <1>7, <3>1
    <2>3. q = H + 1
        BY <1>2, <2>1, <2>2
    <2>4. Subspace(highest, Low(s)) = H + 1
        <3>1. ~(hl < behind /\ l >= W - (behind - hl))
            BY <1>1, <1>2, <1>7
        <3> QED BY <1>4, <1>7, <3>1
    <2> QED BY <2>3, <2>4
<1>8. CASE ~(hl < behind /\ l >= W - (behind - hl)) /\ ~(hl >= behind /\ l < hl - behind)
    <2>1. ~(q > H)
        <3> SUFFICES ASSUME q > H PROVE FALSE
            OBVIOUS
        <3>1. H * W + W <= q * W
            BY <1>1, <1>2, <1>5
        <3> QED BY <1>1, <1>2, <1>3, <1>8, <3>1
    <2>2. ~(q < H)
        <3> SUFFICES ASSUME q < H PROVE FALSE
            OBVIOUS
        <3>1. q * W + W <= H * W
            BY <1>1, <1>2, <1>5
        <3> QED BY <1>1, <1>2, <1>3, <1>8, <3>1
    <2>3. q = H
        BY <1>2, <2>1, <2>2
    <2>4. Subspace(highest, Low(s)) = H
        BY <1>4, <1>8
    <2> QED BY <2>3, <2>4
<1> QED BY <1>6, <1>7, <1>8

-----------------------------------------------------------------------------
(* The replay window.                                                      *)

Window == [esn : BOOLEAN, highest : Nat, bitmap : SUBSET Distances]

\* What WindowSummarises says of one window w and the authenticated numbers A.
Summary(w, A) ==
  /\ w \in Window /\ A \subseteq Nat \ {0}
  /\ \A s \in A : s <= w.highest
  /\ w.bitmap = {d \in Distances : w.highest - d \in A}
  /\ Restorable(w)

\* A new window summarises that nothing was accepted.
LEMMA EmptySummary ==
    ASSUME NEW esn \in BOOLEAN
    PROVE  Summary(EmptyWindow(esn), {})
BY ReplayWindowAssumption
   DEF Summary, Window, EmptyWindow, Restorable, Distances


\* The window commit() leaves is the summary with the committed number in it.
LEMMA CommitSummary ==
    ASSUME NEW w, NEW A, Summary(w, A), NEW s \in Nat \ {0}, CanCommit(w, s)
    PROVE  /\ s \notin A
           /\ Summary(Commit(w, s), A \union {s})
           /\ Commit(w, s).esn = w.esn
<1> DEFINE h == w.highest
           b == w.bitmap
           v == Commit(w, s)
           B == A \union {s}
<1>1. /\ h \in Nat /\ Width \in Nat \ {0} /\ WordSize \in Nat
      /\ w = [esn |-> w.esn, highest |-> h, bitmap |-> b]
      /\ w.esn \in BOOLEAN /\ b \subseteq Distances
      /\ A \subseteq Nat \ {0} /\ Distances \subseteq Nat
      /\ \A a \in A : a <= h
    BY ReplayWindowAssumption DEF Summary, Window, Distances
<1>2. Unseen(w, s) /\ (w.esn \/ s < WordSize)
    BY DEF CanCommit
<1>3. \A d \in Distances : d \in b <=> h - d \in A
    BY DEF Summary
<1>4. w.esn \/ h < WordSize
    BY DEF Summary, Restorable
<1>5. h = 0 => b = {} /\ A = {}
    BY <1>1 DEF Summary, Restorable
<1>6. CASE h = 0 \/ s > h
    <2>1. v = [esn |-> w.esn, highest |-> s,
               bitmap |-> {0} \union ({d + s - h : d \in b} \cap Distances)]
        BY <1>1, <1>6 DEF Commit
    <2> DEFINE bm == {0} \union ({d + s - h : d \in b} \cap Distances)
    <2>2. 0 \in Distances /\ bm \subseteq Distances
        BY <1>1 DEF Distances
    <2>3. s \notin A
        BY <1>1, <1>5, <1>6
    <2>4. ASSUME NEW d \in Distances PROVE d \in bm <=> s - d \in B
        <3>1. d \in Nat /\ d < Width
            BY <1>1 DEF Distances
        <3>2. CASE d = 0
            BY <3>2, <1>1
        <3>3. CASE d # 0
            <4>1. s - d # s
                BY <3>1, <3>3
            <4>2. ASSUME d \in bm PROVE s - d \in A
                <5>1. PICK e \in b : d = e + s - h
                    BY <3>3, <4>2
                <5>2. e \in Distances /\ e \in Nat /\ h - e = s - d
                    BY <1>1, <5>1
                <5> QED BY <1>3, <5>1, <5>2
            <4>3. ASSUME s - d \in A PROVE d \in bm
                <5> DEFINE e == d - s + h
                <5>1. s > h /\ s - d <= h
                    BY <1>1, <1>5, <1>6, <4>3
                <5>2. e \in Distances /\ h - e = s - d
                    BY <1>1, <3>1, <5>1 DEF Distances
                <5>3. e \in b
                    BY <1>3, <4>3, <5>2
                <5>4. d = e + s - h
                    BY <1>1, <3>1
                <5> HIDE DEF e
                <5> QED BY <5>3, <5>4
            <4> QED BY <4>1, <4>2, <4>3
        <3> QED BY <3>2, <3>3
    <2> HIDE DEF bm
    <2>5. bm = {d \in Distances : s - d \in B}
        BY <2>2, <2>4
    <2>6. 0 \in bm
        BY DEF bm
    <2>7. \A a \in B : a <= s
        BY <1>1, <1>5, <1>6
    <2>8. v = [esn |-> w.esn, highest |-> s, bitmap |-> bm]
        BY <2>1 DEF bm
    <2>9. v.esn = w.esn /\ v.highest = s /\ v.bitmap = bm /\ v \in Window
        BY <1>1, <2>2, <2>8 DEF Window
    <2>10. B \subseteq Nat \ {0}
        BY <1>1
    <2>11. Restorable(v)
        BY <1>2, <2>2, <2>6, <2>9 DEF Restorable
    <2> HIDE DEF v, B
    <2>12. Summary(v, B)
        BY <2>5, <2>7, <2>9, <2>10, <2>11 DEF Summary
    <2> QED BY <2>3, <2>9, <2>12 DEF v, B
<1>7. CASE ~(h = 0 \/ s > h)
    <2>1. v = [esn |-> w.esn, highest |-> h, bitmap |-> b \union {h - s}]
        BY <1>1, <1>7 DEF Commit
    <2>2. h - s < Width /\ h - s \notin b /\ h - s \in Distances
        BY <1>1, <1>2, <1>7 DEF Unseen, Distances
    <2>3. s \notin A
        <3>1. h - (h - s) = s
            BY <1>1
        <3> QED BY <1>3, <2>2, <3>1
    <2> DEFINE bm == b \union {h - s}
    <2>4. ASSUME NEW d \in Distances PROVE d \in bm <=> h - d \in B
        <3>1. (d = h - s) <=> (h - d = s)
            BY <1>1
        <3> QED BY <1>3, <3>1
    <2>5. bm \subseteq Distances
        BY <1>1, <2>2
    <2>6. 0 \in bm /\ h # 0
        BY <1>7 DEF Summary, Restorable
    <2> HIDE DEF bm
    <2>7. bm = {d \in Distances : h - d \in B}
        BY <2>4, <2>5
    <2>8. v = [esn |-> w.esn, highest |-> h, bitmap |-> bm]
        BY <2>1 DEF bm
    <2>9. v.esn = w.esn /\ v.highest = h /\ v.bitmap = bm /\ v \in Window
        BY <1>1, <2>5, <2>8 DEF Window
    <2>10. B \subseteq Nat \ {0} /\ \A a \in B : a <= h
        BY <1>1, <1>7
    <2>11. Restorable(v)
        BY <1>4, <2>5, <2>6, <2>9 DEF Restorable
    <2> HIDE DEF v, B
    <2>12. Summary(v, B)
        BY <2>7, <2>9, <2>10, <2>11 DEF Summary
    <2> QED BY <2>3, <2>9, <2>12 DEF v, B
<1> QED BY <1>6, <1>7

\* A number in reach that has not been authenticated is admitted as itself: its
\* low word is taken to be of the word it was sent in.
LEMMA FreshIsAdmitted ==
    ASSUME NEW w, NEW A, Summary(w, A), NEW s \in Nat \ {0}, s \notin A,
           s <= Largest(w.esn), InReach(w, s)
    PROVE  Admissible(w, Low(s)) = {s} /\ CanCommit(w, s)
<1> DEFINE W == WordSize
<1>1. /\ w.highest \in Nat /\ w.esn \in BOOLEAN
      /\ Width \in Nat \ {0} /\ W \in Nat \ {0} /\ Width <= W
    BY ReplayWindowAssumption DEF Summary, Window
<1>2. Unseen(w, s)
    <2>1. w.highest - s < Width
        BY <1>1 DEF InReach
    <2>2. ASSUME w.highest - s \in w.bitmap PROVE FALSE
        <3>1. w.highest - (w.highest - s) \in A
            BY <2>2 DEF Summary
        <3>2. w.highest - (w.highest - s) = s
            BY <1>1
        <3> QED BY <3>1, <3>2
    <2> QED BY <2>1, <2>2 DEF Unseen
<1>3. Reconstruct(w, Low(s)) = {s} /\ (w.esn \/ s < W)
    <2>1. CASE ~w.esn \/ w.highest = 0
        <3>1. s < W
            BY <1>1, <2>1 DEF InReach
        <3>2. Low(s) = s
            BY <1>1, <3>1 DEF Low
        <3> QED BY <2>1, <3>1, <3>2 DEF Reconstruct
    <2>2. CASE w.esn /\ w.highest # 0
        <3> DEFINE q == s \div W
                   l == s % W
        <3>1. q \in Nat /\ l \in 0 .. W - 1 /\ s = q * W + l
            BY <1>1, Words
        <3>2. Subspace(w.highest, Low(s)) = q
            BY <1>1, <2>2, SubspaceOf DEF InReach
        <3>3. s <= W * W - 1
            BY <2>2 DEF Largest
        <3> HIDE DEF q
        <3>4. q < W
            <4> SUFFICES ASSUME q >= W PROVE FALSE
                BY <1>1, <3>1
            <4>1. q = W \/ W * W + W <= q * W
                BY <1>1, <3>1, WordOrder
            <4>2. l \in Nat /\ W * W \in Nat /\ q * W \in Nat
                BY <1>1, <3>1
            <4> HIDE DEF W, l
            <4>3. W * W <= q * W
                BY <1>1, <4>1, <4>2
            <4> QED BY <1>1, <3>1, <3>3, <4>2, <4>3
        <3>5. {Subspace(w.highest, Low(s))} \cap (0 .. W - 1) = {q}
            BY <1>1, <3>1, <3>2, <3>4
        <3>6. Reconstruct(w, Low(s)) = {high * W + Low(s) : high \in {q}}
            BY <2>2, <3>5 DEF Reconstruct
        <3>7. q * W + Low(s) = s
            BY <3>1 DEF Low
        <3> HIDE DEF W
        <3> QED BY <2>2, <3>6, <3>7
    <2> QED BY <1>1, <2>1, <2>2
<1>4. Admissible(w, Low(s)) = {s}
    BY <1>2, <1>3 DEF Admissible
<1> QED BY <1>2, <1>3, <1>4 DEF CanCommit

-----------------------------------------------------------------------------
(* The inductive invariant.                                                *)

States == {"created", "initial_exchange", "authenticating", "established",
           "deleting", "closed", "failed"}

\* TypeOK without the bounds that follow from MaxSent.
TunnelTypes ==
  /\ state \in States
  /\ binding \in [Children -> {"none", "active", "retiring", "gone"}]
  /\ pending \in Request /\ previous \in {"active", "retiring"}
  /\ unanswered \in 0 .. MaximumUnanswered /\ idle \in BOOLEAN
  /\ sad \subseteq [child : Children, outbound : BOOLEAN]
  /\ window \in [Children -> Window]
  /\ packets \in [Children -> Nat] /\ current \in [Children -> Nat]
  /\ authentic \in [Children -> SUBSET (Nat \ {0})]

Present(c) == Pair(c) \subseteq sad
Absent(c) == Pair(c) \cap sad = {}

\* What is true of the SAD while the request waits to be executed, while its
\* answer waits to be read, and after an answer that came too late was dropped.
Asked ==
  /\ requests = <<pending>> /\ answers = <<>>
  /\ IF pending.op = "install" THEN Absent(pending.child)
                               ELSE Present(pending.child)

Answered ==
  /\ requests = <<>>
  /\ \E ok \in BOOLEAN :
       /\ answers = <<[op |-> pending.op, ok |-> ok]>>
       /\ IF ok = (pending.op = "install") THEN Present(pending.child)
                                           ELSE Absent(pending.child)
       /\ pending.op = "remove" => ok

Dropped ==
  /\ requests = <<>> /\ answers = <<>>
  /\ pending.op = "install" /\ state # "established"
  /\ Present(pending.child) \/ Absent(pending.child)

\* One request at a time, begun and not yet completed.
Exchange ==
  IF pending = NoRequest THEN requests = <<>> /\ answers = <<>>
  ELSE /\ state \in {"established", "deleting"}
       /\ pending.child \in Children /\ pending.op \in {"install", "remove"}
       /\ pending.op = "install" => /\ binding[pending.child] = "none"
                                    /\ Cardinality(Bound) <= MaximumChildren
       /\ pending.op = "remove" => binding[pending.child] = "retiring"
       /\ Asked \/ Answered \/ Dropped

\* Apart from the child of the request, the bindings are the pairs of the SAD.
Cover ==
  /\ \A c \in Children \ {pending.child} :
       IF c \in Bound THEN Present(c) ELSE Absent(c)
  /\ Cardinality(Bound) <= MaximumChildren + 1
  /\ state = "closed" => Bound = {} /\ pending = NoRequest

\* The inbound association of child c and what the peer has sent to it.
Inbound(c) ==
  /\ Summary(window[c], authentic[c])
  /\ authentic[c] \subseteq 1 .. current[c]
  /\ current[c] <= Largest(window[c].esn)
  /\ ~HasInbound(c) => packets[c] = 0 /\ current[c] = 0 /\ authentic[c] = {}

TunnelInv ==
  TunnelTypes /\ Exchange /\ Cover /\ \A c \in Children : Inbound(c)

\* The pair of a child is its two directions.
LEMMA PairIs ==
    ASSUME NEW c
    PROVE  /\ Pair(c) = [child : {c}, outbound : BOOLEAN]
           /\ \A x \in Pair(c) : x.child = c
           /\ [child |-> c, outbound |-> FALSE] \in Pair(c)
           /\ [child |-> c, outbound |-> TRUE] \in Pair(c)
<1>1. \A x \in Pair(c) : x.child = c /\ x \in [child : {c}, outbound : BOOLEAN]
    BY DEF Pair
<1>2. \A x \in [child : {c}, outbound : BOOLEAN] : x \in Pair(c)
    <2> TAKE x \in [child : {c}, outbound : BOOLEAN]
    <2>1. x = [child |-> c, outbound |-> x.outbound] /\ x.outbound \in BOOLEAN
        OBVIOUS
    <2> QED BY <2>1 DEF Pair
<1>3. /\ [child |-> c, outbound |-> FALSE] \in [child : {c}, outbound : BOOLEAN]
      /\ [child |-> c, outbound |-> TRUE] \in [child : {c}, outbound : BOOLEAN]
    OBVIOUS
<1> QED BY <1>1, <1>2, <1>3

\* An IKE SA without children satisfies the invariant.
LEMMA InitTunnel == Init => TunnelInv
<1> SUFFICES ASSUME Init PROVE TunnelInv
    OBVIOUS
<1> USE DEF Init
<1>1. WordSize \in Nat /\ WordSize >= 2 /\ WordSize - 1 >= 0
    BY ReplayWindowAssumption
<1>2. MaximumUnanswered \in Nat /\ MaximumChildren \in Nat
    BY IpsecTunnelAssumption
<1>3. EmptyWindow(FALSE) \in Window /\ EmptyWindow(FALSE).esn = FALSE
    BY EmptySummary DEF Summary, EmptyWindow
<1>4. TunnelTypes
    <2>1. NoRequest \in Request
        BY DEF NoRequest, Request
    <2>2. 0 \in 0 .. MaximumUnanswered
        BY <1>2
    <2> QED BY <1>3, <2>1, <2>2 DEF TunnelTypes, States
<1>5. Exchange
    BY DEF Exchange
<1>6. Bound = {}
    BY DEF Bound
<1>7. Cover
    <2>1. Cardinality({}) = 0
        BY FS_EmptySet
    <2> QED BY <1>2, <1>6, <2>1 DEF Cover, Absent
<1>8. ASSUME NEW c \in Children PROVE Inbound(c)
    <2>1. Summary(window[c], authentic[c])
        BY EmptySummary
    <2>2. current[c] <= Largest(window[c].esn)
        BY <1>1, <1>3 DEF Largest
    <2> QED BY <2>1, <2>2 DEF Inbound
<1> QED BY <1>4, <1>5, <1>7, <1>8 DEF TunnelInv

\* Types of the requests that are under way.
LEMMA HeadIsPending ==
    ASSUME TunnelInv, requests # <<>>
    PROVE  /\ pending # NoRequest /\ Asked
           /\ requests = <<pending>> /\ Head(requests) = pending
           /\ Tail(requests) = <<>> /\ answers = <<>>
           /\ pending.child \in Children /\ pending.op \in {"install", "remove"}
           /\ pending.esn \in BOOLEAN
<1>1. pending # NoRequest /\ Asked
    BY DEF TunnelInv, Exchange, Answered, Dropped
<1>2. requests = <<pending>> /\ answers = <<>>
    BY <1>1 DEF Asked
<1>3. Head(<<pending>>) = pending /\ Tail(<<pending>>) = <<>>
    OBVIOUS
<1>4. pending.esn \in BOOLEAN
    BY DEF TunnelInv, TunnelTypes, Request
<1> QED BY <1>1, <1>2, <1>3, <1>4 DEF TunnelInv, Exchange

\* The answer that IKE reads is the one to its pending request.
LEMMA HeadIsAnswer ==
    ASSUME TunnelInv, answers # <<>>
    PROVE  /\ pending # NoRequest /\ Answered
           /\ requests = <<>> /\ Tail(answers) = <<>>
           /\ pending.child \in Children /\ pending.op \in {"install", "remove"}
           /\ Head(answers).op = pending.op /\ Head(answers).ok \in BOOLEAN
           /\ IF Head(answers).ok = (pending.op = "install")
              THEN Present(pending.child) ELSE Absent(pending.child)
           /\ pending.op = "remove" => Head(answers).ok
<1>1. pending # NoRequest /\ Answered
    BY DEF TunnelInv, Exchange, Asked, Dropped
<1>2. PICK ok \in BOOLEAN :
        /\ answers = <<[op |-> pending.op, ok |-> ok]>>
        /\ IF ok = (pending.op = "install") THEN Present(pending.child)
                                            ELSE Absent(pending.child)
        /\ pending.op = "remove" => ok
    BY <1>1 DEF Answered
<1> DEFINE a == [op |-> pending.op, ok |-> ok]
<1>3. Head(<<a>>) = a /\ Tail(<<a>>) = <<>> /\ a.op = pending.op /\ a.ok = ok
    OBVIOUS
<1>4. Head(answers) = a /\ Tail(answers) = <<>>
    BY <1>2, <1>3
<1>5. Head(answers).op = pending.op /\ Head(answers).ok = ok
    BY <1>3, <1>4
<1>6. requests = <<>>
    BY <1>1 DEF Answered
<1>7. pending.child \in Children /\ pending.op \in {"install", "remove"}
    BY <1>1 DEF TunnelInv, Exchange
<1> HIDE DEF a
<1> QED BY <1>1, <1>2, <1>4, <1>5, <1>6, <1>7

-----------------------------------------------------------------------------
(* The steps of the IKE SA.                                                *)

\* Without traffic and changes of the SAD the windows keep their summaries.
LEMMA InboundKept ==
    ASSUME TunnelInv, UNCHANGED <<sad, traffic>>
    PROVE  \A c \in Children : Inbound(c)'
BY DEF TunnelInv, Inbound, HasInbound, traffic

\* A step that changes the state of the IKE SA and its liveness only.
LEMMA StateStep ==
    ASSUME TunnelInv,
           UNCHANGED <<binding, pending, previous, messages, sad, traffic>>,
           state' \in States, idle' \in BOOLEAN,
           unanswered' \in 0 .. MaximumUnanswered,
           \/ state' = state
           \/ pending = NoRequest
           \/ state = "established" /\ state' = "deleting",
           state' = "closed" => Bound = {} /\ pending = NoRequest
    PROVE  TunnelInv'
<1> USE DEF messages, traffic
<1>1. TunnelTypes'
    BY DEF TunnelInv, TunnelTypes
<1>2. Bound' = Bound /\ \A c : Present(c)' = Present(c) /\ Absent(c)' = Absent(c)
    BY DEF Bound, Present, Absent
<1>3. Exchange'
    <2>1. CASE pending = NoRequest
        BY <2>1 DEF TunnelInv, Exchange
    <2>2. CASE pending # NoRequest
        <3>1. Asked \/ Answered \/ Dropped
            BY <2>2 DEF TunnelInv, Exchange
        <3>2. Asked => Asked'
            BY <1>2 DEF Asked
        <3>3. Answered => Answered'
            BY <1>2 DEF Answered
        <3>4. Dropped => Dropped'
            BY <1>2, <2>2 DEF Dropped
        <3>5. state' \in {"established", "deleting"}
            BY <2>2 DEF TunnelInv, Exchange
        <3> QED BY <1>2, <2>2, <3>1, <3>2, <3>3, <3>4, <3>5 DEF TunnelInv, Exchange
    <2> QED BY <2>1, <2>2
<1>4. Cover'
    BY <1>2 DEF TunnelInv, Cover
<1>5. \A c \in Children : Inbound(c)'
    BY InboundKept
<1> QED BY <1>1, <1>3, <1>4, <1>5 DEF TunnelInv

\* begin_child_install and begin_child_rekey.
LEMMA BeginInstallStep ==
    ASSUME TunnelInv, NEW c \in Children, NEW r \in Children \union {0},
           NEW esn \in Esn, BeginChildInstall(c, r, esn)
    PROVE  TunnelInv'
<1> DEFINE q == [op |-> "install", child |-> c, replaces |-> r, esn |-> esn]
<1>1. /\ state = "established" /\ pending = NoRequest /\ binding[c] = "none"
      /\ pending' = q /\ requests' = Append(requests, q)
      /\ UNCHANGED <<state, binding, previous, unanswered, idle, answers, sad>>
      /\ UNCHANGED traffic
    BY DEF BeginChildInstall, Ask
<1>2. requests = <<>> /\ answers = <<>> /\ Append(<<>>, q) = <<q>>
    BY <1>1 DEF TunnelInv, Exchange
<1>3. q \in Request /\ q.op = "install" /\ q.child = c /\ q # NoRequest
    BY IpsecTunnelAssumption DEF Request, NoRequest
<1>4. Cardinality(Bound) <= MaximumChildren
    <2>1. Cardinality(Bound) \in Nat /\ MaximumChildren \in Nat
        <3>1. IsFiniteSet(Bound)
            BY IpsecTunnelAssumption, FS_Subset, Bound \subseteq Children DEF Bound
        <3> QED BY <3>1, FS_CardinalityType, IpsecTunnelAssumption
    <2> QED BY <2>1 DEF BeginChildInstall
<1> HIDE DEF q
<1>5. TunnelTypes'
    BY <1>1, <1>3 DEF TunnelInv, TunnelTypes, traffic
<1>6. Bound' = Bound /\ \A d : Present(d)' = Present(d) /\ Absent(d)' = Absent(d)
    BY <1>1 DEF Bound, Present, Absent
<1>7. c \notin Bound /\ Absent(c)
    <2>1. c \notin Bound
        BY <1>1 DEF Bound
    <2>2. pending.child # c
        BY <1>1, IpsecTunnelAssumption DEF NoRequest
    <2> QED BY <2>1, <2>2 DEF TunnelInv, Cover
<1>8. Exchange'
    <2>1. Asked'
        BY <1>1, <1>2, <1>3, <1>6, <1>7 DEF Asked
    <2> QED BY <1>1, <1>3, <1>4, <1>6, <2>1 DEF Exchange
<1>9. Cover'
    <2>1. pending.child = 0 /\ 0 \notin Children
        BY <1>1, IpsecTunnelAssumption DEF NoRequest
    <2>2. \A d \in Children : IF d \in Bound THEN Present(d) ELSE Absent(d)
        BY <2>1 DEF TunnelInv, Cover
    <2>3. state' # "closed"
        BY <1>1
    <2> QED BY <1>6, <2>2, <2>3 DEF TunnelInv, Cover
<1>10. \A d \in Children : Inbound(d)'
    BY <1>1, InboundKept
<1> QED BY <1>5, <1>8, <1>9, <1>10 DEF TunnelInv

\* begin_child_delete.
LEMMA BeginDeleteStep ==
    ASSUME TunnelInv, NEW c \in Children, BeginChildDelete(c)
    PROVE  TunnelInv'
<1> DEFINE q == [op |-> "remove", child |-> c, replaces |-> 0, esn |-> FALSE]
<1>1. /\ state \in {"established", "deleting"} /\ pending = NoRequest
      /\ c \in Bound /\ previous' = binding[c]
      /\ binding' = [binding EXCEPT ![c] = "retiring"]
      /\ pending' = q /\ requests' = Append(requests, q)
      /\ UNCHANGED <<state, unanswered, idle, answers, sad>>
      /\ UNCHANGED traffic
    BY DEF BeginChildDelete, Ask
<1>2. requests = <<>> /\ answers = <<>> /\ Append(<<>>, q) = <<q>>
    BY <1>1 DEF TunnelInv, Exchange
<1>3. q \in Request /\ q.op = "remove" /\ q.child = c /\ q # NoRequest
    BY DEF Request, NoRequest
<1> HIDE DEF q
<1>4. TunnelTypes'
    <2>1. previous' \in {"active", "retiring"}
        BY <1>1 DEF Bound
    <2> QED BY <1>1, <1>3, <2>1 DEF TunnelInv, TunnelTypes, traffic
<1>5. /\ binding \in [Children -> {"none", "active", "retiring", "gone"}]
      /\ binding'[c] = "retiring"
    BY <1>1 DEF TunnelInv, TunnelTypes
<1>6. Bound' = Bound
    BY <1>1, <1>5 DEF Bound
<1>7. \A d : Present(d)' = Present(d) /\ Absent(d)' = Absent(d)
    BY <1>1 DEF Present, Absent
<1>8. pending.child = 0 /\ 0 \notin Children
    BY <1>1, IpsecTunnelAssumption DEF NoRequest
<1>9. \A d \in Children : IF d \in Bound THEN Present(d) ELSE Absent(d)
    BY <1>8 DEF TunnelInv, Cover
<1>10. Exchange'
    <2>1. Asked'
        BY <1>1, <1>2, <1>3, <1>7, <1>9 DEF Asked
    <2> QED BY <1>1, <1>3, <1>5, <2>1 DEF Exchange
<1>11. Cover'
    <2>1. state' # "closed"
        BY <1>1
    <2> QED BY <1>6, <1>7, <1>9, <2>1 DEF TunnelInv, Cover
<1>12. \A d \in Children : Inbound(d)'
    BY <1>1, InboundKept
<1> QED BY <1>4, <1>10, <1>11, <1>12 DEF TunnelInv

\* complete_child_install: the answer is dropped, a refusal or a new binding.
LEMMA CompleteInstallStep ==
    ASSUME TunnelInv, CompleteChildInstall
    PROVE  TunnelInv'
<1> DEFINE c == pending.child
           answer == Head(answers)
<1>1. /\ answers # <<>> /\ answer.op = "install" /\ answers' = Tail(answers)
      /\ UNCHANGED <<state, previous, requests, sad>> /\ UNCHANGED traffic
    BY DEF CompleteChildInstall
<1>2. /\ pending # NoRequest /\ c \in Children /\ pending.op = "install"
      /\ requests' = <<>> /\ answers' = <<>> /\ answer.ok \in BOOLEAN
      /\ IF answer.ok THEN Present(c) ELSE Absent(c)
    BY <1>1, HeadIsAnswer
<1>3. /\ state \in {"established", "deleting"} /\ binding[c] = "none"
      /\ Cardinality(Bound) <= MaximumChildren
    BY <1>2 DEF TunnelInv, Exchange
<1>4. /\ \A d : Present(d)' = Present(d) /\ Absent(d)' = Absent(d)
      /\ \A d \in Children : Inbound(d)'
    BY <1>1, InboundKept DEF Present, Absent
<1>5. \A d \in Children \ {c} : IF d \in Bound THEN Present(d) ELSE Absent(d)
    BY DEF TunnelInv, Cover
<1>6. binding \in [Children -> {"none", "active", "retiring", "gone"}] /\ c \notin Bound
    BY <1>3 DEF TunnelInv, TunnelTypes, Bound
<1>7. NoRequest \in Request /\ NoRequest.child = 0 /\ 0 \notin Children
    BY IpsecTunnelAssumption DEF NoRequest, Request
<1>8. 0 \in 0 .. MaximumUnanswered
    BY IpsecTunnelAssumption
<1>9. CASE state # "established"
    <2>1. UNCHANGED <<binding, pending, unanswered, idle>>
        BY <1>9 DEF CompleteChildInstall
    <2>2. Bound' = Bound
        BY <2>1 DEF Bound
    <2>3. Dropped'
        BY <1>1, <1>2, <1>4, <1>9, <2>1 DEF Dropped
    <2>4. TunnelTypes'
        BY <1>1, <2>1 DEF TunnelInv, TunnelTypes, traffic
    <2>5. Exchange'
        BY <1>1, <1>2, <1>3, <2>1, <2>2, <2>3 DEF Exchange
    <2>6. Cover'
        BY <1>1, <1>4, <2>1, <2>2 DEF TunnelInv, Cover
    <2> QED BY <1>4, <2>4, <2>5, <2>6 DEF TunnelInv
<1>10. CASE state = "established" /\ ~answer.ok
    <2>1. pending' = NoRequest /\ UNCHANGED <<binding, unanswered, idle>>
        BY <1>10 DEF CompleteChildInstall
    <2>2. Bound' = Bound
        BY <2>1 DEF Bound
    <2>3. Exchange'
        BY <1>2, <2>1 DEF Exchange
    <2>4. TunnelTypes'
        BY <1>1, <1>7, <2>1 DEF TunnelInv, TunnelTypes, traffic
    <2>5. \A d \in Children : IF d \in Bound THEN Present(d) ELSE Absent(d)
        BY <1>2, <1>5, <1>6, <1>10
    <2>6. Cover'
        BY <1>1, <1>4, <1>10, <2>1, <2>2, <2>5 DEF TunnelInv, Cover
    <2> QED BY <1>4, <2>3, <2>4, <2>6 DEF TunnelInv
<1>11. CASE state = "established" /\ answer.ok
    <2>1. /\ binding' = [d \in Children |->
                          IF d = c THEN "active"
                          ELSE IF d = pending.replaces /\ d \in Bound
                               THEN "retiring" ELSE binding[d]]
          /\ pending' = NoRequest /\ unanswered' = 0 /\ idle' = FALSE
        BY <1>11 DEF CompleteChildInstall
    <2>2. Bound' = Bound \union {c}
        BY <1>2, <2>1 DEF Bound
    <2>3. Exchange'
        BY <1>2, <2>1 DEF Exchange
    <2>4. TunnelTypes'
        <3>1. binding' \in [Children -> {"none", "active", "retiring", "gone"}]
            BY <1>6, <2>1
        <3> QED BY <1>1, <1>7, <1>8, <2>1, <3>1 DEF TunnelInv, TunnelTypes, traffic
    <2>5. \A d \in Children : IF d \in Bound' THEN Present(d) ELSE Absent(d)
        BY <1>2, <1>5, <1>11, <2>2
    <2>6. Cardinality(Bound') <= MaximumChildren + 1
        <3>1. IsFiniteSet(Bound)
            BY IpsecTunnelAssumption, FS_Subset, Bound \subseteq Children DEF Bound
        <3>2. Cardinality(Bound') = Cardinality(Bound) + 1 /\ Cardinality(Bound) \in Nat
            BY <1>6, <2>2, <3>1, FS_AddElement, FS_CardinalityType
        <3> QED BY <1>3, <3>2, IpsecTunnelAssumption
    <2>7. Cover'
        BY <1>1, <1>4, <1>11, <2>5, <2>6 DEF Cover
    <2> QED BY <1>4, <2>3, <2>4, <2>7 DEF TunnelInv
<1> QED BY <1>2, <1>9, <1>10, <1>11

\* complete_child_delete.
LEMMA CompleteDeleteStep ==
    ASSUME TunnelInv, CompleteChildDelete
    PROVE  TunnelInv'
<1> DEFINE c == pending.child
           answer == Head(answers)
<1>1. /\ answers # <<>> /\ answer.op = "remove" /\ answers' = Tail(answers)
      /\ state \in {"established", "deleting"} /\ pending' = NoRequest
      /\ binding' = [binding EXCEPT ![c] = IF answer.ok THEN "gone" ELSE previous]
      /\ UNCHANGED <<state, previous, unanswered, idle, requests, sad>>
      /\ UNCHANGED traffic
    BY DEF CompleteChildDelete
<1>2. /\ c \in Children /\ requests' = <<>> /\ answers' = <<>>
      /\ answer.ok /\ Absent(c)
    BY <1>1, HeadIsAnswer
<1>3. /\ \A d : Present(d)' = Present(d) /\ Absent(d)' = Absent(d)
      /\ \A d \in Children : Inbound(d)'
    BY <1>1, InboundKept DEF Present, Absent
<1>4. binding \in [Children -> {"none", "active", "retiring", "gone"}]
    BY DEF TunnelInv, TunnelTypes
<1>5. Bound' = Bound \ {c}
    BY <1>1, <1>2, <1>4 DEF Bound
<1>6. TunnelTypes'
    <2>1. NoRequest \in Request
        BY DEF NoRequest, Request
    <2>2. binding' \in [Children -> {"none", "active", "retiring", "gone"}]
        BY <1>1, <1>2, <1>4
    <2> QED BY <1>1, <2>1, <2>2 DEF TunnelInv, TunnelTypes, traffic
<1>7. Exchange'
    BY <1>1, <1>2 DEF Exchange
<1>8. \A d \in Children : IF d \in Bound' THEN Present(d) ELSE Absent(d)
    <2>1. \A d \in Children \ {c} : IF d \in Bound THEN Present(d) ELSE Absent(d)
        BY DEF TunnelInv, Cover
    <2> QED BY <1>2, <1>5, <2>1
<1>9. Cardinality(Bound') <= MaximumChildren + 1
    <2>1. IsFiniteSet(Bound)
        BY IpsecTunnelAssumption, FS_Subset, Bound \subseteq Children DEF Bound
    <2>2. /\ Cardinality(Bound') <= Cardinality(Bound)
          /\ Cardinality(Bound') \in Nat /\ Cardinality(Bound) \in Nat
        BY <1>5, <2>1, FS_Subset, FS_CardinalityType, Bound' \subseteq Bound
    <2> QED BY <2>2, IpsecTunnelAssumption DEF TunnelInv, Cover
<1>10. Cover'
    BY <1>1, <1>3, <1>8, <1>9 DEF Cover
<1> QED BY <1>3, <1>6, <1>7, <1>10 DEF TunnelInv

\* Every step of the IKE SA keeps the invariant.
LEMMA ControlStep ==
    ASSUME TunnelInv, Control
    PROVE  TunnelInv'
<1>1. /\ state \in States /\ idle \in BOOLEAN
      /\ unanswered \in 0 .. MaximumUnanswered /\ MaximumUnanswered \in Nat
      /\ 0 \in 0 .. MaximumUnanswered
      /\ pending # NoRequest => state \in {"established", "deleting"}
      /\ state = "closed" => Bound = {} /\ pending = NoRequest
    BY IpsecTunnelAssumption DEF TunnelInv, TunnelTypes, Exchange, Cover
<1>2. CASE BeginInitialExchange \/ CompleteInitialExchange
    BY <1>1, <1>2, StateStep
       DEF BeginInitialExchange, CompleteInitialExchange, IkeStep, States
<1>3. CASE CompleteAuthentication
    BY <1>1, <1>3, StateStep DEF CompleteAuthentication, IkeStep, States
<1>4. CASE BeginIkeDelete \/ CompleteIkeDelete
    BY <1>1, <1>4, StateStep DEF BeginIkeDelete, CompleteIkeDelete, IkeStep, States
<1>5. CASE NoteAuthenticatedActivity \/ IdleIntervalPasses
    BY <1>1, <1>5, StateStep DEF NoteAuthenticatedActivity, IdleIntervalPasses, States
<1>6. CASE PollLiveness
    <2>0. \/ /\ unanswered >= MaximumUnanswered /\ state' = "deleting"
             /\ UNCHANGED <<unanswered, idle>>
          \/ /\ ~(unanswered >= MaximumUnanswered) /\ unanswered' = unanswered + 1
             /\ idle' = FALSE /\ UNCHANGED state
        BY <1>6, Zenon DEF PollLiveness
    <2>1. unanswered' \in 0 .. MaximumUnanswered
        BY <1>1, <2>0
    <2>2. /\ UNCHANGED <<binding, pending, previous, messages, sad, traffic>>
          /\ state = "established"
        BY <1>6, Zenon DEF PollLiveness
    <2>3. idle' \in BOOLEAN
        <3>1. idle' = idle \/ idle' = FALSE
            BY <2>0, Zenon
        <3> QED BY <1>1, <3>1, Zenon
    <2>4. state' = "deleting" \/ state' = state
        BY <2>0, Zenon
    <2>5. state' \in States /\ state' # "closed"
        BY <1>1, <2>2, <2>4 DEF States
    <2> QED BY <2>1, <2>2, <2>3, <2>4, <2>5, StateStep
<1> QED BY <1>2, <1>3, <1>4, <1>5, <1>6, BeginInstallStep, BeginDeleteStep,
           CompleteInstallStep, CompleteDeleteStep DEF Control

-----------------------------------------------------------------------------
(* The steps of the forwarding owner.                                      *)

\* What executing the pending request leaves of the state of the IKE SA.
LEMMA ForwardIke ==
    ASSUME TunnelInv, requests # <<>>, UNCHANGED ike,
           NEW ok \in BOOLEAN, Answer(pending, ok), Answered',
           \A d \in Children \ {pending.child} :
             Present(d)' = Present(d) /\ Absent(d)' = Absent(d)
    PROVE  Exchange' /\ Cover'
<1>1. UNCHANGED <<state, binding, pending>> /\ Bound' = Bound
    BY DEF ike, Bound
<1>2. Exchange'
    BY <1>1, HeadIsPending DEF TunnelInv, Exchange
<1>3. Cover'
    BY <1>1 DEF TunnelInv, Cover
<1> QED BY <1>2, <1>3

\* install_pair.
LEMMA InstallStep ==
    ASSUME TunnelInv, requests # <<>>, pending.op = "install", InstallPair(pending)
    PROVE  TunnelInv'
<1> DEFINE c == pending.child
           fits == Cardinality(sad \union Pair(c)) <= SadCapacity
           ok == IF fits THEN TRUE ELSE FALSE
<1>1. /\ sad' = IF fits THEN sad \union Pair(c) ELSE sad
      /\ Answer(pending, fits) /\ UNCHANGED ike
      /\ window' = [window EXCEPT ![c] = EmptyWindow(pending.esn)]
      /\ UNCHANGED <<packets, current, authentic>>
    BY DEF InstallPair
<1>2. /\ c \in Children /\ pending.esn \in BOOLEAN /\ Absent(c)
      /\ Tail(requests) = <<>> /\ answers = <<>>
    BY HeadIsPending DEF Asked
<1>3. /\ requests' = <<>> /\ answers' = <<[op |-> pending.op, ok |-> fits]>>
    <2>1. Append(<<>>, [op |-> pending.op, ok |-> fits])
            = <<[op |-> pending.op, ok |-> fits]>>
        OBVIOUS
    <2> QED BY <1>1, <1>2, <2>1 DEF Answer
<1>4. fits \in BOOLEAN
    OBVIOUS
<1>5. \A d \in Children \ {c} : \A x \in Pair(d) : x \in sad' <=> x \in sad
    BY <1>1, PairIs
<1>6. IF fits THEN Present(c)' ELSE Absent(c)'
    <2>1. UNCHANGED pending
        BY <1>1 DEF ike
    <2> QED BY <1>1, <1>2, <2>1 DEF Present, Absent, Pair
<1> HIDE DEF fits
<1>7. \A d \in Children \ {c} : Present(d)' = Present(d) /\ Absent(d)' = Absent(d)
    BY <1>5 DEF Present, Absent, Pair
<1>8. UNCHANGED <<state, binding, pending, previous, unanswered, idle>>
    BY <1>1 DEF ike
<1>9. Answered'
    BY <1>3, <1>4, <1>6, <1>8 DEF Answered
<1>10. Exchange' /\ Cover'
    BY <1>1, <1>4, <1>7, <1>9, ForwardIke
<1>11. TunnelTypes'
    <2>1. EmptyWindow(pending.esn) \in Window
        BY <1>2, EmptySummary DEF Summary
    <2>2. Pair(c) \subseteq [child : Children, outbound : BOOLEAN]
        BY <1>2, PairIs
    <2>3. sad' \subseteq [child : Children, outbound : BOOLEAN]
        BY <1>1, <2>2 DEF TunnelInv, TunnelTypes
    <2>4. window' \in [Children -> Window]
        BY <1>1, <2>1 DEF TunnelInv, TunnelTypes
    <2> QED BY <1>1, <1>8, <2>3, <2>4 DEF TunnelInv, TunnelTypes
<1>12. ASSUME NEW d \in Children PROVE Inbound(d)'
    <2>1. Inbound(d)
        BY DEF TunnelInv
    <2>2. CASE d # c
        <3>1. window'[d] = window[d]
            BY <1>1, <2>2 DEF TunnelInv, TunnelTypes
        <3>2. HasInbound(d)' = HasInbound(d)
            <4>1. [child |-> d, outbound |-> FALSE] \in Pair(d)
                BY PairIs
            <4> QED BY <1>5, <2>2, <4>1 DEF HasInbound
        <3> QED BY <1>1, <2>1, <3>1, <3>2 DEF Inbound
    <2>3. CASE d = c
        <3>1. ~HasInbound(c)
            BY <1>2, PairIs DEF Absent, HasInbound
        <3>2. packets[c] = 0 /\ current[c] = 0 /\ authentic[c] = {}
            BY <2>1, <2>3, <3>1 DEF Inbound
        <3>3. window'[c] = EmptyWindow(pending.esn)
            BY <1>1, <1>2 DEF TunnelInv, TunnelTypes
        <3>4. Summary(window'[c], authentic'[c])
            BY <1>1, <1>2, <3>2, <3>3, EmptySummary
        <3>5. 0 <= Largest(TRUE) /\ 0 <= Largest(FALSE)
            BY ReplayWindowAssumption DEF Largest
        <3>6. current'[c] <= Largest(window'[c].esn)
            <4>1. window'[c].esn = pending.esn
                BY <3>3 DEF EmptyWindow
            <4>2. current'[c] = 0
                BY <1>1, <3>2
            <4> QED BY <1>2, <3>5, <4>1, <4>2
        <3> QED BY <1>1, <2>3, <3>2, <3>4, <3>6 DEF Inbound
    <2> QED BY <2>2, <2>3
<1> QED BY <1>10, <1>11, <1>12 DEF TunnelInv

\* erase_pair: what was asked to be removed is there.
LEMMA EraseStep ==
    ASSUME TunnelInv, requests # <<>>, pending.op = "remove", ErasePair(pending)
    PROVE  TunnelInv'
<1> DEFINE c == pending.child
<1>1. /\ c \in Children /\ Present(c) /\ Tail(requests) = <<>> /\ answers = <<>>
    BY HeadIsPending DEF Asked
<1>2. /\ sad' = sad \ Pair(c) /\ Answer(pending, TRUE) /\ UNCHANGED ike
      /\ window' = [window EXCEPT ![c] = EmptyWindow(FALSE)]
      /\ packets' = [packets EXCEPT ![c] = 0]
      /\ current' = [current EXCEPT ![c] = 0]
      /\ authentic' = [authentic EXCEPT ![c] = {}]
    BY <1>1 DEF ErasePair, Present
<1>3. requests' = <<>> /\ answers' = <<[op |-> pending.op, ok |-> TRUE]>>
    <2>1. Append(<<>>, [op |-> pending.op, ok |-> TRUE])
            = <<[op |-> pending.op, ok |-> TRUE]>>
        OBVIOUS
    <2> QED BY <1>1, <1>2, <2>1 DEF Answer
<1>4. \A d \in Children \ {c} : \A x \in Pair(d) : x \in sad' <=> x \in sad
    BY <1>2, PairIs
<1>5. Absent(c)'
    <2>1. UNCHANGED pending
        BY <1>2 DEF ike
    <2> QED BY <1>2, <2>1 DEF Absent, Pair
<1>6. \A d \in Children \ {c} : Present(d)' = Present(d) /\ Absent(d)' = Absent(d)
    BY <1>4 DEF Present, Absent, Pair
<1>7. UNCHANGED <<state, binding, pending, previous, unanswered, idle>>
    BY <1>2 DEF ike
<1>8. Answered'
    BY <1>3, <1>5, <1>7 DEF Answered
<1>9. Exchange' /\ Cover'
    BY <1>2, <1>6, <1>8, ForwardIke
<1>10. TunnelTypes'
    <2>1. EmptyWindow(FALSE) \in Window
        BY EmptySummary DEF Summary
    <2>2. /\ window' \in [Children -> Window] /\ packets' \in [Children -> Nat]
          /\ current' \in [Children -> Nat]
          /\ authentic' \in [Children -> SUBSET (Nat \ {0})]
        BY <1>2, <2>1 DEF TunnelInv, TunnelTypes
    <2> QED BY <1>2, <1>7, <2>2 DEF TunnelInv, TunnelTypes
<1>11. ASSUME NEW d \in Children PROVE Inbound(d)'
    <2>1. Inbound(d)
        BY DEF TunnelInv
    <2>2. CASE d # c
        <3>1. /\ window'[d] = window[d] /\ packets'[d] = packets[d]
              /\ current'[d] = current[d] /\ authentic'[d] = authentic[d]
            BY <1>2, <2>2 DEF TunnelInv, TunnelTypes
        <3>2. HasInbound(d)' = HasInbound(d)
            <4>1. [child |-> d, outbound |-> FALSE] \in Pair(d)
                BY PairIs
            <4> QED BY <1>4, <2>2, <4>1 DEF HasInbound
        <3> QED BY <2>1, <3>1, <3>2 DEF Inbound
    <2>3. CASE d = c
        <3>1. /\ window'[c] = EmptyWindow(FALSE) /\ packets'[c] = 0
              /\ current'[c] = 0 /\ authentic'[c] = {}
            BY <1>1, <1>2 DEF TunnelInv, TunnelTypes
        <3>2. Summary(window'[c], authentic'[c])
            BY <3>1, EmptySummary
        <3>3. 0 <= Largest(FALSE) /\ EmptyWindow(FALSE).esn = FALSE
            BY ReplayWindowAssumption DEF Largest, EmptyWindow
        <3> QED BY <2>3, <3>1, <3>2, <3>3 DEF Inbound
    <2> QED BY <2>2, <2>3
<1> QED BY <1>9, <1>10, <1>11 DEF TunnelInv

\* The forwarding owner takes a command.
LEMMA ForwardStep ==
    ASSUME TunnelInv, Forward
    PROVE  TunnelInv'
BY HeadIsPending, InstallStep, EraseStep DEF Forward

-----------------------------------------------------------------------------
(* The traffic of the peer.                                                *)

\* Packets do not touch what IKE and the SAD agreed on.
LEMMA TrafficIke ==
    ASSUME TunnelInv, UNCHANGED <<ike, messages, sad>>
    PROVE  Exchange' /\ Cover'
<1> USE DEF ike, messages
<1>1. /\ UNCHANGED <<state, binding, pending, requests, answers, sad>>
      /\ Bound' = Bound
    BY DEF Bound
<1>2. \A d : Present(d)' = Present(d) /\ Absent(d)' = Absent(d)
    BY DEF Present, Absent
<1>3. Asked' = Asked /\ Answered' = Answered /\ Dropped' = Dropped
    BY <1>1 DEF Asked, Answered, Dropped, Present, Absent
<1>4. Exchange'
    BY <1>1, <1>3 DEF TunnelInv, Exchange
<1>5. Cover'
    BY <1>1, <1>2 DEF TunnelInv, Cover
<1> QED BY <1>4, <1>5

\* protect_esp at the peer.
LEMMA PeerStep ==
    ASSUME TunnelInv, NEW c \in Children, PeerProtect(c)
    PROVE  TunnelInv'
<1>1. /\ HasInbound(c) /\ current[c] < Largest(window[c].esn)
      /\ current' = [current EXCEPT ![c] = current[c] + 1]
      /\ UNCHANGED <<ike, messages, sad, window, packets, authentic>>
    BY DEF PeerProtect
<1>2. Exchange' /\ Cover'
    BY <1>1, TrafficIke
<1>3. current \in [Children -> Nat]
    BY DEF TunnelInv, TunnelTypes
<1>4. TunnelTypes'
    <2>1. current' \in [Children -> Nat]
        BY <1>1, <1>3
    <2>2. UNCHANGED <<state, binding, pending, previous, unanswered, idle>>
        BY <1>1 DEF ike
    <2> QED BY <1>1, <2>1, <2>2 DEF TunnelInv, TunnelTypes
<1>5. ASSUME NEW d \in Children PROVE Inbound(d)'
    <2>1. Inbound(d) /\ Inbound(c)
        BY DEF TunnelInv
    <2>2. HasInbound(d)' = HasInbound(d)
        BY <1>1 DEF HasInbound
    <2>3. CASE d # c
        <3>1. current'[d] = current[d]
            BY <1>1, <1>3, <2>3
        <3> QED BY <1>1, <2>1, <2>2, <3>1 DEF Inbound
    <2>4. CASE d = c
        <3>1. current'[c] = current[c] + 1 /\ current[c] \in Nat
            BY <1>1, <1>3
        <3>2. window[c].esn \in BOOLEAN
            BY <2>1 DEF Inbound, Summary, Window
        <3>3. Largest(window[c].esn) \in Int
            BY <3>2, ReplayWindowAssumption DEF Largest
        <3>4. current'[c] <= Largest(window'[c].esn)
            BY <1>1, <3>1, <3>3
        <3>5. authentic'[c] \subseteq 1 .. current'[c]
            BY <1>1, <2>1, <3>1 DEF Inbound
        <3> QED BY <1>1, <2>1, <2>2, <2>4, <3>4, <3>5 DEF Inbound
    <2> QED BY <2>3, <2>4
<1> QED BY <1>2, <1>4, <1>5 DEF TunnelInv

\* unprotect_esp: what it takes was sent and not taken before.
LEMMA UnprotectStep ==
    ASSUME TunnelInv, NEW c \in Children, NEW s \in 1 .. current[c],
           NEW ok \in BOOLEAN, Unprotect(c, s, ok)
    PROVE  /\ TunnelInv'
           /\ authentic'[c] # authentic[c]
           /\ \A d \in Children \ {c} : packets'[d] = packets[d]
<1>1. /\ HasInbound(c) /\ CanCommit(window[c], s)
      /\ window' = [window EXCEPT ![c] = Commit(window[c], s)]
      /\ authentic' = [authentic EXCEPT ![c] = authentic[c] \union {s}]
      /\ packets' = IF ok /\ ~HardExpired(packets[c])
                    THEN [packets EXCEPT ![c] = packets[c] + 1] ELSE packets
      /\ UNCHANGED <<ike, messages, sad, current>>
    BY DEF Unprotect
<1>2. /\ window \in [Children -> Window] /\ packets \in [Children -> Nat]
      /\ current \in [Children -> Nat]
      /\ authentic \in [Children -> SUBSET (Nat \ {0})]
    BY DEF TunnelInv, TunnelTypes
<1>3. Exchange' /\ Cover'
    BY <1>1, TrafficIke
<1>4. s \in Nat \ {0} /\ s <= current[c]
    BY <1>2
<1>5. Inbound(c)
    BY DEF TunnelInv
<1>6. /\ s \notin authentic[c]
      /\ Summary(Commit(window[c], s), authentic[c] \union {s})
      /\ Commit(window[c], s).esn = window[c].esn
    BY <1>1, <1>4, <1>5, CommitSummary DEF Inbound
<1>7. /\ window'[c] = Commit(window[c], s)
      /\ authentic'[c] = authentic[c] \union {s}
    BY <1>1, <1>2
<1>8. TunnelTypes'
    <2>1. window' \in [Children -> Window]
        BY <1>1, <1>2, <1>6 DEF Summary
    <2>2. authentic' \in [Children -> SUBSET (Nat \ {0})]
        BY <1>1, <1>2, <1>4
    <2>3. packets' \in [Children -> Nat]
        BY <1>1, <1>2
    <2>4. UNCHANGED <<state, binding, pending, previous, unanswered, idle>>
        BY <1>1 DEF ike
    <2> QED BY <1>1, <2>1, <2>2, <2>3, <2>4 DEF TunnelInv, TunnelTypes
<1>9. \A d \in Children \ {c} : packets'[d] = packets[d]
    BY <1>1, <1>2
<1>10. ASSUME NEW d \in Children PROVE Inbound(d)'
    <2>1. Inbound(d)
        BY DEF TunnelInv
    <2>2. HasInbound(d)' = HasInbound(d)
        BY <1>1 DEF HasInbound
    <2>3. CASE d # c
        <3>1. /\ window'[d] = window[d] /\ authentic'[d] = authentic[d]
              /\ packets'[d] = packets[d]
            BY <1>1, <1>2, <1>9, <2>3
        <3> QED BY <1>1, <2>1, <2>2, <3>1 DEF Inbound
    <2>4. CASE d = c
        <3>1. authentic'[c] \subseteq 1 .. current'[c]
            BY <1>1, <1>4, <1>5, <1>7 DEF Inbound
        <3>2. current'[c] <= Largest(window'[c].esn)
            BY <1>1, <1>5, <1>6, <1>7 DEF Inbound
        <3> QED BY <1>1, <1>6, <1>7, <2>2, <2>4, <3>1, <3>2 DEF Inbound
    <2> QED BY <2>3, <2>4
<1>11. TunnelInv'
    BY <1>3, <1>8, <1>10 DEF TunnelInv
<1> QED BY <1>6, <1>7, <1>9, <1>11

\* Every step keeps the invariant.
LEMMA NextTunnel == TunnelInv /\ [Next]_vars => TunnelInv'
<1> SUFFICES ASSUME TunnelInv, [Next]_vars PROVE TunnelInv'
    OBVIOUS
<1>1. CASE UNCHANGED vars
    <2>1. /\ UNCHANGED <<binding, pending, previous, messages, sad, traffic>>
          /\ UNCHANGED <<state, idle, unanswered>>
        BY <1>1 DEF vars, ike
    <2>2. /\ state' \in States /\ idle' \in BOOLEAN
          /\ unanswered' \in 0 .. MaximumUnanswered
          /\ state' = "closed" => Bound = {} /\ pending = NoRequest
        BY <2>1 DEF TunnelInv, TunnelTypes, Cover
    <2> QED BY <2>1, <2>2, StateStep
<1>2. CASE Traffic
    BY <1>2, PeerStep, UnprotectStep DEF Traffic
<1> QED BY <1>1, <1>2, ControlStep, ForwardStep DEF Next

\* The invariant holds throughout.
LEMMA TunnelInvariant == Spec => []TunnelInv
BY InitTunnel, NextTunnel, PTL DEF Spec

-----------------------------------------------------------------------------
(* The theorems.                                                           *)

\* The replay window of every inbound association is at all times the exact
\* summary of the packets authenticated so far, and one that restore() takes.
THEOREM WindowsExact == Spec => []WindowSummarises
<1>1. TunnelInv => WindowSummarises
    BY DEF TunnelInv, Inbound, Summary, WindowSummarises
<1> QED BY <1>1, TunnelInvariant, PTL

\* check() finds a packet that arrives for the first time within reach of the
\* window admissible with the sequence number it was sent with, also when the
\* low word has wrapped in between.
THEOREM FreshPacketsPass == Spec => []FreshPacketAdmitted
<1>1. TunnelInv => FreshPacketAdmitted
    <2> SUFFICES ASSUME TunnelInv, NEW c \in Children,
                        NEW s \in (1 .. current[c]) \ authentic[c],
                        InReach(window[c], s)
                 PROVE  Admissible(window[c], Low(s)) = {s} /\ CanCommit(window[c], s)
        BY DEF FreshPacketAdmitted
    <2>1. current[c] \in Nat /\ window[c] \in Window
        BY DEF TunnelInv, TunnelTypes
    <2>2. s \in Nat \ {0} /\ s <= current[c] /\ s \notin authentic[c]
        BY <2>1
    <2>3. Largest(window[c].esn) \in Int
        BY <2>1, ReplayWindowAssumption DEF Largest, Window
    <2>4. Summary(window[c], authentic[c]) /\ current[c] <= Largest(window[c].esn)
        BY DEF TunnelInv, Inbound
    <2>5. s <= Largest(window[c].esn)
        BY <2>1, <2>2, <2>3, <2>4
    <2> QED BY <2>2, <2>4, <2>5, FreshIsAdmitted
<1> QED BY <1>1, TunnelInvariant, PTL

\* install_pair() and erase_pair() leave both directions of a child SA in the
\* SAD or neither.
THEOREM PairsWhole == Spec => []SadHoldsWholePairs
<1>1. TunnelInv => SadHoldsWholePairs
    <2> SUFFICES ASSUME TunnelInv, NEW c \in Children
                 PROVE  Pair(c) \cap sad \in {{}, Pair(c)}
        BY DEF SadHoldsWholePairs
    <2>1. Present(c) \/ Absent(c)
        <3>1. CASE c # pending.child
            BY <3>1 DEF TunnelInv, Cover
        <3>2. CASE c = pending.child
            <4>1. pending # NoRequest
                BY <3>2, IpsecTunnelAssumption DEF NoRequest
            <4> QED BY <3>2, <4>1 DEF TunnelInv, Exchange, Asked, Answered, Dropped
        <3> QED BY <3>1, <3>2
    <2> QED BY <2>1 DEF Present, Absent
<1> QED BY <1>1, TunnelInvariant, PTL

\* The child SAs the IKE SA believes in are installed, apart from the one whose
\* removal is under way, and no more than the rekey headroom allows.
THEOREM BindingsBacked == Spec => []BindingsInstalled
<1>1. TunnelInv => BindingsInstalled
    BY DEF TunnelInv, Cover, BindingsInstalled, Present, Bound
<1> QED BY <1>1, TunnelInvariant, PTL

\* complete_ike_delete() closes the IKE SA only when the SAD has nothing of it
\* and no request to the forwarding owner is under way.
THEOREM ClosesClean == Spec => []ClosedLeavesNothing
<1>1. TunnelInv => ClosedLeavesNothing
    <2> SUFFICES ASSUME TunnelInv, state = "closed" PROVE sad = {} /\ requests = <<>>
        BY DEF ClosedLeavesNothing
    <2>1. Bound = {} /\ pending = NoRequest
        BY DEF TunnelInv, Cover
    <2>2. pending.child = 0 /\ 0 \notin Children
        BY <2>1, IpsecTunnelAssumption DEF NoRequest
    <2>3. \A c \in Children : Absent(c)
        BY <2>1, <2>2 DEF TunnelInv, Cover
    <2>4. \A x \in sad : x \in Pair(x.child) /\ x.child \in Children
        <3> SUFFICES ASSUME NEW x \in sad PROVE x \in Pair(x.child) /\ x.child \in Children
            OBVIOUS
        <3>1. x \in [child : Children, outbound : BOOLEAN]
            BY DEF TunnelInv, TunnelTypes
        <3>2. x \in [child : {x.child}, outbound : BOOLEAN]
            BY <3>1
        <3> QED BY <3>1, <3>2, PairIs
    <2>5. sad = {}
        BY <2>3, <2>4 DEF Absent
    <2> QED BY <2>1, <2>5 DEF TunnelInv, Exchange
<1> QED BY <1>1, TunnelInvariant, PTL

\* Every packet that unprotect_esp() hands up is one that was not handed up
\* before.
THEOREM NothingReplayed == Spec => NoReplay
<1> DEFINE Replayed == \A c \in Children :
                         packets'[c] > packets[c] => authentic'[c] # authentic[c]
<1>1. TunnelInv /\ [Next]_vars => [Replayed]_vars
    <2> SUFFICES ASSUME TunnelInv, Next PROVE Replayed
        OBVIOUS
    <2>1. packets \in [Children -> Nat]
        BY DEF TunnelInv, TunnelTypes
    <2>2. CASE UNCHANGED packets
        BY <2>1, <2>2
    <2>3. CASE Control
        BY <2>2, <2>3
           DEF Control, BeginInitialExchange, CompleteInitialExchange,
               CompleteAuthentication, IkeStep, BeginChildInstall,
               CompleteChildInstall, BeginChildDelete, CompleteChildDelete,
               BeginIkeDelete, CompleteIkeDelete, NoteAuthenticatedActivity,
               IdleIntervalPasses, PollLiveness, traffic
    <2>4. CASE Forward
        <3>1. \A c \in Children : packets'[c] = packets[c] \/ packets'[c] = 0
            BY <2>1, <2>4 DEF Forward, InstallPair, ErasePair, traffic
        <3> QED BY <2>1, <3>1
    <2>5. CASE Traffic
        <3>1. PICK c \in Children :
                \/ PeerProtect(c)
                \/ \E s \in 1 .. current[c], ok \in BOOLEAN : Unprotect(c, s, ok)
            BY <2>5 DEF Traffic
        <3>2. CASE PeerProtect(c)
            BY <2>2, <3>2 DEF PeerProtect
        <3>3. CASE \E s \in 1 .. current[c], ok \in BOOLEAN : Unprotect(c, s, ok)
            <4>1. /\ authentic'[c] # authentic[c]
                  /\ \A d \in Children \ {c} : packets'[d] = packets[d]
                BY <3>3, UnprotectStep
            <4> QED BY <2>1, <4>1
        <3> QED BY <3>1, <3>2, <3>3
    <2> QED BY <2>3, <2>4, <2>5 DEF Next
<1>2. NoReplay <=> [][Replayed]_vars
    BY DEF NoReplay
<1> QED BY <1>1, <1>2, TunnelInvariant, PTL DEF Spec
=============================================================================
