-------------------------- MODULE SessionWorkflows --------------------------
(***************************************************************************)
(* Candidate arbitration of one router: SessionWorkflowController with the *)
(* part of SessionRegistry it consults.  Terminal sessions enter one of    *)
(* four configuration modes, record edited schema paths (keys) and commit. *)
(* Private sessions own a change set and a base generation; global,        *)
(* exclusive and read-only sessions share the router's global change set   *)
(* and its baseline.  A table of revisions, one generation per key that    *)
(* was ever committed, detects conflicting commits.                        *)
(*                                                                         *)
(* All calls run on the control shard, so each is one atomic step; a call  *)
(* that returns an error changes nothing and is a stuttering step.  State  *)
(* is per router and sessions never change router, so one router is        *)
(* enough.  The values of the keys are in CandidateDatastores.             *)
(***************************************************************************)
EXTENDS Naturals, FiniteSets

CONSTANTS Sessions,       \* session slots of the router
          Keys,           \* schema path identities (never 0 in the code)
          SessionKeys,    \* candidate_keys_per_session
          RouterKeys,     \* candidate_keys_per_router
          MaxRunning      \* bound on running_generation (64 bits in the code)

ASSUME SessionWorkflowsAssumption ==
    /\ SessionKeys \in Nat
    /\ RouterKeys \in Nat
    /\ MaxRunning \in Nat

VARIABLES
    mode,             \* CandidateMode of each slot, or "closed"
    base,             \* SessionRecord::base_generation
    changes,          \* SessionCandidate::changes, the private change set
    running,          \* running_generation
    globalBaseline,   \* global_baseline
    globalKeys,       \* global_keys[0..global_count)
    revisions,        \* generation of the last commit of a key, 0 if none
    since,            \* history: keys committed by others since base[s]
    globalSince       \* history: keys committed since globalBaseline

sessionVars == <<mode, base, changes, since>>
routerVars  == <<running, globalBaseline, globalKeys, revisions, globalSince>>
workflowVars == <<sessionVars, routerVars>>

CandidateMode == {"operational", "global", "exclusive", "private", "read_only"}
SharedModes   == {"global", "exclusive", "read_only"}

Holders(m) == {s \in Sessions : mode[s] = m}

-----------------------------------------------------------------------------

\* A router slot that was never used, or was cleared by close_device, is
\* re-initialised by router() on its next use to exactly these values.
FreshRouter ==
    /\ running = 1
    /\ globalBaseline = 1
    /\ globalKeys = {}
    /\ revisions = [k \in Keys |-> 0]
    /\ globalSince = {}

Init ==
    /\ mode = [s \in Sessions |-> "closed"]
    /\ base = [s \in Sessions |-> 0]
    /\ changes = [s \in Sessions |-> {}]
    /\ since = [s \in Sessions |-> {}]
    /\ FreshRouter

-----------------------------------------------------------------------------
(* The running datastore.                                                  *)

Recorded == {k \in Keys : revisions[k] # 0}

\* apply() validates every key before it changes anything: no key may have a
\* revision newer than the baseline, and the table must have room.
CanApply(keys, baseline) ==
    /\ \A k \in keys : revisions[k] <= baseline
    /\ Cardinality(Recorded) + Cardinality(keys \ Recorded) <= RouterKeys
    /\ keys # {} => running < MaxRunning

Apply(keys) ==
    /\ running' = IF keys = {} THEN running ELSE running + 1
    /\ revisions' = [k \in Keys |-> IF k \in keys THEN running' ELSE revisions[k]]

\* History: the session s (or the global candidate) has just adopted the
\* running datastore as its baseline; every other one observes new commits.
Observe(s, keys) ==
    since' = [t \in Sessions |->
                 IF t # s /\ mode[t] = "private" THEN since[t] \cup keys ELSE {}]

-----------------------------------------------------------------------------
(* Sessions.                                                               *)

Create(s) ==
    /\ mode[s] = "closed"
    /\ mode' = [mode EXCEPT ![s] = "operational"]
    /\ UNCHANGED <<base, changes, since, routerVars>>

Enter(s, m) ==
    /\ mode[s] = "operational"
    /\ m = "exclusive" => /\ Holders("exclusive") = {}
                          /\ Holders("global") = {}
                          /\ globalKeys = {}
    /\ m = "global" => Holders("exclusive") = {}
    /\ mode' = [mode EXCEPT ![s] = m]
    /\ base' = [base EXCEPT ![s] = IF m = "private" THEN running ELSE globalBaseline]
    /\ changes' = [changes EXCEPT ![s] = {}]
    /\ since' = [since EXCEPT ![s] = {}]
    /\ UNCHANGED routerVars

\* The shared change set is emptied and follows running again.
ClearGlobal ==
    /\ globalKeys' = {}
    /\ globalBaseline' = running
    /\ globalSince' = {}
    /\ UNCHANGED <<running, revisions>>

ClearGlobalIf(c) == IF c THEN ClearGlobal ELSE UNCHANGED routerVars

\* Leaving a configuration mode.  Dirty private and exclusive exits need the
\* discard flag; exclusive exit discards the shared change set, global exit
\* keeps it for the other sessions.
Leave(s, discard) ==
    /\ mode[s] \notin {"closed", "operational"}
    /\ mode[s] = "private" /\ changes[s] # {} => discard
    /\ mode[s] = "exclusive" /\ globalKeys # {} => discard
    /\ ClearGlobalIf(mode[s] = "exclusive")
    /\ mode' = [mode EXCEPT ![s] = "operational"]
    /\ base' = [base EXCEPT ![s] = 0]
    /\ changes' = [changes EXCEPT ![s] = IF mode[s] = "private" THEN {} ELSE @]
    /\ since' = [since EXCEPT ![s] = {}]

\* In-place transition between the modes that share the global candidate.
\* Only the exclusive target looks at the other sessions.
Transition(s, target, discard) ==
    /\ mode[s] \in SharedModes
    /\ target \in SharedModes \ {mode[s]}
    /\ mode[s] = "exclusive" /\ globalKeys # {} => discard
    /\ target = "exclusive" =>
          \A t \in Sessions \ {s} : mode[t] \notin {"global", "exclusive"}
    /\ ClearGlobalIf(mode[s] = "exclusive" /\ discard)
    /\ mode' = [mode EXCEPT ![s] = target]
    /\ base' = [base EXCEPT ![s] = globalBaseline']
    /\ UNCHANGED <<changes, since>>

\* A slip in record_edit(): the first edit keeps the old baseline, the
\* baseline is taken again at every later one.
RecordEditRebasing(s, k) ==
    /\ mode[s] \in {"private", "global", "exclusive"}
    /\ IF mode[s] = "private"
       THEN /\ k \in changes[s] \/ Cardinality(changes[s]) < SessionKeys
            /\ changes' = [changes EXCEPT ![s] = @ \cup {k}]
            /\ UNCHANGED <<globalKeys, globalBaseline, globalSince>>
       ELSE /\ k \in globalKeys \/ Cardinality(globalKeys) < RouterKeys
            /\ globalKeys' = globalKeys \cup {k}
            /\ globalBaseline' = running
            /\ UNCHANGED <<changes, globalSince>>
    /\ UNCHANGED <<mode, base, since, running, revisions>>

\* An edit of one schema path.  The first edit of a clean global candidate
\* takes the current running generation as its baseline.
RecordEdit(s, k) ==
    /\ mode[s] \in {"private", "global", "exclusive"}
    /\ IF mode[s] = "private"
       THEN /\ k \in changes[s] \/ Cardinality(changes[s]) < SessionKeys
            /\ changes' = [changes EXCEPT ![s] = @ \cup {k}]
            /\ UNCHANGED <<globalKeys, globalBaseline, globalSince>>
       ELSE /\ k \in globalKeys \/ Cardinality(globalKeys) < RouterKeys
            /\ globalKeys' = globalKeys \cup {k}
            /\ globalBaseline' = IF globalKeys = {} THEN running ELSE globalBaseline
            /\ globalSince' = IF globalKeys = {} THEN {} ELSE globalSince
            /\ UNCHANGED changes
    /\ UNCHANGED <<mode, base, since, running, revisions>>

\* The clean global baseline follows running, a dirty one is kept.
FollowRunning(keys) ==
    /\ globalBaseline' = IF globalKeys = {} THEN running' ELSE globalBaseline
    /\ globalSince' = IF globalKeys = {} THEN {} ELSE globalSince \cup keys
    /\ UNCHANGED globalKeys

CommitPrivate(s) ==
    /\ mode[s] = "private"
    /\ Holders("exclusive") = {}
    /\ CanApply(changes[s], base[s])
    /\ Apply(changes[s])
    /\ Observe(s, changes[s])
    /\ FollowRunning(changes[s])
    /\ changes' = [changes EXCEPT ![s] = {}]
    /\ base' = [base EXCEPT ![s] = running']
    /\ UNCHANGED mode

\* A slip in commit(): the lock of an exclusive session is not consulted.
CommitGlobalIgnoringLock(s) ==
    /\ mode[s] \in {"global", "exclusive"}
    /\ CanApply(globalKeys, globalBaseline)
    /\ Apply(globalKeys)
    /\ Observe(s, globalKeys)
    /\ globalKeys' = {}
    /\ globalBaseline' = running'
    /\ globalSince' = {}
    /\ base' = [base EXCEPT ![s] = running']
    /\ UNCHANGED <<mode, changes>>

CommitGlobal(s) ==
    /\ mode[s] \in {"global", "exclusive"}
    /\ mode[s] = "global" => Holders("exclusive") = {}
    /\ CanApply(globalKeys, globalBaseline)
    /\ Apply(globalKeys)
    /\ Observe(s, globalKeys)
    /\ globalKeys' = {}
    /\ globalBaseline' = running'
    /\ globalSince' = {}
    /\ base' = [base EXCEPT ![s] = running']
    /\ UNCHANGED <<mode, changes>>

\* A classic CLI command that changed the running value.  It is authorised
\* against the exclusive lock and recorded in the same control-shard turn.
ClassicWrite(k) ==
    /\ Holders("exclusive") = {}
    /\ CanApply({k}, running)
    /\ Apply({k})
    /\ since' = [t \in Sessions |-> IF mode[t] = "private" THEN since[t] \cup {k} ELSE {}]
    /\ FollowRunning({k})
    /\ UNCHANGED <<mode, base, changes>>

Discard(s) ==
    /\ mode[s] \in {"private", "global", "exclusive"}
    /\ ClearGlobalIf(mode[s] # "private")
    /\ changes' = [changes EXCEPT ![s] = IF mode[s] = "private" THEN {} ELSE @]
    /\ base' = [base EXCEPT ![s] = running]
    /\ since' = [since EXCEPT ![s] = {}]
    /\ UNCHANGED mode

\* A transport disconnect confirms the discard implicitly.
Close(s) ==
    /\ mode[s] # "closed"
    /\ ClearGlobalIf(mode[s] = "exclusive")
    /\ mode' = [mode EXCEPT ![s] = "closed"]
    /\ base' = [base EXCEPT ![s] = 0]
    /\ changes' = [changes EXCEPT ![s] = {}]
    /\ since' = [since EXCEPT ![s] = {}]

\* Router deletion closes every session and forgets the whole slot; the next
\* router in the slot starts from FreshRouter.
CloseDevice ==
    /\ mode' = [s \in Sessions |-> "closed"]
    /\ base' = [s \in Sessions |-> 0]
    /\ changes' = [s \in Sessions |-> {}]
    /\ since' = [s \in Sessions |-> {}]
    /\ running' = 1
    /\ globalBaseline' = 1
    /\ globalKeys' = {}
    /\ revisions' = [k \in Keys |-> 0]
    /\ globalSince' = {}

Next ==
    \/ CloseDevice
    \/ \E k \in Keys : ClassicWrite(k)
    \/ \E s \in Sessions :
          \/ Create(s) \/ CommitPrivate(s) \/ CommitGlobal(s)
          \/ Discard(s) \/ Close(s)
          \/ \E m \in CandidateMode \ {"operational"} : Enter(s, m)
          \/ \E d \in BOOLEAN : Leave(s, d)
          \/ \E t \in SharedModes, d \in BOOLEAN : Transition(s, t, d)
          \/ \E k \in Keys : RecordEdit(s, k)

Spec == Init /\ [][Next]_workflowVars

-----------------------------------------------------------------------------
(* Properties.                                                             *)

\* The state has its types; generations stay below the model's bound.
TypeOK ==
    /\ mode \in [Sessions -> CandidateMode \cup {"closed"}]
    /\ base \in [Sessions -> Nat]
    /\ changes \in [Sessions -> SUBSET Keys]
    /\ running \in Nat \ {0}
    /\ globalBaseline \in Nat
    /\ globalKeys \in SUBSET Keys
    /\ revisions \in [Keys -> Nat]
    /\ since \in [Sessions -> SUBSET Keys]
    /\ globalSince \in SUBSET Keys

\* enter() and transition() never give two sessions the exclusive datastore.
AtMostOneExclusive ==
    \A s, t \in Sessions : mode[s] = "exclusive" /\ mode[t] = "exclusive" => s = t

\* No generation the controller stores is ahead of running_generation, so a
\* comparison with running_generation is a comparison in time.
GenerationsBehindRunning ==
    /\ globalBaseline <= running
    /\ \A s \in Sessions : base[s] <= running
    /\ \A k \in Keys : revisions[k] <= running

\* A clean global candidate has the running generation as its baseline,
\* whichever of commit, classic_write, discard, leave, transition or
\* close_device made it clean or moved running while it was clean.
CleanBaselineIsRunning ==
    globalKeys = {} => globalBaseline = running

\* The revision table finds exactly the conflicts: a key counts as newer than
\* the baseline of a private session, or of the global candidate, if and only
\* if somebody else committed that key since the baseline was taken.
ConflictDetectionExact ==
    /\ \A s \in Sessions :
          mode[s] = "private" => {k \in Keys : revisions[k] > base[s]} = since[s]
    /\ {k \in Keys : revisions[k] > globalBaseline} = globalSince

\* While a session is exclusive, running changes only by a commit of the
\* candidate that session owns (which that commit leaves empty), or by the
\* deletion of the router: commit() of others and classic_write() are refused.
RunningLockedByExclusive ==
    [][ \A s \in Sessions :
          mode[s] = "exclusive" /\ mode'[s] = "exclusive" /\ running' # running
             => base'[s] = running' ]_workflowVars

\* enter() says of the two modes that they are mutually exclusive: no session
\* edits the global candidate while another one owns it exclusively.
ExclusiveExcludesGlobal ==
    Holders("exclusive") # {} => Holders("global") = {}

=============================================================================
