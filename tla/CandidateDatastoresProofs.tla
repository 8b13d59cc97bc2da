--------------------- MODULE CandidateDatastoresProofs ---------------------
(***************************************************************************)
(* Two parts.  First the candidate arbitration of SessionWorkflows, for    *)
(* any number of sessions, keys and commits.  The inductive invariant is   *)
(* the conjunction of its invariants: exact conflict detection needs that  *)
(* no stored generation is ahead of running and that a clean global        *)
(* baseline follows running.                                               *)
(*                                                                         *)
(* Then the composition of the datastores with the workflow controller: it *)
(* keeps what the controller promises, because every command of LabRuntime *)
(* makes one call of the controller, or none.  So the results about the    *)
(* controller become results about the whole, for any sets of sessions,    *)
(* keys and values.                                                        *)
(***************************************************************************)
EXTENDS CandidateDatastores, TLAPS

IInv ==
    /\ TypeOK
    /\ AtMostOneExclusive
    /\ GenerationsBehindRunning
    /\ CleanBaselineIsRunning
    /\ ConflictDetectionExact

\* Init establishes the inductive invariant.
LEMMA InitIInv == Init => IInv
  BY DEF Init, FreshRouter, IInv, TypeOK, CandidateMode, AtMostOneExclusive,
         GenerationsBehindRunning, CleanBaselineIsRunning, ConflictDetectionExact

\* What a commit of a set of keys does to the running datastore.
LEMMA ApplyStep ==
  ASSUME TypeOK, GenerationsBehindRunning, NEW keys \in SUBSET Keys, Apply(keys)
  PROVE  /\ running' \in Nat \ {0}
         /\ running <= running'
         /\ revisions' \in [Keys -> Nat]
         /\ \A k \in Keys : revisions'[k] <= running'
         /\ \A k \in keys : revisions'[k] > running
         /\ \A k \in Keys \ keys : revisions'[k] = revisions[k]
  <1>1. CASE keys = {}
    BY <1>1 DEF TypeOK, GenerationsBehindRunning, Apply
  <1>2. CASE keys # {}
    BY <1>2 DEF TypeOK, GenerationsBehindRunning, Apply
  <1> QED BY <1>1, <1>2

\* A baseline that stays behind running sees exactly the committed keys as new.
LEMMA NewerKeys ==
  ASSUME TypeOK, GenerationsBehindRunning, NEW keys \in SUBSET Keys, Apply(keys),
         NEW baseline \in Nat, baseline <= running
  PROVE  {k \in Keys : revisions'[k] > baseline}
           = {k \in Keys : revisions[k] > baseline} \cup keys
  <1>1. ASSUME NEW k \in Keys
        PROVE  revisions'[k] > baseline <=> (revisions[k] > baseline \/ k \in keys)
    <2>1. CASE k \in keys
      BY <2>1, ApplyStep DEF TypeOK
    <2>2. CASE k \notin keys
      BY <2>2, ApplyStep
    <2> QED BY <2>1, <2>2
  <1> QED BY <1>1

\* A baseline at the new running generation sees nothing as new.
LEMMA NothingNewer ==
  ASSUME TypeOK, GenerationsBehindRunning, NEW keys \in SUBSET Keys, Apply(keys)
  PROVE  {k \in Keys : revisions'[k] > running'} = {}
  BY ApplyStep DEF TypeOK

\* Clearing the shared change set, or leaving it alone, keeps the router part
\* of the invariant.
LEMMA ClearGlobalStep ==
  ASSUME IInv, NEW c \in BOOLEAN, ClearGlobalIf(c)
  PROVE  /\ running' = running
         /\ revisions' = revisions
         /\ globalBaseline' \in Nat
         /\ globalKeys' \in SUBSET Keys
         /\ globalSince' \in SUBSET Keys
         /\ globalBaseline' <= running'
         /\ CleanBaselineIsRunning'
         /\ {k \in Keys : revisions'[k] > globalBaseline'} = globalSince'
  <1>1. CASE c
    BY <1>1 DEF IInv, TypeOK, ClearGlobalIf, ClearGlobal, GenerationsBehindRunning,
                CleanBaselineIsRunning
  <1>2. CASE ~c
    BY <1>2 DEF IInv, TypeOK, ClearGlobalIf, routerVars, GenerationsBehindRunning,
                CleanBaselineIsRunning, ConflictDetectionExact
  <1> QED BY <1>1, <1>2

\* The invariant of the sessions, given one whose own entry may change and
\* others whose entries do not, when running and the revisions are unchanged.
LEMMA SessionStep ==
  ASSUME IInv, NEW s \in Sessions,
         running' = running, revisions' = revisions,
         NEW m \in CandidateMode \cup {"closed"}, mode' = [mode EXCEPT ![s] = m],
         NEW b \in Nat, b <= running, base' = [base EXCEPT ![s] = b],
         NEW c \in SUBSET Keys, changes' = [changes EXCEPT ![s] = c],
         NEW n \in SUBSET Keys, since' = [since EXCEPT ![s] = n],
         m = "private" => {k \in Keys : revisions[k] > b} = n,
         m = "exclusive" => \A t \in Sessions \ {s} : mode[t] # "exclusive",
         globalBaseline' \in Nat, globalKeys' \in SUBSET Keys,
         globalSince' \in SUBSET Keys, globalBaseline' <= running',
         CleanBaselineIsRunning',
         {k \in Keys : revisions'[k] > globalBaseline'} = globalSince'
  PROVE  IInv'
  <1>1. TypeOK'
    BY DEF IInv, TypeOK
  <1>2. AtMostOneExclusive'
    BY DEF IInv, TypeOK, AtMostOneExclusive
  <1>3. GenerationsBehindRunning'
    BY DEF IInv, TypeOK, GenerationsBehindRunning
  <1>4. ASSUME NEW t \in Sessions, mode'[t] = "private"
        PROVE  {k \in Keys : revisions'[k] > base'[t]} = since'[t]
    <2>1. CASE t = s
      BY <1>4, <2>1 DEF IInv, TypeOK
    <2>2. CASE t # s
      BY <1>4, <2>2 DEF IInv, TypeOK, ConflictDetectionExact
    <2> QED BY <2>1, <2>2
  <1>5. ConflictDetectionExact'
    BY <1>4 DEF ConflictDetectionExact
  <1> QED BY <1>1, <1>2, <1>3, <1>5 DEF IInv

\* A commit by the session s, which adopts the new running generation.
LEMMA CommitStep ==
  ASSUME IInv, NEW s \in Sessions, NEW keys \in SUBSET Keys,
         Apply(keys), Observe(s, keys),
         mode' = mode, base' = [base EXCEPT ![s] = running'],
         changes' \in [Sessions -> SUBSET Keys],
         globalBaseline' \in Nat, globalKeys' \in SUBSET Keys,
         globalSince' \in SUBSET Keys, globalBaseline' <= running',
         CleanBaselineIsRunning',
         {k \in Keys : revisions'[k] > globalBaseline'} = globalSince'
  PROVE  IInv'
  <1>0. /\ TypeOK /\ GenerationsBehindRunning /\ AtMostOneExclusive
        /\ ConflictDetectionExact
    BY DEF IInv
  <1>a. /\ running' \in Nat \ {0} /\ running <= running'
        /\ revisions' \in [Keys -> Nat]
        /\ \A k \in Keys : revisions'[k] <= running'
    BY <1>0, ApplyStep
  <1>1. TypeOK'
    BY <1>0, <1>a DEF TypeOK, Observe
  <1>2. AtMostOneExclusive'
    BY <1>0 DEF AtMostOneExclusive
  <1>3. GenerationsBehindRunning'
    BY <1>0, <1>a DEF TypeOK, GenerationsBehindRunning
  <1>4. ASSUME NEW t \in Sessions, mode'[t] = "private"
        PROVE  {k \in Keys : revisions'[k] > base'[t]} = since'[t]
    <2>1. CASE t = s
      <3>1. base'[t] = running' /\ since'[t] = {}
        BY <2>1, <1>0 DEF TypeOK, Observe
      <3> QED BY <3>1, <1>0, NothingNewer
    <2>2. CASE t # s
      <3>1. base'[t] = base[t] /\ base[t] \in Nat /\ base[t] <= running
        BY <2>2, <1>0 DEF TypeOK, GenerationsBehindRunning
      <3>2. since'[t] = since[t] \cup keys
        BY <1>4, <2>2, <1>0 DEF TypeOK, Observe
      <3>3. {k \in Keys : revisions[k] > base[t]} = since[t]
        BY <1>4, <1>0 DEF ConflictDetectionExact
      <3>4. {k \in Keys : revisions'[k] > base[t]}
              = {k \in Keys : revisions[k] > base[t]} \cup keys
        BY <3>1, <1>0, NewerKeys
      <3> QED BY <3>1, <3>2, <3>3, <3>4
    <2> QED BY <2>1, <2>2
  <1>5. ConflictDetectionExact'
    BY <1>4 DEF ConflictDetectionExact
  <1> QED BY <1>1, <1>2, <1>3, <1>5 DEF IInv

\* The baseline of the shared candidate after a commit that is not its own.
LEMMA FollowRunningStep ==
  ASSUME IInv, NEW keys \in SUBSET Keys, Apply(keys), FollowRunning(keys)
  PROVE  /\ globalBaseline' \in Nat
         /\ globalKeys' \in SUBSET Keys
         /\ globalSince' \in SUBSET Keys
         /\ globalBaseline' <= running'
         /\ CleanBaselineIsRunning'
         /\ {k \in Keys : revisions'[k] > globalBaseline'} = globalSince'
  <1>0. TypeOK /\ GenerationsBehindRunning /\ ConflictDetectionExact
    BY DEF IInv
  <1>1. running' \in Nat \ {0} /\ running <= running'
    BY <1>0, ApplyStep
  <1>2. CASE globalKeys = {}
    <2>1. globalBaseline' = running' /\ globalSince' = {} /\ globalKeys' = {}
      BY <1>2 DEF FollowRunning
    <2>2. {k \in Keys : revisions'[k] > running'} = {}
      BY <1>0, NothingNewer
    <2> QED BY <1>1, <2>1, <2>2 DEF CleanBaselineIsRunning
  <1>3. CASE globalKeys # {}
    <2>1. /\ globalBaseline' = globalBaseline /\ globalKeys' = globalKeys
          /\ globalSince' = globalSince \cup keys
      BY <1>3 DEF FollowRunning
    <2>2. globalBaseline \in Nat /\ globalBaseline <= running
      BY <1>0 DEF TypeOK, GenerationsBehindRunning
    <2>3. {k \in Keys : revisions'[k] > globalBaseline}
            = {k \in Keys : revisions[k] > globalBaseline} \cup keys
      BY <1>0, <2>2, NewerKeys
    <2>4. {k \in Keys : revisions[k] > globalBaseline} = globalSince
      BY <1>0 DEF ConflictDetectionExact
    <2>5. globalSince \in SUBSET Keys /\ globalKeys \in SUBSET Keys /\ running \in Nat
      BY <1>0 DEF TypeOK
    <2>6. globalBaseline' <= running'
      BY <1>1, <2>1, <2>2, <2>5
    <2> QED BY <1>3, <2>1, <2>2, <2>3, <2>4, <2>5, <2>6 DEF CleanBaselineIsRunning
  <1> QED BY <1>2, <1>3

\* A step that leaves the router alone keeps the router part of the invariant.
LEMMA RouterUnchanged ==
  ASSUME IInv, UNCHANGED routerVars
  PROVE  /\ running' = running /\ revisions' = revisions
         /\ globalBaseline' \in Nat /\ globalKeys' \in SUBSET Keys
         /\ globalSince' \in SUBSET Keys /\ globalBaseline' <= running'
         /\ CleanBaselineIsRunning'
         /\ {k \in Keys : revisions'[k] > globalBaseline'} = globalSince'
  BY DEF IInv, TypeOK, routerVars, GenerationsBehindRunning, CleanBaselineIsRunning,
         ConflictDetectionExact

\* Every operation of the controller preserves the inductive invariant.
LEMMA NextIInv == IInv /\ [Next]_workflowVars => IInv'
  <1> SUFFICES ASSUME IInv, [Next]_workflowVars PROVE IInv'
    OBVIOUS
  <1>0. /\ TypeOK /\ AtMostOneExclusive /\ GenerationsBehindRunning
        /\ CleanBaselineIsRunning /\ ConflictDetectionExact
    BY DEF IInv
  <1>1. CASE CloseDevice
    <2>1. TypeOK'
      BY <1>1 DEF CloseDevice, TypeOK
    <2>2. AtMostOneExclusive' /\ GenerationsBehindRunning' /\ CleanBaselineIsRunning'
      BY <1>1 DEF CloseDevice, AtMostOneExclusive, GenerationsBehindRunning,
                  CleanBaselineIsRunning
    <2>3. ConflictDetectionExact'
      BY <1>1 DEF CloseDevice, ConflictDetectionExact
    <2> QED BY <2>1, <2>2, <2>3 DEF IInv
  <1>2. ASSUME NEW k \in Keys, ClassicWrite(k) PROVE IInv'
    <2>0. {k} \in SUBSET Keys /\ Apply({k}) /\ FollowRunning({k})
      BY <1>2 DEF ClassicWrite
    <2>1. /\ running' \in Nat \ {0} /\ running <= running'
          /\ revisions' \in [Keys -> Nat]
          /\ \A j \in Keys : revisions'[j] <= running'
      BY <1>0, <2>0, ApplyStep
    <2>2. /\ globalBaseline' \in Nat /\ globalKeys' \in SUBSET Keys
          /\ globalSince' \in SUBSET Keys /\ globalBaseline' <= running'
          /\ CleanBaselineIsRunning'
          /\ {j \in Keys : revisions'[j] > globalBaseline'} = globalSince'
      BY <2>0, FollowRunningStep
    <2>3. mode' = mode /\ base' = base /\ changes' = changes
      BY <1>2 DEF ClassicWrite
    <2>4. TypeOK'
      BY <1>0, <1>2, <2>1, <2>2, <2>3 DEF TypeOK, ClassicWrite
    <2>5. AtMostOneExclusive'
      BY <1>0, <2>3 DEF AtMostOneExclusive
    <2>6. GenerationsBehindRunning'
      BY <1>0, <2>1, <2>2, <2>3 DEF TypeOK, GenerationsBehindRunning
    <2>7. ASSUME NEW t \in Sessions, mode'[t] = "private"
          PROVE  {j \in Keys : revisions'[j] > base'[t]} = since'[t]
      <3>1. base[t] \in Nat /\ base[t] <= running
        BY <1>0 DEF TypeOK, GenerationsBehindRunning
      <3>2. since'[t] = since[t] \cup {k}
        BY <1>2, <2>3, <2>7 DEF ClassicWrite
      <3>3. {j \in Keys : revisions[j] > base[t]} = since[t]
        BY <1>0, <2>3, <2>7 DEF ConflictDetectionExact
      <3>4. {j \in Keys : revisions'[j] > base[t]}
              = {j \in Keys : revisions[j] > base[t]} \cup {k}
        BY <1>0, <2>0, <3>1, NewerKeys
      <3> QED BY <2>3, <3>2, <3>3, <3>4
    <2>8. ConflictDetectionExact'
      BY <2>2, <2>7 DEF ConflictDetectionExact
    <2> QED BY <2>2, <2>4, <2>5, <2>6, <2>8 DEF IInv
  <1>3. ASSUME NEW s \in Sessions, Create(s) PROVE IInv'
    <2>1. mode[s] = "closed" /\ UNCHANGED routerVars
      BY <1>3 DEF Create
    <2>2. /\ mode' = [mode EXCEPT ![s] = "operational"]
          /\ base' = [base EXCEPT ![s] = base[s]]
          /\ changes' = [changes EXCEPT ![s] = changes[s]]
          /\ since' = [since EXCEPT ![s] = since[s]]
      BY <1>0, <1>3 DEF Create, TypeOK
    <2>3. /\ base[s] \in Nat /\ base[s] <= running
          /\ changes[s] \in SUBSET Keys /\ since[s] \in SUBSET Keys
          /\ "operational" \in CandidateMode \cup {"closed"}
      BY <1>0 DEF TypeOK, GenerationsBehindRunning, CandidateMode
    <2> QED BY <2>1, <2>2, <2>3, RouterUnchanged, SessionStep
  <1>4. ASSUME NEW s \in Sessions, CommitPrivate(s) PROVE IInv'
    <2>1. /\ changes[s] \in SUBSET Keys
          /\ Apply(changes[s]) /\ Observe(s, changes[s]) /\ FollowRunning(changes[s])
          /\ mode' = mode /\ base' = [base EXCEPT ![s] = running']
      BY <1>0, <1>4 DEF CommitPrivate, TypeOK
    <2>2. changes' \in [Sessions -> SUBSET Keys]
      BY <1>0, <1>4 DEF CommitPrivate, TypeOK
    <2> QED BY <2>1, <2>2, FollowRunningStep, CommitStep
  <1>5. ASSUME NEW s \in Sessions, CommitGlobal(s) PROVE IInv'
    <2>1. /\ globalKeys \in SUBSET Keys
          /\ Apply(globalKeys) /\ Observe(s, globalKeys)
          /\ mode' = mode /\ base' = [base EXCEPT ![s] = running']
          /\ changes' \in [Sessions -> SUBSET Keys]
          /\ globalBaseline' = running' /\ globalKeys' = {} /\ globalSince' = {}
      BY <1>0, <1>5 DEF CommitGlobal, TypeOK
    <2>2. running' \in Nat \ {0}
      BY <1>0, <2>1, ApplyStep
    <2>3. {k \in Keys : revisions'[k] > running'} = {}
      BY <1>0, <2>1, NothingNewer
    <2>4. /\ globalBaseline' \in Nat /\ globalKeys' \in SUBSET Keys
          /\ globalSince' \in SUBSET Keys /\ globalBaseline' <= running'
          /\ CleanBaselineIsRunning'
      BY <2>1, <2>2 DEF CleanBaselineIsRunning
    <2> QED BY <2>1, <2>3, <2>4, CommitStep
  <1>6. ASSUME NEW s \in Sessions, Discard(s) PROVE IInv'
    <2>1. PICK c \in BOOLEAN : c = (mode[s] # "private") /\ ClearGlobalIf(c)
      BY <1>6 DEF Discard
    <2>2. PICK d \in SUBSET Keys : changes' = [changes EXCEPT ![s] = d]
      BY <1>0, <1>6 DEF Discard, TypeOK
    <2>3. /\ mode' = [mode EXCEPT ![s] = mode[s]]
          /\ base' = [base EXCEPT ![s] = running]
          /\ since' = [since EXCEPT ![s] = {}]
      BY <1>0, <1>6 DEF Discard, TypeOK
    <2>4. /\ mode[s] \in CandidateMode \cup {"closed"}
          /\ running \in Nat /\ running <= running
          /\ {k \in Keys : revisions[k] > running} = {}
          /\ mode[s] = "exclusive" => \A t \in Sessions \ {s} : mode[t] # "exclusive"
      BY <1>0 DEF TypeOK, GenerationsBehindRunning, AtMostOneExclusive
    <2> QED BY <2>1, <2>2, <2>3, <2>4, ClearGlobalStep, SessionStep
  <1>7. ASSUME NEW s \in Sessions, Close(s) PROVE IInv'
    <2>1. PICK c \in BOOLEAN : ClearGlobalIf(c)
      BY <1>7 DEF Close
    <2>2. /\ mode' = [mode EXCEPT ![s] = "closed"]
          /\ base' = [base EXCEPT ![s] = 0]
          /\ changes' = [changes EXCEPT ![s] = {}]
          /\ since' = [since EXCEPT ![s] = {}]
      BY <1>7 DEF Close
    <2>3. /\ 0 \in Nat /\ 0 <= running /\ {} \in SUBSET Keys
          /\ "closed" \in CandidateMode \cup {"closed"}
          /\ "closed" # "private" /\ "closed" # "exclusive"
      BY <1>0 DEF TypeOK
    <2>4. /\ running' = running /\ revisions' = revisions
          /\ globalBaseline' \in Nat /\ globalKeys' \in SUBSET Keys
          /\ globalSince' \in SUBSET Keys /\ globalBaseline' <= running'
          /\ CleanBaselineIsRunning'
          /\ {k \in Keys : revisions'[k] > globalBaseline'} = globalSince'
      BY <2>1, ClearGlobalStep
    <2> QED BY <2>2, <2>3, <2>4, SessionStep
  <1>8. ASSUME NEW s \in Sessions, NEW m \in CandidateMode \ {"operational"}, Enter(s, m)
        PROVE  IInv'
    <2> DEFINE b == IF m = "private" THEN running ELSE globalBaseline
    <2>1. /\ UNCHANGED routerVars
          /\ mode' = [mode EXCEPT ![s] = m]
          /\ base' = [base EXCEPT ![s] = b]
          /\ changes' = [changes EXCEPT ![s] = {}]
          /\ since' = [since EXCEPT ![s] = {}]
      BY <1>8 DEF Enter
    <2>2. b \in Nat /\ b <= running
      BY <1>0 DEF TypeOK, GenerationsBehindRunning
    <2>3. m = "private" => {k \in Keys : revisions[k] > b} = {}
      BY <1>0 DEF TypeOK, GenerationsBehindRunning
    <2>4. m = "exclusive" => \A t \in Sessions \ {s} : mode[t] # "exclusive"
      BY <1>8 DEF Enter, Holders
    <2>5. /\ running' = running /\ revisions' = revisions
          /\ globalBaseline' \in Nat /\ globalKeys' \in SUBSET Keys
          /\ globalSince' \in SUBSET Keys /\ globalBaseline' <= running'
          /\ CleanBaselineIsRunning'
          /\ {k \in Keys : revisions'[k] > globalBaseline'} = globalSince'
      BY <2>1, RouterUnchanged
    <2>6. {} \in SUBSET Keys /\ m \in CandidateMode \cup {"closed"}
      OBVIOUS
    <2> HIDE DEF b
    <2> QED BY <2>1, <2>2, <2>3, <2>4, <2>5, <2>6, SessionStep
  <1>9. ASSUME NEW s \in Sessions, NEW d \in BOOLEAN, Leave(s, d) PROVE IInv'
    <2>1. PICK c \in BOOLEAN : ClearGlobalIf(c)
      BY <1>9 DEF Leave
    <2>2. PICK e \in SUBSET Keys : changes' = [changes EXCEPT ![s] = e]
      BY <1>0, <1>9 DEF Leave, TypeOK
    <2>3. /\ mode' = [mode EXCEPT ![s] = "operational"]
          /\ base' = [base EXCEPT ![s] = 0]
          /\ since' = [since EXCEPT ![s] = {}]
      BY <1>9 DEF Leave
    <2>4. /\ 0 \in Nat /\ 0 <= running /\ {} \in SUBSET Keys
          /\ "operational" \in CandidateMode \cup {"closed"}
          /\ "operational" # "private" /\ "operational" # "exclusive"
      BY <1>0 DEF TypeOK, CandidateMode
    <2>5. /\ running' = running /\ revisions' = revisions
          /\ globalBaseline' \in Nat /\ globalKeys' \in SUBSET Keys
          /\ globalSince' \in SUBSET Keys /\ globalBaseline' <= running'
          /\ CleanBaselineIsRunning'
          /\ {k \in Keys : revisions'[k] > globalBaseline'} = globalSince'
      BY <2>1, ClearGlobalStep
    <2> QED BY <2>2, <2>3, <2>4, <2>5, SessionStep
  <1>10. ASSUME NEW s \in Sessions, NEW m \in SharedModes, NEW d \in BOOLEAN,
                Transition(s, m, d)
         PROVE  IInv'
    <2>1. PICK c \in BOOLEAN : ClearGlobalIf(c)
      BY <1>10 DEF Transition
    <2>2. /\ mode' = [mode EXCEPT ![s] = m]
          /\ base' = [base EXCEPT ![s] = globalBaseline']
          /\ changes' = [changes EXCEPT ![s] = changes[s]]
          /\ since' = [since EXCEPT ![s] = since[s]]
      BY <1>0, <1>10 DEF Transition, TypeOK
    <2>3. /\ changes[s] \in SUBSET Keys /\ since[s] \in SUBSET Keys
          /\ m \in CandidateMode \cup {"closed"} /\ m # "private"
      BY <1>0 DEF TypeOK, SharedModes, CandidateMode
    <2>4. m = "exclusive" => \A t \in Sessions \ {s} : mode[t] # "exclusive"
      BY <1>10 DEF Transition
    <2> QED BY <2>1, <2>2, <2>3, <2>4, ClearGlobalStep, SessionStep
  <1>11. ASSUME NEW s \in Sessions, NEW k \in Keys, RecordEdit(s, k) PROVE IInv'
    <2>1. /\ mode' = [mode EXCEPT ![s] = mode[s]]
          /\ base' = [base EXCEPT ![s] = base[s]]
          /\ since' = [since EXCEPT ![s] = since[s]]
          /\ running' = running /\ revisions' = revisions
      BY <1>0, <1>11 DEF RecordEdit, TypeOK
    <2>2. PICK e \in SUBSET Keys : changes' = [changes EXCEPT ![s] = e]
      <3>1. CASE mode[s] = "private"
        BY <1>0, <1>11, <3>1 DEF RecordEdit, TypeOK
      <3>2. CASE mode[s] # "private"
        <4>1. changes' = [changes EXCEPT ![s] = changes[s]] /\ changes[s] \in SUBSET Keys
          BY <1>0, <1>11, <3>2 DEF RecordEdit, TypeOK
        <4> QED BY <4>1
      <3> QED BY <3>1, <3>2
    <2>3. /\ mode[s] \in CandidateMode \cup {"closed"}
          /\ base[s] \in Nat /\ base[s] <= running /\ since[s] \in SUBSET Keys
          /\ mode[s] = "private" => {j \in Keys : revisions[j] > base[s]} = since[s]
          /\ mode[s] = "exclusive" => \A t \in Sessions \ {s} : mode[t] # "exclusive"
      BY <1>0 DEF TypeOK, GenerationsBehindRunning, ConflictDetectionExact,
                  AtMostOneExclusive
    <2>4. /\ globalBaseline' \in Nat /\ globalKeys' \in SUBSET Keys
          /\ globalSince' \in SUBSET Keys /\ globalBaseline' <= running'
          /\ CleanBaselineIsRunning'
          /\ {j \in Keys : revisions'[j] > globalBaseline'} = globalSince'
      <3>1. CASE mode[s] = "private"
        BY <1>0, <1>11, <2>1, <3>1 DEF RecordEdit, TypeOK, GenerationsBehindRunning,
             CleanBaselineIsRunning, ConflictDetectionExact
      <3>2. CASE mode[s] # "private" /\ globalKeys = {}
        <4>1. globalBaseline' = running /\ globalSince' = {} /\ globalKeys' = {k}
          BY <1>11, <3>2 DEF RecordEdit
        <4>2. {j \in Keys : revisions[j] > running} = {}
          BY <1>0 DEF TypeOK, GenerationsBehindRunning
        <4> QED BY <1>0, <2>1, <4>1, <4>2 DEF TypeOK, CleanBaselineIsRunning
      <3>3. CASE mode[s] # "private" /\ globalKeys # {}
        <4>1. /\ globalBaseline' = globalBaseline /\ globalSince' = globalSince
              /\ globalKeys' = globalKeys \cup {k}
          BY <1>11, <3>3 DEF RecordEdit
        <4> QED BY <1>0, <2>1, <4>1 DEF TypeOK, CleanBaselineIsRunning,
                 GenerationsBehindRunning, ConflictDetectionExact
      <3> QED BY <3>1, <3>2, <3>3
    <2> QED BY <2>1, <2>2, <2>3, <2>4, SessionStep
  <1>12. CASE UNCHANGED workflowVars
    BY <1>0, <1>12 DEF workflowVars, sessionVars, routerVars, IInv, TypeOK,
         AtMostOneExclusive, GenerationsBehindRunning, CleanBaselineIsRunning,
         ConflictDetectionExact
  <1> QED BY <1>1, <1>2, <1>3, <1>4, <1>5, <1>6, <1>7, <1>8, <1>9, <1>10, <1>11, <1>12
           DEF Next

-----------------------------------------------------------------------------

\* The inductive invariant holds in every behaviour of the controller.
THEOREM Invariance == Spec => []IInv
  BY InitIInv, NextIInv, PTL DEF Spec

\* Every variable of the controller keeps its type.
THEOREM TypeCorrect == Spec => []TypeOK
  <1>1. IInv => TypeOK
    BY DEF IInv
  <1> QED BY <1>1, Invariance, PTL

\* enter() and transition() never admit a second exclusive session.
THEOREM SingleExclusive == Spec => []AtMostOneExclusive
  <1>1. IInv => AtMostOneExclusive
    BY DEF IInv
  <1> QED BY <1>1, Invariance, PTL

\* No base generation, baseline or revision is ahead of running_generation.
THEOREM GenerationsOrdered == Spec => []GenerationsBehindRunning
  <1>1. IInv => GenerationsBehindRunning
    BY DEF IInv
  <1> QED BY <1>1, Invariance, PTL

\* A clean global candidate always has running_generation as its baseline.
THEOREM CleanBaseline == Spec => []CleanBaselineIsRunning
  <1>1. IInv => CleanBaselineIsRunning
    BY DEF IInv
  <1> QED BY <1>1, Invariance, PTL

\* The comparison revision(key) > baseline in apply() is true exactly for the
\* keys that others committed since the baseline was taken: no conflict is
\* missed and none is invented.
THEOREM ConflictsExact == Spec => []ConflictDetectionExact
  <1>1. IInv => ConflictDetectionExact
    BY DEF IInv
  <1> QED BY <1>1, Invariance, PTL

\* While a session is exclusive nobody else changes the running datastore.
THEOREM ExclusiveLock == Spec => RunningLockedByExclusive
  <1> DEFINE A == \A s \in Sessions :
                     mode[s] = "exclusive" /\ mode'[s] = "exclusive" /\ running' # running
                        => base'[s] = running'
  <1>1. IInv /\ [Next]_workflowVars => [A]_workflowVars
    <2> SUFFICES ASSUME IInv, Next, NEW s \in Sessions,
                        mode[s] = "exclusive", mode'[s] = "exclusive", running' # running
                 PROVE  base'[s] = running'
      OBVIOUS
    <2>0. TypeOK /\ AtMostOneExclusive
      BY DEF IInv
    <2>1. Holders("exclusive") # {}
      BY DEF Holders
    <2>2. ~CloseDevice
      BY DEF CloseDevice
    <2>3. \A k \in Keys : ~ClassicWrite(k)
      BY <2>1 DEF ClassicWrite
    <2>4. \A t \in Sessions : ~CommitPrivate(t)
      BY <2>1 DEF CommitPrivate
    <2>5. ASSUME NEW t \in Sessions, CommitGlobal(t) PROVE base'[s] = running'
      <3>1. mode[t] = "exclusive"
        BY <2>1, <2>5 DEF CommitGlobal
      <3>2. t = s
        BY <2>0, <3>1 DEF AtMostOneExclusive
      <3> QED BY <2>0, <2>5, <3>2 DEF CommitGlobal, TypeOK
    <2>6. ASSUME NEW t \in Sessions, Create(t) PROVE FALSE
      BY <2>6 DEF Create, routerVars
    <2>7. ASSUME NEW c \in BOOLEAN, ClearGlobalIf(c) PROVE FALSE
      BY <2>7 DEF ClearGlobalIf, ClearGlobal, routerVars
    <2>8. ASSUME NEW t \in Sessions, Discard(t) \/ Close(t) PROVE FALSE
      BY <2>7, <2>8 DEF Discard, Close
    <2>9. ASSUME NEW t \in Sessions, NEW m \in CandidateMode, Enter(t, m) PROVE FALSE
      BY <2>9 DEF Enter, routerVars
    <2>10. ASSUME NEW t \in Sessions, NEW d \in BOOLEAN, Leave(t, d) PROVE FALSE
      BY <2>7, <2>10 DEF Leave
    <2>11. ASSUME NEW t \in Sessions, NEW m \in SharedModes, NEW d \in BOOLEAN,
                  Transition(t, m, d)
           PROVE  FALSE
      BY <2>7, <2>11 DEF Transition
    <2>12. ASSUME NEW t \in Sessions, NEW k \in Keys, RecordEdit(t, k) PROVE FALSE
      BY <2>12 DEF RecordEdit
    <2> QED BY <2>2, <2>3, <2>4, <2>5, <2>6, <2>8, <2>9, <2>10, <2>11, <2>12 DEF Next
  <1> QED BY <1>1, Invariance, PTL DEF Spec, RunningLockedByExclusive

----------------------------------------------------------------------------
\* A command, whatever it does to the values, is a call of the controller or
\* leaves the controller alone.
LEMMA StepImplements == [DatastoreNext]_vars => [Next]_workflowVars
  <1> SUFFICES ASSUME [DatastoreNext]_vars
               PROVE  Next \/ UNCHANGED workflowVars
    OBVIOUS
  <1> USE CandidateDatastoresAssumption DEF Next, SharedModes
  <1>1. CASE RouterDelete
    BY <1>1 DEF RouterDelete
  <1>2. ASSUME NEW s \in Sessions,
               SessionCreate(s) \/ SessionClose(s) \/ LeaveMode(s)
        PROVE  Next
    BY <1>2 DEF SessionCreate, SessionClose, LeaveMode
  <1>3. ASSUME NEW s \in Sessions, Commit(s) \/ DiscardCandidate(s)
        PROVE  Next
    BY <1>3 DEF Commit, DiscardCandidate
  <1>4. ASSUME NEW s \in Sessions, NEW m \in Modes, EnterMode(s, m)
        PROVE  Next
    BY <1>4 DEF EnterMode
  <1>5. ASSUME NEW s \in Sessions, NEW t \in SharedModes \cap Modes, TransitionMode(s, t)
        PROVE  Next
    BY <1>5 DEF TransitionMode
  <1>6. ASSUME NEW s \in Sessions, NEW k \in Keys, NEW v \in Values, EditCandidate(s, k, v)
        PROVE  Next
    BY <1>6 DEF EditCandidate
  <1>7. ASSUME NEW k \in Keys, NEW v \in Values, ClassicCommand(k, v)
        PROVE  Next
    BY <1>7 DEF ClassicCommand
  <1>8. ASSUME NEW s \in Sessions, PolicyBegin(s) \/ PolicyAbort(s) \/ PolicyCommit(s)
        PROVE  Next \/ UNCHANGED workflowVars
    BY <1>8 DEF PolicyBegin, PolicyAbort, PolicyCommit
  <1>9. ASSUME NEW s \in Sessions, NEW v \in Values, PolicyEdit(s, v)
        PROVE  UNCHANGED workflowVars
    BY <1>9 DEF PolicyEdit
  <1>10. CASE UNCHANGED vars
    BY <1>10 DEF vars
  <1>11. ASSUME NEW c \in Configuration, DirectWrite(c) PROVE UNCHANGED workflowVars
    BY <1>11 DEF DirectWrite
  <1> QED BY <1>1, <1>2, <1>3, <1>4, <1>5, <1>6, <1>7, <1>8, <1>9, <1>10, <1>11
          DEF DatastoreNext

\* The datastores implement the workflow controller: LabRuntime changes the
\* state of the controller only through the calls SessionWorkflows specifies.
THEOREM DatastoresImplementWorkflows == DatastoreSpec => WorkflowsImplemented
  <1>1. DatastoreInit => Init
    BY DEF DatastoreInit
  <1> QED BY <1>1, StepImplements, PTL DEF DatastoreSpec, WorkflowsImplemented, Spec

\* The controller's inductive invariant holds of the composition.
LEMMA ControllerInvariant == DatastoreSpec => []IInv
  BY DatastoresImplementWorkflows, Invariance, PTL DEF WorkflowsImplemented

-----------------------------------------------------------------------------
(* The values.  A session can only be in a shared mode, and the shared     *)
(* candidate can only be dirty, once initialize_candidate has copied       *)
(* running into it: without this an entry could overwrite recorded edits.  *)

SharedInitialised ==
    /\ globalKeys # {} => globalInit
    /\ \A s \in Sessions : mode[s] \in SharedModes => globalInit

ValueInv == DatastoreTypeOK /\ SharedInitialised

\* A new router's configuration is complete.
LEMMA FactoryType == Factory \in Configuration
  BY CandidateDatastoresAssumption DEF Factory, Configuration

\* A new router satisfies the invariant of the values.
LEMMA InitValueInv == DatastoreInit => ValueInv
  <1>1. Init => TypeOK
    BY InitIInv DEF IInv
  <1> QED BY <1>1, FactoryType
          DEF DatastoreInit, Init, FreshRouter, ValueInv, DatastoreTypeOK,
              SharedInitialised, SharedModes

\* Clearing the shared change set, or leaving it alone, adds no key to it.
LEMMA ClearedKeys ==
  ASSUME NEW c \in BOOLEAN, ClearGlobalIf(c)
  PROVE  globalKeys' = {} \/ globalKeys' = globalKeys
  BY DEF ClearGlobalIf, ClearGlobal, routerVars

\* Every command keeps the invariant of the values.
LEMMA NextValueInv ==
  ASSUME ValueInv, IInv', [DatastoreNext]_vars
  PROVE  ValueInv'
  <1> USE FactoryType, CandidateDatastoresAssumption
      DEF ValueInv, DatastoreTypeOK, SharedInitialised, SharedModes
  <1>0. TypeOK /\ TypeOK'
    BY DEF IInv
  <1>1. CASE RouterDelete
    BY <1>0, <1>1 DEF RouterDelete, CloseDevice
  <1>2. ASSUME NEW s \in Sessions, SessionCreate(s) PROVE ValueInv'
    BY <1>0, <1>2 DEF SessionCreate, Create, valueVars, routerVars, TypeOK
  <1>3. ASSUME NEW s \in Sessions, SessionClose(s) PROVE ValueInv'
    BY <1>0, <1>3, ClearedKeys DEF SessionClose, Close, TypeOK
  <1>4. ASSUME NEW s \in Sessions, LeaveMode(s) PROVE ValueInv'
    BY <1>0, <1>4, ClearedKeys DEF LeaveMode, Leave, TypeOK
  <1>5. ASSUME NEW s \in Sessions, Commit(s) PROVE ValueInv'
    BY <1>0, <1>5 DEF Commit, CommitPrivate, CommitGlobal, FollowRunning
  <1>6. ASSUME NEW s \in Sessions, DiscardCandidate(s) PROVE ValueInv'
    BY <1>0, <1>6, ClearedKeys DEF DiscardCandidate, Discard
  <1>7. ASSUME NEW s \in Sessions, NEW m \in Modes, EnterMode(s, m) PROVE ValueInv'
    <2>1. globalInit' \in BOOLEAN /\ (globalInit \/ m # "private" => globalInit')
      BY <1>7 DEF EnterMode, InitializeCandidate
    <2>2. globalKeys' = globalKeys
      BY <1>7 DEF EnterMode, Enter, routerVars
    <2>3. \A t \in Sessions : mode'[t] = IF t = s THEN m ELSE mode[t]
      BY <1>0, <1>7 DEF EnterMode, Enter, TypeOK
    <2>4. SharedInitialised'
      BY <2>1, <2>2, <2>3
    <2>5. DatastoreTypeOK'
      BY <1>0, <1>7, <2>1 DEF EnterMode, InitializeCandidate
    <2> QED BY <2>4, <2>5
  <1>8. ASSUME NEW s \in Sessions, NEW t \in SharedModes \cap Modes, TransitionMode(s, t)
        PROVE  ValueInv'
    <2>1. globalInit /\ globalInit'
      BY <1>8 DEF TransitionMode, Transition
    <2> QED BY <1>0, <1>8, <2>1 DEF TransitionMode
  <1>9. ASSUME NEW s \in Sessions, NEW k \in Keys, NEW v \in Values, EditCandidate(s, k, v)
        PROVE  ValueInv'
    <2>1. globalInit' = globalInit /\ mode' = mode
      BY <1>9 DEF EditCandidate, RecordEdit
    <2>2. globalKeys' # {} => globalInit
      BY <1>9 DEF EditCandidate, RecordEdit
    <2>3. CASE mode[s] = "private"
      <3>1. [privateValue[s] EXCEPT ![k] = v] \in Configuration
        BY DEF Configuration
      <3>2. privateValue' = [privateValue EXCEPT ![s] = [privateValue[s] EXCEPT ![k] = v]]
        BY <1>9, <2>3 DEF EditCandidate
      <3>3. privateValue' \in [Sessions -> Configuration]
        BY <3>1, <3>2
      <3>4. UNCHANGED <<value, globalValue, policyActive, policyValue>>
        BY <1>9, <2>3 DEF EditCandidate
      <3> QED BY <1>0, <2>1, <2>2, <3>3, <3>4
    <2>4. CASE mode[s] # "private"
      <3>1. [globalValue EXCEPT ![k] = v] \in Configuration
        BY DEF Configuration
      <3>2. globalValue' \in Configuration
        BY <1>9, <2>4, <3>1 DEF EditCandidate
      <3>3. UNCHANGED <<value, privateValue, policyActive, policyValue>>
        BY <1>9, <2>4 DEF EditCandidate
      <3> QED BY <1>0, <2>1, <2>2, <3>2, <3>3
    <2> QED BY <2>3, <2>4
  <1>10. ASSUME NEW k \in Keys, NEW v \in Values, ClassicCommand(k, v) PROVE ValueInv'
    BY <1>0, <1>10 DEF ClassicCommand, ClassicWrite, FollowRunning, MirrorClassicWrite,
                       Configuration
  <1>11. ASSUME NEW s \in Sessions, PolicyBegin(s) \/ PolicyAbort(s) PROVE ValueInv'
    BY <1>0, <1>11 DEF PolicyBegin, PolicyAbort, workflowVars, sessionVars, routerVars
  <1>12. ASSUME NEW s \in Sessions, PolicyCommit(s) PROVE ValueInv'
    BY <1>0, <1>12 DEF PolicyCommit, ClassicWrite, FollowRunning, MirrorClassicWrite,
                       workflowVars, sessionVars, routerVars
  <1>13. ASSUME NEW s \in Sessions, NEW v \in Values, PolicyEdit(s, v) PROVE ValueInv'
    BY <1>0, <1>13 DEF PolicyEdit, Configuration, workflowVars, sessionVars, routerVars
  <1>14. CASE UNCHANGED vars
    BY <1>0, <1>14 DEF vars, valueVars, workflowVars, sessionVars, routerVars
  <1>15. ASSUME NEW c \in Configuration, DirectWrite(c) PROVE ValueInv'
    BY <1>0, <1>15 DEF DirectWrite, workflowVars, sessionVars, routerVars
  <1> QED BY <1>1, <1>2, <1>3, <1>4, <1>5, <1>6, <1>7, <1>8, <1>9, <1>10, <1>11, <1>12,
             <1>13, <1>14, <1>15 DEF DatastoreNext

\* The values stay complete configurations, and the shared candidate is
\* initialised before anyone can use it.
THEOREM ValuesInvariant == DatastoreSpec => []ValueInv
  BY InitValueInv, NextValueInv, ControllerInvariant, PTL DEF DatastoreSpec

\* Every datastore always holds a complete configuration.
THEOREM DatastoresTyped == DatastoreSpec => []DatastoreTypeOK
  <1>1. ValueInv => DatastoreTypeOK
    BY DEF ValueInv
  <1> QED BY <1>1, ValuesInvariant, PTL

\* While a session is exclusive, no private commit, classic command or policy
\* transaction changes a running value: commit() and
\* authorize_classic_write() refuse them all.  What remains are the direct
\* writes of the web client, which ask neither.
THEOREM ValuesLocked == DatastoreSpec => RunningValuesLocked
  <1> DEFINE A == \A s \in Sessions :
                     mode[s] = "exclusive" /\ mode'[s] = "exclusive" /\ value' # value
                        => value' = globalValue \/ DirectWrite(value')
  <1>1. [DatastoreNext]_vars => [A]_vars
    <2> SUFFICES ASSUME DatastoreNext, NEW s \in Sessions,
                        mode[s] = "exclusive", mode'[s] = "exclusive", value' # value
                 PROVE  value' = globalValue \/ DirectWrite(value')
      OBVIOUS
    <2>1. Holders("exclusive") # {}
      BY DEF Holders
    <2>2. ~RouterDelete
      BY DEF RouterDelete, CloseDevice
    <2>3. ASSUME NEW t \in Sessions, Commit(t) PROVE value' = globalValue
      BY <2>1, <2>3 DEF Commit, CommitPrivate
    <2>4. ASSUME NEW t \in Sessions,
                 SessionCreate(t) \/ SessionClose(t) \/ LeaveMode(t) \/ DiscardCandidate(t)
          PROVE  FALSE
      BY <2>4 DEF SessionCreate, SessionClose, LeaveMode, DiscardCandidate, valueVars
    <2>5. ASSUME NEW t \in Sessions, NEW m \in Modes, EnterMode(t, m) PROVE FALSE
      BY <2>5 DEF EnterMode
    <2>6. ASSUME NEW t \in Sessions, NEW m \in SharedModes \cap Modes, TransitionMode(t, m)
          PROVE  FALSE
      BY <2>6 DEF TransitionMode
    <2>7. ASSUME NEW t \in Sessions, NEW k \in Keys, NEW v \in Values, EditCandidate(t, k, v)
          PROVE  FALSE
      BY <2>7 DEF EditCandidate
    <2>8. ASSUME NEW k \in Keys, NEW v \in Values, ClassicCommand(k, v) PROVE FALSE
      BY <2>1, <2>8 DEF ClassicCommand, ClassicWrite
    <2>9. ASSUME NEW t \in Sessions, PolicyBegin(t) \/ PolicyAbort(t) \/ PolicyCommit(t)
          PROVE  FALSE
      BY <2>1, <2>9 DEF PolicyBegin, PolicyAbort, PolicyCommit
    <2>10. ASSUME NEW t \in Sessions, NEW v \in Values, PolicyEdit(t, v) PROVE FALSE
      BY <2>10 DEF PolicyEdit
    <2>11. ASSUME NEW c \in Configuration, DirectWrite(c) PROVE DirectWrite(value')
      BY <2>11 DEF DirectWrite
    <2> QED BY <2>2, <2>3, <2>4, <2>5, <2>6, <2>7, <2>8, <2>9, <2>10, <2>11
            DEF DatastoreNext
  <1> QED BY <1>1, PTL DEF DatastoreSpec, RunningValuesLocked

\* The values of a dirty shared candidate change only on recorded keys: an
\* entry, a private commit or a classic command never overwrites an edit that
\* waits for its commit.
THEOREM DirtyCandidateKept == DatastoreSpec => DirtySharedCandidateKept
  <1> DEFINE A == globalKeys # {} /\ globalKeys' # {} =>
                     \A k \in Keys : globalValue'[k] # globalValue[k] => k \in globalKeys'
  <1>1. ValueInv /\ [DatastoreNext]_vars => [A]_vars
    <2> SUFFICES ASSUME ValueInv, DatastoreNext, globalKeys # {}, globalKeys' # {},
                        NEW k \in Keys, globalValue'[k] # globalValue[k]
                 PROVE  k \in globalKeys'
      OBVIOUS
    <2>0. globalInit
      BY DEF ValueInv, SharedInitialised
    <2>1. ~RouterDelete
      BY DEF RouterDelete, CloseDevice
    <2>2. ASSUME NEW s \in Sessions,
                 SessionCreate(s) \/ SessionClose(s) \/ LeaveMode(s) \/ Commit(s)
          PROVE  FALSE
      BY <2>2 DEF SessionCreate, SessionClose, LeaveMode, Commit, valueVars
    <2>3. ASSUME NEW s \in Sessions, DiscardCandidate(s) PROVE FALSE
      BY <2>3 DEF DiscardCandidate, Discard, ClearGlobalIf, ClearGlobal
    <2>4. ASSUME NEW s \in Sessions, NEW m \in Modes, EnterMode(s, m) PROVE FALSE
      BY <2>0, <2>4 DEF EnterMode, Enter, InitializeCandidate
    <2>5. ASSUME NEW s \in Sessions, NEW t \in SharedModes \cap Modes, TransitionMode(s, t)
          PROVE  FALSE
      BY <2>5 DEF TransitionMode, Transition, ClearGlobalIf, ClearGlobal
    <2>6. ASSUME NEW s \in Sessions, NEW j \in Keys, NEW v \in Values, EditCandidate(s, j, v)
          PROVE  k \in globalKeys'
      BY <2>6 DEF EditCandidate, RecordEdit, ValueInv, DatastoreTypeOK, Configuration
    <2>7. ASSUME NEW j \in Keys, NEW v \in Values, ClassicCommand(j, v) PROVE FALSE
      BY <2>7 DEF ClassicCommand, MirrorClassicWrite
    <2>8. ASSUME NEW s \in Sessions, PolicyBegin(s) \/ PolicyAbort(s) \/ PolicyCommit(s)
          PROVE  FALSE
      BY <2>8 DEF PolicyBegin, PolicyAbort, PolicyCommit, MirrorClassicWrite
    <2>9. ASSUME NEW s \in Sessions, NEW v \in Values, PolicyEdit(s, v) PROVE FALSE
      BY <2>9 DEF PolicyEdit
    <2>10. ASSUME NEW c \in Configuration, DirectWrite(c) PROVE FALSE
      BY <2>10 DEF DirectWrite
    <2> QED BY <2>1, <2>2, <2>3, <2>4, <2>5, <2>6, <2>7, <2>8, <2>9, <2>10
            DEF DatastoreNext
  <1> QED BY <1>1, ValuesInvariant, PTL DEF DatastoreSpec, DirtySharedCandidateKept

=============================================================================
