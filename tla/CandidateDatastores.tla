------------------------ MODULE CandidateDatastores ------------------------
(***************************************************************************)
(* The configuration values behind SessionWorkflows.  LabRuntime keeps the *)
(* running configuration of a router, one global candidate per router, one *)
(* private candidate per session and one classic policy-options candidate  *)
(* per session, each a complete configuration (ConfigurationIntent), and   *)
(* calls the workflow controller for permission.  A configuration is       *)
(* modelled as a function from keys to values.                             *)
(*                                                                         *)
(* A command whose configuration fails validation is rolled back from the  *)
(* supervisor checkpoint taken before it: a stuttering step.               *)
(***************************************************************************)
EXTENDS SessionWorkflows

CONSTANTS Values,       \* values of a schema path
          Default,      \* the value every path has in a new router
          Modes,        \* configuration modes the users of a run may enter
          PolicyKey,    \* the path of the policy-options transaction
          Classic,      \* the users of a run give classic CLI commands
          Direct,       \* the paths the web client of a run writes directly
          MaxPolicies   \* bound: policy transactions open at the same time

ASSUME CandidateDatastoresAssumption ==
    /\ Default \in Values
    /\ Modes \subseteq CandidateMode \ {"operational"}
    /\ PolicyKey \in Keys
    /\ Classic \in BOOLEAN /\ Direct \subseteq Keys /\ MaxPolicies \in Nat

VARIABLES
    value,          \* running_configuration()
    globalInit,     \* global_candidate_initialized
    globalValue,    \* RouterIntent::global_candidate
    privateValue,   \* SessionIntent::private_candidate
    policyActive,   \* SessionIntent::classic_policy_edit_active
    policyValue     \* SessionIntent::classic_policy_candidate

valueVars == <<value, globalInit, globalValue, privateValue, policyActive, policyValue>>
vars == <<workflowVars, valueVars>>

Configuration == [Keys -> Values]
Factory == [k \in Keys |-> Default]

DatastoreInit ==
    /\ Init
    /\ value = Factory
    /\ globalInit = FALSE
    /\ globalValue = Factory
    /\ privateValue = [s \in Sessions |-> Factory]
    /\ policyActive = [s \in Sessions |-> FALSE]
    /\ policyValue = [s \in Sessions |-> Factory]

-----------------------------------------------------------------------------

\* A new terminal starts operational; one that is requested in a candidate
\* mode goes through the EnterMode below in the same call, or is closed again.
SessionCreate(s) ==
    /\ Create(s)
    /\ UNCHANGED valueVars

\* initialize_candidate: a private session copies running; the shared
\* candidate is copied once, and again by every exclusive entry.
InitializeCandidate(s, m) ==
    LET copyShared == m # "private" /\ (~globalInit \/ m = "exclusive") IN
    /\ privateValue' = IF m = "private" THEN [privateValue EXCEPT ![s] = value]
                                        ELSE privateValue
    /\ globalValue' = IF copyShared THEN value ELSE globalValue
    /\ globalInit' = (globalInit \/ copyShared)

EnterMode(s, m) ==
    /\ Enter(s, m)
    /\ InitializeCandidate(s, m)
    /\ UNCHANGED <<value, policyActive, policyValue>>

\* The CLI has asked for confirmation of a dirty exit before it gets here and
\* always passes discard = true.  The private candidate is dead from here on
\* (the next private entry copies running again), so it is forgotten; the
\* shared candidate is left as it is.
LeaveMode(s) ==
    /\ Leave(s, TRUE)
    /\ privateValue' = [privateValue EXCEPT ![s] = Factory]
    /\ UNCHANGED <<value, globalInit, globalValue, policyActive, policyValue>>

\* The confirmation of a dirty exclusive candidate becomes the discard flag.
TransitionMode(s, target) ==
    LET discard == mode[s] = "exclusive" /\ globalKeys # {} IN
    /\ Transition(s, target, discard)
    /\ globalValue' = IF discard THEN value ELSE globalValue
    /\ globalInit' = (globalInit \/ discard)
    /\ UNCHANGED <<value, privateValue, policyActive, policyValue>>

\* An MD-CLI edit; it is recorded only if the candidate really changes.
EditCandidate(s, k, v) ==
    /\ RecordEdit(s, k)
    /\ IF mode[s] = "private"
       THEN /\ privateValue[s][k] # v
            /\ privateValue' = [privateValue EXCEPT ![s][k] = v]
            /\ UNCHANGED globalValue
       ELSE /\ globalValue[k] # v
            /\ globalValue' = [globalValue EXCEPT ![k] = v]
            /\ UNCHANGED privateValue
    /\ UNCHANGED <<value, globalInit, policyActive, policyValue>>

\* md_commit: the controller validates the changed keys, then
\* apply_configuration installs the complete candidate.
Commit(s) ==
    /\ \/ CommitPrivate(s) /\ value' = privateValue[s]
       \/ CommitGlobal(s) /\ value' = globalValue
    /\ UNCHANGED <<globalInit, globalValue, privateValue, policyActive, policyValue>>

DiscardCandidate(s) ==
    /\ Discard(s)
    /\ IF mode[s] = "private"
       THEN privateValue' = [privateValue EXCEPT ![s] = value] /\ UNCHANGED globalValue
       ELSE globalValue' = value /\ UNCHANGED privateValue
    /\ UNCHANGED <<value, globalInit, policyActive, policyValue>>

\* A slip in the classic path: the shared candidate follows a classic write
\* whether or not it is dirty.
MirrorAlways(configuration) ==
    globalValue' = IF globalInit THEN configuration ELSE globalValue

\* An initialised clean shared candidate mirrors a classic write.
MirrorClassicWrite(configuration) ==
    globalValue' = IF globalInit /\ globalKeys = {} THEN configuration ELSE globalValue

\* An immediate classic command, from any terminal of the router, that changes
\* a running value.
ClassicCommand(k, v) ==
    /\ \E s \in Sessions : mode[s] # "closed"
    /\ value[k] # v
    /\ ClassicWrite(k)
    /\ value' = [value EXCEPT ![k] = v]
    /\ MirrorClassicWrite(value')
    /\ UNCHANGED <<globalInit, privateValue, policyActive, policyValue>>

PolicyBegin(s) ==
    /\ mode[s] # "closed"
    /\ ~policyActive[s]
    /\ Cardinality({t \in Sessions : policyActive[t]}) < MaxPolicies
    /\ policyActive' = [policyActive EXCEPT ![s] = TRUE]
    /\ policyValue' = [policyValue EXCEPT ![s] = value]
    /\ UNCHANGED <<workflowVars, value, globalInit, globalValue, privateValue>>

PolicyEdit(s, v) ==
    /\ mode[s] # "closed"
    /\ policyActive[s]
    /\ policyValue' = [policyValue EXCEPT ![s][PolicyKey] = v]
    /\ UNCHANGED <<workflowVars, value, globalInit, globalValue, privateValue, policyActive>>

PolicyAbort(s) ==
    /\ mode[s] # "closed"
    /\ policyActive[s]
    /\ policyActive' = [policyActive EXCEPT ![s] = FALSE]
    /\ policyValue' = [policyValue EXCEPT ![s] = Factory]
    /\ UNCHANGED <<workflowVars, value, globalInit, globalValue, privateValue>>

\* A slip in the policy commit: the running lock is not asked for.
PolicyCommitUnlocked(s) ==
    /\ mode[s] # "closed"
    /\ policyActive[s]
    /\ value' = policyValue[s]
    /\ UNCHANGED <<workflowVars, globalInit, globalValue, privateValue>>
    /\ policyActive' = [policyActive EXCEPT ![s] = FALSE]
    /\ policyValue' = [policyValue EXCEPT ![s] = Factory]

\* The policy transaction installs the whole configuration copied by begin
\* and records one revision if that changed anything.
PolicyCommit(s) ==
    /\ mode[s] # "closed"
    /\ policyActive[s]
    /\ Holders("exclusive") = {}
    /\ value' = policyValue[s]
    /\ IF value' # value
       THEN ClassicWrite(PolicyKey) /\ MirrorClassicWrite(value')
       ELSE UNCHANGED <<workflowVars, globalValue>>
    /\ policyActive' = [policyActive EXCEPT ![s] = FALSE]
    /\ policyValue' = [policyValue EXCEPT ![s] = Factory]
    /\ UNCHANGED <<globalInit, privateValue>>

\* The operations of the web client that write running without a terminal:
\* system_name_set, hardware_card_set and its siblings, port_configure,
\* interface_configure, static_route_add and their deletions change one path,
\* router_configuration_replace any number of them.  None of them asks the workflow
\* controller for the lock, records a revision or touches a candidate.
DirectWrite(configuration) ==
    /\ configuration # value
    /\ \A k \in Keys \ Direct : configuration[k] = value[k]
    /\ value' = configuration
    /\ UNCHANGED <<workflowVars, globalInit, globalValue, privateValue,
                   policyActive, policyValue>>

\* The terminal's SessionIntent is erased with its candidates; the shared
\* candidate of the router stays.
SessionClose(s) ==
    /\ Close(s)
    /\ privateValue' = [privateValue EXCEPT ![s] = Factory]
    /\ policyActive' = [policyActive EXCEPT ![s] = FALSE]
    /\ policyValue' = [policyValue EXCEPT ![s] = Factory]
    /\ UNCHANGED <<value, globalInit, globalValue>>

RouterDelete ==
    /\ CloseDevice
    /\ value' = Factory
    /\ globalInit' = FALSE
    /\ globalValue' = Factory
    /\ privateValue' = [s \in Sessions |-> Factory]
    /\ policyActive' = [s \in Sessions |-> FALSE]
    /\ policyValue' = [s \in Sessions |-> Factory]

DatastoreNext ==
    \/ RouterDelete
    \/ \E s \in Sessions :
          \/ SessionCreate(s) \/ SessionClose(s) \/ LeaveMode(s)
          \/ Commit(s) \/ DiscardCandidate(s)
          \/ \E m \in Modes : EnterMode(s, m)
          \/ \E t \in SharedModes \cap Modes : TransitionMode(s, t)
          \/ \E k \in Keys, v \in Values : EditCandidate(s, k, v)
          \/ PolicyBegin(s) \/ PolicyAbort(s) \/ PolicyCommit(s)
          \/ \E v \in Values : PolicyEdit(s, v)
    \/ Classic /\ \E k \in Keys, v \in Values : ClassicCommand(k, v)
    \/ \E c \in Configuration : DirectWrite(c)

DatastoreSpec == DatastoreInit /\ [][DatastoreNext]_vars

-----------------------------------------------------------------------------
(* Properties.                                                             *)

\* Every datastore holds complete configurations.
DatastoreTypeOK ==
    /\ TypeOK
    /\ value \in Configuration
    /\ globalInit \in BOOLEAN
    /\ globalValue \in Configuration
    /\ privateValue \in [Sessions -> Configuration]
    /\ policyActive \in [Sessions -> BOOLEAN]
    /\ policyValue \in [Sessions -> Configuration]

\* While a session stays exclusive, no terminal changes the running values to
\* anything but the candidate that session owns: neither a private commit, a
\* classic command nor a policy transaction begun before the lock gets through
\* commit() or authorize_classic_write().  "Exclusive mode enforces a single
\* writer" among terminals only: the web client's direct writes, which name no
\* terminal, ask for no lock and are the exception.
RunningValuesLocked ==
    [][ \A s \in Sessions :
          mode[s] = "exclusive" /\ mode'[s] = "exclusive" /\ value' # value
             => value' = globalValue \/ DirectWrite(value') ]_vars

\* A dirty shared candidate keeps its own values: while it stays dirty its
\* values change only on recorded keys, whatever private sessions commit and
\* the classic CLI writes in the meantime.
DirtySharedCandidateKept ==
    [][ globalKeys # {} /\ globalKeys' # {} =>
          \A k \in Keys : globalValue'[k] # globalValue[k] => k \in globalKeys' ]_vars

\* What the controller promises, and is proved of it alone, holds of the
\* composition: every command, whatever it does to the values, is one call of
\* the controller or none.
WorkflowsImplemented == Spec

\* A commit changes running only on the paths that its session, or the users
\* of the shared candidate, edited since they last agreed with running: those
\* are the paths conflict detection has looked at ("Private commits detect
\* conflicts against the base generation") and the ones an exclusive exit has
\* not discarded ("Exclusive exit discards its global changes").
CommitInstallsOnlyEdits ==
    [][ \A s \in Sessions, k \in Keys :
          /\ CommitPrivate(s) /\ value'[k] # value[k] => k \in changes[s]
          /\ CommitGlobal(s) /\ value'[k] # value[k] => k \in globalKeys ]_vars

=============================================================================
