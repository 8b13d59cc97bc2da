----------------------- MODULE ControlProjectionWorker -----------------------
(***************************************************************************)
(* ControlProjectionWorker: the secondary control pthread.  The control    *)
(* owner pushes commands into one ring and pops results from another; the  *)
(* worker sleeps on a condition variable when it has no command and when   *)
(* the result ring is full.  The rings are the queues SpscRing implements. *)
(* A wait is three steps: the predicate is evaluated with the mutex held,  *)
(* the worker parks, and it sleeps (which frees the mutex).  A notify is   *)
(* two: the mutex is taken and freed, then a sleeper is woken, if any.     *)
(***************************************************************************)
EXTENDS Naturals, Sequences

CONSTANTS CommandEntries,  \* usable entries of commands_
          ResultEntries,   \* usable entries of results_
          MaxId,           \* bound: commands submitted in a behaviour
          StartupRace      \* TRUE: the thread may run before its object is built

ASSUME WorkerAssumption ==
    /\ CommandEntries \in Nat \ {0}
    /\ ResultEntries \in Nat \ {0}
    /\ MaxId \in Nat
    /\ StartupRace \in BOOLEAN

VARIABLES
    commands, results,  \* commands_, results_: command ids
    stop,               \* stop_requested_
    threadId,           \* thread_id_: "none" is zero
    wpc, current,       \* worker: where it is in run(), the commands it works on
    cpc,                \* control owner: where it is in a call
    nextId, lastRead    \* control owner: next id to submit, id of the last result

rings == <<commands, results>>
worker == <<wpc, current>>
control == <<cpc, nextId, lastRead>>
vars == <<rings, stop, threadId, worker, control>>

\* The object is allocated; members declared after thread_ hold any bytes.
Init ==
    /\ commands = <<>>
    /\ results = <<>>
    /\ stop \in BOOLEAN
    /\ threadId = "none"
    /\ wpc = "created"
    /\ current = <<>>
    /\ cpc = "constructing"
    /\ nextId = 1
    /\ lastRead = 0

\* The worker holds wait_mutex_ from the predicate to the sleep.
MutexHeld == wpc \in {"emptyPark", "fullPark"}

-----------------------------------------------------------------------------
(* The worker thread: run().                                               *)

Start ==
    /\ wpc = "created"
    /\ StartupRace \/ cpc # "constructing"
    /\ wpc' = "top"
    /\ threadId' = "live"
    /\ UNCHANGED <<rings, stop, current, control>>

\* try_pop succeeds and the projection is computed.
Take ==
    /\ wpc = "top"
    /\ ~stop
    /\ commands # <<>>
    /\ current' = <<Head(commands)>>
    /\ commands' = Tail(commands)
    /\ wpc' = "push"
    /\ UNCHANGED <<results, stop, threadId, control>>

\* try_pop finds no command.
FindEmpty ==
    /\ wpc = "top"
    /\ ~stop
    /\ commands = <<>>
    /\ wpc' = "emptyWait"
    /\ UNCHANGED <<rings, stop, threadId, current, control>>

\* The wait of an empty command ring: the predicate, with the mutex held.
EmptyWait ==
    /\ wpc = "emptyWait"
    /\ wpc' = IF stop \/ commands # <<>> THEN "top" ELSE "emptyPark"
    /\ UNCHANGED <<rings, stop, threadId, current, control>>

\* A slip in run(): a result that finds no room is dropped.
PushDropping ==
    /\ wpc = "push"
    /\ results' = IF Len(results) < ResultEntries THEN results \o current ELSE results
    /\ current' = <<>>
    /\ wpc' = "top"
    /\ UNCHANGED <<commands, stop, threadId, control>>

\* try_push of the result; a full ring makes the worker wait unless it stops.
Push ==
    /\ wpc = "push"
    /\ IF Len(results) < ResultEntries
       THEN results' = results \o current /\ current' = <<>> /\ wpc' = "top"
       ELSE IF stop
       THEN current' = <<>> /\ wpc' = "top" /\ UNCHANGED results
       ELSE wpc' = "fullWait" /\ UNCHANGED <<results, current>>
    /\ UNCHANGED <<commands, stop, threadId, control>>

\* The wait of a full result ring: the predicate, with the mutex held.
FullWait ==
    /\ wpc = "fullWait"
    /\ wpc' = IF stop \/ Len(results) < ResultEntries THEN "push" ELSE "fullPark"
    /\ UNCHANGED <<rings, stop, threadId, current, control>>

\* wait() frees the mutex and sleeps in one step.
Sleep ==
    /\ \/ wpc = "emptyPark" /\ wpc' = "emptySleep"
       \/ wpc = "fullPark" /\ wpc' = "fullSleep"
    /\ UNCHANGED <<rings, stop, threadId, current, control>>

\* Where a sleeper goes on; anyone else is not affected.
Woken(pc) == CASE pc = "emptySleep" -> "emptyWait"
               [] pc = "fullSleep" -> "fullWait"
               [] OTHER -> pc

\* A condition variable may wake without a notify.
WakeSpuriously ==
    /\ wpc \in {"emptySleep", "fullSleep"}
    /\ wpc' = Woken(wpc)
    /\ UNCHANGED <<rings, stop, threadId, current, control>>

Exit ==
    /\ wpc = "top"
    /\ stop
    /\ wpc' = "done"
    /\ threadId' = "none"
    /\ UNCHANGED <<rings, stop, current, control>>

Run ==
    Start \/ Take \/ FindEmpty \/ EmptyWait \/ Push \/ FullWait \/ Sleep \/ Exit

-----------------------------------------------------------------------------
(* The control owner.                                                      *)

\* The members after thread_ are built once the thread exists.  A condition
\* variable that is built under a sleeper may forget it.
Construct ==
    /\ cpc = "constructing"
    /\ cpc' = "idle"
    /\ stop' = FALSE
    /\ threadId' = "none"
    /\ wpc' \in {wpc} \cup (IF Woken(wpc) # wpc THEN {"deaf"} ELSE {})
    /\ UNCHANGED <<rings, current, nextId, lastRead>>

\* submit(): a full ring refuses the command, otherwise notify() follows.
Submit ==
    /\ cpc = "idle"
    /\ nextId <= MaxId
    /\ Len(commands) < CommandEntries
    /\ commands' = Append(commands, nextId)
    /\ nextId' = nextId + 1
    /\ cpc' = "lock"
    /\ UNCHANGED <<results, stop, threadId, worker, lastRead>>

\* A slip in read(): the worker is not told that the ring has room again.
ReadSilently ==
    /\ cpc = "idle"
    /\ results # <<>>
    /\ lastRead' = Head(results)
    /\ results' = Tail(results)
    /\ UNCHANGED <<commands, stop, threadId, worker, cpc, nextId>>

\* read(): a result was popped, notify() follows.
Read ==
    /\ cpc = "idle"
    /\ results # <<>>
    /\ lastRead' = Head(results)
    /\ results' = Tail(results)
    /\ cpc' = "lock"
    /\ UNCHANGED <<commands, stop, threadId, worker, nextId>>

\* A slip in the destructor: it joins without a notify.
DestroySilently ==
    /\ cpc = "idle"
    /\ stop' = TRUE
    /\ cpc' = "join"
    /\ UNCHANGED <<rings, threadId, worker, nextId, lastRead>>

\* The destructor asks the worker to stop.
Destroy ==
    /\ cpc = "idle"
    /\ stop' = TRUE
    /\ cpc' = "lock"
    /\ UNCHANGED <<rings, threadId, worker, nextId, lastRead>>

\* A slip in notify(): the wait mutex is not taken first.
LockSkipped ==
    /\ cpc = "lock"
    /\ cpc' = "notify"
    /\ UNCHANGED <<rings, stop, threadId, worker, nextId, lastRead>>

\* notify(), first half: the wait mutex is taken and freed.
Lock ==
    /\ cpc = "lock"
    /\ ~MutexHeld
    /\ cpc' = "notify"
    /\ UNCHANGED <<rings, stop, threadId, worker, nextId, lastRead>>

\* notify(), second half: notify_one.  The destructor goes on to join.
Notify ==
    /\ cpc = "notify"
    /\ wpc' = Woken(wpc)
    /\ cpc' = IF stop THEN "join" ELSE "idle"
    /\ UNCHANGED <<rings, stop, threadId, current, nextId, lastRead>>

Join ==
    /\ cpc = "join"
    /\ wpc = "done"
    /\ cpc' = "destroyed"
    /\ UNCHANGED <<rings, stop, threadId, worker, nextId, lastRead>>

Destroyed == cpc = "destroyed" /\ UNCHANGED vars

Control ==
    \/ Construct \/ Submit \/ Read \/ Destroy \/ Lock \/ Notify \/ Join

Next == Run \/ WakeSpuriously \/ Control \/ Destroyed

\* Threads that can run do run, and a mutex that is freed again and again is
\* granted in the end.  The control owner finishes its calls and polls read()
\* until a result arrives; nothing makes it submit or destroy, and a sleeper
\* wakes only when it is notified (no fairness for WakeSpuriously).
Fairness ==
    /\ WF_vars(Run)
    /\ WF_vars(Construct \/ Notify \/ Join)
    /\ SF_vars(Lock)
    /\ WF_vars(Read)

Spec == Init /\ [][Next]_vars /\ Fairness

-----------------------------------------------------------------------------
(* Properties.                                                             *)

Ids == 1 .. MaxId

\* Rings hold ids within their capacities, program counters are known.
TypeOK ==
    /\ commands \in Seq(Ids) /\ Len(commands) <= CommandEntries
    /\ results \in Seq(Ids) /\ Len(results) <= ResultEntries
    /\ stop \in BOOLEAN
    /\ threadId \in {"none", "live"}
    /\ wpc \in {"created", "top", "emptyWait", "emptyPark", "emptySleep", "push",
                "fullWait", "fullPark", "fullSleep", "deaf", "done"}
    /\ current \in Seq(Ids)
    /\ cpc \in {"constructing", "idle", "lock", "notify", "join", "destroyed"}
    /\ nextId \in 1 .. MaxId + 1
    /\ lastRead \in 0 .. MaxId

\* "Taking the wait mutex closes the notify-before-sleep race": a worker that
\* sleeps although it could go on is about to be notified.
NoLostWakeup ==
    \/ wpc = "emptySleep" /\ (stop \/ commands # <<>>)
    \/ wpc = "fullSleep" /\ (stop \/ Len(results) < ResultEntries)
    => cpc \in {"lock", "notify"}

\* "Result order equals command order" and "backpressure is lossless": what
\* was submitted and not read is in the results ring, with the worker or in
\* the commands ring, every command once and in order, until the worker stops.
LosslessInOrder ==
    ~stop => results \o current \o commands
             = [i \in 1 .. nextId - 1 - lastRead |-> lastRead + i]

\* Every submitted command is answered and its answer read, or the worker is
\* told to stop.
EveryCommandAnswered ==
    \A i \in Ids : nextId > i ~> (lastRead >= i \/ stop)

\* The destructor's join returns.
DestructorReturns == cpc = "join" ~> cpc = "destroyed"

\* What the worker's own test asserts after one answered command: the live
\* worker has published its thread id.
ThreadIdPublished == lastRead > 0 /\ ~stop => threadId = "live"
=============================================================================
