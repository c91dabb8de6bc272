----------------------------- MODULE RegistryGC -----------------------------
(***************************************************************************)
(* Registry garbage collection: cmd_gc of the exe-image-forge script beside *)
(* the vend service, which writes the same registry.  They share one file  *)
(* lock.  The script runs under "set -euo pipefail"; a TERM reaches the    *)
(* shell alone, which handles it between two commands.                     *)
(***************************************************************************)
EXTENDS Naturals, FiniteSets

CONSTANTS
    Jobs,        \* runs of "exe-image-forge gc": the daily timer, an operator
    Writers,     \* vend operations under withRegistryLock: pushes, deletes
    Failing,     \* the docker commands that may fail
    MaxSignals   \* bound: how many TERM signals are sent

ASSUME WritersAreNotJobs == Jobs \cap Writers = {}
ASSUME FailingCommands == Failing \subseteq {"prune", "inspect", "stop", "collect", "start"}
ASSUME SignalsNat == MaxSignals \in Nat

VARIABLES
    registry,    \* the registry container
    wanted,      \* its state before any job ran
    holder,      \* who holds registry.lock: nobody or one process
    pc,          \* the next command of each job
    dry,         \* --dry-run
    wasRunning,  \* was_running
    needs,       \* registry_needs_restart
    writer,      \* where each vend operation is
    signals,     \* signals sent so far
    failing      \* the docker commands that may fail in this behaviour

vars == <<registry, wanted, holder, pc, dry, wasRunning, needs, writer, signals, failing>>
jobVars == <<pc, dry, wasRunning, needs>>

JobStates == {"idle", "flock", "prune", "inspect", "mark", "stop", "collect",
              "collecting", "restart", "ended"}

\* Commands that run while the trap is set.
Trapped == {"mark", "stop", "collect", "restart"}

TypeOK ==
    /\ registry \in {"up", "down", "absent"}
    /\ wanted \in {"up", "down", "absent"}
    /\ holder \subseteq Jobs \cup Writers /\ Cardinality(holder) <= 1
    /\ pc \in [Jobs -> JobStates]
    /\ dry \in [Jobs -> BOOLEAN]
    /\ wasRunning \in [Jobs -> BOOLEAN]
    /\ needs \in [Jobs -> BOOLEAN]
    /\ writer \in [Writers -> {"idle", "waiting", "writing", "done", "failed"}]
    /\ signals \in 0..MaxSignals
    /\ failing \subseteq Failing

Init ==
    /\ registry \in {"up", "down", "absent"} /\ wanted = registry
    /\ holder = {}
    /\ pc = [j \in Jobs |-> "idle"]
    /\ dry \in [Jobs -> BOOLEAN]
    /\ wasRunning = [j \in Jobs |-> FALSE]
    /\ needs = [j \in Jobs |-> FALSE]
    /\ writer = [w \in Writers |-> "idle"]
    /\ signals = 0
    /\ failing \in SUBSET Failing

Goto(j, label) == pc' = [pc EXCEPT ![j] = label]

\* The process ends and its descriptor of the lock file is closed.
Exit(j) == Goto(j, "ended") /\ holder' = holder \ {j}

-----------------------------------------------------------------------------
JobStart(j) ==
    /\ pc[j] = "idle"
    /\ Goto(j, "flock")
    /\ UNCHANGED <<registry, wanted, holder, dry, wasRunning, needs, writer, signals, failing>>

JobLock(j) ==
    /\ pc[j] = "flock" /\ holder = {}
    /\ holder' = {j}
    /\ Goto(j, IF dry[j] THEN "inspect" ELSE "prune")
    /\ UNCHANGED <<registry, wanted, dry, wasRunning, needs, writer, signals, failing>>

\* flock -w 300 gives up while somebody else holds the lock; die.
JobTimeout(j) ==
    /\ pc[j] = "flock" /\ holder # {}
    /\ Exit(j)
    /\ UNCHANGED <<registry, wanted, dry, wasRunning, needs, writer, signals, failing>>

\* Local pruning; "set -e" ends the script when it fails.
JobPrune(j) ==
    /\ pc[j] = "prune"
    /\ \/ Goto(j, "inspect") /\ UNCHANGED holder
       \/ "prune" \in failing /\ Exit(j)
    /\ UNCHANGED <<registry, wanted, dry, wasRunning, needs, writer, signals, failing>>

\* Three calls of docker inspect: whether there is a container, its image, and
\* whether it runs.  No container, or a first or second call that fails: nothing
\* is collected.  The last one is inside a test, where "set -e" does not look:
\* when it fails the script goes on as if the registry were down.
JobInspect(j) ==
    /\ pc[j] = "inspect"
    /\ \/ /\ registry = "absent" \/ "inspect" \in failing
          /\ Exit(j) /\ UNCHANGED wasRunning
       \/ /\ registry # "absent"
          /\ \E seen \in {registry = "up"} \cup (IF "inspect" \in failing THEN {FALSE} ELSE {}) :
                wasRunning' = [wasRunning EXCEPT ![j] = seen]
          /\ Goto(j, IF dry[j] THEN "collect" ELSE "mark")
          /\ UNCHANGED holder
    /\ UNCHANGED <<registry, wanted, dry, needs, writer, signals, failing>>

JobMark(j) ==
    /\ pc[j] = "mark"
    /\ needs' = [needs EXCEPT ![j] = wasRunning[j]]
    /\ Goto(j, "stop")
    /\ UNCHANGED <<registry, wanted, holder, dry, wasRunning, writer, signals, failing>>

\* Mutant: the collector is started before the registry is stopped.
JobStopLate(j) ==
    /\ pc[j] = "stop"
    /\ Goto(j, "collect")
    /\ UNCHANGED <<registry, wanted, holder, dry, wasRunning, needs, writer, signals, failing>>

\* docker stop.  When it fails, having stopped the container or not, "set -e"
\* ends the function, and the EXIT trap then runs outside it, where
\* registry_needs_restart, a local, is unbound: nothing is restored.
JobStop(j) ==
    /\ pc[j] = "stop"
    /\ \/ ~wasRunning[j] /\ Goto(j, "collect") /\ UNCHANGED <<registry, holder>>
       \/ wasRunning[j] /\ registry' = "down" /\ Goto(j, "collect") /\ UNCHANGED holder
       \/ /\ wasRunning[j] /\ "stop" \in failing
          /\ registry' \in {registry, "down"}
          /\ Exit(j)
    /\ UNCHANGED <<wanted, dry, wasRunning, needs, writer, signals, failing>>

JobCollect(j) ==
    /\ pc[j] = "collect"
    /\ Goto(j, "collecting")
    /\ UNCHANGED <<registry, wanted, holder, dry, wasRunning, needs, writer, signals, failing>>

\* Mutant: a failed collection returns before the restart.
JobCollectedReturns(j) ==
    /\ pc[j] = "collecting"
    /\ \/ Goto(j, "restart") /\ UNCHANGED holder
       \/ "collect" \in failing /\ Exit(j)
    /\ UNCHANGED <<registry, wanted, dry, wasRunning, needs, writer, signals, failing>>

\* The one-shot collector ends; its failure only sets the exit status.
JobCollected(j) ==
    /\ pc[j] = "collecting"
    /\ Goto(j, "restart")
    /\ UNCHANGED <<registry, wanted, holder, dry, wasRunning, needs, writer, signals, failing>>

\* restore_registry: docker start, whose failure is ignored.
restore_registry(j) ==
    /\ \/ ~needs[j] /\ UNCHANGED registry
       \/ needs[j] /\ registry' = "up"
       \/ needs[j] /\ "start" \in failing /\ UNCHANGED registry
    /\ needs' = [needs EXCEPT ![j] = FALSE]

JobRestart(j) ==
    /\ pc[j] = "restart"
    /\ IF ~dry[j] /\ wasRunning[j]
       THEN restore_registry(j)
       ELSE UNCHANGED <<registry, needs>>
    /\ Exit(j)
    /\ UNCHANGED <<wanted, dry, wasRunning, writer, signals, failing>>

\* TERM or INT before the trap is set ends the script ...
SignalDies(j) ==
    /\ signals < MaxSignals
    /\ pc[j] \in {"flock", "prune", "inspect"}
    /\ signals' = signals + 1
    /\ Exit(j)
    /\ UNCHANGED <<registry, wanted, dry, wasRunning, needs, writer, failing>>

\* ... and afterwards runs the handler, which does not exit: the script goes on
\* with its next command.  (A signal during the collector is handled when the
\* collector has ended, at "restart".)
SignalTrapped(j) ==
    /\ signals < MaxSignals
    /\ pc[j] \in Trapped
    /\ signals' = signals + 1
    /\ restore_registry(j)
    /\ UNCHANGED <<wanted, holder, pc, dry, wasRunning, writer, failing>>

-----------------------------------------------------------------------------
(***************************************************************************)
(* A write of the vend service: withRegistryLock polls the same lock.      *)
(***************************************************************************)
WriterAsk(w) ==
    /\ writer[w] = "idle"
    /\ writer' = [writer EXCEPT ![w] = "waiting"]
    /\ UNCHANGED <<registry, wanted, holder, jobVars, signals, failing>>

WriterLock(w) ==
    /\ writer[w] = "waiting" /\ holder = {}
    /\ holder' = {w}
    /\ writer' = [writer EXCEPT ![w] = "writing"]
    /\ UNCHANGED <<registry, wanted, jobVars, signals, failing>>

\* Mutant: the poll ends with the context, and the write runs all the same.
WriterCancelWrites(w) ==
    /\ writer[w] = "waiting"
    /\ writer' = [writer EXCEPT ![w] = "writing"]
    /\ UNCHANGED <<registry, wanted, holder, jobVars, signals, failing>>

\* The request's context ends while it polls.
WriterCancel(w) ==
    /\ writer[w] = "waiting"
    /\ writer' = [writer EXCEPT ![w] = "failed"]
    /\ UNCHANGED <<registry, wanted, holder, jobVars, signals, failing>>

\* Mutant: a failed write returns without unlocking.
WriterDoneKeepsLock(w) ==
    /\ writer[w] = "writing"
    /\ \E result \in {"done", "failed"} :
        /\ result = "done" => registry = "up"
        /\ writer' = [writer EXCEPT ![w] = result]
        /\ holder' = IF result = "done" THEN holder \ {w} ELSE holder
    /\ UNCHANGED <<registry, wanted, jobVars, signals, failing>>

\* The write ends; without a registry it can only fail.
WriterDone(w) ==
    /\ writer[w] = "writing"
    /\ \E result \in {"done", "failed"} :
        /\ result = "done" => registry = "up"
        /\ writer' = [writer EXCEPT ![w] = result]
    /\ holder' = holder \ {w}
    /\ UNCHANGED <<registry, wanted, jobVars, signals, failing>>

Job(j) ==
    \/ JobLock(j) \/ JobPrune(j) \/ JobInspect(j) \/ JobMark(j) \/ JobStop(j)
    \/ JobCollect(j) \/ JobCollected(j) \/ JobRestart(j)

Next ==
    \/ \E j \in Jobs :
        JobStart(j) \/ JobTimeout(j) \/ Job(j) \/ SignalDies(j) \/ SignalTrapped(j)
    \/ \E w \in Writers :
        WriterAsk(w) \/ WriterLock(w) \/ WriterCancel(w) \/ WriterDone(w)

Spec == Init /\ [][Next]_vars

\* A script and a request run on; a waiter meets a free lock unless it gives up.
Fairness ==
    /\ \A j \in Jobs : WF_vars(Job(j))
    /\ \A w \in Writers : WF_vars(WriterLock(w)) /\ WF_vars(WriterDone(w))

FairSpec == Spec /\ Fairness

-----------------------------------------------------------------------------
Collecting(j) == pc[j] = "collecting" /\ ~dry[j]

\* The collector never sweeps the volumes while the service writes to the
\* registry or another job stops, collects or restarts it: the script and the
\* service exclude each other through registry.lock.
CollectsAlone ==
    \A j \in Jobs : Collecting(j) =>
        /\ \A w \in Writers : writer[w] # "writing"
        /\ \A k \in Jobs \ {j} : pc[k] \in {"idle", "flock", "ended"}

\* "Registry garbage collection is stop-the-world" (docs/operations.md:262): the
\* collector runs only while the registry is stopped.
CollectsStopped == \A j \in Jobs : Collecting(j) => registry # "up"

\* What the code achieves of that, whatever else fails: the trap of a signal
\* starts the registry again and lets the script go on to collect, and a script
\* that could not ask whether the registry runs does not stop it.
StopTheWorld == signals = 0 /\ "inspect" \notin failing => CollectsStopped

\* A registry that ran before is stopped only for a job that is about to start
\* it again, "even when collection fails or the process receives a termination
\* signal" (docs/operations.md:264).
RegistryBack ==
    wanted = "up" /\ registry = "down" =>
        \E j \in Jobs : needs[j] /\ pc[j] \in {"collect", "collecting", "restart"}

\* What the code achieves of that: without signals, and as long as docker can
\* stop and start the container.
RegistryBackUndisturbed ==
    signals = 0 /\ failing \cap {"stop", "start"} = {} => RegistryBack

\* Whoever waits for the lock gets it or gives up: no job or write blocks the
\* others for good, whatever fails or is signalled.
NobodyWaitsForever ==
    /\ \A j \in Jobs : pc[j] = "flock" ~> pc[j] = "ended"
    /\ \A w \in Writers : writer[w] = "waiting" ~> writer[w] \in {"done", "failed"}

\* Commands that run with the lock held.
Held == {"prune", "inspect", "mark", "stop", "collect", "collecting", "restart"}

FileLock == INSTANCE RegistryLock WITH
    Users <- Jobs \cup Writers,
    waiting <- {j \in Jobs : pc[j] = "flock"} \cup {w \in Writers : writer[w] = "waiting"},
    inside <- {j \in Jobs : pc[j] \in Held} \cup {w \in Writers : writer[w] = "writing"},
    free <- (holder = {})

\* Seen from registry.lock, the script and the service are users that exclude
\* each other, and no way out of either, by a failed command, "set -e", a signal,
\* a timeout or a cancelled request, leaves the lock taken behind it.
ImplementsRegistryLock == FileLock!Spec
=============================================================================
