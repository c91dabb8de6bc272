-------------------------- MODULE RegistryGCProofs --------------------------
(***************************************************************************)
(* Theorems about RegistryGC, for any jobs, any writes, any set of docker  *)
(* commands that may fail and any number of signals.                       *)
(***************************************************************************)
EXTENDS RegistryGC, FiniteSetTheorems, TLAPS

\* Commands of a job that has taken the registry down or is about to.
Restoring == {"collect", "collecting", "restart"}

\* TypeOK with the holder told apart instead of counted.
FieldsOK ==
    /\ registry \in {"up", "down", "absent"}
    /\ wanted \in {"up", "down", "absent"}
    /\ pc \in [Jobs -> JobStates]
    /\ dry \in [Jobs -> BOOLEAN]
    /\ wasRunning \in [Jobs -> BOOLEAN]
    /\ needs \in [Jobs -> BOOLEAN]
    /\ writer \in [Writers -> {"idle", "waiting", "writing", "done", "failed"}]
    /\ signals \in 0 .. MaxSignals
    /\ failing \subseteq Failing

\* The lock has one holder, and who works under it is that holder.
LockExcludes ==
    /\ holder = {} \/ \E p \in Jobs \cup Writers : holder = {p}
    /\ \A j \in Jobs : pc[j] \in Held => holder = {j}
    /\ \A w \in Writers : writer[w] = "writing" => holder = {w}

\* was_running is still true of the container when the script acts on it, and
\* says all of it if the script could ask.
ReadIsCurrent ==
    signals = 0 => \A j \in Jobs :
        /\ pc[j] \in {"mark", "stop"} /\ wasRunning[j] => registry = "up"
        /\ pc[j] = "stop" => (needs[j] <=> wasRunning[j])
        /\ "inspect" \notin failing =>
            /\ pc[j] \in {"mark", "stop"} /\ registry = "up" => wasRunning[j]
            /\ pc[j] \in Restoring /\ ~dry[j] => registry # "up"

\* Only a real collection that found the registry running asks for a restart.
NeedsMeansRan ==
    \A j \in Jobs :
        /\ pc[j] \in {"mark", "stop"} => ~dry[j]
        /\ needs[j] => /\ wasRunning[j] /\ ~dry[j]
                       /\ pc[j] \in {"stop", "ended"} \cup Restoring

GInv ==
    /\ FieldsOK /\ LockExcludes /\ ReadIsCurrent /\ NeedsMeansRan
    /\ RegistryBackUndisturbed

-----------------------------------------------------------------------------
LEMMA CollectionInit == Init => GInv
BY SignalsNat DEF Init, GInv, FieldsOK, LockExcludes, ReadIsCurrent, NeedsMeansRan,
   RegistryBackUndisturbed, RegistryBack, JobStates, Held, Restoring

\* Nobody else works under the lock while a job does.
LEMMA OthersAreOut ==
    ASSUME FieldsOK, LockExcludes, NEW j \in Jobs, pc[j] \in Held
    PROVE  /\ holder = {j}
           /\ \A k \in Jobs \ {j} : pc[k] \in {"idle", "flock", "ended"}
           /\ \A w \in Writers : writer[w] # "writing"
<1>1. holder = {j}
  BY DEF LockExcludes
<1>2. \A k \in Jobs \ {j} : pc[k] \in JobStates /\ pc[k] \notin Held
  BY <1>1 DEF LockExcludes, FieldsOK
<1>3. \A w \in Writers : w # j
  BY WritersAreNotJobs
<1> QED
  BY <1>1, <1>2, <1>3 DEF LockExcludes, Held, JobStates

\* What one job may do to the state while it holds the lock, or before it asks
\* for it, leaves the lock's order and what the other jobs have read as it was.
LEMMA LockKept ==
    ASSUME FieldsOK, LockExcludes, NEW j \in Jobs,
           NEW l \in JobStates, pc' = [pc EXCEPT ![j] = l],
           \/ pc[j] \in Held /\ l \in Held /\ holder' = holder
           \/ pc[j] = "flock" /\ l \in Held /\ holder = {} /\ holder' = {j}
           \/ pc[j] = "idle" /\ l = "flock" /\ holder' = holder
           \/ pc[j] \in Held \cup {"flock"} /\ l = "ended" /\ holder' = holder \ {j},
           writer' = writer
    PROVE  LockExcludes'
<1>1. \A k \in Jobs : pc'[k] = IF k = j THEN l ELSE pc[k]
  BY DEF FieldsOK
<1>2. CASE pc[j] \in Held
  BY <1>1, <1>2, OthersAreOut DEF LockExcludes, Held
<1>3. CASE pc[j] = "flock" /\ l \in Held /\ holder = {} /\ holder' = {j}
  BY <1>1, <1>3 DEF LockExcludes, Held
<1>4. CASE pc[j] = "idle" /\ l = "flock" /\ holder' = holder
  BY <1>1, <1>4 DEF LockExcludes, Held
<1>5. CASE pc[j] = "flock" /\ l = "ended" /\ holder' = holder \ {j}
  <2>1. \A k \in Jobs : pc'[k] \in Held => k # j /\ holder = {k}
    BY <1>1, <1>5 DEF LockExcludes, Held
  <2>2. \A w \in Writers : w # j
    BY WritersAreNotJobs
  <2> QED
    BY <1>5, <2>1, <2>2 DEF LockExcludes
<1> QED
  BY <1>2, <1>3, <1>4, <1>5 DEF Held

-----------------------------------------------------------------------------
\* Every command of a job keeps the invariant.
LEMMA JobKeeps ==
    ASSUME GInv, NEW j \in Jobs,
           JobStart(j) \/ JobTimeout(j) \/ Job(j) \/ SignalDies(j) \/ SignalTrapped(j)
    PROVE  GInv'
<1> USE DEF GInv
<1>t. /\ FieldsOK /\ LockExcludes /\ ReadIsCurrent /\ NeedsMeansRan
      /\ RegistryBackUndisturbed
  OBVIOUS
<1>o. pc[j] \in Held => \A k \in Jobs \ {j} : pc[k] \in {"idle", "flock", "ended"}
  BY <1>t, OthersAreOut
<1> USE DEF FieldsOK, JobStates, Held, Restoring, ReadIsCurrent, NeedsMeansRan,
            RegistryBackUndisturbed, RegistryBack, Goto, Exit
<1>1. CASE JobStart(j)
  <2>1. LockExcludes'
    BY <1>1, LockKept DEF JobStart
  <2> QED
    BY <1>1, <2>1 DEF JobStart
<1>2. CASE JobTimeout(j)
  <2>1. LockExcludes'
    BY <1>2, LockKept DEF JobTimeout
  <2> QED
    BY <1>2, <2>1 DEF JobTimeout
<1>3. CASE JobLock(j)
  <2>1. LockExcludes'
    BY <1>3, LockKept DEF JobLock
  <2> QED
    BY <1>3, <2>1 DEF JobLock
<1>4. CASE JobPrune(j)
  <2>1. LockExcludes'
    BY <1>4, LockKept DEF JobPrune
  <2> QED
    BY <1>4, <2>1 DEF JobPrune
<1>5. CASE JobInspect(j)
  <2>1. LockExcludes'
    BY <1>5, LockKept DEF JobInspect
  <2>2. CASE Exit(j) /\ UNCHANGED wasRunning
    BY <1>5, <2>1, <2>2 DEF JobInspect
  <2>3. ASSUME NEW seen \in BOOLEAN, seen => registry = "up",
               "inspect" \notin failing /\ registry = "up" => seen,
               wasRunning' = [wasRunning EXCEPT ![j] = seen],
               Goto(j, IF dry[j] THEN "collect" ELSE "mark")
        PROVE  GInv'
    <3>1. /\ UNCHANGED <<registry, wanted, dry, needs, writer, signals, failing>>
          /\ pc[j] = "inspect" /\ ~needs[j]
      BY <1>5 DEF JobInspect
    <3>2. FieldsOK'
      BY <2>3, <3>1
    <3>3. ReadIsCurrent'
      BY <2>3, <3>1, <1>o
    <3>4. NeedsMeansRan'
      BY <2>3, <3>1
    <3>5. RegistryBackUndisturbed'
      BY <2>3, <3>1
    <3> QED
      BY <2>1, <3>2, <3>3, <3>4, <3>5
  <2> QED
    BY <1>5, <2>2, <2>3 DEF JobInspect
<1>6. CASE JobMark(j)
  <2>1. LockExcludes'
    BY <1>6, LockKept DEF JobMark
  <2> QED
    BY <1>6, <2>1, <1>o DEF JobMark
<1>7. CASE JobStop(j)
  <2>1. LockExcludes'
    BY <1>7, LockKept DEF JobStop
  <2> QED
    BY <1>7, <2>1, <1>o DEF JobStop
<1>8. CASE JobCollect(j)
  <2>1. LockExcludes'
    BY <1>8, LockKept DEF JobCollect
  <2> QED
    BY <1>8, <2>1 DEF JobCollect
<1>9. CASE JobCollected(j)
  <2>1. LockExcludes'
    BY <1>9, LockKept DEF JobCollected
  <2> QED
    BY <1>9, <2>1 DEF JobCollected
<1>10. CASE JobRestart(j)
  <2>1. LockExcludes'
    BY <1>10, LockKept DEF JobRestart
  <2>2. /\ pc[j] = "restart" /\ pc' = [pc EXCEPT ![j] = "ended"]
        /\ registry' \in {registry, "up"} /\ needs' \in {needs, [needs EXCEPT ![j] = FALSE]}
        /\ ~dry[j] /\ wasRunning[j] => restore_registry(j)
        /\ dry[j] \/ ~wasRunning[j] => registry' = registry /\ needs' = needs
        /\ UNCHANGED <<wanted, dry, wasRunning, writer, signals, failing>>
    BY <1>10 DEF JobRestart, restore_registry
  <2>3. FieldsOK'
    BY <2>2
  <2>4. ReadIsCurrent'
    BY <2>2, <1>o
  <2>5. NeedsMeansRan'
    BY <2>2
  <2>6. RegistryBackUndisturbed'
    BY <2>2, <1>o DEF restore_registry
  <2> QED
    BY <2>1, <2>3, <2>4, <2>5, <2>6
<1>11. CASE SignalDies(j)
  <2>1. LockExcludes'
    BY <1>11, LockKept DEF SignalDies
  <2> QED
    BY <1>11, <2>1, SignalsNat DEF SignalDies
<1>12. CASE SignalTrapped(j)
  <2>1. LockExcludes'
    BY <1>12 DEF SignalTrapped, LockExcludes
  <2> QED
    BY <1>12, <2>1, SignalsNat DEF SignalTrapped, restore_registry, Trapped
<1> QED
  BY <1>1, <1>2, <1>3, <1>4, <1>5, <1>6, <1>7, <1>8, <1>9, <1>10, <1>11, <1>12 DEF Job

\* So does every step of a write.
LEMMA WriteKeeps ==
    ASSUME GInv, NEW w \in Writers,
           WriterAsk(w) \/ WriterLock(w) \/ WriterCancel(w) \/ WriterDone(w)
    PROVE  GInv'
<1>1. /\ UNCHANGED <<registry, wanted, jobVars, signals, failing>>
      /\ writer' \in [Writers -> {"idle", "waiting", "writing", "done", "failed"}]
  BY DEF GInv, FieldsOK, WriterAsk, WriterLock, WriterCancel, WriterDone
<1>2. LockExcludes'
  <2>1. CASE WriterAsk(w) \/ WriterCancel(w)
    BY <2>1 DEF GInv, FieldsOK, LockExcludes, WriterAsk, WriterCancel, jobVars
  <2>2. CASE WriterLock(w)
    BY <2>2 DEF GInv, FieldsOK, LockExcludes, WriterLock, jobVars
  <2>3. CASE WriterDone(w)
    <3>1. holder = {w} /\ holder' = {}
      BY <2>3 DEF GInv, LockExcludes, WriterDone
    <3>2. \A j \in Jobs : pc'[j] \notin Held
      BY <2>3, <3>1, WritersAreNotJobs DEF GInv, LockExcludes, WriterDone, jobVars
    <3>3. \A v \in Writers : writer'[v] # "writing"
      BY <2>3, <3>1 DEF GInv, FieldsOK, LockExcludes, WriterDone
    <3> QED
      BY <3>1, <3>2, <3>3 DEF LockExcludes
  <2> QED
    BY <2>1, <2>2, <2>3
<1> QED
  BY <1>1, <1>2 DEF GInv, FieldsOK, ReadIsCurrent, NeedsMeansRan,
     RegistryBackUndisturbed, RegistryBack, jobVars

LEMMA CollectionNext == GInv /\ [Next]_vars => GInv'
<1> SUFFICES ASSUME GInv, [Next]_vars PROVE GInv'
  OBVIOUS
<1>1. CASE UNCHANGED vars
  BY <1>1 DEF vars, GInv, FieldsOK, LockExcludes, ReadIsCurrent, NeedsMeansRan,
     RegistryBackUndisturbed, RegistryBack
<1> QED
  BY <1>1, JobKeeps, WriteKeeps DEF Next

\* The lock has one holder, who is whoever works under it; what the script read
\* of the container is still true when it acts on it; a restart is asked for
\* only by a collection that found the registry running.
THEOREM CollectionInductive == Spec => []GInv
<1> QED
  BY CollectionInit, CollectionNext, PTL DEF Spec

-----------------------------------------------------------------------------
\* Every variable of a collection keeps its type, and registry.lock never has
\* two holders.
THEOREM CollectionTypeCorrect == Spec => []TypeOK
<1>1. GInv => TypeOK
  <2> SUFFICES ASSUME GInv PROVE TypeOK
    OBVIOUS
  <2>1. holder \subseteq Jobs \cup Writers /\ Cardinality(holder) <= 1
    <3>1. CASE holder = {}
      BY <3>1, FS_EmptySet
    <3>2. ASSUME NEW p \in Jobs \cup Writers, holder = {p}
          PROVE  holder \subseteq Jobs \cup Writers /\ Cardinality(holder) <= 1
      BY <3>2, FS_Singleton
    <3> QED
      BY <3>1, <3>2 DEF GInv, LockExcludes
  <2> QED
    BY <2>1 DEF GInv, FieldsOK, TypeOK
<1> QED
  BY <1>1, CollectionInductive, PTL

\* Whatever fails and whatever is signalled, the collector sweeps the volumes
\* only while no write of the service and no command of another job runs.
THEOREM CollectionIsAlone == Spec => []CollectsAlone
<1>1. GInv => CollectsAlone
  BY OthersAreOut DEF GInv, CollectsAlone, Collecting, Held
<1> QED
  BY <1>1, CollectionInductive, PTL

\* Without signals, and as long as docker tells whether the registry runs, the
\* collector runs only while it is stopped, whatever else fails.
THEOREM CollectionStopsTheWorld == Spec => []StopTheWorld
<1>1. GInv => StopTheWorld
  BY DEF GInv, ReadIsCurrent, StopTheWorld, CollectsStopped, Collecting, Restoring
<1> QED
  BY <1>1, CollectionInductive, PTL

\* Without signals, and as long as docker stops and starts the container, a
\* registry that ran before is down only for the job that starts it again.
THEOREM CollectionRestoresRegistry == Spec => []RegistryBackUndisturbed
<1>1. GInv => RegistryBackUndisturbed
  BY DEF GInv
<1> QED
  BY <1>1, CollectionInductive, PTL

-----------------------------------------------------------------------------
(***************************************************************************)
(* The script and the service implement the lock of RegistryLock.  To      *)
(* LockExcludes, by which who works is the holder, comes its converse: the *)
(* holder is at work, or else the lock would be left behind.               *)
(***************************************************************************)
HolderWorks ==
    /\ \A j \in Jobs : holder = {j} => pc[j] \in Held
    /\ \A w \in Writers : holder = {w} => writer[w] = "writing"

Waiting == {j \in Jobs : pc[j] = "flock"} \cup {w \in Writers : writer[w] = "waiting"}
Inside == {j \in Jobs : pc[j] \in Held} \cup {w \in Writers : writer[w] = "writing"}

\* The four ways a command of a job touches the lock: not at all, taking it,
\* asking for it, and ending, which gives it back if it was held.
LEMMA JobMoves ==
    ASSUME FieldsOK, NEW j \in Jobs,
           JobStart(j) \/ JobTimeout(j) \/ Job(j) \/ SignalDies(j) \/ SignalTrapped(j)
    PROVE  \E l \in JobStates :
        /\ pc' = [pc EXCEPT ![j] = l]
        /\ writer' = writer
        /\ \/ pc[j] \in Held /\ l \in Held /\ holder' = holder
           \/ pc[j] = "flock" /\ l \in Held /\ holder = {} /\ holder' = {j}
           \/ pc[j] = "idle" /\ l = "flock" /\ holder' = holder
           \/ pc[j] \in Held \cup {"flock"} /\ l = "ended" /\ holder' = holder \ {j}
<1> USE DEF FieldsOK, JobStates, Held, Goto, Exit
<1>1. CASE JobStart(j)
  BY <1>1 DEF JobStart
<1>2. CASE JobTimeout(j)
  BY <1>2 DEF JobTimeout
<1>3. CASE JobLock(j)
  BY <1>3 DEF JobLock
<1>4. CASE JobPrune(j)
  BY <1>4 DEF JobPrune
<1>5. CASE JobInspect(j)
  BY <1>5 DEF JobInspect
<1>6. CASE JobMark(j)
  BY <1>6 DEF JobMark
<1>7. CASE JobStop(j)
  BY <1>7 DEF JobStop
<1>8. CASE JobCollect(j) \/ JobCollected(j)
  BY <1>8 DEF JobCollect, JobCollected
<1>9. CASE JobRestart(j)
  BY <1>9 DEF JobRestart
<1>10. CASE SignalDies(j)
  BY <1>10 DEF SignalDies
<1>11. CASE SignalTrapped(j)
  <2>1. pc' = [pc EXCEPT ![j] = pc[j]] /\ writer' = writer /\ holder' = holder
    BY <1>11 DEF SignalTrapped
  <2> QED
    BY <1>11, <2>1 DEF SignalTrapped, Trapped
<1> QED
  BY <1>1, <1>2, <1>3, <1>4, <1>5, <1>6, <1>7, <1>8, <1>9, <1>10, <1>11 DEF Job

\* What these ways are for the lock.
LEMMA JobUsesLock ==
    ASSUME FieldsOK, LockExcludes, HolderWorks, NEW j \in Jobs,
           JobStart(j) \/ JobTimeout(j) \/ Job(j) \/ SignalDies(j) \/ SignalTrapped(j)
    PROVE  HolderWorks' /\ [FileLock!Next]_(FileLock!lockVars)
<1>1. PICK l \in JobStates :
        /\ pc' = [pc EXCEPT ![j] = l]
        /\ writer' = writer
        /\ \/ pc[j] \in Held /\ l \in Held /\ holder' = holder
           \/ pc[j] = "flock" /\ l \in Held /\ holder = {} /\ holder' = {j}
           \/ pc[j] = "idle" /\ l = "flock" /\ holder' = holder
           \/ pc[j] \in Held \cup {"flock"} /\ l = "ended" /\ holder' = holder \ {j}
  BY JobMoves
<1>2. \A k \in Jobs : pc'[k] = IF k = j THEN l ELSE pc[k]
  BY <1>1 DEF FieldsOK
<1>3. \A w \in Writers : w # j /\ w \notin Jobs
  BY WritersAreNotJobs
<1>4. /\ \A k \in Jobs : k \in Waiting <=> pc[k] = "flock"
      /\ \A k \in Jobs : k \in Waiting' <=> pc'[k] = "flock"
      /\ \A w \in Writers : w \in Waiting <=> writer[w] = "waiting"
      /\ \A w \in Writers : w \in Waiting' <=> writer[w] = "waiting"
      /\ Waiting \subseteq Jobs \cup Writers /\ Waiting' \subseteq Jobs \cup Writers
  BY <1>1, <1>3 DEF Waiting
<1>5. /\ \A k \in Jobs : k \in Inside <=> pc[k] \in Held
      /\ \A k \in Jobs : k \in Inside' <=> pc'[k] \in Held
      /\ \A w \in Writers : w \in Inside <=> writer[w] = "writing"
      /\ \A w \in Writers : w \in Inside' <=> writer[w] = "writing"
      /\ Inside \subseteq Jobs \cup Writers /\ Inside' \subseteq Jobs \cup Writers
  BY <1>1, <1>3 DEF Inside, Held
<1> USE DEF Held
<1>6. CASE pc[j] \in Held /\ l \in Held /\ holder' = holder
  <2>1. Waiting' = Waiting /\ Inside' = Inside
    BY <1>2, <1>4, <1>5, <1>6
  <2>2. HolderWorks'
    BY <1>1, <1>2, <1>6 DEF HolderWorks
  <2> QED
    BY <1>6, <2>1, <2>2 DEF FileLock!lockVars, Waiting, Inside
<1>7. CASE pc[j] = "flock" /\ l \in Held /\ holder = {} /\ holder' = {j}
  <2>1. Waiting' = Waiting \ {j} /\ Inside' = Inside \cup {j} /\ j \in Waiting
    BY <1>2, <1>3, <1>4, <1>5, <1>7
  <2>2. HolderWorks'
    BY <1>1, <1>2, <1>3, <1>7 DEF HolderWorks
  <2>3. FileLock!Enter(j)
    BY <1>7, <2>1 DEF FileLock!Enter, Waiting, Inside
  <2> QED
    BY <2>2, <2>3 DEF FileLock!Next
<1>8. CASE pc[j] = "idle" /\ l = "flock" /\ holder' = holder
  <2>1. Waiting' = Waiting \cup {j} /\ Inside' = Inside /\ {j} \cap Inside = {}
    BY <1>2, <1>3, <1>4, <1>5, <1>8
  <2>2. HolderWorks'
    BY <1>1, <1>2, <1>3, <1>8 DEF HolderWorks
  <2>3. FileLock!Ask({j})
    BY <1>8, <2>1 DEF FileLock!Ask, Waiting, Inside
  <2>4. {j} \in SUBSET (Jobs \cup Writers)
    OBVIOUS
  <2> QED
    BY <2>2, <2>3, <2>4 DEF FileLock!Next
<1>9. CASE pc[j] \in Held \cup {"flock"} /\ l = "ended" /\ holder' = holder \ {j}
  <2>1. Waiting' = Waiting \ {j} /\ Inside' = Inside \ {j}
    BY <1>2, <1>3, <1>4, <1>5, <1>9
  <2>2. (holder' = {}) <=> (holder = {} \/ Inside \cap {j} # {})
    BY <1>5, <1>9 DEF LockExcludes, HolderWorks
  <2>3. HolderWorks'
    <3>1. \A p \in Jobs \cup Writers : holder' = {p} => holder = {p} /\ p # j
      BY <1>9 DEF LockExcludes
    <3> QED
      BY <1>1, <1>2, <3>1 DEF HolderWorks
  <2>4. FileLock!Withdraw({j})
    BY <2>1, <2>2 DEF FileLock!Withdraw, Waiting, Inside
  <2>5. {j} \in SUBSET (Jobs \cup Writers)
    OBVIOUS
  <2> QED
    BY <2>3, <2>4, <2>5 DEF FileLock!Next
<1> QED
  BY <1>1, <1>6, <1>7, <1>8, <1>9

\* A write asks, enters, gives up or leaves.
LEMMA WriteUsesLock ==
    ASSUME FieldsOK, LockExcludes, HolderWorks, NEW w \in Writers,
           WriterAsk(w) \/ WriterLock(w) \/ WriterCancel(w) \/ WriterDone(w)
    PROVE  HolderWorks' /\ [FileLock!Next]_(FileLock!lockVars)
<1>1. pc' = pc
  BY DEF WriterAsk, WriterLock, WriterCancel, WriterDone, jobVars
<1>2. PICK s \in {"waiting", "writing", "done", "failed"} :
        /\ writer' = [writer EXCEPT ![w] = s]
        /\ \/ writer[w] = "idle" /\ s = "waiting" /\ holder' = holder
           \/ writer[w] = "waiting" /\ s = "writing" /\ holder = {} /\ holder' = {w}
           \/ writer[w] = "waiting" /\ s = "failed" /\ holder' = holder
           \/ /\ writer[w] = "writing" /\ s \in {"done", "failed"}
              /\ holder' = holder \ {w}
  BY DEF WriterAsk, WriterLock, WriterCancel, WriterDone
<1>3. \A v \in Writers : writer'[v] = IF v = w THEN s ELSE writer[v]
  BY <1>2 DEF FieldsOK
<1>4. \A j \in Jobs : j # w /\ j \notin Writers
  BY WritersAreNotJobs
<1>5. /\ \A j \in Jobs : j \in Waiting <=> pc[j] = "flock"
      /\ \A j \in Jobs : j \in Waiting' <=> pc[j] = "flock"
      /\ \A v \in Writers : v \in Waiting <=> writer[v] = "waiting"
      /\ \A v \in Writers : v \in Waiting' <=> writer'[v] = "waiting"
      /\ Waiting \subseteq Jobs \cup Writers /\ Waiting' \subseteq Jobs \cup Writers
  BY <1>1, <1>4 DEF Waiting
<1>6. /\ \A j \in Jobs : j \in Inside <=> pc[j] \in Held
      /\ \A j \in Jobs : j \in Inside' <=> pc[j] \in Held
      /\ \A v \in Writers : v \in Inside <=> writer[v] = "writing"
      /\ \A v \in Writers : v \in Inside' <=> writer'[v] = "writing"
      /\ Inside \subseteq Jobs \cup Writers /\ Inside' \subseteq Jobs \cup Writers
  BY <1>1, <1>4 DEF Inside, Held
<1>7. {w} \in SUBSET (Jobs \cup Writers)
  OBVIOUS
<1>8. CASE writer[w] = "idle" /\ s = "waiting" /\ holder' = holder
  <2>1. Waiting' = Waiting \cup {w} /\ Inside' = Inside /\ {w} \cap Inside = {}
    BY <1>3, <1>4, <1>5, <1>6, <1>8
  <2>2. HolderWorks'
    BY <1>1, <1>3, <1>8 DEF HolderWorks
  <2>3. FileLock!Ask({w})
    BY <1>8, <2>1 DEF FileLock!Ask, Waiting, Inside
  <2> QED
    BY <1>7, <2>2, <2>3 DEF FileLock!Next
<1>9. CASE writer[w] = "waiting" /\ s = "writing" /\ holder = {} /\ holder' = {w}
  <2>1. Waiting' = Waiting \ {w} /\ Inside' = Inside \cup {w} /\ w \in Waiting
    BY <1>3, <1>4, <1>5, <1>6, <1>9
  <2>2. HolderWorks'
    BY <1>1, <1>3, <1>4, <1>9 DEF HolderWorks
  <2>3. FileLock!Enter(w)
    BY <1>9, <2>1 DEF FileLock!Enter, Waiting, Inside
  <2> QED
    BY <2>2, <2>3 DEF FileLock!Next
<1>10. CASE writer[w] = "waiting" /\ s = "failed" /\ holder' = holder
  <2>1. Waiting' = Waiting \ {w} /\ Inside' = Inside \ {w} /\ Inside \cap {w} = {}
    BY <1>3, <1>4, <1>5, <1>6, <1>10
  <2>2. HolderWorks'
    BY <1>1, <1>3, <1>10 DEF HolderWorks
  <2>3. FileLock!Withdraw({w})
    BY <1>10, <2>1 DEF FileLock!Withdraw, Waiting, Inside
  <2> QED
    BY <1>7, <2>2, <2>3 DEF FileLock!Next
<1>11. CASE /\ writer[w] = "writing" /\ s \in {"done", "failed"}
            /\ holder' = holder \ {w}
  <2>1. Waiting' = Waiting /\ Inside' = Inside \ {w} /\ w \in Inside
    BY <1>3, <1>4, <1>5, <1>6, <1>11
  <2>2. holder' = {}
    BY <1>11 DEF LockExcludes
  <2>3. HolderWorks'
    BY <2>2 DEF HolderWorks
  <2>4. FileLock!Leave(w)
    BY <2>1, <2>2 DEF FileLock!Leave, Waiting, Inside
  <2> QED
    BY <2>3, <2>4 DEF FileLock!Next
<1> QED
  BY <1>2, <1>8, <1>9, <1>10, <1>11

LEMMA LockInit == Init => HolderWorks /\ FileLock!Init
BY DEF Init, HolderWorks, FileLock!Init, Held

LEMMA LockNext ==
    GInv /\ HolderWorks /\ [Next]_vars => HolderWorks' /\ [FileLock!Next]_(FileLock!lockVars)
<1> SUFFICES ASSUME GInv, HolderWorks, [Next]_vars
             PROVE  HolderWorks' /\ [FileLock!Next]_(FileLock!lockVars)
  OBVIOUS
<1>1. FieldsOK /\ LockExcludes
  BY DEF GInv
<1>2. CASE UNCHANGED vars
  BY <1>2 DEF vars, HolderWorks, FileLock!lockVars
<1> QED
  BY <1>1, <1>2, JobUsesLock, WriteUsesLock DEF Next

\* The script and the service, any number of each, implement registry.lock: no
\* failed command, signal, timeout or cancelled request leaves it taken, and
\* nobody enters while somebody is inside.
THEOREM CollectionImplementsLock == Spec => ImplementsRegistryLock
<1>1. GInv /\ HolderWorks /\ [Next]_vars => HolderWorks'
  BY LockNext
<1>2. Spec => []HolderWorks
  BY <1>1, LockInit, CollectionInductive, PTL DEF Spec
<1> QED
  BY <1>2, LockInit, LockNext, CollectionInductive, PTL
  DEF Spec, ImplementsRegistryLock, FileLock!Spec

\* Whoever is inside is alone, and the lock is taken exactly while somebody is.
THEOREM CollectionLockNotOrphaned == Spec => []FileLock!OneInside
<1>1. GInv /\ HolderWorks => FileLock!OneInside
  <2> SUFFICES ASSUME GInv, HolderWorks PROVE FileLock!OneInside
    OBVIOUS
  <2>1. \A p \in Inside : holder = {p}
    BY DEF GInv, LockExcludes, Inside
  <2>2. \A p \in Jobs \cup Writers : holder = {p} => p \in Inside
    BY DEF HolderWorks, Inside
  <2>3. holder = {} \/ \E p \in Jobs \cup Writers : holder = {p}
    BY DEF GInv, LockExcludes
  <2>4. (\A u, v \in Inside : u = v) /\ ((holder = {}) <=> (Inside = {}))
    BY <2>1, <2>2, <2>3
  <2> QED
    BY <2>4 DEF FileLock!OneInside, Inside
<1>2. GInv /\ HolderWorks /\ [Next]_vars => HolderWorks'
  BY LockNext
<1> QED
  BY <1>1, <1>2, LockInit, CollectionInductive, PTL DEF Spec
=============================================================================
