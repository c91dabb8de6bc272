------------------------- MODULE AdminConsoleProofs -------------------------
(***************************************************************************)
(* Proofs about AdminConsole, for any number of sessions, requests, bakes  *)
(* and restarts.                                                           *)
(***************************************************************************)
EXTENDS AdminConsole, FiniteSetTheorems, TLAPS

Running == {h \in Handlers : program[h] = "running"}

\* The slot follows the requests that hold it, and only they have a program.
SlotInv == TypeOK /\ SlotAccounted

\* The bake slot follows the one bake that may run, which is the last started.
BakeInv ==
    /\ bakes \subseteq {bakesStarted} /\ (bakeRunning <=> bakes # {})
    /\ bakeLog # 0 => bakeLog = bakesStarted /\ ~bakeRunning

ConsoleInv == SlotInv /\ BakeInv

\* At most one element.
LEMMA Lonely ==
    ASSUME NEW S, \A x, y \in S : x = y
    PROVE  Cardinality(S) <= 1
<1>1. CASE S = {}
  BY <1>1, FS_EmptySet
<1>2. CASE S # {}
  <2>1. PICK x \in S : TRUE
    BY <1>2
  <2>2. S = {x}
    BY <2>1
  <2> QED
    BY <2>2, FS_Singleton
<1> QED
  BY <1>1, <1>2

LEMMA ConsoleInit == Init => ConsoleInv
<1> SUFFICES ASSUME Init PROVE ConsoleInv
  OBVIOUS
<1>1. TypeOK
  BY DEF Init, TypeOK
<1>2. SlotAccounted
  BY DEF Init, SlotAccounted, InSlot
<1>3. BakeInv
  BY DEF Init, BakeInv
<1> QED
  BY <1>1, <1>2, <1>3 DEF ConsoleInv, SlotInv

\* The sessions and requests that only pass by leave the slots alone.
LEMMA SessionStep ==
    ASSUME ConsoleInv,
           \/ \E t \in Cookies : Login(t) \/ Expire(t) \/ Forget(t)
           \/ \E h \in Handlers, t \in Cookies : require(h, t, "term") \/ require(h, t, "bake")
    PROVE  ConsoleInv'
<1>1. TypeOK'
  <2>1. CASE \E t \in Cookies : Login(t) \/ Expire(t) \/ Forget(t)
    BY <2>1 DEF ConsoleInv, SlotInv, TypeOK, Login, Expire, Forget, termVars, bakeVars
  <2>2. CASE \E h \in Handlers, t \in Cookies :
               require(h, t, "term") \/ require(h, t, "bake")
    <3>1. PICK h \in Handlers, t \in Cookies, next \in {"term", "bake"} : require(h, t, next)
      BY <2>2
    <3>2. /\ pc' = [pc EXCEPT ![h] = next] /\ by' = [by EXCEPT ![h] = t] /\ pc[h] = "idle"
          /\ UNCHANGED <<sessions, termBusy, program, orphans, bakeRunning, bakes, bakeLog,
                         bakesStarted, restarts>>
      BY <3>1 DEF require, termVars, bakeVars
    <3> QED
      BY <3>2 DEF ConsoleInv, SlotInv, TypeOK
  <2> QED
    BY <2>1, <2>2
<1>2. SlotAccounted'
  <2>1. \A g \in Handlers : InSlot(g)' = InSlot(g)
    BY DEF ConsoleInv, SlotInv, TypeOK, Login, Expire, Forget, require, InSlot
  <2>2. UNCHANGED termBusy
    BY DEF Login, Expire, Forget, require, termVars
  <2> QED
    BY <2>1, <2>2 DEF ConsoleInv, SlotInv, SlotAccounted
<1>3. BakeInv'
  BY DEF ConsoleInv, BakeInv, Login, Expire, Forget, require, bakeVars
<1> QED
  BY <1>1, <1>2, <1>3 DEF ConsoleInv, SlotInv

\* The steps of a terminal.
LEMMA TerminalStep ==
    ASSUME ConsoleInv, NEW h \in Handlers,
           TermStep(h) \/ ProgramExits(h) \/ BrowserLeaves(h)
    PROVE  ConsoleInv'
<1> USE DEF ConsoleInv, SlotInv
<1>1. TypeOK'
  BY DEF TypeOK, TermStep, TermSlot, TermOpen, TermEnds, TermClose, TermFree, ProgramExits,
     BrowserLeaves, Goto, termVars, bakeVars
<1>2. \A g \in Handlers \ {h} : InSlot(g)' = InSlot(g)
  BY DEF TypeOK, TermStep, TermSlot, TermOpen, TermEnds, TermClose, TermFree, ProgramExits,
     BrowserLeaves, Goto, InSlot
<1>3. SlotAccounted'
  <2>1. CASE TermSlot(h)
    <3>1. ~InSlot(h) /\ termBusy' /\ InSlot(h)' = ~termBusy
      BY <2>1 DEF TermSlot, Goto, InSlot, TypeOK
    <3> QED
      BY <3>1, <1>2 DEF SlotAccounted
  <2>2. CASE TermFree(h)
    <3>1. InSlot(h) /\ ~InSlot(h)' /\ ~termBusy'
      BY <2>2 DEF TermFree, Goto, InSlot, TypeOK
    <3> QED
      BY <3>1, <1>2 DEF SlotAccounted
  <2>3. CASE TermOpen(h) \/ TermEnds(h) \/ TermClose(h) \/ ProgramExits(h) \/ BrowserLeaves(h)
    <3>1. InSlot(h)' = InSlot(h) /\ termBusy' = termBusy
      BY <2>3 DEF TermOpen, TermEnds, TermClose, ProgramExits, BrowserLeaves, Goto, InSlot,
         TypeOK, termVars
    <3> QED
      BY <3>1, <1>2 DEF SlotAccounted
  <2> QED
    BY <2>1, <2>2, <2>3 DEF TermStep
<1>4. BakeInv'
  <2>1. UNCHANGED bakeVars
    BY DEF TermStep, TermSlot, TermOpen, TermEnds, TermClose, TermFree, ProgramExits,
       BrowserLeaves
  <2> QED
    BY <2>1 DEF BakeInv, bakeVars
<1> QED
  BY <1>1, <1>3, <1>4

LEMMA BakeStep ==
    ASSUME ConsoleInv,
           (\E h \in Handlers : BakeStart(h)) \/ (\E i \in bakes : BakeEnd(i))
    PROVE  ConsoleInv'
<1> USE DEF ConsoleInv, SlotInv
<1>1. ASSUME NEW h \in Handlers, BakeStart(h) PROVE ConsoleInv'
  <2>1. TypeOK'
    <3>1. /\ pc' = [pc EXCEPT ![h] = "idle"] /\ pc[h] = "bake"
          /\ UNCHANGED <<sessions, by, termBusy, program, orphans, restarts>>
      BY <1>1 DEF BakeStart, Goto, termVars
    <3>2. /\ bakeRunning' \in BOOLEAN /\ bakes' \subseteq Nat /\ bakeLog' \in Nat
          /\ bakesStarted' \in Nat
      <4>1. CASE bakeRunning
        BY <1>1, <4>1 DEF TypeOK, BakeStart, bakeVars
      <4>2. CASE ~bakeRunning
        <5>1. /\ bakeRunning' = TRUE /\ bakeLog' = 0
              /\ bakesStarted' = bakesStarted + 1 /\ bakes' = bakes \cup {bakesStarted'}
          BY <1>1, <4>2 DEF BakeStart
        <5> QED
          BY <5>1 DEF TypeOK
      <4> QED
        BY <4>1, <4>2
    <3> QED
      BY <3>1, <3>2 DEF TypeOK
  <2>2. (\A g \in Handlers : InSlot(g)' = InSlot(g)) /\ UNCHANGED termBusy
    BY <1>1 DEF TypeOK, BakeStart, Goto, termVars, InSlot
  <2>3. SlotAccounted'
    BY <2>2 DEF SlotAccounted
  <2>4. BakeInv'
    BY <1>1 DEF BakeStart, BakeInv, bakeVars, TypeOK
  <2> QED
    BY <2>1, <2>3, <2>4
<1>2. ASSUME NEW i \in bakes, BakeEnd(i) PROVE ConsoleInv'
  <2>1. TypeOK'
    BY <1>2 DEF TypeOK, BakeEnd, termVars
  <2>2. SlotAccounted'
    BY <1>2 DEF BakeEnd, termVars, SlotAccounted, InSlot
  <2>3. BakeInv'
    BY <1>2 DEF BakeEnd, BakeInv
  <2> QED
    BY <2>1, <2>2, <2>3
<1> QED
  BY <1>1, <1>2

LEMMA RestartStep == ASSUME ConsoleInv, Restart, Cardinality(Running) \in Nat PROVE ConsoleInv'
<1> USE DEF ConsoleInv, SlotInv
<1>1. TypeOK'
  <2>1. orphans' \in Nat
    BY DEF TypeOK, Restart, Running
  <2>2. sessions' \in [Cookies -> {"unused", "live", "expired", "gone"}]
    BY DEF TypeOK, Restart
  <2>3. /\ pc' = [h \in Handlers |-> "idle"] /\ program' = [h \in Handlers |-> "none"]
        /\ termBusy' = FALSE /\ bakeRunning' = FALSE /\ bakes' = {} /\ bakeLog' = 0
        /\ restarts' = restarts + 1 /\ UNCHANGED <<by, bakesStarted>>
    BY DEF Restart
  <2>4. \A h \in Handlers : program'[h] = "none"
    BY <2>3
  <2>5. pc' \in [Handlers -> {"idle", "term", "slot", "open", "closing", "free", "bake"}]
    BY <2>3
  <2>6. program' \in [Handlers -> {"none", "running", "exited"}]
    BY <2>3
  <2>7. by' \in [Handlers -> Cookies] /\ bakesStarted' \in Nat /\ restarts' \in Nat
    BY <2>3 DEF TypeOK
  <2> QED
    BY <2>1, <2>2, <2>3, <2>4, <2>5, <2>6, <2>7 DEF TypeOK
<1>2. SlotAccounted' /\ BakeInv'
  BY DEF Restart, SlotAccounted, InSlot, BakeInv
<1> QED
  BY <1>1, <1>2

\* Only the holder of the slot runs a program.
LEMMA OneRunning == ConsoleInv => Cardinality(Running) \in Nat /\ Cardinality(Running) <= 1
<1> SUFFICES ASSUME ConsoleInv PROVE Cardinality(Running) \in Nat /\ Cardinality(Running) <= 1
  OBVIOUS
<1>1. \A g, h \in Running : g = h
  BY DEF ConsoleInv, SlotInv, TypeOK, SlotAccounted, InSlot, Running
<1>2. IsFiniteSet(Running)
  <2>1. CASE Running = {}
    BY <2>1, FS_EmptySet
  <2>2. CASE Running # {}
    <3>1. PICK x \in Running : TRUE
      BY <2>2
    <3>2. Running = {x}
      BY <1>1, <3>1
    <3> QED
      BY <3>2, FS_Singleton
  <2> QED
    BY <2>1, <2>2
<1> QED
  BY <1>1, <1>2, Lonely, FS_CardinalityType

LEMMA ConsoleNext == ConsoleInv /\ [Next]_vars => ConsoleInv'
<1> SUFFICES ASSUME ConsoleInv, [Next]_vars PROVE ConsoleInv'
  OBVIOUS
<1>1. CASE OrphanExits
  BY <1>1 DEF OrphanExits, ConsoleInv, SlotInv, TypeOK, SlotAccounted, InSlot, BakeInv,
     bakeVars
<1>2. CASE UNCHANGED vars
  BY <1>2 DEF vars, ConsoleInv, SlotInv, TypeOK, SlotAccounted, InSlot, BakeInv
<1> QED
  BY <1>1, <1>2, SessionStep, TerminalStep, BakeStep, RestartStep, OneRunning DEF Next

-----------------------------------------------------------------------------
THEOREM ConsoleInductive == Spec => []ConsoleInv
<1> QED
  BY ConsoleInit, ConsoleNext, PTL DEF Spec

\* Every variable keeps its type; only an open or closing terminal has a
\* program.
THEOREM ConsoleTypeCorrect == Spec => []TypeOK
<1>1. ConsoleInv => TypeOK
  BY DEF ConsoleInv, SlotInv
<1> QED
  BY <1>1, ConsoleInductive, PTL

\* The terminal slot is never leaked and never held twice, in either mode.
THEOREM SlotNeverLeaks == Spec => []SlotAccounted
<1>1. ConsoleInv => SlotAccounted
  BY DEF ConsoleInv, SlotInv
<1> QED
  BY <1>1, ConsoleInductive, PTL

\* One bake at a time, and the log that is shown is that of the last one.
THEOREM BakesAreSerial == Spec => []OneBake
<1>1. ConsoleInv => OneBake
  <2> SUFFICES ASSUME ConsoleInv PROVE OneBake
    OBVIOUS
  <2>1. \A i, j \in bakes : i = j
    BY DEF ConsoleInv, BakeInv
  <2> QED
    BY <2>1, Lonely DEF ConsoleInv, BakeInv, OneBake
<1> QED
  BY <1>1, ConsoleInductive, PTL

\* In both modes the service runs one login program at a time and each restart
\* leaves at most one container behind.
OrphansCounted == orphans <= restarts

THEOREM ProgramsAreSerial == Spec => []OneProgram
<1>1. Init => OrphansCounted
  BY DEF Init, OrphansCounted
<1>2. ConsoleInv /\ OrphansCounted /\ [Next]_vars => OrphansCounted'
  <2> SUFFICES ASSUME ConsoleInv, OrphansCounted, [Next]_vars PROVE OrphansCounted'
    OBVIOUS
  <2>1. orphans \in Nat /\ restarts \in Nat
    BY DEF ConsoleInv, SlotInv, TypeOK
  <2>2. CASE Restart
    <3>1. Cardinality(Running) \in Nat /\ Cardinality(Running) <= 1
      BY OneRunning
    <3>2. restarts' = restarts + 1 /\ orphans' \in {orphans, orphans + Cardinality(Running)}
      BY <2>2 DEF Restart, Running
    <3> QED
      BY <2>1, <3>1, <3>2 DEF OrphansCounted
  <2>3. CASE OrphanExits
    BY <2>1, <2>3 DEF OrphanExits, OrphansCounted
  <2>4. CASE ~Restart /\ ~OrphanExits
    <3>1. UNCHANGED <<orphans, restarts>>
      BY <2>4
         DEF Next, vars, termVars, Login, Expire, Forget, require, TermStep, TermSlot, TermOpen,
             TermEnds, TermClose, TermFree, ProgramExits, BrowserLeaves, BakeStart, BakeEnd
    <3> QED
      BY <3>1 DEF OrphansCounted
  <2> QED
    BY <2>2, <2>3, <2>4
<1>3. ConsoleInv /\ OrphansCounted => OneProgram
  BY OneRunning DEF OrphansCounted, OneProgram, Running
<1> QED
  BY <1>1, <1>2, <1>3, ConsoleInductive, PTL DEF Spec

\* In auth-host mode no two login programs meet on the authentication home,
\* whatever the restarts.
NoOrphans == orphans = 0

THEOREM TerminalsAreSerial == ASSUME Container = FALSE PROVE Spec => []OneTerminal
<1>1. Init => NoOrphans
  BY DEF Init, NoOrphans
<1>2. NoOrphans /\ [Next]_vars => NoOrphans'
  <2> SUFFICES ASSUME NoOrphans, [Next]_vars PROVE NoOrphans'
    OBVIOUS
  <2>1. UNCHANGED orphans
    BY Container = FALSE
       DEF NoOrphans, Next, vars, termVars, Login, Expire, Forget, require, TermStep, TermSlot,
           TermOpen, TermEnds, TermClose, TermFree, ProgramExits, BrowserLeaves, BakeStart,
           BakeEnd, OrphanExits, Restart
  <2> QED
    BY <2>1 DEF NoOrphans
<1>3. ConsoleInv /\ NoOrphans => OneTerminal
  BY OneRunning DEF NoOrphans, OneTerminal, Running
<1> QED
  BY <1>1, <1>2, <1>3, ConsoleInductive, PTL DEF Spec
=============================================================================
