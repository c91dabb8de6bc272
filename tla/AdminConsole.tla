---------------------------- MODULE AdminConsole ----------------------------
(***************************************************************************)
(* The admin console (vend/admin.go): browser sessions, the one login      *)
(* terminal on the shared authentication home, and the one credential bake *)
(* it runs in the background.  Sessions live in memory and die with the    *)
(* service; a terminal outlives neither its browser nor its login program, *)
(* but a container started for it is no child of the service.              *)
(***************************************************************************)
EXTENDS Naturals, FiniteSets

CONSTANTS
    Cookies,      \* session tokens, one per sign-in
    Handlers,     \* concurrent admin requests
    Container,    \* terminal mode: "container" or, when FALSE, "auth-host"
    MaxBakes,     \* bound: bakes started
    MaxRestarts   \* bound: restarts of the service

ASSUME Modes == Container \in BOOLEAN /\ MaxBakes \in Nat /\ MaxRestarts \in Nat

VARIABLES
    sessions,     \* what each token is worth; an expired one may still be held
    pc, by,       \* where each request is, and the session it came with
    termBusy,     \* the terminal slot
    program,      \* the login program of a request: none, running or exited
    orphans,      \* login containers that outlived the service
    bakeRunning,  \* the bake slot
    bakes,        \* bake commands that run, by number
    bakeLog,      \* the bake whose output the status shows, 0 for none
    bakesStarted, restarts

vars == <<sessions, pc, by, termBusy, program, orphans, bakeRunning, bakes, bakeLog,
          bakesStarted, restarts>>
bakeVars == <<bakeRunning, bakes, bakeLog, bakesStarted>>
termVars == <<termBusy, program, orphans>>

InSlot(h) == pc[h] \in {"slot", "open", "closing", "free"}

TypeOK ==
    /\ sessions \in [Cookies -> {"unused", "live", "expired", "gone"}]
    /\ pc \in [Handlers -> {"idle", "term", "slot", "open", "closing", "free", "bake"}]
    /\ by \in [Handlers -> Cookies]
    /\ termBusy \in BOOLEAN
    /\ program \in [Handlers -> {"none", "running", "exited"}]
    /\ \A h \in Handlers : program[h] # "none" => pc[h] \in {"open", "closing"}
    /\ orphans \in Nat
    /\ bakeRunning \in BOOLEAN /\ bakes \subseteq Nat /\ bakeLog \in Nat
    /\ bakesStarted \in Nat /\ restarts \in Nat

Init ==
    /\ sessions = [t \in Cookies |-> "unused"]
    /\ pc = [h \in Handlers |-> "idle"] /\ by \in [Handlers -> Cookies]
    /\ termBusy = FALSE /\ program = [h \in Handlers |-> "none"] /\ orphans = 0
    /\ bakeRunning = FALSE /\ bakes = {} /\ bakeLog = 0 /\ bakesStarted = 0
    /\ restarts = 0

-----------------------------------------------------------------------------
(***************************************************************************)
(* Sessions                                                                *)
(***************************************************************************)

\* newSession, after a password or a passkey: expired ones are forgotten.
Login(t) ==
    /\ sessions[t] = "unused"
    /\ sessions' = [s \in Cookies |->
                      IF s = t THEN "live"
                      ELSE IF sessions[s] = "expired" THEN "gone" ELSE sessions[s]]
    /\ UNCHANGED <<pc, by, termVars, bakeVars, restarts>>

\* Eight hours are over.
Expire(t) ==
    /\ sessions[t] = "live"
    /\ sessions' = [sessions EXCEPT ![t] = "expired"]
    /\ UNCHANGED <<pc, by, termVars, bakeVars, restarts>>

\* handleLogout, or sessionState at the next request of an expired session.
Forget(t) ==
    /\ sessions[t] \in {"live", "expired"}
    /\ sessions' = [sessions EXCEPT ![t] = "gone"]
    /\ UNCHANGED <<pc, by, termVars, bakeVars, restarts>>

\* require lets a request with a live session through.
require(h, t, next) ==
    /\ pc[h] = "idle" /\ sessions[t] = "live"
    /\ pc' = [pc EXCEPT ![h] = next] /\ by' = [by EXCEPT ![h] = t]
    /\ UNCHANGED <<sessions, termVars, bakeVars, restarts>>

-----------------------------------------------------------------------------
(***************************************************************************)
(* handleTerm                                                              *)
(***************************************************************************)
Goto(h, from, to) == pc[h] = from /\ pc' = [pc EXCEPT ![h] = to]

\* Mutant: the slot is looked at and not taken.
TermSlotNotTaken(h) ==
    /\ \/ termBusy /\ Goto(h, "term", "idle")
       \/ ~termBusy /\ Goto(h, "term", "slot")
    /\ UNCHANGED <<sessions, by, termVars, bakeVars, restarts>>

TermSlot(h) ==
    /\ Goto(h, "term", IF termBusy THEN "idle" ELSE "slot")
    /\ termBusy' = TRUE
    /\ UNCHANGED <<sessions, by, program, orphans, bakeVars, restarts>>

\* Mutant: a failed start leaves the slot taken.
TermOpenLeaks(h) ==
    /\ \/ Goto(h, "slot", "open") /\ program' = [program EXCEPT ![h] = "running"]
       \/ Goto(h, "slot", "idle") /\ UNCHANGED program
    /\ UNCHANGED <<sessions, by, termBusy, orphans, bakeVars, restarts>>

\* The WebSocket is accepted and the program started, or one of them fails.
TermOpen(h) ==
    /\ \/ Goto(h, "slot", "open") /\ program' = [program EXCEPT ![h] = "running"]
       \/ Goto(h, "slot", "free") /\ UNCHANGED program
    /\ UNCHANGED <<sessions, by, termBusy, orphans, bakeVars, restarts>>

ProgramExits(h) ==
    /\ program[h] = "running"
    /\ program' = [program EXCEPT ![h] = "exited"]
    /\ UNCHANGED <<sessions, pc, by, termBusy, orphans, bakeVars, restarts>>

BrowserLeaves(h) ==
    /\ Goto(h, "open", "closing")
    /\ UNCHANGED <<sessions, by, termVars, bakeVars, restarts>>

\* Mutant: only the browser ends a terminal.
TermEndsNever(h) == FALSE /\ UNCHANGED vars

\* The PTY reader finds the end of the output and cancels the other loop.
TermEnds(h) ==
    /\ program[h] = "exited"
    /\ Goto(h, "open", "closing")
    /\ UNCHANGED <<sessions, by, termVars, bakeVars, restarts>>

\* The program is killed, its container removed, and it is waited for.
TermClose(h) ==
    /\ Goto(h, "closing", "free")
    /\ program' = [program EXCEPT ![h] = "none"]
    /\ UNCHANGED <<sessions, by, termBusy, orphans, bakeVars, restarts>>

TermFree(h) ==
    /\ Goto(h, "free", "idle")
    /\ termBusy' = FALSE
    /\ UNCHANGED <<sessions, by, program, orphans, bakeVars, restarts>>

OrphanExits ==
    /\ orphans > 0 /\ orphans' = orphans - 1
    /\ UNCHANGED <<sessions, pc, by, termBusy, program, bakeVars, restarts>>

-----------------------------------------------------------------------------
(***************************************************************************)
(* handleBake and its goroutine                                            *)
(***************************************************************************)

\* Mutant: a running bake does not keep another from starting.
BakeStartAlways(h) ==
    /\ Goto(h, "bake", "idle")
    /\ bakesStarted < MaxBakes
    /\ bakeRunning' = TRUE /\ bakeLog' = 0
    /\ bakesStarted' = bakesStarted + 1 /\ bakes' = bakes \cup {bakesStarted'}
    /\ UNCHANGED <<sessions, by, termVars, restarts>>

BakeStart(h) ==
    /\ Goto(h, "bake", "idle")
    /\ IF bakeRunning
       THEN UNCHANGED bakeVars
       ELSE /\ bakesStarted < MaxBakes
            /\ bakeRunning' = TRUE /\ bakeLog' = 0
            /\ bakesStarted' = bakesStarted + 1 /\ bakes' = bakes \cup {bakesStarted'}
    /\ UNCHANGED <<sessions, by, termVars, restarts>>

BakeEnd(i) ==
    /\ i \in bakes /\ bakes' = bakes \ {i}
    /\ bakeRunning' = FALSE /\ bakeLog' = i
    /\ UNCHANGED <<sessions, pc, by, termVars, bakesStarted, restarts>>

-----------------------------------------------------------------------------
\* The service stops with its children and starts again; login containers stay.
Restart ==
    /\ restarts < MaxRestarts /\ restarts' = restarts + 1
    /\ sessions' = [t \in Cookies |-> IF sessions[t] = "unused" THEN "unused" ELSE "gone"]
    /\ pc' = [h \in Handlers |-> "idle"]
    /\ termBusy' = FALSE /\ program' = [h \in Handlers |-> "none"]
    /\ orphans' = IF Container
                  THEN orphans + Cardinality({h \in Handlers : program[h] = "running"})
                  ELSE orphans
    /\ bakeRunning' = FALSE /\ bakes' = {} /\ bakeLog' = 0
    /\ UNCHANGED <<by, bakesStarted>>

TermStep(h) ==
    TermSlot(h) \/ TermOpen(h) \/ TermEnds(h) \/ TermClose(h) \/ TermFree(h)

Next ==
    \/ \E t \in Cookies : Login(t) \/ Expire(t) \/ Forget(t)
    \/ \E h \in Handlers :
        \/ \E t \in Cookies : require(h, t, "term") \/ require(h, t, "bake")
        \/ TermStep(h) \/ ProgramExits(h) \/ BrowserLeaves(h) \/ BakeStart(h)
    \/ \E i \in bakes : BakeEnd(i)
    \/ OrphanExits
    \/ Restart

Spec == Init /\ [][Next]_vars

\* The goroutines of a terminal are scheduled.
FairSpec == Spec /\ \A h \in Handlers : WF_vars(TermStep(h))

-----------------------------------------------------------------------------
\* "One terminal at a time. Concurrent login processes would race on the same
\* authentication home." (admin.go:355-356)
OneTerminal ==
    Cardinality({h \in Handlers : program[h] = "running"}) + orphans <= 1

\* What the code does for it in both modes: the service runs one login program
\* at a time, and a restart leaves at most the one container behind that it
\* found.
OneProgram ==
    /\ Cardinality({h \in Handlers : program[h] = "running"}) <= 1
    /\ orphans <= restarts

\* The slot is taken exactly while one request holds it: it is neither leaked
\* by a failed start nor given back twice.
SlotAccounted ==
    /\ termBusy <=> \E h \in Handlers : InSlot(h)
    /\ \A h, g \in Handlers : InSlot(h) /\ InSlot(g) => h = g

\* The console runs one bake at a time ("A concurrent request returns 409",
\* docs/api.md:289), and the log it shows is that of the bake started last.
OneBake ==
    /\ Cardinality(bakes) <= 1 /\ (bakeRunning <=> bakes # {})
    /\ bakeLog # 0 => bakeLog = bakesStarted /\ ~bakeRunning

\* When the login program exits the terminal closes and its slot is free for
\* this request's successor.
TerminalCloses == \A h \in Handlers : program[h] = "exited" ~> ~InSlot(h)
=============================================================================
