---------------------------- MODULE AuthLimiter ----------------------------
(***************************************************************************)
(* The sign-in limiter of the vend service (vend/main.go): a bounded table *)
(* of clients with their recent failures, shared by the password check of  *)
(* grants and admin login and by the passkey login, and two slots for the  *)
(* expensive password hash.  A handler reads the table when it begins and  *)
(* writes it when it ends, and other handlers run in between.              *)
(***************************************************************************)
EXTENDS Naturals, FiniteSets

CONSTANTS
    Clients,     \* client keys: the addresses requests come from
    Handlers,    \* concurrent sign-in requests
    MaxEntries,  \* maxAuthClients
    Slots,       \* capacity of passwordHashSlots
    Threshold,   \* failures that lock a client: 5
    MaxLock,     \* longest lock, in minutes: 15
    Idle,        \* an entry idle for longer is stale: 24 h
    MaxTime      \* bound: the clock stops here

ASSUME LimiterConstants ==
    /\ {MaxEntries, Slots, Threshold, MaxLock} \subseteq Nat \ {0}
    /\ {Idle, MaxTime} \subseteq Nat
ASSUME HandlersFinite == IsFiniteSet(Handlers)

VARIABLES
    now,
    present,   \* the clients in the table
    att,       \* their entries; Fresh for the others
    pc,        \* where each handler is
    key,       \* its client
    slots,     \* hash slots taken
    streak,    \* history: failed checks since the client was last forgotten
    lastFail   \* history: when the last of them ended

vars == <<now, present, att, pc, key, slots, streak, lastFail>>

Fresh == [failures |-> 0, lockedUntil |-> 0, lastSeen |-> 0, inFlight |-> FALSE]
Attempt == [failures : Nat, lockedUntil : Nat, lastSeen : Nat, inFlight : BOOLEAN]

TypeOK ==
    /\ now \in Nat
    /\ present \subseteq Clients
    /\ att \in [Clients -> Attempt]
    /\ pc \in [Handlers -> {"idle", "slot", "hash", "verify"}]
    /\ key \in [Handlers -> Clients]
    /\ slots \in Nat
    /\ streak \in [Clients -> Nat]
    /\ lastFail \in [Clients -> Nat]

Init ==
    /\ now = 0 /\ present = {} /\ slots = 0
    /\ att = [c \in Clients |-> Fresh]
    /\ pc = [h \in Handlers |-> "idle"]
    /\ key \in [Handlers -> Clients]
    /\ streak = [c \in Clients |-> 0]
    /\ lastFail = [c \in Clients |-> 0]

Busy(h) == pc[h] # "idle"

-----------------------------------------------------------------------------
(***************************************************************************)
(* begin                                                                   *)
(***************************************************************************)

\* When the table is full, entries idle for a day go first ...
Stale ==
    IF Cardinality(present) >= MaxEntries
    THEN {k \in present : now > att[k].lastSeen + Idle /\ ~att[k].inFlight}
    ELSE {}

\* ... and then, for a new client, one of the longest unseen idle entries.
Oldest(kept) ==
    LET idle == {k \in kept : ~att[k].inFlight}
    IN  {k \in idle : \A o \in idle : att[k].lastSeen <= att[o].lastSeen}

\* Mutant: the table may grow by one.
RoomOffByOne(c, kept) == c \in kept \/ Cardinality(kept) <= MaxEntries

Room(c, kept) == c \in kept \/ Cardinality(kept) < MaxEntries

\* The sets a new client may push out of the table; none if all are in flight.
Evictions(c, kept) ==
    IF Room(c, kept) THEN {{}} ELSE {{k} : k \in Oldest(kept)}

Admits(entry) == now >= entry.lockedUntil /\ ~entry.inFlight

\* Forget a set of clients.
Drop(f, gone, value) == [c \in Clients |-> IF c \in gone THEN value ELSE f[c]]

\* The entry is found or made, stamped, and the attempt admitted or turned away.
Begin(h, c, next) ==
    /\ ~Busy(h)
    /\ \E out \in Evictions(c, present \ Stale) :
        LET gone == Stale \cup out
            entry == [Drop(att, gone, Fresh)[c] EXCEPT !.lastSeen = now]
        IN  /\ present' = (present \ gone) \cup {c}
            /\ att' = [Drop(att, gone, Fresh) EXCEPT ![c] =
                        [entry EXCEPT !.inFlight = @ \/ Admits(entry)]]
            /\ IF Admits(entry)
               THEN pc' = [pc EXCEPT ![h] = next] /\ key' = [key EXCEPT ![h] = c]
               ELSE UNCHANGED <<pc, key>>
            /\ streak' = Drop(streak, gone, 0)
            /\ lastFail' = Drop(lastFail, gone, 0)
    /\ UNCHANGED <<now, slots>>

\* Everything left in the table is in flight: a new client is turned away.
BeginFull(h, c) ==
    /\ ~Busy(h)
    /\ Evictions(c, present \ Stale) = {}
    /\ present' = present \ Stale
    /\ att' = Drop(att, Stale, Fresh)
    /\ streak' = Drop(streak, Stale, 0)
    /\ lastFail' = Drop(lastFail, Stale, 0)
    /\ UNCHANGED <<now, pc, key, slots>>

-----------------------------------------------------------------------------
(***************************************************************************)
(* checkPassword after begin, and the passkey login after begin.           *)
(***************************************************************************)
TakeSlot(h) ==
    /\ pc[h] = "slot" /\ slots < Slots
    /\ slots' = slots + 1
    /\ pc' = [pc EXCEPT ![h] = "hash"]
    /\ UNCHANGED <<now, present, att, key, streak, lastFail>>

\* Mutant: abort always forgets the client.
AbortForgets(h) ==
    /\ pc[h] = "slot"
    /\ pc' = [pc EXCEPT ![h] = "idle"]
    /\ present' = present \ {key[h]}
    /\ att' = [att EXCEPT ![key[h]] = Fresh]
    /\ UNCHANGED <<now, key, slots, streak, lastFail>>

\* The client goes away while waiting for a slot: abort forgets it only if it
\* had no failures.
Abort(h) ==
    /\ pc[h] = "slot"
    /\ pc' = [pc EXCEPT ![h] = "idle"]
    /\ IF att[key[h]].failures = 0
       THEN /\ present' = present \ {key[h]}
            /\ att' = [att EXCEPT ![key[h]] = Fresh]
       ELSE /\ att' = [att EXCEPT ![key[h]].inFlight = FALSE, ![key[h]].lastSeen = now]
            /\ UNCHANGED present
    /\ UNCHANGED <<now, key, slots, streak, lastFail>>

\* Mutant: the failure that reaches the threshold earns no lock yet.
LockMinutesLate(n) ==
    LET minutes == n - Threshold
    IN  IF n < Threshold THEN 0 ELSE IF minutes > MaxLock THEN MaxLock ELSE minutes

\* The minutes a client is locked after its n-th failure; 0 for no lock.
LockMinutes(n) ==
    LET minutes == n + 1 - Threshold
    IN  IF n < Threshold THEN 0 ELSE IF minutes > MaxLock THEN MaxLock ELSE minutes

\* Mutant: the slot is given back only after a correct password.
FreeSlotOnSuccess(h, ok) ==
    slots' = IF pc[h] = "hash" /\ ok THEN slots - 1 ELSE slots

FreeSlot(h, ok) == slots' = IF pc[h] = "hash" THEN slots - 1 ELSE slots

\* The check ends and finish records the outcome.
Finish(h, ok) ==
    LET c == key[h]
        n == att[c].failures + 1
    IN  /\ pc[h] \in {"hash", "verify"}
        /\ pc' = [pc EXCEPT ![h] = "idle"]
        /\ FreeSlot(h, ok)
        /\ present' = IF ok THEN present \ {c} ELSE present
        /\ att' = [att EXCEPT ![c] =
                    IF ok THEN Fresh
                    ELSE [failures |-> n,
                          lockedUntil |-> IF n < Threshold THEN @.lockedUntil
                                                           ELSE now + LockMinutes(n),
                          lastSeen |-> now,
                          inFlight |-> FALSE]]
        /\ streak' = [streak EXCEPT ![c] = IF ok THEN 0 ELSE @ + 1]
        /\ lastFail' = [lastFail EXCEPT ![c] = IF ok THEN 0 ELSE now]
        /\ UNCHANGED <<now, key>>

Tick ==
    /\ now < MaxTime
    /\ now' = now + 1
    /\ UNCHANGED <<present, att, pc, key, slots, streak, lastFail>>

Next ==
    \/ \E h \in Handlers :
        \/ \E c \in Clients :
            Begin(h, c, "slot") \/ Begin(h, c, "verify") \/ BeginFull(h, c)
        \/ TakeSlot(h) \/ Abort(h)
        \/ \E ok \in BOOLEAN : Finish(h, ok)
    \/ Tick

Spec == Init /\ [][Next]_vars

-----------------------------------------------------------------------------
\* At most one check per client is under way, and exactly then its entry says
\* so: an eviction, an abort or a finish of another handler never lets a second
\* check of the same client in.
SingleFlight ==
    /\ \A h, g \in Handlers : Busy(h) /\ Busy(g) /\ key[h] = key[g] => h = g
    /\ \A c \in Clients :
        att[c].inFlight <=> \E h \in Handlers : Busy(h) /\ key[h] = c

\* The table stays within its bound, whatever the number of clients.
TableBounded == Cardinality(present) <= MaxEntries

\* The slots taken are those of the handlers that are hashing: none leaks.
SlotsAccounted ==
    slots = Cardinality({h \in Handlers : pc[h] = "hash"}) /\ slots <= Slots

\* No failure is forgotten but by a success or by losing the entry: breaking
\* off an attempt does not reset the count.
FailuresCounted == \A c \in Clients : att[c].failures = streak[c]

\* A client over the threshold starts no check until its lock, counted from its
\* last failure, has run out.
LockedOutWaits ==
    [][\A h \in Handlers :
        LET c == key'[h] IN
        ~Busy(h) /\ pc'[h] # "idle" /\ streak'[c] > 0
            => now >= lastFail[c] + LockMinutes(streak'[c])]_vars

\* Nobody is locked for longer than the maximum: the user of a locked address
\* can always sign in again that much later.
LockIsShort == \A c \in Clients : att[c].lockedUntil <= now + MaxLock

Checking == {c \in Clients : \E h \in Handlers : Busy(h) /\ key[h] = c}
Failures == [c \in Clients |-> att[c].failures]

Gate == INSTANCE SignInGate WITH
    time <- now,
    known <- present,
    checking <- Checking,
    failures <- Failures,
    last <- lastFail

\* The table with its entries, its eviction and the handlers that come back to it
\* later is the gate: whoever is being checked is remembered, and an entry made
\* room for another only when the table was full.
ImplementsGate == Gate!Spec

\* The failures in a client's entry took at least the sum of the locks they
\* earned, 1 + 2 + 3 ... minutes from the threshold on: no overlap of checks,
\* aborts and evictions lets a remembered client try faster.
GuessesAreSlow == Gate!GuessesTakeTime
=============================================================================
