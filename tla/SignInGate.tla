----------------------------- MODULE SignInGate -----------------------------
(***************************************************************************)
(* What the sign-in limiter promises, without its table: a client is       *)
(* checked once at a time; after a failed check that reaches the threshold *)
(* it waits a minute, after each further one a minute more, up to a        *)
(* maximum; a failure is forgotten only with a success, or when the table  *)
(* is full and somebody must go, and never while a check is under way.     *)
(***************************************************************************)
EXTENDS Naturals, FiniteSets

CONSTANTS Clients, MaxEntries, Threshold, MaxLock

VARIABLES
    time,
    known,     \* the clients remembered
    checking,  \* those with a check under way
    failures,  \* failed checks of each, as far as remembered
    last       \* when the last of them ended

gateVars == <<time, known, checking, failures, last>>

\* The minutes a client waits after its n-th failure.
Lock(n) ==
    CASE n < Threshold -> 0
      [] n >= Threshold /\ n - Threshold < MaxLock -> n - Threshold + 1
      [] OTHER -> MaxLock

Init ==
    /\ time = 0 /\ known = {} /\ checking = {}
    /\ failures = [c \in Clients |-> 0]
    /\ last = [c \in Clients |-> 0]

Without(f, gone) == [c \in Clients |-> IF c \in gone THEN 0 ELSE f[c]]

Forgets(gone) ==
    /\ gone \subseteq known \ checking
    /\ gone # {} => Cardinality(known) >= MaxEntries
    /\ failures' = Without(failures, gone)
    /\ last' = Without(last, gone)

\* A visit that is turned away may still find the table full.
Forget(gone) ==
    /\ Forgets(gone)
    /\ known' = known \ gone
    /\ UNCHANGED <<time, checking>>

Admit(c, gone) ==
    /\ c \notin checking
    /\ c \in gone \/ time >= last[c] + Lock(failures[c])
    /\ Forgets(gone)
    /\ known' = (known \ gone) \cup {c}
    /\ checking' = checking \cup {c}
    /\ UNCHANGED time

\* The check is broken off.
GiveUp(c) ==
    /\ c \in checking
    /\ checking' = checking \ {c}
    /\ known' = IF failures[c] = 0 THEN known \ {c} ELSE known
    /\ UNCHANGED <<time, failures, last>>

Right(c) ==
    /\ c \in checking
    /\ checking' = checking \ {c}
    /\ known' = known \ {c}
    /\ failures' = Without(failures, {c})
    /\ last' = Without(last, {c})
    /\ UNCHANGED time

Wrong(c) ==
    /\ c \in checking
    /\ checking' = checking \ {c}
    /\ failures' = [failures EXCEPT ![c] = @ + 1]
    /\ last' = [last EXCEPT ![c] = time]
    /\ UNCHANGED <<time, known>>

Advance == time' = time + 1 /\ UNCHANGED <<known, checking, failures, last>>

Next ==
    \/ \E c \in Clients :
        \/ \E gone \in SUBSET Clients : Admit(c, gone)
        \/ GiveUp(c) \/ Right(c) \/ Wrong(c)
    \/ \E gone \in SUBSET Clients : Forget(gone)
    \/ Advance

Spec == Init /\ [][Next]_gateVars

\* Twice the sum of the waits between the failure that reaches the threshold and
\* the m-th after it: 1 + 2 + ... minutes, and MaxLock each from there on.
TwiceWaited(m) ==
    IF m <= MaxLock THEN m * (m + 1) ELSE MaxLock * (2 * m + 1 - MaxLock)

\* However a client spreads its attempts over requests and connections, so many
\* failures as are remembered of it took at least the sum of the waits.
GuessesTakeTime ==
    \A c \in Clients :
        failures[c] >= Threshold => 2 * last[c] >= TwiceWaited(failures[c] - Threshold)
=============================================================================
