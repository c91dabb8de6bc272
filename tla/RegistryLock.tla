---------------------------- MODULE RegistryLock ----------------------------
(***************************************************************************)
(* What registry.lock promises whoever touches the registry: vend's        *)
(* operations under withRegistryLock and the collections of the script.    *)
(* A user asks for the lock, enters when it is free, and leaves; whoever   *)
(* gives up, or whose process ends, is out, and the lock does not stay     *)
(* taken behind it: the kernel drops a flock with its descriptor.  Nobody  *)
(* is promised a turn: withRegistryLock polls, and flock -w waits, in no   *)
(* particular order.                                                       *)
(***************************************************************************)
CONSTANT Users

VARIABLES
    waiting,  \* users polling or blocked on the lock
    inside,   \* users between taking the lock and giving it back
    free      \* nobody holds a flock on the file

lockVars == <<waiting, inside, free>>

Init == waiting = {} /\ inside = {} /\ free = TRUE

\* Several may ask at once: one sweep spawns a deleteTag for each dropped grant.
Ask(users) ==
    /\ users \cap inside = {}
    /\ waiting' = waiting \cup users
    /\ UNCHANGED <<inside, free>>

Enter(u) ==
    /\ u \in waiting /\ free
    /\ waiting' = waiting \ {u}
    /\ inside' = inside \cup {u}
    /\ free' = FALSE

Leave(u) ==
    /\ u \in inside
    /\ inside' = inside \ {u}
    /\ free' = TRUE
    /\ UNCHANGED waiting

\* They time out, are cancelled, or die.
Withdraw(users) ==
    /\ waiting' = waiting \ users
    /\ inside' = inside \ users
    /\ free' = (free \/ inside \cap users # {})

Next ==
    \/ \E u \in Users : Enter(u) \/ Leave(u)
    \/ \E users \in SUBSET Users : Ask(users) \/ Withdraw(users)

Spec == Init /\ [][Next]_lockVars

\* One user at a time works on the registry, and the lock is taken exactly while
\* somebody does: it is never left behind by a user that is gone.
OneInside ==
    /\ \A u, v \in inside : u = v
    /\ free <=> inside = {}
=============================================================================
