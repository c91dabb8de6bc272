------------------------- MODULE AuthLimiterProofs -------------------------
(***************************************************************************)
(* Theorems about AuthLimiter, for any clients, any number of concurrent   *)
(* handlers and every value of the limits.                                 *)
(***************************************************************************)
EXTENDS AuthLimiter, FiniteSetTheorems, TLAPS

Gone == {c \in Clients : c \notin present}

\* A client without an entry has the entry of a new one and no history.
AbsentIsFresh ==
    \A c \in Gone : att[c] = Fresh /\ streak[c] = 0 /\ lastFail[c] = 0

\* A lock runs from the last failure and is as long as the failures say.
LockMatches ==
    \A c \in Clients :
        /\ streak[c] = 0 => lastFail[c] = 0
        /\ streak[c] >= Threshold =>
              att[c].lockedUntil = lastFail[c] + LockMinutes(streak[c])

\* The history lies in the past, and so do the locks' beginnings.
PastOnly ==
    \A c \in Clients :
        /\ lastFail[c] <= now
        /\ att[c].lockedUntil <= now + MaxLock

Hashing == {h \in Handlers : pc[h] = "hash"}

\* Everything but the number of slots.
TableTypeOK ==
    /\ now \in Nat
    /\ present \subseteq Clients
    /\ att \in [Clients -> Attempt]
    /\ pc \in [Handlers -> {"idle", "slot", "hash", "verify"}]
    /\ key \in [Handlers -> Clients]
    /\ streak \in [Clients -> Nat]
    /\ lastFail \in [Clients -> Nat]

LInv ==
    /\ TableTypeOK /\ SingleFlight /\ FailuresCounted
    /\ AbsentIsFresh /\ LockMatches /\ PastOnly

LEMMA LockMinutesBound ==
    \A n \in Nat : LockMinutes(n) \in Nat /\ LockMinutes(n) <= MaxLock
BY LimiterConstants DEF LockMinutes

LEMMA LimiterInit == Init => LInv
BY LimiterConstants DEF Init, LInv, TableTypeOK, SingleFlight, FailuresCounted, AbsentIsFresh, LockMatches,
   PastOnly, Gone, Fresh, Attempt, Busy, LockMinutes

LEMMA FreshFields ==
    /\ Fresh \in Attempt
    /\ Fresh.failures = 0 /\ Fresh.lockedUntil = 0 /\ Fresh.inFlight = FALSE
BY DEF Fresh, Attempt

LEMMA AttemptFields ==
    \A a \in Attempt : /\ a.failures \in Nat /\ a.lockedUntil \in Nat
                       /\ a.lastSeen \in Nat /\ a.inFlight \in BOOLEAN
BY DEF Attempt

LEMMA LimiterNext == LInv /\ [Next]_vars => LInv'
<1> SUFFICES ASSUME LInv, [Next]_vars PROVE LInv'
  OBVIOUS
<1> USE FreshFields, AttemptFields
<1>1. ASSUME NEW h \in Handlers, TakeSlot(h) PROVE LInv'
  BY <1>1 DEF TakeSlot, LInv, TableTypeOK, SingleFlight, FailuresCounted, AbsentIsFresh,
     LockMatches, PastOnly, Gone, Busy
<1>2. ASSUME NEW h \in Handlers, Abort(h) PROVE LInv'
  <2> DEFINE c == key[h]
  <2>t. c \in Clients /\ pc[h] = "slot" /\ TableTypeOK
    BY <1>2 DEF Abort, LInv, TableTypeOK
  <2>1. PICK a \in Attempt :
          /\ att' = [att EXCEPT ![c] = a]
          /\ a.failures = att[c].failures /\ a.inFlight = FALSE
          /\ a.lockedUntil \in {0, att[c].lockedUntil}
          /\ a.failures = 0 => a = Fresh
          /\ a.failures # 0 => a.lockedUntil = att[c].lockedUntil /\ present' = present
          /\ present' \in {present, present \ {c}}
    <3>1. CASE att[c].failures = 0
      <4> WITNESS Fresh \in Attempt
      <4> QED
        BY <1>2, <2>t, <3>1 DEF Abort, TableTypeOK
    <3>2. CASE att[c].failures # 0
      <4> DEFINE a == [att[c] EXCEPT !.inFlight = FALSE, !.lastSeen = now]
      <4>1. a \in Attempt /\ a.failures = att[c].failures /\ a.inFlight = FALSE
            /\ a.lockedUntil = att[c].lockedUntil
        BY <2>t DEF Attempt, TableTypeOK
      <4>2. att' = [att EXCEPT ![c] = a] /\ present' = present
        BY <1>2, <2>t, <3>2 DEF Abort, TableTypeOK
      <4> HIDE DEF a
      <4> QED
        BY <3>2, <4>1, <4>2
    <3> QED
      BY <3>1, <3>2
  <2>2. /\ pc' = [pc EXCEPT ![h] = "idle"]
        /\ UNCHANGED <<now, key, streak, lastFail>>
    BY <1>2 DEF Abort
  <2> HIDE DEF c
  <2>3. TableTypeOK'
    BY <2>t, <2>1, <2>2 DEF TableTypeOK
  <2>4. SingleFlight'
    BY <2>t, <2>1, <2>2 DEF LInv, TableTypeOK, SingleFlight, Busy, c
  <2>5. FailuresCounted'
    BY <2>t, <2>1, <2>2 DEF LInv, TableTypeOK, FailuresCounted
  <2>6. AbsentIsFresh'
    BY <2>t, <2>1, <2>2 DEF LInv, TableTypeOK, AbsentIsFresh, FailuresCounted, LockMatches, Gone
  <2>7. LockMatches'
    BY <2>t, <2>1, <2>2, LimiterConstants DEF LInv, TableTypeOK, LockMatches, FailuresCounted
  <2>8. PastOnly'
    BY <2>t, <2>1, <2>2, LimiterConstants DEF LInv, TableTypeOK, PastOnly
  <2> QED
    BY <2>3, <2>4, <2>5, <2>6, <2>7, <2>8 DEF LInv
<1>3. ASSUME NEW h \in Handlers, Finish(h, TRUE) PROVE LInv'
  <2> DEFINE c == key[h]
  <2>t. c \in Clients /\ pc[h] # "idle" /\ TableTypeOK
    BY <1>3 DEF Finish, LInv, TableTypeOK
  <2>1. /\ att' = [att EXCEPT ![c] = Fresh]
        /\ present' = present \ {c}
        /\ streak' = [streak EXCEPT ![c] = 0]
        /\ lastFail' = [lastFail EXCEPT ![c] = 0]
        /\ pc' = [pc EXCEPT ![h] = "idle"]
        /\ UNCHANGED <<now, key>>
    BY <1>3, <2>t DEF Finish, TableTypeOK
  <2> HIDE DEF c
  <2>2. TableTypeOK' /\ FailuresCounted' /\ AbsentIsFresh'
    BY <2>t, <2>1 DEF LInv, TableTypeOK, FailuresCounted, AbsentIsFresh, Gone
  <2>5. PastOnly'
    BY <2>t, <2>1, LimiterConstants DEF LInv, TableTypeOK, PastOnly
  <2>3. SingleFlight'
    BY <2>t, <2>1 DEF LInv, TableTypeOK, SingleFlight, Busy, c
  <2>4. LockMatches'
    BY <2>t, <2>1, LimiterConstants DEF LInv, TableTypeOK, LockMatches
  <2> QED
    BY <2>2, <2>3, <2>4, <2>5 DEF LInv
<1>4. ASSUME NEW h \in Handlers, Finish(h, FALSE) PROVE LInv'
  <2> DEFINE c == key[h]
             n == att[c].failures + 1
  <2>t. c \in Clients /\ pc[h] # "idle" /\ TableTypeOK /\ n \in Nat
    BY <1>4 DEF Finish, LInv, TableTypeOK
  <2>p. c \in present
    BY <2>t DEF LInv, SingleFlight, AbsentIsFresh, Gone, Busy, TableTypeOK
  <2>1. PICK a \in Attempt :
          /\ att' = [att EXCEPT ![c] = a]
          /\ a.failures = n /\ a.inFlight = FALSE
          /\ a.lockedUntil = IF n < Threshold THEN att[c].lockedUntil
                                              ELSE now + LockMinutes(n)
    <3> DEFINE a == [failures |-> n,
                     lockedUntil |-> IF n < Threshold THEN att[c].lockedUntil
                                                      ELSE now + LockMinutes(n),
                     lastSeen |-> now,
                     inFlight |-> FALSE]
    <3>1. a \in Attempt
      BY <2>t, LockMinutesBound DEF TableTypeOK, Attempt
    <3>2. att' = [att EXCEPT ![c] = a]
      BY <1>4, <2>t DEF Finish, TableTypeOK
    <3> WITNESS a \in Attempt
    <3> QED
      BY <3>1, <3>2
  <2>2. /\ present' = present
        /\ streak' = [streak EXCEPT ![c] = @ + 1]
        /\ lastFail' = [lastFail EXCEPT ![c] = now]
        /\ pc' = [pc EXCEPT ![h] = "idle"]
        /\ UNCHANGED <<now, key>>
    BY <1>4 DEF Finish
  <2>3. streak[c] + 1 = n
    BY <2>t DEF LInv, FailuresCounted
  <2> HIDE DEF c, n
  <2>4. TableTypeOK'
    BY <2>t, <2>1, <2>2 DEF TableTypeOK
  <2>5. SingleFlight'
    BY <2>t, <2>1, <2>2 DEF LInv, TableTypeOK, SingleFlight, Busy, c
  <2>6. FailuresCounted'
    BY <2>t, <2>1, <2>2, <2>3 DEF LInv, TableTypeOK, FailuresCounted
  <2>7. AbsentIsFresh'
    BY <2>t, <2>p, <2>1, <2>2 DEF LInv, TableTypeOK, AbsentIsFresh, Gone
  <2>8. LockMatches'
    BY <2>t, <2>1, <2>2, <2>3, LimiterConstants DEF LInv, TableTypeOK, LockMatches
  <2>9. PastOnly'
    BY <2>t, <2>1, <2>2, LockMinutesBound, LimiterConstants DEF LInv, TableTypeOK, PastOnly
  <2> QED
    BY <2>4, <2>5, <2>6, <2>7, <2>8, <2>9 DEF LInv
<1>5. ASSUME NEW h \in Handlers, NEW c \in Clients, BeginFull(h, c) PROVE LInv'
  <2>1. ASSUME NEW k \in Stale PROVE k \in Clients /\ ~att[k].inFlight
    BY <2>1 DEF Stale, LInv, TableTypeOK
  <2>2. TableTypeOK'
    BY <1>5, <2>1 DEF BeginFull, LInv, TableTypeOK, Drop
  <2>3. SingleFlight'
    BY <1>5, <2>1 DEF BeginFull, LInv, TableTypeOK, SingleFlight, Busy, Drop
  <2>4. FailuresCounted' /\ AbsentIsFresh'
    BY <1>5, <2>1 DEF BeginFull, LInv, TableTypeOK, FailuresCounted, AbsentIsFresh,
       Gone, Drop
  <2>6. PastOnly'
    BY <1>5, <2>1, LimiterConstants DEF BeginFull, LInv, TableTypeOK, PastOnly, Drop
  <2>5. LockMatches'
    BY <1>5, <2>1, LimiterConstants DEF BeginFull, LInv, TableTypeOK, LockMatches, Drop
  <2> QED
    BY <2>2, <2>3, <2>4, <2>5, <2>6 DEF LInv
<1>6. ASSUME NEW h \in Handlers, NEW c \in Clients, NEW next \in {"slot", "verify"},
             Begin(h, c, next)
      PROVE  LInv'
  <2>1. PICK out \in Evictions(c, present \ Stale) :
          LET gone == Stale \cup out
              entry == [Drop(att, gone, Fresh)[c] EXCEPT !.lastSeen = now]
          IN  /\ present' = (present \ gone) \cup {c}
              /\ att' = [Drop(att, gone, Fresh) EXCEPT ![c] =
                          [entry EXCEPT !.inFlight = @ \/ Admits(entry)]]
              /\ IF Admits(entry)
                 THEN pc' = [pc EXCEPT ![h] = next] /\ key' = [key EXCEPT ![h] = c]
                 ELSE UNCHANGED <<pc, key>>
              /\ streak' = Drop(streak, gone, 0)
              /\ lastFail' = Drop(lastFail, gone, 0)
    BY <1>6 DEF Begin
  <2> DEFINE gone == Stale \cup out
             old == Drop(att, gone, Fresh)
             entry == [old[c] EXCEPT !.lastSeen = now]
             a == [entry EXCEPT !.inFlight = @ \/ Admits(entry)]
  <2>2. gone \subseteq present /\ \A k \in gone : ~att[k].inFlight
    BY DEF Stale, Evictions, Oldest
  <2>t. TableTypeOK /\ ~Busy(h) /\ UNCHANGED now
    BY <1>6 DEF Begin, LInv
  <2>3. old \in [Clients -> Attempt]
    BY <2>t DEF Drop, TableTypeOK
  <2>4. /\ a \in Attempt
        /\ a.failures = old[c].failures /\ a.lockedUntil = old[c].lockedUntil
        /\ a.inFlight <=> (old[c].inFlight \/ Admits(entry))
    BY <2>3, <2>t DEF Attempt, TableTypeOK
  <2>5. Admits(entry) => ~old[c].inFlight
    BY <2>3 DEF Admits, Attempt
  <2>6. /\ present' = (present \ gone) \cup {c}
        /\ att' = [old EXCEPT ![c] = a]
        /\ \/ /\ Admits(entry)
              /\ pc' = [pc EXCEPT ![h] = next] /\ key' = [key EXCEPT ![h] = c]
           \/ ~Admits(entry) /\ UNCHANGED <<pc, key>>
        /\ streak' = Drop(streak, gone, 0)
        /\ lastFail' = Drop(lastFail, gone, 0)
    BY <2>1
  <2>7. \A k \in Clients : old[k] = IF k \in gone THEN Fresh ELSE att[k]
    BY DEF Drop
  <2> HIDE DEF gone, old, entry, a
  <2>8. TableTypeOK'
    BY <2>t, <2>2, <2>3, <2>4, <2>6 DEF TableTypeOK, Drop
  <2>9. SingleFlight'
    <3>1. CASE Admits(entry)
      <4>1. \A g \in Handlers : Busy(g) => key[g] # c
        <5>1. ~att[c].inFlight
          BY <2>2, <2>5, <2>7, <3>1
        <5> QED
          BY <5>1 DEF LInv, SingleFlight
      <4>2. \A g \in Handlers : Busy(g)' <=> g = h \/ Busy(g)
        BY <2>t, <2>6, <3>1 DEF TableTypeOK, Busy
      <4>3. \A g \in Handlers : key'[g] = IF g = h THEN c ELSE key[g]
        BY <2>t, <2>6, <3>1 DEF TableTypeOK
      <4>4. \A k \in Clients : att'[k].inFlight <=> k = c \/ att[k].inFlight
        BY <2>2, <2>3, <2>4, <2>6, <2>7, <3>1
      <4>5. \A k \in Clients :
              att'[k].inFlight <=> \E g \in Handlers : Busy(g)' /\ key'[g] = k
        BY <2>t, <4>2, <4>3, <4>4 DEF LInv, SingleFlight
      <4>6. \A g, f \in Handlers : Busy(g)' /\ Busy(f)' /\ key'[g] = key'[f] => g = f
        BY <4>1, <4>2, <4>3 DEF LInv, SingleFlight
      <4> QED
        BY <4>5, <4>6 DEF SingleFlight
    <3>2. CASE ~Admits(entry)
      BY <2>t, <2>2, <2>3, <2>4, <2>6, <2>7, <3>2
         DEF LInv, TableTypeOK, SingleFlight, Busy
    <3> QED
      BY <3>1, <3>2
  <2>10. FailuresCounted' /\ AbsentIsFresh'
    BY <2>t, <2>2, <2>3, <2>4, <2>6, <2>7
       DEF LInv, TableTypeOK, FailuresCounted, AbsentIsFresh, Gone, Drop
  <2>11. LockMatches'
    BY <2>t, <2>2, <2>3, <2>4, <2>6, <2>7, LimiterConstants
       DEF LInv, TableTypeOK, LockMatches, Drop
  <2>12. PastOnly'
    BY <2>t, <2>2, <2>3, <2>4, <2>6, <2>7, LimiterConstants
       DEF LInv, TableTypeOK, PastOnly, Drop
  <2> QED
    BY <2>8, <2>9, <2>10, <2>11, <2>12 DEF LInv
<1>7. CASE Tick
  BY <1>7, LimiterConstants DEF Tick, LInv, TableTypeOK, SingleFlight, FailuresCounted, AbsentIsFresh,
     LockMatches, PastOnly, Gone, Busy
<1>8. CASE UNCHANGED vars
  BY <1>8 DEF vars, LInv, TableTypeOK, SingleFlight, FailuresCounted, AbsentIsFresh,
     LockMatches, PastOnly, Gone, Busy
<1> QED
  BY <1>1, <1>2, <1>3, <1>4, <1>5, <1>6, <1>7, <1>8 DEF Next

THEOREM LimiterInductive == Spec => []LInv
<1> QED
  BY LimiterInit, LimiterNext, PTL DEF Spec

\* One check at a time per client, and its entry says so exactly then.
THEOREM OneCheckPerClient == Spec => []SingleFlight
<1>1. LInv => SingleFlight
  BY DEF LInv
<1> QED
  BY <1>1, LimiterInductive, PTL

\* The table counts every failure since the client was last forgotten.
THEOREM NoFailureForgotten == Spec => []FailuresCounted
<1>1. LInv => FailuresCounted
  BY DEF LInv
<1> QED
  BY <1>1, LimiterInductive, PTL

\* No lock reaches further than MaxLock into the future.
THEOREM LocksAreShort == Spec => []LockIsShort
<1>1. LInv => LockIsShort
  BY DEF LInv, PastOnly, LockIsShort
<1> QED
  BY <1>1, LimiterInductive, PTL

\* A check that starts after failures starts only when the lock that follows
\* from the last of them has run out.
THEOREM LockIsServed == Spec => LockedOutWaits
<1> DEFINE Waits(h) ==
      LET c == key'[h] IN
      ~Busy(h) /\ pc'[h] # "idle" /\ streak'[c] > 0
          => now >= lastFail[c] + LockMinutes(streak'[c])
<1>1. ASSUME LInv, LInv', Next, NEW h \in Handlers PROVE Waits(h)
  <2> SUFFICES ASSUME ~Busy(h), pc'[h] # "idle", streak'[key'[h]] > 0
               PROVE  now >= lastFail[key'[h]] + LockMinutes(streak'[key'[h]])
    OBVIOUS
  <2> DEFINE c == key'[h]
  <2>1. PICK next \in {"slot", "verify"}, d \in Clients : Begin(h, d, next)
    <3>1. CASE \E g \in Handlers, d \in Clients : \E next \in {"slot", "verify"} : Begin(g, d, next)
      <4>1. PICK g \in Handlers, d \in Clients, next \in {"slot", "verify"} : Begin(g, d, next)
        BY <3>1
      <4>2. pc' = [pc EXCEPT ![g] = next] \/ pc' = pc
        BY <4>1 DEF Begin
      <4>3. h = g
        BY <1>1, <4>2 DEF Busy, LInv, TableTypeOK
      <4> QED
        BY <4>1, <4>3
    <3>2. CASE \E g \in Handlers, d \in Clients : BeginFull(g, d)
      BY <3>2 DEF BeginFull, Busy
    <3>3. CASE \E g \in Handlers : TakeSlot(g) \/ Abort(g)
      BY <1>1, <3>3 DEF TakeSlot, Abort, Busy, LInv, TableTypeOK
    <3>4. CASE \E g \in Handlers, ok \in BOOLEAN : Finish(g, ok)
      BY <1>1, <3>4 DEF Finish, Busy, LInv, TableTypeOK
    <3>5. CASE Tick
      BY <3>5 DEF Tick, Busy
    <3> QED
      BY <1>1, <3>1, <3>2, <3>3, <3>4, <3>5 DEF Next
  <2>2. PICK out \in Evictions(d, present \ Stale) :
          LET gone == Stale \cup out
              entry == [Drop(att, gone, Fresh)[d] EXCEPT !.lastSeen = now]
          IN  /\ IF Admits(entry)
                 THEN pc' = [pc EXCEPT ![h] = next] /\ key' = [key EXCEPT ![h] = d]
                 ELSE UNCHANGED <<pc, key>>
              /\ streak' = Drop(streak, gone, 0)
    BY <2>1 DEF Begin
  <2> DEFINE gone == Stale \cup out
             entry == [Drop(att, gone, Fresh)[d] EXCEPT !.lastSeen = now]
  <2>3. Admits(entry) /\ c = d
    BY <1>1, <2>2 DEF Busy, LInv, TableTypeOK
  <2>4. d \notin gone /\ streak'[d] = streak[d] /\ c \in Clients
    BY <2>2, <2>3 DEF Drop
  <2>5. entry.lockedUntil = att[d].lockedUntil
    BY <1>1, <2>4 DEF LInv, TableTypeOK, Attempt, Drop
  <2>6. now >= att[d].lockedUntil
    BY <2>3, <2>5 DEF Admits
  <2>7. CASE streak[d] >= Threshold
    BY <1>1, <2>3, <2>4, <2>6, <2>7 DEF LInv, LockMatches
  <2>8. CASE streak[d] < Threshold
    <3>1. LockMinutes(streak[d]) = 0
      BY <2>8 DEF LockMinutes
    <3> QED
      BY <1>1, <2>3, <2>4, <3>1 DEF LInv, PastOnly, TableTypeOK
  <2> QED
    BY <1>1, <2>4, <2>7, <2>8, LimiterConstants DEF LInv, TableTypeOK
<1>2. LInv /\ LInv' /\ [Next]_vars => [\A h \in Handlers : Waits(h)]_vars
  BY <1>1
<1> QED
  BY <1>2, LimiterInductive, PTL DEF Spec, LockedOutWaits

-----------------------------------------------------------------------------
(***************************************************************************)
(* Counting: the table and the slots.                                      *)
(***************************************************************************)
TableInv == IsFiniteSet(present) /\ TableBounded

LEMMA TableInit == Init => TableInv
BY FS_EmptySet, LimiterConstants DEF Init, TableInv, TableBounded

LEMMA TableNext == LInv /\ TableInv /\ [Next]_vars => TableInv'
<1> SUFFICES ASSUME LInv, TableInv, [Next]_vars PROVE TableInv'
  OBVIOUS
<1>1. ASSUME present' \subseteq present PROVE TableInv'
  <2>1. IsFiniteSet(present') /\ Cardinality(present') <= Cardinality(present)
    BY <1>1, FS_Subset DEF TableInv
  <2>2. Cardinality(present') \in Nat /\ Cardinality(present) \in Nat
    BY <2>1, FS_CardinalityType DEF TableInv
  <2> QED
    BY <2>1, <2>2, LimiterConstants DEF TableInv, TableBounded
<1>2. ASSUME NEW h \in Handlers, NEW c \in Clients, NEW next \in {"slot", "verify"},
             Begin(h, c, next)
      PROVE  TableInv'
  <2> DEFINE kept == present \ Stale
  <2>1. PICK out \in Evictions(c, kept) : present' = (kept \ out) \cup {c}
    BY <1>2 DEF Begin
  <2>2. /\ IsFiniteSet(kept) /\ Cardinality(kept) \in Nat
        /\ Cardinality(kept) <= MaxEntries
    <3>1. IsFiniteSet(kept) /\ Cardinality(kept) <= Cardinality(present)
      BY FS_Subset DEF TableInv
    <3> QED
      BY <3>1, FS_CardinalityType, LimiterConstants DEF TableInv, TableBounded
  <2> HIDE DEF kept
  <2>3. CASE c \in kept
    <3>1. out = {}
      BY <2>1, <2>3 DEF Evictions, Room
    <3>2. present' = kept
      BY <2>1, <2>3, <3>1
    <3> QED
      BY <2>2, <3>2 DEF TableInv, TableBounded
  <2>4. CASE c \notin kept /\ Cardinality(kept) < MaxEntries
    <3>1. present' = kept \cup {c}
      BY <2>1, <2>4 DEF Evictions, Room
    <3>2. IsFiniteSet(present') /\ Cardinality(present') = Cardinality(kept) + 1
      BY <2>2, <2>4, <3>1, FS_AddElement
    <3> QED
      BY <2>2, <2>4, <3>2, LimiterConstants DEF TableInv, TableBounded
  <2>5. CASE c \notin kept /\ ~(Cardinality(kept) < MaxEntries)
    <3>1. PICK k \in kept : out = {k}
      BY <2>1, <2>5 DEF Evictions, Room, Oldest
    <3>2. IsFiniteSet(kept \ {k}) /\ Cardinality(kept \ {k}) = Cardinality(kept) - 1
      BY <2>2, <3>1, FS_RemoveElement
    <3>3. /\ IsFiniteSet((kept \ {k}) \cup {c})
          /\ Cardinality((kept \ {k}) \cup {c}) = Cardinality(kept \ {k}) + 1
      BY <2>5, <3>2, FS_AddElement
    <3> QED
      BY <2>1, <2>2, <3>1, <3>2, <3>3, LimiterConstants DEF TableInv, TableBounded
  <2> QED
    BY <2>3, <2>4, <2>5
<1>3. ASSUME NEW h \in Handlers, NEW c \in Clients, BeginFull(h, c)
      PROVE  present' \subseteq present
  BY <1>3 DEF BeginFull
<1>4. ASSUME NEW h \in Handlers,
             TakeSlot(h) \/ Abort(h) \/ \E ok \in BOOLEAN : Finish(h, ok)
      PROVE  present' \subseteq present
  BY <1>4 DEF TakeSlot, Abort, Finish
<1>5. CASE Tick \/ UNCHANGED vars
  BY <1>1, <1>5 DEF Tick, vars
<1> QED
  BY <1>1, <1>2, <1>3, <1>4, <1>5 DEF Next

\* The table never outgrows its bound, however many clients there are.
THEOREM TableStaysBounded == Spec => []TableBounded
<1>1. TableInv => TableBounded
  BY DEF TableInv
<1> QED
  BY <1>1, TableInit, TableNext, LimiterInductive, PTL DEF Spec

LEMMA SlotsInit == Init => SlotsAccounted
<1> SUFFICES ASSUME Init PROVE SlotsAccounted
  OBVIOUS
<1>1. {h \in Handlers : pc[h] = "hash"} = {}
  BY DEF Init
<1> QED
  BY <1>1, FS_EmptySet, LimiterConstants DEF Init, SlotsAccounted

LEMMA SlotsNext == LInv /\ SlotsAccounted /\ [Next]_vars => SlotsAccounted'
<1> SUFFICES ASSUME LInv, SlotsAccounted, [Next]_vars PROVE SlotsAccounted'
  OBVIOUS
<1> USE DEF Hashing
<1>f. IsFiniteSet(Hashing) /\ Cardinality(Hashing) \in Nat
  BY HandlersFinite, FS_Subset, FS_CardinalityType
<1>p. pc \in [Handlers -> {"idle", "slot", "hash", "verify"}]
  BY DEF LInv, TableTypeOK
<1>1. ASSUME UNCHANGED slots, Hashing' = Hashing PROVE SlotsAccounted'
  BY <1>1 DEF SlotsAccounted
<1>2. ASSUME NEW h \in Handlers, TakeSlot(h) PROVE SlotsAccounted'
  <2>1. Hashing' = Hashing \cup {h} /\ h \notin Hashing
    BY <1>2, <1>p DEF TakeSlot
  <2>2. Cardinality(Hashing') = Cardinality(Hashing) + 1
    BY <1>f, <2>1, FS_AddElement
  <2> QED
    BY <1>2, <1>f, <2>2, LimiterConstants DEF TakeSlot, SlotsAccounted
<1>3. ASSUME NEW h \in Handlers, NEW ok \in BOOLEAN, Finish(h, ok) PROVE SlotsAccounted'
  <2>1. CASE pc[h] = "hash"
    <3>1. Hashing' = Hashing \ {h} /\ h \in Hashing
      BY <1>3, <1>p, <2>1 DEF Finish
    <3>2. Cardinality(Hashing') = Cardinality(Hashing) - 1
      BY <1>f, <3>1, FS_RemoveElement
    <3> QED
      BY <1>3, <1>f, <2>1, <3>2, LimiterConstants DEF Finish, FreeSlot, SlotsAccounted
  <2>2. CASE pc[h] # "hash"
    <3>1. Hashing' = Hashing
      BY <1>3, <1>p, <2>2 DEF Finish
    <3> QED
      BY <1>1, <1>3, <2>2, <3>1 DEF Finish, FreeSlot
  <2> QED
    BY <2>1, <2>2
<1>4. ASSUME NEW h \in Handlers, Abort(h) PROVE SlotsAccounted'
  <2>1. Hashing' = Hashing /\ UNCHANGED slots
    BY <1>4, <1>p DEF Abort
  <2> QED
    BY <1>1, <2>1
<1>5. ASSUME NEW h \in Handlers, NEW c \in Clients, NEW next \in {"slot", "verify"},
             Begin(h, c, next) \/ BeginFull(h, c)
      PROVE  SlotsAccounted'
  <2>1. pc' = pc \/ (pc' = [pc EXCEPT ![h] = next] /\ pc[h] = "idle")
    BY <1>5 DEF Begin, BeginFull, Busy
  <2>2. Hashing' = Hashing /\ UNCHANGED slots
    BY <1>5, <1>p, <2>1 DEF Begin, BeginFull
  <2> QED
    BY <1>1, <2>2
<1>6. CASE Tick \/ UNCHANGED vars
  BY <1>1, <1>6 DEF Tick, vars
<1> QED
  BY <1>2, <1>3, <1>4, <1>5, <1>6 DEF Next

\* The hash slots never leak and never run over.
THEOREM SlotsNeverLeak == Spec => []SlotsAccounted
<1> QED
  BY SlotsInit, SlotsNext, LimiterInductive, PTL DEF Spec

\* Every variable keeps its type.
THEOREM LimiterTypeCorrect == Spec => []TypeOK
<1>1. LInv /\ SlotsAccounted => TypeOK
  <2>1. Cardinality(Hashing) \in Nat
    BY HandlersFinite, FS_Subset, FS_CardinalityType DEF Hashing
  <2> QED
    BY <2>1 DEF LInv, TableTypeOK, TypeOK, SlotsAccounted, Hashing
<1> QED
  BY <1>1, LimiterInductive, SlotsNeverLeak, PTL

-----------------------------------------------------------------------------
(***************************************************************************)
(* The gate on its own: the time that guesses take.                        *)
(***************************************************************************)
GateTypes ==
    /\ now \in Nat
    /\ Failures \in [Clients -> Nat]
    /\ lastFail \in [Clients -> Nat]

\* A check under way began after the wait that the failures before it cost.
CheckedHasWaited ==
    \A c \in Checking : now >= lastFail[c] + Gate!Lock(Failures[c])

GateInv == GateTypes /\ CheckedHasWaited /\ GuessesAreSlow

\* The sum of the waits grows by one wait with each failure.
LEMMA WaitsAddUp ==
    \A n \in Nat : n >= Threshold =>
        /\ Gate!Lock(n) \in Nat
        /\ Gate!TwiceWaited((n + 1) - Threshold)
              = Gate!TwiceWaited(n - Threshold) + 2 * Gate!Lock(n)
<1> SUFFICES ASSUME NEW n \in Nat, n >= Threshold
             PROVE  /\ Gate!Lock(n) \in Nat
                    /\ Gate!TwiceWaited((n + 1) - Threshold)
                          = Gate!TwiceWaited(n - Threshold) + 2 * Gate!Lock(n)
  OBVIOUS
<1> DEFINE m == n - Threshold
           M == MaxLock
<1>1. m \in Nat /\ (n + 1) - Threshold = m + 1 /\ M \in Nat /\ M >= 1
  BY LimiterConstants
<1>2. Gate!Lock(n) = IF m < M THEN m + 1 ELSE M
  BY <1>1, LimiterConstants DEF Gate!Lock
<1>3. /\ Gate!TwiceWaited(m) = IF m <= M THEN m * (m + 1) ELSE M * (2 * m + 1 - M)
      /\ Gate!TwiceWaited(m + 1) =
            IF m + 1 <= M THEN (m + 1) * (m + 2) ELSE M * (2 * m + 3 - M)
  <2>1. (m + 1) + 1 = m + 2 /\ 2 * (m + 1) + 1 = 2 * m + 3
    BY <1>1
  <2> QED
    BY <1>1, <2>1 DEF Gate!TwiceWaited
<1> HIDE DEF m, M
<1>4. CASE m < M
  <2>1. (m + 1) * (m + 2) = m * (m + 1) + 2 * (m + 1)
    BY <1>1
  <2> QED
    BY <1>1, <1>2, <1>3, <1>4, <2>1 DEF m
<1>5. CASE m = M
  <2>1. M * (2 * M + 3 - M) = M * (M + 1) + 2 * M
    BY <1>1
  <2> QED
    BY <1>1, <1>2, <1>3, <1>5, <2>1 DEF m
<1>6. CASE m > M
  <2>1. M * (2 * m + 3 - M) = M * (2 * m + 1 - M) + 2 * M
    BY <1>1
  <2> QED
    BY <1>1, <1>2, <1>3, <1>6, <2>1 DEF m
<1> QED
  BY <1>1, <1>4, <1>5, <1>6

LEMMA NoWaitBelow ==
    /\ \A n \in Nat : n < Threshold => Gate!Lock(n) = 0
    /\ Gate!Lock(0) = 0 /\ Gate!TwiceWaited(0) = 0
BY LimiterConstants DEF Gate!Lock, Gate!TwiceWaited

\* What a step of the gate does to one client: nothing but perhaps the
\* beginning or the end of a check, or it is forgotten, or a check has failed.
Kept(c) ==
    /\ Failures'[c] = Failures[c] /\ lastFail'[c] = lastFail[c]
    /\ c \in Checking' =>
          c \in Checking \/ now >= lastFail[c] + Gate!Lock(Failures[c])
Cleared(c) == Failures'[c] = 0 /\ lastFail'[c] = 0
Failed(c) ==
    /\ c \in Checking /\ c \notin Checking' /\ now' = now
    /\ Failures'[c] = Failures[c] + 1 /\ lastFail'[c] = now

LEMMA GateMoves ==
    ASSUME GateTypes, [Gate!Next]_Gate!gateVars
    PROVE  /\ GateTypes' /\ now' >= now
           /\ \A c \in Clients : Kept(c) \/ Cleared(c) \/ Failed(c)
<1> USE DEF GateTypes, Kept, Cleared, Failed
<1>1. ASSUME NEW gone \in SUBSET Clients, Gate!Forgets(gone), UNCHANGED now,
             \A d \in Checking' :
                d \in Checking \/ d \in gone \/ now >= lastFail[d] + Gate!Lock(Failures[d])
      PROVE  /\ GateTypes' /\ now' >= now
             /\ \A c \in Clients : Kept(c) \/ Cleared(c)
  <2>1. /\ Failures' = [c \in Clients |-> IF c \in gone THEN 0 ELSE Failures[c]]
        /\ lastFail' = [c \in Clients |-> IF c \in gone THEN 0 ELSE lastFail[c]]
    BY <1>1 DEF Gate!Forgets, Gate!Without
  <2> QED
    BY <1>1, <2>1
<1>2. ASSUME NEW c \in Clients, NEW gone \in SUBSET Clients, Gate!Admit(c, gone)
      PROVE  /\ GateTypes' /\ now' >= now
             /\ \A d \in Clients : Kept(d) \/ Cleared(d)
  <2>1. /\ Gate!Forgets(gone) /\ UNCHANGED now
        /\ Checking' = Checking \cup {c}
        /\ c \in gone \/ now >= lastFail[c] + Gate!Lock(Failures[c])
    BY <1>2 DEF Gate!Admit
  <2> HIDE DEF GateTypes, Kept, Cleared
  <2> QED
    BY <1>1, <2>1
<1>3. ASSUME NEW gone \in SUBSET Clients, Gate!Forget(gone)
      PROVE  /\ GateTypes' /\ now' >= now
             /\ \A d \in Clients : Kept(d) \/ Cleared(d)
  <2>1. Gate!Forgets(gone) /\ UNCHANGED now /\ Checking' = Checking
    BY <1>3 DEF Gate!Forget
  <2> HIDE DEF GateTypes, Kept, Cleared
  <2> QED
    BY <1>1, <2>1
<1>4. ASSUME NEW c \in Clients, Gate!GiveUp(c)
      PROVE  /\ GateTypes' /\ now' >= now
             /\ \A d \in Clients : Kept(d)
  <2>1. /\ Failures' = Failures /\ lastFail' = lastFail /\ now' = now
        /\ Checking' = Checking \ {c}
    BY <1>4 DEF Gate!GiveUp
  <2> QED
    BY <2>1
<1>5. ASSUME NEW c \in Clients, Gate!Right(c)
      PROVE  /\ GateTypes' /\ now' >= now
             /\ \A d \in Clients : Kept(d) \/ Cleared(d)
  <2>1. /\ now' = now /\ Checking' = Checking \ {c}
        /\ Failures' = [d \in Clients |-> IF d \in {c} THEN 0 ELSE Failures[d]]
        /\ lastFail' = [d \in Clients |-> IF d \in {c} THEN 0 ELSE lastFail[d]]
    BY <1>5 DEF Gate!Right, Gate!Without
  <2> QED
    BY <2>1
<1>6. ASSUME NEW c \in Clients, Gate!Wrong(c)
      PROVE  /\ GateTypes' /\ now' >= now
             /\ \A d \in Clients : Kept(d) \/ Failed(d)
  <2>1. /\ now' = now /\ c \in Checking /\ Checking' = Checking \ {c}
        /\ Failures' = [Failures EXCEPT ![c] = @ + 1]
        /\ lastFail' = [lastFail EXCEPT ![c] = now]
    BY <1>6 DEF Gate!Wrong
  <2> QED
    BY <2>1
<1>7. ASSUME now' \in {now, now + 1}, UNCHANGED <<Checking, Failures, lastFail>>
      PROVE  /\ GateTypes' /\ now' >= now
             /\ \A d \in Clients : Kept(d)
  <2> QED
    BY <1>7
<1>8. CASE Gate!Advance
  <2>1. now' = now + 1 /\ UNCHANGED <<Checking, Failures, lastFail>>
    BY <1>8 DEF Gate!Advance
  <2> QED
    BY <1>7, <2>1
<1>9. CASE UNCHANGED Gate!gateVars
  <2>1. now' = now /\ UNCHANGED <<Checking, Failures, lastFail>>
    BY <1>9 DEF Gate!gateVars
  <2> QED
    BY <1>7, <2>1
<1> HIDE DEF GateTypes, Kept, Cleared, Failed
<1> QED
  BY <1>2, <1>3, <1>4, <1>5, <1>6, <1>8, <1>9 DEF Gate!Next

LEMMA GateNext == GateInv /\ [Gate!Next]_Gate!gateVars => GateInv'
<1> SUFFICES ASSUME GateInv, [Gate!Next]_Gate!gateVars PROVE GateInv'
  OBVIOUS
<1>1. /\ GateTypes /\ GateTypes' /\ now' >= now
      /\ \A c \in Clients : Kept(c) \/ Cleared(c) \/ Failed(c)
  BY GateMoves DEF GateInv
<1>2. \A n \in Nat : Gate!Lock(n) \in Nat
  BY NoWaitBelow, WaitsAddUp, LimiterConstants
<1> DEFINE Slow(n, t) == n >= Threshold => 2 * t >= Gate!TwiceWaited(n - Threshold)
<1>3. \A c \in Clients : Slow(Failures[c], lastFail[c])
  BY DEF GateInv, GuessesAreSlow, Gate!GuessesTakeTime
<1>4. ASSUME NEW c \in Clients
      PROVE  /\ Slow(Failures'[c], lastFail'[c])
             /\ c \in Checking' => now' >= lastFail'[c] + Gate!Lock(Failures'[c])
  <2> DEFINE f == Failures[c]
             l == lastFail[c]
  <2>1. /\ f \in Nat /\ l \in Nat /\ now \in Nat /\ now' \in Nat
        /\ c \in Checking => now >= l + Gate!Lock(f)
    BY <1>1 DEF GateTypes, GateInv, CheckedHasWaited
  <2>2. CASE Kept(c)
    BY <1>1, <1>2, <1>3, <2>1, <2>2 DEF Kept
  <2>3. CASE Cleared(c)
    BY <2>1, <2>3, NoWaitBelow, LimiterConstants DEF Cleared
  <2>4. CASE Failed(c)
    <3>f. Failures'[c] = f + 1 /\ lastFail'[c] = now /\ c \notin Checking'
      BY <2>4 DEF Failed
    <3>1. now >= l + Gate!Lock(f)
      BY <2>1, <2>4 DEF Failed
    <3>2. ASSUME f >= Threshold PROVE Slow(f + 1, now)
      <4>1. /\ 2 * l >= Gate!TwiceWaited(f - Threshold)
            /\ Gate!TwiceWaited((f + 1) - Threshold)
                  = Gate!TwiceWaited(f - Threshold) + 2 * Gate!Lock(f)
        BY <1>3, <2>1, <3>2, WaitsAddUp
      <4>2. Gate!TwiceWaited(f - Threshold) \in Int
        BY <2>1, <3>2, LimiterConstants DEF Gate!TwiceWaited
      <4>3. 2 * now >= Gate!TwiceWaited((f + 1) - Threshold)
        BY <1>2, <2>1, <3>1, <4>1, <4>2
      <4> QED
        BY <4>3
    <3>3. ASSUME f + 1 = Threshold PROVE Slow(f + 1, now)
      <4>1. (f + 1) - Threshold = 0
        BY <2>1, <3>3
      <4>2. 2 * now >= Gate!TwiceWaited((f + 1) - Threshold)
        BY <2>1, <4>1, NoWaitBelow
      <4> QED
        BY <4>2
    <3>4. ASSUME f + 1 < Threshold PROVE Slow(f + 1, now)
      <4>1. ~(f + 1 >= Threshold)
        BY <2>1, <3>4, LimiterConstants
      <4> QED
        BY <4>1
    <3>5. Slow(f + 1, now)
      BY <2>1, <3>2, <3>3, <3>4, LimiterConstants
    <3> HIDE DEF f, l, Slow
    <3> QED
      BY <3>f, <3>5
  <2> QED
    BY <1>1, <2>2, <2>3, <2>4
<1>5. CheckedHasWaited'
  <2>1. Checking' \subseteq Clients
    BY DEF Checking
  <2> QED
    BY <1>4, <2>1 DEF CheckedHasWaited
<1>6. GuessesAreSlow'
  BY <1>4 DEF GuessesAreSlow, Gate!GuessesTakeTime
<1> QED
  BY <1>1, <1>5, <1>6 DEF GateInv

\* The gate's own rules, whatever implements it, make guesses slow.
LEMMA GateIsSlow == Gate!Spec => []GuessesAreSlow
<1>1. Gate!Init => GateInv
  <2> SUFFICES ASSUME Gate!Init PROVE GateInv
    OBVIOUS
  <2>1. /\ now = 0 /\ Checking = {}
        /\ Failures = [c \in Clients |-> 0] /\ lastFail = [c \in Clients |-> 0]
    BY DEF Gate!Init
  <2>2. GateTypes /\ CheckedHasWaited
    BY <2>1 DEF GateTypes, CheckedHasWaited
  <2>3. \A c \in Clients : ~(Failures[c] >= Threshold)
    BY <2>1, LimiterConstants
  <2> QED
    BY <2>2, <2>3 DEF GateInv, GuessesAreSlow, Gate!GuessesTakeTime
<1>2. GateInv => GuessesAreSlow
  BY DEF GateInv
<1> QED
  BY <1>1, <1>2, GateNext, PTL DEF Gate!Spec

-----------------------------------------------------------------------------
(***************************************************************************)
(* The limiter implements the gate.                                        *)
(***************************************************************************)
LEMMA SameLock == \A n \in Nat : LockMinutes(n) = Gate!Lock(n)
BY LimiterConstants DEF LockMinutes, Gate!Lock

LEMMA CheckedAreRemembered ==
    ASSUME LInv
    PROVE  /\ Checking = {c \in Clients : att[c].inFlight}
           /\ Checking \subseteq present
           /\ Failures \in [Clients -> Nat]
<1>1. Checking = {c \in Clients : att[c].inFlight}
  BY DEF LInv, SingleFlight, Checking
<1>2. Checking \subseteq present
  BY <1>1, FreshFields DEF LInv, AbsentIsFresh, Gone
<1>3. Failures \in [Clients -> Nat]
  BY AttemptFields DEF LInv, TableTypeOK, Failures
<1> QED
  BY <1>1, <1>2, <1>3

\* Whoever begin forgets was not being checked, and the table was full.
LEMMA PushedOut ==
    ASSUME LInv, TableInv, NEW c \in Clients, NEW out \in Evictions(c, present \ Stale)
    PROVE  LET gone == Stale \cup out
           IN  /\ gone \subseteq present \ Checking
               /\ gone # {} => Cardinality(present) >= MaxEntries
<1> DEFINE kept == present \ Stale
<1>1. Stale \subseteq present /\ \A k \in Stale : ~att[k].inFlight
  BY DEF Stale
<1>2. out \subseteq present /\ \A k \in out : ~att[k].inFlight
  BY DEF Evictions, Oldest
<1>3. Stale \cup out \subseteq present \ Checking
  BY <1>1, <1>2, CheckedAreRemembered
<1>4. Stale # {} => Cardinality(present) >= MaxEntries
  BY DEF Stale
<1>5. out # {} => Cardinality(present) >= MaxEntries
  <2>1. ASSUME out # {} PROVE ~(Cardinality(kept) < MaxEntries)
    BY <2>1 DEF Evictions, Room
  <2>2. /\ Cardinality(kept) <= Cardinality(present)
        /\ Cardinality(kept) \in Nat /\ Cardinality(present) \in Nat
    BY FS_Subset, FS_CardinalityType DEF TableInv
  <2> HIDE DEF kept
  <2> QED
    BY <2>1, <2>2, LimiterConstants
<1> QED
  BY <1>3, <1>4, <1>5

\* The instance of FiniteSets inside the gate counts as this module's does.
LEMMA SameCardinality == Gate!Cardinality(present) = Cardinality(present)
BY Zenon DEF Gate!Cardinality, Cardinality

\* The entries after begin forgot some clients.
LEMMA ForgetsThem ==
    ASSUME LInv, NEW gone \in SUBSET Clients, gone \subseteq present \ Checking,
           gone # {} => Cardinality(present) >= MaxEntries,
           \A k \in Clients : att'[k].failures = IF k \in gone THEN 0 ELSE att[k].failures,
           lastFail' = Drop(lastFail, gone, 0)
    PROVE  Gate!Forgets(gone)
<1>1. Failures' = [k \in Clients |-> IF k \in gone THEN 0 ELSE Failures[k]]
  BY DEF Failures
<1>2. lastFail' = [k \in Clients |-> IF k \in gone THEN 0 ELSE lastFail[k]]
  BY DEF Drop
<1> QED
  BY <1>1, <1>2, SameCardinality DEF Gate!Forgets, Gate!Without

LEMMA BeginIsVisit ==
    ASSUME LInv, TableInv, NEW h \in Handlers, NEW c \in Clients,
           NEW next \in {"slot", "verify"}, Begin(h, c, next)
    PROVE  Gate!Next
<1>1. PICK out \in Evictions(c, present \ Stale) :
        LET gone == Stale \cup out
            entry == [Drop(att, gone, Fresh)[c] EXCEPT !.lastSeen = now]
        IN  /\ present' = (present \ gone) \cup {c}
            /\ att' = [Drop(att, gone, Fresh) EXCEPT ![c] =
                        [entry EXCEPT !.inFlight = @ \/ Admits(entry)]]
            /\ IF Admits(entry)
               THEN pc' = [pc EXCEPT ![h] = next] /\ key' = [key EXCEPT ![h] = c]
               ELSE UNCHANGED <<pc, key>>
            /\ streak' = Drop(streak, gone, 0)
            /\ lastFail' = Drop(lastFail, gone, 0)
  BY DEF Begin
<1> DEFINE gone == Stale \cup out
           old == Drop(att, gone, Fresh)
           entry == [old[c] EXCEPT !.lastSeen = now]
           a == [entry EXCEPT !.inFlight = @ \/ Admits(entry)]
<1>2. /\ gone \subseteq present \ Checking
      /\ gone # {} => Cardinality(present) >= MaxEntries
  BY PushedOut
<1>t. TableTypeOK /\ ~Busy(h) /\ UNCHANGED now
  BY DEF Begin, LInv
<1>3. \A k \in Clients : old[k] = IF k \in gone THEN Fresh ELSE att[k]
  BY DEF Drop
<1>4. old \in [Clients -> Attempt]
  BY <1>t, FreshFields DEF Drop, TableTypeOK
<1>5. /\ a.failures = old[c].failures
      /\ Admits(entry) <=> now >= old[c].lockedUntil /\ ~old[c].inFlight
  BY <1>4, <1>t DEF Attempt, TableTypeOK, Admits
<1>6. /\ present' = (present \ gone) \cup {c}
      /\ att' = [old EXCEPT ![c] = a]
      /\ \/ /\ Admits(entry)
            /\ pc' = [pc EXCEPT ![h] = next] /\ key' = [key EXCEPT ![h] = c]
         \/ ~Admits(entry) /\ UNCHANGED <<pc, key>>
      /\ lastFail' = Drop(lastFail, gone, 0)
  BY <1>1
<1> HIDE DEF gone, old, entry, a
<1>g. PICK forgotten \in SUBSET Clients : forgotten = gone
  BY <1>2, <1>t DEF TableTypeOK
<1>7. Gate!Forgets(forgotten)
  <2>1. \A k \in Clients : att'[k].failures = old[k].failures
    BY <1>4, <1>5, <1>6
  <2>2. \A k \in Clients : att'[k].failures = IF k \in gone THEN 0 ELSE att[k].failures
    BY <1>3, <2>1, FreshFields
  <2> QED
    BY <1>2, <1>6, <1>g, <2>2, ForgetsThem
<1>8. CASE Admits(entry)
  <2>1. c \notin Checking
    <3>1. ~att[c].inFlight
      BY <1>2, <1>3, <1>5, <1>8, CheckedAreRemembered
    <3> QED
      BY <3>1, CheckedAreRemembered
  <2>2. Checking' = Checking \cup {c}
    <3>1. \A g \in Handlers : Busy(g)' <=> g = h \/ Busy(g)
      BY <1>t, <1>6, <1>8 DEF TableTypeOK, Busy
    <3>2. \A g \in Handlers : key'[g] = IF g = h THEN c ELSE key[g]
      BY <1>t, <1>6, <1>8 DEF TableTypeOK
    <3>3. \A k \in Clients : k \in Checking' <=> k = c \/ k \in Checking
      BY <1>t, <3>1, <3>2 DEF Checking
    <3>4. Checking' \subseteq Clients /\ Checking \subseteq Clients
      BY DEF Checking
    <3> QED
      BY <3>3, <3>4
  <2>3. c \in gone \/ now >= lastFail[c] + Gate!Lock(Failures[c])
    <3> SUFFICES ASSUME c \notin gone PROVE now >= lastFail[c] + Gate!Lock(Failures[c])
      OBVIOUS
    <3>1. now >= att[c].lockedUntil
      BY <1>3, <1>5, <1>8
    <3>2. Failures[c] = streak[c] /\ streak[c] \in Nat
      BY DEF LInv, FailuresCounted, Failures, TableTypeOK
    <3>3. CASE streak[c] >= Threshold
      BY <3>1, <3>2, <3>3, SameLock DEF LInv, LockMatches
    <3>4. CASE streak[c] < Threshold
      <4>1. Gate!Lock(streak[c]) = 0
        BY <3>2, <3>4, NoWaitBelow
      <4>2. now >= lastFail[c] /\ lastFail[c] \in Nat
        BY DEF LInv, PastOnly, TableTypeOK
      <4> QED
        BY <3>2, <4>1, <4>2
    <3> QED
      BY <3>2, <3>3, <3>4, LimiterConstants
  <2>4. Gate!Admit(c, forgotten)
    BY <1>t, <1>6, <1>7, <1>g, <2>1, <2>2, <2>3 DEF Gate!Admit
  <2> QED
    BY <2>4 DEF Gate!Next
<1>9. CASE ~Admits(entry)
  <2>1. c \in present /\ c \notin gone
    <3>1. old[c] # Fresh
      BY <1>5, <1>9, <1>t, FreshFields DEF TableTypeOK
    <3>2. c \notin gone /\ att[c] # Fresh
      BY <1>3, <3>1
    <3> QED
      BY <3>2 DEF LInv, AbsentIsFresh, Gone
  <2>2. present' = present \ gone
    BY <1>6, <2>1
  <2>3. UNCHANGED <<pc, key>>
    BY <1>6, <1>9
  <2>4. Checking' = Checking
    BY <2>3 DEF Checking, Busy
  <2>5. Gate!Forget(forgotten)
    BY <1>t, <1>7, <1>g, <2>2, <2>4 DEF Gate!Forget
  <2> QED
    BY <2>5 DEF Gate!Next
<1> QED
  BY <1>8, <1>9

\* A handler that ends takes its client, and no other, out of the checks.
LEMMA CheckEnds ==
    ASSUME LInv, NEW h \in Handlers, Busy(h),
           pc' = [pc EXCEPT ![h] = "idle"], UNCHANGED key
    PROVE  key[h] \in Checking /\ Checking' = Checking \ {key[h]}
<1>t. key[h] \in Clients /\ pc \in [Handlers -> {"idle", "slot", "hash", "verify"}]
  BY DEF LInv, TableTypeOK
<1>1. \A g \in Handlers : Busy(g)' <=> g # h /\ Busy(g)
  BY <1>t DEF Busy
<1>2. \A g \in Handlers : Busy(g) /\ key[g] = key[h] => g = h
  BY DEF LInv, SingleFlight
<1>3. key[h] \in Checking
  BY <1>t DEF Checking
<1>4. \A k \in Clients : k \in Checking' <=> k \in Checking /\ k # key[h]
  BY <1>1, <1>2 DEF Checking
<1>5. Checking' \subseteq Clients /\ Checking \subseteq Clients
  BY DEF Checking
<1> QED
  BY <1>3, <1>4, <1>5

LEMMA LimiterStep ==
    LInv /\ TableInv /\ [Next]_vars => [Gate!Next]_Gate!gateVars
<1> SUFFICES ASSUME LInv, TableInv, [Next]_vars PROVE [Gate!Next]_Gate!gateVars
  OBVIOUS
<1>t. TableTypeOK
  BY DEF LInv
<1>1. ASSUME NEW h \in Handlers, NEW c \in Clients, NEW next \in {"slot", "verify"},
             Begin(h, c, next)
      PROVE  Gate!Next
  BY <1>1, BeginIsVisit
<1>2. ASSUME NEW h \in Handlers, NEW c \in Clients, BeginFull(h, c) PROVE Gate!Next
  <2>1. /\ Stale \subseteq present \ Checking
        /\ Stale # {} => Cardinality(present) >= MaxEntries
    BY CheckedAreRemembered DEF Stale
  <2>2. PICK stale \in SUBSET Clients : stale = Stale
    BY <2>1, <1>t DEF TableTypeOK
  <2>3. /\ att' = Drop(att, Stale, Fresh) /\ lastFail' = Drop(lastFail, Stale, 0)
        /\ present' = present \ Stale /\ UNCHANGED <<now, pc, key>>
    BY <1>2 DEF BeginFull
  <2>4. \A k \in Clients : att'[k].failures = IF k \in Stale THEN 0 ELSE att[k].failures
    BY <2>3, FreshFields DEF Drop
  <2>5. Gate!Forgets(stale)
    BY <2>1, <2>2, <2>3, <2>4, ForgetsThem
  <2>6. Checking' = Checking
    BY <2>3 DEF Checking, Busy
  <2>7. Gate!Forget(stale)
    BY <2>2, <2>3, <2>5, <2>6 DEF Gate!Forget
  <2> QED
    BY <2>7 DEF Gate!Next
<1>3. ASSUME NEW h \in Handlers, TakeSlot(h) PROVE UNCHANGED Gate!gateVars
  <2>1. \A g \in Handlers : Busy(g)' <=> Busy(g)
    BY <1>3, <1>t DEF TakeSlot, TableTypeOK, Busy
  <2>2. UNCHANGED <<now, present, att, key, lastFail>>
    BY <1>3 DEF TakeSlot
  <2>3. Checking' = Checking /\ Failures' = Failures
    BY <2>1, <2>2 DEF Checking, Failures
  <2> QED
    BY <2>2, <2>3 DEF Gate!gateVars
<1>4. ASSUME NEW h \in Handlers, Abort(h) PROVE Gate!Next
  <2>1. PICK c \in Clients : c = key[h]
    BY <1>t DEF TableTypeOK
  <2>b. Busy(h)
    BY <1>4 DEF Abort, Busy
  <2>2. c \in Checking /\ Checking' = Checking \ {c}
    BY <1>4, <2>1, <2>b, CheckEnds DEF Abort
  <2>3. UNCHANGED <<now, lastFail>>
    BY <1>4 DEF Abort
  <2>4. \A k \in Clients : att'[k].failures = att[k].failures
    <3>1. CASE att[c].failures = 0
      <4>1. att' = [att EXCEPT ![c] = Fresh]
        BY <1>4, <2>1, <3>1 DEF Abort
      <4> QED
        BY <1>t, <3>1, <4>1, FreshFields DEF TableTypeOK
    <3>2. CASE att[c].failures # 0
      <4>1. att' = [att EXCEPT ![c].inFlight = FALSE, ![c].lastSeen = now]
        BY <1>4, <2>1, <3>2 DEF Abort
      <4> QED
        BY <1>t, <2>1, <4>1 DEF TableTypeOK, Attempt
    <3> QED
      BY <3>1, <3>2
  <2>5. Failures' = Failures
    BY <2>4 DEF Failures
  <2>6. present' = IF Failures[c] = 0 THEN present \ {c} ELSE present
    BY <1>4, <2>1 DEF Abort, Failures
  <2>7. Gate!GiveUp(c)
    BY <2>2, <2>3, <2>5, <2>6 DEF Gate!GiveUp
  <2> QED
    BY <2>7 DEF Gate!Next
<1>5. ASSUME NEW h \in Handlers, Finish(h, TRUE) PROVE Gate!Next
  <2>1. PICK c \in Clients : c = key[h]
    BY <1>t DEF TableTypeOK
  <2>b. Busy(h)
    BY <1>5 DEF Finish, Busy
  <2>2. c \in Checking /\ Checking' = Checking \ {c}
    BY <1>5, <2>1, <2>b, CheckEnds DEF Finish
  <2>3. /\ UNCHANGED now /\ present' = present \ {c}
        /\ att' = [att EXCEPT ![c] = Fresh] /\ lastFail' = [lastFail EXCEPT ![c] = 0]
    BY <1>5, <2>1 DEF Finish
  <2>4. Failures' = [k \in Clients |-> IF k \in {c} THEN 0 ELSE Failures[k]]
    BY <1>t, <2>3, FreshFields DEF TableTypeOK, Failures
  <2>5. lastFail' = [k \in Clients |-> IF k \in {c} THEN 0 ELSE lastFail[k]]
    BY <1>t, <2>3 DEF TableTypeOK
  <2>6. Gate!Right(c)
    BY <2>2, <2>3, <2>4, <2>5 DEF Gate!Right, Gate!Without
  <2> QED
    BY <2>6 DEF Gate!Next
<1>6. ASSUME NEW h \in Handlers, Finish(h, FALSE) PROVE Gate!Next
  <2>1. PICK c \in Clients : c = key[h]
    BY <1>t DEF TableTypeOK
  <2>b. Busy(h)
    BY <1>6 DEF Finish, Busy
  <2>2. c \in Checking /\ Checking' = Checking \ {c}
    BY <1>6, <2>1, <2>b, CheckEnds DEF Finish
  <2>3. /\ UNCHANGED now /\ present' = present
        /\ lastFail' = [lastFail EXCEPT ![c] = now]
        /\ \A k \in Clients :
             att'[k].failures = IF k = c THEN att[c].failures + 1 ELSE att[k].failures
    BY <1>6, <1>t, <2>1 DEF Finish, TableTypeOK
  <2>4. Failures' = [Failures EXCEPT ![c] = @ + 1]
    BY <2>1, <2>3 DEF Failures
  <2>5. Gate!Wrong(c)
    BY <2>2, <2>3, <2>4 DEF Gate!Wrong
  <2> QED
    BY <2>5 DEF Gate!Next
<1>7. CASE Tick
  <2>1. now' = now + 1 /\ UNCHANGED <<present, att, pc, key, lastFail>>
    BY <1>7 DEF Tick
  <2>2. Checking' = Checking /\ Failures' = Failures
    BY <2>1 DEF Checking, Failures, Busy
  <2> QED
    BY <2>1, <2>2 DEF Gate!Next, Gate!Advance
<1>8. CASE UNCHANGED vars
  BY <1>8 DEF vars, Gate!gateVars, Checking, Failures, Busy
<1> QED
  BY <1>1, <1>2, <1>3, <1>4, <1>5, <1>6, <1>7, <1>8 DEF Next

\* The table, the handlers that come back to it later, the slots, the eviction
\* and the aborts together keep the gate's rules.
THEOREM LimiterImplementsGate == Spec => ImplementsGate
<1>1. Init => Gate!Init
  <2> SUFFICES ASSUME Init PROVE Gate!Init
    OBVIOUS
  <2>1. Checking = {} /\ Failures = [c \in Clients |-> 0]
    BY FreshFields DEF Init, Checking, Failures, Busy
  <2> QED
    BY <2>1 DEF Init, Gate!Init
<1>2. Spec => []TableInv
  BY TableInit, TableNext, LimiterInductive, PTL DEF Spec
<1> QED
  BY <1>1, <1>2, LimiterStep, LimiterInductive, PTL DEF Spec, Gate!Spec, ImplementsGate

\* Whatever the interleaving, the remembered failures of a client took at least
\* as long as their locks add up to.
THEOREM GuessingIsSlow == Spec => []GuessesAreSlow
<1> QED
  BY LimiterImplementsGate, GateIsSlow, PTL DEF ImplementsGate
=============================================================================
