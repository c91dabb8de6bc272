---------------------------- MODULE GrantsProofs ----------------------------
(***************************************************************************)
(* Theorems about Grants, for every set of requests, every lifetime, every *)
(* grace period longer than a publish and any number of crashes.           *)
(***************************************************************************)
EXTENDS Grants, TLAPS

USE TagsDisjoint, TTLsPositive, BoundsNat, GraceCoversPublish

-----------------------------------------------------------------------------
(***************************************************************************)
(* Type correctness, one step per action.                                  *)
(***************************************************************************)
LEMMA InitTypeOK == Init => TypeOK
BY DEF Init, TypeOK, Foreign, AllTags, PcStates, DelStates, RecStates, Holders

LEMMA NextTypeOK == TypeOK /\ [Next]_vars => TypeOK'
<1> SUFFICES ASSUME TypeOK, [Next]_vars PROVE TypeOK'
  OBVIOUS
<1> USE DEF TypeOK, Foreign, AllTags, PcStates, DelStates, RecStates, Holders,
            clockVars, recVars
<1>1. ASSUME NEW t \in Tags, Grant(t) PROVE TypeOK'
  <2>1. CASE GrantStart(t)
    BY <2>1 DEF GrantStart, gcLocked, Expired
  <2>2. CASE GrantCancel(t)
    BY <2>2 DEF GrantCancel
  <2>3. CASE GrantLock(t)
    BY <2>3 DEF GrantLock
  <2>4. CASE Publish(t)
    BY <2>4 DEF Publish, PublishOk, PublishFail
  <2>5. CASE CommitOk(t)
    BY <2>5 DEF CommitOk
  <2>6. CASE CommitFail(t)
    BY <2>6 DEF CommitFail
  <2> QED
    BY <1>1, <2>1, <2>2, <2>3, <2>4, <2>5, <2>6 DEF Grant, Commit
<1>2. ASSUME NEW t \in Tags, Delete(t) PROVE TypeOK'
  BY <1>2 DEF Delete, DeleteLock, DeleteDone
<1>3. CASE Sweep \/ Ticker
  BY <1>3 DEF Sweep, Ticker, gcLocked, Expired
<1>4. CASE Reconcile
  <2>1. CASE RecSnapshot \/ RecClock \/ RecListOk \/ RecEnd \/ RecLock
    BY <2>1 DEF RecSnapshot, RecClock, RecListOk, RecEnd, RecLock, recReset
  <2>2. ASSUME NEW x \in AllTags, RecPick(x) \/ RecSkip(x) PROVE TypeOK'
    BY <2>2 DEF RecPick, RecSkip
  <2>3. ASSUME NEW removed \in BOOLEAN, RecDelete(removed) PROVE TypeOK'
    BY <2>3 DEF RecDelete
  <2> QED
    BY <1>4, <2>1, <2>2, <2>3 DEF Reconcile
<1>5. CASE Crash
  <2>1. reg' \subseteq AllTags
    BY <1>5 DEF Crash
  <2>2. pc' \in [Tags -> PcStates] /\ del' \in [Tags -> DelStates]
    BY <1>5 DEF Crash
  <2>5. up' \in BOOLEAN /\ byToken' \subseteq Tags
    BY <1>5 DEF Crash
  <2>6. crashes' \in Nat
    BY <1>5 DEF Crash
  <2>3. /\ now' \in Nat
        /\ file' \subseteq Tags
        /\ expires' \in [Tags -> Nat] /\ created' \in [AllTags -> Nat]
        /\ lock' \in Holders
    BY <1>5 DEF Crash
  <2>4. /\ recPc' \in RecStates /\ active' \subseteq Tags /\ recNow' \in Nat
        /\ todo' \subseteq AllTags /\ target' \subseteq AllTags
    BY <1>5 DEF Crash, recReset
  <2> QED
    BY <2>1, <2>2, <2>3, <2>4, <2>5, <2>6
<1>6. CASE Restart
  BY <1>6 DEF Restart
<1>8. CASE Tick
  BY <1>8 DEF Tick
<1>7. CASE UNCHANGED vars
  BY <1>7 DEF vars
<1> QED
  BY <1>1, <1>2, <1>3, <1>4, <1>5, <1>6, <1>7, <1>8 DEF Next

\* Every variable keeps its type.
THEOREM TypeCorrect == Spec => []TypeOK
<1> QED
  BY InitTypeOK, NextTypeOK, PTL DEF Spec

-----------------------------------------------------------------------------
(***************************************************************************)
(* The inductive invariant.  A tag is unsettled while its request is in    *)
(* handleGrant with an image pushed or being pushed, or while its grant is *)
(* live: nobody may delete it then.  The delete goroutines hold only dead  *)
(* tags.  The reconciliation pass works from an old snapshot: whatever it  *)
(* did not see as active and is unsettled now was created so late that the *)
(* grace period protects it.                                               *)
(***************************************************************************)
Unsettled(t) == pc[t] \in {"push", "commit"} \/ Live(t)

\* Only answered grants are stored anywhere.
StoredIssued == \A t \in Tags : t \in byToken \cup file => pc[t] = "issued"

\* Nothing runs while the process is down.
DownIsQuiet ==
    ~up => /\ byToken = {} /\ recPc = "idle"
           /\ \A t \in Tags : pc[t] \notin {"wait", "push", "commit"}

\* The registry holds a tag from the end of its push on.
PushedInReg ==
    \A t \in Tags : /\ pc[t] = "commit" \/ Live(t) => t \in reg
                    /\ pc[t] \in {"new", "wait", "push"} => t \notin reg

\* The delete goroutines hold only tags whose grant failed or expired.
DeletersHoldDead == \A t \in Tags : del[t] # "none" => Dead(t)

\* A started publish is young.
PublishIsYoung ==
    \A t \in Tags : pc[t] \in {"push", "commit"} =>
        created[t] <= now /\ now <= created[t] + MaxPublish

\* What the snapshot missed is protected by the grace period.
MissedIsProtected ==
    \A t \in Tags \ active : Unsettled(t) =>
        /\ recPc = "clock" => now < created[t] + Grace
        /\ recPc \in {"list", "scan", "lock", "delete"} => recNow < created[t] + Grace

RecNowPast == recNow <= now

\* The tag being reclaimed is one of ours, and settled.
TargetSettled ==
    recPc \in {"lock", "delete"} =>
        \E x \in Tags : /\ target = {x} /\ ~Unsettled(x)
                        /\ pc[x] \notin {"new", "wait"}

IInv ==
    /\ TypeOK /\ StoredIssued /\ DownIsQuiet /\ LiveGrantKept /\ PushedInReg
    /\ DeletersHoldDead /\ PublishIsYoung /\ MissedIsProtected /\ RecNowPast
    /\ TargetSettled /\ ForeignKept

LEMMA InitIInv == Init => IInv
<1> SUFFICES ASSUME Init PROVE IInv
  OBVIOUS
<1> QED
  BY InitTypeOK DEF Init, IInv, StoredIssued, DownIsQuiet, LiveGrantKept, PushedInReg,
     DeletersHoldDead, PublishIsYoung, MissedIsProtected, RecNowPast, TargetSettled,
     ForeignKept, Live, Unsettled, TypeOK, Foreign, AllTags

LEMMA NextIInv == IInv /\ [Next]_vars => IInv'
<1> SUFFICES ASSUME IInv, [Next]_vars PROVE IInv'
  OBVIOUS
<1>t. TypeOK /\ TypeOK'
  BY NextTypeOK DEF IInv
<1> USE <1>t DEF IInv, TypeOK, StoredIssued, DownIsQuiet, LiveGrantKept, PushedInReg,
     DeletersHoldDead, PublishIsYoung, MissedIsProtected, RecNowPast, TargetSettled,
     ForeignKept, Live, Dead, Unsettled, AllTags, Foreign, clockVars, recVars,
     PcStates, DelStates, RecStates, Holders
<1>1. ASSUME NEW t \in Tags, GrantStart(t) PROVE IInv'
  BY <1>1 DEF GrantStart, gcLocked, Expired
<1>2. ASSUME NEW t \in Tags, GrantCancel(t) PROVE IInv'
  BY <1>2 DEF GrantCancel
<1>3. ASSUME NEW t \in Tags, GrantLock(t) PROVE IInv'
  BY <1>3 DEF GrantLock
<1>4. ASSUME NEW t \in Tags, PublishOk(t) PROVE IInv'
  BY <1>4 DEF PublishOk
<1>5. ASSUME NEW t \in Tags, PublishFail(t) PROVE IInv'
  BY <1>5 DEF PublishFail
<1>6. ASSUME NEW t \in Tags, CommitOk(t) PROVE IInv'
  BY <1>6 DEF CommitOk
<1>7. ASSUME NEW t \in Tags, CommitFail(t) PROVE IInv'
  BY <1>7 DEF CommitFail
<1>8. ASSUME NEW t \in Tags, DeleteLock(t) PROVE IInv'
  BY <1>8 DEF DeleteLock
<1>9. ASSUME NEW t \in Tags, DeleteDone(t) PROVE IInv'
  BY <1>9 DEF DeleteDone
<1>10. CASE Sweep
  BY <1>10 DEF Sweep, gcLocked, Expired
<1>11. CASE Ticker
  BY <1>11 DEF Ticker, gcLocked, Expired
<1>12. CASE RecSnapshot
  BY <1>12 DEF RecSnapshot
<1>13. CASE RecClock
  BY <1>13 DEF RecClock
<1>14. CASE RecListOk
  BY <1>14 DEF RecListOk
<1>15. CASE RecEnd
  BY <1>15 DEF RecEnd, recReset
<1>16. CASE RecLock
  BY <1>16 DEF RecLock
<1>17. CASE Crash
  BY <1>17 DEF Crash, recReset
<1>18. CASE Restart
  BY <1>18 DEF Restart
<1>19. CASE Tick
  BY <1>19 DEF Tick
<1>20. CASE UNCHANGED vars
  BY <1>20 DEF vars
<1>21. ASSUME NEW x \in AllTags, RecPick(x) PROVE IInv'
  BY <1>21 DEF RecPick, Orphan, Label
<1>22. ASSUME NEW x \in AllTags, RecSkip(x) PROVE IInv'
  BY <1>22 DEF RecSkip
<1>23. ASSUME NEW removed \in BOOLEAN, RecDelete(removed) PROVE IInv'
  BY <1>23 DEF RecDelete
<1> QED
  BY <1>1, <1>2, <1>3, <1>4, <1>5, <1>6, <1>7, <1>8, <1>9, <1>10, <1>11, <1>12, <1>13, <1>14, <1>15, <1>16, <1>17, <1>18, <1>19, <1>20, <1>21, <1>22, <1>23
     DEF Next, Grant, Publish, Commit, Delete, Reconcile

THEOREM Inductive == Spec => []IInv
<1> QED
  BY InitIInv, NextIInv, PTL DEF Spec

\* The image of an answered grant stays in the registry until it expires.
THEOREM ImageServedUntilExpiry == Spec => []LiveImageServed
<1>1. IInv => LiveImageServed
  BY DEF IInv, PushedInReg, LiveImageServed
<1> QED
  BY <1>1, Inductive, PTL

\* An answered grant is never lost before it expires: not from the file, and
\* not from the memory of a running process.
THEOREM GrantKeptUntilExpiry == Spec => []LiveGrantKept
<1>1. IInv => LiveGrantKept
  BY DEF IInv
<1> QED
  BY <1>1, Inductive, PTL

\* A refused or lost request is stored nowhere.
THEOREM RefusedStoredNowhere == Spec => []RefusedHoldsNothing
<1>1. IInv => RefusedHoldsNothing
  BY DEF IInv, StoredIssued, RefusedHoldsNothing
<1> QED
  BY <1>1, Inductive, PTL

\* Tags of other origin are never deleted.
THEOREM ForeignNeverDeleted == Spec => []ForeignKept
<1>1. IInv => ForeignKept
  BY DEF IInv
<1> QED
  BY <1>1, Inductive, PTL

\* A grant that expired and was swept is never accepted again.
THEOREM NoResurrection == Spec => ExpiredStaysOut
<1> DEFINE StaysOut ==
      \A t \in Tags :
        pc[t] = "issued" /\ expires[t] < now /\ t \notin byToken => t \notin byToken'
<1>1. TypeOK /\ [Next]_vars => [StaysOut]_vars
  <2> SUFFICES ASSUME TypeOK, Next PROVE StaysOut
    OBVIOUS
  <2> USE DEF TypeOK, clockVars, recVars
  <2>1. ASSUME NEW t \in Tags, Grant(t) PROVE StaysOut
    BY <2>1 DEF Grant, GrantStart, GrantCancel, GrantLock, Publish, PublishOk,
       PublishFail, Commit, CommitOk, CommitFail, gcLocked
  <2>2. ASSUME NEW t \in Tags, Delete(t) PROVE StaysOut
    BY <2>2 DEF Delete, DeleteLock, DeleteDone
  <2>3. CASE Sweep \/ Ticker
    BY <2>3 DEF Sweep, Ticker, gcLocked
  <2>4. CASE Reconcile
    BY <2>4 DEF Reconcile, RecSnapshot, RecClock, RecListOk, RecEnd, RecLock, RecPick,
       RecSkip, RecDelete
  <2>5. CASE Restart
    BY <2>5 DEF Restart
  <2>6. CASE Crash \/ Tick
    BY <2>6 DEF Crash, Tick
  <2> QED
    BY <2>1, <2>2, <2>3, <2>4, <2>5, <2>6 DEF Next
<1> QED
  BY <1>1, TypeCorrect, PTL DEF Spec, ExpiredStaysOut

-----------------------------------------------------------------------------
(***************************************************************************)
(* Refinement: every step is a step of the ledger or leaves it unchanged.  *)
(***************************************************************************)
State == [t \in Tags |-> Answer(t)]
Open == {t \in byToken : now < expires[t]}
Images == {t \in reg \cap Tags : pc[t] = "issued"}
ledgerView == <<now, up, State, expires, Open, Images>>

LEMMA LedgerInit == Init => Ledger!Init
BY DEF Init, Ledger!Init, Answer, Foreign, AllTags

\* Steps the client does not see.
Hidden == UNCHANGED ledgerView

LEMMA LedgerNext == IInv /\ IInv' /\ [Next]_vars => [Ledger!Next]_(Ledger!ledgerVars)
<1> SUFFICES ASSUME IInv, IInv', [Next]_vars PROVE Ledger!Next \/ Hidden
  BY DEF Hidden, ledgerView, State, Open, Images, Ledger!ledgerVars
<1> USE DEF IInv, TypeOK, Hidden, ledgerView, State, Open, Images, Answer,
     clockVars, recVars, PcStates, AllTags, Foreign
<1>1. ASSUME NEW t \in Tags, GrantStart(t) PROVE Ledger!Next \/ Hidden
  <2>1. PICK next \in {"wait", "refused"} : pc' = [pc EXCEPT ![t] = next]
    BY <1>1 DEF GrantStart
  <2>2. Open' = Open /\ Images' = Images
    BY <1>1, <2>1 DEF GrantStart, gcLocked, Expired
  <2>3. State' = [State EXCEPT ![t] = IF next = "wait" THEN "pending" ELSE "refused"]
    BY <1>1, <2>1 DEF GrantStart
  <2>4. up /\ State[t] = "unasked" /\ UNCHANGED <<now, up, expires>>
    BY <1>1 DEF GrantStart
  <2>5. Ledger!Request(t) \/ Ledger!Refuse(t)
    BY ONLY <2>2, <2>3, <2>4 DEF State, Open, Images, Ledger!Request, Ledger!Refuse
  <2> QED
    BY <2>5 DEF Ledger!Next
<1>2. ASSUME NEW t \in Tags, GrantCancel(t) PROVE Ledger!Next \/ Hidden
  <2>1. Ledger!Refuse(t)
    BY <1>2 DEF GrantCancel, Ledger!Refuse, DownIsQuiet, PushedInReg, StoredIssued
  <2> QED
    BY <2>1 DEF Ledger!Next
<1>3. ASSUME NEW t \in Tags, PublishFail(t) PROVE Ledger!Next \/ Hidden
  <2>1. Ledger!Refuse(t)
    BY <1>3 DEF PublishFail, Ledger!Refuse, DownIsQuiet, PushedInReg, StoredIssued
  <2> QED
    BY <2>1 DEF Ledger!Next
<1>4. ASSUME NEW t \in Tags, CommitOk(t) PROVE Ledger!Next \/ Hidden
  <2>1. PICK ttl \in TTLs : expires' = [expires EXCEPT ![t] = now + ttl]
    BY <1>4 DEF CommitOk
  <2>2. ttl \in Nat /\ ttl > 0 /\ t \notin byToken
    BY <1>4, <2>1 DEF CommitOk, StoredIssued
  <2>3. Open' = Open \cup {t}
    BY <1>4, <2>1, <2>2 DEF CommitOk
  <2>4. Images' = Images \cup {t}
    BY <1>4 DEF CommitOk, PushedInReg
  <2>5. State' = [State EXCEPT ![t] = "granted"]
    BY <1>4 DEF CommitOk
  <2>6. up /\ State[t] = "pending" /\ UNCHANGED <<now, up>>
    BY <1>4 DEF CommitOk, DownIsQuiet
  <2>7. Ledger!Issue(t)
    BY <2>1, <2>3, <2>4, <2>5, <2>6 DEF Ledger!Issue
  <2> QED
    BY <2>7 DEF Ledger!Next
<1>5. ASSUME NEW t \in Tags, CommitFail(t) PROVE Ledger!Next \/ Hidden
  <2>1. Ledger!Refuse(t)
    BY <1>5 DEF CommitFail, Ledger!Refuse, DownIsQuiet, PushedInReg, StoredIssued
  <2> QED
    BY <2>1 DEF Ledger!Next
<1>6. ASSUME NEW t \in Tags, GrantLock(t) PROVE Hidden
  BY <1>6 DEF GrantLock
<1>7. ASSUME NEW t \in Tags, PublishOk(t) PROVE Hidden
  BY <1>7 DEF PublishOk
<1>8. ASSUME NEW t \in Tags, DeleteLock(t) PROVE Hidden
  BY <1>8 DEF DeleteLock
<1>9. ASSUME NEW t \in Tags, DeleteDone(t) PROVE Ledger!Next \/ Hidden
  <2>1. Hidden \/ Ledger!Withdraw(t)
    BY <1>9 DEF DeleteDone, DeletersHoldDead, Dead, Ledger!Withdraw
  <2> QED
    BY <2>1 DEF Ledger!Next
<1>10. CASE Sweep \/ Ticker
  BY <1>10 DEF Sweep, Ticker, gcLocked, Expired
<1>11. CASE RecSnapshot \/ RecClock \/ RecListOk \/ RecEnd \/ RecLock
  BY <1>11 DEF RecSnapshot, RecClock, RecListOk, RecEnd, RecLock
<1>12. ASSUME NEW x \in AllTags, RecPick(x) \/ RecSkip(x) PROVE Hidden
  BY <1>12 DEF RecPick, RecSkip
<1>13. ASSUME NEW removed \in BOOLEAN, RecDelete(removed) PROVE Ledger!Next \/ Hidden
  <2>1. PICK x \in Tags : target = {x} /\ ~Unsettled(x)
    BY <1>13 DEF RecDelete, TargetSettled
  <2>2. Hidden \/ Ledger!Withdraw(x)
    BY <1>13, <2>1 DEF RecDelete, Unsettled, Live, Ledger!Withdraw
  <2> QED
    BY <2>2 DEF Ledger!Next
<1>14. CASE Crash
  <2>1. Ledger!Outage
    BY <1>14 DEF Crash, Ledger!Outage
  <2> QED
    BY <2>1 DEF Ledger!Next
<1>15. CASE Restart
  <2>1. Ledger!Recover
    BY <1>15 DEF Restart, Ledger!Recover, Ledger!Current, LiveGrantKept, StoredIssued, Live
  <2> QED
    BY <2>1 DEF Ledger!Next
<1>16. CASE Tick
  <2>1. Ledger!Advance
    BY <1>16 DEF Tick, Ledger!Advance
  <2> QED
    BY <2>1 DEF Ledger!Next
<1>17. CASE UNCHANGED vars
  BY <1>17 DEF vars
<1> QED
  BY <1>1, <1>2, <1>3, <1>4, <1>5, <1>6, <1>7, <1>8, <1>9, <1>10, <1>11, <1>12, <1>13, <1>14, <1>15, <1>16, <1>17
     DEF Next, Grant, Publish, Commit, Delete, Reconcile

\* The component implements the ledger: a client never sees the sweeps, the
\* saves, the deletes, the reconciliation passes or the crashes between them.
THEOREM GrantsImplementLedger == Spec => ImplementsLedger
<1> QED
  BY LedgerInit, LedgerNext, Inductive, PTL DEF Spec, Ledger!Spec, ImplementsLedger

-----------------------------------------------------------------------------
(***************************************************************************)
(* What the ledger is worth to a client: proved of the ledger, and so of   *)
(* what implements it.                                                     *)
(***************************************************************************)
LEMMA LedgerTypeCorrect == Ledger!Spec => []Ledger!LedgerTypeOK
<1>1. Ledger!Init => Ledger!LedgerTypeOK
  BY DEF Ledger!Init, Ledger!LedgerTypeOK
<1>2. Ledger!LedgerTypeOK /\ [Ledger!Next]_(Ledger!ledgerVars) => Ledger!LedgerTypeOK'
  <2> SUFFICES ASSUME Ledger!LedgerTypeOK, [Ledger!Next]_(Ledger!ledgerVars)
               PROVE  Ledger!LedgerTypeOK'
    OBVIOUS
  <2> USE DEF Ledger!LedgerTypeOK
  <2>1. ASSUME NEW t \in Tags,
               Ledger!Request(t) \/ Ledger!Refuse(t) \/ Ledger!Issue(t) \/ Ledger!Withdraw(t)
        PROVE  Ledger!LedgerTypeOK'
    <3>1. \E a \in {"pending", "granted", "refused"} : State' \in {State, [State EXCEPT ![t] = a]}
      BY <2>1 DEF Ledger!Request, Ledger!Refuse, Ledger!Issue, Ledger!Withdraw, State
    <3>2. State \in [Tags -> {"unasked", "pending", "granted", "refused"}]
      BY DEF State
    <3>3. State' \in [Tags -> {"unasked", "pending", "granted", "refused"}]
      BY ONLY <3>1, <3>2
    <3>4. /\ expires' \in [Tags -> Nat] /\ now' \in Nat /\ up' \in BOOLEAN
          /\ Open' \subseteq Tags /\ Images' \subseteq Tags
      BY <2>1, TTLsPositive
         DEF Ledger!Request, Ledger!Refuse, Ledger!Issue, Ledger!Withdraw, Open, Images
    <3> QED
      BY <3>3, <3>4 DEF State, Open, Images
  <2>2. CASE Ledger!Advance
    BY <2>2 DEF Ledger!Advance
  <2>3. CASE Ledger!Outage \/ Ledger!Recover
    BY <2>3 DEF Ledger!Outage, Ledger!Recover, Ledger!Current
  <2>4. CASE UNCHANGED Ledger!ledgerVars
    BY <2>4 DEF Ledger!ledgerVars
  <2> QED
    BY <2>1, <2>2, <2>3, <2>4 DEF Ledger!Next
<1> QED
  BY <1>1, <1>2, PTL DEF Ledger!Spec

LEMMA LedgerAccepts == Ledger!Spec => []Ledger!AcceptedIsCurrent
<1>1. Ledger!Init => Ledger!AcceptedIsCurrent
  BY DEF Ledger!Init, Ledger!AcceptedIsCurrent, Ledger!Current
<1>2. /\ Ledger!LedgerTypeOK /\ Ledger!AcceptedIsCurrent
      /\ [Ledger!Next]_(Ledger!ledgerVars)
      => Ledger!AcceptedIsCurrent'
  <2> SUFFICES ASSUME Ledger!LedgerTypeOK, Ledger!AcceptedIsCurrent,
                      [Ledger!Next]_(Ledger!ledgerVars)
               PROVE  Ledger!AcceptedIsCurrent'
    OBVIOUS
  <2> USE DEF Ledger!LedgerTypeOK, Ledger!AcceptedIsCurrent, Ledger!Current
  <2>1. ASSUME NEW t \in Tags, Ledger!Request(t) \/ Ledger!Refuse(t)
        PROVE  Ledger!AcceptedIsCurrent'
    <3>1. /\ \E a \in {"pending", "refused"} : State' = [State EXCEPT ![t] = a]
          /\ State[t] # "granted"
          /\ now' = now /\ up' = up /\ expires' = expires /\ Open' = Open /\ Images' = Images
      BY <2>1 DEF Ledger!Request, Ledger!Refuse, State, Open, Images
    <3>2. State \in [Tags -> {"unasked", "pending", "granted", "refused"}]
      BY DEF State
    <3>3. \A u \in Tags : State'[u] = "granted" <=> State[u] = "granted"
      BY ONLY <3>1, <3>2
    <3>4. Ledger!Current' = Ledger!Current
      BY <3>1, <3>3 DEF State
    <3> QED
      BY <3>1, <3>4 DEF Open, Images
  <2>2. ASSUME NEW t \in Tags, Ledger!Issue(t) PROVE Ledger!AcceptedIsCurrent'
    <3>1. /\ State' = [State EXCEPT ![t] = "granted"] /\ up' = up /\ now' = now /\ up
          /\ \E ttl \in TTLs : expires' = [expires EXCEPT ![t] = now + ttl]
          /\ Open' = Open \cup {t} /\ Images' = Images \cup {t}
      BY <2>2 DEF Ledger!Issue, State, Open, Images
    <3>2. State \in [Tags -> {"unasked", "pending", "granted", "refused"}]
      BY DEF State
    <3>3. \A u \in Tags : State'[u] = IF u = t THEN "granted" ELSE State[u]
      BY ONLY <3>1, <3>2
    <3>4. \A u \in Tags : (State'[u] = "granted" /\ now' < expires'[u])
                             <=> u = t \/ (State[u] = "granted" /\ now < expires[u])
      BY <3>1, <3>3, TTLsPositive
    <3>5. Ledger!Current' = Ledger!Current \cup {t}
      BY <3>4 DEF State
    <3> QED
      BY <3>1, <3>5 DEF Open, Images
  <2>3. ASSUME NEW t \in Tags, Ledger!Withdraw(t) PROVE Ledger!AcceptedIsCurrent'
    BY <2>3 DEF Ledger!Withdraw
  <2>4. CASE Ledger!Advance
    BY <2>4 DEF Ledger!Advance
  <2>5. CASE Ledger!Outage \/ Ledger!Recover
    BY <2>5 DEF Ledger!Outage, Ledger!Recover
  <2>6. CASE UNCHANGED Ledger!ledgerVars
    BY <2>6 DEF Ledger!ledgerVars
  <2> QED
    BY <2>1, <2>2, <2>3, <2>4, <2>5, <2>6 DEF Ledger!Next
<1> QED
  BY <1>1, <1>2, LedgerTypeCorrect, PTL DEF Ledger!Spec

\* A running service accepts exactly the unexpired granted tokens, and what it
\* accepts can be pulled, whatever sweeps, saves, deletes and passes are under way.
THEOREM GrantsAcceptCurrent == Spec => []Ledger!AcceptedIsCurrent
<1> QED
  BY GrantsImplementLedger, LedgerAccepts, PTL DEF ImplementsLedger

-----------------------------------------------------------------------------
(***************************************************************************)
(* Grants implements the lock of RegistryLock.  A user is a pair of an     *)
(* operation and a tag.  Nobody or exactly one user is inside, and the     *)
(* lock is then held for that user's operation; and a tag with a delete    *)
(* goroutine has left memory, so that no sweep spawns a second one for a   *)
(* tag whose first is already inside.                                      *)
(***************************************************************************)
Operations == {"grant", "delete", "reconcile"}
Users == Operations \X AllTags
Waiting == Under("wait", "wait", "lock")
Inside == Under("push", "hold", "delete")

SweptIsOut == \A t \in Tags : del[t] # "none" => t \notin byToken

LockMatches ==
    \/ Inside = {} /\ lock = "none"
    \/ \E r \in Operations, x \in AllTags : Inside = {<<r, x>>} /\ lock = r

LEMMA SweptInit == Init => SweptIsOut
BY DEF Init, SweptIsOut

LEMMA SweptNext == IInv /\ SweptIsOut /\ [Next]_vars => SweptIsOut'
<1> SUFFICES ASSUME IInv, SweptIsOut, [Next]_vars PROVE SweptIsOut'
  OBVIOUS
<1>1. TypeOK /\ StoredIssued /\ DeletersHoldDead
  BY DEF IInv
<1> USE <1>1 DEF TypeOK, SweptIsOut
<1>2. ASSUME gcLocked PROVE SweptIsOut'
  BY <1>2 DEF gcLocked, Expired
<1>3. ASSUME del' = del, byToken' = byToken PROVE SweptIsOut'
  BY <1>3
<1>4. ASSUME NEW t \in Tags, Grant(t) PROVE SweptIsOut'
  <2>1. CASE GrantStart(t)
    BY <1>2, <2>1 DEF GrantStart
  <2>2. CASE CommitOk(t)
    BY <2>2 DEF CommitOk, DeletersHoldDead, Dead
  <2>3. CASE CommitFail(t)
    BY <2>3 DEF CommitFail, StoredIssued
  <2> QED
    BY <1>3, <1>4, <2>1, <2>2, <2>3
    DEF Grant, Commit, Publish, GrantCancel, GrantLock, PublishOk, PublishFail
<1>5. ASSUME NEW t \in Tags, Delete(t) PROVE SweptIsOut'
  BY <1>5 DEF Delete, DeleteLock, DeleteDone
<1>6. CASE Sweep \/ Ticker
  BY <1>2, <1>6 DEF Sweep, Ticker
<1>7. CASE Reconcile
  BY <1>3, <1>7 DEF Reconcile, RecSnapshot, RecClock, RecListOk, RecEnd, RecLock,
     RecPick, RecSkip, RecDelete
<1>8. CASE Crash
  BY <1>8 DEF Crash
<1>9. CASE Restart
  BY <1>9 DEF Restart, DeletersHoldDead, Dead, StoredIssued
<1>10. CASE Tick \/ UNCHANGED vars
  BY <1>3, <1>10 DEF Tick, vars
<1> QED
  BY <1>4, <1>5, <1>6, <1>7, <1>8, <1>9, <1>10 DEF Next

-----------------------------------------------------------------------------
\* A user is an operation and a tag.
LEMMA UsersArePairs == \A u \in Users : \E r \in Operations, x \in AllTags : u = <<r, x>>
BY DEF Users

\* Who is waiting and who is inside, user by user.
LEMMA UsersAre ==
    ASSUME TypeOK
    PROVE  /\ Waiting \in SUBSET Users /\ Inside \in SUBSET Users
           /\ \A x \in AllTags :
                /\ <<"grant", x>> \in Waiting <=> x \in Tags /\ pc[x] = "wait"
                /\ <<"delete", x>> \in Waiting <=> x \in Tags /\ del[x] = "wait"
                /\ <<"reconcile", x>> \in Waiting <=> x \in target /\ recPc = "lock"
                /\ <<"grant", x>> \in Inside <=> x \in Tags /\ pc[x] = "push"
                /\ <<"delete", x>> \in Inside <=> x \in Tags /\ del[x] = "hold"
                /\ <<"reconcile", x>> \in Inside <=> x \in target /\ recPc = "delete"
BY DEF TypeOK, Waiting, Inside, Under, Users, Operations, AllTags

LEMMA UsersWillBe ==
    ASSUME TypeOK'
    PROVE  /\ Waiting' \in SUBSET Users /\ Inside' \in SUBSET Users
           /\ \A x \in AllTags :
                /\ <<"grant", x>> \in Waiting' <=> x \in Tags /\ pc'[x] = "wait"
                /\ <<"delete", x>> \in Waiting' <=> x \in Tags /\ del'[x] = "wait"
                /\ <<"reconcile", x>> \in Waiting' <=> x \in target' /\ recPc' = "lock"
                /\ <<"grant", x>> \in Inside' <=> x \in Tags /\ pc'[x] = "push"
                /\ <<"delete", x>> \in Inside' <=> x \in Tags /\ del'[x] = "hold"
                /\ <<"reconcile", x>> \in Inside' <=> x \in target' /\ recPc' = "delete"
BY DEF TypeOK, Waiting, Inside, Under, Users, Operations, AllTags

\* The steps of the abstract lock keep LockMatches, when whoever enters takes the
\* lock for its operation.
LEMMA LockSteps ==
    ASSUME LockMatches, Waiting \in SUBSET Users, Inside \in SUBSET Users,
           \/ Waiting' = Waiting /\ Inside' = Inside /\ lock' = lock
           \/ \E users \in SUBSET Users :
                /\ Waiting' = Waiting \cup users /\ users \cap Inside = {}
                /\ Inside' = Inside /\ lock' = lock
           \/ \E r \in Operations, x \in AllTags :
                /\ <<r, x>> \in Waiting /\ lock = "none" /\ lock' = r
                /\ Waiting' = Waiting \ {<<r, x>>} /\ Inside' = Inside \cup {<<r, x>>}
           \/ \E u \in Users :
                /\ u \in Inside /\ lock' = "none"
                /\ Waiting' = Waiting /\ Inside' = Inside \ {u}
           \/ \E users \in SUBSET Users :
                /\ Waiting' = Waiting \ users /\ users \cap Inside = {}
                /\ Inside' = Inside /\ lock' = lock
           \/ Waiting' = {} /\ Inside' = {} /\ lock' = "none"
    PROVE  LockMatches' /\ [FileLock!Next]_(FileLock!lockVars)
<1> USE DEF LockMatches, FileLock!Next
<1>v. /\ Waiting = Under("wait", "wait", "lock") /\ Inside = Under("push", "hold", "delete")
      /\ Waiting' = Under("wait", "wait", "lock")' /\ Inside' = Under("push", "hold", "delete")'
      /\ Users = {"grant", "delete", "reconcile"} \X AllTags
  BY DEF Waiting, Inside, Users, Operations
<1>1. CASE Waiting' = Waiting /\ Inside' = Inside /\ lock' = lock
  BY <1>1, <1>v DEF FileLock!lockVars
<1>2. ASSUME NEW users \in SUBSET Users,
             Waiting' = Waiting \cup users, users \cap Inside = {},
             Inside' = Inside, lock' = lock
      PROVE  LockMatches' /\ [FileLock!Next]_(FileLock!lockVars)
  <2>1. FileLock!Ask(users)
    BY <1>2, <1>v DEF FileLock!Ask
  <2> QED
    BY <1>2, <1>v, <2>1
<1>3. ASSUME NEW r \in Operations, NEW x \in AllTags,
             <<r, x>> \in Waiting, lock = "none", lock' = r,
             Waiting' = Waiting \ {<<r, x>>}, Inside' = Inside \cup {<<r, x>>}
      PROVE  LockMatches' /\ [FileLock!Next]_(FileLock!lockVars)
  <2>1. Inside = {} /\ <<r, x>> \in Users
    BY <1>3 DEF Operations, Users
  <2>2. r # "none"
    BY DEF Operations
  <2>3. FileLock!Enter(<<r, x>>)
    BY <1>3, <1>v, <2>2 DEF FileLock!Enter
  <2> QED
    BY <1>3, <1>v, <2>1, <2>3
<1>4. ASSUME NEW u \in Users, u \in Inside, lock' = "none",
             Waiting' = Waiting, Inside' = Inside \ {u}
      PROVE  LockMatches' /\ [FileLock!Next]_(FileLock!lockVars)
  <2>1. Inside' = {}
    BY <1>4
  <2>2. FileLock!Leave(u)
    BY <1>4, <1>v DEF FileLock!Leave
  <2> QED
    BY <1>4, <1>v, <2>1, <2>2
<1>5. ASSUME NEW users \in SUBSET Users,
             Waiting' = Waiting \ users, users \cap Inside = {},
             Inside' = Inside, lock' = lock
      PROVE  LockMatches' /\ [FileLock!Next]_(FileLock!lockVars)
  <2>1. FileLock!Withdraw(users)
    BY <1>5, <1>v DEF FileLock!Withdraw
  <2> QED
    BY <1>5, <1>v, <2>1
<1>6. CASE Waiting' = {} /\ Inside' = {} /\ lock' = "none"
  <2>1. lock = "none" \/ Inside \cap Users # {}
    BY DEF Users
  <2>2. FileLock!Withdraw(Users)
    BY <1>6, <1>v, <2>1 DEF FileLock!Withdraw
  <2>3. Users \in SUBSET Users
    OBVIOUS
  <2> QED
    BY <1>6, <1>v, <2>2, <2>3
<1> QED
  BY <1>1, <1>2, <1>3, <1>4, <1>5, <1>6

-----------------------------------------------------------------------------
LEMMA LockInit == Init => LockMatches /\ FileLock!Init
<1> SUFFICES ASSUME Init PROVE LockMatches /\ FileLock!Init
  OBVIOUS
<1>1. Waiting = {} /\ Inside = {}
  BY DEF Init, Waiting, Inside, Under
<1> QED
  BY <1>1 DEF Init, LockMatches, FileLock!Init, Waiting, Inside

\* Every action asks, enters, leaves or withdraws.
LEMMA LockNext ==
    ASSUME IInv, TypeOK', SweptIsOut, LockMatches, [Next]_vars
    PROVE  LockMatches' /\ [FileLock!Next]_(FileLock!lockVars)
<1>1. TypeOK /\ DeletersHoldDead /\ TargetSettled
  BY DEF IInv
<1>2. /\ Waiting \in SUBSET Users /\ Inside \in SUBSET Users
      /\ Waiting' \in SUBSET Users /\ Inside' \in SUBSET Users
      /\ Tags \subseteq AllTags
  BY <1>1, UsersAre, UsersWillBe DEF AllTags
<1>u. \A u \in Users : \E r \in Operations, x \in AllTags : u = <<r, x>>
  BY UsersArePairs
<1> USE DEF Operations
\* A sweep asks for a delete of each dropped grant, with one request perhaps.
<1>3. ASSUME gcLocked, UNCHANGED <<lock, recVars>>, NEW T \in SUBSET Tags,
             \A t \in T : pc[t] = "new" /\ pc'[t] = "wait",
             \A t \in Tags \ T : pc'[t] = pc[t] \/ {pc[t], pc'[t]} = {"new", "refused"}
      PROVE  LockMatches' /\ [FileLock!Next]_(FileLock!lockVars)
  <2> DEFINE asking == ({"delete"} \X Expired) \cup ({"grant"} \X T)
  <2>1. Expired \subseteq Tags /\ \A t \in Expired : del[t] = "none"
    BY <1>1 DEF Expired, SweptIsOut, TypeOK
  <2>2. asking \in SUBSET Users
    BY <1>2, <2>1 DEF Users
  <2>3. asking \cap Inside = {}
    <3>1. \A x \in Expired : <<"delete", x>> \notin Inside
      BY <1>1, <1>2, <2>1, UsersAre
    <3>2. \A t \in T : <<"grant", t>> \notin Inside
      BY <1>1, <1>2, <1>3, UsersAre
    <3> QED
      BY <3>1, <3>2
  <2>4. Waiting' = Waiting \cup asking
    <3>1. \A x \in Tags : /\ del'[x] = "wait" <=> del[x] = "wait" \/ x \in Expired
                          /\ pc'[x] = "wait" <=> pc[x] = "wait" \/ x \in T
      BY <1>3, <2>1 DEF gcLocked
    <3>2. recPc' = recPc /\ target' = target
      BY <1>3 DEF recVars
    <3>3. \A x \in AllTags :
            /\ <<"grant", x>> \in asking <=> x \in T
            /\ <<"delete", x>> \in asking <=> x \in Expired
            /\ <<"reconcile", x>> \notin asking
      OBVIOUS
    <3> HIDE DEF asking
    <3>4. \A r \in Operations, x \in AllTags :
            <<r, x>> \in Waiting' <=> <<r, x>> \in Waiting \/ <<r, x>> \in asking
      BY <1>1, <2>1, <3>1, <3>2, <3>3, UsersAre, UsersWillBe
    <3>5. \A u \in Users : u \in Waiting' <=> u \in Waiting \cup asking
      BY <3>4, <1>u
    <3> QED
      BY <1>2, <2>2, <3>5
  <2>5. Inside' = Inside
    <3>1. \A x \in Tags : /\ del'[x] = "hold" <=> del[x] = "hold"
                          /\ pc'[x] = "push" <=> pc[x] = "push"
      BY <1>3, <2>1 DEF gcLocked
    <3>2. recPc' = recPc /\ target' = target
      BY <1>3 DEF recVars
    <3>3. \A r \in Operations, x \in AllTags : <<r, x>> \in Inside' <=> <<r, x>> \in Inside
      BY <1>1, <3>1, <3>2, UsersAre, UsersWillBe
    <3>4. \A u \in Users : u \in Inside' <=> u \in Inside
      BY <3>3, <1>u
    <3> QED
      BY <1>2, <3>4
  <2> HIDE DEF asking
  <2> QED
    BY <1>2, <1>3, <2>2, <2>3, <2>4, <2>5, LockSteps
\* A step that leaves every user where it is.
<1>4. ASSUME UNCHANGED <<lock, del>>,
             \A t \in Tags : \/ pc'[t] = pc[t]
                             \/ {pc[t], pc'[t]} \cap {"wait", "push"} = {},
             \/ UNCHANGED <<recPc, target>>
             \/ {recPc, recPc'} \cap {"lock", "delete"} = {}
      PROVE  LockMatches' /\ [FileLock!Next]_(FileLock!lockVars)
  <2>1. ASSUME NEW r \in Operations, NEW x \in AllTags
        PROVE  /\ <<r, x>> \in Waiting' <=> <<r, x>> \in Waiting
               /\ <<r, x>> \in Inside' <=> <<r, x>> \in Inside
    BY <1>1, <1>4, UsersAre, UsersWillBe
  <2>2. \A u \in Users : (u \in Waiting' <=> u \in Waiting) /\ (u \in Inside' <=> u \in Inside)
    BY <2>1, <1>u
  <2>3. Waiting' = Waiting /\ Inside' = Inside
    BY <1>2, <2>2
  <2> QED
    BY <1>2, <1>4, <2>3, LockSteps
\* One user asks ...
<1>5. ASSUME NEW r \in Operations, NEW x \in AllTags, <<r, x>> \notin Inside, lock' = lock,
             \A s \in Operations, y \in AllTags :
                /\ <<s, y>> \in Waiting' <=> <<s, y>> \in Waiting \/ <<s, y>> = <<r, x>>
                /\ <<s, y>> \in Inside' <=> <<s, y>> \in Inside
      PROVE  LockMatches' /\ [FileLock!Next]_(FileLock!lockVars)
  <2>0. \A u \in Users : u \in Inside' <=> u \in Inside
    BY <1>5, <1>u
  <2>1. Inside' = Inside
    BY <1>2, <2>0
  <2>2. {<<r, x>>} \in SUBSET Users
    BY DEF Users
  <2>3. Waiting' = Waiting \cup {<<r, x>>}
    BY <1>2, <1>5, <2>2, <1>u
  <2> QED
    <3>1. {<<r, x>>} \cap Inside = {} /\ lock' = lock
      BY <1>5
    <3>2. \E users \in SUBSET Users :
            /\ Waiting' = Waiting \cup users /\ users \cap Inside = {}
            /\ Inside' = Inside /\ lock' = lock
      BY <2>1, <2>2, <2>3, <3>1
    <3> QED
      BY <1>2, <3>2, LockSteps
\* ... enters ...
<1>6. ASSUME NEW r \in Operations, NEW x \in AllTags,
             <<r, x>> \in Waiting, lock = "none", lock' = r,
             \A s \in Operations, y \in AllTags :
                /\ <<s, y>> \in Waiting' <=> <<s, y>> \in Waiting /\ <<s, y>> # <<r, x>>
                /\ <<s, y>> \in Inside' <=> <<s, y>> \in Inside \/ <<s, y>> = <<r, x>>
      PROVE  LockMatches' /\ [FileLock!Next]_(FileLock!lockVars)
  <2>1. <<r, x>> \in Users
    BY DEF Users
  <2>2. Waiting' = Waiting \ {<<r, x>>}
    BY <1>2, <1>6, <1>u
  <2>3. Inside' = Inside \cup {<<r, x>>}
    BY <1>2, <1>6, <2>1, <1>u
  <2> QED
    BY <1>2, <1>6, <2>2, <2>3, LockSteps
\* ... or leaves.
<1>7. ASSUME NEW r \in Operations, NEW x \in AllTags, <<r, x>> \in Inside, lock' = "none",
             \A s \in Operations, y \in AllTags :
                /\ <<s, y>> \in Waiting' <=> <<s, y>> \in Waiting
                /\ <<s, y>> \in Inside' <=> <<s, y>> \in Inside /\ <<s, y>> # <<r, x>>
      PROVE  LockMatches' /\ [FileLock!Next]_(FileLock!lockVars)
  <2>1. <<r, x>> \in Users
    BY DEF Users
  <2>0. \A u \in Users : u \in Waiting' <=> u \in Waiting
    BY <1>7, <1>u
  <2>2. Waiting' = Waiting
    BY <1>2, <2>0
  <2>3. Inside' = Inside \ {<<r, x>>}
    BY <1>2, <1>7, <1>u
  <2> QED
    BY <1>2, <1>7, <2>1, <2>2, <2>3, LockSteps
<1>8. ASSUME NEW t \in Tags, Grant(t)
      PROVE  LockMatches' /\ [FileLock!Next]_(FileLock!lockVars)
  <2>1. CASE GrantStart(t)
    <3>1. PICK next \in {"wait", "refused"} : pc' = [pc EXCEPT ![t] = next]
      BY <2>1 DEF GrantStart
    <3>2. CASE next = "wait"
      <4>1. /\ \A s \in {t} : pc[s] = "new" /\ pc'[s] = "wait"
            /\ \A s \in Tags \ {t} : pc'[s] = pc[s]
        BY <1>1, <2>1, <3>1, <3>2 DEF GrantStart, TypeOK
      <4> QED
        BY <1>3, <2>1, <4>1, {t} \in SUBSET Tags DEF GrantStart
    <3>3. CASE next = "refused"
      BY <1>1, <1>3, <2>1, <3>1, <3>3, {} \in SUBSET Tags DEF GrantStart, TypeOK
    <3> QED
      BY <3>2, <3>3
  <2>2. CASE GrantCancel(t)
    <3>0. /\ pc[t] = "wait" /\ pc'[t] = "refused"
          /\ \A s \in Tags \ {t} : pc'[s] = pc[s]
          /\ UNCHANGED <<lock, del, recPc, target>>
      BY <1>1, <2>2 DEF GrantCancel, TypeOK, recVars
    <3>1. \A s \in Operations, y \in AllTags :
            /\ <<s, y>> \in Waiting' <=> <<s, y>> \in Waiting /\ <<s, y>> # <<"grant", t>>
            /\ <<s, y>> \in Inside' <=> <<s, y>> \in Inside
      BY <1>1, <1>2, <3>0, UsersAre, UsersWillBe
    <3>2. <<"grant", t>> \in Users /\ <<"grant", t>> \notin Inside
      BY <1>1, <1>2, <3>0, UsersAre DEF Users
    <3>3. \A u \in Users : /\ u \in Waiting' <=> u \in Waiting /\ u # <<"grant", t>>
                           /\ u \in Inside' <=> u \in Inside
      BY <3>1, <1>u
    <3>4. Inside' = Inside /\ Waiting' = Waiting \ {<<"grant", t>>}
      BY <1>2, <3>3
    <3>5. \E users \in SUBSET Users :
            /\ Waiting' = Waiting \ users /\ users \cap Inside = {}
            /\ Inside' = Inside /\ lock' = lock
      BY <3>0, <3>2, <3>4, {<<"grant", t>>} \in SUBSET Users
    <3> QED
      BY <1>2, <3>5, LockSteps
  <2>3. CASE GrantLock(t)
    <3>0. /\ pc[t] = "wait" /\ pc'[t] = "push"
          /\ \A s \in Tags \ {t} : pc'[s] = pc[s]
          /\ UNCHANGED <<del, recPc, target>>
      BY <1>1, <2>3 DEF GrantLock, TypeOK, recVars
    <3>1. \A s \in Operations, y \in AllTags :
            /\ <<s, y>> \in Waiting' <=> <<s, y>> \in Waiting /\ <<s, y>> # <<"grant", t>>
            /\ <<s, y>> \in Inside' <=> <<s, y>> \in Inside \/ <<s, y>> = <<"grant", t>>
      BY <1>1, <1>2, <3>0, UsersAre, UsersWillBe
    <3>2. <<"grant", t>> \in Waiting /\ lock = "none" /\ lock' = "grant"
      BY <1>1, <1>2, <2>3, UsersAre DEF GrantLock
    <3> QED
      BY <1>2, <1>6, <3>1, <3>2
  <2>4. CASE Publish(t)
    <3>0. /\ pc[t] = "push" /\ pc'[t] \in {"commit", "refused"}
          /\ \A s \in Tags \ {t} : pc'[s] = pc[s]
          /\ UNCHANGED <<del, recPc, target>>
      BY <1>1, <2>4 DEF Publish, PublishOk, PublishFail, TypeOK, recVars
    <3>1. \A s \in Operations, y \in AllTags :
            /\ <<s, y>> \in Waiting' <=> <<s, y>> \in Waiting
            /\ <<s, y>> \in Inside' <=> <<s, y>> \in Inside /\ <<s, y>> # <<"grant", t>>
      BY <1>1, <1>2, <3>0, UsersAre, UsersWillBe
    <3>2. <<"grant", t>> \in Inside /\ lock' = "none"
      BY <1>1, <1>2, <2>4, UsersAre DEF Publish, PublishOk, PublishFail
    <3> QED
      BY <1>2, <1>7, <3>1, <3>2
  <2>5. CASE CommitOk(t)
    BY <1>1, <1>4, <2>5 DEF CommitOk, TypeOK, recVars
  <2>6. CASE CommitFail(t)
    <3>a. del[t] = "none"
      BY <1>1, <2>6 DEF CommitFail, DeletersHoldDead, Dead
    <3>0. /\ pc[t] = "commit" /\ pc'[t] = "refused"
          /\ \A s \in Tags \ {t} : pc'[s] = pc[s]
          /\ del'[t] = "wait" /\ del[t] = "none"
          /\ \A s \in Tags \ {t} : del'[s] = del[s]
          /\ UNCHANGED <<recPc, target>>
      BY <1>1, <2>6, <3>a DEF CommitFail, TypeOK, recVars
    <3>1. \A s \in Operations, y \in AllTags :
            /\ <<s, y>> \in Waiting' <=> <<s, y>> \in Waiting \/ <<s, y>> = <<"delete", t>>
            /\ <<s, y>> \in Inside' <=> <<s, y>> \in Inside
      BY <1>1, <1>2, <3>0, UsersAre, UsersWillBe
    <3>2. <<"delete", t>> \notin Inside /\ lock' = lock
      BY <1>1, <1>2, <2>6, <3>0, UsersAre DEF CommitFail
    <3> QED
      BY <1>2, <1>5, <3>1, <3>2
  <2> QED
    BY <1>8, <2>1, <2>2, <2>3, <2>4, <2>5, <2>6 DEF Grant, Commit
<1>9. ASSUME NEW t \in Tags, Delete(t)
      PROVE  LockMatches' /\ [FileLock!Next]_(FileLock!lockVars)
  <2>1. CASE DeleteLock(t)
    <3>0. /\ del[t] = "wait" /\ del'[t] = "hold"
          /\ \A s \in Tags \ {t} : del'[s] = del[s]
          /\ UNCHANGED <<pc, recPc, target>>
      BY <1>1, <2>1 DEF DeleteLock, TypeOK, recVars
    <3>1. \A s \in Operations, y \in AllTags :
            /\ <<s, y>> \in Waiting' <=> <<s, y>> \in Waiting /\ <<s, y>> # <<"delete", t>>
            /\ <<s, y>> \in Inside' <=> <<s, y>> \in Inside \/ <<s, y>> = <<"delete", t>>
      BY <1>1, <1>2, <3>0, UsersAre, UsersWillBe
    <3>2. <<"delete", t>> \in Waiting /\ lock = "none" /\ lock' = "delete"
      BY <1>1, <1>2, <2>1, UsersAre DEF DeleteLock
    <3> QED
      BY <1>2, <1>6, <3>1, <3>2
  <2>2. CASE DeleteDone(t)
    <3>0. /\ del[t] = "hold" /\ del'[t] = "none"
          /\ \A s \in Tags \ {t} : del'[s] = del[s]
          /\ UNCHANGED <<pc, recPc, target>>
      BY <1>1, <2>2 DEF DeleteDone, TypeOK, recVars
    <3>1. \A s \in Operations, y \in AllTags :
            /\ <<s, y>> \in Waiting' <=> <<s, y>> \in Waiting
            /\ <<s, y>> \in Inside' <=> <<s, y>> \in Inside /\ <<s, y>> # <<"delete", t>>
      BY <1>1, <1>2, <3>0, UsersAre, UsersWillBe
    <3>2. <<"delete", t>> \in Inside /\ lock' = "none"
      BY <1>1, <1>2, <2>2, UsersAre DEF DeleteDone
    <3> QED
      BY <1>2, <1>7, <3>1, <3>2
  <2> QED
    BY <1>9, <2>1, <2>2 DEF Delete
<1>10. CASE Sweep \/ Ticker
  BY <1>3, <1>10, {} \in SUBSET Tags DEF Sweep, Ticker
<1>11. CASE RecSnapshot \/ RecClock \/ RecListOk \/ RecEnd
  BY <1>4, <1>11 DEF RecSnapshot, RecClock, RecListOk, RecEnd, recReset
<1>12. ASSUME NEW x \in AllTags, RecSkip(x)
       PROVE  LockMatches' /\ [FileLock!Next]_(FileLock!lockVars)
  BY <1>4, <1>12 DEF RecSkip
<1>13. ASSUME NEW x \in AllTags, RecPick(x)
       PROVE  LockMatches' /\ [FileLock!Next]_(FileLock!lockVars)
  <2>1. \A s \in Operations, y \in AllTags :
          /\ <<s, y>> \in Waiting' <=> <<s, y>> \in Waiting \/ <<s, y>> = <<"reconcile", x>>
          /\ <<s, y>> \in Inside' <=> <<s, y>> \in Inside
    BY <1>1, <1>13, UsersAre, UsersWillBe DEF RecPick
  <2>2. <<"reconcile", x>> \notin Inside /\ lock' = lock
    BY <1>1, <1>13, UsersAre DEF RecPick
  <2> QED
    BY <1>5, <2>1, <2>2
<1>14. CASE RecLock
  <2>1. PICK x \in Tags : target = {x}
    BY <1>1, <1>14 DEF RecLock, TargetSettled
  <2>2. \A s \in Operations, y \in AllTags :
          /\ <<s, y>> \in Waiting' <=> <<s, y>> \in Waiting /\ <<s, y>> # <<"reconcile", x>>
          /\ <<s, y>> \in Inside' <=> <<s, y>> \in Inside \/ <<s, y>> = <<"reconcile", x>>
    BY <1>1, <1>14, <2>1, UsersAre, UsersWillBe DEF RecLock
  <2>3. <<"reconcile", x>> \in Waiting /\ lock = "none" /\ lock' = "reconcile"
    BY <1>1, <1>2, <1>14, <2>1, UsersAre DEF RecLock
  <2> QED
    BY <1>2, <1>6, <2>2, <2>3
<1>15. ASSUME NEW removed \in BOOLEAN, RecDelete(removed)
       PROVE  LockMatches' /\ [FileLock!Next]_(FileLock!lockVars)
  <2>1. PICK x \in Tags : target = {x}
    BY <1>1, <1>15 DEF RecDelete, TargetSettled
  <2>2. \A s \in Operations, y \in AllTags :
          /\ <<s, y>> \in Waiting' <=> <<s, y>> \in Waiting
          /\ <<s, y>> \in Inside' <=> <<s, y>> \in Inside /\ <<s, y>> # <<"reconcile", x>>
    BY <1>1, <1>15, <2>1, UsersAre, UsersWillBe DEF RecDelete
  <2>3. <<"reconcile", x>> \in Inside /\ lock' = "none"
    BY <1>1, <1>2, <1>15, <2>1, UsersAre DEF RecDelete
  <2> QED
    BY <1>2, <1>7, <2>2, <2>3
<1>16. CASE Reconcile
  BY <1>11, <1>12, <1>13, <1>14, <1>15, <1>16 DEF Reconcile
\* A death of the process takes everybody out.
<1>17. CASE Crash
  <2>1. \A t \in Tags : pc'[t] \notin {"wait", "push"} /\ del'[t] = "none"
    BY <1>1, <1>17 DEF Crash, TypeOK, PcStates
  <2>2. recPc' = "idle" /\ lock' = "none"
    BY <1>17 DEF Crash, recReset
  <2>3. \A s \in Operations, y \in AllTags : <<s, y>> \notin Waiting' /\ <<s, y>> \notin Inside'
    BY <2>1, <2>2, UsersWillBe
  <2>4. Waiting' = {} /\ Inside' = {}
    BY <1>2, <2>3, <1>u
  <2> QED
    BY <1>2, <2>2, <2>4, LockSteps
<1>18. CASE Restart \/ Tick \/ UNCHANGED vars
  BY <1>4, <1>18 DEF Restart, Tick, vars, recVars
<1> QED
  BY <1>8, <1>9, <1>10, <1>16, <1>17, <1>18 DEF Next

\* Any number of requests, delete goroutines, reconciliation passes and crashes
\* implement registry.lock.
THEOREM GrantsImplementLock == Spec => ImplementsRegistryLock
<1>1. Spec => []SweptIsOut
  BY SweptInit, SweptNext, Inductive, PTL DEF Spec
<1>2. IInv /\ IInv' /\ SweptIsOut /\ LockMatches /\ [Next]_vars
        => LockMatches' /\ [FileLock!Next]_(FileLock!lockVars)
  BY LockNext DEF IInv
<1>3. Spec => []LockMatches
  BY <1>1, <1>2, LockInit, Inductive, PTL DEF Spec
<1> QED
  BY <1>1, <1>2, <1>3, LockInit, Inductive, PTL
  DEF Spec, ImplementsRegistryLock, FileLock!Spec

\* Of all pushes, deletes and reclaims at most one is at work on the registry,
\* and the lock is taken exactly while one is.
THEOREM GrantsLockNotOrphaned == Spec => []FileLock!OneInside
<1>1. LockMatches => FileLock!OneInside
  BY DEF LockMatches, FileLock!OneInside, Inside, Operations
<1>2. IInv /\ IInv' /\ SweptIsOut /\ LockMatches /\ [Next]_vars => LockMatches'
  BY LockNext DEF IInv
<1>3. Spec => []SweptIsOut
  BY SweptInit, SweptNext, Inductive, PTL DEF Spec
<1> QED
  BY <1>1, <1>2, <1>3, LockInit, Inductive, PTL DEF Spec
=============================================================================
