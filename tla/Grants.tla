------------------------------- MODULE Grants -------------------------------
(***************************************************************************)
(* The life of a pull grant in the vend service (vend/main.go).            *)
(*                                                                         *)
(* A grant is a fresh random token for a fresh random image tag.  Issuing  *)
(* one takes three steps that no lock covers as a whole: the tag is pushed *)
(* to the registry under the registry lock, the grant is entered in memory *)
(* and saved under grantsMu, and the client is answered.  Meanwhile every  *)
(* request sweeps expired grants, a goroutine per swept grant deletes its  *)
(* tag, a reconciliation pass looks for tags nobody owns, and the process  *)
(* may die between any two of these steps.                                 *)
(*                                                                         *)
(* Token and tag are drawn together and never reused, so a request, its    *)
(* token and its tag are one element of Tags.                              *)
(***************************************************************************)
EXTENDS Naturals

CONSTANTS
    Tags,        \* grant requests, each with the tag it would publish
    Named,       \* other tags of the repository whose name is no grant tag
    Unlabelled,  \* tags shaped like a grant tag whose label does not match
    TTLs,        \* the lifetimes a request may get, after clamping
    Grace,       \* FORGE_ORPHAN_GRACE
    MaxPublish,  \* assumed: longest time from an image's creation to its save
    LastStart,   \* bound: no request begins or waits after this instant
    MaxTime,     \* bound: the clock stops here
    MaxCrashes   \* bound: how often the process may die

ASSUME TagsDisjoint ==
    /\ Tags \cap Named = {}
    /\ Tags \cap Unlabelled = {}
ASSUME TTLsPositive == TTLs \subseteq Nat \ {0}
ASSUME BoundsNat ==
    {Grace, MaxPublish, LastStart, MaxTime, MaxCrashes} \subseteq Nat
\* main refuses a grace under one hour; a push of one metadata layer and the
\* write of one small file end well within it.
ASSUME GraceCoversPublish == MaxPublish < Grace

Foreign == Named \cup Unlabelled
AllTags == Tags \cup Foreign

VARIABLES
    now,      \* the clock
    up,       \* the process runs
    crashes,  \* how often it has died
    byToken,  \* server.byToken: the grants in memory
    file,     \* the grants in the state file
    expires,  \* Grant.Expires, once the grant is built
    reg,      \* the tags in the registry
    created,  \* the creation time in a tag's image config
    lock,     \* who holds registry.lock
    pc,       \* where each request is in handleGrant
    del,      \* the deleteTag goroutine of each tag
    recPc,    \* where the reconciliation pass is
    active,   \* its snapshot of the active grants
    recNow,   \* its reading of the clock
    todo,     \* listed tags it has still to look at
    target    \* the tag it is deleting

vars == <<now, up, crashes, byToken, file, expires, reg, created, lock, pc,
          del, recPc, active, recNow, todo, target>>
clockVars == <<now, up, crashes>>
recVars == <<recPc, active, recNow, todo, target>>

PcStates == {"new", "wait", "push", "commit", "issued", "refused", "lost"}
DelStates == {"none", "wait", "hold"}
RecStates == {"idle", "clock", "list", "scan", "lock", "delete"}
Holders == {"none", "grant", "delete", "reconcile"}

TypeOK ==
    /\ now \in Nat /\ up \in BOOLEAN /\ crashes \in Nat
    /\ byToken \subseteq Tags /\ file \subseteq Tags
    /\ expires \in [Tags -> Nat]
    /\ reg \subseteq AllTags
    /\ created \in [AllTags -> Nat]
    /\ lock \in Holders
    /\ pc \in [Tags -> PcStates]
    /\ del \in [Tags -> DelStates]
    /\ recPc \in RecStates
    /\ active \subseteq Tags
    /\ recNow \in Nat
    /\ todo \subseteq AllTags
    /\ target \subseteq AllTags

\* The service starts with an empty state file beside a registry that already
\* holds old images which are not its own.
Init ==
    /\ now = 0 /\ up = TRUE /\ crashes = 0
    /\ byToken = {} /\ file = {}
    /\ expires = [t \in Tags |-> 0]
    /\ reg = Foreign
    /\ created = [x \in AllTags |-> 0]
    /\ lock = "none"
    /\ pc = [t \in Tags |-> "new"]
    /\ del = [t \in Tags |-> "none"]
    /\ recPc = "idle" /\ active = {} /\ recNow = 0 /\ todo = {} /\ target = {}

-----------------------------------------------------------------------------
(***************************************************************************)
(* Expiry.  gcLocked drops what expired strictly before now and spawns one *)
(* deleteTag goroutine for each; it does not save.                         *)
(***************************************************************************)
Expired == {t \in byToken : expires[t] < now}

gcLocked ==
    /\ byToken' = byToken \ Expired
    /\ del' = [t \in Tags |-> IF t \in Expired THEN "wait" ELSE del[t]]

\* A pull through handleV2, or /api/info: both sweep under grantsMu.  The proxied
\* read that follows a pull changes nothing here.
Sweep ==
    /\ up
    /\ gcLocked
    /\ UNCHANGED <<clockVars, file, expires, reg, created, lock, pc, recVars>>

\* Mutant: only requests sweep.
TickerIdle == up /\ UNCHANGED vars

\* The one-minute ticker saves only when its own sweep dropped something; a
\* failed save leaves the old file and is only logged.
Ticker ==
    /\ up
    /\ gcLocked
    /\ \/ Expired # {} /\ file' = byToken'
       \/ UNCHANGED file
    /\ UNCHANGED <<clockVars, expires, reg, created, lock, pc, recVars>>

-----------------------------------------------------------------------------
(***************************************************************************)
(* handleGrant, once the caller is authenticated.                          *)
(***************************************************************************)

\* The sweep, then validation and the disk check, which may refuse.
GrantStart(t) ==
    /\ up /\ pc[t] = "new" /\ now <= LastStart
    /\ gcLocked
    /\ \E next \in {"wait", "refused"} : pc' = [pc EXCEPT ![t] = next]
    /\ UNCHANGED <<clockVars, file, expires, reg, created, lock, recVars>>

\* The client goes away while the handler polls for the registry lock.
GrantCancel(t) ==
    /\ pc[t] = "wait"
    /\ pc' = [pc EXCEPT ![t] = "refused"]
    /\ UNCHANGED <<clockVars, byToken, file, expires, reg, created, lock, del, recVars>>

\* The lock is taken and the build starts; it stamps the image no earlier.
GrantLock(t) ==
    /\ pc[t] = "wait" /\ lock = "none"
    /\ lock' = "grant"
    /\ pc' = [pc EXCEPT ![t] = "push"]
    /\ created' = [created EXCEPT ![t] = now]
    /\ UNCHANGED <<clockVars, byToken, file, expires, reg, del, recVars>>

PublishOk(t) ==
    /\ pc[t] = "push"
    /\ reg' = reg \cup {t}
    /\ lock' = "none"
    /\ pc' = [pc EXCEPT ![t] = "commit"]
    /\ UNCHANGED <<clockVars, byToken, file, expires, created, del, recVars>>

\* Mutant: the error path returns with the lock held.
PublishFailHoldsLock(t) ==
    /\ pc[t] = "push"
    /\ reg' \in {reg, reg \cup {t}}
    /\ pc' = [pc EXCEPT ![t] = "refused"]
    /\ UNCHANGED <<clockVars, byToken, file, expires, created, lock, del, recVars>>

\* buildx fails or is killed with the request.  The tag may be in the registry
\* all the same, and the handler answers 500 without deleting it.
PublishFail(t) ==
    /\ pc[t] = "push"
    /\ reg' \in {reg, reg \cup {t}}
    /\ lock' = "none"
    /\ pc' = [pc EXCEPT ![t] = "refused"]
    /\ UNCHANGED <<clockVars, byToken, file, expires, created, del, recVars>>

\* Mutant: the grant is entered, and the error of the save is ignored.
CommitUnsaved(t) ==
    /\ pc[t] = "commit"
    /\ \E ttl \in TTLs : expires' = [expires EXCEPT ![t] = now + ttl]
    /\ byToken' = byToken \cup {t}
    /\ pc' = [pc EXCEPT ![t] = "issued"]
    /\ UNCHANGED <<clockVars, file, reg, created, lock, del, recVars>>

\* Enter the grant and save, in one critical section of grantsMu.
CommitOk(t) ==
    /\ pc[t] = "commit"
    /\ \E ttl \in TTLs : expires' = [expires EXCEPT ![t] = now + ttl]
    /\ byToken' = byToken \cup {t}
    /\ file' = byToken'
    /\ pc' = [pc EXCEPT ![t] = "issued"]
    /\ UNCHANGED <<clockVars, reg, created, lock, del, recVars>>

\* Mutant: the save fails and the entry stays in memory.
CommitFailKeeps(t) ==
    /\ pc[t] = "commit"
    /\ byToken' = byToken \cup {t}
    /\ pc' = [pc EXCEPT ![t] = "refused"]
    /\ del' = [del EXCEPT ![t] = "wait"]
    /\ UNCHANGED <<clockVars, file, expires, reg, created, lock, recVars>>

\* The save fails: the entry is taken back, the tag handed to deleteTag.
CommitFail(t) ==
    /\ pc[t] = "commit"
    /\ pc' = [pc EXCEPT ![t] = "refused"]
    /\ del' = [del EXCEPT ![t] = "wait"]
    /\ UNCHANGED <<clockVars, byToken, file, expires, reg, created, lock, recVars>>

-----------------------------------------------------------------------------
(***************************************************************************)
(* deleteTag: one attempt under the registry lock, never retried.          *)
(***************************************************************************)
\* Mutant: the delete does not take the lock.
DeleteUnlocked(t) ==
    /\ del[t] = "wait"
    /\ del' = [del EXCEPT ![t] = "hold"]
    /\ UNCHANGED <<clockVars, byToken, file, expires, reg, created, lock, pc, recVars>>

DeleteLock(t) ==
    /\ del[t] = "wait" /\ lock = "none"
    /\ lock' = "delete"
    /\ del' = [del EXCEPT ![t] = "hold"]
    /\ UNCHANGED <<clockVars, byToken, file, expires, reg, created, pc, recVars>>

DeleteDone(t) ==
    /\ del[t] = "hold"
    /\ reg' \in {reg \ {t}, reg}     \* a failure is only logged
    /\ lock' = "none"
    /\ del' = [del EXCEPT ![t] = "none"]
    /\ UNCHANGED <<clockVars, byToken, file, expires, created, pc, recVars>>

-----------------------------------------------------------------------------
(***************************************************************************)
(* reconcileOrphans: snapshot the active tags, read the clock, list the    *)
(* registry, and delete each listed tag that is provably an orphan.        *)
(***************************************************************************)
recReset ==
    recPc' = "idle" /\ active' = {} /\ recNow' = 0 /\ todo' = {} /\ target' = {}

RecSnapshot ==
    /\ up /\ recPc = "idle"
    /\ active' = byToken
    /\ recPc' = "clock"
    /\ UNCHANGED <<clockVars, byToken, file, expires, reg, created, lock, pc, del,
                   recNow, todo, target>>

RecClock ==
    /\ recPc = "clock"
    /\ recNow' = now
    /\ recPc' = "list"
    /\ UNCHANGED <<clockVars, byToken, file, expires, reg, created, lock, pc, del,
                   active, todo, target>>

RecListOk ==
    /\ recPc = "list"
    /\ todo' = reg
    /\ recPc' = "scan"
    /\ UNCHANGED <<clockVars, byToken, file, expires, reg, created, lock, pc, del,
                   active, recNow, target>>

\* The listing fails, or every listed tag has been looked at.
RecEnd ==
    /\ recPc = "list" \/ (recPc = "scan" /\ todo = {})
    /\ recReset
    /\ UNCHANGED <<clockVars, byToken, file, expires, reg, created, lock, pc, del>>

Label(x) == IF x \in Tags THEN {x} ELSE {}

\* Mutants: without the grace period; without the label.
OrphanNoGrace(x) == x \notin Named /\ x \notin active /\ Label(x) = {x}
OrphanNoLabel(x) == x \notin Named /\ x \notin active /\ created[x] + Grace <= recNow

\* Grant-shaped, not active in the snapshot, labelled with its own name, and
\* at least Grace old at the time the pass began.
Orphan(x) ==
    /\ x \notin Named
    /\ x \notin active
    /\ Label(x) = {x}
    /\ created[x] + Grace <= recNow

\* One listed tag is inspected and found to be an orphan ...
RecPick(x) ==
    /\ recPc = "scan" /\ x \in todo /\ x \in reg /\ Orphan(x)
    /\ todo' = todo \ {x}
    /\ target' = {x}
    /\ recPc' = "lock"
    /\ UNCHANGED <<clockVars, byToken, file, expires, reg, created, lock, pc, del,
                   active, recNow>>

\* ... or passed over: protected, already gone, or unreadable.
RecSkip(x) ==
    /\ recPc = "scan" /\ x \in todo
    /\ todo' = todo \ {x}
    /\ UNCHANGED <<clockVars, byToken, file, expires, reg, created, lock, pc, del,
                   recPc, active, recNow, target>>

RecLock ==
    /\ recPc = "lock" /\ lock = "none"
    /\ lock' = "reconcile"
    /\ recPc' = "delete"
    /\ UNCHANGED <<clockVars, byToken, file, expires, reg, created, pc, del,
                   active, recNow, todo, target>>

RecDelete(removed) ==
    /\ recPc = "delete"
    /\ reg' = IF removed THEN reg \ target ELSE reg
    /\ lock' = "none"
    /\ recPc' = "scan" /\ target' = {}
    /\ UNCHANGED <<clockVars, byToken, file, expires, created, pc, del,
                   active, recNow, todo>>

-----------------------------------------------------------------------------
(***************************************************************************)
(* The process and the clock.                                              *)
(***************************************************************************)

\* Death at any point: memory, goroutines and the flock are gone.  A push in
\* flight may still have reached the registry.
Crash ==
    /\ up /\ crashes < MaxCrashes
    /\ up' = FALSE /\ crashes' = crashes + 1
    /\ byToken' = {}
    /\ \E landed \in SUBSET {t \in Tags : pc[t] = "push"} : reg' = reg \cup landed
    /\ pc' = [t \in Tags |->
                IF pc[t] \in {"wait", "push", "commit"} THEN "lost" ELSE pc[t]]
    /\ del' = [t \in Tags |-> "none"]
    /\ lock' = "none"
    /\ recReset
    /\ UNCHANGED <<now, file, expires, created>>

\* Mutant: the restart trusts every grant of the file.
RestartAll ==
    /\ ~up
    /\ up' = TRUE
    /\ byToken' = file
    /\ UNCHANGED <<now, crashes, file, expires, reg, created, lock, pc, del, recVars>>

\* systemd restarts the unit; loadState keeps what has not expired and does
\* nothing about the rest.
Restart ==
    /\ ~up
    /\ up' = TRUE
    /\ byToken' = {t \in file : now < expires[t]}
    /\ UNCHANGED <<now, crashes, file, expires, reg, created, lock, pc, del, recVars>>

\* Time passes, but a started publish is committed within MaxPublish, and the
\* pass reads the clock within the instant of its snapshot.
Tick ==
    /\ now < MaxTime
    /\ \A t \in Tags :
        /\ pc[t] \in {"push", "commit"} => now < created[t] + MaxPublish
        /\ pc[t] = "wait" => now < LastStart
    /\ recPc # "clock"
    /\ now' = now + 1
    /\ UNCHANGED <<up, crashes, byToken, file, expires, reg, created, lock, pc, del, recVars>>

Publish(t) == PublishOk(t) \/ PublishFail(t)
Commit(t) == CommitOk(t) \/ CommitFail(t)

Grant(t) ==
    GrantStart(t) \/ GrantCancel(t) \/ GrantLock(t) \/ Publish(t) \/ Commit(t)

Delete(t) == DeleteLock(t) \/ DeleteDone(t)

Reconcile ==
    \/ RecSnapshot \/ RecClock \/ RecListOk \/ RecEnd \/ RecLock
    \/ \E x \in AllTags : RecPick(x) \/ RecSkip(x)
    \/ \E removed \in BOOLEAN : RecDelete(removed)

Next ==
    \/ \E t \in Tags : Grant(t) \/ Delete(t)
    \/ Sweep \/ Ticker \/ Reconcile
    \/ Crash \/ Restart \/ Tick

Spec == Init /\ [][Next]_vars

\* Goroutines run and the unit is restarted (WF); the clock advances although
\* Tick is disabled for an instant now and then, and the
\* registry answers a listing, an inspection and a delete now and then (SF).
Fairness ==
    /\ SF_vars(Tick) /\ WF_vars(Ticker) /\ WF_vars(Restart)
    /\ \A t \in Tags :
        /\ WF_vars(GrantLock(t)) /\ WF_vars(Publish(t)) /\ WF_vars(Commit(t))
        /\ WF_vars(DeleteLock(t)) /\ WF_vars(DeleteDone(t))
        /\ SF_vars(RecPick(t))
    /\ WF_vars(RecSnapshot) /\ WF_vars(RecClock) /\ WF_vars(RecEnd)
    /\ WF_vars(\E x \in AllTags : RecPick(x) \/ RecSkip(x))
    /\ WF_vars(RecLock) /\ WF_vars(\E removed \in BOOLEAN : RecDelete(removed))
    /\ SF_vars(RecListOk) /\ SF_vars(RecDelete(TRUE))

FairSpec == Spec /\ Fairness

-----------------------------------------------------------------------------
(***************************************************************************)
(* What the component promises.                                            *)
(***************************************************************************)
Live(t) == pc[t] = "issued" /\ now < expires[t]
Dead(t) == pc[t] \in {"refused", "lost"} \/ (pc[t] = "issued" /\ expires[t] < now)

\* The image of an answered grant stays in the registry until the grant
\* expires, whatever sweeps, reconciliation passes, failed saves, crashes and
\* restarts happen meanwhile (handleGrant, gcLocked, reconcileOrphans).
LiveImageServed == \A t \in Tags : Live(t) => t \in reg

\* A grant the client was given survives a crash: until it expires it is in
\* the state file, and in memory whenever the process runs (saveStateLocked
\* before the answer; loadState).
LiveGrantKept ==
    \A t \in Tags : Live(t) => t \in file /\ (up => t \in byToken)

\* A request that was answered with an error leaves no usable grant behind,
\* neither in memory nor in any later version of the file.
RefusedHoldsNothing ==
    \A t \in Tags : pc[t] \in {"refused", "lost"} => t \notin byToken \cup file

\* Reconciliation never removes registry content that this service did not
\* create, however old it is.
ForeignKept == Foreign \subseteq reg

\* Once a sweep has dropped an expired grant it does not come back, although
\* the file still lists it: not with a restart, nor with a later save.
ExpiredStaysOut ==
    [][\A t \in Tags :
        pc[t] = "issued" /\ expires[t] < now /\ t \notin byToken => t \notin byToken']_vars

\* Every tag without a live grant is removed in the end: of a failed publish or
\* save, of a crash between push and save, of a delete that failed once.
DeadTagReclaimed == \A t \in Tags : (Dead(t) /\ t \in reg) ~> (t \notin reg)

\* A request that waits for the registry lock is answered, unless the process
\* dies under it.
WaiterAnswered == \A t \in Tags : pc[t] = "wait" ~> pc[t] \in {"issued", "refused", "lost"}

\* The ledger's view of this component.
Answer(t) ==
    CASE pc[t] = "new" -> "unasked"
      [] pc[t] \in {"wait", "push", "commit"} -> "pending"
      [] pc[t] = "issued" -> "granted"
      [] pc[t] \in {"refused", "lost"} -> "refused"

Ledger == INSTANCE GrantLedger WITH
    clock <- now,
    serving <- up,
    state <- [t \in Tags |-> Answer(t)],
    until <- expires,
    open <- {t \in byToken : now < expires[t]},
    images <- {t \in reg \cap Tags : pc[t] = "issued"}

\* Seen from the client this component is the ledger: no interleaving of
\* sweeps, saves, deletes, reconciliation and crashes makes a token stop
\* working early, work again later, or lose its image while it works.
ImplementsLedger == Ledger!Spec

\* An operation on the registry is the tag it is about and what it does to it.
Under(grant, delete, reconcile) ==
    ({"grant"} \X {t \in Tags : pc[t] = grant})
        \cup ({"delete"} \X {t \in Tags : del[t] = delete})
        \cup ({"reconcile"} \X {x \in target : recPc = reconcile})

FileLock == INSTANCE RegistryLock WITH
    Users <- {"grant", "delete", "reconcile"} \X AllTags,
    waiting <- Under("wait", "wait", "lock"),
    inside <- Under("push", "hold", "delete"),
    free <- (lock = "none")

\* Seen from registry.lock, pushes, delete goroutines and the reconciliation pass
\* are users that exclude each other, and none of them, failed, cancelled or
\* killed with the process, leaves the lock taken behind it.
ImplementsRegistryLock == FileLock!Spec
=============================================================================
