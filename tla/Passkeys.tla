------------------------------ MODULE Passkeys ------------------------------
(***************************************************************************)
(* Passkeys of the admin account (vend/webauthn.go, vend/admin.go): the    *)
(* store with its file, and the two WebAuthn ceremonies, which run in two  *)
(* requests each and share one slot per kind.  A finish request takes the  *)
(* slot, verifies the browser's answer without any lock, and then updates  *)
(* the store; other requests run in between and the service may restart.   *)
(*                                                                         *)
(* One domain (relying party) is modelled: a finish on another domain than *)
(* the slot's fails like one with another challenge.                       *)
(***************************************************************************)
EXTENDS Naturals

CONSTANTS
    Ceremonies,   \* ceremonies begun, each with its challenge; one that
                  \* registers a passkey gives it its own name
    First,        \* passkeys registered before
    Handlers,     \* concurrent finish requests
    SavesFail,    \* whether writing the passkey file may fail
    ReadsFail,    \* whether the file may be unreadable at a start
    MaxRestarts   \* bound: how often the service restarts

ASSUME CeremoniesAreNew == Ceremonies \cap First = {}
ASSUME Modes == SavesFail \in BOOLEAN /\ ReadsFail \in BOOLEAN /\ MaxRestarts \in Nat

Keys == First \cup Ceremonies

VARIABLES
    store,       \* passkeyStore in memory: handle, keys, sign counts
    disk,        \* the same in the file
    owner,       \* the handle a passkey was made for
    device,      \* the sign count of the authenticator that holds it
    kind,        \* which ceremony was begun
    reply,       \* the browser's answer: passkey and sign count, or none
    loginSlot,   \* loginSession: whose challenge it holds
    regSlot,     \* regSession
    pc, req,     \* where each finish request is, and for which ceremony
    restarts,
    used,        \* history: how often a challenge was accepted
    registered,  \* history: passkeys whose registration was answered "ok"
    removed,     \* history: passkeys whose removal was answered "ok"
    file         \* history: whether the last save worked

vars == <<store, disk, owner, device, kind, reply, loginSlot, regSlot, pc, req,
          restarts, used, registered, removed, file>>
deviceVars == <<owner, device>>
history == <<used, registered, removed>>
storeVars == <<store, disk, file>>

Store == [handle : Nat, keys : SUBSET Keys, count : [Keys -> Nat]]
NoReply == [key |-> {}, count |-> 0]
Kinds == {"none", "login", "register"}

TypeOK ==
    /\ store \in Store /\ disk \in Store
    /\ owner \in [Keys -> Nat] /\ device \in [Keys -> Nat]
    /\ kind \in [Ceremonies -> Kinds]
    /\ reply \in [Ceremonies -> [key : SUBSET Keys, count : Nat]]
    /\ loginSlot \subseteq {c \in Ceremonies : kind[c] = "login"}
    /\ regSlot \subseteq {c \in Ceremonies : kind[c] = "register"}
    /\ pc \in [Handlers -> {"idle", "verify", "touch", "add"}]
    /\ req \in [Handlers -> Ceremonies]
    /\ restarts \in Nat
    /\ used \in [Ceremonies -> Nat]
    /\ registered \subseteq Keys /\ removed \subseteq Keys /\ file \in {"saved", "stale"}

Empty(handle) == [handle |-> handle, keys |-> {}, count |-> [k \in Keys |-> 0]]

Init ==
    /\ store = [Empty(0) EXCEPT !.keys = First] /\ disk = store
    /\ owner = [k \in Keys |-> 0] /\ device = [k \in Keys |-> 0]
    /\ kind = [c \in Ceremonies |-> "none"]
    /\ reply = [c \in Ceremonies |-> NoReply]
    /\ loginSlot = {} /\ regSlot = {}
    /\ pc = [h \in Handlers |-> "idle"] /\ req \in [Handlers -> Ceremonies]
    /\ restarts = 0
    /\ used = [c \in Ceremonies |-> 0]
    /\ registered = First /\ removed = {} /\ file = "saved"

\* saveLocked: an error is logged and the caller goes on.
saveLocked(s) ==
    \/ disk' = s /\ file' = "saved"
    \/ SavesFail /\ file' = "stale" /\ UNCHANGED disk

-----------------------------------------------------------------------------
(***************************************************************************)
(* Ceremonies begin: the last one gets the slot.                           *)
(***************************************************************************)
LoginBegin(c) ==
    /\ kind[c] = "none" /\ store.keys # {}
    /\ kind' = [kind EXCEPT ![c] = "login"]
    /\ loginSlot' = {c}
    /\ UNCHANGED <<storeVars, deviceVars, reply, regSlot, pc, req, restarts, history>>

RegisterBegin(c) ==
    /\ kind[c] = "none"
    /\ kind' = [kind EXCEPT ![c] = "register"]
    /\ regSlot' = {c}
    /\ UNCHANGED <<storeVars, deviceVars, reply, loginSlot, pc, req, restarts, history>>

\* The authenticator signs once per ceremony, with a passkey it holds, and
\* counts; the browser may send the answer more than once.
Held == First \cup {c \in Ceremonies : kind[c] = "register"}

Sign(c, k) ==
    /\ kind[c] = "login" /\ reply[c] = NoReply /\ k \in Held
    /\ device' = [device EXCEPT ![k] = @ + 1]
    /\ reply' = [reply EXCEPT ![c] = [key |-> {k}, count |-> device'[k]]]
    /\ UNCHANGED <<storeVars, owner, kind, loginSlot, regSlot, pc, req, restarts, history>>

\* Mutant: the slot is left for the next request.
LoginTakeKeeps(h, c) ==
    /\ pc[h] = "idle" /\ reply[c] # NoReply
    /\ IF c \in loginSlot
       THEN pc' = [pc EXCEPT ![h] = "verify"] /\ req' = [req EXCEPT ![h] = c]
       ELSE UNCHANGED <<pc, req>>
    /\ UNCHANGED <<storeVars, deviceVars, kind, reply, loginSlot, regSlot, restarts, history>>

\* A finish empties the slot, whatever it finds there.
LoginTake(h, c) ==
    /\ pc[h] = "idle" /\ reply[c] # NoReply
    /\ loginSlot' = {}
    /\ IF c \in loginSlot
       THEN pc' = [pc EXCEPT ![h] = "verify"] /\ req' = [req EXCEPT ![h] = c]
       ELSE UNCHANGED <<pc, req>>
    /\ UNCHANGED <<storeVars, deviceVars, kind, reply, regSlot, restarts, history>>

RegisterTake(h, c) ==
    /\ pc[h] = "idle" /\ kind[c] = "register"
    /\ regSlot' = {}
    /\ IF c \in regSlot
       THEN pc' = [pc EXCEPT ![h] = "add"] /\ req' = [req EXCEPT ![h] = c]
       ELSE UNCHANGED <<pc, req>>
    /\ UNCHANGED <<storeVars, deviceVars, kind, reply, loginSlot, restarts, history>>

-----------------------------------------------------------------------------
(***************************************************************************)
(* The rest of a finish.                                                   *)
(***************************************************************************)

\* The library's counter check against the count it was given.
CloneWarning(n, stored) == n <= stored /\ (n # 0 \/ stored # 0)

\* The answer to ceremony c is by a stored passkey of the account and not an old one.
Verified(c) ==
    \E k \in reply[c].key : /\ k \in store.keys /\ owner[k] = store.handle
                           /\ ~CloneWarning(reply[c].count, store.count[k])

\* The account and its passkeys are read and the answer is verified.
LoginVerify(h) ==
    /\ pc[h] = "verify" /\ Verified(req[h])
    /\ pc' = [pc EXCEPT ![h] = "touch"]
    /\ UNCHANGED <<storeVars, deviceVars, kind, reply, loginSlot, regSlot, req, restarts,
                   history>>

\* The limiter or the verification turns the request away.
FinishFail(h) ==
    /\ pc[h] \in {"verify", "add"}
    /\ pc' = [pc EXCEPT ![h] = "idle"]
    /\ UNCHANGED <<storeVars, deviceVars, kind, reply, loginSlot, regSlot, req, restarts,
                   history>>

\* Mutant: touch enters the passkey when it is not there.
LoginTouchUpserts(h) ==
    /\ pc[h] = "touch"
    /\ \E k \in reply[req[h]].key :
        /\ store' = [store EXCEPT !.keys = @ \cup {k},
                                  !.count = [@ EXCEPT ![k] = reply[req[h]].count]]
        /\ saveLocked(store')
    /\ used' = [used EXCEPT ![req[h]] = @ + 1]
    /\ pc' = [pc EXCEPT ![h] = "idle"]
    /\ UNCHANGED <<deviceVars, kind, reply, loginSlot, regSlot, req, restarts,
                   registered, removed>>

\* touch stores the new count if the passkey is still there; a session opens.
LoginTouch(h) ==
    /\ pc[h] = "touch"
    /\ \E k \in reply[req[h]].key :
        IF k \in store.keys
        THEN /\ store' = [store EXCEPT !.count = [@ EXCEPT ![k] = reply[req[h]].count]]
             /\ saveLocked(store')
        ELSE UNCHANGED storeVars
    /\ used' = [used EXCEPT ![req[h]] = @ + 1]
    /\ pc' = [pc EXCEPT ![h] = "idle"]
    /\ UNCHANGED <<deviceVars, kind, reply, loginSlot, regSlot, req, restarts,
                   registered, removed>>

\* Mutant: add does not save.
RegisterAddUnsaved(h) ==
    /\ pc[h] = "add"
    /\ store' = [store EXCEPT !.keys = @ \cup {req[h]}]
    /\ owner' = [owner EXCEPT ![req[h]] = store.handle]
    /\ registered' = registered \cup {req[h]}
    /\ used' = [used EXCEPT ![req[h]] = @ + 1]
    /\ pc' = [pc EXCEPT ![h] = "idle"]
    /\ UNCHANGED <<disk, file, device, kind, reply, loginSlot, regSlot, req, restarts, removed>>

RegisterAdd(h) ==
    /\ pc[h] = "add"
    /\ store' = [store EXCEPT !.keys = @ \cup {req[h]}]
    /\ saveLocked(store')
    /\ owner' = [owner EXCEPT ![req[h]] = store.handle]
    /\ registered' = registered \cup {req[h]}
    /\ used' = [used EXCEPT ![req[h]] = @ + 1]
    /\ pc' = [pc EXCEPT ![h] = "idle"]
    /\ UNCHANGED <<device, kind, reply, loginSlot, regSlot, req, restarts, removed>>

remove(k) ==
    /\ k \in store.keys
    /\ store' = [store EXCEPT !.keys = @ \ {k}, !.count = [@ EXCEPT ![k] = 0]]
    /\ saveLocked(store')
    /\ removed' = removed \cup {k}
    /\ registered' = registered \ {k}
    /\ UNCHANGED <<deviceVars, kind, reply, loginSlot, regSlot, pc, req, restarts, used>>

-----------------------------------------------------------------------------
\* Mutant: every start draws a new handle.
loadNewHandle ==
    /\ store' = [disk EXCEPT !.handle = restarts + 1]
    /\ saveLocked(store')
    /\ UNCHANGED <<registered, removed>>

\* Answers given on top of a save that failed, or a file that got lost, are
\* forgiven where the start contradicts them.
Forgive ==
    /\ registered' = registered \cap store'.keys
    /\ removed' = removed \ store'.keys

\* loadPasskeyStore: an unreadable file is replaced by an empty store with a
\* new handle.
loadPasskeyStore ==
    \/ /\ store' = disk /\ file' = "saved"
       /\ IF file = "stale" THEN Forgive ELSE UNCHANGED <<registered, removed>>
       /\ UNCHANGED disk
    \/ /\ ReadsFail
       /\ store' = Empty(restarts + 1) /\ saveLocked(store')
       /\ Forgive

Restart ==
    /\ restarts < MaxRestarts
    /\ restarts' = restarts + 1
    /\ loadPasskeyStore
    /\ loginSlot' = {} /\ regSlot' = {}
    /\ pc' = [h \in Handlers |-> "idle"]
    /\ UNCHANGED <<deviceVars, kind, reply, req, used>>

Next ==
    \/ \E c \in Ceremonies :
        LoginBegin(c) \/ RegisterBegin(c) \/ \E k \in Keys : Sign(c, k)
    \/ \E h \in Handlers :
        \/ \E c \in Ceremonies : LoginTake(h, c) \/ RegisterTake(h, c)
        \/ LoginVerify(h) \/ FinishFail(h) \/ LoginTouch(h) \/ RegisterAdd(h)
    \/ \E k \in Keys : remove(k)
    \/ Restart

Spec == Init /\ [][Next]_vars

-----------------------------------------------------------------------------
\* A challenge is accepted once: however often the browser sends its answer and
\* however the finish requests interleave, it opens one session or adds one
\* passkey.
ChallengeUsedOnce == \A c \in Ceremonies : used[c] <= 1

\* Every stored passkey was made for the account handle beside it, in memory
\* and in the file, whatever writes and reads fail: a passkey that is listed
\* can be used.
KeysMatchHandle ==
    \A s \in {store, disk} : \A k \in s.keys : owner[k] = s.handle

\* A removed passkey stays removed: neither a login with it that was being
\* verified nor a restart brings it back, unless the last save before the
\* restart failed or the file was lost.
RemovedStaysOut == removed \cap store.keys = {}

\* A registration that was answered "ok" lasts until the passkey is removed
\* (docs/api.md:346), or the service starts after a last save that failed or
\* with a lost file: one later save that works makes up for those that failed.
RegisteredKept == registered \subseteq store.keys
=============================================================================
