------------------------- MODULE PasskeyPagesProofs -------------------------
(***************************************************************************)
(* Proofs about passkeys: the service alone (Passkeys), the conversions    *)
(* between page and service (Base64url), and pages, service and            *)
(* authenticators together (PasskeyPages), for any number of each, any     *)
(* ceremonies and finish requests, and any byte strings.                   *)
(***************************************************************************)
EXTENDS PasskeyPages, TLAPS

-----------------------------------------------------------------------------
(***************************************************************************)
(* The service: theorems about Passkeys alone.                             *)
(***************************************************************************)
Busy(h) == pc[h] # "idle"

\* A challenge is in at most one place on its way to acceptance: fresh, in its
\* slot, with one finish request, or spent.
OnePlace ==
    /\ \A c \in Ceremonies : kind[c] = "none" => used[c] = 0
    /\ \A c \in loginSlot \cup regSlot :
        used[c] = 0 /\ \A h \in Handlers : Busy(h) => req[h] # c
    /\ \A h \in Handlers : Busy(h) => used[req[h]] = 0 /\ kind[req[h]] # "none"
    /\ \A h, g \in Handlers : Busy(h) /\ Busy(g) /\ req[h] = req[g] => h = g

\* Whatever is or was stored under a ceremony's name came from that ceremony.
FromCeremony ==
    \A c \in Ceremonies : c \in store.keys \cup disk.keys \cup removed => used[c] >= 1

PInv ==
    TypeOK /\ OnePlace /\ ChallengeUsedOnce /\ FromCeremony /\ KeysMatchHandle

\* After a save that worked memory and file agree, and memory keeps every promise.
Agreed == (file = "saved" => disk = store) /\ RemovedStaysOut /\ RegisteredKept

\* Replacing the passkeys, or the counts, of a store.
LEMMA StoreKeys ==
    ASSUME NEW s \in Store, NEW K \in SUBSET Keys
    PROVE  LET r == [s EXCEPT !.keys = K]
           IN  r \in Store /\ r.keys = K /\ r.handle = s.handle
BY DEF Store

LEMMA StoreCounts ==
    ASSUME NEW s \in Store, NEW f \in [Keys -> Nat]
    PROVE  LET r == [s EXCEPT !.count = f]
           IN  r \in Store /\ r.keys = s.keys /\ r.handle = s.handle
BY DEF Store

LEMMA PasskeyInit == Init => PInv /\ Agreed
BY CeremoniesAreNew
   DEF Init, PInv, Agreed, TypeOK, Store, Kinds, Keys, Empty, NoReply, OnePlace, Busy,
       ChallengeUsedOnce, FromCeremony, KeysMatchHandle, RemovedStaysOut, RegisteredKept

\* Every step, one action at a time.
LEMMA PasskeyNext == PInv /\ [Next]_vars => PInv'
<1> SUFFICES ASSUME PInv, [Next]_vars PROVE PInv'
  OBVIOUS
<1> USE DEF PInv
<1>1. ASSUME NEW c \in Ceremonies, LoginBegin(c) \/ RegisterBegin(c) PROVE PInv'
  BY <1>1 DEF LoginBegin, storeVars, RegisterBegin, deviceVars, history, TypeOK, Kinds, OnePlace, Busy,
     ChallengeUsedOnce, FromCeremony, KeysMatchHandle
<1>10. ASSUME NEW c \in Ceremonies, NEW k \in Keys, Sign(c, k) PROVE PInv'
  <2>1. device' \in [Keys -> Nat] /\ device'[k] \in Nat
    BY <1>10 DEF Sign, TypeOK
  <2>2. [key |-> {k}, count |-> device'[k]] \in [key : SUBSET Keys, count : Nat]
    BY <2>1
  <2>3. reply' \in [Ceremonies -> [key : SUBSET Keys, count : Nat]]
    BY <1>10, <2>2 DEF Sign, TypeOK
  <2>4. TypeOK'
    BY <1>10, <2>1, <2>3 DEF Sign, storeVars, history, TypeOK
  <2>5. OnePlace' /\ ChallengeUsedOnce' /\ FromCeremony' /\ KeysMatchHandle'
    BY <1>10 DEF Sign, storeVars, history, OnePlace, Busy, ChallengeUsedOnce, FromCeremony,
       KeysMatchHandle
  <2> QED
    BY <2>4, <2>5
<1>2. ASSUME NEW h \in Handlers, NEW c \in Ceremonies, LoginTake(h, c) PROVE PInv'
  <2>1. TypeOK'
    BY <1>2 DEF LoginTake, storeVars, deviceVars, history, TypeOK
  <2>2. OnePlace'
    <3>1. loginSlot' = {} /\ UNCHANGED <<regSlot, used, kind>>
      BY <1>2 DEF LoginTake, storeVars, history
    <3>2. CASE c \in loginSlot
      <4>1. /\ pc' = [pc EXCEPT ![h] = "verify"] /\ req' = [req EXCEPT ![h] = c]
            /\ kind[c] = "login" /\ ~Busy(h)
        BY <1>2, <3>2 DEF LoginTake, storeVars, Busy, TypeOK
      <4>2. used[c] = 0 /\ \A g \in Handlers : Busy(g) => req[g] # c
        BY <3>2 DEF OnePlace
      <4>3. c \notin regSlot
        BY <4>1 DEF TypeOK
      <4>4. \A g \in Handlers \ {h} : Busy(g)' = Busy(g) /\ req'[g] = req[g]
        BY <4>1 DEF Busy, TypeOK
      <4>5. req'[h] = c
        BY <4>1 DEF TypeOK
      <4> QED
        BY <3>1, <4>1, <4>2, <4>3, <4>4, <4>5 DEF OnePlace
    <3>3. CASE c \notin loginSlot
      BY <1>2, <3>1, <3>3 DEF LoginTake, storeVars, OnePlace, Busy
    <3> QED
      BY <3>2, <3>3
  <2>3. ChallengeUsedOnce' /\ FromCeremony' /\ KeysMatchHandle'
    BY <1>2 DEF LoginTake, storeVars, deviceVars, history, ChallengeUsedOnce, FromCeremony,
       KeysMatchHandle
  <2> QED
    BY <2>1, <2>2, <2>3
<1>3. ASSUME NEW h \in Handlers, NEW c \in Ceremonies, RegisterTake(h, c) PROVE PInv'
  <2>1. TypeOK'
    BY <1>3 DEF RegisterTake, storeVars, deviceVars, history, TypeOK
  <2>2. OnePlace'
    <3>1. regSlot' = {} /\ UNCHANGED <<loginSlot, used, kind>>
      BY <1>3 DEF RegisterTake, storeVars, history
    <3>2. CASE c \in regSlot
      <4>1. /\ pc' = [pc EXCEPT ![h] = "add"] /\ req' = [req EXCEPT ![h] = c]
            /\ kind[c] = "register" /\ ~Busy(h)
        BY <1>3, <3>2 DEF RegisterTake, storeVars, Busy
      <4>2. used[c] = 0 /\ \A g \in Handlers : Busy(g) => req[g] # c
        BY <3>2 DEF OnePlace
      <4>3. c \notin loginSlot
        BY <4>1 DEF TypeOK
      <4>4. \A g \in Handlers \ {h} : Busy(g)' = Busy(g) /\ req'[g] = req[g]
        BY <4>1 DEF Busy, TypeOK
      <4>5. req'[h] = c
        BY <4>1 DEF TypeOK
      <4> QED
        BY <3>1, <4>1, <4>2, <4>3, <4>4, <4>5 DEF OnePlace
    <3>3. CASE c \notin regSlot
      BY <1>3, <3>1, <3>3 DEF RegisterTake, storeVars, OnePlace, Busy
    <3> QED
      BY <3>2, <3>3
  <2>3. ChallengeUsedOnce' /\ FromCeremony' /\ KeysMatchHandle'
    BY <1>3 DEF RegisterTake, storeVars, deviceVars, history, ChallengeUsedOnce, FromCeremony,
       KeysMatchHandle
  <2> QED
    BY <2>1, <2>2, <2>3
<1>4. ASSUME NEW h \in Handlers, LoginVerify(h) \/ FinishFail(h) PROVE PInv'
  <2>1. /\ pc' \in [Handlers -> {"idle", "verify", "touch", "add"}]
        /\ \A g \in Handlers : Busy(g)' => Busy(g)
        /\ UNCHANGED <<storeVars, deviceVars, kind, reply, loginSlot, regSlot, req, restarts,
                       history>>
    BY <1>4 DEF LoginVerify, FinishFail, TypeOK, Busy
  <2>2. TypeOK'
    BY <2>1 DEF storeVars, deviceVars, history, TypeOK
  <2>3. OnePlace'
    BY <2>1 DEF history, OnePlace
  <2>4. ChallengeUsedOnce' /\ FromCeremony' /\ KeysMatchHandle'
    BY <2>1 DEF storeVars, deviceVars, history, ChallengeUsedOnce, FromCeremony,
       KeysMatchHandle
  <2> QED
    BY <2>2, <2>3, <2>4
<1>5. ASSUME NEW h \in Handlers, LoginTouch(h) PROVE PInv'
  <2>1. /\ store' \in Store /\ disk' \in Store
        /\ store'.keys = store.keys /\ store'.handle = store.handle
        /\ disk' = disk \/ disk' = store'
        /\ file' \in {"saved", "stale"}
    <3>1. PICK k \in Keys :
            IF k \in store.keys
            THEN /\ store' = [store EXCEPT
                                 !.count = [store.count EXCEPT ![k] = reply[req[h]].count]]
                 /\ saveLocked(store')
            ELSE UNCHANGED storeVars
      BY <1>5 DEF LoginTouch, storeVars, TypeOK
    <3>2. reply[req[h]].count \in Nat /\ store \in Store /\ disk \in Store
      BY DEF TypeOK
    <3>3. [store.count EXCEPT ![k] = reply[req[h]].count] \in [Keys -> Nat]
      BY <3>2 DEF Store
    <3>4. CASE k \in store.keys
      <4> DEFINE f == [store.count EXCEPT ![k] = reply[req[h]].count]
      <4>0. store' = [store EXCEPT !.count = f] /\ f \in [Keys -> Nat]
        BY <3>1, <3>3, <3>4
      <4> HIDE DEF f
      <4>1. /\ store' \in Store
            /\ store'.keys = store.keys /\ store'.handle = store.handle
        BY <3>2, <4>0, StoreCounts
      <4> QED
        BY <3>1, <3>2, <3>4, <4>1 DEF saveLocked
    <3> QED
      BY <3>1, <3>2, <3>4 DEF storeVars, TypeOK
  <2>2. TypeOK'
    BY <1>5, <2>1 DEF LoginTouch, storeVars, TypeOK, deviceVars
  <2>3. OnePlace' /\ ChallengeUsedOnce' /\ FromCeremony'
    BY <1>5, <2>1 DEF LoginTouch, storeVars, TypeOK, OnePlace, Busy, ChallengeUsedOnce, FromCeremony
  <2>4. KeysMatchHandle'
    BY <1>5, <2>1 DEF LoginTouch, storeVars, deviceVars, KeysMatchHandle
  <2> QED
    BY <2>2, <2>3, <2>4
<1>6. ASSUME NEW h \in Handlers, RegisterAdd(h) PROVE PInv'
  <2> DEFINE c == req[h]
  <2>1. /\ c \in Ceremonies /\ c \in Keys
        /\ used[c] = 0 /\ c \notin store.keys \cup disk.keys \cup removed
    BY <1>6 DEF RegisterAdd, TypeOK, OnePlace, Busy, FromCeremony, Keys
  <2>2. /\ store' \in Store /\ disk' \in Store
        /\ store'.keys = store.keys \cup {c} /\ store'.handle = store.handle
        /\ disk' = disk \/ disk' = store'
        /\ file' \in {"saved", "stale"}
    <3>1. /\ store' = [store EXCEPT !.keys = store.keys \cup {c}]
          /\ disk' = disk \/ disk' = store'
          /\ file' \in {"saved", "stale"}
        /\ file' \in {"saved", "stale"}
      BY <1>6 DEF RegisterAdd, saveLocked
    <3>2. store \in Store /\ disk \in Store /\ store.keys \cup {c} \in SUBSET Keys
      BY <2>1 DEF TypeOK, Store
    <3> QED
      BY <3>1, <3>2, StoreKeys
  <2> HIDE DEF c
  <2>7. /\ owner' = [owner EXCEPT ![c] = store.handle] /\ store.handle \in Nat
        /\ used' = [used EXCEPT ![c] = used[c] + 1] /\ pc' = [pc EXCEPT ![h] = "idle"]
        /\ registered' = registered \cup {c}
        /\ UNCHANGED <<device, kind, reply, loginSlot, regSlot, req, restarts, removed>>
    BY <1>6 DEF RegisterAdd, TypeOK, Store, c
  <2>3. TypeOK'
    BY <2>1, <2>2, <2>7 DEF TypeOK
  <2>8. used'[c] = 1 /\ \A d \in Ceremonies \ {c} : used'[d] = used[d]
    BY <2>1, <2>7 DEF TypeOK
  <2>9. Busy(h) /\ req[h] = c
    BY <1>6 DEF RegisterAdd, Busy, c
  <2>10. ~Busy(h)' /\ \A g \in Handlers \ {h} : Busy(g)' = Busy(g) /\ req[g] \in Ceremonies
    BY <2>7 DEF Busy, TypeOK
  <2>11. /\ c \notin loginSlot \cup regSlot /\ kind[c] # "none"
         /\ \A g \in Handlers \ {h} : Busy(g) => req[g] # c
    BY <2>9 DEF OnePlace
  <2>12. loginSlot \cup regSlot \subseteq Ceremonies
    BY DEF TypeOK
  <2>4. OnePlace' /\ ChallengeUsedOnce' /\ FromCeremony'
    <3>1. OnePlace'
      BY <2>7, <2>8, <2>10, <2>11, <2>12 DEF OnePlace
    <3>2. ChallengeUsedOnce'
      BY <2>8 DEF ChallengeUsedOnce
    <3>3. FromCeremony'
      BY <2>2, <2>7, <2>8 DEF FromCeremony
    <3> QED
      BY <3>1, <3>2, <3>3
  <2>6. KeysMatchHandle'
    BY <2>1, <2>2, <2>7 DEF KeysMatchHandle, TypeOK, Store
  <2> QED
    BY <2>3, <2>4, <2>6
<1>7. ASSUME NEW k \in Keys, remove(k) PROVE PInv'
  <2>1. /\ store' \in Store /\ disk' \in Store
        /\ store'.keys = store.keys \ {k} /\ store'.handle = store.handle
        /\ disk' = disk \/ disk' = store'
        /\ file' \in {"saved", "stale"}
    <3>1. /\ store' = [store EXCEPT !.keys = store.keys \ {k},
                                    !.count = [store.count EXCEPT ![k] = 0]]
          /\ disk' = disk \/ disk' = store'
          /\ file' \in {"saved", "stale"}
        /\ file' \in {"saved", "stale"}
      BY <1>7 DEF remove, saveLocked
    <3>2. /\ store \in Store /\ disk \in Store /\ store.keys \ {k} \in SUBSET Keys
          /\ [store.count EXCEPT ![k] = 0] \in [Keys -> Nat]
      BY DEF TypeOK, Store
    <3>3. LET r == [store EXCEPT !.keys = store.keys \ {k},
                                 !.count = [store.count EXCEPT ![k] = 0]]
          IN  r \in Store /\ r.keys = store.keys \ {k} /\ r.handle = store.handle
      BY <3>2 DEF Store
    <3> QED
      BY <3>1, <3>2, <3>3
  <2>2. TypeOK'
    BY <1>7, <2>1 DEF remove, TypeOK, deviceVars
  <2>3. OnePlace' /\ ChallengeUsedOnce'
    BY <1>7 DEF remove, OnePlace, Busy, ChallengeUsedOnce
  <2>4. FromCeremony'
    BY <1>7, <2>1 DEF remove, FromCeremony
  <2>5. KeysMatchHandle'
    BY <1>7, <2>1 DEF remove, deviceVars, KeysMatchHandle
  <2> QED
    BY <2>2, <2>3, <2>4, <2>5
<1>8. CASE Restart
  <2>1. /\ store' \in Store /\ disk' \in Store
        /\ store' = disk \/ store'.keys = {}
        /\ disk' = disk \/ disk' = store'
        /\ file' \in {"saved", "stale"}
    BY <1>8 DEF Restart, loadPasskeyStore, Empty, saveLocked, TypeOK, Store
  <2>2. TypeOK'
    BY <1>8, <2>1 DEF Restart, loadPasskeyStore, Forgive, TypeOK, deviceVars
  <2>3. OnePlace' /\ ChallengeUsedOnce'
    BY <1>8 DEF Restart, TypeOK, OnePlace, Busy, ChallengeUsedOnce
  <2>4. FromCeremony' /\ KeysMatchHandle'
    <3>1. removed' \subseteq removed /\ UNCHANGED <<used, owner>>
      BY <1>8 DEF Restart, loadPasskeyStore, Forgive, deviceVars
    <3> QED
      BY <2>1, <3>1 DEF FromCeremony, KeysMatchHandle
  <2> QED
    BY <2>2, <2>3, <2>4
<1>9. CASE UNCHANGED vars
  BY <1>9 DEF vars, storeVars, deviceVars, history, TypeOK, OnePlace, Busy, ChallengeUsedOnce, FromCeremony,
     KeysMatchHandle
<1> QED
  BY <1>1, <1>10, <1>2, <1>3, <1>4, <1>5, <1>6, <1>7, <1>8, <1>9 DEF Next

\* A save keeps the two together or is remembered as failed.
LEMMA AgreedNext == PInv /\ Agreed /\ [Next]_vars => Agreed'
<1> SUFFICES ASSUME PInv, Agreed, [Next]_vars PROVE Agreed'
  OBVIOUS
<1>1. ASSUME NEW h \in Handlers, RegisterAdd(h) PROVE Agreed'
  <2>1. req[h] \in Ceremonies /\ used[req[h]] = 0 /\ req[h] \notin removed
    BY <1>1 DEF RegisterAdd, PInv, TypeOK, OnePlace, Busy, FromCeremony
  <2>2. (file' = "saved" => disk' = store') /\ store'.keys = store.keys \cup {req[h]}
    BY <1>1 DEF RegisterAdd, saveLocked, PInv, TypeOK, Store
  <2> QED
    BY <1>1, <2>1, <2>2 DEF RegisterAdd, Agreed, RemovedStaysOut, RegisteredKept
<1>2. ASSUME NEW h \in Handlers, LoginTouch(h) PROVE Agreed'
  <2>1. (file' = "saved" => disk' = store') /\ store'.keys = store.keys
    BY <1>2 DEF LoginTouch, saveLocked, storeVars, Agreed, PInv, TypeOK, Store
  <2> QED
    BY <1>2, <2>1 DEF LoginTouch, Agreed, RemovedStaysOut, RegisteredKept
<1>3. ASSUME NEW k \in Keys, remove(k) PROVE Agreed'
  <2>1. (file' = "saved" => disk' = store') /\ store'.keys = store.keys \ {k}
    BY <1>3 DEF remove, saveLocked, PInv, TypeOK, Store
  <2> QED
    BY <1>3, <2>1 DEF remove, Agreed, RemovedStaysOut, RegisteredKept
<1>4. CASE Restart
  <2>1. file' = "saved" => disk' = store'
    BY <1>4 DEF Restart, loadPasskeyStore, saveLocked
  <2>2. Forgive \/ UNCHANGED <<store, registered, removed>>
    BY <1>4 DEF Restart, loadPasskeyStore, Agreed, PInv, TypeOK
  <2> QED
    BY <2>1, <2>2 DEF Forgive, Agreed, RemovedStaysOut, RegisteredKept
<1>5. ASSUME UNCHANGED <<store, disk, file, registered, removed>> PROVE Agreed'
  BY <1>5 DEF Agreed, RemovedStaysOut, RegisteredKept
<1> QED
  BY <1>1, <1>2, <1>3, <1>4, <1>5
     DEF Next, vars, storeVars, history, LoginBegin, RegisterBegin, Sign, LoginTake, RegisterTake,
         LoginVerify, FinishFail

-----------------------------------------------------------------------------
THEOREM PasskeysInductive == Spec => []PInv
<1> QED
  BY PasskeyInit, PasskeyNext, PTL DEF Spec

\* Every variable keeps its type.
THEOREM PasskeysTypeCorrect == Spec => []TypeOK
<1>1. PInv => TypeOK
  BY DEF PInv
<1> QED
  BY <1>1, PasskeysInductive, PTL

\* No challenge is accepted twice.
THEOREM AcceptedOnce == Spec => []ChallengeUsedOnce
<1>1. PInv => ChallengeUsedOnce
  BY DEF PInv
<1> QED
  BY <1>1, PasskeysInductive, PTL

\* Stored passkeys belong to the stored handle, whatever fails.
THEOREM StoredKeysUsable == Spec => []KeysMatchHandle
<1>1. PInv => KeysMatchHandle
  BY DEF PInv
<1> QED
  BY <1>1, PasskeysInductive, PTL

\* A removed passkey stays out, unless a start follows a save that failed or a
\* lost file.
THEOREM RemovalFinal == Spec => []RemovedStaysOut
<1>1. Init => PInv /\ Agreed
  BY PasskeyInit
<1>2. PInv /\ Agreed /\ [Next]_vars => (PInv /\ Agreed)'
  BY PasskeyNext, AgreedNext
<1>3. Agreed => RemovedStaysOut
  BY DEF Agreed
<1> QED
  BY <1>1, <1>2, <1>3, PTL DEF Spec

\* A registered passkey is kept until it is removed, under the same condition.
THEOREM RegistrationDurable == Spec => []RegisteredKept
<1>1. Init => PInv /\ Agreed
  BY PasskeyInit
<1>2. PInv /\ Agreed /\ [Next]_vars => (PInv /\ Agreed)'
  BY PasskeyNext, AgreedNext
<1>3. Agreed => RegisteredKept
  BY DEF Agreed
<1> QED
  BY <1>1, <1>2, <1>3, PTL DEF Spec

-----------------------------------------------------------------------------
(***************************************************************************)
(* The conversions of the page and of the server, for every byte string.   *)
(***************************************************************************)
Digit == 0 .. 63

LEMMA ArrayIsText ==
    ASSUME NEW S, NEW n \in Nat, NEW f \in [1 .. n -> S]
    PROVE  f \in Seq(S) /\ Len(f) = n
OBVIOUS

LEMMA AtByte == ASSUME NEW b \in Seq(Byte), NEW i \in Nat \ {0} PROVE At(b, i) \in Byte
<1>1. ASSUME i <= Len(b) PROVE b[i] \in Byte
  BY <1>1
<1>2. 0 \in Byte
  BY DEF Byte
<1> QED
  BY <1>1, <1>2 DEF At

\* The digits of a byte string are digits.
LEMMA SextetDigit ==
    ASSUME NEW b \in Seq(Byte), NEW j \in Nat \ {0}
    PROVE  Sextet(b, j) \in Digit
<1> DEFINE g == 3 * ((j - 1) \div 4)
<1>1. g \in Nat
  OBVIOUS
<1>2. At(b, g + 1) \in Byte /\ At(b, g + 2) \in Byte /\ At(b, g + 3) \in Byte
  BY <1>1, AtByte
<1>3. ASSUME NEW x \in Byte, NEW y \in Byte, NEW z \in Byte
      PROVE  /\ x \div 4 \in Digit
             /\ 16 * (x % 4) + y \div 16 \in Digit
             /\ 4 * (y % 16) + z \div 64 \in Digit
             /\ z % 64 \in Digit
  BY <1>3 DEF Byte, Digit
<1>4. (j - 1) % 4 \in 0 .. 3
  OBVIOUS
<1> HIDE DEF g
<1>5. CASE (j - 1) % 4 = 0
  BY <1>2, <1>3, <1>5 DEF Sextet, g
<1>6. CASE (j - 1) % 4 = 1
  BY <1>2, <1>3, <1>6 DEF Sextet, g
<1>7. CASE (j - 1) % 4 = 2
  BY <1>2, <1>3, <1>7 DEF Sextet, g
<1>8. CASE (j - 1) % 4 = 3
  BY <1>2, <1>3, <1>8 DEF Sextet, g
<1> QED
  BY <1>4, <1>5, <1>6, <1>7, <1>8

\* The digits of the group of bytes after the first 3q.
LEMMA SextetAt ==
    ASSUME NEW b \in Seq(Byte), NEW q \in Nat
    PROVE  /\ Sextet(b, 4 * q + 1) = At(b, 3 * q + 1) \div 4
           /\ Sextet(b, 4 * q + 2) = 16 * (At(b, 3 * q + 1) % 4) + At(b, 3 * q + 2) \div 16
           /\ Sextet(b, 4 * q + 3) = 4 * (At(b, 3 * q + 2) % 16) + At(b, 3 * q + 3) \div 64
           /\ Sextet(b, 4 * q + 4) = At(b, 3 * q + 3) % 64
<1>1. ASSUME NEW j, (j - 1) \div 4 = q, (j - 1) % 4 = 0
      PROVE  Sextet(b, j) = At(b, 3 * q + 1) \div 4
  BY <1>1 DEF Sextet
<1>2. ASSUME NEW j, (j - 1) \div 4 = q, (j - 1) % 4 = 1
      PROVE  Sextet(b, j) = 16 * (At(b, 3 * q + 1) % 4) + At(b, 3 * q + 2) \div 16
  BY <1>2 DEF Sextet
<1>3. ASSUME NEW j, (j - 1) \div 4 = q, (j - 1) % 4 = 2
      PROVE  Sextet(b, j) = 4 * (At(b, 3 * q + 2) % 16) + At(b, 3 * q + 3) \div 64
  BY <1>3 DEF Sextet
<1>4. ASSUME NEW j, (j - 1) \div 4 = q, (j - 1) % 4 = 3
      PROVE  Sextet(b, j) = At(b, 3 * q + 3) % 64
  BY <1>4 DEF Sextet
<1> DEFINE j1 == 4 * q + 1
           j2 == 4 * q + 2
           j3 == 4 * q + 3
           j4 == 4 * q + 4
<1>5. /\ (j1 - 1) \div 4 = q /\ (j1 - 1) % 4 = 0
      /\ (j2 - 1) \div 4 = q /\ (j2 - 1) % 4 = 1
      /\ (j3 - 1) \div 4 = q /\ (j3 - 1) % 4 = 2
      /\ (j4 - 1) \div 4 = q /\ (j4 - 1) % 4 = 3
  OBVIOUS
<1> HIDE DEF j1, j2, j3, j4
<1>6. /\ Sextet(b, j1) = At(b, 3 * q + 1) \div 4
      /\ Sextet(b, j2) = 16 * (At(b, 3 * q + 1) % 4) + At(b, 3 * q + 2) \div 16
      /\ Sextet(b, j3) = 4 * (At(b, 3 * q + 2) % 16) + At(b, 3 * q + 3) \div 64
      /\ Sextet(b, j4) = At(b, 3 * q + 3) % 64
  BY <1>1, <1>2, <1>3, <1>4, <1>5, Zenon
<1> QED
  BY <1>6 DEF j1, j2, j3, j4

\* The pads at the end are all that is taken away.
LEMMA UnpaddedPadded ==
    ASSUME NEW S, NEW s \in Seq(S), Pad \notin S, NEW m \in Nat
    PROVE  Unpadded(s \o [i \in 1 .. m |-> Pad]) = s
<1> DEFINE t == s \o [i \in 1 .. m |-> Pad]
           P(n) == (\A i \in n + 1 .. Len(t) : t[i] = Pad) /\ (n > 0 => t[n] # Pad)
<1>1. [i \in 1 .. m |-> Pad] \in Seq({Pad}) /\ Len([i \in 1 .. m |-> Pad]) = m
  OBVIOUS
<1>2. /\ Len(t) = Len(s) + m
      /\ \A i \in 1 .. Len(s) : t[i] = s[i] /\ t[i] # Pad
      /\ \A i \in Len(s) + 1 .. Len(s) + m : t[i] = Pad
  BY <1>1
<1>3. t \in Seq(S \cup {Pad})
  BY <1>1
<1> HIDE DEF t
<1>4. Len(s) \in 0 .. Len(t) /\ P(Len(s))
  BY <1>2
<1>5. \A n \in 0 .. Len(t) : P(n) => n = Len(s)
  BY <1>2
<1>6. (CHOOSE n \in 0 .. Len(t) : P(n)) = Len(s)
  BY <1>4, <1>5
<1>7. SubSeq(t, 1, Len(s)) = s
  BY <1>2, <1>3
<1> QED
  BY <1>6, <1>7 DEF Unpadded, t

-----------------------------------------------------------------------------
\* The text of a byte string, in the alphabet of atob.
Digits(b) == [j \in 1 .. DigitCount(Len(b)) |-> Sextet(b, j)]

LEMMA DigitsTyped ==
    ASSUME NEW b \in Seq(Byte)
    PROVE  Digits(b) \in Seq(Digit) /\ Len(Digits(b)) = DigitCount(Len(b))
<1>1. DigitCount(Len(b)) \in Nat
  BY DEF DigitCount
<1>2. \A j \in 1 .. DigitCount(Len(b)) : Sextet(b, j) \in Digit
  BY <1>1, SextetDigit
<1> QED
  BY <1>1, <1>2 DEF Digits

\* Four digits are put together again as the three bytes they were.
LEMMA OctetsBack ==
    ASSUME NEW b \in Seq(Byte), NEW i \in 1 .. Len(b)
    PROVE  Octet(Digits(b), i) = b[i]
<1> DEFINE q == (i - 1) \div 3
           x == At(b, 3 * q + 1)
           y == At(b, 3 * q + 2)
           z == At(b, 3 * q + 3)
           D == Digits(b)
<1>1. q \in Nat /\ i = 3 * q + ((i - 1) % 3) + 1 /\ (i - 1) % 3 \in 0 .. 2
  OBVIOUS
<1>2. x \in Byte /\ y \in Byte /\ z \in Byte
  BY <1>1, AtByte
<1>3. \A r \in 0 .. 3 : 4 * q + r + 1 \in 1 .. DigitCount(Len(b)) =>
          D[4 * q + r + 1] = Sextet(b, 4 * q + r + 1)
  BY DEF Digits
<1> HIDE DEF q
<1>4. /\ Sextet(b, 4 * q + 1) = x \div 4
      /\ Sextet(b, 4 * q + 2) = 16 * (x % 4) + y \div 16
      /\ Sextet(b, 4 * q + 3) = 4 * (y % 16) + z \div 64
      /\ Sextet(b, 4 * q + 4) = z % 64
  BY <1>1, SextetAt
<1> HIDE DEF x, y, z, D
<1>6. CASE (i - 1) % 3 = 0
  <2>1. 4 * q + 1 \in 1 .. DigitCount(Len(b)) /\ 4 * q + 2 \in 1 .. DigitCount(Len(b))
    BY <1>1, <1>6 DEF DigitCount
  <2>2. D[4 * q + 1] = x \div 4 /\ D[4 * q + 2] = 16 * (x % 4) + y \div 16
    BY <1>1, <1>3, <1>4, <2>1
  <2>3. 4 * (x \div 4) + (16 * (x % 4) + y \div 16) \div 16 = x
    BY <1>2 DEF Byte
  <2>4. x = b[i]
    BY <1>1, <1>6 DEF x, At
  <2>5. Octet(D, i) = 4 * D[4 * q + 1] + D[4 * q + 2] \div 16
    BY <1>6 DEF Octet, q
  <2> QED
    BY <2>2, <2>3, <2>4, <2>5 DEF D
<1>7. CASE (i - 1) % 3 = 1
  <2>1. 4 * q + 2 \in 1 .. DigitCount(Len(b)) /\ 4 * q + 3 \in 1 .. DigitCount(Len(b))
    BY <1>1, <1>7 DEF DigitCount
  <2>2. D[4 * q + 2] = 16 * (x % 4) + y \div 16 /\ D[4 * q + 3] = 4 * (y % 16) + z \div 64
    BY <1>1, <1>3, <1>4, <2>1
  <2>3. 16 * ((16 * (x % 4) + y \div 16) % 16) + (4 * (y % 16) + z \div 64) \div 4 = y
    BY <1>2 DEF Byte
  <2>4. y = b[i]
    BY <1>1, <1>7 DEF y, At
  <2>5. Octet(D, i) = 16 * (D[4 * q + 2] % 16) + D[4 * q + 3] \div 4
    BY <1>7 DEF Octet, q
  <2> QED
    BY <2>2, <2>3, <2>4, <2>5 DEF D
<1>8. CASE (i - 1) % 3 = 2
  <2>1. 4 * q + 3 \in 1 .. DigitCount(Len(b)) /\ 4 * q + 4 \in 1 .. DigitCount(Len(b))
    BY <1>1, <1>8 DEF DigitCount
  <2>2. D[4 * q + 3] = 4 * (y % 16) + z \div 64 /\ D[4 * q + 4] = z % 64
    BY <1>1, <1>3, <1>4, <2>1
  <2>3. 64 * ((4 * (y % 16) + z \div 64) % 4) + (z % 64) = z
    <3>1. \A u \in 0 .. 15 : (4 * u + z \div 64) % 4 = z \div 64
      BY <1>2 DEF Byte
    <3>2. y % 16 \in 0 .. 15 /\ 64 * (z \div 64) + (z % 64) = z
      BY <1>2 DEF Byte
    <3> QED
      BY <3>1, <3>2
  <2>4. z = b[i]
    BY <1>1, <1>8 DEF z, At
  <2>5. Octet(D, i) = 64 * (D[4 * q + 3] % 4) + D[4 * q + 4]
    BY <1>8 DEF Octet, q
  <2> QED
    BY <2>2, <2>3, <2>4, <2>5 DEF D
<1> QED
  BY <1>1, <1>6, <1>7, <1>8
-----------------------------------------------------------------------------
\* The page reads every byte string the server writes as what it was: challenges,
\* account handles and credential identifiers reach the authenticator unchanged.
THEOREM PageReadsServer ==
    ASSUME NEW b \in Seq(Byte)
    PROVE  pkB64uToBuf(RawURLEncoding(b)) = b
<1> DEFINE D == Digits(b)
           t == RawURLEncoding(b)
           u == Replace(Replace(t, Minus, Plus), Underscore, Slash)
<1>1. D \in Seq(Digit) /\ Len(D) = DigitCount(Len(b)) /\ Len(b) \in Nat
      /\ DigitCount(Len(b)) \in Nat
  BY DigitsTyped DEF DigitCount
<1>2. u = D
  <2>1. t = [j \in 1 .. Len(D) |-> Url(D[j])]
    BY <1>1 DEF RawURLEncoding, Url, Digits
  <2>2. \A j \in 1 .. Len(D) : D[j] \in Digit
    BY <1>1
  <2> DEFINE v == Replace(t, Minus, Plus)
  <2> HIDE DEF D, t
  <2>3. v = [j \in 1 .. Len(D) |-> IF Url(D[j]) = Minus THEN Plus ELSE Url(D[j])]
    BY <1>1, <2>1 DEF Replace
  <2> HIDE DEF v
  <2>4. Len(v) = Len(D)
    BY <1>1, <2>3
  <2>5. ASSUME NEW d \in Digit
        PROVE  LET e == IF Url(d) = Minus THEN Plus ELSE Url(d)
               IN  (IF e = Underscore THEN Slash ELSE e) = d
    BY <2>5 DEF Url, Digit, Plus, Slash, Minus, Underscore
  <2>6. u = [j \in 1 .. Len(v) |-> IF v[j] = Underscore THEN Slash ELSE v[j]]
    BY DEF Replace, v
  <2>7. \A j \in 1 .. Len(D) : (IF v[j] = Underscore THEN Slash ELSE v[j]) = D[j]
    BY <2>2, <2>3, <2>5
  <2>8. u = [j \in 1 .. Len(D) |-> D[j]]
    BY <2>4, <2>6, <2>7
  <2> QED
    BY <1>1, <2>8
<1> HIDE DEF u
<1>3. Unpadded(Padded(D)) = D
  <2>1. Pad \notin Digit /\ PadCount(Len(D)) \in Nat
    BY <1>1 DEF Pad, Digit, PadCount
  <2> QED
    BY <1>1, <2>1, UnpaddedPadded DEF Padded
<1>4. /\ \A i \in 1 .. Len(D) : D[i] \in 0 .. 63
      /\ Len(D) % 4 # 1
      /\ ByteCount(Len(D)) = Len(b)
  <2>1. \A n \in Nat : /\ ((4 * n + 2) \div 3) % 4 # 1
                       /\ (3 * ((4 * n + 2) \div 3)) \div 4 = n
    <3>1. ASSUME NEW k \in Nat, NEW r \in 0 .. 2
          PROVE  /\ ((4 * (3 * k + r) + 2) \div 3) % 4 # 1
                 /\ (3 * ((4 * (3 * k + r) + 2) \div 3)) \div 4 = 3 * k + r
      <4>1. (4 * (3 * k + r) + 2) \div 3 = 4 * k + (IF r = 0 THEN 0 ELSE r + 1)
        BY <3>1
      <4> QED
        BY <3>1, <4>1
    <3>2. \A n \in Nat : n \div 3 \in Nat /\ n % 3 \in 0 .. 2 /\ n = 3 * (n \div 3) + (n % 3)
      OBVIOUS
    <3> QED
      BY <3>1, <3>2
  <2> HIDE DEF D
  <2>2. \A i \in 1 .. Len(D) : D[i] \in 0 .. 63
    <3>1. \A i \in 1 .. Len(D) : D[i] \in Digit
      BY <1>1
    <3> QED
      BY <3>1, Zenon DEF Digit
  <2> QED
    BY <1>1, <2>1, <2>2 DEF DigitCount, ByteCount
<1>5. atob(Padded(D)) = [i \in 1 .. Len(b) |-> Octet(D, i)]
  BY <1>3, <1>4 DEF atob
<1>6. \A i \in 1 .. Len(b) : Octet(D, i) = b[i]
  BY OctetsBack
<1> QED
  BY <1>2, <1>5, <1>6 DEF pkB64uToBuf, u

\* The page writes every byte string as the server writes it, without padding.
THEOREM PageWritesServer ==
    ASSUME NEW b \in Seq(Byte)
    PROVE  pkBufToB64u(b) = RawURLEncoding(b)
<1> DEFINE D == Digits(b)
           t == RawURLEncoding(b)
           n == Len(D)
           m == PadCount(n)
           r == Replace(Replace(btoa(b), Plus, Minus), Slash, Underscore)
<1>1. D \in Seq(Digit) /\ n = DigitCount(Len(b)) /\ n \in Nat /\ m \in Nat
  BY DigitsTyped DEF PadCount
<1>2. t = [j \in 1 .. n |-> Url(D[j])]
  <2>1. t = [j \in 1 .. DigitCount(Len(b)) |-> Url(Sextet(b, j))]
    BY DEF RawURLEncoding, Url
  <2>2. \A j \in 1 .. n : D[j] = Sextet(b, j)
    BY <1>1 DEF Digits
  <2> HIDE DEF D, t, n
  <2> QED
    BY <1>1, <2>1, <2>2
<1>3. btoa(b) = D \o [i \in 1 .. m |-> Pad]
  BY <1>1 DEF btoa, Padded, Digits
<1>4. \A j \in 1 .. n : D[j] \in Digit /\ Url(D[j]) \in 0 .. 65
  BY <1>1 DEF Digit, Url, Plus, Slash, Minus, Underscore
<1> HIDE DEF D, t, m, n
<1>5. t \in Seq(0 .. 65) /\ Len(t) = n
  <2>1. ASSUME NEW f, f = [j \in 1 .. n |-> Url(D[j])]
        PROVE  f \in Seq(0 .. 65) /\ Len(f) = n
    <3>1. f \in [1 .. n -> 0 .. 65]
      BY <1>4, <2>1, Zenon
    <3>2. n \in Nat
      BY <1>1
    <3> QED
      BY <3>1, <3>2, ArrayIsText
  <2> QED
    BY <1>2, <2>1
<1>6. r = t \o [i \in 1 .. m |-> Pad]
  <2> DEFINE p == [i \in 1 .. m |-> Pad]
             x == D \o p
             y == [i \in 1 .. n + m |-> IF x[i] = Plus THEN Minus ELSE x[i]]
  <2>1. p \in Seq({Pad}) /\ Len(p) = m /\ \A i \in 1 .. m : p[i] = Pad
    BY <1>1
  <2> HIDE DEF p
  <2>2. Len(D) = n
    BY DEF n
  <2>3. /\ Len(x) = n + m
        /\ \A i \in 1 .. n : x[i] = D[i]
        /\ \A i \in n + 1 .. n + m : x[i] = Pad
    BY <1>1, <2>1, <2>2
  <2>4. /\ Len(t \o p) = n + m /\ t \o p \in Seq(0 .. 65 \cup {Pad})
        /\ \A i \in 1 .. n : (t \o p)[i] = Url(D[i])
        /\ \A i \in n + 1 .. n + m : (t \o p)[i] = Pad
    BY <1>1, <1>2, <1>5, <2>1
  <2> HIDE DEF x
  <2>5. btoa(b) = x
    BY <1>3 DEF x, p
  <2>6. Replace(x, Plus, Minus) = y /\ Len(y) = n + m
    BY <1>1, <2>3 DEF Replace
  <2>7. \A i \in 1 .. n + m : y[i] = IF x[i] = Plus THEN Minus ELSE x[i]
    OBVIOUS
  <2> HIDE DEF y
  <2>8. r = [i \in 1 .. n + m |-> IF y[i] = Slash THEN Underscore ELSE y[i]]
    BY <2>5, <2>6 DEF Replace
  <2>9. ASSUME NEW i \in 1 .. n + m
        PROVE  (IF y[i] = Slash THEN Underscore ELSE y[i]) = (t \o p)[i]
    <3>1. CASE i \in 1 .. n
      <4>1. x[i] \in Digit /\ (t \o p)[i] = Url(x[i])
        BY <1>4, <2>3, <2>4, <3>1
      <4>2. y[i] = IF x[i] = Plus THEN Minus ELSE x[i]
        BY <2>7
      <4> QED
        BY <4>1, <4>2 DEF Url, Digit, Plus, Slash, Minus, Underscore
    <3>2. CASE i \in n + 1 .. n + m
      <4>1. x[i] = Pad /\ (t \o p)[i] = Pad
        BY <2>3, <2>4, <3>2
      <4>2. y[i] = IF x[i] = Plus THEN Minus ELSE x[i]
        BY <2>7
      <4> QED
        BY <4>1, <4>2 DEF Pad, Plus, Slash
    <3>3. n \in Nat /\ m \in Nat
      BY <1>1
    <3>4. i \in 1 .. n \/ i \in n + 1 .. n + m
      BY <3>3
    <3> QED
      BY <3>1, <3>2, <3>4, Zenon
  <2>10. t \o p = [i \in 1 .. n + m |-> (t \o p)[i]]
    <3> DEFINE tp == t \o p
    <3>1. tp \in Seq(0 .. 65 \cup {Pad}) /\ Len(tp) = n + m
      BY <2>4
    <3> HIDE DEF tp
    <3>2. tp = [i \in 1 .. n + m |-> tp[i]]
      BY <3>1
    <3> QED
      BY <3>2 DEF tp
  <2> HIDE DEF r
  <2>11. r = t \o p
    BY <2>8, <2>9, <2>10
  <2> QED
    BY <2>11 DEF p
<1>7. Pad \notin 0 .. 65
  BY DEF Pad
<1> QED
  BY <1>1, <1>5, <1>6, <1>7, UnpaddedPadded DEF pkBufToB64u, t

-----------------------------------------------------------------------------
(***************************************************************************)
(* The composition does what the service allows.                           *)
(***************************************************************************)
LEMMA FreshIs ==
    ASSUME NEW b \in Browsers, CanBegin(b)
    PROVE  Fresh \in Ceremonies /\ kind[Fresh] = "none"
BY DEF CanBegin, Fresh

LEMMA PageStep == PagesTypeOK /\ [PageNext]_allVars => [Next]_vars
<1> SUFFICES ASSUME PagesTypeOK, [PageNext]_allVars PROVE Next \/ UNCHANGED vars
  OBVIOUS
<1>1. ASSUME NEW b \in Browsers, RegisterClick(b) \/ LoginClick(b) PROVE Next
  <2>1. RegisterBegin(Fresh) \/ LoginBegin(Fresh)
    BY <1>1 DEF RegisterClick, LoginClick
  <2>2. Fresh \in Ceremonies
    BY <1>1, FreshIs DEF RegisterClick, LoginClick
  <2> QED
    BY <2>1, <2>2 DEF Next
<1>2. ASSUME NEW b \in Browsers, NEW d \in Devices, NEW k \in Keys, Get(b, d, k) PROVE Next
  <2>1. page[b].c \in Ceremonies
    BY DEF PagesTypeOK, Page
  <2> QED
    BY <1>2, <2>1 DEF Get, Next
<1>3. ASSUME NEW b \in Browsers, Sends(b) PROVE Next \/ UNCHANGED vars
  <2>1. page[b].c \in Ceremonies
    BY DEF PagesTypeOK, Page
  <2> QED
    BY <1>3, <2>1 DEF Sends, RegisterSend, LoginSend, Next
<1>4. ASSUME NEW h \in Handlers, Serves(h) PROVE Next
  BY <1>4 DEF Serves, Verifies, Refuses, Limits, Registers, SignsIn, Next
<1>5. ASSUME NEW b \in Browsers, NEW k \in Keys, Delete(b, k) PROVE Next
  BY <1>5 DEF Delete, Next
<1>6. CASE ServiceRestarts
  BY <1>6 DEF ServiceRestarts, Next
<1>7. ASSUME NEW b \in Browsers,
             PasswordSignIn(b) \/ SessionEnds(b) \/ Cancel(b) \/ Loads(b) \/ Close(b)
                \/ \E d \in Devices : Create(b, d)
      PROVE  UNCHANGED vars
  BY <1>7 DEF PasswordSignIn, SessionEnds, Cancel, Loads, Close, Create
<1>8. CASE UNCHANGED allVars
  BY <1>8 DEF allVars
<1> QED
  BY <1>1, <1>2, <1>3, <1>4, <1>5, <1>6, <1>7, <1>8 DEF PageNext

-----------------------------------------------------------------------------
(***************************************************************************)
(* The invariant.                                                          *)
(***************************************************************************)

\* Neither accepted nor being looked at.
Quiet(c) == used[c] = 0 /\ \A h \in Handlers : Busy(h) => req[h] # c

Refusals == {"unauthorized", "refused", "limited", "NotAllowedError", "InvalidStateError"}

\* The page's ceremony is its own.
Tracks(x) == page[x].at # "idle" \/ page[x].shows \in Refusals

Own ==
    /\ \A x \in Browsers : Tracks(x) => kind[page[x].c] # "none"
    /\ \A x, y \in Browsers : Tracks(x) /\ Tracks(y) /\ page[x].c = page[y].c => x = y

Tells(x) ==
    /\ page[x].at \in Running => page[x].shows = "" /\ ~page[x].accepted
    /\ page[x].at = "loading" => page[x].accepted
    /\ page[x].at \in {"prompt", "signed"} => Quiet(page[x].c)
    /\ page[x].shows \in Refusals =>
          Quiet(page[x].c) \/ (page[x].accepted /\ page[x].shows = "unauthorized")
    /\ page[x].accepted => used[page[x].c] = 1
    /\ page[x].shows = "registered" => kind[page[x].c] = "register" /\ used[page[x].c] = 1
    /\ page[x].shows = "signedin" => kind[page[x].c] = "login" /\ used[page[x].c] = 1

Told == \A x \in Browsers : Tells(x)

\* Which requests the service works on.
Working ==
    \A h \in Handlers : /\ pc[h] \in {"verify", "touch"} => kind[req[h]] = "login"
                        /\ pc[h] = "add" => kind[req[h]] = "register"

\* Sign counts known to the service are behind those of the authenticators.
CountsBehind ==
    /\ \A k \in Keys : store.count[k] <= device[k] /\ disk.count[k] <= device[k]
    /\ \A c \in Ceremonies : \A k \in reply[c].key : reply[c].count <= device[k]

\* A ceremony without a cause to be refused holds its slot, and its answer is
\* newer than the stored passkey that signed it.
InSlot ==
    \A x \in Browsers : page[x].at \in {"prompt", "signed"} /\ ~page[x].disturbed =>
        /\ kind[page[x].c] = "login" => page[x].c \in loginSlot
        /\ kind[page[x].c] = "register" => page[x].c \in regSlot

SignedWell ==
    \A x \in Browsers :
        page[x].at \in {"signed", "waiting"} /\ kind[page[x].c] = "login" =>
            \E k \in Keys : /\ reply[page[x].c].key = {k}
                            /\ ~page[x].disturbed => /\ k \in registered
                                                     /\ reply[page[x].c].count > store.count[k]

\* Two registrations under way overlap; one that made its passkey, and one that
\* is stored, has it on an authenticator.
Present(k) == (\E d \in Devices : k \in holds[d]) \/ k \in overlap

Made(c) ==
    \/ \E x \in Browsers :
        page[x].at \in {"signed", "waiting"} /\ page[x].c = c /\ kind[c] = "register"
    \/ \E h \in Handlers : pc[h] = "add" /\ req[h] = c

Beside == \A c, e \in UnderWay : c # e => c \in overlap
MadePresent == \A c \in Ceremonies : Made(c) => Present(c)
StoredPresent == \A k \in store.keys : Present(k) \/ reverted
Excluded ==
    \A x \in Browsers : \A k \in store.keys :
        Prompted(x, "register") => k \in page[x].exclude \/ k \in overlap \/ reverted

PageInv ==
    /\ PInv /\ Agreed /\ PagesTypeOK /\ Own /\ Told /\ Working /\ CountsBehind /\ InSlot
    /\ SignedWell /\ Beside /\ MadePresent /\ StoredPresent /\ Excluded
    /\ RefusedHasCause

LEMMA PageInitial == PageInit => PageInv
<1> SUFFICES ASSUME PageInit PROVE PageInv
  OBVIOUS
<1>1. PInv /\ Agreed
  BY PasskeyInit DEF PageInit
<1>2. (CHOOSE c \in Ceremonies : TRUE) \in Ceremonies
  BY SomeCeremony
<1>3. \A b \in Browsers : /\ page[b].at = "idle" /\ page[b].shows = ""
                          /\ ~page[b].accepted /\ page[b].disturbed = FALSE
  BY DEF PageInit
<1>4. \A h \in Handlers : pc[h] = "idle"
  BY DEF PageInit, Init
<1>5. UnderWay = {}
  BY <1>3, <1>4 DEF UnderWay, Running
<1>6. PagesTypeOK
  BY <1>2 DEF PageInit, PagesTypeOK, Page, Steps, Running, Messages, Keys
<1>7. Own /\ Told /\ Working /\ InSlot /\ SignedWell /\ RefusedHasCause
  BY <1>3, <1>4
     DEF Own, Tracks, Refusals, Running, Told, Working, Tells, InSlot, SignedWell,
         RefusedHasCause
<1>8. CountsBehind
  <2>1. \A k \in Keys : store.count[k] = 0 /\ disk.count[k] = 0 /\ device[k] = 0
    BY DEF PageInit, Init, Empty
  <2>2. \A c \in Ceremonies : reply[c].key = {}
    BY DEF PageInit, Init, NoReply
  <2> QED
    BY <2>1, <2>2 DEF CountsBehind
<1>9. Beside /\ MadePresent /\ Excluded
  BY <1>3, <1>4, <1>5 DEF Beside, MadePresent, Made, Excluded, Prompted
<1>10. StoredPresent
  <2>1. store.keys = First
    BY DEF PageInit, Init, Empty
  <2>2. UNION {holds[d] : d \in Devices} = First
    BY DEF PageInit
  <2>3. \A k \in First : \E d \in Devices : k \in holds[d]
    BY <2>2
  <2> QED
    BY <2>1, <2>3 DEF StoredPresent, Present
<1> QED
  BY <1>1, <1>6, <1>7, <1>8, <1>9, <1>10 DEF PageInv

-----------------------------------------------------------------------------
(***************************************************************************)
(* What an action does to the pages.                                       *)
(***************************************************************************)
LEMMA DisturbedIs ==
    ASSUME PagesTypeOK, NEW x \in Browsers
    PROVE  /\ page[x] \in Page /\ page[x].disturbed \in BOOLEAN
           /\ Disturbed(x) \in Page /\ Disturbed(x).disturbed = TRUE
           /\ Disturbed(x).at = page[x].at /\ Disturbed(x).c = page[x].c
           /\ Disturbed(x).exclude = page[x].exclude /\ Disturbed(x).shows = page[x].shows
           /\ Disturbed(x).accepted = page[x].accepted
BY DEF PagesTypeOK, Page, Disturbed

LEMMA EndsIs ==
    ASSUME PagesTypeOK, NEW b \in Browsers, NEW m \in Messages
    PROVE  /\ Ends(b, m) \in Page
           /\ Ends(b, m).at = "idle" /\ Ends(b, m).shows = m /\ Ends(b, m).c = page[b].c
           /\ Ends(b, m).disturbed = page[b].disturbed
           /\ Ends(b, m).accepted = page[b].accepted
BY DEF PagesTypeOK, Page, Ends, Steps

\* A success is loaded, anything else ends the ceremony.
LEMMA AnsweredIs ==
    ASSUME PagesTypeOK, NEW b \in Browsers, NEW m \in Messages
    PROVE  LET p == Answered(b, m)
           IN  /\ p \in Page /\ p.c = page[b].c /\ p.disturbed = page[b].disturbed
               /\ p.at \in {"idle", "loading"}
               /\ p.at = "loading" => /\ m \in {"registered", "signedin"} /\ p.accepted
                                      /\ p.shows = "" \/ (p.shows = m /\ m = "registered")
               /\ p.at = "idle" => /\ m \notin {"registered", "signedin"}
                                   /\ p.shows = m /\ p.accepted = page[b].accepted
<1>1. CASE m \in {"registered", "signedin"}
  <2> DEFINE n == IF m = "signedin" THEN "" ELSE m
  <2>1. n \in Messages /\ (n = "" \/ (n = m /\ m = "registered"))
    BY <1>1 DEF Messages
  <2>2. Answered(b, m) = [page[b] EXCEPT !.at = "loading", !.accepted = TRUE, !.shows = n]
    BY <1>1 DEF Answered
  <2> HIDE DEF n
  <2>3. page[b] \in Page /\ "loading" \in Steps
    BY DEF PagesTypeOK, Steps
  <2> QED
    BY <1>1, <2>1, <2>2, <2>3 DEF Page
<1>2. CASE m \notin {"registered", "signedin"}
  BY <1>2, EndsIs DEF Answered
<1> QED
  BY <1>1, <1>2

\* What the page shows before its dialog.
LEMMA BegunIs ==
    ASSUME NEW c \in Ceremonies, NEW K \in SUBSET Keys
    PROVE  /\ Begun(c, K) \in Page /\ Begun(c, K).at = "prompt" /\ Begun(c, K).c = c
           /\ Begun(c, K).exclude = K /\ Begun(c, K).shows = ""
           /\ Begun(c, K).disturbed = FALSE /\ ~Begun(c, K).accepted
BY DEF Begun, Page, Steps, Running, Messages

\* The identifiers are read as they were stored.
LEMMA Read ==
    ASSUME TypeOK
    PROVE  {pkB64uToBuf(RawURLEncoding(k)) : k \in store.keys} = store.keys
<1>1. \A k \in store.keys : k \in Seq(Byte)
  BY ByteStrings DEF TypeOK, Store
<1>2. \A k \in store.keys : pkB64uToBuf(RawURLEncoding(k)) = k
  BY <1>1, PageReadsServer
<1> QED
  BY <1>2

LEMMA AlwaysLegible ==
    ASSUME TypeOK, NEW c \in Ceremonies
    PROVE  Legible(c)
<1>1. c \in Seq(Byte)
  <2>1. c \in Keys
    BY DEF Keys
  <2> QED
    BY <2>1, ByteStrings
<1>2. pkB64uToBuf(RawURLEncoding(c)) = c
  BY <1>1, PageReadsServer
<1>3. \A k \in Keys : pkBufToB64u(k) = RawURLEncoding(k)
  <2>1. \A k \in Keys : k \in Seq(Byte)
    BY ByteStrings
  <2> QED
    BY <2>1, PageWritesServer
<1>4. reply[c].key \subseteq Keys /\ c \in Keys
  BY DEF TypeOK, Keys
<1> QED
  BY <1>2, <1>3, <1>4 DEF Legible

-----------------------------------------------------------------------------
(***************************************************************************)
(* What the service does by itself.                                        *)
(***************************************************************************)
LEMMA WorkingStep == PInv /\ Working /\ [Next]_vars => Working'
<1> SUFFICES ASSUME PInv, Working, [Next]_vars PROVE Working'
  OBVIOUS
<1>1. TypeOK
  BY DEF PInv
<1>2. ASSUME NEW c \in Ceremonies, LoginBegin(c) \/ RegisterBegin(c) PROVE Working'
  BY <1>1, <1>2 DEF LoginBegin, RegisterBegin, Working, TypeOK
<1>3. ASSUME NEW c \in Ceremonies, NEW k \in Keys, Sign(c, k) PROVE Working'
  BY <1>3 DEF Sign, Working
<1>4. ASSUME NEW h \in Handlers, NEW c \in Ceremonies, LoginTake(h, c) \/ RegisterTake(h, c)
      PROVE  Working'
  BY <1>1, <1>4 DEF LoginTake, RegisterTake, Working, TypeOK
<1>5. ASSUME NEW h \in Handlers,
             LoginVerify(h) \/ FinishFail(h) \/ LoginTouch(h) \/ RegisterAdd(h)
      PROVE  Working'
  BY <1>1, <1>5 DEF LoginVerify, FinishFail, LoginTouch, RegisterAdd, Working, TypeOK
<1>6. ASSUME NEW k \in Keys, remove(k) PROVE Working'
  BY <1>6 DEF remove, Working
<1>7. CASE Restart
  BY <1>7 DEF Restart, Working
<1>8. CASE UNCHANGED vars
  BY <1>8 DEF vars, Working
<1> QED
  BY <1>2, <1>3, <1>4, <1>5, <1>6, <1>7, <1>8 DEF Next

LEMMA CountsStep == PInv /\ CountsBehind /\ [Next]_vars => CountsBehind'
<1> SUFFICES ASSUME PInv, CountsBehind, [Next]_vars PROVE CountsBehind'
  OBVIOUS
<1>1. TypeOK
  BY DEF PInv
<1>2. ASSUME NEW c \in Ceremonies, NEW k \in Keys, Sign(c, k) PROVE CountsBehind'
  <2>1. \A e \in Keys : device'[e] \in Nat /\ device'[e] >= device[e]
    BY <1>1, <1>2 DEF Sign, TypeOK
  <2>2. reply'[c].key = {k} /\ reply'[c].count = device'[k]
    BY <1>1, <1>2 DEF Sign, TypeOK
  <2>3. \A e \in Ceremonies \ {c} : reply'[e] = reply[e]
    BY <1>1, <1>2 DEF Sign, TypeOK
  <2>4. /\ \A e \in Keys : store.count[e] \in Nat /\ disk.count[e] \in Nat /\ device[e] \in Nat
        /\ \A e \in Ceremonies : reply[e].key \subseteq Keys /\ reply[e].count \in Nat
    BY <1>1 DEF TypeOK, Store
  <2>5. UNCHANGED <<store, disk>>
    BY <1>2 DEF Sign, storeVars
  <2> QED
    BY <2>1, <2>2, <2>3, <2>4, <2>5 DEF CountsBehind
<1>3. ASSUME NEW h \in Handlers, LoginTouch(h) PROVE CountsBehind'
  <2>1. PICK k \in Keys : /\ k \in reply[req[h]].key
                          /\ IF k \in store.keys
                             THEN /\ store' = [store EXCEPT !.count =
                                         [store.count EXCEPT ![k] = reply[req[h]].count]]
                                  /\ saveLocked(store')
                             ELSE UNCHANGED storeVars
    BY <1>1, <1>3 DEF LoginTouch, TypeOK
  <2>2. \A e \in Keys : store'.count[e] <= device[e]
    <3> DEFINE n == reply[req[h]].count
    <3>1. req[h] \in Ceremonies /\ n \in Nat /\ n <= device[k]
      BY <1>1, <2>1 DEF CountsBehind, TypeOK
    <3> HIDE DEF n
    <3>2. store \in Store /\ \A e \in Keys : store.count[e] <= device[e]
      BY <1>1 DEF CountsBehind, TypeOK
    <3>3. CASE k \in store.keys
      <4>1. store'.count = [store.count EXCEPT ![k] = n]
        BY <2>1, <3>2, <3>3 DEF Store, n
      <4> QED
        BY <3>1, <3>2, <4>1 DEF Store
    <3>4. CASE k \notin store.keys
      BY <2>1, <3>2, <3>4 DEF storeVars
    <3> QED
      BY <3>3, <3>4
  <2>3. disk' = disk \/ disk' = store'
    BY <2>1 DEF saveLocked, storeVars
  <2> QED
    BY <1>3, <2>2, <2>3 DEF LoginTouch, CountsBehind, deviceVars
<1>4. ASSUME NEW h \in Handlers, RegisterAdd(h) PROVE CountsBehind'
  <2>1. store'.count = store.count
    BY <1>1, <1>4 DEF RegisterAdd, TypeOK, Store
  <2> QED
    BY <1>4, <2>1 DEF RegisterAdd, saveLocked, CountsBehind
<1>5. ASSUME NEW k \in Keys, remove(k) PROVE CountsBehind'
  <2>1. \A e \in Keys : store'.count[e] <= device[e]
    BY <1>1, <1>5 DEF remove, CountsBehind, TypeOK, Store
  <2> QED
    BY <1>5, <2>1 DEF remove, saveLocked, CountsBehind, deviceVars
<1>6. CASE Restart
  <2>1. \A e \in Keys : store'.count[e] <= device[e]
    BY <1>1, <1>6 DEF Restart, loadPasskeyStore, Empty, CountsBehind, TypeOK
  <2> QED
    BY <1>6, <2>1 DEF Restart, loadPasskeyStore, saveLocked, CountsBehind, deviceVars
<1>7. ASSUME UNCHANGED <<store, disk, device, reply>> PROVE CountsBehind'
  BY <1>7 DEF CountsBehind
<1> QED
  BY <1>2, <1>3, <1>4, <1>5, <1>6, <1>7
     DEF Next, vars, storeVars, deviceVars, LoginBegin, RegisterBegin, LoginTake, RegisterTake,
         LoginVerify, FinishFail

-----------------------------------------------------------------------------
(***************************************************************************)
(* Every step, one action of the pages at a time.                          *)
(***************************************************************************)
PagePart ==
    /\ PagesTypeOK /\ Own /\ Told /\ InSlot /\ SignedWell
    /\ Beside /\ MadePresent /\ StoredPresent /\ Excluded
    /\ RefusedHasCause

\* What page b can come to show on its own.
MayShow(b, m) ==
    /\ m \in Messages \ {"refused"} /\ page[b].at # "idle"
    /\ m \in Refusals /\ page[b].at \notin {"prompt", "signed"} =>
          page[b].at = "loading" /\ m = "unauthorized"
    /\ m = "registered" => page[b].at = "loading" /\ kind[page[b].c] = "register"
    /\ m = "signedin" => page[b].at = "loading" /\ kind[page[b].c] = "login"

\* A ceremony that ends on its page alone.
LEMMA PageEnds ==
    ASSUME PageInv, NEW b \in Browsers, NEW m, MayShow(b, m), Becomes(b, Ends(b, m), {}),
           UNCHANGED <<vars, session, holds, overlap, reverted>>
    PROVE  PagePart'
<1>1. /\ PagesTypeOK /\ Own /\ Told /\ InSlot /\ SignedWell /\ Beside /\ MadePresent
      /\ StoredPresent /\ Excluded /\ RefusedHasCause
  BY DEF PageInv
<1>2. /\ Ends(b, m) \in Page /\ Ends(b, m).at = "idle" /\ Ends(b, m).shows = m
      /\ Ends(b, m).c = page[b].c /\ Ends(b, m).disturbed = page[b].disturbed
      /\ Ends(b, m).accepted = page[b].accepted
  BY <1>1, EndsIs DEF MayShow
<1>3. /\ page' \in [Browsers -> Page]
      /\ page'[b].at = "idle" /\ page'[b].shows = m /\ page'[b].c = page[b].c
      /\ page'[b].accepted = page[b].accepted
      /\ \A x \in Browsers \ {b} :
           /\ page'[x].at = page[x].at /\ page'[x].c = page[x].c
           /\ page'[x].exclude = page[x].exclude /\ page'[x].shows = page[x].shows
           /\ page'[x].disturbed = page[x].disturbed
           /\ page'[x].accepted = page[x].accepted
  BY <1>1, <1>2, DisturbedIs DEF Becomes
<1>4. UNCHANGED <<store, kind, reply, loginSlot, regSlot, pc, req, used, registered>>
  BY DEF vars, storeVars, history
<1>5. PagesTypeOK'
  BY <1>1, <1>3 DEF PagesTypeOK
<1>6. Own' /\ Told' /\ RefusedHasCause'
  <2>1. \A x \in Browsers : Tracks(x)' => Tracks(x)
    BY <1>3 DEF MayShow, Tracks, Refusals
  <2>3. Own'
    <3>1. \A x \in Browsers : page'[x].c = page[x].c
      BY <1>3
    <3> HIDE DEF Tracks
    <3> QED
      BY <1>1, <1>4, <2>1, <3>1 DEF Own
  <2>4. Told'
    <3>1. ASSUME NEW x \in Browsers PROVE Tells(x)'
      <4>1. Tells(x) /\ page'[x].c = page[x].c
        BY <1>1, <1>3 DEF Told
      <4>q. \A e : Quiet(e)' <=> Quiet(e)
        BY <1>4 DEF Quiet, Busy
      <4>2. CASE x = b
        <5>1. m \in Refusals /\ ~Quiet(page[b].c) =>
                  page[b].accepted /\ m = "unauthorized"
          BY <4>1, <4>2 DEF MayShow, Tells
        <5>2. /\ m = "registered" => kind[page[b].c] = "register" /\ used[page[b].c] = 1
              /\ m = "signedin" => kind[page[b].c] = "login" /\ used[page[b].c] = 1
          BY <4>1, <4>2 DEF MayShow, Tells
        <5>3. page[b].accepted => used[page[b].c] = 1
          BY <4>1, <4>2 DEF Tells
        <5> HIDE DEF Quiet
        <5> QED
          BY <1>3, <1>4, <4>q, <4>2, <5>1, <5>2, <5>3 DEF Tells, Running
      <4>3. CASE x # b
        BY <1>3, <1>4, <4>q, <4>1, <4>3 DEF Tells, Running
      <4> QED
        BY <4>2, <4>3
    <3> QED
      BY <3>1 DEF Told
  <2>5. RefusedHasCause'
    BY <1>1, <1>3, <1>4 DEF RefusedHasCause, MayShow
  <2> QED
    BY <2>3, <2>4, <2>5
<1>7. InSlot' /\ SignedWell' /\ Excluded'
  <2>1. \A x \in Browsers : page'[x].at # "idle" =>
           /\ page'[x].at = page[x].at /\ page'[x].c = page[x].c
           /\ page'[x].exclude = page[x].exclude /\ page'[x].disturbed = page[x].disturbed
    BY <1>3
  <2>2. store' = store /\ overlap' = overlap /\ (reverted => reverted')
    BY <1>1, <1>4 DEF PagesTypeOK
  <2>3. InSlot'
    BY <1>1, <1>4, <2>1 DEF InSlot
  <2>4. SignedWell'
    BY <1>1, <1>4, <2>1 DEF SignedWell
  <2>5. Excluded'
    <3>1. ASSUME NEW x \in Browsers, NEW k \in store'.keys,
                 page'[x].at = "prompt" /\ kind'[page'[x].c] = "register"
          PROVE  k \in page'[x].exclude \/ k \in overlap' \/ reverted'
      <4>1. Prompted(x, "register") /\ page'[x].exclude = page[x].exclude
        BY <1>4, <2>1, <3>1 DEF Prompted
      <4>2. k \in page[x].exclude \/ k \in overlap \/ reverted
        BY <1>1, <2>2, <3>1, <4>1 DEF Excluded
      <4> QED
        BY <2>2, <4>1, <4>2
    <3> QED
      BY <3>1 DEF Excluded, Prompted
  <2> QED
    BY <2>3, <2>4, <2>5
<1>8. UnderWay' \subseteq UnderWay
  BY <1>3, <1>4 DEF UnderWay, Running
<1>9. \A c \in Ceremonies : Made(c)' => Made(c)
  BY <1>3, <1>4 DEF Made
<1>10. Beside' /\ MadePresent' /\ StoredPresent'
  BY <1>1, <1>4, <1>8, <1>9 DEF Beside, MadePresent, StoredPresent, Present
<1> QED
  BY <1>5, <1>6, <1>7, <1>10 DEF PagePart

\* A registration that is under way after a step that begins none was before.
LEMMA UnderWayEarlier ==
    ASSUME NEW e \in Ceremonies, kind'[e] = kind[e],
           \A x \in Browsers : page'[x].at \in Running /\ page'[x].c = e =>
                                  page[x].at \in Running /\ page[x].c = e,
           \A h \in Handlers : pc'[h] = "add" /\ req'[h] = e => pc[h] = "add" /\ req[h] = e
    PROVE  e \in UnderWay' => e \in UnderWay
BY DEF UnderWay

\* One whose passkey is made after a step that makes none had it made before.
LEMMA MadeEarlier ==
    ASSUME NEW e \in Ceremonies, kind'[e] = kind[e],
           \A x \in Browsers : page'[x].at \in {"signed", "waiting"} /\ page'[x].c = e =>
                                  page[x].at \in {"signed", "waiting"} /\ page[x].c = e,
           \A h \in Handlers : pc'[h] = "add" /\ req'[h] = e => pc[h] = "add" /\ req[h] = e
    PROVE  Made(e)' => Made(e)
BY DEF Made

\* A ceremony that begins, with or without its page.
LEMMA PageBegins ==
    ASSUME PageInv, NEW b \in Browsers, CanBegin(b),
           NEW which \in {"login", "register"}, NEW K \in SUBSET Keys,
           kind' = [kind EXCEPT ![Fresh] = which],
           which = "login" => loginSlot' = {Fresh} /\ regSlot' = regSlot,
           which = "register" => regSlot' = {Fresh} /\ loginSlot' = loginSlot /\ K = store.keys,
           UNCHANGED <<store, reply, pc, req, used, registered, session, holds, reverted>>,
           \/ /\ Becomes(b, Begun(Fresh, K), Rivals(b, which))
              /\ overlap' = IF which = "login" \/ UnderWay = {} THEN overlap
                            ELSE overlap \cup UnderWay \cup {Fresh}
           \/ Becomes(b, Ends(b, "lost"), Rivals(b, which)) /\ overlap' = overlap
    PROVE  PagePart'
<1> DEFINE c == Fresh
<1>1. /\ PagesTypeOK /\ Own /\ Told /\ InSlot /\ SignedWell /\ Beside /\ MadePresent
      /\ StoredPresent /\ Excluded /\ RefusedHasCause /\ Working
      /\ TypeOK /\ OnePlace
  BY DEF PageInv, PInv
<1>2. c \in Ceremonies /\ kind[c] = "none" /\ page[b].at = "idle"
  BY FreshIs DEF CanBegin
<1> DEFINE began == Begun(c, K)
           lost == Ends(b, "lost")
<1>3. /\ began \in Page /\ began.at = "prompt" /\ began.c = c /\ began.exclude = K
      /\ began.shows = "" /\ began.disturbed = FALSE /\ ~began.accepted
  BY <1>2, BegunIs
<1>4. /\ lost \in Page /\ lost.at = "idle" /\ lost.shows = "lost"
      /\ lost.disturbed = page[b].disturbed /\ lost.c = page[b].c
      /\ lost.accepted = page[b].accepted
  <2>1. "lost" \in Messages
    BY DEF Messages
  <2> QED
    BY <1>1, <2>1, EndsIs
<1> HIDE DEF c, began, lost
<1>5. /\ page' \in [Browsers -> Page] /\ page'[b] \in {began, lost}
      /\ \A x \in Browsers \ {b} :
           /\ page'[x].at = page[x].at /\ page'[x].c = page[x].c
           /\ page'[x].exclude = page[x].exclude /\ page'[x].shows = page[x].shows
           /\ page'[x].accepted = page[x].accepted
           /\ page'[x].disturbed = TRUE
              \/ (x \notin Rivals(b, which) /\ page'[x].disturbed = page[x].disturbed)
  <2>1. PICK p \in {began, lost} : Becomes(b, p, Rivals(b, which))
    BY DEF c, began, lost
  <2>2. p \in Page
    BY <1>3, <1>4
  <2>3. page'[b] = p /\ \A x \in Browsers \ {b} :
                            page'[x] = IF x \in Rivals(b, which) THEN Disturbed(x) ELSE page[x]
    BY <2>1 DEF Becomes
  <2>4. page' \in [Browsers -> Page]
    BY <1>1, <2>1, <2>2, DisturbedIs DEF Becomes, PagesTypeOK
  <2> QED
    BY <1>1, <2>3, <2>4, DisturbedIs
<1>6. /\ kind'[c] = which /\ \A e \in Ceremonies \ {c} : kind'[e] = kind[e]
      /\ \A e \in Ceremonies : kind[e] # "none" => e # c
  BY <1>1, <1>2 DEF TypeOK, c
<1>7. /\ \A x \in Browsers : page[x].c \in Ceremonies
      /\ \A x \in Browsers : Tracks(x) => page[x].c # c
  BY <1>1, <1>2 DEF PagesTypeOK, Page, Own
<1>8. used[c] = 0 /\ \A h \in Handlers : Busy(h) => req[h] # c /\ req[h] \in Ceremonies
  BY <1>1, <1>2 DEF OnePlace, TypeOK
<1>9. overlap \subseteq overlap' /\ overlap' \subseteq Ceremonies
  BY <1>1, <1>2 DEF PagesTypeOK, UnderWay, c
<1>10. PagesTypeOK'
  BY <1>1, <1>5, <1>9 DEF PagesTypeOK
<1>11. \A x \in Browsers \ {b} : page'[x].at # "idle" \/ page'[x].shows \in Refusals => Tracks(x)
  BY <1>5 DEF Tracks
<1>12. Own'
  <2>1. Tracks(b)' => page'[b].c = c
    BY <1>3, <1>4, <1>5 DEF Tracks, Refusals
  <2>2. \A x \in Browsers \ {b} :
           Tracks(x)' => /\ Tracks(x) /\ page'[x].c = page[x].c /\ page[x].c \in Ceremonies
                         /\ page[x].c # c
    BY <1>5, <1>7, <1>11 DEF Tracks
  <2> HIDE DEF Tracks
  <2> QED
    BY <1>1, <1>6, <2>1, <2>2 DEF Own
<1>13. Told'
  <2>1. Tells(b)'
    <3>1. CASE page'[b] = began
      <4>1. page'[b].c = c
        BY <1>3, <3>1
      <4>2. Quiet(page[b].c)'
        BY <1>8, <4>1 DEF Quiet, Busy
      <4> QED
        BY <1>3, <3>1, <4>2 DEF Tells, Refusals
    <3>2. CASE page'[b] = lost
      <4>1. page[b].accepted => used[page[b].c] = 1
        BY <1>1 DEF Told, Tells
      <4> QED
        BY <1>4, <3>2, <4>1 DEF Tells, Refusals, Running
    <3> QED
      BY <1>5, <3>1, <3>2
  <2>2. ASSUME NEW x \in Browsers \ {b} PROVE Tells(x)'
    <3>1. Tells(x) /\ page'[x].c = page[x].c /\ page'[x].at = page[x].at
          /\ page'[x].shows = page[x].shows /\ page'[x].accepted = page[x].accepted
      BY <1>1, <1>5 DEF Told
    <3>2. kind[page[x].c] # "none" => kind'[page[x].c] = kind[page[x].c]
      BY <1>6, <1>7
    <3>3. \A e : Quiet(e)' <=> Quiet(e)
      BY DEF Quiet, Busy
    <3> QED
      BY <3>1, <3>2, <3>3 DEF Tells
  <2> QED
    BY <2>1, <2>2 DEF Told
<1>14. RefusedHasCause'
  <2>1. page'[b].shows # "refused"
    BY <1>3, <1>4, <1>5
  <2> QED
    BY <1>1, <1>5, <2>1 DEF RefusedHasCause
<1>15. InSlot'
  <2>1. ASSUME NEW x \in Browsers \ {b}, page[x].at \in {"prompt", "signed"},
               ~page'[x].disturbed
        PROVE  kind'[page[x].c] = kind[page[x].c] /\ kind[page[x].c] # which
               /\ ~page[x].disturbed
    BY <1>5, <1>6, <1>7, <2>1 DEF Tracks, Rivals
  <2>2. page'[b].at \in {"prompt", "signed"} => page'[b].c = c
    BY <1>3, <1>4, <1>5
  <2>3. /\ which = "login" => loginSlot' = {c} /\ regSlot' = regSlot
        /\ which = "register" => regSlot' = {c} /\ loginSlot' = loginSlot
    BY DEF c
  <2>4. ASSUME NEW x \in Browsers, page'[x].at \in {"prompt", "signed"}, ~page'[x].disturbed
        PROVE  /\ kind'[page'[x].c] = "login" => page'[x].c \in loginSlot'
               /\ kind'[page'[x].c] = "register" => page'[x].c \in regSlot'
    <3>1. CASE x = b
      BY <1>6, <2>2, <2>3, <2>4, <3>1
    <3>2. CASE x # b
      <4>1. page[x].at \in {"prompt", "signed"} /\ page'[x].c = page[x].c
        BY <1>5, <2>4, <3>2
      <4>2. kind'[page[x].c] = kind[page[x].c] /\ kind[page[x].c] # which /\ ~page[x].disturbed
        BY <2>1, <2>4, <3>2, <4>1
      <4>3. /\ kind[page[x].c] = "login" => page[x].c \in loginSlot
            /\ kind[page[x].c] = "register" => page[x].c \in regSlot
        BY <1>1, <4>1, <4>2 DEF InSlot
      <4> QED
        BY <2>3, <4>1, <4>2, <4>3
    <3> QED
      BY <3>1, <3>2
  <2> QED
    BY <2>4 DEF InSlot
<1>16. SignedWell'
  <2>1. page'[b].at \notin {"signed", "waiting"}
    BY <1>3, <1>4, <1>5
  <2>2. ASSUME NEW x \in Browsers \ {b}, page'[x].at \in {"signed", "waiting"}
        PROVE  /\ page[x].at \in {"signed", "waiting"} /\ page'[x].c = page[x].c
               /\ kind'[page[x].c] = kind[page[x].c]
               /\ ~page'[x].disturbed => ~page[x].disturbed
    BY <1>5, <1>6, <1>7, <2>2 DEF Tracks
  <2> QED
    BY <1>1, <2>1, <2>2 DEF SignedWell
<1>17. /\ \A e \in Ceremonies : e \in UnderWay' => e \in UnderWay \/ e = c
       /\ c \in UnderWay' => /\ page'[b] = began /\ which = "register"
       /\ \A e \in Ceremonies : Made(e)' => Made(e)
  <2>1. ASSUME NEW e \in Ceremonies, e # c PROVE e \in UnderWay' => e \in UnderWay
    <3>1. kind'[e] = kind[e]
      BY <1>6, <2>1
    <3>2. \A x \in Browsers : page'[x].at \in Running /\ page'[x].c = e =>
                                 page[x].at \in Running /\ page[x].c = e
      BY <1>3, <1>4, <1>5, <2>1 DEF Running
    <3> QED
      BY <3>1, <3>2, UnderWayEarlier
  <2>2. \A x \in Browsers \ {b} : page'[x].at \in Running => page'[x].c # c
    BY <1>5, <1>7 DEF Tracks, Running
  <2>3. c \in UnderWay' => /\ page'[b] = began /\ which = "register"
    BY <1>4, <1>5, <1>6, <1>8, <2>2 DEF UnderWay, Busy, Running
  <2>4. ASSUME NEW e \in Ceremonies, Made(e)' PROVE Made(e)
    <3>1. \A x \in Browsers : page'[x].at \in {"signed", "waiting"} =>
                                 page[x].at = page'[x].at /\ page[x].c = page'[x].c
      BY <1>3, <1>4, <1>5
    <3>2. e = c => ~Made(e)'
      BY <1>3, <1>4, <1>5, <1>8, <2>2 DEF Made, Busy, Running
    <3>3. kind'[e] = kind[e]
      BY <1>6, <2>4, <3>2
    <3> QED
      BY <2>4, <3>1, <3>3, MadeEarlier
  <2> QED
    BY <2>1, <2>3, <2>4
<1>18. Beside'
  <2>1. page'[b] = began /\ which = "register" /\ UnderWay # {} =>
            overlap' = overlap \cup UnderWay \cup {c}
    BY <1>2, <1>3, <1>4, DisturbedIs DEF Becomes, c, began, lost
  <2>2. UnderWay' \subseteq Ceremonies
    BY DEF UnderWay
  <2> QED
    BY <1>1, <1>9, <1>17, <2>1, <2>2 DEF Beside
<1>19. MadePresent' /\ StoredPresent'
  BY <1>1, <1>9, <1>17 DEF MadePresent, StoredPresent, Present
<1>20. Excluded'
  <2>1. ASSUME Prompted(b, "register")' PROVE page'[b].exclude = store.keys
    BY <1>3, <1>4, <1>5, <1>6, <2>1 DEF Prompted
  <2>2. ASSUME NEW x \in Browsers \ {b}, Prompted(x, "register")'
        PROVE  Prompted(x, "register") /\ page'[x].exclude = page[x].exclude
    BY <1>5, <1>6, <1>7, <2>2 DEF Prompted, Tracks
  <2> HIDE DEF Prompted
  <2> QED
    BY <1>1, <1>9, <2>1, <2>2 DEF Excluded
<1> QED
  BY <1>10, <1>12, <1>13, <1>14, <1>15, <1>16, <1>18, <1>19, <1>20 DEF PagePart

\* A registration under way is in UnderWay.
LEMMA MadeUnderWay ==
    ASSUME Working, NEW c \in Ceremonies, Made(c)
    PROVE  c \in UnderWay
BY DEF Working, Made, UnderWay, Running

\* A passkey that is made, in place of what the authenticator held.
LEMMA PageCreates ==
    ASSUME PageInv, NEW b \in Browsers, NEW d \in Devices, Prompted(b, "register"),
           holds[d] \cap page[b].exclude = {},
           holds' = [holds EXCEPT ![d] = {page[b].c}],
           Becomes(b, [page[b] EXCEPT !.at = "signed", !.exclude = {}], {}),
           UNCHANGED <<vars, session, overlap, reverted>>
    PROVE  PagePart'
<1> DEFINE c == page[b].c
           p == [page[b] EXCEPT !.at = "signed", !.exclude = {}]
<1>1. /\ PagesTypeOK /\ Own /\ Told /\ InSlot /\ SignedWell /\ Beside /\ MadePresent
      /\ StoredPresent /\ Excluded /\ RefusedHasCause /\ Working /\ TypeOK
  BY DEF PageInv, PInv
<1>2. /\ p \in Page /\ p.at = "signed" /\ p.c = c /\ p.shows = page[b].shows
      /\ p.disturbed = page[b].disturbed /\ p.accepted = page[b].accepted
      /\ c \in Ceremonies /\ page[b].at = "prompt" /\ kind[c] = "register"
  BY <1>1 DEF PagesTypeOK, Page, Steps, Running, Prompted
<1> HIDE DEF p
<1>3. /\ page' \in [Browsers -> Page] /\ page'[b] = p
      /\ \A x \in Browsers \ {b} : page'[x] = page[x]
  BY <1>1, <1>2 DEF Becomes, p, PagesTypeOK
<1> HIDE DEF c
<1>4. UNCHANGED <<store, kind, reply, loginSlot, regSlot, pc, req, used, registered>>
  BY DEF vars, storeVars, history
<1>5. PagesTypeOK'
  <2>1. holds' \in [Devices -> SUBSET Keys]
    BY <1>1, <1>2 DEF PagesTypeOK, Keys, c
  <2> QED
    BY <1>1, <1>3, <2>1 DEF PagesTypeOK
<1>6. Own'
  <2>1. \A x \in Browsers : /\ Tracks(x)' => Tracks(x)
                            /\ page'[x].c = page[x].c
    BY <1>2, <1>3 DEF Tracks, Refusals, c
  <2> HIDE DEF Tracks
  <2> QED
    BY <1>1, <1>4, <2>1 DEF Own
<1>7. Told'
  <2>1. ASSUME NEW x \in Browsers PROVE Tells(x)'
    <3>1. Tells(x) /\ page'[x].c = page[x].c
      BY <1>1, <1>2, <1>3 DEF Told, c
    <3>q. \A e : Quiet(e)' <=> Quiet(e)
      BY <1>4 DEF Quiet, Busy
    <3>2. CASE x = b
      BY <1>2, <1>3, <1>4, <3>q, <3>1, <3>2 DEF Tells, Running
    <3>3. CASE x # b
      BY <1>3, <1>4, <3>q, <3>1, <3>3 DEF Tells
    <3> QED
      BY <3>2, <3>3
  <2> QED
    BY <2>1 DEF Told
<1>8. RefusedHasCause'
  BY <1>1, <1>2, <1>3, <1>4 DEF RefusedHasCause
<1>9. InSlot' /\ SignedWell' /\ Excluded'
  <2>1. \A x \in Browsers : page'[x].c = page[x].c /\ page'[x].disturbed = page[x].disturbed
    BY <1>2, <1>3 DEF c
  <2>2. InSlot'
    BY <1>1, <1>2, <1>3, <1>4, <2>1 DEF InSlot
  <2>3. kind[page[b].c] # "login"
    BY <1>2 DEF c
  <2>4. SignedWell'
    BY <1>1, <1>3, <1>4, <2>1, <2>3 DEF SignedWell
  <2>5. \A x \in Browsers : page'[x].at = "prompt" => x # b /\ page'[x] = page[x]
    BY <1>2, <1>3
  <2>6. UNCHANGED <<overlap, reverted>>
    OBVIOUS
  <2>7. Excluded'
    BY <1>1, <1>4, <2>5, <2>6 DEF Excluded, Prompted
  <2> QED
    BY <2>2, <2>4, <2>7
<1>10. /\ \A e \in Ceremonies : e \in UnderWay' <=> e \in UnderWay
       /\ c \in UnderWay
       /\ \A e \in Ceremonies : Made(e)' => Made(e) \/ e = c
  BY <1>2, <1>3, <1>4 DEF UnderWay, Made, Running, c
<1>11. Beside'
  BY <1>1, <1>10 DEF Beside, UnderWay
<1>12. /\ \A e \in Devices \ {d} : holds'[e] = holds[e]
       /\ c \in holds'[d]
  BY <1>1 DEF PagesTypeOK, c
<1>13. MadePresent'
  <2>1. ASSUME NEW e \in Ceremonies, Made(e), e # c PROVE Present(e)'
    <3>1. e \in overlap
      BY <1>1, <1>10, <2>1, MadeUnderWay DEF Beside
    <3> QED
      BY <3>1 DEF Present
  <2>2. ASSUME NEW e \in Ceremonies, e = c PROVE Present(e)'
    BY <1>12, <2>2 DEF Present
  <2> QED
    BY <1>10, <2>1, <2>2 DEF MadePresent
<1>14. StoredPresent'
  <2>1. ASSUME NEW k \in store.keys PROVE Present(k)' \/ reverted
    <3>1. (\E e \in Devices : k \in holds[e]) \/ k \in overlap \/ reverted
      BY <1>1 DEF StoredPresent, Present
    <3>2. k \in page[b].exclude \/ k \in overlap \/ reverted
      BY <1>1 DEF Excluded
    <3> QED
      BY <1>12, <3>1, <3>2 DEF Present
  <2> QED
    BY <1>4, <2>1 DEF StoredPresent
<1> QED
  BY <1>5, <1>6, <1>7, <1>8, <1>9, <1>11, <1>13, <1>14 DEF PagePart

\* An answer that is signed.
LEMMA PageGets ==
    ASSUME PageInv, NEW b \in Browsers, NEW d \in Devices, NEW k \in Keys, Get(b, d, k)
    PROVE  PagePart'
<1> DEFINE c == page[b].c
           p == [page[b] EXCEPT !.at = "signed",
                                !.disturbed = page[b].disturbed \/ k \notin registered]
<1>1. /\ PagesTypeOK /\ Own /\ Told /\ InSlot /\ SignedWell /\ Beside /\ MadePresent
      /\ StoredPresent /\ Excluded /\ RefusedHasCause /\ CountsBehind
      /\ TypeOK
  BY DEF PageInv, PInv
<1>2. (page[b].disturbed \/ k \notin registered) \in BOOLEAN
  OBVIOUS
<1>3. /\ p \in Page /\ p.at = "signed" /\ p.c = c /\ p.shows = page[b].shows
      /\ p.accepted = page[b].accepted
      /\ (~p.disturbed => ~page[b].disturbed /\ k \in registered)
      /\ c \in Ceremonies /\ page[b].at = "prompt" /\ kind[c] = "login"
  BY <1>1, <1>2 DEF PagesTypeOK, Page, Steps, Running, Get, Prompted
<1> HIDE DEF p
<1>4. /\ page' \in [Browsers -> Page] /\ page'[b] = p
      /\ \A x \in Browsers \ {b} : page'[x] = page[x]
  BY <1>1, <1>3 DEF Get, Becomes, p, PagesTypeOK
<1>5. UNCHANGED <<store, kind, loginSlot, regSlot, pc, req, used, registered, holds, overlap,
                  session, reverted>>
  BY DEF Get, Sign, storeVars, history
<1>6. /\ reply'[c].key = {k} /\ reply'[c].count = device[k] + 1
      /\ \A e \in Ceremonies \ {c} : reply'[e] = reply[e]
  BY <1>1, <1>3 DEF Get, Sign, TypeOK, c
<1> HIDE DEF c
<1>7. PagesTypeOK'
  BY <1>1, <1>4, <1>5 DEF PagesTypeOK
<1>8. Own'
  <2>1. \A x \in Browsers : /\ Tracks(x)' => Tracks(x)
                            /\ page'[x].c = page[x].c
    BY <1>3, <1>4 DEF Tracks, Refusals, c
  <2> HIDE DEF Tracks
  <2> QED
    BY <1>1, <1>5, <2>1 DEF Own
<1>9. Told'
  <2>1. ASSUME NEW x \in Browsers PROVE Tells(x)'
    <3>1. Tells(x) /\ page'[x].c = page[x].c
      BY <1>1, <1>3, <1>4 DEF Told, c
    <3>q. \A e : Quiet(e)' <=> Quiet(e)
      BY <1>5 DEF Quiet, Busy
    <3>2. CASE x = b
      BY <1>3, <1>4, <1>5, <3>q, <3>1, <3>2 DEF Tells, Running
    <3>3. CASE x # b
      BY <1>4, <1>5, <3>q, <3>1, <3>3 DEF Tells
    <3> QED
      BY <3>2, <3>3
  <2> QED
    BY <2>1 DEF Told
<1>10. RefusedHasCause'
  <2>1. p.shows # "refused"
    BY <1>1, <1>3 DEF Told, Tells, Running
  <2> QED
    BY <1>1, <1>3, <1>4, <1>5, <2>1 DEF RefusedHasCause
<1>11. InSlot' /\ Excluded'
  BY <1>1, <1>3, <1>4, <1>5 DEF InSlot, Excluded, Prompted, c
<1>12. SignedWell'
  <2>1. device[k] + 1 > store.count[k]
    BY <1>1 DEF CountsBehind, TypeOK, Store
  <2>2. ASSUME NEW x \in Browsers \ {b}, page[x].at \in {"signed", "waiting"}
        PROVE  reply'[page[x].c] = reply[page[x].c]
    BY <1>1, <1>3, <1>6, <2>2 DEF Own, Tracks, PagesTypeOK, Page, c
  <2> DEFINE Well(x) ==
               \E e \in Keys : /\ reply[page[x].c].key = {e}
                               /\ ~page[x].disturbed =>
                                    /\ e \in registered
                                    /\ reply[page[x].c].count > store.count[e]
  <2>3. Well(b)'
    BY <1>3, <1>4, <1>5, <1>6, <2>1 DEF c
  <2>4. ASSUME NEW x \in Browsers \ {b}, page[x].at \in {"signed", "waiting"},
               kind[page[x].c] = "login"
        PROVE  Well(x)'
    <3>1. Well(x)
      BY <1>1, <2>4 DEF SignedWell
    <3> QED
      BY <1>4, <1>5, <2>2, <2>4, <3>1
  <2> QED
    BY <1>4, <1>5, <2>3, <2>4 DEF SignedWell
<1>13. /\ \A e \in Ceremonies : e \in UnderWay' <=> e \in UnderWay
       /\ \A e \in Ceremonies : Made(e)' => Made(e)
  BY <1>3, <1>4, <1>5 DEF UnderWay, Made, Running, c
<1>14. Beside' /\ MadePresent' /\ StoredPresent'
  BY <1>1, <1>5, <1>13 DEF Beside, UnderWay, MadePresent, StoredPresent, Present
<1> QED
  BY <1>7, <1>8, <1>9, <1>10, <1>11, <1>12, <1>14 DEF PagePart

\* A finish that is sent: it waits, or it did not find its challenge.
LEMMA PageSends ==
    ASSUME PageInv, NEW b \in Browsers, NEW h \in Handlers,
           NEW which \in {"login", "register"},
           page[b].at = "signed", kind[page[b].c] = which, pc[h] = "idle",
           NEW slot, slot = IF which = "login" THEN loginSlot ELSE regSlot,
           which = "login" => loginSlot' = {} /\ regSlot' = regSlot,
           which = "register" => regSlot' = {} /\ loginSlot' = loginSlot,
           IF page[b].c \in slot
           THEN /\ pc' = [pc EXCEPT ![h] = IF which = "login" THEN "verify" ELSE "add"]
                /\ req' = [req EXCEPT ![h] = page[b].c]
           ELSE UNCHANGED <<pc, req>>,
           Becomes(b, Sent(b, slot), Rivals(b, which)),
           UNCHANGED <<store, kind, reply, used, registered, session, holds, overlap, reverted>>
    PROVE  PagePart'
<1> DEFINE c == page[b].c
           waiting == [page[b] EXCEPT !.at = "waiting"]
           refused == Ends(b, "refused")
<1>1. /\ PagesTypeOK /\ Own /\ Told /\ InSlot /\ SignedWell /\ Beside /\ MadePresent
      /\ StoredPresent /\ Excluded /\ RefusedHasCause /\ Working
      /\ TypeOK /\ OnePlace
  BY DEF PageInv, PInv
<1>2. /\ waiting \in Page /\ waiting.at = "waiting" /\ waiting.c = c
      /\ waiting.shows = page[b].shows /\ waiting.disturbed = page[b].disturbed
      /\ waiting.accepted = page[b].accepted /\ c \in Ceremonies
  BY <1>1 DEF PagesTypeOK, Page, Steps, Running
<1>3. /\ refused \in Page /\ refused.at = "idle" /\ refused.c = c
      /\ refused.shows = "refused" /\ refused.disturbed = page[b].disturbed
      /\ refused.accepted = page[b].accepted
  <2>1. "refused" \in Messages
    BY DEF Messages
  <2> QED
    BY <1>1, <2>1, EndsIs
<1> HIDE DEF waiting, refused
<1>4. /\ page' \in [Browsers -> Page]
      /\ page'[b] = IF c \in slot THEN waiting ELSE refused
      /\ \A x \in Browsers \ {b} :
           /\ page'[x].at = page[x].at /\ page'[x].c = page[x].c
           /\ page'[x].exclude = page[x].exclude /\ page'[x].shows = page[x].shows
           /\ page'[x].accepted = page[x].accepted
           /\ page'[x].disturbed = TRUE
              \/ (x \notin Rivals(b, which) /\ page'[x].disturbed = page[x].disturbed)
  BY <1>1, <1>2, <1>3, DisturbedIs DEF Becomes, Sent, pkPost, c, waiting, refused
<1>5. IF c \in slot
      THEN /\ pc'[h] = IF which = "login" THEN "verify" ELSE "add"
           /\ req'[h] = c
           /\ \A g \in Handlers \ {h} : pc'[g] = pc[g] /\ req'[g] = req[g]
      ELSE pc' = pc /\ req' = req
  BY <1>1 DEF TypeOK, c
<1>6. c' = c /\ kind[c] = which /\ page[b].at = "signed"
  BY <1>2, <1>3, <1>4
<1>7. /\ page[b].shows = "" /\ ~page[b].accepted /\ Quiet(c) /\ Tracks(b)
      /\ c \notin slot => page[b].disturbed
  BY <1>1 DEF Told, Tells, Running, Tracks, InSlot, PagesTypeOK, Page
<1> HIDE DEF c
<1>8. \A x \in Browsers \ {b} : Tracks(x) => page[x].c # c
  BY <1>1, <1>7 DEF Own, c
<1>9. PagesTypeOK'
  BY <1>1, <1>4 DEF PagesTypeOK
<1>10. Own'
  <2>1. \A x \in Browsers : /\ Tracks(x)' => Tracks(x)
                            /\ page'[x].c = page[x].c
    BY <1>2, <1>3, <1>4, <1>6 DEF Tracks, Refusals, c
  <2> HIDE DEF Tracks
  <2> QED
    BY <1>1, <2>1 DEF Own
<1>11. Told'
  <2>1. ASSUME NEW x \in Browsers PROVE Tells(x)'
    <3>1. Tells(x)
      BY <1>1 DEF Told
    <3>2. CASE x = b
      <4>1. CASE c \in slot
        BY <1>2, <1>4, <1>7, <3>2, <4>1 DEF Tells, Refusals
      <4>2. CASE c \notin slot
        <5>1. page'[b] = refused /\ page'[b].c = c
          BY <1>3, <1>4, <4>2
        <5>2. Quiet(page[b].c)'
          BY <1>5, <1>7, <4>2, <5>1 DEF Quiet, Busy
        <5> QED
          BY <1>3, <1>7, <3>2, <5>1, <5>2 DEF Tells, Running
      <4> QED
        BY <4>1, <4>2
    <3>3. CASE x # b
      <4>1. /\ page'[x].at = page[x].at /\ page'[x].c = page[x].c
            /\ page'[x].shows = page[x].shows /\ page'[x].accepted = page[x].accepted
        BY <1>4, <3>3
      <4>2. page[x].at \in {"prompt", "signed"} \/ page[x].shows \in Refusals => page[x].c # c
        BY <1>8, <3>3 DEF Tracks
      <4>3. \A e : e # c => (Quiet(e) => Quiet(e)')
        BY <1>5 DEF Quiet, Busy
      <4> QED
        BY <3>1, <4>1, <4>2, <4>3 DEF Tells
    <3> QED
      BY <3>2, <3>3
  <2> QED
    BY <2>1 DEF Told
<1>12. RefusedHasCause'
  BY <1>1, <1>2, <1>3, <1>4, <1>7 DEF RefusedHasCause
<1>14. InSlot'
  <2>1. page'[b].at \notin {"prompt", "signed"}
    BY <1>2, <1>3, <1>4
  <2>2. ASSUME NEW x \in Browsers \ {b}, page'[x].at \in {"prompt", "signed"},
               ~page'[x].disturbed
        PROVE  /\ page'[x].c = page[x].c /\ kind[page[x].c] # which
               /\ kind[page[x].c] = "login" => page[x].c \in loginSlot
               /\ kind[page[x].c] = "register" => page[x].c \in regSlot
    BY <1>1, <1>4, <2>2 DEF Rivals, InSlot
  <2> QED
    BY <2>1, <2>2 DEF InSlot
<1>15. SignedWell'
  <2>1. ASSUME NEW x \in Browsers, page'[x].at \in {"signed", "waiting"}
        PROVE  /\ page[x].at \in {"signed", "waiting"} /\ page'[x].c = page[x].c
               /\ ~page'[x].disturbed => ~page[x].disturbed
    <3>1. CASE x = b
      BY <1>2, <1>3, <1>4, <1>6, <2>1, <3>1 DEF c
    <3>2. CASE x # b
      BY <1>4, <2>1, <3>2
    <3> QED
      BY <3>1, <3>2
  <2> QED
    BY <1>1, <2>1 DEF SignedWell
<1>16. /\ \A e \in Ceremonies : e \in UnderWay' => e \in UnderWay
       /\ \A e \in Ceremonies : Made(e)' => Made(e)
  <2>1. \A x \in Browsers : /\ page'[x].c = page[x].c
                            /\ page'[x].at \in Running => page[x].at \in Running
                            /\ page'[x].at \in {"signed", "waiting"} =>
                                  page[x].at \in {"signed", "waiting"}
    BY <1>2, <1>3, <1>4, <1>6 DEF c, Running
  <2>2. \A g \in Handlers : pc'[g] = "add" =>
            \/ pc[g] = "add" /\ req'[g] = req[g]
            \/ which = "register" /\ req'[g] = c
    BY <1>5
  <2> QED
    BY <1>6, <2>1, <2>2 DEF UnderWay, Made, Running, c
<1>17. Beside' /\ MadePresent' /\ StoredPresent'
  BY <1>1, <1>16 DEF Beside, UnderWay, MadePresent, StoredPresent, Present
<1>18. Excluded'
  <2>1. ~Prompted(b, "register")'
    BY <1>2, <1>3, <1>4 DEF Prompted
  <2>2. ASSUME NEW x \in Browsers \ {b}, Prompted(x, "register")'
        PROVE  Prompted(x, "register") /\ page'[x].exclude = page[x].exclude
    BY <1>4, <2>2 DEF Prompted
  <2> HIDE DEF Prompted
  <2> QED
    BY <1>1, <2>1, <2>2 DEF Excluded
<1> QED
  BY <1>9, <1>10, <1>11, <1>12, <1>14, <1>15, <1>17, <1>18 DEF PagePart

\* An answer of the service, on its way to the page that waits.
Delivered(h, w, S) ==
    page' = [x \in Browsers |->
               IF Waits(x, req[h]) THEN Answered(x, w)
               ELSE IF x \in S THEN Disturbed(x) ELSE page[x]]

Completed(h, w) ==
    /\ pc' = [pc EXCEPT ![h] = "idle"]
    /\ used' = used \/ used' = [used EXCEPT ![req[h]] = @ + 1]
    /\ w \in Refusals => used' = used
    /\ w = "registered" => pc[h] = "add" /\ used' = [used EXCEPT ![req[h]] = @ + 1]
    /\ w = "signedin" => pc[h] = "touch" /\ used' = [used EXCEPT ![req[h]] = @ + 1]
    /\ UNCHANGED <<kind, reply, loginSlot, regSlot, req, holds, overlap, reverted>>

Recorded(h, S) ==
    /\ registered \subseteq registered'
    /\ \A k \in Keys : \/ store'.count[k] = store.count[k]
                       \/ \A x \in Browsers : page[x].at \in {"signed", "waiting"}
                                /\ k \in reply[page[x].c].key => x \in S
    /\ \A k \in store'.keys : k \in store.keys \/ (k = req[h] /\ pc[h] = "add")

\* Counting an acceptance.
LEMMA CountedOnce ==
    ASSUME used \in [Ceremonies -> Nat], NEW e \in Ceremonies, used[e] = 0,
           used' = [used EXCEPT ![e] = @ + 1]
    PROVE  used'[e] = 1 /\ \A d \in Ceremonies \ {e} : used'[d] = used[d]
OBVIOUS

LEMMA OneIsNotZero == 1 # 0
OBVIOUS

LEMMA PageAnswered ==
    ASSUME PageInv, NEW h \in Handlers, Busy(h), NEW w \in Messages, w # "",
           NEW S \in SUBSET Browsers, session' \in [Browsers -> BOOLEAN],
           Delivered(h, w, S), Completed(h, w), Recorded(h, S),
           w = "refused" => \A x \in Browsers : Waits(x, req[h]) => page[x].disturbed
    PROVE  PagePart'
<1> DEFINE c == req[h]
<1>1. /\ PagesTypeOK /\ Own /\ Told /\ InSlot /\ SignedWell /\ Beside /\ MadePresent
      /\ StoredPresent /\ Excluded /\ RefusedHasCause /\ Working
      /\ TypeOK /\ OnePlace
  BY DEF PageInv, PInv
<1>2. /\ c \in Ceremonies /\ used[c] = 0
      /\ \A g \in Handlers : Busy(g) /\ req[g] = c => g = h
  BY <1>1 DEF OnePlace, TypeOK
<1>3. \A x \in Browsers :
         LET p == Answered(x, w)
         IN  /\ p \in Page /\ p.c = page[x].c /\ p.disturbed = page[x].disturbed
             /\ p.at \in {"idle", "loading"}
             /\ p.at = "loading" => /\ w \in {"registered", "signedin"} /\ p.accepted
                                    /\ p.shows = "" \/ (p.shows = w /\ w = "registered")
             /\ p.at = "idle" => /\ w \notin {"registered", "signedin"}
                                 /\ p.shows = w /\ p.accepted = page[x].accepted
  BY <1>1, AnsweredIs
<1>4. /\ page' \in [Browsers -> Page]
      /\ \A x \in Browsers : Waits(x, c) =>
           /\ page'[x].at \in {"idle", "loading"} /\ page'[x].c = page[x].c
           /\ page'[x].disturbed = page[x].disturbed
           /\ page'[x].at = "loading" =>
                 /\ w \in {"registered", "signedin"} /\ page'[x].accepted
                 /\ page'[x].shows = "" \/ (page'[x].shows = w /\ w = "registered")
           /\ page'[x].at = "idle" =>
                 /\ w \notin {"registered", "signedin"}
                 /\ page'[x].shows = w /\ page'[x].accepted = page[x].accepted
      /\ \A x \in Browsers : ~Waits(x, c) =>
           /\ page'[x].at = page[x].at /\ page'[x].c = page[x].c
           /\ page'[x].exclude = page[x].exclude /\ page'[x].shows = page[x].shows
           /\ page'[x].accepted = page[x].accepted
           /\ page'[x].disturbed = TRUE
              \/ (x \notin S /\ page'[x].disturbed = page[x].disturbed)
  <2>1. \A x \in Browsers : page'[x] = IF Waits(x, c) THEN Answered(x, w)
                                       ELSE IF x \in S THEN Disturbed(x) ELSE page[x]
    BY DEF Delivered
  <2>2. page' \in [Browsers -> Page]
    BY <1>1, <1>3, DisturbedIs DEF Delivered, PagesTypeOK
  <2>3. ASSUME NEW x \in Browsers, Waits(x, c) PROVE page'[x] = Answered(x, w)
    BY <2>1, <2>3
  <2>4. ASSUME NEW x \in Browsers, ~Waits(x, c)
        PROVE  page'[x] = IF x \in S THEN Disturbed(x) ELSE page[x]
    BY <2>1, <2>4
  <2> HIDE DEF c
  <2>5. ASSUME NEW x \in Browsers, ~Waits(x, c)
        PROVE  /\ page'[x].at = page[x].at /\ page'[x].c = page[x].c
               /\ page'[x].exclude = page[x].exclude /\ page'[x].shows = page[x].shows
               /\ page'[x].accepted = page[x].accepted
               /\ page'[x].disturbed = TRUE
                  \/ (x \notin S /\ page'[x].disturbed = page[x].disturbed)
    BY <1>1, <2>4, <2>5, DisturbedIs
  <2>6. ASSUME NEW x \in Browsers, Waits(x, c)
        PROVE  /\ page'[x].at \in {"idle", "loading"} /\ page'[x].c = page[x].c
               /\ page'[x].disturbed = page[x].disturbed
               /\ page'[x].at = "loading" =>
                     /\ w \in {"registered", "signedin"} /\ page'[x].accepted
                     /\ page'[x].shows = "" \/ (page'[x].shows = w /\ w = "registered")
               /\ page'[x].at = "idle" =>
                     /\ w \notin {"registered", "signedin"}
                     /\ page'[x].shows = w /\ page'[x].accepted = page[x].accepted
    BY <1>3, <2>3, <2>6
  <2> QED
    BY <2>2, <2>5, <2>6
<1>5. /\ pc'[h] = "idle" /\ \A g \in Handlers \ {h} : pc'[g] = pc[g]
      /\ \A e \in Ceremonies \ {c} : used'[e] = used[e]
      /\ used' = used \/ used'[c] = 1
      /\ w \in {"registered", "signedin"} => used'[c] = 1
      /\ w \in Refusals => used'[c] = 0
      /\ w = "registered" => pc[h] = "add"
      /\ w = "signedin" => pc[h] = "touch"
      /\ UNCHANGED <<kind, reply, loginSlot, regSlot, req, holds, overlap, reverted>>
  <2>1. used \in [Ceremonies -> Nat] /\ pc' = [pc EXCEPT ![h] = "idle"] /\ DOMAIN pc = Handlers
    BY <1>1 DEF TypeOK, Completed
  <2>2. ASSUME NEW e \in Ceremonies, used[e] = 0, used' = [used EXCEPT ![e] = @ + 1]
        PROVE  used'[e] = 1 /\ \A d \in Ceremonies \ {e} : used'[d] = used[d]
    BY <2>1, <2>2, CountedOnce
  <2>3. used' = [used EXCEPT ![c] = @ + 1] =>
           used'[c] = 1 /\ \A e \in Ceremonies \ {c} : used'[e] = used[e]
    BY <1>2, <2>2
  <2>4. used' = used \/ used' = [used EXCEPT ![c] = @ + 1]
    BY DEF Completed
  <2>5. /\ \A e \in Ceremonies \ {c} : used'[e] = used[e]
        /\ used' = used \/ used'[c] = 1
    BY <2>3, <2>4
  <2>6. /\ w \in {"registered", "signedin"} => used'[c] = 1
        /\ w \in Refusals => used'[c] = 0
    BY <1>2, <2>3 DEF Completed
  <2> QED
    BY <2>1, <2>5, <2>6 DEF Completed
<1> HIDE DEF c
<1>6. \A x \in Browsers : page[x].c \in Ceremonies
  BY <1>1 DEF PagesTypeOK, Page
<1>7. PagesTypeOK'
  BY <1>1, <1>4, <1>5 DEF PagesTypeOK
<1>8. \A x \in Browsers : page'[x].c = page[x].c
  BY <1>4
<1>9. Own'
  <2>1. \A x \in Browsers : Tracks(x)' => Tracks(x)
    <3>1. ASSUME NEW x \in Browsers, Waits(x, c) PROVE Tracks(x)
      BY <3>1 DEF Tracks, Waits
    <3>2. ASSUME NEW x \in Browsers, ~Waits(x, c) PROVE Tracks(x)' => Tracks(x)
      BY <1>4, <3>2 DEF Tracks
    <3> QED
      BY <3>1, <3>2
  <2> HIDE DEF Tracks
  <2> QED
    BY <1>1, <1>5, <1>8, <2>1 DEF Own
<1>10. Told'
  <2>1. ASSUME NEW x \in Browsers PROVE Tells(x)'
    <3>1. Tells(x)
      BY <1>1 DEF Told
    <3>2. CASE Waits(x, c)
      <4>1. page[x].c = c
        BY <3>2 DEF Waits
      <4>2. w \in Refusals => used'[c] = 0 /\ \A g \in Handlers : pc'[g] # "idle" => req[g] # c
        BY <1>2, <1>5 DEF Busy
      <4>3. /\ w = "registered" => kind[c] = "register" /\ used'[c] = 1
            /\ w = "signedin" => kind[c] = "login" /\ used'[c] = 1
        BY <1>1, <1>5 DEF Working, c
      <4>4. /\ page'[x].c = c /\ ~page[x].accepted
            /\ \/ /\ page'[x].at = "loading" /\ w \in {"registered", "signedin"}
                  /\ page'[x].accepted
                  /\ page'[x].shows = "" \/ (page'[x].shows = w /\ w = "registered")
               \/ /\ page'[x].at = "idle" /\ w \notin {"registered", "signedin"}
                  /\ page'[x].shows = w /\ page'[x].accepted = page[x].accepted
        <5>1. ~page[x].accepted
          BY <3>1, <3>2 DEF Tells, Waits, Running
        <5> QED
          BY <1>4, <3>2, <4>1, <5>1
      <4>5. w \in Refusals => Quiet(page[x].c)'
        BY <1>5, <4>2, <4>4 DEF Quiet, Busy
      <4>6. kind' = kind /\ (w \in {"registered", "signedin"} => used'[c] = 1)
        BY <1>5
      <4>7. CASE page'[x].at = "loading"
        BY <4>3, <4>4, <4>6, <4>7 DEF Tells, Running, Refusals
      <4>8. CASE page'[x].at = "idle"
        BY <4>4, <4>5, <4>6, <4>8 DEF Tells, Running
      <4> QED
        BY <4>4, <4>7, <4>8
    <3>3. CASE ~Waits(x, c)
      <4>1. /\ page'[x].at = page[x].at /\ page'[x].c = page[x].c
            /\ page'[x].shows = page[x].shows /\ page'[x].accepted = page[x].accepted
        BY <1>4, <3>3
      <4>2. Quiet(page[x].c) => page[x].c # c
        BY DEF Quiet, c
      <4>3. used[page[x].c] = 1 => page[x].c # c
        <5>1. ASSUME page[x].c = c, used[page[x].c] = 1 PROVE FALSE
          <6>1. used[c] = 1
            BY <5>1
          <6> QED
            BY <1>2, <6>1, OneIsNotZero, Zenon
        <5> QED
          BY <5>1
      <4>4. page[x].c # c => used'[page[x].c] = used[page[x].c]
        BY <1>5, <1>6
      <4>5. \A g \in Handlers : Busy(g)' => Busy(g)
        BY <1>5 DEF Busy
      <4>6. Quiet(page[x].c) => Quiet(page[x].c)'
        BY <1>5, <4>1, <4>2, <4>4, <4>5 DEF Quiet, Busy
      <4>7. kind' = kind /\ (used[page[x].c] = 1 => used'[page[x].c] = 1)
        BY <1>5, <4>3, <4>4
      <4> HIDE DEF Quiet
      <4> QED
        BY <3>1, <4>1, <4>6, <4>7 DEF Tells
    <3> QED
      BY <3>2, <3>3
  <2> QED
    BY <2>1 DEF Told
<1>11. RefusedHasCause'
  <2>1. ASSUME NEW x \in Browsers, page'[x].shows = "refused" PROVE page'[x].disturbed
    <3>1. CASE Waits(x, c)
      <4>1. w = "refused"
        BY <1>4, <2>1, <3>1
      <4> QED
        BY <1>4, <3>1, <4>1 DEF c
    <3>2. CASE ~Waits(x, c)
      BY <1>1, <1>4, <2>1, <3>2 DEF RefusedHasCause
    <3> QED
      BY <3>1, <3>2
  <2> QED
    BY <2>1 DEF RefusedHasCause
<1>13. \A x \in Browsers : page'[x].at \in Running =>
          /\ ~Waits(x, c) /\ page'[x].at = page[x].at
          /\ page'[x].exclude = page[x].exclude
          /\ ~page'[x].disturbed => ~page[x].disturbed /\ x \notin S
  BY <1>4 DEF Running
<1>14. InSlot'
  BY <1>1, <1>5, <1>8, <1>13 DEF InSlot, Running
<1>15. SignedWell'
  <2>1. ASSUME NEW x \in Browsers, page'[x].at \in {"signed", "waiting"},
               kind[page[x].c] = "login"
        PROVE  \E k \in Keys : /\ reply[page[x].c].key = {k}
                               /\ ~page'[x].disturbed =>
                                    /\ k \in registered'
                                    /\ reply[page[x].c].count > store'.count[k]
    <3>1. page[x].at \in {"signed", "waiting"}
      BY <1>13, <2>1 DEF Running
    <3>2. PICK k \in Keys : /\ reply[page[x].c].key = {k}
                            /\ ~page[x].disturbed =>
                                 /\ k \in registered
                                 /\ reply[page[x].c].count > store.count[k]
      BY <1>1, <2>1, <3>1 DEF SignedWell
    <3>3. ~page'[x].disturbed => ~page[x].disturbed /\ store'.count[k] = store.count[k]
      BY <1>13, <2>1, <3>1, <3>2 DEF Recorded, Running
    <3>4. registered \subseteq registered'
      BY DEF Recorded
    <3> QED
      BY <3>2, <3>3, <3>4
  <2> QED
    BY <1>5, <1>8, <2>1 DEF SignedWell
<1>16. /\ \A e \in Ceremonies : e \in UnderWay' => e \in UnderWay
       /\ \A e \in Ceremonies : Made(e)' => Made(e)
  <2>1. \A x \in Browsers : page'[x].at \in Running =>
                               page[x].at = page'[x].at /\ page[x].c = page'[x].c
    BY <1>8, <1>13
  <2>2. \A g \in Handlers : pc'[g] = "add" => pc[g] = "add" /\ req[g] = req'[g]
    BY <1>5
  <2>3. kind' = kind
    BY <1>5
  <2>4. ASSUME NEW e \in Ceremonies PROVE e \in UnderWay' => e \in UnderWay
    BY <2>1, <2>2, <2>3, UnderWayEarlier
  <2>5. ASSUME NEW e \in Ceremonies PROVE Made(e)' => Made(e)
    BY <2>1, <2>2, <2>3, MadeEarlier DEF Running
  <2> QED
    BY <2>4, <2>5
<1>17. pc[h] = "add" => c \in UnderWay /\ Made(c)
  BY <1>1, <1>2 DEF UnderWay, Made, Working, c
<1>18. Beside' /\ MadePresent'
  BY <1>1, <1>5, <1>16 DEF Beside, UnderWay, MadePresent, Present
<1>19. StoredPresent'
  <2>1. ASSUME NEW k \in store'.keys PROVE Present(k) \/ reverted
    BY <1>1, <1>2, <1>17 DEF StoredPresent, MadePresent, Recorded, c
  <2> QED
    BY <1>5, <2>1 DEF StoredPresent, Present
<1>20. Excluded'
  <2>1. ASSUME NEW x \in Browsers, NEW k \in store'.keys, Prompted(x, "register")'
        PROVE  k \in page'[x].exclude \/ k \in overlap \/ reverted
    <3>1. Prompted(x, "register") /\ page'[x].exclude = page[x].exclude
      BY <1>5, <1>8, <1>13, <2>1 DEF Prompted, Running
    <3>2. CASE k \in store.keys
      BY <1>1, <3>1, <3>2 DEF Excluded
    <3>3. CASE k = c /\ pc[h] = "add"
      <4>1. Quiet(page[x].c) /\ page[x].c \in UnderWay
        BY <1>1, <1>6, <3>1 DEF Told, Tells, Prompted, UnderWay, Running
      <4>2. page[x].c # c
        BY <4>1 DEF Quiet, c
      <4> QED
        BY <1>1, <1>17, <3>3, <4>1, <4>2 DEF Beside
    <3> QED
      BY <3>2, <3>3 DEF Recorded, c
  <2> QED
    BY <1>5, <2>1 DEF Excluded
<1> QED
  BY <1>7, <1>9, <1>10, <1>11, <1>14, <1>15, <1>18, <1>19, <1>20 DEF PagePart

\* A step that leaves the ceremonies where they are.
LEMMA PageRests ==
    ASSUME PageInv, session' \in [Browsers -> BOOLEAN],
           UNCHANGED <<page, holds, overlap, reverted>>,
           UNCHANGED <<store, kind, reply, loginSlot, regSlot, req, used, registered>>,
           \A h \in Handlers : /\ pc'[h] = "idle" <=> pc[h] = "idle"
                               /\ pc'[h] = "add" <=> pc[h] = "add"
    PROVE  PagePart'
<1>1. /\ PagesTypeOK /\ Own /\ Told /\ InSlot /\ SignedWell /\ Beside /\ MadePresent
      /\ StoredPresent /\ Excluded /\ RefusedHasCause
  BY DEF PageInv
<1>2. PagesTypeOK' /\ Own' /\ InSlot' /\ SignedWell' /\ RefusedHasCause'
  BY <1>1 DEF PagesTypeOK, Own, Tracks, InSlot, SignedWell, RefusedHasCause
<1>3. Told'
  BY <1>1 DEF Told, Tells, Quiet, Busy
<1>4. UnderWay' = UnderWay /\ \A c \in Ceremonies : Made(c)' => Made(c)
  BY DEF UnderWay, Made
<1>5. Beside' /\ MadePresent' /\ StoredPresent' /\ Excluded'
  BY <1>1, <1>4 DEF Beside, MadePresent, StoredPresent, Present, Excluded, Prompted
<1> QED
  BY <1>2, <1>3, <1>5 DEF PagePart

\* A passkey that is deleted.
LEMMA PageDeletes ==
    ASSUME PageInv, NEW b \in Browsers, NEW k \in Keys, Delete(b, k)
    PROVE  PagePart'
<1>1. /\ PagesTypeOK /\ Own /\ Told /\ InSlot /\ SignedWell /\ Beside /\ MadePresent
      /\ StoredPresent /\ Excluded /\ RefusedHasCause /\ TypeOK
  BY DEF PageInv, PInv
<1>2. /\ page' \in [Browsers -> Page]
      /\ \A x \in Browsers :
           /\ page'[x].at = page[x].at /\ page'[x].c = page[x].c
           /\ page'[x].exclude = page[x].exclude /\ page'[x].shows = page[x].shows
           /\ page'[x].accepted = page[x].accepted
           /\ page'[x].disturbed = TRUE
              \/ (x \notin SigningWith({k}) /\ page'[x].disturbed = page[x].disturbed)
  BY <1>1, DisturbedIs DEF Delete
<1>3. /\ store'.keys = store.keys \ {k}
      /\ \A e \in Keys \ {k} : store'.count[e] = store.count[e]
      /\ registered' = registered \ {k}
      /\ UNCHANGED <<kind, reply, loginSlot, regSlot, pc, req, used, session, holds, overlap,
                     reverted>>
  BY <1>1 DEF Delete, remove, TypeOK, Store, deviceVars
<1>4. PagesTypeOK'
  BY <1>1, <1>2, <1>3 DEF PagesTypeOK
<1>5. Own'
  <2>1. \A x \in Browsers : (Tracks(x)' <=> Tracks(x)) /\ page'[x].c = page[x].c
    BY <1>2 DEF Tracks
  <2> HIDE DEF Tracks
  <2> QED
    BY <1>1, <1>3, <2>1 DEF Own
<1>6. Told' /\ RefusedHasCause' /\ InSlot'
  <2>1. ASSUME NEW x \in Browsers PROVE Tells(x)'
    <3>1. Tells(x)
      BY <1>1 DEF Told
    <3>2. \A e : Quiet(e)' <=> Quiet(e)
      BY <1>3 DEF Quiet, Busy
    <3> QED
      BY <1>2, <1>3, <3>1, <3>2 DEF Tells
  <2>2. RefusedHasCause'
    BY <1>1, <1>2 DEF RefusedHasCause
  <2>4. InSlot'
    BY <1>1, <1>2, <1>3 DEF InSlot
  <2> QED
    BY <2>1, <2>2, <2>4 DEF Told
<1>7. SignedWell'
  <2>1. ASSUME NEW x \in Browsers, page'[x].at \in {"signed", "waiting"},
               kind[page[x].c] = "login"
        PROVE  \E e \in Keys : /\ reply[page[x].c].key = {e}
                               /\ ~page'[x].disturbed =>
                                    /\ e \in registered'
                                    /\ reply[page[x].c].count > store'.count[e]
    <3>1. page[x].at \in {"signed", "waiting"}
      BY <1>2, <2>1
    <3>2. PICK e \in Keys : /\ reply[page[x].c].key = {e}
                            /\ ~page[x].disturbed =>
                                 /\ e \in registered
                                 /\ reply[page[x].c].count > store.count[e]
      BY <1>1, <2>1, <3>1 DEF SignedWell
    <3>3. ~page'[x].disturbed => ~page[x].disturbed /\ e # k
      BY <1>2, <3>1, <3>2 DEF SigningWith
    <3> QED
      BY <1>3, <3>2, <3>3
  <2> QED
    BY <1>2, <1>3, <2>1 DEF SignedWell
<1>8. UnderWay' = UnderWay /\ \A c \in Ceremonies : Made(c)' => Made(c)
  BY <1>2, <1>3 DEF UnderWay, Made
<1>9. Beside' /\ MadePresent' /\ StoredPresent' /\ Excluded'
  BY <1>1, <1>2, <1>3, <1>8 DEF Beside, MadePresent, StoredPresent, Present, Excluded, Prompted
<1> QED
  BY <1>4, <1>5, <1>6, <1>7, <1>9 DEF PagePart

\* A restart: what waited is lost, the rest has a cause to be refused.
LEMMA PageRestarts ==
    ASSUME PageInv, ServiceRestarts
    PROVE  PagePart'
<1>1. /\ PagesTypeOK /\ Own /\ Told /\ InSlot /\ SignedWell /\ Beside /\ MadePresent
      /\ StoredPresent /\ Excluded /\ RefusedHasCause /\ TypeOK /\ Agreed
  BY DEF PageInv, PInv
<1>2. "lost" \in Messages
  BY DEF Messages
<1>3. \A x \in Browsers : /\ Ends(x, "lost") \in Page /\ Ends(x, "lost").at = "idle"
                          /\ Ends(x, "lost").shows = "lost" /\ Ends(x, "lost").c = page[x].c
                          /\ Ends(x, "lost").accepted = page[x].accepted
  BY <1>1, <1>2, EndsIs
<1>4. /\ page' \in [Browsers -> Page]
      /\ \A x \in Browsers : page'[x].c = page[x].c /\ page'[x].accepted = page[x].accepted
      /\ \A x \in Browsers : page[x].at = "waiting" =>
           page'[x].at = "idle" /\ page'[x].shows = "lost"
      /\ \A x \in Browsers : page[x].at # "waiting" =>
           /\ page'[x].at = page[x].at /\ page'[x].exclude = page[x].exclude
           /\ page'[x].shows = page[x].shows
           /\ page'[x].disturbed = TRUE
              \/ (page[x].at = "idle" /\ page'[x].disturbed = page[x].disturbed)
  BY <1>1, <1>3, DisturbedIs DEF ServiceRestarts
<1>5. /\ \A h \in Handlers : pc'[h] = "idle"
      /\ reverted \in BOOLEAN /\ reverted' = (reverted \/ file = "stale")
      /\ session' \in [Browsers -> BOOLEAN]
      /\ UNCHANGED <<kind, reply, used, holds, overlap>>
  BY <1>1 DEF ServiceRestarts, Restart, PagesTypeOK
<1>6. store'.keys \subseteq store.keys \/ reverted'
  <2>1. store' = disk \/ store'.keys = {}
    BY DEF ServiceRestarts, Restart, loadPasskeyStore, Empty
  <2>2. file = "stale" \/ disk = store
    BY <1>1 DEF Agreed, TypeOK
  <2> QED
    BY <1>5, <2>1, <2>2
<1>7. reverted => reverted'
  BY <1>5
<1>8. PagesTypeOK'
  <2>1. (reverted \/ file = "stale") \in BOOLEAN
    OBVIOUS
  <2> QED
    BY <1>1, <1>4, <1>5, <2>1 DEF PagesTypeOK
<1>9. Own'
  <2>1. \A x \in Browsers : Tracks(x)' => Tracks(x)
    BY <1>4 DEF Tracks, Refusals
  <2> HIDE DEF Tracks
  <2> QED
    BY <1>1, <1>4, <1>5, <2>1 DEF Own
<1>10. Told'
  <2>1. ASSUME NEW x \in Browsers PROVE Tells(x)'
    <3>1. Tells(x)
      BY <1>1 DEF Told
    <3>2. CASE page[x].at = "waiting"
      <4>1. ~page[x].accepted
        BY <3>1, <3>2 DEF Tells, Running
      <4> QED
        BY <1>4, <3>2, <4>1 DEF Tells, Refusals, Running
    <3>3. CASE page[x].at # "waiting"
      <4>1. \A e : Quiet(e) => Quiet(e)'
        BY <1>5 DEF Quiet, Busy
      <4> QED
        BY <1>4, <1>5, <3>1, <3>3, <4>1 DEF Tells
    <3> QED
      BY <3>2, <3>3
  <2> QED
    BY <2>1 DEF Told
<1>11. RefusedHasCause'
  <2>1. ASSUME NEW x \in Browsers, page'[x].shows = "refused" PROVE page'[x].disturbed
    <3>1. page[x].at # "waiting" /\ page[x].shows = "refused"
      BY <1>4, <2>1
    <3> QED
      BY <1>1, <1>4, <3>1 DEF RefusedHasCause
  <2> QED
    BY <2>1 DEF RefusedHasCause
<1>12. InSlot'
  BY <1>4 DEF InSlot
<1>13. SignedWell'
  <2>1. \A x \in Browsers : page'[x].at \in {"signed", "waiting"} =>
           page[x].at = page'[x].at /\ page[x].c = page'[x].c /\ page'[x].disturbed
    BY <1>4
  <2> QED
    BY <1>1, <1>5, <2>1 DEF SignedWell
<1>14. /\ \A e \in Ceremonies : e \in UnderWay' => e \in UnderWay
       /\ \A e \in Ceremonies : Made(e)' => Made(e)
  BY <1>4, <1>5 DEF UnderWay, Made, Running
<1>15. Beside' /\ MadePresent'
  BY <1>1, <1>5, <1>14 DEF Beside, UnderWay, MadePresent, Present
<1>16. StoredPresent' /\ Excluded'
  BY <1>1, <1>4, <1>5, <1>6, <1>7 DEF StoredPresent, Present, Excluded, Prompted
<1> QED
  BY <1>8, <1>9, <1>10, <1>11, <1>12, <1>13, <1>15, <1>16 DEF PagePart

-----------------------------------------------------------------------------
(***************************************************************************)
(* The answers of the service.                                             *)
(***************************************************************************)

\* Sessions stay well typed, whichever answer arrives.
LEMMA AnswerSessions ==
    ASSUME PagesTypeOK, NEW c, NEW shows
    PROVE  [x \in Browsers |-> session[x] \/ (shows = "signedin" /\ Waits(x, c))]
               \in [Browsers -> BOOLEAN]
<1>1. \A x \in Browsers : (session[x] \/ (shows = "signedin" /\ Waits(x, c))) \in BOOLEAN
  BY DEF PagesTypeOK
<1> QED
  BY <1>1

\* A login that nothing disturbed is verified.
LEMMA UndisturbedVerifies ==
    ASSUME PageInv, NEW h \in Handlers, pc[h] = "verify", NEW x \in Browsers,
           Waits(x, req[h]), ~page[x].disturbed
    PROVE  Verified(req[h])
<1> DEFINE c == req[h]
<1>1. kind[c] = "login" /\ page[x].at = "waiting" /\ page[x].c = c
  BY DEF PageInv, Working, Waits
<1>2. PICK k \in Keys : /\ reply[c].key = {k} /\ k \in registered
                        /\ reply[c].count > store.count[k]
  BY <1>1 DEF PageInv, SignedWell
<1>3. k \in store.keys /\ owner[k] = store.handle
  BY <1>2 DEF PageInv, PInv, Agreed, RegisteredKept, KeysMatchHandle
<1>4. reply[c].count \in Nat /\ store.count[k] \in Nat
  <2>1. req[h] \in Ceremonies /\ store \in Store
    BY DEF PageInv, PInv, TypeOK
  <2> QED
    BY <2>1 DEF PageInv, PInv, TypeOK, Store
<1>5. ~CloneWarning(reply[c].count, store.count[k])
  BY <1>2, <1>4 DEF CloneWarning
<1> QED
  BY <1>2, <1>3, <1>5 DEF Verified

LEMMA PageRefuses ==
    ASSUME PageInv, NEW h \in Handlers, Refuses(h)
    PROVE  PagePart'
<1>1. PagesTypeOK /\ TypeOK /\ req[h] \in Ceremonies
  BY DEF PageInv, PInv, TypeOK
<1>2. Legible(req[h])
  BY <1>1, AlwaysLegible
<1>3. pc[h] = "verify" /\ ~Verified(req[h])
  BY <1>2 DEF Refuses, FinishFail
<1>4. PICK shows \in {"refused", "lost"} :
        /\ Delivered(h, shows, {})
        /\ session' = [x \in Browsers |->
                          session[x] \/ (shows = "signedin" /\ Waits(x, req[h]))]
  BY DEF Refuses, Answer, Delivered
<1>5. \A x \in Browsers : Waits(x, req[h]) => page[x].disturbed
  <2>1. ASSUME NEW x \in Browsers, Waits(x, req[h]), ~page[x].disturbed PROVE FALSE
    BY <1>3, <2>1, UndisturbedVerifies
  <2> QED
    BY <2>1
<1>6. Completed(h, shows)
  BY <1>4 DEF Refuses, FinishFail, Completed, history
<1>7. Recorded(h, {})
  BY DEF Refuses, FinishFail, Recorded, storeVars, history
<1>8. session' \in [Browsers -> BOOLEAN]
  BY <1>1, <1>4, AnswerSessions
<1>9. Busy(h) /\ shows \in Messages /\ shows # ""
  BY <1>3 DEF Busy, Messages
<1> QED
  BY <1>4, <1>5, <1>6, <1>7, <1>8, <1>9, PageAnswered

LEMMA PageLimits ==
    ASSUME PageInv, NEW h \in Handlers, Limits(h)
    PROVE  PagePart'
<1>1. PagesTypeOK
  BY DEF PageInv
<1>2. PICK shows \in {"limited", "lost"} :
        /\ Delivered(h, shows, {})
        /\ session' = [x \in Browsers |->
                          session[x] \/ (shows = "signedin" /\ Waits(x, req[h]))]
  BY DEF Limits, Answer, Delivered
<1>3. Completed(h, shows)
  BY <1>2 DEF Limits, FinishFail, Completed, history
<1>4. Recorded(h, {})
  BY DEF Limits, FinishFail, Recorded, storeVars, history
<1>5. session' \in [Browsers -> BOOLEAN]
  BY <1>1, <1>2, AnswerSessions
<1>6. Busy(h) /\ shows \in Messages /\ shows # "" /\ shows # "refused"
  BY DEF Busy, Messages, Limits
<1> QED
  BY <1>2, <1>3, <1>4, <1>5, <1>6, PageAnswered

LEMMA PageRegisters ==
    ASSUME PageInv, NEW h \in Handlers, Registers(h)
    PROVE  PagePart'
<1>1. PagesTypeOK /\ TypeOK
  BY DEF PageInv, PInv
<1>2. PICK shows \in {"registered", "lost"} :
        /\ Delivered(h, shows, {})
        /\ session' = [x \in Browsers |->
                          session[x] \/ (shows = "signedin" /\ Waits(x, req[h]))]
  BY DEF Registers, Answer, Delivered
<1>3. Completed(h, shows)
  BY <1>2 DEF Registers, RegisterAdd, Completed, Refusals
<1>4. Recorded(h, {})
  <2>1. store'.keys = store.keys \cup {req[h]} /\ store'.count = store.count
    BY <1>1 DEF Registers, RegisterAdd, TypeOK, Store
  <2> QED
    BY <2>1 DEF Registers, RegisterAdd, Recorded
<1>5. session' \in [Browsers -> BOOLEAN]
  BY <1>1, <1>2, AnswerSessions
<1>6. Busy(h) /\ shows \in Messages /\ shows # "" /\ shows # "refused"
  BY DEF Busy, Messages, Registers, RegisterAdd
<1> QED
  BY <1>2, <1>3, <1>4, <1>5, <1>6, PageAnswered

LEMMA PageSignsIn ==
    ASSUME PageInv, NEW h \in Handlers, SignsIn(h)
    PROVE  PagePart'
<1> DEFINE S == SigningWith(reply[req[h]].key)
<1>1. PagesTypeOK /\ TypeOK
  BY DEF PageInv, PInv
<1>2. PICK shows \in {"signedin", "lost"} :
        /\ Delivered(h, shows, S)
        /\ session' = [x \in Browsers |->
                          session[x] \/ (shows = "signedin" /\ Waits(x, req[h]))]
  BY DEF SignsIn, Answer, Delivered
<1>3. Completed(h, shows)
  BY <1>2 DEF SignsIn, LoginTouch, Completed, Refusals, deviceVars
<1>4. Recorded(h, S)
  <2>1. PICK k \in Keys : /\ k \in reply[req[h]].key
                          /\ IF k \in store.keys
                             THEN store' = [store EXCEPT !.count =
                                         [store.count EXCEPT ![k] = reply[req[h]].count]]
                             ELSE store' = store
    BY <1>1 DEF SignsIn, LoginTouch, TypeOK, storeVars
  <2>2. store'.keys = store.keys /\ \A e \in Keys \ {k} : store'.count[e] = store.count[e]
    BY <1>1, <2>1 DEF TypeOK, Store
  <2>3. \A x \in Browsers : page[x].at \in {"signed", "waiting"} /\ k \in reply[page[x].c].key
            => x \in S
    BY <2>1 DEF SigningWith
  <2>4. registered' = registered
    BY DEF SignsIn, LoginTouch
  <2> HIDE DEF S
  <2> QED
    BY <2>2, <2>3, <2>4 DEF Recorded
<1>5. session' \in [Browsers -> BOOLEAN]
  BY <1>1, <1>2, AnswerSessions
<1>6. Busy(h) /\ shows \in Messages /\ shows # "" /\ shows # "refused"
  BY DEF Busy, Messages, SignsIn, LoginTouch
<1>7. S \in SUBSET Browsers
  BY DEF SigningWith
<1> HIDE DEF S
<1> QED
  BY <1>2, <1>3, <1>4, <1>5, <1>6, <1>7, PageAnswered

-----------------------------------------------------------------------------
(***************************************************************************)
(* Every step.                                                             *)
(***************************************************************************)
LEMMA PagePartNext == PageInv /\ [PageNext]_allVars => PagePart'
<1> SUFFICES ASSUME PageInv, [PageNext]_allVars PROVE PagePart'
  OBVIOUS
<1>1. PagesTypeOK /\ TypeOK
  BY DEF PageInv, PInv
<1>2. ASSUME NEW b \in Browsers, PasswordSignIn(b) \/ SessionEnds(b) PROVE PagePart'
  <2>1. session' \in [Browsers -> BOOLEAN]
    BY <1>1, <1>2 DEF PasswordSignIn, SessionEnds, PagesTypeOK
  <2>2. UNCHANGED <<vars, page, holds, overlap, reverted>>
    BY <1>2 DEF PasswordSignIn, SessionEnds
  <2> QED
    BY <2>1, <2>2, PageRests DEF vars
<1>3. ASSUME NEW b \in Browsers, RegisterClick(b) PROVE PagePart'
  <2>1. store.keys \in SUBSET Keys
    BY <1>1 DEF TypeOK, Store
  <2>2. {pkB64uToBuf(RawURLEncoding(k)) : k \in store.keys} = store.keys
    BY <1>1, Read
  <2>3. \/ /\ Becomes(b, Begun(Fresh, store.keys), Rivals(b, "register"))
           /\ overlap' = IF UnderWay = {} THEN overlap ELSE overlap \cup UnderWay \cup {Fresh}
        \/ Becomes(b, Ends(b, "lost"), Rivals(b, "register")) /\ overlap' = overlap
    BY <1>3, <2>2 DEF RegisterClick
  <2>4. CanBegin(b) /\ RegisterBegin(Fresh) /\ UNCHANGED <<session, holds, reverted>>
    BY <1>3 DEF RegisterClick
  <2>5. /\ kind' = [kind EXCEPT ![Fresh] = "register"]
        /\ regSlot' = {Fresh} /\ loginSlot' = loginSlot
        /\ UNCHANGED <<store, reply, pc, req, used, registered>>
    BY <2>4 DEF RegisterBegin, storeVars, history
  <2> QED
    BY <2>1, <2>3, <2>4, <2>5, PageBegins
<1>4. ASSUME NEW b \in Browsers, LoginClick(b) PROVE PagePart'
  <2>1. {} \in SUBSET Keys
    OBVIOUS
  <2>2. \/ Becomes(b, Begun(Fresh, {}), Rivals(b, "login")) /\ overlap' = overlap
        \/ Becomes(b, Ends(b, "lost"), Rivals(b, "login")) /\ overlap' = overlap
    BY <1>4 DEF LoginClick
  <2>3. CanBegin(b) /\ LoginBegin(Fresh) /\ UNCHANGED <<session, holds, reverted>>
    BY <1>4 DEF LoginClick
  <2>4. /\ kind' = [kind EXCEPT ![Fresh] = "login"]
        /\ loginSlot' = {Fresh} /\ regSlot' = regSlot
        /\ UNCHANGED <<store, reply, pc, req, used, registered>>
    BY <2>3 DEF LoginBegin, storeVars, history
  <2> QED
    BY <2>1, <2>2, <2>3, <2>4, PageBegins
<1>5. ASSUME NEW b \in Browsers, NEW d \in Devices, Create(b, d) PROVE PagePart'
  <2>1. Prompted(b, "register") /\ UNCHANGED <<vars, session, overlap, reverted>>
    BY <1>5 DEF Create
  <2>2. CASE holds[d] \cap page[b].exclude # {}
    <3>1. Becomes(b, Ends(b, "InvalidStateError"), {}) /\ UNCHANGED holds
      BY <1>5, <2>2 DEF Create
    <3>2. MayShow(b, "InvalidStateError")
      BY <2>1 DEF MayShow, Messages, Prompted
    <3> QED
      BY <2>1, <3>1, <3>2, PageEnds
  <2>3. CASE holds[d] \cap page[b].exclude = {}
    <3>1. /\ holds' = [holds EXCEPT ![d] = {page[b].c}]
          /\ Becomes(b, [page[b] EXCEPT !.at = "signed", !.exclude = {}], {})
      BY <1>5, <2>3 DEF Create
    <3> QED
      BY <2>1, <2>3, <3>1, PageCreates
  <2> QED
    BY <2>2, <2>3
<1>6. ASSUME NEW b \in Browsers, NEW d \in Devices, NEW k \in Keys, Get(b, d, k)
      PROVE  PagePart'
  BY <1>6, PageGets
<1>7. ASSUME NEW b \in Browsers, Cancel(b) PROVE PagePart'
  <2>1. MayShow(b, "NotAllowedError")
    BY <1>7 DEF Cancel, MayShow, Messages
  <2> QED
    BY <1>7, <2>1, PageEnds DEF Cancel
<1>8. ASSUME NEW b \in Browsers, Close(b) PROVE PagePart'
  <2>1. MayShow(b, "")
    BY <1>8 DEF Close, MayShow, Messages, Refusals
  <2> QED
    BY <1>8, <2>1, PageEnds DEF Close
<1>17. ASSUME NEW b \in Browsers, Loads(b) PROVE PagePart'
  <2>1. PICK m \in Loaded(b) : Becomes(b, Ends(b, m), {})
    BY <1>17 DEF Loads
  <2>2. page[b].at = "loading" /\ UNCHANGED <<vars, session, holds, overlap, reverted>>
    BY <1>17 DEF Loads
  <2>3. kind[page[b].c] \in {"login", "register"}
    <3>1. kind[page[b].c] # "none"
      BY <2>2 DEF PageInv, Own, Tracks
    <3>2. page[b].c \in Ceremonies
      BY <1>1 DEF PagesTypeOK, Page
    <3> QED
      BY <1>1, <3>1, <3>2 DEF TypeOK, Kinds
  <2>4. MayShow(b, m)
    BY <2>1, <2>2, <2>3 DEF Loaded, MayShow, Messages, Refusals
  <2> QED
    BY <2>1, <2>2, <2>4, PageEnds
<1>9. ASSUME NEW b \in Browsers, NEW h \in Handlers, RegisterSend(b, h) PROVE PagePart'
  <2>1. /\ page[b].at = "signed" /\ kind[page[b].c] = "register"
        /\ UNCHANGED <<session, holds, overlap, reverted>>
    BY <1>9 DEF RegisterSend
  <2>2. CASE session[b]
    <3>1. RegisterTake(h, page[b].c) /\ Becomes(b, Sent(b, regSlot), Rivals(b, "register"))
      BY <1>9, <2>2 DEF RegisterSend
    <3>2. /\ pc[h] = "idle" /\ regSlot' = {} /\ loginSlot' = loginSlot
          /\ IF page[b].c \in regSlot
             THEN pc' = [pc EXCEPT ![h] = "add"] /\ req' = [req EXCEPT ![h] = page[b].c]
             ELSE UNCHANGED <<pc, req>>
          /\ UNCHANGED <<store, kind, reply, used, registered>>
      BY <3>1 DEF RegisterTake, storeVars, history
    <3> QED
      BY <2>1, <3>1, <3>2, PageSends
  <2>3. CASE ~session[b]
    <3>1. Becomes(b, Ends(b, "unauthorized"), {}) /\ UNCHANGED vars
      BY <1>9, <2>3 DEF RegisterSend, pkPost
    <3>2. MayShow(b, "unauthorized")
      BY <2>1 DEF MayShow, Messages
    <3> QED
      BY <2>1, <3>1, <3>2, PageEnds
  <2> QED
    BY <2>2, <2>3
<1>10. ASSUME NEW b \in Browsers, NEW h \in Handlers, LoginSend(b, h) PROVE PagePart'
  <2>1. /\ page[b].at = "signed" /\ kind[page[b].c] = "login"
        /\ LoginTake(h, page[b].c) /\ Becomes(b, Sent(b, loginSlot), Rivals(b, "login"))
        /\ UNCHANGED <<session, holds, overlap, reverted>>
    BY <1>10 DEF LoginSend
  <2>2. /\ pc[h] = "idle" /\ loginSlot' = {} /\ regSlot' = regSlot
        /\ IF page[b].c \in loginSlot
           THEN pc' = [pc EXCEPT ![h] = "verify"] /\ req' = [req EXCEPT ![h] = page[b].c]
           ELSE UNCHANGED <<pc, req>>
        /\ UNCHANGED <<store, kind, reply, used, registered>>
    BY <2>1 DEF LoginTake, storeVars, history
  <2> QED
    BY <2>1, <2>2, PageSends
<1>11. ASSUME NEW b \in Browsers, NEW k \in Keys, Delete(b, k) PROVE PagePart'
  BY <1>11, PageDeletes
<1>12. ASSUME NEW h \in Handlers, Verifies(h) PROVE PagePart'
  <2>1. /\ UNCHANGED <<page, session, holds, overlap, reverted>>
        /\ UNCHANGED <<store, kind, reply, loginSlot, regSlot, req, used, registered>>
        /\ pc[h] = "verify" /\ pc' = [pc EXCEPT ![h] = "touch"]
    BY <1>12 DEF Verifies, LoginVerify, pageVars, storeVars, history
  <2>2. \A g \in Handlers : /\ pc'[g] = "idle" <=> pc[g] = "idle"
                            /\ pc'[g] = "add" <=> pc[g] = "add"
    BY <1>1, <2>1 DEF TypeOK
  <2>3. session' \in [Browsers -> BOOLEAN]
    BY <1>1, <2>1 DEF PagesTypeOK
  <2> QED
    BY <2>1, <2>2, <2>3, PageRests
<1>13. ASSUME NEW h \in Handlers, Refuses(h) \/ Limits(h) \/ Registers(h) \/ SignsIn(h)
       PROVE  PagePart'
  BY <1>13, PageRefuses, PageLimits, PageRegisters, PageSignsIn
<1>14. CASE ServiceRestarts
  BY <1>14, PageRestarts
<1>15. CASE UNCHANGED allVars
  <2>1. UNCHANGED <<page, session, holds, overlap, reverted, vars>>
    BY <1>15 DEF allVars, pageVars
  <2>2. session' \in [Browsers -> BOOLEAN]
    BY <1>1, <2>1 DEF PagesTypeOK
  <2> QED
    BY <2>1, <2>2, PageRests DEF vars
<1>16. CASE PageNext
  <2>1. ASSUME NEW b \in Browsers,
               \/ PasswordSignIn(b) \/ SessionEnds(b)
               \/ RegisterClick(b) \/ LoginClick(b)
               \/ \E d \in Devices : Create(b, d) \/ \E k \in Keys : Get(b, d, k)
               \/ Cancel(b) \/ Sends(b) \/ Loads(b) \/ Close(b)
               \/ \E k \in Keys : Delete(b, k)
        PROVE  PagePart'
    BY <1>2, <1>3, <1>4, <1>5, <1>6, <1>7, <1>8, <1>9, <1>10, <1>11, <1>17, <2>1 DEF Sends
  <2>2. ASSUME NEW h \in Handlers, Serves(h) PROVE PagePart'
    BY <1>12, <1>13, <2>2 DEF Serves
  <2> QED
    BY <1>14, <1>16, <2>1, <2>2 DEF PageNext
<1> QED
  BY <1>15, <1>16

LEMMA PageInvNext == PageInv /\ [PageNext]_allVars => PageInv'
<1> SUFFICES ASSUME PageInv, [PageNext]_allVars PROVE PageInv'
  OBVIOUS
<1>1. [Next]_vars
  BY PageStep DEF PageInv
<1>2. PInv' /\ Agreed'
  BY <1>1, PasskeyNext, AgreedNext DEF PageInv
<1>3. Working' /\ CountsBehind'
  BY <1>1, WorkingStep, CountsStep DEF PageInv
<1> QED
  BY <1>2, <1>3, PagePartNext DEF PageInv, PagePart

-----------------------------------------------------------------------------
THEOREM PagesInductive == PageSpec => []PageInv
<1> QED
  BY PageInitial, PageInvNext, PTL DEF PageSpec

\* Every variable of the pages keeps its type.
THEOREM PagesTypeCorrect == PageSpec => []PagesTypeOK
<1>1. PageInv => PagesTypeOK
  BY DEF PageInv
<1> QED
  BY <1>1, PagesInductive, PTL

\* What a page shows is what the service did, for any number of pages, but for
\* a list that is refused after its registration was accepted.
THEOREM PagesShowTruth == PageSpec => []ShownIsTrue
<1>1. PageInv => ShownIsTrue
  <2> SUFFICES ASSUME PageInv, NEW b \in Browsers
      PROVE  LET shows == page[b].shows
                 c == page[b].c
             IN  /\ page[b].accepted => used[c] = 1
                 /\ shows = "registered" => kind[c] = "register" /\ used[c] = 1
                 /\ shows = "signedin" => kind[c] = "login" /\ used[c] = 1
                 /\ shows \in {"unauthorized", "refused", "limited", "NotAllowedError",
                              "InvalidStateError"}
                    => used[c] = 0 \/ (page[b].accepted /\ shows = "unauthorized")
    BY DEF ShownIsTrue
  <2>1. Tells(b)
    BY DEF PageInv, Told
  <2> QED
    BY <2>1 DEF Tells, Refusals, Quiet
<1> QED
  BY <1>1, PagesInductive, PTL

\* No ceremony is refused without a cause, whatever the bytes of its challenge
\* and of its passkey.
THEOREM PagesRefusedForCause == PageSpec => []RefusedHasCause
<1>1. PageInv => RefusedHasCause
  BY DEF PageInv
<1> QED
  BY <1>1, PagesInductive, PTL

\* The exclusion list keeps stored passkeys on their authenticators.
THEOREM PagesKeepStored == PageSpec => []StoredIsHeld
<1>1. PageInv => StoredIsHeld
  BY DEF PageInv, StoredPresent, Present, StoredIsHeld
<1> QED
  BY <1>1, PagesInductive, PTL
=============================================================================
