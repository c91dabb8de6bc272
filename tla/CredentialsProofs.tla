------------------------- MODULE CredentialsProofs -------------------------
(***************************************************************************)
(* Proofs about Credentials, for any number of bakes and logins and any    *)
(* pattern of failures.                                                    *)
(***************************************************************************)
EXTENDS Credentials, SequenceTheorems, TLAPS

\* The loops of the converter end at the leading token.
LEMMA FirstIsLeading ==
    ASSUME NEW store \in Seq(Entry)
    PROVE  FirstToken(store) = Leading(store)
<1>1. DOMAIN store \subseteq Nat
  OBVIOUS
<1>2. \A j \in DOMAIN store :
        (store[j].type # "none" /\ \A k \in DOMAIN store : k < j => store[k].type = "none")
           <=> (j \in Tokens(store) /\ \A k \in Tokens(store) : j <= k)
  BY <1>1 DEF Tokens
<1> QED
  BY <1>2 DEF FirstToken, Leading, Tokens

LEMMA FirstTyped ==
    ASSUME NEW store \in Seq(Entry), NEW t \in FirstToken(store)
    PROVE  /\ t \in Token /\ FirstToken(store) = {t}
           /\ IsApiKey(t) <=> t.type = "ApiKey"
           /\ \E i \in DOMAIN store : t = store[i]
<1>1. PICK i \in DOMAIN store : /\ t = store[i] /\ store[i].type # "none"
                                /\ \A k \in DOMAIN store : k < i => store[k].type = "none"
  BY DEF FirstToken
<1>2. t \in Entry /\ t.type # "none" /\ DOMAIN store \subseteq Nat
  BY <1>1
<1>3. t \in Token /\ t.type \in Types
  BY <1>2 DEF Entry, Token, Types
<1>4. IsApiKey(t) <=> t.type = "ApiKey"
  BY <1>3 DEF IsApiKey, Types
<1>5. ASSUME NEW u \in FirstToken(store) PROVE u = t
  <2>1. PICK j \in DOMAIN store : /\ u = store[j] /\ store[j].type # "none"
                                  /\ \A k \in DOMAIN store : k < j => store[k].type = "none"
    BY <1>5 DEF FirstToken
  <2>2. ~(i < j) /\ ~(j < i)
    BY <1>1, <2>1
  <2> QED
    BY <1>1, <1>2, <2>1, <2>2
<1> QED
  BY <1>1, <1>3, <1>4, <1>5

\* A login leaves a store.
LEMMA EnteredIs ==
    ASSUME TypeOK, NEW t \in Token
    PROVE  /\ Entered(t) \in Seq(Entry)
           /\ \A i \in DOMAIN Entered(t) :
                Entered(t)[i] = t \/ \E e \in enc : \E k \in DOMAIN e.store : Entered(t)[i] = e.store[k]
<1>1. t \in Entry
  BY DEF Token, Entry
<1>2. CASE \E e \in enc : e.host = host
  <2> DEFINE c == CHOOSE e \in enc : e.host = host
             store == c.store
  <2>1. c \in enc /\ store \in Seq(Entry)
    BY <1>2 DEF TypeOK
  <2> HIDE DEF c
  <2>2. Entered(t) = IF \E i \in DOMAIN store : store[i].type = t.type
             THEN [i \in DOMAIN store |-> IF store[i].type = t.type THEN t ELSE store[i]]
             ELSE Append(store, t)
    BY <1>2 DEF Entered, c
  <2> HIDE DEF store
  <2>3. CASE \E i \in DOMAIN store : store[i].type = t.type
    <3>1. Entered(t) = [i \in DOMAIN store |-> IF store[i].type = t.type THEN t ELSE store[i]]
      BY <2>2, <2>3
    <3>2. DOMAIN store = 1..Len(store) /\ Len(store) \in Nat
          /\ \A i \in DOMAIN store : store[i] \in Entry
      BY <2>1
    <3>3. Entered(t) \in [1..Len(store) -> Entry]
      BY <1>1, <3>1, <3>2
    <3>4. Entered(t) \in Seq(Entry)
      BY <3>2, <3>3, SeqDef
    <3>5. \A i \in DOMAIN Entered(t) : i \in DOMAIN store /\ Entered(t)[i] \in {t, store[i]}
      BY <3>1
    <3> QED
      BY <2>1, <3>4, <3>5 DEF store
  <2>4. CASE ~(\E i \in DOMAIN store : store[i].type = t.type)
    <3>1. Entered(t) = Append(store, t)
      BY <2>2, <2>4
    <3>2. Entered(t) \in Seq(Entry)
      BY <1>1, <2>1, <3>1
    <3>3. \A i \in DOMAIN Entered(t) : Entered(t)[i] = t \/ (i \in DOMAIN store /\ Entered(t)[i] = store[i])
      BY <1>1, <2>1, <3>1
    <3> QED
      BY <2>1, <3>2, <3>3 DEF store
  <2> QED
    BY <2>3, <2>4
<1>3. CASE ~(\E e \in enc : e.host = host)
  <2>1. Entered(t) = <<t>>
    BY <1>3 DEF Entered
  <2> QED
    BY <1>1, <2>1
<1> QED
  BY <1>2, <1>3

-----------------------------------------------------------------------------
(***************************************************************************)
(* The invariant.  A bake that has no other beside it carries along where   *)
(* its login comes from.                                                   *)
(***************************************************************************)
Kind(files, type) == \A t \in files : t.type = type

KindsInv ==
    /\ Kind(oauth, "Bearer") /\ Kind(image.files.oauth, "Bearer") /\ Kind(image.key, "ApiKey")
    /\ \A j \in Bakes : Kind(token[j], "Bearer") /\ Kind(staged[j].oauth, "Bearer") /\ Kind(key[j], "ApiKey")

HomeInv ==
    /\ \A d, e \in enc : d = e
    /\ torn => enc # {}

ApartInv ==
    \A i, j \in Bakes : i # j /\ pc[i] # "idle" /\ pc[j] # "idle" => beside[i]

Fresh(j) ==
    /\ pc[j] \in {"idle", "convert", "write"} => key[j] = {}
    /\ pc[j] \in {"convert", "write"} => enc # {}
    /\ pc[j] = "write" => token[j] \in seen[j]

Witnessed(j) == Reading(j) => Current \in seen[j]

\* What the bake is to carry.
Bears(j, files) == IF key[j] # {} THEN key[j] ELSE files

MidInv(j) ==
    /\ pc[j] \in {"copyEnc", "copyOauth"} /\ ~warned[j] /\ ~beside[j] => Bears(j, oauth) \in seen[j]
    /\ pc[j] = "build" /\ ~warned[j] /\ ~beside[j] => Bears(j, staged[j].oauth) \in seen[j]

SomeLogin(logs) == \E l \in logs : l # {}

HeldInv(j) ==
    /\ pc[j] \in {"write", "copyEnc", "copyOauth"} /\ ~warned[j] /\ enc # {} => SomeLogin(seen[j])
    /\ pc[j] = "copyOauth" /\ staged[j].enc => enc # {}
    /\ pc[j] = "build" /\ ~warned[j] /\ (staged[j].enc \/ staged[j].torn) => SomeLogin(seen[j])

BakeInv(j) == Fresh(j) /\ Witnessed(j) /\ MidInv(j) /\ HeldInv(j) /\ (pc[j] = "check" => image.built)

ImageInv ==
    /\ image.built /\ ~image.warned /\ (image.files.enc \/ image.files.torn) => SomeLogin(image.seen)
    /\ image.ran => image.built

Core == KindsInv /\ HomeInv /\ ApartInv /\ (\A j \in Bakes : BakeInv(j))

\* All that the image promises.
ImageTold == ImageInv /\ BakedIsCurrent /\ CheckIsRight

IInv == TypeOK /\ Core /\ ImageTold

-----------------------------------------------------------------------------
LEMMA InitTyped == Init => TypeOK
<1> SUFFICES ASSUME Init PROVE TypeOK
  OBVIOUS
<1>1. Other \in Entry /\ {} \subseteq Token /\ {} \in SUBSET SUBSET Token
  BY DEF Other, Entry
<1>2. <<Other>> \in Seq(Entry)
  BY <1>1
<1>3. [host |-> host, store |-> <<Other>>] \in [host : Hosts, store : Seq(Entry)]
  BY <1>2 DEF Init
<1>5. enc = {} \/ enc = {[host |-> host, store |-> <<Other>>]}
  BY DEF Init
<1>6. enc \subseteq [host : Hosts, store : Seq(Entry)]
  BY <1>3, <1>5
<1>4. NoFiles \in Files
  BY <1>1 DEF NoFiles, Files
<1>7. image \in Image
  BY <1>1, <1>4 DEF Init, Image
<1> QED
  BY <1>1, <1>4, <1>6, <1>7 DEF Init, TypeOK

LEMMA ImageTyped ==
    ASSUME TypeOK, NEW j \in Bakes, Build(j)
    PROVE  image' \in Image
BY DEF TypeOK, Build, Image

LEMMA ExitTyped ==
    ASSUME TypeOK, NEW j \in Bakes, Exits(j)
    PROVE  /\ pc' \in [Bakes -> {"idle", "convert", "write", "copyEnc", "copyOauth", "build", "check"}]
           /\ token' \in [Bakes -> SUBSET Token] /\ key' \in [Bakes -> SUBSET Token]
           /\ warned' \in [Bakes -> BOOLEAN] /\ staged' \in [Bakes -> Files]
           /\ beside' \in [Bakes -> BOOLEAN] /\ seen' \in [Bakes -> SUBSET SUBSET Token]
<1>1. NoFiles \in Files
  BY DEF NoFiles, Files
<1> QED
  BY <1>1 DEF TypeOK, Exits, Goto

LEMMA CurrentTyped ==
    ASSUME NEW files \in SUBSET [host : Hosts, store : Seq(Entry)], NEW plain \in SUBSET Token
    PROVE  CurrentIn(files, plain) \in SUBSET Token
<1>1. ASSUME NEW e \in files PROVE Leading(e.store) \subseteq Token
  <2>1. e.store \in Seq(Entry)
    OBVIOUS
  <2>2. \A i \in DOMAIN e.store : e.store[i] \in Entry
    BY <2>1
  <2>3. \A i \in Tokens(e.store) : i \in DOMAIN e.store /\ e.store[i].type # "none"
    BY DEF Tokens
  <2>4. \A i \in Tokens(e.store) : e.store[i] \in Token
    BY <2>2, <2>3 DEF Entry, Token
  <2> QED
    BY <2>4 DEF Leading
<1> QED
  BY <1>1 DEF CurrentIn

LEMMA NoticeTyped ==
    ASSUME TypeOK, Notice,
           enc' \in SUBSET [host : Hosts, store : Seq(Entry)], oauth' \in SUBSET Token
    PROVE  seen' \in [Bakes -> SUBSET SUBSET Token]
<1>1. /\ \A j \in Bakes : seen[j] \in SUBSET SUBSET Token
      /\ CurrentIn(enc', oauth') \in SUBSET Token
  BY CurrentTyped DEF TypeOK
<1>2. \A j \in Bakes : seen[j] \cup {CurrentIn(enc', oauth')} \in SUBSET SUBSET Token
  BY <1>1
<1> QED
  BY <1>1, <1>2 DEF Notice

LEMMA StagedTyped ==
    ASSUME NEW f \in Files
    PROVE  /\ \A b \in BOOLEAN : [f EXCEPT !.enc = b] \in Files
           /\ \A o \in SUBSET Token, b \in BOOLEAN : [f EXCEPT !.oauth = o, !.torn = b] \in Files
BY DEF Files

LEMMA RecordTyped ==
    ASSUME NEW i \in Image, NEW ran \in BOOLEAN, NEW says \in {"", "verified", "not logged in"}
    PROVE  [i EXCEPT !.ran = ran, !.says = says] \in Image
BY DEF Image

LEMMA TypeStep ==
    ASSUME TypeOK, [Next]_vars
    PROVE  TypeOK'
<1>1. ASSUME NEW type \in Types, Login(type) PROVE TypeOK'
  <2>1. logins' \in Nat
    BY <1>1 DEF TypeOK, Login
  <2>2. PICK t \in Token : enc' = {[host |-> host, store |-> Entered(t)]}
    BY <1>1, <2>1 DEF Login, Token
  <2>3. enc' \in SUBSET [host : Hosts, store : Seq(Entry)] /\ oauth' \in SUBSET Token
    <3>1. Entered(t) \in Seq(Entry) /\ host \in Hosts /\ oauth' = oauth
      BY <1>1, EnteredIs DEF TypeOK, Login
    <3> QED
      BY <2>2, <3>1 DEF TypeOK
  <2>4. seen' \in [Bakes -> SUBSET SUBSET Token]
    BY <1>1, <2>3, NoticeTyped DEF Login
  <2> QED
    BY <1>1, <2>1, <2>3, <2>4 DEF TypeOK, Login, bakeVars
<1>2. ASSUME OldLogin PROVE TypeOK'
  <2>0. logins' \in Nat /\ "Bearer" \in Types
    BY <1>2 DEF TypeOK, OldLogin, Types
  <2>1. [type |-> "Bearer", n |-> logins'] \in Token
    BY <2>0 DEF Token
  <2>2. enc' \in SUBSET [host : Hosts, store : Seq(Entry)] /\ oauth' \in SUBSET Token
    BY <1>2, <2>1 DEF TypeOK, OldLogin
  <2>3. seen' \in [Bakes -> SUBSET SUBSET Token]
    BY <1>2, <2>2, NoticeTyped DEF OldLogin
  <2> QED
    BY <1>2, <2>0, <2>2, <2>3 DEF TypeOK, OldLogin, bakeVars
<1>3. ASSUME NEW h \in Hosts, Rename(h) PROVE TypeOK'
  BY <1>3 DEF TypeOK, Rename, bakeVars
<1>4. ASSUME NEW j \in Bakes, Begin(j) PROVE TypeOK'
  <2>1. Current \in SUBSET Token
    BY CurrentTyped DEF TypeOK, Current
  <2>2. seen' \in [Bakes -> SUBSET SUBSET Token]
    BY <1>4, <2>1 DEF TypeOK, Begin
  <2> QED
    BY <1>4, <2>2 DEF TypeOK, Begin, home, Goto
<1>5. ASSUME NEW j \in Bakes, Convert(j) PROVE TypeOK'
  <2>1. PICK e \in enc : \E t \in FirstToken(e.store) :
        IF IsApiKey(t)
        THEN /\ key' = [key EXCEPT ![j] = {t}]
             /\ Goto(j, "copyEnc")
             /\ UNCHANGED <<oauth, torn, token>>
        ELSE /\ token' = [token EXCEPT ![j] = {t}]
             /\ oauth' = {} /\ torn' = TRUE
             /\ Goto(j, "write")
             /\ UNCHANGED key
    BY <1>5 DEF Convert
  <2>2. e.store \in Seq(Entry)
    BY DEF TypeOK
  <2>3. \A t \in FirstToken(e.store) : t \in Token
    BY <2>2, FirstTyped
  <2>4. pc' \in [Bakes -> {"idle", "convert", "write", "copyEnc", "copyOauth", "build", "check"}]
    BY <2>1 DEF TypeOK, Goto
  <2>5. token' \in [Bakes -> SUBSET Token] /\ key' \in [Bakes -> SUBSET Token]
    BY <2>1, <2>3 DEF TypeOK
  <2>6. oauth' \subseteq Token /\ torn' \in BOOLEAN
    BY <2>1 DEF TypeOK
  <2> QED
    BY <1>5, <2>4, <2>5, <2>6 DEF TypeOK, Convert
<1>6. ASSUME NEW j \in Bakes, ConvertFails(j) PROVE TypeOK'
  BY <1>6 DEF TypeOK, ConvertFails, home, Goto
<1>7. ASSUME NEW j \in Bakes, Write(j) PROVE TypeOK'
  BY <1>7 DEF TypeOK, Write, Goto
<1>8. ASSUME NEW j \in Bakes, WriteFails(j) PROVE TypeOK'
  BY <1>8 DEF TypeOK, WriteFails, home, Goto
<1>9. ASSUME NEW j \in Bakes, CopyEnc(j) PROVE TypeOK'
  <2>1. staged' \in [Bakes -> Files]
    <3>1. [staged[j] EXCEPT !.enc = (enc # {})] \in Files
      BY StagedTyped DEF TypeOK
    <3>2. staged' = [staged EXCEPT ![j] = [staged[j] EXCEPT !.enc = (enc # {})]]
      BY <1>9 DEF CopyEnc
    <3> QED
      BY <3>1, <3>2 DEF TypeOK
  <2> QED
    BY <1>9, <2>1 DEF TypeOK, CopyEnc, home, Goto
<1>10. ASSUME NEW j \in Bakes, CopyOauth(j) PROVE TypeOK'
  <2>1. staged' \in [Bakes -> Files]
    <3>1. [staged[j] EXCEPT !.oauth = oauth, !.torn = torn] \in Files
      BY StagedTyped DEF TypeOK
    <3>2. staged' = [staged EXCEPT ![j] = [staged[j] EXCEPT !.oauth = oauth, !.torn = torn]]
      BY <1>10 DEF CopyOauth
    <3> QED
      BY <3>1, <3>2 DEF TypeOK
  <2> QED
    BY <1>10, <2>1 DEF TypeOK, CopyOauth, home, Goto
<1>11. ASSUME NEW j \in Bakes, Build(j) PROVE TypeOK'
  <2>1. image' \in Image
    BY <1>11, ImageTyped
  <2> QED
    BY <1>11, <2>1 DEF TypeOK, Build, home, Goto
<1>12. ASSUME NEW j \in Bakes, Check(j) \/ CheckElsewhere(j) \/ CheckFails(j) \/ Dies(j) PROVE TypeOK'
  <2>1. Exits(j) /\ UNCHANGED home
    BY <1>12 DEF Check, CheckElsewhere, CheckFails, Dies, home
  <2>2. image' \in Image
    <3>1. CASE \E ran \in BOOLEAN, says \in {"", "verified", "not logged in"} :
                  image' = [image EXCEPT !.ran = ran, !.says = says]
      <4>1. image \in Image
        BY DEF TypeOK
      <4>2. PICK ran \in BOOLEAN, says \in {"", "verified", "not logged in"} :
                  image' = [image EXCEPT !.ran = ran, !.says = says]
        BY <3>1
      <4>3. [image EXCEPT !.ran = ran, !.says = says] \in Image
        BY <4>1, RecordTyped
      <4> QED
        BY <4>2, <4>3
    <3>2. CASE image' = image
      BY <3>2 DEF TypeOK
    <3> QED
      BY <1>12, <3>1, <3>2 DEF Check, CheckElsewhere, CheckFails, Dies
  <2> QED
    BY <2>1, <2>2, ExitTyped DEF TypeOK, home
<1>13. CASE UNCHANGED vars
  BY <1>13 DEF TypeOK, vars
<1> QED
  BY <1>1, <1>2, <1>3, <1>4, <1>5, <1>6, <1>7, <1>8, <1>9, <1>10, <1>11, <1>12, <1>13 DEF Next, Bake

-----------------------------------------------------------------------------
LEMMA SoleCurrent ==
    ASSUME HomeInv, NEW e \in enc
    PROVE  Current = Leading(e.store)
<1>1. enc = {e}
  BY DEF HomeInv
<1>2. {Leading(d.store) : d \in enc} = {Leading(e.store)}
  BY <1>1
<1> QED
  BY <1>1, <1>2 DEF Current, CurrentIn

\* With an encrypted file the other one does not count.
LEMMA CurrentStays ==
    ASSUME enc' = enc, enc # {} \/ oauth' = oauth
    PROVE  Current' = Current
BY DEF Current, CurrentIn

\* What another bake's step leaves alone.
Unmoved(i) ==
    /\ pc'[i] = pc[i] /\ token'[i] = token[i] /\ key'[i] = key[i] /\ warned'[i] = warned[i]
    /\ staged'[i] = staged[i] /\ (beside[i] => beside'[i]) /\ seen'[i] = seen[i]

\* A file may only change under a bake that knows it is not alone.
Tolerates(i) == oauth' = oauth \/ pc[i] = "idle" \/ beside[i]

LEMMA UnmovedKeeps ==
    ASSUME NEW i \in Bakes, BakeInv(i), Unmoved(i), Tolerates(i), beside'[i] \in BOOLEAN,
           enc' = enc, Current' = Current, image.built => image'.built
    PROVE  BakeInv(i)'
<1>1. Fresh(i)'
  BY DEF BakeInv, Fresh, Unmoved
<1>2. Witnessed(i)'
  BY DEF BakeInv, Witnessed, Reading, Unmoved
<1>3. MidInv(i)'
  <2>1. ASSUME ~beside'[i] PROVE ~beside[i]
    BY <2>1 DEF Unmoved
  <2>2. ASSUME pc[i] \in {"copyEnc", "copyOauth"}, ~warned[i], ~beside[i]
        PROVE  oauth' = oauth /\ Bears(i, oauth) \in seen[i]
    BY <2>2 DEF BakeInv, MidInv, Tolerates
  <2>3. pc[i] = "build" /\ ~warned[i] /\ ~beside[i] => Bears(i, staged[i].oauth) \in seen[i]
    BY DEF BakeInv, MidInv
  <2> QED
    BY <2>1, <2>2, <2>3 DEF MidInv, Bears, Unmoved
<1>4. HeldInv(i)'
  <2>1. HeldInv(i)
    BY DEF BakeInv
  <2> QED
    BY <2>1 DEF HeldInv, SomeLogin, Unmoved
<1>5. (pc[i] = "check" => image.built)'
  BY DEF BakeInv, Unmoved
<1> QED
  BY <1>1, <1>2, <1>3, <1>4, <1>5 DEF BakeInv

LEMMA ImageStays ==
    ASSUME ImageTold, image' = image
    PROVE  ImageTold'
BY DEF ImageTold, ImageInv, BakedIsCurrent, CheckIsRight, Carried, SomeLogin

LEMMA SameApart ==
    ASSUME ApartInv, \A i \in Bakes : (beside[i] => beside'[i]) \/ pc'[i] = "idle",
           \A i \in Bakes : pc'[i] # "idle" => pc[i] # "idle"
    PROVE  ApartInv'
BY DEF ApartInv

-----------------------------------------------------------------------------
\* The steps that leave the bakes where they are.
LEMMA LoginKeeps ==
    ASSUME TypeOK, Core, NEW type \in Types, Login(type), logins' \in Nat
    PROVE  Core'
<1>1. PICK t \in Token : enc' = {[host |-> host, store |-> Entered(t)]}
  BY DEF Login, Token
<1>2. /\ oauth' = oauth /\ torn' = torn /\ pc' = pc /\ token' = token /\ key' = key
      /\ warned' = warned /\ staged' = staged /\ beside' = beside /\ image' = image /\ Notice
  BY DEF Login, bakeVars
<1>3. \A j \in Bakes : seen'[j] = IF Reading(j) THEN seen[j] \cup {Current'} ELSE seen[j]
  BY <1>2 DEF Notice, Current
<1>4. ASSUME enc = {} PROVE Current' # {}
  <2>1. Entered(t) = <<t>>
    BY <1>4 DEF Entered
  <2>2. t.type # "none" /\ DOMAIN <<t>> = {1} /\ <<t>>[1] = t
    BY DEF Token, Types
  <2>3. Tokens(<<t>>) = {1}
    BY <2>2 DEF Tokens
  <2>4. t \in Leading(<<t>>)
    BY <2>2, <2>3 DEF Leading
  <2>5. Current' = Leading(<<t>>)
    <3>1. {Leading(e.store) : e \in enc'} = {Leading(<<t>>)}
      BY <1>1, <2>1
    <3> QED
      BY <1>1, <3>1 DEF Current, CurrentIn
  <2> QED
    BY <2>4, <2>5
<1>5. KindsInv' /\ HomeInv' /\ ApartInv'
  BY <1>1, <1>2 DEF Core, KindsInv, Kind, HomeInv, ApartInv
<1>6. ASSUME NEW j \in Bakes PROVE BakeInv(j)'
  <2>1. Fresh(j)'
    BY <1>1, <1>2, <1>3 DEF Core, BakeInv, Fresh
  <2>2. Witnessed(j)'
    BY <1>2, <1>3 DEF Witnessed, Reading
  <2>3. MidInv(j)'
    BY <1>2, <1>3 DEF Core, BakeInv, MidInv, Bears
  <2>4. HeldInv(j)'
    <3>1. CASE enc = {}
      BY <1>1, <1>2, <1>3, <1>4, <3>1 DEF Core, BakeInv, HeldInv, SomeLogin, Reading
    <3>2. CASE enc # {}
      BY <1>1, <1>2, <1>3, <3>2 DEF Core, BakeInv, HeldInv, SomeLogin, Reading
    <3> QED
      BY <3>1, <3>2
  <2> QED
    BY <1>2, <2>1, <2>2, <2>3, <2>4 DEF Core, BakeInv
<1> QED
  BY <1>5, <1>6 DEF Core

LEMMA OldLoginKeeps ==
    ASSUME TypeOK, Core, OldLogin
    PROVE  Core'
<1>1. oauth' = {[type |-> "Bearer", n |-> logins']} /\ torn' = FALSE /\ enc = {} /\ enc' = {}
  BY DEF OldLogin
<1>2. /\ pc' = pc /\ token' = token /\ key' = key /\ warned' = warned
      /\ staged' = staged /\ beside' = beside /\ image' = image /\ Notice
  BY DEF OldLogin, bakeVars
<1>3. \A j \in Bakes : seen'[j] = IF Reading(j) THEN seen[j] \cup {Current'} ELSE seen[j]
  BY <1>2 DEF Notice, Current
<1>4. Current' = oauth'
  BY <1>1 DEF Current, CurrentIn
<1>5. KindsInv' /\ HomeInv' /\ ApartInv'
  BY <1>1, <1>2 DEF Core, KindsInv, Kind, HomeInv, ApartInv
<1>6. ASSUME NEW j \in Bakes PROVE BakeInv(j)'
  <2>1. Fresh(j)'
    BY <1>1, <1>2, <1>3 DEF Core, BakeInv, Fresh
  <2>2. Witnessed(j)'
    BY <1>2, <1>3 DEF Witnessed, Reading
  <2>3. MidInv(j)'
    BY <1>2, <1>3, <1>4 DEF Core, BakeInv, MidInv, Bears, Reading
  <2>4. HeldInv(j)'
    BY <1>1, <1>2, <1>3 DEF Core, BakeInv, HeldInv, SomeLogin, Reading
  <2> QED
    BY <1>2, <2>1, <2>2, <2>3, <2>4 DEF Core, BakeInv
<1> QED
  BY <1>5, <1>6 DEF Core

LEMMA RenameKeeps ==
    ASSUME Core, NEW h \in Hosts, Rename(h) \/ UNCHANGED vars
    PROVE  Core'
<1>1. /\ enc' = enc /\ oauth' = oauth /\ torn' = torn /\ pc' = pc /\ token' = token /\ key' = key
      /\ warned' = warned /\ staged' = staged /\ beside' = beside /\ seen' = seen /\ image' = image
  BY DEF Rename, bakeVars, vars
<1>2. KindsInv' /\ HomeInv' /\ ApartInv'
  BY <1>1 DEF Core, KindsInv, Kind, HomeInv, ApartInv
<1>3. ASSUME NEW j \in Bakes PROVE BakeInv(j)'
  <2>1. Current' = Current /\ BakeInv(j)
    BY <1>1, CurrentStays DEF Core
  <2> QED
    BY <1>1, <2>1 DEF BakeInv, Fresh, Witnessed, MidInv, Bears, HeldInv, SomeLogin, Reading
<1> QED
  BY <1>2, <1>3 DEF Core

-----------------------------------------------------------------------------
\* The steps of a bake.
LEMMA BeginKeeps ==
    ASSUME TypeOK, Core, NEW j \in Bakes, Begin(j)
    PROVE  Core'
<1>1. /\ enc' = enc /\ oauth' = oauth /\ torn' = torn /\ token' = token /\ key' = key
      /\ warned' = warned /\ staged' = staged /\ image' = image /\ Current' = Current
  BY CurrentStays DEF Begin, home
<1>2. /\ pc[j] = "idle" /\ pc'[j] = (IF enc # {} THEN "convert" ELSE "copyEnc") /\ seen'[j] = {Current}
      /\ \A i \in Bakes : i # j => pc'[i] = pc[i] /\ seen'[i] = seen[i]
  BY DEF TypeOK, Begin, Goto
<1>3. \A i \in Bakes : beside'[i] = IF i = j THEN Active # {} ELSE beside[i] \/ i \in Active
  BY DEF Begin
<1>4. KindsInv' /\ HomeInv'
  BY <1>1 DEF Core, KindsInv, Kind, HomeInv
<1>5. ApartInv'
  <2> SUFFICES ASSUME NEW i \in Bakes, NEW k \in Bakes, i # k, pc'[i] # "idle", pc'[k] # "idle"
               PROVE  beside'[i]
    BY DEF ApartInv
  <2>1. CASE i = j
    BY <1>2, <1>3, <2>1 DEF Active
  <2>2. CASE i # j
    BY <1>2, <1>3, <2>2 DEF Active
  <2> QED
    BY <2>1, <2>2
<1>6. BakeInv(j)'
  <2>0. BakeInv(j)
    BY DEF Core
  <2>1. Fresh(j)' /\ Witnessed(j)' /\ HeldInv(j)'
    BY <1>1, <1>2, <2>0 DEF BakeInv, Fresh, Witnessed, HeldInv
  <2>2. MidInv(j)'
    <3>1. CASE enc = {}
      <4>1. key[j] = {} /\ Current = oauth
        BY <1>2, <2>0, <3>1 DEF BakeInv, Fresh, Current, CurrentIn
      <4> QED
        BY <1>1, <1>2, <4>1 DEF MidInv, Bears
    <3>2. CASE enc # {}
      BY <1>2, <3>2 DEF MidInv
    <3> QED
      BY <3>1, <3>2
  <2> QED
    BY <1>2, <2>1, <2>2 DEF BakeInv
<1>7. ASSUME NEW i \in Bakes, i # j PROVE BakeInv(i)'
  <2>1. Unmoved(i) /\ Tolerates(i) /\ beside'[i] \in BOOLEAN
    BY <1>1, <1>2, <1>3, <1>7 DEF TypeOK, Unmoved, Tolerates
  <2> QED
    BY <1>1, <2>1, UnmovedKeeps DEF Core
<1> QED
  BY <1>4, <1>5, <1>6, <1>7 DEF Core

LEMMA ConvertKeeps ==
    ASSUME TypeOK, Core, NEW j \in Bakes, Convert(j)
    PROVE  Core'
<1>1. /\ enc' = enc /\ warned' = warned /\ staged' = staged /\ beside' = beside /\ seen' = seen
      /\ image' = image /\ pc[j] = "convert"
  BY DEF Convert
<1>0. PICK e \in enc : \E t \in FirstToken(e.store) :
        IF IsApiKey(t)
        THEN /\ key' = [key EXCEPT ![j] = {t}]
             /\ Goto(j, "copyEnc")
             /\ UNCHANGED <<oauth, torn, token>>
        ELSE /\ token' = [token EXCEPT ![j] = {t}]
             /\ oauth' = {} /\ torn' = TRUE
             /\ Goto(j, "write")
             /\ UNCHANGED key
  BY DEF Convert
<1>2. PICK t \in FirstToken(e.store) :
        IF IsApiKey(t)
        THEN /\ key' = [key EXCEPT ![j] = {t}]
             /\ Goto(j, "copyEnc")
             /\ UNCHANGED <<oauth, torn, token>>
        ELSE /\ token' = [token EXCEPT ![j] = {t}]
             /\ oauth' = {} /\ torn' = TRUE
             /\ Goto(j, "write")
             /\ UNCHANGED key
  BY <1>0
<1>3. /\ Current' = Current /\ BakeInv(j) /\ enc # {}
  BY <1>1, CurrentStays DEF Core
<1>4. {t} = Current /\ (IsApiKey(t) <=> t.type = "ApiKey") /\ t.type \in Types
  <2>1. e.store \in Seq(Entry)
    BY DEF TypeOK
  <2>2. {t} = FirstToken(e.store) /\ t \in Token /\ (IsApiKey(t) <=> t.type = "ApiKey")
    BY <2>1, FirstTyped
  <2> QED
    BY <2>1, <2>2, FirstIsLeading, SoleCurrent DEF Core, Token
<1>5. {t} \in seen[j] /\ SomeLogin(seen[j])
  <2>1. {t} \in seen[j]
    BY <1>1, <1>3, <1>4 DEF BakeInv, Witnessed, Reading
  <2> QED
    BY <2>1 DEF SomeLogin
<1>6. CASE IsApiKey(t)
  <2>1. /\ oauth' = oauth /\ torn' = torn /\ token' = token /\ pc'[j] = "copyEnc" /\ key'[j] = {t}
        /\ \A i \in Bakes : i # j => pc'[i] = pc[i] /\ key'[i] = key[i]
    BY <1>2, <1>6 DEF TypeOK, Goto
  <2>2. KindsInv' /\ HomeInv'
    <3>1. Kind(key'[j], "ApiKey")
      BY <1>4, <1>6, <2>1 DEF Kind
    <3> QED
      BY <1>1, <2>1, <3>1 DEF Core, KindsInv, Kind, HomeInv
  <2>3. BakeInv(j)'
    <3>1. Fresh(j)' /\ Witnessed(j)'
      BY <1>1, <1>3, <2>1 DEF BakeInv, Fresh, Witnessed, Reading
    <3>2. MidInv(j)' /\ HeldInv(j)'
      BY <1>1, <1>5, <2>1 DEF MidInv, Bears, HeldInv
    <3> QED
      BY <2>1, <3>1, <3>2 DEF BakeInv
  <2> QED
    <3>1. ApartInv'
      BY <1>1, <2>1, SameApart DEF Core
    <3>2. ASSUME NEW i \in Bakes, i # j PROVE BakeInv(i)'
      <4>1. Unmoved(i) /\ Tolerates(i) /\ beside'[i] \in BOOLEAN
        BY <1>1, <2>1, <3>2 DEF TypeOK, Unmoved, Tolerates
      <4> QED
        BY <1>1, <1>3, <4>1, UnmovedKeeps DEF Core
    <3> QED
      BY <2>2, <2>3, <3>1, <3>2 DEF Core
<1>7. CASE ~IsApiKey(t)
  <2>1. /\ oauth' = {} /\ torn' = TRUE /\ key' = key /\ pc'[j] = "write" /\ token'[j] = {t}
        /\ \A i \in Bakes : i # j => pc'[i] = pc[i] /\ token'[i] = token[i]
    BY <1>2, <1>7 DEF TypeOK, Goto
  <2>2. KindsInv' /\ HomeInv'
    <3>1. Kind(token'[j], "Bearer")
      BY <1>4, <1>7, <2>1 DEF Kind, Types
    <3> QED
      BY <1>1, <1>3, <2>1, <3>1 DEF Core, KindsInv, Kind, HomeInv
  <2>3. BakeInv(j)'
    <3>1. Fresh(j)' /\ Witnessed(j)'
      BY <1>1, <1>3, <1>5, <2>1 DEF BakeInv, Fresh, Witnessed, Reading
    <3>2. MidInv(j)' /\ HeldInv(j)'
      BY <1>1, <1>5, <2>1 DEF MidInv, HeldInv
    <3> QED
      BY <2>1, <3>1, <3>2 DEF BakeInv
  <2> QED
    <3>1. ApartInv'
      BY <1>1, <2>1, SameApart DEF Core
    <3>2. ASSUME NEW i \in Bakes, i # j PROVE BakeInv(i)'
      <4>1. Unmoved(i) /\ beside'[i] \in BOOLEAN
        BY <1>1, <2>1, <3>2 DEF TypeOK, Unmoved
      <4>2. Tolerates(i)
        BY <1>1, <3>2 DEF Core, ApartInv, Tolerates
      <4> QED
        BY <1>1, <1>3, <4>1, <4>2, UnmovedKeeps DEF Core
    <3> QED
      BY <2>2, <2>3, <3>1, <3>2 DEF Core
<1> QED
  BY <1>6, <1>7

\* A failed conversion is owned up to.
LEMMA FailureKeeps ==
    ASSUME TypeOK, Core, NEW j \in Bakes, ConvertFails(j) \/ WriteFails(j)
    PROVE  Core'
<1>1. /\ enc' = enc /\ oauth' = oauth /\ torn' = torn /\ key' = key /\ staged' = staged
      /\ beside' = beside /\ seen' = seen /\ image' = image /\ Current' = Current
  BY CurrentStays DEF ConvertFails, WriteFails, home
<1>2. /\ Reading(j) /\ pc'[j] = "copyEnc" /\ warned'[j] = TRUE /\ (token'[j] = token[j] \/ token'[j] = {})
      /\ \A i \in Bakes : i # j => pc'[i] = pc[i] /\ warned'[i] = warned[i] /\ token'[i] = token[i]
  BY DEF TypeOK, ConvertFails, WriteFails, Goto, Reading
<1>3. KindsInv' /\ HomeInv' /\ ApartInv'
  <2>1. KindsInv' /\ HomeInv'
    BY <1>1, <1>2 DEF Core, KindsInv, Kind, HomeInv
  <2>2. ApartInv'
    BY <1>1, <1>2, SameApart DEF Core, Reading
  <2> QED
    BY <2>1, <2>2
<1>4. BakeInv(j)'
  BY <1>1, <1>2 DEF Core, BakeInv, Fresh, Witnessed, MidInv, HeldInv, Reading
<1>5. ASSUME NEW i \in Bakes, i # j PROVE BakeInv(i)'
  <2>1. Unmoved(i) /\ Tolerates(i) /\ beside'[i] \in BOOLEAN
    BY <1>1, <1>2, <1>5 DEF TypeOK, Unmoved, Tolerates
  <2> QED
    BY <1>1, <2>1, UnmovedKeeps DEF Core
<1> QED
  BY <1>3, <1>4, <1>5 DEF Core

LEMMA WriteKeeps ==
    ASSUME TypeOK, Core, NEW j \in Bakes, Write(j)
    PROVE  Core'
<1>1. /\ enc' = enc /\ key' = key /\ warned' = warned /\ staged' = staged
      /\ beside' = beside /\ seen' = seen /\ image' = image
  BY DEF Write
<1>2. /\ pc[j] = "write" /\ pc'[j] = "copyEnc" /\ token'[j] = {}
      /\ \A i \in Bakes : i # j => pc'[i] = pc[i] /\ token'[i] = token[i]
  BY DEF TypeOK, Write, Goto
<1>3. oauth' = token[j] \/ (beside[j] /\ oauth' = {})
  BY DEF Write
<1>4. BakeInv(j) /\ enc # {} /\ Current' = Current
  BY <1>1, <1>2, CurrentStays DEF Core, BakeInv, Fresh
<1>5. KindsInv' /\ HomeInv' /\ ApartInv'
  <2>1. KindsInv' /\ HomeInv'
    <3>1. Kind(oauth', "Bearer")
      BY <1>3 DEF Core, KindsInv, Kind
    <3> QED
      BY <1>1, <1>2, <1>4, <3>1 DEF Core, KindsInv, Kind, HomeInv
  <2>2. ApartInv'
    BY <1>1, <1>2, SameApart DEF Core
  <2> QED
    BY <2>1, <2>2
<1>6. BakeInv(j)'
  <2>1. Fresh(j)' /\ Witnessed(j)'
    BY <1>1, <1>2, <1>4 DEF BakeInv, Fresh, Witnessed, Reading
  <2>2. MidInv(j)'
    BY <1>1, <1>2, <1>3, <1>4 DEF BakeInv, Fresh, MidInv, Bears
  <2>3. HeldInv(j)'
    BY <1>1, <1>2, <1>4 DEF BakeInv, HeldInv
  <2> QED
    BY <1>2, <2>1, <2>2, <2>3 DEF BakeInv
<1>7. ASSUME NEW i \in Bakes, i # j PROVE BakeInv(i)'
  <2>1. Unmoved(i) /\ beside'[i] \in BOOLEAN
    BY <1>1, <1>2, <1>7 DEF TypeOK, Unmoved
  <2>2. Tolerates(i)
    BY <1>2, <1>7 DEF Core, ApartInv, Tolerates
  <2> QED
    BY <1>1, <1>4, <2>1, <2>2, UnmovedKeeps DEF Core
<1> QED
  BY <1>5, <1>6, <1>7 DEF Core

LEMMA CopyEncKeeps ==
    ASSUME TypeOK, Core, NEW j \in Bakes, CopyEnc(j)
    PROVE  Core'
<1>1. /\ enc' = enc /\ oauth' = oauth /\ torn' = torn /\ key' = key /\ token' = token /\ warned' = warned
      /\ beside' = beside /\ seen' = seen /\ image' = image /\ Current' = Current
  BY CurrentStays DEF CopyEnc, home
<1>2. /\ pc[j] = "copyEnc" /\ pc'[j] = "copyOauth"
      /\ staged'[j].enc = (enc # {}) /\ staged'[j].oauth = staged[j].oauth
      /\ \A i \in Bakes : i # j => pc'[i] = pc[i] /\ staged'[i] = staged[i]
  BY DEF TypeOK, CopyEnc, Goto, Files
<1>3. KindsInv' /\ HomeInv' /\ ApartInv'
  <2>1. KindsInv' /\ HomeInv'
    BY <1>1, <1>2 DEF Core, KindsInv, Kind, HomeInv
  <2>2. ApartInv'
    BY <1>1, <1>2, SameApart DEF Core
  <2> QED
    BY <2>1, <2>2
<1>4. BakeInv(j)'
  <2>0. BakeInv(j)
    BY DEF Core
  <2>1. Fresh(j)' /\ Witnessed(j)' /\ MidInv(j)'
    BY <1>1, <1>2, <2>0 DEF BakeInv, Fresh, Witnessed, MidInv, Bears, Reading
  <2>2. HeldInv(j)'
    BY <1>1, <1>2, <2>0 DEF BakeInv, HeldInv, SomeLogin
  <2> QED
    BY <1>2, <2>1, <2>2 DEF BakeInv
<1>5. ASSUME NEW i \in Bakes, i # j PROVE BakeInv(i)'
  <2>1. Unmoved(i) /\ Tolerates(i) /\ beside'[i] \in BOOLEAN
    BY <1>1, <1>2, <1>5 DEF TypeOK, Unmoved, Tolerates
  <2> QED
    BY <1>1, <2>1, UnmovedKeeps DEF Core
<1> QED
  BY <1>3, <1>4, <1>5 DEF Core

LEMMA CopyOauthKeeps ==
    ASSUME TypeOK, Core, NEW j \in Bakes, CopyOauth(j)
    PROVE  Core'
<1>1. /\ enc' = enc /\ oauth' = oauth /\ torn' = torn /\ key' = key /\ token' = token /\ warned' = warned
      /\ beside' = beside /\ seen' = seen /\ image' = image /\ Current' = Current
  BY CurrentStays DEF CopyOauth, home
<1>2. /\ pc[j] = "copyOauth" /\ pc'[j] = "build"
      /\ staged'[j].enc = staged[j].enc /\ staged'[j].oauth = oauth /\ staged'[j].torn = torn
      /\ \A i \in Bakes : i # j => pc'[i] = pc[i] /\ staged'[i] = staged[i]
  BY DEF TypeOK, CopyOauth, Goto, Files
<1>3. KindsInv' /\ HomeInv' /\ ApartInv'
  <2>1. KindsInv' /\ HomeInv'
    BY <1>1, <1>2 DEF Core, KindsInv, Kind, HomeInv
  <2>2. ApartInv'
    BY <1>1, <1>2, SameApart DEF Core
  <2> QED
    BY <2>1, <2>2
<1>4. BakeInv(j)'
  <2>0. BakeInv(j) /\ HomeInv
    BY DEF Core
  <2>1. Fresh(j)' /\ Witnessed(j)' /\ MidInv(j)'
    BY <1>1, <1>2, <2>0 DEF BakeInv, Fresh, Witnessed, MidInv, Bears, Reading
  <2>2. HeldInv(j)'
    BY <1>1, <1>2, <2>0 DEF BakeInv, HeldInv, HomeInv
  <2> QED
    BY <1>2, <2>1, <2>2 DEF BakeInv
<1>5. ASSUME NEW i \in Bakes, i # j PROVE BakeInv(i)'
  <2>1. Unmoved(i) /\ Tolerates(i) /\ beside'[i] \in BOOLEAN
    BY <1>1, <1>2, <1>5 DEF TypeOK, Unmoved, Tolerates
  <2> QED
    BY <1>1, <2>1, UnmovedKeeps DEF Core
<1> QED
  BY <1>3, <1>4, <1>5 DEF Core

LEMMA BuildKeeps ==
    ASSUME TypeOK, Core, NEW j \in Bakes, Build(j)
    PROVE  Core' /\ ImageTold'
<1>1. /\ enc' = enc /\ oauth' = oauth /\ torn' = torn /\ key' = key /\ token' = token /\ warned' = warned
      /\ beside' = beside /\ seen' = seen /\ staged' = staged /\ Current' = Current
  BY CurrentStays DEF Build, home
<1>2. /\ pc[j] = "build" /\ pc'[j] = "check"
      /\ \A i \in Bakes : i # j => pc'[i] = pc[i]
  BY DEF TypeOK, Build, Goto
<1>3. /\ image'.files = staged[j] /\ image'.key = key[j] /\ image'.warned = warned[j]
      /\ image'.beside = beside[j] /\ image'.seen = seen[j] /\ image'.built = TRUE /\ image'.ran = FALSE
  BY DEF Build
<1>4. KindsInv' /\ HomeInv' /\ ApartInv'
  <2>1. KindsInv' /\ HomeInv'
    BY <1>1, <1>3 DEF Core, KindsInv, Kind, HomeInv
  <2>2. ApartInv'
    BY <1>1, <1>2, SameApart DEF Core
  <2> QED
    BY <2>1, <2>2
<1>5. BakeInv(j)'
  BY <1>1, <1>2, <1>3 DEF Core, BakeInv, Fresh, Witnessed, MidInv, HeldInv, Reading
<1>6. ASSUME NEW i \in Bakes, i # j PROVE BakeInv(i)'
  <2>1. Unmoved(i) /\ Tolerates(i) /\ beside'[i] \in BOOLEAN
    BY <1>1, <1>2, <1>6 DEF TypeOK, Unmoved, Tolerates
  <2> QED
    BY <1>1, <1>3, <2>1, UnmovedKeeps DEF Core
<1>7. ImageTold'
  <2>1. ImageInv'
    BY <1>2, <1>3 DEF Core, BakeInv, HeldInv, ImageInv, SomeLogin
  <2>2. BakedIsCurrent' /\ CheckIsRight'
    BY <1>2, <1>3 DEF Core, BakeInv, MidInv, Bears, BakedIsCurrent, CheckIsRight, Carried
  <2> QED
    BY <2>1, <2>2 DEF ImageTold
<1> QED
  BY <1>4, <1>5, <1>6, <1>7 DEF Core

\* What an image says does not change what is in it; what the check sees is what
\* a login of its bake left there.
LEMMA CheckTells ==
    ASSUME TypeOK, Core, ImageTold, NEW j \in Bakes, Check(j) \/ CheckElsewhere(j) \/ CheckFails(j) \/ Dies(j)
    PROVE  ImageTold' /\ image'.files = image.files /\ image'.key = image.key /\ image'.built = image.built
<1>1. image.files \in Files /\ image \in Image
  BY DEF TypeOK, Image
<1>2. CASE Dies(j)
  BY <1>2, ImageStays DEF Dies
<1>3. CASE Check(j)
  <2>1. PICK says \in {"verified", "not logged in"} :
            /\ says = "verified" => SeesLogin(image) \/ image.files.torn
            /\ says = "not logged in" => ~SeesLogin(image)
            /\ image' = [image EXCEPT !.ran = TRUE, !.says = says]
    BY <1>3 DEF Check
  <2>2. /\ image'.files = image.files /\ image'.key = image.key /\ image'.warned = image.warned
        /\ image'.beside = image.beside /\ image'.seen = image.seen /\ image'.built = image.built
        /\ image'.ran = TRUE /\ image'.says = says
    BY <1>1, <2>1 DEF Image
  <2>3. image.built
    BY <1>3 DEF Check, Core, BakeInv
  <2>4. ImageInv' /\ BakedIsCurrent'
    BY <2>2, <2>3 DEF ImageTold, ImageInv, BakedIsCurrent, Carried, SomeLogin
  <2>5. CheckIsRight'
    <3> SUFFICES ASSUME ~image.warned, ~image.beside, NEW l \in image.seen, image.seen = {l}
                 PROVE  says = "verified" <=> Carried(image) # {}
      BY <2>2 DEF CheckIsRight, Carried
    <3>1. Carried(image) = l
      BY <2>3 DEF ImageTold, BakedIsCurrent
    <3>2. image.files.enc \/ image.files.torn => l # {}
      BY <2>3 DEF ImageTold, ImageInv, SomeLogin
    <3>3. Carried(image) # {} => SeesLogin(image)
      BY DEF Carried, SeesLogin
    <3>4. SeesLogin(image) /\ ~image.files.enc => Carried(image) # {}
      BY DEF Carried, SeesLogin
    <3> QED
      BY <2>1, <3>1, <3>2, <3>3, <3>4
  <2> QED
    BY <2>2, <2>4, <2>5 DEF ImageTold
<1>4. CASE CheckElsewhere(j) \/ CheckFails(j)
  <2>1. PICK says \in {"", "verified"} : image' = [image EXCEPT !.ran = FALSE, !.says = says]
    BY <1>4 DEF CheckElsewhere, CheckFails
  <2>2. /\ image'.files = image.files /\ image'.key = image.key /\ image'.warned = image.warned
        /\ image'.beside = image.beside /\ image'.seen = image.seen /\ image'.built = image.built
        /\ image'.ran = FALSE
    BY <1>1, <2>1 DEF Image
  <2> QED
    BY <2>2 DEF ImageTold, ImageInv, BakedIsCurrent, CheckIsRight, Carried, SomeLogin
<1> QED
  BY <1>2, <1>3, <1>4

LEMMA EndKeeps ==
    ASSUME TypeOK, Core, ImageTold, NEW j \in Bakes, Check(j) \/ CheckElsewhere(j) \/ CheckFails(j) \/ Dies(j)
    PROVE  Core' /\ ImageTold'
<1>1. /\ enc' = enc /\ oauth' = oauth /\ torn' = torn /\ Current' = Current /\ Exits(j)
  BY CurrentStays DEF Check, CheckElsewhere, CheckFails, Dies, home
<1>2. /\ pc'[j] = "idle" /\ token'[j] = {} /\ key'[j] = {} /\ staged'[j] = NoFiles
      /\ \A i \in Bakes : i # j => /\ pc'[i] = pc[i] /\ token'[i] = token[i] /\ key'[i] = key[i]
                                   /\ warned'[i] = warned[i] /\ staged'[i] = staged[i]
                                   /\ beside'[i] = beside[i] /\ seen'[i] = seen[i]
  BY <1>1 DEF TypeOK, Exits, Goto
<1>3. ImageTold' /\ image'.files = image.files /\ image'.key = image.key /\ image'.built = image.built
  BY CheckTells
<1>4. KindsInv' /\ HomeInv' /\ ApartInv'
  <2>1. KindsInv' /\ HomeInv'
    BY <1>1, <1>2, <1>3 DEF Core, KindsInv, Kind, HomeInv, NoFiles
  <2>2. ApartInv'
    BY <1>2, SameApart DEF Core
  <2> QED
    BY <2>1, <2>2
<1>5. BakeInv(j)'
  BY <1>2 DEF BakeInv, Fresh, Witnessed, MidInv, HeldInv, Reading
<1>6. ASSUME NEW i \in Bakes, i # j PROVE BakeInv(i)'
  <2>1. Unmoved(i) /\ Tolerates(i) /\ beside'[i] \in BOOLEAN
    BY <1>1, <1>2, <1>6 DEF TypeOK, Unmoved, Tolerates
  <2> QED
    BY <1>1, <1>3, <2>1, UnmovedKeeps DEF Core
<1> QED
  BY <1>3, <1>4, <1>5, <1>6 DEF Core

LEMMA InitHolds == Init => IInv
<1> SUFFICES ASSUME Init PROVE IInv
  OBVIOUS
<1>1. TypeOK
  BY InitTyped
<1>2. KindsInv /\ ApartInv
  BY DEF Init, KindsInv, Kind, ApartInv, NoFiles
<1>3. HomeInv
  BY DEF Init, HomeInv
<1>4. ASSUME NEW j \in Bakes PROVE BakeInv(j)
  BY DEF Init, BakeInv, Fresh, Witnessed, MidInv, HeldInv, Reading
<1>5. ImageTold
  BY DEF Init, ImageTold, ImageInv, BakedIsCurrent, CheckIsRight
<1> QED
  BY <1>1, <1>2, <1>3, <1>4, <1>5 DEF IInv, Core

LEMMA StepKeeps ==
    ASSUME IInv, [Next]_vars
    PROVE  IInv'
<1>1. TypeOK /\ Core /\ ImageTold /\ TypeOK'
  BY TypeStep DEF IInv
<1>2. ASSUME NEW type \in Types, Login(type) PROVE Core' /\ ImageTold'
  <2>1. logins' \in Nat /\ image' = image
    BY <1>1, <1>2 DEF TypeOK, Login
  <2> QED
    BY <1>1, <1>2, <2>1, LoginKeeps, ImageStays
<1>3. ASSUME OldLogin PROVE Core' /\ ImageTold'
  <2>1. image' = image
    BY <1>3 DEF OldLogin
  <2> QED
    BY <1>1, <1>3, <2>1, OldLoginKeeps, ImageStays
<1>4. ASSUME NEW h \in Hosts, Rename(h) PROVE Core' /\ ImageTold'
  <2>1. image' = image
    BY <1>4 DEF Rename
  <2> QED
    BY <1>1, <1>4, <2>1, RenameKeeps, ImageStays
<1>5. ASSUME UNCHANGED vars PROVE Core' /\ ImageTold'
  <2>1. Core'
    <3>1. PICK h \in Hosts : TRUE
      BY SomeHost
    <3> QED
      BY <1>1, <1>5, <3>1, RenameKeeps
  <2>2. image' = image
    BY <1>5 DEF vars
  <2> QED
    BY <1>1, <2>1, <2>2, ImageStays
<1>6. ASSUME NEW j \in Bakes,
             Begin(j) \/ Convert(j) \/ ConvertFails(j) \/ Write(j) \/ WriteFails(j) \/ CopyEnc(j) \/ CopyOauth(j)
      PROVE  Core' /\ ImageTold'
  <2>1. image' = image
    BY <1>6 DEF Begin, Convert, ConvertFails, Write, WriteFails, CopyEnc, CopyOauth
  <2> QED
    BY <1>1, <1>6, <2>1, ImageStays, BeginKeeps, ConvertKeeps, FailureKeeps, WriteKeeps, CopyEncKeeps, CopyOauthKeeps
<1>7. ASSUME NEW j \in Bakes, Build(j) \/ Check(j) \/ CheckElsewhere(j) \/ CheckFails(j) \/ Dies(j) PROVE Core' /\ ImageTold'
  BY <1>1, <1>7, BuildKeeps, EndKeeps
<1>8. Core' /\ ImageTold'
  <2>1. ASSUME NEW j \in Bakes, Bake(j) PROVE Core' /\ ImageTold'
    BY <1>6, <1>7, <2>1 DEF Bake
  <2> QED
    BY <1>2, <1>3, <1>4, <1>5, <2>1 DEF Next
<1> QED
  BY <1>1, <1>8 DEF IInv

-----------------------------------------------------------------------------
\* The strengthening is an invariant of the bakes, whatever fails and however
\* they overlap.
THEOREM CredentialsInductive == Spec => []IInv
<1>1. Init => IInv
  BY InitHolds
<1>2. IInv /\ [Next]_vars => IInv'
  BY StepKeeps
<1> QED
  BY <1>1, <1>2, PTL DEF Spec

\* The home, the bakes and the image are what cmd_bake and the converter make
\* of them.
THEOREM CredentialsTypeCorrect == Spec => []TypeOK
<1>1. IInv => TypeOK
  BY DEF IInv
<1> QED
  BY <1>1, CredentialsInductive, PTL

\* An image whose bake told of no failure carries a login that was current
\* during the bake, for any number of bakes, logins and failures.
THEOREM CredentialsBakedIsCurrent == Spec => []BakedIsCurrent
<1>1. IInv => BakedIsCurrent
  BY DEF IInv, ImageTold
<1> QED
  BY <1>1, CredentialsInductive, PTL

\* The converter never puts an API key where an OAuth token belongs, nor the
\* other way round.
THEOREM CredentialsKindsApart == Spec => []KindsApart
<1>1. IInv => KindsApart
  BY DEF IInv, Core, KindsInv, Kind, KindsApart
<1> QED
  BY <1>1, CredentialsInductive, PTL

\* A check that was made in the image, and whose container ran, tells the truth
\* about one that was baked undisturbed.
THEOREM CredentialsCheckIsRight == Spec => []CheckIsRight
<1>1. IInv => CheckIsRight
  BY DEF IInv, ImageTold
<1> QED
  BY <1>1, CredentialsInductive, PTL
=============================================================================
