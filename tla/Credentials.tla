---------------------------- MODULE Credentials ----------------------------
(***************************************************************************)
(* How a Gemini login gets into an image (exe-image-forge cmd_bake and     *)
(* image/files/gemini-export-creds.js).  The CLI encrypts its credentials  *)
(* with a key derived from the hostname; a bake has them converted, copies *)
(* the credential files one by one, builds the image and runs a check in   *)
(* it.  Logins go on meanwhile, other bakes run, containers and the        *)
(* machine fail, the host gets another name.                               *)
(*                                                                         *)
(* The variant looked at includes the Gemini CLI and has a base image.     *)
(* A bake makes it alone ("bake gemini") or with all others ("bake"),      *)
(* which only matters to the check at the end.                             *)
(* The other CLIs' files need no conversion.  The user who logs in and the *)
(* one who converts are the same (uid 1000).                               *)
(***************************************************************************)
EXTENDS Naturals, Sequences

CONSTANTS
    Hosts,        \* names the host may have
    Bakes,        \* bakes that may run at once
    DockerFails,  \* whether containers, builds and the machine may fail
    MaxLogins     \* bound: logins

ASSUME SomeHost == Hosts # {}
ASSUME BakeModes == DockerFails \in BOOLEAN /\ MaxLogins \in Nat

VARIABLES
    host,       \* the host's name
    enc,        \* .gemini/gemini-credentials.json, if it is there
    oauth,      \* .gemini/oauth_creds.json: its token, if it is there and whole
    torn,       \* whether oauth_creds.json is written in part
    logins,     \* logins so far
    pc,         \* where each bake is
    token,      \* the token its conversion is writing
    key,        \* GEMINI_API_KEY_BAKE
    warned,     \* whether it said that it could not convert
    staged,     \* the files it copied
    beside,     \* history: whether it ran beside another one
    seen,       \* history: the logins that were current while it read them
    image       \* the dev image, with what the bake said of it

vars == <<host, enc, oauth, torn, logins, pc, token, key, warned, staged, beside, seen, image>>
home == <<host, enc, oauth, torn, logins>>
bakeVars == <<pc, token, key, warned, staged, beside>>

\* An entry of the store; "none" for one without a token.
Types == {"ApiKey", "Bearer"}
Token == [type : Types, n : Nat]
Entry == [type : Types \cup {"none"}, n : Nat]
Other == [type |-> "none", n |-> 0]

Files == [enc : BOOLEAN, oauth : SUBSET Token, torn : BOOLEAN]
NoFiles == [enc |-> FALSE, oauth |-> {}, torn |-> FALSE]
Image == [files : Files, key : SUBSET Token, warned : BOOLEAN, beside : BOOLEAN,
          seen : SUBSET SUBSET Token, built : BOOLEAN, ran : BOOLEAN,
          says : {"", "verified", "not logged in"}]

TypeOK ==
    /\ host \in Hosts
    /\ enc \subseteq [host : Hosts, store : Seq(Entry)]
    /\ oauth \subseteq Token /\ torn \in BOOLEAN /\ logins \in Nat
    /\ pc \in [Bakes -> {"idle", "convert", "write", "copyEnc", "copyOauth", "build", "check"}]
    /\ token \in [Bakes -> SUBSET Token] /\ key \in [Bakes -> SUBSET Token]
    /\ warned \in [Bakes -> BOOLEAN] /\ staged \in [Bakes -> Files]
    /\ beside \in [Bakes -> BOOLEAN] /\ seen \in [Bakes -> SUBSET SUBSET Token]
    /\ image \in Image

Init ==
    /\ host \in Hosts
    /\ enc \in {{}, {[host |-> host, store |-> <<Other>>]}}
    /\ oauth = {} /\ torn = FALSE /\ logins = 0
    /\ pc = [j \in Bakes |-> "idle"]
    /\ token = [j \in Bakes |-> {}] /\ key = [j \in Bakes |-> {}]
    /\ warned = [j \in Bakes |-> FALSE] /\ staged = [j \in Bakes |-> NoFiles]
    /\ beside = [j \in Bakes |-> FALSE] /\ seen = [j \in Bakes |-> {}]
    /\ image = [files |-> NoFiles, key |-> {}, warned |-> FALSE, beside |-> FALSE,
                seen |-> {}, built |-> FALSE, ran |-> FALSE, says |-> ""]

-----------------------------------------------------------------------------
(***************************************************************************)
(* The login that is current: the first of the store, or the one of an     *)
(* older CLI.                                                              *)
(***************************************************************************)
Tokens(store) == {i \in DOMAIN store : store[i].type # "none"}
Leading(store) == {store[i] : i \in {j \in Tokens(store) : \A k \in Tokens(store) : j <= k}}

CurrentIn(files, plain) ==
    IF files = {} THEN plain ELSE UNION {Leading(e.store) : e \in files}
Current == CurrentIn(enc, oauth)

\* Bakes that have yet to read the home.
Reading(j) == pc[j] \in {"convert", "write", "copyEnc", "copyOauth"}
Notice ==
    seen' = [j \in Bakes |-> IF Reading(j) THEN seen[j] \cup {CurrentIn(enc', oauth')} ELSE seen[j]]

\* The CLI keeps one entry per kind of login and drops a store it cannot read.
Entered(t) ==
    IF \E e \in enc : e.host = host
    THEN LET store == (CHOOSE e \in enc : e.host = host).store
         IN  IF \E i \in DOMAIN store : store[i].type = t.type
             THEN [i \in DOMAIN store |-> IF store[i].type = t.type THEN t ELSE store[i]]
             ELSE Append(store, t)
    ELSE <<t>>

Login(type) ==
    /\ logins < MaxLogins /\ logins' = logins + 1
    /\ enc' = {[host |-> host, store |-> Entered([type |-> type, n |-> logins'])]}
    /\ UNCHANGED <<host, oauth, torn, bakeVars, image>>
    /\ Notice

\* Older versions write oauth_creds.json themselves.
OldLogin ==
    /\ enc = {} /\ logins < MaxLogins /\ logins' = logins + 1
    /\ oauth' = {[type |-> "Bearer", n |-> logins']} /\ torn' = FALSE
    /\ UNCHANGED <<host, enc, bakeVars, image>>
    /\ Notice

Rename(h) ==
    /\ h # host /\ host' = h
    /\ UNCHANGED <<enc, oauth, torn, logins, bakeVars, seen, image>>

-----------------------------------------------------------------------------
(***************************************************************************)
(* gemini-export-creds.js                                                  *)
(***************************************************************************)

\* Only the host the credentials were encrypted on derives their key.
Decrypts(e) == e.host = host

\* Mutant: only the loop over one service's entries ends at the first token.
FirstTokenOfLast(store) ==
    {store[i] : i \in {j \in DOMAIN store : /\ store[j].type # "none"
                                            /\ \A k \in DOMAIN store : k > j => store[k].type = "none"}}

\* The first entry with a token, entries that are not JSON or have none skipped.
FirstToken(store) ==
    {store[i] : i \in {j \in DOMAIN store : /\ store[j].type # "none"
                                            /\ \A k \in DOMAIN store : k < j => store[k].type = "none"}}

\* Mutant: the type is compared as it is written.
IsApiKeyCased(t) == t.type = "apikey"

\* toLowerCase: the CLI writes "ApiKey".
IsApiKey(t) == [ApiKey |-> "apikey", Bearer |-> "bearer"][t.type] = "apikey"

Goto(j, place) == pc' = [pc EXCEPT ![j] = place]

\* No decryption, no token, or no container: the bake warns and goes on.
ConvertFails(j) ==
    /\ pc[j] = "convert"
    /\ DockerFails \/ \A e \in enc : ~Decrypts(e) \/ FirstToken(e.store) = {}
    /\ warned' = [warned EXCEPT ![j] = TRUE]
    /\ Goto(j, "copyEnc")
    /\ UNCHANGED <<home, token, key, staged, beside, seen, image>>

\* An API key goes to the bake; for an OAuth token writeFileSync starts a new file.
Convert(j) ==
    /\ pc[j] = "convert"
    /\ \E e \in enc : Decrypts(e) /\ \E t \in FirstToken(e.store) :
        IF IsApiKey(t)
        THEN /\ key' = [key EXCEPT ![j] = {t}]
             /\ Goto(j, "copyEnc")
             /\ UNCHANGED <<oauth, torn, token>>
        ELSE /\ token' = [token EXCEPT ![j] = {t}]
             /\ oauth' = {} /\ torn' = TRUE
             /\ Goto(j, "write")
             /\ UNCHANGED key
    /\ UNCHANGED <<host, enc, logins, warned, staged, beside, seen, image>>

\* The file is whole; two conversions may have written over each other.
Write(j) ==
    /\ pc[j] = "write"
    /\ \/ oauth' = token[j] /\ torn' = FALSE
       \/ beside[j] /\ oauth' = {} /\ torn' = TRUE
    /\ token' = [token EXCEPT ![j] = {}]
    /\ Goto(j, "copyEnc")
    /\ UNCHANGED <<host, enc, logins, key, warned, staged, beside, seen, image>>

WriteFails(j) ==
    /\ pc[j] = "write" /\ DockerFails
    /\ warned' = [warned EXCEPT ![j] = TRUE]
    /\ token' = [token EXCEPT ![j] = {}]
    /\ Goto(j, "copyEnc")
    /\ UNCHANGED <<home, key, staged, beside, seen, image>>

-----------------------------------------------------------------------------
(***************************************************************************)
(* cmd_bake                                                                *)
(***************************************************************************)
Active == {j \in Bakes : pc[j] # "idle"}

\* The script's variables and copies go with it.
Exits(j) ==
    /\ Goto(j, "idle")
    /\ token' = [token EXCEPT ![j] = {}] /\ key' = [key EXCEPT ![j] = {}]
    /\ warned' = [warned EXCEPT ![j] = FALSE] /\ staged' = [staged EXCEPT ![j] = NoFiles]
    /\ beside' = [beside EXCEPT ![j] = FALSE] /\ seen' = [seen EXCEPT ![j] = {}]

\* The encrypted file is converted if it is there.
Begin(j) ==
    /\ pc[j] = "idle"
    /\ Goto(j, IF enc # {} THEN "convert" ELSE "copyEnc")
    /\ beside' = [i \in Bakes |-> IF i = j THEN Active # {} ELSE beside[i] \/ i \in Active]
    /\ seen' = [seen EXCEPT ![j] = {Current}]
    /\ UNCHANGED <<home, token, key, warned, staged, image>>

\* The files of CRED_FILES are copied one by one.
CopyEnc(j) ==
    /\ pc[j] = "copyEnc"
    /\ staged' = [staged EXCEPT ![j].enc = (enc # {})]
    /\ Goto(j, "copyOauth")
    /\ UNCHANGED <<home, token, key, warned, beside, seen, image>>

CopyOauth(j) ==
    /\ pc[j] = "copyOauth"
    /\ staged' = [staged EXCEPT ![j].oauth = oauth, ![j].torn = torn]
    /\ Goto(j, "build")
    /\ UNCHANGED <<home, token, key, warned, beside, seen, image>>

\* Mutant: the API key does not get into the image.
BuildWithoutKey(j) ==
    /\ pc[j] = "build"
    /\ image' = [files |-> staged[j], key |-> {}, warned |-> warned[j], beside |-> beside[j],
                 seen |-> seen[j], built |-> TRUE, ran |-> FALSE, says |-> ""]
    /\ Goto(j, "check")
    /\ UNCHANGED <<home, token, key, warned, staged, beside, seen>>

Build(j) ==
    /\ pc[j] = "build"
    /\ image' = [files |-> staged[j], key |-> key[j], warned |-> warned[j], beside |-> beside[j],
                 seen |-> seen[j], built |-> TRUE, ran |-> FALSE, says |-> ""]
    /\ Goto(j, "check")
    /\ UNCHANGED <<home, token, key, warned, staged, beside, seen>>

\* What the check in an image with the Gemini CLI takes for a login: a file that
\* is not empty, or the variable.
SeesLogin(i) == i.files.enc \/ i.files.oauth # {} \/ i.key # {}

\* The bake of this variant alone is checked in its image.
Check(j) ==
    /\ pc[j] = "check"
    /\ \E says \in {"verified", "not logged in"} :
        /\ says = "verified" => SeesLogin(image) \/ image.files.torn
        /\ says = "not logged in" => ~SeesLogin(image)
        /\ image' = [image EXCEPT !.ran = TRUE, !.says = says]
    /\ Exits(j)
    /\ UNCHANGED home

\* A bake of all variants looks into min alone, if that is built, and min does
\* not include the Gemini CLI: whatever was baked, nothing is said against it.
CheckElsewhere(j) ==
    /\ pc[j] = "check"
    /\ \E says \in {"verified", ""} : image' = [image EXCEPT !.ran = FALSE, !.says = says]
    /\ Exits(j)
    /\ UNCHANGED home

\* Without an answer from its container the check takes every CLI for one that
\* the variant does not include.
CheckFails(j) ==
    /\ pc[j] = "check" /\ DockerFails
    /\ image' = [image EXCEPT !.ran = FALSE, !.says = "verified"]
    /\ Exits(j)
    /\ UNCHANGED home

\* A command of the script fails, or it is killed.
Dies(j) ==
    /\ pc[j] # "idle" /\ DockerFails
    /\ Exits(j)
    /\ UNCHANGED <<home, image>>

Bake(j) ==
    \/ Begin(j) \/ Convert(j) \/ ConvertFails(j) \/ Write(j) \/ WriteFails(j)
    \/ CopyEnc(j) \/ CopyOauth(j) \/ Build(j) \/ Check(j) \/ CheckElsewhere(j) \/ CheckFails(j)
    \/ Dies(j)

Next ==
    \/ \E type \in Types : Login(type)
    \/ OldLogin
    \/ \E h \in Hosts : Rename(h)
    \/ \E j \in Bakes : Bake(j)

Spec == Init /\ [][Next]_vars

-----------------------------------------------------------------------------
\* The login an image carries to another host: the encrypted file is of no use
\* there (exe-image-forge:263); an API key may have an older oauth_creds.json
\* beside it.
Carried(i) == IF i.key # {} THEN i.key ELSE i.files.oauth

\* Told of no failure, the image carries a login that was current at a moment
\* of its bake, or none if there was none then: no earlier one that a former
\* conversion left behind, none in part, whatever logins are made meanwhile.
\* Bakes that run at once may disturb each other's conversion.
BakedIsCurrent ==
    image.built /\ ~image.warned /\ ~image.beside => Carried(image) \in image.seen

\* API keys and OAuth tokens are not taken for one another, however conversions
\* fail and overlap: a CLI could not use what it finds in the wrong place.
KindsApart ==
    /\ \A t \in oauth \cup image.files.oauth : t.type = "Bearer"
    /\ \A t \in image.key : t.type = "ApiKey"

\* The check at the end of a bake says the truth about the image, provided it was
\* made in this image and its container ran, the conversion did not fail and
\* nobody logged in or baked at the same time.
CheckIsRight ==
    image.ran /\ ~image.warned /\ ~image.beside /\ (\E l \in image.seen : image.seen = {l}) =>
        (image.says = "verified" <=> Carried(image) # {})
=============================================================================
