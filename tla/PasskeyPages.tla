---------------------------- MODULE PasskeyPages ----------------------------
(***************************************************************************)
(* The pages' side of the passkey ceremonies (vend/passkey.js, with its    *)
(* callers in admin.html and index.html), composed with the service of     *)
(* Passkeys and with the authenticators.  A ceremony is a chain of awaits: *)
(* begin, the authenticator's dialog, finish, and then the page loads what *)
(* has changed.  In between other pages run ceremonies, the session ends,  *)
(* the service restarts, the page is closed, an answer gets lost.          *)
(*                                                                         *)
(* Passkeys and challenges are byte strings here.  A challenge and the     *)
(* identifier of the passkey it may create are both random: one byte       *)
(* string stands for the two.                                              *)
(***************************************************************************)
EXTENDS Passkeys, Base64url

CONSTANTS
    Browsers,   \* pages, each with its session cookie
    Devices     \* authenticators

ASSUME ByteStrings == Keys \subseteq Seq(Byte)
ASSUME SomeCeremony == Ceremonies # {}

VARIABLES
    page,       \* where each page is: step, ceremony, exclusion list, message
    session,    \* whether its cookie is good
    holds,      \* the account's passkey on each authenticator, if any
    overlap,    \* history: registrations that ran beside another one
    reverted    \* history: whether a start read an outdated file

pageVars == <<page, session, holds, overlap, reverted>>
allVars == <<vars, pageVars>>

Running == {"prompt", "signed", "waiting"}
Steps == {"idle", "loading"} \cup Running
Messages == {"", "registered", "signedin", "unauthorized", "refused", "limited", "lost",
             "NotAllowedError", "InvalidStateError"}

\* accepted: the ceremony was answered with success.
Page == [at : Steps, c : Ceremonies, exclude : SUBSET Keys, shows : Messages,
         accepted : BOOLEAN, disturbed : BOOLEAN]

PagesTypeOK ==
    /\ page \in [Browsers -> Page]
    /\ session \in [Browsers -> BOOLEAN]
    /\ holds \in [Devices -> SUBSET Keys]
    /\ overlap \subseteq Ceremonies /\ reverted \in BOOLEAN

PageInit ==
    /\ Init /\ req = [h \in Handlers |-> CHOOSE c \in Ceremonies : TRUE]
    /\ page = [b \in Browsers |-> [at |-> "idle", c |-> CHOOSE c \in Ceremonies : TRUE,
                                   exclude |-> {}, shows |-> "", accepted |-> FALSE,
                                   disturbed |-> FALSE]]
    /\ session = [b \in Browsers |-> FALSE]
    /\ holds \in [Devices -> SUBSET First] /\ UNION {holds[d] : d \in Devices} = First
    /\ overlap = {} /\ reverted = FALSE

-----------------------------------------------------------------------------
(***************************************************************************)
(* What pages do to their state.                                           *)
(***************************************************************************)
Fresh == CHOOSE c \in Ceremonies : kind[c] = "none"
CanBegin(b) == page[b].at = "idle" /\ \E c \in Ceremonies : kind[c] = "none"

\* A page that got a cause to be refused.
Disturbed(x) == [page[x] EXCEPT !.disturbed = TRUE]

\* Page b becomes p, those of S are disturbed.
Becomes(b, p, S) ==
    page' = [x \in Browsers |->
                IF x = b THEN p ELSE IF x \in S THEN Disturbed(x) ELSE page[x]]

\* The finally of the two callers: the page can start over.
Ends(b, message) == [page[b] EXCEPT !.at = "idle", !.exclude = {}, !.shows = message]

\* Pages that depend on the slot that b's ceremony uses.
Rivals(b, which) ==
    {x \in Browsers \ {b} : page[x].at \in {"prompt", "signed"} /\ kind[page[x].c] = which}

Waits(x, c) == page[x].at = "waiting" /\ page[x].c = c

\* After a success the callers go on in the same try: a registration is shown
\* and the list is loaded again; a login is shown when the session is known.
Answered(x, message) ==
    IF message \in {"registered", "signedin"}
    THEN [page[x] EXCEPT !.at = "loading", !.accepted = TRUE,
                         !.shows = IF message = "signedin" THEN "" ELSE message]
    ELSE Ends(x, message)

\* The answer for ceremony c reaches the page that waits for it, or gets lost;
\* the pages of S are disturbed.
Answer(c, message, S) ==
    \E shows \in {message, "lost"} :
        /\ page' = [x \in Browsers |->
                       IF Waits(x, c) THEN Answered(x, shows)
                       ELSE IF x \in S THEN Disturbed(x) ELSE page[x]]
        /\ session' = [x \in Browsers |-> session[x] \/ (shows = "signedin" /\ Waits(x, c))]

\* Mutant: pkPost returns whatever the server says.
pkPostAnyStatus(b, error) ==
    Ends(b, IF kind[page[b].c] = "login" THEN "signedin" ELSE "registered")

\* pkPost throws the server's text when the status is an error.
pkPost(b, error) == Ends(b, error)

-----------------------------------------------------------------------------
(***************************************************************************)
(* Sessions.                                                               *)
(***************************************************************************)
PasswordSignIn(b) ==
    /\ ~session[b] /\ session' = [session EXCEPT ![b] = TRUE]
    /\ UNCHANGED <<vars, page, holds, overlap, reverted>>

SessionEnds(b) ==
    /\ session[b] /\ session' = [session EXCEPT ![b] = FALSE]
    /\ UNCHANGED <<vars, page, holds, overlap, reverted>>

-----------------------------------------------------------------------------
(***************************************************************************)
(* Ceremonies begin.                                                       *)
(***************************************************************************)
Begun(c, exclude) ==
    [at |-> "prompt", c |-> c, exclude |-> exclude, shows |-> "", accepted |-> FALSE,
     disturbed |-> FALSE]

\* Registrations that are not over, on their pages or in the service.
UnderWay ==
    {c \in Ceremonies : /\ kind[c] = "register"
                       /\ \/ \E x \in Browsers : page[x].at \in Running /\ page[x].c = c
                          \/ \E h \in Handlers : pc[h] = "add" /\ req[h] = c}

\* Mutant: the list of passkeys to exclude is not converted.
RegisterClickRaw(b) ==
    /\ CanBegin(b) /\ session[b] /\ RegisterBegin(Fresh)
    /\ \/ /\ Becomes(b, Begun(Fresh, {RawURLEncoding(k) : k \in store.keys}),
                     Rivals(b, "register"))
          /\ overlap' = IF UnderWay = {} THEN overlap ELSE overlap \cup UnderWay \cup {Fresh}
       \/ Becomes(b, Ends(b, "lost"), Rivals(b, "register")) /\ UNCHANGED overlap
    /\ UNCHANGED <<session, holds, reverted>>

\* pkRegisterCeremony up to its dialog: the list excludes what is stored now.
RegisterClick(b) ==
    /\ CanBegin(b) /\ session[b] /\ RegisterBegin(Fresh)
    /\ \/ /\ Becomes(b, Begun(Fresh, {pkB64uToBuf(RawURLEncoding(k)) : k \in store.keys}),
                     Rivals(b, "register"))
          /\ overlap' = IF UnderWay = {} THEN overlap ELSE overlap \cup UnderWay \cup {Fresh}
       \/ Becomes(b, Ends(b, "lost"), Rivals(b, "register")) /\ UNCHANGED overlap
    /\ UNCHANGED <<session, holds, reverted>>

\* pkLoginCeremony up to its dialog.
LoginClick(b) ==
    /\ CanBegin(b) /\ LoginBegin(Fresh)
    /\ \/ Becomes(b, Begun(Fresh, {}), Rivals(b, "login"))
       \/ Becomes(b, Ends(b, "lost"), Rivals(b, "login"))
    /\ UNCHANGED <<session, holds, overlap, reverted>>

-----------------------------------------------------------------------------
(***************************************************************************)
(* The authenticator's dialog.                                             *)
(***************************************************************************)
Prompted(b, which) == page[b].at = "prompt" /\ kind[page[b].c] = which

\* A passkey replaces one of the same account on its authenticator.
Create(b, d) ==
    /\ Prompted(b, "register")
    /\ IF holds[d] \cap page[b].exclude # {}
       THEN Becomes(b, Ends(b, "InvalidStateError"), {}) /\ UNCHANGED holds
       ELSE /\ holds' = [holds EXCEPT ![d] = {page[b].c}]
            /\ Becomes(b, [page[b] EXCEPT !.at = "signed", !.exclude = {}], {})
    /\ UNCHANGED <<vars, session, overlap, reverted>>

\* A login with a passkey the service does not know has a cause to be refused.
Get(b, d, k) ==
    /\ Prompted(b, "login") /\ k \in holds[d]
    /\ Sign(page[b].c, k)
    /\ Becomes(b, [page[b] EXCEPT !.at = "signed", !.disturbed = @ \/ k \notin registered], {})
    /\ UNCHANGED <<session, holds, overlap, reverted>>

\* The user cancels, or the dialog times out.
Cancel(b) ==
    /\ page[b].at = "prompt"
    /\ Becomes(b, Ends(b, "NotAllowedError"), {})
    /\ UNCHANGED <<vars, session, holds, overlap, reverted>>

-----------------------------------------------------------------------------
(***************************************************************************)
(* Ceremonies end.                                                         *)
(***************************************************************************)

\* Sent: the finish waits for its answer if it found its challenge in the slot.
Sent(b, slot) ==
    IF page[b].c \in slot THEN [page[b] EXCEPT !.at = "waiting"] ELSE pkPost(b, "refused")

\* Without a session the finish is turned away before it takes the slot.
RegisterSend(b, h) ==
    /\ page[b].at = "signed" /\ kind[page[b].c] = "register"
    /\ IF session[b]
       THEN /\ RegisterTake(h, page[b].c)
            /\ Becomes(b, Sent(b, regSlot), Rivals(b, "register"))
       ELSE Becomes(b, pkPost(b, "unauthorized"), {}) /\ UNCHANGED vars
    /\ UNCHANGED <<session, holds, overlap, reverted>>

LoginSend(b, h) ==
    /\ page[b].at = "signed" /\ kind[page[b].c] = "login"
    /\ LoginTake(h, page[b].c)
    /\ Becomes(b, Sent(b, loginSlot), Rivals(b, "login"))
    /\ UNCHANGED <<session, holds, overlap, reverted>>

\* The answer's text says the challenge that was given out, and names the
\* passkey that signed, or was made.
Legible(c) ==
    /\ RawURLEncoding(pkB64uToBuf(RawURLEncoding(c))) = RawURLEncoding(c)
    /\ \A k \in IF kind[c] = "login" THEN reply[c].key ELSE {c} :
        pkBufToB64u(k) = RawURLEncoding(k)

Verifies(h) ==
    /\ LoginVerify(h) /\ Legible(req[h])
    /\ UNCHANGED pageVars

Refuses(h) ==
    /\ pc[h] = "verify" /\ Verified(req[h]) => ~Legible(req[h])
    /\ pc[h] = "add" => ~Legible(req[h])
    /\ FinishFail(h)
    /\ Answer(req[h], "refused", {})
    /\ UNCHANGED <<holds, overlap, reverted>>

\* The limiter turns a login away.
Limits(h) ==
    /\ pc[h] = "verify" /\ FinishFail(h)
    /\ Answer(req[h], "limited", {})
    /\ UNCHANGED <<holds, overlap, reverted>>

Registers(h) ==
    /\ RegisterAdd(h) /\ Legible(req[h])
    /\ Answer(req[h], "registered", {})
    /\ UNCHANGED <<holds, overlap, reverted>>

\* Pages that are signing in with one of these passkeys.
SigningWith(ks) ==
    {x \in Browsers : page[x].at \in {"signed", "waiting"} /\ reply[page[x].c].key \cap ks # {}}

\* The new sign count makes an answer signed before an old one.
SignsIn(h) ==
    /\ LoginTouch(h)
    /\ Answer(req[h], "signedin", SigningWith(reply[req[h]].key))
    /\ UNCHANGED <<holds, overlap, reverted>>

\* What the page shows once pkList or checkSession has answered.  A list that
\* is refused, for want of a session, overwrites the registration, unless the
\* page knows and does not ask.
Loaded(b) ==
    {"lost"} \cup
    IF kind[page[b].c] = "login"
    THEN IF session[b] THEN {"signedin"} ELSE {""}
    ELSE IF session[b] THEN {"registered"} ELSE {"registered", "unauthorized"}

Loads(b) ==
    /\ page[b].at = "loading"
    /\ \E shows \in Loaded(b) : Becomes(b, Ends(b, shows), {})
    /\ UNCHANGED <<vars, session, holds, overlap, reverted>>

\* The page is closed or loaded again; what it sent goes on.
Close(b) ==
    /\ page[b].at # "idle"
    /\ Becomes(b, Ends(b, ""), {})
    /\ UNCHANGED <<vars, session, holds, overlap, reverted>>

-----------------------------------------------------------------------------
(***************************************************************************)
(* The list of passkeys, and the service.                                  *)
(***************************************************************************)
Delete(b, k) ==
    /\ session[b] /\ remove(k)
    /\ page' = [x \in Browsers |-> IF x \in SigningWith({k}) THEN Disturbed(x) ELSE page[x]]
    /\ UNCHANGED <<session, holds, overlap, reverted>>

\* Sessions and slots are lost, and the answers that were waited for.
ServiceRestarts ==
    /\ Restart
    /\ reverted' = (reverted \/ file = "stale")
    /\ session' = [b \in Browsers |-> FALSE]
    /\ page' = [b \in Browsers |->
                   IF page[b].at = "waiting" THEN Ends(b, "lost")
                   ELSE IF page[b].at = "idle" THEN page[b] ELSE Disturbed(b)]
    /\ UNCHANGED <<holds, overlap>>

-----------------------------------------------------------------------------
Sends(b) == \E h \in Handlers : RegisterSend(b, h) \/ LoginSend(b, h)
Serves(h) == Verifies(h) \/ Refuses(h) \/ Limits(h) \/ Registers(h) \/ SignsIn(h)

PageNext ==
    \/ \E b \in Browsers :
        \/ PasswordSignIn(b) \/ SessionEnds(b)
        \/ RegisterClick(b) \/ LoginClick(b)
        \/ \E d \in Devices : Create(b, d) \/ \E k \in Keys : Get(b, d, k)
        \/ Cancel(b) \/ Sends(b) \/ Loads(b) \/ Close(b)
        \/ \E k \in Keys : Delete(b, k)
    \/ \E h \in Handlers : Serves(h)
    \/ ServiceRestarts

PageSpec == PageInit /\ [][PageNext]_allVars

-----------------------------------------------------------------------------
\* A page says what the service did with its ceremony: what it calls registered
\* or signed in was accepted, and what it calls refused was not; only a lost
\* answer leaves it open (passkey.js:34).  One refusal is not about the
\* ceremony: the session is over when the list of passkeys is loaded again
\* after a registration that was accepted (admin.html:467).
ShownIsTrue ==
    \A b \in Browsers :
        LET shows == page[b].shows
            c == page[b].c
        IN  /\ page[b].accepted => used[c] = 1
            /\ shows = "registered" => kind[c] = "register" /\ used[c] = 1
            /\ shows = "signedin" => kind[c] = "login" /\ used[c] = 1
            /\ shows \in {"unauthorized", "refused", "limited", "NotAllowedError",
                         "InvalidStateError"}
               => used[c] = 0 \/ (page[b].accepted /\ shows = "unauthorized")

\* A ceremony the user approved is turned away only with a cause: since it
\* began another page began or finished one of the same kind and so took its
\* slot, the service restarted, or the passkey it signed with was not stored
\* or was used by another login.  The conversions of passkey.js and the checks
\* of the service refuse nothing else.
RefusedHasCause ==
    \A b \in Browsers : page[b].shows = "refused" => page[b].disturbed

\* A stored passkey is on an authenticator.  The list of passkeys to exclude,
\* read when the registration begins, keeps an authenticator from replacing
\* one that is stored; it does not know of a registration that runs at the
\* same time, nor of a passkey that an outdated file brings back.
StoredIsHeld ==
    \A k \in store.keys : (\E d \in Devices : k \in holds[d]) \/ k \in overlap \/ reverted
=============================================================================
