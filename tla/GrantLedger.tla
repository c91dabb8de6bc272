---------------------------- MODULE GrantLedger ----------------------------
(***************************************************************************)
(* What the vend service promises a client about pull grants, without the  *)
(* registry lock, the state file, the sweeps, the delete goroutines or the *)
(* reconciliation pass.  A request is granted or refused.  A granted token *)
(* is accepted from the answer until the instant it expires, except while  *)
(* the process is down, and never again afterwards.  The image behind it   *)
(* may be withdrawn only once it has expired.                              *)
(***************************************************************************)
EXTENDS Naturals

CONSTANTS Tags, TTLs

VARIABLES
    clock,
    serving,   \* the service answers
    state,     \* what became of each request
    until,     \* when a granted token expires
    open,      \* the tokens a pull is accepted with
    images     \* the granted tags that can be pulled

ledgerVars == <<clock, serving, state, until, open, images>>

Current == {t \in Tags : state[t] = "granted" /\ clock < until[t]}

Init ==
    /\ clock = 0 /\ serving = TRUE
    /\ state = [t \in Tags |-> "unasked"]
    /\ until = [t \in Tags |-> 0]
    /\ open = {} /\ images = {}

Request(t) ==
    /\ serving /\ state[t] = "unasked"
    /\ state' = [state EXCEPT ![t] = "pending"]
    /\ UNCHANGED <<clock, serving, until, open, images>>

Refuse(t) ==
    /\ serving /\ state[t] \in {"unasked", "pending"}
    /\ state' = [state EXCEPT ![t] = "refused"]
    /\ UNCHANGED <<clock, serving, until, open, images>>

Issue(t) ==
    /\ serving /\ state[t] = "pending"
    /\ state' = [state EXCEPT ![t] = "granted"]
    /\ \E ttl \in TTLs : until' = [until EXCEPT ![t] = clock + ttl]
    /\ open' = open \cup {t}
    /\ images' = images \cup {t}
    /\ UNCHANGED <<clock, serving>>

Withdraw(t) ==
    /\ state[t] = "granted" /\ until[t] <= clock
    /\ images' = images \ {t}
    /\ UNCHANGED <<clock, serving, state, until, open>>

Advance ==
    /\ clock' = clock + 1
    /\ open' = {t \in open : clock + 1 < until[t]}
    /\ UNCHANGED <<serving, state, until, images>>

\* Requests in progress fail with the process; granted tokens only wait.
Outage ==
    /\ serving
    /\ serving' = FALSE
    /\ open' = {}
    /\ state' = [t \in Tags |-> IF state[t] = "pending" THEN "refused" ELSE state[t]]
    /\ UNCHANGED <<clock, until, images>>

Recover ==
    /\ ~serving
    /\ serving' = TRUE
    /\ open' = Current
    /\ UNCHANGED <<clock, state, until, images>>

Next ==
    \/ \E t \in Tags : Request(t) \/ Refuse(t) \/ Issue(t) \/ Withdraw(t)
    \/ Advance \/ Outage \/ Recover

Spec == Init /\ [][Next]_ledgerVars

LedgerTypeOK ==
    /\ clock \in Nat /\ serving \in BOOLEAN
    /\ state \in [Tags -> {"unasked", "pending", "granted", "refused"}]
    /\ until \in [Tags -> Nat]
    /\ open \subseteq Tags /\ images \subseteq Tags

\* While the service is up it accepts exactly the tokens that were granted and
\* have not expired, and what it accepts can be pulled (handleV2's lookup and
\* the registry behind it).
AcceptedIsCurrent ==
    /\ serving => open = Current
    /\ Current \subseteq images
=============================================================================
