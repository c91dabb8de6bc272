----------------------------- MODULE Appliance -----------------------------
(***************************************************************************)
(* The persistent state of an appliance and the programs that rewrite it:  *)
(* appliance/initialize.sh at every boot, the operator's commands          *)
(* "exe-image-forge password" and "token", and the vend service that reads *)
(* the configuration when it starts.  Power may fail at any step of a      *)
(* boot or a command; a command may end early by itself.  Every file the   *)
(* script moves into place appears at once; a file written in place, by    *)
(* vend -set-password or the token command, may be left empty.             *)
(***************************************************************************)
EXTENDS Naturals, FiniteSets

CONSTANTS
    Operators,     \* shells an operator works in
    TornWrites,    \* whether a write in place may leave the file empty
    MaxBoots,      \* bound: boots after the first
    MaxCommands    \* bound: commands the operators give

ASSUME Modes == TornWrites \in BOOLEAN /\ MaxBoots \in Nat /\ MaxCommands \in Nat

VARIABLES
    config,     \* config.json: absent, empty or whole, with hash and VM token
    env,        \* forge.env: none, generated, or edited by the operator
    shown,      \* initial-password: the password in it, 0 when absent
    marker,     \* appliance-initialized
    owned,      \* which of config.json and the data directory are exedev's
    init,       \* where initialize.sh is
    cmd, mem,   \* where each command is, and the configuration it read
    serving,    \* the hash the running vend service read, or none
    boots, commands, issued,   \* counters; issued numbers passwords and tokens
    op,         \* history: what the operators set last
    missed,     \* history: whether a command wrote and ended without its restart
    disturbed   \* history: which disturbances there were

vars == <<config, env, shown, marker, owned, init, cmd, mem, serving, boots,
          commands, issued, op, missed, disturbed>>

Absent == [kind |-> "absent", hash |-> 0, token |-> 0]
Empty == [kind |-> "empty", hash |-> 0, token |-> 0]
Whole(h, t) == [kind |-> "whole", hash |-> h, token |-> t]
Disturbances == {"torn", "overlap", "blank", "bootCut", "commandCut"}
Config == [kind : {"absent", "empty", "whole"}, hash : Nat, token : Nat]

NonEmpty == config.kind = "whole" /\ env # "none"
Quiet == \A o \in Operators : cmd[o] = "idle"

TypeOK ==
    /\ config \in Config /\ mem \in [Operators -> Config]
    /\ env \in {"none", "generated", "edited"}
    /\ shown \in Nat /\ marker \in BOOLEAN /\ owned \subseteq {"config", "data"}
    /\ init \in {"check", "adopt", "env", "config", "shown", "hash", "mark", "own",
                 "done", "failed"}
    /\ cmd \in [Operators -> {"idle", "pwRead", "pwWrite", "pwOwn", "pwForget", "tkRead",
                              "tkWrite", "restart"}]
    /\ serving \in SUBSET Nat /\ Cardinality(serving) <= 1
    /\ boots \in Nat /\ commands \in Nat /\ issued \in Nat
    /\ op \in [hash : Nat, token : Nat, env : BOOLEAN]
    /\ missed \in BOOLEAN /\ disturbed \subseteq Disturbances

Init ==
    /\ config = Absent /\ env = "none" /\ shown = 0 /\ marker = FALSE /\ owned = {}
    /\ init = "check"
    /\ cmd = [o \in Operators |-> "idle"] /\ mem = [o \in Operators |-> Absent]
    /\ serving = {} /\ boots = 0 /\ commands = 0 /\ issued = 0
    /\ op = [hash |-> 0, token |-> 0, env |-> FALSE]
    /\ missed = FALSE /\ disturbed = {}

cmdVars == <<cmd, mem, serving, boots, commands, op, missed>>

\* A write in place: done, or the file is left empty and the writer fails.
WriteInPlace(c, done, failed) ==
    \/ config' = c /\ done /\ UNCHANGED disturbed
    \/ /\ TornWrites /\ config' = Empty /\ failed
       /\ disturbed' = disturbed \cup {"torn"}

-----------------------------------------------------------------------------
(***************************************************************************)
(* initialize.sh                                                           *)
(***************************************************************************)

\* Mutant: every boot starts from scratch.
InitCheckAlways ==
    /\ init = "check" /\ init' = "env"
    /\ UNCHANGED <<config, env, shown, marker, owned, issued, cmdVars, disturbed>>

\* Mutant: the configuration counts if the file is there, empty or not (-f, not -s).
InitCheckExists ==
    /\ init = "check"
    /\ init' = CASE marker /\ config.kind # "absent" /\ env # "none" -> "done"
                 [] ~marker /\ NonEmpty /\ config.hash # 0 -> "adopt"
                 [] OTHER -> "env"
    /\ UNCHANGED <<config, env, shown, marker, owned, issued, cmdVars, disturbed>>

\* Mutant: a configuration without a password is adopted.
InitCheckHashless ==
    /\ init = "check"
    /\ init' = CASE marker /\ NonEmpty -> "done"
                 [] ~marker /\ NonEmpty -> "adopt"
                 [] OTHER -> "env"
    /\ UNCHANGED <<config, env, shown, marker, owned, issued, cmdVars, disturbed>>

\* Keep an initialised appliance, adopt a configuration with a password.
InitCheck ==
    /\ init = "check"
    /\ init' = CASE marker /\ NonEmpty -> "done"
                 [] ~marker /\ NonEmpty /\ config.hash # 0 -> "adopt"
                 [] OTHER -> "env"
    /\ UNCHANGED <<config, env, shown, marker, owned, issued, cmdVars, disturbed>>

InitAdopt ==
    /\ init = "adopt" /\ init' = "done"
    /\ marker' = TRUE
    /\ UNCHANGED <<config, env, shown, owned, issued, cmdVars, disturbed>>

InitEnv ==
    /\ init = "env" /\ init' = "config"
    /\ env' = "generated"
    /\ UNCHANGED <<config, shown, marker, owned, issued, cmdVars, disturbed>>

InitConfig ==
    /\ init = "config" /\ init' = "shown"
    /\ config' = Whole(0, 0) /\ owned' = owned \ {"config"}
    /\ UNCHANGED <<env, shown, marker, issued, cmdVars, disturbed>>

InitShown ==
    /\ init = "shown" /\ init' = "hash"
    /\ issued' = issued + 1 /\ shown' = issued'
    /\ UNCHANGED <<config, env, marker, owned, cmdVars, disturbed>>

\* vend -set-password with the generated password.
InitHash ==
    /\ init = "hash"
    /\ WriteInPlace(Whole(shown, config.token), init' = "mark", init' = "failed")
    /\ UNCHANGED <<env, shown, marker, owned, issued, cmdVars>>

InitMark ==
    /\ init = "mark" /\ init' = "own"
    /\ marker' = TRUE
    /\ UNCHANGED <<config, env, shown, owned, issued, cmdVars, disturbed>>

\* Mutant: the configuration stays with root.
InitOwnData ==
    /\ init = "own" /\ init' = "done"
    /\ owned' = owned \cup {"data"}
    /\ UNCHANGED <<config, env, shown, marker, issued, cmdVars, disturbed>>

InitOwn ==
    /\ init = "own" /\ init' = "done"
    /\ owned' = {"config", "data"}
    /\ UNCHANGED <<config, env, shown, marker, issued, cmdVars, disturbed>>

initVars == <<init, marker, boots>>

-----------------------------------------------------------------------------
(***************************************************************************)
(* The operator's commands.  The initial password is told after the boot,  *)
(* so they start once initialize.sh is done.                               *)
(***************************************************************************)
Step(o, from, to) == cmd[o] = from /\ cmd' = [cmd EXCEPT ![o] = to]

Command(o, first) ==
    /\ init = "done" /\ commands < MaxCommands
    /\ Step(o, "idle", first) /\ commands' = commands + 1
    /\ disturbed' = disturbed \cup (IF Quiet THEN {} ELSE {"overlap"})
    /\ UNCHANGED <<config, env, shown, owned, mem, serving, issued, op, missed, initVars>>

\* Both read the whole file first and stop when it is not valid.
CommandRead(o) ==
    /\ \/ Step(o, "pwRead", IF config.kind = "whole" THEN "pwWrite" ELSE "idle")
       \/ Step(o, "tkRead", IF config.kind = "whole" THEN "tkWrite" ELSE "idle")
    /\ mem' = [mem EXCEPT ![o] = config]
    /\ UNCHANGED <<config, env, shown, owned, serving, commands, issued, op, missed, disturbed, initVars>>

PasswordWrite(o) ==
    /\ issued' = issued + 1
    /\ WriteInPlace(Whole(issued', mem[o].token),
                    Step(o, "pwWrite", "pwOwn") /\ op' = [op EXCEPT !.hash = issued'],
                    Step(o, "pwWrite", "idle") /\ UNCHANGED op)
    /\ UNCHANGED <<env, shown, owned, mem, serving, commands, missed, initVars>>

\* fmt.Scanln reads up to the first blank of what was typed: the word that is
\* stored is not the password the operator chose.
PasswordWriteWord(o) ==
    /\ issued' = issued + 2
    /\ config' = Whole(issued', mem[o].token)
    /\ Step(o, "pwWrite", "pwOwn") /\ op' = [op EXCEPT !.hash = issued + 1]
    /\ disturbed' = disturbed \cup {"blank"}
    /\ UNCHANGED <<env, shown, owned, mem, serving, commands, missed, initVars>>

PasswordOwn(o) ==
    /\ Step(o, "pwOwn", "pwForget")
    /\ owned' = owned \cup {"config"}
    /\ UNCHANGED <<config, env, shown, mem, serving, commands, issued, op, missed, disturbed, initVars>>

\* Mutant: the initial password stays.
PasswordForgetNot(o) ==
    /\ Step(o, "pwForget", "restart")
    /\ UNCHANGED <<config, env, shown, owned, mem, serving, commands, issued, op, missed, disturbed, initVars>>

PasswordForget(o) ==
    /\ Step(o, "pwForget", "restart")
    /\ shown' = 0
    /\ UNCHANGED <<config, env, owned, mem, serving, commands, issued, op, missed, disturbed, initVars>>

\* token <TOKEN> stores one, token clear stores none.
TokenWrite(o) ==
    /\ issued' = issued + 1
    /\ \E t \in {0, issued'} :
        WriteInPlace(Whole(mem[o].hash, t),
                     Step(o, "tkWrite", "restart") /\ op' = [op EXCEPT !.token = t],
                     Step(o, "tkWrite", "idle") /\ UNCHANGED op)
    /\ UNCHANGED <<env, shown, owned, mem, serving, commands, missed, initVars>>

\* Mutant: the command ends without restarting the service.
CommandRestartNot(o) ==
    /\ Step(o, "restart", "idle")
    /\ UNCHANGED <<config, env, shown, owned, mem, serving, commands, issued, op, missed, disturbed, initVars>>

CommandRestart(o) ==
    /\ Step(o, "restart", "idle")
    /\ serving' = {} /\ missed' = FALSE
    /\ UNCHANGED <<config, env, shown, owned, mem, commands, issued, op, disturbed, initVars>>

\* "set -e" ends a command whose next step fails, and a closed terminal any:
\* after its write, the running service goes on with the configuration it read.
CommandCut(o) ==
    /\ cmd[o] # "idle" /\ cmd' = [cmd EXCEPT ![o] = "idle"]
    /\ missed' = (missed \/ cmd[o] \in {"pwOwn", "pwForget", "restart"})
    /\ disturbed' = disturbed \cup {"commandCut"}
    /\ UNCHANGED <<config, env, shown, owned, mem, serving, commands, issued, op, initVars>>

EditEnv ==
    /\ init = "done" /\ commands < MaxCommands
    /\ commands' = commands + 1
    /\ env' = "edited" /\ op' = [op EXCEPT !.env = TRUE]
    /\ UNCHANGED <<config, shown, owned, cmd, mem, serving, issued, missed, disturbed, initVars>>

-----------------------------------------------------------------------------
(***************************************************************************)
(* The service, tried again every two seconds, and the power.              *)
(***************************************************************************)
VendStart ==
    /\ init \in {"done", "failed"} /\ serving = {}
    /\ config.kind = "whole" /\ "config" \in owned
    /\ serving' = {config.hash} /\ missed' = FALSE
    /\ UNCHANGED <<config, env, shown, owned, cmd, mem, commands, issued, op, disturbed, initVars>>

\* Off and on again: a command that was running is gone.
Boot ==
    /\ boots < MaxBoots /\ boots' = boots + 1
    /\ init' = "check" /\ serving' = {} /\ missed' = FALSE
    /\ cmd' = [o \in Operators |-> "idle"]
    /\ disturbed' = disturbed \cup (IF Quiet THEN {} ELSE {"commandCut"})
                              \cup (IF init \in {"done", "failed"} THEN {} ELSE {"bootCut"})
    /\ UNCHANGED <<config, env, shown, marker, owned, mem, commands, issued, op>>

InitStep ==
    \/ InitCheck \/ InitAdopt \/ InitEnv \/ InitConfig \/ InitShown \/ InitHash
    \/ InitMark \/ InitOwn

\* What remains of a command that was given.
CommandStep(o) ==
    \/ CommandRead(o) \/ PasswordWrite(o) \/ PasswordWriteWord(o) \/ PasswordOwn(o)
    \/ PasswordForget(o) \/ TokenWrite(o) \/ CommandRestart(o)

Next ==
    \/ InitStep
    \/ \E o \in Operators :
        Command(o, "pwRead") \/ Command(o, "tkRead") \/ CommandStep(o) \/ CommandCut(o)
    \/ EditEnv \/ VendStart \/ Boot

Spec == Init /\ [][Next]_vars

Fairness ==
    /\ WF_vars(InitStep) /\ WF_vars(VendStart)
    /\ \A o \in Operators : WF_vars(CommandStep(o))

FairSpec == Spec /\ Fairness

-----------------------------------------------------------------------------
\* None of these happened so far.
Without(D) == disturbed \cap D = {}

\* "The marker is written only after the config has a password hash"
\* (initialize.sh:31): no boot takes a configuration without a password for
\* an initialised one, wherever the power failed before, as long as no write in
\* place was torn.
MarkerMeansPassword ==
    Without({"torn"}) /\ marker /\ config.kind = "whole" => config.hash # 0

\* "Preserve the password, host name, and every operator change on subsequent
\* boots" (initialize.sh:31-32), wherever the power failed, as long as no write
\* in place was torn; and commands given one after the other do not undo each
\* other, wherever they were cut off.  A password is the one that was typed if it
\* was one word.
OperatorKept ==
    Without({"torn", "overlap"}) =>
        /\ op.env => env = "edited"
        /\ config.kind = "whole" =>
            /\ op.hash # 0 /\ Without({"blank"}) => config.hash = op.hash
            /\ op.token # 0 => config.token = op.token

\* Once booted, somebody knows the password: it is in the initial-password
\* file or the operator chose it last, as one word; and what first-login prints
\* from that file between commands works, unless a command was cut off or a
\* write torn.
PasswordKnown ==
    init = "done" /\ config.kind = "whole" =>
        /\ Without({"torn", "overlap", "blank"}) => config.hash \in {shown, op.hash} \ {0}
        /\ Without({"torn", "commandCut"}) /\ Quiet /\ shown # 0 => config.hash = shown

\* A boot that ends leaves a configuration with a password, and one that somebody
\* knows: a torn write is made good, and so is a boot that was cut off, though not
\* both together.
BootRepairs ==
    [][init # "done" /\ init' = "done" /\ ~({"torn", "bootCut"} \subseteq disturbed) =>
        /\ config'.kind = "whole" /\ config'.hash # 0
        /\ Without({"overlap", "blank"}) => config'.hash \in {shown', op'.hash}]_vars

\* Between commands, the service checks the password that is configured,
\* whatever was torn, cut off or overlapped, unless a command ended between its
\* write and its restart and nothing restarted the service since.
ServesConfigured ==
    Quiet /\ config.kind = "whole" => serving \subseteq {config.hash} \/ missed

\* Once booted, the service comes up, and again after every command and every
\* boot, unless a write was torn or an initialisation cut off.
ComesUp == init = "done" ~> serving # {} \/ ~Without({"torn", "bootCut"})
=============================================================================
