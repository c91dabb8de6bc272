--------------------------- MODULE ApplianceProofs ---------------------------
(***************************************************************************)
(* Theorems about Appliance, for any operators and any number of boots and *)
(* commands, wherever the power fails.                                     *)
(***************************************************************************)
EXTENDS Appliance, FiniteSetTheorems, TLAPS

\* Stages of a boot that makes a configuration.
Making == {"env", "config", "shown", "hash"}

\* Commands that have read the configuration and will write it.
Writing == {"pwWrite", "tkWrite"}

\* Commands that will still restart the service.
Restarting == {"pwOwn", "pwForget", "restart"}

\* What the operators may have set.
Told == [hash : Nat, token : Nat, env : BOOLEAN]

\* TypeOK without the number of running services.
FieldsOK ==
    /\ config \in Config /\ mem \in [Operators -> Config]
    /\ env \in {"none", "generated", "edited"}
    /\ shown \in Nat /\ marker \in BOOLEAN /\ owned \subseteq {"config", "data"}
    /\ init \in {"check", "adopt", "env", "config", "shown", "hash", "mark", "own",
                 "done", "failed"}
    /\ cmd \in [Operators -> {"idle", "pwRead", "pwWrite", "pwOwn", "pwForget", "tkRead",
                              "tkWrite", "restart"}]
    /\ serving = {} \/ \E h \in Nat : serving = {h}
    /\ boots \in Nat /\ commands \in Nat /\ issued \in Nat
    /\ op \in Told
    /\ missed \in BOOLEAN /\ disturbed \subseteq Disturbances

\* Commands run between boots only, and so does the service.
BootsAlone ==
    /\ init # "done" => Quiet
    /\ init \notin {"done", "failed"} => serving = {}

\* A configuration with a password and its environment.
Usable == config.kind = "whole" /\ config.hash # 0 /\ env # "none"

\* What the script has reached, as long as no write was torn: a marker stands for
\* a usable configuration, which no later boot makes again; before there is
\* one, no operator has set anything.
BootReached ==
    "torn" \notin disturbed =>
        /\ marker \/ init \in {"adopt", "mark"} => Usable
        /\ init \in Making \cup {"mark", "adopt"} => ~marker
        /\ init \in {"own", "done"} => marker
        /\ init # "failed"
        /\ ~marker => op.hash = 0 /\ op.token = 0 /\ op.env = FALSE
        /\ config.kind = "whole" => env # "none"
        /\ config.kind # "empty" /\ (config.kind = "absent" => config.hash = 0)
        /\ init \in {"env", "config"} => config.hash = 0
        /\ init \in {"config", "shown", "hash"} => env # "none"
        /\ init \in {"shown", "hash"} => config = Whole(0, 0)
        /\ init = "hash" => shown # 0

\* A command carries a usable configuration; while no password was chosen it is
\* the initial one, in the file and in what the commands read.
InitialKept ==
    "torn" \notin disturbed =>
        /\ \A o \in Operators : cmd[o] \in Writing =>
              mem[o].kind = "whole" /\ mem[o].hash # 0
        /\ op.hash = 0 =>
              /\ config.hash # 0 => config.hash = shown
              /\ \A o \in Operators : cmd[o] \in Writing => mem[o].hash = config.hash

\* Without overlap one command runs, and what it read is still the configuration.
OneCommand ==
    "overlap" \notin disturbed =>
        /\ \A o, p \in Operators : cmd[o] # "idle" /\ cmd[p] # "idle" => o = p
        /\ \A o \in Operators : cmd[o] \in Writing => mem[o] = config

\* A chosen password and the initial one exist together only until the command
\* that chose it has removed the file.
InitialForgotten ==
    /\ \A o \in Operators : cmd[o] \in {"pwOwn", "pwForget"} => op.hash # 0
    /\ "torn" \notin disturbed /\ "commandCut" \notin disturbed /\ op.hash # 0 /\ shown # 0 =>
          \E o \in Operators : cmd[o] \in {"pwOwn", "pwForget"}

\* A service with an old password meets a command that will restart it, unless
\* that was missed.
OldServiceRestarts ==
    config.kind = "whole" =>
        serving \subseteq {config.hash} \/ missed \/ \E o \in Operators : cmd[o] \in Restarting

\* What the operators set last is what the files say.
OperatorsWord ==
    "torn" \notin disturbed /\ "overlap" \notin disturbed =>
        /\ op.env => env = "edited"
        /\ config.kind = "whole" =>
            /\ op.hash # 0 /\ "blank" \notin disturbed => config.hash = op.hash
            /\ op.token # 0 => config.token = op.token

\* A password is being made: the configuration has none.
Unhashed == {"shown", "hash"}

\* As long as no boot was cut off, torn writes or not: where there is a
\* configuration it has a password, and a boot that is about to end has one.
UncutRepairs ==
    "bootCut" \notin disturbed =>
        /\ init \notin {"check", "env"} \/ config.kind = "whole" => env # "none"
        /\ init \in Unhashed => config = Whole(0, 0)
        /\ init = "hash" => shown # 0
        /\ init \in {"adopt", "mark", "own"} => config.kind = "whole"
        /\ config.kind = "whole" /\ init \notin Unhashed => config.hash # 0
        /\ \A o \in Operators : cmd[o] \in Writing =>
              mem[o].kind = "whole" /\ mem[o].hash # 0

\* And somebody knows it, if it was one word and no two commands overlapped.
UncutKnown ==
    "bootCut" \notin disturbed /\ "overlap" \notin disturbed /\ "blank" \notin disturbed =>
        /\ config.kind = "whole" /\ init \notin Unhashed => config.hash \in {shown, op.hash}
        /\ \A o \in Operators : cmd[o] \in {"pwOwn", "pwForget"} =>
              config.kind = "whole" /\ config.hash = op.hash

AInv ==
    /\ FieldsOK /\ BootsAlone /\ BootReached /\ InitialKept /\ OneCommand
    /\ InitialForgotten /\ OldServiceRestarts /\ OperatorsWord /\ UncutRepairs /\ UncutKnown

-----------------------------------------------------------------------------
LEMMA ConfigFields ==
    /\ \A c \in Config : /\ c.kind \in {"absent", "empty", "whole"}
                         /\ c.hash \in Nat /\ c.token \in Nat
    /\ \A h, t \in Nat : /\ Whole(h, t) \in Config /\ Whole(h, t).kind = "whole"
                         /\ Whole(h, t).hash = h /\ Whole(h, t).token = t
    /\ Empty \in Config /\ Empty.kind = "empty" /\ Empty.hash = 0
    /\ Absent \in Config /\ Absent.kind = "absent" /\ Absent.hash = 0
BY DEF Config, Whole, Empty, Absent

LEMMA ApplianceInit == Init => AInv
<1> SUFFICES ASSUME Init PROVE AInv
  OBVIOUS
<1> USE ConfigFields DEF Init
<1>1. FieldsOK
  BY DEF FieldsOK, Told
<1>2. BootsAlone
  BY DEF BootsAlone, Quiet
<1>3. BootReached
  BY DEF BootReached, Usable, Making
<1>4. InitialKept
  BY DEF InitialKept, Writing
<1>5. OneCommand
  BY DEF OneCommand, Writing
<1>6. InitialForgotten
  BY DEF InitialForgotten
<1>7. OldServiceRestarts
  BY DEF OldServiceRestarts
<1>8. OperatorsWord
  BY DEF OperatorsWord
<1>9. UncutRepairs /\ UncutKnown
  BY DEF UncutRepairs, UncutKnown, Unhashed, Writing
<1> QED
  BY <1>1, <1>2, <1>3, <1>4, <1>5, <1>6, <1>7, <1>8, <1>9 DEF AInv

-----------------------------------------------------------------------------
\* Every step of a boot keeps the invariant.
LEMMA BootKeeps == ASSUME AInv, InitStep PROVE AInv'
<1> USE ConfigFields
<1> USE DEF AInv, FieldsOK, BootsAlone, BootReached, InitialKept, OneCommand, InitialForgotten,
            OldServiceRestarts, OperatorsWord, UncutRepairs, UncutKnown, Unhashed, Usable, Quiet, Making, Writing, Restarting,
            cmdVars
<1>1. CASE InitCheck
  BY <1>1 DEF InitCheck, NonEmpty
<1>2. CASE InitAdopt
  BY <1>2 DEF InitAdopt
<1>3. CASE InitEnv
  BY <1>3 DEF InitEnv
<1>4. CASE InitConfig
  <2>1. FieldsOK'
    BY <1>4 DEF InitConfig
  <2>2. BootsAlone'
    BY <1>4 DEF InitConfig
  <2>3. BootReached'
    BY <1>4 DEF InitConfig
  <2>4. InitialKept'
    BY <1>4 DEF InitConfig
  <2>5. OneCommand'
    BY <1>4 DEF InitConfig
  <2>6. InitialForgotten'
    BY <1>4 DEF InitConfig
  <2>7. OldServiceRestarts'
    BY <1>4 DEF InitConfig
  <2>8. OperatorsWord'
    BY <1>4 DEF InitConfig
  <2>9. UncutRepairs'
    BY <1>4 DEF InitConfig
  <2>10. UncutKnown'
    BY <1>4 DEF InitConfig
  <2> QED
    BY <2>1, <2>2, <2>3, <2>4, <2>5, <2>6, <2>7, <2>8, <2>9, <2>10
<1>5. CASE InitShown
  BY <1>5 DEF InitShown
<1>6. CASE InitHash
  <2>1. FieldsOK'
    <3>1. config' \in Config
      BY <1>6 DEF InitHash, WriteInPlace
    <3>2. disturbed' \subseteq Disturbances
      BY <1>6 DEF InitHash, WriteInPlace, Disturbances
    <3>3. init' \in {"mark", "failed"}
      BY <1>6 DEF InitHash, WriteInPlace
    <3> QED
      BY <1>6, <3>1, <3>2, <3>3 DEF InitHash
  <2>2. BootsAlone'
    BY <1>6 DEF InitHash, WriteInPlace, Disturbances
  <2>3. BootReached'
    BY <1>6 DEF InitHash, WriteInPlace, Disturbances
  <2>4. InitialKept'
    BY <1>6 DEF InitHash, WriteInPlace, Disturbances
  <2>5. OneCommand'
    BY <1>6 DEF InitHash, WriteInPlace, Disturbances
  <2>6. InitialForgotten'
    BY <1>6 DEF InitHash, WriteInPlace, Disturbances
  <2>7. OldServiceRestarts'
    BY <1>6 DEF InitHash, WriteInPlace, Disturbances
  <2>8. OperatorsWord'
    BY <1>6 DEF InitHash, WriteInPlace, Disturbances
  <2>9. UncutRepairs'
    BY <1>6 DEF InitHash, WriteInPlace, Disturbances
  <2>10. UncutKnown'
    BY <1>6 DEF InitHash, WriteInPlace, Disturbances
  <2> QED
    BY <2>1, <2>2, <2>3, <2>4, <2>5, <2>6, <2>7, <2>8, <2>9, <2>10
<1>7. CASE InitMark
  BY <1>7 DEF InitMark
<1>8. CASE InitOwn
  BY <1>8 DEF InitOwn
<1> QED
  BY <1>1, <1>2, <1>3, <1>4, <1>5, <1>6, <1>7, <1>8 DEF InitStep

\* So does every step of a command.
LEMMA CommandKeeps ==
    ASSUME AInv, NEW o \in Operators,
           Command(o, "pwRead") \/ Command(o, "tkRead") \/ CommandStep(o) \/ CommandCut(o)
    PROVE  AInv'
<1> USE ConfigFields
<1> USE DEF AInv, FieldsOK, BootsAlone, BootReached, InitialKept, OneCommand, InitialForgotten,
            OldServiceRestarts, OperatorsWord, UncutRepairs, UncutKnown, Unhashed, Usable, Quiet, Making, Writing, Restarting,
            initVars, Step
<1>1. ASSUME NEW first \in {"pwRead", "tkRead"}, Command(o, first) PROVE AInv'
  BY <1>1 DEF Command, Disturbances
<1>2. CASE CommandRead(o)
  BY <1>2 DEF CommandRead
<1>3. CASE PasswordWrite(o)
  <2> DEFINE n == issued + 1
  <2>t. /\ FieldsOK /\ n \in Nat /\ n # 0 /\ op \in Told /\ mem[o] \in Config
    OBVIOUS
  <2>u. /\ cmd[o] = "pwWrite" /\ UNCHANGED <<env, shown, owned, mem, serving, commands, init, marker, boots, missed>>
        /\ issued' = n
    BY <1>3 DEF PasswordWrite, WriteInPlace
  <2> HIDE DEF n
  <2>1. CASE /\ config' = Empty /\ cmd' = [cmd EXCEPT ![o] = "idle"]
             /\ UNCHANGED op /\ disturbed' = disturbed \cup {"torn"}
    <3>1. FieldsOK'
      BY <2>t, <2>u, <2>1 DEF Disturbances
    <3>2. BootsAlone'
      BY <2>t, <2>u, <2>1 DEF Disturbances
    <3>3. BootReached'
      BY <2>t, <2>u, <2>1 DEF Disturbances
    <3>4. InitialKept'
      BY <2>t, <2>u, <2>1 DEF Disturbances
    <3>5. OneCommand'
      BY <2>t, <2>u, <2>1 DEF Disturbances
    <3>6. InitialForgotten'
      BY <2>t, <2>u, <2>1 DEF Disturbances
    <3>7. OldServiceRestarts'
      BY <2>t, <2>u, <2>1 DEF Disturbances
    <3>8. OperatorsWord'
      BY <2>t, <2>u, <2>1 DEF Disturbances
    <3>9. UncutRepairs'
      BY <2>t, <2>u, <2>1 DEF Disturbances
    <3>10. UncutKnown'
      BY <2>t, <2>u, <2>1 DEF Disturbances
    <3> QED
      BY <3>1, <3>2, <3>3, <3>4, <3>5, <3>6, <3>7, <3>8, <3>9, <3>10
  <2>2. CASE /\ config' = Whole(n, mem[o].token)
             /\ op' = [op EXCEPT !.hash = n]
             /\ cmd' = [cmd EXCEPT ![o] = "pwOwn"] /\ UNCHANGED disturbed
    <3>q. LET q == [op EXCEPT !.hash = n]
          IN  q \in Told /\ q.hash = n /\ q.token = op.token /\ q.env = op.env
      BY ONLY <2>t DEF Told
    <3>c. /\ config' \in Config /\ config'.kind = "whole"
          /\ config'.hash = n /\ config'.token = mem[o].token
      BY <2>t, <2>2, ConfigFields
    <3>p. /\ op' \in Told /\ op'.env = op.env
          /\ op'.hash = n /\ op'.token = op.token
      BY <2>2, <3>q
    <3>d. cmd' = [cmd EXCEPT ![o] = "pwOwn"] /\ UNCHANGED disturbed
      BY <2>2
    <3>1. FieldsOK'
      BY <2>t, <2>u, <3>c, <3>p, <3>d
    <3>2. BootsAlone'
      BY <2>t, <2>u, <3>c, <3>p, <3>d
    <3>3. BootReached'
      BY <2>t, <2>u, <3>c, <3>p, <3>d
    <3>4. InitialKept'
      BY <2>t, <2>u, <3>c, <3>p, <3>d
    <3>5. OneCommand'
      BY <2>t, <2>u, <3>c, <3>p, <3>d
    <3>6. InitialForgotten'
      BY <2>t, <2>u, <3>c, <3>p, <3>d
    <3>7. OldServiceRestarts'
      BY <2>t, <2>u, <3>c, <3>p, <3>d
    <3>8. OperatorsWord'
      BY <2>t, <2>u, <3>c, <3>p, <3>d
    <3>9. UncutRepairs'
      BY <2>t, <2>u, <3>c, <3>p, <3>d
    <3>10. UncutKnown'
      BY <2>t, <2>u, <3>c, <3>p, <3>d
    <3> QED
      BY <3>1, <3>2, <3>3, <3>4, <3>5, <3>6, <3>7, <3>8, <3>9, <3>10
  <2> QED
    BY <1>3, <2>1, <2>2 DEF PasswordWrite, WriteInPlace, n
<1>4. CASE PasswordOwn(o)
  BY <1>4 DEF PasswordOwn
<1>5. CASE PasswordForget(o)
  <2>1. FieldsOK'
    BY <1>5 DEF PasswordForget
  <2>2. BootsAlone'
    BY <1>5 DEF PasswordForget
  <2>3. BootReached'
    BY <1>5 DEF PasswordForget
  <2>4. InitialKept'
    BY <1>5 DEF PasswordForget
  <2>5. OneCommand'
    BY <1>5 DEF PasswordForget
  <2>6. InitialForgotten'
    BY <1>5 DEF PasswordForget
  <2>7. OldServiceRestarts'
    BY <1>5 DEF PasswordForget
  <2>8. OperatorsWord'
    BY <1>5 DEF PasswordForget
  <2>9. UncutRepairs'
    BY <1>5 DEF PasswordForget
  <2>10. UncutKnown'
    BY <1>5 DEF PasswordForget
  <2> QED
    BY <2>1, <2>2, <2>3, <2>4, <2>5, <2>6, <2>7, <2>8, <2>9, <2>10
<1>6. CASE TokenWrite(o)
  <2> DEFINE n == issued + 1
  <2>t. /\ FieldsOK /\ n \in Nat /\ n # 0 /\ op \in Told /\ mem[o] \in Config
    OBVIOUS
  <2>u. /\ cmd[o] = "tkWrite" /\ UNCHANGED <<env, shown, owned, mem, serving, commands, init, marker, boots, missed>>
        /\ issued' = n
    BY <1>6 DEF TokenWrite, WriteInPlace
  <2> HIDE DEF n
  <2>1. CASE /\ config' = Empty /\ cmd' = [cmd EXCEPT ![o] = "idle"]
             /\ UNCHANGED op /\ disturbed' = disturbed \cup {"torn"}
    <3>1. FieldsOK'
      BY <2>t, <2>u, <2>1 DEF Disturbances
    <3>2. BootsAlone'
      BY <2>t, <2>u, <2>1 DEF Disturbances
    <3>3. BootReached'
      BY <2>t, <2>u, <2>1 DEF Disturbances
    <3>4. InitialKept'
      BY <2>t, <2>u, <2>1 DEF Disturbances
    <3>5. OneCommand'
      BY <2>t, <2>u, <2>1 DEF Disturbances
    <3>6. InitialForgotten'
      BY <2>t, <2>u, <2>1 DEF Disturbances
    <3>7. OldServiceRestarts'
      BY <2>t, <2>u, <2>1 DEF Disturbances
    <3>8. OperatorsWord'
      BY <2>t, <2>u, <2>1 DEF Disturbances
    <3>9. UncutRepairs'
      BY <2>t, <2>u, <2>1 DEF Disturbances
    <3>10. UncutKnown'
      BY <2>t, <2>u, <2>1 DEF Disturbances
    <3> QED
      BY <3>1, <3>2, <3>3, <3>4, <3>5, <3>6, <3>7, <3>8, <3>9, <3>10
  <2>2. CASE /\ \E t \in {0, n} :
                   config' = Whole(mem[o].hash, t) /\ op' = [op EXCEPT !.token = t]
             /\ cmd' = [cmd EXCEPT ![o] = "restart"] /\ UNCHANGED disturbed
    <3>q. \A t \in Nat :
             LET q == [op EXCEPT !.token = t]
             IN  q \in Told /\ q.hash = op.hash /\ q.token = t /\ q.env = op.env
      BY ONLY <2>t DEF Told
    <3>c. /\ config' \in Config /\ config'.kind = "whole"
          /\ config'.hash = mem[o].hash
      BY <2>t, <2>2, ConfigFields
    <3>p. /\ op' \in Told /\ op'.env = op.env
          /\ op'.hash = op.hash /\ op'.token = config'.token
      BY <2>t, <2>2, <3>q, ConfigFields
    <3>d. cmd' = [cmd EXCEPT ![o] = "restart"] /\ UNCHANGED disturbed
      BY <2>2
    <3>1. FieldsOK'
      BY <2>t, <2>u, <3>c, <3>p, <3>d
    <3>2. BootsAlone'
      BY <2>t, <2>u, <3>c, <3>p, <3>d
    <3>3. BootReached'
      BY <2>t, <2>u, <3>c, <3>p, <3>d
    <3>4. InitialKept'
      BY <2>t, <2>u, <3>c, <3>p, <3>d
    <3>5. OneCommand'
      BY <2>t, <2>u, <3>c, <3>p, <3>d
    <3>6. InitialForgotten'
      BY <2>t, <2>u, <3>c, <3>p, <3>d
    <3>7. OldServiceRestarts'
      BY <2>t, <2>u, <3>c, <3>p, <3>d
    <3>8. OperatorsWord'
      BY <2>t, <2>u, <3>c, <3>p, <3>d
    <3>9. UncutRepairs'
      BY <2>t, <2>u, <3>c, <3>p, <3>d
    <3>10. UncutKnown'
      BY <2>t, <2>u, <3>c, <3>p, <3>d
    <3> QED
      BY <3>1, <3>2, <3>3, <3>4, <3>5, <3>6, <3>7, <3>8, <3>9, <3>10
  <2> QED
    BY <1>6, <2>1, <2>2 DEF TokenWrite, WriteInPlace, n
<1>7. CASE CommandRestart(o)
  <2>1. FieldsOK'
    BY <1>7 DEF CommandRestart
  <2>2. BootsAlone'
    BY <1>7 DEF CommandRestart
  <2>3. BootReached'
    BY <1>7 DEF CommandRestart
  <2>4. InitialKept'
    BY <1>7 DEF CommandRestart
  <2>5. OneCommand'
    BY <1>7 DEF CommandRestart
  <2>6. InitialForgotten'
    BY <1>7 DEF CommandRestart
  <2>7. OldServiceRestarts'
    BY <1>7 DEF CommandRestart
  <2>8. OperatorsWord'
    BY <1>7 DEF CommandRestart
  <2>9. UncutRepairs'
    BY <1>7 DEF CommandRestart
  <2>10. UncutKnown'
    BY <1>7 DEF CommandRestart
  <2> QED
    BY <2>1, <2>2, <2>3, <2>4, <2>5, <2>6, <2>7, <2>8, <2>9, <2>10
<1>8. CASE PasswordWriteWord(o)
  <2> DEFINE n == issued + 1
             w == issued + 2
  <2>t. /\ FieldsOK /\ n \in Nat /\ n # 0 /\ w \in Nat /\ w # 0 /\ op \in Told /\ mem[o] \in Config
    OBVIOUS
  <2>u. /\ cmd[o] = "pwWrite" /\ UNCHANGED <<env, shown, owned, mem, serving, commands, init, marker, boots, missed>>
        /\ issued' = w
    BY <1>8 DEF PasswordWriteWord
  <2>e. /\ config' = Whole(w, mem[o].token)
        /\ op' = [op EXCEPT !.hash = n]
        /\ cmd' = [cmd EXCEPT ![o] = "pwOwn"] /\ disturbed' = disturbed \cup {"blank"}
    BY <1>8 DEF PasswordWriteWord
  <2> HIDE DEF n, w
  <2>q. LET q == [op EXCEPT !.hash = n]
        IN  q \in Told /\ q.hash = n /\ q.token = op.token /\ q.env = op.env
    BY ONLY <2>t DEF Told
  <2>c. /\ config' \in Config /\ config'.kind = "whole"
        /\ config'.hash = w /\ config'.token = mem[o].token
    BY <2>t, <2>e, ConfigFields
  <2>p. /\ op' \in Told /\ op'.env = op.env
        /\ op'.hash = n /\ op'.token = op.token
    BY <2>e, <2>q
  <2>d. cmd' = [cmd EXCEPT ![o] = "pwOwn"] /\ disturbed' = disturbed \cup {"blank"}
    BY <2>e
  <2>1. FieldsOK'
    BY <2>t, <2>u, <2>c, <2>p, <2>d DEF Disturbances
  <2>2. BootsAlone'
    BY <2>t, <2>u, <2>c, <2>p, <2>d DEF Disturbances
  <2>3. BootReached'
    BY <2>t, <2>u, <2>c, <2>p, <2>d DEF Disturbances
  <2>4. InitialKept'
    BY <2>t, <2>u, <2>c, <2>p, <2>d DEF Disturbances
  <2>5. OneCommand'
    BY <2>t, <2>u, <2>c, <2>p, <2>d DEF Disturbances
  <2>6. InitialForgotten'
    BY <2>t, <2>u, <2>c, <2>p, <2>d DEF Disturbances
  <2>7. OldServiceRestarts'
    BY <2>t, <2>u, <2>c, <2>p, <2>d DEF Disturbances
  <2>8. OperatorsWord'
    BY <2>t, <2>u, <2>c, <2>p, <2>d DEF Disturbances
  <2>9. UncutRepairs'
    BY <2>t, <2>u, <2>c, <2>p, <2>d DEF Disturbances
  <2>10. UncutKnown'
    BY <2>t, <2>u, <2>c, <2>p, <2>d DEF Disturbances
  <2> QED
    BY <2>1, <2>2, <2>3, <2>4, <2>5, <2>6, <2>7, <2>8, <2>9, <2>10
<1>9. CASE CommandCut(o)
  <2>1. FieldsOK'
    BY <1>9 DEF CommandCut, Disturbances
  <2>2. BootsAlone'
    BY <1>9 DEF CommandCut, Disturbances
  <2>3. BootReached'
    BY <1>9 DEF CommandCut, Disturbances
  <2>4. InitialKept'
    BY <1>9 DEF CommandCut, Disturbances
  <2>5. OneCommand'
    BY <1>9 DEF CommandCut, Disturbances
  <2>6. InitialForgotten'
    BY <1>9 DEF CommandCut, Disturbances
  <2>7. OldServiceRestarts'
    <3>1. CASE cmd[o] \in Restarting
      BY <1>9, <3>1 DEF CommandCut
    <3>2. CASE cmd[o] \notin Restarting
      <4>1. \A p \in Operators : cmd[p] \in Restarting => cmd'[p] \in Restarting
        BY <1>9, <3>2 DEF CommandCut
      <4> QED
        BY <1>9, <4>1 DEF CommandCut
    <3> QED
      BY <3>1, <3>2
  <2>8. OperatorsWord'
    BY <1>9 DEF CommandCut, Disturbances
  <2>9. UncutRepairs'
    BY <1>9 DEF CommandCut, Disturbances
  <2>10. UncutKnown'
    BY <1>9 DEF CommandCut, Disturbances
  <2> QED
    BY <2>1, <2>2, <2>3, <2>4, <2>5, <2>6, <2>7, <2>8, <2>9, <2>10
<1> QED
  BY <1>1, <1>2, <1>3, <1>4, <1>5, <1>6, <1>7, <1>8, <1>9 DEF CommandStep

\* And what happens beside them.
LEMMA RestKeeps == ASSUME AInv, EditEnv \/ VendStart \/ Boot PROVE AInv'
<1> USE ConfigFields
<1> USE DEF AInv, FieldsOK, BootsAlone, BootReached, InitialKept, OneCommand, InitialForgotten,
            OldServiceRestarts, OperatorsWord, UncutRepairs, UncutKnown, Unhashed, Usable, Quiet, Making, Writing, Restarting,
            initVars
<1>1. CASE EditEnv
  <2>1. FieldsOK'
    <3>1. op \in Told /\ op' = [op EXCEPT !.env = TRUE]
      BY <1>1 DEF EditEnv
    <3>2. op' \in Told
      BY ONLY <3>1 DEF Told
    <3> QED
      BY <1>1, <3>2 DEF EditEnv
  <2>2. BootsAlone'
    BY <1>1 DEF EditEnv
  <2>3. BootReached'
    BY <1>1 DEF EditEnv
  <2>4. InitialKept'
    BY <1>1 DEF EditEnv
  <2>5. OneCommand'
    BY <1>1 DEF EditEnv
  <2>6. InitialForgotten'
    BY <1>1 DEF EditEnv
  <2>7. OldServiceRestarts'
    BY <1>1 DEF EditEnv
  <2>8. OperatorsWord'
    BY <1>1 DEF EditEnv
  <2>9. UncutRepairs'
    BY <1>1 DEF EditEnv
  <2>10. UncutKnown'
    BY <1>1 DEF EditEnv
  <2> QED
    BY <2>1, <2>2, <2>3, <2>4, <2>5, <2>6, <2>7, <2>8, <2>9, <2>10
<1>2. CASE VendStart
  <2>1. FieldsOK'
    BY <1>2 DEF VendStart
  <2>2. BootsAlone'
    BY <1>2 DEF VendStart
  <2>3. BootReached'
    BY <1>2 DEF VendStart
  <2>4. InitialKept'
    BY <1>2 DEF VendStart
  <2>5. OneCommand'
    BY <1>2 DEF VendStart
  <2>6. InitialForgotten'
    BY <1>2 DEF VendStart
  <2>7. OldServiceRestarts'
    BY <1>2 DEF VendStart
  <2>8. OperatorsWord'
    BY <1>2 DEF VendStart
  <2>9. UncutRepairs'
    BY <1>2 DEF VendStart
  <2>10. UncutKnown'
    BY <1>2 DEF VendStart
  <2> QED
    BY <2>1, <2>2, <2>3, <2>4, <2>5, <2>6, <2>7, <2>8, <2>9, <2>10
<1>3. CASE Boot
  <2>1. FieldsOK'
    <3>1. disturbed' \subseteq Disturbances
      <4>1. disturbed \subseteq Disturbances
        BY DEF FieldsOK
      <4>2. disturbed' \subseteq disturbed \cup {"commandCut", "bootCut"}
        BY ONLY <1>3 DEF Boot
      <4> QED
        BY ONLY <4>1, <4>2 DEF Disturbances
    <3>2. cmd' \in [Operators -> {"idle", "pwRead", "pwWrite", "pwOwn", "pwForget", "tkRead",
                                  "tkWrite", "restart"}]
      BY ONLY <1>3 DEF Boot
    <3>3. /\ init' = "check" /\ serving' = {} /\ missed' = FALSE /\ boots' \in Nat
          /\ UNCHANGED <<config, env, shown, marker, owned, mem, commands, issued, op>>
      <4>1. boots \in Nat
        BY DEF FieldsOK
      <4> QED
        BY ONLY <1>3, <4>1 DEF Boot
    <3> QED
      BY <3>1, <3>2, <3>3 DEF FieldsOK
  <2>2. BootsAlone'
    BY <1>3 DEF Boot, Disturbances
  <2>3. BootReached'
    BY <1>3 DEF Boot, Disturbances
  <2>4. InitialKept'
    BY <1>3 DEF Boot, Disturbances
  <2>5. OneCommand'
    BY <1>3 DEF Boot, Disturbances
  <2>6. InitialForgotten'
    BY <1>3 DEF Boot, Disturbances
  <2>7. OldServiceRestarts'
    BY <1>3 DEF Boot, Disturbances
  <2>8. OperatorsWord'
    BY <1>3 DEF Boot, Disturbances
  <2>9. UncutRepairs'
    BY <1>3 DEF Boot, Disturbances
  <2>10. UncutKnown'
    BY <1>3 DEF Boot, Disturbances
  <2> QED
    BY <2>1, <2>2, <2>3, <2>4, <2>5, <2>6, <2>7, <2>8, <2>9, <2>10
<1> QED
  BY <1>1, <1>2, <1>3

LEMMA ApplianceNext == AInv /\ [Next]_vars => AInv'
<1> SUFFICES ASSUME AInv, [Next]_vars PROVE AInv'
  OBVIOUS
<1>1. CASE UNCHANGED vars
  BY <1>1 DEF vars, AInv, FieldsOK, BootsAlone, BootReached, InitialKept, OneCommand,
     InitialForgotten, OldServiceRestarts, OperatorsWord, UncutRepairs, UncutKnown, Unhashed, Usable, Quiet
<1> QED
  BY <1>1, BootKeeps, CommandKeeps, RestKeeps DEF Next

\* What a boot has reached, what a running command has read and which service
\* still checks an older password: enough to take any next step.
THEOREM ApplianceInductive == Spec => []AInv
<1> QED
  BY ApplianceInit, ApplianceNext, PTL DEF Spec

-----------------------------------------------------------------------------
\* The files, the script, the commands and the service keep their types, and at
\* most one service runs.
THEOREM ApplianceTypeCorrect == Spec => []TypeOK
<1>1. AInv => TypeOK
  <2> SUFFICES ASSUME AInv PROVE TypeOK
    OBVIOUS
  <2>1. serving \in SUBSET Nat /\ Cardinality(serving) <= 1
    <3>1. CASE serving = {}
      BY <3>1, FS_EmptySet
    <3>2. ASSUME NEW h \in Nat, serving = {h}
          PROVE  serving \in SUBSET Nat /\ Cardinality(serving) <= 1
      <4>1. Cardinality({h}) = 1
        BY FS_Singleton
      <4> QED
        BY <3>2, <4>1
    <3> QED
      BY <3>1, <3>2 DEF AInv, FieldsOK
  <2> QED
    BY <2>1 DEF AInv, FieldsOK, TypeOK, Told
<1> QED
  BY <1>1, ApplianceInductive, PTL

\* Wherever the power fails, a boot that takes the appliance for initialised
\* finds a password in its configuration, unless a write in place was torn.
THEOREM ApplianceMarkerMeansPassword == Spec => []MarkerMeansPassword
<1>1. AInv => MarkerMeansPassword
  BY DEF AInv, BootReached, Usable, MarkerMeansPassword, Without
<1> QED
  BY <1>1, ApplianceInductive, PTL

\* No boot and no later command undoes what an operator set, unless a write was
\* torn or two commands overlapped.
THEOREM ApplianceKeepsOperator == Spec => []OperatorKept
<1>1. AInv => OperatorKept
  BY DEF AInv, OperatorsWord, OperatorKept, Without
<1> QED
  BY <1>1, ApplianceInductive, PTL

\* Once booted, the configured password is the one in the initial-password file
\* or the one the operator chose last; and between commands the file, as long as
\* it is there, tells the truth.
THEOREM AppliancePasswordKnown == Spec => []PasswordKnown
<1>1. AInv => PasswordKnown
  <2> SUFFICES ASSUME AInv, init = "done", config.kind = "whole" PROVE PasswordKnown
    BY DEF PasswordKnown
  <2> USE DEF AInv, FieldsOK, BootReached, InitialKept, InitialForgotten, OperatorsWord, Usable
  <2>1. ASSUME Without({"torn", "overlap", "blank"})
        PROVE  config.hash \in {shown, op.hash} \ {0}
    <3>1. "torn" \notin disturbed /\ "overlap" \notin disturbed /\ "blank" \notin disturbed
      BY <2>1 DEF Without
    <3> QED
      BY <3>1
  <2>2. ASSUME Without({"torn", "commandCut"}), Quiet, shown # 0
        PROVE  config.hash = shown
    <3>1. "torn" \notin disturbed /\ "commandCut" \notin disturbed
      BY <2>2 DEF Without
    <3>2. op.hash = 0
      BY <2>2, <3>1 DEF Quiet
    <3> QED
      BY <3>1, <3>2
  <2> QED
    BY <2>1, <2>2 DEF PasswordKnown
<1> QED
  BY <1>1, ApplianceInductive, PTL

\* A boot that ends has made good what was torn or cut off before it, unless both
\* came together: the configuration has a password that somebody knows.
THEOREM ApplianceBootRepairs == Spec => BootRepairs
<1>1. ASSUME AInv, AInv', init # "done", init' = "done", [Next]_vars,
             ~({"torn", "bootCut"} \subseteq disturbed)
      PROVE  /\ config'.kind = "whole" /\ config'.hash # 0
             /\ Without({"overlap", "blank"}) => config'.hash \in {shown', op'.hash}
  <2>1. InitCheck \/ InitAdopt \/ InitOwn
    BY <1>1 DEF Next, InitStep, InitEnv, InitConfig, InitShown, InitHash, WriteInPlace, InitMark,
       Command, CommandStep, CommandCut, CommandRead, PasswordWrite, PasswordWriteWord, PasswordOwn,
       PasswordForget, TokenWrite, CommandRestart, EditEnv, VendStart, Boot, initVars, vars
  <2>2. config' = config /\ shown' = shown /\ op' = op /\ disturbed' = disturbed
    BY <2>1 DEF InitCheck, InitAdopt, InitOwn, cmdVars
  <2>3. "torn" \in disturbed => "bootCut" \notin disturbed
    BY <1>1
  <2>4. config.kind = "whole"
    BY <1>1, <2>1, <2>3 DEF InitCheck, InitAdopt, InitOwn, NonEmpty, AInv, BootReached, Usable, UncutRepairs
  <2>5. config.hash # 0
    BY <1>1, <2>2, <2>3, <2>4 DEF AInv, BootReached, Usable, UncutRepairs, Unhashed
  <2>6. ASSUME Without({"overlap", "blank"}) PROVE config.hash \in {shown, op.hash}
    <3>1. "overlap" \notin disturbed /\ "blank" \notin disturbed
      BY <2>6 DEF Without
    <3>2. CASE "torn" \notin disturbed
      BY <2>4, <2>5, <1>1, <3>1, <3>2 DEF AInv, InitialKept, OperatorsWord
    <3>3. CASE "bootCut" \notin disturbed
      BY <1>1, <2>2, <2>4, <3>1, <3>3 DEF AInv, UncutKnown, Unhashed
    <3> QED
      BY <2>3, <3>2, <3>3
  <2> QED
    BY <2>2, <2>4, <2>5, <2>6
<1>2. AInv /\ AInv' /\ [Next]_vars =>
        [init # "done" /\ init' = "done" /\ ~({"torn", "bootCut"} \subseteq disturbed) =>
            /\ config'.kind = "whole" /\ config'.hash # 0
            /\ Without({"overlap", "blank"}) => config'.hash \in {shown', op'.hash}]_vars
  BY <1>1
<1> QED
  BY <1>2, ApplianceInductive, PTL DEF Spec, BootRepairs

\* Between commands the service checks the configured password, whatever was
\* torn, cut off or overlapped before, unless a command that ended between its
\* write and its restart was the last to touch it.
THEOREM ApplianceServesConfigured == Spec => []ServesConfigured
<1>1. AInv => ServesConfigured
  BY DEF AInv, OldServiceRestarts, ServesConfigured, Quiet, Restarting
<1> QED
  BY <1>1, ApplianceInductive, PTL
=============================================================================
