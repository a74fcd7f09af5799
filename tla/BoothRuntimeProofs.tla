------------------------- MODULE BoothRuntimeProofs -------------------------
(***************************************************************************)
(* Proofs about BoothRuntime: type correctness, that only a start between  *)
(* the two halves of a stop can leave a second runner at work, that an     *)
(* imported config reaches the runner, and that the dashboard comes to     *)
(* rest with a state that is true.                                         *)
(***************************************************************************)
EXTENDS BoothRuntime, TLAPS

(* A command past the first half of a start holds the gate, and the runner  *)
(* the manager knows is over.                                               *)
Gated ==
  \A c \in Commands : cmd[c].at \in {"loading", "launching"} =>
    gate = c /\ ~Live(task)

(* A process that is down has neither commands nor runners.                 *)
Down ==
  ~up => /\ \A c \in Commands : cmd[c] = IdleCommand
         /\ \A r \in Runners : runner[r] = NoRunner

(* Loops outlive their task only over a bad watch directory.                *)
Tidy ==
  spent.badDirs = 0 =>
    \A r \in Runners : runner[r].loops => runner[r].phase = "running"

(* A stop waits for a runner it has cancelled.                              *)
Cancelled ==
  \A c \in Commands : cmd[c].at = "stopWait" =>
    /\ cmd[c].wait \in Runners
    /\ runner[cmd[c].wait].cancelled

(* Without an overlap a stop waits for the runner the manager knows ...     *)
Known ==
  ~overlap => \A c \in Commands : cmd[c].at = "stopWait" =>
    task \in {None, cmd[c].wait}

(* ... and a live runner nobody has cancelled is that runner.               *)
Sole ==
  ~overlap => \A r \in Runners :
    Live(r) /\ ~runner[r].cancelled => r = task

(* The inductive invariant.                                                 *)
BoothInv == TypeOK /\ Gated /\ Down /\ Tidy /\ Cancelled /\ Known /\ Sole

-----------------------------------------------------------------------------
(* Type correctness: the records commands and runners hold, then one group  *)
(* of actions at a time.                                                    *)

LEMMA IdleCommandType == IdleCommand \in CommandRecords
  BY DEF IdleCommand, CommandRecords, CommandPoints

LEMMA NoRunnerType == NoRunner \in RunnerRecords
  BY DEF NoRunner, RunnerRecords, Phases

LEMMA CommandAtType ==
  ASSUME NEW v \in CommandRecords, NEW at \in CommandPoints
  PROVE  [v EXCEPT !.at = at] \in CommandRecords
  BY DEF CommandRecords

LEMMA SetCmdType ==
  ASSUME TypeOK, NEW c \in Commands, NEW v \in CommandRecords, SetCmd(c, v)
  PROVE  cmd' \in [Commands -> CommandRecords]
  BY DEF TypeOK, SetCmd

LEMMA SetRunnerType ==
  ASSUME TypeOK, NEW r \in Runners, NEW v \in RunnerRecords, SetRunner(r, v)
  PROVE  runner' \in [Runners -> RunnerRecords]
  BY DEF TypeOK, SetRunner

LEMMA CallType ==
  ASSUME TypeOK, NEW c \in Commands, Call(c)
  PROVE  spent' \in SpentRecords
  BY BoundsAreNat DEF TypeOK, Call, SpentRecords

LEMMA InitTyped == Init => TypeOK
  <1> SUFFICES ASSUME Init PROVE TypeOK
    OBVIOUS
  <1> USE DEF Init
  <1>1. spent \in SpentRecords
    BY BoundsAreNat DEF Unspent, SpentRecords
  <1>2. cmd \in [Commands -> CommandRecords] /\ runner \in [Runners -> RunnerRecords]
    BY IdleCommandType, NoRunnerType
  <1>3. QED
    BY <1>1, <1>2 DEF TypeOK, Lifecycles

LEMMA StoppedType ==
  ASSUME TypeOK, NEW c \in Commands, Stopped(c)
  PROVE  cmd' \in [Commands -> CommandRecords]
  <1>1. [IdleCommand EXCEPT !.at = "startEnter"] \in CommandRecords
    BY IdleCommandType, CommandAtType DEF CommandPoints
  <1>2. QED
    BY <1>1, IdleCommandType, SetCmdType DEF Stopped

LEMMA OperatorTyped ==
  ASSUME TypeOK, NEW c \in Commands, Operator(c)
  PROVE  TypeOK'
  <1> USE DEF TypeOK, history
  <1>1. CASE StartCall(c)
    <2>1. [IdleCommand EXCEPT !.at = "startEnter"] \in CommandRecords
      BY IdleCommandType, CommandAtType DEF CommandPoints
    <2>2. QED
      BY <1>1, <2>1, CallType, SetCmdType DEF StartCall
  <1>2. CASE StopCall(c)
    <2>1. [IdleCommand EXCEPT !.at = "stopEnter"] \in CommandRecords
      BY IdleCommandType, CommandAtType DEF CommandPoints
    <2>2. QED
      BY <1>2, <2>1, CallType, SetCmdType DEF StopCall
  <1>3. ASSUME NEW cfg \in Configs, NEW restart \in BOOLEAN,
               ImportCall(c, cfg, restart)
        PROVE  TypeOK'
    <2>1. [IdleCommand EXCEPT !.at = "saving", !.cfg = cfg, !.restart = restart]
            \in CommandRecords
      BY IdleCommandType DEF CommandRecords, CommandPoints
    <2>2. QED
      BY <1>3, <2>1, CallType, SetCmdType DEF ImportCall
  <1>4. QED
    BY <1>1, <1>2, <1>3 DEF Operator

LEMMA StopTyped ==
  ASSUME TypeOK, NEW c \in Commands,
         ImportSaved(c) \/ StopEnter(c) \/ StopFinish(c) \/ CommandCut(c)
  PROVE  TypeOK'
  <1> USE DEF TypeOK, history
  <1>1. CASE ImportSaved(c)
    <2>1. [cmd[c] EXCEPT !.at = "stopEnter"] \in CommandRecords
      BY CommandAtType DEF CommandPoints
    <2>2. cmd[c].cfg \in Configs \cup {NoFile} /\ cmd[c].restart \in BOOLEAN
      BY DEF CommandRecords
    <2>3. behind' \in BOOLEAN /\ disk' \in Configs \cup {NoFile, Torn}
      BY <1>1, <2>2 DEF ImportSaved
    <2>4. QED
      BY <1>1, <2>1, <2>3, IdleCommandType, SetCmdType DEF ImportSaved
  <1>2. CASE StopEnter(c)
    <2>1. CASE Live(task)
      <3>1. task \in Runners
        BY <2>1 DEF Live
      <3>2. [runner[task] EXCEPT !.cancelled = TRUE] \in RunnerRecords
        BY <3>1 DEF RunnerRecords
      <3>3. [cmd[c] EXCEPT !.at = "stopWait", !.wait = task] \in CommandRecords
        BY DEF CommandRecords, CommandPoints
      <3>4. QED
        BY <1>2, <2>1, <3>1, <3>2, <3>3, SetCmdType, SetRunnerType
        DEF StopEnter, Lifecycles
    <2>2. CASE ~Live(task)
      BY <1>2, <2>2, StoppedType DEF StopEnter, Lifecycles
    <2>3. QED
      BY <2>1, <2>2
  <1>3. CASE StopFinish(c)
    BY <1>3, StoppedType DEF StopFinish, Lifecycles
  <1>4. CASE CommandCut(c)
    <2>1. spent' \in SpentRecords
      BY <1>4, BoundsAreNat DEF CommandCut, SpentRecords
    <2>2. QED
      BY <1>4, <2>1, IdleCommandType, SetCmdType DEF CommandCut
  <1>5. QED
    BY <1>1, <1>2, <1>3, <1>4

LEMMA StartTyped ==
  ASSUME TypeOK, NEW c \in Commands,
         \/ StartEnter(c) \/ StartLoad(c) \/ StartLoadFails(c)
         \/ \E r \in Runners : StartLaunch(c, r)
  PROVE  TypeOK'
  <1> USE DEF TypeOK, history
  <1>1. CASE StartEnter(c)
    <2>1. [cmd[c] EXCEPT !.at = "loading"] \in CommandRecords
      BY CommandAtType DEF CommandPoints
    <2>2. QED
      BY <1>1, <2>1, IdleCommandType, SetCmdType DEF StartEnter
  <1>2. CASE StartLoad(c)
    <2>1. [cmd[c] EXCEPT !.at = "launching", !.cfg = disk] \in CommandRecords
      BY <1>2 DEF StartLoad, CommandRecords, CommandPoints
    <2>2. QED
      BY <1>2, <2>1, SetCmdType DEF StartLoad
  <1>3. CASE StartLoadFails(c)
    BY <1>3, IdleCommandType, SetCmdType DEF StartLoadFails
  <1>4. ASSUME NEW r \in Runners, StartLaunch(c, r) PROVE TypeOK'
    <2>1. [NoRunner EXCEPT !.phase = "launched", !.cfg = cmd[c].cfg]
            \in RunnerRecords
      BY NoRunnerType DEF RunnerRecords, CommandRecords, Phases
    <2>2. overlap' \in BOOLEAN
      BY <1>4 DEF StartLaunch, StopWaiting
    <2>3. QED
      BY <1>4, <2>1, <2>2, IdleCommandType, SetCmdType, SetRunnerType
      DEF StartLaunch, Lifecycles
  <1>5. QED
    BY <1>1, <1>2, <1>3, <1>4

LEMMA RunnerAtType ==
  ASSUME NEW v \in RunnerRecords, NEW phase \in Phases, NEW loops \in BOOLEAN
  PROVE  /\ [v EXCEPT !.phase = phase] \in RunnerRecords
         /\ [v EXCEPT !.loops = loops] \in RunnerRecords
         /\ [v EXCEPT !.phase = phase, !.loops = loops] \in RunnerRecords
  BY DEF RunnerRecords

LEMMA RunnerTyped ==
  ASSUME TypeOK, NEW r \in Runners, RunnerStep(r) \/ RunnerBadDirectory(r)
  PROVE  TypeOK'
  <1> USE DEF TypeOK, history, Phases, Lifecycles
  <1>1. CASE RunnerBegin(r)
    BY <1>1, RunnerAtType, SetRunnerType DEF RunnerBegin
  <1>2. CASE RunnerConnect(r)
    BY <1>2, RunnerAtType, SetRunnerType DEF RunnerConnect
  <1>3. CASE RunnerConnectFails(r)
    BY <1>3, RunnerAtType, SetRunnerType DEF RunnerConnectFails
  <1>4. CASE RunnerUnwind(r)
    BY <1>4, RunnerAtType, SetRunnerType DEF RunnerUnwind
  <1>5. CASE RunnerStopped(r)
    BY <1>5, RunnerAtType, SetRunnerType DEF RunnerStopped
  <1>6. CASE RunnerComplete(r)
    BY <1>6, RunnerAtType, SetRunnerType DEF RunnerComplete
  <1>7. CASE RunnerBadDirectory(r)
    <2>1. spent' \in SpentRecords
      BY <1>7, BoundsAreNat DEF RunnerBadDirectory, SpentRecords
    <2>2. (~runner[r].cancelled) \in BOOLEAN
      BY DEF RunnerRecords
    <2>3. QED
      BY <1>7, <2>1, <2>2, RunnerAtType, SetRunnerType DEF RunnerBadDirectory
  <1>9. QED
    BY <1>1, <1>2, <1>3, <1>4, <1>5, <1>6, <1>7 DEF RunnerStep

LEMMA ProcessTyped ==
  ASSUME TypeOK, Crash \/ Boot
  PROVE  TypeOK'
  <1> USE DEF TypeOK, history
  <1>1. CASE Crash
    <2>1. spent' \in SpentRecords
      BY <1>1, BoundsAreNat DEF Crash, SpentRecords
    <2>2. QED
      BY <1>1, <2>1, IdleCommandType, NoRunnerType DEF Crash, Lifecycles
  <1>2. CASE Boot
    <2>1. CASE disk = NoFile
      BY <1>2, <2>1 DEF Boot
    <2>2. CASE disk # NoFile
      <3>1. [NoRunner EXCEPT !.phase = "launched", !.cfg = disk] \in RunnerRecords
        BY <1>2, <2>2, NoRunnerType DEF Boot, RunnerRecords, Phases
      <3>2. QED
        BY <1>2, <2>2, <3>1, SetRunnerType DEF Boot, Lifecycles
    <2>3. QED
      BY <2>1, <2>2
  <1>3. QED
    BY <1>1, <1>2

LEMMA NextTyped == TypeOK /\ [Next]_vars => TypeOK'
  <1> SUFFICES ASSUME TypeOK, [Next]_vars PROVE TypeOK'
    OBVIOUS
  <1>1. CASE UNCHANGED vars
    BY <1>1 DEF TypeOK, vars, history
  <1>2. CASE Next
    BY <1>2, OperatorTyped, StopTyped, StartTyped, RunnerTyped, ProcessTyped
    DEF Next, CommandStep
  <1>3. QED
    BY <1>1, <1>2

(* Type correctness of the runtime manager for any number of commands,      *)
(* runners and configs: among the rest, only a config that was read whole   *)
(* reaches a runner.                                                        *)
THEOREM BoothTypeCorrect == Spec => []TypeOK
  <1>1. QED
    BY InitTyped, NextTyped, PTL DEF Spec

-----------------------------------------------------------------------------
(* Steps that end or advance one runner and touch nothing else.             *)
RunnerEffect(r, n) ==
  /\ up /\ up' /\ UNCHANGED <<gate, task, cmd, overlap>>
  /\ runner' = [runner EXCEPT ![r] = n]
  /\ n.cancelled = runner[r].cancelled
  /\ n.phase \notin {"none", "done"} => Live(r)
  /\ spent'.badDirs = 0 =>
       spent.badDirs = 0 /\ (n.loops => n.phase = "running")

(* Steps of a command that touch no runner and do not end a stop.           *)
CommandEffect(c, rec) ==
  /\ up /\ up' /\ UNCHANGED <<task, runner, overlap>>
  /\ spent'.badDirs = spent.badDirs
  /\ cmd' = [cmd EXCEPT ![c] = rec]
  /\ rec.at # "stopWait"
  /\ rec.at \in {"loading", "launching"} => gate' = c /\ ~Live(task)
  /\ gate' = gate \/ gate \in {None, c}

(* Facts in the form the effects of a step are read in.                     *)
LEMMA RunnerStepEffect ==
  ASSUME TypeOK, Tidy, NEW r \in Runners,
         RunnerStep(r) \/ RunnerBadDirectory(r)
  PROVE  \E n \in RunnerRecords : RunnerEffect(r, n)
  <1> USE DEF TypeOK, history, Phases, SetRunner, RunnerEffect, Live, Tidy
  <1> r # None /\ runner[r] \in RunnerRecords
    BY Distinct
  <1>1. CASE RunnerBegin(r)
    <2> DEFINE n == [runner[r] EXCEPT !.phase = "connecting"]
    <2>1. n \in RunnerRecords /\ runner' = [runner EXCEPT ![r] = n]
      BY <1>1, RunnerAtType DEF RunnerBegin
    <2>2. /\ n.cancelled = runner[r].cancelled
          /\ n.phase \notin {"none", "done"} => Live(r)
          /\ spent.badDirs = 0 /\ n.loops => n.phase = "running"
      BY <1>1 DEF RunnerBegin, RunnerRecords
    <2>3. QED
      BY <1>1, <2>1, <2>2 DEF RunnerBegin
  <1>2. CASE RunnerConnect(r)
    <2> DEFINE n == [runner[r] EXCEPT !.phase = "running", !.loops = TRUE]
    <2>1. n \in RunnerRecords /\ runner' = [runner EXCEPT ![r] = n]
      BY <1>2, RunnerAtType DEF RunnerConnect
    <2>2. /\ n.cancelled = runner[r].cancelled
          /\ n.phase \notin {"none", "done"} => Live(r)
          /\ spent.badDirs = 0 /\ n.loops => n.phase = "running"
      BY <1>2 DEF RunnerConnect, RunnerRecords
    <2>3. QED
      BY <1>2, <2>1, <2>2 DEF RunnerConnect
  <1>3. CASE RunnerConnectFails(r)
    <2> DEFINE n == [runner[r] EXCEPT !.phase = "closing"]
    <2>1. n \in RunnerRecords /\ runner' = [runner EXCEPT ![r] = n]
      BY <1>3, RunnerAtType DEF RunnerConnectFails
    <2>2. /\ n.cancelled = runner[r].cancelled
          /\ n.phase \notin {"none", "done"} => Live(r)
          /\ spent.badDirs = 0 /\ n.loops => n.phase = "running"
      BY <1>3 DEF RunnerConnectFails, RunnerRecords
    <2>3. QED
      BY <1>3, <2>1, <2>2 DEF RunnerConnectFails
  <1>4. CASE RunnerUnwind(r)
    <2> DEFINE n == [runner[r] EXCEPT !.phase = "unwinding", !.loops = FALSE]
    <2>1. n \in RunnerRecords /\ runner' = [runner EXCEPT ![r] = n]
      BY <1>4, RunnerAtType DEF RunnerUnwind
    <2>2. /\ n.cancelled = runner[r].cancelled
          /\ n.phase \notin {"none", "done"} => Live(r)
          /\ spent.badDirs = 0 /\ n.loops => n.phase = "running"
      BY <1>4 DEF RunnerUnwind, RunnerRecords
    <2>3. QED
      BY <1>4, <2>1, <2>2 DEF RunnerUnwind
  <1>5. CASE RunnerStopped(r)
    <2> DEFINE n == [runner[r] EXCEPT !.phase = "closing"]
    <2>1. n \in RunnerRecords /\ runner' = [runner EXCEPT ![r] = n]
      BY <1>5, RunnerAtType DEF RunnerStopped
    <2>2. /\ n.cancelled = runner[r].cancelled
          /\ n.phase \notin {"none", "done"} => Live(r)
          /\ spent.badDirs = 0 /\ n.loops => n.phase = "running"
      BY <1>5 DEF RunnerStopped, RunnerRecords
    <2>3. QED
      BY <1>5, <2>1, <2>2 DEF RunnerStopped
  <1>6. CASE RunnerComplete(r)
    <2> DEFINE n == [runner[r] EXCEPT !.phase = "done"]
    <2>1. n \in RunnerRecords /\ runner' = [runner EXCEPT ![r] = n]
      BY <1>6, RunnerAtType DEF RunnerComplete
    <2>2. /\ n.cancelled = runner[r].cancelled
          /\ n.phase \notin {"none", "done"} => Live(r)
          /\ spent.badDirs = 0 /\ n.loops => n.phase = "running"
      BY <1>6 DEF RunnerComplete, RunnerRecords
    <2>3. QED
      BY <1>6, <2>1, <2>2 DEF RunnerComplete
  <1>7. CASE RunnerBadDirectory(r)
    <2> DEFINE n == [runner[r] EXCEPT !.phase = "closing", !.loops = ~runner[r].cancelled]
    <2>1. n \in RunnerRecords /\ runner' = [runner EXCEPT ![r] = n]
      BY <1>7, RunnerAtType DEF RunnerBadDirectory
    <2>2. spent'.badDirs # 0
      BY <1>7, BoundsAreNat DEF RunnerBadDirectory, SpentRecords
    <2>3. n.cancelled = runner[r].cancelled /\ Live(r)
      BY <1>7 DEF RunnerBadDirectory, RunnerRecords
    <2>4. up /\ up' /\ UNCHANGED <<gate, task, cmd, overlap>>
      BY <1>7 DEF RunnerBadDirectory
    <2>5. RunnerEffect(r, n)
      BY <2>1, <2>2, <2>3, <2>4
    <2>6. QED
      BY <2>1, <2>5
  <1>9. QED
    BY <1>1, <1>2, <1>3, <1>4, <1>5, <1>6, <1>7 DEF RunnerStep

LEMMA CommandStepEffect ==
  ASSUME TypeOK, NEW c \in Commands,
         \/ Operator(c) \/ ImportSaved(c) \/ CommandCut(c)
         \/ StartEnter(c) \/ StartLoad(c) \/ StartLoadFails(c)
         \/ StopEnter(c) /\ ~Live(task),
         Gated
  PROVE  \E rec \in CommandRecords : CommandEffect(c, rec)
  <1> USE DEF TypeOK, history, SetCmd, CommandEffect
  <1> cmd[c] \in CommandRecords
    OBVIOUS
  <1>1. CASE StartCall(c)
    <2> DEFINE rec == [IdleCommand EXCEPT !.at = "startEnter"]
    <2>1. rec \in CommandRecords
      BY <1>1, IdleCommandType DEF StartCall, Call, CommandRecords, CommandPoints
    <2>2. /\ rec.at # "stopWait"
          /\ rec.at \in {"loading", "launching"} => gate' = c /\ ~Live(task)
      BY <1>1 DEF StartCall, Call, IdleCommand, CommandRecords
    <2>3. spent'.badDirs = spent.badDirs
      BY <1>1 DEF StartCall, Call, SpentRecords
    <2>4. gate' = gate \/ gate \in {None, c}
      BY <1>1 DEF StartCall, Call
    <2>5. QED
      BY <1>1, <2>1, <2>2, <2>3, <2>4 DEF StartCall, Call
  <1>2. CASE StopCall(c)
    <2> DEFINE rec == [IdleCommand EXCEPT !.at = "stopEnter"]
    <2>1. rec \in CommandRecords
      BY <1>2, IdleCommandType DEF StopCall, Call, CommandRecords, CommandPoints
    <2>2. /\ rec.at # "stopWait"
          /\ rec.at \in {"loading", "launching"} => gate' = c /\ ~Live(task)
      BY <1>2 DEF StopCall, Call, IdleCommand, CommandRecords
    <2>3. spent'.badDirs = spent.badDirs
      BY <1>2 DEF StopCall, Call, SpentRecords
    <2>4. gate' = gate \/ gate \in {None, c}
      BY <1>2 DEF StopCall, Call
    <2>5. QED
      BY <1>2, <2>1, <2>2, <2>3, <2>4 DEF StopCall, Call
  <1>3. ASSUME NEW cfg \in Configs, NEW restart \in BOOLEAN,
               ImportCall(c, cfg, restart)
        PROVE  \E rec \in CommandRecords : CommandEffect(c, rec)
    <2> DEFINE rec == [IdleCommand EXCEPT !.at = "saving", !.cfg = cfg, !.restart = restart]
    <2>1. rec \in CommandRecords
      BY <1>3, IdleCommandType DEF ImportCall, Call, CommandRecords, CommandPoints
    <2>2. /\ rec.at # "stopWait"
          /\ rec.at \in {"loading", "launching"} => gate' = c /\ ~Live(task)
      BY <1>3 DEF ImportCall, Call, IdleCommand, CommandRecords
    <2>3. spent'.badDirs = spent.badDirs
      BY <1>3 DEF ImportCall, Call, SpentRecords
    <2>4. gate' = gate \/ gate \in {None, c}
      BY <1>3 DEF ImportCall, Call
    <2>5. QED
      BY <1>3, <2>1, <2>2, <2>3, <2>4 DEF ImportCall, Call
  <1>4. CASE ImportSaved(c)
    <2> DEFINE rec == IF cmd[c].restart THEN [cmd[c] EXCEPT !.at = "stopEnter"] ELSE IdleCommand
    <2>1. rec \in CommandRecords
      BY <1>4, IdleCommandType DEF ImportSaved, CommandRecords, CommandPoints
    <2>2. /\ rec.at # "stopWait"
          /\ rec.at \in {"loading", "launching"} => gate' = c /\ ~Live(task)
      BY <1>4 DEF ImportSaved, IdleCommand, CommandRecords
    <2>3. spent'.badDirs = spent.badDirs
      BY <1>4 DEF ImportSaved, SpentRecords
    <2>4. gate' = gate \/ gate \in {None, c}
      BY <1>4 DEF ImportSaved
    <2>5. QED
      BY <1>4, <2>1, <2>2, <2>3, <2>4 DEF ImportSaved
  <1>5. CASE CommandCut(c)
    <2> DEFINE rec == IdleCommand
    <2>1. rec \in CommandRecords
      BY <1>5, IdleCommandType DEF CommandCut, CommandRecords, CommandPoints
    <2>2. /\ rec.at # "stopWait"
          /\ rec.at \in {"loading", "launching"} => gate' = c /\ ~Live(task)
      BY <1>5 DEF CommandCut, IdleCommand, CommandRecords
    <2>3. spent'.badDirs = spent.badDirs
      BY <1>5 DEF CommandCut, SpentRecords
    <2>4. gate' = gate \/ gate \in {None, c}
      BY <1>5 DEF CommandCut
    <2>5. QED
      BY <1>5, <2>1, <2>2, <2>3, <2>4 DEF CommandCut
  <1>6. CASE StartEnter(c)
    <2> DEFINE rec == IF Live(task) THEN IdleCommand ELSE [cmd[c] EXCEPT !.at = "loading"]
    <2>1. rec \in CommandRecords
      BY <1>6, IdleCommandType DEF StartEnter, CommandRecords, CommandPoints
    <2>2. /\ rec.at # "stopWait"
          /\ rec.at \in {"loading", "launching"} => gate' = c /\ ~Live(task)
      BY <1>6 DEF StartEnter, IdleCommand, CommandRecords
    <2>3. spent'.badDirs = spent.badDirs
      BY <1>6 DEF StartEnter, SpentRecords
    <2>4. gate' = gate \/ gate \in {None, c}
      BY <1>6 DEF StartEnter
    <2>5. QED
      BY <1>6, <2>1, <2>2, <2>3, <2>4 DEF StartEnter
  <1>7. CASE StartLoad(c)
    <2> DEFINE rec == [cmd[c] EXCEPT !.at = "launching", !.cfg = disk]
    <2>1. rec \in CommandRecords
      BY <1>7, IdleCommandType DEF StartLoad, CommandRecords, CommandPoints
    <2>2. /\ rec.at # "stopWait"
          /\ rec.at \in {"loading", "launching"} => gate' = c /\ ~Live(task)
      BY <1>7 DEF StartLoad, IdleCommand, CommandRecords, Gated
    <2>3. spent'.badDirs = spent.badDirs
      BY <1>7 DEF StartLoad, SpentRecords
    <2>4. gate' = gate \/ gate \in {None, c}
      BY <1>7 DEF StartLoad, Gated
    <2>5. QED
      BY <1>7, <2>1, <2>2, <2>3, <2>4 DEF StartLoad
  <1>8. CASE StartLoadFails(c)
    <2> DEFINE rec == IdleCommand
    <2>1. rec \in CommandRecords
      BY <1>8, IdleCommandType DEF StartLoadFails, CommandRecords, CommandPoints
    <2>2. /\ rec.at # "stopWait"
          /\ rec.at \in {"loading", "launching"} => gate' = c /\ ~Live(task)
      BY <1>8 DEF StartLoadFails, IdleCommand, CommandRecords, Gated
    <2>3. spent'.badDirs = spent.badDirs
      BY <1>8 DEF StartLoadFails, SpentRecords
    <2>4. gate' = gate \/ gate \in {None, c}
      BY <1>8 DEF StartLoadFails, Gated
    <2>5. QED
      BY <1>8, <2>1, <2>2, <2>3, <2>4 DEF StartLoadFails
  <1>9. CASE StopEnter(c) /\ ~Live(task)
    <2> DEFINE rec == IF cmd[c].restart THEN [IdleCommand EXCEPT !.at = "startEnter"] ELSE IdleCommand
    <2>1. rec \in CommandRecords
      BY <1>9, IdleCommandType DEF StopEnter, Stopped, CommandRecords, CommandPoints
    <2>2. /\ rec.at # "stopWait"
          /\ rec.at \in {"loading", "launching"} => gate' = c /\ ~Live(task)
      BY <1>9 DEF StopEnter, Stopped, IdleCommand, CommandRecords
    <2>3. spent'.badDirs = spent.badDirs
      BY <1>9 DEF StopEnter, Stopped, SpentRecords
    <2>4. gate' = gate \/ gate \in {None, c}
      BY <1>9 DEF StopEnter, Stopped
    <2>5. QED
      BY <1>9, <2>1, <2>2, <2>3, <2>4 DEF StopEnter, Stopped
  <1>10. QED
    BY <1>1, <1>2, <1>3, <1>4, <1>5, <1>6, <1>7, <1>8, <1>9 DEF Operator

-----------------------------------------------------------------------------
(* The inductive invariant is kept, one kind of step at a time.             *)

BoothRest == Gated /\ Down /\ Tidy /\ Cancelled /\ Known /\ Sole

LEMMA InitBooth == Init => BoothRest
  BY Distinct DEF Init, BoothRest, Gated, Down, Tidy, Cancelled, Known, Sole,
     Live, IdleCommand, NoRunner

LEMMA RunnerKeeps ==
  ASSUME TypeOK, BoothRest, NEW r \in Runners, NEW n \in RunnerRecords,
         RunnerEffect(r, n)
  PROVE  BoothRest'
  <1> USE DEF RunnerEffect, BoothRest
  <1> r # None /\ runner \in [Runners -> RunnerRecords]
    BY Distinct DEF TypeOK
  <1>1. \A s \in Runners : /\ runner'[s].cancelled = runner[s].cancelled
                           /\ Live(s)' => Live(s)
    BY DEF Live
  <1>2. ~Live(task) => ~Live(task)'
    BY <1>1 DEF Live, TypeOK
  <1>3. Gated'
    BY <1>2 DEF Gated
  <1>4. Down'
    BY DEF Down
  <1>5. Tidy'
    BY DEF Tidy
  <1>6. Cancelled'
    BY <1>1 DEF Cancelled
  <1>7. Known'
    BY DEF Known
  <1>8. Sole'
    BY <1>1 DEF Sole
  <1>9. QED
    BY <1>3, <1>4, <1>5, <1>6, <1>7, <1>8

LEMMA CommandKeeps ==
  ASSUME TypeOK, BoothRest, NEW c \in Commands, NEW rec \in CommandRecords,
         CommandEffect(c, rec)
  PROVE  BoothRest'
  <1> USE DEF CommandEffect, BoothRest
  <1> c # None /\ cmd \in [Commands -> CommandRecords]
    BY Distinct DEF TypeOK
  <1>1. \A d \in Commands : cmd'[d] = IF d = c THEN rec ELSE cmd[d]
    OBVIOUS
  <1>2. \A s : Live(s)' <=> Live(s)
    BY DEF Live
  <1>3. Gated'
    BY <1>1, <1>2, Distinct DEF Gated
  <1>4. Down'
    BY DEF Down
  <1>5. Tidy'
    BY DEF Tidy
  <1>6. Cancelled'
    BY <1>1 DEF Cancelled
  <1>7. Known'
    BY <1>1 DEF Known
  <1>8. Sole'
    BY <1>2 DEF Sole
  <1>9. QED
    BY <1>3, <1>4, <1>5, <1>6, <1>7, <1>8

(* The first half of a stop cancels the runner it is going to wait for.     *)
LEMMA StopEnterKeeps ==
  ASSUME TypeOK, BoothRest, NEW c \in Commands, StopEnter(c), Live(task)
  PROVE  BoothRest'
  <1> USE DEF BoothRest, StopEnter, SetCmd, SetRunner, history
  <1> DEFINE rec == [cmd[c] EXCEPT !.at = "stopWait", !.wait = task]
             n == [runner[task] EXCEPT !.cancelled = TRUE]
  <1>1. task \in Runners /\ task # None
    BY DEF Live, TypeOK
  <1>2. /\ cmd \in [Commands -> CommandRecords]
        /\ runner \in [Runners -> RunnerRecords]
    BY DEF TypeOK
  <1>3. \A d \in Commands : cmd'[d] = IF d = c THEN rec ELSE cmd[d]
    BY <1>2
  <1>4. \A s \in Runners : runner'[s] = IF s = task THEN n ELSE runner[s]
    BY <1>1, <1>2
  <1>5. rec.at = "stopWait" /\ rec.wait = task /\ n.cancelled
    BY <1>1, <1>2 DEF CommandRecords, RunnerRecords
  <1>6. n.phase = runner[task].phase /\ n.loops = runner[task].loops
    BY <1>1, <1>2 DEF RunnerRecords
  <1>7. \A s \in Runners : Live(s)' <=> Live(s)
    BY <1>4, <1>6 DEF Live
  <1>8. Gated'
    BY <1>1, <1>3, <1>5, <1>7 DEF Gated
  <1>9. Down' /\ Tidy'
    BY <1>4, <1>6 DEF Down, Tidy
  <1>10. Cancelled'
    <2> SUFFICES ASSUME NEW d \in Commands, cmd'[d].at = "stopWait"
                 PROVE  cmd'[d].wait \in Runners /\ runner'[cmd'[d].wait].cancelled
      BY DEF Cancelled
    <2>1. CASE d = c
      <3>1. cmd'[d].wait = task /\ runner'[task] = n
        BY <1>1, <1>3, <1>4, <1>5, <2>1
      <3>2. QED
        BY <1>1, <1>5, <3>1
    <2>2. CASE d # c
      <3>1. cmd'[d] = cmd[d]
        BY <1>3, <2>2
      <3>2. cmd[d].wait \in Runners /\ runner[cmd[d].wait].cancelled
        BY <3>1 DEF Cancelled
      <3>3. QED
        BY <1>4, <1>5, <3>1, <3>2
    <2>3. QED
      BY <2>1, <2>2
  <1>11. Known'
    BY <1>1, <1>3, <1>5 DEF Known
  <1>12. Sole'
    BY <1>4, <1>5, <1>7 DEF Sole
  <1>13. QED
    BY <1>8, <1>9, <1>10, <1>11, <1>12

(* The second half forgets the runner the manager knows: without an overlap *)
(* it is the one that was waited for.                                       *)
LEMMA StopFinishKeeps ==
  ASSUME TypeOK, BoothRest, NEW c \in Commands, StopFinish(c)
  PROVE  BoothRest'
  <1> USE DEF BoothRest, StopFinish, Stopped, SetCmd, history
  <1> DEFINE rec == IF cmd[c].restart
                      THEN [IdleCommand EXCEPT !.at = "startEnter"]
                      ELSE IdleCommand
  <1>1. \A d \in Commands : cmd'[d] = IF d = c THEN rec ELSE cmd[d]
    BY DEF TypeOK
  <1>2. rec.at \in {"startEnter", "idle"}
    BY DEF IdleCommand
  <1>3. \A s : Live(s)' <=> Live(s)
    BY DEF Live
  <1>4. ~overlap => ~Live(task)
    BY DEF Known, Live
  <1>5. Gated'
    BY <1>1, <1>2, Distinct DEF Gated, Live
  <1>6. Down' /\ Tidy'
    BY DEF Down, Tidy
  <1>7. Cancelled'
    BY <1>1, <1>2 DEF Cancelled
  <1>8. Known'
    BY <1>1, <1>2 DEF Known
  <1>9. Sole'
    BY <1>3, <1>4 DEF Sole
  <1>10. QED
    BY <1>5, <1>6, <1>7, <1>8, <1>9

(* A launch under the gate: the runner before it is over, and unless a stop *)
(* is waiting nobody's handle is replaced.                                  *)
LEMMA LaunchKeeps ==
  ASSUME TypeOK, BoothRest, NEW c \in Commands, NEW r \in Runners,
         StartLaunch(c, r)
  PROVE  BoothRest'
  <1> USE DEF BoothRest, StartLaunch, SetCmd, SetRunner
  <1> DEFINE n == [NoRunner EXCEPT !.phase = "launched", !.cfg = cmd[c].cfg]
  <1>1. \A d \in Commands : cmd'[d] = IF d = c THEN IdleCommand ELSE cmd[d]
    BY DEF TypeOK
  <1>2. \A s \in Runners : runner'[s] = IF s = r THEN n ELSE runner[s]
    BY DEF TypeOK
  <1>3. n.phase = "launched" /\ ~n.cancelled /\ ~n.loops
    BY DEF NoRunner
  <1>4. gate = c /\ ~Live(task)
    BY DEF Gated
  <1>5. \A d \in Commands : d # c => cmd[d].at \notin {"loading", "launching"}
    BY <1>4 DEF Gated
  <1>6. Gated'
    BY <1>1, <1>5 DEF Gated, IdleCommand
  <1>7. Down'
    BY DEF Down
  <1>8. Tidy'
    BY <1>2, <1>3 DEF Tidy
  <1>9. Cancelled'
    BY <1>1, <1>2 DEF Cancelled, IdleCommand, Fresh
  <1>10. Known'
    <2>1. StopWaiting => overlap'
      OBVIOUS
    <2>2. QED
      BY <1>1, <2>1 DEF Known, IdleCommand, StopWaiting
  <1>11. \A s \in Runners : s # r => (Live(s)' <=> Live(s))
    BY <1>2 DEF Live
  <1>12. Sole'
    BY <1>2, <1>4, <1>11 DEF Sole
  <1>13. QED
    BY <1>6, <1>7, <1>8, <1>9, <1>10, <1>12

LEMMA ProcessKeeps ==
  ASSUME TypeOK, BoothRest, Crash \/ Boot
  PROVE  BoothRest'
  <1> USE DEF BoothRest
  <1>1. CASE Crash
    BY <1>1, Distinct DEF Crash, Gated, Down, Tidy, Cancelled, Known, Sole,
       Live, IdleCommand, NoRunner
  <1>2. CASE Boot /\ disk = NoFile
    BY <1>2, Distinct DEF Boot, Gated, Down, Tidy, Cancelled, Known, Sole,
       Live, IdleCommand, NoRunner, history
  <1>3. CASE Boot /\ disk # NoFile
    <2>1. PICK r \in Runners :
            /\ task' = r
            /\ SetRunner(r, [NoRunner EXCEPT !.phase = "launched", !.cfg = disk])
      BY <1>3 DEF Boot
    <2>2. \A s \in Runners : s # r => runner'[s] = NoRunner
      BY <1>3, <2>1 DEF Boot, SetRunner, TypeOK, Down
    <2>3. runner'[r] = [NoRunner EXCEPT !.phase = "launched", !.cfg = disk]
      BY <2>1 DEF SetRunner, TypeOK
    <2>4. \A c \in Commands : cmd'[c].at = "idle"
      BY <1>3 DEF Boot, Down, IdleCommand
    <2>5. Gated' /\ Cancelled' /\ Known' /\ Down'
      BY <1>3, <2>4 DEF Boot, Gated, Cancelled, Known, Down
    <2>6. Tidy'
      BY <2>2, <2>3 DEF Tidy, NoRunner
    <2>7. Sole'
      BY <2>1, <2>2 DEF Sole, Live, NoRunner
    <2>8. QED
      BY <2>5, <2>6, <2>7
  <1>4. QED
    BY <1>1, <1>2, <1>3

LEMMA NextKeeps == BoothInv /\ [Next]_vars => BoothInv'
  <1> SUFFICES ASSUME BoothInv, [Next]_vars PROVE BoothInv'
    OBVIOUS
  <1> TypeOK /\ BoothRest /\ Tidy /\ Gated
    BY DEF BoothInv, BoothRest
  <1>1. TypeOK'
    BY NextTyped
  <1>2. ASSUME UNCHANGED vars PROVE BoothRest'
    <2>1. \A s : Live(s)' <=> Live(s)
      BY <1>2 DEF vars, Live
    <2>2. Gated' /\ Sole'
      BY <1>2, <2>1 DEF vars, history, BoothRest, Gated, Sole
    <2>3. Down' /\ Tidy' /\ Cancelled' /\ Known'
      BY <1>2 DEF vars, history, BoothRest, Down, Tidy, Cancelled, Known
    <2>4. QED
      BY <2>2, <2>3 DEF BoothRest
  <1>3. ASSUME NEW c \in Commands, Operator(c) \/ CommandStep(c) \/ CommandCut(c)
        PROVE  BoothRest'
    <2>1. CASE StopEnter(c) /\ Live(task)
      BY <2>1, StopEnterKeeps
    <2>2. CASE StopFinish(c)
      BY <2>2, StopFinishKeeps
    <2>3. CASE \E r \in Runners : StartLaunch(c, r)
      BY <2>3, LaunchKeeps
    <2>4. CASE \/ Operator(c) \/ ImportSaved(c) \/ CommandCut(c)
               \/ StartEnter(c) \/ StartLoad(c) \/ StartLoadFails(c)
               \/ StopEnter(c) /\ ~Live(task)
      BY <2>4, CommandStepEffect, CommandKeeps
    <2>5. QED
      BY <1>3, <2>1, <2>2, <2>3, <2>4 DEF CommandStep
  <1>4. ASSUME NEW r \in Runners, RunnerStep(r) \/ RunnerBadDirectory(r)
        PROVE  BoothRest'
    BY <1>4, RunnerStepEffect, RunnerKeeps
  <1>5. ASSUME Crash \/ Boot PROVE BoothRest'
    BY <1>5, ProcessKeeps
  <1>6. BoothRest'
    BY <1>2, <1>3, <1>4, <1>5 DEF Next
  <1>7. QED
    BY <1>1, <1>6 DEF BoothInv, BoothRest

LEMMA BoothOneRunner == BoothInv => OneRunner
  <1> SUFFICES ASSUME BoothInv, ~overlap, spent.badDirs = 0,
                      NEW r \in Runners, Working(r)
               PROVE  r = task
    BY DEF OneRunner
  <1>1. Live(r) /\ ~runner[r].cancelled
    BY Distinct DEF BoothInv, Working, Tidy, Live
  <1>2. QED
    BY <1>1 DEF BoothInv, Sole

(* However starts, stops, imports, cut requests, failing runners and        *)
(* crashes interleave: unless a start came between the two halves of a stop *)
(* or a runner lost its loops over a bad watch directory, every runner at   *)
(* work is the one the manager can stop.                                    *)
THEOREM OneRunnerAtWork == Spec => []OneRunner
  <1>1. Init => BoothInv
    BY InitTyped, InitBooth DEF BoothInv, BoothRest
  <1>2. QED
    BY <1>1, NextKeeps, BoothOneRunner, PTL DEF Spec

-----------------------------------------------------------------------------
(* What an import is still going to change: the file is being written or    *)
(* was cut off, nobody restarts for it, or the restart has not begun.       *)
Outdated ==
  \/ behind \/ disk = Torn
  \/ \E c \in Commands : cmd[c].at = "stopEnter" /\ cmd[c].restart

(* Otherwise the known runner has the config on disk, and so has the start  *)
(* that is about to launch one.                                             *)
Current ==
  ~Outdated =>
    /\ Live(task) /\ ~runner[task].cancelled => runner[task].cfg = disk
    /\ \A c \in Commands : cmd[c].at = "launching" => cmd[c].cfg = disk

(* Steps of a command that neither launch nor cancel a runner, do not touch *)
(* the file, and leave whatever is outdated as it is.                       *)
LEMMA QuietStepKeepsCurrent ==
  ASSUME TypeOK, Current, NEW c \in Commands, NEW rec \in CommandRecords,
         cmd' = [cmd EXCEPT ![c] = rec],
         UNCHANGED <<disk, task, runner, behind>>,
         rec.at # "launching",
         cmd[c].at # "stopEnter"
  PROVE  Current'
  <1>1. \A d \in Commands : cmd'[d] = IF d = c THEN rec ELSE cmd[d]
    BY DEF TypeOK
  <1>2. Outdated => Outdated'
    BY <1>1 DEF Outdated
  <1>3. \A s : Live(s)' <=> Live(s)
    BY DEF Live
  <1>4. QED
    BY <1>1, <1>2, <1>3 DEF Current

LEMMA OperatorKeepsCurrent ==
  ASSUME TypeOK, Current, NEW c \in Commands, Operator(c) \/ CommandCut(c)
  PROVE  Current'
  <1> USE IdleCommandType DEF history, SetCmd
  <1>1. CASE StartCall(c)
    <2> DEFINE rec == [IdleCommand EXCEPT !.at = "startEnter"]
    <2>1. rec \in CommandRecords /\ rec.at = "startEnter"
      BY DEF CommandRecords, CommandPoints
    <2>2. cmd' = [cmd EXCEPT ![c] = rec] /\ UNCHANGED <<disk, task, runner, behind>>
          /\ cmd[c].at = "idle"
      BY <1>1 DEF StartCall, Call
    <2>3. QED
      BY <2>1, <2>2, QuietStepKeepsCurrent
  <1>2. CASE StopCall(c)
    <2> DEFINE rec == [IdleCommand EXCEPT !.at = "stopEnter"]
    <2>1. rec \in CommandRecords /\ rec.at = "stopEnter"
      BY DEF CommandRecords, CommandPoints
    <2>2. cmd' = [cmd EXCEPT ![c] = rec] /\ UNCHANGED <<disk, task, runner, behind>>
          /\ cmd[c].at = "idle"
      BY <1>2 DEF StopCall, Call
    <2>3. QED
      BY <2>1, <2>2, QuietStepKeepsCurrent
  <1>3. ASSUME NEW cfg \in Configs, NEW restart \in BOOLEAN,
               ImportCall(c, cfg, restart)
        PROVE  Current'
    BY <1>3 DEF ImportCall, Current, Outdated
  <1>4. CASE CommandCut(c)
    <2>1. cmd' = [cmd EXCEPT ![c] = IdleCommand] /\ UNCHANGED <<disk, task, runner, behind>>
          /\ cmd[c].at # "stopEnter" /\ IdleCommand.at = "idle"
      BY <1>4 DEF CommandCut, IdleCommand
    <2>2. QED
      BY <2>1, QuietStepKeepsCurrent
  <1>5. QED
    BY <1>1, <1>2, <1>3, <1>4 DEF Operator

(* The new config is outdated until the restart of its import has begun.    *)
LEMMA ImportKeepsCurrent ==
  ASSUME TypeOK, NEW c \in Commands, ImportSaved(c)
  PROVE  Outdated'
  <1>1. cmd[c] \in CommandRecords
    BY DEF TypeOK
  <1>2. CASE cmd[c].restart
    <2> DEFINE rec == [cmd[c] EXCEPT !.at = "stopEnter"]
    <2>1. rec.at = "stopEnter" /\ rec.restart
      BY <1>1, <1>2 DEF CommandRecords
    <2>2. cmd'[c] = rec
      BY <1>2 DEF ImportSaved, SetCmd, TypeOK
    <2>3. QED
      BY <2>1, <2>2 DEF Outdated
  <1>3. CASE ~cmd[c].restart
    BY <1>3 DEF ImportSaved, Outdated
  <1>4. QED
    BY <1>2, <1>3

(* A stop leaves no runner that it has not cancelled; while a start is      *)
(* under way no stop begins.                                                *)
LEMMA StopKeepsCurrent ==
  ASSUME TypeOK, Gated, NEW c \in Commands, StopEnter(c) \/ StopFinish(c)
  PROVE  Current'
  <1> USE DEF SetCmd, SetRunner, Stopped
  <1>1. PICK rec : /\ rec.at \in {"idle", "startEnter", "stopWait"}
                   /\ cmd' = [cmd EXCEPT ![c] = rec]
    <2> DEFINE waiting == [cmd[c] EXCEPT !.at = "stopWait", !.wait = task]
               starting == [IdleCommand EXCEPT !.at = "startEnter"]
    <2>1. /\ waiting.at = "stopWait" /\ starting.at = "startEnter"
          /\ IdleCommand.at = "idle"
      BY DEF TypeOK, CommandRecords, IdleCommand
    <2>2. \/ cmd' = [cmd EXCEPT ![c] = waiting]
          \/ cmd' = [cmd EXCEPT ![c] = starting]
          \/ cmd' = [cmd EXCEPT ![c] = IdleCommand]
      BY DEF StopEnter, StopFinish
    <2>3. QED
      <3> HIDE DEF waiting, starting
      <3>1. QED
        BY <2>1, <2>2
  <1>2. \A d \in Commands : cmd'[d].at # "launching"
    BY <1>1, Distinct DEF TypeOK, Gated, StopEnter, StopFinish
  <1>3. ~(Live(task) /\ ~runner[task].cancelled)'
    <2>1. CASE StopFinish(c)
      BY <2>1 DEF StopFinish, Live
    <2>2. CASE StopEnter(c) /\ Live(task)
      <3>1. task \in Runners /\ task' = task
            /\ runner' = [runner EXCEPT ![task] = [runner[task] EXCEPT !.cancelled = TRUE]]
        BY <2>2 DEF StopEnter, Live, TypeOK
      <3>2. runner'[task].cancelled
        BY <3>1 DEF TypeOK, RunnerRecords
      <3>3. QED
        BY <3>1, <3>2
    <2>3. CASE StopEnter(c) /\ ~Live(task)
      BY <2>3 DEF StopEnter, Live
    <2>4. QED
      BY <2>1, <2>2, <2>3
  <1>4. QED
    BY <1>2, <1>3 DEF Current

LEMMA StartKeepsCurrent ==
  ASSUME TypeOK, Current, Gated, NEW c \in Commands,
         \/ StartEnter(c) \/ StartLoad(c) \/ StartLoadFails(c)
         \/ \E r \in Runners : StartLaunch(c, r)
  PROVE  Current'
  <1> USE IdleCommandType DEF history, SetCmd, SetRunner
  <1> IdleCommand.at = "idle" /\ cmd[c] \in CommandRecords
    BY DEF IdleCommand, TypeOK
  <1>1. CASE StartEnter(c)
    <2>1. PICK rec \in CommandRecords : /\ rec.at # "launching"
                                        /\ cmd' = [cmd EXCEPT ![c] = rec]
      <3>1. /\ [cmd[c] EXCEPT !.at = "loading"] \in CommandRecords
            /\ [cmd[c] EXCEPT !.at = "loading"].at = "loading"
        BY DEF CommandRecords, CommandPoints
      <3>2. QED
        BY <1>1, <3>1 DEF StartEnter
    <2>2. UNCHANGED <<disk, task, runner, behind>> /\ cmd[c].at # "stopEnter"
      BY <1>1 DEF StartEnter
    <2>3. QED
      BY <2>1, <2>2, QuietStepKeepsCurrent
  <1>2. CASE StartLoadFails(c)
    <2>1. cmd' = [cmd EXCEPT ![c] = IdleCommand] /\ UNCHANGED <<disk, task, runner, behind>>
          /\ cmd[c].at # "stopEnter"
      BY <1>2 DEF StartLoadFails
    <2>2. QED
      BY <2>1, QuietStepKeepsCurrent
  <1>3. CASE StartLoad(c)
    <2> DEFINE rec == [cmd[c] EXCEPT !.at = "launching", !.cfg = disk]
    <2>1. rec.at = "launching" /\ rec.cfg = disk
      BY DEF CommandRecords
    <2>2. \A d \in Commands : cmd'[d] = IF d = c THEN rec ELSE cmd[d]
      BY <1>3 DEF StartLoad, TypeOK
    <2>3. UNCHANGED <<disk, task, runner, behind>> /\ cmd[c].at = "loading"
      BY <1>3 DEF StartLoad
    <2>4. Outdated => Outdated'
      BY <2>2, <2>3 DEF Outdated
    <2>5. \A s : Live(s)' <=> Live(s)
      BY <2>3 DEF Live
    <2>6. QED
      BY <2>1, <2>2, <2>3, <2>4, <2>5 DEF Current
  <1>4. ASSUME NEW r \in Runners, StartLaunch(c, r) PROVE Current'
    <2> DEFINE n == [NoRunner EXCEPT !.phase = "launched", !.cfg = cmd[c].cfg]
    <2>1. n.cfg = cmd[c].cfg
      BY DEF NoRunner
    <2>2. task' = r /\ runner'[r] = n /\ UNCHANGED <<disk, behind>>
          /\ cmd[c].at = "launching"
      BY <1>4 DEF StartLaunch, TypeOK
    <2>3. \A d \in Commands : cmd'[d] = IF d = c THEN IdleCommand ELSE cmd[d]
      BY <1>4 DEF StartLaunch, TypeOK
    <2>4. Outdated => Outdated'
      BY <2>2, <2>3 DEF Outdated
    <2>5. QED
      BY <2>1, <2>2, <2>3, <2>4 DEF Current
  <1>5. QED
    BY <1>1, <1>2, <1>3, <1>4

LEMMA RunnerKeepsCurrent ==
  ASSUME TypeOK, Current, NEW r \in Runners, RunnerStep(r) \/ RunnerBadDirectory(r)
  PROVE  Current'
  <1>1. UNCHANGED <<disk, task, cmd, behind>>
    BY DEF RunnerStep, RunnerBegin, RunnerConnect, RunnerConnectFails, RunnerUnwind,
       RunnerStopped, RunnerComplete, RunnerBadDirectory, history
  <1> DEFINE Moved(phase) == [runner[r] EXCEPT !.phase = phase]
             Looping(phase, loops) ==
               [runner[r] EXCEPT !.phase = phase, !.loops = loops]
  <1>2. PICK n : /\ runner' = [runner EXCEPT ![r] = n]
                 /\ n.cfg = runner[r].cfg /\ n.cancelled = runner[r].cancelled
                 /\ Live(r)
    <2>1. runner[r] \in RunnerRecords /\ r # None
      BY Distinct DEF TypeOK
    <2>2. \A phase, loops :
            /\ Moved(phase).cfg = runner[r].cfg
            /\ Moved(phase).cancelled = runner[r].cancelled
            /\ Looping(phase, loops).cfg = runner[r].cfg
            /\ Looping(phase, loops).cancelled = runner[r].cancelled
      BY <2>1 DEF RunnerRecords
    <2>3. Live(r)
      BY <2>1 DEF RunnerStep, RunnerBegin, RunnerConnect, RunnerConnectFails,
         RunnerUnwind, RunnerStopped, RunnerComplete, RunnerBadDirectory, Live
    <2>4. \E phase, loops :
            \/ runner' = [runner EXCEPT ![r] = Moved(phase)]
            \/ runner' = [runner EXCEPT ![r] = Looping(phase, loops)]
      <3>1. CASE RunnerBegin(r)
        BY <3>1 DEF RunnerBegin, SetRunner
      <3>2. CASE RunnerConnect(r)
        BY <3>2 DEF RunnerConnect, SetRunner
      <3>3. CASE RunnerConnectFails(r)
        BY <3>3 DEF RunnerConnectFails, SetRunner
      <3>4. CASE RunnerUnwind(r)
        BY <3>4 DEF RunnerUnwind, SetRunner
      <3>5. CASE RunnerStopped(r)
        BY <3>5 DEF RunnerStopped, SetRunner
      <3>6. CASE RunnerComplete(r)
        BY <3>6 DEF RunnerComplete, SetRunner
      <3>7. CASE RunnerBadDirectory(r)
        BY <3>7 DEF RunnerBadDirectory, SetRunner
      <3>8. QED
        BY <3>1, <3>2, <3>3, <3>4, <3>5, <3>6, <3>7 DEF RunnerStep
    <2>5. QED
      <3> HIDE DEF Moved, Looping
      <3>1. QED
        BY <2>2, <2>3, <2>4
  <1>3. \A s \in Runners : /\ runner'[s].cfg = runner[s].cfg
                           /\ runner'[s].cancelled = runner[s].cancelled
                           /\ Live(s)' => Live(s)
    BY <1>2 DEF TypeOK, Live
  <1>4. Outdated <=> Outdated'
    BY <1>1 DEF Outdated
  <1>5. Live(task)' => Live(task) /\ task \in Runners
    BY <1>1, <1>3 DEF Live, TypeOK
  <1>6. QED
    BY <1>1, <1>3, <1>4, <1>5 DEF Current

LEMMA ProcessKeepsCurrent ==
  ASSUME TypeOK, Down, Crash \/ Boot
  PROVE  Current'
  <1>1. \A c \in Commands : cmd'[c] = IdleCommand
    BY DEF Crash, Boot, Down
  <1>2. \A c \in Commands : cmd'[c].at = "idle"
    BY <1>1 DEF IdleCommand
  <1>3. CASE Crash
    BY <1>2, <1>3 DEF Crash, Current, Live
  <1>4. CASE Boot /\ disk = NoFile
    <2>1. ~Live(task)'
      BY <1>4 DEF Boot, Down, Live, NoRunner, TypeOK
    <2>2. QED
      BY <1>2, <2>1 DEF Current
  <1>5. CASE Boot /\ disk # NoFile
    <2>1. PICK r \in Runners :
            /\ task' = r
            /\ SetRunner(r, [NoRunner EXCEPT !.phase = "launched", !.cfg = disk])
      BY <1>5 DEF Boot
    <2>2. runner'[task'].cfg = disk /\ disk' = disk
      BY <1>5, <2>1 DEF Boot, SetRunner, TypeOK, NoRunner
    <2>3. QED
      BY <1>2, <2>2 DEF Current
  <1>6. QED
    BY <1>3, <1>4, <1>5

LEMMA NextKeepsCurrent ==
  ASSUME BoothInv, Current, [Next]_vars
  PROVE  Current'
  <1> USE DEF BoothInv
  <1>1. CASE UNCHANGED vars
    <2>1. \A s : Live(s)' <=> Live(s)
      BY <1>1 DEF vars, Live
    <2>2. QED
      BY <1>1, <2>1 DEF vars, history, Current, Outdated
  <1>2. ASSUME NEW c \in Commands, Operator(c) \/ CommandStep(c) \/ CommandCut(c)
        PROVE  Current'
    <2>1. CASE ImportSaved(c)
      BY <2>1, ImportKeepsCurrent DEF Current
    <2>2. CASE ~ImportSaved(c)
      BY <1>2, <2>2, OperatorKeepsCurrent, StopKeepsCurrent, StartKeepsCurrent
      DEF CommandStep
    <2>3. QED
      BY <2>1, <2>2
  <1>3. QED
    BY <1>1, <1>2, RunnerKeepsCurrent, ProcessKeepsCurrent DEF Next

(* The config that was imported takes over: whichever starts, stops,        *)
(* imports, cuts and crashes race, the known runner, unless told to end,    *)
(* works with the config on disk, save for a restart still to stop it, an   *)
(* import without a restart, or a file whose writing was cut off.           *)
THEOREM ConfigTakesOver == Spec => []ImportTakesOver
  <1>1. Init => BoothInv /\ Current
    <2>1. Init => Current
      BY DEF Init, Current, Live, IdleCommand
    <2>2. QED
      BY <2>1, InitTyped, InitBooth DEF BoothInv, BoothRest
  <1>2. BoothInv /\ Current => ImportTakesOver
    BY DEF Current, Outdated, ImportTakesOver
  <1>3. BoothInv /\ Current /\ [Next]_vars => BoothInv' /\ Current'
    BY NextKeeps, NextKeepsCurrent
  <1>4. QED
    BY <1>1, <1>2, <1>3, PTL DEF Spec

-----------------------------------------------------------------------------
(* Whoever shows a runner at work has still to say how it ended: a stop     *)
(* that waits, or the runner itself, which says so when it leaves.          *)
Accounted ==
  lifecycle \notin {"stopped", "error"} =>
    \/ StopWaiting
    \/ \E r \in Runners :
         runner[r].phase \in {"launched", "connecting", "running", "unwinding"}

LEMMA CommandKeepsAccounted ==
  ASSUME TypeOK, Accounted, NEW c \in Commands,
         Operator(c) \/ CommandStep(c) \/ CommandCut(c)
  PROVE  Accounted'
  <1> USE DEF SetCmd, SetRunner, history
  <1>1. CASE StopFinish(c) \/ (StopEnter(c) /\ ~Live(task))
    BY <1>1 DEF StopFinish, StopEnter, Accounted
  <1>2. CASE StopEnter(c) /\ Live(task)
    <2>1. cmd'[c] = [cmd[c] EXCEPT !.at = "stopWait", !.wait = task]
      BY <1>2 DEF StopEnter, TypeOK
    <2>2. cmd'[c].at = "stopWait"
      BY <2>1 DEF TypeOK, CommandRecords
    <2>3. QED
      BY <2>2 DEF Accounted, StopWaiting
  <1>3. ASSUME NEW r \in Runners, StartLaunch(c, r) PROVE Accounted'
    <2>1. runner'[r].phase = "launched"
      BY <1>3 DEF StartLaunch, TypeOK, NoRunner
    <2>2. QED
      BY <2>1 DEF Accounted
  <1>4. CASE \/ Operator(c) \/ CommandCut(c) \/ ImportSaved(c)
             \/ StartEnter(c) \/ StartLoad(c) \/ StartLoadFails(c)
    <2>1. UNCHANGED <<lifecycle, runner>> /\ cmd[c].at # "stopWait"
          /\ \A d \in Commands : d # c => cmd'[d] = cmd[d]
      BY <1>4 DEF Operator, StartCall, StopCall, ImportCall, Call, CommandCut,
         ImportSaved, StartEnter, StartLoad, StartLoadFails, TypeOK
    <2>2. StopWaiting => StopWaiting'
      BY <2>1 DEF StopWaiting
    <2>3. QED
      BY <2>1, <2>2 DEF Accounted
  <1>5. QED
    BY <1>1, <1>2, <1>3, <1>4 DEF CommandStep

LEMMA RunnerKeepsAccounted ==
  ASSUME TypeOK, Accounted, NEW r \in Runners, RunnerStep(r) \/ RunnerBadDirectory(r)
  PROVE  Accounted'
  <1> USE DEF SetRunner, Accounted
  <1> runner[r] \in RunnerRecords
    BY DEF TypeOK
  <1>1. CASE RunnerConnectFails(r) \/ RunnerUnwind(r) \/ RunnerStopped(r)
             \/ RunnerBadDirectory(r)
    BY <1>1 DEF RunnerConnectFails, RunnerUnwind, RunnerStopped, RunnerBadDirectory
  <1>2. CASE RunnerBegin(r) \/ RunnerConnect(r)
    <2>1. runner'[r].phase \in {"connecting", "running"}
      BY <1>2 DEF RunnerBegin, RunnerConnect, TypeOK, RunnerRecords
    <2>2. QED
      BY <2>1
  <1>3. CASE RunnerComplete(r)
    <2>1. UNCHANGED <<lifecycle, cmd>> /\ runner[r].phase = "closing"
          /\ \A s \in Runners : s # r => runner'[s] = runner[s]
      BY <1>3 DEF RunnerComplete, TypeOK
    <2>2. QED
      BY <2>1 DEF StopWaiting
  <1>4. QED
    BY <1>1, <1>2, <1>3 DEF RunnerStep

LEMMA ProcessKeepsAccounted ==
  ASSUME TypeOK, Accounted, Crash \/ Boot
  PROVE  Accounted'
  <1>1. CASE Crash
    BY <1>1 DEF Crash, Accounted
  <1>2. CASE Boot /\ disk = NoFile
    BY <1>2 DEF Boot, Accounted, StopWaiting
  <1>3. CASE Boot /\ disk # NoFile
    <2>1. PICK r \in Runners :
            SetRunner(r, [NoRunner EXCEPT !.phase = "launched", !.cfg = disk])
      BY <1>3 DEF Boot
    <2>2. runner'[r].phase = "launched"
      BY <2>1 DEF SetRunner, TypeOK, NoRunner
    <2>3. QED
      BY <2>2 DEF Accounted
  <1>4. QED
    BY <1>1, <1>2, <1>3

(* The dashboard rests with a state that is true: once no command is under  *)
(* way and no runner is alive it does not go on showing one, although any   *)
(* of them may have written what it shows last.                             *)
THEOREM DashboardRests == Spec => []RestsHonestly
  <1>1. Init => TypeOK /\ Accounted
    BY InitTyped DEF Init, Accounted
  <1>2. TypeOK /\ Accounted /\ [Next]_vars => TypeOK' /\ Accounted'
    <2> SUFFICES ASSUME TypeOK, Accounted, [Next]_vars PROVE TypeOK' /\ Accounted'
      OBVIOUS
    <2>1. TypeOK'
      BY NextTyped
    <2>2. CASE UNCHANGED vars
      BY <2>1, <2>2 DEF vars, Accounted, StopWaiting
    <2>3. CASE Next
      BY <2>1, <2>3, CommandKeepsAccounted, RunnerKeepsAccounted, ProcessKeepsAccounted
      DEF Next
    <2>4. QED
      BY <2>2, <2>3
  <1>3. TypeOK /\ Accounted => RestsHonestly
    <2> SUFFICES ASSUME Accounted, Quiet, \A r \in Runners : ~Live(r),
                        lifecycle \notin {"stopped", "error"}
                 PROVE  FALSE
      BY DEF RestsHonestly, TypeOK
    <2>1. ~StopWaiting
      BY DEF Quiet, StopWaiting
    <2>2. PICK r \in Runners :
            runner[r].phase \in {"launched", "connecting", "running", "unwinding"}
      BY <2>1 DEF Accounted
    <2>3. QED
      BY <2>2, Distinct DEF Live
  <1>4. QED
    BY <1>1, <1>2, <1>3, PTL DEF Spec

=============================================================================
