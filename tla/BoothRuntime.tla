---------------------------- MODULE BoothRuntime ----------------------------
(***************************************************************************)
(* The booth's local runtime manager: the dashboard's start, stop, import  *)
(* and register commands, each a request of its own that runs concurrently *)
(* with the others, and the runner tasks they launch and cancel.           *)
(*                                                                         *)
(* A command takes the manager's gate around each half of a stop and       *)
(* around a start; nothing is held while a stop waits for the runner.  A   *)
(* runner is a task with two loops (heartbeats and uploads), a config it   *)
(* was built with and a cancellation source of its own.                    *)
(***************************************************************************)
EXTENDS Naturals

CONSTANTS
  Commands,     \* dashboard requests being served at a time
  Runners,      \* runner tasks alive or still referred to
  Configs,      \* contents of a complete device config file
  NoFile,       \* no config has been saved yet
  Torn,         \* a config file whose writing has not ended
  None,         \* no runner, no command
  MaxCalls,     \* bound: commands the operator gives
  MaxCuts,      \* bound: requests cancelled by the browser
  MaxCrashes,   \* bound: ends of the client process
  MaxBadDirs    \* bound: runners that cannot set up their watch directory

ASSUME Distinct ==
  /\ NoFile \notin Configs /\ Torn \notin Configs /\ NoFile # Torn
  /\ None \notin Runners /\ None \notin Commands

ASSUME BoundsAreNat ==
  /\ MaxCalls \in Nat /\ MaxCuts \in Nat
  /\ MaxCrashes \in Nat /\ MaxBadDirs \in Nat

VARIABLES
  up,           \* is the client process running
  disk,         \* the config file
  gate,         \* _runnerGate: the command that holds it
  task,         \* _runnerTask, with _runnerCts: the runner the manager knows
  lifecycle,    \* the state the dashboard shows
  cmd,          \* what each command is doing
  runner,       \* the runner tasks
  spent,        \* commands, cuts, crashes and bad directories so far
  overlap,      \* history: a runner was launched while a stop was waiting
  behind        \* history: the config on disk was imported without a restart

history == <<overlap, behind>>
vars == <<up, disk, gate, task, lifecycle, cmd, runner, spent, history>>

Lifecycles == {"stopped", "starting", "running", "stopping", "error"}

CommandPoints ==
  {"idle", "saving", "stopEnter", "stopWait", "startEnter", "loading",
   "launching"}

Phases ==
  {"none", "launched", "connecting", "running", "unwinding", "closing", "done"}

CommandRecords ==
  [at : CommandPoints, cfg : Configs \cup {NoFile},
   restart : BOOLEAN, wait : Runners \cup {None}]

RunnerRecords ==
  [phase : Phases, cfg : Configs \cup {NoFile},
   cancelled : BOOLEAN, loops : BOOLEAN]

SpentRecords ==
  [calls : 0..MaxCalls, cuts : 0..MaxCuts,
   crashes : 0..MaxCrashes, badDirs : 0..MaxBadDirs]

IdleCommand == [at |-> "idle", cfg |-> NoFile, restart |-> FALSE, wait |-> None]

NoRunner == [phase |-> "none", cfg |-> NoFile, cancelled |-> FALSE, loops |-> FALSE]

Unspent == [calls |-> 0, cuts |-> 0, crashes |-> 0, badDirs |-> 0]

Init ==
  /\ up = TRUE
  /\ disk = NoFile
  /\ gate = None
  /\ task = None
  /\ lifecycle = "stopped"
  /\ cmd = [c \in Commands |-> IdleCommand]
  /\ runner = [r \in Runners |-> NoRunner]
  /\ spent = Unspent
  /\ overlap = FALSE
  /\ behind = FALSE

SetCmd(c, rec) == cmd' = [cmd EXCEPT ![c] = rec]

SetRunner(r, rec) == runner' = [runner EXCEPT ![r] = rec]

(* The task is not completed.                                               *)
Live(r) == r # None /\ runner[r].phase \notin {"none", "done"}

(* Nobody has told the task to end, or its loops go on without it.          *)
Working(r) ==
  \/ Live(r) /\ ~runner[r].cancelled
  \/ runner[r].loops /\ runner[r].phase \in {"closing", "done"}

(* A runner nobody refers to any more stands for a new one.                 *)
Fresh(r) ==
  /\ ~Live(r) /\ ~runner[r].loops
  /\ r # task
  /\ \A c \in Commands : cmd[c].wait # r

StopWaiting == \E c \in Commands : cmd[c].at = "stopWait"

Quiet == up /\ \A c \in Commands : cmd[c].at = "idle"

-----------------------------------------------------------------------------
(* Dashboard requests.                                                      *)

Call(c) ==
  /\ up
  /\ cmd[c].at = "idle"
  /\ spent.calls < MaxCalls
  /\ spent' = [spent EXCEPT !.calls = @ + 1]

StartCall(c) ==
  /\ Call(c)
  /\ SetCmd(c, [IdleCommand EXCEPT !.at = "startEnter"])
  /\ UNCHANGED <<up, disk, gate, task, lifecycle, runner, history>>

StopCall(c) ==
  /\ Call(c)
  /\ SetCmd(c, [IdleCommand EXCEPT !.at = "stopEnter"])
  /\ UNCHANGED <<up, disk, gate, task, lifecycle, runner, history>>

(* Register and import: the config is written over the file in place, which *)
(* File.Create has emptied.  A file somebody else is writing is refused.    *)
ImportCall(c, cfg, restart) ==
  /\ Call(c)
  /\ \A d \in Commands : cmd[d].at # "saving"
  /\ disk' = Torn
  /\ SetCmd(c, [IdleCommand EXCEPT !.at = "saving", !.cfg = cfg,
                                   !.restart = restart])
  /\ UNCHANGED <<up, gate, task, lifecycle, runner, history>>

(* Mutant: the restart after an import is only a start.                     *)
ImportSavedNoStop(c) ==
  /\ up /\ cmd[c].at = "saving"
  /\ disk' = cmd[c].cfg
  /\ behind' = ~cmd[c].restart
  /\ SetCmd(c, IF cmd[c].restart
                 THEN [IdleCommand EXCEPT !.at = "startEnter"]
                 ELSE IdleCommand)
  /\ UNCHANGED <<up, gate, task, lifecycle, runner, spent, overlap>>

ImportSaved(c) ==
  /\ up /\ cmd[c].at = "saving"
  /\ disk' = cmd[c].cfg
  /\ behind' = ~cmd[c].restart
  /\ SetCmd(c, IF cmd[c].restart
                 THEN [cmd[c] EXCEPT !.at = "stopEnter"]
                 ELSE IdleCommand)
  /\ UNCHANGED <<up, gate, task, lifecycle, runner, spent, overlap>>

(* The browser goes away: the write of the config, the wait for the gate or *)
(* the read of the config is cancelled.  A stop takes no token.             *)
CommandCut(c) ==
  /\ up /\ cmd[c].at \in {"saving", "startEnter", "loading"}
  /\ spent.cuts < MaxCuts
  /\ spent' = [spent EXCEPT !.cuts = @ + 1]
  /\ gate' = IF gate = c THEN None ELSE gate
  /\ SetCmd(c, IdleCommand)
  /\ UNCHANGED <<up, disk, task, lifecycle, runner, history>>

-----------------------------------------------------------------------------
(* StopRunnerAsync: cancel under the gate, wait without it, clear under it. *)

(* A restart goes on with the start.                                        *)
Stopped(c) ==
  SetCmd(c, IF cmd[c].restart
              THEN [IdleCommand EXCEPT !.at = "startEnter"]
              ELSE IdleCommand)

StopEnter(c) ==
  /\ up /\ cmd[c].at = "stopEnter"
  /\ gate = None
  /\ IF Live(task)
       THEN /\ lifecycle' = "stopping"
            /\ SetRunner(task, [runner[task] EXCEPT !.cancelled = TRUE])
            /\ SetCmd(c, [cmd[c] EXCEPT !.at = "stopWait", !.wait = task])
       ELSE /\ lifecycle' = "stopped"
            /\ Stopped(c)
            /\ UNCHANGED runner
  /\ UNCHANGED <<up, disk, gate, task, spent, history>>

(* Mutant: what the dashboard shows is left to the runner.                  *)
StopFinishSilent(c) ==
  /\ up /\ cmd[c].at = "stopWait"
  /\ ~Live(cmd[c].wait)
  /\ gate = None
  /\ task' = None
  /\ Stopped(c)
  /\ UNCHANGED <<up, disk, gate, lifecycle, runner, spent, history>>

StopFinish(c) ==
  /\ up /\ cmd[c].at = "stopWait"
  /\ ~Live(cmd[c].wait)
  /\ gate = None
  /\ task' = None
  /\ lifecycle' = "stopped"
  /\ Stopped(c)
  /\ UNCHANGED <<up, disk, gate, runner, spent, history>>

-----------------------------------------------------------------------------
(* StartRunnerAsync, under the gate from end to end.                        *)

(* Mutant: a start does not look for a runner that is still alive.          *)
StartEnterAnyway(c) ==
  /\ up /\ cmd[c].at = "startEnter"
  /\ gate = None
  /\ gate' = c
  /\ SetCmd(c, [cmd[c] EXCEPT !.at = "loading"])
  /\ UNCHANGED <<up, disk, task, lifecycle, runner, spent, history>>

StartEnter(c) ==
  /\ up /\ cmd[c].at = "startEnter"
  /\ gate = None
  /\ IF Live(task)
       THEN /\ SetCmd(c, IdleCommand)
            /\ UNCHANGED gate
       ELSE /\ gate' = c
            /\ SetCmd(c, [cmd[c] EXCEPT !.at = "loading"])
  /\ UNCHANGED <<up, disk, task, lifecycle, runner, spent, history>>

(* Mutant: what the file holds is taken for a config.                       *)
StartLoadUnchecked(c) ==
  /\ up /\ cmd[c].at = "loading"
  /\ SetCmd(c, [cmd[c] EXCEPT !.at = "launching", !.cfg = disk])
  /\ UNCHANGED <<up, disk, gate, task, lifecycle, runner, spent, history>>

StartLoad(c) ==
  /\ up /\ cmd[c].at = "loading"
  /\ disk \in Configs
  /\ SetCmd(c, [cmd[c] EXCEPT !.at = "launching", !.cfg = disk])
  /\ UNCHANGED <<up, disk, gate, task, lifecycle, runner, spent, history>>

(* Mutant: a start that fails keeps the gate.                               *)
StartLoadFailsHolding(c) ==
  /\ up /\ cmd[c].at = "loading"
  /\ disk \notin Configs
  /\ SetCmd(c, IdleCommand)
  /\ UNCHANGED <<up, disk, gate, task, lifecycle, runner, spent, history>>

StartLoadFails(c) ==
  /\ up /\ cmd[c].at = "loading"
  /\ disk \notin Configs
  /\ gate' = None
  /\ SetCmd(c, IdleCommand)
  /\ UNCHANGED <<up, disk, task, lifecycle, runner, spent, history>>

StartLaunch(c, r) ==
  /\ up /\ cmd[c].at = "launching"
  /\ Fresh(r)
  /\ lifecycle' = "starting"
  /\ task' = r
  /\ SetRunner(r, [NoRunner EXCEPT !.phase = "launched", !.cfg = cmd[c].cfg])
  /\ gate' = None
  /\ SetCmd(c, IdleCommand)
  /\ overlap' = (overlap \/ StopWaiting)
  /\ UNCHANGED <<up, disk, spent, behind>>

-----------------------------------------------------------------------------
(* The runner's task.                                                       *)

RunnerBegin(r) ==
  /\ up /\ runner[r].phase = "launched"
  /\ lifecycle' = "running"
  /\ SetRunner(r, [runner[r] EXCEPT !.phase = "connecting"])
  /\ UNCHANGED <<up, disk, gate, task, cmd, spent, history>>

(* The first config request is answered: the loops start, the watcher too.  *)
RunnerConnect(r) ==
  /\ up /\ runner[r].phase = "connecting"
  /\ SetRunner(r, [runner[r] EXCEPT !.phase = "running", !.loops = TRUE])
  /\ UNCHANGED <<up, disk, gate, task, lifecycle, cmd, spent, history>>

(* The first config request fails, or is cancelled.                         *)
RunnerConnectFails(r) ==
  /\ up /\ runner[r].phase = "connecting"
  /\ \/ lifecycle' = "error"
     \/ runner[r].cancelled /\ lifecycle' = "stopped"
  /\ SetRunner(r, [runner[r] EXCEPT !.phase = "closing"])
  /\ UNCHANGED <<up, disk, gate, task, cmd, spent, history>>

(* The watch directory cannot be created, after the loops have started: the *)
(* task ends and disposes of the linked token, so that loops not cancelled  *)
(* by then go on, against a disposed client, for as long as the process.    *)
RunnerBadDirectory(r) ==
  /\ up /\ runner[r].phase = "connecting"
  /\ spent.badDirs < MaxBadDirs
  /\ spent' = [spent EXCEPT !.badDirs = @ + 1]
  /\ lifecycle' = "error"
  /\ SetRunner(r, [runner[r] EXCEPT !.phase = "closing",
                                    !.loops = ~runner[r].cancelled])
  /\ UNCHANGED <<up, disk, gate, task, cmd, history>>

(* Cancelled, the loops end and RunAsync leaves through its finally block.  *)
RunnerUnwind(r) ==
  /\ up /\ runner[r].phase = "running"
  /\ runner[r].cancelled
  /\ lifecycle' = "stopped"
  /\ SetRunner(r, [runner[r] EXCEPT !.phase = "unwinding", !.loops = FALSE])
  /\ UNCHANGED <<up, disk, gate, task, cmd, spent, history>>

RunnerStopped(r) ==
  /\ up /\ runner[r].phase = "unwinding"
  /\ lifecycle' = "stopped"
  /\ SetRunner(r, [runner[r] EXCEPT !.phase = "closing"])
  /\ UNCHANGED <<up, disk, gate, task, cmd, spent, history>>

RunnerComplete(r) ==
  /\ up /\ runner[r].phase = "closing"
  /\ SetRunner(r, [runner[r] EXCEPT !.phase = "done"])
  /\ UNCHANGED <<up, disk, gate, task, lifecycle, cmd, spent, history>>

-----------------------------------------------------------------------------
(* The client process ends, with everything that is not on disk.            *)
Crash ==
  /\ up /\ spent.crashes < MaxCrashes
  /\ spent' = [spent EXCEPT !.crashes = @ + 1]
  /\ up' = FALSE
  /\ gate' = None
  /\ task' = None
  /\ lifecycle' = "stopped"
  /\ cmd' = [c \in Commands |-> IdleCommand]
  /\ runner' = [r \in Runners |-> NoRunner]
  /\ overlap' = FALSE
  /\ behind' = FALSE
  /\ UNCHANGED disk

(* InitializeAsync, before the dashboard serves requests.  A config that    *)
(* cannot be read ends the process again.                                   *)
Boot ==
  /\ ~up
  /\ disk # Torn
  /\ up' = TRUE
  /\ IF disk = NoFile
       THEN UNCHANGED <<task, lifecycle, runner>>
       ELSE \E r \in Runners :
              /\ lifecycle' = "starting"
              /\ task' = r
              /\ SetRunner(r, [NoRunner EXCEPT !.phase = "launched", !.cfg = disk])
  /\ UNCHANGED <<disk, gate, cmd, spent, history>>

-----------------------------------------------------------------------------
Operator(c) ==
  \/ StartCall(c) \/ StopCall(c)
  \/ \E cfg \in Configs, restart \in BOOLEAN : ImportCall(c, cfg, restart)

CommandStep(c) ==
  \/ ImportSaved(c)
  \/ StopEnter(c) \/ StopFinish(c)
  \/ StartEnter(c) \/ StartLoad(c) \/ StartLoadFails(c)
  \/ \E r \in Runners : StartLaunch(c, r)

RunnerStep(r) ==
  \/ RunnerBegin(r) \/ RunnerConnect(r) \/ RunnerConnectFails(r)
  \/ RunnerUnwind(r) \/ RunnerStopped(r) \/ RunnerComplete(r)

Next ==
  \/ \E c \in Commands : Operator(c) \/ CommandStep(c) \/ CommandCut(c)
  \/ \E r \in Runners : RunnerStep(r) \/ RunnerBadDirectory(r)
  \/ Crash \/ Boot

Spec == Init /\ [][Next]_vars

(* The thread pool runs what is ready to run, and SemaphoreSlim lets a      *)
(* waiting command in when it is released often enough.  Nobody is obliged  *)
(* to give a command or to boot the process.                                *)
FairSpec ==
  /\ Spec
  /\ \A c \in Commands : SF_vars(CommandStep(c))
  /\ \A r \in Runners : WF_vars(RunnerStep(r))

-----------------------------------------------------------------------------
(* Every variable stays in the set of values the code can give it.          *)
TypeOK ==
  /\ up \in BOOLEAN
  /\ disk \in Configs \cup {NoFile, Torn}
  /\ gate \in Commands \cup {None}
  /\ task \in Runners \cup {None}
  /\ lifecycle \in Lifecycles
  /\ cmd \in [Commands -> CommandRecords]
  /\ runner \in [Runners -> RunnerRecords]
  /\ spent \in SpentRecords
  /\ overlap \in BOOLEAN /\ behind \in BOOLEAN

(* Commands that run at the same time leave one runner at work, the one the *)
(* manager can stop, unless a start got in between the two halves of a stop *)
(* or a runner lost its loops over a bad watch directory.                   *)
OneRunner ==
  ~overlap /\ spent.badDirs = 0 =>
    \A r \in Runners : Working(r) => r = task

(* The runner the manager knows, if not told to end, works with the config  *)
(* on disk, whichever starts, stops and imports raced: save for a restart   *)
(* still to stop it, a config imported without a restart, or one whose      *)
(* write was cut off.                                                       *)
ImportTakesOver ==
  \A r \in Runners :
    /\ r = task /\ Live(r) /\ ~runner[r].cancelled
    /\ ~behind /\ disk # Torn
    /\ \A c \in Commands : cmd[c].at = "stopEnter" => ~cmd[c].restart
    => runner[r].cfg = disk

(* Once nothing is under way and no runner is alive, the dashboard does not *)
(* go on showing one that is starting, running or stopping.                 *)
RestsHonestly ==
  Quiet /\ (\A r \in Runners : ~Live(r)) => lifecycle \in {"stopped", "error"}

(* Every command returns: no stop waits for ever for a runner or the gate.  *)
CommandsReturn ==
  \A c \in Commands : cmd[c].at # "idle" ~> cmd[c].at = "idle"

-----------------------------------------------------------------------------
(* LocalDashboardHost.cs:78 answers "Booth runtime stopped." after a stop.  *)
(* A runner may still be at work.                                           *)
StoppedIsStopped ==
  Quiet /\ lifecycle = "stopped" => \A r \in Runners : ~Working(r)

=============================================================================
