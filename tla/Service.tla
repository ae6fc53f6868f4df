------------------------------ MODULE Service ------------------------------
(***************************************************************************)
(* Installing and controlling the per-user service (service/ and the       *)
(* actions of main.go).                                                    *)
(*                                                                         *)
(* A command is a sequence of systemctl or launchctl calls, any of which   *)
(* may fail, or time out with its effect or without, and between which the *)
(* service may crash, be started again or be unloaded, the binary it runs  *)
(* may be removed by an upgrade, and the command itself may be killed.     *)
(* Commands are run one at a time.                                         *)
(*                                                                         *)
(* A definition is abstracted to the version of the binary it runs.        *)
(* Processes are numbered in the order they are started.                   *)
(***************************************************************************)
EXTENDS Naturals

CONSTANTS
  Platforms,   \* the service managers to consider: systemd, launchd
  MaxPid       \* bound: how often the service is started

ASSUME PlatformAssumption == Platforms \subseteq {"systemd", "launchd"}
ASSUME BoundAssumption == MaxPid \in Nat

Op == {"install", "reinstall", "uninstall", "start", "stop", "restart", "reload"}

VARIABLES
  platform,
  gone,       \* an upgrade has replaced version 1 of the binary by version 2
  file,       \* the version the unit file or plist runs, 0 if there is none
  loaded,     \* the version the service manager has loaded, 0 if none
  proc,       \* the service's process
  exiting,    \* it has been told to stop and has not ended yet
  wanted,     \* the manager starts it again when it fails
  pids,       \* how many processes have been started
  cmd,        \* the command under way or the last one: where it is, the process
              \* ids it has read, whether a call has failed
  began       \* of that command (history): processes started before it, whether
              \* it met a service without definition, whether a call failed for
              \* no reason of its own

job  == <<loaded, proc, exiting, wanted, pids>>
vars == <<platform, gone, file, job, cmd, began>>

Version == {1, 2}
NoProc  == [pid |-> 0, program |-> 0]

\* The binary that users run, and that an installation is made for.
Me        == IF gone THEN 2 ELSE 1
Exists(v) == ~(gone /\ v = 1)
Up        == proc # NoProc

Init ==
  /\ platform \in Platforms
  /\ gone = FALSE
  /\ file = 0
  /\ loaded = 0 /\ proc = NoProc /\ exiting = FALSE /\ wanted = FALSE /\ pids = 0
  /\ cmd = [op |-> "none", at |-> "idle", pid |-> 0, new |-> 0, failed |-> FALSE]
  /\ began = [pids |-> 0, orphan |-> FALSE, spurious |-> FALSE]

Stage == {"idle", "status", "look", "kickstart", "alive", "signal", "act", "write", "written",
          "enable", "disable", "remove", "removed"}

TypeOK ==
  /\ platform \in Platforms
  /\ gone \in BOOLEAN
  /\ file \in {0} \cup Version
  /\ loaded \in {0} \cup Version
  /\ proc \in {NoProc} \cup [pid : 1 .. pids, program : Version]
  /\ exiting \in BOOLEAN
  /\ wanted \in BOOLEAN
  /\ pids \in 0 .. MaxPid
  /\ cmd \in [op : Op \cup {"none"}, at : Stage, pid : 0 .. MaxPid, new : 0 .. MaxPid,
              failed : BOOLEAN]
  /\ began \in [pids : 0 .. MaxPid, orphan : BOOLEAN, spurious : BOOLEAN]

-----------------------------------------------------------------------------
\* What the service manager does.

\* The unit: systemd reads its file when it has not loaded it.
Unit == IF platform = "systemd" /\ loaded = 0 THEN file ELSE loaded

\* A process is started; that of a missing binary ends at once.
Launch(v) ==
  /\ exiting' = FALSE /\ wanted' = TRUE
  /\ IF Exists(v)
       THEN /\ pids < MaxPid
            /\ pids' = pids + 1
            /\ proc' = [pid |-> pids', program |-> v]
       ELSE proc' = NoProc /\ UNCHANGED pids

\* Starting what is up does nothing; under launchd not even while it is exiting.
StartUnit(v) ==
  \/ ~Up /\ Launch(v)
  \/ Up /\ UNCHANGED <<proc, exiting, wanted, pids>>

\* systemctl stop waits for the process, launchctl stop only signals it.
StopUnit ==
  /\ wanted' = FALSE
  /\ \/ platform = "systemd" /\ proc' = NoProc /\ UNCHANGED exiting
     \/ platform = "launchd" /\ exiting' = Up /\ UNCHANGED proc
  /\ UNCHANGED <<loaded, pids>>

\* disable --now, and unload -w, which ends the process.
DisableUnit ==
  /\ wanted' = FALSE /\ proc' = NoProc /\ exiting' = FALSE
  /\ loaded' = IF platform = "systemd" THEN loaded ELSE 0
  /\ UNCHANGED pids

-----------------------------------------------------------------------------
\* Commands.

\* The command goes on, or ends.
GoTo(at)  == cmd' = [cmd EXCEPT !.at = at]
End(fail) == cmd' = [cmd EXCEPT !.at = "idle", !.failed = fail]

\* A call the manager refuses, or one that fails or times out, its effect E then
\* uncertain.
Refused     == UNCHANGED <<job, began>>
Lost(E)     == (E \/ UNCHANGED job) /\ began' = [began EXCEPT !.spurious = TRUE]
Fine(E)     == E /\ UNCHANGED began

First(op) ==
  CASE op = "install"   -> "write"
    [] op = "uninstall" -> "disable"
    [] op = "stop"      -> "act"
    [] OTHER            -> "status"

Run(op) ==
  /\ cmd.at = "idle"
  /\ cmd' = [op |-> op, at |-> First(op), pid |-> 0, new |-> 0, failed |-> FALSE]
  /\ began' = [pids |-> pids, orphan |-> file = 0 /\ (Up \/ loaded # 0), spurious |-> FALSE]
  /\ UNCHANGED <<platform, gone, file, job>>

\* Status: launchd tells what it has loaded, also when the plist is gone.
Running == Up /\ (IF platform = "systemd" THEN file # 0 ELSE loaded # 0)
Program == IF platform = "launchd" /\ loaded # 0 THEN loaded ELSE file

\* CheckProgram, before a start or restart.
CheckFails == file # 0 /\ ~Exists(Program)

StatusFails ==
  /\ cmd.at \in {"status", "look"}
  /\ Lost(FALSE)
  /\ End(TRUE)
  /\ UNCHANGED <<platform, gone, file>>

\* Status, and what the command does with it.
Status ==
  /\ cmd.at = "status"
  /\ \/ cmd.op = "reinstall" /\ file # 0 /\ GoTo("disable")
     \/ cmd.op = "reinstall" /\ file = 0 /\ GoTo("write")
     \/ cmd.op \in {"start", "restart"} /\ CheckFails /\ End(TRUE)
     \/ /\ cmd.op \in {"start", "restart"} /\ ~CheckFails
        /\ GoTo(IF cmd.op = "restart" /\ platform = "launchd" THEN "look" ELSE "act")
     \/ cmd.op = "reload" /\ ~(file # 0 /\ Running) /\ End(TRUE)
     \/ /\ cmd.op = "reload" /\ file # 0 /\ Running
        /\ cmd' = [cmd EXCEPT !.at = "signal", !.pid = proc.pid]
  /\ UNCHANGED <<platform, gone, file, job, began>>

\* Install: ErrAlreadyInstalled, or the definition is written, or cannot be.
Write ==
  /\ cmd.at = "write"
  /\ \/ file # 0 /\ End(TRUE) /\ UNCHANGED <<file, began>>
     \/ /\ file = 0 /\ file' = Me /\ UNCHANGED began
        /\ GoTo(IF platform = "systemd" THEN "written" ELSE "enable")
     \/ /\ file = 0 /\ End(TRUE) /\ UNCHANGED file
        /\ began' = [began EXCEPT !.spurious = TRUE]
  /\ UNCHANGED <<platform, gone, job>>

\* The end of Uninstall: a reinstallation goes on with Install if all went well.
Uninstalled(failed) ==
  IF cmd.op = "reinstall" /\ ~failed THEN GoTo("write") ELSE End(failed)

\* daemon-reload: the last step of Uninstall, of Install the one before enable.
DaemonReload ==
  /\ cmd.at \in {"written", "removed"}
  /\ LET E == loaded' = file /\ UNCHANGED <<proc, exiting, wanted, pids>>
     IN \/ /\ Fine(E)
           /\ IF cmd.at = "written" THEN GoTo("enable") ELSE Uninstalled(cmd.failed)
        \/ Lost(E) /\ End(TRUE)
  /\ UNCHANGED <<platform, gone, file>>

\* enable --now, or load -w, which refuses what is loaded.
EnableUnit == loaded' = file /\ StartUnit(file)

Enable ==
  /\ cmd.at = "enable"
  /\ \/ platform = "launchd" /\ loaded # 0 /\ Refused /\ End(TRUE)
     \/ ~(platform = "launchd" /\ loaded # 0) /\ Fine(EnableUnit) /\ End(FALSE)
     \/ ~(platform = "launchd" /\ loaded # 0) /\ Lost(EnableUnit) /\ End(TRUE)
  /\ UNCHANGED <<platform, gone, file>>

\* Mutant: an uninstallation leaves the service running.
DisableKeeps ==
  /\ cmd.at = "disable"
  /\ GoTo("remove")
  /\ UNCHANGED <<platform, gone, file, job, began>>

\* Uninstall, first step: nothing to do without a definition; a failure is kept and
\* the rest is done nevertheless.  launchctl refuses to unload what is not loaded.
Disable ==
  /\ cmd.at = "disable"
  /\ \/ file = 0 /\ Refused /\ GoTo("remove")
     \/ /\ file # 0 /\ platform = "launchd" /\ loaded = 0 /\ Refused
        /\ cmd' = [cmd EXCEPT !.at = "remove", !.failed = TRUE]
     \/ /\ file # 0 /\ ~(platform = "launchd" /\ loaded = 0)
        /\ \/ Fine(DisableUnit) /\ GoTo("remove")
           \/ Lost(DisableUnit) /\ cmd' = [cmd EXCEPT !.at = "remove", !.failed = TRUE]
  /\ UNCHANGED <<platform, gone, file>>

\* Where Uninstall goes from there.
RemovedWith(failed) ==
  IF platform = "systemd" THEN cmd' = [cmd EXCEPT !.at = "removed", !.failed = failed]
                          ELSE Uninstalled(failed)

\* Mutant: what failed before the definition was removed is forgotten.
RemoveForgets ==
  /\ cmd.at = "remove"
  /\ file' = 0 /\ RemovedWith(FALSE)
  /\ UNCHANGED <<platform, gone, job, began>>

\* Uninstall: the definition is removed, or cannot be.
Remove ==
  /\ cmd.at = "remove"
  /\ \/ file' = 0 /\ RemovedWith(cmd.failed) /\ UNCHANGED began
     \/ /\ file # 0 /\ UNCHANGED file /\ RemovedWith(TRUE)
        /\ began' = [began EXCEPT !.spurious = TRUE]
  /\ UNCHANGED <<platform, gone, job>>

\* A process without unit can only be stopped.
Known == Unit # 0 \/ (cmd.op = "stop" /\ Up)

\* systemctl start and stop, launchctl start and stop.
StartStop ==
  /\ cmd.at = "act" /\ cmd.op \in {"start", "stop"}
  /\ \/ ~Known /\ Refused /\ End(TRUE)
     \/ /\ Known
        /\ LET E == \/ cmd.op = "start" /\ loaded' = Unit /\ StartUnit(Unit)
                    \/ cmd.op = "stop" /\ StopUnit
           IN \/ Fine(E) /\ End(FALSE)
              \/ Lost(E) /\ End(TRUE)
  /\ UNCHANGED <<platform, gone, file>>

\* systemctl restart.
Restart ==
  /\ cmd.at = "act" /\ cmd.op = "restart" /\ platform = "systemd"
  /\ \/ Unit = 0 /\ Refused /\ End(TRUE)
     \/ /\ Unit # 0
        /\ LET E == loaded' = Unit /\ Launch(Unit)
           IN \/ Fine(E) /\ End(FALSE)
              \/ Lost(E) /\ End(TRUE)
  /\ UNCHANGED <<platform, gone, file>>

\* launchd's Restart reads the process id of its own.
Look ==
  /\ cmd.at = "look"
  /\ \/ file = 0 /\ End(TRUE)
     \/ file # 0 /\ cmd' = [cmd EXCEPT !.at = "kickstart", !.pid = proc.pid]
  /\ UNCHANGED <<platform, gone, file, job, began>>

\* kickstart -k replaces the process and tells the new one's id, or leaves the old.
Kickstart ==
  /\ cmd.at = "kickstart"
  /\ LET E == Launch(loaded) /\ UNCHANGED loaded
         Tells == cmd' = [cmd EXCEPT !.at = "alive", !.new = proc'.pid]
     IN \/ loaded = 0 /\ Refused /\ End(TRUE)
        \/ loaded # 0 /\ Fine(E \/ (Up /\ UNCHANGED job)) /\ Tells
        \/ loaded # 0 /\ Lost(E) /\ End(TRUE)
  /\ UNCHANGED <<platform, gone, file>>

\* Mutant: any process that is alive will do.
AliveAny ==
  /\ cmd.at = "alive"
  /\ End(proc.pid # cmd.new \/ ~Up)
  /\ UNCHANGED <<platform, gone, file, job, began>>

\* Restart reports a process that has not been replaced, or is not alive any more.
Alive ==
  /\ cmd.at = "alive"
  /\ End(cmd.new = cmd.pid \/ proc.pid # cmd.new \/ ~Up)
  /\ UNCHANGED <<platform, gone, file, job, began>>

\* The signal goes to the process Status has seen, if it is still there.
Signal ==
  /\ cmd.at = "signal"
  /\ End(proc.pid # cmd.pid)
  /\ UNCHANGED <<platform, gone, file, job, began>>

\* The command is killed.
Interrupt ==
  /\ cmd.at # "idle"
  /\ End(TRUE)
  /\ began' = [began EXCEPT !.spurious = TRUE]
  /\ UNCHANGED <<platform, gone, file, job>>

-----------------------------------------------------------------------------
\* The process ends, because it was told to or failing.
Exit ==
  /\ Up
  /\ proc' = NoProc /\ exiting' = FALSE
  /\ UNCHANGED <<platform, gone, file, loaded, wanted, pids, cmd, began>>

\* The manager starts a failed service again.
Relaunch ==
  /\ wanted /\ ~Up /\ loaded # 0 /\ Exists(loaded)
  /\ Launch(loaded)
  /\ UNCHANGED <<platform, gone, file, loaded, cmd, began>>

\* A user unloads the launchd job by hand.
Unload ==
  /\ platform = "launchd" /\ loaded # 0
  /\ DisableUnit
  /\ UNCHANGED <<platform, gone, file, cmd, began>>

\* A package upgrade removes the old binary.
Upgrade ==
  /\ ~gone
  /\ gone' = TRUE
  /\ UNCHANGED <<platform, file, job, cmd, began>>

Next ==
  \/ \E op \in Op : Run(op)
  \/ StatusFails \/ Status \/ Write \/ DaemonReload \/ Enable \/ Disable \/ Remove
  \/ StartStop \/ Restart \/ Look \/ Kickstart \/ Alive \/ Signal \/ Interrupt
  \/ Exit \/ Relaunch \/ Unload \/ Upgrade

Spec == Init /\ [][Next]_vars

-----------------------------------------------------------------------------
\* A command ends and reports success.
Succeeds(op) == cmd.op = op /\ cmd.at # "idle" /\ cmd'.at = "idle" /\ ~cmd'.failed

\* "Installed and started" is true: what runs is what the new definition names,
\* although calls of earlier commands have failed half way.  Not so if the command
\* met a service that ran without definition, which it does not touch, or if the
\* binary has gone meanwhile.
InstallRuns ==
  [][(Succeeds("install") \/ Succeeds("reinstall")) /\ ~began.orphan
       => file' # 0 /\ loaded' = file' /\ (proc'.program = file' \/ ~Exists(file'))]_vars

\* "Uninstalled" is true: nothing is left that runs or would be started again.  Not
\* so if the definition was gone before.
UninstallLeavesNothing ==
  [][Succeeds("uninstall") /\ ~began.orphan => file' = 0 /\ loaded' = 0 /\ proc' = NoProc]_vars

\* A restart that reports success has replaced the process by one of its own, also
\* when the service failed and was started again in between.
RestartReplaces ==
  [][Succeeds("restart") => proc'.pid > began.pids \/ ~Exists(Unit)]_vars

\* A reinstallation loads the definition, whatever it finds, if no call fails for no
\* reason: what kickstart advises when the job is not loaded.
ReinstallLoads ==
  cmd.op = "reinstall" /\ cmd.at = "idle" /\ cmd.failed => began.spurious
=============================================================================
