--------------------------- MODULE Service_proofs ---------------------------
(***************************************************************************)
(* Proofs about Service, for any number of processes.                      *)
(***************************************************************************)
EXTENDS Service, Definitions, WellFoundedInduction, TLAPS

\* Whether nothing of the service is left, or comes back.
Clear == ~Up /\ loaded = 0
Dead  == ~Up /\ (loaded = 0 \/ (platform = "systemd" /\ ~wanted))

\* Without a definition an installation or uninstallation has met nothing that runs,
\* and it keeps to that.
Installing ==
  cmd.op \in {"install", "reinstall", "uninstall"} /\ ~began.orphan =>
    /\ cmd.at \in {"status", "disable", "write"} /\ file = 0 => Clear
    /\ cmd.at = "written" => Clear
    /\ cmd.at = "enable" => Clear \/ (loaded = file /\ (Up => proc.program = file))
    /\ cmd.at = "remove" /\ ~cmd.failed => Dead
    /\ cmd.at = "removed" /\ ~cmd.failed => Dead /\ file = 0

\* Which commands come through which stage, and with a definition or without.
Stages ==
  /\ cmd.at = "alive" \/ cmd.at = "kickstart" => cmd.op = "restart"
  /\ cmd.at = "look" => cmd.op = "restart" /\ platform = "launchd"
  /\ cmd.at \in {"written", "enable"} => cmd.op \in {"install", "reinstall"} /\ file # 0
  /\ cmd.at = "write" => cmd.op \in {"install", "reinstall"}
  /\ cmd.at \in {"disable", "remove", "removed"} => cmd.op \in {"uninstall", "reinstall"}
  /\ cmd.at = "removed" => platform = "systemd"
  /\ cmd.at = "signal" => cmd.op = "reload"

\* A process that launchd's Restart has not seen has been started since the command began.
Restarting ==
  /\ began.pids <= pids
  /\ cmd.at = "kickstart" => ~Up \/ proc.pid = cmd.pid \/ proc.pid > began.pids
  /\ cmd.at = "alive" => cmd.new \in {0, cmd.pid} \/ cmd.new > began.pids

IInv ==
  /\ TypeOK
  /\ Installing
  /\ Stages
  /\ Restarting

-----------------------------------------------------------------------------
\* The process ids that are known have been given out.
LEMMA Pids ==
  ASSUME TypeOK
  PROVE  /\ pids \in Nat /\ proc.pid \in 0 .. MaxPid /\ proc.pid \in Nat /\ proc.pid <= pids
         /\ Up <=> proc.pid # 0
         /\ Up => proc.program \in Version
  <1>1. CASE proc = NoProc
    BY <1>1, BoundAssumption DEF TypeOK, NoProc, Up
  <1>2. CASE proc \in [pid : 1 .. pids, program : Version]
    BY <1>2, BoundAssumption DEF TypeOK, NoProc, Up
  <1> QED BY <1>1, <1>2 DEF TypeOK

\* A process that is started has a new id.
LEMMA Launched ==
  ASSUME TypeOK, NEW v \in Version, Launch(v)
  PROVE  /\ \/ proc' = NoProc /\ pids' = pids /\ ~Exists(v)
            \/ proc'.pid = pids + 1 /\ proc'.program = v /\ pids' = pids + 1
         /\ proc' \in {NoProc} \cup [pid : 1 .. pids', program : Version]
         /\ pids' \in 0 .. MaxPid
         /\ wanted' = TRUE /\ exiting' = FALSE
  BY BoundAssumption DEF Launch, TypeOK

\* Whatever is done to the service keeps the types.
LEMMA JobTyped ==
  ASSUME TypeOK,
         loaded' \in {0} \cup Version,
         \/ UNCHANGED <<proc, exiting, wanted, pids>>
         \/ \E v \in Version : Launch(v)
         \/ StopUnit
         \/ DisableUnit
  PROVE  /\ proc' \in {NoProc} \cup [pid : 1 .. pids', program : Version]
         /\ exiting' \in BOOLEAN /\ wanted' \in BOOLEAN /\ pids' \in 0 .. MaxPid
         /\ pids' \in Nat /\ pids \in Nat /\ pids <= pids'
         /\ proc'.pid \in 0 .. MaxPid
         /\ proc' = proc \/ proc' = NoProc \/ proc'.pid > pids
  <1>1. CASE UNCHANGED <<proc, exiting, wanted, pids>>
    BY <1>1, Pids DEF TypeOK
  <1>2. CASE \E v \in Version : Launch(v)
    <2>1. PICK v \in Version : Launch(v)
      BY <1>2
    <2>2. /\ \/ proc' = NoProc /\ pids' = pids
             \/ proc'.pid = pids + 1 /\ pids' = pids + 1
          /\ proc' \in {NoProc} \cup [pid : 1 .. pids', program : Version]
          /\ pids' \in 0 .. MaxPid /\ wanted' = TRUE /\ exiting' = FALSE
      BY <2>1, Launched
    <2>3. proc'.pid \in 0 .. MaxPid
      BY <2>2, Pids, BoundAssumption DEF NoProc
    <2>4. pids' \in Nat /\ pids \in Nat /\ pids <= pids'
      BY <2>2, Pids
    <2>5. proc' = NoProc \/ proc'.pid > pids
      BY <2>2, Pids
    <2> QED BY <2>2, <2>3, <2>4, <2>5
  <1>3. CASE StopUnit \/ DisableUnit
    <2>1. Up \in BOOLEAN
      BY DEF Up
    <2>2. exiting' \in BOOLEAN
      BY <1>3, <2>1 DEF StopUnit, DisableUnit, TypeOK
    <2>3. proc' \in {proc, NoProc} /\ pids' = pids /\ wanted' = FALSE
      BY <1>3 DEF StopUnit, DisableUnit
    <2>4. NoProc.pid = 0
      BY DEF NoProc
    <2>5. proc'.pid \in 0 .. MaxPid /\ pids \in Nat
      BY <2>3, <2>4, Pids, BoundAssumption
    <2>6. proc' \in {NoProc} \cup [pid : 1 .. pids', program : Version]
      BY <2>3 DEF TypeOK
    <2>7. pids' \in 0 .. MaxPid /\ pids <= pids'
      BY <2>3, <2>5 DEF TypeOK
    <2> QED BY <2>2, <2>3, <2>5, <2>6, <2>7
  <1> QED BY <1>1, <1>2, <1>3

\* The record of the command keeps its type, and its operation, whatever is put into it.
Command == [op : Op \cup {"none"}, at : Stage, pid : 0 .. MaxPid, new : 0 .. MaxPid,
            failed : BOOLEAN]

LEMMA Moved ==
  ASSUME TypeOK
  PROVE  /\ \A at \in Stage : cmd' = [cmd EXCEPT !.at = at] =>
              cmd' \in Command /\ cmd'.op = cmd.op /\ cmd'.at = at
         /\ \A at \in Stage, fail \in BOOLEAN :
              cmd' = [cmd EXCEPT !.at = at, !.failed = fail] =>
              cmd' \in Command /\ cmd'.op = cmd.op /\ cmd'.at = at
         /\ \A at \in Stage, n \in 0 .. MaxPid :
              cmd' \in {[cmd EXCEPT !.at = at, !.pid = n], [cmd EXCEPT !.at = at, !.new = n]} =>
              cmd' \in Command /\ cmd'.op = cmd.op /\ cmd'.at = at
  <1>1. cmd \in Command
    BY DEF TypeOK, Command
  <1>2. ASSUME NEW at \in Stage, cmd' = [cmd EXCEPT !.at = at]
        PROVE  cmd' \in Command /\ cmd'.op = cmd.op /\ cmd'.at = at
    BY <1>1, <1>2 DEF Command
  <1>3. ASSUME NEW at \in Stage, NEW fail \in BOOLEAN,
               cmd' = [cmd EXCEPT !.at = at, !.failed = fail]
        PROVE  cmd' \in Command /\ cmd'.op = cmd.op /\ cmd'.at = at
    BY <1>1, <1>3 DEF Command
  <1>4. ASSUME NEW at \in Stage, NEW n \in 0 .. MaxPid,
               cmd' \in {[cmd EXCEPT !.at = at, !.pid = n], [cmd EXCEPT !.at = at, !.new = n]}
        PROVE  cmd' \in Command /\ cmd'.op = cmd.op /\ cmd'.at = at
    BY <1>1, <1>4 DEF Command
  <1> QED BY <1>2, <1>3, <1>4

\* Nothing is said of a command that has ended.
LEMMA Ended ==
  ASSUME cmd'.at = "idle"
  PROVE  Installing' /\ Stages'
  BY DEF Installing, Stages

\* What the history notes keeps its type and what it knew when the command began.
LEMMA Noted ==
  ASSUME TypeOK, began' \in {began, [began EXCEPT !.spurious = TRUE]}
  PROVE  /\ began' \in [pids : 0 .. MaxPid, orphan : BOOLEAN, spurious : BOOLEAN]
         /\ began'.pids = began.pids /\ began'.orphan = began.orphan
         /\ began.pids \in Nat
  <1>1. began \in [pids : 0 .. MaxPid, orphan : BOOLEAN, spurious : BOOLEAN]
    BY DEF TypeOK
  <1>2. began.pids \in Nat
    BY <1>1, BoundAssumption
  <1> QED BY <1>1, <1>2

\* Nothing is installed at first.
LEMMA Initially == Init => IInv
  <1> SUFFICES ASSUME Init PROVE IInv
    OBVIOUS
  <1>1. /\ file \in {0} \cup Version /\ loaded \in {0} \cup Version
        /\ cmd \in [op : Op \cup {"none"}, at : Stage, pid : 0 .. MaxPid, new : 0 .. MaxPid,
                    failed : BOOLEAN]
    BY BoundAssumption DEF Init, Stage
  <1>2. /\ began \in [pids : 0 .. MaxPid, orphan : BOOLEAN, spurious : BOOLEAN]
        /\ pids \in 0 .. MaxPid
    BY BoundAssumption DEF Init
  <1>3. TypeOK
    BY <1>1, <1>2 DEF Init, TypeOK
  <1>4. Installing /\ Stages
    BY DEF Init, Installing, Stages
  <1>5. Restarting
    BY DEF Init, Restarting
  <1> QED BY <1>3, <1>4, <1>5 DEF IInv

\* Every step keeps the invariant.
LEMMA Inductive == IInv /\ [Next]_vars => IInv'
  <1> SUFFICES ASSUME IInv, [Next]_vars PROVE IInv'
    OBVIOUS
  <1> USE PlatformAssumption, BoundAssumption DEF IInv, job, GoTo
  <1>1. ASSUME NEW op \in Op, Run(op)
        PROVE  IInv'
    <2>1. TypeOK'
      BY <1>1 DEF Run, First, TypeOK, Stage
    <2>2. Installing'
      BY <1>1 DEF Run, First, Installing, Clear, Up
    <2>3. Stages'
      BY <1>1 DEF Run, First, Stages
    <2>4. Restarting'
      BY <1>1 DEF Run, First, TypeOK, Restarting
    <2> QED BY <2>1, <2>2, <2>3, <2>4
  <1>2. CASE StatusFails
    <2>1. TypeOK'
      BY <1>2 DEF StatusFails, End, Lost, TypeOK, Stage
    <2>2. Installing'
      BY <1>2 DEF StatusFails, End, Lost, Installing
    <2>3. Stages'
      BY <1>2 DEF StatusFails, End, Lost, Stages
    <2>4. Restarting'
      BY <1>2 DEF StatusFails, End, Lost, Restarting
    <2> QED BY <2>1, <2>2, <2>3, <2>4
  <1>3. CASE Status
    <2>1. /\ proc.pid \in 0 .. MaxPid /\ UNCHANGED <<platform, gone, file, job, began>>
          /\ cmd.at = "status"
      BY <1>3, Pids DEF Status
    <2>2. \/ cmd' = [cmd EXCEPT !.at = "disable"] /\ cmd.op = "reinstall"
          \/ cmd' = [cmd EXCEPT !.at = "write"] /\ cmd.op = "reinstall" /\ file = 0
          \/ cmd' = [cmd EXCEPT !.at = "idle", !.failed = TRUE]
          \/ cmd' = [cmd EXCEPT !.at = "look"] /\ cmd.op = "restart" /\ platform = "launchd"
          \/ cmd' = [cmd EXCEPT !.at = "act"] /\ cmd.op \in {"start", "restart"}
          \/ cmd' = [cmd EXCEPT !.at = "signal", !.pid = proc.pid] /\ cmd.op = "reload"
      BY <1>3 DEF Status, End
    <2>3. cmd' \in Command /\ cmd'.op = cmd.op
      BY <2>1, <2>2, Moved DEF Stage
    <2>4. \/ cmd'.at \in {"disable", "write"} /\ cmd.op = "reinstall"
          \/ cmd'.at \in {"idle", "act"}
          \/ cmd'.at = "look" /\ cmd.op = "restart" /\ platform = "launchd"
          \/ cmd'.at = "signal" /\ cmd.op = "reload"
      BY <2>1, <2>2, Moved DEF Stage
    <2>5. TypeOK'
      BY <2>1, <2>3 DEF TypeOK, Command
    <2>6. Installing'
      BY <2>1, <2>3, <2>4 DEF Installing, Clear, Up
    <2>7. Stages'
      BY <2>1, <2>3, <2>4 DEF Stages
    <2>8. Restarting'
      BY <2>1, <2>4 DEF Restarting
    <2> QED BY <2>5, <2>6, <2>7, <2>8
  <1>4. CASE Write
    <2>1. /\ UNCHANGED <<platform, gone, job>> /\ cmd.at = "write"
          /\ began' \in {began, [began EXCEPT !.spurious = TRUE]}
          /\ file' \in {file, Me}
      BY <1>4 DEF Write
    <2>2. \/ cmd' = [cmd EXCEPT !.at = "idle", !.failed = TRUE]
          \/ cmd' = [cmd EXCEPT !.at = "written"] /\ file = 0 /\ file' = Me
          \/ cmd' = [cmd EXCEPT !.at = "enable"] /\ file = 0 /\ file' = Me
      BY <1>4 DEF Write, End
    <2>3. cmd' \in Command /\ cmd'.op = cmd.op
      BY <2>2, Moved DEF Stage
    <2>4. cmd'.at = "idle" \/ (cmd'.at \in {"written", "enable"} /\ file = 0 /\ file' = Me)
      BY <2>2, Moved DEF Stage
    <2>5. Me \in Version /\ Me # 0
      BY DEF Me, Version
    <2>6. TypeOK'
      BY <2>1, <2>3, <2>5, Noted DEF TypeOK, Command
    <2>7. Installing'
      BY <2>1, <2>3, <2>4, <2>5, Noted DEF Installing, Clear, Dead, Up
    <2>8. Stages'
      BY <2>1, <2>3, <2>4, <2>5 DEF Stages
    <2>9. Restarting'
      BY <2>1, <2>4, Noted DEF Restarting
    <2> QED BY <2>6, <2>7, <2>8, <2>9
  <1>5. CASE DaemonReload
    <2>1. /\ UNCHANGED <<platform, gone, file, proc, exiting, wanted, pids>>
          /\ loaded' \in {loaded, file}
          /\ began' \in {began, [began EXCEPT !.spurious = TRUE]}
          /\ cmd.at \in {"written", "removed"}
      BY <1>5 DEF DaemonReload, Fine, Lost
    <2>2. \/ cmd' = [cmd EXCEPT !.at = "idle", !.failed = TRUE]
          \/ cmd' = [cmd EXCEPT !.at = "idle", !.failed = cmd.failed]
          \/ cmd' = [cmd EXCEPT !.at = "enable"] /\ cmd.at = "written" /\ loaded' = file
          \/ /\ cmd' = [cmd EXCEPT !.at = "write"] /\ cmd.at = "removed" /\ loaded' = file
             /\ cmd.op = "reinstall" /\ ~cmd.failed
      BY <1>5 DEF DaemonReload, Fine, Uninstalled, End
    <2>3. cmd' \in Command /\ cmd'.op = cmd.op
      <3>1. cmd.failed \in BOOLEAN
        BY DEF TypeOK
      <3> QED BY <2>2, <3>1, Moved DEF Stage
    <2>4. \/ cmd'.at = "idle"
          \/ cmd'.at = "enable" /\ cmd.at = "written" /\ loaded' = file
          \/ /\ cmd'.at = "write" /\ cmd.at = "removed" /\ loaded' = file
             /\ cmd.op = "reinstall" /\ ~cmd.failed
      BY <2>2, Moved DEF Stage, TypeOK
    <2>5. TypeOK'
      BY <2>1, <2>3, Noted DEF TypeOK, Command
    <2>6. Installing'
      BY <2>1, <2>3, <2>4, Noted DEF Installing, Clear, Dead, Up
    <2>7. Stages'
      BY <2>1, <2>3, <2>4 DEF Stages
    <2>8. Restarting'
      BY <2>1, <2>4, Noted DEF Restarting
    <2> QED BY <2>5, <2>6, <2>7, <2>8
  <1>6. CASE Enable
    <2>1. /\ loaded' \in {0} \cup Version
          /\ \/ UNCHANGED <<proc, exiting, wanted, pids>>
             \/ \E v \in Version : Launch(v)
             \/ StopUnit
             \/ DisableUnit
      BY <1>6 DEF Enable, EnableUnit, StartUnit, Fine, Lost, Refused, TypeOK, Stages
    <2>2. /\ UNCHANGED <<platform, gone, file>>
          /\ began' \in {began, [began EXCEPT !.spurious = TRUE]}
      BY <1>6 DEF Enable, Fine, Lost, Refused
    <2>3. \E fail \in BOOLEAN : cmd' = [cmd EXCEPT !.at = "idle", !.failed = fail]
      BY <1>6 DEF Enable, End
    <2>4. cmd' \in Command /\ cmd'.at = "idle"
      BY <2>3, Moved DEF Stage
    <2>5. TypeOK'
      BY <2>1, <2>2, <2>4, JobTyped, Noted DEF TypeOK, Command
    <2>6. Installing' /\ Stages'
      BY <2>4, Ended
    <2>7. Restarting'
      BY <2>1, <2>2, <2>4, JobTyped, Noted DEF Restarting
    <2> QED BY <2>5, <2>6, <2>7
  <1>7. CASE Disable
    <2>1. /\ UNCHANGED <<platform, gone, file>> /\ cmd.at = "disable"
          /\ began' \in {began, [began EXCEPT !.spurious = TRUE]}
          /\ UNCHANGED job \/ DisableUnit
      BY <1>7 DEF Disable, Fine, Lost, Refused
    <2>2. \/ cmd' = [cmd EXCEPT !.at = "remove"]
          \/ cmd' = [cmd EXCEPT !.at = "remove", !.failed = TRUE]
      BY <1>7 DEF Disable
    <2>3. cmd' \in Command /\ cmd'.op = cmd.op /\ cmd'.at = "remove"
      BY <2>2, Moved DEF Stage
    <2>4. \/ file = 0 /\ UNCHANGED job
          \/ cmd'.failed
          \/ file # 0 /\ DisableUnit
      <3>1. [cmd EXCEPT !.at = "remove", !.failed = TRUE].failed
        BY DEF TypeOK
      <3> QED BY <1>7, <3>1 DEF Disable, Fine, Lost, Refused
    <2>5. TypeOK'
      <3>1. /\ loaded' \in {0} \cup Version /\ proc' \in {NoProc, proc}
            /\ exiting' \in BOOLEAN /\ wanted' \in BOOLEAN /\ pids' = pids
        BY <2>1 DEF DisableUnit, TypeOK
      <3>2. proc' \in {NoProc} \cup [pid : 1 .. pids', program : Version]
        BY <3>1 DEF TypeOK
      <3> QED BY <2>1, <2>3, <3>1, <3>2, Noted DEF TypeOK, Command
    <2>6. Installing'
      <3>1. cmd.op \in {"uninstall", "reinstall"}
        BY <2>1 DEF Stages
      <3>2. SUFFICES ASSUME ~cmd'.failed, ~began.orphan
                     PROVE  Dead'
        BY <2>3, Noted, <2>1 DEF Installing
      <3>3. CASE file = 0 /\ UNCHANGED job
        BY <2>1, <3>1, <3>2, <3>3 DEF Installing, Clear, Dead, Up
      <3>4. CASE file # 0 /\ DisableUnit
        BY <2>1, <3>4 DEF DisableUnit, Dead, Up, TypeOK
      <3> QED BY <2>4, <3>2, <3>3, <3>4
    <2>7. Stages'
      BY <2>1, <2>3 DEF Stages
    <2>8. Restarting'
      BY <2>1, <2>3, Noted DEF Restarting, DisableUnit
    <2> QED BY <2>5, <2>6, <2>7, <2>8
  <1>8. CASE Remove
    <2>1. /\ UNCHANGED <<platform, gone, job>> /\ cmd.at = "remove"
          /\ began' \in {began, [began EXCEPT !.spurious = TRUE]}
          /\ file' \in {0, file}
      BY <1>8 DEF Remove
    <2>2. PICK f \in {cmd.failed, TRUE} :
            /\ ~f => ~cmd.failed /\ file' = 0
            /\ \/ cmd' = [cmd EXCEPT !.at = "removed", !.failed = f] /\ platform = "systemd"
               \/ cmd' = [cmd EXCEPT !.at = "idle", !.failed = f]
               \/ /\ cmd' = [cmd EXCEPT !.at = "write"] /\ platform # "systemd"
                  /\ cmd.op = "reinstall" /\ ~f
      BY <1>8 DEF Remove, RemovedWith, Uninstalled, End
    <2>3. f \in BOOLEAN
      BY <2>2 DEF TypeOK
    <2>4. cmd' \in Command /\ cmd'.op = cmd.op
      BY <2>2, <2>3, Moved DEF Stage
    <2>5. \/ cmd'.at = "removed" /\ platform = "systemd"
          \/ cmd'.at = "idle"
          \/ cmd'.at = "write" /\ platform # "systemd" /\ cmd.op = "reinstall" /\ ~f
      BY <2>2, <2>3, Moved DEF Stage
    <2>6. cmd'.at = "removed" => cmd'.failed = f
      BY <2>2, <2>3 DEF TypeOK
    <2>7. TypeOK'
      BY <2>1, <2>4, Noted DEF TypeOK, Command
    <2>8. Installing'
      BY <2>1, <2>2, <2>4, <2>5, <2>6, Noted DEF Installing, Clear, Dead, Up
    <2>9. Stages'
      BY <2>1, <2>4, <2>5 DEF Stages
    <2>10. Restarting'
      BY <2>1, <2>5, Noted DEF Restarting
    <2> QED BY <2>7, <2>8, <2>9, <2>10
  <1>9. CASE StartStop
    <2>1. /\ loaded' \in {0} \cup Version
          /\ \/ UNCHANGED <<proc, exiting, wanted, pids>>
             \/ \E v \in Version : Launch(v)
             \/ StopUnit
             \/ DisableUnit
      BY <1>9 DEF StartStop, Known, Unit, StartUnit, StopUnit, Fine, Lost, Refused, TypeOK
    <2>2. /\ UNCHANGED <<platform, gone, file>>
          /\ began' \in {began, [began EXCEPT !.spurious = TRUE]}
      BY <1>9 DEF StartStop, Fine, Lost, Refused
    <2>3. \E fail \in BOOLEAN : cmd' = [cmd EXCEPT !.at = "idle", !.failed = fail]
      BY <1>9 DEF StartStop, End
    <2>4. cmd' \in Command /\ cmd'.at = "idle"
      BY <2>3, Moved DEF Stage
    <2>5. TypeOK'
      BY <2>1, <2>2, <2>4, JobTyped, Noted DEF TypeOK, Command
    <2>6. Installing' /\ Stages'
      BY <2>4, Ended
    <2>7. Restarting'
      BY <2>1, <2>2, <2>4, JobTyped, Noted DEF Restarting
    <2> QED BY <2>5, <2>6, <2>7
  <1>10. CASE Restart
    <2>1. /\ loaded' \in {0} \cup Version
          /\ \/ UNCHANGED <<proc, exiting, wanted, pids>>
             \/ \E v \in Version : Launch(v)
             \/ StopUnit
             \/ DisableUnit
      BY <1>10 DEF Restart, Unit, Fine, Lost, Refused, TypeOK
    <2>2. /\ UNCHANGED <<platform, gone, file>>
          /\ began' \in {began, [began EXCEPT !.spurious = TRUE]}
      BY <1>10 DEF Restart, Fine, Lost, Refused
    <2>3. \E fail \in BOOLEAN : cmd' = [cmd EXCEPT !.at = "idle", !.failed = fail]
      BY <1>10 DEF Restart, End
    <2>4. cmd' \in Command /\ cmd'.at = "idle"
      BY <2>3, Moved DEF Stage
    <2>5. TypeOK'
      BY <2>1, <2>2, <2>4, JobTyped, Noted DEF TypeOK, Command
    <2>6. Installing' /\ Stages'
      BY <2>4, Ended
    <2>7. Restarting'
      BY <2>1, <2>2, <2>4, JobTyped, Noted DEF Restarting
    <2> QED BY <2>5, <2>6, <2>7
  <1>11. CASE Look
    <2>1. /\ proc.pid \in 0 .. MaxPid /\ UNCHANGED <<platform, gone, file, job, began>>
          /\ cmd.at = "look"
      BY <1>11, Pids DEF Look
    <2>2. \/ cmd' = [cmd EXCEPT !.at = "idle", !.failed = TRUE]
          \/ cmd' = [cmd EXCEPT !.at = "kickstart", !.pid = proc.pid]
      BY <1>11 DEF Look, End
    <2>3. /\ cmd' \in Command /\ cmd'.op = cmd.op
          /\ cmd'.at \in {"idle", "kickstart"}
      BY <2>1, <2>2, Moved DEF Stage
    <2>4. cmd'.at = "kickstart" => cmd'.pid = proc.pid
      BY <2>2 DEF TypeOK
    <2>5. TypeOK'
      BY <2>1, <2>3 DEF TypeOK, Command
    <2>6. Installing'
      BY <2>3 DEF Installing
    <2>7. Stages'
      BY <2>1, <2>3 DEF Stages
    <2>8. Restarting'
      BY <2>1, <2>3, <2>4 DEF Restarting
    <2> QED BY <2>5, <2>6, <2>7, <2>8
  <1>12. CASE Kickstart
    <2>1. /\ loaded' \in {0} \cup Version
          /\ \/ UNCHANGED <<proc, exiting, wanted, pids>>
             \/ \E v \in Version : Launch(v)
             \/ StopUnit
             \/ DisableUnit
      BY <1>12 DEF Kickstart, Fine, Lost, Refused, TypeOK
    <2>2. /\ UNCHANGED <<platform, gone, file>> /\ cmd.at = "kickstart"
          /\ began' \in {began, [began EXCEPT !.spurious = TRUE]}
      BY <1>12 DEF Kickstart, Fine, Lost, Refused
    <2>3. /\ proc' \in {NoProc} \cup [pid : 1 .. pids', program : Version]
          /\ exiting' \in BOOLEAN /\ wanted' \in BOOLEAN /\ pids' \in 0 .. MaxPid
          /\ pids' \in Nat /\ pids \in Nat /\ pids <= pids'
          /\ proc'.pid \in 0 .. MaxPid
          /\ proc' = proc \/ proc' = NoProc \/ proc'.pid > pids
      BY <2>1, JobTyped
    <2>4. \/ cmd' = [cmd EXCEPT !.at = "idle", !.failed = TRUE]
          \/ cmd' = [cmd EXCEPT !.at = "alive", !.new = proc'.pid]
      BY <1>12 DEF Kickstart, End
    <2>5. /\ cmd' \in Command /\ cmd'.op = cmd.op
          /\ cmd'.at \in {"idle", "alive"}
      BY <2>3, <2>4, Moved DEF Stage
    <2>6. cmd'.at = "alive" => cmd'.new = proc'.pid /\ cmd'.pid = cmd.pid
      BY <2>4 DEF TypeOK
    <2>7. TypeOK'
      BY <2>1, <2>2, <2>3, <2>5, Noted DEF TypeOK, Command
    <2>8. Installing'
      BY <2>5 DEF Installing
    <2>9. Stages'
      BY <2>2, <2>5 DEF Stages
    <2>10. Restarting'
      BY <2>2, <2>3, <2>5, <2>6, Noted, Pids DEF Restarting, NoProc, Up
    <2> QED BY <2>7, <2>8, <2>9, <2>10
  <1>13. CASE Alive
    <2>1. TypeOK'
      BY <1>13 DEF Alive, End, TypeOK, Stage
    <2>2. Installing'
      BY <1>13 DEF Alive, End, Installing
    <2>3. Stages'
      BY <1>13 DEF Alive, End, Stages
    <2>4. Restarting'
      BY <1>13 DEF Alive, End, Restarting
    <2> QED BY <2>1, <2>2, <2>3, <2>4
  <1>14. CASE Signal
    <2>1. TypeOK'
      BY <1>14 DEF Signal, End, TypeOK, Stage
    <2>2. Installing'
      BY <1>14 DEF Signal, End, Installing
    <2>3. Stages'
      BY <1>14 DEF Signal, End, Stages
    <2>4. Restarting'
      BY <1>14 DEF Signal, End, Restarting
    <2> QED BY <2>1, <2>2, <2>3, <2>4
  <1>15. CASE Interrupt
    <2>1. TypeOK'
      BY <1>15 DEF Interrupt, End, TypeOK, Stage
    <2>2. Installing'
      BY <1>15 DEF Interrupt, End, Installing
    <2>3. Stages'
      BY <1>15 DEF Interrupt, End, Stages
    <2>4. Restarting'
      BY <1>15 DEF Interrupt, End, Restarting
    <2> QED BY <2>1, <2>2, <2>3, <2>4
  <1>16. CASE Exit
    <2>1. TypeOK'
      BY <1>16 DEF Exit, TypeOK
    <2>2. Installing'
      BY <1>16 DEF Exit, Installing, Clear, Dead, Up
    <2>3. Restarting'
      BY <1>16 DEF Exit, Restarting, Up
    <2>4. Stages'
      BY <1>16 DEF Exit, Stages
    <2> QED BY <2>1, <2>2, <2>3, <2>4
  <1>17. CASE Relaunch
    <2>1. TypeOK'
      <3>1. loaded \in Version /\ UNCHANGED <<platform, gone, file, loaded, cmd, began>>
        BY <1>17 DEF Relaunch, TypeOK
      <3>2. /\ proc' \in {NoProc} \cup [pid : 1 .. pids', program : Version]
            /\ pids' \in 0 .. MaxPid /\ wanted' = TRUE /\ exiting' = FALSE
        BY <1>17, <3>1, Launched DEF Relaunch
      <3> QED BY <3>1, <3>2 DEF TypeOK
    <2>2. Installing'
      BY <1>17 DEF Relaunch, Launch, Installing, Clear, Dead
    <2>3. Restarting'
      BY <1>17 DEF Relaunch, Launch, TypeOK, Restarting
    <2>4. Stages'
      BY <1>17 DEF Relaunch, Launch, Stages
    <2> QED BY <2>1, <2>2, <2>3, <2>4
  <1>18. CASE Unload
    <2>1. TypeOK'
      BY <1>18 DEF Unload, DisableUnit, TypeOK
    <2>2. Installing'
      BY <1>18 DEF Unload, DisableUnit, Installing, Clear, Dead, Up
    <2>3. Restarting'
      BY <1>18 DEF Unload, DisableUnit, Restarting, Up
    <2>4. Stages'
      BY <1>18 DEF Unload, DisableUnit, Stages
    <2> QED BY <2>1, <2>2, <2>3, <2>4
  <1>19. CASE Upgrade
    <2>1. TypeOK'
      BY <1>19 DEF Upgrade, TypeOK
    <2>2. Installing' /\ Stages' /\ Restarting'
      BY <1>19 DEF Upgrade, Installing, Stages, Restarting, Clear, Dead, Up
    <2> QED BY <2>1, <2>2
  <1>20. CASE UNCHANGED vars
    BY <1>20 DEF vars, TypeOK, Installing, Stages, Restarting, Clear, Dead, Up
  <1> QED
    BY <1>1, <1>2, <1>3, <1>4, <1>5, <1>6, <1>7, <1>8, <1>9, <1>10, <1>11, <1>12,
       <1>13, <1>14, <1>15, <1>16, <1>17, <1>18, <1>19, <1>20
    DEF Next

\* The invariant holds throughout.
LEMMA Invariance == Spec => []IInv
  BY Initially, Inductive, PTL DEF Spec

-----------------------------------------------------------------------------
\* The variables keep their types.
THEOREM TypeCorrect == Spec => []TypeOK
  <1>1. IInv => TypeOK
    BY DEF IInv
  <1> QED BY <1>1, Invariance, PTL

\* A command reports success after one of these steps.
LEMMA Successes ==
  ASSUME IInv, [Next]_vars, cmd.at # "idle", cmd'.at = "idle", ~cmd'.failed
  PROVE  \/ /\ cmd.at = "enable" /\ EnableUnit /\ UNCHANGED <<gone, file>>
         \/ /\ cmd.at = "removed" /\ ~cmd.failed /\ cmd.op # "reinstall"
            /\ loaded' = file /\ UNCHANGED <<file, proc>>
         \/ /\ cmd.at = "remove" /\ ~cmd.failed /\ cmd.op # "reinstall" /\ platform # "systemd"
            /\ file' = 0 /\ UNCHANGED <<loaded, proc>>
         \/ cmd.op = "restart" /\ Unit # 0 /\ Launch(Unit)
         \/ Alive /\ cmd.new # cmd.pid /\ proc.pid = cmd.new /\ Up
         \/ cmd.op \in {"start", "stop", "reload"}
  <1> USE DEF job, GoTo, IInv
  <1>0. cmd \in [op : Op \cup {"none"}, at : Stage, pid : 0 .. MaxPid, new : 0 .. MaxPid,
                 failed : BOOLEAN]
    BY DEF TypeOK
  <1>1. CASE Enable
    BY <1>0, <1>1 DEF Enable, End, Fine, Lost
  <1>2. CASE DaemonReload
    BY <1>0, <1>2 DEF DaemonReload, Uninstalled, End, Fine, Lost
  <1>3. CASE Remove
    BY <1>0, <1>3 DEF Remove, RemovedWith, Uninstalled, End
  <1>4. CASE Restart
    BY <1>0, <1>4 DEF Restart, End, Fine, Lost
  <1>5. CASE Alive
    BY <1>0, <1>5 DEF Alive, End
  <1>6. CASE StartStop \/ Signal
    BY <1>6 DEF StartStop, Signal, Stages
  <1>7. CASE Status \/ Look
    BY <1>0, <1>7 DEF Status, Look, End
  <1>8. CASE StatusFails \/ Write \/ Disable \/ Kickstart \/ Interrupt
    BY <1>0, <1>8 DEF StatusFails, Write, Disable, Kickstart, Interrupt, End
  <1>9. CASE cmd' = cmd \/ \E op \in Op : Run(op)
    BY <1>9 DEF Run
  <1> QED
    BY <1>1, <1>2, <1>3, <1>4, <1>5, <1>6, <1>7, <1>8, <1>9
       DEF Next, Exit, Relaunch, Unload, Upgrade, vars

\* What an installation says is installed and started is what runs.
THEOREM InstalledRuns == Spec => InstallRuns
  <1>1. ASSUME IInv, [Next]_vars, Succeeds("install") \/ Succeeds("reinstall"), ~began.orphan
        PROVE  file' # 0 /\ loaded' = file' /\ (proc'.program = file' \/ ~Exists(file'))
    <2> USE <1>1
    <2>1. cmd.at = "enable" /\ EnableUnit /\ UNCHANGED <<gone, file>>
      BY Successes DEF Succeeds, IInv, Stages, Installing, Alive
    <2>2. file \in Version /\ TypeOK /\ (Clear \/ (loaded = file /\ (Up => proc.program = file)))
      BY <2>1 DEF Succeeds, IInv, Stages, Installing, TypeOK
    <2>3. Up => proc' = proc /\ proc.program = file
      BY <2>1, <2>2 DEF EnableUnit, StartUnit, Clear
    <2>4. ~Up => proc'.program = file \/ ~Exists(file)
      BY <2>1, <2>2, Launched DEF EnableUnit, StartUnit
    <2> QED BY <2>1, <2>2, <2>3, <2>4 DEF EnableUnit, Exists, Version
  <1>2. IInv /\ [Next]_vars =>
          [(Succeeds("install") \/ Succeeds("reinstall")) /\ ~began.orphan
             => file' # 0 /\ loaded' = file' /\ (proc'.program = file' \/ ~Exists(file'))]_vars
    BY <1>1
  <1> QED BY <1>2, Invariance, PTL DEF Spec, InstallRuns

\* After what an uninstallation calls success nothing runs or will.
THEOREM UninstalledIsGone == Spec => UninstallLeavesNothing
  <1>1. ASSUME IInv, [Next]_vars, Succeeds("uninstall"), ~began.orphan
        PROVE  file' = 0 /\ loaded' = 0 /\ proc' = NoProc
    BY <1>1, Successes DEF Succeeds, IInv, Stages, Installing, Dead, Up, Alive
  <1>2. IInv /\ [Next]_vars =>
          [Succeeds("uninstall") /\ ~began.orphan
             => file' = 0 /\ loaded' = 0 /\ proc' = NoProc]_vars
    BY <1>1
  <1> QED BY <1>2, Invariance, PTL DEF Spec, UninstallLeavesNothing

\* A restart that reports success has brought up a process of its own.
THEOREM RestartedIsNew == Spec => RestartReplaces
  <1>1. ASSUME IInv, [Next]_vars, Succeeds("restart")
        PROVE  proc'.pid > began.pids \/ ~Exists(Unit)
    <2> USE <1>1
    <2>1. /\ TypeOK /\ pids \in Nat /\ began.pids \in Nat /\ began.pids <= pids
      BY BoundAssumption DEF IInv, TypeOK, Restarting
    <2>2. \/ Unit # 0 /\ Launch(Unit)
          \/ Alive /\ cmd.new # cmd.pid /\ proc.pid = cmd.new /\ Up
      BY Successes DEF Succeeds, IInv, Stages
    <2>3. CASE Unit # 0 /\ Launch(Unit)
      <3>1. Unit \in Version
        BY <2>1, <2>3 DEF Unit, TypeOK
      <3>2. proc'.pid = pids + 1 \/ ~Exists(Unit)
        BY <2>1, <2>3, <3>1, Launched
      <3> QED BY <2>1, <3>2
    <2>4. CASE Alive /\ cmd.new # cmd.pid /\ proc.pid = cmd.new /\ Up
      <3>1. proc' = proc /\ proc.pid # 0
        BY <2>1, <2>4, Pids DEF Alive, job
      <3> QED BY <2>4, <3>1 DEF Alive, IInv, Restarting
    <2> QED BY <2>2, <2>3, <2>4
  <1>2. IInv /\ [Next]_vars =>
          [Succeeds("restart") => proc'.pid > began.pids \/ ~Exists(Unit)]_vars
    BY <1>1
  <1> QED BY <1>2, Invariance, PTL DEF Spec, RestartReplaces

-----------------------------------------------------------------------------
(***************************************************************************)
(* The systemd unit that Install writes and Status reads: a command line   *)
(* survives quoting and reading, whatever its paths contain.               *)
(***************************************************************************)
\* A non-empty set of numbers has a lowest.
LEMMA Lowest ==
  ASSUME NEW S \in SUBSET Nat, S # {}
  PROVE  \E x \in S : \A y \in S : x <= y
  <1>1. PICK x \in S : \A y \in S : ~ (<<y, x>> \in OpToRel(<, Nat))
    <2> HIDE DEF OpToRel
    <2> QED BY NatLessThanWellFounded, WFMin, Zenon
  <1>2. \A y \in S : ~(y < x)
    BY <1>1 DEF OpToRel
  <1> QED BY <1>2

\* What holds of 0 and passes from each number to the next holds up to N.
LEMMA UpToN ==
  ASSUME NEW N \in Nat, NEW S \in SUBSET (0 .. N),
         0 \in S, \A n \in 1 .. N : n - 1 \in S => n \in S
  PROVE  S = 0 .. N
  <1> SUFFICES ASSUME (0 .. N) \ S # {} PROVE FALSE
    OBVIOUS
  <1>1. PICK n \in (0 .. N) \ S : \A m \in (0 .. N) \ S : n <= m
    <2>1. (0 .. N) \ S \in SUBSET Nat
      OBVIOUS
    <2> QED BY <2>1, Lowest
  <1>2. n \in 1 .. N /\ n - 1 \in 0 .. N
    BY <1>1
  <1>3. n - 1 \in S
    BY <1>1, <1>2
  <1> QED BY <1>1, <1>2, <1>3

\* The items of T take S to S.
Closed(step, S, T) == \A a \in S, b \in T : step[b][a] \in S

\* r goes from s through the items.
Through(r, S, step, s, items) ==
  /\ r \in [0 .. Len(items) -> S]
  /\ r[0] = s
  /\ \A n \in 1 .. Len(items) : r[n] = step[items[n]][r[n - 1]]

\* A scan is a run to the end.
LEMMA ScanIsRun ==
  ASSUME NEW S, NEW T, NEW step, NEW s \in S, NEW items \in Seq(T),
         Closed(step, S, T)
  PROVE  \E r : Through(r, S, step, s, items) /\ Scan(step, s, items) = r[Len(items)]
  <1> DEFINE N == Len(items)
             Whole(r) == r = [n \in 0 .. N |-> IF n = 0 THEN s ELSE step[items[n]][r[n - 1]]]
             Part(m, r) == /\ r \in [0 .. m -> S] /\ r[0] = s
                           /\ \A n \in 1 .. m : r[n] = step[items[n]][r[n - 1]]
             Reached == {m \in 0 .. N : \E r : Part(m, r)}
  <1>0. N \in Nat /\ \A n \in 1 .. N : items[n] \in T
    OBVIOUS
  <1>1. 0 \in Reached
    <2>1. Part(0, [n \in 0 .. 0 |-> s])
      OBVIOUS
    <2> HIDE DEF Part
    <2> QED BY <2>1, <1>0
  <1>2. ASSUME NEW m \in 1 .. N, m - 1 \in Reached PROVE m \in Reached
    <2>1. PICK r : Part(m - 1, r)
      <3> HIDE DEF Part
      <3> QED BY <1>2
    <2>2. PICK v : v = [n \in 0 .. m |-> IF n = m THEN step[items[m]][r[m - 1]] ELSE r[n]]
      OBVIOUS
    <2>3. r[m - 1] \in S /\ items[m] \in T
      BY <2>1, <1>0
    <2>4. v \in [0 .. m -> S] /\ v[0] = s
      BY <2>1, <2>2, <2>3 DEF Closed
    <2>5. ASSUME NEW n \in 1 .. m PROVE v[n] = step[items[n]][v[n - 1]]
      <3>1. CASE n = m
        BY <3>1, <2>2
      <3>2. CASE n # m
        BY <3>2, <2>1, <2>2
      <3> QED BY <3>1, <3>2
    <2>6. Part(m, v)
      BY <2>4, <2>5
    <2> HIDE DEF Part
    <2> QED BY <2>6
  <1>3. Reached = 0 .. N
    <2>1. Reached \in SUBSET (0 .. N)
      OBVIOUS
    <2> HIDE DEF Reached
    <2> QED BY <1>0, <1>1, <1>2, <2>1, UpToN
  <1>4. PICK r : Part(N, r)
    <2>1. N \in Reached
      BY <1>0, <1>3
    <2> HIDE DEF Part
    <2> QED BY <2>1
  <1>5. Whole(r)
    BY <1>0, <1>4
  <1>6. \A v : Whole(v) => v = r
    <2> SUFFICES ASSUME NEW v, Whole(v) PROVE v = r
      OBVIOUS
    <2> DEFINE Same == {n \in 0 .. N : v[n] = r[n]}
    <2>1. 0 \in Same
      BY <1>0, <1>5
    <2>2. ASSUME NEW n \in 1 .. N, n - 1 \in Same PROVE n \in Same
      <3>1. n \in 0 .. N /\ n # 0 /\ v[n - 1] = r[n - 1]
        BY <2>2
      <3>2. v[n] = step[items[n]][v[n - 1]]
        BY <3>1
      <3>3. r[n] = step[items[n]][r[n - 1]]
        BY <3>1, <1>5
      <3> QED BY <3>1, <3>2, <3>3
    <2>3. Same = 0 .. N
      <3>1. Same \in SUBSET (0 .. N)
        OBVIOUS
      <3> HIDE DEF Same
      <3> QED BY <1>0, <2>1, <2>2, <3>1, UpToN
    <2> QED BY <2>3, <1>5
  <1>7. (CHOOSE v : Whole(v)) = r
    BY <1>5, <1>6
  <1>8. Scan(step, s, items) = (CHOOSE v : Whole(v))[N]
    BY DEF Scan
  <1> QED BY <1>4, <1>7, <1>8 DEF Through

\* The items may be scanned from s.
Scannable(step, S, T, s, items) == s \in S /\ items \in Seq(T) /\ Closed(step, S, T)

\* Such a scan is a run to the end.
LEMMA ScannableRuns ==
  ASSUME NEW S, NEW T, NEW step, NEW s, NEW items, Scannable(step, S, T, s, items)
  PROVE  \E r : Through(r, S, step, s, items) /\ Scan(step, s, items) = r[Len(items)]
  <1>1. s \in S /\ items \in Seq(T) /\ Closed(step, S, T)
    BY DEF Scannable
  <1> QED BY <1>1, ScanIsRun

\* Scans of no item, of one and of two.
LEMMA ShortScans ==
  ASSUME NEW S, NEW T, NEW step, NEW s \in S, NEW p \in T, NEW q \in T,
         Closed(step, S, T)
  PROVE  /\ Scan(step, s, <<>>) = s
         /\ Scan(step, s, <<p>>) = step[p][s]
         /\ Scan(step, s, <<p, q>>) = step[q][step[p][s]]
  <1>1. Scan(step, s, <<>>) = s
    <2>1. <<>> \in Seq(T) /\ Len(<<>>) = 0
      OBVIOUS
    <2>2. PICK r : Through(r, S, step, s, <<>>) /\ Scan(step, s, <<>>) = r[Len(<<>>)]
      <3>1. Scannable(step, S, T, s, <<>>)
        BY <2>1 DEF Scannable
      <3> QED BY <3>1, ScannableRuns
    <2> QED BY <2>1, <2>2 DEF Through
  <1>2. Scan(step, s, <<p>>) = step[p][s]
    <2>1. <<p>> \in Seq(T) /\ Len(<<p>>) = 1 /\ <<p>>[1] = p
      OBVIOUS
    <2>2. PICK r : Through(r, S, step, s, <<p>>) /\ Scan(step, s, <<p>>) = r[Len(<<p>>)]
      <3>1. PICK items : items = <<p>>
        OBVIOUS
      <3>2. Scannable(step, S, T, s, items)
        BY <2>1, <3>1 DEF Scannable
      <3>3. \E r : Through(r, S, step, s, items) /\ Scan(step, s, items) = r[Len(items)]
        BY <3>2, ScannableRuns
      <3> QED BY <3>1, <3>3
    <2> QED BY <2>1, <2>2 DEF Through
  <1>3. Scan(step, s, <<p, q>>) = step[q][step[p][s]]
    <2>1. /\ <<p, q>> \in Seq(T) /\ Len(<<p, q>>) = 2
          /\ <<p, q>>[1] = p /\ <<p, q>>[2] = q
      OBVIOUS
    <2>2. PICK r : Through(r, S, step, s, <<p, q>>) /\ Scan(step, s, <<p, q>>) = r[Len(<<p, q>>)]
      <3>1. PICK items : items = <<p, q>>
        OBVIOUS
      <3>2. Scannable(step, S, T, s, items)
        BY <2>1, <3>1 DEF Scannable
      <3>3. \E r : Through(r, S, step, s, items) /\ Scan(step, s, items) = r[Len(items)]
        BY <3>2, ScannableRuns
      <3> QED BY <3>1, <3>3
    <2>3. r[1] = step[p][r[0]] /\ r[2] = step[q][r[1]] /\ r[0] = s
      BY <2>1, <2>2 DEF Through
    <2> QED BY <2>2, <2>3
  <1> QED BY <1>1, <1>2, <1>3

\* A scan of two texts goes on where that of the first ends.
LEMMA ScanOn ==
  ASSUME NEW S, NEW T, NEW step, NEW s \in S, NEW a \in Seq(T), NEW b \in Seq(T),
         Closed(step, S, T)
  PROVE  /\ Scan(step, s, a) \in S
         /\ Scan(step, s, a \o b)
              = Scan(step, Scan(step, s, a), b)
  <1>1. PICK f : Through(f, S, step, s, a) /\ Scan(step, s, a) = f[Len(a)]
    BY ScanIsRun
  <1> DEFINE t == f[Len(a)]
  <1>2. t \in S
    BY <1>1 DEF Through
  <1>3. PICK g : Through(g, S, step, t, b) /\ Scan(step, t, b) = g[Len(b)]
    BY <1>2, ScanIsRun
  <1>4. /\ a \o b \in Seq(T) /\ Len(a \o b) = Len(a) + Len(b)
        /\ Len(a) \in Nat /\ Len(b) \in Nat
        /\ \A n \in 1 .. Len(a) : (a \o b)[n] = a[n]
        /\ \A n \in 1 .. Len(b) : (a \o b)[Len(a) + n] = b[n]
    OBVIOUS
  <1>5. PICK h : /\ Through(h, S, step, s, a \o b)
                 /\ Scan(step, s, a \o b) = h[Len(a \o b)]
    <2>1. PICK items : items = a \o b
      OBVIOUS
    <2>2. items \in Seq(T)
      BY <2>1
    <2>3. Scannable(step, S, T, s, items)
      BY <2>2 DEF Scannable
    <2>4. \E h : Through(h, S, step, s, items) /\ Scan(step, s, items) = h[Len(items)]
      BY <2>3, ScannableRuns
    <2> QED BY <2>1, <2>4
  <1> DEFINE OnA == {n \in 0 .. Len(a) : h[n] = f[n]}
             OnB == {n \in 0 .. Len(b) : h[Len(a) + n] = g[n]}
  <1>6. OnA = 0 .. Len(a)
    <2>1. 0 \in OnA
      BY <1>1, <1>4, <1>5 DEF Through
    <2>2. ASSUME NEW n \in 1 .. Len(a), n - 1 \in OnA PROVE n \in OnA
      <3>1. h[n] = step[(a \o b)[n]][h[n - 1]]
        BY <1>4, <1>5 DEF Through
      <3>2. f[n] = step[a[n]][f[n - 1]]
        BY <1>1 DEF Through
      <3> QED BY <2>2, <3>1, <3>2, <1>4
    <2>3. OnA \in SUBSET (0 .. Len(a))
      OBVIOUS
    <2> HIDE DEF OnA
    <2> QED BY <1>4, <2>1, <2>2, <2>3, UpToN
  <1>7. OnB = 0 .. Len(b)
    <2>1. 0 \in OnB
      BY <1>3, <1>4, <1>6 DEF Through
    <2>2. ASSUME NEW n \in 1 .. Len(b), n - 1 \in OnB PROVE n \in OnB
      <3>1. h[Len(a) + n] = step[(a \o b)[Len(a) + n]][h[Len(a) + n - 1]]
        <4>1. Len(a) + n \in 1 .. Len(a \o b)
          BY <1>4
        <4>2. \A m \in 1 .. Len(a \o b) : h[m] = step[(a \o b)[m]][h[m - 1]]
          BY <1>5 DEF Through
        <4> QED BY <4>1, <4>2
      <3>2. g[n] = step[b[n]][g[n - 1]]
        BY <1>3 DEF Through
      <3>3. h[Len(a) + n - 1] = g[n - 1]
        BY <2>2, <1>4
      <3> QED BY <3>1, <3>2, <3>3, <1>4
    <2>3. OnB \in SUBSET (0 .. Len(b))
      OBVIOUS
    <2> HIDE DEF OnB
    <2> QED BY <1>4, <2>1, <2>2, <2>3, UpToN
  <1>8. h[Len(a) + Len(b)] = g[Len(b)]
    BY <1>4, <1>7
  <1> QED BY <1>1, <1>2, <1>3, <1>4, <1>5, <1>8

-----------------------------------------------------------------------------
Signs            == {"%", "$"}
Double(signs, p) == IF p \in signs THEN <<p, p>> ELSE <<p>>

\* A text with the signs doubled, which is what is quoted.
DoubleStep(signs) ==
  [p \in Meaning |-> [out \in Seq(Meaning) |-> out \o Double(signs, p)]]
Doubled(signs, text) == Scan(DoubleStep(signs), <<>>, text)

\* To append is to put a short text behind.
LEMMA AppendIsCat ==
  ASSUME NEW T, NEW a \in Seq(T), NEW p \in T, NEW q \in T
  PROVE  /\ Append(a, p) = a \o <<p>> /\ Append(Append(a, p), q) = a \o <<p, q>>
         /\ a \o <<p>> \in Seq(T) /\ a \o <<p, q>> \in Seq(T)
  OBVIOUS

\* The pieces of a text may be read one at a time.
LEMMA TextStays ==
  ASSUME NEW T, NEW text \in Seq(T)
  PROVE  /\ Len(text) \in Nat
         /\ \A n \in 1 .. Len(text) : text[n] \in T
  OBVIOUS

\* systemd may make the piece itself of a piece.
LEMMA PiecesMean == ASSUME NEW p \in Piece PROVE p \in Meaning
  BY DEF Meaning

\* Doubling keeps texts texts.
LEMMA DoubleCloses ==
  ASSUME NEW signs
  PROVE  /\ Closed(DoubleStep(signs), Seq(Meaning), Meaning)
         /\ Closed(DoubleStep(signs), Seq(Piece), Piece)
         /\ \A p \in Meaning, out \in Seq(Meaning) :
              DoubleStep(signs)[p][out] = out \o Double(signs, p)
  <1>1. \A p \in Meaning, out \in Seq(Meaning) :
          DoubleStep(signs)[p][out] = out \o Double(signs, p)
    BY DEF DoubleStep
  <1>2. \A T : \A p \in T, out \in Seq(T) : out \o Double(signs, p) \in Seq(T)
    BY AppendIsCat DEF Double
  <1>3. /\ \A p \in Piece : p \in Meaning
        /\ \A out \in Seq(Piece) : out \in Seq(Meaning)
    BY DEF Meaning
  <1> HIDE DEF DoubleStep
  <1> QED BY <1>1, <1>2, <1>3 DEF Closed

Line == Piece \ {"newline"}

\* What a piece is quoted as.
LEMMA EscapeCases ==
  ASSUME NEW p \in Piece
  PROVE  /\ \/ p \in {"quote", "backslash"} /\ Escape(p) = <<"backslash", p>>
            \/ p = "newline" /\ Escape(p) = <<"backslash", "n">>
            \/ p \in Signs /\ Escape(p) = <<p, p>>
            \/ /\ p \notin {"quote", "backslash", "newline"} \cup Signs
               /\ Escape(p) = <<p>>
         /\ Escape(p) \in Seq(Line)
  <1>1. \/ p \in {"quote", "backslash"} /\ Escape(p) = <<"backslash", p>>
        \/ p = "newline" /\ Escape(p) = <<"backslash", "n">>
        \/ p \in Signs /\ Escape(p) = <<p, p>>
        \/ /\ p \notin {"quote", "backslash", "newline"} \cup Signs
           /\ Escape(p) = <<p>>
    BY DEF Escape, Signs
  <1>2. "backslash" \in Line /\ "n" \in Line
    BY DEF Line, Piece
  <1>3. p # "newline" => p \in Line
    BY DEF Line
  <1>4. p \in {"quote", "backslash"} \cup Signs => p # "newline"
    BY DEF Signs
  <1>5. \A a, b \in Line : <<a>> \in Seq(Line) /\ <<a, b>> \in Seq(Line)
    OBVIOUS
  <1>6. Escape(p) \in Seq(Line)
    BY <1>1, <1>2, <1>3, <1>4, <1>5
  <1> QED BY <1>1, <1>6

\* Quoting makes texts that stay on one line.
LEMMA EscapeCloses ==
  /\ Closed(EscapeStep, Seq(Line), Piece)
  /\ \A p \in Piece, out \in Seq(Line) :
       EscapeStep[p][out] = out \o Escape(p)
  <1>1. \A out \in Seq(Line) : out \in Seq(Piece)
    BY DEF Line
  <1>2. \A p \in Piece, out \in Seq(Line) :
          EscapeStep[p][out] = out \o Escape(p)
    BY <1>1 DEF EscapeStep
  <1>3. \A p \in Piece, out \in Seq(Line) : out \o Escape(p) \in Seq(Line)
    BY EscapeCases
  <1> QED BY <1>2, <1>3 DEF Closed

\* Reading keeps the state's type.
LEMMA ReadTyped ==
  ASSUME NEW acc \in ReadState, NEW p \in Piece
  PROVE  Read(acc, p) \in ReadState
  <1> DEFINE W == [text : Seq(Piece), quoted : BOOLEAN]
  <1>1. acc.words \in Seq(W) /\ acc.word \in Seq(Piece)
    BY DEF ReadState
  <1>2. \A b \in BOOLEAN : Word(acc, b) \in Seq(W)
    BY <1>1 DEF Word
  <1>3. <<p>> \in Seq(Piece) /\ Append(acc.word, p) \in Seq(Piece)
    BY <1>1
  <1>4. Append(acc.word, Unescape(p)) \in Seq(Piece)
    BY <1>1 DEF Unescape, Piece
  <1> HIDE DEF W
  <1>5. ReadState = [words : Seq(W), word : Seq(Piece),
          at : {"between", "bare", "quoted", "escape", "closed", "error"}]
    BY DEF ReadState, W
  <1>6. <<>> \in Seq(Piece)
    OBVIOUS
  <1> QED BY <1>1, <1>2, <1>3, <1>4, <1>5, <1>6 DEF Read

\* Each step of the reading is Read.
LEMMA ReadCloses ==
  /\ Closed(ReadStep, ReadState, Piece)
  /\ \A p \in Piece, acc \in ReadState :
       ReadStep[p][acc] = Read(acc, p)
  BY ReadTyped DEF ReadStep, Closed

-----------------------------------------------------------------------------
\* What is read of a piece, inside quotes, is the piece with its sign doubled.
LEMMA PieceIsRead ==
  ASSUME NEW acc \in ReadState, acc.at = "quoted", NEW p \in Piece
  PROVE  Scan(ReadStep, acc, Escape(p))
           = [acc EXCEPT !.word = @ \o Double(Signs, p)]
  <1> DEFINE RS == ReadState
  <1>1. acc.word \in Seq(Piece)
    BY DEF ReadState
  <1>0. /\ Append(acc.word, p) = acc.word \o <<p>>
        /\ Append(Append(acc.word, p), p) = acc.word \o <<p, p>>
    BY <1>1, AppendIsCat
  <1>2. ASSUME NEW q \in Piece, NEW t \in Piece
        PROVE  /\ Scan(ReadStep, acc, <<q>>) = Read(acc, q)
               /\ Scan(ReadStep, acc, <<q, t>>)
                    = Read(Read(acc, q), t)
    <2>1. ReadStep[q][acc] = Read(acc, q) /\ Read(acc, q) \in RS
      BY ReadCloses, ReadTyped
    <2>2. ReadStep[t][Read(acc, q)] = Read(Read(acc, q), t)
      BY <2>1, ReadCloses
    <2>3. Closed(ReadStep, RS, Piece)
      BY ReadCloses
    <2> QED BY <2>1, <2>2, <2>3, ShortScans
  <1>3. ASSUME NEW q \in Piece, q \notin {"quote", "backslash"}
        PROVE  Read(acc, q) = [acc EXCEPT !.word = Append(@, q)]
    BY <1>3 DEF Read
  <1>4. ASSUME NEW q \in {"n", "quote", "backslash"}
        PROVE  Read(Read(acc, "backslash"), q)
                 = [acc EXCEPT !.word = Append(@, Unescape(q))]
    <2>1. Read(acc, "backslash") = [acc EXCEPT !.at = "escape"]
      BY DEF Read
    <2>2. PICK b : b = [acc EXCEPT !.at = "escape"]
      OBVIOUS
    <2>3. b.at = "escape" /\ b.word = acc.word /\ b.words = acc.words
      BY <2>2 DEF ReadState
    <2>4. Read(b, q)
            = [b EXCEPT !.at = "quoted", !.word = Append(@, Unescape(q))]
      BY <2>3 DEF Read
    <2>5. [b EXCEPT !.at = "quoted", !.word = Append(@, Unescape(q))]
            = [acc EXCEPT !.word = Append(@, Unescape(q))]
      BY <2>2 DEF ReadState
    <2> QED BY <2>1, <2>2, <2>4, <2>5
  <1>5. CASE p \in {"quote", "backslash"} /\ Escape(p) = <<"backslash", p>>
    <2>1. "backslash" \in Piece
      BY DEF Piece
    <2>2. Scan(ReadStep, acc, <<"backslash", p>>)
            = [acc EXCEPT !.word = Append(@, Unescape(p))]
      BY <1>2, <1>4, <1>5, <2>1
    <2>3. Unescape(p) = p /\ Double(Signs, p) = <<p>>
      BY <1>5 DEF Unescape, Double, Signs
    <2> QED BY <1>0, <1>5, <2>2, <2>3
  <1>6. CASE p = "newline" /\ Escape(p) = <<"backslash", "n">>
    <2>1. "backslash" \in Piece /\ "n" \in Piece
      BY DEF Piece
    <2>2. Scan(ReadStep, acc, <<"backslash", "n">>)
            = [acc EXCEPT !.word = Append(@, Unescape("n"))]
      BY <1>2, <1>4, <2>1
    <2>3. Unescape("n") = p /\ Double(Signs, p) = <<p>>
      BY <1>6 DEF Unescape, Double, Signs
    <2> QED BY <1>0, <1>6, <2>2, <2>3
  <1>7. CASE p \in Signs /\ Escape(p) = <<p, p>>
    <2>1. p \notin {"quote", "backslash"}
      BY <1>7 DEF Signs
    <2>2. PICK b : b = [acc EXCEPT !.word = Append(@, p)]
      OBVIOUS
    <2>3. Read(acc, p) = b /\ b \in ReadState /\ b.at = "quoted"
      BY <1>3, <2>1, <2>2, ReadTyped DEF ReadState
    <2>4. Read(b, p) = [b EXCEPT !.word = Append(@, p)]
      BY <2>1, <2>3 DEF Read
    <2>5. [b EXCEPT !.word = Append(@, p)]
            = [acc EXCEPT !.word = Append(Append(@, p), p)]
      BY <2>2 DEF ReadState
    <2>6. Scan(ReadStep, acc, <<p, p>>) = Read(b, p)
      BY <1>2, <2>3
    <2>7. Double(Signs, p) = <<p, p>>
      BY <1>7 DEF Double
    <2> QED BY <1>0, <1>7, <2>4, <2>5, <2>6, <2>7
  <1>8. CASE /\ p \notin {"quote", "backslash", "newline"} \cup Signs
             /\ Escape(p) = <<p>>
    <2>1. Scan(ReadStep, acc, <<p>>) = [acc EXCEPT !.word = Append(@, p)]
      BY <1>2, <1>3, <1>8
    <2>2. Double(Signs, p) = <<p>>
      BY <1>8 DEF Double
    <2> QED BY <1>0, <1>8, <2>1, <2>2
  <1> QED BY <1>5, <1>6, <1>7, <1>8, EscapeCases

\* Reading no piece and one.
LEMMA ReadPiece ==
  ASSUME NEW acc \in ReadState, NEW p \in Piece
  PROVE  /\ Scan(ReadStep, acc, <<>>) = acc
         /\ Scan(ReadStep, acc, <<p>>) = Read(acc, p)
  <1>1. Closed(ReadStep, ReadState, Piece)
    BY ReadCloses
  <1>2. ReadStep[p][acc] = Read(acc, p)
    BY ReadCloses
  <1>3. /\ Scan(ReadStep, acc, <<>>) = acc
        /\ Scan(ReadStep, acc, <<p>>) = ReadStep[p][acc]
        /\ Scan(ReadStep, acc, <<p, p>>)
             = ReadStep[p][ReadStep[p][acc]]
    BY <1>1, ShortScans
  <1> QED BY <1>2, <1>3

\* Reading two texts.
LEMMA ReadOn ==
  ASSUME NEW acc \in ReadState,
         NEW a \in Seq(Piece), NEW b \in Seq(Piece)
  PROVE  Scan(ReadStep, acc, a \o b)
           = Scan(ReadStep, Scan(ReadStep, acc, a), b)
  <1>1. Closed(ReadStep, ReadState, Piece)
    BY ReadCloses
  <1> QED BY <1>1, ScanOn

\* A text is read, inside quotes, with its signs doubled.
LEMMA TextIsRead ==
  ASSUME NEW acc \in ReadState, acc.at = "quoted", acc.word = <<>>,
         NEW text \in Seq(Piece)
  PROVE  /\ Scan(EscapeStep, <<>>, text) \in Seq(Line)
         /\ Doubled(Signs, text) \in Seq(Piece)
         /\ Scan(ReadStep, acc, Scan(EscapeStep, <<>>, text))
              = [acc EXCEPT !.word = Doubled(Signs, text)]
  <1> DEFINE N == Len(text)
  <1>1. <<>> \in Seq(Line) /\ <<>> \in Seq(Piece)
    OBVIOUS
  <1>2. /\ Closed(EscapeStep, Seq(Line), Piece)
        /\ Closed(DoubleStep(Signs), Seq(Piece), Piece)
        /\ Closed(ReadStep, ReadState, Piece)
    BY EscapeCloses, DoubleCloses, ReadCloses
  <1>3. PICK e : /\ Through(e, Seq(Line), EscapeStep, <<>>, text)
                 /\ Scan(EscapeStep, <<>>, text) = e[Len(text)]
    <2>1. Scannable(EscapeStep, Seq(Line), Piece, <<>>, text)
      BY <1>1, <1>2 DEF Scannable
    <2> QED BY <2>1, ScannableRuns
  <1>4. PICK d : /\ Through(d, Seq(Piece), DoubleStep(Signs), <<>>, text)
                 /\ Scan(DoubleStep(Signs), <<>>, text) = d[Len(text)]
    <2>1. Scannable(DoubleStep(Signs), Seq(Piece), Piece, <<>>, text)
      BY <1>1, <1>2 DEF Scannable
    <2> QED BY <2>1, ScannableRuns
  <1>5. ASSUME NEW n \in 0 .. N PROVE e[n] \in Seq(Line) /\ d[n] \in Seq(Piece)
    BY <1>3, <1>4 DEF Through
  <1> DEFINE at(n) == [acc EXCEPT !.word = d[n]]
             Good == {n \in 0 .. N : Scan(ReadStep, acc, e[n]) = at(n)}
  <1>6. \A n \in 0 .. N : at(n) \in ReadState /\ at(n).at = "quoted" /\ at(n).word = d[n]
    BY <1>5 DEF ReadState
  <1>7. 0 \in Good
    <2>1. Scan(ReadStep, acc, <<>>) = acc
      <3>1. "x" \in Piece
        BY DEF Piece
      <3> QED BY <3>1, ReadPiece
    <2>2. e[0] = <<>> /\ d[0] = <<>>
      BY <1>3, <1>4 DEF Through
    <2>3. at(0) = acc
      BY <2>2 DEF ReadState
    <2> QED BY <2>1, <2>2, <2>3, TextStays
  <1>8. ASSUME NEW n \in 1 .. N, n - 1 \in Good PROVE n \in Good
    <2> DEFINE p == text[n]
    <2>1. p \in Piece /\ n - 1 \in 0 .. N /\ n \in 0 .. N
      BY TextStays
    <2>2. e[n] = e[n - 1] \o Escape(p)
      <3>1. e[n] = EscapeStep[p][e[n - 1]]
        BY <1>3 DEF Through
      <3> QED BY <2>1, <3>1, <1>5, EscapeCloses
    <2>3. d[n] = d[n - 1] \o Double(Signs, p)
      <3>1. d[n] = DoubleStep(Signs)[p][d[n - 1]]
        BY <1>4 DEF Through
      <3>2. d[n - 1] \in Seq(Meaning) /\ p \in Meaning
        BY <2>1, <1>5 DEF Meaning
      <3> QED BY <3>1, <3>2, DoubleCloses
    <2>4. e[n - 1] \in Seq(Piece) /\ Escape(p) \in Seq(Piece)
      <3>1. \A out \in Seq(Line) : out \in Seq(Piece)
        BY DEF Line
      <3> QED BY <3>1, <1>5, <2>1, EscapeCases
    <2>5. Scan(ReadStep, acc, e[n])
            = Scan(ReadStep, Scan(ReadStep, acc, e[n - 1]),
                           Escape(p))
      BY <2>1, <2>2, <2>4, ReadOn
    <2>6. Scan(ReadStep, at(n - 1), Escape(p))
            = [at(n - 1) EXCEPT !.word = @ \o Double(Signs, p)]
      BY <1>6, <2>1, PieceIsRead
    <2>7. [at(n - 1) EXCEPT !.word = @ \o Double(Signs, p)] = at(n)
      BY <2>3, <1>6, <2>1 DEF ReadState
    <2> QED BY <1>8, <2>1, <2>5, <2>6, <2>7
  <1>9. Good = 0 .. N
    <2>1. Good \in SUBSET (0 .. N) /\ N \in Nat
      BY TextStays
    <2> HIDE DEF Good
    <2> QED BY <1>7, <1>8, <2>1, UpToN
  <1>10. N \in 0 .. N
    BY TextStays
  <1>11. Scan(ReadStep, acc, e[N]) = at(N)
    BY <1>9, <1>10
  <1> QED BY <1>3, <1>4, <1>5, <1>10, <1>11 DEF Doubled

ReadWord     == [text : Seq(Piece), quoted : BOOLEAN]
Open(words)  == [words |-> words, word |-> <<>>, at |-> "between"]
Shut(words)  == [words |-> words, word |-> <<>>, at |-> "closed"]
With(words, text) == Append(words, [text |-> Doubled(Signs, text), quoted |-> TRUE])

\* A quoted word is read as it was, its signs doubled.
LEMMA WordIsRead ==
  ASSUME NEW words \in Seq(ReadWord), NEW text \in Seq(Piece)
  PROVE  /\ Quote(text) \in Seq(Line) /\ With(words, text) \in Seq(ReadWord)
         /\ Scan(ReadStep, Open(words), Quote(text))
              = Shut(With(words, text))
         /\ Scan(ReadStep, Shut(words), <<"space">> \o Quote(text))
              = Shut(With(words, text))
  <1> DEFINE q == [words |-> words, word |-> <<>>, at |-> "quoted"]
             full == [words |-> words, word |-> Doubled(Signs, text), at |-> "quoted"]
             body == Scan(EscapeStep, <<>>, text)
             scan(acc, line) == Scan(ReadStep, acc, line)
  <1>1. /\ Open(words) \in ReadState /\ Shut(words) \in ReadState
        /\ q \in ReadState
    BY DEF Open, Shut, ReadState, ReadWord
  <1>2. /\ body \in Seq(Line) /\ Doubled(Signs, text) \in Seq(Piece)
        /\ scan(q, body) = full
    <2>1. q.at = "quoted" /\ q.word = <<>>
      OBVIOUS
    <2>2. [q EXCEPT !.word = Doubled(Signs, text)] = full
      OBVIOUS
    <2> HIDE DEF q, full
    <2> QED BY <1>1, <2>1, <2>2, TextIsRead
  <1>3. full \in ReadState
    BY <1>2 DEF ReadState, ReadWord
  <1>4. "quote" \in Piece /\ "space" \in Piece
    BY DEF Piece
  <1>5. ASSUME NEW acc \in ReadState, NEW p \in Piece
        PROVE  scan(acc, <<p>>) = Read(acc, p)
    BY ReadPiece
  <1>6. Read(Open(words), "quote") = q
    BY DEF Read, Open
  <1>7. Read(full, "quote") = Shut(With(words, text))
    BY DEF Read, Word, Shut, With
  <1>8. Read(Shut(words), "space") = Open(words)
    BY DEF Read, Open, Shut
  <1>9. /\ body \in Seq(Piece)
        /\ <<"quote">> \in Seq(Piece) /\ <<"space">> \in Seq(Piece)
        /\ <<"quote">> \o body \in Seq(Piece)
        /\ Quote(text) \in Seq(Piece)
        /\ Quote(text) = (<<"quote">> \o body) \o <<"quote">>
    <2>1. body \in Seq(Piece)
      BY <1>2 DEF Line
    <2>2. Quote(text) = (<<"quote">> \o body) \o <<"quote">>
      BY DEF Quote
    <2> HIDE DEF body
    <2>3. <<"quote">> \in Seq(Piece) /\ <<"space">> \in Seq(Piece)
      BY <1>4
    <2> QED BY <2>1, <2>2, <2>3
  <1>10. Quote(text) \in Seq(Line)
    <2>1. "quote" \in Line
      BY DEF Line, Piece
    <2> HIDE DEF body
    <2> QED BY <1>2, <1>9, <2>1
  <1>11. With(words, text) \in Seq(ReadWord)
    BY <1>2 DEF With, ReadWord
  <1> HIDE DEF q, full, body
  <1>12. scan(Open(words), <<"quote">> \o body) = full
    <2>1. scan(Open(words), <<"quote">> \o body) = scan(scan(Open(words), <<"quote">>), body)
      BY <1>1, <1>9, ReadOn
    <2>2. scan(Open(words), <<"quote">>) = q
      BY <1>1, <1>4, <1>5, <1>6
    <2> QED BY <1>2, <2>1, <2>2
  <1>13. scan(Open(words), Quote(text)) = Shut(With(words, text))
    <2>1. scan(Open(words), (<<"quote">> \o body) \o <<"quote">>)
            = scan(scan(Open(words), <<"quote">> \o body), <<"quote">>)
      <3>1. PICK acc, a, b : acc = Open(words) /\ a = <<"quote">> \o body /\ b = <<"quote">>
        OBVIOUS
      <3>2. acc \in ReadState /\ a \in Seq(Piece) /\ b \in Seq(Piece)
        BY <1>1, <1>9, <3>1
      <3>3. scan(acc, a \o b) = scan(scan(acc, a), b)
        BY <3>2, ReadOn
      <3> QED BY <3>1, <3>3
    <2>2. scan(full, <<"quote">>) = Shut(With(words, text))
      BY <1>3, <1>4, <1>5, <1>7
    <2> QED BY <1>9, <1>12, <2>1, <2>2
  <1>14. scan(Shut(words), <<"space">> \o Quote(text)) = Shut(With(words, text))
    <2>1. scan(Shut(words), <<"space">> \o Quote(text))
            = scan(scan(Shut(words), <<"space">>), Quote(text))
      BY <1>1, <1>9, ReadOn
    <2>2. scan(Shut(words), <<"space">>) = Open(words)
      BY <1>1, <1>4, <1>5, <1>8
    <2> QED BY <1>13, <2>1, <2>2
  <1> QED BY <1>10, <1>11, <1>13, <1>14

\* A command line of four words, quoted and with spaces between them.
Joined(a, b, c, d) ==
  Quote(a) \o (<<"space">> \o Quote(b))
    \o (<<"space">> \o Quote(c)) \o (<<"space">> \o Quote(d))

\* The command line is read as its four words.
LEMMA FourWordsAreRead ==
  ASSUME NEW a \in Seq(Piece), NEW b \in Seq(Piece),
         NEW c \in Seq(Piece), NEW d \in Seq(Piece)
  PROVE  /\ Joined(a, b, c, d) \in Seq(Line)
         /\ Words(Joined(a, b, c, d)) = With(With(With(With(<<>>, a), b), c), d)
  <1> DEFINE scan(acc, part) == Scan(ReadStep, acc, part)
             more(text)      == <<"space">> \o Quote(text)
             line            == Joined(a, b, c, d)
  <1>1. ASSUME NEW text \in Seq(Piece)
        PROVE  Quote(text) \in Seq(Line) /\ more(text) \in Seq(Line)
    <2>1. Quote(text) \in Seq(Line)
      <3>1. <<>> \in Seq(ReadWord)
        OBVIOUS
      <3> QED BY <3>1, WordIsRead
    <2>2. "space" \in Line
      BY DEF Line, Piece
    <2> QED BY <2>1, <2>2
  <1>2. \A part \in Seq(Line) : part \in Seq(Piece)
    BY DEF Line
  <1>3. PICK qa, mb, mc, md : /\ qa = Quote(a) /\ mb = more(b)
                              /\ mc = more(c) /\ md = more(d)
    OBVIOUS
  <1>4. qa \in Seq(Line) /\ mb \in Seq(Line) /\ mc \in Seq(Line) /\ md \in Seq(Line)
    BY <1>1, <1>3
  <1>5. qa \o mb \in Seq(Line) /\ (qa \o mb) \o mc \in Seq(Line)
        /\ ((qa \o mb) \o mc) \o md \in Seq(Line)
    BY <1>4
  <1>6. line = ((qa \o mb) \o mc) \o md
    BY <1>3 DEF Joined
  <1>7. PICK w1, w2, w3, w4 : /\ w1 = With(<<>>, a) /\ w2 = With(w1, b)
                              /\ w3 = With(w2, c) /\ w4 = With(w3, d)
    OBVIOUS
  <1>8. w1 \in Seq(ReadWord) /\ scan(Open(<<>>), qa) = Shut(w1)
    <2>1. <<>> \in Seq(ReadWord)
      OBVIOUS
    <2> QED BY <2>1, <1>3, <1>7, WordIsRead
  <1>9. w2 \in Seq(ReadWord) /\ scan(Shut(w1), mb) = Shut(w2)
    BY <1>3, <1>7, <1>8, WordIsRead
  <1>10. w3 \in Seq(ReadWord) /\ scan(Shut(w2), mc) = Shut(w3)
    BY <1>3, <1>7, <1>9, WordIsRead
  <1>11. w4 \in Seq(ReadWord) /\ scan(Shut(w3), md) = Shut(w4)
    BY <1>3, <1>7, <1>10, WordIsRead
  <1>12. Open(<<>>) \in ReadState /\ Open(<<>>) = Nothing
    BY DEF Open, ReadState, Nothing
  <1>13. scan(Open(<<>>), ((qa \o mb) \o mc) \o md)
           = scan(scan(scan(scan(Open(<<>>), qa), mb), mc), md)
    <2>1. /\ qa \in Seq(Piece) /\ mb \in Seq(Piece)
          /\ mc \in Seq(Piece) /\ md \in Seq(Piece)
          /\ qa \o mb \in Seq(Piece) /\ (qa \o mb) \o mc \in Seq(Piece)
      BY <1>2, <1>4, <1>5
    <2>2. PICK start, two, three : /\ start = Open(<<>>) /\ two = qa \o mb
                                   /\ three = two \o mc
      OBVIOUS
    <2>3. /\ start \in ReadState
          /\ two \in Seq(Piece) /\ three \in Seq(Piece)
      BY <1>12, <2>1, <2>2
    <2>4. scan(start, three \o md) = scan(scan(start, three), md)
      BY <2>1, <2>3, ReadOn
    <2>5. scan(start, two \o mc) = scan(scan(start, two), mc)
      BY <2>1, <2>3, ReadOn
    <2>6. scan(start, qa \o mb) = scan(scan(start, qa), mb)
      BY <2>1, <2>3, ReadOn
    <2> QED BY <2>2, <2>4, <2>5, <2>6
  <1>14. Scan(ReadStep, Nothing, line) = Shut(w4)
    BY <1>6, <1>8, <1>9, <1>10, <1>11, <1>12, <1>13
  <1>15. Words(line) = w4
    <2>1. PICK end : end = Scan(ReadStep, Nothing, line)
      OBVIOUS
    <2>2. end.at = "closed" /\ end.words = w4
      BY <1>14, <2>1 DEF Shut
    <2>3. Words(line)
            = CASE end.at = "bare"                  -> Word(end, FALSE)
                [] end.at \in {"between", "closed"} -> end.words
                [] end.at \in {"quoted", "escape", "error"} -> <<>>
      BY <2>1 DEF Words
    <2> QED BY <2>2, <2>3
  <1> QED BY <1>5, <1>6, <1>7, <1>15

\* What is before the first newline.
LEMMA LineEnds ==
  ASSUME CommandLine \in Seq(Line)
  PROVE  ExecStart = CommandLine
  <1> DEFINE line == CommandLine
             all  == Rendered
             ends == {n \in DOMAIN all : all[n] = "newline"}
             lowest(n) == n \in ends /\ \A m \in ends : n <= m
  <1>1. PICK l : l = line
    OBVIOUS
  <1>2. PICK r : r = all
    OBVIOUS
  <1>3. /\ l \in Seq(Line) /\ Len(l) \in Nat /\ r = l \o <<"newline", "x">>
        /\ r \in Seq(Piece)
    <2>1. l \in Seq(Line) /\ r = l \o <<"newline", "x">>
      BY <1>1, <1>2 DEF Rendered
    <2>2. l \in Seq(Piece) /\ <<"newline", "x">> \in Seq(Piece)
      BY <2>1 DEF Line, Piece
    <2> QED BY <2>1, <2>2
  <1>4. /\ DOMAIN r = 1 .. Len(l) + 2 /\ r[Len(l) + 1] = "newline" /\ r[Len(l) + 2] = "x"
        /\ \A n \in 1 .. Len(l) : r[n] = l[n]
    BY <1>3
  <1>5. \A n \in 1 .. Len(l) : l[n] # "newline"
    BY <1>3 DEF Line
  <1>6. \A n \in DOMAIN r : r[n] = "newline" => n = Len(l) + 1
    BY <1>3, <1>4, <1>5
  <1>7. ends = {Len(l) + 1}
    BY <1>2, <1>3, <1>4, <1>6
  <1>8. (CHOOSE n \in ends : \A m \in ends : n <= m) = Len(l) + 1
    BY <1>3, <1>7
  <1>9. ExecStart = SubSeq(r, 1, (CHOOSE n \in ends : \A m \in ends : n <= m) - 1)
    BY <1>2 DEF ExecStart
  <1>10. SubSeq(r, 1, Len(l)) = l
    BY <1>3, <1>4
  <1>11. PICK end : end = CHOOSE n \in ends : \A m \in ends : n <= m
    OBVIOUS
  <1>12. ExecStart = SubSeq(r, 1, end - 1)
    BY <1>9, <1>11
  <1>13. end - 1 = Len(l)
    <2>1. end = Len(l) + 1
      BY <1>8, <1>11, Zenon
    <2> QED BY <1>3, <2>1
  <1> QED BY <1>1, <1>10, <1>12, <1>13

-----------------------------------------------------------------------------
\* A text without the signs stays as it is, one with them gets longer.
LEMMA DoublingShows ==
  ASSUME NEW signs, NEW text \in Seq(Meaning)
  PROVE  /\ (\A n \in 1 .. Len(text) : text[n] \notin signs) => Doubled(signs, text) = text
         /\ (\E n \in 1 .. Len(text) : text[n] \in signs)
              => Len(Doubled(signs, text)) > Len(text)
  <1>1. PICK d : /\ Through(d, Seq(Meaning), DoubleStep(signs), <<>>, text)
                 /\ Scan(DoubleStep(signs), <<>>, text) = d[Len(text)]
    <2>1. Closed(DoubleStep(signs), Seq(Meaning), Meaning) /\ <<>> \in Seq(Meaning)
      BY DoubleCloses
    <2>2. Scannable(DoubleStep(signs), Seq(Meaning), Meaning, <<>>, text)
      BY <2>1 DEF Scannable
    <2> QED BY <2>2, ScannableRuns
  <1> DEFINE N == Len(text)
             Plain(n) == \A k \in 1 .. n : text[k] \notin signs
             Grown(n) == /\ Plain(n) => d[n] = SubSeq(text, 1, n)
                         /\ Len(d[n]) >= n
                         /\ ~Plain(n) => Len(d[n]) > n
             AllGrown == {n \in 0 .. N : Grown(n)}
  <1>2. N \in Nat /\ \A n \in 1 .. N : text[n] \in Meaning
    BY TextStays
  <1>3. 0 \in AllGrown
    BY <1>1, <1>2 DEF Through
  <1>4. ASSUME NEW n \in 1 .. N, n - 1 \in AllGrown PROVE n \in AllGrown
    <2> DEFINE p == text[n]
    <2>1. n - 1 \in 0 .. N /\ n \in 0 .. N /\ d[n - 1] \in Seq(Meaning)
      BY <1>1, <1>2 DEF Through
    <2>2. d[n] = DoubleStep(signs)[p][d[n - 1]]
      BY <1>1 DEF Through
    <2>3. d[n] = d[n - 1] \o Double(signs, p)
      BY <1>2, <2>1, <2>2, DoubleCloses
    <2>4. p \in Meaning
      BY <1>2
    <2>5. /\ Plain(n - 1) => d[n - 1] = SubSeq(text, 1, n - 1)
          /\ Len(d[n - 1]) >= n - 1
          /\ ~Plain(n - 1) => Len(d[n - 1]) > n - 1
      BY <1>4
    <2>6. Plain(n) <=> Plain(n - 1) /\ p \notin signs
      <3>1. \A k \in 1 .. n : k \in 1 .. n - 1 \/ k = n
        BY <2>1
      <3>2. \A k \in 1 .. n - 1 : k \in 1 .. n
        BY <2>1
      <3> QED BY <3>1, <3>2
    <2> HIDE DEF Plain
    <2>7. CASE p \in signs
      <3>1. d[n] = d[n - 1] \o <<p, p>>
        BY <2>3, <2>7 DEF Double
      <3>2. Len(d[n]) = Len(d[n - 1]) + 2
        BY <2>1, <2>4, <3>1
      <3> QED BY <2>1, <2>5, <2>6, <2>7, <3>2
    <2>8. CASE p \notin signs
      <3>1. d[n] = d[n - 1] \o <<p>>
        BY <2>3, <2>8 DEF Double
      <3>2. Len(d[n]) = Len(d[n - 1]) + 1
        BY <2>1, <2>4, <3>1
      <3>3. SubSeq(text, 1, n - 1) \o <<p>> = SubSeq(text, 1, n)
        BY <1>2
      <3>4. Plain(n) => d[n] = SubSeq(text, 1, n)
        BY <2>5, <2>6, <3>1, <3>3
      <3> QED BY <2>1, <2>5, <2>6, <2>8, <3>2, <3>4
    <2> QED BY <2>7, <2>8
  <1>5. AllGrown = 0 .. N
    <2>1. AllGrown \in SUBSET (0 .. N)
      OBVIOUS
    <2> HIDE DEF AllGrown
    <2> QED BY <1>2, <1>3, <1>4, <2>1, UpToN
  <1>6. Grown(N)
    BY <1>2, <1>5
  <1>7. SubSeq(text, 1, N) = text
    OBVIOUS
  <1> QED BY <1>1, <1>6, <1>7 DEF Doubled

\* Where the undoubling of a text is.
Halves(single) == [out : Seq(Meaning), half : DOMAIN single \cup {"none"}]
Whole(out)     == [out |-> out, half |-> "none"]

\* A doubled sign is undoubled, another piece stays.
LEMMA UndoubleCloses ==
  ASSUME NEW A \in SUBSET Meaning, NEW single \in [A -> Meaning]
  PROVE  /\ Closed(UndoubleStep(single), Halves(single), Meaning)
         /\ \A out \in Seq(Meaning) : Whole(out) \in Halves(single)
         /\ \A out \in Seq(Meaning), p \in Meaning \ A :
              UndoubleStep(single)[p][Whole(out)] = Whole(Append(out, p))
         /\ \A out \in Seq(Meaning), p \in A :
              UndoubleStep(single)[p][UndoubleStep(single)[p][Whole(out)]]
                = Whole(Append(out, p))
  <1>0. DOMAIN single = A /\ "none" \notin Meaning
    BY DEF Meaning, Piece
  <1> DEFINE H == [out : Seq(Meaning), half : A \cup {"none"}]
             Next1(acc, p) ==
               CASE acc.half = p -> [out |-> Append(acc.out, p), half |-> "none"]
                 [] acc.half = "none" /\ p \in A -> [acc EXCEPT !.half = p]
                 [] acc.half = "none" /\ p \notin A -> [acc EXCEPT !.out = Append(@, p)]
                 [] acc.half \notin {"none", p} ->
                      LET out == Append(acc.out, single[acc.half])
                      IN  IF p \in A THEN [out |-> out, half |-> p]
                                     ELSE [out |-> Append(out, p), half |-> "none"]
  <1>1. Halves(single) = H
    BY <1>0 DEF Halves
  <1>2. UndoubleStep(single) = [p \in Meaning |-> [acc \in H |-> Next1(acc, p)]]
    BY <1>0 DEF UndoubleStep
  <1>3. ASSUME NEW acc \in H, NEW p \in Meaning
        PROVE  UndoubleStep(single)[p][acc] = Next1(acc, p) /\ Next1(acc, p) \in H
    <2>1. UndoubleStep(single)[p][acc] = Next1(acc, p)
      <3> HIDE DEF Next1, H
      <3> QED BY <1>2
    <2>0. acc.out \in Seq(Meaning) /\ Append(acc.out, p) \in Seq(Meaning)
      OBVIOUS
    <2>2. CASE acc.half = p
      <3>1. Next1(acc, p) = [out |-> Append(acc.out, p), half |-> "none"]
        BY <1>0, <2>2
      <3>2. [out |-> Append(acc.out, p), half |-> "none"] \in H
        BY <2>0
      <3> QED BY <2>1, <3>1, <3>2
    <2>3. CASE acc.half = "none"
      <3>1. CASE p \in A
        <4>1. Next1(acc, p) = [acc EXCEPT !.half = p]
          BY <1>0, <2>3, <3>1
        <4>2. [acc EXCEPT !.half = p] \in H
          BY <3>1
        <4> QED BY <2>1, <4>1, <4>2
      <3>2. CASE p \notin A
        <4>1. Next1(acc, p) = [acc EXCEPT !.out = Append(@, p)]
          BY <1>0, <2>3, <3>2
        <4>2. [acc EXCEPT !.out = Append(@, p)] \in H
          BY <2>0
        <4> QED BY <2>1, <4>1, <4>2
      <3> QED BY <3>1, <3>2
    <2>4. CASE acc.half \notin {"none", p}
      <3>1. Append(acc.out, single[acc.half]) \in Seq(Meaning)
        BY <2>4
      <3> QED BY <2>1, <2>4, <3>1
    <2> QED BY <2>2, <2>3, <2>4
  <1>4. \A out \in Seq(Meaning) : Whole(out) \in H
    BY DEF Whole
  <1>5. ASSUME NEW out \in Seq(Meaning), NEW p \in Meaning \ A
        PROVE  UndoubleStep(single)[p][Whole(out)] = Whole(Append(out, p))
    <2>1. Next1(Whole(out), p) = Whole(Append(out, p))
      BY <1>0, <1>5 DEF Whole
    <2> HIDE DEF Next1, H
    <2> QED BY <1>3, <1>4, <2>1
  <1>6. ASSUME NEW out \in Seq(Meaning), NEW p \in A
        PROVE  UndoubleStep(single)[p][UndoubleStep(single)[p][Whole(out)]]
                 = Whole(Append(out, p))
    <2>1. PICK h : h = [out |-> out, half |-> p]
      OBVIOUS
    <2>2. h \in H /\ Next1(Whole(out), p) = h
      BY <1>0, <2>1 DEF Whole
    <2>3. Next1(h, p) = Whole(Append(out, p))
      BY <1>0, <2>1 DEF Whole
    <2> HIDE DEF Next1, H
    <2> QED BY <1>3, <1>4, <2>2, <2>3
  <1>7. Closed(UndoubleStep(single), H, Meaning)
    <2> HIDE DEF Next1, H
    <2> QED BY <1>3 DEF Closed
  <1> HIDE DEF Next1, H
  <1> QED BY <1>1, <1>4, <1>5, <1>6, <1>7

Apart(A, B) == A \cap B = {}

\* Undoubling takes away the doubling of its own signs and leaves that of others.
LEMMA UndoubleGives ==
  ASSUME NEW A \in SUBSET Meaning, NEW B, Apart(A, B),
         NEW single \in [A -> Meaning], NEW text \in Seq(Meaning)
  PROVE  /\ Undouble(Doubled(A \cup B, text), single) = Doubled(B, text)
         /\ Doubled(B, text) \in Seq(Meaning)
  <1> DEFINE M == Meaning
             N == Len(text)
             start == Whole(<<>>)
             scan(acc, part) == Scan(UndoubleStep(single), acc, part)
  <1>1. ASSUME NEW signs
        PROVE  \E d : /\ Through(d, Seq(M), DoubleStep(signs), <<>>, text)
                      /\ Scan(DoubleStep(signs), <<>>, text) = d[Len(text)]
    <2>1. Closed(DoubleStep(signs), Seq(M), M) /\ <<>> \in Seq(M)
      BY DoubleCloses
    <2>2. Scannable(DoubleStep(signs), Seq(M), M, <<>>, text)
      BY <2>1 DEF Scannable
    <2> QED BY <2>2, ScannableRuns
  <1>2. PICK d : /\ Through(d, Seq(M), DoubleStep(A \cup B), <<>>, text)
                 /\ Scan(DoubleStep(A \cup B), <<>>, text) = d[Len(text)]
    BY <1>1
  <1>3. PICK e : /\ Through(e, Seq(M), DoubleStep(B), <<>>, text)
                 /\ Scan(DoubleStep(B), <<>>, text) = e[Len(text)]
    BY <1>1
  <1>4. N \in Nat /\ \A n \in 1 .. N : text[n] \in M
    BY TextStays
  <1>5. \A n \in 0 .. N : d[n] \in Seq(M) /\ e[n] \in Seq(M)
    BY <1>2, <1>3, <1>4 DEF Through
  <1>6. /\ Closed(UndoubleStep(single), Halves(single), M)
        /\ \A out \in Seq(M) : Whole(out) \in Halves(single)
        /\ \A out \in Seq(M), p \in M \ A :
             UndoubleStep(single)[p][Whole(out)] = Whole(Append(out, p))
        /\ \A out \in Seq(M), p \in A :
             UndoubleStep(single)[p][UndoubleStep(single)[p][Whole(out)]]
               = Whole(Append(out, p))
    BY UndoubleCloses
  <1>7. ASSUME NEW out \in Seq(M), NEW p \in M
        PROVE  scan(Whole(out), Double(A \cup B, p)) = Whole(out \o Double(B, p))
    <2>0. /\ Append(out, p) = out \o <<p>> /\ Append(Append(out, p), p) = out \o <<p, p>>
          /\ Append(out, p) \in Seq(M)
      BY AppendIsCat
    <2>1. /\ scan(Whole(out), <<p>>) = UndoubleStep(single)[p][Whole(out)]
          /\ scan(Whole(out), <<p, p>>)
               = UndoubleStep(single)[p][UndoubleStep(single)[p][Whole(out)]]
      <3>1. Whole(out) \in Halves(single)
        BY <1>6
      <3> QED BY <1>6, <3>1, ShortScans
    <2>2. CASE p \in A
      <3>1. Double(A \cup B, p) = <<p, p>> /\ Double(B, p) = <<p>>
        BY <2>2 DEF Double, Apart
      <3>2. scan(Whole(out), <<p, p>>) = Whole(Append(out, p))
        BY <2>1, <2>2, <1>6
      <3> QED BY <2>0, <3>1, <3>2
    <2>3. CASE p \notin A /\ p \in B
      <3>1. Double(A \cup B, p) = <<p, p>> /\ Double(B, p) = <<p, p>>
        BY <2>3 DEF Double
      <3>2. UndoubleStep(single)[p][Whole(out)] = Whole(Append(out, p))
        BY <2>3, <1>6
      <3>3. UndoubleStep(single)[p][Whole(Append(out, p))]
              = Whole(Append(Append(out, p), p))
        BY <2>0, <2>3, <1>6
      <3> QED BY <2>0, <2>1, <3>1, <3>2, <3>3
    <2>4. CASE p \notin A /\ p \notin B
      <3>1. Double(A \cup B, p) = <<p>> /\ Double(B, p) = <<p>>
        BY <2>4 DEF Double
      <3>2. UndoubleStep(single)[p][Whole(out)] = Whole(Append(out, p))
        BY <2>4, <1>6
      <3> QED BY <2>0, <2>1, <3>1, <3>2
    <2> QED BY <2>2, <2>3, <2>4
  <1>0. start \in Halves(single)
    <2>1. <<>> \in Seq(M)
      OBVIOUS
    <2> QED BY <1>6, <2>1
  <1> DEFINE Even == {n \in 0 .. N : scan(start, d[n]) = Whole(e[n])}
  <1>8. 0 \in Even
    <2>1. d[0] = <<>> /\ e[0] = <<>>
      BY <1>2, <1>3 DEF Through
    <2>2. scan(start, <<>>) = start
      <3>1. start \in Halves(single)
        BY <1>0
      <3>2. "x" \in M
        BY DEF Meaning, Piece
      <3>3. PICK p : p = "x"
        OBVIOUS
      <3>4. /\ scan(start, <<>>) = start
            /\ scan(start, <<p>>) = UndoubleStep(single)[p][start]
            /\ scan(start, <<p, p>>) = UndoubleStep(single)[p][UndoubleStep(single)[p][start]]
        BY <1>6, <3>1, <3>2, <3>3, ShortScans
      <3> QED BY <3>4
    <2> QED BY <1>4, <2>1, <2>2
  <1>9. ASSUME NEW n \in 1 .. N, n - 1 \in Even PROVE n \in Even
    <2> DEFINE p == text[n]
    <2>1. /\ p \in M /\ n - 1 \in 0 .. N /\ n \in 0 .. N
          /\ d[n - 1] \in Seq(M) /\ e[n - 1] \in Seq(M)
      BY <1>4, <1>5
    <2>2. d[n] = d[n - 1] \o Double(A \cup B, p)
      <3>1. d[n] = DoubleStep(A \cup B)[p][d[n - 1]]
        BY <1>2 DEF Through
      <3> QED BY <2>1, <3>1, DoubleCloses
    <2>3. e[n] = e[n - 1] \o Double(B, p)
      <3>1. e[n] = DoubleStep(B)[p][e[n - 1]]
        BY <1>3 DEF Through
      <3> QED BY <2>1, <3>1, DoubleCloses
    <2>4. Double(A \cup B, p) \in Seq(M) /\ start \in Halves(single)
      BY <1>0, <2>1 DEF Double
    <2>5. scan(start, d[n - 1] \o Double(A \cup B, p))
            = scan(scan(start, d[n - 1]), Double(A \cup B, p))
      <3>1. PICK a, b : a = d[n - 1] /\ b = Double(A \cup B, p)
        OBVIOUS
      <3>2. a \in Seq(M) /\ b \in Seq(M)
        BY <2>1, <2>4, <3>1
      <3>3. scan(start, a \o b) = scan(scan(start, a), b)
        BY <1>6, <2>4, <3>2, ScanOn
      <3> QED BY <3>1, <3>3
    <2>6. scan(Whole(e[n - 1]), Double(A \cup B, p)) = Whole(e[n - 1] \o Double(B, p))
      BY <1>7, <2>1
    <2> QED BY <1>9, <2>1, <2>2, <2>3, <2>5, <2>6
  <1>10. Even = 0 .. N
    <2>1. Even \in SUBSET (0 .. N)
      OBVIOUS
    <2> HIDE DEF Even
    <2> QED BY <1>4, <1>8, <1>9, <2>1, UpToN
  <1>11. scan(start, d[N]) = Whole(e[N]) /\ e[N] \in Seq(M)
    BY <1>4, <1>5, <1>10
  <1>12. Doubled(A \cup B, text) = d[N] /\ Doubled(B, text) = e[N]
    BY <1>2, <1>3 DEF Doubled
  <1>13. Undouble(d[N], single) = e[N]
    <2>1. PICK end : end = scan(start, d[N])
      OBVIOUS
    <2>2. Undouble(d[N], single)
            = IF end.half = "none" THEN end.out ELSE Append(end.out, single[end.half])
      BY <2>1 DEF Undouble, Whole
    <2> QED BY <1>11, <2>1, <2>2 DEF Whole
  <1> QED BY <1>11, <1>12, <1>13

\* Status reads the text that was quoted, and so does systemd where it replaces
\* variables; elsewhere each $ stays doubled.
LEMMA TextIsRestored ==
  ASSUME NEW text \in Seq(Meaning)
  PROVE  /\ Restore(Doubled(Signs, text)) = text
         /\ Expand(Doubled(Signs, text)) = text
         /\ Specified(Doubled(Signs, text)) = Doubled({"$"}, text)
  <1>1. /\ Signs \in SUBSET Meaning /\ {"%"} \in SUBSET Meaning
        /\ {"$"} \in SUBSET Meaning
        /\ "specifier" \in Meaning /\ "variable" \in Meaning
    BY DEF Signs, Meaning, Piece
  <1>2. Doubled({}, text) = text
    BY DoublingShows
  <1>3. PICK keep, percent, dollar : /\ keep = [sign \in Signs |-> sign]
                                     /\ percent = [sign \in {"%"} |-> "specifier"]
                                     /\ dollar = [sign \in {"$"} |-> "variable"]
    OBVIOUS
  <1>4. /\ keep \in [Signs -> Meaning]
        /\ percent \in [{"%"} -> Meaning] /\ dollar \in [{"$"} -> Meaning]
    BY <1>1, <1>3
  <1>5. Undouble(Doubled(Signs, text), keep) = text
    <2>0. PICK E : E = {}
      OBVIOUS
    <2>1. Apart(Signs, E) /\ Signs \cup E = Signs
      BY <2>0 DEF Apart
    <2>2. Undouble(Doubled(Signs \cup E, text), keep) = Doubled(E, text)
      BY <1>1, <1>4, <2>1, UndoubleGives
    <2> QED BY <1>2, <2>0, <2>1, <2>2
  <1>6. PICK P, D : P = {"%"} /\ D = {"$"}
    OBVIOUS
  <1>7. Undouble(Doubled(Signs, text), percent) = Doubled(D, text)
    <2>1. Apart(P, D) /\ P \cup D = Signs
      BY <1>6 DEF Signs, Apart
    <2>2. P \in SUBSET Meaning /\ percent \in [P -> Meaning]
      BY <1>1, <1>4, <1>6
    <2>3. Undouble(Doubled(P \cup D, text), percent) = Doubled(D, text)
      BY <2>1, <2>2, UndoubleGives
    <2> QED BY <2>1, <2>3
  <1>8. Undouble(Doubled(D, text), dollar) = text
    <2>0. PICK E : E = {}
      OBVIOUS
    <2>1. Apart(D, E) /\ D \cup E = D
      BY <2>0 DEF Apart
    <2>2. D \in SUBSET Meaning /\ dollar \in [D -> Meaning]
      BY <1>1, <1>4, <1>6
    <2>3. Undouble(Doubled(D \cup E, text), dollar) = Doubled(E, text)
      BY <2>1, <2>2, UndoubleGives
    <2> QED BY <1>2, <2>0, <2>1, <2>3
  <1>9. Restore(Doubled(Signs, text)) = Undouble(Doubled(Signs, text), keep)
    BY <1>3 DEF Restore, Signs
  <1>10. Specified(Doubled(Signs, text)) = Undouble(Doubled(Signs, text), percent)
    BY <1>3 DEF Specified
  <1>11. Expand(Doubled(Signs, text)) = Undouble(Specified(Doubled(Signs, text)), dollar)
    BY <1>3 DEF Expand
  <1> QED BY <1>5, <1>6, <1>7, <1>8, <1>9, <1>10, <1>11

-----------------------------------------------------------------------------
\* The paths are texts.
LEMMA PathsAreTexts ==
  ASSUME DefinitionInputs
  PROVE  /\ executable \in Seq(Piece) /\ cfgPath \in Seq(Piece)
         /\ Len(executable) > 0
  <1>1. ASSUME NEW n \in Nat, NEW text \in Texts(n)
        PROVE  text \in Seq(Piece) /\ Len(text) > 0
    <2>1. PICK m \in 1 .. n : text \in [1 .. m -> Piece]
      BY DEF Texts
    <2> QED BY <2>1
  <1> QED BY <1>1, TextAssumption DEF DefinitionInputs

\* What four appended items are.
LEMMA FourAppended ==
  ASSUME NEW w, NEW x, NEW y, NEW z, NEW f,
         f = [i \in 1 .. 4 |-> f[i]], f[1] = w, f[2] = x, f[3] = y, f[4] = z
  PROVE  f = Append(Append(Append(Append(<<>>, w), x), y), z)
  <1>1. PICK T : T = {w, x, y, z}
    OBVIOUS
  <1>2. PICK s1, s2, s3, s4 : /\ s1 = Append(<<>>, w) /\ s2 = Append(s1, x)
                              /\ s3 = Append(s2, y) /\ s4 = Append(s3, z)
    OBVIOUS
  <1>3. s1 \in Seq(T) /\ Len(s1) = 1 /\ s1[1] = w
    BY <1>1, <1>2
  <1>4. s2 \in Seq(T) /\ Len(s2) = 2 /\ s2[1] = w /\ s2[2] = x
    BY <1>1, <1>2, <1>3
  <1>5. s3 \in Seq(T) /\ Len(s3) = 3 /\ s3[1] = w /\ s3[2] = x /\ s3[3] = y
    BY <1>1, <1>2, <1>4
  <1>6. /\ s4 \in Seq(T) /\ Len(s4) = 4
        /\ s4[1] = w /\ s4[2] = x /\ s4[3] = y /\ s4[4] = z
    BY <1>1, <1>2, <1>5
  <1>7. \A i \in 1 .. 4 : s4[i] = f[i]
    <2>1. \A i \in 1 .. 4 : i = 1 \/ i = 2 \/ i = 3 \/ i = 4
      OBVIOUS
    <2> QED BY <1>6, <2>1
  <1>8. s4 = [i \in 1 .. 4 |-> s4[i]]
    BY <1>6
  <1> QED BY <1>2, <1>7, <1>8

\* The words of the unit's command, as they are read.
LEMMA UnitIsRead ==
  ASSUME executable \in Seq(Piece), cfgPath \in Seq(Piece)
  PROVE  Words(ExecStart)
           = [i \in 1 .. 4 |-> [text |-> Doubled(Signs, Arguments[i]), quoted |-> TRUE]]
  <1> DEFINE word(text) == [text |-> Doubled(Signs, text), quoted |-> TRUE]
  <1>1. PICK a, b, c, d : a = executable /\ b = <<"-config">> /\ c = cfgPath /\ d = <<"x">>
    OBVIOUS
  <1>2. /\ a \in Seq(Piece) /\ b \in Seq(Piece)
        /\ c \in Seq(Piece) /\ d \in Seq(Piece)
    BY <1>1 DEF Piece
  <1>3. /\ Arguments[1] = a /\ Arguments[2] = b
        /\ Arguments[3] = c /\ Arguments[4] = d
    BY <1>1 DEF Arguments
  <1>4. CommandLine = Joined(a, b, c, d)
    BY <1>3 DEF CommandLine, Joined
  <1>5. /\ CommandLine \in Seq(Line)
        /\ Words(CommandLine) = With(With(With(With(<<>>, a), b), c), d)
    BY <1>2, <1>4, FourWordsAreRead
  <1>6. ExecStart = CommandLine
    BY <1>5, LineEnds
  <1>7. PICK w, x, y, z : w = word(a) /\ x = word(b) /\ y = word(c) /\ z = word(d)
    OBVIOUS
  <1>8. With(With(With(With(<<>>, a), b), c), d) = Append(Append(Append(Append(<<>>, w), x), y), z)
    BY <1>7 DEF With
  <1>9. [i \in 1 .. 4 |-> word(Arguments[i])]
          = Append(Append(Append(Append(<<>>, w), x), y), z)
    <2> HIDE DEF word
    <2>1. PICK f : f = [i \in 1 .. 4 |-> word(Arguments[i])]
      OBVIOUS
    <2>2. f[1] = w /\ f[2] = x /\ f[3] = y /\ f[4] = z
      BY <1>3, <1>7, <2>1
    <2>3. f = [i \in 1 .. 4 |-> f[i]]
      BY <2>1
    <2>4. f = Append(Append(Append(Append(<<>>, w), x), y), z)
      BY <2>2, <2>3, FourAppended
    <2> QED BY <2>1, <2>4
  <1> QED BY <1>5, <1>6, <1>8, <1>9

\* The program's path as systemd runs it: nothing if a special character is in it.
RunAs(path) == IF \E n \in DOMAIN path : path[n] \in Special THEN <<>> ELSE path

\* systemd runs the program whose path was quoted if it is Runnable, and no other.
LEMMA RunnableRuns ==
  ASSUME NEW text \in Seq(Meaning), Len(text) > 0
  PROVE  RunAs(Doubled({"$"}, text)) = text <=> Runnable(text)
  <1>1. PICK D : D = {"$"}
    OBVIOUS
  <1>2. DOMAIN text = 1 .. Len(text) /\ Len(text) \in Nat /\ text # <<>>
    OBVIOUS
  <1>3. CASE \E n \in 1 .. Len(text) : text[n] \in D
    <2>1. Len(Doubled(D, text)) > Len(text)
      BY <1>3, DoublingShows
    <2>2. Doubled(D, text) # text
      BY <1>2, <2>1
    <2>3. RunAs(Doubled(D, text)) # text
      BY <1>2, <2>2 DEF RunAs
    <2>4. ~Runnable(text)
      BY <1>1, <1>2, <1>3 DEF Runnable
    <2> QED BY <1>1, <2>3, <2>4
  <1>4. CASE \A n \in 1 .. Len(text) : text[n] \notin D
    <2>1. Doubled(D, text) = text
      BY <1>4, DoublingShows
    <2>2. Runnable(text) <=> \A n \in DOMAIN text : text[n] \notin Special
      BY <1>1, <1>2, <1>4 DEF Runnable
    <2>3. RunAs(text) = text <=> \A n \in DOMAIN text : text[n] \notin Special
      BY <1>2 DEF RunAs
    <2> QED BY <1>1, <2>1, <2>2, <2>3
  <1> QED BY <1>3, <1>4

\* The unit that is written (renderSystemdUnit) is read by Status (parseSystemdExecStart,
\* parseSystemdArguments) as the command that was installed, and by systemd with its
\* arguments, for every path of the executable and of the configuration; systemd runs
\* the installed executable if and only if there is no $, quote, backslash or newline in
\* its path.
THEOREM CommandRoundTrip == DefinitionInputs => CommandSurvives
  <1> SUFFICES ASSUME DefinitionInputs PROVE CommandSurvives
    OBVIOUS
  <1>1. /\ executable \in Seq(Piece) /\ cfgPath \in Seq(Piece)
        /\ Len(executable) > 0
    BY PathsAreTexts
  <1>2. PICK words : /\ words = Words(ExecStart)
                     /\ words = [i \in 1 .. 4 |-> [text |-> Doubled(Signs, Arguments[i]),
                                                  quoted |-> TRUE]]
    BY <1>1, UnitIsRead
  <1>3. ASSUME NEW i \in 1 .. 4 PROVE Arguments[i] \in Seq(Meaning)
    <2>1. <<"-config">> \in Seq(Meaning) /\ <<"x">> \in Seq(Meaning)
      BY DEF Meaning, Piece
    <2>2. executable \in Seq(Meaning) /\ cfgPath \in Seq(Meaning)
      BY <1>1 DEF Meaning
    <2>3. PICK b, d : b = <<"-config">> /\ d = <<"x">>
      OBVIOUS
    <2>4. Arguments = <<executable, b, cfgPath, d>>
      BY <2>3 DEF Arguments
    <2>5. /\ Arguments[1] = executable /\ Arguments[2] = b
          /\ Arguments[3] = cfgPath /\ Arguments[4] = d
      BY <2>4
    <2>6. b \in Seq(Meaning) /\ d \in Seq(Meaning)
      BY <2>1, <2>3
    <2>7. i = 1 \/ i = 2 \/ i = 3 \/ i = 4
      OBVIOUS
    <2> QED BY <2>2, <2>5, <2>6, <2>7
  <1>4. \A i \in 1 .. 4 : /\ Restore(words[i].text) = Arguments[i]
                          /\ Expand(words[i].text) = Arguments[i]
                          /\ Specified(words[i].text) = Doubled({"$"}, Arguments[i])
                          /\ words[i].quoted
    BY <1>2, <1>3, TextIsRestored
  <1>5. DOMAIN words = 1 .. 4 /\ Len(words) = 4 /\ Len(Arguments) = 4
    BY <1>2 DEF Arguments
  <1>6. StatusArguments = Arguments
    <2>1. StatusArguments
            = [i \in DOMAIN words |-> IF words[i].quoted THEN Restore(words[i].text)
                                                        ELSE words[i].text]
      BY <1>2 DEF StatusArguments
    <2>2. Arguments = [i \in 1 .. 4 |-> Arguments[i]]
      BY DEF Arguments
    <2> QED BY <1>4, <1>5, <2>1, <2>2
  <1>7. SystemdArguments = [i \in 2 .. Len(Arguments) |-> Arguments[i]]
    <2>1. SystemdArguments = [i \in 2 .. Len(words) |-> Expand(words[i].text)]
      BY <1>2 DEF SystemdArguments
    <2>2. \A i \in 2 .. 4 : i \in 1 .. 4
      OBVIOUS
    <2> QED BY <1>4, <1>5, <2>1, <2>2
  <1>8. SystemdProgram = executable <=> Runnable(executable)
    <2>1. Arguments[1] = executable
      BY DEF Arguments
    <2>2. Specified(words[1].text) = Doubled({"$"}, executable)
      BY <1>4, <2>1
    <2>3. SystemdProgram = RunAs(Specified(words[1].text))
      BY <1>2 DEF SystemdProgram, RunAs
    <2>4. executable \in Seq(Meaning)
      BY <1>1 DEF Meaning
    <2> QED BY <1>1, <2>2, <2>3, <2>4, RunnableRuns
  <1> QED BY <1>6, <1>7, <1>8 DEF CommandSurvives

\* What is known of the configuration among the arguments.
Searching(path, value) == [path |-> path, value |-> value]

\* What each argument makes of it.
LEMMA ConfigCloses ==
  /\ Closed(ConfigStep, Searched, Seq(Meaning))
  /\ \A arg \in Seq(Meaning), path \in Seq(Meaning) :
       /\ ConfigStep[arg][Searching(path, TRUE)] = Searching(arg, FALSE)
       /\ arg = <<"-config">> =>
            ConfigStep[arg][Searching(path, FALSE)] = Searching(path, TRUE)
       /\ arg # <<"-config">> /\ ~Assigns(arg) =>
            ConfigStep[arg][Searching(path, FALSE)] = Searching(path, FALSE)
  <1>1. \A path \in Seq(Meaning) : /\ Searching(path, TRUE) \in Searched
                                           /\ Searching(path, FALSE) \in Searched
    BY DEF Searching, Searched
  <1>2. ASSUME NEW acc \in Searched
        PROVE  \E path \in Seq(Meaning) : acc \in {Searching(path, TRUE), Searching(path, FALSE)}
    BY DEF Searching, Searched
  <1>3. \A arg \in Seq(Meaning) : Assigns(arg) => Tail(arg) \in Seq(Meaning)
    BY DEF Assigns
  <1>4. ASSUME NEW arg \in Seq(Meaning), NEW path \in Seq(Meaning)
        PROVE  /\ ConfigStep[arg][Searching(path, TRUE)] = Searching(arg, FALSE)
               /\ arg = <<"-config">> =>
                    ConfigStep[arg][Searching(path, FALSE)] = Searching(path, TRUE)
               /\ arg # <<"-config">> /\ Assigns(arg) =>
                    ConfigStep[arg][Searching(path, FALSE)] = Searching(Tail(arg), FALSE)
               /\ arg # <<"-config">> /\ ~Assigns(arg) =>
                    ConfigStep[arg][Searching(path, FALSE)] = Searching(path, FALSE)
    <2>1. ASSUME NEW acc \in Searched
          PROVE  ConfigStep[arg][acc]
                   = CASE acc.value                          -> [path |-> arg, value |-> FALSE]
                       [] ~acc.value /\ arg = <<"-config">>  -> [acc EXCEPT !.value = TRUE]
                       [] ~acc.value /\ Assigns(arg) -> [acc EXCEPT !.path = Tail(arg)]
                       [] ~acc.value /\ arg # <<"-config">> /\ ~Assigns(arg) -> acc
      BY DEF ConfigStep
    <2>2. ~Assigns(<<"-config">>)
      BY DEF Assigns
    <2>3. PICK t, f : t = Searching(path, TRUE) /\ f = Searching(path, FALSE)
      OBVIOUS
    <2>4. /\ t \in Searched /\ f \in Searched /\ t.value /\ ~f.value
      BY <1>1, <2>3 DEF Searching
    <2>5. ConfigStep[arg][t] = [path |-> arg, value |-> FALSE]
      BY <2>1, <2>4
    <2>6. arg = <<"-config">> => ConfigStep[arg][f] = [f EXCEPT !.value = TRUE]
      BY <2>1, <2>2, <2>4
    <2>7. arg # <<"-config">> /\ Assigns(arg) =>
            ConfigStep[arg][f] = [f EXCEPT !.path = Tail(arg)]
      BY <2>1, <2>4
    <2>8. arg # <<"-config">> /\ ~Assigns(arg) => ConfigStep[arg][f] = f
      BY <2>1, <2>4
    <2>9. [path |-> arg, value |-> FALSE] = Searching(arg, FALSE)
      BY DEF Searching
    <2>10. /\ \A u, v \in Searched : u.path = v.path /\ u.value = v.value => u = v
           /\ \A u \in Searched : u.path \in Seq(Meaning) /\ u.value \in BOOLEAN
      BY DEF Searched
    <2>11. /\ [f EXCEPT !.value = TRUE] \in Searched
           /\ [f EXCEPT !.value = TRUE].path = f.path /\ [f EXCEPT !.value = TRUE].value = TRUE
      BY <2>4 DEF Searched
    <2>12. ASSUME NEW p \in Seq(Meaning)
           PROVE  /\ [f EXCEPT !.path = p] \in Searched
                  /\ [f EXCEPT !.path = p].path = p /\ [f EXCEPT !.path = p].value = f.value
      BY <2>4 DEF Searched
    <2>13. \A p \in Seq(Meaning) : /\ Searching(p, TRUE).path = p /\ Searching(p, TRUE).value = TRUE
                                          /\ Searching(p, FALSE).path = p /\ Searching(p, FALSE).value = FALSE
      BY DEF Searching
    <2>14. [f EXCEPT !.value = TRUE] = Searching(path, TRUE)
      <3>1. PICK g, r : g = [f EXCEPT !.value = TRUE] /\ r = Searching(path, TRUE)
        OBVIOUS
      <3>2. g \in Searched /\ r \in Searched
        BY <1>1, <2>11, <3>1
      <3>3. g.path = r.path /\ g.value = r.value
        BY <2>3, <2>11, <2>13, <3>1
      <3> QED BY <2>10, <3>1, <3>2, <3>3
    <2>15. ASSUME NEW p \in Seq(Meaning) PROVE [f EXCEPT !.path = p] = Searching(p, FALSE)
      <3>1. PICK g, r : g = [f EXCEPT !.path = p] /\ r = Searching(p, FALSE)
        OBVIOUS
      <3>2. g \in Searched /\ r \in Searched
        BY <1>1, <2>12, <3>1
      <3>3. f.value = FALSE
        BY <2>3, <2>13
      <3>4. r.path = p /\ r.value = FALSE
        BY <2>13, <3>1
      <3>5. g.path = p /\ g.value = f.value
        BY <2>12, <3>1
      <3> QED BY <2>10, <3>1, <3>2, <3>3, <3>4, <3>5
    <2> QED BY <2>3, <2>5, <2>6, <2>7, <2>8, <2>9, <2>14, <2>15, <1>3
  <1>5. ASSUME NEW arg \in Seq(Meaning), NEW acc \in Searched
        PROVE  ConfigStep[arg][acc] \in Searched
    <2>1. PICK path \in Seq(Meaning) : acc = Searching(path, TRUE) \/ acc = Searching(path, FALSE)
      BY <1>2
    <2>2. CASE acc = Searching(path, TRUE)
      <3>1. ConfigStep[arg][acc] = Searching(arg, FALSE)
        BY <1>4, <2>2
      <3> QED BY <1>1, <3>1
    <2>3. CASE acc = Searching(path, FALSE) /\ arg # <<"-config">> /\ Assigns(arg)
      <3>1. ConfigStep[arg][acc] = Searching(Tail(arg), FALSE)
        BY <1>4, <2>3
      <3>2. Tail(arg) \in Seq(Meaning)
        BY <1>3, <2>3
      <3> QED BY <1>1, <3>1, <3>2
    <2>4. CASE acc = Searching(path, FALSE) /\ ~(arg # <<"-config">> /\ Assigns(arg))
      <3>1. ConfigStep[arg][acc] \in {Searching(path, TRUE), Searching(path, FALSE)}
        BY <1>4, <2>4
      <3> QED BY <1>1, <3>1
    <2> QED BY <2>1, <2>2, <2>3, <2>4
  <1>6. Closed(ConfigStep, Searched, Seq(Meaning))
    BY <1>5 DEF Closed
  <1> QED BY <1>4, <1>6

\* Status (configArgument) finds the configuration of the command that was
\* installed, for every path, also one that looks like an option.
THEOREM ConfigurationFound == DefinitionInputs => ConfigFound
  <1> SUFFICES ASSUME DefinitionInputs PROVE ConfigFound
    OBVIOUS
  <1> DEFINE scan(acc, args) == Scan(ConfigStep, acc, args)
  <1>1. StatusArguments = <<executable, <<"-config">>, cfgPath, <<"x">>>>
    BY CommandRoundTrip DEF CommandSurvives, Arguments
  <1>2. executable \in Seq(Piece) /\ cfgPath \in Seq(Piece)
    BY PathsAreTexts
  <1>3. PICK a, b, c, s : a = <<"-config">> /\ b = cfgPath /\ c = <<"x">> /\ s = Searching(<<>>, FALSE)
    OBVIOUS
  <1>4. /\ a \in Seq(Meaning) /\ b \in Seq(Meaning)
        /\ c \in Seq(Meaning) /\ <<>> \in Seq(Meaning)
    BY <1>2, <1>3 DEF Meaning, Piece
  <1>5. SubSeq(StatusArguments, 2, Len(StatusArguments)) = <<a>> \o <<b, c>>
    BY <1>1, <1>3
  <1>6. /\ ConfigStep[a][s] = Searching(<<>>, TRUE)
        /\ ConfigStep[b][Searching(<<>>, TRUE)] = Searching(b, FALSE)
        /\ ConfigStep[c][Searching(b, FALSE)] = Searching(b, FALSE)
    <2>1. c # <<"-config">> /\ ~Assigns(c)
      BY <1>3 DEF Assigns
    <2> QED BY <1>3, <1>4, <2>1, ConfigCloses
  <1>7. Closed(ConfigStep, Searched, Seq(Meaning))
    BY ConfigCloses
  <1>8. s \in Searched /\ Searching(<<>>, TRUE) \in Searched
    BY <1>3, <1>4 DEF Searched, Searching
  <1>9. scan(s, <<a>>) = Searching(<<>>, TRUE)
    <2>1. /\ scan(s, <<>>) = s /\ scan(s, <<a>>) = ConfigStep[a][s]
          /\ scan(s, <<a, a>>) = ConfigStep[a][ConfigStep[a][s]]
      BY <1>4, <1>7, <1>8, ShortScans
    <2> QED BY <1>6, <2>1
  <1>10. scan(Searching(<<>>, TRUE), <<b, c>>) = Searching(b, FALSE)
    <2>1. PICK v : v = Searching(<<>>, TRUE)
      OBVIOUS
    <2>2. v \in Searched
      BY <1>8, <2>1
    <2>3. /\ scan(v, <<>>) = v /\ scan(v, <<b>>) = ConfigStep[b][v]
          /\ scan(v, <<b, c>>) = ConfigStep[c][ConfigStep[b][v]]
      BY <1>4, <1>7, <2>2, ShortScans
    <2> QED BY <1>6, <2>1, <2>3
  <1>11. scan(s, <<a>> \o <<b, c>>) = scan(scan(s, <<a>>), <<b, c>>)
    <2>1. PICK u, w : u = <<a>> /\ w = <<b, c>>
      OBVIOUS
    <2>2. u \in Seq(Seq(Meaning)) /\ w \in Seq(Seq(Meaning))
      BY <1>4, <2>1
    <2>3. scan(s, u \o w) = scan(scan(s, u), w)
      BY <1>7, <1>8, <2>2, ScanOn
    <2> QED BY <2>1, <2>3
  <1>12. ConfigArgument(StatusArguments) = Searching(b, FALSE).path
    BY <1>3, <1>5, <1>9, <1>10, <1>11 DEF ConfigArgument, Searching
  <1> QED BY <1>3, <1>12 DEF ConfigFound, Searching

=============================================================================
