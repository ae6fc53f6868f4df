----------------------------- MODULE Supervisor -----------------------------
(***************************************************************************)
(* The loop that keeps one proxy runtime going (app/app.go): it loads the  *)
(* configuration, launches a server for it, replaces the server on SIGHUP, *)
(* restores the last configuration that reached readiness when the new one *)
(* does not start, and stops on SIGINT or SIGTERM.                         *)
(*                                                                         *)
(* A configuration is the version of the file it was read from, 0 for none *)
(* and for a file that does not load.  Runtimes are numbered in the order  *)
(* they are launched; their servers run concurrently with the loop.        *)
(***************************************************************************)
EXTENDS Integers

CONSTANTS
  MaxWrites,    \* bound: how often the file is rewritten
  MaxSignals    \* bound: how many SIGHUPs are sent

ASSUME BoundAssumption == MaxWrites \in Nat /\ MaxSignals \in Nat

Version == 1 .. MaxWrites + 1
Run     == 1 .. 2 * MaxSignals + 1      \* a reload launches two runtimes at most

VARIABLES
  foreground,   \* -foreground: errors are returned instead of idling
  file,         \* version of the configuration file and whether it loads
  hangup,       \* a SIGHUP waits in the signal channel, which holds one
  signals,      \* how many SIGHUPs have been sent
  terminated,   \* ctx is canceled: SIGINT or SIGTERM has arrived
  pc,           \* where the loop is
  candidate,    \* what config.Load returned
  next,         \* what start is to launch once the current runtime has stopped
  current,      \* the current runtime, 0 for nil
  serving,      \* current.serving
  rollback,     \* current.rollbackCause is set
  lastGood,     \* lastGood
  launched,     \* how many runtimes have been launched
  config,       \* the configuration of each runtime
  server,       \* where the server of each runtime is
  cut,          \* runtimes whose context is canceled
  wasReady,     \* runtimes that have reached readiness (history)
  asked,        \* version of the file at the last SIGHUP (history)
  considered,   \* version the loop has last loaded (history)
  exit          \* how the process ended

vars == <<foreground, file, hangup, signals, terminated, pc, candidate, next, current,
          serving, rollback, lastGood, launched, config, server, cut, wasReady, asked,
          considered, exit>>

Ended == {"ok", "failed", "listener"}

TypeOK ==
  /\ foreground \in BOOLEAN
  /\ file \in [version : Version, valid : BOOLEAN]
  /\ hangup \in BOOLEAN
  /\ signals \in 0 .. MaxSignals
  /\ terminated \in BOOLEAN
  /\ pc \in {"load", "loaded", "top", "select", "cancel", "stop", "launch", "quit", "exited"}
  /\ candidate \in Version \cup {0}
  /\ next \in [config : Version \cup {0}, rollback : BOOLEAN]
  /\ current \in Run \cup {0}
  /\ serving \in BOOLEAN
  /\ rollback \in BOOLEAN
  /\ lastGood \in Version \cup {0}
  /\ launched \in Run \cup {0}
  /\ config \in [Run -> Version \cup {0}]
  /\ server \in [Run -> {"none", "starting", "ready"} \cup Ended]
  /\ cut \in SUBSET Run
  /\ wasReady \in SUBSET Run
  /\ asked \in Version \cup {0}
  /\ considered \in Version \cup {0}
  /\ exit \in {"no", "terminated", "config", "listener", "startup"}

Nothing == [config |-> 0, rollback |-> FALSE]

Init ==
  /\ foreground \in BOOLEAN
  /\ file \in [version : {1}, valid : BOOLEAN]
  /\ hangup = FALSE /\ signals = 0 /\ terminated = FALSE
  /\ pc = "load"
  /\ candidate = 0 /\ next = Nothing
  /\ current = 0 /\ serving = FALSE /\ rollback = FALSE
  /\ lastGood = 0
  /\ launched = 0
  /\ config = [r \in Run |-> 0]
  /\ server = [r \in Run |-> "none"]
  /\ cut = {} /\ wasReady = {}
  /\ asked = 0 /\ considered = 0
  /\ exit = "no"

outside == <<foreground, file, hangup, signals, terminated, asked>>
servers == <<launched, config, server, cut, wasReady>>
held    == <<current, serving, rollback, lastGood>>

-----------------------------------------------------------------------------
\* The operator rewrites the file, signals the process, or ends it.
WriteFile(valid) ==
  /\ file.version <= MaxWrites
  /\ file' = [version |-> file.version + 1, valid |-> valid]
  /\ UNCHANGED <<foreground, hangup, signals, terminated, asked, pc, candidate, next,
                 held, servers, considered, exit>>

\* Mutant: the signal channel has no buffer.
HangupUnbuffered ==
  /\ signals < MaxSignals
  /\ signals' = signals + 1
  /\ hangup' = (pc = "select")
  /\ asked' = file.version
  /\ UNCHANGED <<foreground, file, terminated, pc, candidate, next, held, servers,
                 considered, exit>>

\* A signal that finds the channel full is dropped.
Hangup ==
  /\ signals < MaxSignals
  /\ signals' = signals + 1
  /\ hangup' = TRUE
  /\ asked' = file.version
  /\ UNCHANGED <<foreground, file, terminated, pc, candidate, next, held, servers,
                 considered, exit>>

Terminate ==
  /\ ~terminated
  /\ terminated' = TRUE
  /\ UNCHANGED <<foreground, file, hangup, signals, asked, pc, candidate, next, held,
                 servers, considered, exit>>

-----------------------------------------------------------------------------
\* The server of runtime r: it binds its sockets and reports readiness, fails to,
\* loses a listener, or returns because its context is canceled.
Alive(r) == server[r] \in {"starting", "ready"}

Interrupted(r) == r \in cut \/ terminated

GetReady(r) ==
  /\ server[r] = "starting"
  /\ server' = [server EXCEPT ![r] = "ready"]
  /\ wasReady' = wasReady \cup {r}
  /\ UNCHANGED <<outside, pc, candidate, next, held, launched, config, cut, considered,
                 exit>>

StartupFails(r) ==
  /\ server[r] = "starting"
  /\ server' = [server EXCEPT ![r] = "failed"]
  /\ UNCHANGED <<outside, pc, candidate, next, held, launched, config, cut, wasReady,
                 considered, exit>>

ListenerFails(r) ==
  /\ server[r] = "ready"
  /\ server' = [server EXCEPT ![r] = "listener"]
  /\ UNCHANGED <<outside, pc, candidate, next, held, launched, config, cut, wasReady,
                 considered, exit>>

\* Teardown may itself report an error.
Return(r) ==
  /\ Alive(r)
  /\ Interrupted(r)
  /\ \E result \in {"ok", "failed"} : server' = [server EXCEPT ![r] = result]
  /\ UNCHANGED <<outside, pc, candidate, next, held, launched, config, cut, wasReady,
                 considered, exit>>

-----------------------------------------------------------------------------
\* runtimeInstance.state.
State ==
  IF current = 0 THEN "idle"
  ELSE IF serving THEN "serving"
  ELSE IF rollback THEN "rollingBack" ELSE "starting"

\* Whether observeReadiness finds that the current runtime has become ready.
\* ready stays closed when the server has failed since.
NewlyReady ==
  /\ State \in {"starting", "rollingBack"}
  /\ ~terminated
  /\ current \in wasReady

\* observeReadiness: the configuration of a runtime that has become ready is the
\* one to come back to.
Observe ==
  /\ serving' = (serving \/ NewlyReady)
  /\ rollback' = (rollback /\ ~NewlyReady)
  /\ lastGood' = IF NewlyReady THEN config[current] ELSE lastGood

\* stopCurrent and return: wait for the current runtime, then leave.
Quit == pc' = "quit" /\ next' = Nothing

\* Mutant: the new runtime is launched while the old one winds down.
StartAtOnce(version, cause) ==
  /\ next' = [config |-> version, rollback |-> cause]
  /\ pc' = "launch"

\* start: stop the current runtime if there is one, and launch after it.
Start(version, cause) ==
  /\ next' = [config |-> version, rollback |-> cause]
  /\ pc' = IF current = 0 THEN "launch" ELSE "cancel"

\* config.Load reads the file; validation is part of it.
Load ==
  /\ pc = "load"
  /\ \/ terminated /\ Quit /\ UNCHANGED <<candidate, considered>>
     \/ /\ ~terminated
        /\ candidate' = IF file.valid THEN file.version ELSE 0
        /\ considered' = file.version
        /\ pc' = "loaded"
        /\ UNCHANGED next
  /\ UNCHANGED <<outside, held, servers, exit>>

\* loadConfiguration, the file loaded: start it in place of the current runtime.
Activate ==
  /\ pc = "loaded"
  /\ ~terminated
  /\ candidate # 0
  /\ Observe
  /\ Start(candidate, FALSE)
  /\ UNCHANGED <<outside, current, candidate, servers, considered, exit>>

\* Mutant: readiness is not looked at before a reload is refused.
AbandonUnobserved ==
  /\ pc = "loaded"
  /\ ~terminated
  /\ candidate = 0
  /\ State = "starting" /\ lastGood # 0
  /\ Start(lastGood, TRUE)
  /\ UNCHANGED <<outside, held, candidate, servers, considered, exit>>

\* The file does not load, and the runtime still starting has a predecessor that
\* served: go back to that one.
Abandon ==
  /\ pc = "loaded"
  /\ ~terminated
  /\ candidate = 0
  /\ State = "starting" /\ lastGood # 0 /\ ~NewlyReady
  /\ Start(lastGood, TRUE)
  /\ UNCHANGED <<outside, held, candidate, servers, considered, exit>>

\* The file does not load: keep what there is.
Keep ==
  /\ pc = "loaded"
  /\ ~terminated
  /\ candidate = 0
  /\ \/ State # "idle" /\ ~(State = "starting" /\ lastGood # 0 /\ ~NewlyReady)
     \/ State = "idle" /\ (lastGood # 0 \/ ~foreground)
  /\ Observe
  /\ pc' = "top"
  /\ UNCHANGED <<outside, current, candidate, next, servers, considered, exit>>

\* In the foreground a file that does not load ends the process if nothing runs
\* and nothing has.
GiveUp ==
  /\ pc = "loaded"
  /\ ~terminated
  /\ candidate = 0
  /\ State = "idle" /\ lastGood = 0 /\ foreground
  /\ pc' = "exited" /\ exit' = "config"
  /\ UNCHANGED <<outside, held, candidate, next, servers, considered>>

QuitLoaded ==
  /\ pc = "loaded"
  /\ terminated
  /\ Quit
  /\ UNCHANGED <<outside, held, candidate, servers, considered, exit>>

-----------------------------------------------------------------------------
\* current.stop: r.cancel, then <-r.done.
Cancel ==
  /\ pc = "cancel"
  /\ cut' = cut \cup {current}
  /\ pc' = "stop"
  /\ UNCHANGED <<outside, held, candidate, next, launched, config, server, wasReady,
                 considered, exit>>

Stop ==
  /\ pc = "stop"
  /\ ~Alive(current)
  /\ current' = 0 /\ serving' = FALSE /\ rollback' = FALSE
  /\ pc' = "launch"
  /\ UNCHANGED <<outside, candidate, next, lastGood, servers, considered, exit>>

\* A shutdown during the stop ends the loop.
Launch ==
  /\ pc = "launch"
  /\ \/ terminated /\ Quit /\ UNCHANGED <<current, serving, rollback, launched, config, server>>
     \/ /\ ~terminated
        /\ launched' = launched + 1
        /\ current' = launched'
        /\ serving' = FALSE
        /\ rollback' = next.rollback
        /\ config' = [config EXCEPT ![launched'] = next.config]
        /\ server' = [server EXCEPT ![launched'] = "starting"]
        /\ next' = Nothing
        /\ pc' = "top"
  /\ UNCHANGED <<outside, candidate, lastGood, cut, wasReady, considered, exit>>

\* The top of the loop.
Top ==
  /\ pc = "top"
  /\ \/ terminated /\ Quit /\ UNCHANGED <<serving, rollback, lastGood>>
     \/ ~terminated /\ Observe /\ pc' = "select" /\ UNCHANGED next
  /\ UNCHANGED <<outside, current, candidate, servers, considered, exit>>

\* Mutant: the loop learns of a shutdown from its runtime only.
ShutdownByRuntime ==
  /\ pc = "select"
  /\ terminated
  /\ current # 0
  /\ Quit
  /\ UNCHANGED <<outside, held, candidate, servers, considered, exit>>

SelectShutdown ==
  /\ pc = "select"
  /\ terminated
  /\ Quit
  /\ UNCHANGED <<outside, held, candidate, servers, considered, exit>>

SelectReload ==
  /\ pc = "select"
  /\ hangup
  /\ hangup' = FALSE
  /\ pc' = "load"
  /\ UNCHANGED <<foreground, file, signals, terminated, asked, held, candidate, next,
                 servers, considered, exit>>

\* Readiness is committed at the top of the loop, after the shutdown check.
SelectReady ==
  /\ pc = "select"
  /\ ~serving
  /\ current \in wasReady
  /\ pc' = "top"
  /\ UNCHANGED <<outside, held, candidate, next, servers, considered, exit>>

\* The current runtime has returned on its own.
Gone == pc = "select" /\ current # 0 /\ ~Alive(current)

Forget == current' = 0 /\ serving' = FALSE /\ rollback' = FALSE

DoneShutdown ==
  /\ Gone
  /\ terminated
  /\ Quit
  /\ UNCHANGED <<outside, held, candidate, servers, considered, exit>>

\* Mutant: a failed startup is never rolled back.
RollBackNever == FALSE

\* A runtime that has not become ready gives way to the last good configuration.
RollsBack == State = "starting" /\ ~NewlyReady /\ lastGood # 0

DoneRollBack ==
  /\ Gone
  /\ ~terminated
  /\ RollsBack
  /\ next' = [config |-> lastGood, rollback |-> TRUE]
  /\ Forget
  /\ pc' = "launch"
  /\ UNCHANGED <<outside, lastGood, candidate, servers, considered, exit>>

\* shouldReturnProxyError.
ReturnsError(r) == foreground \/ server[r] = "listener"

DoneExit ==
  /\ Gone
  /\ ~terminated
  /\ ~RollsBack
  /\ ReturnsError(current)
  /\ lastGood' = IF NewlyReady THEN config[current] ELSE lastGood
  /\ Forget
  /\ pc' = "exited"
  /\ exit' = IF server[current] = "listener" THEN "listener" ELSE "startup"
  /\ UNCHANGED <<outside, candidate, next, servers, considered>>

DoneIdle ==
  /\ Gone
  /\ ~terminated
  /\ ~RollsBack
  /\ ~ReturnsError(current)
  /\ lastGood' = IF NewlyReady THEN config[current] ELSE lastGood
  /\ Forget
  /\ pc' = "top"
  /\ UNCHANGED <<outside, candidate, next, servers, considered, exit>>

\* stopCurrent on the way out; the runtime is canceled with the process already.
Leave ==
  /\ pc = "quit"
  /\ current # 0 => ~Alive(current)
  /\ pc' = "exited"
  /\ exit' = "terminated"
  /\ cut' = cut \cup ({current} \ {0})
  /\ Forget
  /\ UNCHANGED <<outside, lastGood, candidate, next, launched, config, server, wasReady,
                 considered>>

-----------------------------------------------------------------------------
Loop ==
  \/ Load \/ Activate \/ Abandon \/ Keep \/ GiveUp \/ QuitLoaded
  \/ Cancel \/ Stop \/ Launch \/ Top
  \/ SelectShutdown \/ SelectReload \/ SelectReady
  \/ DoneShutdown \/ DoneRollBack \/ DoneExit \/ DoneIdle
  \/ Leave

Server(r) == GetReady(r) \/ StartupFails(r) \/ ListenerFails(r) \/ Return(r)

Environment == \/ \E valid \in BOOLEAN : WriteFile(valid)
               \/ Hangup
               \/ Terminate

Next == (pc # "exited" /\ Environment) \/ (\E r \in Run : Server(r)) \/ Loop

Spec == Init /\ [][Next]_vars

\* The loop's goroutine runs, and a server whose context is canceled returns.
\* Nothing makes a server become ready: its startup may stall.
Fairness == WF_vars(Loop) /\ \A r \in Run : WF_vars(Return(r))

FairSpec == Spec /\ Fairness

-----------------------------------------------------------------------------
\* Two runtimes never have their sockets and upstream connection at once, so a
\* replacement does not find the locks of its predecessor taken.
OneRuntime == \A r, s \in Run : Alive(r) /\ Alive(s) => r = s

\* Only a configuration that has reached readiness is ever rolled back to.
LastGoodWasReady == lastGood # 0 => \E r \in wasReady : config[r] = lastGood

\* The proxy idles, with a good configuration at hand, only when that one was the
\* last to be tried: a reload never leaves it idle while the old one would do.
IdleOnlyAfterGoodFailed ==
  pc = "select" /\ current = 0 /\ lastGood # 0 => config[launched] = lastGood

\* A file that does not load never costs a runtime that is ready when the load
\* returns, whether the loop has noticed or not.
InvalidReloadKeepsReady ==
  [][pc = "loaded" /\ candidate = 0 /\ current \in wasReady /\ ~terminated
       => pc' \notin {"cancel", "launch"}]_vars

\* Every SIGHUP takes effect: the loop loads what the file held when it was sent,
\* or something newer, however many signals have been dropped.
HangupIsHonoured ==
  \A v \in Version : (asked = v) ~> (considered >= v \/ pc = "exited" \/ terminated)

\* Termination ends the process, also one whose replacement runtime stalls.
TerminationEnds == terminated ~> (pc = "exited")
=============================================================================
