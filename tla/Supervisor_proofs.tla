-------------------------- MODULE Supervisor_proofs --------------------------
(***************************************************************************)
(* Proofs about Supervisor, for any number of rewritten files and signals. *)
(***************************************************************************)
EXTENDS Supervisor, TLAPS

\* Runtimes are launched in order, and current is the last one or none.
Runtimes ==
  /\ current \in {0, launched}
  /\ current = 0 => ~serving /\ ~rollback
  /\ \A r \in Run : r > launched => server[r] = "none" /\ r \notin wasReady
  /\ pc \in {"launch", "exited"} => current = 0
  /\ pc \in {"cancel", "stop"} => current # 0

\* The loop knows of every server that runs.
Known == \A r \in Run : Alive(r) => r = current

\* What serves, what is being restored and what is to be restored is lastGood.
GoodKept ==
  /\ serving \/ rollback => config[current] = lastGood
  /\ pc \in {"cancel", "stop", "launch"} /\ next.rollback => next.config = lastGood
  /\ lastGood # 0 => launched # 0

\* When nothing is left to run, lastGood was the last to be tried.
IdleTried ==
  pc \in {"load", "loaded", "top", "select"} /\ current = 0 /\ lastGood # 0
    => config[launched] = lastGood

\* The SIGHUPs the loop has taken, the runtimes it is about to launch, and the one
\* that may have to be launched for the failure of the current one.
Taken == IF hangup THEN signals - 1 ELSE signals

Pending ==
  IF pc \in {"cancel", "stop", "launch"}
  THEN IF next.rollback \/ lastGood = 0 THEN 1 ELSE 2
  ELSE 0

Owed ==
  IF /\ current # 0 /\ ~serving /\ ~rollback
     /\ lastGood # 0
     /\ pc \notin {"cancel", "stop"}
  THEN 1 ELSE 0

\* A SIGHUP costs two runtimes at most, its own and the one restored.
Budget ==
  /\ hangup => signals > 0
  /\ pc \in {"load", "loaded"} =>
       IF Taken = 0 THEN launched = 0 /\ current = 0 /\ lastGood = 0
                    ELSE launched + Owed <= 2 * Taken - 1
  /\ pc \notin {"load", "loaded"} => launched + Pending + Owed <= 2 * Taken + 1

IInv ==
  /\ TypeOK
  /\ Runtimes
  /\ Known
  /\ GoodKept
  /\ IdleTried
  /\ Budget

-----------------------------------------------------------------------------
\* What start is to launch when it is not to launch anything.
LEMMA NothingTyped == Nothing \in [config : Version \cup {0}, rollback : BOOLEAN]
  BY DEF Nothing

\* Before the first load nothing runs.
LEMMA Initially == Init => IInv
  <1> SUFFICES ASSUME Init PROVE IInv
    OBVIOUS
  <1>1. /\ hangup \in BOOLEAN /\ terminated \in BOOLEAN
        /\ serving \in BOOLEAN /\ rollback \in BOOLEAN
    BY DEF Init
  <1>2. file \in [version : Version, valid : BOOLEAN]
    BY BoundAssumption DEF Init, Version
  <1>3. next \in [config : Version \cup {0}, rollback : BOOLEAN]
    BY NothingTyped DEF Init
  <1>4. TypeOK
    BY <1>1, <1>2, <1>3, BoundAssumption DEF Init, TypeOK, Ended, Run, Version
  <1> QED
    BY <1>4, BoundAssumption
       DEF IInv, Init, Runtimes, Known, GoodKept, IdleTried, Budget, Taken, Pending, Owed,
           Alive, Run

\* Every step keeps the invariant.
LEMMA Inductive == IInv /\ [Next]_vars => IInv'
  <1> SUFFICES ASSUME IInv, [Next]_vars PROVE IInv'
    OBVIOUS
  <1> USE BoundAssumption
     DEF IInv, outside, servers, held, Alive, Run, Version, Ended, Taken, Pending, Owed
  <1>1. ASSUME NEW valid \in BOOLEAN, WriteFile(valid)
        PROVE  IInv'
    <2>1. TypeOK'
      BY <1>1 DEF WriteFile, TypeOK
    <2>2. Runtimes' /\ Known' /\ GoodKept' /\ IdleTried' /\ Budget'
      BY <1>1 DEF WriteFile, Runtimes, Known, GoodKept, IdleTried, Budget
    <2> QED BY <2>1, <2>2
  <1>2. CASE Hangup
    <2>1. TypeOK'
      BY <1>2 DEF Hangup, TypeOK
    <2>2. Budget'
      BY <1>2 DEF Hangup, TypeOK, Budget
    <2>3. Runtimes' /\ Known' /\ GoodKept' /\ IdleTried'
      BY <1>2 DEF Hangup, Runtimes, Known, GoodKept, IdleTried
    <2> QED BY <2>1, <2>2, <2>3
  <1>3. CASE Terminate
    <2>1. TypeOK'
      BY <1>3 DEF Terminate, TypeOK
    <2>2. Runtimes' /\ Known' /\ GoodKept' /\ IdleTried' /\ Budget'
      BY <1>3 DEF Terminate, Runtimes, Known, GoodKept, IdleTried, Budget
    <2> QED BY <2>1, <2>2
  <1>4. ASSUME NEW r \in Run, GetReady(r)
        PROVE  IInv'
    <2>1. TypeOK'
      BY <1>4 DEF GetReady, TypeOK
    <2>2. Runtimes'
      BY <1>4 DEF GetReady, Runtimes
    <2>3. Known'
      BY <1>4 DEF GetReady, Known
    <2>4. GoodKept' /\ IdleTried' /\ Budget'
      BY <1>4 DEF GetReady, GoodKept, IdleTried, Budget
    <2> QED BY <2>1, <2>2, <2>3, <2>4
  <1>5. ASSUME NEW r \in Run, StartupFails(r)
        PROVE  IInv'
    <2>1. TypeOK'
      BY <1>5 DEF StartupFails, TypeOK
    <2>2. Runtimes'
      BY <1>5 DEF StartupFails, Runtimes
    <2>3. Known'
      BY <1>5 DEF StartupFails, Known
    <2>4. GoodKept' /\ IdleTried' /\ Budget'
      BY <1>5 DEF StartupFails, GoodKept, IdleTried, Budget
    <2> QED BY <2>1, <2>2, <2>3, <2>4
  <1>6. ASSUME NEW r \in Run, ListenerFails(r)
        PROVE  IInv'
    <2>1. TypeOK'
      BY <1>6 DEF ListenerFails, TypeOK
    <2>2. Runtimes'
      BY <1>6 DEF ListenerFails, Runtimes
    <2>3. Known'
      BY <1>6 DEF ListenerFails, Known
    <2>4. GoodKept' /\ IdleTried' /\ Budget'
      BY <1>6 DEF ListenerFails, GoodKept, IdleTried, Budget
    <2> QED BY <2>1, <2>2, <2>3, <2>4
  <1>7. ASSUME NEW r \in Run, Return(r)
        PROVE  IInv'
    <2>1. TypeOK'
      BY <1>7 DEF Return, Interrupted, TypeOK
    <2>2. Runtimes'
      BY <1>7 DEF Return, Interrupted, Runtimes
    <2>3. Known'
      BY <1>7 DEF Return, Interrupted, Known
    <2>4. GoodKept' /\ IdleTried' /\ Budget'
      BY <1>7 DEF Return, Interrupted, GoodKept, IdleTried, Budget
    <2> QED BY <2>1, <2>2, <2>3, <2>4
  <1>8. CASE Load
    <2>1. TypeOK'
      <3>1. next' \in [config : Version \cup {0}, rollback : BOOLEAN]
        BY <1>8, NothingTyped DEF Load, TypeOK, Quit
      <3>2. candidate' \in Version \cup {0} /\ considered' \in Version \cup {0}
        BY <1>8 DEF Load, TypeOK, Quit
      <3>3. pc' \in {"loaded", "quit"} /\ UNCHANGED <<outside, held, servers, exit>>
        BY <1>8 DEF Load, Quit
      <3> QED BY <3>1, <3>2, <3>3 DEF TypeOK
    <2>2. Runtimes'
      BY <1>8 DEF Load, Quit, Runtimes
    <2>3. GoodKept'
      BY <1>8 DEF Load, Quit, GoodKept
    <2>4. IdleTried'
      BY <1>8 DEF Load, Quit, IdleTried
    <2>5. Budget'
      BY <1>8 DEF Load, Quit, TypeOK, Budget
    <2>6. Known'
      BY <1>8 DEF Load, Quit, Known
    <2> QED BY <2>1, <2>2, <2>3, <2>4, <2>5, <2>6
  <1>9. CASE Activate
    <2>1. TypeOK'
      BY <1>9 DEF Activate, Observe, Start, State, NewlyReady, TypeOK
    <2>2. Runtimes'
      BY <1>9 DEF Activate, Observe, Start, State, NewlyReady, Runtimes
    <2>3. GoodKept'
      BY <1>9 DEF Activate, Observe, Start, State, NewlyReady, Runtimes, GoodKept
    <2>4. IdleTried'
      BY <1>9 DEF Activate, Observe, Start, State, NewlyReady, IdleTried
    <2>5. Budget'
      BY <1>9 DEF Activate, Observe, Start, State, NewlyReady, TypeOK, Budget
    <2>6. Known'
      BY <1>9 DEF Activate, Observe, Start, State, NewlyReady, Known
    <2> QED BY <2>1, <2>2, <2>3, <2>4, <2>5, <2>6
  <1>10. CASE Abandon
    <2>1. TypeOK'
      BY <1>10 DEF Abandon, Start, State, NewlyReady, TypeOK
    <2>2. Runtimes'
      BY <1>10 DEF Abandon, Start, State, NewlyReady, Runtimes
    <2>3. GoodKept'
      BY <1>10 DEF Abandon, Start, State, NewlyReady, GoodKept
    <2>4. IdleTried'
      BY <1>10 DEF Abandon, Start, State, NewlyReady, IdleTried
    <2>5. Budget'
      BY <1>10 DEF Abandon, Start, State, NewlyReady, TypeOK, Budget
    <2>6. Known'
      BY <1>10 DEF Abandon, Start, State, NewlyReady, Known
    <2> QED BY <2>1, <2>2, <2>3, <2>4, <2>5, <2>6
  <1>11. CASE Keep
    <2>1. TypeOK'
      BY <1>11 DEF Keep, Observe, State, NewlyReady, TypeOK
    <2>2. Runtimes'
      BY <1>11 DEF Keep, Observe, State, NewlyReady, Runtimes
    <2>3. GoodKept'
      BY <1>11 DEF Keep, Observe, State, NewlyReady, Runtimes, GoodKept
    <2>4. IdleTried'
      BY <1>11 DEF Keep, Observe, State, NewlyReady, IdleTried
    <2>5. Budget'
      BY <1>11 DEF Keep, Observe, State, NewlyReady, TypeOK, Budget
    <2>6. Known'
      BY <1>11 DEF Keep, Observe, State, NewlyReady, Known
    <2> QED BY <2>1, <2>2, <2>3, <2>4, <2>5, <2>6
  <1>12. CASE GiveUp
    <2>1. TypeOK'
      BY <1>12 DEF GiveUp, State, TypeOK
    <2>2. Runtimes'
      BY <1>12 DEF GiveUp, State, Runtimes
    <2>3. GoodKept'
      BY <1>12 DEF GiveUp, State, GoodKept
    <2>4. IdleTried'
      BY <1>12 DEF GiveUp, State, IdleTried
    <2>5. Budget'
      BY <1>12 DEF GiveUp, State, TypeOK, Budget
    <2>6. Known'
      BY <1>12 DEF GiveUp, State, Known
    <2> QED BY <2>1, <2>2, <2>3, <2>4, <2>5, <2>6
  <1>13. CASE QuitLoaded
    <2>1. TypeOK'
      BY <1>13, NothingTyped DEF QuitLoaded, Quit, TypeOK
    <2>2. Runtimes'
      BY <1>13 DEF QuitLoaded, Quit, Runtimes
    <2>3. GoodKept'
      BY <1>13 DEF QuitLoaded, Quit, GoodKept
    <2>4. IdleTried'
      BY <1>13 DEF QuitLoaded, Quit, IdleTried
    <2>5. Budget'
      BY <1>13 DEF QuitLoaded, Quit, TypeOK, Budget
    <2>6. Known'
      BY <1>13 DEF QuitLoaded, Quit, Known
    <2> QED BY <2>1, <2>2, <2>3, <2>4, <2>5, <2>6
  <1>14. CASE Cancel
    <2>1. TypeOK'
      BY <1>14 DEF Cancel, TypeOK, Runtimes
    <2>2. Runtimes'
      BY <1>14 DEF Cancel, Runtimes
    <2>3. GoodKept'
      BY <1>14 DEF Cancel, GoodKept
    <2>4. IdleTried'
      BY <1>14 DEF Cancel, IdleTried
    <2>5. Budget'
      BY <1>14 DEF Cancel, Budget
    <2>6. Known'
      BY <1>14 DEF Cancel, Known
    <2> QED BY <2>1, <2>2, <2>3, <2>4, <2>5, <2>6
  <1>15. CASE Stop
    <2>1. TypeOK'
      <3>1. serving' \in BOOLEAN /\ rollback' \in BOOLEAN
        BY <1>15 DEF Stop
      <3> QED BY <1>15, <3>1 DEF Stop, TypeOK
    <2>2. Runtimes'
      BY <1>15 DEF Stop, Runtimes
    <2>3. Known'
      BY <1>15 DEF Stop, Known
    <2>4. GoodKept'
      BY <1>15 DEF Stop, GoodKept
    <2>5. IdleTried'
      BY <1>15 DEF Stop, IdleTried
    <2>6. Budget'
      BY <1>15 DEF Stop, Budget
    <2> QED BY <2>1, <2>2, <2>3, <2>4, <2>5, <2>6
  <1>16. CASE Launch
    <2>1. TypeOK'
      <3>1. CASE terminated
        BY <1>16, <3>1, NothingTyped DEF Launch, Quit, TypeOK
      <3>2. CASE ~terminated
        <4>1. launched + 1 \in Run
          BY <1>16, <3>2 DEF Launch, TypeOK, Budget
        <4>2. next.config \in Version \cup {0} /\ next.rollback \in BOOLEAN
          BY DEF TypeOK
        <4>3. serving' \in BOOLEAN /\ rollback' \in BOOLEAN
          BY <1>16, <3>2, <4>2 DEF Launch
        <4>4. config' \in [Run -> Version \cup {0}]
          BY <1>16, <3>2, <4>2 DEF Launch, TypeOK
        <4>5. server' \in [Run -> {"none", "starting", "ready"} \cup Ended]
          BY <1>16, <3>2 DEF Launch, TypeOK
        <4>6. launched' \in Run /\ current' \in Run
          BY <1>16, <3>2, <4>1 DEF Launch
        <4>7. next' \in [config : Version \cup {0}, rollback : BOOLEAN]
          BY <1>16, <3>2, NothingTyped DEF Launch
        <4>8. /\ pc' = "top"
              /\ UNCHANGED <<outside, candidate, lastGood, cut, wasReady, considered, exit>>
          BY <1>16, <3>2 DEF Launch
        <4> QED BY <4>3, <4>4, <4>5, <4>6, <4>7, <4>8 DEF TypeOK
      <3> QED BY <3>1, <3>2
    <2>2. Runtimes'
      BY <1>16 DEF Launch, Quit, TypeOK, Runtimes
    <2>3. Known'
      BY <1>16 DEF Launch, Quit, TypeOK, Runtimes, Known
    <2>4. GoodKept'
      BY <1>16 DEF Launch, Quit, TypeOK, GoodKept, Budget
    <2>5. IdleTried'
      BY <1>16 DEF Launch, Quit, TypeOK, IdleTried
    <2>6. Budget'
      BY <1>16 DEF Launch, Quit, TypeOK, Budget
    <2> QED BY <2>1, <2>2, <2>3, <2>4, <2>5, <2>6
  <1>17. CASE Top
    <2>1. TypeOK'
      <3>1. CASE terminated
        BY <1>17, <3>1, NothingTyped DEF Top, Quit, TypeOK
      <3>2. CASE ~terminated
        <4>1. serving' \in BOOLEAN /\ rollback' \in BOOLEAN
          BY <1>17, <3>2 DEF Top, Observe
        <4>2. lastGood' \in Version \cup {0}
          BY <1>17, <3>2 DEF Top, Observe, NewlyReady, TypeOK
        <4> QED BY <1>17, <3>2, <4>1, <4>2 DEF Top, TypeOK
      <3> QED BY <3>1, <3>2
    <2>2. Runtimes'
      BY <1>17 DEF Top, Quit, Observe, State, NewlyReady, TypeOK, Runtimes
    <2>3. GoodKept'
      BY <1>17 DEF Top, Quit, Observe, State, NewlyReady, TypeOK, Runtimes, GoodKept
    <2>4. IdleTried'
      BY <1>17 DEF Top, Quit, Observe, State, NewlyReady, IdleTried
    <2>5. Budget'
      <3>1. CASE terminated
        BY <1>17, <3>1 DEF Top, Quit, Nothing, TypeOK, Budget
      <3>2. CASE ~terminated /\ ~NewlyReady
        BY <1>17, <3>2 DEF Top, Observe, TypeOK, Budget
      <3>3. CASE ~terminated /\ NewlyReady
        <4>1. serving' /\ pc' = "select" /\ pc = "top"
          BY <1>17, <3>3 DEF Top, Observe
        <4>2. launched + Owed <= 2 * Taken + 1 /\ (hangup => signals > 0)
          BY <4>1 DEF Budget, TypeOK
        <4>3. /\ Owed' = 0 /\ Pending' = 0
              /\ Taken' = Taken /\ UNCHANGED <<hangup, signals, launched>>
          BY <1>17, <3>3, <4>1 DEF Top
        <4>4. launched <= 2 * Taken + 1
          BY <4>2 DEF TypeOK
        <4> QED BY <4>1, <4>2, <4>3, <4>4 DEF Budget, TypeOK
      <3> QED BY <3>1, <3>2, <3>3
    <2>6. Known'
      BY <1>17 DEF Top, Quit, Observe, State, NewlyReady, Known
    <2> QED BY <2>1, <2>2, <2>3, <2>4, <2>5, <2>6
  <1>18. CASE SelectShutdown
    <2>1. TypeOK'
      BY <1>18, NothingTyped DEF SelectShutdown, Quit, TypeOK
    <2>2. Runtimes'
      BY <1>18 DEF SelectShutdown, Quit, Runtimes
    <2>3. GoodKept'
      BY <1>18 DEF SelectShutdown, Quit, GoodKept
    <2>4. IdleTried'
      BY <1>18 DEF SelectShutdown, Quit, IdleTried
    <2>5. Budget'
      BY <1>18 DEF SelectShutdown, Quit, Budget
    <2>6. Known'
      BY <1>18 DEF SelectShutdown, Quit, Known
    <2> QED BY <2>1, <2>2, <2>3, <2>4, <2>5, <2>6
  <1>19. CASE SelectReload
    <2>1. TypeOK'
      <3>1. hangup' \in BOOLEAN
        BY <1>19 DEF SelectReload
      <3> QED BY <1>19, <3>1 DEF SelectReload, TypeOK
    <2>2. Runtimes'
      BY <1>19 DEF SelectReload, Runtimes
    <2>3. GoodKept'
      BY <1>19 DEF SelectReload, GoodKept
    <2>4. IdleTried'
      BY <1>19 DEF SelectReload, IdleTried
    <2>5. Budget'
      BY <1>19 DEF SelectReload, TypeOK, Budget
    <2>6. Known'
      BY <1>19 DEF SelectReload, Known
    <2> QED BY <2>1, <2>2, <2>3, <2>4, <2>5, <2>6
  <1>20. CASE SelectReady
    <2>1. TypeOK'
      BY <1>20 DEF SelectReady, TypeOK
    <2>2. Runtimes'
      BY <1>20 DEF SelectReady, Runtimes
    <2>3. GoodKept'
      BY <1>20 DEF SelectReady, GoodKept
    <2>4. IdleTried'
      BY <1>20 DEF SelectReady, IdleTried
    <2>5. Budget'
      BY <1>20 DEF SelectReady, Budget
    <2>6. Known'
      BY <1>20 DEF SelectReady, Known
    <2> QED BY <2>1, <2>2, <2>3, <2>4, <2>5, <2>6
  <1>21. CASE DoneShutdown
    <2>1. TypeOK'
      BY <1>21, NothingTyped DEF DoneShutdown, Quit, Gone, TypeOK
    <2>2. Runtimes'
      BY <1>21 DEF DoneShutdown, Quit, Gone, Runtimes
    <2>3. GoodKept'
      BY <1>21 DEF DoneShutdown, Quit, Gone, GoodKept
    <2>4. IdleTried'
      BY <1>21 DEF DoneShutdown, Quit, Gone, IdleTried
    <2>5. Budget'
      BY <1>21 DEF DoneShutdown, Quit, Gone, Budget
    <2>6. Known'
      BY <1>21 DEF DoneShutdown, Quit, Gone, Known
    <2> QED BY <2>1, <2>2, <2>3, <2>4, <2>5, <2>6
  <1>22. CASE DoneRollBack
    <2>1. TypeOK'
      BY <1>22 DEF DoneRollBack, Gone, RollsBack, Forget, State, NewlyReady, TypeOK
    <2>2. Runtimes'
      BY <1>22 DEF DoneRollBack, Gone, RollsBack, Forget, State, NewlyReady, Runtimes
    <2>3. Known'
      BY <1>22 DEF DoneRollBack, Gone, RollsBack, Forget, State, NewlyReady, Known
    <2>4. GoodKept'
      BY <1>22 DEF DoneRollBack, Gone, RollsBack, Forget, State, NewlyReady, GoodKept
    <2>5. IdleTried'
      BY <1>22 DEF DoneRollBack, Gone, RollsBack, Forget, State, NewlyReady, IdleTried
    <2>6. Budget'
      BY <1>22 DEF DoneRollBack, Gone, RollsBack, Forget, State, NewlyReady, TypeOK, Budget
    <2> QED BY <2>1, <2>2, <2>3, <2>4, <2>5, <2>6
  <1>23. CASE DoneExit
    <2>1. TypeOK'
      <3>1. current \in Run
        BY <1>23 DEF DoneExit, Gone, TypeOK
      <3>2. lastGood' \in Version \cup {0}
        BY <1>23, <3>1 DEF DoneExit, TypeOK
      <3>3. /\ foreground' \in BOOLEAN /\ hangup' \in BOOLEAN /\ terminated' \in BOOLEAN
            /\ file' \in [version : Version, valid : BOOLEAN] /\ signals' \in 0 .. MaxSignals
            /\ asked' \in Version \cup {0} /\ considered' \in Version \cup {0}
            /\ candidate' \in Version \cup {0}
            /\ next' \in [config : Version \cup {0}, rollback : BOOLEAN]
        BY <1>23 DEF DoneExit, TypeOK
      <3>4. /\ launched' \in Run \cup {0} /\ config' \in [Run -> Version \cup {0}]
            /\ server' \in [Run -> {"none", "starting", "ready"} \cup Ended]
            /\ cut' \in SUBSET Run /\ wasReady' \in SUBSET Run
        BY <1>23 DEF DoneExit, TypeOK
      <3>5. /\ current' = 0 /\ serving' = FALSE /\ rollback' = FALSE /\ pc' = "exited"
            /\ exit' \in {"no", "terminated", "config", "listener", "startup"}
        BY <1>23 DEF DoneExit, Forget, TypeOK
      <3> QED BY <3>2, <3>3, <3>4, <3>5 DEF TypeOK
    <2>2. Runtimes'
      BY <1>23
         DEF DoneExit, Gone, RollsBack, ReturnsError, Forget, State, NewlyReady, Runtimes
    <2>3. Known'
      BY <1>23 DEF DoneExit, Gone, RollsBack, ReturnsError, Forget, State, NewlyReady, Known
    <2>4. GoodKept'
      BY <1>23
         DEF DoneExit, Gone, RollsBack, ReturnsError, Forget, State, NewlyReady,
             Runtimes, GoodKept
    <2>5. IdleTried'
      BY <1>23
         DEF DoneExit, Gone, RollsBack, ReturnsError, Forget, State, NewlyReady, IdleTried
    <2>6. Budget'
      BY <1>23
         DEF DoneExit, Gone, RollsBack, ReturnsError, Forget, State, NewlyReady, TypeOK,
             Budget
    <2> QED BY <2>1, <2>2, <2>3, <2>4, <2>5, <2>6
  <1>24. CASE DoneIdle
    <2>1. TypeOK'
      <3>1. current \in Run
        BY <1>24 DEF DoneIdle, Gone, TypeOK
      <3>2. lastGood' \in Version \cup {0}
        BY <1>24, <3>1 DEF DoneIdle, TypeOK
      <3>3. /\ foreground' \in BOOLEAN /\ hangup' \in BOOLEAN /\ terminated' \in BOOLEAN
            /\ file' \in [version : Version, valid : BOOLEAN] /\ signals' \in 0 .. MaxSignals
            /\ asked' \in Version \cup {0} /\ considered' \in Version \cup {0}
            /\ candidate' \in Version \cup {0}
            /\ next' \in [config : Version \cup {0}, rollback : BOOLEAN]
        BY <1>24 DEF DoneIdle, TypeOK
      <3>4. /\ launched' \in Run \cup {0} /\ config' \in [Run -> Version \cup {0}]
            /\ server' \in [Run -> {"none", "starting", "ready"} \cup Ended]
            /\ cut' \in SUBSET Run /\ wasReady' \in SUBSET Run
        BY <1>24 DEF DoneIdle, TypeOK
      <3>5. /\ current' = 0 /\ serving' = FALSE /\ rollback' = FALSE /\ pc' = "top"
            /\ exit' \in {"no", "terminated", "config", "listener", "startup"}
        BY <1>24 DEF DoneIdle, Forget, TypeOK
      <3> QED BY <3>2, <3>3, <3>4, <3>5 DEF TypeOK
    <2>2. Runtimes'
      BY <1>24
         DEF DoneIdle, Gone, RollsBack, ReturnsError, Forget, State, NewlyReady, Runtimes
    <2>3. Known'
      BY <1>24 DEF DoneIdle, Gone, RollsBack, ReturnsError, Forget, State, NewlyReady, Known
    <2>4. GoodKept'
      BY <1>24
         DEF DoneIdle, Gone, RollsBack, ReturnsError, Forget, State, NewlyReady,
             Runtimes, GoodKept
    <2>5. IdleTried'
      BY <1>24
         DEF DoneIdle, Gone, RollsBack, ReturnsError, Forget, State, NewlyReady,
             Runtimes, GoodKept, IdleTried
    <2>6. Budget'
      BY <1>24
         DEF DoneIdle, Gone, RollsBack, ReturnsError, Forget, State, NewlyReady, TypeOK,
             Budget
    <2> QED BY <2>1, <2>2, <2>3, <2>4, <2>5, <2>6
  <1>25. CASE Leave
    <2>1. TypeOK'
      <3>1. serving' \in BOOLEAN /\ rollback' \in BOOLEAN
        BY <1>25 DEF Leave, Forget
      <3>2. cut' \in SUBSET Run
        BY <1>25 DEF Leave, TypeOK
      <3> QED BY <1>25, <3>1, <3>2 DEF Leave, Forget, TypeOK
    <2>2. Runtimes'
      BY <1>25 DEF Leave, Forget, Runtimes
    <2>3. Known'
      BY <1>25 DEF Leave, Forget, Known
    <2>4. GoodKept'
      BY <1>25 DEF Leave, Forget, GoodKept
    <2>5. IdleTried'
      BY <1>25 DEF Leave, Forget, IdleTried
    <2>6. Budget'
      BY <1>25 DEF Leave, Forget, TypeOK, Budget
    <2> QED BY <2>1, <2>2, <2>3, <2>4, <2>5, <2>6
  <1>26. CASE UNCHANGED vars
    BY <1>26 DEF vars, TypeOK, Runtimes, Known, GoodKept, IdleTried, Budget
  <1> QED
    BY <1>1, <1>2, <1>3, <1>4, <1>5, <1>6, <1>7, <1>8, <1>9, <1>10, <1>11, <1>12,
       <1>13, <1>14, <1>15, <1>16, <1>17, <1>18, <1>19, <1>20, <1>21, <1>22, <1>23, <1>24,
       <1>25, <1>26
    DEF Next, Loop, Server, Environment

\* The invariant holds throughout.
LEMMA Invariance == Spec => []IInv
  BY Initially, Inductive, PTL DEF Spec

-----------------------------------------------------------------------------
\* The variables keep their types; in particular Run names enough runtimes.
THEOREM TypeCorrect == Spec => []TypeOK
  <1>1. IInv => TypeOK
    BY DEF IInv
  <1> QED BY <1>1, Invariance, PTL

\* Two runtimes are never alive at once, however reloads, failures and shutdown fall.
THEOREM RunsOne == Spec => []OneRuntime
  <1>1. IInv => OneRuntime
    BY DEF IInv, Known, OneRuntime
  <1> QED BY <1>1, Invariance, PTL

\* The loop idles only after the last good configuration itself has failed.
THEOREM TriesGoodFirst == Spec => []IdleOnlyAfterGoodFailed
  <1>1. IInv => IdleOnlyAfterGoodFailed
    BY DEF IInv, IdleTried, IdleOnlyAfterGoodFailed
  <1> QED BY <1>1, Invariance, PTL

\* A file that does not load never costs a runtime that is ready.
THEOREM RefusedReloadIsHarmless == Spec => InvalidReloadKeepsReady
  <1>1. IInv /\ [Next]_vars
          => [pc = "loaded" /\ candidate = 0 /\ current \in wasReady /\ ~terminated
                => pc' \notin {"cancel", "launch"}]_vars
    <2> SUFFICES ASSUME IInv, Next, pc = "loaded", candidate = 0, current \in wasReady,
                        ~terminated
                 PROVE  pc' \notin {"cancel", "launch"}
      OBVIOUS
    <2>1. State = "starting" => NewlyReady
      BY DEF NewlyReady
    <2>2. ~Abandon /\ ~Activate
      BY <2>1 DEF Abandon, Activate
    <2>3. CASE Environment
      BY <2>3 DEF Environment, WriteFile, Hangup, Terminate
    <2>4. CASE \E r \in Run : Server(r)
      BY <2>4 DEF Server, GetReady, StartupFails, ListenerFails, Return
    <2>5. CASE Loop
      BY <2>2, <2>5
         DEF Loop, Load, Keep, GiveUp, QuitLoaded, Quit, Cancel, Stop, Launch, Top,
             SelectShutdown, SelectReload, SelectReady, Gone, DoneShutdown, DoneRollBack,
             DoneExit, DoneIdle, Leave
    <2> QED BY <2>3, <2>4, <2>5 DEF Next
  <1> QED BY <1>1, Invariance, PTL DEF Spec, InvalidReloadKeepsReady

=============================================================================
