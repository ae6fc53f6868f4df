----------------------------- MODULE Telemetry -----------------------------
(***************************************************************************)
(* Activity counters and periodic reports in debug mode (proxy/            *)
(* telemetry.go, app/telemetry.go).                                        *)
(*                                                                         *)
(* Clients and upstream calls count what they do while two goroutines may  *)
(* report: Run's, once, when it is ready, and that of the tickers.  Each   *)
(* report samples the Go runtime, takes what has happened since the last   *)
(* report and resets it.  Counters are atomics; the client gauge and the   *)
(* runtime values have a mutex each; the runtime is read outside of it.    *)
(*                                                                         *)
(* Connections, calls and errors stand for all the counters of             *)
(* proxyTelemetry, and one gauge and one counter for those of the runtime. *)
(***************************************************************************)
EXTENDS Integers, FiniteSets, FiniteSetsExt

CONSTANTS
  Client,       \* client connections, one at a time each
  MaxCount,     \* bound: events between two reports
  MaxActivity,  \* bound: the runtime's counter
  MaxLevel      \* bound: the runtime's gauge

Reporter == {"ready", "ticker"}
Counter  == {"connections", "calls", "errors"}

ASSUME ClientAssumption == IsFiniteSet(Client)
ASSUME BoundAssumption == MaxCount \in Nat /\ MaxActivity \in Nat /\ MaxLevel \in Nat

VARIABLES
  pc,               \* where each client connection is
  activeClients, maxActiveClients,
  together,         \* most clients at once since the last snapshot (history)
  call,             \* where an upstream call is in upstreamCall
  counter,          \* the atomic counters
  unreported,       \* events no report has shown, less those shown twice (history)
  level, activity,  \* what the Go runtime would report now
  got,              \* what each reporter has read of the runtime
  current, maximum, counters, intervalAt,
  shown,            \* sum of the intervals reported (history)
  begun,            \* activity when the report under way began (history)
  at                \* where each reporter is

clients == <<pc, activeClients, maxActiveClients, together>>
events  == <<call, counter, unreported>>
process == <<level, activity>>
samples == <<got, current, maximum, counters, intervalAt, shown, begun>>
vars    == <<clients, events, process, samples, at>>

TypeOK ==
  /\ pc \in [Client -> {"out", "counted", "in"}]
  /\ activeClients \in Nat /\ maxActiveClients \in Nat /\ together \in Nat
  /\ call \in {"none", "counted"}
  /\ counter \in [Counter -> Nat]
  /\ unreported \in [Counter -> Int]
  /\ level \in Nat /\ activity \in Nat
  /\ got \in [Reporter -> [level : Nat, activity : Nat]]
  /\ current \in Nat /\ maximum \in Nat /\ counters \in Nat /\ intervalAt \in Nat
  /\ shown \in Nat /\ begun \in Nat
  /\ at \in [Reporter -> {"idle", "sample", "read", "take", "snapshot", "connections",
                          "calls", "errors", "over"}]

Reading == [level |-> level, activity |-> activity]

\* newRuntimeTelemetry takes the first sample, which is all the maximum and the
\* baseline start from.
Init ==
  /\ pc = [c \in Client |-> "out"]
  /\ activeClients = 0 /\ maxActiveClients = 0 /\ together = 0
  /\ call = "none"
  /\ counter = [k \in Counter |-> 0]
  /\ unreported = [k \in Counter |-> 0]
  /\ level = 0 /\ activity = 0
  /\ got = [r \in Reporter |-> Reading]
  /\ current = 0 /\ maximum = 0 /\ counters = 0 /\ intervalAt = 0
  /\ shown = 0 /\ begun = 0
  /\ at = [r \in Reporter |-> "idle"]

-----------------------------------------------------------------------------
\* One more event; an atomic addition.
Count(k) ==
  /\ counter[k] < MaxCount
  /\ counter' = [counter EXCEPT ![k] = @ + 1]
  /\ unreported' = [unreported EXCEPT ![k] = @ + 1]

\* clientConnected: the counter first, then the gauge under its mutex.
Connect(c) ==
  /\ pc[c] = "out"
  /\ Count("connections")
  /\ pc' = [pc EXCEPT ![c] = "counted"]
  /\ UNCHANGED <<activeClients, maxActiveClients, together, call, process, samples, at>>

\* How many clients there will be when this step is done.
Present == Cardinality({c \in Client : pc'[c] = "in"})

Connected(c) ==
  /\ pc[c] = "counted"
  /\ pc' = [pc EXCEPT ![c] = "in"]
  /\ activeClients' = activeClients + 1
  /\ maxActiveClients' = Max({maxActiveClients, activeClients'})
  /\ together' = Max({together, Present})
  /\ UNCHANGED <<events, process, samples, at>>

Disconnected(c) ==
  /\ pc[c] = "in"
  /\ pc' = [pc EXCEPT ![c] = "out"]
  /\ activeClients' = IF activeClients > 0 THEN activeClients - 1 ELSE 0
  /\ UNCHANGED <<maxActiveClients, together, events, process, samples, at>>

\* upstreamCall: a call is counted, then its failure if it is one.
CallEnds ==
  /\ call = "none"
  /\ Count("calls")
  /\ call' \in {"none", "counted"}
  /\ UNCHANGED <<clients, process, samples, at>>

CallFailed ==
  /\ call = "counted"
  /\ Count("errors")
  /\ call' = "none"
  /\ UNCHANGED <<clients, process, samples, at>>

\* The Go runtime goes on.
RuntimeRuns ==
  /\ \/ activity < MaxActivity /\ activity' = activity + 1
     \/ UNCHANGED activity
  /\ level' \in 0 .. MaxLevel
  /\ UNCHANGED <<clients, events, samples, at>>

-----------------------------------------------------------------------------
\* A report begins: when Run is ready, and then every telemetryReportInterval.  The
\* ticker's first comes ten minutes after the start; readiness waits for nothing but
\* the binding of sockets and is long past.
Begin(r) ==
  /\ at[r] = "idle"
  /\ r = "ticker" => at["ready"] = "over"
  /\ at' = [at EXCEPT ![r] = "read"]
  /\ got' = [got EXCEPT ![r] = Reading]
  /\ begun' = activity
  /\ UNCHANGED <<clients, events, process, current, maximum, counters, intervalAt, shown>>

\* The ticker's goroutine also samples every telemetrySampleInterval.
Sample ==
  /\ at["ticker"] = "idle"
  /\ at' = [at EXCEPT !["ticker"] = "sample"]
  /\ got' = [got EXCEPT !["ticker"] = Reading]
  /\ UNCHANGED <<clients, events, process, current, maximum, counters, intervalAt, shown,
                 begun>>

\* Mutant: the report shows what the last tick has sampled.
StoreOnTicks(r) ==
  /\ at[r] \in {"sample", "read"}
  /\ \/ /\ at[r] = "sample"
        /\ current' = got[r].level
        /\ counters' = got[r].activity
        /\ maximum' = Max({maximum, got[r].level})
     \/ at[r] = "read" /\ UNCHANGED <<current, counters, maximum>>
  /\ at' = [at EXCEPT ![r] = IF at[r] = "read" THEN "take" ELSE "idle"]
  /\ UNCHANGED <<clients, events, process, got, intervalAt, shown, begun>>

\* sample, under the mutex.
Store(r) ==
  /\ at[r] \in {"sample", "read"}
  /\ current' = got[r].level
  /\ counters' = got[r].activity
  /\ maximum' = Max({maximum, got[r].level})
  /\ at' = [at EXCEPT ![r] = IF at[r] = "read" THEN "take" ELSE "idle"]
  /\ UNCHANGED <<clients, events, process, got, intervalAt, shown, begun>>

\* counterDelta.
Delta(now, before) == IF now < before THEN 0 ELSE now - before

\* takeReport: the interval since the last report, which starts the next one.
Take(r) ==
  /\ at[r] = "take"
  /\ shown' = shown + Delta(counters, intervalAt)
  /\ maximum' = current
  /\ intervalAt' = counters
  /\ at' = [at EXCEPT ![r] = "snapshot"]
  /\ UNCHANGED <<clients, events, process, got, current, counters, begun>>

\* Mutant: the interval's peak starts from nothing.
SnapshotToZero(r) ==
  /\ at[r] = "snapshot"
  /\ maxActiveClients' = 0
  /\ together' = Cardinality({c \in Client : pc[c] = "in"})
  /\ at' = [at EXCEPT ![r] = "connections"]
  /\ UNCHANGED <<pc, activeClients, events, process, samples>>

\* clientSnapshot.
Snapshot(r) ==
  /\ at[r] = "snapshot"
  /\ maxActiveClients' = activeClients
  /\ together' = Cardinality({c \in Client : pc[c] = "in"})
  /\ at' = [at EXCEPT ![r] = "connections"]
  /\ UNCHANGED <<pc, activeClients, events, process, samples>>

\* The counters, in the order of logReport; the ready report is the only one of Run.
After(r, k) ==
  CASE k = "connections" -> "calls"
    [] k = "calls"       -> "errors"
    [] k = "errors"      -> IF r = "ready" THEN "over" ELSE "idle"

\* Mutant: the errors are reset with the calls they belong to.
SwapTogether(r) ==
  /\ at[r] \in Counter
  /\ counter' = [k \in Counter |->
                   IF k = at[r] \/ (at[r] = "calls" /\ k = "errors") THEN 0 ELSE counter[k]]
  /\ unreported' = [unreported EXCEPT ![at[r]] = @ - counter[at[r]]]
  /\ at' = [at EXCEPT ![r] = After(r, at[r])]
  /\ UNCHANGED <<clients, call, process, samples>>

\* Swap(0): the counter is read and reset at once.
Swap(r) ==
  /\ at[r] \in Counter
  /\ counter' = [counter EXCEPT ![at[r]] = 0]
  /\ unreported' = [unreported EXCEPT ![at[r]] = @ - counter[at[r]]]
  /\ at' = [at EXCEPT ![r] = After(r, at[r])]
  /\ UNCHANGED <<clients, call, process, samples>>

\* The server's Run has returned: the tickers stop.
Stop ==
  /\ at["ticker"] = "idle"
  /\ at' = [at EXCEPT !["ticker"] = "over"]
  /\ UNCHANGED <<clients, events, process, samples>>

-----------------------------------------------------------------------------
Report(r) == Begin(r) \/ Store(r) \/ Take(r) \/ Snapshot(r) \/ Swap(r)

Next ==
  \/ \E c \in Client : Connect(c) \/ Connected(c) \/ Disconnected(c)
  \/ CallEnds \/ CallFailed \/ RuntimeRuns
  \/ \E r \in Reporter : Report(r)
  \/ Sample \/ Stop

Spec == Init /\ [][Next]_vars

-----------------------------------------------------------------------------
\* Every event is shown by one report or still counted for the next, whatever it
\* races with.
EventsReportedOnce == unreported = counter

\* The peak a report will show is that of the clients that were connected at once
\* since the last one, those included that stay connected across it.
PeakCovers == maxActiveClients = together /\ maximum >= current

\* A periodic report leaves nothing out that happened before it began, and no
\* interval overlaps another, although the ready report races a tick.
IntervalsAddUp ==
  [][\A r \in Reporter :
       at[r] = "take" /\ at'[r] # "take"
         => /\ shown' = intervalAt'
            /\ r = "ticker" => shown' \in begun .. activity]_vars
=============================================================================
