-------------------------- MODULE Telemetry_proofs --------------------------
(***************************************************************************)
(* Proofs about Telemetry, for any finite set of clients and any bounds.   *)
(***************************************************************************)
EXTENDS Telemetry, FiniteSetTheorems, TLAPS

In == {c \in Client : pc[c] = "in"}

\* The gauge is the number of clients; nothing is sampled that has not happened.
Gauges ==
  /\ activeClients = Cardinality(In)
  /\ \A r \in Reporter : got[r].activity <= activity
  /\ counters <= activity /\ intervalAt <= activity

\* The ticker reports when the ready report is over; until that one has taken the first
\* interval, none has been.
Turns ==
  /\ at["ready"] \in {"idle", "read", "take"} => intervalAt = 0
  /\ at["ready"] # "sample"
  /\ at["ticker"] \in {"read", "take", "snapshot"} \cup Counter => at["ready"] = "over"

\* The ticker's reading, and then what it has stored, is no older than the report and
\* the interval before.
Readings ==
  /\ shown = intervalAt
  /\ at["ticker"] = "read" =>
       got["ticker"].activity >= intervalAt /\ got["ticker"].activity = begun
  /\ at["ticker"] = "take" => counters >= intervalAt /\ counters = begun

IInv ==
  /\ TypeOK
  /\ Gauges
  /\ Turns
  /\ Readings
  /\ EventsReportedOnce
  /\ PeakCovers

-----------------------------------------------------------------------------
\* The larger of two numbers.
LEMMA MaxOfTwo ==
  ASSUME NEW m \in Nat, NEW n \in Nat
  PROVE  /\ Max({m, n}) \in Nat
         /\ Max({m, n}) >= m /\ Max({m, n}) >= n
         /\ Max({m, n}) \in {m, n}
  BY DEF Max

\* Before anybody connects.
LEMMA Initially == Init => IInv
  <1> SUFFICES ASSUME Init PROVE IInv
    OBVIOUS
  <1>1. In = {}
    BY DEF Init, In
  <1>2. TypeOK
    BY DEF Init, TypeOK, Reading
  <1> QED
    BY <1>1, <1>2, FS_EmptySet
       DEF Init, IInv, Gauges, Turns, Readings, EventsReportedOnce, PeakCovers, Counter,
           Reporter, Reading

\* A client more, or less.
LEMMA Counted ==
  ASSUME IInv, NEW c \in Client
  PROVE  /\ Connected(c) => Cardinality(In') = Cardinality(In) + 1
         /\ Disconnected(c) => Cardinality(In) > 0 /\ Cardinality(In') = Cardinality(In) - 1
         /\ Cardinality(In) \in Nat
  <1>1. IsFiniteSet(In)
    BY FS_Subset, ClientAssumption DEF In
  <1>2. Connected(c) => c \notin In /\ In' = In \cup {c}
    BY DEF Connected, In, IInv, TypeOK
  <1>3. Disconnected(c) => c \in In /\ In' = In \ {c}
    BY DEF Disconnected, In, IInv, TypeOK
  <1>4. Cardinality(In) \in Nat
    BY <1>1, FS_CardinalityType
  <1>5. c \in In => Cardinality(In) > 0
    BY <1>1, <1>4, FS_EmptySet
  <1> QED BY <1>1, <1>2, <1>3, <1>4, <1>5, FS_AddElement, FS_RemoveElement


\* Every step keeps the invariant.
LEMMA Inductive == IInv /\ [Next]_vars => IInv'
  <1> SUFFICES ASSUME IInv, [Next]_vars PROVE IInv'
    OBVIOUS
  <1> USE ClientAssumption
     DEF IInv, clients, events, process, samples, Counter, Reporter, In
  <1>1. ASSUME NEW c \in Client, Connect(c)
        PROVE  IInv'
    <2>1. TypeOK'
      BY <1>1 DEF Connect, Count, TypeOK
    <2>2. Gauges'
      BY <1>1 DEF Connect, Count, Gauges
    <2>3. EventsReportedOnce'
      BY <1>1 DEF Connect, Count, EventsReportedOnce
    <2>4. Turns' /\ Readings' /\ PeakCovers'
      BY <1>1 DEF Connect, Count, Turns, Readings, PeakCovers
    <2> QED BY <2>1, <2>2, <2>3, <2>4
  <1>2. ASSUME NEW c \in Client, Connected(c)
        PROVE  IInv'
    <2>1. TypeOK'
      <3>1. Present = activeClients + 1 /\ activeClients \in Nat
        BY <1>2, Counted DEF Connected, Present, In, Gauges
      <3>2. together' \in Nat /\ maxActiveClients' \in Nat
        BY <1>2, <3>1, MaxOfTwo DEF Connected, TypeOK
      <3> QED BY <1>2, <3>1, <3>2 DEF Connected, TypeOK
    <2>2. Gauges'
      <3>1. activeClients' = Cardinality(In')
        BY <1>2, Counted DEF Connected, Gauges
      <3> QED BY <1>2, <3>1 DEF Connected, Gauges
    <2>3. PeakCovers'
      <3>1. Present = activeClients'
        BY <1>2, Counted DEF Connected, Present, In, Gauges
      <3> QED BY <1>2, <3>1 DEF Connected, PeakCovers
    <2>4. Turns' /\ Readings' /\ EventsReportedOnce'
      BY <1>2 DEF Connected, Present, Turns, Readings, EventsReportedOnce
    <2> QED BY <2>1, <2>2, <2>3, <2>4
  <1>3. ASSUME NEW c \in Client, Disconnected(c)
        PROVE  IInv'
    <2>1. TypeOK'
      BY <1>3 DEF Disconnected, TypeOK
    <2>2. Gauges'
      <3>1. activeClients' = Cardinality(In')
        BY <1>3, Counted DEF Disconnected, Gauges
      <3> QED BY <1>3, <3>1 DEF Disconnected, Gauges
    <2>3. Turns' /\ Readings' /\ EventsReportedOnce' /\ PeakCovers'
      BY <1>3 DEF Disconnected, Turns, Readings, EventsReportedOnce, PeakCovers
    <2> QED BY <2>1, <2>2, <2>3
  <1>4. CASE CallEnds
    <2>1. TypeOK'
      BY <1>4 DEF CallEnds, Count, TypeOK
    <2>2. EventsReportedOnce'
      BY <1>4 DEF CallEnds, Count, EventsReportedOnce
    <2>3. Gauges' /\ Turns' /\ Readings' /\ PeakCovers'
      BY <1>4 DEF CallEnds, Count, Gauges, Turns, Readings, PeakCovers
    <2> QED BY <2>1, <2>2, <2>3
  <1>5. CASE CallFailed
    <2>1. TypeOK'
      BY <1>5 DEF CallFailed, Count, TypeOK
    <2>2. EventsReportedOnce'
      BY <1>5 DEF CallFailed, Count, EventsReportedOnce
    <2>3. Gauges' /\ Turns' /\ Readings' /\ PeakCovers'
      BY <1>5 DEF CallFailed, Count, Gauges, Turns, Readings, PeakCovers
    <2> QED BY <2>1, <2>2, <2>3
  <1>6. CASE RuntimeRuns
    <2>1. TypeOK'
      BY <1>6 DEF RuntimeRuns, TypeOK
    <2>2. Gauges'
      BY <1>6 DEF RuntimeRuns, TypeOK, Gauges
    <2>3. Turns' /\ Readings' /\ EventsReportedOnce' /\ PeakCovers'
      BY <1>6 DEF RuntimeRuns, Turns, Readings, EventsReportedOnce, PeakCovers
    <2> QED BY <2>1, <2>2, <2>3
  <1>7. ASSUME NEW r \in Reporter, Begin(r)
        PROVE  IInv'
    <2>1. TypeOK'
      BY <1>7 DEF Begin, Reading, TypeOK
    <2>2. Gauges'
      BY <1>7 DEF Begin, Reading, TypeOK, Gauges
    <2>3. Turns'
      BY <1>7 DEF Begin, Reading, Turns
    <2>4. Readings'
      BY <1>7 DEF Begin, Reading, TypeOK, Gauges, Turns, Readings
    <2>5. EventsReportedOnce' /\ PeakCovers'
      BY <1>7 DEF Begin, Reading, EventsReportedOnce, PeakCovers
    <2> QED BY <2>1, <2>2, <2>3, <2>4, <2>5
  <1>8. CASE Sample
    <2>1. TypeOK'
      BY <1>8 DEF Sample, Reading, TypeOK
    <2>2. Gauges'
      BY <1>8 DEF Sample, Reading, TypeOK, Gauges
    <2>3. Turns'
      BY <1>8 DEF Sample, Reading, Turns
    <2>4. Readings'
      BY <1>8 DEF Sample, Reading, Readings
    <2>5. EventsReportedOnce' /\ PeakCovers'
      BY <1>8 DEF Sample, Reading, EventsReportedOnce, PeakCovers
    <2> QED BY <2>1, <2>2, <2>3, <2>4, <2>5
  <1>9. ASSUME NEW r \in Reporter, Store(r)
        PROVE  IInv'
    <2>1. TypeOK'
      <3>1. got[r].level \in Nat /\ got[r].activity \in Nat
        BY DEF TypeOK
      <3>2. maximum' \in Nat
        BY <1>9, <3>1, MaxOfTwo DEF Store, TypeOK
      <3> QED BY <1>9, <3>1, <3>2 DEF Store, TypeOK
    <2>2. Gauges'
      BY <1>9 DEF Store, Gauges
    <2>3. Turns'
      BY <1>9 DEF Store, Turns
    <2>4. Readings'
      BY <1>9 DEF Store, Turns, Readings
    <2>5. PeakCovers'
      <3>1. got[r].level \in Nat
        BY DEF TypeOK
      <3> QED BY <1>9, <3>1, MaxOfTwo DEF Store, PeakCovers, TypeOK
    <2>6. EventsReportedOnce'
      BY <1>9 DEF Store, EventsReportedOnce
    <2> QED BY <2>1, <2>2, <2>3, <2>4, <2>5, <2>6
  <1>10. ASSUME NEW r \in Reporter, Take(r)
        PROVE  IInv'
    <2>1. TypeOK'
      BY <1>10 DEF Take, Delta, TypeOK
    <2>2. Gauges'
      BY <1>10 DEF Take, Delta, Gauges
    <2>3. Turns'
      BY <1>10 DEF Take, Delta, TypeOK, Turns
    <2>4. Readings'
      BY <1>10 DEF Take, Delta, TypeOK, Turns, Readings
    <2>5. PeakCovers'
      BY <1>10 DEF Take, Delta, TypeOK, PeakCovers
    <2>6. EventsReportedOnce'
      BY <1>10 DEF Take, Delta, EventsReportedOnce
    <2> QED BY <2>1, <2>2, <2>3, <2>4, <2>5, <2>6
  <1>11. ASSUME NEW r \in Reporter, Snapshot(r)
        PROVE  IInv'
    <2>1. TypeOK'
      BY <1>11 DEF Snapshot, TypeOK, Gauges
    <2>2. Turns'
      BY <1>11 DEF Snapshot, Turns
    <2>3. Readings'
      BY <1>11 DEF Snapshot, Readings
    <2>4. PeakCovers'
      BY <1>11 DEF Snapshot, Gauges, PeakCovers
    <2>5. Gauges' /\ EventsReportedOnce'
      BY <1>11 DEF Snapshot, Gauges, EventsReportedOnce
    <2> QED BY <2>1, <2>2, <2>3, <2>4, <2>5
  <1>12. ASSUME NEW r \in Reporter, Swap(r)
        PROVE  IInv'
    <2>1. TypeOK'
      BY <1>12 DEF Swap, After, TypeOK
    <2>2. Turns'
      BY <1>12 DEF Swap, After, Turns
    <2>3. Readings'
      BY <1>12 DEF Swap, After, Readings
    <2>4. EventsReportedOnce'
      <3>1. counter[at[r]] - counter[at[r]] = 0
        BY <1>12 DEF Swap, TypeOK
      <3> QED BY <1>12, <3>1 DEF Swap, EventsReportedOnce
    <2>5. Gauges' /\ PeakCovers'
      BY <1>12 DEF Swap, After, Gauges, PeakCovers
    <2> QED BY <2>1, <2>2, <2>3, <2>4, <2>5
  <1>13. CASE Stop
    <2>1. TypeOK'
      BY <1>13 DEF Stop, TypeOK
    <2>2. Turns'
      BY <1>13 DEF Stop, Turns
    <2>3. Readings'
      BY <1>13 DEF Stop, Readings
    <2>4. Gauges' /\ EventsReportedOnce' /\ PeakCovers'
      BY <1>13 DEF Stop, Gauges, EventsReportedOnce, PeakCovers
    <2> QED BY <2>1, <2>2, <2>3, <2>4
  <1>14. CASE UNCHANGED vars
    BY <1>14 DEF vars, TypeOK, Gauges, Turns, Readings, EventsReportedOnce, PeakCovers
  <1> QED
    BY <1>1, <1>2, <1>3, <1>4, <1>5, <1>6, <1>7, <1>8, <1>9, <1>10, <1>11, <1>12,
       <1>13, <1>14
    DEF Next, Report

\* The invariant holds throughout.
LEMMA Invariance == Spec => []IInv
  BY Initially, Inductive, PTL DEF Spec

-----------------------------------------------------------------------------
\* The variables keep their types.
THEOREM TypeCorrect == Spec => []TypeOK
  <1>1. IInv => TypeOK
    BY DEF IInv
  <1> QED BY <1>1, Invariance, PTL

\* Every event is in one report or is counted for the next.
THEOREM NothingLost == Spec => []EventsReportedOnce
  <1>1. IInv => EventsReportedOnce
    BY DEF IInv
  <1> QED BY <1>1, Invariance, PTL

\* The peak to be reported is the largest number of clients at once since the last.
THEOREM PeaksSeen == Spec => []PeakCovers
  <1>1. IInv => PeakCovers
    BY DEF IInv
  <1> QED BY <1>1, Invariance, PTL

\* The intervals of the reports add up to what had happened when a report began.
THEOREM IntervalsComplete == Spec => IntervalsAddUp
  <1>1. IInv /\ [Next]_vars
          => [\A r \in Reporter :
                at[r] = "take" /\ at'[r] # "take"
                  => /\ shown' = intervalAt'
                     /\ r = "ticker" => shown' \in begun .. activity]_vars
    <2> SUFFICES ASSUME IInv, Next, NEW r \in Reporter, at[r] = "take", at'[r] # "take"
                 PROVE  shown' = intervalAt' /\ (r = "ticker" => shown' \in begun .. activity)
      OBVIOUS
    <2>1. Take(r)
      BY DEF Next, Report, Connect, Connected, Disconnected, CallEnds, CallFailed, RuntimeRuns,
             Begin, Store, Take, Snapshot, Swap, Sample, Stop, IInv, TypeOK, Counter, clients,
             events, process, samples
    <2>2. counters >= intervalAt
      BY DEF IInv, TypeOK, Turns, Readings, Reporter
    <2>3. shown' = counters /\ intervalAt' = counters
      BY <2>1, <2>2 DEF Take, Delta, IInv, TypeOK, Readings
    <2> QED
      BY <2>3 DEF IInv, TypeOK, Readings, Gauges
  <1> QED BY <1>1, Invariance, PTL DEF Spec, IntervalsAddUp

=============================================================================
