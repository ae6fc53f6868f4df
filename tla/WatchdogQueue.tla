--------------------------- MODULE WatchdogQueue ---------------------------
(***************************************************************************)
(* The request watchdog in time (proxy/upstream.go, watch and drop).       *)
(*                                                                         *)
(* ReconnectClient lets a watchdog go off at any moment.  Here time passes *)
(* in ticks, and the requests that share a connection wait for each other: *)
(* the agent client of x/crypto holds its mutex from writing a request to  *)
(* reading the reply.  The timer of a request starts before the request    *)
(* waits for that mutex.                                                   *)
(*                                                                         *)
(* Connections are numbered in the order they are dialed; 0 is nil.        *)
(***************************************************************************)
EXTENDS Naturals, Sequences, SequencesExt

CONSTANTS
  Caller,   \* goroutines with a request for the upstream
  Timeout,  \* requestTimeout in ticks
  MaxConn   \* bound: how many connections are dialed

Conn == 1 .. MaxConn

VARIABLES
  current,     \* r.current, 0 for nil
  dialed,      \* how many connections have been dialed
  queue,       \* the requests on each connection; the agent works on the first
  left,        \* what the timer of each request has left
  spent,       \* ticks the agent has been working on the first request
  unanswered   \* connections a watchdog has given up

vars == <<current, dialed, queue, left, spent, unanswered>>

Pending(c, k) == c \in ToSet(queue[k])
Idle(c)       == \A k \in Conn : ~Pending(c, k)

Init ==
  /\ current = 0 /\ dialed = 0
  /\ queue = [k \in Conn |-> <<>>]
  /\ left = [c \in Caller |-> Timeout]
  /\ spent = [k \in Conn |-> 0]
  /\ unanswered = {}

\* connection: the current one, or a new one is dialed.
Connection ==
  \/ current # 0 /\ UNCHANGED <<current, dialed>>
  \/ current = 0 /\ dialed < MaxConn /\ dialed' = dialed + 1 /\ current' = dialed'

\* A request and its watchdog begin.
Watch(c) ==
  /\ Idle(c)
  /\ Connection
  /\ queue' = [queue EXCEPT ![current'] = Append(@, c)]
  /\ left' = [left EXCEPT ![c] = Timeout]
  /\ UNCHANGED <<spent, unanswered>>

\* The agent answers the request it works on and turns to the next.
Answer(k) ==
  /\ queue[k] # <<>>
  /\ queue' = [queue EXCEPT ![k] = Tail(@)]
  /\ spent' = [spent EXCEPT ![k] = 0]
  /\ UNCHANGED <<current, dialed, left, unanswered>>

\* Time passes unless a timer is due.
Tick ==
  /\ \A c \in Caller : ~Idle(c) => left[c] > 0
  /\ \E c \in Caller : ~Idle(c)
  /\ left' = [c \in Caller |-> IF Idle(c) THEN left[c] ELSE left[c] - 1]
  /\ spent' = [k \in Conn |-> IF queue[k] = <<>> THEN 0 ELSE spent[k] + 1]
  /\ UNCHANGED <<current, dialed, queue, unanswered>>

\* drop: the connection is cleared and closed; every request on it fails, and none
\* of them is tried again.
Expire(c, k) ==
  /\ Pending(c, k) /\ left[c] = 0
  /\ unanswered' = unanswered \cup {k}
  /\ current' = IF current = k THEN 0 ELSE current
  /\ queue' = [queue EXCEPT ![k] = <<>>]
  /\ spent' = [spent EXCEPT ![k] = 0]
  /\ UNCHANGED <<dialed, left>>

Next ==
  \/ \E c \in Caller : Watch(c)
  \/ \E k \in Conn : Answer(k)
  \/ Tick
  \/ \E c \in Caller, k \in Conn : Expire(c, k)

Spec == Init /\ [][Next]_vars

-----------------------------------------------------------------------------
\* A timer that goes off means that the connection is stuck: the agent has not
\* answered anything on it for requestTimeout (the comment of watch).
ExpiredMeansStuck ==
  \A c \in Caller, k \in Conn : Pending(c, k) /\ left[c] = 0 => spent[k] >= Timeout
=============================================================================
