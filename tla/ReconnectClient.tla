-------------------------- MODULE ReconnectClient --------------------------
(***************************************************************************)
(* The shared upstream connection (proxy/upstream.go).                     *)
(*                                                                         *)
(* Every request of the proxy uses the current connection.  It is dialed   *)
(* on first use, replaced when a request finds it broken, and dropped by   *)
(* a watchdog when a request on it goes unanswered.  Dialing, replacing    *)
(* and closing are done under r.mu; loading r.current, the watchdog and    *)
(* the cancellation of the client's context are not.                       *)
(*                                                                         *)
(* Connections are numbered in the order they are dialed; 0 is nil.        *)
(***************************************************************************)
EXTENDS Integers

CONSTANTS
  Caller,       \* goroutines with a request for the upstream
  Closer,       \* the goroutine that runs Close
  MaxConn,      \* bound: how many dials succeed
  None

Conn == 1 .. MaxConn
Nil  == 0

ASSUME ProcAssumption ==
  /\ Closer \notin Caller
  /\ None \notin Caller \cup {Closer}
ASSUME ConnAssumption == MaxConn \in Nat

VARIABLES
  current,      \* r.current
  dialed,       \* how many connections have been dialed
  open,         \* connections not closed on this side
  wire,         \* the agent's end of each connection: up, or ended
  drop,         \* where the watchdog is on each connection
  mu,           \* the holder of r.mu
  canceled,     \* the client's context is canceled
  closed,       \* r.closed
  connected,    \* r.connected
  pc,           \* where each caller is
  kind,         \* what it asks the upstream for
  conn,         \* the connection it works on
  sent,         \* how often it has sent its request
  closing       \* where Close is, and the connection it loaded

vars == <<current, dialed, open, wire, drop, mu, canceled, closed, connected,
          pc, kind, conn, sent, closing>>

TypeOK ==
  /\ current \in 0 .. MaxConn
  /\ dialed \in 0 .. MaxConn
  /\ open \in SUBSET Conn
  /\ wire \in [Conn -> {"up", "ended"}]
  /\ drop \in [Conn -> {"none", "fired", "marked", "cleared", "done"}]
  /\ mu \in Caller \cup {Closer, None}
  /\ canceled \in BOOLEAN
  /\ closed \in BOOLEAN
  /\ connected \in BOOLEAN
  /\ pc \in [Caller -> {"idle", "load", "lock", "dial", "install", "request",
                        "relock", "redial", "swap", "closeold"}]
  /\ kind \in [Caller -> {"list", "sign"}]
  /\ conn \in [Caller -> 0 .. MaxConn]
  /\ sent \in [Caller -> 0 .. 2]
  /\ closing \in [at : {"no", "lock", "close", "done"}, conn : 0 .. MaxConn]

Init ==
  /\ current = Nil
  /\ dialed = 0
  /\ open = {}
  /\ wire = [k \in Conn |-> "up"]
  /\ drop = [k \in Conn |-> "none"]
  /\ mu = None
  /\ canceled = FALSE /\ closed = FALSE /\ connected = FALSE
  /\ pc = [c \in Caller |-> "idle"]
  /\ kind = [c \in Caller |-> "list"]
  /\ conn = [c \in Caller |-> Nil]
  /\ sent = [c \in Caller |-> 0]
  /\ closing = [at |-> "no", conn |-> Nil]

life == <<canceled, closed, closing>>

-----------------------------------------------------------------------------
\* The agent closes its end of a connection, as when it restarts.
Die(k) ==
  /\ k \in open
  /\ wire[k] = "up"
  /\ wire' = [wire EXCEPT ![k] = "ended"]
  /\ UNCHANGED <<current, dialed, open, drop, mu, life, connected, pc, kind, conn, sent>>

-----------------------------------------------------------------------------
\* This side closes a connection, which ends it.
Hangup(k) ==
  /\ open' = open \ {k}
  /\ wire' = [wire EXCEPT ![k] = "ended"]

\* A caller leaves with its answer or error; its locals mean nothing any more.
Finish(c) ==
  /\ pc' = [pc EXCEPT ![c] = "idle"]
  /\ conn' = [conn EXCEPT ![c] = Nil]
  /\ sent' = [sent EXCEPT ![c] = 0]
  /\ kind' = [kind EXCEPT ![c] = "list"]

\* The request goes out on connection k, with a watchdog of its own.
Send(c, k) ==
  /\ pc' = [pc EXCEPT ![c] = "request"]
  /\ conn' = [conn EXCEPT ![c] = k]
  /\ sent' = [sent EXCEPT ![c] = @ + 1]
  /\ UNCHANGED kind

Request(c, what) ==
  /\ pc[c] = "idle"
  /\ pc' = [pc EXCEPT ![c] = "load"]
  /\ kind' = [kind EXCEPT ![c] = what]
  /\ UNCHANGED <<current, dialed, open, wire, drop, mu, life, connected, conn, sent>>

\* connection: the current connection, without the lock.
Load(c) ==
  /\ pc[c] = "load"
  /\ \/ current # Nil /\ Send(c, current)
     \/ /\ current = Nil
        /\ pc' = [pc EXCEPT ![c] = "lock"]
        /\ UNCHANGED <<kind, conn, sent>>
  /\ UNCHANGED <<current, dialed, open, wire, drop, mu, life, connected>>

\* connection under r.mu: refuse, use what somebody else has dialed, or dial.
Lock(c) ==
  /\ pc[c] = "lock"
  /\ mu = None
  /\ \/ (closed \/ canceled) /\ Finish(c) /\ UNCHANGED mu
     \/ ~(closed \/ canceled) /\ current # Nil /\ Send(c, current) /\ UNCHANGED mu
     \/ /\ ~(closed \/ canceled)
        /\ current = Nil
        /\ mu' = c
        /\ pc' = [pc EXCEPT ![c] = "dial"]
        /\ UNCHANGED <<kind, conn, sent>>
  /\ UNCHANGED <<current, dialed, open, wire, drop, life, connected>>

\* A dial succeeds with a new connection.
Dialed(c) ==
  /\ dialed < MaxConn
  /\ dialed' = dialed + 1
  /\ open' = open \cup {dialed'}
  /\ conn' = [conn EXCEPT ![c] = dialed']

Dial(c) ==
  /\ pc[c] = "dial"
  /\ \/ /\ Dialed(c)
        /\ pc' = [pc EXCEPT ![c] = "install"]
        /\ UNCHANGED <<mu, kind, sent>>
     \/ Finish(c) /\ mu' = None /\ UNCHANGED <<dialed, open>>
  /\ UNCHANGED <<current, wire, drop, life, connected>>

\* Mutant: a connection dialed while the client was being canceled is forgotten.
InstallForgotten(c) ==
  /\ pc[c] = "install"
  /\ mu' = None
  /\ \/ canceled /\ Finish(c) /\ UNCHANGED <<current, connected>>
     \/ /\ ~canceled
        /\ current' = conn[c]
        /\ connected' = TRUE
        /\ Send(c, conn[c])
  /\ UNCHANGED <<dialed, open, wire, drop, life>>

\* A connection dialed while the client was being canceled is closed again.
Install(c) ==
  /\ pc[c] = "install"
  /\ mu' = None
  /\ \/ canceled /\ Finish(c) /\ Hangup(conn[c]) /\ UNCHANGED <<current, connected>>
     \/ /\ ~canceled
        /\ current' = conn[c]
        /\ connected' = TRUE
        /\ Send(c, conn[c])
        /\ UNCHANGED <<open, wire>>
  /\ UNCHANGED <<dialed, drop, life>>

\* The agent answers the request, with what was asked for or with a refusal; it need
\* not ever do so.
Answer(c) ==
  /\ pc[c] = "request"
  /\ conn[c] \in open
  /\ wire[conn[c]] = "up"
  /\ ~canceled
  /\ Finish(c)
  /\ UNCHANGED <<current, dialed, open, wire, drop, mu, life, connected>>

\* The watchdog has closed this connection, or is about to.
Unanswered(k) == drop[k] \notin {"none", "fired"}

\* Mutant: a signing request takes a second attempt, as a list does.
RetryAny(c) == sent[c] = 1

\* What a second attempt is for: lists are idempotent, signatures are not.
Retries(c) == kind[c] = "list" /\ sent[c] = 1

\* Wire I/O on k fails: it is closed, dead, or past the deadline the cancellation
\* sets.
TransportFails(k) == k \notin open \/ wire[k] = "ended" \/ canceled

\* The transport fails.  List tries to replace the connection before a second
\* attempt, Sign for the requests to come; not if the watchdog gave it up.
Break(c) ==
  /\ pc[c] = "request"
  /\ TransportFails(conn[c])
  /\ \/ /\ ~Unanswered(conn[c])
        /\ Retries(c) \/ kind[c] = "sign"
        /\ pc' = [pc EXCEPT ![c] = "relock"]
        /\ UNCHANGED <<kind, conn, sent>>
     \/ /\ Unanswered(conn[c]) \/ ~(Retries(c) \/ kind[c] = "sign")
        /\ Finish(c)
  /\ UNCHANGED <<current, dialed, open, wire, drop, mu, life, connected>>

\* reconnect has made a replacement available: a list goes on to connection.
Replaced(c) ==
  \/ /\ Retries(c)
     /\ pc' = [pc EXCEPT ![c] = "load"]
     /\ conn' = [conn EXCEPT ![c] = Nil]
     /\ UNCHANGED <<kind, sent>>
  \/ ~Retries(c) /\ Finish(c)

\* Mutant: without the identity check, whatever is current is replaced.
StillCurrentAny(c) == TRUE

\* The failed connection is current, or none is: a replacement is needed.
StillCurrent(c) == current \in {conn[c], Nil}

Relock(c) ==
  /\ pc[c] = "relock"
  /\ mu = None
  /\ \/ (closed \/ canceled) /\ Finish(c) /\ UNCHANGED mu
     \/ ~(closed \/ canceled) /\ ~StillCurrent(c) /\ Replaced(c) /\ UNCHANGED mu
     \/ /\ ~(closed \/ canceled)
        /\ StillCurrent(c)
        /\ mu' = c
        /\ pc' = [pc EXCEPT ![c] = "redial"]
        /\ UNCHANGED <<kind, conn, sent>>
  /\ UNCHANGED <<current, dialed, open, wire, drop, life, connected>>

\* The replacement is dialed before the current connection is touched.
Redial(c) ==
  /\ pc[c] = "redial"
  /\ \/ /\ Dialed(c)
        /\ pc' = [pc EXCEPT ![c] = "swap"]
        /\ UNCHANGED <<mu, kind, sent>>
     \/ Finish(c) /\ mu' = None /\ UNCHANGED <<dialed, open>>
  /\ UNCHANGED <<current, wire, drop, life, connected>>

Swap(c) ==
  /\ pc[c] = "swap"
  /\ \/ /\ canceled
        /\ Hangup(conn[c])
        /\ Finish(c)
        /\ mu' = None
        /\ UNCHANGED <<current, connected>>
     \/ /\ ~canceled
        /\ current' = conn[c]
        /\ connected' = TRUE
        /\ \/ /\ current # Nil
              /\ pc' = [pc EXCEPT ![c] = "closeold"]
              /\ conn' = [conn EXCEPT ![c] = current]
              /\ UNCHANGED <<mu, kind, sent>>
           \/ current = Nil /\ mu' = None /\ Replaced(c)
        /\ UNCHANGED <<open, wire>>
  /\ UNCHANGED <<dialed, drop, life>>

CloseOld(c) ==
  /\ pc[c] = "closeold"
  /\ Hangup(conn[c])
  /\ mu' = None
  /\ Replaced(c)
  /\ UNCHANGED <<current, dialed, drop, life, connected>>

-----------------------------------------------------------------------------
\* The watchdog of a pending request goes off.  It runs on its own from then on,
\* also when the request returns at the same moment.
Expire(c) ==
  /\ pc[c] = "request"
  /\ drop[conn[c]] = "none"
  /\ drop' = [drop EXCEPT ![conn[c]] = "fired"]
  /\ UNCHANGED <<current, dialed, open, wire, mu, life, connected, pc, kind, conn, sent>>

\* drop, first exchange: only one watchdog goes further.
DropMark(k) ==
  /\ drop[k] = "fired"
  /\ drop' = [drop EXCEPT ![k] = "marked"]
  /\ UNCHANGED <<current, dialed, open, wire, mu, life, connected, pc, kind, conn, sent>>

\* Mutant: the pointer is cleared whatever it holds by then.
ClearAny(k) ==
  /\ drop[k] = "marked"
  /\ current' = Nil
  /\ drop' = [drop EXCEPT ![k] = "cleared"]
  /\ UNCHANGED <<dialed, open, wire, mu, life, connected, pc, kind, conn, sent>>

\* Mutant: the connection is closed and left current.
ClearNot(k) ==
  /\ drop[k] = "marked"
  /\ drop' = [drop EXCEPT ![k] = IF current = k THEN "cleared" ELSE "done"]
  /\ UNCHANGED <<current, dialed, open, wire, mu, life, connected, pc, kind, conn, sent>>

\* Mutant: the watchdog stops before it clears and closes.
ClearStops(k) ==
  /\ drop[k] = "marked"
  /\ drop' = [drop EXCEPT ![k] = "done"]
  /\ UNCHANGED <<current, dialed, open, wire, mu, life, connected, pc, kind, conn, sent>>

\* drop, second exchange: the pointer is cleared only if it still holds k.
DropClear(k) ==
  /\ drop[k] = "marked"
  /\ \/ current = k /\ current' = Nil /\ drop' = [drop EXCEPT ![k] = "cleared"]
     \/ current # k /\ drop' = [drop EXCEPT ![k] = "done"] /\ UNCHANGED current
  /\ UNCHANGED <<dialed, open, wire, mu, life, connected, pc, kind, conn, sent>>

DropClose(k) ==
  /\ drop[k] = "cleared"
  /\ Hangup(k)
  /\ drop' = [drop EXCEPT ![k] = "done"]
  /\ UNCHANGED <<current, dialed, mu, life, connected, pc, kind, conn, sent>>

-----------------------------------------------------------------------------
\* The client's context ends: Run is stopping, and Close follows.
Cancel ==
  /\ ~canceled
  /\ canceled' = TRUE
  /\ closing' = [closing EXCEPT !.at = "lock"]
  /\ UNCHANGED <<current, dialed, open, wire, drop, mu, closed, connected, pc, kind,
                 conn, sent>>

CloseLock ==
  /\ closing.at = "lock"
  /\ mu = None
  /\ closed' = TRUE
  /\ \/ /\ current # Nil
        /\ mu' = Closer
        /\ closing' = [at |-> "close", conn |-> current]
     \/ /\ current = Nil
        /\ closing' = [at |-> "done", conn |-> Nil]
        /\ UNCHANGED mu
  /\ UNCHANGED <<current, dialed, open, wire, drop, canceled, connected, pc, kind, conn,
                 sent>>

CloseCurrent ==
  /\ closing.at = "close"
  /\ Hangup(closing.conn)
  /\ closing' = [at |-> "done", conn |-> Nil]
  /\ mu' = None
  /\ UNCHANGED <<current, dialed, drop, canceled, closed, connected, pc, kind,
                 conn, sent>>

-----------------------------------------------------------------------------
\* A caller's steps that wait neither for r.mu nor for the agent.
Step(c) ==
  \/ Load(c)
  \/ Dial(c)
  \/ Install(c)
  \/ Break(c)
  \/ Redial(c)
  \/ Swap(c)
  \/ CloseOld(c)

\* The steps that take r.mu.
Acquire(c) == Lock(c) \/ Relock(c)

Drop(k) == DropMark(k) \/ DropClear(k) \/ DropClose(k)

Close == CloseLock \/ CloseCurrent

Next ==
  \/ \E k \in Conn : Die(k) \/ Drop(k)
  \/ \E c \in Caller :
       \/ \E what \in {"list", "sign"} : Request(c, what)
       \/ Step(c)
       \/ Acquire(c)
       \/ Answer(c)
       \/ Expire(c)
  \/ Cancel
  \/ Close

Spec == Init /\ [][Next]_vars

\* Goroutines that can run do; a dial ends by its timeout; the timer of a request
\* that stays pending goes off; sync.Mutex lets no waiter starve.
Fairness ==
  /\ \A c \in Caller : WF_vars(Step(c)) /\ SF_vars(Acquire(c)) /\ WF_vars(Expire(c))
  /\ \A k \in Conn : WF_vars(Drop(k))
  /\ SF_vars(Close)

FairSpec == Spec /\ Fairness

-----------------------------------------------------------------------------
\* Every open connection has somebody who will close it: it is current, the
\* holder of r.mu has it in hand, or the watchdog or Close has.
NoConnectionLeaks ==
  open \subseteq {current, closing.conn}
                 \cup {conn[c] : c \in {d \in Caller : pc[d] \in {"install", "swap", "closeold"}}}
                 \cup {k \in Conn : drop[k] = "cleared"}

\* While the client is in use the current connection is open on this side: no
\* order of replacing, dropping and dialing leaves requests on a closed one.
CurrentIsOpen == ~closed /\ current # Nil => current \in open

\* A connection that is replaced is one the agent has ended, never the healthy
\* replacement that another caller has installed meanwhile.
OnlyBrokenReplaced ==
  \A c \in Caller :
    pc[c] = "closeold" => conn[c] \in open /\ wire[conn[c]] = "ended"

\* A signature is asked for once: nothing signs twice for one request.
SignSentOnce == \A c \in Caller : kind[c] = "sign" => sent[c] <= 1

\* Every request returns, even if the agent never answers again: no caller is away
\* for good.
RequestsReturn == \A c \in Caller : []<>(pc[c] = "idle")

\* Cancellation, which is for good, is enough to have everything closed, for good.
CancelCloses == <>[](canceled => open = {})
=============================================================================
