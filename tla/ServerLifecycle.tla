--------------------------- MODULE ServerLifecycle ---------------------------
(***************************************************************************)
(* One run of the server (proxy/server.go, Server.Run): it binds a socket  *)
(* per group, starts the initial listing, accepts clients and serves each  *)
(* in a goroutine of its own, and on the way out, whatever the reason,     *)
(* tears all that down in a fixed order.                                   *)
(*                                                                         *)
(* The upstream is what calls are pending on: it answers them or not, and  *)
(* only the end of Run's context makes them return for certain.  Group     *)
(* sockets are bound in the configuration's order; the groups are alike,   *)
(* so any order stands for that one.                                       *)
(***************************************************************************)
EXTENDS Naturals

CONSTANTS
  Group,        \* the enabled groups
  Conn,         \* clients that connect, each once
  None

ASSUME SetAssumption == None \notin Group \cup Conn

VARIABLES
  pc,           \* where Run is
  parent,       \* the caller's context is canceled
  ctx,          \* Run's own context is canceled
  listener,     \* each group's listener
  loop,         \* where each group's accept loop is
  accepted,     \* the connection it has just accepted
  failures,     \* groups whose failure waits in acceptFailures
  closing,      \* s.clientsClosing
  client,       \* how far each client has come
  at,           \* the group whose socket it connected to
  open,         \* accepted connections not closed on this side
  clients,      \* s.clients
  running,      \* clients s.clientWG counts
  toClose,      \* closeClients' copy of s.clients
  startup,      \* the initial listing
  result        \* what Run returns

vars == <<pc, parent, ctx, listener, loop, accepted, failures, closing, client, at, open,
          clients, running, toClose, startup, result>>

Handled == {"serving", "refresh", "upstream", "ending", "deleted"}

TypeOK ==
  /\ pc \in {"bind", "serve", "refuse", "listeners", "cancel", "startup", "snapshot",
             "interrupt", "wait", "returned"}
  /\ parent \in BOOLEAN
  /\ ctx \in BOOLEAN
  /\ listener \in [Group -> {"none", "open", "closed"}]
  /\ loop \in [Group -> {"none", "accept", "start", "retry", "ended"}]
  /\ accepted \in [Group -> Conn \cup {None}]
  /\ failures \in SUBSET Group
  /\ closing \in BOOLEAN
  /\ client \in [Conn -> {"away", "queued", "accepted", "gone"} \cup Handled]
  /\ at \in [Conn -> Group \cup {None}]
  /\ open \in SUBSET Conn
  /\ clients \in SUBSET Conn
  /\ running \in SUBSET Conn
  /\ toClose \in SUBSET Conn
  /\ startup \in {"waiting", "listing", "done"}
  /\ result \in {"none", "ok", "bind", "listener"}

Init ==
  /\ pc = "bind"
  /\ parent = FALSE /\ ctx = FALSE
  /\ listener = [g \in Group |-> "none"]
  /\ loop = [g \in Group |-> "none"]
  /\ accepted = [g \in Group |-> None]
  /\ failures = {}
  /\ closing = FALSE
  /\ client = [c \in Conn |-> "away"]
  /\ at = [c \in Conn |-> None]
  /\ open = {} /\ clients = {} /\ running = {} /\ toClose = {}
  /\ startup = "waiting"
  /\ result = "none"

context == <<parent, ctx>>
accepts == <<listener, loop, accepted, failures>>
serving == <<client, at, open, clients, running>>

-----------------------------------------------------------------------------
\* The caller: SIGINT, SIGTERM, or a reload.
Cancel ==
  /\ ~parent
  /\ parent' = TRUE /\ ctx' = TRUE
  /\ UNCHANGED <<pc, accepts, closing, serving, toClose, startup, result>>

Leave(what) == pc' = "refuse" /\ result' = what

BindSocket(g) ==
  /\ pc = "bind"
  /\ ~ctx
  /\ listener[g] = "none"
  /\ listener' = [listener EXCEPT ![g] = "open"]
  /\ loop' = [loop EXCEPT ![g] = "accept"]
  /\ UNCHANGED <<pc, context, accepted, failures, closing, serving, toClose, startup,
                 result>>

\* Also by a failure that has nothing to do with a context canceled meanwhile.
BindFails ==
  /\ pc = "bind"
  /\ \E g \in Group : listener[g] = "none"
  /\ Leave("bind")
  /\ UNCHANGED <<context, accepts, closing, serving, toClose, startup>>

BindInterrupted ==
  /\ pc = "bind"
  /\ ctx
  /\ Leave("ok")
  /\ UNCHANGED <<context, accepts, closing, serving, toClose, startup>>

\* Every socket is bound: close(bound), and the server is ready.
Serve ==
  /\ pc = "bind"
  /\ \A g \in Group : listener[g] # "none"
  /\ pc' = "serve"
  /\ UNCHANGED <<context, accepts, closing, serving, toClose, startup, result>>

ShutDown ==
  /\ pc = "serve"
  /\ \/ ctx /\ Leave("ok")
     \/ failures # {} /\ Leave("listener")
  /\ UNCHANGED <<context, accepts, closing, serving, toClose, startup>>

-----------------------------------------------------------------------------
\* The teardown, in Run's deferred function.
RefuseNewClients ==
  /\ pc = "refuse"
  /\ closing' = TRUE
  /\ pc' = "listeners"
  /\ UNCHANGED <<context, accepts, serving, toClose, startup, result>>

\* A client still in the listener's queue is turned away by the kernel.
CloseListener(g) ==
  /\ pc = "listeners"
  /\ listener[g] = "open"
  /\ listener' = [listener EXCEPT ![g] = "closed"]
  /\ client' = [c \in Conn |-> IF client[c] = "queued" /\ at[c] = g THEN "gone" ELSE client[c]]
  /\ UNCHANGED <<pc, context, loop, accepted, failures, closing, at, open, clients,
                 running, toClose, startup, result>>

ListenersClosed ==
  /\ pc = "listeners"
  /\ \A g \in Group : listener[g] # "open"
  /\ pc' = "cancel"
  /\ UNCHANGED <<context, accepts, closing, serving, toClose, startup, result>>

\* cancel() and rc.Close: pending upstream calls are interrupted.
CancelUpstream ==
  /\ pc = "cancel"
  /\ ctx' = TRUE
  /\ pc' = "startup"
  /\ UNCHANGED <<parent, accepts, closing, serving, toClose, startup, result>>

\* Mutant: Run does not wait for the initial listing.
AwaitNothing ==
  /\ pc = "startup"
  /\ pc' = "snapshot"
  /\ UNCHANGED <<context, accepts, closing, serving, toClose, startup, result>>

\* startupResolution.Wait.
AwaitStartup ==
  /\ pc = "startup"
  /\ startup = "done"
  /\ pc' = "snapshot"
  /\ UNCHANGED <<context, accepts, closing, serving, toClose, startup, result>>

\* Mutant: connections are left to end by themselves.
SnapshotNobody ==
  /\ pc = "snapshot"
  /\ toClose' = {}
  /\ pc' = "interrupt"
  /\ UNCHANGED <<context, accepts, closing, serving, startup, result>>

\* closeClients: copy the clients under the lock, close them without it.
SnapshotClients ==
  /\ pc = "snapshot"
  /\ toClose' = clients
  /\ pc' = "interrupt"
  /\ UNCHANGED <<context, accepts, closing, serving, startup, result>>

CloseClient(c) ==
  /\ pc = "interrupt"
  /\ c \in toClose
  /\ toClose' = toClose \ {c}
  /\ open' = open \ {c}
  /\ UNCHANGED <<pc, context, accepts, closing, client, at, clients, running, startup,
                 result>>

ClientsClosed ==
  /\ pc = "interrupt"
  /\ toClose = {}
  /\ pc' = "wait"
  /\ UNCHANGED <<context, accepts, closing, serving, toClose, startup, result>>

\* clientWG.Wait, then the locks are released and Run returns.
Return ==
  /\ pc = "wait"
  /\ running = {}
  /\ pc' = "returned"
  /\ UNCHANGED <<context, accepts, closing, serving, toClose, startup, result>>

-----------------------------------------------------------------------------
\* resolveStartup lists the upstream once the sockets are bound or Run is canceled,
\* and finishes every group's startup refresh.
StartListing ==
  /\ startup = "waiting"
  /\ ctx \/ (pc # "bind" /\ result # "bind")
  /\ startup' = "listing"
  /\ UNCHANGED <<pc, context, accepts, closing, serving, toClose, result>>

ListingEnds ==
  /\ startup = "listing"
  /\ startup' = "done"
  /\ UNCHANGED <<pc, context, accepts, closing, serving, toClose, result>>

-----------------------------------------------------------------------------
\* A client connects: it waits in the queue of the group's listener.
Connect(c, g) ==
  /\ client[c] = "away"
  /\ listener[g] = "open"
  /\ client' = [client EXCEPT ![c] = "queued"]
  /\ at' = [at EXCEPT ![c] = g]
  /\ UNCHANGED <<pc, context, accepts, closing, open, clients, running, toClose, startup,
                 result>>

Accept(g, c) ==
  /\ loop[g] = "accept"
  /\ listener[g] = "open"
  /\ client[c] = "queued" /\ at[c] = g
  /\ loop' = [loop EXCEPT ![g] = "start"]
  /\ accepted' = [accepted EXCEPT ![g] = c]
  /\ client' = [client EXCEPT ![c] = "accepted"]
  /\ open' = open \cup {c}
  /\ UNCHANGED <<pc, context, listener, failures, closing, at, clients, running, toClose,
                 startup, result>>

\* Mutant: every error is taken for a temporary one.
AcceptRetriesClosed(g) ==
  /\ loop[g] = "accept"
  /\ listener[g] = "closed"
  /\ loop' = [loop EXCEPT ![g] = "retry"]
  /\ UNCHANGED <<pc, context, listener, accepted, failures, closing, serving, toClose,
                 startup, result>>

\* The listener is closed: the loop ends.
AcceptEnds(g) ==
  /\ loop[g] = "accept"
  /\ listener[g] = "closed"
  /\ loop' = [loop EXCEPT ![g] = "ended"]
  /\ UNCHANGED <<pc, context, listener, accepted, failures, closing, serving, toClose,
                 startup, result>>

\* Any error ends the loop quietly if the context is canceled.  A temporary one is
\* retried after a delay, another one is reported; the channel has room for all.
AcceptFails(g) ==
  /\ loop[g] = "accept"
  /\ listener[g] = "open"
  /\ \/ ~ctx /\ loop' = [loop EXCEPT ![g] = "retry"] /\ UNCHANGED failures
     \/ ~ctx /\ loop' = [loop EXCEPT ![g] = "ended"] /\ failures' = failures \cup {g}
     \/ ctx /\ loop' = [loop EXCEPT ![g] = "ended"] /\ UNCHANGED failures
  /\ UNCHANGED <<pc, context, listener, accepted, closing, serving, toClose, startup,
                 result>>

\* waitForAcceptRetry: until the delay is over or Run is canceled.
RetryEnds(g) ==
  /\ loop[g] = "retry"
  /\ \/ loop' = [loop EXCEPT ![g] = "accept"]
     \/ ctx /\ loop' = [loop EXCEPT ![g] = "ended"]
  /\ UNCHANGED <<pc, context, listener, accepted, failures, closing, serving, toClose,
                 startup, result>>

\* Mutant: a connection accepted during shutdown is served.
StartClientAlways(g) ==
  /\ loop[g] = "start"
  /\ client' = [client EXCEPT ![accepted[g]] = "serving"]
  /\ clients' = clients \cup {accepted[g]}
  /\ running' = running \cup {accepted[g]}
  /\ loop' = [loop EXCEPT ![g] = "accept"]
  /\ accepted' = [accepted EXCEPT ![g] = None]
  /\ UNCHANGED <<pc, context, listener, failures, closing, at, open, toClose, startup,
                 result>>

\* startClient, under clientsMu: refuse the connection, or count and serve it.
StartClient(g) ==
  /\ loop[g] = "start"
  /\ LET c == accepted[g]
     IN  \/ /\ closing \/ ctx
            /\ client' = [client EXCEPT ![c] = "gone"]
            /\ open' = open \ {c}
            /\ UNCHANGED <<clients, running>>
         \/ /\ ~(closing \/ ctx)
            /\ client' = [client EXCEPT ![c] = "serving"]
            /\ clients' = clients \cup {c}
            /\ running' = running \cup {c}
            /\ UNCHANGED open
  /\ loop' = [loop EXCEPT ![g] = "accept"]
  /\ accepted' = [accepted EXCEPT ![g] = None]
  /\ UNCHANGED <<pc, context, listener, failures, closing, at, toClose, startup, result>>

-----------------------------------------------------------------------------
\* A client's handler: it reads a request, which waits for the startup refresh or
\* for an upstream call of its own; "serving" is reading from, or writing to, the
\* client.
Handle(c, to) ==
  /\ client' = [client EXCEPT ![c] = to]
  /\ UNCHANGED <<pc, context, accepts, closing, at, open, clients, running, toClose,
                 startup, result>>

Request(c) ==
  /\ client[c] = "serving"
  /\ c \in open
  /\ Handle(c, IF startup = "done" THEN "upstream" ELSE "refresh")

\* The startup refresh is finished; a signing request goes on to the upstream.
Woken(c) ==
  /\ client[c] = "refresh"
  /\ startup = "done"
  /\ \E to \in {"serving", "upstream"} : Handle(c, to)

UpstreamAnswers(c) == client[c] = "upstream" /\ Handle(c, "serving")

\* The client hangs up.
HangUp(c) == client[c] = "serving" /\ Handle(c, "ending")

\* The teardown has closed the connection.
Disconnected(c) == client[c] = "serving" /\ c \notin open /\ Handle(c, "ending")

\* serveConn returns, having closed the connection; then s.clients and s.clientWG.
DeleteClient(c) ==
  /\ client[c] = "ending"
  /\ open' = open \ {c}
  /\ clients' = clients \ {c}
  /\ client' = [client EXCEPT ![c] = "deleted"]
  /\ UNCHANGED <<pc, context, accepts, closing, at, running, toClose, startup, result>>

Done(c) ==
  /\ client[c] = "deleted"
  /\ running' = running \ {c}
  /\ client' = [client EXCEPT ![c] = "gone"]
  /\ UNCHANGED <<pc, context, accepts, closing, at, open, clients, toClose, startup,
                 result>>

-----------------------------------------------------------------------------
Run ==
  \/ \E g \in Group : BindSocket(g) \/ CloseListener(g)
  \/ BindFails \/ BindInterrupted \/ Serve \/ ShutDown
  \/ RefuseNewClients \/ ListenersClosed \/ CancelUpstream \/ AwaitStartup
  \/ SnapshotClients \/ (\E c \in Conn : CloseClient(c)) \/ ClientsClosed \/ Return

AcceptLoop(g) ==
  \/ \E c \in Conn : Accept(g, c)
  \/ AcceptEnds(g) \/ AcceptFails(g) \/ RetryEnds(g) \/ StartClient(g)

Handler(c) ==
  \/ Request(c) \/ Woken(c) \/ UpstreamAnswers(c) \/ HangUp(c) \/ Disconnected(c)
  \/ DeleteClient(c) \/ Done(c)

Next ==
  \/ Cancel
  \/ Run
  \/ StartListing \/ ListingEnds
  \/ \E g \in Group : AcceptLoop(g)
  \/ \E c \in Conn : Handler(c) \/ \E g \in Group : Connect(c, g)

Spec == Init /\ [][Next]_vars

\* Goroutines that can run do.  An upstream call, and with it the listing, is only
\* sure to return once Run's context has ended; a client may never speak, read or
\* hang up; a listener need never fail.
Fairness ==
  /\ WF_vars(Run)
  /\ WF_vars(StartListing)
  /\ WF_vars(ctx /\ ListingEnds)
  /\ \A g \in Group :
       WF_vars(AcceptEnds(g) \/ RetryEnds(g) \/ StartClient(g) \/ \E c \in Conn : Accept(g, c))
  /\ \A c \in Conn :
       WF_vars(Woken(c) \/ (ctx /\ UpstreamAnswers(c)) \/ Disconnected(c) \/ DeleteClient(c) \/ Done(c))

FairSpec == Spec /\ Fairness

-----------------------------------------------------------------------------
\* When Run has returned, no goroutine that uses the upstream or answers a client
\* is left, and no socket accepts: a reload can start the next server.
NothingOutlivesRun ==
  pc = "returned" =>
    /\ startup = "done"
    /\ \A g \in Group : listener[g] # "open"
    /\ \A c \in Conn : client[c] \notin Handled

\* Run waits only for clients whose connection it has closed or which are gone: a
\* client that slipped in between refusing and closing would be waited for as long
\* as it likes.
WaitsForClosedOnly == pc = "wait" => running \cap open = {}

\* A caller's cancellation and a listener's failure both end Run, however slow the
\* upstream and the clients are.
RunReturns == (parent \/ failures # {}) ~> (pc = "returned")

\* The accept loops, which Run does not wait for, end too, and every connection is
\* closed.
EverythingEnds ==
  (pc = "returned") ~> [](open = {} /\ \A g \in Group : loop[g] \in {"none", "ended"})
=============================================================================
