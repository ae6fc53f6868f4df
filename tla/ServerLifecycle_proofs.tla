-------------------------- MODULE ServerLifecycle_proofs --------------------------
(***************************************************************************)
(* Proofs about ServerLifecycle, for any groups and any clients.           *)
(***************************************************************************)
EXTENDS ServerLifecycle, TLAPS

\* How far the teardown has come tells what has been closed for good.
Teardown ==
  /\ pc \notin {"bind", "serve", "refuse"} => closing
  /\ pc \in {"cancel", "startup", "snapshot", "interrupt", "wait", "returned"} =>
       \A g \in Group : listener[g] # "open"
  /\ pc \in {"snapshot", "interrupt", "wait", "returned"} => startup = "done"

\* s.clientWG counts the handlers, and s.clients has those that have not finished; a
\* finished one has closed its connection.
Registered ==
  /\ \A c \in Conn : client[c] \in Handled <=> c \in running
  /\ \A c \in Conn : client[c] \in Handled \ {"deleted"} => c \in clients
  /\ \A c \in Conn : client[c] = "deleted" => c \notin open

\* A connection between Accept and startClient belongs to one accept loop.
InHand ==
  \A g \in Group : loop[g] = "start" =>
    /\ accepted[g] \in Conn
    /\ client[accepted[g]] = "accepted"
    /\ at[accepted[g]] = g

\* From the copy of s.clients on, an open connection with a handler is in the copy.
Copied ==
  /\ pc = "interrupt" => running \cap open \subseteq toClose
  /\ pc = "returned" => running = {}

IInv ==
  /\ TypeOK
  /\ Teardown
  /\ Registered
  /\ InHand
  /\ Copied
  /\ WaitsForClosedOnly

-----------------------------------------------------------------------------
\* Before Run begins nothing is bound and nobody is connected.
LEMMA Initially == Init => IInv
  BY SetAssumption
     DEF Init, IInv, TypeOK, Teardown, Registered, InHand, Copied, WaitsForClosedOnly, Handled


\* Every step keeps the invariant.
LEMMA Inductive == IInv /\ [Next]_vars => IInv'
  <1> SUFFICES ASSUME IInv, [Next]_vars PROVE IInv'
    OBVIOUS
  <1> USE SetAssumption DEF IInv, context, accepts, serving, Handled
  <1>1. CASE Cancel
    <2>1. TypeOK'
      BY <1>1 DEF Cancel, TypeOK
    <2>2. Teardown' /\ Registered' /\ InHand' /\ Copied' /\ WaitsForClosedOnly'
      BY <1>1 DEF Cancel, Teardown, Registered, InHand, Copied, WaitsForClosedOnly
    <2> QED BY <2>1, <2>2
  <1>2. ASSUME NEW g \in Group, BindSocket(g)
        PROVE  IInv'
    <2>1. TypeOK'
      BY <1>2 DEF BindSocket, TypeOK
    <2>2. Teardown'
      BY <1>2 DEF BindSocket, Teardown
    <2>3. InHand'
      BY <1>2 DEF BindSocket, InHand
    <2>4. Registered' /\ Copied' /\ WaitsForClosedOnly'
      BY <1>2 DEF BindSocket, Registered, Copied, WaitsForClosedOnly
    <2> QED BY <2>1, <2>2, <2>3, <2>4
  <1>3. CASE BindFails
    <2>1. TypeOK'
      BY <1>3 DEF BindFails, Leave, TypeOK
    <2>2. Teardown'
      BY <1>3 DEF BindFails, Leave, Teardown
    <2>3. Copied'
      BY <1>3 DEF BindFails, Leave, Copied
    <2>4. WaitsForClosedOnly'
      BY <1>3 DEF BindFails, Leave, WaitsForClosedOnly
    <2>5. Registered' /\ InHand'
      BY <1>3 DEF BindFails, Leave, Registered, InHand
    <2> QED BY <2>1, <2>2, <2>3, <2>4, <2>5
  <1>4. CASE BindInterrupted
    <2>1. TypeOK'
      BY <1>4 DEF BindInterrupted, Leave, TypeOK
    <2>2. Teardown'
      BY <1>4 DEF BindInterrupted, Leave, Teardown
    <2>3. Copied'
      BY <1>4 DEF BindInterrupted, Leave, Copied
    <2>4. WaitsForClosedOnly'
      BY <1>4 DEF BindInterrupted, Leave, WaitsForClosedOnly
    <2>5. Registered' /\ InHand'
      BY <1>4 DEF BindInterrupted, Leave, Registered, InHand
    <2> QED BY <2>1, <2>2, <2>3, <2>4, <2>5
  <1>5. CASE Serve
    <2>1. TypeOK'
      BY <1>5 DEF Serve, TypeOK
    <2>2. Teardown'
      BY <1>5 DEF Serve, Teardown
    <2>3. Copied'
      BY <1>5 DEF Serve, Copied
    <2>4. WaitsForClosedOnly'
      BY <1>5 DEF Serve, WaitsForClosedOnly
    <2>5. Registered' /\ InHand'
      BY <1>5 DEF Serve, Registered, InHand
    <2> QED BY <2>1, <2>2, <2>3, <2>4, <2>5
  <1>6. CASE ShutDown
    <2>1. TypeOK'
      BY <1>6 DEF ShutDown, Leave, TypeOK
    <2>2. Teardown'
      BY <1>6 DEF ShutDown, Leave, Teardown
    <2>3. Copied'
      BY <1>6 DEF ShutDown, Leave, Copied
    <2>4. WaitsForClosedOnly'
      BY <1>6 DEF ShutDown, Leave, WaitsForClosedOnly
    <2>5. Registered' /\ InHand'
      BY <1>6 DEF ShutDown, Leave, Registered, InHand
    <2> QED BY <2>1, <2>2, <2>3, <2>4, <2>5
  <1>7. CASE RefuseNewClients
    <2>1. TypeOK'
      BY <1>7 DEF RefuseNewClients, TypeOK
    <2>2. Teardown'
      BY <1>7 DEF RefuseNewClients, Teardown
    <2>3. Copied'
      BY <1>7 DEF RefuseNewClients, Copied
    <2>4. WaitsForClosedOnly'
      BY <1>7 DEF RefuseNewClients, WaitsForClosedOnly
    <2>5. Registered' /\ InHand'
      BY <1>7 DEF RefuseNewClients, Registered, InHand
    <2> QED BY <2>1, <2>2, <2>3, <2>4, <2>5
  <1>8. ASSUME NEW g \in Group, CloseListener(g)
        PROVE  IInv'
    <2>1. TypeOK'
      BY <1>8 DEF CloseListener, TypeOK
    <2>2. Teardown'
      BY <1>8 DEF CloseListener, Teardown
    <2>3. Registered'
      BY <1>8 DEF CloseListener, Registered
    <2>4. InHand'
      BY <1>8 DEF CloseListener, InHand
    <2>5. Copied' /\ WaitsForClosedOnly'
      BY <1>8 DEF CloseListener, Copied, WaitsForClosedOnly
    <2> QED BY <2>1, <2>2, <2>3, <2>4, <2>5
  <1>9. CASE ListenersClosed
    <2>1. TypeOK'
      BY <1>9 DEF ListenersClosed, TypeOK
    <2>2. Teardown'
      BY <1>9 DEF ListenersClosed, Teardown
    <2>3. Copied'
      BY <1>9 DEF ListenersClosed, Copied
    <2>4. WaitsForClosedOnly'
      BY <1>9 DEF ListenersClosed, WaitsForClosedOnly
    <2>5. Registered' /\ InHand'
      BY <1>9 DEF ListenersClosed, Registered, InHand
    <2> QED BY <2>1, <2>2, <2>3, <2>4, <2>5
  <1>10. CASE CancelUpstream
    <2>1. TypeOK'
      BY <1>10 DEF CancelUpstream, TypeOK
    <2>2. Teardown'
      BY <1>10 DEF CancelUpstream, Teardown
    <2>3. Copied'
      BY <1>10 DEF CancelUpstream, Copied
    <2>4. WaitsForClosedOnly'
      BY <1>10 DEF CancelUpstream, WaitsForClosedOnly
    <2>5. Registered' /\ InHand'
      BY <1>10 DEF CancelUpstream, Registered, InHand
    <2> QED BY <2>1, <2>2, <2>3, <2>4, <2>5
  <1>11. CASE AwaitStartup
    <2>1. TypeOK'
      BY <1>11 DEF AwaitStartup, TypeOK
    <2>2. Teardown'
      BY <1>11 DEF AwaitStartup, Teardown
    <2>3. Copied'
      BY <1>11 DEF AwaitStartup, Copied
    <2>4. WaitsForClosedOnly'
      BY <1>11 DEF AwaitStartup, WaitsForClosedOnly
    <2>5. Registered' /\ InHand'
      BY <1>11 DEF AwaitStartup, Registered, InHand
    <2> QED BY <2>1, <2>2, <2>3, <2>4, <2>5
  <1>12. CASE SnapshotClients
    <2>1. TypeOK'
      BY <1>12 DEF SnapshotClients, TypeOK
    <2>2. Teardown'
      BY <1>12 DEF SnapshotClients, Teardown
    <2>3. Copied'
      BY <1>12 DEF SnapshotClients, TypeOK, Registered, Copied
    <2>4. WaitsForClosedOnly'
      BY <1>12 DEF SnapshotClients, WaitsForClosedOnly
    <2>5. Registered' /\ InHand'
      BY <1>12 DEF SnapshotClients, Registered, InHand
    <2> QED BY <2>1, <2>2, <2>3, <2>4, <2>5
  <1>13. ASSUME NEW c \in Conn, CloseClient(c)
        PROVE  IInv'
    <2>1. TypeOK'
      BY <1>13 DEF CloseClient, TypeOK
    <2>2. Registered'
      BY <1>13 DEF CloseClient, Registered
    <2>3. Copied'
      BY <1>13 DEF CloseClient, Copied
    <2>4. WaitsForClosedOnly'
      BY <1>13 DEF CloseClient, WaitsForClosedOnly
    <2>5. Teardown' /\ InHand'
      BY <1>13 DEF CloseClient, Teardown, InHand
    <2> QED BY <2>1, <2>2, <2>3, <2>4, <2>5
  <1>14. CASE ClientsClosed
    <2>1. TypeOK'
      BY <1>14 DEF ClientsClosed, TypeOK
    <2>2. Teardown'
      BY <1>14 DEF ClientsClosed, Teardown
    <2>3. Copied'
      BY <1>14 DEF ClientsClosed, Copied
    <2>4. WaitsForClosedOnly'
      BY <1>14 DEF ClientsClosed, Copied, WaitsForClosedOnly
    <2>5. Registered' /\ InHand'
      BY <1>14 DEF ClientsClosed, Registered, InHand
    <2> QED BY <2>1, <2>2, <2>3, <2>4, <2>5
  <1>15. CASE Return
    <2>1. TypeOK'
      BY <1>15 DEF Return, TypeOK
    <2>2. Teardown'
      BY <1>15 DEF Return, Teardown
    <2>3. Copied'
      BY <1>15 DEF Return, Copied
    <2>4. WaitsForClosedOnly'
      BY <1>15 DEF Return, WaitsForClosedOnly
    <2>5. Registered' /\ InHand'
      BY <1>15 DEF Return, Registered, InHand
    <2> QED BY <2>1, <2>2, <2>3, <2>4, <2>5
  <1>16. CASE StartListing
    <2>1. TypeOK'
      BY <1>16 DEF StartListing, TypeOK
    <2>2. Teardown'
      BY <1>16 DEF StartListing, Teardown
    <2>3. Registered' /\ InHand' /\ Copied' /\ WaitsForClosedOnly'
      BY <1>16 DEF StartListing, Registered, InHand, Copied, WaitsForClosedOnly
    <2> QED BY <2>1, <2>2, <2>3
  <1>17. CASE ListingEnds
    <2>1. TypeOK'
      BY <1>17 DEF ListingEnds, TypeOK
    <2>2. Teardown'
      BY <1>17 DEF ListingEnds, Teardown
    <2>3. Registered' /\ InHand' /\ Copied' /\ WaitsForClosedOnly'
      BY <1>17 DEF ListingEnds, Registered, InHand, Copied, WaitsForClosedOnly
    <2> QED BY <2>1, <2>2, <2>3
  <1>18. ASSUME NEW c \in Conn, NEW g \in Group, Connect(c, g)
        PROVE  IInv'
    <2>1. TypeOK'
      BY <1>18 DEF Connect, TypeOK
    <2>2. Registered'
      BY <1>18 DEF Connect, Registered
    <2>3. InHand'
      BY <1>18 DEF Connect, InHand
    <2>4. Teardown' /\ Copied' /\ WaitsForClosedOnly'
      BY <1>18 DEF Connect, Teardown, Copied, WaitsForClosedOnly
    <2> QED BY <2>1, <2>2, <2>3, <2>4
  <1>19. ASSUME NEW g \in Group, NEW c \in Conn, Accept(g, c)
        PROVE  IInv'
    <2>1. TypeOK'
      BY <1>19 DEF Accept, TypeOK
    <2>2. Registered'
      BY <1>19 DEF Accept, Registered
    <2>3. InHand'
      BY <1>19 DEF Accept, TypeOK, InHand
    <2>4. Copied'
      BY <1>19 DEF Accept, Teardown, Copied
    <2>5. WaitsForClosedOnly'
      BY <1>19 DEF Accept, Teardown, WaitsForClosedOnly
    <2>6. Teardown'
      BY <1>19 DEF Accept, Teardown
    <2> QED BY <2>1, <2>2, <2>3, <2>4, <2>5, <2>6
  <1>20. ASSUME NEW g \in Group, AcceptEnds(g)
        PROVE  IInv'
    <2>1. TypeOK'
      BY <1>20 DEF AcceptEnds, TypeOK
    <2>2. InHand'
      BY <1>20 DEF AcceptEnds, InHand
    <2>3. Teardown' /\ Registered' /\ Copied' /\ WaitsForClosedOnly'
      BY <1>20 DEF AcceptEnds, Teardown, Registered, Copied, WaitsForClosedOnly
    <2> QED BY <2>1, <2>2, <2>3
  <1>21. ASSUME NEW g \in Group, AcceptFails(g)
        PROVE  IInv'
    <2>1. TypeOK'
      BY <1>21 DEF AcceptFails, TypeOK
    <2>2. InHand'
      BY <1>21 DEF AcceptFails, TypeOK, InHand
    <2>3. Teardown' /\ Registered' /\ Copied' /\ WaitsForClosedOnly'
      BY <1>21 DEF AcceptFails, Teardown, Registered, Copied, WaitsForClosedOnly
    <2> QED BY <2>1, <2>2, <2>3
  <1>22. ASSUME NEW g \in Group, RetryEnds(g)
        PROVE  IInv'
    <2>1. TypeOK'
      BY <1>22 DEF RetryEnds, TypeOK
    <2>2. InHand'
      BY <1>22 DEF RetryEnds, TypeOK, InHand
    <2>3. Teardown' /\ Registered' /\ Copied' /\ WaitsForClosedOnly'
      BY <1>22 DEF RetryEnds, Teardown, Registered, Copied, WaitsForClosedOnly
    <2> QED BY <2>1, <2>2, <2>3
  <1>23. ASSUME NEW g \in Group, StartClient(g)
        PROVE  IInv'
    <2>1. TypeOK'
      BY <1>23 DEF StartClient, TypeOK, InHand
    <2>2. Registered'
      BY <1>23 DEF StartClient, TypeOK, Registered, InHand
    <2>3. InHand'
      BY <1>23 DEF StartClient, TypeOK, InHand
    <2>4. Copied'
      BY <1>23 DEF StartClient, Teardown, Copied
    <2>5. WaitsForClosedOnly'
      BY <1>23 DEF StartClient, Teardown, WaitsForClosedOnly
    <2>6. Teardown'
      BY <1>23 DEF StartClient, Teardown
    <2> QED BY <2>1, <2>2, <2>3, <2>4, <2>5, <2>6
  <1>24. ASSUME NEW c \in Conn, Request(c)
        PROVE  IInv'
    <2>1. TypeOK'
      BY <1>24 DEF Request, Handle, TypeOK
    <2>2. Registered'
      BY <1>24 DEF Request, Handle, Registered
    <2>3. InHand'
      BY <1>24 DEF Request, Handle, InHand
    <2>4. Teardown' /\ Copied' /\ WaitsForClosedOnly'
      BY <1>24 DEF Request, Handle, Teardown, Copied, WaitsForClosedOnly
    <2> QED BY <2>1, <2>2, <2>3, <2>4
  <1>25. ASSUME NEW c \in Conn, Woken(c)
        PROVE  IInv'
    <2>1. TypeOK'
      BY <1>25 DEF Woken, Handle, TypeOK
    <2>2. Registered'
      BY <1>25 DEF Woken, Handle, Registered
    <2>3. InHand'
      BY <1>25 DEF Woken, Handle, InHand
    <2>4. Teardown' /\ Copied' /\ WaitsForClosedOnly'
      BY <1>25 DEF Woken, Handle, Teardown, Copied, WaitsForClosedOnly
    <2> QED BY <2>1, <2>2, <2>3, <2>4
  <1>26. ASSUME NEW c \in Conn, UpstreamAnswers(c)
        PROVE  IInv'
    <2>1. TypeOK'
      BY <1>26 DEF UpstreamAnswers, Handle, TypeOK
    <2>2. Registered'
      BY <1>26 DEF UpstreamAnswers, Handle, Registered
    <2>3. InHand'
      BY <1>26 DEF UpstreamAnswers, Handle, InHand
    <2>4. Teardown' /\ Copied' /\ WaitsForClosedOnly'
      BY <1>26 DEF UpstreamAnswers, Handle, Teardown, Copied, WaitsForClosedOnly
    <2> QED BY <2>1, <2>2, <2>3, <2>4
  <1>27. ASSUME NEW c \in Conn, HangUp(c)
        PROVE  IInv'
    <2>1. TypeOK'
      BY <1>27 DEF HangUp, Handle, TypeOK
    <2>2. Registered'
      BY <1>27 DEF HangUp, Handle, Registered
    <2>3. InHand'
      BY <1>27 DEF HangUp, Handle, InHand
    <2>4. Teardown' /\ Copied' /\ WaitsForClosedOnly'
      BY <1>27 DEF HangUp, Handle, Teardown, Copied, WaitsForClosedOnly
    <2> QED BY <2>1, <2>2, <2>3, <2>4
  <1>28. ASSUME NEW c \in Conn, Disconnected(c)
        PROVE  IInv'
    <2>1. TypeOK'
      BY <1>28 DEF Disconnected, Handle, TypeOK
    <2>2. Registered'
      BY <1>28 DEF Disconnected, Handle, Registered
    <2>3. InHand'
      BY <1>28 DEF Disconnected, Handle, InHand
    <2>4. Teardown' /\ Copied' /\ WaitsForClosedOnly'
      BY <1>28 DEF Disconnected, Handle, Teardown, Copied, WaitsForClosedOnly
    <2> QED BY <2>1, <2>2, <2>3, <2>4
  <1>29. ASSUME NEW c \in Conn, DeleteClient(c)
        PROVE  IInv'
    <2>1. TypeOK'
      BY <1>29 DEF DeleteClient, TypeOK
    <2>2. Registered'
      BY <1>29 DEF DeleteClient, TypeOK, Registered
    <2>3. InHand'
      BY <1>29 DEF DeleteClient, InHand
    <2>4. Copied'
      BY <1>29 DEF DeleteClient, Copied
    <2>5. WaitsForClosedOnly'
      BY <1>29 DEF DeleteClient, WaitsForClosedOnly
    <2>6. Teardown'
      BY <1>29 DEF DeleteClient, Teardown
    <2> QED BY <2>1, <2>2, <2>3, <2>4, <2>5, <2>6
  <1>30. ASSUME NEW c \in Conn, Done(c)
        PROVE  IInv'
    <2>1. TypeOK'
      BY <1>30 DEF Done, TypeOK
    <2>2. Registered'
      BY <1>30 DEF Done, TypeOK, Registered
    <2>3. InHand'
      BY <1>30 DEF Done, InHand
    <2>4. Copied'
      BY <1>30 DEF Done, Copied
    <2>5. WaitsForClosedOnly'
      BY <1>30 DEF Done, WaitsForClosedOnly
    <2>6. Teardown'
      BY <1>30 DEF Done, Teardown
    <2> QED BY <2>1, <2>2, <2>3, <2>4, <2>5, <2>6
  <1>31. CASE UNCHANGED vars
    BY <1>31 DEF vars, TypeOK, Teardown, Registered, InHand, Copied, WaitsForClosedOnly
  <1> QED
    BY <1>1, <1>2, <1>3, <1>4, <1>5, <1>6, <1>7, <1>8, <1>9, <1>10, <1>11, <1>12,
       <1>13, <1>14, <1>15, <1>16, <1>17, <1>18, <1>19, <1>20, <1>21, <1>22, <1>23, <1>24,
       <1>25, <1>26, <1>27, <1>28, <1>29, <1>30, <1>31
    DEF Next, Run, AcceptLoop, Handler

\* The invariant holds throughout.
LEMMA Invariance == Spec => []IInv
  BY Initially, Inductive, PTL DEF Spec

-----------------------------------------------------------------------------
\* The variables keep their types.
THEOREM TypeCorrect == Spec => []TypeOK
  <1>1. IInv => TypeOK
    BY DEF IInv
  <1> QED BY <1>1, Invariance, PTL

\* When Run has returned the listing has ended, no socket accepts and no handler runs, for
\* any number of groups and clients and at whatever point the shutdown came.
THEOREM RunLeavesNothing == Spec => []NothingOutlivesRun
  <1>1. IInv => NothingOutlivesRun
    BY DEF IInv, Teardown, Registered, Copied, NothingOutlivesRun, TypeOK
  <1> QED BY <1>1, Invariance, PTL

\* No connection slips between refuseNewClients and closeClients: clientWG.Wait waits for
\* closed connections only.
THEOREM ClosedAreAwaited == Spec => []WaitsForClosedOnly
  <1>1. IInv => WaitsForClosedOnly
    BY DEF IInv
  <1> QED BY <1>1, Invariance, PTL

=============================================================================
