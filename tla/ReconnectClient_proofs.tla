----------------------- MODULE ReconnectClient_proofs -----------------------
(***************************************************************************)
(* Proofs about ReconnectClient, for any callers and any number of dials.  *)
(***************************************************************************)
EXTENDS ReconnectClient, TLAPS

Holding == {"dial", "install", "redial", "swap", "closeold"}
Working == {"install", "request", "relock", "redial", "swap", "closeold"}

\* r.mu has the holder it says, and nobody works under it once Close has had it.
Mutex ==
  /\ \A c \in Caller : pc[c] \in Holding <=> mu = c
  /\ \A c \in Caller : pc[c] \in Holding => ~closed
  /\ closing.at = "close" <=> mu = Closer
  /\ closing.at = "close" => closed
  /\ closing.at # "close" => closing.conn = Nil
  /\ ~canceled => closing.at = "no"

\* Only connections that have been dialed are in use.
Numbered ==
  /\ open \subseteq 1 .. dialed
  /\ current <= dialed /\ closing.conn <= dialed
  /\ \A c \in Caller : conn[c] <= dialed
  /\ \A c \in Caller : pc[c] \in Working => conn[c] # Nil
  /\ \A k \in Conn : drop[k] # "none" => k <= dialed

\* A connection that is not installed yet is open and nobody else knows it.
Fresh ==
  \A c \in Caller : pc[c] \in {"install", "swap"} =>
    /\ conn[c] \in open
    /\ drop[conn[c]] = "none"
    /\ current # conn[c]
    /\ \A d \in Caller : conn[d] = conn[c] => d = c

\* What is about to be closed is not current, nor is there anything to be replaced
\* where a first connection is dialed.
Apart ==
  /\ \A c \in Caller : pc[c] \in {"dial", "install"} => current = Nil
  /\ \A c \in Caller : pc[c] = "closeold" => conn[c] # current /\ drop[conn[c]] # "cleared"
  /\ \A k \in Conn : drop[k] = "cleared" => current # k

\* From the failure of a request to the replacement of its connection, that is the
\* connection that is current, if any is, and it stays broken.
Failed ==
  \A c \in Caller :
    /\ pc[c] = "relock" => TransportFails(conn[c])
    /\ pc[c] = "redial" => current = Nil \/ (current = conn[c] /\ TransportFails(current))
    /\ pc[c] = "swap" => current = Nil \/ TransportFails(current)

\* A request is counted when it is sent, before which it has been sent at most once,
\* and never if it is one for a signature.
Counted ==
  \A c \in Caller :
    /\ pc[c] = "idle" => sent[c] = 0
    /\ pc[c] \in {"load", "lock", "dial", "install"} =>
         sent[c] <= 1 /\ (kind[c] = "sign" => sent[c] = 0)

IInv ==
  /\ TypeOK
  /\ Mutex
  /\ Numbered
  /\ Fresh
  /\ Apart
  /\ Failed
  /\ Counted
  /\ NoConnectionLeaks
  /\ CurrentIsOpen
  /\ OnlyBrokenReplaced
  /\ SignSentOnce
-----------------------------------------------------------------------------
\* Where a step takes caller c: its place, connection, attempts and kind of request;
\* the other callers stay where they are.
At(c, at, k, n, what) ==
  /\ pc'[c] = at /\ conn'[c] = k /\ sent'[c] = n /\ kind'[c] = what
  /\ \A d \in Caller \ {c} :
       pc'[d] = pc[d] /\ conn'[d] = conn[d] /\ sent'[d] = sent[d] /\ kind'[d] = kind[d]

\* The types of what the callers own, and of the rest.
CallersOK ==
  /\ pc \in [Caller -> {"idle", "load", "lock", "dial", "install", "request",
                        "relock", "redial", "swap", "closeold"}]
  /\ kind \in [Caller -> {"list", "sign"}]
  /\ conn \in [Caller -> 0 .. MaxConn]
  /\ sent \in [Caller -> 0 .. 2]

SharedOK ==
  /\ current \in 0 .. MaxConn
  /\ dialed \in 0 .. MaxConn
  /\ open \in SUBSET Conn
  /\ wire \in [Conn -> {"up", "ended"}]
  /\ drop \in [Conn -> {"none", "fired", "marked", "cleared", "done"}]
  /\ mu \in Caller \cup {Closer, None}
  /\ canceled \in BOOLEAN
  /\ closed \in BOOLEAN
  /\ connected \in BOOLEAN
  /\ closing \in [at : {"no", "lock", "close", "done"}, conn : 0 .. MaxConn]

\* The types that the steps below need of the current state.
LEMMA Numbers ==
  ASSUME TypeOK
  PROVE  /\ current \in Nat /\ dialed \in Nat /\ MaxConn \in Nat /\ dialed <= MaxConn
         /\ open \subseteq 1 .. MaxConn
         /\ closing.conn \in Nat
         /\ \A c \in Caller : conn[c] \in Nat /\ sent[c] \in Nat
  <1>1. MaxConn \in Nat /\ 0 .. MaxConn \subseteq Nat
    BY ConnAssumption
  <1>2. current \in 0 .. MaxConn /\ dialed \in 0 .. MaxConn /\ open \subseteq 1 .. MaxConn
    BY DEF TypeOK, Conn
  <1>3. closing.conn \in 0 .. MaxConn
    BY DEF TypeOK
  <1>4. \A c \in Caller : conn[c] \in 0 .. MaxConn /\ sent[c] \in 0 .. 2
    BY DEF TypeOK
  <1> QED BY <1>1, <1>2, <1>3, <1>4

\* A caller that leaves keeps the types.
LEMMA FinishTypes ==
  ASSUME TypeOK, NEW c \in Caller, Finish(c)
  PROVE  CallersOK'
  BY ConnAssumption DEF TypeOK, Finish, CallersOK, Nil

\* So does one that sends its request, which nobody has sent twice by then.
LEMMA SendTypes ==
  ASSUME TypeOK, Counted, NEW c \in Caller, pc[c] \in {"load", "lock", "install"},
         NEW k \in 0 .. MaxConn, Send(c, k)
  PROVE  CallersOK'
  <1>1. sent[c] + 1 \in 0 .. 2
    BY DEF TypeOK, Counted
  <1> QED BY <1>1 DEF TypeOK, Send, CallersOK

\* So does one that has had its connection replaced.
LEMMA ReplacedTypes ==
  ASSUME TypeOK, NEW c \in Caller, Replaced(c)
  PROVE  CallersOK'
  BY FinishTypes, ConnAssumption DEF TypeOK, Replaced, CallersOK, Nil

\* A dial adds a connection with the next number.
LEMMA DialedTypes ==
  ASSUME TypeOK, NEW c \in Caller, Dialed(c)
  PROVE  /\ dialed' \in 0 .. MaxConn
         /\ open' \in SUBSET Conn
         /\ conn' \in [Caller -> 0 .. MaxConn]
  BY ConnAssumption DEF TypeOK, Dialed, Conn

\* What is broken stays broken when some connection is closed.
LEMMA HangupBreaks ==
  ASSUME TypeOK, NEW j \in Conn, Hangup(j), UNCHANGED canceled
  PROVE  \A k : TransportFails(k) => TransportFails(k)'
  <1> SUFFICES ASSUME NEW k, TransportFails(k) PROVE TransportFails(k)'
    OBVIOUS
  <1>1. CASE k \notin open
    BY <1>1 DEF Hangup, TransportFails
  <1>2. CASE k \in open /\ wire[k] = "ended"
    BY <1>2 DEF Hangup, TransportFails, TypeOK
  <1>3. CASE canceled
    BY <1>3 DEF TransportFails
  <1> QED BY <1>1, <1>2, <1>3 DEF TransportFails

\* Request keeps the types.
LEMMA RequestTypes ==
  ASSUME TypeOK, Counted, NEW c \in Caller, NEW what \in {"list", "sign"}, Request(c, what)
  PROVE  TypeOK'
  <1>1. CallersOK'
    BY ConnAssumption DEF Request, TypeOK, CallersOK, Nil
  <1>2. SharedOK'
    BY ConnAssumption DEF Request, TypeOK, SharedOK, Nil, life
  <1> QED BY <1>1, <1>2 DEF TypeOK, CallersOK, SharedOK

\* Load keeps the types.
LEMMA LoadTypes ==
  ASSUME TypeOK, Counted, NEW c \in Caller, Load(c)
  PROVE  TypeOK'
  <1>1. CallersOK'
    BY ConnAssumption, SendTypes DEF Load, TypeOK, CallersOK, Nil
  <1>2. SharedOK'
    BY ConnAssumption DEF Load, TypeOK, SharedOK, Nil, life
  <1> QED BY <1>1, <1>2 DEF TypeOK, CallersOK, SharedOK

\* Lock keeps the types.
LEMMA LockTypes ==
  ASSUME TypeOK, Counted, NEW c \in Caller, Lock(c)
  PROVE  TypeOK'
  <1>1. CallersOK'
    BY ConnAssumption, SendTypes, FinishTypes DEF Lock, TypeOK, CallersOK, Nil
  <1>2. SharedOK'
    BY ConnAssumption DEF Lock, TypeOK, SharedOK, Nil, life
  <1> QED BY <1>1, <1>2 DEF TypeOK, CallersOK, SharedOK

\* Dial keeps the types.
LEMMA DialTypes ==
  ASSUME TypeOK, Counted, NEW c \in Caller, Dial(c)
  PROVE  TypeOK'
  <1>1. CallersOK'
    BY ConnAssumption, DialedTypes, FinishTypes DEF Dial, TypeOK, CallersOK, Nil
  <1>2. SharedOK'
    BY ConnAssumption, DialedTypes DEF Dial, TypeOK, SharedOK, Nil, life
  <1> QED BY <1>1, <1>2 DEF TypeOK, CallersOK, SharedOK

\* Install keeps the types.
LEMMA InstallTypes ==
  ASSUME TypeOK, Counted, NEW c \in Caller, Install(c)
  PROVE  TypeOK'
  <1>1. CallersOK'
    BY ConnAssumption, SendTypes, FinishTypes DEF Install, TypeOK, CallersOK, Nil
  <1>2. SharedOK'
    <2>1. conn[c] \in 0 .. MaxConn
      BY DEF TypeOK
    <2> QED BY <2>1 DEF Install, TypeOK, SharedOK, Hangup, life
  <1> QED BY <1>1, <1>2 DEF TypeOK, CallersOK, SharedOK

\* Answer keeps the types.
LEMMA AnswerTypes ==
  ASSUME TypeOK, Counted, NEW c \in Caller, Answer(c)
  PROVE  TypeOK'
  <1>1. CallersOK'
    BY ConnAssumption, FinishTypes DEF Answer, TypeOK, CallersOK, Nil
  <1>2. SharedOK'
    BY ConnAssumption DEF Answer, TypeOK, SharedOK, Nil, life
  <1> QED BY <1>1, <1>2 DEF TypeOK, CallersOK, SharedOK

\* Break keeps the types.
LEMMA BreakTypes ==
  ASSUME TypeOK, Counted, NEW c \in Caller, Break(c)
  PROVE  TypeOK'
  <1>1. CallersOK'
    BY ConnAssumption, FinishTypes DEF Break, TypeOK, CallersOK, Nil
  <1>2. SharedOK'
    BY ConnAssumption DEF Break, TypeOK, SharedOK, Nil, life
  <1> QED BY <1>1, <1>2 DEF TypeOK, CallersOK, SharedOK

\* Relock keeps the types.
LEMMA RelockTypes ==
  ASSUME TypeOK, Counted, NEW c \in Caller, Relock(c)
  PROVE  TypeOK'
  <1>1. CallersOK'
    BY ConnAssumption, FinishTypes, ReplacedTypes
       DEF Relock, StillCurrent, TypeOK, CallersOK, Nil
  <1>2. SharedOK'
    BY ConnAssumption DEF Relock, StillCurrent, TypeOK, SharedOK, Nil, life
  <1> QED BY <1>1, <1>2 DEF TypeOK, CallersOK, SharedOK

\* Redial keeps the types.
LEMMA RedialTypes ==
  ASSUME TypeOK, Counted, NEW c \in Caller, Redial(c)
  PROVE  TypeOK'
  <1>1. CallersOK'
    BY ConnAssumption, DialedTypes, FinishTypes DEF Redial, TypeOK, CallersOK, Nil
  <1>2. SharedOK'
    BY ConnAssumption, DialedTypes DEF Redial, TypeOK, SharedOK, Nil, life
  <1> QED BY <1>1, <1>2 DEF TypeOK, CallersOK, SharedOK

\* Swap keeps the types.
LEMMA SwapTypes ==
  ASSUME TypeOK, Counted, NEW c \in Caller, Swap(c)
  PROVE  TypeOK'
  <1>1. CallersOK'
    BY ConnAssumption, FinishTypes, ReplacedTypes DEF Swap, TypeOK, CallersOK, Nil
  <1>2. SharedOK'
    <2>1. conn[c] \in 0 .. MaxConn
      BY DEF TypeOK
    <2> QED BY <2>1 DEF Swap, TypeOK, SharedOK, Hangup, life
  <1> QED BY <1>1, <1>2 DEF TypeOK, CallersOK, SharedOK

\* CloseOld keeps the types.
LEMMA CloseOldTypes ==
  ASSUME TypeOK, Counted, NEW c \in Caller, CloseOld(c)
  PROVE  TypeOK'
  <1>1. CallersOK'
    BY ConnAssumption, ReplacedTypes DEF CloseOld, TypeOK, CallersOK, Nil
  <1>2. SharedOK'
    BY ConnAssumption DEF CloseOld, TypeOK, SharedOK, Hangup, Nil, life
  <1> QED BY <1>1, <1>2 DEF TypeOK, CallersOK, SharedOK

\* A caller comes with a request that has not been sent.
LEMMA RequestKeeps ==
  ASSUME IInv, NEW c \in Caller, NEW what \in {"list", "sign"}, Request(c, what)
  PROVE  IInv'
  <1>0. TypeOK
    BY DEF IInv
  <1>1. /\ pc[c] = "idle"
        /\ UNCHANGED <<current, dialed, open, wire, drop, mu, life>>
        /\ At(c, "load", conn[c], sent[c], what)
    BY <1>0 DEF Request, life, At, TypeOK
  <1>2. TypeOK'
    BY RequestTypes DEF IInv
  <1> USE ProcAssumption, ConnAssumption, Numbers DEF IInv, Conn, Nil
  <1>3. Mutex'
    BY <1>1 DEF At, life, Mutex, Holding
  <1>4. Numbered'
    BY <1>1 DEF At, life, Numbered, Mutex, Holding, Working
  <1>5. Fresh'
    BY <1>1 DEF At, life, Fresh, Numbered, Mutex, Apart, Holding, Working
  <1>6. Apart'
    BY <1>1 DEF At, life, Apart, Fresh, Numbered, Mutex, Holding, Working
  <1>7. Failed'
    BY <1>1 DEF At, life, Failed, Numbered, Mutex, Apart, TransportFails, Holding, Working
  <1>8. Counted' /\ SignSentOnce'
    BY <1>1 DEF At, life, Counted, SignSentOnce, Retries
  <1>9. NoConnectionLeaks'
    BY <1>1 DEF At, life, NoConnectionLeaks, Apart, Mutex, Holding
  <1>10. CurrentIsOpen'
    BY <1>1 DEF At, life, CurrentIsOpen, Fresh, Apart, Mutex, Numbered, Holding
  <1>11. OnlyBrokenReplaced'
    BY <1>1
       DEF At, life, OnlyBrokenReplaced, Failed, CurrentIsOpen, TransportFails, Mutex,
           Numbered, Holding, Working
  <1> QED BY <1>2, <1>3, <1>4, <1>5, <1>6, <1>7, <1>8, <1>9, <1>10, <1>11

\* A request is sent on the current connection, or its caller waits for r.mu.
LEMMA LoadKeeps ==
  ASSUME IInv, NEW c \in Caller, Load(c)
  PROVE  IInv'
  <1>0. TypeOK
    BY DEF IInv
  <1>1. /\ pc[c] = "load"
        /\ UNCHANGED <<current, dialed, open, wire, drop, mu, life>>
        /\ \/ current # Nil /\ At(c, "request", current, sent[c] + 1, kind[c])
           \/ current = Nil /\ At(c, "lock", conn[c], sent[c], kind[c])
    BY <1>0 DEF Load, Send, life, At, TypeOK
  <1>2. TypeOK'
    BY LoadTypes DEF IInv
  <1> USE ProcAssumption, ConnAssumption, Numbers DEF IInv, Conn, Nil
  <1>3. Mutex'
    BY <1>1 DEF At, life, Mutex, Holding
  <1>4. Numbered'
    BY <1>1 DEF At, life, Numbered, Mutex, Holding, Working
  <1>5. Fresh'
    BY <1>1 DEF At, life, Fresh, Numbered, Mutex, Apart, Holding, Working
  <1>6. Apart'
    BY <1>1 DEF At, life, Apart, Fresh, Numbered, Mutex, Holding, Working
  <1>7. Failed'
    BY <1>1 DEF At, life, Failed, Numbered, Mutex, Apart, TransportFails, Holding, Working
  <1>8. Counted' /\ SignSentOnce'
    BY <1>1 DEF At, life, Counted, SignSentOnce, Retries
  <1>9. NoConnectionLeaks'
    BY <1>1 DEF At, life, NoConnectionLeaks, Apart, Mutex, Holding
  <1>10. CurrentIsOpen'
    BY <1>1 DEF At, life, CurrentIsOpen, Fresh, Apart, Mutex, Numbered, Holding
  <1>11. OnlyBrokenReplaced'
    BY <1>1
       DEF At, life, OnlyBrokenReplaced, Failed, CurrentIsOpen, TransportFails, Mutex,
           Numbered, Holding, Working
  <1> QED BY <1>2, <1>3, <1>4, <1>5, <1>6, <1>7, <1>8, <1>9, <1>10, <1>11

\* With r.mu a caller leaves, sends, or keeps r.mu to dial where nothing is current.
LEMMA LockKeeps ==
  ASSUME IInv, NEW c \in Caller, Lock(c)
  PROVE  IInv'
  <1>0. TypeOK
    BY DEF IInv
  <1>1. /\ pc[c] = "lock"
        /\ mu = None
        /\ UNCHANGED <<current, dialed, open, wire, drop, life>>
        /\ \/ mu' = mu /\ At(c, "idle", Nil, 0, "list")
           \/ ~closed /\ current # Nil /\ mu' = mu /\ At(c, "request", current, sent[c] + 1, kind[c])
           \/ ~closed /\ current = Nil /\ mu' = c /\ At(c, "dial", conn[c], sent[c], kind[c])
    BY <1>0 DEF Lock, Send, Finish, life, At, TypeOK
  <1>2. TypeOK'
    BY LockTypes DEF IInv
  <1> USE ProcAssumption, ConnAssumption, Numbers DEF IInv, Conn, Nil
  <1>3. Mutex'
    BY <1>1 DEF At, life, Mutex, Holding
  <1>4. Numbered'
    BY <1>1 DEF At, life, Numbered, Mutex, Holding, Working
  <1>5. Fresh'
    BY <1>1 DEF At, life, Fresh, Numbered, Mutex, Apart, Holding, Working
  <1>6. Apart'
    BY <1>1 DEF At, life, Apart, Fresh, Numbered, Mutex, Holding, Working
  <1>7. Failed'
    BY <1>1 DEF At, life, Failed, Numbered, Mutex, Apart, TransportFails, Holding, Working
  <1>8. Counted' /\ SignSentOnce'
    BY <1>1 DEF At, life, Counted, SignSentOnce, Retries
  <1>9. NoConnectionLeaks'
    BY <1>1 DEF At, life, NoConnectionLeaks, Apart, Mutex, Holding
  <1>10. CurrentIsOpen'
    BY <1>1 DEF At, life, CurrentIsOpen, Fresh, Apart, Mutex, Numbered, Holding
  <1>11. OnlyBrokenReplaced'
    BY <1>1
       DEF At, life, OnlyBrokenReplaced, Failed, CurrentIsOpen, TransportFails, Mutex,
           Numbered, Holding, Working
  <1> QED BY <1>2, <1>3, <1>4, <1>5, <1>6, <1>7, <1>8, <1>9, <1>10, <1>11

\* The new connection is open and known to its caller alone.
LEMMA DialKeeps ==
  ASSUME IInv, NEW c \in Caller, Dial(c)
  PROVE  IInv'
  <1>0. TypeOK
    BY DEF IInv
  <1>1. /\ pc[c] = "dial"
        /\ UNCHANGED <<current, wire, drop, life>>
        /\ \/ dialed < MaxConn /\ dialed' = dialed + 1 /\ open' = open \cup {dialed'} /\ mu' = mu
              /\ At(c, "install", dialed', sent[c], kind[c])
           \/ dialed' = dialed /\ open' = open /\ mu' = None /\ At(c, "idle", Nil, 0, "list")
    BY <1>0 DEF Dial, Dialed, Finish, life, At, TypeOK
  <1>2. TypeOK'
    BY DialTypes DEF IInv
  <1> USE ProcAssumption, ConnAssumption, Numbers DEF IInv, Conn, Nil
  <1>3. Mutex'
    BY <1>1 DEF At, life, Mutex, Holding
  <1>4. Numbered'
    <2>1. dialed' \in Nat /\ dialed <= dialed'
      BY <1>1
    <2>2. open' \subseteq 1 .. dialed'
      <3>1. 1 .. dialed \subseteq 1 .. dialed'
        BY <2>1
      <3>2. open' = open \/ (open' = open \cup {dialed'} /\ dialed' \in 1 .. dialed')
        BY <1>1, <2>1
      <3>3. open \subseteq 1 .. dialed
        BY DEF Numbered
      <3> QED BY <3>1, <3>2, <3>3
    <2>3. current' <= dialed' /\ closing'.conn <= dialed'
      BY <1>1, <2>1 DEF Numbered, life
    <2>4. \A d \in Caller : conn'[d] <= dialed' /\ (pc'[d] \in Working => conn'[d] # Nil)
      BY <1>1, <2>1 DEF Numbered, At, Working
    <2>5. \A k \in Conn : drop'[k] # "none" => k <= dialed'
      BY <1>1, <2>1 DEF Numbered
    <2> QED BY <2>2, <2>3, <2>4, <2>5 DEF Numbered
  <1>5. Fresh'
    BY <1>1 DEF At, life, Fresh, Numbered, Mutex, Apart, Holding, Working
  <1>6. Apart'
    BY <1>1 DEF At, life, Apart, Fresh, Numbered, Mutex, Holding, Working
  <1>7. Failed'
    BY <1>1 DEF At, life, Failed, Numbered, Mutex, Apart, TransportFails, Holding, Working
  <1>8. Counted' /\ SignSentOnce'
    BY <1>1 DEF At, life, Counted, SignSentOnce, Retries
  <1>9. NoConnectionLeaks'
    BY <1>1 DEF At, life, NoConnectionLeaks, Apart, Mutex, Holding
  <1>10. CurrentIsOpen'
    BY <1>1 DEF At, life, CurrentIsOpen, Fresh, Apart, Mutex, Numbered, Holding
  <1>11. OnlyBrokenReplaced'
    BY <1>1
       DEF At, life, OnlyBrokenReplaced, Failed, CurrentIsOpen, TransportFails, Mutex,
           Numbered, Holding, Working
  <1> QED BY <1>2, <1>3, <1>4, <1>5, <1>6, <1>7, <1>8, <1>9, <1>10, <1>11

\* The new connection becomes current, or is closed again.
LEMMA InstallKeeps ==
  ASSUME IInv, NEW c \in Caller, Install(c)
  PROVE  IInv'
  <1>0. TypeOK
    BY DEF IInv
  <1>1. /\ pc[c] = "install"
        /\ mu' = None
        /\ UNCHANGED <<dialed, drop, life>>
        /\ \/ Hangup(conn[c]) /\ current' = current /\ At(c, "idle", Nil, 0, "list")
           \/ open' = open /\ wire' = wire /\ current' = conn[c] /\ At(c, "request", conn[c], sent[c] + 1, kind[c])
    BY <1>0 DEF Install, Send, Finish, life, At, TypeOK
  <1>2. TypeOK'
    BY InstallTypes DEF IInv
  <1> USE ProcAssumption, ConnAssumption, Numbers DEF IInv, Conn, Nil, Hangup
  <1>3. Mutex'
    BY <1>1 DEF At, life, Mutex, Holding
  <1>4. Numbered'
    BY <1>1 DEF At, life, Numbered, Mutex, Holding, Working
  <1>5. Fresh'
    BY <1>1 DEF At, life, Fresh, Numbered, Mutex, Apart, Holding, Working
  <1>6. Apart'
    BY <1>1 DEF At, life, Apart, Fresh, Numbered, Mutex, Holding, Working
  <1>7. Failed'
    <2>1. \A k : TransportFails(k) => TransportFails(k)'
      <3>1. conn[c] \in Conn /\ UNCHANGED canceled
        BY <1>1 DEF Fresh, life
      <3>2. CASE Hangup(conn[c])
        BY <3>1, <3>2, HangupBreaks
      <3>3. CASE open' = open /\ wire' = wire
        BY <3>1, <3>3 DEF TransportFails
      <3> QED BY <1>1, <3>2, <3>3
    <2>2. \A d \in Caller \ {c} : pc[d] \notin {"redial", "swap"}
      BY <1>1 DEF Mutex, Holding
    <2> QED BY <1>1, <2>1, <2>2 DEF At, Failed
  <1>8. Counted' /\ SignSentOnce'
    BY <1>1 DEF At, life, Counted, SignSentOnce, Retries
  <1>9. NoConnectionLeaks'
    BY <1>1 DEF At, life, NoConnectionLeaks, Apart, Mutex, Holding
  <1>10. CurrentIsOpen'
    BY <1>1 DEF At, life, CurrentIsOpen, Fresh, Apart, Mutex, Numbered, Holding
  <1>11. OnlyBrokenReplaced'
    BY <1>1
       DEF At, life, OnlyBrokenReplaced, Failed, CurrentIsOpen, TransportFails, Mutex,
           Numbered, Holding, Working
  <1> QED BY <1>2, <1>3, <1>4, <1>5, <1>6, <1>7, <1>8, <1>9, <1>10, <1>11

\* An answered caller leaves.
LEMMA AnswerKeeps ==
  ASSUME IInv, NEW c \in Caller, Answer(c)
  PROVE  IInv'
  <1>0. TypeOK
    BY DEF IInv
  <1>1. /\ pc[c] = "request"
        /\ UNCHANGED <<current, dialed, open, wire, drop, mu, life>>
        /\ At(c, "idle", Nil, 0, "list")
    BY <1>0 DEF Answer, Finish, life, At, TypeOK
  <1>2. TypeOK'
    BY AnswerTypes DEF IInv
  <1> USE ProcAssumption, ConnAssumption, Numbers DEF IInv, Conn, Nil
  <1>3. Mutex'
    BY <1>1 DEF At, life, Mutex, Holding
  <1>4. Numbered'
    BY <1>1 DEF At, life, Numbered, Mutex, Holding, Working
  <1>5. Fresh'
    BY <1>1 DEF At, life, Fresh, Numbered, Mutex, Apart, Holding, Working
  <1>6. Apart'
    BY <1>1 DEF At, life, Apart, Fresh, Numbered, Mutex, Holding, Working
  <1>7. Failed'
    BY <1>1 DEF At, life, Failed, Numbered, Mutex, Apart, TransportFails, Holding, Working
  <1>8. Counted' /\ SignSentOnce'
    BY <1>1 DEF At, life, Counted, SignSentOnce, Retries
  <1>9. NoConnectionLeaks'
    BY <1>1 DEF At, life, NoConnectionLeaks, Apart, Mutex, Holding
  <1>10. CurrentIsOpen'
    BY <1>1 DEF At, life, CurrentIsOpen, Fresh, Apart, Mutex, Numbered, Holding
  <1>11. OnlyBrokenReplaced'
    BY <1>1
       DEF At, life, OnlyBrokenReplaced, Failed, CurrentIsOpen, TransportFails, Mutex,
           Numbered, Holding, Working
  <1> QED BY <1>2, <1>3, <1>4, <1>5, <1>6, <1>7, <1>8, <1>9, <1>10, <1>11

\* A caller whose transport failed tries for a replacement or leaves.
LEMMA BreakKeeps ==
  ASSUME IInv, NEW c \in Caller, Break(c)
  PROVE  IInv'
  <1>0. TypeOK
    BY DEF IInv
  <1>1. /\ pc[c] = "request"
        /\ TransportFails(conn[c])
        /\ UNCHANGED <<current, dialed, open, wire, drop, mu, life>>
        /\ \/ At(c, "relock", conn[c], sent[c], kind[c])
           \/ At(c, "idle", Nil, 0, "list")
    BY <1>0 DEF Break, Finish, life, At, TypeOK
  <1>2. TypeOK'
    BY BreakTypes DEF IInv
  <1> USE ProcAssumption, ConnAssumption, Numbers DEF IInv, Conn, Nil
  <1>3. Mutex'
    BY <1>1 DEF At, life, Mutex, Holding
  <1>4. Numbered'
    BY <1>1 DEF At, life, Numbered, Mutex, Holding, Working
  <1>5. Fresh'
    BY <1>1 DEF At, life, Fresh, Numbered, Mutex, Apart, Holding, Working
  <1>6. Apart'
    BY <1>1 DEF At, life, Apart, Fresh, Numbered, Mutex, Holding, Working
  <1>7. Failed'
    BY <1>1 DEF At, life, Failed, Numbered, Mutex, Apart, TransportFails, Holding, Working
  <1>8. Counted' /\ SignSentOnce'
    BY <1>1 DEF At, life, Counted, SignSentOnce, Retries
  <1>9. NoConnectionLeaks'
    BY <1>1 DEF At, life, NoConnectionLeaks, Apart, Mutex, Holding
  <1>10. CurrentIsOpen'
    BY <1>1 DEF At, life, CurrentIsOpen, Fresh, Apart, Mutex, Numbered, Holding
  <1>11. OnlyBrokenReplaced'
    BY <1>1
       DEF At, life, OnlyBrokenReplaced, Failed, CurrentIsOpen, TransportFails, Mutex,
           Numbered, Holding, Working
  <1> QED BY <1>2, <1>3, <1>4, <1>5, <1>6, <1>7, <1>8, <1>9, <1>10, <1>11

\* With r.mu a caller finds its connection replaced, or current and broken.
LEMMA RelockKeeps ==
  ASSUME IInv, NEW c \in Caller, Relock(c)
  PROVE  IInv'
  <1>0. TypeOK
    BY DEF IInv
  <1>1. /\ pc[c] = "relock"
        /\ mu = None
        /\ UNCHANGED <<current, dialed, open, wire, drop, life>>
        /\ \/ mu' = mu /\ At(c, "idle", Nil, 0, "list")
           \/ mu' = mu /\ Retries(c) /\ At(c, "load", Nil, sent[c], kind[c])
           \/ ~closed /\ current \in {conn[c], Nil} /\ mu' = c /\ At(c, "redial", conn[c], sent[c], kind[c])
    BY <1>0 DEF Relock, Finish, Replaced, StillCurrent, life, At, TypeOK
  <1>2. TypeOK'
    BY RelockTypes DEF IInv
  <1> USE ProcAssumption, ConnAssumption, Numbers DEF IInv, Conn, Nil
  <1>3. Mutex'
    BY <1>1 DEF At, life, Mutex, Holding
  <1>4. Numbered'
    BY <1>1 DEF At, life, Numbered, Mutex, Holding, Working
  <1>5. Fresh'
    BY <1>1 DEF At, life, Fresh, Numbered, Mutex, Apart, Holding, Working
  <1>6. Apart'
    BY <1>1 DEF At, life, Apart, Fresh, Numbered, Mutex, Holding, Working
  <1>7. Failed'
    BY <1>1 DEF At, life, Failed, Numbered, Mutex, Apart, TransportFails, Holding, Working
  <1>8. Counted' /\ SignSentOnce'
    BY <1>1 DEF At, life, Counted, SignSentOnce, Retries
  <1>9. NoConnectionLeaks'
    BY <1>1 DEF At, life, NoConnectionLeaks, Apart, Mutex, Holding
  <1>10. CurrentIsOpen'
    BY <1>1 DEF At, life, CurrentIsOpen, Fresh, Apart, Mutex, Numbered, Holding
  <1>11. OnlyBrokenReplaced'
    BY <1>1
       DEF At, life, OnlyBrokenReplaced, Failed, CurrentIsOpen, TransportFails, Mutex,
           Numbered, Holding, Working
  <1> QED BY <1>2, <1>3, <1>4, <1>5, <1>6, <1>7, <1>8, <1>9, <1>10, <1>11

\* The replacement is open and known to its caller alone; the old one is still broken.
LEMMA RedialKeeps ==
  ASSUME IInv, NEW c \in Caller, Redial(c)
  PROVE  IInv'
  <1>0. TypeOK
    BY DEF IInv
  <1>1. /\ pc[c] = "redial"
        /\ UNCHANGED <<current, wire, drop, life>>
        /\ \/ dialed < MaxConn /\ dialed' = dialed + 1 /\ open' = open \cup {dialed'} /\ mu' = mu
              /\ At(c, "swap", dialed', sent[c], kind[c])
           \/ dialed' = dialed /\ open' = open /\ mu' = None /\ At(c, "idle", Nil, 0, "list")
    BY <1>0 DEF Redial, Dialed, Finish, life, At, TypeOK
  <1>2. TypeOK'
    BY RedialTypes DEF IInv
  <1> USE ProcAssumption, ConnAssumption, Numbers DEF IInv, Conn, Nil
  <1>3. Mutex'
    BY <1>1 DEF At, life, Mutex, Holding
  <1>4. Numbered'
    <2>1. dialed' \in Nat /\ dialed <= dialed'
      BY <1>1
    <2>2. open' \subseteq 1 .. dialed'
      <3>1. 1 .. dialed \subseteq 1 .. dialed'
        BY <2>1
      <3>2. open' = open \/ (open' = open \cup {dialed'} /\ dialed' \in 1 .. dialed')
        BY <1>1, <2>1
      <3>3. open \subseteq 1 .. dialed
        BY DEF Numbered
      <3> QED BY <3>1, <3>2, <3>3
    <2>3. current' <= dialed' /\ closing'.conn <= dialed'
      BY <1>1, <2>1 DEF Numbered, life
    <2>4. \A d \in Caller : conn'[d] <= dialed' /\ (pc'[d] \in Working => conn'[d] # Nil)
      BY <1>1, <2>1 DEF Numbered, At, Working
    <2>5. \A k \in Conn : drop'[k] # "none" => k <= dialed'
      BY <1>1, <2>1 DEF Numbered
    <2> QED BY <2>2, <2>3, <2>4, <2>5 DEF Numbered
  <1>5. Fresh'
    BY <1>1 DEF At, life, Fresh, Numbered, Mutex, Apart, Holding, Working
  <1>6. Apart'
    BY <1>1 DEF At, life, Apart, Fresh, Numbered, Mutex, Holding, Working
  <1>7. Failed'
    BY <1>1 DEF At, life, Failed, Numbered, Mutex, Apart, TransportFails, Holding, Working
  <1>8. Counted' /\ SignSentOnce'
    BY <1>1 DEF At, life, Counted, SignSentOnce, Retries
  <1>9. NoConnectionLeaks'
    BY <1>1 DEF At, life, NoConnectionLeaks, Apart, Mutex, Holding
  <1>10. CurrentIsOpen'
    BY <1>1 DEF At, life, CurrentIsOpen, Fresh, Apart, Mutex, Numbered, Holding
  <1>11. OnlyBrokenReplaced'
    BY <1>1
       DEF At, life, OnlyBrokenReplaced, Failed, CurrentIsOpen, TransportFails, Mutex,
           Numbered, Holding, Working
  <1> QED BY <1>2, <1>3, <1>4, <1>5, <1>6, <1>7, <1>8, <1>9, <1>10, <1>11

\* The replacement becomes current; what it replaces is in hand to be closed.
LEMMA SwapKeeps ==
  ASSUME IInv, NEW c \in Caller, Swap(c)
  PROVE  IInv'
  <1>0. TypeOK
    BY DEF IInv
  <1>1. /\ pc[c] = "swap"
        /\ UNCHANGED <<dialed, drop, life>>
        /\ \/ Hangup(conn[c]) /\ current' = current /\ mu' = None /\ At(c, "idle", Nil, 0, "list")
           \/ ~canceled /\ open' = open /\ wire' = wire /\ current # Nil /\ current' = conn[c] /\ mu' = mu
              /\ At(c, "closeold", current, sent[c], kind[c])
           \/ open' = open /\ wire' = wire /\ current = Nil /\ current' = conn[c] /\ mu' = None /\ At(c, "idle", Nil, 0, "list")
           \/ open' = open /\ wire' = wire /\ current = Nil /\ current' = conn[c] /\ mu' = None /\ Retries(c)
              /\ At(c, "load", Nil, sent[c], kind[c])
    BY <1>0 DEF Swap, Finish, Replaced, life, At, TypeOK
  <1>2. TypeOK'
    BY SwapTypes DEF IInv
  <1> USE ProcAssumption, ConnAssumption, Numbers DEF IInv, Conn, Nil, Hangup
  <1>3. Mutex'
    BY <1>1 DEF At, life, Mutex, Holding
  <1>4. Numbered'
    <2>1. /\ open' \subseteq open /\ current' \in {current, conn[c]}
          /\ UNCHANGED <<dialed, drop, closing>>
          /\ \A d \in Caller \ {c} : pc'[d] = pc[d] /\ conn'[d] = conn[d]
          /\ \/ pc'[c] \in {"idle", "load"} /\ conn'[c] = Nil
             \/ pc'[c] = "closeold" /\ conn'[c] = current /\ current # Nil
      BY <1>1 DEF At, life
    <2>2. Nil <= dialed /\ conn[c] <= dialed /\ current <= dialed
      BY <1>0 DEF Numbered, TypeOK
    <2> QED BY <2>1, <2>2 DEF Numbered, Working
  <1>5. Fresh'
    BY <1>1 DEF At, life, Fresh, Numbered, Mutex, Apart, Holding, Working
  <1>6. Apart'
    BY <1>1 DEF At, life, Apart, Fresh, Numbered, Mutex, Holding, Working
  <1>7. Failed'
    <2>1. \A k : TransportFails(k) => TransportFails(k)'
      <3>1. conn[c] \in Conn /\ UNCHANGED canceled
        BY <1>1 DEF Fresh, life
      <3>2. CASE Hangup(conn[c])
        BY <3>1, <3>2, HangupBreaks
      <3>3. CASE open' = open /\ wire' = wire
        BY <3>1, <3>3 DEF TransportFails
      <3> QED BY <1>1, <3>2, <3>3
    <2>2. \A d \in Caller \ {c} : pc[d] \notin {"redial", "swap"}
      BY <1>1 DEF Mutex, Holding
    <2> QED BY <1>1, <2>1, <2>2 DEF At, Failed
  <1>8. Counted' /\ SignSentOnce'
    BY <1>1 DEF At, life, Counted, SignSentOnce, Retries
  <1>9. NoConnectionLeaks'
    BY <1>1 DEF At, life, NoConnectionLeaks, Apart, Mutex, Holding
  <1>10. CurrentIsOpen'
    BY <1>1 DEF At, life, CurrentIsOpen, Fresh, Apart, Mutex, Numbered, Holding
  <1>11. OnlyBrokenReplaced'
    BY <1>1
       DEF At, life, OnlyBrokenReplaced, Failed, CurrentIsOpen, TransportFails, Mutex,
           Numbered, Holding, Working
  <1> QED BY <1>2, <1>3, <1>4, <1>5, <1>6, <1>7, <1>8, <1>9, <1>10, <1>11

\* What was replaced is closed.
LEMMA CloseOldKeeps ==
  ASSUME IInv, NEW c \in Caller, CloseOld(c)
  PROVE  IInv'
  <1>0. TypeOK
    BY DEF IInv
  <1>1. /\ pc[c] = "closeold"
        /\ mu' = None
        /\ Hangup(conn[c])
        /\ UNCHANGED <<current, dialed, drop, life>>
        /\ \/ At(c, "idle", Nil, 0, "list")
           \/ Retries(c) /\ At(c, "load", Nil, sent[c], kind[c])
    BY <1>0 DEF CloseOld, Finish, Replaced, life, At, TypeOK
  <1>2. TypeOK'
    BY CloseOldTypes DEF IInv
  <1> USE ProcAssumption, ConnAssumption, Numbers DEF IInv, Conn, Nil, Hangup
  <1>3. Mutex'
    BY <1>1 DEF At, life, Mutex, Holding
  <1>4. Numbered'
    BY <1>1 DEF At, life, Numbered, Mutex, Holding, Working
  <1>5. Fresh'
    BY <1>1 DEF At, life, Fresh, Numbered, Mutex, Apart, Holding, Working
  <1>6. Apart'
    BY <1>1 DEF At, life, Apart, Fresh, Numbered, Mutex, Holding, Working
  <1>7. Failed'
    BY <1>1 DEF At, life, Failed, Numbered, Mutex, Apart, TransportFails, Holding, Working
  <1>8. Counted' /\ SignSentOnce'
    BY <1>1 DEF At, life, Counted, SignSentOnce, Retries
  <1>9. NoConnectionLeaks'
    BY <1>1 DEF At, life, NoConnectionLeaks, Apart, Mutex, Holding
  <1>10. CurrentIsOpen'
    BY <1>1 DEF At, life, CurrentIsOpen, Fresh, Apart, Mutex, Numbered, Holding
  <1>11. OnlyBrokenReplaced'
    BY <1>1
       DEF At, life, OnlyBrokenReplaced, Failed, CurrentIsOpen, TransportFails, Mutex,
           Numbered, Holding, Working
  <1> QED BY <1>2, <1>3, <1>4, <1>5, <1>6, <1>7, <1>8, <1>9, <1>10, <1>11

-----------------------------------------------------------------------------
\* The agent ends a connection: what was broken stays broken.
LEMMA DieKeeps ==
  ASSUME IInv, NEW k \in Conn, Die(k)
  PROVE  IInv'
  <1> USE ProcAssumption, ConnAssumption, Numbers DEF IInv, Conn, Nil
  <1>2. TypeOK'
    BY DEF Die, life, TypeOK
  <1>3. Mutex'
    BY DEF Die, life, Mutex, Holding
  <1>4. Numbered'
    BY DEF Die, life, Numbered, Mutex, Holding, Working
  <1>5. Fresh'
    BY DEF Die, life, Fresh, Numbered, Mutex, Apart, Holding, Working
  <1>6. Apart'
    BY DEF Die, life, Apart, Fresh, Numbered, Mutex, Holding, Working
  <1>7. Failed'
    BY DEF Die, life, Failed, Numbered, Mutex, Apart, TransportFails, Holding, Working
  <1>8. Counted' /\ SignSentOnce'
    BY DEF Die, life, Counted, SignSentOnce, Retries
  <1>9. NoConnectionLeaks'
    BY DEF Die, life, NoConnectionLeaks, Apart, Mutex, Numbered, Holding
  <1>10. CurrentIsOpen'
    BY DEF Die, life, CurrentIsOpen, Fresh, Apart, Mutex, Numbered, Holding
  <1>11. OnlyBrokenReplaced'
    BY
       DEF Die, life, OnlyBrokenReplaced, Failed, CurrentIsOpen, TransportFails, Mutex,
           Numbered, Holding, Working
  <1> QED BY <1>2, <1>3, <1>4, <1>5, <1>6, <1>7, <1>8, <1>9, <1>10, <1>11

\* A watchdog wins the first exchange of drop.
LEMMA DropMarkKeeps ==
  ASSUME IInv, NEW k \in Conn, DropMark(k)
  PROVE  IInv'
  <1> USE ProcAssumption, ConnAssumption, Numbers DEF IInv, Conn, Nil
  <1>2. TypeOK'
    BY DEF DropMark, life, TypeOK
  <1>3. Mutex'
    BY DEF DropMark, life, Mutex, Holding
  <1>4. Numbered'
    BY DEF DropMark, life, Numbered, Mutex, Holding, Working
  <1>5. Fresh'
    BY DEF DropMark, life, Fresh, Numbered, Mutex, Apart, Holding, Working
  <1>6. Apart'
    BY DEF DropMark, life, Apart, Fresh, Numbered, Mutex, Holding, Working
  <1>7. Failed'
    BY DEF DropMark, life, Failed, Numbered, Mutex, Apart, TransportFails, Holding, Working
  <1>8. Counted' /\ SignSentOnce'
    BY DEF DropMark, life, Counted, SignSentOnce, Retries
  <1>9. NoConnectionLeaks'
    BY DEF DropMark, life, NoConnectionLeaks, Apart, Mutex, Numbered, Holding
  <1>10. CurrentIsOpen'
    BY DEF DropMark, life, CurrentIsOpen, Fresh, Apart, Mutex, Numbered, Holding
  <1>11. OnlyBrokenReplaced'
    BY
       DEF DropMark, life, OnlyBrokenReplaced, Failed, CurrentIsOpen, TransportFails,
           Mutex, Numbered, Holding, Working
  <1> QED BY <1>2, <1>3, <1>4, <1>5, <1>6, <1>7, <1>8, <1>9, <1>10, <1>11

\* The second exchange clears current only if it is the connection given up, so what it
\* closes next is not current and not one in somebody's hands.
LEMMA DropClearKeeps ==
  ASSUME IInv, NEW k \in Conn, DropClear(k)
  PROVE  IInv'
  <1> USE ProcAssumption, ConnAssumption, Numbers DEF IInv, Conn, Nil
  <1>1. /\ drop[k] = "marked"
        /\ UNCHANGED <<dialed, open, wire, mu, life, connected, pc, kind, conn, sent>>
        /\ drop' \in [Conn -> {"none", "fired", "marked", "cleared", "done"}]
        /\ \A j \in Conn \ {k} : drop'[j] = drop[j]
        /\ \/ current = k /\ current' = Nil /\ drop'[k] = "cleared"
           \/ current # k /\ current' = current /\ drop'[k] = "done"
    BY DEF DropClear, TypeOK
  <1>2. TypeOK'
    BY <1>1 DEF life, TypeOK
  <1>3. Mutex'
    BY <1>1 DEF life, Mutex, Holding
  <1>4. Numbered'
    BY <1>1 DEF life, Numbered, Mutex, Holding, Working
  <1>5. Fresh'
    BY <1>1 DEF life, Fresh, Numbered, Mutex, Apart, Holding, Working
  <1>6. Apart'
    BY <1>1 DEF life, Apart, Fresh, Numbered, Mutex, Holding, Working
  <1>7. Failed'
    BY <1>1 DEF life, Failed, Numbered, Mutex, Apart, TransportFails, Holding, Working
  <1>8. Counted' /\ SignSentOnce'
    BY <1>1 DEF life, Counted, SignSentOnce, Retries
  <1>9. NoConnectionLeaks'
    BY <1>1 DEF life, NoConnectionLeaks, Apart, Mutex, Numbered, Holding
  <1>10. CurrentIsOpen'
    BY <1>1 DEF life, CurrentIsOpen, Fresh, Apart, Mutex, Numbered, Holding
  <1>11. OnlyBrokenReplaced'
    BY <1>1
       DEF life, OnlyBrokenReplaced, Failed, CurrentIsOpen, TransportFails, Mutex,
           Numbered, Holding, Working
  <1> QED BY <1>2, <1>3, <1>4, <1>5, <1>6, <1>7, <1>8, <1>9, <1>10, <1>11

\* The connection a watchdog closes is not current, nor one that is being installed.
LEMMA DropCloseKeeps ==
  ASSUME IInv, NEW k \in Conn, DropClose(k)
  PROVE  IInv'
  <1> USE ProcAssumption, ConnAssumption, Numbers DEF IInv, Conn, Nil, Hangup
  <1>2. TypeOK'
    BY DEF DropClose, life, TypeOK
  <1>3. Mutex'
    BY DEF DropClose, life, Mutex, Holding
  <1>4. Numbered'
    BY DEF DropClose, life, Numbered, Mutex, Holding, Working
  <1>5. Fresh'
    BY DEF DropClose, life, Fresh, Numbered, Mutex, Apart, Holding, Working
  <1>6. Apart'
    BY DEF DropClose, life, Apart, Fresh, Numbered, Mutex, Holding, Working
  <1>7. Failed'
    BY DEF DropClose, life, Failed, Numbered, Mutex, Apart, TransportFails, Holding, Working
  <1>8. Counted' /\ SignSentOnce'
    BY DEF DropClose, life, Counted, SignSentOnce, Retries
  <1>9. NoConnectionLeaks'
    BY DEF DropClose, life, NoConnectionLeaks, Apart, Mutex, Numbered, Holding
  <1>10. CurrentIsOpen'
    BY DEF DropClose, life, CurrentIsOpen, Fresh, Apart, Mutex, Numbered, Holding
  <1>11. OnlyBrokenReplaced'
    <2>1. \A c \in Caller : pc[c] = "closeold" => conn[c] # k
      BY DEF DropClose, Apart
    <2>2. \A c \in Caller : conn[c] \in 0 .. MaxConn
      BY DEF TypeOK
    <2> QED BY <2>1, <2>2 DEF DropClose, OnlyBrokenReplaced, TypeOK
  <1> QED BY <1>2, <1>3, <1>4, <1>5, <1>6, <1>7, <1>8, <1>9, <1>10, <1>11

\* A watchdog fires for a connection that is in use, which is never a fresh one.
LEMMA ExpireKeeps ==
  ASSUME IInv, NEW c \in Caller, Expire(c)
  PROVE  IInv'
  <1> USE ProcAssumption, ConnAssumption, Numbers DEF IInv, Conn, Nil
  <1>2. TypeOK'
    BY DEF Expire, life, TypeOK
  <1>3. Mutex'
    BY DEF Expire, life, Mutex, Holding
  <1>4. Numbered'
    BY DEF Expire, life, Numbered, Mutex, Holding, Working
  <1>5. Fresh'
    BY DEF Expire, life, Fresh, Numbered, Mutex, Apart, Holding, Working
  <1>6. Apart'
    BY DEF Expire, life, Apart, Fresh, Numbered, Mutex, Holding, Working
  <1>7. Failed'
    BY DEF Expire, life, Failed, Numbered, Mutex, Apart, TransportFails, Holding, Working
  <1>8. Counted' /\ SignSentOnce'
    BY DEF Expire, life, Counted, SignSentOnce, Retries
  <1>9. NoConnectionLeaks'
    BY DEF Expire, life, NoConnectionLeaks, Apart, Mutex, Numbered, Holding
  <1>10. CurrentIsOpen'
    BY DEF Expire, life, CurrentIsOpen, Fresh, Apart, Mutex, Numbered, Holding
  <1>11. OnlyBrokenReplaced'
    BY
       DEF Expire, life, OnlyBrokenReplaced, Failed, CurrentIsOpen, TransportFails,
           Mutex, Numbered, Holding, Working
  <1> QED BY <1>2, <1>3, <1>4, <1>5, <1>6, <1>7, <1>8, <1>9, <1>10, <1>11

\* Cancellation breaks connections on this side and hands them to Close.
LEMMA CancelKeeps ==
  ASSUME IInv, Cancel
  PROVE  IInv'
  <1> USE ProcAssumption, ConnAssumption, Numbers DEF IInv, Conn, Nil
  <1>0. closing.at \in {"no", "lock", "close", "done"} /\ closing.conn \in 0 .. MaxConn
    BY DEF TypeOK
  <1>1. closing'.at = "lock" /\ closing'.conn = closing.conn
    BY DEF Cancel, TypeOK
  <1>2. TypeOK'
    BY <1>0, <1>1 DEF Cancel, life, TypeOK
  <1>3. Mutex'
    BY <1>0, <1>1 DEF Cancel, life, Mutex, Holding
  <1>4. Numbered'
    BY <1>0, <1>1 DEF Cancel, life, Numbered, Mutex, Holding, Working
  <1>5. Fresh'
    BY <1>0, <1>1 DEF Cancel, life, Fresh, Numbered, Mutex, Apart, Holding, Working
  <1>6. Apart'
    BY <1>0, <1>1 DEF Cancel, life, Apart, Fresh, Numbered, Mutex, Holding, Working
  <1>7. Failed'
    BY <1>0, <1>1
       DEF Cancel, life, Failed, Numbered, Mutex, Apart, TransportFails, Holding, Working
  <1>8. Counted' /\ SignSentOnce'
    BY <1>0, <1>1 DEF Cancel, life, Counted, SignSentOnce, Retries
  <1>9. NoConnectionLeaks'
    BY <1>0, <1>1 DEF Cancel, life, NoConnectionLeaks, Apart, Mutex, Numbered, Holding
  <1>10. CurrentIsOpen'
    BY <1>0, <1>1 DEF Cancel, life, CurrentIsOpen, Fresh, Apart, Mutex, Numbered, Holding
  <1>11. OnlyBrokenReplaced'
    BY <1>0, <1>1
       DEF Cancel, life, OnlyBrokenReplaced, Failed, CurrentIsOpen, TransportFails,
           Mutex, Numbered, Holding, Working
  <1> QED BY <1>2, <1>3, <1>4, <1>5, <1>6, <1>7, <1>8, <1>9, <1>10, <1>11

\* Close takes r.mu and the current connection; after that nobody works under r.mu.
LEMMA CloseLockKeeps ==
  ASSUME IInv, CloseLock
  PROVE  IInv'
  <1> USE ProcAssumption, ConnAssumption, Numbers DEF IInv, Conn, Nil
  <1>0. closing.at \in {"no", "lock", "close", "done"} /\ closing.conn \in 0 .. MaxConn
    BY DEF TypeOK
  <1>1. \/ closing'.at = "close" /\ closing'.conn = current /\ current # Nil /\ mu' = Closer
        \/ closing'.at = "done" /\ closing'.conn = Nil /\ current = Nil /\ mu' = mu
    BY DEF CloseLock, TypeOK
  <1>2. TypeOK'
    BY <1>0, <1>1 DEF CloseLock, life, TypeOK
  <1>3. Mutex'
    BY <1>0, <1>1 DEF CloseLock, life, Mutex, Holding
  <1>4. Numbered'
    BY <1>0, <1>1 DEF CloseLock, life, Numbered, Mutex, Holding, Working
  <1>5. Fresh'
    BY <1>0, <1>1 DEF CloseLock, life, Fresh, Numbered, Mutex, Apart, Holding, Working
  <1>6. Apart'
    BY <1>0, <1>1 DEF CloseLock, life, Apart, Fresh, Numbered, Mutex, Holding, Working
  <1>7. Failed'
    BY <1>0, <1>1
       DEF CloseLock, life, Failed, Numbered, Mutex, Apart, TransportFails, Holding,
           Working
  <1>8. Counted' /\ SignSentOnce'
    BY <1>0, <1>1 DEF CloseLock, life, Counted, SignSentOnce, Retries
  <1>9. NoConnectionLeaks'
    BY <1>0, <1>1 DEF CloseLock, life, NoConnectionLeaks, Apart, Mutex, Numbered, Holding
  <1>10. CurrentIsOpen'
    BY <1>0, <1>1 DEF CloseLock, life, CurrentIsOpen, Fresh, Apart, Mutex, Numbered, Holding
  <1>11. OnlyBrokenReplaced'
    BY <1>0, <1>1
       DEF CloseLock, life, OnlyBrokenReplaced, Failed, CurrentIsOpen, TransportFails,
           Mutex, Numbered, Holding, Working
  <1> QED BY <1>2, <1>3, <1>4, <1>5, <1>6, <1>7, <1>8, <1>9, <1>10, <1>11

\* Close closes the connection it took.
LEMMA CloseCurrentKeeps ==
  ASSUME IInv, CloseCurrent
  PROVE  IInv'
  <1> USE ProcAssumption, ConnAssumption, Numbers DEF IInv, Conn, Nil, Hangup
  <1>0. closing.at \in {"no", "lock", "close", "done"} /\ closing.conn \in 0 .. MaxConn
    BY DEF TypeOK
  <1>1. closing'.at = "done" /\ closing'.conn = Nil
    BY DEF CloseCurrent, TypeOK
  <1>2. TypeOK'
    <2>1. open' \in SUBSET Conn /\ mu' \in Caller \cup {Closer, None}
      BY DEF CloseCurrent, TypeOK
    <2>2. closing' \in [at : {"no", "lock", "close", "done"}, conn : 0 .. MaxConn]
      BY DEF CloseCurrent
    <2> QED BY <2>1, <2>2 DEF CloseCurrent, TypeOK
  <1>3. Mutex'
    BY <1>0, <1>1 DEF CloseCurrent, life, Mutex, Holding
  <1>4. Numbered'
    <2>1. open' \subseteq open /\ UNCHANGED <<current, dialed, drop, pc, conn>>
      BY DEF CloseCurrent
    <2> QED BY <1>1, <2>1 DEF Numbered, Working
  <1>5. Fresh'
    BY <1>0, <1>1 DEF CloseCurrent, life, Fresh, Numbered, Mutex, Apart, Holding, Working
  <1>6. Apart'
    BY <1>0, <1>1 DEF CloseCurrent, life, Apart, Fresh, Numbered, Mutex, Holding, Working
  <1>7. Failed'
    BY <1>0, <1>1
       DEF CloseCurrent, life, Failed, Numbered, Mutex, Apart, TransportFails, Holding,
           Working
  <1>8. Counted' /\ SignSentOnce'
    BY <1>0, <1>1 DEF CloseCurrent, life, Counted, SignSentOnce, Retries
  <1>9. NoConnectionLeaks'
    BY <1>0, <1>1 DEF CloseCurrent, life, NoConnectionLeaks, Apart, Mutex, Numbered, Holding
  <1>10. CurrentIsOpen'
    BY <1>0, <1>1
       DEF CloseCurrent, life, CurrentIsOpen, Fresh, Apart, Mutex, Numbered, Holding
  <1>11. OnlyBrokenReplaced'
    BY <1>0, <1>1
       DEF CloseCurrent, life, OnlyBrokenReplaced, Failed, CurrentIsOpen, TransportFails,
           Mutex, Numbered, Holding, Working
  <1> QED BY <1>2, <1>3, <1>4, <1>5, <1>6, <1>7, <1>8, <1>9, <1>10, <1>11

\* At the start there is no connection, nobody holds r.mu and nobody calls.
LEMMA Initially == Init => IInv
  <1> SUFFICES ASSUME Init PROVE IInv
    OBVIOUS
  <1>1. TypeOK
    <2>1. Nil \in 0 .. MaxConn /\ Nil \in 0 .. 2
      BY ConnAssumption DEF Nil
    <2>2. closing \in [at : {"no", "lock", "close", "done"}, conn : 0 .. MaxConn]
      BY <2>1 DEF Init
    <2>3. /\ conn \in [Caller -> 0 .. MaxConn]
          /\ sent \in [Caller -> 0 .. 2]
      BY <2>1 DEF Init, Nil
    <2> QED BY <2>1, <2>2, <2>3 DEF Init, TypeOK, Nil
  <1>2. Mutex
    BY ProcAssumption DEF Init, Mutex, Holding
  <1>3. Numbered
    BY DEF Init, Numbered, Working, Nil
  <1>4. Fresh /\ Apart /\ Failed /\ Counted
    BY DEF Init, Fresh, Apart, Failed, Counted
  <1>5. NoConnectionLeaks /\ CurrentIsOpen /\ OnlyBrokenReplaced /\ SignSentOnce
    BY DEF Init, NoConnectionLeaks, CurrentIsOpen, OnlyBrokenReplaced, SignSentOnce
  <1> QED BY <1>1, <1>2, <1>3, <1>4, <1>5 DEF IInv

\* So does a step that changes nothing.
LEMMA Stutters ==
  ASSUME IInv, UNCHANGED vars
  PROVE  IInv'
  BY DEF vars, IInv, TypeOK, Mutex, Holding, Numbered, Working, Fresh, Apart, Failed,
         TransportFails, Counted, NoConnectionLeaks, CurrentIsOpen, OnlyBrokenReplaced,
         SignSentOnce

\* Every step keeps the invariant.
LEMMA Inductive == IInv /\ [Next]_vars => IInv'
  <1> SUFFICES ASSUME IInv, [Next]_vars PROVE IInv'
    OBVIOUS
  <1>1. ASSUME NEW k \in Conn, Die(k) \/ Drop(k) PROVE IInv'
    BY <1>1, DieKeeps, DropMarkKeeps, DropClearKeeps, DropCloseKeeps DEF Drop
  <1>2. ASSUME NEW c \in Caller, Step(c) PROVE IInv'
    BY <1>2, LoadKeeps, DialKeeps, InstallKeeps, BreakKeeps, RedialKeeps, SwapKeeps,
       CloseOldKeeps DEF Step
  <1>3. ASSUME NEW c \in Caller, Acquire(c) PROVE IInv'
    BY <1>3, LockKeeps, RelockKeeps DEF Acquire
  <1>4. CASE Close
    BY <1>4, CloseLockKeeps, CloseCurrentKeeps DEF Close
  <1> QED BY <1>1, <1>2, <1>3, <1>4, RequestKeeps, AnswerKeeps, ExpireKeeps, CancelKeeps,
            Stutters DEF Next

\* The invariant holds of every behaviour, with any callers and any number of dials.
THEOREM Invariance == Spec => []IInv
  BY Initially, Inductive, PTL DEF Spec

-----------------------------------------------------------------------------
\* The variables keep their types.
THEOREM TypeCorrect == Spec => []TypeOK
  <1>1. IInv => TypeOK
    BY DEF IInv
  <1> QED BY <1>1, Invariance, PTL

\* Whatever the dials, drops, replacements and the end of the client, an open connection is
\* one that somebody closes.
THEOREM NoLeak == Spec => []NoConnectionLeaks
  <1>1. IInv => NoConnectionLeaks
    BY DEF IInv
  <1> QED BY <1>1, Invariance, PTL

\* Requests are never sent on a connection that the proxy itself has closed.
THEOREM CurrentOpen == Spec => []CurrentIsOpen
  <1>1. IInv => CurrentIsOpen
    BY DEF IInv
  <1> QED BY <1>1, Invariance, PTL

\* reconnect closes only what the agent had ended, although the failure was found without
\* r.mu and any number of callers found it.
THEOREM HealthyKept == Spec => []OnlyBrokenReplaced
  <1>1. IInv => OnlyBrokenReplaced
    BY DEF IInv
  <1> QED BY <1>1, Invariance, PTL

\* No retry, of List or after a replacement, sends a signing request twice.
THEOREM SignedOnce == Spec => []SignSentOnce
  <1>1. IInv => SignSentOnce
    BY DEF IInv
  <1> QED BY <1>1, Invariance, PTL

=============================================================================
