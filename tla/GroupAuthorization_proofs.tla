---------------------- MODULE GroupAuthorization_proofs ----------------------
(***************************************************************************)
(* Proofs about GroupAuthorization, for any clients, keys, selectors and   *)
(* history of the upstream's key sets.                                     *)
(***************************************************************************)
EXTENDS GroupAuthorization, KeyResolve, TLAPS

\* Who takes part in the refresh in flight, and that the startup goroutine
\* never acts as a client.
Participants ==
  /\ \A p \in Proc : pc[p] \in Refreshing => joined[p] = p
  /\ \A p \in Proc : pc[p] = "waiting" => joined[p] = inFlight /\ inFlight # None
  /\ \A p \in Proc : pc[p] \notin Refreshing \cup {"waiting"} => joined[p] = None
  /\ pc[Startup] \in Refreshing \cup {"done"}

\* What each client has asked for, by where it is.
Requests ==
  \A c \in Client :
    /\ wants[c] = None <=> pc[c] = "idle"
    /\ pc[c] \in {"missed", "forward"} => wants[c] \in Blob
    /\ pc[c] # "done"

\* How the owner's listing relates to the published snapshot.
Answers ==
  /\ snapshot <= offered
  /\ \A p \in Proc :
       /\ pc[p] = "storing" => /\ outcome[p] # 0
                               /\ snapshot <= outcome[p]
                               /\ outcome[p] <= offered
       /\ pc[p] = "noting" => outcome[p] # 0 /\ outcome[p] = snapshot
       /\ pc[p] = "finishing" => outcome[p] = 0 \/ outcome[p] = snapshot

\* No listing a client may still be answered from predates its request.
Fresh ==
  \A c \in Client :
    /\ since[c] <= offered
    /\ pc[c] \in Refreshing \cup {"asked", "missed", "waiting"} =>
         \A p \in Proc : pc[p] \in Listed /\ outcome[p] # 0 => since[c] <= outcome[p]

\* What a client is about to be shown is no older than what it has seen.
Shown ==
  \A c \in Client : pc[c] = "woken" /\ outcome[c] # 0 => shown[c] <= outcome[c]

\* The record of the unmatched selectors lags the snapshot only while noting.
Noted ==
  snapshot # 0 /\ (\A p \in Proc : pc[p] # "noting") =>
    unmatched = Missing(Offers[snapshot])

IInv ==
  /\ TypeOK
  /\ OneRefresh
  /\ Participants
  /\ Requests
  /\ Answers
  /\ Fresh
  /\ ListedKeysSignable
  /\ FreshAnswers
  /\ Shown
  /\ Noted
-----------------------------------------------------------------------------
\* The invariant holds at the start: the startup refresh is in flight.
LEMMA Initially == Init => IInv
  <1> SUFFICES ASSUME Init PROVE IInv
    OBVIOUS
  <1> USE DEF Proc, Refreshing, Listed
  <1>1. TypeOK
    BY EpochAssumption DEF TypeOK, Epoch, Init
  <1>2. OneRefresh /\ Participants /\ Requests
    BY ProcAssumption, RequestAssumption DEF OneRefresh, Participants, Requests, Init
  <1>3. /\ snapshot = 0
        /\ offered = 1
        /\ \A p \in Proc : pc[p] \in {"listing", "idle"} /\ outcome[p] = 0
        /\ \A c \in Client : since[c] = 0
    BY DEF Init
  <1>4. \A p \in Proc : pc[p] \notin {"storing", "noting", "finishing", "woken"}
    BY <1>3
  <1>5. Answers
    BY <1>3, <1>4 DEF Answers
  <1>6. Noted
    BY <1>3 DEF Noted
  <1>7. Fresh
    <2>1. ASSUME NEW c \in Client PROVE since[c] <= offered
      BY <1>3
    <2>2. ASSUME NEW p \in Proc PROVE pc[p] \notin Listed
      BY <1>4
    <2> QED BY <2>1, <2>2, Zenon DEF Fresh
  <1>8. FreshAnswers /\ Shown
    BY <1>4 DEF FreshAnswers, Shown
  <1>9. ListedKeysSignable
    <2>1. ASSUME NEW c \in Client PROVE shown[c] <= snapshot
      BY DEF Init
    <2> QED BY <2>1 DEF ListedKeysSignable
  <1> QED BY <1>1, <1>2, <1>5, <1>6, <1>7, <1>8, <1>9 DEF IInv

\* Every step keeps the invariant.
LEMMA Inductive == IInv /\ [Next]_vars => IInv'
<1> SUFFICES ASSUME IInv, [Next]_vars PROVE IInv'
  OBVIOUS
<1> USE DEF Proc, Refreshing, Listed
<1>1. 0 \in Epoch /\ 1 .. MaxEpoch \subseteq Epoch
  BY EpochAssumption DEF Epoch
<1>2. ASSUME KeysChange PROVE IInv'
  <2>1. TypeOK'
    BY <1>2, <1>1, EpochAssumption DEF IInv, TypeOK, KeysChange, Epoch
  <2>2. OneRefresh' /\ Participants' /\ Requests' /\ ListedKeysSignable' /\
     FreshAnswers' /\ Shown' /\ Noted'
    BY <1>2 DEF IInv, OneRefresh, Participants, Requests, ListedKeysSignable,
       FreshAnswers, Shown, Noted, KeysChange
  <2>3. Answers' /\ Fresh'
    BY <1>2 DEF IInv, TypeOK, Answers, Fresh, KeysChange, Epoch
  <2> QED BY <2>1, <2>2, <2>3 DEF IInv
<1>3. ASSUME NEW p \in Proc, ListUpstream(p) PROVE IInv'
  <2>1. TypeOK'
    <3>1. CASE outcome' = [outcome EXCEPT ![p] = offered]
      BY <1>3, <1>1, <3>1 DEF IInv, TypeOK, ListUpstream
    <3>2. CASE outcome' = [outcome EXCEPT ![p] = 0]
      BY <1>3, <1>1, <3>2 DEF IInv, TypeOK, ListUpstream
    <3> QED BY <1>3, <3>1, <3>2 DEF ListUpstream
  <2>2. OneRefresh' /\ Participants' /\ Requests' /\ Answers' /\ Fresh' /\
     FreshAnswers' /\ Shown' /\ Noted'
    BY <1>3 DEF IInv, TypeOK, OneRefresh, Participants, Requests, Answers,
       Fresh, FreshAnswers, Shown, Noted, ListUpstream
  <2>3. ListedKeysSignable'
    BY <1>3 DEF IInv, ListedKeysSignable, ListUpstream
  <2> QED BY <2>1, <2>2, <2>3 DEF IInv
<1>4. ASSUME NEW p \in Proc, StoreSnapshot(p) PROVE IInv'
  <2>1. TypeOK'
    BY <1>4, <1>1 DEF IInv, TypeOK, StoreSnapshot
  <2>2. OneRefresh' /\ Participants' /\ Requests' /\ Fresh' /\ Shown'
    BY <1>4 DEF IInv, OneRefresh, Participants, Requests, Fresh, Shown,
       StoreSnapshot
  <2>3. Answers'
    BY <1>4, EpochAssumption, ProcAssumption DEF IInv, TypeOK, OneRefresh,
       Participants, Answers, StoreSnapshot
  <2>4. ListedKeysSignable'
    BY <1>4 DEF IInv, TypeOK, OneRefresh, Participants, Answers,
       ListedKeysSignable, StoreSnapshot, Epoch
  <2>5. FreshAnswers'
    BY <1>4 DEF IInv, TypeOK, OneRefresh, Participants, Answers, FreshAnswers,
       StoreSnapshot, Epoch
  <2>6. Noted'
    BY <1>4 DEF IInv, TypeOK, Noted, StoreSnapshot
  <2> QED BY <2>1, <2>2, <2>3, <2>4, <2>5, <2>6 DEF IInv
<1>5. ASSUME NEW p \in Proc, NoteUnmatched(p) PROVE IInv'
  <2>1. TypeOK'
    BY <1>5, <1>1 DEF IInv, TypeOK, NoteUnmatched, Missing
  <2>2. OneRefresh' /\ Participants' /\ Requests' /\ Answers' /\ Fresh' /\
     ListedKeysSignable' /\ FreshAnswers' /\ Shown'
    BY <1>5 DEF IInv, OneRefresh, Participants, Requests, Answers, Fresh,
       ListedKeysSignable, FreshAnswers, Shown, NoteUnmatched, Missing
  <2>3. Noted'
    BY <1>5 DEF IInv, TypeOK, OneRefresh, Participants, Answers, Noted,
       NoteUnmatched, Missing
  <2> QED BY <2>1, <2>2, <2>3 DEF IInv
<1>6. ASSUME NEW p \in Proc, FinishRefresh(p) PROVE IInv'
  <2>1. TypeOK'
    BY <1>6, <1>1 DEF IInv, TypeOK, FinishRefresh
  <2>2. OneRefresh'
    BY <1>6, ProcAssumption DEF IInv, TypeOK, OneRefresh, Participants,
       FinishRefresh
  <2>3. Participants'
    BY <1>6 DEF IInv, OneRefresh, Participants, FinishRefresh
  <2>4. Requests'
    BY <1>6, ProcAssumption DEF IInv, TypeOK, OneRefresh, Participants,
       Requests, FinishRefresh
  <2>5. Answers' /\ Fresh' /\ ListedKeysSignable'
    BY <1>6 DEF IInv, Answers, Fresh, ListedKeysSignable, FinishRefresh
  <2>6. FreshAnswers'
    <3>1. /\ pc[p] = "finishing" /\ UNCHANGED <<snapshot, since>>
          /\ \A c \in Client : joined[c] # p =>
               pc'[c] = pc[c] /\ outcome'[c] = outcome[c]
          /\ \A c \in Client : joined[c] = p => outcome'[c] = outcome[p]
      BY <1>6 DEF FinishRefresh
    <3>2. SUFFICES ASSUME NEW c \in Client, pc'[c] = "woken", outcome'[c] # 0
                   PROVE  since[c] <= outcome'[c] /\ outcome'[c] <= snapshot
      BY <3>1 DEF FreshAnswers
    <3>3. CASE joined[c] = p
      <4>1. pc[c] \in Refreshing \cup {"waiting"}
        BY <3>3, ProcAssumption DEF IInv, Participants
      <4>2. outcome[p] # 0 /\ outcome'[c] = outcome[p] /\ since[c] <= outcome[p]
        BY <3>1, <3>2, <3>3, <4>1 DEF IInv, Fresh
      <4>3. outcome[p] = snapshot /\ snapshot \in Nat
        BY <3>1, <4>2 DEF IInv, Answers, TypeOK, Epoch
      <4> QED BY <4>2, <4>3
    <3>4. CASE joined[c] # p
      BY <3>1, <3>2, <3>4 DEF IInv, FreshAnswers
    <3> QED BY <3>3, <3>4
  <2>7. Shown'
    BY <1>6, EpochAssumption, ProcAssumption DEF IInv, TypeOK, OneRefresh,
       Participants, Answers, ListedKeysSignable, Shown, FinishRefresh
  <2>8. Noted'
    BY <1>6 DEF IInv, OneRefresh, Noted, FinishRefresh
  <2> QED BY <2>1, <2>2, <2>3, <2>4, <2>5, <2>6, <2>7, <2>8 DEF IInv
<1>7. ASSUME NEW c \in Client, List(c) PROVE IInv'
  <2>1. CASE inFlight = None
    <3>1. TypeOK'
      BY <1>7, <2>1, <1>1 DEF IInv, TypeOK, List, JoinRefresh
    <3>2. OneRefresh'
      BY <1>7, <2>1, ProcAssumption DEF IInv, TypeOK, OneRefresh, List,
         JoinRefresh
    <3>3. Participants' /\ Requests' /\ Answers' /\ Fresh' /\ FreshAnswers' /\
       Shown' /\ Noted'
      BY <1>7, <2>1 DEF IInv, TypeOK, Participants, Requests, Answers, Fresh,
         FreshAnswers, Shown, Noted, List, JoinRefresh
    <3>4. ListedKeysSignable'
      BY <1>7, <2>1 DEF IInv, ListedKeysSignable, List, JoinRefresh
    <3> QED BY <3>1, <3>2, <3>3, <3>4 DEF IInv
  <2>2. CASE inFlight # None
    <3>1. TypeOK'
      BY <1>7, <2>2, <1>1 DEF IInv, TypeOK, List, JoinRefresh
    <3>2. OneRefresh'
      BY <1>7, <2>2, ProcAssumption DEF IInv, TypeOK, OneRefresh, List,
         JoinRefresh
    <3>3. Participants' /\ Requests' /\ Answers' /\ Fresh' /\ FreshAnswers' /\
       Shown' /\ Noted'
      BY <1>7, <2>2 DEF IInv, TypeOK, Participants, Requests, Answers, Fresh,
         FreshAnswers, Shown, Noted, List, JoinRefresh
    <3>4. ListedKeysSignable'
      BY <1>7, <2>2 DEF IInv, ListedKeysSignable, List, JoinRefresh
    <3> QED BY <3>1, <3>2, <3>3, <3>4 DEF IInv
  <2> QED BY <2>1, <2>2
<1>8. ASSUME NEW c \in Client, FastPath(c) PROVE IInv'
  <2>1. TypeOK'
    BY <1>8, <1>1 DEF IInv, TypeOK, FastPath
  <2>2. OneRefresh' /\ Participants' /\ Requests' /\ Answers' /\ Fresh' /\
     ListedKeysSignable' /\ FreshAnswers' /\ Shown' /\ Noted'
    BY <1>8 DEF IInv, OneRefresh, Participants, Requests, Answers, Fresh,
       ListedKeysSignable, FreshAnswers, Shown, Noted, FastPath
  <2> QED BY <2>1, <2>2 DEF IInv
<1>9. ASSUME NEW c \in Client, AuthorizeMiss(c) PROVE IInv'
  <2>1. CASE wants[c] \in Allowed[snapshot]
    <3>1. TypeOK'
      BY <1>9, <2>1, <1>1 DEF IInv, TypeOK, AuthorizeMiss, JoinRefresh
    <3>2. OneRefresh'
      BY <1>9, <2>1, ProcAssumption DEF IInv, TypeOK, OneRefresh,
         AuthorizeMiss, JoinRefresh
    <3>3. Participants' /\ Requests' /\ Answers' /\ Fresh' /\ FreshAnswers' /\
       Shown' /\ Noted'
      BY <1>9, <2>1 DEF IInv, TypeOK, Participants, Requests, Answers, Fresh,
         FreshAnswers, Shown, Noted, AuthorizeMiss, JoinRefresh
    <3>4. ListedKeysSignable'
      BY <1>9, <2>1 DEF IInv, ListedKeysSignable, AuthorizeMiss, JoinRefresh
    <3> QED BY <3>1, <3>2, <3>3, <3>4 DEF IInv
  <2>2. CASE wants[c] \notin Allowed[snapshot] /\ inFlight = None
    <3>1. TypeOK'
      BY <1>9, <2>2, <1>1 DEF IInv, TypeOK, AuthorizeMiss, JoinRefresh
    <3>2. OneRefresh'
      BY <1>9, <2>2, ProcAssumption DEF IInv, TypeOK, OneRefresh,
         AuthorizeMiss, JoinRefresh
    <3>3. Participants' /\ Requests' /\ Answers' /\ Fresh' /\ FreshAnswers' /\
       Shown' /\ Noted'
      BY <1>9, <2>2 DEF IInv, TypeOK, Participants, Requests, Answers, Fresh,
         FreshAnswers, Shown, Noted, AuthorizeMiss, JoinRefresh
    <3>4. ListedKeysSignable'
      BY <1>9, <2>2 DEF IInv, ListedKeysSignable, AuthorizeMiss, JoinRefresh
    <3> QED BY <3>1, <3>2, <3>3, <3>4 DEF IInv
  <2>3. CASE wants[c] \notin Allowed[snapshot] /\ inFlight # None
    <3>1. TypeOK'
      BY <1>9, <2>3, <1>1 DEF IInv, TypeOK, AuthorizeMiss, JoinRefresh
    <3>2. OneRefresh'
      BY <1>9, <2>3, ProcAssumption DEF IInv, TypeOK, OneRefresh,
         AuthorizeMiss, JoinRefresh
    <3>3. Participants' /\ Requests' /\ Answers' /\ Fresh' /\ FreshAnswers' /\
       Shown' /\ Noted'
      BY <1>9, <2>3 DEF IInv, TypeOK, Participants, Requests, Answers, Fresh,
         FreshAnswers, Shown, Noted, AuthorizeMiss, JoinRefresh
    <3>4. ListedKeysSignable'
      BY <1>9, <2>3 DEF IInv, ListedKeysSignable, AuthorizeMiss, JoinRefresh
    <3> QED BY <3>1, <3>2, <3>3, <3>4 DEF IInv
  <2> QED BY <2>1, <2>2, <2>3
<1>10. ASSUME NEW c \in Client, ReturnError(c) PROVE IInv'
  <2>1. TypeOK'
    BY <1>10, <1>1 DEF IInv, TypeOK, ReturnError, Reply
  <2>2. OneRefresh' /\ Participants' /\ Answers' /\ ListedKeysSignable' /\
     FreshAnswers' /\ Shown' /\ Noted'
    BY <1>10 DEF IInv, OneRefresh, Participants, Answers, ListedKeysSignable,
       FreshAnswers, Shown, Noted, ReturnError, Reply
  <2>3. Requests' /\ Fresh'
    BY <1>10 DEF IInv, TypeOK, Requests, Fresh, ReturnError, Reply
  <2> QED BY <2>1, <2>2, <2>3 DEF IInv
<1>11. ASSUME NEW c \in Client, ReturnList(c) PROVE IInv'
  <2>1. TypeOK'
    BY <1>11, <1>1 DEF IInv, TypeOK, ReturnList, Reply
  <2>2. OneRefresh' /\ Participants' /\ Answers' /\ Noted'
    BY <1>11 DEF IInv, OneRefresh, Participants, Answers, Noted, ReturnList,
       Reply
  <2>3. Requests' /\ Fresh' /\ FreshAnswers' /\ Shown'
    BY <1>11 DEF IInv, TypeOK, Requests, Fresh, FreshAnswers, Shown,
       ReturnList, Reply
  <2>4. ListedKeysSignable'
    BY <1>11, EpochAssumption, ProcAssumption DEF IInv, TypeOK,
       ListedKeysSignable, FreshAnswers, ReturnList, Reply
  <2> QED BY <2>1, <2>2, <2>3, <2>4 DEF IInv
<1>12. ASSUME NEW c \in Client, FinishAuthorize(c) PROVE IInv'
  <2>1. CASE wants[c] \in Allowed[snapshot]
    <3>1. TypeOK'
      BY <1>12, <2>1, <1>1 DEF IInv, TypeOK, FinishAuthorize, Reply
    <3>2. OneRefresh' /\ Participants' /\ Requests' /\ Answers' /\ Fresh' /\
       FreshAnswers' /\ Shown' /\ Noted'
      BY <1>12, <2>1 DEF IInv, TypeOK, OneRefresh, Participants, Requests,
         Answers, Fresh, FreshAnswers, Shown, Noted, FinishAuthorize, Reply
    <3>3. ListedKeysSignable'
      BY <1>12, <2>1 DEF IInv, ListedKeysSignable, FinishAuthorize, Reply
    <3> QED BY <3>1, <3>2, <3>3 DEF IInv
  <2>2. CASE wants[c] \notin Allowed[snapshot]
    <3>1. TypeOK'
      BY <1>12, <2>2, <1>1 DEF IInv, TypeOK, FinishAuthorize, Reply
    <3>2. OneRefresh' /\ Participants' /\ Requests' /\ Answers' /\ Fresh' /\
       FreshAnswers' /\ Shown' /\ Noted'
      BY <1>12, <2>2 DEF IInv, TypeOK, OneRefresh, Participants, Requests,
         Answers, Fresh, FreshAnswers, Shown, Noted, FinishAuthorize, Reply
    <3>3. ListedKeysSignable'
      BY <1>12, <2>2 DEF IInv, ListedKeysSignable, FinishAuthorize, Reply
    <3> QED BY <3>1, <3>2, <3>3 DEF IInv
  <2> QED BY <2>1, <2>2
<1>13. ASSUME NEW c \in Client, ForwardSign(c) PROVE IInv'
  <2>1. PICK what \in {"signed", "failed"} : Reply(c, what)
    BY <1>13 DEF ForwardSign
  <2>2. /\ pc[c] = "forward"
        /\ UNCHANGED <<offered, snapshot, inFlight, unmatched, joined, shown>>
    BY <1>13 DEF ForwardSign
  <2>3. TypeOK'
    BY <2>1, <2>2, <1>1 DEF IInv, TypeOK, Reply
  <2>4. OneRefresh' /\ Participants' /\ Answers' /\ ListedKeysSignable' /\
     FreshAnswers' /\ Shown' /\ Noted'
    BY <2>1, <2>2 DEF IInv, OneRefresh, Participants, Answers, ListedKeysSignable,
       FreshAnswers, Shown, Noted, Reply
  <2>5. Requests' /\ Fresh'
    BY <2>1, <2>2 DEF IInv, TypeOK, Requests, Fresh, Reply
  <2> QED BY <2>3, <2>4, <2>5 DEF IInv
<1>14. ASSUME NEW c \in Client, NEW what \in Blob \cup {Listing},
             Ask(c, what)
      PROVE  IInv'
  <2>1. TypeOK'
    BY <1>14, <1>1 DEF IInv, TypeOK, Ask
  <2>2. OneRefresh' /\ Participants' /\ Answers' /\ ListedKeysSignable' /\
     FreshAnswers' /\ Shown' /\ Noted'
    BY <1>14 DEF IInv, OneRefresh, Participants, Answers, ListedKeysSignable,
       FreshAnswers, Shown, Noted, Ask, AlreadyListed
  <2>3. Requests'
    BY <1>14, RequestAssumption DEF IInv, TypeOK, Requests, Ask, AlreadyListed
  <2>4. Fresh'
    BY <1>14 DEF IInv, TypeOK, Fresh, Ask, AlreadyListed, Epoch
  <2> QED BY <2>1, <2>2, <2>3, <2>4 DEF IInv
<1>15. CASE UNCHANGED vars
  BY <1>15 DEF IInv, vars, TypeOK, OneRefresh, Participants, Requests,
     Answers, Fresh, ListedKeysSignable, FreshAnswers, Shown, Noted
<1> QED
  BY <1>2, <1>3, <1>4, <1>5, <1>6, <1>7, <1>8, <1>9, <1>10, <1>11, <1>12,
     <1>13, <1>14, <1>15 DEF Next, Refresh, Serve

\* The invariant holds throughout.
LEMMA Invariance == Spec => []IInv
  BY Initially, Inductive, PTL DEF Spec

-----------------------------------------------------------------------------
\* Type correctness of the group's state.
THEOREM TypeCorrect == Spec => []TypeOK
  <1>1. IInv => TypeOK
    BY DEF IInv
  <1> QED BY <1>1, Invariance, PTL

\* At most one upstream listing is under way, whatever the clients do, and
\* everyone who waits takes part in it.
THEOREM RefreshesCoalesce == Spec => [](OneRefresh /\ NoLostWaiter)
  <1>1. IInv => OneRefresh /\ NoLostWaiter
    BY DEF IInv, Participants, NoLostWaiter, Proc
  <1> QED BY <1>1, Invariance, PTL

\* What a client has been shown was published before, so it can be signed with.
THEOREM ListsAreSignable == Spec => []ListedKeysSignable
  <1>1. IInv => ListedKeysSignable
    BY DEF IInv
  <1> QED BY <1>1, Invariance, PTL

\* No answer predates its request or is newer than the published snapshot, whichever
\* refresh the request has joined.
THEOREM AnswersAreFresh == Spec => []FreshAnswers
  <1>1. IInv => FreshAnswers
    BY DEF IInv
  <1> QED BY <1>1, Invariance, PTL

\* The record behind the unmatched-selector warnings agrees with the snapshot.
THEOREM UnmatchedCorrect == Spec => []UnmatchedTracksSnapshot
  <1>1. IInv => UnmatchedTracksSnapshot
    BY ProcAssumption
       DEF IInv, OneRefresh, Noted, Refreshing, UnmatchedTracksSnapshot
  <1> QED BY <1>1, Invariance, PTL

\* No refresh overwrites a newer snapshot with an older one.
THEOREM SnapshotMonotone == Spec => SnapshotAdvances
  <1>1. IInv /\ [Next]_vars => [snapshot' >= snapshot]_vars
    <2> SUFFICES ASSUME IInv, Next PROVE snapshot' >= snapshot
      BY DEF vars
    <2>1. snapshot \in Int
      BY EpochAssumption DEF IInv, TypeOK, Epoch
    <2>2. ASSUME NEW p \in Proc, StoreSnapshot(p) PROVE snapshot' >= snapshot
      BY <2>2, EpochAssumption DEF IInv, TypeOK, Answers, StoreSnapshot, Epoch
    <2>3. ASSUME snapshot' = snapshot PROVE snapshot' >= snapshot
      BY <2>1, <2>3
    <2> QED
      BY <2>2, <2>3
         DEF Next, KeysChange, Refresh, ListUpstream, NoteUnmatched, FinishRefresh,
             Serve, List, FastPath, AuthorizeMiss, ReturnError, ReturnList,
             FinishAuthorize, ForwardSign, Ask
  <1> QED BY <1>1, Invariance, PTL DEF Spec, SnapshotAdvances

-----------------------------------------------------------------------------
\* The initial state shows an empty view and no requests.
LEMMA SocketInitially == Init => Socket!Init
  <1> SUFFICES ASSUME Init PROVE Socket!Init
    OBVIOUS
  <1>1. \A c \in Client : pc[c] = "idle" /\ wants[c] = None
    BY ProcAssumption DEF Init, Proc
  <1>2. LetThrough = {} /\ NotAtOnce = {} /\ ClientAsked = [c \in Client |-> None]
    BY <1>1 DEF LetThrough, NotAtOnce, ClientAsked
  <1> QED BY <1>2 DEF Init, Socket!Init

\* Every step of the group is a step of the view its socket shows, or leaves
\* that view alone.
LEMMA SocketStep == IInv /\ [Next]_vars => [Socket!Next]_Socket!vars
  <1> SUFFICES ASSUME IInv, [Next]_vars PROVE [Socket!Next]_Socket!vars
    OBVIOUS
  <1> DEFINE same == LetThrough' = LetThrough /\ NotAtOnce' = NotAtOnce
  <1> USE DEF Proc
  <1>0. /\ pc = [p \in Proc |-> pc[p]] /\ wants \in [Proc -> Blob \cup {Listing, None}]
        /\ reply = [c \in Client |-> reply[c]]
        /\ \A c \in Client : wants[c] = None <=> pc[c] = "idle"
        /\ None \notin Blob /\ Listing \notin Blob /\ None # Listing
    <2>1. /\ pc = [p \in Proc |-> pc[p]] /\ reply = [c \in Client |-> reply[c]]
          /\ wants \in [Proc -> Blob \cup {Listing, None}]
      BY DEF IInv, TypeOK
    <2> QED BY <2>1, RequestAssumption DEF IInv, Requests
  <1>1. ASSUME UNCHANGED <<snapshot, shown, wants, reply>>, same
        PROVE  [Socket!Next]_Socket!vars
    BY <1>1 DEF Socket!vars, ClientAsked
  <1>2. ASSUME KeysChange PROVE [Socket!Next]_Socket!vars
    BY <1>2, <1>1 DEF KeysChange, LetThrough, NotAtOnce
  <1>3. ASSUME NEW p \in Proc, ListUpstream(p) PROVE [Socket!Next]_Socket!vars
    <2>1. same
      BY <1>3, <1>0 DEF ListUpstream, LetThrough, NotAtOnce
    <2> QED BY <2>1, <1>1, <1>3 DEF ListUpstream
  <1>4. ASSUME NEW p \in Proc, StoreSnapshot(p) PROVE [Socket!Next]_Socket!vars
    <2>1. same
      BY <1>4, <1>0 DEF StoreSnapshot, LetThrough, NotAtOnce
    <2>2. outcome[p] \in Epoch /\ outcome[p] >= snapshot
      BY <1>4, EpochAssumption DEF StoreSnapshot, IInv, TypeOK, Answers, Epoch
    <2>3. Socket!Publish(outcome[p])
      BY <1>4, <2>1, <2>2 DEF StoreSnapshot, Socket!Publish, ClientAsked
    <2> QED BY <2>2, <2>3 DEF Socket!Next
  <1>5. ASSUME NEW p \in Proc, NoteUnmatched(p) PROVE [Socket!Next]_Socket!vars
    <2>1. same
      BY <1>5, <1>0 DEF NoteUnmatched, LetThrough, NotAtOnce
    <2> QED BY <2>1, <1>1, <1>5 DEF NoteUnmatched
  <1>6. ASSUME NEW p \in Proc, FinishRefresh(p) PROVE [Socket!Next]_Socket!vars
    <2>1. \A c \in Client : joined[c] = p => pc[c] \notin {"forward", "idle", "asked"}
      BY <1>6, ProcAssumption DEF IInv, Participants, Refreshing
    <2>2. \A c \in Client : pc'[c] = IF joined[c] # p THEN pc[c] ELSE "woken"
      BY <1>6, ProcAssumption DEF FinishRefresh
    <2>3. same
      BY <1>6, <2>1, <2>2 DEF FinishRefresh, LetThrough, NotAtOnce
    <2> QED BY <2>3, <1>1, <1>6 DEF FinishRefresh
  <1>7. ASSUME NEW c \in Client, List(c) PROVE [Socket!Next]_Socket!vars
    <2>1. wants[c] \notin Blob /\ UNCHANGED <<snapshot, shown, wants, reply>>
      BY <1>7, <1>0 DEF List
    <2>2. PICK x \in {"listing", "waiting"} : pc' = [pc EXCEPT ![c] = x]
      BY <1>7 DEF List, JoinRefresh
    <2>3. same
      BY <1>0, <1>7, <2>1, <2>2 DEF List, LetThrough, NotAtOnce
    <2> QED BY <2>1, <2>3, <1>1
  <1>8. ASSUME NEW c \in Client, wants[c] \in Allowed[snapshot],
               pc' = [pc EXCEPT ![c] = "forward"],
               UNCHANGED <<snapshot, shown, wants, reply>>
        PROVE  [Socket!Next]_Socket!vars
    <2>1. LetThrough' = LetThrough \cup {c} /\ NotAtOnce' = NotAtOnce \ {c}
      BY <1>0, <1>8 DEF LetThrough, NotAtOnce
    <2>2. Socket!Grant(c)
      BY <1>8, <2>1 DEF Socket!Grant, ClientAsked
    <2> QED BY <2>2 DEF Socket!Next
  <1>9. ASSUME NEW c \in Client, FastPath(c) PROVE [Socket!Next]_Socket!vars
    <2>1. UNCHANGED <<snapshot, shown, wants, reply>>
      BY <1>9 DEF FastPath
    <2>2. CASE wants[c] \in Allowed[snapshot]
      BY <1>8, <1>9, <2>1, <2>2 DEF FastPath
    <2>3. CASE wants[c] \notin Allowed[snapshot]
      <3>1. pc[c] = "asked" /\ wants[c] \in Blob /\ pc' = [pc EXCEPT ![c] = "missed"]
        BY <1>9, <2>3 DEF FastPath
      <3>2. /\ LetThrough' = LetThrough /\ c \notin LetThrough
            /\ NotAtOnce' = NotAtOnce \cup {c}
        BY <1>0, <2>1, <3>1 DEF LetThrough, NotAtOnce
      <3>3. Socket!Miss(c)
        BY <2>1, <2>3, <3>1, <3>2 DEF Socket!Miss, ClientAsked
      <3> QED BY <3>3 DEF Socket!Next
    <2> QED BY <2>2, <2>3
  <1>10. ASSUME NEW c \in Client, AuthorizeMiss(c) PROVE [Socket!Next]_Socket!vars
    <2>1. pc[c] = "missed" /\ UNCHANGED <<snapshot, shown, wants, reply>>
      BY <1>10 DEF AuthorizeMiss
    <2>2. CASE wants[c] \in Allowed[snapshot]
      BY <1>8, <1>10, <2>1, <2>2 DEF AuthorizeMiss
    <2>3. CASE wants[c] \notin Allowed[snapshot]
      <3>1. PICK x \in {"listing", "waiting"} : pc' = [pc EXCEPT ![c] = x]
        BY <1>10, <2>3 DEF AuthorizeMiss, JoinRefresh
      <3>2. same
        BY <1>0, <2>1, <3>1 DEF LetThrough, NotAtOnce
      <3> QED BY <2>1, <3>2, <1>1
    <2> QED BY <2>2, <2>3
  <1>11. ASSUME NEW c \in Client, NEW what, Reply(c, what), UNCHANGED snapshot,
                pc[c] # "idle"
         PROVE  /\ ClientAsked' = [ClientAsked EXCEPT ![c] = None]
                /\ LetThrough' = LetThrough \ {c}
                /\ NotAtOnce' = NotAtOnce \ {c}
                /\ reply' = [reply EXCEPT ![c] = what]
    BY <1>0, <1>11 DEF Reply, ClientAsked, LetThrough, NotAtOnce
  <1>12. ASSUME NEW c \in Client, ReturnError(c) PROVE [Socket!Next]_Socket!vars
    <2>1. pc[c] = "woken" /\ Reply(c, "failed") /\ UNCHANGED <<snapshot, shown>>
      BY <1>12 DEF ReturnError
    <2>2. wants[c] = Listing \/ c \in NotAtOnce
      BY <1>0, <2>1 DEF NotAtOnce
    <2>3. Socket!Fail(c)
      BY <1>11, <2>1, <2>2 DEF Socket!Fail, Socket!Tell, ClientAsked
    <2> QED BY <2>3 DEF Socket!Next
  <1>13. ASSUME NEW c \in Client, ReturnList(c) PROVE [Socket!Next]_Socket!vars
    <2>1. PICK v \in Epoch : v = outcome[c]
      BY DEF IInv, TypeOK
    <2>2. v >= shown[c] /\ v <= snapshot
      BY <1>13, <2>1, EpochAssumption
         DEF ReturnList, IInv, TypeOK, Shown, FreshAnswers, Epoch
    <2>3. /\ pc[c] = "woken" /\ wants[c] = Listing /\ v # 0 /\ Reply(c, "listed")
          /\ shown' = [shown EXCEPT ![c] = v] /\ UNCHANGED snapshot
      BY <1>13, <2>1 DEF ReturnList
    <2>4. Socket!Show(c, v)
      BY <1>11, <2>2, <2>3 DEF Socket!Show, Socket!Tell, ClientAsked
    <2> QED BY <2>4 DEF Socket!Next
  <1>14. ASSUME NEW c \in Client, FinishAuthorize(c)
         PROVE  [Socket!Next]_Socket!vars
    <2>1. pc[c] = "woken" /\ wants[c] \in Blob /\ UNCHANGED <<snapshot, shown>>
      BY <1>14 DEF FinishAuthorize
    <2>2. CASE wants[c] \in Allowed[snapshot]
      BY <1>8, <1>14, <2>1, <2>2 DEF FinishAuthorize
    <2>3. CASE wants[c] \notin Allowed[snapshot]
      <3>1. snapshot # 0
        BY <1>14, EpochAssumption
           DEF FinishAuthorize, IInv, TypeOK, FreshAnswers, Epoch
      <3>2. Reply(c, "refused")
        BY <1>14, <2>3 DEF FinishAuthorize
      <3>3. c \in NotAtOnce
        BY <2>1 DEF NotAtOnce
      <3>4. Socket!Refuse(c)
        BY <1>11, <2>1, <2>3, <3>1, <3>2, <3>3 DEF Socket!Refuse, Socket!Tell, ClientAsked
      <3> QED BY <3>4 DEF Socket!Next
    <2> QED BY <2>2, <2>3
  <1>15. ASSUME NEW c \in Client, ForwardSign(c) PROVE [Socket!Next]_Socket!vars
    <2>1. pc[c] = "forward" /\ c \in LetThrough /\ UNCHANGED <<snapshot, shown>>
      BY <1>15 DEF ForwardSign, LetThrough
    <2>2. CASE Reply(c, "signed")
      <3>1. Socket!Sign(c)
        BY <1>11, <2>1, <2>2 DEF Socket!Sign, Socket!Tell
      <3> QED BY <3>1 DEF Socket!Next
    <2>3. CASE Reply(c, "failed")
      <3>1. Socket!Fail(c)
        BY <1>11, <2>1, <2>3 DEF Socket!Fail, Socket!Tell
      <3> QED BY <3>1 DEF Socket!Next
    <2> QED BY <1>15, <2>2, <2>3 DEF ForwardSign
  <1>16. ASSUME NEW c \in Client, NEW what \in Blob \cup {Listing}, Ask(c, what)
         PROVE  [Socket!Next]_Socket!vars
    <2>1. /\ pc[c] = "idle" /\ wants[c] = None
          /\ pc' = [pc EXCEPT ![c] = "asked"] /\ wants' = [wants EXCEPT ![c] = what]
          /\ reply' = [reply EXCEPT ![c] = "none"] /\ UNCHANGED <<snapshot, shown>>
      BY <1>0, <1>16 DEF Ask
    <2>2. same /\ ClientAsked' = [ClientAsked EXCEPT ![c] = what]
      BY <1>0, <2>1 DEF LetThrough, NotAtOnce, ClientAsked
    <2>3. Socket!Ask(c, what)
      BY <2>1, <2>2 DEF Socket!Ask, ClientAsked
    <2> QED BY <2>3 DEF Socket!Next
  <1>17. CASE UNCHANGED vars
    BY <1>17, <1>1 DEF vars, LetThrough, NotAtOnce
  <1> QED
    BY <1>2, <1>3, <1>4, <1>5, <1>6, <1>7, <1>9, <1>10, <1>12, <1>13, <1>14,
       <1>15, <1>16, <1>17 DEF Next, Refresh, Serve

\* A group socket keeps the promise FilteredView states.
THEOREM Implementation == Spec => ImplementsView
  BY SocketInitially, SocketStep, Invariance, PTL DEF Spec, ImplementsView, Socket!Spec

-----------------------------------------------------------------------------
(***************************************************************************)
(* Resolve, loop by loop: what a group sees of a listing, Visible and      *)
(* Missing above, is what its loops compute.                               *)
(***************************************************************************)
\* The selected places the loops have passed.
Position == <<atMatcher, atKey>>
Met      == {p \in Selected : Before(p, Position)}
FirstMet == First \cap Met

ResolveTyped ==
  /\ upstreamKeys \in Seq(AgentKey) /\ matchers \in Seq(KeyMatcher)
  /\ atMatcher \in 1 .. Len(matchers) + 1 /\ atKey \in 1 .. Len(upstreamKeys) + 1
  /\ out \in Seq(AgentKey)
  /\ matchCounts \in [DOMAIN matchers -> Nat]

\* seen has the blobs met, and those put out.
SeenMet ==
  /\ seen = {KeyAt(p).blob : p \in Met}
  /\ seen = {out[n].blob : n \in DOMAIN out}

\* The keys put out are those at the first places met, in order.
Puts(place, first) ==
  /\ place \in [DOMAIN out -> first]
  /\ first = {place[n] : n \in DOMAIN out}
  /\ \A n \in DOMAIN out : out[n] = KeyAt(place[n])
  /\ \A m, n \in DOMAIN out : m < n => Before(place[m], place[n])
PutOut == \E place : Puts(place, FirstMet)

\* A selector has the count 0 while it has selected nothing.
Counted ==
  \A n \in DOMAIN matchers : matchCounts[n] = 0 <=> \A p \in Met : p[1] # n

ResolveInv == ResolveTyped /\ SeenMet /\ PutOut /\ Counted

\* A place is a pair of numbers.
LEMMA PlaceNumbers ==
  ASSUME ResolveTyped, NEW p \in Place
  PROVE  /\ p[1] \in 1 .. Len(matchers) /\ p[2] \in 1 .. Len(upstreamKeys)
         /\ p = <<p[1], p[2]>>
         /\ matchers[p[1]] \in KeyMatcher /\ KeyAt(p) \in AgentKey
  BY DEF ResolveTyped, Place, KeyAt

LEMMA ResolveInitially ==
  ASSUME MaxKeys \in Nat, MaxMatchers \in Nat, KeyInputs, Begin
  PROVE  ResolveInv
  <1>1. ResolveTyped
    <2>1. PICK m \in 0 .. MaxKeys : upstreamKeys \in [1 .. m -> AgentKey]
      BY DEF KeyInputs, UpTo
    <2>2. PICK n \in 0 .. MaxMatchers : matchers \in [1 .. n -> KeyMatcher]
      BY DEF KeyInputs, UpTo
    <2>3. upstreamKeys \in Seq(AgentKey) /\ matchers \in Seq(KeyMatcher)
      BY <2>1, <2>2
    <2> QED BY <2>3 DEF Begin, ResolveTyped
  <1>2. Met = {}
    <2> SUFFICES ASSUME NEW p \in Place, Before(p, Position) PROVE FALSE
      BY DEF Met, Selected
    <2> QED BY <1>1, PlaceNumbers DEF Before, Position, Begin
  <1>3. SeenMet
    BY <1>2 DEF SeenMet, Begin
  <1>4. PutOut
    <2>1. Puts(<<>>, FirstMet)
      BY <1>2 DEF Puts, FirstMet, Begin
    <2> QED BY <2>1 DEF PutOut
  <1>5. Counted
    BY <1>2 DEF Counted, Begin
  <1> QED BY <1>1, <1>3, <1>4, <1>5 DEF ResolveInv

\* The arguments do not change, and with them the places.
LEMMA PlacesStay ==
  ASSUME UNCHANGED inputs
  PROVE  /\ Place' = Place
         /\ Selected' = Selected
         /\ First' = First
         /\ \A p : KeyAt(p)' = KeyAt(p)
  BY DEF inputs, Place, Selected, First, KeyAt, Matches,
         Before

\* One turn of the inner loop passes one place.
LEMMA TurnPasses ==
  ASSUME ResolveTyped, Looking, UNCHANGED inputs,
         atKey' = atKey + 1, atMatcher' = atMatcher
  PROVE  /\ Position \in Place
         /\ Position \notin Met
         /\ Met' = IF Position \in Selected THEN Met \cup {Position} ELSE Met
  <1>1. Position \in Place
    BY DEF Place, Position, Looking
  <1>2. Position \notin Met
    BY DEF Met, Before, Position, ResolveTyped
  <1>3. ASSUME NEW p \in Place
        PROVE  Before(p, Position') <=> Before(p, Position) \/ p = Position
    BY <1>3, PlaceNumbers DEF Before, Position, ResolveTyped
  <1>4. Met' = {p \in Selected : Before(p, Position')}
    BY PlacesStay DEF Met, Before
  <1> QED BY <1>1, <1>2, <1>3, <1>4 DEF Met, Selected

\* The invariant needs the places met, and the results, to be kept.
LEMMA ResolveKept ==
  ASSUME ResolveInv, ResolveTyped', UNCHANGED inputs, Met' = Met,
         UNCHANGED <<out, seen, matchCounts>>
  PROVE  ResolveInv'
  <1>1. FirstMet' = FirstMet
    BY PlacesStay DEF FirstMet
  <1>2. \A p : KeyAt(p)' = KeyAt(p)
    BY PlacesStay
  <1>3. SeenMet'
    BY <1>2 DEF SeenMet, ResolveInv
  <1>4. PutOut'
    <2>1. PICK place : Puts(place, FirstMet)
      BY DEF ResolveInv, PutOut
    <2>2. Puts(place, FirstMet)'
      BY <2>1, <1>1, <1>2 DEF Puts, Before
    <2> QED BY <2>2 DEF PutOut
  <1>5. Counted'
    BY DEF Counted, ResolveInv, inputs
  <1> QED BY <1>3, <1>4, <1>5 DEF ResolveInv

LEMMA SkipKeeps == ResolveInv /\ Skip => ResolveInv'
  <1> SUFFICES ASSUME ResolveInv, Skip PROVE ResolveInv'
    OBVIOUS
  <1>1. UNCHANGED inputs
    BY DEF Skip
  <1>2. ResolveTyped'
    BY DEF Skip, Looking, inputs, ResolveInv, ResolveTyped
  <1>3. Position \notin Selected
    BY DEF Skip, Selected, ThisMatcher, ThisKey, KeyAt, Position
  <1>4. Met' = Met
    BY <1>1, <1>3, TurnPasses DEF Skip, ResolveInv
  <1> QED BY <1>1, <1>2, <1>4, ResolveKept DEF Skip

LEMMA NextMatcherKeeps == ResolveInv /\ NextMatcher => ResolveInv'
  <1> SUFFICES ASSUME ResolveInv, NextMatcher PROVE ResolveInv'
    OBVIOUS
  <1>1. UNCHANGED inputs
    BY DEF NextMatcher, inputs
  <1>2. ResolveTyped'
    BY DEF NextMatcher, inputs, ResolveInv, ResolveTyped
  <1>3. ASSUME NEW p \in Place
        PROVE  Before(p, Position') <=> Before(p, Position)
    BY <1>3, PlaceNumbers
       DEF Before, Position, ResolveInv, ResolveTyped, NextMatcher
  <1>4. Met' = {p \in Selected : Before(p, Position')}
    BY <1>1, PlacesStay DEF Met, Before
  <1>5. Met' = Met
    BY <1>3, <1>4 DEF Met, Selected
  <1> QED BY <1>1, <1>2, <1>5, ResolveKept DEF NextMatcher

\* A key that a selector selects is put out when its blob is met first.
LEMMA SelectKeeps == ResolveInv /\ Select => ResolveInv'
  <1> SUFFICES ASSUME ResolveInv, Select PROVE ResolveInv'
    OBVIOUS
  <1> DEFINE key == ThisKey
  <1>1. UNCHANGED inputs /\ ResolveTyped
    BY DEF Select, ResolveInv
  <1>2. /\ Position \in Selected /\ Position \notin Met
        /\ Met' = Met \cup {Position}
    <2>1. Position \in Place /\ Position \notin Met
      BY <1>1, TurnPasses DEF Select
    <2>2. Position \in Selected
      BY <2>1 DEF Select, Selected, ThisMatcher, ThisKey, KeyAt, Position
    <2> QED BY <1>1, <2>1, <2>2, TurnPasses DEF Select
  <1>3. /\ key = KeyAt(Position) /\ key \in AgentKey
        /\ Position \in Place
    BY <1>1, <1>2, PlaceNumbers DEF ThisKey, KeyAt, Position, Selected
  <1>4. \A p : KeyAt(p)' = KeyAt(p)
    BY <1>1, PlacesStay
  <1>5. ResolveTyped'
    <2>1. out' \in Seq(AgentKey)
      <3>1. out \in Seq(AgentKey)
        BY <1>1 DEF ResolveTyped
      <3>2. Append(out, key) \in Seq(AgentKey)
        BY <3>1, <1>3
      <3>3. out' = Append(out, key) \/ out' = out
        BY DEF Select
      <3> QED BY <3>1, <3>2, <3>3
    <2>2. matchCounts' \in [DOMAIN matchers' -> Nat]
      BY DEF Select, Looking, inputs, ResolveInv, ResolveTyped
    <2>3. atMatcher' \in 1 .. Len(matchers') + 1 /\ atKey' \in 1 .. Len(upstreamKeys') + 1
      BY <1>1 DEF Select, Looking, inputs, ResolveTyped
    <2>4. upstreamKeys' \in Seq(AgentKey) /\ matchers' \in Seq(KeyMatcher)
      BY <1>1 DEF inputs, ResolveTyped
    <2> QED BY <2>1, <2>2, <2>3, <2>4 DEF ResolveTyped
  <1>6. Counted'
    <2> SUFFICES ASSUME NEW n \in DOMAIN matchers
                 PROVE  matchCounts'[n] = 0 <=> \A p \in Met' : p[1] # n
      BY <1>1 DEF Counted, inputs
    <2>1. matchCounts[n] \in Nat /\ (matchCounts[n] = 0 <=> \A p \in Met : p[1] # n)
      BY DEF ResolveInv, ResolveTyped, Counted
    <2>2. matchCounts'[n] = IF n = atMatcher THEN matchCounts[n] + 1 ELSE matchCounts[n]
      BY DEF Select, ResolveInv, ResolveTyped
    <2>3. Position[1] = atMatcher
      BY DEF Position
    <2> QED BY <1>2, <2>1, <2>2, <2>3
  <1>7. CASE key.blob \in seen /\ UNCHANGED <<out, seen>>
    <2>1. PICK q \in Met : KeyAt(q).blob = key.blob
      BY <1>7 DEF ResolveInv, SeenMet
    <2>2. q \in Selected /\ Before(q, Position)
      BY DEF Met
    <2>3. Position \notin First
      BY <1>3, <2>1, <2>2 DEF First
    <2>4. FirstMet' = FirstMet
      BY <1>1, <1>2, <2>3, PlacesStay DEF FirstMet
    <2>5. PutOut'
      <3>1. PICK place : Puts(place, FirstMet)
        BY DEF ResolveInv, PutOut
      <3>2. Puts(place, FirstMet)'
        BY <3>1, <2>4, <1>4, <1>7 DEF Puts, Before
      <3> QED BY <3>2 DEF PutOut
    <2>6. SeenMet'
      BY <1>2, <1>3, <1>4, <1>7, <2>1 DEF SeenMet, ResolveInv
    <2> QED BY <1>5, <1>6, <2>5, <2>6 DEF ResolveInv
  <1>8. CASE key.blob \notin seen /\ out' = Append(out, key) /\ seen' = seen \cup {key.blob}
    <2> DEFINE last == Len(out) + 1
    <2>1. /\ DOMAIN out = 1 .. Len(out) /\ DOMAIN out' = 1 .. last /\ Len(out) \in Nat
          /\ out'[last] = key
          /\ \A n \in DOMAIN out : out'[n] = out[n]
      BY <1>3, <1>8 DEF ResolveInv, ResolveTyped
    <2>2. Position \in First
      <3> SUFFICES ASSUME NEW q \in Selected, Before(q, Position),
                          KeyAt(q).blob = key.blob
                   PROVE  FALSE
        BY <1>2, <1>3 DEF First
      <3>1. q \in Met
        BY DEF Met
      <3> QED BY <1>8, <3>1 DEF ResolveInv, SeenMet
    <2>3. FirstMet' = FirstMet \cup {Position}
      BY <1>1, <1>2, <2>2, PlacesStay DEF FirstMet
    <2>4. PutOut'
      <3>1. PICK place : Puts(place, FirstMet)
        BY DEF ResolveInv, PutOut
      <3>2. PICK more : more = [n \in 1 .. last |-> IF n = last THEN Position ELSE place[n]]
        OBVIOUS
      <3>3. /\ more[last] = Position
            /\ \A n \in DOMAIN out : more[n] = place[n] /\ place[n] \in FirstMet
        BY <2>1, <3>1, <3>2 DEF Puts
      <3>4. more \in [1 .. last -> FirstMet']
        BY <2>1, <2>3, <3>2, <3>3
      <3>5. \A p \in FirstMet : \E n \in DOMAIN out : p = place[n]
        BY <3>1 DEF Puts
      <3>6. FirstMet' = {more[n] : n \in 1 .. last}
        <4>1. ASSUME NEW p \in FirstMet' PROVE \E n \in 1 .. last : p = more[n]
          BY <4>1, <2>1, <2>3, <3>3, <3>5
        <4> QED BY <4>1, <3>4
      <3>7. ASSUME NEW n \in 1 .. last PROVE out'[n] = KeyAt(more[n])'
        <4>1. CASE n = last
          BY <4>1, <2>1, <3>3, <1>3, <1>4
        <4>2. CASE n # last
          <5>1. n \in DOMAIN out /\ out[n] = KeyAt(place[n])
            BY <4>2, <2>1, <3>1 DEF Puts
          <5> QED BY <5>1, <2>1, <3>3, <1>4
        <4> QED BY <4>1, <4>2
      <3>8. ASSUME NEW m \in 1 .. last, NEW n \in 1 .. last, m < n
            PROVE  Before(more[m], more[n])
        <4>1. m \in DOMAIN out /\ more[m] \in FirstMet /\ more[m] = place[m]
          BY <2>1, <3>3, <3>8
        <4>2. CASE n = last
          BY <4>1, <4>2, <3>3 DEF FirstMet, Met
        <4>3. CASE n # last
          <5>1. n \in DOMAIN out
            BY <4>3, <2>1
          <5>2. \A i, j \in DOMAIN out : i < j => Before(place[i], place[j])
            BY <3>1 DEF Puts
          <5>3. Before(place[m], place[n])
            BY <5>1, <5>2, <4>1, <3>8
          <5> QED BY <5>1, <5>3, <4>1, <3>3
        <4> QED BY <4>2, <4>3
      <3>9. \A p, q : Before(p, q)' <=> Before(p, q)
        BY DEF Before
      <3>10. \A n \in DOMAIN out' : out'[n] = KeyAt(more[n])'
        BY <2>1, <3>7
      <3>11. \A m, n \in DOMAIN out' : m < n => Before(more[m], more[n])'
        BY <2>1, <3>8, <3>9
      <3>12. Puts(more, FirstMet)'
        BY <2>1, <3>4, <3>6, <3>10, <3>11 DEF Puts
      <3> QED BY <3>12 DEF PutOut
    <2>5. SeenMet'
      <3>1. seen' = {KeyAt(p).blob : p \in Met}'
        BY <1>2, <1>3, <1>4, <1>8 DEF SeenMet, ResolveInv
      <3>2. seen' = {out'[n].blob : n \in DOMAIN out'}
        BY <1>8, <2>1 DEF SeenMet, ResolveInv
      <3> QED BY <3>1, <3>2 DEF SeenMet
    <2> QED BY <1>5, <1>6, <2>4, <2>5 DEF ResolveInv
  <1> QED BY <1>7, <1>8 DEF Select

\* What the loops keep.
LEMMA ResolveInvariance == ResolveSpec => []ResolveInv
  <1>1. ResolveInv /\ UNCHANGED resolveVars => ResolveInv'
    <2> SUFFICES ASSUME ResolveInv, UNCHANGED resolveVars PROVE ResolveInv'
      OBVIOUS
    <2>1. UNCHANGED inputs
      BY DEF resolveVars
    <2>2. ResolveTyped' /\ Position' = Position /\ UNCHANGED <<out, seen, matchCounts>>
      BY DEF resolveVars, inputs, ResolveInv, ResolveTyped, Position
    <2>3. Met' = Met
      BY <2>1, <2>2, PlacesStay DEF Met, Before
    <2> QED BY <2>1, <2>2, <2>3, ResolveKept
  <1>2. ResolveInv /\ [Resolve]_resolveVars => ResolveInv'
    BY <1>1, SkipKeeps, SelectKeeps, NextMatcherKeeps DEF Resolve
  <1>3. KeyInputs /\ Begin => ResolveInv
    BY LengthAssumption, ResolveInitially
  <1> QED BY <1>2, <1>3, PTL DEF ResolveSpec

\* Every selected place has been met when Resolve returns.
LEMMA AllMet ==
  ASSUME ResolveInv, Returned
  PROVE  Met = Selected
  <1>1. atMatcher = Len(matchers) + 1
    BY DEF Returned, ResolveInv, ResolveTyped
  <1>2. ASSUME NEW p \in Place PROVE Before(p, Position)
    BY <1>1, PlaceNumbers DEF Before, Position, ResolveInv, ResolveTyped
  <1> QED BY <1>2 DEF Met, Selected

\* keys.Resolve puts out the selected keys in the order of the configuration, those
\* of one selector in the upstream's, and one selected twice at its earliest place,
\* for any selectors and any list of keys, one blob listed twice among them.
THEOREM ResolvesInOrder == ResolveSpec => []ConfiguredOrder
  <1>1. ResolveInv => ConfiguredOrder
    <2> SUFFICES ASSUME ResolveInv, Returned
                 PROVE  \E place : Puts(place, First)
      BY DEF ConfiguredOrder, Puts
    <2>1. FirstMet = First
      BY AllMet DEF FirstMet, First
    <2> QED BY <2>1 DEF ResolveInv, PutOut
  <1> QED BY <1>1, ResolveInvariance, PTL

\* The authorization's view of keys and selectors is that of one call of Resolve.
SameSelectors ==
  /\ Blob = KeyBlob /\ Key = AgentKey
  /\ BlobOf = [k \in Key |-> k.blob]
  /\ Matcher = {matchers[n] : n \in DOMAIN matchers}
  /\ Selects = [m \in Matcher |-> {k \in Key : Matches(m, k)}]

ListedKeys == {upstreamKeys[n] : n \in DOMAIN upstreamKeys}

\* What authorization.go takes from Resolve's results: the blobs to allow and the
\* selectors that matched nothing.
ResolvesView ==
  SameSelectors /\ Returned =>
    /\ {out[n].blob : n \in DOMAIN out} = Visible(ListedKeys)
    /\ {matchers[n] : n \in {i \in DOMAIN matchers : matchCounts[i] = 0}} = Missing(ListedKeys)

\* What a snapshot allows, and the selectors reported as unmatched, are what
\* Resolve's loops compute of the listing.
THEOREM ViewIsResolved == ResolveSpec => []ResolvesView
  <1>1. ResolveInv => ResolvesView
    <2> SUFFICES ASSUME ResolveInv, SameSelectors, Returned
                 PROVE  ResolvesView
      BY DEF ResolvesView
    <2>1. Met = Selected
      BY AllMet
    <2>2. ListedKeys \subseteq Key
      BY DEF ListedKeys, SameSelectors, ResolveInv, ResolveTyped
    <2>3. ASSUME NEW m \in DOMAIN matchers, NEW k \in DOMAIN upstreamKeys
          PROVE  /\ <<m, k>> \in Selected <=> upstreamKeys[k] \in Selects[matchers[m]]
                 /\ KeyAt(<<m, k>>).blob = BlobOf[upstreamKeys[k]]
      BY <2>2, <2>3 DEF ListedKeys, SameSelectors, Selected, Place, KeyAt
    <2>4. {KeyAt(p).blob : p \in Selected} = Visible(ListedKeys)
      <3>1. ASSUME NEW p \in Selected PROVE KeyAt(p).blob \in Visible(ListedKeys)
        <4>1. PICK m \in DOMAIN matchers, k \in DOMAIN upstreamKeys : p = <<m, k>>
          BY DEF Selected, Place
        <4>2. upstreamKeys[k] \in ListedKeys /\ matchers[m] \in Matcher
          BY DEF ListedKeys, SameSelectors
        <4>3. upstreamKeys[k] \in Selects[matchers[m]]
          BY <4>1, <2>3
        <4>4. KeyAt(p).blob = BlobOf[upstreamKeys[k]]
          BY <4>1, <2>3
        <4> QED BY <4>2, <4>3, <4>4 DEF Visible
      <3>2. ASSUME NEW b \in Visible(ListedKeys)
            PROVE  \E p \in Selected : KeyAt(p).blob = b
        <4>1. PICK k \in DOMAIN upstreamKeys, m \in DOMAIN matchers :
                upstreamKeys[k] \in Selects[matchers[m]] /\ b = BlobOf[upstreamKeys[k]]
          BY DEF Visible, ListedKeys, SameSelectors
        <4> QED BY <4>1, <2>3
      <3> QED BY <3>1, <3>2
    <2>5. ASSUME NEW m \in DOMAIN matchers
          PROVE  matchCounts[m] = 0 <=> ListedKeys \cap Selects[matchers[m]] = {}
      <3>1. matchCounts[m] = 0 <=> \A p \in Selected : p[1] # m
        BY <2>1 DEF ResolveInv, Counted
      <3>2. (\A p \in Selected : p[1] # m)
              <=> \A k \in DOMAIN upstreamKeys : <<m, k>> \notin Selected
        BY DEF Selected, Place
      <3>3. ListedKeys \cap Selects[matchers[m]] = {}
              <=> \A k \in DOMAIN upstreamKeys : upstreamKeys[k] \notin Selects[matchers[m]]
        BY DEF ListedKeys
      <3> QED BY <3>1, <3>2, <3>3, <2>3
    <2>6. {matchers[n] : n \in {i \in DOMAIN matchers : matchCounts[i] = 0}}
            = Missing(ListedKeys)
      BY <2>5 DEF Missing, SameSelectors
    <2> QED BY <2>1, <2>4, <2>6 DEF ResolvesView, ResolveInv, SeenMet
  <1> QED BY <1>1, ResolveInvariance, PTL

=============================================================================
