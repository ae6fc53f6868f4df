------------------------ MODULE SocketOwnership_proofs ------------------------
(***************************************************************************)
(* Proofs about SocketOwnership, for any number of processes, any socket   *)
(* paths in any order, and any number of crashes and strangers.            *)
(***************************************************************************)
EXTENDS SocketOwnership, Configuration, FiniteSetTheorems, FunctionTheorems, TLAPS

\* The stages in which a process has all its locks; those in which it binds.
Working == {"look", "probe", "recheck", "unlink", "bind", "listen", "identify"}
Settled == Working \cup {"serving", "close", "inspect", "remove"}

\* There is one file to a lock path, and one process that has it locked.
Locks ==
  /\ \A l \in locks : l[2] \in PathsOf(l[1]) /\ l[3] = lockFile[l[2]]
  /\ \A l, m \in locks : l[2] = m[2] => l = m
  /\ \A p \in Proc : pc[p] = "flock" => opened[p] # 0 /\ opened[p] = lockFile[NextLock(p)]

\* What a process has at each stage.
Stage(p) ==
  /\ pc[p] = "off" => Held(p) = {}
  /\ pc[p] \in {"open", "flock"} => PathsOf(p) \ Held(p) # {}
  /\ pc[p] \in Settled => PathsOf(p) \subseteq Held(p)
  /\ pc[p] \in {"off", "open", "flock", "unlock"} => listeners[p] = <<>>
  /\ pc[p] \in Working => Len(listeners[p]) < Len(Sockets[p])
  /\ pc[p] \in {"inspect", "remove"} =>
       listeners[p] # <<>> /\ Head(listeners[p]).inode \notin live
  /\ pc[p] \in {"listen", "identify"} <=> bound[p] # 0

\* A socket that accepts is one its process knows it has.
Own(p) ==
  /\ bound[p] # 0 => bound[p] <= made /\ maker[bound[p]] = p
  /\ \A i \in DOMAIN listeners[p] :
       /\ listeners[p][i].inode <= made /\ maker[listeners[p][i].inode] = p
       /\ listeners[p][i].path \in PathsOf(p)
  /\ \A k \in live : maker[k] = p =>
       bound[p] = k \/ \E i \in DOMAIN listeners[p] : listeners[p][i].inode = k

\* Inodes are given out in order.
Numbered ==
  /\ \A k \in live : k <= made /\ maker[k] # None
  /\ \A x \in Path : node[x] <= made

\* Path x leads to inode k or to a stranger's socket.
Leads(x, k) == node[x] = k \/ (node[x] # 0 /\ maker[node[x]] = Foreign)

\* Until it stops, a process finds its sockets where it has put them.
Reachable(p) ==
  /\ pc[p] \in {"listen", "identify"} => Leads(Here(p), bound[p])
  /\ pc[p] \in Working \cup {"serving"} => \A i \in DOMAIN listeners[p] :
       /\ listeners[p][i].path = Sockets[p][i]
       /\ Leads(Sockets[p][i], listeners[p][i].inode)

\* A socket file stays where it has been made.
Placed(p) ==
  \A x \in Path :
    /\ bound[p] # 0 /\ node[x] = bound[p] => x = Here(p)
    /\ \A i \in DOMAIN listeners[p] :
         node[x] = listeners[p][i].inode => x = listeners[p][i].path

\* The locks are taken in the order of their paths, and given up in the reverse.
InOrder(p) == \A x \in Held(p), y \in PathsOf(p) \ Held(p) : x < y

\* What a process is about to remove is a listener's own file or was found dead.
Looked(p) ==
  /\ seen[p] <= made
  /\ pc[p] = "remove" => seen[p] = First(p).identity
  /\ /\ pc[p] \in {"recheck", "unlink"}
     /\ seen[p] # 0 /\ node[Here(p)] = seen[p] /\ maker[seen[p]] = Foreign
     => seen[p] \notin live

\* Nothing changes under a process that starts alone.
Alone(p) ==
  ~disturbed[p] /\ pc[p] \in Starting =>
    /\ \A q \in Proc \ {p} : pc[q] = "off"
    /\ \A x \in PathsOf(p) : ~ForeignAt(x)
    /\ pc[p] \in {"probe", "recheck"} => seen[p] = node[Here(p)]
    /\ pc[p] = "bind" => node[Here(p)] = 0

IInv ==
  /\ TypeOK
  /\ Locks
  /\ Numbered
  /\ \A p \in Proc : /\ Stage(p) /\ Own(p) /\ Reachable(p)
                     /\ Placed(p) /\ InOrder(p) /\ Looked(p) /\ Alone(p)

-----------------------------------------------------------------------------
\* A non-empty set of numbers has a lowest.
LEMMA Lowest ==
  ASSUME NEW S \in SUBSET Nat, S # {}
  PROVE  \E x \in S : \A y \in S : x <= y
  <1>1. PICK x \in S : \A y \in S : ~ (<<y, x>> \in OpToRel(<, Nat))
    <2> HIDE DEF OpToRel
    <2> QED BY NatLessThanWellFounded, WFMin, Zenon
  <1>2. \A y \in S : ~(y < x)
    BY <1>1 DEF OpToRel
  <1> QED BY <1>2

\* NextLock is a path that is not locked yet.
LEMMA MinIsLowest ==
  ASSUME NEW S \in SUBSET Nat, S # {}
  PROVE  Min(S) \in S /\ \A y \in S : Min(S) <= y
  BY Lowest DEF Min

\* LastLock is a path that is locked.
LEMMA MaxIsHighest ==
  ASSUME NEW S \in SUBSET Nat, S # {}, IsFiniteSet(S)
  PROVE  Max(S) \in S /\ \A y \in S : y <= Max(S)
  <1> DEFINE Above(x) == {y \in S : y > x}
             Counts == {Cardinality(Above(x)) : x \in S}
  <1>1. \A x \in S : IsFiniteSet(Above(x)) /\ Cardinality(Above(x)) \in Nat
    BY FS_Subset, FS_CardinalityType
  <1>2. Counts \in SUBSET Nat /\ Counts # {}
    BY <1>1
  <1>3. PICK x \in S : \A n \in Counts : Cardinality(Above(x)) <= n
    <2>1. PICK m \in Counts : \A n \in Counts : m <= n
      <3> HIDE DEF Counts
      <3> QED BY <1>2, Lowest
    <2>2. PICK x \in S : m = Cardinality(Above(x))
      <3> HIDE DEF Above
      <3> QED OBVIOUS
    <2> QED BY <2>1, <2>2
  <1>4. \A y \in S : ~(y > x)
    <2> SUFFICES ASSUME NEW y \in S, y > x PROVE FALSE
      OBVIOUS
    <2>1. Above(y) \in SUBSET Above(x)
      <3> SUFFICES ASSUME NEW z \in Above(y) PROVE z \in Above(x)
        OBVIOUS
      <3>1. x \in Nat /\ y \in Nat /\ z \in Nat /\ z \in S /\ z > y
        OBVIOUS
      <3> QED BY <3>1
    <2>2. y \in Above(x) /\ y \notin Above(y)
      <3>1. y \in Nat
        OBVIOUS
      <3> QED BY <3>1
    <2>3. Cardinality(Above(x)) <= Cardinality(Above(y))
      BY <1>3
    <2> QED
      <3> HIDE DEF Above
      <3> QED BY <1>1, <2>1, <2>2, <2>3, FS_Subset
  <1>5. \A y \in S : x >= y
    <2>1. \A y \in S : y \in Int
      OBVIOUS
    <2> QED BY <1>4, <2>1
  <1> QED BY <1>5 DEF Max

\* The next path to lock is one of the process's, which it does not hold.
LEMMA NextLockIsFree ==
  ASSUME NEW p \in Proc, PathsOf(p) \ Held(p) # {}
  PROVE  /\ NextLock(p) \in PathsOf(p) /\ NextLock(p) \notin Held(p)
         /\ \A y \in PathsOf(p) \ Held(p) : NextLock(p) <= y
  <1>1. PathsOf(p) \ Held(p) \in SUBSET Nat
    BY PathAssumption DEF PathsOf
  <1> QED BY <1>1, MinIsLowest DEF NextLock

\* The lock that is given up is one of the process's.
LEMMA LastLockIsHeld ==
  ASSUME IInv, NEW p \in Proc, Held(p) # {}
  PROVE  /\ LastLock(p) \in locks /\ LastLock(p)[1] = p
         /\ \A x \in Held(p) : x \in Nat /\ x <= LastLock(p)[2]
  <1>1. IsFiniteSet(PathsOf(p)) /\ PathsOf(p) \in SUBSET Nat
    <2> DEFINE n == Len(Sockets[p])
    <2>1. Sockets[p] \in Seq(Nat) /\ n \in Nat /\ DOMAIN Sockets[p] = 1 .. n
      BY PathAssumption
    <2>2. IsFiniteSet(1 .. n)
      BY <2>1, FS_Interval
    <2>3. Sockets[p] \in [1 .. n -> PathsOf(p)]
      BY <2>1 DEF PathsOf
    <2>4. \A x \in PathsOf(p) : \E i \in 1 .. n : Sockets[p][i] = x
      BY <2>1 DEF PathsOf
    <2>5. Sockets[p] \in Surjection(1 .. n, PathsOf(p))
      BY <2>3, <2>4, Fun_IsSurj
    <2>6. IsFiniteSet(PathsOf(p))
      BY <2>2, <2>5, FS_Surjection
    <2> QED BY <2>1, <2>6 DEF PathsOf
  <1>2. Held(p) \in SUBSET PathsOf(p)
    BY DEF Held, IInv, Locks, TypeOK
  <1>3. Max(Held(p)) \in Held(p) /\ \A x \in Held(p) : x <= Max(Held(p))
    BY <1>1, <1>2, FS_Subset, MaxIsHighest
  <1>4. \E l \in locks : l[1] = p /\ l[2] = Max(Held(p))
    BY <1>3 DEF Held
  <1>5. LastLock(p) \in locks /\ LastLock(p)[1] = p /\ LastLock(p)[2] = Max(Held(p))
    BY <1>4 DEF LastLock
  <1> QED BY <1>1, <1>2, <1>3, <1>5

\* Two processes that have their locks have no path in common.
LEMMA Disjoint ==
  ASSUME IInv, NEW p \in Proc, NEW q \in Proc, pc[p] \in Settled, pc[q] \in Settled, p # q
  PROVE  PathsOf(p) \cap PathsOf(q) = {}
  <1> SUFFICES ASSUME NEW x \in PathsOf(p) \cap PathsOf(q)
               PROVE  FALSE
    OBVIOUS
  <1>1. x \in Held(p) /\ x \in Held(q)
    BY DEF IInv, Stage
  <1> QED BY <1>1 DEF Held, IInv, Locks

\* The socket a process works on is one of its own, and not yet bound.
LEMMA HereIsNext ==
  ASSUME IInv, NEW p \in Proc, pc[p] \in Working
  PROVE  /\ Here(p) \in PathsOf(p) /\ Here(p) \in Path
         /\ \A i \in DOMAIN listeners[p] : Here(p) # Sockets[p][i]
         /\ DOMAIN listeners[p] = 1 .. Len(listeners[p]) /\ Len(listeners[p]) \in Nat
         /\ Len(listeners[p]) < Len(Sockets[p])
  <1>1. listeners[p] \in Seq(Listener) /\ Len(listeners[p]) < Len(Sockets[p])
    BY DEF IInv, TypeOK, Stage, Working, Settled
  <1>2. Sockets[p] \in Seq(Nat)
    BY PathAssumption
  <1>3. Len(listeners[p]) + 1 \in DOMAIN Sockets[p]
    BY <1>1, <1>2
  <1>4. \A i \in DOMAIN listeners[p] : i \in DOMAIN Sockets[p] /\ i # Len(listeners[p]) + 1
    BY <1>1, <1>2
  <1> QED BY <1>1, <1>2, <1>3, <1>4, PathAssumption DEF Here, PathsOf, Path

\* No process runs before the first is started.
LEMMA Initially == Init => IInv
  BY ProcAssumption, BoundAssumption
     DEF Init, IInv, TypeOK, Locks, Numbered, Stage, Own, Reachable, Placed, InOrder, Looked,
         Alone, Held, Inode, File, Working, Settled, Starting, Stopping

-----------------------------------------------------------------------------
\* Whatever a process does, it is the others' no concern where they are.
LEMMA OthersStay ==
  ASSUME IInv, NEW p \in Proc, Run(p) \/ Crash(p), NEW q \in Proc, q # p
  PROVE  /\ pc'[q] = pc[q] /\ opened'[q] = opened[q] /\ seen'[q] = seen[q]
         /\ bound'[q] = bound[q] /\ listeners'[q] = listeners[q]
         /\ Held(q)' = Held(q) /\ NextLock(q)' = NextLock(q)
  <1> USE DEF sockets, locking, working, GoTo
  <1>1. /\ pc'[q] = pc[q] /\ opened'[q] = opened[q] /\ seen'[q] = seen[q]
        /\ bound'[q] = bound[q] /\ listeners'[q] = listeners[q]
    BY DEF Run, Locking, Binding, Teardown, Start, OpenLock, Flock, FlockFails, Interrupt, Look,
           Probe, Recheck, Unlink, Bind, BindFails, Make, Listen, Identify, Cancel, Finish,
           CloseListener, CloseDone, Inspect, RemoveOwn, Drop, Unlock, Return, Reset, Crash,
           IInv, TypeOK
  <1>2. \A l : l[1] = q => (l \in locks' <=> l \in locks)
    <2>1. CASE Flock(p)
      BY <2>1 DEF Flock
    <2>2. CASE Unlock(p)
      BY <2>2, LastLockIsHeld DEF Unlock
    <2>3. CASE Crash(p)
      BY <2>3 DEF Crash
    <2>4. CASE UNCHANGED locks
      BY <2>4
    <2> QED
      BY <2>1, <2>2, <2>3, <2>4
         DEF Run, Locking, Binding, Teardown, Start, OpenLock, FlockFails, Interrupt, Look,
             Probe, Recheck, Unlink, Bind, BindFails, Listen, Identify, Cancel, Finish,
             CloseListener, CloseDone, Inspect, RemoveOwn, Return
  <1>3. Held(q)' = Held(q)
    BY <1>2 DEF Held
  <1>4. NextLock(q)' = NextLock(q)
    BY <1>3 DEF NextLock
  <1> QED BY <1>1, <1>3, <1>4

\* What a process may do to the socket files.
LEMMA SocketsTouched ==
  ASSUME IInv, NEW p \in Proc, Run(p) \/ Crash(p)
  PROVE  /\ made' \in {made, made + 1} /\ made' <= MaxInode
         /\ \A k \in Inode : k <= made => maker'[k] = maker[k]
         /\ \A x \in Path : node'[x] # node[x] =>
              /\ x \in PathsOf(p) /\ pc[p] \in Settled
              /\ node'[x] = 0 \/ (node'[x] = made + 1 /\ made' = made + 1)
         /\ \A k \in live' : k \in live \/ (k = bound[p] /\ bound[p] # 0)
  <1> USE BoundAssumption DEF sockets, locking, working, GoTo, IInv, TypeOK, Inode
  <1>1. CASE UNCHANGED sockets
    BY <1>1
  <1>2. CASE Unlink(p)
    <2>1. Here(p) \in PathsOf(p) /\ Here(p) \in Path
      BY <1>2, HereIsNext DEF Unlink, Working
    <2> QED BY <1>2, <2>1 DEF Unlink, Settled, Working
  <1>3. CASE Bind(p)
    <2>1. Here(p) \in PathsOf(p) /\ Here(p) \in Path
      BY <1>3, HereIsNext DEF Bind, Working
    <2> QED BY <1>3, <2>1 DEF Bind, Make, Settled, Working
  <1>4. CASE Listen(p)
    <2>1. bound[p] # 0
      BY <1>4 DEF Listen, Stage
    <2> QED BY <1>4, <2>1 DEF Listen
  <1>5. CASE CloseListener(p)
    BY <1>5 DEF CloseListener
  <1>6. CASE RemoveOwn(p)
    <2>1. listeners[p] # <<>> /\ listeners[p] \in Seq(Listener)
      BY <1>6 DEF RemoveOwn, Stage
    <2>2. 1 \in DOMAIN listeners[p] /\ First(p) = listeners[p][1]
      BY <2>1 DEF First
    <2>3. First(p).path \in PathsOf(p)
      BY <2>2 DEF Own
    <2> QED BY <1>6, <2>3 DEF RemoveOwn, Settled
  <1>7. CASE Crash(p)
    BY <1>7 DEF Crash
  <1> QED
    BY <1>1, <1>2, <1>3, <1>4, <1>5, <1>6, <1>7
       DEF Run, Locking, Binding, Teardown, Start, OpenLock, Flock, FlockFails, Interrupt, Look,
           Probe, Recheck, BindFails, Identify, Cancel, Finish, CloseDone, Inspect, Unlock, Return

\* So the others keep their part of the invariant.
LEMMA OthersKeep ==
  ASSUME IInv, NEW p \in Proc, Run(p) \/ Crash(p), NEW q \in Proc, q # p
  PROVE  /\ Stage(q)' /\ Own(q)' /\ Reachable(q)'
         /\ Placed(q)' /\ InOrder(q)' /\ Looked(q)' /\ Alone(q)'
  <1> DEFINE ls == listeners[q]
  <1>0. /\ pc'[q] = pc[q] /\ bound'[q] = bound[q] /\ listeners'[q] = ls
        /\ Held(q)' = Held(q)
    BY OthersStay
  <1>1. /\ made' \in {made, made + 1} /\ made \in Nat /\ made' \in Nat /\ made <= made'
        /\ \A k \in Inode : k <= made => maker'[k] = maker[k]
        /\ \A k \in live' : k \in live \/ (k = bound[p] /\ bound[p] # 0)
    <2>1. made \in Nat
      BY BoundAssumption DEF IInv, TypeOK
    <2>2. /\ made' \in {made, made + 1}
          /\ \A k \in Inode : k <= made => maker'[k] = maker[k]
          /\ \A k \in live' : k \in live \/ (k = bound[p] /\ bound[p] # 0)
      BY SocketsTouched
    <2> QED BY <2>1, <2>2
  <1>2. /\ bound[q] \in Nat /\ (bound[q] # 0 => bound[q] \in Inode)
        /\ bound[p] \in Nat /\ (bound[p] # 0 => bound[p] \in Inode)
        /\ \A i \in DOMAIN ls : ls[i] \in Listener /\ ls[i].inode \in Inode
    <2>1. ls \in Seq(Listener)
      BY DEF IInv, TypeOK
    <2>2. \A i \in DOMAIN ls : ls[i] \in Listener
      BY <2>1
    <2> QED BY <2>2, BoundAssumption DEF IInv, TypeOK, Inode, Listener
  <1>3. bound[p] # 0 => bound[p] <= made /\ maker[bound[p]] = p
    BY DEF IInv, Own
  <1>4. ls # <<>> => 1 \in DOMAIN ls /\ Head(ls) = ls[1]
    <2>1. ls \in Seq(Listener)
      BY DEF IInv, TypeOK
    <2> QED BY <2>1
  <1>5. Own(q)'
    <2>1. \A k \in live' : maker'[k] = q => k \in live /\ maker[k] = q
      BY <1>1, <1>2, <1>3 DEF IInv, Numbered, TypeOK
    <2>2. Own(q)
      BY DEF IInv
    <2> QED BY <1>0, <1>1, <1>2, <2>1, <2>2 DEF Own, Inode
  <1>6. Stage(q)'
    <2>1. Stage(q)
      BY DEF IInv
    <2>2. ls # <<>> => (Head(ls).inode \in live' => Head(ls).inode \in live)
      <3>1. ls # <<>> => maker[Head(ls).inode] = q
        BY <1>4 DEF IInv, Own
      <3> QED BY <1>1, <1>3, <3>1
    <2> QED BY <1>0, <2>1, <2>2 DEF Stage
  <1>7. pc[q] \in Settled => \A x \in PathsOf(q) : node'[x] = node[x]
    <2>1. PathsOf(q) \subseteq Path
      BY DEF Path
    <2> QED BY <2>1, SocketsTouched, Disjoint
  <1>8. pc[q] \in Working => Here(q) \in PathsOf(q) /\ Here(q) \in Path
    BY HereIsNext
  <1>9. Here(q)' = Here(q)
    BY <1>0 DEF Here
  <1>10. \A x \in Path : node[x] \in Nat /\ node[x] <= made /\ (node[x] # 0 => node[x] \in Inode)
    BY BoundAssumption DEF IInv, TypeOK, Numbered, Inode
  <1>11. Reachable(q)'
    <2> SUFFICES ASSUME pc[q] \in Working \cup {"serving"}
                 PROVE  Reachable(q)'
      BY <1>0 DEF Reachable, Working
    <2>1. \A x \in PathsOf(q), k \in Nat : Leads(x, k) => Leads(x, k)'
      <3> SUFFICES ASSUME NEW x \in PathsOf(q), node[x] # 0 PROVE maker'[node[x]] = maker[node[x]]
        BY <1>7 DEF Leads, Settled
      <3>1. x \in Path
        BY DEF Path
      <3> QED BY <1>1, <1>10, <3>1
    <2>2. Reachable(q)
      BY DEF IInv
    <2>3. \A i \in DOMAIN ls : ls[i].path \in PathsOf(q) /\ ls[i].inode \in Nat
      BY <1>2 DEF IInv, Own, Inode
    <2> QED BY <1>0, <1>2, <1>8, <1>9, <2>1, <2>2, <2>3 DEF Reachable, Working
  <1>12. Placed(q)'
    <2>1. \A x \in Path : node'[x] \in {node[x], 0} \/ node'[x] = made + 1
      BY SocketsTouched
    <2>2. (bound[q] # 0 => bound[q] <= made) /\ \A i \in DOMAIN ls : ls[i].inode <= made
      BY DEF IInv, Own
    <2>3. Placed(q)
      BY DEF IInv
    <2> QED BY <1>0, <1>1, <1>2, <1>9, <2>1, <2>2, <2>3 DEF Placed, Inode
  <1>13. InOrder(q)'
    BY <1>0 DEF IInv, InOrder
  <1>14. Looked(q)'
    <2>1. seen'[q] = seen[q] /\ seen[q] \in Nat /\ (seen[q] # 0 => seen[q] \in Inode)
      <3>1. seen[q] \in 0 .. MaxInode
        BY DEF IInv, TypeOK
      <3> QED BY <3>1, OthersStay, BoundAssumption DEF Inode
    <2>2. pc[q] \in {"recheck", "unlink"} => node'[Here(q)] = node[Here(q)]
      BY <1>7, <1>8 DEF Settled, Working
    <2>3. seen[q] # 0 /\ maker[seen[q]] = Foreign /\ seen[q] \in live' => seen[q] \in live
      BY <1>1, <1>3, ProcAssumption
    <2>4. Looked(q)
      BY DEF IInv
    <2> QED BY <1>0, <1>1, <1>9, <2>1, <2>2, <2>3, <2>4 DEF Looked, First
  <1>15. Alone(q)'
    <2> SUFFICES ASSUME ~disturbed'[q], pc[q] \in Starting
                 PROVE  FALSE
      BY <1>0 DEF Alone
    <2>1. ~disturbed[q] /\ ~ Start(p)
      BY DEF Run, Locking, Binding, Teardown, Start, OpenLock, Flock, FlockFails, Interrupt, Look,
             Probe, Recheck, Unlink, Bind, BindFails, Listen, Identify, Cancel, Finish,
             CloseListener, CloseDone, Inspect, RemoveOwn, Unlock, Return, Crash
    <2>2. pc[p] = "off"
      BY <2>1 DEF IInv, Alone
    <2> QED
      BY <2>1, <2>2
         DEF Run, Locking, Binding, Teardown, OpenLock, Flock, FlockFails, Interrupt, Look, Probe,
             Recheck, Unlink, Bind, BindFails, Listen, Identify, Cancel, Finish, CloseListener,
             CloseDone, Inspect, RemoveOwn, Unlock, Return, Crash, Starting
  <1> QED BY <1>5, <1>6, <1>11, <1>12, <1>13, <1>14, <1>15

-----------------------------------------------------------------------------
\* A step keeps what concerns all: the lock files,
LEMMA LocksKept ==
  ASSUME IInv, NEW p \in Proc, Run(p) \/ Crash(p)
  PROVE  Locks'
  <1> USE DEF sockets, locking, working, GoTo
  <1>1. CASE OpenLock(p)
    <2> DEFINE x == NextLock(p)
    <2>1. x \in PathsOf(p) /\ x \in Path
      BY <1>1, NextLockIsFree DEF OpenLock, IInv, Stage, Path
    <2>2. lockFile[x] = 0 => /\ \A l \in locks : l[2] # x
                             /\ \A q \in Proc : pc[q] = "flock" => NextLock(q) # x
      BY DEF IInv, Locks, TypeOK, File
    <2>3. lockFile[x] = 0 => FreshFile(x) \in File
      BY <2>2, BoundAssumption DEF FreshFile, File
    <2>4. lockFile'[x] \in File /\ opened'[p] = lockFile'[x] /\ locks' = locks
      BY <1>1, <2>1, <2>3 DEF OpenLock, IInv, TypeOK, File
    <2>5. NextLock(p)' = x
      BY <2>4 DEF NextLock, Held
    <2>6. \A y \in Path : y = x \/ lockFile'[y] = lockFile[y]
      BY <1>1 DEF OpenLock, IInv, TypeOK
    <2>7. lockFile[x] # 0 => lockFile' = lockFile
      BY <1>1 DEF OpenLock, IInv, TypeOK
    <2>8. \A l \in locks : l[2] \in Path /\ lockFile'[l[2]] = lockFile[l[2]]
      BY <2>2, <2>6, <2>7 DEF IInv, TypeOK
    <2>9. \A q \in Proc \ {p} : pc'[q] = "flock" =>
            opened'[q] # 0 /\ opened'[q] = lockFile'[NextLock(q)']
      <3> SUFFICES ASSUME NEW q \in Proc \ {p}, pc'[q] = "flock"
                   PROVE  opened'[q] # 0 /\ opened'[q] = lockFile'[NextLock(q)']
        OBVIOUS
      <3>1. pc[q] = "flock" /\ opened'[q] = opened[q] /\ NextLock(q)' = NextLock(q)
        BY OthersStay
      <3>2. NextLock(q) \in Path
        BY <3>1, NextLockIsFree DEF IInv, Stage, Path
      <3> QED BY <2>2, <2>6, <2>7, <3>1, <3>2 DEF IInv, Locks
    <2> QED BY <2>4, <2>5, <2>8, <2>9 DEF IInv, Locks, File
  <1>2. CASE Flock(p)
    <2> DEFINE new == <<p, NextLock(p), opened[p]>>
    <2>1. /\ NextLock(p) \in PathsOf(p)
          /\ opened[p] = lockFile[NextLock(p)]
      BY <1>2, NextLockIsFree DEF Flock, IInv, Locks, Stage
    <2>2. \A l \in locks : l[2] # NextLock(p)
      BY <1>2, <2>1 DEF Flock, CanLock, IInv, Locks
    <2>3. locks' = locks \cup {new} /\ lockFile' = lockFile
      BY <1>2 DEF Flock
    <2>4. pc'[p] # "flock"
      BY <1>2 DEF Flock, IInv, TypeOK
    <2>5. \A q \in Proc \ {p} : pc'[q] = "flock" =>
            opened'[q] # 0 /\ opened'[q] = lockFile'[NextLock(q)']
      BY <2>3, OthersStay DEF IInv, Locks
    <2>6. \A l \in locks' : l \in locks \/ l = new
      BY <2>3
    <2>7. \A l \in locks' : l[2] \in PathsOf(l[1]) /\ l[3] = lockFile'[l[2]]
      BY <2>1, <2>3, <2>6 DEF IInv, Locks
    <2>8. \A l, m \in locks' : l[2] = m[2] => l = m
      BY <2>2, <2>6 DEF IInv, Locks
    <2> QED BY <2>4, <2>5, <2>7, <2>8 DEF Locks
  <1>3. CASE lockFile' = lockFile /\ locks' \subseteq locks /\ pc'[p] # "flock"
    <2>1. \A q \in Proc \ {p} : pc'[q] = "flock" =>
            opened'[q] # 0 /\ opened'[q] = lockFile'[NextLock(q)']
      BY <1>3, OthersStay DEF IInv, Locks
    <2> QED BY <1>3, <2>1 DEF IInv, Locks
  <1>4. CASE Cancel(p)
    <2>1. locks' = locks /\ pc' = pc /\ opened' = opened /\ lockFile' = lockFile
      BY <1>4 DEF Cancel
    <2>2. \A q \in Proc : NextLock(q)' = NextLock(q)
      BY <2>1 DEF NextLock, Held
    <2> QED BY <2>1, <2>2 DEF IInv, Locks
  <1> QED
    BY <1>1, <1>2, <1>3, <1>4
       DEF Run, Locking, Binding, Teardown, Start, FlockFails, Interrupt, Look, Probe, Recheck,
           Unlink, Bind, BindFails, Listen, Identify, Finish, CloseListener, CloseDone, Inspect,
           RemoveOwn, Unlock, Return, Reset, Crash, IInv, TypeOK

\* the numbers of the socket files,
LEMMA NumberedKept ==
  ASSUME IInv, NEW p \in Proc, Run(p) \/ Crash(p)
  PROVE  Numbered'
  <1>1. made \in Nat /\ made' \in {made, made + 1}
    BY SocketsTouched, BoundAssumption DEF IInv, TypeOK
  <1>2. \A x \in Path : node'[x] \in {node[x], 0, made'} /\ node[x] \in Nat /\ node[x] <= made
    <2>1. \A x \in Path : node'[x] \in {node[x], 0, made'}
      BY SocketsTouched
    <2>2. \A x \in Path : node[x] \in Nat /\ node[x] <= made
      BY BoundAssumption DEF IInv, TypeOK, Numbered
    <2> QED BY <2>1, <2>2
  <1>3. \A k \in live' : k \in Nat /\ k <= made /\ maker'[k] # None
    <2>1. \A k \in live' : k \in live \/ (k = bound[p] /\ bound[p] # 0)
      BY SocketsTouched
    <2>2. \A k \in live : k \in Inode /\ k <= made /\ maker[k] # None
      BY BoundAssumption DEF IInv, TypeOK, Numbered
    <2>3. bound[p] \in Nat /\ (bound[p] # 0 => /\ bound[p] \in Inode /\ bound[p] <= made
                                               /\ maker[bound[p]] # None)
      BY ProcAssumption, BoundAssumption DEF IInv, TypeOK, Own, Inode
    <2>4. \A k \in Inode : k <= made => maker'[k] = maker[k]
      BY SocketsTouched
    <2> QED BY <2>1, <2>2, <2>3, <2>4 DEF Inode
  <1> QED BY <1>1, <1>2, <1>3 DEF Numbered

\* and of the process itself the locks and listeners it has by its stage,
LEMMA StageKept ==
  ASSUME IInv, NEW p \in Proc, Run(p) \/ Crash(p)
  PROVE  Stage(p)'
  <1> DEFINE ls == listeners[p]
  <1>0. /\ Stage(p) /\ Own(p) /\ TypeOK
        /\ ls \in Seq(Listener) /\ Sockets[p] \in Seq(Nat) \ {<<>>}
    BY PathAssumption DEF IInv, TypeOK
  <1> USE DEF sockets, locking, working, GoTo, Working, Settled
  <1>1. CASE Start(p)
    <2>1. 1 \in DOMAIN Sockets[p]
      BY <1>0
    <2>2. PathsOf(p) # {}
      BY <2>1 DEF PathsOf
    <2> QED BY <1>0, <1>1, <2>2 DEF Start, Stage, TypeOK, Held
  <1>2. CASE OpenLock(p)
    BY <1>0, <1>2 DEF OpenLock, Stage, TypeOK, Held
  <1>3. CASE Flock(p)
    <2>1. Held(p)' = Held(p) \cup {NextLock(p)}
      <3> DEFINE new == <<p, NextLock(p), opened[p]>>
      <3>1. \A l : l \in locks' <=> l \in locks \/ l = new
        BY <1>3 DEF Flock
      <3>2. new[1] = p /\ new[2] = NextLock(p)
        OBVIOUS
      <3> HIDE DEF new
      <3>3. \A x : x \in Held(p)' <=> \E l \in locks' : l[1] = p /\ l[2] = x
        BY DEF Held
      <3>4. \A x : x \in Held(p) <=> \E l \in locks : l[1] = p /\ l[2] = x
        BY DEF Held
      <3>5. \A x : x \in Held(p)' <=> x \in Held(p) \/ x = NextLock(p)
        BY <3>1, <3>2, <3>3, <3>4, Zenon
      <3> QED BY <3>5
    <2>2. Held(p)' \subseteq PathsOf(p)
      BY <1>0, <1>3, <2>1, NextLockIsFree DEF Flock, Held, IInv, Locks, Stage
    <2> QED BY <1>0, <1>3, <2>1, <2>2 DEF Flock, Stage, TypeOK
  <1>4. CASE FlockFails(p)
    BY <1>0, <1>4 DEF FlockFails, Stage, TypeOK, Held
  <1>5. CASE Unlock(p)
    BY <1>0, <1>5 DEF Unlock, Stage, TypeOK, Held
  <1>6. CASE Return(p)
    BY <1>0, <1>6 DEF Return, Reset, Stage, TypeOK, Held
  <1>7. CASE Crash(p)
    BY <1>0, <1>7 DEF Crash, Reset, Stage, TypeOK, Held
  <1> DEFINE Still == Held(p)' = Held(p)
  <1>8. CASE Interrupt(p) \/ Look(p) \/ Probe(p) \/ Recheck(p) \/ Unlink(p) \/ BindFails(p)
    <2>1. /\ Still /\ listeners' = listeners /\ bound' = bound
          /\ pc[p] \in Working \ {"listen", "identify"}
          /\ pc'[p] \in (Working \ {"listen", "identify"}) \cup {"close"}
      BY <1>0, <1>8 DEF Interrupt, Look, Probe, Recheck, Unlink, BindFails, TypeOK, Held
    <2> QED BY <1>0, <2>1 DEF Stage
  <1>9. CASE Bind(p)
    <2>1. made \in Nat /\ bound'[p] = made + 1
      BY <1>0, <1>9, BoundAssumption DEF Bind, Make, TypeOK
    <2> QED BY <1>0, <1>9, <2>1 DEF Bind, Make, Stage, TypeOK, Held
  <1>10. CASE Listen(p)
    BY <1>0, <1>10 DEF Listen, Stage, TypeOK, Held
  <1>11. CASE Identify(p)
    <2>1. /\ Still /\ pc[p] = "identify" /\ bound'[p] = 0 /\ PathsOf(p) \subseteq Held(p)
          /\ pc'[p] = IF Len(listeners'[p]) < Len(Sockets[p]) THEN "look" ELSE "serving"
      BY <1>0, <1>11 DEF Identify, Stage, TypeOK, Held
    <2> QED BY <2>1 DEF Stage
  <1>12. CASE Cancel(p) \/ Finish(p) \/ CloseDone(p)
    BY <1>0, <1>12 DEF Cancel, Finish, CloseDone, Stage, TypeOK, Held
  <1>13. CASE CloseListener(p)
    BY <1>0, <1>13 DEF CloseListener, First, Stage, TypeOK, Held
  <1>14. CASE Inspect(p) \/ RemoveOwn(p)
    <2>1. /\ Still /\ PathsOf(p) \subseteq Held(p) /\ bound' = bound /\ bound[p] = 0
          /\ live' = live
      BY <1>0, <1>14 DEF Inspect, RemoveOwn, Stage, TypeOK, Held
    <2>2. \/ pc'[p] = "close"
          \/ /\ pc'[p] = "remove" /\ listeners' = listeners
             /\ ls # <<>> /\ Head(ls).inode \notin live
      BY <1>0, <1>14 DEF Inspect, RemoveOwn, Stage, TypeOK
    <2> QED BY <2>1, <2>2 DEF Stage
  <1> QED
    BY <1>1, <1>2, <1>3, <1>4, <1>5, <1>6, <1>7, <1>8, <1>9, <1>10, <1>11, <1>12, <1>13, <1>14
       DEF Run, Locking, Binding, Teardown

\* that its sockets that accept are those it knows of,
LEMMA OwnKept ==
  ASSUME IInv, NEW p \in Proc, Run(p) \/ Crash(p)
  PROVE  Own(p)'
  <1> DEFINE ls == listeners[p]
  <1> USE DEF sockets, locking, working, GoTo
  <1>0. /\ Own(p) /\ Stage(p) /\ TypeOK /\ Numbered
        /\ ls \in Seq(Listener) /\ bound[p] \in Nat /\ (bound[p] # 0 => bound[p] \in Inode)
        /\ made \in Nat
    <2>1. Own(p) /\ Stage(p) /\ TypeOK /\ Numbered
      BY DEF IInv
    <2>2. ls \in Seq(Listener) /\ bound[p] \in 0 .. MaxInode /\ made \in 0 .. MaxInode
      BY <2>1 DEF TypeOK
    <2> QED BY <2>1, <2>2, BoundAssumption DEF Inode
  <1>1. \A i \in DOMAIN ls : ls[i] \in Listener /\ ls[i].inode \in Inode
    <2>1. \A i \in DOMAIN ls : ls[i] \in Listener
      BY <1>0
    <2> QED BY <2>1 DEF Listener
  <1>2. CASE UNCHANGED <<made, live, maker, bound, listeners>>
    BY <1>0, <1>2 DEF Own
  <1>3. CASE Bind(p)
    <2>1. /\ made' = made + 1 /\ bound'[p] = made' /\ live' = live /\ listeners' = listeners
          /\ maker'[made'] = p /\ \A k \in Inode : k # made' => maker'[k] = maker[k]
      BY <1>0, <1>3, BoundAssumption DEF Bind, Make, TypeOK, Inode
    <2>2. bound[p] = 0
      BY <1>0, <1>3 DEF Bind, Stage
    <2>3. \A k \in live : k \in Inode /\ k # made'
      <3>1. \A k \in live : k \in Inode /\ k <= made
        BY <1>0 DEF TypeOK, Numbered
      <3> QED BY <1>0, <2>1, <3>1 DEF Inode
    <2> QED BY <1>0, <1>1, <2>1, <2>2, <2>3 DEF Own, Inode
  <1>4. CASE Listen(p)
    BY <1>0, <1>4 DEF Listen, Own
  <1>5. CASE Identify(p)
    <2> DEFINE new == [path |-> Here(p), inode |-> bound[p], identity |-> node[Here(p)]]
               ls2 == listeners'[p]
    <2>1. ls2 = Append(ls, new) /\ bound'[p] = 0 /\ UNCHANGED <<made, live, maker>>
      BY <1>0, <1>5 DEF Identify, TypeOK
    <2>2. bound[p] # 0 /\ Here(p) \in PathsOf(p)
      BY <1>0, <1>5, HereIsNext DEF Identify, Stage, Working
    <2>3. /\ \A i \in DOMAIN ls2 : ls2[i] = new \/ (i \in DOMAIN ls /\ ls2[i] = ls[i])
          /\ \A i \in DOMAIN ls : i \in DOMAIN ls2 /\ ls2[i] = ls[i]
          /\ \E i \in DOMAIN ls2 : ls2[i] = new
      BY <1>0, <2>1
    <2> QED BY <1>0, <2>1, <2>2, <2>3 DEF Own
  <1>6. CASE CloseListener(p)
    BY <1>0, <1>6 DEF CloseListener, Own
  <1>7. CASE (Inspect(p) \/ RemoveOwn(p)) /\ Drop(p)
    <2> DEFINE ls2 == listeners'[p]
    <2>1. /\ ls # <<>> /\ Head(ls).inode \notin live /\ bound[p] = 0
          /\ UNCHANGED <<made, live, maker, bound>>
      BY <1>0, <1>7 DEF Inspect, RemoveOwn, Stage
    <2>2. ls2 = Tail(ls)
      BY <1>0, <1>7 DEF Drop, TypeOK
    <2>3. /\ \A i \in DOMAIN ls2 : i + 1 \in DOMAIN ls /\ ls2[i] = ls[i + 1]
          /\ \A i \in DOMAIN ls : i = 1 \/ (i - 1 \in DOMAIN ls2 /\ ls2[i - 1] = ls[i])
      BY <1>0, <2>1, <2>2
    <2>4. \A i \in DOMAIN ls2 : \E j \in DOMAIN ls : ls2[i] = ls[j]
      BY <2>3
    <2>5. \A i \in DOMAIN ls : ls[i] = Head(ls) \/ \E j \in DOMAIN ls2 : ls2[j] = ls[i]
      BY <1>0, <2>3
    <2> QED BY <1>0, <2>1, <2>4, <2>5 DEF Own
  <1>8. CASE Return(p)
    <2>1. listeners'[p] = <<>> /\ ls = <<>> /\ bound'[p] = 0 /\ bound[p] = 0
          /\ UNCHANGED <<made, live, maker>>
      BY <1>0, <1>8 DEF Return, Reset, Stage, TypeOK
    <2> QED BY <1>0, <2>1 DEF Own
  <1>9. CASE Crash(p)
    <2>1. listeners'[p] = <<>> /\ bound'[p] = 0 /\ UNCHANGED <<made, maker>>
          /\ \A k \in live' : maker[k] # p
      BY <1>0, <1>9 DEF Crash, Reset, TypeOK
    <2> QED BY <1>0, <2>1 DEF Own
  <1> QED
    BY <1>2, <1>3, <1>4, <1>5, <1>6, <1>7, <1>8, <1>9
       DEF Run, Locking, Binding, Teardown, Start, OpenLock, Flock, FlockFails, Interrupt, Look,
           Probe, Recheck, Unlink, BindFails, Cancel, Finish, CloseDone, Inspect, RemoveOwn,
           Unlock

\* and that it finds its sockets where it has put them.
LEMMA ReachableKept ==
  ASSUME IInv, NEW p \in Proc, Run(p) \/ Crash(p)
  PROVE  Reachable(p)'
  <1> DEFINE ls == listeners[p]
             Early == Working \ {"listen", "identify"}
  <1> USE DEF sockets, locking, working, GoTo
  <1>0. /\ Reachable(p) /\ Own(p) /\ Stage(p) /\ TypeOK /\ Numbered
        /\ ls \in Seq(Listener) /\ made \in Nat
    <2>1. Reachable(p) /\ Own(p) /\ Stage(p) /\ TypeOK /\ Numbered
      BY DEF IInv
    <2>2. ls \in Seq(Listener) /\ made \in 0 .. MaxInode
      BY <2>1 DEF TypeOK
    <2> QED BY <2>1, <2>2, BoundAssumption
  <1>1. CASE pc'[p] \notin Working \cup {"serving"}
    BY <1>1 DEF Reachable, Working
  <1>2. CASE /\ UNCHANGED <<node, maker, bound, listeners>>
             /\ \/ pc'[p] = pc[p]
                \/ pc[p] \in Working /\ pc'[p] \in Early
                \/ Listen(p)
    BY <1>0, <1>2 DEF Reachable, Leads, Here, Listen, Working, TypeOK
  <1>3. CASE Flock(p)
    <2>1. ls = <<>> /\ listeners' = listeners /\ pc'[p] \notin {"listen", "identify"}
      BY <1>0, <1>3 DEF Flock, Stage, TypeOK
    <2> QED BY <2>1 DEF Reachable
  <1>4. CASE Unlink(p)
    <2>1. /\ UNCHANGED <<listeners, maker>> /\ pc[p] \in Working
          /\ pc'[p] \notin {"listen", "identify"}
          /\ \A x \in Path : x # Here(p) => node'[x] = node[x]
      BY <1>0, <1>4 DEF Unlink, TypeOK, Working
    <2>2. \A i \in DOMAIN ls : Sockets[p][i] = ls[i].path /\ ls[i].path \in Path
                               /\ Sockets[p][i] # Here(p)
      BY <1>0, <2>1, HereIsNext DEF Reachable, Own, Path
    <2> QED BY <1>0, <2>1, <2>2 DEF Reachable, Leads
  <1>5. CASE Bind(p)
    <2>1. /\ listeners' = listeners /\ pc[p] \in Working
          /\ node' = [node EXCEPT ![Here(p)] = made + 1]
          /\ made' = made + 1 /\ made + 1 \in Inode
          /\ \A k \in Inode : k # made + 1 => maker'[k] = maker[k]
          /\ bound'[p] = made + 1
      BY <1>0, <1>5, BoundAssumption DEF Bind, Make, TypeOK, Working, Inode
    <2>2. Here(p)' = Here(p) /\ Here(p) \in Path
      BY <2>1, HereIsNext DEF Here
    <2>3. node'[Here(p)] = made + 1
      BY <1>0, <2>1, <2>2 DEF TypeOK
    <2>4. \A i \in DOMAIN ls : Sockets[p][i] = ls[i].path /\ ls[i].path \in Path
                               /\ Sockets[p][i] # Here(p)
      BY <1>0, <2>1, HereIsNext DEF Reachable, Own, Path
    <2>5. \A x \in Path : x # Here(p) =>
            /\ node'[x] = node[x]
            /\ node[x] # 0 => maker'[node[x]] = maker[node[x]]
      <3>1. \A x \in Path : node[x] \in Nat /\ node[x] <= made
                            /\ (node[x] # 0 => node[x] \in Inode)
        BY <1>0, BoundAssumption DEF TypeOK, Numbered, Inode
      <3> QED BY <1>0, <2>1, <2>2, <3>1 DEF TypeOK
    <2> QED BY <1>0, <2>1, <2>2, <2>3, <2>4, <2>5 DEF Reachable, Leads
  <1>6. CASE Identify(p)
    <2> DEFINE new == [path |-> Here(p), inode |-> bound[p], identity |-> node[Here(p)]]
               ls2 == listeners'[p]
    <2>1. /\ ls2 = Append(ls, new) /\ UNCHANGED <<node, maker>>
          /\ pc'[p] \notin {"listen", "identify"}
          /\ Leads(Here(p), bound[p])
      BY <1>0, <1>6 DEF Identify, Reachable, TypeOK
    <2>2. \A i \in DOMAIN ls : ls[i].path = Sockets[p][i] /\ Leads(Sockets[p][i], ls[i].inode)
      BY <1>0, <1>6 DEF Identify, Reachable, Working
    <2>3. \A i \in DOMAIN ls2 : \/ i = Len(ls) + 1 /\ ls2[i] = new
                                \/ i \in DOMAIN ls /\ ls2[i] = ls[i]
      BY <1>0, <2>1
    <2>4. \A x, k : Leads(x, k)' <=> Leads(x, k)
      BY <2>1 DEF Leads
    <2>5. \A i \in DOMAIN ls2 :
            ls2[i].path = Sockets[p][i] /\ Leads(Sockets[p][i], ls2[i].inode)
      BY <2>1, <2>2, <2>3 DEF Here
    <2> QED BY <2>1, <2>4, <2>5 DEF Reachable
  <1> QED
    BY <1>0, <1>1, <1>2, <1>3, <1>4, <1>5, <1>6
       DEF Run, Locking, Binding, Teardown, Start, OpenLock, FlockFails, Interrupt, Look,
           Probe, Recheck, BindFails, Listen, Cancel, Finish, CloseListener, CloseDone, Inspect,
           RemoveOwn, Unlock, Return, Reset, Crash, Working, TypeOK

\* The socket files of a process stay where it has made them,
LEMMA PlacedKept ==
  ASSUME IInv, NEW p \in Proc, Run(p) \/ Crash(p)
  PROVE  Placed(p)'
  <1> DEFINE ls == listeners[p]
  <1> USE DEF sockets, locking, working, GoTo
  <1>0. /\ Placed(p) /\ Stage(p) /\ TypeOK
        /\ ls \in Seq(Listener) /\ made \in Nat /\ bound[p] \in Nat
    BY BoundAssumption DEF IInv, TypeOK
  <1>1. /\ \A i \in DOMAIN ls : ls[i].inode \in Inode /\ ls[i].inode <= made
        /\ bound[p] <= made
    <2>1. \A i \in DOMAIN ls : ls[i] \in Listener
      BY <1>0
    <2>2. Own(p)
      BY DEF IInv
    <2> QED BY <1>0, <2>1, <2>2 DEF Own, Listener
  <1>2. \A x \in Path : node[x] \in Nat /\ node[x] <= made
    BY BoundAssumption DEF IInv, TypeOK, Numbered
  <1>3. CASE UNCHANGED <<node, bound, listeners>>
    BY <1>0, <1>3 DEF Placed, Here
  <1>4. CASE Unlink(p)
    <2>1. /\ UNCHANGED <<bound, listeners>>
          /\ \A x \in Path : node'[x] \in {0, node[x]}
      BY <1>0, <1>4 DEF Unlink, TypeOK
    <2> QED BY <1>0, <1>1, <2>1 DEF Placed, Here, Inode
  <1>5. CASE Bind(p)
    <2>1. /\ listeners' = listeners /\ bound'[p] = made + 1
          /\ \A x \in Path : node'[x] = IF x = Here(p) THEN made + 1 ELSE node[x]
      BY <1>0, <1>5 DEF Bind, Make, TypeOK
    <2>2. Here(p)' = Here(p)
      BY <2>1 DEF Here
    <2> QED BY <1>0, <1>1, <1>2, <2>1, <2>2 DEF Placed, Inode
  <1>6. CASE Identify(p)
    <2> DEFINE new == [path |-> Here(p), inode |-> bound[p], identity |-> node[Here(p)]]
               ls2 == listeners'[p]
    <2>1. ls2 = Append(ls, new) /\ bound'[p] = 0 /\ node' = node /\ bound[p] # 0
      BY <1>0, <1>6 DEF Identify, Stage, TypeOK
    <2>2. \A i \in DOMAIN ls2 : ls2[i] = new \/ (i \in DOMAIN ls /\ ls2[i] = ls[i])
      BY <1>0, <2>1
    <2> QED BY <1>0, <2>1, <2>2 DEF Placed
  <1>7. CASE (Inspect(p) \/ RemoveOwn(p)) /\ Drop(p)
    <2> DEFINE ls2 == listeners'[p]
    <2>1. ls # <<>> /\ bound'[p] = 0
      BY <1>0, <1>7 DEF Inspect, RemoveOwn, Stage
    <2>2. \A x \in Path : node'[x] \in {0, node[x]}
      BY <1>0, <1>7 DEF Inspect, RemoveOwn, TypeOK
    <2>3. ls2 = Tail(ls)
      BY <1>0, <1>7 DEF Drop, TypeOK
    <2>4. \A i \in DOMAIN ls2 : i + 1 \in DOMAIN ls /\ ls2[i] = ls[i + 1]
      BY <1>0, <2>1, <2>3
    <2>5. \A i \in DOMAIN ls2 : \E j \in DOMAIN ls : ls2[i] = ls[j]
      BY <2>4
    <2> QED BY <1>0, <1>1, <2>1, <2>2, <2>5 DEF Placed, Inode
  <1>8. CASE Reset(p)
    BY <1>0, <1>8 DEF Reset, Placed, TypeOK
  <1> QED
    BY <1>3, <1>4, <1>5, <1>6, <1>7, <1>8
       DEF Run, Locking, Binding, Teardown, Start, OpenLock, Flock, FlockFails, Interrupt, Look,
           Probe, Recheck, BindFails, Listen, Cancel, Finish, CloseListener, CloseDone, Inspect,
           RemoveOwn, Unlock, Return, Crash

\* it takes its locks in their order,
LEMMA InOrderKept ==
  ASSUME IInv, NEW p \in Proc, Run(p) \/ Crash(p)
  PROVE  InOrder(p)'
  <1>0. /\ InOrder(p) /\ Locks /\ TypeOK /\ PathsOf(p) \in SUBSET Nat
        /\ \A x : x \in Held(p) <=> \E l \in locks : l[1] = p /\ l[2] = x
        /\ \A x : x \in Held(p)' <=> \E l \in locks' : l[1] = p /\ l[2] = x
    BY PathAssumption DEF IInv, PathsOf, Held
  <1>1. CASE locks' = locks
    BY <1>0, <1>1 DEF InOrder
  <1>2. CASE Flock(p)
    <2> DEFINE new == <<p, NextLock(p), opened[p]>>
    <2>1. \A l : l \in locks' <=> l \in locks \/ l = new
      BY <1>2 DEF Flock
    <2>2. new[1] = p /\ new[2] = NextLock(p)
      OBVIOUS
    <2> HIDE DEF new
    <2>3. \A x : x \in Held(p)' <=> x \in Held(p) \/ x = NextLock(p)
      BY <1>0, <2>1, <2>2, Zenon
    <2>4. /\ NextLock(p) \in PathsOf(p)
          /\ \A y \in PathsOf(p) \ Held(p) : NextLock(p) <= y
      BY <1>2, NextLockIsFree DEF Flock, IInv, Stage
    <2>5. \A y \in PathsOf(p) \ Held(p) : y # NextLock(p) => NextLock(p) < y
      BY <1>0, <2>4
    <2> QED BY <1>0, <2>3, <2>5 DEF InOrder
  <1>3. CASE Unlock(p)
    <2> DEFINE last == LastLock(p)
    <2>1. /\ last \in locks /\ last[1] = p
          /\ \A x \in Held(p) : x \in Nat /\ x <= last[2]
      BY <1>3, LastLockIsHeld DEF Unlock
    <2>2. locks' = locks \ {last}
      BY <1>3 DEF Unlock
    <2> HIDE DEF last
    <2>3. \A x \in Held(p)' : x \in Held(p) /\ x # last[2]
      BY <1>0, <2>1, <2>2 DEF Locks
    <2>4. \A x \in Held(p) : x \in Held(p)' \/ x = last[2]
      BY <1>0, <2>1, <2>2
    <2>5. last[2] \in Nat
      BY <1>0, <2>1
    <2>6. \A x \in Held(p)' : x < last[2]
      BY <2>1, <2>3, <2>5
    <2> QED BY <1>0, <2>3, <2>4, <2>6 DEF InOrder
  <1>4. CASE Crash(p)
    BY <1>0, <1>4 DEF Crash, InOrder
  <1> QED
    BY <1>1, <1>2, <1>3, <1>4
       DEF Run, Locking, Binding, Teardown, Start, OpenLock, FlockFails, Interrupt, Look, Probe,
           Recheck, Unlink, Bind, BindFails, Listen, Identify, Cancel, Finish, CloseListener,
           CloseDone, Inspect, RemoveOwn, Return, locking

\* it removes what it has looked at,
LEMMA LookedKept ==
  ASSUME IInv, NEW p \in Proc, Run(p) \/ Crash(p)
  PROVE  Looked(p)'
  <1> USE DEF sockets, locking, working, GoTo
  <1>0. /\ Looked(p) /\ TypeOK /\ made \in Nat /\ made' \in Nat /\ made <= made'
        /\ seen[p] \in Nat /\ seen[p] <= made
    <2>1. made \in Nat /\ seen[p] \in Nat /\ Looked(p)
      BY BoundAssumption DEF IInv, TypeOK
    <2>2. made' \in {made, made + 1}
      BY SocketsTouched
    <2> QED BY <2>1, <2>2 DEF IInv, Looked
  <1>1. CASE Look(p) \/ Inspect(p)
    <2>1. seen'[p] <= made'
      <3>1. PICK x \in Path : seen'[p] = node[x]
        <4>1. CASE Look(p)
          <5>1. Here(p) \in Path
            BY <4>1, HereIsNext DEF Look, Working
          <5> QED BY <1>0, <4>1, <5>1 DEF Look, TypeOK
        <4>2. CASE Inspect(p)
          <5>1. listeners[p] # <<>> /\ listeners[p] \in Seq(Listener)
            BY <4>2 DEF Inspect, IInv, Stage, TypeOK
          <5>2. First(p) \in Listener
            BY <5>1 DEF First
          <5> QED BY <1>0, <4>2, <5>2 DEF Inspect, TypeOK, Listener
        <4> QED BY <1>1, <4>1, <4>2
      <3>2. node[x] \in Nat /\ node[x] <= made
        BY BoundAssumption DEF IInv, TypeOK, Numbered
      <3> QED BY <1>0, <3>1, <3>2
    <2>2. pc'[p] \notin {"recheck", "unlink"}
      BY <1>0, <1>1 DEF Look, Inspect, TypeOK
    <2>3. pc'[p] = "remove" => seen'[p] = First(p)'.identity
      BY <1>0, <1>1 DEF Look, Inspect, First, TypeOK
    <2> QED BY <2>1, <2>2, <2>3 DEF Looked
  <1>2. CASE Probe(p) \/ Recheck(p)
    <2>1. UNCHANGED <<node, made, live, maker, listeners>> /\ Here(p)' = Here(p)
      BY <1>2 DEF Probe, Recheck, Here
    <2>2. pc'[p] \in {"recheck", "unlink"} =>
            /\ seen'[p] = seen[p]
            /\ node[Here(p)] \notin live \/ pc[p] = "recheck"
      BY <1>0, <1>2 DEF Probe, Recheck, TypeOK
    <2>3. pc'[p] # "remove"
      BY <1>0, <1>2 DEF Probe, Recheck, TypeOK
    <2>4. seen'[p] <= made
      <3>1. Here(p) \in Path
        BY <1>2, HereIsNext DEF Probe, Recheck, Working
      <3>2. node[Here(p)] <= made
        BY <3>1 DEF IInv, Numbered
      <3>3. seen'[p] \in {seen[p], node[Here(p)]}
        BY <1>0, <1>2 DEF Probe, Recheck, TypeOK
      <3> QED BY <1>0, <3>2, <3>3
    <2> QED BY <1>0, <2>1, <2>2, <2>3, <2>4 DEF Looked
  <1>3. CASE seen'[p] \in {seen[p], 0} /\ pc'[p] \notin {"recheck", "unlink", "remove"}
    BY <1>0, <1>3 DEF Looked
  <1>4. CASE Cancel(p)
    BY <1>0, <1>4 DEF Cancel, Looked, First, Here
  <1>5. CASE Start(p) \/ Locking(p) \/ Return(p) \/ Crash(p)
    BY <1>0, <1>3, <1>5
       DEF Start, Locking, OpenLock, Flock, FlockFails, Return, Crash, Reset, TypeOK
  <1>6. CASE Interrupt(p) \/ Unlink(p) \/ Bind(p) \/ BindFails(p) \/ Listen(p) \/ Identify(p)
    BY <1>0, <1>3, <1>6 DEF Interrupt, Unlink, Bind, BindFails, Listen, Identify, TypeOK
  <1>7. CASE Finish(p) \/ CloseListener(p) \/ CloseDone(p) \/ RemoveOwn(p) \/ Unlock(p)
    BY <1>0, <1>3, <1>7 DEF Finish, CloseListener, CloseDone, RemoveOwn, Unlock, TypeOK
  <1> QED
    BY <1>1, <1>2, <1>4, <1>5, <1>6, <1>7 DEF Run, Binding, Teardown

\* and when it has started alone, it is alone until it serves.
LEMMA AloneKept ==
  ASSUME IInv, NEW p \in Proc, Run(p) \/ Crash(p)
  PROVE  Alone(p)'
  <1> USE DEF sockets, locking, working, GoTo
  <1> SUFFICES ASSUME ~disturbed'[p], pc'[p] \in Starting
               PROVE  Alone(p)'
    BY DEF Alone
  <1>0. Alone(p) /\ TypeOK /\ \A q \in Proc \ {p} : pc'[q] = pc[q]
    BY OthersStay DEF IInv
  <1>1. CASE Start(p)
    <2>1. /\ \A q \in Proc \ {p} : pc[q] = "off"
          /\ \A x \in PathsOf(p) : ~ForeignAt(x)
          /\ pc'[p] = "open" /\ UNCHANGED <<node, live, maker>>
      BY <1>0, <1>1 DEF Start, TypeOK
    <2> QED BY <1>0, <2>1 DEF Alone, ForeignAt
  <1>2. ~Start(p) => pc[p] \in Starting /\ ~disturbed[p]
    BY <1>0
       DEF Run, Locking, Binding, Teardown, OpenLock, Flock, FlockFails, Interrupt, Look, Probe,
           Recheck, Unlink, Bind, BindFails, Listen, Identify, Cancel, Finish, CloseListener,
           CloseDone, Inspect, RemoveOwn, Unlock, Return, Reset, Crash, TypeOK, Starting
  <1>3. CASE ~Start(p)
    <2>1. /\ \A q \in Proc \ {p} : pc'[q] = "off"
          /\ \A x \in PathsOf(p) : ~ForeignAt(x)
      BY <1>0, <1>2, <1>3 DEF Alone
    <2>2. \A x \in PathsOf(p) : ~ForeignAt(x)'
      <3> SUFFICES ASSUME NEW x \in PathsOf(p), node'[x] \in live', maker'[node'[x]] = Foreign
                   PROVE  FALSE
        BY DEF ForeignAt
      <3>1. x \in Path /\ node[x] \in 0 .. MaxInode /\ made \in Nat
        BY <1>0, BoundAssumption DEF TypeOK, Path
      <3>2. node[x] # 0 => node[x] \in Inode /\ node[x] <= made
        BY <3>1, BoundAssumption DEF IInv, Numbered, Inode
      <3>3. /\ node'[x] = node[x] \/ node'[x] = 0 \/ node'[x] = made + 1
            /\ \A k \in Inode : k <= made => maker'[k] = maker[k]
            /\ \A k \in live' : k \in live \/ (k = bound[p] /\ bound[p] # 0)
        BY <3>1, SocketsTouched
      <3>4. \A k \in live' : k \in Inode /\ k <= made /\ (k \in live \/ maker[k] = p)
        <4>1. \A k \in live : k \in Inode /\ k <= made
          BY <1>0 DEF IInv, TypeOK, Numbered
        <4>2. bound[p] # 0 => bound[p] \in Inode /\ bound[p] <= made /\ maker[bound[p]] = p
          BY <1>0, BoundAssumption DEF IInv, TypeOK, Own, Inode
        <4> QED BY <3>3, <4>1, <4>2
      <3>5. node'[x] = node[x]
        BY <3>1, <3>3, <3>4 DEF Inode
      <3>6. maker[node[x]] = Foreign /\ node[x] \in live
        BY <3>2, <3>3, <3>4, <3>5, ProcAssumption DEF Inode
      <3> QED BY <2>1, <3>6 DEF ForeignAt
    <2>3. pc'[p] \in {"probe", "recheck"} => seen'[p] = node'[Here(p)']
      BY <1>0, <1>2, <1>3
         DEF Run, Locking, Binding, Teardown, OpenLock, Flock, FlockFails, Interrupt, Look, Probe,
             Recheck, Unlink, Bind, BindFails, Listen, Identify, Cancel, Finish, CloseListener,
             CloseDone, Inspect, RemoveOwn, Unlock, Return, Reset, Crash, TypeOK, Here, Alone
    <2>4. pc'[p] = "bind" => node'[Here(p)'] = 0
      <3>1. CASE Unlink(p)
        <4>1. Here(p) \in Path
          BY <3>1, HereIsNext DEF Unlink, Working
        <4> QED BY <1>0, <3>1, <4>1 DEF Unlink, Here, TypeOK
      <3> QED
        BY <1>0, <1>2, <1>3, <3>1
           DEF Run, Locking, Binding, Teardown, OpenLock, Flock, FlockFails, Interrupt, Look,
               Probe, Recheck, Bind, BindFails, Listen, Identify, Cancel, Finish, CloseListener,
               CloseDone, Inspect, RemoveOwn, Unlock, Return, Reset, Crash, TypeOK, Here, Alone
    <2> QED BY <2>1, <2>2, <2>3, <2>4 DEF Alone
  <1> QED BY <1>1, <1>3

\* The variables keep their types.
LEMMA TypeKept ==
  ASSUME IInv, NEW p \in Proc, Run(p) \/ Crash(p)
  PROVE  TypeOK'
  <1> USE BoundAssumption DEF sockets, locking, working, GoTo
  <1>0. TypeOK /\ Stage(p) /\ listeners[p] \in Seq(Listener)
    BY DEF IInv, TypeOK
  <1>1. CASE Start(p) \/ Cancel(p)
    BY <1>0, <1>1 DEF Start, Cancel, TypeOK, Starting
  <1>2. CASE OpenLock(p)
    <2>1. NextLock(p) \in Path /\ (lockFile[NextLock(p)] = 0 => FreshFile(NextLock(p)) \in File)
      <3>1. NextLock(p) \in Path
        BY <1>0, <1>2, NextLockIsFree DEF OpenLock, Stage, Path
      <3>2. lockFile[NextLock(p)] = 0 =>
              /\ \A l \in locks : l[2] # NextLock(p)
              /\ \A q \in Proc : pc[q] = "flock" => NextLock(q) # NextLock(p)
        BY <1>0 DEF IInv, Locks, TypeOK, File
      <3>3. lockFile[NextLock(p)] = 0 => FreshFile(NextLock(p)) \in File
        BY <3>2 DEF FreshFile, File
      <3> QED BY <3>1, <3>3
    <2>2. lockFile' \in [Path -> 0 .. MaxFile] /\ lockFile'[NextLock(p)] \in 0 .. MaxFile
      BY <1>0, <1>2, <2>1 DEF OpenLock, TypeOK, File
    <2>3. opened' \in [Proc -> 0 .. MaxFile]
      BY <1>0, <1>2, <2>2 DEF OpenLock, TypeOK
    <2> QED BY <1>0, <1>2, <2>2, <2>3 DEF OpenLock, TypeOK, Starting
  <1>3. CASE Flock(p)
    <2>1. NextLock(p) \in Path /\ opened[p] \in File
      BY <1>0, <1>3, NextLockIsFree DEF Flock, IInv, Locks, Stage, Path, TypeOK, File
    <2> QED BY <1>0, <1>3, <2>1 DEF Flock, TypeOK, Starting
  <1>4. CASE FlockFails(p) \/ Unlock(p)
    <2>1. CASE FlockFails(p)
      BY <1>0, <2>1 DEF FlockFails, TypeOK, Stopping
    <2>2. CASE Unlock(p)
      <3>1. locks' \subseteq locks
        BY <2>2 DEF Unlock
      <3> QED BY <1>0, <2>2, <3>1 DEF Unlock, TypeOK
    <2> QED BY <1>4, <2>1, <2>2
  <1>5. CASE Interrupt(p) \/ Probe(p) \/ BindFails(p) \/ Finish(p) \/ CloseDone(p)
    BY <1>0, <1>5
       DEF Interrupt, Probe, BindFails, Finish, CloseDone, TypeOK, Starting, Stopping
  <1>6. CASE Look(p) \/ Recheck(p) \/ Unlink(p) \/ Bind(p) \/ Identify(p)
    <2>1. Here(p) \in Path
      BY <1>6, HereIsNext DEF Look, Recheck, Unlink, Bind, Identify, Working
    <2>2. CASE Look(p)
      BY <1>0, <2>1, <2>2 DEF Look, TypeOK, Starting
    <2>3. CASE Unlink(p)
      BY <1>0, <2>1, <2>3 DEF Unlink, TypeOK, Starting
    <2>4. CASE Bind(p)
      BY <1>0, <2>1, <2>4 DEF Bind, Make, TypeOK, Starting, Inode
    <2>5. CASE Identify(p)
      <3>1. bound[p] \in Inode
        BY <1>0, <2>5 DEF Identify, Stage, TypeOK, Inode
      <3>2. node[Here(p)] \in Inode
        BY <1>0, <2>1, <2>5, <3>1 DEF Identify, IInv, Reachable, Leads, TypeOK, Inode
      <3>3. [path |-> Here(p), inode |-> bound[p], identity |-> node[Here(p)]] \in Listener
        BY <2>1, <3>1, <3>2 DEF Listener
      <3>4. Append(listeners[p], [path |-> Here(p), inode |-> bound[p],
                                  identity |-> node[Here(p)]]) \in Seq(Listener)
        BY <1>0, <3>3 DEF TypeOK
      <3>5. listeners' \in [Proc -> Seq(Listener)] /\ bound' \in [Proc -> 0 .. MaxInode]
        BY <1>0, <2>5, <3>4 DEF Identify, TypeOK
      <3>6. pc' \in [Proc -> {"off", "serving"} \cup Starting \cup Stopping]
        BY <1>0, <2>5 DEF Identify, TypeOK, Starting
      <3> QED BY <1>0, <2>5, <3>5, <3>6 DEF Identify, TypeOK
    <2>6. CASE Recheck(p)
      BY <1>0, <2>1, <2>6 DEF Recheck, TypeOK, Starting, Stopping
    <2> QED BY <1>6, <2>2, <2>3, <2>4, <2>5, <2>6
  <1>7. CASE Listen(p)
    <2>1. bound[p] \in Inode
      BY <1>0, <1>7 DEF Listen, Stage, TypeOK, Inode
    <2> QED BY <1>0, <1>7, <2>1 DEF Listen, TypeOK, Starting
  <1>8. CASE CloseListener(p) \/ Return(p) \/ Crash(p)
    <2>1. live' \subseteq live /\ locks' \subseteq locks
      BY <1>8 DEF CloseListener, Return, Crash
    <2>2. UNCHANGED <<node, made, maker, lockFile, disturbed>>
      BY <1>8 DEF CloseListener, Return, Crash
    <2>3. CASE CloseListener(p)
      BY <1>0, <2>1, <2>2, <2>3 DEF CloseListener, TypeOK, Stopping
    <2>4. CASE Reset(p)
      <3>1. listeners' \in [Proc -> Seq(Listener)]
        BY <1>0, <2>4 DEF Reset, TypeOK
      <3>2. /\ pc' \in [Proc -> {"off", "serving"} \cup Starting \cup Stopping]
            /\ opened' \in [Proc -> 0 .. MaxFile] /\ stop' \in [Proc -> BOOLEAN]
            /\ seen' \in [Proc -> 0 .. MaxInode] /\ bound' \in [Proc -> 0 .. MaxInode]
        BY <1>0, <2>4 DEF Reset, TypeOK
      <3> QED BY <1>0, <2>1, <2>2, <3>1, <3>2 DEF TypeOK
    <2> QED BY <1>8, <2>3, <2>4 DEF Return, Crash
  <1>9. CASE Inspect(p) \/ RemoveOwn(p)
    <2>1. /\ First(p) \in Listener /\ First(p).path \in Path
          /\ Tail(listeners[p]) \in Seq(Listener)
      <3>1. listeners[p] # <<>>
        BY <1>0, <1>9 DEF Inspect, RemoveOwn, Stage
      <3>2. First(p) \in Listener /\ Tail(listeners[p]) \in Seq(Listener)
        BY <1>0, <3>1 DEF First
      <3> QED BY <3>2 DEF Listener
    <2>2. CASE Inspect(p)
      BY <1>0, <2>1, <2>2 DEF Inspect, Drop, TypeOK, Stopping
    <2>3. CASE RemoveOwn(p)
      BY <1>0, <2>1, <2>3 DEF RemoveOwn, Drop, TypeOK, Stopping
    <2> QED BY <1>9, <2>2, <2>3
  <1> QED
    BY <1>1, <1>2, <1>3, <1>4, <1>5, <1>6, <1>7, <1>8, <1>9
       DEF Run, Locking, Binding, Teardown

-----------------------------------------------------------------------------
\* Another program's socket is in nobody's way but where it is,
LEMMA ForeignReplaces ==
  ASSUME IInv, NEW x \in Path, ForeignReplace(x)
  PROVE  IInv'
  <1> USE BoundAssumption, ProcAssumption DEF locking, working
  <1>0. /\ TypeOK /\ Locks /\ Numbered /\ made \in Nat
        /\ UNCHANGED <<lockFile, locks, pc, opened, seen, bound, listeners, stop>>
    BY DEF IInv, TypeOK, ForeignReplace
  <1>1. /\ made' = made + 1 /\ made' \in Inode
        /\ node' = [node EXCEPT ![x] = made']
        /\ maker' = [maker EXCEPT ![made'] = Foreign]
        /\ live' = live \cup {made'}
        /\ disturbed' = [p \in Proc |-> TRUE]
    BY <1>0 DEF ForeignReplace, Make, TypeOK, Inode
  <1>2. /\ \A k \in Inode : k <= made => maker'[k] = maker[k]
        /\ \A y \in Path : y # x => node'[y] = node[y]
        /\ node'[x] = made' /\ maker'[made'] = Foreign
        /\ \A k \in live : k \in Inode /\ k <= made
        /\ \A y \in Path : node[y] \in Nat /\ node[y] <= made
    BY <1>0, <1>1 DEF TypeOK, Numbered, Inode
  <1>3. TypeOK'
    BY <1>0, <1>1 DEF TypeOK, Inode
  <1>4. Locks'
    BY <1>0 DEF Locks, Held, NextLock
  <1>5. Numbered'
    <2>1. \A k \in live' : /\ k = made' \/ (k \in Nat /\ k <= made)
                           /\ maker'[k] # None
      BY <1>0, <1>1, <1>2 DEF Inode, Numbered
    <2>2. \A y \in Path : node'[y] = made' \/ (node'[y] \in Nat /\ node'[y] <= made)
      BY <1>2
    <2> QED BY <1>0, <1>1, <2>1, <2>2 DEF Numbered
  <1>6. ASSUME NEW p \in Proc
        PROVE  /\ Stage(p)' /\ Own(p)' /\ Reachable(p)'
               /\ Placed(p)' /\ InOrder(p)' /\ Looked(p)' /\ Alone(p)'
    <2> DEFINE ls == listeners[p]
    <2>1. /\ \A i \in DOMAIN ls : ls[i].inode \in Inode /\ ls[i].inode <= made
          /\ ls \in Seq(Listener)
      <3>1. ls \in Seq(Listener)
        BY <1>0 DEF TypeOK
      <3>2. \A i \in DOMAIN ls : ls[i] \in Listener
        BY <3>1
      <3> QED BY <3>1, <3>2 DEF IInv, Own, Listener
    <2>2. ls # <<>> => Head(ls).inode # made'
      <3>1. ls # <<>> => 1 \in DOMAIN ls /\ Head(ls) = ls[1]
        BY <2>1
      <3>2. \A i \in DOMAIN ls : ls[i].inode # made'
        BY <1>0, <1>1, <2>1 DEF Inode
      <3> QED BY <3>1, <3>2
    <2>3. Stage(p)'
      BY <1>0, <1>1, <2>2 DEF IInv, Stage, Held
    <2>4. Own(p)'
      <3>1. Own(p)
        BY DEF IInv
      <3>2. bound[p] # 0 => bound[p] <= made' /\ maker'[bound[p]] = p
        BY <1>0, <1>1, <1>2, <3>1 DEF Own, TypeOK, Inode
      <3>3. \A i \in DOMAIN ls : /\ ls[i].inode <= made' /\ maker'[ls[i].inode] = p
                                 /\ ls[i].path \in PathsOf(p)
        BY <1>0, <1>1, <1>2, <2>1, <3>1 DEF Own, Inode
      <3>4. ASSUME NEW k \in live', maker'[k] = p
            PROVE  bound[p] = k \/ \E i \in DOMAIN ls : ls[i].inode = k
        BY <1>1, <1>2, <3>1, <3>4 DEF Own
      <3> QED BY <1>0, <3>2, <3>3, <3>4 DEF Own
    <2>5. \A y \in Path, k \in Nat : Leads(y, k) => Leads(y, k)'
      BY <1>0, <1>1, <1>2 DEF Leads, TypeOK, Inode
    <2>6. pc[p] \in Working => Here(p) \in Path /\ Here(p)' = Here(p)
      BY <1>0, HereIsNext DEF Here
    <2>7. \A i \in DOMAIN ls : ls[i].path \in Path
      BY DEF IInv, Own, Path
    <2>8. Reachable(p)'
      <3>1. pc[p] \in {"listen", "identify"} => bound[p] \in Nat
        BY <1>0 DEF TypeOK
      <3>2. \A i \in DOMAIN ls : ls[i].inode \in Nat
        BY <2>1 DEF Inode
      <3>3. pc[p] \in {"listen", "identify"} => Leads(Here(p), bound[p])'
        BY <1>0, <2>5, <2>6, <3>1 DEF IInv, Reachable, Working
      <3>4. ASSUME pc[p] \in Working \cup {"serving"}, NEW i \in DOMAIN ls
            PROVE  ls[i].path = Sockets[p][i] /\ Leads(Sockets[p][i], ls[i].inode)'
        BY <1>0, <2>5, <2>7, <3>2, <3>4 DEF IInv, Reachable
      <3> QED BY <1>0, <3>3, <3>4 DEF Reachable
    <2>9. Placed(p)'
      <3>1. bound[p] \in Nat /\ bound[p] <= made
        BY <1>0 DEF IInv, TypeOK, Own
      <3>2. \A y \in Path : node'[y] = node[y] \/ node'[y] = made + 1
        BY <1>1, <1>2
      <3>3. Here(p)' = Here(p)
        BY <1>0 DEF Here
      <3> QED BY <1>0, <2>1, <3>1, <3>2, <3>3 DEF IInv, Placed, Inode
    <2>10. InOrder(p)'
      BY <1>0 DEF IInv, InOrder, Held
    <2>11. Looked(p)'
      <3>1. seen[p] \in Nat /\ seen[p] <= made /\ (seen[p] # 0 => seen[p] \in Inode)
        BY <1>0 DEF IInv, TypeOK, Looked, Inode
      <3>2. /\ Here(p)' = Here(p) /\ First(p)' = First(p)
            /\ pc[p] \in {"recheck", "unlink"} => Here(p) \in Path
        BY <1>0, HereIsNext DEF Here, First, Working
      <3>3. \A y \in Path : node'[y] = node[y] \/ node'[y] = made + 1
        BY <1>1, <1>2
      <3> QED BY <1>0, <1>1, <1>2, <3>1, <3>2, <3>3 DEF IInv, Looked
    <2>12. Alone(p)'
      BY <1>1 DEF Alone
    <2> QED BY <2>3, <2>4, <2>8, <2>9, <2>10, <2>11, <2>12
  <1> QED BY <1>3, <1>4, <1>5, <1>6 DEF IInv

\* and no less so when it has died.
LEMMA ForeignEnds ==
  ASSUME IInv, NEW k \in Inode, ForeignDies(k)
  PROVE  IInv'
  <1>1. /\ live' \subseteq live
        /\ UNCHANGED <<node, made, maker, lockFile, locks, opened, pc, seen, bound, listeners,
                       stop, disturbed>>
    BY DEF ForeignDies, locking, working
  <1>2. TypeOK' /\ Locks' /\ Numbered'
    BY <1>1 DEF IInv, TypeOK, Locks, Numbered, Held, NextLock
  <1>3. ASSUME NEW p \in Proc
        PROVE  /\ Stage(p)' /\ Own(p)' /\ Reachable(p)'
               /\ Placed(p)' /\ InOrder(p)' /\ Looked(p)' /\ Alone(p)'
    <2>1. Stage(p)'
      BY <1>1 DEF IInv, Stage, Held
    <2>2. Own(p)'
      BY <1>1 DEF IInv, Own
    <2>3. Reachable(p)'
      BY <1>1 DEF IInv, Reachable, Here, Leads
    <2>4. Placed(p)' /\ InOrder(p)' /\ Looked(p)' /\ Alone(p)'
      BY <1>1 DEF IInv, Placed, InOrder, Looked, Alone, Held, Here, First, ForeignAt
    <2> QED BY <2>1, <2>2, <2>3, <2>4
  <1> QED BY <1>2, <1>3 DEF IInv

\* Every step keeps the invariant.
LEMMA Inductive == IInv /\ [Next]_vars => IInv'
  <1> SUFFICES ASSUME IInv, [Next]_vars PROVE IInv'
    OBVIOUS
  <1>1. ASSUME NEW p \in Proc, Run(p) \/ Crash(p)
        PROVE  IInv'
    <2>1. TypeOK' /\ Locks' /\ Numbered'
      BY <1>1, TypeKept, LocksKept, NumberedKept
    <2>2. /\ Stage(p)' /\ Own(p)' /\ Reachable(p)'
          /\ Placed(p)' /\ InOrder(p)' /\ Looked(p)' /\ Alone(p)'
      BY <1>1, StageKept, OwnKept, ReachableKept, PlacedKept, InOrderKept, LookedKept, AloneKept
    <2>3. \A q \in Proc \ {p} : /\ Stage(q)' /\ Own(q)' /\ Reachable(q)'
                                /\ Placed(q)' /\ InOrder(q)' /\ Looked(q)' /\ Alone(q)'
      BY <1>1, OthersKeep
    <2> QED BY <2>1, <2>2, <2>3 DEF IInv
  <1>2. CASE UNCHANGED vars
    <2>1. TypeOK' /\ Locks' /\ Numbered'
      BY <1>2 DEF vars, IInv, TypeOK, Locks, Numbered, Held, NextLock
    <2>2. \A p \in Proc : Stage(p)' /\ Reachable(p)'
      BY <1>2 DEF vars, IInv, Stage, Reachable, Held, Here, Leads
    <2>3. \A p \in Proc : Own(p)' /\ Placed(p)' /\ InOrder(p)' /\ Looked(p)' /\ Alone(p)'
      BY <1>2 DEF vars, IInv, Own, Placed, InOrder, Looked, Alone, Held, Here, First, ForeignAt
    <2> QED BY <2>1, <2>2, <2>3 DEF IInv
  <1> QED BY <1>1, <1>2, ForeignReplaces, ForeignEnds DEF Next

\* The invariant holds throughout.
LEMMA Invariance == Spec => []IInv
  BY Initially, Inductive, PTL DEF Spec

-----------------------------------------------------------------------------
\* The variables keep their types.
THEOREM TypeCorrect == Spec => []TypeOK
  <1>1. IInv => TypeOK
    BY DEF IInv
  <1> QED BY <1>1, Invariance, PTL

\* A proxy's socket accepts only while that proxy alone holds the lock of the path it
\* has put this socket at.
THEOREM ServesUnderLock == Spec => []BoundUnderLock
  <1>1. IInv => BoundUnderLock
    <2> SUFFICES ASSUME IInv, NEW k \in live, NEW p \in Proc, maker[k] = p
                 PROVE  \E x \in Held(p) :
                          /\ \A q \in Proc \ {p} : x \notin Held(q)
                          /\ \/ bound[p] = k /\ x = Here(p)
                             \/ \E i \in DOMAIN listeners[p] :
                                  listeners[p][i].inode = k /\ listeners[p][i].path = x
      BY DEF BoundUnderLock
    <2>1. bound[p] = k \/ \E i \in DOMAIN listeners[p] : listeners[p][i].inode = k
      BY DEF IInv, Own
    <2>2. bound[p] # 0 \/ listeners[p] # <<>>
      BY <2>1 DEF IInv, TypeOK, Inode
    <2>3. pc[p] \in Settled
      BY <2>2 DEF IInv, Stage, TypeOK, Settled, Working, Starting, Stopping
    <2>4. ASSUME NEW x \in PathsOf(p)
          PROVE  x \in Held(p) /\ \A q \in Proc \ {p} : x \notin Held(q)
      <3>1. x \in Held(p)
        BY <2>3 DEF IInv, Stage
      <3> QED BY <3>1 DEF IInv, Locks, Held
    <2>5. CASE bound[p] = k
      <3>1. pc[p] \in Working
        BY <2>5 DEF IInv, Stage, TypeOK, Inode, Working
      <3>2. Here(p) \in PathsOf(p)
        BY <3>1, HereIsNext
      <3> QED BY <2>4, <2>5, <3>2
    <2>6. CASE \E i \in DOMAIN listeners[p] : listeners[p][i].inode = k
      <3>1. PICK i \in DOMAIN listeners[p] : listeners[p][i].inode = k
        BY <2>6
      <3>2. listeners[p][i].path \in PathsOf(p)
        BY DEF IInv, Own
      <3> QED BY <2>4, <3>1, <3>2
    <2> QED BY <2>1, <2>5, <2>6
  <1> QED BY <1>1, Invariance, PTL

\* No other proxy takes the socket of one that serves for stale.
THEOREM ServersKeepSockets == Spec => []ServingReachable
  <1>1. IInv => ServingReachable
    BY DEF IInv, Reachable, Leads, ServingReachable
  <1> QED BY <1>1, Invariance, PTL

\* A process that starts alone gets its sockets, whatever has been left behind.
THEOREM AloneGetsSockets == Spec => AloneServes
  <1>1. ASSUME IInv, [Next]_vars, NEW p \in Proc, pc[p] \in Starting, pc'[p] \in Stopping
        PROVE  disturbed[p] \/ stop[p]
    <2> SUFFICES ASSUME ~disturbed[p], ~stop[p] PROVE FALSE
      OBVIOUS
    <2> USE <1>1 DEF sockets, locking, working, GoTo
    <2>0. /\ TypeOK /\ Stage(p) /\ Alone(p) /\ pc[p] # pc'[p]
          /\ \A q \in Proc \ {p} : pc[q] = "off"
      BY DEF IInv, Alone, Starting, Stopping
    <2>1. ~FlockFails(p)
      <3> SUFFICES ASSUME FlockFails(p) PROVE FALSE
        OBVIOUS
      <3>1. PICK l \in locks : l[2] = NextLock(p)
        BY DEF FlockFails, CanLock
      <3>2. l[1] \in Proc /\ l[2] \in Held(l[1])
        BY <2>0 DEF TypeOK, Held
      <3>3. NextLock(p) \notin Held(p)
        BY NextLockIsFree DEF FlockFails, IInv, Stage
      <3>4. l[1] # p => Held(l[1]) = {}
        BY <2>0, <3>2 DEF IInv, Stage
      <3> QED BY <3>1, <3>2, <3>3, <3>4
    <2>2. ~(Probe(p) /\ node[Here(p)] \in live)
      <3> SUFFICES ASSUME Probe(p), node[Here(p)] \in live PROVE FALSE
        OBVIOUS
      <3> DEFINE k == node[Here(p)]
                 r == maker[k]
      <3>1. /\ Here(p) \in PathsOf(p) /\ Here(p) \in Path
            /\ \A i \in DOMAIN listeners[p] : Here(p) # Sockets[p][i]
        BY HereIsNext DEF Probe, Working
      <3>2. k \in Inode /\ r \in Proc /\ k # 0
        BY <2>0, <3>1, BoundAssumption
           DEF IInv, Alone, ForeignAt, TypeOK, Numbered, Inode
      <3>3. bound[r] = k \/ \E i \in DOMAIN listeners[r] : listeners[r][i].inode = k
        BY <3>2 DEF IInv, Own
      <3>4. r = p
        BY <2>0, <3>2, <3>3 DEF IInv, Stage
      <3>5. bound[p] = 0
        BY <2>0 DEF Probe, Stage
      <3>6. PICK i \in DOMAIN listeners[p] : listeners[p][i].inode = k
        BY <3>2, <3>3, <3>4, <3>5
      <3>7. listeners[p][i].path = Here(p)
        BY <3>1, <3>6 DEF IInv, Placed
      <3>8. listeners[p][i].path = Sockets[p][i]
        BY DEF Probe, IInv, Reachable, Working
      <3> QED BY <3>1, <3>7, <3>8
    <2>3. /\ ~Interrupt(p) /\ ~BindFails(p)
          /\ Probe(p) => pc'[p] = "recheck"
          /\ Recheck(p) => pc'[p] \in {"bind", "unlink"}
      BY <2>0, <2>2 DEF Interrupt, BindFails, Probe, Recheck, Alone, Starting, TypeOK
    <2>4. Run(p) \/ Crash(p)
      <3>1. \A q \in Proc \ {p} : ~Run(q) /\ ~Crash(q)
        BY <2>0, OthersStay
      <3> QED BY <2>0, <3>1 DEF Next, ForeignReplace, ForeignDies, vars
    <2> QED
      BY <2>0, <2>1, <2>3, <2>4
         DEF Run, Locking, Binding, Teardown, Start, OpenLock, Flock, Look, Probe, Recheck, Unlink,
             Bind, Listen, Identify, Cancel, Finish, CloseListener, CloseDone, Inspect,
             RemoveOwn, Unlock, Return, Reset, Crash, Starting, Stopping, TypeOK
  <1>2. IInv /\ [Next]_vars =>
          [\A p \in Proc : pc[p] \in Starting /\ pc'[p] \in Stopping
                          => disturbed[p] \/ stop[p]]_vars
    BY <1>1
  <1> QED BY <1>2, Invariance, PTL DEF Spec, AloneServes

\* Whoever is refused a lock holds none that its holder needs.
THEOREM RefusedHoldNothingNeeded == Spec => WinnerTakesAll
  <1>1. ASSUME IInv, NEW p \in Proc, NEW q \in Proc, FlockFails(p), NextLock(p) \in Held(q)
        PROVE  Held(p) \cap PathsOf(q) = {}
    <2> SUFFICES ASSUME NEW x \in Held(p), x \in PathsOf(q) PROVE FALSE
      OBVIOUS
    <2>1. NextLock(p) \in PathsOf(p) \ Held(p)
      BY <1>1, NextLockIsFree DEF FlockFails, IInv, Stage
    <2>2. x < NextLock(p)
      BY <1>1, <2>1 DEF IInv, InOrder
    <2>3. x \in Nat /\ NextLock(p) \in Nat
      BY <2>1, PathAssumption DEF PathsOf
    <2>4. x \in Held(q)
      BY <1>1, <2>2, <2>3 DEF IInv, InOrder
    <2>5. p = q
      BY <1>1, <2>4 DEF Held, IInv, Locks
    <2> QED BY <1>1, <2>1, <2>5
  <1>2. IInv /\ [Next]_vars =>
          [\A p, q \in Proc : FlockFails(p) /\ NextLock(p) \in Held(q)
             => Held(p) \cap PathsOf(q) = {}]_vars
    BY <1>1
  <1> QED BY <1>2, Invariance, PTL DEF Spec, WinnerTakesAll

\* Another program's socket that accepts is removed only at the path a process works
\* on, and only if it came after that process' last look there, or before the listener's
\* first, which takes it for its own.
THEOREM OthersSocketsStay == Spec => ForeignKept
  <1> DEFINE Excused(x) ==
        \E p \in Proc :
          \/ pc[p] = "unlink" /\ x = Here(p) /\ seen[p] # node[x]
          \/ /\ pc[p] = "remove" /\ x = First(p).path
             /\ seen[p] # node[x] \/ First(p).identity = node[x]
  <1>1. ASSUME IInv, [Next]_vars, NEW x \in Path, ForeignAt(x), node'[x] = 0
        PROVE  Excused(x)
    <2> USE <1>1 DEF sockets, locking, working, GoTo
    <2>1. /\ TypeOK /\ node[x] # 0 /\ node'[x] # node[x]
          /\ \A p \in Proc : Looked(p)
      BY BoundAssumption DEF IInv, TypeOK, ForeignAt, Inode
    <2>2. ASSUME NEW p \in Proc, Unlink(p)
          PROVE  Excused(x)
      <3>1. x = Here(p)
        BY <2>1, <2>2 DEF Unlink, TypeOK
      <3>2. seen[p] # node[x]
        BY <2>1, <2>2, <3>1 DEF Looked, ForeignAt, Unlink
      <3> QED BY <2>2, <3>1, <3>2 DEF Unlink
    <2>3. ASSUME NEW p \in Proc, RemoveOwn(p)
          PROVE  Excused(x)
      <3>1. x = First(p).path
        BY <2>1, <2>3 DEF RemoveOwn, TypeOK
      <3> QED BY <2>1, <2>3, <3>1 DEF Looked, RemoveOwn
    <2>4. ASSUME NEW y \in Path, NEW who, Make(y, who)
          PROVE  FALSE
      BY <2>1, <2>4, BoundAssumption DEF Make, TypeOK
    <2>5. \/ node' = node
          \/ \E p \in Proc : Unlink(p) \/ Bind(p) \/ RemoveOwn(p)
          \/ \E y \in Path : ForeignReplace(y)
      BY DEF Next, Run, Locking, Binding, Teardown, Start, OpenLock, Flock, FlockFails, Interrupt,
             Look, Probe, Recheck, BindFails, Listen, Identify, Cancel, Finish, CloseListener,
             CloseDone, Inspect, Unlock, Return, Crash, ForeignDies, vars
    <2>6. ASSUME NEW p \in Proc, Bind(p)
          PROVE  FALSE
      <3>1. Here(p) \in Path
        BY <2>6, HereIsNext DEF Bind, Working
      <3> QED BY <2>4, <2>6, <3>1 DEF Bind
    <2> QED BY <2>1, <2>2, <2>3, <2>4, <2>5, <2>6 DEF ForeignReplace
  <1>2. IInv /\ [Next]_vars => [\A x \in Path : ForeignAt(x) /\ node'[x] = 0 => Excused(x)]_vars
    BY <1>1
  <1> QED BY <1>2, Invariance, PTL DEF Spec, ForeignKept

-----------------------------------------------------------------------------
(***************************************************************************)
(* Where the sockets come from: the paths a configuration is accepted with *)
(* lead to files of their own, over any directories and links.             *)
(***************************************************************************)
\* What holds of 0 and passes from each number to the next holds up to N.
LEMMA UpToN ==
  ASSUME NEW N \in Nat, NEW S \in SUBSET (0 .. N),
         0 \in S, \A n \in 1 .. N : n - 1 \in S => n \in S
  PROVE  S = 0 .. N
  <1> SUFFICES ASSUME (0 .. N) \ S # {} PROVE FALSE
    OBVIOUS
  <1>1. PICK n \in (0 .. N) \ S : \A m \in (0 .. N) \ S : n <= m
    <2>1. (0 .. N) \ S \in SUBSET Nat
      OBVIOUS
    <2> QED BY <2>1, Lowest
  <1>2. n \in 1 .. N /\ n - 1 \in 0 .. N
    BY <1>1
  <1>3. n - 1 \in S
    BY <1>1, <1>2
  <1> QED BY <1>1, <1>2, <1>3

\* w goes from x, step after step.
Walk(w, S, step, x) ==
  /\ w \in [0 .. LinkLimit -> S]
  /\ w[0] = x
  /\ \A n \in 1 .. LinkLimit : w[n] = step[w[n - 1]]

\* Following steps is walking LinkLimit of them.
LEMMA FollowIsWalk ==
  ASSUME LinkLimit \in Nat, NEW S, NEW step \in [S -> S], NEW x \in S
  PROVE  \E w : Walk(w, S, step, x) /\ Follow(step, x) = w[LinkLimit]
  <1> DEFINE Whole(w) == w = [n \in 0 .. LinkLimit |-> IF n = 0 THEN x ELSE step[w[n - 1]]]
             Part(m, w) == w \in [0 .. m -> S] /\ w[0] = x
                             /\ \A n \in 1 .. m : w[n] = step[w[n - 1]]
             Reached == {m \in 0 .. LinkLimit : \E w : Part(m, w)}
  <1>1. 0 \in Reached
    <2>1. Part(0, [n \in 0 .. 0 |-> x])
      OBVIOUS
    <2> HIDE DEF Part
    <2> QED BY <2>1
  <1>2. ASSUME NEW m \in 1 .. LinkLimit, m - 1 \in Reached PROVE m \in Reached
    <2>1. PICK w : Part(m - 1, w)
      <3> HIDE DEF Part
      <3> QED BY <1>2
    <2>2. PICK v : v = [n \in 0 .. m |-> IF n = m THEN step[w[m - 1]] ELSE w[n]]
      OBVIOUS
    <2>3. w[m - 1] \in S
      BY <2>1
    <2>4. v \in [0 .. m -> S] /\ v[0] = x
      BY <2>1, <2>2, <2>3
    <2>5. ASSUME NEW n \in 1 .. m PROVE v[n] = step[v[n - 1]]
      <3>1. CASE n = m
        BY <3>1, <2>2
      <3>2. CASE n # m
        BY <3>2, <2>1, <2>2
      <3> QED BY <3>1, <3>2
    <2> QED BY <2>4, <2>5
  <1>3. Reached = 0 .. LinkLimit
    <2>1. Reached \in SUBSET (0 .. LinkLimit)
      OBVIOUS
    <2> HIDE DEF Reached
    <2> QED BY <1>1, <1>2, <2>1, UpToN
  <1>4. PICK w : Part(LinkLimit, w)
    <2>1. LinkLimit \in Reached
      BY <1>3
    <2> QED BY <2>1
  <1>5. Whole(w)
    BY <1>4
  <1>6. \A v : Whole(v) => v = w
    <2> SUFFICES ASSUME NEW v, Whole(v) PROVE v = w
      OBVIOUS
    <2> DEFINE Same == {n \in 0 .. LinkLimit : v[n] = w[n]}
    <2>1. 0 \in Same
      BY <1>5
    <2>2. ASSUME NEW n \in 1 .. LinkLimit, n - 1 \in Same PROVE n \in Same
      BY <2>2, <1>5
    <2>3. Same = 0 .. LinkLimit
      <3>1. Same \in SUBSET (0 .. LinkLimit)
        OBVIOUS
      <3> HIDE DEF Same
      <3> QED BY <2>1, <2>2, <3>1, UpToN
    <2> QED BY <2>3, <1>5
  <1>7. (CHOOSE v : Whole(v)) = w
    BY <1>5, <1>6
  <1>8. Follow(step, x) = (CHOOSE v : Whole(v))[LinkLimit]
    BY DEF Follow
  <1> QED BY <1>4, <1>7, <1>8 DEF Walk

\* Following stays in S, and at x when no step leads from there.
LEMMA FollowStays ==
  ASSUME LinkLimit \in Nat, NEW S, NEW step \in [S -> S], NEW x \in S
  PROVE  /\ Follow(step, x) \in S
         /\ step[x] = x => Follow(step, x) = x
  <1>1. PICK w : Walk(w, S, step, x) /\ Follow(step, x) = w[LinkLimit]
    BY FollowIsWalk
  <1>2. ASSUME step[x] = x PROVE w[LinkLimit] = x
    <2> DEFINE Here0 == {n \in 0 .. LinkLimit : w[n] = x}
    <2>1. 0 \in Here0
      BY <1>1 DEF Walk
    <2>2. ASSUME NEW n \in 1 .. LinkLimit, n - 1 \in Here0 PROVE n \in Here0
      BY <1>1, <1>2, <2>2 DEF Walk
    <2>3. Here0 = 0 .. LinkLimit
      <3>1. Here0 \in SUBSET (0 .. LinkLimit)
        OBVIOUS
      <3> HIDE DEF Here0
      <3> QED BY <2>1, <2>2, <3>1, UpToN
    <2> QED BY <2>3
  <1> QED BY <1>1, <1>2 DEF Walk

\* Two walks agree until the first ends in a set it does not leave.
LEMMA FollowTogether ==
  ASSUME LinkLimit \in Nat,
         NEW S, NEW step \in [S -> S], NEW T, NEW other \in [T -> T],
         NEW x \in S, x \in T, NEW Ends \in SUBSET S,
         \A y \in Ends : step[y] \in Ends,
         \A y \in S \ Ends : y \in T /\ (step[y] \in Ends \/ other[y] = step[y])
  PROVE  \/ Follow(step, x) \in Ends
         \/ Follow(other, x) = Follow(step, x)
  <1>1. PICK w : Walk(w, S, step, x) /\ Follow(step, x) = w[LinkLimit]
    BY FollowIsWalk
  <1>2. PICK v : Walk(v, T, other, x) /\ Follow(other, x) = v[LinkLimit]
    BY FollowIsWalk
  <1> DEFINE Agree == {n \in 0 .. LinkLimit : w[n] \in Ends \/ v[n] = w[n]}
  <1>3. 0 \in Agree
    BY <1>1, <1>2 DEF Walk
  <1>4. ASSUME NEW n \in 1 .. LinkLimit, n - 1 \in Agree PROVE n \in Agree
    <2>1. w[n] = step[w[n - 1]] /\ v[n] = other[v[n - 1]] /\ w[n - 1] \in S
      BY <1>1, <1>2 DEF Walk
    <2> QED BY <1>4, <2>1
  <1>5. Agree = 0 .. LinkLimit
    <2>1. Agree \in SUBSET (0 .. LinkLimit)
      OBVIOUS
    <2> HIDE DEF Agree
    <2> QED BY <1>3, <1>4, <2>1, UpToN
  <1> QED BY <1>1, <1>2, <1>5

\* The file system and the configuration as they are at startup.
ConfigTyped ==
  /\ dirs \in [Dir -> {"real", "missing"} \cup Dir]
  /\ there \subseteq {p \in SocketPath : dirs[p[1]] = "real"}
  /\ Linked \subseteq {p \in SocketPath : dirs[p[1]] = "real"}
  /\ link \in [Linked -> SocketPath]
  /\ upstream \in SocketPath
  /\ socket \in [Group -> SocketPath]
  /\ enabled \in SUBSET Group

\* What the constants of a file system are: no directory is called like a failure.
FileSystem ==
  /\ {"real", "missing", "loop"} \cap Dir = {}
  /\ LinkLimit \in Nat
  /\ Upstreams \subseteq SocketPath

LEMMA ConfigIsTyped ==
  ASSUME FileSystem, ConfigurationInputs
  PROVE  ConfigTyped
  <1>1. PICK from \in SUBSET ({p \in SocketPath : dirs[p[1]] = "real"} \ there) :
          link \in [from -> SocketPath]
    BY DEF ConfigurationInputs
  <1>2. Linked = from
    BY <1>1 DEF Linked
  <1> QED BY <1>1, <1>2 DEF ConfigurationInputs, ConfigTyped, FileSystem

DirStep == [e \in Dir |-> IF dirs[e] \in Dir THEN dirs[e] ELSE e]

\* A directory leads to one, and to itself unless it is a link.
LEMMA DirLeads ==
  ASSUME FileSystem, ConfigTyped, NEW d \in Dir
  PROVE  /\ LeadsTo(d) \in Dir
         /\ dirs[d] \notin Dir => LeadsTo(d) = d
  <1>1. DirStep \in [Dir -> Dir] /\ LeadsTo(d) = Follow(DirStep, d)
    BY DEF DirStep, LeadsTo
  <1>2. LinkLimit \in Nat
    BY DEF FileSystem
  <1>3. dirs[d] \notin Dir => DirStep[d] = d
    BY DEF DirStep
  <1> QED BY <1>1, <1>2, <1>3, FollowStays

\* EvalSymlinks finds the directory, or fails in one of two ways.
LEMMA EvalDirCases ==
  ASSUME FileSystem, ConfigTyped, NEW d \in Dir
  PROVE  \/ /\ EvalDir(d) \in Dir /\ EvalDir(d) = LeadsTo(d)
            /\ dirs[LeadsTo(d)] = "real"
         \/ EvalDir(d) = "missing" /\ dirs[LeadsTo(d)] = "missing"
         \/ EvalDir(d) = "loop" /\ dirs[LeadsTo(d)] \in Dir
  <1>1. LeadsTo(d) \in Dir
    BY DirLeads
  <1>2. dirs[LeadsTo(d)] \in {"real", "missing"} \cup Dir
    BY <1>1 DEF ConfigTyped
  <1>3. "real" \notin Dir /\ "missing" \notin Dir /\ "loop" \notin Dir
    BY DEF FileSystem
  <1> QED BY <1>1, <1>2, <1>3 DEF EvalDir

\* The failures are no paths.
LEMMA FailuresApart ==
  Missing \notin SocketPath /\ Loop \notin SocketPath
    /\ Missing # Loop
  BY DEF Missing, Loop, SocketPath

Failures == {Missing, Loop}
Names    == SocketPath \cup Failures

\* A name is where its directory leads, or where that fails.
LEMMA AtCases ==
  ASSUME FileSystem, ConfigTyped, NEW p \in SocketPath
  PROVE  \/ /\ EvalDir(p[1]) \in Dir
            /\ At(p) = Final(p) /\ At(p) \in SocketPath
            /\ dirs[At(p)[1]] = "real"
         \/ EvalDir(p[1]) = "missing" /\ At(p) = Missing
         \/ EvalDir(p[1]) = "loop" /\ At(p) = Loop
  <1>1. p[1] \in Dir /\ p[2] \in Base
    BY DEF SocketPath
  <1>2. CASE EvalDir(p[1]) \in Dir
    <2>1. EvalDir(p[1]) = LeadsTo(p[1]) /\ dirs[EvalDir(p[1])] = "real"
      BY <1>1, <1>2, EvalDirCases DEF FileSystem
    <2>2. At(p) = <<EvalDir(p[1]), p[2]>>
      BY <1>2 DEF At
    <2> QED BY <1>1, <1>2, <2>1, <2>2 DEF Final, SocketPath
  <1>3. CASE EvalDir(p[1]) \notin Dir
    BY <1>1, <1>3, EvalDirCases DEF At, Missing, Loop
  <1> QED BY <1>2, <1>3

\* EvalSymlinks walks on from there; the failures are ends.
LEMMA NameSteps ==
  ASSUME FileSystem, ConfigTyped
  PROVE  /\ NameStep \in [Names -> Names]
         /\ \A x \in Names : x \notin Linked => NameStep[x] = x
         /\ \A x \in Linked : NameStep[x] = At(link[x])
         /\ \A x \in Failures : x \notin Linked
  <1>1. ASSUME NEW x \in Linked
        PROVE  link[x] \in SocketPath /\ At(link[x]) \in Names /\ x \in SocketPath
    <2>1. link[x] \in SocketPath /\ x \in SocketPath
      BY DEF ConfigTyped
    <2> QED BY <2>1, AtCases DEF Names, Failures
  <1>2. Names = SocketPath \cup {Missing, Loop}
    BY DEF Names, Failures
  <1>3. \A x \in Failures : x \notin Linked
    BY FailuresApart DEF ConfigTyped, Failures
  <1> QED BY <1>1, <1>2, <1>3 DEF NameStep

\* A name that is no link is found where its directory leads, or is missing there.
LEMMA EvalOfNoLink ==
  ASSUME FileSystem, ConfigTyped, NEW p \in SocketPath, At(p) \notin Linked
  PROVE  /\ At(p) \in SocketPath =>
              Eval(p) \in {At(p), Missing}
         /\ At(p) \in Failures => Eval(p) = At(p)
  <1>1. At(p) \in Names
    BY AtCases DEF Names, Failures
  <1>2. Follow(NameStep, At(p)) = At(p)
    BY <1>1, NameSteps, FollowStays DEF FileSystem
  <1>3. \A x \in Failures : x \notin there
    BY FailuresApart DEF ConfigTyped, Failures
  <1> QED BY <1>1, <1>2, <1>3, FailuresApart DEF Eval, Failures

\* A path that is accepted, and leads to no link, is compared as the file it leads to.
LEMMA CanonicalIsFinal ==
  ASSUME FileSystem, ConfigTyped, NEW p \in SocketPath,
         ~Unresolved(p),
         Canonical(p) # Loop, Final(p) \notin Linked
  PROVE  Canonical(p) = Final(p)
  <1>1. p[1] \in Dir /\ p = <<p[1], p[2]>>
    BY DEF SocketPath
  <1>2. At(p) \notin Linked
    BY AtCases, NameSteps DEF Failures
  <1>3. CASE EvalDir(p[1]) \in Dir
    <2>1. At(p) = Final(p) /\ At(p) \in SocketPath
      BY <1>3, AtCases DEF FileSystem
    <2>2. Eval(p) \in {At(p), Missing}
      BY <1>2, <2>1, EvalOfNoLink
    <2> QED BY <1>3, <2>1, <2>2 DEF Canonical
  <1>4. CASE EvalDir(p[1]) = "missing"
    <2>1. At(p) = Missing /\ "missing" \notin Dir
      BY <1>4, AtCases DEF FileSystem
    <2>2. Eval(p) = Missing
      BY <1>2, <2>1, EvalOfNoLink DEF Failures
    <2>3. Canonical(p) = p
      BY <1>4, <2>1, <2>2 DEF Canonical
    <2>4. dirs[p[1]] \notin Dir
      BY <1>4 DEF Unresolved
    <2>5. LeadsTo(p[1]) = p[1]
      BY <1>1, <2>4, DirLeads
    <2> QED BY <1>1, <2>3, <2>5 DEF Final
  <1>5. CASE EvalDir(p[1]) = "loop"
    <2>1. At(p) = Loop
      BY <1>5, AtCases DEF FileSystem
    <2>2. Eval(p) = Loop
      BY <1>2, <2>1, EvalOfNoLink DEF Failures
    <2> QED BY <2>2, FailuresApart DEF Canonical
  <1> QED BY <1>1, <1>3, <1>4, <1>5, EvalDirCases

DialStep == [x \in SocketPath |-> IF x \in Linked THEN Final(link[x]) ELSE x]

LEMMA DialSteps ==
  ASSUME FileSystem, ConfigTyped
  PROVE  /\ DialStep \in [SocketPath -> SocketPath]
         /\ \A x \in SocketPath : x \notin Linked => DialStep[x] = x
         /\ \A x \in Linked : DialStep[x] = Final(link[x])
         /\ Final(upstream) \in SocketPath
         /\ Dialed = Follow(DialStep, Final(upstream))
  <1>1. ASSUME NEW p \in SocketPath PROVE Final(p) \in SocketPath
    BY DirLeads DEF Final, SocketPath
  <1>2. \A x \in Linked : x \in SocketPath /\ link[x] \in SocketPath
    BY DEF ConfigTyped
  <1>3. upstream \in SocketPath
    BY DEF ConfigTyped
  <1> QED BY <1>1, <1>2, <1>3 DEF DialStep, Dialed

\* The place of a name that has been found is that name's own.
LEMMA AtPlace ==
  ASSUME FileSystem, ConfigTyped, NEW p \in SocketPath,
         EvalDir(p[1]) \in Dir
  PROVE  At(At(p)) = At(p) /\ At(p) = Final(p)
  <1> DEFINE d == At(p)[1]
  <1>1. /\ At(p) = Final(p) /\ At(p) \in SocketPath
        /\ dirs[d] = "real"
    BY AtCases DEF FileSystem
  <1>2. d \in Dir /\ dirs[d] \notin Dir /\ At(p) = <<d, At(p)[2]>>
    <2>1. d \in Dir /\ At(p) = <<d, At(p)[2]>>
      BY <1>1 DEF SocketPath
    <2>2. "real" \notin Dir
      BY DEF FileSystem
    <2>3. dirs[d] \notin Dir
      BY <1>1, <2>2
    <2> QED BY <2>1, <2>3
  <1>3. LeadsTo(d) = d
    BY <1>2, DirLeads
  <1>4. EvalDir(d) = d
    BY <1>1, <1>2, <1>3, EvalDirCases DEF FileSystem
  <1>5. At(At(p)) = <<d, At(p)[2]>>
    BY <1>2, <1>4 DEF At
  <1> QED BY <1>1, <1>2, <1>5

\* The upstream of an accepted configuration is compared as what will be dialed.
LEMMA CanonicalIsDialed ==
  ASSUME FileSystem, ConfigTyped, ~Unresolved(upstream),
         Canonical(upstream) # Loop
  PROVE  Canonical(upstream) = Dialed
  <1> DEFINE u == upstream
             place == At(u)
             end == Follow(NameStep, place)
  <1>1. u \in SocketPath
    BY DEF ConfigTyped
  <1>2. CASE place \notin Linked
    <2>1. ~(Final(u) \in Linked)
      <3> SUFFICES ASSUME Final(u) \in Linked PROVE FALSE
        OBVIOUS
      <3>1. dirs[Final(u)[1]] = "real" /\ Final(u)[1] = LeadsTo(u[1])
        BY DEF ConfigTyped, Final
      <3>2. EvalDir(u[1]) \in Dir
        <4>1. u[1] \in Dir
          BY <1>1 DEF SocketPath
        <4>2. LeadsTo(u[1]) \in Dir
          BY <4>1, DirLeads
        <4>3. dirs[LeadsTo(u[1])] = "real"
          BY <3>1
        <4> QED BY <4>1, <4>3, EvalDirCases DEF FileSystem
      <3> QED BY <3>2, <1>1, <1>2, AtPlace
    <2>2. Canonical(u) = Final(u)
      BY <1>1, <2>1, CanonicalIsFinal
    <2>3. Dialed = Final(u)
      BY <2>1, DialSteps, FollowStays DEF FileSystem
    <2> QED BY <2>2, <2>3
  <1>3. CASE place \in Linked
    <2>1. EvalDir(u[1]) \in Dir
      BY <1>1, <1>3, AtCases, NameSteps DEF Failures
    <2>2. At(place) = place /\ place = Final(u) /\ place \in SocketPath
      BY <1>1, <2>1, AtPlace, AtCases DEF FileSystem
    <2>3. Eval(place) = Eval(u)
      BY <2>2 DEF Eval
    <2>4. Eval(u) # Missing
      BY <1>3 DEF Unresolved
    <2>5. Canonical(u) = Eval(u) /\ Eval(u) # Loop
      BY <2>4 DEF Canonical
    <2>6. end \in there /\ Eval(u) = end
      BY <2>4, <2>5 DEF Eval
    <2>7. end \notin Failures
      BY <2>6, FailuresApart DEF ConfigTyped, Failures
    <2>8. Dialed = end
      <3>1. LinkLimit \in Nat
        BY DEF FileSystem
      <3>2. Failures \in SUBSET Names /\ place \in Names
        BY <2>2 DEF Failures, Names
      <3>3. \A y \in Failures : NameStep[y] \in Failures
        BY NameSteps DEF Names
      <3>4. ASSUME NEW y \in Names \ Failures
            PROVE  /\ y \in SocketPath
                   /\ NameStep[y] \in Failures \/ DialStep[y] = NameStep[y]
        <4>1. y \in SocketPath
          BY DEF Names
        <4>2. CASE y \notin Linked
          BY <4>1, <4>2, NameSteps, DialSteps DEF Names
        <4>3. CASE y \in Linked
          <5>1. link[y] \in SocketPath
            BY <4>3 DEF ConfigTyped
          <5>2. At(link[y]) \in Failures \/ At(link[y]) = Final(link[y])
            BY <5>1, AtCases DEF Failures
          <5> QED BY <4>1, <4>3, <5>2, NameSteps, DialSteps
        <4> QED BY <4>2, <4>3
      <3>5. NameStep \in [Names -> Names] /\ DialStep \in [SocketPath -> SocketPath]
        BY NameSteps, DialSteps
      <3>6. Follow(DialStep, place) = end
        BY <2>2, <2>7, <3>1, <3>2, <3>3, <3>4, <3>5, FollowTogether
      <3> QED BY <3>6, <2>2, DialSteps
    <2> QED BY <2>5, <2>6, <2>8
  <1> QED BY <1>2, <1>3

\* Two groups of an accepted configuration never bind one file under two names: for
\* any directories, missing or linked, any links at names, and any number of groups
\* whose paths have no link that leads nowhere yet.
THEOREM AcceptedSocketsDistinct == ConfigurationInputs => SocketsDistinct
  <1> SUFFICES ASSUME ConfigurationInputs, Accepted,
                      NEW g \in Bindable, NEW h \in Bindable, g # h
               PROVE  Final(socket[g]) # Final(socket[h])
    BY DEF SocketsDistinct
  <1>0. FileSystem
    BY DirAssumption, LimitAssumption, UpstreamAssumption DEF FileSystem
  <1>1. ConfigTyped
    BY <1>0, ConfigIsTyped
  <1>2. ASSUME NEW i \in {g, h}
        PROVE  Canonical(socket[i]) = Final(socket[i])
    <2>1. /\ i \in enabled /\ Final(socket[i]) \notin Linked
          /\ ~Unresolved(socket[i])
      BY DEF Bindable
    <2>2. socket[i] \in SocketPath /\ Canonical(socket[i]) # Loop
      BY <1>1, <2>1 DEF Accepted, ConfigTyped
    <2> QED BY <1>0, <1>1, <2>1, <2>2, CanonicalIsFinal
  <1>3. g \in enabled /\ h \in enabled
    BY DEF Bindable
  <1> QED BY <1>2, <1>3 DEF Accepted

\* No group of an accepted configuration binds what the proxy dials as its upstream: if
\* no link of the upstream's path, or of the group's, leads nowhere yet.  Where the
\* upstream's does, SocketNeverUpstream does not hold.
THEOREM UpstreamNeverOwn == ConfigurationInputs => NeverOwnUpstream
  <1> SUFFICES ASSUME ConfigurationInputs, Accepted, ~Unresolved(upstream),
                      NEW g \in Bindable
               PROVE  Final(socket[g]) # Dialed
    BY DEF NeverOwnUpstream
  <1>0. FileSystem
    BY DirAssumption, LimitAssumption, UpstreamAssumption DEF FileSystem
  <1>1. ConfigTyped
    BY <1>0, ConfigIsTyped
  <1>2. /\ g \in enabled /\ Final(socket[g]) \notin Linked
        /\ ~Unresolved(socket[g])
    BY DEF Bindable
  <1>3. Canonical(socket[g]) = Final(socket[g])
    <2>1. socket[g] \in SocketPath /\ Canonical(socket[g]) # Loop
      BY <1>1, <1>2 DEF Accepted, ConfigTyped
    <2> QED BY <1>0, <1>1, <1>2, <2>1, CanonicalIsFinal
  <1>4. Canonical(upstream) = Dialed
    BY <1>0, <1>1, CanonicalIsDialed DEF Accepted
  <1> QED BY <1>2, <1>3, <1>4 DEF Accepted

=============================================================================
