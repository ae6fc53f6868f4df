--------------------------- MODULE SocketOwnership ---------------------------
(***************************************************************************)
(* How proxy processes share the file system: a start takes the lock file  *)
(* of every group socket, replaces what is left of sockets whose server is *)
(* gone and binds its own; a stop closes the listeners, removes the socket *)
(* files and gives the locks up (proxy/server.go, socketlock.go,           *)
(* socketlock_unix.go, listener.go).  A process may crash anywhere.        *)
(*                                                                         *)
(* Programs that know nothing of the locks may replace a socket file by a  *)
(* socket of their own at any time, and die.                               *)
(*                                                                         *)
(* Every system call that another process can observe is a step.  Socket   *)
(* files are named by inode numbers, never reused; so are lock files.      *)
(***************************************************************************)
EXTENDS Integers, Sequences, FiniteSetsExt

CONSTANTS
  Proc,         \* proxy processes
  Sockets,      \* the socket paths of each process, in its configuration's order
  MaxInode,     \* bound: how many socket files are ever made
  MaxFile,      \* bound: how many files there are for one lock path at a time
  Foreign,      \* a program that is not a proxy
  None

ASSUME ProcAssumption == Foreign \notin Proc /\ None \notin Proc \cup {Foreign}
ASSUME BoundAssumption == MaxInode \in Nat /\ MaxFile \in Nat \ {0}

PathsOf(p) == {Sockets[p][i] : i \in DOMAIN Sockets[p]}
Path       == UNION {PathsOf(p) : p \in Proc}     \* numbered in their sorted order
Inode      == 1 .. MaxInode
File       == 1 .. MaxFile

ASSUME PathAssumption ==
  \A p \in Proc : /\ Sockets[p] \in Seq(Nat) \ {<<>>}
                  /\ \A i, j \in DOMAIN Sockets[p] : Sockets[p][i] = Sockets[p][j] => i = j

VARIABLES
  node,         \* inode of the socket file at each path, 0 for none
  made,         \* how many socket files have been made
  live,         \* socket inodes that accept connections
  maker,        \* who made each inode
  lockFile,     \* inode of the lock file at each path, 0 for none
  locks,        \* flocks held: process, path, inode of the lock file
  pc,           \* where each process is
  opened,       \* the lock file a process has opened, not locked yet
  seen,         \* inode a process last saw at the path it works on
  bound,        \* inode it has bound there itself, 0 for none
  listeners,    \* its listeners: path, inode, and the inode taken for theirs
  stop,         \* its context is canceled
  disturbed     \* somebody else was about during its start (history)

vars == <<node, made, live, maker, lockFile, locks, pc, opened, seen, bound, listeners,
          stop, disturbed>>

Listener == [path : Path, inode : Inode, identity : Inode]

Starting == {"open", "flock", "look", "probe", "recheck", "unlink", "bind", "listen",
             "identify"}
Stopping == {"close", "inspect", "remove", "unlock"}

TypeOK ==
  /\ node \in [Path -> 0 .. MaxInode]
  /\ made \in 0 .. MaxInode
  /\ live \in SUBSET Inode
  /\ maker \in [Inode -> Proc \cup {Foreign, None}]
  /\ lockFile \in [Path -> 0 .. MaxFile]
  /\ locks \in SUBSET (Proc \X Path \X File)
  /\ pc \in [Proc -> {"off", "serving"} \cup Starting \cup Stopping]
  /\ opened \in [Proc -> 0 .. MaxFile]
  /\ seen \in [Proc -> 0 .. MaxInode]
  /\ bound \in [Proc -> 0 .. MaxInode]
  /\ listeners \in [Proc -> Seq(Listener)]
  /\ stop \in [Proc -> BOOLEAN]
  /\ disturbed \in [Proc -> BOOLEAN]

Init ==
  /\ node = [x \in Path |-> 0]
  /\ made = 0
  /\ live = {}
  /\ maker = [k \in Inode |-> None]
  /\ lockFile = [x \in Path |-> 0]
  /\ locks = {}
  /\ pc = [p \in Proc |-> "off"]
  /\ opened = [p \in Proc |-> 0]
  /\ seen = [p \in Proc |-> 0]
  /\ bound = [p \in Proc |-> 0]
  /\ listeners = [p \in Proc |-> <<>>]
  /\ stop = [p \in Proc |-> FALSE]
  /\ disturbed = [p \in Proc |-> FALSE]

sockets == <<node, made, live, maker>>
locking == <<lockFile, locks, opened>>
working == <<seen, bound, listeners>>

GoTo(p, where) == pc' = [pc EXCEPT ![p] = where]

-----------------------------------------------------------------------------
\* Taking the locks.
Held(p) == {l[2] : l \in {m \in locks : m[1] = p}}

\* Mutant: the locks are taken in the order of the configuration.
NextInConfigOrder(p) ==
  Sockets[p][CHOOSE i \in DOMAIN Sockets[p] :
               /\ Sockets[p][i] \notin Held(p)
               /\ \A j \in 1 .. i - 1 : Sockets[p][j] \in Held(p)]

\* acquireSocketLocks: the lowest path not locked yet.
NextLock(p) == Min(PathsOf(p) \ Held(p))

ForeignAt(x) == node[x] \in live /\ maker[node[x]] = Foreign

Start(p) ==
  /\ pc[p] = "off"
  /\ GoTo(p, "open")
  /\ stop' = [stop EXCEPT ![p] = FALSE]
  /\ disturbed' = [q \in Proc |->
       IF q = p THEN \/ \E r \in Proc \ {p} : pc[r] # "off"
                     \/ \E x \in PathsOf(p) : ForeignAt(x)
       ELSE TRUE]
  /\ UNCHANGED <<sockets, locking, working>>

\* A file made for lock path x is none that somebody still has open.
FreshFile(x) ==
  CHOOSE f \in File :
    /\ \A l \in locks : <<l[2], l[3]>> # <<x, f>>
    /\ \A p \in Proc : pc[p] = "flock" /\ NextLock(p) = x => opened[p] # f

\* acquireSocketLock opens the lock file, which is made if there is none.
OpenLock(p) ==
  /\ pc[p] = "open"
  /\ LET x == NextLock(p)
     IN  /\ lockFile' = [lockFile EXCEPT ![x] = IF @ = 0 THEN FreshFile(x) ELSE @]
         /\ opened' = [opened EXCEPT ![p] = lockFile'[x]]
  /\ GoTo(p, "flock")
  /\ UNCHANGED <<sockets, locks, working, stop, disturbed>>

\* Mutant: the lock is taken for granted.
CanLockAlways(p) == TRUE

\* LOCK_EX | LOCK_NB.
CanLock(p) == \A l \in locks : <<l[2], l[3]>> # <<NextLock(p), opened[p]>>

Flock(p) ==
  /\ pc[p] = "flock"
  /\ CanLock(p)
  /\ locks' = locks \cup {<<p, NextLock(p), opened[p]>>}
  /\ opened' = [opened EXCEPT ![p] = 0]
  /\ GoTo(p, IF Held(p) \cup {NextLock(p)} = PathsOf(p) THEN "look" ELSE "open")
  /\ UNCHANGED <<sockets, lockFile, working, stop, disturbed>>

FlockFails(p) ==
  /\ pc[p] = "flock"
  /\ ~CanLock(p)
  /\ opened' = [opened EXCEPT ![p] = 0]
  /\ GoTo(p, "unlock")
  /\ UNCHANGED <<sockets, lockFile, locks, working, stop, disturbed>>

-----------------------------------------------------------------------------
\* Binding the sockets, one after the other.
Here(p) == Sockets[p][Len(listeners[p]) + 1]

\* Run gives up between two sockets, and before a probe.
Interrupt(p) ==
  /\ pc[p] \in {"look", "probe"}
  /\ stop[p]
  /\ GoTo(p, "close")
  /\ UNCHANGED <<sockets, locking, working, stop, disturbed>>

\* listenUnix: is there a socket file already?
Look(p) ==
  /\ pc[p] = "look"
  /\ ~stop[p]
  /\ seen' = [seen EXCEPT ![p] = node[Here(p)]]
  /\ GoTo(p, IF node[Here(p)] = 0 THEN "bind" ELSE "probe")
  /\ UNCHANGED <<sockets, locking, bound, listeners, stop, disturbed>>

\* removeStaleSocket: a socket that accepts is in use, and the start fails.
Probe(p) ==
  /\ pc[p] = "probe"
  /\ ~stop[p]
  /\ GoTo(p, IF node[Here(p)] \in live THEN "close" ELSE "recheck")
  /\ UNCHANGED <<sockets, locking, working, stop, disturbed>>

\* Mutant: a socket file that is in the way is never removed.
RecheckRefuses(p) ==
  /\ pc[p] = "recheck"
  /\ GoTo(p, IF node[Here(p)] = 0 THEN "bind" ELSE "close")
  /\ UNCHANGED <<sockets, locking, working, stop, disturbed>>

\* Mutant: whatever is there after the probe is taken for what was probed.
RecheckNotCompared(p) ==
  /\ pc[p] = "recheck"
  /\ seen' = [seen EXCEPT ![p] = node[Here(p)]]
  /\ GoTo(p, IF node[Here(p)] = 0 THEN "bind" ELSE "unlink")
  /\ UNCHANGED <<sockets, locking, bound, listeners, stop, disturbed>>

\* It is removed only if it is the one that was there before the probe.
Recheck(p) ==
  /\ pc[p] = "recheck"
  /\ seen' = [seen EXCEPT ![p] = node[Here(p)]]
  /\ GoTo(p, IF node[Here(p)] = 0 THEN "bind"
             ELSE IF node[Here(p)] = seen[p] THEN "unlink" ELSE "close")
  /\ UNCHANGED <<sockets, locking, bound, listeners, stop, disturbed>>

\* os.Remove takes away whatever is there by now.
Unlink(p) ==
  /\ pc[p] = "unlink"
  /\ node' = [node EXCEPT ![Here(p)] = 0]
  /\ GoTo(p, "bind")
  /\ UNCHANGED <<made, live, maker, locking, working, stop, disturbed>>

Make(x, who) ==
  /\ made < MaxInode
  /\ made' = made + 1
  /\ node' = [node EXCEPT ![x] = made']
  /\ maker' = [maker EXCEPT ![made'] = who]

\* bind(2) makes the socket file; it does not accept connections yet.
Bind(p) ==
  /\ pc[p] = "bind"
  /\ node[Here(p)] = 0
  /\ Make(Here(p), p)
  /\ bound' = [bound EXCEPT ![p] = made']
  /\ GoTo(p, "listen")
  /\ UNCHANGED <<live, locking, seen, listeners, stop, disturbed>>

BindFails(p) ==
  /\ pc[p] = "bind"
  /\ node[Here(p)] # 0
  /\ GoTo(p, "close")
  /\ UNCHANGED <<sockets, locking, working, stop, disturbed>>

Listen(p) ==
  /\ pc[p] = "listen"
  /\ live' = live \cup {bound[p]}
  /\ GoTo(p, "identify")
  /\ UNCHANGED <<node, made, maker, locking, working, stop, disturbed>>

\* The listener remembers the file that is at its path after the bind.
Identify(p) ==
  /\ pc[p] = "identify"
  /\ listeners' = [listeners EXCEPT ![p] = Append(@,
       [path |-> Here(p), inode |-> bound[p], identity |-> node[Here(p)]])]
  /\ bound' = [bound EXCEPT ![p] = 0]
  /\ GoTo(p, IF Len(listeners'[p]) < Len(Sockets[p]) THEN "look" ELSE "serving")
  /\ UNCHANGED <<sockets, locking, seen, stop, disturbed>>

-----------------------------------------------------------------------------
\* The caller cancels Run's context.
Cancel(p) ==
  /\ pc[p] \in Starting \cup {"serving"}
  /\ ~stop[p]
  /\ stop' = [stop EXCEPT ![p] = TRUE]
  /\ UNCHANGED <<sockets, locking, pc, working, disturbed>>

\* Run ends, by its context or because a listener has failed.
Finish(p) ==
  /\ pc[p] = "serving"
  /\ GoTo(p, "close")
  /\ UNCHANGED <<sockets, locking, working, stop, disturbed>>

First(p) == Head(listeners[p])
Drop(p)  == listeners' = [listeners EXCEPT ![p] = Tail(@)]

\* closeListeners, in order; a listener stops accepting first.
CloseListener(p) ==
  /\ pc[p] = "close"
  /\ listeners[p] # <<>>
  /\ live' = live \ {First(p).inode}
  /\ GoTo(p, "inspect")
  /\ UNCHANGED <<node, made, maker, locking, working, stop, disturbed>>

CloseDone(p) ==
  /\ pc[p] = "close"
  /\ listeners[p] = <<>>
  /\ GoTo(p, "unlock")
  /\ UNCHANGED <<sockets, locking, working, stop, disturbed>>

\* ownedUnixListener.Close: is the file at the path still this listener's?
Inspect(p) ==
  /\ pc[p] = "inspect"
  /\ seen' = [seen EXCEPT ![p] = node[First(p).path]]
  /\ \/ /\ node[First(p).path] = First(p).identity
        /\ GoTo(p, "remove")
        /\ UNCHANGED listeners
     \/ /\ node[First(p).path] # First(p).identity
        /\ GoTo(p, "close")
        /\ Drop(p)
  /\ UNCHANGED <<sockets, locking, bound, stop, disturbed>>

RemoveOwn(p) ==
  /\ pc[p] = "remove"
  /\ node' = [node EXCEPT ![First(p).path] = 0]
  /\ Drop(p)
  /\ GoTo(p, "close")
  /\ UNCHANGED <<made, live, maker, locking, seen, bound, stop, disturbed>>

LastLock(p) == CHOOSE l \in locks : l[1] = p /\ l[2] = Max(Held(p))

\* Mutant: a lock file is removed when its lock is given up.
UnlockRemoves(p) ==
  /\ pc[p] = "unlock"
  /\ Held(p) # {}
  /\ lockFile' = [lockFile EXCEPT ![LastLock(p)[2]] = 0]
  /\ locks' = locks \ {LastLock(p)}
  /\ UNCHANGED <<sockets, pc, opened, working, stop, disturbed>>

\* closeSocketLocks: the last lock first.  The lock files stay.
Unlock(p) ==
  /\ pc[p] = "unlock"
  /\ Held(p) # {}
  /\ locks' = locks \ {LastLock(p)}
  /\ UNCHANGED <<sockets, lockFile, pc, opened, working, stop, disturbed>>

\* A process without configuration, listeners and locks is as good as ended.
Reset(p) ==
  /\ GoTo(p, "off")
  /\ opened' = [opened EXCEPT ![p] = 0]
  /\ seen' = [seen EXCEPT ![p] = 0]
  /\ bound' = [bound EXCEPT ![p] = 0]
  /\ listeners' = [listeners EXCEPT ![p] = <<>>]
  /\ stop' = [stop EXCEPT ![p] = FALSE]

Return(p) ==
  /\ pc[p] = "unlock"
  /\ Held(p) = {}
  /\ Reset(p)
  /\ UNCHANGED <<sockets, lockFile, locks, disturbed>>

\* The kernel closes the sockets and releases the locks of a dead process.
Crash(p) ==
  /\ pc[p] # "off"
  /\ live' = {k \in live : maker[k] # p}
  /\ locks' = {l \in locks : l[1] # p}
  /\ Reset(p)
  /\ UNCHANGED <<node, made, maker, lockFile, disturbed>>

-----------------------------------------------------------------------------
\* Another program puts a socket of its own at a path, whatever was there.
ForeignReplace(x) ==
  /\ Make(x, Foreign)
  /\ live' = live \cup {made'}
  /\ disturbed' = [p \in Proc |-> TRUE]
  /\ UNCHANGED <<locking, pc, working, stop>>

ForeignDies(k) ==
  /\ k \in live
  /\ maker[k] = Foreign
  /\ live' = live \ {k}
  /\ UNCHANGED <<node, made, maker, locking, pc, working, stop, disturbed>>

-----------------------------------------------------------------------------
Locking(p) == OpenLock(p) \/ Flock(p) \/ FlockFails(p)

Binding(p) ==
  \/ Interrupt(p) \/ Look(p) \/ Probe(p) \/ Recheck(p) \/ Unlink(p)
  \/ Bind(p) \/ BindFails(p) \/ Listen(p) \/ Identify(p)

Teardown(p) ==
  \/ CloseListener(p) \/ CloseDone(p) \/ Inspect(p) \/ RemoveOwn(p)
  \/ Unlock(p) \/ Return(p)

Run(p) == Start(p) \/ Locking(p) \/ Binding(p) \/ Cancel(p) \/ Finish(p) \/ Teardown(p)

Next ==
  \/ \E p \in Proc : Run(p) \/ Crash(p)
  \/ \E x \in Path : ForeignReplace(x)
  \/ \E k \in Inode : ForeignDies(k)

Spec == Init /\ [][Next]_vars

-----------------------------------------------------------------------------
\* A socket accepts connections only under the lock of the path its process has it
\* at, which nobody else holds, so never two proxies' at once for one path: locks are
\* taken before any socket is touched and given up after the last.
BoundUnderLock ==
  \A k \in live, p \in Proc : maker[k] = p =>
    \E x \in Held(p) :
      /\ \A q \in Proc \ {p} : x \notin Held(q)
      /\ \/ bound[p] = k /\ x = Here(p)
         \/ \E i \in DOMAIN listeners[p] :
              listeners[p][i].inode = k /\ listeners[p][i].path = x

\* While a proxy serves, each of its paths leads to its own socket, unless another
\* program has put one there: no other proxy takes a socket for stale, not even
\* one that is bound and does not listen yet.
ServingReachable ==
  \A p \in Proc : pc[p] = "serving" =>
    \A i \in DOMAIN listeners[p] :
      LET x == listeners[p][i].path
      IN  node[x] # listeners[p][i].inode
            => node[x] # 0 /\ maker[node[x]] = Foreign

\* A process that starts alone gets its sockets, whatever earlier processes have
\* left behind by stopping, failing or crashing anywhere.
AloneServes ==
  [][\A p \in Proc : pc[p] \in Starting /\ pc'[p] \in Stopping => disturbed[p] \/ stop[p]]_vars

\* Of two instances that start together one gets through: whoever loses a lock
\* holds none that the winner needs.
WinnerTakesAll ==
  [][\A p, q \in Proc : FlockFails(p) /\ NextLock(p) \in Held(q)
       => Held(p) \cap PathsOf(q) = {}]_vars

\* A proxy never removes the socket of another program that it has seen: only one that
\* came to this path after its last look there, or one that came between the bind and
\* the first look of the listener, which takes it for its own.
ForeignKept ==
  [][\A x \in Path : ForeignAt(x) /\ node'[x] = 0
       => \E p \in Proc :
            \/ pc[p] = "unlink" /\ x = Here(p) /\ seen[p] # node[x]
            \/ /\ pc[p] = "remove" /\ x = First(p).path
               /\ seen[p] # node[x] \/ First(p).identity = node[x]]_vars
=============================================================================
