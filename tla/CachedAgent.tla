---------------------------- MODULE CachedAgent ----------------------------
(***************************************************************************)
(* The identity cache that every group and client shares (proxy/cache.go). *)
(*                                                                         *)
(* A call of List is answered from the cache until it expires.  The first  *)
(* call after that lists the upstream, the others wait for it to finish    *)
(* and look again.  The result is kept for ttl ticks whether the listing   *)
(* succeeded or not; a failure leaves the last successful keys in place.   *)
(*                                                                         *)
(* As in GroupAuthorization a key set is named by its epoch.  The time to  *)
(* expiry counts down instead of the clock counting up, so time goes on    *)
(* for ever in finitely many states.                                       *)
(***************************************************************************)
EXTENDS Integers

CONSTANTS
  Caller,       \* goroutines that call List
  Lifetime,     \* the lifetimes a result may be configured with, in ticks
  MaxEpoch,     \* bound: how many key sets the upstream goes through
  None

Epoch == 0 .. MaxEpoch

ASSUME CallerAssumption == None \notin Caller
ASSUME CacheAssumption  == Lifetime \subseteq Nat /\ MaxEpoch \in Nat \ {0}
ASSUME ReplyAssumption  == None \notin Epoch

VARIABLES
  ttl,          \* lifetime of a result; 0 turns the cache off
  offered,      \* epoch of the upstream's keys now
  available,    \* would the upstream answer a listing now?
  cached,       \* epoch of the kept keys, 0 for none (hasSnapshot is false)
  failed,       \* cachedErr: the kept result is an error
  left,         \* ticks until the kept result expires
  inFlight,     \* the caller that is listing the upstream, or None
  pc,           \* where each caller is
  got,          \* what the upstream answered: an epoch, 0 for an error
  reply,        \* the result of the last call, None while it is under way
  quiet,        \* ticks since a listing last ended, at most ttl (history)
  newest,       \* newest epoch any call has returned (history)
  begun         \* what was true when each call began, or has been since (history)

vars == <<ttl, offered, available, cached, failed, left, inFlight, pc, got, reply,
          quiet, newest, begun>>

TypeOK ==
  /\ ttl \in Lifetime
  /\ offered \in 1 .. MaxEpoch
  /\ available \in BOOLEAN
  /\ cached \in Epoch
  /\ failed \in BOOLEAN
  /\ left \in 0 .. ttl
  /\ inFlight \in Caller \cup {None}
  /\ pc \in [Caller -> {"idle", "looking", "waiting", "listing", "storing"}]
  /\ got \in [Caller -> Epoch]
  /\ reply \in [Caller -> Epoch \cup {None}]
  /\ quiet \in 0 .. ttl
  /\ newest \in Epoch
  /\ begun \in [Caller -> [newest : Epoch, listed : BOOLEAN, down : BOOLEAN]]

Init ==
  /\ ttl \in Lifetime
  /\ offered = 1
  /\ available \in BOOLEAN
  /\ cached = 0
  /\ failed = FALSE
  /\ left = 0
  /\ inFlight = None
  /\ pc = [c \in Caller |-> "idle"]
  /\ got = [c \in Caller |-> 0]
  /\ reply = [c \in Caller |-> None]
  /\ quiet = ttl
  /\ newest = 0
  /\ begun = [c \in Caller |-> [newest |-> 0, listed |-> FALSE, down |-> FALSE]]

cache == <<cached, failed, left, inFlight>>

-----------------------------------------------------------------------------
KeysChange ==
  /\ offered < MaxEpoch
  /\ offered' = offered + 1
  /\ UNCHANGED <<ttl, quiet, available, cache, pc, got, reply, newest, begun>>

AgentStarts ==
  /\ ~available
  /\ available' = TRUE
  /\ UNCHANGED <<ttl, offered, quiet, cache, pc, got, reply, newest, begun>>

AgentStops ==
  /\ available
  /\ available' = FALSE
  /\ begun' = [c \in Caller |-> [begun[c] EXCEPT !.down = (@ \/ pc[c] # "idle")]]
  /\ UNCHANGED <<ttl, offered, quiet, cache, pc, got, reply, newest>>

Tick ==
  /\ left > 0 \/ quiet < ttl
  /\ left' = IF left > 0 THEN left - 1 ELSE 0
  /\ quiet' = IF quiet < ttl THEN quiet + 1 ELSE ttl
  /\ UNCHANGED <<ttl, offered, available, cached, failed, inFlight, pc, got, reply,
                 newest, begun>>

-----------------------------------------------------------------------------
Call(c) ==
  /\ pc[c] = "idle"
  /\ pc' = [pc EXCEPT ![c] = "looking"]
  /\ reply' = [reply EXCEPT ![c] = None]
  /\ begun' = [begun EXCEPT ![c] = [newest |-> newest, listed |-> cached # 0,
                                    down |-> ~available]]
  /\ UNCHANGED <<ttl, offered, quiet, available, cache, got, newest>>

\* The call of c returns e, an epoch or 0 for an error.
Return(c, e) ==
  /\ reply' = [reply EXCEPT ![c] = e]
  /\ newest' = IF e > newest THEN e ELSE newest

\* The kept result: what a caller is handed until it expires.
Kept == IF failed THEN 0 ELSE cached

Hit(c) ==
  /\ pc[c] = "looking"
  /\ left > 0
  /\ Return(c, Kept)
  /\ pc' = [pc EXCEPT ![c] = "idle"]
  /\ UNCHANGED <<ttl, offered, quiet, available, cache, got, begun>>

\* The result has expired and another caller is already listing the upstream.
Wait(c) ==
  /\ pc[c] = "looking"
  /\ ttl > 0 /\ left = 0
  /\ inFlight # None
  /\ pc' = [pc EXCEPT ![c] = "waiting"]
  /\ UNCHANGED <<ttl, offered, quiet, available, cache, got, reply, newest, begun>>

\* Mutant: an expired result is refreshed whether or not somebody is at it.
ClaimAnyway(c) ==
  /\ pc[c] = "looking"
  /\ ttl > 0 /\ left = 0
  /\ inFlight' = c
  /\ pc' = [pc EXCEPT ![c] = "listing"]
  /\ UNCHANGED <<ttl, offered, quiet, available, cached, failed, left, got, reply, newest,
                 begun>>

Claim(c) ==
  /\ pc[c] = "looking"
  /\ ttl > 0 /\ left = 0
  /\ inFlight = None
  /\ inFlight' = c
  /\ pc' = [pc EXCEPT ![c] = "listing"]
  /\ UNCHANGED <<ttl, offered, quiet, available, cached, failed, left, got, reply, newest,
                 begun>>

\* What the upstream answers at this instant.
Upstream == IF available THEN offered ELSE 0

ListUpstream(c) ==
  /\ pc[c] = "listing"
  /\ got' = [got EXCEPT ![c] = Upstream]
  /\ pc' = [pc EXCEPT ![c] = "storing"]
  /\ UNCHANGED <<ttl, offered, quiet, available, cache, reply, newest, begun>>

\* Mutant: a failed listing is not kept, so every caller tries again at once.
KeepSuccess(e) ==
  /\ cached' = IF e # 0 THEN e ELSE cached
  /\ failed' = (e = 0 /\ cached = 0)
  /\ left' = IF e # 0 THEN ttl ELSE 0

\* Mutant: a failure drops the keys of the last successful listing.
KeepLatest(e) ==
  /\ cached' = e
  /\ failed' = (e = 0)
  /\ left' = ttl

\* A successful listing replaces what is kept; a failed one is kept itself only
\* if no listing has succeeded yet.  Either lasts for the whole lifetime.
Keep(e) ==
  /\ cached' = IF e # 0 THEN e ELSE cached
  /\ failed' = (e = 0 /\ cached = 0)
  /\ left' = ttl

\* Mutant: waiting callers are not woken by a failure.
WakeOnSuccess(c) ==
  pc' = [d \in Caller |-> IF d = c THEN "idle"
                          ELSE IF pc[d] = "waiting" /\ got[c] # 0 THEN "looking"
                          ELSE pc[d]]

\* close(done): the owner returns and the callers that wait look again.
Wake(c) ==
  pc' = [d \in Caller |-> IF d = c THEN "idle"
                          ELSE IF pc[d] = "waiting" THEN "looking" ELSE pc[d]]

Store(c) ==
  /\ pc[c] = "storing"
  /\ Keep(got[c])
  /\ Return(c, IF failed' THEN 0 ELSE cached')
  /\ quiet' = 0
  /\ inFlight' = None
  /\ Wake(c)
  /\ UNCHANGED <<ttl, offered, available, got, begun>>

\* Without a cache every call lists the upstream.
ListDirectly(c) ==
  /\ pc[c] = "looking"
  /\ ttl = 0
  /\ Return(c, Upstream)
  /\ pc' = [pc EXCEPT ![c] = "idle"]
  /\ UNCHANGED <<ttl, offered, quiet, available, cache, got, begun>>

-----------------------------------------------------------------------------
List(c) ==
  \/ Hit(c)
  \/ Wait(c)
  \/ Claim(c)
  \/ ListUpstream(c)
  \/ Store(c)
  \/ ListDirectly(c)

Next ==
  \/ KeysChange
  \/ AgentStarts
  \/ AgentStops
  \/ Tick
  \/ \E c \in Caller : Call(c) \/ List(c)

Spec == Init /\ [][Next]_vars

\* Callers that can run do, and an upstream call returns.  A caller that is woken
\* again and again sees the result it was woken for at some time before that
\* expires: waking takes microseconds and ttl is at least a second.
Fairness == \A c \in Caller : WF_vars(List(c)) /\ SF_vars(Hit(c))

FairSpec == Spec /\ Fairness

-----------------------------------------------------------------------------
\* With the cache on, all groups and clients together have at most one upstream
\* listing under way, and inFlight says whose it is.
OneUpstreamList ==
  \A c \in Caller : pc[c] \in {"listing", "storing"} <=> inFlight = c

\* A call never returns an older key set than a call that had returned before it
\* began: hits, waiters and the caller that listed agree on the order.
MonotoneReads ==
  \A c \in Caller : reply[c] \notin {None, 0} => reply[c] >= begun[c].newest

\* Once a listing has succeeded the cache never fails a later call, however long
\* the upstream is away.
NoErrorOnceListed == \A c \in Caller : begun[c].listed => reply[c] # 0

\* A listing that ended, also one that failed, is followed by no other until its
\* whole lifetime has passed: one upstream request per interval.
OneListPerInterval == [][inFlight = None /\ inFlight' # None => quiet = ttl]_vars

\* Every call returns.
EveryCallReturns == \A c \in Caller : pc[c] # "idle" ~> pc[c] = "idle"

\* What the README says of an agent that starts late: requests fail while the
\* agent is unavailable, and the first one after it starts connects to it.
RequestsFailOnlyWhileUnavailable ==
  \A c \in Caller : reply[c] = 0 => begun[c].down
=============================================================================
