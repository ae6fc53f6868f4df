------------------------- MODULE GroupAuthorization -------------------------
(***************************************************************************)
(* The authorization state of one key group (proxy/authorization.go) and   *)
(* the requests its clients make through filterAgent (proxy/agent.go).     *)
(*                                                                         *)
(* All clients of a group share a snapshot of the keys they may sign with. *)
(* A list request, and a signing request for a key the snapshot does not   *)
(* hold, refresh it from the upstream; whoever asks while a refresh is in  *)
(* flight waits for that one.  The first refresh belongs to the server's   *)
(* startup, which claims it before the socket exists.                      *)
(*                                                                         *)
(* A key set the upstream offers is named by its epoch, the number of      *)
(* changes it took to get there, so a snapshot, an answer and a list are   *)
(* each an epoch; 0 stands for "no snapshot" and for a failed list.        *)
(***************************************************************************)
EXTENDS Integers

CONSTANTS
  Client,       \* connections to the group's socket
  Startup,      \* the goroutine that makes the startup listing
  Key,          \* identities, a public key blob with a comment
  Blob,         \* public key blobs
  BlobOf,       \* the blob of each key
  Matcher,      \* the selectors configured for the group
  Selects,      \* the keys each selector matches
  MaxEpoch,     \* bound: how many key sets the upstream goes through
  Offers,       \* the upstream's keys in each epoch
  None,
  Listing       \* a request for the list of identities

Proc  == Client \cup {Startup}
Epoch == 0 .. MaxEpoch

ASSUME ProcAssumption ==
  /\ Startup \notin Client
  /\ None \notin Proc
ASSUME RequestAssumption ==
  /\ None \notin Blob
  /\ Listing \notin Blob
  /\ None # Listing
ASSUME EpochAssumption ==
  /\ MaxEpoch \in Nat \ {0}
  /\ Offers \in [1 .. MaxEpoch -> SUBSET Key]
ASSUME KeyAssumption ==
  /\ BlobOf \in [Key -> Blob]
  /\ Selects \in [Matcher -> SUBSET Key]

\* The keys of a listing that some selector of the group matches, as blobs, and
\* the selectors that match none.
Visible(keys)  == {BlobOf[k] : k \in {j \in keys : \E m \in Matcher : j \in Selects[m]}}
Missing(keys)  == {m \in Matcher : keys \cap Selects[m] = {}}

\* The blobs the snapshot taken from each epoch allows.
Allowed == [e \in Epoch |-> IF e = 0 THEN {} ELSE Visible(Offers[e])]

VARIABLES
  offered,      \* epoch of the keys the upstream lists now
  snapshot,     \* epoch of the published snapshot
  inFlight,     \* the process that owns the refresh in flight, None without one
  unmatched,    \* selectors that matched nothing when last resolved
  pc,           \* where each process is
  wants,        \* what each client asked for: a blob, Listing or None
  joined,       \* the owner of the refresh each process takes part in
  outcome,      \* the epoch that refresh listed, 0 for an error or none yet
  shown,        \* epoch of the last list each client was given
  reply,        \* what each client was told last
  since         \* epoch a client's answer may not predate (history)

vars == <<offered, snapshot, inFlight, unmatched, pc, wants, joined, outcome,
          shown, reply, since>>

TypeOK ==
  /\ offered \in 1 .. MaxEpoch
  /\ snapshot \in Epoch
  /\ inFlight \in Proc \cup {None}
  /\ unmatched \in SUBSET Matcher
  /\ pc \in [Proc -> {"idle", "asked", "missed", "listing", "storing", "noting",
                      "finishing", "waiting", "woken", "forward", "done"}]
  /\ wants \in [Proc -> Blob \cup {Listing, None}]
  /\ joined \in [Proc -> Proc \cup {None}]
  /\ outcome \in [Proc -> Epoch]
  /\ shown \in [Client -> Epoch]
  /\ reply \in [Client -> {"none", "listed", "signed", "refused", "failed"}]
  /\ since \in [Client -> Epoch]

\* The steps of the process that owns a refresh, and those after the answer.
Refreshing == {"listing", "storing", "noting", "finishing"}
Listed     == Refreshing \ {"listing"}

AlreadyListed == \E p \in Proc : pc[p] \in Listed

Init ==
  /\ offered = 1
  /\ snapshot = 0
  /\ inFlight = Startup
  /\ unmatched = {}
  /\ pc = [p \in Proc |-> IF p = Startup THEN "listing" ELSE "idle"]
  /\ wants = [p \in Proc |-> None]
  /\ joined = [p \in Proc |-> IF p = Startup THEN Startup ELSE None]
  /\ outcome = [p \in Proc |-> 0]
  /\ shown = [c \in Client |-> 0]
  /\ reply = [c \in Client |-> "none"]
  /\ since = [c \in Client |-> 0]

-----------------------------------------------------------------------------
\* The upstream's key set changes: keys are added or removed, the agent is
\* locked or unlocked, or a cached list expires.
KeysChange ==
  /\ offered < MaxEpoch
  /\ offered' = offered + 1
  /\ UNCHANGED <<snapshot, inFlight, unmatched, pc, wants, joined, outcome, shown, reply,
                 since>>

\* A request arrives.  Its answer reflects the keys of this instant or later
\* ones, unless it can join a refresh whose listing is already answered.
Ask(c, what) ==
  /\ pc[c] = "idle"
  /\ pc' = [pc EXCEPT ![c] = "asked"]
  /\ wants' = [wants EXCEPT ![c] = what]
  /\ since' = [since EXCEPT ![c] = IF AlreadyListed THEN 0 ELSE offered]
  /\ reply' = [reply EXCEPT ![c] = "none"]
  /\ UNCHANGED <<offered, snapshot, inFlight, unmatched, joined, outcome, shown>>

\* Mutant: a refresh is claimed without looking for one in flight.
JoinAlwaysClaims(p) ==
  /\ inFlight' = p
  /\ joined' = [joined EXCEPT ![p] = p]
  /\ pc' = [pc EXCEPT ![p] = "listing"]

\* joinRefreshLocked: wait for the refresh in flight, or claim a new one.
JoinRefresh(p) ==
  \/ /\ inFlight = None
     /\ inFlight' = p
     /\ joined' = [joined EXCEPT ![p] = p]
     /\ pc' = [pc EXCEPT ![p] = "listing"]
  \/ /\ inFlight # None
     /\ joined' = [joined EXCEPT ![p] = inFlight]
     /\ pc' = [pc EXCEPT ![p] = "waiting"]
     /\ UNCHANGED inFlight

List(c) ==
  /\ pc[c] = "asked"
  /\ wants[c] = Listing
  /\ JoinRefresh(c)
  /\ UNCHANGED <<offered, snapshot, unmatched, wants, outcome, shown, reply, since>>

\* authorize's first look at the snapshot, without the lock.
FastPath(c) ==
  /\ pc[c] = "asked"
  /\ wants[c] \in Blob
  /\ pc' = [pc EXCEPT ![c] = IF wants[c] \in Allowed[snapshot]
                               THEN "forward" ELSE "missed"]
  /\ UNCHANGED <<offered, snapshot, inFlight, unmatched, wants, joined, outcome,
                 shown, reply, since>>

\* authorize under the lock: look again, and join or claim a refresh on a miss.
AuthorizeMiss(c) ==
  /\ pc[c] = "missed"
  /\ \/ /\ wants[c] \in Allowed[snapshot]
        /\ pc' = [pc EXCEPT ![c] = "forward"]
        /\ UNCHANGED <<inFlight, joined>>
     \/ /\ wants[c] \notin Allowed[snapshot]
        /\ JoinRefresh(c)
  /\ UNCHANGED <<offered, snapshot, unmatched, wants, outcome, shown, reply, since>>

\* Mutant: a group that has a snapshot is listed from it.
ListFromSnapshot(p) ==
  /\ pc[p] = "listing"
  /\ outcome' = [outcome EXCEPT ![p] = IF snapshot = 0 THEN offered ELSE snapshot]
  /\ pc' = [pc EXCEPT ![p] = "storing"]
  /\ UNCHANGED <<offered, snapshot, inFlight, unmatched, wants, joined, shown, reply, since>>

\* The owner's upstream List returns the keys of this instant, or an error.
ListUpstream(p) ==
  /\ pc[p] = "listing"
  /\ \/ /\ outcome' = [outcome EXCEPT ![p] = offered]
        /\ pc' = [pc EXCEPT ![p] = "storing"]
     \/ /\ outcome' = [outcome EXCEPT ![p] = 0]
        /\ pc' = [pc EXCEPT ![p] = "finishing"]
  /\ UNCHANGED <<offered, snapshot, inFlight, unmatched, wants, joined, shown, reply, since>>

\* resolve publishes the new snapshot; no lock is held.
StoreSnapshot(p) ==
  /\ pc[p] = "storing"
  /\ snapshot' = outcome[p]
  /\ pc' = [pc EXCEPT ![p] = "noting"]
  /\ UNCHANGED <<offered, inFlight, unmatched, wants, joined, outcome, shown, reply, since>>

\* Mutant: a selector that recovers stays marked.
NoteKeepsOld(p) ==
  /\ pc[p] = "noting"
  /\ unmatched' = unmatched \cup Missing(Offers[outcome[p]])
  /\ pc' = [pc EXCEPT ![p] = "finishing"]
  /\ UNCHANGED <<offered, snapshot, inFlight, wants, joined, outcome, shown, reply, since>>

\* newlyUnmatched records which selectors found nothing, under the lock; those
\* not in the previous record are warned about.
NoteUnmatched(p) ==
  /\ pc[p] = "noting"
  /\ unmatched' = Missing(Offers[outcome[p]])
  /\ pc' = [pc EXCEPT ![p] = "finishing"]
  /\ UNCHANGED <<offered, snapshot, inFlight, wants, joined, outcome, shown, reply, since>>

\* Mutant: a failed refresh is reported to its owner alone.
FinishOwnerOnly(p) ==
  /\ pc[p] = "finishing"
  /\ LET Told(q) == joined[q] = p /\ (q = p \/ outcome[p] # 0)
     IN  /\ pc' = [q \in Proc |-> IF ~Told(q) THEN pc[q]
                                  ELSE IF q = Startup THEN "done" ELSE "woken"]
         /\ outcome' = [q \in Proc |-> IF Told(q) THEN outcome[p] ELSE outcome[q]]
         /\ joined' = [q \in Proc |-> IF Told(q) THEN None ELSE joined[q]]
  /\ inFlight' = None
  /\ UNCHANGED <<offered, snapshot, unmatched, wants, shown, reply, since>>

\* finishRefresh hands the result to everyone who takes part in the refresh and
\* makes room for the next one.
FinishRefresh(p) ==
  /\ pc[p] = "finishing"
  /\ pc' = [q \in Proc |-> IF joined[q] # p THEN pc[q]
                           ELSE IF q = Startup THEN "done" ELSE "woken"]
  /\ outcome' = [q \in Proc |-> IF joined[q] = p THEN outcome[p] ELSE outcome[q]]
  /\ joined' = [q \in Proc |-> IF joined[q] = p THEN None ELSE joined[q]]
  /\ inFlight' = None
  /\ UNCHANGED <<offered, snapshot, unmatched, wants, shown, reply, since>>

-----------------------------------------------------------------------------
\* Client c has its reply; what is an answer, or one of the errors that
\* filterAgent returns: errKeyNotInGroup, or that of the upstream.
Reply(c, what) ==
  /\ reply' = [reply EXCEPT ![c] = what]
  /\ pc' = [pc EXCEPT ![c] = "idle"]
  /\ wants' = [wants EXCEPT ![c] = None]
  /\ outcome' = [outcome EXCEPT ![c] = 0]
  /\ since' = [since EXCEPT ![c] = 0]

\* The refresh failed: so does the request.
ReturnError(c) ==
  /\ pc[c] = "woken"
  /\ outcome[c] = 0
  /\ Reply(c, "failed")
  /\ UNCHANGED <<offered, snapshot, inFlight, unmatched, joined, shown>>

\* list returns the keys of the refresh the client took part in.
ReturnList(c) ==
  /\ pc[c] = "woken"
  /\ outcome[c] # 0
  /\ wants[c] = Listing
  /\ shown' = [shown EXCEPT ![c] = outcome[c]]
  /\ Reply(c, "listed")
  /\ UNCHANGED <<offered, snapshot, inFlight, unmatched, joined>>

\* Mutant: authorize decides by the listing the client waited for.
FinishAuthorizeByListing(c) ==
  /\ pc[c] = "woken"
  /\ outcome[c] # 0
  /\ wants[c] \in Blob
  /\ \/ /\ wants[c] \in Allowed[outcome[c]]
        /\ pc' = [pc EXCEPT ![c] = "forward"]
        /\ UNCHANGED <<wants, outcome, reply, since>>
     \/ /\ wants[c] \notin Allowed[outcome[c]]
        /\ Reply(c, "refused")
  /\ UNCHANGED <<offered, snapshot, inFlight, unmatched, joined, shown>>

\* authorize decides by the snapshot current now, which may be newer than the
\* one the client waited for.
FinishAuthorize(c) ==
  /\ pc[c] = "woken"
  /\ outcome[c] # 0
  /\ wants[c] \in Blob
  /\ \/ /\ wants[c] \in Allowed[snapshot]
        /\ pc' = [pc EXCEPT ![c] = "forward"]
        /\ UNCHANGED <<wants, outcome, reply, since>>
     \/ /\ wants[c] \notin Allowed[snapshot]
        /\ Reply(c, "refused")
  /\ UNCHANGED <<offered, snapshot, inFlight, unmatched, joined, shown>>

\* The upstream signs, or fails to; the client has its answer either way.
ForwardSign(c) ==
  /\ pc[c] = "forward"
  /\ Reply(c, "signed") \/ Reply(c, "failed")
  /\ UNCHANGED <<offered, snapshot, inFlight, unmatched, joined, shown>>

-----------------------------------------------------------------------------
Refresh(p) ==
  \/ ListUpstream(p)
  \/ StoreSnapshot(p)
  \/ NoteUnmatched(p)
  \/ FinishRefresh(p)

Serve(c) ==
  \/ List(c)
  \/ FastPath(c)
  \/ AuthorizeMiss(c)
  \/ ReturnError(c)
  \/ ReturnList(c)
  \/ FinishAuthorize(c)
  \/ ForwardSign(c)

Next ==
  \/ KeysChange
  \/ \E p \in Proc : Refresh(p)
  \/ \E c \in Client : Serve(c)
  \/ \E c \in Client, what \in Blob \cup {Listing} : Ask(c, what)

Spec == Init /\ [][Next]_vars

\* A goroutine that can run does, and every upstream call returns: the
\* request watchdog and Run's teardown end a call the agent never answers.
Fairness ==
  /\ \A p \in Proc : WF_vars(Refresh(p))
  /\ \A c \in Client : WF_vars(Serve(c))

FairSpec == Spec /\ Fairness

-----------------------------------------------------------------------------
\* At most one upstream listing is under way for a group, and the record of it
\* (a.inFlight) names its owner: a burst of clients makes one upstream request.
OneRefresh == \A p \in Proc : pc[p] \in Refreshing <=> inFlight = p

\* A process blocked on refresh.done waits for the refresh in flight, never for
\* one that has ended or was replaced: nobody is left to close that channel.
NoLostWaiter == \A c \in Client : pc[c] = "waiting" => joined[c] = inFlight

\* The keys a client was shown were published for signing before it saw them:
\* a key taken from a list is refused only on account of a newer list.
ListedKeysSignable == \A c \in Client : shown[c] <= snapshot

\* A request that took part in a refresh is answered from keys the upstream had at
\* some point after it arrived; the exception, a refresh already answered when it
\* was joined, has since = 0.  (A signature with a known key waits for none.)
FreshAnswers ==
  \A c \in Client : pc[c] = "woken" /\ outcome[c] # 0 =>
    /\ since[c] <= outcome[c]
    /\ outcome[c] <= snapshot

\* Between refreshes the record that limits the warnings describes the
\* published snapshot, so a selector is warned about once per disappearance.
UnmatchedTracksSnapshot ==
  inFlight = None /\ snapshot # 0 => unmatched = Missing(Offers[snapshot])

\* The published snapshot never goes back to an older listing, whichever order
\* the refreshes of different clients come in.
SnapshotAdvances == [][snapshot' >= snapshot]_vars

\* The group implements what its socket promises: a key is granted and refused on
\* account of the view at that instant, an error is never taken for a refusal, and a
\* key the view holds needs no listing that could fail.
ClientAsked == [c \in Client |-> wants[c]]
LetThrough  == {c \in Client : pc[c] = "forward"}
NotAtOnce   == {c \in Client : wants[c] \in Blob /\ pc[c] \notin {"idle", "asked", "forward"}}

Socket == INSTANCE FilteredView WITH
  View <- Epoch, view <- snapshot, asked <- ClientAsked, granted <- LetThrough,
  missed <- NotAtOnce

ImplementsView == Socket!Spec

\* Every request is answered, also when the listing it waits for fails.
Answered == \A c \in Client : (pc[c] # "idle") ~> (pc[c] = "idle")
=============================================================================
