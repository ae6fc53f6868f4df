---------------------------- MODULE FilteredView ----------------------------
(***************************************************************************)
(* What the socket of one key group promises its clients, whatever way the *)
(* proxy finds out which keys the upstream agent has.                      *)
(*                                                                         *)
(* The group has a current view, the blobs of the keys a client may sign   *)
(* with.  View 0 is the view before the first listing: it allows nothing,  *)
(* and no key is refused on its account.  Views only move forward.  A list *)
(* shows one view that has been published, and never an earlier one than   *)
(* the same client has seen.  A signature is granted at an instant at      *)
(* which the current view holds the key, and the client is told that the   *)
(* key is refused only at one at which it does not.  Anything else that    *)
(* goes wrong is told as a failure; before it is granted, a request for a  *)
(* key fails only if the view was once seen without that key.              *)
(***************************************************************************)
EXTENDS Integers

CONSTANTS
  Client,       \* the clients of the group's socket
  Blob,         \* public key blobs
  View,         \* numbers of the views, in the order of the upstream's changes
  Allowed,      \* Allowed[v]: the blobs view v allows
  None,         \* no request
  Listing       \* the request for the list of identities

VARIABLES
  view,         \* number of the current view
  asked,        \* what each client has asked for: a blob to sign with, Listing
  granted,      \* clients whose signing request has been let through
  missed,       \* clients whose key the view did not hold when it was looked at
  shown,        \* number of the view each client was last shown
  reply         \* what each client was told last

vars == <<view, asked, granted, missed, shown, reply>>

TypeOK ==
  /\ view \in View
  /\ asked \in [Client -> Blob \cup {Listing, None}]
  /\ granted \in SUBSET Client
  /\ missed \in SUBSET Client
  /\ shown \in [Client -> View]
  /\ reply \in [Client -> {"none", "listed", "signed", "refused", "failed"}]

Init ==
  /\ view = 0
  /\ asked = [c \in Client |-> None]
  /\ granted = {}
  /\ missed = {}
  /\ shown = [c \in Client |-> 0]
  /\ reply = [c \in Client |-> "none"]

Ask(c, what) ==
  /\ asked[c] = None
  /\ asked' = [asked EXCEPT ![c] = what]
  /\ reply' = [reply EXCEPT ![c] = "none"]
  /\ UNCHANGED <<view, granted, missed, shown>>

Publish(v) ==
  /\ v >= view
  /\ view' = v
  /\ UNCHANGED <<asked, granted, missed, shown, reply>>

\* The request is over.
Tell(c, what) ==
  /\ asked' = [asked EXCEPT ![c] = None]
  /\ granted' = granted \ {c}
  /\ missed' = missed \ {c}
  /\ reply' = [reply EXCEPT ![c] = what]
  /\ UNCHANGED view

Grant(c) ==
  /\ asked[c] \in Allowed[view]
  /\ granted' = granted \cup {c}
  /\ missed' = missed \ {c}
  /\ UNCHANGED <<view, asked, shown, reply>>

Miss(c) ==
  /\ asked[c] \in Blob \ Allowed[view]
  /\ c \notin granted
  /\ missed' = missed \cup {c}
  /\ UNCHANGED <<view, asked, granted, shown, reply>>

Sign(c) ==
  /\ c \in granted
  /\ Tell(c, "signed")
  /\ UNCHANGED shown

Refuse(c) ==
  /\ c \in missed
  /\ asked[c] \notin Allowed[view]
  /\ view # 0
  /\ Tell(c, "refused")
  /\ UNCHANGED shown

Show(c, v) ==
  /\ asked[c] = Listing
  /\ v # 0
  /\ v >= shown[c]
  /\ v <= view
  /\ shown' = [shown EXCEPT ![c] = v]
  /\ Tell(c, "listed")

Fail(c) ==
  /\ asked[c] = Listing \/ c \in missed \cup granted
  /\ Tell(c, "failed")
  /\ UNCHANGED shown

Next ==
  \/ \E v \in View : Publish(v)
  \/ \E c \in Client :
       \/ \E what \in Blob \cup {Listing} : Ask(c, what)
       \/ Grant(c)
       \/ Miss(c)
       \/ Sign(c)
       \/ Refuse(c)
       \/ \E v \in View : Show(c, v)
       \/ Fail(c)

Spec == Init /\ [][Next]_vars
=============================================================================
