--------------------------- MODULE Configuration ---------------------------
(***************************************************************************)
(* Which socket paths a configuration may use (config/config.go).          *)
(*                                                                         *)
(* Paths have a directory and a name.  A directory exists, is missing or   *)
(* is a symbolic link to one; a name in it is there, is missing or is a    *)
(* symbolic link to a path; a link may lead to a link.  resolve is a pure  *)
(* function of the configuration and the file system: a state is one input *)
(* of it.                                                                  *)
(***************************************************************************)
EXTENDS Naturals, FiniteSets

CONSTANTS
  Dir, Base, Group,
  Upstreams,  \* the paths of the upstream to consider
  LinkLimit,  \* how many links in a row are followed
  MaxLinks    \* bound: links at names

SocketPath == Dir \X Base

ASSUME DirAssumption == {"real", "missing", "loop"} \cap Dir = {}
ASSUME LimitAssumption == LinkLimit \in Nat
ASSUME UpstreamAssumption == Upstreams \subseteq SocketPath /\ Upstreams # {}

VARIABLES
  dirs,      \* what each directory is: "real", "missing" or a link
  there,     \* the files in real directories
  link,      \* links at names in real directories
  upstream,
  socket,    \* the socket of each group
  enabled    \* the groups with enabled not false

Linked == DOMAIN link

ConfigurationInputs ==
  /\ dirs \in [Dir -> {"real", "missing"} \cup Dir]
  /\ there \in SUBSET {p \in SocketPath : dirs[p[1]] = "real"}
  /\ \E from \in SUBSET ({p \in SocketPath : dirs[p[1]] = "real"} \ there) :
       Cardinality(from) <= MaxLinks /\ link \in [from -> SocketPath]
  /\ upstream \in Upstreams
  /\ socket \in [Group -> SocketPath]
  /\ enabled \in SUBSET Group

\* A behavior is one input.
ConfigurationSpec ==
  ConfigurationInputs /\ [][FALSE]_<<dirs, there, link, upstream, socket, enabled>>

NoConfiguration ==
  LET p == CHOOSE q \in Upstreams : TRUE
  IN  /\ dirs = [d \in Dir |-> "real"] /\ there = {} /\ link = [q \in {} |-> p]
      /\ upstream = p /\ socket = [g \in Group |-> p] /\ enabled = {}

-----------------------------------------------------------------------------
\* What filepath.EvalSymlinks fails with.
Missing == <<"missing">>
Loop    == <<"loop">>

\* Where step after step from x leads.
Follow(step, x) ==
  LET walk[n \in 0 .. LinkLimit] == IF n = 0 THEN x ELSE step[walk[n - 1]]
  IN  walk[LinkLimit]

\* The directory that the links at d lead to; a link when there are too many.
LeadsTo(d) == Follow([e \in Dir |-> IF dirs[e] \in Dir THEN dirs[e] ELSE e], d)

\* filepath.EvalSymlinks of a directory.
EvalDir(d) ==
  CASE dirs[LeadsTo(d)] = "real"    -> LeadsTo(d)
    [] dirs[LeadsTo(d)] = "missing" -> "missing"
    [] dirs[LeadsTo(d)] \in Dir     -> "loop"

\* Where a name in it is, the name itself not followed.
At(p) == IF EvalDir(p[1]) \in Dir THEN <<EvalDir(p[1]), p[2]>> ELSE <<EvalDir(p[1])>>

\* filepath.EvalSymlinks of a path.
NameStep == [x \in SocketPath \cup {Missing, Loop} |-> IF x \in Linked THEN At(link[x]) ELSE x]
Eval(p) ==
  LET q == Follow(NameStep, At(p))
  IN  CASE q \in there                -> q
        [] q = Loop \/ q \in Linked   -> Loop
        [] OTHER                      -> Missing

\* Mutant: a path that does not exist yet is taken as it is written.
CanonicalAsWritten(p) == IF Eval(p) = Missing THEN p ELSE Eval(p)

\* canonicalSocketPath: the longest existing prefix resolved, the rest as written;
\* any other failure is an error.
Canonical(p) ==
  CASE Eval(p) # Missing                             -> Eval(p)
    [] Eval(p) = Missing /\ EvalDir(p[1]) \in Dir    -> At(p)
    [] Eval(p) = Missing /\ EvalDir(p[1]) \notin Dir -> p

\* Mutant: groups are compared with each other only.
AcceptedIfDistinct ==
  /\ \A g \in enabled : Canonical(socket[g]) # Loop
  /\ \A g, h \in enabled : g # h => Canonical(socket[g]) # Canonical(socket[h])

\* resolve accepts the paths; those of disabled groups do not matter.
Accepted ==
  /\ Canonical(upstream) # Loop
  /\ \A g \in enabled : Canonical(socket[g]) \notin {Loop, Canonical(upstream)}
  /\ \A g, h \in enabled : g # h => Canonical(socket[g]) # Canonical(socket[h])

-----------------------------------------------------------------------------
\* A link on the way to p leads nowhere yet: to where it will lead, resolve does not
\* look.
Unresolved(p) ==
  \/ dirs[p[1]] \in Dir /\ EvalDir(p[1]) = "missing"
  \/ At(p) \in Linked /\ Eval(p) = Missing

\* Where a path leads when the missing directories have been made.
Final(p) == <<LeadsTo(p[1]), p[2]>>

\* The groups whose socket has no such link on its way; listenUnix refuses to bind a
\* link itself.
Bindable == {g \in enabled : Final(socket[g]) \notin Linked /\ ~Unresolved(socket[g])}

\* What the proxy connects to.
Dialed == Follow([x \in SocketPath |-> IF x \in Linked THEN Final(link[x]) ELSE x], Final(upstream))

\* Two groups of an accepted configuration never bind one file under two names, by
\* whatever links; but for links to directories that do not exist yet (Unresolved),
\* whose sockets can be bound once another group's has made the directory.
SocketsDistinct ==
  Accepted => \A g, h \in Bindable : g # h => Final(socket[g]) # Final(socket[h])

\* A group never binds the file the upstream leads to, so no proxy is its own upstream,
\* if no link on the way of either leads nowhere yet (Unresolved).
NeverOwnUpstream ==
  Accepted /\ ~Unresolved(upstream) => \A g \in Bindable : Final(socket[g]) # Dialed

\* src/README.md:372-373: "An enabled group socket also cannot resolve to the upstream
\* agent socket."  Not even when the upstream is a link whose target is only bound when
\* the proxy starts.
SocketNeverUpstream ==
  Accepted => \A g \in Bindable : Final(socket[g]) # Dialed
=============================================================================
