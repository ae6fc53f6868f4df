----------------------------- MODULE KeyResolve -----------------------------
(***************************************************************************)
(* Which of the upstream's keys a group's selectors select, and in what    *)
(* order (keys/keys.go).  A key is a public key blob with a comment; the   *)
(* two fingerprint selectors both go by the blob alone.  The upstream may  *)
(* list a blob more than once, under other comments too.                   *)
(*                                                                         *)
(* A behavior is one call of Resolve; a step is one turn of a loop of its. *)
(***************************************************************************)
EXTENDS Naturals, Sequences

CONSTANTS
  KeyBlob, Comment,
  MaxKeys,      \* bound: length of the upstream's list
  MaxMatchers   \* bound: number of selectors of the group

ASSUME LengthAssumption == MaxKeys \in Nat /\ MaxMatchers \in Nat

AgentKey   == [blob : KeyBlob, comment : Comment]
KeyMatcher == [type : {"comment"}, value : Comment] \cup [type : {"fingerprint"}, value : KeyBlob]

VARIABLES
  upstreamKeys, matchers,  \* the arguments
  atMatcher, atKey,        \* where the loops are
  out, matchCounts,        \* the results
  seen                     \* the blobs put out

inputs      == <<upstreamKeys, matchers>>
resolveVars == <<inputs, atMatcher, atKey, out, matchCounts, seen>>

UpTo(n, S) == UNION {[1 .. m -> S] : m \in 0 .. n}

KeyInputs == upstreamKeys \in UpTo(MaxKeys, AgentKey) /\ matchers \in UpTo(MaxMatchers, KeyMatcher)
NoKeys    == upstreamKeys = <<>> /\ matchers = <<>>

Begin ==
  /\ atMatcher = 1 /\ atKey = 1
  /\ out = <<>>
  /\ matchCounts = [n \in DOMAIN matchers |-> 0]
  /\ seen = {}

-----------------------------------------------------------------------------
\* Matcher.Matches.
Matches(m, k) == m.value = IF m.type = "comment" THEN k.comment ELSE k.blob

\* The inner loop has a key to look at.
Looking == atMatcher \in DOMAIN matchers /\ atKey \in DOMAIN upstreamKeys
ThisMatcher == matchers[atMatcher]
ThisKey     == upstreamKeys[atKey]

\* The selector does not match: continue.
Skip ==
  /\ Looking /\ ~Matches(ThisMatcher, ThisKey)
  /\ atKey' = atKey + 1
  /\ UNCHANGED <<inputs, atMatcher, out, matchCounts, seen>>

\* It matches: count the key, and put it out when its blob is first seen.
Select ==
  /\ Looking /\ Matches(ThisMatcher, ThisKey)
  /\ matchCounts' = [matchCounts EXCEPT ![atMatcher] = @ + 1]
  /\ \/ ThisKey.blob \notin seen /\ out' = Append(out, ThisKey) /\ seen' = seen \cup {ThisKey.blob}
     \/ ThisKey.blob \in seen /\ UNCHANGED <<out, seen>>
  /\ atKey' = atKey + 1
  /\ UNCHANGED <<inputs, atMatcher>>

\* Mutant: what has been seen is of the selector only.
NextForgets ==
  /\ atMatcher \in DOMAIN matchers /\ atKey \notin DOMAIN upstreamKeys
  /\ atMatcher' = atMatcher + 1 /\ atKey' = 1
  /\ seen' = {}
  /\ UNCHANGED <<inputs, out, matchCounts>>

\* On to the next selector.
NextMatcher ==
  /\ atMatcher \in DOMAIN matchers /\ atKey \notin DOMAIN upstreamKeys
  /\ atMatcher' = atMatcher + 1 /\ atKey' = 1
  /\ UNCHANGED <<inputs, out, matchCounts, seen>>

Resolve == Skip \/ Select \/ NextMatcher

Returned == atMatcher \notin DOMAIN matchers

ResolveSpec == KeyInputs /\ Begin /\ [][Resolve]_resolveVars

-----------------------------------------------------------------------------
\* The places in the configuration's list of selectors and the upstream's of keys,
\* and their order: by selector, then by key.
Place        == (DOMAIN matchers) \X (DOMAIN upstreamKeys)
Before(p, q) == p[1] < q[1] \/ (p[1] = q[1] /\ p[2] < q[2])
KeyAt(p)     == upstreamKeys[p[2]]

\* Where a selector selects a key, and where a blob is selected first.
Selected == {p \in Place : Matches(matchers[p[1]], KeyAt(p))}
First    == {p \in Selected :
               \A q \in Selected : KeyAt(q).blob = KeyAt(p).blob => ~Before(q, p)}

\* Keys come in the order of the configuration, those of one selector in that of
\* the upstream, and one selected twice at its earliest place.
ConfiguredOrder ==
  Returned => \E place \in [DOMAIN out -> First] :
                /\ First = {place[n] : n \in DOMAIN out}
                /\ \A n \in DOMAIN out : out[n] = KeyAt(place[n])
                /\ \A m, n \in DOMAIN out : m < n => Before(place[m], place[n])
=============================================================================
