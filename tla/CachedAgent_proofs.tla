------------------------- MODULE CachedAgent_proofs -------------------------
(***************************************************************************)
(* Proofs about CachedAgent, for any callers, lifetimes and history of the *)
(* upstream.                                                               *)
(***************************************************************************)
EXTENDS CachedAgent, TLAPS

\* Key sets are only replaced by later ones.
Ordered ==
  /\ cached <= offered
  /\ newest <= offered
  /\ ttl > 0 => newest <= cached
  /\ \A c \in Caller : pc[c] = "storing" /\ got[c] # 0 =>
       cached <= got[c] /\ got[c] <= offered

\* What is kept is an error only if there are no keys, and is there while it lasts.
Result ==
  /\ failed => cached = 0
  /\ left > 0 /\ cached = 0 => failed

\* The time since the last listing and the time left make up the lifetime.
Age == quiet + left = ttl

\* Without a cache nothing is kept and nobody waits.
Off == ttl = 0 => cached = 0 /\ \A c \in Caller : pc[c] \in {"idle", "looking"}

\* What was true when a call began has not been undone.
Begun ==
  \A c \in Caller : /\ begun[c].newest <= newest
                    /\ begun[c].listed => cached # 0

IInv ==
  /\ TypeOK
  /\ OneUpstreamList
  /\ Ordered
  /\ Result
  /\ Age
  /\ Off
  /\ Begun
  /\ MonotoneReads
  /\ NoErrorOnceListed
-----------------------------------------------------------------------------
\* The invariant holds at the start: nothing is kept and nobody calls.
LEMMA Initially == Init => IInv
  <1> SUFFICES ASSUME Init PROVE IInv
    OBVIOUS
  <1>1. TypeOK
    <2>1. 0 \in Epoch /\ 1 \in 1 .. MaxEpoch
      BY CacheAssumption DEF Epoch
    <2>2. ttl \in Nat /\ 0 \in 0 .. ttl /\ ttl \in 0 .. ttl
      BY CacheAssumption DEF Init
    <2>3. begun \in [Caller -> [newest : Epoch, listed : BOOLEAN, down : BOOLEAN]]
      BY <2>1 DEF Init
    <2>4. /\ pc \in [Caller -> {"idle", "looking", "waiting", "listing", "storing"}]
          /\ got \in [Caller -> Epoch]
          /\ reply \in [Caller -> Epoch \cup {None}]
      BY <2>1 DEF Init
    <2> QED BY <2>1, <2>2, <2>3, <2>4 DEF Init, TypeOK
  <1>2. OneUpstreamList
    BY CallerAssumption DEF Init, OneUpstreamList
  <1>3. Ordered /\ Result /\ Age
    BY CacheAssumption DEF Init, Ordered, Result, Age
  <1>4. Off /\ Begun
    BY DEF Init, Off, Begun
  <1>5. MonotoneReads /\ NoErrorOnceListed
    BY DEF Init, MonotoneReads, NoErrorOnceListed
  <1> QED BY <1>1, <1>2, <1>3, <1>4, <1>5 DEF IInv

\* The types that the steps below need of the current state.
LEMMA Numbers ==
  ASSUME TypeOK
  PROVE  /\ ttl \in Nat /\ left \in 0 .. ttl /\ quiet \in 0 .. ttl
         /\ 0 \in Epoch /\ 1 .. MaxEpoch \subseteq Epoch /\ Epoch \subseteq Nat
         /\ offered \in Nat /\ cached \in Nat /\ newest \in Nat
         /\ \A c \in Caller : got[c] \in Nat /\ begun[c].newest \in Nat
         /\ None \notin Epoch
  BY CacheAssumption, ReplyAssumption DEF TypeOK, Epoch

\* No step leaves the invariant.
LEMMA Inductive == IInv /\ [Next]_vars => IInv'
  <1> SUFFICES ASSUME IInv, [Next]_vars PROVE IInv'
    OBVIOUS
  <1> USE Numbers, CallerAssumption, CacheAssumption DEF IInv
  <1>1. ASSUME KeysChange PROVE IInv'
    <2>1. TypeOK'
      BY <1>1 DEF KeysChange, cache, TypeOK
    <2>2. OneUpstreamList'
      BY <1>1 DEF KeysChange, cache, OneUpstreamList, TypeOK
    <2>3. Ordered' /\ Result' /\ Age'
      BY <1>1 DEF KeysChange, cache, Age, Ordered, Result, TypeOK
    <2>4. Off' /\ Begun'
      BY <1>1 DEF KeysChange, cache, Begun, Off, TypeOK
    <2>5. MonotoneReads' /\ NoErrorOnceListed'
      BY <1>1 DEF KeysChange, cache, MonotoneReads, NoErrorOnceListed, TypeOK
    <2> QED BY <2>1, <2>2, <2>3, <2>4, <2>5
  <1>2. ASSUME AgentStarts PROVE IInv'
    <2>1. TypeOK'
      BY <1>2 DEF AgentStarts, cache, TypeOK
    <2>2. OneUpstreamList'
      BY <1>2 DEF AgentStarts, cache, OneUpstreamList, TypeOK
    <2>3. Ordered' /\ Result' /\ Age'
      BY <1>2 DEF AgentStarts, cache, Age, Ordered, Result, TypeOK
    <2>4. Off' /\ Begun'
      BY <1>2 DEF AgentStarts, cache, Begun, Off, TypeOK
    <2>5. MonotoneReads' /\ NoErrorOnceListed'
      BY <1>2 DEF AgentStarts, cache, MonotoneReads, NoErrorOnceListed, TypeOK
    <2> QED BY <2>1, <2>2, <2>3, <2>4, <2>5
  <1>3. ASSUME AgentStops PROVE IInv'
    <2>1. TypeOK'
      BY <1>3 DEF AgentStops, cache, TypeOK
    <2>2. OneUpstreamList'
      BY <1>3 DEF AgentStops, cache, OneUpstreamList, TypeOK
    <2>3. Ordered' /\ Result' /\ Age'
      BY <1>3 DEF AgentStops, cache, Age, Ordered, Result, TypeOK
    <2>4. Off' /\ Begun'
      BY <1>3 DEF AgentStops, cache, Begun, Off, TypeOK
    <2>5. MonotoneReads' /\ NoErrorOnceListed'
      BY <1>3 DEF AgentStops, cache, MonotoneReads, NoErrorOnceListed, TypeOK
    <2> QED BY <2>1, <2>2, <2>3, <2>4, <2>5
  <1>4. ASSUME Tick PROVE IInv'
    <2>1. TypeOK'
      BY <1>4 DEF Tick, Age, TypeOK
    <2>2. OneUpstreamList'
      BY <1>4 DEF Tick, Age, OneUpstreamList, TypeOK
    <2>3. Ordered' /\ Result' /\ Age'
      BY <1>4 DEF Tick, Age, Ordered, Result, TypeOK
    <2>4. Off' /\ Begun'
      BY <1>4 DEF Tick, Age, Begun, Off, TypeOK
    <2>5. MonotoneReads' /\ NoErrorOnceListed'
      BY <1>4 DEF Tick, Age, MonotoneReads, NoErrorOnceListed, TypeOK
    <2> QED BY <2>1, <2>2, <2>3, <2>4, <2>5
  <1>5. ASSUME NEW c \in Caller, Call(c) PROVE IInv'
    <2>1. TypeOK'
      BY <1>5 DEF Call, cache, TypeOK
    <2>2. OneUpstreamList'
      BY <1>5 DEF Call, cache, OneUpstreamList, TypeOK
    <2>3. Ordered' /\ Result' /\ Age'
      BY <1>5 DEF Call, cache, Age, Ordered, Result, TypeOK
    <2>4. Off' /\ Begun'
      BY <1>5 DEF Call, cache, Begun, Off, TypeOK
    <2>5. MonotoneReads' /\ NoErrorOnceListed'
      BY <1>5 DEF Call, cache, MonotoneReads, NoErrorOnceListed, TypeOK
    <2> QED BY <2>1, <2>2, <2>3, <2>4, <2>5
  <1>6. ASSUME NEW c \in Caller, Hit(c) PROVE IInv'
    <2>1. TypeOK'
      BY <1>6 DEF Hit, Return, Kept, cache, TypeOK
    <2>2. OneUpstreamList'
      BY <1>6 DEF Hit, Return, Kept, cache, OneUpstreamList, TypeOK
    <2>3. Ordered' /\ Result' /\ Age'
      BY <1>6 DEF Hit, Return, Kept, cache, Age, Ordered, Result, TypeOK
    <2>4. Off' /\ Begun'
      BY <1>6 DEF Hit, Return, Kept, cache, Begun, Off, Ordered, TypeOK
    <2>5. MonotoneReads'
      BY <1>6 DEF Hit, Return, Kept, cache, Begun, Off, MonotoneReads, Ordered, TypeOK
    <2>6. NoErrorOnceListed'
      BY <1>6 DEF Hit, Return, Kept, cache, Begun, NoErrorOnceListed, Result, TypeOK
    <2> QED BY <2>1, <2>2, <2>3, <2>4, <2>5, <2>6

  <1>7. ASSUME NEW c \in Caller, Wait(c) PROVE IInv'
    <2>1. TypeOK'
      BY <1>7 DEF Wait, cache, TypeOK
    <2>2. OneUpstreamList'
      BY <1>7 DEF Wait, cache, OneUpstreamList, TypeOK
    <2>3. Ordered' /\ Result' /\ Age'
      BY <1>7 DEF Wait, cache, Age, Ordered, Result, TypeOK
    <2>4. Off' /\ Begun'
      BY <1>7 DEF Wait, cache, Begun, Off, TypeOK
    <2>5. MonotoneReads' /\ NoErrorOnceListed'
      BY <1>7 DEF Wait, cache, MonotoneReads, NoErrorOnceListed, TypeOK
    <2> QED BY <2>1, <2>2, <2>3, <2>4, <2>5
  <1>8. ASSUME NEW c \in Caller, Claim(c) PROVE IInv'
    <2>1. TypeOK'
      BY <1>8 DEF Claim, TypeOK
    <2>2. OneUpstreamList'
      BY <1>8 DEF Claim, OneUpstreamList, TypeOK
    <2>3. Ordered' /\ Result' /\ Age'
      BY <1>8 DEF Claim, Age, Ordered, Result, TypeOK
    <2>4. Off' /\ Begun'
      BY <1>8 DEF Claim, Begun, Off, TypeOK
    <2>5. MonotoneReads' /\ NoErrorOnceListed'
      BY <1>8 DEF Claim, MonotoneReads, NoErrorOnceListed, TypeOK
    <2> QED BY <2>1, <2>2, <2>3, <2>4, <2>5
  <1>9. ASSUME NEW c \in Caller, ListUpstream(c) PROVE IInv'
    <2>1. TypeOK'
      BY <1>9 DEF ListUpstream, Upstream, cache, TypeOK
    <2>2. OneUpstreamList'
      BY <1>9 DEF ListUpstream, Upstream, cache, OneUpstreamList, TypeOK
    <2>3. Ordered'
      BY <1>9 DEF ListUpstream, Upstream, cache, Ordered, TypeOK
    <2>4. Result' /\ Age'
      BY <1>9 DEF ListUpstream, Upstream, cache, Age, Result, TypeOK
    <2>5. Off' /\ Begun'
      BY <1>9 DEF ListUpstream, Upstream, cache, Begun, Off, TypeOK
    <2>6. MonotoneReads' /\ NoErrorOnceListed'
      BY <1>9
         DEF ListUpstream, Upstream, cache, MonotoneReads, NoErrorOnceListed, TypeOK
    <2> QED BY <2>1, <2>2, <2>3, <2>4, <2>5, <2>6
  <1>10. ASSUME NEW c \in Caller, Store(c) PROVE IInv'
    <2>a. /\ pc[c] = "storing"
          /\ got[c] \in Nat
          /\ got[c] # 0 => cached <= got[c] /\ got[c] <= offered
      BY <1>10 DEF Store, Ordered
    <2>b. cached' = IF got[c] # 0 THEN got[c] ELSE cached
      BY <1>10 DEF Store, Keep
    <2>c. /\ newest' \in {newest, cached'}
          /\ newest <= newest'
          /\ ttl' = ttl /\ offered' = offered
      BY <1>10, <2>b DEF Store, Return, TypeOK
    <2>d. \A d \in Caller : pc'[d] # "storing"
      BY <1>10 DEF Store, Wake, OneUpstreamList
    <2>1. TypeOK'
      BY <1>10 DEF Store, Keep, Return, Wake, OneUpstreamList, TypeOK
    <2>2. OneUpstreamList'
      BY <1>10 DEF Store, Keep, Return, Wake, OneUpstreamList, TypeOK
    <2>3. Ordered'
      <3>1. cached <= cached' /\ cached' <= offered'
        BY <2>a, <2>b, <2>c DEF Ordered
      <3>2. newest' <= offered' /\ (ttl' > 0 => newest' <= cached')
        BY <3>1, <2>b, <2>c DEF Ordered
      <3> QED BY <3>1, <3>2, <2>d DEF Ordered
    <2>4. Result' /\ Age'
      <3>1. failed' <=> got[c] = 0 /\ cached = 0
        BY <1>10, Zenon DEF Store, Keep
      <3>2. Result'
        BY <3>1, <2>b DEF Result
      <3>3. Age'
        BY <1>10 DEF Store, Keep, Age
      <3> QED BY <3>2, <3>3
    <2>5. Off' /\ Begun'
      BY <1>10
         DEF Store, Keep, Return, Wake, Begun, Off, OneUpstreamList, Ordered, TypeOK
    <2>6. MonotoneReads'
      BY <1>10
         DEF Store, Keep, Return, Wake, Begun, Off, MonotoneReads, OneUpstreamList,
             Ordered, TypeOK
    <2>7. NoErrorOnceListed'
      BY <1>10
         DEF Store, Keep, Return, Wake, Begun, NoErrorOnceListed, OneUpstreamList,
             Result, TypeOK
    <2> QED BY <2>1, <2>2, <2>3, <2>4, <2>5, <2>6, <2>7
  <1>11. ASSUME NEW c \in Caller, ListDirectly(c) PROVE IInv'
    <2>1. TypeOK'
      BY <1>11 DEF ListDirectly, Return, Upstream, cache, TypeOK
    <2>2. OneUpstreamList'
      BY <1>11 DEF ListDirectly, Return, Upstream, cache, OneUpstreamList, TypeOK
    <2>3. Ordered'
      BY <1>11 DEF ListDirectly, Return, Upstream, cache, Ordered, TypeOK
    <2>4. Result' /\ Age'
      BY <1>11 DEF ListDirectly, Return, Upstream, cache, Age, Result, TypeOK
    <2>5. Off' /\ Begun'
      BY <1>11 DEF ListDirectly, Return, Upstream, cache, Begun, Off, Ordered, TypeOK
    <2>6. MonotoneReads'
      BY <1>11
         DEF ListDirectly, Return, Upstream, cache, Begun, MonotoneReads, Ordered,
             TypeOK
    <2>7. NoErrorOnceListed'
      BY <1>11
         DEF ListDirectly, Return, Upstream, cache, Begun, Off, NoErrorOnceListed,
             TypeOK
    <2> QED BY <2>1, <2>2, <2>3, <2>4, <2>5, <2>6, <2>7
  <1>12. CASE UNCHANGED vars
    BY <1>12 DEF vars, TypeOK, OneUpstreamList, Ordered, Result, Age, Off, Begun,
                 MonotoneReads, NoErrorOnceListed
  <1> QED
    BY <1>1, <1>2, <1>3, <1>4, <1>5, <1>6, <1>7, <1>8, <1>9, <1>10, <1>11, <1>12
    DEF Next, List

LEMMA Invariance == Spec => []IInv
  BY Initially, Inductive, PTL DEF Spec

-----------------------------------------------------------------------------
\* Every field of the cache and every result keeps its type (cache.go, List).
THEOREM TypeCorrect == Spec => []TypeOK
  <1>1. IInv => TypeOK
    BY DEF IInv
  <1> QED BY <1>1, Invariance, PTL

\* However many callers find the cache expired, one of them lists the upstream,
\* and a.inFlight is its.
THEOREM ListsCoalesce == Spec => []OneUpstreamList
  <1>1. IInv => OneUpstreamList
    BY DEF IInv
  <1> QED BY <1>1, Invariance, PTL

\* Answers never go back: a hit, a waiter and the caller that listed return what
\* is at least as new as what any call had returned before theirs began.
THEOREM AnswersInOrder == Spec => []MonotoneReads
  <1>1. IInv => MonotoneReads
    BY DEF IInv
  <1> QED BY <1>1, Invariance, PTL

\* After the first successful listing a.cachedErr is nil for good.
THEOREM SurvivesAbsence == Spec => []NoErrorOnceListed
  <1>1. IInv => NoErrorOnceListed
    BY DEF IInv
  <1> QED BY <1>1, Invariance, PTL

\* A refresh is claimed only when the whole lifetime has passed since the last
\* listing ended, also if that one failed.
THEOREM OnePerInterval == Spec => OneListPerInterval
  <1>1. IInv /\ [Next]_vars => [inFlight = None /\ inFlight' # None => quiet = ttl]_vars
    <2> SUFFICES ASSUME IInv, [Next]_vars, inFlight = None, inFlight' # None
                 PROVE  quiet = ttl
      BY DEF vars
    <2>1. PICK c \in Caller : Claim(c)
      <3>1. inFlight' # inFlight
        OBVIOUS
      <3>2. \A c \in Caller : ~Store(c)
        BY DEF Store
      <3> QED
        BY <3>1, <3>2
        DEF Next, List, vars, cache, KeysChange, AgentStarts, AgentStops, Tick, Call, Hit,
            Wait, ListUpstream, ListDirectly
    <2> QED BY <2>1, Numbers DEF Claim, IInv, Age
  <1> QED BY <1>1, Invariance, PTL DEF Spec, OneListPerInterval
=============================================================================
