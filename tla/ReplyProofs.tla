---------------------------- MODULE ReplyProofs -----------------------------
(***************************************************************************)
(* Proofs about the router, for any number of callers, any optional        *)
(* services, any throttles and any behaviour of the clock; and about the   *)
(* reply, for any number of turns, any skills, any length of an answer and *)
(* any behaviour of the providers: the turns use the router as a router    *)
(* may be used, so what is proved of the router holds of them, and what    *)
(* was heard is what was recorded; and about what a reply decides on: for  *)
(* any skills, any memory and any similarities, the dispatcher and the     *)
(* hybrid recall compute what their references describe.                   *)
(***************************************************************************)
EXTENDS Reply, TLAPS, FiniteSetTheorems, SequenceTheorems, WellFoundedInduction

\* A chain has at least two providers and none of them twice.
LEMMA ChainFacts ==
    ASSUME NEW lane \in Lanes
    PROVE  /\ chainFor(lane) \in Seq(Providers)
           /\ Len(chainFor(lane)) >= 2
           /\ \A i, j \in 1 .. Len(chainFor(lane)) :
                chainFor(lane)[i] = chainFor(lane)[j] => i = j
<1> DEFINE services == {"groq", "mistral", "google", "openrouter"}
           keys == {Keyed[i] : i \in DOMAIN Keyed}
<1>1. Keyed \in Seq(keys) /\ keys \subseteq services
  BY RouterAssumption
<1>2. CASE lane = "see"
  BY <1>2 DEF chainFor, Providers, Throttled
<1>3. ASSUME NEW last \in {"ollama", "offline"}, chainFor(lane) = <<"nim">> \o Keyed \o <<last>>
      PROVE  /\ chainFor(lane) \in Seq(Providers)
             /\ Len(chainFor(lane)) >= 2
             /\ \A i, j \in 1 .. Len(chainFor(lane)) :
                  chainFor(lane)[i] = chainFor(lane)[j] => i = j
  <2> DEFINE c == chainFor(lane)
             n == Len(Keyed)
  <2>1. n \in Nat /\ \A i \in 1 .. n : Keyed[i] \in keys
    BY <1>1
  <2>2. Len(c) = n + 2 /\ c[1] = "nim" /\ c[n + 2] = last /\ \A i \in 2 .. n + 1 : c[i] = Keyed[i - 1]
    BY <1>1, <1>3, <2>1
  <2>3. c \in Seq(Providers)
    <3>1. <<"nim">> \in Seq(Providers) /\ <<last>> \in Seq(Providers) /\ Keyed \in Seq(Providers)
      BY <1>1 DEF Providers, Throttled
    <3>2. QED BY <3>1, <1>3
  <2>4. \A i \in 2 .. n + 1 : c[i] \in services
    <3>1. SUFFICES ASSUME NEW i \in 2 .. n + 1 PROVE Keyed[i - 1] \in services
      BY <2>2
    <3>2. i - 1 \in 1 .. n
      BY <2>1
    <3>3. QED BY <3>2, <2>1, <1>1
  <2>5. \A i, j \in 2 .. n + 1 : c[i] = c[j] => i = j
    <3>1. SUFFICES ASSUME NEW i \in 2 .. n + 1, NEW j \in 2 .. n + 1, Keyed[i - 1] = Keyed[j - 1] PROVE i = j
      BY <2>2
    <3>2. i - 1 \in DOMAIN Keyed /\ j - 1 \in DOMAIN Keyed
      BY <1>1, <2>1
    <3>3. i - 1 = j - 1
      BY <3>1, <3>2, RouterAssumption
    <3>4. QED BY <3>3, <2>1
  <2>6. \A i, j \in 1 .. n + 2 : c[i] = c[j] => i = j
    <3>1. \A i \in 1 .. n + 2 : i = 1 \/ i = n + 2 \/ i \in 2 .. n + 1
      BY <2>1
    <3>2. c[1] \notin services /\ c[n + 2] \notin services /\ c[1] # c[n + 2]
      BY <2>2
    <3> HIDE DEF c, services
    <3>3. QED BY <3>1, <3>2, <2>4, <2>5
  <2>7. QED BY <2>1, <2>2, <2>3, <2>6
<1>4. QED
  BY <1>2, <1>3 DEF chainFor, Lanes

\* A refill keeps the bucket a bucket, and gains no more than the time that passed allows.
LEMMA RefillFacts ==
    ASSUME NEW b \in Bucket, NEW n \in Nat
    PROVE  /\ refill(b, n) \in Bucket
           /\ refill(b, n).lastRefill >= b.lastRefill
           /\ refill(b, n).tokens
                <= b.tokens + Capacity * (refill(b, n).lastRefill - b.lastRefill)
<1>1. Full \in Nat
  BY ThrottleAssumption DEF Full
<1>2. CASE n <= b.lastRefill
  <2>1. refill(b, n) = b
    BY <1>2 DEF refill
  <2>2. Capacity * (b.lastRefill - b.lastRefill) = 0
    BY ThrottleAssumption DEF Bucket
  <2>3. QED BY <2>1, <2>2, <1>1 DEF Bucket
<1>3. CASE ~(n <= b.lastRefill)
  <2> DEFINE gained == b.tokens + (n - b.lastRefill) * Capacity
  <2>1. refill(b, n) = [tokens |-> IF gained < Full THEN gained ELSE Full, lastRefill |-> n]
    BY <1>3 DEF refill
  <2>2. n - b.lastRefill \in Nat /\ b.tokens \in Nat
    BY <1>1, <1>3 DEF Bucket
  <2>3. (n - b.lastRefill) * Capacity \in Nat /\ (n - b.lastRefill) * Capacity = Capacity * (n - b.lastRefill)
    BY <2>2, ThrottleAssumption
  <2>4. gained \in Nat
    BY <2>2, <2>3
  <2>5. QED BY <2>1, <2>2, <2>3, <2>4, <1>1, <1>3 DEF Bucket
<1>4. QED BY <1>2, <1>3

\* tryTake takes one token exactly when canTake says there is one.
LEMMA TakeFacts ==
    ASSUME NEW b \in Bucket, NEW n \in Nat
    PROVE  /\ tryTake(b, n) \in Bucket
           /\ tryTake(b, n).lastRefill = refill(b, n).lastRefill
           /\ tryTake(b, n).tokens <= refill(b, n).tokens
           /\ canTake(b, n) => tryTake(b, n).tokens = refill(b, n).tokens - Minute
<1>1. Full \in Nat
  BY ThrottleAssumption DEF Full
<1>2. refill(b, n) \in Bucket
  BY RefillFacts
<1> DEFINE r == refill(b, n)
<1>3. CASE r.tokens >= Minute
  <2>1. tryTake(b, n) = [r EXCEPT !.tokens = @ - Minute]
    BY <1>3 DEF tryTake
  <2> HIDE DEF r
  <2>2. QED BY <1>1, <1>2, <1>3, <2>1, ThrottleAssumption DEF Bucket, r
<1>4. CASE ~(r.tokens >= Minute)
  BY <1>1, <1>2, <1>4, ThrottleAssumption DEF tryTake, canTake, Bucket
<1>5. QED BY <1>3, <1>4

\* A call on its chain.
OnChain(c) == c \in Call /\ c.depth <= Len(chainFor(c.lane))

\* Whatever happens to a call on its chain, it stays on it.
LEMMA CallFacts ==
    ASSUME NEW c, OnChain(c)
    PROVE  /\ provider(c) \in Providers
           /\ OnChain(fallThrough(c)) /\ fallThrough(c).pc \in {"choosing", "failed"}
           /\ OnChain(afterFailure(c)) /\ afterFailure(c).pc \in {"choosing", "failed"}
           /\ OnChain(succeed(c)) /\ succeed(c).pc = "ok"
           /\ OnChain([c EXCEPT !.pc = "fetching"])
           /\ OnChain([c EXCEPT !.pc = "streaming"])
           /\ OnChain([c EXCEPT !.yielded = TRUE])
<1>1. c.lane \in Lanes /\ c \in Call
  BY DEF Call, OnChain
<1>2. chainFor(c.lane) \in Seq(Providers) /\ Len(chainFor(c.lane)) \in Nat
  BY <1>1, ChainFacts
<1>3. provider(c) \in Providers
  BY <1>2 DEF provider, Call, OnChain
<1>4. OnChain(fallThrough(c)) /\ fallThrough(c).pc \in {"choosing", "failed"}
  <2>1. CASE c.depth < Len(chainFor(c.lane))
    <3>1. fallThrough(c) = [c EXCEPT !.pc = "choosing", !.depth = @ + 1]
      BY <2>1 DEF fallThrough
    <3>2. c.depth + 1 <= Len(chainFor(c.lane)) /\ c.depth + 1 \in Nat \ {0}
      BY <2>1, <1>1, <1>2 DEF Call
    <3>3. [c EXCEPT !.pc = "choosing", !.depth = @ + 1] \in Call
      BY <1>1, <3>2 DEF Call
    <3>4. QED BY <1>1, <3>1, <3>2, <3>3 DEF OnChain, Call
  <2>2. CASE ~(c.depth < Len(chainFor(c.lane)))
    BY <2>2, <1>1 DEF fallThrough, OnChain, Call
  <2>3. QED BY <2>1, <2>2
<1>5. OnChain(afterFailure(c)) /\ afterFailure(c).pc \in {"choosing", "failed"}
  BY <1>1, <1>4 DEF afterFailure, OnChain, Call
<1>6. OnChain(succeed(c)) /\ succeed(c).pc = "ok"
  BY <1>1, <1>3 DEF succeed, OnChain, Call
<1>7. /\ OnChain([c EXCEPT !.pc = "fetching"])
      /\ OnChain([c EXCEPT !.pc = "streaming"])
      /\ OnChain([c EXCEPT !.yielded = TRUE])
  BY <1>1 DEF OnChain, Call
<1>8. QED BY <1>3, <1>4, <1>5, <1>6, <1>7

\* A new call is on its chain.
LEMMA NewCallFacts ==
    ASSUME NEW lane \in Lanes
    PROVE  OnChain(routeChat(lane)) /\ OnChain(NoCall)
<1>1. \A l \in Lanes : Len(chainFor(l)) >= 2 /\ Len(chainFor(l)) \in Nat
  BY ChainFacts
<1>2. NoCall \in Call /\ NoCall.lane = "converse" /\ NoCall.depth = 1
  BY DEF NoCall, Call, Lanes
<1>3. routeChat(lane) \in Call /\ routeChat(lane).lane = lane /\ routeChat(lane).depth = 1
  BY <1>2 DEF routeChat, Call
<1>4. "converse" \in Lanes
  BY DEF Lanes
<1>5. \A l \in Lanes : 1 <= Len(chainFor(l))
  BY <1>1
<1>6. QED BY <1>2, <1>3, <1>4, <1>5 DEF OnChain

\* Replacing one turn's call by one on its chain leaves all calls well typed.
LEMMA CallStep ==
    ASSUME RouterTypeOK, NEW t \in Turns, NEW c, OnChain(c), call' = [call EXCEPT ![t] = c]
    PROVE  call' \in [Turns -> Call] /\ \A u \in Turns : OnChain(call'[u])
BY DEF RouterTypeOK, OnChain

\* Every step keeps each variable of the router within its type.
LEMMA RouterTypeStep == RouterTypeOK /\ [RouterNext]_routerVars => RouterTypeOK'
<1> SUFFICES ASSUME RouterTypeOK, [RouterNext]_routerVars PROVE RouterTypeOK'
  OBVIOUS
<1> DEFINE CallsOK == call \in [Turns -> Call] /\ \A t \in Turns : OnChain(call[t])
           ThrottlesOK == /\ bucket \in [Throttled -> Bucket]
                          /\ inFlight \in [Throttled -> 0 .. MaxConcurrent]
                          /\ sent \in [Throttled -> Seq(Nat)]
                          /\ now \in Nat
<1>a. CallsOK /\ ThrottlesOK /\ (CallsOK' /\ ThrottlesOK' => RouterTypeOK')
  BY DEF RouterTypeOK, OnChain
<1>b. \A p \in Throttled : tryTake(bucket[p], now) \in Bucket
  BY <1>a, TakeFacts
<1>c. \A n \in 0 .. MaxConcurrent : release(n) \in 0 .. MaxConcurrent
  BY ThrottleAssumption DEF release
<1>d. \A p : freeSlot(p) \in [Throttled -> 0 .. MaxConcurrent]
  BY <1>a, <1>c DEF freeSlot
<1>e. \A p \in Throttled : \A q \in Seq(Nat) : Append(q, tryTake(bucket[p], now).lastRefill) \in Seq(Nat)
  BY <1>b DEF Bucket
<1> HIDE DEF CallsOK, ThrottlesOK
<1>1. ASSUME NEW t \in Turns, RefusedBusy(t) \/ RefusedRate(t) \/ Sends(t) \/ SendsUnthrottled(t)
      PROVE  RouterTypeOK'
  <2> DEFINE p == provider(call[t])
  <2>1. CallsOK'
    <3>1. OnChain(call[t])
      BY <1>a DEF CallsOK
    <3>2. \/ call' = [call EXCEPT ![t] = fallThrough(call[t])]
          \/ call' = [call EXCEPT ![t] = [call[t] EXCEPT !.pc = "fetching"]]
          \/ call' = [call EXCEPT ![t] = [call[t] EXCEPT !.pc = "streaming"]]
      BY <1>1 DEF RefusedBusy, RefusedRate, Sends, SendsUnthrottled
    <3>3. QED BY <3>1, <3>2, CallFacts, CallStep DEF CallsOK
  <2>2. CASE RefusedBusy(t) \/ SendsUnthrottled(t)
    BY <2>1, <2>2, <1>a DEF RefusedBusy, SendsUnthrottled, ThrottlesOK
  <2>3. CASE RefusedRate(t)
    BY <2>1, <2>3, <1>a, <1>b DEF RefusedRate, ThrottlesOK
  <2>4. CASE Sends(t)
    <3>1. p \in Throttled /\ inFlight[p] + 1 \in 0 .. MaxConcurrent
      BY <2>4, <1>a, ThrottleAssumption DEF Sends, canAcquire, ThrottlesOK
    <3>2. inFlight' \in [Throttled -> 0 .. MaxConcurrent]
      BY <2>4, <3>1, <1>a DEF Sends, ThrottlesOK
    <3>3. bucket' \in [Throttled -> Bucket] /\ sent' \in [Throttled -> Seq(Nat)]
      BY <2>4, <3>1, <1>a, <1>b, <1>e DEF Sends, ThrottlesOK
    <3>4. QED BY <2>1, <2>4, <3>2, <3>3, <1>a DEF Sends, ThrottlesOK
  <2>5. QED BY <1>1, <2>2, <2>3, <2>4
<1>2. ASSUME NEW t \in Turns, \/ FetchFails(t) \/ StreamFails(t) \/ VisionAnswers(t)
                              \/ StreamEnds(t) \/ ResponseArrives(t) \/ Chunk(t)
      PROVE  RouterTypeOK'
  <2>1. /\ inFlight' = inFlight \/ inFlight' = freeSlot(provider(call[t]))
        /\ UNCHANGED <<now, bucket, sent>>
        /\ \/ call' = [call EXCEPT ![t] = fallThrough(call[t])]
           \/ call' = [call EXCEPT ![t] = afterFailure(call[t])]
           \/ call' = [call EXCEPT ![t] = succeed(call[t])]
           \/ call' = [call EXCEPT ![t] = [call[t] EXCEPT !.pc = "streaming"]]
           \/ call' = [call EXCEPT ![t] = [call[t] EXCEPT !.yielded = TRUE]]
    BY <1>2 DEF FetchFails, StreamFails, VisionAnswers, StreamEnds, ResponseArrives, Chunk
  <2>2. CallsOK'
    <3>1. OnChain(call[t])
      BY <1>a DEF CallsOK
    <3>2. QED BY <3>1, <2>1, CallFacts, CallStep DEF CallsOK
  <2>3. ThrottlesOK'
    BY <2>1, <1>a, <1>d DEF ThrottlesOK
  <2>4. QED BY <2>2, <2>3, <1>a
<1>3. ASSUME NEW t \in Turns, NEW lane \in Lanes, Asks(t, lane) PROVE RouterTypeOK'
  <2>1. CallsOK'
    BY <1>3, NewCallFacts, CallStep DEF Asks, CallsOK
  <2>2. QED BY <1>3, <2>1, <1>a DEF Asks, ThrottlesOK
<1>4. CASE ClockAdvances \/ ClockStepsBack
  BY <1>4, <1>a DEF ClockAdvances, ClockStepsBack, CallsOK, ThrottlesOK
<1>5. CASE UNCHANGED routerVars
  BY <1>5, <1>a DEF routerVars, CallsOK, ThrottlesOK
<1>6. QED
  BY <1>1, <1>2, <1>3, <1>4, <1>5 DEF RouterNext, Attempts, Settles

LEMMA RouterTypeInit == RouterInit => RouterTypeOK
<1> SUFFICES ASSUME RouterInit PROVE RouterTypeOK
  OBVIOUS
<1>1. OnChain(NoCall)
  BY NewCallFacts DEF Lanes
<1>2. newBucket(0) \in Bucket /\ 0 \in 0 .. MaxConcurrent
  BY ThrottleAssumption DEF newBucket, Bucket, Full
<1>3. QED
  BY <1>1, <1>2 DEF RouterInit, RouterTypeOK, OnChain

\* The router's variables keep their types: a bucket is never overfull nor negative, a
\* limiter never counts past its limit, a call never walks off its chain.
THEOREM RouterTypeCorrect == RouterSpec => []RouterTypeOK
<1>1. QED BY RouterTypeInit, RouterTypeStep, PTL DEF RouterSpec
----------------------------------------------------------------------------
(* The limiters.                                                           *)

onItsWay(c) == c.pc \in {"fetching", "streaming"}

\* A step that changes one call, and neither puts a request on its way nor ends one, leaves
\* the holders of every provider alone.
LEMMA HoldersKept ==
    ASSUME RouterTypeOK, NEW t \in Turns, NEW c, call' = [call EXCEPT ![t] = c],
           onItsWay(c) <=> onItsWay(call[t]),
           onItsWay(c) => provider(c) = provider(call[t])
    PROVE  \A p : Holders(p)' = Holders(p)
BY DEF RouterTypeOK, Holders, onItsWay

LEMMA HoldersFinite == ASSUME NEW p PROVE IsFiniteSet(Holders(p)) /\ Cardinality(Holders(p)) \in Nat
<1>1. Holders(p) \subseteq Turns
  BY DEF Holders
<1>2. QED BY <1>1, RouterAssumption, FS_Subset, FS_CardinalityType

\* A request goes out with a slot.
LEMMA SlotTaken ==
    ASSUME RouterTypeOK, SlotsMatchCalls, NEW t \in Turns, Sends(t)
    PROVE  SlotsMatchCalls'
<1>q. PICK q : q = provider(call[t])
  OBVIOUS
<1>1. /\ q \in Throttled
      /\ inFlight' = [inFlight EXCEPT ![q] = @ + 1]
      /\ call[t].pc = "choosing"
      /\ call' = [call EXCEPT ![t].pc = "fetching"]
  BY <1>q DEF Sends
<1>2. call'[t].pc = "fetching" /\ provider(call'[t]) = q
  BY <1>1, <1>q DEF RouterTypeOK, Call, provider
<1>3. Holders(q)' = Holders(q) \cup {t} /\ t \notin Holders(q)
  BY <1>1, <1>2, <1>q DEF RouterTypeOK, Holders
<1>4. \A p : p # q => Holders(p)' = Holders(p)
  BY <1>1, <1>2, <1>q DEF RouterTypeOK, Holders
<1>5. Cardinality(Holders(q)') = Cardinality(Holders(q)) + 1
  BY <1>3, HoldersFinite, FS_AddElement
<1>6. SUFFICES ASSUME NEW p \in Throttled PROVE inFlight'[p] = Cardinality(Holders(p)')
  BY DEF SlotsMatchCalls
<1>7. CASE p = q
  <2>1. inFlight'[q] = inFlight[q] + 1
    BY <1>1 DEF RouterTypeOK
  <2>2. QED BY <1>1, <1>5, <1>7, <2>1 DEF SlotsMatchCalls
<1>8. CASE p # q
  <2>1. inFlight'[p] = inFlight[p]
    BY <1>1, <1>8 DEF RouterTypeOK
  <2>2. QED BY <1>4, <1>8, <2>1 DEF SlotsMatchCalls
<1>9. QED BY <1>7, <1>8

\* A request that ends, however it ends, gives its slot back.
LEMMA SlotReturned ==
    ASSUME RouterTypeOK, SlotsMatchCalls, NEW t \in Turns, NEW c,
           onItsWay(call[t]), ~onItsWay(c), call' = [call EXCEPT ![t] = c],
           inFlight' = freeSlot(provider(call[t]))
    PROVE  SlotsMatchCalls'
<1>q. PICK q : q = provider(call[t])
  OBVIOUS
<1>0. call'[t] = c /\ \A u \in Turns \ {t} : call'[u] = call[u]
  BY DEF RouterTypeOK
<1> DEFINE holders(f, p) == {u \in Turns : onItsWay(f[u]) /\ provider(f[u]) = p}
<1>a. \A p : Holders(p) = holders(call, p) /\ Holders(p)' = holders(call', p)
  BY DEF Holders, onItsWay
<1>1. Holders(q)' = Holders(q) \ {t} /\ t \in Holders(q)
  BY <1>0, <1>a, <1>q DEF onItsWay
<1>2. \A p : p # q => Holders(p)' = Holders(p)
  BY <1>0, <1>a, <1>q DEF onItsWay
<1>3. Cardinality(Holders(q)') = Cardinality(Holders(q)) - 1
  BY <1>1, HoldersFinite, FS_RemoveElement
<1>4. CASE q \in Throttled
  <2>1. inFlight[q] = Cardinality(Holders(q)) /\ inFlight[q] # 0
    BY <1>1, <1>4, HoldersFinite, FS_EmptySet DEF SlotsMatchCalls
  <2>2. inFlight' = [inFlight EXCEPT ![q] = inFlight[q] - 1]
    BY <1>4, <1>q, <2>1 DEF freeSlot, release
  <2>3. SUFFICES ASSUME NEW p \in Throttled PROVE inFlight'[p] = Cardinality(Holders(p)')
    BY DEF SlotsMatchCalls
  <2>4. CASE p = q
    <3>1. inFlight'[q] = inFlight[q] - 1
      BY <1>4, <2>2 DEF RouterTypeOK
    <3>2. QED BY <1>3, <2>1, <2>4, <3>1
  <2>5. CASE p # q
    <3>1. inFlight'[p] = inFlight[p]
      BY <2>2, <2>5 DEF RouterTypeOK
    <3>2. QED BY <1>2, <2>5, <3>1 DEF SlotsMatchCalls
  <2>6. QED BY <2>4, <2>5
<1>5. CASE q \notin Throttled
  BY <1>2, <1>5, <1>q DEF SlotsMatchCalls, freeSlot
<1>6. QED BY <1>4, <1>5

LEMMA SlotsStep == RouterTypeOK /\ SlotsMatchCalls /\ [RouterNext]_routerVars => SlotsMatchCalls'
<1> SUFFICES ASSUME RouterTypeOK, SlotsMatchCalls, [RouterNext]_routerVars PROVE SlotsMatchCalls'
  OBVIOUS
<1>a. \A t \in Turns : OnChain(call[t]) /\ call[t] \in Call
  BY DEF RouterTypeOK, OnChain
<1>b. ASSUME NEW t \in Turns, NEW c, call' = [call EXCEPT ![t] = c], inFlight' = inFlight,
             onItsWay(c) <=> onItsWay(call[t]), onItsWay(c) => provider(c) = provider(call[t])
      PROVE  SlotsMatchCalls'
  BY <1>b, HoldersKept DEF SlotsMatchCalls
<1>1. ASSUME NEW t \in Turns, RefusedBusy(t) \/ RefusedRate(t) PROVE SlotsMatchCalls'
  <2>1. /\ call' = [call EXCEPT ![t] = fallThrough(call[t])]
        /\ call[t].pc = "choosing" /\ inFlight' = inFlight
    BY <1>1 DEF RefusedBusy, RefusedRate
  <2>2. QED BY <2>1, <1>a, <1>b, CallFacts DEF onItsWay
<1>2. ASSUME NEW t \in Turns, SendsUnthrottled(t) PROVE SlotsMatchCalls'
  <2>q. PICK q : q = provider(call[t])
    OBVIOUS
  <2>1. PICK s \in {"fetching", "streaming"} :
           /\ call' = [call EXCEPT ![t] = [call[t] EXCEPT !.pc = s]]
           /\ call[t].pc = "choosing" /\ inFlight' = inFlight /\ q \notin Throttled
    BY <1>2, <2>q DEF SendsUnthrottled
  <2>2. provider([call[t] EXCEPT !.pc = s]) = q
    BY <1>a, <2>q DEF provider, Call
  <2>3. \A p \in Throttled : Holders(p)' = Holders(p)
    BY <2>1, <2>2, <2>q, <1>a DEF RouterTypeOK, Holders, Call
  <2>4. QED BY <2>1, <2>3 DEF SlotsMatchCalls
<1>3. ASSUME NEW t \in Turns, FetchFails(t) \/ StreamFails(t) \/ VisionAnswers(t) \/ StreamEnds(t)
      PROVE  SlotsMatchCalls'
  <2>1. /\ onItsWay(call[t]) /\ inFlight' = freeSlot(provider(call[t]))
        /\ \/ call' = [call EXCEPT ![t] = fallThrough(call[t])]
           \/ call' = [call EXCEPT ![t] = afterFailure(call[t])]
           \/ call' = [call EXCEPT ![t] = succeed(call[t])]
    BY <1>3 DEF FetchFails, StreamFails, VisionAnswers, StreamEnds, onItsWay
  <2>2. ~onItsWay(fallThrough(call[t])) /\ ~onItsWay(afterFailure(call[t])) /\ ~onItsWay(succeed(call[t]))
    BY <1>a, CallFacts DEF onItsWay
  <2>3. QED BY <2>1, <2>2, SlotReturned
<1>4. ASSUME NEW t \in Turns, ResponseArrives(t) \/ Chunk(t) PROVE SlotsMatchCalls'
  <2>1. /\ inFlight' = inFlight /\ onItsWay(call[t])
        /\ \/ call' = [call EXCEPT ![t] = [call[t] EXCEPT !.pc = "streaming"]]
           \/ call' = [call EXCEPT ![t] = [call[t] EXCEPT !.yielded = TRUE]]
    BY <1>4 DEF ResponseArrives, Chunk, onItsWay
  <2>2. /\ provider([call[t] EXCEPT !.pc = "streaming"]) = provider(call[t])
        /\ provider([call[t] EXCEPT !.yielded = TRUE]) = provider(call[t])
        /\ onItsWay([call[t] EXCEPT !.pc = "streaming"])
        /\ onItsWay([call[t] EXCEPT !.yielded = TRUE])
    BY <2>1, <1>a DEF provider, onItsWay, Call
  <2>3. QED BY <2>1, <2>2, <1>b
<1>5. ASSUME NEW t \in Turns, NEW lane \in Lanes, Asks(t, lane) PROVE SlotsMatchCalls'
  <2>1. /\ call' = [call EXCEPT ![t] = routeChat(lane)] /\ inFlight' = inFlight
        /\ ~onItsWay(call[t]) /\ ~onItsWay(routeChat(lane))
    BY <1>5 DEF Asks, onItsWay, routeChat, NoCall
  <2>2. QED BY <2>1, <1>b
<1>6. CASE ClockAdvances \/ ClockStepsBack
  BY <1>6 DEF ClockAdvances, ClockStepsBack, SlotsMatchCalls, Holders
<1>7. CASE UNCHANGED routerVars
  BY <1>7 DEF routerVars, SlotsMatchCalls, Holders
<1>8. QED
  BY <1>1, <1>2, <1>3, <1>4, <1>5, <1>6, <1>7, SlotTaken DEF RouterNext, Attempts, Settles

\* No slot is ever lost or given back twice: for every provider and every way its requests
\* end, the limiter counts the requests in flight.
THEOREM SlotsNeverLeak == RouterSpec => []SlotsMatchCalls
<1>1. RouterInit => SlotsMatchCalls
  <2> SUFFICES ASSUME RouterInit, NEW p \in Throttled PROVE inFlight[p] = Cardinality(Holders(p))
    BY DEF SlotsMatchCalls
  <2>1. Holders(p) = {}
    BY DEF RouterInit, Holders, NoCall
  <2>2. QED BY <2>1, FS_EmptySet DEF RouterInit
<1>2. QED BY <1>1, SlotsStep, RouterTypeCorrect, PTL DEF RouterSpec
----------------------------------------------------------------------------
(* The rate.                                                               *)

\* What RateHeld needs to be inductive: from any past request on, the requests sent and the
\* tokens still in the bucket come to no more than a full bucket and what was refilled.
BudgetKept ==
    \A p \in Throttled : \A i \in 1 .. Len(sent[p]) :
        /\ sent[p][i] <= bucket[p].lastRefill
        /\ (Len(sent[p]) - i + 1) * Minute + bucket[p].tokens
             <= Full + Capacity * (bucket[p].lastRefill - sent[p][i])

LEMMA Adding ==
    ASSUME NEW spent \in Int, NEW before \in Int, NEW after \in Int, NEW x \in Int, NEW y \in Int,
           NEW z \in Int, NEW f \in Int,
           spent + before <= f + y, after <= before + x, x + y = z
    PROVE  spent + after <= f + z
OBVIOUS

LEMMA OneMore ==
    ASSUME NEW a \in Int, NEW b \in Int
    PROVE  (a + 1) * b = a * b + b /\ a * b \in Int
OBVIOUS

\* A refill keeps within the budget.
LEMMA RefillKeepsBudget ==
    ASSUME RouterTypeOK, BudgetKept, NEW p \in Throttled, NEW i \in 1 .. Len(sent[p])
    PROVE  LET r == refill(bucket[p], now)
           IN  /\ sent[p][i] <= r.lastRefill
               /\ (Len(sent[p]) - i + 1) * Minute + r.tokens
                    <= Full + Capacity * (r.lastRefill - sent[p][i])
<1> DEFINE b == bucket[p]
           r == refill(bucket[p], now)
           s == sent[p][i]
           spent == (Len(sent[p]) - i + 1) * Minute
<1>1. b \in Bucket /\ r \in Bucket /\ r.lastRefill >= b.lastRefill
      /\ r.tokens <= b.tokens + Capacity * (r.lastRefill - b.lastRefill)
  BY RefillFacts DEF RouterTypeOK
<1>2. b.lastRefill \in Nat /\ r.lastRefill \in Nat /\ b.tokens \in Nat /\ r.tokens \in Nat
  BY <1>1, ThrottleAssumption DEF Bucket, Full
<1>3. s \in Nat /\ Full \in Nat /\ Len(sent[p]) \in Nat /\ spent \in Int
  BY ThrottleAssumption DEF RouterTypeOK, Full
<1>4. s <= b.lastRefill /\ spent + b.tokens <= Full + Capacity * (b.lastRefill - s)
  BY DEF BudgetKept
<1> HIDE DEF b, r, s, spent
<1>5. \A x, y, z \in Nat : Capacity * (x - y) + Capacity * (y - z) = Capacity * (x - z)
                           /\ Capacity * (x - y) \in Int
  BY ThrottleAssumption
<1>6. spent + r.tokens <= Full + Capacity * (r.lastRefill - s)
  <2> DEFINE x == Capacity * (r.lastRefill - b.lastRefill)
             y == Capacity * (b.lastRefill - s)
             z == Capacity * (r.lastRefill - s)
  <2>1. x + y = z /\ x \in Int /\ y \in Int /\ z \in Int
    BY <1>2, <1>3, <1>5
  <2>2. r.tokens <= b.tokens + x /\ spent + b.tokens <= Full + y
    BY <1>1, <1>4
  <2> HIDE DEF x, y, z
  <2>3. spent + r.tokens <= Full + z
    BY <2>1, <2>2, <1>2, <1>3, Adding
  <2>4. QED BY <2>3 DEF z
<1>7. s <= r.lastRefill
  BY <1>1, <1>2, <1>3, <1>4
<1>8. QED BY <1>6, <1>7 DEF r, s, spent

\* A request that goes out is paid for.
LEMMA RequestIsPaid ==
    ASSUME RouterTypeOK, RateHeld, BudgetKept, NEW t \in Turns, Sends(t)
    PROVE  RateHeld' /\ BudgetKept'
<1>q. PICK q : q = provider(call[t])
  OBVIOUS
<1> DEFINE r == refill(bucket[q], now)
           k == tryTake(bucket[q], now)
           n == Len(sent[q])
<1>1. /\ q \in Throttled /\ canTake(bucket[q], now)
      /\ bucket' = [bucket EXCEPT ![q] = k]
      /\ sent' = [sent EXCEPT ![q] = Append(@, k.lastRefill)]
  BY <1>q DEF Sends
<1>2. /\ r \in Bucket /\ k \in Bucket /\ k.lastRefill = r.lastRefill
      /\ k.tokens = r.tokens - Minute
  BY <1>1, RefillFacts, TakeFacts DEF RouterTypeOK
<1>f. Minute \in Nat /\ Full \in Nat /\ Capacity \in Nat
  BY ThrottleAssumption DEF Full
<1>3. /\ Minute \in Nat /\ Full \in Nat /\ Capacity \in Nat
      /\ r.tokens \in 0 .. Full /\ r.lastRefill \in Nat /\ k.tokens \in Nat
      /\ n \in Nat /\ \A i \in 1 .. n : sent[q][i] \in Nat
  <2>1. r.tokens \in 0 .. Full /\ r.lastRefill \in Nat /\ k.tokens \in 0 .. Full
    BY <1>2 DEF Bucket
  <2>2. sent[q] \in Seq(Nat)
    BY <1>1 DEF RouterTypeOK
  <2> HIDE DEF r, k
  <2>3. QED BY <1>f, <2>1, <2>2
<1>4. /\ Len(sent'[q]) = n + 1 /\ sent'[q][n + 1] = r.lastRefill
      /\ \A i \in 1 .. n : sent'[q][i] = sent[q][i]
      /\ bucket'[q] = k /\ DOMAIN sent'[q] = 1 .. n + 1 /\ DOMAIN sent[q] = 1 .. n
  BY <1>1, <1>2 DEF RouterTypeOK
<1>5. \A p \in Throttled : p # q => sent'[p] = sent[p] /\ bucket'[p] = bucket[p]
  BY <1>1 DEF RouterTypeOK
<1>6. ASSUME NEW i \in 1 .. n
      PROVE  /\ sent[q][i] <= r.lastRefill
             /\ ((n + 1) - i + 1) * Minute + k.tokens <= Full + Capacity * (r.lastRefill - sent[q][i])
  <2>1. /\ sent[q][i] <= r.lastRefill
        /\ (n - i + 1) * Minute + r.tokens <= Full + Capacity * (r.lastRefill - sent[q][i])
    BY <1>1, RefillKeepsBudget
  <2>2. ((n + 1) - i + 1) * Minute = (n - i + 1) * Minute + Minute /\ (n - i + 1) * Minute \in Int
    <3> HIDE DEF n
    <3>1. (n + 1) - i + 1 = (n - i + 1) + 1 /\ n - i + 1 \in Int
      BY <1>3
    <3>2. ((n - i + 1) + 1) * Minute = (n - i + 1) * Minute + Minute /\ (n - i + 1) * Minute \in Int
      BY <1>f, <3>1, OneMore
    <3>3. QED BY <3>1, <3>2
  <2>3. Capacity * (r.lastRefill - sent[q][i]) \in Int
    BY <1>3
  <2> HIDE DEF r, k, n
  <2>4. QED BY <2>1, <2>2, <2>3, <1>2, <1>3
<1>7. Minute + k.tokens <= Full
  BY <1>2, <1>3
<1> HIDE DEF r, k, n
<1>8. BudgetKept'
  <2>1. SUFFICES ASSUME NEW p \in Throttled, NEW i \in 1 .. Len(sent'[p])
                 PROVE  /\ sent'[p][i] <= bucket'[p].lastRefill
                        /\ (Len(sent'[p]) - i + 1) * Minute + bucket'[p].tokens
                             <= Full + Capacity * (bucket'[p].lastRefill - sent'[p][i])
    BY DEF BudgetKept
  <2>2. CASE p # q
    BY <2>2, <1>5 DEF BudgetKept
  <2>3. CASE p = q /\ i = n + 1
    <3>1. Len(sent'[p]) - i + 1 = 1 /\ bucket'[p].lastRefill - sent'[p][i] = 0
      BY <2>3, <1>2, <1>3, <1>4
    <3>2. 1 * Minute = Minute /\ Capacity * 0 = 0 /\ Full + 0 = Full
      BY <1>3
    <3>3. bucket'[p].tokens = k.tokens /\ sent'[p][i] <= bucket'[p].lastRefill
      BY <2>3, <1>2, <1>3, <1>4
    <3>4. QED BY <3>1, <3>2, <3>3, <1>7
  <2>4. CASE p = q /\ i \in 1 .. n
    <3>1. /\ sent'[p][i] = sent[q][i] /\ Len(sent'[p]) = n + 1
          /\ bucket'[p].lastRefill = r.lastRefill /\ bucket'[p].tokens = k.tokens
      BY <2>4, <1>2, <1>4
    <3> DEFINE spent == ((n + 1) - i + 1) * Minute
               gained == Capacity * (r.lastRefill - sent[q][i])
    <3>2. sent[q][i] <= r.lastRefill /\ spent + k.tokens <= Full + gained
      BY <2>4, <1>6
    <3>3. (Len(sent'[p]) - i + 1) * Minute = spent
      <4>1. Len(sent'[p]) - i + 1 = (n + 1) - i + 1
        BY <3>1
      <4>2. QED BY <4>1, Zenon
    <3>4. Capacity * (bucket'[p].lastRefill - sent'[p][i]) = gained
      BY <3>1
    <3> HIDE DEF spent, gained
    <3>5. QED BY <3>1, <3>2, <3>3, <3>4
  <2>5. QED BY <1>3, <1>4, <2>2, <2>3, <2>4
<1>9. RateHeld'
  <2>1. SUFFICES ASSUME NEW p \in Throttled, NEW i \in DOMAIN sent'[p], NEW j \in DOMAIN sent'[p], i <= j
                 PROVE  (j - i + 1) * Minute <= Full + Capacity * (sent'[p][j] - sent'[p][i])
    BY DEF RateHeld
  <2>2. CASE p # q
    BY <2>1, <2>2, <1>5 DEF RateHeld
  <2>3. CASE p = q /\ j \in 1 .. n
    <3>1. i \in 1 .. n
      BY <2>1, <2>3, <1>3, <1>4
    <3>2. QED BY <2>1, <2>3, <3>1, <1>1, <1>4 DEF RateHeld
  <2>4. CASE p = q /\ j = n + 1 /\ i \in 1 .. n
    <3>1. ((n + 1) - i + 1) * Minute + k.tokens <= Full + Capacity * (r.lastRefill - sent[q][i])
      BY <1>6, <2>4
    <3>2. ((n + 1) - i + 1) * Minute \in Int /\ Capacity * (r.lastRefill - sent[q][i]) \in Int
      BY <2>4, <1>3
    <3>3. ((n + 1) - i + 1) * Minute <= Full + Capacity * (r.lastRefill - sent[q][i])
      BY <3>1, <3>2, <1>3
    <3>4. sent'[p][j] = r.lastRefill /\ sent'[p][i] = sent[q][i] /\ j = n + 1
      BY <2>4, <1>4
    <3> DEFINE spent == ((n + 1) - i + 1) * Minute
               gained == Capacity * (r.lastRefill - sent[q][i])
    <3>5. (j - i + 1) * Minute = spent
      <4>1. j - i + 1 = (n + 1) - i + 1
        BY <3>4
      <4>2. QED BY <4>1, Zenon
    <3>6. Capacity * (sent'[p][j] - sent'[p][i]) = gained
      BY <3>4
    <3>7. spent <= Full + gained
      BY <3>3
    <3> HIDE DEF spent, gained
    <3>8. QED BY <3>5, <3>6, <3>7
  <2>5. CASE p = q /\ j = n + 1 /\ i = n + 1
    <3>1. j - i + 1 = 1 /\ sent'[p][j] - sent'[p][i] = 0
      BY <2>5, <1>3, <1>4
    <3>2. 1 * Minute = Minute /\ Capacity * 0 = 0 /\ Full + 0 = Full /\ Minute <= Full
      BY <1>3, <1>7
    <3>3. QED BY <3>1, <3>2
  <2>6. QED BY <1>3, <1>4, <2>2, <2>3, <2>4, <2>5, SMTT(30)
<1>10. QED BY <1>8, <1>9

LEMMA RateStep ==
    RouterTypeOK /\ RateHeld /\ BudgetKept /\ [RouterNext]_routerVars => RateHeld' /\ BudgetKept'
<1> SUFFICES ASSUME RouterTypeOK, RateHeld, BudgetKept, [RouterNext]_routerVars
             PROVE  RateHeld' /\ BudgetKept'
  OBVIOUS
<1>1. ASSUME NEW t \in Turns, RefusedRate(t) PROVE RateHeld' /\ BudgetKept'
  <2>q. PICK q : q = provider(call[t])
    OBVIOUS
  <2> DEFINE r == refill(bucket[q], now)
  <2>1. /\ q \in Throttled /\ ~canTake(bucket[q], now) /\ sent' = sent
        /\ bucket' = [bucket EXCEPT ![q] = tryTake(bucket[q], now)]
    BY <1>1, <2>q DEF RefusedRate
  <2>2. tryTake(bucket[q], now) = r
    BY <2>1 DEF tryTake, canTake
  <2>3. bucket'[q] = r /\ \A p \in Throttled : p # q => bucket'[p] = bucket[p]
    BY <2>1, <2>2 DEF RouterTypeOK
  <2>4. \A i \in 1 .. Len(sent[q]) :
          /\ sent[q][i] <= r.lastRefill
          /\ (Len(sent[q]) - i + 1) * Minute + r.tokens <= Full + Capacity * (r.lastRefill - sent[q][i])
    BY <2>1, RefillKeepsBudget
  <2> HIDE DEF r
  <2>5. BudgetKept'
    <3>1. SUFFICES ASSUME NEW p \in Throttled, NEW i \in 1 .. Len(sent[p])
                   PROVE  /\ sent[p][i] <= bucket'[p].lastRefill
                          /\ (Len(sent[p]) - i + 1) * Minute + bucket'[p].tokens
                               <= Full + Capacity * (bucket'[p].lastRefill - sent[p][i])
      BY <2>1 DEF BudgetKept
    <3>2. CASE p = q
      BY <3>2, <2>3, <2>4, Zenon
    <3>3. CASE p # q
      BY <3>3, <2>3 DEF BudgetKept
    <3>4. QED BY <3>2, <3>3
  <2>6. QED BY <2>1, <2>5 DEF RateHeld
<1>2. ASSUME UNCHANGED <<bucket, sent>> PROVE RateHeld' /\ BudgetKept'
  BY <1>2 DEF RateHeld, BudgetKept
<1>3. ASSUME NEW t \in Turns, RefusedBusy(t) \/ SendsUnthrottled(t) PROVE UNCHANGED <<bucket, sent>>
  BY <1>3 DEF RefusedBusy, SendsUnthrottled
<1>4. ASSUME NEW t \in Turns, Settles(t) \/ Chunk(t) PROVE UNCHANGED <<bucket, sent>>
  BY <1>4 DEF Settles, FetchFails, ResponseArrives, VisionAnswers, StreamEnds, StreamFails, Chunk
<1>5. ASSUME NEW t \in Turns, NEW lane \in Lanes, Asks(t, lane) PROVE UNCHANGED <<bucket, sent>>
  BY <1>5 DEF Asks
<1>6. ASSUME ClockAdvances \/ ClockStepsBack PROVE UNCHANGED <<bucket, sent>>
  BY <1>6 DEF ClockAdvances, ClockStepsBack
<1>7. ASSUME UNCHANGED routerVars PROVE UNCHANGED <<bucket, sent>>
  BY <1>7 DEF routerVars
<1>8. QED
  BY <1>1, <1>2, <1>3, <1>4, <1>5, <1>6, <1>7, RequestIsPaid DEF RouterNext, Attempts

\* No schedule of callers and no correction of the clock makes a provider send faster than
\* its bucket allows.
THEOREM RateIsHeld == RouterSpec => []RateHeld
<1>1. RouterInit => RateHeld /\ BudgetKept
  BY DEF RouterInit, RateHeld, BudgetKept
<1>2. QED BY <1>1, RateStep, RouterTypeCorrect, PTL DEF RouterSpec
----------------------------------------------------------------------------
(* What the caller is promised.                                            *)

\* Nothing is heard of an attempt before its response has arrived.
Silent(t) == call[t].pc \in {"idle", "choosing", "fetching"} => ~call[t].yielded
SilentAtFirst == \A t \in Turns : Silent(t)

LEMMA SilentStep == RouterTypeOK /\ SilentAtFirst /\ [RouterNext]_routerVars => SilentAtFirst'
<1> SUFFICES ASSUME RouterTypeOK, SilentAtFirst, [RouterNext]_routerVars, NEW u \in Turns
             PROVE  Silent(u)'
  BY DEF SilentAtFirst, Silent
<1> USE DEF SilentAtFirst, Silent
<1>a. \A t \in Turns : call[t] \in Call
  BY DEF RouterTypeOK
<1>b. \A t \in Turns : /\ fallThrough(call[t]).yielded = call[t].yielded
                       /\ afterFailure(call[t]).pc \in {"idle", "choosing", "fetching"}
                            => ~afterFailure(call[t]).yielded
                       /\ succeed(call[t]).pc = "ok"
  BY <1>a DEF fallThrough, afterFailure, succeed, Call
<1>c. ASSUME NEW t \in Turns, NEW c, call' = [call EXCEPT ![t] = c],
             c.pc \in {"idle", "choosing", "fetching"} => ~c.yielded
      PROVE  Silent(u)'
  <2>1. call'[u] = call[u] \/ call'[u] = c
    BY <1>c DEF RouterTypeOK
  <2>2. QED BY <1>c, <2>1
<1>d. \A t \in Turns : /\ [call[t] EXCEPT !.pc = "streaming"].pc = "streaming"
                       /\ [call[t] EXCEPT !.pc = "fetching"].yielded = call[t].yielded
                       /\ [call[t] EXCEPT !.yielded = TRUE].pc = call[t].pc
  BY <1>a DEF Call
<1>1. ASSUME NEW t \in Turns, Attempts(t) PROVE Silent(u)'
  <2>1. /\ call[t].pc = "choosing"
        /\ \/ call' = [call EXCEPT ![t] = fallThrough(call[t])]
           \/ call' = [call EXCEPT ![t] = [call[t] EXCEPT !.pc = "fetching"]]
           \/ call' = [call EXCEPT ![t] = [call[t] EXCEPT !.pc = "streaming"]]
    BY <1>1 DEF Attempts, RefusedBusy, RefusedRate, Sends, SendsUnthrottled
  <2>2. PICK c : /\ call' = [call EXCEPT ![t] = c]
                 /\ \/ c = fallThrough(call[t])
                    \/ c = [call[t] EXCEPT !.pc = "fetching"]
                    \/ c = [call[t] EXCEPT !.pc = "streaming"]
    BY <2>1
  <2>3. c.pc \in {"idle", "choosing", "fetching"} => ~c.yielded
    BY <2>1, <2>2, <1>b, <1>d
  <2>4. QED BY <2>2, <2>3, <1>c
<1>2. ASSUME NEW t \in Turns, Settles(t) \/ Chunk(t) PROVE Silent(u)'
  <2>1. \/ call[t].pc = "fetching" /\ call' = [call EXCEPT ![t] = fallThrough(call[t])]
        \/ call' = [call EXCEPT ![t] = afterFailure(call[t])]
        \/ call' = [call EXCEPT ![t] = succeed(call[t])]
        \/ call' = [call EXCEPT ![t] = [call[t] EXCEPT !.pc = "streaming"]]
        \/ call[t].pc = "streaming" /\ call' = [call EXCEPT ![t] = [call[t] EXCEPT !.yielded = TRUE]]
    BY <1>2 DEF Settles, FetchFails, ResponseArrives, VisionAnswers, StreamEnds, StreamFails, Chunk
  <2>2. PICK c : /\ call' = [call EXCEPT ![t] = c]
                 /\ \/ call[t].pc = "fetching" /\ c = fallThrough(call[t])
                    \/ c = afterFailure(call[t])
                    \/ c = succeed(call[t])
                    \/ c = [call[t] EXCEPT !.pc = "streaming"]
                    \/ call[t].pc = "streaming" /\ c = [call[t] EXCEPT !.yielded = TRUE]
    BY <2>1
  <2>3. c.pc \in {"idle", "choosing", "fetching"} => ~c.yielded
    BY <2>2, <1>b, <1>d, ZenonT(60)
  <2>4. QED BY <2>2, <2>3, <1>c
<1>3. ASSUME NEW t \in Turns, NEW lane \in Lanes, Asks(t, lane) PROVE Silent(u)'
  BY <1>3, <1>c DEF Asks, routeChat, NoCall
<1>4. CASE ClockAdvances \/ ClockStepsBack \/ UNCHANGED routerVars
  <2>1. call' = call
    BY <1>4 DEF ClockAdvances, ClockStepsBack, routerVars
  <2>2. QED BY <2>1
<1>5. QED BY <1>1, <1>2, <1>3, <1>4 DEF RouterNext

\* Where a call is on its chain, in terms of the sets FirstAnswer speaks of.
LEMMA WalkFacts ==
    ASSUME NEW c, OnChain(c), c.pc # "idle"
    PROVE  /\ askedOf(c) \subseteq Providers
           /\ provider(c) \in askedOf(c) \ triedOf(c)
           /\ c.depth = Len(chainFor(c.lane)) => askedOf(c) \ triedOf(c) = {provider(c)}
           /\ c.depth < Len(chainFor(c.lane)) =>
                /\ askedOf(c) \ triedOf(c) # {provider(c)}
                /\ {chainFor(c.lane)[n] : n \in 1 .. c.depth} = triedOf(c) \cup {provider(c)}
<1> DEFINE q == chainFor(c.lane)
<1>1. c.lane \in Lanes /\ c.depth \in Nat \ {0} /\ c.depth <= Len(q)
  BY DEF OnChain, Call
<1>2. q \in Seq(Providers) /\ Len(q) \in Nat /\ \A i, j \in 1 .. Len(q) : q[i] = q[j] => i = j
  BY <1>1, ChainFacts
<1>3. /\ askedOf(c) = {q[n] : n \in 1 .. Len(q)} /\ triedOf(c) = {q[n] : n \in 1 .. c.depth - 1}
      /\ provider(c) = q[c.depth]
  BY <1>2 DEF askedOf, triedOf, provider, range
<1> HIDE DEF q
<1>4. askedOf(c) \subseteq Providers /\ provider(c) \in askedOf(c)
  BY <1>1, <1>2, <1>3
<1>5. provider(c) \notin triedOf(c)
  BY <1>1, <1>2, <1>3
<1>6. ASSUME c.depth = Len(q) PROVE askedOf(c) \ triedOf(c) = {provider(c)}
  BY <1>1, <1>2, <1>3, <1>6, <1>5
<1>7. ASSUME c.depth < Len(q)
      PROVE  /\ askedOf(c) \ triedOf(c) # {provider(c)}
             /\ {q[n] : n \in 1 .. c.depth} = triedOf(c) \cup {provider(c)}
  <2>1. q[c.depth + 1] \in askedOf(c) /\ q[c.depth + 1] \notin triedOf(c) /\ q[c.depth + 1] # provider(c)
    <3>1. c.depth + 1 \in 1 .. Len(q)
      BY <1>1, <1>2, <1>7
    <3>2. \A n \in 1 .. c.depth : q[n] # q[c.depth + 1]
      <4>1. \A n \in 1 .. c.depth : n \in 1 .. Len(q) /\ n # c.depth + 1
        BY <1>1, <1>2, <1>7
      <4>2. QED BY <1>2, <3>1, <4>1
    <3>3. c.depth \in 1 .. c.depth /\ \A n \in 1 .. c.depth - 1 : n \in 1 .. c.depth
      BY <1>1
    <3>4. QED BY <1>3, <3>1, <3>2, <3>3
  <2>2. \A n \in 1 .. c.depth : n = c.depth \/ n \in 1 .. c.depth - 1
    BY <1>1
  <2>3. c.depth \in 1 .. c.depth /\ \A n \in 1 .. c.depth - 1 : n \in 1 .. c.depth
    BY <1>1
  <2>4. QED BY <2>1, <2>2, <2>3, <1>3
<1>8. QED BY <1>4, <1>5, <1>6, <1>7 DEF q

\* The mapping is pointwise: a step that changes one turn's call changes its view of it.
LEMMA ViewStep ==
    ASSUME RouterTypeOK, NEW t \in Turns, NEW c, call' = [call EXCEPT ![t] = c]
    PROVE  /\ [u \in Turns |-> statusOf(call'[u])] = [[u \in Turns |-> statusOf(call[u])] EXCEPT ![t] = statusOf(c)]
           /\ [u \in Turns |-> askedOf(call'[u])] = [[u \in Turns |-> askedOf(call[u])] EXCEPT ![t] = askedOf(c)]
           /\ [u \in Turns |-> triedOf(call'[u])] = [[u \in Turns |-> triedOf(call[u])] EXCEPT ![t] = triedOf(c)]
           /\ [u \in Turns |-> voiceOf(call'[u])] = [[u \in Turns |-> voiceOf(call[u])] EXCEPT ![t] = voiceOf(c)]
<1>1. call'[t] = c /\ \A u \in Turns \ {t} : call'[u] = call[u]
  BY DEF RouterTypeOK
<1>2. \A u \in Turns : /\ statusOf(call'[u]) = IF u = t THEN statusOf(c) ELSE statusOf(call[u])
                       /\ askedOf(call'[u]) = IF u = t THEN askedOf(c) ELSE askedOf(call[u])
                       /\ triedOf(call'[u]) = IF u = t THEN triedOf(c) ELSE triedOf(call[u])
                       /\ voiceOf(call'[u]) = IF u = t THEN voiceOf(c) ELSE voiceOf(call[u])
  BY <1>1
<1>3. QED BY <1>2

statuses == [t \in Turns |-> statusOf(call[t])]
askedSets == [t \in Turns |-> askedOf(call[t])]
triedSets == [t \in Turns |-> triedOf(call[t])]
voices == [t \in Turns |-> voiceOf(call[t])]

\* The contract's actions, on the view.
LEMMA ContractActions ==
    ASSUME NEW t, NEW p
    PROVE  /\ Caller!Opens(t, p) <=> /\ statuses[t] # "open"
                                     /\ statuses' = [statuses EXCEPT ![t] = "open"]
                                     /\ askedSets' = [askedSets EXCEPT ![t] = p]
                                     /\ triedSets' = [triedSets EXCEPT ![t] = {}]
                                     /\ voices' = [voices EXCEPT ![t] = "none"]
           /\ Caller!GivesWay(t, p) <=> /\ statuses[t] = "open" /\ voices[t] = "none"
                                        /\ p \in askedSets[t] \ triedSets[t]
                                        /\ askedSets[t] \ triedSets[t] # {p}
                                        /\ triedSets' = [triedSets EXCEPT ![t] = triedSets[t] \cup {p}]
                                        /\ statuses' = statuses /\ askedSets' = askedSets /\ voices' = voices
           /\ Caller!IsHeard(t, p) <=> /\ statuses[t] = "open" /\ voices[t] = "none"
                                       /\ p \in askedSets[t] \ triedSets[t]
                                       /\ voices' = [voices EXCEPT ![t] = p]
                                       /\ statuses' = statuses /\ askedSets' = askedSets /\ triedSets' = triedSets
           /\ Caller!Answers(t, p) <=> /\ statuses[t] = "open" /\ voices[t] \in {"none", p}
                                       /\ p \in askedSets[t] \ triedSets[t]
                                       /\ statuses' = [statuses EXCEPT ![t] = "answered"]
                                       /\ voices' = [voices EXCEPT ![t] = p]
                                       /\ askedSets' = askedSets /\ triedSets' = triedSets
           /\ Caller!Fails(t, p) <=> /\ statuses[t] = "open"
                                     /\ voices[t] = p \/ askedSets[t] \ triedSets[t] = {p}
                                     /\ statuses' = [statuses EXCEPT ![t] = "failed"]
                                     /\ askedSets' = askedSets /\ triedSets' = triedSets /\ voices' = voices
<1>1. Caller!Silence = "none" /\ Caller!untried(t) = askedSets[t] \ triedSets[t]
  BY DEF Caller!Silence, Caller!untried, askedSets, triedSets
<1>2. QED
  BY <1>1, Zenon DEF Caller!Opens, Caller!GivesWay, Caller!IsHeard, Caller!Answers, Caller!Fails,
     statuses, askedSets, triedSets, voices

LEMMA ContractStep == RouterTypeOK /\ SilentAtFirst /\ [RouterNext]_routerVars => [Caller!Next]_(Caller!answerVars)
<1> SUFFICES ASSUME RouterTypeOK, SilentAtFirst, [RouterNext]_routerVars
             PROVE  [Caller!Next]_(Caller!answerVars)
  OBVIOUS
<1> DEFINE View == <<statuses, askedSets, triedSets, voices>>
<1>v. View = Caller!answerVars
  BY DEF statuses, askedSets, triedSets, voices, Caller!answerVars
<1>a. \A t \in Turns : OnChain(call[t]) /\ call[t] \in Call /\ Silent(t)
  BY DEF RouterTypeOK, OnChain, SilentAtFirst
<1>c. \A t \in Turns : /\ statuses[t] = statusOf(call[t]) /\ askedSets[t] = askedOf(call[t])
                       /\ triedSets[t] = triedOf(call[t]) /\ voices[t] = voiceOf(call[t])
  BY DEF statuses, askedSets, triedSets, voices
<1>d. \A t \in Turns : /\ [statuses EXCEPT ![t] = statuses[t]] = statuses
                       /\ [askedSets EXCEPT ![t] = askedSets[t]] = askedSets
                       /\ [triedSets EXCEPT ![t] = triedSets[t]] = triedSets
                       /\ [voices EXCEPT ![t] = voices[t]] = voices
  BY DEF statuses, askedSets, triedSets, voices
<1>b. ASSUME NEW t \in Turns, NEW c, call' = [call EXCEPT ![t] = c]
      PROVE  /\ statuses' = [statuses EXCEPT ![t] = statusOf(c)]
             /\ askedSets' = [askedSets EXCEPT ![t] = askedOf(c)]
             /\ triedSets' = [triedSets EXCEPT ![t] = triedOf(c)]
             /\ voices' = [voices EXCEPT ![t] = voiceOf(c)]
             /\ statusOf(c) = statusOf(call[t]) => statuses' = statuses
             /\ askedOf(c) = askedOf(call[t]) => askedSets' = askedSets
             /\ triedOf(c) = triedOf(call[t]) => triedSets' = triedSets
             /\ voiceOf(c) = voiceOf(call[t]) => voices' = voices
  <2>1. /\ statuses' = [statuses EXCEPT ![t] = statusOf(c)]
        /\ askedSets' = [askedSets EXCEPT ![t] = askedOf(c)]
        /\ triedSets' = [triedSets EXCEPT ![t] = triedOf(c)]
        /\ voices' = [voices EXCEPT ![t] = voiceOf(c)]
    BY <1>b, ViewStep DEF statuses, askedSets, triedSets, voices
  <2>2. QED BY <2>1, <1>b, <1>c, <1>d, Zenon
\* A step that leaves a call looking the same is no step of the contract.
<1>s. ASSUME NEW t \in Turns, NEW c, call' = [call EXCEPT ![t] = c],
             statusOf(c) = statusOf(call[t]), askedOf(c) = askedOf(call[t]),
             triedOf(c) = triedOf(call[t]), voiceOf(c) = voiceOf(call[t])
      PROVE  UNCHANGED View
  BY <1>s, <1>b
\* A failure before anything was heard.
<1>f. ASSUME NEW t \in Turns, call[t].pc \in {"choosing", "fetching", "streaming"}, ~call[t].yielded,
             call' = [call EXCEPT ![t] = fallThrough(call[t])]
      PROVE  Caller!Next
  <2>c. PICK c : c = call[t]
    OBVIOUS
  <2>d. PICK d : d = fallThrough(c)
    OBVIOUS
  <2>a. OnChain(c) /\ c \in Call /\ ~c.yielded /\ c.pc \in {"choosing", "fetching", "streaming"}
    BY <1>f, <1>a, <2>c
  <2>b. call' = [call EXCEPT ![t] = d]
    BY <1>f, <2>c, <2>d
  <2>p. PICK p \in Providers : p = provider(c)
    BY <2>a, CallFacts
  <2>1. statusOf(c) = "open" /\ voiceOf(c) = "none" /\ p \in askedOf(c) \ triedOf(c)
    BY <2>a, <2>p, WalkFacts DEF statusOf, voiceOf
  <2>s. /\ statuses[t] = statusOf(c) /\ askedSets[t] = askedOf(c)
        /\ triedSets[t] = triedOf(c) /\ voices[t] = voiceOf(c)
    BY <1>c, <2>c
  <2>2. CASE c.depth < Len(chainFor(c.lane))
    <3>1. d = [c EXCEPT !.pc = "choosing", !.depth = @ + 1]
      BY <2>2, <2>d DEF fallThrough
    <3>2. d.pc = "choosing" /\ d.depth - 1 = c.depth /\ d.lane = c.lane /\ d.yielded = c.yielded
      BY <3>1, <2>a DEF Call
    <3>3. /\ statusOf(d) = statusOf(c) /\ askedOf(d) = askedOf(c)
          /\ voiceOf(d) = voiceOf(c) /\ triedOf(d) = triedOf(c) \cup {p}
      BY <3>2, <2>2, <2>p, <2>a, WalkFacts DEF statusOf, askedOf, voiceOf, triedOf
    <3>4. askedOf(c) \ triedOf(c) # {p}
      BY <2>2, <2>p, <2>a, WalkFacts
    <3>5. /\ statuses' = statuses /\ askedSets' = askedSets /\ voices' = voices
          /\ triedSets' = [triedSets EXCEPT ![t] = triedOf(d)]
      BY <1>b, <2>b, <2>c, <3>3
    <3>6. triedSets' = [triedSets EXCEPT ![t] = triedSets[t] \cup {p}]
      BY <3>5, <3>3, <2>s, Zenon
    <3>7. Caller!GivesWay(t, p)
      BY <2>s, <2>1, <3>4, <3>5, <3>6, ContractActions, Zenon
    <3>8. QED BY <3>7 DEF Caller!Next
  <2>3. CASE ~(c.depth < Len(chainFor(c.lane)))
    <3>1. d = [c EXCEPT !.pc = "failed"]
      BY <2>3, <2>d DEF fallThrough
    <3>2. d.pc = "failed" /\ d.depth = c.depth /\ d.lane = c.lane /\ d.yielded = c.yielded
      BY <3>1, <2>a DEF Call
    <3>3. /\ statusOf(d) = "failed" /\ askedOf(d) = askedOf(c)
          /\ triedOf(d) = triedOf(c) /\ voiceOf(d) = voiceOf(c)
      BY <3>2, <2>a DEF statusOf, askedOf, triedOf, voiceOf, provider
    <3>4. askedOf(c) \ triedOf(c) = {p}
      <4>1. c.lane \in Lanes /\ c.depth \in Nat /\ c.depth <= Len(chainFor(c.lane))
        BY <2>a DEF OnChain, Call
      <4>2. c.depth = Len(chainFor(c.lane))
        BY <4>1, <2>3, ChainFacts
      <4>3. QED BY <4>2, <2>p, <2>a, WalkFacts
    <3>5. /\ askedSets' = askedSets /\ triedSets' = triedSets /\ voices' = voices
          /\ statuses' = [statuses EXCEPT ![t] = statusOf(d)]
      BY <1>b, <2>b, <2>c, <3>3
    <3>6. statuses' = [statuses EXCEPT ![t] = "failed"]
      BY <3>5, <3>3, Zenon
    <3>7. Caller!Fails(t, p)
      BY <2>s, <2>1, <3>4, <3>5, <3>6, ContractActions, Zenon
    <3>8. QED BY <3>7 DEF Caller!Next
  <2>4. QED BY <2>2, <2>3
<1>1. ASSUME NEW t \in Turns, RefusedBusy(t) \/ RefusedRate(t) \/ FetchFails(t) PROVE Caller!Next
  <2>1. /\ call[t].pc \in {"choosing", "fetching"}
        /\ call' = [call EXCEPT ![t] = fallThrough(call[t])]
    BY <1>1 DEF RefusedBusy, RefusedRate, FetchFails
  <2>2. QED BY <2>1, <1>a, <1>f DEF Silent
<1>2. ASSUME NEW t \in Turns, Sends(t) \/ SendsUnthrottled(t) \/ ResponseArrives(t)
      PROVE  UNCHANGED View
  <2>1. PICK x \in {"fetching", "streaming"} :
           /\ call[t].pc \in {"choosing", "fetching"}
           /\ call' = [call EXCEPT ![t] = [call[t] EXCEPT !.pc = x]]
    BY <1>2 DEF Sends, SendsUnthrottled, ResponseArrives
  <2> DEFINE d == [call[t] EXCEPT !.pc = x]
  <2>2. d.pc = x /\ d.depth = call[t].depth /\ d.lane = call[t].lane /\ d.yielded = call[t].yielded
    BY <1>a DEF Call
  <2>3. /\ statusOf(d) = statusOf(call[t]) /\ askedOf(d) = askedOf(call[t])
        /\ triedOf(d) = triedOf(call[t]) /\ voiceOf(d) = voiceOf(call[t])
    BY <2>1, <2>2 DEF statusOf, askedOf, triedOf, voiceOf, provider
  <2>4. QED BY <2>1, <2>3, <1>s
<1>3. ASSUME NEW t \in Turns, VisionAnswers(t) \/ StreamEnds(t) PROVE Caller!Next
  <2> DEFINE c == call[t]
             d == succeed(c)
  <2>p. PICK p \in Providers : p = provider(c)
    BY <1>a, CallFacts
  <2>1. call[t].pc \in {"fetching", "streaming"} /\ call' = [call EXCEPT ![t] = d]
    BY <1>3 DEF VisionAnswers, StreamEnds
  <2>2. d.pc = "ok" /\ d.depth = c.depth /\ d.lane = c.lane
    BY <1>a DEF succeed, Call
  <2>3. /\ statusOf(c) = "open" /\ voiceOf(c) \in {"none", p} /\ p \in askedOf(c) \ triedOf(c)
        /\ statusOf(d) = "answered" /\ voiceOf(d) = p
        /\ askedOf(d) = askedOf(c) /\ triedOf(d) = triedOf(c)
    BY <2>1, <2>2, <2>p, <1>a, WalkFacts DEF statusOf, voiceOf, askedOf, triedOf, provider
  <2>4. /\ statuses' = [statuses EXCEPT ![t] = "answered"] /\ voices' = [voices EXCEPT ![t] = p]
        /\ askedSets' = askedSets /\ triedSets' = triedSets
    BY <2>1, <2>3, <1>b, ZenonT(60)
  <2>5. Caller!Answers(t, p)
    BY <2>3, <2>4, <1>c, ContractActions
  <2>6. QED BY <2>5 DEF Caller!Next
<1>4. ASSUME NEW t \in Turns, Chunk(t) PROVE Caller!Next \/ UNCHANGED View
  <2> DEFINE c == call[t]
             d == [c EXCEPT !.yielded = TRUE]
  <2>p. PICK p \in Providers : p = provider(c)
    BY <1>a, CallFacts
  <2>1. c.pc = "streaming" /\ call' = [call EXCEPT ![t] = d]
    BY <1>4 DEF Chunk
  <2>2. d.pc = c.pc /\ d.depth = c.depth /\ d.lane = c.lane /\ d.yielded
    BY <1>a DEF Call
  <2>3. /\ statusOf(c) = "open" /\ p \in askedOf(c) \ triedOf(c)
        /\ statusOf(d) = statusOf(c) /\ voiceOf(d) = p
        /\ askedOf(d) = askedOf(c) /\ triedOf(d) = triedOf(c)
    BY <2>1, <2>2, <2>p, <1>a, WalkFacts DEF statusOf, voiceOf, askedOf, triedOf, provider
  <2>4. CASE c.yielded
    BY <2>1, <2>3, <2>4, <2>p, <1>s DEF voiceOf
  <2>5. CASE ~c.yielded
    <3>1. voiceOf(c) = "none"
      BY <2>1, <2>5 DEF voiceOf
    <3>2. /\ statuses' = statuses /\ askedSets' = askedSets /\ triedSets' = triedSets
          /\ voices' = [voices EXCEPT ![t] = p]
      BY <2>1, <2>3, <1>b
    <3>3. Caller!IsHeard(t, p)
      BY <2>3, <3>1, <3>2, <1>c, ContractActions
    <3>4. QED BY <3>3 DEF Caller!Next
  <2>6. QED BY <2>4, <2>5
<1>5. ASSUME NEW t \in Turns, StreamFails(t) PROVE Caller!Next
  <2>c. PICK c : c = call[t]
    OBVIOUS
  <2>d. PICK d : d = afterFailure(c)
    OBVIOUS
  <2>p. PICK p \in Providers : p = provider(c)
    BY <1>a, <2>c, CallFacts
  <2>1. c.pc = "streaming" /\ call' = [call EXCEPT ![t] = d]
    BY <1>5, <2>c, <2>d DEF StreamFails
  <2>2. CASE ~c.yielded
    <3>1. d = fallThrough(c)
      BY <2>d, <2>2 DEF afterFailure
    <3>2. QED BY <2>c, <2>1, <2>2, <3>1, <1>f
  <2>3. CASE c.yielded
    <3>1. d.pc = "failed" /\ d.depth = c.depth /\ d.lane = c.lane /\ d.yielded
      BY <2>3, <2>c, <2>d, <1>a DEF afterFailure, Call
    <3>2. /\ statusOf(c) = "open" /\ voiceOf(c) = p /\ statusOf(d) = "failed" /\ voiceOf(d) = voiceOf(c)
          /\ askedOf(d) = askedOf(c) /\ triedOf(d) = triedOf(c)
      BY <2>1, <2>3, <2>p, <3>1 DEF statusOf, voiceOf, askedOf, triedOf, provider
    <3>3. /\ statuses' = [statuses EXCEPT ![t] = statusOf(d)]
          /\ askedSets' = askedSets /\ triedSets' = triedSets /\ voices' = voices
      BY <2>c, <2>1, <3>2, <1>b
    <3>4. statuses' = [statuses EXCEPT ![t] = "failed"]
      BY <3>2, <3>3, Zenon
    <3>5. statuses[t] = "open" /\ voices[t] = p
      BY <2>c, <3>2, <1>c
    <3>6. Caller!Fails(t, p)
      BY <3>3, <3>4, <3>5, ContractActions, Zenon
    <3>7. QED BY <3>6 DEF Caller!Next
  <2>4. QED BY <2>2, <2>3
<1>6. ASSUME NEW t \in Turns, NEW lane \in Lanes, Asks(t, lane) PROVE Caller!Next
  <2>d. PICK d : d = routeChat(lane)
    OBVIOUS
  <2>S. PICK S : S = askedOf(d)
    OBVIOUS
  <2>1. call[t].pc \in {"idle", "ok", "failed"} /\ call' = [call EXCEPT ![t] = d]
    BY <1>6, <2>d DEF Asks
  <2>2. d.pc = "choosing" /\ d.depth = 1 /\ ~d.yielded /\ OnChain(d)
    BY <2>d, NewCallFacts DEF routeChat, NoCall
  <2>3. statusOf(d) = "open" /\ triedOf(d) = {} /\ voiceOf(d) = "none" /\ S \in SUBSET Providers
    BY <2>2, <2>S, WalkFacts DEF statusOf, triedOf, voiceOf
  <2>4. statuses[t] # "open"
    BY <2>1, <1>c DEF statusOf
  <2>5. /\ statuses' = [statuses EXCEPT ![t] = statusOf(d)] /\ askedSets' = [askedSets EXCEPT ![t] = askedOf(d)]
        /\ triedSets' = [triedSets EXCEPT ![t] = triedOf(d)] /\ voices' = [voices EXCEPT ![t] = voiceOf(d)]
    BY <2>1, <1>b
  <2>6. /\ statuses' = [statuses EXCEPT ![t] = "open"] /\ askedSets' = [askedSets EXCEPT ![t] = S]
        /\ triedSets' = [triedSets EXCEPT ![t] = {}] /\ voices' = [voices EXCEPT ![t] = "none"]
    BY <2>3, <2>5, <2>S, Zenon
  <2>7. Caller!Opens(t, S)
    BY <2>4, <2>6, ContractActions, Zenon
  <2>8. QED BY <2>3, <2>7 DEF Caller!Next
<1>7. ASSUME ClockAdvances \/ ClockStepsBack \/ UNCHANGED routerVars PROVE UNCHANGED View
  <2>1. call' = call
    BY <1>7 DEF ClockAdvances, ClockStepsBack, routerVars
  <2>2. QED BY <2>1 DEF statuses, askedSets, triedSets, voices
<1>8. Caller!Next \/ UNCHANGED View
  <2> HIDE DEF View
  <2>1. QED
    BY <1>1, <1>2, <1>3, <1>4, <1>5, <1>6, <1>7 DEF RouterNext, Attempts, Settles
<1>9. UNCHANGED View => UNCHANGED Caller!answerVars
  BY DEF statuses, askedSets, triedSets, voices, Caller!answerVars
<1>10. QED
  BY <1>8, <1>9, Zenon

\* The router keeps its promise to the caller: each provider of the lane tried once, one
\* voice, failure only at the end of the chain or in the middle of an answer.
THEOREM RouterIsFirstAnswer == RouterSpec => CallIsFirstAnswer
<1>1. RouterInit => Caller!Init
  BY DEF RouterInit, Caller!Init, Caller!Silence, NoCall, statusOf, askedOf, triedOf, voiceOf
<1>2. RouterInit => SilentAtFirst
  BY DEF RouterInit, SilentAtFirst, Silent, NoCall
<1>3. QED
  BY <1>1, <1>2, SilentStep, ContractStep, RouterTypeCorrect, PTL DEF RouterSpec, CallIsFirstAnswer, Caller!Spec
-----------------------------------------------------------------------------
(***************************************************************************)
(* The turns, as callers of the router.                                    *)
(***************************************************************************)
\* Whatever a turn does is, for the router, one of its callers' steps, or nothing.
LEMMA TurnStepsAreRouterSteps == ReplyNext => [RouterNext]_routerVars
<1> SUFFICES ASSUME ReplyNext PROVE RouterNext \/ UNCHANGED routerVars
  OBVIOUS
<1>1. CASE ClockAdvances \/ ClockStepsBack
  BY <1>1 DEF RouterNext
<1>2. ASSUME NEW t \in Turns, Dispatches(t) PROVE RouterNext \/ UNCHANGED routerVars
  <2>1. CASE HearsPleasantry(t) \/ Classified(t) \/ ClassificationInvalid(t) \/ MatchThrows(t)
              \/ Disambiguated(t) \/ NoneChosen(t)
    BY <2>1 DEF HearsPleasantry, Classified, ClassificationInvalid, MatchThrows, Disambiguated, NoneChosen
  <2>2. CASE HearsRequest(t)
    BY <2>2 DEF HearsRequest, RouterNext, Lanes
  <2>3. CASE Matched(t)
    <3>1. UNCHANGED routerVars \/ Asks(t, "converse")
      BY <2>3 DEF Matched
    <3>2. QED BY <3>1 DEF RouterNext, Lanes
  <2>4. QED BY <1>2, <2>1, <2>2, <2>3 DEF Dispatches
<1>3. ASSUME NEW t \in Turns, Converses(t) PROVE RouterNext \/ UNCHANGED routerVars
  <2>1. CASE Recalled(t)
    BY <2>1 DEF Recalled, RouterNext, Lanes
  <2>2. CASE RecallThrows(t) \/ ReplyComplete(t) \/ ReplyBreaks(t)
    BY <2>2 DEF RecallThrows, ReplyComplete, ReplyBreaks
  <2>3. CASE ReplyStreams(t)
    BY <2>3 DEF ReplyStreams, RouterNext
  <2>4. QED BY <1>3, <2>1, <2>2, <2>3 DEF Converses
<1>4. ASSUME NEW t \in Turns, CallThrows(t) \/ SkillResumes(t) \/ SkillReturns(t)
      PROVE  UNCHANGED routerVars
  BY <1>4 DEF CallThrows, SkillResumes, SkillReturns
<1>5. ASSUME NEW t \in Turns, SkillAsks(t) \/ TextStreams(t) \/ RouterSteps(t) PROVE RouterNext
  BY <1>5 DEF SkillAsks, TextStreams, RouterSteps, RouterNext
<1>6. QED BY <1>1, <1>2, <1>3, <1>4, <1>5 DEF ReplyNext

\* The turns are callers of the router: everything that is so of the router whoever calls it
\* is so of it here (ctx.router.complete, classifyLane, disambiguate and streamReply are its
\* only users in core).
THEOREM TurnsUseTheRouter == ReplySpec => RouterSpec
<1>1. ReplyInit => RouterInit
  BY DEF ReplyInit
<1>2. UNCHANGED replyVars => UNCHANGED routerVars
  BY DEF replyVars
<1>3. [ReplyNext]_replyVars => [RouterNext]_routerVars
  BY <1>2, TurnStepsAreRouterSteps
<1>4. QED BY <1>1, <1>3, PTL DEF ReplySpec, RouterSpec

\* In the whole of core no slot of a provider is lost or given back twice, whatever becomes
\* of the turns that use them.
COROLLARY SlotsNeverLeakInTurns == ReplySpec => []SlotsMatchCalls
<1>1. QED BY TurnsUseTheRouter, SlotsNeverLeak, PTL

\* Nor is a provider's rate exceeded by all the turns together.
COROLLARY RateIsHeldInTurns == ReplySpec => []RateHeld
<1>1. QED BY TurnsUseTheRouter, RateIsHeld, PTL

\* And each routed call of a turn is a first answer.
COROLLARY TurnsGetFirstAnswers == ReplySpec => CallIsFirstAnswer
<1>1. QED BY TurnsUseTheRouter, RouterIsFirstAnswer
----------------------------------------------------------------------------
(* What is heard and what is recorded.                                     *)

\* The fixed lines are texts.
LEMMA LinesAreTexts ==
    /\ <<>> \in Seq(Fragments)
    /\ Unsure \in Seq(Fragments) /\ LostTheRest \in Seq(Fragments) /\ WentWrong \in Seq(Fragments)
    /\ <<"reflex">> \in Seq(Fragments) /\ <<"skill">> \in Seq(Fragments)
BY DEF Unsure, LostTheRest, WentWrong, Fragments

\* A turn that ends keeps the invariant if the rest that it speaks makes of what was spoken
\* the reply that it records.
LEMMA EndKeepsInv ==
    ASSUME ReplyIInv, NEW t \in Turns, NEW rest \in Seq(Fragments), NEW reply \in Seq(Fragments),
           ends(t, rest, reply), spoken[t] \o rest = reply
    PROVE  ReplyIInv'
<1>1. TextTypeOK /\ FlowTypeOK
  BY DEF ReplyIInv
<1>2. TextTypeOK'
  <2>1. spoken[t] \o rest \in Seq(Fragments) /\ <<>> \in Seq(Fragments)
    BY LinesAreTexts
  <2>2. QED BY <1>1, <2>1 DEF TextTypeOK, ends
<1>3. FlowTypeOK'
  BY <1>1, ReplyAssumption DEF FlowTypeOK, Stages, ends, AllLanes
<1>4. /\ stage'[t] = "done" /\ spoken'[t] = reply /\ recorded'[t] = reply
      /\ \A u \in Turns \ {t} : /\ stage'[u] = stage[u] /\ full'[u] = full[u]
                                /\ buffer'[u] = buffer[u] /\ spoken'[u] = spoken[u]
                                /\ recorded'[u] = recorded[u]
  BY <1>1 DEF FlowTypeOK, TextTypeOK, ends
<1>5. QuietAtFirst'
  BY <1>4 DEF ReplyIInv, QuietAtFirst
<1>6. HeldIsTheRest'
  BY <1>4 DEF ReplyIInv, HeldIsTheRest
<1>7. SpokenIsRecorded'
  BY <1>4 DEF ReplyIInv, SpokenIsRecorded
<1>8. QED BY <1>2, <1>3, <1>5, <1>6, <1>7 DEF ReplyIInv

\* A turn that has not begun to reply may go on to any stage but the last.
LEMMA StageKeepsInv ==
    ASSUME ReplyIInv, NEW t \in Turns, NEW to \in Stages \ {"done"}, goes(t, to),
           stage[t] \notin {"replying", "done"},
           laneOf' \in [Turns -> AllLanes], skillCalls' \in [Turns -> 0 .. MaxSkillCalls],
           UNCHANGED <<full, buffer, spoken, recorded>>
    PROVE  ReplyIInv'
<1>1. TextTypeOK /\ FlowTypeOK
  BY DEF ReplyIInv
<1>2. TextTypeOK' /\ FlowTypeOK'
  BY <1>1 DEF TextTypeOK, FlowTypeOK, goes
<1>3. stage'[t] = to /\ \A u \in Turns \ {t} : stage'[u] = stage[u]
  BY <1>1 DEF FlowTypeOK, goes
<1>4. full[t] = <<>> /\ buffer[t] = <<>> /\ spoken[t] = <<>>
  BY DEF ReplyIInv, QuietAtFirst
<1>5. QuietAtFirst'
  BY <1>3, <1>4 DEF ReplyIInv, QuietAtFirst
<1>6. HeldIsTheRest'
  <2>1. <<>> \o <<>> = <<>>
    BY LinesAreTexts, ConcatEmptySeq
  <2>2. spoken[t] \o buffer[t] = full[t]
    BY <1>4, <2>1
  <2>3. QED BY <1>3, <2>2 DEF ReplyIInv, HeldIsTheRest
<1>7. SpokenIsRecorded'
  BY <1>3 DEF ReplyIInv, SpokenIsRecorded
<1>8. QED BY <1>2, <1>5, <1>6, <1>7 DEF ReplyIInv

\* Steps of the router that the turn does not look at.
LEMMA UnseenKeepsInv ==
    ASSUME ReplyIInv, UNCHANGED turnVars PROVE ReplyIInv'
<1>1. UNCHANGED <<stage, laneOf, skillCalls, full, buffer, spoken, recorded>>
  BY DEF turnVars
<1>2. TextTypeOK' /\ FlowTypeOK'
  BY <1>1 DEF ReplyIInv, TextTypeOK, FlowTypeOK
<1>3. QuietAtFirst' /\ HeldIsTheRest' /\ SpokenIsRecorded'
  BY <1>1 DEF ReplyIInv, QuietAtFirst, HeldIsTheRest, SpokenIsRecorded
<1>4. QED BY <1>2, <1>3 DEF ReplyIInv

\* Texts put together, whichever two are first.
Together(u, v, w) == (u \o v) \o w = u \o (v \o w)

LEMMA TextsAssociate ==
    ASSUME NEW S PROVE \A u, v, w \in Seq(S) : Together(u, v, w)
BY ConcatAssociative DEF Together

\* Cut anywhere, what is held and what came are what is spoken now and what is held next.
Kept(said, all, new, h, cut) ==
    (said \o SubSeq(h, 1, cut)) \o SubSeq(h, cut + 1, Len(h)) = all \o new

LEMMA CutLosesNothing ==
    ASSUME NEW S, NEW said \in Seq(S), NEW held \in Seq(S), NEW new \in Seq(S),
           NEW h \in Seq(S), h = held \o new, NEW cut \in 0 .. Len(h)
    PROVE  /\ SubSeq(h, 1, cut) \in Seq(S) /\ SubSeq(h, cut + 1, Len(h)) \in Seq(S)
           /\ Kept(said, said \o held, new, h, cut)
<1>1. SubSeq(h, 1, cut) \in Seq(S) /\ SubSeq(h, cut + 1, Len(h)) \in Seq(S)
  OBVIOUS
<1>2. PICK first \in Seq(S), rest \in Seq(S) :
        first = SubSeq(h, 1, cut) /\ rest = SubSeq(h, cut + 1, Len(h))
  BY <1>1
<1>3. first \o rest = h
  <2>1. cut \in 1 - 1 .. Len(h) /\ 1 \in 1 .. Len(h) + 1 /\ Len(h) \in cut .. Len(h)
    OBVIOUS
  <2>2. SubSeq(h, 1, cut) \o SubSeq(h, cut + 1, Len(h)) = SubSeq(h, 1, Len(h))
    BY ONLY h \in Seq(S), <2>1, ConcatAdjacentSubSeq
  <2>3. SubSeq(h, 1, Len(h)) = h
    BY ONLY h \in Seq(S), SubSeqFull
  <2>4. QED BY <1>2, <2>2, <2>3
<1>4. Together(said, first, rest) /\ Together(said, held, new)
  BY TextsAssociate, Zenon
<1>5. (said \o first) \o rest = (said \o held) \o new
  <2>1. (said \o first) \o rest = said \o (first \o rest) /\ (said \o held) \o new = said \o (held \o new)
    BY ONLY <1>4 DEF Together
  <2>2. QED BY ONLY <1>3, <2>1, h = held \o new
<1>6. QED BY ONLY <1>1, <1>2, <1>5 DEF Kept

\* A chunk adds to the answer what it adds to what was spoken and what is held.
LEMMA PushKeepsInv ==
    ASSUME ReplyIInv, RouterTypeOK, NEW t \in Turns, stage[t] = "replying",
           NEW d \in Deltas, Len(buffer[t]) + d.adds > 0, push(t, d),
           UNCHANGED <<stage, laneOf, among, skillCalls, recorded>>
    PROVE  ReplyIInv'
<1>1. TextTypeOK /\ FlowTypeOK
  BY DEF ReplyIInv
<1> DEFINE new == [n \in 1 .. d.adds |-> fragment(t, Len(full[t]) + n)]
           held == buffer[t] \o new
           cut == Len(held) - d.keeps
<1>2. /\ full[t] \in Seq(Fragments) /\ buffer[t] \in Seq(Fragments) /\ spoken[t] \in Seq(Fragments)
      /\ Len(full[t]) \in Nat /\ Len(buffer[t]) \in Nat
  BY <1>1 DEF TextTypeOK
<1>3. d.adds \in Nat /\ d.keeps \in Nat /\ (d.adds >= d.keeps)
  BY DEF Deltas
<1>4. provider(call[t]) \in Providers
  <2>1. OnChain(call[t])
    BY DEF RouterTypeOK, OnChain
  <2>2. QED BY <2>1, CallFacts
<1>5. new \in Seq(Fragments) /\ Len(new) = d.adds
  <2>1. \A n \in 1 .. d.adds : fragment(t, Len(full[t]) + n) \in Fragments
    BY <1>2, <1>3, <1>4 DEF fragment, Fragments
  <2> HIDE DEF new
  <2>2. new \in [1 .. d.adds -> Fragments]
    BY <2>1 DEF new
  <2>3. QED BY <2>2, <1>3
<1> HIDE DEF new
<1>6. held \in Seq(Fragments) /\ Len(held) = Len(buffer[t]) + d.adds
  <2>1. buffer[t] \o new \in Seq(Fragments) /\ Len(buffer[t] \o new) = Len(buffer[t]) + Len(new)
    BY ONLY <1>2, <1>5, ConcatProperties
  <2>2. QED BY <1>5, <2>1
<1>7. cut \in 0 .. Len(held)
  BY <1>2, <1>3, <1>6
<1>8. /\ full' = [full EXCEPT ![t] = @ \o new]
      /\ spoken' = [spoken EXCEPT ![t] = @ \o SubSeq(held, 1, cut)]
      /\ buffer' = [buffer EXCEPT ![t] = SubSeq(held, cut + 1, Len(held))]
  BY DEF push, new
<1>9. spoken[t] \o buffer[t] = full[t]
  BY DEF ReplyIInv, HeldIsTheRest
<1>10. /\ SubSeq(held, 1, cut) \in Seq(Fragments)
       /\ SubSeq(held, cut + 1, Len(held)) \in Seq(Fragments)
       /\ (spoken[t] \o SubSeq(held, 1, cut)) \o SubSeq(held, cut + 1, Len(held)) = full[t] \o new
  <2>1. held = buffer[t] \o new
    OBVIOUS
  <2> HIDE DEF held, cut
  <2>2. /\ SubSeq(held, 1, cut) \in Seq(Fragments) /\ SubSeq(held, cut + 1, Len(held)) \in Seq(Fragments)
        /\ Kept(spoken[t], spoken[t] \o buffer[t], new, held, cut)
    BY ONLY <1>2, <1>5, <1>6, <1>7, <2>1, CutLosesNothing
  <2>3. Kept(spoken[t], full[t], new, held, cut)
    BY <1>9, <2>2
  <2>4. QED BY <2>2, <2>3 DEF Kept
<1> HIDE DEF held, cut
<1>11. TextTypeOK'
  <2>1. full[t] \o new \in Seq(Fragments) /\ spoken[t] \o SubSeq(held, 1, cut) \in Seq(Fragments)
    BY <1>2, <1>5, <1>10, ConcatProperties
  <2>2. QED BY <1>1, <1>8, <1>10, <2>1 DEF TextTypeOK
<1>12. FlowTypeOK'
  BY <1>1 DEF FlowTypeOK
<1>13. /\ spoken'[t] \o buffer'[t] = full'[t]
       /\ \A u \in Turns \ {t} : full'[u] = full[u] /\ buffer'[u] = buffer[u] /\ spoken'[u] = spoken[u]
  BY <1>1, <1>8, <1>10 DEF TextTypeOK
<1>14. QuietAtFirst' /\ HeldIsTheRest' /\ SpokenIsRecorded'
  BY <1>13 DEF ReplyIInv, QuietAtFirst, HeldIsTheRest, SpokenIsRecorded
<1>15. QED BY <1>11, <1>12, <1>14 DEF ReplyIInv

LEMMA ReplyIInvInit == ReplyInit => ReplyIInv
<1> SUFFICES ASSUME ReplyInit PROVE ReplyIInv
  OBVIOUS
<1>1. TextTypeOK /\ FlowTypeOK
  BY LinesAreTexts, ReplyAssumption DEF ReplyInit, TextTypeOK, FlowTypeOK, Stages, AllLanes
<1>2. QuietAtFirst /\ HeldIsTheRest /\ SpokenIsRecorded
  BY DEF ReplyInit, QuietAtFirst, HeldIsTheRest, SpokenIsRecorded
<1>3. QED BY <1>1, <1>2 DEF ReplyIInv

\* A turn of which nothing has been heard may end with any line.
LEMMA QuietEndKeepsInv ==
    ASSUME ReplyIInv, NEW t \in Turns, NEW line \in Seq(Fragments), ends(t, line, line),
           spoken[t] = <<>>
    PROVE  ReplyIInv'
<1>1. spoken[t] \o line = line
  BY ConcatEmptySeq
<1>2. QED BY <1>1, EndKeepsInv

\* What happens to a turn before it replies.
LEMMA DispatchKeepsInv ==
    ASSUME ReplyIInv, NEW t \in Turns, Dispatches(t) PROVE ReplyIInv'
<1>1. laneOf \in [Turns -> AllLanes] /\ skillCalls \in [Turns -> 0 .. MaxSkillCalls]
  BY DEF ReplyIInv, FlowTypeOK
<1>2. stage[t] \notin {"replying", "done"} /\ spoken[t] = <<>>
  BY DEF Dispatches, HearsPleasantry, HearsRequest, Classified, ClassificationInvalid, Matched,
         MatchThrows, Disambiguated, NoneChosen, ReplyIInv, QuietAtFirst
<1>3. CASE HearsPleasantry(t) \/ HearsRequest(t)
  BY <1>1, <1>2, <1>3, StageKeepsInv DEF HearsPleasantry, HearsRequest, Stages
<1>4. CASE Classified(t)
  <2>1. \A l \in classifyLaneHeuristically : l \in AllLanes
    BY DEF classifyLaneHeuristically, AllLanes
  <2>2. QED BY <1>1, <1>2, <1>4, <2>1, StageKeepsInv DEF Classified, Stages
<1>5. CASE ClassificationInvalid(t) \/ MatchThrows(t)
  BY <1>2, <1>5, LinesAreTexts, QuietEndKeepsInv DEF ClassificationInvalid, MatchThrows, fails
<1>6. ASSUME noSkill(t) PROVE ReplyIInv'
  <2>1. CASE ends(t, <<"reflex">>, <<"reflex">>)
    BY <1>2, <2>1, LinesAreTexts, QuietEndKeepsInv
  <2>2. CASE goes(t, "recalling") /\ laneOf' = [laneOf EXCEPT ![t] = "converse"]
             /\ UNCHANGED <<skillCalls, full, buffer, spoken, recorded>>
    <3>1. laneOf' \in [Turns -> AllLanes]
      BY <1>1, <2>2 DEF AllLanes
    <3>2. QED BY <1>1, <1>2, <2>2, <3>1, StageKeepsInv DEF Stages
  <2>3. QED BY <1>6, <2>1, <2>2 DEF noSkill, matchReflex
<1>7. CASE Matched(t)
  <2>1. CASE noSkill(t)
    BY <2>1, <1>6
  <2>2. CASE \E to \in {"handling", "disambiguating"} :
                goes(t, to) /\ UNCHANGED <<laneOf, skillCalls, full, buffer, spoken, recorded>>
    BY <1>1, <1>2, <2>2, StageKeepsInv DEF Stages
  <2>3. QED BY <1>7, <2>1, <2>2 DEF Matched
<1>8. CASE Disambiguated(t)
  BY <1>1, <1>2, <1>8, StageKeepsInv DEF Disambiguated, Stages
<1>9. CASE NoneChosen(t)
  BY <1>6, <1>9 DEF NoneChosen
<1>10. QED BY <1>3, <1>4, <1>5, <1>7, <1>8, <1>9 DEF Dispatches

\* The skill that was chosen, and calls that fail outside the reply.
LEMMA SkillKeepsInv ==
    ASSUME ReplyIInv, NEW t \in Turns,
           CallThrows(t) \/ SkillAsks(t) \/ SkillResumes(t) \/ SkillReturns(t)
    PROVE  ReplyIInv'
<1>1. laneOf \in [Turns -> AllLanes] /\ skillCalls \in [Turns -> 0 .. MaxSkillCalls]
  BY DEF ReplyIInv, FlowTypeOK
<1>2. stage[t] \notin {"replying", "done"} /\ spoken[t] = <<>>
  BY DEF CallThrows, SkillAsks, SkillResumes, SkillReturns, ReplyIInv, QuietAtFirst
<1>3. CASE CallThrows(t)
  BY <1>2, <1>3, LinesAreTexts, QuietEndKeepsInv DEF CallThrows, fails
<1>4. CASE SkillAsks(t)
  <2>1. skillCalls[t] + 1 \in 0 .. MaxSkillCalls
    BY <1>1, <1>4, ReplyAssumption DEF SkillAsks
  <2>2. skillCalls' \in [Turns -> 0 .. MaxSkillCalls]
    BY <1>1, <1>4, <2>1 DEF SkillAsks
  <2>3. QED BY <1>1, <1>2, <1>4, <2>2, StageKeepsInv DEF SkillAsks, Stages
<1>5. CASE SkillResumes(t)
  BY <1>1, <1>2, <1>5, StageKeepsInv DEF SkillResumes, Stages
<1>6. CASE SkillReturns(t)
  BY <1>2, <1>6, LinesAreTexts, QuietEndKeepsInv DEF SkillReturns
<1>7. QED BY <1>3, <1>4, <1>5, <1>6

\* The conversation.
LEMMA ConverseKeepsInv ==
    ASSUME ReplyIInv, RouterTypeOK, NEW t \in Turns, Converses(t) PROVE ReplyIInv'
<1>1. /\ laneOf \in [Turns -> AllLanes] /\ skillCalls \in [Turns -> 0 .. MaxSkillCalls]
      /\ full[t] \in Seq(Fragments) /\ buffer[t] \in Seq(Fragments) /\ spoken[t] \in Seq(Fragments)
  BY DEF ReplyIInv, FlowTypeOK, TextTypeOK
<1>2. CASE Recalled(t)
  BY <1>1, <1>2, StageKeepsInv DEF Recalled, Stages
<1>3. CASE RecallThrows(t)
  BY <1>3, LinesAreTexts, QuietEndKeepsInv DEF RecallThrows, fails, ReplyIInv, QuietAtFirst
<1>4. CASE ReplyStreams(t)
  BY <1>4, PushKeepsInv, UnseenKeepsInv DEF ReplyStreams
<1>5. ASSUME stage[t] = "replying" PROVE spoken[t] \o buffer[t] = full[t]
  BY <1>5 DEF ReplyIInv, HeldIsTheRest
<1>6. CASE ReplyComplete(t)
  <2>1. CASE full[t] = <<>>
    <3>1. spoken[t] = <<>>
      BY <1>1, <1>5, <1>6, <2>1, ConcatEqualIffEmpty DEF ReplyComplete
    <3>2. QED BY <1>6, <2>1, <3>1, LinesAreTexts, QuietEndKeepsInv DEF ReplyComplete
  <2>2. CASE full[t] # <<>>
    BY <1>1, <1>5, <1>6, <2>2, EndKeepsInv DEF ReplyComplete
  <2>3. QED BY <2>1, <2>2
<1>7. CASE ReplyBreaks(t)
  <2>1. CASE spoken[t] = <<>> /\ buffer[t] = <<>>
    BY <1>7, <2>1, LinesAreTexts, QuietEndKeepsInv DEF ReplyBreaks, fails
  <2>2. CASE ~(spoken[t] = <<>> /\ buffer[t] = <<>>)
    <3>1. spoken[t] \o (buffer[t] \o LostTheRest) = full[t] \o LostTheRest
      <4>1. Together(spoken[t], buffer[t], LostTheRest)
        BY <1>1, LinesAreTexts, TextsAssociate, Zenon
      <4>2. spoken[t] \o buffer[t] = full[t]
        BY <1>5, <1>7 DEF ReplyBreaks
      <4>3. QED BY <4>1, <4>2 DEF Together
    <3>2. buffer[t] \o LostTheRest \in Seq(Fragments) /\ full[t] \o LostTheRest \in Seq(Fragments)
      BY <1>1, LinesAreTexts, ConcatProperties
    <3>3. ends(t, buffer[t] \o LostTheRest, full[t] \o LostTheRest)
      BY <1>7, <2>2 DEF ReplyBreaks
    <3>4. QED BY <3>1, <3>2, <3>3, EndKeepsInv
  <2>3. QED BY <2>1, <2>2
<1>8. QED BY <1>2, <1>3, <1>4, <1>6, <1>7, <1>1 DEF Converses

\* Every part of the invariant holds in every state, for any number of turns.
THEOREM ReplyInvariant == ReplySpec => []ReplyIInv
<1>1. ASSUME ReplyIInv, RouterTypeOK, [ReplyNext]_replyVars PROVE ReplyIInv'
  <2>1. CASE ReplyNext
    <3>1. CASE UNCHANGED turnVars
      BY <1>1, <3>1, UnseenKeepsInv
    <3>2. CASE \E t \in Turns :
                 \/ Dispatches(t) \/ Converses(t) \/ CallThrows(t)
                 \/ SkillAsks(t) \/ SkillResumes(t) \/ SkillReturns(t)
      BY <1>1, <3>2, DispatchKeepsInv, ConverseKeepsInv, SkillKeepsInv
    <3>3. QED BY <2>1, <3>1, <3>2 DEF ReplyNext, TextStreams, RouterSteps
  <2>2. CASE UNCHANGED replyVars
    BY <1>1, <2>2, UnseenKeepsInv DEF replyVars
  <2>3. QED BY <1>1, <2>1, <2>2
<1>2. ReplySpec => []RouterTypeOK
  BY TurnsUseTheRouter, RouterTypeCorrect, PTL
<1>3. QED BY <1>1, <1>2, ReplyIInvInit, PTL DEF ReplySpec

\* What the owner heard of a turn is what its record says, however the stream was cut, broke
\* off or failed, and whatever the sentence accumulator held (converse.ts).
THEOREM SpokenIsAlwaysRecorded == ReplySpec => []SpokenIsRecorded
<1>1. ReplyIInv => SpokenIsRecorded
  BY DEF ReplyIInv
<1>2. QED BY <1>1, ReplyInvariant, PTL
----------------------------------------------------------------------------
(* Lists: folds and recursions over the places of a list, what is left of a list, and  *)
(* what sorting makes of a set.  A recursion is solved by induction over its places,   *)
(* which needs no more than that every set of naturals has a least element.            *)

\* Every set of naturals that is not empty has a least element.
LEMMA LeastNatural ==
    ASSUME NEW T \in SUBSET Nat, T # {}
    PROVE  \E x \in T : \A y \in T : x <= y
<1> DEFINE R == {p \in Nat \X Nat : p[1] < p[2]}
<1>1. IsWellFoundedOn(R, Nat)
  BY NatLessThanWellFounded DEF OpToRel
<1>2. PICK x \in T : \A y \in T : ~ (<<y, x>> \in R)
  <2> HIDE DEF R
  <2>1. QED BY <1>1, WFMin, Zenon
<1>3. \A y \in T : ~ (y < x)
  BY <1>2
<1>4. QED BY <1>3

\* Induction: a set that holds 0 and with every natural the next one holds them all.
LEMMA NaturalsAreInductive ==
    ASSUME NEW S, 0 \in S, \A n \in S \cap Nat : n + 1 \in S
    PROVE  Nat \subseteq S
<1>1. SUFFICES ASSUME Nat \ S # {} PROVE FALSE
  OBVIOUS
<1>2. PICK x \in Nat \ S : \A y \in Nat \ S : x <= y
  <2>1. Nat \ S \in SUBSET Nat
    OBVIOUS
  <2>2. QED BY <1>1, <2>1, LeastNatural, Zenon
<1>3. x - 1 \in Nat /\ ~ (x <= x - 1)
  BY <1>2
<1>4. x - 1 \in S
  BY <1>2, <1>3
<1>5. QED BY <1>2, <1>3, <1>4

\* The `Min` of the library is a least element.
LEMMA MinIsLeast ==
    ASSUME NEW T \in SUBSET Nat, T # {}
    PROVE  Min(T) \in T /\ \A y \in T : Min(T) <= y
BY LeastNatural DEF Min

\* A set of naturals with a bound has a greatest element, if it is not empty.
LEMMA MaxIsGreatest ==
    ASSUME NEW T \in SUBSET Nat, T # {}, NEW b \in Nat, \A y \in T : y <= b
    PROVE  Max(T) \in T /\ \A y \in T : y <= Max(T)
<1> DEFINE U == {u \in Nat : \A y \in T : y <= u}
<1>1. PICK u \in U : \A v \in U : u <= v
  <2>1. U \in SUBSET Nat /\ U # {}
    OBVIOUS
  <2>2. QED BY <2>1, LeastNatural, Zenon
<1>2. u \in T
  <2>1. SUFFICES ASSUME u \notin T PROVE FALSE
    OBVIOUS
  <2>2. \A y \in T : y <= u - 1
    BY <1>1, <2>1
  <2>3. PICK y \in T : TRUE
    OBVIOUS
  <2>4. u - 1 \in U
    BY <1>1, <2>2, <2>3
  <2>5. QED BY <1>1, <2>4
<1>3. \A y \in T : u >= y
  BY <1>1
<1>4. QED BY <1>2, <1>3 DEF Max

\* An interval from 1 ends in its greatest element.
LEMMA MaxOfInterval ==
    ASSUME NEW k \in Nat, k > 0
    PROVE  Max(1 .. k) = k /\ (1 .. k) \ {k} = 1 .. k - 1
<1>1. Max(1 .. k) \in 1 .. k /\ \A y \in 1 .. k : y <= Max(1 .. k)
  <2>1. 1 .. k \in SUBSET Nat /\ k \in 1 .. k /\ \A y \in 1 .. k : y <= k
    OBVIOUS
  <2>2. QED BY <2>1, MaxIsGreatest
<1>2. QED BY <1>1

\* Of numbers up to `n` the greatest is one of them.
LEMMA MaxUpTo ==
    ASSUME NEW n \in Nat, NEW s \in SUBSET (1 .. n), s # {}
    PROVE  Max(s) \in 1 .. n
<1>1. s \in SUBSET Nat /\ \A y \in s : y <= n
  OBVIOUS
<1>2. Max(s) \in s
  BY <1>1, MaxIsGreatest
<1>3. QED BY <1>2

\* A finite set of naturals has a bound.
LEMMA FiniteIsBounded ==
    ASSUME NEW T \in SUBSET Nat, IsFiniteSet(T)
    PROVE  \E b \in Nat : \A y \in T : y <= b
<1>1. PICK n \in Nat : ExistsSurjection(1 .. n, T)
  BY FS_NatSurjection
<1>2. PICK f \in [1 .. n -> Nat] : \A y \in T : \E i \in 1 .. n : f[i] = y
  <2>1. PICK f \in Surjection(1 .. n, T) : TRUE
    BY <1>1 DEF ExistsSurjection
  <2>2. f \in [1 .. n -> Nat]
    BY <2>1 DEF Surjection
  <2>3. QED BY <2>1, <2>2 DEF Surjection
<1> DEFINE S == {k \in Nat : k <= n => \E b \in Nat : \A i \in 1 .. k : f[i] <= b}
<1>3. 0 \in S
  OBVIOUS
<1>4. ASSUME NEW k \in S \cap Nat PROVE k + 1 \in S
  <2>1. SUFFICES ASSUME k + 1 <= n PROVE \E b \in Nat : \A i \in 1 .. k + 1 : f[i] <= b
    OBVIOUS
  <2>2. PICK b \in Nat : \A i \in 1 .. k : f[i] <= b
    BY <2>1
  <2>3. f[k + 1] \in Nat
    <3>1. k + 1 \in 1 .. n
      BY <2>1
    <3>2. QED BY <3>1
  <2>4. \A i \in 1 .. k : f[i] \in Nat
    <3>1. \A i \in 1 .. k : i \in 1 .. n
      BY <2>1
    <3>2. QED BY <3>1
  <2>5. PICK c \in Nat : b <= c /\ f[k + 1] <= c
    BY <2>3
  <2>6. \A i \in 1 .. k + 1 : f[i] <= c
    BY <2>2, <2>4, <2>5
  <2>7. QED BY <2>6
<1>5. n \in S
  <2> HIDE DEF S
  <2>1. QED BY <1>3, <1>4, NaturalsAreInductive
<1>6. PICK b \in Nat : \A i \in 1 .. n : f[i] <= b
  BY <1>5
<1>7. QED BY <1>2, <1>6

\* Induction up to a bound.
LEMMA InductionUpTo ==
    ASSUME NEW n \in Nat, NEW S, 0 \in S, \A k \in 1 .. n : k - 1 \in S => k \in S
    PROVE  0 .. n \subseteq S
<1> DEFINE U == {k \in Nat : k <= n => k \in S}
<1>1. 0 \in U
  OBVIOUS
<1>2. ASSUME NEW k \in U \cap Nat PROVE k + 1 \in U
  <2>1. SUFFICES ASSUME k + 1 <= n PROVE k + 1 \in S
    OBVIOUS
  <2>2. k \in S /\ k + 1 \in 1 .. n /\ (k + 1) - 1 = k
    BY <2>1
  <2>3. QED BY <2>2
<1>3. Nat \subseteq U
  <2> HIDE DEF U
  <2>1. QED BY <1>1, <1>2, NaturalsAreInductive
<1>4. QED BY <1>3

\* The recursion by which the library defines a fold has a solution: a value for every set
\* of places, where the greatest place is dealt with last.
Folds(h, n, base, G) ==
    \A s \in SUBSET (1 .. n) : h[s] = IF s = {} THEN base ELSE G[<<Max(s), h[s \ {Max(s)}]>>]

\* A fold over the places of a list has a solution: what the library chooses exists.
LEMMA FoldTable ==
    ASSUME NEW n \in Nat, NEW D, NEW base \in D, NEW G \in [(1 .. n) \X D -> D]
    PROVE  \E h \in [SUBSET (1 .. n) -> D] : Folds(h, n, base, G)
<1> DEFINE Solves(h, k) ==
              \A s \in SUBSET (1 .. k) : h[s] = IF s = {} THEN base ELSE G[<<Max(s), h[s \ {Max(s)}]>>]
           S == {k \in 0 .. n : \E h \in [SUBSET (1 .. k) -> D] : Solves(h, k)}
<1>1. 0 \in S
  <2> DEFINE h == [s \in SUBSET (1 .. 0) |-> base]
  <2>1. h \in [SUBSET (1 .. 0) -> D] /\ Solves(h, 0)
    OBVIOUS
  <2> HIDE DEF h, Solves
  <2>2. \E g \in [SUBSET (1 .. 0) -> D] : Solves(g, 0)
    BY <2>1
  <2>3. 0 \in 0 .. n
    OBVIOUS
  <2>4. QED BY <2>2, <2>3, Zenon
<1>2. ASSUME NEW k \in 1 .. n, k - 1 \in S PROVE k \in S
  <2>1. PICK h \in [SUBSET (1 .. k - 1) -> D] : Solves(h, k - 1)
    BY <1>2
  <2> DEFINE g == [s \in SUBSET (1 .. k) |-> IF k \in s THEN G[<<k, h[s \ {k}]>>] ELSE h[s]]
  <2>2. \A s \in SUBSET (1 .. k) : s \ {k} \in SUBSET (1 .. k - 1)
    OBVIOUS
  <2>3. g \in [SUBSET (1 .. k) -> D]
    <3>1. SUFFICES ASSUME NEW s \in SUBSET (1 .. k) PROVE g[s] \in D
      OBVIOUS
    <3>2. CASE k \in s
      <4>1. h[s \ {k}] \in D
        BY <2>2
      <4>2. QED BY <3>2, <4>1
    <3>3. CASE k \notin s
      <4>1. s \in SUBSET (1 .. k - 1)
        BY <2>2, <3>3
      <4>2. QED BY <3>3, <4>1
    <3>4. QED BY <3>2, <3>3
  <2>4. ASSUME NEW s \in SUBSET (1 .. k)
        PROVE  g[s] = IF s = {} THEN base ELSE G[<<Max(s), g[s \ {Max(s)}]>>]
    <3>1. CASE k \in s
      <4>1. Max(s) = k
        <5>1. s \in SUBSET Nat /\ s # {} /\ k \in Nat /\ \A y \in s : y <= k
          BY <3>1
        <5>2. Max(s) \in s /\ \A y \in s : y <= Max(s)
          BY <5>1, MaxIsGreatest
        <5>3. Max(s) \in Nat /\ Max(s) <= k /\ k <= Max(s)
          BY <3>1, <5>1, <5>2
        <5>4. QED BY <5>3
      <4>2. g[s \ {k}] = h[s \ {k}]
        BY <2>2
      <4>3. QED BY <3>1, <4>1, <4>2
    <3>2. CASE k \notin s
      <4>1. s \in SUBSET (1 .. k - 1)
        BY <2>2, <3>2
      <4>2. s \ {Max(s)} \in SUBSET (1 .. k) /\ k \notin s \ {Max(s)}
        BY <3>2
      <4>3. g[s] = h[s] /\ g[s \ {Max(s)}] = h[s \ {Max(s)}]
        BY <3>2, <4>2
      <4>4. QED BY <2>1, <4>1, <4>3
    <3>3. QED BY <3>1, <3>2
  <2> HIDE DEF g
  <2>5. Solves(g, k)
    BY <2>4
  <2> HIDE DEF Solves
  <2>6. \E f \in [SUBSET (1 .. k) -> D] : Solves(f, k)
    BY <2>3, <2>5
  <2>7. QED BY <2>6
<1>3. n \in S
  <2> HIDE DEF S
  <2>1. QED BY <1>1, <1>2, InductionUpTo
<1>4. QED BY <1>3 DEF Folds

Steps(v, n, base, G, last) == v[0] = base /\ v[n] = last /\ \A k \in 1 .. n : v[k] = G[<<k, v[k - 1]>>]

Unfolds(it, n, D, base, G) ==
    /\ it[{}] = base
    /\ \A s \in SUBSET (1 .. n) :
          s # {} /\ it[s \ {Max(s)}] \in D => it[s] = G[<<Max(s), it[s \ {Max(s)}]>>]

\* What such a solution comes to when the places are dealt with one after the other.
LEMMA FoldValues ==
    ASSUME NEW n \in Nat, NEW D, NEW base \in D, NEW G \in [(1 .. n) \X D -> D],
           NEW it, Unfolds(it, n, D, base, G), NEW last, last = it[1 .. n]
    PROVE  \E v \in [0 .. n -> D] : Steps(v, n, base, G, last)
<1> DEFINE v == [k \in 0 .. n |-> it[1 .. k]]
           S == {k \in 0 .. n : v[k] \in D}
<1>1. v[0] = base /\ 0 \in S
  <2>1. 1 .. 0 = {} /\ 0 \in 0 .. n
    OBVIOUS
  <2>2. QED BY <2>1 DEF Unfolds
<1>2. ASSUME NEW k \in 1 .. n, v[k - 1] \in D PROVE v[k] = G[<<k, v[k - 1]>>]
  <2>1. Max(1 .. k) = k /\ (1 .. k) \ {k} = 1 .. k - 1
    BY MaxOfInterval
  <2>2. 1 .. k \in SUBSET (1 .. n) /\ 1 .. k # {} /\ k \in 0 .. n /\ k - 1 \in 0 .. n
    OBVIOUS
  <2>3. v[k] = it[1 .. k] /\ v[k - 1] = it[1 .. k - 1]
    BY <2>2
  <2> HIDE DEF v
  <2>4. it[(1 .. k) \ {Max(1 .. k)}] \in D
    BY <1>2, <2>1, <2>3
  <2>5. it[1 .. k] = G[<<Max(1 .. k), it[(1 .. k) \ {Max(1 .. k)}]>>]
    BY <2>2, <2>4 DEF Unfolds
  <2>6. QED BY <2>1, <2>3, <2>5
<1>3. 0 .. n \subseteq S
  <2>1. ASSUME NEW k \in 1 .. n, k - 1 \in S PROVE k \in S
    <3>1. v[k - 1] \in D /\ k \in 0 .. n
      BY <2>1
    <3> HIDE DEF v
    <3>2. v[k] \in D
      BY <1>2, <3>1
    <3>3. QED BY <3>1, <3>2
  <2> HIDE DEF S, v
  <2>2. QED BY <1>1, <2>1, InductionUpTo
<1>4. v \in [0 .. n -> D] /\ v[n] = it[1 .. n]
  BY <1>3
<1>5. \A k \in 1 .. n : v[k - 1] \in D
  BY <1>3
<1> HIDE DEF v
<1>6. QED BY <1>1, <1>2, <1>4, <1>5 DEF Steps

\* Two recursions that start alike and go on alike come to the same.
LEMMA StepsAgree ==
    ASSUME NEW n \in Nat, NEW v, NEW w, v[0] = w[0], \A k \in 1 .. n : v[k - 1] = w[k - 1] => v[k] = w[k]
    PROVE  v[n] = w[n]
<1> DEFINE S == {k \in 0 .. n : v[k] = w[k]}
<1>1. 0 \in S /\ \A k \in 1 .. n : k - 1 \in S => k \in S
  OBVIOUS
<1>2. 0 .. n \subseteq S
  <2> HIDE DEF S
  <2>1. QED BY <1>1, InductionUpTo
<1>3. QED BY <1>2

\* `within`, one element after the other.
Selecting(v, q, T) ==
    /\ v[0] = <<>>
    /\ \A k \in 1 .. Len(q) : v[k] = IF q[k] \in T THEN Append(v[k - 1], q[k]) ELSE v[k - 1]
    /\ v[Len(q)] = within(q, T)

\* What is left of a list, one element after the other, from the fold `within` is.
LEMMA WithinTable ==
    ASSUME NEW B, NEW q \in Seq(B), NEW T
    PROVE  \E v \in [0 .. Len(q) -> Seq(B)] : Selecting(v, q, T)
<1> DEFINE n == Len(q)
           D == Seq(B)
           G == [p \in (1 .. n) \X D |-> IF q[p[1]] \in T THEN Append(p[2], q[p[1]]) ELSE p[2]]
           Solves(h) == h = [s \in SUBSET DOMAIN q |->
                                IF s = {} THEN <<>>
                                ELSE IF q[Max(s)] \in T THEN Append(h[s \ {Max(s)}], q[Max(s)])
                                     ELSE h[s \ {Max(s)}]]
           iter == CHOOSE h : Solves(h)
<1>1. n \in Nat /\ DOMAIN q = 1 .. n /\ \A i \in 1 .. n : q[i] \in B
  OBVIOUS
<1>2. <<>> \in D /\ G \in [(1 .. n) \X D -> D]
  BY <1>1
<1>3. \A k \in 1 .. n, d \in D : G[<<k, d>>] = IF q[k] \in T THEN Append(d, q[k]) ELSE d
  OBVIOUS
<1>4. \A s \in SUBSET (1 .. n) : s # {} => Max(s) \in 1 .. n
  BY <1>1, MaxUpTo
<1>5. PICK h \in [SUBSET (1 .. n) -> D] : Folds(h, n, <<>>, G)
  <2> HIDE DEF n, D, G
  <2>1. QED BY <1>1, <1>2, FoldTable, Zenon
<1>6. Solves(h)
  <2>1. h[{}] = <<>> /\ \A s \in SUBSET (1 .. n) : s # {} => h[s] = G[<<Max(s), h[s \ {Max(s)}]>>]
    BY <1>5 DEF Folds
  <2>2. \A s \in SUBSET (1 .. n) : h[s \ {Max(s)}] \in D
    BY <1>5
  <2> HIDE DEF G, D
  <2>3. \A s \in SUBSET (1 .. n) : h[s] = IF s = {} THEN <<>>
                                          ELSE IF q[Max(s)] \in T THEN Append(h[s \ {Max(s)}], q[Max(s)])
                                               ELSE h[s \ {Max(s)}]
    BY <1>3, <1>4, <2>1, <2>2
  <2>4. QED BY <1>1, <1>5, <2>3
<1>7. Solves(iter)
  <2> HIDE DEF Solves
  <2>1. QED BY <1>6
<1>8. within(q, T) = iter[1 .. n]
  BY <1>1 DEF within, FoldLeft, MapThenFoldSet
<1> HIDE DEF iter
<1>9. iter[{}] = <<>>
  BY <1>7
<1>10. Unfolds(iter, n, D, <<>>, G)
  <2> HIDE DEF G, D
  <2>1. QED BY <1>1, <1>3, <1>4, <1>7, <1>9 DEF Unfolds
<1>11. PICK v \in [0 .. n -> D] : Steps(v, n, <<>>, G, within(q, T))
  <2> HIDE DEF n, D, G
  <2>1. QED BY <1>1, <1>2, <1>8, <1>10, FoldValues, Zenon
<1>12. \A k \in 1 .. n : v[k - 1] \in D
  <2>1. \A k \in 1 .. n : k - 1 \in 0 .. n
    BY <1>1
  <2> HIDE DEF n, D
  <2>2. QED BY <1>11, <2>1
<1> HIDE DEF G
<1>13. QED BY <1>1, <1>3, <1>11, <1>12 DEF Steps, Selecting

\* `at` are the places in `q` of what is left of its first `k` elements, in their order.
Places(at, w, q, k, T) ==
    /\ at \in [1 .. Len(w) -> 1 .. k]
    /\ \A i \in 1 .. Len(w) : w[i] = q[at[i]]
    /\ \A i, j \in 1 .. Len(w) : i < j => at[i] < at[j]
    /\ \A i \in 1 .. k : q[i] \in T <=> \E j \in 1 .. Len(w) : at[j] = i

\* `within` leaves out what is not in the set, and leaves the rest in its order.
LEMMA WithinPlaces ==
    ASSUME NEW B, NEW q \in Seq(B), NEW T
    PROVE  /\ within(q, T) \in Seq(B)
           /\ \E at : Places(at, within(q, T), q, Len(q), T)
<1> DEFINE n == Len(q)
<1>1. n \in Nat /\ \A i \in 1 .. n : q[i] \in B
  OBVIOUS
<1>2. PICK v \in [0 .. n -> Seq(B)] :
         /\ v[0] = <<>>
         /\ \A k \in 1 .. n : v[k] = IF q[k] \in T THEN Append(v[k - 1], q[k]) ELSE v[k - 1]
         /\ v[n] = within(q, T)
  <2>1. PICK v \in [0 .. n -> Seq(B)] : Selecting(v, q, T)
    BY WithinTable
  <2>2. QED BY <2>1 DEF Selecting
<1> DEFINE S == {k \in 0 .. n : \E at : Places(at, v[k], q, k, T)}
<1>3. 0 \in S
  <2>1. Places(<<>>, v[0], q, 0, T)
    BY <1>2 DEF Places
  <2>2. QED BY <1>1, <2>1
<1>4. ASSUME NEW k \in 1 .. n, k - 1 \in S PROVE k \in S
  <2> DEFINE w == v[k - 1]
             m == Len(w)
  <2>1. PICK at : Places(at, w, q, k - 1, T)
    BY <1>4
  <2>2. k \in 0 .. n /\ k - 1 \in 0 .. n /\ w \in Seq(B) /\ m \in Nat /\ q[k] \in B
    BY <1>1, <1>2
  <2>3. at \in [1 .. m -> 1 .. k - 1] /\ \A i \in 1 .. m : at[i] \in 1 .. k - 1 /\ at[i] < k /\ at[i] \in Nat
    <3>1. at \in [1 .. m -> 1 .. k - 1]
      BY <2>1 DEF Places
    <3> HIDE DEF m
    <3>2. QED BY <2>2, <3>1
  <2>4. CASE q[k] \in T
    <3> DEFINE to == [i \in 1 .. m + 1 |-> IF i <= m THEN at[i] ELSE k]
    <3>1. v[k] = Append(w, q[k])
      BY <1>2, <2>4
    <3>2. Len(v[k]) = m + 1 /\ (\A i \in 1 .. m : v[k][i] = w[i]) /\ v[k][m + 1] = q[k]
      BY <2>2, <3>1
    <3>3. /\ \A i \in 1 .. m : i \in 1 .. m + 1 /\ to[i] = at[i]
          /\ m + 1 \in 1 .. m + 1 /\ to[m + 1] = k
          /\ \A i \in 1 .. m + 1 : i \in 1 .. m \/ i = m + 1
      BY <2>2
    <3>4. to \in [1 .. m + 1 -> 1 .. k]
      BY <2>2, <2>3
    <3> HIDE DEF to, m, w
    <3>5. \A i \in 1 .. m + 1 : v[k][i] = q[to[i]]
      BY <2>1, <3>2, <3>3 DEF Places, m
    <3>6. \A i, j \in 1 .. m + 1 : i < j => to[i] < to[j]
      <4>1. SUFFICES ASSUME NEW i \in 1 .. m + 1, NEW j \in 1 .. m + 1, i < j PROVE to[i] < to[j]
        OBVIOUS
      <4>2. i \in 1 .. m
        BY <2>2, <4>1
      <4>3. CASE j = m + 1
        BY <2>3, <3>3, <4>2, <4>3
      <4>4. CASE j \in 1 .. m
        BY <2>1, <3>3, <4>1, <4>2, <4>4 DEF Places, m
      <4>5. QED BY <3>3, <4>3, <4>4
    <3>7. \A i \in 1 .. k : q[i] \in T <=> \E j \in 1 .. m + 1 : to[j] = i
      <4>1. SUFFICES ASSUME NEW i \in 1 .. k PROVE q[i] \in T <=> \E j \in 1 .. m + 1 : to[j] = i
        OBVIOUS
      <4>2. CASE i = k
        BY <2>4, <3>3, <4>2
      <4>3. CASE i # k
        <5>1. i \in 1 .. k - 1
          BY <4>3
        <5>2. q[i] \in T <=> \E j \in 1 .. m : at[j] = i
          BY <2>1, <5>1 DEF Places, m
        <5>3. QED BY <3>3, <4>3, <5>2
      <4>4. QED BY <4>2, <4>3
    <3>8. Places(to, v[k], q, k, T)
      BY <3>2, <3>4, <3>5, <3>6, <3>7 DEF Places
    <3>9. QED BY <2>2, <3>8
  <2>5. CASE q[k] \notin T
    <3>1. v[k] = w
      BY <1>2, <2>5
    <3>2. \A i \in 1 .. k : i \in 1 .. k - 1 \/ i = k
      BY <1>1
    <3>3. at \in [1 .. m -> 1 .. k]
      BY <2>3
    <3>4. \A i \in 1 .. k : q[i] \in T <=> \E j \in 1 .. m : at[j] = i
      <4> HIDE DEF m
      <4>1. \A j \in 1 .. m : at[j] # k
        BY <2>3
      <4>2. \A i \in 1 .. k - 1 : q[i] \in T <=> \E j \in 1 .. m : at[j] = i
        BY <2>1 DEF Places, m
      <4>3. QED BY <2>5, <3>2, <4>1, <4>2
    <3> HIDE DEF w
    <3>5. Places(at, v[k], q, k, T)
      BY <2>1, <3>1, <3>3, <3>4 DEF Places
    <3>6. QED BY <2>2, <3>5
  <2>6. QED BY <2>4, <2>5
<1>5. 0 .. n \subseteq S
  <2> HIDE DEF S
  <2>1. QED BY <1>1, <1>3, <1>4, InductionUpTo
<1>6. n \in 0 .. n
  BY <1>1
<1>7. QED BY <1>2, <1>5, <1>6
\* `R` is a strict total order of `S`.
Orders(R, S) ==
    /\ \A x \in S : <<x, x>> \notin R
    /\ \A x, y, z \in S : <<x, y>> \in R /\ <<y, z>> \in R => <<x, z>> \in R
    /\ \A x, y \in S : x # y => <<x, y>> \in R \/ <<y, x>> \in R

\* `q` lists `S`, each member once, in the order of `R`.
IsRanking(q, S, R) ==
    /\ q \in Seq(S) /\ Len(q) = Cardinality(S)
    /\ \A x \in S : \E n \in 1 .. Len(q) : q[n] = x
    /\ \A m, n \in 1 .. Len(q) : <<q[m], q[n]>> \in R <=> m < n
    /\ \A m, n \in 1 .. Len(q) : q[m] = q[n] => m = n

\* Putting each at the place that as many as come before it leave it sorts a finite set:
\* what `ranked` is for, whenever the order leaves no two undecided.
LEMMA CountingSorts ==
    ASSUME NEW S, IsFiniteSet(S), NEW R, Orders(R, S)
    PROVE  IsRanking([n \in 1 .. Cardinality(S) |-> CHOOSE x \in S : Cardinality({y \in S : <<y, x>> \in R}) = n - 1],
                 S, R)
<1> DEFINE N == Cardinality(S)
           before(x) == {y \in S : <<y, x>> \in R}
           r(x) == Cardinality(before(x))
           q == [n \in 1 .. N |-> CHOOSE x \in S : r(x) = n - 1]
<1>1. N \in Nat
  BY FS_CardinalityType
<1>2. ASSUME NEW x \in S PROVE IsFiniteSet(before(x)) /\ r(x) \in 0 .. N - 1
  <2>1. IsFiniteSet(before(x))
    <3>1. before(x) \in SUBSET S
      OBVIOUS
    <3>2. QED BY <3>1, FS_Subset
  <2>2. r(x) \in Nat
    BY <2>1, FS_CardinalityType
  <2>3. IsFiniteSet(S \ {x}) /\ Cardinality(S \ {x}) = N - 1
    BY FS_RemoveElement
  <2>4. before(x) \in SUBSET (S \ {x})
    BY DEF Orders
  <2>5. r(x) <= N - 1
    <3> HIDE DEF before, N
    <3>1. QED BY <2>3, <2>4, FS_Subset
  <2>6. QED BY <1>1, <2>1, <2>2, <2>5
<1>3. ASSUME NEW x \in S, NEW y \in S, <<x, y>> \in R PROVE r(x) < r(y)
  <2>1. before(x) \cup {x} \in SUBSET before(y) /\ x \notin before(x)
    BY <1>3 DEF Orders
  <2>2. Cardinality(before(x) \cup {x}) = r(x) + 1
    <3> HIDE DEF before
    <3>1. QED BY <1>2, <2>1, FS_AddElement
  <2>3. Cardinality(before(x) \cup {x}) <= r(y)
    <3> HIDE DEF before
    <3>1. QED BY <1>2, <2>1, FS_Subset
  <2>4. r(x) \in Nat /\ r(y) \in Nat
    BY <1>1, <1>2
  <2> HIDE DEF r, before
  <2>5. QED BY <2>2, <2>3, <2>4 DEF r
<1>4. \A x, y \in S : <<x, y>> \in R <=> r(x) < r(y)
  <2>1. SUFFICES ASSUME NEW x \in S, NEW y \in S, r(x) < r(y) PROVE <<x, y>> \in R
    BY <1>3
  <2>2. r(x) \in Nat /\ r(y) \in Nat
    BY <1>1, <1>2
  <2> HIDE DEF r, before
  <2>3. ~ (r(y) < r(x)) /\ x # y
    BY <2>1, <2>2
  <2>4. <<y, x>> \notin R
    BY <1>3, <2>3
  <2>5. QED BY <2>3, <2>4 DEF Orders
<1>5. \A x, y \in S : r(x) = r(y) => x = y
  <2>1. \A x, y \in S : r(x) = r(y) => ~ (r(x) < r(y)) /\ ~ (r(y) < r(x))
    <3>1. \A x \in S : r(x) \in Nat
      BY <1>1, <1>2
    <3> HIDE DEF r
    <3>2. QED BY <3>1
  <2> HIDE DEF r
  <2>2. QED BY <1>4, <2>1 DEF Orders
<1>6. ASSUME NEW n \in 1 .. N PROVE \E x \in S : r(x) = n - 1
  <2> DEFINE f == [x \in S |-> r(x)]
             I == 0 .. N - 1
  <2>1. IsFiniteSet(I) /\ Cardinality(I) = N
    <3>1. 0 \in Int /\ N - 1 \in Int
      BY <1>1
    <3> HIDE DEF N
    <3>2. IsFiniteSet(I) /\ Cardinality(I) = IF 0 > N - 1 THEN 0 ELSE (N - 1) - 0 + 1
      BY <3>1, FS_Interval
    <3>3. QED BY <1>1, <3>2
  <2>2. f \in Injection(S, I)
    <3>1. f \in [S -> I]
      <4> HIDE DEF r
      <4>1. QED BY <1>2
    <3>2. IsInjective(f)
      <4> HIDE DEF r
      <4>1. QED BY <1>5 DEF IsInjective
    <3>3. QED BY <3>1, <3>2 DEF Injection
  <2>3. f \in Surjection(S, I)
    <3> HIDE DEF f, I, N
    <3>1. Cardinality(S) = Cardinality(I)
      BY <2>1 DEF N
    <3>2. QED BY <2>1, <2>2, <3>1, FS_Injection
  <2>4. n - 1 \in I
    BY <1>1
  <2>5. QED BY <2>3, <2>4 DEF Surjection
<1>7. \A n \in 1 .. N : q[n] \in S /\ r(q[n]) = n - 1
  <2> HIDE DEF r
  <2>1. QED BY <1>6
<1>8. q \in Seq(S) /\ Len(q) = N
  <2> HIDE DEF r
  <2>1. q \in [1 .. N -> S]
    BY <1>7
  <2> HIDE DEF q, N
  <2>2. QED BY <1>1, <2>1
<1>9. \A x \in S : \E n \in 1 .. N : q[n] = x
  <2>1. SUFFICES ASSUME NEW x \in S PROVE \E n \in 1 .. N : q[n] = x
    OBVIOUS
  <2>2. r(x) + 1 \in 1 .. N /\ (r(x) + 1) - 1 = r(x)
    <3>1. r(x) \in 0 .. N - 1
      BY <1>2
    <3> HIDE DEF r, N
    <3>2. QED BY <1>1, <3>1
  <2>3. q[r(x) + 1] \in S /\ r(q[r(x) + 1]) = r(x)
    <3> HIDE DEF r, q
    <3>1. QED BY <1>7, <2>2
  <2> HIDE DEF r, q
  <2>4. QED BY <1>5, <2>2, <2>3
<1>10. \A m, n \in 1 .. N : (<<q[m], q[n]>> \in R <=> m < n) /\ (q[m] = q[n] => m = n)
  <2> HIDE DEF r, q
  <2>1. QED BY <1>1, <1>4, <1>7
<1>11. IsRanking(q, S, R)
  <2> HIDE DEF q
  <2>1. QED BY <1>8, <1>9, <1>10 DEF IsRanking
<1>12. QED BY <1>11
----------------------------------------------------------------------------
(* Recall (core/memory/rrf.ts, recall.ts): the two searches fused, and the context put  *)
(* together, are what the reference has.                                               *)

ScaleSteps(v) == v[0] = 1 /\ \A k \in 1 .. semanticTopK : v[k] = v[k - 1] * (60 + k)

\* The unit of the scores, one rank after the other.
LEMMA ScaleTable == \E v \in [0 .. semanticTopK -> Nat] : ScaleSteps(v) /\ v[semanticTopK] = Scale
<1> DEFINE n == semanticTopK
           D == Nat
           G == [p \in (1 .. n) \X D |-> p[2] * (60 + p[1])]
           q == [r \in 1 .. n |-> r]
           Solves(h) == h = [s \in SUBSET DOMAIN q |->
                                IF s = {} THEN 1 ELSE h[s \ {Max(s)}] * (DEFAULT_K + q[Max(s)])]
           iter == CHOOSE h : Solves(h)
<1>1. n \in Nat /\ DOMAIN q = 1 .. n /\ DEFAULT_K = 60
  BY RecallAssumption DEF DEFAULT_K
<1>2. 1 \in D /\ G \in [(1 .. n) \X D -> D]
  BY <1>1
<1>3. \A k \in 1 .. n, d \in D : G[<<k, d>>] = d * (60 + k)
  OBVIOUS
<1>4. \A s \in SUBSET (1 .. n) : s # {} => Max(s) \in 1 .. n
  BY <1>1, MaxUpTo
<1>5. PICK h \in [SUBSET (1 .. n) -> D] : Folds(h, n, 1, G)
  <2> HIDE DEF n, D, G
  <2>1. QED BY <1>1, <1>2, FoldTable, Zenon
<1>6. Solves(h)
  <2>1. h[{}] = 1 /\ \A s \in SUBSET (1 .. n) : s # {} => h[s] = G[<<Max(s), h[s \ {Max(s)}]>>]
    BY <1>5 DEF Folds
  <2>2. \A s \in SUBSET (1 .. n) : h[s \ {Max(s)}] \in D
    BY <1>5
  <2> HIDE DEF G, D
  <2>3. \A s \in SUBSET (1 .. n) : h[s] = IF s = {} THEN 1 ELSE h[s \ {Max(s)}] * (DEFAULT_K + q[Max(s)])
    BY <1>1, <1>3, <1>4, <2>1, <2>2
  <2>4. QED BY <1>1, <1>5, <2>3
<1>7. Solves(iter)
  <2> HIDE DEF Solves
  <2>1. QED BY <1>6
<1>8. Scale = iter[1 .. n]
  BY <1>1 DEF Scale, FoldLeft, MapThenFoldSet
<1> HIDE DEF iter
<1>9. iter[{}] = 1
  BY <1>7
<1>10. Unfolds(iter, n, D, 1, G)
  <2> HIDE DEF G, D
  <2>1. QED BY <1>1, <1>3, <1>4, <1>7, <1>9 DEF Unfolds
<1>11. PICK v \in [0 .. n -> D] : Steps(v, n, 1, G, Scale)
  <2> HIDE DEF n, D, G
  <2>1. QED BY <1>1, <1>2, <1>8, <1>10, FoldValues, Zenon
<1>12. \A k \in 1 .. n : v[k - 1] \in D
  <2>1. \A k \in 1 .. n : k - 1 \in 0 .. n
    BY <1>1
  <2> HIDE DEF n, D
  <2>2. QED BY <1>11, <2>1
<1> HIDE DEF G
<1>13. QED BY <1>1, <1>3, <1>11, <1>12 DEF Steps, ScaleSteps

\* What a place in a ranking is worth: less than the place before it, and two of the last
\* places are worth more than the first.
worth(rank) == Scale \div (DEFAULT_K + rank)

\* ... for as many places as recall asks for: this is why the reference needs no score.
LEMMA WorthFalls ==
    /\ \A r \in 1 .. semanticTopK : worth(r) \in Nat /\ worth(r) > 0
    /\ \A r, s \in 1 .. semanticTopK : r < s => worth(r) > worth(s)
    /\ \A r, s, t \in 1 .. semanticTopK : worth(r) + worth(s) > worth(t)
<1>1. PICK v \in [0 .. semanticTopK -> Nat] : ScaleSteps(v) /\ v[semanticTopK] = Scale
  BY ScaleTable
<1>2. \A r \in 1 .. semanticTopK : worth(r) = Scale \div (60 + r)
  BY DEF worth, DEFAULT_K
<1>3. semanticTopK \in {1, 2, 3, 4, 5}
  BY RecallAssumption
<1>4. CASE semanticTopK = 1
  <2>1. Scale = 61
    BY <1>1, <1>4 DEF ScaleSteps
  <2>2. worth(1) = 1
    BY <1>2, <1>4, <2>1
  <2>3. QED BY <1>4, <2>2
<1>5. CASE semanticTopK = 2
  <2>1. v[0] = 1 /\ v[1] = v[0] * 61 /\ v[2] = v[1] * 62
    BY <1>1, <1>5 DEF ScaleSteps
  <2>2. Scale = 3782
    BY <1>1, <1>5, <2>1
  <2>3. worth(1) = 62 /\ worth(2) = 61
    BY <1>2, <1>5, <2>2
  <2>4. QED BY <1>5, <2>3
<1>6. CASE semanticTopK = 3
  <2>1. v[0] = 1 /\ v[1] = v[0] * 61 /\ v[2] = v[1] * 62 /\ v[3] = v[2] * 63
    BY <1>1, <1>6 DEF ScaleSteps
  <2>2. Scale = 238266
    BY <1>1, <1>6, <2>1
  <2>3. worth(1) = 3906 /\ worth(2) = 3843 /\ worth(3) = 3782
    BY <1>2, <1>6, <2>2
  <2>4. QED BY <1>6, <2>3
<1>7. CASE semanticTopK = 4
  <2>1. v[0] = 1 /\ v[1] = v[0] * 61 /\ v[2] = v[1] * 62 /\ v[3] = v[2] * 63 /\ v[4] = v[3] * 64
    BY <1>1, <1>7 DEF ScaleSteps
  <2>2. Scale = 15249024
    BY <1>1, <1>7, <2>1
  <2>3. worth(1) = 249984 /\ worth(2) = 245952 /\ worth(3) = 242048 /\ worth(4) = 238266
    BY <1>2, <1>7, <2>2
  <2>4. QED BY <1>7, <2>3
<1>8. CASE semanticTopK = 5
  <2>1. /\ v[0] = 1 /\ v[1] = v[0] * 61 /\ v[2] = v[1] * 62 /\ v[3] = v[2] * 63
        /\ v[4] = v[3] * 64 /\ v[5] = v[4] * 65
    BY <1>1, <1>8 DEF ScaleSteps
  <2>2. Scale = 991186560
    BY <1>1, <1>8, <2>1
  <2>3. /\ worth(1) = 16248960 /\ worth(2) = 15986880 /\ worth(3) = 15733120
        /\ worth(4) = 15487290 /\ worth(5) = 15249024
    BY <1>2, <1>8, <2>2
  <2>4. QED BY <1>8, <2>3
<1>9. QED BY <1>3, <1>4, <1>5, <1>6, <1>7, <1>8

\* A place in a list is a place of what is looked for.
LEMMA RankInList ==
    ASSUME NEW B, NEW q \in Seq(B), NEW id, Contains(q, id)
    PROVE  rankIn(q, id) \in 1 .. Len(q) /\ q[rankIn(q, id)] = id
<1>1. DOMAIN q = 1 .. Len(q)
  OBVIOUS
<1>2. \E n \in DOMAIN q : q[n] = id
  BY <1>1 DEF Contains
<1>3. QED BY <1>1, <1>2 DEF rankIn

\* A list contains what is among its elements.
LEMMA ListHolds ==
    ASSUME NEW B, NEW q \in Seq(B), NEW id
    PROVE  Contains(q, id) <=> id \in ToSet(q)
BY DEF Contains, ToSet

\* The result of a search is a list of events, none of them twice.
LEMMA RankingIsList ==
    ASSUME NEW q \in Rankings
    PROVE  q \in Seq(Ids) /\ Len(q) \in 0 .. semanticTopK /\ \A m, n \in 1 .. Len(q) : q[m] = q[n] => m = n
<1>1. PICK m \in 0 .. semanticTopK : q \in [1 .. m -> Ids]
  BY DEF Rankings, SeqOf
<1>2. m \in Nat /\ semanticTopK \in Nat
  BY RecallAssumption
<1>3. q \in Seq(Ids) /\ Len(q) = m /\ DOMAIN q = 1 .. m
  BY <1>1, <1>2
<1>4. IsInjective(q)
  BY DEF Rankings
<1>5. QED BY <1>1, <1>2, <1>3, <1>4 DEF IsInjective

\* What a list adds to the score of an id.
LEMMA PointsOfPlace ==
    ASSUME NEW q \in Seq(Ids), Len(q) <= semanticTopK, NEW id
    PROVE  /\ points(q, id) \in Nat
           /\ Contains(q, id) => rankIn(q, id) \in 1 .. semanticTopK /\ points(q, id) = worth(rankIn(q, id))
           /\ ~ Contains(q, id) => points(q, id) = 0
<1>1. CASE Contains(q, id)
  <2>1. rankIn(q, id) \in 1 .. Len(q) /\ Len(q) \in Nat /\ semanticTopK \in Nat
    BY <1>1, RankInList, RecallAssumption
  <2>2. rankIn(q, id) \in 1 .. semanticTopK
    BY <2>1
  <2>3. points(q, id) = worth(rankIn(q, id))
    BY <1>1 DEF points, worth
  <2>4. QED BY <1>1, <2>2, <2>3, WorthFalls
<1>2. CASE ~ Contains(q, id)
  BY <1>2 DEF points
<1>3. QED BY <1>1, <1>2

\* Who is ahead in a list of all it holds of the other gets no fewer points from it.
LEMMA PointsCompared ==
    ASSUME NEW q \in Seq(Ids), Len(q) <= semanticTopK, NEW a, NEW b,
           Contains(q, b) => Contains(q, a) /\ rankIn(q, a) < rankIn(q, b)
    PROVE  points(q, a) >= points(q, b) /\ (Contains(q, b) => points(q, a) > points(q, b))
<1>1. points(q, a) \in Nat /\ points(q, b) \in Nat
  BY PointsOfPlace
<1>2. CASE Contains(q, b)
  <2>1. /\ rankIn(q, a) \in 1 .. semanticTopK /\ points(q, a) = worth(rankIn(q, a))
        /\ rankIn(q, b) \in 1 .. semanticTopK /\ points(q, b) = worth(rankIn(q, b))
    BY <1>2, PointsOfPlace
  <2>2. points(q, a) > points(q, b)
    BY <1>2, <2>1, WorthFalls
  <2>3. QED BY <1>1, <2>2
<1>3. CASE ~ Contains(q, b)
  BY <1>1, <1>3, PointsOfPlace
<1>4. QED BY <1>2, <1>3

\* In how many of the two searches an id has been found.
LEMMA FoundCount ==
    ASSUME NEW s, NEW k, NEW id
    PROVE  Cardinality(foundBy(s, k, id)) = (IF Contains(s, id) THEN 1 ELSE 0) + (IF Contains(k, id) THEN 1 ELSE 0)
<1> DEFINE a == <<1, s>>
           b == <<2, k>>
<1>1. a # b /\ a[2] = s /\ b[2] = k
  OBVIOUS
<1>2. /\ IsFiniteSet({}) /\ Cardinality({}) = 0
      /\ IsFiniteSet({a}) /\ Cardinality({a}) = 1 /\ Cardinality({b}) = 1
      /\ Cardinality({a} \cup {b}) = 2
  <2>1. IsFiniteSet({a}) /\ Cardinality({a}) = 1 /\ Cardinality({b}) = 1
    BY FS_Singleton
  <2>2. b \notin {a}
    BY <1>1
  <2> HIDE DEF a, b
  <2>3. Cardinality({a} \cup {b}) = 2
    BY <2>1, <2>2, FS_AddElement
  <2>4. QED BY <2>1, <2>3, FS_EmptySet
<1>3. foundBy(s, k, id) = {q \in {a, b} : Contains(q[2], id)}
  BY DEF foundBy
<1> HIDE DEF a, b
<1>4. CASE Contains(s, id) /\ Contains(k, id)
  <2>1. foundBy(s, k, id) = {a} \cup {b}
    BY <1>1, <1>3, <1>4
  <2>2. QED BY <1>2, <1>4, <2>1
<1>5. CASE Contains(s, id) /\ ~ Contains(k, id)
  <2>1. foundBy(s, k, id) = {a}
    BY <1>1, <1>3, <1>5
  <2>2. QED BY <1>2, <1>5, <2>1
<1>6. CASE ~ Contains(s, id) /\ Contains(k, id)
  <2>1. foundBy(s, k, id) = {b}
    BY <1>1, <1>3, <1>6
  <2>2. QED BY <1>2, <1>6, <2>1
<1>7. CASE ~ Contains(s, id) /\ ~ Contains(k, id)
  <2>1. foundBy(s, k, id) = {}
    BY <1>1, <1>3, <1>7
  <2>2. QED BY <1>2, <1>7, <2>1
<1>8. QED BY <1>4, <1>5, <1>6, <1>7

\* What the reference prefers has the higher score.
LEMMA BetterScoresHigher ==
    ASSUME NEW s \in Seq(Ids), Len(s) <= semanticTopK, NEW k \in Seq(Ids), Len(k) <= semanticTopK,
           NEW a, NEW b, Contains(s, b) \/ Contains(k, b), betterOf(s, k, a, b)
    PROVE  points(s, a) + points(k, a) > points(s, b) + points(k, b)
<1>1. points(s, a) \in Nat /\ points(k, a) \in Nat /\ points(s, b) \in Nat /\ points(k, b) \in Nat
  BY PointsOfPlace
<1>2. CASE dominates(s, k, a, b)
  <2>1. Contains(s, b) => Contains(s, a) /\ rankIn(s, a) < rankIn(s, b)
    <3>1. ASSUME Contains(s, b) PROVE <<1, s>> \in foundBy(s, k, b) /\ <<1, s>>[2] = s
      BY <3>1 DEF foundBy
    <3>2. QED BY <1>2, <3>1 DEF dominates
  <2>2. Contains(k, b) => Contains(k, a) /\ rankIn(k, a) < rankIn(k, b)
    <3>1. ASSUME Contains(k, b) PROVE <<2, k>> \in foundBy(s, k, b) /\ <<2, k>>[2] = k
      BY <3>1 DEF foundBy
    <3>2. QED BY <1>2, <3>1 DEF dominates
  <2>3. points(s, a) >= points(s, b) /\ (Contains(s, b) => points(s, a) > points(s, b))
    BY <2>1, PointsCompared
  <2>4. points(k, a) >= points(k, b) /\ (Contains(k, b) => points(k, a) > points(k, b))
    BY <2>2, PointsCompared
  <2>5. QED BY <1>1, <2>3, <2>4
<1>3. CASE Cardinality(foundBy(s, k, a)) > Cardinality(foundBy(s, k, b))
  <2>1. Contains(s, a) /\ Contains(k, a) /\ ~ (Contains(s, b) /\ Contains(k, b))
    BY <1>3, FoundCount
  <2>2. /\ rankIn(s, a) \in 1 .. semanticTopK /\ points(s, a) = worth(rankIn(s, a))
        /\ rankIn(k, a) \in 1 .. semanticTopK /\ points(k, a) = worth(rankIn(k, a))
    BY <2>1, PointsOfPlace
  <2>3. CASE Contains(s, b)
    <3>1. rankIn(s, b) \in 1 .. semanticTopK /\ points(s, b) = worth(rankIn(s, b)) /\ points(k, b) = 0
      BY <2>1, <2>3, PointsOfPlace
    <3>2. QED BY <1>1, <2>2, <3>1, WorthFalls
  <2>4. CASE Contains(k, b)
    <3>1. rankIn(k, b) \in 1 .. semanticTopK /\ points(k, b) = worth(rankIn(k, b)) /\ points(s, b) = 0
      BY <2>1, <2>4, PointsOfPlace
    <3>2. QED BY <1>1, <2>2, <3>1, WorthFalls
  <2>5. QED BY <2>3, <2>4
<1>4. QED BY <1>2, <1>3 DEF betterOf

\* What is left of a list, as a set.
LEMMA WithinRange ==
    ASSUME NEW B, NEW q \in Seq(B), NEW T
    PROVE  ToSet(within(q, T)) = ToSet(q) \cap T
<1>1. PICK at : Places(at, within(q, T), q, Len(q), T)
  BY WithinPlaces
<1>2. within(q, T) \in Seq(B)
  BY WithinPlaces
<1> DEFINE w == within(q, T)
<1>3. ToSet(w) = {w[i] : i \in 1 .. Len(w)} /\ ToSet(q) = {q[i] : i \in 1 .. Len(q)}
  BY <1>2 DEF ToSet
<1>4. \A i \in 1 .. Len(w) : at[i] \in 1 .. Len(q) /\ w[i] = q[at[i]]
  BY <1>1 DEF Places
<1>5. \A i \in 1 .. Len(q) : q[i] \in T <=> \E j \in 1 .. Len(w) : at[j] = i
  BY <1>1 DEF Places
<1> HIDE DEF w
<1>6. ASSUME NEW x \in ToSet(w) PROVE x \in ToSet(q) \cap T
  <2>1. PICK i \in 1 .. Len(w) : x = w[i]
    BY <1>3
  <2>2. QED BY <1>3, <1>4, <1>5, <2>1
<1>7. ASSUME NEW x \in ToSet(q) \cap T PROVE x \in ToSet(w)
  <2>1. PICK i \in 1 .. Len(q) : x = q[i]
    BY <1>3
  <2>2. PICK j \in 1 .. Len(w) : at[j] = i
    BY <1>5, <1>7, <2>1
  <2>3. QED BY <1>3, <1>4, <2>1, <2>2
<1>8. QED BY <1>6, <1>7 DEF w

\* A list holds finitely many.
LEMMA ListIsFinite ==
    ASSUME NEW B, NEW q \in Seq(B)
    PROVE  IsFiniteSet(ToSet(q)) /\ ToSet(q) \subseteq B
<1>1. Len(q) \in Nat /\ DOMAIN q = 1 .. Len(q) /\ \A i \in 1 .. Len(q) : q[i] \in B
  OBVIOUS
<1>2. q \in Surjection(1 .. Len(q), ToSet(q))
  BY <1>1 DEF Surjection, ToSet
<1>3. QED BY <1>1, <1>2, FS_NatSurjection DEF ExistsSurjection, ToSet

\* The order of the fused ranking, as a set of pairs.
fused(one, other) == one \o within(other, ToSet(other) \ ToSet(one))

scoreOf(one, other, id) == points(one, id) + points(other, id)

FusedOrder(one, other) ==
    {p \in (ToSet(one) \cup ToSet(other)) \X (ToSet(one) \cup ToSet(other)) :
        \/ scoreOf(one, other, p[1]) > scoreOf(one, other, p[2])
        \/ /\ scoreOf(one, other, p[1]) = scoreOf(one, other, p[2])
           /\ rankIn(fused(one, other), p[1]) < rankIn(fused(one, other), p[2])}

\* reciprocalRankFusion ranks all that either search has found, whatever they found.
LEMMA FusionRanks ==
    ASSUME NEW one \in Seq(Ids), Len(one) <= semanticTopK, NEW other \in Seq(Ids), Len(other) <= semanticTopK
    PROVE  IsRanking(reciprocalRankFusion(one, other), ToSet(one) \cup ToSet(other), FusedOrder(one, other))
<1> DEFINE F == ToSet(one) \cup ToSet(other)
           met == fused(one, other)
           R == FusedOrder(one, other)
           sc(id) == scoreOf(one, other, id)
           score == [id \in ToSet(met) |-> points(one, id) + points(other, id)]
<1>1. met \in Seq(Ids) /\ ToSet(met) = F
  <2> DEFINE w == within(other, ToSet(other) \ ToSet(one))
  <2>1. w \in Seq(Ids) /\ ToSet(w) = ToSet(other) \cap (ToSet(other) \ ToSet(one))
    BY WithinPlaces, WithinRange
  <2> HIDE DEF w
  <2>2. met = one \o w
    BY DEF fused, w
  <2>3. Range(met) = Range(one) \cup Range(w)
    BY <2>1, <2>2, RangeConcatenation
  <2>4. met \in Seq(Ids)
    BY <2>1, <2>2
  <2>5. QED BY <2>1, <2>3, <2>4 DEF Range, ToSet
<1>2. IsFiniteSet(F)
  BY <1>1, ListIsFinite
<1>3. \A id : sc(id) \in Nat
  BY PointsOfPlace DEF scoreOf
<1>4. \A id \in F : rankIn(met, id) \in Nat /\ met[rankIn(met, id)] = id
  <2>1. SUFFICES ASSUME NEW id \in F PROVE rankIn(met, id) \in Nat /\ met[rankIn(met, id)] = id
    OBVIOUS
  <2> HIDE DEF met, F
  <2>2. Contains(met, id)
    BY <1>1, ListHolds
  <2>3. rankIn(met, id) \in 1 .. Len(met) /\ met[rankIn(met, id)] = id
    BY <1>1, <2>2, RankInList
  <2>4. QED BY <2>3
<1>5. \A x, y \in F :
         <<x, y>> \in R <=> (sc(x) > sc(y) \/ (sc(x) = sc(y) /\ rankIn(met, x) < rankIn(met, y)))
  BY DEF FusedOrder
<1>6. Orders(R, F)
  <2> HIDE DEF R, F, met, sc
  <2>1. \A x \in F : <<x, x>> \notin R
    BY <1>3, <1>4, <1>5
  <2>2. \A x, y, z \in F : <<x, y>> \in R /\ <<y, z>> \in R => <<x, z>> \in R
    BY <1>3, <1>4, <1>5
  <2>3. \A x, y \in F : x # y => <<x, y>> \in R \/ <<y, x>> \in R
    <3>1. SUFFICES ASSUME NEW x \in F, NEW y \in F, x # y PROVE <<x, y>> \in R \/ <<y, x>> \in R
      OBVIOUS
    <3>2. rankIn(met, x) # rankIn(met, y)
      BY <1>4, <3>1
    <3>3. /\ sc(x) \in Nat /\ sc(y) \in Nat
          /\ rankIn(met, x) \in Nat /\ rankIn(met, y) \in Nat
      BY <1>3, <1>4
    <3>4. QED BY <1>5, <3>2, <3>3
  <2>4. QED BY <2>1, <2>2, <2>3 DEF Orders
<1>7. reciprocalRankFusion(one, other) =
        [n \in 1 .. Cardinality(F) |-> CHOOSE x \in F : Cardinality({y \in F : <<y, x>> \in R}) = n - 1]
  <2>1. reciprocalRankFusion(one, other) =
          [n \in 1 .. Cardinality(ToSet(met)) |->
             CHOOSE x \in ToSet(met) :
                Cardinality({y \in ToSet(met) :
                                score[y] > score[x]
                                \/ (score[y] = score[x] /\ rankIn(met, y) < rankIn(met, x))}) = n - 1]
    BY DEF reciprocalRankFusion, ranked, fused
  <2>2. \A x \in F : score[x] = sc(x)
    BY <1>1 DEF scoreOf
  <2> HIDE DEF score, sc, R, F, met
  <2>3. \A x \in F : {y \in F : <<y, x>> \in R} =
                     {y \in F : score[y] > score[x]
                                \/ (score[y] = score[x] /\ rankIn(met, y) < rankIn(met, x))}
    BY <1>5, <2>2
  <2>4. QED BY <1>1, <2>1, <2>3
<1>8. QED
  <2> HIDE DEF R, F
  <2>1. IsRanking(reciprocalRankFusion(one, other), F, R)
    BY <1>2, <1>6, <1>7, CountingSorts
  <2>2. QED BY <2>1 DEF F, R

\* The smaller of two.
LEMMA MinOfTwo ==
    ASSUME NEW a \in Nat, NEW b \in Nat
    PROVE  Min({a, b}) = IF a <= b THEN a ELSE b
<1>1. Min({a, b}) \in {a, b} /\ Min({a, b}) <= a /\ Min({a, b}) <= b
  BY MinIsLeast
<1>2. QED BY <1>1

\* `w` lists `U`, each member once, in the order of `R`.
IsListing(w, S, U, R) ==
    /\ w \in Seq(S) /\ Len(w) = Cardinality(U)
    /\ \A x \in U : \E n \in 1 .. Len(w) : w[n] = x
    /\ \A n \in 1 .. Len(w) : w[n] \in U
    /\ \A m, n \in 1 .. Len(w) : (<<w[m], w[n]>> \in R <=> m < n) /\ (w[m] = w[n] => m = n)

\* What is left of a ranking of `S` lists what is left of `S` in the same order.
LEMMA WithinRanking ==
    ASSUME NEW S, IsFiniteSet(S), NEW R, NEW q, IsRanking(q, S, R), NEW T
    PROVE  IsListing(within(q, T), S, S \cap T, R)
<1> DEFINE w == within(q, T)
<1>1. q \in Seq(S)
  BY DEF IsRanking
<1>2. w \in Seq(S) /\ Len(w) \in Nat
  BY <1>1, WithinPlaces
<1>3. PICK at : Places(at, w, q, Len(q), T)
  BY <1>1, WithinPlaces
<1>4. /\ \A i \in 1 .. Len(w) : at[i] \in 1 .. Len(q) /\ at[i] \in Nat /\ w[i] = q[at[i]]
      /\ \A i, j \in 1 .. Len(w) : i < j => at[i] < at[j]
      /\ \A i \in 1 .. Len(q) : q[i] \in T <=> \E j \in 1 .. Len(w) : at[j] = i
  BY <1>3 DEF Places
<1> HIDE DEF w
<1>5. \A n \in 1 .. Len(w) : w[n] \in S \cap T
  <2>1. \A i \in 1 .. Len(q) : q[i] \in S
    BY <1>1
  <2>2. SUFFICES ASSUME NEW n \in 1 .. Len(w) PROVE w[n] \in S \cap T
    OBVIOUS
  <2>3. at[n] \in 1 .. Len(q) /\ w[n] = q[at[n]]
    BY <1>4
  <2>4. q[at[n]] \in T
    BY <1>4, <2>3, Zenon
  <2>5. QED BY <2>1, <2>3, <2>4
<1>6. \A x \in S \cap T : \E n \in 1 .. Len(w) : w[n] = x
  <2>1. SUFFICES ASSUME NEW x \in S \cap T PROVE \E n \in 1 .. Len(w) : w[n] = x
    OBVIOUS
  <2>2. PICK i \in 1 .. Len(q) : q[i] = x
    BY DEF IsRanking
  <2>3. PICK j \in 1 .. Len(w) : at[j] = i
    BY <1>4, <2>2
  <2>4. QED BY <1>4, <2>2, <2>3
<1>7. \A m, n \in 1 .. Len(w) : m < n <=> at[m] < at[n]
  <2>1. SUFFICES ASSUME NEW m \in 1 .. Len(w), NEW n \in 1 .. Len(w), at[m] < at[n] PROVE m < n
    BY <1>4
  <2>2. at[m] \in Nat /\ at[n] \in Nat /\ (n < m => at[n] < at[m]) /\ (m = n => at[m] = at[n])
    BY <1>4
  <2>3. ~ (n < m) /\ m # n
    BY <2>1, <2>2
  <2>4. QED BY <1>2, <2>3
<1>8. \A m, n \in 1 .. Len(w) : (<<w[m], w[n]>> \in R <=> m < n) /\ (w[m] = w[n] => m = n)
  <2>1. SUFFICES ASSUME NEW m \in 1 .. Len(w), NEW n \in 1 .. Len(w)
                 PROVE  (<<w[m], w[n]>> \in R <=> m < n) /\ (w[m] = w[n] => m = n)
    OBVIOUS
  <2>2. at[m] \in 1 .. Len(q) /\ at[n] \in 1 .. Len(q) /\ w[m] = q[at[m]] /\ w[n] = q[at[n]]
    BY <1>4
  <2>3. (<<w[m], w[n]>> \in R <=> at[m] < at[n]) /\ (w[m] = w[n] => at[m] = at[n])
    BY <2>2 DEF IsRanking
  <2>4. at[m] = at[n] => m = n
    <3>1. at[m] = at[n] => ~ (at[m] < at[n]) /\ ~ (at[n] < at[m])
      BY <2>2
    <3>2. QED BY <1>2, <1>7, <3>1
  <2>5. QED BY <1>7, <2>3, <2>4
<1>9. Len(w) = Cardinality(S \cap T)
  <2>1. w \in [1 .. Len(w) -> S \cap T]
    BY <1>2, <1>5
  <2>2. w \in Bijection(1 .. Len(w), S \cap T)
    <3>1. w \in Injection(1 .. Len(w), S \cap T)
      BY <1>8, <2>1 DEF Injection, IsInjective
    <3>2. w \in Surjection(1 .. Len(w), S \cap T)
      BY <1>6, <2>1 DEF Surjection
    <3>3. QED BY <3>1, <3>2 DEF Bijection
  <2>3. ExistsBijection(1 .. Len(w), S \cap T)
    BY <2>2 DEF ExistsBijection
  <2>4. QED BY <1>2, <2>3, FS_CountingElements
<1>10. QED BY <1>2, <1>5, <1>6, <1>8, <1>9 DEF w, IsListing

\* What recall gives of the two searches is what the reference has.
LEMMA RecallRanks ==
    ASSUME NEW ranking \in Rankings, NEW keyword \in Rankings, NEW recent \in SUBSET Ids,
           NEW near \in 0 .. Len(ranking)
    PROVE  LET semantic == semanticSearch(ranking, near)
               found == (ToSet(semantic) \cup ToSet(keyword)) \ recent
               given == recallMatches(semantic, keyword, recent)
           IN  /\ IsInjective(given) /\ ToSet(given) \subseteq found
               /\ Len(given) = Min({Cardinality(found), semanticTopK})
               /\ \A a, b \in found :
                     betterOf(semantic, keyword, a, b) /\ Contains(given, b) =>
                         Contains(given, a) /\ rankIn(given, a) < rankIn(given, b)
<1> DEFINE semantic == semanticSearch(ranking, near)
           F == ToSet(semantic) \cup ToSet(keyword)
           found == F \ recent
           given == recallMatches(semantic, keyword, recent)
           R == FusedOrder(semantic, keyword)
           q == reciprocalRankFusion(semantic, keyword)
           w == within(q, Ids \ recent)
           c == Min({Len(w), semanticTopK})
<1>1. semantic \in Seq(Ids) /\ Len(semantic) <= semanticTopK
  <2>1. ranking \in Seq(Ids) /\ Len(ranking) \in 0 .. semanticTopK
    BY RankingIsList
  <2>2. near \in Int /\ near >= 0 /\ near <= Len(ranking) /\ Len(ranking) \in Nat /\ semanticTopK \in Nat
    BY <2>1, RecallAssumption
  <2>3. \A i \in 1 .. near : ranking[i] \in Ids
    BY <2>1, <2>2
  <2>4. /\ SubSeq(ranking, 1, near) \in Seq(Ids)
        /\ Len(SubSeq(ranking, 1, near)) = IF 1 <= near THEN near - 1 + 1 ELSE 0
    BY <2>2, <2>3, SubSeqProperties
  <2>5. QED BY <2>1, <2>2, <2>4 DEF semanticSearch
<1>2. keyword \in Seq(Ids) /\ Len(keyword) <= semanticTopK
  <2>1. keyword \in Seq(Ids) /\ Len(keyword) \in 0 .. semanticTopK
    BY RankingIsList
  <2>2. QED BY <2>1, RecallAssumption
<1>3. IsFiniteSet(F) /\ F \subseteq Ids
  <2>1. IsFiniteSet(ToSet(semantic)) /\ IsFiniteSet(ToSet(keyword)) /\ ToSet(semantic) \subseteq Ids /\ ToSet(keyword) \subseteq Ids
    BY <1>1, <1>2, ListIsFinite
  <2> HIDE DEF semantic
  <2>2. QED BY <2>1, FS_Union
<1> HIDE DEF semantic
<1>4. IsRanking(q, F, R)
  BY <1>1, <1>2, FusionRanks
<1>5. found = F \cap (Ids \ recent)
  BY <1>3
<1>6. /\ w \in Seq(F) /\ Len(w) = Cardinality(found)
      /\ \A x \in found : \E n \in 1 .. Len(w) : w[n] = x
      /\ \A n \in 1 .. Len(w) : w[n] \in found
      /\ \A m, n \in 1 .. Len(w) : (<<w[m], w[n]>> \in R <=> m < n) /\ (w[m] = w[n] => m = n)
  <2> HIDE DEF q, R, F, found
  <2>1. IsListing(within(q, Ids \ recent), F, F \cap (Ids \ recent), R)
    BY <1>3, <1>4, WithinRanking, Zenon
  <2>2. IsListing(w, F, found, R)
    BY <1>5, <2>1
  <2> HIDE DEF w
  <2>3. QED BY <2>2 DEF IsListing
<1> HIDE DEF q, R, w
<1>7. given = SubSeq(w, 1, c)
  BY DEF recallMatches, capped, w, q
<1>8. c \in Nat /\ c <= Len(w) /\ Len(w) \in Nat
  <2>1. Len(w) \in Nat /\ semanticTopK \in Nat
    BY <1>6, RecallAssumption
  <2>2. QED BY <2>1, MinOfTwo
<1> HIDE DEF c
<1>9. /\ given \in Seq(F) /\ Len(given) = c
      /\ \A i \in 1 .. c : given[i] = w[i] /\ i \in 1 .. Len(w)
  <2>1. c \in Int /\ 1 \in Int /\ \A i \in 1 .. c : i \in 1 .. Len(w) /\ w[i] \in F
    BY <1>6, <1>8
  <2> HIDE DEF F, given
  <2>2. /\ SubSeq(w, 1, c) \in Seq(F)
        /\ Len(SubSeq(w, 1, c)) = IF 1 <= c THEN c - 1 + 1 ELSE 0
        /\ \A i \in 1 .. c - 1 + 1 : SubSeq(w, 1, c)[i] = w[1 + i - 1]
    BY <2>1, SubSeqProperties
  <2>3. \A i \in 1 .. c : i \in 1 .. c - 1 + 1 /\ 1 + i - 1 = i
    BY <1>8
  <2>4. QED BY <1>7, <1>8, <2>1, <2>2, <2>3
<1> HIDE DEF given
<1>10. DOMAIN given = 1 .. c
  BY <1>9
<1>11. IsInjective(given)
  BY <1>6, <1>9, <1>10 DEF IsInjective
<1>12. ToSet(given) \subseteq found
  BY <1>6, <1>9, <1>10 DEF ToSet
<1>13. ASSUME NEW a \in found, NEW b \in found, betterOf(semantic, keyword, a, b), Contains(given, b)
       PROVE  Contains(given, a) /\ rankIn(given, a) < rankIn(given, b)
  <2>1. Contains(semantic, b) \/ Contains(keyword, b)
    BY <1>1, <1>2, ListHolds
  <2>2. scoreOf(semantic, keyword, a) > scoreOf(semantic, keyword, b)
    BY <1>1, <1>2, <1>13, <2>1, BetterScoresHigher DEF scoreOf
  <2>3. <<a, b>> \in R
    BY <2>2 DEF R, FusedOrder
  <2> HIDE DEF F
  <2>4. PICK i \in 1 .. Len(w) : w[i] = a
    BY <1>6
  <2>5. rankIn(given, b) \in 1 .. c /\ given[rankIn(given, b)] = b
    BY <1>9, <1>13, RankInList
  <2>6. i < rankIn(given, b)
    BY <1>6, <1>9, <2>3, <2>4, <2>5
  <2>7. i \in 1 .. c
    BY <1>8, <2>5, <2>6
  <2>8. Contains(given, a)
    BY <1>9, <2>4, <2>7 DEF Contains
  <2>9. rankIn(given, a) \in 1 .. c /\ given[rankIn(given, a)] = a
    BY <1>9, <2>8, RankInList
  <2>10. rankIn(given, a) = i
    BY <1>6, <1>9, <2>4, <2>9
  <2>11. QED BY <2>6, <2>8, <2>10
<1>14. Len(given) = Min({Cardinality(found), semanticTopK})
  BY <1>6, <1>9 DEF c
<1>15. QED BY <1>11, <1>12, <1>13, <1>14 DEF semantic, given

\* An element at the end of a list is kept or left out at the end of what is left of it.
LEMMA WithinAppend ==
    ASSUME NEW B, NEW q \in Seq(B), NEW x \in B, NEW T
    PROVE  within(Append(q, x), T) = IF x \in T THEN Append(within(q, T), x) ELSE within(q, T)
<1> DEFINE n == Len(q)
           p == Append(q, x)
<1>1. p \in Seq(B) /\ Len(p) = n + 1 /\ n \in Nat /\ p[n + 1] = x /\ \A k \in 1 .. n : p[k] = q[k]
  OBVIOUS
<1>2. PICK v : Selecting(v, q, T)
  BY WithinTable
<1>3. PICK u : Selecting(u, p, T)
  BY <1>1, WithinTable
<1>4. v[0] = u[0] /\ \A k \in 1 .. n : v[k - 1] = u[k - 1] => v[k] = u[k]
  BY <1>1, <1>2, <1>3 DEF Selecting
<1>5. v[n] = u[n]
  <2> HIDE DEF n
  <2>1. QED BY <1>1, <1>4, StepsAgree
<1>6. u[n + 1] = IF p[n + 1] \in T THEN Append(u[n], p[n + 1]) ELSE u[n]
  <2>1. n + 1 \in 1 .. Len(p) /\ (n + 1) - 1 = n
    BY <1>1
  <2> HIDE DEF n, p
  <2>2. QED BY <1>3, <2>1 DEF Selecting
<1>7. v[n] = within(q, T) /\ u[n + 1] = within(p, T)
  BY <1>1, <1>2, <1>3 DEF Selecting
<1> HIDE DEF n, p
<1>8. QED BY <1>1, <1>5, <1>6, <1>7 DEF p

\* Nothing is left of nothing.
LEMMA WithinEmpty == \A T : within(<<>>, T) = <<>>
<1>1. SUFFICES ASSUME NEW T PROVE within(<<>>, T) = <<>>
  OBVIOUS
<1>2. <<>> \in Seq({}) /\ Len(<<>>) = 0
  OBVIOUS
<1>3. PICK v : Selecting(v, <<>>, T)
  BY <1>2, WithinTable
<1>4. QED BY <1>2, <1>3 DEF Selecting

\* `lengthOf`, one piece after the other.
Measuring(v, q, size) ==
    /\ v[0] = 0
    /\ \A k \in 1 .. Len(q) : v[k] = v[k - 1] + size[q[k]] + 1
    /\ v[Len(q)] = lengthOf(q, size)

\* The length of the pieces, one after the other.
LEMMA LengthTable ==
    ASSUME NEW B, NEW q \in Seq(B), NEW size, \A x \in B : size[x] \in Nat
    PROVE  \E v \in [0 .. Len(q) -> Nat] : Measuring(v, q, size)
<1> DEFINE n == Len(q)
           D == Nat
           G == [p \in (1 .. n) \X D |-> p[2] + size[q[p[1]]] + 1]
           Solves(h) == h = [s \in SUBSET DOMAIN q |->
                                IF s = {} THEN 0 ELSE h[s \ {Max(s)}] + size[q[Max(s)]] + 1]
           iter == CHOOSE h : Solves(h)
<1>1. n \in Nat /\ DOMAIN q = 1 .. n /\ \A i \in 1 .. n : q[i] \in B /\ size[q[i]] \in Nat
  OBVIOUS
<1>2. 0 \in D /\ G \in [(1 .. n) \X D -> D]
  BY <1>1
<1>3. \A k \in 1 .. n, d \in D : G[<<k, d>>] = d + size[q[k]] + 1
  OBVIOUS
<1>4. \A s \in SUBSET (1 .. n) : s # {} => Max(s) \in 1 .. n
  BY <1>1, MaxUpTo
<1>5. PICK h \in [SUBSET (1 .. n) -> D] : Folds(h, n, 0, G)
  <2> HIDE DEF n, D, G
  <2>1. QED BY <1>1, <1>2, FoldTable, Zenon
<1>6. Solves(h)
  <2>1. h[{}] = 0 /\ \A s \in SUBSET (1 .. n) : s # {} => h[s] = G[<<Max(s), h[s \ {Max(s)}]>>]
    BY <1>5 DEF Folds
  <2>2. \A s \in SUBSET (1 .. n) : h[s \ {Max(s)}] \in D
    BY <1>5
  <2> HIDE DEF G, D
  <2>3. \A s \in SUBSET (1 .. n) : h[s] = IF s = {} THEN 0 ELSE h[s \ {Max(s)}] + size[q[Max(s)]] + 1
    BY <1>3, <1>4, <2>1, <2>2
  <2>4. QED BY <1>1, <1>5, <2>3
<1>7. Solves(iter)
  <2> HIDE DEF Solves
  <2>1. QED BY <1>6
<1>8. lengthOf(q, size) = iter[1 .. n]
  BY <1>1 DEF lengthOf, FoldLeft, MapThenFoldSet
<1> HIDE DEF iter
<1>9. iter[{}] = 0
  BY <1>7
<1>10. Unfolds(iter, n, D, 0, G)
  <2> HIDE DEF G, D
  <2>1. QED BY <1>1, <1>3, <1>4, <1>7, <1>9 DEF Unfolds
<1>11. PICK v \in [0 .. n -> D] : Steps(v, n, 0, G, lengthOf(q, size))
  <2> HIDE DEF n, D, G
  <2>1. QED BY <1>1, <1>2, <1>8, <1>10, FoldValues, Zenon
<1>12. \A k \in 1 .. n : v[k - 1] \in D
  <2>1. \A k \in 1 .. n : k - 1 \in 0 .. n
    BY <1>1
  <2> HIDE DEF n, D
  <2>2. QED BY <1>11, <2>1
<1> HIDE DEF G
<1>13. QED BY <1>1, <1>3, <1>11, <1>12 DEF Steps, Measuring

\* One more piece makes the text longer by it and a newline.
LEMMA LengthOfAppend ==
    ASSUME NEW B, NEW q \in Seq(B), NEW x \in B, NEW size, \A y \in B : size[y] \in Nat
    PROVE  lengthOf(Append(q, x), size) = lengthOf(q, size) + size[x] + 1 /\ lengthOf(q, size) \in Nat
<1> DEFINE n == Len(q)
           p == Append(q, x)
<1>1. p \in Seq(B) /\ Len(p) = n + 1 /\ n \in Nat /\ p[n + 1] = x /\ \A k \in 1 .. n : p[k] = q[k]
  OBVIOUS
<1>2. PICK v \in [0 .. n -> Nat] : Measuring(v, q, size)
  BY LengthTable
<1>3. PICK u : Measuring(u, p, size)
  BY <1>1, LengthTable
<1>4. v[0] = u[0] /\ \A k \in 1 .. n : v[k - 1] = u[k - 1] => v[k] = u[k]
  BY <1>1, <1>2, <1>3 DEF Measuring
<1>5. v[n] = u[n]
  <2> HIDE DEF n
  <2>1. QED BY <1>1, <1>4, StepsAgree
<1>6. u[n + 1] = u[n] + size[p[n + 1]] + 1
  <2>1. n + 1 \in 1 .. Len(p) /\ (n + 1) - 1 = n
    BY <1>1
  <2> HIDE DEF n, p
  <2>2. QED BY <1>3, <2>1 DEF Measuring
<1>7. v[n] = lengthOf(q, size) /\ u[n + 1] = lengthOf(p, size) /\ v[n] \in Nat
  BY <1>1, <1>2, <1>3 DEF Measuring
<1> HIDE DEF n, p
<1>8. QED BY <1>1, <1>5, <1>6, <1>7 DEF p

\* No piece, no text.
LEMMA LengthOfEmpty ==
    ASSUME NEW B, NEW size, \A y \in B : size[y] \in Nat
    PROVE  lengthOf(<<>>, size) = 0
<1>1. <<>> \in Seq(B) /\ Len(<<>>) = 0
  OBVIOUS
<1>2. PICK v : Measuring(v, <<>>, size)
  BY <1>1, LengthTable
<1>3. QED BY <1>1, <1>2 DEF Measuring

Texts == [included : Seq(Ids), used : Nat, truncated : BOOLEAN]

NoText == [included |-> <<>>, used |-> 0, truncated |-> FALSE]

\* `assembled`, one piece after the other.
Assembling(v, pieces, size) ==
    /\ v[0] = NoText
    /\ \A k \in 1 .. Len(pieces) : v[k] = tryAdd(v[k - 1], pieces[k], size)
    /\ v[Len(pieces)] = assembled(pieces, size)

\* tryAdd makes a text of a text.
LEMMA AddingIsText ==
    ASSUME NEW text \in Texts, NEW piece \in Ids, NEW size, size[piece] \in Nat
    PROVE  tryAdd(text, piece, size) \in Texts
<1>1. maxChars \in Nat
  BY RecallAssumption
<1>2. text.used + size[piece] + (IF text.included = <<>> THEN 0 ELSE 1) \in Nat
  BY DEF Texts
<1>3. Append(text.included, piece) \in Seq(Ids)
  BY DEF Texts
<1>4. QED BY <1>1, <1>2, <1>3 DEF tryAdd, Texts

\* The texts on the way to the one that is given, from the fold `assembled` is.
LEMMA AssembledTable ==
    ASSUME NEW pieces \in Seq(Ids), NEW size, \A x \in Ids : size[x] \in Nat
    PROVE  \E v \in [0 .. Len(pieces) -> Texts] : Assembling(v, pieces, size)
<1> DEFINE n == Len(pieces)
           D == Texts
           G == [p \in (1 .. n) \X D |-> tryAdd(p[2], pieces[p[1]], size)]
           Solves(h) == h = [s \in SUBSET DOMAIN pieces |->
                                IF s = {} THEN NoText ELSE tryAdd(h[s \ {Max(s)}], pieces[Max(s)], size)]
           iter == CHOOSE h : Solves(h)
<1>1. n \in Nat /\ DOMAIN pieces = 1 .. n /\ \A i \in 1 .. n : pieces[i] \in Ids /\ size[pieces[i]] \in Nat
  OBVIOUS
<1>2. NoText \in D /\ G \in [(1 .. n) \X D -> D]
  <2>1. NoText \in D
    BY DEF NoText, Texts
  <2> HIDE DEF n
  <2>2. QED BY <1>1, <2>1, AddingIsText
<1>3. \A k \in 1 .. n, d \in D : G[<<k, d>>] = tryAdd(d, pieces[k], size)
  OBVIOUS
<1>4. \A s \in SUBSET (1 .. n) : s # {} => Max(s) \in 1 .. n
  BY <1>1, MaxUpTo
<1>5. PICK h \in [SUBSET (1 .. n) -> D] : Folds(h, n, NoText, G)
  <2> HIDE DEF n, D, G
  <2>1. QED BY <1>1, <1>2, FoldTable, Zenon
<1>6. Solves(h)
  <2>1. h[{}] = NoText /\ \A s \in SUBSET (1 .. n) : s # {} => h[s] = G[<<Max(s), h[s \ {Max(s)}]>>]
    BY <1>5 DEF Folds
  <2>2. \A s \in SUBSET (1 .. n) : h[s \ {Max(s)}] \in D
    BY <1>5
  <2> HIDE DEF G, D
  <2>3. \A s \in SUBSET (1 .. n) : h[s] = IF s = {} THEN NoText ELSE tryAdd(h[s \ {Max(s)}], pieces[Max(s)], size)
    BY <1>3, <1>4, <2>1, <2>2
  <2>4. QED BY <1>1, <1>5, <2>3
<1>7. Solves(iter)
  <2> HIDE DEF Solves
  <2>1. QED BY <1>6
<1>8. assembled(pieces, size) = iter[1 .. n]
  BY <1>1 DEF assembled, NoText, FoldLeft, MapThenFoldSet
<1> HIDE DEF iter
<1>9. iter[{}] = NoText
  BY <1>7
<1>10. Unfolds(iter, n, D, NoText, G)
  <2> HIDE DEF G, D
  <2>1. QED BY <1>1, <1>3, <1>4, <1>7, <1>9 DEF Unfolds
<1>11. PICK v \in [0 .. n -> D] : Steps(v, n, NoText, G, assembled(pieces, size))
  <2> HIDE DEF n, D, G
  <2>1. QED BY <1>1, <1>2, <1>8, <1>10, FoldValues, Zenon
<1>12. \A k \in 1 .. n : v[k - 1] \in D
  <2>1. \A k \in 1 .. n : k - 1 \in 0 .. n
    BY <1>1
  <2> HIDE DEF n, D
  <2>2. QED BY <1>11, <2>1
<1> HIDE DEF G
<1>13. QED BY <1>1, <1>3, <1>11, <1>12 DEF Steps, Assembling

\* Whether a piece still fits behind a text.
fits(text, piece, size) == text.used + size[piece] + (IF text.included = <<>> THEN 0 ELSE 1) <= maxChars

\* What the context is after its first `k` pieces.
Assembled(v, k, pieces, size) ==
    /\ v[k] \in Texts
    /\ lengthOf(v[k].included, size) = IF v[k].included = <<>> THEN 0 ELSE v[k].used + 1
    /\ v[k].included = <<>> => v[k].used = 0
    /\ v[k].used <= maxChars
    /\ v[k].truncated => Len(v[k].included) < k
    /\ ~ v[k].truncated => v[k].included = SubSeq(pieces, 1, k)
    /\ \A x \in ToSet(v[k].included) : \E i \in 1 .. k : x = pieces[i]
    /\ \A i \in 1 .. k : pieces[i] \in ToSet(v[k].included) <=> fits(v[i - 1], pieces[i], size)

\* A list with one more element holds that one more.
LEMMA AppendRange ==
    ASSUME NEW B, NEW q \in Seq(B), NEW x \in B
    PROVE  ToSet(Append(q, x)) = ToSet(q) \cup {x}
<1>1. Append(q, x) \in Seq(B) /\ Len(Append(q, x)) = Len(q) + 1 /\ Len(q) \in Nat
  OBVIOUS
<1>2. /\ \A i \in 1 .. Len(q) : Append(q, x)[i] = q[i]
      /\ Append(q, x)[Len(q) + 1] = x
  OBVIOUS
<1>3. ToSet(q) = {q[i] : i \in 1 .. Len(q)} /\ ToSet(Append(q, x)) = {Append(q, x)[i] : i \in 1 .. Len(q) + 1}
  BY <1>1 DEF ToSet
<1>4. \A i \in 1 .. Len(q) + 1 : i \in 1 .. Len(q) \/ i = Len(q) + 1
  BY <1>1
<1>5. \A i \in 1 .. Len(q) : i \in 1 .. Len(q) + 1
  BY <1>1
<1>6. Len(q) + 1 \in 1 .. Len(q) + 1
  BY <1>1
<1>7. QED BY <1>2, <1>3, <1>4, <1>5, <1>6

\* The first pieces of a list, with the next of them, are the first pieces and the next.
LEMMA PrefixGrows ==
    ASSUME NEW B, NEW q \in Seq(B), NEW k \in 1 .. Len(q)
    PROVE  /\ SubSeq(q, 1, k) = Append(SubSeq(q, 1, k - 1), q[k])
           /\ SubSeq(q, 1, k - 1) \in Seq(B) /\ SubSeq(q, 1, k) \in Seq(B)
           /\ q[k] \in B /\ Len(SubSeq(q, 1, k)) = k
<1>1. Len(q) \in Nat /\ \A i \in 1 .. Len(q) : q[i] \in B
  OBVIOUS
<1>2. SubSeq(q, 1, k - 1) \in Seq(B) /\ SubSeq(q, 1, k) \in Seq(B) /\ Len(SubSeq(q, 1, k)) = k
  OBVIOUS
<1>3. SubSeq(q, 1, k) = SubSeq(q, 1, k - 1) \o <<q[k]>>
  <2>1. 1 \in 1 .. Len(q) /\ k \in 1 .. Len(q)
    BY <1>1
  <2>2. QED BY <2>1, SubSeqRecursiveSecond
<1>4. QED BY <1>1, <1>2, <1>3, AppendIsConcat

\* What tryAdd does with a piece that fits and with one that does not.
LEMMA AddingPiece ==
    ASSUME NEW text \in Texts, NEW piece \in Ids, NEW size, size[piece] \in Nat
    PROVE  LET longer == text.used + size[piece] + (IF text.included = <<>> THEN 0 ELSE 1)
               next == tryAdd(text, piece, size)
           IN  /\ fits(text, piece, size) =>
                     /\ next.included = Append(text.included, piece)
                     /\ next.used = longer /\ next.truncated = text.truncated
               /\ ~ fits(text, piece, size) =>
                     next.included = text.included /\ next.used = text.used /\ next.truncated = TRUE
<1> DEFINE longer == text.used + size[piece] + (IF text.included = <<>> THEN 0 ELSE 1)
<1>1. longer \in Nat /\ maxChars \in Nat
  BY RecallAssumption DEF Texts
<1>2. fits(text, piece, size) <=> ~ (longer > maxChars)
  <2>1. fits(text, piece, size) <=> longer <= maxChars
    BY DEF fits
  <2> HIDE DEF longer
  <2>2. QED BY <1>1, <2>1
<1>3. tryAdd(text, piece, size) = IF longer > maxChars THEN [text EXCEPT !.truncated = TRUE]
                                  ELSE [text EXCEPT !.included = Append(@, piece), !.used = longer]
  BY DEF tryAdd
<1> HIDE DEF longer
<1>4. CASE longer > maxChars
  BY <1>2, <1>3, <1>4 DEF Texts
<1>5. CASE ~ (longer > maxChars)
  BY <1>2, <1>3, <1>5 DEF Texts, longer
<1>6. QED BY <1>4, <1>5

\* After every piece the text is as `Assembled` says.
LEMMA AssembledInduction ==
    ASSUME NEW pieces \in Rankings, NEW size \in [Ids -> Nat],
           NEW v \in [0 .. Len(pieces) -> Texts], Assembling(v, pieces, size)
    PROVE  \A k \in 0 .. Len(pieces) : Assembled(v, k, pieces, size)
<1> DEFINE n == Len(pieces)
           S == {k \in 0 .. n : Assembled(v, k, pieces, size)}
<1>1. pieces \in Seq(Ids) /\ n \in Nat /\ \A i, j \in 1 .. n : pieces[i] = pieces[j] => i = j
  BY RankingIsList
<1>2. maxChars \in Nat /\ \A x \in Ids : size[x] \in Nat
  BY RecallAssumption
<1>3. 0 \in S
  <2>1. 0 \in 0 .. n /\ v[0] = NoText /\ v[0] \in Texts
    BY <1>1 DEF Assembling
  <2>2. lengthOf(<<>>, size) = 0
    BY <1>2, LengthOfEmpty
  <2>3. SubSeq(pieces, 1, 0) = <<>>
    BY <1>1, SubSeqEmpty
  <2>4. ToSet(<<>>) = {}
    BY DEF ToSet
  <2>5. Assembled(v, 0, pieces, size)
    BY <1>2, <2>1, <2>2, <2>3, <2>4 DEF Assembled, NoText
  <2>6. QED BY <2>1, <2>5
<1>4. ASSUME NEW k \in 1 .. n, k - 1 \in S PROVE k \in S
  <2> DEFINE p == pieces[k]
             was == v[k - 1]
             is == v[k]
             longer == was.used + size[p] + (IF was.included = <<>> THEN 0 ELSE 1)
  <2>1. k \in 0 .. n /\ k - 1 \in 0 .. n /\ k \in Nat /\ p \in Ids /\ size[p] \in Nat
    BY <1>1, <1>2
  <2>2. is = tryAdd(was, p, size) /\ was \in Texts /\ is \in Texts
    BY <2>1 DEF Assembling
  <2>3. Assembled(v, k - 1, pieces, size)
    BY <1>4
  <2>4. p \notin ToSet(was.included)
    <3>1. SUFFICES ASSUME p \in ToSet(was.included) PROVE FALSE
      OBVIOUS
    <3>2. PICK i \in 1 .. k - 1 : p = pieces[i]
      BY <2>3, <3>1 DEF Assembled
    <3>3. i \in 1 .. n /\ i # k
      BY <1>1, <3>2
    <3>4. QED BY <1>1, <3>2, <3>3
  <2>5. /\ SubSeq(pieces, 1, k) = Append(SubSeq(pieces, 1, k - 1), p)
        /\ SubSeq(pieces, 1, k - 1) \in Seq(Ids) /\ Len(SubSeq(pieces, 1, k)) = k
    BY <1>1, PrefixGrows
  <2>6. was.included \in Seq(Ids) /\ was.used \in Nat /\ was.truncated \in BOOLEAN /\ Len(was.included) \in Nat
    BY <2>2 DEF Texts
  <2>7. longer \in Nat
    BY <2>1, <2>6
  <2>8. fits(was, p, size) <=> longer <= maxChars
    BY DEF fits
  <2>9. \A i \in 1 .. k : i \in 1 .. k - 1 \/ i = k
    BY <2>1
  <2>10. \A i \in 1 .. k - 1 : i \in 1 .. k /\ pieces[i] # p
    <3>1. SUFFICES ASSUME NEW i \in 1 .. k - 1 PROVE i \in 1 .. k /\ pieces[i] # p
      OBVIOUS
    <3>2. i \in 1 .. k /\ i \in 1 .. n /\ i # k
      BY <1>1, <2>1
    <3>3. QED BY <1>1, <3>2
  <2>11. CASE longer <= maxChars
    <3>1. is.included = Append(was.included, p) /\ is.used = longer /\ is.truncated = was.truncated
      <4>1. p \in Ids /\ size[p] \in Nat /\ was \in Texts /\ is = tryAdd(was, p, size)
        BY <2>1, <2>2
      <4>2. fits(was, p, size) <=> longer <= maxChars
        BY <2>8
      <4> HIDE DEF p, was, is
      <4>3. QED BY <2>11, <4>1, <4>2, AddingPiece
    <3>2. /\ is.included \in Seq(Ids) /\ is.included # <<>> /\ Len(is.included) = Len(was.included) + 1
          /\ ToSet(is.included) = ToSet(was.included) \cup {p}
      <4>1. ToSet(Append(was.included, p)) = ToSet(was.included) \cup {p}
        BY <2>1, <2>6, AppendRange
      <4> HIDE DEF p, was, is
      <4>2. Append(was.included, p) # <<>> /\ Len(Append(was.included, p)) = Len(was.included) + 1
        <5>1. was.included \in Seq(Ids) /\ p \in Ids
          BY <2>1, <2>6
        <5>2. QED BY <5>1, AppendProperties
      <4>3. is.included \in Seq(Ids)
        BY <2>2 DEF Texts
      <4>4. QED BY <3>1, <4>1, <4>2, <4>3
    <3>3. lengthOf(is.included, size) = lengthOf(was.included, size) + size[p] + 1
      BY <1>2, <2>1, <2>6, <3>1, LengthOfAppend
    <3> HIDE DEF p, was, is
    <3>4. lengthOf(was.included, size) = IF was.included = <<>> THEN 0 ELSE was.used + 1
      BY <2>3 DEF Assembled, was
    <3>5. lengthOf(is.included, size) = is.used + 1
      <4>1. was.included = <<>> => was.used = 0
        BY <2>3 DEF Assembled, was
      <4>2. QED BY <2>1, <2>6, <3>1, <3>3, <3>4, <4>1
    <3>6. is.truncated => Len(is.included) < k
      <4>1. was.truncated => Len(was.included) < k - 1
        BY <2>3 DEF Assembled, was
      <4>2. QED BY <2>1, <2>6, <3>1, <3>2, <4>1
    <3>7. ~ is.truncated => is.included = SubSeq(pieces, 1, k)
      <4>1. ~ was.truncated => was.included = SubSeq(pieces, 1, k - 1)
        BY <2>3 DEF Assembled, was
      <4>2. QED BY <2>5, <3>1, <4>1
    <3>8. \A x \in ToSet(is.included) : \E i \in 1 .. k : x = pieces[i]
      <4>1. \A x \in ToSet(was.included) : \E i \in 1 .. k - 1 : x = pieces[i]
        BY <2>3 DEF Assembled, was
      <4>2. k \in 1 .. k /\ p = pieces[k]
        BY <2>1 DEF p
      <4>3. QED BY <2>10, <3>2, <4>1, <4>2
    <3>9. \A i \in 1 .. k : pieces[i] \in ToSet(is.included) <=> fits(v[i - 1], pieces[i], size)
      <4>1. \A i \in 1 .. k - 1 : pieces[i] \in ToSet(was.included) <=> fits(v[i - 1], pieces[i], size)
        BY <2>3 DEF Assembled, was
      <4>2. fits(v[k - 1], pieces[k], size) /\ pieces[k] \in ToSet(is.included)
        BY <2>8, <2>11, <3>2 DEF p, was
      <4>3. QED BY <2>9, <2>10, <3>2, <4>1, <4>2
    <3>10. is.used <= maxChars
      BY <2>11, <3>1
    <3>11. Assembled(v, k, pieces, size)
      BY <2>2, <3>2, <3>5, <3>6, <3>7, <3>8, <3>9, <3>10 DEF Assembled, is
    <3>12. QED BY <2>1, <3>11
  <2>12. CASE ~ (longer <= maxChars)
    <3>1. is.included = was.included /\ is.used = was.used /\ is.truncated = TRUE
      <4>1. p \in Ids /\ size[p] \in Nat /\ was \in Texts /\ is = tryAdd(was, p, size)
        BY <2>1, <2>2
      <4>2. fits(was, p, size) <=> longer <= maxChars
        BY <2>8
      <4> HIDE DEF p, was, is
      <4>3. QED BY <2>12, <4>1, <4>2, AddingPiece
    <3> HIDE DEF p, was, is
    <3>2. Len(is.included) < k
      <4>1. was.truncated => Len(was.included) < k - 1
        BY <2>3 DEF Assembled, was
      <4>2. ~ was.truncated => was.included = SubSeq(pieces, 1, k - 1)
        BY <2>3 DEF Assembled, was
      <4>3. Len(SubSeq(pieces, 1, k - 1)) = k - 1
        BY <2>1, <2>5
      <4>4. QED BY <2>1, <2>6, <3>1, <4>1, <4>2, <4>3
    <3>3. \A x \in ToSet(is.included) : \E i \in 1 .. k : x = pieces[i]
      <4>1. \A x \in ToSet(was.included) : \E i \in 1 .. k - 1 : x = pieces[i]
        BY <2>3 DEF Assembled, was
      <4>2. QED BY <2>10, <3>1, <4>1
    <3>4. \A i \in 1 .. k : pieces[i] \in ToSet(is.included) <=> fits(v[i - 1], pieces[i], size)
      <4>1. \A i \in 1 .. k - 1 : pieces[i] \in ToSet(was.included) <=> fits(v[i - 1], pieces[i], size)
        BY <2>3 DEF Assembled, was
      <4>2. ~ fits(v[k - 1], pieces[k], size) /\ pieces[k] \notin ToSet(is.included)
        BY <2>4, <2>8, <2>12, <3>1 DEF p, was
      <4>3. QED BY <2>9, <3>1, <4>1, <4>2
    <3>5. /\ lengthOf(is.included, size) = IF is.included = <<>> THEN 0 ELSE is.used + 1
          /\ is.included = <<>> => is.used = 0
          /\ is.used <= maxChars
      BY <2>3, <3>1 DEF Assembled, was
    <3>6. Assembled(v, k, pieces, size)
      BY <2>2, <3>1, <3>2, <3>3, <3>4, <3>5 DEF Assembled, is
    <3>7. QED BY <2>1, <3>6
  <2>13. QED BY <2>11, <2>12
<1>5. 0 .. n \subseteq S
  <2> HIDE DEF S
  <2>1. QED BY <1>1, <1>3, <1>4, InductionUpTo
<1>6. QED BY <1>5

\* The context that recall puts together is the one the reference has.
LEMMA ContextIsReference ==
    ASSUME NEW pieces \in Rankings, NEW size \in [Ids -> 0 .. maxChars + 1]
    PROVE  LET text == assembled(pieces, size)
               before(n) == within(SubSeq(pieces, 1, n - 1), ToSet(text.included))
           IN  /\ text.included # <<>> => lengthOf(text.included, size) - 1 <= maxChars
               /\ text.truncated <=> text.included # pieces
               /\ \A n \in DOMAIN pieces :
                     Contains(text.included, pieces[n]) <=> lengthOf(before(n), size) + size[pieces[n]] <= maxChars
<1> DEFINE text == assembled(pieces, size)
           T == ToSet(text.included)
           before(n) == within(SubSeq(pieces, 1, n - 1), T)
           N == Len(pieces)
<1>1. pieces \in Seq(Ids) /\ N \in Nat /\ DOMAIN pieces = 1 .. N
  BY RankingIsList
<1>2. size \in [Ids -> Nat] /\ maxChars \in Nat
  BY RecallAssumption
<1>3. PICK v \in [0 .. N -> Texts] : Assembling(v, pieces, size)
  <2>1. \A x \in Ids : size[x] \in Nat
    BY <1>2
  <2>2. QED BY <1>1, <2>1, AssembledTable
<1>4. \A k \in 0 .. N : Assembled(v, k, pieces, size)
  BY <1>2, <1>3, AssembledInduction
<1>5. v[N] = text /\ N \in 0 .. N
  BY <1>1, <1>3 DEF Assembling
<1> HIDE DEF text, N
<1>6. /\ text \in Texts
      /\ lengthOf(text.included, size) = IF text.included = <<>> THEN 0 ELSE text.used + 1
      /\ text.used <= maxChars
      /\ text.truncated => Len(text.included) < N
      /\ ~ text.truncated => text.included = SubSeq(pieces, 1, N)
      /\ \A i \in 1 .. N : pieces[i] \in T <=> fits(v[i - 1], pieces[i], size)
  BY <1>4, <1>5 DEF Assembled
<1>7. text.truncated <=> text.included # pieces
  <2>1. SubSeq(pieces, 1, N) = pieces
    BY <1>1, SubSeqFull DEF N
  <2>2. QED BY <1>1, <1>6, <2>1 DEF Texts, N
<1>8. text.included # <<>> => lengthOf(text.included, size) - 1 <= maxChars
  BY <1>2, <1>6 DEF Texts
<1>9. \A k \in 0 .. N : within(SubSeq(pieces, 1, k), T) = v[k].included
  <2> DEFINE S == {k \in 0 .. N : within(SubSeq(pieces, 1, k), T) = v[k].included}
  <2>1. 0 \in S
    <3>1. SubSeq(pieces, 1, 0) = <<>> /\ v[0].included = <<>> /\ 0 \in 0 .. N
      BY <1>1, <1>3, SubSeqEmpty DEF Assembling, NoText
    <3> HIDE DEF T
    <3>2. QED BY <3>1, WithinEmpty
  <2>2. ASSUME NEW k \in 1 .. N, k - 1 \in S PROVE k \in S
    <3> DEFINE p == pieces[k]
               was == v[k - 1]
    <3>1. k \in 0 .. N /\ k - 1 \in 0 .. N /\ was \in Texts /\ p \in Ids
      <4>1. N \in Nat /\ \A i \in 1 .. N : pieces[i] \in Ids
        BY <1>1 DEF N
      <4>2. k \in 0 .. N /\ k - 1 \in 0 .. N
        BY <4>1
      <4>3. QED BY <1>3, <4>1, <4>2
    <3>2. v[k] = tryAdd(was, p, size)
      BY <1>3 DEF Assembling, N
    <3>3. /\ SubSeq(pieces, 1, k) = Append(SubSeq(pieces, 1, k - 1), p)
          /\ SubSeq(pieces, 1, k - 1) \in Seq(Ids)
      BY <1>1, PrefixGrows DEF N
    <3> HIDE DEF T
    <3>4. within(SubSeq(pieces, 1, k), T) =
            IF p \in T THEN Append(within(SubSeq(pieces, 1, k - 1), T), p) ELSE within(SubSeq(pieces, 1, k - 1), T)
      <4> DEFINE q == SubSeq(pieces, 1, k - 1)
      <4>1. q \in Seq(Ids) /\ p \in Ids /\ SubSeq(pieces, 1, k) = Append(q, p)
        BY <3>1, <3>3
      <4> HIDE DEF p, q
      <4>2. within(Append(q, p), T) = IF p \in T THEN Append(within(q, T), p) ELSE within(q, T)
        BY <4>1, WithinAppend
      <4>3. QED BY <4>1, <4>2 DEF q
    <3>5. within(SubSeq(pieces, 1, k - 1), T) = was.included
      BY <2>2
    <3>6. p \in T <=> fits(was, p, size)
      BY <1>6
    <3>7. v[k].included = IF fits(was, p, size) THEN Append(was.included, p) ELSE was.included
      <4> HIDE DEF p, was
      <4>1. size[p] \in Nat /\ was.used \in Nat
        BY <1>2, <3>1 DEF Texts
      <4>2. QED BY <1>2, <3>1, <3>2, <4>1 DEF tryAdd, fits, Texts
    <3>8. QED BY <3>1, <3>4, <3>5, <3>6, <3>7
  <2>3. 0 .. N \subseteq S
    <3> HIDE DEF S
    <3>1. QED BY <1>1, <2>1, <2>2, InductionUpTo
  <2>4. QED BY <2>3
<1>10. ASSUME NEW n \in 1 .. N
       PROVE  Contains(text.included, pieces[n]) <=> lengthOf(before(n), size) + size[pieces[n]] <= maxChars
  <2> DEFINE was == v[n - 1]
  <2>1. n - 1 \in 0 .. N /\ pieces[n] \in Ids
    BY <1>1 DEF N
  <2>2. was \in Texts /\ size[pieces[n]] \in Nat
    BY <1>2, <1>3, <2>1
  <2>3. before(n) = was.included
    <3> HIDE DEF T
    <3>1. QED BY <1>9, <2>1
  <2>4. lengthOf(was.included, size) = (IF was.included = <<>> THEN 0 ELSE was.used + 1) /\ (was.included = <<>> => was.used = 0)
    BY <1>4, <2>1 DEF Assembled
  <2>5. text.included \in Seq(Ids)
    BY <1>6 DEF Texts
  <2>6. Contains(text.included, pieces[n]) <=> pieces[n] \in T
    BY <2>5, ListHolds
  <2>7. fits(was, pieces[n], size) <=> lengthOf(was.included, size) + size[pieces[n]] <= maxChars
    <3> HIDE DEF was
    <3>1. QED BY <1>2, <2>2, <2>4 DEF fits, Texts
  <2> HIDE DEF before, T, was
  <2>8. pieces[n] \in T <=> fits(was, pieces[n], size)
    BY <1>6 DEF was
  <2>9. QED BY <2>3, <2>6, <2>7, <2>8
<1>11. QED BY <1>1, <1>7, <1>8, <1>10 DEF text

\* Recall is as the reference has it, for every pair of rankings, recent turns and sizes.
LEMMA EveryRecallIsAlike == RecallsAlike
<1>1. ASSUME NEW ranking \in Rankings, NEW keyword \in Rankings, NEW recent \in SUBSET Ids,
             NEW near \in 0 .. Len(ranking)
      PROVE  LET semantic == semanticSearch(ranking, near)
                 found == (ToSet(semantic) \cup ToSet(keyword)) \ recent
                 given == recallMatches(semantic, keyword, recent)
             IN  /\ IsInjective(given) /\ ToSet(given) \subseteq found
                 /\ Len(given) = Min({Cardinality(found), semanticTopK})
                 /\ \A a, b \in found :
                       betterOf(semantic, keyword, a, b) /\ Contains(given, b) =>
                           Contains(given, a) /\ rankIn(given, a) < rankIn(given, b)
  BY RecallRanks
<1>2. QED BY <1>1, ContextIsReference DEF RecallsAlike

\* What recall gives a reply is what the reference has: no event twice and no recent one,
\* as many as there are up to the bound, an event before every one it beats; and of the
\* pieces each that still fits and no other, in their order.
THEOREM RecallGivesReference == ReplySpec => []RecallIsReference
<1>1. RecallIsReference
  BY EveryRecallIsAlike DEF RecallIsReference
<1>2. QED BY <1>1, PTL
----------------------------------------------------------------------------
(* Dispatch (core/skills/loader.ts, embeddingMatch.ts, dispatch.ts): what is decided of *)
(* an utterance before any model is asked is what the reference decides.               *)

\* A recursion over places has a solution.
LEMMA StepsExist ==
    ASSUME NEW n \in Nat, NEW D, NEW base \in D, NEW G \in [(1 .. n) \X D -> D]
    PROVE  \E v \in [0 .. n -> D] : \E last : Steps(v, n, base, G, last)
<1>1. PICK h \in [SUBSET (1 .. n) -> D] : Folds(h, n, base, G)
  BY FoldTable
<1>2. Unfolds(h, n, D, base, G)
  BY <1>1 DEF Folds, Unfolds
<1> DEFINE last == h[1 .. n]
<1>3. last = h[1 .. n]
  OBVIOUS
<1> HIDE DEF last
<1>4. PICK v \in [0 .. n -> D] : Steps(v, n, base, G, last)
  BY <1>2, <1>3, FoldValues, Zenon
<1>5. QED BY <1>4

\* Two lists after one another hold what either holds.
LEMMA ConcatRange ==
    ASSUME NEW B, NEW p \in Seq(B), NEW q \in Seq(B)
    PROVE  p \o q \in Seq(B) /\ ToSet(p \o q) = ToSet(p) \cup ToSet(q)
<1>1. Range(p \o q) = Range(p) \cup Range(q) /\ p \o q \in Seq(B)
  BY RangeConcatenation
<1>2. QED BY <1>1 DEF Range, ToSet

\* A list of lists, joined, holds what they hold.
LEMMA FlattenRange ==
    ASSUME NEW E, NEW seqs \in Seq(Seq(E))
    PROVE  FlattenSeq(seqs) \in Seq(E) /\ ToSet(FlattenSeq(seqs)) = UNION {ToSet(seqs[i]) : i \in 1 .. Len(seqs)}
<1> DEFINE n == Len(seqs)
           D == Seq(E)
           G == [p \in (1 .. n) \X D |-> p[2] \o seqs[p[1]]]
           Solves(f) == f = [i \in 1 .. n |-> IF i = 1 THEN seqs[i] ELSE f[i - 1] \o seqs[i]]
           flatten == CHOOSE f : Solves(f)
           held(k) == UNION {ToSet(seqs[i]) : i \in 1 .. k}
<1>1. n \in Nat /\ \A i \in 1 .. n : seqs[i] \in D
  OBVIOUS
<1>2. <<>> \in D /\ G \in [(1 .. n) \X D -> D]
  <2>1. \A d \in D, i \in 1 .. n : d \o seqs[i] \in D
    BY <1>1
  <2> HIDE DEF n, D
  <2>2. G \in [(1 .. n) \X D -> D]
    BY <2>1
  <2>3. QED BY <2>2 DEF D
<1>3. \A k \in 1 .. n, d \in D : G[<<k, d>>] = d \o seqs[k]
  OBVIOUS
<1>4. PICK v \in [0 .. n -> D] : v[0] = <<>> /\ \A k \in 1 .. n : v[k] = G[<<k, v[k - 1]>>]
  <2> HIDE DEF n, D, G
  <2>1. PICK v \in [0 .. n -> D] : \E last : Steps(v, n, <<>>, G, last)
    BY <1>1, <1>2, StepsExist, Zenon
  <2>2. QED BY <2>1 DEF Steps
<1>5. \A k \in 1 .. n : k \in 0 .. n /\ k - 1 \in 0 .. n /\ (k # 1 => k - 1 \in 1 .. n)
  BY <1>1
<1>6. \A k \in 1 .. n : v[k] = v[k - 1] \o seqs[k]
  <2> HIDE DEF n, D, G
  <2>1. QED BY <1>3, <1>4, <1>5
<1> DEFINE f == [i \in 1 .. n |-> v[i]]
<1>7. Solves(f)
  <2>1. \A i \in 1 .. n : f[i] = IF i = 1 THEN seqs[i] ELSE f[i - 1] \o seqs[i]
    <3>1. SUFFICES ASSUME NEW i \in 1 .. n PROVE f[i] = IF i = 1 THEN seqs[i] ELSE f[i - 1] \o seqs[i]
      OBVIOUS
    <3>2. CASE i = 1
      <4>1. v[1] = <<>> \o seqs[1]
        <5>1. 1 \in 1 .. n /\ 1 - 1 = 0
          BY <3>2
        <5>2. v[1] = v[0] \o seqs[1]
          BY <1>6, <5>1
        <5>3. QED BY <1>4, <5>2
      <4>2. <<>> \o seqs[1] = seqs[1]
        BY <1>1, <3>2, ConcatEmptySeq
      <4>3. QED BY <3>2, <4>1, <4>2
    <3>3. CASE i # 1
      BY <1>5, <1>6, <3>3
    <3>4. QED BY <3>2, <3>3
  <2>2. QED BY <2>1
<1>8. Solves(flatten)
  <2> HIDE DEF Solves, f
  <2>1. QED BY <1>7
<1>9. n # 0 => FlattenSeq(seqs) = flatten[n]
  BY DEF FlattenSeq
<1> HIDE DEF flatten
<1> DEFINE S == {k \in 0 .. n : k = 0 \/ (flatten[k] \in D /\ ToSet(flatten[k]) = held(k))}
<1>10. 0 \in S
  BY <1>1
<1>11. ASSUME NEW k \in 1 .. n, k - 1 \in S PROVE k \in S
  <2>1. seqs[k] \in D
    BY <1>1
  <2>2. held(k) = held(k - 1) \cup ToSet(seqs[k])
    <3>1. 1 .. k = (1 .. k - 1) \cup {k}
      BY <1>1
    <3>2. QED BY <3>1
  <2>3. CASE k = 1
    <3>1. flatten[k] = seqs[k]
      BY <1>8, <2>3
    <3>2. held(k - 1) = {}
      BY <2>3
    <3> HIDE DEF held, D
    <3>3. QED BY <1>5, <2>1, <2>2, <3>1, <3>2
  <2>4. CASE k # 1
    <3>1. flatten[k] = flatten[k - 1] \o seqs[k]
      BY <1>8, <2>4
    <3>2. flatten[k - 1] \in D /\ ToSet(flatten[k - 1]) = held(k - 1)
      BY <1>11, <2>4
    <3> HIDE DEF held
    <3>3. flatten[k] \in D /\ ToSet(flatten[k]) = ToSet(flatten[k - 1]) \cup ToSet(seqs[k])
      BY <2>1, <3>1, <3>2, ConcatRange
    <3> HIDE DEF D
    <3>4. QED BY <1>5, <2>2, <3>2, <3>3
  <2>5. QED BY <2>3, <2>4
<1>12. 0 .. n \subseteq S
  <2> HIDE DEF S
  <2>1. QED BY <1>1, <1>10, <1>11, InductionUpTo
<1>13. CASE n = 0
  <2>1. seqs = <<>> /\ FlattenSeq(seqs) = <<>>
    BY <1>13 DEF FlattenSeq
  <2>2. ToSet(<<>>) = {}
    BY DEF ToSet
  <2>3. 1 .. n = {}
    BY <1>13
  <2> DEFINE I == 1 .. n
  <2>4. I = {}
    BY <2>3
  <2> HIDE DEF I
  <2>5. UNION {ToSet(seqs[i]) : i \in I} = {}
    BY <2>4
  <2>6. <<>> \in Seq(E)
    OBVIOUS
  <2>7. QED BY <2>1, <2>2, <2>5, <2>6 DEF I
<1>14. CASE n # 0
  <2>1. n \in S
    <3>1. n \in 0 .. n
      BY <1>1
    <3> HIDE DEF S, n
    <3>2. QED BY <1>12, <3>1
  <2> HIDE DEF held, D
  <2>2. flatten[n] \in D /\ ToSet(flatten[n]) = held(n)
    BY <1>14, <2>1
  <2>3. FlattenSeq(seqs) \in D /\ ToSet(FlattenSeq(seqs)) = held(n)
    BY <1>9, <1>14, <2>2
  <2>4. QED BY <2>3 DEF held, D
<1>15. QED BY <1>13, <1>14

\* `loadAll`, one module after the other.
isNew(skills, m) == loadSkill(m) /\ \A x \in ToSet(skills) : IdOf[x] # IdOf[m]

Loading(v) ==
    /\ v[0] = <<>>
    /\ \A k \in 1 .. Len(Modules) : v[k] = IF isNew(v[k - 1], Modules[k]) THEN Append(v[k - 1], Modules[k]) ELSE v[k - 1]
    /\ v[Len(Modules)] = loadAll

\* The loaded skills, one module after the other, from the fold `loadAll` is.
LEMMA LoadingTable == \E v \in [0 .. Len(Modules) -> Seq(ToSet(Modules))] : Loading(v)
<1> DEFINE n == Len(Modules)
           D == Seq(ToSet(Modules))
           G == [p \in (1 .. n) \X D |-> IF isNew(p[2], Modules[p[1]]) THEN Append(p[2], Modules[p[1]]) ELSE p[2]]
           Solves(h) == h = [s \in SUBSET DOMAIN Modules |->
                                IF s = {} THEN <<>>
                                ELSE IF isNew(h[s \ {Max(s)}], Modules[Max(s)])
                                     THEN Append(h[s \ {Max(s)}], Modules[Max(s)])
                                     ELSE h[s \ {Max(s)}]]
           iter == CHOOSE h : Solves(h)
<1>1. n \in Nat /\ DOMAIN Modules = 1 .. n /\ \A i \in 1 .. n : Modules[i] \in ToSet(Modules)
  BY DispatchAssumption
<1>2. <<>> \in D /\ G \in [(1 .. n) \X D -> D]
  <2>1. \A d \in D, i \in 1 .. n : Append(d, Modules[i]) \in D
    BY <1>1
  <2> HIDE DEF n, D
  <2>2. G \in [(1 .. n) \X D -> D]
    BY <2>1
  <2>3. QED BY <2>2 DEF D
<1>3. \A k \in 1 .. n, d \in D : G[<<k, d>>] = IF isNew(d, Modules[k]) THEN Append(d, Modules[k]) ELSE d
  OBVIOUS
<1>4. \A s \in SUBSET (1 .. n) : s # {} => Max(s) \in 1 .. n
  BY <1>1, MaxUpTo
<1>5. PICK h \in [SUBSET (1 .. n) -> D] : Folds(h, n, <<>>, G)
  <2> HIDE DEF n, D, G
  <2>1. QED BY <1>1, <1>2, FoldTable, Zenon
<1>6. Solves(h)
  <2>1. h[{}] = <<>> /\ \A s \in SUBSET (1 .. n) : s # {} => h[s] = G[<<Max(s), h[s \ {Max(s)}]>>]
    BY <1>5 DEF Folds
  <2>2. \A s \in SUBSET (1 .. n) : h[s \ {Max(s)}] \in D
    BY <1>5
  <2> HIDE DEF G, D
  <2>3. \A s \in SUBSET (1 .. n) : h[s] = IF s = {} THEN <<>>
                                          ELSE IF isNew(h[s \ {Max(s)}], Modules[Max(s)])
                                               THEN Append(h[s \ {Max(s)}], Modules[Max(s)])
                                               ELSE h[s \ {Max(s)}]
    BY <1>3, <1>4, <2>1, <2>2
  <2>4. QED BY <1>1, <1>5, <2>3
<1>7. Solves(iter)
  <2> HIDE DEF Solves
  <2>1. QED BY <1>6
<1>8. loadAll = iter[1 .. n]
  BY <1>1 DEF loadAll, isNew, FoldLeft, MapThenFoldSet
<1> HIDE DEF iter
<1>9. iter[{}] = <<>>
  BY <1>7
<1>10. Unfolds(iter, n, D, <<>>, G)
  <2> HIDE DEF G, D
  <2>1. QED BY <1>1, <1>3, <1>4, <1>7, <1>9 DEF Unfolds
<1>11. PICK v \in [0 .. n -> D] : Steps(v, n, <<>>, G, loadAll)
  <2> HIDE DEF n, D, G
  <2>1. QED BY <1>1, <1>2, <1>8, <1>10, FoldValues, Zenon
<1>12. \A k \in 1 .. n : v[k - 1] \in D
  <2>1. \A k \in 1 .. n : k - 1 \in 0 .. n
    BY <1>1
  <2> HIDE DEF n, D
  <2>2. QED BY <1>11, <2>1
<1> HIDE DEF G
<1>13. QED BY <1>1, <1>3, <1>11, <1>12 DEF Steps, Loading

\* The modules that are loaded: the sound ones that no sound one with their id comes before.
survives(k) ==
    /\ loadSkill(Modules[k])
    /\ \A j \in 1 .. k - 1 : loadSkill(Modules[j]) => IdOf[Modules[j]] # IdOf[Modules[k]]

\* The loader keeps exactly the modules that survive, in whatever order they stand.
LEMMA LoadedSurvive ==
    loadAll \in Seq(ToSet(Modules)) /\ ToSet(loadAll) = {Modules[k] : k \in {i \in 1 .. Len(Modules) : survives(i)}}
<1> DEFINE n == Len(Modules)
           kept(k) == {Modules[j] : j \in {i \in 1 .. k : survives(i)}}
<1>1. n \in Nat /\ \A i \in 1 .. n : Modules[i] \in ToSet(Modules)
  BY DispatchAssumption
<1>2. PICK v \in [0 .. n -> Seq(ToSet(Modules))] : Loading(v)
  BY LoadingTable
<1> DEFINE S == {k \in 0 .. n : ToSet(v[k]) = kept(k)}
<1>3. 0 \in S
  <2>1. v[0] = <<>> /\ ToSet(<<>>) = {}
    BY <1>2 DEF Loading, ToSet
  <2>2. 0 \in 0 .. n /\ kept(0) = {}
    BY <1>1
  <2> HIDE DEF kept
  <2>3. QED BY <2>1, <2>2
<1>4. ASSUME NEW k \in 1 .. n, k - 1 \in S PROVE k \in S
  <2> DEFINE m == Modules[k]
             was == v[k - 1]
  <2>1. k \in 0 .. n /\ k - 1 \in 0 .. n /\ was \in Seq(ToSet(Modules)) /\ m \in ToSet(Modules)
    <3>1. k \in 0 .. n /\ k - 1 \in 0 .. n
      BY <1>1
    <3> HIDE DEF n
    <3>2. QED BY <1>1, <1>2, <3>1
  <2>2. ToSet(was) = kept(k - 1)
    BY <1>4
  <2>3. isNew(was, m) <=> survives(k)
    <3>1. ASSUME survives(k), NEW x \in ToSet(was) PROVE IdOf[x] # IdOf[m]
      <4>1. PICK j \in 1 .. k - 1 : x = Modules[j] /\ survives(j)
        BY <2>2
      <4>2. QED BY <3>1, <4>1 DEF survives
    <3>2. ASSUME \A x \in ToSet(was) : IdOf[x] # IdOf[m],
                 NEW j \in 1 .. k - 1, loadSkill(Modules[j]), IdOf[Modules[j]] = IdOf[m]
          PROVE  FALSE
      <4> DEFINE T == {i \in 1 .. k - 1 : loadSkill(Modules[i]) /\ IdOf[Modules[i]] = IdOf[m]}
      <4>1. T \in SUBSET Nat /\ T # {}
        BY <1>1, <3>2
      <4>2. PICK i \in T : \A l \in T : i <= l
        <5> HIDE DEF T
        <5>1. QED BY <4>1, LeastNatural
      <4>3. \A l \in 1 .. i - 1 : l \in 1 .. k - 1 /\ ~ (i <= l)
        BY <4>2
      <4>4. survives(i)
        BY <4>2, <4>3 DEF survives
      <4>5. Modules[i] \in ToSet(was)
        BY <2>2, <4>2, <4>4
      <4>6. QED BY <3>2, <4>2, <4>5
    <3>3. QED BY <3>1, <3>2 DEF isNew, survives
  <2>4. v[k] = IF isNew(was, m) THEN Append(was, m) ELSE was
    BY <1>2 DEF Loading
  <2>5. \A i : i \in 1 .. k <=> i \in 1 .. k - 1 \/ i = k
    BY <2>1
  <2>6. kept(k) = IF survives(k) THEN kept(k - 1) \cup {m} ELSE kept(k - 1)
    <3> HIDE DEF n
    <3>1. QED BY <2>5
  <2>7. ToSet(Append(was, m)) = ToSet(was) \cup {m}
    <3> HIDE DEF was, m
    <3>1. QED BY <2>1, AppendRange
  <2> HIDE DEF was, m, kept
  <2>8. QED BY <2>1, <2>2, <2>3, <2>4, <2>6, <2>7
<1>5. 0 .. n \subseteq S
  <2> HIDE DEF S
  <2>1. QED BY <1>1, <1>3, <1>4, InductionUpTo
<1>6. n \in 0 .. n
  BY <1>1
<1>7. v[n] = loadAll /\ v[n] \in Seq(ToSet(Modules))
  BY <1>2, <1>6 DEF Loading
<1>8. QED BY <1>5, <1>6, <1>7

\* The examples an utterance is compared with are those of the skills that are served.
LEMMA ExamplesAreServed == Examples \in Seq(Declared) /\ ToSet(Examples) = Served /\ Served \subseteq Declared
<1> DEFINE n == Len(loadAll)
           seqs == [i \in DOMAIN loadAll |-> ExamplesOf[loadAll[i]]]
<1>1. n \in Nat /\ DOMAIN loadAll = 1 .. n /\ (\A i \in 1 .. n : loadAll[i] \in ToSet(Modules))
      /\ ToSet(loadAll) = {loadAll[i] : i \in 1 .. n}
  BY LoadedSurvive DEF ToSet
<1>2. DOMAIN Modules = 1 .. Len(Modules)
  BY DispatchAssumption
<1>3. \A m \in ToSet(Modules) : ExamplesOf[m] \in Seq(Declared)
  <2>1. SUFFICES ASSUME NEW m \in ToSet(Modules) PROVE ExamplesOf[m] \in Seq(Declared)
    OBVIOUS
  <2>2. ToSet(ExamplesOf[m]) \subseteq Declared
    BY DEF Declared, ToSet
  <2>3. ExamplesOf[m] \in Seq(ToSet(ExamplesOf[m]))
    BY DispatchAssumption
  <2>4. QED BY <2>2, <2>3, SeqMonotonic
<1>4. seqs \in Seq(Seq(Declared)) /\ Len(seqs) = n
  <2>1. seqs \in [1 .. n -> Seq(Declared)]
    BY <1>1, <1>3
  <2> HIDE DEF n, seqs
  <2>2. QED BY <1>1, <2>1
<1>5. Examples = FlattenSeq(seqs)
  BY DEF Examples
<1>6. Examples \in Seq(Declared) /\ ToSet(Examples) = UNION {ToSet(seqs[i]) : i \in 1 .. n}
  <2> HIDE DEF n, seqs
  <2>1. FlattenSeq(seqs) \in Seq(Declared) /\ ToSet(FlattenSeq(seqs)) = UNION {ToSet(seqs[i]) : i \in 1 .. Len(seqs)}
    BY <1>4, FlattenRange
  <2>2. QED BY <1>4, <1>5, <2>1
<1>7. UNION {ToSet(seqs[i]) : i \in 1 .. n} = UNION {ToSet(ExamplesOf[m]) : m \in ToSet(loadAll)}
  <2>1. \A i \in 1 .. n : seqs[i] = ExamplesOf[loadAll[i]]
    BY <1>1
  <2> HIDE DEF n, seqs
  <2>2. QED BY <1>1, <2>1
<1>8. Served = UNION {ToSet(ExamplesOf[m]) : m \in ToSet(loadAll)}
  BY <1>2, LoadedSurvive DEF Served, survives
<1>9. Served \subseteq Declared
  BY DEF Served, Declared
<1>10. QED BY <1>6, <1>7, <1>8, <1>9

\* What is scored: the similarities of a list of things are finitely many naturals.
LEMMA ImageIsFinite ==
    ASSUME NEW B, NEW q \in Seq(B), NEW f
    PROVE  IsFiniteSet({f[x] : x \in ToSet(q)})
<1>1. q \in [1 .. Len(q) -> B] /\ Len(q) \in Nat /\ ToSet(q) = {q[i] : i \in 1 .. Len(q)}
  BY DEF ToSet
<1> DEFINE T == {f[x] : x \in ToSet(q)}
           g == [i \in 1 .. Len(q) |-> f[q[i]]]
<1>2. g \in Surjection(1 .. Len(q), T)
  BY <1>1 DEF Surjection
<1> HIDE DEF T, g
<1>3. IsFiniteSet(T)
  BY <1>1, <1>2, FS_NatSurjection DEF ExistsSurjection
<1>4. QED BY <1>3 DEF T

\* Whatever is asked of a similarity is a number.
Scored(score) == \A x \in Served : score[x] \in Nat

\* The score of an intent is that of its best example.
LEMMA BestOfIntent ==
    ASSUME NEW score, Scored(score), NEW i \in Intents
    PROVE  /\ best(score, i) \in Nat
           /\ \E x \in Served : IntentOf[x] = i /\ score[x] = best(score, i)
           /\ \A x \in Served : IntentOf[x] = i => score[x] <= best(score, i)
<1> DEFINE T == {score[e] : e \in {x \in ToSet(Examples) : IntentOf[x] = i}}
<1>1. Examples \in Seq(Declared) /\ ToSet(Examples) = Served /\ Served \subseteq Declared
  BY ExamplesAreServed
<1>2. T \in SUBSET Nat /\ T # {}
  <2>1. PICK x \in ToSet(Examples) : IntentOf[x] = i
    BY DEF Intents
  <2>2. QED BY <1>1, <2>1 DEF Scored
<1>3. IsFiniteSet(T)
  <2>1. IsFiniteSet({score[x] : x \in ToSet(Examples)})
    BY <1>1, ImageIsFinite
  <2>2. T \subseteq {score[x] : x \in ToSet(Examples)}
    OBVIOUS
  <2> HIDE DEF T
  <2>3. QED BY <2>1, <2>2, FS_Subset
<1>4. Max(T) \in T /\ \A y \in T : y <= Max(T)
  <2> HIDE DEF T
  <2>1. PICK b \in Nat : \A y \in T : y <= b
    BY <1>2, <1>3, FiniteIsBounded
  <2>2. QED BY <1>2, <2>1, MaxIsGreatest
<1>5. best(score, i) = Max(T)
  BY DEF best
<1>6. QED BY <1>1, <1>2, <1>4, <1>5

\* No two intents are first met at the same example.
LEMMA FirstMetAt ==
    ASSUME NEW i \in Intents
    PROVE  firstMet(i) \in Nat /\ IntentOf[Examples[firstMet(i)]] = i
<1> DEFINE T == {n \in DOMAIN Examples : IntentOf[Examples[n]] = i}
<1>1. Examples \in Seq(Declared)
  BY ExamplesAreServed
<1>2. T \in SUBSET Nat
  BY <1>1
<1>3. T # {}
  BY DEF Intents, ToSet
<1>4. Min(T) \in T
  <2> HIDE DEF T
  <2>1. QED BY <1>2, <1>3, MinIsLeast
<1>5. QED BY <1>2, <1>4 DEF firstMet

\* The intents of a lane, and the order dispatch ranks them in, as a set of pairs.
ofLane(lane) == {i \in Intents : lane \in LanesOf[i]}

CandidateOrder(score, lane) ==
    {p \in ofLane(lane) \X ofLane(lane) :
        \/ best(score, p[1]) > best(score, p[2])
        \/ best(score, p[1]) = best(score, p[2]) /\ firstMet(p[1]) < firstMet(p[2])}

\* dispatch ranks all the intents of the lane, whatever the scores.
LEMMA CandidatesRank ==
    ASSUME NEW score, Scored(score), NEW lane
    PROVE  IsRanking(laneFiltered(score, lane), ofLane(lane), CandidateOrder(score, lane))
<1> DEFINE L == ofLane(lane)
           R == CandidateOrder(score, lane)
           sc(i) == best(score, i)
<1>1. IsFiniteSet(L)
  <2>1. IsFiniteSet(Intents)
    BY ExamplesAreServed, ImageIsFinite DEF Intents
  <2>2. L \subseteq Intents
    BY DEF ofLane
  <2>3. QED BY <2>1, <2>2, FS_Subset
<1>2. \A i \in L : sc(i) \in Nat /\ firstMet(i) \in Nat /\ IntentOf[Examples[firstMet(i)]] = i
  BY BestOfIntent, FirstMetAt DEF ofLane
<1>3. \A x, y \in L : <<x, y>> \in R <=> (sc(x) > sc(y) \/ (sc(x) = sc(y) /\ firstMet(x) < firstMet(y)))
  BY DEF CandidateOrder
<1>4. Orders(R, L)
  <2> HIDE DEF R, L, sc
  <2>1. \A x \in L : <<x, x>> \notin R
    BY <1>2, <1>3
  <2>2. \A x, y, z \in L : <<x, y>> \in R /\ <<y, z>> \in R => <<x, z>> \in R
    BY <1>2, <1>3
  <2>3. \A x, y \in L : x # y => <<x, y>> \in R \/ <<y, x>> \in R
    <3>1. SUFFICES ASSUME NEW x \in L, NEW y \in L, x # y PROVE <<x, y>> \in R \/ <<y, x>> \in R
      OBVIOUS
    <3>2. firstMet(x) # firstMet(y)
      BY <1>2, <3>1
    <3>3. sc(x) \in Nat /\ sc(y) \in Nat /\ firstMet(x) \in Nat /\ firstMet(y) \in Nat
      BY <1>2
    <3>4. QED BY <1>3, <3>2, <3>3
  <2>4. QED BY <2>1, <2>2, <2>3 DEF Orders
<1>5. laneFiltered(score, lane) =
        [n \in 1 .. Cardinality(L) |-> CHOOSE x \in L : Cardinality({y \in L : <<y, x>> \in R}) = n - 1]
  <2>1. laneFiltered(score, lane) =
          [n \in 1 .. Cardinality(L) |->
             CHOOSE x \in L :
                Cardinality({y \in L : sc(y) > sc(x) \/ (sc(y) = sc(x) /\ firstMet(y) < firstMet(x))}) = n - 1]
    BY DEF laneFiltered, ranked, ofLane
  <2> HIDE DEF sc, R, L
  <2>2. \A x \in L : {y \in L : <<y, x>> \in R} =
                     {y \in L : sc(y) > sc(x) \/ (sc(y) = sc(x) /\ firstMet(y) < firstMet(x))}
    BY <1>3
  <2>3. QED BY <2>1, <2>2
<1>6. QED
  <2> HIDE DEF R, L
  <2>1. IsRanking(laneFiltered(score, lane), L, R)
    BY <1>1, <1>4, <1>5, CountingSorts
  <2>2. QED BY <2>1 DEF L, R

\* The reference, of intents: those of the lane that score well and beat every other.
LEMMA UnrivalledIntents ==
    ASSUME NEW score, Scored(score), NEW lane, NEW i
    PROVE  i \in Unrivalled(score, lane) <=>
               /\ i \in ofLane(lane) /\ best(score, i) >= DISPATCH_SCORE
               /\ \A j \in ofLane(lane) : j # i => best(score, j) + DISPATCH_MARGIN <= best(score, i)
<1>1. ToSet(Examples) = Served /\ Served \subseteq Declared /\ \A x \in Served : score[x] \in Nat
  BY ExamplesAreServed DEF Scored
<1>2. \A x \in Served : IntentOf[x] \in Intents
  BY <1>1 DEF Intents
<1>3. DISPATCH_SCORE \in Nat /\ DISPATCH_MARGIN \in Nat
  BY DEF DISPATCH_SCORE, DISPATCH_MARGIN
<1>4. ASSUME i \in Unrivalled(score, lane)
      PROVE  /\ i \in ofLane(lane) /\ best(score, i) >= DISPATCH_SCORE
             /\ \A j \in ofLane(lane) : j # i => best(score, j) + DISPATCH_MARGIN <= best(score, i)
  <2>1. PICK x \in Served :
           /\ IntentOf[x] = i /\ lane \in LanesOf[i] /\ score[x] >= DISPATCH_SCORE
           /\ \A y \in Served : IntentOf[y] # i /\ lane \in LanesOf[IntentOf[y]]
                => \E z \in Served : IntentOf[z] = i /\ score[y] + DISPATCH_MARGIN <= score[z]
    BY <1>4 DEF Unrivalled
  <2>2. i \in ofLane(lane) /\ i \in Intents
    BY <1>2, <2>1 DEF ofLane
  <2>3. best(score, i) \in Nat /\ \A z \in Served : IntentOf[z] = i => score[z] <= best(score, i)
    BY <2>2, BestOfIntent
  <2>4. best(score, i) >= DISPATCH_SCORE
    BY <1>1, <1>3, <2>1, <2>3
  <2>5. ASSUME NEW j \in ofLane(lane), j # i PROVE best(score, j) + DISPATCH_MARGIN <= best(score, i)
    <3>1. j \in Intents /\ lane \in LanesOf[j]
      BY DEF ofLane
    <3>2. PICK y \in Served : IntentOf[y] = j /\ score[y] = best(score, j)
      BY <3>1, BestOfIntent
    <3>3. PICK z \in Served : IntentOf[z] = i /\ score[y] + DISPATCH_MARGIN <= score[z]
      BY <2>1, <2>5, <3>1, <3>2
    <3>4. QED BY <1>1, <1>3, <2>3, <3>2, <3>3
  <2>6. QED BY <2>2, <2>4, <2>5
<1>5. ASSUME i \in ofLane(lane), best(score, i) >= DISPATCH_SCORE,
             \A j \in ofLane(lane) : j # i => best(score, j) + DISPATCH_MARGIN <= best(score, i)
      PROVE  i \in Unrivalled(score, lane)
  <2>1. i \in Intents /\ lane \in LanesOf[i]
    BY <1>5 DEF ofLane
  <2>2. PICK x \in Served : IntentOf[x] = i /\ score[x] = best(score, i)
    BY <2>1, BestOfIntent
  <2>3. ASSUME NEW y \in Served, IntentOf[y] # i, lane \in LanesOf[IntentOf[y]]
        PROVE  score[y] + DISPATCH_MARGIN <= score[x]
    <3>1. IntentOf[y] \in ofLane(lane) /\ IntentOf[y] \in Intents
      BY <1>2, <2>3 DEF ofLane
    <3>2. score[y] <= best(score, IntentOf[y]) /\ best(score, IntentOf[y]) \in Nat
      BY <3>1, BestOfIntent
    <3>3. best(score, IntentOf[y]) + DISPATCH_MARGIN <= best(score, i)
      BY <1>5, <2>3, <3>1
    <3>4. QED BY <1>1, <1>3, <2>2, <3>2, <3>3
  <2>4. QED BY <1>5, <2>1, <2>2, <2>3 DEF Unrivalled
<1>6. QED BY <1>4, <1>5

\* The first of a lane's candidates scores no less than the second, the second no less
\* than any other, and only the first can be without a rival.
LEMMA CandidatesInOrder ==
    ASSUME NEW score, Scored(score), NEW lane
    PROVE  /\ laneFiltered(score, lane) \in Seq(ofLane(lane))
           /\ Len(laneFiltered(score, lane)) = Cardinality(ofLane(lane))
           /\ \A i \in ofLane(lane) : \E n \in 1 .. Len(laneFiltered(score, lane)) : laneFiltered(score, lane)[n] = i
           /\ \A m, n \in 1 .. Len(laneFiltered(score, lane)) :
                 /\ m <= n => best(score, laneFiltered(score, lane)[m]) >= best(score, laneFiltered(score, lane)[n])
                 /\ laneFiltered(score, lane)[m] = laneFiltered(score, lane)[n] => m = n
           /\ \A i \in ofLane(lane) : best(score, i) \in Nat
<1> DEFINE q == laneFiltered(score, lane)
           L == ofLane(lane)
           R == CandidateOrder(score, lane)
<1>1. IsRanking(q, L, R)
  BY CandidatesRank
<1>2. \A i \in L : best(score, i) \in Nat
  BY BestOfIntent DEF ofLane
<1>3. \A x, y \in L : <<x, y>> \in R => best(score, x) >= best(score, y)
  BY <1>2 DEF CandidateOrder
<1> HIDE DEF q, L, R
<1>4. q \in Seq(L) /\ Len(q) \in Nat /\ \A n \in 1 .. Len(q) : q[n] \in L
  BY <1>1 DEF IsRanking
<1>5. ASSUME NEW m \in 1 .. Len(q), NEW n \in 1 .. Len(q), m <= n
      PROVE  best(score, q[m]) >= best(score, q[n])
  <2>1. CASE m = n
    BY <1>2, <1>4, <2>1
  <2>2. CASE m # n
    <3>1. m < n
      BY <1>4, <1>5, <2>2
    <3>2. <<q[m], q[n]>> \in R
      BY <1>1, <3>1 DEF IsRanking
    <3>3. QED BY <1>3, <1>4, <3>2
  <2>3. QED BY <2>1, <2>2
<1>6. QED BY <1>1, <1>2, <1>4, <1>5 DEF IsRanking, q, L

\* What is served to a lane is of its intents, and each of them is served by its best example.
LEMMA ServedIntents ==
    ASSUME NEW score, Scored(score), NEW lane
    PROVE  /\ {IntentOf[x] : x \in ServedTo(lane)} = ofLane(lane)
           /\ \A x \in ServedTo(lane) :
                 IntentOf[x] \in ofLane(lane) /\ score[x] \in Nat /\ score[x] <= best(score, IntentOf[x])
           /\ \A i \in ofLane(lane) :
                 /\ best(score, i) \in Nat
                 /\ \E x \in ServedTo(lane) : IntentOf[x] = i /\ score[x] = best(score, i)
<1>1. ToSet(Examples) = Served
  BY ExamplesAreServed
<1>2. \A x \in ServedTo(lane) : IntentOf[x] \in ofLane(lane) /\ IntentOf[x] \in Intents /\ x \in Served
  BY <1>1 DEF ServedTo, ofLane, Intents
<1>3. \A x \in ServedTo(lane) : score[x] \in Nat /\ score[x] <= best(score, IntentOf[x])
  BY <1>2, BestOfIntent DEF Scored
<1>4. ASSUME NEW i \in ofLane(lane)
      PROVE  /\ best(score, i) \in Nat
             /\ \E x \in ServedTo(lane) : IntentOf[x] = i /\ score[x] = best(score, i)
  BY BestOfIntent DEF ofLane, ServedTo
<1>5. QED BY <1>2, <1>3, <1>4

\* Nothing is found exactly when nothing that is served to the lane is similar at all.
LEMMA NoneMatches ==
    ASSUME NEW score, Scored(score), NEW lane
    PROVE  Hopeless(score, lane) <=>
               \/ laneFiltered(score, lane) = <<>>
               \/ best(score, laneFiltered(score, lane)[1]) < CANDIDATE_FLOOR
<1> DEFINE q == laneFiltered(score, lane)
           L == ofLane(lane)
           b(i) == best(score, i)
<1>1. /\ q \in Seq(L)
      /\ \A i \in L : \E n \in 1 .. Len(q) : q[n] = i
      /\ \A m, n \in 1 .. Len(q) : m <= n => b(q[m]) >= b(q[n])
      /\ \A i \in L : b(i) \in Nat
  BY CandidatesInOrder
<1>2. /\ \A x \in ServedTo(lane) : IntentOf[x] \in L /\ score[x] \in Nat /\ score[x] <= b(IntentOf[x])
      /\ \A i \in L : \E x \in ServedTo(lane) : IntentOf[x] = i /\ score[x] = b(i)
  BY ServedIntents
<1> HIDE DEF q, L, b
<1>3. CASE q = <<>>
  <2>1. Len(q) = 0
    BY <1>3
  <2>2. L = {}
    BY <1>1, <2>1
  <2>3. QED BY <1>2, <1>3, <2>2 DEF Hopeless, q
<1>4. CASE q # <<>>
  <2>1. 1 \in 1 .. Len(q)
    <3>1. Len(q) # 0 /\ Len(q) \in Nat
      BY <1>1, <1>4, EmptySeq
    <3>2. QED BY <3>1
  <2>2. q[1] \in L /\ b(q[1]) \in Nat
    BY <1>1, <2>1
  <2>3. \A i \in L : b(i) <= b(q[1]) /\ b(i) \in Nat
    <3>1. SUFFICES ASSUME NEW i \in L PROVE b(i) <= b(q[1]) /\ b(i) \in Nat
      OBVIOUS
    <3>2. PICK n \in 1 .. Len(q) : q[n] = i
      BY <1>1
    <3>3. b(q[1]) >= b(q[n])
      BY <1>1, <2>1
    <3>4. QED BY <1>1, <2>2, <3>2, <3>3
  <2>4. CANDIDATE_FLOOR \in Nat
    BY DEF CANDIDATE_FLOOR
  <2>5. ASSUME b(q[1]) < CANDIDATE_FLOOR, NEW x \in ServedTo(lane) PROVE score[x] < CANDIDATE_FLOOR
    <3>1. score[x] <= b(IntentOf[x]) /\ b(IntentOf[x]) <= b(q[1]) /\ b(IntentOf[x]) \in Nat /\ score[x] \in Nat
      BY <1>2, <2>3
    <3>2. QED BY <2>2, <2>4, <2>5, <3>1
  <2>6. ASSUME Hopeless(score, lane) PROVE b(q[1]) < CANDIDATE_FLOOR
    BY <1>2, <2>2, <2>6 DEF Hopeless
  <2>7. QED BY <1>4, <2>5, <2>6 DEF Hopeless, q, b
<1>5. QED BY <1>3, <1>4

\* The first few of the ranking are those the reference has a model asked about.
LEMMA FirstFew ==
    ASSUME NEW score, Scored(score), NEW lane
    PROVE  IsShortlist(score, lane,
                       {laneFiltered(score, lane)[n] :
                            n \in 1 .. Min({Len(laneFiltered(score, lane)), DISAMBIGUATION_SHORTLIST})})
<1> DEFINE q == laneFiltered(score, lane)
           L == ofLane(lane)
           b(i) == best(score, i)
           m == Min({Len(q), DISAMBIGUATION_SHORTLIST})
           few == {q[n] : n \in 1 .. m}
<1>1. /\ q \in Seq(L) /\ Len(q) = Cardinality(L)
      /\ \A i \in L : \E n \in 1 .. Len(q) : q[n] = i
      /\ \A j, n \in 1 .. Len(q) : (j <= n => b(q[j]) >= b(q[n])) /\ (q[j] = q[n] => j = n)
      /\ \A i \in L : b(i) \in Nat
  BY CandidatesInOrder
<1>2. /\ {IntentOf[x] : x \in ServedTo(lane)} = L
      /\ \A x \in ServedTo(lane) : IntentOf[x] \in L /\ score[x] \in Nat /\ score[x] <= b(IntentOf[x])
      /\ \A i \in L : \E x \in ServedTo(lane) : IntentOf[x] = i /\ score[x] = b(i)
  BY ServedIntents
<1>3. ServedTo(lane) \subseteq Served
  BY DEF ServedTo
<1> HIDE DEF q, L, b
<1>4. m \in Nat /\ m <= Len(q) /\ Len(q) \in Nat
  <2>1. Len(q) \in Nat
    BY <1>1
  <2>2. QED BY <2>1, MinOfTwo DEF DISAMBIGUATION_SHORTLIST
<1>5. m = Min({Cardinality(L), DISAMBIGUATION_SHORTLIST})
  BY <1>1
<1> HIDE DEF m
<1>6. \A n \in 1 .. m : n \in 1 .. Len(q) /\ q[n] \in L
  <2>1. \A n \in 1 .. m : n \in 1 .. Len(q)
    BY <1>4
  <2>2. QED BY <1>1, <2>1
<1>7. few \subseteq L
  BY <1>6
<1>8. Cardinality(few) = m
  <2> DEFINE f == [n \in 1 .. m |-> q[n]]
  <2>1. f \in Surjection(1 .. m, few)
    BY DEF Surjection
  <2>2. f \in Injection(1 .. m, few)
    BY <1>1, <1>6 DEF Injection, IsInjective
  <2> HIDE DEF f, few
  <2>3. ExistsBijection(1 .. m, few)
    BY <2>1, <2>2 DEF ExistsBijection, Bijection
  <2>4. QED BY <1>4, <2>3, FS_CountingElements
<1>9. ASSUME NEW i \in few, NEW y \in ServedTo(lane), IntentOf[y] \notin few
      PROVE  \E x \in Served : IntentOf[x] = i /\ score[y] <= score[x]
  <2>1. PICK n \in 1 .. m : i = q[n]
    OBVIOUS
  <2>2. PICK j \in 1 .. Len(q) : q[j] = IntentOf[y]
    BY <1>1, <1>2
  <2>3. n <= j
    <3>1. j \notin 1 .. m
      BY <1>9, <2>2
    <3>2. QED BY <1>4, <3>1
  <2>4. b(q[n]) >= b(q[j])
    BY <1>1, <1>6, <2>3
  <2>5. PICK x \in ServedTo(lane) : IntentOf[x] = i /\ score[x] = b(i)
    BY <1>2, <1>7
  <2>6. score[y] <= b(q[j]) /\ score[y] \in Nat /\ b(q[j]) \in Nat /\ b(q[n]) \in Nat
    BY <1>1, <1>2, <1>6, <2>2
  <2>7. score[y] <= score[x]
    BY <2>1, <2>4, <2>5, <2>6
  <2>8. QED BY <1>3, <2>5, <2>7
<1> HIDE DEF few
<1>10. IsShortlist(score, lane, few)
  BY <1>2, <1>5, <1>7, <1>8, <1>9 DEF IsShortlist
<1>11. QED BY <1>10 DEF few, m, q

\* What dispatch decides by itself is what the reference decides, whatever the scores.
LEMMA DecisionMatches ==
    ASSUME NEW score, Scored(score), NEW lane
    PROVE  /\ decide(score, lane).to = "none" <=> Hopeless(score, lane)
           /\ decide(score, lane).to = "run" <=> /\ decide(score, lane).among = Unrivalled(score, lane)
                                                 /\ decide(score, lane).among # {}
           /\ decide(score, lane).to = "ask" => IsShortlist(score, lane, decide(score, lane).among)
<1> DEFINE q == laneFiltered(score, lane)
           L == ofLane(lane)
           U == Unrivalled(score, lane)
           d == decide(score, lane)
           b(i) == best(score, i)
<1>1. /\ q \in Seq(L)
      /\ \A i \in L : \E n \in 1 .. Len(q) : q[n] = i
      /\ \A m, n \in 1 .. Len(q) : (m <= n => b(q[m]) >= b(q[n])) /\ (q[m] = q[n] => m = n)
      /\ \A i \in L : b(i) \in Nat
  BY CandidatesInOrder
<1>2. \A i : i \in U <=> /\ i \in L /\ b(i) >= 72
                         /\ \A j \in L : j # i => b(j) + 8 <= b(i)
  BY UnrivalledIntents DEF DISPATCH_SCORE, DISPATCH_MARGIN
<1>3. d = IF q = <<>> \/ b(q[1]) < CANDIDATE_FLOOR
          THEN [to |-> "none", among |-> {}]
          ELSE IF clearWinner(score, q)
               THEN [to |-> "run", among |-> {q[1]}]
               ELSE [to |-> "ask", among |-> {q[n] : n \in 1 .. Min({Len(q), DISAMBIGUATION_SHORTLIST})}]
  BY DEF decide
<1>4. clearWinner(score, q) <=> b(q[1]) >= 72 /\ (Len(q) > 1 => b(q[1]) - b(q[2]) >= 8)
  BY DEF clearWinner, DISPATCH_SCORE, DISPATCH_MARGIN
<1> HIDE DEF q, L, U, d, b
<1>5. Len(q) \in Nat /\ (q # <<>> => Len(q) >= 1) /\ \A n \in 1 .. Len(q) : q[n] \in L /\ b(q[n]) \in Nat
  <2>1. Len(q) \in Nat /\ (q # <<>> => Len(q) >= 1) /\ \A n \in 1 .. Len(q) : q[n] \in L
    BY <1>1
  <2>2. QED BY <1>1, <2>1
<1>6. ASSUME q # <<>> PROVE (U = {q[1]} <=> clearWinner(score, q)) /\ (U # {} => U = {q[1]})
  <2>1. 1 \in 1 .. Len(q) /\ q[1] \in L /\ b(q[1]) \in Nat
    BY <1>5, <1>6
  <2>2. \A j \in L : b(j) <= b(q[1]) /\ b(j) \in Nat
    <3>1. SUFFICES ASSUME NEW j \in L PROVE b(j) <= b(q[1]) /\ b(j) \in Nat
      OBVIOUS
    <3>2. PICK n \in 1 .. Len(q) : q[n] = j
      BY <1>1
    <3>3. 1 <= n
      OBVIOUS
    <3>4. b(q[1]) >= b(q[n])
      BY <1>1, <2>1, <3>3
    <3>5. QED BY <1>1, <2>1, <3>2, <3>4
  <2>3. \A i \in U : i = q[1]
    <3>1. SUFFICES ASSUME NEW i \in U, i # q[1] PROVE FALSE
      OBVIOUS
    <3>2. i \in L /\ b(q[1]) + 8 <= b(i)
      BY <1>2, <2>1, <3>1
    <3>3. QED BY <2>1, <2>2, <3>2
  <2>4. ASSUME clearWinner(score, q), NEW j \in L, j # q[1] PROVE b(j) + 8 <= b(q[1])
    <3>1. PICK n \in 1 .. Len(q) : q[n] = j
      BY <1>1
    <3>2. n # 1
      BY <2>4, <3>1
    <3>3. 2 \in 1 .. Len(q) /\ 2 <= n /\ Len(q) > 1
      BY <1>5, <3>2
    <3>4. b(q[2]) >= b(q[n]) /\ b(q[2]) \in Nat
      BY <1>1, <1>5, <3>3
    <3>5. b(q[1]) - b(q[2]) >= 8
      BY <1>4, <2>4, <3>3
    <3>6. QED BY <1>1, <2>1, <3>1, <3>4, <3>5
  <2>5. clearWinner(score, q) => q[1] \in U
    BY <1>2, <1>4, <2>1, <2>4
  <2>6. ASSUME q[1] \in U PROVE clearWinner(score, q)
    <3>1. b(q[1]) >= 72
      BY <1>2, <2>6
    <3>2. ASSUME Len(q) > 1 PROVE b(q[1]) - b(q[2]) >= 8
      <4>1. 2 \in 1 .. Len(q)
        BY <1>5, <3>2
      <4>2. q[2] \in L /\ q[2] # q[1] /\ b(q[2]) \in Nat
        BY <1>1, <1>5, <2>1, <4>1
      <4>3. b(q[2]) + 8 <= b(q[1])
        BY <1>2, <2>6, <4>2
      <4>4. QED BY <2>1, <4>2, <4>3
    <3>3. QED BY <1>4, <3>1, <3>2
  <2>7. QED BY <2>3, <2>5, <2>6
<1>7. SUFFICES /\ d.to = "none" <=> (q = <<>> \/ b(q[1]) < CANDIDATE_FLOOR)
               /\ d.to = "run" <=> d.among = U /\ d.among # {}
               /\ d.to = "ask" => d.among = {q[n] : n \in 1 .. Min({Len(q), DISAMBIGUATION_SHORTLIST})}
  BY NoneMatches, FirstFew DEF d, U, q, b
<1>8. CASE q = <<>> \/ b(q[1]) < CANDIDATE_FLOOR
  <2>1. d = [to |-> "none", among |-> {}]
    BY <1>3, <1>8, Zenon
  <2>2. d.to = "none" /\ d.among = {}
    BY <2>1
  <2>3. QED BY <1>8, <2>2
<1>9. CASE ~ (q = <<>> \/ b(q[1]) < CANDIDATE_FLOOR) /\ clearWinner(score, q)
  <2>1. d = [to |-> "run", among |-> {q[1]}]
    BY <1>3, <1>9, Zenon
  <2>2. d.to = "run" /\ d.among = {q[1]}
    BY <2>1
  <2>3. QED BY <1>6, <1>9, <2>2
<1>10. CASE ~ (q = <<>> \/ b(q[1]) < CANDIDATE_FLOOR) /\ ~ clearWinner(score, q)
  <2> DEFINE few == {q[n] : n \in 1 .. Min({Len(q), DISAMBIGUATION_SHORTLIST})}
  <2>1. d = [to |-> "ask", among |-> few]
    BY <1>3, <1>10, Zenon
  <2> HIDE DEF few
  <2>2. d.to = "ask" /\ d.among = few
    BY <2>1
  <2>3. U = {}
    BY <1>6, <1>10
  <2>4. QED BY <1>10, <2>2, <2>3 DEF few
<1>11. QED BY <1>8, <1>9, <1>10

\* Of every lane, dispatch gives up, runs a skill without asking a model, and asks one about
\* the best few, as the reference has it, whatever skills are installed, in whatever order,
\* and whatever the similarities.
LEMMA EveryLaneDecidesAlike == DecidesAlike = AllLanes
<1>1. ASSUME NEW l \in AllLanes PROVE DecidesLike(l)
  <2>1. SUFFICES ASSUME NEW score \in [Declared -> Scores]
                 PROVE  /\ decide(score, l).to = "none" <=> Hopeless(score, l)
                        /\ decide(score, l).to = "run" <=> /\ decide(score, l).among = Unrivalled(score, l)
                                                           /\ decide(score, l).among # {}
                        /\ decide(score, l).to = "ask" => IsShortlist(score, l, decide(score, l).among)
    BY DEF DecidesLike
  <2>2. Scored(score)
    BY ReplyAssumption, ExamplesAreServed DEF Scored
  <2>3. QED BY <2>2, DecisionMatches
<1>2. QED BY <1>1 DEF DecidesAlike

\* A turn only ever has a lane whose utterances are dispatched as the reference has it.
THEOREM DispatchDecidesReference == ReplySpec => []DecisionIsReference
<1>1. ReplyIInv => DecisionIsReference
  BY EveryLaneDecidesAlike DEF ReplyIInv, FlowTypeOK, DecisionIsReference
<1>2. QED BY <1>1, ReplyInvariant, PTL

\* A model is asked to choose among a few intents of the lane.
fewOf(S, lane) == S \subseteq ofLane(lane) /\ IsFiniteSet(S) /\ Cardinality(S) <= DISAMBIGUATION_SHORTLIST

LEMMA ShortlistFacts ==
    ASSUME NEW score, Scored(score), NEW lane
    PROVE  fewOf(decide(score, lane).among, lane)
<1> DEFINE q == laneFiltered(score, lane)
           m == Min({Len(q), DISAMBIGUATION_SHORTLIST})
           few == {q[n] : n \in 1 .. m}
<1>1. q \in Seq(ofLane(lane)) /\ Len(q) \in Nat /\ \A n \in 1 .. Len(q) : q[n] \in ofLane(lane)
  BY CandidatesInOrder
<1>2. m \in Nat /\ m <= Len(q) /\ m <= 3
  <2> HIDE DEF q
  <2>1. QED BY <1>1, MinOfTwo DEF DISAMBIGUATION_SHORTLIST
<1>3. decide(score, lane).among \in {{}, {q[1]}, few} /\ (q = <<>> => decide(score, lane).among = {})
  BY DEF decide
<1> HIDE DEF q, m
<1>4. fewOf(few, lane)
  <2>1. few \subseteq ofLane(lane)
    BY <1>1, <1>2
  <2> DEFINE f == [n \in 1 .. m |-> q[n]]
  <2>2. f \in Surjection(1 .. m, few)
    BY DEF Surjection
  <2> HIDE DEF f, few
  <2>3. ExistsSurjection(1 .. m, few)
    BY <2>2 DEF ExistsSurjection
  <2>4. IsFiniteSet(few) /\ Cardinality(few) <= m /\ Cardinality(few) \in Nat
    BY <1>2, <2>3, FS_NatSurjection, FS_SurjCardinalityBound, FS_CardinalityType
  <2>5. QED BY <1>2, <2>1, <2>4 DEF fewOf, DISAMBIGUATION_SHORTLIST
<1>5. fewOf({}, lane)
  BY FS_EmptySet DEF fewOf, DISAMBIGUATION_SHORTLIST
<1>6. ASSUME q # <<>> PROVE fewOf({q[1]}, lane)
  <2>1. 1 \in 1 .. Len(q)
    <3>1. Len(q) # 0
      BY <1>1, <1>6, EmptySeq
    <3>2. QED BY <1>1, <3>1
  <2>2. {q[1]} \subseteq ofLane(lane)
    BY <1>1, <2>1
  <2>3. IsFiniteSet({q[1]}) /\ Cardinality({q[1]}) = 1
    BY FS_Singleton
  <2>4. QED BY <2>2, <2>3 DEF fewOf, DISAMBIGUATION_SHORTLIST
<1> HIDE DEF few
<1>7. QED BY <1>3, <1>4, <1>5, <1>6

\* What a model may choose among: nothing but while it is asked, and then a few intents of
\* the utterance's own lane.
Shortlisted ==
    /\ among \in [Turns -> SUBSET Intents]
    /\ \A t \in Turns : fewOf(among[t], laneOf[t]) /\ (among[t] # {} => stage[t] = "disambiguating")

LEMMA ShortlistGone ==
    ASSUME Shortlisted, FlowTypeOK, NEW t \in Turns, among' = [among EXCEPT ![t] = {}],
           \A u \in Turns \ {t} : laneOf'[u] = laneOf[u] /\ stage'[u] = stage[u]
    PROVE  Shortlisted'
<1>1. fewOf({}, laneOf'[t])
  BY FS_EmptySet DEF fewOf, DISAMBIGUATION_SHORTLIST
<1>2. among' \in [Turns -> SUBSET Intents] /\ among'[t] = {} /\ \A u \in Turns \ {t} : among'[u] = among[u]
  BY DEF Shortlisted
<1>3. ASSUME NEW u \in Turns
      PROVE  fewOf(among'[u], laneOf'[u]) /\ (among'[u] # {} => stage'[u] = "disambiguating")
  <2>1. CASE u = t
    BY <1>1, <1>2, <2>1
  <2>2. CASE u # t
    BY <1>2, <2>2 DEF Shortlisted
  <2>3. QED BY <2>1, <2>2
<1>4. QED BY <1>2, <1>3 DEF Shortlisted

LEMMA ShortlistStep == Shortlisted /\ FlowTypeOK /\ [ReplyNext]_replyVars => Shortlisted'
<1> SUFFICES ASSUME Shortlisted, FlowTypeOK, [ReplyNext]_replyVars PROVE Shortlisted'
  OBVIOUS
<1>1. CASE UNCHANGED <<stage, laneOf, among>>
  BY <1>1 DEF Shortlisted
<1>2. ASSUME NEW t \in Turns, NEW rest, NEW reply, ends(t, rest, reply) PROVE Shortlisted'
  BY <1>2, ShortlistGone DEF ends, FlowTypeOK
<1>3. ASSUME NEW t \in Turns, NEW to, goes(t, to), UNCHANGED among,
             \A u \in Turns : among[u] # {} => u # t, \A u \in Turns \ {t} : laneOf'[u] = laneOf[u]
      PROVE  Shortlisted'
  <2>1. among[t] = {}
    BY <1>3
  <2>2. among' = [among EXCEPT ![t] = {}]
    BY <1>3, <2>1 DEF Shortlisted
  <2>3. QED BY <1>3, <2>2, ShortlistGone DEF goes, FlowTypeOK
<1>4. ASSUME NEW t \in Turns, Dispatches(t) PROVE Shortlisted'
  <2>1. \A u \in Turns : among[u] # {} => stage[u] = "disambiguating"
    BY DEF Shortlisted
  <2>2. CASE HearsPleasantry(t) \/ HearsRequest(t)
    BY <1>3, <2>1, <2>2 DEF HearsPleasantry, HearsRequest
  <2>3. CASE Classified(t)
    BY <1>3, <2>1, <2>3 DEF Classified, FlowTypeOK
  <2>4. CASE ClassificationInvalid(t) \/ MatchThrows(t)
    BY <1>2, <2>4 DEF ClassificationInvalid, MatchThrows, fails
  <2>5. CASE Disambiguated(t)
    BY <2>5, ShortlistGone DEF Disambiguated, goes, FlowTypeOK
  <2>6. ASSUME noSkill(t) PROVE Shortlisted'
    <3>1. CASE ends(t, matchReflex, matchReflex)
      BY <1>2, <3>1
    <3>2. CASE goes(t, "recalling") /\ laneOf' = [laneOf EXCEPT ![t] = "converse"] /\ among' = [among EXCEPT ![t] = {}]
      BY <3>2, ShortlistGone DEF goes, FlowTypeOK
    <3>3. QED BY <2>6, <3>1, <3>2 DEF noSkill
  <2>7. CASE NoneChosen(t)
    BY <2>6, <2>7 DEF NoneChosen
  <2>8. CASE Matched(t)
    <3>1. PICK d \in Decisions[laneOf[t]] :
             \/ noSkill(t)
             \/ goes(t, "handling") /\ UNCHANGED <<laneOf, among>>
             \/ /\ goes(t, "disambiguating") /\ among' = [among EXCEPT ![t] = d.among]
                /\ UNCHANGED laneOf
      BY <2>8 DEF Matched
    <3>2. CASE goes(t, "handling") /\ UNCHANGED <<laneOf, among>>
      BY <1>3, <2>1, <2>8, <3>2 DEF Matched
    <3>3. CASE goes(t, "disambiguating") /\ among' = [among EXCEPT ![t] = d.among] /\ UNCHANGED laneOf
      <4>1. laneOf[t] \in AllLanes
        BY DEF FlowTypeOK
      <4>2. PICK score \in [ToSet(Examples) -> Scores] : d = decide(score, laneOf[t])
        BY <4>1 DEF Decisions
      <4>3. Scored(score)
        BY <4>2, ReplyAssumption, ExamplesAreServed DEF Scored
      <4>4. fewOf(d.among, laneOf[t])
        BY <4>2, <4>3, ShortlistFacts
      <4>5. d.among \subseteq Intents
        BY <4>4 DEF fewOf, ofLane
      <4>6. /\ among' \in [Turns -> SUBSET Intents] /\ among'[t] = d.among /\ stage'[t] = "disambiguating"
            /\ \A u \in Turns \ {t} : among'[u] = among[u] /\ stage'[u] = stage[u]
        BY <3>3, <4>5 DEF Shortlisted, FlowTypeOK, goes
      <4>7. ASSUME NEW u \in Turns
            PROVE  fewOf(among'[u], laneOf'[u]) /\ (among'[u] # {} => stage'[u] = "disambiguating")
        <5>1. CASE u = t
          BY <3>3, <4>4, <4>6, <5>1
        <5>2. CASE u # t
          BY <3>3, <4>6, <5>2 DEF Shortlisted
        <5>3. QED BY <5>1, <5>2
      <4>8. QED BY <4>6, <4>7 DEF Shortlisted
    <3>4. QED BY <2>6, <3>1, <3>2, <3>3
  <2>9. QED BY <1>4, <2>2, <2>3, <2>4, <2>5, <2>7, <2>8 DEF Dispatches
<1>5. ASSUME NEW t \in Turns, Converses(t) PROVE Shortlisted'
  <2>1. CASE Recalled(t)
    BY <1>3, <2>1 DEF Recalled, Shortlisted
  <2>2. CASE RecallThrows(t)
    BY <1>2, <2>2 DEF RecallThrows, fails
  <2>3. CASE ReplyStreams(t)
    BY <1>1, <2>3 DEF ReplyStreams, turnVars
  <2>4. CASE ReplyComplete(t)
    BY <1>2, <2>4 DEF ReplyComplete
  <2>5. CASE ReplyBreaks(t)
    BY <1>2, <2>5 DEF ReplyBreaks, fails
  <2>6. QED BY <1>5, <2>1, <2>2, <2>3, <2>4, <2>5 DEF Converses
<1>6. ASSUME NEW t \in Turns, CallThrows(t) \/ SkillAsks(t) \/ SkillResumes(t) \/ SkillReturns(t)
      PROVE  Shortlisted'
  <2>1. CASE CallThrows(t)
    BY <1>2, <2>1 DEF CallThrows, fails
  <2>2. CASE SkillAsks(t) \/ SkillResumes(t)
    BY <1>3, <2>2 DEF SkillAsks, SkillResumes, Shortlisted
  <2>3. CASE SkillReturns(t)
    BY <1>2, <2>3 DEF SkillReturns
  <2>4. QED BY <1>6, <2>1, <2>2, <2>3
<1>7. QED BY <1>1, <1>4, <1>5, <1>6 DEF ReplyNext, TextStreams, RouterSteps, turnVars, replyVars

\* Whatever a model answers, the skill it is believed on is one of at most three intents of
\* the lane the utterance was classified to (dispatch.ts: the shortlist of the filtered
\* candidates), and no turn keeps candidates once it is past that question.
THEOREM OnlyShortlistedIsChosen == ReplySpec => []Shortlisted
<1>1. ReplyInit => Shortlisted
  BY FS_EmptySet DEF ReplyInit, Shortlisted, fewOf, DISAMBIGUATION_SHORTLIST
<1>2. Shortlisted /\ FlowTypeOK /\ [ReplyNext]_replyVars => Shortlisted'
  BY ShortlistStep
<1>3. ReplyIInv => FlowTypeOK
  BY DEF ReplyIInv
<1>4. QED BY <1>1, <1>2, <1>3, ReplyInvariant, PTL DEF ReplySpec

\* Every reachable state of router and turns is well typed, the candidates of every turn
\* included.
THEOREM ReplyTypeCorrect == ReplySpec => []ReplyTypeOK
<1>1. RouterTypeOK /\ ReplyIInv /\ Shortlisted => ReplyTypeOK
  BY DEF ReplyTypeOK, ReplyIInv, Shortlisted
<1>2. ReplySpec => []RouterTypeOK
  BY TurnsUseTheRouter, RouterTypeCorrect, PTL
<1>3. QED BY <1>1, <1>2, ReplyInvariant, OnlyShortlistedIsChosen, PTL
=============================================================================
