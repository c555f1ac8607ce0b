------------------------------- MODULE Router -------------------------------
(***************************************************************************)
(* core/router: one caller's walk down a lane's chain of providers, while  *)
(* other callers walk theirs.  A caller is a turn; it has at most one      *)
(* routed call at a time, because dispatch, the skills and the reply await *)
(* each call before the next.                                              *)
(*                                                                         *)
(* An action is what runs between two awaits: an attempt that is refused,  *)
(* a request that goes out, a response, a chunk, the end or the failure of *)
(* a stream.  A timeout aborts the request wherever it is and looks like   *)
(* any other failure at that place.                                        *)
(***************************************************************************)
EXTENDS TokenBucket, Integers, Sequences, FiniteSets

CONSTANTS
    Turns,          \* the callers
    Keyed,          \* the optional services with a key in the Keychain, in order
    MaxClock        \* bound: the furthest the wall clock goes

ASSUME RouterAssumption ==
    /\ IsFiniteSet(Turns)
    /\ Keyed \in Seq({"groq", "mistral", "google", "openrouter"})
    /\ \A i, j \in DOMAIN Keyed : i # j => Keyed[i] # Keyed[j]
    /\ MaxClock \in Nat

VARIABLES
    now,            \* Date.now(), which may step back
    bucket,         \* the TokenBucket of each throttled provider
    inFlight,       \* the ConcurrencyLimiter of each throttled provider
    sent,           \* history: bucket time of each request a provider sent
    call            \* the routed call of each turn

routerVars == <<now, bucket, inFlight, sent, call>>
----------------------------------------------------------------------------
Lanes == {"converse", "reason", "see"}

\* One bucket and one limiter for each key, whichever lane the request is for.
Throttled == {"nim"} \cup {Keyed[i] : i \in DOMAIN Keyed}

Providers == Throttled \cup {"ollama", "offline"}

\* Registration order is preference order: nim, the optional services, and last what runs
\* on this machine.
chainFor(lane) ==
    CASE lane = "converse" -> <<"nim">> \o Keyed \o <<"ollama">>
      [] lane = "reason"   -> <<"nim">> \o Keyed \o <<"offline">>
      [] lane = "see"      -> <<"nim", "ollama">>

\* A call is "choosing" before an attempt, "fetching" until the response,
\* "streaming" until the stream ends, then "ok" or "failed".  `yielded` says
\* whether the caller has been given a chunk; `answeredBy` is the trace of the
\* attempt that went well.
NoCall == [pc |-> "idle", lane |-> "converse", depth |-> 1, yielded |-> FALSE, answeredBy |-> "none"]

routeChat(lane) == [NoCall EXCEPT !.pc = "choosing", !.lane = lane]

Call == [pc : {"idle", "choosing", "fetching", "streaming", "ok", "failed"},
         lane : Lanes, depth : Nat \ {0}, yielded : BOOLEAN,
         answeredBy : Providers \cup {"none"}]

provider(c) == chainFor(c.lane)[c.depth]

\* A provider that fails before its first chunk gives way to the next one.
fallThrough(c) ==
    IF c.depth < Len(chainFor(c.lane))
    THEN [c EXCEPT !.pc = "choosing", !.depth = @ + 1]
    ELSE [c EXCEPT !.pc = "failed"]

\* Mutant: falls through even when part of an answer has been handed over.
afterFailureSplicing(c) == fallThrough(c)

afterFailure(c) == IF c.yielded THEN [c EXCEPT !.pc = "failed"] ELSE fallThrough(c)

succeed(c) == [c EXCEPT !.pc = "ok", !.answeredBy = provider(c)]

RouterInit ==
    /\ now = 0
    /\ bucket = [p \in Throttled |-> newBucket(0)]
    /\ inFlight = [p \in Throttled |-> 0]
    /\ sent = [p \in Throttled |-> <<>>]
    /\ call = [t \in Turns |-> NoCall]
----------------------------------------------------------------------------
(* An attempt.                                                             *)

\* Too many requests in flight: nothing is taken from the bucket.
RefusedBusy(t) ==
    LET c == call[t]  p == provider(c)
    IN  /\ c.pc = "choosing"
        /\ p \in Throttled
        /\ ~canAcquire(inFlight[p])
        /\ call' = [call EXCEPT ![t] = fallThrough(c)]
        /\ UNCHANGED <<now, bucket, inFlight, sent>>

\* No token: the slot taken a moment before is given back.
RefusedRate(t) ==
    LET c == call[t]  p == provider(c)
    IN  /\ c.pc = "choosing"
        /\ p \in Throttled
        /\ canAcquire(inFlight[p])
        /\ ~canTake(bucket[p], now)
        /\ bucket' = [bucket EXCEPT ![p] = tryTake(@, now)]
        /\ call' = [call EXCEPT ![t] = fallThrough(c)]
        /\ UNCHANGED <<now, inFlight, sent>>

Sends(t) ==
    LET c == call[t]  p == provider(c)
    IN  /\ c.pc = "choosing"
        /\ p \in Throttled
        /\ canAcquire(inFlight[p])
        /\ canTake(bucket[p], now)
        /\ inFlight' = [inFlight EXCEPT ![p] = @ + 1]
        /\ bucket' = [bucket EXCEPT ![p] = tryTake(@, now)]
        /\ sent' = [sent EXCEPT ![p] = Append(@, tryTake(bucket[p], now).lastRefill)]
        /\ call' = [call EXCEPT ![t].pc = "fetching"]
        /\ UNCHANGED now

\* ollama has no throttle; the offline provider answers without any request.
SendsUnthrottled(t) ==
    /\ call[t].pc = "choosing"
    /\ provider(call[t]) \notin Throttled
    /\ call' = [call EXCEPT ![t].pc =
                    IF provider(call[t]) = "offline" THEN "streaming" ELSE "fetching"]
    /\ UNCHANGED <<now, bucket, inFlight, sent>>

Attempts(t) == RefusedBusy(t) \/ RefusedRate(t) \/ Sends(t) \/ SendsUnthrottled(t)
----------------------------------------------------------------------------
(* A request on its way.                                                   *)

\* Mutant: an error response keeps the slot.
freeSlotNever(p) == inFlight

freeSlot(p) ==
    IF p \in Throttled THEN [inFlight EXCEPT ![p] = release(@)] ELSE inFlight

\* Connection refused, timeout, 429, any other status that is not ok.
FetchFails(t) ==
    /\ call[t].pc = "fetching"
    /\ inFlight' = freeSlot(provider(call[t]))
    /\ call' = [call EXCEPT ![t] = fallThrough(@)]
    /\ UNCHANGED <<now, bucket, sent>>

ResponseArrives(t) ==
    /\ call[t].pc = "fetching"
    /\ call[t].lane # "see"
    /\ call' = [call EXCEPT ![t].pc = "streaming"]
    /\ UNCHANGED <<now, bucket, inFlight, sent>>

\* routeVision: one result, nothing handed over before it.
VisionAnswers(t) ==
    /\ call[t].pc = "fetching"
    /\ call[t].lane = "see"
    /\ inFlight' = freeSlot(provider(call[t]))
    /\ call' = [call EXCEPT ![t] = succeed(@)]
    /\ UNCHANGED <<now, bucket, sent>>

Chunk(t) ==
    /\ call[t].pc = "streaming"
    /\ call' = [call EXCEPT ![t].yielded = TRUE]
    /\ UNCHANGED <<now, bucket, inFlight, sent>>

\* [DONE], a finish reason, or a body that simply ends: even an empty stream
\* is an answer.  The offline provider always says its one line first.
StreamEnds(t) ==
    /\ call[t].pc = "streaming"
    /\ provider(call[t]) = "offline" => call[t].yielded
    /\ inFlight' = freeSlot(provider(call[t]))
    /\ call' = [call EXCEPT ![t] = succeed(@)]
    /\ UNCHANGED <<now, bucket, sent>>

\* Mutant: the timeout is cleared by the first chunk.
StreamFailsUntilHeard(t) ==
    /\ call[t].pc = "streaming"
    /\ provider(call[t]) # "offline"
    /\ ~call[t].yielded
    /\ inFlight' = freeSlot(provider(call[t]))
    /\ call' = [call EXCEPT ![t] = afterFailure(@)]
    /\ UNCHANGED <<now, bucket, sent>>

\* An error inside the stream, a line that does not parse, the timeout.
StreamFails(t) ==
    /\ call[t].pc = "streaming"
    /\ provider(call[t]) # "offline"
    /\ inFlight' = freeSlot(provider(call[t]))
    /\ call' = [call EXCEPT ![t] = afterFailure(@)]
    /\ UNCHANGED <<now, bucket, sent>>

Settles(t) == FetchFails(t) \/ ResponseArrives(t) \/ VisionAnswers(t)
                \/ StreamEnds(t) \/ StreamFails(t)
----------------------------------------------------------------------------
ClockAdvances ==
    /\ now < MaxClock
    /\ now' = now + 1
    /\ UNCHANGED <<bucket, inFlight, sent, call>>

\* The wall clock is corrected backwards.
ClockStepsBack ==
    /\ now > 0
    /\ now' = now - 1
    /\ UNCHANGED <<bucket, inFlight, sent, call>>

\* The caller asks for a lane; what it does with the answer is its own business.
Asks(t, lane) ==
    /\ call[t].pc \in {"idle", "ok", "failed"}
    /\ call' = [call EXCEPT ![t] = routeChat(lane)]
    /\ UNCHANGED <<now, bucket, inFlight, sent>>

RouterNext ==
    \/ ClockAdvances
    \/ ClockStepsBack
    \/ \E t \in Turns :
         \/ \E lane \in Lanes : Asks(t, lane)
         \/ Attempts(t)
         \/ Settles(t)
         \/ Chunk(t)

RouterSpec == RouterInit /\ [][RouterNext]_routerVars
----------------------------------------------------------------------------
(* What the caller sees of a call (FirstAnswer).                            *)

range(q) == {q[n] : n \in DOMAIN q}

statusOf(c) ==
    CASE c.pc = "idle" -> "idle"
      [] c.pc = "ok" -> "answered"
      [] c.pc = "failed" -> "failed"
      [] OTHER -> "open"

askedOf(c) == IF c.pc = "idle" THEN {} ELSE range(chainFor(c.lane))

triedOf(c) == {chainFor(c.lane)[n] : n \in 1 .. c.depth - 1}

voiceOf(c) == IF c.yielded \/ c.pc = "ok" THEN provider(c) ELSE "none"

Caller == INSTANCE FirstAnswer WITH
    status <- [t \in Turns |-> statusOf(call[t])],
    asked <- [t \in Turns |-> askedOf(call[t])],
    tried <- [t \in Turns |-> triedOf(call[t])],
    voice <- [t \in Turns |-> voiceOf(call[t])]

\* Whatever is refused, lost, timed out or broken off, and whatever other callers do
\* meanwhile, a routed call is a FirstAnswer: the providers of the lane are tried once
\* each, the first that is heard is the only one heard, and the call fails only if that
\* one breaks off or after the last of them (router.ts, routeChat and routeVision).
CallIsFirstAnswer == Caller!Spec
----------------------------------------------------------------------------
(* Properties.                                                             *)

RouterTypeOK ==
    /\ now \in Nat
    /\ bucket \in [Throttled -> Bucket]
    /\ inFlight \in [Throttled -> 0 .. MaxConcurrent]
    /\ sent \in [Throttled -> Seq(Nat)]
    /\ call \in [Turns -> Call]
    /\ \A t \in Turns : call[t].depth <= Len(chainFor(call[t].lane))

\* The turns whose request to `p` is on its way.
Holders(p) == {t \in Turns : call[t].pc \in {"fetching", "streaming"} /\ provider(call[t]) = p}

\* The limiter's counter is the number of requests really in flight, whichever way
\* earlier ones ended (refused, failed, timed out, answered): no slot is lost and none is
\* given back twice (nim.ts, openaiCompatible.ts, google.ts release on every exit).
SlotsMatchCalls == \A p \in Throttled : inFlight[p] = Cardinality(Holders(p))

\* In every window of time, from any request to any later one, a provider has sent no more
\* requests than a full bucket and what that much time refills, whatever the wall clock did
\* in between (the bucket's own rate, tokenBucket.ts).
RateHeld ==
    \A p \in Throttled : \A i, j \in DOMAIN sent[p] :
        i <= j => (j - i + 1) * Minute <= Full + Capacity * (sent[p][j] - sent[p][i])

=============================================================================
