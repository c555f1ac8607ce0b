-------------------------------- MODULE Turns --------------------------------
(***************************************************************************)
(* How an utterance becomes a turn: handleUtterance and the ears loop of   *)
(* core/main.ts over the in-flight question of skills/conversation/ipc.ts, *)
(* the events table it writes and the batching of fact extraction.         *)
(*                                                                         *)
(* Spoken utterances come through the ears socket, whose reader awaits     *)
(* each turn before it takes the next message; dashboard utterances start  *)
(* a turn at once, whatever else is running.  A turn runs from one await   *)
(* to the next without a break, and a promise settled by a handler is      *)
(* consumed in the same macrotask: the skill that gets an answer, and the  *)
(* catch block of a turn whose question was cancelled or timed out, run    *)
(* before anything else does.                                              *)
(*                                                                         *)
(* Data abstracted: an utterance is a name and whether isCancelUtterance   *)
(* holds of it; what the dispatcher, a skill and the model compute is left *)
(* open; what is sent to voice and to the dashboard is left out, except    *)
(* the state light.                                                        *)
(***************************************************************************)
EXTENDS FactScheduler, FiniteSets, SequencesExt

CONSTANTS
  Spoken,    \* utterances that ears transcribes
  Injected,  \* utterances typed in the dashboard's test console
  Cancels,   \* those that call off a question ("stop", "esquece")
  NoTurn,    \* null
  MaxAsks    \* bound: questions one skill asks in a turn

VARIABLES
  earsQueue, \* utterances in the ears socket, not read yet
  earsTurn,  \* the turn the ears loop awaits
  stage,     \* per utterance, how far it is
  pending,   \* the turn whose ask() holds the single slot, or NoTurn
  asks,      \* questions asked so far, per turn
  log,       \* the events table: what was said, in order
  answers,   \* history: the turn whose question an utterance answered
  light      \* the last "state" the dashboard was sent

turnVars == <<earsQueue, earsTurn, stage, pending, asks, log, answers, light>>
vars == <<turnVars, schedulerVars>>

Utterances == Spoken \cup Injected

Stages ==
  {"unsaid", "queued", "dispatching", "conversing", "handling", "asking", "answered",
   "done"}

Endings == {"ok", "cancelled", "error"}

ASSUME TurnsAssumption ==
  /\ Spoken \cap Injected = {}
  /\ Cancels \subseteq Utterances
  /\ NoTurn \notin Utterances
  /\ MaxAsks \in Nat

\* An event of the table: what the owner said, or how a turn was answered.
Said(u) == [kind |-> "utterance", of |-> u]
Replied(t, how) == [kind |-> how, of |-> t]

Events == [kind : {"utterance"} \cup Endings, of : Utterances]

TurnsTypeOK ==
  /\ earsQueue \in Seq(Spoken)
  /\ earsTurn \in Spoken \cup {NoTurn}
  /\ stage \in [Utterances -> Stages]
  /\ pending \in Utterances \cup {NoTurn}
  /\ asks \in [Utterances -> 0..MaxAsks]
  /\ log \in Seq(Events)
  /\ answers \in [Utterances -> Utterances \cup {NoTurn}]
  /\ light \in {"idle", "thinking", "listening"}
  /\ buffer \in Seq(Utterances)
  /\ timerArmed \in BOOLEAN
  /\ batches \in Seq(Seq(Utterances))

TurnsInit ==
  /\ earsQueue = <<>>
  /\ earsTurn = NoTurn
  /\ stage = [u \in Utterances |-> "unsaid"]
  /\ pending = NoTurn
  /\ asks = [u \in Utterances |-> 0]
  /\ log = <<>>
  /\ answers = [u \in Utterances |-> NoTurn]
  /\ light = "idle"
  /\ SchedulerInit

-----------------------------------------------------------------------------
(***************************************************************************)
(* The pieces of handleUtterance.                                          *)
(***************************************************************************)
\* Mutant: the finally block is missing.
finishStillThinking(t) ==
  /\ earsTurn' = IF earsTurn = t THEN NoTurn ELSE earsTurn
  /\ UNCHANGED light

\* The finally block: the light goes out, and the ears loop, if this is the turn
\* it awaits, goes on.
finish(t) ==
  /\ light' = "idle"
  /\ earsTurn' = IF earsTurn = t THEN NoTurn ELSE earsTurn

\* The turn t ends, its reply recorded after the events of `before`.
endTurn(t, how, before) ==
  /\ stage' = [stage EXCEPT ![t] = "done"]
  /\ log' = Append(log \o before, Replied(t, how))
  /\ finish(t)

\* offerUtterance resolves the pending question with u, and the skill that asked
\* goes on; u is recorded, and is nothing else.
Answer(u) ==
  /\ u \notin Cancels
  /\ stage' = [stage EXCEPT ![u] = "answered", ![pending] = "handling"]
  /\ log' = Append(log, Said(u))
  /\ UNCHANGED <<earsTurn, light>>

\* Mutant: the catch block goes on after reporting the cancellation.
CancelAnswerFallingThrough(u) ==
  /\ u \in Cancels
  /\ stage' = [stage EXCEPT ![u] = "answered", ![pending] = "done"]
  /\ log' = log \o <<Said(u), Replied(pending, "cancelled"), Replied(pending, "error")>>
  /\ finish(pending)

\* offerUtterance rejects it instead, and the turn that asked ends.
CancelAnswer(u) ==
  /\ u \in Cancels
  /\ stage' = [stage EXCEPT ![u] = "answered", ![pending] = "done"]
  /\ log' = log \o <<Said(u), Replied(pending, "cancelled")>>
  /\ finish(pending)

\* Mutant: before cancel.ts, the slot took any utterance for an answer.
offerUtteranceAsText(u) ==
  /\ pending # NoTurn
  /\ pending' = NoTurn
  /\ answers' = [answers EXCEPT ![u] = pending]
  /\ stage' = [stage EXCEPT ![u] = "answered", ![pending] = "handling"]
  /\ log' = Append(log, Said(u))
  /\ UNCHANGED <<earsTurn, light, schedulerVars>>

offerUtterance(u) ==
  /\ pending # NoTurn
  /\ pending' = NoTurn
  /\ answers' = [answers EXCEPT ![u] = pending]
  /\ Answer(u) \/ CancelAnswer(u)
  /\ UNCHANGED schedulerVars

\* A new turn, up to the await of the dispatch.
beginTurn(u) ==
  /\ pending = NoTurn
  /\ stage' = [stage EXCEPT ![u] = "dispatching"]
  /\ log' = Append(log, Said(u))
  /\ light' = "thinking"
  /\ earsTurn' = IF u \in Spoken THEN u ELSE earsTurn
  /\ onUtterance(u)
  /\ UNCHANGED <<pending, answers>>

handleUtterance(u) ==
  /\ offerUtterance(u) \/ beginTurn(u)
  /\ UNCHANGED asks

-----------------------------------------------------------------------------
(***************************************************************************)
(* Where utterances come from.                                             *)
(***************************************************************************)
Speak(u) ==
  /\ u \in Spoken
  /\ stage[u] = "unsaid"
  /\ stage' = [stage EXCEPT ![u] = "queued"]
  /\ earsQueue' = Append(earsQueue, u)
  /\ UNCHANGED <<earsTurn, pending, asks, log, answers, light, schedulerVars>>

\* The ears loop takes the next utterance; it awaits handleUtterance.
Hear ==
  /\ earsTurn = NoTurn
  /\ earsQueue # <<>>
  /\ earsQueue' = Tail(earsQueue)
  /\ handleUtterance(Head(earsQueue))

\* The ears loop takes a "listening" message.
EarsListening ==
  /\ earsTurn = NoTurn
  /\ light' = "listening"
  /\ UNCHANGED <<earsQueue, earsTurn, stage, pending, asks, log, answers, schedulerVars>>

\* utterance.inject: the hub calls handleUtterance and awaits nothing.
Inject(u) ==
  /\ u \in Injected
  /\ stage[u] = "unsaid"
  /\ handleUtterance(u)
  /\ UNCHANGED earsQueue

-----------------------------------------------------------------------------
(***************************************************************************)
(* A turn, from await to await.                                            *)
(***************************************************************************)
\* The dispatch found a skill, or nothing that the reflex rules answer.
Dispatched(t) ==
  /\ stage[t] = "dispatching"
  /\ \E next \in {"handling", "conversing"} : stage' = [stage EXCEPT ![t] = next]
  /\ UNCHANGED <<earsQueue, earsTurn, pending, asks, log, answers, light, schedulerVars>>

\* The dispatch fails, or a reflex rule answers; the skill returns or throws;
\* the conversation reply is complete, or the model fails.
TurnEnds(t) ==
  /\ stage[t] \in {"dispatching", "handling", "conversing"}
  /\ \E how \in {"ok", "error"} : endTurn(t, how, <<>>)
  /\ UNCHANGED <<earsQueue, pending, asks, answers, schedulerVars>>

\* ctx.ask(): the question takes the slot, whoever held it.
SkillAsks(t) ==
  /\ stage[t] = "handling"
  /\ asks[t] < MaxAsks
  /\ asks' = [asks EXCEPT ![t] = @ + 1]
  /\ stage' = [stage EXCEPT ![t] = "asking"]
  /\ pending' = t
  /\ UNCHANGED <<earsQueue, earsTurn, log, answers, light, schedulerVars>>

\* Mutant: the timer rejects the promise and leaves the slot taken.
AskTimesOutHoldingSlot ==
  /\ pending # NoTurn
  /\ stage[pending] = "asking"
  /\ endTurn(pending, "error", <<>>)
  /\ UNCHANGED <<earsQueue, pending, asks, answers, schedulerVars>>

\* Mutant: ask() arms no timer.
AskTimesOutNever == FALSE /\ UNCHANGED vars

\* The timer of ask() rejects, and the turn ends with an apology.
AskTimesOut ==
  /\ pending # NoTurn
  /\ pending' = NoTurn
  /\ endTurn(pending, "error", <<>>)
  /\ UNCHANGED <<earsQueue, asks, answers, schedulerVars>>

ExtractFacts ==
  /\ QuietPeriodEnds
  /\ UNCHANGED turnVars

TurnSteps(t) == Dispatched(t) \/ TurnEnds(t) \/ SkillAsks(t)

TurnsNext ==
  \/ \E u \in Utterances : Speak(u) \/ Inject(u) \/ TurnSteps(u)
  \/ Hear
  \/ EarsListening
  \/ AskTimesOut
  \/ ExtractFacts

TurnsSpec == TurnsInit /\ [][TurnsNext]_vars

(***************************************************************************)
(* Fairness: the event loop runs due timers.  Nothing makes a turn that is *)
(* not waiting for an answer end: the embedding request and the camera     *)
(* requests it may await have no timeout.                                  *)
(***************************************************************************)
TurnsFairSpec ==
  /\ TurnsSpec
  /\ WF_vars(AskTimesOut)
  /\ WF_vars(ExtractFacts)

-----------------------------------------------------------------------------
(***************************************************************************)
(* Safety.                                                                 *)
(***************************************************************************)
Active == {"dispatching", "conversing", "handling", "asking"}

SaidAt(u) == {i \in DOMAIN log : log[i] = Said(u)}

RepliesTo(t) == {i \in DOMAIN log : log[i].of = t /\ log[i].kind \in Endings}

\* The transcript is complete and pairs up, however turns overlap: every
\* utterance that was heard is recorded exactly once, an answer included, and
\* every turn that ended has exactly one reply, recorded after it, be it the
\* result, "Cancelled." or the apology (handleUtterance, its catch block).
OneReplyPerTurn ==
  \A u \in Utterances :
    /\ Cardinality(SaidAt(u)) = IF stage[u] \in {"unsaid", "queued"} THEN 0 ELSE 1
    /\ Cardinality(RepliesTo(u)) = IF stage[u] = "done" THEN 1 ELSE 0
    /\ \A i \in SaidAt(u), j \in RepliesTo(u) : i < j

\* An utterance is consumed as an answer only by a turn that began before it
\* and has not been replied to: the slot of a question that timed out or was
\* cancelled never swallows what the owner says next (ask, offerUtterance).
AnswersOpenQuestion ==
  \A u \in Utterances :
    answers[u] # NoTurn =>
      \A i \in SaidAt(u) :
        /\ \E j \in SaidAt(answers[u]) : j < i
        /\ \A j \in RepliesTo(answers[u]) : i < j

\* A turn is reported cancelled exactly when the owner called off its question:
\* "stop" is never handed to a skill as an answer, and neither a timeout nor a
\* failure is passed off as a cancellation (cancel.ts, the catch block).
CancelledByOwner ==
  \A t \in Utterances :
    Replied(t, "cancelled") \in ToSet(log) <=> \E u \in Cancels : answers[u] = t

\* The dashboard shows "thinking", and the ears loop waits, only for a turn that
\* is still going on (the finally block on every way out).
NothingWaitsForAnEndedTurn ==
  /\ light = "thinking" => \E t \in Utterances : stage[t] \in Active
  /\ earsTurn # NoTurn => stage[earsTurn] \in Active

\* What fact extraction was given, batch by batch, and last what it will be.
Piles == Append(batches, buffer)

BeganTurn(u) == SaidAt(u) # {} /\ answers[u] = NoTurn

SaidBefore(u, v) == \A i \in SaidAt(u), j \in SaidAt(v) : i < j

\* Fact extraction sees every utterance that began a turn, once and in the order
\* they were said, and never an answer to a question: each batch continues where
\* the one before stopped, although turns overlap (factExtractionScheduler.ts).
ExtractionSeesEveryTurn ==
  /\ \A u \in Utterances : BeganTurn(u) <=> \E b \in DOMAIN Piles : u \in ToSet(Piles[b])
  /\ \A b, c \in DOMAIN Piles : \A k \in DOMAIN Piles[b], l \in DOMAIN Piles[c] :
       b < c \/ (b = c /\ k < l) => SaidBefore(Piles[b][k], Piles[c][l])

\* A turn that was replied to never resumes, and an answer never becomes a turn
\* (the single slot, the loop that awaits handleUtterance).
OverIsOver ==
  \A u \in Utterances : stage[u] \in {"done", "answered"} => stage'[u] = stage[u]

-----------------------------------------------------------------------------
(***************************************************************************)
(* The inductive invariant.  The cardinalities are replaced by uniqueness: *)
(* positions in the log, which a step only ever adds to.                   *)
(***************************************************************************)
Unheard(u) == stage[u] \in {"unsaid", "queued"}

\* Every utterance handed to handleUtterance is in the log, once.
SaidOnce(u) ==
  /\ SaidAt(u) = {} <=> Unheard(u)
  /\ \A i, j \in SaidAt(u) : i = j

\* Every turn that ended is answered in the log, once and after it was said.
RepliedOnce(t) ==
  /\ RepliesTo(t) = {} <=> stage[t] # "done"
  /\ \A i, j \in RepliesTo(t) : i = j
  /\ \A i \in SaidAt(t), j \in RepliesTo(t) : i < j

\* What the ears socket holds has not been handled, and was said once.
QueueIsFresh ==
  /\ \A i \in DOMAIN earsQueue : stage[earsQueue[i]] = "queued"
  /\ \A i, j \in DOMAIN earsQueue : earsQueue[i] = earsQueue[j] => i = j

\* The slot holds the question of a turn that is suspended in ask().
SlotHolderAsks == pending # NoTurn => stage[pending] = "asking"

\* An utterance that was taken for an answer is never anything else.
AnswerStaysAnswer == \A u \in Utterances : answers[u] # NoTurn => stage[u] = "answered"

TurnsIInv ==
  /\ TurnsTypeOK
  /\ \A u \in Utterances : SaidOnce(u) /\ RepliedOnce(u)
  /\ QueueIsFresh
  /\ SlotHolderAsks
  /\ AnswerStaysAnswer
  /\ AnswersOpenQuestion
  /\ CancelledByOwner
  /\ NothingWaitsForAnEndedTurn
  /\ BufferIsGuarded

-----------------------------------------------------------------------------
(***************************************************************************)
(* Liveness, under TurnsFairSpec.                                          *)
(***************************************************************************)
\* A question never waits for ever, though the owner may leave: the skill that
\* asked gets an answer, a cancellation or the timeout, unless another turn's
\* question takes the slot from it (the timer of ask).
QuestionSettles ==
  \A t \in Utterances :
    (stage[t] = "asking" /\ pending = t)
      ~> (stage[t] # "asking" \/ pending \in Utterances \ {t})

\* What began a turn is eventually handed to the extraction, without waiting
\* for the owner to say anything more (the quiet-period timer).
TurnIsExtracted ==
  \A u \in Utterances :
    (stage[u] = "dispatching") ~> (\E i \in DOMAIN batches : u \in ToSet(batches[i]))

-----------------------------------------------------------------------------
(***************************************************************************)
(* What the repository says and the code does not do.                      *)
(***************************************************************************)
\* conversation/ipc.ts:4: ask() "waits for the *next* utterance core/main.ts
\* receives from ears".  It can only receive one while its loop is not itself
\* waiting for the turn that asks.
EarsListensWhileAsking == pending # NoTurn => earsTurn = NoTurn
=============================================================================
