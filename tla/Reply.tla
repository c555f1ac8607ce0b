------------------------------- MODULE Reply --------------------------------
(***************************************************************************)
(* How an utterance becomes a reply: the lane classifier, the dispatch to  *)
(* a skill, the recall of memory and the streamed conversation, all of     *)
(* them callers of the router (core/skills/dispatch.ts,                    *)
(* core/router/laneClassifier.ts, core/converse.ts, and the part of        *)
(* core/main.ts between an utterance and its reply).                       *)
(*                                                                         *)
(* Text is a sequence of fragments: a fragment of a model's answer is      *)
(* named after the provider it came from and its number in the answer, the *)
(* fixed lines of the code are fragments of their own.                     *)
(***************************************************************************)
EXTENDS Router, Dispatch, Recall, TLC

CONSTANTS
    Scores,         \* similarities an utterance can have to an example
    MaxFragments,   \* bound: fragments of one streamed answer
    MaxSkillCalls   \* bound: models a skill asks in one turn

ASSUME ReplyAssumption ==
    /\ Scores \subseteq Nat
    /\ MaxFragments \in Nat /\ MaxSkillCalls \in Nat

VARIABLES
    stage,          \* where the handling of each utterance is
    laneOf,         \* its lane, once classified
    among,          \* the intents it may still be dispatched to
    skillCalls,     \* routed calls its skill has made
    full,           \* the streamed answer so far
    buffer,         \* what the sentence accumulator holds
    spoken,         \* what has been given to the voice
    recorded        \* the reply in the transcript and the events table

turnVars == <<stage, laneOf, among, skillCalls, full, buffer, spoken, recorded>>
replyVars == <<routerVars, turnVars>>
----------------------------------------------------------------------------
ReplyInit ==
    /\ RouterInit
    /\ stage = [t \in Turns |-> "heard"]
    /\ laneOf = [t \in Turns |-> "converse"]
    /\ among = [t \in Turns |-> {}]
    /\ skillCalls = [t \in Turns |-> 0]
    /\ full = [t \in Turns |-> <<>>]
    /\ buffer = [t \in Turns |-> <<>>]
    /\ spoken = [t \in Turns |-> <<>>]
    /\ recorded = [t \in Turns |-> <<>>]

\* The fixed lines: what has nothing to say, what was cut off, what went wrong.
Unsure == <<"unsure">>
LostTheRest == <<"lost">>
WentWrong == <<"wrong">>

\* The turn is over with `reply`, of which `rest` has not been spoken yet; what it knew of
\* the utterance is forgotten.
ends(t, rest, reply) ==
    /\ stage' = [stage EXCEPT ![t] = "done"]
    /\ spoken' = [spoken EXCEPT ![t] = @ \o rest]
    /\ recorded' = [recorded EXCEPT ![t] = reply]
    /\ buffer' = [buffer EXCEPT ![t] = <<>>]
    /\ laneOf' = [laneOf EXCEPT ![t] = "converse"]
    /\ among' = [among EXCEPT ![t] = {}]
    /\ skillCalls' = [skillCalls EXCEPT ![t] = 0]
    /\ full' = [full EXCEPT ![t] = <<>>]

\* The catch block of handleUtterance.
fails(t) == ends(t, WentWrong, WentWrong)

goes(t, to) == stage' = [stage EXCEPT ![t] = to]

answered(t) == call[t].pc = "ok"

\* A routed call that could not be answered throws in whoever awaits it.
CallThrows(t) ==
    /\ stage[t] \in {"classifying", "disambiguating", "completing"}
    /\ call[t].pc = "failed"
    /\ fails(t)
    /\ UNCHANGED routerVars
----------------------------------------------------------------------------
(* Dispatch.                                                               *)

\* A pleasantry goes to conversation without any model; anything else to the classifier.
HearsPleasantry(t) ==
    /\ stage[t] = "heard"
    /\ goes(t, "recalling")
    /\ UNCHANGED <<routerVars, laneOf, among, skillCalls, full, buffer, spoken, recorded>>

HearsRequest(t) ==
    /\ stage[t] = "heard"
    /\ goes(t, "classifying")
    /\ Asks(t, "converse")
    /\ UNCHANGED <<laneOf, among, skillCalls, full, buffer, spoken, recorded>>

\* The last resort is not believed, neither on the lane nor on the skill.
believes(c) == c.answeredBy # "ollama"

\* laneHeuristic.ts: the lane of the first rule that fires, or conversation.
classifyLaneHeuristically == {"reflex", "see", "act", "reason"} \cup {"converse"}

\* The lane is the model's, or the heuristic's when only the last resort answered.
Classified(t) ==
    /\ stage[t] = "classifying" /\ answered(t)
    /\ goes(t, "matching")
    /\ \E l \in IF believes(call[t]) THEN AllLanes ELSE classifyLaneHeuristically :
          laneOf' = [laneOf EXCEPT ![t] = l]
    /\ UNCHANGED <<routerVars, among, skillCalls, full, buffer, spoken, recorded>>

\* Not JSON, not an object, no lane: an error, unless the heuristic is asked anyway.
ClassificationInvalid(t) ==
    /\ stage[t] = "classifying" /\ answered(t)
    /\ believes(call[t])
    /\ fails(t)
    /\ UNCHANGED routerVars

\* rules.ts: the fixed line of the first rule that fires; there may be none.
matchReflex == <<"reflex">>

\* No skill: a reflex some rule fires for answers by itself, anything else becomes
\* conversation.
noSkill(t) ==
    \/ /\ laneOf[t] = "reflex"
       /\ ends(t, matchReflex, matchReflex)
    \/ /\ goes(t, "recalling")
       /\ laneOf' = [laneOf EXCEPT ![t] = "converse"]
       /\ among' = [among EXCEPT ![t] = {}]
       /\ UNCHANGED <<skillCalls, full, buffer, spoken, recorded>>

\* The decisions that agree with the reference, for every similarity of every example.
DecidesLike(l) ==
    \A score \in [Declared -> Scores] :
        LET d == decide(score, l)
        IN  /\ d.to = "none" <=> Hopeless(score, l)
            /\ d.to = "run" <=> d.among = Unrivalled(score, l) /\ d.among # {}
            /\ d.to = "ask" => IsShortlist(score, l, d.among)

DecidesAlike == {l \in AllLanes : DecidesLike(l)}

\* Every decision an utterance of a lane can come to.
Decisions == [l \in AllLanes |-> {decide(score, l) : score \in [ToSet(Examples) -> Scores]}]

\* The embedder answered: the utterance's similarities are known.
Matched(t) ==
    /\ stage[t] = "matching"
    /\ \E d \in Decisions[laneOf[t]] :
         \/ /\ d.to = "none"
            /\ noSkill(t)
            /\ UNCHANGED routerVars
         \/ /\ d.to = "run"
            /\ goes(t, "handling")
            /\ UNCHANGED <<routerVars, laneOf, among, skillCalls, full, buffer, spoken, recorded>>
         \/ /\ d.to = "ask"
            /\ goes(t, "disambiguating")
            /\ among' = [among EXCEPT ![t] = d.among]
            /\ Asks(t, "converse")
            /\ UNCHANGED <<laneOf, skillCalls, full, buffer, spoken, recorded>>

\* The embedder failed twice.
MatchThrows(t) ==
    /\ stage[t] = "matching"
    /\ fails(t)
    /\ UNCHANGED routerVars

\* The model chose one of the shortlist.
Disambiguated(t) ==
    /\ stage[t] = "disambiguating" /\ answered(t)
    /\ believes(call[t])
    /\ among[t] # {}
    /\ goes(t, "handling")
    /\ among' = [among EXCEPT ![t] = {}]
    /\ UNCHANGED <<routerVars, laneOf, skillCalls, full, buffer, spoken, recorded>>

\* It chose none of them, or something that is not in the list, or is not believed.
NoneChosen(t) ==
    /\ stage[t] = "disambiguating" /\ answered(t)
    /\ noSkill(t)
    /\ UNCHANGED routerVars
----------------------------------------------------------------------------
(* The skill, which may ask a model (ctx.router.complete, ctx.router.see). *)

SkillAsks(t) ==
    /\ stage[t] = "handling"
    /\ skillCalls[t] < MaxSkillCalls
    /\ skillCalls' = [skillCalls EXCEPT ![t] = @ + 1]
    /\ goes(t, "completing")
    /\ \E l \in Lanes : Asks(t, l)
    /\ UNCHANGED <<laneOf, among, full, buffer, spoken, recorded>>

SkillResumes(t) ==
    /\ stage[t] = "completing" /\ answered(t)
    /\ goes(t, "handling")
    /\ UNCHANGED <<routerVars, laneOf, among, skillCalls, full, buffer, spoken, recorded>>

\* The skill has spoken for itself; its speech is recorded.
SkillReturns(t) ==
    /\ stage[t] = "handling"
    /\ ends(t, <<"skill">>, <<"skill">>)
    /\ UNCHANGED routerVars
----------------------------------------------------------------------------
(* Conversation.                                                           *)

\* Recall found something, nothing, or gave up on a slow or useless embedding.
Recalled(t) ==
    /\ stage[t] = "recalling"
    /\ goes(t, "replying")
    /\ Asks(t, "converse")
    /\ UNCHANGED <<laneOf, among, skillCalls, full, buffer, spoken, recorded>>

\* The embedder refused: recall waits for a slow one, but lets an error through.
RecallThrows(t) ==
    /\ stage[t] = "recalling"
    /\ fails(t)
    /\ UNCHANGED routerVars

fragment(t, n) == <<provider(call[t]), n>>

\* A chunk as the accumulator sees it: how many fragments it adds, and how many of the
\* fragments then in the buffer it completes to a sentence.  A fragment with no boundary
\* completes nothing; blanks after a full stop complete what is there; a chunk that ends
\* one sentence and begins another adds two fragments.
Deltas == {[adds |-> 0, keeps |-> 0], [adds |-> 1, keeps |-> 1], [adds |-> 1, keeps |-> 0],
           [adds |-> 2, keeps |-> 1]}

push(t, d) ==
    LET new == [n \in 1 .. d.adds |-> fragment(t, Len(full[t]) + n)]
        held == buffer[t] \o new
        cut == Len(held) - d.keeps
    IN  /\ full' = [full EXCEPT ![t] = @ \o new]
        /\ spoken' = [spoken EXCEPT ![t] = @ \o SubSeq(held, 1, cut)]
        /\ buffer' = [buffer EXCEPT ![t] = SubSeq(held, cut + 1, Len(held))]

ReplyStreams(t) ==
    /\ stage[t] = "replying"
    /\ Chunk(t)
    /\ \/ /\ \E d \in Deltas :
               /\ Len(full[t]) + d.adds <= MaxFragments
               /\ Len(buffer[t]) + d.adds > 0
               /\ push(t, d)
          /\ UNCHANGED <<stage, laneOf, among, skillCalls, recorded>>
       \* A chunk of nothing, which ollama sends and which counts as a chunk all the same.
       \/ UNCHANGED turnVars

\* Chunks nobody hears until the call is over.
TextStreams(t) ==
    /\ stage[t] \in {"classifying", "disambiguating", "completing"}
    /\ Chunk(t)
    /\ UNCHANGED turnVars

ReplyComplete(t) ==
    /\ stage[t] = "replying" /\ answered(t)
    /\ IF full[t] = <<>> THEN ends(t, Unsure, Unsure) ELSE ends(t, buffer[t], full[t])
    /\ UNCHANGED routerVars

\* Mutant: the rest of the buffer is dropped before the admission.
ReplyBreaksDroppingTail(t) ==
    /\ stage[t] = "replying" /\ call[t].pc = "failed"
    /\ IF spoken[t] = <<>> /\ buffer[t] = <<>> THEN fails(t)
       ELSE ends(t, LostTheRest, full[t] \o LostTheRest)
    /\ UNCHANGED routerVars

\* The stream failed.  If nothing was heard it is an error like any other; otherwise the
\* rest of the buffer is spoken, the loss admitted, and both are the reply.
ReplyBreaks(t) ==
    /\ stage[t] = "replying" /\ call[t].pc = "failed"
    /\ IF spoken[t] = <<>> /\ buffer[t] = <<>> THEN fails(t)
       ELSE ends(t, buffer[t] \o LostTheRest, full[t] \o LostTheRest)
    /\ UNCHANGED routerVars
----------------------------------------------------------------------------
Dispatches(t) ==
    \/ HearsPleasantry(t) \/ HearsRequest(t) \/ Classified(t) \/ ClassificationInvalid(t)
    \/ Matched(t) \/ MatchThrows(t) \/ Disambiguated(t) \/ NoneChosen(t)

Converses(t) ==
    \/ Recalled(t) \/ RecallThrows(t) \/ ReplyStreams(t) \/ ReplyComplete(t) \/ ReplyBreaks(t)

RouterSteps(t) == (Attempts(t) \/ Settles(t)) /\ UNCHANGED turnVars

ReplyNext ==
    \/ (ClockAdvances \/ ClockStepsBack) /\ UNCHANGED turnVars
    \/ \E t \in Turns :
         \/ Dispatches(t) \/ Converses(t) \/ CallThrows(t)
         \/ SkillAsks(t) \/ SkillResumes(t) \/ SkillReturns(t)
         \/ TextStreams(t) \/ RouterSteps(t)

\* An attempt runs at once; a request and its stream are under one timeout, which ends
\* them if nothing else does; the offline provider answers without waiting for anything.
\* What awaits a routed call resumes when the call is over.
Resumes(t) ==
    \/ Classified(t) \/ Disambiguated(t) \/ NoneChosen(t) \/ CallThrows(t)
    \/ ReplyComplete(t) \/ ReplyBreaks(t) \/ SkillResumes(t)

OfflineAnswers(t) ==
    /\ provider(call[t]) = "offline"
    /\ \/ TextStreams(t)
       \/ StreamEnds(t) /\ UNCHANGED turnVars

ReplyFairness ==
    \A t \in Turns :
        /\ WF_replyVars(Attempts(t) /\ UNCHANGED turnVars)
        /\ WF_replyVars((FetchFails(t) \/ StreamFails(t)) /\ UNCHANGED turnVars)
        /\ WF_replyVars(OfflineAnswers(t))
        /\ WF_replyVars(Resumes(t))

ReplySpec == ReplyInit /\ [][ReplyNext]_replyVars
ReplyFairSpec == ReplySpec /\ ReplyFairness
----------------------------------------------------------------------------
(* Properties.                                                             *)

\* What a text is made of.
Fragments == {"unsure", "lost", "wrong", "reflex", "skill"} \cup (Providers \X Nat)

TextTypeOK ==
    /\ full \in [Turns -> Seq(Fragments)] /\ buffer \in [Turns -> Seq(Fragments)]
    /\ spoken \in [Turns -> Seq(Fragments)] /\ recorded \in [Turns -> Seq(Fragments)]

Stages == {"heard", "classifying", "matching", "disambiguating", "handling", "completing",
           "recalling", "replying", "done"}

FlowTypeOK ==
    /\ stage \in [Turns -> Stages]
    /\ laneOf \in [Turns -> AllLanes]
    /\ skillCalls \in [Turns -> 0 .. MaxSkillCalls]

ReplyTypeOK == RouterTypeOK /\ TextTypeOK /\ FlowTypeOK /\ among \in [Turns -> SUBSET Intents]

\* What the owner heard in a turn without a skill is what the transcript says was said:
\* nothing spoken twice, nothing recorded but not spoken, nothing spoken and then replaced
\* by an apology (converse.ts, whose comments call the last an audit gap).
SpokenIsRecorded ==
    \A t \in Turns : stage[t] = "done" => spoken[t] = recorded[t]

\* What makes it so while the reply is still coming: nothing is said before it begins, and
\* then what was spoken and what the accumulator holds are together what was answered.
QuietAtFirst ==
    \A t \in Turns : stage[t] \notin {"replying", "done"} =>
        full[t] = <<>> /\ buffer[t] = <<>> /\ spoken[t] = <<>>

HeldIsTheRest == \A t \in Turns : stage[t] = "replying" => spoken[t] \o buffer[t] = full[t]

ReplyIInv == TextTypeOK /\ FlowTypeOK /\ QuietAtFirst /\ HeldIsTheRest /\ SpokenIsRecorded

\* dispatch() runs a skill without asking a model exactly when the reference says it is
\* unrivalled among the skills that should be there, gives up exactly when nothing of the
\* lane is similar, and otherwise asks about the best few, for every similarity of every
\* example and every lane (dispatch.ts: a high score with a close second is put to a model;
\* registry.ts: a broken or duplicate skill is "never a silent overwrite").
DecisionIsReference == \A t \in Turns : laneOf[t] \in DecidesAlike

\* Recall gives as many matches as there are, up to its cap, none of them a recent turn's
\* or twice there, and never a worse one before or instead of a better one; the text they
\* make fits, and lacks no piece that would have fitted (recall.ts: "Drop anything already
\* in `recentTurns` BEFORE capping, not after").
RecallIsReference == \A t \in Turns : stage[t] = "replying" => RecallsAlike

\* A reply that has begun ends, with an answer or with an apology: no provider can hold
\* the turn for longer than its timeout, whether it falls silent before the first chunk or
\* in the middle of its answer, and whoever waits for it goes on.
ReplyEnds == \A t \in Turns : stage[t] = "replying" ~> stage[t] = "done"

=============================================================================
