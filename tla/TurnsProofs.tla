---------------------------- MODULE TurnsProofs ----------------------------
(***************************************************************************)
(* Proofs about turns, for any set of utterances, any number of questions  *)
(* per turn and any cap of the extraction buffer.                          *)
(***************************************************************************)
EXTENDS Turns, TLAPS, FiniteSetTheorems

-----------------------------------------------------------------------------
(***************************************************************************)
(* The log: what recording one event, or two, does to the positions at     *)
(* which an utterance and the replies to it are found.                     *)
(***************************************************************************)
\* The positions that an appended event adds.
AddsSaid(e, u, i) == IF e = Said(u) THEN {i} ELSE {}
AddsReply(e, t, i) == IF e.of = t /\ e.kind \in Endings THEN {i} ELSE {}

LEMMA Positions ==
  ASSUME log \in Seq(Events), NEW u
  PROVE  SaidAt(u) \subseteq 1..Len(log) /\ RepliesTo(u) \subseteq 1..Len(log)
BY DEF SaidAt, RepliesTo

LEMMA OneEvent ==
  ASSUME log \in Seq(Events), NEW e \in Events, log' = Append(log, e)
  PROVE  /\ log' \in Seq(Events)
         /\ \A u : SaidAt(u)' = SaidAt(u) \cup AddsSaid(e, u, Len(log) + 1)
         /\ \A t : RepliesTo(t)' = RepliesTo(t) \cup AddsReply(e, t, Len(log) + 1)
         /\ ToSet(log)' = ToSet(log) \cup {e}
<1>1. /\ log' \in Seq(Events)
      /\ DOMAIN log = 1..Len(log)
      /\ DOMAIN log' = 1..(Len(log) + 1)
      /\ \A i \in 1..Len(log) : log'[i] = log[i]
      /\ log'[Len(log) + 1] = e
      /\ Len(log) \in Nat
  OBVIOUS
<1>2. ASSUME NEW u PROVE SaidAt(u)' = SaidAt(u) \cup AddsSaid(e, u, Len(log) + 1)
  BY <1>1 DEF SaidAt, AddsSaid
<1>3. ASSUME NEW t PROVE RepliesTo(t)' = RepliesTo(t) \cup AddsReply(e, t, Len(log) + 1)
  BY <1>1 DEF RepliesTo, AddsReply
<1>4. ToSet(log)' = ToSet(log) \cup {e}
  BY <1>1 DEF ToSet
<1>5. QED BY <1>1, <1>2, <1>3, <1>4

LEMMA TwoEvents ==
  ASSUME log \in Seq(Events), NEW e \in Events, NEW f \in Events, log' = log \o <<e, f>>
  PROVE  /\ log' \in Seq(Events)
         /\ \A u : SaidAt(u)' = SaidAt(u) \cup AddsSaid(e, u, Len(log) + 1)
                                          \cup AddsSaid(f, u, Len(log) + 2)
         /\ \A t : RepliesTo(t)' = RepliesTo(t) \cup AddsReply(e, t, Len(log) + 1)
                                                \cup AddsReply(f, t, Len(log) + 2)
         /\ ToSet(log)' = ToSet(log) \cup {e, f}
<1>1. /\ log' \in Seq(Events)
      /\ DOMAIN log = 1..Len(log)
      /\ DOMAIN log' = 1..(Len(log) + 2)
      /\ \A i \in 1..Len(log) : log'[i] = log[i]
      /\ log'[Len(log) + 1] = e
      /\ log'[Len(log) + 2] = f
      /\ Len(log) \in Nat
  OBVIOUS
<1>2. ASSUME NEW u
      PROVE  SaidAt(u)' = SaidAt(u) \cup AddsSaid(e, u, Len(log) + 1)
                                    \cup AddsSaid(f, u, Len(log) + 2)
  BY <1>1 DEF SaidAt, AddsSaid
<1>3. ASSUME NEW t
      PROVE  RepliesTo(t)' = RepliesTo(t) \cup AddsReply(e, t, Len(log) + 1)
                                          \cup AddsReply(f, t, Len(log) + 2)
  BY <1>1 DEF RepliesTo, AddsReply
<1>4. ToSet(log)' = ToSet(log) \cup {e, f}
  <2>1. 1..(Len(log) + 2) = 1..Len(log) \cup {Len(log) + 1, Len(log) + 2}
    BY <1>1
  <2>2. ToSet(log)' \subseteq ToSet(log) \cup {e, f}
    BY <1>1, <2>1 DEF ToSet
  <2>3. ToSet(log) \subseteq ToSet(log)'
    BY <1>1, <2>1 DEF ToSet
  <2>4. e \in ToSet(log)' /\ f \in ToSet(log)'
    BY <1>1, <2>1 DEF ToSet
  <2>5. QED BY <2>2, <2>3, <2>4
<1>5. QED BY <1>1, <1>2, <1>3, <1>4

-----------------------------------------------------------------------------
(***************************************************************************)
(* What the steps do to the log, to the stages and to the answers.  Every  *)
(* action is one of these four.                                            *)
(***************************************************************************)
\* No stage moves across what the log shows, except that of the utterances in S.
StagesAgree(S) ==
  \A v \in Utterances \ S :
    /\ Unheard(v)' <=> Unheard(v)
    /\ stage'[v] = "done" <=> stage[v] = "done"

LogPart ==
  /\ \A u \in Utterances : SaidOnce(u) /\ RepliedOnce(u)
  /\ AnswersOpenQuestion
  /\ CancelledByOwner

\* The claim about answers, with a name for the turn that asked.
LEMMA AnswersNamed ==
  ASSUME answers' \in [Utterances -> Utterances \cup {NoTurn}],
         \A v, w \in Utterances : answers'[v] = w =>
           \A i \in SaidAt(v)' : /\ \E j \in SaidAt(w)' : j < i
                                 /\ \A j \in RepliesTo(w)' : i < j
  PROVE  AnswersOpenQuestion'
BY DEF AnswersOpenQuestion, SaidAt, RepliesTo

\* Nothing is recorded: speaking, the dispatch, a question, the extraction.
LEMMA SilentStep ==
  ASSUME TurnsTypeOK, LogPart, UNCHANGED <<log, answers>>, StagesAgree({})
  PROVE  LogPart'
BY DEF LogPart, StagesAgree, SaidOnce, RepliedOnce, SaidAt, RepliesTo, AnswersOpenQuestion,
       CancelledByOwner, Unheard

\* An utterance is recorded, and begins a turn or answers the open question.
LEMMA SayStep ==
  ASSUME TurnsTypeOK, LogPart, AnswerStaysAnswer,
         NEW u \in Utterances, Unheard(u), log' = Append(log, Said(u)),
         ~Unheard(u)', stage'[u] # "done", StagesAgree({u}),
         NEW t \in Utterances \cup {NoTurn},
         t # NoTurn => ~Unheard(t) /\ stage[t] # "done" /\ u \notin Cancels,
         answers' = [answers EXCEPT ![u] = t]
  PROVE  LogPart'
<1> DEFINE n == Len(log) + 1
<1> USE TurnsAssumption
<1>1. /\ log \in Seq(Events) /\ Said(u) \in Events
      /\ answers \in [Utterances -> Utterances \cup {NoTurn}]
      /\ \A v : SaidAt(v) \subseteq 1..Len(log) /\ RepliesTo(v) \subseteq 1..Len(log)
      /\ Len(log) \in Nat
  BY Positions DEF TurnsTypeOK, Events, Said
<1>2. /\ \A v : SaidAt(v)' = SaidAt(v) \cup (IF v = u THEN {n} ELSE {})
      /\ \A v : RepliesTo(v)' = RepliesTo(v)
      /\ ToSet(log)' = ToSet(log) \cup {Said(u)}
  <2>1. /\ \A v : SaidAt(v)' = SaidAt(v) \cup AddsSaid(Said(u), v, n)
        /\ \A v : RepliesTo(v)' = RepliesTo(v) \cup AddsReply(Said(u), v, n)
        /\ ToSet(log)' = ToSet(log) \cup {Said(u)}
    BY <1>1, OneEvent
  <2>2. ASSUME NEW v
        PROVE  /\ AddsSaid(Said(u), v, n) = IF v = u THEN {n} ELSE {}
               /\ AddsReply(Said(u), v, n) = {}
    BY DEF AddsSaid, AddsReply, Said, Endings
  <2>3. QED BY <2>1, <2>2
<1>3. SaidAt(u) = {} /\ RepliesTo(u) = {} /\ answers[u] = NoTurn
  BY DEF LogPart, SaidOnce, RepliedOnce, Unheard, AnswerStaysAnswer
<1>4. ASSUME NEW v \in Utterances PROVE SaidOnce(v)' /\ RepliedOnce(v)'
  <2>1. SaidOnce(v) /\ RepliedOnce(v)
    BY DEF LogPart
  <2>2. CASE v = u
    BY <1>1, <1>2, <1>3, <2>2 DEF SaidOnce, RepliedOnce
  <2>3. CASE v # u
    BY <1>2, <2>1, <2>3 DEF SaidOnce, RepliedOnce, StagesAgree
  <2>4. QED BY <2>2, <2>3
<1>5. AnswersOpenQuestion'
  <2>1. ASSUME NEW v \in Utterances, NEW w \in Utterances, answers'[v] = w,
               NEW i \in SaidAt(v)'
        PROVE  /\ \E j \in SaidAt(w)' : j < i
               /\ \A j \in RepliesTo(w)' : i < j
    <3>1. CASE v = u
      <4>1. w = t /\ i = n
        BY <1>1, <1>2, <1>3, <2>1, <3>1
      <4>2. SaidAt(w) # {} /\ RepliesTo(w) = {}
        BY <4>1 DEF LogPart, SaidOnce, RepliedOnce
      <4>3. QED BY <1>1, <1>2, <4>1, <4>2
    <3>2. CASE v # u
      <4>1. answers[v] = w /\ i \in SaidAt(v)
        BY <1>1, <1>2, <2>1, <3>2
      <4>2. /\ \E j \in SaidAt(w) : j < i
            /\ \A j \in RepliesTo(w) : i < j
        BY <4>1 DEF LogPart, AnswersOpenQuestion
      <4>3. QED BY <1>2, <4>2
    <3>3. QED BY <3>1, <3>2
  <2>2. answers' \in [Utterances -> Utterances \cup {NoTurn}]
    BY <1>1
  <2>3. QED BY <2>1, <2>2, AnswersNamed
<1>6. CancelledByOwner'
  <2>1. ASSUME NEW v \in Utterances
        PROVE  Replied(v, "cancelled") \in ToSet(log)' <=> Replied(v, "cancelled") \in ToSet(log)
    BY <1>2 DEF Said, Replied
  <2>2. ASSUME NEW v \in Utterances
        PROVE  (\E c \in Cancels : answers'[c] = v) <=> \E c \in Cancels : answers[c] = v
    BY <1>1, <1>3
  <2>3. QED BY <2>1, <2>2 DEF LogPart, CancelledByOwner
<1>7. QED BY <1>4, <1>5, <1>6 DEF LogPart

\* A turn ends in the reply how, and is over; or the owner's u called off its
\* question, and both are recorded.
LEMMA ReplyStep ==
  ASSUME TurnsTypeOK, LogPart,
         NEW t \in Utterances, NEW how \in {"ok", "error"}, ~Unheard(t), stage[t] # "done",
         log' = Append(log, Replied(t, how)),
         ~Unheard(t)', stage'[t] = "done", StagesAgree({t}), UNCHANGED answers
  PROVE  LogPart'
<1> DEFINE n == Len(log) + 1
<1> USE TurnsAssumption
<1>1. /\ log \in Seq(Events) /\ Replied(t, how) \in Events
      /\ answers \in [Utterances -> Utterances \cup {NoTurn}]
      /\ \A v : SaidAt(v) \subseteq 1..Len(log) /\ RepliesTo(v) \subseteq 1..Len(log)
      /\ Len(log) \in Nat
  BY Positions DEF TurnsTypeOK, Events, Replied, Endings
<1>2. /\ \A v : SaidAt(v)' = SaidAt(v)
      /\ \A v : RepliesTo(v)' = RepliesTo(v) \cup (IF v = t THEN {n} ELSE {})
      /\ ToSet(log)' = ToSet(log) \cup {Replied(t, how)}
  <2>1. /\ \A v : SaidAt(v)' = SaidAt(v) \cup AddsSaid(Replied(t, how), v, n)
        /\ \A v : RepliesTo(v)' = RepliesTo(v) \cup AddsReply(Replied(t, how), v, n)
        /\ ToSet(log)' = ToSet(log) \cup {Replied(t, how)}
    BY <1>1, OneEvent
  <2>2. ASSUME NEW v
        PROVE  /\ AddsSaid(Replied(t, how), v, n) = {}
               /\ AddsReply(Replied(t, how), v, n) = IF v = t THEN {n} ELSE {}
    BY DEF AddsSaid, AddsReply, Said, Replied, Endings
  <2>3. QED BY <2>1, <2>2
<1>3. ASSUME NEW v \in Utterances PROVE SaidOnce(v)' /\ RepliedOnce(v)'
  <2>1. SaidOnce(v) /\ RepliedOnce(v)
    BY DEF LogPart
  <2>2. CASE v = t
    BY <1>1, <1>2, <2>1, <2>2 DEF SaidOnce, RepliedOnce
  <2>3. CASE v # t
    BY <1>2, <2>1, <2>3 DEF SaidOnce, RepliedOnce, StagesAgree
  <2>4. QED BY <2>2, <2>3
<1>4. AnswersOpenQuestion'
  <2>1. ASSUME NEW v \in Utterances, NEW w \in Utterances, answers[v] = w,
               NEW i \in SaidAt(v)
        PROVE  /\ \E j \in SaidAt(w) : j < i
               /\ \A j \in RepliesTo(w)' : i < j
    <3>1. /\ \E j \in SaidAt(w) : j < i
          /\ \A j \in RepliesTo(w) : i < j
      BY <2>1 DEF LogPart, AnswersOpenQuestion
    <3>2. i < n
      BY <1>1
    <3>3. QED BY <1>2, <3>1, <3>2
  <2>2. QED BY <1>1, <1>2, <2>1, AnswersNamed
<1>5. CancelledByOwner'
  <2>1. ASSUME NEW v \in Utterances
        PROVE  Replied(v, "cancelled") \in ToSet(log)' <=> Replied(v, "cancelled") \in ToSet(log)
    BY <1>2 DEF Replied
  <2>2. QED BY <2>1 DEF LogPart, CancelledByOwner
<1>6. QED BY <1>3, <1>4, <1>5 DEF LogPart

LEMMA CancelStep ==
  ASSUME TurnsTypeOK, LogPart, AnswerStaysAnswer,
         NEW u \in Cancels, NEW t \in Utterances, u # t, Unheard(u),
         ~Unheard(t), stage[t] # "done",
         log' = log \o <<Said(u), Replied(t, "cancelled")>>,
         ~Unheard(u)', stage'[u] # "done", ~Unheard(t)', stage'[t] = "done",
         StagesAgree({u, t}), answers' = [answers EXCEPT ![u] = t]
  PROVE  LogPart'
<1> DEFINE n == Len(log) + 1
           m == Len(log) + 2
<1> USE TurnsAssumption
<1>1. /\ log \in Seq(Events) /\ Said(u) \in Events /\ Replied(t, "cancelled") \in Events
      /\ answers \in [Utterances -> Utterances \cup {NoTurn}]
      /\ \A v : SaidAt(v) \subseteq 1..Len(log) /\ RepliesTo(v) \subseteq 1..Len(log)
      /\ Len(log) \in Nat /\ u \in Utterances
  BY Positions DEF TurnsTypeOK, Events, Said, Replied, Endings
<1>2. /\ \A v : SaidAt(v)' = SaidAt(v) \cup (IF v = u THEN {n} ELSE {})
      /\ \A v : RepliesTo(v)' = RepliesTo(v) \cup (IF v = t THEN {m} ELSE {})
      /\ ToSet(log)' = ToSet(log) \cup {Said(u), Replied(t, "cancelled")}
  <2>1. /\ \A v : SaidAt(v)' = SaidAt(v) \cup AddsSaid(Said(u), v, n)
                                         \cup AddsSaid(Replied(t, "cancelled"), v, m)
        /\ \A v : RepliesTo(v)' = RepliesTo(v) \cup AddsReply(Said(u), v, n)
                                               \cup AddsReply(Replied(t, "cancelled"), v, m)
        /\ ToSet(log)' = ToSet(log) \cup {Said(u), Replied(t, "cancelled")}
    BY <1>1, TwoEvents
  <2>2. ASSUME NEW v
        PROVE  /\ AddsSaid(Said(u), v, n) = IF v = u THEN {n} ELSE {}
               /\ AddsReply(Said(u), v, n) = {}
    BY DEF AddsSaid, AddsReply, Said, Endings
  <2>3. ASSUME NEW v
        PROVE  /\ AddsSaid(Replied(t, "cancelled"), v, m) = {}
               /\ AddsReply(Replied(t, "cancelled"), v, m) = IF v = t THEN {m} ELSE {}
    BY DEF AddsSaid, AddsReply, Said, Replied, Endings
  <2>4. QED BY <2>1, <2>2, <2>3
<1>3. /\ SaidAt(u) = {} /\ RepliesTo(u) = {} /\ answers[u] = NoTurn
      /\ SaidAt(t) # {} /\ RepliesTo(t) = {}
  BY <1>1 DEF LogPart, SaidOnce, RepliedOnce, Unheard, AnswerStaysAnswer
<1>4. SaidAt(t)' = SaidAt(t) /\ SaidAt(u)' = {n} /\ RepliesTo(u)' = {}
  BY <1>2, <1>3
<1>5. RepliesTo(t)' = {m}
  <2>1. RepliesTo(t)' = RepliesTo(t) \cup {m}
    BY <1>2
  <2>2. QED BY <2>1, <1>3
<1>6. n < m /\ \A i \in SaidAt(t) : i < n /\ i < m
  BY <1>1
<1>7. ASSUME NEW v \in Utterances PROVE SaidOnce(v)' /\ RepliedOnce(v)'
  <2>1. SaidOnce(v) /\ RepliedOnce(v)
    BY DEF LogPart
  <2>2. CASE v = u
    BY <1>3, <1>4, <2>2 DEF SaidOnce, RepliedOnce
  <2>3. CASE v = t
    <3>1. /\ SaidAt(v)' = SaidAt(v) /\ RepliesTo(v)' = {m}
          /\ SaidAt(v) # {} /\ ~Unheard(v)' /\ stage'[v] = "done"
          /\ \A i \in SaidAt(v) : i < m
      BY <1>3, <1>4, <1>5, <1>6, <2>3
    <3>2. QED BY <2>1, <3>1 DEF SaidOnce, RepliedOnce
  <2>4. CASE v \notin {u, t}
    BY <1>2, <2>1, <2>4 DEF SaidOnce, RepliedOnce, StagesAgree
  <2>5. QED BY <2>2, <2>3, <2>4
<1>8. AnswersOpenQuestion'
  <2>1. ASSUME NEW v \in Utterances, NEW w \in Utterances, answers'[v] = w,
               NEW i \in SaidAt(v)'
        PROVE  /\ \E j \in SaidAt(w)' : j < i
               /\ \A j \in RepliesTo(w)' : i < j
    <3>1. CASE v = u
      <4>1. w = t /\ i = n
        BY <1>1, <1>3, <1>4, <2>1, <3>1
      <4>2. \E j \in SaidAt(t) : j < n
        BY <1>3, <1>6
      <4>3. QED BY <1>4, <1>5, <1>6, <4>1, <4>2
    <3>2. CASE v # u
      <4>1. answers[v] = w /\ i \in SaidAt(v)
        BY <1>1, <1>2, <2>1, <3>2
      <4>2. /\ \E j \in SaidAt(w) : j < i
            /\ \A j \in RepliesTo(w) : i < j
        BY <4>1 DEF LogPart, AnswersOpenQuestion
      <4>3. i < m
        BY <1>1, <4>1
      <4>4. QED BY <1>2, <4>2, <4>3
    <3>3. QED BY <3>1, <3>2
  <2>2. answers' \in [Utterances -> Utterances \cup {NoTurn}]
    BY <1>1
  <2>3. QED BY <2>1, <2>2, AnswersNamed
<1>9. CancelledByOwner'
  <2>1. ASSUME NEW v \in Utterances
        PROVE  Replied(v, "cancelled") \in ToSet(log)'
                 <=> Replied(v, "cancelled") \in ToSet(log) \/ v = t
    BY <1>2 DEF Said, Replied
  <2>2. ASSUME NEW v \in Utterances
        PROVE  (\E c \in Cancels : answers'[c] = v) <=> (\E c \in Cancels : answers[c] = v) \/ v = t
    BY <1>1, <1>3
  <2>3. QED BY <2>1, <2>2 DEF LogPart, CancelledByOwner
<1>10. QED BY <1>7, <1>8, <1>9 DEF LogPart

-----------------------------------------------------------------------------
(***************************************************************************)
(* The extraction buffer.                                                  *)
(***************************************************************************)
BufferTypeOK ==
  /\ buffer \in Seq(Utterances)
  /\ timerArmed \in BOOLEAN
  /\ batches \in Seq(Seq(Utterances))

LEMMA BufferStep ==
  ASSUME BufferTypeOK, BufferIsGuarded,
         \/ \E u \in Utterances : onUtterance(u)
         \/ QuietPeriodEnds
         \/ UNCHANGED schedulerVars
  PROVE  BufferTypeOK' /\ BufferIsGuarded'
<1>1. /\ buffer \in Seq(Utterances) /\ batches \in Seq(Seq(Utterances))
      /\ Len(buffer) < maxUtterances /\ maxUtterances \in Nat \ {0}
  BY SchedulerAssumption DEF BufferTypeOK, BufferIsGuarded
<1>2. ASSUME NEW b \in Seq(Utterances), b # <<>>, flush(b) PROVE BufferTypeOK' /\ BufferIsGuarded'
  <2>1. buffer' = <<>> /\ timerArmed' = FALSE /\ batches' = Append(batches, b)
    BY <1>2 DEF flush
  <2>2. Len(buffer') < maxUtterances /\ buffer' \in Seq(Utterances) /\ batches' \in Seq(Seq(Utterances))
    BY <1>1, <1>2, <2>1
  <2>3. QED BY <2>1, <2>2, Zenon DEF BufferTypeOK, BufferIsGuarded
<1>3. ASSUME NEW u \in Utterances, onUtterance(u) PROVE BufferTypeOK' /\ BufferIsGuarded'
  <2> DEFINE b == Append(buffer, u)
  <2>1. b \in Seq(Utterances) /\ b # <<>> /\ Len(b) = Len(buffer) + 1 /\ Len(b) \in Nat
    BY <1>1
  <2> HIDE DEF b
  <2>2. CASE Len(b) >= maxUtterances
    BY <1>2, <1>3, <2>1, <2>2 DEF onUtterance, b
  <2>3. CASE ~(Len(b) >= maxUtterances)
    <3>1. buffer' = b /\ timerArmed' = TRUE /\ batches' = batches
      BY <1>3, <2>3 DEF onUtterance, b
    <3>2. Len(buffer') < maxUtterances
      BY <1>1, <2>1, <2>3, <3>1
    <3>3. QED BY <1>1, <2>1, <3>1, <3>2, Zenon DEF BufferTypeOK, BufferIsGuarded
  <2>4. QED BY <2>2, <2>3
<1>4. CASE QuietPeriodEnds
  BY <1>1, <1>2, <1>4 DEF QuietPeriodEnds, BufferIsGuarded
<1>5. CASE UNCHANGED schedulerVars
  BY <1>5 DEF schedulerVars, BufferTypeOK, BufferIsGuarded
<1>6. QED BY <1>3, <1>4, <1>5

-----------------------------------------------------------------------------
(***************************************************************************)
(* The inductive invariant.                                                *)
(***************************************************************************)
\* Everything but the log, the answers and the buffer, which have lemmas above.
StagePart ==
  /\ TurnsTypeOK
  /\ QueueIsFresh
  /\ SlotHolderAsks
  /\ AnswerStaysAnswer
  /\ NothingWaitsForAnEndedTurn

\* The utterance that is handled leaves the queue, or was never in it.
LEMMA HandleStep ==
  ASSUME TurnsIInv, NEW u \in Utterances, Unheard(u), handleUtterance(u),
         \/ UNCHANGED earsQueue /\ stage[u] = "unsaid"
         \/ earsQueue # <<>> /\ u = Head(earsQueue) /\ earsQueue' = Tail(earsQueue)
  PROVE  TurnsIInv'
<1> USE TurnsAssumption
<1>1. StagePart /\ LogPart /\ BufferTypeOK /\ BufferIsGuarded
  BY DEF TurnsIInv, StagePart, LogPart, BufferTypeOK, TurnsTypeOK
<1>2. QueueIsFresh' \/ \E v \in Utterances \ {u} : stage[v] = "queued" /\ stage'[v] # "queued"
  <2>1. earsQueue \in Seq(Spoken) /\ Spoken \subseteq Utterances
    BY DEF TurnsIInv, TurnsTypeOK, Utterances
  <2>2. CASE UNCHANGED earsQueue /\ stage[u] = "unsaid"
    BY <2>1, <2>2 DEF TurnsIInv, QueueIsFresh
  <2>3. CASE earsQueue # <<>> /\ u = Head(earsQueue) /\ earsQueue' = Tail(earsQueue)
    <3>1. /\ DOMAIN earsQueue = 1..Len(earsQueue) /\ Len(earsQueue) \in Nat \ {0}
          /\ DOMAIN earsQueue' = 1..(Len(earsQueue) - 1)
          /\ \A i \in DOMAIN earsQueue' : earsQueue'[i] = earsQueue[i + 1]
          /\ u = earsQueue[1]
      BY <2>1, <2>3
    <3>2. /\ \A i \in DOMAIN earsQueue : stage[earsQueue[i]] = "queued" /\ earsQueue[i] \in Utterances
          /\ \A i, j \in DOMAIN earsQueue : earsQueue[i] = earsQueue[j] => i = j
      BY <2>1 DEF TurnsIInv, QueueIsFresh
    <3>3. \A i \in DOMAIN earsQueue' : i \in DOMAIN earsQueue /\ i + 1 \in DOMAIN earsQueue /\ i + 1 # 1
      BY <3>1
    <3>4. \A i, j \in DOMAIN earsQueue' : earsQueue'[i] = earsQueue'[j] => i = j
      BY <3>1, <3>2, <3>3
    <3>5. \A i \in DOMAIN earsQueue' : /\ earsQueue'[i] \in Utterances \ {u}
                                       /\ stage[earsQueue'[i]] = "queued"
      <4>1. 1 \in DOMAIN earsQueue
        BY <3>1
      <4>2. QED BY <3>1, <3>2, <3>3, <4>1
    <3>6. QED BY <3>4, <3>5 DEF QueueIsFresh
  <2>4. QED BY <2>2, <2>3
<1>3. earsQueue' \in Seq(Spoken)
  <2>1. earsQueue \in Seq(Spoken)
    BY DEF TurnsIInv, TurnsTypeOK
  <2>2. QED BY <2>1
<1>4. CASE beginTurn(u)
  <2>1. LogPart'
    <3>1. StagesAgree({u}) /\ ~Unheard(u)' /\ stage'[u] # "done" /\ answers' = [answers EXCEPT ![u] = NoTurn]
      BY <1>1, <1>4 DEF beginTurn, StagePart, TurnsTypeOK, Unheard, StagesAgree, AnswerStaysAnswer
    <3>2. log' = Append(log, Said(u))
      BY <1>4 DEF beginTurn
    <3>3. QED BY <1>1, <3>1, <3>2, SayStep DEF StagePart
  <2>2. BufferTypeOK' /\ BufferIsGuarded'
    BY <1>1, <1>4, BufferStep DEF beginTurn
  <2>3. StagePart'
    BY <1>1, <1>2, <1>3, <1>4, <2>2, OneEvent DEF beginTurn, handleUtterance, StagePart, TurnsTypeOK,
       Stages, Unheard, SlotHolderAsks, AnswerStaysAnswer, NothingWaitsForAnEndedTurn, Active,
       BufferTypeOK, Events, Said
  <2>4. QED BY <2>1, <2>2, <2>3 DEF TurnsIInv, StagePart, LogPart
<1>5. CASE offerUtterance(u)
  <2>1. /\ pending \in Utterances /\ pending # u /\ stage[pending] = "asking"
        /\ ~Unheard(pending) /\ stage[pending] # "done"
    BY <1>1, <1>5 DEF offerUtterance, StagePart, TurnsTypeOK, SlotHolderAsks, Unheard
  <2>2. BufferTypeOK' /\ BufferIsGuarded'
    BY <1>1, <1>5, BufferStep DEF offerUtterance
  <2>3. CASE Answer(u)
    <3>1. StagesAgree({u}) /\ ~Unheard(u)' /\ stage'[u] # "done"
      BY <1>1, <2>1, <2>3 DEF Answer, StagePart, TurnsTypeOK, Unheard, StagesAgree
    <3>2. LogPart'
      BY <1>1, <1>5, <2>1, <2>3, <3>1, SayStep DEF StagePart, Answer, offerUtterance
    <3>3. log' \in Seq(Events)
      BY <1>1, <2>3, OneEvent DEF Answer, StagePart, TurnsTypeOK, Events, Said
    <3>4. StagePart'
      <4> USE DEF Answer, offerUtterance, handleUtterance, StagePart
      <4>1. TurnsTypeOK'
        BY <1>1, <1>3, <1>5, <2>1, <2>2, <2>3, <3>3 DEF TurnsTypeOK, Stages, BufferTypeOK
      <4>2. QueueIsFresh'
        BY <1>1, <1>2, <2>1, <2>3 DEF TurnsTypeOK
      <4>3. SlotHolderAsks' /\ AnswerStaysAnswer'
        BY <1>1, <1>5, <2>1, <2>3 DEF TurnsTypeOK, SlotHolderAsks, AnswerStaysAnswer, Unheard
      <4>4. NothingWaitsForAnEndedTurn'
        <5>1. ASSUME NEW t \in Utterances, stage[t] \in Active PROVE stage'[t] \in Active
          BY <1>1, <2>1, <2>3, <5>1 DEF TurnsTypeOK, Active, Unheard
        <5>2. earsTurn \in Utterances \cup {NoTurn} /\ UNCHANGED <<light, earsTurn>>
          BY <1>1, <2>3 DEF TurnsTypeOK, Utterances
        <5>3. QED BY <1>1, <5>1, <5>2 DEF NothingWaitsForAnEndedTurn
      <4>5. QED BY <4>1, <4>2, <4>3, <4>4
    <3>5. QED BY <2>2, <3>2, <3>4 DEF TurnsIInv, StagePart, LogPart
  <2>4. CASE CancelAnswer(u)
    <3>1. /\ StagesAgree({u, pending}) /\ ~Unheard(u)' /\ stage'[u] # "done"
          /\ \A t \in Utterances : t = pending => ~Unheard(t)' /\ stage'[t] = "done"
      BY <1>1, <2>1, <2>4 DEF CancelAnswer, StagePart, TurnsTypeOK, Unheard, StagesAgree
    <3>2. LogPart'
      <4>1. PICK t \in Utterances : t = pending
        BY <2>1
      <4>2. log' = log \o <<Said(u), Replied(t, "cancelled")>> /\ u \in Cancels
        BY <2>4, <4>1 DEF CancelAnswer
      <4>3. answers' = [answers EXCEPT ![u] = t]
        BY <1>5, <4>1 DEF offerUtterance
      <4>4. /\ u # t /\ ~Unheard(t) /\ stage[t] # "done"
            /\ ~Unheard(t)' /\ stage'[t] = "done" /\ StagesAgree({u, t})
        BY <2>1, <3>1, <4>1 DEF Unheard, StagesAgree
      <4>5. QED BY <1>1, <3>1, <4>2, <4>3, <4>4, CancelStep DEF StagePart
    <3>3. log' \in Seq(Events)
      BY <1>1, <2>1, <2>4, TwoEvents
         DEF CancelAnswer, StagePart, TurnsTypeOK, Events, Said, Replied, Endings
    <3>4. StagePart'
      <4> USE DEF CancelAnswer, finish, offerUtterance, handleUtterance, StagePart
      <4>1. TurnsTypeOK'
        BY <1>1, <1>3, <1>5, <2>1, <2>2, <2>4, <3>3 DEF TurnsTypeOK, Stages, BufferTypeOK
      <4>2. QueueIsFresh'
        BY <1>1, <1>2, <2>1, <2>4 DEF TurnsTypeOK
      <4>3. SlotHolderAsks' /\ AnswerStaysAnswer'
        BY <1>1, <1>5, <2>1, <2>4 DEF TurnsTypeOK, SlotHolderAsks, AnswerStaysAnswer, Unheard
      <4>4. NothingWaitsForAnEndedTurn'
        <5>1. ASSUME NEW t \in Utterances \ {pending}, stage[t] \in Active
              PROVE  stage'[t] \in Active
          BY <1>1, <2>1, <2>4, <5>1 DEF TurnsTypeOK, Active, Unheard
        <5>2. /\ light' = "idle"
              /\ earsTurn' \in Utterances \cup {NoTurn}
              /\ earsTurn' # NoTurn => earsTurn' = earsTurn /\ earsTurn # pending
          BY <1>1, <2>4 DEF TurnsTypeOK, Utterances
        <5>3. QED BY <1>1, <5>1, <5>2 DEF NothingWaitsForAnEndedTurn
      <4>5. QED BY <4>1, <4>2, <4>3, <4>4
    <3>5. QED BY <2>2, <3>2, <3>4 DEF TurnsIInv, StagePart, LogPart
  <2>5. QED BY <1>5, <2>3, <2>4 DEF offerUtterance
<1>6. QED BY <1>4, <1>5 DEF handleUtterance

\* A step that adds nothing to the log, whatever it does to the stages.
LEMMA QuietStep ==
  ASSUME TurnsIInv, UNCHANGED <<log, answers>>, StagesAgree({}), StagePart',
         UNCHANGED schedulerVars \/ QuietPeriodEnds
  PROVE  TurnsIInv'
<1>1. LogPart'
  BY SilentStep DEF TurnsIInv, LogPart
<1>2. BufferTypeOK /\ BufferIsGuarded
  BY DEF TurnsIInv, TurnsTypeOK, BufferTypeOK
<1>3. BufferIsGuarded'
  BY <1>2, BufferStep
<1>4. QED BY <1>1, <1>3 DEF TurnsIInv, LogPart, StagePart

\* A turn ends with its result or its apology.
LEMMA EndStep ==
  ASSUME TurnsIInv, NEW t \in Utterances, stage[t] \in Active, NEW how \in {"ok", "error"},
         endTurn(t, how, <<>>), pending' = NoTurn \/ (pending' = pending /\ pending # t),
         UNCHANGED <<earsQueue, asks, answers, schedulerVars>>
  PROVE  TurnsIInv'
<1>1. TurnsTypeOK /\ StagePart /\ LogPart /\ log \in Seq(Events) /\ Replied(t, how) \in Events
  BY DEF TurnsIInv, StagePart, LogPart, TurnsTypeOK, Events, Replied, Endings
<1>2. log' = Append(log, Replied(t, how)) /\ log' \in Seq(Events)
  <2>1. log' = Append(log \o <<>>, Replied(t, how))
    BY DEF endTurn
  <2>2. log \o <<>> = log
    BY <1>1
  <2>3. QED BY <1>1, <2>1, <2>2
<1>3. /\ stage' = [stage EXCEPT ![t] = "done"] /\ stage \in [Utterances -> Stages]
      /\ light' = "idle" /\ earsTurn' = IF earsTurn = t THEN NoTurn ELSE earsTurn
  BY <1>1 DEF endTurn, finish, TurnsTypeOK
<1>4. LogPart'
  <2>1. /\ ~Unheard(t) /\ stage[t] # "done" /\ ~Unheard(t)' /\ stage'[t] = "done"
        /\ StagesAgree({t})
    BY <1>3 DEF Unheard, Active, StagesAgree
  <2>2. QED BY <1>1, <1>2, <2>1, ReplyStep
<1>5. StagePart'
  <2>1. TurnsTypeOK'
    BY <1>1, <1>2, <1>3 DEF TurnsTypeOK, Stages, schedulerVars
  <2>2. QueueIsFresh'
    BY <1>1, <1>3 DEF StagePart, QueueIsFresh, Active
  <2>3. SlotHolderAsks' /\ AnswerStaysAnswer'
    BY <1>1, <1>3 DEF StagePart, TurnsTypeOK, SlotHolderAsks, AnswerStaysAnswer, Active
  <2>4. NothingWaitsForAnEndedTurn'
    <3>1. earsTurn \in Utterances \cup {NoTurn}
      BY <1>1 DEF TurnsTypeOK, Utterances
    <3>2. QED BY <1>1, <1>3, <3>1 DEF StagePart, NothingWaitsForAnEndedTurn
  <2>5. QED BY <2>1, <2>2, <2>3, <2>4 DEF StagePart
<1>6. BufferIsGuarded'
  BY DEF TurnsIInv, BufferIsGuarded, schedulerVars
<1>7. QED BY <1>4, <1>5, <1>6 DEF TurnsIInv, StagePart, LogPart

LEMMA TurnsIInvStep == TurnsIInv /\ [TurnsNext]_vars => TurnsIInv'
<1> SUFFICES ASSUME TurnsIInv, [TurnsNext]_vars PROVE TurnsIInv'
  OBVIOUS
<1> USE TurnsAssumption
<1>0. /\ TurnsTypeOK /\ StagePart /\ earsQueue \in Seq(Spoken) /\ Spoken \subseteq Utterances
      /\ stage \in [Utterances -> Stages]
      /\ earsTurn \in Utterances \cup {NoTurn}
  BY DEF TurnsIInv, StagePart, TurnsTypeOK, Utterances
<1>1. ASSUME NEW u \in Utterances, Speak(u) PROVE TurnsIInv'
  <2>1. /\ u \in Spoken /\ stage[u] = "unsaid" /\ stage' = [stage EXCEPT ![u] = "queued"]
        /\ earsQueue' = Append(earsQueue, u)
        /\ UNCHANGED <<earsTurn, pending, asks, log, answers, light, schedulerVars>>
    BY <1>1 DEF Speak
  <2>2. TurnsTypeOK'
    BY <1>0, <2>1 DEF TurnsTypeOK, Stages, schedulerVars
  <2>3. QueueIsFresh'
    <3>1. /\ DOMAIN earsQueue = 1..Len(earsQueue) /\ Len(earsQueue) \in Nat
          /\ DOMAIN earsQueue' = 1..(Len(earsQueue) + 1)
          /\ \A i \in DOMAIN earsQueue : earsQueue'[i] = earsQueue[i] /\ earsQueue[i] \in Utterances
          /\ earsQueue'[Len(earsQueue) + 1] = u
      BY <1>0, <2>1
    <3>2. \A i \in DOMAIN earsQueue : stage[earsQueue[i]] = "queued"
      BY <1>0 DEF StagePart, QueueIsFresh
    <3>3. QED BY <1>0, <2>1, <3>1, <3>2 DEF StagePart, QueueIsFresh
  <2>4. SlotHolderAsks' /\ AnswerStaysAnswer'
    BY <1>0, <2>1 DEF StagePart, TurnsTypeOK, SlotHolderAsks, AnswerStaysAnswer
  <2>5. NothingWaitsForAnEndedTurn'
    BY <1>0, <2>1 DEF StagePart, NothingWaitsForAnEndedTurn, Active
  <2>6. StagesAgree({})
    BY <1>0, <2>1 DEF StagesAgree, Unheard
  <2>7. QED BY <2>1, <2>2, <2>3, <2>4, <2>5, <2>6, QuietStep DEF StagePart
<1>2. ASSUME NEW u \in Utterances, Inject(u) PROVE TurnsIInv'
  BY <1>2, HandleStep DEF Inject, Unheard
<1>3. CASE Hear
  <2>1. /\ earsQueue # <<>> /\ earsQueue' = Tail(earsQueue)
        /\ handleUtterance(Head(earsQueue))
    BY <1>3 DEF Hear
  <2>2. Head(earsQueue) \in Utterances /\ stage[Head(earsQueue)] = "queued"
    <3>1. Head(earsQueue) = earsQueue[1] /\ 1 \in DOMAIN earsQueue /\ earsQueue[1] \in Spoken
      BY <1>0, <2>1
    <3>2. QED BY <1>0, <3>1 DEF StagePart, QueueIsFresh
  <2>3. PICK u \in Utterances : u = Head(earsQueue)
    BY <2>2
  <2>4. handleUtterance(u)
    BY <2>1, <2>3 DEF handleUtterance, offerUtterance, beginTurn, Answer, CancelAnswer, onUtterance
  <2>5. QED BY <2>1, <2>2, <2>3, <2>4, HandleStep DEF Unheard
<1>4. CASE EarsListening
  <2>1. UNCHANGED <<earsQueue, earsTurn, stage, pending, asks, log, answers, schedulerVars>>
        /\ light' = "listening"
    BY <1>4 DEF EarsListening
  <2>2. StagePart'
    BY <1>0, <2>1 DEF StagePart, TurnsTypeOK, QueueIsFresh, SlotHolderAsks, AnswerStaysAnswer,
       NothingWaitsForAnEndedTurn, schedulerVars
  <2>3. StagesAgree({})
    BY <2>1 DEF StagesAgree, Unheard
  <2>4. QED BY <2>1, <2>2, <2>3, QuietStep
<1>5. ASSUME NEW t \in Utterances, Dispatched(t) PROVE TurnsIInv'
  <2>1. PICK next \in {"handling", "conversing"} : stage' = [stage EXCEPT ![t] = next]
    BY <1>5 DEF Dispatched
  <2>2. /\ stage[t] = "dispatching"
        /\ UNCHANGED <<earsQueue, earsTurn, pending, asks, log, answers, light, schedulerVars>>
    BY <1>5 DEF Dispatched
  <2>3. TurnsTypeOK'
    BY <1>0, <2>1, <2>2 DEF TurnsTypeOK, Stages, schedulerVars
  <2>4. QueueIsFresh' /\ SlotHolderAsks' /\ AnswerStaysAnswer'
    BY <1>0, <2>1, <2>2 DEF StagePart, TurnsTypeOK, QueueIsFresh, SlotHolderAsks, AnswerStaysAnswer
  <2>5. NothingWaitsForAnEndedTurn'
    <3>1. ASSUME NEW v \in Utterances, stage[v] \in Active PROVE stage'[v] \in Active
      BY <1>0, <2>1, <2>2, <3>1 DEF Active
    <3>2. QED BY <1>0, <2>2, <3>1 DEF StagePart, NothingWaitsForAnEndedTurn
  <2>6. StagesAgree({})
    BY <1>0, <2>1, <2>2 DEF StagesAgree, Unheard
  <2>7. QED BY <2>2, <2>3, <2>4, <2>5, <2>6, QuietStep DEF StagePart
<1>6. ASSUME NEW t \in Utterances, TurnEnds(t) PROVE TurnsIInv'
  <2>1. PICK how \in {"ok", "error"} : endTurn(t, how, <<>>)
    BY <1>6 DEF TurnEnds
  <2>2. stage[t] \in Active /\ stage[t] # "asking"
        /\ UNCHANGED <<earsQueue, pending, asks, answers, schedulerVars>>
    BY <1>6 DEF TurnEnds, Active
  <2>3. pending' = NoTurn \/ (pending' = pending /\ pending # t)
    BY <1>0, <2>2 DEF StagePart, SlotHolderAsks
  <2>4. QED BY <2>1, <2>2, <2>3, EndStep
<1>7. ASSUME NEW t \in Utterances, SkillAsks(t) PROVE TurnsIInv'
  <2>1. /\ stage[t] = "handling" /\ asks[t] < MaxAsks /\ asks' = [asks EXCEPT ![t] = @ + 1]
        /\ stage' = [stage EXCEPT ![t] = "asking"] /\ pending' = t
        /\ UNCHANGED <<earsQueue, earsTurn, log, answers, light, schedulerVars>>
    BY <1>7 DEF SkillAsks
  <2>2. TurnsTypeOK'
    BY <1>0, <2>1 DEF TurnsTypeOK, Stages, schedulerVars
  <2>3. QueueIsFresh' /\ SlotHolderAsks' /\ AnswerStaysAnswer'
    BY <1>0, <2>1 DEF StagePart, TurnsTypeOK, QueueIsFresh, SlotHolderAsks, AnswerStaysAnswer
  <2>4. NothingWaitsForAnEndedTurn'
    <3>1. ASSUME NEW v \in Utterances, stage[v] \in Active PROVE stage'[v] \in Active
      BY <1>0, <2>1, <3>1 DEF Active
    <3>2. QED BY <1>0, <2>1, <3>1 DEF StagePart, NothingWaitsForAnEndedTurn
  <2>5. StagesAgree({})
    BY <1>0, <2>1 DEF StagesAgree, Unheard
  <2>6. QED BY <2>1, <2>2, <2>3, <2>4, <2>5, QuietStep DEF StagePart
<1>8. CASE AskTimesOut
  <2>1. PICK t \in Utterances : t = pending
    BY <1>0, <1>8 DEF AskTimesOut, TurnsTypeOK
  <2>2. endTurn(t, "error", <<>>)
    BY <1>8, <2>1 DEF AskTimesOut, endTurn, finish
  <2>3. stage[t] \in Active
    BY <1>0, <1>8, <2>1 DEF AskTimesOut, StagePart, SlotHolderAsks, Active
  <2>4. pending' = NoTurn /\ UNCHANGED <<earsQueue, asks, answers, schedulerVars>>
    BY <1>8 DEF AskTimesOut
  <2>5. QED BY <2>2, <2>3, <2>4, EndStep
<1>9. CASE ExtractFacts
  <2>1. QuietPeriodEnds /\ UNCHANGED turnVars
    BY <1>9 DEF ExtractFacts
  <2>2. BufferTypeOK'
    BY <1>0, <2>1, BufferStep DEF TurnsTypeOK, BufferTypeOK, TurnsIInv
  <2>3. StagePart'
    BY <1>0, <2>1, <2>2 DEF turnVars, StagePart, TurnsTypeOK, BufferTypeOK, QueueIsFresh,
       SlotHolderAsks, AnswerStaysAnswer, NothingWaitsForAnEndedTurn
  <2>4. StagesAgree({}) /\ UNCHANGED <<log, answers>>
    BY <2>1 DEF turnVars, StagesAgree, Unheard
  <2>5. QED BY <2>1, <2>3, <2>4, QuietStep
<1>10. CASE UNCHANGED vars
  <2>1. UNCHANGED turnVars /\ UNCHANGED schedulerVars
    BY <1>10 DEF vars
  <2>2. StagePart'
    BY <1>0, <2>1 DEF turnVars, schedulerVars, StagePart, TurnsTypeOK, QueueIsFresh,
       SlotHolderAsks, AnswerStaysAnswer, NothingWaitsForAnEndedTurn
  <2>3. StagesAgree({}) /\ UNCHANGED <<log, answers>>
    BY <2>1 DEF turnVars, StagesAgree, Unheard
  <2>4. QED BY <2>1, <2>2, <2>3, QuietStep
<1>11. QED
  BY <1>1, <1>2, <1>3, <1>4, <1>5, <1>6, <1>7, <1>8, <1>9, <1>10 DEF TurnsNext, TurnSteps

LEMMA TurnsIInvInit == TurnsInit => TurnsIInv
<1> SUFFICES ASSUME TurnsInit PROVE TurnsIInv
  OBVIOUS
<1> USE TurnsAssumption, SchedulerAssumption DEF TurnsInit, SchedulerInit
<1>1. TurnsTypeOK
  <2>1. stage \in [Utterances -> Stages] /\ asks \in [Utterances -> 0..MaxAsks]
    BY DEF Stages
  <2>2. /\ earsQueue \in Seq(Spoken) /\ log \in Seq(Events) /\ buffer \in Seq(Utterances)
        /\ batches \in Seq(Seq(Utterances))
    OBVIOUS
  <2>3. QED BY <2>1, <2>2 DEF TurnsTypeOK
<1>2. ASSUME NEW u \in Utterances PROVE SaidOnce(u) /\ RepliedOnce(u)
  <2>1. SaidAt(u) = {} /\ RepliesTo(u) = {}
    BY DEF SaidAt, RepliesTo
  <2>2. QED BY <2>1 DEF SaidOnce, RepliedOnce, Unheard
<1>3. QueueIsFresh /\ SlotHolderAsks /\ AnswerStaysAnswer /\ AnswersOpenQuestion
  BY DEF QueueIsFresh, SlotHolderAsks, AnswerStaysAnswer, AnswersOpenQuestion
<1>4. CancelledByOwner
  <2>1. ToSet(log) = {}
    BY DEF ToSet
  <2>2. QED BY <2>1 DEF CancelledByOwner
<1>5. NothingWaitsForAnEndedTurn /\ BufferIsGuarded
  BY DEF NothingWaitsForAnEndedTurn, BufferIsGuarded
<1>6. QED BY <1>1, <1>2, <1>3, <1>4, <1>5 DEF TurnsIInv

\* The inductive invariant holds of every behaviour: what the theorems below
\* are read off.
THEOREM TurnsInvariant == TurnsSpec => []TurnsIInv
<1>1. TurnsInit => TurnsIInv
  BY TurnsIInvInit
<1>2. TurnsIInv /\ [TurnsNext]_vars => TurnsIInv'
  BY TurnsIInvStep
<1>3. QED BY <1>1, <1>2, PTL DEF TurnsSpec

-----------------------------------------------------------------------------
(***************************************************************************)
(* What follows from it.                                                   *)
(***************************************************************************)
\* No action of handleUtterance, of the ears loop or of the scheduler leaves a
\* variable outside its type.
THEOREM TurnsTypeCorrect == TurnsSpec => []TurnsTypeOK
<1>1. TurnsIInv => TurnsTypeOK
  BY DEF TurnsIInv
<1>2. QED BY <1>1, TurnsInvariant, PTL

\* However many turns overlap, each utterance that was heard is in the events
\* table once, and each turn that ended has one reply there, recorded after it
\* (handleUtterance and its catch block).
THEOREM EveryTurnRepliedOnce == TurnsSpec => []OneReplyPerTurn
<1>1. TurnsIInv => OneReplyPerTurn
  <2>1. SUFFICES ASSUME TurnsIInv, NEW u \in Utterances
                 PROVE  /\ Cardinality(SaidAt(u)) = IF stage[u] \in {"unsaid", "queued"} THEN 0 ELSE 1
                        /\ Cardinality(RepliesTo(u)) = IF stage[u] = "done" THEN 1 ELSE 0
                        /\ \A i \in SaidAt(u), j \in RepliesTo(u) : i < j
    BY DEF OneReplyPerTurn
  <2>2. ASSUME NEW S, \A i, j \in S : i = j
        PROVE  Cardinality(S) = IF S = {} THEN 0 ELSE 1
    <3>1. CASE S = {}
      BY <3>1, FS_EmptySet
    <3>2. CASE S # {}
      <4>1. PICK x \in S : S = {x}
        BY <2>2, <3>2
      <4>2. QED BY <3>2, <4>1, FS_Singleton
    <3>3. QED BY <3>1, <3>2
  <2>3. SaidOnce(u) /\ RepliedOnce(u)
    BY <2>1 DEF TurnsIInv
  <2>4. QED BY <2>2, <2>3 DEF SaidOnce, RepliedOnce, Unheard
<1>2. QED BY <1>1, TurnsInvariant, PTL

\* An utterance answers only a question that was open: asked by a turn begun
\* before it and not replied to yet (ask, offerUtterance).
THEOREM AnswersGoToOpenQuestions == TurnsSpec => []AnswersOpenQuestion
<1>1. TurnsIInv => AnswersOpenQuestion
  BY DEF TurnsIInv
<1>2. QED BY <1>1, TurnsInvariant, PTL

\* "Cancelled." is recorded for a turn exactly when the owner called off its
\* question, and for no timeout or failure (isCancelUtterance, AskCancelledError).
THEOREM OnlyTheOwnerCancels == TurnsSpec => []CancelledByOwner
<1>1. TurnsIInv => CancelledByOwner
  BY DEF TurnsIInv
<1>2. QED BY <1>1, TurnsInvariant, PTL

\* Whatever way a turn ends, the light and the ears loop do not go on waiting
\* for it (the finally block).
THEOREM NoWaitOutlivesItsTurn == TurnsSpec => []NothingWaitsForAnEndedTurn
<1>1. TurnsIInv => NothingWaitsForAnEndedTurn
  BY DEF TurnsIInv
<1>2. QED BY <1>1, TurnsInvariant, PTL

\* The extraction buffer is never left without a timer, nor filled past its cap
\* (createFactExtractionScheduler).
THEOREM BufferAlwaysGuarded == TurnsSpec => []BufferIsGuarded
<1>1. TurnsIInv => BufferIsGuarded
  BY DEF TurnsIInv
<1>2. QED BY <1>1, TurnsInvariant, PTL

\* A turn that was replied to never resumes, and an utterance taken for an
\* answer never becomes a turn: no answer, timeout or cancellation that arrives
\* late reaches a skill that is over (the single slot of ipc.ts).
THEOREM NothingReopens == TurnsSpec => [][OverIsOver]_vars
<1>1. TurnsIInv /\ [TurnsNext]_vars => [OverIsOver]_vars
  <2> SUFFICES ASSUME TurnsIInv, TurnsNext, NEW v \in Utterances, stage[v] \in {"done", "answered"}
               PROVE  stage'[v] = stage[v]
    BY DEF OverIsOver
  <2>1. /\ stage \in [Utterances -> Stages]
        /\ \A t \in Utterances : pending = t => stage[t] = "asking"
        /\ pending \in Utterances \cup {NoTurn}
    BY TurnsAssumption DEF TurnsIInv, TurnsTypeOK, SlotHolderAsks
  <2>2. ASSUME NEW u \in Utterances, Unheard(u), handleUtterance(u)
        PROVE  stage'[v] = stage[v]
    BY <2>1, <2>2 DEF handleUtterance, offerUtterance, Answer, CancelAnswer, beginTurn, Unheard
  <2>3. ASSUME NEW u \in Utterances, Speak(u) \/ TurnSteps(u)
        PROVE  stage'[v] = stage[v]
    BY <2>1, <2>3 DEF Speak, TurnSteps, Dispatched, TurnEnds, endTurn, SkillAsks
  <2>4. ASSUME NEW u \in Utterances, Inject(u)
        PROVE  stage'[v] = stage[v]
    BY <2>2, <2>4 DEF Inject, Unheard
  <2>5. CASE Hear
    <3>1. earsQueue \in Seq(Spoken) /\ earsQueue # <<>>
      BY <2>5 DEF Hear, TurnsIInv, TurnsTypeOK
    <3>2. Head(earsQueue) = earsQueue[1] /\ 1 \in DOMAIN earsQueue /\ earsQueue[1] \in Utterances
      BY <3>1 DEF Utterances
    <3>3. PICK u \in Utterances : u = Head(earsQueue) /\ Unheard(u)
      BY <3>2 DEF TurnsIInv, QueueIsFresh, Unheard
    <3>4. handleUtterance(u)
      BY <2>5, <3>3 DEF Hear, handleUtterance, offerUtterance, beginTurn, Answer, CancelAnswer,
         onUtterance
    <3>5. QED BY <2>2, <3>3, <3>4
  <2>6. CASE AskTimesOut
    BY <2>1, <2>6, TurnsAssumption DEF AskTimesOut, endTurn
  <2>7. CASE EarsListening \/ ExtractFacts
    BY <2>7 DEF EarsListening, ExtractFacts, turnVars
  <2>8. QED BY <2>3, <2>4, <2>5, <2>6, <2>7 DEF TurnsNext
<1>2. QED BY <1>1, TurnsInvariant, PTL DEF TurnsSpec

-----------------------------------------------------------------------------
(***************************************************************************)
(* What fact extraction is given.                                          *)
(***************************************************************************)
\* The k-th utterance of the b-th pile is u: of a batch, or of the buffer.
Batched(b, k, u) == b \in DOMAIN batches /\ k \in DOMAIN batches[b] /\ batches[b][k] = u

Handed(b, k, u) ==
  \/ Batched(b, k, u)
  \/ b = Len(batches) + 1 /\ k \in DOMAIN buffer /\ buffer[k] = u

Precedes(b, k, c, l) == b < c \/ (b = c /\ k < l)

\* ExtractionSeesEveryTurn, of single places.
HandedInOrder ==
  /\ \A u \in Utterances : BeganTurn(u) <=> \E b, k \in Nat : Handed(b, k, u)
  /\ \A u, v \in Utterances : \A b, k, c, l \in Nat :
       Handed(b, k, u) /\ Handed(c, l, v) /\ Precedes(b, k, c, l) => SaidBefore(u, v)

\* A flush makes a batch of what it is called with.
LEMMA FlushHands ==
  ASSUME BufferTypeOK, NEW x \in Seq(Utterances), x # <<>>, flush(x), NEW b, NEW k, NEW u
  PROVE  Handed(b, k, u)' <=> \/ Batched(b, k, u)
                              \/ b = Len(batches) + 1 /\ k \in DOMAIN x /\ x[k] = u
<1>1. batches' = Append(batches, x) /\ buffer' = <<>> /\ batches \in Seq(Seq(Utterances))
  BY DEF flush, BufferTypeOK
<1>2. /\ DOMAIN batches = 1..Len(batches) /\ Len(batches) \in Nat
      /\ DOMAIN batches' = 1..(Len(batches) + 1)
      /\ \A c \in DOMAIN batches : batches'[c] = batches[c]
      /\ batches'[Len(batches) + 1] = x
      /\ DOMAIN buffer' = {}
  BY <1>1
<1>3. QED BY <1>2 DEF Handed, Batched

\* An utterance goes behind everything that was handed over before it.
LEMMA UtteranceHands ==
  ASSUME BufferTypeOK, NEW u \in Utterances, onUtterance(u)
  PROVE  \A b, k, v : Handed(b, k, v)' <=>
           Handed(b, k, v) \/ (b = Len(batches) + 1 /\ k = Len(buffer) + 1 /\ v = u)
<1> DEFINE x == Append(buffer, u)
<1>1. /\ x \in Seq(Utterances) /\ x # <<>>
      /\ DOMAIN x = DOMAIN buffer \cup {Len(buffer) + 1}
      /\ \A k \in DOMAIN buffer : x[k] = buffer[k] /\ k # Len(buffer) + 1
      /\ x[Len(buffer) + 1] = u
  BY DEF BufferTypeOK
<1>2. flush(x) \/ (buffer' = x /\ batches' = batches)
  BY DEF onUtterance
<1> HIDE DEF x
<1>3. ASSUME NEW b, NEW k, NEW v
      PROVE  Handed(b, k, v)' <=> \/ Batched(b, k, v)
                                  \/ b = Len(batches) + 1 /\ k \in DOMAIN x /\ x[k] = v
  <2>1. CASE flush(x)
    BY <1>1, <2>1, FlushHands
  <2>2. CASE buffer' = x /\ batches' = batches
    BY <2>2 DEF Handed, Batched
  <2>3. QED BY <1>2, <2>1, <2>2
<1>4. ASSUME NEW b, NEW k, NEW v
      PROVE  Handed(b, k, v)' <=>
               Handed(b, k, v) \/ (b = Len(batches) + 1 /\ k = Len(buffer) + 1 /\ v = u)
  BY <1>1, <1>3 DEF Handed
<1>5. QED BY <1>4

\* The quiet period's end moves the buffer and nothing in it.
LEMMA QuietHands ==
  ASSUME BufferTypeOK, BufferIsGuarded, QuietPeriodEnds \/ UNCHANGED schedulerVars
  PROVE  \A b, k, v : Handed(b, k, v)' <=> Handed(b, k, v)
<1>1. CASE QuietPeriodEnds
  <2>1. flush(buffer) /\ buffer # <<>> /\ buffer \in Seq(Utterances)
    BY <1>1 DEF QuietPeriodEnds, BufferIsGuarded, BufferTypeOK
  <2>2. ASSUME NEW b, NEW k, NEW v PROVE Handed(b, k, v)' <=> Handed(b, k, v)
    BY <2>1, FlushHands DEF Handed
  <2>3. QED BY <2>2
<1>2. CASE UNCHANGED schedulerVars
  BY <1>2 DEF schedulerVars, Handed, Batched
<1>3. QED BY <1>1, <1>2

\* Places are numbers, and none lies behind the end of the buffer.
LEMMA HandedPlaces ==
  ASSUME BufferTypeOK, NEW b, NEW k, NEW u, Handed(b, k, u)
  PROVE  b \in Nat /\ k \in Nat /\ Precedes(b, k, Len(batches) + 1, Len(buffer) + 1)
<1>1. /\ DOMAIN batches = 1..Len(batches) /\ Len(batches) \in Nat
      /\ \A c \in DOMAIN batches : DOMAIN batches[c] \subseteq Nat
      /\ DOMAIN buffer = 1..Len(buffer) /\ Len(buffer) \in Nat
  <2>1. \A c \in DOMAIN batches : batches[c] \in Seq(Utterances)
    BY DEF BufferTypeOK
  <2>2. QED BY <2>1 DEF BufferTypeOK
<1>2. QED BY <1>1 DEF Handed, Batched, Precedes

LEMMA NothingBegins ==
  ASSUME HandedInOrder, \A b, k, v : Handed(b, k, v)' <=> Handed(b, k, v),
         \A v \in Utterances : BeganTurn(v)' <=> BeganTurn(v),
         \A v \in Utterances : BeganTurn(v) => SaidAt(v)' = SaidAt(v)
  PROVE  HandedInOrder'
<1>1. \A u \in Utterances : BeganTurn(u)' <=> \E b, k \in Nat : Handed(b, k, u)'
  BY DEF HandedInOrder
<1>2. ASSUME NEW u \in Utterances, NEW v \in Utterances,
             NEW b \in Nat, NEW k \in Nat, NEW c \in Nat, NEW l \in Nat,
             Handed(b, k, u)', Handed(c, l, v)', Precedes(b, k, c, l)
      PROVE  SaidBefore(u, v)'
  <2>1. Handed(b, k, u) /\ Handed(c, l, v)
    BY <1>2
  <2>2. SaidBefore(u, v) /\ BeganTurn(u) /\ BeganTurn(v)
    BY <1>2, <2>1 DEF HandedInOrder
  <2>3. QED BY <2>2 DEF SaidBefore
<1>3. QED BY <1>1, <1>2 DEF HandedInOrder, Precedes

LEMMA OneBegins ==
  ASSUME HandedInOrder, BufferTypeOK, NEW u \in Utterances, onUtterance(u), ~BeganTurn(u),
         \A v \in Utterances : BeganTurn(v)' <=> BeganTurn(v) \/ v = u,
         \A v \in Utterances : BeganTurn(v) => SaidAt(v)' = SaidAt(v) /\ SaidBefore(v, u)'
  PROVE  HandedInOrder'
<1> DEFINE B == Len(batches) + 1
           K == Len(buffer) + 1
<1>1. \A b, k, v : Handed(b, k, v)' <=> Handed(b, k, v) \/ (b = B /\ k = K /\ v = u)
  BY UtteranceHands
<1>2. B \in Nat /\ K \in Nat
  BY DEF BufferTypeOK
<1>3. ASSUME NEW v \in Utterances
      PROVE  BeganTurn(v)' <=> \E b, k \in Nat : Handed(b, k, v)'
  BY <1>1, <1>2 DEF HandedInOrder
<1>4. ASSUME NEW v \in Utterances, NEW w \in Utterances,
             NEW b \in Nat, NEW k \in Nat, NEW c \in Nat, NEW l \in Nat,
             Handed(b, k, v)', Handed(c, l, w)', Precedes(b, k, c, l)
      PROVE  SaidBefore(v, w)'
  <2>1. CASE Handed(b, k, v) /\ Handed(c, l, w)
    <3>1. SaidBefore(v, w) /\ BeganTurn(v) /\ BeganTurn(w)
      BY <1>4, <2>1 DEF HandedInOrder
    <3>2. QED BY <3>1 DEF SaidBefore
  <2>2. CASE Handed(b, k, v) /\ w = u
    <3>1. BeganTurn(v)
      BY <1>4, <2>2 DEF HandedInOrder
    <3>2. QED BY <2>2, <3>1
  <2>3. CASE b = B /\ k = K
    <3>1. Handed(c, l, w) => Precedes(c, l, B, K)
      BY HandedPlaces
    <3>2. ~Handed(c, l, w) => c = B /\ l = K
      BY <1>1, <1>4
    <3>3. QED BY <1>2, <1>4, <2>3, <3>1, <3>2 DEF Precedes
  <2>4. QED BY <1>1, <1>4, <2>1, <2>2, <2>3
<1>5. QED BY <1>3, <1>4 DEF HandedInOrder, Precedes

\* The utterance that is handled begins a turn, or answers and begins none.
LEMMA HandleHands ==
  ASSUME TurnsIInv, HandedInOrder, NEW u \in Utterances, Unheard(u), handleUtterance(u)
  PROVE  HandedInOrder'
<1> USE TurnsAssumption
<1> DEFINE n == Len(log) + 1
<1>1. /\ log \in Seq(Events) /\ Said(u) \in Events /\ BufferTypeOK /\ BufferIsGuarded
      /\ answers \in [Utterances -> Utterances \cup {NoTurn}]
      /\ \A v : SaidAt(v) \subseteq 1..Len(log)
      /\ Len(log) \in Nat
  BY Positions DEF TurnsIInv, TurnsTypeOK, BufferTypeOK, Events, Said
<1>2. SaidAt(u) = {} /\ answers[u] = NoTurn /\ ~BeganTurn(u)
  BY DEF TurnsIInv, SaidOnce, AnswerStaysAnswer, Unheard, BeganTurn
<1>3. \A v : SaidAt(v)' = SaidAt(v) \cup (IF v = u THEN {n} ELSE {})
  <2>1. CASE log' = Append(log, Said(u))
    <3>1. \A v : SaidAt(v)' = SaidAt(v) \cup AddsSaid(Said(u), v, n)
      BY <1>1, <2>1, OneEvent
    <3>2. QED BY <3>1 DEF AddsSaid, Said
  <2>2. CASE CancelAnswer(u) /\ pending \in Utterances
    <3>1. PICK t \in Utterances : t = pending
      BY <2>2
    <3>2. log' = log \o <<Said(u), Replied(t, "cancelled")>>
      BY <2>2, <3>1 DEF CancelAnswer
    <3>3. Replied(t, "cancelled") \in Events
      BY DEF Events, Replied, Endings
    <3>4. \A v : SaidAt(v)' = SaidAt(v) \cup AddsSaid(Said(u), v, n)
                                       \cup AddsSaid(Replied(t, "cancelled"), v, n + 1)
      BY <1>1, <3>2, <3>3, TwoEvents
    <3>5. QED BY <3>4 DEF AddsSaid, Said, Replied
  <2>3. log' = Append(log, Said(u)) \/ (CancelAnswer(u) /\ pending \in Utterances)
    BY DEF handleUtterance, offerUtterance, beginTurn, Answer, TurnsIInv, TurnsTypeOK
  <2>4. QED BY <2>1, <2>2, <2>3
<1>4. ASSUME NEW v \in Utterances, BeganTurn(v) PROVE SaidAt(v)' = SaidAt(v)
  <2>1. v # u
    BY <1>2, <1>4
  <2>2. QED BY <1>3, <2>1
<1>5. CASE beginTurn(u)
  <2>1. answers' = answers /\ onUtterance(u)
    BY <1>5 DEF beginTurn
  <2>2. \A v \in Utterances : BeganTurn(v)' <=> BeganTurn(v) \/ v = u
    BY <1>2, <1>3, <2>1 DEF BeganTurn
  <2>3. \A v \in Utterances : BeganTurn(v) => SaidBefore(v, u)'
    BY <1>1, <1>2, <1>3, <1>4 DEF SaidBefore
  <2>4. QED BY <1>1, <1>2, <1>4, <2>1, <2>2, <2>3, OneBegins
<1>6. CASE offerUtterance(u)
  <2>1. answers' = [answers EXCEPT ![u] = pending] /\ pending # NoTurn /\ UNCHANGED schedulerVars
    BY <1>6 DEF offerUtterance
  <2>2. \A v \in Utterances : BeganTurn(v)' <=> BeganTurn(v)
    BY <1>1, <1>2, <1>3, <2>1 DEF BeganTurn
  <2>3. \A b, k, v : Handed(b, k, v)' <=> Handed(b, k, v)
    BY <1>1, <2>1, QuietHands
  <2>4. QED BY <1>4, <2>2, <2>3, NothingBegins
<1>7. QED BY <1>5, <1>6 DEF handleUtterance

LEMMA HandedStep == TurnsIInv /\ HandedInOrder /\ [TurnsNext]_vars => HandedInOrder'
<1> SUFFICES ASSUME TurnsIInv, HandedInOrder, [TurnsNext]_vars PROVE HandedInOrder'
  OBVIOUS
<1> USE TurnsAssumption
<1>0. BufferTypeOK /\ BufferIsGuarded /\ log \in Seq(Events) /\ earsQueue \in Seq(Spoken)
  BY DEF TurnsIInv, TurnsTypeOK, BufferTypeOK
<1>1. ASSUME NEW u \in Utterances, Inject(u) PROVE HandedInOrder'
  BY <1>1, HandleHands DEF Inject, Unheard
<1>2. CASE Hear
  <2>1. earsQueue # <<>> /\ handleUtterance(Head(earsQueue))
    BY <1>2 DEF Hear
  <2>2. Head(earsQueue) = earsQueue[1] /\ 1 \in DOMAIN earsQueue /\ earsQueue[1] \in Spoken
    BY <1>0, <2>1
  <2>3. PICK u \in Utterances : u = Head(earsQueue) /\ Unheard(u)
    BY <2>2 DEF TurnsIInv, QueueIsFresh, Utterances, Unheard
  <2>4. handleUtterance(u)
    BY <2>1, <2>3 DEF handleUtterance, offerUtterance, beginTurn, Answer, CancelAnswer, onUtterance
  <2>5. QED BY <2>3, <2>4, HandleHands
<1>3. ASSUME \A v : SaidAt(v)' = SaidAt(v), UNCHANGED answers,
             UNCHANGED schedulerVars \/ QuietPeriodEnds
      PROVE  HandedInOrder'
  <2>1. \A b, k, v : Handed(b, k, v)' <=> Handed(b, k, v)
    BY <1>0, <1>3, QuietHands
  <2>2. \A v \in Utterances : BeganTurn(v)' <=> BeganTurn(v)
    BY <1>3 DEF BeganTurn
  <2>3. QED BY <1>3, <2>1, <2>2, NothingBegins
<1>4. ASSUME UNCHANGED log PROVE \A v : SaidAt(v)' = SaidAt(v)
  BY <1>4 DEF SaidAt
<1>5. ASSUME NEW t \in Utterances, NEW how \in {"ok", "error"}, endTurn(t, how, <<>>)
      PROVE  \A v : SaidAt(v)' = SaidAt(v)
  <2>1. log' = Append(log, Replied(t, how)) /\ Replied(t, how) \in Events
    BY <1>0, <1>5 DEF endTurn, Events, Replied, Endings
  <2>2. \A v : SaidAt(v)' = SaidAt(v) \cup AddsSaid(Replied(t, how), v, Len(log) + 1)
    BY <1>0, <2>1, OneEvent
  <2>3. QED BY <2>2 DEF AddsSaid, Said, Replied
<1>6. ASSUME NEW t \in Utterances, Speak(t) \/ Dispatched(t) \/ SkillAsks(t) PROVE HandedInOrder'
  BY <1>3, <1>4, <1>6 DEF Speak, Dispatched, SkillAsks
<1>7. CASE EarsListening
  BY <1>3, <1>4, <1>7 DEF EarsListening
<1>8. ASSUME NEW t \in Utterances, TurnEnds(t) PROVE HandedInOrder'
  <2>1. PICK how \in {"ok", "error"} : endTurn(t, how, <<>>)
    BY <1>8 DEF TurnEnds
  <2>2. UNCHANGED answers /\ UNCHANGED schedulerVars
    BY <1>8 DEF TurnEnds
  <2>3. QED BY <1>3, <1>5, <2>1, <2>2
<1>9. CASE AskTimesOut
  <2>1. PICK t \in Utterances : t = pending
    BY <1>9 DEF AskTimesOut, TurnsIInv, TurnsTypeOK
  <2>2. endTurn(t, "error", <<>>)
    BY <1>9, <2>1 DEF AskTimesOut, endTurn, finish
  <2>3. UNCHANGED answers /\ UNCHANGED schedulerVars
    BY <1>9 DEF AskTimesOut
  <2>4. QED BY <1>3, <1>5, <2>2, <2>3
<1>10. CASE ExtractFacts
  <2>1. QuietPeriodEnds /\ UNCHANGED log /\ UNCHANGED answers
    BY <1>10 DEF ExtractFacts, turnVars
  <2>2. QED BY <1>3, <1>4, <2>1
<1>11. CASE UNCHANGED vars
  <2>1. UNCHANGED log /\ UNCHANGED answers /\ UNCHANGED schedulerVars
    BY <1>11 DEF vars, turnVars
  <2>2. QED BY <1>3, <1>4, <2>1
<1>12. QED
  BY <1>1, <1>2, <1>6, <1>7, <1>8, <1>9, <1>10, <1>11 DEF TurnsNext, TurnSteps

\* In terms of places, it is what ExtractionSeesEveryTurn says.
LEMMA PlacesSuffice == TurnsTypeOK /\ HandedInOrder => ExtractionSeesEveryTurn
<1> SUFFICES ASSUME TurnsTypeOK, HandedInOrder PROVE ExtractionSeesEveryTurn
  OBVIOUS
<1>1. /\ DOMAIN batches = 1..Len(batches) /\ Len(batches) \in Nat
      /\ DOMAIN Piles = 1..(Len(batches) + 1)
      /\ \A b \in 1..Len(batches) : Piles[b] = batches[b] /\ batches[b] \in Seq(Utterances)
      /\ Piles[Len(batches) + 1] = buffer /\ buffer \in Seq(Utterances)
  BY DEF TurnsTypeOK, Piles
<1>2. ASSUME NEW b \in DOMAIN Piles
      PROVE  /\ b \in Nat /\ Piles[b] \in Seq(Utterances)
             /\ \A k \in DOMAIN Piles[b] : k \in Nat /\ Handed(b, k, Piles[b][k])
  <2>1. b \in Nat /\ Piles[b] \in Seq(Utterances)
    BY <1>1
  <2>2. \A k \in DOMAIN Piles[b] : k \in Nat
    BY <2>1
  <2>3. QED BY <1>1, <2>1, <2>2 DEF Handed, Batched
<1>3. ASSUME NEW b, NEW k, NEW u, Handed(b, k, u)
      PROVE  b \in DOMAIN Piles /\ k \in DOMAIN Piles[b] /\ Piles[b][k] = u
  BY <1>1, <1>3 DEF Handed, Batched
<1>4. ASSUME NEW u \in Utterances
      PROVE  BeganTurn(u) <=> \E b \in DOMAIN Piles : u \in ToSet(Piles[b])
  BY <1>2, <1>3 DEF HandedInOrder, ToSet
<1>5. ASSUME NEW b \in DOMAIN Piles, NEW c \in DOMAIN Piles,
             NEW k \in DOMAIN Piles[b], NEW l \in DOMAIN Piles[c], b < c \/ (b = c /\ k < l)
      PROVE  SaidBefore(Piles[b][k], Piles[c][l])
  <2>1. Piles[b][k] \in Utterances /\ Piles[c][l] \in Utterances
    BY <1>2
  <2>2. QED BY <1>2, <1>5, <2>1 DEF HandedInOrder, Precedes
<1>6. QED BY <1>4, <1>5 DEF ExtractionSeesEveryTurn

\* Fact extraction gets every utterance that began a turn, once, in the order they were said,
\* whatever turns overlap and whichever of cap and quiet period ends a batch
\* (onUtterance and flush, called from handleUtterance).
THEOREM NothingMissesExtraction == TurnsSpec => []ExtractionSeesEveryTurn
<1>1. TurnsInit => HandedInOrder
  <2> SUFFICES ASSUME TurnsInit PROVE HandedInOrder
    OBVIOUS
  <2>1. log = <<>> /\ buffer = <<>> /\ batches = <<>>
    BY DEF TurnsInit, SchedulerInit
  <2>2. \A u : ~BeganTurn(u)
    BY <2>1 DEF BeganTurn, SaidAt
  <2>3. \A b, k, u : ~Handed(b, k, u)
    BY <2>1 DEF Handed, Batched
  <2>4. QED BY <2>2, <2>3 DEF HandedInOrder
<1>2. TurnsIInv /\ HandedInOrder /\ [TurnsNext]_vars => HandedInOrder'
  BY HandedStep
<1>3. TurnsIInv /\ HandedInOrder => ExtractionSeesEveryTurn
  BY PlacesSuffice DEF TurnsIInv
<1>4. QED BY <1>1, <1>2, <1>3, TurnsInvariant, PTL DEF TurnsSpec
=============================================================================
