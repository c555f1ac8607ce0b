---------------------------- MODULE PanelsProofs ----------------------------
(***************************************************************************)
(* Proofs about the skills, beside the dashboard and the owner's phone,    *)
(* for any number of utterances, rows, reminders and fetches: what the     *)
(* owner is told at the end of a handling is so.                           *)
(***************************************************************************)
EXTENDS Panels, TLAPS

\* Of an action that an executor knows more of than an exit code, it says that it is done
\* only when that has come about.
LEMMA ChangesAreDone ==
    ASSUME NEW action \in Actions, NEW end \in executorEnds(action), action \in Changes \ Believed,
           ok(end)
    PROVE  does(end)
<1>1. action \in {"close", "add", "complete"}
  BY DEF Actions, AppControl, ShellExec, Reminding, Changes, Believed
<1>2. end # "hollow"
  <2>1. CASE action = "close"
    <3>1. executorEnds(action) = runAppControlAction(action)
      BY <2>1 DEF executorEnds, AppControl, ShellExec, Reminding
    <3>2. runAppControlAction(action) = closeApp
      BY <2>1 DEF runAppControlAction
    <3>3. "hollow" \notin closeApp
      BY DEF closeApp, checked, quits, processEnds
    <3>4. QED BY <3>1, <3>2, <3>3
  <2>2. CASE action \in {"add", "complete"}
    BY <2>2 DEF executorEnds, AppControl, ShellExec, Reminding, runRemindersAction, processEnds
  <2>3. QED BY <1>1, <2>1, <2>2
<1>3. QED BY <1>2 DEF ok, does

\* What is told of an action that went well is the change it is, or that something was read.
LEMMA OutcomeFacts ==
    ASSUME NEW action \in Actions
    PROVE  /\ outcomeOf(action) \in Changes \cup {"read"}
           /\ outcomeOf(action) \in Changes => outcomeOf(action) = action /\ action \in Changes
BY DEF outcomeOf, Changes

LEMMA ActOfFacts ==
    ASSUME NEW i \in DOMAIN ActOf
    PROVE  ActOf[i] \in Actions \ {"browse", "complete", "remember"}
BY DEF ActOf, Actions, AppControl, ShellExec, Reminding

\* What one handling tells.
SpokenTrue(h) ==
    /\ told[h] \in Changes \ Believed => <<h, told[h]>> \in did
    /\ told[h] \in Believed => <<h, told[h]>> \in said
    /\ told[h] \in {"rejected", "nothing"} => Done(h) = {}
    /\ "browse" \in Done(h) => answer[h] = "yes"

LEMMA OneSpoken == SpokenOutcomeTrue <=> \A h \in Handlings : SpokenTrue(h)
BY DEF SpokenOutcomeTrue, SpokenTrue

\* What has come about, or was said to have.
acts == did \cup said

\* The invariant without the types of the stores, which the handlings do not look at.
FlowInv == NothingYet /\ OnlyProposedRun /\ GuessIsAsked /\ SpokenOutcomeTrue

LEMMA SkillsIInvInit == SkillsInit => SkillsIInv
<1> SUFFICES ASSUME SkillsInit PROVE SkillsIInv
  OBVIOUS
<1>1. SkillsTypeOK
  BY SkillsAssumption DEF SkillsInit, SkillsTypeOK
<1>2. NothingYet /\ OnlyProposedRun /\ GuessIsAsked /\ SpokenOutcomeTrue
  BY DEF SkillsInit, NothingYet, OnlyProposedRun, GuessIsAsked, SpokenOutcomeTrue, Done, Changes, Believed
<1>3. QED BY <1>1, <1>2 DEF SkillsIInv
----------------------------------------------------------------------------
(* The ways a step of a handling can end, whatever else it does.           *)

\* The step is about `h` alone.
About(h) ==
    /\ pending' \subseteq pending \cup {h} /\ executing' \subseteq executing \cup {h}
    /\ pending' \cap executing' = {}
    /\ act'[h] = "browse" => answer'[h] = "yes"
    /\ \A u \in Handlings \ {h} :
          /\ act'[u] = act[u] /\ answer'[u] = answer[u]
          /\ \A a \in Changes : /\ <<u, a>> \in did' <=> <<u, a>> \in did
                                /\ <<u, a>> \in said' <=> <<u, a>> \in said

\* It goes on, with nothing done yet.
LEMMA GoingOnKeepsFlow ==
    ASSUME SkillsTypeOK, FlowInv, NEW h \in Handlings, stage[h] # "done",
           NEW to, to # "done", goes(h, to), UNCHANGED told, About(h),
           \A a \in Changes : <<h, a>> \notin acts',
           h \in pending' \cup executing' => to = "proposed",
           to = "confirming" => act'[h] = "open"
    PROVE  FlowInv'
<1>1. stage'[h] = to /\ \A u \in Handlings \ {h} : stage'[u] = stage[u]
  BY DEF SkillsTypeOK, goes
<1>2. told[h] = "none" /\ "browse" \in Changes /\ "none" \notin Changes
  BY DEF FlowInv, NothingYet, Changes
<1>3. NothingYet'
  BY <1>1, <1>2 DEF FlowInv, NothingYet, Done, About, acts
<1>4. OnlyProposedRun'
  BY <1>1, <1>2 DEF FlowInv, OnlyProposedRun, About, SkillsTypeOK
<1>5. GuessIsAsked'
  BY <1>1 DEF FlowInv, GuessIsAsked, About
<1>6. SpokenOutcomeTrue'
  <2>1. ASSUME NEW u \in Handlings PROVE SpokenTrue(u)'
    <3>1. CASE u = h
      BY <1>1, <1>2, <2>1, <3>1 DEF SpokenTrue, Done, About, acts, Believed
    <3>2. CASE u # h
      <4>1. SpokenTrue(u) /\ Believed \subseteq Changes
        BY <2>1, OneSpoken DEF FlowInv, Believed, Changes
      <4>2. told'[u] = told[u] /\ answer'[u] = answer[u]
        BY <1>1, <2>1, <3>2 DEF About
      <4>3. \A a \in Changes : (<<u, a>> \in did' <=> <<u, a>> \in did)
        BY <2>1, <3>2 DEF About
      <4>4. \A a \in Changes : (<<u, a>> \in said' <=> <<u, a>> \in said)
        BY <2>1, <3>2 DEF About
      <4>5. \A a \in Changes : (<<u, a>> \in (did \cup said)' <=> <<u, a>> \in did \cup said)
        BY <4>3, <4>4
      <4>6. Done(u)' = Done(u)
        BY <4>5 DEF Done
      <4>7. QED
        <5>1. /\ told[u] \in Changes \ Believed => <<u, told[u]>> \in did'
              /\ told[u] \in Believed => <<u, told[u]>> \in said'
          BY <4>1, <4>3, <4>4 DEF SpokenTrue
        <5>2. /\ told[u] \in {"rejected", "nothing"} => Done(u)' = {}
              /\ "browse" \in Done(u)' => answer[u] = "yes"
          BY <4>1, <4>6 DEF SpokenTrue
        <5>3. QED BY <4>2, <5>1, <5>2 DEF SpokenTrue
    <3>3. QED BY <3>1, <3>2
  <2>2. QED BY <2>1, OneSpoken DEF SpokenTrue, SpokenOutcomeTrue
<1>7. QED BY <1>3, <1>4, <1>5, <1>6 DEF FlowInv

\* It is over, and what is told is so.
LEMMA TellingKeepsFlow ==
    ASSUME SkillsTypeOK, FlowInv, NEW h \in Handlings, stage[h] # "done",
           NEW what, tells(h, what), About(h),
           what \in Changes \ Believed => <<h, what>> \in did',
           what \in Believed => <<h, what>> \in said',
           what \in {"rejected", "nothing"} =>
               /\ h \notin pending' \cup executing'
               /\ \A a \in Changes : <<h, a>> \notin acts',
           <<h, "browse">> \in acts' => answer'[h] = "yes"
    PROVE  FlowInv'
<1>1. /\ stage'[h] = "done" /\ told'[h] = what
      /\ \A u \in Handlings \ {h} : stage'[u] = stage[u] /\ told'[u] = told[u]
  BY DEF SkillsTypeOK, tells, goes
<1>2. "browse" \in Changes
  BY DEF Changes
<1>3. NothingYet'
  BY <1>1 DEF FlowInv, NothingYet, Done, About, acts
<1>4. OnlyProposedRun'
  BY <1>1 DEF FlowInv, OnlyProposedRun, About, SkillsTypeOK
<1>5. GuessIsAsked'
  BY <1>1 DEF FlowInv, GuessIsAsked, About
<1>6. SpokenOutcomeTrue'
  <2>1. ASSUME NEW u \in Handlings PROVE SpokenTrue(u)'
    <3>1. CASE u = h
      BY <1>1, <1>2, <2>1, <3>1 DEF SpokenTrue, Done, About, acts, Believed
    <3>2. CASE u # h
      <4>1. SpokenTrue(u) /\ Believed \subseteq Changes
        BY <2>1, OneSpoken DEF FlowInv, Believed, Changes
      <4>2. told'[u] = told[u] /\ answer'[u] = answer[u]
        BY <1>1, <2>1, <3>2 DEF About
      <4>3. \A a \in Changes : (<<u, a>> \in did' <=> <<u, a>> \in did)
        BY <2>1, <3>2 DEF About
      <4>4. \A a \in Changes : (<<u, a>> \in said' <=> <<u, a>> \in said)
        BY <2>1, <3>2 DEF About
      <4>5. \A a \in Changes : (<<u, a>> \in (did \cup said)' <=> <<u, a>> \in did \cup said)
        BY <4>3, <4>4
      <4>6. Done(u)' = Done(u)
        BY <4>5 DEF Done
      <4>7. QED
        <5>1. /\ told[u] \in Changes \ Believed => <<u, told[u]>> \in did'
              /\ told[u] \in Believed => <<u, told[u]>> \in said'
          BY <4>1, <4>3, <4>4 DEF SpokenTrue
        <5>2. /\ told[u] \in {"rejected", "nothing"} => Done(u)' = {}
              /\ "browse" \in Done(u)' => answer[u] = "yes"
          BY <4>1, <4>6 DEF SpokenTrue
        <5>3. QED BY <4>2, <5>1, <5>2 DEF SpokenTrue
    <3>3. QED BY <3>1, <3>2
  <2>2. QED BY <2>1, OneSpoken DEF SpokenTrue, SpokenOutcomeTrue
<1>7. QED BY <1>3, <1>4, <1>5, <1>6 DEF FlowInv

\* What the gate does without telling anyone.
LEMMA GateKeepsFlow ==
    ASSUME SkillsTypeOK, FlowInv, NEW h \in Handlings, h \in pending \cup executing,
           UNCHANGED flowVars, About(h),
           did \subseteq did', said \subseteq said',
           \A a \in Changes : <<h, a>> \in acts' => <<h, a>> \in acts \/ (a = act[h] /\ stage[h] = "done")
    PROVE  FlowInv'
<1>1. UNCHANGED <<stage, told, answer, act>> /\ h \in Handlings /\ "browse" \in Changes
  BY DEF flowVars, SkillsTypeOK, Changes
<1>2. told[h] \notin {"rejected", "nothing"} /\ stage[h] \in {"proposed", "done"}
  BY DEF FlowInv, OnlyProposedRun
<1>3. NothingYet'
  BY <1>1 DEF FlowInv, NothingYet, Done, About, acts
<1>4. OnlyProposedRun'
  BY <1>1, <1>2 DEF FlowInv, OnlyProposedRun, About, SkillsTypeOK
<1>5. GuessIsAsked'
  BY <1>1 DEF FlowInv, GuessIsAsked
<1>6. SpokenOutcomeTrue'
  BY <1>1, <1>2 DEF FlowInv, SpokenOutcomeTrue, Done, GuessIsAsked, About, acts
<1>7. QED BY <1>3, <1>4, <1>5, <1>6 DEF FlowInv
----------------------------------------------------------------------------
(* The steps of a handling before anything is proposed.                    *)

Waiting(h) == h \in Handlings /\ stage[h] \notin {"proposed", "done"}

\* Nothing has come of it.
LEMMA WaitingFacts ==
    ASSUME FlowInv, NEW h, Waiting(h)
    PROVE  /\ h \in Handlings /\ stage[h] # "done" /\ h \notin pending /\ h \notin executing
           /\ \A a \in Changes : <<h, a>> \notin acts
           /\ pending \cap executing = {}
           /\ act[h] = "browse" => answer[h] = "yes"
BY DEF FlowInv, NothingYet, Done, OnlyProposedRun, GuessIsAsked, Waiting, acts

LEMMA AwaitsKeepsFlow ==
    ASSUME SkillsTypeOK, FlowInv, NEW h, Waiting(h), UNCHANGED answer,
           NEW to \in {"extracting", "asking", "fetching"}, awaits(h, to)
    PROVE  FlowInv'
<1>1. About(h)
  BY WaitingFacts DEF About, awaits, nothingChanges, gateVars, worldVars
<1>2. QED BY <1>1, WaitingFacts, GoingOnKeepsFlow DEF awaits, nothingChanges, gateVars, worldVars, acts

LEMMA SaysKeepsFlow ==
    ASSUME SkillsTypeOK, FlowInv, NEW h, Waiting(h), UNCHANGED answer,
           NEW what \in {"read", "nothing", "threw"}, says(h, what)
    PROVE  FlowInv'
<1>1. About(h)
  BY WaitingFacts DEF About, says, nothingChanges, gateVars, worldVars
<1>2. what \notin Changes \cup Believed /\ "browse" \in Changes
  BY DEF Changes, Believed
<1>3. QED
  BY <1>1, <1>2, WaitingFacts, TellingKeepsFlow DEF says, nothingChanges, gateVars, worldVars, acts

LEMMA ProposesKeepsFlow ==
    ASSUME SkillsTypeOK, FlowInv, NEW h, Waiting(h), NEW what, proposes(h, what),
           what = "browse" => answer'[h] = "yes",
           \A u \in Handlings \ {h} : answer'[u] = answer[u],
           UNCHANGED <<told, did, said>>
    PROVE  FlowInv'
<1>1. act'[h] = what /\ \A u \in Handlings \ {h} : act'[u] = act[u]
  BY WaitingFacts DEF proposes, SkillsTypeOK
<1>2. About(h)
  BY <1>1, WaitingFacts DEF About, proposes
<1>3. QED BY <1>2, WaitingFacts, GoingOnKeepsFlow DEF proposes, acts

\* The skill's own table.
LEMMA StoreKeepsFlow ==
    ASSUME SkillsTypeOK, FlowInv, NEW h, Waiting(h), UNCHANGED answer, NEW i, usesStore(h, i)
    PROVE  FlowInv'
<1>1. UNCHANGED <<act, pending, executing>> /\ "browse" \in Changes
  BY DEF usesStore, gateVars, Changes
<1>2. ASSUME NEW what \in {"insert", "remove", "clear"}, tells(h, what), did' = did \cup {<<h, what>>},
             UNCHANGED said
      PROVE  FlowInv'
  <2>1. About(h)
    BY <1>1, <1>2, WaitingFacts DEF About
  <2>2. what \notin Believed /\ what # "browse" /\ what \notin {"rejected", "nothing"}
    BY DEF Believed
  <2>3. QED BY <1>1, <1>2, <2>1, <2>2, WaitingFacts, TellingKeepsFlow DEF acts
<1>3. ASSUME NEW what \in {"read", "nothing"}, tells(h, what), UNCHANGED <<did, said>> PROVE FlowInv'
  <2>1. About(h)
    BY <1>1, <1>3, WaitingFacts DEF About
  <2>2. what \notin Changes /\ what \notin Believed
    BY DEF Changes, Believed
  <2>3. QED BY <1>1, <1>3, <2>1, <2>2, WaitingFacts, TellingKeepsFlow DEF acts
<1>4. CASE removes(h) /\ UNCHANGED said
  BY <1>2, <1>3, <1>4 DEF removes
<1>5. CASE ~removes(h)
  BY <1>2, <1>3, <1>5 DEF usesStore
<1>6. UNCHANGED said
  BY DEF usesStore
<1>7. QED BY <1>4, <1>5, <1>6

LEMMA GatedKeepsFlow ==
    ASSUME SkillsTypeOK, FlowInv, NEW h, Waiting(h), UNCHANGED answer, NEW i \in DOMAIN ActOf,
           gated(h, i)
    PROVE  FlowInv'
<1>1. ActOf[i] # "browse"
  BY ActOfFacts
<1>2. QED BY <1>1, ProposesKeepsFlow DEF gated, worldVars

LEMMA ProceedsKeepsFlow ==
    ASSUME SkillsTypeOK, FlowInv, NEW h, Waiting(h), UNCHANGED answer, NEW i, proceeds(h, i)
    PROVE  FlowInv'
<1>1. CASE usesStore(h, i)
  BY <1>1, StoreKeepsFlow
<1>2. CASE i \in DOMAIN ActOf /\ gated(h, i)
  BY <1>2, GatedKeepsFlow
<1>3. CASE says(h, "nothing") \/ awaits(h, "fetching")
  BY <1>3, SaysKeepsFlow, AwaitsKeepsFlow
<1>4. QED BY <1>1, <1>2, <1>3 DEF proceeds

\* An utterance is dispatched to a skill.
LEMMA BeginsKeepsFlow ==
    ASSUME SkillsTypeOK, FlowInv, NEW h \in Handlings, NEW i \in Intents, Begins(h, i)
    PROVE  FlowInv'
<1>1. Waiting(h) /\ UNCHANGED answer
  BY DEF Begins, Waiting
<1>2. \/ \E to \in {"extracting", "asking", "fetching"} : awaits(h, to)
      \/ \E what \in {"read", "nothing", "threw"} : says(h, what)
      \/ usesStore(h, i)
      \/ i \in DOMAIN ActOf /\ gated(h, i)
  <2>1. {"list_tasks", "play_music", "set_focus_mode", "read_clipboard", "capture_screenshot", "github"}
          \subseteq DOMAIN ActOf
    BY DEF ActOf
  <2>2. QED BY <2>1 DEF Begins, Shopping, Tasks, Launcher, Media, Clipboard, Gmail, Github, Weather,
                 Brief, Facts, Plain
<1>3. QED BY <1>1, <1>2, AwaitsKeepsFlow, SaysKeepsFlow, StoreKeepsFlow, GatedKeepsFlow

LEMMA AwaitedKeepsFlow ==
    ASSUME SkillsTypeOK, FlowInv, NEW h \in Handlings, Extracted(h) \/ Answered(h) \/ Fetched(h)
    PROVE  FlowInv'
<1>1. Waiting(h) /\ UNCHANGED answer
  BY DEF Extracted, Answered, Fetched, Waiting
<1>2. CASE Extracted(h)
  BY <1>1, <1>2, AwaitsKeepsFlow, ProceedsKeepsFlow DEF Extracted
<1>3. CASE Answered(h)
  BY <1>1, <1>3, SaysKeepsFlow, ProceedsKeepsFlow DEF Answered
<1>4. CASE Fetched(h)
  <2>1. CASE says(h, "read") \/ says(h, "nothing")
    BY <1>1, <2>1, SaysKeepsFlow
  <2>2. CASE /\ tells(h, "read") /\ act' = [act EXCEPT ![h] = "remember"]
             /\ pending' = pending \cup {h} /\ UNCHANGED <<executing, worldVars>>
    <3>1. act'[h] = "remember" /\ \A u \in Handlings \ {h} : act'[u] = act[u]
      BY <2>2 DEF SkillsTypeOK
    <3>2. About(h)
      BY <1>1, <2>2, <3>1, WaitingFacts DEF About, worldVars
    <3>3. "read" \notin Changes \cup Believed /\ "browse" \in Changes
      BY DEF Changes, Believed
    <3>4. QED BY <1>1, <2>2, <3>2, <3>3, WaitingFacts, TellingKeepsFlow DEF worldVars, acts
  <2>3. QED BY <1>4, <2>1, <2>2 DEF Fetched
<1>5. QED BY <1>2, <1>3, <1>4
----------------------------------------------------------------------------
(* The gate, the executors and the confirmation.                           *)

\* What the gate has of a handling.
LEMMA GatedFacts ==
    ASSUME SkillsTypeOK, FlowInv, NEW h \in pending \cup executing
    PROVE  /\ h \in Handlings /\ stage[h] \in {"proposed", "done"} /\ act[h] \in Actions
           /\ act[h] = "browse" => answer[h] = "yes"
           /\ stage[h] = "proposed" => \A a \in Changes : <<h, a>> \notin acts
           /\ <<h, "browse">> \in acts => answer[h] = "yes"
           /\ pending \cap executing = {}
BY DEF SkillsTypeOK, FlowInv, OnlyProposedRun, NothingYet, Done, GuessIsAsked, SpokenOutcomeTrue, acts,
       Changes

LEMMA ApprovedKeepsFlow ==
    ASSUME SkillsTypeOK, FlowInv, NEW h \in Handlings, Approved(h) PROVE FlowInv'
<1>1. UNCHANGED <<act, answer, did, said>> /\ h \in pending
  BY DEF Approved, flowVars, worldVars
<1>2. About(h)
  BY <1>1, GatedFacts DEF Approved, About
<1>3. UNCHANGED flowVars
  BY DEF Approved
<1>4. \A a \in Changes : <<h, a>> \in acts' <=> <<h, a>> \in acts
  BY <1>1 DEF acts
<1>5. h \in pending \cup executing
  BY <1>1
<1>6. QED BY <1>1, <1>2, <1>3, <1>4, <1>5, GateKeepsFlow

LEMMA RefusedKeepsFlow ==
    ASSUME SkillsTypeOK, FlowInv, NEW h \in Handlings, NEW why, Refused(h, why),
           why = "expired" \/ (why = "rejected" /\ h \in pending)
    PROVE  FlowInv'
<1>1. UNCHANGED <<act, answer, did, said, executing>> /\ h \in pending \cup executing
  BY DEF Refused, worldVars
<1>2. About(h)
  BY <1>1, GatedFacts DEF Refused, About
<1>3. CASE stage[h] = "proposed"
  <2>1. {"expired", "rejected"} \cap Changes = {} /\ "browse" \in Changes /\ Believed \subseteq Changes
    BY DEF Changes, Believed
  <2>2. tells(h, why)
    BY <1>3 DEF Refused
  <2>3. why = "rejected" => h \notin pending' \cup executing'
    BY <1>1, GatedFacts DEF Refused
  <2>4. QED BY <1>1, <1>2, <1>3, <2>1, <2>2, <2>3, GatedFacts, TellingKeepsFlow DEF acts
<1>4. CASE stage[h] # "proposed"
  <2>1. UNCHANGED flowVars
    BY <1>4 DEF Refused, flowVars
  <2>2. \A a \in Changes : <<h, a>> \in acts' <=> <<h, a>> \in acts
    BY <1>1 DEF acts
  <2>3. h \in pending \cup executing
    BY <1>1
  <2>4. QED BY <1>1, <1>2, <2>1, <2>2, <2>3, GateKeepsFlow
<1>5. QED BY <1>3, <1>4

\* What an executor that ends adds to the histories is what was proposed.
Ends(h, a) ==
    /\ did' = did \/ did' = did \cup {<<h, a>>}
    /\ said' = said \/ said' = said \cup {<<h, a>>}

LEMMA EndsAct ==
    ASSUME NEW h, NEW a, Ends(h, a)
    PROVE  /\ acts' = acts \/ acts' = acts \cup {<<h, a>>}
           /\ did \subseteq did' /\ said \subseteq said'
BY DEF Ends, acts

LEMMA EndFacts ==
    ASSUME SkillsTypeOK, NEW h \in Handlings, NEW end, ends(h, end)
    PROVE  /\ Ends(h, act[h])
           /\ does(end) => <<h, act[h]>> \in did'
           /\ ok(end) => <<h, act[h]>> \in said'
BY DEF ends, Ends

LEMMA LeavingIsAbout ==
    ASSUME SkillsTypeOK, FlowInv, NEW h \in executing, leaves(h), UNCHANGED <<act, answer>>,
           Ends(h, act[h])
    PROVE  About(h)
BY GatedFacts DEF About, leaves, Ends

LEMMA SucceedsKeepsFlow ==
    ASSUME SkillsTypeOK, FlowInv, NEW h \in Handlings, Succeeds(h) PROVE FlowInv'
<1>1. PICK end \in executorEnds(act[h]) : ok(end) /\ ends(h, end)
  BY DEF Succeeds
<1>2. h \in executing /\ stage[h] = "proposed" /\ UNCHANGED <<act, answer>> /\ leaves(h)
      /\ tells(h, outcomeOf(act[h]))
  BY DEF Succeeds
<1>3. Ends(h, act[h])
  BY <1>1, EndFacts
<1>4. About(h)
  BY <1>2, <1>3, LeavingIsAbout
<1>5. PICK what : what = outcomeOf(act[h])
  OBVIOUS
<1>6. /\ what \in Changes \ Believed => <<h, what>> \in did'
      /\ what \in Believed => <<h, what>> \in said'
  <2>1. act[h] \in Actions /\ Believed \subseteq Changes
    BY <1>2, GatedFacts DEF Believed, Changes
  <2>2. what \in Changes => what = act[h]
    BY <1>5, <2>1, OutcomeFacts
  <2>3. what \in Changes \ Believed => does(end)
    BY <1>1, <2>1, <2>2, ChangesAreDone
  <2>4. QED BY <1>1, <2>1, <2>2, <2>3, EndFacts
<1>7. what \notin {"rejected", "nothing"}
  BY <1>2, <1>5, GatedFacts, OutcomeFacts DEF Changes
<1>8. <<h, "browse">> \in acts' => answer'[h] = "yes"
  BY <1>2, <1>3, GatedFacts, EndsAct
<1>9. tells(h, what)
  BY <1>2, <1>5
<1>10. QED BY <1>2, <1>4, <1>6, <1>7, <1>8, <1>9, TellingKeepsFlow

LEMMA FailsKeepsFlow ==
    ASSUME SkillsTypeOK, FlowInv, NEW h \in Handlings, Fails(h) PROVE FlowInv'
<1>1. PICK end \in executorEnds(act[h]) : ends(h, end)
  BY DEF Fails
<1>2. h \in executing /\ stage[h] = "proposed" /\ UNCHANGED <<act, answer>> /\ leaves(h)
      /\ tells(h, "failed")
  BY DEF Fails
<1>3. Ends(h, act[h])
  BY <1>1, EndFacts
<1>4. About(h)
  BY <1>2, <1>3, LeavingIsAbout
<1>5. "failed" \notin Changes /\ "failed" \notin Believed
  BY DEF Changes, Believed
<1>6. <<h, "browse">> \in acts' => answer'[h] = "yes"
  BY <1>2, <1>3, GatedFacts, EndsAct
<1>7. QED BY <1>2, <1>4, <1>5, <1>6, TellingKeepsFlow

LEMMA EndsUnheardKeepsFlow ==
    ASSUME SkillsTypeOK, FlowInv, NEW h \in Handlings, EndsUnheard(h) PROVE FlowInv'
<1>1. PICK end \in executorEnds(act[h]) : ends(h, end)
  BY DEF EndsUnheard
<1>2. h \in executing /\ stage[h] = "done" /\ UNCHANGED flowVars /\ UNCHANGED <<act, answer>> /\ leaves(h)
  BY DEF EndsUnheard, flowVars
<1>3. Ends(h, act[h])
  BY <1>1, EndFacts
<1>4. About(h)
  BY <1>2, <1>3, LeavingIsAbout
<1>5. /\ did \subseteq did' /\ said \subseteq said'
      /\ \A a \in Changes : <<h, a>> \in acts' => <<h, a>> \in acts \/ a = act[h]
  BY <1>3, EndsAct
<1>6. QED BY <1>2, <1>4, <1>5, GateKeepsFlow

\* The list of the open reminders, by which one is completed.
LEMMA MatchesTaskKeepsFlow ==
    ASSUME SkillsTypeOK, FlowInv, NEW h \in Handlings, MatchesTask(h) PROVE FlowInv'
<1>1. PICK end \in executorEnds("list") : ends(h, end)
  BY DEF MatchesTask
<1>2. /\ h \in executing /\ stage[h] = "proposed" /\ act[h] = "list" /\ UNCHANGED answer
      /\ \/ proposes(h, "complete") /\ UNCHANGED told
         \/ tells(h, "nothing") /\ leaves(h) /\ UNCHANGED act
  BY DEF MatchesTask, listsFirst
<1>3. Ends(h, act[h])
  BY <1>1, EndFacts
<1>4. "list" \notin Changes /\ "nothing" \notin Changes \cup Believed /\ "browse" \in Changes
  BY DEF Changes, Believed
<1>5. \A a \in Changes : <<h, a>> \notin acts'
  <2>1. \A a \in Changes : <<h, a>> \notin acts
    BY <1>2, GatedFacts
  <2>2. QED BY <1>2, <1>3, <1>4, <2>1, EndsAct
<1>6. CASE tells(h, "nothing") /\ leaves(h) /\ UNCHANGED act
  <2>1. About(h)
    BY <1>2, <1>3, <1>6, LeavingIsAbout
  <2>2. h \notin pending' \cup executing'
    BY <1>2, <1>6, GatedFacts DEF leaves
  <2>3. QED BY <1>2, <1>4, <1>5, <1>6, <2>1, <2>2, TellingKeepsFlow
<1>7. CASE proposes(h, "complete") /\ UNCHANGED told
  <2>1. act'[h] = "complete" /\ \A u \in Handlings \ {h} : act'[u] = act[u]
    BY <1>7 DEF proposes, SkillsTypeOK
  <2>2. UNCHANGED pending /\ executing' = executing \cup {h}
    BY <1>7 DEF proposes, Yellow, ShellExec
  <2>3. About(h)
    BY <1>2, <1>3, <1>4, <2>1, <2>2, GatedFacts DEF About, Ends
  <2>4. QED BY <1>2, <1>5, <1>7, <2>3, GoingOnKeepsFlow DEF proposes
<1>8. QED BY <1>2, <1>6, <1>7

LEMMA GuessesWebsiteKeepsFlow ==
    ASSUME SkillsTypeOK, FlowInv, NEW h \in Handlings, GuessesWebsite(h) PROVE FlowInv'
<1>1. /\ h \in executing /\ stage[h] = "proposed" /\ act[h] = "open" /\ leaves(h)
      /\ goes(h, "confirming") /\ UNCHANGED <<act, answer, told>>
  BY DEF GuessesWebsite
<1>2. UNCHANGED <<did, said>>
  BY DEF GuessesWebsite, ends, does, ok
<1>3. About(h)
  BY <1>1, <1>2, LeavingIsAbout DEF Ends
<1>4. h \notin pending' \cup executing'
  BY <1>1, GatedFacts DEF leaves
<1>5. QED BY <1>1, <1>2, <1>3, <1>4, GatedFacts, GoingOnKeepsFlow DEF acts

\* The owner is asked whether the guess is right.
LEMMA ConfirmedKeepsFlow ==
    ASSUME SkillsTypeOK, FlowInv, NEW h \in Handlings, Confirmed(h) PROVE FlowInv'
<1>1. Waiting(h) /\ act[h] = "open" /\ UNCHANGED <<did, said>>
  BY DEF Confirmed, Waiting, FlowInv, GuessIsAsked, worldVars
<1>2. PICK reply \in {"yes", "no", "unclear", "none"} :
        /\ answer' = [answer EXCEPT ![h] = reply]
        /\ \/ reply = "yes" /\ proposes(h, "browse") /\ UNCHANGED told
           \/ reply \in {"no", "unclear"} /\ tells(h, "nothing") /\ UNCHANGED <<act, gateVars>>
           \/ reply = "none" /\ tells(h, "threw") /\ UNCHANGED <<act, gateVars>>
  BY DEF Confirmed
<1>3. answer'[h] = reply /\ \A u \in Handlings \ {h} : answer'[u] = answer[u]
  BY <1>2 DEF SkillsTypeOK
<1>4. CASE reply = "yes"
  BY <1>1, <1>2, <1>3, <1>4, ProposesKeepsFlow
<1>5. ASSUME NEW what \in {"nothing", "threw"}, tells(h, what), UNCHANGED <<act, gateVars>>
      PROVE  FlowInv'
  <2>1. About(h)
    BY <1>1, <1>3, <1>5, WaitingFacts DEF About, gateVars
  <2>2. what \notin Changes \cup Believed /\ "browse" \in Changes
    BY DEF Changes, Believed
  <2>3. QED BY <1>1, <1>5, <2>1, <2>2, WaitingFacts, TellingKeepsFlow DEF gateVars, acts
<1>6. QED BY <1>2, <1>4, <1>5
----------------------------------------------------------------------------
(* The types.                                                              *)

\* Where a handling is, and what it has come to.
LEMMA GoesKeepsType ==
    ASSUME SkillsTypeOK, NEW h \in Handlings, NEW to, goes(h, to),
           to \in {"extracting", "asking", "fetching", "proposed", "confirming", "done"},
           \/ UNCHANGED told
           \/ \E what \in Changes \cup {"read", "nothing", "threw", "rejected", "expired", "failed"} :
                told' = [told EXCEPT ![h] = what],
           \/ UNCHANGED <<act, gateVars>>
           \/ UNCHANGED act /\ pending' \subseteq pending /\ executing' \subseteq executing
           \/ \E a \in Actions : /\ act' = [act EXCEPT ![h] = a]
                                 /\ pending' \subseteq pending \cup {h}
                                 /\ executing' \subseteq executing \cup {h},
           intent' \in [Handlings -> Intents \cup {"none"}],
           meant' \in [Handlings -> SUBSET Reminders],
           answer' \in [Handlings -> {"none", "yes", "no", "unclear"}],
           did' \subseteq Handlings \X (Actions \cup Changes), said' \subseteq Handlings \X Actions,
           rows' \subseteq born', born' \subseteq Rows, open' \subseteq Reminders, gone' \subseteq Reminders
    PROVE  SkillsTypeOK'
<1>1. stage' \in [Handlings -> {"idle", "extracting", "asking", "fetching", "proposed", "confirming", "done"}]
  BY DEF SkillsTypeOK, goes
<1>2. told' \in [Handlings -> Changes \cup {"none", "read", "nothing", "threw", "rejected", "expired", "failed"}]
  BY DEF SkillsTypeOK
<1>3. /\ act' \in [Handlings -> Actions \cup {"none"}]
      /\ pending' \subseteq Handlings /\ executing' \subseteq Handlings
  BY DEF SkillsTypeOK, gateVars
<1>4. \A u \in pending' \cup executing' : act'[u] # "none"
  <2>1. "none" \notin Actions
    BY DEF Actions, AppControl, ShellExec, Reminding
  <2>2. QED BY <2>1 DEF SkillsTypeOK, gateVars
<1>5. QED BY <1>1, <1>2, <1>3, <1>4 DEF SkillsTypeOK

\* Whatever a handling does before anything is proposed.
FirstStep(h) ==
    \/ \E to \in {"extracting", "asking", "fetching"} : awaits(h, to)
    \/ \E what \in {"read", "nothing", "threw"} : says(h, what)
    \/ \E i : usesStore(h, i)
    \/ \E i \in DOMAIN ActOf : gated(h, i)

LEMMA FirstStepsKeepType ==
    ASSUME SkillsTypeOK, NEW h \in Handlings, intent' \in [Handlings -> Intents \cup {"none"}],
           UNCHANGED <<meant, answer>>,
           FirstStep(h)
    PROVE  SkillsTypeOK'
<1>1. /\ meant' \in [Handlings -> SUBSET Reminders]
      /\ answer' \in [Handlings -> {"none", "yes", "no", "unclear"}]
      /\ did \subseteq Handlings \X (Actions \cup Changes) /\ said \subseteq Handlings \X Actions
      /\ rows \subseteq born /\ born \subseteq Rows /\ open \subseteq Reminders /\ gone \subseteq Reminders
  BY DEF SkillsTypeOK
<1>2. CASE \E to \in {"extracting", "asking", "fetching"} : awaits(h, to)
  BY <1>1, <1>2, GoesKeepsType DEF awaits, nothingChanges, worldVars
<1>3. CASE \E what \in {"read", "nothing", "threw"} : says(h, what)
  BY <1>1, <1>3, GoesKeepsType DEF says, tells, nothingChanges, worldVars
<1>4. ASSUME NEW i, usesStore(h, i) PROVE SkillsTypeOK'
  <2>1. /\ \E what \in Changes \cup {"read", "nothing"} : tells(h, what)
        /\ UNCHANGED <<act, gateVars, said, open, gone>>
    BY <1>4 DEF usesStore, removes, Changes
  <2>2. rows' \subseteq born' /\ born' \subseteq Rows
    BY <1>1, <1>4 DEF usesStore, removes
  <2>3. did' \subseteq did \cup {<<h, a>> : a \in {"insert", "remove", "clear"}}
    BY <1>4 DEF usesStore, removes
  <2>4. did' \subseteq Handlings \X (Actions \cup Changes)
    <3>1. {"insert", "remove", "clear"} \subseteq Changes
      BY DEF Changes
    <3>2. QED BY <1>1, <2>3, <3>1
  <2>5. QED BY <1>1, <2>1, <2>2, <2>4, GoesKeepsType DEF tells
<1>5. ASSUME NEW i \in DOMAIN ActOf, gated(h, i) PROVE SkillsTypeOK'
  <2>1. ActOf[i] \in Actions
    BY ActOfFacts
  <2>2. /\ goes(h, "proposed") /\ UNCHANGED <<told, worldVars>>
        /\ act' = [act EXCEPT ![h] = ActOf[i]]
        /\ pending' \subseteq pending \cup {h} /\ executing' \subseteq executing \cup {h}
    BY <1>5 DEF gated, proposes
  <2>3. QED BY <1>1, <2>1, <2>2, GoesKeepsType DEF worldVars
<1>6. QED BY <1>2, <1>3, <1>4, <1>5 DEF FirstStep

LEMMA FirstSteps ==
    ASSUME NEW h, NEW i, proceeds(h, i)
    PROVE  FirstStep(h)
BY DEF proceeds, FirstStep

LEMMA HandlingKeepsType ==
    ASSUME SkillsTypeOK, NEW h \in Handlings,
           \/ \E i \in Intents : Begins(h, i)
           \/ Extracted(h) \/ Answered(h) \/ Fetched(h)
    PROVE  SkillsTypeOK'
<1>1. intent \in [Handlings -> Intents \cup {"none"}]
  BY DEF SkillsTypeOK
<1>2. ASSUME NEW i \in Intents, Begins(h, i) PROVE SkillsTypeOK'
  <2>1. intent' \in [Handlings -> Intents \cup {"none"}] /\ UNCHANGED <<meant, answer>>
    BY <1>1, <1>2 DEF Begins
  <2>2. {"list_tasks", "play_music", "set_focus_mode", "read_clipboard", "capture_screenshot", "github"}
          \subseteq DOMAIN ActOf
    BY DEF ActOf
  <2>3. FirstStep(h)
    BY <1>2, <2>2 DEF Begins, Shopping, Tasks, Launcher, Media, Clipboard, Gmail, Github, Weather, Brief,
                        Facts, Plain, FirstStep
  <2>4. QED BY <2>1, <2>3, FirstStepsKeepType
<1>3. CASE Extracted(h)
  <2>1. FirstStep(h)
    BY <1>3, FirstSteps DEF Extracted, FirstStep
  <2>2. QED BY <1>1, <1>3, <2>1, FirstStepsKeepType DEF Extracted
<1>4. CASE Answered(h)
  <2>1. FirstStep(h)
    BY <1>4, FirstSteps DEF Answered, FirstStep
  <2>2. QED BY <1>1, <1>4, <2>1, FirstStepsKeepType DEF Answered
<1>5. CASE Fetched(h)
  <2>1. CASE says(h, "read") \/ says(h, "nothing")
    BY <1>1, <1>5, <2>1, FirstStepsKeepType DEF Fetched, FirstStep
  <2>2. CASE /\ tells(h, "read") /\ act' = [act EXCEPT ![h] = "remember"]
             /\ pending' = pending \cup {h} /\ UNCHANGED <<executing, worldVars>>
    <3>1. "remember" \in Actions
      BY DEF Actions
    <3>2. UNCHANGED <<intent, meant, answer>>
      BY <1>5 DEF Fetched
    <3>3. /\ intent' \in [Handlings -> Intents \cup {"none"}]
          /\ meant' \in [Handlings -> SUBSET Reminders]
          /\ answer' \in [Handlings -> {"none", "yes", "no", "unclear"}]
          /\ did' \subseteq Handlings \X (Actions \cup Changes) /\ said' \subseteq Handlings \X Actions
          /\ rows' \subseteq born' /\ born' \subseteq Rows /\ open' \subseteq Reminders /\ gone' \subseteq Reminders
      BY <2>2, <3>2 DEF SkillsTypeOK, worldVars
    <3>4. QED BY <2>2, <3>1, <3>3, GoesKeepsType DEF tells
  <2>3. QED BY <1>5, <2>1, <2>2 DEF Fetched
<1>6. QED BY <1>2, <1>3, <1>4, <1>5

\* The gate, the executors and the confirmation.
LEMMA GateKeepsType ==
    ASSUME SkillsTypeOK, NEW h \in Handlings,
           \/ Approved(h) \/ \E why \in {"rejected", "expired"} : Refused(h, why)
           \/ Succeeds(h) \/ MatchesTask(h) \/ Fails(h) \/ GuessesWebsite(h) \/ EndsUnheard(h)
           \/ Confirmed(h)
    PROVE  SkillsTypeOK'
<1>1. /\ intent \in [Handlings -> Intents \cup {"none"}]
      /\ meant \in [Handlings -> SUBSET Reminders]
      /\ answer \in [Handlings -> {"none", "yes", "no", "unclear"}]
      /\ did \subseteq Handlings \X (Actions \cup Changes) /\ said \subseteq Handlings \X Actions
      /\ rows \subseteq born /\ born \subseteq Rows /\ open \subseteq Reminders /\ gone \subseteq Reminders
  BY DEF SkillsTypeOK
<1>2. CASE Approved(h)
  BY <1>2 DEF Approved, flowVars, worldVars, SkillsTypeOK
<1>3. ASSUME NEW why \in {"rejected", "expired"}, Refused(h, why) PROVE SkillsTypeOK'
  <2>1. UNCHANGED <<intent, meant, answer, act, executing, worldVars>> /\ pending' \subseteq pending
    BY <1>3 DEF Refused
  <2>2. CASE stage[h] = "proposed"
    BY <1>1, <1>3, <2>1, <2>2, GoesKeepsType DEF Refused, tells, worldVars
  <2>3. CASE stage[h] # "proposed"
    BY <1>3, <2>1, <2>3 DEF Refused, worldVars, SkillsTypeOK
  <2>4. QED BY <2>2, <2>3
<1>4. ASSUME NEW end, ends(h, end), h \in executing
      PROVE  /\ did' \subseteq Handlings \X (Actions \cup Changes) /\ said' \subseteq Handlings \X Actions
             /\ rows' \subseteq born' /\ born' \subseteq Rows /\ open' \subseteq Reminders /\ gone' \subseteq Reminders
  <2>1. act[h] \in Actions
    BY <1>4 DEF SkillsTypeOK
  <2>2. did' \subseteq Handlings \X (Actions \cup Changes) /\ said' \subseteq Handlings \X Actions
    <3>1. <<h, act[h]>> \in Handlings \X Actions
      BY <2>1
    <3>2. Ends(h, act[h])
      BY <1>4 DEF ends, Ends
    <3>3. QED BY <1>1, <3>1, <3>2 DEF Ends
  <2>3. QED BY <1>1, <1>4, <2>2 DEF ends
<1>5. ASSUME leaves(h) PROVE pending' \subseteq pending /\ executing' \subseteq executing
  BY <1>5 DEF leaves
<1>6. CASE Succeeds(h)
  <2>1. outcomeOf(act[h]) \in Changes \cup {"read"}
    BY <1>6, OutcomeFacts DEF Succeeds, SkillsTypeOK
  <2>2. \E end : ends(h, end) /\ h \in executing
    BY <1>6 DEF Succeeds
  <2>3. UNCHANGED <<intent, meant, answer, act>> /\ leaves(h) /\ tells(h, outcomeOf(act[h]))
    BY <1>6 DEF Succeeds
  <2>4. QED BY <1>1, <1>4, <1>5, <2>1, <2>2, <2>3, GoesKeepsType DEF tells
<1>7. CASE Fails(h)
  <2>1. \E end : ends(h, end) /\ h \in executing
    BY <1>7 DEF Fails
  <2>2. UNCHANGED <<intent, meant, answer, act>> /\ leaves(h) /\ tells(h, "failed")
    BY <1>7 DEF Fails
  <2>3. QED BY <1>1, <1>4, <1>5, <2>1, <2>2, GoesKeepsType DEF tells
<1>8. CASE GuessesWebsite(h)
  BY <1>1, <1>4, <1>5, <1>8, GoesKeepsType DEF GuessesWebsite
<1>9. CASE EndsUnheard(h)
  <2>1. \E end : ends(h, end) /\ h \in executing
    BY <1>9 DEF EndsUnheard
  <2>2. UNCHANGED <<intent, meant, answer, act, stage, told>> /\ leaves(h)
    BY <1>9 DEF EndsUnheard, flowVars
  <2>3. QED BY <1>4, <1>5, <2>1, <2>2 DEF SkillsTypeOK
<1>10. CASE MatchesTask(h)
  <2>1. \E end : ends(h, end) /\ h \in executing
    BY <1>10 DEF MatchesTask
  <2>2. UNCHANGED <<intent, answer>> /\ meant' \in [Handlings -> SUBSET Reminders]
    BY <1>1, <1>10 DEF MatchesTask
  <2>3. CASE proposes(h, "complete") /\ UNCHANGED told
    <3>1. "complete" \in Actions
      BY DEF Actions, Reminding
    <3>2. /\ goes(h, "proposed") /\ act' = [act EXCEPT ![h] = "complete"]
          /\ pending' \subseteq pending \cup {h} /\ executing' \subseteq executing \cup {h}
      BY <2>3 DEF proposes
    <3>3. QED BY <1>1, <1>4, <2>1, <2>2, <2>3, <3>1, <3>2, GoesKeepsType
  <2>4. CASE tells(h, "nothing") /\ leaves(h) /\ UNCHANGED act
    BY <1>1, <1>4, <1>5, <2>1, <2>2, <2>4, GoesKeepsType DEF tells
  <2>5. QED BY <1>10, <2>3, <2>4 DEF MatchesTask
<1>11. CASE Confirmed(h)
  <2>1. UNCHANGED <<intent, meant, worldVars>> /\ answer' \in [Handlings -> {"none", "yes", "no", "unclear"}]
    BY <1>1, <1>11 DEF Confirmed
  <2>2. \/ proposes(h, "browse") /\ UNCHANGED told
        \/ \E what \in {"nothing", "threw"} : tells(h, what) /\ UNCHANGED <<act, gateVars>>
    BY <1>11 DEF Confirmed
  <2>3. CASE proposes(h, "browse") /\ UNCHANGED told
    <3>1. "browse" \in Actions
      BY DEF Actions, AppControl
    <3>2. /\ goes(h, "proposed") /\ act' = [act EXCEPT ![h] = "browse"]
          /\ pending' \subseteq pending \cup {h} /\ executing' \subseteq executing \cup {h}
      BY <2>3 DEF proposes
    <3>3. QED BY <1>1, <2>1, <2>3, <3>1, <3>2, GoesKeepsType DEF worldVars
  <2>4. CASE \E what \in {"nothing", "threw"} : tells(h, what) /\ UNCHANGED <<act, gateVars>>
    BY <1>1, <2>1, <2>4, GoesKeepsType DEF tells, worldVars
  <2>5. QED BY <2>2, <2>3, <2>4
<1>12. QED BY <1>2, <1>3, <1>6, <1>7, <1>8, <1>9, <1>10, <1>11
----------------------------------------------------------------------------
(* The theorems.                                                           *)

\* What is neither a handling's nor the gate's.
LEMMA OthersKeepInv ==
    ASSUME SkillsIInv, UNCHANGED <<flowVars, gateVars, did, said, born>>, rows' \subseteq rows,
           open' \subseteq open, gone' \subseteq gone \cup open
    PROVE  SkillsIInv'
<1>1. SkillsTypeOK'
  BY DEF SkillsIInv, SkillsTypeOK, flowVars, gateVars
<1>2. NothingYet' /\ OnlyProposedRun' /\ GuessIsAsked' /\ SpokenOutcomeTrue'
  BY DEF SkillsIInv, NothingYet, Done, OnlyProposedRun, GuessIsAsked, SpokenOutcomeTrue, flowVars, gateVars
<1>3. QED BY <1>1, <1>2 DEF SkillsIInv

\* The skills' invariant holds whatever the tab, its reloads and the phone do meanwhile.
THEOREM SkillsInvariant == PanelsSpec => []SkillsIInv
<1>1. PanelsInit => SkillsIInv
  BY SkillsIInvInit DEF PanelsInit
<1>2. ASSUME SkillsIInv, [PanelsNext]_panelsVars PROVE SkillsIInv'
  <2>1. SkillsTypeOK /\ FlowInv
    BY <1>2 DEF SkillsIInv, FlowInv
  <2>2. ASSUME NEW h \in Handlings, Handles(h) PROVE SkillsIInv'
    <3>1. \/ \E i \in Intents : Begins(h, i)
          \/ Extracted(h) \/ Answered(h) \/ Fetched(h) \/ Confirmed(h)
      BY <2>2 DEF Handles
    <3>2. SkillsTypeOK' /\ FlowInv'
      BY <2>1, <3>1, HandlingKeepsType, GateKeepsType, BeginsKeepsFlow, AwaitedKeepsFlow, ConfirmedKeepsFlow
    <3>3. QED BY <3>2 DEF SkillsIInv, FlowInv
  <2>3. ASSUME NEW h \in Handlings, Settles(h) PROVE SkillsIInv'
    <3>1. \/ Approved(h) \/ (h \in pending /\ Refused(h, "rejected")) \/ Refused(h, "expired")
          \/ Succeeds(h) \/ MatchesTask(h) \/ Fails(h) \/ GuessesWebsite(h) \/ EndsUnheard(h)
      BY <2>3 DEF Settles
    <3>2. SkillsTypeOK'
      BY <2>1, <3>1, GateKeepsType
    <3>3. FlowInv'
      BY <2>1, <3>1, ApprovedKeepsFlow, RefusedKeepsFlow, SucceedsKeepsFlow, MatchesTaskKeepsFlow,
         FailsKeepsFlow, GuessesWebsiteKeepsFlow, EndsUnheardKeepsFlow
    <3>4. QED BY <3>2, <3>3 DEF SkillsIInv, FlowInv
  <2>4. ASSUME NEW r \in Reminders, OnThePhone(r) PROVE SkillsIInv'
    BY <1>2, <2>4, OthersKeepInv DEF OnThePhone, ReminderGoes
  <2>5. ASSUME NEW r \in Rows, DeleteServed(r) PROVE SkillsIInv'
    BY <1>2, <2>5, OthersKeepInv DEF DeleteServed, RowDeleted
  <2>6. ASSUME UNCHANGED skillVars PROVE SkillsIInv'
    BY <1>2, <2>6, OthersKeepInv DEF skillVars, worldVars
  <2>7. ASSUME NEW k \in Lists, Polls(k) \/ Serves(k) \/ Loads(k) \/ FetchFails(k) PROVE UNCHANGED skillVars
    BY <2>7 DEF Polls, Serves, Loads, FetchFails
  <2>8. ASSUME NEW r \in Rows, ClickDelete(r) \/ DeleteEnds(r) PROVE UNCHANGED skillVars
    BY <2>8 DEF ClickDelete, DeleteEnds
  <2>9. CASE ClickToggle \/ ToggleServed \/ ToggleEnds \/ Reloads \/ UNCHANGED panelsVars
    BY <2>6, <2>9 DEF ClickToggle, ToggleServed, ToggleEnds, Reloads, panelsVars
  <2>10. QED BY <1>2, <2>2, <2>3, <2>4, <2>5, <2>6, <2>7, <2>8, <2>9 DEF PanelsNext
<1>3. QED BY <1>1, <1>2, PTL DEF PanelsSpec

\* The state of the handlings, of the gate and of the stores has its shape.
THEOREM SkillsTypeCorrect == PanelsSpec => []SkillsTypeOK
<1>1. SkillsIInv => SkillsTypeOK
  BY DEF SkillsIInv
<1>2. QED BY <1>1, SkillsInvariant, PTL

\* What the owner is told at the end of a handling has come about, or is what its own process
\* exited well for where there is nothing more to go by, however the executors end, whoever
\* decides and whenever it expires (speechForOutcome in the skills, closeApp).
THEOREM OwnerToldTruth == PanelsSpec => []SpokenOutcomeTrue
<1>1. SkillsIInv => SpokenOutcomeTrue
  BY DEF SkillsIInv
<1>2. QED BY <1>1, SkillsInvariant, PTL
=============================================================================
