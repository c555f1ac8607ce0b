------------------------------- MODULE Skills -------------------------------
(***************************************************************************)
(* What the skills do with an utterance (skills/*/index.ts, but look): the *)
(* text a model extracts from it, the question asked when there is none,   *)
(* the proposal, how the executor ends, and what the owner is told.        *)
(*                                                                         *)
(* An utterance's words are the rows or reminders they match, whether they *)
(* hold what the skill needs, and no more.  play_music is also pause_music,*)
(* next_track and previous_track.  A fact found in what was said lately    *)
(* (core/factExtraction.ts) is a handling too, with intent "facts".        *)
(***************************************************************************)
EXTENDS Naturals, FiniteSets, Executors

CONSTANTS
    Handlings,      \* utterances dispatched to a skill
    Rows,           \* rows the shopping list can ever have, each with an id of its own
    FirstRows,      \* those it has at the start
    Reminders       \* open reminders at the start

ASSUME SkillsAssumption == FirstRows \subseteq Rows

VARIABLES
    intent,         \* what each handling is for
    stage,          \* where it is
    meant,          \* the reminder it is about
    answer,         \* what the owner said to its confirmation
    told,           \* what the owner is told in the end
    act,            \* what it has proposed
    pending,        \* those whose proposal waits for a decision
    executing,      \* those whose executor runs
    did,            \* history: what has come about for them
    said,           \* history: what their executors have said to be done
    rows, born,     \* the shopping list, and every row it has had
    open, gone      \* the reminders still open, and those deleted

flowVars == <<intent, stage, meant, answer, told, act>>
gateVars == <<pending, executing>>
worldVars == <<did, said, rows, born, open, gone>>
skillVars == <<flowVars, gateVars, worldVars>>

\* What is proposed for an intent, once what it needs is known.
ActOf == [add_task |-> "add", list_tasks |-> "list", complete_task |-> "list",
          open_app |-> "open", open_project |-> "open", close_app |-> "close", open_url |-> "url",
          play_music |-> "play", set_volume |-> "volume", set_brightness |-> "brightness",
          set_focus_mode |-> "focus", read_clipboard |-> "paste", write_clipboard |-> "copy",
          capture_screenshot |-> "screenshot", gmail |-> "search", github |-> "search"]

AppControl == {"open", "close", "url", "browse"}
ShellExec == {"play", "volume", "brightness", "focus", "paste", "copy", "screenshot"}
Reminding == {"add", "list", "complete"}

\* The others are green: they run without the owner.
Yellow == ShellExec \cup {"search", "remember"}

\* If the model finds nothing, the whole utterance is taken, or every unread message.
TakesUtterance == {"remove_item", "complete_task", "gmail"}

\* What can be said to have been done; the rest is only read, or "sent".
Changes == {"add", "complete", "open", "close", "url", "browse", "play", "volume", "brightness",
            "focus", "copy", "insert", "remove", "clear"}

\* Those of which the executor knows an exit code and no more.
Believed == {"open", "url", "browse", "play", "volume", "brightness", "focus", "copy"}

executorEnds(action) ==
    CASE action \in AppControl -> runAppControlAction(action)
      [] action \in ShellExec -> runShellAction(action)
      [] action \in Reminding -> runRemindersAction(action)
      [] action = "search" -> callTool
      [] action = "remember" -> writeFact

SkillsInit ==
    /\ intent = [h \in Handlings |-> "none"] /\ stage = [h \in Handlings |-> "idle"]
    /\ meant = [h \in Handlings |-> {}] /\ answer = [h \in Handlings |-> "none"]
    /\ told = [h \in Handlings |-> "none"] /\ act = [h \in Handlings |-> "none"]
    /\ pending = {} /\ executing = {} /\ did = {} /\ said = {}
    /\ rows = FirstRows /\ born = FirstRows
    /\ open = Reminders /\ gone = {}
----------------------------------------------------------------------------
(* The ends a step of a handling can come to.                              *)

goes(h, to) == stage' = [stage EXCEPT ![h] = to]

tells(h, what) == goes(h, "done") /\ told' = [told EXCEPT ![h] = what]

\* Gate.propose: green runs at once, yellow waits.
proposes(h, what) ==
    /\ goes(h, "proposed")
    /\ act' = [act EXCEPT ![h] = what]
    /\ IF what \in Yellow
       THEN pending' = pending \cup {h} /\ UNCHANGED executing
       ELSE executing' = executing \cup {h} /\ UNCHANGED pending

\* removeItem: the one row that matches, or none or several, when nothing is removed.
removes(h) ==
    \E matches \in SUBSET rows :
        IF Cardinality(matches) = 1
        THEN /\ rows' = rows \ matches
             /\ did' = did \cup {<<h, "remove">>}
             /\ tells(h, "remove")
        ELSE tells(h, "nothing") /\ UNCHANGED <<rows, did>>

\* The skill's own table is read and written in one step with what was last awaited.
usesStore(h, i) ==
    /\ \/ /\ i = "list_items" /\ tells(h, "read") /\ UNCHANGED <<rows, born, did>>
       \/ /\ i = "clear_list" /\ tells(h, "clear")
          /\ rows' = {} /\ did' = did \cup {<<h, "clear">>} /\ UNCHANGED born
       \/ /\ i = "remove_item" /\ removes(h) /\ UNCHANGED born
       \/ /\ i = "add_item"
          /\ \E new \in SUBSET (Rows \ born) :
                /\ new # {}
                /\ rows' = rows \cup new /\ born' = born \cup new
          /\ did' = did \cup {<<h, "insert">>} /\ tells(h, "insert")
    /\ UNCHANGED <<act, gateVars, said, open, gone>>

nothingChanges == UNCHANGED <<act, gateVars, worldVars>>

\* Nothing is asked of anyone, and nothing done.
says(h, what) == tells(h, what) /\ nothingChanges

awaits(h, where) == goes(h, where) /\ UNCHANGED told /\ nothingChanges

gated(h, i) == proposes(h, ActOf[i]) /\ UNCHANGED <<told, worldVars>>

\* What an intent comes to once what it needs has been read, or answered; a project's name
\* may match none or several, and only a known city's weather can be fetched.
proceeds(h, i) ==
    \/ i \notin DOMAIN ActOf \cup {"weather"} /\ usesStore(h, i)
    \/ i \in DOMAIN ActOf /\ gated(h, i)
    \/ i = "open_project" /\ says(h, "nothing")
    \/ i = "weather" /\ awaits(h, "fetching")
----------------------------------------------------------------------------
(* The skills: what each does before it awaits anything.                   *)

Shopping(h, i) ==
    \/ i \in {"add_item", "remove_item"} /\ awaits(h, "extracting")
    \/ i \in {"list_items", "clear_list"} /\ usesStore(h, i)

Tasks(h, i) ==
    \/ i \in {"add_task", "complete_task"} /\ awaits(h, "extracting")
    \/ i = "list_tasks" /\ gated(h, i)

Launcher(h, i) ==
    \/ i \in {"open_app", "close_app", "open_project", "open_url"} /\ awaits(h, "extracting")
    \/ i = "list_projects" /\ says(h, "read")

\* Whether Do Not Disturb is meant on or off is read without a model.
Media(h, i) ==
    \/ i \in {"set_volume", "set_brightness"} /\ awaits(h, "extracting")
    \/ i \in {"play_music", "set_focus_mode"} /\ gated(h, i)
    \/ i = "set_focus_mode" /\ awaits(h, "asking")
    \/ i = "now_playing" /\ awaits(h, "fetching")

Clipboard(h, i) ==
    \/ i \in {"read_clipboard", "capture_screenshot"} /\ gated(h, i)
    \/ i = "write_clipboard" /\ awaits(h, "extracting")

\* Not connected, or no tool with arguments the skill can tell.
Gmail(h, i) == i = "gmail" /\ (says(h, "nothing") \/ awaits(h, "extracting"))
Github(h, i) == i = "github" /\ (says(h, "nothing") \/ gated(h, i))

\* A forecast is refused; the city is a fact, or asked for.
Weather(h, i) ==
    /\ i = "weather"
    /\ says(h, "nothing") \/ awaits(h, "fetching") \/ awaits(h, "asking")

\* The brief's facts are phrased by a model, or listed as they are if it fails.
Brief(h, i) == i = "brief" /\ awaits(h, "fetching")

\* extractFacts: a model reads a batch; of its answer only what has the shape of a fact and
\* at least even odds is kept, which is nothing if it failed or answered something else.
\* Each fact is proposed by itself, and nobody waits.
Facts(h, i) == i = "facts" /\ awaits(h, "fetching")

\* What the skill holds or measures itself: about, system_health and wardrobe.
Plain(h, i) == i = "about" /\ says(h, "read")

Intents == DOMAIN ActOf \cup {"add_item", "remove_item", "list_items", "clear_list",
                              "list_projects", "now_playing", "weather", "brief", "facts", "about"}

Begins(h, i) ==
    /\ stage[h] = "idle"
    /\ intent' = [intent EXCEPT ![h] = i]
    /\ \/ Shopping(h, i) \/ Tasks(h, i) \/ Launcher(h, i) \/ Media(h, i) \/ Clipboard(h, i)
       \/ Gmail(h, i) \/ Github(h, i) \/ Weather(h, i) \/ Brief(h, i)
       \/ Facts(h, i) \/ Plain(h, i)
    /\ UNCHANGED <<meant, answer>>
----------------------------------------------------------------------------
(* What was awaited.                                                       *)

\* The extraction finds what is needed, or nothing, which is also what a failed call is.
Extracted(h) ==
    /\ stage[h] = "extracting"
    /\ \/ proceeds(h, intent[h])
       \/ intent[h] \notin TakesUtterance /\ awaits(h, "asking")
    /\ UNCHANGED <<intent, meant, answer>>

\* The owner answers the question, with something usable or not; or the question times out
\* or is cancelled, and the turn is over.
Answered(h) ==
    /\ stage[h] = "asking"
    /\ \/ proceeds(h, intent[h])
       \/ intent[h] \notin {"open_project", "weather"} /\ says(h, "nothing")
       \/ says(h, "threw")
    /\ UNCHANGED <<intent, meant, answer>>

\* What is read is told; a weather service that fails is said to, and a city that was asked
\* for is proposed as a fact, as is what the extraction found, which nothing waits for.
Fetched(h) ==
    /\ stage[h] = "fetching"
    /\ \/ says(h, "read")
       \/ intent[h] = "weather" /\ says(h, "nothing")
       \/ /\ intent[h] \in {"weather", "facts"}
          /\ tells(h, "read") /\ act' = [act EXCEPT ![h] = "remember"]
          /\ pending' = pending \cup {h}
          /\ UNCHANGED <<executing, worldVars>>
    /\ UNCHANGED <<intent, meant, answer>>
----------------------------------------------------------------------------
(* The gate: a decision, the expiry timer, which also runs beside the      *)
(* executor of what was approved, and the executor's outcome.              *)

Approved(h) ==
    /\ h \in pending
    /\ pending' = pending \ {h} /\ executing' = executing \cup {h}
    /\ UNCHANGED <<flowVars, worldVars>>

\* An answer that has been given without the proposal is not taken back.
Refused(h, why) ==
    /\ stage[h] = "proposed" \/ act[h] = "remember"
    /\ \/ h \in pending
       \/ why = "expired" /\ h \in executing /\ act[h] \in Yellow
    /\ pending' = pending \ {h}
    /\ IF stage[h] = "proposed" THEN tells(h, why) ELSE UNCHANGED <<stage, told>>
    /\ UNCHANGED <<intent, meant, answer, act, executing, worldVars>>

\* The executor of `h` ends in this way, and its effect on what is modelled; a reminder that
\* is not there any more cannot be completed.
ends(h, end) ==
    /\ end \in executorEnds(act[h])
    /\ does(end) /\ act[h] = "complete" => meant[h] \cap gone = {}
    /\ did' = IF does(end) THEN did \cup {<<h, act[h]>>} ELSE did
    /\ said' = IF ok(end) THEN said \cup {<<h, act[h]>>} ELSE said
    /\ open' = IF does(end) /\ act[h] = "complete" THEN open \ meant[h] ELSE open
    /\ UNCHANGED <<rows, born, gone>>

leaves(h) == executing' = executing \ {h} /\ UNCHANGED pending

\* What the owner is told an action that went well has come to.
outcomeOf(action) == IF action \in Changes THEN action ELSE "read"

listsFirst(h) == intent[h] = "complete_task" /\ act[h] = "list"

Succeeds(h) ==
    /\ h \in executing /\ stage[h] = "proposed" /\ ~listsFirst(h)
    /\ \E end \in executorEnds(act[h]) : ok(end) /\ ends(h, end)
    /\ tells(h, outcomeOf(act[h])) /\ leaves(h)
    /\ UNCHANGED <<intent, meant, answer, act>>

\* completeTask, with the open reminders: the one that matches, or none or several.
MatchesTask(h) ==
    /\ h \in executing /\ stage[h] = "proposed" /\ listsFirst(h)
    /\ \E end \in executorEnds("list") : ok(end) /\ ends(h, end)
    /\ \E matches \in SUBSET open :
        /\ meant' = [meant EXCEPT ![h] = matches]
        /\ IF Cardinality(matches) = 1
           THEN proposes(h, "complete") /\ UNCHANGED told
           ELSE tells(h, "nothing") /\ leaves(h) /\ UNCHANGED act
    /\ UNCHANGED <<intent, answer>>

Fails(h) ==
    /\ h \in executing /\ stage[h] = "proposed"
    /\ \E end \in executorEnds(act[h]) : ~ok(end) /\ ends(h, end)
    /\ tells(h, "failed") /\ leaves(h)
    /\ UNCHANGED <<intent, meant, answer, act>>

\* An application that is not there may be a website: the owner is asked.
GuessesWebsite(h) ==
    /\ h \in executing /\ stage[h] = "proposed" /\ intent[h] = "open_app" /\ act[h] = "open"
    /\ ends(h, "notFound")
    /\ goes(h, "confirming") /\ leaves(h)
    /\ UNCHANGED <<intent, meant, answer, act, told>>

\* The timer has told the caller that it expired, or the caller did not wait.
EndsUnheard(h) ==
    /\ h \in executing /\ stage[h] = "done"
    /\ \E end \in executorEnds(act[h]) : ends(h, end)
    /\ leaves(h)
    /\ UNCHANGED flowVars

\* Only a yes opens the guessed website (readAffirmative); the question may also time out.
Confirmed(h) ==
    /\ stage[h] = "confirming"
    /\ \E reply \in {"yes", "no", "unclear", "none"} :
        /\ answer' = [answer EXCEPT ![h] = reply]
        /\ CASE reply = "yes"  -> proposes(h, "browse") /\ UNCHANGED told
             [] reply \in {"no", "unclear"} -> tells(h, "nothing") /\ UNCHANGED <<act, gateVars>>
             [] reply = "none" -> tells(h, "threw") /\ UNCHANGED <<act, gateVars>>
    /\ UNCHANGED <<intent, meant, worldVars>>

\* The owner, on the phone: a reminder is deleted, or ticked off.
ReminderGoes(r) ==
    /\ r \in open
    /\ open' = open \ {r}
    /\ gone' \in {gone, gone \cup {r}}
    /\ UNCHANGED <<flowVars, gateVars, did, said, rows, born>>

\* skill_shopping_list_items, by the dashboard.
RowDeleted(r) ==
    /\ rows' = rows \ {r}
    /\ UNCHANGED <<flowVars, gateVars, did, said, born, open, gone>>
----------------------------------------------------------------------------
\* What has come about for a handling, or was said by its executors to have.
Done(h) == {a \in Changes : <<h, a>> \in did \cup said}

\* What the owner is told at the end of a handling is so: what is said to be done has come
\* about for this very utterance, or by itself since its executor looked, or, where an exit
\* code is all there is to go by, its own process exited well; of what was rejected or given
\* up nothing was done; and a website nobody asked for by its address was opened only after
\* a yes (the skills' speechForOutcome, closeApp's look at the running processes).
SpokenOutcomeTrue ==
    \A h \in Handlings :
        /\ told[h] \in Changes \ Believed => <<h, told[h]>> \in did
        /\ told[h] \in Believed => <<h, told[h]>> \in said
        /\ told[h] \in {"rejected", "nothing"} => Done(h) = {}
        /\ "browse" \in Done(h) => answer[h] = "yes"

\* What makes it so.  Nothing has come of a handling that is not over.
NothingYet == \A h \in Handlings : stage[h] # "done" => told[h] = "none" /\ Done(h) = {}

\* What is with the gate was proposed, waits or runs but not both, and the owner has not
\* been told that it will not be done.
OnlyProposedRun ==
    /\ pending \cap executing = {}
    /\ \A h \in pending \cup executing :
          stage[h] \in {"proposed", "done"} /\ told[h] \notin {"rejected", "nothing"}

\* Only what was asked to be opened is guessed to be a website, and the guess is confirmed.
GuessIsAsked ==
    \A h \in Handlings : /\ stage[h] = "confirming" => act[h] = "open"
                         /\ act[h] = "browse" => answer[h] = "yes"

Actions == AppControl \cup ShellExec \cup Reminding \cup {"search", "remember"}

SkillsTypeOK ==
    /\ intent \in [Handlings -> Intents \cup {"none"}]
    /\ stage \in [Handlings -> {"idle", "extracting", "asking", "fetching", "proposed",
                                "confirming", "done"}]
    /\ meant \in [Handlings -> SUBSET Reminders]
    /\ answer \in [Handlings -> {"none", "yes", "no", "unclear"}]
    /\ told \in [Handlings -> Changes \cup {"none", "read", "nothing", "threw", "rejected", "expired", "failed"}]
    /\ act \in [Handlings -> Actions \cup {"none"}]
    /\ pending \subseteq Handlings /\ executing \subseteq Handlings
    /\ \A h \in pending \cup executing : act[h] # "none"
    /\ did \subseteq Handlings \X (Actions \cup Changes)
    /\ said \subseteq Handlings \X Actions
    /\ rows \subseteq born /\ born \subseteq Rows
    /\ open \subseteq Reminders /\ gone \subseteq Reminders

SkillsIInv ==
    SkillsTypeOK /\ NothingYet /\ OnlyProposedRun /\ GuessIsAsked /\ SpokenOutcomeTrue

=============================================================================
