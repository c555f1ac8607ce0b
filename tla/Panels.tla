------------------------------- MODULE Panels -------------------------------
(***************************************************************************)
(* The lists of a dashboard tab (ui/src/lib/use-jarvis.ts): fetched on     *)
(* load and polled (core/http.ts), changed at once by the owner's clicks   *)
(* and changed back when the write fails, while the skills change what is  *)
(* stored.  The fetches and the writes of a tab are requests of their own  *)
(* and overtake each other.                                                *)
(***************************************************************************)
EXTENDS Skills

CONSTANTS
    MaxHappenings,  \* bound: utterances, clicks, reloads and what is done on the phone
    MaxFetches      \* bound: fetches of one list under way at a time

ASSUME PanelsAssumption == MaxHappenings \in Nat /\ MaxFetches \in Nat \ {0}

VARIABLES
    shown,              \* the lists the tab shows
    asked, body,        \* per list: fetches under way, and answers on their way back
    deleting, toggling, \* its writes under way, one per row at a time
    task,               \* the one row of skill_tasks_items
    left                \* happenings left

fetchVars == <<asked, body>>
writeVars == <<deleting, toggling>>
tabVars == <<shown, fetchVars, writeVars>>
panelsVars == <<skillVars, tabVars, task, left>>

Lists == {"rows", "task"}
Unloaded == [rows |-> {}, task |-> "none"]

\* A tab just opened; its first fetches are on their way.
PanelsInit ==
    /\ SkillsInit
    /\ shown = Unloaded
    /\ asked = [k \in Lists |-> 1] /\ body = [k \in Lists |-> {}]
    /\ deleting = [r \in Rows |-> "none"] /\ toggling = "none"
    /\ task = "todo" /\ left = MaxHappenings

happens == left > 0 /\ left' = left - 1

flip(done) == CASE done = "todo" -> "done" [] done = "done" -> "todo" [] OTHER -> done
----------------------------------------------------------------------------
(* The skills and the gate; other clients decide, and the owner's phone.   *)

Handles(h) ==
    /\ \/ (\E i \in Intents : Begins(h, i)) /\ happens
       \/ Extracted(h) /\ UNCHANGED left
       \/ Answered(h) /\ UNCHANGED left
       \/ Fetched(h) /\ UNCHANGED left
       \/ Confirmed(h) /\ UNCHANGED left
    /\ UNCHANGED <<tabVars, task>>

Settles(h) ==
    /\ \/ Approved(h)
       \/ h \in pending /\ Refused(h, "rejected")
       \/ Refused(h, "expired")
       \/ Succeeds(h)
       \/ MatchesTask(h)
       \/ Fails(h)
       \/ GuessesWebsite(h)
       \/ EndsUnheard(h)
    /\ UNCHANGED <<tabVars, task, left>>

OnThePhone(r) ==
    /\ ReminderGoes(r) /\ happens
    /\ UNCHANGED <<tabVars, task>>
----------------------------------------------------------------------------
(* The tab's fetches, on load and then again and again.                    *)

\* Mutant: the lists are only fetched on load.
PollsNever(k) == FALSE /\ UNCHANGED panelsVars

\* The interval does not wait for the fetch before.
Polls(k) ==
    /\ asked[k] + Cardinality(body[k]) < MaxFetches
    /\ asked' = [asked EXCEPT ![k] = @ + 1]
    /\ UNCHANGED <<skillVars, shown, body, writeVars, task, left>>

Serves(k) ==
    /\ asked[k] > 0
    /\ asked' = [asked EXCEPT ![k] = @ - 1]
    /\ body' = [body EXCEPT ![k] = @ \cup {IF k = "rows" THEN rows ELSE task}]
    /\ UNCHANGED <<skillVars, shown, writeVars, task, left>>

\* The answers may come in any order.
Loads(k) ==
    /\ \E list \in body[k] :
          /\ shown' = [shown EXCEPT ![k] = list]
          /\ body' = [body EXCEPT ![k] = @ \ {list}]
    /\ UNCHANGED <<skillVars, asked, writeVars, task, left>>

FetchFails(k) ==
    /\ \/ asked[k] > 0 /\ asked' = [asked EXCEPT ![k] = @ - 1] /\ UNCHANGED body
       \/ \E list \in body[k] : body' = [body EXCEPT ![k] = @ \ {list}] /\ UNCHANGED asked
    /\ UNCHANGED <<skillVars, shown, writeVars, task, left>>

\* A write of the page that is gone may yet arrive.
outlives(write) == IF write = "sent" THEN "orphan" ELSE IF write = "served" THEN "none" ELSE write

Reloads ==
    /\ happens
    /\ shown' = Unloaded /\ asked' = [k \in Lists |-> 1] /\ body' = [k \in Lists |-> {}]
    /\ deleting' = [r \in Rows |-> outlives(deleting[r])] /\ toggling' = outlives(toggling)
    /\ UNCHANGED <<skillVars, task>>
----------------------------------------------------------------------------
(* The tab's writes: shown at once, undone one by one when they fail.      *)

\* StorePanel: what is listed can be deleted, and the task ticked, from either tab of it.
listsRow(r) == r \in shown.rows
listsTask == shown.task # "none"

ClickDelete(r) ==
    /\ listsRow(r) /\ deleting[r] = "none" /\ happens
    /\ shown' = [shown EXCEPT !.rows = @ \ {r}]
    /\ deleting' = [deleting EXCEPT ![r] = "sent"]
    /\ UNCHANGED <<skillVars, fetchVars, toggling, task>>

ClickToggle ==
    /\ listsTask /\ toggling = "none" /\ happens
    /\ shown' = [shown EXCEPT !.task = flip(@)]
    /\ toggling' = "sent"
    /\ UNCHANGED <<skillVars, fetchVars, deleting, task>>

served(write) == IF write = "sent" THEN "served" ELSE "none"

DeleteServed(r) ==
    /\ deleting[r] \in {"sent", "orphan"}
    /\ RowDeleted(r)
    /\ deleting' = [deleting EXCEPT ![r] = served(@)]
    /\ UNCHANGED <<shown, fetchVars, toggling, task, left>>

ToggleServed ==
    /\ toggling \in {"sent", "orphan"}
    /\ task' = flip(task)
    /\ toggling' = served(toggling)
    /\ UNCHANGED <<skillVars, shown, fetchVars, deleting, left>>

\* The answer arrives, or the write fails: before core has done it, or after.
DeleteEnds(r) ==
    /\ deleting[r] # "none"
    /\ deleting' = [deleting EXCEPT ![r] = "none"]
    /\ \/ deleting[r] \in {"served", "orphan"} /\ UNCHANGED shown
       \/ deleting[r] # "orphan" /\ shown' = [shown EXCEPT !.rows = @ \cup {r}]
    /\ UNCHANGED <<skillVars, fetchVars, toggling, task, left>>

ToggleEnds ==
    /\ toggling # "none"
    /\ toggling' = "none"
    /\ \/ toggling \in {"served", "orphan"} /\ UNCHANGED shown
       \/ toggling # "orphan" /\ shown' = [shown EXCEPT !.task = flip(@)]
    /\ UNCHANGED <<skillVars, fetchVars, deleting, task, left>>
----------------------------------------------------------------------------
PanelsNext ==
    \/ \E h \in Handlings : Handles(h) \/ Settles(h)
    \/ \E r \in Reminders : OnThePhone(r)
    \/ \E k \in Lists : Polls(k) \/ Serves(k) \/ Loads(k) \/ FetchFails(k)
    \/ \E r \in Rows : ClickDelete(r) \/ DeleteServed(r) \/ DeleteEnds(r)
    \/ ClickToggle \/ ToggleServed \/ ToggleEnds \/ Reloads

\* The poll goes on, and now and then one of its fetches does not fail.
PanelsFairness ==
    \A k \in Lists : WF_panelsVars(Polls(k)) /\ SF_panelsVars(Serves(k)) /\ SF_panelsVars(Loads(k))

PanelsSpec == PanelsInit /\ [][PanelsNext]_panelsVars /\ PanelsFairness
----------------------------------------------------------------------------
(* Property.                                                               *)

\* The lists end up showing what is stored, whatever the order in which the writes of the
\* tab, of the skills and of others, their failures and the polls came.
StoresConverge == <>[](shown.rows = rows /\ shown.task = task)
=============================================================================
