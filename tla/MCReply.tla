------------------------------ MODULE MCReply -------------------------------
(* Two turns; two skills with four intents, one of them for two lanes, between  *)
(* a broken one and one that declares an id again; four events to recall.      *)
EXTENDS Reply

CONSTANTS e0, e1, e2, e3, e4, e5, e6, brief, agenda, mood, tasks

MCModules == <<"broken", "brief", "tasks", "again">>
MCStarts == {"broken", "brief", "tasks", "again"}
MCIdOf == [broken |-> tasks, brief |-> brief, tasks |-> tasks, again |-> brief]
MCExamplesOf == [broken |-> <<e0>>, brief |-> <<e1, e5, e6>>, tasks |-> <<e2, e3>>, again |-> <<e4>>]
MCIntentOf == (e0 :> "unknown") @@ (e1 :> brief) @@ (e2 :> tasks) @@ (e3 :> tasks) @@ (e4 :> "other")
              @@ (e5 :> agenda) @@ (e6 :> mood)
MCLanesOf ==
    ("unknown" :> {"wardrobe"}) @@ (tasks :> {"converse", "reflex"}) @@ ("other" :> {"converse"})
        @@ (brief :> {"converse"}) @@ (agenda :> {"converse"}) @@ (mood :> {"converse"})
NoKeys == <<>>
=============================================================================
