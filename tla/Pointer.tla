------------------------------- MODULE Pointer ------------------------------
(***************************************************************************)
(* Pointer control of the camera daemon: one GestureLoop of gestures.py    *)
(* and the thread it runs on, the message thread that turns pointer        *)
(* control on and off (main.py), and the keyboard listener of pointer.py   *)
(* that only a real key press can make click.                              *)
(*                                                                         *)
(* The two threads share the loop's fields without a lock, so every access *)
(* is an action; CPython switches threads at calls, so what has no call in *)
(* between is one.  A frame is what hand the tracker finds in it; a        *)
(* listener is as fast as the key, hears the operating system repeat a key *)
(* that is held, and stops when it is told to.                             *)
(***************************************************************************)
EXTENDS Naturals, Sequences

CONSTANTS
    MaxPresses,     \* bound: presses of the trigger key
    MaxMessages,    \* bound: messages about pointer control, and so listeners
    MaxClicks       \* bound: clicks

ASSUME PointerAssumption == MaxPresses \in Nat /\ MaxMessages \in Nat /\ MaxClicks \in Nat

VARIABLES
    key, press,     \* the trigger key, and the number of its last press
    listening,      \* keyboard listeners that run
    pressed,        \* per listener: the press it has seen and not its release, or 0
    built,          \* listeners made so far
    enabled,        \* _pointer_enabled
    trigger,        \* _click_trigger: a listener, or 0
    was,            \* _click_was_pressed
    loop,           \* where the loop's thread is
    stop,           \* _stop
    seen,           \* the listener whose key the loop's thread is about to read, or 0
    read,           \* the press the loop's thread is about to click for, or 0
    held,           \* the GestureHolder holds this loop
    pc,             \* where the message thread is
    messages,       \* messages handled so far
    clicks,         \* history: the press behind each click
    excused,        \* history: presses that may click again
    left            \* history: listeners that the loop's thread could not close

keyVars == <<key, press, listening, pressed, built>>
frameVars == <<seen, read>>
threadVars == <<loop, pc, messages>>
pastVars == <<clicks, excused, left>>
pointerVars == <<keyVars, enabled, trigger, was, stop, frameVars, held, threadVars, pastVars>>

Listeners == 1..MaxMessages

PointerInit ==
    /\ key = "up" /\ press = 0
    /\ listening = {} /\ pressed = [l \in Listeners |-> 0] /\ built = 0
    /\ enabled = FALSE /\ trigger = 0 /\ was = FALSE
    /\ loop = "spawned" /\ stop = FALSE /\ seen = 0 /\ read = 0
    /\ held = TRUE /\ pc = "ready" /\ messages = 0
    /\ clicks = <<>> /\ excused = {} /\ left = {}
----------------------------------------------------------------------------
(* The owner's key; a listener that does not run sees nothing.             *)

hears(p) == pressed' = [l \in Listeners |-> IF l \in listening THEN p ELSE pressed[l]]

OnPress ==
    /\ key = "up" /\ press < MaxPresses
    /\ key' = "down" /\ press' = press + 1
    /\ hears(press + 1)
    /\ UNCHANGED <<listening, built, enabled, trigger, was, stop, frameVars, held, threadVars, pastVars>>

\* The repeat of a held key reaches on_press like the press itself, in a listener made
\* since then too.
OnRepeat ==
    /\ key = "down" /\ hears(press)
    /\ UNCHANGED <<key, press, listening, built, enabled, trigger, was, stop, frameVars, held, threadVars,
                   pastVars>>

OnRelease ==
    /\ key = "down"
    /\ key' = "up" /\ hears(0)
    /\ UNCHANGED <<press, listening, built, enabled, trigger, was, stop, frameVars, held, threadVars,
                   pastVars>>

closes(l) == listening' = listening \ {l}
----------------------------------------------------------------------------
(* The loop's thread (run, _run).                                          *)

becomes(place) == loop' = place /\ UNCHANGED <<pc, messages>>

LoopStarts ==
    /\ loop = "spawned" /\ becomes("looping")
    /\ UNCHANGED <<keyVars, enabled, trigger, was, stop, frameVars, held, pastVars>>

\* Told to stop; or the read raises, the tracker does, or no hand was seen for too long.
LoopLeaves ==
    /\ loop = "looping" /\ becomes("ending")
    /\ UNCHANGED <<keyVars, enabled, trigger, was, stop, frameVars, held, pastVars>>

\* A frame with a hand in it while pointer control is on; any other changes nothing here.
SeesHand ==
    /\ loop = "looping" /\ ~stop /\ enabled
    /\ becomes("moving")
    /\ UNCHANGED <<keyVars, enabled, trigger, was, stop, frameVars, held, pastVars>>

\* The cursor cannot be moved: logged, and the frame's key is not looked at.
MoveFails ==
    /\ loop = "moving" /\ becomes("looping")
    /\ UNCHANGED <<keyVars, enabled, trigger, was, stop, frameVars, held, pastVars>>

\* The listener is loaded, before it is called; without one the key is up.
LoadsTrigger ==
    /\ loop = "moving"
    /\ IF trigger = 0
       THEN becomes("looping") /\ was' = FALSE /\ UNCHANGED seen
       ELSE becomes("looking") /\ seen' = trigger /\ UNCHANGED was
    /\ UNCHANGED <<keyVars, enabled, trigger, stop, read, held, pastVars>>

found == pressed[seen]

\* Mutant: a held key counts in every frame.
LooksAtKeyAgain ==
    /\ loop = "looking" /\ seen' = 0 /\ UNCHANGED was
    /\ IF found = 0
       THEN becomes("looping") /\ UNCHANGED read
       ELSE becomes("clicking") /\ read' = found
    /\ UNCHANGED <<keyVars, enabled, trigger, stop, held, pastVars>>

\* What the listener says, although it may have been closed and replaced since it was
\* loaded.  Only the key going down counts, and only with the hand in the pointing pose,
\* which is another call.
LooksAtKey ==
    /\ loop = "looking" /\ seen' = 0
    /\ \/ /\ found = 0 \/ was
          /\ becomes("looping") /\ was' = (found # 0) /\ UNCHANGED read
       \/ /\ found # 0 /\ ~was /\ UNCHANGED was
          /\ \/ becomes("clicking") /\ read' = found
             \/ becomes("remembering") /\ UNCHANGED read
    /\ UNCHANGED <<keyVars, enabled, trigger, stop, held, pastVars>>

\* No click for this hand, but the key is remembered as pressed.
Remembers ==
    /\ loop = "remembering" /\ becomes("looping")
    /\ was' = TRUE
    /\ UNCHANGED <<keyVars, enabled, trigger, stop, frameVars, held, pastVars>>

\* The click is fired, or fails before it is: caught, and the key not remembered.
Clicks ==
    /\ loop = "clicking"
    /\ \/ /\ Len(clicks) < MaxClicks
          /\ becomes("reporting") /\ clicks' = Append(clicks, read) /\ UNCHANGED read
       \/ becomes("looping") /\ read' = 0 /\ UNCHANGED clicks
    /\ UNCHANGED <<keyVars, enabled, trigger, was, stop, seen, held, excused, left>>

\* The button is released and the click reported, and the key remembered; or one of them
\* raises: caught, and the key that has clicked is not remembered.
Reports ==
    /\ loop = "reporting" /\ becomes("looping") /\ read' = 0
    /\ \/ was' = TRUE /\ UNCHANGED excused
       \/ excused' = excused \cup {read} /\ UNCHANGED was
    /\ UNCHANGED <<keyVars, enabled, trigger, stop, seen, held, clicks, left>>

\* run's finally, when the blurrer cannot be closed: the listener is left open.
BlurrerFails ==
    /\ loop = "ending" /\ becomes("ended")
    /\ left' = left \cup ({trigger} \ {0})
    /\ UNCHANGED <<keyVars, enabled, trigger, was, stop, frameVars, held, clicks, excused>>

\* Mutant: the listener is left to whoever turned pointer control on.
ClosesTriggerNot ==
    /\ loop = "ending" /\ becomes("ended")
    /\ UNCHANGED <<keyVars, enabled, trigger, was, stop, frameVars, held, pastVars>>

\* When it can, or there is none: then the listener.
ClosesTrigger ==
    /\ loop = "ending"
    /\ IF trigger = 0
       THEN becomes("ended") /\ UNCHANGED listening
       ELSE becomes("dropping") /\ closes(trigger)
    /\ UNCHANGED <<key, press, pressed, built, enabled, trigger, was, stop, frameVars, held, pastVars>>

DropsTrigger ==
    /\ loop = "dropping" /\ becomes("ended")
    /\ trigger' = 0
    /\ UNCHANGED <<keyVars, enabled, was, stop, frameVars, held, pastVars>>

\* run_and_clear's finally: the tracker is closed and the holder emptied; a tracker that
\* cannot be closed stays in the holder with its loop gone.
Forgotten ==
    /\ loop = "ended" /\ becomes("gone")
    /\ held' \in {FALSE, held}
    /\ UNCHANGED <<keyVars, enabled, trigger, was, stop, frameVars, pastVars>>
----------------------------------------------------------------------------
(* The message thread; a message with no loop in the holder is ignored.    *)

goto(place) == pc' = place /\ UNCHANGED <<loop, messages>>

receives(place) ==
    /\ pc = "ready" /\ held /\ messages < MaxMessages
    /\ messages' = messages + 1 /\ pc' = place /\ UNCHANGED loop

\* pointer.control on: the loop is looked up.
TurnsOn ==
    /\ receives("building")
    /\ UNCHANGED <<keyVars, enabled, trigger, was, stop, frameVars, held, pastVars>>

\* set_pointer_control: first the listener, which runs as soon as it is made.
Builds ==
    /\ pc = "building"
    /\ IF trigger # 0
       THEN goto("flagging") /\ UNCHANGED <<listening, built>>
       ELSE goto("keeping") /\ built' = built + 1 /\ listening' = listening \cup {built + 1}
    /\ UNCHANGED <<key, press, pressed, enabled, trigger, was, stop, frameVars, held, pastVars>>

\* It cannot be made, or the mouse cannot: logged by the message loop.
BuildFails ==
    /\ pc = "building" /\ goto("ready")
    /\ UNCHANGED <<keyVars, enabled, trigger, was, stop, frameVars, held, pastVars>>

\* It is kept, and what is remembered of the key reset: a key that is held may click again,
\* and so may one that the loop's thread is about to read from a listener closed before.
Keeps ==
    /\ pc = "keeping" /\ goto("flagging")
    /\ trigger' = built /\ was' = FALSE
    /\ excused' = excused \cup {p \in 1..press : \/ key = "down" /\ p = press
                                                 \/ loop = "looking" /\ p = pressed[seen]}
    /\ left' = left \cup {l \in {built} : loop \in {"dropping", "ended", "gone"}}
    /\ UNCHANGED <<keyVars, enabled, stop, frameVars, held, clicks>>

\* Then the flag.
Enables ==
    /\ pc = "flagging" /\ goto("ready")
    /\ enabled' = TRUE
    /\ UNCHANGED <<keyVars, trigger, was, stop, frameVars, held, pastVars>>

\* pointer.control off: first the flag.
TurnsOff ==
    /\ receives("closing")
    /\ enabled' = FALSE
    /\ UNCHANGED <<keyVars, trigger, was, stop, frameVars, held, pastVars>>

\* Then the listener.
Closes ==
    /\ pc = "closing"
    /\ IF trigger = 0
       THEN goto("ready") /\ UNCHANGED listening
       ELSE goto("dropping") /\ closes(trigger)
    /\ UNCHANGED <<key, press, pressed, built, enabled, trigger, was, stop, frameVars, held, pastVars>>

Drops ==
    /\ pc = "dropping" /\ goto("ready")
    /\ trigger' = 0
    /\ UNCHANGED <<keyVars, enabled, was, stop, frameVars, held, pastVars>>

\* gesture.stop: signalled, and no longer in the holder.
Stops ==
    /\ receives("ready")
    /\ stop' = TRUE /\ held' = FALSE
    /\ UNCHANGED <<keyVars, enabled, trigger, was, frameVars, pastVars>>
----------------------------------------------------------------------------
LoopSteps ==
    \/ LoopStarts \/ LoopLeaves \/ SeesHand \/ MoveFails \/ LoadsTrigger \/ LooksAtKey \/ Remembers
    \/ Clicks \/ Reports \/ BlurrerFails \/ ClosesTrigger \/ DropsTrigger \/ Forgotten

handle_message ==
    TurnsOn \/ Builds \/ BuildFails \/ Keeps \/ Enables \/ TurnsOff \/ Closes \/ Drops \/ Stops

PointerNext == OnPress \/ OnRepeat \/ OnRelease \/ LoopSteps \/ handle_message

PointerSpec == PointerInit /\ [][PointerNext]_pointerVars
----------------------------------------------------------------------------
(* Properties.                                                             *)

\* One press of the key fires one click at most, however long it is held and repeated, and
\* whatever is turned off and on, or lost from sight, meanwhile (_run: "a held key fires
\* exactly one click, not one per frame").  A press may fire more than one only if its click
\* could not be reported, or if a new listener was kept while it was held or while the
\* loop's thread was about to read it from the old one.
OneClickUnlessExcused ==
    \A i, j \in DOMAIN clicks : clicks[i] = clicks[j] => i = j \/ clicks[i] \in excused

\* With pointer control off, or its loop gone, no keyboard listener runs, whichever of the
\* two threads came first (set_pointer_control: it "never keeps running once the owner has
\* turned pointer control off"; run's finally).  The loop's thread can leave only those
\* that were kept when it had ended already, or that its failing blurrer kept it from.
NoListenerLeft ==
    pc = "ready" /\ (~enabled \/ loop = "gone") => listening \subseteq left
----------------------------------------------------------------------------
(* The inductive invariant.                                                *)

LoopPlaces ==
    {"spawned", "looping", "moving", "looking", "remembering", "clicking", "reporting", "ending",
     "dropping", "ended", "gone"}

\* The variables' types; a listener is made in answer to a message.
PointerTypeOK ==
    /\ key \in {"up", "down"} /\ press \in 0 .. MaxPresses
    /\ built \in Nat /\ messages \in 0 .. MaxMessages
    /\ built <= messages /\ (pc = "building" => built < messages)
    /\ listening \subseteq 1 .. built /\ trigger \in 0 .. built
    /\ seen \in 0 .. built /\ (loop = "looking" => seen # 0)
    /\ pressed \in [Listeners -> 0 .. press] /\ read \in 0 .. press
    /\ enabled \in BOOLEAN /\ was \in BOOLEAN /\ stop \in BOOLEAN /\ held \in BOOLEAN
    /\ loop \in LoopPlaces
    /\ pc \in {"ready", "building", "keeping", "flagging", "closing", "dropping"}
    /\ clicks \in Seq(1 .. press)

Clicked(p) == \E i \in DOMAIN clicks : clicks[i] = p

Once(p) == Clicked(p) => p \in excused

\* A listener that is not made yet has seen nothing; one that runs has seen the key go up,
\* and the one in _click_trigger, or about to be read, has seen it go down, or the press is
\* excused.
ListenersAreUpToDate ==
    /\ \A l \in Listeners : l > built => pressed[l] = 0
    /\ key = "up" => \A l \in listening : pressed[l] = 0
    /\ key = "down" => /\ \A l \in listening : pressed[l] \in {0, press}
                       /\ \A l \in {trigger} \cup {s \in {seen} : loop = "looking"} :
                            l \in listening => pressed[l] = press \/ press \in excused
    /\ pc = "keeping" => built \in listening /\ trigger = 0

\* The press that the current listener has seen is remembered once it has clicked, or is
\* being reported; and what is about to click has not, or is excused.
PressesAreFresh ==
    /\ trigger # 0 => \/ was \/ Once(pressed[trigger])
                      \/ loop = "reporting" /\ pressed[trigger] = read
    /\ loop = "looking" => was \/ Once(pressed[seen])
    /\ loop = "looking" /\ trigger \notin {0, seen} => Once(pressed[trigger])
    /\ loop = "clicking" => read # 0 /\ Once(read)
    /\ loop = "reporting" => read # 0

\* Only the listener in _click_trigger runs, and the one that is about to be, and whoever is
\* about to forget it has closed it.
OnlyTriggerListens ==
    LET known == left \cup {l \in {built} : pc = "keeping"} IN
    /\ listening \subseteq known \cup {trigger}
    /\ pc = "dropping" \/ loop \in {"dropping", "ended", "gone"} => listening \subseteq known
    /\ pc \in {"ready", "building"} /\ ~enabled => listening \subseteq known

PointerIInv == PointerTypeOK /\ ListenersAreUpToDate /\ PressesAreFresh /\ OneClickUnlessExcused
               /\ OnlyTriggerListens
=============================================================================
