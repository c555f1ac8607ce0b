-------------------------------- MODULE Ears --------------------------------
(***************************************************************************)
(* senses/ears: the hotkey thread, the wake-word thread, the audio worker  *)
(* and the accept loop, which share a microphone, a lock, four events and  *)
(* the connection to core; and, of core, the loop that reads what they     *)
(* send (core/senseConnection.ts, core/main.ts).                           *)
(*                                                                         *)
(* An action is one access to something another thread also uses.  Setting *)
(* a threading.Event wakes a thread that is waiting for it even if the     *)
(* event is cleared again before that thread has run.                      *)
(***************************************************************************)
EXTENDS Naturals, Sequences

CONSTANTS
    MinSpeechFrames,     \* frames before silence counts
    SilenceFramesToStop, \* silent frames in a row that end a command
    MaxRecordingFrames,  \* frames after which a command ends anyway
    WireCap,             \* messages a socket holds before a send blocks
    MaxConns,            \* bound: connections core ever makes
    MaxPresses,          \* bound: times the key goes down
    MaxPhrases           \* bound: times the wake phrase is said

ASSUME EarsAssumption ==
    /\ MinSpeechFrames \in Nat /\ SilenceFramesToStop \in Nat \ {0}
    /\ MaxRecordingFrames \in Nat /\ MinSpeechFrames <= MaxRecordingFrames
    /\ WireCap \in Nat \ {0}
    /\ MaxConns \in Nat \ {0} /\ MaxPresses \in Nat /\ MaxPhrases \in Nat

VARIABLES
    key,            \* the hotkey is down
    presses,        \* how often it has gone down
    pressEvent, releaseEvent, wakeEvent, stopEvent,
    busyLock,       \* the thread that captures, or "none"
    at,             \* where each thread is
    mic,            \* ContinuousAudioSource: armed, autoStop, count, silence
    phrases,        \* how often the phrase has been said
    heard,          \* history: it was said, with no capture going on, since the last answer to it
    held,           \* the connection in the ConnectionHolder, 0 for None
    link,           \* the connection each thread took out of it
    accepted,       \* the last connection accept_loop accepted
    conns,          \* connections core has made
    coreConn,       \* the one it has now, 0 for none
    wire,           \* what core has not read of it
    inTurn          \* core is handling an utterance and reads nothing

eventVars == <<pressEvent, releaseEvent, wakeEvent, stopEvent>>
keyVars == <<key, presses>>
holderVars == <<held, link>>
coreVars == <<accepted, conns, coreConn, wire, inTurn>>
heardVars == <<phrases, heard>>
earsVars == <<keyVars, eventVars, busyLock, at, mic, heardVars, holderVars, coreVars>>

Captors == {"hotkey", "wake"}
Threads == Captors \cup {"worker"}

EarsInit ==
    /\ key = FALSE /\ presses = 0
    /\ pressEvent = FALSE /\ releaseEvent = FALSE /\ wakeEvent = FALSE /\ stopEvent = FALSE
    /\ busyLock = "none"
    /\ at = [t \in Threads |-> IF t = "worker" THEN "frame" ELSE "waiting"]
    /\ mic = [armed |-> FALSE, autoStop |-> FALSE, count |-> 0, silence |-> 0]
    /\ phrases = 0 /\ heard = FALSE
    /\ held = 0 /\ link = [t \in Threads |-> 0]
    /\ accepted = 0 /\ conns = 1 /\ coreConn = 1 /\ wire = <<>> /\ inTurn = FALSE

goes(t, from, to) == at[t] = from /\ at' = [at EXCEPT ![t] = to]

\* Threads waiting at one of the places `from` an event stands for go where `to` says.
wakes(t, to) == IF at[t] \in DOMAIN to THEN [at EXCEPT ![t] = to[at[t]]] ELSE at
----------------------------------------------------------------------------
(* ConnectionHolder.emit: the connection is taken under the holder's lock  *)
(* and used without it.                                                    *)

Takes(t, from, to) ==
    /\ goes(t, from, to)
    /\ link' = [link EXCEPT ![t] = held]
    /\ UNCHANGED <<keyVars, eventVars, busyLock, mic, heardVars, held, coreVars>>

\* Mutant: the holder is emptied whatever it holds by now.
forgetsAny(conn) == held' = 0

\* The failed connection is forgotten, unless another has taken its place.
forgets(conn) == held' = IF held = conn THEN 0 ELSE held

\* Nobody to tell; a broken pipe; or a send, which blocks while the socket is full.
Tells(t, from, message, to) ==
    /\ goes(t, from, to)
    /\ \/ /\ link[t] = 0
          /\ UNCHANGED <<held, wire>>
       \/ /\ link[t] # 0 /\ link[t] # coreConn
          /\ forgets(link[t])
          /\ UNCHANGED wire
       \/ /\ link[t] # 0 /\ link[t] = coreConn
          /\ Len(wire) < WireCap
          /\ wire' = Append(wire, message)
          /\ UNCHANGED held
    /\ link' = [link EXCEPT ![t] = 0]
    /\ UNCHANGED <<keyVars, eventVars, busyLock, mic, heardVars, accepted, conns, coreConn, inTurn>>

AcceptLoop ==
    /\ accepted < conns
    /\ accepted' = accepted + 1
    /\ held' = accepted + 1
    /\ UNCHANGED <<keyVars, eventVars, busyLock, at, mic, heardVars, link, conns, coreConn, wire, inTurn>>
----------------------------------------------------------------------------
(* The key (PynputHotkey).                                                 *)

OnPress ==
    /\ ~key /\ presses < MaxPresses
    /\ key' = TRUE /\ presses' = presses + 1
    /\ releaseEvent' = FALSE
    /\ pressEvent' = TRUE
    /\ at' = wakes("hotkey", [waiting |-> "pressed"])
    /\ UNCHANGED <<wakeEvent, stopEvent, busyLock, mic, heardVars, holderVars, coreVars>>

OnRelease ==
    /\ key
    /\ key' = FALSE
    /\ pressEvent' = FALSE
    /\ releaseEvent' = TRUE
    /\ at' = wakes("hotkey", [recording |-> "ended", ignoring |-> "ignored"])
    /\ UNCHANGED <<presses, wakeEvent, stopEvent, busyLock, mic, heardVars, holderVars, coreVars>>

\* A thread that comes to wait for an event already set does not wait.
FindsSet(t) ==
    /\ \/ t = "hotkey" /\ pressEvent /\ goes(t, "waiting", "pressed")
       \/ t = "hotkey" /\ releaseEvent /\ goes(t, "recording", "ended")
       \/ t = "hotkey" /\ releaseEvent /\ goes(t, "ignoring", "ignored")
       \/ t = "wake" /\ wakeEvent /\ goes(t, "waiting", "pressed")
       \/ t = "wake" /\ stopEvent /\ goes(t, "recording", "stopped")
    /\ UNCHANGED <<keyVars, eventVars, busyLock, mic, heardVars, holderVars, coreVars>>

\* What was waited for is cleared.
Clears(t) ==
    /\ \/ /\ t = "hotkey" /\ goes(t, "pressed", "trying")
          /\ pressEvent' = FALSE
          /\ UNCHANGED <<releaseEvent, wakeEvent>>
       \/ /\ t = "hotkey"
          /\ goes(t, "ended", "stopped") \/ goes(t, "ignored", "waiting")
          /\ releaseEvent' = FALSE
          /\ UNCHANGED <<pressEvent, wakeEvent>>
       \/ /\ t = "wake" /\ goes(t, "pressed", "trying")
          /\ wakeEvent' = FALSE
          /\ UNCHANGED <<pressEvent, releaseEvent>>
    /\ UNCHANGED <<keyVars, stopEvent, busyLock, mic, heardVars, holderVars, coreVars>>
----------------------------------------------------------------------------
(* A capture (run_hotkey_forever, run_wakeword_forever and                 *)
(* capture_and_transcribe).                                                *)

\* The thread that gets the lock captures; for the wake word this answers what was heard.
Acquires(t) ==
    /\ busyLock = "none"
    /\ goes(t, "trying", "announcing")
    /\ busyLock' = t
    /\ heard' = (heard /\ t # "wake")
    /\ UNCHANGED <<keyVars, eventVars, mic, phrases, holderVars, coreVars>>

\* Somebody captures already: a press is sat out, a phrase forgotten.
Ignores(t) ==
    /\ busyLock # "none"
    /\ goes(t, "trying", IF t = "hotkey" THEN "ignoring" ELSE "waiting")
    /\ UNCHANGED <<keyVars, eventVars, busyLock, mic, heardVars, holderVars, coreVars>>

\* Mutant: the stop of an earlier command is still set.
ArmsStopped(t) ==
    /\ goes(t, "arming", "recording")
    /\ mic' = [armed |-> TRUE, autoStop |-> t = "wake", count |-> 0, silence |-> 0]
    /\ UNCHANGED <<keyVars, eventVars, busyLock, heardVars, holderVars, coreVars>>

Arms(t) ==
    /\ goes(t, "arming", "recording")
    /\ mic' = [armed |-> TRUE, autoStop |-> t = "wake", count |-> 0, silence |-> 0]
    /\ stopEvent' = FALSE
    /\ UNCHANGED <<keyVars, pressEvent, releaseEvent, wakeEvent, busyLock, heardVars, holderVars, coreVars>>

\* The recording is written to a scratch file, or that fails.
Disarms(t) ==
    /\ goes(t, "stopped", "transcribing") \/ goes(t, "stopped", "finally")
    /\ mic' = [mic EXCEPT !.armed = FALSE]
    /\ UNCHANGED <<keyVars, eventVars, busyLock, heardVars, holderVars, coreVars>>

\* The transcriber hears something, nothing, or fails within its timeout; either way the
\* scratch file is deleted.
Transcribes(t) ==
    /\ goes(t, "transcribing", "reporting") \/ goes(t, "transcribing", "finally")
    /\ UNCHANGED <<keyVars, eventVars, busyLock, mic, heardVars, holderVars, coreVars>>

\* The wake word said, or misheard, since then is discarded.
Finally(t) ==
    /\ goes(t, "finally", "unlocking")
    /\ wakeEvent' = (wakeEvent /\ t # "wake")
    /\ UNCHANGED <<keyVars, pressEvent, releaseEvent, stopEvent, busyLock, mic, heardVars, holderVars, coreVars>>

Unlocks(t) ==
    /\ goes(t, "unlocking", "waiting")
    /\ busyLock' = "none"
    /\ UNCHANGED <<keyVars, eventVars, mic, heardVars, holderVars, coreVars>>

Captures(t) ==
    \/ FindsSet(t) \/ Clears(t) \/ Acquires(t) \/ Ignores(t)
    \/ Takes(t, "announcing", "telling") \/ Tells(t, "telling", "listening", "arming")
    \/ Arms(t) \/ Disarms(t) \/ Transcribes(t)
    \/ Takes(t, "reporting", "reported") \/ Tells(t, "reported", "utterance", "finally")
    \/ Finally(t) \/ Unlocks(t)
----------------------------------------------------------------------------
(* The audio worker: each frame goes to the wake-word scorer, to the level *)
(* listener, and to the recording.                                         *)

\* Mutant: the lock is not looked at.
OnWakeUnchecked ==
    /\ phrases < MaxPhrases
    /\ phrases' = phrases + 1
    /\ heard' = (heard \/ busyLock = "none")
    /\ goes("worker", "frame", "waking")
    /\ UNCHANGED <<keyVars, eventVars, busyLock, mic, holderVars, coreVars>>

\* watch() has seen the phrase end: on_wake looks at the lock, and leaves it at that if
\* somebody captures.
OnWake ==
    /\ phrases < MaxPhrases
    /\ phrases' = phrases + 1
    /\ heard' = (heard \/ busyLock = "none")
    /\ goes("worker", "frame", IF busyLock = "none" THEN "waking" ELSE "levelling")
    /\ UNCHANGED <<keyVars, eventVars, busyLock, mic, holderVars, coreVars>>

NoPhrase ==
    /\ goes("worker", "frame", "levelling")
    /\ UNCHANGED <<keyVars, eventVars, busyLock, mic, heardVars, holderVars, coreVars>>

SetsWake ==
    /\ at["worker"] = "waking"
    /\ wakeEvent' = TRUE
    /\ at' = [wakes("wake", [waiting |-> "pressed"]) EXCEPT !["worker"] = "levelling"]
    /\ UNCHANGED <<keyVars, pressEvent, releaseEvent, stopEvent, busyLock, mic, heardVars, holderVars, coreVars>>

\* Not every frame: levels are sent ten times a second.
NoLevel ==
    /\ goes("worker", "levelling", "sampling")
    /\ UNCHANGED <<keyVars, eventVars, busyLock, mic, heardVars, holderVars, coreVars>>

Samples ==
    /\ goes("worker", "sampling", IF mic.armed THEN "recording" ELSE "frame")
    /\ UNCHANGED <<keyVars, eventVars, busyLock, mic, heardVars, holderVars, coreVars>>

upTo(n, bound) == IF n < bound THEN n ELSE bound

\* The recording with one more frame, which is silent or not; both counts are kept only as
\* far as the code compares them.
recorded(silent) ==
    LET count == upTo(mic.count + 1, MaxRecordingFrames)
        listens == mic.autoStop /\ count >= MinSpeechFrames
    IN  [mic EXCEPT !.count = count,
                    !.silence = IF ~listens THEN @
                                ELSE IF silent THEN upTo(@ + 1, SilenceFramesToStop) ELSE 0]

\* Mutant: only silence ends a command.
isOverInSilence(m) == m.autoStop /\ m.count >= MinSpeechFrames /\ m.silence >= SilenceFramesToStop

isOver(m) ==
    /\ m.autoStop /\ m.count >= MinSpeechFrames
    /\ m.silence >= SilenceFramesToStop \/ m.count >= MaxRecordingFrames

Records ==
    /\ \E silent \in BOOLEAN : mic' = recorded(silent)
    /\ goes("worker", "recording", IF isOver(mic') THEN "stopping" ELSE "frame")
    /\ UNCHANGED <<keyVars, eventVars, busyLock, heardVars, holderVars, coreVars>>

SetsStop ==
    /\ at["worker"] = "stopping"
    /\ stopEvent' = TRUE
    /\ at' = [wakes("wake", [recording |-> "stopped"]) EXCEPT !["worker"] = "frame"]
    /\ UNCHANGED <<keyVars, pressEvent, releaseEvent, wakeEvent, busyLock, mic, heardVars, holderVars, coreVars>>

ProcessFrame ==
    \/ OnWake \/ NoPhrase \/ SetsWake
    \/ NoLevel \/ Takes("worker", "levelling", "telling") \/ Tells("worker", "telling", "level", "sampling")
    \/ Samples \/ Records \/ SetsStop
----------------------------------------------------------------------------
(* core: it reads the next message when the turn of the last is over.      *)

CoreReads ==
    /\ coreConn # 0 /\ ~inTurn /\ wire # <<>>
    /\ inTurn' = (Head(wire) = "utterance")
    /\ wire' = Tail(wire)
    /\ UNCHANGED <<keyVars, eventVars, busyLock, at, mic, heardVars, holderVars, accepted, conns, coreConn>>

TurnEnds ==
    /\ inTurn
    /\ inTurn' = FALSE
    /\ UNCHANGED <<keyVars, eventVars, busyLock, at, mic, heardVars, holderVars, accepted, conns, coreConn, wire>>

\* core is stopped, or gives up the connection over a line it cannot parse.
CoreDrops ==
    /\ coreConn # 0
    /\ coreConn' = 0 /\ wire' = <<>> /\ inTurn' = FALSE
    /\ UNCHANGED <<keyVars, eventVars, busyLock, at, mic, heardVars, holderVars, accepted, conns>>

CoreConnects ==
    /\ coreConn = 0 /\ conns < MaxConns
    /\ conns' = conns + 1 /\ coreConn' = conns + 1
    /\ UNCHANGED <<keyVars, eventVars, busyLock, at, mic, heardVars, holderVars, accepted, wire, inTurn>>
----------------------------------------------------------------------------
EarsNext ==
    \/ OnPress \/ OnRelease \/ AcceptLoop
    \/ \E t \in Captors : Captures(t)
    \/ ProcessFrame
    \/ CoreReads \/ TurnEnds \/ CoreDrops \/ CoreConnects

\* The threads run and frames keep coming; a blocked send gets its turn when core reads
\* again and again; core reads between its turns, which need not end.
EarsFairness ==
    /\ \A t \in Captors : SF_earsVars(Captures(t))
    /\ SF_earsVars(ProcessFrame)
    /\ WF_earsVars(CoreReads) /\ WF_earsVars(AcceptLoop)

EarsSpec == EarsInit /\ [][EarsNext]_earsVars /\ EarsFairness
----------------------------------------------------------------------------
(* Properties.                                                             *)

Capturing == {"announcing", "telling", "arming", "recording", "ended", "stopped",
              "transcribing", "reporting", "reported", "finally", "unlocking"}

\* The variables' types; and the lock is held by exactly the thread that is capturing,
\* however its last cycle ended (main.py's `finally`, and safe_run).
EarsTypeOK ==
    /\ key \in BOOLEAN /\ presses \in 0 .. MaxPresses
    /\ {pressEvent, releaseEvent, wakeEvent, stopEvent} \subseteq BOOLEAN
    /\ busyLock \in Captors \cup {"none"}
    /\ at \in [Threads -> Capturing \cup {"waiting", "pressed", "trying", "ignoring", "ignored",
                                          "frame", "waking", "levelling", "sampling", "stopping"}]
    /\ mic \in [armed : BOOLEAN, autoStop : BOOLEAN, count : 0 .. MaxRecordingFrames,
                silence : 0 .. SilenceFramesToStop]
    /\ phrases \in 0 .. MaxPhrases /\ heard \in BOOLEAN
    /\ held \in 0 .. conns /\ link \in [Threads -> 0 .. conns]
    /\ accepted \in 0 .. conns /\ conns \in 1 .. MaxConns /\ coreConn \in {0, conns}
    /\ wire \in Seq({"listening", "utterance", "level"}) /\ Len(wire) <= WireCap
    /\ inTurn \in BOOLEAN
    /\ \A t \in Captors : busyLock = t <=> at[t] \in Capturing

\* A wake-word capture starts only when the phrase was said, with nothing being captured,
\* since the last one started: never on what the scorer made of a command's own sound
\* (the near-duplicate captures make_wake_handler and run_wakeword_forever guard against).
NoSpuriousCapture ==
    [][busyLock' = "wake" /\ busyLock # "wake" => heard]_earsVars

\* A command spoken after the wake word is not cut off by what stopped an earlier one: when
\* its recording ends it has at least the frames of the grace period (arm(), and the
\* worker, which may set the stop event long after the recording it judged).
NotCutShort == at["wake"] = "stopped" => mic.count >= MinSpeechFrames

\* Core is in a turn, and the socket takes no more until the turn ends.
SocketIsFull == inTurn /\ Len(wire) = WireCap

\* A capture lets go of the microphone: after the wake word because of the silence or the
\* longest recording, with the hotkey because the key is up, whatever its steps' failures
\* and whether core is there or not.  It assumes that core does not stay in one turn for
\* ever with the socket full: no turn has a time limit, and sendall holds the lock as long.
CaptureEnds ==
    \/ <>[]SocketIsFull
    \/ /\ busyLock = "wake" ~> busyLock # "wake"
       /\ busyLock = "hotkey" /\ ~key ~> busyLock # "hotkey" \/ key

\* The connection core has, once accepted, is the one the threads will find: an emit that
\* fails on an old connection never throws away the new one (ConnectionHolder.emit).
LiveConnectionKept == coreConn # 0 /\ accepted = coreConn => held = coreConn

----------------------------------------------------------------------------
(* The inductive invariant: where the wake-word thread and the worker may  *)
(* be at the same time.                                                    *)

\* The wake word has been heard, or its event is set, and the recording it starts is not armed.
WakeStarts ==
    \/ at["wake"] \in {"pressed", "trying", "announcing", "telling", "arming"}
    \/ at["wake"] = "waiting" /\ wakeEvent

\* Only a wake-word recording is armed to stop by itself.
AutoStopIsWake == mic.armed /\ mic.autoStop => at["wake"] \in {"recording", "stopped"}

\* No judgement about an earlier recording is still on its way when a capture starts.
NoStaleJudgement ==
    WakeStarts =>
        /\ at["worker"] # "stopping"
        /\ at["worker"] = "recording" => ~mic.autoStop

\* Whatever may end the recording that goes on was decided after its grace period.
StopIsDue ==
    at["wake"] = "recording" /\ (stopEvent \/ at["worker"] = "stopping")
        => mic.count >= MinSpeechFrames

\* The worker has got past every phrase it heard before the recording was over.
NoPhraseLeft ==
    /\ at["wake"] = "recording" /\ stopEvent => at["worker"] # "waking"
    /\ at["wake"] \in {"stopped", "transcribing", "reporting", "reported", "finally", "unlocking"}
        => at["worker"] # "waking"
    /\ at["wake"] = "unlocking" => ~wakeEvent

\* Outside a capture, what would start one was said.
StartWasHeard ==
    at["wake"] \notin Capturing
        /\ (wakeEvent \/ at["worker"] = "waking" \/ at["wake"] \in {"pressed", "trying"})
      => heard

EarsIInv ==
    /\ EarsTypeOK
    /\ AutoStopIsWake /\ NoStaleJudgement /\ StopIsDue /\ NotCutShort
    /\ NoPhraseLeft /\ StartWasHeard
    /\ LiveConnectionKept
=============================================================================
