------------------------------- MODULE Camera -------------------------------
(***************************************************************************)
(* Core's side of the camera, composed with the daemon: the CameraHandle   *)
(* of core/skills/camera.ts, the relay of core/senseRelays.ts and the look *)
(* skill's use of them (skills/look/index.ts).                             *)
(*                                                                         *)
(* The handle keeps one slot for a pending request and gives it the next   *)
(* reply that eyes sends, whatever it is.  A skill is resumed in the same  *)
(* macrotask as the event that settles its request, so the reply and what  *)
(* the skill does next are one action.                                     *)
(*                                                                         *)
(* Data abstracted: an intent of the look skill is what it does with the   *)
(* session once it is open; what the vision model says, and the proposal   *)
(* to remember it, belong to the gate.                                     *)
(***************************************************************************)
EXTENDS Eyes

CONSTANTS
  Dispatches, \* turns that may run the look skill at the same time
  NoOne,      \* null
  MaxIntents  \* bound: requests of the owner to the look skill

VARIABLES
  state,     \* the handle's state
  intent,    \* what the look skill is doing in each turn, "none" when it is not
  pending,   \* the slot: the request sent and who awaits its reply
  intents,   \* intents so far
  askedAt,   \* history: frames captured before the pending capture was sent
  stale,     \* history: a capture returned a frame older than its request
  crossed,   \* history: a request was settled by something that was no reply to it
  announced  \* history: sessions whose timeout was announced

coreVars == <<state, intent, pending, intents, askedAt, stale, crossed, announced>>
vars == <<eyesVars, coreVars>>

Intents == {"open_camera", "close_camera", "describe", "start_gestures", "stop_gestures"}

\* cameraAction's idleMessage: nothing to do while the camera is off.
NeedsCamera == {"close_camera", "stop_gestures"}

Free == [by |-> NoOne, type |-> "none"]

ASSUME CameraAssumption == NoOne \notin Dispatches /\ MaxIntents \in Nat

CameraTypeOK ==
  /\ EyesTypeOK
  /\ state \in {"idle", "armed"}
  /\ intent \in [Dispatches -> Intents \cup {"none"}]
  /\ pending \in [by : Dispatches, type : {"arm", "capture", "close"}] \cup {Free}
  /\ intents \in 0..MaxIntents
  /\ askedAt \in 0..MaxFrames
  /\ stale \in BOOLEAN
  /\ crossed \in BOOLEAN
  /\ announced \subseteq Sessions

CameraInit ==
  /\ EyesInit
  /\ state = "idle"
  /\ intent = [d \in Dispatches |-> "none"]
  /\ pending = Free
  /\ intents = 0
  /\ askedAt = 0
  /\ stale = FALSE
  /\ crossed = FALSE
  /\ announced = {}

-----------------------------------------------------------------------------
send(type) == toEyes' = Append(toEyes, type)

\* The skill is done with the camera, for better or worse.
finished(d) == [intent EXCEPT ![d] = "none"]

\* Mutant: the slot is overwritten and its promise left as it is.
takeSlotDropping(d, type, ongoing) ==
  /\ pending' = [by |-> d, type |-> type]
  /\ intent' = ongoing

\* A request takes the slot; whoever awaits it there gets "superseded by a newer
\* camera request", which ends what that skill was doing.
takeSlot(d, type, ongoing) ==
  /\ pending' = [by |-> d, type |-> type]
  /\ intent' = IF pending = Free THEN ongoing ELSE [ongoing EXCEPT ![pending.by] = "none"]

\* The owner asks something of the look skill, which opens the session first.
LookStarts(d, i) ==
  /\ intent[d] = "none"
  /\ intents < MaxIntents
  /\ i \in NeedsCamera => state # "idle"
  /\ intents' = intents + 1
  /\ takeSlot(d, "arm", [intent EXCEPT ![d] = i])
  /\ crossed' = (crossed \/ pending # Free)
  /\ send("arm")
  /\ UNCHANGED <<toCore, sessionVars, gestureVars, pc, work, state, askedAt, stale, announced>>

IsReply(e) == e.type \in {"camera.armed", "camera.captured", "camera.closed", "error"}

\* Whatever it is a reply to, it says what the camera is.
track(e) ==
  state' = CASE e.type = "camera.armed"  -> "armed"
             [] e.type = "camera.closed" -> "idle"
             [] OTHER                    -> state

\* open() resolves: the rest of the intent of d, up to its next await.  The state
\* has just become "armed", so close() does not return early.
AfterOpen(d) ==
  \/ /\ intent[d] = "describe"
     /\ pending' = [by |-> d, type |-> "capture"]
     /\ send("capture")
     /\ askedAt' = shots
     /\ UNCHANGED intent
  \/ /\ intent[d] = "close_camera"
     /\ pending' = [by |-> d, type |-> "close"]
     /\ send("close")
     /\ UNCHANGED <<intent, askedAt>>
  \/ /\ intent[d] \in {"start_gestures", "stop_gestures"}
     /\ pending' = Free
     /\ intent' = finished(d)
     /\ send(IF intent[d] = "start_gestures" THEN "gesture.start" ELSE "gesture.stop")
     /\ UNCHANGED askedAt
  \/ /\ intent[d] = "open_camera"
     /\ pending' = Free
     /\ intent' = finished(d)
     /\ UNCHANGED <<toEyes, askedAt>>

\* The skill awaiting the slot goes on with the event e: open() wants camera.armed
\* and capture() wants camera.captured, close() anything but an error; any other
\* is thrown, and reported.
Resume(e) ==
  LET d == pending.by IN
    \/ /\ pending.type = "arm" /\ e.type = "camera.armed"
       /\ AfterOpen(d)
       /\ UNCHANGED stale
    \/ /\ pending.type = "arm" => e.type # "camera.armed"
       /\ pending' = Free
       /\ intent' = finished(d)
       /\ stale' = (stale \/ (pending.type = "capture" /\ e.type = "camera.captured"
                                /\ e.frame <= askedAt))
       /\ UNCHANGED <<toEyes, askedAt>>

\* An event that eyes sends of its own accord.
Spontaneous(e) ==
  \/ e.type = "camera.closed" /\ e.cause # "owner"
  \/ e = GestureError

\* Mutant: only the idle timeout is announced.
announceIdleOnly(e) ==
  announced' = IF e.type = "camera.closed" /\ e.cause = "idle"
               THEN announced \cup {e.session} ELSE announced

\* The relay speaks of a close that nobody asked for.
announce(e) ==
  announced' = IF e.type = "camera.closed" /\ e.cause \in {"idle", "cap"}
               THEN announced \cup {e.session} ELSE announced

\* relayCameraStatus takes the next event off the socket.
RelayEvent ==
  /\ toCore # <<>>
  /\ toCore' = Tail(toCore)
  /\ LET e == Head(toCore) IN
       /\ announce(e)
       /\ IF IsReply(e)
          THEN /\ track(e)
               /\ crossed' = (crossed \/ (pending # Free /\ Spontaneous(e)))
               /\ \/ pending # Free /\ Resume(e)
                  \/ pending = Free /\ UNCHANGED <<toEyes, intent, pending, askedAt, stale>>
          ELSE UNCHANGED <<state, crossed, toEyes, intent, pending, askedAt, stale>>
  /\ UNCHANGED <<sessionVars, gestureVars, pc, work, intents>>

CameraNext ==
  \/ EyesNext /\ UNCHANGED coreVars
  \/ \E d \in Dispatches, i \in Intents : LookStarts(d, i)
  \/ RelayEvent

CameraSpec == CameraInit /\ [][CameraNext]_vars

CameraFairSpec ==
  /\ CameraSpec
  /\ EyesFairness
  /\ WF_vars(RelayEvent)

-----------------------------------------------------------------------------
\* As long as each request is settled by the reply to it, a capture never returns
\* a picture taken before it was asked for: no message of one request is left
\* over for the next (offerEvent, capture()).
FreshUnlessCrossed == stale => crossed

\* A skill waits for the camera only while its request is in the slot: one that
\* loses the slot to another turn's request is told so, and never waits for a
\* reply that nothing can give it any more (request()).
NoneLeftWaiting == \A d \in Dispatches : intent[d] # "none" => pending.by = d

\* Closing deletes every frame that was recorded when it began, whichever thread closes
\* and whatever the other is doing; what else can be left on disk is one frame, the one
\* whose capture the close overtook (close(), capture()).
DeletesNow(th, s) == at(th, "deleting") /\ session(th) = s

FramesAreGone(s) == closed[s] /\ \A th \in Threads : ~DeletesNow(th, s)

RecordedFramesGo ==
  \A s \in Sessions :
    FramesAreGone(s) => doomed[s] \cap disk[s] = {} /\ Cardinality(disk[s]) <= 1

\* What makes them so.  A thread that closes, captures or confirms has a session in hand, and
\* the poller closes for no other reason than a timeout.
ClosingPlaces == {"stopping", "waiting", "clearing", "closing", "deleting", "checking", "removing",
                  "announcing", "forgetting"}

SessionPlaces ==
  ClosingPlaces \cup {"confirming", "holding", "reading", "writing", "recording", "reporting"}

SessionInHand ==
  /\ \A th \in Threads : pc[th] \in SessionPlaces => session(th) \in Sessions
  /\ pc["poller"] \in ClosingPlaces \cup {"ready", "dead"}
  /\ pc["poller"] \in ClosingPlaces => work["poller"].cause # "owner"
  /\ pc["messages"] = "writing" => shots < MaxFrames
  /\ pc["messages"] \in {"recording", "reporting"} => shots > 0

\* A frame on disk is recorded, or is about to be, until it is deleted with its session; then
\* there is none, but for one whose capture was under way and has written it by now.
Capturing(s) == pc["messages"] \in {"reading", "writing"} /\ session("messages") = s

Unrecorded(s) ==
  IF pc["messages"] = "recording" /\ session("messages") = s THEN {shots} ELSE {}

FramesAreRecorded ==
  \A s \in Sessions :
    /\ frames[s] \subseteq 1..shots
    /\ doomed[s] \subseteq frames[s]
    /\ ~FramesAreGone(s) => disk[s] \subseteq frames[s] \cup Unrecorded(s)
    /\ FramesAreGone(s) =>
         /\ doomed[s] \cap disk[s] = {}
         /\ disk[s] = {} \/ (~Capturing(s) /\ \E f \in 1..MaxFrames : disk[s] = {f})

\* Unless something was crossed, one answer at most is due to core: its request is on the wire,
\* or being served, or answered; and none is when nobody waits in the slot.
RequestsIn(q) == {n \in DOMAIN q : q[n] \in {"arm", "capture", "close"}}

AnswersIn(q) == {n \in DOMAIN q : IsReply(q[n]) /\ ~Spontaneous(q[n])}

Serving == pc["messages"] \notin {"ready", "forgetting", "unholding"}

OneAnswerDue ==
  ~crossed =>
    /\ pending = Free => RequestsIn(toEyes) = {} /\ ~Serving /\ AnswersIn(toCore) = {}
    /\ RequestsIn(toEyes) # {} => ~Serving /\ AnswersIn(toCore) = {}
    /\ Serving => AnswersIn(toCore) = {}
    /\ \A m, n \in RequestsIn(toEyes) : m = n
    /\ \A m, n \in AnswersIn(toCore) : m = n

NothingOld ==
  /\ askedAt <= shots
  /\ ~crossed => /\ pc["messages"] \in {"recording", "reporting"} => shots > askedAt
                 /\ \A n \in DOMAIN toCore :
                      toCore[n].type = "camera.captured" => toCore[n].frame > askedAt

CameraIInv ==
  /\ CameraTypeOK /\ SessionInHand
  /\ FramesAreRecorded /\ OneAnswerDue /\ NothingOld
  /\ NoneLeftWaiting /\ FreshUnlessCrossed

\* A timeout the poller has found is announced, although the owner may be closing the
\* session at the same time, or else the poller is dead: its close was caught by a capture
\* that wrote its frame between the look at the directory and its removal, and the frame
\* is still there ("two timeouts, both announced").
CaughtByCapture(s) == at("poller", "dead") /\ closed[s] /\ disk[s] # {}

TimeoutIsAnnounced ==
  \A s \in Sessions :
    (at("poller", "stopping") /\ session("poller") = s) ~> (s \in announced \/ CaughtByCapture(s))

\* As long as the poller lives, the absolute cap closes the session in the holder whatever
\* uses it meanwhile: no capture and no hand tracking postpones it (poller, is_timed_out).
\* A session no longer in the holder is none of the poller's: see CapAlwaysCloses.
CapCloses ==
  \A s \in Sessions :
    (holder = s /\ due[s] = "cap") ~> (closed[s] \/ holder # s \/ at("poller", "dead"))

\* Neither thread is held up for ever by the other or by a hand-tracking loop whose read
\* hangs (GESTURE_STOP_TIMEOUT_S): only its own read can hold it, or its own end.
ThreadsComeBack ==
  \A th \in Threads : (~at(th, "ready")) ~> at(th, "ready") \/ at(th, "reading") \/ at(th, "dead")

-----------------------------------------------------------------------------
\* SPEC.md section 6: the camera "turns itself off" and neither timeout is
\* "removable".  A session that is past its absolute cap is closed, even if no
\* longer the one in the holder.
CapAlwaysCloses == \A s \in Sessions : (due[s] = "cap") ~> closed[s]
=============================================================================
