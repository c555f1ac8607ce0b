-------------------------------- MODULE Eyes --------------------------------
(***************************************************************************)
(* The camera daemon senses/eyes: the thread that handles core's messages  *)
(* (main.py handle_message), the thread that closes timed-out sessions     *)
(* (check_timeouts_forever) and the hand-tracking threads (gestures.py),   *)
(* over the session state machine of session.py and the one-value holders  *)
(* of state.py.                                                            *)
(*                                                                         *)
(* The holders lock a single get or set; nothing locks a whole handler, so *)
(* a thread may be overtaken between any two accesses to shared state.     *)
(* Every such access is an action; accesses are merged only where no other *)
(* thread, and no property here, can tell.  In particular the test and the *)
(* assignment of `closed` in close() are one action with the release, since*)
(* the interpreter does not switch threads between them; what it then does *)
(* on the disk is not, since a capture that has passed its checks may be   *)
(* writing meanwhile.                                                      *)
(*                                                                         *)
(* The disk fails only where the two threads are in each other's way: not  *)
(* because it is full, or read-only.                                       *)
(*                                                                         *)
(* Data abstracted: sessions, hand-tracking loops and frames are numbered  *)
(* in order of creation; the clock is reduced to which timeout of a        *)
(* session has passed; landmarks, previews, blur and pointer control are   *)
(* left out.                                                               *)
(***************************************************************************)
EXTENDS Naturals, Sequences, FiniteSets

CONSTANTS
  MaxSessions, \* bound: cameras opened
  MaxFrames,   \* bound: frames captured
  MaxLoops     \* bound: hand-tracking loops started

VARIABLES
  toEyes,   \* the socket, core to eyes
  toCore,   \* the socket, eyes to core
  holder,   \* SessionHolder
  opened,   \* sessions created so far
  due,      \* per session, the timeout that has passed
  closed,   \* CameraSession.closed
  device,   \* the camera device of a session
  frames,   \* CameraSession.frames
  framesDir,\* the directory of a session's frames exists
  disk,     \* frames on disk
  shots,    \* frames written so far
  doomed,   \* history: the frames recorded when a session was closed
  gestures, \* GestureHolder
  loops,    \* hand-tracking loops created so far
  loopOf,   \* the session a loop reads from
  loop,     \* how far each loop's thread is
  stop,     \* GestureLoop._stop
  pc,       \* where the two threads are
  work      \* the session (or new frame) a thread is working on

sessionVars == <<holder, opened, due, closed, device, frames, framesDir, disk, shots, doomed>>
gestureVars == <<gestures, loops, loopOf, loop, stop>>
eyesVars == <<toEyes, toCore, sessionVars, gestureVars, pc, work>>

ASSUME EyesAssumption == MaxSessions \in Nat /\ MaxFrames \in Nat /\ MaxLoops \in Nat

Sessions == 1..MaxSessions
Loops == 1..MaxLoops
None == 0 \* Python's None, for a session and for a loop

Nothing == [session |-> None, cause |-> "owner"] \* no work

Threads == {"messages", "poller"}
CloseCause == {"owner", "idle", "cap"}

Requests == {"arm", "capture", "close", "gesture.start", "gesture.stop"}

\* Where a thread is: what it does next.
Places ==
  {"ready",
   "confirming", "opening", "holding",             \* arm
   "reading", "writing", "recording", "reporting", \* capture
   "stopping", "waiting", "clearing", "closing",   \* closing, by request
   "deleting", "checking", "removing",             \* or by the poller
   "announcing", "forgetting",
   "unholding",                                    \* gesture.stop
   "dead"}                                         \* ended by an exception

LoopPlaces == {"none", "spawned", "looping", "reading", "finished", "dropping", "gone"}

Armed(s) == [type |-> "camera.armed", session |-> s]
Captured(s, f) == [type |-> "camera.captured", session |-> s, frame |-> f]
Closed(s, cause) == [type |-> "camera.closed", session |-> s, cause |-> cause]
\* What an error is about is not on the wire: only histories read it.
Error == [type |-> "error", of |-> "camera"]
GestureError == [type |-> "error", of |-> "gestures"]
GestureStarted == [type |-> "gesture.started"]
GestureStopped(cause) == [type |-> "gesture.stopped", cause |-> cause]

EyesEvents ==
  {Armed(s) : s \in Sessions} \cup {Captured(s, f) : s \in Sessions, f \in 1..MaxFrames}
  \cup {Closed(s, c) : s \in Sessions, c \in CloseCause} \cup {Error, GestureError, GestureStarted}
  \cup {GestureStopped(c) : c \in {"owner", "idle", "error"}}

WiresTypeOK == toEyes \in Seq(Requests) /\ toCore \in Seq(EyesEvents)

SessionsTypeOK ==
  /\ holder \in Sessions \cup {None}
  /\ opened \in 0..MaxSessions
  /\ due \in [Sessions -> {"no", "idle", "cap"}]
  /\ closed \in [Sessions -> BOOLEAN]
  /\ device \in [Sessions -> {"none", "open", "released"}]
  /\ frames \in [Sessions -> SUBSET (1..MaxFrames)]
  /\ framesDir \in [Sessions -> BOOLEAN]
  /\ disk \in [Sessions -> SUBSET (1..MaxFrames)]
  /\ shots \in 0..MaxFrames
  /\ doomed \in [Sessions -> SUBSET (1..MaxFrames)]

GesturesTypeOK ==
  /\ gestures \in Loops \cup {None}
  /\ loops \in 0..MaxLoops
  /\ loopOf \in [Loops -> Sessions \cup {None}]
  /\ loop \in [Loops -> LoopPlaces]
  /\ stop \in [Loops -> BOOLEAN]

ThreadsTypeOK ==
  /\ pc \in [Threads -> Places]
  /\ work \in [Threads -> [session : Sessions \cup {None}, cause : CloseCause]]

EyesTypeOK == WiresTypeOK /\ SessionsTypeOK /\ GesturesTypeOK /\ ThreadsTypeOK

EyesInit ==
  /\ toEyes = <<>>
  /\ toCore = <<>>
  /\ holder = None
  /\ opened = 0
  /\ due = [s \in Sessions |-> "no"]
  /\ closed = [s \in Sessions |-> FALSE]
  /\ device = [s \in Sessions |-> "none"]
  /\ frames = [s \in Sessions |-> {}]
  /\ framesDir = [s \in Sessions |-> FALSE]
  /\ disk = [s \in Sessions |-> {}]
  /\ shots = 0
  /\ doomed = [s \in Sessions |-> {}]
  /\ gestures = None
  /\ loops = 0
  /\ loopOf = [l \in Loops |-> None]
  /\ loop = [l \in Loops |-> "none"]
  /\ stop = [l \in Loops |-> FALSE]
  /\ pc = [th \in Threads |-> "ready"]
  /\ work = [th \in Threads |-> Nothing]

-----------------------------------------------------------------------------
emit(event) == toCore' = Append(toCore, event)

goto(th, place) == pc' = [pc EXCEPT ![th] = place]

at(th, place) == pc[th] = place

session(th) == work[th].session

\* The message thread takes a request off the socket (run_forever).
receive(type) ==
  /\ at("messages", "ready")
  /\ toEyes # <<>>
  /\ Head(toEyes) = type
  /\ toEyes' = Tail(toEyes)

\* A handler goes to a place with a session in hand, or is done with it.
takes(th, s, cause, place) ==
  /\ work' = [work EXCEPT ![th] = [session |-> s, cause |-> cause]]
  /\ goto(th, place)

returns(th) ==
  /\ work' = [work EXCEPT ![th] = Nothing]
  /\ goto(th, "ready")

Usable(s) == s # None /\ ~closed[s] /\ due[s] = "no"

\* Mutant: use of the camera also postpones the absolute cap.
StillUsedAlsoCap(s) == due' = [due EXCEPT ![s] = "no"]

\* Every use of the camera starts the idle period over, never the absolute one.
StillUsed(s) == due' = [due EXCEPT ![s] = IF @ = "idle" THEN "no" ELSE @]

\* Time passes: the idle timeout of a session is over, or its absolute cap.
TimeoutPasses(s) ==
  /\ s <= opened
  /\ ~closed[s]
  /\ \/ due[s] = "no" /\ due' = [due EXCEPT ![s] = "idle"]
     \/ due[s] # "cap" /\ due' = [due EXCEPT ![s] = "cap"]
  /\ UNCHANGED <<toEyes, toCore, holder, opened, closed, device, frames, framesDir, disk,
                 shots, doomed, gestureVars, pc, work>>

-----------------------------------------------------------------------------
(***************************************************************************)
(* arm                                                                     *)
(***************************************************************************)
ArmLooks ==
  /\ receive("arm")
  /\ IF Usable(holder)
     THEN takes("messages", holder, "owner", "confirming")
     ELSE takes("messages", None, "owner", "opening")
  /\ UNCHANGED <<toCore, sessionVars, gestureVars>>

\* The session is live already: nothing is opened or reset.
ArmConfirms ==
  /\ at("messages", "confirming")
  /\ emit(Armed(session("messages")))
  /\ returns("messages")
  /\ UNCHANGED <<toEyes, sessionVars, gestureVars>>

ArmOpens ==
  /\ at("messages", "opening")
  /\ opened < MaxSessions
  /\ opened' = opened + 1
  /\ device' = [device EXCEPT ![opened + 1] = "open"]
  /\ takes("messages", opened + 1, "owner", "holding")
  /\ UNCHANGED <<toEyes, toCore, holder, due, closed, frames, framesDir, disk, shots,
                 doomed, gestureVars>>

ArmFails ==
  /\ at("messages", "opening")
  /\ emit(Error)
  /\ returns("messages")
  /\ UNCHANGED <<toEyes, sessionVars, gestureVars>>

ArmHolds ==
  /\ at("messages", "holding")
  /\ holder' = session("messages")
  /\ emit(Armed(session("messages")))
  /\ returns("messages")
  /\ UNCHANGED <<toEyes, opened, due, closed, device, frames, framesDir, disk, shots,
                 doomed, gestureVars>>

-----------------------------------------------------------------------------
(***************************************************************************)
(* capture                                                                 *)
(***************************************************************************)
\* Mutant: a follow-up gets the frame the session has already.
CaptureLooksReusing ==
  /\ receive("capture")
  /\ IF Usable(holder)
     THEN IF frames[holder] = {}
          THEN takes("messages", holder, "owner", "reading") /\ UNCHANGED toCore
          ELSE emit(Captured(holder, shots)) /\ UNCHANGED <<pc, work>>
     ELSE emit(Error) /\ UNCHANGED <<pc, work>>
  /\ UNCHANGED <<sessionVars, gestureVars>>

CaptureLooks ==
  /\ receive("capture")
  /\ IF Usable(holder)
     THEN takes("messages", holder, "owner", "reading") /\ UNCHANGED toCore
     ELSE emit(Error) /\ UNCHANGED <<pc, work>>
  /\ UNCHANGED <<sessionVars, gestureVars>>

\* The device read returns, and the directory is made; or it raises (it does if
\* the device was released before it started; if it is released meanwhile the
\* outcome is open).
CaptureReads ==
  LET s == session("messages") IN
    /\ at("messages", "reading")
    /\ \/ /\ shots < MaxFrames
          /\ framesDir' = [framesDir EXCEPT ![s] = TRUE]
          /\ goto("messages", "writing")
          /\ UNCHANGED <<toCore, work>>
       \/ /\ emit(Error)
          /\ returns("messages")
          /\ UNCHANGED framesDir
    /\ UNCHANGED <<toEyes, holder, opened, due, closed, device, frames, disk, shots, doomed,
                   gestureVars>>

\* If close() has removed the directory meanwhile, the write raises, which only
\* run_forever catches: core gets no reply.
CaptureWrites ==
  LET s == session("messages") IN
    /\ at("messages", "writing")
    /\ IF framesDir[s]
       THEN /\ shots' = shots + 1
            /\ disk' = [disk EXCEPT ![s] = @ \cup {shots + 1}]
            /\ goto("messages", "recording")
            /\ UNCHANGED work
       ELSE returns("messages") /\ UNCHANGED <<shots, disk>>
    /\ UNCHANGED <<toEyes, toCore, holder, opened, due, closed, device, frames, framesDir,
                   doomed, gestureVars>>

CaptureRecords ==
  LET s == session("messages") IN
    /\ at("messages", "recording")
    /\ frames' = [frames EXCEPT ![s] = @ \cup {shots}]
    /\ StillUsed(s)
    /\ goto("messages", "reporting")
    /\ UNCHANGED <<toEyes, toCore, holder, opened, closed, device, framesDir, disk, shots,
                   doomed, gestureVars, work>>

CaptureReports ==
  /\ at("messages", "reporting")
  /\ emit(Captured(session("messages"), shots))
  /\ returns("messages")
  /\ UNCHANGED <<toEyes, sessionVars, gestureVars>>

-----------------------------------------------------------------------------
(***************************************************************************)
(* Closing: by request, or by the poller once a timeout has passed.  Both  *)
(* threads run the same steps on the session they have looked up.          *)
(***************************************************************************)
\* A session already closed, or none: no reply.
CloseLooks ==
  /\ receive("close")
  /\ IF holder # None /\ ~closed[holder]
     THEN takes("messages", holder, "owner", "stopping")
     ELSE UNCHANGED <<pc, work>>
  /\ UNCHANGED <<toCore, sessionVars, gestureVars>>

PollerFinds ==
  /\ at("poller", "ready")
  /\ holder # None /\ ~closed[holder] /\ due[holder] # "no"
  /\ takes("poller", holder, due[holder], "stopping")
  /\ UNCHANGED <<toEyes, toCore, sessionVars, gestureVars>>

\* GestureLoop.stop(timeout) waits only for a loop whose thread has started.
StopsLoop(th) ==
  /\ at(th, "stopping")
  /\ IF gestures = None
     THEN goto(th, "closing") /\ UNCHANGED stop
     ELSE /\ stop' = [stop EXCEPT ![gestures] = TRUE]
          /\ goto(th, IF loop[gestures] = "spawned" THEN "clearing" ELSE "waiting")
  /\ UNCHANGED <<toEyes, toCore, sessionVars, gestures, loops, loopOf, loop, work>>

\* Mutant: stop() waits for the loop however long its read takes.
WaitEndsWithLoop(th) ==
  /\ at(th, "waiting")
  /\ \A l \in Loops : stop[l] => loop[l] \notin {"looping", "reading"}
  /\ goto(th, "clearing")
  /\ UNCHANGED <<toEyes, toCore, sessionVars, gestureVars, work>>

\* The loop has exited, or GESTURE_STOP_TIMEOUT_S has passed.
WaitEnds(th) ==
  /\ at(th, "waiting")
  /\ goto(th, "clearing")
  /\ UNCHANGED <<toEyes, toCore, sessionVars, gestureVars, work>>

ClearsLoop(th) ==
  /\ at(th, "clearing")
  /\ gestures' = None
  /\ goto(th, "closing")
  /\ UNCHANGED <<toEyes, toCore, sessionVars, loops, loopOf, loop, stop, work>>

\* CameraSession.close(), a no-op if the other thread got there first.
Closes(th) ==
  LET s == session(th) IN
    /\ at(th, "closing")
    /\ IF closed[s]
       THEN goto(th, "announcing") /\ UNCHANGED <<closed, device, doomed>>
       ELSE /\ closed' = [closed EXCEPT ![s] = TRUE]
            /\ device' = [device EXCEPT ![s] = "released"]
            /\ doomed' = [doomed EXCEPT ![s] = frames[s]]
            /\ goto(th, "deleting")
    /\ UNCHANGED <<toEyes, toCore, holder, opened, due, frames, framesDir, disk, shots,
                   gestureVars, work>>

\* Mutant: the last frame recorded is passed over.
DeletesFramesButLast(th) ==
  LET s == session(th) IN
    /\ at(th, "deleting")
    /\ disk' = [disk EXCEPT ![s] = {f \in @ : f \in frames[s] => f = shots}]
    /\ goto(th, "checking")
    /\ UNCHANGED <<toEyes, toCore, holder, opened, due, closed, device, frames, framesDir,
                   shots, doomed, gestureVars, work>>

\* core never asks to keep a frame: all are deleted that are recorded when the walk
\* over them ends, since a frame recorded during it is still met.
DeletesFrames(th) ==
  LET s == session(th) IN
    /\ at(th, "deleting")
    /\ disk' = [disk EXCEPT ![s] = @ \ frames[s]]
    /\ goto(th, "checking")
    /\ UNCHANGED <<toEyes, toCore, holder, opened, due, closed, device, frames, framesDir,
                   shots, doomed, gestureVars, work>>

\* Is there a directory, and is it empty?
ChecksDirectory(th) ==
  LET s == session(th) IN
    /\ at(th, "checking")
    /\ goto(th, IF framesDir[s] /\ disk[s] = {} THEN "removing" ELSE "announcing")
    /\ UNCHANGED <<toEyes, toCore, sessionVars, gestureVars, work>>

\* run_forever goes on with the next message; the poller's thread ends.
raises(th) ==
  /\ work' = [work EXCEPT ![th] = Nothing]
  /\ goto(th, IF th = "poller" THEN "dead" ELSE "ready")

\* rmdir raises if a frame has been written since: nothing is announced, and the
\* session stays in the holder.
RemovesDirectory(th) ==
  LET s == session(th) IN
    /\ at(th, "removing")
    /\ IF disk[s] = {}
       THEN /\ framesDir' = [framesDir EXCEPT ![s] = FALSE]
            /\ goto(th, "announcing")
            /\ UNCHANGED work
       ELSE raises(th) /\ UNCHANGED framesDir
    /\ UNCHANGED <<toEyes, toCore, holder, opened, due, closed, device, frames, disk, shots,
                   doomed, gestureVars>>

AnnouncesClosed(th) ==
  /\ at(th, "announcing")
  /\ emit(Closed(session(th), work[th].cause))
  /\ goto(th, "forgetting")
  /\ UNCHANGED <<toEyes, sessionVars, gestureVars, work>>

\* holder.set(None), whatever the holder holds by now.
Forgets(th) ==
  /\ at(th, "forgetting")
  /\ holder' = None
  /\ returns(th)
  /\ UNCHANGED <<toEyes, toCore, opened, due, closed, device, frames, framesDir, disk, shots,
                 doomed, gestureVars>>

-----------------------------------------------------------------------------
(***************************************************************************)
(* Hand tracking.                                                          *)
(***************************************************************************)
GestureStart ==
  /\ receive("gesture.start")
  /\ \/ gestures # None /\ emit(GestureStarted) /\ UNCHANGED gestureVars
     \/ gestures = None /\ emit(GestureError) /\ UNCHANGED gestureVars \* no session, or no tracker
     \/ /\ gestures = None /\ holder # None /\ ~closed[holder]
        /\ loops < MaxLoops
        /\ loops' = loops + 1
        /\ loopOf' = [loopOf EXCEPT ![loops + 1] = holder]
        /\ loop' = [loop EXCEPT ![loops + 1] = "spawned"]
        /\ gestures' = loops + 1
        /\ emit(GestureStarted)
        /\ UNCHANGED stop
  /\ UNCHANGED <<sessionVars, pc, work>>

\* Signalled, not waited for, and forgotten.
GestureStop ==
  /\ receive("gesture.stop")
  /\ IF gestures = None
     THEN UNCHANGED <<stop, pc>>
     ELSE stop' = [stop EXCEPT ![gestures] = TRUE] /\ goto("messages", "unholding")
  /\ UNCHANGED <<toCore, sessionVars, gestures, loops, loopOf, loop, work>>

GestureForgotten ==
  /\ at("messages", "unholding")
  /\ gestures' = None
  /\ goto("messages", "ready")
  /\ UNCHANGED <<toEyes, toCore, sessionVars, loops, loopOf, loop, stop, work>>

LoopStarts(l) ==
  /\ loop[l] = "spawned"
  /\ loop' = [loop EXCEPT ![l] = "looping"]
  /\ UNCHANGED <<toEyes, toCore, sessionVars, gestures, loops, loopOf, stop, pc, work>>

\* The top of the loop: told to stop, or the session refuses the read, or it
\* goes into the device.
LoopTurns(l) ==
  /\ loop[l] = "looping"
  /\ \/ /\ stop[l]
        /\ loop' = [loop EXCEPT ![l] = "finished"]
        /\ emit(GestureStopped("owner"))
     \/ /\ ~stop[l] /\ ~Usable(loopOf[l])
        /\ loop' = [loop EXCEPT ![l] = "finished"]
        /\ toCore' = toCore \o <<GestureError, GestureStopped("error")>>
     \/ /\ ~stop[l] /\ Usable(loopOf[l])
        /\ loop' = [loop EXCEPT ![l] = "reading"]
        /\ UNCHANGED toCore
  /\ UNCHANGED <<toEyes, sessionVars, gestures, loops, loopOf, stop, pc, work>>

\* The read returns a frame, with a hand in it, or none for too long, or one that
\* the tracker fails on (nothing but the thread's end is seen of that); or the read
\* itself raises.
LoopReads(l) ==
  /\ loop[l] = "reading"
  /\ \/ /\ loop' = [loop EXCEPT ![l] = "looping"]
        /\ StillUsed(loopOf[l])
        /\ UNCHANGED toCore
     \/ /\ loop' = [loop EXCEPT ![l] = "finished"]
        /\ StillUsed(loopOf[l])
        /\ \/ emit(GestureStopped("idle"))
           \/ UNCHANGED toCore
     \/ /\ loop' = [loop EXCEPT ![l] = "finished"]
        /\ toCore' = toCore \o <<GestureError, GestureStopped("error")>>
        /\ UNCHANGED due
  /\ UNCHANGED <<toEyes, holder, opened, closed, device, frames, framesDir, disk, shots,
                 doomed, gestures, loops, loopOf, stop, pc, work>>

\* run_and_clear: is the holder still holding this loop?  It is not asked if the
\* tracker's close() raises.
LoopLooksUp(l) ==
  /\ loop[l] = "finished"
  /\ \/ loop' = [loop EXCEPT ![l] = IF gestures = l THEN "dropping" ELSE "gone"]
     \/ loop' = [loop EXCEPT ![l] = "gone"]
  /\ UNCHANGED <<toEyes, toCore, sessionVars, gestures, loops, loopOf, stop, pc, work>>

\* It was, when it looked.
LoopDrops(l) ==
  /\ loop[l] = "dropping"
  /\ loop' = [loop EXCEPT ![l] = "gone"]
  /\ gestures' = None
  /\ UNCHANGED <<toEyes, toCore, sessionVars, loops, loopOf, stop, pc, work>>

-----------------------------------------------------------------------------
HandlesArm == ArmLooks \/ ArmConfirms \/ ArmOpens \/ ArmFails \/ ArmHolds

HandlesCapture ==
  CaptureLooks \/ CaptureReads \/ CaptureWrites \/ CaptureRecords \/ CaptureReports

ClosingSteps(th) ==
  \/ StopsLoop(th) \/ WaitEnds(th) \/ ClearsLoop(th) \/ Closes(th) \/ DeletesFrames(th)
  \/ ChecksDirectory(th) \/ RemovesDirectory(th) \/ AnnouncesClosed(th) \/ Forgets(th)

handle_message ==
  \/ HandlesArm
  \/ HandlesCapture
  \/ CloseLooks
  \/ ClosingSteps("messages")
  \/ GestureStart
  \/ GestureStop
  \/ GestureForgotten

check_timeouts_forever == PollerFinds \/ ClosingSteps("poller")

LoopRuns(l) ==
  LoopStarts(l) \/ LoopTurns(l) \/ LoopReads(l) \/ LoopLooksUp(l) \/ LoopDrops(l)

EyesNext ==
  \/ handle_message
  \/ check_timeouts_forever
  \/ \E l \in Loops : LoopRuns(l)
  \/ \E s \in Sessions : TimeoutPasses(s)

\* The two threads are scheduled, as long as they live; a read of the device may hang.
EyesFairness ==
  /\ WF_eyesVars(~at("messages", "reading") /\ handle_message)
  /\ WF_eyesVars(check_timeouts_forever)
=============================================================================
