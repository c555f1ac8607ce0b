---------------------------- MODULE CameraProofs ----------------------------
(***************************************************************************)
(* Proofs about the camera, core and daemon together, for any number of    *)
(* sessions, frames, hand-tracking loops, turns and requests.              *)
(***************************************************************************)
EXTENDS Camera, TLAPS, FiniteSetTheorems

\* What is on the wire to core, of what kind it is and what it carries.
LEMMA EventFacts ==
  ASSUME NEW e \in EyesEvents
  PROVE  /\ e.type = "camera.captured" => e.frame \in 1..MaxFrames
         /\ e.type = "camera.closed" => e.session \in Sessions
BY DEF EyesEvents, Armed, Captured, Closed, Error, GestureError, GestureStarted, GestureStopped

LEMMA EventsAreEvents ==
  /\ \A s \in Sessions : Armed(s) \in EyesEvents
  /\ \A s \in Sessions, f \in 1..MaxFrames : Captured(s, f) \in EyesEvents
  /\ \A s \in Sessions, c \in CloseCause : Closed(s, c) \in EyesEvents
  /\ Error \in EyesEvents /\ GestureError \in EyesEvents /\ GestureStarted \in EyesEvents
  /\ \A c \in {"owner", "idle", "error"} : GestureStopped(c) \in EyesEvents
BY DEF EyesEvents

\* None of what the hand tracking says, and no timeout of the poller's, answers a request.
LEMMA SpontaneousFacts ==
  /\ Spontaneous(GestureError) /\ ~IsReply(GestureStarted)
  /\ \A c : ~IsReply(GestureStopped(c))
  /\ \A s, c : c # "owner" => Spontaneous(Closed(s, c))
BY DEF Spontaneous, IsReply, GestureError, GestureStarted, GestureStopped, Closed
-----------------------------------------------------------------------------
(***************************************************************************)
(* The types of the daemon's state, with what its threads have in hand.    *)
(***************************************************************************)
DaemonOK == EyesTypeOK /\ SessionInHand

\* Where a thread may be, given what it has in hand.
InHand(th) ==
  /\ pc[th] \in SessionPlaces => session(th) \in Sessions
  /\ th = "poller" => pc[th] \in ClosingPlaces \cup {"ready", "dead"}
  /\ th = "poller" /\ pc[th] \in ClosingPlaces => work[th].cause # "owner"

\* How many frames there are, given where the capture is.
ShotsFit ==
  /\ pc["messages"] = "writing" => shots < MaxFrames
  /\ pc["messages"] \in {"recording", "reporting"} => shots > 0

LEMMA OneThreadMoves ==
  ASSUME DaemonOK, NEW th \in Threads, ThreadsTypeOK', InHand(th)',
         \A o \in Threads \ {th} : pc'[o] = pc[o] /\ work'[o] = work[o],
         ShotsFit'
  PROVE  SessionInHand'
<1>1. \A o \in Threads \ {th} : InHand(o)'
  BY DEF DaemonOK, SessionInHand, InHand, session
<1>2. QED BY <1>1 DEF SessionInHand, InHand, ShotsFit, Threads

LEMMA ThreadGoes ==
  ASSUME DaemonOK, NEW th \in Threads, NEW place \in Places, goto(th, place), UNCHANGED work,
         place \in SessionPlaces => session(th) \in Sessions,
         th = "poller" => place \in ClosingPlaces /\ work[th].cause # "owner",
         th = "messages" \/ UNCHANGED shots,
         place = "writing" => shots' < MaxFrames,
         place \in {"recording", "reporting"} => shots' > 0
  PROVE  ThreadsTypeOK' /\ SessionInHand'
<1>1. pc \in [Threads -> Places] /\ work \in [Threads -> [session : Sessions \cup {None}, cause : CloseCause]]
  BY DEF DaemonOK, EyesTypeOK, ThreadsTypeOK
<1>2. ThreadsTypeOK'
  BY <1>1 DEF ThreadsTypeOK, goto
<1>3. pc'[th] = place /\ \A o \in Threads \ {th} : pc'[o] = pc[o]
  BY <1>1 DEF goto
<1>4. InHand(th)'
  BY <1>3 DEF InHand, session
<1>5. ShotsFit'
  BY <1>3 DEF DaemonOK, SessionInHand, ShotsFit, Threads
<1>6. QED BY <1>2, <1>3, <1>4, <1>5, OneThreadMoves

LEMMA ThreadTakes ==
  ASSUME DaemonOK, NEW th \in Threads, NEW s \in Sessions \cup {None}, NEW cause \in CloseCause,
         NEW place \in Places, takes(th, s, cause, place),
         place = "opening" \/ s \in Sessions, place \notin {"writing", "recording", "reporting"},
         th = "poller" => place \in ClosingPlaces /\ cause # "owner",
         UNCHANGED shots
  PROVE  ThreadsTypeOK' /\ SessionInHand'
<1>1. pc \in [Threads -> Places] /\ work \in [Threads -> [session : Sessions \cup {None}, cause : CloseCause]]
  BY DEF DaemonOK, EyesTypeOK, ThreadsTypeOK
<1>2. ThreadsTypeOK'
  BY <1>1 DEF ThreadsTypeOK, takes, goto
<1>3. /\ pc'[th] = place /\ work'[th] = [session |-> s, cause |-> cause]
      /\ \A o \in Threads \ {th} : pc'[o] = pc[o] /\ work'[o] = work[o]
  BY <1>1 DEF takes, goto
<1>4. InHand(th)'
  BY <1>3 DEF InHand, session, SessionPlaces, ClosingPlaces
<1>5. ShotsFit'
  BY <1>3 DEF DaemonOK, SessionInHand, ShotsFit, Threads
<1>6. QED BY <1>2, <1>3, <1>4, <1>5, OneThreadMoves

\* A handler is done, or ended by an exception.
LEMMA ThreadEnds ==
  ASSUME DaemonOK, NEW th \in Threads, returns(th) \/ raises(th), UNCHANGED shots
  PROVE  ThreadsTypeOK' /\ SessionInHand'
<1>1. pc \in [Threads -> Places] /\ work \in [Threads -> [session : Sessions \cup {None}, cause : CloseCause]]
  BY DEF DaemonOK, EyesTypeOK, ThreadsTypeOK
<1>2. PICK place \in {"ready", "dead"} : /\ work' = [work EXCEPT ![th] = Nothing]
                                         /\ pc' = [pc EXCEPT ![th] = place]
                                         /\ th = "messages" => place = "ready"
  BY DEF returns, raises, goto
<1>3. ThreadsTypeOK'
  <2>1. Nothing \in [session : Sessions \cup {None}, cause : CloseCause]
    BY DEF Nothing, CloseCause
  <2>2. "ready" \in Places /\ "dead" \in Places
    BY DEF Places
  <2>3. QED BY <1>1, <1>2, <2>1, <2>2 DEF ThreadsTypeOK
<1>4. pc'[th] = place /\ \A o \in Threads \ {th} : pc'[o] = pc[o] /\ work'[o] = work[o]
  BY <1>1, <1>2
<1>5. InHand(th)'
  BY <1>4 DEF InHand, SessionPlaces, ClosingPlaces
<1>6. ShotsFit'
  BY <1>2, <1>4 DEF DaemonOK, SessionInHand, ShotsFit, Threads
<1>7. QED BY <1>3, <1>4, <1>5, <1>6, OneThreadMoves

LEMMA ThreadsStay ==
  ASSUME DaemonOK, UNCHANGED <<pc, work, shots>> PROVE ThreadsTypeOK' /\ SessionInHand'
BY DEF DaemonOK, EyesTypeOK, ThreadsTypeOK, SessionInHand, session

\* Where a thread is, it has a session in hand if it will need one.
LEMMA HandFacts ==
  ASSUME DaemonOK, NEW th \in Threads
  PROVE  /\ pc[th] \in SessionPlaces => session(th) \in Sessions
         /\ pc["poller"] \in ClosingPlaces => work["poller"].cause \in CloseCause \ {"owner"}
         /\ work[th].cause \in CloseCause
         /\ pc["messages"] = "writing" => shots < MaxFrames
         /\ pc["messages"] \in {"recording", "reporting"} => shots > 0
         /\ shots \in 0..MaxFrames
BY DEF DaemonOK, SessionInHand, EyesTypeOK, SessionsTypeOK, ThreadsTypeOK, ClosingPlaces, Threads

\* The steps by which either thread closes a session, one by one.
LEMMA ClosingThreads ==
  ASSUME DaemonOK, NEW th \in Threads, ClosingSteps(th) PROVE ThreadsTypeOK' /\ SessionInHand'
<1> USE DEF ClosingSteps, StopsLoop, WaitEnds, ClearsLoop, Closes, DeletesFrames, ChecksDirectory,
            AnnouncesClosed
<1>1. pc[th] \in ClosingPlaces
  BY DEF RemovesDirectory, Forgets, at, ClosingPlaces
<1>2. ClosingPlaces \subseteq Places /\ ClosingPlaces \subseteq SessionPlaces
      /\ ClosingPlaces \cap {"writing", "recording", "reporting"} = {}
  BY DEF ClosingPlaces, SessionPlaces, Places
<1>3. session(th) \in Sessions /\ (th = "poller" => work[th].cause # "owner")
  BY <1>1, <1>2, HandFacts
<1>4. CASE Forgets(th) \/ (RemovesDirectory(th) /\ raises(th))
  BY <1>4, ThreadEnds DEF Forgets, RemovesDirectory
<1>5. CASE ~(Forgets(th) \/ (RemovesDirectory(th) /\ raises(th)))
  <2>1. PICK place \in ClosingPlaces : goto(th, place) /\ UNCHANGED <<work, shots>>
    BY <1>5 DEF RemovesDirectory, sessionVars, ClosingPlaces
  <2>2. QED BY <1>2, <1>3, <2>1, ThreadGoes
<1>6. QED BY <1>4, <1>5

LEMMA ThreadsStep ==
  ASSUME DaemonOK, EyesNext PROVE ThreadsTypeOK' /\ SessionInHand'
<1>1. /\ "messages" \in Threads /\ "poller" \in Threads /\ {"owner", "idle", "cap"} = CloseCause
      /\ {"confirming", "opening", "holding", "reading", "writing", "recording", "reporting", "stopping",
          "unholding"} \subseteq Places
      /\ "stopping" \in ClosingPlaces
      /\ {"reading", "writing", "recording", "reporting"} \subseteq SessionPlaces
      /\ holder \in Sessions \cup {None} /\ None \notin Sessions
  BY DEF Threads, CloseCause, Places, ClosingPlaces, SessionPlaces, DaemonOK, EyesTypeOK, SessionsTypeOK, None,
         Sessions
<1>2. CASE HandlesArm
  <2>1. CASE ArmLooks
    BY <1>1, <2>1, ThreadTakes DEF ArmLooks, Usable, sessionVars
  <2>2. CASE ArmConfirms \/ ArmFails \/ ArmHolds
    BY <1>1, <2>2, ThreadEnds DEF ArmConfirms, ArmFails, ArmHolds, sessionVars
  <2>3. CASE ArmOpens
    <3>1. opened + 1 \in Sessions
      BY <2>3, EyesAssumption DEF ArmOpens, DaemonOK, EyesTypeOK, SessionsTypeOK, Sessions
    <3>2. QED BY <1>1, <2>3, <3>1, ThreadTakes DEF ArmOpens
  <2>4. QED BY <1>2, <2>1, <2>2, <2>3 DEF HandlesArm
<1>3. CASE HandlesCapture
  <2>1. CASE CaptureLooks
    <3>1. CASE Usable(holder)
      BY <1>1, <2>1, <3>1, ThreadTakes DEF CaptureLooks, Usable, sessionVars
    <3>2. CASE ~Usable(holder)
      BY <1>1, <2>1, <3>2, ThreadsStay DEF CaptureLooks, sessionVars
    <3>3. QED BY <3>1, <3>2
  <2>2. CASE CaptureReads
    <3>1. session("messages") \in Sessions
      BY <1>1, <2>2, HandFacts DEF CaptureReads, at
    <3>2. CASE goto("messages", "writing") /\ shots < MaxFrames /\ UNCHANGED <<work, shots>>
      BY <1>1, <3>1, <3>2, ThreadGoes
    <3>3. CASE returns("messages")
      BY <1>1, <2>2, <3>3, ThreadEnds DEF CaptureReads
    <3>4. QED BY <2>2, <3>2, <3>3 DEF CaptureReads
  <2>3. CASE CaptureWrites
    <3>1. CASE framesDir[session("messages")]
      <4>1. session("messages") \in Sessions /\ shots \in Nat
        BY <1>1, <2>3, HandFacts DEF CaptureWrites, at
      <4>2. goto("messages", "recording") /\ UNCHANGED work /\ shots' > 0
        BY <2>3, <3>1, <4>1 DEF CaptureWrites
      <4>3. QED BY <1>1, <4>1, <4>2, ThreadGoes
    <3>2. CASE ~framesDir[session("messages")]
      BY <1>1, <2>3, <3>2, ThreadEnds DEF CaptureWrites
    <3>3. QED BY <3>1, <3>2
  <2>4. CASE CaptureRecords
    <3>1. session("messages") \in Sessions /\ shots > 0
      BY <1>1, <2>4, HandFacts DEF CaptureRecords, at
    <3>2. goto("messages", "reporting") /\ UNCHANGED <<work, shots>>
      BY <2>4 DEF CaptureRecords
    <3>3. QED BY <1>1, <3>1, <3>2, ThreadGoes
  <2>5. CASE CaptureReports
    BY <1>1, <2>5, ThreadEnds DEF CaptureReports, sessionVars
  <2>6. QED BY <1>3, <2>1, <2>2, <2>3, <2>4, <2>5 DEF HandlesCapture
<1>4. CASE CloseLooks
  <2>1. CASE holder # None /\ ~closed[holder]
    BY <1>1, <1>4, <2>1, ThreadTakes DEF CloseLooks, sessionVars
  <2>2. CASE ~(holder # None /\ ~closed[holder])
    BY <1>4, <2>2, ThreadsStay DEF CloseLooks, sessionVars
  <2>3. QED BY <2>1, <2>2
<1>5. CASE ClosingSteps("messages") \/ ClosingSteps("poller")
  BY <1>1, <1>5, ClosingThreads
<1>6. CASE PollerFinds
  <2>1. due[holder] \in CloseCause \ {"owner"}
    BY <1>1, <1>6 DEF PollerFinds, DaemonOK, EyesTypeOK, SessionsTypeOK
  <2>2. QED BY <1>1, <1>6, <2>1, ThreadTakes DEF PollerFinds, sessionVars
<1>7. CASE GestureStop
  <2>1. CASE gestures = None
    BY <1>7, <2>1, ThreadsStay DEF GestureStop, sessionVars
  <2>2. CASE gestures # None
    <3>1. goto("messages", "unholding") /\ UNCHANGED <<work, shots>>
      BY <1>7, <2>2 DEF GestureStop, sessionVars
    <3>2. "unholding" \notin SessionPlaces
      BY DEF SessionPlaces, ClosingPlaces
    <3>3. QED BY <1>1, <3>1, <3>2, ThreadGoes
  <2>3. QED BY <2>1, <2>2
<1>8. CASE GestureForgotten
  <2>1. goto("messages", "ready") /\ UNCHANGED <<work, shots>>
    BY <1>8 DEF GestureForgotten, sessionVars
  <2>2. "ready" \notin SessionPlaces /\ "ready" \in Places
    BY DEF SessionPlaces, ClosingPlaces, Places
  <2>3. QED BY <1>1, <2>1, <2>2, ThreadGoes
<1>9. CASE UNCHANGED <<pc, work, shots>>
  BY <1>9, ThreadsStay
<1>10. ASSUME GestureStart \/ (\E l \in Loops : LoopRuns(l)) \/ (\E s \in Sessions : TimeoutPasses(s))
       PROVE  UNCHANGED <<pc, work, shots>>
  BY <1>10 DEF GestureStart, LoopRuns, LoopStarts, LoopTurns, LoopReads, LoopLooksUp, LoopDrops,
               TimeoutPasses, sessionVars
<1>11. QED
  BY <1>2, <1>3, <1>4, <1>5, <1>6, <1>7, <1>8, <1>9, <1>10
  DEF EyesNext, handle_message, check_timeouts_forever

\* No step of the daemon but these changes what it keeps of its sessions.
SessionSteps ==
  \/ ArmOpens \/ ArmHolds \/ CaptureReads \/ CaptureWrites \/ CaptureRecords
  \/ \E th \in Threads : Closes(th) \/ DeletesFrames(th) \/ RemovesDirectory(th) \/ Forgets(th)
  \/ \E l \in Loops : LoopReads(l)
  \/ \E s \in Sessions : TimeoutPasses(s)

LEMMA OtherStepsKeepSessions ==
  ASSUME EyesNext, ~SessionSteps PROVE UNCHANGED sessionVars
<1>1. CASE HandlesArm \/ HandlesCapture \/ CloseLooks \/ PollerFinds \/ GestureStart \/ GestureStop
           \/ GestureForgotten
  BY <1>1 DEF SessionSteps, HandlesArm, ArmLooks, ArmConfirms, ArmFails, HandlesCapture, CaptureLooks,
              CaptureReports, CloseLooks, PollerFinds, GestureStart, GestureStop, GestureForgotten
<1>2. ASSUME NEW th \in Threads, ClosingSteps(th) PROVE UNCHANGED sessionVars
  BY <1>2 DEF SessionSteps, ClosingSteps, StopsLoop, WaitEnds, ClearsLoop, ChecksDirectory, AnnouncesClosed
<1>3. ASSUME NEW l \in Loops, LoopRuns(l) PROVE UNCHANGED sessionVars
  BY <1>3 DEF SessionSteps, LoopRuns, LoopStarts, LoopTurns, LoopLooksUp, LoopDrops
<1>4. QED
  BY <1>1, <1>2, <1>3 DEF EyesNext, handle_message, check_timeouts_forever, SessionSteps, Threads

LEMMA StillUsedType ==
  ASSUME DaemonOK, NEW s, StillUsed(s) PROVE due' \in [Sessions -> {"no", "idle", "cap"}]
BY DEF DaemonOK, EyesTypeOK, SessionsTypeOK, StillUsed

LEMMA SessionsStep ==
  ASSUME DaemonOK, EyesNext PROVE SessionsTypeOK'
<1> USE DEF DaemonOK, EyesTypeOK, SessionsTypeOK
<1>1. CASE ArmOpens
  <2>1. opened + 1 \in 0..MaxSessions
    BY <1>1, EyesAssumption DEF ArmOpens
  <2>2. QED BY <1>1, <2>1 DEF ArmOpens
<1>2. CASE ArmHolds
  <2>1. session("messages") \in Sessions
    BY <1>2, HandFacts DEF ArmHolds, at, Threads, SessionPlaces
  <2>2. QED BY <1>2, <2>1 DEF ArmHolds
<1>3. CASE CaptureReads
  BY <1>3 DEF CaptureReads
<1>4. CASE CaptureWrites
  <2>1. shots < MaxFrames /\ session("messages") \in Sessions
    BY <1>4, HandFacts DEF CaptureWrites, at, Threads, SessionPlaces
  <2>2. shots + 1 \in 0..MaxFrames /\ shots + 1 \in 1..MaxFrames
    BY <2>1, EyesAssumption
  <2>3. CASE framesDir[session("messages")]
    BY <1>4, <2>2, <2>3 DEF CaptureWrites
  <2>4. CASE ~framesDir[session("messages")]
    BY <1>4, <2>4 DEF CaptureWrites
  <2>5. QED BY <2>3, <2>4
<1>5. CASE CaptureRecords
  <2>1. shots \in 1..MaxFrames
    BY <1>5, HandFacts, EyesAssumption DEF CaptureRecords, at, Threads
  <2>2. frames' \in [Sessions -> SUBSET (1..MaxFrames)]
    BY <1>5, <2>1 DEF CaptureRecords
  <2>3. due' \in [Sessions -> {"no", "idle", "cap"}]
    BY <1>5, StillUsedType DEF CaptureRecords
  <2>4. QED BY <1>5, <2>2, <2>3 DEF CaptureRecords
<1>6. ASSUME NEW th \in Threads, Closes(th) PROVE SessionsTypeOK'
  <2>1. CASE closed[session(th)]
    BY <1>6, <2>1 DEF Closes
  <2>2. CASE ~closed[session(th)]
    <3>1. session(th) \in Sessions
      BY <1>6, HandFacts DEF Closes, at, SessionPlaces, ClosingPlaces
    <3>2. doomed' \in [Sessions -> SUBSET (1..MaxFrames)]
      BY <1>6, <2>2, <3>1 DEF Closes
    <3>3. QED BY <1>6, <2>2, <3>2 DEF Closes
  <2>3. QED BY <2>1, <2>2
<1>7. ASSUME NEW th \in Threads, DeletesFrames(th) PROVE SessionsTypeOK'
  BY <1>7 DEF DeletesFrames
<1>8. ASSUME NEW th \in Threads, RemovesDirectory(th) \/ Forgets(th) PROVE SessionsTypeOK'
  BY <1>8 DEF RemovesDirectory, Forgets
<1>9. ASSUME NEW l \in Loops, LoopReads(l) PROVE SessionsTypeOK'
  <2>1. due' \in [Sessions -> {"no", "idle", "cap"}]
    BY <1>9, StillUsedType DEF LoopReads
  <2>2. QED BY <1>9, <2>1 DEF LoopReads
<1>10. ASSUME NEW s \in Sessions, TimeoutPasses(s) PROVE SessionsTypeOK'
  BY <1>10 DEF TimeoutPasses
<1>11. CASE ~SessionSteps
  BY <1>11, OtherStepsKeepSessions DEF sessionVars
<1>12. QED
  BY <1>1, <1>2, <1>3, <1>4, <1>5, <1>6, <1>7, <1>8, <1>9, <1>10, <1>11 DEF SessionSteps

LEMMA GesturesStep ==
  ASSUME DaemonOK, EyesNext PROVE GesturesTypeOK'
<1> USE DEF DaemonOK, EyesTypeOK, GesturesTypeOK
<1>1. CASE UNCHANGED gestureVars
  BY <1>1 DEF gestureVars
<1>2. CASE GestureStart
  <2>1. CASE loops < MaxLoops /\ UNCHANGED holder /\ loops' = loops + 1
             /\ loopOf' = [loopOf EXCEPT ![loops + 1] = holder]
    <3>1. loops + 1 \in Loops /\ loops + 1 \in 0..MaxLoops /\ holder \in Sessions \cup {None}
      BY <2>1, EyesAssumption DEF Loops, SessionsTypeOK
    <3>2. loopOf' \in [Loops -> Sessions \cup {None}]
      BY <2>1, <3>1
    <3>3. QED BY <1>2, <2>1, <3>1, <3>2 DEF GestureStart, gestureVars, LoopPlaces
  <2>2. QED BY <1>1, <1>2, <2>1 DEF GestureStart, sessionVars
<1>3. CASE GestureStop
  BY <1>3 DEF GestureStop
<1>4. CASE GestureForgotten
  BY <1>4 DEF GestureForgotten
<1>5. ASSUME NEW th \in Threads, ClosingSteps(th) PROVE GesturesTypeOK'
  BY <1>1, <1>5 DEF ClosingSteps, StopsLoop, WaitEnds, ClearsLoop, Closes, DeletesFrames, ChecksDirectory,
                    RemovesDirectory, AnnouncesClosed, Forgets, gestureVars
<1>6. ASSUME NEW l \in Loops, LoopRuns(l) PROVE GesturesTypeOK'
  BY <1>6 DEF LoopRuns, LoopStarts, LoopTurns, LoopReads, LoopLooksUp, LoopDrops, LoopPlaces
<1>7. CASE HandlesArm
  BY <1>1, <1>7 DEF HandlesArm, ArmLooks, ArmConfirms, ArmOpens, ArmFails, ArmHolds
<1>8. CASE HandlesCapture
  BY <1>1, <1>8 DEF HandlesCapture, CaptureLooks, CaptureReads, CaptureWrites, CaptureRecords, CaptureReports
<1>9. CASE CloseLooks \/ PollerFinds \/ \E s \in Sessions : TimeoutPasses(s)
  BY <1>1, <1>9 DEF CloseLooks, PollerFinds, TimeoutPasses
<1>10. QED
  BY <1>2, <1>3, <1>4, <1>5, <1>6, <1>7, <1>8, <1>9
  DEF EyesNext, handle_message, check_timeouts_forever, Threads
-----------------------------------------------------------------------------
(***************************************************************************)
(* What a step of the daemon sends to core: a frame only just captured,    *)
(* and what answers no request unless the thread that serves one sent it.  *)
(***************************************************************************)
GivesUp == <<GestureError, GestureStopped("error")>>

NoAnswer(e) == e \in EyesEvents /\ (Spontaneous(e) \/ ~IsReply(e))

SendsNoAnswer ==
  \/ toCore' = toCore
  \/ \E e \in EyesEvents : NoAnswer(e) /\ toCore' = Append(toCore, e)
  \/ toCore' = toCore \o GivesUp

SendsAnswer ==
  \E e \in EyesEvents :
    /\ e.type = "camera.captured" => e.frame = shots /\ pc["messages"] = "reporting"
    /\ toCore' = Append(toCore, e)

LEMMA PollerSends ==
  ASSUME DaemonOK, check_timeouts_forever PROVE SendsNoAnswer
<1>1. CASE AnnouncesClosed("poller")
  <2>1. pc["poller"] \in ClosingPlaces \cap SessionPlaces /\ "poller" \in Threads
    BY <1>1 DEF AnnouncesClosed, at, ClosingPlaces, SessionPlaces, Threads
  <2>2. session("poller") \in Sessions /\ work["poller"].cause \in CloseCause \ {"owner"}
    BY <2>1, HandFacts
  <2>3. NoAnswer(Closed(session("poller"), work["poller"].cause))
    BY <2>2, EventsAreEvents, SpontaneousFacts DEF NoAnswer
  <2>4. QED BY <1>1, <2>3 DEF AnnouncesClosed, emit, SendsNoAnswer, NoAnswer
<1>2. CASE ~AnnouncesClosed("poller")
  BY <1>2 DEF check_timeouts_forever, PollerFinds, ClosingSteps, StopsLoop, WaitEnds, ClearsLoop,
              Closes, DeletesFrames, ChecksDirectory, RemovesDirectory, Forgets, SendsNoAnswer
<1>3. QED BY <1>1, <1>2

LEMMA LoopSends ==
  ASSUME NEW l \in Loops, LoopRuns(l) PROVE SendsNoAnswer
<1>1. \A c \in {"owner", "idle", "error"} : NoAnswer(GestureStopped(c))
  BY EventsAreEvents, SpontaneousFacts DEF NoAnswer
<1>2. QED
  BY <1>1 DEF LoopRuns, LoopStarts, LoopTurns, LoopReads, LoopLooksUp, LoopDrops, emit, SendsNoAnswer,
              NoAnswer, GivesUp

LEMMA GestureSends ==
  ASSUME GestureStart \/ GestureStop \/ GestureForgotten PROVE SendsNoAnswer
<1>1. NoAnswer(GestureStarted) /\ NoAnswer(GestureError)
  BY EventsAreEvents, SpontaneousFacts DEF NoAnswer
<1>2. QED
  BY <1>1 DEF GestureStart, GestureStop, GestureForgotten, emit, SendsNoAnswer, NoAnswer

(***************************************************************************)
(* The four kinds of step the daemon has, for core: of no consequence; the *)
(* answer to the request being served; a request taken off the socket, and *)
(* answered at once or not yet; or one of the hand tracking's.             *)
(***************************************************************************)
Quiet == toEyes' = toEyes /\ (Serving' => Serving) /\ SendsNoAnswer

Answers == toEyes' = toEyes /\ Serving /\ ~Serving' /\ SendsAnswer

TakesRequest ==
  /\ \E q \in {"arm", "capture", "close"} : receive(q)
  /\ toCore' = toCore \/ (~Serving' /\ SendsAnswer)

TakesGesture ==
  /\ \E q \in {"gesture.start", "gesture.stop"} : receive(q)
  /\ ~Serving' /\ SendsNoAnswer

LEMMA RequestTaken ==
  ASSUME DaemonOK, ArmLooks \/ CaptureLooks \/ CloseLooks PROVE TakesRequest
<1>1. CASE toCore' = toCore
  BY <1>1 DEF ArmLooks, CaptureLooks, CloseLooks, TakesRequest
<1>2. CASE toCore' # toCore
  <2>1. receive("capture") /\ emit(Error) /\ UNCHANGED pc
    BY <1>2 DEF ArmLooks, CaptureLooks, CloseLooks
  <2>2. Error \in EyesEvents /\ Error.type # "camera.captured"
    BY EventsAreEvents DEF Error
  <2>3. ~Serving'
    BY <2>1 DEF receive, at, Serving
  <2>4. QED BY <2>1, <2>2, <2>3 DEF emit, SendsAnswer, TakesRequest
<1>3. QED BY <1>1, <1>2

LEMMA RequestServed ==
  ASSUME DaemonOK, ArmConfirms \/ ArmOpens \/ ArmFails \/ ArmHolds \/ CaptureReads \/ CaptureWrites
                     \/ CaptureRecords \/ CaptureReports \/ ClosingSteps("messages")
  PROVE  Quiet \/ Answers
<1>1. pc \in [Threads -> Places] /\ "messages" \in Threads /\ "ready" \in Places
  BY DEF DaemonOK, EyesTypeOK, ThreadsTypeOK, Threads, Places
<1>2. toEyes' = toEyes
  BY DEF ArmConfirms, ArmOpens, ArmFails, ArmHolds, CaptureReads, CaptureWrites, CaptureRecords,
         CaptureReports, ClosingSteps, StopsLoop, WaitEnds, ClearsLoop, Closes, DeletesFrames,
         ChecksDirectory, RemovesDirectory, AnnouncesClosed, Forgets
<1>3. CASE AnnouncesClosed("messages")
  <2>1. Serving /\ session("messages") \in Sessions /\ work["messages"].cause \in CloseCause
    BY <1>1, <1>3, HandFacts DEF AnnouncesClosed, at, ClosingPlaces, SessionPlaces, Serving
  <2>2. ~Serving'
    BY <1>1, <1>3 DEF AnnouncesClosed, goto, Serving
  <2>3. SendsAnswer
    <3>1. Closed(session("messages"), work["messages"].cause) \in EyesEvents
      BY <2>1, EventsAreEvents
    <3>2. Closed(session("messages"), work["messages"].cause).type # "camera.captured"
      BY DEF Closed
    <3>3. QED BY <1>3, <3>1, <3>2 DEF AnnouncesClosed, emit, SendsAnswer
  <2>4. QED BY <1>2, <2>1, <2>2, <2>3 DEF Answers
<1>4. CASE ClosingSteps("messages") /\ ~AnnouncesClosed("messages")
  <2>1. toCore' = toCore
    BY <1>4 DEF ClosingSteps, StopsLoop, WaitEnds, ClearsLoop, Closes, DeletesFrames, ChecksDirectory,
                RemovesDirectory, Forgets
  <2>2. Serving' => Serving
    BY <1>1, <1>4 DEF ClosingSteps, StopsLoop, WaitEnds, ClearsLoop, Closes, DeletesFrames,
                      ChecksDirectory, RemovesDirectory, Forgets, at, goto, returns, raises, Serving
  <2>3. QED BY <1>2, <2>1, <2>2 DEF Quiet, SendsNoAnswer
<1>5. CASE ArmOpens
  BY <1>1, <1>2, <1>5 DEF ArmOpens, at, Serving, Quiet, SendsNoAnswer
<1>6. CASE ArmConfirms \/ ArmFails \/ ArmHolds
  <2>1. Serving /\ returns("messages")
    BY <1>6 DEF ArmConfirms, ArmFails, ArmHolds, at, Serving
  <2>2. ~Serving'
    BY <1>1, <2>1 DEF returns, goto, Serving
  <2>3. PICK e \in EyesEvents : emit(e) /\ e.type # "camera.captured"
    <3>1. pc["messages"] \in {"confirming", "holding"} => session("messages") \in Sessions
      BY <1>1, HandFacts DEF SessionPlaces
    <3>2. Error \in EyesEvents /\ Error.type # "camera.captured"
      BY EventsAreEvents DEF Error
    <3>3. \A s \in Sessions : Armed(s) \in EyesEvents /\ Armed(s).type # "camera.captured"
      BY EventsAreEvents DEF Armed
    <3>4. QED BY <1>6, <3>1, <3>2, <3>3 DEF ArmConfirms, ArmFails, ArmHolds, at
  <2>4. QED BY <1>2, <2>1, <2>2, <2>3 DEF emit, SendsAnswer, Answers
<1>7. CASE CaptureReads
  <2>1. CASE goto("messages", "writing") /\ toCore' = toCore
    BY <1>2, <1>7, <2>1 DEF CaptureReads, at, Serving, Quiet, SendsNoAnswer
  <2>2. CASE emit(Error) /\ returns("messages")
    <3>1. Serving /\ ~Serving'
      BY <1>1, <1>7, <2>2 DEF CaptureReads, at, returns, goto, Serving
    <3>2. Error \in EyesEvents /\ Error.type # "camera.captured"
      BY EventsAreEvents DEF Error
    <3>3. QED BY <1>2, <2>2, <3>1, <3>2 DEF emit, SendsAnswer, Answers
  <2>3. QED BY <1>7, <2>1, <2>2 DEF CaptureReads
<1>8. CASE CaptureWrites \/ CaptureRecords
  <2>1. Serving /\ toCore' = toCore
    BY <1>1, <1>8 DEF CaptureWrites, CaptureRecords, at, Serving
  <2>2. QED BY <1>2, <2>1 DEF Quiet, SendsNoAnswer
<1>9. CASE CaptureReports
  <2>1. Serving /\ ~Serving'
    BY <1>1, <1>9 DEF CaptureReports, at, returns, goto, Serving
  <2>2. session("messages") \in Sessions /\ shots \in 1..MaxFrames
    BY <1>1, <1>9, HandFacts, EyesAssumption DEF CaptureReports, at, SessionPlaces
  <2>3. /\ Captured(session("messages"), shots) \in EyesEvents
        /\ Captured(session("messages"), shots).frame = shots
    BY <2>2, EventsAreEvents DEF Captured
  <2>4. QED BY <1>2, <1>9, <2>1, <2>3 DEF CaptureReports, at, emit, SendsAnswer, Answers
<1>10. QED BY <1>3, <1>4, <1>5, <1>6, <1>7, <1>8, <1>9

LEMMA DaemonStep ==
  ASSUME DaemonOK, EyesNext PROVE Quiet \/ Answers \/ TakesRequest \/ TakesGesture
<1>1. pc \in [Threads -> Places] /\ "messages" \in Threads /\ "unholding" \in Places
  BY DEF DaemonOK, EyesTypeOK, ThreadsTypeOK, Threads, Places
<1>2. CASE ArmLooks \/ CaptureLooks \/ CloseLooks
  BY <1>2, RequestTaken
<1>3. CASE ArmConfirms \/ ArmOpens \/ ArmFails \/ ArmHolds \/ CaptureReads \/ CaptureWrites
             \/ CaptureRecords \/ CaptureReports \/ ClosingSteps("messages")
  BY <1>3, RequestServed
<1>4. CASE check_timeouts_forever
  <2>1. toEyes' = toEyes /\ \A place \in Places : pc["messages"] = place => pc'["messages"] = place
    BY <1>1, <1>4 DEF check_timeouts_forever, PollerFinds, ClosingSteps, StopsLoop, WaitEnds, ClearsLoop,
                      Closes, DeletesFrames, ChecksDirectory, RemovesDirectory, AnnouncesClosed, Forgets,
                      takes, returns, raises, goto
  <2>2. QED BY <1>1, <1>4, <2>1, PollerSends DEF Serving, Quiet
<1>5. CASE GestureStart \/ GestureStop
  <2>1. \E q \in {"gesture.start", "gesture.stop"} : receive(q)
    BY <1>5 DEF GestureStart, GestureStop
  <2>2. ~Serving'
    BY <1>1, <1>5 DEF GestureStart, GestureStop, receive, at, goto, Serving
  <2>3. QED BY <1>5, <2>1, <2>2, GestureSends DEF TakesGesture
<1>6. CASE GestureForgotten
  BY <1>1, <1>6, GestureSends DEF GestureForgotten, at, goto, Serving, Quiet
<1>7. ASSUME NEW l \in Loops, LoopRuns(l) PROVE Quiet
  <2>1. toEyes' = toEyes /\ pc' = pc
    BY <1>7 DEF LoopRuns, LoopStarts, LoopTurns, LoopReads, LoopLooksUp, LoopDrops
  <2>2. QED BY <1>7, <2>1, LoopSends DEF Serving, Quiet
<1>8. ASSUME NEW s \in Sessions, TimeoutPasses(s) PROVE Quiet
  BY <1>8 DEF TimeoutPasses, Serving, Quiet, SendsNoAnswer
<1>9. QED
  BY <1>2, <1>3, <1>4, <1>5, <1>6, <1>7, <1>8
  DEF EyesNext, handle_message, HandlesArm, HandlesCapture
-----------------------------------------------------------------------------
(***************************************************************************)
(* What a socket holds once an item is sent on it or taken off it.         *)
(***************************************************************************)
LEMMA TakenOff ==
  ASSUME NEW T, NEW q \in Seq(T), q # <<>>
  PROVE  /\ Tail(q) \in Seq(T) /\ Head(q) \in T
         /\ 1 \in DOMAIN q /\ q[1] = Head(q)
         /\ \A n \in DOMAIN Tail(q) :
              n \in Nat /\ n # 0 /\ n + 1 \in DOMAIN q /\ Tail(q)[n] = q[n + 1]
OBVIOUS

LEMMA PutOn ==
  ASSUME NEW T, NEW q \in Seq(T), NEW e \in T
  PROVE  /\ Append(q, e) \in Seq(T)
         /\ \A n \in DOMAIN Append(q, e) :
              \/ n \in DOMAIN q /\ Append(q, e)[n] = q[n]
              \/ n = Len(q) + 1 /\ Append(q, e)[n] = e
OBVIOUS

LEMMA PutOnTwo ==
  ASSUME NEW T, NEW q \in Seq(T), NEW e \in T, NEW f \in T
  PROVE  /\ q \o <<e, f>> \in Seq(T)
         /\ \A n \in DOMAIN (q \o <<e, f>>) :
              \/ n \in DOMAIN q /\ (q \o <<e, f>>)[n] = q[n]
              \/ (q \o <<e, f>>)[n] \in {e, f}
OBVIOUS

LEMMA RequestTakenOff ==
  ASSUME NEW T, NEW q \in Seq(T), q # <<>>
  PROVE  /\ \A n \in RequestsIn(Tail(q)) : n \in Nat /\ n # 0 /\ n + 1 \in RequestsIn(q)
         /\ Head(q) \in {"arm", "capture", "close"} => 1 \in RequestsIn(q)
BY TakenOff DEF RequestsIn

LEMMA AnswerTakenOff ==
  ASSUME NEW T, NEW q \in Seq(T), q # <<>>
  PROVE  /\ \A n \in AnswersIn(Tail(q)) : n \in Nat /\ n # 0 /\ n + 1 \in AnswersIn(q)
         /\ IsReply(Head(q)) /\ ~Spontaneous(Head(q)) => 1 \in AnswersIn(q)
BY TakenOff DEF AnswersIn

LEMMA RequestPutOn ==
  ASSUME NEW T, NEW q \in Seq(T), NEW e \in T
  PROVE  /\ RequestsIn(Append(q, e)) \subseteq RequestsIn(q) \cup {Len(q) + 1}
         /\ e \notin {"arm", "capture", "close"} => RequestsIn(Append(q, e)) \subseteq RequestsIn(q)
<1>1. ASSUME NEW n \in RequestsIn(Append(q, e))
      PROVE  n \in RequestsIn(q) \/ (n = Len(q) + 1 /\ e \in {"arm", "capture", "close"})
  BY PutOn DEF RequestsIn
<1>2. QED BY <1>1

LEMMA AnswerPutOn ==
  ASSUME NEW T, NEW q \in Seq(T), NEW e \in T
  PROVE  /\ AnswersIn(Append(q, e)) \subseteq AnswersIn(q) \cup {Len(q) + 1}
         /\ Spontaneous(e) \/ ~IsReply(e) => AnswersIn(Append(q, e)) \subseteq AnswersIn(q)
<1>1. ASSUME NEW n \in AnswersIn(Append(q, e))
      PROVE  n \in AnswersIn(q) \/ (n = Len(q) + 1 /\ IsReply(e) /\ ~Spontaneous(e))
  BY PutOn DEF AnswersIn
<1>2. QED BY <1>1
-----------------------------------------------------------------------------
(***************************************************************************)
(* The wire to core, after a step of the daemon.                           *)
(***************************************************************************)
LEMMA NoAnswerAdded ==
  ASSUME WiresTypeOK, SendsNoAnswer
  PROVE  /\ toCore' \in Seq(EyesEvents)
         /\ AnswersIn(toCore') \subseteq AnswersIn(toCore)
         /\ \A n \in DOMAIN toCore' : toCore'[n].type = "camera.captured" =>
              n \in DOMAIN toCore /\ toCore'[n] = toCore[n]
<1>1. toCore \in Seq(EyesEvents)
  BY DEF WiresTypeOK
<1>2. CASE toCore' = toCore
  BY <1>1, <1>2
<1>3. ASSUME NEW e \in EyesEvents, NoAnswer(e), toCore' = Append(toCore, e)
      PROVE  /\ toCore' \in Seq(EyesEvents)
             /\ AnswersIn(toCore') \subseteq AnswersIn(toCore)
             /\ \A n \in DOMAIN toCore' : toCore'[n].type = "camera.captured" =>
                  n \in DOMAIN toCore /\ toCore'[n] = toCore[n]
  <2>1. Spontaneous(e) \/ ~IsReply(e)
    BY <1>3 DEF NoAnswer
  <2>2. e.type # "camera.captured"
    BY <2>1 DEF Spontaneous, IsReply, GestureError
  <2>3. AnswersIn(Append(toCore, e)) \subseteq AnswersIn(toCore)
    BY <1>1, <2>1, AnswerPutOn
  <2>4. /\ Append(toCore, e) \in Seq(EyesEvents)
        /\ \A n \in DOMAIN Append(toCore, e) :
              \/ n \in DOMAIN toCore /\ Append(toCore, e)[n] = toCore[n]
              \/ n = Len(toCore) + 1 /\ Append(toCore, e)[n] = e
    BY <1>1, PutOn
  <2>5. QED BY <1>3, <2>2, <2>3, <2>4
<1>4. CASE toCore' = toCore \o GivesUp
  <2>1. /\ GestureError \in EyesEvents /\ GestureStopped("error") \in EyesEvents
        /\ \A e \in {GestureError, GestureStopped("error")} :
             (Spontaneous(e) \/ ~IsReply(e)) /\ e.type # "camera.captured"
    BY EventsAreEvents, SpontaneousFacts DEF GestureError, GestureStopped
  <2>2. /\ toCore' \in Seq(EyesEvents)
        /\ \A n \in DOMAIN toCore' :
             \/ n \in DOMAIN toCore /\ toCore'[n] = toCore[n]
             \/ toCore'[n] \in {GestureError, GestureStopped("error")}
    BY <1>1, <1>4, <2>1, PutOnTwo DEF GivesUp
  <2>3. AnswersIn(toCore') \subseteq AnswersIn(toCore)
    BY <2>1, <2>2 DEF AnswersIn
  <2>4. QED BY <2>1, <2>2, <2>3
<1>5. QED BY <1>2, <1>3, <1>4 DEF SendsNoAnswer

LEMMA AnswerAdded ==
  ASSUME WiresTypeOK, SendsAnswer
  PROVE  /\ toCore' \in Seq(EyesEvents)
         /\ AnswersIn(toCore') \subseteq AnswersIn(toCore) \cup {Len(toCore) + 1}
         /\ \A n \in DOMAIN toCore' : toCore'[n].type = "camera.captured" =>
              \/ n \in DOMAIN toCore /\ toCore'[n] = toCore[n]
              \/ toCore'[n].frame = shots /\ pc["messages"] = "reporting"
<1>1. toCore \in Seq(EyesEvents)
  BY DEF WiresTypeOK
<1>2. PICK e \in EyesEvents :
        /\ e.type = "camera.captured" => e.frame = shots /\ pc["messages"] = "reporting"
        /\ toCore' = Append(toCore, e)
  BY DEF SendsAnswer
<1>3. AnswersIn(Append(toCore, e)) \subseteq AnswersIn(toCore) \cup {Len(toCore) + 1}
  BY <1>1, AnswerPutOn
<1>4. /\ Append(toCore, e) \in Seq(EyesEvents)
      /\ \A n \in DOMAIN Append(toCore, e) :
            \/ n \in DOMAIN toCore /\ Append(toCore, e)[n] = toCore[n]
            \/ n = Len(toCore) + 1 /\ Append(toCore, e)[n] = e
  BY <1>1, PutOn
<1>5. QED BY <1>2, <1>3, <1>4

LEMMA RequestGone ==
  ASSUME WiresTypeOK, NEW type, receive(type)
  PROVE  /\ toEyes' \in Seq(Requests)
         /\ \A n \in RequestsIn(toEyes') : n \in Nat /\ n # 0 /\ n + 1 \in RequestsIn(toEyes)
         /\ type \in {"arm", "capture", "close"} => 1 \in RequestsIn(toEyes)
         /\ ~Serving
<1>1. toEyes \in Seq(Requests) /\ toEyes # <<>> /\ toEyes' = Tail(toEyes) /\ Head(toEyes) = type
  BY DEF WiresTypeOK, receive
<1>2. Tail(toEyes) \in Seq(Requests)
  BY <1>1, TakenOff
<1>3. /\ \A n \in RequestsIn(Tail(toEyes)) : n \in Nat /\ n # 0 /\ n + 1 \in RequestsIn(toEyes)
      /\ Head(toEyes) \in {"arm", "capture", "close"} => 1 \in RequestsIn(toEyes)
  BY <1>1, RequestTakenOff
<1>4. ~Serving
  BY DEF receive, at, Serving
<1>5. QED BY <1>1, <1>2, <1>3, <1>4

LEMMA WiresStep ==
  ASSUME DaemonOK, EyesNext PROVE WiresTypeOK'
<1>1. WiresTypeOK
  BY DEF DaemonOK, EyesTypeOK
<1>2. SendsNoAnswer \/ SendsAnswer \/ toCore' = toCore
  BY DaemonStep DEF Quiet, Answers, TakesRequest, TakesGesture
<1>3. toCore' \in Seq(EyesEvents)
  BY <1>1, <1>2, NoAnswerAdded, AnswerAdded DEF WiresTypeOK
<1>4. toEyes' = toEyes \/ \E type : receive(type)
  BY DaemonStep DEF Quiet, Answers, TakesRequest, TakesGesture
<1>5. toEyes' \in Seq(Requests)
  BY <1>1, <1>4, RequestGone DEF WiresTypeOK
<1>6. QED BY <1>3, <1>5 DEF WiresTypeOK

\* Not more than one answer is due, whatever the daemon does.
LEMMA DueKept ==
  ASSUME DaemonOK, OneAnswerDue, EyesNext, UNCHANGED <<pending, crossed>> PROVE OneAnswerDue'
<1> SUFFICES ASSUME ~crossed
             PROVE  /\ pending = Free => RequestsIn(toEyes') = {} /\ ~Serving' /\ AnswersIn(toCore') = {}
                    /\ RequestsIn(toEyes') # {} => ~Serving' /\ AnswersIn(toCore') = {}
                    /\ Serving' => AnswersIn(toCore') = {}
                    /\ \A m, n \in RequestsIn(toEyes') : m = n
                    /\ \A m, n \in AnswersIn(toCore') : m = n
  BY DEF OneAnswerDue
<1>1. WiresTypeOK
  BY DEF DaemonOK, EyesTypeOK
<1>2. /\ pending = Free => RequestsIn(toEyes) = {} /\ ~Serving /\ AnswersIn(toCore) = {}
      /\ RequestsIn(toEyes) # {} => ~Serving /\ AnswersIn(toCore) = {}
      /\ Serving => AnswersIn(toCore) = {}
      /\ \A m, n \in RequestsIn(toEyes) : m = n
      /\ \A m, n \in AnswersIn(toCore) : m = n
  BY DEF OneAnswerDue
<1>3. CASE Quiet
  <2>1. AnswersIn(toCore') \subseteq AnswersIn(toCore)
    BY <1>1, <1>3, NoAnswerAdded DEF Quiet
  <2>2. RequestsIn(toEyes') = RequestsIn(toEyes) /\ (Serving' => Serving)
    BY <1>3 DEF Quiet
  <2>3. QED BY <1>2, <2>1, <2>2
<1>4. CASE Answers
  <2>1. AnswersIn(toCore') \subseteq AnswersIn(toCore) \cup {Len(toCore) + 1}
    BY <1>1, <1>4, AnswerAdded DEF Answers
  <2>2. RequestsIn(toEyes') = RequestsIn(toEyes) /\ Serving /\ ~Serving'
    BY <1>4 DEF Answers
  <2>3. QED BY <1>2, <2>1, <2>2
<1>5. CASE TakesRequest
  <2>1. PICK type \in {"arm", "capture", "close"} : receive(type)
    BY <1>5 DEF TakesRequest
  <2>2. /\ \A n \in RequestsIn(toEyes') : n \in Nat /\ n # 0 /\ n + 1 \in RequestsIn(toEyes)
        /\ 1 \in RequestsIn(toEyes) /\ ~Serving
    BY <1>1, <2>1, RequestGone
  <2>3. RequestsIn(toEyes') = {} /\ AnswersIn(toCore) = {} /\ pending # Free
    BY <1>2, <2>2
  <2>4. CASE toCore' = toCore
    BY <2>3, <2>4
  <2>5. CASE ~Serving' /\ SendsAnswer
    <3>1. AnswersIn(toCore') \subseteq AnswersIn(toCore) \cup {Len(toCore) + 1}
      BY <1>1, <2>5, AnswerAdded
    <3>2. QED BY <2>3, <2>5, <3>1
  <2>6. QED BY <1>5, <2>4, <2>5 DEF TakesRequest
<1>6. CASE TakesGesture
  <2>1. PICK type : receive(type)
    BY <1>6 DEF TakesGesture
  <2>2. \A n \in RequestsIn(toEyes') : n \in Nat /\ n # 0 /\ n + 1 \in RequestsIn(toEyes)
    BY <1>1, <2>1, RequestGone
  <2>3. AnswersIn(toCore') \subseteq AnswersIn(toCore) /\ ~Serving'
    BY <1>1, <1>6, NoAnswerAdded DEF TakesGesture
  <2>4. QED BY <1>2, <2>2, <2>3
<1>7. QED BY <1>3, <1>4, <1>5, <1>6, DaemonStep

-----------------------------------------------------------------------------
(***************************************************************************)
(* Where the threads are, after a step that neither writes nor records a   *)
(* frame, nor closes a session or deletes its frames.                      *)
(***************************************************************************)
FrameSteps ==
  \/ CaptureWrites \/ CaptureRecords
  \/ \E th \in Threads : Closes(th) \/ DeletesFrames(th)

\* A thread that moves is nowhere near the frames, and captures only for a live session.
Unconcerned(th) ==
  \/ pc'[th] = pc[th] /\ work'[th] = work[th]
  \/ /\ pc[th] \notin {"recording", "deleting"} /\ pc'[th] \notin {"recording", "reporting", "deleting"}
     /\ pc'[th] \in {"reading", "writing"} =>
          (pc[th] = "reading" /\ work'[th] = work[th]) \/ ~closed[session(th)']

LEMMA OthersUnconcerned ==
  ASSUME DaemonOK, EyesNext, ~FrameSteps, NEW th \in Threads PROVE Unconcerned(th)
<1>1. /\ pc \in [Threads -> Places] /\ "messages" \in Threads /\ "poller" \in Threads
      /\ work \in [Threads -> [session : Sessions \cup {None}, cause : CloseCause]]
  BY DEF DaemonOK, EyesTypeOK, ThreadsTypeOK, Threads
<1>2. CASE UNCHANGED <<pc, work>>
  BY <1>2 DEF Unconcerned
<1>3. CASE HandlesArm
  BY <1>1, <1>3 DEF HandlesArm, ArmLooks, ArmConfirms, ArmOpens, ArmFails, ArmHolds, receive, takes,
                    returns, goto, at, Unconcerned
<1>4. CASE CaptureLooks
  <2>1. CASE Usable(holder)
    BY <1>1, <1>4, <2>1 DEF CaptureLooks, Usable, receive, takes, goto, at, session, Unconcerned
  <2>2. CASE ~Usable(holder)
    BY <1>2, <1>4, <2>2 DEF CaptureLooks
  <2>3. QED BY <2>1, <2>2
<1>5. CASE CaptureReads \/ CaptureReports
  BY <1>1, <1>5 DEF CaptureReads, CaptureReports, returns, goto, at, Unconcerned
<1>6. CASE CloseLooks
  BY <1>1, <1>2, <1>6 DEF CloseLooks, receive, takes, goto, at, Unconcerned
<1>7. ASSUME NEW o \in Threads, ClosingSteps(o) PROVE Unconcerned(th)
  BY <1>1, <1>7 DEF ClosingSteps, FrameSteps, StopsLoop, WaitEnds, ClearsLoop, ChecksDirectory,
                    RemovesDirectory, AnnouncesClosed, Forgets, returns, raises, goto, at, Unconcerned
<1>8. CASE PollerFinds
  BY <1>1, <1>8 DEF PollerFinds, takes, goto, at, Unconcerned
<1>9. CASE GestureStart \/ GestureStop \/ GestureForgotten
  BY <1>1, <1>2, <1>9 DEF GestureStart, GestureStop, GestureForgotten, receive, goto, at, Unconcerned
<1>10. ASSUME (\E l \in Loops : LoopRuns(l)) \/ (\E r \in Sessions : TimeoutPasses(r))
       PROVE  UNCHANGED <<pc, work>>
  BY <1>10 DEF LoopRuns, LoopStarts, LoopTurns, LoopReads, LoopLooksUp, LoopDrops, TimeoutPasses
<1>11. QED
  BY <1>1, <1>2, <1>3, <1>4, <1>5, <1>6, <1>7, <1>8, <1>9, <1>10
  DEF EyesNext, handle_message, check_timeouts_forever, HandlesCapture, FrameSteps

\* And no such step changes the frames of a session.
LEMMA OthersKeepFrames ==
  ASSUME EyesNext, ~FrameSteps PROVE UNCHANGED <<closed, frames, disk, shots, doomed>>
<1>1. CASE ~SessionSteps
  BY <1>1, OtherStepsKeepSessions DEF sessionVars
<1>2. CASE SessionSteps
  BY <1>2 DEF SessionSteps, FrameSteps, ArmOpens, ArmHolds, CaptureReads, RemovesDirectory, Forgets,
              LoopReads, TimeoutPasses
<1>3. QED BY <1>1, <1>2
-----------------------------------------------------------------------------
\* A frame on its way to core is newer than the request that waits for one.
LEMMA ShotsGrow ==
  ASSUME DaemonOK, EyesNext
  PROVE  /\ shots \in Nat /\ shots' \in Nat /\ shots <= shots'
         /\ pc'["messages"] \in {"recording", "reporting"} =>
              pc["messages"] \in {"recording", "reporting"} \/ shots' > shots
<1>1. shots \in Nat /\ pc \in [Threads -> Places] /\ "messages" \in Threads
  BY EyesAssumption DEF DaemonOK, EyesTypeOK, SessionsTypeOK, ThreadsTypeOK, Threads
<1>2. CASE CaptureWrites \/ CaptureRecords
  BY <1>1, <1>2 DEF CaptureWrites, CaptureRecords, returns, goto, at
<1>3. ASSUME NEW th \in Threads, Closes(th) \/ DeletesFrames(th)
      PROVE  shots' = shots /\ (pc'["messages"] = pc["messages"] \/ pc'["messages"] \in ClosingPlaces)
  BY <1>1, <1>3 DEF Closes, DeletesFrames, goto, ClosingPlaces
<1>4. CASE ~FrameSteps
  BY <1>1, <1>4, OthersUnconcerned, OthersKeepFrames DEF Unconcerned
<1>5. QED BY <1>1, <1>2, <1>3, <1>4 DEF FrameSteps, ClosingPlaces

LEMMA NewerKept ==
  ASSUME DaemonOK, askedAt \in Nat, NothingOld, EyesNext, UNCHANGED <<askedAt, crossed>>
  PROVE  NothingOld'
<1>1. WiresTypeOK
  BY DEF DaemonOK, EyesTypeOK
<1>2. /\ shots \in Nat /\ shots' \in Nat /\ shots <= shots'
      /\ pc'["messages"] \in {"recording", "reporting"} =>
           pc["messages"] \in {"recording", "reporting"} \/ shots' > shots
  BY ShotsGrow
<1>3. SendsNoAnswer \/ SendsAnswer \/ toCore' = toCore
  BY DaemonStep DEF Quiet, Answers, TakesRequest, TakesGesture
<1>4. \A n \in DOMAIN toCore' : toCore'[n].type = "camera.captured" =>
        \/ n \in DOMAIN toCore /\ toCore'[n] = toCore[n]
        \/ toCore'[n].frame = shots /\ pc["messages"] = "reporting"
  BY <1>1, <1>3, NoAnswerAdded, AnswerAdded
<1>5. askedAt <= shots'
  BY <1>2 DEF NothingOld
<1>6. ~crossed /\ pc'["messages"] \in {"recording", "reporting"} => shots' > askedAt
  BY <1>2 DEF NothingOld
<1>7. QED BY <1>4, <1>5, <1>6 DEF NothingOld
-----------------------------------------------------------------------------
(***************************************************************************)
(* The frames on disk.                                                     *)
(***************************************************************************)
\* What FramesAreRecorded says of one session.
Recorded(s) ==
  /\ frames[s] \subseteq 1..shots
  /\ doomed[s] \subseteq frames[s]
  /\ ~FramesAreGone(s) => disk[s] \subseteq frames[s] \cup Unrecorded(s)
  /\ FramesAreGone(s) =>
       /\ doomed[s] \cap disk[s] = {}
       /\ disk[s] = {} \/ (~Capturing(s) /\ \E f \in 1..MaxFrames : disk[s] = {f})

LEMMA FramesFacts ==
  ASSUME DaemonOK
  PROVE  /\ closed \in [Sessions -> BOOLEAN] /\ disk \in [Sessions -> SUBSET (1..MaxFrames)]
         /\ frames \in [Sessions -> SUBSET (1..MaxFrames)] /\ doomed \in [Sessions -> SUBSET (1..MaxFrames)]
         /\ pc \in [Threads -> Places] /\ "messages" \in Threads
         /\ shots \in Nat /\ shots \in 0..MaxFrames /\ MaxFrames \in Nat
BY EyesAssumption DEF DaemonOK, EyesTypeOK, SessionsTypeOK, ThreadsTypeOK, Threads

LEMMA ThreadFacts ==
  ASSUME DaemonOK
  PROVE  /\ pc \in [Threads -> Places]
         /\ work \in [Threads -> [session : Sessions \cup {None}, cause : CloseCause]]
BY DEF DaemonOK, EyesTypeOK, ThreadsTypeOK

LEMMA WriteKeepsRecorded ==
  ASSUME DaemonOK, NEW s \in Sessions, Recorded(s), CaptureWrites PROVE Recorded(s)'
<1>1. /\ session("messages") \in Sessions /\ shots + 1 \in 1..MaxFrames /\ shots \in Nat
  BY HandFacts, FramesFacts DEF CaptureWrites, at, SessionPlaces
<1>2. pc["messages"] = "writing" /\ (pc'["messages"] = "recording" \/ pc'["messages"] = "ready")
  BY FramesFacts DEF CaptureWrites, returns, goto, at
<1>3. FramesAreGone(s)' <=> FramesAreGone(s)
  <2>1. closed' = closed /\ \A o \in Threads \ {"messages"} : pc'[o] = pc[o] /\ work'[o] = work[o]
    BY ThreadFacts DEF CaptureWrites, returns, goto
  <2>2. \A o \in Threads : DeletesNow(o, s)' <=> DeletesNow(o, s)
    BY <1>2, <2>1 DEF DeletesNow, at, session
  <2>3. QED BY <2>1, <2>2 DEF FramesAreGone
<1>4. frames' = frames /\ doomed' = doomed /\ ~Capturing(s)' /\ frames[s] \subseteq 1..shots
  BY <1>2 DEF CaptureWrites, Capturing, Recorded
<1>5. shots' \in Nat /\ shots <= shots' /\ Unrecorded(s) = {}
  BY <1>1, <1>2 DEF CaptureWrites, Unrecorded
<1>6. frames[s] \subseteq 1..shots'
  BY <1>1, <1>4, <1>5
<1>7. CASE disk'[s] = disk[s]
  BY <1>3, <1>4, <1>5, <1>6, <1>7 DEF Recorded
<1>8. CASE disk'[s] # disk[s]
  <2>1. /\ s = session("messages") /\ disk'[s] = disk[s] \cup {shots'} /\ shots' = shots + 1
        /\ pc'["messages"] = "recording" /\ session("messages")' = s
    BY <1>1, <1>8, FramesFacts DEF CaptureWrites, goto, session
  <2>2. Capturing(s) /\ Unrecorded(s)' = {shots'}
    BY <1>2, <2>1 DEF Capturing, Unrecorded
  <2>3. CASE FramesAreGone(s)
    <3>1. disk'[s] = {shots'} /\ shots' \in 1..MaxFrames
      BY <1>1, <2>1, <2>2, <2>3 DEF Recorded
    <3>2. shots' \notin frames[s]
      BY <1>1, <1>4, <2>1
    <3>3. QED BY <1>3, <1>4, <1>6, <2>3, <3>1, <3>2 DEF Recorded
  <2>4. CASE ~FramesAreGone(s)
    BY <1>3, <1>4, <1>5, <1>6, <2>1, <2>2, <2>4 DEF Recorded
  <2>5. QED BY <2>3, <2>4
<1>9. QED BY <1>7, <1>8

LEMMA RecordKeepsRecorded ==
  ASSUME DaemonOK, NEW s \in Sessions, Recorded(s), CaptureRecords PROVE Recorded(s)'
<1>1. /\ session("messages") \in Sessions /\ shots \in 1..shots
  BY HandFacts, FramesFacts DEF CaptureRecords, at, SessionPlaces
<1>2. pc["messages"] = "recording" /\ pc'["messages"] = "reporting"
  BY FramesFacts DEF CaptureRecords, goto, at
<1>3. FramesAreGone(s)' <=> FramesAreGone(s)
  BY <1>2, FramesFacts DEF CaptureRecords, goto, FramesAreGone, DeletesNow, at, session
<1>4. disk' = disk /\ doomed' = doomed /\ shots' = shots /\ ~Capturing(s)'
  BY <1>2 DEF CaptureRecords, Capturing
<1>5. frames'[s] = frames[s] \cup Unrecorded(s) /\ Unrecorded(s) \subseteq 1..shots
  BY <1>1, <1>2, FramesFacts DEF CaptureRecords, Unrecorded
<1>6. QED BY <1>3, <1>4, <1>5 DEF Recorded

LEMMA CloseKeepsRecorded ==
  ASSUME DaemonOK, NEW s \in Sessions, Recorded(s), NEW th \in Threads, Closes(th) PROVE Recorded(s)'
<1>1. /\ session(th) \in Sessions /\ pc[th] = "closing"
      /\ pc'[th] = (IF closed[session(th)] THEN "announcing" ELSE "deleting")
      /\ \A o \in Threads \ {th} : pc'[o] = pc[o]
  BY HandFacts, FramesFacts DEF Closes, goto, at, ClosingPlaces, SessionPlaces
<1>2. disk' = disk /\ frames' = frames /\ shots' = shots /\ work' = work
  BY DEF Closes
<1>3. Unrecorded(s)' = Unrecorded(s) /\ (Capturing(s)' <=> Capturing(s))
  BY <1>1, <1>2, FramesFacts DEF Unrecorded, Capturing, session
<1>4. CASE s = session(th) /\ ~closed[s]
  <2>1. DeletesNow(th, s)' /\ doomed'[s] = frames[s] /\ ~FramesAreGone(s)
    BY <1>1, <1>2, <1>4, FramesFacts DEF Closes, DeletesNow, at, session, FramesAreGone
  <2>2. ~FramesAreGone(s)'
    BY <2>1 DEF FramesAreGone
  <2>3. QED BY <1>2, <1>3, <2>1, <2>2 DEF Recorded
<1>5. CASE ~(s = session(th) /\ ~closed[s])
  <2>1. closed'[s] = closed[s] /\ doomed'[s] = doomed[s]
    BY <1>1, <1>5, FramesFacts DEF Closes
  <2>2. \A o \in Threads : DeletesNow(o, s)' <=> DeletesNow(o, s)
    BY <1>1, <1>2, <1>5 DEF DeletesNow, at, session
  <2>3. FramesAreGone(s)' <=> FramesAreGone(s)
    BY <2>1, <2>2 DEF FramesAreGone
  <2>4. QED BY <1>2, <1>3, <2>1, <2>3 DEF Recorded
<1>6. QED BY <1>4, <1>5

LEMMA DeleteKeepsRecorded ==
  ASSUME DaemonOK, NEW s \in Sessions, Recorded(s), NEW th \in Threads, DeletesFrames(th)
  PROVE  Recorded(s)'
<1>1. /\ session(th) \in Sessions /\ pc[th] = "deleting" /\ pc'[th] = "checking"
      /\ \A o \in Threads \ {th} : pc'[o] = pc[o]
  BY HandFacts, FramesFacts DEF DeletesFrames, goto, at, ClosingPlaces, SessionPlaces
<1>2. /\ frames' = frames /\ shots' = shots /\ work' = work /\ closed' = closed /\ doomed' = doomed
  BY DEF DeletesFrames
<1>3. Unrecorded(s)' = Unrecorded(s) /\ (Capturing(s)' <=> Capturing(s))
  BY <1>1, <1>2, FramesFacts DEF Unrecorded, Capturing, session
<1>4. CASE s # session(th)
  <2>1. disk'[s] = disk[s]
    BY <1>1, <1>4, FramesFacts DEF DeletesFrames
  <2>2. \A o \in Threads : DeletesNow(o, s)' <=> DeletesNow(o, s)
    BY <1>1, <1>2, <1>4 DEF DeletesNow, at, session
  <2>3. FramesAreGone(s)' <=> FramesAreGone(s)
    BY <1>2, <2>2 DEF FramesAreGone
  <2>4. QED BY <1>2, <1>3, <2>1, <2>3 DEF Recorded
<1>5. CASE s = session(th)
  <2>1. disk'[s] = disk[s] \ frames[s] /\ ~FramesAreGone(s)
    BY <1>1, <1>5, FramesFacts DEF DeletesFrames, FramesAreGone, DeletesNow, at
  <2>2. disk'[s] \subseteq Unrecorded(s) /\ doomed[s] \cap disk'[s] = {}
    BY <2>1 DEF Recorded
  <2>3. disk'[s] = {} \/ (~Capturing(s) /\ \E f \in 1..MaxFrames : disk'[s] = {f})
    <3>1. CASE Unrecorded(s) = {}
      BY <2>2, <3>1
    <3>2. CASE Unrecorded(s) # {}
      <4>1. ~Capturing(s) /\ Unrecorded(s) = {shots} /\ shots > 0
        BY <1>1, <3>2, HandFacts DEF Capturing, Unrecorded
      <4>2. shots \in 1..MaxFrames
        BY <4>1, FramesFacts
      <4>3. QED BY <2>2, <4>1, <4>2
    <3>3. QED BY <3>1, <3>2
  <2>4. QED BY <1>2, <1>3, <2>2, <2>3 DEF Recorded
<1>6. QED BY <1>4, <1>5

LEMMA OthersKeepRecorded ==
  ASSUME DaemonOK, NEW s \in Sessions, Recorded(s), EyesNext, ~FrameSteps PROVE Recorded(s)'
<1>1. Unconcerned("messages") /\ \A th \in Threads : Unconcerned(th)
  BY OthersUnconcerned DEF Threads
<1>2. UNCHANGED <<closed, frames, disk, shots, doomed>>
  BY OthersKeepFrames
<1>3. \A th \in Threads : DeletesNow(th, s)' <=> DeletesNow(th, s)
  BY <1>1 DEF Unconcerned, DeletesNow, at, session
<1>4. FramesAreGone(s)' <=> FramesAreGone(s)
  BY <1>2, <1>3 DEF FramesAreGone
<1>5. Unrecorded(s)' = Unrecorded(s)
  BY <1>1, <1>2 DEF Unconcerned, Unrecorded, session
<1>6. closed[s] /\ Capturing(s)' => Capturing(s)
  BY <1>1 DEF Unconcerned, Capturing, session
<1>7. QED BY <1>2, <1>4, <1>5, <1>6 DEF Recorded, FramesAreGone

LEMMA FramesStayRecorded ==
  ASSUME DaemonOK, FramesAreRecorded, EyesNext PROVE FramesAreRecorded'
<1>1. SUFFICES ASSUME NEW s \in Sessions PROVE Recorded(s)'
  BY DEF FramesAreRecorded, Recorded
<1>2. Recorded(s)
  BY DEF FramesAreRecorded, Recorded
<1>3. CASE FrameSteps
  BY <1>2, <1>3, WriteKeepsRecorded, RecordKeepsRecorded, CloseKeepsRecorded, DeleteKeepsRecorded
  DEF FrameSteps
<1>4. CASE ~FrameSteps
  BY <1>2, <1>4, OthersKeepRecorded
<1>5. QED BY <1>3, <1>4
-----------------------------------------------------------------------------
(***************************************************************************)
(* Core's side: a request of the owner, and an event off the socket.       *)
(***************************************************************************)
DaemonStays ==
  UNCHANGED <<sessionVars, gestureVars, pc, work>>

LEMMA DaemonUntouched ==
  ASSUME CameraTypeOK, SessionInHand, FramesAreRecorded, DaemonStays
  PROVE  /\ SessionsTypeOK' /\ GesturesTypeOK' /\ ThreadsTypeOK' /\ SessionInHand'
         /\ FramesAreRecorded' /\ (Serving' <=> Serving) /\ shots' = shots /\ pc' = pc
<1> USE DEF DaemonStays, sessionVars, gestureVars
<1>1. SessionsTypeOK' /\ GesturesTypeOK' /\ ThreadsTypeOK'
  BY DEF CameraTypeOK, EyesTypeOK, SessionsTypeOK, GesturesTypeOK, ThreadsTypeOK
<1>2. SessionInHand'
  BY DEF SessionInHand, session
<1>3. FramesAreRecorded' /\ (Serving' <=> Serving) /\ shots' = shots /\ pc' = pc
  BY DEF FramesAreRecorded, FramesAreGone, DeletesNow, at, Capturing, Unrecorded, session, Serving
<1>4. QED BY <1>1, <1>2, <1>3

LEMMA SlotFacts ==
  ASSUME CameraTypeOK
  PROVE  /\ pending # Free => pending.by \in Dispatches /\ pending.type \in {"arm", "capture", "close"}
         /\ pending = Free => pending.by \notin Dispatches
         /\ \A d \in Dispatches : \A type : [by |-> d, type |-> type] # Free
         /\ askedAt \in Nat /\ shots \in Nat
BY CameraAssumption, EyesAssumption DEF CameraTypeOK, EyesTypeOK, SessionsTypeOK, Free

LEMMA LookKeepsInvariant ==
  ASSUME CameraIInv, NEW d \in Dispatches, NEW i \in Intents, LookStarts(d, i) PROVE CameraIInv'
<1>1. CameraTypeOK /\ WiresTypeOK /\ DaemonStays
  BY DEF CameraIInv, CameraTypeOK, EyesTypeOK, LookStarts, DaemonStays
<1>2. /\ SessionsTypeOK' /\ GesturesTypeOK' /\ ThreadsTypeOK' /\ SessionInHand'
      /\ FramesAreRecorded' /\ (Serving' <=> Serving) /\ shots' = shots /\ pc' = pc
  BY <1>1, DaemonUntouched DEF CameraIInv
<1>3. /\ toEyes' = Append(toEyes, "arm") /\ toCore' = toCore
      /\ pending' = [by |-> d, type |-> "arm"]
      /\ crossed' = (crossed \/ pending # Free)
      /\ intent' = IF pending = Free THEN [intent EXCEPT ![d] = i]
                   ELSE [[intent EXCEPT ![d] = i] EXCEPT ![pending.by] = "none"]
      /\ UNCHANGED <<state, askedAt, stale, announced>>
      /\ intents < MaxIntents /\ intents' = intents + 1
  BY DEF LookStarts, takeSlot, send
<1>4. "arm" \in Requests /\ toEyes \in Seq(Requests)
  BY <1>1 DEF WiresTypeOK, Requests
<1>5. WiresTypeOK'
  BY <1>1, <1>3, <1>4, PutOn DEF WiresTypeOK
<1>6. CameraTypeOK'
  <2>1. intent' \in [Dispatches -> Intents \cup {"none"}]
    BY <1>1, <1>3 DEF CameraTypeOK
  <2>2. intents' \in 0..MaxIntents
    BY <1>1, <1>3, CameraAssumption DEF CameraTypeOK
  <2>3. crossed' \in BOOLEAN
    BY <1>3
  <2>4. QED
    BY <1>1, <1>2, <1>3, <1>5, <2>1, <2>2, <2>3 DEF CameraTypeOK, EyesTypeOK
<1>7. OneAnswerDue'
  <2>1. SUFFICES ASSUME ~crossed, pending = Free PROVE OneAnswerDue'
    BY <1>3 DEF OneAnswerDue
  <2>2. RequestsIn(toEyes) = {} /\ ~Serving /\ AnswersIn(toCore) = {}
    BY <2>1 DEF CameraIInv, OneAnswerDue
  <2>3. RequestsIn(toEyes') \subseteq RequestsIn(toEyes) \cup {Len(toEyes) + 1}
    BY <1>3, <1>4, RequestPutOn
  <2>4. AnswersIn(toCore') = {} /\ ~Serving' /\ pending' # Free
    BY <1>1, <1>2, <1>3, <2>2, SlotFacts
  <2>5. \A m, n \in RequestsIn(toEyes') : m = n
    BY <2>2, <2>3
  <2>6. QED BY <2>4, <2>5 DEF OneAnswerDue
<1>8. NoneLeftWaiting'
  <2>1. ASSUME NEW o \in Dispatches, o # d, intent'[o] # "none" PROVE FALSE
    <3>1. CASE pending = Free
      BY <1>1, <1>3, <2>1, <3>1, SlotFacts DEF CameraIInv, NoneLeftWaiting, CameraTypeOK
    <3>2. CASE pending # Free
      BY <1>1, <1>3, <2>1, <3>2 DEF CameraIInv, NoneLeftWaiting, CameraTypeOK
    <3>3. QED BY <3>1, <3>2
  <2>2. pending'.by = d
    BY <1>3
  <2>3. QED BY <2>1, <2>2 DEF NoneLeftWaiting
<1>9. NothingOld' /\ FreshUnlessCrossed'
  BY <1>2, <1>3 DEF CameraIInv, NothingOld, FreshUnlessCrossed
<1>10. QED BY <1>2, <1>6, <1>7, <1>8, <1>9 DEF CameraIInv

\* An event settles the request in the slot: who awaits it goes on, with a request of his own
\* in the slot or none.
Settled(e) ==
  /\ toEyes' \in Seq(Requests)
  /\ pending' \in [by : {pending.by}, type : {"arm", "capture", "close"}] \cup {Free}
  /\ RequestsIn(toEyes') \subseteq RequestsIn(toEyes) \cup {Len(toEyes) + 1}
  /\ pending' = Free => RequestsIn(toEyes') \subseteq RequestsIn(toEyes)
  /\ (pending' # Free /\ intent' = intent) \/ intent' = finished(pending.by)
  /\ askedAt' = askedAt \/ (askedAt' = shots /\ e.type = "camera.armed")
  /\ stale' \in BOOLEAN
  /\ stale' => stale \/ (e.type = "camera.captured" /\ e.frame <= askedAt)

LEMMA ResumeSettles ==
  ASSUME CameraTypeOK, NEW e \in EyesEvents, pending # Free, Resume(e) PROVE Settled(e)
<1>1. /\ toEyes \in Seq(Requests) /\ stale \in BOOLEAN /\ pending.by \in Dispatches
      /\ Requests = {"arm", "capture", "close", "gesture.start", "gesture.stop"}
  BY SlotFacts DEF CameraTypeOK, EyesTypeOK, WiresTypeOK, Requests
<1>2. ASSUME NEW type \in Requests, send(type)
      PROVE  /\ toEyes' \in Seq(Requests)
             /\ RequestsIn(toEyes') \subseteq RequestsIn(toEyes) \cup {Len(toEyes) + 1}
             /\ type \notin {"arm", "capture", "close"} =>
                  RequestsIn(toEyes') \subseteq RequestsIn(toEyes)
  <2>1. toEyes' = Append(toEyes, type)
    BY <1>2 DEF send
  <2>2. Append(toEyes, type) \in Seq(Requests)
    BY <1>1, PutOn
  <2>3. /\ RequestsIn(Append(toEyes, type)) \subseteq RequestsIn(toEyes) \cup {Len(toEyes) + 1}
        /\ type \notin {"arm", "capture", "close"} =>
             RequestsIn(Append(toEyes, type)) \subseteq RequestsIn(toEyes)
    BY <1>1, RequestPutOn
  <2>4. QED BY <2>1, <2>2, <2>3
<1>3. ASSUME NEW type \in {"capture", "close"}, send(type), e.type = "camera.armed",
             pending' = [by |-> pending.by, type |-> type], UNCHANGED <<intent, stale>>,
             askedAt' \in {askedAt, shots}
      PROVE  Settled(e)
  <2>1. /\ toEyes' \in Seq(Requests)
        /\ RequestsIn(toEyes') \subseteq RequestsIn(toEyes) \cup {Len(toEyes) + 1}
    BY <1>1, <1>2, <1>3
  <2>2. pending' # Free /\ pending' \in [by : {pending.by}, type : {"arm", "capture", "close"}]
    BY <1>1, <1>3, SlotFacts
  <2>3. QED BY <1>1, <1>3, <2>1, <2>2 DEF Settled
<1>4. ASSUME NEW type \in {"gesture.start", "gesture.stop"}, send(type), e.type = "camera.armed",
             pending' = Free, intent' = finished(pending.by), UNCHANGED <<askedAt, stale>>
      PROVE  Settled(e)
  <2>1. /\ toEyes' \in Seq(Requests)
        /\ RequestsIn(toEyes') \subseteq RequestsIn(toEyes)
    BY <1>1, <1>2, <1>4
  <2>2. QED BY <1>1, <1>4, <2>1 DEF Settled
<1>5. ASSUME pending' = Free, intent' = finished(pending.by), UNCHANGED <<toEyes, askedAt>>,
             stale' \in BOOLEAN, stale' => stale \/ (e.type = "camera.captured" /\ e.frame <= askedAt)
      PROVE  Settled(e)
  BY <1>1, <1>5 DEF Settled
<1>6. CASE /\ pending.type = "arm" /\ e.type = "camera.armed" /\ AfterOpen(pending.by)
           /\ UNCHANGED stale
  <2>1. CASE intent[pending.by] = "describe"
    BY <1>3, <1>6, <2>1 DEF AfterOpen
  <2>2. CASE intent[pending.by] = "close_camera"
    BY <1>3, <1>6, <2>2 DEF AfterOpen
  <2>3. CASE intent[pending.by] = "start_gestures"
    BY <1>4, <1>6, <2>3 DEF AfterOpen
  <2>4. CASE intent[pending.by] = "stop_gestures"
    BY <1>4, <1>6, <2>4 DEF AfterOpen
  <2>5. CASE intent[pending.by] = "open_camera"
    BY <1>1, <1>5, <1>6, <2>5 DEF AfterOpen
  <2>6. QED BY <1>6, <2>1, <2>2, <2>3, <2>4, <2>5 DEF AfterOpen
<1>7. CASE /\ pending' = Free /\ intent' = finished(pending.by)
           /\ stale' = (stale \/ (pending.type = "capture" /\ e.type = "camera.captured"
                                    /\ e.frame <= askedAt))
           /\ UNCHANGED <<toEyes, askedAt>>
  BY <1>1, <1>5, <1>7
<1>8. QED BY <1>6, <1>7 DEF Resume

LEMMA RelayKeepsInvariant ==
  ASSUME CameraIInv, RelayEvent PROVE CameraIInv'
<1> DEFINE e == Head(toCore)
<1>1. CameraTypeOK /\ WiresTypeOK /\ DaemonStays
  BY DEF CameraIInv, CameraTypeOK, EyesTypeOK, RelayEvent, DaemonStays
<1>2. /\ SessionsTypeOK' /\ GesturesTypeOK' /\ ThreadsTypeOK' /\ SessionInHand'
      /\ FramesAreRecorded' /\ (Serving' <=> Serving) /\ shots' = shots /\ pc' = pc
  BY <1>1, DaemonUntouched DEF CameraIInv
<1>3. toCore \in Seq(EyesEvents) /\ toCore # <<>> /\ toCore' = Tail(toCore)
  BY <1>1 DEF WiresTypeOK, RelayEvent
<1>4. /\ Tail(toCore) \in Seq(EyesEvents) /\ e \in EyesEvents
      /\ 1 \in DOMAIN toCore /\ toCore[1] = e
      /\ \A n \in DOMAIN Tail(toCore) :
           n \in Nat /\ n # 0 /\ n + 1 \in DOMAIN toCore /\ Tail(toCore)[n] = toCore[n + 1]
  BY <1>3, TakenOff
<1>5. /\ \A n \in AnswersIn(Tail(toCore)) : n \in Nat /\ n # 0 /\ n + 1 \in AnswersIn(toCore)
      /\ IsReply(Head(toCore)) /\ ~Spontaneous(Head(toCore)) => 1 \in AnswersIn(toCore)
  BY <1>3, AnswerTakenOff
<1>6. /\ e.type = "camera.captured" => e.frame \in 1..MaxFrames
      /\ e.type = "camera.closed" => e.session \in Sessions
  BY <1>4, EventFacts
<1>7. announced' \subseteq Sessions /\ intents' = intents
  BY <1>1, <1>6 DEF RelayEvent, announce, CameraTypeOK
<1>8. CASE ~IsReply(e) \/ pending = Free
  <2>1. /\ UNCHANGED <<toEyes, intent, pending, askedAt, stale>>
        /\ crossed' = crossed /\ state' \in {"idle", "armed"}
    <3>1. CASE IsReply(e)
      BY <1>1, <1>8, <3>1 DEF RelayEvent, track, CameraTypeOK
    <3>2. CASE ~IsReply(e)
      BY <1>1, <3>2 DEF RelayEvent, CameraTypeOK
    <3>3. QED BY <3>1, <3>2
  <2>2. CameraTypeOK'
    BY <1>1, <1>2, <1>3, <1>4, <1>7, <2>1 DEF CameraTypeOK, EyesTypeOK, WiresTypeOK
  <2>3. OneAnswerDue'
    <3>1. RequestsIn(toEyes') = RequestsIn(toEyes)
      BY <2>1
    <3>2. \A n \in AnswersIn(toCore') : n \in Nat /\ n # 0 /\ n + 1 \in AnswersIn(toCore)
      BY <1>3, <1>5
    <3>3. QED BY <1>2, <2>1, <3>1, <3>2 DEF CameraIInv, OneAnswerDue
  <2>4. NothingOld'
    BY <1>2, <1>3, <1>4, <2>1 DEF CameraIInv, NothingOld
  <2>5. NoneLeftWaiting' /\ FreshUnlessCrossed'
    BY <2>1 DEF CameraIInv, NoneLeftWaiting, FreshUnlessCrossed
  <2>6. QED BY <1>2, <2>2, <2>3, <2>4, <2>5 DEF CameraIInv
<1>9. CASE IsReply(e) /\ pending # Free
  <2>1. Resume(e) /\ track(e) /\ crossed' = (crossed \/ Spontaneous(e))
    BY <1>9 DEF RelayEvent
  <2>2. Settled(e)
    BY <1>1, <1>4, <1>9, <2>1, ResumeSettles
  <2>3. pending.by \in Dispatches /\ askedAt \in Nat /\ shots \in Nat
    BY <1>1, <1>9, SlotFacts
  <2>4. state' \in {"idle", "armed"} /\ crossed' \in BOOLEAN
    BY <1>1, <2>1 DEF track, CameraTypeOK
  <2>5. CameraTypeOK'
    <3>1. intent' \in [Dispatches -> Intents \cup {"none"}]
      BY <1>1, <2>2 DEF Settled, finished, CameraTypeOK
    <3>2. askedAt' \in 0..MaxFrames /\ stale' \in BOOLEAN
      BY <1>1, <2>2 DEF Settled, CameraTypeOK, EyesTypeOK, SessionsTypeOK
    <3>3. pending' \in [by : Dispatches, type : {"arm", "capture", "close"}] \cup {Free}
      BY <2>2, <2>3 DEF Settled
    <3>4. WiresTypeOK'
      BY <1>3, <1>4, <2>2 DEF Settled, WiresTypeOK
    <3>5. QED
      BY <1>1, <1>2, <1>7, <2>4, <3>1, <3>2, <3>3, <3>4 DEF CameraTypeOK, EyesTypeOK
  <2>6. NoneLeftWaiting'
    <3>1. ASSUME NEW d \in Dispatches, intent'[d] # "none" PROVE pending'.by = d
      <4>1. intent \in [Dispatches -> Intents \cup {"none"}]
        BY <1>1 DEF CameraTypeOK
      <4>2. CASE intent' = finished(pending.by)
        BY <2>3, <3>1, <4>1, <4>2 DEF finished, CameraIInv, NoneLeftWaiting
      <4>3. CASE pending' # Free /\ intent' = intent
        BY <2>2, <3>1, <4>3 DEF Settled, CameraIInv, NoneLeftWaiting
      <4>4. QED BY <2>2, <4>2, <4>3 DEF Settled
    <3>2. QED BY <3>1 DEF NoneLeftWaiting
  <2>7. CASE crossed'
    <3>1. askedAt' <= shots'
      BY <1>2, <2>2, <2>3 DEF Settled, CameraIInv, NothingOld
    <3>2. QED
      BY <1>2, <2>5, <2>6, <2>7, <3>1
      DEF CameraIInv, OneAnswerDue, NothingOld, FreshUnlessCrossed
  <2>8. CASE ~crossed'
    <3>1. ~crossed /\ ~Spontaneous(e)
      BY <2>1, <2>8
    <3>2. 1 \in AnswersIn(toCore)
      BY <1>5, <1>9, <3>1
    <3>3. /\ RequestsIn(toEyes) = {} /\ ~Serving
          /\ \A m, n \in AnswersIn(toCore) : m = n
      BY <3>1, <3>2 DEF CameraIInv, OneAnswerDue
    <3>4. AnswersIn(toCore') = {}
      BY <1>3, <1>5, <3>2, <3>3
    <3>5. OneAnswerDue'
      <4>1. /\ RequestsIn(toEyes') \subseteq {Len(toEyes) + 1}
            /\ pending' = Free => RequestsIn(toEyes') = {}
        BY <2>2, <3>3 DEF Settled
      <4>2. QED BY <1>2, <3>3, <3>4, <4>1 DEF OneAnswerDue
    <3>6. NothingOld'
      <4>1. askedAt' <= shots'
        BY <1>2, <2>2, <2>3 DEF Settled, CameraIInv, NothingOld
      <4>2. ASSUME NEW n \in DOMAIN toCore', toCore'[n].type = "camera.captured" PROVE FALSE
        <5>1. IsReply(toCore'[n]) /\ ~Spontaneous(toCore'[n])
          BY <4>2 DEF IsReply, Spontaneous, GestureError
        <5>2. QED BY <3>4, <5>1 DEF AnswersIn
      <4>3. pc'["messages"] \notin {"recording", "reporting"}
        BY <1>2, <3>3 DEF Serving
      <4>4. QED BY <4>1, <4>2, <4>3 DEF NothingOld
    <3>7. FreshUnlessCrossed'
      <4>1. ~stale
        BY <3>1 DEF CameraIInv, FreshUnlessCrossed
      <4>2. e.type = "camera.captured" => e.frame > askedAt
        BY <1>4, <3>1 DEF CameraIInv, NothingOld
      <4>3. e.type = "camera.captured" => e.frame \in Nat
        BY <1>6
      <4>4. ~stale'
        BY <2>2, <2>3, <4>1, <4>2, <4>3 DEF Settled
      <4>5. QED BY <4>4 DEF FreshUnlessCrossed
    <3>8. QED BY <1>2, <2>5, <2>6, <3>5, <3>6, <3>7 DEF CameraIInv
  <2>9. QED BY <2>7, <2>8
<1>10. QED BY <1>8, <1>9

LEMMA EyesKeepsInvariant ==
  ASSUME CameraIInv, EyesNext, UNCHANGED coreVars PROVE CameraIInv'
<1>1. DaemonOK /\ CameraTypeOK /\ askedAt \in Nat
  BY SlotFacts DEF CameraIInv, CameraTypeOK, DaemonOK
<1>2. SessionsTypeOK' /\ GesturesTypeOK' /\ WiresTypeOK' /\ ThreadsTypeOK' /\ SessionInHand'
  BY <1>1, SessionsStep, GesturesStep, WiresStep, ThreadsStep
<1>3. CameraTypeOK'
  BY <1>1, <1>2 DEF CameraTypeOK, EyesTypeOK, coreVars
<1>4. FramesAreRecorded'
  BY <1>1, FramesStayRecorded DEF CameraIInv
<1>5. OneAnswerDue'
  BY <1>1, DueKept DEF CameraIInv, coreVars
<1>6. NothingOld'
  BY <1>1, NewerKept DEF CameraIInv, coreVars
<1>7. NoneLeftWaiting' /\ FreshUnlessCrossed'
  BY DEF CameraIInv, NoneLeftWaiting, FreshUnlessCrossed, coreVars
<1>8. QED BY <1>2, <1>3, <1>4, <1>5, <1>6, <1>7 DEF CameraIInv

LEMMA CameraStarts == CameraInit => CameraIInv
<1> SUFFICES ASSUME CameraInit PROVE CameraIInv
  OBVIOUS
<1>1. EyesTypeOK
  <2>1. WiresTypeOK /\ SessionsTypeOK
    BY EyesAssumption DEF CameraInit, EyesInit, WiresTypeOK, SessionsTypeOK
  <2>2. GesturesTypeOK
    BY EyesAssumption DEF CameraInit, EyesInit, GesturesTypeOK, LoopPlaces
  <2>3. Nothing \in [session : Sessions \cup {None}, cause : CloseCause] /\ "ready" \in Places
    BY DEF Nothing, CloseCause, Places
  <2>4. ThreadsTypeOK
    BY <2>3 DEF CameraInit, EyesInit, ThreadsTypeOK
  <2>5. QED BY <2>1, <2>2, <2>4 DEF EyesTypeOK
<1>2. CameraTypeOK
  <2>1. 0 \in 0..MaxIntents /\ 0 \in 0..MaxFrames
    BY EyesAssumption, CameraAssumption
  <2>2. intent \in [Dispatches -> Intents \cup {"none"}]
    BY DEF CameraInit
  <2>3. QED BY <1>1, <2>1, <2>2 DEF CameraInit, CameraTypeOK
<1>3. SessionInHand /\ FramesAreRecorded
  BY DEF CameraInit, EyesInit, SessionInHand, FramesAreRecorded, FramesAreGone, SessionPlaces,
         ClosingPlaces, Threads, Sessions
<1>4. OneAnswerDue /\ NothingOld
  BY <1>2, SlotFacts
  DEF CameraInit, EyesInit, OneAnswerDue, NothingOld, RequestsIn, AnswersIn, Serving, Threads
<1>5. NoneLeftWaiting /\ FreshUnlessCrossed
  BY DEF CameraInit, NoneLeftWaiting, FreshUnlessCrossed
<1>6. QED BY <1>2, <1>3, <1>4, <1>5 DEF CameraIInv

LEMMA CameraKeeps == CameraIInv /\ [CameraNext]_vars => CameraIInv'
<1> SUFFICES ASSUME CameraIInv, [CameraNext]_vars PROVE CameraIInv'
  OBVIOUS
<1>1. CASE EyesNext /\ UNCHANGED coreVars
  BY <1>1, EyesKeepsInvariant
<1>2. ASSUME NEW d \in Dispatches, NEW i \in Intents, LookStarts(d, i) PROVE CameraIInv'
  BY <1>2, LookKeepsInvariant
<1>3. CASE RelayEvent
  BY <1>3, RelayKeepsInvariant
<1>4. CASE UNCHANGED vars
  <2>1. /\ WiresTypeOK' /\ SessionsTypeOK' /\ GesturesTypeOK' /\ ThreadsTypeOK' /\ CameraTypeOK'
    BY <1>4 DEF vars, eyesVars, sessionVars, gestureVars, coreVars, CameraIInv, CameraTypeOK, EyesTypeOK,
                WiresTypeOK, SessionsTypeOK, GesturesTypeOK, ThreadsTypeOK
  <2>2. SessionInHand' /\ FramesAreRecorded'
    BY <1>4 DEF vars, eyesVars, sessionVars, CameraIInv, SessionInHand, FramesAreRecorded, FramesAreGone,
                DeletesNow, at, Capturing, Unrecorded, session
  <2>3. OneAnswerDue' /\ NothingOld' /\ NoneLeftWaiting' /\ FreshUnlessCrossed'
    BY <1>4 DEF vars, eyesVars, sessionVars, coreVars, CameraIInv, OneAnswerDue, NothingOld,
                NoneLeftWaiting, FreshUnlessCrossed, Serving
  <2>4. QED BY <2>1, <2>2, <2>3 DEF CameraIInv
<1>5. QED BY <1>1, <1>2, <1>3, <1>4 DEF CameraNext
-----------------------------------------------------------------------------
\* What makes the properties below so, in every state of core and daemon together: what each
\* thread has in hand, which frames are recorded, and that one answer at most is due to core
\* unless something was crossed.
THEOREM CameraInvariant == CameraSpec => []CameraIInv
BY CameraStarts, CameraKeeps, PTL DEF CameraSpec

\* Every variable of the daemon and of core's side of the camera keeps its type, whichever
\* thread was overtaken where.
THEOREM CameraTypeCorrect == CameraSpec => []CameraTypeOK
<1>1. CameraIInv => CameraTypeOK
  BY DEF CameraIInv
<1>2. QED BY <1>1, CameraInvariant, PTL

\* A picture is newer than the request for it, as long as no request was settled by what was no
\* reply to it: the one slot of the handle needs no more than that (offerEvent, capture()).
THEOREM PictureIsFresh == CameraSpec => []FreshUnlessCrossed
<1>1. CameraIInv => FreshUnlessCrossed
  BY DEF CameraIInv
<1>2. QED BY <1>1, CameraInvariant, PTL

\* A skill that loses the slot to another turn's request is told, and never waits for a reply
\* that nothing can give it any more (request()).
THEOREM NobodyLeftWaiting == CameraSpec => []NoneLeftWaiting
<1>1. CameraIInv => NoneLeftWaiting
  BY DEF CameraIInv
<1>2. QED BY <1>1, CameraInvariant, PTL

\* Every frame that was recorded when a session was closed is deleted, however the two threads
\* overtake one another; one frame at most is left, written since by a capture that the close
\* overtook (close(), capture()).
THEOREM RecordedFramesDeleted == CameraSpec => []RecordedFramesGo
<1>1. CameraIInv => RecordedFramesGo
  <2>1. SUFFICES ASSUME CameraIInv, NEW s \in Sessions, FramesAreGone(s)
                 PROVE  doomed[s] \cap disk[s] = {} /\ Cardinality(disk[s]) <= 1
    BY DEF RecordedFramesGo
  <2>2. doomed[s] \cap disk[s] = {} /\ (disk[s] = {} \/ \E f \in 1..MaxFrames : disk[s] = {f})
    BY <2>1 DEF CameraIInv, FramesAreRecorded
  <2>3. CASE disk[s] = {}
    BY <2>2, <2>3, FS_EmptySet
  <2>4. ASSUME NEW f \in 1..MaxFrames, disk[s] = {f} PROVE Cardinality(disk[s]) <= 1
    BY <2>4, FS_Singleton
  <2>5. QED BY <2>2, <2>3, <2>4
<1>2. QED BY <1>1, CameraInvariant, PTL
=============================================================================
