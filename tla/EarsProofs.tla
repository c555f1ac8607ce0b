----------------------------- MODULE EarsProofs -----------------------------
(***************************************************************************)
(* Proofs about the ears daemon, for any recording limits, socket size and *)
(* number of connections, presses and phrases.                             *)
(***************************************************************************)
EXTENDS Ears, TLAPS

Places == Capturing \cup {"waiting", "pressed", "trying", "ignoring", "ignored",
                          "frame", "waking", "levelling", "sampling", "stopping"}

Messages == {"listening", "utterance", "level"}

\* Who is woken by an event: at most the one thread that waits for it.
LEMMA Wakes ==
  ASSUME at \in [Threads -> Places]
  PROVE  /\ wakes("wake", [waiting |-> "pressed"])
              = IF at["wake"] = "waiting" THEN [at EXCEPT !["wake"] = "pressed"] ELSE at
         /\ wakes("wake", [recording |-> "stopped"])
              = IF at["wake"] = "recording" THEN [at EXCEPT !["wake"] = "stopped"] ELSE at
         /\ wakes("hotkey", [waiting |-> "pressed"])
              = IF at["hotkey"] = "waiting" THEN [at EXCEPT !["hotkey"] = "pressed"] ELSE at
         /\ wakes("hotkey", [recording |-> "ended", ignoring |-> "ignored"])
              = IF at["hotkey"] = "recording" THEN [at EXCEPT !["hotkey"] = "ended"]
                ELSE IF at["hotkey"] = "ignoring" THEN [at EXCEPT !["hotkey"] = "ignored"]
                ELSE at
<1>1. /\ DOMAIN [waiting |-> "pressed"] = {"waiting"}
      /\ [waiting |-> "pressed"]["waiting"] = "pressed"
  OBVIOUS
<1>2. /\ DOMAIN [recording |-> "stopped"] = {"recording"}
      /\ [recording |-> "stopped"]["recording"] = "stopped"
  OBVIOUS
<1>3. /\ DOMAIN [recording |-> "ended", ignoring |-> "ignored"] = {"recording", "ignoring"}
      /\ [recording |-> "ended", ignoring |-> "ignored"]["recording"] = "ended"
      /\ [recording |-> "ended", ignoring |-> "ignored"]["ignoring"] = "ignored"
  OBVIOUS
<1>4. wakes("wake", [waiting |-> "pressed"])
        = IF at["wake"] = "waiting" THEN [at EXCEPT !["wake"] = "pressed"] ELSE at
  <2>1. CASE at["wake"] = "waiting"
    <3>1. at["wake"] \in DOMAIN [waiting |-> "pressed"] /\ [waiting |-> "pressed"][at["wake"]] = "pressed"
      BY <2>1, <1>1
    <3>2. QED BY <2>1, <3>1 DEF wakes
  <2>2. CASE at["wake"] # "waiting"
    BY <2>2, <1>1 DEF wakes
  <2>3. QED BY <2>1, <2>2
<1>5. wakes("wake", [recording |-> "stopped"])
        = IF at["wake"] = "recording" THEN [at EXCEPT !["wake"] = "stopped"] ELSE at
  <2>1. CASE at["wake"] = "recording"
    <3>1. at["wake"] \in DOMAIN [recording |-> "stopped"] /\ [recording |-> "stopped"][at["wake"]] = "stopped"
      BY <2>1, <1>2
    <3>2. QED BY <2>1, <3>1 DEF wakes
  <2>2. CASE at["wake"] # "recording"
    BY <2>2, <1>2 DEF wakes
  <2>3. QED BY <2>1, <2>2
<1>6. wakes("hotkey", [waiting |-> "pressed"])
        = IF at["hotkey"] = "waiting" THEN [at EXCEPT !["hotkey"] = "pressed"] ELSE at
  <2>1. CASE at["hotkey"] = "waiting"
    <3>1. at["hotkey"] \in DOMAIN [waiting |-> "pressed"] /\ [waiting |-> "pressed"][at["hotkey"]] = "pressed"
      BY <2>1, <1>1
    <3>2. QED BY <2>1, <3>1 DEF wakes
  <2>2. CASE at["hotkey"] # "waiting"
    BY <2>2, <1>1 DEF wakes
  <2>3. QED BY <2>1, <2>2
<1>7. wakes("hotkey", [recording |-> "ended", ignoring |-> "ignored"])
        = IF at["hotkey"] = "recording" THEN [at EXCEPT !["hotkey"] = "ended"]
          ELSE IF at["hotkey"] = "ignoring" THEN [at EXCEPT !["hotkey"] = "ignored"]
          ELSE at
  BY <1>3 DEF wakes
<1>8. QED BY <1>4, <1>5, <1>6, <1>7

-----------------------------------------------------------------------------
(***************************************************************************)
(* The connection to core.                                                 *)
(***************************************************************************)
LinkTypeOK ==
  /\ held \in 0..conns /\ link \in [Threads -> 0..conns]
  /\ accepted \in 0..conns /\ conns \in 1..MaxConns /\ coreConn \in {0, conns}
  /\ wire \in Seq(Messages) /\ Len(wire) <= WireCap
  /\ inTurn \in BOOLEAN

LEMMA TellsStep ==
  ASSUME LinkTypeOK, LiveConnectionKept, NEW t \in Threads, NEW from, NEW m \in Messages, NEW to,
         Tells(t, from, m, to)
  PROVE  LinkTypeOK' /\ LiveConnectionKept'
<1> USE EarsAssumption DEF LinkTypeOK
<1>1. /\ link' = [link EXCEPT ![t] = 0]
      /\ UNCHANGED <<accepted, conns, coreConn, inTurn>>
  BY DEF Tells
<1>2. /\ held' \in 0..conns
      /\ coreConn # 0 /\ held = coreConn => held' = coreConn
  BY DEF Tells, forgets
<1>3. wire' \in Seq(Messages) /\ Len(wire') <= WireCap
  <2>1. CASE UNCHANGED wire
    BY <2>1
  <2>2. CASE Len(wire) < WireCap /\ wire' = Append(wire, m)
    BY <2>2
  <2>3. QED BY <2>1, <2>2 DEF Tells
<1>4. QED BY <1>1, <1>2, <1>3 DEF LiveConnectionKept

LEMMA LinkStep ==
  ASSUME LinkTypeOK, LiveConnectionKept, [EarsNext]_earsVars
  PROVE  LinkTypeOK' /\ LiveConnectionKept'
<1> USE EarsAssumption
<1>1. ASSUME UNCHANGED <<holderVars, coreVars>> PROVE LinkTypeOK' /\ LiveConnectionKept'
  BY <1>1 DEF holderVars, coreVars, LinkTypeOK, LiveConnectionKept
<1>2. ASSUME NEW t \in Threads, NEW from, NEW to, Takes(t, from, to)
      PROVE  LinkTypeOK' /\ LiveConnectionKept'
  BY <1>2 DEF Takes, coreVars, LinkTypeOK, LiveConnectionKept
<1>3. CASE AcceptLoop
  BY <1>3 DEF AcceptLoop, LinkTypeOK, LiveConnectionKept
<1>4. CASE CoreReads \/ TurnEnds \/ CoreDrops \/ CoreConnects
  <2>1. UNCHANGED holderVars /\ UNCHANGED accepted
    BY <1>4 DEF CoreReads, TurnEnds, CoreDrops, CoreConnects
  <2>2. inTurn' \in BOOLEAN
    BY <1>4 DEF CoreReads, TurnEnds, CoreDrops, CoreConnects, LinkTypeOK
  <2>3. wire' \in Seq(Messages) /\ Len(wire') <= WireCap
    <3>1. wire \in Seq(Messages) /\ Len(wire) <= WireCap /\ WireCap \in Nat
      BY DEF LinkTypeOK
    <3>2. CASE wire # <<>> /\ wire' = Tail(wire)
      BY <3>1, <3>2
    <3>3. CASE wire' = wire
      BY <3>1, <3>3
    <3>4. CASE wire' = <<>>
      <4>1. <<>> \in Seq(Messages) /\ Len(<<>>) = 0
        OBVIOUS
      <4>2. QED BY <3>1, <3>4, <4>1
    <3>5. QED BY <1>4, <3>2, <3>3, <3>4 DEF CoreReads, TurnEnds, CoreDrops, CoreConnects
  <2>4. /\ conns' \in 1..MaxConns /\ conns <= conns' /\ coreConn' \in {0, conns'}
        /\ (coreConn' = coreConn \/ coreConn' = 0 \/ coreConn' = conns + 1)
        /\ conns' = conns \/ coreConn' = conns + 1
    BY <1>4 DEF CoreReads, TurnEnds, CoreDrops, CoreConnects, LinkTypeOK
  <2>5. QED BY <2>1, <2>2, <2>3, <2>4 DEF holderVars, LinkTypeOK, LiveConnectionKept
<1>5. ASSUME NEW t \in Captors, Captures(t) PROVE LinkTypeOK' /\ LiveConnectionKept'
  <2>1. t \in Threads
    BY DEF Threads
  <2>2. CASE Tells(t, "telling", "listening", "arming") \/ Tells(t, "reported", "utterance", "finally")
    BY <2>1, <2>2, TellsStep DEF Messages
  <2>3. CASE Takes(t, "announcing", "telling") \/ Takes(t, "reporting", "reported")
    BY <1>2, <2>1, <2>3
  <2>4. CASE FindsSet(t) \/ Clears(t) \/ Acquires(t) \/ Ignores(t) \/ Arms(t) \/ Disarms(t)
             \/ Transcribes(t) \/ Finally(t) \/ Unlocks(t)
    BY <1>1, <2>4 DEF FindsSet, Clears, Acquires, Ignores, Arms, Disarms, Transcribes, Finally, Unlocks
  <2>5. QED BY <1>5, <2>2, <2>3, <2>4 DEF Captures
<1>6. CASE ProcessFrame
  <2>1. "worker" \in Threads
    BY DEF Threads
  <2>2. CASE Tells("worker", "telling", "level", "sampling")
    BY <2>1, <2>2, TellsStep DEF Messages
  <2>3. CASE Takes("worker", "levelling", "telling")
    BY <1>2, <2>1, <2>3
  <2>4. CASE OnWake \/ NoPhrase \/ SetsWake \/ NoLevel \/ Samples \/ Records \/ SetsStop
    BY <1>1, <2>4 DEF OnWake, NoPhrase, SetsWake, NoLevel, Samples, Records, SetsStop
  <2>5. QED BY <1>6, <2>2, <2>3, <2>4 DEF ProcessFrame
<1>7. CASE OnPress \/ OnRelease \/ UNCHANGED earsVars
  BY <1>1, <1>7 DEF OnPress, OnRelease, earsVars
<1>8. QED BY <1>3, <1>4, <1>5, <1>6, <1>7 DEF EarsNext

-----------------------------------------------------------------------------
(***************************************************************************)
(* The threads, their lock and the recording.                              *)
(***************************************************************************)
ThreadTypeOK ==
  /\ key \in BOOLEAN /\ presses \in 0..MaxPresses
  /\ pressEvent \in BOOLEAN /\ releaseEvent \in BOOLEAN
  /\ wakeEvent \in BOOLEAN /\ stopEvent \in BOOLEAN
  /\ busyLock \in Captors \cup {"none"}
  /\ at \in [Threads -> Places]
  /\ mic \in [armed : BOOLEAN, autoStop : BOOLEAN, count : 0..MaxRecordingFrames,
              silence : 0..SilenceFramesToStop]
  /\ phrases \in 0..MaxPhrases /\ heard \in BOOLEAN
  /\ \A t \in Captors : busyLock = t <=> at[t] \in Capturing

WakePart ==
  /\ AutoStopIsWake /\ NoStaleJudgement /\ StopIsDue /\ NotCutShort
  /\ NoPhraseLeft /\ StartWasHeard

LEMMA CaptureStep ==
  ASSUME ThreadTypeOK, WakePart, NEW t \in Captors, Captures(t)
  PROVE  ThreadTypeOK' /\ WakePart'
<1> USE EarsAssumption DEF ThreadTypeOK, WakePart, AutoStopIsWake, NoStaleJudgement, StopIsDue,
        NotCutShort, NoPhraseLeft, StartWasHeard, WakeStarts, Threads, Captors, Places, Capturing,
        goes
<1>1. CASE FindsSet(t)
  BY <1>1 DEF FindsSet, keyVars, eventVars, heardVars
<1>2. CASE Clears(t)
  <2>1. UNCHANGED <<keyVars, stopEvent, busyLock, mic, heardVars>>
    BY <1>2 DEF Clears
  <2>2. CASE t = "hotkey" /\ goes(t, "pressed", "trying") /\ pressEvent' = FALSE
             /\ UNCHANGED <<releaseEvent, wakeEvent>>
    <3>1. ThreadTypeOK'
      <4>1. /\ at' \in [Threads -> Places] /\ at'["hotkey"] = "trying" /\ at'["wake"] = at["wake"]
            /\ at["hotkey"] = "pressed"
        BY <2>2
      <4>2. \A c \in Captors : busyLock' = c <=> at'[c] \in Capturing
        BY <2>1, <4>1
      <4>3. QED BY <2>1, <2>2, <4>1, <4>2 DEF keyVars, heardVars
    <3>2. WakePart'
      BY <2>1, <2>2 DEF heardVars
    <3>3. QED BY <3>1, <3>2
  <2>3. CASE t = "hotkey" /\ (goes(t, "ended", "stopped") \/ goes(t, "ignored", "waiting"))
             /\ releaseEvent' = FALSE /\ UNCHANGED <<pressEvent, wakeEvent>>
    <3>1. ThreadTypeOK'
      <4>1. /\ at' \in [Threads -> Places] /\ at'["wake"] = at["wake"]
            /\ at'["hotkey"] \in Capturing <=> at["hotkey"] \in Capturing
        <5>1. CASE goes(t, "ended", "stopped")
          BY <2>3, <5>1
        <5>2. CASE goes(t, "ignored", "waiting")
          BY <2>3, <5>2
        <5>3. QED BY <2>3, <5>1, <5>2
      <4>2. \A c \in Captors : busyLock' = c <=> at'[c] \in Capturing
        BY <2>1, <4>1
      <4>3. QED BY <2>1, <2>3, <4>1, <4>2 DEF keyVars, heardVars
    <3>2. WakePart'
      BY <2>1, <2>3 DEF heardVars
    <3>3. QED BY <3>1, <3>2
  <2>4. CASE t = "wake" /\ goes(t, "pressed", "trying") /\ wakeEvent' = FALSE
             /\ UNCHANGED <<pressEvent, releaseEvent>>
    BY <2>1, <2>4 DEF keyVars, heardVars
  <2>5. QED BY <1>2, <2>2, <2>3, <2>4 DEF Clears
<1>3. CASE Acquires(t)
  BY <1>3 DEF Acquires, keyVars, eventVars
<1>4. CASE Ignores(t)
  BY <1>4 DEF Ignores, keyVars, eventVars, heardVars
<1>5. CASE Arms(t)
  <2>1. /\ UNCHANGED <<key, presses, pressEvent, releaseEvent, wakeEvent, busyLock, phrases, heard>>
        /\ stopEvent' = FALSE /\ goes(t, "arming", "recording")
    BY <1>5 DEF Arms, keyVars, heardVars
  <2>2. /\ mic'.autoStop = (t = "wake") /\ mic'.count = 0 /\ mic'.armed = TRUE
        /\ mic' \in [armed : BOOLEAN, autoStop : BOOLEAN, count : 0..MaxRecordingFrames,
                     silence : 0..SilenceFramesToStop]
    BY <1>5 DEF Arms
  <2>3. CASE t = "wake"
    BY <2>1, <2>2, <2>3
  <2>4. CASE t = "hotkey"
    BY <2>1, <2>2, <2>4
  <2>5. QED BY <2>3, <2>4
<1>6. CASE Disarms(t)
  <2>1. /\ UNCHANGED <<key, presses, pressEvent, releaseEvent, wakeEvent, stopEvent, busyLock, phrases,
                       heard>>
        /\ goes(t, "stopped", "transcribing") \/ goes(t, "stopped", "finally")
    BY <1>6 DEF Disarms, keyVars, eventVars, heardVars
  <2>2. /\ mic'.autoStop = mic.autoStop /\ mic'.count = mic.count /\ mic'.armed = FALSE
        /\ mic' \in [armed : BOOLEAN, autoStop : BOOLEAN, count : 0..MaxRecordingFrames,
                     silence : 0..SilenceFramesToStop]
    BY <1>6 DEF Disarms
  <2>3. CASE t = "wake"
    BY <2>1, <2>2, <2>3
  <2>4. CASE t = "hotkey"
    BY <2>1, <2>2, <2>4
  <2>5. QED BY <2>3, <2>4
<1>7. CASE Transcribes(t)
  BY <1>7 DEF Transcribes, keyVars, eventVars, heardVars
<1>8. CASE Finally(t)
  BY <1>8 DEF Finally, keyVars, heardVars
<1>9. CASE Unlocks(t)
  BY <1>9 DEF Unlocks, keyVars, eventVars, heardVars
<1>10. CASE Takes(t, "announcing", "telling") \/ Takes(t, "reporting", "reported")
  BY <1>10 DEF Takes, keyVars, eventVars, heardVars
<1>11. CASE Tells(t, "telling", "listening", "arming") \/ Tells(t, "reported", "utterance", "finally")
  BY <1>11 DEF Tells, keyVars, eventVars, heardVars
<1>12. QED
  BY <1>1, <1>2, <1>3, <1>4, <1>5, <1>6, <1>7, <1>8, <1>9, <1>10, <1>11 DEF Captures

LEMMA FrameStep ==
  ASSUME ThreadTypeOK, WakePart, ProcessFrame
  PROVE  ThreadTypeOK' /\ WakePart'
<1> USE EarsAssumption DEF ThreadTypeOK, WakePart, AutoStopIsWake, NoStaleJudgement, StopIsDue,
        NotCutShort, NoPhraseLeft, StartWasHeard, WakeStarts, Threads, Captors, Places, Capturing,
        goes
<1>1. CASE OnWake
  <2>1. /\ phrases' \in 0..MaxPhrases /\ heard' = (heard \/ busyLock = "none")
        /\ UNCHANGED <<key, presses, pressEvent, releaseEvent, wakeEvent, stopEvent, busyLock, mic>>
    BY <1>1 DEF OnWake, keyVars, eventVars
  <2>2. CASE busyLock = "none"
    <3>1. goes("worker", "frame", "waking") /\ heard'
      BY <1>1, <2>1, <2>2 DEF OnWake
    <3>2. ThreadTypeOK'
      BY <2>1, <3>1
    <3>3. WakePart'
      BY <2>1, <2>2, <3>1
    <3>4. QED BY <3>2, <3>3
  <2>3. CASE busyLock # "none"
    <3>1. goes("worker", "frame", "levelling") /\ heard' = heard
      BY <1>1, <2>1, <2>3 DEF OnWake
    <3>2. ThreadTypeOK'
      BY <2>1, <3>1
    <3>3. WakePart'
      BY <2>1, <3>1
    <3>4. QED BY <3>2, <3>3
  <2>4. QED BY <2>2, <2>3
<1>2. CASE SetsWake
  <2>1. /\ wakeEvent' = TRUE /\ at["worker"] = "waking"
        /\ UNCHANGED <<key, presses, pressEvent, releaseEvent, stopEvent, busyLock, mic, phrases, heard>>
    BY <1>2 DEF SetsWake, keyVars, heardVars
  <2>2. at' = [(IF at["wake"] = "waiting" THEN [at EXCEPT !["wake"] = "pressed"] ELSE at)
                 EXCEPT !["worker"] = "levelling"]
    BY <1>2, Wakes DEF SetsWake
  <2>3. /\ at' \in [Threads -> Places]
        /\ at'["worker"] = "levelling" /\ at'["hotkey"] = at["hotkey"]
        /\ at'["wake"] = IF at["wake"] = "waiting" THEN "pressed" ELSE at["wake"]
    BY <2>2
  <2>4. ThreadTypeOK'
    BY <2>1, <2>3
  <2>5. WakePart'
    BY <2>1, <2>3
  <2>6. QED BY <2>4, <2>5
<1>3. CASE Records
  <2>1. PICK silent \in BOOLEAN : mic' = recorded(silent)
    BY <1>3 DEF Records
  <2>2. /\ mic'.armed = mic.armed /\ mic'.autoStop = mic.autoStop
        /\ mic'.count \in 0..MaxRecordingFrames /\ mic.count <= mic'.count
        /\ mic'.silence \in 0..SilenceFramesToStop
        /\ mic' \in [armed : BOOLEAN, autoStop : BOOLEAN, count : 0..MaxRecordingFrames,
                     silence : 0..SilenceFramesToStop]
    <3> DEFINE count == upTo(mic.count + 1, MaxRecordingFrames)
               silence == IF ~(mic.autoStop /\ count >= MinSpeechFrames) THEN mic.silence
                          ELSE IF silent THEN upTo(mic.silence + 1, SilenceFramesToStop) ELSE 0
    <3>1. count \in 0..MaxRecordingFrames /\ mic.count <= count
      BY DEF upTo
    <3>2. silence \in 0..SilenceFramesToStop
      BY DEF upTo
    <3>3. mic' = [mic EXCEPT !.count = count, !.silence = silence]
      BY <2>1 DEF recorded
    <3> HIDE DEF count, silence
    <3>4. QED BY <3>1, <3>2, <3>3
  <2>3. CASE isOver(mic')
    <3>1. goes("worker", "recording", "stopping")
      BY <1>3, <2>3 DEF Records
    <3>2. mic'.autoStop /\ mic'.count >= MinSpeechFrames
      BY <2>3 DEF isOver
    <3>3. QED BY <1>3, <2>2, <3>1, <3>2 DEF Records, keyVars, eventVars, heardVars
  <2>4. CASE ~isOver(mic')
    <3>1. goes("worker", "recording", "frame")
      BY <1>3, <2>4 DEF Records
    <3>2. QED BY <1>3, <2>2, <3>1 DEF Records, keyVars, eventVars, heardVars
  <2>5. QED BY <2>3, <2>4
<1>4. CASE SetsStop
  <2>1. /\ stopEvent' = TRUE /\ at["worker"] = "stopping"
        /\ UNCHANGED <<key, presses, pressEvent, releaseEvent, wakeEvent, busyLock, mic, phrases, heard>>
    BY <1>4 DEF SetsStop, keyVars, heardVars
  <2>2. at' = [(IF at["wake"] = "recording" THEN [at EXCEPT !["wake"] = "stopped"] ELSE at)
                 EXCEPT !["worker"] = "frame"]
    BY <1>4, Wakes DEF SetsStop
  <2>3. /\ at' \in [Threads -> Places]
        /\ at'["worker"] = "frame" /\ at'["hotkey"] = at["hotkey"]
        /\ at'["wake"] = IF at["wake"] = "recording" THEN "stopped" ELSE at["wake"]
    BY <2>2
  <2>4. ThreadTypeOK'
    BY <2>1, <2>3
  <2>5. WakePart'
    BY <2>1, <2>3
  <2>6. QED BY <2>4, <2>5
<1>5. CASE NoPhrase \/ NoLevel \/ Samples
  BY <1>5 DEF NoPhrase, NoLevel, Samples, keyVars, eventVars, heardVars
<1>6. CASE Takes("worker", "levelling", "telling") \/ Tells("worker", "telling", "level", "sampling")
  BY <1>6 DEF Takes, Tells, keyVars, eventVars, heardVars
<1>7. QED
  BY <1>1, <1>2, <1>3, <1>4, <1>5, <1>6 DEF ProcessFrame

LEMMA KeyStep ==
  ASSUME ThreadTypeOK, WakePart, OnPress \/ OnRelease
  PROVE  ThreadTypeOK' /\ WakePart'
<1> USE EarsAssumption DEF ThreadTypeOK, WakePart, AutoStopIsWake, NoStaleJudgement, StopIsDue,
        NotCutShort, NoPhraseLeft, StartWasHeard, WakeStarts, Threads, Captors, Places, Capturing
<1>1. /\ key' \in BOOLEAN /\ presses' \in 0..MaxPresses
      /\ pressEvent' \in BOOLEAN /\ releaseEvent' \in BOOLEAN
      /\ UNCHANGED <<wakeEvent, stopEvent, busyLock, mic, phrases, heard>>
  <2>1. CASE OnPress
    <3>1. presses' = presses + 1 /\ presses < MaxPresses /\ presses \in 0..MaxPresses
      BY <2>1 DEF OnPress
    <3>2. presses' \in 0..MaxPresses
      BY <3>1
    <3>3. QED BY <2>1, <3>2 DEF OnPress, heardVars
  <2>2. CASE OnRelease
    BY <2>2 DEF OnRelease, heardVars
  <2>3. QED BY <2>1, <2>2
<1>2. /\ at' \in [Threads -> Places]
      /\ at'["wake"] = at["wake"] /\ at'["worker"] = at["worker"]
      /\ at'["hotkey"] \in Capturing <=> at["hotkey"] \in Capturing
  <2>1. CASE OnPress
    <3>1. at' = IF at["hotkey"] = "waiting" THEN [at EXCEPT !["hotkey"] = "pressed"] ELSE at
      BY <2>1, Wakes DEF OnPress
    <3>2. QED BY <3>1
  <2>2. CASE OnRelease
    <3>1. at' = IF at["hotkey"] = "recording" THEN [at EXCEPT !["hotkey"] = "ended"]
                ELSE IF at["hotkey"] = "ignoring" THEN [at EXCEPT !["hotkey"] = "ignored"]
                ELSE at
      BY <2>2, Wakes DEF OnRelease
    <3>2. QED BY <3>1
  <2>3. QED BY <2>1, <2>2
<1>3. ThreadTypeOK'
  BY <1>1, <1>2
<1>4. WakePart'
  BY <1>1, <1>2
<1>5. QED BY <1>3, <1>4

-----------------------------------------------------------------------------
(***************************************************************************)
(* The inductive invariant.                                                *)
(***************************************************************************)
LEMMA EarsIInvStep == EarsIInv /\ [EarsNext]_earsVars => EarsIInv'
<1> SUFFICES ASSUME EarsIInv, [EarsNext]_earsVars PROVE EarsIInv'
  OBVIOUS
<1>1. LinkTypeOK /\ ThreadTypeOK /\ WakePart /\ LiveConnectionKept
  BY DEF EarsIInv, EarsTypeOK, LinkTypeOK, ThreadTypeOK, WakePart, Places, Messages
<1>2. LinkTypeOK' /\ LiveConnectionKept'
  BY <1>1, LinkStep
<1>3. ThreadTypeOK' /\ WakePart'
  <2>1. CASE UNCHANGED <<keyVars, eventVars, busyLock, at, mic, heardVars>>
    BY <1>1, <2>1 DEF keyVars, eventVars, heardVars, ThreadTypeOK, WakePart, AutoStopIsWake,
       NoStaleJudgement, StopIsDue, NotCutShort, NoPhraseLeft, StartWasHeard, WakeStarts
  <2>2. CASE AcceptLoop \/ CoreReads \/ TurnEnds \/ CoreDrops \/ CoreConnects \/ UNCHANGED earsVars
    BY <2>1, <2>2 DEF AcceptLoop, CoreReads, TurnEnds, CoreDrops, CoreConnects, earsVars
  <2>3. CASE OnPress \/ OnRelease
    BY <1>1, <2>3, KeyStep
  <2>4. CASE \E t \in Captors : Captures(t)
    BY <1>1, <2>4, CaptureStep
  <2>5. CASE ProcessFrame
    BY <1>1, <2>5, FrameStep
  <2>6. QED BY <2>2, <2>3, <2>4, <2>5 DEF EarsNext
<1>4. EarsTypeOK'
  BY <1>2, <1>3 DEF EarsTypeOK, LinkTypeOK, ThreadTypeOK, Places, Messages
<1>5. QED BY <1>2, <1>3, <1>4 DEF EarsIInv, WakePart

\* The inductive invariant: at no time is a judgement about an earlier recording, or a phrase
\* heard in one, still on its way to the wake-word thread when it starts another.
THEOREM EarsInvariant == EarsSpec => []EarsIInv
<1>1. EarsInit => EarsIInv
  <2> SUFFICES ASSUME EarsInit PROVE EarsIInv
    OBVIOUS
  <2> USE EarsAssumption DEF EarsInit, Threads, Captors, Capturing
  <2>1. at["wake"] = "waiting" /\ at["hotkey"] = "waiting" /\ at["worker"] = "frame"
    OBVIOUS
  <2>2. wire \in Seq({"listening", "utterance", "level"}) /\ Len(wire) = 0
    OBVIOUS
  <2>3. mic \in [armed : BOOLEAN, autoStop : BOOLEAN, count : 0 .. MaxRecordingFrames,
                 silence : 0 .. SilenceFramesToStop]
    OBVIOUS
  <2>4. EarsTypeOK
    <3>1. \A t \in Captors : busyLock = t <=> at[t] \in Capturing
      BY <2>1
    <3>2. at \in [Threads -> Places]
      BY DEF Places
    <3>3. LinkTypeOK
      <4>1. /\ held = 0 /\ accepted = 0 /\ conns = 1 /\ coreConn = 1 /\ inTurn = FALSE
            /\ link = [t \in Threads |-> 0]
        OBVIOUS
      <4>2. MaxConns \in Nat /\ 1 <= MaxConns
        OBVIOUS
      <4>3. held \in 0..conns /\ accepted \in 0..conns /\ conns \in 1..MaxConns /\ coreConn \in {0, conns}
        BY <4>1, <4>2
      <4>4. link \in [Threads -> 0..conns]
        BY <4>1
      <4>5. inTurn \in BOOLEAN
        BY <4>1
      <4>6. Len(wire) <= WireCap
        BY <2>2
      <4>7. QED BY <2>2, <4>3, <4>4, <4>5, <4>6 DEF LinkTypeOK, Messages
    <3>4. /\ key \in BOOLEAN /\ presses \in 0..MaxPresses
          /\ {pressEvent, releaseEvent, wakeEvent, stopEvent} \subseteq BOOLEAN
          /\ busyLock \in Captors \cup {"none"} /\ phrases \in 0..MaxPhrases /\ heard \in BOOLEAN
      <4>1. key \in BOOLEAN /\ heard \in BOOLEAN
        OBVIOUS
      <4>2. {pressEvent, releaseEvent, wakeEvent, stopEvent} \subseteq BOOLEAN
        OBVIOUS
      <4>3. presses \in 0..MaxPresses /\ phrases \in 0..MaxPhrases
        OBVIOUS
      <4>4. busyLock \in Captors \cup {"none"}
        OBVIOUS
      <4>5. QED BY <4>1, <4>2, <4>3, <4>4
    <3> HIDE DEF EarsInit, Threads, Captors, Capturing
    <3>5. QED BY <2>3, <3>1, <3>2, <3>3, <3>4 DEF EarsTypeOK, LinkTypeOK, Messages, Places
  <2>5. QED
    BY <2>1, <2>4 DEF EarsIInv, AutoStopIsWake, NoStaleJudgement, StopIsDue, NotCutShort,
       NoPhraseLeft, StartWasHeard, WakeStarts, LiveConnectionKept
<1>2. EarsIInv /\ [EarsNext]_earsVars => EarsIInv'
  BY EarsIInvStep
<1>3. QED BY <1>1, <1>2, PTL DEF EarsSpec

-----------------------------------------------------------------------------
(***************************************************************************)
(* What follows from it.                                                   *)
(***************************************************************************)
\* The lock is held by exactly the thread that captures, and everything else is
\* of its type, however the threads interleave (run_hotkey_forever,
\* run_wakeword_forever, make_wake_handler).
THEOREM EarsTypeCorrect == EarsSpec => []EarsTypeOK
<1>1. EarsIInv => EarsTypeOK
  BY DEF EarsIInv
<1>2. QED BY <1>1, EarsInvariant, PTL

\* A wake-word recording that stops has had its grace period: the stop event is
\* never that of an earlier one (arm clears it, and the worker sets it late).
THEOREM NoCommandCutShort == EarsSpec => []NotCutShort
<1>1. EarsIInv => NotCutShort
  BY DEF EarsIInv
<1>2. QED BY <1>1, EarsInvariant, PTL

\* An emit that fails on an old connection leaves the new one in place
\* (ConnectionHolder.emit compares before it forgets).
THEOREM LiveConnectionAlwaysKept == EarsSpec => []LiveConnectionKept
<1>1. EarsIInv => LiveConnectionKept
  BY DEF EarsIInv
<1>2. QED BY <1>1, EarsInvariant, PTL

\* The lock goes to the wake-word thread only if the phrase was said, outside any
\* capture, since that thread last had it (the wake event cleared in `finally`).
THEOREM NoCaptureUnheard == EarsSpec => NoSpuriousCapture
<1>1. EarsIInv /\ [EarsNext]_earsVars => [busyLock' = "wake" /\ busyLock # "wake" => heard]_earsVars
  <2> SUFFICES ASSUME EarsIInv, EarsNext, busyLock' = "wake", busyLock # "wake"
               PROVE  heard
    OBVIOUS
  <2>1. \E t \in Captors : Acquires(t) \/ Unlocks(t)
    BY DEF EarsNext, OnPress, OnRelease, AcceptLoop, Captures, FindsSet, Clears, Ignores, Takes,
       Tells, Arms, Disarms, Transcribes, Finally, ProcessFrame, OnWake, NoPhrase, SetsWake,
       NoLevel, Samples, Records, SetsStop, CoreReads, TurnEnds, CoreDrops, CoreConnects
  <2>2. at["wake"] = "trying"
    BY <2>1 DEF Acquires, Unlocks, goes
  <2>3. QED BY <2>2 DEF EarsIInv, StartWasHeard, Capturing
<1>2. QED BY <1>1, EarsInvariant, PTL DEF EarsSpec, NoSpuriousCapture
=============================================================================
