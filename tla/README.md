# JARVIS in TLA+

A verification project kept beside the JARVIS repository: TLA+ modules of the parts of
the system where interleavings, timeouts and crashes decide whether it is correct, TLC
configurations that check them on small instances, and TLAPS proofs of what matters most
for every instance. All paths below are relative to the repository's root.

Run, in this directory:

    tlc -workers 2 -config gate.cfg MCGate.tla      (any run of the table below)
    tlapm GateProofs.tla                            (any of the *Proofs modules)

## 1. The system

JARVIS is a voice assistant for one owner on one Mac. `core` (Node, TypeScript) is one
process with one event loop; `senses/ears`, `senses/voice` and `senses/eyes` are Python
daemons, each on its own Unix socket; the dashboard (`ui/`) is a browser page on an HTTP
server with a WebSocket; SQLite holds memory, approvals and the audit log.

    owner --speech--> ears --utterance--> core --speak--> voice --speech--> owner
                                         |   |
              dashboard <--WebSocket-----+   +--arm/capture/close--> eyes --> camera
              (inject, decide)           |
                                         +--> skills --> gate --> executors --> macOS, MCP

### Inventory

| component | state it keeps | operations | talks to | what makes it correct |
|---|---|---|---|---|
| approval gate, `core/gate` | `approvals` and `audit_log` tables; a map of timers and waiting callers | `propose`, `decide`, expiry timer, executor continuation, image cleanup | skills (promise), dashboard and command line (decisions), executors, file system | one effect per request, only by timely consent; log and rows agree; callers told the truth; survives a crash at any write |
| conversation turns, `core/main.ts` + `core/skills/conversation` | the single slot of `ask()`, the `events` table, the state light, what the ears loop awaits | `handleUtterance`, the ears loop, `ask`, `offerUtterance`, its timer, cancellation | ears, dashboard, skills, voice | nothing said is lost or recorded twice; one reply per turn; answers go to the question that was asked; nobody waits for ever |
| fact extraction scheduler, `core/factExtractionScheduler.ts` | a buffer and a timer | `onUtterance`, `flush` | turns, fact extraction | no utterance lost, repeated or left waiting |
| camera daemon, `senses/eyes` | the session and gesture holders, sessions (open, timeouts, frames), files, threads | `handle_message`, the timeout poller, hand-tracking threads | core, the camera device | the camera closes itself; no recorded frame outlives its session; threads do not wedge |
| camera handle, relay, look skill | `state` and one pending request | `open`, `capture`, `close`, `offerEvent`, `relayCameraStatus` | eyes, turns, gate | each skill gets the answer to what it asked; timeouts are announced |
| pointer control and blur, `senses/eyes/pointer.py`, `blur.py` | a keyboard listener, the last state of the key, a segmenter | enable, disable, click, clean-up with the loop | eyes | one click per press; no listener is left when the mode is off |
| model router, `core/router` | a token bucket and a concurrency limiter per provider | `routeChat`, `routeVision`, `classifyLane` | providers over HTTP | each provider tried once, in order; nothing spoken twice; never over the rate; no slot lost; every reply ends |
| fact extraction, `core/factExtraction.ts` | none between calls | `extractAndRememberFacts` | router, gate | what it finds is proposed, and no one waits for it |
| skill registry and dispatch, `core/skills` | loaded skills and example embeddings | `loadAll`, `dispatch`, `disambiguate` | router, embedder, skills | the unrivalled skill or a question to a model; a broken or duplicate skill disables only itself |
| ears daemon, `senses/ears` | busy lock, four events, the recording, connection holder | hotkey, wake word, capture, transcription, accept loop | core, microphone | one capture at a time, none unasked for, cut short or endless |
| voice daemon, `senses/voice` | none between messages | speak, report speaking | core, `say` | the dashboard's light says when it speaks |
| sense connections, `core/senseConnection.ts`, `core/ipc.ts` | socket, connected flag | connect with retry, reconnect for ever | the daemons | the connection core has is the one the daemon writes to; drops are seen |
| memory, `core/memory` | `events`, `facts`, `observations`, indexes | append, upsert, recall, index | turns, skills, gate executors | recall gives a reply what both searches rank highest and it does not have yet |
| dashboard server and client, `core/ws.ts`, `core/http.ts`, `ui/src/lib/use-jarvis.ts` | sockets, history rings; the page's copy of everything | broadcast, backfill, poll, decide, optimistic writes, inject | core | what is shown converges to what is, and nothing decided stays to be decided |
| skills, `skills/*`, and executors, `core/executors`, `core/mcp` | shopping rows, reminders; child processes, server clients | each intent: extract, ask, propose, report | gate, router, owner, macOS, servers | what the owner is told has happened, happened |

### What is hard here

* **One event loop, many turns.** Between two awaits core runs without a break, but the
  dashboard can start a turn while another waits for a skill, a model, an approval or the
  owner. Slots made for "one at a time" (`ask`, the camera request) then have two users.
* **Timers against completions.** The expiry of an approval, the timeout of a question,
  the quiet period of the extraction and the two camera timeouts all race something.
* **Crashes between writes.** Rows and audit lines are separate autocommitted
  statements; timers and waiting callers are memory only.
* **Threads in eyes.** The message thread, the poller and a hand-tracking thread share
  holders that lock a single access, never a whole handler.
* **Uncorrelated messages.** Replies of eyes carry no request id and share the socket
  with events it sends on its own.
* **Streams that break.** A reply is spoken while it arrives; a provider may fail or fall
  silent after the first sentence, with other turns on the same throttles.
* **Threads in ears.** Hotkey, wake word, audio worker and accept loop share a lock, four
  events and a socket whose other end core stops reading during a turn.
* **Copies.** A tab holds copies that a fetch, a poll, a socket and its own optimistic
  writes change in any order; a skill acts on a list it read before the owner answered.

`PROJECT.json` lists the hazards at their lines with the properties that watch them.

## 2. Plan

The order in which the modules were written, the most important behaviour first: the gate
and its contract, with proofs; turns with the extraction scheduler; the camera daemon with
core's side; the router with its throttles and contract, with proofs; dispatch, recall and
the reply on top of the router; ears with its connection; voice and the dashboard's socket;
executors, skills and the dashboard's lists; pointer control.

Compositions: `Turns` with `FactScheduler`; `Camera` with `Eyes`; `Reply` with `Router`,
`TokenBucket`, `Dispatch` and `Recall`; `Dashboard` with `Voice`;
`Panels` with `Skills` and `Executors`. `Turns` and `Reply` are two views of
`handleUtterance`, one of who waits for whom and one of what is said: together they are
beyond TLC.

Abstract specifications: `ApprovalContract`, which `Gate` implements, and `FirstAnswer`,
which `Router` implements; both refinements are checked and proved. `Dispatch` and
`Recall` are compared with reference definitions that name no sort and no order of
evaluation; that they agree is checked and proved.

Worth modelling next: a core that disconnects from eyes with a request pending; two
tracking loops in one run. What is proved is in section 5, with what is left to TLC and why.

## 3. The modules

| module | models | how |
|---|---|---|
| `ApprovalContract` | what the gate promises | five steps that name no database, timer or socket: ask, exempt, grant (with at most one effect, before the deadline), refuse, clock |
| `Gate` | `core/gate/*`, the executors' contract | state machine |
| `GateProofs` | - | theorems about `Gate` |
| `FactScheduler` | `core/factExtractionScheduler.ts` | actions conjoined with those of `Turns` |
| `Turns` | `handleUtterance`, the ears loop, `conversation/ipc.ts`, `cancel.ts` | state machine |
| `TurnsProofs` | - | theorems about `Turns` with `FactScheduler` |
| `Eyes` | `senses/eyes` | state machine |
| `Camera` | `core/skills/camera.ts`, the relay, the look skill, composed with `Eyes` | state machine |
| `CameraProofs` | - | theorems about `Camera` with `Eyes` |
| `TokenBucket` | `tokenBucket.ts`, `concurrencyLimiter.ts` | operators on their state |
| `FirstAnswer` | what a lane's chain promises its caller | five steps without throttle, request or stream: open, give way, be heard, answer, fail |
| `Router` | `core/router/router.ts`, the providers, `wiring.ts` | state machine |
| `Lists` | `Array.sort` and `Array.filter` as core uses them | operators |
| `Dispatch` | `loader.ts`, `registry.ts`, `embeddingMatch.ts`, the decision of `dispatch.ts` | operators and their reference |
| `Recall` | `core/memory/recall.ts`, `rrf.ts`, the two searches | operators and their reference |
| `Reply` | classifier, dispatch, `converse.ts`, `sentenceStream.ts`, composed with `Router` and given its memory by `Recall` | state machine |
| `ReplyProofs` | - | theorems about `Router`, about `Reply` on top of it, and about `Dispatch` and `Recall` |
| `Ears` | `senses/ears`, core's end of its socket | state machine |
| `EarsProofs` | - | theorems about `Ears` |
| `Voice` | `senses/voice`, core's end of its socket | actions conjoined with those of `Dashboard` |
| `Dashboard` | `core/ws.ts`, the socket and the approvals of `use-jarvis.ts`, composed with `Voice` | state machine |
| `DashboardProofs` | - | theorems about `Dashboard` with `Voice` |
| `Executors` | `core/executors/*`, `callTool` | for each, the set of ways it can end |
| `Skills` | `skills/*/index.ts` but look, `core/factExtraction.ts` | state machine |
| `Panels` | `core/http.ts`, the lists of `use-jarvis.ts`, composed with `Skills` | state machine |
| `PanelsProofs` | - | theorems about `Skills` as `Panels` runs it |
| `Pointer` | pointer control in `gestures.py`, `main.py`, `pointer.py` | state machine |
| `PointerProofs` | - | theorems about `Pointer` |
| `MCGate`, `MCTurns`, `MCCamera`, `MCReply`, `MCEars`, `MCDashboard`, `MCPanels`, `MCPointer` | - | the modules TLC runs, one per composition |

Operators marked "Mutant" are plausible bugs (a guard dropped, a step forgotten). They are
used by no specification; they exist to show that each property notices its bug.

### Gate

An action is an uninterrupted run of the event loop: `ProposeGreen`, `ProposeYellow`, one
action per early return of `decide()` (`DecideReplay`, `DecideTooLate`, `DecideReject`,
`DecideApproveOnly`, `DecideApproveAndRun`), its continuation after the executor's await
(`ExecutorSucceeds`, `ExecutorFails`), the timer callback (`ExpiryTimer`), the completion
of an `unlink` (`UnlinkDone`). `Restart` and the three `CutShort` actions are a crash
between handlers, and inside one between two database writes.

`state`, `expiresAt`, `capability`, `observation` are columns of a row (the payload only as
"is an observation that owns an image"); `audit` is the set of events logged for a
request, a replay told from a rejection by its reason; `pending`, `executing`, `unlinking`
and `outcome` are process memory and are lost in a crash. A nonce is named after the
request it was minted for, so a decision with another nonce is any other element of
`Requests`. The signature made and verified in the same process with the same key cannot
fail, so that branch of `decide()` does not exist in the model.

One fact about Node carries weight: the `MEMORY_WRITE` executor never yields, so the
continuation of `decide()` runs before any timer (`MicrotasksDrained`). Without it an
expiry could delete the image of an observation that has just been remembered
(`RememberedImageKept`, whose mutant drops exactly that).

### Turns

`stage` says how far an utterance is: said, queued in the ears socket, dispatching,
conversing, handled by a skill, asking, used as an answer, done. Speech goes through
`earsQueue` and the ears loop, which takes nothing while it awaits a turn (`earsTurn`);
typed utterances call `handleUtterance` at once (`Inject`). `pending` is the slot of
`ask()`. A promise settled by a handler is consumed in the same macrotask, so the answer
and the resumption of the skill, or the cancellation and the catch block, are one action.
The dispatcher, the skills and the models are nondeterministic: a dispatch ends in a
skill, in conversation, in a reply or in an error; a skill asks up to `MaxAsks` questions.
No skill of the repository catches a failed `ask()`, so a timeout or a cancellation ends
its turn.

### Eyes and Camera

Every access to state that two threads share is an action: looking up the holder, opening
the device, setting the holder, each step of a capture (read the device and make the
directory, write the file, record it, report it) and each of closing (signal the tracking
loop, wait, clear its holder; set `closed` and release the device, delete the recorded
frames, look at the directory, remove it; announce, forget). A capture that has passed its
checks may do any of its steps between two of a close, so `rmdir` may meet a new frame and
the write a removed directory. Both exceptions leave their handlers (`raises`): the message
thread logs and takes the next message; the poller has no `try`, and its thread is dead.
`doomed` remembers the frames recorded when a session was closed. `pc` says where the message
thread and the poller are and `work` the session they hold; `loop` where each tracking
thread is. The clock is reduced to which timeout of a session has passed (`due`); use of the
camera puts the idle one back, never the cap.

`Camera` adds core: the handle's one slot (`pending`), the relay, and the look skill of
each turn in `Dispatches` as an intent that opens the session and then captures, closes,
starts or stops tracking. `Dispatches` with one element is a house where everything is
spoken (turns are sequential); with two, one that also uses the dashboard.

### Router and Reply

A caller's routed call (`call[t]`) is a lane, a depth in the lane's chain, and where the
request of that provider is: refused by a throttle, fetching, streaming, over. A timeout
aborts a request wherever it is, so it is a `FetchFails` or a `StreamFails`. Tokens are
counted in fractions of 1/`Minute`, so that the refill of `TokenBucket` is exact and the
rate can be stated without rounding; the clock may step back. `sent` remembers the time of
every request a provider let through.

`Reply` follows an utterance through the pleasantry guard, the lane classifier, dispatch
(embedding, decision, disambiguation by a model), a skill with its own model calls, or
recall and the streamed conversation. Text is a sequence of fragments named after the
provider they came from; `spoken` and `recorded` are what the voice and the transcript got.
`Dispatch` computes the decision from the similarity of the utterance to every example, as
`best`, the lane filter, the floor, the score and the margin do; `Unrivalled`, `Hopeless`
and `IsShortlist` state what it should be from the manifests alone: which intent is run
unasked, when none is, and which few a model is asked about. A sort is `ranked`, which puts
each member where as many as come before it leave it: the code's sorts are stable, so the
order they sort by includes the one of arrival. `Recall` fuses two rankings in exact arithmetic
(`Scale` makes every 1 / (60 + rank) whole) and is compared with a reference that knows
nothing of the order of cap and filter.

### Ears

Each thread is a place (`at`); every access to the lock, an event, the recording or the
connection holder is an action. `threading.Event` is modelled with its wake-up: a thread
waiting for an event that is set and cleared at once still wakes. The socket to core holds
`WireCap` messages, and core reads none while it handles an utterance (the loop in
`main.ts` awaits the turn), so a send can block a capture for the length of a turn. Core
drops the connection and makes a new one at any time.

### Voice, Dashboard and Panels

`Voice` is the daemon's loop and what core takes it for; `Dashboard` adds one tab: its
socket with the backfill core sends when it opens, its one fetch of the pending approvals,
which crosses the socket's events, and its decisions. Other tabs and the command line
are there by what they decide. `Panels` is the other half of the tab: the shopping and task
lists with their polls, of which `MaxFetches` may be under way and be answered in any order,
and the writes shown before they are served. Below it `Skills` runs every course of every
skill between its model call, its questions, its proposal and what it says, with
`Executors` giving for each executor what it may answer and whether the effect took place: a
process may have its effect and still exit with an error (`doneYetFailed`), or exit well
without one (`hollow`). The latter is open to every executor that knows its process by the
exit code alone: opening an application or an address, media, volume, brightness, writing
the clipboard, a screenshot, the focus mode. `closeApp` awaits two processes, a look at what
runs and a quit, and the application may end by itself in between (`overtaken`: it is closed,
but not by the quit, which exits well all the same); that an application which runs when it
is told to quit has quit if `osascript` exits well is taken from macOS. `did` and `said`
remember what has come about for a handling and what its executors said to be done, and
what the owner is told is held against both (`Believed`, the acts held against `said`).
Fact extraction is one more such course: its model call may find nothing, and the fact it
finds is proposed without anyone waiting for the decision; each further fact of a batch is
a handling of its own.

Each tab here writes to one row at a time: a second click on a row while its write is
under way is left out, and so is a second write of the task.

### Pointer

One tracking loop with its thread, the message thread and the keyboard listeners. CPython
switches threads at calls, so what has no call in between is one action: loading the
listener, reading its key (`seen` is the listener loaded, which may be closed and replaced by
now), looking at the pose, clicking, reporting and remembering the click; closing a listener,
dropping it. The operating system repeats a key that is held, so a listener made meanwhile
hears it too. Whatever calls something that may raise may fail: moving the cursor, the click,
what follows it, making a listener, and closing the blurrer, which `run`'s `finally` does
before it closes the listener. Two histories remember what the code cannot rule out (section
4): `excused`, the presses that may click again, and `left`, the listeners that the loop's
thread could not close. A listener that is told to stop does.

## 4. The runs

| run | shows | instance |
|---|---|---|
| `gate` | all safety properties, the inductive invariant, the refinement of `ApprovalContract`, and liveness | 2 requests, one capability of each treatment, 1 crash, 3 instants |
| `gate_lifecycle` | **violation** of `ExpiredNeverRuns` | 2 requests |
| `turns` | transcript, answers, cancellation, extraction, and liveness | 2 spoken utterances (one a "stop"), 1 typed, 2 questions a turn, batches of 2 |
| `turns_spoken_answer` | **violation** of `EarsListensWhileAsking` | 1 spoken, 1 typed |
| `reply` | throttles, what is heard against what is recorded, the refinement of `FirstAnswer`, the two references, and that replies end | 2 turns, nim with 1 slot and 1 request a minute before ollama or offline, answers of 2 fragments, 4 modules of which 2 load, 3 similarities for each of 7 examples (6 intents, 4 of them of sound skills), 4 events and rankings of up to 3 |
| `ears` | captures and the connection, and that captures end | 2 connections, 1 press, 2 wake phrases, recordings of 1 or 2 frames |
| `camera` | freshness, frames, announcements, the cap | 2 sessions, 2 frames, 3 intents in sequence, no hand tracking |
| `gestures` | nobody left waiting, threads come back | 1 session, 1 frame, 1 tracking loop, 2 overlapping turns |
| `camera_orphan` | **violation** of `CapAlwaysCloses` | 2 sessions |
| `dashboard` | lights and approvals of a tab | 1 request, 3 mishaps |
| `panels` | what the skills tell, and convergence of the lists | 1 handling, 2 rows, 1 reminder, 2 happenings, 2 fetches of a list under way |
| `pointer` | clicks and listeners | 3 presses, 5 messages, 3 clicks |

**Why the bounds are enough.** *gate*: rows never refer to one another, so two requests
suffice to confuse nonces; the lifetime is one tick and the clock runs one past it, so a
decision can be early, at the deadline and late; the five capabilities are one of each way
the code treats one (green with and without executor, yellow without, with an executor that
waits, with one that does not). *turns*: two turns suffice to fight over a slot and a third
utterance to answer, cancel or begin a turn beside them; batches of two make both the cap
and the quiet period flush. *reply*: two turns over one slot and one token make every
refusal happen; two fragments are a beginning and a rest; the three similarities lie just
below the floor, between floor and score, and at the score, a margin above the one before;
four intents compete in one lane, so a shortlist of three leaves one out; rankings of three
with four events have ties, overlaps and something cut off (the code keeps five). For
throttles, routing, dispatch and recall the proofs remove the bounds. *ears*: a stale event
or connection needs one old and one new capture or connection; a recording ends by silence
at one frame and by the cap at two. *camera*: a race needs an old session and a new one, and
a capture and its follow-up; three intents arm, use and re-arm; the second frame is the one
that is written while the first is deleted. *gestures*: one loop against
both threads, with every pair of requests overlapping. *dashboard*: a mishap each to die, to
drop and to reload around one request; requests are independent of each other in the tab and
in core. *panels*: one happening to change a list and one to race it; two fetches overtake
each other; the second row is the one a skill adds. *pointer*: on, off and on again, and
off or stopped, with a press before, during and after; as many clicks as presses, so one too
many shows while another press has none.

**Fairness.** `GateFairSpec`: time passes, due timers run, an unlink completes and
microtasks drain: the event loop does all of these. No fairness for the owner nor for an
executor that waits for a child process. `TurnsFairSpec`: only the two timers; a turn that
is not waiting for an answer may take for ever (the embedding request has no timeout).
`CameraFairSpec`: both threads of eyes are scheduled as long as they live, except while
reading the device, which may hang; core reads its socket. A thread that an exception has
ended never runs again, and the liveness properties say what that leaves. No fairness for
tracking threads, for timeouts passing nor for the owner. `ReplyFairSpec`: attempts are
made, a request that stays silent fails by its timeout, the offline provider answers, and
what awaits a call goes on; no provider is assumed to answer. `EarsSpec`: the operating
system runs every thread and frames keep coming (strong, as a step may be blocked by a lock
or a full socket again and again), and core reads when it is between turns. A turn need not
end, as no turn has a time limit, so `CaptureEnds` excepts a core that stays in one for ever
with the socket full (`SocketIsFull`): then `sendall` holds the lock for ever too.
`PanelsSpec`: the poll goes on (an interval), and a fetch that is tried again and again
succeeds some time (strong).

`CHECK_DEADLOCK FALSE` everywhere: these systems may come to rest, and bounds stop the
clock and the supply of requests.

### What disagrees with the repository's own words

Three behaviours contradict a document, a comment or a test's name and have a run that
exhibits them:

* *An approved, executed request can be reported "expired"* (`gate_lifecycle`):
  `decide()` leaves the timer armed while the executor runs.
* *A spoken question cannot be answered by voice* (`turns_spoken_answer`): the ears loop
  is awaiting the turn that asks.
* *A camera can stay on past both timeouts* (`camera_orphan`): the poller forgets a
  session it never closed.

These were met as well and have no run; where one touches a property, the property names
the exception:

* `core/gate/gate.ts:75`: expiry timers are not re-armed at start-up, so a request pending
  over a restart stays pending until it is decided (SPEC.md:369-376).
* `conversation/ipc.ts:49`: a second question drops the first caller, against the comment
  of the same lines.
* `skills/camera.ts:130`: two unsolicited events that land on pending requests shift the
  replies, and a follow-up returns the previous frame. `FreshUnlessCrossed` shows that this
  is the only way.
* `senses/eyes/session.py:156`, `skills/camera.ts:18-19` and SPEC.md:245-247: every captured
  frame is deleted on close, "no exceptions". A capture that has passed its checks when the
  session is closed writes its frame after the others were deleted, or records it too late;
  that one stays on disk. `RecordedFramesGo` shows that it is never more than this one, and
  never one recorded before the close.
* SPEC.md:243-244: "two timeouts, both announced". If such a capture writes between
  `close()`'s look at the directory and `rmdir` (`session.py:171-172`), the latter raises,
  out of `check_timeouts_forever` too (`main.py:241-257`): the poller's thread ends, this
  timeout is not announced, and no later session is timed out. `TimeoutIsAnnounced` shows
  that nothing else keeps one from being announced (`CaughtByCapture`), and `CapCloses`
  holds as long as the poller lives.
* `senses/eyes/main.py:216` and `gestures.py:285-290`: against the docstring of
  `set_pointer_control`, a keyboard listener stays that nobody closes if pointer control is
  switched on after the loop's own clean-up and before the holder is emptied, or if `run`'s
  `finally` cannot close the blurrer, which comes first. `NoListenerLeft` holds of every
  other listener (`left`).
* `senses/eyes/gestures.py:334-335`: "a held key fires exactly one click". It fires another
  if what follows the click raises before the key is remembered (line 353), and if a new
  listener resets what is remembered while the key is held, or while the loop's thread is
  about to read it from the old one. `OneClickUnlessExcused` holds of every other press
  (`excused`).
* `skills/launcher/index.ts:7`: JARVIS "never assumes something happened just because
  it asked". Of most processes it knows that they exited well (`Believed` in `Skills`).
* `core/main.ts:168`: a tab that opens during a camera session shows the camera idle, as
  the backfill has the sense connections only (SPEC.md section 6 has an indicator for every
  session). `LightsTellTheTruth` speaks of the lights whose last change the tab was sent.
* `ui/src/lib/use-jarvis.ts:271`: a decision clicked while no socket is open hides the
  request and goes nowhere (`crossed` in `Dashboard`).
* `ui/src/lib/use-jarvis.ts:318`: the comment has lists "only fetched on load"; they are
  polled (lines 144-152), which is what lets `StoresConverge` hold.
* `core/gate/db.ts:34`: the schema's comment names an audit event `replay_rejected` that
  the code writes as `rejected` with reason `replay`.

## 5. What is proved

`GateProofs.tla`, checked by `tlapm` with no assumption but `GateAssumption` (the
capabilities are capabilities; lifetime and bounds are naturals), so for any set of
requests, any lifetime, any bound of clock and crashes:

| theorem | statement |
|---|---|
| `GateTypeCorrect` | `GateSpec => []GateTypeOK` |
| `GateInvariant` | `GateSpec => []GateIInv` |
| `AuditNeverAhead`, `CallersToldTruth`, `EffectsAudited`, `ImagesKept` | the four safety invariants the run `gate` checks |
| `SpentForever` | `GateSpec => SpentStaysSpent`, an action property |
| `GateImplementsContract` | `GateSpec => Contract!CSpec`, the refinement |

*The argument.* None of the safety properties is inductive. `GateIInv` adds, in named
parts, what each stage of a request implies about everything else: an unproposed or green
request has no row; an undecided one has run nothing (`UndecidedIsUntouched`); a timer is
armed only for a request that is pending, or approved with its executor still running
(`TimerArmed`, the part that admits the late timer and so shapes the rest); a running
executor was approved, and if the row meanwhile says "expired" then the timer is gone and
the executor is not the one that never yields (`RunningWasApproved`); an image being
deleted belongs to a refused observation (`ImageFollowsRow`). `GateIInvStep` goes through
the actions one by one; the rest follows from the invariant. The refinement maps row, log
and green exemption to a consent (`ConsentOf`) and the number of executor calls to
effects; `ContractStep` shows each action to be one contract step about its own request or
a stutter, and rests on `ConsentIsPointwise`: an action on one request leaves the consent
of the others alone.

`ReplyProofs.tla`, first part, about the router alone: with no assumption but
`ThrottleAssumption` (capacity, minute and limit are positive) and `RouterAssumption`
(finitely many callers, the keyed services in an order without repetition), so for any
callers, services and limits:

| theorem | statement |
|---|---|
| `RouterTypeCorrect` | `RouterSpec => []RouterTypeOK` |
| `SlotsNeverLeak` | `RouterSpec => []SlotsMatchCalls` |
| `RateIsHeld` | `RouterSpec => []RateHeld` |
| `RouterIsFirstAnswer` | `RouterSpec => CallIsFirstAnswer`, the refinement |

*The argument.* `SlotsMatchCalls` is inductive with the types; what needs care is that
the counter is compared with a cardinality, so each step is shown to add one caller to the
holders of one provider, to remove one, or to leave them (`SlotTaken`, `SlotReturned`,
`HoldersKept`). `RateHeld` is not inductive: the invariant behind it says of every request
sent that the tokens left and those spent since are within a full bucket and what the time
since has refilled, at the bucket's own time, which never goes back; a refill keeps it
(`RefillKeepsBudget`) and a request pays for itself (`RequestIsPaid`). The refinement needs
only that nothing is heard of an attempt before its response has arrived
(`SilentAtFirst`).

Second part, about the turns on top of it, with `ReplyAssumption` (two bounds are naturals):

| theorem | statement |
|---|---|
| `TurnsUseTheRouter` | `ReplySpec => RouterSpec`, the composition implements its component |
| `SlotsNeverLeakInTurns`, `RateIsHeldInTurns`, `TurnsGetFirstAnswers` | the router's theorems, of `ReplySpec`: what the run `reply` checks |
| `ReplyInvariant` | `ReplySpec => []ReplyIInv` |
| `SpokenIsAlwaysRecorded` | `ReplySpec => []SpokenIsRecorded` |

*The argument.* Each action of `Reply` is shown to be an action of `Router` about the same
turn (a call opened, text heard, a caller that reads its result) or to leave the router
alone; so whatever is proved of the router for any callers is so of these. `SpokenIsRecorded`
speaks of finished turns only. While a reply comes, `HeldIsTheRest` says that what was spoken
and what the sentence accumulator still holds are together what was answered, and
`QuietAtFirst` that nothing was heard before: so the last sentence, or the rest and the
admission of the loss, make both equal.

Third part, about what a reply is decided on and given: with `DispatchAssumption` (the
modules, and the examples of each, are finite lists), `ReplyAssumption` (similarities are
naturals) and `RecallAssumption` (each search returns between one event and the five the
code asks for), so for any skills that load, fail or repeat an id, any similarities, any
memory and any sizes of its pieces:

| theorem | statement |
|---|---|
| `DispatchDecidesReference` | `ReplySpec => []DecisionIsReference` |
| `RecallGivesReference` | `ReplySpec => []RecallIsReference` |
| `OnlyShortlistedIsChosen` | `ReplySpec => []Shortlisted`: a model is asked about, and believed on, at most three intents of the utterance's own lane |
| `ReplyTypeCorrect` | `ReplySpec => []ReplyTypeOK` |

*The argument.* Both algorithms loop over a list, filter and sort. The loops are folds, and
what a fold computes is proved in two steps. `FoldTable` shows, by the least number at which
it could fail, that a table of the fold's partial results exists, each made from the one
before; `WithinTable`, `ScaleTable`, `LengthTable`, `AssembledTable` and `LoadingTable` are
such tables. Whatever holds of the first entry and is kept by a step then holds of the last
one (`LeastNatural` gives the first entry at which it would not). `CountingSorts` shows of a
total order that `ranked` holds every member once, and an earlier one exactly if it comes
before. For recall, `ScaleTable` makes every 1 / (60 + rank) a whole number, so that
`PointsCompared` can compare them by rank alone, and `BetterScoresHigher` that an event which
two searches found outscores every one that only one found: with five ranks the least sum of
two is more than the greatest single one. `FusionRanks` and `RecallRanks` carry this through
fusion, filter and cap; `ContextIsReference` follows the pieces into the text. For dispatch,
`LoadedSurvive` and `ExamplesAreServed` reduce the loaded registry to the sound modules no
earlier one with the same id precedes; `BestOfIntent` and `CandidatesRank` give the
candidates in order; then `UnrivalledIntents` compares winner and runner-up with every
rival, `NoneMatches` the best with the floor, and `FirstFew` the shortlist with who is left
out. `Shortlisted` is inductive with the stages: candidates exist only while a model is asked
about them.

`TurnsProofs.tla`, with `TurnsAssumption` (an utterance is spoken or injected, `NoTurn` is
none) and `SchedulerAssumption` (batches are not empty), for any number of utterances:

| theorem | statement |
|---|---|
| `TurnsTypeCorrect`, `TurnsInvariant` | `TurnsSpec => []TurnsTypeOK`, `[]TurnsIInv` |
| `EveryTurnRepliedOnce`, `AnswersGoToOpenQuestions`, `OnlyTheOwnerCancels`, `NoWaitOutlivesItsTurn`, `BufferAlwaysGuarded`, `NothingMissesExtraction` | the safety invariants the run `turns` checks |
| `NothingReopens` | `TurnsSpec => [][OverIsOver]_vars`, an action property |

*The argument.* `OneReplyPerTurn` counts events of the log, and is first replaced by facts
about positions, which a step can only add: an utterance that was heard has one position
and a turn that ended has one reply, after it (`SaidOnce`, `RepliedOnce`; the cardinalities
come back at the end). They need to know that whoever holds the slot is suspended in `ask()`
(`SlotHolderAsks`), or an answer would resume a turn that is over; that what waits in the
ears socket was never handled (`QueueIsFresh`); and that an answer never becomes a turn
(`AnswerStaysAnswer`). `ExtractionSeesEveryTurn` compares the batches with the log place by
place, not as sequences to be flattened and filtered, so that it can be proved: beside the
invariant, `HandedInOrder` says which utterance is at which place of which batch and that
places are in the order of the log; an utterance goes behind every place there is
(`UtteranceHands`), and a flush moves none (`QuietHands`).

`EarsProofs.tla`, with `EarsAssumption` (thresholds and bounds are naturals, the grace period
is no longer than the longest recording), for any thresholds, connections, presses and
phrases:

| theorem | statement |
|---|---|
| `EarsTypeCorrect`, `EarsInvariant` | `EarsSpec => []EarsTypeOK`, `[]EarsIInv` |
| `NoCommandCutShort`, `LiveConnectionAlwaysKept` | the safety invariants of the run `ears` |
| `NoCaptureUnheard` | `EarsSpec => NoSpuriousCapture`, an action property |

*The argument.* All of them are about something stale that a thread still has in its hands.
The worker may have judged a recording, or scored a frame, long before it acts on it; the
invariant says where it cannot be when the wake-word thread starts a capture
(`NoStaleJudgement`, `StartWasHeard`), while one goes on (`StopIsDue`), and when one is over
(`NoPhraseLeft`). The type invariant contains that the lock is held by exactly the thread
whose place is inside a capture, which separates the two captors.

`CameraProofs.tla`, with `EyesAssumption` and `CameraAssumption` (bounds are naturals, `NoOne`
is no turn), for any number of sessions, frames, tracking loops, turns and intents:

| theorem | statement |
|---|---|
| `CameraTypeCorrect`, `CameraInvariant` | `CameraSpec => []CameraTypeOK`, `[]CameraIInv` |
| `PictureIsFresh`, `NobodyLeftWaiting`, `RecordedFramesDeleted` | the safety invariants of the runs `camera` and `gestures` |

*The argument.* Freshness is an argument about what is in transit: unless a request was
settled by something that was no reply to it (`crossed`), one answer at most is due to core,
its request being on the wire, or served, or answered, and none when the slot is free
(`OneAnswerDue`); so an answer that arrives was captured after the request it settles
(`NothingOld`); the frame of a capture that is being recorded or reported is the last one
written. Frames are an argument about the two threads that close and capture. Until a
session's frames are deleted, each frame it has on disk is recorded, or is the one just
written and about to be (`FramesAreRecorded`, `Unrecorded`); those recorded when it was
closed are still recorded, so they go with the deletion, and what is written afterwards is
the one capture that was under way: its thread had this session in hand (`SessionInHand`,
`SessionPlaces`) and gets no other capture past the checks of a closed one.

`DashboardProofs.tla`, with `DashboardAssumption` (the number of mishaps is a natural), for any
set of requests and any number of mishaps:

| theorem | statement |
|---|---|
| `DashboardTypeCorrect`, `DashboardInvariant` | `DashboardSpec => []DashboardTypeOK`, `[]DashboardIInv` |
| `LightsAreTrue`, `ApprovalsAreListed` | the safety invariants of the run `dashboard` |

*The argument.* Both properties hold only when nothing is under way, so the invariant is about
what is: the last event on the socket about a thing tells the truth about it, and if there
is none the tab shows it already (`Shows`, for the voice and for the two lights;
`RequestsTold` and `RequestsListed` for the approvals, where what is shown may still be in a
fetched body and a decision of the tab may be on its way). Lemmas about appending an event
to the socket and taking one from it are stated once, for any thing.

`PanelsProofs.tla`, with `SkillsAssumption` and `PanelsAssumption` (the first rows are rows;
bounds), for any handlings, rows and reminders:

| theorem | statement |
|---|---|
| `SkillsTypeCorrect`, `SkillsInvariant` | `PanelsSpec => []SkillsTypeOK`, `[]SkillsIInv` |
| `OwnerToldTruth` | `PanelsSpec => []SpokenOutcomeTrue` |

*The argument.* What the owner is told must agree with what was done in the same handling,
and the doing and the telling are different steps, with the gate and an executor in
between: nothing has come of a handling that is not over, nor been said to (`NothingYet`),
what is with the gate was not given up (`OnlyProposedRun`), and a website is guessed only in answer to a
failed "open", and opened only after a yes (`GuessIsAsked`).

`PointerProofs.tla`, with `PointerAssumption` (three bounds), for any number of presses,
messages and clicks:

| theorem | statement |
|---|---|
| `PointerTypeCorrect`, `PointerInvariant` | `PointerSpec => []PointerTypeOK`, `[]PointerIInv` |
| `OnePressOneClick`, `ListenersAreClosed` | the safety invariants of the run `pointer` |

*The argument.* `PressesAreFresh` ties the flag that remembers the key to the press that the
current listener has seen, and the one the loop's thread has loaded, which may be another by
now: a press that has clicked is remembered, or being reported, or excused. That needs
`ListenersAreUpToDate`: a listener that runs has heard of no press but the one that goes on,
so a flag reset by a release is reset for good. `OnlyTriggerListens` says that no listener
runs but the one in `_click_trigger`, or about to be, and that whoever is about to drop it has
closed it.

Each inductive invariant was checked by TLC on the instance of its run before it was proved.

**Left to TLC.** Every liveness property (`CallerAnswered`, `ImageReclaimed`,
`QuestionSettles`, `TurnIsExtracted`, `ReplyEnds`, `CaptureEnds`, `TimeoutIsAnnounced`,
`CapCloses`, `ThreadsComeBack`, `StoresConverge`): fairness and ENABLED are out of the
prover's reach. Of `Panels`, everything about the tab's lists: what a run asks of them,
`StoresConverge`, is a liveness property.

## 6. What is not modelled

Listed with reasons in `PROJECT.json` ("components"). In short:

* input and output around nondeterministic results: request bodies, SSE framing, the
  Keychain, the macOS processes, MCP servers and their start, the OAuth exchange, React
  components;
* numeric code over audio, images and vectors: wake-word scores, loudness, transcription,
  hand landmarks and poses, blur, similarities and keyword scores. What they find is a
  nondeterministic choice, so the models hold whatever they find;
* wording and word lists: texts, the pleasantry guard, the heuristic and reflex rules, the
  regular expressions of the skills;
* metrics, benchmarks, build;
* failures that have no step: a skill that throws by itself, not out of a model call, in
  `Reply` (it ends the turn as any other error does: `Turns` and `Skills` have it); an
  exception in ears before `arm()`, as when the chime cannot be played, which ends the cycle
  with nothing recorded; a full or read-only disk under eyes, where only the two threads
  make each other's file operations fail; a keyboard listener whose `stop()` fails;
* in modelled parts: `stop()` of the scheduler (no caller), previews and landmarks of eyes,
  its shutdown handler and a core that disconnects from it, a camera request pending
  over a drop, two tracking loops at once, the dashboard's lines of thoughts, errors and
  conversation and its history rings, acknowledgement sounds, and a second write to a row
  of the dashboard whose first is under way.
