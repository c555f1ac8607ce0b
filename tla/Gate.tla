-------------------------------- MODULE Gate --------------------------------
(***************************************************************************)
(* The human-in-the-loop gate: core/gate/gate.ts over the approvals and    *)
(* audit_log tables (store.ts, db.ts), the observation image cleanup       *)
(* (observationCleanup.ts) and the executors core/main.ts registers.       *)
(*                                                                         *)
(* One action per uninterrupted run of the event loop: Node runs a handler *)
(* up to its next await without a break, so propose() is one action, each  *)
(* early return of decide() is one, the continuation after the executor's  *)
(* await is one, and the expiry timer's callback is one.  A crash of the   *)
(* process may also cut a handler between two of its database writes,      *)
(* which are separate autocommitted statements (the CutShort actions).     *)
(*                                                                         *)
(* Data abstracted: a request is its ulid; a nonce is named after the      *)
(* request it was minted for; the payload is only whether it is an         *)
(* observation that owns an image file; the audit log of a request is the  *)
(* set of events logged for it.  Signing and then verifying with the same  *)
(* key always succeeds, so decide()'s verification failure cannot occur.   *)
(***************************************************************************)
EXTENDS Naturals, FiniteSets

CONSTANTS
  Requests,      \* the ulids of all the proposals considered
  Capabilities,  \* the capabilities proposed, out of shared/types/capability.ts
  Lifetime,      \* expires_at - created_at
  MaxClock,      \* bound: the clock stops here, no proposal outlives it
  MaxRestarts    \* bound: crashes and restarts of core considered

VARIABLES
  clock,       \* Date.now()
  state,       \* approvals.state per row, "none" while there is no row
  expiresAt,   \* approvals.expires_at
  capability,  \* approvals.capability ("none" before the proposal)
  observation, \* the payload is an observation with an imagePath
  audit,       \* audit_log: the events logged for each request
  remembered,  \* the row that a MEMORY_WRITE executor writes
  image,       \* the durable image file of an observation is on disk
  pending,     \* Gate.pending: requests with an armed timer and a waiting caller
  executing,   \* executor calls whose promise has not settled
  unlinking,   \* unlink() calls under way
  outcome,     \* what the propose() caller was told
  runs,        \* history: how many times each request's executor was called
  restarts     \* history: crashes so far

dbVars == <<state, expiresAt, capability, observation, audit, remembered>>
memoryVars == <<pending, executing, unlinking, outcome>>
vars == <<clock, dbVars, image, memoryVars, runs, restarts>>

-----------------------------------------------------------------------------
GREEN_CAPABILITIES ==
  {"MEMORY_READ", "FS_READ", "CAMERA", "NET_READ", "APP_CONTROL", "REMINDERS",
   "POINTER_CONTROL"}

YellowCapabilities ==
  {"MEMORY_WRITE", "FS_WRITE", "SHELL_EXEC", "GIT_WRITE", "WEBHOOK", "MCP_TOOL_CALL"}

\* The capabilities for which core/main.ts registers an executor.
executors == {"SHELL_EXEC", "APP_CONTROL", "REMINDERS", "MEMORY_WRITE", "MCP_TOOL_CALL"}

ApprovalState == {"pending", "approved", "rejected", "expired", "executed"}

\* A replay is logged as "rejected" with the reason "replay"; it is told apart
\* here by that reason.
AuditEvent ==
  {"created", "approved", "rejected", "expired", "executed", "execution_failed",
   "replay", "green_auto_run"}

Outcomes == {"none", "waiting", "ok", "rejected", "expired", "error", "lost"}

ASSUME GateAssumption ==
  /\ Capabilities \subseteq (GREEN_CAPABILITIES \cup YellowCapabilities)
  /\ Lifetime \in Nat
  /\ MaxClock \in Nat
  /\ MaxRestarts \in Nat

GateTypeOK ==
  /\ clock \in Nat
  /\ state \in [Requests -> ApprovalState \cup {"none"}]
  /\ expiresAt \in [Requests -> Nat]
  /\ capability \in [Requests -> Capabilities \cup {"none"}]
  /\ observation \in [Requests -> BOOLEAN]
  /\ audit \in [Requests -> SUBSET AuditEvent]
  /\ remembered \in [Requests -> BOOLEAN]
  /\ image \in [Requests -> BOOLEAN]
  /\ pending \subseteq Requests
  /\ executing \subseteq Requests
  /\ unlinking \subseteq Requests
  /\ outcome \in [Requests -> Outcomes]
  /\ runs \in [Requests -> Nat]
  /\ restarts \in Nat

GateInit ==
  /\ clock = 0
  /\ state = [r \in Requests |-> "none"]
  /\ expiresAt = [r \in Requests |-> 0]
  /\ capability = [r \in Requests |-> "none"]
  /\ observation = [r \in Requests |-> FALSE]
  /\ audit = [r \in Requests |-> {}]
  /\ remembered = [r \in Requests |-> FALSE]
  /\ image = [r \in Requests |-> FALSE]
  /\ pending = {}
  /\ executing = {}
  /\ unlinking = {}
  /\ outcome = [r \in Requests |-> "none"]
  /\ runs = [r \in Requests |-> 0]
  /\ restarts = 0

-----------------------------------------------------------------------------
(***************************************************************************)
(* The pieces the handlers are made of.                                    *)
(***************************************************************************)
setState(r, s) == state' = [state EXCEPT ![r] = s]

logAudit(r, event) == audit' = [audit EXCEPT ![r] = @ \cup {event}]

\* Mutant: the approval is not written to the audit log.
recordApprovalUnlogged(r) == setState(r, "approved") /\ UNCHANGED audit

\* decide() writes the owner's approval down before it calls the executor.
recordApproval(r) == setState(r, "approved") /\ logAudit(r, "approved")

\* Mutant: the entry is not deleted from the map.
resolvePendingKept(r, result) ==
  /\ UNCHANGED pending
  /\ outcome' = IF r \in pending THEN [outcome EXCEPT ![r] = result] ELSE outcome

\* Clears the timer and answers the caller, if this process still has one.
resolvePending(r, result) ==
  /\ pending' = pending \ {r}
  /\ outcome' = IF r \in pending THEN [outcome EXCEPT ![r] = result] ELSE outcome

settlePending(r, s, result) ==
  /\ setState(r, s)
  /\ logAudit(r, s)
  /\ resolvePending(r, result)

\* Mutant: the behaviour before the cleanup existed, the file is left behind.
cleanupObservationFileNever(r) == UNCHANGED unlinking

cleanupObservationFile(r) ==
  unlinking' = IF observation[r] THEN unlinking \cup {r} ELSE unlinking

\* What dies with the process: timers, callers, executor calls, unlinks.
LoseMemory ==
  /\ restarts < MaxRestarts
  /\ restarts' = restarts + 1
  /\ pending' = {}
  /\ executing' = {}
  /\ unlinking' = {}
  /\ outcome' = [r \in Requests |-> IF outcome[r] = "waiting" THEN "lost" ELSE outcome[r]]

\* Mutant: the MEMORY_WRITE executor may wait for the disk.
MicrotasksNotDrained == TRUE

\* The MEMORY_WRITE executor never yields to the event loop: its caller is
\* resumed from the microtask queue, before the next timer or socket callback.
MicrotasksDrained == \A r \in executing : capability[r] # "MEMORY_WRITE"

\* Mutant: decide() does not check the expiry again.
NotExpiredUnchecked(r) == TRUE

NotExpired(r) == clock <= expiresAt[r]

\* Mutant: the callback leaves a request that was decided alone.
TimerDueUndecided(r) ==
  r \in pending /\ clock >= expiresAt[r] /\ MicrotasksDrained /\ state[r] = "pending"

\* The callback of the timer that propose() arms, which asks nothing about the
\* row, is due.
TimerDue(r) == r \in pending /\ clock >= expiresAt[r] /\ MicrotasksDrained

\* The row half of propose(): a fresh ulid, an expiry date, state "pending".
\* skills/look has already written the image file of an observation.
insertApproval(r, c, hasImage) ==
  /\ capability[r] = "none"
  /\ c \in Capabilities \ GREEN_CAPABILITIES
  /\ hasImage => c = "MEMORY_WRITE"
  /\ clock + Lifetime < MaxClock
  /\ setState(r, "pending")
  /\ expiresAt' = [expiresAt EXCEPT ![r] = clock + Lifetime]
  /\ capability' = [capability EXCEPT ![r] = c]
  /\ observation' = [observation EXCEPT ![r] = hasImage]
  /\ image' = [image EXCEPT ![r] = hasImage]

-----------------------------------------------------------------------------
(***************************************************************************)
(* propose(): green capabilities run unprompted, the others wait.          *)
(***************************************************************************)
ProposeGreen(r, c) ==
  /\ capability[r] = "none"
  /\ c \in Capabilities \cap GREEN_CAPABILITIES
  /\ capability' = [capability EXCEPT ![r] = c]
  /\ logAudit(r, "green_auto_run")
  /\ IF c \in executors
     THEN /\ executing' = executing \cup {r}
          /\ runs' = [runs EXCEPT ![r] = @ + 1]
          /\ outcome' = [outcome EXCEPT ![r] = "waiting"]
     ELSE /\ outcome' = [outcome EXCEPT ![r] = "ok"]
          /\ UNCHANGED <<executing, runs>>
  /\ UNCHANGED <<clock, state, expiresAt, observation, remembered, image, pending,
                 unlinking, restarts>>

GreenExecutorReturns(r, ok) ==
  /\ r \in executing
  /\ capability[r] \in GREEN_CAPABILITIES
  /\ executing' = executing \ {r}
  /\ logAudit(r, IF ok THEN "executed" ELSE "execution_failed")
  /\ outcome' = [outcome EXCEPT ![r] = IF ok THEN "ok" ELSE "error"]
  /\ UNCHANGED <<clock, state, expiresAt, capability, observation, remembered, image,
                 pending, unlinking, runs, restarts>>

ProposeYellow(r, c, hasImage) ==
  /\ insertApproval(r, c, hasImage)
  /\ logAudit(r, "created")
  /\ pending' = pending \cup {r}
  /\ outcome' = [outcome EXCEPT ![r] = "waiting"]
  /\ UNCHANGED <<clock, remembered, executing, unlinking, runs, restarts>>

ExpiryTimer(r) ==
  /\ TimerDue(r)
  /\ pending' = pending \ {r}
  /\ setState(r, "expired")
  /\ logAudit(r, "expired")
  /\ cleanupObservationFile(r)
  /\ outcome' = [outcome EXCEPT ![r] = "expired"]
  /\ UNCHANGED <<clock, expiresAt, capability, observation, remembered, image,
                 executing, runs, restarts>>

-----------------------------------------------------------------------------
(***************************************************************************)
(* decide(): a response names a request and carries a nonce; it comes from *)
(* any dashboard tab or from the command line, at any time, repeatedly.    *)
(***************************************************************************)
\* Mutant: only the nonce is compared.
SpendableAgain(r, nonce) == state[r] # "none" /\ nonce = r

Spendable(r, nonce) == state[r] = "pending" /\ nonce = r

DecideReplay(r, nonce) ==
  /\ ~Spendable(r, nonce)
  /\ logAudit(r, "replay")
  /\ UNCHANGED <<clock, state, expiresAt, capability, observation, remembered, image,
                 memoryVars, runs, restarts>>

DecideTooLate(r, nonce) ==
  /\ Spendable(r, nonce)
  /\ ~NotExpired(r)
  /\ settlePending(r, "expired", "expired")
  /\ cleanupObservationFile(r)
  /\ UNCHANGED <<clock, expiresAt, capability, observation, remembered, image,
                 executing, runs, restarts>>

DecideReject(r, nonce) ==
  /\ Spendable(r, nonce)
  /\ NotExpired(r)
  /\ settlePending(r, "rejected", "rejected")
  /\ cleanupObservationFile(r)
  /\ UNCHANGED <<clock, expiresAt, capability, observation, remembered, image,
                 executing, runs, restarts>>

DecideApproveOnly(r, nonce) ==
  /\ Spendable(r, nonce)
  /\ NotExpired(r)
  /\ capability[r] \notin executors
  /\ settlePending(r, "approved", "ok")
  /\ UNCHANGED <<clock, expiresAt, capability, observation, remembered, image,
                 executing, unlinking, runs, restarts>>

\* State and audit first, then the call; the caller and its timer stay as they
\* are until the executor settles.  MEMORY_WRITE does its whole work in the
\* call (and may throw instead of writing), the others only start.
DecideApproveAndRun(r, nonce, written) ==
  /\ Spendable(r, nonce)
  /\ NotExpired(r)
  /\ capability[r] \in executors
  /\ written => capability[r] = "MEMORY_WRITE"
  /\ recordApproval(r)
  /\ executing' = executing \cup {r}
  /\ runs' = [runs EXCEPT ![r] = @ + 1]
  /\ remembered' = [remembered EXCEPT ![r] = written]
  /\ UNCHANGED <<clock, expiresAt, capability, observation, image, pending, unlinking,
                 outcome, restarts>>

\* What the executor's result is known to be: a MEMORY_WRITE succeeded exactly
\* when it wrote its row, any other executor may go either way.
Returns(r, ok) ==
  /\ r \in executing
  /\ capability[r] \notin GREEN_CAPABILITIES
  /\ capability[r] = "MEMORY_WRITE" => ok = remembered[r]

ExecutorSucceeds(r) ==
  /\ Returns(r, TRUE)
  /\ setState(r, "executed")
  /\ logAudit(r, "executed")
  /\ resolvePending(r, "ok")
  /\ executing' = executing \ {r}
  /\ UNCHANGED <<clock, expiresAt, capability, observation, remembered, image,
                 unlinking, runs, restarts>>

\* Mutant: the caller of an approved request is told "ok" whatever happened.
ExecutorFailsSilently(r) ==
  /\ Returns(r, FALSE)
  /\ logAudit(r, "execution_failed")
  /\ resolvePending(r, "ok")
  /\ executing' = executing \ {r}
  /\ UNCHANGED <<clock, state, expiresAt, capability, observation, remembered, image,
                 unlinking, runs, restarts>>

ExecutorFails(r) ==
  /\ Returns(r, FALSE)
  /\ logAudit(r, "execution_failed")
  /\ resolvePending(r, "error")
  /\ executing' = executing \ {r}
  /\ UNCHANGED <<clock, state, expiresAt, capability, observation, remembered, image,
                 unlinking, runs, restarts>>

-----------------------------------------------------------------------------
(***************************************************************************)
(* The file system, time, and crashes.                                     *)
(***************************************************************************)
UnlinkDone(r) ==
  /\ r \in unlinking
  /\ unlinking' = unlinking \ {r}
  /\ image' = [image EXCEPT ![r] = FALSE]
  /\ UNCHANGED <<clock, dbVars, pending, executing, outcome, runs, restarts>>

Tick ==
  /\ clock < MaxClock
  /\ clock' = clock + 1
  /\ UNCHANGED <<dbVars, image, memoryVars, runs, restarts>>

\* The process dies between two handlers (or while an executor runs) and
\* launchd starts it again.  Nothing at start-up reads the approvals table.
Restart ==
  /\ LoseMemory
  /\ UNCHANGED <<clock, dbVars, image, runs>>

\* It dies inside propose(), after the INSERT and before the audit line.
ProposeCutShort(r, c, hasImage) ==
  /\ insertApproval(r, c, hasImage)
  /\ LoseMemory
  /\ UNCHANGED <<clock, audit, remembered, runs>>

\* Mutant: the audit line is written before the row.
SettleCutShortLogFirst(r, s) ==
  /\ s = "rejected" /\ state[r] = "pending" /\ NotExpired(r)
  /\ logAudit(r, s)
  /\ LoseMemory
  /\ UNCHANGED <<clock, state, expiresAt, capability, observation, remembered, image, runs>>

\* It dies inside decide() or the timer callback, after the UPDATE of the row
\* and before the audit line.
SettleCutShort(r, s) ==
  /\ \/ s = "expired"  /\ state[r] = "pending" /\ ~NotExpired(r)
     \/ s = "expired"  /\ TimerDue(r)
     \/ s = "rejected" /\ state[r] = "pending" /\ NotExpired(r)
     \/ s = "approved" /\ state[r] = "pending" /\ NotExpired(r)
     \/ s = "executed" /\ Returns(r, TRUE)
  /\ setState(r, s)
  /\ LoseMemory
  /\ UNCHANGED <<clock, expiresAt, capability, observation, audit, remembered, image, runs>>

\* It dies inside decide(), after the audit line and before the executor's call.
ApproveCutShort(r) ==
  /\ state[r] = "pending"
  /\ NotExpired(r)
  /\ capability[r] \in executors
  /\ recordApproval(r)
  /\ LoseMemory
  /\ UNCHANGED <<clock, expiresAt, capability, observation, remembered, image, runs>>

Propose(r) ==
  \E c \in Capabilities :
    \/ ProposeGreen(r, c)
    \/ \E hasImage \in BOOLEAN : ProposeYellow(r, c, hasImage)

Decide(r) ==
  \E nonce \in Requests :
    \/ DecideReplay(r, nonce)
    \/ DecideTooLate(r, nonce)
    \/ DecideReject(r, nonce)
    \/ DecideApproveOnly(r, nonce)
    \/ \E written \in BOOLEAN : DecideApproveAndRun(r, nonce, written)

ExecutorSettles(r) ==
  \/ \E ok \in BOOLEAN : GreenExecutorReturns(r, ok)
  \/ ExecutorSucceeds(r)
  \/ ExecutorFails(r)

Crash ==
  \/ Restart
  \/ \E r \in Requests :
       \/ \E c \in Capabilities, hasImage \in BOOLEAN : ProposeCutShort(r, c, hasImage)
       \/ \E s \in ApprovalState : SettleCutShort(r, s)
       \/ ApproveCutShort(r)

GateNext ==
  \/ \E r \in Requests :
       Propose(r) \/ Decide(r) \/ ExecutorSettles(r) \/ ExpiryTimer(r) \/ UnlinkDone(r)
  \/ Tick
  \/ Crash

GateSpec == GateInit /\ [][GateNext]_vars
-----------------------------------------------------------------------------
(***************************************************************************)
(* Fairness: Node's event loop runs a due timer, completes an unlink and   *)
(* drains microtasks, and time passes.  Nothing makes an executor that     *)
(* waits for a child process or a server return, or the owner answer.      *)
(***************************************************************************)
GateFairness ==
  /\ WF_vars(Tick)
  /\ \A r \in Requests :
       /\ WF_vars(ExpiryTimer(r))
       /\ WF_vars(UnlinkDone(r))
       /\ WF_vars(capability[r] = "MEMORY_WRITE" /\ ExecutorSettles(r))

GateFairSpec == GateSpec /\ GateFairness

IsYellow(r) == capability[r] \in YellowCapabilities

Approved(r) ==
  /\ state[r] # "pending"
  /\ state[r] \in {"approved", "executed"} \/ "approved" \in audit[r]

\* Consent as the rows and the audit log record it.  An approval whose row a
\* late timer overwrites is still one.
ConsentOf(r) ==
  CASE capability[r] = "none"                -> "unasked"
    [] capability[r] \in GREEN_CAPABILITIES  -> "exempt"
    [] state[r] = "pending"                  -> "asked"
    [] IsYellow(r) /\ Approved(r)             -> "granted"
    [] OTHER                                 -> "refused"

Contract ==
  INSTANCE ApprovalContract WITH
    now      <- clock,
    deadline <- expiresAt,
    consent  <- [r \in Requests |-> ConsentOf(r)],
    effects  <- runs

-----------------------------------------------------------------------------
(***************************************************************************)
(* Safety.                                                                 *)
(***************************************************************************)
\* The gate implements the contract: whatever the interleaving of decisions
\* from several tabs, stale nonces, the expiry timer, executors and crashes, an
\* executor is called at most once per request and only by an approval of a
\* request still pending and not past its expiry (gate.ts, propose and decide).
ImplementsContract == Contract!CSpec

\* A spent request stays spent, across replays, late timers and restarts: no
\* step brings a decided row back to pending, or to approved from anything but
\* pending (the fail-closed rule of decide()).
SpentStaysSpent ==
  [][\A r \in Requests :
       /\ state'[r] = "pending" => state[r] \in {"none", "pending"}
       /\ state'[r] = "approved" => state[r] \in {"pending", "approved"}
       /\ state[r] \in {"rejected", "executed"} => state'[r] = state[r]]_vars

\* The audit log never runs ahead of the row, whichever write a crash cuts off:
\* a logged decision or execution is one the approvals table still shows or has
\* been overwritten by the expiry of an approved request (setState before
\* logAudit in every handler).
AuditBehindRow ==
  \A r \in Requests :
    /\ "rejected" \in audit[r] => state[r] = "rejected"
    /\ "approved" \in audit[r] => state[r] \in {"approved", "executed", "expired"}
    /\ "executed" \in audit[r] /\ IsYellow(r) => state[r] = "executed"
    /\ "expired" \in audit[r] => state[r] \in {"expired", "executed"}

\* The audit log never lags behind an effect: when an executor has been called,
\* the log already says what let it run (logAudit before the executor's call).
EffectIsAudited ==
  \A r \in Requests :
    runs[r] > 0 => audit[r] \cap {"approved", "green_auto_run"} # {}

\* What the caller of propose() is told is what happened: "ok" only after the
\* executor ran and the row says so (or there was none to run), "rejected" only
\* for a request that never ran and never will, "error" only after a logged
\* failure.  ("expired" is left out: see ExpiredNeverRuns.)
CallerToldTruth ==
  \A r \in Requests :
    /\ outcome[r] = "ok" /\ capability[r] \in executors
         => runs[r] = 1 /\ "executed" \in audit[r]
    /\ outcome[r] = "rejected" => runs[r] = 0 /\ state[r] = "rejected"
    /\ outcome[r] = "error" => runs[r] = 1 /\ "execution_failed" \in audit[r]

\* An observation that memory keeps never loses its image file: the cleanup
\* after a rejection or an expiry and the MEMORY_WRITE executor exclude each
\* other, although the expiry timer is armed while that executor runs.
RememberedImageKept ==
  \A r \in Requests : remembered[r] /\ observation[r] => image[r] /\ r \notin unlinking

(***************************************************************************)
(* The inductive invariant behind the safety properties, in named parts:   *)
(* what each stage of a request's life implies about the row, the audit    *)
(* log, the process memory and the image file.                             *)
(***************************************************************************)
NotProposedYet(r) ==
  capability[r] = "none" =>
    /\ state[r] = "none"
    /\ runs[r] = 0
    /\ audit[r] \subseteq {"replay"}
    /\ r \notin pending \cup executing \cup unlinking
    /\ ~remembered[r] /\ ~observation[r]
    /\ outcome[r] = "none"

GreenHasNoRow(r) ==
  capability[r] \in GREEN_CAPABILITIES =>
    /\ state[r] = "none"
    /\ r \notin pending \cup unlinking
    /\ ~remembered[r] /\ ~observation[r]
    /\ "green_auto_run" \in audit[r]
    /\ audit[r] \subseteq {"green_auto_run", "executed", "execution_failed", "replay"}
    /\ r \in executing => capability[r] \in executors /\ runs[r] = 1
    /\ runs[r] <= 1
    /\ outcome[r] \in {"waiting", "ok", "error", "lost"}

YellowHasRow(r) ==
  IsYellow(r) =>
    /\ state[r] # "none"
    /\ "green_auto_run" \notin audit[r]
    /\ runs[r] <= 1
    /\ runs[r] = 1 => "approved" \in audit[r] /\ capability[r] \in executors
    /\ observation[r] => capability[r] = "MEMORY_WRITE"

UndecidedIsUntouched(r) ==
  state[r] = "pending" =>
    /\ audit[r] \subseteq {"created", "replay"}
    /\ runs[r] = 0
    /\ r \notin executing
    /\ outcome[r] \in {"none", "waiting", "lost"}

\* The timer is armed while the request is undecided and, which is what lets a
\* late timer overwrite an approval, while its executor runs.
TimerArmed(r) ==
  r \in pending =>
    /\ outcome[r] = "waiting"
    /\ \/ state[r] = "pending"
       \/ state[r] = "approved" /\ r \in executing

RunningWasApproved(r) ==
  r \in executing /\ IsYellow(r) =>
    /\ runs[r] = 1
    /\ audit[r] \cap {"executed", "execution_failed", "rejected"} = {}
    /\ outcome[r] \in {"none", "waiting", "expired", "lost"}
    /\ \/ state[r] = "approved" /\ "expired" \notin audit[r]
       \/ state[r] = "expired" /\ r \notin pending /\ capability[r] # "MEMORY_WRITE"

ImageFollowsRow(r) ==
  /\ r \in unlinking => observation[r] /\ state[r] \in {"rejected", "expired"}
  /\ observation[r] /\ state[r] \in {"pending", "approved", "executed"} => image[r]
  /\ remembered[r] =>
       /\ capability[r] = "MEMORY_WRITE"
       /\ state[r] \in {"approved", "executed"}

RefusalIsClean(r) == state[r] = "rejected" => runs[r] = 0

GateIInv ==
  /\ GateTypeOK
  /\ AuditBehindRow
  /\ CallerToldTruth
  /\ \A r \in Requests :
       /\ NotProposedYet(r)
       /\ GreenHasNoRow(r)
       /\ YellowHasRow(r)
       /\ UndecidedIsUntouched(r)
       /\ TimerArmed(r)
       /\ RunningWasApproved(r)
       /\ ImageFollowsRow(r)
       /\ RefusalIsClean(r)

\* SPEC.md section 8: "pending --timeout--> expired" is the only way to expire,
\* and gate.test.ts:183, "an expired approval cannot be executed": a caller told
\* that its request expired can rely on its never having run.
ExpiredNeverRuns == \A r \in Requests : outcome[r] = "expired" => runs[r] = 0

-----------------------------------------------------------------------------
(***************************************************************************)
(* Liveness, under GateFairSpec.                                           *)
(***************************************************************************)
\* Every caller of propose() for a yellow capability is eventually answered,
\* though the owner may never answer and the executor may hang: the timer,
\* armed until the executor settles, is what guarantees it.
CallerAnswered ==
  \A r \in Requests : (outcome[r] = "waiting" /\ IsYellow(r)) ~> (outcome[r] # "waiting")

\* The image of a rejected or expired observation is eventually deleted, unless
\* the process died in between (observationCleanup.ts).
ImageReclaimed ==
  \A r \in Requests :
    (state[r] \in {"rejected", "expired"} /\ image[r]) ~> (~image[r] \/ restarts > 0)
=============================================================================
