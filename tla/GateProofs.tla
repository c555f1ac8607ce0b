----------------------------- MODULE GateProofs -----------------------------
(***************************************************************************)
(* Proofs about the gate, for any set of requests, any lifetime and any    *)
(* number of restarts.                                                     *)
(***************************************************************************)
EXTENDS Gate, TLAPS

\* Every step keeps each variable of the gate within its type.
LEMMA GateTypeStep == GateTypeOK /\ [GateNext]_vars => GateTypeOK'
<1> SUFFICES ASSUME GateTypeOK, [GateNext]_vars PROVE GateTypeOK'
  OBVIOUS
<1> USE GateAssumption DEF GateTypeOK, ApprovalState, AuditEvent, Outcomes, setState,
        logAudit, resolvePending, settlePending, recordApproval, cleanupObservationFile, memoryVars,
        dbVars, LoseMemory, insertApproval, Returns
<1>1. ASSUME NEW r \in Requests, Propose(r) PROVE GateTypeOK'
  BY <1>1 DEF Propose, ProposeGreen, ProposeYellow
<1>2. ASSUME NEW r \in Requests, Decide(r) PROVE GateTypeOK'
  <2>1. PICK nonce \in Requests :
          \/ DecideReplay(r, nonce) \/ DecideTooLate(r, nonce) \/ DecideReject(r, nonce)
          \/ DecideApproveOnly(r, nonce)
          \/ \E written \in BOOLEAN : DecideApproveAndRun(r, nonce, written)
    BY <1>2 DEF Decide
  <2>2. CASE DecideReplay(r, nonce)
    BY <2>2 DEF DecideReplay
  <2>3. CASE DecideTooLate(r, nonce) \/ DecideReject(r, nonce) \/ DecideApproveOnly(r, nonce)
    BY <2>3 DEF DecideTooLate, DecideReject, DecideApproveOnly
  <2>4. CASE \E written \in BOOLEAN : DecideApproveAndRun(r, nonce, written)
    BY <2>4 DEF DecideApproveAndRun
  <2>5. QED BY <2>1, <2>2, <2>3, <2>4
<1>3. ASSUME NEW r \in Requests, ExecutorSettles(r) PROVE GateTypeOK'
  BY <1>3 DEF ExecutorSettles, GreenExecutorReturns, ExecutorSucceeds, ExecutorFails
<1>4. ASSUME NEW r \in Requests, ExpiryTimer(r) PROVE GateTypeOK'
  BY <1>4 DEF ExpiryTimer
<1>5. ASSUME NEW r \in Requests, UnlinkDone(r) PROVE GateTypeOK'
  BY <1>5 DEF UnlinkDone
<1>6. CASE Tick
  BY <1>6 DEF Tick
<1>7. CASE Crash
  BY <1>7 DEF Crash, Restart, ProposeCutShort, SettleCutShort, ApproveCutShort
<1>8. CASE UNCHANGED vars
  BY <1>8 DEF vars
<1>9. QED
  BY <1>1, <1>2, <1>3, <1>4, <1>5, <1>6, <1>7, <1>8 DEF GateNext

\* Every step of the gate preserves the inductive invariant: one step of the
\* proof per action of the gate, q being the request the action is about.
LEMMA GateIInvStep == GateIInv /\ [GateNext]_vars => GateIInv'
<1> SUFFICES ASSUME GateIInv, [GateNext]_vars PROVE GateIInv'
  OBVIOUS
<1>0. GateTypeOK /\ GateTypeOK'
  BY GateTypeStep DEF GateIInv
<1> USE GateAssumption DEF GateIInv, GateTypeOK, AuditBehindRow, CallerToldTruth,
        NotProposedYet, GreenHasNoRow, YellowHasRow, UndecidedIsUntouched, TimerArmed,
        RunningWasApproved, ImageFollowsRow, RefusalIsClean, IsYellow,
        ApprovalState, AuditEvent, Outcomes, setState, logAudit, resolvePending,
        settlePending, recordApproval, cleanupObservationFile, memoryVars, dbVars, LoseMemory,
        insertApproval, Returns, Spendable, executors, GREEN_CAPABILITIES,
        YellowCapabilities
<1>1. ASSUME NEW q \in Requests, NEW c \in Capabilities, ProposeGreen(q, c) PROVE GateIInv'
  BY <1>1, <1>0 DEF ProposeGreen
<1>2. ASSUME NEW q \in Requests, NEW c \in Capabilities, NEW hasImage \in BOOLEAN, ProposeYellow(q, c, hasImage) PROVE GateIInv'
  BY <1>2, <1>0 DEF ProposeYellow
<1>3. ASSUME NEW q \in Requests, NEW nonce \in Requests, DecideReplay(q, nonce) PROVE GateIInv'
  BY <1>3, <1>0 DEF DecideReplay
<1>4. ASSUME NEW q \in Requests, NEW nonce \in Requests, DecideTooLate(q, nonce) PROVE GateIInv'
  BY <1>4, <1>0 DEF DecideTooLate
<1>5. ASSUME NEW q \in Requests, NEW nonce \in Requests, DecideReject(q, nonce) PROVE GateIInv'
  BY <1>5, <1>0 DEF DecideReject
<1>6. ASSUME NEW q \in Requests, NEW nonce \in Requests, DecideApproveOnly(q, nonce) PROVE GateIInv'
  BY <1>6, <1>0 DEF DecideApproveOnly
<1>7. ASSUME NEW q \in Requests, NEW nonce \in Requests, NEW written \in BOOLEAN, DecideApproveAndRun(q, nonce, written) PROVE GateIInv'
  BY <1>7, <1>0 DEF DecideApproveAndRun
<1>8. ASSUME NEW q \in Requests, NEW ok \in BOOLEAN, GreenExecutorReturns(q, ok) PROVE GateIInv'
  BY <1>8, <1>0 DEF GreenExecutorReturns
<1>9. ASSUME NEW q \in Requests, ExecutorSucceeds(q) PROVE GateIInv'
  <2> USE DEF ExecutorSucceeds
  <2>1. \A r \in Requests : r # q =>
          /\ state'[r] = state[r] /\ audit'[r] = audit[r] /\ outcome'[r] = outcome[r]
          /\ (r \in executing') = (r \in executing) /\ (r \in pending') = (r \in pending)
    BY <1>9, <1>0
  <2>2. q \in executing /\ IsYellow(q)
    BY <1>9, <1>0
  <2>3. AuditBehindRow' /\ CallerToldTruth'
    BY <1>9, <1>0, <2>1, <2>2
  <2>4. ASSUME NEW r \in Requests
        PROVE  /\ NotProposedYet(r)' /\ GreenHasNoRow(r)' /\ YellowHasRow(r)'
               /\ UndecidedIsUntouched(r)' /\ TimerArmed(r)'
    BY <1>9, <1>0, <2>1, <2>2
  <2>5. ASSUME NEW r \in Requests
        PROVE  RunningWasApproved(r)' /\ ImageFollowsRow(r)' /\ RefusalIsClean(r)'
    BY <1>9, <1>0, <2>1, <2>2
  <2>6. QED BY <1>0, <2>3, <2>4, <2>5
<1>10. ASSUME NEW q \in Requests, ExecutorFails(q) PROVE GateIInv'
  <2> USE DEF ExecutorFails
  <2>1. \A r \in Requests : r # q =>
          /\ state'[r] = state[r] /\ audit'[r] = audit[r] /\ outcome'[r] = outcome[r]
          /\ (r \in executing') = (r \in executing) /\ (r \in pending') = (r \in pending)
    BY <1>10, <1>0
  <2>2. q \in executing /\ IsYellow(q)
    BY <1>10, <1>0
  <2>3. AuditBehindRow' /\ CallerToldTruth'
    BY <1>10, <1>0, <2>1, <2>2
  <2>4. ASSUME NEW r \in Requests
        PROVE  /\ NotProposedYet(r)' /\ GreenHasNoRow(r)' /\ YellowHasRow(r)'
               /\ UndecidedIsUntouched(r)' /\ TimerArmed(r)'
    BY <1>10, <1>0, <2>1, <2>2
  <2>5. ASSUME NEW r \in Requests
        PROVE  RunningWasApproved(r)' /\ ImageFollowsRow(r)' /\ RefusalIsClean(r)'
    BY <1>10, <1>0, <2>1, <2>2
  <2>6. QED BY <1>0, <2>3, <2>4, <2>5
<1>11. ASSUME NEW q \in Requests, ExpiryTimer(q) PROVE GateIInv'
  BY <1>11, <1>0 DEF ExpiryTimer, TimerDue, MicrotasksDrained
<1>12. ASSUME NEW q \in Requests, UnlinkDone(q) PROVE GateIInv'
  BY <1>12, <1>0 DEF UnlinkDone
<1>13. ASSUME NEW q \in Requests, NEW c \in Capabilities, NEW hasImage \in BOOLEAN, ProposeCutShort(q, c, hasImage) PROVE GateIInv'
  BY <1>13, <1>0 DEF ProposeCutShort
<1>14. ASSUME NEW q \in Requests, NEW s \in ApprovalState, SettleCutShort(q, s) PROVE GateIInv'
  <2> USE DEF SettleCutShort, TimerDue, MicrotasksDrained
  <2>1. CASE s = "executed"
    <3>a. Returns(q, TRUE) /\ state' = [state EXCEPT ![q] = "executed"]
      BY <1>14, <2>1, Zenon
    <3>b. state \in [Requests -> ApprovalState \cup {"none"}]
      BY <1>0
    <3>c. q \in executing /\ capability[q] \notin GREEN_CAPABILITIES
      BY <3>a
    <3>d. state'[q] = "executed"
      BY <3>a, <3>b
    <3>e. capability[q] \in YellowCapabilities
      BY <3>c, <1>0
    <3>1. q \in executing /\ IsYellow(q) /\ state'[q] = "executed"
      BY <3>c, <3>d, <3>e
    <3>2. \A r \in Requests : r # q => state'[r] = state[r]
      BY <1>14, <1>0, <2>1
    <3>3. AuditBehindRow' /\ CallerToldTruth'
      BY <1>14, <1>0, <2>1, <3>1, <3>2
    <3>4. ASSUME NEW r \in Requests
          PROVE  /\ NotProposedYet(r)' /\ GreenHasNoRow(r)' /\ YellowHasRow(r)'
                 /\ UndecidedIsUntouched(r)' /\ TimerArmed(r)' /\ RunningWasApproved(r)'
                 /\ ImageFollowsRow(r)' /\ RefusalIsClean(r)'
      BY <1>14, <1>0, <2>1, <3>1, <3>2
    <3>5. QED BY <1>0, <3>3, <3>4
  <2>2. CASE s = "expired"
    BY <1>14, <1>0, <2>2
  <2>3. CASE s \in {"rejected", "approved"}
    BY <1>14, <1>0, <2>3
  <2>4. QED BY <1>14, <2>1, <2>2, <2>3
<1>15. ASSUME NEW q \in Requests, ApproveCutShort(q) PROVE GateIInv'
  BY <1>15, <1>0 DEF ApproveCutShort
<1>16. CASE Tick
  BY <1>16, <1>0 DEF Tick
<1>17. CASE Restart
  BY <1>17, <1>0 DEF Restart
<1>18. CASE UNCHANGED vars
  BY <1>18, <1>0 DEF vars
<1> HIDE DEF GateIInv
<1>19. QED
  BY <1>1, <1>2, <1>3, <1>4, <1>5, <1>6, <1>7, <1>8, <1>9, <1>10, <1>11, <1>12, <1>13,
     <1>14, <1>15, <1>16, <1>17, <1>18
     DEF GateNext, Propose, Decide, ExecutorSettles, Crash

\* In every reachable state each variable of the gate is within its type.
THEOREM GateTypeCorrect == GateSpec => []GateTypeOK
<1>1. GateInit => GateTypeOK
  BY GateAssumption DEF GateInit, GateTypeOK, Outcomes
<1>2. QED
  BY <1>1, GateTypeStep, PTL DEF GateSpec

\* The inductive invariant holds in every reachable state.
THEOREM GateInvariant == GateSpec => []GateIInv
<1>1. GateInit => GateIInv
  <2> SUFFICES ASSUME GateInit PROVE GateIInv
    OBVIOUS
  <2>1. GateTypeOK
    BY GateAssumption DEF GateInit, GateTypeOK, Outcomes
  <2>2. AuditBehindRow /\ CallerToldTruth
    BY DEF GateInit, AuditBehindRow, CallerToldTruth
  <2>3. QED
    BY <2>1, <2>2 DEF GateInit, GateIInv, NotProposedYet, GreenHasNoRow, YellowHasRow,
       UndecidedIsUntouched, TimerArmed, RunningWasApproved, ImageFollowsRow,
       RefusalIsClean, IsYellow, GREEN_CAPABILITIES, YellowCapabilities
<1>2. QED
  BY <1>1, GateIInvStep, PTL DEF GateSpec

\* The audit log never claims a decision or an execution the approvals table
\* does not show, wherever a crash cuts a handler short.
THEOREM AuditNeverAhead == GateSpec => []AuditBehindRow
BY GateInvariant, PTL DEF GateIInv

\* A propose() caller told "ok", "rejected" or "error" was told the truth.
THEOREM CallersToldTruth == GateSpec => []CallerToldTruth
BY GateInvariant, PTL DEF GateIInv

\* No executor is called before the audit log says what let it run.
THEOREM EffectsAudited == GateSpec => []EffectIsAudited
<1>1. GateIInv => EffectIsAudited
  BY GateAssumption DEF GateIInv, GateTypeOK, EffectIsAudited, NotProposedYet,
     GreenHasNoRow, YellowHasRow, IsYellow
<1>2. QED
  BY <1>1, GateInvariant, PTL

\* The image of a remembered observation is on disk and not being deleted.
THEOREM ImagesKept == GateSpec => []RememberedImageKept
<1>1. GateIInv => RememberedImageKept
  BY DEF GateIInv, RememberedImageKept, ImageFollowsRow
<1>2. QED
  BY <1>1, GateInvariant, PTL

\* A decided request is never pending again, nor approved a second time, and a
\* rejected or executed one keeps its state: for every step of every behaviour.
THEOREM SpentForever == GateSpec => SpentStaysSpent
<1> DEFINE Kept == \A r \in Requests :
       /\ state'[r] = "pending" => state[r] \in {"none", "pending"}
       /\ state'[r] = "approved" => state[r] \in {"pending", "approved"}
       /\ state[r] \in {"rejected", "executed"} => state'[r] = state[r]
<1>1. ASSUME GateIInv, [GateNext]_vars PROVE [Kept]_vars
  <2> USE <1>1 DEF GateIInv, GateTypeOK, ApprovalState, setState, settlePending, recordApproval, dbVars,
          memoryVars, insertApproval, Returns, Spendable
  <2>1. CASE UNCHANGED vars
    BY <2>1 DEF vars
  <2>2. ASSUME NEW q \in Requests, Propose(q) PROVE Kept
    BY <2>2 DEF Propose, ProposeGreen, ProposeYellow, NotProposedYet
  <2>3. ASSUME NEW q \in Requests, Decide(q) PROVE Kept
    BY <2>3 DEF Decide, DecideReplay, DecideTooLate, DecideReject, DecideApproveOnly,
       DecideApproveAndRun
  <2>4. ASSUME NEW q \in Requests, ExecutorSettles(q) PROVE Kept
    BY <2>4, GateAssumption DEF ExecutorSettles, GreenExecutorReturns, ExecutorSucceeds,
       ExecutorFails, NotProposedYet, RunningWasApproved, IsYellow
  <2>5. ASSUME NEW q \in Requests, ExpiryTimer(q) \/ UnlinkDone(q) PROVE Kept
    BY <2>5 DEF ExpiryTimer, TimerDue, UnlinkDone, TimerArmed
  <2>6. CASE Tick
    BY <2>6 DEF Tick
  <2>7. CASE Crash
    <3>1. ASSUME NEW q \in Requests, NEW s \in ApprovalState, SettleCutShort(q, s) PROVE Kept
      BY <3>1, GateAssumption DEF SettleCutShort, TimerDue, NotProposedYet, RunningWasApproved,
         IsYellow, TimerArmed
    <3>2. QED
      BY <2>7, <3>1 DEF Crash, Restart, ProposeCutShort, ApproveCutShort, NotProposedYet
  <2> HIDE DEF Kept
  <2>8. QED
    BY <2>1, <2>2, <2>3, <2>4, <2>5, <2>6, <2>7 DEF GateNext
<1>2. QED
  BY <1>1, GateInvariant, PTL DEF GateSpec, SpentStaysSpent

-----------------------------------------------------------------------------
(***************************************************************************)
(* The refinement of ApprovalContract.                                     *)
(***************************************************************************)
consentMap == [r \in Requests |-> ConsentOf(r)]

\* A step that touches the row and the audit log of one request at most moves
\* the consent of that request only.
LEMMA ConsentIsPointwise ==
  ASSUME GateTypeOK, NEW q \in Requests,
         \A r \in Requests \ {q} :
           state'[r] = state[r] /\ audit'[r] = audit[r] /\ capability'[r] = capability[r]
  PROVE  consentMap' = [consentMap EXCEPT ![q] = ConsentOf(q)']
<1>1. \A r \in Requests \ {q} : ConsentOf(r)' = ConsentOf(r)
  BY DEF ConsentOf, Approved, IsYellow, GREEN_CAPABILITIES, YellowCapabilities
<1>2. QED
  BY <1>1 DEF consentMap

\* Every step of the gate is a step of the contract, or leaves all the contract
\* speaks of unchanged.
LEMMA ContractStep ==
  GateIInv /\ [GateNext]_vars => [Contract!CNext]_(Contract!contractVars)
<1> SUFFICES ASSUME GateIInv, [GateNext]_vars
             PROVE  [Contract!CNext]_(Contract!contractVars)
  OBVIOUS
<1>0. GateTypeOK /\ GateTypeOK'
  BY GateTypeStep DEF GateIInv
<1> DEFINE Stutter == UNCHANGED <<clock, expiresAt, consentMap, runs>>
<1>a. ASSUME Stutter PROVE [Contract!CNext]_(Contract!contractVars)
  BY <1>a DEF Contract!contractVars, consentMap
<1>b. ASSUME NEW q \in Requests,
             Contract!Ask(q) \/ Contract!Exempt(q) \/ Contract!Grant(q) \/ Contract!Refuse(q)
      PROVE  [Contract!CNext]_(Contract!contractVars)
  BY <1>b DEF Contract!CNext
<1>1. ASSUME NEW q \in Requests, Propose(q) PROVE Contract!Ask(q) \/ Contract!Exempt(q)
  <2>1. ConsentOf(q) = "unasked" /\ runs[q] = 0
    BY <1>1 DEF Propose, ProposeGreen, ProposeYellow, insertApproval, ConsentOf, Approved, GateIInv,
       NotProposedYet, IsYellow, GREEN_CAPABILITIES, YellowCapabilities
  <2>2. consentMap' = [consentMap EXCEPT ![q] = ConsentOf(q)']
    BY <1>1, <1>0, ConsentIsPointwise DEF Propose, ProposeGreen, ProposeYellow,
       insertApproval, setState, logAudit, GateTypeOK
  <2>3. ASSUME NEW c \in Capabilities, ProposeGreen(q, c) PROVE Contract!Exempt(q)
    <3>1. ConsentOf(q)' = "exempt"
      <4>1. capability'[q] = c /\ state'[q] = "none"
        BY <2>3, <1>0 DEF ProposeGreen, GateTypeOK, GateIInv, NotProposedYet
      <4>2. c \in GREEN_CAPABILITIES
        BY <2>3 DEF ProposeGreen
      <4>3. QED
        BY <4>1, <4>2 DEF ConsentOf, Approved, IsYellow, GREEN_CAPABILITIES, YellowCapabilities
    <3>2. runs' = runs \/ runs' = [runs EXCEPT ![q] = 1]
      BY <2>3, <2>1, <1>0 DEF ProposeGreen, GateTypeOK
    <3>3. UNCHANGED <<clock, expiresAt>>
      BY <2>3 DEF ProposeGreen
    <3>4. QED
      BY <2>1, <2>2, <3>1, <3>2, <3>3 DEF Contract!Exempt, consentMap
  <2>4. ASSUME NEW c \in Capabilities, NEW hasImage \in BOOLEAN, ProposeYellow(q, c, hasImage)
        PROVE  Contract!Ask(q)
    <3>1. ConsentOf(q)' = "asked"
      <4>1. capability'[q] = c /\ state'[q] = "pending"
        BY <2>4, <1>0 DEF ProposeYellow, insertApproval, setState, GateTypeOK
      <4>2. c \in YellowCapabilities
        BY <2>4, GateAssumption DEF ProposeYellow, insertApproval
      <4>3. QED
        BY <4>1, <4>2 DEF ConsentOf, Approved, IsYellow, GREEN_CAPABILITIES, YellowCapabilities
    <3>2. UNCHANGED <<clock, runs>> /\ expiresAt' = [expiresAt EXCEPT ![q] = clock + Lifetime]
      BY <2>4 DEF ProposeYellow, insertApproval
    <3>3. QED
      BY <2>1, <2>2, <3>1, <3>2, <1>0, GateAssumption DEF Contract!Ask, consentMap, GateTypeOK
  <2>5. QED BY <1>1, <2>3, <2>4 DEF Propose
<1>c. ASSUME NEW q \in Requests, state[q] = "pending"
      PROVE  ConsentOf(q) = "asked" /\ IsYellow(q) /\ runs[q] = 0 /\ "approved" \notin audit[q]
  BY <1>c, GateAssumption DEF GateIInv, GateTypeOK, NotProposedYet, GreenHasNoRow,
     UndecidedIsUntouched, ConsentOf, Approved, IsYellow
<1>d. ASSUME NEW q \in Requests, IsYellow(q), IsYellow(q)' PROVE
        /\ state'[q] = "approved" => ConsentOf(q)' = "granted"
        /\ state'[q] \in {"rejected", "expired"} /\ "approved" \notin audit'[q]
             => ConsentOf(q)' = "refused"
  BY <1>d DEF ConsentOf, Approved, IsYellow, YellowCapabilities, GREEN_CAPABILITIES
\* What the ways of refusing and of granting have in common.
<1>e. ASSUME NEW q \in Requests, state[q] = "pending",
             state' = [state EXCEPT ![q] = "rejected"] \/ state' = [state EXCEPT ![q] = "expired"],
             \/ audit' = audit
             \/ \E e \in {"rejected", "expired"} : audit' = [audit EXCEPT ![q] = @ \cup {e}],
             UNCHANGED <<capability, clock, expiresAt, runs>>
      PROVE  Contract!Refuse(q)
  <2>1. consentMap' = [consentMap EXCEPT ![q] = ConsentOf(q)']
    BY <1>e, <1>0, ConsentIsPointwise DEF GateTypeOK
  <2>2. ConsentOf(q)' = "refused"
    BY <1>c, <1>d, <1>e, <1>0 DEF GateTypeOK, IsYellow
  <2>3. QED
    BY <1>c, <1>e, <2>1, <2>2 DEF Contract!Refuse, consentMap
<1>f. ASSUME NEW q \in Requests, state[q] = "pending", clock <= expiresAt[q],
             state' = [state EXCEPT ![q] = "approved"],
             audit' = audit \/ audit' = [audit EXCEPT ![q] = @ \cup {"approved"}],
             UNCHANGED <<capability, clock, expiresAt>>,
             runs' = runs \/ runs' = [runs EXCEPT ![q] = 1]
      PROVE  Contract!Grant(q)
  <2>1. consentMap' = [consentMap EXCEPT ![q] = ConsentOf(q)']
    BY <1>f, <1>0, ConsentIsPointwise DEF GateTypeOK
  <2>2. ConsentOf(q)' = "granted"
    BY <1>c, <1>d, <1>f, <1>0 DEF GateTypeOK, IsYellow
  <2>3. QED
    BY <1>c, <1>f, <2>1, <2>2 DEF Contract!Grant, consentMap
\* A step that changes no row keeps all consent.
<1>g. ASSUME NEW q \in Requests, UNCHANGED <<state, capability, clock, expiresAt, runs>>,
             audit' = audit \/ \E e \in AuditEvent \ {"approved"} :
                                 audit' = [audit EXCEPT ![q] = @ \cup {e}]
      PROVE  Stutter
  <2>1. \A r \in Requests : ("approved" \in audit'[r]) = ("approved" \in audit[r])
    BY <1>g, <1>0 DEF GateTypeOK
  <2>2. \A r \in Requests : ConsentOf(r)' = ConsentOf(r)
    BY <1>g, <2>1 DEF ConsentOf, Approved, IsYellow, YellowCapabilities, GREEN_CAPABILITIES
  <2>3. QED BY <1>g, <2>2 DEF consentMap
\* Nor does one that moves the row of a request already approved and audited.
<1>h. ASSUME NEW q \in Requests, IsYellow(q), "approved" \in audit[q],
             state[q] \in {"approved", "expired"},
             NEW s \in {"executed", "expired"}, state' = [state EXCEPT ![q] = s],
             audit' = audit \/ audit' = [audit EXCEPT ![q] = @ \cup {s}],
             UNCHANGED <<capability, clock, expiresAt, runs>>
      PROVE  Stutter
  <2>1. \A r \in Requests : ("approved" \in audit'[r]) = ("approved" \in audit[r])
    BY <1>h, <1>0 DEF GateTypeOK
  <2>2. \A r \in Requests : ConsentOf(r)' = ConsentOf(r)
    BY <1>h, <2>1, <1>0 DEF ConsentOf, Approved, IsYellow, YellowCapabilities, GREEN_CAPABILITIES, GateTypeOK
  <2>3. QED BY <1>h, <2>2 DEF consentMap
<1>i. ASSUME NEW q \in Requests, q \in executing, capability[q] \notin GREEN_CAPABILITIES
      PROVE  IsYellow(q) /\ "approved" \in audit[q] /\ state[q] \in {"approved", "expired"}
  BY <1>i, GateAssumption DEF GateIInv, GateTypeOK, NotProposedYet, RunningWasApproved,
     YellowHasRow, IsYellow
<1>j. ASSUME NEW q \in Requests, q \in pending, state[q] # "pending"
      PROVE  IsYellow(q) /\ "approved" \in audit[q] /\ state[q] \in {"approved", "expired"}
  BY <1>j, <1>i DEF GateIInv, TimerArmed, GreenHasNoRow
<1> HIDE DEF Stutter
<1>2. ASSUME NEW q \in Requests, NEW nonce \in Requests, DecideReplay(q, nonce) PROVE Stutter
  BY <1>2, <1>g DEF DecideReplay, logAudit, AuditEvent
<1>3. ASSUME NEW q \in Requests, NEW nonce \in Requests,
             DecideTooLate(q, nonce) \/ DecideReject(q, nonce)
      PROVE  Contract!Refuse(q)
  BY <1>3, <1>e DEF DecideTooLate, DecideReject, Spendable, settlePending, recordApproval, setState, logAudit
<1>4. ASSUME NEW q \in Requests, NEW nonce \in Requests,
             \/ DecideApproveOnly(q, nonce)
             \/ \E written \in BOOLEAN : DecideApproveAndRun(q, nonce, written)
      PROVE  Contract!Grant(q)
  <2>1. state[q] = "pending"
    BY <1>4 DEF DecideApproveOnly, DecideApproveAndRun, Spendable
  <2>2. runs' = runs \/ runs' = [runs EXCEPT ![q] = 1]
    BY <1>4, <2>1, <1>c, <1>0 DEF DecideApproveOnly, DecideApproveAndRun, GateTypeOK
  <2>3. QED
    BY <1>4, <1>f, <2>1, <2>2 DEF DecideApproveOnly, DecideApproveAndRun, NotExpired, settlePending, recordApproval,
       setState, logAudit
<1>5. ASSUME NEW q \in Requests, ExecutorSettles(q) PROVE Stutter
  <2>1. CASE ExecutorSucceeds(q)
    BY <2>1, <1>h, <1>i DEF ExecutorSucceeds, Returns, setState, logAudit
  <2>2. CASE ExecutorFails(q) \/ \E ok \in BOOLEAN : GreenExecutorReturns(q, ok)
    BY <2>2, <1>g DEF ExecutorFails, GreenExecutorReturns, logAudit, AuditEvent
  <2>3. QED BY <1>5, <2>1, <2>2 DEF ExecutorSettles
<1>6. ASSUME NEW q \in Requests, ExpiryTimer(q) PROVE Stutter \/ Contract!Refuse(q)
  BY <1>6, <1>e, <1>h, <1>j DEF ExpiryTimer, TimerDue, setState, logAudit
<1>7. ASSUME NEW q \in Requests, UnlinkDone(q) PROVE Stutter
  BY <1>7, <1>g DEF UnlinkDone, dbVars
<1>8. CASE Tick
  <2>1. \A r \in Requests : ConsentOf(r)' = ConsentOf(r)
    BY <1>8 DEF Tick, dbVars, ConsentOf, Approved, IsYellow, YellowCapabilities, GREEN_CAPABILITIES
  <2>2. Contract!ClockAdvances
    BY <1>8, <2>1 DEF Tick, dbVars, Contract!ClockAdvances
  <2>3. QED BY <2>2 DEF Contract!CNext
<1>9. ASSUME Restart \/ UNCHANGED vars PROVE [Contract!CNext]_(Contract!contractVars)
  <2>1. \A r \in Requests : ConsentOf(r)' = ConsentOf(r)
    BY <1>9 DEF Restart, vars, dbVars, ConsentOf, Approved, IsYellow, YellowCapabilities,
       GREEN_CAPABILITIES
  <2>2. QED BY <1>9, <2>1, <1>a DEF Restart, vars, dbVars, consentMap, Stutter
<1>10. ASSUME NEW q \in Requests, NEW c \in Capabilities, NEW hasImage \in BOOLEAN,
              ProposeCutShort(q, c, hasImage)
       PROVE  Contract!Ask(q)
  <2>1. ConsentOf(q) = "unasked"
    BY <1>10 DEF ProposeCutShort, insertApproval, ConsentOf, Approved, GateIInv, NotProposedYet,
       IsYellow, GREEN_CAPABILITIES, YellowCapabilities
  <2>2. consentMap' = [consentMap EXCEPT ![q] = ConsentOf(q)']
    BY <1>10, <1>0, ConsentIsPointwise DEF ProposeCutShort, insertApproval, setState, GateTypeOK
  <2>3. ConsentOf(q)' = "asked"
    <3>1. capability'[q] = c /\ state'[q] = "pending"
      BY <1>10, <1>0 DEF ProposeCutShort, insertApproval, setState, GateTypeOK
    <3>2. c \in YellowCapabilities
      BY <1>10, GateAssumption DEF ProposeCutShort, insertApproval
    <3>3. QED
      BY <3>1, <3>2 DEF ConsentOf, Approved, IsYellow, GREEN_CAPABILITIES, YellowCapabilities
  <2>4. QED
    BY <1>10, <2>1, <2>2, <2>3, <1>0, GateAssumption DEF ProposeCutShort, insertApproval,
       Contract!Ask, consentMap, GateTypeOK
<1>11. ASSUME NEW q \in Requests, NEW s \in ApprovalState, SettleCutShort(q, s)
       PROVE  Stutter \/ Contract!Refuse(q) \/ Contract!Grant(q)
  <2>1. CASE s = "executed"
    BY <1>11, <2>1, <1>h, <1>i DEF SettleCutShort, Returns, setState
  <2>2. CASE s = "expired"
    BY <1>11, <2>2, <1>e, <1>h, <1>j DEF SettleCutShort, TimerDue, setState
  <2>3. CASE s = "rejected"
    BY <1>11, <2>3, <1>e DEF SettleCutShort, setState
  <2>4. CASE s = "approved"
    BY <1>11, <2>4, <1>f DEF SettleCutShort, NotExpired, setState
  <2>5. QED BY <1>11, <2>1, <2>2, <2>3, <2>4 DEF SettleCutShort
<1>12. ASSUME NEW q \in Requests, ApproveCutShort(q) PROVE Contract!Grant(q)
  BY <1>12, <1>f DEF ApproveCutShort, NotExpired, recordApproval, setState, logAudit
<1>13. QED
  BY <1>1, <1>2, <1>3, <1>4, <1>5, <1>6, <1>7, <1>8, <1>9, <1>10, <1>11, <1>12, <1>a, <1>b
     DEF GateNext, Decide, Crash

\* The gate implements the contract: for every set of requests, every schedule
\* of decisions, timers, executors and crashes, a guarded effect happens at most
\* once and only by a timely approval of a request still asked for.
THEOREM GateImplementsContract == GateSpec => ImplementsContract
<1>1. GateInit => Contract!CInit
  BY DEF GateInit, Contract!CInit, ConsentOf, Approved, IsYellow, GREEN_CAPABILITIES, YellowCapabilities
<1>2. QED
  BY <1>1, ContractStep, GateInvariant, PTL DEF GateSpec, ImplementsContract, Contract!CSpec
=============================================================================
