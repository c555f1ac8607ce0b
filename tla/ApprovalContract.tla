-------------------------- MODULE ApprovalContract --------------------------
(***************************************************************************)
(* What the gate of core/gate promises about the effects of skills, with   *)
(* no database, promise, timer or audit log: an effect of a guarded kind   *)
(* happens at most once per request, and only in the step in which the     *)
(* owner consents to a request that is still asked for and not past its    *)
(* deadline.  Refusal, by the owner or by time, is final.  An exempt       *)
(* (green) request needs no consent and also acts at most once.            *)
(***************************************************************************)
EXTENDS Naturals

CONSTANT Requests

VARIABLES
  now,       \* the clock
  deadline,  \* the instant up to which consent to a request counts
  consent,   \* what became of each request
  effects    \* how many times each request took effect

contractVars == <<now, deadline, consent, effects>>

Consent == {"unasked", "asked", "granted", "refused", "exempt"}

CInit ==
  /\ now = 0
  /\ deadline = [r \in Requests |-> 0]
  /\ consent = [r \in Requests |-> "unasked"]
  /\ effects = [r \in Requests |-> 0]

Ask(r) ==
  /\ consent[r] = "unasked"
  /\ consent' = [consent EXCEPT ![r] = "asked"]
  /\ deadline' \in [Requests -> Nat]
  /\ deadline'[r] >= now
  /\ \A q \in Requests \ {r} : deadline'[q] = deadline[q]
  /\ UNCHANGED <<now, effects>>

Exempt(r) ==
  /\ consent[r] = "unasked"
  /\ consent' = [consent EXCEPT ![r] = "exempt"]
  /\ \/ effects' = effects
     \/ effects' = [effects EXCEPT ![r] = 1]
  /\ UNCHANGED <<now, deadline>>

(***************************************************************************)
(* The effect may fail to start (no executor, a crash), never start later. *)
(***************************************************************************)
Grant(r) ==
  /\ consent[r] = "asked"
  /\ now <= deadline[r]
  /\ consent' = [consent EXCEPT ![r] = "granted"]
  /\ \/ effects' = effects
     \/ effects' = [effects EXCEPT ![r] = 1]
  /\ UNCHANGED <<now, deadline>>

Refuse(r) ==
  /\ consent[r] = "asked"
  /\ consent' = [consent EXCEPT ![r] = "refused"]
  /\ UNCHANGED <<now, deadline, effects>>

ClockAdvances ==
  /\ now' = now + 1
  /\ UNCHANGED <<deadline, consent, effects>>

CNext ==
  \/ ClockAdvances
  \/ \E r \in Requests : Ask(r) \/ Exempt(r) \/ Grant(r) \/ Refuse(r)

CSpec == CInit /\ [][CNext]_contractVars
=============================================================================
