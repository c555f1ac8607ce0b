---------------------------- MODULE FirstAnswer ----------------------------
(***************************************************************************)
(* What a lane's chain of providers promises the caller of routeChat(),    *)
(* with no throttle, request or stream in it: the providers asked are      *)
(* tried once each, the first to say anything is the only one ever heard,  *)
(* and the call fails only if that one breaks off or when all have failed. *)
(***************************************************************************)
CONSTANTS Turns, Providers

VARIABLES
    status,         \* "idle", "open", "answered" or "failed"
    asked,          \* the providers the open call may try
    tried,          \* those of them that failed
    voice           \* the provider that was heard, if any

answerVars == <<status, asked, tried, voice>>

Silence == "none"

Init ==
    /\ status = [t \in Turns |-> "idle"]
    /\ asked = [t \in Turns |-> {}]
    /\ tried = [t \in Turns |-> {}]
    /\ voice = [t \in Turns |-> Silence]

Opens(t, S) ==
    /\ status[t] # "open"
    /\ status' = [status EXCEPT ![t] = "open"]
    /\ asked' = [asked EXCEPT ![t] = S]
    /\ tried' = [tried EXCEPT ![t] = {}]
    /\ voice' = [voice EXCEPT ![t] = Silence]

untried(t) == asked[t] \ tried[t]

\* A provider that was not heard fails, and another is left to try.
GivesWay(t, p) ==
    /\ status[t] = "open" /\ voice[t] = Silence
    /\ p \in untried(t) /\ untried(t) # {p}
    /\ tried' = [tried EXCEPT ![t] = @ \cup {p}]
    /\ UNCHANGED <<status, asked, voice>>

IsHeard(t, p) ==
    /\ status[t] = "open" /\ voice[t] = Silence
    /\ p \in untried(t)
    /\ voice' = [voice EXCEPT ![t] = p]
    /\ UNCHANGED <<status, asked, tried>>

Answers(t, p) ==
    /\ status[t] = "open" /\ voice[t] \in {Silence, p}
    /\ p \in untried(t)
    /\ status' = [status EXCEPT ![t] = "answered"]
    /\ voice' = [voice EXCEPT ![t] = p]
    /\ UNCHANGED <<asked, tried>>

Fails(t, p) ==
    /\ status[t] = "open"
    /\ voice[t] = p \/ untried(t) = {p}
    /\ status' = [status EXCEPT ![t] = "failed"]
    /\ UNCHANGED <<asked, tried, voice>>

Next ==
    \E t \in Turns :
        \/ \E S \in SUBSET Providers : Opens(t, S)
        \/ \E p \in Providers : GivesWay(t, p) \/ IsHeard(t, p) \/ Answers(t, p) \/ Fails(t, p)

Spec == Init /\ [][Next]_answerVars

=============================================================================
