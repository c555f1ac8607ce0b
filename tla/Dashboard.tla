------------------------------ MODULE Dashboard -----------------------------
(***************************************************************************)
(* A tab of the dashboard (ui/src/lib/use-jarvis.ts) and what core gives   *)
(* it: the push-only socket (core/ws.ts), the one fetch of the approvals   *)
(* (core/http.ts), and the gate, the voice and the camera it shows.        *)
(* Another tab and the command line are there by what they decide.         *)
(*                                                                         *)
(* A fetch and the socket are two connections: what they carry may         *)
(* overtake each other.                                                    *)
(***************************************************************************)
EXTENDS Voice

CONSTANTS
    Requests,       \* requests for an approval
    MaxMishaps      \* bound: spoken lines, sessions, drops, reloads, deaths of the voice

ASSUME DashboardAssumption == MaxMishaps \in Nat

VARIABLES
    request,        \* per request: none, pending, running (approved, in its executor) or over
    camera,         \* a camera session is armed
    conn,           \* the tab's socket: open or closed
    wire,           \* events sent on it, not yet handled
    toCore,         \* decisions sent on it, not yet handled
    shown,          \* what the tab shows
    asked, body,    \* its fetch of the approvals, and the answer to it
    seen,           \* history: lights whose last change went to this very socket
    crossed,        \* history: since it was loaded the tab may have missed a decision
    left            \* mishaps left

netVars == <<conn, wire, toCore>>
fetchVars == <<asked, body>>
historyVars == <<seen, crossed>>
dashboardVars == <<voiceVars, request, camera, netVars, shown, fetchVars, historyVars, left>>

Lights == {"speaking", "camera"}

Unloaded == [approvals |-> {}, voice |-> "unknown", speaking |-> FALSE, camera |-> FALSE]

\* A tab just opened; its first fetch is on its way.
DashboardInit ==
    /\ VoiceInit
    /\ request = [r \in Requests |-> "none"] /\ camera = FALSE
    /\ conn = "closed" /\ wire = <<>> /\ toCore = <<>>
    /\ shown = Unloaded /\ asked = "sent" /\ body = {}
    /\ seen = [l \in Lights |-> FALSE] /\ crossed = FALSE
    /\ left = MaxMishaps

pending == {r \in Requests : request[r] = "pending"}

happens == left > 0 /\ left' = left - 1
----------------------------------------------------------------------------
(* core/ws.ts: what is broadcast reaches the sockets that are open.        *)

event(type, of) == [type |-> type, of |-> of]

aboutApprovals(e) == e.type \in {"new", "resolved"}

upOrDown(connected) == IF connected THEN "up" ELSE "down"

broadcast(e) == wire' = IF conn = "open" THEN Append(wire, e) ELSE wire

\* With the socket closed the tab is not told; no matter while its list is yet to be read.
broadcastGate(e) ==
    /\ broadcast(e)
    /\ crossed' = (crossed \/ (conn # "open" /\ asked # "sent"))
    /\ UNCHANGED <<voiceVars, camera, conn, shown, fetchVars, seen, left>>

\* Some light changes, reported by a daemon that still lives or has died since.
broadcastLight(light, on, lives) ==
    /\ broadcast(event(light, on))
    /\ seen' = [seen EXCEPT ![light] = (conn = "open" /\ lives)]
    /\ UNCHANGED <<request, conn, toCore, shown, fetchVars, crossed>>

becomes(r, state) == request' = [request EXCEPT ![r] = state]

Proposed(r) ==
    /\ request[r] = "none"
    /\ becomes(r, "pending")
    /\ broadcastGate(event("new", r))
    /\ UNCHANGED toCore

\* Mutant: an expired request is announced to nobody.
ExpiresQuietly(r) ==
    /\ request[r] = "pending"
    /\ becomes(r, "over")
    /\ UNCHANGED <<voiceVars, camera, netVars, shown, fetchVars, historyVars, left>>

Expires(r) ==
    /\ request[r] = "pending"
    /\ becomes(r, "over")
    /\ broadcastGate(event("resolved", r))
    /\ UNCHANGED toCore

\* The executor of an approved request comes back, which is announced once more.
Executed(r) ==
    /\ request[r] = "running"
    /\ becomes(r, "over")
    /\ broadcastGate(event("resolved", r))
    /\ UNCHANGED toCore

decided(r, decision) ==
    IF request[r] = "pending"
    THEN /\ becomes(r, IF decision = "approve" THEN "running" ELSE "over")
         /\ broadcastGate(event("resolved", r))
    ELSE UNCHANGED <<voiceVars, request, camera, conn, wire, shown, fetchVars, historyVars, left>>

\* gate.decide, with what came over the tab's socket.
DecisionArrives ==
    /\ toCore # <<>>
    /\ decided(Head(toCore).of, Head(toCore).type)
    /\ toCore' = Tail(toCore)

\* On the command line, or in another tab.
OtherDecides(r) ==
    /\ request[r] = "pending"
    /\ \E decision \in {"approve", "reject"} : decided(r, decision)
    /\ UNCHANGED toCore
----------------------------------------------------------------------------
(* The voice and the camera, relayed.                                      *)

VoiceSpeaks ==
    /\ \/ sends(1) /\ happens
       \/ SpeaksNext /\ UNCHANGED left
       \/ SpeechEnds /\ UNCHANGED left
    /\ UNCHANGED <<request, camera, netVars, shown, fetchVars, historyVars>>

VoiceKilled ==
    /\ VoiceDies /\ happens
    /\ seen' = [seen EXCEPT !.speaking = FALSE]
    /\ UNCHANGED <<request, camera, netVars, shown, fetchVars, crossed>>

relayVoiceStatus ==
    /\ ReportRead
    /\ broadcastLight("speaking", Head(fromVoice), linked)
    /\ UNCHANGED <<camera, left>>

broadcastSenseState ==
    /\ DropNoticed \/ VoiceReconnects
    /\ broadcast(event("voice", upOrDown(known')))
    /\ UNCHANGED <<request, camera, conn, toCore, shown, fetchVars, historyVars, left>>

relayCameraStatus ==
    /\ happens
    /\ camera' = ~camera
    /\ broadcastLight("camera", camera', TRUE)
    /\ UNCHANGED voiceVars
----------------------------------------------------------------------------
(* The tab.                                                                *)

\* backfillForNewClient: the senses' states, and no more.
SocketOpens ==
    /\ conn = "closed"
    /\ conn' = "open" /\ wire' = <<event("voice", upOrDown(known))>>
    /\ UNCHANGED <<voiceVars, request, camera, toCore, shown, fetchVars, historyVars, left>>

\* What was under way on it is lost.
SocketDrops ==
    /\ conn = "open" /\ happens
    /\ conn' = "closed" /\ wire' = <<>> /\ toCore' = <<>>
    /\ seen' = [l \in Lights |-> FALSE]
    /\ crossed' = (crossed \/ toCore # <<>> \/ \E i \in DOMAIN wire : aboutApprovals(wire[i]))
    /\ UNCHANGED <<voiceVars, request, camera, shown, fetchVars>>

Reloads ==
    /\ happens
    /\ conn' = "closed" /\ wire' = <<>> /\ toCore' \in {toCore, <<>>}
    /\ shown' = Unloaded /\ asked' = "sent" /\ body' = {}
    /\ seen' = [l \in Lights |-> FALSE] /\ crossed' = (toCore' # <<>>)
    /\ UNCHANGED <<voiceVars, request, camera>>

\* onmessage: the tab's state after an event.
reduce(state, e) ==
    CASE e.type = "new"      -> [state EXCEPT !.approvals = @ \cup {e.of}]
      [] e.type = "resolved" -> [state EXCEPT !.approvals = @ \ {e.of}]
      [] e.type = "voice"    -> [state EXCEPT !.voice = e.of]
      [] e.type = "speaking" -> [state EXCEPT !.speaking = e.of]
      [] e.type = "camera"   -> [state EXCEPT !.camera = e.of]

\* An event that overtakes the answer to the fetch of the approvals is undone by it.
EventHandled ==
    /\ wire # <<>>
    /\ wire' = Tail(wire) /\ shown' = reduce(shown, Head(wire))
    /\ crossed' = (crossed \/ (asked = "served" /\ aboutApprovals(Head(wire))))
    /\ UNCHANGED <<voiceVars, request, camera, conn, toCore, fetchVars, seen, left>>

\* ApprovalQueue: a request can be decided while it is shown, whatever its time left.
canDecide(r) == r \in shown.approvals

\* decide: the request is no longer shown, whether or not the message can be sent.
ClickDecide(r, decision) ==
    /\ canDecide(r)
    /\ shown' = [shown EXCEPT !.approvals = @ \ {r}]
    /\ toCore' = IF conn = "open" THEN Append(toCore, event(decision, r)) ELSE toCore
    /\ crossed' = (crossed \/ conn # "open")
    /\ UNCHANGED <<voiceVars, request, camera, conn, wire, fetchVars, seen, left>>

ApprovalsServed ==
    /\ asked = "sent"
    /\ asked' = "served" /\ body' = pending
    /\ UNCHANGED <<voiceVars, request, camera, netVars, shown, historyVars, left>>

ApprovalsLoaded ==
    /\ asked = "served"
    /\ asked' = "none" /\ body' = {}
    /\ shown' = [shown EXCEPT !.approvals = body]
    /\ UNCHANGED <<voiceVars, request, camera, netVars, historyVars, left>>

ApprovalsFail ==
    /\ asked # "none"
    /\ asked' = "none" /\ body' = {}
    /\ crossed' = TRUE
    /\ UNCHANGED <<voiceVars, request, camera, netVars, shown, seen, left>>
----------------------------------------------------------------------------
DashboardNext ==
    \/ \E r \in Requests :
          \/ Proposed(r) \/ Expires(r) \/ Executed(r) \/ OtherDecides(r)
          \/ \E decision \in {"approve", "reject"} : ClickDecide(r, decision)
    \/ DecisionArrives
    \/ VoiceSpeaks \/ VoiceKilled \/ relayVoiceStatus \/ broadcastSenseState \/ relayCameraStatus
    \/ SocketOpens \/ SocketDrops \/ Reloads \/ EventHandled
    \/ ApprovalsServed \/ ApprovalsLoaded \/ ApprovalsFail

DashboardSpec == DashboardInit /\ [][DashboardNext]_dashboardVars
----------------------------------------------------------------------------
(* Properties.                                                             *)

\* What a tab with nothing left to handle shows of the senses is what core takes for true,
\* from the moment it is open; and a light whose last change it was there for is on just
\* when the camera is armed, or the voice is speaking (ws.ts's backfill; voice's finally).
LightsTellTheTruth ==
    conn = "open" /\ wire = <<>> =>
        /\ shown.voice = upOrDown(known)
        /\ seen.camera => shown.camera = camera
        /\ seen.speaking /\ fromVoice = <<>> => shown.speaking = speaking

\* With nothing under way, the tab asks for a decision on exactly the requests that wait
\* for one, unless a request came or went where neither its fetch nor its socket could
\* tell it, or a decision of its own was lost.
ApprovalsShown ==
    conn = "open" /\ wire = <<>> /\ toCore = <<>> /\ asked = "none" /\ ~crossed =>
        shown.approvals = pending

(* What makes them so.                                                      *)

Statuses == {"none", "pending", "running", "over"}

Decisions == {event(decision, r) : decision \in {"approve", "reject"}, r \in Requests}

\* The events about one thing.
VoiceNews == {event("voice", state) : state \in {"up", "down"}}
LightNews(light) == {event(light, on) : on \in BOOLEAN}
RequestNews(r) == {event(type, r) : type \in {"new", "resolved"}}

Events ==
    VoiceNews \cup {event(l, on) : l \in Lights, on \in BOOLEAN}
    \cup {event(type, r) : type \in {"new", "resolved"}, r \in Requests}

DashboardTypeOK ==
    /\ VoiceTypeOK
    /\ request \in [Requests -> Statuses] /\ camera \in BOOLEAN
    /\ conn \in {"open", "closed"} /\ wire \in Seq(Events) /\ toCore \in Seq(Decisions)
    /\ shown.approvals \subseteq Requests /\ body \subseteq Requests
    /\ DOMAIN shown = {"approvals", "voice", "speaking", "camera"}
    /\ shown.voice \in {"unknown", "up", "down"} /\ shown.speaking \in BOOLEAN /\ shown.camera \in BOOLEAN
    /\ asked \in {"sent", "served", "none"}
    /\ seen \in [Lights -> BOOLEAN] /\ crossed \in BOOLEAN /\ left \in 0..MaxMishaps

\* Nothing on its way is about something; or the last that is, is e; and with none, what e says
\* is shown already.
Silent(q, news) == \A n \in DOMAIN q : q[n] \notin news

Tells(q, news, e) ==
    \A n \in DOMAIN q :
        q[n] \in news /\ (\A m \in DOMAIN q : m > n => q[m] \notin news) => q[n] = e

Shows(q, news, e, value) == Tells(q, news, e) /\ (Silent(q, news) => value = e.of)

\* Once it has handled what is on its way, the tab shows the state of the voice, and of a
\* light it was there for.
VoiceShown ==
    conn = "open" => Shows(wire, VoiceNews, event("voice", upOrDown(known)), shown.voice)

CameraShown ==
    seen.camera => Shows(wire, LightNews("camera"), event("camera", camera), shown.camera)

SpeakingShown ==
    seen.speaking =>
        /\ linked
        /\ fromVoice = <<>> =>
              Shows(wire, LightNews("speaking"), event("speaking", speaking), shown.speaking)

ClosedHearsNothing == conn # "open" => wire = <<>> /\ \A l \in Lights : ~seen[l]

\* The last event about a request says whether it waits for a decision; of a request that
\* none is on its way about, the list does, but for one decided here.
verdict(r) == event(IF request[r] = "pending" THEN "new" ELSE "resolved", r)

listed == IF asked = "served" THEN body ELSE shown.approvals

RequestsTold == \A r \in Requests : Tells(wire, RequestNews(r), verdict(r))

RequestsListed ==
    ~crossed /\ asked # "sent" =>
        \A r \in Requests : Silent(wire, RequestNews(r)) =>
            /\ r \in listed => request[r] = "pending"
            /\ request[r] = "pending" /\ (\A n \in DOMAIN toCore : toCore[n].of # r) => r \in listed

DashboardIInv ==
    /\ DashboardTypeOK
    /\ VoiceReports /\ VoiceShown /\ CameraShown /\ SpeakingShown /\ ClosedHearsNothing
    /\ RequestsTold /\ RequestsListed
=============================================================================
