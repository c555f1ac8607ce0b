---------------------------- MODULE DashboardProofs -------------------------
(***************************************************************************)
(* Proofs about a tab of the dashboard and what core sends it, for any     *)
(* requests and any number of mishaps.                                     *)
(***************************************************************************)
EXTENDS Dashboard, TLAPS

(***************************************************************************)
(* What the last event about something is, once one more is sent or one is *)
(* handled.                                                                *)
(***************************************************************************)
LEMMA SentOnWire ==
  ASSUME NEW T, NEW q \in Seq(T), NEW e \in T
  PROVE  /\ Append(q, e) \in Seq(T)
         /\ Len(q) + 1 \in DOMAIN Append(q, e) /\ Append(q, e)[Len(q) + 1] = e
         /\ \A n \in DOMAIN q : n \in DOMAIN Append(q, e) /\ Append(q, e)[n] = q[n] /\ Len(q) + 1 > n
         /\ \A n \in DOMAIN Append(q, e) : n \in DOMAIN q \/ n = Len(q) + 1
OBVIOUS

LEMMA OffTheWire ==
  ASSUME NEW T, NEW q \in Seq(T), q # <<>>
  PROVE  /\ Tail(q) \in Seq(T) /\ Head(q) \in T
         /\ 1 \in DOMAIN q /\ q[1] = Head(q)
         /\ \A n \in DOMAIN Tail(q) : n \in Nat /\ n + 1 \in DOMAIN q /\ Tail(q)[n] = q[n + 1]
         /\ \A n \in DOMAIN q : n = 1 \/ (n > 1 /\ n - 1 \in DOMAIN Tail(q))
OBVIOUS

LEMMA NewsSent ==
  ASSUME NEW T, NEW q \in Seq(T), NEW e \in T, NEW news
  PROVE  /\ e \in news => Tells(Append(q, e), news, e) /\ ~Silent(Append(q, e), news)
         /\ e \notin news => Silent(Append(q, e), news) = Silent(q, news)
         /\ \A f : e \notin news /\ Tells(q, news, f) => Tells(Append(q, e), news, f)
BY SentOnWire DEF Tells, Silent

LEMMA NewsHandled ==
  ASSUME NEW T, NEW q \in Seq(T), q # <<>>, NEW news
  PROVE  /\ \A f : Tells(q, news, f) => Tells(Tail(q), news, f)
         /\ Head(q) \notin news => Silent(Tail(q), news) = Silent(q, news)
         /\ \A f : Head(q) \in news /\ Silent(Tail(q), news) /\ Tells(q, news, f) => Head(q) = f
<1> USE OffTheWire
<1>1. ASSUME NEW f, Tells(q, news, f) PROVE Tells(Tail(q), news, f)
  <2>1. SUFFICES ASSUME NEW n \in DOMAIN Tail(q), Tail(q)[n] \in news,
                        \A m \in DOMAIN Tail(q) : m > n => Tail(q)[m] \notin news
                 PROVE  Tail(q)[n] = f
    BY DEF Tells
  <2>2. ASSUME NEW m \in DOMAIN q, m > n + 1 PROVE q[m] \notin news
    <3>1. m > 1 /\ m - 1 \in DOMAIN Tail(q) /\ m - 1 > n /\ Tail(q)[m - 1] = q[(m - 1) + 1]
      BY <2>2
    <3>2. QED BY <2>1, <3>1
  <2>3. QED BY <1>1, <2>1, <2>2 DEF Tells
<1>2. ASSUME Head(q) \notin news PROVE Silent(Tail(q), news) = Silent(q, news)
  <2>1. ASSUME Silent(Tail(q), news), NEW n \in DOMAIN q PROVE q[n] \notin news
    <3>1. CASE n = 1
      BY <1>2, <3>1
    <3>2. CASE n > 1
      <4>1. n - 1 \in DOMAIN Tail(q) /\ Tail(q)[n - 1] = q[n]
        BY <3>2
      <4>2. QED BY <2>1, <4>1 DEF Silent
    <3>3. QED BY <3>1, <3>2
  <2>2. Silent(q, news) => Silent(Tail(q), news)
    BY DEF Silent
  <2>3. QED BY <2>1, <2>2 DEF Silent
<1>3. ASSUME NEW f, Head(q) \in news, Silent(Tail(q), news), Tells(q, news, f) PROVE Head(q) = f
  <2>1. \A m \in DOMAIN q : m > 1 => q[m] \notin news
    <3>1. ASSUME NEW m \in DOMAIN q, m > 1 PROVE q[m] \notin news
      <4>1. m - 1 \in DOMAIN Tail(q) /\ Tail(q)[m - 1] = q[m]
        BY <3>1
      <4>2. QED BY <1>3, <4>1 DEF Silent
    <3>2. QED BY <3>1
  <2>2. QED BY <1>3, <2>1 DEF Tells
<1>4. QED BY <1>1, <1>2, <1>3

LEMMA NothingOnWire == \A news : Silent(<<>>, news) /\ \A f : Tells(<<>>, news, f)
BY DEF Silent, Tells

LEMMA ShowsSent ==
  ASSUME NEW T, NEW q \in Seq(T), NEW e \in T, NEW news
  PROVE  /\ \A v : e \in news => Shows(Append(q, e), news, e, v)
         /\ \A f : \A v : e \notin news /\ Shows(q, news, f, v) => Shows(Append(q, e), news, f, v)
BY NewsSent DEF Shows

LEMMA ShowsHandled ==
  ASSUME NEW T, NEW q \in Seq(T), q # <<>>, NEW news, NEW f, NEW v, Shows(q, news, f, v)
  PROVE  /\ Head(q) \notin news => Shows(Tail(q), news, f, v)
         /\ Head(q) \in news => Shows(Tail(q), news, f, Head(q).of)
BY NewsHandled DEF Shows

\* Events about different things are different.
LEMMA EventFields == \A type, of : event(type, of).type = type /\ event(type, of).of = of
BY DEF event

LEMMA NewsFacts ==
  /\ \A e \in VoiceNews : e.type = "voice" /\ e.of \in {"up", "down"}
  /\ \A l \in Lights : \A e \in LightNews(l) : e.type = l /\ e.of \in BOOLEAN
  /\ \A r \in Requests : \A e \in RequestNews(r) : e.type \in {"new", "resolved"} /\ e.of = r
<1>1. \A e \in VoiceNews : e.type = "voice" /\ e.of \in {"up", "down"}
  BY EventFields DEF VoiceNews
<1>2. \A l \in Lights : \A e \in LightNews(l) : e.type = l /\ e.of \in BOOLEAN
  BY EventFields DEF LightNews
<1>3. \A r \in Requests : \A e \in RequestNews(r) : e.type \in {"new", "resolved"} /\ e.of = r
  BY EventFields DEF RequestNews
<1>4. QED BY <1>1, <1>2, <1>3

LEMMA NewsAreEvents ==
  /\ \A up : event("voice", upOrDown(up)) \in VoiceNews \cap Events
  /\ \A l \in Lights, on \in BOOLEAN : event(l, on) \in LightNews(l) \cap Events
  /\ \A r \in Requests, type \in {"new", "resolved"} : event(type, r) \in RequestNews(r) \cap Events
<1>1. \A up : event("voice", upOrDown(up)) \in VoiceNews
  BY DEF upOrDown, VoiceNews
<1>2. \A l \in Lights, on \in BOOLEAN : event(l, on) \in LightNews(l)
  BY DEF LightNews
<1>3. \A r \in Requests, type \in {"new", "resolved"} : event(type, r) \in RequestNews(r)
  BY DEF RequestNews
<1>4. QED BY <1>1, <1>2, <1>3 DEF Events

LEMMA EventKinds ==
  ASSUME NEW e \in Events
  PROVE  \/ e \in VoiceNews \/ (\E l \in Lights : e \in LightNews(l))
         \/ (\E r \in Requests : e \in RequestNews(r))
BY DEF Events, LightNews, RequestNews

LEMMA NewsDiffer ==
  /\ \A l \in Lights : VoiceNews \cap LightNews(l) = {}
  /\ \A r \in Requests : VoiceNews \cap RequestNews(r) = {}
  /\ \A l \in Lights, r \in Requests : LightNews(l) \cap RequestNews(r) = {}
  /\ \A l, k \in Lights : l # k => LightNews(l) \cap LightNews(k) = {}
  /\ \A r, o \in Requests : r # o => RequestNews(r) \cap RequestNews(o) = {}
BY NewsFacts DEF Lights
-----------------------------------------------------------------------------
(***************************************************************************)
(* What core sends.                                                        *)
(***************************************************************************)
LEMMA Broadcasts ==
  ASSUME DashboardIInv, NEW e \in Events, broadcast(e)
  PROVE  /\ wire' \in Seq(Events)
         /\ \A news : Silent(wire', news) => Silent(wire, news) /\ (conn = "open" => e \notin news)
         /\ \A news : conn = "open" /\ e \in news => Tells(wire', news, e) /\ \A v : Shows(wire', news, e, v)
         /\ \A news : \A f : e \notin news /\ Tells(wire, news, f) => Tells(wire', news, f)
         /\ \A news : \A f : \A v : e \notin news /\ Shows(wire, news, f, v) => Shows(wire', news, f, v)
         /\ conn # "open" => wire' = <<>> /\ wire = <<>>
<1>1. wire \in Seq(Events) /\ (conn # "open" => wire = <<>>)
  BY DEF DashboardIInv, DashboardTypeOK, ClosedHearsNothing
<1>2. CASE conn = "open"
  <2>1. wire' = Append(wire, e)
    BY <1>2 DEF broadcast
  <2>2. Append(wire, e) \in Seq(Events)
    BY <1>1, SentOnWire
  <2>3. ASSUME NEW news
        PROVE  /\ e \in news => Tells(Append(wire, e), news, e) /\ ~Silent(Append(wire, e), news)
               /\ e \notin news => Silent(Append(wire, e), news) = Silent(wire, news)
               /\ \A f : e \notin news /\ Tells(wire, news, f) => Tells(Append(wire, e), news, f)
    BY <1>1, NewsSent
  <2>4. ASSUME NEW news
        PROVE  /\ \A v : e \in news => Shows(Append(wire, e), news, e, v)
               /\ \A f : \A v : e \notin news /\ Shows(wire, news, f, v) =>
                                  Shows(Append(wire, e), news, f, v)
    BY <1>1, ShowsSent
  <2>5. QED BY <1>2, <2>1, <2>2, <2>3, <2>4
<1>3. CASE conn # "open"
  <2>1. wire' = wire /\ wire = <<>>
    BY <1>1, <1>3 DEF broadcast
  <2>2. QED BY <1>1, <1>3, <2>1
<1>4. QED BY <1>2, <1>3

\* A request comes to wait for a decision, or no longer waits for one: whoever is there is
\* told, and who is not is known to have missed it.
LEMMA RequestChanges ==
  ASSUME DashboardIInv, NEW r \in Requests, NEW s \in Statuses, becomes(r, s),
         broadcastGate(event(IF s = "pending" THEN "new" ELSE "resolved", r)),
         toCore' \in Seq(Decisions),
         \A o \in Requests \ {r} :
            (\A n \in DOMAIN toCore' : toCore'[n].of # o) => \A n \in DOMAIN toCore : toCore[n].of # o
  PROVE  DashboardIInv'
<1> DEFINE e == event(IF s = "pending" THEN "new" ELSE "resolved", r)
<1>1. e \in RequestNews(r) /\ e \in Events
  BY NewsAreEvents
<1>2. /\ wire' \in Seq(Events)
      /\ \A news : Silent(wire', news) => Silent(wire, news) /\ (conn = "open" => e \notin news)
      /\ \A news : conn = "open" /\ e \in news => Tells(wire', news, e)
      /\ \A news : \A f : e \notin news /\ Tells(wire, news, f) => Tells(wire', news, f)
      /\ \A news : \A f : \A v : e \notin news /\ Shows(wire, news, f, v) => Shows(wire', news, f, v)
      /\ conn # "open" => wire' = <<>> /\ wire = <<>>
  BY <1>1, Broadcasts DEF broadcastGate
<1>3. /\ UNCHANGED <<voiceVars, camera, conn, shown, fetchVars, seen, left>>
      /\ crossed' = (crossed \/ (conn # "open" /\ asked # "sent"))
  BY DEF broadcastGate
<1>4. /\ request' \in [Requests -> Statuses] /\ request'[r] = s
      /\ \A o \in Requests \ {r} : request'[o] = request[o]
  BY DEF DashboardIInv, DashboardTypeOK, becomes
<1>5. DashboardTypeOK' /\ VoiceReports'
  BY <1>2, <1>3, <1>4
  DEF DashboardIInv, DashboardTypeOK, VoiceTypeOK, VoiceReports, voiceVars, fetchVars
<1>6. /\ e \notin VoiceNews /\ \A l \in Lights : e \notin LightNews(l)
      /\ \A o \in Requests \ {r} : e \notin RequestNews(o)
  BY <1>1, NewsDiffer
<1>7. VoiceShown' /\ CameraShown' /\ SpeakingShown' /\ ClosedHearsNothing'
  BY <1>2, <1>3, <1>6
  DEF DashboardIInv, VoiceShown, CameraShown, SpeakingShown, ClosedHearsNothing, voiceVars, Lights
<1>8. RequestsTold'
  <2>1. verdict(r)' = e /\ \A o \in Requests \ {r} : verdict(o)' = verdict(o)
    BY <1>4 DEF verdict
  <2>2. ASSUME NEW o \in Requests PROVE Tells(wire', RequestNews(o), verdict(o)')
    <3>1. CASE conn # "open"
      BY <1>2, <3>1, NothingOnWire
    <3>2. CASE conn = "open" /\ o = r
      BY <1>1, <1>2, <2>1, <3>2
    <3>3. CASE conn = "open" /\ o # r
      BY <1>2, <1>6, <2>1, <3>3 DEF DashboardIInv, RequestsTold
    <3>4. QED BY <3>1, <3>2, <3>3
  <2>3. QED BY <2>2 DEF RequestsTold, RequestNews
<1>9. RequestsListed'
  <2>1. SUFFICES ASSUME ~crossed, asked # "sent", conn = "open", NEW o \in Requests,
                        Silent(wire', RequestNews(o))
                 PROVE  /\ o \in listed => request'[o] = "pending"
                        /\ request'[o] = "pending" /\ (\A n \in DOMAIN toCore' : toCore'[n].of # o)
                             => o \in listed
    BY <1>3 DEF RequestsListed, listed, RequestNews, fetchVars
  <2>2. o # r /\ Silent(wire, RequestNews(o))
    BY <1>1, <1>2, <2>1
  <2>3. QED BY <1>4, <2>1, <2>2 DEF DashboardIInv, RequestsListed
<1>10. QED BY <1>5, <1>7, <1>8, <1>9 DEF DashboardIInv

LEMMA DecisionKeeps ==
  ASSUME DashboardIInv, DecisionArrives PROVE DashboardIInv'
<1> DEFINE r == Head(toCore).of
<1>1. toCore \in Seq(Decisions) /\ toCore # <<>> /\ toCore' = Tail(toCore)
  BY DEF DashboardIInv, DashboardTypeOK, DecisionArrives
<1>2. /\ toCore' \in Seq(Decisions) /\ Head(toCore) \in Decisions /\ toCore[1] = Head(toCore)
      /\ \A n \in DOMAIN toCore : n = 1 \/ (n > 1 /\ n - 1 \in DOMAIN Tail(toCore))
      /\ \A n \in DOMAIN Tail(toCore) : n \in Nat /\ n + 1 \in DOMAIN toCore /\ Tail(toCore)[n] = toCore[n + 1]
  BY <1>1, OffTheWire
<1>3. r \in Requests
  BY <1>2, EventFields DEF Decisions
<1>4. \A o \in Requests \ {r} :
         (\A n \in DOMAIN toCore' : toCore'[n].of # o) => \A n \in DOMAIN toCore : toCore[n].of # o
  <2>1. SUFFICES ASSUME NEW o \in Requests \ {r}, \A n \in DOMAIN toCore' : toCore'[n].of # o,
                        NEW n \in DOMAIN toCore
                 PROVE  toCore[n].of # o
    OBVIOUS
  <2>2. CASE n = 1
    BY <1>2, <2>2
  <2>3. CASE n > 1
    <3>1. n - 1 \in DOMAIN Tail(toCore) /\ Tail(toCore)[n - 1] = toCore[n]
      BY <1>1, <1>2, <2>3
    <3>2. QED BY <1>1, <2>1, <3>1
  <2>4. QED BY <1>1, <1>2, <2>2, <2>3
<1>5. decided(r, Head(toCore).type)
  BY DEF DecisionArrives
<1>6. CASE request[r] = "pending"
  <2>1. PICK s \in Statuses \ {"pending"} : becomes(r, s) /\ broadcastGate(event("resolved", r))
    BY <1>5, <1>6 DEF decided, Statuses
  <2>2. QED BY <1>2, <1>3, <1>4, <2>1, RequestChanges
<1>7. CASE request[r] # "pending"
  <2>1. UNCHANGED <<voiceVars, request, camera, conn, wire, shown, fetchVars, historyVars, left>>
    BY <1>5, <1>7 DEF decided
  <2>2. DashboardTypeOK' /\ VoiceReports' /\ VoiceShown' /\ CameraShown' /\ SpeakingShown'
        /\ ClosedHearsNothing' /\ RequestsTold'
    BY <1>2, <2>1
    DEF DashboardIInv, DashboardTypeOK, VoiceTypeOK, VoiceReports, VoiceShown, CameraShown, SpeakingShown,
        ClosedHearsNothing, RequestsTold, verdict, voiceVars, fetchVars, historyVars
  <2>3. RequestsListed'
    BY <1>4, <1>7, <2>1 DEF DashboardIInv, RequestsListed, listed, fetchVars, historyVars
  <2>4. QED BY <2>2, <2>3 DEF DashboardIInv
<1>8. QED BY <1>6, <1>7

LEMMA GateKeeps ==
  ASSUME DashboardIInv, NEW r \in Requests, Proposed(r) \/ Expires(r) \/ Executed(r) \/ OtherDecides(r)
  PROVE  DashboardIInv'
<1>1. toCore' \in Seq(Decisions) /\ toCore' = toCore
  BY DEF DashboardIInv, DashboardTypeOK, Proposed, Expires, Executed, OtherDecides
<1>2. PICK s \in Statuses : /\ becomes(r, s)
                            /\ broadcastGate(event(IF s = "pending" THEN "new" ELSE "resolved", r))
  BY DEF Proposed, Expires, Executed, OtherDecides, decided, Statuses
<1>3. QED BY <1>1, <1>2, RequestChanges

\* What neither the gate nor the tab's list has a part in leaves both as they are.
LEMMA ListUntouched ==
  ASSUME DashboardIInv, NEW e \in Events, broadcast(e), e.type \notin {"new", "resolved"},
         UNCHANGED <<request, toCore, crossed, shown, fetchVars>>
  PROVE  RequestsTold' /\ RequestsListed'
<1>1. \A r \in Requests : e \notin RequestNews(r)
  BY NewsFacts
<1>2. /\ \A news : Silent(wire', news) => Silent(wire, news)
      /\ \A news : \A f : e \notin news /\ Tells(wire, news, f) => Tells(wire', news, f)
  BY Broadcasts
<1>3. RequestsTold'
  BY <1>1, <1>2 DEF DashboardIInv, RequestsTold, verdict, RequestNews
<1>4. RequestsListed'
  BY <1>2 DEF DashboardIInv, RequestsListed, listed, RequestNews, fetchVars
<1>5. QED BY <1>3, <1>4

LEMMA VoiceKeeps ==
  ASSUME DashboardIInv, VoiceSpeaks \/ VoiceKilled PROVE DashboardIInv'
<1>1. UNCHANGED <<request, camera, netVars, shown, fetchVars, crossed, known>>
  BY DEF VoiceSpeaks, VoiceKilled, sends, SpeaksNext, SpeechEnds, VoiceDies, historyVars
<1>2. left \in 0..MaxMishaps /\ left' \in 0..MaxMishaps
  BY DashboardAssumption DEF DashboardIInv, DashboardTypeOK, VoiceSpeaks, VoiceKilled, happens
<1>3. VoiceTypeOK /\ VoiceReports /\ seen \in [Lights -> BOOLEAN]
  BY DEF DashboardIInv, DashboardTypeOK
<1>4. /\ VoiceTypeOK' /\ VoiceReports' /\ seen' \in [Lights -> BOOLEAN] /\ seen'["camera"] = seen["camera"]
      /\ seen'["speaking"] =>
           seen["speaking"] /\ linked' = linked /\ (fromVoice' = <<>> => fromVoice = <<>> /\ speaking' = speaking)
      /\ \A l \in Lights : seen'[l] => seen[l]
  <2>1. CASE sends(1) /\ UNCHANGED seen
    BY <1>3, <2>1 DEF sends, VoiceTypeOK, VoiceReports
  <2>2. CASE (SpeaksNext \/ SpeechEnds) /\ UNCHANGED seen
    <3>1. PICK b \in BOOLEAN : /\ fromVoice' = Append(fromVoice, b) /\ speaking' = b
                               /\ UNCHANGED <<linked, known>>
      BY <2>2 DEF SpeaksNext, SpeechEnds
    <3>2. linked /\ toVoice' \in Nat
      <4>1. linked
        BY <1>3, <2>2, Zenon DEF SpeaksNext, SpeechEnds, VoiceReports
      <4>2. toVoice \in Nat /\ toVoice' \in {toVoice, toVoice - 1} /\ (toVoice' = toVoice \/ toVoice > 0)
        BY <1>3, <2>2 DEF SpeaksNext, SpeechEnds, VoiceTypeOK
      <4>3. QED BY <4>1, <4>2
    <3>3. /\ Append(fromVoice, b) \in Seq(BOOLEAN) /\ Append(fromVoice, b) # <<>>
          /\ Append(fromVoice, b)[Len(Append(fromVoice, b))] = b
      BY <1>3 DEF VoiceTypeOK
    <3>4. QED BY <1>3, <2>2, <3>1, <3>2, <3>3 DEF VoiceTypeOK, VoiceReports
  <2>3. CASE VoiceDies /\ seen' = [seen EXCEPT !.speaking = FALSE]
    BY <1>3, <2>3 DEF VoiceDies, VoiceTypeOK, VoiceReports, Lights
  <2>4. QED BY <2>1, <2>2, <2>3 DEF VoiceSpeaks, VoiceKilled, historyVars
<1>5. DashboardTypeOK'
  BY <1>1, <1>2, <1>4 DEF DashboardIInv, DashboardTypeOK, netVars, fetchVars
<1>6. VoiceShown' /\ CameraShown' /\ SpeakingShown' /\ ClosedHearsNothing'
  BY <1>1, <1>4 DEF DashboardIInv, VoiceShown, CameraShown, SpeakingShown, ClosedHearsNothing, netVars
<1>7. RequestsTold' /\ RequestsListed'
  BY <1>1 DEF DashboardIInv, RequestsTold, verdict, RequestsListed, listed, netVars, fetchVars
<1>8. QED BY <1>4, <1>5, <1>6, <1>7 DEF DashboardIInv

LEMMA ReportKeeps ==
  ASSUME DashboardIInv, relayVoiceStatus PROVE DashboardIInv'
<1> DEFINE e == event("speaking", Head(fromVoice))
<1>1. VoiceTypeOK /\ VoiceReports /\ seen \in [Lights -> BOOLEAN] /\ conn \in {"open", "closed"}
  BY DEF DashboardIInv, DashboardTypeOK
<1>2. /\ fromVoice \in Seq(BOOLEAN) /\ fromVoice # <<>> /\ fromVoice' = Tail(fromVoice)
      /\ UNCHANGED <<linked, known, toVoice, speaking, request, camera, conn, toCore, shown, fetchVars,
                     crossed, left>>
      /\ broadcast(e) /\ seen' = [seen EXCEPT !["speaking"] = (conn = "open" /\ linked)]
  BY <1>1 DEF relayVoiceStatus, ReportRead, broadcastLight, VoiceTypeOK
<1>3. Head(fromVoice) \in BOOLEAN /\ Tail(fromVoice) \in Seq(BOOLEAN)
  BY <1>2
<1>4. e \in LightNews("speaking") /\ e \in Events /\ e.type = "speaking"
  BY <1>3, NewsAreEvents, EventFields DEF Lights
<1>5. /\ wire' \in Seq(Events)
      /\ \A news : conn = "open" /\ e \in news => \A v : Shows(wire', news, e, v)
      /\ \A news : \A f : \A v : e \notin news /\ Shows(wire, news, f, v) => Shows(wire', news, f, v)
      /\ conn # "open" => wire' = <<>>
  BY <1>2, <1>4, Broadcasts
<1>6. e \notin VoiceNews /\ e \notin LightNews("camera")
  BY <1>4, NewsDiffer DEF Lights
<1>7. seen' \in [Lights -> BOOLEAN] /\ seen'["camera"] = seen["camera"]
      /\ (seen'["speaking"] <=> conn = "open" /\ linked)
  BY <1>1, <1>2 DEF Lights
<1>8. VoiceTypeOK' /\ VoiceReports'
  <2>1. Tail(fromVoice) # <<>> =>
          Tail(fromVoice)[Len(Tail(fromVoice))] = fromVoice[Len(fromVoice)]
    BY <1>2
  <2>2. VoiceTypeOK'
    BY <1>1, <1>2, <1>3 DEF VoiceTypeOK
  <2>3. QED BY <1>1, <1>2, <2>1, <2>2 DEF VoiceReports
<1>9. DashboardTypeOK'
  BY <1>2, <1>5, <1>7, <1>8 DEF DashboardIInv, DashboardTypeOK, fetchVars
<1>10. VoiceShown' /\ CameraShown' /\ ClosedHearsNothing'
  BY <1>2, <1>5, <1>6, <1>7 DEF DashboardIInv, VoiceShown, CameraShown, ClosedHearsNothing, Lights
<1>11. SpeakingShown'
  <2>1. SUFFICES ASSUME conn = "open", linked, Tail(fromVoice) = <<>>
                 PROVE  Shows(wire', LightNews("speaking"), event("speaking", speaking), shown.speaking)
    BY <1>2, <1>7 DEF SpeakingShown
  <2>2. fromVoice[Len(fromVoice)] = Head(fromVoice)
    BY <1>2, <2>1
  <2>3. e = event("speaking", speaking)
    BY <1>1, <1>2, <2>1, <2>2 DEF VoiceReports
  <2>4. QED BY <1>4, <1>5, <2>1, <2>3
<1>12. RequestsTold' /\ RequestsListed'
  BY <1>2, <1>4, ListUntouched
<1>13. QED BY <1>8, <1>9, <1>10, <1>11, <1>12 DEF DashboardIInv

LEMMA SenseStateKeeps ==
  ASSUME DashboardIInv, broadcastSenseState PROVE DashboardIInv'
<1> DEFINE e == event("voice", upOrDown(known'))
<1>1. VoiceTypeOK /\ VoiceReports
  BY DEF DashboardIInv, DashboardTypeOK
<1>2. /\ UNCHANGED <<request, camera, conn, toCore, shown, fetchVars, seen, crossed, left, fromVoice, speaking>>
      /\ broadcast(e) /\ fromVoice = <<>> /\ ~linked
  BY <1>1 DEF broadcastSenseState, DropNoticed, VoiceReconnects, VoiceReports, historyVars
<1>3. VoiceTypeOK' /\ VoiceReports'
  <2>1. CASE DropNoticed
    <3>1. VoiceTypeOK'
      BY <1>1, <2>1, Zenon DEF DropNoticed, VoiceTypeOK
    <3>2. VoiceReports'
      BY <1>1, <2>1 DEF DropNoticed, VoiceReports
    <3>3. QED BY <3>1, <3>2
  <2>2. CASE VoiceReconnects
    <3>1. VoiceTypeOK'
      BY <1>1, <2>2, Zenon DEF VoiceReconnects, VoiceTypeOK
    <3>2. VoiceReports'
      BY <1>1, <1>2, <2>2 DEF VoiceReconnects, VoiceReports
    <3>3. QED BY <3>1, <3>2
  <2>3. QED BY <2>1, <2>2 DEF broadcastSenseState
<1>4. e \in VoiceNews /\ e \in Events /\ e.type = "voice"
  BY NewsAreEvents, EventFields
<1>5. /\ wire' \in Seq(Events)
      /\ \A news : conn = "open" /\ e \in news => \A v : Shows(wire', news, e, v)
      /\ \A news : \A f : \A v : e \notin news /\ Shows(wire, news, f, v) => Shows(wire', news, f, v)
      /\ conn # "open" => wire' = <<>>
  BY <1>2, <1>4, Broadcasts
<1>6. \A l \in Lights : e \notin LightNews(l)
  BY <1>4, NewsDiffer
<1>7. DashboardTypeOK'
  BY <1>2, <1>3, <1>5 DEF DashboardIInv, DashboardTypeOK, fetchVars
<1>8. VoiceShown'
  BY <1>2, <1>4, <1>5 DEF VoiceShown
<1>9. CameraShown' /\ SpeakingShown' /\ ClosedHearsNothing'
  BY <1>2, <1>5, <1>6 DEF DashboardIInv, CameraShown, SpeakingShown, ClosedHearsNothing, Lights
<1>10. RequestsTold' /\ RequestsListed'
  BY <1>2, <1>4, ListUntouched
<1>11. QED BY <1>3, <1>7, <1>8, <1>9, <1>10 DEF DashboardIInv

LEMMA CameraStatusKeeps ==
  ASSUME DashboardIInv, relayCameraStatus PROVE DashboardIInv'
<1> DEFINE e == event("camera", ~camera)
<1>1. seen \in [Lights -> BOOLEAN] /\ camera \in BOOLEAN /\ left \in 0..MaxMishaps
  BY DEF DashboardIInv, DashboardTypeOK
<1>2. /\ UNCHANGED <<voiceVars, request, conn, toCore, shown, fetchVars, crossed>>
      /\ broadcast(e) /\ camera' = ~camera
      /\ seen' = [seen EXCEPT !["camera"] = (conn = "open")]
  BY DEF relayCameraStatus, broadcastLight
<1>3. left' \in 0..MaxMishaps
  BY <1>1, DashboardAssumption DEF relayCameraStatus, happens
<1>4. e \in LightNews("camera") /\ e \in Events /\ e.type = "camera"
  BY <1>1, NewsAreEvents, EventFields DEF Lights
<1>5. /\ wire' \in Seq(Events)
      /\ \A news : conn = "open" /\ e \in news => \A v : Shows(wire', news, e, v)
      /\ \A news : \A f : \A v : e \notin news /\ Shows(wire, news, f, v) => Shows(wire', news, f, v)
      /\ conn # "open" => wire' = <<>>
  BY <1>2, <1>4, Broadcasts
<1>6. e \notin VoiceNews /\ e \notin LightNews("speaking")
  BY <1>4, NewsDiffer DEF Lights
<1>7. /\ seen' \in [Lights -> BOOLEAN] /\ seen'["speaking"] = seen["speaking"]
      /\ (seen'["camera"] <=> conn = "open")
  BY <1>1, <1>2 DEF Lights
<1>8. DashboardTypeOK' /\ VoiceReports'
  BY <1>1, <1>2, <1>3, <1>5, <1>7
  DEF DashboardIInv, DashboardTypeOK, VoiceTypeOK, VoiceReports, voiceVars, fetchVars
<1>9. CameraShown'
  BY <1>2, <1>4, <1>5, <1>7 DEF CameraShown
<1>10. VoiceShown' /\ SpeakingShown' /\ ClosedHearsNothing'
  BY <1>2, <1>5, <1>6, <1>7
  DEF DashboardIInv, VoiceShown, SpeakingShown, ClosedHearsNothing, voiceVars, Lights
<1>11. RequestsTold' /\ RequestsListed'
  BY <1>2, <1>4, ListUntouched
<1>12. QED BY <1>8, <1>9, <1>10, <1>11 DEF DashboardIInv
-----------------------------------------------------------------------------
(***************************************************************************)
(* What the tab does.                                                      *)
(***************************************************************************)
LEMMA OpensKeeps ==
  ASSUME DashboardIInv, SocketOpens PROVE DashboardIInv'
<1> DEFINE e == event("voice", upOrDown(known))
<1>1. /\ UNCHANGED <<voiceVars, request, camera, toCore, shown, fetchVars, historyVars, left>>
      /\ conn' = "open" /\ wire = <<>> /\ wire' = <<e>> /\ \A l \in Lights : ~seen[l]
  BY DEF SocketOpens, DashboardIInv, ClosedHearsNothing
<1>2. e \in VoiceNews /\ e \in Events /\ e.type = "voice"
  BY NewsAreEvents, EventFields
<1>3. wire \in Seq(Events) /\ wire' = Append(wire, e)
  BY <1>1
<1>4. /\ Append(wire, e) \in Seq(Events) /\ Shows(Append(wire, e), VoiceNews, e, shown.voice)
      /\ \A r \in Requests : Tells(Append(wire, e), RequestNews(r), verdict(r))
  <2>1. \A r \in Requests : e \notin RequestNews(r)
    BY <1>2, NewsFacts
  <2>2. Append(wire, e) \in Seq(Events)
    BY <1>2, <1>3, SentOnWire
  <2>3. Shows(Append(wire, e), VoiceNews, e, shown.voice)
    BY <1>2, <1>3, ShowsSent
  <2>4. ASSUME NEW r \in Requests PROVE Tells(Append(wire, e), RequestNews(r), verdict(r))
    <3>1. Tells(wire, RequestNews(r), verdict(r))
      BY DEF DashboardIInv, RequestsTold
    <3>2. \A f : e \notin RequestNews(r) /\ Tells(wire, RequestNews(r), f) =>
            Tells(Append(wire, e), RequestNews(r), f)
      BY <1>2, <1>3, NewsSent
    <3>3. QED BY <2>1, <3>1, <3>2
  <2>5. QED BY <2>2, <2>3, <2>4
<1>5. DashboardTypeOK' /\ VoiceReports'
  BY <1>1, <1>3, <1>4
  DEF DashboardIInv, DashboardTypeOK, VoiceTypeOK, VoiceReports, voiceVars, fetchVars, historyVars
<1>6. VoiceShown' /\ CameraShown' /\ SpeakingShown' /\ ClosedHearsNothing'
  BY <1>1, <1>3, <1>4
  DEF VoiceShown, CameraShown, SpeakingShown, ClosedHearsNothing, voiceVars, historyVars, Lights
<1>7. RequestsTold'
  BY <1>1, <1>3, <1>4 DEF RequestsTold, verdict, RequestNews
<1>8. RequestsListed'
  <2>1. \A news : Silent(wire, news)
    BY <1>1, NothingOnWire
  <2>2. QED BY <1>1, <2>1 DEF DashboardIInv, RequestsListed, listed, fetchVars, historyVars
<1>9. QED BY <1>5, <1>6, <1>7, <1>8 DEF DashboardIInv

\* Without a socket nothing is on its way, and no light was the tab there for.
LEMMA NoSocket ==
  ASSUME DashboardIInv, conn' = "closed", wire' = <<>>, seen' = [l \in Lights |-> FALSE]
  PROVE  /\ wire' \in Seq(Events) /\ seen' \in [Lights -> BOOLEAN]
         /\ VoiceShown' /\ CameraShown' /\ SpeakingShown' /\ ClosedHearsNothing' /\ RequestsTold'
<1>1. wire' \in Seq(Events) /\ seen' \in [Lights -> BOOLEAN] /\ \A l \in Lights : ~seen'[l]
  OBVIOUS
<1>2. VoiceShown' /\ CameraShown' /\ SpeakingShown' /\ ClosedHearsNothing'
  BY <1>1 DEF VoiceShown, CameraShown, SpeakingShown, ClosedHearsNothing, Lights
<1>3. \A r \in Requests : Tells(wire', RequestNews(r), verdict(r)')
  BY NothingOnWire
<1>4. QED BY <1>1, <1>2, <1>3 DEF RequestsTold, RequestNews

LEMMA DropsKeeps ==
  ASSUME DashboardIInv, SocketDrops PROVE DashboardIInv'
<1>1. /\ UNCHANGED <<voiceVars, request, camera, shown, fetchVars>>
      /\ conn' = "closed" /\ wire' = <<>> /\ toCore' = <<>> /\ seen' = [l \in Lights |-> FALSE]
      /\ crossed' = (crossed \/ toCore # <<>> \/ \E i \in DOMAIN wire : aboutApprovals(wire[i]))
  BY DEF SocketDrops
<1>2. left' \in 0..MaxMishaps
  BY DashboardAssumption DEF DashboardIInv, DashboardTypeOK, SocketDrops, happens
<1>3. DashboardTypeOK' /\ VoiceReports'
  <2>1. crossed' \in BOOLEAN /\ toCore' \in Seq(Decisions)
    BY <1>1
  <2>2. QED
    BY <1>1, <1>2, <2>1, NoSocket
    DEF DashboardIInv, DashboardTypeOK, VoiceTypeOK, VoiceReports, voiceVars, fetchVars
<1>4. RequestsListed'
  <2>1. SUFFICES ASSUME ~crossed, toCore = <<>>, asked # "sent",
                        \A i \in DOMAIN wire : ~aboutApprovals(wire[i]), NEW r \in Requests
                 PROVE  /\ r \in listed => request[r] = "pending"
                        /\ request[r] = "pending" => r \in listed
    BY <1>1 DEF RequestsListed, listed, fetchVars
  <2>2. Silent(wire, RequestNews(r))
    BY <2>1, NewsFacts DEF Silent, aboutApprovals
  <2>3. \A n \in DOMAIN toCore : toCore[n].of # r
    BY <2>1
  <2>4. QED BY <2>1, <2>2, <2>3 DEF DashboardIInv, RequestsListed
<1>5. QED BY <1>1, <1>3, <1>4, NoSocket DEF DashboardIInv

LEMMA ReloadKeeps ==
  ASSUME DashboardIInv, Reloads PROVE DashboardIInv'
<1>1. /\ UNCHANGED <<voiceVars, request, camera>>
      /\ conn' = "closed" /\ wire' = <<>> /\ toCore' \in {toCore, <<>>} /\ seen' = [l \in Lights |-> FALSE]
      /\ shown' = Unloaded /\ asked' = "sent" /\ body' = {} /\ crossed' \in BOOLEAN
  BY DEF Reloads
<1>2. left' \in 0..MaxMishaps
  BY DashboardAssumption DEF DashboardIInv, DashboardTypeOK, Reloads, happens
<1>3. /\ shown'.approvals = {} /\ shown'.voice = "unknown" /\ shown'.speaking = FALSE
      /\ shown'.camera = FALSE /\ DOMAIN shown' = {"approvals", "voice", "speaking", "camera"}
  BY <1>1 DEF Unloaded
<1>4. toCore' \in Seq(Decisions)
  <2>1. toCore \in Seq(Decisions) /\ <<>> \in Seq(Decisions)
    BY DEF DashboardIInv, DashboardTypeOK
  <2>2. QED BY <1>1, <2>1
<1>5. DashboardTypeOK' /\ VoiceReports'
  BY <1>1, <1>2, <1>3, <1>4, NoSocket
  DEF DashboardIInv, DashboardTypeOK, VoiceTypeOK, VoiceReports, voiceVars
<1>6. RequestsListed'
  BY <1>1 DEF RequestsListed
<1>7. QED BY <1>1, <1>5, <1>6, NoSocket DEF DashboardIInv

\* Only the list of the tab changes, or the fetch of it.
LEMMA ListSteps ==
  ASSUME DashboardIInv,
         UNCHANGED <<voiceVars, request, camera, conn, wire, seen, left>>,
         toCore' \in Seq(Decisions), crossed' \in BOOLEAN,
         shown'.approvals \subseteq Requests, shown'.voice = shown.voice,
         shown'.speaking = shown.speaking, shown'.camera = shown.camera,
         DOMAIN shown' = DOMAIN shown,
         body' \subseteq Requests, asked' \in {"sent", "served", "none"}, RequestsListed'
  PROVE  DashboardIInv'
<1>1. DashboardTypeOK' /\ VoiceReports'
  BY DEF DashboardIInv, DashboardTypeOK, VoiceTypeOK, VoiceReports, voiceVars
<1>2. VoiceShown' /\ CameraShown' /\ SpeakingShown' /\ ClosedHearsNothing' /\ RequestsTold'
  BY DEF DashboardIInv, VoiceShown, CameraShown, SpeakingShown, ClosedHearsNothing, RequestsTold, verdict,
         voiceVars
<1>3. QED BY <1>1, <1>2 DEF DashboardIInv

LEMMA ApprovalsField ==
  ASSUME DashboardIInv, NEW set, shown' = [shown EXCEPT !.approvals = set]
  PROVE  /\ shown'.approvals = set /\ shown'.voice = shown.voice
         /\ shown'.speaking = shown.speaking /\ shown'.camera = shown.camera
         /\ DOMAIN shown' = DOMAIN shown
BY DEF DashboardIInv, DashboardTypeOK

LEMMA ClickKeeps ==
  ASSUME DashboardIInv, NEW r \in Requests, NEW decision \in {"approve", "reject"},
         ClickDecide(r, decision)
  PROVE  DashboardIInv'
<1>1. /\ UNCHANGED <<voiceVars, request, camera, conn, wire, fetchVars, seen, left>>
      /\ toCore' = IF conn = "open" THEN Append(toCore, event(decision, r)) ELSE toCore
      /\ crossed' = (crossed \/ conn # "open")
      /\ shown' = [shown EXCEPT !.approvals = shown.approvals \ {r}]
  BY DEF ClickDecide
<1>2. /\ shown'.approvals = shown.approvals \ {r} /\ shown'.voice = shown.voice
      /\ shown'.speaking = shown.speaking /\ shown'.camera = shown.camera /\ DOMAIN shown' = DOMAIN shown
  BY <1>1, ApprovalsField
<1>3. shown.approvals \subseteq Requests /\ body \subseteq Requests /\ toCore \in Seq(Decisions)
      /\ asked \in {"sent", "served", "none"} /\ event(decision, r) \in Decisions
  BY DEF DashboardIInv, DashboardTypeOK, Decisions
<1>4. /\ Append(toCore, event(decision, r)) \in Seq(Decisions)
      /\ Len(toCore) + 1 \in DOMAIN Append(toCore, event(decision, r))
      /\ Append(toCore, event(decision, r))[Len(toCore) + 1] = event(decision, r)
      /\ \A n \in DOMAIN toCore : n \in DOMAIN Append(toCore, event(decision, r))
                                 /\ Append(toCore, event(decision, r))[n] = toCore[n]
  BY <1>3, SentOnWire
<1>5. toCore' \in Seq(Decisions)
  BY <1>1, <1>3, <1>4
<1>6. RequestsListed'
  <2>1. SUFFICES ASSUME ~crossed, conn = "open", asked # "sent", NEW o \in Requests,
                        Silent(wire, RequestNews(o))
                 PROVE  /\ o \in listed' => request[o] = "pending"
                        /\ request[o] = "pending" /\ (\A n \in DOMAIN toCore' : toCore'[n].of # o)
                             => o \in listed'
    BY <1>1 DEF RequestsListed, RequestNews, fetchVars
  <2>2. /\ o \in listed => request[o] = "pending"
        /\ request[o] = "pending" /\ (\A n \in DOMAIN toCore : toCore[n].of # o) => o \in listed
    BY <2>1 DEF DashboardIInv, RequestsListed
  <2>3. toCore' = Append(toCore, event(decision, r))
    BY <1>1, <2>1
  <2>4. (\A n \in DOMAIN toCore' : toCore'[n].of # o) =>
          o # r /\ \A n \in DOMAIN toCore : toCore[n].of # o
    BY <1>4, <2>3, EventFields
  <2>5. listed' = listed \/ listed' = listed \ {r}
    BY <1>1, <1>2 DEF listed, fetchVars
  <2>6. QED BY <2>2, <2>4, <2>5
<1>7. QED BY <1>1, <1>2, <1>3, <1>5, <1>6, ListSteps DEF DashboardIInv, DashboardTypeOK, fetchVars

LEMMA FetchKeeps ==
  ASSUME DashboardIInv, ApprovalsServed \/ ApprovalsLoaded \/ ApprovalsFail PROVE DashboardIInv'
<1>1. /\ UNCHANGED <<voiceVars, request, camera, netVars, seen, left>>
      /\ toCore \in Seq(Decisions) /\ shown.approvals \subseteq Requests /\ body \subseteq Requests
      /\ crossed \in BOOLEAN
  BY DEF DashboardIInv, DashboardTypeOK, ApprovalsServed, ApprovalsLoaded, ApprovalsFail, historyVars
<1>2. CASE ApprovalsServed
  <2>1. asked' = "served" /\ body' = pending /\ UNCHANGED <<shown, crossed>>
    BY <1>2 DEF ApprovalsServed, historyVars
  <2>2. RequestsListed'
    BY <1>1, <2>1 DEF RequestsListed, listed, pending, netVars
  <2>3. pending \subseteq Requests
    BY DEF pending
  <2>4. QED BY <1>1, <2>1, <2>2, <2>3, ListSteps DEF netVars
<1>3. CASE ApprovalsLoaded
  <2>1. /\ asked = "served" /\ asked' = "none" /\ body' = {} /\ crossed' = crossed
        /\ shown' = [shown EXCEPT !.approvals = body]
    BY <1>3 DEF ApprovalsLoaded, historyVars
  <2>2. /\ shown'.approvals = body /\ shown'.voice = shown.voice
        /\ shown'.speaking = shown.speaking /\ shown'.camera = shown.camera /\ DOMAIN shown' = DOMAIN shown
    BY <2>1, ApprovalsField
  <2>3. listed' = listed
    BY <2>1, <2>2 DEF listed
  <2>4. RequestsListed'
    BY <1>1, <2>1, <2>3 DEF DashboardIInv, RequestsListed, netVars
  <2>5. QED BY <1>1, <2>1, <2>2, <2>4, ListSteps DEF netVars
<1>4. CASE ApprovalsFail
  <2>1. asked' = "none" /\ body' = {} /\ crossed' = TRUE /\ shown' = shown
    BY <1>4 DEF ApprovalsFail
  <2>2. RequestsListed'
    BY <2>1 DEF RequestsListed
  <2>3. QED BY <1>1, <2>1, <2>2, ListSteps DEF netVars
<1>5. QED BY <1>2, <1>3, <1>4

LEMMA Reduces ==
  ASSUME DashboardIInv, NEW e \in Events, shown' = reduce(shown, e)
  PROVE  /\ shown'.voice = IF e.type = "voice" THEN e.of ELSE shown.voice
         /\ shown'.speaking = IF e.type = "speaking" THEN e.of ELSE shown.speaking
         /\ shown'.camera = IF e.type = "camera" THEN e.of ELSE shown.camera
         /\ shown'.approvals = CASE e.type = "new"      -> shown.approvals \cup {e.of}
                                 [] e.type = "resolved" -> shown.approvals \ {e.of}
                                 [] OTHER               -> shown.approvals
         /\ DOMAIN shown' = DOMAIN shown
<1>1. DOMAIN shown = {"approvals", "voice", "speaking", "camera"}
  BY DEF DashboardIInv, DashboardTypeOK
<1>2. e.type \in {"new", "resolved", "voice", "speaking", "camera"}
  BY EventKinds, NewsFacts DEF Lights
<1>3. CASE e.type = "new"
  <2>1. shown' = [shown EXCEPT !.approvals = shown.approvals \cup {e.of}]
    BY <1>3 DEF reduce
  <2>2. QED BY <1>1, <1>3, <2>1
<1>4. CASE e.type = "resolved"
  <2>1. shown' = [shown EXCEPT !.approvals = shown.approvals \ {e.of}]
    BY <1>4 DEF reduce
  <2>2. QED BY <1>1, <1>4, <2>1
<1>5. CASE e.type = "voice"
  <2>1. shown' = [shown EXCEPT !.voice = e.of]
    BY <1>5 DEF reduce
  <2>2. QED BY <1>1, <1>5, <2>1
<1>6. CASE e.type = "speaking"
  <2>1. shown' = [shown EXCEPT !.speaking = e.of]
    BY <1>6 DEF reduce
  <2>2. QED BY <1>1, <1>6, <2>1
<1>7. CASE e.type = "camera"
  <2>1. shown' = [shown EXCEPT !.camera = e.of]
    BY <1>7 DEF reduce
  <2>2. QED BY <1>1, <1>7, <2>1
<1>8. QED BY <1>2, <1>3, <1>4, <1>5, <1>6, <1>7

LEMMA HandledKeeps ==
  ASSUME DashboardIInv, EventHandled PROVE DashboardIInv'
<1> DEFINE e == Head(wire)
<1>1. /\ wire \in Seq(Events) /\ wire # <<>> /\ wire' = Tail(wire) /\ shown' = reduce(shown, e)
      /\ crossed' = (crossed \/ (asked = "served" /\ aboutApprovals(e)))
      /\ UNCHANGED <<voiceVars, request, camera, conn, toCore, fetchVars, seen, left>>
  BY DEF DashboardIInv, DashboardTypeOK, EventHandled
<1>2. Tail(wire) \in Seq(Events) /\ e \in Events
  BY <1>1, OffTheWire
<1>3. /\ shown'.voice = IF e.type = "voice" THEN e.of ELSE shown.voice
      /\ shown'.speaking = IF e.type = "speaking" THEN e.of ELSE shown.speaking
      /\ shown'.camera = IF e.type = "camera" THEN e.of ELSE shown.camera
      /\ shown'.approvals = CASE e.type = "new"      -> shown.approvals \cup {e.of}
                              [] e.type = "resolved" -> shown.approvals \ {e.of}
                              [] OTHER               -> shown.approvals
      /\ DOMAIN shown' = DOMAIN shown
  BY <1>1, <1>2, Reduces
<1>4. /\ e.type = "voice" <=> e \in VoiceNews
      /\ \A l \in Lights : e.type = l <=> e \in LightNews(l)
      /\ \A r \in Requests : (e.type \in {"new", "resolved"} /\ e.of = r) <=> e \in RequestNews(r)
      /\ e.type \in {"new", "resolved"} => e.of \in Requests
  BY <1>2, EventKinds, NewsFacts DEF Lights
<1>5. DashboardTypeOK' /\ VoiceReports'
  <2>1. /\ e.type = "voice" => e.of \in {"up", "down"}
        /\ e.type = "speaking" => e.of \in BOOLEAN
        /\ e.type = "camera" => e.of \in BOOLEAN
    BY <1>4, NewsFacts DEF Lights
  <2>2. shown'.voice \in {"unknown", "up", "down"} /\ shown'.approvals \subseteq Requests
    BY <1>3, <1>4, <2>1 DEF DashboardIInv, DashboardTypeOK
  <2>3. shown'.speaking \in BOOLEAN
    BY <1>3, <2>1 DEF DashboardIInv, DashboardTypeOK
  <2>4. shown'.camera \in BOOLEAN
    BY <1>3, <2>1 DEF DashboardIInv, DashboardTypeOK
  <2>5. QED
    BY <1>1, <1>2, <1>3, <2>2, <2>3, <2>4
    DEF DashboardIInv, DashboardTypeOK, VoiceTypeOK, VoiceReports, voiceVars, fetchVars
<1>6. ASSUME NEW news, NEW f, NEW v, Shows(wire, news, f, v)
      PROVE  /\ e \notin news => Shows(wire', news, f, v)
             /\ e \in news => Shows(wire', news, f, e.of)
  BY <1>1, <1>6, ShowsHandled
<1>7. VoiceShown' /\ CameraShown' /\ SpeakingShown' /\ ClosedHearsNothing'
  <2>1. VoiceShown'
    BY <1>1, <1>3, <1>4, <1>6 DEF DashboardIInv, VoiceShown, voiceVars
  <2>2. CameraShown'
    BY <1>1, <1>3, <1>4, <1>6 DEF DashboardIInv, CameraShown, Lights
  <2>3. SpeakingShown'
    BY <1>1, <1>3, <1>4, <1>6 DEF DashboardIInv, SpeakingShown, voiceVars, Lights
  <2>4. ClosedHearsNothing'
    BY <1>1 DEF DashboardIInv, ClosedHearsNothing
  <2>5. QED BY <2>1, <2>2, <2>3, <2>4
<1>8. ASSUME NEW r \in Requests
      PROVE  /\ Tells(wire', RequestNews(r), verdict(r))
             /\ e \notin RequestNews(r) => Silent(wire', RequestNews(r)) = Silent(wire, RequestNews(r))
             /\ e \in RequestNews(r) /\ Silent(wire', RequestNews(r)) => e = verdict(r)
  <2>1. Tells(wire, RequestNews(r), verdict(r))
    BY DEF DashboardIInv, RequestsTold
  <2>2. QED BY <1>1, <2>1, NewsHandled
<1>9. RequestsTold'
  BY <1>1, <1>8 DEF RequestsTold, verdict, RequestNews
<1>10. RequestsListed'
  <2>1. SUFFICES ASSUME ~crossed, asked # "sent", asked = "served" => ~aboutApprovals(e), NEW r \in Requests,
                        Silent(wire', RequestNews(r))
                 PROVE  /\ r \in listed' => request[r] = "pending"
                        /\ request[r] = "pending" /\ (\A n \in DOMAIN toCore : toCore[n].of # r)
                             => r \in listed'
    BY <1>1 DEF RequestsListed, RequestNews, fetchVars
  <2>2. CASE e \in RequestNews(r)
    <3>1. e = verdict(r) /\ e.of = r /\ e.type \in {"new", "resolved"} /\ asked # "served"
      BY <1>4, <1>8, <2>1, <2>2 DEF aboutApprovals
    <3>2. (e.type = "new" <=> request[r] = "pending") /\ (e.type = "resolved" <=> request[r] # "pending")
      BY <3>1, EventFields DEF verdict
    <3>3. listed' = shown'.approvals
      BY <1>1, <3>1 DEF listed, fetchVars
    <3>4. r \in shown'.approvals <=> request[r] = "pending"
      BY <1>3, <3>1, <3>2
    <3>5. QED BY <3>3, <3>4
  <2>3. CASE e \notin RequestNews(r)
    <3>1. /\ r \in listed => request[r] = "pending"
          /\ request[r] = "pending" /\ (\A n \in DOMAIN toCore : toCore[n].of # r) => r \in listed
      BY <1>8, <2>1, <2>3 DEF DashboardIInv, RequestsListed
    <3>2. r \in listed' <=> r \in listed
      BY <1>1, <1>3, <1>4, <2>1, <2>3 DEF listed, fetchVars
    <3>3. QED BY <3>1, <3>2
  <2>4. QED BY <2>2, <2>3
<1>11. QED BY <1>5, <1>7, <1>9, <1>10 DEF DashboardIInv
-----------------------------------------------------------------------------
LEMMA DashboardStarts == DashboardInit => DashboardIInv
<1> SUFFICES ASSUME DashboardInit PROVE DashboardIInv
  OBVIOUS
<1>1. DashboardTypeOK
  <2>1. VoiceTypeOK
    <3>1. toVoice \in Nat /\ fromVoice \in Seq(BOOLEAN)
      BY DEF DashboardInit, VoiceInit
    <3>2. linked \in BOOLEAN /\ known \in BOOLEAN /\ speaking \in BOOLEAN
      BY Zenon DEF DashboardInit, VoiceInit
    <3>3. QED BY <3>1, <3>2 DEF VoiceTypeOK
  <2>2. left \in 0..MaxMishaps /\ request \in [Requests -> Statuses] /\ seen \in [Lights -> BOOLEAN]
    BY DashboardAssumption DEF DashboardInit, Statuses
  <2>3. /\ shown.approvals = {} /\ shown.voice = "unknown" /\ shown.speaking = FALSE
        /\ shown.camera = FALSE /\ DOMAIN shown = {"approvals", "voice", "speaking", "camera"}
    BY DEF DashboardInit, Unloaded
  <2>4. wire \in Seq(Events) /\ toCore \in Seq(Decisions)
    BY DEF DashboardInit
  <2>5. camera \in BOOLEAN /\ crossed \in BOOLEAN
    BY Zenon DEF DashboardInit
  <2>6. QED BY <2>1, <2>2, <2>3, <2>4, <2>5 DEF DashboardInit, DashboardTypeOK
<1>2. VoiceReports /\ VoiceShown /\ CameraShown /\ SpeakingShown /\ ClosedHearsNothing
  BY DEF DashboardInit, VoiceInit, VoiceReports, VoiceShown, CameraShown, SpeakingShown, ClosedHearsNothing,
         Lights
<1>3. RequestsTold /\ RequestsListed
  BY NothingOnWire DEF DashboardInit, RequestsTold, RequestsListed
<1>4. QED BY <1>1, <1>2, <1>3 DEF DashboardIInv

LEMMA DashboardKeeps == DashboardIInv /\ [DashboardNext]_dashboardVars => DashboardIInv'
<1> SUFFICES ASSUME DashboardIInv, [DashboardNext]_dashboardVars PROVE DashboardIInv'
  OBVIOUS
<1>1. ASSUME NEW r \in Requests, Proposed(r) \/ Expires(r) \/ Executed(r) \/ OtherDecides(r)
      PROVE  DashboardIInv'
  BY <1>1, GateKeeps
<1>2. ASSUME NEW r \in Requests, NEW decision \in {"approve", "reject"}, ClickDecide(r, decision)
      PROVE  DashboardIInv'
  BY <1>2, ClickKeeps
<1>3. CASE DecisionArrives
  BY <1>3, DecisionKeeps
<1>4. CASE VoiceSpeaks \/ VoiceKilled
  BY <1>4, VoiceKeeps
<1>5. CASE relayVoiceStatus
  BY <1>5, ReportKeeps
<1>6. CASE broadcastSenseState
  BY <1>6, SenseStateKeeps
<1>7. CASE relayCameraStatus
  BY <1>7, CameraStatusKeeps
<1>8. CASE SocketOpens
  BY <1>8, OpensKeeps
<1>9. CASE SocketDrops
  BY <1>9, DropsKeeps
<1>10. CASE Reloads
  BY <1>10, ReloadKeeps
<1>11. CASE EventHandled
  BY <1>11, HandledKeeps
<1>12. CASE ApprovalsServed \/ ApprovalsLoaded \/ ApprovalsFail
  BY <1>12, FetchKeeps
<1>13. CASE UNCHANGED dashboardVars
  <2>1. RequestsListed'
    BY <1>13 DEF DashboardIInv, RequestsListed, listed, dashboardVars, netVars, fetchVars, historyVars
  <2>2. /\ toCore \in Seq(Decisions) /\ crossed \in BOOLEAN /\ shown.approvals \subseteq Requests
        /\ body \subseteq Requests /\ asked \in {"sent", "served", "none"}
    BY DEF DashboardIInv, DashboardTypeOK
  <2>3. QED BY <1>13, <2>1, <2>2, ListSteps DEF dashboardVars, netVars, fetchVars, historyVars
<1>14. QED
  BY <1>1, <1>2, <1>3, <1>4, <1>5, <1>6, <1>7, <1>8, <1>9, <1>10, <1>11, <1>12, <1>13 DEF DashboardNext
-----------------------------------------------------------------------------
\* What makes the two properties below so in every state: the last event on its way about a
\* thing tells the truth about it, and with none on its way the tab shows it already.
THEOREM DashboardInvariant == DashboardSpec => []DashboardIInv
BY DashboardStarts, DashboardKeeps, PTL DEF DashboardSpec

\* Every variable of the tab, its socket and the voice keeps its type.
THEOREM DashboardTypeCorrect == DashboardSpec => []DashboardTypeOK
<1>1. DashboardIInv => DashboardTypeOK
  BY DEF DashboardIInv
<1>2. QED BY <1>1, DashboardInvariant, PTL

\* A tab with nothing left to handle shows of the senses what core takes for true, and of a
\* light it was there for whether it is on, whatever has died, dropped or been made again
\* (ws.ts's backfill, voice's finally).
THEOREM LightsAreTrue == DashboardSpec => []LightsTellTheTruth
<1>1. ASSUME DashboardIInv PROVE LightsTellTheTruth
  <2>1. SUFFICES ASSUME conn = "open", wire = <<>>
                 PROVE  /\ shown.voice = upOrDown(known)
                        /\ seen.camera => shown.camera = camera
                        /\ seen.speaking /\ fromVoice = <<>> => shown.speaking = speaking
    BY DEF LightsTellTheTruth
  <2>2. \A news : Silent(wire, news)
    BY <2>1, NothingOnWire
  <2>3. shown.voice = upOrDown(known)
    BY <1>1, <2>1, <2>2, EventFields DEF DashboardIInv, VoiceShown, Shows
  <2>4. seen.camera => shown.camera = camera
    BY <1>1, <2>2, EventFields DEF DashboardIInv, CameraShown, Shows
  <2>5. seen.speaking /\ fromVoice = <<>> => shown.speaking = speaking
    BY <1>1, <2>2, EventFields DEF DashboardIInv, SpeakingShown, Shows
  <2>6. QED BY <2>3, <2>4, <2>5
<1>2. QED BY <1>1, DashboardInvariant, PTL

\* With nothing under way the tab lists exactly the requests that wait for a decision, unless
\* it may have missed something (`crossed`), for any number of requests.
THEOREM ApprovalsAreListed == DashboardSpec => []ApprovalsShown
<1>1. ASSUME DashboardIInv PROVE ApprovalsShown
  <2>1. SUFFICES ASSUME wire = <<>>, toCore = <<>>, asked = "none", ~crossed
                 PROVE  shown.approvals = pending
    BY DEF ApprovalsShown
  <2>2. ASSUME NEW r \in Requests PROVE r \in shown.approvals <=> request[r] = "pending"
    <3>1. Silent(wire, RequestNews(r)) /\ \A n \in DOMAIN toCore : toCore[n].of # r
      BY <2>1, NothingOnWire
    <3>2. QED BY <1>1, <2>1, <3>1 DEF DashboardIInv, RequestsListed, listed
  <2>3. shown.approvals \subseteq Requests
    BY <1>1 DEF DashboardIInv, DashboardTypeOK
  <2>4. QED BY <2>2, <2>3 DEF pending
<1>2. QED BY <1>1, DashboardInvariant, PTL
=============================================================================
