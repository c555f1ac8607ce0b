-------------------------------- MODULE Voice -------------------------------
(***************************************************************************)
(* senses/voice and core's end of it: the lines core sends it, what it     *)
(* reports back, and a connection that is made again when the daemon has   *)
(* died (senses/voice/main.py, core/senseConnection.ts).                   *)
(***************************************************************************)
EXTENDS Naturals, Sequences

VARIABLES
    linked,     \* core's socket leads to a living daemon
    known,      \* senseState.voice: what core takes it for
    toVoice,    \* lines the daemon has yet to read
    speaking,   \* it is speaking one
    fromVoice   \* its reports core has yet to read, a BOOLEAN each

voiceVars == <<linked, known, toVoice, speaking, fromVoice>>

VoiceInit ==
    /\ linked = TRUE /\ known = TRUE /\ toVoice = 0 /\ speaking = FALSE /\ fromVoice = <<>>

\* A line written to a dead socket is lost.
sends(lines) ==
    /\ toVoice' = IF linked THEN toVoice + lines ELSE toVoice
    /\ UNCHANGED <<linked, known, speaking, fromVoice>>

\* run_forever reads a line and reports that it speaks it.
SpeaksNext ==
    /\ linked /\ ~speaking /\ toVoice > 0
    /\ toVoice' = toVoice - 1
    /\ speaking' = TRUE /\ fromVoice' = Append(fromVoice, TRUE)
    /\ UNCHANGED <<linked, known>>

\* Mutant: the report follows a line that was spoken, not one that failed.
SpeechEndsSpoken ==
    /\ speaking
    /\ speaking' = FALSE
    /\ fromVoice' \in {fromVoice, Append(fromVoice, FALSE)}
    /\ UNCHANGED <<linked, known, toVoice>>

\* The line is spoken, or `say` fails on it.
SpeechEnds ==
    /\ speaking
    /\ speaking' = FALSE /\ fromVoice' = Append(fromVoice, FALSE)
    /\ UNCHANGED <<linked, known, toVoice>>

\* The daemon is killed, and started again; what it was sent is gone.
VoiceDies ==
    /\ linked
    /\ linked' = FALSE /\ toVoice' = 0 /\ speaking' = FALSE
    /\ UNCHANGED <<known, fromVoice>>

\* relayVoiceStatus reads a report.
ReportRead ==
    /\ fromVoice # <<>>
    /\ fromVoice' = Tail(fromVoice)
    /\ UNCHANGED <<linked, known, toVoice, speaking>>

\* Past the last report core finds the end of the stream.
DropNoticed ==
    /\ ~linked /\ known /\ fromVoice = <<>>
    /\ known' = FALSE
    /\ UNCHANGED <<linked, toVoice, speaking, fromVoice>>

VoiceReconnects ==
    /\ ~linked /\ ~known
    /\ linked' = TRUE /\ known' = TRUE
    /\ UNCHANGED <<toVoice, speaking, fromVoice>>
----------------------------------------------------------------------------
VoiceTypeOK ==
    /\ linked \in BOOLEAN /\ known \in BOOLEAN /\ toVoice \in Nat
    /\ speaking \in BOOLEAN /\ fromVoice \in Seq(BOOLEAN)

\* The last report of a living daemon says whether it speaks; core reads all that a dead one
\* has left before it finds it dead.
VoiceReports ==
    /\ ~linked => ~speaking
    /\ ~known => ~linked /\ fromVoice = <<>>
    /\ linked /\ fromVoice # <<>> => fromVoice[Len(fromVoice)] = speaking
=============================================================================
