---------------------------- MODULE PointerProofs ---------------------------
(***************************************************************************)
(* Proofs about pointer control, for any number of key presses and of      *)
(* messages that turn it on and off.                                       *)
(***************************************************************************)
EXTENDS Pointer, TLAPS

\* The type invariant in three parts: who is where, which listeners there are, and what the
\* key has to do with them.
PlaceTypeOK ==
    /\ enabled \in BOOLEAN /\ was \in BOOLEAN /\ stop \in BOOLEAN /\ held \in BOOLEAN
    /\ key \in {"up", "down"}
    /\ loop \in LoopPlaces
    /\ pc \in {"ready", "building", "keeping", "flagging", "closing", "dropping"}

ListenerTypeOK ==
    /\ built \in Nat /\ messages \in 0 .. MaxMessages
    /\ built <= messages /\ (pc = "building" => built < messages)
    /\ listening \subseteq 1 .. built /\ trigger \in 0 .. built
    /\ seen \in 0 .. built /\ (loop = "looking" => seen # 0)

PressTypeOK ==
    /\ press \in 0 .. MaxPresses
    /\ pressed \in [Listeners -> 0 .. press] /\ read \in 0 .. press
    /\ clicks \in Seq(1 .. press)

LEMMA TypeParts == PointerTypeOK <=> PlaceTypeOK /\ ListenerTypeOK /\ PressTypeOK
BY DEF PointerTypeOK, PlaceTypeOK, ListenerTypeOK, PressTypeOK

-----------------------------------------------------------------------------
(***************************************************************************)
(* The types.                                                              *)
(***************************************************************************)
LEMMA PlaceStep ==
  ASSUME PlaceTypeOK, [PointerNext]_pointerVars
  PROVE  PlaceTypeOK'
<1> USE DEF PlaceTypeOK, LoopPlaces, keyVars, frameVars, threadVars, becomes, goto
<1>1. CASE OnPress \/ OnRepeat \/ OnRelease
  BY <1>1 DEF OnPress, OnRepeat, OnRelease
<1>2. CASE LoopStarts \/ LoopLeaves \/ SeesHand \/ MoveFails
  <2>1. CASE LoopStarts \/ LoopLeaves
    BY <2>1 DEF LoopStarts, LoopLeaves
  <2>2. CASE SeesHand \/ MoveFails
    BY <2>2 DEF SeesHand, MoveFails
  <2>3. QED BY <1>2, <2>1, <2>2
<1>3. CASE LoadsTrigger
  BY <1>3 DEF LoadsTrigger
<1>4. CASE LooksAtKey
  BY <1>4 DEF LooksAtKey
<1>5. CASE Remembers \/ Clicks \/ Reports
  <2>1. CASE Remembers
    BY <2>1 DEF Remembers
  <2>2. CASE Clicks
    BY <2>2 DEF Clicks
  <2>3. CASE Reports
    BY <2>3 DEF Reports
  <2>4. QED BY <1>5, <2>1, <2>2, <2>3
<1>6. CASE BlurrerFails \/ ClosesTrigger \/ DropsTrigger \/ Forgotten
  <2>1. CASE BlurrerFails \/ ClosesTrigger
    BY <2>1 DEF BlurrerFails, ClosesTrigger
  <2>2. CASE DropsTrigger \/ Forgotten
    BY <2>2 DEF DropsTrigger, Forgotten
  <2>3. QED BY <1>6, <2>1, <2>2
<1>7. CASE TurnsOn \/ TurnsOff \/ Stops
  <2>1. CASE TurnsOn
    BY <2>1 DEF TurnsOn, receives
  <2>2. CASE TurnsOff
    BY <2>2 DEF TurnsOff, receives
  <2>3. CASE Stops
    BY <2>3 DEF Stops, receives
  <2>4. QED BY <1>7, <2>1, <2>2, <2>3
<1>8. CASE Builds \/ BuildFails
  BY <1>8 DEF Builds, BuildFails
<1>9. CASE Keeps
  BY <1>9 DEF Keeps
<1>10. CASE Enables
  BY <1>10 DEF Enables
<1>11. CASE Closes \/ Drops
  BY <1>11 DEF Closes, Drops
<1>12. CASE UNCHANGED pointerVars
  BY <1>12 DEF pointerVars
<1>13. QED
  BY <1>1, <1>2, <1>3, <1>4, <1>5, <1>6, <1>7, <1>8, <1>9, <1>10, <1>11, <1>12
     DEF PointerNext, LoopSteps, handle_message

LEMMA ListenerTypeStep ==
  ASSUME PlaceTypeOK, ListenerTypeOK, ListenersAreUpToDate, [PointerNext]_pointerVars
  PROVE  ListenerTypeOK'
<1> USE PointerAssumption DEF ListenerTypeOK, keyVars, frameVars, threadVars, becomes, goto
<1>1. ASSUME UNCHANGED <<built, messages, listening, trigger, pc>>,
             seen' = seen /\ (loop' = "looking" => loop = "looking")
      PROVE  ListenerTypeOK'
  BY <1>1
<1>2. CASE OnPress \/ OnRepeat \/ OnRelease
  BY <1>1, <1>2 DEF OnPress, OnRepeat, OnRelease
<1>3. CASE LoopStarts \/ LoopLeaves \/ SeesHand \/ MoveFails \/ Remembers \/ Clicks \/ Reports
           \/ BlurrerFails \/ Forgotten
  BY <1>1, <1>3 DEF LoopStarts, LoopLeaves, SeesHand, MoveFails, Remembers, Clicks, Reports,
     BlurrerFails, Forgotten
<1>4. CASE LoadsTrigger
  BY <1>4 DEF LoadsTrigger
<1>5. CASE LooksAtKey
  BY <1>5 DEF LooksAtKey
<1>6. CASE ClosesTrigger \/ DropsTrigger \/ Closes \/ Drops \/ Enables \/ BuildFails
  <2>1. /\ UNCHANGED <<built, messages, seen>> /\ (pc' = "building" => pc = "building")
        /\ listening' \subseteq listening /\ (trigger' = trigger \/ trigger' = 0)
        /\ (loop' = "looking" => loop = "looking")
    BY <1>6 DEF ClosesTrigger, DropsTrigger, Closes, Drops, Enables, BuildFails, closes
  <2>2. QED BY <2>1
<1>7. CASE TurnsOn \/ TurnsOff \/ Stops
  <2>1. /\ UNCHANGED <<built, listening, trigger, seen, loop>>
        /\ messages < MaxMessages /\ messages' = messages + 1
    BY <1>7 DEF TurnsOn, TurnsOff, Stops, receives
  <2>2. QED BY <2>1
<1>8. CASE Builds
  <2>1. pc = "building" /\ pc' # "building" /\ UNCHANGED <<messages, seen, loop, trigger>>
    BY <1>8 DEF Builds
  <2>2. \/ built' = built /\ listening' = listening
        \/ built' = built + 1 /\ listening' = listening \cup {built + 1}
    BY <1>8 DEF Builds
  <2>3. built' \in Nat /\ built <= built' /\ built' <= messages
    BY <2>1, <2>2
  <2>4. listening' \subseteq 1..built'
    <3>1. \A l \in listening : l \in 1..built
      OBVIOUS
    <3>2. \A l \in 1..built : l \in 1..(built + 1)
      OBVIOUS
    <3>3. built + 1 \in 1..(built + 1)
      OBVIOUS
    <3>4. QED BY <2>2, <3>1, <3>2, <3>3
  <2>5. QED BY <2>1, <2>3, <2>4
<1>9. CASE Keeps
  BY <1>9 DEF Keeps
<1>10. CASE UNCHANGED pointerVars
  BY <1>1, <1>10 DEF pointerVars
<1>11. QED
  BY <1>2, <1>3, <1>4, <1>5, <1>6, <1>7, <1>8, <1>9, <1>10
     DEF PointerNext, LoopSteps, handle_message

LEMMA PressTypeStep ==
  ASSUME PlaceTypeOK, ListenerTypeOK, PressTypeOK, PressesAreFresh, [PointerNext]_pointerVars
  PROVE  PressTypeOK'
<1> USE PointerAssumption DEF PressTypeOK
<1>1. ASSUME UNCHANGED <<press, pressed, clicks>>, read' \in 0..press PROVE PressTypeOK'
  BY <1>1
<1>2. CASE OnPress
  <2>1. press' = press + 1 /\ press < MaxPresses /\ 0..press \subseteq 0..press'
        /\ 1..press \subseteq 1..press' /\ UNCHANGED <<clicks, read>>
    BY <1>2 DEF OnPress, frameVars, pastVars
  <2>2. clicks' \in Seq(1..press')
    BY <2>1
  <2>3. pressed' \in [Listeners -> 0..press']
    BY <1>2, <2>1 DEF OnPress, hears
  <2>4. QED BY <2>1, <2>2, <2>3
<1>3. CASE OnRepeat \/ OnRelease
  <2>1. UNCHANGED <<press, clicks, read>>
    BY <1>3 DEF OnRepeat, OnRelease, frameVars, pastVars
  <2>2. pressed' \in [Listeners -> 0..press]
    BY <1>3 DEF OnRepeat, OnRelease, hears
  <2>3. QED BY <2>1, <2>2
<1>4. CASE Clicks
  <2>1. UNCHANGED <<press, pressed>> /\ read' \in {0, read} /\ loop = "clicking"
    BY <1>4 DEF Clicks, keyVars
  <2>2. clicks' \in Seq(1..press)
    <3>1. read \in 1..press
      BY <2>1 DEF PressesAreFresh
    <3>2. CASE clicks' = Append(clicks, read)
      BY <3>1, <3>2
    <3>3. CASE clicks' = clicks
      BY <3>3
    <3>4. QED BY <1>4, <3>2, <3>3 DEF Clicks
  <2>3. QED BY <2>1, <2>2
<1>5. CASE LooksAtKey
  <2>1. found \in 0..press
    <3>1. seen \in 1..MaxMessages
      BY <1>5 DEF LooksAtKey, ListenerTypeOK
    <3>2. QED BY <3>1 DEF found, Listeners
  <2>2. QED BY <1>1, <1>5, <2>1 DEF LooksAtKey, keyVars, pastVars
<1>6. CASE Reports
  BY <1>1, <1>6 DEF Reports, keyVars
<1>7. CASE LoopStarts \/ LoopLeaves \/ SeesHand \/ MoveFails \/ LoadsTrigger \/ Remembers
           \/ BlurrerFails \/ ClosesTrigger \/ DropsTrigger \/ Forgotten
  BY <1>1, <1>7 DEF LoopStarts, LoopLeaves, SeesHand, MoveFails, LoadsTrigger, Remembers,
     BlurrerFails, ClosesTrigger, DropsTrigger, Forgotten, keyVars, frameVars, pastVars
<1>8. CASE handle_message \/ UNCHANGED pointerVars
  BY <1>1, <1>8 DEF handle_message, TurnsOn, Builds, BuildFails, Keeps, Enables, TurnsOff, Closes,
     Drops, Stops, keyVars, frameVars, pastVars, pointerVars
<1>9. QED
  BY <1>2, <1>3, <1>4, <1>5, <1>6, <1>7, <1>8 DEF PointerNext, LoopSteps

-----------------------------------------------------------------------------
(***************************************************************************)
(* The listeners.                                                          *)
(***************************************************************************)
LEMMA ListenersStep ==
  ASSUME PlaceTypeOK, ListenerTypeOK, ListenersAreUpToDate, OnlyTriggerListens,
         [PointerNext]_pointerVars
  PROVE  OnlyTriggerListens'
<1> USE DEF PlaceTypeOK, ListenerTypeOK, LoopPlaces, OnlyTriggerListens, keyVars, threadVars,
            pastVars, becomes, goto
<1>1. CASE OnPress \/ OnRepeat \/ OnRelease \/ UNCHANGED pointerVars
  BY <1>1 DEF OnPress, OnRepeat, OnRelease, pointerVars
<1>2. CASE LoopStarts \/ LoopLeaves \/ SeesHand \/ MoveFails \/ Forgotten
  BY <1>2 DEF LoopStarts, LoopLeaves, SeesHand, MoveFails, Forgotten
<1>3. CASE LoadsTrigger \/ Remembers \/ Clicks \/ Reports
  BY <1>3 DEF LoadsTrigger, Remembers, Clicks, Reports
<1>4. CASE LooksAtKey
  BY <1>4 DEF LooksAtKey
<1>5. CASE BlurrerFails
  <2>1. /\ UNCHANGED <<listening, trigger, enabled, pc, built>>
        /\ left' = left \cup ({trigger} \ {0}) /\ 0 \notin listening
    BY <1>5 DEF BlurrerFails
  <2>2. QED BY <2>1
<1>6. CASE ClosesTrigger \/ Closes
  <2>0. 0 \notin listening
    OBVIOUS
  <2>1. /\ UNCHANGED <<trigger, enabled, left, built>>
        /\ listening' \subseteq listening
        /\ trigger \notin listening'
        /\ \/ pc' = pc /\ loop = "ending"
           \/ loop' = loop /\ pc = "closing" /\ pc' # "building" /\ (trigger = 0 \/ pc' = "dropping")
    <3>1. /\ UNCHANGED <<trigger, enabled, left, built>>
          /\ \/ pc' = pc /\ loop = "ending"
             \/ /\ loop' = loop /\ pc = "closing" /\ pc' # "building"
                /\ trigger = 0 \/ pc' = "dropping"
      BY <1>6 DEF ClosesTrigger, Closes
    <3>2. \/ trigger = 0 /\ listening' = listening
          \/ listening' = listening \ {trigger}
      BY <1>6 DEF ClosesTrigger, Closes, closes
    <3>3. QED BY <2>0, <3>1, <3>2
  <2>2. pc' = "keeping" <=> pc = "keeping"
    BY <1>6 DEF ClosesTrigger, Closes
  <2>3. listening' \subseteq left \cup {l \in {built} : pc = "keeping"}
    BY <2>1
  <2>4. QED BY <2>1, <2>2, <2>3
<1>7. CASE DropsTrigger
  BY <1>7 DEF DropsTrigger
<1>8. CASE TurnsOn \/ TurnsOff \/ Stops
  BY <1>8 DEF TurnsOn, TurnsOff, Stops, receives
<1>9. CASE Builds
  <2>1. UNCHANGED <<trigger, enabled, left, loop>> /\ pc = "building"
    BY <1>9 DEF Builds
  <2>2. CASE trigger # 0
    BY <1>9, <2>1, <2>2 DEF Builds
  <2>3. CASE trigger = 0
    <3>1. pc' = "keeping" /\ built' = built + 1 /\ listening' = listening \cup {built + 1}
      BY <1>9, <2>3 DEF Builds
    <3>2. listening \subseteq left
      BY <2>1, <2>3
    <3>3. QED BY <2>1, <3>1, <3>2
  <2>4. QED BY <2>2, <2>3
<1>10. CASE Keeps
  <2>1. /\ UNCHANGED <<listening, built, enabled, loop>> /\ pc = "keeping" /\ pc' = "flagging"
        /\ trigger' = built
        /\ left' = left \cup {l \in {built} : loop \in {"dropping", "ended", "gone"}}
    BY <1>10 DEF Keeps
  <2>2. trigger = 0
    BY <2>1 DEF ListenersAreUpToDate
  <2>3. listening \subseteq left \cup {built}
    BY <2>1, <2>2
  <2>4. QED BY <2>1, <2>3
<1>11. CASE Enables \/ BuildFails
  BY <1>11 DEF Enables, BuildFails
<1>12. CASE Drops
  BY <1>12 DEF Drops
<1>13. QED
  BY <1>1, <1>2, <1>3, <1>4, <1>5, <1>6, <1>7, <1>8, <1>9, <1>10, <1>11, <1>12
     DEF PointerNext, LoopSteps, handle_message

\* What a listener has seen changes with the key alone.
LEMMA UpToDateStep ==
  ASSUME PlaceTypeOK, ListenerTypeOK, PressTypeOK, ListenersAreUpToDate, [PointerNext]_pointerVars
  PROVE  ListenersAreUpToDate'
<1> USE PointerAssumption DEF ListenersAreUpToDate, threadVars, pastVars, frameVars
<1>1. /\ \A l \in listening : l \in Listeners /\ l <= built
      /\ trigger \in 0..built /\ seen \in 0..built
      /\ built \in Nat /\ 0 \notin listening /\ press \in Nat
  <2>1. built \in Nat /\ built <= MaxMessages /\ trigger \in 0..built /\ seen \in 0..built
    BY DEF ListenerTypeOK
  <2>2. \A l \in listening : l \in 1..built
    BY DEF ListenerTypeOK
  <2>3. press \in Nat
    BY DEF PressTypeOK
  <2>4. QED BY <2>1, <2>2, <2>3 DEF Listeners
<1>2. ASSUME NEW p, hears(p), UNCHANGED <<listening, built, trigger, seen, loop, pc, excused>>,
             p = IF key' = "up" THEN 0 ELSE press', key' \in {"up", "down"}
      PROVE  ListenersAreUpToDate'
  <2>1. \A l \in listening : pressed'[l] = p
    BY <1>1, <1>2 DEF hears
  <2>2. \A l \in Listeners : l > built => pressed'[l] = 0
    BY <1>1, <1>2 DEF hears, Listeners
  <2>3. QED BY <1>2, <2>1, <2>2
<1>3. CASE OnPress
  BY <1>2, <1>3 DEF OnPress
<1>4. CASE OnRepeat
  BY <1>2, <1>4 DEF OnRepeat
<1>5. CASE OnRelease
  BY <1>2, <1>5 DEF OnRelease
<1>6. ASSUME UNCHANGED <<key, press, pressed, built>>, listening' \subseteq listening,
             trigger' = trigger \/ trigger' = 0, excused \subseteq excused',
             loop' = "looking" => (loop = "looking" /\ seen' = seen) \/ seen' = trigger,
             pc' = "keeping" => pc = "keeping" /\ listening' = listening
      PROVE  ListenersAreUpToDate'
  <2>1. \A l \in listening' : l \in listening /\ l # 0
    BY <1>1, <1>6
  <2>2. key = "down" => \A l \in ({trigger} \cup {s \in {seen} : loop = "looking"})' :
          l \in listening' => pressed[l] = press \/ press \in excused'
    BY <1>6, <2>1
  <2>3. QED BY <1>6, <2>1, <2>2
<1>7. CASE LoopStarts \/ LoopLeaves \/ SeesHand \/ MoveFails \/ Forgotten \/ BlurrerFails
  BY <1>6, <1>7 DEF LoopStarts, LoopLeaves, SeesHand, MoveFails, Forgotten, BlurrerFails, keyVars,
     becomes
<1>8. CASE LoadsTrigger \/ LooksAtKey \/ Remembers \/ Clicks \/ Reports
  BY <1>6, <1>8 DEF LoadsTrigger, LooksAtKey, Remembers, Clicks, Reports, keyVars, becomes
<1>9. CASE ClosesTrigger \/ DropsTrigger
  <2>1. CASE ClosesTrigger
    <3>1. pc = "keeping" => listening' = listening
      BY <2>1 DEF ClosesTrigger
    <3>2. QED BY <1>6, <2>1, <3>1 DEF ClosesTrigger, becomes, closes
  <2>2. CASE DropsTrigger
    BY <1>6, <2>2 DEF DropsTrigger, keyVars, becomes
  <2>3. QED BY <1>9, <2>1, <2>2
<1>10. CASE TurnsOn \/ TurnsOff \/ Stops
  BY <1>6, <1>10 DEF TurnsOn, TurnsOff, Stops, keyVars, receives
<1>11. CASE Enables \/ BuildFails \/ Closes \/ Drops
  BY <1>6, <1>11 DEF Enables, BuildFails, Closes, Drops, keyVars, goto, closes
<1>12. CASE Builds
  <2>1. UNCHANGED <<key, press, pressed, trigger, excused>> /\ pc = "building"
    BY <1>12 DEF Builds
  <2>2. CASE trigger # 0
    BY <1>6, <1>12, <2>1, <2>2 DEF Builds, goto
  <2>3. CASE trigger = 0
    <3>1. pc' = "keeping" /\ built' = built + 1 /\ listening' = listening \cup {built + 1}
      BY <1>12, <2>3 DEF Builds, goto
    <3>2. built + 1 \in Listeners
      <4>1. built < messages /\ messages \in 0..MaxMessages
        BY <2>1 DEF ListenerTypeOK
      <4>2. QED BY <1>1, <4>1 DEF Listeners
    <3>3. pressed[built + 1] = 0
      BY <1>1, <3>2
    <3>4. 0 \notin listening'
      BY <1>1, <3>1
    <3>5. \A l \in Listeners : l > built' => pressed[l] = 0
      BY <1>1, <3>1 DEF Listeners
    <3>6. UNCHANGED <<seen, loop>>
      BY <1>12, <2>3 DEF Builds, goto
    <3>7. \A l \in {0, seen} : l \in listening' => l \in listening
      BY <1>1, <3>1, <3>4
    <3>8. /\ key = "up" => \A l \in listening' : pressed[l] = 0
          /\ key = "down" => \A l \in listening' : pressed[l] \in {0, press}
      BY <3>1, <3>3
    <3>9. key = "down" => \A l \in ({trigger} \cup {s \in {seen} : loop = "looking"})' :
            l \in listening' => pressed[l] = press \/ press \in excused
      BY <2>1, <2>3, <3>6, <3>7
    <3>10. QED BY <2>1, <2>3, <3>1, <3>5, <3>8, <3>9
  <2>4. QED BY <2>2, <2>3
<1>13. CASE Keeps
  <2>1. /\ UNCHANGED <<key, press, pressed, listening, built>> /\ trigger' = built
        /\ pc' = "flagging"
    BY <1>13 DEF Keeps, keyVars, goto
  <2>2. key = "down" /\ press # 0 => press \in excused'
    <3>1. press # 0 => press \in 1..press
      BY <1>1
    <3>2. QED BY <1>13, <3>1 DEF Keeps
  <2>3. key = "down" /\ press = 0 => \A l \in listening : pressed[l] = press
    OBVIOUS
  <2>4. UNCHANGED <<seen, loop>> /\ excused \subseteq excused' /\ pc = "keeping"
    BY <1>13 DEF Keeps, goto
  <2>5. key = "down" => \A l \in ({trigger} \cup {s \in {seen} : loop = "looking"})' :
          l \in listening => pressed[l] = press \/ press \in excused'
    <3>1. \A l \in listening : key = "down" => pressed[l] = press \/ press \in excused'
      BY <1>1, <2>2, <2>3
    <3>2. QED BY <3>1
  <2>6. QED BY <2>1, <2>4, <2>5
<1>14. CASE UNCHANGED pointerVars
  BY <1>6, <1>14 DEF pointerVars, keyVars
<1>15. QED
  BY <1>3, <1>4, <1>5, <1>7, <1>8, <1>9, <1>10, <1>11, <1>12, <1>13, <1>14
     DEF PointerNext, LoopSteps, handle_message

-----------------------------------------------------------------------------
(***************************************************************************)
(* The presses.                                                            *)
(***************************************************************************)
LEMMA ClickedAfter ==
  ASSUME clicks \in Seq(1..press), NEW p, clicks' = Append(clicks, p)
  PROVE  \A q : Clicked(q)' <=> Clicked(q) \/ q = p
<1>1. /\ DOMAIN clicks = 1..Len(clicks) /\ Len(clicks) \in Nat
      /\ DOMAIN clicks' = 1..(Len(clicks) + 1)
      /\ \A i \in DOMAIN clicks : clicks'[i] = clicks[i]
      /\ clicks'[Len(clicks) + 1] = p
  OBVIOUS
<1>2. QED BY <1>1 DEF Clicked

\* A press that has not clicked, or is excused, stays so until another click.
LEMMA OnceKept ==
  ASSUME clicks' = clicks, excused \subseteq excused'
  PROVE  /\ \A p : Once(p) => Once(p)'
         /\ OneClickUnlessExcused => OneClickUnlessExcused'
BY DEF Once, Clicked, OneClickUnlessExcused

\* Nothing is pressed that the loop's thread has still to read, and nothing is read.
LEMMA FreshKept ==
  ASSUME PressesAreFresh, clicks' = clicks, excused \subseteq excused',
         UNCHANGED <<pressed, read, seen, was>>,
         trigger' = trigger \/ trigger' = 0,
         loop' = loop \/ /\ loop # "reporting" /\ loop' \notin {"looking", "clicking", "reporting"}
  PROVE  PressesAreFresh'
<1>1. \A p : Once(p) => Once(p)'
  BY OnceKept
<1>2. trigger' # 0 => \/ was \/ Once(pressed[trigger])'
                      \/ loop' = "reporting" /\ pressed[trigger'] = read
  BY <1>1 DEF PressesAreFresh
<1>3. /\ loop' = "looking" => was \/ Once(pressed[seen])'
      /\ loop' = "looking" /\ trigger' \notin {0, seen} => Once(pressed[trigger])'
  BY <1>1 DEF PressesAreFresh
<1>4. /\ loop' = "clicking" => read # 0 /\ Once(read)'
      /\ loop' = "reporting" => read # 0
  BY <1>1 DEF PressesAreFresh
<1>5. QED BY <1>2, <1>3, <1>4 DEF PressesAreFresh

\* The owner's key: what a listener sees is what it had seen, or a press that has not
\* clicked, or one that is excused.
LEMMA KeyKeepsFresh ==
  ASSUME ListenerTypeOK, PressTypeOK, ListenersAreUpToDate, PressesAreFresh,
         OnPress \/ OnRepeat \/ OnRelease
  PROVE  PressesAreFresh'
<1>1. UNCHANGED <<clicks, excused, read, seen, was, trigger, loop>>
  BY DEF OnPress, OnRepeat, OnRelease, frameVars, threadVars, pastVars
<1>2. /\ \A p : Clicked(p) => p \in 1..press
      /\ press \in Nat /\ trigger \in 0..built /\ seen \in 0..built /\ built \in 0..MaxMessages
  BY PointerAssumption DEF ListenerTypeOK, PressTypeOK, Clicked
<1>3. Once(0) /\ Once(press + 1)
  BY <1>2 DEF Once
<1>4. ASSUME NEW l \in {trigger} \cup {s \in {seen} : loop = "looking"}, l # 0
      PROVE  pressed'[l] = pressed[l] \/ Once(pressed'[l])
  <2>1. l \in Listeners
    BY <1>2, <1>4, PointerAssumption DEF Listeners
  <2>2. CASE OnPress \/ OnRelease
    BY <1>3, <2>1, <2>2 DEF OnPress, OnRelease, hears
  <2>3. CASE OnRepeat
    <3>1. key = "down" /\ pressed'[l] = IF l \in listening THEN press ELSE pressed[l]
      BY <2>1, <2>3 DEF OnRepeat, hears
    <3>2. l \in listening => pressed[l] = press \/ press \in excused
      BY <1>4, <3>1 DEF ListenersAreUpToDate
    <3>3. press \in excused => Once(press)
      BY DEF Once
    <3>4. QED BY <3>1, <3>2, <3>3
  <2>4. QED BY <2>2, <2>3
<1>5. trigger # 0 => \/ was \/ Once(pressed'[trigger])
                     \/ loop = "reporting" /\ pressed'[trigger] = read
  BY <1>4 DEF PressesAreFresh
<1>6. loop = "looking" => was \/ Once(pressed'[seen])
  <2>1. CASE seen # 0
    BY <1>4, <2>1 DEF PressesAreFresh
  <2>2. loop = "looking" => seen # 0
    BY DEF ListenerTypeOK
  <2>3. QED BY <2>1, <2>2
<1>7. loop = "looking" /\ trigger \notin {0, seen} => Once(pressed'[trigger])
  BY <1>4 DEF PressesAreFresh
<1>8. /\ loop = "clicking" => read # 0 /\ Once(read)
      /\ loop = "reporting" => read # 0
  BY DEF PressesAreFresh
<1>9. QED BY <1>1, <1>5, <1>6, <1>7, <1>8 DEF PressesAreFresh, Once, Clicked

\* The loop's thread at the key: what it finds has not clicked, unless it is remembered or
\* excused, and what has just clicked it remembers or excuses.
LEMMA LoopKeepsFresh ==
  ASSUME ListenerTypeOK, PressTypeOK, PressesAreFresh, OneClickUnlessExcused,
         LoadsTrigger \/ LooksAtKey \/ Remembers \/ Clicks \/ Reports
  PROVE  PressesAreFresh' /\ OneClickUnlessExcused'
<1>1. \A p : Clicked(p) => p \in 1..press
  BY DEF PressTypeOK, Clicked
<1>2. Once(0)
  BY <1>1 DEF Once
<1>3. UNCHANGED <<pressed, trigger>>
  BY DEF LoadsTrigger, LooksAtKey, Remembers, Clicks, Reports, keyVars
<1>4. ASSUME clicks' = clicks, excused \subseteq excused'
      PROVE  (\A p : Once(p) => Once(p)') /\ OneClickUnlessExcused'
  BY <1>4, OnceKept
<1>5. CASE LoadsTrigger
  <2>1. UNCHANGED <<clicks, excused, read>> /\ loop = "moving"
    BY <1>5 DEF LoadsTrigger, pastVars
  <2>2. CASE trigger = 0
    BY <1>3, <1>5, <2>1, <2>2, <1>4 DEF LoadsTrigger, becomes, PressesAreFresh
  <2>3. CASE trigger # 0
    <3>1. loop' = "looking" /\ seen' = trigger /\ was' = was
      BY <1>5, <2>3 DEF LoadsTrigger, becomes
    <3>2. was \/ Once(pressed[seen])'
      BY <1>3, <2>1, <2>3, <3>1 DEF PressesAreFresh, Once, Clicked
    <3>3. QED BY <1>3, <1>4, <2>1, <3>1, <3>2 DEF PressesAreFresh
  <2>4. QED BY <2>2, <2>3
<1>6. CASE LooksAtKey
  <2>1. UNCHANGED <<clicks, excused>> /\ loop = "looking" /\ found = pressed[seen]
    BY <1>6 DEF LooksAtKey, pastVars, found
  <2>2. (was \/ Once(found)) /\ (trigger \notin {0, seen} => Once(pressed[trigger]))
    BY <2>1 DEF PressesAreFresh
  <2>3. CASE loop' = "looping" /\ was' = (found # 0)
    <3>1. trigger # 0 => was' \/ Once(pressed[trigger])'
      <4>1. CASE found # 0
        BY <2>3, <4>1
      <4>2. CASE found = 0
        <5>1. trigger # 0 => Once(pressed[trigger])
          BY <1>2, <2>1, <2>2, <4>2
        <5>2. QED BY <1>3, <1>4, <2>1, <5>1
      <4>3. QED BY <4>1, <4>2
    <3>2. QED BY <1>3, <1>4, <2>1, <2>3, <3>1 DEF PressesAreFresh
  <2>4. CASE /\ found # 0 /\ ~was /\ was' = was
             /\ \/ loop' = "clicking" /\ read' = found
                \/ loop' = "remembering"
    <3>1. trigger # 0 => Once(pressed[trigger])'
      BY <1>3, <1>4, <2>1, <2>2, <2>4
    <3>2. loop' = "clicking" => read' # 0 /\ Once(read)'
      <4>1. Once(found)
        BY <2>2, <2>4
      <4>2. QED BY <2>1, <2>4, <4>1 DEF Once, Clicked
    <3>3. QED BY <1>3, <1>4, <2>1, <2>4, <3>1, <3>2 DEF PressesAreFresh
  <2>5. QED BY <1>6, <2>3, <2>4 DEF LooksAtKey, becomes
<1>7. CASE Remembers
  <2>1. UNCHANGED <<clicks, excused>> /\ loop' = "looping" /\ was' = TRUE
    BY <1>7 DEF Remembers, pastVars, becomes
  <2>2. QED BY <1>4, <2>1 DEF PressesAreFresh
<1>8. CASE Clicks
  <2>1. loop = "clicking" /\ read # 0 /\ Once(read) /\ UNCHANGED <<was, excused>>
    BY <1>8 DEF Clicks, PressesAreFresh
  <2>2. trigger # 0 => was \/ Once(pressed[trigger])
    BY <2>1 DEF PressesAreFresh
  <2>3. CASE clicks' = Append(clicks, read) /\ loop' = "reporting" /\ read' = read
    <3>1. \A q : Clicked(q)' <=> Clicked(q) \/ q = read
      BY <2>3, ClickedAfter DEF PressTypeOK
    <3>2. \A q : Once(q) /\ q # read => (Clicked(q)' => q \in excused')
      BY <2>1, <3>1 DEF Once
    <3>3. trigger # 0 => was \/ (Clicked(pressed[trigger])' => pressed[trigger] \in excused')
                             \/ pressed[trigger] = read
      BY <1>3, <2>2, <3>2 DEF Clicked
    <3>4. PressesAreFresh'
      BY <1>3, <2>1, <2>3, <3>3 DEF PressesAreFresh, Once, Clicked
    <3>5. OneClickUnlessExcused'
      <4>1. /\ DOMAIN clicks = 1..Len(clicks) /\ Len(clicks) \in Nat
            /\ DOMAIN clicks' = 1..(Len(clicks) + 1)
            /\ \A i \in DOMAIN clicks : clicks'[i] = clicks[i]
            /\ clicks'[Len(clicks) + 1] = read
        BY <2>3 DEF PressTypeOK
      <4>2. (\E i \in DOMAIN clicks : clicks[i] = read) => read \in excused
        BY <2>1 DEF Once, Clicked
      <4>3. ASSUME NEW i \in DOMAIN clicks', NEW j \in DOMAIN clicks', clicks'[i] = clicks'[j], i # j
            PROVE  clicks'[i] \in excused
        BY <4>1, <4>2, <4>3 DEF OneClickUnlessExcused
      <4>4. QED BY <2>1, <4>3 DEF OneClickUnlessExcused
    <3>6. QED BY <3>4, <3>5
  <2>4. CASE clicks' = clicks /\ loop' = "looping"
    BY <1>3, <1>4, <2>1, <2>2, <2>4 DEF PressesAreFresh
  <2>5. QED BY <1>8, <2>3, <2>4 DEF Clicks, becomes
<1>9. CASE Reports
  <2>1. clicks' = clicks /\ excused \subseteq excused' /\ loop = "reporting" /\ loop' = "looping"
    BY <1>9 DEF Reports, becomes
  <2>2. CASE was' = TRUE
    BY <1>4, <2>1, <2>2 DEF PressesAreFresh
  <2>3. CASE was' = was /\ read \in excused'
    <3>1. trigger # 0 => was \/ Once(pressed[trigger])'
      <4>1. pressed[trigger] = read => Once(pressed[trigger])'
        BY <1>3, <2>3 DEF Once
      <4>2. QED BY <1>3, <1>4, <2>1, <4>1 DEF PressesAreFresh
    <3>2. QED BY <1>3, <1>4, <2>1, <2>3, <3>1 DEF PressesAreFresh
  <2>4. QED BY <1>9, <2>2, <2>3 DEF Reports
<1>10. QED BY <1>5, <1>6, <1>7, <1>8, <1>9

\* A new listener has seen no press that has clicked, or excuses it.
LEMMA KeepsFresh ==
  ASSUME PlaceTypeOK, ListenerTypeOK, PressTypeOK, ListenersAreUpToDate, PressesAreFresh, Keeps
  PROVE  PressesAreFresh'
<1>1. /\ UNCHANGED <<clicks, pressed, read, seen, loop, key, press>> /\ excused \subseteq excused'
      /\ pc = "keeping" /\ trigger' = built /\ was' = FALSE
  BY DEF Keeps, goto, keyVars, frameVars
<1>2. \A p : Once(p) => Once(p)'
  BY <1>1, OnceKept
<1>3. \A p : Clicked(p) => p \in 1..press
  BY DEF PressTypeOK, Clicked
<1>4. \A p : p \in 1..press => p \in excused' \/ ~(key = "down" /\ p = press)
  BY DEF Keeps
<1>5. \A p : p \in 1..press => p \in excused' \/ ~(loop = "looking" /\ p = pressed[seen])
  BY DEF Keeps
<1>6. Once(pressed[built])'
  <2>1. key = "up" => pressed[built] = 0
    BY <1>1 DEF ListenersAreUpToDate
  <2>2. key = "down" => pressed[built] \in {0, press}
    BY <1>1 DEF ListenersAreUpToDate
  <2>3. key \in {"up", "down"}
    BY DEF PlaceTypeOK
  <2>4. Clicked(pressed[built]) => pressed[built] \in excused'
    <3>1. 0 \notin 1..press
      OBVIOUS
    <3>2. QED BY <1>3, <1>4, <2>1, <2>2, <2>3, <3>1
  <2>5. built' = built
    BY DEF Keeps, keyVars
  <2>6. QED BY <1>1, <2>4, <2>5 DEF Once, Clicked
<1>7. loop = "looking" => Once(pressed[seen])'
  BY <1>1, <1>3, <1>5 DEF Once, Clicked
<1>8. built' = built
  BY DEF Keeps, keyVars
<1>9. Once(pressed[trigger])'
  BY <1>1, <1>6, <1>8
<1>10. loop = "clicking" => Once(read)'
  BY <1>1, <1>2 DEF PressesAreFresh
<1>11. QED BY <1>1, <1>7, <1>9, <1>10 DEF PressesAreFresh

LEMMA PressesStep ==
  ASSUME PlaceTypeOK, ListenerTypeOK, PressTypeOK, ListenersAreUpToDate, PressesAreFresh,
         OneClickUnlessExcused, [PointerNext]_pointerVars
  PROVE  PressesAreFresh' /\ OneClickUnlessExcused'
<1> USE DEF keyVars, frameVars, threadVars, pastVars, becomes, goto
<1>1. CASE OnPress \/ OnRepeat \/ OnRelease
  BY <1>1, KeyKeepsFresh, OnceKept DEF OnPress, OnRepeat, OnRelease
<1>2. CASE LoadsTrigger \/ LooksAtKey \/ Remembers \/ Clicks \/ Reports
  BY <1>2, LoopKeepsFresh
<1>3. CASE LoopStarts \/ LoopLeaves \/ SeesHand \/ MoveFails
  BY <1>3, FreshKept, OnceKept DEF LoopStarts, LoopLeaves, SeesHand, MoveFails
<1>4. CASE BlurrerFails \/ ClosesTrigger \/ DropsTrigger \/ Forgotten
  BY <1>4, FreshKept, OnceKept DEF BlurrerFails, ClosesTrigger, DropsTrigger, Forgotten
<1>5. CASE TurnsOn \/ TurnsOff \/ Stops
  BY <1>5, FreshKept, OnceKept DEF TurnsOn, TurnsOff, Stops, receives
<1>6. CASE Builds \/ BuildFails \/ Enables
  BY <1>6, FreshKept, OnceKept DEF Builds, BuildFails, Enables
<1>7. CASE Closes \/ Drops
  BY <1>7, FreshKept, OnceKept DEF Closes, Drops
<1>8. CASE Keeps
  BY <1>8, KeepsFresh, OnceKept DEF Keeps
<1>9. CASE UNCHANGED pointerVars
  BY <1>9, FreshKept, OnceKept DEF pointerVars
<1>10. QED
  BY <1>1, <1>2, <1>3, <1>4, <1>5, <1>6, <1>7, <1>8, <1>9 DEF PointerNext, LoopSteps, handle_message

-----------------------------------------------------------------------------
(***************************************************************************)
(* The inductive invariant and what follows from it.                       *)
(***************************************************************************)
\* The inductive invariant: what each listener has seen, what the loop remembers of it, and
\* who may still have it open.
THEOREM PointerInvariant == PointerSpec => []PointerIInv
<1>1. PointerInit => PointerIInv
  <2> SUFFICES ASSUME PointerInit PROVE PointerIInv
    OBVIOUS
  <2> USE PointerAssumption DEF PointerInit
  <2>1. PlaceTypeOK
    BY DEF PlaceTypeOK, LoopPlaces
  <2>2. ListenerTypeOK
    BY DEF ListenerTypeOK
  <2>3. PressTypeOK
    BY DEF PressTypeOK, Listeners
  <2>4. ListenersAreUpToDate
    BY DEF ListenersAreUpToDate
  <2>5. PressesAreFresh /\ OneClickUnlessExcused
    BY DEF PressesAreFresh, OneClickUnlessExcused
  <2>6. OnlyTriggerListens
    BY DEF OnlyTriggerListens
  <2>7. QED BY <2>1, <2>2, <2>3, <2>4, <2>5, <2>6, TypeParts DEF PointerIInv
<1>2. PointerIInv /\ [PointerNext]_pointerVars => PointerIInv'
  <2> SUFFICES ASSUME PointerIInv, [PointerNext]_pointerVars PROVE PointerIInv'
    OBVIOUS
  <2>1. PlaceTypeOK /\ ListenerTypeOK /\ PressTypeOK
    BY TypeParts DEF PointerIInv
  <2>2. PlaceTypeOK' /\ ListenerTypeOK' /\ PressTypeOK'
    BY <2>1, PlaceStep, ListenerTypeStep, PressTypeStep DEF PointerIInv
  <2>3. ListenersAreUpToDate'
    BY <2>1, UpToDateStep DEF PointerIInv
  <2>4. PressesAreFresh' /\ OneClickUnlessExcused'
    BY <2>1, PressesStep DEF PointerIInv
  <2>5. OnlyTriggerListens'
    BY <2>1, ListenersStep DEF PointerIInv
  <2>6. PointerTypeOK'
    BY <2>2 DEF PointerTypeOK, PlaceTypeOK, ListenerTypeOK, PressTypeOK
  <2>7. QED BY <2>3, <2>4, <2>5, <2>6 DEF PointerIInv
<1>3. QED BY <1>1, <1>2, PTL DEF PointerSpec

\* Every field of the loop, of the listener and of the message thread stays in
\* its type, whichever thread moves (gestures.py, main.py).
THEOREM PointerTypeCorrect == PointerSpec => []PointerTypeOK
<1>1. PointerIInv => PointerTypeOK
  BY DEF PointerIInv
<1>2. QED BY <1>1, PointerInvariant, PTL

\* A held and repeated key fires one click, although listeners come and go and the flag that
\* remembers it is reset without a lock; the only presses that click again are those whose
\* click could not be reported and those that a new listener was kept under (_run,
\* set_pointer_control).
THEOREM OnePressOneClick == PointerSpec => []OneClickUnlessExcused
<1>1. PointerIInv => OneClickUnlessExcused
  BY DEF PointerIInv
<1>2. QED BY <1>1, PointerInvariant, PTL

\* Pointer control that is off, or whose loop is gone, leaves no keyboard listener
\* behind, unless it was kept after the loop had ended, or the loop's failing blurrer
\* kept it open (set_pointer_control, run's finally).
THEOREM ListenersAreClosed == PointerSpec => []NoListenerLeft
<1>1. PointerIInv => NoListenerLeft
  BY DEF PointerIInv, OnlyTriggerListens, NoListenerLeft
<1>2. QED BY <1>1, PointerInvariant, PTL
=============================================================================
