---------------------------- MODULE WatchProofs -----------------------------
(***************************************************************************)
(* Proofs that the invariants of Watch hold whatever the avatars, peers,   *)
(* messages, gestures and the room in the queue.                           *)
(***************************************************************************)
EXTENDS Refusal, TLAPS

(***************************************************************************)
(* What the invariants need to be inductive.                               *)
(***************************************************************************)
(* Grouping happens only in the states the radar can be reached from. *)
GroupingStates == gstate = "GROUPING" => mstate \in {"TIME", "RADAR", "MESSAGE"}

(* Before the boot is over nothing is advertised and nobody is grouping. *)
BootIsSilent == mstate = "BOOT" => ~adv.on

(* The configuration page is only shown when nothing valid is saved. *)
ConfigOnlyUnsaved == mstate = "CFG" => ~nvValid

(* From the end of the boot on, g_avatar is the saved avatar. *)
AvatarIsSaved == nvValid /\ mstate # "BOOT" => avatar = nvAvatar

GroupingInv == InviteOnlyWhileGrouping /\ GroupingStates /\ GroupingNeedsHands

ConfigInv == /\ SavedConfigComplete
             /\ BootIsSilent
             /\ ConfigOnlyUnsaved
             /\ AvatarIsSaved
             /\ AdvertisedAvatarIsSaved

-----------------------------------------------------------------------------
(* The next avatar is an avatar: the wrap of display_keypress. *)
LEMMA NextAvatar == ASSUME NEW a \in Avatars PROVE (a + 1) % AvatarCount \in Avatars
  BY AvatarAssumption, SMT DEF Avatars

(* An advertisement carries an avatar. *)
LEMMA AdvertType == ASSUME NEW g \in BOOLEAN, NEW f \in Avatars
                    PROVE [on |-> TRUE, grouping |-> g, face |-> f] \in Adverts
  BY FacesAssumption DEF Adverts

(* What the handlers of main events keep of the type invariant. *)
MainType == MainTypeOK /\ ConfigTypeOK /\ DisplayTypeOK /\ RadioTypeOK /\ GroupTypeOK

LEMMA MainEventType ==
  ASSUME MainType, NEW e \in Events, MainEvent(e), message' \in Messages \union {NoMessage}
  PROVE  MainType'
<1> USE DEF MainType, MainTypeOK, ConfigTypeOK, DisplayTypeOK, RadioTypeOK, GroupTypeOK
<1> USE DEF configVars, displayVars, radioVars, groupVars, mainVars, nvVars, States
<1>0. Ignore => MainType'
  BY DEF Ignore
<1>1. Refresh(e) => MainType'
  BY DEF Refresh, DisplayUpdate, Picture, Frames
<1>2. ShowMessage(e) => MainType'
  BY DEF ShowMessage
<1>3. CASE IdleEvent(e)
  BY <1>0, <1>3 DEF IdleEvent, DisplayOn
<1>4. CASE CfgEvent(e)
  <2>1. CASE e = "NEXT_PUSH" /\ KeyNext /\ DisplayUpdate("CFG")
             /\ UNCHANGED <<mstate, ignoreWake, radioVars, groupVars>>
    BY <2>1, NextAvatar DEF KeyNext, DisplayUpdate, Picture, Frames, Cursors
  <2>2. CASE CfgAccept /\ UNCHANGED <<ignoreWake, groupVars>>
    <3>1. cursor' \in Cursors
      BY <2>2 DEF CfgAccept, NextCursor, Cursors
    <3>2. nvAvatar' \in Avatars \union {NoAvatar} /\ nvValid' \in BOOLEAN
      BY <2>2 DEF CfgAccept, SaveConfig
    <3>3. avatar' \in Avatars /\ adv' \in Adverts
      BY <2>2, <3>2, AdvertType DEF CfgAccept, CfgToTime, ReadAvatar, StartAdverts
    <3> QED BY <2>2, <3>1, <3>2, <3>3 DEF CfgAccept
  <2> QED BY <1>0, <1>1, <1>4, <2>1, <2>2 DEF CfgEvent
<1>5. CASE TimeEvent(e)
  <2> USE <1>5 DEF TimeEvent, TimeToRadar
  <2>1. adv' \in Adverts
    BY AdvertType DEF Wake, StartAdverts, GroupingStart, GroupingStop, ShowMessage,
       Refresh, Ignore
  <2> QED
    BY <1>0, <1>1, <1>2, <2>1 DEF Wake, DisplayOn, DisplayOff, DisplayUpdate, Picture,
       Frames, BlecenScan, GroupingStart, GroupingStop
<1>6. CASE RadarEvent(e)
  <2> USE <1>6 DEF RadarEvent
  <2>1. adv' \in Adverts
    BY AdvertType DEF StartAdverts, GroupingStart, GroupingStop, ShowMessage,
       Refresh, Ignore
  <2> QED
    BY <1>0, <1>1, <1>2, <2>1 DEF DisplayOff, DisplayUpdate, Picture, Frames,
       RadarToTime, BlecenScan, GroupingStart, GroupingStop
<1>7. CASE MessageEvent(e)
  BY <1>0, <1>1, <1>7 DEF MessageEvent
<1> QED BY <1>3, <1>4, <1>5, <1>6, <1>7 DEF MainEvent

(* A silent radio is well typed, and so is an empty queue. *)
LEMMA ResetTypes ==
  /\ [on |-> FALSE, grouping |-> FALSE, face |-> DefaultAvatar] \in Adverts
  /\ << >> \in Seq(Gestures)
  BY AvatarAssumption, FacesAssumption DEF Adverts

LEMMA TypeInit == Init => TypeOK
<1> SUFFICES ASSUME Init PROVE TypeOK
  OBVIOUS
<1>1. adv \in Adverts /\ evq \in Seq(Gestures)
  BY ResetTypes DEF Init, RadioReset
<1> QED
  BY <1>1, AvatarAssumption
  DEF Init, TypeOK, MainTypeOK, ConfigTypeOK, DisplayTypeOK, RadioTypeOK, GroupTypeOK,
      ConfigReset, DisplayReset, RadioReset, States, Cursors, Frames

LEMMA TypeStep == TypeOK /\ [Next]_vars => TypeOK'
<1> SUFFICES ASSUME TypeOK, [Next]_vars PROVE TypeOK'
  OBVIOUS
<1> USE DEF TypeOK, MainType
<1>g. Gestures \subseteq Events /\ ButtonEvents \subseteq Events
  BY QueueAssumption DEF Events
<1>b. \A b \in Buttons : ButtonEvent(b) \in ButtonEvents
  BY DEF ButtonEvent, ButtonEvents
<1>1. CASE Create
  <2>1. adv' \in Adverts /\ avatar' \in Avatars
    BY <1>1, AdvertType DEF Create, BootDone, StartAdverts, ReadAvatar, ConfigTypeOK, RadioTypeOK
  <2> QED
    BY <1>1, <2>1 DEF Create, BootDone, DisplayInit, MainTypeOK, ConfigTypeOK, DisplayTypeOK,
       RadioTypeOK, GroupTypeOK, States, Frames, envVars, nvVars
<1>2. CASE PowerLoss
  <2>1. adv' \in Adverts /\ evq' \in Seq(Gestures)
    BY <1>2, ResetTypes DEF PowerLoss, RadioReset
  <2> QED
    BY <1>2, <2>1, AvatarAssumption
    DEF PowerLoss, MainTypeOK, ConfigTypeOK, DisplayTypeOK, RadioTypeOK, GroupTypeOK, nvVars,
        ConfigReset, DisplayReset, RadioReset, States, Cursors, Frames
<1>3. ASSUME NEW b \in Buttons, NEW level \in BOOLEAN, MoveButton(b, level) PROVE TypeOK'
  BY <1>3 DEF MoveButton, mainVars, configVars, displayVars, radioVars, groupVars, MainTypeOK,
     ConfigTypeOK, DisplayTypeOK, RadioTypeOK, GroupTypeOK
<1>4. ASSUME NEW b \in Buttons, ButtonHandler(b) PROVE TypeOK'
  <2>1. MainEvent(ButtonEvent(b)) /\ ButtonEvent(b) \in Events
    BY <1>4, <1>b, <1>g DEF ButtonHandler
  <2>2. message' \in Messages \union {NoMessage}
    BY <1>4 DEF ButtonHandler, DisplayTypeOK
  <2>3. MainType'
    BY <2>1, <2>2, MainEventType
  <2> QED BY <1>4, <2>3 DEF ButtonHandler
<1>5. ASSUME NEW e \in Gestures, AccelHandler(e) PROVE TypeOK'
  <2>1. evq' \in Seq(Gestures)
    BY <1>5 DEF AccelHandler
  <2> QED
    BY <1>5, <2>1 DEF AccelHandler, mainVars, configVars, displayVars, radioVars, groupVars,
       MainTypeOK, ConfigTypeOK, DisplayTypeOK, RadioTypeOK, GroupTypeOK
<1>6. CASE SerializedCallback
  <2>1. Head(evq) \in Events /\ evq' \in Seq(Gestures)
    BY <1>6, <1>g DEF SerializedCallback
  <2>2. message' \in Messages \union {NoMessage}
    BY <1>6 DEF SerializedCallback, DisplayTypeOK
  <2>3. MainType'
    BY <1>6, <2>1, <2>2, MainEventType DEF SerializedCallback
  <2> QED BY <1>6, <2>1, <2>3 DEF SerializedCallback
<1>7. CASE Tick
  <2>1. "TICK_1S" \in Events /\ message' \in Messages \union {NoMessage}
    BY <1>7 DEF Tick, Events, DisplayTypeOK
  <2>2. MainType'
    BY <1>7, <2>1, MainEventType DEF Tick
  <2> QED BY <1>7, <2>2 DEF Tick, envVars
<1>8. CASE AdvTimeout \/ ScanTimeout \/ LinkUp \/ LinkDown
  <2>1. adv' \in Adverts
    BY <1>8, AdvertType DEF AdvTimeout, ScanTimeout, LinkUp, LinkDown, ConnectionUp,
       ConnectionDown, StartAdverts, Adverts, RadioTypeOK, ConfigTypeOK
  <2> QED
    BY <1>8, <2>1 DEF AdvTimeout, ScanTimeout, ScanTimedOut, LinkUp, LinkDown, ConnectionUp,
       ConnectionDown, configVars, displayVars, groupVars, envVars, MainTypeOK,
       ConfigTypeOK, DisplayTypeOK, RadioTypeOK, GroupTypeOK
<1>9. ASSUME NEW p \in Peers, NEW near \in BOOLEAN, AdvReport(p, near) PROVE TypeOK'
  BY <1>9 DEF AdvReport, GroupingAdv, StoreAdd, configVars, displayVars, radioVars, envVars,
     MainTypeOK, ConfigTypeOK, DisplayTypeOK, RadioTypeOK, GroupTypeOK
<1>10. ASSUME NEW m \in Messages \union {NoMessage}, WriteMessage(m) PROVE TypeOK'
  <2>1. "MESSAGE_ARRIVED" \in Events
    BY DEF Events
  <2>2. MainType'
    BY <1>10, <2>1, MainEventType DEF WriteMessage, mainVars, configVars, displayVars, radioVars,
       groupVars, MainTypeOK, ConfigTypeOK, DisplayTypeOK, RadioTypeOK, GroupTypeOK
  <2> QED BY <1>10, <2>2 DEF WriteMessage, envVars
<1>11. CASE UNCHANGED vars
  BY <1>11 DEF vars, mainVars, configVars, displayVars, radioVars, groupVars, envVars,
     MainTypeOK, ConfigTypeOK, DisplayTypeOK, RadioTypeOK, GroupTypeOK
<1> QED BY <1>1, <1>2, <1>3, <1>4, <1>5, <1>6, <1>7, <1>8, <1>9, <1>10, <1>11 DEF Next, Own

(* Every variable keeps its type. *)
THEOREM TypeCorrect == Spec => []TypeOK
  BY TypeInit, TypeStep, PTL DEF Spec

-----------------------------------------------------------------------------
(* grpr_start_adverts(0) takes the invitation off the air. *)
LEMMA PlainAdvert == \A f : StartAdverts(FALSE, f) => ~adv'.grouping
  BY DEF StartAdverts

(***************************************************************************)
(* An event of the main state machine preserves the grouping invariant if  *)
(* it leaves the buttons alone or is raised by a button: a push is raised  *)
(* with a pin high, a release ends grouping in TIME and RADAR.             *)
(***************************************************************************)
LEMMA GroupingEvent ==
  ASSUME GroupingInv, NEW e, MainEvent(e),
         e \in ButtonEvents \/ UNCHANGED <<pins, irq>>,
         e \in ButtonEvents /\ e # "BOTH_RELEASE" => pins' # {}
  PROVE  GroupingInv'
<1> USE DEF GroupingInv, InviteOnlyWhileGrouping, GroupingStates, GroupingNeedsHands, ButtonEvents
<1> USE DEF configVars, displayVars, radioVars, groupVars, mainVars, nvVars, Ignore, Refresh, ShowMessage
<1>1. CASE IdleEvent(e)
  BY <1>1 DEF IdleEvent
<1>2. CASE CfgEvent(e)
  <2>1. gstate # "GROUPING" /\ gstate' = gstate
    BY <1>2 DEF CfgEvent, CfgAccept
  <2>2. adv' = adv \/ ~adv'.grouping
    BY <1>2, PlainAdvert DEF CfgEvent, CfgAccept, CfgToTime
  <2> QED BY <2>1, <2>2
<1>3. CASE TimeEvent(e)
  BY <1>3 DEF TimeEvent, TimeToRadar, Wake, GroupingStart, GroupingStop, StartAdverts
<1>4. CASE RadarEvent(e)
  BY <1>4 DEF RadarEvent, RadarToTime, GroupingStart, GroupingStop, StartAdverts
<1>5. CASE MessageEvent(e)
  BY <1>5 DEF MessageEvent
<1> QED BY <1>1, <1>2, <1>3, <1>4, <1>5 DEF MainEvent

LEMMA GroupingStep == TypeOK /\ GroupingInv /\ [Next]_vars => GroupingInv'
<1> SUFFICES ASSUME TypeOK, GroupingInv, [Next]_vars PROVE GroupingInv'
  OBVIOUS
<1> USE DEF GroupingInv, InviteOnlyWhileGrouping, GroupingStates, GroupingNeedsHands
<1>1. CASE Create
  <2>1. gstate # "GROUPING" /\ gstate' = gstate
    BY <1>1 DEF Create, BootDone
  <2>2. adv' = adv \/ ~adv'.grouping
    BY <1>1, PlainAdvert DEF Create, BootDone
  <2> QED BY <2>1, <2>2
<1>2. CASE PowerLoss
  BY <1>2 DEF PowerLoss, RadioReset
<1>3. ASSUME NEW b \in Buttons, NEW level \in BOOLEAN, MoveButton(b, level) PROVE GroupingInv'
  BY <1>3 DEF MoveButton, mainVars, radioVars, groupVars
<1>4. ASSUME NEW b \in Buttons, ButtonHandler(b) PROVE GroupingInv'
  <2>1. /\ ButtonEvent(b) \in ButtonEvents
        /\ ButtonEvent(b) # "BOTH_RELEASE" => pins # {}
    BY DEF ButtonEvent, ButtonEvents
  <2>2. MainEvent(ButtonEvent(b)) /\ pins' = pins
    BY <1>4 DEF ButtonHandler
  <2> HIDE DEF GroupingInv
  <2> QED BY <2>1, <2>2, GroupingEvent
<1>5. ASSUME NEW e \in Gestures, AccelHandler(e) PROVE GroupingInv'
  BY <1>5 DEF AccelHandler, mainVars, radioVars, groupVars
<1>6. CASE SerializedCallback
  <2>1. Head(evq) \in AccelEvents
    BY <1>6, QueueAssumption DEF SerializedCallback, TypeOK
  <2>2. Head(evq) \notin ButtonEvents
    BY <2>1 DEF AccelEvents, ButtonEvents
  <2>3. MainEvent(Head(evq)) /\ UNCHANGED <<pins, irq>>
    BY <1>6 DEF SerializedCallback
  <2> HIDE DEF GroupingInv
  <2> QED BY <2>2, <2>3, GroupingEvent
<1>7. CASE Tick
  <2>1. MainEvent("TICK_1S") /\ UNCHANGED <<pins, irq>> /\ "TICK_1S" \notin ButtonEvents
    BY <1>7 DEF Tick, envVars, ButtonEvents
  <2> HIDE DEF GroupingInv
  <2> QED BY <2>1, GroupingEvent
<1>8. CASE AdvTimeout \/ ScanTimeout \/ LinkUp \/ LinkDown
  BY <1>8 DEF AdvTimeout, ScanTimeout, ScanTimedOut, LinkUp, LinkDown, ConnectionUp,
     ConnectionDown, StartAdverts, groupVars, envVars, TypeOK, RadioTypeOK, Adverts
<1>9. ASSUME NEW p \in Peers, NEW near \in BOOLEAN, AdvReport(p, near) PROVE GroupingInv'
  BY <1>9 DEF AdvReport, GroupingAdv, radioVars, envVars
<1>10. ASSUME NEW m \in Messages \union {NoMessage}, WriteMessage(m) PROVE GroupingInv'
  <2>1. CASE m = NoMessage
    BY <1>10, <2>1 DEF WriteMessage, mainVars, radioVars, groupVars, envVars
  <2>2. CASE m # NoMessage
    <3>1. MainEvent("MESSAGE_ARRIVED") /\ UNCHANGED <<pins, irq>>
      BY <1>10, <2>2 DEF WriteMessage, envVars
    <3>2. "MESSAGE_ARRIVED" \notin ButtonEvents
      BY DEF ButtonEvents
    <3> HIDE DEF GroupingInv
    <3> QED BY <3>1, <3>2, GroupingEvent
  <2> QED BY <2>1, <2>2
<1>11. CASE UNCHANGED vars
  BY <1>11 DEF vars, mainVars, radioVars, groupVars, envVars
<1> QED BY <1>1, <1>2, <1>3, <1>4, <1>5, <1>6, <1>7, <1>8, <1>9, <1>10, <1>11 DEF Next, Own

(* A grouping session is always held by a hand, outside MESSAGE, and the     *)
(* invitation is on the air only during one.                                 *)
THEOREM GroupingSafe == Spec => [](InviteOnlyWhileGrouping /\ GroupingNeedsHands)
<1>1. Init => GroupingInv
  BY DEF Init, RadioReset, GroupingInv, InviteOnlyWhileGrouping, GroupingStates, GroupingNeedsHands
<1>2. GroupingInv => InviteOnlyWhileGrouping /\ GroupingNeedsHands
  BY DEF GroupingInv
<1> QED BY <1>1, <1>2, TypeCorrect, GroupingStep, PTL DEF Spec

(* The invitation alone: no restart of the advertising leaves it on the air. *)
THEOREM InvitesSafe == Spec => []InviteOnlyWhileGrouping
  BY GroupingSafe, PTL

-----------------------------------------------------------------------------
(* What an event does to the scan: it starts on the way into RADAR, stops on *)
(* the way to TIME, and goes on under a message.                             *)
LEMMA ScanEvent ==
  ASSUME NEW e, MainEvent(e)
  PROVE  (RadarScans => RadarScans') /\ LeaksOnlyToMessage
<1> USE DEF RadarScans, LeaksOnlyToMessage
<1> USE DEF configVars, displayVars, radioVars, groupVars, mainVars, Ignore, Refresh, ShowMessage
<1>1. CASE IdleEvent(e)
  BY <1>1 DEF IdleEvent
<1>2. CASE CfgEvent(e)
  BY <1>2 DEF CfgEvent, CfgAccept
<1>3. CASE TimeEvent(e)
  BY <1>3 DEF TimeEvent, TimeToRadar, BlecenScan
<1>4. CASE RadarEvent(e)
  BY <1>4 DEF RadarEvent, RadarToTime, BlecenScan
<1>5. CASE MessageEvent(e)
  BY <1>5 DEF MessageEvent
<1> QED BY <1>1, <1>2, <1>3, <1>4, <1>5 DEF MainEvent

LEMMA ScanStep == [Next]_vars => (RadarScans => RadarScans') /\ [LeaksOnlyToMessage]_vars
<1> SUFFICES ASSUME [Next]_vars PROVE (RadarScans => RadarScans') /\ [LeaksOnlyToMessage]_vars
  OBVIOUS
<1>1. (\E e : MainEvent(e)) => (RadarScans => RadarScans') /\ LeaksOnlyToMessage
  BY ScanEvent
<1>2. CASE \/ \E b \in Buttons : ButtonHandler(b)
           \/ SerializedCallback \/ Tick
           \/ \E m \in Messages \union {NoMessage} : m # NoMessage /\ WriteMessage(m)
  BY <1>1, <1>2 DEF ButtonHandler, SerializedCallback, Tick, WriteMessage
<1>3. CASE Create \/ PowerLoss
  BY <1>3 DEF Create, BootDone, PowerLoss, RadioReset, RadarScans, LeaksOnlyToMessage
<1>4. CASE \/ \E b \in Buttons, level \in BOOLEAN : MoveButton(b, level)
           \/ \E e \in Gestures : AccelHandler(e)
           \/ \E p \in Peers, near \in BOOLEAN : AdvReport(p, near)
           \/ \E m \in Messages \union {NoMessage} : m = NoMessage /\ WriteMessage(m)
           \/ AdvTimeout \/ ScanTimeout \/ LinkUp \/ LinkDown \/ UNCHANGED vars
  BY <1>4 DEF MoveButton, AccelHandler, AdvReport, AdvTimeout, ScanTimeout, ScanTimedOut,
     LinkUp, LinkDown, WriteMessage, vars, mainVars, radioVars, RadarScans, LeaksOnlyToMessage
<1> QED BY <1>2, <1>3, <1>4 DEF Next, Own

(* The radar always scans. *)
THEOREM RadarSafe == Spec => []RadarScans
<1>1. Init => RadarScans
  BY DEF Init, RadarScans
<1> QED BY <1>1, ScanStep, PTL DEF Spec

(* Nothing but a message leaves the scan running outside the radar. *)
THEOREM ScanContained == Spec => OnlyMessagesLeakScan
<1>1. OnlyMessagesLeakScan <=> [][LeaksOnlyToMessage]_vars
  BY DEF OnlyMessagesLeakScan
<1> QED BY <1>1, ScanStep, PTL DEF Spec

-----------------------------------------------------------------------------
(* What grpr_start_adverts puts on the air is the avatar it is given. *)
LEMMA AdvertFace == \A g, f : StartAdverts(g, f) => adv'.on /\ adv'.face = f
  BY DEF StartAdverts

(* Reading a saved avatar yields it. *)
LEMMA AvatarRead == \A a \in Avatars : \A c : ReadAvatar(a, c) = a
  BY AvatarAssumption DEF ReadAvatar

(* A valid mark is read as such. *)
LEMMA ValidIsRead == FALSE \in ReadConfigValid(nvValid) => ~nvValid
  BY Zenon DEF ReadConfigValid

LEMMA ConfigEvent ==
  ASSUME TypeOK, ConfigInv, NEW e, MainEvent(e)
  PROVE  ConfigInv'
<1> USE DEF ConfigInv, SavedConfigComplete, BootIsSilent, ConfigOnlyUnsaved, AvatarIsSaved,
            AdvertisedAvatarIsSaved
<1> USE DEF configVars, displayVars, radioVars, groupVars, mainVars, nvVars, Ignore, Refresh, ShowMessage
<1>1. CASE IdleEvent(e)
  <2>1. UNCHANGED <<configVars, radioVars>> /\ mstate' \in {"IDLE", "TIME", "CFG"}
    BY <1>1 DEF IdleEvent
  <2>2. mstate' = "CFG" => ~nvValid
    BY <1>1, ValidIsRead DEF IdleEvent
  <2> QED BY <1>1, <2>1, <2>2 DEF IdleEvent
<1>2. CASE CfgEvent(e)
  <2>1. CASE e = "NEXT_PUSH" /\ KeyNext /\ UNCHANGED <<mstate, radioVars>>
    BY <1>2, <2>1 DEF CfgEvent, KeyNext
  <2>2. CASE CfgAccept /\ ~ConfigDone
    BY <1>2, <2>2 DEF CfgEvent, CfgAccept
  <2>3. CASE CfgAccept /\ ConfigDone
    <3>1. SaveConfig /\ CfgToTime /\ mstate' = "TIME" /\ ~nvValid
      BY <1>2, <2>3 DEF CfgEvent, CfgAccept
    <3>2. nvValid' => nvAvatar' \in Avatars
      BY <3>1 DEF SaveConfig, TypeOK, ConfigTypeOK
    <3>3. nvValid' => avatar' = nvAvatar' /\ StartAdverts(FALSE, avatar')
      BY <3>1, <3>2, AvatarRead DEF CfgToTime, ReadConfigValid
    <3> QED BY <3>1, <3>2, <3>3, AdvertFace
  <2> QED BY <1>2, <2>1, <2>2, <2>3 DEF CfgEvent
<1>3. CASE TimeEvent(e)
  <2>1. UNCHANGED <<avatar, nvAvatar, nvValid>> /\ mstate' \in {"TIME", "RADAR", "MESSAGE"}
    BY <1>3 DEF TimeEvent, TimeToRadar
  <2>2. adv' = adv \/ adv'.face = avatar
    BY <1>3, AdvertFace DEF TimeEvent, Wake, GroupingStart, GroupingStop
  <2> QED BY <1>3, <2>1, <2>2 DEF TimeEvent, TimeToRadar
<1>4. CASE RadarEvent(e)
  <2>1. UNCHANGED <<avatar, nvAvatar, nvValid>> /\ mstate' \in {"TIME", "RADAR", "MESSAGE"}
    BY <1>4 DEF RadarEvent, RadarToTime
  <2>2. adv' = adv \/ adv'.face = avatar
    BY <1>4, AdvertFace DEF RadarEvent, RadarToTime, GroupingStart, GroupingStop
  <2> QED BY <1>4, <2>1, <2>2 DEF RadarEvent
<1>5. CASE MessageEvent(e)
  BY <1>5 DEF MessageEvent
<1> QED BY <1>1, <1>2, <1>3, <1>4, <1>5 DEF MainEvent

LEMMA ConfigStep == TypeOK /\ ConfigInv /\ [Next]_vars => ConfigInv'
<1> SUFFICES ASSUME TypeOK, ConfigInv, [Next]_vars PROVE ConfigInv'
  OBVIOUS
<1> USE DEF ConfigInv, SavedConfigComplete, BootIsSilent, ConfigOnlyUnsaved, AvatarIsSaved,
            AdvertisedAvatarIsSaved
<1>1. CASE Create
  <2>1. CASE nvValid
    <3>1. avatar' = nvAvatar /\ StartAdverts(FALSE, avatar') /\ UNCHANGED nvVars /\ mstate' = "IDLE"
      BY <1>1, <2>1, AvatarRead DEF Create, BootDone, ReadConfigValid
    <3> QED BY <2>1, <3>1, AdvertFace DEF nvVars
  <2>2. CASE ~nvValid
    BY <1>1, <2>2 DEF Create, BootDone, nvVars
  <2> QED BY <2>1, <2>2
<1>2. CASE PowerLoss
  BY <1>2 DEF PowerLoss, RadioReset, nvVars
<1>3. CASE \/ \E b \in Buttons : ButtonHandler(b)
           \/ SerializedCallback \/ Tick
           \/ \E m \in Messages \union {NoMessage} : m # NoMessage /\ WriteMessage(m)
  <2>1. PICK e : MainEvent(e)
    BY <1>3 DEF ButtonHandler, SerializedCallback, Tick, WriteMessage
  <2> HIDE DEF ConfigInv
  <2> QED BY <2>1, ConfigEvent
<1>4. CASE AdvTimeout
  <2>1. adv'.face = avatar /\ UNCHANGED <<mstate, configVars>> /\ adv.on
    BY <1>4, AdvertFace DEF AdvTimeout
  <2> QED BY <2>1 DEF configVars
<1>5. CASE LinkUp \/ LinkDown
  BY <1>5 DEF LinkUp, LinkDown, ConnectionUp, ConnectionDown, configVars, TypeOK, RadioTypeOK, Adverts
<1>6. CASE \/ \E b \in Buttons, level \in BOOLEAN : MoveButton(b, level)
           \/ \E e \in Gestures : AccelHandler(e)
           \/ \E p \in Peers, near \in BOOLEAN : AdvReport(p, near)
           \/ \E m \in Messages \union {NoMessage} : m = NoMessage /\ WriteMessage(m)
           \/ ScanTimeout \/ UNCHANGED vars
  BY <1>6 DEF MoveButton, AccelHandler, AdvReport, WriteMessage, ScanTimeout,
     vars, mainVars, radioVars, configVars
<1> QED BY <1>1, <1>2, <1>3, <1>4, <1>5, <1>6 DEF Next, Own

(* A saved configuration is complete, and its avatar is the one on the air.  *)
THEOREM ConfigSafe == Spec => [](SavedConfigComplete /\ AdvertisedAvatarIsSaved)
<1>1. Init => ConfigInv
  BY DEF Init, RadioReset, ConfigInv, SavedConfigComplete, BootIsSilent, ConfigOnlyUnsaved,
         AvatarIsSaved, AdvertisedAvatarIsSaved
<1>2. ConfigInv => SavedConfigComplete /\ AdvertisedAvatarIsSaved
  BY DEF ConfigInv
<1> QED BY <1>1, <1>2, TypeCorrect, ConfigStep, PTL DEF Spec

(* Completeness alone: the flag is never saved without the avatar, whichever *)
(* write fails and wherever the power goes.                                  *)
THEOREM ConfigComplete == Spec => []SavedConfigComplete
  BY ConfigSafe, PTL

-----------------------------------------------------------------------------
(* NVRAM is written by the configuration page alone. *)
LEMMA OnlyCfgWrites == ASSUME NEW e, MainEvent(e) PROVE mstate = "CFG" \/ nvVars' = nvVars
<1> USE DEF configVars, mainVars, nvVars, Ignore, Refresh, ShowMessage
<1>1. IdleEvent(e) => UNCHANGED nvVars
  BY DEF IdleEvent
<1>2. TimeEvent(e) => UNCHANGED nvVars
  BY DEF TimeEvent
<1>3. RadarEvent(e) => UNCHANGED nvVars
  BY DEF RadarEvent
<1>4. MessageEvent(e) => UNCHANGED nvVars
  BY DEF MessageEvent
<1> QED BY <1>1, <1>2, <1>3, <1>4 DEF MainEvent, CfgEvent

(* Once saved, the configuration never changes. *)
THEOREM ConfigIsFinal == Spec => SavedConfigIsFinal
<1>1. ConfigInv /\ [Next]_vars => [nvValid => nvVars' = nvVars]_vars
  <2> SUFFICES ASSUME ConfigOnlyUnsaved, nvValid, Next PROVE nvVars' = nvVars
    BY DEF ConfigInv
  <2>1. (\E e : MainEvent(e)) => nvVars' = nvVars
    BY OnlyCfgWrites DEF ConfigOnlyUnsaved
  <2>2. CASE \/ \E b \in Buttons : ButtonHandler(b)
             \/ SerializedCallback \/ Tick
             \/ \E m \in Messages \union {NoMessage} : m # NoMessage /\ WriteMessage(m)
    BY <2>1, <2>2 DEF ButtonHandler, SerializedCallback, Tick, WriteMessage
  <2>3. CASE \/ Create \/ PowerLoss \/ AdvTimeout \/ ScanTimeout \/ LinkUp \/ LinkDown
             \/ \E b \in Buttons, level \in BOOLEAN : MoveButton(b, level)
             \/ \E e \in Gestures : AccelHandler(e)
             \/ \E p \in Peers, near \in BOOLEAN : AdvReport(p, near)
             \/ \E m \in Messages \union {NoMessage} : m = NoMessage /\ WriteMessage(m)
    BY <2>3 DEF Create, BootDone, PowerLoss, AdvTimeout, ScanTimeout, LinkUp, LinkDown,
       MoveButton, AccelHandler, AdvReport, WriteMessage, mainVars, configVars, nvVars
  <2> QED BY <2>2, <2>3 DEF Next, Own
<1>2. Init => ConfigInv
  BY DEF Init, RadioReset, ConfigInv, SavedConfigComplete, BootIsSilent, ConfigOnlyUnsaved,
         AvatarIsSaved, AdvertisedAvatarIsSaved
<1>3. SavedConfigIsFinal <=> [][nvValid => nvVars' = nvVars]_vars
  BY DEF SavedConfigIsFinal
<1> QED BY <1>1, <1>2, <1>3, TypeCorrect, ConfigStep, PTL DEF Spec

-----------------------------------------------------------------------------
(* The main state machine does not touch the store. *)
LEMMA StoreUntouched == ASSUME NEW e, MainEvent(e) PROVE known' = known
<1> USE DEF groupVars, mainVars, Ignore, Refresh, ShowMessage
<1>1. IdleEvent(e) => UNCHANGED known
  BY DEF IdleEvent
<1>2. CfgEvent(e) => UNCHANGED known
  BY DEF CfgEvent
<1>3. TimeEvent(e) => UNCHANGED known
  BY DEF TimeEvent
<1>4. RadarEvent(e) => UNCHANGED known
  BY DEF RadarEvent
<1>5. MessageEvent(e) => UNCHANGED known
  BY DEF MessageEvent
<1> QED BY <1>1, <1>2, <1>3, <1>4, <1>5 DEF MainEvent

(* No peer is stored behind the user's back. *)
THEOREM PairingSafe == Spec => PairingNeedsHands
<1>1. TypeOK /\ GroupingInv /\ [Next]_vars => [StoresUnderHand]_vars
  <2> SUFFICES ASSUME TypeOK, GroupingInv, Next, ~(known' \subseteq known)
               PROVE  UnderHand
    BY DEF StoresUnderHand
  <2>1. CASE \/ \E b \in Buttons : ButtonHandler(b)
             \/ SerializedCallback \/ Tick
             \/ \E m \in Messages \union {NoMessage} : m # NoMessage /\ WriteMessage(m)
    BY <2>1, StoreUntouched DEF ButtonHandler, SerializedCallback, Tick, WriteMessage
  <2>2. CASE \/ Create \/ PowerLoss \/ AdvTimeout \/ ScanTimeout \/ LinkUp \/ LinkDown
             \/ \E b \in Buttons, level \in BOOLEAN : MoveButton(b, level)
             \/ \E e \in Gestures : AccelHandler(e)
             \/ \E m \in Messages \union {NoMessage} : m = NoMessage /\ WriteMessage(m)
    BY <2>2 DEF Create, PowerLoss, AdvTimeout, ScanTimeout, LinkUp, LinkDown,
       MoveButton, AccelHandler, WriteMessage, mainVars, groupVars
  <2>3. CASE \E p \in Peers, near \in BOOLEAN : AdvReport(p, near)
    BY <2>3 DEF UnderHand, AdvReport, GroupingAdv, GroupingInv, GroupingNeedsHands, TypeOK, RadioTypeOK
  <2> QED BY <2>1, <2>2, <2>3 DEF Next, Own
<1>2. Init => GroupingInv
  BY DEF Init, RadioReset, GroupingInv, InviteOnlyWhileGrouping, GroupingStates, GroupingNeedsHands
<1>3. PairingNeedsHands <=> [][StoresUnderHand]_vars
  BY DEF PairingNeedsHands
<1> QED BY <1>1, <1>2, <1>3, TypeCorrect, GroupingStep, PTL DEF Spec

-----------------------------------------------------------------------------
(* Of all the events only a button's and a wake-up not refused light the panel. *)
LEMMA WhatLights ==
  ASSUME NEW e, MainEvent(e), ~lit, lit'
  PROVE  e \in ButtonEvents \/ (e = "WAKEUP" /\ ~ignoreWake)
<1> USE DEF ButtonEvents, mainVars, displayVars, Ignore, Refresh, DisplayUpdate, ShowMessage
<1>1. CASE IdleEvent(e)
  BY <1>1 DEF IdleEvent
<1>2. CASE CfgEvent(e)
  BY <1>2 DEF CfgEvent, CfgAccept
<1>3. CASE TimeEvent(e)
  BY <1>3 DEF TimeEvent, TimeToRadar, DisplayOff
<1>4. CASE RadarEvent(e)
  BY <1>4 DEF RadarEvent, DisplayOff
<1>5. CASE MessageEvent(e)
  BY <1>5 DEF MessageEvent
<1> QED BY <1>1, <1>2, <1>3, <1>4, <1>5 DEF MainEvent

(* One that is not refused does light it in TIME. *)
LEMMA WakeLights == TimeEvent("WAKEUP") /\ ~ignoreWake => lit'
  BY DEF TimeEvent, Wake, DisplayOn, ShowMessage, Refresh

(* The flag of do_state_time changes in TIME alone, by ACCEPT and NEXT. *)
LEMMA FlagEvent ==
  ASSUME TypeOK, NEW e, MainEvent(e)
  PROVE  ignoreWake' = /\ ~(mstate = "TIME" /\ e = "NEXT_PUSH")
                       /\ ignoreWake \/ (mstate = "TIME" /\ e = "ACCEPT_PUSH")
<1> USE DEF TypeOK, MainTypeOK, mainVars, Ignore, Refresh, ShowMessage
<1>1. CASE IdleEvent(e)
  BY <1>1, Zenon DEF IdleEvent
<1>2. CASE CfgEvent(e)
  BY <1>2, Zenon DEF CfgEvent
<1>3. CASE TimeEvent(e)
  BY <1>3 DEF TimeEvent
<1>4. CASE RadarEvent(e)
  BY <1>4, Zenon DEF RadarEvent
<1>5. CASE MessageEvent(e)
  BY <1>5, Zenon DEF MessageEvent
<1> QED BY <1>1, <1>2, <1>3, <1>4, <1>5 DEF MainEvent

(* No event goes back to the boot. *)
LEMMA NoEventBoots == ASSUME NEW e, MainEvent(e) PROVE mstate' # "BOOT"
  BY DEF MainEvent, IdleEvent, CfgEvent, CfgAccept, TimeEvent, TimeToRadar, RadarEvent,
     RadarToTime, MessageEvent, Ignore, Refresh, ShowMessage, mainVars

(* The flag is the user's last word, and he had none before the boot was over. *)
FlagIsRefusal == ignoreWake = refused /\ (mstate = "BOOT" => ~refused)

LEMMA RefusalStep == TypeOK /\ FlagIsRefusal /\ [RefusalNext]_<<vars, refused>> => FlagIsRefusal'
<1> SUFFICES ASSUME TypeOK, FlagIsRefusal, [RefusalNext]_<<vars, refused>> PROVE FlagIsRefusal'
  OBVIOUS
<1> USE DEF FlagIsRefusal
<1>b. refused \in BOOLEAN
  BY DEF TypeOK, MainTypeOK
<1>1. ASSUME NEW b \in Buttons, ButtonHandler(b), Remember PROVE FlagIsRefusal'
  <2>1. MainEvent(ButtonEvent(b)) /\ b \in irq /\ irq' = irq \ {b}
    BY <1>1 DEF ButtonHandler
  <2>2. \A x \in irq : irq' = irq \ {x} => x = b
    BY <2>1
  <2>3. ASSUME NEW e PROVE Pushed(e) <=> mstate = "TIME" /\ ButtonEvent(b) = e
    BY <2>1, <2>2 DEF Pushed
  <2> QED BY <1>1, <2>1, <2>3, FlagEvent, NoEventBoots DEF Remember
<1>2. ASSUME irq \subseteq irq', mstate' = "BOOT" => mstate = "BOOT", ignoreWake' = ignoreWake, Remember
      PROVE  FlagIsRefusal'
  <2>1. ASSUME NEW e PROVE ~Pushed(e)
    BY <1>2 DEF Pushed
  <2> QED BY <1>b, <1>2, <2>1 DEF Remember
<1>3. ASSUME NEW e, MainEvent(e), e \notin {"NEXT_PUSH", "ACCEPT_PUSH"}
      PROVE  ignoreWake' = ignoreWake /\ mstate' # "BOOT"
  BY <1>b, <1>3, FlagEvent, NoEventBoots
<1>4. CASE SerializedCallback /\ Remember
  <2>1. MainEvent(Head(evq)) /\ Head(evq) \in AccelEvents /\ irq' = irq
    BY <1>4, QueueAssumption DEF SerializedCallback, TypeOK
  <2>2. Head(evq) \notin {"NEXT_PUSH", "ACCEPT_PUSH"}
    BY <2>1 DEF AccelEvents
  <2> QED BY <1>2, <1>3, <1>4, <2>1, <2>2
<1>5. CASE (Tick \/ \E m \in Messages \union {NoMessage} : m # NoMessage /\ WriteMessage(m)) /\ Remember
  <2>1. (MainEvent("TICK_1S") \/ MainEvent("MESSAGE_ARRIVED")) /\ irq' = irq
    BY <1>5 DEF Tick, WriteMessage, envVars
  <2> QED BY <1>2, <1>3, <1>5, <2>1
<1>6. CASE PowerLoss /\ Remember
  BY <1>6 DEF PowerLoss, Remember
<1>7. CASE Create /\ Remember
  BY <1>2, <1>7 DEF Create, BootDone, envVars
<1>8. ASSUME NEW b \in Buttons, NEW level \in BOOLEAN, MoveButton(b, level), Remember
      PROVE  FlagIsRefusal'
  <2>1. irq \subseteq irq' /\ mstate' = mstate /\ ignoreWake' = ignoreWake
    BY <1>8 DEF MoveButton, mainVars
  <2> QED BY <1>2, <1>8, <2>1
<1>9. CASE /\ \/ AdvTimeout \/ ScanTimeout \/ LinkUp \/ LinkDown
              \/ \E e \in Gestures : AccelHandler(e)
              \/ \E p \in Peers, near \in BOOLEAN : AdvReport(p, near)
              \/ \E m \in Messages \union {NoMessage} : m = NoMessage /\ WriteMessage(m)
           /\ Remember
  BY <1>2, <1>9 DEF AdvTimeout, ScanTimeout, LinkUp, LinkDown, AccelHandler, AdvReport,
     WriteMessage, mainVars, envVars
<1>10. CASE UNCHANGED <<vars, refused>>
  BY <1>10 DEF vars, mainVars
<1> QED BY <1>1, <1>4, <1>5, <1>6, <1>7, <1>8, <1>9, <1>10 DEF RefusalNext, Next, Own

(* Nothing but the user, or a reset, lights a dark panel; a wake-up does it  *)
(* if he has not refused it, whatever he did elsewhere since.                *)
THEOREM PanelStaysDark == RefusalSpec => OnlyUserLightsPanel
<1> DEFINE FlagAndType == TypeOK /\ FlagIsRefusal
<1>1. FlagAndType /\ [RefusalNext]_<<vars, refused>> => [UserDecides]_<<vars, refused>>
  <2> SUFFICES ASSUME TypeOK, FlagIsRefusal, RefusalNext PROVE UserDecides
    BY DEF UserDecides
  <2>1. ASSUME ~lit, lit'
        PROVE  (\E b \in Buttons : ButtonHandler(b)) \/ (WakeUp /\ ~refused) \/ PowerLoss
    <3>1. CASE SerializedCallback
      <4>1. MainEvent(Head(evq)) /\ evq # << >>
        BY <3>1 DEF SerializedCallback
      <4>2. Head(evq) \notin ButtonEvents
        BY <4>1, QueueAssumption DEF TypeOK, AccelEvents, ButtonEvents
      <4> QED BY <2>1, <3>1, <4>1, <4>2, WhatLights DEF WakeUp, FlagIsRefusal
    <3>2. CASE Tick \/ \E m \in Messages \union {NoMessage} : m # NoMessage /\ WriteMessage(m)
      <4>1. MainEvent("TICK_1S") \/ MainEvent("MESSAGE_ARRIVED")
        BY <3>2 DEF Tick, WriteMessage
      <4> QED BY <2>1, <4>1, WhatLights DEF ButtonEvents
    <3>3. CASE Create
      BY <2>1, <3>3 DEF Create, BootDone, DisplayInit
    <3>4. CASE \/ AdvTimeout \/ ScanTimeout \/ LinkUp \/ LinkDown
               \/ \E b \in Buttons, level \in BOOLEAN : MoveButton(b, level)
               \/ \E e \in Gestures : AccelHandler(e)
               \/ \E p \in Peers, near \in BOOLEAN : AdvReport(p, near)
               \/ \E m \in Messages \union {NoMessage} : m = NoMessage /\ WriteMessage(m)
      BY <2>1, <3>4 DEF AdvTimeout, ScanTimeout, LinkUp, LinkDown, MoveButton, AccelHandler,
         AdvReport, WriteMessage, mainVars, displayVars
    <3> QED BY <3>1, <3>2, <3>3, <3>4 DEF RefusalNext, Next, Own
  <2>2. ASSUME WakeUp, mstate = "TIME", ~refused PROVE lit'
    <3>1. MainEvent("WAKEUP") /\ ~ignoreWake
      BY <2>2 DEF WakeUp, SerializedCallback, FlagIsRefusal
    <3>2. TimeEvent("WAKEUP")
      BY <2>2, <3>1 DEF MainEvent, IdleEvent, CfgEvent, RadarEvent, MessageEvent
    <3> QED BY <3>1, <3>2, WakeLights
  <2> QED BY <2>1, <2>2 DEF UserDecides
<1>2. RefusalInit => FlagAndType
  BY TypeInit DEF RefusalInit, Init, FlagIsRefusal
<1>3. FlagAndType /\ [RefusalNext]_<<vars, refused>> => FlagAndType'
  <2> SUFFICES ASSUME FlagAndType, [RefusalNext]_<<vars, refused>> PROVE FlagAndType'
    OBVIOUS
  <2>1. [Next]_vars
    BY DEF RefusalNext
  <2> QED BY <2>1, TypeStep, RefusalStep
<1>4. OnlyUserLightsPanel <=> [][UserDecides]_<<vars, refused>>
  BY DEF OnlyUserLightsPanel
<1> QED BY <1>1, <1>2, <1>3, <1>4, PTL DEF RefusalSpec
-----------------------------------------------------------------------------
(* The boot leaves the panel dark, and IDLE ends with the first key. *)
IdleIsDark == mstate = "IDLE" => ~lit

LEMMA DarkStep == IdleIsDark /\ [Next]_vars => IdleIsDark'
<1> SUFFICES ASSUME IdleIsDark, [Next]_vars PROVE IdleIsDark'
  OBVIOUS
<1> USE DEF IdleIsDark
<1>1. ASSUME NEW e, MainEvent(e) PROVE IdleIsDark'
  BY <1>1 DEF MainEvent, IdleEvent, CfgEvent, CfgAccept, TimeEvent, TimeToRadar, RadarEvent,
     RadarToTime, MessageEvent, Ignore, Refresh, ShowMessage, mainVars, displayVars
<1>2. CASE \/ \E b \in Buttons : ButtonHandler(b)
           \/ SerializedCallback \/ Tick
           \/ \E m \in Messages \union {NoMessage} : m # NoMessage /\ WriteMessage(m)
  BY <1>1, <1>2 DEF ButtonHandler, SerializedCallback, Tick, WriteMessage
<1>3. CASE Create \/ PowerLoss
  BY <1>3 DEF Create, BootDone, DisplayInit, PowerLoss
<1>4. CASE \/ AdvTimeout \/ ScanTimeout \/ LinkUp \/ LinkDown
           \/ \E b \in Buttons, level \in BOOLEAN : MoveButton(b, level)
           \/ \E e \in Gestures : AccelHandler(e)
           \/ \E p \in Peers, near \in BOOLEAN : AdvReport(p, near)
           \/ \E m \in Messages \union {NoMessage} : m = NoMessage /\ WriteMessage(m)
           \/ UNCHANGED vars
  BY <1>4 DEF AdvTimeout, ScanTimeout, LinkUp, LinkDown, MoveButton, AccelHandler, AdvReport,
     WriteMessage, vars, mainVars, displayVars
<1> QED BY <1>2, <1>3, <1>4 DEF Next, Own

Inactivity == SerializedCallback /\ Head(evq) = "SHORT_INACTIVE"
InactivityDarkens ==
  [][Inactivity => ~lit' \/ (mstate \in {"MESSAGE", "CFG"} /\ UNCHANGED mainVars)]_vars

(* How far ShortInactivityDarkens fails: a watch put down goes dark, unless  *)
(* a message or the configuration is on the panel, which takes no notice.    *)
THEOREM OnlyPagesStayLit == Spec => InactivityDarkens
<1> DEFINE Dark == Inactivity => ~lit' \/ (mstate \in {"MESSAGE", "CFG"} /\ UNCHANGED mainVars)
<1>1. IdleIsDark => [Dark]_vars
  <2> SUFFICES ASSUME IdleIsDark, MainEvent("SHORT_INACTIVE")
               PROVE  ~lit' \/ (mstate \in {"MESSAGE", "CFG"} /\ UNCHANGED mainVars)
    BY DEF Inactivity, SerializedCallback
  <2> USE DEF Refresh, ShowMessage, Ignore
  <2>1. CASE mstate = "IDLE"
    BY <2>1 DEF IdleIsDark, MainEvent, IdleEvent, CfgEvent, TimeEvent, RadarEvent, MessageEvent,
       mainVars, displayVars
  <2>2. CASE mstate \in {"TIME", "RADAR"}
    BY <2>2 DEF MainEvent, IdleEvent, CfgEvent, TimeEvent, RadarEvent, MessageEvent, DisplayOff
  <2>3. CASE mstate \in {"MESSAGE", "CFG"}
    BY <2>3 DEF MainEvent, IdleEvent, CfgEvent, TimeEvent, RadarEvent, MessageEvent
  <2> QED BY <2>1, <2>2, <2>3 DEF MainEvent, IdleEvent, CfgEvent, TimeEvent, RadarEvent, MessageEvent
<1>2. Init => IdleIsDark
  BY DEF Init, IdleIsDark
<1>3. InactivityDarkens <=> [][Dark]_vars
  BY DEF InactivityDarkens
<1> QED BY <1>1, <1>2, <1>3, DarkStep, PTL DEF Spec
-----------------------------------------------------------------------------
(* Before the boot is over the radio is silent and deaf. *)
BootIsDeaf == mstate = "BOOT" => ~adv.on /\ scan = "NO_SCAN" /\ ~linked

LEMMA BootDeafStep == TypeOK /\ BootIsDeaf /\ [Next]_vars => BootIsDeaf'
<1> SUFFICES ASSUME TypeOK, BootIsDeaf, [Next]_vars PROVE BootIsDeaf'
  OBVIOUS
<1> USE DEF BootIsDeaf
<1>1. ASSUME NEW e, MainEvent(e) PROVE mstate' # "BOOT"
  BY <1>1 DEF MainEvent, IdleEvent, CfgEvent, CfgAccept, TimeEvent, TimeToRadar, RadarEvent,
     RadarToTime, MessageEvent, Ignore, Refresh, ShowMessage, mainVars
<1>2. CASE \/ \E b \in Buttons : ButtonHandler(b)
           \/ SerializedCallback \/ Tick
           \/ \E m \in Messages \union {NoMessage} : m # NoMessage /\ WriteMessage(m)
  BY <1>1, <1>2 DEF ButtonHandler, SerializedCallback, Tick, WriteMessage
<1>3. CASE Create \/ PowerLoss
  BY <1>3 DEF Create, BootDone, PowerLoss, RadioReset
<1>4. CASE AdvTimeout \/ LinkUp \/ LinkDown
  BY <1>4 DEF AdvTimeout, LinkUp, LinkDown, ConnectionUp, ConnectionDown
<1>5. CASE \/ \E b \in Buttons, level \in BOOLEAN : MoveButton(b, level)
           \/ \E e \in Gestures : AccelHandler(e)
           \/ \E p \in Peers, near \in BOOLEAN : AdvReport(p, near)
           \/ \E m \in Messages \union {NoMessage} : m = NoMessage /\ WriteMessage(m)
           \/ ScanTimeout \/ UNCHANGED vars
  BY <1>5 DEF MoveButton, AccelHandler, AdvReport, WriteMessage, ScanTimeout, ScanTimedOut,
     vars, mainVars, radioVars
<1> QED BY <1>2, <1>3, <1>4, <1>5 DEF Next, Own

(* What each main event is to other watches: holding both buttons is Hold,   *)
(* whether the radar was there (RadarScans) or comes now; letting go is      *)
(* Release; the keys, the wake-ups and the end of the configuration are      *)
(* Advertise; what else touches the radio is Scan.                           *)
LEMMA EventAsGrouper ==
  ASSUME TypeOK, TypeOK', RadarScans, NEW e, MainEvent(e)
  PROVE  Others!Own \/ UNCHANGED Others!vars
<1> USE DEF configVars, displayVars, radioVars, groupVars, mainVars, Ignore, Refresh, ShowMessage
<1> USE DEF Others!vars, Others!radioVars
<1>f. avatar \in Faces /\ avatar' \in Faces
  BY FacesAssumption DEF TypeOK, ConfigTypeOK
<1> DEFINE Seen == <<adv, scan, linked, gstate, known, mstate # "BOOT">>
<1>s. UNCHANGED Seen => UNCHANGED Others!vars
  OBVIOUS
<1>a. ASSUME NEW f \in Faces, StartAdverts(FALSE, f), mstate # "BOOT", mstate' # "BOOT",
             UNCHANGED <<scan, linked, gstate, known>>
      PROVE  Others!Own
  BY <1>a DEF Others!Own, Others!Advertise, Others!StartAdverts, StartAdverts
<1>m. ASSUME scan' \in {"NO_SCAN", "LOW_SCAN"}, mstate # "BOOT", mstate' # "BOOT",
             UNCHANGED <<adv, linked, gstate, known>>
      PROVE  Others!Own
  BY <1>m DEF Others!Own, Others!Scan, Others!BlecenScan
<1>h. ASSUME GroupingStart(avatar), scan' = "LOW_SCAN", mstate # "BOOT", mstate' # "BOOT",
             UNCHANGED <<linked, known>>
      PROVE  Others!Own
  <2>1. Others!Hold(avatar)
    BY <1>h DEF Others!Hold, Others!GroupingStart, Others!StartAdverts, Others!BlecenScan,
       GroupingStart, StartAdverts
  <2> QED BY <1>f, <2>1 DEF Others!Own
<1>r. ASSUME GroupingStop(avatar), scan' \in {scan, "NO_SCAN"}, mstate # "BOOT", mstate' # "BOOT",
             UNCHANGED <<linked, known>>
      PROVE  Others!Own
  <2>1. Others!Release(avatar)
    BY <1>r DEF Others!Release, Others!GroupingStop, Others!StartAdverts, Others!BlecenScan,
       GroupingStop, StartAdverts
  <2> QED BY <1>f, <2>1 DEF Others!Own
<1>1. CASE IdleEvent(e)
  BY <1>1, <1>s DEF IdleEvent
<1>2. CASE CfgEvent(e)
  BY <1>2, <1>s, <1>a, <1>f DEF CfgEvent, CfgAccept, CfgToTime
<1>3. CASE TimeEvent(e)
  BY <1>3, <1>s, <1>a, <1>m, <1>h, <1>r, <1>f DEF TimeEvent, TimeToRadar, Wake, BlecenScan
<1>4. CASE RadarEvent(e)
  BY <1>4, <1>s, <1>m, <1>h, <1>r DEF RadarEvent, RadarToTime, BlecenScan, RadarScans
<1>5. CASE MessageEvent(e)
  BY <1>5, <1>s DEF MessageEvent
<1> QED BY <1>1, <1>2, <1>3, <1>4, <1>5 DEF MainEvent

(* Both modules count the store in the same way. *)
LEMMA SameCount == \A S : Others!Cardinality(S) = Cardinality(S)
  BY Zenon DEF Cardinality, Others!Cardinality

(* What a watch does by itself is what a Grouper does by itself. *)
LEMMA OwnAsGrouper ==
  ASSUME TypeOK, TypeOK', RadarScans, BootIsDeaf, Own
  PROVE  Others!Own \/ UNCHANGED Others!vars
<1> USE DEF Others!vars, Others!radioVars, BootIsDeaf
<1>f. avatar \in Faces /\ avatar' \in Faces /\ DefaultAvatar \in Faces
  BY FacesAssumption, AvatarAssumption DEF TypeOK, ConfigTypeOK
<1>1. CASE Create
  <2>1. Others!Boot(avatar')
    BY <1>1 DEF Create, BootDone, StartAdverts, Others!Boot, Others!StartAdverts
  <2> QED BY <1>f, <2>1 DEF Others!Own
<1>2. CASE PowerLoss
  <2>1. Others!PowerLoss(DefaultAvatar)
    BY <1>2 DEF PowerLoss, RadioReset, Others!PowerLoss, Others!RadioReset
  <2> QED BY <1>f, <2>1 DEF Others!Own
<1>3. CASE \/ \E b \in Buttons : ButtonHandler(b)
           \/ SerializedCallback \/ Tick
           \/ \E m \in Messages \union {NoMessage} : m # NoMessage /\ WriteMessage(m)
  <2>1. PICK e : MainEvent(e)
    BY <1>3 DEF ButtonHandler, SerializedCallback, Tick, WriteMessage
  <2> QED BY <2>1, EventAsGrouper
<1>4. CASE AdvTimeout
  <2>1. Others!Advertise(avatar)
    BY <1>4 DEF AdvTimeout, groupVars, StartAdverts, Others!Advertise, Others!StartAdverts
  <2> QED BY <1>f, <2>1 DEF Others!Own
<1>5. CASE LinkUp \/ LinkDown
  <2>1. Others!Link
    BY <1>5 DEF LinkUp, LinkDown, ConnectionUp, ConnectionDown, groupVars, Others!Link,
       Others!ConnectionUp, Others!ConnectionDown
  <2> QED BY <2>1 DEF Others!Own
<1>6. CASE \/ \E b \in Buttons, level \in BOOLEAN : MoveButton(b, level)
           \/ \E e \in Gestures : AccelHandler(e)
           \/ \E m \in Messages \union {NoMessage} : m = NoMessage /\ WriteMessage(m)
           \/ ScanTimeout
  BY <1>6 DEF MoveButton, AccelHandler, WriteMessage, ScanTimeout, ScanTimedOut,
     mainVars, radioVars, groupVars
<1> QED BY <1>1, <1>2, <1>3, <1>4, <1>5, <1>6 DEF Own

(* A report that invites is heard as a Grouper hears it. *)
LEMMA ReportAsGrouper ==
  ASSUME BootIsDeaf, NEW p \in Peers, NEW near \in BOOLEAN, AdvReport(p, near)
  PROVE  Others!Hear(p, near)
  BY SameCount DEF BootIsDeaf, AdvReport, GroupingAdv, StoreAdd, radioVars, Others!Hear,
     Others!GroupingAdv, Others!StoreAdd, Others!radioVars

LEMMA GrouperStep ==
  TypeOK /\ TypeOK' /\ RadarScans /\ BootIsDeaf /\ [Next]_vars => [Others!Next]_(Others!vars)
<1>1. UNCHANGED vars => UNCHANGED Others!vars
  BY DEF vars, mainVars, radioVars, groupVars, Others!vars, Others!radioVars
<1> QED BY <1>1, OwnAsGrouper, ReportAsGrouper DEF Next, Others!Next

(* What a watch keeps to be a Grouper. *)
WatchInv == TypeOK /\ RadarScans /\ BootIsDeaf

LEMMA WatchInvInit == Init => WatchInv
<1>1. Init => RadarScans /\ BootIsDeaf
  BY DEF Init, RadioReset, RadarScans, BootIsDeaf
<1> QED BY <1>1, TypeInit DEF WatchInv

LEMMA WatchInvStep == WatchInv /\ [Next]_vars => WatchInv'
  BY TypeStep, ScanStep, BootDeafStep DEF WatchInv

LEMMA GrouperInit == Init => Others!Init
  BY AvatarAssumption, FacesAssumption DEF Init, RadioReset, Others!Init, Others!RadioReset

(* A watch is a Grouper to other watches. *)
THEOREM WatchImplementsGrouper == Spec => ImplementsGrouper
<1>1. WatchInv /\ WatchInv' /\ [Next]_vars => [Others!Next]_(Others!vars)
  BY GrouperStep DEF WatchInv
<1>2. ImplementsGrouper <=> Others!Init /\ [][Others!Next]_(Others!vars)
  BY DEF ImplementsGrouper, Others!Spec
<1> QED BY <1>1, <1>2, GrouperInit, WatchInvInit, WatchInvStep, PTL DEF Spec
=============================================================================
