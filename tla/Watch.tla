------------------------------- MODULE Watch --------------------------------
(***************************************************************************)
(* The whole watch.  One application thread runs handlers to completion:   *)
(* the GPIO handlers of the buttons, the callbacks the accelerometer's     *)
(* handler queues with bleappevt_serialize, the one-second timer, the      *)
(* Bluetooth callbacks.  Every action below is one handler; between two    *)
(* handlers the pins move, interrupts latch and the power may go.          *)
(***************************************************************************)
EXTENDS MainFsm, Sequences

CONSTANTS MaxQueue,  \* room in the application event queue
          Gestures   \* what the accelerometer reports

ASSUME QueueAssumption == MaxQueue \in Nat \ {0} /\ Gestures \subseteq AccelEvents

VARIABLES pins,     \* buttons whose pin is high
          irq,      \* buttons whose pin interrupt is latched
          evq       \* accelerometer events serialized, not yet dispatched

envVars == <<pins, irq, evq>>
vars == <<mainVars, message, envVars>>

Buttons == {"NEXT", "ACCEPT"}

TypeOK == /\ MainTypeOK
          /\ ConfigTypeOK
          /\ DisplayTypeOK
          /\ RadioTypeOK
          /\ GroupTypeOK
          /\ pins \subseteq Buttons
          /\ irq \subseteq Buttons
          /\ evq \in Seq(Gestures)

(* A watch out of the factory. *)
Init == /\ mstate = "BOOT" /\ ignoreWake = FALSE /\ gstate = "IDLE"
        /\ ConfigReset(avatar, cursor)
        /\ DisplayReset(lit, frame, message)
        /\ RadioReset(adv, scan, linked, DefaultAvatar)
        /\ nvAvatar = NoAvatar /\ nvValid = FALSE /\ known = {}
        /\ pins = {} /\ irq = {} /\ evq = << >>

(***************************************************************************)
(* The power goes between two handlers: RAM starts afresh, NVRAM, what     *)
(* the store keeps there and the user's fingers do not.                    *)
(***************************************************************************)
PowerLoss ==
  /\ mstate' = "BOOT" /\ ignoreWake' = FALSE /\ gstate' = "IDLE"
  /\ ConfigReset(avatar', cursor')
  /\ DisplayReset(lit', frame', message')
  /\ RadioReset(adv', scan', linked', DefaultAvatar)
  /\ irq' = {} /\ evq' = << >>
  /\ UNCHANGED <<nvVars, known, pins>>

(***************************************************************************)
(* muchi_create.  What the store reads back is some of what it held: which *)
(* part is the subject of Store.                                           *)
(***************************************************************************)
Create == /\ BootDone
          /\ known' \in SUBSET known
          /\ UNCHANGED <<message, envVars>>

(* Mutant: the pins interrupt on the rising edge only. *)
MoveButtonRising(b, level) ==
  /\ (b \in pins) # level
  /\ pins' = IF level THEN pins \union {b} ELSE pins \ {b}
  /\ irq' = IF mstate = "BOOT" \/ ~level THEN irq ELSE irq \union {b}
  /\ UNCHANGED <<mainVars, message, evq>>

(* A finger moves; the pin interrupts on both edges once it is configured. *)
MoveButton(b, level) ==
  /\ (b \in pins) # level
  /\ pins' = IF level THEN pins \union {b} ELSE pins \ {b}
  /\ irq' = IF mstate = "BOOT" THEN irq ELSE irq \union {b}
  /\ UNCHANGED <<mainVars, message, evq>>

(* next_button_handler and accept_button_handler read both pins when they run. *)
ButtonEvent(b) ==
  CASE b \notin pins    -> "BOTH_RELEASE"
    [] pins = Buttons   -> "BOTH_HOLD"
    [] pins = {"NEXT"}  -> "NEXT_PUSH"
    [] OTHER            -> "ACCEPT_PUSH"

ButtonHandler(b) ==
  /\ b \in irq
  /\ irq' = irq \ {b}
  /\ MainEvent(ButtonEvent(b))
  /\ UNCHANGED <<message, pins, evq>>

(* accel_int1_handler, accel_int2_handler: a full queue drops the event. *)
AccelHandler(e) ==
  /\ mstate # "BOOT"
  /\ evq' = IF Len(evq) < MaxQueue THEN Append(evq, e) ELSE evq
  /\ UNCHANGED <<mainVars, message, pins, irq>>

(* serialized_callback *)
SerializedCallback ==
  /\ evq # << >>
  /\ MainEvent(Head(evq))
  /\ evq' = Tail(evq)
  /\ UNCHANGED <<message, pins, irq>>

(* muchi_timeout, once per second *)
Tick == MainEvent("TICK_1S") /\ UNCHANGED <<message, envVars>>

(* muchi_advertisement_timeout *)
AdvTimeout ==
  /\ adv.on
  /\ StartAdverts(FALSE, avatar)
  /\ UNCHANGED <<mstate, ignoreWake, configVars, displayVars, scan, linked, groupVars, message, envVars>>

(* muchi_advertisement_report; one that does not invite changes no state here. *)
AdvReport(p, near) ==
  /\ scan # "NO_SCAN"
  /\ GroupingAdv(p, near)
  /\ UNCHANGED <<mstate, ignoreWake, configVars, displayVars, radioVars,
                 message, envVars>>

ScanTimeout ==
  /\ ScanTimedOut
  /\ UNCHANGED <<mstate, ignoreWake, configVars, displayVars, adv, linked,
                 groupVars, message, envVars>>

LinkUp ==
  /\ ConnectionUp
  /\ UNCHANGED <<mstate, ignoreWake, configVars, displayVars, scan,
                 groupVars, message, envVars>>

LinkDown ==
  /\ ConnectionDown
  /\ UNCHANGED <<mstate, ignoreWake, configVars, displayVars, scan,
                 groupVars, message, envVars>>

(* muchi_write_handler for HANDLE_MUCHI_MESSAGE; an empty value raises no event. *)
WriteMessage(m) ==
  /\ linked
  /\ message' = m
  /\ IF m # NoMessage THEN MainEvent("MESSAGE_ARRIVED") ELSE UNCHANGED mainVars
  /\ UNCHANGED envVars

(* What happens at the watch itself, a report of another watch apart. *)
Own == \/ Create
       \/ PowerLoss
       \/ \E b \in Buttons, level \in BOOLEAN : MoveButton(b, level)
       \/ \E b \in Buttons : ButtonHandler(b)
       \/ \E e \in Gestures : AccelHandler(e)
       \/ SerializedCallback
       \/ Tick
       \/ AdvTimeout
       \/ ScanTimeout
       \/ LinkUp
       \/ LinkDown
       \/ \E m \in Messages \union {NoMessage} : WriteMessage(m)

Next == Own \/ \E p \in Peers, near \in BOOLEAN : AdvReport(p, near)

(***************************************************************************)
(* The stack delivers what it has accepted: the boot finishes, a latched   *)
(* interrupt and a queued callback are served, and the timer keeps firing. *)
(***************************************************************************)
Fairness == /\ WF_vars(Create)
            /\ \A b \in Buttons : WF_vars(ButtonHandler(b))
            /\ WF_vars(SerializedCallback)
            /\ WF_vars(Tick)

Spec == Init /\ [][Next]_vars /\ Fairness
-----------------------------------------------------------------------------
(* Safety *)

(* The advertisement invites other watches only while the user is grouping:  *)
(* no path through wake-ups, timeouts of the advertising, links or messages  *)
(* leaves FLAG_GROUPING on the air after groupfsm.c went back to IDLE.       *)
InviteOnlyWhileGrouping == adv.on /\ adv.grouping => gstate = "GROUPING"

(* The radar is never blind: in RADAR the scan runs, though its timer may    *)
(* have expired, a message come and gone, or a link been made.               *)
RadarScans == mstate = "RADAR" => scan = "LOW_SCAN"

(* Outside MESSAGE a grouping session is held by a hand, or its end is       *)
(* latched: when both buttons are up and no interrupt is pending, groupfsm.c *)
(* is IDLE.  MESSAGE ignores BOTH_RELEASE, but ACCEPT, the only way out of   *)
(* it, has a release of its own.                                             *)
GroupingNeedsHands ==
  gstate = "GROUPING" /\ mstate # "MESSAGE" => pins \union irq # {}

(* A configuration marked valid has an avatar, whichever write failed and    *)
(* whenever the power went: do_state_cfg writes the mark last.               *)
SavedConfigComplete == nvValid => nvAvatar \in Avatars

(* Once a configuration is saved, the avatar other watches see is the saved  *)
(* one, after a reboot, an aborted configuration or a restarted advertising. *)
AdvertisedAvatarIsSaved == adv.on /\ nvValid => adv.face = nvAvatar

(* The user holds a grouping session and the radio scans. *)
UnderHand == /\ gstate = "GROUPING"
             /\ scan = "LOW_SCAN"
             /\ (mstate = "MESSAGE" \/ pins \union irq # {})

StoresUnderHand == ~(known' \subseteq known) => UnderHand

(* A peer enters the store only in a grouping session, with the radio        *)
(* scanning, and, unless a message covers the radar, under the user's hand.  *)
PairingNeedsHands == [][StoresUnderHand]_vars

(* A saved configuration is final: the configuration page is not entered     *)
(* again, so no later key, power loss or failed write disturbs it.           *)
SavedConfigIsFinal == [][nvValid => nvVars' = nvVars]_vars

LeaksOnlyToMessage ==
  scan' = "LOW_SCAN" /\ mstate' # "RADAR" =>
    mstate' = "MESSAGE" \/ (scan = "LOW_SCAN" /\ mstate # "RADAR")

(* To other watches this is a Grouper, whatever pages, buttons and gestures  *)
(* do: a session starts listening, only its end or the radar's stops the     *)
(* scan, the flag comes and goes with the session, and the store grows by an *)
(* accepted invitation and shrinks by a boot alone.                          *)
Others == INSTANCE Grouper WITH up <- mstate # "BOOT"

ImplementsGrouper == Others!Spec

(* Only a message takes a running scan out of the radar: no tilt, button or  *)
(* inactivity leaves RADAR, or refuses to enter it, with the scan on.        *)
OnlyMessagesLeakScan == [][LeaksOnlyToMessage]_vars

-----------------------------------------------------------------------------
(* Liveness *)

(* A lit panel comes to show what it should, again and again: display_update *)
(* "must be called at least once per second per display requirements"        *)
(* (display.c), and TILT60, UNTILT60, messages and buttons change the state  *)
(* without drawing it.  IDLE, which draws nothing, never has the panel lit.  *)
PictureCatchesUp == []<>(lit => mstate # "IDLE" /\ frame = Picture(mstate))

(* Let go of both buttons and grouping ends, unless a message or a new press *)
(* comes first.                                                              *)
GroupingEnds ==
  (gstate = "GROUPING" /\ mstate # "MESSAGE" /\ pins = {})
     ~> (gstate = "IDLE" \/ mstate = "MESSAGE" \/ pins # {})

-----------------------------------------------------------------------------
(* What comments of the source say and the program does not do *)

(* "we only start adverts if we've found a valid config" (mainfsm.c:234)     *)
AdvertsNeedValidConfig == adv.on => nvValid

(* "Turn off display on short inactivity" (gestures.c:116)                   *)
ShortInactivityDarkens ==
  [][(SerializedCallback /\ Head(evq) = "SHORT_INACTIVE") => ~lit']_vars
=============================================================================
