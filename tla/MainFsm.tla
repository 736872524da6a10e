------------------------------ MODULE MainFsm -------------------------------
(***************************************************************************)
(* The main state machine (mainfsm.c).  Each operator XEvent(e) is a       *)
(* state function together with the transition action                      *)
(* mainfsm_process_event_with_data calls after it: the whole of what the   *)
(* arrival of event e in state X does.  cur_state is assigned last, so a   *)
(* display_update inside the handler still draws the old state's picture.  *)
(*                                                                         *)
(* No code raises LONG_INACTIVE, so neither the event nor                  *)
(* grpr_stop_adverts, which only its case calls, appears here.             *)
(***************************************************************************)
EXTENDS Config, Display, GroupFsm

ASSUME FacesAssumption == Faces = Avatars

VARIABLES mstate,     \* cur_state of mainfsm.c
          ignoreWake  \* the static ignore_wake of do_state_time

States == {"BOOT", "IDLE", "CFG", "TIME", "RADAR", "MESSAGE"}

AccelEvents == {"TILT60", "UNTILT60", "SHORT_INACTIVE", "WAKEUP"}
ButtonEvents == {"NEXT_PUSH", "ACCEPT_PUSH", "BOTH_HOLD", "BOTH_RELEASE"}
Events == AccelEvents \union ButtonEvents \union {"TICK_1S", "MESSAGE_ARRIVED"}

groupVars == <<gstate, known>>
mainVars == <<mstate, ignoreWake, configVars, displayVars, radioVars, groupVars>>

MainTypeOK == mstate \in States /\ ignoreWake \in BOOLEAN

(* The event changes nothing: the default case of every state function. *)
Ignore == UNCHANGED mainVars

(* TICK_1S in every state with a picture. *)
Refresh(e) == /\ e = "TICK_1S"
              /\ DisplayUpdate(mstate)
              /\ UNCHANGED <<mstate, ignoreWake, configVars, radioVars, groupVars>>

(* Mutant: a message lights the panel. *)
ShowMessageLit(e) == /\ e = "MESSAGE_ARRIVED"
                     /\ mstate' = "MESSAGE"
                     /\ DisplayOn
                     /\ UNCHANGED <<ignoreWake, configVars, radioVars, groupVars>>

(* Mutant: what do_state_time remembers does not outlive a message. *)
ShowMessageForgets(e) == /\ e = "MESSAGE_ARRIVED"
                         /\ mstate' = "MESSAGE"
                         /\ ignoreWake' = FALSE
                         /\ UNCHANGED <<configVars, displayVars, radioVars, groupVars>>

(* MESSAGE_ARRIVED in TIME and in RADAR: the transition has no action. *)
ShowMessage(e) == /\ e = "MESSAGE_ARRIVED"
                  /\ mstate' = "MESSAGE"
                  /\ UNCHANGED <<ignoreWake, configVars, displayVars, radioVars, groupVars>>

(* do_state_idle; do_idle_to_cfg lights the panel, IDLE to TIME has no action. *)
IdleEvent(e) ==
  /\ mstate = "IDLE"
  /\ \/ /\ e \in {"NEXT_PUSH", "ACCEPT_PUSH"}
        /\ \/ /\ TRUE \in ReadConfigValid(nvValid)
              /\ mstate' = "TIME"
              /\ UNCHANGED displayVars
           \/ /\ FALSE \in ReadConfigValid(nvValid)
              /\ mstate' = "CFG"
              /\ DisplayOn
        /\ UNCHANGED <<ignoreWake, configVars, radioVars, groupVars>>
     \/ e \notin {"NEXT_PUSH", "ACCEPT_PUSH"} /\ Ignore

(* do_cfg_to_time, after the handler has written the records. *)
CfgToTime ==
  \/ /\ TRUE \in ReadConfigValid(nvValid')
     /\ avatar' = ReadAvatar(nvAvatar', avatar)
     /\ StartAdverts(FALSE, avatar')
  \/ /\ FALSE \in ReadConfigValid(nvValid')
     /\ UNCHANGED <<avatar, adv>>

(* do_state_cfg, ACCEPT_PUSH *)
CfgAccept ==
  /\ cursor' = NextCursor
  /\ \/ ConfigDone  /\ SaveConfig /\ CfgToTime /\ mstate' = "TIME"
     \/ ~ConfigDone /\ UNCHANGED <<nvVars, avatar, adv, mstate>>
  /\ UNCHANGED <<displayVars, scan, linked>>

CfgEvent(e) ==
  /\ mstate = "CFG"
  /\ \/ /\ e = "NEXT_PUSH"
        /\ KeyNext
        /\ DisplayUpdate("CFG")
        /\ UNCHANGED <<mstate, ignoreWake, radioVars, groupVars>>
     \/ e = "ACCEPT_PUSH" /\ CfgAccept /\ UNCHANGED <<ignoreWake, groupVars>>
     \/ Refresh(e)
     \/ e \notin {"NEXT_PUSH", "ACCEPT_PUSH", "TICK_1S"} /\ Ignore

(* NEXT_PUSH and WAKEUP in TIME, once ignore_wake allows it. *)
Wake == DisplayOn /\ StartAdverts(FALSE, avatar)

(* Mutant: do_time_to_radar does not start the scan. *)
TimeToRadarDeaf == mstate' = "RADAR" /\ UNCHANGED scan

(* A step from TIME to RADAR runs do_time_to_radar. *)
TimeToRadar == mstate' = "RADAR" /\ BlecenScan("LOW_SCAN")

(* do_state_time *)
TimeEvent(e) ==
  /\ mstate = "TIME"
  /\ \/ ShowMessage(e)
     \/ Refresh(e)
     \/ /\ e = "TILT60"
        /\ DisplayUpdate("TIME")
        /\ TimeToRadar
        /\ UNCHANGED <<ignoreWake, configVars, adv, linked, groupVars>>
     \/ /\ e \in {"ACCEPT_PUSH", "SHORT_INACTIVE"}
        /\ ignoreWake' = (ignoreWake \/ e = "ACCEPT_PUSH")
        /\ DisplayOff
        /\ UNCHANGED <<mstate, configVars, radioVars, groupVars>>
     \/ /\ e = "NEXT_PUSH" \/ (e = "WAKEUP" /\ ~ignoreWake)
        /\ ignoreWake' = FALSE
        /\ Wake
        /\ UNCHANGED <<mstate, configVars, scan, linked, groupVars>>
     \/ /\ e = "BOTH_HOLD"
        /\ DisplayOn
        /\ GroupingStart(avatar)
        /\ TimeToRadar
        /\ UNCHANGED <<ignoreWake, configVars, linked, known>>
     \/ /\ e = "BOTH_RELEASE"
        /\ GroupingStop(avatar)
        /\ UNCHANGED <<mstate, ignoreWake, configVars, displayVars, scan, linked, known>>
     \/ /\ e = "UNTILT60" \/ (e = "WAKEUP" /\ ignoreWake)
        /\ Ignore

(* Mutant: do_radar_to_time does not stop the scan. *)
RadarToTimeScanning == mstate' = "TIME" /\ UNCHANGED scan

(* do_state_radar; the step to TIME runs do_radar_to_time. *)
RadarToTime == mstate' = "TIME" /\ BlecenScan("NO_SCAN")

RadarEvent(e) ==
  /\ mstate = "RADAR"
  /\ \/ ShowMessage(e)
     \/ Refresh(e)
     \/ /\ e = "UNTILT60"
        /\ DisplayUpdate("RADAR")
        /\ RadarToTime
        /\ UNCHANGED <<ignoreWake, configVars, adv, linked, groupVars>>
     \/ /\ e = "SHORT_INACTIVE"
        /\ DisplayOff
        /\ RadarToTime
        /\ UNCHANGED <<ignoreWake, configVars, adv, linked, groupVars>>
     \/ /\ e = "BOTH_HOLD"
        /\ GroupingStart(avatar)
        /\ UNCHANGED <<mstate, ignoreWake, configVars, displayVars, scan, linked, known>>
     \/ /\ e = "BOTH_RELEASE"
        /\ GroupingStop(avatar)
        /\ RadarToTime
        /\ UNCHANGED <<ignoreWake, configVars, displayVars, linked, known>>
     \/ e \in {"TILT60", "WAKEUP", "NEXT_PUSH", "ACCEPT_PUSH"} /\ Ignore

(* do_state_message *)
MessageEvent(e) ==
  /\ mstate = "MESSAGE"
  /\ \/ Refresh(e)
     \/ /\ e = "ACCEPT_PUSH"
        /\ mstate' = "TIME"
        /\ UNCHANGED <<ignoreWake, configVars, displayVars, radioVars, groupVars>>
     \/ e \notin {"TICK_1S", "ACCEPT_PUSH"} /\ Ignore

(* mainfsm_process_event(e), once the boot is over. *)
MainEvent(e) == \/ IdleEvent(e)
                \/ CfgEvent(e)
                \/ TimeEvent(e)
                \/ RadarEvent(e)
                \/ MessageEvent(e)

(* Mutant: the advertising starts before the avatar is read. *)
BootDoneEarly ==
  /\ mstate = "BOOT"
  /\ mstate' = "IDLE"
  /\ \/ /\ TRUE \in ReadConfigValid(nvValid)
        /\ avatar' = ReadAvatar(nvAvatar, avatar)
        /\ StartAdverts(FALSE, avatar)
     \/ /\ FALSE \in ReadConfigValid(nvValid)
        /\ UNCHANGED <<avatar, adv>>
  /\ DisplayInit
  /\ UNCHANGED <<ignoreWake, cursor, nvVars, scan, linked, gstate>>

(***************************************************************************)
(* BOOT_DONE in BOOT: do_boot_to_idle, after display_init has lit the      *)
(* panel.  Whether the configuration is valid is decided by the same read. *)
(***************************************************************************)
BootDone ==
  /\ mstate = "BOOT"
  /\ mstate' = "IDLE"
  /\ \/ /\ TRUE \in ReadConfigValid(nvValid)
        /\ avatar' = ReadAvatar(nvAvatar, avatar)
        /\ StartAdverts(FALSE, avatar')
     \/ /\ FALSE \in ReadConfigValid(nvValid)
        /\ UNCHANGED <<avatar, adv>>
  /\ DisplayInit
  /\ UNCHANGED <<ignoreWake, cursor, nvVars, scan, linked, gstate>>
=============================================================================
