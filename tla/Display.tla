------------------------------ MODULE Display -------------------------------
(***************************************************************************)
(* The display as the main state machine uses it (display.c): the panel's  *)
(* power and the picture it was last sent.  How a picture travels to the   *)
(* panel, and the EXTCOMIN line, are the subject of Panel.                 *)
(***************************************************************************)

CONSTANTS Messages,   \* contents a peer may write to HANDLE_MUCHI_MESSAGE
          NoMessage   \* the empty attribute value

ASSUME MessageAssumption ==
  NoMessage \notin Messages \union {"NONE", "MUCHI", "TIME", "RADAR", "CFG"}

VARIABLES lit,     \* __display_on, and the panel's 5V supply
          frame,   \* the picture last sent to the panel
          message  \* value of the GATT attribute HANDLE_MUCHI_MESSAGE

displayVars == <<lit, frame>>

Frames == {"NONE", "MUCHI", "TIME", "RADAR", "CFG"} \union Messages

DisplayTypeOK == /\ lit \in BOOLEAN
                 /\ frame \in Frames
                 /\ message \in Messages \union {NoMessage}

(* After a reset: the static initialiser and the attribute database. *)
DisplayReset(on, picture, attribute) ==
  on = TRUE /\ picture = "NONE" /\ attribute = NoMessage

(* Mutant: the boot ends with the panel lit. *)
DisplayInitLit == lit' = TRUE /\ frame' = "MUCHI"

(* display_init, followed by the display_off that ends the boot. *)
DisplayInit == lit' = FALSE /\ frame' = "MUCHI"

DisplayOn  == lit' = TRUE  /\ UNCHANGED frame
DisplayOff == lit' = FALSE /\ UNCHANGED frame

(***************************************************************************)
(* The picture for a state of the main state machine; display_message      *)
(* returns without drawing when the attribute is empty.                    *)
(***************************************************************************)
Picture(state) ==
  CASE state \in {"TIME", "RADAR", "CFG"}            -> state
    [] state = "MESSAGE" /\ message # NoMessage      -> message
    [] OTHER                                         -> frame

(* display_update, called while the main state machine is in state. *)
DisplayUpdate(state) ==
  /\ frame' = IF lit THEN Picture(state) ELSE frame
  /\ UNCHANGED lit
=============================================================================
