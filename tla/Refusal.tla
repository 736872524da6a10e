------------------------------ MODULE Refusal -------------------------------
(***************************************************************************)
(* Watch with a history of what the user asked for on the page TIME:       *)
(* ACCEPT darkens the panel and refuses the wake-ups to come, NEXT accepts *)
(* them again.  The history is kept from the handlers that run and the     *)
(* page they run on alone; the code keeps ignore_wake, a static of         *)
(* do_state_time that must outlive every radar, message and session.       *)
(***************************************************************************)
EXTENDS Watch

VARIABLE refused   \* the user's last word in TIME was ACCEPT, not NEXT

(* A button's handler runs in TIME and raises e; only that takes a latched   *)
(* interrupt away, unless all go with the power.                             *)
Pushed(e) ==
  mstate = "TIME" /\ \E b \in irq : irq' = irq \ {b} /\ ButtonEvent(b) = e

(* A reset forgets. *)
Remember == refused' = /\ mstate' # "BOOT"
                       /\ ~Pushed("NEXT_PUSH")
                       /\ refused \/ Pushed("ACCEPT_PUSH")

RefusalInit == Init /\ refused = FALSE
RefusalNext == Next /\ Remember
RefusalSpec == RefusalInit /\ [][RefusalNext]_<<vars, refused>> /\ Fairness
-----------------------------------------------------------------------------
WakeUp == evq # << >> /\ Head(evq) = "WAKEUP" /\ SerializedCallback

UserDecides ==
  /\ ~lit /\ lit' => \/ \E b \in Buttons : ButtonHandler(b)
                     \/ WakeUp /\ ~refused
                     \/ PowerLoss
  /\ mstate = "TIME" /\ ~refused /\ WakeUp => lit'

(* Only the user lights a dark panel: the handler of a button, or a wake-up  *)
(* he has not refused with ACCEPT.  A message, a tick, a tilt or a radio     *)
(* event does not, and no excursion to RADAR or MESSAGE lets a refused       *)
(* wake-up through, or keeps refusing after NEXT.  (A reset lights it for    *)
(* the boot.)                                                                *)
OnlyUserLightsPanel == [][UserDecides]_<<vars, refused>>
=============================================================================
