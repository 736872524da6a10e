------------------------------ MODULE Gestures ------------------------------
(***************************************************************************)
(* The accelerometer's two state machines and the handler of its two       *)
(* interrupts (gestures.c).  The chip runs the programs gestures_init      *)
(* loaded, at its own pace; the handler reads first where a program is,    *)
(* then the register that releases its interrupt, in two transfers between *)
(* which the program may move.                                             *)
(*                                                                         *)
(* Machine 1 looks for a double tilt and then for its end; machine 2 for   *)
(* short inactivity and then for motion.  What a condition or command of   *)
(* the chip means is taken from the comments beside it in gestures_init.   *)
(***************************************************************************)
EXTENDS Integers

VARIABLES yHigh,   \* the y axis is above threshold 2
          moving,  \* an axis moves by more than threshold 1
          frozen,  \* the chip has stopped sampling
          pc,      \* the address each program stands at
          held,    \* it stands on OUTW, until its OUTS register is read
          line,    \* its interrupt pin is high, until its OUTS register is read
          irq,     \* the rising edge of the pin is latched for the handler
          isr,     \* the machine whose interrupt the handler serves, or 0
          isrPc,   \* prog_counter
          raised   \* the last event the handler serialized for each machine

chipVars == <<pc, held, line, irq>>
handlerVars == <<isr, isrPc, raised>>
vars == <<yHigh, moving, frozen, chipVars, handlerVars>>

Machines == {1, 2}

(* The address after OUTW: where a program is seen while it is held there.  *)
AfterOutw == <<7, 3>>

(* Where each program goes when it moves on.  The commands between two       *)
(* conditions take no sample: 1 SELSA, 6 OUTW, 10 SELMA and 11 CONT of the   *)
(* first, 2 OUTW and 4 CONT of the second; CONT is the way back to 0.        *)
Follow == << [at \in {0, 2, 3, 4, 5, 7} |-> CASE at = 0 -> 2 [] at = 2 -> 3 [] at = 3 -> 4
                                             [] at = 4 -> 5 [] at = 5 -> 7 [] at = 7 -> 0],
             [at \in {0, 1, 3} |-> CASE at = 0 -> 1 [] at = 1 -> 3 [] at = 3 -> 0] >>

TypeOK == /\ yHigh \in BOOLEAN /\ moving \in BOOLEAN /\ frozen \in BOOLEAN
          /\ \A m \in Machines : pc[m] \in DOMAIN Follow[m]
          /\ held \in [Machines -> BOOLEAN]
          /\ line \in [Machines -> BOOLEAN]
          /\ irq \in [Machines -> BOOLEAN]
          /\ isr \in Machines \union {0}
          /\ isrPc \in 0 .. 7
          /\ raised[1] \in {"TILT60", "UNTILT60"}
          /\ raised[2] \in {"SHORT_INACTIVE", "WAKEUP"}

Init == /\ yHigh = FALSE /\ moving = FALSE /\ frozen = FALSE
        /\ pc = [m \in Machines |-> 0]
        /\ held = [m \in Machines |-> FALSE]
        /\ line = [m \in Machines |-> FALSE]
        /\ irq = [m \in Machines |-> FALSE]
        /\ isr = 0 /\ isrPc = 0
        /\ raised = <<"UNTILT60", "WAKEUP">>

(* Program m goes to an address: at OUTW it is held, and OUTW as well as the *)
(* CONT on the way back from behind it interrupts.  No more than one sample  *)
(* fits between the handler's two reads: 80 milliseconds lie between samples.*)
Go(m, to) ==
  /\ isr = m => pc[m] = isrPc
  /\ pc' = [pc EXCEPT ![m] = to]
  /\ held' = [held EXCEPT ![m] = to = AfterOutw[m]]
  /\ IF AfterOutw[m] \in {pc[m], to}
     THEN /\ line' = [line EXCEPT ![m] = TRUE]
          /\ irq' = [irq EXCEPT ![m] = irq[m] \/ ~line[m]]
     ELSE UNCHANGED <<line, irq>>
  /\ UNCHANGED <<yHigh, moving, frozen, handlerVars>>

(* The "next if" of the condition program m stands at, timers apart.  The    *)
(* first one of machine 1 wants x low as well, which only delays the start   *)
(* of a gesture; x is left out.  At 1 machine 2 waits for its timer alone.   *)
NextIf(m) ==
  \/ m = 1 /\ pc[m] \in {0, 3, 5} /\ ~yHigh
  \/ m = 1 /\ pc[m] \in {2, 4, 7} /\ yHigh
  \/ m = 2 /\ pc[m] = 0 /\ ~moving
  \/ m = 2 /\ pc[m] = 3 /\ moving

Sample(m) == ~frozen /\ ~held[m] /\ NextIf(m) /\ Go(m, Follow[m][pc[m]])

(* "reset if": timer 4 ran out during the double tilt, motion before the end *)
(* of timer 2.                                                               *)
Reset(m) ==
  /\ ~frozen
  /\ \/ m = 1 /\ pc[m] \in {3, 4, 5}
     \/ m = 2 /\ pc[m] = 1 /\ moving
  /\ Go(m, 0)

(* The 60 seconds of timer 2 are over: the radar's end, short inactivity.   *)
(* No interrupt of the machine waits that long for its handler.             *)
Timer2(m) ==
  /\ ~frozen /\ ~held[m]
  /\ ~irq[m] /\ isr # m
  /\ \/ m = 1 /\ pc[m] = 7
     \/ m = 2 /\ pc[m] = 1 /\ ~moving
  /\ Go(m, Follow[m][pc[m]])

(* accel_int1_handler, accel_int2_handler: the first read. *)
ReadProgramCounter(m) ==
  /\ isr = 0 /\ irq[m]
  /\ irq' = [irq EXCEPT ![m] = FALSE]
  /\ isr' = m /\ isrPc' = pc[m]
  /\ UNCHANGED <<yHigh, moving, frozen, pc, held, line, raised>>

(* Mutant: the address of OUTW itself is expected. *)
EventAtOutw(m) ==
  IF isrPc = AfterOutw[m] - 1
  THEN <<"TILT60", "SHORT_INACTIVE">>[m]
  ELSE <<"UNTILT60", "WAKEUP">>[m]

(* Mutant: the handlers of the two pins are exchanged. *)
EventOfOther(m) ==
  IF isrPc = AfterOutw[m]
  THEN <<"SHORT_INACTIVE", "TILT60">>[m]
  ELSE <<"WAKEUP", "UNTILT60">>[m]

(* Which event the handler serializes. *)
Event(m) ==
  IF isrPc = AfterOutw[m]
  THEN <<"TILT60", "SHORT_INACTIVE">>[m]
  ELSE <<"UNTILT60", "WAKEUP">>[m]

(* Mutant: only an OUTW is thought to need the read of OUTS. *)
ReadOutsWhenHeld(m) ==
  /\ isr = m
  /\ IF isrPc = AfterOutw[m]
     THEN /\ line' = [line EXCEPT ![m] = FALSE]
          /\ held' = [held EXCEPT ![m] = FALSE]
     ELSE UNCHANGED <<line, held>>
  /\ raised' = [raised EXCEPT ![m] = Event(m)]
  /\ isr' = 0 /\ isrPc' = 0
  /\ UNCHANGED <<yHigh, moving, frozen, pc, irq>>

(* The second read, which releases the pin and a held program, and the event. *)
ReadOuts(m) ==
  /\ isr = m
  /\ line' = [line EXCEPT ![m] = FALSE]
  /\ held' = [held EXCEPT ![m] = FALSE]
  /\ raised' = [raised EXCEPT ![m] = Event(m)]
  /\ isr' = 0 /\ isrPc' = 0
  /\ UNCHANGED <<yHigh, moving, frozen, pc, irq>>

(* "After some time the accelerometer will stop sampling for no apparent reason" *)
Freeze == /\ ~frozen /\ frozen' = TRUE
          /\ UNCHANGED <<yHigh, moving, chipVars, handlerVars>>

(* Mutant: the measuring block is not switched on again. *)
AccelOff == isr = 0 /\ UNCHANGED vars

(* accel_debug_interrupts, every second: the measuring block is power-cycled. *)
AccelOffOn == /\ isr = 0 /\ frozen
              /\ frozen' = FALSE
              /\ UNCHANGED <<yHigh, moving, chipVars, handlerVars>>

(* The wearer. *)
Wrist == /\ yHigh' \in BOOLEAN /\ moving' \in BOOLEAN
         /\ UNCHANGED <<frozen, chipVars, handlerVars>>

Next == \/ \E m \in Machines : \/ Sample(m)
                               \/ Reset(m)
                               \/ Timer2(m)
                               \/ ReadProgramCounter(m)
                               \/ ReadOuts(m)
        \/ Freeze
        \/ AccelOffOn
        \/ Wrist

(***************************************************************************)
(* Interrupts are served and the timer of the application fires.  The chip *)
(* may freeze again and again, but works for a while in between.           *)
(***************************************************************************)
Fairness == /\ \A m \in Machines : /\ SF_vars(Sample(m))
                                   /\ SF_vars(Timer2(m))
                                   /\ SF_vars(ReadProgramCounter(m))
                                   /\ WF_vars(ReadOuts(m))
            /\ WF_vars(AccelOffOn)

Spec == Init /\ [][Next]_vars /\ Fairness
-----------------------------------------------------------------------------
(* A pin that is high is going to be released: its edge waits for the        *)
(* handler or the handler is at it.  Else no edge would ever come again, and *)
(* a program held on OUTW would stand there forever.                         *)
HighLineIsServed ==
  \A m \in Machines : /\ held[m] => line[m]
                      /\ line[m] => irq[m] \/ isr = m

(* A wrist that has come to rest leaves the radar for good, whatever events  *)
(* were missed while it moved and however often the chip froze.              *)
RestingWristLeavesRadar == <>[]~yHigh => <>[](raised[1] = "UNTILT60")

(* A watch put down reports short inactivity and stays inactive; one that    *)
(* moves on and on is awake.                                                 *)
RestAndMotionReported ==
  /\ <>[]~moving => <>[](raised[2] = "SHORT_INACTIVE")
  /\ <>[]moving => <>[](raised[2] = "WAKEUP")

(* "prog_counter on OUTW command will be the address of OUTW + 1"            *)
(* (gestures.c:178): the program held on OUTW is released as a tilt.         *)
TiltsReported == [][held[1] /\ ~held'[1] => raised'[1] = "TILT60"]_vars
=============================================================================
