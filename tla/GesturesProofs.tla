--------------------------- MODULE GesturesProofs ---------------------------
(***************************************************************************)
(* The handler of the accelerometer never leaves a pin high with nothing   *)
(* to lower it.                                                            *)
(***************************************************************************)
EXTENDS Gestures, TLAPS

LinesTyped == /\ held \in [Machines -> BOOLEAN]
              /\ line \in [Machines -> BOOLEAN]
              /\ irq \in [Machines -> BOOLEAN]

LineInv == LinesTyped /\ HighLineIsServed

LEMMA LineInvInit == Init => LineInv
  BY DEF Init, LineInv, LinesTyped, HighLineIsServed, Machines

(* A program that moves on raises its pin, and latches the edge if there is  *)
(* one: if the pin was high already, an earlier edge is being served.        *)
LEMMA GoStep == ASSUME NEW m \in Machines, NEW to, LineInv, Go(m, to) PROVE LineInv'
<1>1. LinesTyped'
  <2>1. held' \in [Machines -> BOOLEAN] BY DEF Go, LineInv, LinesTyped
  <2>2. line' \in [Machines -> BOOLEAN] BY DEF Go, LineInv, LinesTyped
  <2>3. irq' \in [Machines -> BOOLEAN] BY DEF Go, LineInv, LinesTyped
  <2> QED BY <2>1, <2>2, <2>3 DEF LinesTyped
<1>2. HighLineIsServed'
  <2> SUFFICES ASSUME NEW n \in Machines
               PROVE  (held[n] => line[n])' /\ (line[n] => irq[n] \/ isr = n)'
    BY DEF HighLineIsServed
  <2>1. CASE n # m
    BY <2>1 DEF Go, LineInv, LinesTyped, HighLineIsServed, handlerVars
  <2>2. CASE n = m
    <3>1. held'[m] <=> to = AfterOutw[m]
      BY DEF Go, LineInv, LinesTyped
    <3>2. CASE AfterOutw[m] \in {pc[m], to}
      BY <2>2, <3>2 DEF Go, LineInv, LinesTyped, HighLineIsServed, handlerVars
    <3>3. CASE AfterOutw[m] \notin {pc[m], to}
      BY <2>2, <3>1, <3>3 DEF Go, LineInv, LinesTyped, HighLineIsServed, handlerVars
    <3> QED BY <3>2, <3>3
  <2> QED BY <2>1, <2>2
<1> QED BY <1>1, <1>2 DEF LineInv

LEMMA LineInvStep == LineInv /\ [Next]_vars => LineInv'
<1> SUFFICES ASSUME LineInv, [Next]_vars PROVE LineInv'
  OBVIOUS
<1>1. ASSUME NEW m \in Machines, Sample(m) \/ Reset(m) \/ Timer2(m) PROVE LineInv'
  BY <1>1, GoStep DEF Sample, Reset, Timer2
<1>2. ASSUME NEW m \in Machines, ReadProgramCounter(m) PROVE LineInv'
  BY <1>2 DEF ReadProgramCounter, LineInv, LinesTyped, HighLineIsServed, Machines
<1>3. ASSUME NEW m \in Machines, ReadOuts(m) PROVE LineInv'
  BY <1>3 DEF ReadOuts, LineInv, LinesTyped, HighLineIsServed, Machines
<1>4. CASE Freeze \/ AccelOffOn \/ Wrist \/ UNCHANGED vars
  BY <1>4
  DEF Freeze, AccelOffOn, Wrist, vars, chipVars, handlerVars, LineInv, LinesTyped, HighLineIsServed
<1> QED BY <1>1, <1>2, <1>3, <1>4 DEF Next

(* A high pin always has its edge latched or the handler reading: no         *)
(* interleaving of the programs with the two reads loses the last edge, on   *)
(* which every later gesture depends.                                        *)
THEOREM LinesServed == Spec => []HighLineIsServed
<1>1. LineInv => HighLineIsServed BY DEF LineInv
<1> QED BY <1>1, LineInvInit, LineInvStep, PTL DEF Spec

-----------------------------------------------------------------------------
(* The addresses at which the programs stand between two commands. *)
Stands(m) == IF m = 1 THEN {0, 2, 3, 4, 5, 7} ELSE {0, 1, 3}

LEMMA FollowStands ==
  \A m \in Machines : /\ DOMAIN Follow[m] = Stands(m)
                     /\ \A at \in Stands(m) : Follow[m][at] \in Stands(m)
  BY SMT DEF Follow, Stands, Machines

ProgramTyped == /\ pc \in [Machines -> 0 .. 7]
                /\ \A m \in Machines : pc[m] \in Stands(m)

LEMMA TypeInit == Init => TypeOK /\ ProgramTyped
<1> SUFFICES ASSUME Init PROVE TypeOK /\ ProgramTyped
  OBVIOUS
<1>1. yHigh \in BOOLEAN /\ moving \in BOOLEAN /\ frozen \in BOOLEAN
  BY Zenon DEF Init
<1>2. held \in [Machines -> BOOLEAN] /\ line \in [Machines -> BOOLEAN] /\ irq \in [Machines -> BOOLEAN]
  BY Zenon DEF Init
<1>3. ProgramTyped /\ isr \in Machines \union {0} /\ isrPc \in 0 .. 7
  BY DEF Init, ProgramTyped, Machines, Stands
<1>4. \A m \in Machines : pc[m] \in DOMAIN Follow[m]
  BY <1>3, FollowStands DEF ProgramTyped
<1>5. raised[1] \in {"TILT60", "UNTILT60"} /\ raised[2] \in {"SHORT_INACTIVE", "WAKEUP"}
  BY DEF Init
<1> QED BY <1>1, <1>2, <1>3, <1>4, <1>5 DEF TypeOK

LEMMA TypeStep == TypeOK /\ ProgramTyped /\ [Next]_vars => TypeOK' /\ ProgramTyped'
<1> SUFFICES ASSUME TypeOK, ProgramTyped, [Next]_vars PROVE TypeOK' /\ ProgramTyped'
  OBVIOUS
<1>1. ASSUME NEW m \in Machines, NEW to \in Stands(m), Go(m, to) PROVE TypeOK' /\ ProgramTyped'
  <2>1. ProgramTyped'
    <3>1. to \in 0 .. 7 BY DEF Stands
    <3> QED BY <1>1, <3>1 DEF Go, ProgramTyped
  <2>2. \A n \in Machines : pc'[n] \in DOMAIN Follow[n]
    BY <2>1, FollowStands DEF ProgramTyped
  <2>3. held' \in [Machines -> BOOLEAN] BY <1>1 DEF Go, TypeOK
  <2>4. line' \in [Machines -> BOOLEAN] BY <1>1 DEF Go, TypeOK
  <2>5. irq' \in [Machines -> BOOLEAN] BY <1>1 DEF Go, TypeOK
  <2>6. UNCHANGED <<yHigh, moving, frozen, isr, isrPc, raised>>
    BY <1>1 DEF Go, handlerVars
  <2> QED BY <2>1, <2>2, <2>3, <2>4, <2>5, <2>6 DEF TypeOK
<1>2. ASSUME NEW m \in Machines, Sample(m) \/ Reset(m) \/ Timer2(m) PROVE TypeOK' /\ ProgramTyped'
  <2>1. Follow[m][pc[m]] \in Stands(m) /\ 0 \in Stands(m)
    BY FollowStands DEF ProgramTyped, Stands
  <2> QED BY <1>1, <1>2, <2>1 DEF Sample, Reset, Timer2
<1>3. ASSUME NEW m \in Machines, ReadProgramCounter(m) PROVE TypeOK' /\ ProgramTyped'
  <2>1. pc[m] \in 0 .. 7 BY <1>3 DEF ProgramTyped, Stands
  <2> QED BY <1>3, <2>1 DEF ReadProgramCounter, TypeOK, ProgramTyped
<1>4. ASSUME NEW m \in Machines, ReadOuts(m) PROVE TypeOK' /\ ProgramTyped'
  BY <1>4 DEF ReadOuts, Event, TypeOK, ProgramTyped, Machines
<1>5. CASE Freeze \/ AccelOffOn \/ Wrist \/ UNCHANGED vars
  BY <1>5 DEF Freeze, AccelOffOn, Wrist, vars, chipVars, handlerVars, TypeOK, ProgramTyped
<1> QED BY <1>2, <1>3, <1>4, <1>5 DEF Next

(* A program is never sent to an address that is no condition of it, and a   *)
(* pin raises the two events of its own program only.                        *)
THEOREM GesturesTypes == Spec => []TypeOK
  BY TypeInit, TypeStep, PTL DEF Spec
-----------------------------------------------------------------------------
LEMMA WayToOutw ==
  \A m \in Machines : \A at \in Stands(m) :
    Follow[m][at] = AfterOutw[m] => at = IF m = 1 THEN 5 ELSE 1
  BY SMT DEF Follow, Stands, Machines, AfterOutw

(* What the handler of machine m may have read while its program is held on  *)
(* OUTW: that it stands there or, of the first machine, that it stood at the *)
(* last condition of the double tilt.  The second machine comes to its OUTW  *)
(* after 60 seconds only, and no handler takes that long.                    *)
MayHaveRead(m) == isrPc = AfterOutw[m] \/ (m = 1 /\ isrPc = 5)

HeldOnOutw ==
  /\ \A m \in Machines : held[m] => /\ pc[m] = AfterOutw[m]
                                    /\ isr = m => MayHaveRead(m)
  /\ DOMAIN raised = Machines

LEMMA HeldInit == Init => HeldOnOutw
  BY DEF Init, HeldOnOutw, Machines

LEMMA HeldStep == TypeOK /\ ProgramTyped /\ HeldOnOutw /\ [Next]_vars => HeldOnOutw'
<1> SUFFICES ASSUME TypeOK, ProgramTyped, HeldOnOutw, [Next]_vars PROVE HeldOnOutw'
  OBVIOUS
<1>1. ASSUME NEW m \in Machines, NEW to, Go(m, to), to = 0 \/ to = Follow[m][pc[m]],
             m = 2 /\ pc[m] = 1 /\ to # 0 => isr # m
      PROVE  HeldOnOutw'
  <2>1. pc' = [pc EXCEPT ![m] = to] /\ UNCHANGED <<isr, isrPc>>
    BY <1>1 DEF Go, handlerVars
  <2>2. held' = [held EXCEPT ![m] = (to = AfterOutw[m])]
    BY <1>1 DEF Go
  <2>9. DOMAIN raised' = Machines
    BY <1>1 DEF Go, handlerVars, HeldOnOutw
  <2> SUFFICES ASSUME NEW n \in Machines, held'[n]
               PROVE  /\ pc'[n] = AfterOutw[n]
                      /\ isr' = n => MayHaveRead(n)'
    BY <2>9 DEF HeldOnOutw
  <2>3. CASE n # m
    BY <2>1, <2>2, <2>3 DEF HeldOnOutw, MayHaveRead, ProgramTyped, TypeOK
  <2>4. CASE n = m
    <3>1. to = AfterOutw[m]
      BY <2>2, <2>4 DEF TypeOK
    <3>2. to = Follow[m][pc[m]] /\ to # 0 /\ pc[m] = (IF m = 1 THEN 5 ELSE 1)
      BY <1>1, <3>1, WayToOutw DEF AfterOutw, ProgramTyped, Machines
    <3>3. isr = m => m = 1 /\ isrPc = 5
      BY <1>1, <3>2 DEF Go, Machines
    <3> QED BY <2>1, <2>4, <3>1, <3>3 DEF ProgramTyped, MayHaveRead
  <2> QED BY <2>3, <2>4
<1>2. ASSUME NEW m \in Machines, Sample(m) \/ Reset(m) \/ Timer2(m) PROVE HeldOnOutw'
  <2>1. CASE Sample(m)
    <3>1. ~(m = 2 /\ pc[m] = 1)
      BY <2>1 DEF Sample, NextIf
    <3> QED BY <1>1, <2>1, <3>1 DEF Sample
  <2>2. CASE Reset(m)
    BY <1>1, <2>2 DEF Reset
  <2>3. CASE Timer2(m)
    BY <1>1, <2>3 DEF Timer2
  <2> QED BY <1>2, <2>1, <2>2, <2>3
<1>3. ASSUME NEW m \in Machines, ReadProgramCounter(m) PROVE HeldOnOutw'
  BY <1>3 DEF ReadProgramCounter, HeldOnOutw, MayHaveRead
<1>4. ASSUME NEW m \in Machines, ReadOuts(m) PROVE HeldOnOutw'
  BY <1>4 DEF ReadOuts, HeldOnOutw, MayHaveRead, TypeOK, Machines
<1>5. CASE Freeze \/ AccelOffOn \/ Wrist \/ UNCHANGED vars
  BY <1>5 DEF Freeze, AccelOffOn, Wrist, vars, chipVars, handlerVars, HeldOnOutw, MayHaveRead
<1> QED BY <1>2, <1>3, <1>4, <1>5 DEF Next

ReleasedAs(m) ==
  held[m] /\ ~held'[m] =>
    \/ raised'[m] = <<"TILT60", "SHORT_INACTIVE">>[m]
    \/ m = 1 /\ isr = 1 /\ isrPc = 5
HeldIsReported == [][\A m \in Machines : ReleasedAs(m)]_vars

(* How far TiltsReported fails: a program held on OUTW is released as the    *)
(* tilt or the inactivity it stands for, except for a tilt whose last sample *)
(* comes between the two reads of a handler that serves an earlier interrupt *)
(* of the same program.                                                      *)
THEOREM ReportedUnlessEarly == Spec => HeldIsReported
<1>1. TypeOK /\ ProgramTyped /\ HeldOnOutw /\ [Next]_vars
        => [\A m \in Machines : ReleasedAs(m)]_vars
  <2> SUFFICES ASSUME TypeOK, ProgramTyped, HeldOnOutw, Next,
                      NEW m \in Machines, held[m], ~held'[m]
               PROVE  \/ raised'[m] = <<"TILT60", "SHORT_INACTIVE">>[m]
                      \/ m = 1 /\ isr = 1 /\ isrPc = 5
    BY DEF ReleasedAs
  <2>1. ASSUME NEW n \in Machines, Sample(n) \/ Reset(n) \/ Timer2(n) PROVE FALSE
    <3>1. n = m
      BY <2>1 DEF Sample, Reset, Timer2, Go, TypeOK
    <3>2. Reset(m) /\ pc[m] = AfterOutw[m]
      BY <2>1, <3>1 DEF Sample, Timer2, HeldOnOutw
    <3> QED BY <3>2 DEF Reset, AfterOutw, Machines
  <2>2. ASSUME NEW n \in Machines, ReadOuts(n)
        PROVE  \/ raised'[m] = <<"TILT60", "SHORT_INACTIVE">>[m]
               \/ m = 1 /\ isr = 1 /\ isrPc = 5
    <3>1. n = m
      BY <2>2 DEF ReadOuts, TypeOK
    <3>2. isr = m /\ MayHaveRead(m)
      BY <2>2, <3>1 DEF ReadOuts, HeldOnOutw
    <3>3. CASE isrPc = AfterOutw[m]
      <4>1. Event(m) = <<"TILT60", "SHORT_INACTIVE">>[m]
        BY <3>3 DEF Event
      <4>2. raised' = [raised EXCEPT ![m] = Event(m)]
        BY <2>2, <3>1 DEF ReadOuts
      <4> QED BY <4>1, <4>2 DEF HeldOnOutw
    <3> QED BY <3>2, <3>3 DEF MayHaveRead
  <2>3. CASE \E n \in Machines : ReadProgramCounter(n)
    BY <2>3 DEF ReadProgramCounter
  <2>4. CASE Freeze \/ AccelOffOn \/ Wrist
    BY <2>4 DEF Freeze, AccelOffOn, Wrist, chipVars
  <2> QED BY <2>1, <2>2, <2>3, <2>4 DEF Next
<1>2. HeldIsReported <=> [][\A m \in Machines : ReleasedAs(m)]_vars
  BY DEF HeldIsReported
<1> QED BY <1>1, <1>2, TypeInit, TypeStep, HeldInit, HeldStep, PTL DEF Spec
=============================================================================
