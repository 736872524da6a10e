---------------------------- MODULE AdvertsProofs ----------------------------
(***************************************************************************)
(* The walk of grpr_process_adverts over a packet of any number of fields  *)
(* of any lengths, and what MCPairing asks of advertisements.              *)
(*                                                                         *)
(* Offset and Process are recursive functions, for tlapm a CHOOSE of a     *)
(* solution.  So there is a solution to be shown, and that every solution  *)
(* has the value claimed: both by looking at the least number without the  *)
(* property in question.                                                   *)
(***************************************************************************)
EXTENDS MCPairing, WellFoundedInduction, TLAPS

(* Every set of numbers has a least one. *)
LEMMA LeastNumber ==
  ASSUME NEW T, T \subseteq Nat, T # {}
  PROVE  \E m \in T : \A k \in T : m <= k
<1> DEFINE R == {ss \in Nat \X Nat : ss[1] < ss[2]}
<1>1. IsWellFoundedOn(R, Nat)
  BY NatLessThanWellFounded, Zenon DEF OpToRel
<1>2. PICK m \in T : \A k \in T : ~(<<k, m>> \in R)
  <2> HIDE DEF R
  <2> QED BY <1>1, WFMin
<1>3. \A k \in T : m <= k
  <2> SUFFICES ASSUME NEW k \in T PROVE m <= k
    OBVIOUS
  <2>1. ~(<<k, m>> \in R) /\ k \in Nat /\ m \in Nat
    BY <1>2
  <2> QED BY <2>1
<1> QED BY <1>3

(* A packet of n fields. *)
IsPacket(packet, n) == /\ n \in Nat \ {0}
                       /\ Len(packet) = n /\ DOMAIN packet = 1 .. n
                       /\ \A i \in 1 .. n : packet[i].len \in Nat

(* The recursion of Offset has a solution. *)
LEMMA OffsetDefined ==
  ASSUME NEW packet, NEW n, IsPacket(packet, n)
  PROVE  \E f : f = [k \in 0 .. n |-> IF k = 0 THEN 0 ELSE f[k - 1] + packet[k].len + 1]
<1> DEFINE Solves(f, m) == f = [k \in 0 .. m |-> IF k = 0 THEN 0 ELSE f[k - 1] + packet[k].len + 1]
           T == {m \in 0 .. n : ~ \E f : Solves(f, m)}
<1>1. n \in Nat
  BY DEF IsPacket
<1>2. SUFFICES ASSUME T # {} PROVE FALSE
  <2> HIDE DEF Solves
  <2>1. n \notin T => \E f : Solves(f, n)
    BY <1>1
  <2> QED BY <2>1 DEF Solves
<1>3. PICK m \in T : \A k \in T : m <= k
  <2>1. T \subseteq Nat
    OBVIOUS
  <2> HIDE DEF T
  <2> QED BY <1>2, <2>1, LeastNumber
<1>4. m \in 0 .. n /\ ~ \E f : Solves(f, m)
  <2> HIDE DEF Solves
  <2> QED OBVIOUS
<1>5. CASE m = 0
  <2> DEFINE f == [k \in 0 .. 0 |-> 0]
  <2>1. Solves(f, 0)
    OBVIOUS
  <2> HIDE DEF f, Solves
  <2> QED BY <1>4, <1>5, <2>1
<1>6. CASE m # 0
  <2>1. m - 1 \in 0 .. n /\ m - 1 \notin T
    <3> HIDE DEF T
    <3> QED BY <1>1, <1>3, <1>4, <1>6
  <2>2. PICK f : Solves(f, m - 1)
    <3> HIDE DEF Solves
    <3> QED BY <2>1
  <2> DEFINE g == [k \in 0 .. m |-> IF k = m THEN f[m - 1] + packet[m].len + 1 ELSE f[k]]
  <2>3. ASSUME NEW k \in 0 .. m
        PROVE  g[k] = IF k = 0 THEN 0 ELSE g[k - 1] + packet[k].len + 1
    BY <1>4, <1>6, <2>2
  <2>4. Solves(g, m)
    <3>1. g = [k \in 0 .. m |-> g[k]]
      OBVIOUS
    <3> HIDE DEF g
    <3> QED BY <2>3, <3>1
  <2> HIDE DEF g, Solves
  <2> QED BY <1>4, <2>4
<1> QED BY <1>5, <1>6

(* ... and Offset is a solution. *)
LEMMA OffsetSteps ==
  ASSUME NEW packet, NEW n, IsPacket(packet, n)
  PROVE  /\ Offset(packet, 1) = 0
         /\ \A i \in 1 .. n : Offset(packet, i + 1) = Offset(packet, i) + packet[i].len + 1
<1> DEFINE Solves(f) == f = [k \in 0 .. n |-> IF k = 0 THEN 0 ELSE f[k - 1] + packet[k].len + 1]
           bytes == CHOOSE f : Solves(f)
<1>1. Solves(bytes)
  <2>1. \E f : Solves(f)
    BY OffsetDefined
  <2> HIDE DEF Solves
  <2> QED BY <2>1
<1>2. \A i : Offset(packet, i) = bytes[i - 1]
  BY Zenon DEF Offset, IsPacket
<1> HIDE DEF bytes
<1>3. bytes[0] = 0 /\ \A i \in 1 .. n : bytes[i] = bytes[i - 1] + packet[i].len + 1
  BY <1>1 DEF IsPacket
<1>4. Offset(packet, 1) = bytes[0] /\ \A i \in 1 .. n : Offset(packet, i + 1) = bytes[i]
  BY <1>2 DEF IsPacket
<1> QED BY <1>2, <1>3, <1>4

(* The fields begin one after the other. *)
LEMMA OffsetsGrow ==
  ASSUME NEW packet, NEW n, IsPacket(packet, n)
  PROVE  /\ \A i \in 1 .. n + 1 : Offset(packet, i) \in Nat
         /\ \A i, j \in 1 .. n + 1 : i < j => Offset(packet, i) < Offset(packet, j)
<1> DEFINE off(i) == Offset(packet, i)
<1>1. /\ n \in Nat /\ off(1) = 0
      /\ \A i \in 1 .. n : off(i + 1) = off(i) + packet[i].len + 1 /\ packet[i].len \in Nat
  BY OffsetSteps DEF IsPacket
<1> HIDE DEF off
<1>2. \A i \in 1 .. n + 1 : off(i) \in Nat
  <2> DEFINE T == {i \in 1 .. n + 1 : off(i) \notin Nat}
  <2>1. SUFFICES ASSUME T # {} PROVE FALSE
    OBVIOUS
  <2>2. PICK m \in T : \A k \in T : m <= k
    <3>1. T \subseteq Nat
      BY <1>1
    <3> HIDE DEF T
    <3> QED BY <2>1, <3>1, LeastNumber
  <2>3. m # 1 /\ m - 1 \in 1 .. n /\ m - 1 \notin T
    BY <1>1, <2>2
  <2>4. /\ off(m - 1) \in Nat /\ packet[m - 1].len \in Nat
        /\ off((m - 1) + 1) = off(m - 1) + packet[m - 1].len + 1
    BY <1>1, <2>3
  <2>5. (m - 1) + 1 = m
    BY <1>1
  <2> QED BY <2>4, <2>5
<1>3. ASSUME NEW i \in 1 .. n + 1, NEW j \in 1 .. n + 1, i < j PROVE off(i) < off(j)
  <2> DEFINE T == {k \in 1 .. n + 1 : i < k /\ ~(off(i) < off(k))}
  <2>1. SUFFICES ASSUME T # {} PROVE FALSE
    BY <1>3
  <2>2. PICK m \in T : \A k \in T : m <= k
    <3>1. T \subseteq Nat
      BY <1>1
    <3> HIDE DEF T
    <3> QED BY <2>1, <3>1, LeastNumber
  <2>3. m - 1 \in 1 .. n /\ m - 1 \notin T /\ i <= m - 1 /\ (m - 1) + 1 = m
    BY <1>1, <2>2
  <2>4. off(m) = off(m - 1) + packet[m - 1].len + 1 /\ packet[m - 1].len \in Nat
    BY <1>1, <2>3
  <2>5. off(i) \in Nat /\ off(m - 1) \in Nat /\ (i = m - 1 \/ off(i) < off(m - 1))
    BY <1>1, <1>2, <2>3
  <2> QED BY <2>2, <2>4, <2>5
<1> QED BY <1>2, <1>3 DEF off

(* The walk finds each field where it begins, and knows the last one. *)
LEMMA FieldsFound ==
  ASSUME NEW packet, NEW n, IsPacket(packet, n), NEW i \in 1 .. n
  PROVE  /\ FieldAt(packet, Offset(packet, i)) = packet[i]
         /\ Offset(packet, i) + packet[i].len + 1 >= DataLen(packet) <=> i = n
<1>1. n \in Nat /\ DOMAIN packet = 1 .. n /\ Len(packet) = n /\ packet[i].len \in Nat
  BY DEF IsPacket
<1>2. \A j \in 1 .. n : Offset(packet, j) = Offset(packet, i) => j = i
  <2>1. \A j \in 1 .. n : Offset(packet, j) \in Nat
    BY <1>1, OffsetsGrow
  <2>2. \A j, k \in 1 .. n : j < k => Offset(packet, j) < Offset(packet, k)
    BY <1>1, OffsetsGrow
  <2> QED BY <1>1, <2>1, <2>2
<1>3. FieldAt(packet, Offset(packet, i)) = packet[i]
  BY <1>1, <1>2, Zenon DEF FieldAt
<1>4. Offset(packet, i) + packet[i].len + 1 >= DataLen(packet) <=> i = n
  <2>1. Offset(packet, i) + packet[i].len + 1 = Offset(packet, i + 1)
    BY OffsetSteps
  <2>2. DataLen(packet) = Offset(packet, n + 1)
    BY <1>1 DEF DataLen
  <2>3. i + 1 \in 1 .. n + 1 /\ n + 1 \in 1 .. n + 1
    BY <1>1
  <2>4. Offset(packet, i + 1) \in Nat /\ Offset(packet, n + 1) \in Nat
    BY <2>3, OffsetsGrow
  <2>5. i + 1 < n + 1 => Offset(packet, i + 1) < Offset(packet, n + 1)
    BY <2>3, OffsetsGrow
  <2> QED BY <1>1, <2>1, <2>2, <2>4, <2>5
<1> QED BY <1>3, <1>4

(* What the fields from the i-th on say. *)
SaidFrom(packet, n, i) ==
  LET own == {j \in i .. n : IsServiceData(packet[j])}
  IN  IF own = {} THEN Nothing ELSE packet[Min(own)].says

(* Field by field, as the walk does. *)
LEMMA SaidStep ==
  ASSUME NEW packet, NEW n, IsPacket(packet, n), NEW i \in 1 .. n
  PROVE  SaidFrom(packet, n, i) = IF IsServiceData(packet[i]) THEN packet[i].says
                                  ELSE IF i = n THEN Nothing ELSE SaidFrom(packet, n, i + 1)
<1> DEFINE own(k) == {j \in k .. n : IsServiceData(packet[j])}
<1>1. n \in Nat
  BY DEF IsPacket
<1>2. CASE IsServiceData(packet[i])
  <2>1. i \in own(i) /\ \A j \in own(i) : i <= j
    BY <1>1, <1>2
  <2>2. Min(own(i)) = i
    <3>1. Min(own(i)) \in own(i) /\ \A j \in own(i) : Min(own(i)) <= j
      <4> HIDE DEF own
      <4> QED BY <2>1 DEF Min
    <3>2. Min(own(i)) \in i .. n
      BY <3>1
    <3> QED BY <1>1, <2>1, <3>1, <3>2
  <2> QED BY <1>2, <2>1, <2>2 DEF SaidFrom
<1>3. CASE ~IsServiceData(packet[i])
  <2>1. own(i) = own(i + 1)
    BY <1>1, <1>3
  <2>2. i = n => own(i) = {}
    BY <1>1, <1>3
  <2> QED BY <1>3, <2>1, <2>2 DEF SaidFrom
<1> QED BY <1>2, <1>3

(* Whatever the number of fields and their lengths, grpr_process_adverts     *)
(* takes what the first field of this service's data says.                   *)
THEOREM WalkFinds ==
  ASSUME NEW packet, NEW n, IsPacket(packet, n)
  PROVE  Process(packet) = SaidFrom(packet, n, 1)
<1> DEFINE off(i) == Offset(packet, i)
           said(i) == SaidFrom(packet, n, i)
           Turn(f, ptr) == LET field == FieldAt(packet, ptr)
                               next  == ptr + field.len + 1
                           IN  IF IsServiceData(field) THEN field.says
                               ELSE IF next >= DataLen(packet) THEN Nothing
                               ELSE f[next]
           Solves(f) == f = [ptr \in Starts(packet) |-> Turn(f, ptr)]
<1>1. n \in Nat \ {0} /\ DOMAIN packet = 1 .. n
  BY DEF IsPacket
<1>2. Starts(packet) = {off(i) : i \in 1 .. n}
  BY <1>1 DEF Starts
<1>3. \A i \in 1 .. n - 1 : off(i) + packet[i].len + 1 = off(i + 1)
  BY <1>1, OffsetSteps
<1>4. \A f : \A i \in 1 .. n :
        Turn(f, off(i)) = IF IsServiceData(packet[i]) THEN packet[i].says
                          ELSE IF i = n THEN Nothing ELSE f[off(i + 1)]
  BY <1>1, <1>3, FieldsFound
<1>5. \A i \in 1 .. n : said(i) = IF IsServiceData(packet[i]) THEN packet[i].says
                                 ELSE IF i = n THEN Nothing ELSE said(i + 1)
  BY SaidStep
<1> HIDE DEF off, said, Turn
<1>6. \E f : Solves(f)
  <2> DEFINE index(ptr) == CHOOSE i \in 1 .. n : off(i) = ptr
             f == [ptr \in Starts(packet) |-> said(index(ptr))]
  <2>1. \A i \in 1 .. n : index(off(i)) = i
    <3>1. \A i, j \in 1 .. n : off(i) = off(j) => i = j
      <4>1. /\ \A i \in 1 .. n : off(i) \in Nat
            /\ \A i, j \in 1 .. n : i < j => off(i) < off(j)
        BY <1>1, OffsetsGrow DEF off
      <4> QED BY <1>1, <4>1
    <3> QED BY <3>1, Zenon
  <2>2. \A i \in 1 .. n : f[off(i)] = said(i)
    BY <1>2, <2>1
  <2>3. \A ptr \in Starts(packet) : f[ptr] = Turn(f, ptr)
    <3> SUFFICES ASSUME NEW i \in 1 .. n PROVE f[off(i)] = Turn(f, off(i))
      BY <1>2
    <3> HIDE DEF f
    <3>1. i # n => f[off(i + 1)] = said(i + 1)
      BY <1>1, <2>2
    <3> QED BY <1>4, <1>5, <2>2, <3>1
  <2>4. f = [ptr \in Starts(packet) |-> f[ptr]]
    OBVIOUS
  <2> HIDE DEF f
  <2> QED BY <2>3, <2>4
<1> DEFINE walk == CHOOSE f : Solves(f)
<1>7. Solves(walk)
  <2> HIDE DEF Solves
  <2> QED BY <1>6
<1>8. Process(packet) = walk[0]
  BY Zenon DEF Process, Turn
<1> HIDE DEF walk
<1>9. \A i \in 1 .. n : walk[off(i)] = said(i)
  <2> DEFINE T == {d \in 0 .. n - 1 : walk[off(n - d)] # said(n - d)}
  <2>1. T = {}
    <3>1. SUFFICES ASSUME T # {} PROVE FALSE
      OBVIOUS
    <3>2. PICK d \in T : \A k \in T : d <= k
      <4>1. T \subseteq Nat
        BY <1>1
      <4> HIDE DEF T
      <4> QED BY <3>1, <4>1, LeastNumber
    <3>3. n - d \in 1 .. n
      BY <1>1, <3>2
    <3>4. d # 0 => walk[off((n - d) + 1)] = said((n - d) + 1)
      <4>1. d # 0 => d - 1 \in 0 .. n - 1 /\ d - 1 \notin T /\ n - (d - 1) = (n - d) + 1
        BY <1>1, <3>2
      <4> QED BY <4>1
    <3>5. walk[off(n - d)] = Turn(walk, off(n - d))
      BY <1>2, <1>7, <3>3
    <3>6. n - d = n <=> d = 0
      BY <1>1, <3>2
    <3>7. walk[off(n - d)] = said(n - d)
      BY <1>4, <1>5, <3>3, <3>4, <3>5, <3>6
    <3> QED BY <3>2, <3>7
  <2> QED
    <3> SUFFICES ASSUME NEW i \in 1 .. n PROVE walk[off(i)] = said(i)
      OBVIOUS
    <3>1. n - i \in 0 .. n - 1 /\ n - (n - i) = i
      BY <1>1
    <3> QED BY <2>1, <3>1
<1>10. off(1) = 0
  BY OffsetSteps DEF off
<1> QED BY <1>1, <1>8, <1>9, <1>10 DEF said

-----------------------------------------------------------------------------
(* What is on the air is a packet. *)
LEMMA FieldFacts ==
  ASSUME NEW field \in Fields
  PROVE  field.len \in Nat /\ (IsOwn(field) <=> IsServiceData(field))
  BY DEF Fields, FlagsField, ServiceField, ForeignField, IsOwn, IsServiceData,
         ServiceDataSize, AdvLenMax

LEMMA PacketsArePackets ==
  ASSUME NEW packet \in Packets
  PROVE  IsPacket(packet, Len(packet)) /\ Said(packet) = SaidFrom(packet, Len(packet), 1)
<1>1. PICK n \in 0 .. 3 : packet \in [1 .. n -> Fields]
  BY DEF Packets, BoundedSeq, SeqOf
<1>2. n # 0
  BY <1>1 DEF Packets
<1>3. Len(packet) = n /\ DOMAIN packet = 1 .. n
  BY <1>1
<1>4. IsPacket(packet, n)
  BY <1>1, <1>2, <1>3, FieldFacts DEF IsPacket
<1>5. {i \in DOMAIN packet : IsOwn(packet[i])} = {i \in 1 .. n : IsServiceData(packet[i])}
  BY <1>1, <1>3, FieldFacts
<1>6. Said(packet) = SaidFrom(packet, n, 1)
  BY <1>5, Zenon DEF Said, SaidFrom
<1> QED BY <1>3, <1>4, <1>6

(* grpr_start_adverts fills the 31 bytes exactly, and grpr_process_adverts   *)
(* reads out of them what it put in.                                         *)
LEMMA LayoutUnderstood ==
  ASSUME NEW grouping, NEW face
  PROVE  /\ DataLen(Layout(grouping, face)) = AdvLenMax
         /\ Process(Layout(grouping, face)) = [grouping |-> grouping, face |-> face]
<1> DEFINE packet == Layout(grouping, face)
<1>1. /\ packet[1] = FlagsField /\ packet[2] = ServiceField(grouping, face)
      /\ Len(packet) = 2 /\ DOMAIN packet = 1 .. 2
  BY DEF Layout
<1>2. /\ FlagsField.len = 2 /\ ~IsServiceData(FlagsField)
      /\ ServiceField(grouping, face).len = 27 /\ IsServiceData(ServiceField(grouping, face))
      /\ ServiceField(grouping, face).says = [grouping |-> grouping, face |-> face]
  BY DEF FlagsField, ServiceField, IsServiceData, ServiceDataSize
<1> HIDE DEF packet
<1>3. IsPacket(packet, 2)
  BY <1>1, <1>2 DEF IsPacket
<1>4. /\ Offset(packet, 1) = 0 /\ Offset(packet, 1 + 1) = 0 + 2 + 1
      /\ Offset(packet, 2 + 1) = Offset(packet, 2) + 27 + 1
  BY <1>1, <1>2, <1>3, OffsetSteps
<1>5. DataLen(packet) = 31
  BY <1>1, <1>4 DEF DataLen
<1>6. SaidFrom(packet, 2, 1) = SaidFrom(packet, 2, 2)
  BY <1>1, <1>2, <1>3, SaidStep
<1>7. SaidFrom(packet, 2, 2) = packet[2].says
  BY <1>1, <1>2, <1>3, SaidStep
<1>8. Process(packet) = SaidFrom(packet, 2, 1)
  BY <1>3, WalkFinds
<1> QED BY <1>1, <1>2, <1>5, <1>6, <1>7, <1>8 DEF packet, AdvLenMax

(* Every advertisement of a report under way is understood, and of any other *)
(* the walk takes the service data if and only if it is there.               *)
THEOREM AdvertsUnderstood == Spec => []Understood
<1>1. Recovered
  BY PacketsArePackets, WalkFinds DEF Recovered
<1>2. Understood
  BY <1>1, LayoutUnderstood DEF Understood, AdvLenMax
<1> QED BY <1>2, PTL
=============================================================================
