------------------------------ MODULE Adverts -------------------------------
(***************************************************************************)
(* The bytes of an advertisement (adverts.c): fields one after the other,  *)
(* each with a length byte that counts the rest of it.  A field is its     *)
(* length, its type, and, where it is service data of this watch's UUID,   *)
(* what it says; the other bytes of a field nobody reads.                  *)
(***************************************************************************)
EXTENDS Integers, SequencesExt

AdvLenMax == 31   \* room in an advertisement (bleprofile.h)

Nothing == [grouping |-> FALSE, face |-> "NONE"]

(* sizeof(struct muchi_service_data): the UUID, groupid, state, msgid, msg, avatar *)
ServiceDataSize == 16 + 4 + 1 + 2 + 2 + 1

(* LE_GENERAL_DISCOVERABLE | BR_EDR_NOT_SUPPORTED, in front of everything *)
FlagsField == [len |-> 1 + 1, val |-> "FLAGS", ours |-> FALSE, says |-> Nothing]

ServiceField(grouping, face) ==
  [len |-> ServiceDataSize + 1, val |-> "SERVICE_DATA_UUID128", ours |-> TRUE,
   says |-> [grouping |-> grouping, face |-> face]]

(* Service data of the same size and with the same bytes, of another UUID. *)
ForeignField(grouping, face) == [ServiceField(grouping, face) EXCEPT !.ours = FALSE]

(* Mutant: the service data counts its own length byte as well. *)
LayoutLong(grouping, face) ==
  <<FlagsField, [ServiceField(grouping, face) EXCEPT !.len = @ + 1]>>

(* grpr_start_adverts: the two fields given to bleprofile_GenerateADVData. *)
Layout(grouping, face) == <<FlagsField, ServiceField(grouping, face)>>

(* Bytes in front of the i-th field, and in the whole advertisement. *)
Offset(packet, i) ==
  LET bytes[k \in 0 .. Len(packet)] == IF k = 0 THEN 0 ELSE bytes[k - 1] + packet[k].len + 1
  IN  bytes[i - 1]
DataLen(packet) == Offset(packet, Len(packet) + 1)

Starts(packet) == {Offset(packet, i) : i \in DOMAIN packet}

FieldAt(packet, at) == packet[CHOOSE i \in DOMAIN packet : Offset(packet, i) = at]

(* Mutant: the UUID is not compared. *)
IsAnyServiceData(field) == /\ field.len = ServiceDataSize + 1
                           /\ field.val = "SERVICE_DATA_UUID128"

(* The three conditions on a field, the last one a memcmp of the UUID. *)
IsServiceData(field) == /\ field.len = ServiceDataSize + 1
                        /\ field.val = "SERVICE_DATA_UUID128"
                        /\ field.ours

(***************************************************************************)
(* grpr_process_adverts: ptr walks from field to field until the service   *)
(* data is found or the end is passed.  What it makes of the packet.       *)
(***************************************************************************)
Process(packet) ==
  LET walk[ptr \in Starts(packet)] ==
        LET field == FieldAt(packet, ptr)
            next  == ptr + field.len + 1
        IN  IF IsServiceData(field) THEN field.says
            ELSE IF next >= DataLen(packet) THEN Nothing
            ELSE walk[next]
  IN  walk[0]
=============================================================================
