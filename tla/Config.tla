------------------------------- MODULE Config -------------------------------
(***************************************************************************)
(* The user's configuration: the avatar the watch shows and advertises     *)
(* (g_avatar, display.c), the two-position cursor that edits it            *)
(* (display_keypress), and the two NVRAM records that keep it over a power *)
(* loss (mainfsm.c, nvram.h).                                              *)
(*                                                                         *)
(* The 73 avatar codes 0x0a..0x52 are numbered from 0.                     *)
(***************************************************************************)
EXTENDS Integers

CONSTANTS AvatarCount,    \* number of avatar codes
          DefaultAvatar,  \* initial value of g_avatar
          NoAvatar        \* MUCHI_NVM_AVATAR_CODE was never written

Avatars == 0 .. AvatarCount - 1

ASSUME AvatarAssumption == /\ AvatarCount \in Nat \ {0}
                           /\ DefaultAvatar \in Avatars
                           /\ NoAvatar \notin Avatars

VARIABLES avatar,    \* g_avatar
          cursor,    \* curr_cursor
          nvAvatar,  \* the record MUCHI_NVM_AVATAR_CODE
          nvValid    \* the record MUCHI_NVM_CONFIG_IS_VALID was written

nvVars == <<nvAvatar, nvValid>>
configVars == <<avatar, cursor, nvAvatar, nvValid>>

Cursors == {"AVATAR", "OK", "NONE"}

ConfigTypeOK == /\ avatar \in Avatars
                /\ cursor \in Cursors
                /\ nvAvatar \in Avatars \union {NoAvatar}
                /\ nvValid \in BOOLEAN

(* The initial values of g_avatar and curr_cursor, here and after a reset. *)
ConfigReset(a, c) == a = DefaultAvatar /\ c = "AVATAR"

(* Mutant: the value read never depends on the record. *)
ReadConfigGarbage(written) == BOOLEAN

(***************************************************************************)
(* bleprofile_ReadNVRAM of a record that was never written leaves the      *)
(* caller's uninitialised config_valid as it was: any value.               *)
(***************************************************************************)
ReadConfigValid(written) == IF written THEN {TRUE} ELSE BOOLEAN

(* Reading the avatar record into g_avatar; a failed read changes nothing. *)
ReadAvatar(record, current) == IF record = NoAvatar THEN current ELSE record

(* Mutant: the wrap at the last avatar is forgotten. *)
KeyNextNoWrap ==
  /\ avatar' = IF cursor = "AVATAR" THEN avatar + 1 ELSE avatar
  /\ cursor' = IF cursor = "OK" THEN "AVATAR" ELSE cursor
  /\ UNCHANGED nvVars

(* display_keypress(KEY_NEXT) *)
KeyNext ==
  /\ avatar' = IF cursor = "AVATAR" THEN (avatar + 1) % AvatarCount ELSE avatar
  /\ cursor' = IF cursor = "OK" THEN "AVATAR" ELSE cursor
  /\ UNCHANGED nvVars

(* display_keypress(KEY_ACCEPT): the cursor goes round its three positions; *)
(* the configuration is done when the press was made on OK.                 *)
NextCursor == CASE cursor = "AVATAR" -> "OK"
                [] cursor = "OK"     -> "NONE"
                [] cursor = "NONE"   -> "AVATAR"

ConfigDone == cursor = "OK"

(* Mutant: the two records are written in the other order. *)
SaveConfigSwapped ==
  \/ UNCHANGED nvVars
  \/ nvValid' = TRUE /\ nvAvatar' \in {nvAvatar, avatar}

(***************************************************************************)
(* The two writes at the end of the configuration: the avatar, and only if *)
(* that one succeeded the mark that makes it valid.  Each write may fail;  *)
(* nobody looks at the result of the second.  A power loss between the two *)
(* leaves the same NVRAM as the second one failing.                        *)
(***************************************************************************)
SaveConfig ==
  \/ UNCHANGED nvVars
  \/ nvAvatar' = avatar /\ nvValid' \in {nvValid, TRUE}
=============================================================================
