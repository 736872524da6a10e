------------------------------ MODULE Message -------------------------------
(***************************************************************************)
(* How the text a phone wrote is cut into rows (draw_message, display.c).  *)
(* A character is its position in the text, a text is its strlen: a value  *)
(* may hold a NUL of its own, and an empty one has no row, so what         *)
(* display_message does with an empty value needs no case.  The array line *)
(* is on the stack and holds anything before it is written.                *)
(***************************************************************************)
EXTENDS Integers, FiniteSetsExt

CONSTANTS MaxLen,    \* MUCHI_MESSAGE_MAX_LEN
          MaxLines,  \* MAX_NUM_LINES
          Nul,       \* the end of a string
          Junk       \* what the stack held

(* The rows take the longest text without a remainder, at least two characters *)
(* each: 20 characters are 4 rows of 5.                                        *)
ASSUME MessageAssumption == /\ MaxLines \in Nat \ {0}
                            /\ MaxLen \in Nat /\ MaxLen >= 2 * MaxLines
                            /\ MaxLen % MaxLines = 0
                            /\ {Nul, Junk} \cap Nat = {} /\ Nul # Junk

(* The texts the attribute HANDLE_MUCHI_MESSAGE can hold, by their strlen. *)
Texts == 0 .. MaxLen

LineLen == MaxLen \div MaxLines

(* The indices of line. *)
Cells == 0 .. LineLen

(* A byte at and behind the text; display_message puts a NUL behind the value. *)
Text(chars, k) == IF k < chars THEN k ELSE IF k = chars THEN Nul ELSE Junk

(* Mutant: a row for the remainder too. *)
LineCountUp(chars) == (chars + 1) \div LineLen + 1

(* lines *)
LineCount(chars) == (chars + 1) \div LineLen

(* The values of the loop variable i. *)
RowsOf(chars) == 0 .. LineCount(chars) - 1

(* Mutant: rows start as far apart as line is long. *)
OffsetOfArray(i) == i * (LineLen + 1)

(* Where row i begins in the text. *)
Offset(i) == i * LineLen

(* Mutant: the last row gets all that is left. *)
CopiedRest(chars, i) ==
  IF i < LineCount(chars) - 1 THEN LineLen ELSE chars + 1 - i * LineLen

(* How much is copied for row i: all but the last are full, the last is lastlen. *)
Copied(chars, i) ==
  IF i < LineCount(chars) - 1 THEN LineLen ELSE (chars + 1) % LineLen

(* Mutant: a full row is not terminated. *)
WritesOpen(chars, i, c) == c < Copied(chars, i)

(* Whether row i puts something into cell c of the array. *)
Writes(chars, i, c) == c < Copied(chars, i) \/ (c = LineLen /\ i < LineCount(chars) - 1)

(* What it puts there. *)
Written(chars, i, c) == IF c < Copied(chars, i) THEN Text(chars, Offset(i) + c) ELSE Nul

(* draw_message: the array each row is drawn from.  Every row is copied over *)
(* the one before, so a cell holds what the latest row to write it put there. *)
DrawnRows(chars) ==
  [i \in RowsOf(chars) |-> [c \in Cells |->
     LET writers == {j \in 0 .. i : Writes(chars, j, c)}
     IN  IF writers = {} THEN Junk ELSE Written(chars, Max(writers), c)]]
-----------------------------------------------------------------------------
(* What the rows of a text of chars characters must be; MCPanel says it of   *)
(* the messages its page loop draws.                                         *)

InBounds(chars) ==
  /\ LineCount(chars) <= MaxLines
  /\ \A i \in RowsOf(chars) : /\ Offset(i) + Copied(chars, i) <= chars + 1
                              /\ Copied(chars, i) <= LineLen + 1

Terminated(chars) ==
  LineCount(chars) > 1 =>
    \A i \in RowsOf(chars) : \E c \in Cells : DrawnRows(chars)[i][c] = Nul

(* The characters that can be read on the glass: in front of the first NUL of *)
(* some row.                                                                  *)
Legible(chars) ==
  {k \in 0 .. chars - 1 : \E i \in RowsOf(chars) : \E c \in Cells :
     /\ DrawnRows(chars)[i][c] = k
     /\ \A d \in Cells : d < c => DrawnRows(chars)[i][d] # Nul}

(* What the last of several rows does not copy is the row above it. *)
Repeated(chars) ==
  LineCount(chars) > 1 =>
    LET last == LineCount(chars) - 1
    IN  \A c \in Cells : Copied(chars, last) <= c =>
          DrawnRows(chars)[last][c] = DrawnRows(chars)[last - 1][c]
=============================================================================
