------------------------------ MODULE MCPanel -------------------------------
(***************************************************************************)
(* A glass of four pages whose pictures, beside the radar, are messages of *)
(* every length (20 characters, 4 rows).  draw_message runs once per page, *)
(* on the text display_message read before the first.                      *)
(***************************************************************************)
EXTENDS Panel, Message, Wire

(* reverse_bits takes the number of a line as an uint8_t. *)
ASSUME LinesAssumption == Rows <= 255

(* There are no more rows than the glass has room for, no copy of            *)
(* draw_message reads behind the NUL of the text or writes behind the end of *)
(* line, for any length of the text on the glass, and what is drawn ends.    *)
(* The last row is copied without a NUL: if a row came before, the NUL of    *)
(* that one still ends it; only a single row is drawn from an array nothing  *)
(* ended.                                                                    *)
CopiesInBounds == drawing \in Texts => InBounds(drawing) /\ Terminated(drawing)

(* What is read on the glass begins with the text, leaves no character out   *)
(* and stops before the end: a row more is only begun when there is enough   *)
(* text for the whole of it, so the last characters, one less than a row     *)
(* holds, are never drawn, in a text of any length (the last 4 of 20; a text *)
(* of 4 or less shows none).  In their place the last of several rows shows  *)
(* the end of the row above once more.                                       *)
TailIsLost ==
  drawing \in Texts => Legible(drawing) = 0 .. drawing - LineLen /\ Repeated(drawing)

(* What a page sends is what the glass holds: each line of the page arrives  *)
(* whole at its own place, whatever the polarity bit of the mode byte, no    *)
(* transfer is larger than the controller can send, and reverse_bits has an  *)
(* address for every line a byte can count.                                  *)
AllReversed == \A line \in 0 .. 255 : Address(ReverseBits(Bits(line))) = line

PageArrives ==
  drawing # Nothing =>
    \A comin \in BOOLEAN :
      LET sent == Transfers(1 + pageY0, pageY1 - pageY0 + 1, comin)
      IN  /\ AllReversed
          /\ \A i \in DOMAIN sent : Len(sent[i]) <= MaxTransfer
          /\ BackToBack(sent)
          /\ Received(BytesOf(sent)) = {<<l, RowBytes(l - 1 - pageY0)>> : l \in LinesSent}
=============================================================================
