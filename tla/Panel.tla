------------------------------- MODULE Panel --------------------------------
(***************************************************************************)
(* How a picture reaches the glass (display.c, u8g_page.c and the driver   *)
(* u8g_dev_ls010b7dh01.c): display_update toggles EXTCOMIN and draws the   *)
(* same picture once for each page of the glass, whose lines the driver    *)
(* sends before the next page is drawn.  Display has it in one step.       *)
(*                                                                         *)
(* The watch page, the message and the configuration are read before the   *)
(* first page.  The radar asks the clock again at each page whether a peer *)
(* has expired (draw_others), so its picture may change on the way.        *)
(***************************************************************************)
EXTENDS Integers

CONSTANTS Rows,         \* LS010B7DH01_ROWS
          RowsPerPage,  \* ROWS_PER_PAGE
          UintRange,    \* values of an u8g_uint_t
          Faces,        \* pictures fixed before they are drawn
          Radar,        \* the radar page, with or without a peer
          WithPeer, NoPeer,
          Blank,        \* a glass without power
          Nothing       \* no picture

ASSUME PanelAssumption ==
  /\ Rows \in Nat /\ RowsPerPage \in 1 .. Rows
  /\ UintRange \in Nat /\ Rows + RowsPerPage <= UintRange
  /\ {Radar, WithPeer, NoPeer, Blank, Nothing} \cap Faces = {}
  /\ Radar \notin {Blank, Nothing, WithPeer, NoPeer}
  /\ Blank # Nothing

VARIABLES up,        \* display_init has been called
          on,        \* __display_on, and with it the 5 V of the glass
          extcomin,  \* the static variable of display_update, high or low
          comPin,    \* the EXTCOMIN pin
          drawing,   \* the picture in the page loop
          pageY0, pageY1,
          glass,     \* what each line shows
          asked,     \* the last picture a page loop was entered for
          expired    \* the peer has been silent for too long

pageVars == <<pageY0, pageY1>>
vars == <<up, on, extcomin, comPin, drawing, pageVars, glass, asked, expired>>

Lines == 1 .. Rows
Contents == Faces \union {WithPeer, NoPeer, Blank}

TypeOK == /\ up \in BOOLEAN /\ on \in BOOLEAN /\ extcomin \in BOOLEAN /\ comPin \in BOOLEAN
          /\ drawing \in Faces \union {Radar, Nothing}
          /\ pageY0 \in 0 .. Rows + RowsPerPage - 1
          /\ pageY1 \in 0 .. Rows - 1
          /\ glass \in [Lines -> Contents]
          /\ asked \in Faces \union {Radar, Blank}
          /\ expired \in BOOLEAN

(* RAM and pins as they are without power. *)
Dark(vUp, vOn, vExtcomin, vPin, vDrawing, vGlass, vAsked) ==
  /\ vUp = FALSE /\ vOn = FALSE /\ vExtcomin = FALSE /\ vPin = FALSE
  /\ vDrawing = Nothing /\ vGlass = [l \in Lines |-> Blank] /\ vAsked = Blank

Init == /\ Dark(up, on, extcomin, comPin, drawing, glass, asked)
        /\ pageY0 = 0 /\ pageY1 = RowsPerPage - 1
        /\ expired = TRUE

(* u8g_FirstPage *)
FirstPage == pageY0' = 0 /\ pageY1' = RowsPerPage - 1

(* picture_loop and the loops like it: the first page comes next. *)
EnterLoop(p) == drawing' = p /\ asked' = p /\ FirstPage

(* display_init, which draws a greeting. *)
DisplayInit == /\ ~up
               /\ up' = TRUE /\ on' = TRUE /\ comPin' = TRUE
               /\ \E p \in Faces : EnterLoop(p)
               /\ UNCHANGED <<extcomin, glass, expired>>

DisplayOff == /\ drawing = Nothing /\ on
              /\ on' = FALSE
              /\ glass' = [l \in Lines |-> Blank] /\ asked' = Blank
              /\ UNCHANGED <<up, extcomin, comPin, drawing, pageVars, expired>>

DisplayOn == /\ up /\ drawing = Nothing /\ ~on
             /\ on' = TRUE
             /\ UNCHANGED <<up, extcomin, comPin, drawing, pageVars, glass, asked, expired>>

(* Mutant: extcomin is not static. *)
DisplayUpdateAutomatic(p) ==
  /\ up /\ drawing = Nothing
  /\ extcomin' = TRUE
  /\ IF ~on THEN UNCHANGED <<comPin, drawing, pageVars, asked>>
            ELSE /\ comPin' = extcomin'
                 /\ IF p = Nothing THEN UNCHANGED <<drawing, pageVars, asked>>
                                   ELSE EnterLoop(p)
  /\ UNCHANGED <<up, on, glass, expired>>

(* display_update; an empty message draws nothing. *)
DisplayUpdate(p) ==
  /\ up /\ drawing = Nothing
  /\ extcomin' = ~extcomin
  /\ IF ~on THEN UNCHANGED <<comPin, drawing, pageVars, asked>>
            ELSE /\ comPin' = extcomin'
                 /\ IF p = Nothing THEN UNCHANGED <<drawing, pageVars, asked>>
                                   ELSE EnterLoop(p)
  /\ UNCHANGED <<up, on, glass, expired>>

(* What one turn of the loop draws. *)
Drawn == IF drawing = Radar THEN (IF expired THEN NoPeer ELSE WithPeer) ELSE drawing

(* Mutant: the last line of a page is not sent. *)
LinesSentButLast == {l \in Lines : 1 + pageY0 <= l /\ l < 1 + pageY0 + (pageY1 - pageY0)}

(* update_lines: start_line is 1 + page_y0, end_line that many lines on. *)
LinesSent == {l \in Lines : 1 + pageY0 <= l /\ l < 1 + pageY0 + (pageY1 - pageY0 + 1)}

(* Mutant: the end of the glass is noticed one page late. *)
LastPageLate(y0) == y0 > Rows

LastPage(y0) == y0 >= Rows

(* u8g_page_Next *)
NextPage ==
  LET y0 == (pageY0 + RowsPerPage) % UintRange
      y1 == (pageY1 + RowsPerPage) % UintRange
  IN /\ pageY0' = y0
     /\ IF LastPage(y0)
        THEN drawing' = Nothing /\ UNCHANGED pageY1
        ELSE /\ UNCHANGED drawing
             /\ pageY1' = IF y1 >= Rows THEN Rows - 1 ELSE y1

(* One turn of the page loop: draw the page, send it, go to the next. *)
Page == /\ drawing # Nothing
        /\ glass' = [l \in Lines |-> IF l \in LinesSent THEN Drawn ELSE glass[l]]
        /\ NextPage
        /\ UNCHANGED <<up, on, extcomin, comPin, asked, expired>>

(* The clock goes on while pages are drawn. *)
Expire == /\ expired' = TRUE
          /\ UNCHANGED <<up, on, extcomin, comPin, drawing, pageVars, glass, asked>>

(* Mutant: advertisements are handled while pages are drawn. *)
SightAnytime == /\ expired' = FALSE
                /\ UNCHANGED <<up, on, extcomin, comPin, drawing, pageVars, glass, asked>>

(* An advertisement of the peer; the page loop is never interrupted by it. *)
Sight == /\ drawing = Nothing
         /\ expired' = FALSE
         /\ UNCHANGED <<up, on, extcomin, comPin, drawing, pageVars, glass, asked>>

PowerLoss == /\ Dark(up', on', extcomin', comPin', drawing', glass', asked')
             /\ UNCHANGED <<pageVars, expired>>

Next == \/ DisplayInit
        \/ DisplayOff
        \/ DisplayOn
        \/ \E p \in Faces \union {Radar, Nothing} : DisplayUpdate(p)
        \/ Page
        \/ Expire
        \/ Sight
        \/ PowerLoss

(* A page loop runs to its end; the one-second timer calls display_update. *)
Fairness == /\ WF_vars(Page)
            /\ WF_vars(\E p \in Faces \union {Radar, Nothing} : DisplayUpdate(p))

Spec == Init /\ [][Next]_vars /\ Fairness
-----------------------------------------------------------------------------
(* When the loop has ended, all lines show the picture it was entered for:   *)
(* the pages leave no line out, and none of an older picture shows through.  *)
GlassIsWhole ==
  drawing = Nothing /\ asked # Radar => \A l \in Lines : glass[l] = asked

(* The radar may lose a peer half way down the glass, when the clock passes  *)
(* its expiration between two pages, but nothing worse: above some line the  *)
(* peer is drawn, below it is not.                                           *)
PeerTornOnce ==
  drawing = Nothing /\ asked = Radar =>
    \E k \in 0 .. Rows : \A l \in Lines : glass[l] = (IF l <= k THEN WithPeer ELSE NoPeer)

(* "We are doing extcomin toggling" (u8g_dev_ls010b7dh01.c:102): a glass     *)
(* that stays on never keeps one polarity, whatever it shows and however     *)
(* often it was switched off and on before.                                  *)
PolarityAlternates == <>[]on => []<>comPin /\ []<>~comPin
=============================================================================
