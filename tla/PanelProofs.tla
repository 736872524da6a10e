---------------------------- MODULE PanelProofs -----------------------------
(***************************************************************************)
(* Theorems about Panel, for every size of the glass and of its pages that *)
(* an u8g_uint_t can count, a last page that is cut short included; and    *)
(* about what MCPanel adds to it: the rows of a message, for every length  *)
(* of the text and every number of rows that divides it, and the bytes of  *)
(* a page, for every glass whose lines a byte can count.                   *)
(***************************************************************************)
EXTENDS MCPanel, TLAPS

(* The radar on the first n lines: with the peer down to some line, and if   *)
(* that is not the last of them the peer has expired.                        *)
TornUpTo(n) ==
  \E k \in 0 .. n :
    /\ k < n => expired
    /\ \A l \in 1 .. n : glass[l] = (IF l <= k THEN WithPeer ELSE NoPeer)

(* In the page loop, the lines above page_y0 already show the new picture. *)
LoopInv ==
  drawing # Nothing =>
    /\ up /\ on /\ asked = drawing
    /\ pageY0 < Rows
    /\ pageY1 = IF pageY0 + RowsPerPage > Rows THEN Rows - 1 ELSE pageY0 + RowsPerPage - 1
    /\ drawing # Radar => \A l \in 1 .. pageY0 : glass[l] = drawing
    /\ drawing = Radar => TornUpTo(pageY0)

PanelInv == TypeOK /\ LoopInv /\ GlassIsWhole /\ PeerTornOnce

LEMMA PanelInvInit == Init => PanelInv
<1> SUFFICES ASSUME Init PROVE PanelInv
  OBVIOUS
<1> USE PanelAssumption
<1>1. TypeOK
  <2>1. up \in BOOLEAN /\ on \in BOOLEAN /\ extcomin \in BOOLEAN /\ comPin \in BOOLEAN /\ expired \in BOOLEAN
    BY Zenon DEF Init, Dark
  <2>2. glass \in [Lines -> Contents]
    BY DEF Init, Dark, Contents
  <2>3. pageY0 \in 0 .. Rows + RowsPerPage - 1 /\ pageY1 \in 0 .. Rows - 1
    BY DEF Init
  <2> QED BY <2>1, <2>2, <2>3 DEF Init, Dark, TypeOK
<1>2. LoopInv /\ GlassIsWhole /\ PeerTornOnce
  BY DEF Init, Dark, LoopInv, GlassIsWhole, PeerTornOnce, Lines
<1> QED BY <1>1, <1>2 DEF PanelInv

(* A loop that is entered has shown nothing yet. *)
LEMMA EnterStep ==
  ASSUME NEW p \in Faces \union {Radar}, PanelInv, EnterLoop(p),
         up', on', glass' = glass, expired' = expired,
         extcomin' \in BOOLEAN, comPin' \in BOOLEAN
  PROVE  PanelInv'
<1> USE PanelAssumption
<1>1. TypeOK' BY DEF EnterLoop, FirstPage, PanelInv, TypeOK, Lines, Contents
<1>2. p # Nothing BY DEF EnterLoop
<1>3. TornUpTo(0)' BY DEF TornUpTo
<1>4. LoopInv' BY <1>3 DEF EnterLoop, FirstPage, LoopInv
<1>5. GlassIsWhole' /\ PeerTornOnce'
  BY <1>2 DEF EnterLoop, GlassIsWhole, PeerTornOnce
<1> QED BY <1>1, <1>4, <1>5 DEF PanelInv

(* What a turn of the loop sends are the lines below page_y0, up to page_y1, *)
(* and the next page begins behind them.                                     *)
LEMMA PageLines ==
  ASSUME PanelInv, Page
  PROVE  /\ pageY0' = pageY0 + RowsPerPage
         /\ LinesSent = {l \in Lines : pageY0 < l /\ l <= pageY0 + RowsPerPage}
         /\ IF pageY0' >= Rows
            THEN drawing' = Nothing /\ pageY1' = pageY1
            ELSE /\ drawing' = drawing
                 /\ pageY1' = IF pageY0' + RowsPerPage > Rows THEN Rows - 1
                                                            ELSE pageY0' + RowsPerPage - 1
<1> USE PanelAssumption
<1>1. /\ pageY0 \in 0 .. Rows - 1
      /\ pageY1 = IF pageY0 + RowsPerPage > Rows THEN Rows - 1 ELSE pageY0 + RowsPerPage - 1
  BY DEF Page, PanelInv, LoopInv, TypeOK
<1>2. (pageY0 + RowsPerPage) % UintRange = pageY0 + RowsPerPage
  BY <1>1
<1>3. LinesSent = {l \in Lines : pageY0 < l /\ l <= pageY0 + RowsPerPage}
  BY <1>1 DEF LinesSent, Lines
<1>4. pageY0' = pageY0 + RowsPerPage
  BY <1>2 DEF Page, NextPage
<1>5. CASE pageY0' >= Rows
  BY <1>2, <1>3, <1>4, <1>5 DEF Page, NextPage, LastPage
<1>6. CASE ~(pageY0' >= Rows)
  <2>1. pageY1 = pageY0 + RowsPerPage - 1
    BY <1>1, <1>4, <1>6
  <2>2. (pageY1 + RowsPerPage) % UintRange = pageY1 + RowsPerPage
    BY <2>1, <1>1, <1>4, <1>6
  <2>3. /\ drawing' = drawing
        /\ pageY1' = IF pageY1 + RowsPerPage >= Rows THEN Rows - 1 ELSE pageY1 + RowsPerPage
    BY <1>2, <1>4, <1>6, <2>2 DEF Page, NextPage, LastPage
  <2> QED BY <1>1, <1>3, <1>4, <1>6, <2>1, <2>3
<1> QED BY <1>5, <1>6

LEMMA PageStep == PanelInv /\ Page => PanelInv'
<1> SUFFICES ASSUME PanelInv, Page PROVE PanelInv'
  OBVIOUS
<1> USE PanelAssumption
<1>1. /\ pageY0 \in 0 .. Rows - 1 /\ asked = drawing /\ up /\ on
      /\ pageY0' = pageY0 + RowsPerPage
      /\ LinesSent = {l \in Lines : pageY0 < l /\ l <= pageY0 + RowsPerPage}
  BY PageLines DEF Page, PanelInv, LoopInv, TypeOK
<1>2. drawing \in Faces \union {Radar} /\ Drawn \in Contents
  BY DEF Page, PanelInv, TypeOK, Drawn, Contents
<1>3. glass' \in [Lines -> Contents]
  BY <1>2 DEF Page, PanelInv, TypeOK
<1>4. pageY1' \in 0 .. Rows - 1
  BY <1>1, PageLines DEF PanelInv, TypeOK
<1>5. TypeOK'
  BY <1>1, <1>3, <1>4, PageLines DEF Page, PanelInv, TypeOK
<1>6. /\ \A l \in 1 .. pageY0 : glass'[l] = glass[l]
      /\ \A l \in Lines : pageY0 < l /\ l <= pageY0' => glass'[l] = Drawn
  BY <1>1 DEF Page, Lines
<1>7. ASSUME drawing # Radar, NEW n \in 0 .. Rows, n <= pageY0'
      PROVE  \A l \in 1 .. n : glass'[l] = drawing
  <2>1. Drawn = drawing BY <1>7 DEF Drawn
  <2>2. \A l \in 1 .. pageY0 : glass[l] = drawing
    BY <1>7 DEF Page, PanelInv, LoopInv
  <2> QED BY <1>1, <1>6, <2>1, <2>2, <1>7 DEF Lines
<1>8. ASSUME drawing = Radar, NEW n \in 0 .. Rows, pageY0 < n, n <= pageY0'
      PROVE  \E k \in 0 .. n : /\ k < n => expired'
                               /\ \A l \in 1 .. n : glass'[l] = (IF l <= k THEN WithPeer ELSE NoPeer)
  <2>1. PICK k \in 0 .. pageY0 :
             /\ k < pageY0 => expired
             /\ \A l \in 1 .. pageY0 : glass[l] = (IF l <= k THEN WithPeer ELSE NoPeer)
    BY <1>8 DEF Page, PanelInv, LoopInv, TornUpTo
  <2>2. expired' = expired BY DEF Page
  <2>3. CASE expired
    <3>1. Drawn = NoPeer BY <2>3, <1>8 DEF Drawn
    <3>2. \A l \in 1 .. n : glass'[l] = (IF l <= k THEN WithPeer ELSE NoPeer)
      BY <1>1, <1>6, <1>8, <2>1, <3>1 DEF Lines
    <3>3. k \in 0 .. n BY <1>1, <1>8
    <3> QED BY <2>2, <2>3, <3>2, <3>3
  <2>4. CASE ~expired
    <3>1. Drawn = WithPeer BY <2>4, <1>8 DEF Drawn
    <3>2. k = pageY0 BY <2>1, <2>4, <1>1
    <3>3. \A l \in 1 .. n : glass'[l] = (IF l <= n THEN WithPeer ELSE NoPeer)
      BY <1>1, <1>6, <1>8, <2>1, <3>1, <3>2 DEF Lines
    <3>4. n \in 0 .. n /\ ~(n < n) BY <1>8
    <3> QED BY <3>3, <3>4
  <2> QED BY <2>3, <2>4
<1>9. CASE pageY0' >= Rows
  <2>1. drawing' = Nothing BY <1>9, PageLines
  <2>2. asked' = drawing BY <1>1 DEF Page
  <2>3. Rows \in 0 .. Rows /\ pageY0 < Rows /\ Rows <= pageY0' BY <1>1, <1>9
  <2>4. GlassIsWhole'
    BY <1>7, <2>2, <2>3 DEF GlassIsWhole, Lines
  <2>5. PeerTornOnce'
    BY <1>8, <2>2, <2>3 DEF PeerTornOnce, Lines
  <2> QED BY <1>5, <2>1, <2>4, <2>5 DEF PanelInv, LoopInv
<1>10. CASE ~(pageY0' >= Rows)
  <2>1. drawing' = drawing BY <1>10, PageLines
  <2>2. pageY0' \in 0 .. Rows /\ pageY0 < pageY0' /\ pageY0' <= pageY0' BY <1>1, <1>10
  <2>3. drawing' # Radar => \A l \in 1 .. pageY0' : glass'[l] = drawing'
    BY <1>7, <2>1, <2>2
  <2>4. drawing' = Radar => TornUpTo(pageY0)'
    BY <1>8, <2>1, <2>2 DEF TornUpTo
  <2>5. LoopInv'
    BY <1>1, <1>10, <2>1, <2>3, <2>4, PageLines DEF LoopInv, Page
  <2>6. GlassIsWhole' /\ PeerTornOnce'
    BY <2>1 DEF Page, GlassIsWhole, PeerTornOnce
  <2> QED BY <1>5, <2>5, <2>6 DEF PanelInv
<1> QED BY <1>9, <1>10

LEMMA PanelInvStep == PanelInv /\ [Next]_vars => PanelInv'
<1> SUFFICES ASSUME PanelInv, [Next]_vars PROVE PanelInv'
  OBVIOUS
<1> USE PanelAssumption
<1>1. CASE DisplayInit
  <2>1. PICK p \in Faces : EnterLoop(p) BY <1>1 DEF DisplayInit
  <2> QED BY <1>1, <2>1, EnterStep DEF DisplayInit, PanelInv, TypeOK
<1>2. CASE DisplayOff
  BY <1>2 DEF DisplayOff, pageVars, PanelInv, TypeOK, LoopInv, GlassIsWhole, PeerTornOnce, Lines, Contents
<1>3. CASE DisplayOn
  BY <1>3 DEF DisplayOn, pageVars, PanelInv, TypeOK, LoopInv, GlassIsWhole, PeerTornOnce
<1>4. ASSUME NEW p \in Faces \union {Radar, Nothing}, DisplayUpdate(p) PROVE PanelInv'
  <2>1. extcomin' \in BOOLEAN /\ comPin' \in BOOLEAN
    BY <1>4 DEF DisplayUpdate, PanelInv, TypeOK
  <2>2. CASE on /\ p # Nothing
    BY <1>4, <2>1, <2>2, EnterStep DEF DisplayUpdate
  <2>3. CASE ~(on /\ p # Nothing)
    BY <1>4, <2>1, <2>3 DEF DisplayUpdate, pageVars, PanelInv, TypeOK, LoopInv, GlassIsWhole, PeerTornOnce
  <2> QED BY <2>2, <2>3
<1>5. CASE Page BY <1>5, PageStep
<1>6. CASE Expire
  <2>1. TypeOK' /\ GlassIsWhole' /\ PeerTornOnce'
    BY <1>6 DEF Expire, pageVars, PanelInv, TypeOK, GlassIsWhole, PeerTornOnce
  <2>2. ASSUME NEW n \in Int, TornUpTo(n), glass' = glass PROVE TornUpTo(n)'
    BY <1>6, <2>2 DEF Expire, TornUpTo
  <2>3. LoopInv'
    BY <1>6, <2>2 DEF Expire, pageVars, PanelInv, TypeOK, LoopInv
  <2> QED BY <2>1, <2>3 DEF PanelInv
<1>7. CASE Sight
  BY <1>7 DEF Sight, pageVars, PanelInv, TypeOK, LoopInv, GlassIsWhole, PeerTornOnce
<1>8. CASE PowerLoss
  BY <1>8 DEF PowerLoss, Dark, pageVars, PanelInv, TypeOK, LoopInv, GlassIsWhole, PeerTornOnce, Lines, Contents
<1>9. CASE UNCHANGED vars
  BY <1>9 DEF vars, pageVars, PanelInv, TypeOK, LoopInv, TornUpTo, GlassIsWhole, PeerTornOnce
<1> QED BY <1>1, <1>2, <1>3, <1>4, <1>5, <1>6, <1>7, <1>8, <1>9 DEF Next

(* Whatever the glass and its pages measure, a finished page loop leaves     *)
(* nothing of an older picture on the glass, and a radar picture is torn at  *)
(* most once, where the peer expired.                                        *)
THEOREM GlassSafe == Spec => [](GlassIsWhole /\ PeerTornOnce)
<1>1. PanelInv => GlassIsWhole /\ PeerTornOnce BY DEF PanelInv
<1> QED BY <1>1, PanelInvInit, PanelInvStep, PTL DEF Spec

(* No page lies off the glass: the line numbers do not overflow, and the     *)
(* last page is cut to what is left.                                         *)
THEOREM PanelTypes == Spec => []TypeOK
<1>1. PanelInv => TypeOK BY DEF PanelInv
<1> QED BY <1>1, PanelInvInit, PanelInvStep, PTL DEF Spec

(* A radar picture is torn at most once, for every size of the glass.        *)
THEOREM PeersTornOnce == Spec => []PeerTornOnce
  BY GlassSafe, PTL

-----------------------------------------------------------------------------
(* What the provers need to know of a division. *)
LEMMA DivMod ==
  ASSUME NEW a \in Nat, NEW b \in Nat \ {0}
  PROVE  /\ a \div b \in Nat /\ a % b \in 0 .. b - 1
         /\ a = b * (a \div b) + (a % b)
<1>1. a \div b \in Nat
  OBVIOUS
<1>2. a % b \in 0 .. b - 1
  OBVIOUS
<1>3. a = b * (a \div b) + (a % b)
  BY Z3
<1> QED BY <1>1, <1>2, <1>3

(* ... and of a product. *)
LEMMA Products ==
  ASSUME NEW a \in Nat, NEW b \in Nat
  PROVE  a * b \in Nat /\ a * b = b * a /\ a * (b + 1) = a * b + a
  OBVIOUS

LEMMA ProductsGrow ==
  ASSUME NEW a \in Nat, NEW b \in Nat, NEW c \in Nat, a <= b
  PROVE  c * a <= c * b
  BY SMT

(* The length of a row. *)
LEMMA LineLenFacts ==
  /\ LineLen \in Nat /\ LineLen >= 2 /\ MaxLen = MaxLines * LineLen
<1>1. LineLen \in Nat /\ MaxLen = MaxLines * LineLen
  BY MessageAssumption, DivMod DEF LineLen
<1>2. ASSUME LineLen <= 1 PROVE FALSE
  <2>1. MaxLines * LineLen <= MaxLines * 1
    BY <1>1, <1>2, ProductsGrow, MessageAssumption
  <2> QED BY <1>1, <2>1, MessageAssumption
<1> QED BY <1>1, <1>2

(* How many rows there are, and what is left for the last one. *)
LEMMA RowFacts ==
  ASSUME NEW chars \in Texts
  PROVE  /\ chars \in Nat
         /\ LineCount(chars) \in 0 .. MaxLines
         /\ (chars + 1) % LineLen \in 0 .. LineLen - 1
         /\ chars + 1 = LineLen * LineCount(chars) + ((chars + 1) % LineLen)
<1>1. chars \in 0 .. MaxLen
  BY DEF Texts
<1>2. /\ LineCount(chars) \in Nat
      /\ (chars + 1) % LineLen \in 0 .. LineLen - 1
      /\ chars + 1 = LineLen * LineCount(chars) + ((chars + 1) % LineLen)
  <2>1. chars + 1 \in Nat /\ LineLen \in Nat \ {0}
    BY <1>1, LineLenFacts, MessageAssumption
  <2> QED BY <2>1, DivMod DEF LineCount
<1>3. ASSUME LineCount(chars) >= MaxLines + 1 PROVE FALSE
  <2>1. LineLen * (MaxLines + 1) <= LineLen * LineCount(chars)
    BY <1>2, <1>3, ProductsGrow, LineLenFacts, MessageAssumption
  <2>2. LineLen * (MaxLines + 1) = MaxLen + LineLen
    BY Products, LineLenFacts, MessageAssumption
  <2>3. chars + 1 >= MaxLen + LineLen
    BY <1>1, <1>2, <2>1, <2>2, LineLenFacts, MessageAssumption
  <2> QED BY <1>1, <2>3, LineLenFacts, MessageAssumption
<1> QED BY <1>1, <1>2, <1>3, MessageAssumption

(* Where a row's copy begins and ends. *)
LEMMA CopyFacts ==
  ASSUME NEW chars \in Texts, NEW i \in RowsOf(chars)
  PROVE  /\ i \in Nat /\ Offset(i) \in Nat
         /\ Copied(chars, i) \in 0 .. LineLen
         /\ Offset(i) + Copied(chars, i) <= chars + 1
         /\ i = LineCount(chars) - 1 => Copied(chars, i) < LineLen
<1>1. i \in Nat /\ i <= LineCount(chars) - 1 /\ LineCount(chars) \in Nat
  BY RowFacts DEF RowsOf
<1>2. Offset(i) = LineLen * i /\ Offset(i) \in Nat
  BY <1>1, LineLenFacts DEF Offset
<1>3. LineLen * i + LineLen = LineLen * (i + 1)
  BY <1>1, LineLenFacts
<1>4. LineLen * (i + 1) <= LineLen * LineCount(chars)
  BY <1>1, ProductsGrow, LineLenFacts
<1>5. LineLen * i + LineLen <= chars + 1
  <2>1. LineLen * LineCount(chars) \in Nat /\ LineLen * LineCount(chars) <= chars + 1
    BY <1>1, RowFacts, LineLenFacts, Products
  <2> QED BY <1>2, <1>3, <1>4, <2>1, RowFacts, LineLenFacts
<1> QED BY <1>1, <1>2, <1>5, RowFacts, LineLenFacts DEF Copied

(* The latest of some rows. *)
LEMMA MaxFacts ==
  ASSUME NEW n \in Nat, NEW S \in SUBSET (0 .. n), NEW m \in S, \A x \in S : x <= m
  PROVE  Max(S) = m
<1>1. Max(S) \in S /\ \A x \in S : Max(S) >= x
  BY DEF Max
<1>2. Max(S) \in 0 .. n /\ m \in 0 .. n /\ Max(S) <= m /\ Max(S) >= m
  BY <1>1
<1> QED BY <1>2

(* A cell the row itself writes holds what it wrote. *)
LEMMA OwnCell ==
  ASSUME NEW chars \in Texts, NEW i \in RowsOf(chars), NEW c \in Cells, Writes(chars, i, c)
  PROVE  DrawnRows(chars)[i][c] = Written(chars, i, c)
<1> DEFINE writers == {j \in 0 .. i : Writes(chars, j, c)}
<1>1. i \in Nat
  BY CopyFacts
<1>2. Max(writers) = i
  <2>1. i \in writers /\ writers \in SUBSET (0 .. i) /\ \A x \in writers : x <= i
    BY <1>1
  <2> HIDE DEF writers
  <2> QED BY <1>1, <2>1, MaxFacts
<1>3. writers # {}
  BY <1>1
<1> QED BY <1>2, <1>3 DEF DrawnRows

(* One it leaves alone holds what the row before wrote. *)
LEMMA OldCell ==
  ASSUME NEW chars \in Texts, NEW i \in RowsOf(chars), i > 0, NEW c \in Cells,
         ~Writes(chars, i, c), Writes(chars, i - 1, c)
  PROVE  /\ i - 1 \in RowsOf(chars)
         /\ DrawnRows(chars)[i][c] = Written(chars, i - 1, c)
         /\ DrawnRows(chars)[i][c] = DrawnRows(chars)[i - 1][c]
<1> DEFINE writers == {j \in 0 .. i : Writes(chars, j, c)}
<1>1. i \in Nat /\ i - 1 \in RowsOf(chars) /\ i - 1 \in writers
  <2>1. i \in Nat /\ i <= LineCount(chars) - 1 /\ LineCount(chars) \in Nat
    BY CopyFacts, RowFacts DEF RowsOf
  <2> QED BY <2>1 DEF RowsOf
<1>2. Max(writers) = i - 1
  <2>1. writers \in SUBSET (0 .. i) /\ \A x \in writers : x <= i - 1
    BY <1>1
  <2> HIDE DEF writers
  <2> QED BY <1>1, <2>1, MaxFacts
<1>3. DrawnRows(chars)[i][c] = Written(chars, i - 1, c)
  BY <1>1, <1>2 DEF DrawnRows
<1> QED BY <1>1, <1>3, OwnCell

(* Every full row but the last one ends with a NUL, and the last row leaves  *)
(* that of the row before where it is.                                       *)
LEMMA NulCell ==
  ASSUME NEW chars \in Texts, LineCount(chars) > 1, NEW i \in RowsOf(chars)
  PROVE  DrawnRows(chars)[i][LineLen] = Nul
<1>1. /\ i \in Nat /\ LineLen \in Cells /\ LineCount(chars) \in Nat
      /\ i <= LineCount(chars) - 1 /\ ~(LineLen < Copied(chars, i))
  BY CopyFacts, LineLenFacts, RowFacts DEF Cells, RowsOf
<1>2. CASE i < LineCount(chars) - 1
  BY <1>1, <1>2, OwnCell DEF Writes, Written
<1>3. CASE i = LineCount(chars) - 1
  <2>1. ~Writes(chars, i, LineLen) /\ Writes(chars, i - 1, LineLen) /\ i > 0
    BY <1>1, <1>3 DEF Writes
  <2>2. ~(LineLen < Copied(chars, i - 1))
    BY <1>1, <2>1, OldCell, CopyFacts, LineLenFacts
  <2> QED BY <1>1, <2>1, <2>2, OldCell DEF Written
<1> QED BY <1>1, <1>2, <1>3

(* draw_message never copies from behind the NUL of the text nor writes      *)
(* behind the end of line, has no more rows than MAX_NUM_LINES, and every    *)
(* array it draws ends with a NUL if there is more than one row.             *)
THEOREM CopiesSafe == Spec => []CopiesInBounds
<1>1. ASSUME NEW chars \in Texts PROVE InBounds(chars) /\ Terminated(chars)
  <2>1. InBounds(chars)
    BY RowFacts, CopyFacts, LineLenFacts DEF InBounds
  <2>2. Terminated(chars)
    BY NulCell, LineLenFacts DEF Terminated, Cells
  <2> QED BY <2>1, <2>2
<1>2. CopiesInBounds
  BY <1>1 DEF CopiesInBounds
<1> QED BY <1>2, PTL

(* What a row copies is text, and ends a row's length before the text does. *)
LEMMA CopiedCell ==
  ASSUME NEW chars \in Texts, NEW i \in RowsOf(chars), NEW c \in Cells, c < Copied(chars, i)
  PROVE  /\ DrawnRows(chars)[i][c] = LineLen * i + c
         /\ LineLen * i + c \in 0 .. chars - LineLen
<1> DEFINE n == LineCount(chars)
<1>1. /\ i \in Nat /\ n \in Nat /\ i <= n - 1 /\ c \in Nat /\ chars \in Nat
      /\ LineLen \in Nat /\ LineLen >= 2 /\ Offset(i) = LineLen * i /\ LineLen * i \in Nat
  BY CopyFacts, RowFacts, LineLenFacts, Products DEF Offset, Cells, RowsOf
<1>2. LineLen * n = LineLen * (n - 1) + LineLen /\ LineLen * (n - 1) \in Nat
  BY <1>1, Products
<1>3. chars + 1 = LineLen * n + ((chars + 1) % LineLen) /\ (chars + 1) % LineLen \in Nat
  BY RowFacts
<1>4. LineLen * i + c <= chars - LineLen
  <2>1. CASE i < n - 1
    <3>1. LineLen * (i + 1) = LineLen * i + LineLen /\ LineLen * (i + 1) <= LineLen * (n - 1)
      BY <1>1, <2>1, Products, ProductsGrow
    <3>2. c < LineLen
      BY <2>1 DEF Copied
    <3> HIDE DEF n
    <3> QED BY <1>1, <1>2, <1>3, <3>1, <3>2
  <2>2. CASE i = n - 1
    <3>1. c < (chars + 1) % LineLen
      BY <2>2 DEF Copied
    <3> HIDE DEF n
    <3> QED BY <1>1, <1>2, <1>3, <2>2, <3>1
  <2> QED BY <1>1, <2>1, <2>2
<1>5. DrawnRows(chars)[i][c] = Text(chars, LineLen * i + c)
  BY <1>1, OwnCell DEF Writes, Written
<1>6. LineLen * i + c < chars
  BY <1>1, <1>4
<1> QED BY <1>1, <1>4, <1>5, <1>6 DEF Text

(* What it does not copy is the row above in the last of several rows, and   *)
(* nothing that was written in the only one.                                 *)
LEMMA LeftCell ==
  ASSUME NEW chars \in Texts, NEW i \in RowsOf(chars), i = LineCount(chars) - 1,
         NEW c \in Cells, Copied(chars, i) <= c
  PROVE  /\ i > 0 => /\ i - 1 \in RowsOf(chars)
                     /\ DrawnRows(chars)[i][c] = DrawnRows(chars)[i - 1][c]
         /\ i = 0 => DrawnRows(chars)[i][c] = Junk
<1>1. i \in Nat /\ c \in 0 .. LineLen /\ LineLen \in Nat /\ Copied(chars, i) \in Nat
  BY CopyFacts, LineLenFacts DEF Cells
<1>2. ~Writes(chars, i, c)
  BY <1>1 DEF Writes
<1>3. CASE i > 0
  <2>1. Writes(chars, i - 1, c)
    BY <1>1, <1>3 DEF Writes, Copied
  <2> QED BY <1>2, <1>3, <2>1, OldCell
<1>4. CASE i = 0
  <2>1. {j \in 0 .. i : Writes(chars, j, c)} = {}
    BY <1>2, <1>4
  <2> QED BY <1>4, <2>1 DEF DrawnRows
<1> QED BY <1>1, <1>3, <1>4

(* A character on the glass is one of the text before its last row's length. *)
LEMMA DrawnEarly ==
  ASSUME NEW chars \in Texts, NEW i \in RowsOf(chars), NEW c \in Cells,
         DrawnRows(chars)[i][c] \in Nat
  PROVE  DrawnRows(chars)[i][c] \in 0 .. chars - LineLen
<1>1. /\ i \in Nat /\ i <= LineCount(chars) - 1 /\ LineCount(chars) \in Nat
      /\ c \in 0 .. LineLen /\ LineLen \in Nat
      /\ Copied(chars, i) \in Nat /\ Nul \notin Nat /\ Junk \notin Nat
  BY CopyFacts, RowFacts, LineLenFacts, MessageAssumption DEF Cells, RowsOf
<1>2. CASE c < Copied(chars, i)
  BY <1>2, CopiedCell
<1>3. CASE Copied(chars, i) <= c /\ i < LineCount(chars) - 1
  <2>1. c = LineLen
    BY <1>1, <1>3 DEF Copied
  <2> QED BY <1>1, <1>3, <2>1, NulCell
<1>4. CASE Copied(chars, i) <= c /\ i = LineCount(chars) - 1
  <2>1. i > 0
    BY <1>1, <1>4, LeftCell
  <2>2. c # LineLen
    BY <1>1, <2>1, NulCell
  <2>3. i - 1 \in RowsOf(chars) /\ c < Copied(chars, i - 1)
    BY <1>1, <1>4, <2>1, <2>2, LeftCell DEF Copied
  <2> QED BY <1>4, <2>1, <2>3, LeftCell, CopiedCell
<1> QED BY <1>1, <1>2, <1>3, <1>4

(* Each of those is on the glass, in a row nothing ends before it. *)
LEMMA EarlyDrawn ==
  ASSUME NEW chars \in Texts, NEW k \in 0 .. chars - LineLen,
         NEW i \in Nat, NEW c \in 0 .. LineLen - 1, k = LineLen * i + c
  PROVE  k \in Legible(chars)
<1> DEFINE n == LineCount(chars)
<1>1. /\ chars \in Nat /\ n \in Nat /\ LineLen \in Nat /\ LineLen >= 2
      /\ (chars + 1) % LineLen \in 0 .. LineLen - 1
      /\ chars + 1 = LineLen * n + ((chars + 1) % LineLen)
  BY RowFacts, LineLenFacts
<1>2. k \in Nat /\ k <= chars - LineLen
  BY <1>1
<1>3. /\ LineLen * i \in Nat /\ LineLen * n \in Nat
      /\ LineLen * (i + 1) = LineLen * i + LineLen
  BY <1>1, <1>2, Products
<1>4. i <= n - 1
  <2>1. SUFFICES ASSUME n <= i PROVE FALSE
    BY <1>1, <1>2
  <2>2. LineLen * n <= LineLen * i
    BY <1>1, <1>2, <2>1, ProductsGrow
  <2> HIDE DEF n
  <2> QED BY <1>1, <1>2, <1>3, <2>2
<1>5. i \in RowsOf(chars) /\ c \in Cells
  BY <1>1, <1>2, <1>4 DEF RowsOf, Cells
<1>6. c < Copied(chars, i)
  <2>1. CASE i < n - 1
    <3>1. Copied(chars, i) = LineLen
      BY <2>1 DEF Copied
    <3> QED BY <1>1, <3>1
  <2>2. CASE i = n - 1
    <3>1. c < (chars + 1) % LineLen
      <4>1. LineLen * n = LineLen * i + LineLen
        BY <1>1, <1>3, <2>2
      <4> HIDE DEF n
      <4> QED BY <1>1, <1>2, <1>3, <4>1
    <3> QED BY <2>2, <3>1 DEF Copied
  <2> QED BY <1>1, <1>2, <1>4, <2>1, <2>2
<1>7. DrawnRows(chars)[i][c] = k
  BY <1>2, <1>5, <1>6, CopiedCell
<1>8. ASSUME NEW d \in Cells, d < c PROVE DrawnRows(chars)[i][d] # Nul
  <2>1. d < Copied(chars, i)
    BY <1>2, <1>5, <1>6, <1>8, CopyFacts, LineLenFacts DEF Cells
  <2>2. DrawnRows(chars)[i][d] = LineLen * i + d
    BY <1>5, <2>1, CopiedCell
  <2> QED BY <1>5, <2>1, <2>2, CopiedCell, MessageAssumption
<1>9. k \in 0 .. chars - 1
  BY <1>1, <1>2
<1> QED BY <1>5, <1>7, <1>8, <1>9 DEF Legible

(* Whatever its length, a message is read up to its last LineLen - 1         *)
(* characters, whole, and they are never on the glass.                       *)
THEOREM TailLost == Spec => []TailIsLost
<1>1. ASSUME NEW chars \in Texts PROVE Legible(chars) = 0 .. chars - LineLen
  <2>1. ASSUME NEW k \in Legible(chars) PROVE k \in 0 .. chars - LineLen
    <3>1. PICK i \in RowsOf(chars), c \in Cells : DrawnRows(chars)[i][c] = k
      BY DEF Legible
    <3>2. k \in Nat
      BY DEF Legible
    <3> QED BY <3>1, <3>2, DrawnEarly
  <2>2. ASSUME NEW k \in 0 .. chars - LineLen PROVE k \in Legible(chars)
    <3>1. k \in Nat /\ LineLen \in Nat \ {0}
      BY RowFacts, LineLenFacts
    <3>2. k \div LineLen \in Nat /\ k % LineLen \in 0 .. LineLen - 1
          /\ k = LineLen * (k \div LineLen) + (k % LineLen)
      BY <3>1, DivMod
    <3> QED BY <3>2, EarlyDrawn
  <2> QED BY <2>1, <2>2
<1>2. ASSUME NEW chars \in Texts PROVE Repeated(chars)
  <2> SUFFICES ASSUME LineCount(chars) > 1, NEW last, last = LineCount(chars) - 1,
                      NEW c \in Cells, Copied(chars, last) <= c
               PROVE  DrawnRows(chars)[last][c] = DrawnRows(chars)[last - 1][c]
    BY DEF Repeated
  <2>1. last \in RowsOf(chars) /\ last > 0
    BY RowFacts DEF RowsOf
  <2> QED BY <2>1, LeftCell
<1>3. TailIsLost
  BY <1>1, <1>2 DEF TailIsLost
<1> QED BY <1>3, PTL
-----------------------------------------------------------------------------
(* The weights of the bits of a byte. *)
LEMMA Powers ==
  2^0 = 1 /\ 2^1 = 2 /\ 2^2 = 4 /\ 2^3 = 8 /\ 2^4 = 16 /\ 2^5 = 32 /\ 2^6 = 64 /\ 2^7 = 128
  OBVIOUS

(* The bits of a byte. *)
LEMMA BitsOfByte ==
  ASSUME NEW i \in 0 .. 255
  PROVE  /\ Bits(i)[0] = i % 2 /\ Bits(i)[1] = (i \div 2) % 2
         /\ Bits(i)[2] = (i \div 4) % 2 /\ Bits(i)[3] = (i \div 8) % 2
         /\ Bits(i)[4] = (i \div 16) % 2 /\ Bits(i)[5] = (i \div 32) % 2
         /\ Bits(i)[6] = (i \div 64) % 2 /\ Bits(i)[7] = (i \div 128) % 2
<1>1. i \div 1 = i
  OBVIOUS
<1> QED BY Powers, <1>1 DEF Bits

(* reverse_bits puts each bit where its mirror image was. *)
LEMMA Mirrored ==
  ASSUME NEW byte, NEW k \in 0 .. 7
  PROVE  ReverseBits(byte)[k] = byte[7 - k]
<1>1. \A b : \A j \in 0 .. 7 : /\ Swapped(b, 1)[j] = b[IF j % 2 = 0 THEN j + 1 ELSE j - 1]
                              /\ Swapped(b, 2)[j] = b[IF (j \div 2) % 2 = 0 THEN j + 2 ELSE j - 2]
                              /\ Swapped(b, 4)[j] = b[IF (j \div 4) % 2 = 0 THEN j + 4 ELSE j - 4]
  <2>1. \A j \in 0 .. 7 : j \div 1 = j
    OBVIOUS
  <2> QED BY <2>1 DEF Swapped
<1> DEFINE one == Swapped(byte, 1)
           two == Swapped(one, 2)
<1>2. ReverseBits(byte) = Swapped(two, 4)
  BY DEF ReverseBits
<1>3. \A j \in 0 .. 7 : one[j] = byte[IF j % 2 = 0 THEN j + 1 ELSE j - 1]
  BY <1>1
<1>4. \A j \in 0 .. 7 : two[j] = one[IF (j \div 2) % 2 = 0 THEN j + 2 ELSE j - 2]
  BY <1>1
<1>5. ReverseBits(byte)[k] = two[IF (k \div 4) % 2 = 0 THEN k + 4 ELSE k - 4]
  BY <1>1, <1>2
<1> HIDE DEF one, two
<1>6. k \in {0, 1, 2, 3, 4, 5, 6, 7}
  OBVIOUS
<1> QED BY <1>3, <1>4, <1>5, <1>6

(* The glass reads every address a byte can hold the way the driver means it. *)
LEMMA AddressReversed ==
  ASSUME NEW line \in 0 .. 255
  PROVE  Address(ReverseBits(Bits(line))) = line
<1> DEFINE b == Bits(line)
<1>1. Address(ReverseBits(b)) = b[0] + 2 * b[1] + 4 * b[2] + 8 * b[3]
                                + 16 * b[4] + 32 * b[5] + 64 * b[6] + 128 * b[7]
  BY Mirrored DEF Address
<1>2. /\ line = (line % 2) + 2 * (line \div 2)
      /\ line \div 2 = ((line \div 2) % 2) + 2 * (line \div 4)
      /\ line \div 4 = ((line \div 4) % 2) + 2 * (line \div 8)
      /\ line \div 8 = ((line \div 8) % 2) + 2 * (line \div 16)
      /\ line \div 16 = ((line \div 16) % 2) + 2 * (line \div 32)
      /\ line \div 32 = ((line \div 32) % 2) + 2 * (line \div 64)
      /\ line \div 64 = ((line \div 64) % 2) + 2 * (line \div 128)
      /\ line \div 128 = (line \div 128) % 2
  OBVIOUS
<1>3. line = (line % 2) + 2 * ((line \div 2) % 2) + 4 * ((line \div 4) % 2)
             + 8 * ((line \div 8) % 2) + 16 * ((line \div 16) % 2) + 32 * ((line \div 32) % 2)
             + 64 * ((line \div 64) % 2) + 128 * ((line \div 128) % 2)
  BY <1>2
<1> QED BY <1>1, <1>3, BitsOfByte

-----------------------------------------------------------------------------
(* A transfer is either two bytes of cmd or a line. *)
LEMMA TransferFacts ==
  ASSUME NEW start \in Nat, NEW num \in Nat, NEW comin
  PROVE  /\ DOMAIN Transfers(start, num, comin) = 1 .. 2 * num + 1
         /\ Len(Transfers(start, num, comin)) = 2 * num + 1
         /\ \A n \in 0 .. num :
              Transfers(start, num, comin)[2 * n + 1]
                = <<IF n = 0 THEN Mode(comin) ELSE Bits(0),
                    IF n = num THEN Bits(0) ELSE ReverseBits(Bits(start + n))>>
         /\ \A n \in 0 .. num : Len(Transfers(start, num, comin)[2 * n + 1]) = 2
         /\ \A n \in 0 .. num - 1 : Transfers(start, num, comin)[2 * n + 2] = RowBytes(n)
         /\ \A n \in 0 .. num - 1 : Len(Transfers(start, num, comin)[2 * n + 2]) = BytesPerLine
<1> DEFINE sent == Transfers(start, num, comin)
<1>1. DOMAIN sent = 1 .. 2 * num + 1 /\ Len(sent) = 2 * num + 1
  BY DEF Transfers
<1>2. ASSUME NEW n \in 0 .. num
      PROVE  sent[2 * n + 1] = <<IF n = 0 THEN Mode(comin) ELSE Bits(0),
                                 IF n = num THEN Bits(0) ELSE ReverseBits(Bits(start + n))>>
  <2>1. (2 * n + 1) % 2 = 1 /\ (2 * n + 1) \div 2 = n /\ 2 * n + 1 \in 1 .. 2 * num + 1
    OBVIOUS
  <2> QED BY <2>1 DEF Transfers
<1>3. ASSUME NEW n \in 0 .. num - 1
      PROVE  sent[2 * n + 2] = RowBytes(n)
  <2>1. (2 * n + 2) % 2 # 1 /\ (2 * n + 2) \div 2 - 1 = n /\ 2 * n + 2 \in 1 .. 2 * num + 1
    OBVIOUS
  <2> QED BY <2>1 DEF Transfers
<1>4. \A n \in 0 .. num - 1 : Len(RowBytes(n)) = BytesPerLine
  BY DEF RowBytes, BytesPerLine
<1> HIDE DEF sent
<1>5. \A n \in 0 .. num : Len(sent[2 * n + 1]) = 2
  BY <1>2
<1>6. \A n \in 0 .. num - 1 : Len(sent[2 * n + 2]) = BytesPerLine
  BY <1>3, <1>4
<1> QED BY <1>1, <1>2, <1>3, <1>5, <1>6 DEF sent

(* Where the transfers of each line begin. *)
LEMMA Begins ==
  ASSUME NEW n \in Nat
  PROVE  SentBefore(2 * n + 1) = 18 * n /\ SentBefore(2 * n + 2) = 18 * n + 2
<1>1. /\ (2 * n + 1) \div 2 = n /\ (2 * n + 1 - 1) \div 2 = n
      /\ (2 * n + 2) \div 2 = n + 1 /\ (2 * n + 2 - 1) \div 2 = n
  OBVIOUS
<1> QED BY <1>1 DEF SentBefore, BytesPerLine

(* A transfer's number is odd for cmd, even for a line. *)
LEMMA OddEven ==
  ASSUME NEW num \in Nat, NEW t \in 1 .. 2 * num + 1
  PROVE  \/ \E n \in 0 .. num : t = 2 * n + 1
         \/ \E n \in 0 .. num - 1 : t = 2 * n + 2
<1>1. \/ t = 2 * ((t - 1) \div 2) + 1
      \/ t = 2 * ((t - 2) \div 2) + 2 /\ t # 1
  OBVIOUS
<1>2. (t - 1) \div 2 \in 0 .. num
  OBVIOUS
<1>3. t # 1 /\ t = 2 * ((t - 2) \div 2) + 2 => (t - 2) \div 2 \in 0 .. num - 1
  OBVIOUS
<1> QED BY <1>1, <1>2, <1>3

(* The transfers follow one another, and none is too large. *)
LEMMA SentInARow ==
  ASSUME NEW start \in Nat, NEW num \in Nat, NEW comin,
         NEW sent, sent = Transfers(start, num, comin)
  PROVE  /\ BackToBack(sent)
         /\ \A t \in DOMAIN sent : Len(sent[t]) <= MaxTransfer
<1> SUFFICES ASSUME NEW t \in DOMAIN sent
             PROVE  SentBefore(t + 1) = SentBefore(t) + Len(sent[t]) /\ Len(sent[t]) <= MaxTransfer
  BY DEF BackToBack
<1>1. t \in 1 .. 2 * num + 1
  BY TransferFacts
<1>2. ASSUME NEW n \in 0 .. num, t = 2 * n + 1
      PROVE  SentBefore(t + 1) = SentBefore(t) + Len(sent[t]) /\ Len(sent[t]) <= MaxTransfer
  <2>1. Len(sent[t]) = 2 /\ t + 1 = 2 * n + 2
    BY <1>2, TransferFacts
  <2>2. SentBefore(t) = 18 * n /\ SentBefore(t + 1) = 18 * n + 2
    BY <1>2, <2>1, Begins
  <2> QED BY <2>1, <2>2 DEF MaxTransfer
<1>3. ASSUME NEW n \in 0 .. num - 1, t = 2 * n + 2
      PROVE  SentBefore(t + 1) = SentBefore(t) + Len(sent[t]) /\ Len(sent[t]) <= MaxTransfer
  <2>1. Len(sent[t]) = 16 /\ t + 1 = 2 * (n + 1) + 1
    BY <1>3, TransferFacts DEF BytesPerLine
  <2>2. SentBefore(2 * (n + 1) + 1) = 18 * (n + 1) /\ SentBefore(2 * n + 2) = 18 * n + 2
    <3>1. n \in Nat /\ n + 1 \in Nat
      OBVIOUS
    <3> QED BY <3>1, Begins
  <2> QED BY <1>3, <2>1, <2>2 DEF MaxTransfer
<1> QED BY <1>1, <1>2, <1>3, OddEven

(* Byte k of transfer t is where it should be among all bytes. *)
LEMMA ByteAt ==
  ASSUME NEW start \in Nat, NEW num \in Nat, NEW comin,
         NEW sent, sent = Transfers(start, num, comin),
         NEW t \in DOMAIN sent, NEW k \in 1 .. Len(sent[t])
  PROVE  BytesOf(sent)[SentBefore(t) + k] = sent[t][k]
<1> DEFINE b == SentBefore(t) + k
           Holds(u) == SentBefore(u) < b /\ b <= SentBefore(u + 1)
<1>1. DOMAIN sent = 1 .. 2 * num + 1 /\ Len(sent) = 2 * num + 1
  BY TransferFacts
<1>2. \A u \in 1 .. 2 * num + 2 : SentBefore(u) \in Nat
  BY DEF SentBefore, BytesPerLine
<1>3. \A u, v \in 1 .. 2 * num + 2 : u <= v => SentBefore(u) <= SentBefore(v)
  BY DEF SentBefore, BytesPerLine
<1>4. SentBefore(t + 1) = SentBefore(t) + Len(sent[t]) /\ Len(sent[t]) \in Nat
  <2>1. SentBefore(t + 1) = SentBefore(t) + Len(sent[t])
    BY SentInARow DEF BackToBack
  <2>2. Len(sent[t]) \in {2, 16}
    <3>1. /\ \A n \in 0 .. num : Len(sent[2 * n + 1]) = 2
          /\ \A n \in 0 .. num - 1 : Len(sent[2 * n + 2]) = BytesPerLine
      BY TransferFacts
    <3>2. t \in 1 .. 2 * num + 1
      BY <1>1
    <3> QED BY <3>1, <3>2, OddEven DEF BytesPerLine
  <2> QED BY <2>1, <2>2
<1>5. Holds(t) /\ b \in 1 .. SentBefore(2 * num + 2)
  BY <1>1, <1>2, <1>3, <1>4
<1>6. \A u \in DOMAIN sent : Holds(u) => u = t
  <2> SUFFICES ASSUME NEW u \in DOMAIN sent, Holds(u), u # t PROVE FALSE
    OBVIOUS
  <2>1. u \in 1 .. 2 * num + 1 /\ t \in 1 .. 2 * num + 1
    BY <1>1
  <2>2. CASE u < t
    <3>1. SentBefore(u + 1) <= SentBefore(t)
      BY <1>3, <2>1, <2>2
    <3>2. SentBefore(t) < b /\ b <= SentBefore(u + 1)
      BY <1>5
    <3>3. SentBefore(t) \in Nat /\ SentBefore(u + 1) \in Nat /\ b \in Nat
      BY <1>2, <1>5, <2>1
    <3> HIDE DEF b
    <3> QED BY <3>1, <3>2, <3>3
  <2>3. CASE t < u
    <3>1. SentBefore(t + 1) <= SentBefore(u)
      BY <1>3, <2>1, <2>3
    <3>2. SentBefore(u) < b /\ b <= SentBefore(t + 1)
      BY <1>5
    <3>3. SentBefore(u) \in Nat /\ SentBefore(t + 1) \in Nat /\ b \in Nat
      BY <1>2, <1>5, <2>1
    <3> HIDE DEF b
    <3> QED BY <3>1, <3>2, <3>3
  <2> QED BY <2>1, <2>2, <2>3
<1>7. (CHOOSE u \in DOMAIN sent : Holds(u)) = t
  <2> HIDE DEF Holds
  <2> QED BY <1>5, <1>6
<1>8. LET u == CHOOSE u \in DOMAIN sent : Holds(u)
      IN  BytesOf(sent)[b] = sent[u][b - SentBefore(u)]
  BY <1>1, <1>5 DEF BytesOf
<1>9. b - SentBefore(t) = k
  BY <1>1, <1>2
<1> QED BY <1>7, <1>8, <1>9

(* How many bytes a page is. *)
LEMMA BytesLength ==
  ASSUME NEW start \in Nat, NEW num \in Nat, NEW comin,
         NEW sent, sent = Transfers(start, num, comin)
  PROVE  Len(BytesOf(sent)) = 18 * num + 2
<1>1. SentBefore(Len(sent) + 1) = 18 * num + 2
  <2>1. Len(sent) = 2 * num + 1
    BY TransferFacts
  <2>2. Len(sent) + 1 = 2 * num + 2
    BY <2>1
  <2> QED BY <2>2, Begins
<1> QED BY <1>1 DEF BytesOf

(* The glass understands a transaction: each line, at its address. *)
LEMMA LinesReceived ==
  ASSUME NEW start \in Nat, NEW num \in Nat, NEW comin, start + num <= 256,
         NEW sent, sent = Transfers(start, num, comin)
  PROVE  Received(BytesOf(sent)) = {<<start + n, RowBytes(n)>> : n \in 0 .. num - 1}
<1> DEFINE bytes == BytesOf(sent)
           at(n) == 2 + n * (BytesPerLine + 2)
           got(n) == <<Address(bytes[at(n)]), [i \in 1 .. BytesPerLine |-> bytes[at(n) + i]]>>
<1>1. /\ DOMAIN sent = 1 .. 2 * num + 1
      /\ \A n \in 0 .. num :
           sent[2 * n + 1] = <<IF n = 0 THEN Mode(comin) ELSE Bits(0),
                               IF n = num THEN Bits(0) ELSE ReverseBits(Bits(start + n))>>
      /\ \A n \in 0 .. num - 1 : sent[2 * n + 2] = RowBytes(n)
  BY TransferFacts
<1>2. WritesLines(bytes[1])
  <2>1. 1 \in DOMAIN sent /\ 1 \in 1 .. Len(sent[1]) /\ sent[1][1] = Mode(comin)
    <3>1. 0 \in 0 .. num /\ 2 * 0 + 1 = 1 /\ 1 \in DOMAIN sent
      BY <1>1
    <3>2. sent[1] = <<Mode(comin), IF 0 = num THEN Bits(0) ELSE ReverseBits(Bits(start + 0))>>
      BY <1>1, <3>1
    <3> QED BY <3>1, <3>2
  <2>2. SentBefore(1) + 1 = 1
    BY DEF SentBefore, BytesPerLine
  <2>3. bytes[1] = Mode(comin)
    BY <2>1, <2>2, ByteAt
  <2>4. Bits(128)[7] = 1 /\ Bits(192)[7] = 1
    BY BitsOfByte
  <2> QED BY <2>3, <2>4 DEF Mode, WritesLines
<1>3. (Len(bytes) - 2) \div (BytesPerLine + 2) = num
  <2>1. Len(bytes) = 18 * num + 2
    BY BytesLength
  <2> QED BY <2>1 DEF BytesPerLine
<1>4. ASSUME NEW n \in 0 .. num - 1
      PROVE  got(n) = <<start + n, RowBytes(n)>>
  <2>1. bytes[at(n)] = ReverseBits(Bits(start + n))
    <3>1. /\ 2 * n + 1 \in DOMAIN sent /\ 2 \in 1 .. Len(sent[2 * n + 1])
          /\ sent[2 * n + 1][2] = ReverseBits(Bits(start + n))
      BY <1>1
    <3>2. SentBefore(2 * n + 1) + 2 = at(n)
      BY Begins DEF BytesPerLine
    <3> HIDE DEF bytes, at
    <3> QED BY <3>1, <3>2, ByteAt DEF bytes
  <2>2. ASSUME NEW i \in 1 .. BytesPerLine
        PROVE  bytes[at(n) + i] = <<n, i>>
    <3>1. /\ 2 * n + 2 \in DOMAIN sent /\ i \in 1 .. Len(sent[2 * n + 2])
          /\ sent[2 * n + 2][i] = <<n, i>>
      <4>1. sent[2 * n + 2] = RowBytes(n) /\ 2 * n + 2 \in DOMAIN sent
        BY <1>1
      <4>2. Len(RowBytes(n)) = BytesPerLine /\ RowBytes(n)[i] = <<n, i>>
        BY DEF RowBytes, BytesPerLine
      <4> QED BY <4>1, <4>2
    <3>2. SentBefore(2 * n + 2) + i = at(n) + i
      BY Begins DEF BytesPerLine
    <3> HIDE DEF bytes, at
    <3> QED BY <3>1, <3>2, ByteAt DEF bytes
  <2>3. Address(bytes[at(n)]) = start + n
    BY <2>1, AddressReversed
  <2> HIDE DEF bytes, at
  <2> QED BY <2>2, <2>3 DEF RowBytes
<1>5. Received(bytes) = {got(n) : n \in 0 .. num - 1}
  BY <1>2, <1>3 DEF Received
<1> HIDE DEF got
<1> QED BY <1>4, <1>5

(* Each line of a page arrives at its own place, for every size of glass and *)
(* page whose lines a byte can count.                                        *)
THEOREM PagesArrive == Spec => []PageArrives
<1>1. PanelInv => PageArrives
  <2> SUFFICES ASSUME PanelInv, drawing # Nothing, NEW comin \in BOOLEAN,
                      NEW sent, sent = Transfers(1 + pageY0, pageY1 - pageY0 + 1, comin)
               PROVE  /\ AllReversed
                      /\ \A i \in DOMAIN sent : Len(sent[i]) <= MaxTransfer
                      /\ BackToBack(sent)
                      /\ Received(BytesOf(sent)) = {<<l, RowBytes(l - 1 - pageY0)>> : l \in LinesSent}
    BY DEF PageArrives
  <2> DEFINE num == pageY1 - pageY0 + 1
  <2>1. /\ pageY0 \in Nat /\ num \in Nat /\ 1 + pageY0 + num <= Rows + 1
    BY PanelAssumption DEF PanelInv, LoopInv, TypeOK
  <2>2. AllReversed
    BY AddressReversed DEF AllReversed
  <2>3. BackToBack(sent) /\ \A i \in DOMAIN sent : Len(sent[i]) <= MaxTransfer
    BY <2>1, SentInARow
  <2>4. Received(BytesOf(sent)) = {<<1 + pageY0 + n, RowBytes(n)>> : n \in 0 .. num - 1}
    <3>1. 1 + pageY0 \in Nat /\ 1 + pageY0 + num <= 256
      BY <2>1, LinesAssumption, PanelAssumption
    <3>2. sent = Transfers(1 + pageY0, num, comin)
      OBVIOUS
    <3> HIDE DEF num
    <3> QED BY <2>1, <3>1, <3>2, LinesReceived
  <2>5. {<<1 + pageY0 + n, RowBytes(n)>> : n \in 0 .. num - 1}
          = {<<l, RowBytes(l - 1 - pageY0)>> : l \in LinesSent}
    <3>1. LinesSent = {l \in Nat : 1 + pageY0 <= l /\ l < 1 + pageY0 + num}
      BY <2>1, PanelAssumption DEF LinesSent, Lines
    <3>2. \A n \in 0 .. num - 1 : 1 + pageY0 + n \in LinesSent /\ (1 + pageY0 + n) - 1 - pageY0 = n
      BY <2>1, <3>1
    <3>3. \A l \in LinesSent : l - 1 - pageY0 \in 0 .. num - 1 /\ 1 + pageY0 + (l - 1 - pageY0) = l
      BY <2>1, <3>1
    <3> HIDE DEF num
    <3> QED BY <3>2, <3>3
  <2> QED BY <2>2, <2>3, <2>4, <2>5
<1> QED BY <1>1, PanelInvInit, PanelInvStep, PTL DEF Spec
=============================================================================
