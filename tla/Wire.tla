-------------------------------- MODULE Wire --------------------------------
(***************************************************************************)
(* The bytes of a page on the SPI bus (update_lines of the driver          *)
(* u8g_dev_ls010b7dh01.c, spi.c), and what the glass makes of them.  One   *)
(* page is one transaction: the chip select is asserted, every             *)
(* __spi_write_buf is one transfer, the chip select is released.           *)
(***************************************************************************)
EXTENDS Integers, Sequences

BytesPerLine == 16   \* LS010B7DH01_BYTES_PER_LINE
MaxTransfer == 16    \* "max 16 byte xfers" (spi.c:97)

(* A byte is its bits, the least significant first. *)
Bits(i) == [k \in 0 .. 7 |-> (i \div 2^k) % 2]

(* (rv & mask) >> s | (rv & ~mask) << s: groups of s bits change places with *)
(* their neighbours.                                                         *)
Swapped(byte, s) == [k \in 0 .. 7 |-> byte[IF (k \div s) % 2 = 0 THEN k + s ELSE k - s]]

(* Mutant: the nibbles stay where they are. *)
ReverseBitsShort(byte) == Swapped(Swapped(byte, 1), 2)

(* reverse_bits *)
ReverseBits(byte) == Swapped(Swapped(Swapped(byte, 1), 2), 4)

(* SHARPLCD_MODE_DYNAMIC, with SHARPLCD_MODE_COMIN every other page *)
Mode(comin) == Bits(IF comin THEN 128 + 64 ELSE 128)

(* A line of the page buffer: its bytes are told apart by row and column. *)
RowBytes(row) == [i \in 1 .. BytesPerLine |-> <<row, i>>]

(***************************************************************************)
(* The transfers of update_lines for num lines of the page buffer, the     *)
(* first of which is line start of the glass: cmd in front of each line and *)
(* once more at the end, and each line.  cmd[0] is the mode in front of the *)
(* first line, and after it the trailing zeros of the line before.         *)
(***************************************************************************)
Transfers(start, num, comin) ==
  LET cmd(row) == <<IF row = 0 THEN Mode(comin) ELSE Bits(0),
                    IF row = num THEN Bits(0) ELSE ReverseBits(Bits(start + row))>>
  IN  [t \in 1 .. 2 * num + 1 |->
         IF t % 2 = 1 THEN cmd(t \div 2) ELSE RowBytes(t \div 2 - 1)]

(* How many bytes go over the bus before transfer t.                         *)
SentBefore(t) == (t \div 2) * 2 + ((t - 1) \div 2) * BytesPerLine

(* The transfers begin where SentBefore says. *)
BackToBack(transfers) ==
  \A t \in DOMAIN transfers : SentBefore(t + 1) = SentBefore(t) + Len(transfers[t])

(* The bytes of the transaction, in the order they are sent. *)
BytesOf(transfers) ==
  [b \in 1 .. SentBefore(Len(transfers) + 1) |->
     LET t == CHOOSE t \in DOMAIN transfers : SentBefore(t) < b /\ b <= SentBefore(t + 1)
     IN  transfers[t][b - SentBefore(t)]]

-----------------------------------------------------------------------------
(***************************************************************************)
(* The glass, as the driver uses it: the mode, then for each line its      *)
(* address with the least significant bit first, its bytes and eight zero  *)
(* bits, and eight more zero bits at the end.                              *)
(***************************************************************************)
(* Bytes come with the most significant bit first: bit 7 is the first one. *)
Address(byte) == byte[7] + 2 * byte[6] + 4 * byte[5] + 8 * byte[4]
                   + 16 * byte[3] + 32 * byte[2] + 64 * byte[1] + 128 * byte[0]

WritesLines(byte) == byte[7] = 1

(* What the glass holds of a transaction: pairs of a line and its bytes. *)
Received(bytes) ==
  LET step  == BytesPerLine + 2
      lines == (Len(bytes) - 2) \div step
      at(n) == 2 + n * step   \* the address of the n-th line
  IN  IF ~WritesLines(bytes[1]) THEN {}
      ELSE {<<Address(bytes[at(n)]), [i \in 1 .. BytesPerLine |-> bytes[at(n) + i]]>> :
              n \in 0 .. lines - 1}
=============================================================================
