------------------------------ MODULE UshDecode ------------------------------
(***************************************************************************)
(* ush_utils_decode_ascii, which decodes the \xNN of an argument in the    *)
(* place where it reads it: one byte per turn, read at k and written at    *)
(* size + 1 of the same buffer.  Bytes are numbers, a string ends at a     *)
(* byte 0.                                                                 *)
(***************************************************************************)
EXTENDS Integers, FiniteSetsExt, SequencesExt

Backslash == 92
LetterX   == 120

\* hex_to_dec
HexToDec(ch) ==
  CASE ch \in 48 .. 57  -> ch - 48
    [] ch \in 65 .. 70  -> ch - 55
    [] ch \in 97 .. 102 -> ch - 87
    [] OTHER            -> 0

Store(d, byte) == [buf |-> [d.buf EXCEPT ![d.size + 1] = byte], size |-> d.size + 1,
                   state |-> 0, val |-> d.val]

\* Mutants: the high digit keeps its place; a byte behind a backslash leaves
\* the decoder there.
HighLow(ch)     == HexToDec(ch)
StoreStay(d, ch) == [d EXCEPT !.buf[d.size + 1] = ch, !.size = @ + 1]

High(ch) == (HexToDec(ch) * 16) % 256
StoreEscaped(d, ch) == Store(d, ch)

DecodeByte(d, ch) ==
  CASE d.state = 0 -> IF ch = Backslash THEN [d EXCEPT !.state = 1] ELSE Store(d, ch)
    [] d.state = 1 -> IF ch = LetterX THEN [d EXCEPT !.state = 2] ELSE StoreEscaped(d, ch)
    [] d.state = 2 -> [d EXCEPT !.val = High(ch), !.state = 3]
    [] d.state = 3 -> Store(d, d.val + HexToDec(ch))

\* A turn of the loop: it ends at a byte 0 and when the buffer is full.
Turn(d, k, length) ==
  IF d.buf[k] # 0 /\ d.size < length THEN DecodeByte(d, d.buf[k]) ELSE d

Decode(text) ==
  LET d[k \in 0 .. Len(text)] ==
        IF k = 0 THEN [buf |-> text \o <<0>>, size |-> 0, state |-> 0, val |-> 0]
        ELSE Turn(d[k - 1], k, Len(text))
  IN  d[Len(text)]

DataOf(d) == SubSeq(d.buf, 1, d.size)
StringIn(buf) == SubSeq(buf, 1, Min({k \in DOMAIN buf : buf[k] = 0}) - 1)

=============================================================================
