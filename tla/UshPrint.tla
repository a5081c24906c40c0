------------------------------ MODULE UshPrint ------------------------------
(***************************************************************************)
(* ush_printf and the output buffer it shares with the echo of the typed   *)
(* bytes and with ush_flush: positions and lengths, not contents.  The     *)
(* string in the buffer is its length, strlen(desc->output_buffer).        *)
(***************************************************************************)
EXTENDS Integers, FiniteSetsExt

CONSTANTS
  OutSize,      \* desc->output_buffer_size
  Lengths       \* lengths of the texts that are printed

\* What ush_init asserts of the output buffer.
ASSUME PrintAssumption ==
  /\ OutSize \in Nat /\ OutSize >= 4
  /\ Lengths \subseteq Nat

\* strlen of "...overflow error\r\n" and of "...format error\r\n".
OverflowErrorLen == 19
FormatErrorLen   == 17

VARIABLES
  state,     \* "WRITE_CHAR", or "OTHER"
  source,    \* write_buf: "output_buffer", or "other"
  text,      \* strlen(desc->output_buffer)
  size,      \* write_size
  pos,       \* write_pos
  touched,   \* the least and the greatest index the last call wrote in the buffer
  end        \* how the buffer's string ends: in "text"; in the "error" message
             \* forced into it since it was last written anew; or "outside" the
             \* buffer, where its terminator went since then

vars == <<state, source, text, size, pos, touched, end>>

Nothing == [low |-> 0, high |-> 0]
Span(low, high) == [low |-> low, high |-> high]

Init == /\ state = "OTHER" /\ source = "other"
        /\ text = 0 /\ size = 0 /\ pos = 0
        /\ touched = Nothing /\ end = "text"

\* The echo of a byte: a string of up to three bytes and its terminator.
Echo(n) ==
  /\ state # "WRITE_CHAR"
  /\ text' = n /\ touched' = Span(0, n)
  /\ state' = "WRITE_CHAR" /\ source' = "output_buffer" /\ size' = n /\ pos' = 0
  /\ end' = "text"

\* ush_print and every other message that is not in the output buffer.
PrintText(n) ==
  /\ state' = "WRITE_CHAR" /\ source' = "other" /\ size' = n /\ pos' = 0
  /\ touched' = Nothing
  /\ UNCHANGED <<text, end>>

\* ush_flush prints the string that is in the output buffer, again.
Flush ==
  /\ state' = "WRITE_CHAR" /\ source' = "output_buffer" /\ size' = text /\ pos' = 0
  /\ touched' = Nothing
  /\ end' = IF end = "outside" THEN end ELSE "text"
  /\ UNCHANGED text

SendByte ==
  /\ state = "WRITE_CHAR" /\ pos < size
  /\ pos' = pos + 1
  /\ touched' = Nothing
  /\ UNCHANGED <<state, source, text, size, end>>

SendEnd ==
  /\ state = "WRITE_CHAR" /\ pos >= size
  /\ state' = "OTHER"
  /\ touched' = Nothing
  /\ UNCHANGED <<source, text, size, pos, end>>

(***************************************************************************)
(* ush_printf.  It appends to what the output buffer still holds if the    *)
(* last thing written came from it, whether or not it was sent, and starts *)
(* from an empty buffer otherwise.                                         *)
(***************************************************************************)
KeepsText == source = "output_buffer"

Insert == IF KeepsText THEN text ELSE 0

\* Mutants: starting from an empty buffer, the position or the count of the
\* message before is kept.
SentStale == pos
DueStale  == size

Sent == IF KeepsText THEN pos ELSE 0
Due  == IF KeepsText THEN size ELSE 0

\* vsnprintf stores what there is room for, and a terminator; where there is no
\* room at all, nothing.
Room == OutSize - Insert
Stored(n) == IF Room = 0 THEN 0 ELSE Min({n, Room - 1})

StartPrintf == state' = "WRITE_CHAR" /\ source' = "output_buffer" /\ pos' = Sent

\* A terminator outside stays there until the string is written anew.
EndAfter(ending) ==
  CASE KeepsText /\ end = "outside" -> "outside"
    [] text' >= OutSize             -> "outside"
    [] OTHER                        -> ending

EndKept == IF KeepsText THEN end ELSE "text"

PrintfFits(n) ==
  /\ n = Stored(n)
  /\ StartPrintf
  /\ text' = Insert + n
  /\ size' = Due + n
  /\ touched' = Span(0, Insert + n)
  /\ end' = EndAfter(EndKept)

\* Mutant: the room is taken for one byte more.
ErrorFitsLoose(len, message) == OutSize - len + 1 >= message

\* Whether an error message is taken to fit behind a string of length len: the
\* code does not ask for its terminator.
ErrorFits(len, message) == OutSize - len >= message

\* The error message follows the string that vsnprintf has stored n bytes of, or
\* replaces the end of the buffer.
SaysError(n, message) ==
  LET len == Insert + Stored(n)
      at  == OutSize - (message + 1)
  IN  /\ StartPrintf
      /\ IF ErrorFits(len, message)
         THEN /\ text' = len + message
              /\ size' = Due + Stored(n) + message
              /\ touched' = Span(0, len + message)
              /\ end' = EndAfter(EndKept)
         ELSE /\ text' = OutSize - 1
              /\ size' = OutSize
              /\ touched' = Span(Min({0, at}), Max({len, OutSize - 1}))
              /\ end' = EndAfter("error")

\* The text is cut at the room there was.
PrintfOverflows(n) == n > Stored(n) /\ SaysError(n, OverflowErrorLen)

\* vsnprintf fails at a conversion behind n bytes of text.
PrintfFails(n) == SaysError(n, FormatErrorLen)

Printf(n) == PrintfFits(n) \/ PrintfOverflows(n) \/ PrintfFails(n)

Next == \/ \E n \in 0 .. 3 : Echo(n)
        \/ \E n \in Lengths : PrintText(n) \/ Printf(n)
        \/ Flush \/ SendByte \/ SendEnd

Spec == Init /\ [][Next]_vars

-----------------------------------------------------------------------------
\* The lengths and positions are natural numbers; only "touched" may be
\* negative, in a buffer too small for the error messages.
TypeOK ==
  /\ state \in {"WRITE_CHAR", "OTHER"} /\ source \in {"output_buffer", "other"}
  /\ end \in {"text", "error", "outside"}
  /\ text \in Nat /\ size \in Nat /\ pos \in Nat
  /\ touched \in [low : Int, high : Int]

\* The comments of ush_printf: "Error message fits", "Error message does NOT
\* fit".  Nothing is written in front of the output buffer or past its end.
WritesInBuffer == touched.low >= 0 /\ touched.high < OutSize

\* How far a call goes astray, whatever the size of the buffer: past it by the
\* one terminator of a message that was said to fit, which leaves the string
\* without an end of its own; in front of a buffer shorter than the longer message
\* by what the message is longer.  Nothing is said of the calls after the string
\* has lost its end, until it is written anew.
NearBuffer == /\ touched.low >= Min({0, OutSize - (OverflowErrorLen + 1)})
              /\ touched.high < OutSize \/ (touched.high = OutSize /\ end = "outside")

WritesNearBuffer == [][end # "outside" => NearBuffer']_vars

\* What is sent from the output buffer is the string in it: the count of bytes
\* to send, kept apart from the terminator that ends the string, agrees with
\* it however echoes, flushes and unfinished messages follow each other, until
\* an error message takes the place of text.
CountsText == KeepsText /\ end = "text" => size = text

\* Not even then are more bytes sent than the buffer holds, unless the string
\* goes on behind it.
SendsFromBuffer == KeepsText /\ end # "outside" => pos <= size /\ size <= OutSize

=============================================================================
