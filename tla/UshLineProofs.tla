--------------------------- MODULE UshLineProofs ---------------------------
(***************************************************************************)
(* Theorems of UshLine, for every size of the input buffer and every       *)
(* alphabet: the type invariant, and what keeps the parser inside the      *)
(* buffer it rewrites.                                                     *)
(***************************************************************************)
EXTENDS UshLine, UshTokens, Induction, SequenceTheorems, FiniteSetTheorems, TLAPS

\* The byte at position i of the buffer that holds the line in "entered": a
\* line that fills the buffer has lost its first byte to the wrap of in_pos.
TypedByte(i) == IF i = 0 /\ Len(entered) = InSize THEN "NUL" ELSE entered[i + 1]

\* An edited line holds no newline; an entered one holds one, at its end.
EditedLine ==
  Editing => \A i \in 0 .. inPos - 1 : buf[i] \notin Newlines

EnteredLine ==
  Entered => /\ Len(entered) \in 1 .. InSize
             /\ entered[Len(entered)] \in Newlines
             /\ \A i \in 1 .. Len(entered) - 1 : entered[i] \notin Newlines

\* What the parser has still to read is what was typed.
UnparsedLine ==
  Entered => \A i \in (IF Parsing THEN inPos ELSE 0) .. Len(entered) - 1 :
               buf[i] = TypedByte(i)

\* The parser stops at the newline, and writes behind the byte it reads: a
\* pending escape keeps the room for the second byte of \x.
ParserBehind ==
  Parsing => /\ inPos < Len(entered)
             /\ outPos + (IF esc THEN 1 ELSE 0) <= inPos

LineInv == EditedLine /\ EnteredLine /\ UnparsedLine /\ ParserBehind

IInv == TypeOK /\ LineInv

-----------------------------------------------------------------------------
(***************************************************************************)
(* The type invariant.                                                     *)
(***************************************************************************)

\* What the terminal shows stays a sequence of symbols.
LEMMA ScreenType ==
  ASSUME NEW scr \in Seq(Symbols), NEW sym \in Symbols
  PROVE  Screen(scr, sym) \in Seq(Symbols)
<1>1. <<"]$">> \in Seq(Symbols) /\ << >> \in Seq(Symbols)
  BY DEF Symbols
<1>2. Append(scr, sym) \in Seq(Symbols)
  OBVIOUS
<1>3. scr # << >> => Front(scr) \in Seq(Symbols)
  BY DEF Front
<1>4. QED
  BY <1>1, <1>2, <1>3 DEF Screen, Newlines

\* So does the echo ush_read_echo_service prepares.
LEMMA EchoType ==
  ASSUME NEW ch \in Chars
  PROVE  EchoText(ch) \in Seq(Symbols)
<1>1. {ch, "CR", "LF", "BS", "SP"} \subseteq Symbols
  BY DEF Chars, Symbols
<1>2. \A a, b, c \in Symbols : {<< >>, <<a>>, <<a, b>>, <<a, b, c>>} \subseteq Seq(Symbols)
  OBVIOUS
<1>3. {<< >>, <<ch>>, <<"CR", "LF">>, <<"BS", "SP", "BS">>} \subseteq Seq(Symbols)
  BY <1>1, <1>2
<1>4. QED
  BY <1>3 DEF EchoText

\* The edited line is in_pos bytes long.
LEMMA BufLineType ==
  ASSUME TypeOK, Editing
  PROVE  BufLine \in Seq(Chars) /\ Len(BufLine) = inPos
<1>1. \A i \in 1 .. inPos : buf[i - 1] \in Chars
  BY LineAssumption DEF TypeOK, Index
<1>2. BufLine \in [1 .. inPos -> Chars] /\ inPos \in Nat
  BY <1>1 DEF BufLine, TypeOK
<1>3. QED
  BY <1>2, SeqDef

\* The texts written as one message are sequences of symbols.
LEMMA MessageType == {<<"msg">>, <<"CR", "LF">>} \subseteq Seq(Symbols)
BY DEF Symbols, Chars

\* The part of the type invariant about writing, when the machine is in one of
\* the states "next" or writes a message on its way to one.
WriterOK(next) ==
  /\ state \in next \/ (state = "WRITE_CHAR" /\ writeNext \in next)
  /\ writeNext \in States \ ParseStates
  /\ wbuf \in Seq(Symbols) /\ wpos \in 0 .. Len(wbuf)

\* Storing parsed bytes leaves a buffer of bytes.
LEMMA StoredType ==
  ASSUME TypeOK, NEW text \in Seq(Chars)
  PROVE  Stored(text) \in [Index -> Chars]
<1>1. \A p \in outPos .. outPos + Len(text) - 1 : text[p - outPos + 1] \in Chars
  BY DEF TypeOK
<1>2. QED
  BY <1>1 DEF Stored, TypeOK

\* What the parser stores for a byte are bytes.
LEMMA EmittedType ==
  ASSUME NEW ch \in Chars, NEW mode, NEW escaped \in BOOLEAN
  PROVE  Emitted(mode, escaped, ch) \in Seq(Chars)
<1>1. {ch, "BSL", "x", "NUL"} \subseteq Chars
  BY DEF Chars
<1>2. \A a, b \in Chars : {<< >>, <<a>>, <<a, b>>} \subseteq Seq(Chars)
  OBVIOUS
<1>3. {<< >>, <<ch>>, <<"NUL">>, <<"BSL", "x">>} \subseteq Seq(Chars)
  BY <1>1, <1>2
<1>4. QED
  BY <1>3 DEF Emitted

\* The parser leaves its states only on a newline.
LEMMA ModeType ==
  ASSUME NEW mode \in ParseStates, NEW escaped \in BOOLEAN, NEW ch
  PROVE  ModeAfter(mode, escaped, ch) \in ParseStates
BY DEF ModeAfter, ParseStates

\* The variables of the line discipline keep their types in every reachable
\* state; in_pos of an edited line is an index of the input buffer.
THEOREM TypeCorrect == Spec => []TypeOK
<1> USE LineAssumption
<1>1. Init => TypeOK
  <2> SUFFICES ASSUME Init PROVE TypeOK
    OBVIOUS
  <2>1. << >> \in Seq(Symbols) /\ << >> \in Seq(Chars) /\ wbuf \in Seq(Symbols) /\ Len(wbuf) = 1
    BY MessageType DEF Init
  <2>2. buf \in [Index -> Chars]
    BY DEF Init, Chars
  <2>3. QED
    BY <2>1, <2>2 DEF Init, TypeOK, States, ReadStates, ParseStates, PromptStates,
                      ProcessStates, Editing, Index
<1>2. TypeOK /\ [Next]_vars => TypeOK'
  <2> SUFFICES ASSUME TypeOK, [Next]_vars PROVE TypeOK'
    OBVIOUS
  <2> USE DEF TypeOK, States, ReadStates, ParseStates, PromptStates, ProcessStates,
              Editing, write, edit, parse
  <2>1. CASE WriteByte
    <3>1. wbuf[wpos + 1] \in Symbols
      BY <2>1 DEF WriteByte
    <3>2. shown' \in Seq(Symbols)
      BY <2>1, <3>1, ScreenType DEF WriteByte
    <3>3. QED
      BY <2>1, <3>2 DEF WriteByte
  <2>2. CASE WriteEnd
    BY <2>2 DEF WriteEnd
  <2>3. CASE ResetLine
    BY <2>3, MessageType DEF ResetLine, WritePointer
  <2>4. CASE ResetPrompt
    BY <2>4 DEF ResetPrompt
  <2>5. CASE Prompt
    <3>1. <<PromptPiece[state]>> \in Seq(Symbols)
      BY <2>5 DEF Prompt, PromptPiece, Symbols
    <3>2. (IF state = "PROMPT_SUFFIX" THEN promptNext ELSE PromptAfter[state])
             \in {"RESET", "READ_PREPARE"} \cup PromptStates
      BY <2>5 DEF Prompt, PromptAfter
    <3>3. QED
      BY <2>5, <3>1, <3>2 DEF Prompt, WritePointer
  <2>6. CASE ReadStart
    <3>1. buf' \in [Index -> Chars]
      BY <2>6 DEF ReadStart, Chars
    <3>2. inPos' \in Index
      BY <2>6 DEF ReadStart, Index
    <3>3. entered' \in Seq(Chars)
      <4>1. << >> \in Seq(Chars)
        BY ONLY EmptySeq
      <4> QED BY ONLY <2>6, <4>1 DEF ReadStart
    <3>4. /\ state' = "READ_CHAR" /\ ansi' = 0 /\ overrun' = FALSE
          /\ UNCHANGED <<write, promptNext, outPos, args, esc, work, calls, shown>>
      BY ONLY <2>6 DEF ReadStart
    <3>5. UNCHANGED <<writeNext, wbuf, wpos>>
      BY ONLY <3>4 DEF write
    <3>6. state' \in States /\ ansi' \in 0 .. 2
      BY ONLY <3>4 DEF States, ReadStates
    <3>7. overrun' \in BOOLEAN
      BY ONLY <3>4, Zenon
    <3>8. QED
      BY ONLY TypeOK, <3>1, <3>2, <3>3, <3>4, <3>5, <3>6, <3>7 DEF TypeOK, Index
  <2>7. CASE ReadInterrupt
    BY <2>7, MessageType DEF ReadInterrupt, Reads, WritePointer
  <2>8. CASE ReadBackspace
    <3>1. buf' \in [Index -> Chars] /\ "BS" \in Chars
      BY <2>8 DEF ReadBackspace, Chars
    <3>2. EchoText("BS") \in Seq(Symbols)
      BY <3>1, EchoType
    <3>3. QED
      BY <2>8, <3>1, <3>2 DEF ReadBackspace, Reads, CanErase, Echo, WritePointer, Newlines, Index
  <2>9. CASE ReadEscape
    BY <2>9 DEF ReadEscape, Reads
  <2>10. CASE \E ch \in Typed : ReadEscaped(ch)
    BY <2>10 DEF ReadEscaped, Reads, AnsiAfter
  <2>11. ASSUME NEW ch \in Typed, ReadStore(ch) PROVE TypeOK'
    <3>1. ch \in Chars /\ "NUL" \in Chars
      BY DEF Chars
    <3>2. buf' \in [Index -> Chars]
      BY <2>11, <3>1 DEF ReadStore
    <3>3. entered' \in Seq(Chars)
      BY <2>11, <3>1, BufLineType DEF ReadStore, Reads
    <3>4. EchoText(ch) \in Seq(Symbols)
      BY <3>1, EchoType
    <3>5. inPos' \in Index /\ inPos' \in Nat
      BY <2>11 DEF ReadStore, Reads, Wrap, Index
    <3>6. state' = "WRITE_CHAR" /\ writeNext' \in {"PARSE_PREPARE", "READ_CHAR"}
            /\ wbuf' \in Seq(Symbols) /\ wpos' = 0
      BY <2>11, <3>4 DEF ReadStore, Echo, WritePointer
    <3>7. overrun' \in BOOLEAN /\ UNCHANGED <<promptNext, ansi, parse, work, calls, shown>>
      BY <2>11 DEF ReadStore
    <3>8. QED
      BY <3>2, <3>3, <3>5, <3>6, <3>7
  <2>12. CASE ParseStart
    BY <2>12 DEF ParseStart
  <2>13. ASSUME NEW ch \in Fetched, ParseStandard(ch) PROVE TypeOK'
    <3>1. ch \in Chars
      BY <2>13 DEF Fetched
    <3>2. Emitted(state, esc, ch) \in Seq(Chars)
      BY <3>1, EmittedType
    <3>3. buf' \in [Index -> Chars] /\ outPos' \in Nat
      BY <2>13, <3>2, StoredType DEF ParseStandard
    <3>4. state' \in ParseStates
      BY <2>13, ModeType DEF ParseStandard
    <3>5. inPos' \in Nat /\ args' \in Nat /\ esc' \in BOOLEAN
      BY <2>13 DEF ParseStandard
    <3>6. QED
      BY <2>13, <3>3, <3>4, <3>5 DEF ParseStandard
  <2>14. ASSUME NEW ch \in Fetched, ParseNewline(ch) PROVE TypeOK'
    <3>1. buf' \in [Index -> Chars]
      <4>1. <<"NUL">> \in Seq(Chars)
        BY DEF Chars
      <4>2. QED
        BY <2>14, <4>1, StoredType DEF ParseNewline, Terminator
    <3>2. WriterOK({"RESET", "RESET_PROMPT", "PROCESS_START"})' /\ work' \in 0 .. MaxWork
      <4>1. CASE state' \in {"RESET", "RESET_PROMPT"} /\ UNCHANGED <<write, work>>
        BY <4>1 DEF WriterOK
      <4>2. CASE \E next \in {"RESET", "RESET_PROMPT"} :
                   WritePointer(<<"msg">>, next) /\ UNCHANGED work
        BY <4>2, MessageType DEF WriterOK, WritePointer
      <4>3. CASE state' = "PROCESS_START" /\ work' \in 0 .. MaxWork /\ UNCHANGED write
        BY <4>3 DEF WriterOK
      <4>4. QED
        BY <2>14, <4>1, <4>2, <4>3 DEF ParseNewline, CommandOutcome
    <3>3. entered' \in Seq(Chars)
      BY <2>14 DEF ParseNewline
    <3>4. inPos' \in Nat /\ outPos' \in Nat
      BY <2>14 DEF ParseNewline
    <3>5. QED
      BY <2>14, <3>1, <3>2, <3>3, <3>4 DEF ParseNewline, WriterOK
  <2>15. CASE ProcessStep
    <3>1. PICK next \in ProcessStates : \/ state' = next /\ UNCHANGED write
                                       \/ WritePointer(<<"msg">>, next)
      BY <2>15 DEF ProcessStep
    <3>2. WriterOK(ProcessStates)'
      <4>1. CASE state' = next /\ UNCHANGED write
        BY <4>1 DEF WriterOK
      <4>2. CASE WritePointer(<<"msg">>, next)
        BY <4>2, MessageType DEF WritePointer, WriterOK
      <4>3. QED
        BY <3>1, <4>1, <4>2
    <3>3. QED
      BY <2>15, <3>2 DEF ProcessStep, WriterOK
  <2>16. CASE ProcessEnd
    <3>1. PICK next \in {"RESET", "RESET_PROMPT"} :
            \/ state' = next /\ UNCHANGED write
            \/ WritePointer(<<"msg">>, next)
      BY <2>16 DEF ProcessEnd
    <3>2. WriterOK({"RESET", "RESET_PROMPT"})'
      <4>1. CASE state' = next /\ UNCHANGED write
        BY <4>1 DEF WriterOK
      <4>2. CASE WritePointer(<<"msg">>, next)
        BY <4>2, MessageType DEF WritePointer, WriterOK
      <4>3. QED
        BY <3>1, <4>1, <4>2
    <3>3. QED
      BY <2>16, <3>2 DEF ProcessEnd, WriterOK
  <2>17. CASE AppPrint
    BY <2>17, MessageType DEF AppPrint, WritePointer
  <2>18. CASE UNCHANGED vars
    BY <2>18 DEF vars
  <2>19. QED
    BY <2>1, <2>2, <2>3, <2>4, <2>5, <2>6, <2>7, <2>8, <2>9, <2>10, <2>11, <2>12,
       <2>13, <2>14, <2>15, <2>16, <2>17, <2>18 DEF Next, Service, Read, ParseChar
<1>3. QED
  BY <1>1, <1>2, PTL DEF Spec

-----------------------------------------------------------------------------
(***************************************************************************)
(* The parser in the buffer it rewrites.                                   *)
(***************************************************************************)

\* Outside editing and parsing the invariant asks nothing.
LEMMA IdleLine == ASSUME ~Editing, ~Entered PROVE LineInv
BY DEF LineInv, EditedLine, EnteredLine, UnparsedLine, ParserBehind, Entered

\* The newline that ends a line is stored last; when it fills the buffer, the
\* terminator written after it replaces the first byte of the line, not the
\* newline, because the buffer has room for more than one byte.
LEMMA StoreNewline ==
  ASSUME InSize > 1, TypeOK, LineInv, NEW ch \in Newlines, ReadStore(ch)
  PROVE  LineInv'
<1> USE LineAssumption
<1>1. ~Editing' /\ ~Parsing' /\ Editing
  BY DEF ReadStore, Reads, Echo, WritePointer, Editing, Parsing, ParseStates
<1>2. /\ inPos \in Index /\ inPos \in 0 .. InSize - 1
      /\ buf \in [Index -> Chars]
      /\ \A i \in 0 .. inPos - 1 : buf[i] \notin Newlines
  BY <1>1 DEF TypeOK, LineInv, EditedLine, Index
<1>3. /\ entered' = Append(BufLine, ch)
      /\ buf' = [[buf EXCEPT ![inPos] = ch] EXCEPT ![Wrap(inPos + 1)] = "NUL"]
  BY DEF ReadStore
<1>4. /\ Len(entered') = inPos + 1
      /\ entered'[inPos + 1] = ch
      /\ \A i \in 1 .. inPos : entered'[i] = buf[i - 1]
  <2>1. BufLine \in Seq(Chars) /\ Len(BufLine) = inPos
    BY <1>1, BufLineType
  <2>2. \A i \in 1 .. inPos : BufLine[i] = buf[i - 1]
    BY DEF BufLine
  <2>3. QED
    BY <1>3, <2>1, <2>2
<1>5. EnteredLine'
  BY <1>2, <1>4 DEF EnteredLine
<1>6. ASSUME NEW i \in 0 .. inPos PROVE buf'[i] = TypedByte(i)'
  <2>1. CASE inPos + 1 < InSize
    BY <1>2, <1>3, <1>4, <2>1 DEF Wrap, Index, TypedByte
  <2>2. CASE inPos + 1 = InSize
    BY <1>2, <1>3, <1>4, <2>2 DEF Wrap, Index, TypedByte
  <2>3. QED
    BY <1>2, <2>1, <2>2
<1>7. UnparsedLine'
  BY <1>1, <1>2, <1>4, <1>6 DEF UnparsedLine
<1>8. QED
  BY <1>1, <1>5, <1>7 DEF LineInv, EditedLine, ParserBehind

\* Any other byte stored, wrapping or not, leaves a line without newlines.
LEMMA StoreOther ==
  ASSUME InSize > 1, TypeOK, LineInv, NEW ch \in Typed \ Newlines, ReadStore(ch)
  PROVE  LineInv'
<1> USE LineAssumption
<1>1. Editing' /\ ~Entered' /\ Editing
  BY DEF ReadStore, Reads, Echo, WritePointer, Editing, Entered, Parsing, ParseStates
<1>2. /\ inPos \in 0 .. InSize - 1
      /\ buf \in [Index -> Chars]
      /\ \A i \in 0 .. inPos - 1 : buf[i] \notin Newlines
      /\ "NUL" \notin Newlines
  BY <1>1 DEF TypeOK, LineInv, EditedLine, Index, Newlines
<1>3. /\ inPos' = Wrap(inPos + 1)
      /\ buf' = [[buf EXCEPT ![inPos] = ch] EXCEPT ![Wrap(inPos + 1)] = "NUL"]
  BY DEF ReadStore
<1>4. EditedLine'
  BY <1>2, <1>3 DEF EditedLine, Wrap, Index
<1>5. QED
  BY <1>1, <1>4 DEF LineInv, EnteredLine, UnparsedLine, ParserBehind, Entered

\* Two bytes are written only for an escaped byte, none for the backslash.
LEMMA EmittedLength ==
  ASSUME NEW mode, NEW escaped \in BOOLEAN, NEW ch
  PROVE  /\ Len(Emitted(mode, escaped, ch)) \in Nat
         /\ Len(Emitted(mode, escaped, ch)) <= 2
         /\ ~escaped => Len(Emitted(mode, escaped, ch)) <= (IF ch = "BSL" THEN 0 ELSE 1)
<1>1. CASE escaped
  BY <1>1 DEF Emitted
<1>2. CASE ~escaped
  <2>1. CASE Emitted(mode, escaped, ch) = << >>
    BY <1>2, <2>1
  <2>2. CASE ch # "BSL" /\ \E c \in {ch, "NUL"} : Emitted(mode, escaped, ch) = <<c>>
    BY <1>2, <2>2
  <2>3. QED
    BY <1>2, <2>1, <2>2 DEF Emitted
<1>3. QED
  BY <1>1, <1>2

\* Parsing one byte writes no further than the byte read.
LEMMA ParseOne ==
  ASSUME InSize > 1, TypeOK, LineInv, NEW ch \in Fetched, ParseStandard(ch)
  PROVE  LineInv'
<1> USE LineAssumption
<1>1. Parsing /\ Entered /\ ~Editing' /\ Parsing'
  BY ModeType DEF ParseStandard, Parsing, Entered, Editing, TypeOK, ParseStates
<1>2. /\ Len(entered) \in 1 .. InSize /\ entered[Len(entered)] \in Newlines
      /\ \A i \in 1 .. Len(entered) - 1 : entered[i] \notin Newlines
      /\ \A i \in inPos .. Len(entered) - 1 : buf[i] = TypedByte(i)
      /\ inPos \in Nat /\ outPos \in Nat /\ esc \in BOOLEAN
      /\ inPos < Len(entered)
      /\ outPos + (IF esc THEN 1 ELSE 0) <= inPos
  BY <1>1 DEF LineInv, EnteredLine, UnparsedLine, ParserBehind, TypeOK
<1>3. inPos' = inPos + 1 /\ entered' = entered /\ ch \notin Newlines
  BY DEF ParseStandard, EndsLine, edit
<1>4. inPos' < Len(entered)
  <2>1. ch = buf[inPos]
    BY <1>2 DEF Fetched, Index
  <2>2. SUFFICES ASSUME inPos + 1 = Len(entered) PROVE FALSE
    BY <1>2, <1>3
  <2>3. "NUL" \in Chars \ Newlines
    BY DEF Chars, Newlines
  <2>4. CASE inPos = 0 /\ Len(entered) = InSize
    BY <1>2, <1>3, <2>1, <2>2, <2>4 DEF TypedByte
  <2>5. CASE ~(inPos = 0 /\ Len(entered) = InSize)
    BY <1>2, <1>3, <2>1, <2>2, <2>5 DEF TypedByte
  <2>6. QED
    BY <2>4, <2>5
<1>5. /\ Len(Emitted(state, esc, ch)) \in Nat
      /\ outPos' = outPos + Len(Emitted(state, esc, ch))
      /\ outPos' + (IF esc' THEN 1 ELSE 0) <= inPos + 1
      /\ outPos' <= inPos + 1
  <2>1. outPos' = outPos + Len(Emitted(state, esc, ch)) /\ outPos \in Nat /\ inPos \in Nat
    BY <1>2 DEF ParseStandard
  <2>2. esc' = (~esc /\ ch = "BSL")
    BY DEF ParseStandard
  <2>3. Len(Emitted(state, esc, ch)) \in Nat /\ Len(Emitted(state, esc, ch)) <= 2
    BY <1>2, EmittedLength
  <2>4. CASE esc
    <3>1. ~esc' /\ outPos + 1 <= inPos
      BY <1>2, <2>2, <2>4
    <3>2. QED
      BY <2>1, <2>3, <3>1
  <2>5. CASE ~esc /\ ch = "BSL"
    <3>1. Len(Emitted(state, esc, ch)) = 0 /\ outPos <= inPos
      BY <1>2, <2>3, <2>5, EmittedLength
    <3>2. QED
      BY <2>1, <3>1
  <2>6. CASE ~esc /\ ch # "BSL"
    <3>1. ~esc' /\ Len(Emitted(state, esc, ch)) <= 1 /\ outPos <= inPos
      BY <1>2, <2>2, <2>6, EmittedLength
    <3>2. QED
      BY <2>1, <2>3, <3>1
  <2>7. QED
    BY <2>4, <2>5, <2>6
<1>6. \A i \in inPos + 1 .. InSize - 1 : buf'[i] = buf[i]
  BY <1>2, <1>5 DEF ParseStandard, Stored, Index
<1>7. UnparsedLine'
  BY <1>1, <1>2, <1>3, <1>6 DEF UnparsedLine, TypedByte
<1>8. QED
  BY <1>1, <1>2, <1>3, <1>4, <1>5, <1>7 DEF LineInv, EditedLine, EnteredLine, ParserBehind

\* The inductive invariant: an edited line holds no newline, an entered line
\* holds one at its end, and the parser is behind it with all of it intact.
THEOREM LineInvariant ==
  ASSUME InSize > 1
  PROVE  Spec => []IInv
<1> USE LineAssumption
<1>1. Init => LineInv
  BY IdleLine DEF Init, Editing, Entered, Parsing, ParseStates
<1>2. TypeOK /\ LineInv /\ [Next]_vars => LineInv'
  <2> SUFFICES ASSUME TypeOK, LineInv, [Next]_vars PROVE LineInv'
    OBVIOUS
  <2> DEFINE Idle == ~Editing /\ ~Entered
  <2>0. Idle' => LineInv'
    BY IdleLine DEF LineInv, EditedLine, EnteredLine, UnparsedLine, ParserBehind, Entered
  <2>00. ASSUME UNCHANGED <<buf, inPos, outPos, esc, entered>>,
                Editing' <=> Editing, Entered' <=> Entered, Parsing' <=> Parsing
         PROVE  LineInv'
    BY <2>00 DEF LineInv, EditedLine, EnteredLine, UnparsedLine, ParserBehind, TypedByte
  <2>1. CASE WriteByte
    BY <2>00, <2>1 DEF WriteByte, Editing, Entered, Parsing, edit, parse
  <2>2. CASE WriteEnd
    <3>1. /\ state = "WRITE_CHAR" /\ state' = writeNext /\ writeNext' = writeNext
          /\ writeNext \notin ParseStates
          /\ UNCHANGED <<buf, inPos, outPos, esc, entered>>
      BY <2>2 DEF WriteEnd, edit, parse, write, TypeOK
    <3>2. (Parsing' <=> Parsing) /\ (Editing' <=> Editing)
      BY <3>1 DEF Parsing, Editing, ParseStates
    <3>3. Entered' <=> Entered
      BY <3>1 DEF Parsing, Entered, ParseStates
    <3>4. QED
      BY <2>00, <3>1, <3>2, <3>3
  <2>3. CASE ResetLine
    BY <2>0, <2>3 DEF ResetLine, WritePointer, Editing, Entered, Parsing, ParseStates
  <2>4. CASE ResetPrompt
    BY <2>0, <2>4 DEF ResetPrompt, Editing, Entered, Parsing, ParseStates
  <2>5. CASE Prompt
    <3>1. /\ state' = "WRITE_CHAR"
          /\ writeNext' \in {"RESET", "READ_PREPARE"} \cup PromptStates
      BY <2>5 DEF Prompt, PromptAfter, PromptStates, WritePointer, TypeOK
    <3>2. QED
      BY <2>0, <3>1 DEF Editing, Entered, Parsing, ParseStates, PromptStates
  <2>6. CASE ReadStart
    <3>1. Editing' /\ ~Entered' /\ inPos' = 0
      BY <2>6 DEF ReadStart, Editing, Entered, Parsing, ParseStates
    <3>2. QED
      BY <3>1 DEF LineInv, EditedLine, EnteredLine, UnparsedLine, ParserBehind, Entered
  <2>7. CASE ReadInterrupt
    BY <2>0, <2>7 DEF ReadInterrupt, WritePointer, Editing, Entered, Parsing, ParseStates
  <2>8. CASE ReadBackspace
    <3>1. Editing /\ Editing' /\ ~Entered'
      BY <2>8 DEF ReadBackspace, Reads, Echo, WritePointer, Editing, Entered, Parsing,
                  ParseStates, Newlines
    <3>2. EditedLine'
      BY <2>8, <3>1 DEF ReadBackspace, CanErase, LineInv, EditedLine, TypeOK, Index
    <3>3. QED
      BY <3>1, <3>2 DEF LineInv, EnteredLine, UnparsedLine, ParserBehind, Entered
  <2>9. CASE ReadEscape
    BY <2>00, <2>9 DEF ReadEscape, Editing, Entered, Parsing, write, parse
  <2>10. CASE \E ch \in Typed : ReadEscaped(ch)
    BY <2>00, <2>10 DEF ReadEscaped, Editing, Entered, Parsing, write, parse
  <2>11. ASSUME NEW ch \in Typed, ReadStore(ch) PROVE LineInv'
    BY <2>11, StoreNewline, StoreOther
  <2>12. CASE ParseStart
    <3>1. /\ Entered /\ Parsing' /\ Entered' /\ ~Parsing /\ ~Editing'
          /\ inPos' = 0 /\ outPos' = 0 /\ ~esc'
          /\ buf' = buf /\ entered' = entered
      BY <2>12 DEF ParseStart, Entered, Parsing, ParseStates, Editing
    <3>2. QED
      BY <3>1 DEF LineInv, EditedLine, EnteredLine, UnparsedLine, ParserBehind, TypedByte
  <2>13. ASSUME NEW ch \in Fetched, ParseStandard(ch) PROVE LineInv'
    BY <2>13, ParseOne
  <2>14. ASSUME NEW ch \in Fetched, ParseNewline(ch) PROVE LineInv'
    <3>1. \/ state' \in {"RESET", "RESET_PROMPT", "PROCESS_START"}
          \/ state' = "WRITE_CHAR" /\ writeNext' \in {"RESET", "RESET_PROMPT"}
      BY <2>14 DEF ParseNewline, CommandOutcome, WritePointer
    <3>2. QED
      BY <2>0, <3>1 DEF Editing, Entered, Parsing, ParseStates
  <2>15. CASE ProcessStep
    <3>1. \/ state' \in ProcessStates
          \/ state' = "WRITE_CHAR" /\ writeNext' \in ProcessStates
      BY <2>15 DEF ProcessStep, WritePointer
    <3>2. QED
      BY <2>0, <3>1 DEF Editing, Entered, Parsing, ParseStates, ProcessStates
  <2>16. CASE ProcessEnd
    <3>1. \/ state' \in {"RESET", "RESET_PROMPT"}
          \/ state' = "WRITE_CHAR" /\ writeNext' \in {"RESET", "RESET_PROMPT"}
      BY <2>16 DEF ProcessEnd, WritePointer
    <3>2. QED
      BY <2>0, <3>1 DEF Editing, Entered, Parsing, ParseStates
  <2>17. CASE AppPrint
    BY <2>0, <2>17 DEF AppPrint, WritePointer, Editing, Entered, Parsing, ParseStates
  <2>18. CASE UNCHANGED vars
    BY <2>00, <2>18 DEF vars, Editing, Entered, Parsing, write, edit, parse
  <2>19. QED
    BY <2>1, <2>2, <2>3, <2>4, <2>5, <2>6, <2>7, <2>8, <2>9, <2>10, <2>11, <2>12,
       <2>13, <2>14, <2>15, <2>16, <2>17, <2>18 DEF Next, Service, Read, ParseChar
<1>3. QED
  BY <1>1, <1>2, TypeCorrect, PTL DEF Spec, IInv

\* The parser reads inside the input buffer, whatever is typed and in whatever
\* order lines, interrupts and messages of the application follow each other,
\* provided the buffer has room for more than one byte.
THEOREM ParserStaysInBounds ==
  ASSUME InSize > 1
  PROVE  Spec => []ParserInBounds
<1> USE LineAssumption
<1>1. IInv => ParserInBounds
  BY DEF IInv, TypeOK, LineInv, EnteredLine, ParserBehind, ParserInBounds, Entered
<1>2. QED
  BY <1>1, LineInvariant, PTL

\* What the parser writes never lands on a byte of the line it has still to
\* read: quotes, escapes and the two bytes kept of \x included.
THEOREM UnreadStaysIntact ==
  ASSUME InSize > 1
  PROVE  Spec => []UnreadIntact
<1>1. IInv => UnreadIntact
  BY DEF IInv, TypeOK, LineInv, UnparsedLine, UnreadIntact, Entered, TypedByte
<1>2. QED
  BY <1>1, LineInvariant, PTL


-----------------------------------------------------------------------------
(***************************************************************************)
(* The arguments the parser counts end in the part of the buffer it has    *)
(* rewritten, where ush_parse_get_args looks for them: for every size of   *)
(* the input buffer and every line.                                        *)
(***************************************************************************)

\* An escape belongs to an argument: the backslash has begun it.
EscapeInArg == Parsing /\ esc => state # "PARSE_SEARCH_ARG"

ArgsInv == TerminatedArgs /\ EscapeInArg

NulsIn(b, p) == {q \in Index : q < p /\ b[q] = "NUL"}

LEMMA CountsNuls ==
  ASSUME NEW b, NEW p
  PROVE  /\ NulsBefore(b, p) = Cardinality(NulsIn(b, p))
         /\ IsFiniteSet(NulsIn(b, p)) /\ NulsBefore(b, p) \in Nat
<1>1. IsFiniteSet(Index)
  BY LineAssumption, FS_Interval DEF Index
<1>2. NulsIn(b, p) \subseteq Index
  BY DEF NulsIn
<1>3. IsFiniteSet(NulsIn(b, p))
  BY <1>1, <1>2, FS_Subset
<1> QED BY <1>3, FS_CardinalityType DEF NulsBefore, NulsIn

\* Rewriting one byte after the other loses no terminator, and a terminator
\* written is one more.
LEMMA MoreNuls ==
  ASSUME TypeOK, NEW text, Len(text) \in Nat, outPos + Len(text) <= InSize, buf' = Stored(text)
  PROVE  /\ NulsBefore(buf, outPos) <= NulsBefore(buf', outPos + Len(text))
         /\ text = <<"NUL">> => NulsBefore(buf, outPos) + 1 <= NulsBefore(buf', outPos + Len(text))
<1> DEFINE old == NulsIn(buf, outPos)
           new == NulsIn(buf', outPos + Len(text))
<1>1. outPos \in Nat /\ InSize \in Nat
  BY LineAssumption DEF TypeOK
<1>2. \A q \in Index : q < outPos => buf'[q] = buf[q]
  BY <1>1, LineAssumption DEF Stored, Index
<1>3. old \subseteq new
  BY <1>1, <1>2, LineAssumption DEF NulsIn, Index
<1>4. IsFiniteSet(old) /\ IsFiniteSet(new)
  BY CountsNuls
<1>5. Cardinality(old) <= Cardinality(new)
  BY <1>3, <1>4, FS_Subset
<1>6. ASSUME text = <<"NUL">> PROVE Cardinality(old) + 1 <= Cardinality(new)
  <2>1. Len(text) = 1 /\ text[1] = "NUL"
    BY <1>6
  <2>2. outPos \in Index /\ buf'[outPos] = "NUL"
    <3>1. outPos \in Index /\ outPos \in outPos .. outPos + Len(text) - 1 /\ outPos - outPos + 1 = 1
      BY <1>1, <2>1 DEF Index
    <3> QED BY <2>1, <3>1 DEF Stored
  <2>3. outPos \in new /\ outPos \notin old
    BY <1>1, <2>1, <2>2 DEF NulsIn
  <2>4. Cardinality(old \cup {outPos}) = Cardinality(old) + 1
    BY <1>4, <2>3, FS_AddElement
  <2>5. old \cup {outPos} \subseteq new
    BY <1>3, <2>3
  <2>6. Cardinality(old \cup {outPos}) <= Cardinality(new)
    BY <1>4, <2>5, FS_Subset
  <2> QED BY <2>4, <2>6
<1> QED BY <1>5, <1>6, CountsNuls

LEMMA RoomLeft ==
  ASSUME NEW low \in Nat, NEW room \in Nat, NEW high \in Nat, low + room <= high
  PROVE  low <= high
OBVIOUS

\* There is room for what one byte of the line leaves.
LEMMA EmittedFits ==
  ASSUME InSize > 1, IInv, IInv', NEW ch \in Fetched, ParseStandard(ch)
  PROVE  /\ Len(Emitted(state, esc, ch)) \in Nat
         /\ outPos + Len(Emitted(state, esc, ch)) <= InSize
<1> DEFINE text == Emitted(state, esc, ch)
<1>1. outPos' = outPos + Len(text) /\ esc \in BOOLEAN
  BY DEF ParseStandard, IInv, TypeOK
<1>2. Parsing /\ Parsing'
  BY ModeType DEF ParseStandard, IInv, TypeOK, Parsing
<1>3. Len(text) \in Nat
  BY <1>1, EmittedLength
<1>4. outPos' \in Nat /\ inPos' \in Nat
  BY DEF IInv, TypeOK
<1>5. EnteredLine' /\ ParserBehind' /\ Entered'
  BY <1>2 DEF IInv, LineInv, Entered
<1>6. Len(entered)' \in 1 .. InSize
  BY <1>5 DEF EnteredLine
<1>7. inPos' < Len(entered)' /\ outPos' + (IF esc' THEN 1 ELSE 0) <= inPos'
  BY <1>2, <1>5 DEF ParserBehind
<1>8. outPos' <= inPos'
  <2> DEFINE room == IF esc' THEN 1 ELSE 0
  <2>1. room \in Nat
    OBVIOUS
  <2>2. outPos' + room <= inPos'
    BY <1>7
  <2> HIDE DEF room
  <2> QED BY ONLY <1>4, <2>1, <2>2, RoomLeft
<1>9. outPos' <= InSize
  BY <1>4, <1>6, <1>7, <1>8, LineAssumption
<1> QED BY <1>1, <1>3, <1>9

\* One byte parsed: an argument is counted when it begins, and is terminated
\* when the parser looks for the next.
LEMMA ParseCounts ==
  ASSUME InSize > 1, IInv, IInv', ArgsInv, NEW ch \in Fetched, ParseStandard(ch)
  PROVE  ArgsInv'
<1> DEFINE text == Emitted(state, esc, ch)
           nuls == NulsBefore(buf, outPos)
<1>1. /\ state \in ParseStates /\ esc \in BOOLEAN /\ args \in Nat
      /\ outPos' = outPos + Len(text) /\ buf' = Stored(text)
      /\ state' = ModeAfter(state, esc, ch) /\ esc' = (~esc /\ ch = "BSL")
      /\ args' = IF StartsArg(state, ch) THEN args + 1 ELSE args
  BY DEF ParseStandard, IInv, TypeOK
<1>2. Parsing /\ Parsing'
  BY <1>1, ModeType DEF Parsing
<1>3. Len(text) \in Nat /\ outPos + Len(text) <= InSize
  BY EmittedFits
<1>4. /\ nuls \in Nat /\ NulsBefore(buf, outPos)' \in Nat
      /\ nuls <= NulsBefore(buf, outPos)'
      /\ text = <<"NUL">> => nuls + 1 <= NulsBefore(buf, outPos)'
  <2>1. NulsBefore(buf, outPos)' = NulsBefore(buf', outPos + Len(text))
    BY <1>1 DEF NulsBefore
  <2> QED BY <1>1, <1>3, <2>1, MoreNuls, CountsNuls DEF IInv
<1>5. args <= nuls + (IF state = "PARSE_SEARCH_ARG" THEN 0 ELSE 1)
  BY <1>2 DEF ArgsInv, TerminatedArgs
<1>6. esc => state # "PARSE_SEARCH_ARG"
  BY <1>2 DEF ArgsInv, EscapeInArg
<1>7. EscapeInArg'
  BY <1>1, <1>6 DEF EscapeInArg, ModeAfter, ParseStates
<1>8. args' <= NulsBefore(buf, outPos)' + (IF state' = "PARSE_SEARCH_ARG" THEN 0 ELSE 1)
  <2> HIDE DEF text, nuls
  <2>1. CASE state = "PARSE_SEARCH_ARG" /\ ch # "SP"
    <3>1. state' # "PARSE_SEARCH_ARG"
      BY <1>1, <1>6, <2>1 DEF ModeAfter
    <3>2. args' = args + 1 /\ args <= nuls
      BY <1>1, <1>4, <1>5, <2>1 DEF StartsArg
    <3> QED BY <1>1, <1>4, <3>1, <3>2
  <2>2. CASE state = "PARSE_SEARCH_ARG" /\ ch = "SP"
    <3>1. args' = args /\ args <= nuls
      BY <1>1, <1>4, <1>5, <2>2 DEF StartsArg
    <3> QED BY <1>1, <1>4, <3>1
  <2>3. CASE state # "PARSE_SEARCH_ARG" /\ state' # "PARSE_SEARCH_ARG"
    <3>1. args' = args /\ args <= nuls + 1
      BY <1>1, <1>5, <2>3 DEF StartsArg
    <3> QED BY <1>1, <1>4, <2>3, <3>1
  <2>4. CASE state # "PARSE_SEARCH_ARG" /\ state' = "PARSE_SEARCH_ARG"
    <3>1. args' = args /\ args <= nuls + 1
      BY <1>1, <1>5, <2>4 DEF StartsArg
    <3>2. ~esc /\ ch = "SP" /\ state = "PARSE_STANDARD_ARG"
      BY <1>1, <2>4 DEF ModeAfter, ParseStates
    <3>3. text = <<"NUL">>
      BY <3>2 DEF text, Emitted
    <3> QED BY <1>1, <1>4, <2>4, <3>1, <3>3
  <2> QED BY <2>1, <2>2, <2>3, <2>4
<1> QED BY <1>7, <1>8 DEF ArgsInv, TerminatedArgs

\* Outside parsing nothing is counted.
LEMMA NotParsing == ASSUME ~Parsing' PROVE ArgsInv'
  BY DEF ArgsInv, TerminatedArgs, EscapeInArg, Parsing

LEMMA ArgsKept == InSize > 1 /\ IInv /\ IInv' /\ ArgsInv /\ [Next]_vars => ArgsInv'
<1> SUFFICES ASSUME InSize > 1, IInv, IInv', ArgsInv, [Next]_vars PROVE ArgsInv'
  OBVIOUS
<1>1. TypeOK
  BY DEF IInv
<1>2. CASE UNCHANGED vars
  BY <1>2 DEF vars, edit, parse, ArgsInv, TerminatedArgs, EscapeInArg, Parsing, NulsBefore
<1>3. CASE WriteByte \/ ResetLine \/ ResetPrompt \/ ReadStart \/ AppPrint
  BY <1>3, NotParsing
  DEF WriteByte, ResetLine, ResetPrompt, ReadStart, AppPrint, WritePointer, Parsing, ParseStates
<1>4. CASE WriteEnd
  <2>1. state' \notin ParseStates
    BY <1>1, <1>4 DEF WriteEnd, TypeOK
  <2> QED BY <2>1, NotParsing DEF Parsing
<1>5. CASE Prompt
  BY <1>5, NotParsing DEF Prompt, WritePointer, Parsing, ParseStates
<1>6. CASE Read
  BY <1>6, NotParsing
  DEF Read, ReadInterrupt, ReadBackspace, ReadEscape, ReadEscaped, ReadStore, Reads, Echo,
      WritePointer, Parsing, ParseStates
<1>7. CASE ParseStart
  <2>1. args' = 0 /\ ~esc'
    BY <1>7 DEF ParseStart
  <2>2. NulsBefore(buf, outPos)' \in Nat
    BY CountsNuls
  <2> QED BY <2>1, <2>2 DEF ArgsInv, TerminatedArgs, EscapeInArg
<1>8. ASSUME NEW ch \in Fetched, ParseStandard(ch) PROVE ArgsInv'
  BY <1>8, ParseCounts
<1>9. ASSUME NEW ch \in Fetched, ParseNewline(ch) PROVE ArgsInv'
  <2>1. state' \in {"RESET", "RESET_PROMPT", "PROCESS_START", "WRITE_CHAR"}
    BY <1>9 DEF ParseNewline, CommandOutcome, WritePointer
  <2> QED BY <2>1, NotParsing DEF Parsing, ParseStates
<1>10. CASE ProcessStep \/ ProcessEnd
  <2>1. state' \in ProcessStates \cup {"RESET", "RESET_PROMPT", "WRITE_CHAR"}
    BY <1>10 DEF ProcessStep, ProcessEnd, WritePointer
  <2> QED BY <2>1, NotParsing DEF Parsing, ParseStates, ProcessStates
<1> QED
  BY <1>2, <1>3, <1>4, <1>5, <1>6, <1>7, <1>8, <1>9, <1>10 DEF Next, Service, ParseChar

\* Whatever is typed, in a buffer of more than one byte every argument counted
\* but the one being read has its terminator in the rewritten part, quotes,
\* escapes and doubled spaces included.
THEOREM ArgumentsTerminated ==
  ASSUME InSize > 1
  PROVE  Spec => []TerminatedArgs
<1>1. Init => ArgsInv
  BY DEF Init, ArgsInv, TerminatedArgs, EscapeInArg, Parsing, ParseStates
<1>2. IInv /\ IInv' /\ ArgsInv /\ [Next]_vars => ArgsInv'
  BY ArgsKept
<1>3. ArgsInv => TerminatedArgs
  BY DEF ArgsInv
<1> QED BY <1>1, <1>2, <1>3, LineInvariant, PTL DEF Spec

-----------------------------------------------------------------------------
(***************************************************************************)
(* The echo and the buffer.                                                *)
(***************************************************************************)

\* Bytes that are stored and shown: a NUL is stored without echo.
NoNulTyped == "NUL" \notin Typed

Echoed == Chars \ {"NUL", "BS", "LF", "CR"}

\* The prompt's suffix and the first n bytes of the buffer.
Row(n) == [i \in 1 .. n + 1 |-> IF i = 1 THEN "]$" ELSE buf[i - 2]]

\* Before the line is edited the terminal shows the prompt.
PromptShown ==
  /\ state = "READ_PREPARE" => shown = <<"]$">>
  /\ state = "WRITE_CHAR" /\ writeNext = "READ_PREPARE"
       => wbuf = <<"]$">> /\ (wpos = 1 => shown = <<"]$">>)

LineShown == state = "READ_CHAR" /\ ~overrun => shown = Row(inPos)

\* In the middle of an echo it is a step behind the buffer: a byte stored is
\* about to be shown,
StoreShown ==
  \E ch \in Echoed :
    /\ wbuf = <<ch>> /\ inPos > 0 /\ ch = buf[inPos - 1]
    /\ shown = Row(IF wpos = 0 THEN inPos - 1 ELSE inPos)

\* or the erased one is blanked out, over which the cursor goes back twice.
EraseShown ==
  /\ wbuf = <<"BS", "SP", "BS">> /\ inPos + 1 < InSize
  /\ wpos = 0 => shown # << >> /\ shown[1] = "]$" /\ Front(shown) = Row(inPos)
  /\ wpos = 2 => shown = Append(Row(inPos), "SP")
  /\ wpos \in {1, 3} => shown = Row(inPos)

EchoShown ==
  state = "WRITE_CHAR" /\ writeNext = "READ_CHAR" /\ ~overrun => StoreShown \/ EraseShown

ShownInv == PromptShown /\ LineShown /\ EchoShown

\* A row is a sequence, one byte longer than what it shows of the buffer.
LEMMA RowIs ==
  ASSUME TypeOK, NEW n \in 0 .. InSize
  PROVE  /\ Row(n) \in Seq(Symbols) /\ Len(Row(n)) = n + 1 /\ Row(n)[1] = "]$"
         /\ \A i \in 2 .. n + 1 : Row(n)[i] = buf[i - 2]
<1> USE LineAssumption
<1>1. n \in Nat /\ n <= InSize /\ InSize \in Nat
  OBVIOUS
<1>2. \A i \in 1 .. n + 1 : (IF i = 1 THEN "]$" ELSE buf[i - 2]) \in Symbols
  BY <1>1 DEF TypeOK, Index, Symbols
<1>3. Row(n) \in [1 .. n + 1 -> Symbols]
  BY <1>1, <1>2 DEF Row
<1>4. Row(n) \in Seq(Symbols) /\ Len(Row(n)) = n + 1
  BY <1>1, <1>3, SeqDef, LenProperties
<1> QED
  BY <1>1, <1>4 DEF Row

\* Showing the byte behind a row makes the next row, and going back over it
\* the row again.
LEMMA NextRow ==
  ASSUME TypeOK, NEW n \in 0 .. InSize - 1
  PROVE  Append(Row(n), buf[n]) = Row(n + 1) /\ Front(Row(n + 1)) = Row(n)
<1> USE LineAssumption
<1>1. n \in 0 .. InSize /\ n + 1 \in 0 .. InSize /\ n \in Nat /\ buf[n] \in Symbols
  BY DEF TypeOK, Index, Symbols
<1>2. /\ Row(n) \in Seq(Symbols) /\ Len(Row(n)) = n + 1 /\ Row(n)[1] = "]$"
      /\ \A i \in 2 .. n + 1 : Row(n)[i] = buf[i - 2]
  BY <1>1, RowIs
<1>3. /\ Row(n + 1) \in Seq(Symbols) /\ Len(Row(n + 1)) = n + 2 /\ Row(n + 1)[1] = "]$"
      /\ \A i \in 2 .. n + 2 : Row(n + 1)[i] = buf[i - 2]
  BY <1>1, RowIs
<1> DEFINE a == Row(n)
           b == Row(n + 1)
<1>4. \A i \in 1 .. n + 1 : a[i] = b[i]
  BY <1>1, <1>2, <1>3
<1>5. b[n + 2] = buf[n]
  BY <1>1, <1>3
<1> HIDE DEF a, b
<1>6. Append(a, buf[n]) = b
  <2>1. a \in Seq(Symbols) /\ b \in Seq(Symbols) /\ Len(a) = n + 1 /\ Len(b) = n + 2
    BY <1>2, <1>3 DEF a, b
  <2>2. /\ Append(a, buf[n]) \in Seq(Symbols) /\ Len(Append(a, buf[n])) = n + 2
        /\ \A i \in 1 .. n + 1 : Append(a, buf[n])[i] = a[i]
        /\ Append(a, buf[n])[n + 2] = buf[n]
    BY <1>1, <2>1, AppendProperties
  <2>3. \A i \in 1 .. n + 2 : Append(a, buf[n])[i] = b[i]
    BY <1>1, <1>4, <1>5, <2>2
  <2> QED BY <1>1, <2>1, <2>2, <2>3, SeqEqual
<1>7. Front(b) = a
  <2>1. a \in Seq(Symbols) /\ b \in Seq(Symbols) /\ Len(a) = n + 1 /\ Len(b) = n + 2
    BY <1>2, <1>3 DEF a, b
  <2>2. Front(b) = SubSeq(b, 1, n + 1)
    BY <1>1, <2>1 DEF Front
  <2>3. /\ SubSeq(b, 1, n + 1) \in Seq(Symbols) /\ Len(SubSeq(b, 1, n + 1)) = n + 1
        /\ \A i \in 1 .. n + 1 : SubSeq(b, 1, n + 1)[i] = b[i]
    BY <1>1, <2>1, SubSeqProperties
  <2> QED BY <1>1, <1>4, <2>1, <2>2, <2>3, SeqEqual
<1> QED BY <1>6, <1>7 DEF a, b

\* A row depends on the bytes it shows only.
LEMMA SameRow ==
  ASSUME NEW n \in Nat, NEW b, \A i \in 0 .. n - 1 : b[i] = buf[i]
  PROVE  [i \in 1 .. n + 1 |-> IF i = 1 THEN "]$" ELSE b[i - 2]] = Row(n)
<1>1. \A i \in 1 .. n + 1 : i # 1 => i - 2 \in 0 .. n - 1
  OBVIOUS
<1>2. \A i \in 1 .. n + 1 : (IF i = 1 THEN "]$" ELSE b[i - 2]) = (IF i = 1 THEN "]$" ELSE buf[i - 2])
  BY <1>1
<1> QED BY <1>2 DEF Row

\* Outside the prompt's last piece, reading and its echo nothing is asked.
LEMMA OtherShown ==
  ASSUME state \notin {"READ_PREPARE", "READ_CHAR"},
         state = "WRITE_CHAR" => writeNext \notin {"READ_PREPARE", "READ_CHAR"}
  PROVE  ShownInv
BY DEF ShownInv, PromptShown, LineShown, EchoShown

\* The writer shows one byte.
LEMMA WriteByteShown ==
  ASSUME TypeOK, ShownInv, WriteByte
  PROVE  ShownInv'
<1> USE LineAssumption
<1>1. /\ state = "WRITE_CHAR" /\ state' = state /\ writeNext' = writeNext /\ wbuf' = wbuf
      /\ wpos' = wpos + 1 /\ shown' = Screen(shown, wbuf[wpos + 1])
      /\ wpos < Len(wbuf) /\ wpos \in Nat
      /\ buf' = buf /\ inPos' = inPos /\ overrun' = overrun
  BY DEF WriteByte, edit, TypeOK
<1>2. CASE writeNext = "READ_PREPARE"
  <2>1. wbuf = <<"]$">> /\ wpos = 0
    <3>1. wbuf = <<"]$">>
      BY <1>1, <1>2 DEF ShownInv, PromptShown
    <3>2. Len(wbuf) = 1
      BY <3>1
    <3> QED BY <1>1, <3>1, <3>2
  <2>2. shown' = <<"]$">>
    BY <1>1, <2>1 DEF Screen
  <2> QED BY <1>1, <1>2, <2>1, <2>2 DEF ShownInv, PromptShown, LineShown, EchoShown
<1>3. CASE writeNext = "READ_CHAR" /\ ~overrun
  <2>1. inPos \in 0 .. InSize - 1 /\ inPos \in Nat
    BY <1>1, <1>3 DEF TypeOK, Editing, Index
  <2>2. CASE StoreShown
    <3>1. PICK ch \in Echoed :
            /\ wbuf = <<ch>> /\ inPos > 0 /\ ch = buf[inPos - 1]
            /\ shown = Row(IF wpos = 0 THEN inPos - 1 ELSE inPos)
      BY <2>2 DEF StoreShown
    <3>2. wpos = 0 /\ wbuf[wpos + 1] = ch /\ shown = Row(inPos - 1)
      BY <1>1, <3>1
    <3>3. /\ Row(inPos - 1) \in Seq(Symbols) /\ Len(Row(inPos - 1)) = inPos
          /\ Append(Row(inPos - 1), ch) = Row(inPos)
      BY <2>1, <3>1, RowIs, NextRow
    <3>4. shown # << >> /\ Len(shown) < ScreenWidth
      BY <2>1, <3>1, <3>2, <3>3 DEF ScreenWidth
    <3>5. ch # "]$" /\ ch # "BS" /\ ch \notin Newlines \cup {"BS", "msg", "]$"}
      BY DEF Echoed, Chars, Newlines
    <3>6. Screen(shown, ch) = Append(shown, ch)
      BY <3>4, <3>5 DEF Screen
    <3>7. shown' = Row(inPos)
      BY <1>1, <3>2, <3>3, <3>6
    <3>8. Row(inPos)' = Row(inPos) /\ buf'[inPos' - 1] = buf[inPos - 1]
      BY <1>1 DEF Row
    <3>9. StoreShown'
      BY <1>1, <2>1, <3>1, <3>2, <3>7, <3>8 DEF StoreShown
    <3> QED BY <1>1, <1>3, <3>9 DEF ShownInv, PromptShown, LineShown, EchoShown
  <2>3. CASE EraseShown
    <3>1. /\ wbuf = <<"BS", "SP", "BS">> /\ inPos + 1 < InSize
          /\ wpos = 0 => shown # << >> /\ shown[1] = "]$" /\ Front(shown) = Row(inPos)
          /\ wpos = 2 => shown = Append(Row(inPos), "SP")
          /\ wpos \in {1, 3} => shown = Row(inPos)
      BY <2>3 DEF EraseShown
    <3>2. /\ Row(inPos) \in Seq(Symbols) /\ Len(Row(inPos)) = inPos + 1
          /\ "SP" \in Symbols
      BY <2>1, RowIs DEF Symbols, Chars
    <3>3. wpos \in {0, 1, 2}
      BY <1>1, <3>1
    <3>a. Row(inPos)' = Row(inPos)
      BY <1>1 DEF Row
    <3>b. inPos + 1 < InSize /\ inPos' = inPos /\ wbuf' = <<"BS", "SP", "BS">>
      BY <1>1, <3>1
    <3>4. ASSUME wpos = 0 PROVE EraseShown'
      <4>1. wbuf[wpos + 1] = "BS"
        BY <3>1, <3>4
      <4>2. shown' = Row(inPos)
        BY <1>1, <3>1, <3>4, <4>1 DEF Screen
      <4>x. wpos' = 1 /\ shown' = Row(inPos)'
        BY <1>1, <3>4, <3>a, <4>2
      <4> QED BY <3>b, <4>x DEF EraseShown
    <3>5. ASSUME wpos = 1 PROVE EraseShown'
      <4>1. wbuf[wpos + 1] = "SP"
        BY <3>1, <3>5
      <4>2. shown # << >> /\ Len(shown) < ScreenWidth
        BY <2>1, <3>1, <3>2, <3>5 DEF ScreenWidth
      <4>3. shown' = Append(Row(inPos), "SP")
        BY <1>1, <3>1, <3>5, <4>1, <4>2 DEF Screen, Newlines
      <4>x. wpos' = 2 /\ shown' = Append(Row(inPos)', "SP")
        BY <1>1, <3>5, <3>a, <4>3
      <4> QED BY <3>b, <4>x DEF EraseShown
    <3>6. ASSUME wpos = 2 PROVE EraseShown'
      <4>1. wbuf[wpos + 1] = "BS"
        BY <3>1, <3>6
      <4> DEFINE R == Row(inPos)
                 S == Append(R, "SP")
      <4>2. R \in Seq(Symbols) /\ Len(R) = inPos + 1
        BY <3>2
      <4>3. shown = S
        BY <3>1, <3>6
      <4> HIDE DEF R
      <4>4. /\ S \in Seq(Symbols) /\ Len(S) = inPos + 2
            /\ \A i \in 1 .. Len(R) : S[i] = R[i]
        BY <2>1, <3>2, <4>2, AppendProperties
      <4>5. Front(S) = R
        <5>1. Front(S) = SubSeq(S, 1, inPos + 1)
          BY <2>1, <4>4 DEF Front
        <5>2. /\ SubSeq(S, 1, inPos + 1) \in Seq(Symbols) /\ Len(SubSeq(S, 1, inPos + 1)) = inPos + 1
              /\ \A i \in 1 .. inPos + 1 : SubSeq(S, 1, inPos + 1)[i] = S[i]
          BY <2>1, <4>4, SubSeqProperties
        <5> QED BY <2>1, <4>2, <4>4, <5>1, <5>2, SeqEqual
      <4>6. S # << >>
        BY <2>1, <4>4
      <4>7. shown' = R
        BY <1>1, <4>1, <4>3, <4>5, <4>6 DEF Screen
      <4>8. shown' = Row(inPos)
        BY <4>7 DEF R
      <4>x. wpos' = 3 /\ shown' = Row(inPos)'
        BY <1>1, <3>6, <3>a, <4>8
      <4> QED BY <3>b, <4>x DEF EraseShown
    <3>7. EraseShown'
      BY <3>3, <3>4, <3>5, <3>6
    <3> QED BY <1>1, <1>3, <3>7 DEF ShownInv, PromptShown, LineShown, EchoShown
  <2> QED BY <1>1, <1>3, <2>2, <2>3 DEF ShownInv, EchoShown
<1>4. CASE writeNext = "READ_CHAR" /\ overrun
  BY <1>1, <1>4 DEF ShownInv, PromptShown, LineShown, EchoShown
<1>5. CASE writeNext \notin {"READ_PREPARE", "READ_CHAR"}
  BY <1>1, <1>5 DEF ShownInv, PromptShown, LineShown, EchoShown
<1> QED BY <1>2, <1>3, <1>4, <1>5

\* When it is done the machine goes where the text says.
LEMMA WriteEndShown ==
  ASSUME TypeOK, ShownInv, WriteEnd
  PROVE  ShownInv'
<1>1. /\ state = "WRITE_CHAR" /\ state' = writeNext /\ writeNext' = writeNext
      /\ wpos = Len(wbuf) /\ shown' = shown /\ buf' = buf /\ inPos' = inPos /\ overrun' = overrun
      /\ writeNext \in States
  BY DEF WriteEnd, edit, write, TypeOK
<1>2. CASE writeNext = "READ_PREPARE"
  BY <1>1, <1>2 DEF ShownInv, PromptShown, LineShown, EchoShown
<1>3. CASE writeNext = "READ_CHAR" /\ ~overrun
  <2>1. shown = Row(inPos)
    <3>1. CASE StoreShown
      <4>1. Len(wbuf) = 1 /\ shown = Row(IF wpos = 0 THEN inPos - 1 ELSE inPos)
        BY <3>1 DEF StoreShown
      <4> QED BY <1>1, <4>1
    <3>2. CASE EraseShown
      <4>1. Len(wbuf) = 3
        BY <3>2 DEF EraseShown
      <4> QED BY <1>1, <3>2, <4>1 DEF EraseShown
    <3> QED BY <1>1, <1>3, <3>1, <3>2 DEF ShownInv, EchoShown
  <2>2. Row(inPos)' = Row(inPos)
    BY <1>1 DEF Row
  <2> QED BY <1>1, <1>3, <2>1, <2>2 DEF ShownInv, PromptShown, LineShown, EchoShown
<1>4. CASE writeNext = "READ_CHAR" /\ overrun
  BY <1>1, <1>4 DEF ShownInv, PromptShown, LineShown, EchoShown
<1>5. CASE writeNext \notin {"READ_PREPARE", "READ_CHAR"}
  <2>1. CASE writeNext = "WRITE_CHAR"
    BY <1>1, <1>5, <2>1 DEF ShownInv, PromptShown, LineShown, EchoShown
  <2>2. CASE writeNext # "WRITE_CHAR"
    BY <1>1, <1>5, <2>2 DEF ShownInv, PromptShown, LineShown, EchoShown
  <2> QED BY <2>1, <2>2
<1> QED BY <1>2, <1>3, <1>4, <1>5

\* The line is opened empty.
LEMMA ReadStartShown ==
  ASSUME TypeOK, ShownInv, ReadStart
  PROVE  ShownInv'
<1>1. shown' = <<"]$">> /\ state' = "READ_CHAR" /\ inPos' = 0
  BY DEF ReadStart, ShownInv, PromptShown
<1>2. Row(inPos)' = <<"]$">>
  BY <1>1 DEF Row
<1> QED BY <1>1, <1>2 DEF ShownInv, PromptShown, LineShown, EchoShown

\* A backspace takes the last byte off the line before the echo shows it.
LEMMA BackspaceShown ==
  ASSUME TypeOK, ShownInv, ReadBackspace
  PROVE  ShownInv'
<1> USE LineAssumption
<1>1. /\ state = "READ_CHAR" /\ inPos > 0 /\ inPos' = inPos - 1
      /\ buf' = [buf EXCEPT ![inPos - 1] = "NUL"]
      /\ state' = "WRITE_CHAR" /\ writeNext' = "READ_CHAR" /\ wpos' = 0
      /\ wbuf' = <<"BS", "SP", "BS">> /\ overrun' = overrun /\ shown' = shown
  BY DEF ReadBackspace, Reads, CanErase, Echo, EchoText, WritePointer, Newlines
<1>2. inPos \in 0 .. InSize - 1 /\ inPos - 1 \in Nat /\ buf \in [Index -> Chars]
  BY <1>1 DEF TypeOK, Editing, Index
<1>3. CASE ~overrun
  <2>1. shown = Row(inPos)
    BY <1>1, <1>3 DEF ShownInv, LineShown
  <2>2. Front(Row(inPos)) = Row(inPos - 1) /\ Len(Row(inPos)) = inPos + 1 /\ Row(inPos)[1] = "]$"
    BY <1>1, <1>2, NextRow, RowIs
  <2>3. \A i \in 0 .. inPos - 2 : buf'[i] = buf[i]
    BY <1>1, <1>2 DEF Index
  <2>4. [i \in 1 .. inPos - 1 + 1 |-> IF i = 1 THEN "]$" ELSE buf'[i - 2]] = Row(inPos - 1)
    <3>1. \A i \in 0 .. inPos - 1 - 1 : buf'[i] = buf[i]
      BY <1>2, <2>3
    <3> QED BY <1>2, <3>1, SameRow
  <2>5. Row(inPos)' = Row(inPos - 1)
    BY <1>1, <2>4 DEF Row
  <2>6. EraseShown'
    <3>1. Front(shown)' = Row(inPos)' /\ shown'[1] = "]$"
      BY <1>1, <2>1, <2>2, <2>5
    <3>2. shown' # << >>
      BY <1>1, <1>2, <2>1, <2>2
    <3> QED BY <1>1, <1>2, <3>1, <3>2 DEF EraseShown
  <2> QED BY <1>1, <2>6 DEF ShownInv, PromptShown, LineShown, EchoShown
<1>4. CASE overrun
  BY <1>1, <1>4 DEF ShownInv, PromptShown, LineShown, EchoShown
<1> QED BY <1>3, <1>4, <1>2, <1>1 DEF TypeOK

\* A byte is stored before the echo shows it.
LEMMA StoreByteShown ==
  ASSUME TypeOK, ShownInv, NoNulTyped, NEW ch \in Typed, ReadStore(ch)
  PROVE  ShownInv'
<1> USE LineAssumption
<1>1. /\ state = "READ_CHAR" /\ inPos' = Wrap(inPos + 1)
      /\ buf' = [[buf EXCEPT ![inPos] = ch] EXCEPT ![Wrap(inPos + 1)] = "NUL"]
      /\ overrun' = (overrun \/ inPos + 1 >= InSize)
      /\ state' = "WRITE_CHAR" /\ wpos' = 0 /\ wbuf' = EchoText(ch) /\ shown' = shown
      /\ writeNext' = (IF ch \in Newlines THEN "PARSE_PREPARE" ELSE "READ_CHAR")
  BY DEF ReadStore, Reads, Echo, WritePointer
<1>2. inPos \in 0 .. InSize - 1 /\ inPos \in Nat /\ buf \in [Index -> Chars] /\ overrun \in BOOLEAN
  BY <1>1 DEF TypeOK, Editing, Index
<1>3. CASE ch \in Newlines \/ overrun'
  BY <1>1, <1>3 DEF ShownInv, PromptShown, LineShown, EchoShown
<1>4. CASE ch \notin Newlines /\ ~overrun'
  <2>0. ~(overrun \/ inPos + 1 >= InSize)
    BY <1>1, <1>4
  <2>1. ~overrun /\ inPos + 1 < InSize /\ inPos' = inPos + 1
    BY <1>1, <1>2, <2>0 DEF Wrap
  <2>2. ch \in Echoed
    <3>1. ch \notin {"BS", "NUL"}
      BY DEF ReadStore, Default, NoNulTyped
    <3> QED BY <1>4, <3>1 DEF Echoed, Newlines
  <2>3. wbuf' = <<ch>>
    BY <1>1, <2>2 DEF EchoText, Echoed
  <2>4. shown = Row(inPos)
    BY <1>1, <2>1 DEF ShownInv, LineShown
  <2>5. \A i \in 0 .. inPos - 1 : buf'[i] = buf[i]
    BY <1>1, <1>2, <2>1 DEF Index
  <2>6. buf'[inPos] = ch
    BY <1>1, <1>2, <2>1 DEF Index
  <2>7. [i \in 1 .. inPos + 1 |-> IF i = 1 THEN "]$" ELSE buf'[i - 2]] = Row(inPos)
    BY <1>2, <2>5, SameRow
  <2>8. inPos' - 1 = inPos /\ (IF wpos' = 0 THEN inPos' - 1 ELSE inPos') = inPos
    BY <1>1, <1>2, <2>1
  <2>9. StoreShown'
    <3>1. inPos' > 0 /\ ch = buf'[inPos' - 1]
      BY <1>2, <2>1, <2>6, <2>8
    <3>2. shown' = [i \in 1 .. inPos + 1 |-> IF i = 1 THEN "]$" ELSE buf'[i - 2]]
      BY <1>1, <2>4, <2>7
    <3>3. Row(IF wpos = 0 THEN inPos - 1 ELSE inPos)' = shown'
      BY <2>8, <3>2 DEF Row
    <3> QED BY <2>2, <2>3, <3>1, <3>3 DEF StoreShown
  <2> QED BY <1>1, <1>4, <2>9 DEF ShownInv, PromptShown, LineShown, EchoShown
<1> QED BY <1>3, <1>4

\* Whenever a byte of a line that has not wrapped is awaited, the terminal shows
\* the prompt and the line in the buffer, for every size of the buffer.
THEOREM ScreenShowsBuffer == NoNulTyped => (Spec => []ScreenShowsLine)
<1> SUFFICES ASSUME NoNulTyped PROVE Spec => []ScreenShowsLine
  OBVIOUS
<1> USE LineAssumption
<1>1. Init => ShownInv
  BY OtherShown DEF Init
<1>2. TypeOK /\ ShownInv /\ [Next]_vars => ShownInv'
  <2> SUFFICES ASSUME TypeOK, ShownInv, [Next]_vars PROVE ShownInv'
    OBVIOUS
  <2> DEFINE Elsewhere == /\ state' \notin {"READ_PREPARE", "READ_CHAR"}
                          /\ state' = "WRITE_CHAR" => writeNext' \notin {"READ_PREPARE", "READ_CHAR"}
  <2>1. Elsewhere => ShownInv'
    BY DEF ShownInv, PromptShown, LineShown, EchoShown
  <2>2. CASE ResetLine \/ ResetPrompt
    BY <2>1, <2>2 DEF ResetLine, ResetPrompt, WritePointer
  <2>3. CASE Prompt
    <3>1. /\ state' = "WRITE_CHAR" /\ wbuf' = <<PromptPiece[state]>> /\ wpos' = 0
          /\ writeNext' = IF state = "PROMPT_SUFFIX" THEN promptNext ELSE PromptAfter[state]
      BY <2>3 DEF Prompt, WritePointer
    <3>2. CASE state = "PROMPT_SUFFIX"
      <4>1. wbuf' = <<"]$">> /\ writeNext' \in {"RESET", "READ_PREPARE"}
        BY <3>1, <3>2 DEF PromptPiece, TypeOK
      <4> QED BY <3>1, <4>1 DEF ShownInv, PromptShown, LineShown, EchoShown
    <3>3. CASE state # "PROMPT_SUFFIX"
      <4>1. writeNext' \in PromptStates
        BY <2>3, <3>1, <3>3 DEF Prompt, PromptStates, PromptAfter
      <4> QED BY <2>1, <3>1, <4>1 DEF PromptStates
    <3> QED BY <3>2, <3>3
  <2>4. CASE ReadInterrupt
    BY <2>1, <2>4 DEF ReadInterrupt, WritePointer
  <2>5. CASE ReadEscape \/ \E ch \in Typed : ReadEscaped(ch)
    <3>1. state = "READ_CHAR" /\ UNCHANGED <<state, writeNext, buf, inPos, overrun, shown>>
      BY <2>5 DEF ReadEscape, ReadEscaped, Reads, write
    <3>2. Row(inPos)' = Row(inPos)
      BY <3>1 DEF Row
    <3> QED BY <3>1, <3>2 DEF ShownInv, PromptShown, LineShown, EchoShown
  <2>6. CASE ParseStart
    BY <2>1, <2>6 DEF ParseStart
  <2>7. ASSUME NEW ch \in Fetched, ParseStandard(ch) PROVE ShownInv'
    <3>1. state' \in ParseStates
      BY <2>7, ModeType DEF ParseStandard, TypeOK, Fetched
    <3> QED BY <2>1, <3>1 DEF ParseStates
  <2>8. ASSUME NEW ch \in Fetched, ParseNewline(ch) PROVE ShownInv'
    <3>1. \/ state' \in {"RESET", "RESET_PROMPT", "PROCESS_START"}
          \/ state' = "WRITE_CHAR" /\ writeNext' \in {"RESET", "RESET_PROMPT"}
      <4>1. state' = "RESET_PROMPT" \/ CommandOutcome
        BY <2>8 DEF ParseNewline
      <4>2. CommandOutcome =>
              \/ state' \in {"RESET", "RESET_PROMPT", "PROCESS_START"}
              \/ state' = "WRITE_CHAR" /\ writeNext' \in {"RESET", "RESET_PROMPT"}
        <5>1. ASSUME NEW next \in {"RESET", "RESET_PROMPT"}, WritePointer(<<"msg">>, next)
              PROVE  state' = "WRITE_CHAR" /\ writeNext' \in {"RESET", "RESET_PROMPT"}
          BY <5>1 DEF WritePointer
        <5> QED BY <5>1 DEF CommandOutcome
      <4> QED BY <4>1, <4>2
    <3> QED BY <2>1, <3>1
  <2>9. CASE ProcessStep \/ ProcessEnd
    <3>1. \/ state' \in {"RESET", "RESET_PROMPT"} \cup ProcessStates
          \/ state' = "WRITE_CHAR" /\ writeNext' \in {"RESET", "RESET_PROMPT"} \cup ProcessStates
      <4>1. ProcessStep => \E next \in ProcessStates : state' = next \/ WritePointer(<<"msg">>, next)
        BY DEF ProcessStep
      <4>2. ProcessEnd => \E next \in {"RESET", "RESET_PROMPT"} :
                            state' = next \/ WritePointer(<<"msg">>, next)
        BY DEF ProcessEnd
      <4>3. ASSUME NEW next, WritePointer(<<"msg">>, next)
            PROVE  state' = "WRITE_CHAR" /\ writeNext' = next
        BY <4>3 DEF WritePointer
      <4> QED BY <2>9, <4>1, <4>2, <4>3
    <3> QED BY <2>1, <3>1 DEF ProcessStates
  <2>10. CASE AppPrint
    BY <2>1, <2>10 DEF AppPrint, WritePointer
  <2>11. CASE UNCHANGED vars
    <3>1. UNCHANGED <<state, writeNext, wbuf, wpos, buf, inPos, overrun, shown>>
      BY <2>11 DEF vars, write, edit
    <3>2. \A n : Row(n)' = Row(n)
      BY <3>1 DEF Row
    <3> QED BY <3>1, <3>2 DEF ShownInv, PromptShown, LineShown, EchoShown, StoreShown, EraseShown, Row
  <2> QED
    BY <2>2, <2>3, <2>4, <2>5, <2>6, <2>7, <2>8, <2>9, <2>10, <2>11, WriteByteShown, WriteEndShown,
       ReadStartShown, BackspaceShown, StoreByteShown DEF Next, Service, Read, ParseChar
<1>3. TypeOK /\ ShownInv => ScreenShowsLine
  <2> SUFFICES ASSUME TypeOK, ShownInv, state = "READ_CHAR", ~overrun
               PROVE  shown = <<"]$">> \o BufLine
    BY DEF ScreenShowsLine
  <2>1. Editing /\ inPos \in 0 .. InSize - 1 /\ inPos \in Nat
    BY DEF TypeOK, Editing, Index
  <2>2. BufLine \in Seq(Chars) /\ Len(BufLine) = inPos /\ \A i \in 1 .. inPos : BufLine[i] = buf[i - 1]
    BY <2>1, BufLineType DEF BufLine
  <2>3. /\ Row(inPos) \in Seq(Symbols) /\ Len(Row(inPos)) = inPos + 1 /\ Row(inPos)[1] = "]$"
        /\ \A i \in 2 .. inPos + 1 : Row(inPos)[i] = buf[i - 2]
    BY <2>1, RowIs
  <2> DEFINE whole == <<"]$">> \o BufLine
  <2>4. BufLine \in Seq(Symbols) /\ <<"]$">> \in Seq(Symbols) /\ Len(<<"]$">>) = 1
    BY <2>2, MessageType DEF Symbols
  <2>5. /\ whole \in Seq(Symbols) /\ Len(whole) = 1 + inPos
        /\ \A i \in 1 .. Len(whole) : whole[i] = IF i <= 1 THEN <<"]$">>[i] ELSE BufLine[i - 1]
    BY <2>2, <2>4, ConcatProperties
  <2>6. \A i \in 1 .. inPos + 1 : whole[i] = Row(inPos)[i]
    <3> SUFFICES ASSUME NEW i \in 1 .. inPos + 1 PROVE whole[i] = Row(inPos)[i]
      OBVIOUS
    <3>1. CASE i = 1
      BY <2>3, <2>5, <3>1
    <3>2. CASE i # 1
      <4>1. i \in 2 .. inPos + 1 /\ i - 1 \in 1 .. inPos
        BY <2>1, <3>2
      <4> QED BY <2>1, <2>2, <2>3, <2>5, <4>1
    <3> QED BY <3>1, <3>2
  <2> HIDE DEF whole
  <2>7. whole = Row(inPos)
    BY <2>1, <2>3, <2>5, <2>6, SeqEqual
  <2> QED BY <2>7 DEF ShownInv, LineShown, whole
<1> QED
  BY <1>1, <1>2, <1>3, TypeCorrect, PTL DEF Spec

-----------------------------------------------------------------------------
(***************************************************************************)
(* The command line that the machine implements.  What the parser does     *)
(* byte by byte is followed in the line as a whole: which bytes it escapes *)
(* and quotes, where words begin, what they mean, and where in the buffer  *)
(* they lie when the newline comes.                                        *)
(***************************************************************************)

-----------------------------------------------------------------------------
(***************************************************************************)
(* A byte further in a line.                                               *)
(***************************************************************************)
Breaks(line, i) == {j \in 0 .. i - 1 : j = 0 \/ line[j] # "BSL"}

LEMMA BreaksMax ==
  ASSUME NEW line, NEW i \in Nat \ {0}
  PROVE  Max(Breaks(line, i)) \in 0 .. i - 1
<1>1. 0 \in Breaks(line, i) /\ \A x \in Breaks(line, i) : x \in 0 .. i - 1
  BY DEF Breaks
<1>2. Max(Breaks(line, i)) \in Breaks(line, i)
  <2>1. i - 1 \in Nat
    OBVIOUS
  <2> DEFINE n == i - 1
             S == Breaks(line, i)
  <2>2. n \in Nat /\ S # {} /\ \A x \in S : x \in 0 .. n
    BY <1>1, <2>1
  <2> HIDE DEF n, S
  <2>3. Max(S) \in S
    BY ONLY <2>2, MaxUpTo
  <2> QED BY <2>3 DEF S
<1> QED BY <1>1, <1>2

LEMMA NotEscapedFirst == ASSUME NEW line PROVE ~Escaped(line, 1)
<1>1. Max(Breaks(line, 1)) \in 0 .. 1 - 1
  BY BreaksMax
<1> QED BY <1>1 DEF Escaped, Breaks

\* The flag of the parser: a backslash that is not escaped escapes one byte.
LEMMA EscapedNext ==
  ASSUME NEW line, NEW i \in Nat \ {0}
  PROVE  Escaped(line, i + 1) <=> (~Escaped(line, i) /\ line[i] = "BSL")
<1> DEFINE old == Max(Breaks(line, i))
           new == Max(Breaks(line, i + 1))
<1>1. old \in 0 .. i - 1 /\ new \in 0 .. i
  BY BreaksMax
<1>2. Escaped(line, i) <=> (i - 1 - old) % 2 = 1
  BY DEF Escaped, Breaks
<1>3. Escaped(line, i + 1) <=> (i - new) % 2 = 1
  <2>1. Escaped(line, i + 1) <=> ((i + 1) - 1 - new) % 2 = 1
    BY DEF Escaped, Breaks
  <2>2. (i + 1) - 1 - new = i - new
    BY <1>1
  <2> QED BY <2>1, <2>2
<1>4. CASE line[i] # "BSL"
  <2>1. i \in Breaks(line, i + 1)
    BY <1>4 DEF Breaks
  <2>2. \A x \in Breaks(line, i + 1) : x <= i /\ x \in Int
    BY DEF Breaks
  <2>3. new = i
    BY <2>1, <2>2, MaxIs
  <2> HIDE DEF old, new
  <2> QED BY <1>3, <1>4, <2>3
<1>5. CASE line[i] = "BSL"
  <2>1. Breaks(line, i + 1) = Breaks(line, i)
    BY <1>5 DEF Breaks
  <2>2. new = old
    BY <2>1
  <2> HIDE DEF old, new
  <2>3. (i - old) % 2 = 1 <=> ~((i - 1 - old) % 2 = 1)
    BY <1>1
  <2> QED BY <1>2, <1>3, <1>5, <2>2, <2>3
<1> QED BY <1>4, <1>5

QuotesTo(line, i) == {j \in 1 .. i : Quotes(line, j)}

LEMMA QuotesFinite ==
  ASSUME NEW line, NEW i \in Nat
  PROVE  IsFiniteSet(QuotesTo(line, i)) /\ Cardinality(QuotesTo(line, i)) \in Nat
<1>1. IsFiniteSet(1 .. i) /\ QuotesTo(line, i) \in SUBSET (1 .. i)
  BY FS_Interval DEF QuotesTo
<1> QED BY <1>1, FS_Subset, FS_CardinalityType

LEMMA NotQuotedFirst == ASSUME NEW line PROVE ~Quoted(line, 1)
<1>1. {j \in 1 .. 1 - 1 : Quotes(line, j)} = {}
  OBVIOUS
<1>2. Cardinality({}) = 0
  BY FS_EmptySet
<1> QED BY <1>1, <1>2 DEF Quoted

\* A quote that is not escaped opens or closes.
LEMMA QuotedNext ==
  ASSUME NEW line, NEW i \in Nat \ {0}
  PROVE  Quoted(line, i + 1) <=> (Quoted(line, i) # Quotes(line, i))
<1> DEFINE S == QuotesTo(line, i - 1)
           T == QuotesTo(line, i)
<1>1. IsFiniteSet(S) /\ Cardinality(S) \in Nat
  BY QuotesFinite
<1>2. (i + 1) - 1 = i
  OBVIOUS
<1>3. (Quoted(line, i) <=> Cardinality(S) % 2 = 1) /\ (Quoted(line, i + 1) <=> Cardinality(T) % 2 = 1)
  BY <1>2 DEF Quoted, QuotesTo
<1>4. CASE Quotes(line, i)
  <2>1. T = S \cup {i} /\ i \notin S
    BY <1>4 DEF QuotesTo
  <2>2. Cardinality(T) = Cardinality(S) + 1
    BY <1>1, <2>1, FS_AddElement
  <2> HIDE DEF S, T
  <2>3. Cardinality(T) % 2 = 1 <=> ~(Cardinality(S) % 2 = 1)
    BY <1>1, <2>2
  <2> QED BY <1>3, <1>4, <2>3 DEF Quotes, Quoted
<1>5. CASE ~Quotes(line, i)
  <2>1. T = S
    BY <1>5 DEF QuotesTo
  <2> QED BY <1>3, <1>5, <2>1 DEF Quotes, Quoted
<1> QED BY <1>4, <1>5

\* The state of the parser before byte i + 1, said of the line.
ModeOf(line, i) ==
  IF i = 0 \/ Gap(line, i) THEN "PARSE_SEARCH_ARG"
  ELSE IF Quoted(line, i + 1) THEN "PARSE_QUOTE_ARG" ELSE "PARSE_STANDARD_ARG"

\* Between words nothing is escaped or quoted.
LEMMA GapClean ==
  ASSUME NEW line, NEW i \in Nat, i = 0 \/ Gap(line, i)
  PROVE  ~Escaped(line, i + 1) /\ ~Quoted(line, i + 1)
<1>1. CASE i = 0
  BY <1>1, NotEscapedFirst, NotQuotedFirst
<1>2. CASE i # 0
  <2>1. line[i] = "SP" /\ ~Escaped(line, i) /\ ~Quoted(line, i)
    BY <1>2 DEF Gap
  <2>2. ~Escaped(line, i + 1)
    BY <1>2, <2>1, EscapedNext
  <2>3. ~Quotes(line, i)
    BY <2>1 DEF Quotes
  <2>4. Quoted(line, i + 1) <=> (Quoted(line, i) # Quotes(line, i))
    BY <1>2, QuotedNext
  <2> QED BY <2>1, <2>2, <2>3, <2>4 DEF Quotes, Quoted
<1> QED BY <1>1, <1>2

\* The parser's state follows the line.
LEMMA ModeNext ==
  ASSUME NEW line, NEW i \in Nat
  PROVE  ModeAfter(ModeOf(line, i), Escaped(line, i + 1), line[i + 1]) = ModeOf(line, i + 1)
<1> DEFINE ch == line[i + 1]
           mode == ModeOf(line, i)
           e == Escaped(line, i + 1)
           q == Quoted(line, i + 1)
           nq == Quoted(line, i + 2)
<1>1. i + 1 \in Nat \ {0} /\ (i + 1) + 1 = i + 2
  OBVIOUS
<1>2. nq <=> (q # Quotes(line, i + 1))
  BY <1>1, QuotedNext
<1>3. Quotes(line, i + 1) <=> (ch = "QT" /\ ~e)
  BY DEF Quotes
<1>4. Gap(line, i + 1) <=> (ch = "SP" /\ ~e /\ ~q)
  BY DEF Gap
<1>5. /\ mode = "PARSE_SEARCH_ARG" => ~e /\ ~q
      /\ mode = "PARSE_QUOTE_ARG" => q
      /\ mode = "PARSE_STANDARD_ARG" => ~q
      /\ mode \in {"PARSE_SEARCH_ARG", "PARSE_QUOTE_ARG", "PARSE_STANDARD_ARG"}
  BY GapClean DEF ModeOf
<1>6. ModeOf(line, i + 1) = IF Gap(line, i + 1) THEN "PARSE_SEARCH_ARG"
                            ELSE IF nq THEN "PARSE_QUOTE_ARG" ELSE "PARSE_STANDARD_ARG"
  BY <1>1 DEF ModeOf
<1>7. e \in BOOLEAN /\ q \in BOOLEAN /\ nq \in BOOLEAN /\ Quotes(line, i + 1) \in BOOLEAN
  BY DEF Escaped, Quoted, Quotes
<1> HIDE DEF ch, mode, e, q, nq
<1>8. ModeAfter(mode, e, ch) = ModeOf(line, i + 1)
  <2>1. CASE e
    BY <1>2, <1>3, <1>4, <1>5, <1>6, <1>7, <2>1 DEF ModeAfter
  <2>2. CASE ~e /\ ch = "QT"
    BY <1>2, <1>3, <1>4, <1>5, <1>6, <1>7, <2>2 DEF ModeAfter
  <2>3. CASE ~e /\ ch # "QT"
    <3>1. nq <=> q
      BY <1>2, <1>3, <1>7, <2>3
    <3> QED BY <1>4, <1>5, <1>6, <1>7, <2>3, <3>1 DEF ModeAfter
  <2> QED BY <2>1, <2>2, <2>3, <1>7
<1> QED BY <1>8 DEF mode, e, ch

\* What it writes: a terminator for the gap behind a word, nothing for the
\* others, and what each byte of a word means.
LEMMA EmittedIs ==
  ASSUME NEW line, NEW i \in Nat
  PROVE  Emitted(ModeOf(line, i), Escaped(line, i + 1), line[i + 1])
           = IF ~Gap(line, i + 1) THEN Meaning(line, i + 1)
             ELSE IF ModeOf(line, i) = "PARSE_SEARCH_ARG" THEN << >> ELSE <<"NUL">>
<1> DEFINE ch == line[i + 1]
           mode == ModeOf(line, i)
           e == Escaped(line, i + 1)
           q == Quoted(line, i + 1)
<1>1. Gap(line, i + 1) <=> (ch = "SP" /\ ~e /\ ~q)
  BY DEF Gap
<1>2. /\ mode = "PARSE_SEARCH_ARG" => ~e /\ ~q
      /\ mode = "PARSE_QUOTE_ARG" => q
      /\ mode = "PARSE_STANDARD_ARG" => ~q
      /\ mode \in {"PARSE_SEARCH_ARG", "PARSE_QUOTE_ARG", "PARSE_STANDARD_ARG"}
  BY GapClean DEF ModeOf
<1>3. Meaning(line, i + 1) =
        CASE e -> IF ch = "x" THEN <<"BSL", "x">> ELSE <<ch>>
          [] ~e /\ ch \in {"QT", "BSL"} -> << >>
          [] OTHER -> <<ch>>
  BY DEF Meaning
<1> HIDE DEF ch, mode, e, q
<1>4. CASE e
  BY <1>1, <1>3, <1>4 DEF Emitted, ch, mode, e
<1>5. CASE ~e /\ ch \in {"QT", "BSL"}
  BY <1>1, <1>3, <1>5 DEF Emitted, ch, mode, e
<1>6. CASE ~e /\ ch = "SP"
  BY <1>1, <1>2, <1>3, <1>6 DEF Emitted, ch, mode, e
<1>7. CASE ~e /\ ch \notin {"QT", "BSL", "SP"}
  BY <1>1, <1>3, <1>7 DEF Emitted, ch, mode, e
<1> QED BY <1>4, <1>5, <1>6, <1>7

\* Bytes but the terminator.
Plain == Chars \ {"NUL"}

LEMMA StartsAre ==
  ASSUME NEW line, Len(line) \in Nat, NEW i \in 0 .. Len(line) - 1
  PROVE  i + 1 \in WordStarts(line) <=> (~Gap(line, i + 1) /\ (i = 0 \/ Gap(line, i)))
<1>1. i + 1 \in 1 .. Len(line) /\ (i + 1) - 1 = i /\ (i + 1 = 1 <=> i = 0)
  OBVIOUS
<1> QED BY <1>1 DEF WordStarts

StartsTo(line, i) == {j \in WordStarts(line) : j <= i}

LEMMA StartsFinite ==
  ASSUME NEW line, Len(line) \in Nat, NEW i \in Nat
  PROVE  /\ IsFiniteSet(StartsTo(line, i)) /\ WordsTo(line, i) = Cardinality(StartsTo(line, i))
         /\ WordsTo(line, i) \in Nat
<1>1. IsFiniteSet(1 .. Len(line)) /\ StartsTo(line, i) \in SUBSET (1 .. Len(line))
  BY FS_Interval DEF StartsTo, WordStarts
<1>2. IsFiniteSet(StartsTo(line, i)) /\ Cardinality(StartsTo(line, i)) \in Nat
  BY <1>1, FS_Subset, FS_CardinalityType
<1> QED BY <1>2 DEF StartsTo, WordsTo

LEMMA WordsNext ==
  ASSUME NEW line, Len(line) \in Nat, NEW i \in Nat
  PROVE  WordsTo(line, i + 1) = WordsTo(line, i) + (IF i + 1 \in WordStarts(line) THEN 1 ELSE 0)
<1> DEFINE S == StartsTo(line, i)
           T == StartsTo(line, i + 1)
<1>1. /\ IsFiniteSet(S) /\ WordsTo(line, i) = Cardinality(S) /\ WordsTo(line, i) \in Nat
      /\ WordsTo(line, i + 1) = Cardinality(T)
  <2>1. i + 1 \in Nat
    OBVIOUS
  <2> QED BY <2>1, StartsFinite
<1>2. \A j \in WordStarts(line) : j \in Nat
  BY DEF WordStarts
<1>3. CASE i + 1 \in WordStarts(line)
  <2>1. T = S \cup {i + 1} /\ i + 1 \notin S
    BY <1>2, <1>3 DEF StartsTo
  <2> HIDE DEF S, T
  <2>2. Cardinality(T) = Cardinality(S) + 1
    BY <1>1, <2>1, FS_AddElement
  <2> QED BY <1>1, <1>3, <2>2
<1>4. CASE i + 1 \notin WordStarts(line)
  <2>1. T = S
    BY <1>2, <1>4 DEF StartsTo
  <2> HIDE DEF S, T
  <2> QED BY <1>1, <1>4, <2>1
<1> QED BY <1>3, <1>4

LEMMA WordsEnds ==
  ASSUME NEW line, Len(line) \in Nat
  PROVE  WordsTo(line, 0) = 0 /\ WordsTo(line, Len(line)) = Cardinality(WordStarts(line))
<1>1. StartsTo(line, 0) = {}
  BY DEF StartsTo, WordStarts
<1>2. StartsTo(line, Len(line)) = WordStarts(line)
  BY DEF StartsTo, WordStarts
<1>3. WordsTo(line, 0) = Cardinality({})
  <2>1. 0 \in Nat
    OBVIOUS
  <2> QED BY <1>1, <2>1, StartsFinite
<1>4. WordsTo(line, Len(line)) = Cardinality(WordStarts(line))
  BY <1>2, StartsFinite
<1> QED BY <1>3, <1>4, FS_EmptySet

LEMMA WordsGrow ==
  ASSUME NEW line, Len(line) \in Nat, NEW s \in WordStarts(line), NEW t \in WordStarts(line), s < t
  PROVE  WordsTo(line, s) < WordsTo(line, t)
<1>0. s \in Nat /\ t \in Nat /\ \A j \in WordStarts(line) : j \in Nat
  BY DEF WordStarts
<1> DEFINE S == StartsTo(line, s)
           T == StartsTo(line, t)
<1>1. /\ IsFiniteSet(S) /\ WordsTo(line, s) = Cardinality(S) /\ WordsTo(line, s) \in Nat
      /\ IsFiniteSet(T) /\ WordsTo(line, t) = Cardinality(T) /\ WordsTo(line, t) \in Nat
  BY <1>0, StartsFinite
<1>2. t \notin S /\ S \cup {t} \subseteq T
  <2>1. ~(t <= s) /\ t <= t /\ \A j \in Nat : j <= s => j <= t
    BY <1>0
  <2> QED BY <1>0, <2>1 DEF StartsTo
<1> HIDE DEF S, T
<1>3. Cardinality(S \cup {t}) = Cardinality(S) + 1
  BY <1>1, <1>2, FS_AddElement
<1>4. Cardinality(S \cup {t}) <= Cardinality(T)
  BY <1>1, <1>2, FS_Subset
<1> QED BY <1>1, <1>3, <1>4

LEMMA NthWordIs ==
  ASSUME NEW line, Len(line) \in Nat, NEW s \in WordStarts(line)
  PROVE  NthWord(line, WordsTo(line, s)) = s
<1> DEFINE k == WordsTo(line, s)
           t == NthWord(line, k)
<1>1. t \in WordStarts(line) /\ WordsTo(line, t) = k
  BY DEF NthWord
<1>2. s \in Nat /\ t \in Nat
  BY <1>1 DEF WordStarts
<1>3. k \in Nat
  BY <1>2, StartsFinite
<1> HIDE DEF k, t
<1>4. ~(s < t) /\ ~(t < s)
  BY <1>1, <1>3, WordsGrow DEF k
<1>5. s = t
  BY <1>2, <1>4
<1> QED BY <1>5 DEF t, k

LEMMA WordEndIs ==
  ASSUME NEW line, Len(line) \in Nat, NEW s \in Nat, NEW e \in s .. Len(line),
         \A j \in s .. e : ~Gap(line, j), e = Len(line) \/ Gap(line, e + 1)
  PROVE  WordEnd(line, s) = e
<1> DEFINE S == {j \in s .. Len(line) : \A k \in s .. j : ~Gap(line, k)}
<1>1. S \subseteq Int /\ e \in S
  OBVIOUS
<1>2. ASSUME NEW j \in S PROVE j <= e
  <2> SUFFICES ASSUME e < j PROVE FALSE
    OBVIOUS
  <2>1. e + 1 \in s .. j /\ e # Len(line)
    OBVIOUS
  <2> QED BY <2>1
<1>3. WordEnd(line, s) = Max(S)
  BY DEF WordEnd
<1> HIDE DEF S
<1> QED BY <1>1, <1>2, <1>3, MaxIs

-----------------------------------------------------------------------------
\* What the bytes s .. e of a line mean, one behind the other.
Meanings(line, s, n) == [k \in 1 .. n |-> Meaning(line, s + k - 1)]
Sofar(line, s, e) == FlattenSeq(Meanings(line, s, e - s + 1))

LEMMA MeaningType ==
  ASSUME NEW line \in Seq(Plain), NEW i \in 1 .. Len(line)
  PROVE  Meaning(line, i) \in Seq(Plain)
<1>1. line[i] \in Plain
  BY ElementOfSeq
<1>2. {"BSL", "x"} \subseteq Plain
  BY DEF Plain, Chars
<1> DEFINE c == line[i]
<1> HIDE DEF c
<1>3. /\ <<c>> \in Seq(Plain) /\ <<"BSL", "x">> \in Seq(Plain) /\ << >> \in Seq(Plain)
  BY <1>1, <1>2 DEF c
<1>4. Meaning(line, i) \in {<<c>>, <<"BSL", "x">>, << >>}
  BY DEF Meaning, c
<1> QED BY <1>3, <1>4

LEMMA MeaningLength ==
  ASSUME NEW line, NEW i
  PROVE  /\ Len(Meaning(line, i)) \in Nat
         /\ ~Escaped(line, i) => Len(Meaning(line, i)) <= 1
<1> DEFINE c == line[i]
<1>1. Len(<<c>>) = 1 /\ Len(<<"BSL", "x">>) = 2 /\ Len(<< >>) = 0
  OBVIOUS
<1>2. Meaning(line, i) \in {<<c>>, <<"BSL", "x">>, << >>}
  BY DEF Meaning
<1>3. ~Escaped(line, i) => Meaning(line, i) \in {<<c>>, << >>}
  BY DEF Meaning
<1> HIDE DEF c
<1> QED BY <1>1, <1>2, <1>3

LEMMA SofarNone ==
  ASSUME NEW line, NEW s \in Nat
  PROVE  Sofar(line, s, s - 1) = << >>
<1>1. (s - 1) - s + 1 = 0
  OBVIOUS
<1>2. Meanings(line, s, 0) = << >>
  BY DEF Meanings
<1>3. Sofar(line, s, s - 1) = FlattenSeq(<< >>)
  BY <1>1, <1>2 DEF Sofar
<1>4. FlattenSeq(<< >>) = << >>
  BY DEF FlattenSeq
<1> QED BY <1>3, <1>4

LEMMA MeaningsType ==
  ASSUME NEW line \in Seq(Plain), NEW s \in Nat \ {0}, NEW n \in Nat, s + n - 1 <= Len(line)
  PROVE  /\ Meanings(line, s, n) \in Seq(Seq(Plain)) /\ Len(Meanings(line, s, n)) = n
         /\ \A k \in 1 .. n : Meanings(line, s, n)[k] = Meaning(line, s + k - 1)
<1>1. Len(line) \in Nat
  BY LenProperties
<1>2. ASSUME NEW k \in 1 .. n PROVE Meaning(line, s + k - 1) \in Seq(Plain)
  <2>1. s + k - 1 \in 1 .. Len(line)
    BY <1>1
  <2> QED BY <2>1, MeaningType
<1> DEFINE m(k) == Meaning(line, s + k - 1)
           T == Seq(Plain)
<1>3. Meanings(line, s, n) = [k \in 1 .. n |-> m(k)]
  BY DEF Meanings
<1>4. \A k \in 1 .. n : m(k) \in T
  BY <1>2
<1>5. \A k \in 1 .. n : m(k) = Meaning(line, s + k - 1)
  OBVIOUS
<1> HIDE DEF m, T
<1>6. Meanings(line, s, n) \in Seq(T) /\ Len(Meanings(line, s, n)) = n
  BY <1>3, <1>4, IsASeq
<1> QED BY <1>3, <1>5, <1>6 DEF T

LEMMA SofarNext ==
  ASSUME NEW line \in Seq(Plain), NEW s \in Nat \ {0}, NEW e \in Nat, s - 1 <= e, e + 1 <= Len(line)
  PROVE  /\ Sofar(line, s, e) \in Seq(Plain)
         /\ Sofar(line, s, e + 1) = Sofar(line, s, e) \o Meaning(line, e + 1)
<1> DEFINE n == e - s + 1
           ms == Meanings(line, s, n)
           more == Meanings(line, s, n + 1)
           m == Meaning(line, e + 1)
<1>1. n \in Nat /\ (e + 1) - s + 1 = n + 1 /\ s + (n + 1) - 1 = e + 1 /\ Len(line) \in Nat
      /\ s + n - 1 = e /\ n + 1 \in Nat /\ e + 1 \in 1 .. Len(line)
  BY LenProperties
<1>2. /\ Sofar(line, s, e) = FlattenSeq(ms)
      /\ Sofar(line, s, e + 1) = FlattenSeq(more)
  BY <1>1 DEF Sofar
<1>3. m \in Seq(Plain)
  BY <1>1, MeaningType
<1>4. /\ ms \in Seq(Seq(Plain)) /\ Len(ms) = n
      /\ \A k \in 1 .. n : ms[k] = Meaning(line, s + k - 1)
      /\ more \in Seq(Seq(Plain)) /\ Len(more) = n + 1
      /\ \A k \in 1 .. n + 1 : more[k] = Meaning(line, s + k - 1)
  <2> DEFINE n2 == n + 1
  <2>1. n \in Nat /\ s + n - 1 <= Len(line) /\ n2 \in Nat /\ s + n2 - 1 <= Len(line)
    BY <1>1
  <2> HIDE DEF n, n2
  <2>2. /\ Meanings(line, s, n) \in Seq(Seq(Plain)) /\ Len(Meanings(line, s, n)) = n
        /\ \A k \in 1 .. n : Meanings(line, s, n)[k] = Meaning(line, s + k - 1)
    BY <2>1, MeaningsType
  <2>3. /\ Meanings(line, s, n2) \in Seq(Seq(Plain)) /\ Len(Meanings(line, s, n2)) = n2
        /\ \A k \in 1 .. n2 : Meanings(line, s, n2)[k] = Meaning(line, s + k - 1)
    BY <2>1, MeaningsType
  <2> QED BY <2>2, <2>3 DEF n2
<1>5. \A k \in 1 .. n : more[k] = ms[k]
  BY <1>1, <1>4
<1>6. more[n + 1] = m
  BY <1>1, <1>4
<1> HIDE DEF n, ms, more, m
<1>7. more = Append(ms, m)
  <2> DEFINE T == Seq(Plain)
  <2>1. m \in T /\ ms \in Seq(T) /\ more \in Seq(T)
    BY <1>3, <1>4
  <2> HIDE DEF T
  <2>2. /\ Append(ms, m) \in Seq(T) /\ Len(Append(ms, m)) = n + 1
        /\ \A k \in 1 .. n : Append(ms, m)[k] = ms[k]
        /\ Append(ms, m)[n + 1] = m
    <3>1. /\ Append(ms, m) \in Seq(T) /\ Len(Append(ms, m)) = Len(ms) + 1
          /\ \A k \in 1 .. Len(ms) : Append(ms, m)[k] = ms[k]
          /\ Append(ms, m)[Len(ms) + 1] = m
      BY ONLY <2>1, AppendProperties
    <3> QED BY <1>4, <3>1
  <2>3. \A k \in 1 .. n + 1 : more[k] = Append(ms, m)[k]
    BY <1>1, <1>5, <1>6, <2>2
  <2> QED BY <1>1, <1>4, <2>1, <2>2, <2>3, SeqEqual
<1>8. FlattenSeq(ms) \in Seq(Plain) /\ FlattenSeq(more) = FlattenSeq(ms) \o m
  BY <1>3, <1>4, <1>7, FlattenAppend
<1> QED BY <1>2, <1>8 DEF m

\* The buffer b with a text written at out, and what it holds at p .. q - 1.
Wrote(b, out, text) ==
  [p \in Index |-> IF p \in out .. out + Len(text) - 1 THEN text[p - out + 1] ELSE b[p]]
Slice(b, p, q) == [i \in 1 .. q - p |-> b[p + i - 1]]

\* The buffer c is b up to out, and holds a text from there.
Agree(b, c, out) == \A j \in 0 .. out - 1 : c[j] = b[j]
Holds(c, out, text) == \A i \in 1 .. Len(text) : c[out + i - 1] = text[i]

LEMMA WroteIs ==
  ASSUME NEW b, NEW out \in Nat, NEW text, Len(text) \in Nat, out + Len(text) <= InSize
  PROVE  Agree(b, Wrote(b, out, text), out) /\ Holds(Wrote(b, out, text), out, text)
<1> DEFINE n == Len(text)
<1>0. InSize \in Nat /\ n \in Nat /\ out + n <= InSize
  BY LineAssumption
<1> HIDE DEF n
<1>1. \A q \in 0 .. out - 1 : q \in Index /\ q \notin out .. out + n - 1
  BY <1>0 DEF Index
<1>2. ASSUME NEW i \in 1 .. n PROVE Wrote(b, out, text)[out + i - 1] = text[i]
  <2>1. out + i - 1 \in Index /\ out + i - 1 \in out .. out + n - 1 /\ (out + i - 1) - out + 1 = i
    BY <1>0 DEF Index
  <2> QED BY <2>1 DEF Wrote, n
<1> QED BY <1>1, <1>2 DEF Wrote, n, Agree, Holds

LEMMA SliceKept ==
  ASSUME NEW b, NEW c, NEW p \in Nat, NEW q \in Nat, NEW out \in Nat, q <= out, Agree(b, c, out)
  PROVE  Slice(c, p, q) = Slice(b, p, q)
<1>1. \A i \in 1 .. q - p : p + i - 1 \in 0 .. out - 1
  OBVIOUS
<1>2. \A i \in 1 .. q - p : c[p + i - 1] = b[p + i - 1]
  BY <1>1 DEF Agree
<1> QED BY <1>2 DEF Slice

Grows(c, p, q, old, text) == Slice(c, p, q + Len(text)) = old \o text

LEMMA SliceLonger ==
  ASSUME NEW S, NEW b, NEW c, NEW p \in Nat, NEW q \in Nat, p <= q, NEW text \in Seq(S),
         NEW old \in Seq(S), old = Slice(b, p, q), Agree(b, c, q), Holds(c, q, text)
  PROVE  Grows(c, p, q, old, text)
<1> DEFINE m == q - p
           n == Len(text)
           new == Slice(c, p, q + n)
<1>1. m \in Nat /\ n \in Nat /\ (q + n) - p = m + n
  BY LenProperties
<1>2. /\ old = [i \in 1 .. m |-> b[p + i - 1]]
      /\ new = [i \in 1 .. m + n |-> c[p + i - 1]]
  BY <1>1 DEF Slice
<1>3. old \in Seq(S) /\ Len(old) = m
  BY <1>1, <1>2
<1>4. \A i \in 1 .. m : c[p + i - 1] = old[i]
  <2>1. \A i \in 1 .. m : p + i - 1 \in 0 .. q - 1
    OBVIOUS
  <2> QED BY <1>2, <2>1 DEF Agree
<1>5. \A i \in m + 1 .. m + n : c[p + i - 1] = text[i - m]
  <2>1. \A i \in m + 1 .. m + n : i - m \in 1 .. n /\ p + i - 1 = q + (i - m) - 1
    BY <1>1
  <2> QED BY <2>1 DEF Holds
<1> HIDE DEF m, n, new
<1>6. /\ old \o text \in Seq(S) /\ Len(old \o text) = m + n
      /\ \A i \in 1 .. m + n : (old \o text)[i] = IF i <= m THEN old[i] ELSE text[i - m]
  BY <1>3, ConcatProperties DEF n
<1>7. \A i \in 1 .. m + n : new[i] = (old \o text)[i]
  <2> SUFFICES ASSUME NEW i \in 1 .. m + n PROVE new[i] = (old \o text)[i]
    OBVIOUS
  <2>1. new[i] = c[p + i - 1]
    BY <1>2
  <2>2. CASE i <= m
    <3>1. i \in 1 .. m
      BY <1>1, <2>2
    <3>2. c[p + i - 1] = old[i] /\ (old \o text)[i] = old[i]
      BY <1>4, <1>6, <2>2, <3>1
    <3> QED BY <2>1, <3>2
  <2>3. CASE ~(i <= m)
    <3>1. i \in m + 1 .. m + n
      BY <1>1, <2>3
    <3>2. c[p + i - 1] = text[i - m]
      BY <1>5, <3>1
    <3>3. (old \o text)[i] = text[i - m]
      BY <1>6, <2>3
    <3> QED BY <2>1, <3>2, <3>3
  <2> QED BY <2>2, <2>3
<1>8. new \in Seq(S) /\ Len(new) = m + n
  <2> DEFINE w(i) == (old \o text)[i]
  <2>1. \A i \in 1 .. m + n : w(i) \in S
    BY <1>6, ElementOfSeq
  <2>2. new = [i \in 1 .. m + n |-> w(i)]
    BY <1>2, <1>7
  <2>3. m + n \in Nat
    BY <1>1
  <2> HIDE DEF w
  <2> QED BY <2>1, <2>2, <2>3, IsASeq
<1>9. new = old \o text
  BY <1>6, <1>7, <1>8, SeqEqual
<1> QED BY <1>9 DEF new, n, Grows

-----------------------------------------------------------------------------
(***************************************************************************)
(* The rewritten part of the buffer, against the words of the line.        *)
(***************************************************************************)

\* Bytes p .. q - 1 of the buffer are the k-th word as far as byte e.
WordAt(line, b, k, p, q, s, e) ==
  /\ s \in WordStarts(line) /\ WordsTo(line, s) = k /\ s <= e
  /\ \A j \in s .. e : ~Gap(line, j)
  /\ p <= q /\ Slice(b, p, q) = Sofar(line, s, e)

\* A word the parser has left, with its terminator, or is in.
ClosedAt(line, i, b, k, p, q) ==
  /\ b[q - 1] = "NUL"
  /\ \E s, e \in 1 .. i : e < i /\ Gap(line, e + 1) /\ WordAt(line, b, k, p, q - 1, s, e)
OpenAt(line, i, b, k, p, q) ==
  \E s \in 1 .. i : WordAt(line, b, k, p, q - 1, s, i)

\* After i bytes: n words, laid end to end up to out, the k-th at pos[k].
Placed(line, i, n, open, b, out, pos) ==
  /\ pos \in [1 .. n + 1 -> Nat]
  /\ pos[1] = 0
  /\ pos[n + 1] = IF open THEN out + 1 ELSE out
  /\ \A j, k \in 1 .. n + 1 : j < k => pos[j] < pos[k]
  /\ open => n > 0
  /\ \A k \in 1 .. n : IF k = n /\ open THEN OpenAt(line, i, b, k, pos[k], pos[k + 1])
                                         ELSE ClosedAt(line, i, b, k, pos[k], pos[k + 1])

Laid(line, i, n, open, b, out) == \E pos : Placed(line, i, n, open, b, out, pos)

LEMMA ClosedKept ==
  ASSUME NEW line, NEW i \in Nat, NEW k, NEW p \in Nat, NEW q \in Nat, p < q, NEW out \in Nat, q <= out,
         NEW b, NEW c, Agree(b, c, out), ClosedAt(line, i, b, k, p, q)
  PROVE  ClosedAt(line, i + 1, c, k, p, q)
<1>1. q - 1 \in Nat /\ q - 1 <= out /\ q - 1 \in 0 .. out - 1
  OBVIOUS
<1>2. c[q - 1] = "NUL"
  BY <1>1 DEF ClosedAt, Agree
<1>3. PICK s \in 1 .. i, e \in 1 .. i : e < i /\ Gap(line, e + 1) /\ WordAt(line, b, k, p, q - 1, s, e)
  BY DEF ClosedAt
<1>4. Slice(c, p, q - 1) = Slice(b, p, q - 1)
  BY <1>1, SliceKept
<1>5. WordAt(line, c, k, p, q - 1, s, e)
  BY <1>3, <1>4 DEF WordAt
<1>6. s \in 1 .. i + 1 /\ e \in 1 .. i + 1 /\ e < i + 1
  BY <1>3
<1> QED BY <1>2, <1>3, <1>5, <1>6 DEF ClosedAt

\* The words left behind stay, whatever is written at out.
LEMMA PlacedKept ==
  ASSUME NEW line, NEW i \in Nat, NEW n \in Nat, NEW open \in BOOLEAN, NEW b, NEW c,
         NEW out \in Nat, NEW pos, Placed(line, i, n, open, b, out, pos), Agree(b, c, out),
         NEW k \in 1 .. n, ~(k = n /\ open)
  PROVE  ClosedAt(line, i + 1, c, k, pos[k], pos[k + 1])
<1>1. k \in 1 .. n + 1 /\ k + 1 \in 1 .. n + 1 /\ n + 1 \in 1 .. n + 1 /\ k < k + 1
  OBVIOUS
<1>2. pos[k] \in Nat /\ pos[k + 1] \in Nat /\ pos[k] < pos[k + 1] /\ pos[n + 1] \in Nat
  BY <1>1 DEF Placed
<1>3. pos[k + 1] <= out
  <2>1. CASE k = n
    BY <2>1, <1>2 DEF Placed
  <2>2. CASE k # n
    <3>1. k + 1 < n + 1
      BY <2>2
    <3>2. pos[k + 1] < pos[n + 1]
      BY <1>1, <3>1 DEF Placed
    <3>3. pos[n + 1] <= out + 1
      BY DEF Placed
    <3> QED BY <1>2, <3>2, <3>3
  <2> QED BY <2>1, <2>2
<1>4. ClosedAt(line, i, b, k, pos[k], pos[k + 1])
  BY DEF Placed
<1> QED BY <1>2, <1>3, <1>4, ClosedKept

\* A gap after a gap.
LEMMA SkipGap ==
  ASSUME NEW line, NEW i \in Nat, NEW n \in Nat, NEW b, NEW c, NEW out \in Nat,
         Laid(line, i, n, FALSE, b, out), Agree(b, c, out)
  PROVE  Laid(line, i + 1, n, FALSE, c, out)
<1>1. PICK pos : Placed(line, i, n, FALSE, b, out, pos)
  BY DEF Laid
<1>2. ASSUME NEW k \in 1 .. n PROVE ClosedAt(line, i + 1, c, k, pos[k], pos[k + 1])
  BY <1>1, PlacedKept
<1>3. Placed(line, i + 1, n, FALSE, c, out, pos)
  BY <1>1, <1>2 DEF Placed
<1> QED BY <1>3 DEF Laid

\* The gap behind a word: its terminator.
LEMMA CloseWord ==
  ASSUME NEW line, NEW i \in Nat, NEW n \in Nat, NEW b, NEW c, NEW out \in Nat,
         Laid(line, i, n, TRUE, b, out), Gap(line, i + 1), Agree(b, c, out), c[out] = "NUL"
  PROVE  Laid(line, i + 1, n, FALSE, c, out + 1)
<1>1. PICK pos : Placed(line, i, n, TRUE, b, out, pos)
  BY DEF Laid
<1>2. n > 0 /\ pos[n + 1] = out + 1
  BY <1>1 DEF Placed
<1>3. ASSUME NEW k \in 1 .. n PROVE ClosedAt(line, i + 1, c, k, pos[k], pos[k + 1])
  <2>1. CASE k # n
    BY <1>1, <2>1, PlacedKept
  <2>2. CASE k = n
    <3>0. OpenAt(line, i, b, n, pos[n], pos[n + 1])
      BY <1>1, <2>2 DEF Placed
    <3>1. PICK s \in 1 .. i : WordAt(line, b, n, pos[n], out + 1 - 1, s, i)
      BY <1>2, <3>0 DEF OpenAt
    <3>2. out + 1 - 1 = out /\ n \in 1 .. n + 1
      BY <1>2
    <3>3. pos[n] \in Nat
      BY <1>1, <3>2 DEF Placed
    <3>4. Slice(c, pos[n], out) = Slice(b, pos[n], out)
      <4> DEFINE p == pos[n]
      <4>1. out <= out /\ p \in Nat
        BY <3>3
      <4> HIDE DEF p
      <4>2. Slice(c, p, out) = Slice(b, p, out)
        BY ONLY <4>1, out \in Nat, Agree(b, c, out), SliceKept
      <4> QED BY <4>2 DEF p
    <3>5. WordAt(line, c, n, pos[n], out, s, i)
      BY <3>1, <3>2, <3>4 DEF WordAt
    <3>6. s \in 1 .. i + 1 /\ i \in 1 .. i + 1 /\ i < i + 1
      OBVIOUS
    <3> QED BY <1>2, <2>2, <3>2, <3>5, <3>6 DEF ClosedAt
  <2> QED BY <2>1, <2>2
<1>4. Placed(line, i + 1, n, FALSE, c, out + 1, pos)
  BY <1>1, <1>2, <1>3 DEF Placed
<1> QED BY <1>4 DEF Laid

\* One more byte of a word.
LEMMA ExtendWord ==
  ASSUME NEW line \in Seq(Plain), NEW i \in Nat, i + 1 <= Len(line), NEW n \in Nat, NEW b, NEW c,
         NEW out \in Nat, Laid(line, i, n, TRUE, b, out), ~Gap(line, i + 1),
         Agree(b, c, out), Holds(c, out, Meaning(line, i + 1))
  PROVE  Laid(line, i + 1, n, TRUE, c, out + Len(Meaning(line, i + 1)))
<1> DEFINE m == Meaning(line, i + 1)
           to == out + Len(m)
<1>0. i + 1 \in 1 .. Len(line) /\ Len(line) \in Nat
  BY LenProperties
<1>1. PICK pos : Placed(line, i, n, TRUE, b, out, pos)
  BY DEF Laid
<1>2. n > 0 /\ pos[n + 1] = out + 1 /\ n \in 1 .. n + 1 /\ n + 1 \in 1 .. n + 1 /\ n < n + 1
  BY <1>1 DEF Placed
<1>3. m \in Seq(Plain) /\ Len(m) \in Nat
  BY <1>0, MeaningType, LenProperties
<1>4. /\ pos \in [1 .. n + 1 -> Nat] /\ pos[1] = 0
      /\ \A j, k \in 1 .. n + 1 : j < k => pos[j] < pos[k]
  BY <1>1 DEF Placed
<1> DEFINE far == [k \in 1 .. n + 1 |-> IF k = n + 1 THEN to + 1 ELSE pos[k]]
<1>5. to \in Nat /\ to + 1 >= out + 1
  BY <1>3
<1>6. /\ far \in [1 .. n + 1 -> Nat] /\ far[n + 1] = to + 1
      /\ \A k \in 1 .. n : far[k] = pos[k] /\ (k # n => far[k + 1] = pos[k + 1])
      /\ \A k \in 1 .. n + 1 : k # n + 1 => far[k] = pos[k]
  <2>1. \A k \in 1 .. n : k \in 1 .. n + 1 /\ k # n + 1 /\ k + 1 \in 1 .. n + 1 /\ (k # n => k + 1 # n + 1)
    OBVIOUS
  <2> HIDE DEF to
  <2> QED BY <1>2, <1>4, <1>5, <2>1
<1> HIDE DEF far, m, to
<1>7. far[1] = 0
  <2>1. 1 \in 1 .. n
    BY <1>2
  <2> QED BY <1>4, <1>6, <2>1
<1>8. ASSUME NEW j \in 1 .. n + 1, NEW k \in 1 .. n + 1, j < k PROVE far[j] < far[k]
  <2>1. j # n + 1 /\ far[j] = pos[j] /\ pos[j] < pos[k] /\ pos[j] \in Nat /\ pos[k] \in Nat
    BY <1>4, <1>6, <1>8
  <2>2. CASE k = n + 1
    BY <1>2, <1>5, <1>6, <2>1, <2>2
  <2>3. CASE k # n + 1
    BY <1>6, <2>1, <2>3
  <2> QED BY <2>2, <2>3
<1>9. ASSUME NEW k \in 1 .. n, k # n PROVE ClosedAt(line, i + 1, c, k, far[k], far[k + 1])
  <2>1. ClosedAt(line, i + 1, c, k, pos[k], pos[k + 1])
    BY <1>1, <1>9, PlacedKept
  <2> QED BY <1>6, <1>9, <2>1
<1>10. OpenAt(line, i + 1, c, n, far[n], far[n + 1])
  <2>0. n \in 1 .. n
    BY <1>2
  <2>1. PICK s \in 1 .. i : WordAt(line, b, n, pos[n], out, s, i)
    <3>1. OpenAt(line, i, b, n, pos[n], pos[n + 1])
      BY <1>1, <2>0 DEF Placed
    <3>2. pos[n + 1] - 1 = out
      BY <1>2
    <3> QED BY <3>1, <3>2 DEF OpenAt
  <2>2. out + 1 - 1 = out /\ (to + 1) - 1 = to /\ s \in Nat \ {0} /\ s - 1 <= i /\ s \in 1 .. i + 1 /\ s <= i + 1
    BY <1>5
  <2>3. pos[n] \in Nat /\ pos[n] <= out
    BY <1>2, <1>4, <2>1, <2>2 DEF WordAt
  <2>4. /\ Sofar(line, s, i) \in Seq(Plain)
        /\ Sofar(line, s, i + 1) = Sofar(line, s, i) \o m
    BY <2>2, SofarNext DEF m
  <2>5. Slice(b, pos[n], out) = Sofar(line, s, i)
    BY <2>1, <2>2 DEF WordAt
  <2>6. Holds(c, out, m)
    BY DEF m
  <2>7. Slice(c, pos[n], to) = Slice(b, pos[n], out) \o m
    <3> DEFINE p == pos[n]
               old == Sofar(line, s, i)
    <3>1. p \in Nat /\ p <= out /\ old \in Seq(Plain) /\ old = Slice(b, p, out)
      BY <2>3, <2>4, <2>5
    <3> HIDE DEF p, old
    <3>2. Grows(c, p, out, old, m)
      BY ONLY <1>3, <2>6, <3>1, out \in Nat, Agree(b, c, out), SliceLonger
    <3> QED BY <2>5, <3>2 DEF to, p, old, Grows
  <2>8. \A j \in s .. i + 1 : ~Gap(line, j)
    <3>1. \A j \in s .. i : ~Gap(line, j)
      BY <2>1 DEF WordAt
    <3>2. \A j \in s .. i + 1 : j \in s .. i \/ j = i + 1
      OBVIOUS
    <3> QED BY <3>1, <3>2
  <2>9. pos[n] <= to
    BY <1>3, <2>3 DEF to
  <2>10. WordAt(line, c, n, pos[n], to, s, i + 1)
    BY <2>1, <2>2, <2>4, <2>5, <2>7, <2>8, <2>9 DEF WordAt
  <2> QED BY <1>6, <2>0, <2>2, <2>10 DEF OpenAt
<1>11. Placed(line, i + 1, n, TRUE, c, to, far)
  BY <1>2, <1>6, <1>7, <1>8, <1>9, <1>10 DEF Placed
<1> QED BY <1>11 DEF Laid, to, m

\* The first byte of the next word.
LEMMA StartWord ==
  ASSUME NEW line \in Seq(Plain), NEW i \in Nat, i + 1 <= Len(line), NEW n \in Nat, NEW b, NEW c,
         NEW out \in Nat, Laid(line, i, n, FALSE, b, out),
         i + 1 \in WordStarts(line), WordsTo(line, i + 1) = n + 1,
         Agree(b, c, out), Holds(c, out, Meaning(line, i + 1))
  PROVE  Laid(line, i + 1, n + 1, TRUE, c, out + Len(Meaning(line, i + 1)))
<1> DEFINE m == Meaning(line, i + 1)
           to == out + Len(m)
           l == n + 1
<1>0. i + 1 \in 1 .. Len(line) /\ Len(line) \in Nat
  BY LenProperties
<1>1. PICK pos : Placed(line, i, n, FALSE, b, out, pos)
  BY DEF Laid
<1>2. l \in Nat /\ l > 0 /\ l \in 1 .. l /\ 1 \in 1 .. l /\ pos[l] = out
  BY <1>1 DEF Placed
<1>3. m \in Seq(Plain) /\ Len(m) \in Nat
  BY <1>0, MeaningType, LenProperties
<1>4. /\ pos \in [1 .. l -> Nat] /\ pos[1] = 0
      /\ \A j, k \in 1 .. l : j < k => pos[j] < pos[k]
  BY <1>1 DEF Placed
<1>5. to \in Nat /\ to + 1 > out
  BY <1>3
<1> DEFINE far == [k \in 1 .. l + 1 |-> IF k = l + 1 THEN to + 1 ELSE pos[k]]
<1>6. /\ far \in [1 .. l + 1 -> Nat] /\ far[l + 1] = to + 1
      /\ \A k \in 1 .. l : far[k] = pos[k]
      /\ \A k \in 1 .. n : far[k] = pos[k] /\ far[k + 1] = pos[k + 1]
  <2>1. \A k \in 1 .. l : k \in 1 .. l + 1 /\ k # l + 1
    BY <1>2
  <2>2. l + 1 \in 1 .. l + 1 /\ \A k \in 1 .. l + 1 : k # l + 1 => k \in 1 .. l
    BY <1>2
  <2>3. \A k \in 1 .. n : k \in 1 .. l /\ k + 1 \in 1 .. l
    OBVIOUS
  <2> HIDE DEF to, l
  <2>4. \A k \in 1 .. l + 1 : far[k] = IF k = l + 1 THEN to + 1 ELSE pos[k]
    OBVIOUS
  <2>5. \A k \in 1 .. l + 1 : (IF k = l + 1 THEN to + 1 ELSE pos[k]) \in Nat
    BY <1>4, <1>5, <2>2
  <2>6. far \in [1 .. l + 1 -> Nat]
    BY <2>5
  <2> HIDE DEF far
  <2> QED BY <2>1, <2>2, <2>3, <2>4, <2>6
<1>7. \A k \in 1 .. n : k + 1 \in 1 .. l /\ k \in 1 .. l
  OBVIOUS
<1>8. \A k \in 1 .. l : k # l => k \in 1 .. n
  OBVIOUS
<1> HIDE DEF far, m, to
<1>9. far[1] = 0
  BY <1>2, <1>4, <1>6
<1>10. ASSUME NEW j \in 1 .. l + 1, NEW k \in 1 .. l + 1, j < k PROVE far[j] < far[k]
  <2>1. j \in 1 .. l /\ far[j] = pos[j] /\ pos[j] \in Nat
    BY <1>4, <1>6, <1>10
  <2>2. CASE k = l + 1
    <3>1. pos[j] <= out
      BY <1>2, <1>4, <2>1
    <3> QED BY <1>5, <1>6, <2>1, <2>2, <3>1
  <2>3. CASE k # l + 1
    <3>1. k \in 1 .. l
      BY <2>3
    <3> QED BY <1>4, <1>6, <1>10, <2>1, <3>1
  <2> QED BY <2>2, <2>3
<1>11. ASSUME NEW k \in 1 .. n PROVE ClosedAt(line, i + 1, c, k, far[k], far[k + 1])
  <2>1. ClosedAt(line, i + 1, c, k, pos[k], pos[k + 1])
    BY <1>1, <1>11, PlacedKept
  <2> QED BY <1>6, <1>11, <2>1
<1>12. OpenAt(line, i + 1, c, l, far[l], far[l + 1])
  <2> DEFINE s == i + 1
             none == << >>
  <2>1. s \in Nat \ {0} /\ s - 1 = i /\ s \in 1 .. s /\ s <= s /\ \A j \in s .. s : j = s
    OBVIOUS
  <2>2. Sofar(line, s, i) = << >> /\ Sofar(line, s, s) = Sofar(line, s, i) \o m
    <3>1. Sofar(line, s, s - 1) = << >>
      BY <2>1, SofarNone
    <3>2. s - 1 <= i /\ i + 1 = s
      BY <2>1
    <3> HIDE DEF s
    <3>3. Sofar(line, s, i + 1) = Sofar(line, s, i) \o Meaning(line, i + 1)
      BY <2>1, <3>2, SofarNext
    <3> QED BY <2>1, <3>1, <3>2, <3>3 DEF m
  <2>3. << >> \o m = m
    BY <1>3, ConcatEmptySeq
  <2>4. none \in Seq(Plain) /\ none = Slice(b, out, out) /\ out <= out
    BY DEF Slice
  <2>5. Holds(c, out, m)
    BY DEF m
  <2> HIDE DEF none
  <2>6. Grows(c, out, out, none, m)
    BY ONLY <1>3, <2>4, <2>5, out \in Nat, Agree(b, c, out), SliceLonger
  <2>7. Slice(c, out, to) = Sofar(line, s, s)
    BY <2>2, <2>6 DEF Grows, none, to
  <2>8. ~Gap(line, s)
    BY DEF WordStarts
  <2>9. out <= to
    BY <1>3 DEF to
  <2>10. WordAt(line, c, l, out, to, s, s)
    BY <2>1, <2>7, <2>8, <2>9 DEF WordAt
  <2>11. far[l] = out /\ far[l + 1] - 1 = to
    BY <1>2, <1>5, <1>6
  <2> QED BY <2>1, <2>10, <2>11 DEF OpenAt
<1>13. Placed(line, i + 1, l, TRUE, c, to, far)
  BY <1>2, <1>6, <1>8, <1>9, <1>10, <1>11, <1>12 DEF Placed
<1> QED BY <1>13 DEF Laid, to, m

-----------------------------------------------------------------------------
\* The words of a line in the buffer, each behind the terminator of the last.
WordHeld(line, c, k, p, q) ==
  /\ c[q - 1] = "NUL"
  /\ Slice(c, p, q - 1) = Word(line, NthWord(line, k))
  /\ \A j \in p .. q - 2 : c[j] # "NUL"

WordsHeld(line, n, c, pos) ==
  /\ pos \in [1 .. n + 1 -> Nat]
  /\ pos[1] = 0 /\ pos[n + 1] <= InSize
  /\ \A j, k \in 1 .. n + 1 : j < k => pos[j] < pos[k]
  /\ \A k \in 1 .. n : WordHeld(line, c, k, pos[k], pos[k + 1])

LEMMA WholeWord ==
  ASSUME NEW line \in Seq(Plain), NEW c, NEW k, NEW p \in Nat, NEW q \in Nat, p < q, c[q - 1] = "NUL",
         NEW s \in 1 .. Len(line), NEW e \in 1 .. Len(line), WordAt(line, c, k, p, q - 1, s, e),
         e = Len(line) \/ Gap(line, e + 1)
  PROVE  WordHeld(line, c, k, p, q)
<1>0. Len(line) \in Nat
  BY LenProperties
<1>1. /\ s \in WordStarts(line) /\ WordsTo(line, s) = k /\ s <= e /\ \A j \in s .. e : ~Gap(line, j)
      /\ Slice(c, p, q - 1) = Sofar(line, s, e)
  BY DEF WordAt
<1>2. NthWord(line, k) = s
  BY <1>0, <1>1, NthWordIs
<1>3. WordEnd(line, s) = e
  <2>1. s \in Nat /\ e \in s .. Len(line)
    BY <1>0, <1>1
  <2> QED BY <1>0, <1>1, <2>1, WordEndIs
<1>4. Word(line, s) = Sofar(line, s, e)
  BY <1>3 DEF Word, Sofar, Meanings
<1>5. Sofar(line, s, e) \in Seq(Plain)
  <2> DEFINE d == e - 1
             first == Sofar(line, s, d)
             last == Meaning(line, e)
  <2>1. d \in Nat /\ s - 1 <= d /\ d + 1 <= Len(line) /\ d + 1 = e /\ s \in Nat \ {0}
    BY <1>0, <1>1
  <2>2. first \in Seq(Plain) /\ Sofar(line, s, d + 1) = first \o Meaning(line, d + 1)
    <3> HIDE DEF d
    <3> QED BY <2>1, SofarNext
  <2>3. last \in Seq(Plain)
    BY MeaningType
  <2>4. Sofar(line, s, e) = first \o last
    BY <2>1, <2>2
  <2> HIDE DEF first, last
  <2>5. first \o last \in Seq(Plain)
    BY <2>2, <2>3, ConcatProperties
  <2> QED BY <2>4, <2>5
<1>6. \A j \in p .. q - 2 : c[j] # "NUL"
  <2> SUFFICES ASSUME NEW j \in p .. q - 2 PROVE c[j] # "NUL"
    OBVIOUS
  <2> DEFINE n == (q - 1) - p
             i == j - p + 1
             w == Slice(c, p, q - 1)
  <2>1. n \in Nat /\ i \in 1 .. n /\ p + i - 1 = j
    OBVIOUS
  <2>2. w = [x \in 1 .. n |-> c[p + x - 1]]
    BY DEF Slice
  <2>3. w \in Seq(Plain)
    BY <1>1, <1>5
  <2> HIDE DEF n, i, w
  <2>4. w[i] = c[j] /\ Len(w) = n
    <3>1. w[i] = c[p + i - 1]
      BY <2>1, <2>2
    <3>2. Len(w) = n
      BY <2>1, <2>2
    <3> QED BY <2>1, <3>1, <3>2
  <2>5. w[i] \in Plain
    BY <2>1, <2>3, <2>4, ElementOfSeq
  <2> QED BY <2>4, <2>5 DEF Plain
<1> QED BY <1>1, <1>2, <1>4, <1>6 DEF WordHeld

\* At the end of the line the last terminator is written, one word or not.
LEMMA AllHeld ==
  ASSUME NEW line \in Seq(Plain), NEW n \in Nat, NEW open \in BOOLEAN, NEW b, NEW c, NEW out \in Nat,
         out < InSize, Laid(line, Len(line), n, open, b, out), Agree(b, c, out), c[out] = "NUL"
  PROVE  \E pos : WordsHeld(line, n, c, pos)
<1> DEFINE l == Len(line)
<1>0. l \in Nat /\ InSize \in Nat
  BY LenProperties, LineAssumption
<1>1. PICK pos : Placed(line, l, n, open, b, out, pos)
  BY DEF Laid
<1>2. /\ pos \in [1 .. n + 1 -> Nat] /\ pos[1] = 0 /\ pos[n + 1] <= out + 1
      /\ \A j, k \in 1 .. n + 1 : j < k => pos[j] < pos[k]
  BY <1>1 DEF Placed
<1>3. pos[n + 1] <= InSize
  <2>1. n + 1 \in 1 .. n + 1
    OBVIOUS
  <2>2. pos[n + 1] \in Nat
    BY <1>2, <2>1
  <2> QED BY <1>0, <1>2, <2>2
<1>4. ASSUME NEW k \in 1 .. n PROVE WordHeld(line, c, k, pos[k], pos[k + 1])
  <2> DEFINE p == pos[k]
             q == pos[k + 1]
  <2>1. p \in Nat /\ q \in Nat /\ p < q
    <3>1. k \in 1 .. n + 1 /\ k + 1 \in 1 .. n + 1 /\ k < k + 1
      OBVIOUS
    <3> QED BY <1>2, <3>1
  <2>2. CASE ~(k = n /\ open)
    <3>1. ClosedAt(line, l + 1, c, k, p, q)
      BY <1>0, <1>1, <2>2, PlacedKept
    <3>2. c[q - 1] = "NUL"
      BY <3>1 DEF ClosedAt
    <3>3. PICK s \in 1 .. l + 1, e \in 1 .. l + 1 :
            e < l + 1 /\ Gap(line, e + 1) /\ WordAt(line, c, k, p, q - 1, s, e)
      BY <3>1 DEF ClosedAt
    <3>4. s <= e
      BY <3>3 DEF WordAt
    <3>5. s \in 1 .. l /\ e \in 1 .. l
      BY <1>0, <3>3, <3>4
    <3> HIDE DEF p, q
    <3>6. WordHeld(line, c, k, p, q)
      BY <2>1, <3>2, <3>3, <3>5, WholeWord
    <3> QED BY <3>6 DEF p, q
  <2>3. CASE k = n /\ open
    <3>1. OpenAt(line, l, b, k, p, q) /\ q = out + 1
      BY <1>1, <2>3 DEF Placed
    <3>2. PICK s \in 1 .. l : WordAt(line, b, k, p, q - 1, s, l)
      BY <3>1 DEF OpenAt
    <3>3. q - 1 = out /\ out <= out
      BY <3>1
    <3> HIDE DEF p, q
    <3>4. Slice(c, p, out) = Slice(b, p, out)
      BY ONLY <2>1, <3>3, out \in Nat, Agree(b, c, out), SliceKept
    <3>5. WordAt(line, c, k, p, q - 1, s, l)
      BY <3>2, <3>3, <3>4 DEF WordAt
    <3>6. l \in 1 .. l
      BY <1>0, <3>2
    <3>7. c[q - 1] = "NUL"
      BY <3>3
    <3>8. WordHeld(line, c, k, p, q)
      BY <2>1, <3>5, <3>6, <3>7, WholeWord
    <3> QED BY <3>8 DEF p, q
  <2> QED BY <2>2, <2>3
<1>5. WordsHeld(line, n, c, pos)
  BY <1>2, <1>3, <1>4 DEF WordsHeld
<1> QED BY <1>5

LEMMA PosOf ==
  ASSUME NEW line, NEW n \in Nat, NEW c, NEW pos, WordsHeld(line, n, c, pos), NEW k \in 1 .. n + 1
  PROVE  pos[k] \in 0 .. InSize
<1>1. /\ pos \in [1 .. n + 1 -> Nat] /\ pos[n + 1] <= InSize /\ InSize \in Nat
      /\ \A i, j \in 1 .. n + 1 : i < j => pos[i] < pos[j]
  BY LineAssumption DEF WordsHeld
<1>2. n + 1 \in 1 .. n + 1 /\ (k = n + 1 \/ k < n + 1)
  OBVIOUS
<1>3. pos[k] \in Nat /\ pos[n + 1] \in Nat
  BY ONLY <1>1, <1>2, k \in 1 .. n + 1
<1>4. pos[k] <= pos[n + 1]
  <2>1. CASE k = n + 1
    BY ONLY <2>1, <1>3
  <2>2. CASE k < n + 1
    <3>1. pos[k] < pos[n + 1]
      BY ONLY <2>2, <1>1, <1>2, k \in 1 .. n + 1
    <3> QED BY ONLY <3>1, <1>3
  <2> QED BY ONLY <1>2, <2>1, <2>2
<1> QED BY ONLY <1>1, <1>3, <1>4

\* Up to the k-th word there are k - 1 terminators.
LEMMA NulsAt ==
  ASSUME NEW line, NEW n \in Nat, NEW c, NEW pos, WordsHeld(line, n, c, pos)
  PROVE  \A k \in 0 .. n : NulsBefore(c, pos[k + 1]) = k
<1> DEFINE Good == {k \in 0 .. n : NulsBefore(c, pos[k + 1]) = k}
<1>1. 0 \in Good
  <2>1. pos[0 + 1] = 0
    BY DEF WordsHeld
  <2>2. NulsIn(c, 0) = {}
    BY LineAssumption DEF NulsIn, Index
  <2>3. NulsBefore(c, 0) = 0
    BY <2>2, CountsNuls, FS_EmptySet
  <2> QED BY <2>1, <2>3
<1>2. ASSUME NEW k \in 1 .. n, k - 1 \in Good PROVE k \in Good
  <2> DEFINE p == pos[k]
             q == pos[k + 1]
  <2>0. k \in 1 .. n + 1 /\ k + 1 \in 1 .. n + 1 /\ k < k + 1 /\ (k - 1) + 1 = k
    OBVIOUS
  <2>1. p < q
    BY <2>0 DEF WordsHeld
  <2>2. p \in 0 .. InSize /\ q \in 0 .. InSize
    BY <2>0, PosOf
  <2>3. c[q - 1] = "NUL" /\ \A j \in p .. q - 2 : c[j] # "NUL"
    BY DEF WordsHeld, WordHeld
  <2>4. NulsBefore(c, p) = k - 1
    BY <1>2, <2>0
  <2> HIDE DEF p, q
  <2>5. InSize \in Nat
    BY LineAssumption
  <2>6. q - 1 \in Index /\ q - 1 < q /\ ~(q - 1 < p)
    BY <2>1, <2>2, <2>5 DEF Index
  <2>7. \A j \in Index : j < q => j < p \/ j \in p .. q - 2 \/ j = q - 1
    BY <2>2 DEF Index
  <2>8. \A j \in Index : j < p => j < q
    BY <2>1, <2>2 DEF Index
  <2>9. NulsIn(c, q) = NulsIn(c, p) \cup {q - 1} /\ q - 1 \notin NulsIn(c, p)
    BY <2>3, <2>6, <2>7, <2>8 DEF NulsIn
  <2>10. NulsBefore(c, q) = (k - 1) + 1
    BY <2>4, <2>9, CountsNuls, FS_AddElement
  <2> QED BY <2>10 DEF q
<1>3. \A k \in 0 .. n : k \in Good
  <2> HIDE DEF Good
  <2> QED BY <1>1, <1>2, IntervalInduction
<1> QED BY <1>3

LEMMA StartIs ==
  ASSUME NEW line, NEW n \in Nat, NEW c, NEW pos, WordsHeld(line, n, c, pos), NEW k \in 1 .. n + 1
  PROVE  StartOf(c, k) = pos[k]
<1> DEFINE S == {p \in 0 .. InSize : NulsBefore(c, p) = k - 1} \cup {InSize + 1}
           q == pos[k]
<1>0. InSize \in Nat /\ k - 1 \in 0 .. n /\ (k - 1) + 1 = k
  BY LineAssumption
<1>1. q \in 0 .. InSize
  BY PosOf
<1>2. NulsBefore(c, q) = k - 1
  <2>1. \A j \in 0 .. n : NulsBefore(c, pos[j + 1]) = j
    BY NulsAt
  <2>2. NulsBefore(c, pos[(k - 1) + 1]) = k - 1
    BY <1>0, <2>1
  <2> QED BY <1>0, <2>2
<1>3. ASSUME NEW x \in 0 .. InSize, NulsBefore(c, x) = k - 1, x < q PROVE FALSE
  <2>1. k # 1
    <3>1. k = 1 => q = 0
      BY DEF WordsHeld
    <3> QED BY <1>3, <3>1
  <2>2. k - 1 \in 1 .. n
    BY <2>1
  <2>3. c[q - 1] = "NUL"
    <3>1. WordHeld(line, c, k - 1, pos[k - 1], pos[(k - 1) + 1])
      BY <2>2 DEF WordsHeld
    <3> QED BY <1>0, <3>1 DEF WordHeld
  <2> HIDE DEF q
  <2>4. q - 1 \in Index /\ q - 1 < q /\ ~(q - 1 < x)
    BY <1>0, <1>1, <1>3 DEF Index
  <2>5. \A j \in Index : j < x => j < q
    BY <1>1, <1>3 DEF Index
  <2>6. q - 1 \notin NulsIn(c, x) /\ NulsIn(c, x) \cup {q - 1} \subseteq NulsIn(c, q)
    BY <2>3, <2>4, <2>5 DEF NulsIn
  <2>7. Cardinality(NulsIn(c, x) \cup {q - 1}) = (k - 1) + 1
    <3>1. IsFiniteSet(NulsIn(c, x)) /\ Cardinality(NulsIn(c, x)) = k - 1
      BY <1>3, CountsNuls
    <3> QED BY <2>6, <3>1, FS_AddElement
  <2>8. Cardinality(NulsIn(c, x) \cup {q - 1}) <= Cardinality(NulsIn(c, q))
    BY <2>6, CountsNuls, FS_Subset
  <2>9. Cardinality(NulsIn(c, q)) = k - 1
    BY <1>2, CountsNuls
  <2> QED BY <2>7, <2>8, <2>9
<1>4. q \in S /\ S \subseteq Int
  BY <1>0, <1>1, <1>2
<1>5. \A x \in S : q <= x
  BY <1>0, <1>1, <1>3
<1>6. StartOf(c, k) = Min(S)
  BY DEF StartOf
<1> HIDE DEF S, q
<1>7. StartOf(c, k) = q
  BY <1>4, <1>5, <1>6, MinIs
<1> QED BY <1>7 DEF q

\* What ush_parse_get_args finds there are the words.
LEMMA GetArgsAre ==
  ASSUME NEW line, NEW n \in Nat, NEW c, NEW pos, WordsHeld(line, n, c, pos)
  PROVE  GetArgs(c, n) = [k \in 1 .. n |-> Word(line, NthWord(line, k))]
<1> DEFINE Arg(k) == [i \in 1 .. StartOf(c, k + 1) - 1 - StartOf(c, k) |-> c[StartOf(c, k) + i - 1]]
<1>1. ASSUME NEW k \in 1 .. n PROVE Arg(k) = Word(line, NthWord(line, k))
  <2>1. k \in 1 .. n + 1 /\ k + 1 \in 1 .. n + 1
    OBVIOUS
  <2>2. StartOf(c, k) = pos[k] /\ StartOf(c, k + 1) = pos[k + 1]
    BY <2>1, StartIs
  <2>3. Arg(k) = Slice(c, pos[k], pos[k + 1] - 1)
    BY <2>2 DEF Slice
  <2> QED BY <2>3 DEF WordsHeld, WordHeld
<1>2. GetArgs(c, n) = [k \in 1 .. n |-> Arg(k)]
  BY DEF GetArgs
<1> HIDE DEF Arg
<1> QED BY <1>1, <1>2

Searching(mode) == mode = "PARSE_SEARCH_ARG"

\* One byte of the parser keeps the words laid out.
LEMMA LaidNext ==
  ASSUME NEW line \in Seq(Plain), NEW i \in Nat, i + 1 <= Len(line), NEW b, NEW out \in Nat,
         Laid(line, i, WordsTo(line, i), ~Searching(ModeOf(line, i)), b, out),
         NEW text, text = Emitted(ModeOf(line, i), Escaped(line, i + 1), line[i + 1]),
         out + Len(text) <= InSize
  PROVE  /\ WordsTo(line, i + 1)
              = IF StartsArg(ModeOf(line, i), line[i + 1]) THEN WordsTo(line, i) + 1 ELSE WordsTo(line, i)
         /\ Laid(line, i + 1, WordsTo(line, i + 1), ~Searching(ModeOf(line, i + 1)),
                 Wrote(b, out, text), out + Len(text))
<1> DEFINE mode == ModeOf(line, i)
           ch == line[i + 1]
           n == WordsTo(line, i)
           c == Wrote(b, out, text)
           m == Meaning(line, i + 1)
<1>0. Len(line) \in Nat /\ i \in 0 .. Len(line) - 1 /\ i + 1 # 0
  BY LenProperties
<1>1. n \in Nat /\ WordsTo(line, i + 1) = n + (IF i + 1 \in WordStarts(line) THEN 1 ELSE 0)
  BY <1>0, StartsFinite, WordsNext
<1>2. i + 1 \in WordStarts(line) <=> (~Gap(line, i + 1) /\ Searching(mode))
  <2>1. Searching(mode) <=> (i = 0 \/ Gap(line, i))
    BY DEF Searching, ModeOf
  <2> QED BY <1>0, <2>1, StartsAre
<1>3. Searching(ModeOf(line, i + 1)) <=> Gap(line, i + 1)
  BY <1>0 DEF Searching, ModeOf
<1>4. StartsArg(mode, ch) <=> (Searching(mode) /\ ~Gap(line, i + 1))
  <2>1. Searching(mode) => ~Escaped(line, i + 1) /\ ~Quoted(line, i + 1)
    BY GapClean DEF Searching, ModeOf
  <2> QED BY <2>1 DEF StartsArg, Searching, Gap
<1>5. text = IF ~Gap(line, i + 1) THEN m ELSE IF Searching(mode) THEN << >> ELSE <<"NUL">>
  BY EmittedIs DEF Searching
<1>6. Len(text) \in Nat
  <2>1. Len(<<"NUL">>) = 1 /\ Len(<< >>) = 0 /\ Len(m) \in Nat
    BY MeaningLength
  <2> QED BY <1>5, <2>1
<1>7. Agree(b, c, out) /\ Holds(c, out, text)
  BY <1>6, WroteIs
<1>8. Laid(line, i, n, ~Searching(mode), b, out)
  OBVIOUS
<1>9. Searching(mode) \in BOOLEAN /\ Gap(line, i + 1) \in BOOLEAN
  BY DEF Searching, Gap, Escaped, Quoted
<1> HIDE DEF mode, ch, n, c, m
<1>10. CASE Gap(line, i + 1) /\ Searching(mode)
  <2>1. WordsTo(line, i + 1) = n /\ text = << >> /\ out + Len(text) = out
    BY <1>1, <1>2, <1>5, <1>10
  <2>2. (~Searching(mode)) = FALSE /\ (~Searching(ModeOf(line, i + 1))) = FALSE
    BY <1>3, <1>10
  <2>3. Laid(line, i, n, FALSE, b, out)
    BY <1>8, <2>2
  <2>4. Laid(line, i + 1, n, FALSE, c, out)
    BY <1>1, <1>7, <2>3, SkipGap
  <2> QED BY <1>4, <1>10, <2>1, <2>2, <2>4 DEF mode, ch, n, c
<1>11. CASE Gap(line, i + 1) /\ ~Searching(mode)
  <2>1. WordsTo(line, i + 1) = n /\ text = <<"NUL">> /\ Len(text) = 1 /\ text[1] = "NUL"
    BY <1>1, <1>2, <1>5, <1>11
  <2>2. (~Searching(mode)) = TRUE /\ (~Searching(ModeOf(line, i + 1))) = FALSE
    BY <1>3, <1>11
  <2>3. Laid(line, i, n, TRUE, b, out)
    BY <1>8, <2>2
  <2>4. c[out] = "NUL"
    <3>1. 1 \in 1 .. Len(text) /\ out + 1 - 1 = out
      BY <2>1
    <3> QED BY <1>7, <2>1, <3>1 DEF Holds
  <2>5. Laid(line, i + 1, n, FALSE, c, out + 1)
    BY <1>1, <1>7, <1>11, <2>3, <2>4, CloseWord
  <2> QED BY <1>4, <1>11, <2>1, <2>2, <2>5 DEF mode, ch, n, c
<1>12. CASE ~Gap(line, i + 1) /\ Searching(mode)
  <2>1. WordsTo(line, i + 1) = n + 1 /\ text = m /\ i + 1 \in WordStarts(line)
    BY <1>1, <1>2, <1>5, <1>12
  <2>2. (~Searching(mode)) = FALSE /\ (~Searching(ModeOf(line, i + 1))) = TRUE
    BY <1>3, <1>12
  <2>3. Laid(line, i, n, FALSE, b, out)
    BY <1>8, <2>2
  <2>4. Holds(c, out, Meaning(line, i + 1))
    BY <1>7, <2>1 DEF m
  <2>5. Laid(line, i + 1, n + 1, TRUE, c, out + Len(Meaning(line, i + 1)))
    BY <1>1, <1>7, <2>1, <2>3, <2>4, StartWord
  <2> QED BY <1>4, <1>12, <2>1, <2>2, <2>5 DEF mode, ch, n, c, m
<1>13. CASE ~Gap(line, i + 1) /\ ~Searching(mode)
  <2>1. WordsTo(line, i + 1) = n /\ text = m
    BY <1>1, <1>2, <1>5, <1>13
  <2>2. (~Searching(mode)) = TRUE /\ (~Searching(ModeOf(line, i + 1))) = TRUE
    BY <1>3, <1>13
  <2>3. Laid(line, i, n, TRUE, b, out)
    BY <1>8, <2>2
  <2>4. Holds(c, out, Meaning(line, i + 1))
    BY <1>7, <2>1 DEF m
  <2>5. Laid(line, i + 1, n, TRUE, c, out + Len(Meaning(line, i + 1)))
    BY <1>1, <1>7, <1>13, <2>3, <2>4, ExtendWord
  <2> QED BY <1>4, <1>13, <2>1, <2>2, <2>5 DEF mode, ch, n, c, m
<1> QED BY <1>9, <1>10, <1>11, <1>12, <1>13

\* Before the first byte there are no words.
LEMMA LaidFirst ==
  ASSUME NEW line, Len(line) \in Nat, NEW b
  PROVE  /\ WordsTo(line, 0) = 0 /\ ModeOf(line, 0) = "PARSE_SEARCH_ARG" /\ ~Escaped(line, 1)
         /\ Laid(line, 0, 0, FALSE, b, 0)
<1> DEFINE pos == [k \in 1 .. 0 + 1 |-> 0]
<1>1. /\ pos \in [1 .. 0 + 1 -> Nat] /\ pos[1] = 0 /\ pos[0 + 1] = 0
      /\ \A j, k \in 1 .. 0 + 1 : ~(j < k)
      /\ \A k \in 1 .. 0 : FALSE
  OBVIOUS
<1> HIDE DEF pos
<1>2. Placed(line, 0, 0, FALSE, b, 0, pos)
  BY <1>1 DEF Placed
<1>3. Laid(line, 0, 0, FALSE, b, 0)
  BY <1>2 DEF Laid
<1> QED BY <1>3, WordsEnds, NotEscapedFirst DEF ModeOf

\* At the end of the line the arguments are its words.
LEMMA GetArgsLast ==
  ASSUME NEW line \in Seq(Plain), NEW b, NEW out \in Nat, out < InSize,
         NEW open \in BOOLEAN, Laid(line, Len(line), WordsTo(line, Len(line)), open, b, out)
  PROVE  GetArgs(Wrote(b, out, <<"NUL">>), WordsTo(line, Len(line))) = Tokens(line)
<1> DEFINE n == WordsTo(line, Len(line))
           text == <<"NUL">>
           c == Wrote(b, out, text)
<1>1. Len(line) \in Nat /\ n \in Nat /\ n = Cardinality(WordStarts(line))
  BY LenProperties, StartsFinite, WordsEnds
<1>2. Len(text) = 1 /\ text[1] = "NUL" /\ InSize \in Nat
  BY LineAssumption
<1>3. Len(text) \in Nat /\ out + Len(text) <= InSize
  BY <1>2
<1> HIDE DEF text
<1>4. Agree(b, c, out) /\ Holds(c, out, text)
  BY <1>3, WroteIs
<1>5. c[out] = "NUL"
  <2>1. 1 \in 1 .. Len(text) /\ out + 1 - 1 = out
    BY <1>2
  <2> QED BY <1>2, <1>4, <2>1 DEF Holds
<1>6. Laid(line, Len(line), n, open, b, out)
  OBVIOUS
<1> HIDE DEF n, c
<1>7. PICK pos : WordsHeld(line, n, c, pos)
  BY <1>1, <1>4, <1>5, <1>6, AllHeld
<1>8. GetArgs(c, n) = [k \in 1 .. n |-> Word(line, NthWord(line, k))]
  BY <1>1, <1>7, GetArgsAre
<1>9. GetArgs(c, n) = Tokens(line)
  BY <1>1, <1>8 DEF Tokens
<1> QED BY <1>9 DEF c, n, text

\* CommandLine's words are these.
LEMMA SameTokens ==
  ASSUME NEW line
  PROVE  CL!Tokens(line) = Tokens(line) /\ CL!Front(line) = Front(line)
<1>1. \A x, i : CL!Escaped(x, i) <=> Escaped(x, i)
  BY DEF CL!Escaped, Escaped, CL!Max, Max
<1>2. \A x, i : CL!Quotes(x, i) <=> Quotes(x, i)
  BY <1>1 DEF CL!Quotes, Quotes
<1>0. \A S : CL!Cardinality(S) = Cardinality(S)
  BY DEF CL!Cardinality, Cardinality, CL!IsFiniteSet, IsFiniteSet
<1>3. \A x, i : CL!Quoted(x, i) <=> Quoted(x, i)
  BY <1>0, <1>2 DEF CL!Quoted, Quoted
<1>4. \A x, i : CL!Gap(x, i) <=> Gap(x, i)
  BY <1>1, <1>3 DEF CL!Gap, Gap
<1>5. \A x : CL!WordStarts(x) = WordStarts(x)
  BY <1>4 DEF CL!WordStarts, WordStarts
<1>6. \A x, i : CL!WordEnd(x, i) = WordEnd(x, i)
  BY <1>4 DEF CL!WordEnd, WordEnd, CL!Max, Max
<1>7. \A x, i : CL!Meaning(x, i) = Meaning(x, i)
  BY <1>1 DEF CL!Meaning, Meaning
<1>8. \A s : CL!FlattenSeq(s) = FlattenSeq(s)
  BY DEF CL!FlattenSeq, FlattenSeq
<1>9. \A x, i : CL!Word(x, i) = Word(x, i)
  BY <1>6, <1>7, <1>8 DEF CL!Word, Word
<1>10. \A x, i : CL!WordsTo(x, i) = WordsTo(x, i)
  BY <1>0, <1>5 DEF CL!WordsTo, WordsTo
<1>11. \A x, k : CL!NthWord(x, k) = NthWord(x, k)
  BY <1>5, <1>10 DEF CL!NthWord, NthWord
<1>12. CL!Tokens(line) = Tokens(line)
  BY <1>0, <1>5, <1>9, <1>11 DEF CL!Tokens, Tokens
<1> QED BY <1>12 DEF CL!Front, Front

\* No terminator is typed, and the arguments of the last command are gone.
TypedLine ==
  /\ Editing => argv = << >> /\ \A i \in 0 .. inPos - 1 : buf[i] # "NUL"
  /\ Entered => argv = << >> /\ \A i \in 1 .. Len(entered) : entered[i] # "NUL"

\* The parser in a line that fits: its state, its flag and its count are those
\* of the bytes read, and it has laid out their words.
Follows(line) ==
  /\ state = ModeOf(line, inPos)
  /\ esc <=> Escaped(line, inPos + 1)
  /\ args = WordsTo(line, inPos)
  /\ Laid(line, inPos, args, ~Searching(state), buf, outPos)
ParserFollows == Parsing /\ Len(entered) < InSize => Follows(Front(entered))

\* In a line that has lost its first byte it has found an empty word there.
CutLine ==
  Parsing /\ Len(entered) = InSize =>
    IF inPos = 0 THEN state = "PARSE_SEARCH_ARG" /\ ~esc /\ args = 0 /\ outPos = 0
                 ELSE args > 0 /\ outPos > 0 /\ buf[0] = "NUL"

TokensInv == TypedLine /\ ParserFollows /\ CutLine

LEMMA IdleTokens == ASSUME ~Editing, ~Entered PROVE TokensInv
BY DEF TokensInv, TypedLine, ParserFollows, CutLine, Entered

\* The bytes before the newline of an entered line.
LEMMA EnteredFront ==
  ASSUME TypeOK, LineInv, TypedLine, Entered
  PROVE  /\ Front(entered) \in Seq(Plain) /\ Len(Front(entered)) = Len(entered) - 1
         /\ \A i \in 1 .. Len(entered) - 1 : Front(entered)[i] = entered[i]
<1> DEFINE n == Len(entered) - 1
           s == entered
<1>1. s \in Seq(Chars) /\ n \in Nat /\ n <= Len(s) /\ \A i \in 1 .. Len(s) : s[i] # "NUL"
  BY DEF TypeOK, LineInv, EnteredLine, TypedLine
<1>2. Front(s) = SubSeq(s, 1, n)
  BY DEF Front
<1> HIDE DEF n, s
<1>3. /\ SubSeq(s, 1, n) \in Seq(Chars) /\ Len(SubSeq(s, 1, n)) = n
      /\ \A i \in 1 .. n : SubSeq(s, 1, n)[i] = s[i]
  BY <1>1, FirstOfSeq
<1> DEFINE f == SubSeq(s, 1, n)
           e(i) == f[i]
<1>4. \A i \in 1 .. n : i \in 1 .. Len(s)
  BY <1>1, LenProperties
<1>5. \A i \in 1 .. n : e(i) \in Plain
  BY <1>1, <1>3, <1>4, ElementOfSeq DEF Plain
<1>6. f = [i \in 1 .. n |-> e(i)]
  BY <1>3, SeqDef
<1> HIDE DEF f, e
<1>7. f \in Seq(Plain)
  BY <1>1, <1>5, <1>6, IsASeq
<1> QED BY <1>2, <1>3, <1>7 DEF f, n, s

\* The byte the parser fetches in a line that fits, or at its start.
LEMMA FetchedByte ==
  ASSUME InSize > 1, TypeOK, LineInv, Parsing, NEW ch \in Fetched
  PROVE  ch = buf[inPos] /\ ch = TypedByte(inPos) /\ inPos < Len(entered) /\ Len(entered) \in 1 .. InSize
<1>1. Entered /\ inPos < Len(entered) /\ inPos \in Nat
  BY DEF Entered, LineInv, ParserBehind, TypeOK
<1>2. Len(entered) \in 1 .. InSize /\ InSize \in Nat
  BY <1>1, LineAssumption DEF LineInv, EnteredLine
<1>3. inPos \in Index /\ inPos \in inPos .. Len(entered) - 1
  BY <1>1, <1>2 DEF Index
<1>4. buf[inPos] = TypedByte(inPos)
  BY <1>1, <1>3 DEF LineInv, UnparsedLine
<1> QED BY <1>1, <1>2, <1>3, <1>4 DEF Fetched

LEMMA StoredIs ==
  ASSUME NEW text
  PROVE  Stored(text) = Wrote(buf, outPos, text)
BY DEF Stored, Wrote

\* One byte of a line that fits.
LEMMA FollowOne ==
  ASSUME InSize > 1, IInv, IInv', TokensInv, NEW ch \in Fetched, ParseStandard(ch), Len(entered) < InSize
  PROVE  Follows(Front(entered))'
<1> DEFINE L == Front(entered)
           i == inPos
           text == Emitted(state, esc, ch)
<1>1. Parsing /\ Parsing' /\ Entered /\ TypeOK /\ LineInv
  BY ModeType DEF ParseStandard, IInv, TypeOK, Parsing, Entered
<1>2. /\ state' = ModeAfter(state, esc, ch) /\ esc' = (~esc /\ ch = "BSL")
      /\ args' = (IF StartsArg(state, ch) THEN args + 1 ELSE args)
      /\ outPos' = outPos + Len(text) /\ buf' = Stored(text) /\ inPos' = i + 1 /\ entered' = entered
  BY DEF ParseStandard, edit
<1>3. Follows(L)
  BY <1>1 DEF TokensInv, ParserFollows
<1>4. /\ L \in Seq(Plain) /\ Len(L) = Len(entered) - 1
      /\ \A k \in 1 .. Len(entered) - 1 : L[k] = entered[k]
  BY <1>1, EnteredFront DEF TokensInv
<1>5. i \in Nat /\ outPos \in Nat /\ esc \in BOOLEAN /\ Len(entered) \in Nat
  BY <1>1 DEF TypeOK, LineInv, EnteredLine
<1>6. i + 1 < Len(entered)
  <2>1. inPos' < Len(entered)'
    BY <1>1 DEF IInv, LineInv, ParserBehind
  <2> QED BY <1>2, <2>1
<1>7. i + 1 <= Len(L) /\ i + 1 \in 1 .. Len(entered) - 1
  BY <1>4, <1>5, <1>6
<1>8. ch = L[i + 1]
  <2>1. ch = TypedByte(i)
    BY <1>1, FetchedByte
  <2>2. TypedByte(i) = entered[i + 1]
    BY DEF TypedByte
  <2> QED BY <1>4, <1>7, <2>1, <2>2
<1>9. outPos + Len(text) <= InSize
  BY EmittedFits
<1>10. /\ state = ModeOf(L, i) /\ args = WordsTo(L, i) /\ esc = Escaped(L, i + 1)
       /\ Laid(L, i, WordsTo(L, i), ~Searching(ModeOf(L, i)), buf, outPos)
  <2>1. Escaped(L, i + 1) \in BOOLEAN
    BY DEF Escaped
  <2> QED BY <1>3, <1>5, <2>1 DEF Follows
<1>11. L' = L
  BY <1>2
<1> HIDE DEF L, i
<1>12. text = Emitted(ModeOf(L, i), Escaped(L, i + 1), L[i + 1])
  BY <1>8, <1>10
<1>13. buf' = Wrote(buf, outPos, text)
  BY <1>2, StoredIs
<1> HIDE DEF text
<1>14. /\ WordsTo(L, i + 1) = (IF StartsArg(ModeOf(L, i), L[i + 1]) THEN WordsTo(L, i) + 1 ELSE WordsTo(L, i))
       /\ Laid(L, i + 1, WordsTo(L, i + 1), ~Searching(ModeOf(L, i + 1)),
               Wrote(buf, outPos, text), outPos + Len(text))
  BY <1>4, <1>5, <1>7, <1>9, <1>10, <1>12, LaidNext
<1>15. state' = ModeOf(L, i + 1)
  BY <1>2, <1>5, <1>8, <1>10, ModeNext
<1>16. args' = WordsTo(L, i + 1)
  BY <1>2, <1>8, <1>10, <1>14
<1>17. esc' <=> Escaped(L, (i + 1) + 1)
  <2>1. i + 1 \in Nat \ {0}
    BY <1>5
  <2>2. Escaped(L, (i + 1) + 1) <=> (~Escaped(L, i + 1) /\ L[i + 1] = "BSL")
    BY <2>1, EscapedNext
  <2> QED BY <1>2, <1>8, <1>10, <2>2
<1>18. Laid(L, i + 1, args', ~Searching(state'), buf', outPos')
  BY <1>2, <1>13, <1>14, <1>15, <1>16
<1>19. L' = L /\ inPos' = i + 1
  BY <1>2, <1>11 DEF i
<1>20. Follows(L)' <=> /\ state' = ModeOf(L', inPos')
                       /\ esc' <=> Escaped(L', inPos' + 1)
                       /\ args' = WordsTo(L', inPos')
                       /\ Laid(L', inPos', args', ~Searching(state'), buf', outPos')
  BY DEF Follows
<1>21. Follows(L)'
  BY <1>15, <1>16, <1>17, <1>18, <1>19, <1>20
<1> QED BY <1>21 DEF L

\* One byte of a line that has lost its first.
LEMMA CutOne ==
  ASSUME InSize > 1, IInv, IInv', TokensInv, NEW ch \in Fetched, ParseStandard(ch), Len(entered) = InSize
  PROVE  inPos' # 0 /\ args' > 0 /\ outPos' > 0 /\ buf'[0] = "NUL"
<1> DEFINE text == Emitted(state, esc, ch)
<1>1. Parsing /\ TypeOK /\ LineInv
  BY DEF ParseStandard, IInv, Parsing
<1>2. /\ args' = (IF StartsArg(state, ch) THEN args + 1 ELSE args)
      /\ outPos' = outPos + Len(text) /\ buf' = Stored(text) /\ inPos' = inPos + 1
  BY DEF ParseStandard
<1>3. inPos \in Nat /\ outPos \in Nat /\ args \in Nat /\ InSize \in Nat /\ 0 \in Index
  BY <1>1, LineAssumption DEF TypeOK, Index
<1>4. Len(text) \in Nat
  BY EmittedFits
<1>5. CutLine
  BY DEF TokensInv
<1>6. CASE inPos = 0
  <2>1. ch = "NUL" /\ state = "PARSE_SEARCH_ARG" /\ ~esc /\ args = 0 /\ outPos = 0
    BY <1>1, <1>5, <1>6, FetchedByte DEF TypedByte, CutLine
  <2>2. text = <<"NUL">> /\ StartsArg(state, ch)
    BY <2>1 DEF Emitted, StartsArg
  <2>3. Len(text) = 1 /\ text[1] = "NUL"
    BY <2>2
  <2>4. buf'[0] = "NUL"
    <3>1. 0 \in outPos .. outPos + Len(text) - 1 /\ 0 - outPos + 1 = 1
      BY <2>1, <2>3
    <3> QED BY <1>2, <1>3, <2>3, <3>1 DEF Stored
  <2> QED BY <1>2, <1>3, <2>1, <2>2, <2>3, <2>4
<1>7. CASE inPos # 0
  <2>1. args > 0 /\ outPos > 0 /\ buf[0] = "NUL"
    BY <1>1, <1>5, <1>7 DEF CutLine
  <2>2. buf'[0] = buf[0]
    <3>1. 0 \notin outPos .. outPos + Len(text) - 1
      BY <1>3, <2>1
    <3> QED BY <1>2, <1>3, <3>1 DEF Stored
  <2> HIDE DEF text
  <2> QED BY <1>2, <1>3, <1>4, <2>1, <2>2
<1> QED BY <1>6, <1>7

LEMMA TokensOne ==
  ASSUME InSize > 1, IInv, IInv', TokensInv, NEW ch \in Fetched, ParseStandard(ch)
  PROVE  TokensInv'
<1>1. Parsing /\ Parsing' /\ Entered /\ ~Editing'
  BY ModeType DEF ParseStandard, IInv, TypeOK, Parsing, Entered, Editing, ParseStates
<1>2. entered' = entered /\ argv' = argv
  BY DEF ParseStandard, edit, parse
<1>3. TypedLine'
  BY <1>1, <1>2 DEF TokensInv, TypedLine
<1>4. ParserFollows'
  <2>1. CASE Len(entered) < InSize
    BY <2>1, FollowOne DEF ParserFollows
  <2>2. CASE ~(Len(entered) < InSize)
    BY <1>2, <2>2 DEF ParserFollows
  <2> QED BY <2>1, <2>2
<1>5. CutLine'
  <2>1. CASE Len(entered) = InSize
    BY <2>1, CutOne DEF CutLine
  <2>2. CASE Len(entered) # InSize
    BY <1>2, <2>2 DEF CutLine
  <2> QED BY <2>1, <2>2
<1> QED BY <1>3, <1>4, <1>5 DEF TokensInv

LEMMA TokensStart ==
  ASSUME InSize > 1, IInv, TokensInv, ParseStart
  PROVE  TokensInv'
<1>1. Entered /\ Parsing' /\ Entered' /\ ~Editing' /\ TypeOK /\ LineInv /\ TypedLine
  BY DEF ParseStart, Entered, Parsing, ParseStates, Editing, IInv, TokensInv
<1>2. /\ state' = "PARSE_SEARCH_ARG" /\ inPos' = 0 /\ outPos' = 0 /\ args' = 0 /\ esc' = FALSE
      /\ buf' = buf /\ entered' = entered /\ argv' = argv
  BY DEF ParseStart
<1> DEFINE L == Front(entered)
<1>3. Len(L) \in Nat
  <2>1. L \in Seq(Plain)
    BY <1>1, EnteredFront
  <2> QED BY <2>1, LenProperties
<1> HIDE DEF L
<1>4. /\ WordsTo(L, 0) = 0 /\ ModeOf(L, 0) = "PARSE_SEARCH_ARG" /\ ~Escaped(L, 1)
      /\ Laid(L, 0, 0, FALSE, buf, 0)
  BY <1>3, LaidFirst
<1>5. L' = L
  BY <1>2 DEF L
<1>6. Follows(L)' <=> /\ state' = ModeOf(L', inPos')
                      /\ esc' <=> Escaped(L', inPos' + 1)
                      /\ args' = WordsTo(L', inPos')
                      /\ Laid(L', inPos', args', ~Searching(state'), buf', outPos')
  BY DEF Follows
<1>7. (~Searching(state')) = FALSE /\ inPos' + 1 = 1
  BY <1>2 DEF Searching
<1>8. Follows(L)'
  BY <1>2, <1>4, <1>5, <1>6, <1>7
<1>9. TypedLine'
  BY <1>1, <1>2 DEF TypedLine
<1> QED BY <1>2, <1>8, <1>9 DEF TokensInv, ParserFollows, CutLine, L

\* A byte typed is not a terminator.
LEMMA TokensStore ==
  ASSUME NoNulTyped, IInv, TokensInv, NEW ch \in Typed, ReadStore(ch)
  PROVE  TokensInv'
<1>1. Editing /\ state = "READ_CHAR" /\ ~Parsing' /\ TypeOK
  BY DEF ReadStore, Reads, Echo, WritePointer, Editing, Parsing, ParseStates, IInv
<1>2. /\ inPos' = Wrap(inPos + 1) /\ argv' = argv
      /\ buf' = [[buf EXCEPT ![inPos] = ch] EXCEPT ![Wrap(inPos + 1)] = "NUL"]
      /\ entered' = (IF ch \in Newlines THEN Append(BufLine, ch) ELSE << >>)
      /\ state' = "WRITE_CHAR"
      /\ writeNext' = (IF ch \in Newlines THEN "PARSE_PREPARE" ELSE "READ_CHAR")
  BY DEF ReadStore, Echo, WritePointer, parse
<1>3. /\ inPos \in 0 .. InSize - 1 /\ InSize \in Nat /\ buf \in [Index -> Chars] /\ ch # "NUL"
      /\ argv = << >> /\ \A i \in 0 .. inPos - 1 : buf[i] # "NUL"
  BY <1>1, LineAssumption DEF TypeOK, Index, TokensInv, TypedLine, NoNulTyped
<1>4. CASE ch \in Newlines
  <2>1. ~Editing'
    BY <1>2, <1>4 DEF Editing
  <2>2. BufLine \in Seq(Chars) /\ Len(BufLine) = inPos
    BY <1>1, BufLineType
  <2>3. \A i \in 1 .. inPos : BufLine[i] = buf[i - 1]
    BY DEF BufLine
  <2>4. entered' = Append(BufLine, ch)
    BY <1>2, <1>4
  <2>5. /\ Len(entered') = inPos + 1 /\ entered'[inPos + 1] = ch
        /\ \A i \in 1 .. inPos : entered'[i] = buf[i - 1]
    BY <2>2, <2>3, <2>4
  <2>6. \A i \in 1 .. Len(entered') : entered'[i] # "NUL"
    BY <1>3, <2>5
  <2> QED BY <1>1, <1>2, <1>3, <2>1, <2>6 DEF TokensInv, TypedLine, ParserFollows, CutLine
<1>5. CASE ch \notin Newlines
  <2>1. ~Entered'
    BY <1>1, <1>2, <1>5 DEF Entered
  <2>2. \A i \in 0 .. inPos' - 1 : buf'[i] # "NUL"
    <3>1. CASE inPos + 1 >= InSize
      <4>1. inPos' = 0
        BY <1>2, <3>1 DEF Wrap
      <4> QED BY <4>1
    <3>2. CASE ~(inPos + 1 >= InSize)
      <4>1. inPos' = inPos + 1 /\ Wrap(inPos + 1) = inPos + 1
        BY <1>2, <3>2 DEF Wrap
      <4>2. ASSUME NEW i \in 0 .. inPos PROVE buf'[i] # "NUL"
        <5>1. i \in Index /\ inPos \in Index /\ i # inPos + 1 /\ (i # inPos => i \in 0 .. inPos - 1)
          BY <1>3 DEF Index
        <5>2. buf'[i] = IF i = inPos THEN ch ELSE buf[i]
          BY <1>2, <1>3, <4>1, <5>1
        <5> QED BY <1>3, <5>1, <5>2
      <4> QED BY <1>3, <4>1, <4>2
    <3> QED BY <3>1, <3>2
  <2> QED BY <1>1, <1>2, <1>3, <2>1, <2>2 DEF TokensInv, TypedLine, ParserFollows, CutLine
<1> QED BY <1>4, <1>5

LEMMA TokensKept ==
  ASSUME InSize > 1, NoNulTyped, IInv, IInv', TokensInv, [Next]_vars
  PROVE  TokensInv'
<1> DEFINE Idle == ~Editing /\ ~Entered
<1>0. TypeOK
  BY DEF IInv
<1>1. ASSUME Idle' PROVE TokensInv'
  BY <1>1 DEF TokensInv, TypedLine, ParserFollows, CutLine, Entered
<1>2. ASSUME UNCHANGED <<buf, inPos, outPos, args, esc, argv, entered>>,
             Editing' => Editing, Entered' => Entered, Parsing' => Parsing /\ UNCHANGED state
      PROVE  TokensInv'
  <2>1. TypedLine'
    BY <1>2 DEF TokensInv, TypedLine
  <2>2. CutLine'
    BY <1>2 DEF TokensInv, CutLine
  <2>3. ASSUME Parsing' PROVE Follows(Front(entered))' = Follows(Front(entered))
    BY <1>2, <2>3 DEF Follows
  <2>4. ParserFollows'
    BY <1>2, <2>3 DEF TokensInv, ParserFollows
  <2> QED BY <2>1, <2>2, <2>4 DEF TokensInv
<1>3. CASE WriteByte
  BY <1>2, <1>3 DEF WriteByte, Editing, Entered, Parsing, edit, parse
<1>4. CASE WriteEnd
  <2>1. /\ state = "WRITE_CHAR" /\ state' = writeNext /\ writeNext' = writeNext
        /\ writeNext \notin ParseStates
        /\ UNCHANGED <<buf, inPos, outPos, args, esc, argv, entered>>
    BY <1>0, <1>4 DEF WriteEnd, edit, parse, write, TypeOK
  <2>2. ~Parsing' /\ (Editing' => Editing) /\ (Entered' => Entered)
    BY <2>1 DEF Parsing, Editing, Entered, ParseStates
  <2> QED BY <1>2, <2>1, <2>2
<1>5. CASE ResetLine \/ ResetPrompt \/ ReadInterrupt \/ AppPrint
  BY <1>1, <1>5 DEF ResetLine, ResetPrompt, ReadInterrupt, AppPrint, WritePointer, Editing, Entered,
                    Parsing, ParseStates
<1>6. CASE Prompt
  <2>1. /\ state' = "WRITE_CHAR"
        /\ writeNext' \in {"RESET", "READ_PREPARE"} \cup PromptStates
    BY <1>0, <1>6 DEF Prompt, PromptAfter, PromptStates, WritePointer, TypeOK
  <2> QED BY <1>1, <2>1 DEF Editing, Entered, Parsing, ParseStates, PromptStates
<1>7. CASE ReadStart
  <2>1. ~Entered' /\ ~Parsing' /\ inPos' = 0 /\ argv' = << >>
    BY <1>7 DEF ReadStart, Entered, Parsing, ParseStates
  <2> QED BY <2>1 DEF TokensInv, TypedLine, ParserFollows, CutLine
<1>8. CASE ReadBackspace
  <2>1. /\ Editing /\ ~Entered' /\ ~Parsing' /\ inPos' = inPos - 1 /\ inPos > 0 /\ argv' = argv
        /\ buf' = [buf EXCEPT ![inPos - 1] = "NUL"]
    BY <1>8 DEF ReadBackspace, CanErase, Reads, Echo, WritePointer, Editing, Entered, Parsing,
                ParseStates, Newlines, parse
  <2>2. inPos \in 0 .. InSize - 1 /\ buf \in [Index -> Chars] /\ InSize \in Nat
    BY <1>0, <2>1, LineAssumption DEF TypeOK, Index
  <2>3. \A i \in 0 .. inPos - 1 - 1 : i \in 0 .. inPos - 1 /\ i \in Index /\ i # inPos - 1
    BY <2>2 DEF Index
  <2>4. \A i \in 0 .. inPos - 1 - 1 : buf'[i] = buf[i]
    BY <2>1, <2>2, <2>3
  <2>5. argv = << >> /\ \A i \in 0 .. inPos - 1 : buf[i] # "NUL"
    BY <2>1 DEF TokensInv, TypedLine
  <2>6. \A i \in 0 .. inPos' - 1 : buf'[i] # "NUL"
    BY <2>1, <2>3, <2>4, <2>5
  <2> QED BY <2>1, <2>5, <2>6 DEF TokensInv, TypedLine, ParserFollows, CutLine
<1>9. CASE ReadEscape \/ \E ch \in Typed : ReadEscaped(ch)
  BY <1>2, <1>9 DEF ReadEscape, ReadEscaped, Editing, Entered, Parsing, write, parse
<1>10. ASSUME NEW ch \in Typed, ReadStore(ch) PROVE TokensInv'
  BY <1>10, TokensStore
<1>11. CASE ParseStart
  BY <1>11, TokensStart
<1>12. ASSUME NEW ch \in Fetched, ParseStandard(ch) PROVE TokensInv'
  BY <1>12, TokensOne
<1>13. ASSUME NEW ch \in Fetched, ParseNewline(ch) PROVE TokensInv'
  <2>1. \/ state' \in {"RESET", "RESET_PROMPT", "PROCESS_START"}
        \/ state' = "WRITE_CHAR" /\ writeNext' \in {"RESET", "RESET_PROMPT"}
    BY <1>13 DEF ParseNewline, CommandOutcome, WritePointer
  <2> QED BY <1>1, <2>1 DEF Editing, Entered, Parsing, ParseStates
<1>14. CASE ProcessStep
  <2>1. \/ state' \in ProcessStates
        \/ state' = "WRITE_CHAR" /\ writeNext' \in ProcessStates
    BY <1>14 DEF ProcessStep, WritePointer
  <2> QED BY <1>1, <2>1 DEF Editing, Entered, Parsing, ParseStates, ProcessStates
<1>15. CASE ProcessEnd
  <2>1. \/ state' \in {"RESET", "RESET_PROMPT"}
        \/ state' = "WRITE_CHAR" /\ writeNext' \in {"RESET", "RESET_PROMPT"}
    BY <1>15 DEF ProcessEnd, WritePointer
  <2> QED BY <1>1, <2>1 DEF Editing, Entered, Parsing, ParseStates
<1>16. CASE UNCHANGED vars
  BY <1>2, <1>16 DEF vars, Editing, Entered, Parsing, write, edit, parse
<1> QED
  BY <1>3, <1>4, <1>5, <1>6, <1>7, <1>8, <1>9, <1>10, <1>11, <1>12, <1>13, <1>14, <1>15, <1>16
  DEF Next, Service, Read, ParseChar

\* An argument list that begins with a terminator begins with an empty word.
LEMMA EmptyFirst ==
  ASSUME NEW c, c[0] = "NUL", NEW n \in Nat, n > 0
  PROVE  GetArgs(c, n) # << >> /\ Head(GetArgs(c, n)) = << >>
<1> DEFINE Arg(k) == [i \in 1 .. StartOf(c, k + 1) - 1 - StartOf(c, k) |-> c[StartOf(c, k) + i - 1]]
<1>0. InSize \in Nat /\ InSize > 0 /\ 0 \in Index
  BY LineAssumption DEF Index
<1>1. StartOf(c, 1) = 0
  <2> DEFINE S == {p \in 0 .. InSize : NulsBefore(c, p) = 1 - 1} \cup {InSize + 1}
  <2>1. NulsIn(c, 0) = {}
    BY <1>0 DEF NulsIn, Index
  <2>2. NulsBefore(c, 0) = 0
    BY <2>1, CountsNuls, FS_EmptySet
  <2>3. 0 \in S /\ S \subseteq Int /\ \A x \in S : 0 <= x
    BY <1>0, <2>2
  <2>4. StartOf(c, 1) = Min(S)
    BY DEF StartOf
  <2> HIDE DEF S
  <2> QED BY <2>3, <2>4, MinIs
<1>2. StartOf(c, 2) = 1
  <2> DEFINE S == {p \in 0 .. InSize : NulsBefore(c, p) = 2 - 1} \cup {InSize + 1}
  <2>1. NulsIn(c, 0) = {} /\ NulsIn(c, 1) = {} \cup {0}
    BY <1>0 DEF NulsIn, Index
  <2>2. NulsBefore(c, 0) = 0
    BY <2>1, CountsNuls, FS_EmptySet
  <2>3. NulsBefore(c, 1) = 1
    <3>1. Cardinality({} \cup {0}) = 0 + 1
      BY FS_EmptySet, FS_AddElement
    <3> QED BY <2>1, <3>1, CountsNuls
  <2>4. 1 \in S /\ S \subseteq Int /\ \A x \in S : 1 <= x
    BY <1>0, <2>2, <2>3
  <2>5. StartOf(c, 2) = Min(S)
    BY DEF StartOf
  <2> HIDE DEF S
  <2> QED BY <2>4, <2>5, MinIs
<1>3. Arg(1) = << >>
  <2>1. StartOf(c, 1 + 1) = 1
    BY <1>2
  <2>2. StartOf(c, 1 + 1) - 1 - StartOf(c, 1) = 0
    BY <1>1, <2>1
  <2> QED BY <2>2
<1>4. GetArgs(c, n) = [k \in 1 .. n |-> Arg(k)]
  BY DEF GetArgs
<1> HIDE DEF Arg
<1>5. 1 \in 1 .. n
  OBVIOUS
<1>6. GetArgs(c, n)[1] = << >>
  BY <1>3, <1>4, <1>5
<1>7. GetArgs(c, n) # << >>
  <2>1. DOMAIN GetArgs(c, n) = 1 .. n
    BY <1>4
  <2>2. 1 \in DOMAIN GetArgs(c, n) /\ 1 \notin DOMAIN << >>
    BY <1>5, <2>1
  <2> QED BY <2>2
<1> QED BY <1>6, <1>7

\* The newline ends the line, at its end.
LEMMA AtNewline ==
  ASSUME InSize > 1, IInv, NEW ch \in Fetched, ParseNewline(ch)
  PROVE  inPos + 1 = Len(entered) /\ Parsing /\ Entered /\ Len(entered) \in 1 .. InSize
<1>1. Parsing /\ Entered /\ ch \in Newlines /\ TypeOK /\ LineInv
  BY DEF ParseNewline, EndsLine, Parsing, Entered, IInv
<1>2. ch = TypedByte(inPos) /\ inPos < Len(entered) /\ Len(entered) \in 1 .. InSize
  BY <1>1, FetchedByte
<1>3. ch = entered[inPos + 1]
  BY <1>1, <1>2 DEF TypedByte, Newlines
<1>4. \A i \in 1 .. Len(entered) - 1 : entered[i] \notin Newlines
  BY <1>1 DEF LineInv, EnteredLine
<1>5. inPos \in Nat
  BY <1>1 DEF TypeOK
<1>6. inPos + 1 \notin 1 .. Len(entered) - 1
  BY <1>1, <1>3, <1>4
<1> QED BY <1>1, <1>2, <1>5, <1>6

\* The command gets the words of the line.
LEMMA RunsWords ==
  ASSUME InSize > 1, IInv, TokensInv, NEW ch \in Fetched, ParseNewline(ch)
  PROVE  IF Len(entered) < InSize THEN argv' = Tokens(Front(entered))
                                  ELSE argv' # << >> /\ Head(argv') = << >>
<1> DEFINE text == <<"NUL">>
<1>1. inPos + 1 = Len(entered) /\ Parsing /\ Entered /\ Len(entered) \in 1 .. InSize
  BY AtNewline
<1>2. TypeOK /\ LineInv /\ TypedLine /\ ParserFollows /\ CutLine
  BY DEF IInv, TokensInv
<1>3. inPos \in Nat /\ outPos \in Nat /\ args \in Nat /\ InSize \in Nat /\ buf \in [Index -> Chars]
  BY <1>2, LineAssumption DEF TypeOK
<1>4. argv = << >>
  BY <1>1, <1>2 DEF TypedLine
<1>5. /\ args = 0 => argv' = argv
      /\ args # 0 => argv' = GetArgs(buf', args)
      /\ buf' = Stored(text)
  BY DEF ParseNewline, Terminator
<1>6. outPos < InSize
  <2>1. outPos + (IF esc THEN 1 ELSE 0) <= inPos
    BY <1>1, <1>2 DEF LineInv, ParserBehind
  <2> DEFINE room == IF esc THEN 1 ELSE 0
  <2>2. room \in Nat /\ outPos + room <= inPos
    BY <2>1
  <2> HIDE DEF room
  <2> QED BY <1>1, <1>3, <2>2
<1>7. CASE Len(entered) < InSize
  <2> DEFINE L == Front(entered)
  <2>1. L \in Seq(Plain) /\ Len(L) = inPos
    <3>1. L \in Seq(Plain) /\ Len(L) = Len(entered) - 1
      BY <1>1, <1>2, EnteredFront
    <3> QED BY <1>1, <1>3, <3>1
  <2>2. args = WordsTo(L, inPos) /\ Laid(L, inPos, args, ~Searching(state), buf, outPos)
    BY <1>1, <1>2, <1>7 DEF ParserFollows, Follows
  <2>3. (~Searching(state)) \in BOOLEAN
    OBVIOUS
  <2>4. buf' = Wrote(buf, outPos, text)
    BY <1>5, StoredIs
  <2> HIDE DEF L
  <2>5. GetArgs(buf', args) = Tokens(L)
    BY <1>3, <1>6, <2>1, <2>2, <2>3, <2>4, GetArgsLast
  <2>6. CASE args = 0
    <3>1. GetArgs(buf', 0) = << >>
      BY DEF GetArgs
    <3> QED BY <1>4, <1>5, <1>7, <2>5, <2>6, <3>1 DEF L
  <2>7. CASE args # 0
    BY <1>5, <1>7, <2>5, <2>7 DEF L
  <2> QED BY <2>6, <2>7
<1>8. CASE ~(Len(entered) < InSize)
  <2>1. Len(entered) = InSize /\ inPos # 0
    BY <1>1, <1>3, <1>8
  <2>2. args > 0 /\ outPos > 0 /\ buf[0] = "NUL"
    BY <1>1, <1>2, <2>1 DEF CutLine
  <2>3. buf'[0] = "NUL"
    <3>1. Len(text) = 1
      OBVIOUS
    <3>2. 0 \in Index /\ 0 \notin outPos .. outPos + Len(text) - 1
      BY <1>3, <2>2, <3>1, LineAssumption DEF Index
    <3> QED BY <1>5, <2>2, <3>2 DEF Stored
  <2> DEFINE c == buf'
  <2>4. c[0] = "NUL"
    BY <2>3
  <2> HIDE DEF c
  <2>5. GetArgs(c, args) # << >> /\ Head(GetArgs(c, args)) = << >>
    BY <1>3, <2>2, <2>4, EmptyFirst
  <2>6. argv' = GetArgs(c, args)
    BY <1>3, <1>5, <2>2 DEF c
  <2> QED BY <1>8, <2>5, <2>6
<1> QED BY <1>7, <1>8

-----------------------------------------------------------------------------
\* One step of the machine is one of the command line, or none.
Mapped == [CL!Next]_(CL!lineVars)

LEMMA StoreMaps ==
  ASSUME InSize > 1, IInv, NEW ch \in Typed, ReadStore(ch)
  PROVE  CL!Next
<1>1. Editing /\ state = "READ_CHAR" /\ TypeOK /\ ~Parsing'
  BY DEF ReadStore, Reads, Editing, IInv, Echo, WritePointer, Parsing, ParseStates
<1>2. /\ inPos' = Wrap(inPos + 1) /\ argv' = argv /\ calls' = calls
      /\ buf' = [[buf EXCEPT ![inPos] = ch] EXCEPT ![Wrap(inPos + 1)] = "NUL"]
      /\ entered' = (IF ch \in Newlines THEN Append(BufLine, ch) ELSE << >>)
      /\ state' = "WRITE_CHAR"
      /\ writeNext' = (IF ch \in Newlines THEN "PARSE_PREPARE" ELSE "READ_CHAR")
  BY DEF ReadStore, Echo, WritePointer, parse
<1>3. AbstractPhase = "edit" /\ AbstractLine = BufLine
  BY <1>1 DEF AbstractPhase, AbstractLine
<1>4. BufLine \in Seq(Chars) /\ Len(BufLine) = inPos /\ \A i \in 1 .. inPos : BufLine[i] = buf[i - 1]
  BY <1>1, BufLineType DEF BufLine
<1>5. inPos \in 0 .. InSize - 1 /\ InSize \in Nat /\ buf \in [Index -> Chars] /\ ch \in Chars
  BY <1>1, LineAssumption DEF TypeOK, Index
<1>6. CASE ch \in Newlines
  <2>1. ~Editing' /\ Entered'
    BY <1>2, <1>6 DEF Editing, Entered
  <2>2. AbstractPhase' = "entered" /\ AbstractLine' = Append(BufLine, ch)
    BY <1>2, <1>6, <2>1 DEF AbstractPhase, AbstractLine
  <2>3. CL!Enter(ch)
    BY <1>2, <1>3, <2>2 DEF CL!Enter
  <2> QED BY <1>6, <2>3 DEF CL!Next
<1>7. CASE ch \notin Newlines
  <2>1. Editing'
    BY <1>2, <1>7 DEF Editing
  <2>2. AbstractPhase' = "edit" /\ AbstractLine' = BufLine'
    BY <2>1 DEF AbstractPhase, AbstractLine
  <2>3. CASE inPos + 1 = InSize
    <3>1. inPos' = 0
      BY <1>2, <1>5, <2>3 DEF Wrap
    <3>2. BufLine' = << >>
      BY <3>1 DEF BufLine
    <3>3. CL!Restart
      BY <1>2, <1>3, <1>4, <2>2, <2>3, <3>2 DEF CL!Restart
    <3> QED BY <3>3 DEF CL!Next
  <2>4. CASE inPos + 1 < InSize
    <3>1. inPos' = inPos + 1 /\ Wrap(inPos + 1) = inPos + 1
      BY <1>2, <1>5, <2>4 DEF Wrap
    <3> DEFINE e(i) == buf'[i - 1]
               longer == Append(BufLine, ch)
    <3>2. \A i \in 1 .. inPos + 1 : e(i) = IF i = inPos + 1 THEN ch ELSE buf[i - 1]
      <4>1. \A i \in 1 .. inPos + 1 : i - 1 \in Index /\ i - 1 # inPos + 1 /\ (i - 1 = inPos <=> i = inPos + 1)
        BY <1>5 DEF Index
      <4>2. inPos \in Index
        BY <1>5 DEF Index
      <4> QED BY <1>2, <1>5, <3>1, <4>1, <4>2
    <3>3. /\ longer \in Seq(Chars) /\ Len(longer) = inPos + 1 /\ longer[inPos + 1] = ch
          /\ \A i \in 1 .. inPos : longer[i] = buf[i - 1]
      <4>1. /\ longer \in Seq(Chars) /\ Len(longer) = Len(BufLine) + 1
            /\ \A i \in 1 .. Len(BufLine) : longer[i] = BufLine[i]
            /\ longer[Len(BufLine) + 1] = ch
        BY <1>4, <1>5, AppendProperties
      <4> QED BY <1>4, <4>1
    <3>4. BufLine' = [i \in 1 .. inPos + 1 |-> e(i)]
      BY <3>1 DEF BufLine
    <3> HIDE DEF e, longer
    <3>5. \A i \in 1 .. inPos + 1 : e(i) = longer[i]
      BY <1>5, <3>2, <3>3
    <3>6. longer = [i \in 1 .. inPos + 1 |-> longer[i]]
      <4>1. longer = [i \in 1 .. Len(longer) |-> longer[i]]
        BY <3>3, SeqDef
      <4> QED BY <3>3, <4>1
    <3>7. BufLine' = longer
      BY <3>4, <3>5, <3>6
    <3>8. CL!Insert(ch)
      BY <1>2, <1>3, <1>4, <2>2, <2>4, <3>7 DEF CL!Insert, longer
    <3> QED BY <1>7, <3>8 DEF CL!Next
  <2> QED BY <1>5, <2>3, <2>4
<1> QED BY <1>6, <1>7

LEMMA EraseMaps ==
  ASSUME IInv, ReadBackspace
  PROVE  CL!Next
<1>1. /\ Editing /\ Editing' /\ inPos' = inPos - 1 /\ inPos > 0 /\ argv' = argv /\ calls' = calls
      /\ buf' = [buf EXCEPT ![inPos - 1] = "NUL"] /\ TypeOK
  BY DEF ReadBackspace, CanErase, Reads, Echo, WritePointer, Editing, Newlines, parse, IInv
<1>2. inPos \in 0 .. InSize - 1 /\ buf \in [Index -> Chars] /\ InSize \in Nat
  BY <1>1, LineAssumption DEF TypeOK, Index
<1>3. /\ AbstractPhase = "edit" /\ AbstractLine = BufLine
      /\ AbstractPhase' = "edit" /\ AbstractLine' = BufLine'
  BY <1>1 DEF AbstractPhase, AbstractLine
<1>4. BufLine \in Seq(Chars) /\ Len(BufLine) = inPos /\ \A i \in 1 .. inPos : BufLine[i] = buf[i - 1]
  BY <1>1, BufLineType DEF BufLine
<1> DEFINE n == inPos - 1
           e(i) == buf'[i - 1]
           f == SubSeq(BufLine, 1, n)
<1>5. n \in Nat /\ n <= Len(BufLine) /\ \A i \in 1 .. n : i \in 1 .. inPos
  BY <1>1, <1>2, <1>4
<1>6. \A i \in 1 .. n : e(i) = buf[i - 1]
  <2>1. \A i \in 1 .. n : i - 1 \in Index /\ i - 1 # inPos - 1
    BY <1>2 DEF Index
  <2> QED BY <1>1, <1>2, <2>1
<1>7. BufLine' = [i \in 1 .. n |-> e(i)]
  BY <1>1 DEF BufLine
<1>8. f \in Seq(Chars) /\ Len(f) = n /\ \A i \in 1 .. n : f[i] = BufLine[i]
  <2> HIDE DEF n
  <2> QED BY <1>4, <1>5, FirstOfSeq
<1>9. Front(BufLine) = f
  BY <1>4 DEF Front
<1> HIDE DEF n, e, f
<1>10. f = [i \in 1 .. n |-> f[i]]
  <2>1. f = [i \in 1 .. Len(f) |-> f[i]]
    BY <1>8, SeqDef
  <2> QED BY <1>8, <2>1
<1>11. \A i \in 1 .. n : e(i) = f[i]
  BY <1>4, <1>5, <1>6, <1>8
<1>12. BufLine' = Front(BufLine)
  BY <1>7, <1>9, <1>10, <1>11
<1>13. BufLine # << >>
  <2>1. Len(BufLine) # 0
    BY <1>1, <1>2, <1>4
  <2> QED BY <2>1
<1>14. CL!Erase
  BY <1>1, <1>3, <1>12, <1>13, SameTokens DEF CL!Erase
<1> QED BY <1>14 DEF CL!Next

LEMMA RunMaps ==
  ASSUME InSize > 1, IInv, TokensInv, NEW ch \in Fetched, ParseNewline(ch)
  PROVE  CL!Next
<1>1. Parsing /\ Entered /\ ~Editing
  BY AtNewline DEF Parsing, Editing, ParseStates
<1>2. \/ state' \in {"RESET", "RESET_PROMPT", "PROCESS_START"}
      \/ state' = "WRITE_CHAR" /\ writeNext' \in {"RESET", "RESET_PROMPT"}
  BY DEF ParseNewline, CommandOutcome, WritePointer
<1>3. ~Editing' /\ ~Entered'
  BY <1>2 DEF Editing, Entered, Parsing, ParseStates
<1>4. AbstractPhase = "entered" /\ AbstractLine = entered
  BY <1>1 DEF AbstractPhase, AbstractLine
<1>5. AbstractPhase' = "closed" /\ AbstractLine' = << >>
  BY <1>3 DEF AbstractPhase, AbstractLine
<1>6. calls' = calls
  BY DEF ParseNewline
<1>7. IF Len(entered) < InSize THEN argv' = Tokens(Front(entered))
                               ELSE argv' # << >> /\ Head(argv') = << >>
  BY RunsWords
<1>8. CL!Tokens(CL!Front(entered)) = Tokens(Front(entered))
  BY SameTokens
<1>9. CL!Run
  BY <1>4, <1>5, <1>6, <1>7, <1>8 DEF CL!Run
<1> QED BY <1>9 DEF CL!Next

LEMMA StepMaps ==
  ASSUME InSize > 1, IInv, TokensInv, [Next]_vars
  PROVE  Mapped
<1> DEFINE Idle == ~Editing /\ ~Entered
<1>0. TypeOK
  BY DEF IInv
<1>1. ASSUME Idle, Idle', argv' = argv, calls' = calls PROVE Mapped
  BY <1>1 DEF Mapped, CL!lineVars, AbstractLine, AbstractPhase
<1>2. ASSUME UNCHANGED <<buf, inPos, argv, entered, calls>>, Editing' <=> Editing, Entered' <=> Entered
      PROVE  Mapped
  <2>1. BufLine' = BufLine
    BY <1>2 DEF BufLine
  <2> QED BY <1>2, <2>1 DEF Mapped, CL!lineVars, AbstractLine, AbstractPhase
<1>3. ASSUME CL!Next PROVE Mapped
  BY <1>3 DEF Mapped
<1>4. CASE WriteByte
  BY <1>2, <1>4 DEF WriteByte, Editing, Entered, Parsing, edit, parse
<1>5. CASE WriteEnd
  <2>1. /\ state = "WRITE_CHAR" /\ state' = writeNext /\ writeNext' = writeNext
        /\ writeNext \notin ParseStates
        /\ UNCHANGED <<buf, inPos, argv, entered, calls>>
    BY <1>0, <1>5 DEF WriteEnd, edit, parse, write, TypeOK
  <2>2. (Editing' <=> Editing) /\ (Entered' <=> Entered)
    BY <2>1 DEF Parsing, Editing, Entered, ParseStates
  <2> QED BY <1>2, <2>1, <2>2
<1>6. CASE ResetLine \/ ResetPrompt
  BY <1>1, <1>6 DEF ResetLine, ResetPrompt, WritePointer, Editing, Entered, Parsing, ParseStates, parse
<1>7. CASE Prompt
  <2>1. /\ state' = "WRITE_CHAR" /\ state \in PromptStates
        /\ writeNext' \in {"RESET", "READ_PREPARE"} \cup PromptStates
        /\ argv' = argv /\ calls' = calls
    BY <1>0, <1>7 DEF Prompt, PromptAfter, PromptStates, WritePointer, TypeOK, parse
  <2> QED BY <1>1, <2>1 DEF Editing, Entered, Parsing, ParseStates, PromptStates
<1>8. CASE ReadStart
  <2>1. Idle /\ Editing' /\ inPos' = 0 /\ argv' = << >> /\ calls' = calls
    BY <1>8 DEF ReadStart, Editing, Entered, Parsing, ParseStates
  <2>2. BufLine' = << >>
    BY <2>1 DEF BufLine
  <2>3. CL!Open
    BY <2>1, <2>2 DEF CL!Open, AbstractLine, AbstractPhase
  <2> QED BY <1>3, <2>3 DEF CL!Next
<1>9. CASE ReadInterrupt
  <2>1. Editing /\ Idle' /\ argv' = argv /\ calls' = calls
    BY <1>9 DEF ReadInterrupt, Reads, WritePointer, Editing, Entered, Parsing, ParseStates, parse
  <2>2. CL!Interrupt
    BY <2>1 DEF CL!Interrupt, AbstractLine, AbstractPhase
  <2> QED BY <1>3, <2>2 DEF CL!Next
<1>10. CASE ReadBackspace
  BY <1>3, <1>10, EraseMaps
<1>11. CASE ReadEscape \/ \E ch \in Typed : ReadEscaped(ch)
  BY <1>2, <1>11 DEF ReadEscape, ReadEscaped, Editing, Entered, Parsing, write, parse
<1>12. ASSUME NEW ch \in Typed, ReadStore(ch) PROVE Mapped
  BY <1>3, <1>12, StoreMaps
<1>13. CASE ParseStart
  <2>1. /\ Entered /\ Entered' /\ ~Editing /\ ~Editing'
        /\ entered' = entered /\ argv' = argv /\ calls' = calls
    BY <1>13 DEF ParseStart, Parsing, Entered, Editing, ParseStates
  <2> QED BY <2>1 DEF Mapped, CL!lineVars, AbstractLine, AbstractPhase
<1>14. ASSUME NEW ch \in Fetched, ParseStandard(ch) PROVE Mapped
  <2>1. /\ Entered /\ Entered' /\ ~Editing /\ ~Editing'
        /\ entered' = entered /\ argv' = argv /\ calls' = calls
    BY <1>0, <1>14, ModeType DEF ParseStandard, TypeOK, Parsing, Entered, Editing, ParseStates, edit
  <2> QED BY <2>1 DEF Mapped, CL!lineVars, AbstractLine, AbstractPhase
<1>15. ASSUME NEW ch \in Fetched, ParseNewline(ch) PROVE Mapped
  BY <1>3, <1>15, RunMaps
<1>16. CASE ProcessStep
  <2>1. /\ state \in ProcessStates /\ argv' = argv /\ calls' = calls
        /\ \/ state' \in ProcessStates
           \/ state' = "WRITE_CHAR" /\ writeNext' \in ProcessStates
    BY <1>16 DEF ProcessStep, WritePointer, parse
  <2> QED BY <1>1, <2>1 DEF Editing, Entered, Parsing, ParseStates, ProcessStates
<1>17. CASE ProcessEnd
  <2>1. /\ state \in ProcessStates /\ argv' = argv /\ calls' = calls
        /\ \/ state' \in {"RESET", "RESET_PROMPT"}
           \/ state' = "WRITE_CHAR" /\ writeNext' \in {"RESET", "RESET_PROMPT"}
    BY <1>17 DEF ProcessEnd, WritePointer, parse
  <2> QED BY <1>1, <2>1 DEF Editing, Entered, Parsing, ParseStates, ProcessStates
<1>18. CASE AppPrint
  <2>1. Idle' /\ argv' = argv /\ calls' = calls + 1
    BY <1>18 DEF AppPrint, WritePointer, Editing, Entered, Parsing, ParseStates, parse
  <2>2. CL!PrintOver
    BY <2>1 DEF CL!PrintOver, AbstractLine, AbstractPhase
  <2> QED BY <1>3, <2>2 DEF CL!Next
<1>19. CASE UNCHANGED vars
  BY <1>2, <1>19 DEF vars, Editing, Entered, Parsing, write, edit, parse
<1> QED
  BY <1>4, <1>5, <1>6, <1>7, <1>8, <1>9, <1>10, <1>11, <1>12, <1>13, <1>14, <1>15, <1>16, <1>17,
     <1>18, <1>19 DEF Next, Service, Read, ParseChar

\* The machine does what the abstract command line promises: whatever is typed
\* (but the terminator itself), a command is given exactly the words of the line
\* that was entered, as its quotes and escapes delimit them, and a line is lost
\* only to an interrupt, a message printed over it or a full buffer.
THEOREM ImplementsCommandLine ==
  ASSUME InSize > 1, NoNulTyped
  PROVE  Spec => RefinesCommandLine
<1>1. Init => CL!Init
  BY DEF Init, CL!Init, AbstractLine, AbstractPhase, Editing, Entered, Parsing, ParseStates
<1>2. Init => TokensInv
  BY IdleTokens DEF Init, Editing, Entered, Parsing, ParseStates
<1>3. IInv /\ IInv' /\ TokensInv /\ [Next]_vars => TokensInv'
  BY TokensKept
<1>4. IInv /\ TokensInv /\ [Next]_vars => [CL!Next]_(CL!lineVars)
  BY StepMaps DEF Mapped
<1> QED
  BY <1>1, <1>2, <1>3, <1>4, LineInvariant, PTL DEF Spec, RefinesCommandLine, CL!Spec

-----------------------------------------------------------------------------
(***************************************************************************)
(* How far the shell is from reading again.                                *)
(***************************************************************************)
\* A prompt is on the way to reading, and nothing is written behind a write.
PlaceInv ==
  /\ writeNext # "WRITE_CHAR"
  /\ Place \in PromptStates => promptNext = "READ_PREPARE"

RankTyped == PlacesLeft(Place) \in Nat /\ StepsLeft \in Nat /\ TextLeft \in Nat

LEMMA PlacesAre ==
  /\ PlacesLeft("PARSE_PREPARE") = 11
  /\ \A place \in ParseStates : PlacesLeft(place) = 10
  /\ \A place \in ProcessStates : PlacesLeft(place) = 9
  /\ PlacesLeft("RESET") = 8 /\ PlacesLeft("RESET_PROMPT") = 7
  /\ PlacesLeft("PROMPT_PREFIX") = 6 /\ PlacesLeft("PROMPT_HOST") = 5
  /\ PlacesLeft("PROMPT_SPACE") = 4 /\ PlacesLeft("PROMPT_PATH") = 3
  /\ PlacesLeft("PROMPT_SUFFIX") = 2
  /\ PlacesLeft("READ_PREPARE") = 1 /\ PlacesLeft("READ_CHAR") = 0
BY DEF PlacesLeft, ParseStates, ProcessStates

\* A rank is lower when the first part that changes is.
LEMMA Lower ==
  ASSUME \/ PlacesLeft(Place)' < PlacesLeft(Place)
         \/ /\ PlacesLeft(Place)' = PlacesLeft(Place)
            /\ StepsLeft' < StepsLeft \/ (StepsLeft' = StepsLeft /\ TextLeft' < TextLeft)
  PROVE  Below(Rank', Rank)
<1> DEFINE r == Rank'
           t == Rank
<1>1. /\ r[1] = PlacesLeft(Place)' /\ r[2] = StepsLeft' /\ r[3] = TextLeft'
      /\ t[1] = PlacesLeft(Place) /\ t[2] = StepsLeft /\ t[3] = TextLeft
  BY DEF Rank
<1> HIDE DEF r, t
<1>2. \/ r[1] < t[1]
      \/ r[1] = t[1] /\ r[2] < t[2]
      \/ r[1] = t[1] /\ r[2] = t[2] /\ r[3] < t[3]
  BY <1>1
<1>3. \E k \in 1 .. 3 : r[k] < t[k] /\ \A j \in 1 .. k - 1 : r[j] = t[j]
  BY ONLY <1>2
<1> QED BY <1>3 DEF Below, r, t

\* The parser is before the end of the buffer, the writer not behind its text.
LEMMA Ranked == IInv /\ PlaceInv => RankTyped
<1> SUFFICES ASSUME IInv, PlaceInv PROVE RankTyped
  OBVIOUS
<1>1. PlacesLeft(Place) \in Nat
  <2>1. Place \in States \ {"WRITE_CHAR"}
    BY DEF IInv, TypeOK, PlaceInv, Place
  <2> QED BY <2>1, PlacesAre DEF States, ReadStates, PromptStates
<1>2. StepsLeft \in Nat
  <2>1. CASE Parsing
    <3>1. inPos \in Nat /\ inPos < Len(entered) /\ Len(entered) \in 1 .. InSize /\ InSize \in Nat
      BY <2>1, LineAssumption DEF IInv, TypeOK, LineInv, ParserBehind, EnteredLine, Entered
    <3>2. InSize - inPos \in Nat
      BY <3>1
    <3>3. Place \notin ProcessStates
      BY <2>1 DEF Parsing, Place, ParseStates, ProcessStates
    <3> QED BY <2>1, <3>2, <3>3 DEF StepsLeft
  <2>2. CASE ~Parsing
    <3>1. work \in Nat
      BY LineAssumption DEF IInv, TypeOK
    <3> QED BY <2>2, <3>1 DEF StepsLeft
  <2> QED BY <2>1, <2>2
<1>3. TextLeft \in Nat
  <2>1. Len(wbuf) \in Nat /\ wpos \in 0 .. Len(wbuf)
    BY DEF IInv, TypeOK
  <2> QED BY <2>1 DEF TextLeft
<1> QED BY <1>1, <1>2, <1>3 DEF RankTyped

\* Where a command leaves the machine.
LEMMA CommandEnds ==
  ASSUME NEW ch, ParseNewline(ch)
  PROVE  /\ Place' \in {"RESET", "RESET_PROMPT", "PROCESS_START"}
         /\ writeNext' = writeNext \/ writeNext' \in {"RESET", "RESET_PROMPT"}
<1>1. \/ state' \in {"RESET", "RESET_PROMPT", "PROCESS_START"} /\ UNCHANGED write
      \/ \E next \in {"RESET", "RESET_PROMPT"} : WritePointer(<<"msg">>, next)
  BY DEF ParseNewline, CommandOutcome
<1>2. CASE \E next \in {"RESET", "RESET_PROMPT"} : WritePointer(<<"msg">>, next)
  BY <1>2 DEF WritePointer, Place
<1>3. CASE state' \in {"RESET", "RESET_PROMPT", "PROCESS_START"} /\ UNCHANGED write
  BY <1>3 DEF Place, write
<1> QED BY <1>1, <1>2, <1>3

LEMMA ProcessMoves ==
  /\ ProcessStep => /\ Place' \in ProcessStates
                    /\ writeNext' = writeNext \/ writeNext' \in ProcessStates
  /\ ProcessEnd => /\ Place' \in {"RESET", "RESET_PROMPT"}
                   /\ writeNext' = writeNext \/ writeNext' \in {"RESET", "RESET_PROMPT"}
<1>1. ASSUME NEW next, next # "WRITE_CHAR",
             (state' = next /\ UNCHANGED write) \/ WritePointer(<<"msg">>, next)
      PROVE  Place' = next /\ (writeNext' = writeNext \/ writeNext' = next)
  BY <1>1 DEF WritePointer, Place, write
<1>2. \A next \in ProcessStates : next # "WRITE_CHAR"
  BY DEF ProcessStates
<1>3. ASSUME ProcessStep
      PROVE  Place' \in ProcessStates /\ (writeNext' = writeNext \/ writeNext' \in ProcessStates)
  <2>1. PICK next \in ProcessStates :
          (state' = next /\ UNCHANGED write) \/ WritePointer(<<"msg">>, next)
    BY <1>3 DEF ProcessStep
  <2> QED BY <1>1, <1>2, <2>1
<1>4. ASSUME ProcessEnd
      PROVE  /\ Place' \in {"RESET", "RESET_PROMPT"}
             /\ writeNext' = writeNext \/ writeNext' \in {"RESET", "RESET_PROMPT"}
  <2>1. PICK next \in {"RESET", "RESET_PROMPT"} :
          (state' = next /\ UNCHANGED write) \/ WritePointer(<<"msg">>, next)
    BY <1>4 DEF ProcessEnd
  <2> QED BY <1>1, <2>1
<1> QED BY <1>3, <1>4

\* The prompt's pieces follow each other.
LEMMA PromptMoves ==
  ASSUME TypeOK, PlaceInv, Prompt
  PROVE  /\ PlacesLeft(Place)' < PlacesLeft(Place)
         /\ state' = "WRITE_CHAR" /\ writeNext' \in PromptStates \cup {"READ_PREPARE"}
         /\ promptNext' = promptNext /\ promptNext = "READ_PREPARE"
<1>1. /\ state \in PromptStates /\ state' = "WRITE_CHAR" /\ promptNext' = promptNext
      /\ writeNext' = IF state = "PROMPT_SUFFIX" THEN promptNext ELSE PromptAfter[state]
  BY DEF Prompt, WritePointer
<1>2. Place = state /\ promptNext = "READ_PREPARE" /\ Place' = writeNext'
  BY <1>1 DEF Place, PlaceInv, PromptStates
<1>3. \/ state = "PROMPT_PREFIX" /\ writeNext' = "PROMPT_HOST"
      \/ state = "PROMPT_HOST" /\ writeNext' = "PROMPT_SPACE"
      \/ state = "PROMPT_SPACE" /\ writeNext' = "PROMPT_PATH"
      \/ state = "PROMPT_PATH" /\ writeNext' = "PROMPT_SUFFIX"
      \/ state = "PROMPT_SUFFIX" /\ writeNext' = "READ_PREPARE"
  BY <1>1, <1>2 DEF PromptStates, PromptAfter
<1>4. PlacesLeft(Place)' = PlacesLeft(writeNext')
  BY <1>2 DEF PlacesLeft
<1>5. PlacesLeft(writeNext') < PlacesLeft(state)
  BY <1>3, PlacesAre
<1> QED BY <1>1, <1>2, <1>3, <1>4, <1>5 DEF PromptStates

LEMMA PlaceKept == TypeOK /\ PlaceInv /\ [Next]_vars => PlaceInv'
<1> SUFFICES ASSUME TypeOK, PlaceInv, [Next]_vars PROVE PlaceInv'
  OBVIOUS
<1>1. ASSUME UNCHANGED writeNext \/ writeNext' # "WRITE_CHAR", Place' \notin PromptStates
      PROVE  PlaceInv'
  BY <1>1 DEF PlaceInv
<1>2. CASE WriteByte \/ WriteEnd
  BY <1>2 DEF WriteByte, WriteEnd, write, PlaceInv, Place
<1>3. CASE ResetLine \/ ReadInterrupt \/ AppPrint
  BY <1>1, <1>3 DEF ResetLine, ReadInterrupt, AppPrint, WritePointer, Place, PromptStates
<1>4. CASE ResetPrompt
  BY <1>4 DEF ResetPrompt, write, PlaceInv
<1>5. CASE Prompt
  BY <1>5, PromptMoves DEF PlaceInv, PromptStates
<1>6. CASE ReadStart \/ ParseStart \/ ReadEscape \/ \E ch \in Typed : ReadEscaped(ch)
  BY <1>1, <1>6 DEF ReadStart, ParseStart, ReadEscape, ReadEscaped, Reads, write, Place, PromptStates
<1>7. CASE ReadBackspace \/ \E ch \in Typed : ReadStore(ch)
  <2>1. state' = "WRITE_CHAR" /\ writeNext' \in {"PARSE_PREPARE", "READ_CHAR"}
    BY <1>7 DEF ReadBackspace, ReadStore, Echo, WritePointer
  <2> QED BY <1>1, <2>1 DEF Place, PromptStates
<1>8. ASSUME NEW ch \in Fetched, ParseStandard(ch) PROVE PlaceInv'
  <2>1. state' \in ParseStates /\ writeNext' = writeNext
    BY <1>8, ModeType DEF ParseStandard, TypeOK, Fetched, write
  <2> QED BY <1>1, <2>1 DEF Place, ParseStates, PromptStates
<1>9. ASSUME NEW ch \in Fetched, ParseNewline(ch) PROVE PlaceInv'
  BY <1>1, <1>9, CommandEnds DEF PromptStates
<1>10. CASE ProcessStep \/ ProcessEnd
  BY <1>1, <1>10, ProcessMoves DEF PromptStates, ProcessStates
<1>11. CASE UNCHANGED vars
  BY <1>11 DEF vars, write, PlaceInv, Place
<1> QED
  BY <1>2, <1>3, <1>4, <1>5, <1>6, <1>7, <1>8, <1>9, <1>10, <1>11
  DEF Next, Service, Read, ParseChar

LEMMA ServiceNears ==
  ASSUME InSize > 1, IInv, IInv', PlaceInv, Service
  PROVE  Below(Rank', Rank)
<1>1. TypeOK /\ TypeOK' /\ RankTyped
  BY Ranked DEF IInv
<1>2. CASE WriteByte
  <2>1. /\ state = "WRITE_CHAR" /\ wpos' = wpos + 1 /\ wpos \in Nat /\ Len(wbuf) \in Nat
        /\ UNCHANGED <<state, writeNext, wbuf, inPos, work>>
    BY <1>1, <1>2 DEF WriteByte, edit, TypeOK
  <2>2. PlacesLeft(Place)' = PlacesLeft(Place) /\ StepsLeft' = StepsLeft
    BY <2>1 DEF PlacesLeft, Place, StepsLeft, Parsing
  <2>3. TextLeft = 1 + Len(wbuf) - wpos /\ TextLeft' = 1 + Len(wbuf) - wpos'
    BY <2>1 DEF TextLeft
  <2>4. TextLeft' < TextLeft
    BY <2>1, <2>3
  <2> QED BY <2>2, <2>4, Lower
<1>3. CASE WriteEnd
  <2>1. /\ state = "WRITE_CHAR" /\ state' = writeNext /\ state' # "WRITE_CHAR"
        /\ writeNext \notin ParseStates /\ UNCHANGED <<inPos, work>>
        /\ wpos \in 0 .. Len(wbuf) /\ Len(wbuf) \in Nat
    BY <1>1, <1>3 DEF WriteEnd, edit, TypeOK, PlaceInv
  <2>2. Place' = Place /\ ~Parsing /\ ~Parsing'
    BY <2>1 DEF Place, Parsing, ParseStates
  <2>3. PlacesLeft(Place)' = PlacesLeft(Place) /\ StepsLeft' = StepsLeft
    BY <2>1, <2>2 DEF PlacesLeft, StepsLeft
  <2>4. TextLeft = 1 + Len(wbuf) - wpos /\ TextLeft' = 0
    BY <2>1 DEF TextLeft
  <2>5. TextLeft' < TextLeft
    BY <2>1, <2>4
  <2> QED BY <2>3, <2>5, Lower
<1>4. ASSUME NEW p, NEW q, Place = p, Place' = q, PlacesLeft(q) < PlacesLeft(p)
      PROVE  Below(Rank', Rank)
  <2>1. PlacesLeft(Place)' = PlacesLeft(q)
    BY <1>4 DEF PlacesLeft
  <2> QED BY <1>4, <2>1, Lower
<1>5. CASE ResetLine
  BY <1>4, <1>5, PlacesAre DEF ResetLine, WritePointer, Place
<1>6. CASE ResetPrompt
  BY <1>4, <1>6, PlacesAre DEF ResetPrompt, Place
<1>7. CASE Prompt
  BY <1>1, <1>7, PromptMoves, Lower
<1>8. CASE ReadStart
  BY <1>4, <1>8, PlacesAre DEF ReadStart, Place
<1>9. CASE ParseStart
  <2>1. Place = "PARSE_PREPARE" /\ Place' = "PARSE_SEARCH_ARG" /\ "PARSE_SEARCH_ARG" \in ParseStates
    BY <1>9 DEF ParseStart, Place, ParseStates
  <2> QED BY <1>4, <2>1, PlacesAre
<1>10. ASSUME NEW ch \in Fetched, ParseStandard(ch) PROVE Below(Rank', Rank)
  <2>1. state \in ParseStates /\ state' \in ParseStates /\ inPos' = inPos + 1 /\ inPos \in Nat
    BY <1>1, <1>10, ModeType DEF ParseStandard, TypeOK, Fetched
  <2>2. Place = state /\ Place' = state' /\ Parsing /\ Parsing'
    BY <2>1 DEF Place, Parsing, ParseStates
  <2>3. PlacesLeft(Place)' = PlacesLeft(state')
    BY <2>2 DEF PlacesLeft
  <2>4. PlacesLeft(Place)' = PlacesLeft(Place)
    BY <2>1, <2>2, <2>3, PlacesAre
  <2>5. StepsLeft = InSize - inPos /\ StepsLeft' = InSize - inPos'
    <3>1. state \notin ProcessStates /\ state' \notin ProcessStates
      BY <2>1 DEF ParseStates, ProcessStates
    <3> QED BY <2>2, <3>1 DEF StepsLeft
  <2>6. StepsLeft' < StepsLeft
    BY <2>1, <2>5, LineAssumption
  <2> QED BY <2>4, <2>6, Lower
<1>11. ASSUME NEW ch \in Fetched, ParseNewline(ch) PROVE Below(Rank', Rank)
  <2>1. state \in ParseStates /\ Place = state
    BY <1>11 DEF ParseNewline, Place, ParseStates
  <2>2. PlacesLeft(Place) = 10
    BY <2>1, PlacesAre
  <2>3. PICK q \in {"RESET", "RESET_PROMPT", "PROCESS_START"} : Place' = q
    BY <1>11, CommandEnds
  <2>4. "PROCESS_START" \in ProcessStates
    BY DEF ProcessStates
  <2>5. PlacesLeft(q) < 10
    BY <2>3, <2>4, PlacesAre
  <2> QED BY <1>4, <2>1, <2>2, <2>3, <2>5
<1>12. CASE ProcessStep
  <2>1. /\ state \in ProcessStates /\ Place = state /\ Place' \in ProcessStates
        /\ work' = work - 1 /\ work > 0 /\ work \in Nat
    BY <1>1, <1>12, ProcessMoves, LineAssumption DEF ProcessStep, Place, ProcessStates, TypeOK
  <2>2. ~Parsing /\ ~Parsing'
    BY <1>1, <2>1 DEF Parsing, ParseStates, ProcessStates, Place, TypeOK
  <2>3. PICK q \in ProcessStates : Place' = q
    BY <2>1
  <2>4. PlacesLeft(Place)' = PlacesLeft(q)
    BY <2>3 DEF PlacesLeft
  <2>5. PlacesLeft(Place)' = PlacesLeft(Place)
    BY <2>1, <2>3, <2>4, PlacesAre
  <2>6. StepsLeft = work /\ StepsLeft' = work'
    BY <2>1, <2>2 DEF StepsLeft
  <2>7. StepsLeft' < StepsLeft
    BY <2>1, <2>6
  <2> QED BY <2>5, <2>7, Lower
<1>13. CASE ProcessEnd
  <2>1. state \in ProcessStates /\ Place = state
    BY <1>13 DEF ProcessEnd, Place, ProcessStates
  <2>2. PlacesLeft(Place) = 9
    BY <2>1, PlacesAre
  <2>3. PICK q \in {"RESET", "RESET_PROMPT"} : Place' = q
    BY <1>13, ProcessMoves
  <2>4. PlacesLeft(q) < 9
    BY <2>3, PlacesAre
  <2> QED BY <1>4, <2>1, <2>2, <2>3, <2>4
<1> QED
  BY <1>2, <1>3, <1>5, <1>6, <1>7, <1>8, <1>9, <1>10, <1>11, <1>12, <1>13 DEF Service, ParseChar

\* No sequence of ranks goes down for ever.
LEMMA RanksEnd ==
  ASSUME NEW f \in [Nat -> [1 .. 3 -> Nat]]
  PROVE  \E n \in Nat : ~Below(f[n + 1], f[n])
<1>1. 3 \in Nat
  OBVIOUS
<1>2. \E n \in Nat :
        ~ \E k \in 1 .. 3 : f[n + 1][k] < f[n][k] /\ \A j \in 1 .. k - 1 : f[n + 1][j] = f[n][j]
  BY ONLY <1>1, f \in [Nat -> [1 .. 3 -> Nat]], TuplesEnd
<1> QED BY <1>2 DEF Below

\* Until the shell reads again every call of ush_service brings it nearer to
\* reading, for every buffer and whatever line was typed, in an order of triples
\* of naturals that has no infinite descent; only a message of the application
\* puts it off.
THEOREM PromptNearsHolds ==
  ASSUME InSize > 1
  PROVE  Spec => PromptNears
<1> DEFINE Nearer ==
      state' # "READ_CHAR" =>
        /\ Rank' \in [1 .. 3 -> Nat]
        /\ state # "READ_CHAR" => Below(Rank', Rank) \/ calls' # calls
<1>1. Init => PlaceInv
  BY DEF Init, PlaceInv, Place, PromptStates
<1>2. IInv /\ PlaceInv /\ [Next]_vars => PlaceInv'
  BY PlaceKept DEF IInv
<1>3. IInv /\ IInv' /\ PlaceInv /\ PlaceInv' /\ [Next]_vars => [Nearer]_vars
  <2> SUFFICES ASSUME IInv, IInv', PlaceInv, PlaceInv', Next, state' # "READ_CHAR" PROVE Nearer
    OBVIOUS
  <2>1. Rank' \in [1 .. 3 -> Nat]
    <3>1. (IInv /\ PlaceInv => RankTyped)'
      BY Ranked, PTL
    <3>2. RankTyped'
      BY <3>1
    <3>3. \A a, b, c \in Nat : <<a, b, c>> \in [1 .. 3 -> Nat]
      OBVIOUS
    <3> QED BY <3>2, <3>3 DEF Rank, RankTyped
  <2>2. ASSUME state # "READ_CHAR" PROVE Below(Rank', Rank) \/ calls' # calls
    <3>1. CASE Service
      BY <3>1, ServiceNears
    <3>2. CASE Read
      BY <2>2, <3>2 DEF Read, ReadInterrupt, ReadBackspace, ReadEscape, ReadEscaped, ReadStore, Reads
    <3>3. CASE AppPrint
      BY <3>3, LineAssumption DEF AppPrint, IInv, TypeOK
    <3> QED BY <3>1, <3>2, <3>3 DEF Next
  <2> QED BY <2>1, <2>2
<1> QED
  BY <1>1, <1>2, <1>3, LineInvariant, PTL DEF Spec, PromptNears

=============================================================================
