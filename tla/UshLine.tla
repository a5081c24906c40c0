------------------------------ MODULE UshLine ------------------------------
(***************************************************************************)
(* The line discipline of microshell: the state machine that ush_service   *)
(* advances by one step per call, from the prompt to the typed line, to    *)
(* its in-place parsing, to the command that is run, and back.             *)
(*                                                                         *)
(* One action is one call of ush_service in one state, or one call of the  *)
(* library by the application between two calls of ush_service.  The       *)
(* build modelled has USH_CONFIG_ENABLE_FEATURE_AUTOCOMPLETE = 0.          *)
(***************************************************************************)
EXTENDS Integers, Sequences, FiniteSetsExt, SequencesExt

CONSTANTS
  InSize,     \* desc->input_buffer_size
  Typed,      \* the bytes the terminal may send
  MaxWork,    \* bound on the steps of one process callback
  MaxCalls    \* bound on the calls of the application

(***************************************************************************)
(* The bytes the code tells apart: it tests for each of these, except "a", *)
(* which stands for every other byte.  "BS" is 0x08 or 0x7F, "[" is '['    *)
(* or 'O'.                                                                 *)
(***************************************************************************)
Chars == {"NUL", "LF", "CR", "BS", "TAB", "ETX", "ESC",
          "SP", "QT", "BSL", "x", "[", "a"}
Newlines == {"LF", "CR"}

\* What ush_init asserts of the input buffer, and the bounds of the model.
ASSUME LineAssumption ==
  /\ InSize \in Nat \ {0}
  /\ Typed \subseteq Chars
  /\ MaxWork \in Nat
  /\ MaxCalls \in Nat

Index == 0 .. InSize - 1

ReadStates    == {"READ_PREPARE", "READ_CHAR"}
ParseStates   == {"PARSE_SEARCH_ARG", "PARSE_QUOTE_ARG", "PARSE_STANDARD_ARG"}
PromptStates  == {"PROMPT_PREFIX", "PROMPT_HOST", "PROMPT_SPACE",
                  "PROMPT_PATH", "PROMPT_SUFFIX"}
ProcessStates == {"PROCESS_START", "PROCESS_SERVICE", "PROCESS_FINISH"}
States == {"RESET", "RESET_PROMPT", "PARSE_PREPARE", "WRITE_CHAR"}
            \cup ReadStates \cup ParseStates \cup PromptStates \cup ProcessStates

VARIABLES
  state,      \* state
  writeNext,  \* write_next_state
  promptNext, \* prompt_next_state
  wbuf,       \* write_buf, the first write_size bytes
  wpos,       \* write_pos
  buf,        \* desc->input_buffer
  inPos,      \* in_pos
  outPos,     \* out_pos
  ansi,       \* ansi_escape_state
  args,       \* args_count
  esc,        \* escape_flag
  argv,       \* the arguments of the command run since the last prompt
  work,       \* steps the process callback still takes
  calls,      \* calls the application has made
  shown,      \* what the terminal shows left of its cursor, from the prompt on
  entered,    \* the line ended by a newline and not parsed yet
  overrun     \* the line wrapped around the buffer since the prompt

write == <<writeNext, wbuf, wpos>>
edit  == <<buf, inPos, ansi, entered, overrun>>
parse == <<outPos, args, esc, argv>>
vars  == <<state, write, promptNext, edit, parse, work, calls, shown>>

(***************************************************************************)
(* Writing.  Messages that no property looks into are the one symbol       *)
(* "msg"; the prompt's suffix is the symbol "]$".                          *)
(***************************************************************************)
Symbols == Chars \cup {"msg", "]$"}

WritePointer(text, next) ==
  /\ state' = "WRITE_CHAR"
  /\ wbuf' = text
  /\ wpos' = 0
  /\ writeNext' = next

\* The terminal after one more symbol: backspace moves the cursor left, a
\* newline or a message leaves the line, the width is enough for a full line.
ScreenWidth == InSize + 1
Screen(scr, sym) ==
  CASE sym = "]$"                         -> <<"]$">>
    [] sym = "BS" /\ scr # <<>>           -> Front(scr)
    [] sym \notin Newlines \cup {"BS", "msg", "]$"} /\ scr # <<>>
         -> IF Len(scr) < ScreenWidth THEN Append(scr, sym) ELSE scr
    [] OTHER                              -> <<>>

\* ush_write_char: io->write may also refuse the byte, which is a stutter.
WriteByte ==
  /\ state = "WRITE_CHAR"
  /\ wpos < Len(wbuf)
  /\ wpos' = wpos + 1
  /\ shown' = Screen(shown, wbuf[wpos + 1])
  /\ UNCHANGED <<state, writeNext, wbuf, promptNext, edit, parse, work, calls>>

WriteEnd ==
  /\ state = "WRITE_CHAR"
  /\ wpos >= Len(wbuf)
  /\ state' = writeNext
  /\ UNCHANGED <<write, promptNext, edit, parse, work, calls, shown>>

(***************************************************************************)
(* Reset and prompt.                                                       *)
(***************************************************************************)
ResetLine ==
  /\ state = "RESET"
  /\ WritePointer(<<"CR", "LF">>, "RESET_PROMPT")
  /\ UNCHANGED <<promptNext, edit, parse, work, calls, shown>>

ResetPrompt ==
  /\ state = "RESET_PROMPT"
  /\ state' = "PROMPT_PREFIX"
  /\ promptNext' = "READ_PREPARE"
  /\ UNCHANGED <<write, edit, parse, work, calls, shown>>

PromptPiece == [PROMPT_PREFIX |-> "msg", PROMPT_HOST |-> "msg", PROMPT_SPACE |-> "msg",
                PROMPT_PATH |-> "msg", PROMPT_SUFFIX |-> "]$"]
\* Mutant: the path is followed by the prefix again.
PromptAfterLoop == [PROMPT_PREFIX |-> "PROMPT_HOST", PROMPT_HOST |-> "PROMPT_SPACE",
                    PROMPT_SPACE |-> "PROMPT_PATH", PROMPT_PATH |-> "PROMPT_PREFIX"]

PromptAfter == [PROMPT_PREFIX |-> "PROMPT_HOST", PROMPT_HOST |-> "PROMPT_SPACE",
                PROMPT_SPACE |-> "PROMPT_PATH", PROMPT_PATH |-> "PROMPT_SUFFIX"]

Prompt ==
  /\ state \in PromptStates
  /\ WritePointer(<<PromptPiece[state]>>,
                  IF state = "PROMPT_SUFFIX" THEN promptNext ELSE PromptAfter[state])
  /\ UNCHANGED <<promptNext, edit, parse, work, calls, shown>>

(***************************************************************************)
(* Reading.  io->read returning 0 is a stutter.                            *)
(***************************************************************************)
ReadStart ==
  /\ state = "READ_PREPARE"
  /\ state' = "READ_CHAR"
  /\ inPos' = 0
  /\ buf' = [buf EXCEPT ![0] = "NUL"]
  /\ ansi' = 0
  /\ overrun' = FALSE
  /\ entered' = <<>>
  /\ argv' = <<>>
  /\ UNCHANGED <<write, promptNext, outPos, args, esc, work, calls, shown>>

\* The line in the buffer while it is edited.
BufLine == [i \in 1 .. inPos |-> buf[i - 1]]

\* The guard of every reading action: ush_read_service in READ_CHAR.
Reads(ch) == state = "READ_CHAR" /\ ch \in Typed

\* Mutant: the cursor is not moved back onto the erased column.
EchoTextNoBack(ch) ==
  CASE ch = "CR"  -> <<"CR", "LF">>
    [] ch = "BS"  -> <<"BS", "SP">>
    [] ch = "NUL" -> <<>>
    [] OTHER      -> <<ch>>

\* ush_read_echo_service, and where it sends the machine.
EchoText(ch) ==
  CASE ch = "CR"  -> <<"CR", "LF">>
    [] ch = "BS"  -> <<"BS", "SP", "BS">>
    [] ch = "NUL" -> <<>>
    [] OTHER      -> <<ch>>
Echo(ch) ==
  WritePointer(EchoText(ch), IF ch \in Newlines THEN "PARSE_PREPARE" ELSE "READ_CHAR")

ReadInterrupt ==
  /\ Reads("ETX")
  /\ WritePointer(<<"msg">>, "RESET")
  /\ UNCHANGED <<promptNext, edit, parse, work, calls, shown>>

CanErase(pos) == pos > 0

ReadBackspace ==
  /\ Reads("BS")
  /\ CanErase(inPos)
  /\ inPos' = inPos - 1
  /\ buf' = [buf EXCEPT ![inPos - 1] = "NUL"]
  /\ Echo("BS")
  /\ UNCHANGED <<promptNext, ansi, entered, overrun, parse, work, calls, shown>>

ReadEscape ==
  /\ Reads("ESC")
  /\ ansi' = 1
  /\ UNCHANGED <<state, write, promptNext, buf, inPos, entered, overrun,
                 parse, work, calls, shown>>

\* Every other byte, by ush_read_char_by_escape_state: the two bytes after an
\* escape are swallowed, whatever they are, newlines included.
Default(ch) == ch \notin {"ETX", "BS", "TAB", "ESC"}

\* Mutant: every '[' advances the escape sequence.
AnsiAfterAny(a, ch) == IF ch = "[" THEN a + 1 ELSE 0

AnsiAfter(a, ch) == IF a = 1 /\ ch = "[" THEN 2 ELSE 0

ReadEscaped(ch) ==
  /\ Reads(ch) /\ Default(ch)
  /\ ansi # 0
  /\ ansi' = AnsiAfter(ansi, ch)
  /\ UNCHANGED <<state, write, promptNext, buf, inPos, entered, overrun,
                 parse, work, calls, shown>>

\* Mutant: the wrap keeps a byte too many free.
WrapEarly(pos) == IF pos + 1 >= InSize THEN 0 ELSE pos

\* in_pos wraps to the start of the buffer when it reaches its end.
Wrap(pos) == IF pos >= InSize THEN 0 ELSE pos

ReadStore(ch) ==
  /\ Reads(ch) /\ Default(ch)
  /\ ansi = 0
  /\ inPos' = Wrap(inPos + 1)
  /\ buf' = [[buf EXCEPT ![inPos] = ch] EXCEPT ![Wrap(inPos + 1)] = "NUL"]
  /\ entered' = IF ch \in Newlines THEN Append(BufLine, ch) ELSE <<>>
  /\ overrun' = (overrun \/ inPos + 1 >= InSize)
  /\ Echo(ch)
  /\ UNCHANGED <<promptNext, ansi, parse, work, calls, shown>>

(***************************************************************************)
(* Parsing: the buffer is read at in_pos and rewritten in place at out_pos.*)
(* A write past the buffer would leave the model; a read past it returns   *)
(* any byte.                                                               *)
(***************************************************************************)
ParseStart ==
  /\ state = "PARSE_PREPARE"
  /\ state' = "PARSE_SEARCH_ARG"
  /\ inPos' = 0
  /\ outPos' = 0
  /\ args' = 0
  /\ esc' = FALSE
  /\ UNCHANGED <<write, promptNext, buf, ansi, entered, overrun, argv,
                 work, calls, shown>>

Stored(text) ==
  [p \in Index |-> IF p \in outPos .. outPos + Len(text) - 1
                   THEN text[p - outPos + 1] ELSE buf[p]]

\* Mutant: the space is kept in front of the terminator that replaces it.
EmittedLong(mode, escaped, ch) ==
  IF escaped THEN (IF ch = "x" THEN <<"BSL", "x">> ELSE <<ch>>)
  ELSE CASE ch \in {"QT", "BSL"}                     -> <<>>
         [] ch = "SP" /\ mode = "PARSE_SEARCH_ARG"   -> <<>>
         [] ch = "SP" /\ mode = "PARSE_STANDARD_ARG" -> <<"SP", "NUL">>
         [] OTHER                                    -> <<ch>>

\* Mutant: an argument ended by a space is not terminated.
EmittedOpen(mode, escaped, ch) ==
  IF escaped THEN (IF ch = "x" THEN <<"BSL", "x">> ELSE <<ch>>)
  ELSE CASE ch \in {"QT", "BSL"}                   -> <<>>
         [] ch = "SP" /\ mode # "PARSE_QUOTE_ARG" -> <<>>
         [] OTHER                                  -> <<ch>>

\* What one byte of the line leaves in the buffer: \x stays for the command
\* to decode, a space outside quotes ends the argument.
Emitted(mode, escaped, ch) ==
  IF escaped THEN (IF ch = "x" THEN <<"BSL", "x">> ELSE <<ch>>)
  ELSE CASE ch \in {"QT", "BSL"}                       -> <<>>
         [] ch = "SP" /\ mode = "PARSE_SEARCH_ARG"   -> <<>>
         [] ch = "SP" /\ mode = "PARSE_STANDARD_ARG" -> <<"NUL">>
         [] OTHER                                      -> <<ch>>

\* Mutant: a closing quote ends the argument.
ModeAfterQuote(mode, escaped, ch) ==
  CASE escaped -> mode
    [] ch = "QT" /\ ~escaped ->
         IF mode = "PARSE_QUOTE_ARG" THEN "PARSE_SEARCH_ARG" ELSE "PARSE_QUOTE_ARG"
    [] ch # "QT" /\ mode = "PARSE_QUOTE_ARG" /\ ~escaped -> mode
    [] ch = "SP" /\ mode # "PARSE_QUOTE_ARG" /\ ~escaped -> "PARSE_SEARCH_ARG"
    [] OTHER -> "PARSE_STANDARD_ARG"

ModeAfter(mode, escaped, ch) ==
  CASE escaped -> mode
    [] ch = "QT" /\ ~escaped ->
         IF mode = "PARSE_QUOTE_ARG" THEN "PARSE_STANDARD_ARG" ELSE "PARSE_QUOTE_ARG"
    [] ch # "QT" /\ mode = "PARSE_QUOTE_ARG" /\ ~escaped -> mode
    [] ch = "SP" /\ mode # "PARSE_QUOTE_ARG" /\ ~escaped -> "PARSE_SEARCH_ARG"
    [] OTHER -> "PARSE_STANDARD_ARG"

StartsArg(mode, ch) == mode = "PARSE_SEARCH_ARG" /\ ch # "SP"

\* Mutant: the parser knows one of the two newlines.
EndsLineLF(ch) == ch = "LF"

EndsLine(ch) == ch \in Newlines

\* The byte ush_parse_char fetches.
Fetched == IF inPos \in Index THEN {buf[inPos]} ELSE Chars

ParseStandard(ch) ==
  /\ state \in ParseStates
  /\ ~EndsLine(ch)
  /\ inPos' = inPos + 1
  /\ buf' = Stored(Emitted(state, esc, ch))
  /\ outPos' = outPos + Len(Emitted(state, esc, ch))
  /\ args' = IF StartsArg(state, ch) THEN args + 1 ELSE args
  /\ esc' = (~esc /\ ch = "BSL")
  /\ state' = ModeAfter(state, esc, ch)
  /\ UNCHANGED <<write, promptNext, ansi, entered, overrun, argv, work, calls, shown>>

\* ush_parse_get_args: n strings laid end to end in the buffer, each found
\* from the terminator of the one before it.
NulsBefore(b, p) == Cardinality({q \in Index : q < p /\ b[q] = "NUL"})
StartOf(b, k) == Min({p \in 0 .. InSize : NulsBefore(b, p) = k - 1} \cup {InSize + 1})
GetArgs(b, n) ==
  [k \in 1 .. n |-> [i \in 1 .. StartOf(b, k + 1) - 1 - StartOf(b, k)
                       |-> b[StartOf(b, k) + i - 1]]]

\* What ush_parse_finish and the exec callback it calls leave behind: nothing,
\* a message (a status, or the command's own), or a process to be served.
CommandOutcome ==
  \/ state' \in {"RESET", "RESET_PROMPT"} /\ UNCHANGED <<write, work>>
  \/ \E next \in {"RESET", "RESET_PROMPT"} :
       WritePointer(<<"msg">>, next) /\ UNCHANGED work
  \/ state' = "PROCESS_START" /\ work' \in 0 .. MaxWork /\ UNCHANGED write

Terminator == <<"NUL">>

ParseNewline(ch) ==
  /\ state \in ParseStates
  /\ EndsLine(ch)
  /\ inPos' = inPos + 1
  /\ buf' = Stored(Terminator)
  /\ outPos' = outPos + 1
  /\ entered' = <<>>
  /\ IF args = 0
     THEN state' = "RESET_PROMPT" /\ UNCHANGED <<write, argv, work>>
     ELSE argv' = GetArgs(buf', args) /\ CommandOutcome
  /\ UNCHANGED <<promptNext, ansi, args, esc, overrun, calls, shown>>

ParseChar == \E ch \in Fetched : ParseStandard(ch) \/ ParseNewline(ch)

(***************************************************************************)
(* A command with a process callback: every step of the callback may move  *)
(* between the process states or print and come back to one, until it is   *)
(* done (or the file has no process callback) and leaves for the prompt.   *)
(***************************************************************************)
ProcessStep ==
  /\ state \in ProcessStates
  /\ work > 0
  /\ work' = work - 1
  /\ \E next \in ProcessStates :
       \/ state' = next /\ UNCHANGED write
       \/ WritePointer(<<"msg">>, next)
  /\ UNCHANGED <<promptNext, edit, parse, calls, shown>>

ProcessEnd ==
  /\ state \in ProcessStates
  /\ work = 0
  /\ \E next \in {"RESET", "RESET_PROMPT"} :
       \/ state' = next /\ UNCHANGED write
       \/ WritePointer(<<"msg">>, next)
  /\ UNCHANGED <<promptNext, edit, parse, work, calls, shown>>

(***************************************************************************)
(* The application, between two calls of ush_service: ush_print (next      *)
(* RESET), ush_print_no_newline and ush_reset (next RESET_PROMPT).  They   *)
(* take effect in whatever state the machine is.                           *)
(***************************************************************************)
AppPrint ==
  /\ calls < MaxCalls
  /\ calls' = calls + 1
  /\ \E next \in {"RESET", "RESET_PROMPT"} : WritePointer(<<"msg">>, next)
  /\ UNCHANGED <<promptNext, edit, parse, work, shown>>

(***************************************************************************)
(* ush_init ends in ush_reset, which writes the banner.  The buffer is     *)
(* static storage in every program of the repository.                      *)
(***************************************************************************)
Init ==
  /\ state = "WRITE_CHAR"
  /\ writeNext = "RESET_PROMPT"
  /\ wbuf = <<"msg">> /\ wpos = 0
  /\ promptNext = "RESET"
  /\ buf = [p \in Index |-> "NUL"]
  /\ inPos = 0 /\ outPos = 0
  /\ ansi = 0
  /\ args = 0 /\ esc = FALSE /\ argv = <<>>
  /\ work = 0 /\ calls = 0
  /\ shown = <<>> /\ entered = <<>> /\ overrun = FALSE

Read == \/ ReadInterrupt \/ ReadBackspace \/ ReadEscape
        \/ \E ch \in Typed : ReadEscaped(ch) \/ ReadStore(ch)

\* The steps ush_service takes whether or not the terminal sends a byte.
Service == \/ WriteByte \/ WriteEnd \/ ResetLine \/ ResetPrompt \/ Prompt
           \/ ReadStart \/ ParseStart \/ ParseChar \/ ProcessStep \/ ProcessEnd

Next == Service \/ Read \/ AppPrint

Spec == Init /\ [][Next]_vars

\* The main loop keeps calling ush_service, and io->write takes bytes.
FairSpec == Spec /\ WF_vars(Service)

-----------------------------------------------------------------------------
(***************************************************************************)
(* Properties.                                                             *)
(***************************************************************************)

Editing == state = "READ_CHAR" \/ (state = "WRITE_CHAR" /\ writeNext = "READ_CHAR")
Parsing == state \in ParseStates
Entered == \/ state = "WRITE_CHAR" /\ writeNext = "PARSE_PREPARE"
           \/ state = "PARSE_PREPARE"
           \/ Parsing
\* The variables hold what their C types and the handlers allow.
TypeOK ==
  /\ state \in States
  /\ writeNext \in States \ ParseStates
  /\ promptNext \in {"RESET", "READ_PREPARE"}
  /\ wbuf \in Seq(Symbols) /\ wpos \in 0 .. Len(wbuf)
  /\ buf \in [Index -> Chars]
  /\ inPos \in Nat /\ outPos \in Nat
  /\ Editing => inPos \in Index
  /\ ansi \in 0 .. 2
  /\ args \in Nat /\ esc \in BOOLEAN
  /\ work \in 0 .. MaxWork /\ calls \in 0 .. MaxCalls
  /\ shown \in Seq(Symbols)
  /\ entered \in Seq(Chars) /\ overrun \in BOOLEAN

\* ush_parse_char has no bound of its own: what stops it inside the input
\* buffer is that a newline typed into it is still there when it is reached.
ParserInBounds == Parsing => inPos < InSize

\* The parser rewrites the buffer it reads.  Although \x leaves two bytes for
\* the two it was typed with, and every argument gains a terminator, what it
\* writes never lands on a byte of the line that it has still to read (but for
\* the first byte of a line that fills the buffer, cut by the wrap of in_pos).
UnreadIntact ==
  Parsing => \A i \in inPos .. Len(entered) - 1 : i > 0 => buf[i] = entered[i + 1]

\* Every argument counted so far, but the one being read, has its terminator
\* in the rewritten part of the buffer, where ush_parse_get_args looks for it.
TerminatedArgs ==
  Parsing => args <= NulsBefore(buf, outPos)
                       + (IF state = "PARSE_SEARCH_ARG" THEN 0 ELSE 1)

\* While a line that has not wrapped waits for its next byte, the terminal
\* shows the prompt and exactly the bytes in the buffer: the echo of
\* ush_read_echo_service, in particular of backspace, and the edits of the
\* buffer never part (for terminals that send no NUL, which has no echo).
ScreenShowsLine ==
  state = "READ_CHAR" /\ ~overrun => shown = <<"]$">> \o BufLine

\* Whatever is typed, run or printed, the shell comes back to reading: a line
\* ends in bounded time, and so do its parsing, its command and every message,
\* if process callbacks do and the application does not print for ever.
PromptReturns == []<>(state = "READ_CHAR")

\* Where the machine is on its way to reading, what is written being on the way
\* to the state behind it.
Place == IF state = "WRITE_CHAR" THEN writeNext ELSE state

\* The places that are left from one on.
PlacesLeft(place) ==
  CASE place = "PARSE_PREPARE" -> 11
    [] place \in ParseStates   -> 10
    [] place \in ProcessStates -> 9
    [] place = "RESET"         -> 8
    [] place = "RESET_PROMPT"  -> 7
    [] place = "PROMPT_PREFIX" -> 6
    [] place = "PROMPT_HOST"   -> 5
    [] place = "PROMPT_SPACE"  -> 4
    [] place = "PROMPT_PATH"   -> 3
    [] place = "PROMPT_SUFFIX" -> 2
    [] place = "READ_PREPARE"  -> 1
    [] place = "READ_CHAR"     -> 0

\* At two of them the machine stays: for the bytes of the line it parses, and
\* for the steps of a process.
StepsLeft ==
  CASE Parsing                -> InSize - inPos
    [] Place \in ProcessStates -> work
    [] OTHER                  -> 0

TextLeft == IF state = "WRITE_CHAR" THEN 1 + Len(wbuf) - wpos ELSE 0

\* How far the machine is from reading.
Rank == <<PlacesLeft(Place), StepsLeft, TextLeft>>

\* The order of ranks: by their first difference.
Below(r, s) == \E k \in 1 .. 3 : r[k] < s[k] /\ \A j \in 1 .. k - 1 : r[j] = s[j]

\* Until it reads again, every call of ush_service brings the shell nearer to
\* its prompt and to reading; only a message of the application may put it off.
PromptNears ==
  [][state' # "READ_CHAR" =>
       /\ Rank' \in [1 .. 3 -> Nat]
       /\ state # "READ_CHAR" => Below(Rank', Rank) \/ calls' # calls]_vars

-----------------------------------------------------------------------------
(***************************************************************************)
(* The refinement of CommandLine.                                          *)
(***************************************************************************)
\* The abstract line of a state: the buffer up to in_pos while it is edited,
\* what was typed until the parser is done, nothing otherwise.
AbstractLine == IF Editing THEN BufLine ELSE IF Entered THEN entered ELSE <<>>
AbstractPhase == IF Editing THEN "edit" ELSE IF Entered THEN "entered" ELSE "closed"

CL == INSTANCE CommandLine WITH
        Capacity <- InSize, Keys <- Typed \ Newlines, Ends <- Newlines,
        line <- AbstractLine, phase <- AbstractPhase, given <- argv,
        prints <- calls

\* Every step of the machine is a step of the abstract command line or leaves
\* it as it is: the buffer, its compaction and the escapes lose nothing.
RefinesCommandLine == CL!Spec

=============================================================================
