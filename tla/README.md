# microshell in TLA+

This directory models microshell, a shell for embedded devices written in C
(library code under `src/src/`), in TLA+: modules checked by TLC on small
instances, and theorems checked by TLAPS for every value of the constants.

microshell has no threads. One function, `ush_service`, advances a finite state
machine by one small step per call of the application's main loop. Between two
such calls the application does what it likes with the rest of the interface:
prints, mounts and unmounts directories, adds commands, resets the shell. What
is hard about the code follows from that: every step leaves all its state in
one object and in two shared buffers, and any call of the application may fall
between any two steps.

## The system

| Component | Source | State | Operations | Model |
|---|---|---|---|---|
| Line discipline | `ush.c`, `ush_reset.c`, `ush_prompt.c`, `ush_read*.c`, `ush_parse*.c`, `ush_process.c`, `ush_write*.c` | `state`, `write_next_state`, `prompt_next_state`, `write_buf/size/pos`, `input_buffer`, `in_pos`, `out_pos`, `ansi_escape_state`, `args_count`, `escape_flag` | one step of `ush_service` per state, `ush_print`, `ush_reset` | `UshLine`, `UshTokens`, `CommandLine` |
| Formatted printing | `ush.c` | `output_buffer`, `write_size`, `write_pos` | `ush_printf`, `ush_print`, `ush_flush`, echo | `UshPrint` |
| Node tree | `ush_node*.c`, `ush_file.c`, `ush_commands.c` | `root`, `current_node`, `commands`; of each node `path`, `parent`, `children`, `next`, `file_list` | mount, unmount, set current directory, find by path or name, add and remove commands, reset, deinit | `UshNode`, `MountTable` |
| Path utilities | `ush_utils.c`, `ush_node.c` | none | collapse, levels, upper, last, join, absolute path, decoding of `\xNN` | `UshPaths` on characters, `UshNames` and `UshNode` on names, `UshDecode` |
| Autocompletion | `ush_autocomp*.c` | `autocomp_*`, `process_*`, and the line in `input_buffer` | cooperative search, longest common beginning, list of candidates | `UshAutocomp`, `UshLists`, `Completion` |
| Built-in commands | `commands/*.c` | `process_node`, `process_child_node`, `process_index`, `process_index_item`, `process_data` | `ls`, `help`, `cat`, `xxd`, `cd`, `pwd`, `echo` | `UshListing` (`ls`, `help`), `UshFiles` (`cat`, `xxd`, `echo` into a file), `UshEcho` (`echo`), `SetCurrentDir` of `UshNode` (`cd`); `pwd` only prints |
| Configuration, translations | `ush_config.h`, `ush_preconfig.h` | none | | not modelled |
| IO interface, application | `io->read`, `io->write`; the files of `examples/` | the memory of the devices | one byte in, one byte out; `get_data`, `set_data`, `exec` | the bytes typed and shown; the files of the demo programs in `UshFiles` |

How they interact: `ush_parse_finish` turns a line into arguments, finds a file
by name in the node tree and calls its `exec`; `exec` may start a process whose
callback `ush_service` then calls until it leaves for the prompt; everything
that is printed goes through `write_buf` and the state `WRITE_CHAR`, which
returns to `write_next_state`. The echo, `ush_printf` and the listings all
write into `output_buffer`. Autocompletion is a second machine beside this one,
entered by a tab: it uses the `process_*` fields of the commands for its search
and `input_buffer` for the candidate it tries, so the line being edited is its
working memory. A command that reads a file gets a pointer from the file's
`get_data` and keeps it over many calls.

What makes each part correct:

- *Line discipline*: what is run is what was typed. The buffer is edited,
  terminated, parsed in place and read back without a byte lost; the screen
  shows the buffer; the shell always comes back to reading.
- *Printing*: positions and counts agree with the string in the buffer, and
  nothing is written or sent from outside it.
- *Node tree*: the links form the tree the paths say; a search finds the node
  mounted at a path and the file of a path; the current directory is there.
- *Path utilities*: scans of characters from the front and from the end of a
  string agree on what its names are.
- *Commands*: a listing shows every row once and whole, whatever the
  application links and unlinks meanwhile; what echo stores is what was meant;
  `cat` and `xxd` show every byte of a file once, where it belongs.
- *Autocompletion*: a word becomes the longest beginning its candidates have in
  common, or they are listed; the line, its position and the screen agree again
  afterwards; nothing is written behind the buffer; the search ends.

## Modules

### `UshLine` - the line discipline

One action is one call of `ush_service` in one state, or one call of the
application between two of them. The variables are the fields of `struct
ush_object` they are named after, and four observers: `shown`, what the
terminal shows since the prompt; `entered`, the line a newline ended, until it
is parsed; `overrun`, whether the line has wrapped around the buffer; `argv`,
the arguments of the last command. Bytes are the ones the code tells apart, and
`"a"` for the others.

| Code | Actions |
|---|---|
| `ush_write_char` | `WriteByte`, `WriteEnd` |
| `ush_reset_service` | `ResetLine`, `ResetPrompt` |
| `ush_prompt_service` | `Prompt` |
| `ush_read_start` | `ReadStart` |
| `ush_read_char`, `ush_read_char_by_escape_state`, `ush_read_echo_service` | `ReadInterrupt`, `ReadBackspace`, `ReadEscape`, `ReadEscaped`, `ReadStore` |
| `ush_parse_start` | `ParseStart` |
| `ush_parse_char`, `ush_parse_char_standard` | `ParseStandard` |
| `ush_parse_char`, `ush_parse_finish`, `ush_parse_get_args` | `ParseNewline` |
| `ush_process_service` | `ProcessStep`, `ProcessEnd` |
| `ush_print`, `ush_print_no_newline`, `ush_reset` | `AppPrint` |

A byte read that is dropped (a tab, a backspace at the start of the line) and
an `io->write` or `io->read` that returns 0 leave every variable as it is: they
are stutters. A read past the input buffer returns any byte.

`CommandLine` is the abstract specification: a line that is edited, entered and
run once, with no buffer, positions, echo or escape states. The words of a line
are those of `UshTokens`, which says of the whole line at once where words
begin and end (an odd number of backslashes, an odd number of quotes); the
code's parser is a machine that reads one byte at a time and rewrites the
buffer it reads. `AbstractLine` and `AbstractPhase` are the refinement mapping,
`RefinesCommandLine` the refinement.

### `UshPrint` - formatted printing

The output buffer as lengths and positions. `touched` observes the least and
the greatest index the last call wrote; `end` says how the string in the buffer
ends: as text, in an error message forced into its end, or `"outside"`, when the
terminator was written behind the buffer. `PrintfFits`, `PrintfOverflows` and
`PrintfFails` are the outcomes of `ush_printf`: the text fits, is cut, or
`vsnprintf` reports an error behind any number of bytes; the last two say their
error message behind the string if `ErrorFits`, over the end of the buffer
otherwise (`SaysError`). `Echo`, `PrintText` and `Flush` are the other calls
that take or keep the buffer; `SendByte` and `SendEnd` are the writer. The byte
behind the buffer is taken to keep the terminator that went there; nothing is
promised of calls made after that, until an echo or a new message writes the
string anew.

### `UshNode` - the node tree

Paths are sequences of names, linked lists are sequences of nodes. Each action
is a whole call: `Mount` writes the node's path first and then fails, links the
node below its parent, or makes it the root; `Unmount`, `SetCurrentDir`,
`Reset`, `CommandsAdd`, `CommandsRemove` and `Deinit` are the others. The
searches (`GetByPath`, `GetParentByPath`, `AbsolutePath`, `FindByName`) follow
the code level by level and list by list. The contract of the application is
the guard `Free`: a node object is mounted only when it is in no list and is
not the current node; the code does not check it.

`MountTable` is the abstract specification: a function from paths to nodes,
closed under parents, and a working directory. `..` and `.` are resolved by
counting (`Survives` in `UshNames`), not by a stack. `Table` in `UshNode` is
the refinement mapping (the node mounted at a path is the one whose `path` field
says so) and `RefinesMountTable` the refinement. `Mounted`, the nodes in the
tree, is the least set that holds `root` and with a node its children.

### `UshPaths` - paths as characters

`UshNode` works on sequences of names. `UshPaths` has the functions of
`ush_utils.c` as the scans of characters they are: `LevelsCount`, `PathLevel`,
`PathUpper`, `PathLast`, `JoinPath`, the two states of
`ush_utils_get_collapse_path` (`SplitChar`) and its array of names, and
`AbsolutePath`. The loops are recursive functions of the number of characters
read, so that they can be proved about. Its actions type every path, one
character at a time; its specification is `PathSpec`, since one module proves
about this one and `UshPrint`. The reference is `NamesOf`, by positions: a name
begins (`Beginnings`) at a character that is no slash and follows none, and its
places (`PlacesOf`) are those with as many beginnings up to them. `UshNames`, the
module `MountTable` resolves names with, is the other half of it: what `UshPaths`
shows of characters is what `UshNode` takes for granted of names.

### `UshLists` - linked lists under a walk

Lists of nodes with explicit `next` pointers, a head for the children of the
current directory and one for the nodes of commands: `LinkFirst`
(`ush_node_mount`, `ush_commands_add`) and `UnlinkFrom` (`ush_node_unmount`,
`ush_commands_remove`). Unlinking leaves the node's own pointer as it was, which
is why a walk that stands on it goes on. `UshListing` and `UshAutocomp` extend
it.

### `UshListing` - the commands ls and help

The two commands whose process keeps pointers between calls of `ush_service`.
A service action prints one piece
(`LsStart`, `LsChildPiece`, `LsFile`, `HelpFile`) or moves to the next node or
phase (`LsChildNext`, `LsChildrenEnd`, `HelpNext`, `LsEnd`, `HelpEnd`). Between
any two of them the application links a node at the head of a list
(`Prepend`), unlinks one (`Unlink`), or ends the command by printing
(`PrintOver`).
Observers: `out`, the pieces printed since the command began; `stayed`, the
nodes in its list all that time; `left`, the nodes unlinked since. The contract
of the application is that a node in `left` is not linked again before the
command is over.

### `UshAutocomp` - autocompletion

The bytes of the input buffer, and of `NameMax` bytes of memory behind it, which
hold the value `OTHER` until somebody writes there. One action is one call of
`ush_service`, except that a string handed to the writer is on the terminal in
the same step (the writer is `UshLine`'s subject).

| Code | Actions |
|---|---|
| `ush_read_char` in its build with autocompletion | `Type`, `Backspace`, `Tab` |
| `ush_autocomp_state_prepare`, `ush_autocomp_state_candidates_start` | `Prepare`, `Start` |
| `ush_autocomp_check_for_next`, `ush_autocomp_check_for_finish`, `ush_autocomp_process_file_prepare` | `StageEnds`, `SearchEnds`, `NodeEnds` |
| `ush_autocomp_state_candidates_process`, `ush_autocomp_process_file_index`: a name looked at, counted, printed | `Skip`, `Count`, `EndRow`, `Pass` |
| `ush_autocomp_state_candidates_finish` after the first count | `FinishNone`, `FinishOne`, `FinishMany` |
| the same after a byte was tried, `ush_autocomp_optimize_continue` | `FinishDrop`, `FinishOptimise` |
| `ush_autocomp_state_recall_suffix`, `ush_autocomp_service` (print, prompt, recall) | `RecallSuffix`, `BeginPrint`, `FinishPrint`, `Prompt`, `Recall` |
| `ush_node_mount`/`unmount`, `ush_commands_add`/`remove`, `ush_print` | `Prepend`, `Unlink`, `PrintOver` |

Observers: `row`, what the terminal shows behind the prompt; `listed`, the rows
of candidates; `asked`, the line at the key press; `joined` and `gone`, the
nodes linked and unlinked since.

`Completion` is the abstract specification: there is no search, a tab is
answered in one step by the longest common beginning of the names offered that
begin with the word. While nothing is linked or unlinked that is what comes
out; otherwise the word may become any extension of itself out of what was
offered some time. `UshAutocomp` states the refinement, `RefinesCompletion`.

### `UshFiles` - cat, xxd, and the files of the demos

`found` are the files of mounted nodes and added commands, `dir` is the current
directory. `Find` is `ush_file_find_by_name`: a command of the name typed, or
else the file whose path the name has from the current directory; several files
may have one path, of which one is mounted at a time, as `ush_node_mount` sees
to (`Mount`). What a name and a directory make of a path is a constant
(`PathFrom`): `UshPaths` computes it. Each file has a kind, with the callbacks of the demo programs (`dev.c` and `etc.c` of
`demo_linux`, `DemoBasic.ino`): `null` swallows and is empty, `random` makes its
bytes at each call, `ram` is an array written by `memcpy`, `rom` an array that
is not written, `string` the host name, `led` a level shown as one of two
literals, `none` has neither callback. Entered commands are
`Cat`, `Xxd`, `EchoInto`, `SetLed` and `ToggleLed`; `ush_service` does
`CatStart`, `CatFile`, `WriteByte`, `WriteEnd`, `CatThrough`, `XxdStart`,
`XxdOffset`, `XxdHex`, `XxdText`, `XxdNewline`, `Finish`; the application changes bytes
(`Poke`), mounts and unmounts nodes and adds and removes commands (`Mount`,
`Unmount`), changes the directory (`SetDir`) and prints. It may do so between
any two steps of a command: nothing in the code forbids it. Observers: `out` and
`rows`, what has been shown; `got`, what each `get_data` returned at that moment,
and of which file; `poked`, the bytes changed behind a pointer since; `chosen`,
the files the command was accepted for; `moved`, the arguments whose file was
taken away since, hidden by a command added under its name, or named from
another directory than the current one.

`cat` looks for each file when it is entered and again at its turn, and calls
what it then finds without a look (`ush_cmd_cat.c:81-84`): `CatFile` ends in the
state `"FAULT"` when there is nothing, or nothing that can be read.
`CatFindsAgain` says exactly when: only for an argument in `moved`, and the
same for a file read in another's place.

One contract of the application is a guard. No more is written to an array than
it holds (`EchoInto`): the demo devices copy `size` bytes without asking.

### `UshDecode` and `UshEcho` - echo and its decoder

Bytes are numbers. `Decode` of `UshDecode` is `ush_utils_decode_ascii` on the
argument's own buffer; `UshFiles` writes files with it. In `UshEcho` an argument
is a sequence of units (a plain byte, an escaped one, `\xNN`) and possibly an
unfinished escape at its end; the four outcomes of the command are actions.

## Runs

| Run | Instance | Shows |
|---|---|---|
| `line_edit` | buffer of 4, the bytes of editing and a space, lines one after another, one message of the application, one step of a process | `TypeOK`; `ScreenShowsLine`; `TerminatedArgs`; the edited line implements `CommandLine`; `PromptNears`; liveness: `PromptReturns` |
| `line_parse` | buffer of 8, letters, spaces, quotes, backslashes and `x`, first line only | `ParserInBounds`, `UnreadIntact`; the arguments are the words of the line |
| `printf_buffer` | output buffer of 18, texts of 0, 1, 5 and 30, formats that fail behind them | `CountsText`, `SendsFromBuffer`, `WritesNearBuffer` |
| `printf_overrun` | as `printf_buffer`, output buffer of 22 | violation of `WritesInBuffer` |
| `mount` | 3 interchangeable nodes with the same files, 2 names, depth 2 | `TreeShape`, `FindsMounted`, `FindsFile`, `CdResolves`, `RefinesMountTable` |
| `current_lost` | as `mount` | violation of `CurrentSurvives` |
| `listing` | nodes linked and unlinked in two lists under `ls` and `help` | `RowsWhole`, `ListsOnce`, `ListsAll`, `KeepsLists`, `Advances`; liveness: `ListingEnds` |
| `paths` | every path of up to 8 characters, two current nodes | `ResolvesNames`, `SplitFits`, `LevelsAreParents` |
| `echo` | arguments of up to 3 units, every unfinished escape | `StoresMeant`, `PrintsMeantFirst` |
| `completion` | buffer of 6, lines of up to 2, names of up to 3, two nodes with files in two lists | `ScreenShowsLine`, `KeepsToBuffer`, `ListsCandidates`, `RefinesCompletion`, `TabAdvances`; liveness: `TabReturns` |
| `completion_bounds` | as `completion`, buffer of 4, lines of up to 3 | violation of `KeepsToBuffer` |
| `reading` | five devices of up to 3 bytes and a command, three names, two directories, rows of 2 columns, two files for `cat`, one byte changed during a command | `CatFindsAgain`, `CatShows`, `XxdShows`, `ReadsOn`; liveness: `ReadingEnds` |

Bounds and why they are enough:

- `InSize` 4 in `line_edit` is a line of three bytes: a line that is edited in
  its middle, one that fills the buffer, one that wraps and goes on, and one
  that wraps twice. `InSize` 8 in `line_parse` holds every combination of two
  words, quotes, an escape inside and outside quotes and an `\x` that grows by
  one byte; `FirstLine` stops a behaviour when the next line would begin, so
  the run is about parsing; lines that follow one another in one buffer are the
  subject of `line_edit`.
- `MaxWork` bounds the steps of one process callback and `MaxCalls` the calls
  of the application. Both are history-free: after one message in any state the
  machine is in a state it can be in without one.
- `Lengths` has a text that is empty, one that fits several times, one that
  fits but not after others, and one that never fits. 18 is between the lengths
  of the two error messages: the shorter one fits behind an empty string and one
  of a byte, which is the case that overruns, and the longer one begins in front
  of the buffer. 22 is longer than both.
- Three nodes and `MaxDepth` 2 give every shape a level search tells apart:
  chains, siblings in both orders, a node mounted again where another was. The
  nodes have the same files, so exchanging them is a symmetry (`Alike`).
- The nodes of `listing` are enough for a node unlinked at the pointer a
  command holds, before it and behind it, and for lists that exchange a node
  when no command runs; files with and without a description are both there.
- Eight characters are four names, or `..` and `.` among three, with single,
  doubled and trailing slashes in every place.
- Three units in `echo` put each way of writing a byte before and behind each
  other one; the digits include both letter cases and the byte 0.
- In `completion` the names `ab`, `aba`, `b`, `bb`, `a` begin alike, are
  beginnings of one another, and one is offered twice; with words of up to two
  letters there are none, one, or several candidates, with and without a common
  byte to try, and a byte that is tried and dropped. Two nodes are enough for a
  walk to lose the node it stands on, and the one behind it. `LineMax` +
  `NameMax` is below `InSize`, which the theorem says is what it takes.
- In `reading` devices of 0, 1, 2 and 3 bytes at two columns are an empty file, a
  row begun, a full row, and a full row with one begun behind it. Two files have
  one path, of which one is mounted at a time; one name is the path of a
  different file in either directory, and the name of a command that may be added:
  a search can come to each file it should, to another, or to none. `MaxArgs` 2 is
  a file, two, one twice, and one that is missing in either place; `MaxPokes` 1
  is enough to change a byte before, between and after the columns that show it.
- `VIEW Live` (in `MCUshAutocomp` and `MCUshFiles`) takes two states for one
  that differ only in variables which are written before they are read again:
  the fields of a search before its key press, the bytes behind the end of the
  line, the process of a command that is over. No property reads them there.

Fairness: `FairSpec` assumes weak fairness of `Service`, the steps
`ush_service` takes without input. It stands for a main loop that keeps calling
`ush_service`, an `io->write` that eventually takes a byte, and process
callbacks that end; the application does not print for ever (`MaxCalls`). No
fairness is assumed of what is typed: `PromptReturns` promises to come back to
reading, not that a line is entered. In `UshListing`, `UshAutocomp` and
`UshFiles` it is weak fairness of their `Service` again; the application may go on linking and unlinking for ever, and
`ListingEnds` and `TabReturns` hold nevertheless, since new nodes come in at the
head of a list, behind the pointer the walk holds, and a byte is tried only as
long as the last candidate is longer than the word. `PromptNears`, `Advances`,
`TabAdvances` and `ReadsOn` say so a step at a time: they give what is still to do
a rank, a tuple of naturals ordered by the first difference, which every call of
`ush_service` lowers until it reads again or the command ends. The application may
lower it or leave it, never raise it, but for a message that `ush_print` puts in
the way of a line, which `PromptNears` excepts (`calls`).

`paths`, `echo` and `reading` do not check deadlock: the first two stop when the
path is as long as the bound allows, or when the command has run, and the program
of the third behind a call through NULL. `ReadsOn` and `ReadingEnds` take that for
an end of the command (`Ended`); that it does not come otherwise is
`CatFindsAgain`.

## Findings

- *`current_lost`*: after `ush_node_unmount("/")`, which succeeds, `ush_reset`
  sets `current_node` to NULL, which `ush_service` asserts it is not.
- *`printf_overrun`*: `ush_printf` takes its error message to fit when there are
  as many bytes left as it has, without its terminator (`ush.c:157`, "Error
  message fits"). A conversion that fails (`test_func_print.c` has one) with
  exactly 17 bytes left therefore has `snprintf` write the terminator one byte
  behind the output buffer.
- *`completion_bounds`*: with one candidate the whole name is copied over the
  word with `strcpy`, which does not ask how long the input buffer is. A name
  that does not fit behind the line ends in the memory that follows.

Seen while modelling and not runs. `ush_init` accepts an input buffer of one
byte, in which the terminator of the wrap overwrites the newline the parser
looks for; two bytes are enough (`ParserStaysInBounds` needs `InSize > 1` and
nothing else). It accepts an output buffer of 4 bytes, shorter than the error
message whose index `ush_printf` then makes negative, by what the message is
longer (`WritesNearBuffer`); a buffer longer than the overflow message is enough
as long as no conversion fails (`PrintfWritesInBuffer`). `echo` decodes its
argument in place and prints the buffer as a string (`ush_cmd_echo.c:73`): the
decoded text is shorter than what it was decoded from, and the rest of that
follows it, so `echo "\x41"` shows `Ax41` where its help (`ush_cmd.c:121`) has
the decoded byte; written to a file, with its size, the data is right
(`StoresMeant`), and `PrintsMeantFirst` says that the decoded text is shown first.
`cat` calls through NULL when one of its files is unmounted, or the directory it was
named from left, before its turn (`CatFile`, `"FAULT"`). A row of `xxd` is formatted with
`sprintf`, and needs three bytes a column. `ush_utils_get_last_arg` does not look
at the first byte of a line of several (`ush_utils.c:208`), so a line that begins with
its only space is taken for one word, which matches nothing. The state
`AUTOCOMP_PROMPT_PREPARE` is never entered. The host name is set from the string
without its size, so writing `"\x41"` to it sets `Ax41`. A line that fills the input buffer loses its
first byte, so the command run has an empty name (the abstract `Run` says so);
after an overflow message the writer sends the terminator of the string, too
(`CountsText` stops there); a mount that fails leaves its path in the node; the
current directory can be unmounted, and another mounted at its path, and stays
current.

## Proofs

`UshLineProofs` proves, for every buffer size, every set of bytes and every
bound:

- `TypeCorrect`: `Spec => []TypeOK`.
- `LineInvariant`, for `InSize > 1`: the inductive invariant `IInv`. That the
  parser stays in bounds is not inductive: it holds because the newline is
  still in the buffer, which holds because the parser never writes at or after
  the position it reads, which holds because nothing it emits is longer than
  what it has read, *except* that `\x` emits two bytes for two. So `IInv` adds
  to the types: an edited line holds no newline and `in_pos` counts it
  (`EditedLine`); an entered line ends in one and is in the buffer
  (`EnteredLine`); what is not parsed yet is as it was typed (`UnparsedLine`);
  and `out_pos` is behind `in_pos`, by one more inside an escape
  (`ParserBehind`).
- `ParserStaysInBounds` and `UnreadStaysIntact` follow from it.

It goes on from there to `ArgumentsTerminated`
(`Spec => []TerminatedArgs`, for `InSize > 1`). The count of arguments grows
when one begins and a terminator is written when one ends, so the two differ by
one except while the parser looks for an argument; that an escape is never
pending then (`EscapeInArg`) is the strengthening, since a byte after a
backslash neither begins nor ends anything. Counting is by the cardinality of
the set of terminators: rewriting at `out_pos` only adds to it.

`ScreenShowsBuffer` (`NoNulTyped => (Spec => []ScreenShowsLine)`) is about the
moment a byte is awaited; the strengthening, `ShownInv`, says where the terminal
is in the middle of an echo: one byte behind the buffer while a byte is stored,
and at each of the three bytes that blank an erased one out. It needs no bound on
the screen but the model's own, since a line that has not wrapped is shorter than
the buffer. A NUL is stored without echo, which is why none may be typed.

Last it proves the refinement, `ImplementsCommandLine`
(`Spec => RefinesCommandLine`, for `InSize > 1` and `NoNulTyped`): whatever is
typed, a command is given exactly the words of the line that was entered.
`UshTokens` says of a whole line where its words are, by counting quotes and
backslashes; the parser reads it byte by byte and lays the words out over it.
The strengthening, `TokensInv`, is about the prefix the parser has read, of a
line that fits (`ParserFollows`): its state is `ModeOf` that prefix, its flag
says whether the next byte is escaped, its count is that of the words begun
(`WordsTo`), and there are positions (`Laid`) at which each of these words stands
in the buffer, the finished ones with their terminator behind them, the open one
as far as it is read. One byte more either skips a gap, closes a word, extends
it or starts one (`SkipGap`, `CloseWord`, `ExtendWord`, `StartWord`); at the
newline the words laid out are the words of the line (`AllHeld`), and
`GetArgsAre` shows, by induction over their number, that stepping over the
strings of the buffer finds them: the k-th follows the first k - 1 terminators,
since no word holds one, which is why no NUL may be typed (`TypedLine`). A line
that fills the buffer has lost its first byte and finds an empty word there
(`CutLine`), as the abstract `Run` says. Of the steps only four do anything to
the abstract line: a byte stored, a byte erased, the newline that runs it and
what ends it early.

`PromptNearsHolds` (`Spec => PromptNears`, for `InSize > 1`) is about the way
back to reading. Its rank is of the places the machine has still to pass, the
bytes to parse or the steps of the process at one of them, and the text to write
before the next. What is written is on the way to the state behind it (`Place`),
so a write changes only the last part; `PlaceInv`, the strengthening, says that no
write stands behind a write and that a prompt leads to reading. That the bytes to
parse are counted by a natural number is `ParserBehind` again, since the parser
stops at the newline the buffer holds.

`UtilityProofs` is about the two components that keep no state of a command,
`UshPrint` and `UshPaths`. Of the first it proves `PrintInvariant` for every output
buffer that `ush_init` accepts and every set of lengths, formats that fail
included, and from it `PrintfWritesNearBuffer` (`Spec => WritesNearBuffer`: how far
a call goes astray, in every buffer), `PrintfCountsText` and
`PrintfSendsFromBuffer`. The strengthening is that the string leaves room for its
terminator unless its end is outside, and what size and text are after an error
message was forced in. `PrintfWritesInBuffer` is about the behaviours in which no
conversion fails (`NextSound`) and a buffer longer than the overflow message:
there nothing is written outside it at all, since a text that is cut leaves a byte
less than any message needs. Its two hypotheses are what the run `printf_overrun`
and the negative index show to be needed.

Of the second it proves what the run `paths` checks of eight characters, for
paths of every length over every alphabet. The state is only what is typed
(`PathsTyped`); the work is an induction over the path, a character at a time
(`AppendInduction` of `Induction`), with one lemma per scan that says what one
more character does to it:

- `SplitFitsHolds` (`PathSpec => []SplitFits`), with no hypothesis. The levels
  and the names are both counted by slashes: `LevelCounts` relates the count of
  levels, which skips the first character, to the count of all, and
  `SplitCounts` says that a name begins only behind a slash.
- `ResolvesNamesHolds` (`PathSpec => []ResolvesNames`). `NamesGrow` says what one
  more character makes of the names that the positions define; `RegularSplits`
  that the two-state scan of a path without empty names ends with these names,
  and that the path is what they are written as. `PathsJoined` says that a
  relative path behind the current node's adds its names. What is left is to
  resolve names that are read one by one, which `ReadingKeepsSurvivors` of
  `Induction` says of any names: the stack holds those that a count says are never
  dropped. Its hypothesis is that every path in `Currents` is `Mountable`: it
  begins with a slash, has no two slashes in a row, and ends with one only if it is
  the root. It is what the current node's path is; a node with another path is
  outside the model of the tree as well.
- `LevelsAreParentsHolds` (`PathSpec => []LevelsAreParents`). `PathsInParts`
  carries two facts through the induction: every level is the path of so many
  names (`LevelsOf`), and the last slash has the names before the last in front
  of it and the last one behind (`LastSlashOf`).

`UshFilesProofs` proves, for all files, kinds, contents, arguments and columns:

- `FilesInvariant`: the types, for whatever is found.
- `CatFindsItsFiles` (`Spec => []CatFindsAgain`), with no contract of the
  application: `cat` reads for each argument the file it was accepted for, and
  never calls through NULL, but for the arguments in `moved`. `FindIs` says that a
  search comes to a file if it is there under the name (`Finds`), which for a file
  of a node needs that no command has the name and that a path is mounted once
  (`TreeInv`, kept because `ush_node_mount` refuses a mounted path). The
  strengthening, `ChosenInv`, says that every argument's own file is still found by
  its name unless it is in `moved`, and readable: a kind does not change. It is
  kept because what is neither unmounted, hidden nor left with its directory is
  found as before (`ChosenMoved`), whatever comes and goes beside it.
- `XxdInvariant` and from it `XxdShowsFile` (`Spec => []XxdShows`). The
  strengthening, `XxdInv`, says what is true in the middle of a dump: the rows
  before the last are whole and each begins where the one before ended; the
  last has the columns that `process_index` says it has; `process_index_item`
  is its offset, or the next one's once its text is done; and what a byte is
  now differs from what `get_data` gave only where it was changed since. The
  assumption `DecodedAssumption` says that the decoder makes bytes of the
  arguments; `DecodesBytes` of `UshEchoProofs` shows it of every argument that
  can be typed.
- `CatInvariant` and from it `CatShowsFiles` (`Spec => []CatShows`). The
  reference, `Given`, puts what the calls of `get_data` returned one behind the
  other, a recursion: `FlattenAppend` says that one more call appends to it. The
  strengthening, `CatInv`, says that `out` is its beginning, and in the middle of
  a file that the bytes the writer has still to read through its pointer are the
  last ones given, in order, each as it was given or changed since.
- `ReadsOnHolds` (`Spec => ReadsOn`). The rank of `cat` is of its files and the
  bytes of the one being written, that of `xxd` of the bytes behind the row and
  the columns of the row. `ReadingInv` says that none of these is below zero: the
  writer is not behind its data, `cat` not behind its files, and `xxd` begins no
  row behind the end. No file need be found for it, nor keep its bytes.

`UshEchoProofs` proves `StoresMeantHolds` (`Spec => []StoresMeant`) and
`PrintsMeantFirstHolds` (`Spec => []PrintsMeantFirst`), for every alphabet and
arguments of every length. `Turns` are the states of the decoder by the number of
bytes it has read. `InPlace` says that what it has written ends before what it
has still to read, so that each turn reads the byte that was typed (`Advance`);
`StateTurns` says what a turn does in each of its states, `UnitDecoded` that it
comes from one unit of the argument to the next with one more byte written, and
`TailDropped` that what breaks off writes nothing. The invariant, `EchoInv`,
speaks of every argument that begins with the units typed so far, since the end
of the buffer moves as the argument grows.

`UshAutocompProofs` proves `KeepsToItsBuffer` (`Spec => []KeepsToBuffer`) for
every set of names and nodes and every buffer with `LineMax + NameMax < InSize`
(`Fits`). The word begins within the line as typed (spaces are only typed, never
completed), a candidate is never longer than `NameMax`, `in_pos` is at the only
end of the line, and a byte is tried only while the word is shorter than the
candidate: `in_pos` therefore never wraps and the copy ends inside.
`completion_bounds` shows that without `Fits` it is not so.

It also proves `ScreenShowsTheLine` (`Spec => []ScreenShowsLine`)
under the same assumption. In the middle of a completion it is not true: the
bytes tried are in the buffer and not yet on the terminal. The strengthening,
`ScreenInv`, says which part is: the first `in_pos - suffix_len` bytes while a
byte is tried, and that the candidate copied over the word begins with it, so
that printing its rest makes terminal and buffer agree again.

The third theorem needs no such assumption: `ListsCandidatesHolds`
(`Spec => ListsCandidates`), whatever is in the buffer. The strengthening,
`ListingInv`, is about the search that prints. What is ahead of it in a list
(`Ahead`) is the walk from `process_node`, through nodes that are linked or were
unlinked since the key press; and every node that was linked all the time is
ahead or has its names listed (`CommandsAhead`, `ChildrenAhead`), as are the
files of the node looked at up to `process_index_item` (`FilesBegun`). A stage
ends with nothing ahead. `PrependChanges` and `UnlinkChanges` say that the
application takes at most the node it unlinks out of what is ahead (`Changed`).

The fourth theorem, `ImplementsCompletion` (`Spec => RefinesCompletion`, with
`Fits` again), says that the whole search is, for the line, the one step of
`Completion`. The editor's steps, a message printed over the line and every
change of the lists map to the abstract step of that name, whatever returns to
the editor to `Complete`, and all else to nothing. The strengthening,
`CompletionInv`, has four parts. `SplitInv`: the buffer holds the stem of the line
asked about, and the word begins where the stem ends (`LineSplits`). `WordInv`: the
last candidate counted is a name offered some time since the key press that
begins with the word as extended so far. `StepsInv`: while nothing was linked or
unlinked, `autocomp_count` is the number of offers that begin with the word and
are behind the search. An offer is a directory or the file of a node (`Slots`),
not a name: the code counts a name that two nodes offer twice, and this is why a
comparison of two counts, `Lost`, can tell that all still agree. `CountInv`: at
the end of a count it is the number of all of them, the count before was that of
the word without its last byte, and these were the offers that begin with the
word asked about. A count that did not fall therefore means the same offers
(`NoneLost`), a fallen one that a name does not have the byte (`DropCompletes`),
and the byte comes from a name that has it, so that what remains is the longest
common beginning: no candidate and one candidate are cases of their own
(`CompletedNone`, `CompletedAll`, `CompletedFront`). When nodes came or went the
counts mean nothing, and `WordInv` alone says that the word is the beginning of
a name offered meanwhile.

The fifth, `TabAdvancesHolds` (`Spec => TabAdvances`, with `Fits`), ranks a search
by its phases, the bytes that can still be tried, the stages of a count, the nodes
ahead of the pointer, the files of the node it is at and the pieces of a row. A
byte tried makes the search count all names again, but the word is longer then,
and `Fits` is why it is never longer than `NameMax` (`ExtendNearer`). Linking
adds nothing ahead and unlinking takes at most one node away (`Changed`);
`TabInv`, the strengthening, says that the search is never behind the files of
a node.

`UshListingProofs` proves `ListingInvariant`, and from it `RowsStayWhole`
(`Spec => []RowsWhole`), for all nodes, files and lists and with no condition on
the application. The strengthening, `ListingInv`, says for each command and
state which piece came last for each value of `process_index`, and that a row
of a file is at the slot of its description only when the file has one. Nothing
is said of the indices outside a command: each phase sets them before it uses
them.

It also proves what the application's changes of the lists do to a listing:

- `KeepsListsHolds` (`Spec => KeepsLists`), from the lemmas about linked lists
  in `Induction`.
- `OnceInvariant` and from it `ListsOnceHolds` (`Spec => []ListsOnce`) and
  `ListsAllHolds` (`Spec => ListsAll`). The strengthening, `OnceInv`, speaks of
  what is *ahead* of a command: the walk from the pointer it keeps. It leads
  through nodes that are linked or were unlinked under the command, of which only
  the first can be printed already; and every node that stayed is ahead or
  printed. Of a node linked meanwhile nothing ahead is changed, since it is in
  no list and the contract keeps the nodes in `left` out; unlinking takes at most
  that node out of what is ahead. For the files it says that those to
  `process_index_item` are printed and no other.
- `AdvancesHolds` (`Spec => Advances`). The rank counts the nodes ahead, so it is
  again walks that it is about: going to the next node takes one off
  (`NodesLeftIs`), linking adds a node behind the pointer, unlinking takes off
  one ahead or none. `ItemInv` says that `process_index_item` is never behind the
  files of the node a command is at.

`Induction` has induction over the numbers below a bound in a form that needs no
operator as a parameter: about the set of the numbers a formula holds of
(`SetInduction`, `IntervalInduction`), from the well-foundedness of `<` on `Nat`;
and that a recursive function over such an interval satisfies its equation
(`IsRecursive`, `IntervalRecursion`); with it, that `FlattenSeq` of one sequence
more appends it (`FlattenAppend`), and what `Min` and `Max` of a
set of numbers are (`MinIs`, `MaxIs`). The longest common beginning of a set of
sequences is one of them that begins all (`CommonIsOne`), or all but the last
element of what begins one and not another (`CommonIsFront`). Tuples of naturals
ordered by their first difference have no endless descent (`TuplesEnd`): by
induction over the places, a set of tuples has one that is smallest in the first
places, and among those that agree with it there is a smallest at the next.
`AppendInduction` is
induction over sequences that grow at the end, and `Reading`, `IsStack` and
`ReadingKeepsSurvivors` are about names read one by one, of which some take the one
before away; the tree and the paths share them. It also has the lemmas about linked
lists that listings and autocompletion share. `IsWalk` says that pointers lead
through a sequence of nodes and end; that counting steps from a pointer finds it
(`ListFromIs`) is an induction over the steps and the fact that a walk is no
longer than there are nodes. `LinkedWalk`, `UnlinkedWalk` and `WalkKept` say what
linking and unlinking do to any walk, be it from a head, from a pointer a command
or the search keeps or from a node that was unlinked; `LinkedLists` and
`UnlinkedLists` that of several separate lists one is changed as a sequence would
be and no other. The proofs about the line, files, echo, listings, completion, the
tree and the paths rest on this module.

`UshNodeProofs` proves, for all nodes, names, depths, file lists and relative
paths, and for every behaviour of the application within the contract `Free`:

- `TreeInvariant` (`Spec => []TreeInv`) and from it `TreeShapeHolds`. `TreeInv`
  is `TypeOK`, `TreeShape` and `MountedPaths`, the paths of mounted nodes being
  paths: a mount that fails writes its path into a node outside the tree and an
  unmounted one keeps its own, so nothing can be said of the others. Each call
  has a lemma of its own. What is reached from the root is defined as a least
  closed set, so that linking and unlinking move its closure by one node
  (`ReachBelow`, `ReachUnlinked`) without any induction over the depth.
- `FindsMountedHolds`. The search is a recursion over the levels of the path.
  `SearchDescends` says that the node found at one level is mounted and carries
  the beginning of the path; `SearchFinds`, by induction over the length of a
  node's path, that every mounted node is what the search for its path comes to,
  because a name is once among the children of its parent.
- `FindsFileHolds` (`ProperNames => (Spec => []FindsFile)`). The search goes on
  from the node of the parent path to its siblings, whose files it joins to
  *their* paths; that none of them makes up the path looked for is the tree
  shape again, and that `Collapse` leaves an absolute path alone needs
  `ProperNames`, that no name is `.` or `..`. The code does not check names: a
  file called `..` exists and is not found.

It also proves `ImplementsMountTable` (`Spec => RefinesMountTable`): the
initial state maps to the empty table, and every call maps to a step of the
table or to none. Mounting needs `FindsMounted` (a path is free in the table
exactly when the search finds nothing at it), unmounting that `children` is empty
exactly when nothing is mounted below, changing the directory
`CollapseResolves`: the code resolves `..` with a stack of names, the table keeps
the names that a count says are never dropped (`ReadingKeepsSurvivors`: the stack
is kept as the sequence of the positions that survive in what was read). The
same lemma gives `CdResolvesHolds` (`Spec => CdResolves`).

The assumptions are those of the modules (`LineAssumption`, `PrintAssumption`, `PathsAssumption`,
`FilesAssumption`, `LookupAssumption`, `DecodedAssumption`, `AutocompAssumption`,
`NodeAssumption`, `NodesAssumption`, `ListingAssumption`, `EchoAssumption`), which TLC
evaluates on every run, and the ones on sizes, names and paths said above.

Model-checked only: liveness (`PromptReturns`, `ListingEnds`, `TabReturns`,
`ReadingEnds`), which is out of the prover's reach. The argument is proved but for
its last step: that the line comes nearer to reading with every call
(`PromptNearsHolds`), and `ls` and `help` (`AdvancesHolds`), a search
(`TabAdvancesHolds`), `cat` and `xxd` (`ReadsOnHolds`) to their end, for data of
every size, and that no sequence of these ranks falls for ever (`RanksEnd`). That
`Service` can be called whenever something is left to do, and is by its fairness,
is what is left to the runs.
## Not modelled

- In `UshLine` the build with autocompletion: a tab is dropped there, as in the
  build without. `UshAutocomp` has that build's editor, without the escape
  states and the parser.
- The bytes of messages, colours, the host name and translations: one symbol.
- NUL bytes typed into a line: stored without echo by the code, left out of
  the runs about the screen and the words.
- Paths with empty names (`//`) in the node tree (`UshPaths` has them), and the
  fixed length of the path buffers.
- Words with a path in them under autocompletion: no name has a slash, so they
  have no candidates. Of two nodes' lists only the current directory's children
  and the commands change; the files of a node are constant (they are arrays of
  the application).
- The widths of the columns of listings. `xxd`'s bytes in hex are the bytes.
- The device of `demo_linux` that shows the time, whose length varies from call
  to call; the setup of terminals and serial ports in the examples.
- `cd` and `pwd` given a wrong number of arguments print a status, which is what
  `PrintOver` stands for.
- Node objects mounted twice, and the current directory mounted again after it was
  unmounted, which takes the working directory with it to its new path, even if the
  mount fails: the contract `Free`.
- The directory that `ls` lists being unmounted itself while it is listed: it has
  no children then, and the command keeps its pointer to the application's node.

## Plan

Done: the line discipline, printing, the node tree, paths, `ls`, `help`, `echo`,
autocompletion, `cat` and `xxd`, the most important behaviour first; every
invariant and every refinement that a run checks is proved. Next:

1. Composition: the linked lists of `UshLists` shown to implement the
   sequences of `UshNode`.
