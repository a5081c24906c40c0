------------------------------ MODULE UshFiles ------------------------------
(***************************************************************************)
(* Reading and writing files: the commands cat and xxd step by step, echo  *)
(* into a file, and the files of the demo programs behind them, each with  *)
(* its get_data and set_data.                                              *)
(*                                                                         *)
(* get_data returns a pointer: what is read through it later is the memory *)
(* as it then is, and the application may change it between two calls of   *)
(* ush_service.  cat hands the pointer to the writer, which reads it byte  *)
(* by byte; xxd keeps it and formats three strings a row from it.          *)
(*                                                                         *)
(* A file is found by the name that was typed: ush_file_find_by_name looks *)
(* for a command of that name, and then for a file with the path the name  *)
(* has from the current directory.  cat looks again at each file's turn.   *)
(***************************************************************************)
EXTENDS UshDecode

CONSTANTS
  Columns,   \* USH_CONFIG_CMD_XXD_COLUMNS
  HostMax,   \* SHELL_HOSTNAME_SIZE
  Files,     \* the files of the nodes and of the application's commands
  Commands,  \* the latter
  Typed,     \* the names typed
  Dirs,      \* the current directories
  PathOf,    \* the path of each file, or the name of a command
  PathFrom,  \* the path a typed name has from each directory
  Kind,      \* what is behind each of them
  Initially, \* the memory of each file, and of the literals a led returns
  Mounted,   \* the files that are there at first
  Home,      \* the directory that is current at first
  Bytes,     \* bytes the application and the random device make
  Arguments, \* the arguments given to echo
  Removable, \* the files the application takes away
  MaxArgs,   \* bound on the number of files given to cat
  MaxPokes   \* bound on the bytes the application changes during a command

Kinds  == {"null", "random", "ram", "rom", "string", "led", "none"}
Levels == {"high", "low"}
Missing == "missing"  \* NULL, where a file is looked for

ASSUME FilesAssumption ==
  /\ Columns \in Nat \ {0} /\ HostMax \in Nat /\ MaxArgs \in Nat
  /\ MaxPokes \in Nat /\ Removable \subseteq Files
  /\ Bytes \subseteq 0 .. 255
  /\ Kind \in [Files -> Kinds]
  /\ Initially \in [Files \cup Levels -> Seq(0 .. 255)]
  /\ Levels \cap Files = {} /\ Missing \notin Files

\* Of the files that are there no two have one path: a path is mounted once,
\* and commands have different names.
ASSUME LookupAssumption ==
  /\ Commands \subseteq Files /\ Mounted \subseteq Files /\ Home \in Dirs
  /\ DOMAIN PathOf = Files /\ \A d \in Dirs : DOMAIN PathFrom[d] = Typed
  /\ \A c \in Commands, e \in Commands : PathOf[c] = PathOf[e] => c = e
  /\ \A f \in Mounted \ Commands, g \in Mounted \ Commands : PathOf[f] = PathOf[g] => f = g

\* The decoder makes bytes of the arguments.
ASSUME DecodedAssumption ==
  \A argument \in Arguments :
    LET d == Decode(argument)
    IN  DataOf(d) \in Seq(0 .. 255) /\ StringIn(d.buf) \in Seq(0 .. 255)

VARIABLES
  memory,  \* the bytes of each place
  led,     \* the level of the led
  found,   \* the files of mounted nodes and added commands
  dir,     \* the directory of current_node
  state,   \* ush_object.state; "OTHER" when no process is served, "FAULT"
           \* behind a call through NULL
  command, \* process_file
  args,    \* the names of the files given to it
  status,  \* what the last command came to
  index,   \* process_index
  item,    \* process_index_item
  place,   \* where write_buf, or process_data, points to
  size,    \* write_size, or process_data_size
  pos,     \* write_pos
  out,     \* the bytes of files that cat has written
  rows,    \* the rows of xxd
  got,     \* what each get_data of the command returned, when it did
  poked,   \* the bytes the application changed since the command began
  chosen,  \* the files the command was accepted for
  moved    \* the arguments whose file the application has since taken away,
           \* hidden behind a command, or left with its directory

tree    == <<found, dir>>
process == <<command, args, index, item>>
reading == <<place, size, pos>>
choice  == <<chosen, moved>>
shown   == <<out, rows, got, poked, choice>>
vars    == <<memory, led, tree, state, process, status, reading, shown>>

(***************************************************************************)
(* ush_file_find_by_name.                                                  *)
(***************************************************************************)
CommandsNamed(name) == {c \in found \cap Commands : PathOf[c] = name}
FilesNamed(name)    == {f \in found \ Commands : PathOf[f] = PathFrom[dir][name]}

Find(name) == CASE CommandsNamed(name) # {} -> CHOOSE c \in CommandsNamed(name) : TRUE
                [] CommandsNamed(name) = {} /\ FilesNamed(name) # {} ->
                     CHOOSE f \in FilesNamed(name) : TRUE
                [] OTHER -> Missing

(***************************************************************************)
(* The files.  Which callbacks a file has depends on its kind.             *)
(***************************************************************************)
Readable(f) == f # Missing /\ Kind[f] # "none"
Writable(f) == Kind[f] \in {"null", "ram", "string", "led"}

\* The place get_data points to: the led's are two literals.
PlaceOf(f) == IF Kind[f] = "led" THEN led ELSE f

\* A random device makes its bytes when it is asked for them.
Memories(f) ==
  IF Kind[f] = "random"
  THEN {[memory EXCEPT ![f] = made] : made \in [DOMAIN memory[f] -> Bytes]}
  ELSE {memory}

SizeIn(m, f) == IF Kind[f] = "null" THEN 0 ELSE Len(m[PlaceOf(f)])

\* What get_data of a file returns in a step.
Returned(f) == [file |-> f, place |-> place', bytes |-> SubSeq(memory'[place'], 1, size')]

GetData(f) ==
  /\ memory' \in Memories(f)
  /\ place' = PlaceOf(f) /\ size' = SizeIn(memory', f) /\ pos' = 0
  /\ got' = Append(got, Returned(f))

\* memcpy does not ask how long the device is.
CopiedInto(f, data) == data \o SubSeq(memory[f], Len(data) + 1, Len(memory[f]))

Truncated(string) == IF Len(string) <= HostMax THEN string ELSE SubSeq(string, 1, HostMax)

\* The hostname is set from the string that begins with the data.
HostnameAfter(d) == Truncated(StringIn(d.buf))

\* The first byte switches the led: "1" or "0".
LedAfter(d) == CASE d.size >= 1 /\ d.buf[1] = 49 -> "high"
                 [] d.size >= 1 /\ d.buf[1] = 48 -> "low"
                 [] OTHER -> led

SetData(f, d) ==
  CASE Kind[f] = "null"   -> UNCHANGED <<memory, led>>
    [] Kind[f] = "ram"    -> /\ memory' = [memory EXCEPT ![f] = CopiedInto(f, DataOf(d))]
                             /\ UNCHANGED led
    [] Kind[f] = "string" -> /\ memory' = [memory EXCEPT ![f] = HostnameAfter(d)]
                             /\ UNCHANGED led
    [] Kind[f] = "led"    -> led' = LedAfter(d) /\ UNCHANGED memory

(***************************************************************************)
(* Commands begin.                                                         *)
(***************************************************************************)
\* Mutant: only the first file is looked for.
BadFirst(names) == {i \in DOMAIN names : i = 1 /\ ~Readable(Find(names[i]))}

Bad(names) == {i \in DOMAIN names : ~Readable(Find(names[i]))}

StatusOf(names) ==
  LET bad == Bad(names)
  IN  CASE names = << >> -> "WRONG_ARGUMENTS"
        [] names # << >> /\ bad = {} -> "OK"
        [] OTHER -> IF Find(names[Min(bad)]) = Missing THEN "FILE_NOT_FOUND" ELSE "FILE_NOT_READABLE"

Begins(name, names) ==
  /\ state' = "PROCESS_START"
  /\ command' = name /\ args' = names
  /\ out' = << >> /\ rows' = << >> /\ poked' = {}
  /\ chosen' = [i \in DOMAIN names |-> Find(names[i])] /\ moved' = {}

Refused == UNCHANGED <<memory, state, process, reading, shown>>

Cat(names) ==
  /\ state = "OTHER"
  /\ status' = StatusOf(names)
  /\ IF status' = "OK"
     THEN Begins("cat", names) /\ got' = << >> /\ UNCHANGED <<memory, index, item, reading>>
     ELSE Refused
  /\ UNCHANGED <<led, tree>>

\* xxd takes one file, and its data before it is served.
XxdGetsData(f) ==
  /\ memory' \in Memories(f)
  /\ place' = PlaceOf(f) /\ size' = SizeIn(memory', f)
  /\ got' = <<Returned(f)>>
  /\ UNCHANGED pos

Xxd(names) ==
  /\ state = "OTHER"
  /\ status' = IF Len(names) = 1 THEN StatusOf(names) ELSE "WRONG_ARGUMENTS"
  /\ IF status' = "OK"
     THEN Begins("xxd", names) /\ XxdGetsData(Find(names[1])) /\ UNCHANGED <<index, item>>
     ELSE Refused
  /\ UNCHANGED <<led, tree>>

\* echo <argument> > <file>.  The application's part: what is written to a
\* device made of an array is no longer than the array.
EchoInto(name, argument) ==
  /\ state = "OTHER"
  /\ LET f == Find(name)
     IN  /\ status' = CASE f = Missing -> "FILE_NOT_FOUND"
                        [] f # Missing /\ ~Writable(f) -> "FILE_NOT_WRITABLE"
                        [] OTHER -> "OK"
         /\ IF status' = "OK"
            THEN /\ Kind[f] = "ram" => Decode(argument).size <= Len(memory[f])
                 /\ SetData(f, Decode(argument))
            ELSE UNCHANGED <<memory, led>>
  /\ UNCHANGED <<tree, state, process, reading, shown>>

\* The executable files of the demo: set and toggle.
SetLed(argument) ==
  /\ state = "OTHER"
  /\ status' = IF argument \in {"0", "1"} THEN "OK" ELSE "WRONG_ARGUMENTS"
  /\ led' = CASE argument = "1" -> "high" [] argument = "0" -> "low" [] OTHER -> led
  /\ UNCHANGED <<memory, tree, state, process, reading, shown>>

ToggleLed ==
  /\ state = "OTHER"
  /\ status' = "OK"
  /\ led' = IF led = "high" THEN "low" ELSE "high"
  /\ UNCHANGED <<memory, tree, state, process, reading, shown>>

Ends == /\ state' = "OTHER"
        /\ out' = << >> /\ rows' = << >> /\ got' = << >> /\ poked' = {}
        /\ chosen' = << >> /\ moved' = {}

(***************************************************************************)
(* cat: each file is looked for again, and its data handed to the writer.  *)
(* What is found is called without a look.                                 *)
(***************************************************************************)
Serves(name, s) == command = name /\ state = s

CatStart ==
  /\ Serves("cat", "PROCESS_START")
  /\ item' = 1
  /\ state' = "PROCESS_SERVICE"
  /\ UNCHANGED <<memory, led, tree, command, args, index, status, reading, shown>>

\* Mutant: the file is not left.
ItemSame == item

ItemAfter == item + 1

CatFile ==
  /\ Serves("cat", "PROCESS_SERVICE") /\ item <= Len(args)
  /\ IF Readable(Find(args[item]))
     THEN /\ GetData(Find(args[item]))
          /\ item' = ItemAfter
          /\ state' = "WRITE_CHAR"
     ELSE /\ state' = "FAULT"
          /\ UNCHANGED <<memory, item, reading, got>>
  /\ UNCHANGED <<led, tree, command, args, index, status, out, rows, poked, choice>>

\* Mutant: the last byte is left.
WrittenEarly == pos + 1 >= size

Written == pos >= size

WriteByte ==
  /\ state = "WRITE_CHAR" /\ ~Written
  /\ out' = Append(out, memory[place][pos + 1])
  /\ pos' = pos + 1
  /\ UNCHANGED <<memory, led, tree, state, process, status, place, size, rows, got, poked, choice>>

WriteEnd ==
  /\ state = "WRITE_CHAR" /\ Written
  /\ state' = "PROCESS_SERVICE"
  /\ UNCHANGED <<memory, led, tree, process, status, reading, shown>>

CatThrough ==
  /\ Serves("cat", "PROCESS_SERVICE") /\ item > Len(args)
  /\ state' = "PROCESS_FINISH"
  /\ UNCHANGED <<memory, led, tree, process, status, reading, shown>>

Finish ==
  /\ state = "PROCESS_FINISH"
  /\ Ends
  /\ UNCHANGED <<memory, led, tree, process, status, reading>>

(***************************************************************************)
(* xxd: the offset, the bytes in hex, the bytes as text, and the newline   *)
(* of each row.  A byte behind the end is shown as spaces.                 *)
(***************************************************************************)
XxdServes(i) == Serves("xxd", "PROCESS_SERVICE") /\ index = i

XxdStart ==
  /\ Serves("xxd", "PROCESS_START")
  /\ index' = 0 /\ item' = 0
  /\ state' = "PROCESS_SERVICE"
  /\ UNCHANGED <<memory, led, tree, command, args, status, reading, shown>>

\* The columns that are shown in the row that begins at an offset, and the
\* bytes in them.
Cells(offset) == {col \in 1 .. Columns : offset + col <= size}
RowBytes(offset) == [col \in Cells(offset) |-> memory[place][offset + col]]

Dot == 46
Text(byte) == IF byte \in 32 .. 126 THEN byte ELSE Dot

XxdOffset ==
  /\ XxdServes(0)
  /\ rows' = Append(rows, [offset |-> item, hex |-> << >>, text |-> << >>])
  /\ index' = 1
  /\ UNCHANGED <<memory, led, tree, state, command, args, item, status, reading, out, got, poked, choice>>

XxdHex ==
  /\ XxdServes(1)
  /\ rows' = [rows EXCEPT ![Len(rows)].hex = RowBytes(item)]
  /\ index' = 2
  /\ UNCHANGED <<memory, led, tree, state, command, args, item, status, reading, out, got, poked, choice>>

TextOf(bytes) == [i \in DOMAIN bytes |-> Text(bytes[i])]

XxdText ==
  /\ XxdServes(2)
  /\ rows' = [rows EXCEPT ![Len(rows)].text = TextOf(RowBytes(item))]
  /\ item' = item + Columns
  /\ index' = 3
  /\ UNCHANGED <<memory, led, tree, state, command, args, status, reading, out, got, poked, choice>>

\* Mutants: an empty row behind the last full one; no next row.
ThroughLate == item > size
IndexKept == index

Through == item >= size
IndexOfRow == 0

XxdNewline ==
  /\ XxdServes(3)
  /\ IF Through THEN state' = "PROCESS_FINISH" /\ index' = index
                ELSE state' = state /\ index' = IndexOfRow
  /\ UNCHANGED <<memory, led, tree, command, args, item, status, reading, shown>>

(***************************************************************************)
(* The application.                                                        *)
(***************************************************************************)
Poke(f, i, byte) ==
  /\ Kind[f] = "ram" /\ i \in DOMAIN memory[f] /\ memory[f][i] # byte
  /\ state # "OTHER" => Cardinality(poked) < MaxPokes
  /\ memory' = [memory EXCEPT ![f][i] = byte]
  /\ poked' = IF state = "OTHER" THEN {} ELSE poked \cup {<<f, i>>}
  /\ UNCHANGED <<led, tree, state, process, status, reading, out, rows, got, choice>>

\* Nodes are unmounted, and commands removed.
Unmount(f) ==
  /\ f \in found \cap Removable
  /\ found' = found \ {f}
  /\ moved' = moved \cup {i \in DOMAIN chosen : chosen[i] = f}
  /\ UNCHANGED <<memory, led, dir, state, process, status, reading, out, rows, got, poked, chosen>>

\* ush_node_mount refuses a path that is mounted; a command is added in front.
Mount(f) ==
  /\ f \notin found
  /\ f \notin Commands => \A g \in found \ Commands : PathOf[g] # PathOf[f]
  /\ found' = found \cup {f}
  /\ moved' = moved \cup {i \in DOMAIN chosen : f \in Commands /\ args[i] = PathOf[f]}
  /\ UNCHANGED <<memory, led, dir, state, process, status, reading, out, rows, got, poked, chosen>>

\* ush_node_set_current_dir, by cd and by the application.
SetDir(d) ==
  /\ dir' = d
  /\ moved' = moved \cup {i \in DOMAIN chosen : PathFrom[d][args[i]] # PathFrom[dir][args[i]]}
  /\ UNCHANGED <<memory, led, found, state, process, status, reading, out, rows, got, poked, chosen>>

PrintOver ==
  /\ state # "OTHER"
  /\ Ends
  /\ UNCHANGED <<memory, led, tree, process, status, reading>>

Init ==
  /\ memory = Initially /\ led = "low" /\ found = Mounted /\ dir = Home
  /\ state = "OTHER" /\ command = "cat" /\ args = << >> /\ status = "OK"
  /\ index = 0 /\ item = 0
  /\ place = "low" /\ size = 0 /\ pos = 0
  /\ out = << >> /\ rows = << >> /\ got = << >> /\ poked = {}
  /\ chosen = << >> /\ moved = {}

Service == \/ CatStart \/ CatFile \/ WriteByte \/ WriteEnd \/ CatThrough \/ Finish
           \/ XxdStart \/ XxdOffset \/ XxdHex \/ XxdText \/ XxdNewline

Entered == \/ \E names \in SeqOf(Typed, MaxArgs) : Cat(names) \/ Xxd(names)
           \/ \E name \in Typed, argument \in Arguments : EchoInto(name, argument)
           \/ \E argument \in {"0", "1", "on"} : SetLed(argument)
           \/ ToggleLed

Application ==
  /\ state # "FAULT"
  /\ \/ \E f \in Files : \/ \E i \in DOMAIN memory[f], byte \in Bytes : Poke(f, i, byte)
                       \/ Unmount(f) \/ Mount(f)
     \/ \E d \in Dirs : SetDir(d)
     \/ PrintOver

Next == Service \/ Entered \/ Application

Spec == Init /\ [][Next]_vars
FairSpec == Spec /\ WF_vars(Service)

-----------------------------------------------------------------------------
\* The bytes that get_data gave, each with its place.
Given == FlattenSeq([k \in DOMAIN got |->
           [i \in DOMAIN got[k].bytes |-> <<got[k].place, i, got[k].bytes[i]>>]])

\* cat looks for its files when it is entered and again when it comes to each of
\* them.  What it reads for an argument is the file it was accepted for, and it
\* calls through NULL for none, while other files come and go under the same
\* paths: except for an argument whose own file was taken away meanwhile, hidden
\* by a new command of its name, or named relative to a directory that was left.
CatFindsAgain ==
  /\ \A k \in DOMAIN got : got[k].file = chosen[k] \/ k \in moved
  /\ state = "FAULT" => item \in moved

\* When cat is through it has written every file given to it, in order and
\* byte by byte, as get_data gave them: only bytes the application changed
\* behind the pointer may differ.  A device that makes its data at each call
\* is shown as it was made, and the led as one literal.
CatShows ==
  Serves("cat", "PROCESS_FINISH") =>
    /\ Len(got) = Len(args)
    /\ Len(out) = Len(Given)
    /\ \A i \in DOMAIN out : out[i] = Given[i][3] \/ <<Given[i][1], Given[i][2]>> \in poked

\* When xxd is through its rows show every byte of the file once, at its
\* offset, in both columns, in no more rows than there are bytes for; only
\* bytes the application changed may differ, between the columns too.
GivenAt(o) == got[1].bytes[o]
Changed(o) == <<got[1].place, o>> \in poked

RowShows(row) ==
  /\ DOMAIN row.hex = Cells(row.offset)
  /\ DOMAIN row.text = Cells(row.offset)
  /\ \A col \in DOMAIN row.hex :
       LET o == row.offset + col
       IN  \/ row.hex[col] = GivenAt(o) /\ row.text[col] = Text(GivenAt(o))
           \/ Changed(o)

XxdShows ==
  Serves("xxd", "PROCESS_FINISH") =>
    /\ rows # << >> /\ rows[1].offset = 0
    /\ \A k \in 2 .. Len(rows) : rows[k].offset = rows[k - 1].offset + Columns
    /\ \A k \in 1 .. Len(rows) : RowShows(rows[k])
    /\ rows[Len(rows)].offset + Columns >= size
    /\ size > 0 => rows[Len(rows)].offset < size
    /\ DOMAIN got[1].bytes = 1 .. size

\* The offset of the row xxd is at.
RowAt == IF index = 3 THEN item - Columns ELSE item

\* What a command has still before it: its phases, the files of cat or the bytes
\* behind the row of xxd, and the bytes or the columns of the one it is at.
Rank ==
  CASE state = "PROCESS_START"           -> <<2, 0, 0>>
    [] Serves("cat", "PROCESS_SERVICE")  -> <<1, Len(args) + 1 - item, 0>>
    [] state = "WRITE_CHAR"              -> <<1, Len(args) + 1 - item, 1 + size - pos>>
    [] Serves("xxd", "PROCESS_SERVICE")  -> <<1, size - RowAt, 3 - index>>
    [] state = "PROCESS_FINISH"          -> <<0, 0, 0>>

\* The order of ranks: by their first difference.
Below(r, s) == \E k \in 1 .. 3 : r[k] < s[k] /\ \A j \in 1 .. k - 1 : r[j] = s[j]

\* No process is served: there is none, or the program went through NULL.
Ended == state \in {"OTHER", "FAULT"}

\* Every call of ush_service that does not end a command brings its end nearer,
\* however large its files; what the application does with memory and files
\* meanwhile changes nothing the end depends on.
ReadsOn ==
  [][~Ended' =>
       /\ Rank' \in [1 .. 3 -> Nat]
       /\ state # "OTHER" => Below(Rank', Rank) \/ UNCHANGED <<state, process, reading>>]_vars

\* A command ends, however large its files, if ush_service goes on being
\* called; cat may end at a NULL, as CatFindsAgain says when.
ReadingEnds == ~Ended ~> Ended

=============================================================================
