--------------------------- MODULE UshFilesProofs ---------------------------
(***************************************************************************)
(* cat and xxd, for files of every length, every number of columns and     *)
(* every set of devices: cat reads the files it was accepted for and shows *)
(* all of them, and xxd shows each byte once.                              *)
(***************************************************************************)
EXTENDS UshFiles, SequenceTheorems, Induction, TLAPS

States == {"OTHER", "PROCESS_START", "PROCESS_SERVICE", "PROCESS_FINISH", "WRITE_CHAR", "FAULT"}
Places == Files \cup Levels

\* Types.
FilesInv ==
  /\ memory \in [Places -> Seq(0 .. 255)]
  /\ led \in Levels
  /\ found \subseteq Files
  /\ state \in States
  /\ command \in {"cat", "xxd"}
  /\ args \in Seq(Typed)
  /\ command = "xxd" => state # "WRITE_CHAR"
  /\ state \in {"PROCESS_SERVICE", "WRITE_CHAR"} /\ command = "cat" => item \in Nat \ {0}

\* A search ends with a file that is there, or with none.
LEMMA FindsFound ==
  ASSUME found \subseteq Files, NEW name
  PROVE  /\ Find(name) \in found \cup {Missing}
         /\ Readable(Find(name)) => Find(name) \in Files
<1>1. Find(name) \in found \cup {Missing}
  <2>1. CommandsNamed(name) \subseteq found /\ FilesNamed(name) \subseteq found
    BY DEF CommandsNamed, FilesNamed
  <2> QED BY <2>1 DEF Find
<1> QED BY <1>1 DEF Readable

\* A device's memory, written by its setter, made anew by its getter or changed
\* by the application, is bytes.
LEMMA SetDataTypes ==
  ASSUME FilesInv, NEW f \in Files, NEW argument \in Arguments, Writable(f), SetData(f, Decode(argument))
  PROVE  memory' \in [Places -> Seq(0 .. 255)] /\ led' \in Levels
<1> DEFINE d == Decode(argument)
<1>1. DataOf(d) \in Seq(0 .. 255) /\ StringIn(d.buf) \in Seq(0 .. 255)
  BY DecodedAssumption
<1>2. memory[f] \in Seq(0 .. 255)
  BY DEF FilesInv, Places
<1>3. CopiedInto(f, DataOf(d)) \in Seq(0 .. 255)
  <2> DEFINE data == DataOf(d)
             rest == SubSeq(memory[f], Len(data) + 1, Len(memory[f]))
  <2>1. data \in Seq(0 .. 255)
    BY <1>1
  <2> HIDE DEF data, d
  <2>2. rest \in Seq(0 .. 255)
    <3>1. Len(data) + 1 \in Int /\ Len(memory[f]) \in Int
      BY <1>2, <2>1
    <3>2. ASSUME NEW i \in Len(data) + 1 .. Len(memory[f]) PROVE memory[f][i] \in 0 .. 255
      <4>1. i \in 1 .. Len(memory[f])
        BY <1>2, <2>1, <3>1
      <4>2. QED
        BY ONLY <1>2, <4>1, ElementOfSeq
    <3>3. QED
      BY ONLY <3>1, <3>2, SubSeqProperties DEF rest
  <2> HIDE DEF rest
  <2>3. data \o rest \in Seq(0 .. 255)
    BY <2>1, <2>2, ConcatProperties
  <2> QED
    BY <2>3 DEF CopiedInto, data, rest
<1>4. HostnameAfter(d) \in Seq(0 .. 255)
  <2>1. HostMax \in Nat
    BY FilesAssumption
  <2> HIDE DEF d
  <2> QED
    BY <1>1, <2>1 DEF HostnameAfter, Truncated
<1>5. Kind[f] \in {"null", "ram", "string", "led"}
  BY DEF Writable
<1> HIDE DEF d
<1>6. SetData(f, d)
  BY DEF d
<1>7. CASE Kind[f] = "null"
  BY <1>6, <1>7 DEF SetData, FilesInv
<1>8. CASE Kind[f] = "ram"
  <2>1. memory' = [memory EXCEPT ![f] = CopiedInto(f, DataOf(d))] /\ UNCHANGED led
    BY <1>6, <1>8 DEF SetData
  <2> QED BY <1>3, <2>1 DEF FilesInv
<1>9. CASE Kind[f] = "string"
  <2>1. memory' = [memory EXCEPT ![f] = HostnameAfter(d)] /\ UNCHANGED led
    BY <1>6, <1>9 DEF SetData
  <2> QED BY <1>4, <2>1 DEF FilesInv
<1>10. CASE Kind[f] = "led"
  BY <1>6, <1>10 DEF SetData, LedAfter, FilesInv, Levels
<1> QED
  BY <1>5, <1>7, <1>8, <1>9, <1>10

LEMMA MemoriesTypes ==
  ASSUME FilesInv, NEW f \in Files, NEW m \in Memories(f)
  PROVE  m \in [Places -> Seq(0 .. 255)]
<1>1. memory[f] \in Seq(0 .. 255) /\ Bytes \subseteq 0 .. 255
  BY FilesAssumption DEF FilesInv, Places
<1>2. ASSUME NEW made \in [DOMAIN memory[f] -> Bytes]
      PROVE  made \in Seq(0 .. 255)
  <2> DEFINE Byte == 0 .. 255
  <2>1. DOMAIN memory[f] = 1 .. Len(memory[f]) /\ Len(memory[f]) \in Nat
    BY <1>1
  <2>2. made \in [1 .. Len(memory[f]) -> Byte]
    BY <1>1, <2>1
  <2> HIDE DEF Byte
  <2>3. made \in Seq(Byte)
    BY <2>1, <2>2, SeqDef
  <2> QED
    BY <2>3 DEF Byte
<1>3. CASE Kind[f] = "random"
  <2>1. PICK made \in [DOMAIN memory[f] -> Bytes] : m = [memory EXCEPT ![f] = made]
    BY <1>3 DEF Memories
  <2>2. made \in Seq(0 .. 255)
    BY <1>2
  <2>3. QED
    BY <2>1, <2>2 DEF FilesInv, Places
<1>4. CASE Kind[f] # "random"
  BY <1>4 DEF Memories, FilesInv
<1> QED
  BY <1>3, <1>4

\* A command is only begun for files that are found and readable.
LEMMA BegunForFiles ==
  ASSUME FilesInv, NEW names \in Seq(Typed), StatusOf(names) = "OK"
  PROVE  \A i \in DOMAIN names : Find(names[i]) \in Files /\ Readable(Find(names[i]))
  BY FindsFound DEF StatusOf, Bad, FilesInv

LEMMA NamesAreSequences ==
  ASSUME NEW names \in SeqOf(Typed, MaxArgs)
  PROVE  names \in Seq(Typed)
<1>1. MaxArgs \in Nat
  BY FilesAssumption
<1>2. PICK m \in 0 .. MaxArgs : names \in [1 .. m -> Typed]
  BY DEF SeqOf
<1> QED
  BY <1>1, <1>2, SeqDef

LEMMA FilesKept == FilesInv /\ [Next]_vars => FilesInv'
<1> SUFFICES ASSUME FilesInv, [Next]_vars PROVE FilesInv'
  OBVIOUS
<1> USE DEF FilesInv, States, process, reading, shown, tree, choice
<1>1. CASE UNCHANGED vars
  BY <1>1 DEF vars
<1>2. ASSUME NEW names \in SeqOf(Typed, MaxArgs), Cat(names) PROVE FilesInv'
  <2>1. names \in Seq(Typed)
    BY NamesAreSequences
  <2>2. CASE StatusOf(names) = "OK"
    BY <1>2, <2>1, <2>2 DEF Cat, Begins
  <2>3. CASE StatusOf(names) # "OK"
    BY <1>2, <2>3 DEF Cat, Refused
  <2> QED
    BY <2>2, <2>3
<1>3. ASSUME NEW names \in SeqOf(Typed, MaxArgs), Xxd(names) PROVE FilesInv'
  <2>1. names \in Seq(Typed)
    BY NamesAreSequences
  <2>2. CASE status' = "OK"
    <3>1. Len(names) = 1 /\ StatusOf(names) = "OK"
      BY <1>3, <2>2 DEF Xxd
    <3>2. Find(names[1]) \in Files
      BY <2>1, <3>1, BegunForFiles
    <3>3. memory' \in Memories(Find(names[1]))
      BY <1>3, <2>2 DEF Xxd, XxdGetsData
    <3>4. memory' \in [Places -> Seq(0 .. 255)]
      BY <3>2, <3>3, MemoriesTypes
    <3>5. QED
      BY <1>3, <2>1, <2>2, <3>4 DEF Xxd, Begins
  <2>3. CASE status' # "OK"
    BY <1>3, <2>3 DEF Xxd, Refused
  <2> QED
    BY <2>2, <2>3
<1>4. ASSUME NEW name \in Typed, NEW argument \in Arguments, EchoInto(name, argument)
      PROVE  FilesInv'
  <2>1. CASE status' = "OK"
    <3>1. Find(name) \in Files /\ Writable(Find(name)) /\ SetData(Find(name), Decode(argument))
      BY <1>4, <2>1, FindsFound DEF EchoInto
    <3>2. memory' \in [Places -> Seq(0 .. 255)] /\ led' \in Levels
      BY <3>1, SetDataTypes
    <3>3. QED
      BY <1>4, <3>2 DEF EchoInto
  <2>2. CASE status' # "OK"
    BY <1>4, <2>2 DEF EchoInto
  <2> QED
    BY <2>1, <2>2
<1>5. ASSUME NEW argument \in {"0", "1", "on"}, SetLed(argument) PROVE FilesInv'
  BY <1>5 DEF SetLed, Levels
<1>6. CASE ToggleLed
  BY <1>6 DEF ToggleLed, Levels
<1>7. CASE CatStart
  BY <1>7 DEF CatStart, Serves
<1>8. CASE CatFile
  <2>1. item \in Nat \ {0} /\ command = "cat"
    BY <1>8 DEF CatFile, Serves
  <2>2. CASE Readable(Find(args[item]))
    <3>1. memory' \in [Places -> Seq(0 .. 255)]
      BY <1>8, <2>2, FindsFound, MemoriesTypes DEF CatFile, GetData
    <3>2. QED
      BY <1>8, <2>1, <2>2, <3>1 DEF CatFile, Serves, ItemAfter
  <2>3. CASE ~Readable(Find(args[item]))
    BY <1>8, <2>1, <2>3 DEF CatFile, Serves
  <2> QED
    BY <2>2, <2>3
<1>9. CASE WriteByte \/ WriteEnd
  BY <1>9 DEF WriteByte, WriteEnd
<1>10. CASE CatThrough \/ Finish
  BY <1>10 DEF CatThrough, Finish, Serves, Ends
<1>11. CASE XxdStart
  BY <1>11 DEF XxdStart, Serves
<1>12. CASE XxdOffset \/ XxdHex \/ XxdText
  BY <1>12 DEF XxdOffset, XxdHex, XxdText, XxdServes, Serves
<1>13. CASE XxdNewline
  BY <1>13 DEF XxdNewline, XxdServes, Serves
<1>14. ASSUME NEW f \in Files, NEW i \in DOMAIN memory[f], NEW byte \in Bytes, Poke(f, i, byte)
       PROVE  FilesInv'
  <2>1. byte \in 0 .. 255 /\ memory[f] \in Seq(0 .. 255)
    BY FilesAssumption DEF Places
  <2>2. [memory[f] EXCEPT ![i] = byte] \in Seq(0 .. 255)
    BY <2>1
  <2>3. memory' = [memory EXCEPT ![f] = [memory[f] EXCEPT ![i] = byte]]
    BY <1>14 DEF Poke, Places
  <2>4. memory' \in [Places -> Seq(0 .. 255)]
    BY <2>2, <2>3 DEF Places
  <2>5. QED
    BY <1>14, <2>4 DEF Poke
<1>17. ASSUME NEW d \in Dirs, SetDir(d) PROVE FilesInv'
  BY <1>17 DEF SetDir
<1>15. ASSUME NEW f \in Files, Unmount(f) \/ Mount(f) PROVE FilesInv'
  <2>1. CASE Unmount(f)
    BY <2>1 DEF Unmount
  <2>2. CASE Mount(f)
    BY <2>2 DEF Mount
  <2> QED
    BY <1>15, <2>1, <2>2
<1>16. CASE PrintOver
  BY <1>16 DEF PrintOver, Ends
<1> QED
  BY <1>1, <1>2, <1>3, <1>4, <1>5, <1>6, <1>7, <1>8, <1>9, <1>10, <1>11, <1>12, <1>13, <1>14,
     <1>15, <1>16, <1>17 DEF Next, Service, Entered, Application

\* Types, in every reachable state.
THEOREM FilesInvariant == Spec => []FilesInv
<1>1. Init => FilesInv
  BY FilesAssumption, LookupAssumption DEF Init, FilesInv, States, Places, Levels
<1>2. QED
  BY <1>1, FilesKept, PTL DEF Spec

-----------------------------------------------------------------------------
(***************************************************************************)
(* xxd.  The rows are complete but for the last one, which has the columns *)
(* that process_index says; process_index_item is the offset it begins at, *)
(* and behind it once its text is printed.                                 *)
(***************************************************************************)
Columned == UNION {[S -> 0 .. 255] : S \in SUBSET Nat}
Rows     == [offset : Nat, hex : Columned, text : Columned]

\* What process_data points to is what get_data returned, but for the bytes
\* the application changed since.
DataStands ==
  /\ size \in Nat /\ place \in Places
  /\ got[1].place = place /\ DOMAIN got[1].bytes = 1 .. size
  /\ 1 .. size \subseteq DOMAIN memory[place]
  /\ \A o \in 1 .. size : memory[place][o] = GivenAt(o) \/ Changed(o)

HexShows(row) ==
  /\ DOMAIN row.hex = Cells(row.offset)
  /\ \A col \in Cells(row.offset) :
       row.hex[col] = GivenAt(row.offset + col) \/ Changed(row.offset + col)

LastRow == rows[Len(rows)]

\* The rows follow one another, none behind the end.
Chained ==
  /\ rows # << >> => rows[1].offset = 0
  /\ \A k \in 2 .. Len(rows) : rows[k].offset = rows[k - 1].offset + Columns
  /\ rows # << >> /\ size > 0 => LastRow.offset < size

AllShow == \A k \in 1 .. Len(rows) : RowShows(rows[k])
AllButLastShow == \A k \in 1 .. Len(rows) - 1 : RowShows(rows[k])

XxdAtOffset ==
  /\ AllShow
  /\ \/ rows = << >> /\ item = 0
     \/ rows # << >> /\ item = LastRow.offset + Columns /\ item < size

XxdInRow == rows # << >> /\ item = LastRow.offset /\ AllButLastShow

XxdBehindRow == rows # << >> /\ item = LastRow.offset + Columns /\ AllShow

XxdService ==
  /\ index \in 0 .. 3
  /\ index = 0 => XxdAtOffset
  /\ index = 1 => XxdInRow
  /\ index = 2 => XxdInRow /\ HexShows(LastRow)
  /\ index = 3 => XxdBehindRow

XxdInv ==
  command = "xxd" /\ state # "OTHER" =>
    /\ DataStands /\ rows \in Seq(Rows)
    /\ Chained
    /\ state = "PROCESS_START" => rows = << >>
    /\ state = "PROCESS_SERVICE" => item \in Nat /\ XxdService
    /\ state = "PROCESS_FINISH" => item \in Nat /\ XxdBehindRow /\ item >= size

\* What a row shows of the file still stands when the application changes a
\* byte: a byte changed may differ.
LEMMA RowsStand ==
  ASSUME UNCHANGED <<rows, got, size>>, poked \subseteq poked'
  PROVE  /\ AllShow => AllShow'
         /\ AllButLastShow => AllButLastShow'
         /\ HexShows(LastRow) => HexShows(LastRow)'
  BY DEF AllShow, AllButLastShow, RowShows, HexShows, LastRow, Cells, GivenAt, Changed

LEMMA XxdIsLeft ==
  ASSUME XxdInv, UNCHANGED <<rows, got, size, place, memory, item, index, poked, command>>,
         state' = state \/ state' = "OTHER"
  PROVE  XxdInv'
<1>1. DataStands => DataStands'
  BY DEF DataStands, GivenAt, Changed
<1> QED
  BY <1>1, RowsStand DEF XxdInv, Chained, XxdService, XxdAtOffset, XxdInRow, XxdBehindRow, LastRow

LEMMA PokeStands ==
  ASSUME FilesInv, XxdInv, command = "xxd", state # "OTHER",
         NEW f \in Files, NEW i \in DOMAIN memory[f], NEW byte \in Bytes, Poke(f, i, byte)
  PROVE  XxdInv'
<1>1. /\ memory' = [memory EXCEPT ![f][i] = byte]
      /\ poked' = poked \cup {<<f, i>>}
      /\ UNCHANGED <<rows, got, size, place, item, index, command, state>>
  BY DEF Poke, process, reading, shown, tree, choice
<1>2. DataStands /\ memory \in [Places -> Seq(0 .. 255)]
  BY DEF XxdInv, FilesInv
<1>3. DataStands'
  <2>1. DOMAIN memory'[place] = DOMAIN memory[place]
    BY <1>1, <1>2 DEF DataStands, Places
  <2>2. ASSUME NEW o \in 1 .. size PROVE memory'[place][o] = GivenAt(o)' \/ Changed(o)'
    <3>1. CASE place = f /\ o = i
      BY <1>1, <1>2, <3>1 DEF DataStands, Changed
    <3>2. CASE ~(place = f /\ o = i)
      <4>1. memory'[place][o] = memory[place][o]
        BY <1>1, <1>2, <3>2 DEF DataStands, Places
      <4>2. QED
        BY <1>1, <1>2, <4>1 DEF DataStands, GivenAt, Changed
    <3> QED
      BY <3>1, <3>2
  <2>3. QED
    BY <1>1, <1>2, <2>1, <2>2 DEF DataStands
<1>4. poked \subseteq poked'
  BY <1>1
<1> QED
  BY <1>1, <1>3, <1>4, RowsStand
  DEF XxdInv, Chained, XxdService, XxdAtOffset, XxdInRow, XxdBehindRow, LastRow

\* The callback has the data before the command is served.
LEMMA XxdBegins ==
  ASSUME FilesInv, NEW names \in Seq(Typed), Xxd(names), status' = "OK"
  PROVE  XxdInv'
<1>1. Len(names) = 1 /\ StatusOf(names) = "OK"
  BY DEF Xxd
<1>2. Find(names[1]) \in Files
  BY <1>1, BegunForFiles DEF FilesInv
<1> DEFINE f == Find(names[1])
<1>3. /\ memory' \in Memories(f)
      /\ place' = PlaceOf(f) /\ size' = SizeIn(memory', f)
      /\ got' = <<[file |-> f, place |-> place', bytes |-> SubSeq(memory'[place'], 1, size')]>>
      /\ state' = "PROCESS_START" /\ rows' = << >>
  BY DEF Xxd, XxdGetsData, Begins, Returned
<1> HIDE DEF f
<1>4. memory' \in [Places -> Seq(0 .. 255)]
  BY <1>2, <1>3, MemoriesTypes DEF f
<1>5. place' \in Places
  BY <1>2, <1>3 DEF PlaceOf, Places, FilesInv, f
<1>6. size' \in Nat /\ size' <= Len(memory'[place'])
  BY <1>3, <1>4, <1>5 DEF SizeIn
<1>7. memory'[place'] \in Seq(0 .. 255)
  BY <1>4, <1>5
<1> DEFINE m == memory'[place']
           n == size'
           bytes == SubSeq(m, 1, n)
<1>8. DOMAIN bytes = 1 .. n /\ \A o \in 1 .. n : bytes[o] = m[o]
  <2> HIDE DEF m, n
  <2>1. m \in Seq(0 .. 255) /\ n \in Nat /\ n <= Len(m)
    BY <1>6, <1>7 DEF m, n
  <2>2. QED
    BY <2>1, SubSeqProperties
<1>9. DataStands'
  <2>1. got'[1].place = place' /\ got'[1].bytes = bytes
    BY <1>3
  <2>2. 1 .. n \subseteq DOMAIN m
    BY <1>6, <1>7
  <2> HIDE DEF bytes
  <2>3. QED
    BY <1>5, <1>6, <1>8, <2>1, <2>2 DEF DataStands, GivenAt
<1> QED
  BY <1>3, <1>9 DEF XxdInv, Chained

\* The rows printed are completed one string at a time.
LEMMA OffsetPrinted ==
  ASSUME FilesInv, XxdInv, XxdOffset
  PROVE  XxdInv'
<1> DEFINE row == [offset |-> item, hex |-> << >>, text |-> << >>]
           n == Len(rows)
<1>1. /\ command = "xxd" /\ state = "PROCESS_SERVICE" /\ index = 0
      /\ rows' = Append(rows, row) /\ index' = 1
      /\ UNCHANGED <<memory, place, size, got, poked, item, state, command>>
  BY DEF XxdOffset, XxdServes, Serves, reading
<1>2. /\ DataStands /\ rows \in Seq(Rows) /\ Chained /\ XxdAtOffset /\ item \in Nat
  BY <1>1 DEF XxdInv, XxdService
<1>3. row \in Rows
  <2>1. << >> \in [{} -> 0 .. 255]
    OBVIOUS
  <2>2. << >> \in Columned
    BY <2>1 DEF Columned
  <2>3. QED
    BY <1>2, <2>2 DEF Rows
<1>4. /\ rows' \in Seq(Rows) /\ Len(rows') = n + 1 /\ n \in Nat
      /\ \A k \in 1 .. n : rows'[k] = rows[k]
      /\ rows'[n + 1].offset = item
  <2> HIDE DEF row
  <2>1. rows' = Append(rows, row) /\ rows \in Seq(Rows) /\ row \in Rows
    BY <1>1, <1>2, <1>3
  <2>2. /\ rows' \in Seq(Rows) /\ Len(rows') = n + 1 /\ n \in Nat
        /\ \A k \in 1 .. n : rows'[k] = rows[k]
        /\ rows'[n + 1] = row
    BY <2>1
  <2>3. QED
    BY <2>2 DEF row
<1> HIDE DEF row
<1>5. DataStands'
  BY <1>1, <1>2 DEF DataStands, GivenAt, Changed
<1>6. Chained'
  <2>1. CASE rows = << >> /\ item = 0
    BY <1>1, <1>4, <2>1 DEF Chained, LastRow
  <2>2. CASE rows # << >> /\ item = LastRow.offset + Columns /\ item < size
    BY <1>1, <1>2, <1>4, <2>2 DEF Chained, LastRow
  <2> QED
    BY <1>2, <2>1, <2>2 DEF XxdAtOffset
<1>7. AllButLastShow'
  BY <1>1, <1>2, <1>4 DEF XxdAtOffset, AllShow, AllButLastShow, RowShows, Cells, GivenAt, Changed
<1>8. XxdInRow'
  BY <1>1, <1>4, <1>7 DEF XxdInRow, LastRow
<1> QED
  BY <1>1, <1>2, <1>4, <1>5, <1>6, <1>8 DEF XxdInv, XxdService

\* Printing a string of the last row leaves the rows before it, and the chain,
\* as they are.
LEMMA RowsBefore ==
  ASSUME NEW n \in Nat, Len(rows) = n, Len(rows') = n, rows \in Seq(Rows), rows' \in Seq(Rows),
         UNCHANGED <<got, size, poked>>,
         \A k \in 1 .. n - 1 : rows'[k] = rows[k],
         n > 0 => rows'[n].offset = rows[n].offset
  PROVE  /\ Chained => Chained'
         /\ AllButLastShow => \A k \in 1 .. n - 1 : RowShows(rows[k])'
<1>1. ASSUME NEW k \in 1 .. n PROVE rows'[k].offset = rows[k].offset
  <2>1. CASE k = n
    BY <2>1
  <2>2. CASE k # n
    <3>1. k \in 1 .. n - 1
      BY <2>2
    <3>2. QED
      BY <3>1
  <2> QED
    BY <2>1, <2>2
<1>2. rows' # << >> <=> rows # << >>
  OBVIOUS
<1>3. ASSUME Chained PROVE Chained'
  <2>1. rows' # << >> => rows'[1].offset = 0
    BY <1>1, <1>2, <1>3 DEF Chained
  <2>2. ASSUME NEW k \in 2 .. n PROVE rows'[k].offset = rows'[k - 1].offset + Columns
    <3>1. k \in 1 .. n /\ k - 1 \in 1 .. n
      OBVIOUS
    <3>2. rows'[k].offset = rows[k].offset /\ rows'[k - 1].offset = rows[k - 1].offset
      BY <1>1, <3>1
    <3>3. QED
      BY <1>3, <3>2 DEF Chained
  <2>3. rows' # << >> /\ size' > 0 => rows'[n].offset < size'
    BY <1>1, <1>2, <1>3 DEF Chained, LastRow
  <2>4. QED
    BY <2>1, <2>2, <2>3 DEF Chained, LastRow
<1>4. ASSUME AllButLastShow, NEW k \in 1 .. n - 1 PROVE RowShows(rows[k])'
  <2>1. RowShows(rows[k]) /\ rows'[k] = rows[k]
    BY <1>4 DEF AllButLastShow
  <2>2. QED
    BY <2>1 DEF RowShows, Cells, GivenAt, Changed
<1> QED
  BY <1>3, <1>4

LEMMA HexPrinted ==
  ASSUME FilesInv, XxdInv, XxdHex
  PROVE  XxdInv'
<1> DEFINE n == Len(rows)
           bytes == RowBytes(item)
<1>1. /\ command = "xxd" /\ state = "PROCESS_SERVICE" /\ index = 1
      /\ rows' = [rows EXCEPT ![n].hex = bytes] /\ index' = 2
      /\ UNCHANGED <<memory, place, size, got, poked, item, state, command>>
  BY DEF XxdHex, XxdServes, Serves, reading
<1>2. /\ DataStands /\ rows \in Seq(Rows) /\ Chained /\ XxdInRow /\ item \in Nat
  BY <1>1 DEF XxdInv, XxdService
<1>3. n \in 1 .. Len(rows) /\ rows[n] \in Rows /\ rows[n].offset = item
  BY <1>2 DEF XxdInRow, LastRow
<1>4. /\ DOMAIN bytes = Cells(item) /\ Cells(item) \subseteq Nat
      /\ \A col \in Cells(item) : /\ bytes[col] = memory[place][item + col]
                                  /\ item + col \in 1 .. size
  BY <1>2, FilesAssumption DEF RowBytes, Cells, DataStands
<1>5. bytes \in Columned
  <2>1. memory[place] \in Seq(0 .. 255)
    BY <1>2 DEF FilesInv, DataStands
  <2>2. \A o \in 1 .. size : memory[place][o] \in 0 .. 255
    <3> TAKE o \in 1 .. size
    <3>1. o \in 1 .. Len(memory[place])
      BY <1>2, <2>1 DEF DataStands
    <3>2. QED
      BY ONLY <2>1, <3>1, ElementOfSeq
  <2>3. bytes \in [Cells(item) -> 0 .. 255]
    BY <1>4, <2>2 DEF RowBytes
  <2>4. QED
    BY <1>4, <2>3 DEF Columned
<1> HIDE DEF bytes
<1>6. /\ rows' \in Seq(Rows) /\ Len(rows') = n
      /\ \A k \in 1 .. n - 1 : rows'[k] = rows[k]
      /\ rows'[n] = [rows[n] EXCEPT !.hex = bytes]
  <2>1. [rows[n] EXCEPT !.hex = bytes] \in Rows
    BY <1>3, <1>5 DEF Rows
  <2>2. QED
    BY <1>1, <1>2, <1>3, <2>1
<1>7. rows'[n].offset = item /\ rows'[n].hex = bytes
  BY <1>3, <1>6 DEF Rows
<1>8. DataStands'
  BY <1>1, <1>2 DEF DataStands, GivenAt, Changed
<1>9. n \in Nat /\ rows'[n].offset = rows[n].offset
  BY <1>2, <1>3, <1>7
<1>10. Chained'
  BY <1>1, <1>2, <1>6, <1>9, RowsBefore
<1>11. AllButLastShow'
  <2>1. \A k \in 1 .. n - 1 : RowShows(rows[k])'
    BY <1>1, <1>2, <1>6, <1>9, RowsBefore DEF XxdInRow
  <2>2. QED
    BY <1>6, <2>1 DEF AllButLastShow
<1>12. HexShows(LastRow)'
  BY <1>1, <1>2, <1>4, <1>6, <1>7 DEF HexShows, LastRow, Cells, DataStands, GivenAt, Changed
<1>13. XxdInRow'
  BY <1>1, <1>3, <1>6, <1>7, <1>11 DEF XxdInRow, LastRow
<1> QED
  BY <1>1, <1>2, <1>6, <1>8, <1>10, <1>12, <1>13 DEF XxdInv, XxdService

LEMMA TextPrinted ==
  ASSUME FilesInv, XxdInv, XxdText
  PROVE  XxdInv'
<1> DEFINE n == Len(rows)
           bytes == RowBytes(item)
           text == TextOf(bytes)
<1>1. /\ command = "xxd" /\ state = "PROCESS_SERVICE" /\ index = 2
      /\ rows' = [rows EXCEPT ![n].text = text] /\ index' = 3
      /\ item' = item + Columns
      /\ UNCHANGED <<memory, place, size, got, poked, state, command>>
  BY DEF XxdText, XxdServes, Serves, reading
<1>2. /\ DataStands /\ rows \in Seq(Rows) /\ Chained /\ XxdInRow /\ item \in Nat
      /\ HexShows(LastRow)
  BY <1>1 DEF XxdInv, XxdService
<1>3. n \in 1 .. Len(rows) /\ rows[n] \in Rows /\ rows[n].offset = item
  BY <1>2 DEF XxdInRow, LastRow
<1>4. /\ DOMAIN text = Cells(item) /\ Cells(item) \subseteq Nat
      /\ \A col \in Cells(item) : /\ text[col] = Text(memory[place][item + col])
                                  /\ item + col \in 1 .. size
  BY <1>2, FilesAssumption DEF RowBytes, Cells, DataStands, TextOf
<1>5. text \in Columned
  <2>1. memory[place] \in Seq(0 .. 255)
    BY <1>2 DEF FilesInv, DataStands
  <2>2. \A o \in 1 .. size : memory[place][o] \in 0 .. 255
    <3> TAKE o \in 1 .. size
    <3>1. o \in 1 .. Len(memory[place])
      BY <1>2, <2>1 DEF DataStands
    <3>2. QED
      BY ONLY <2>1, <3>1, ElementOfSeq
  <2>3. \A col \in Cells(item) : text[col] \in 0 .. 255
    BY <1>4, <2>2 DEF Text, Dot
  <2>4. text = [col \in Cells(item) |-> text[col]]
    BY <1>4 DEF TextOf
  <2>5. text \in [Cells(item) -> 0 .. 255]
    BY <2>3, <2>4
  <2>6. QED
    BY <1>4, <2>5 DEF Columned
<1> HIDE DEF text, bytes
<1>6. /\ rows' \in Seq(Rows) /\ Len(rows') = n
      /\ \A k \in 1 .. n - 1 : rows'[k] = rows[k]
      /\ rows'[n] = [rows[n] EXCEPT !.text = text]
  <2>1. [rows[n] EXCEPT !.text = text] \in Rows
    BY <1>3, <1>5 DEF Rows
  <2>2. QED
    BY <1>1, <1>2, <1>3, <2>1
<1>7. rows'[n].offset = item /\ rows'[n].text = text /\ rows'[n].hex = rows[n].hex
  BY <1>3, <1>6 DEF Rows
<1>8. DataStands'
  BY <1>1, <1>2 DEF DataStands, GivenAt, Changed
<1>9. n \in Nat /\ rows'[n].offset = rows[n].offset
  BY <1>2, <1>3, <1>7
<1>10. Chained'
  BY <1>1, <1>2, <1>6, <1>9, RowsBefore
<1>11. RowShows(rows[n])'
  <2>1. DOMAIN rows'[n].hex = Cells(item) /\ DOMAIN rows'[n].text = Cells(item)
    BY <1>2, <1>3, <1>4, <1>7 DEF HexShows, LastRow
  <2>2. ASSUME NEW col \in Cells(item)
        PROVE  \/ /\ rows'[n].hex[col] = GivenAt(item + col)
                  /\ rows'[n].text[col] = Text(GivenAt(item + col))
               \/ Changed(item + col)
    BY <1>2, <1>3, <1>4, <1>7 DEF HexShows, LastRow, DataStands
  <2>3. QED
    BY <1>1, <1>6, <1>7, <2>1, <2>2 DEF RowShows, Cells, GivenAt, Changed
<1>12. AllShow'
  <2>1. \A k \in 1 .. n - 1 : RowShows(rows[k])'
    BY <1>1, <1>2, <1>6, <1>9, RowsBefore DEF XxdInRow
  <2>2. QED
    BY <1>3, <1>6, <1>11, <2>1 DEF AllShow
<1>13. XxdBehindRow'
  BY <1>1, <1>3, <1>6, <1>7, <1>12 DEF XxdBehindRow, LastRow
<1>14. item' \in Nat
  BY <1>1, <1>2, FilesAssumption
<1> QED
  BY <1>1, <1>2, <1>6, <1>8, <1>10, <1>13, <1>14 DEF XxdInv, XxdService

\* When xxd begins to be served it has no row, and its pointer at the start.
LEMMA StartKept ==
  ASSUME FilesInv, XxdInv, XxdStart
  PROVE  XxdInv'
<1>1. /\ command = "xxd" /\ state = "PROCESS_START"
      /\ command' = command /\ state' = "PROCESS_SERVICE" /\ index' = 0 /\ item' = 0
      /\ UNCHANGED <<memory, place, size, rows, got, poked>>
  BY DEF XxdStart, Serves, reading, shown
<1>2. DataStands /\ rows = << >> /\ Chained
  BY <1>1 DEF XxdInv
<1>3. DataStands'
  BY <1>1, <1>2 DEF DataStands, GivenAt, Changed
<1>4. rows' = << >> /\ rows' \in Seq(Rows) /\ Len(rows') = 0
  BY <1>1, <1>2
<1>5. Chained' /\ AllShow'
  BY <1>4 DEF Chained, AllShow
<1> QED
  BY <1>1, <1>3, <1>4, <1>5 DEF XxdInv, XxdService, XxdAtOffset

\* The newline ends the command behind the last byte, or begins a row.
LEMMA NewlineKept ==
  ASSUME FilesInv, XxdInv, XxdNewline
  PROVE  XxdInv'
<1>1. /\ command = "xxd" /\ state = "PROCESS_SERVICE" /\ index = 3
      /\ UNCHANGED <<command, memory, place, size, rows, got, poked, item>>
      /\ \/ item >= size /\ state' = "PROCESS_FINISH"
         \/ ~(item >= size) /\ state' = "PROCESS_SERVICE" /\ index' = 0
  BY DEF XxdNewline, XxdServes, Serves, reading, shown, Through, IndexOfRow
<1>2. DataStands /\ rows \in Seq(Rows) /\ Chained /\ XxdBehindRow /\ item \in Nat /\ size \in Nat
  BY <1>1 DEF XxdInv, XxdService, DataStands
<1>3. DataStands'
  BY <1>1, <1>2 DEF DataStands, GivenAt, Changed
<1>4. Chained'
  BY <1>1, <1>2 DEF Chained, LastRow
<1>5. XxdBehindRow' /\ AllShow'
  BY <1>1, <1>2, RowsStand DEF XxdBehindRow, LastRow
<1>6. CASE item >= size
  BY <1>1, <1>2, <1>3, <1>4, <1>5, <1>6 DEF XxdInv
<1>7. CASE ~(item >= size)
  <2>1. XxdAtOffset'
    BY <1>1, <1>2, <1>5, <1>7 DEF XxdAtOffset, XxdBehindRow, LastRow
  <2>2. QED
    BY <1>1, <1>2, <1>3, <1>4, <1>7, <2>1 DEF XxdInv, XxdService
<1> QED
  BY <1>6, <1>7

\* Every step keeps what xxd relies on: those of xxd as above, the others
\* because they are another command's or leave it alone.
LEMMA XxdKept == FilesInv /\ XxdInv /\ [Next]_vars => XxdInv'
<1> SUFFICES ASSUME FilesInv, XxdInv, [Next]_vars PROVE XxdInv'
  OBVIOUS
<1> USE DEF process, reading, shown, tree, choice
<1>1. CASE UNCHANGED vars
  BY <1>1, XxdIsLeft DEF vars
<1>2. ASSUME NEW names \in SeqOf(Typed, MaxArgs), Cat(names) PROVE XxdInv'
  <2>1. CASE StatusOf(names) = "OK"
    BY <1>2, <2>1 DEF Cat, Begins, XxdInv
  <2>2. CASE StatusOf(names) # "OK"
    BY <1>2, <2>2, XxdIsLeft DEF Cat, Refused
  <2> QED
    BY <2>1, <2>2
<1>3. ASSUME NEW names \in SeqOf(Typed, MaxArgs), Xxd(names) PROVE XxdInv'
  <2>1. CASE status' = "OK"
    BY <1>3, <2>1, NamesAreSequences, XxdBegins
  <2>2. CASE status' # "OK"
    BY <1>3, <2>2, XxdIsLeft DEF Xxd, Refused
  <2> QED
    BY <2>1, <2>2
<1>4. ASSUME NEW name \in Typed, NEW argument \in Arguments, EchoInto(name, argument)
      PROVE  XxdInv'
  BY <1>4 DEF EchoInto, XxdInv
<1>5. ASSUME NEW argument \in {"0", "1", "on"}, SetLed(argument) PROVE XxdInv'
  BY <1>5 DEF SetLed, XxdInv
<1>6. CASE ToggleLed
  BY <1>6 DEF ToggleLed, XxdInv
<1>7. CASE CatStart \/ CatFile \/ CatThrough
  BY <1>7 DEF CatStart, CatFile, CatThrough, Serves, XxdInv
<1>8. CASE WriteByte \/ WriteEnd
  BY <1>8 DEF WriteByte, WriteEnd, FilesInv, XxdInv
<1>9. CASE Finish \/ PrintOver
  BY <1>9 DEF Finish, PrintOver, Ends, XxdInv
<1>10. CASE XxdStart
  BY <1>10, StartKept
<1>11. CASE XxdOffset
  BY <1>11, OffsetPrinted
<1>12. CASE XxdHex
  BY <1>12, HexPrinted
<1>13. CASE XxdText
  BY <1>13, TextPrinted
<1>14. CASE XxdNewline
  BY <1>14, NewlineKept
<1>15. ASSUME NEW f \in Files, NEW i \in DOMAIN memory[f], NEW byte \in Bytes, Poke(f, i, byte)
       PROVE  XxdInv'
  <2>1. CASE command = "xxd" /\ state # "OTHER"
    BY <1>15, <2>1, PokeStands
  <2>2. CASE ~(command = "xxd" /\ state # "OTHER")
    BY <1>15, <2>2 DEF Poke, XxdInv
  <2> QED
    BY <2>1, <2>2
<1>16. ASSUME (\E f \in Files : Unmount(f) \/ Mount(f)) \/ \E d \in Dirs : SetDir(d) PROVE XxdInv'
  BY <1>16, XxdIsLeft DEF Unmount, Mount, SetDir
<1> QED
  BY <1>1, <1>2, <1>3, <1>4, <1>5, <1>6, <1>7, <1>8, <1>9, <1>10, <1>11, <1>12, <1>13, <1>14,
     <1>15, <1>16 DEF Next, Service, Entered, Application

\* The rows xxd has printed so far are right, in every reachable state.
THEOREM XxdInvariant == Spec => []XxdInv
<1>1. Init => XxdInv
  BY DEF Init, XxdInv
<1>2. QED
  BY <1>1, XxdKept, FilesInvariant, PTL DEF Spec

\* xxd shows every byte of the file once, at its offset, in both columns, for
\* files of every length and every number of columns.
THEOREM XxdShowsFile == Spec => []XxdShows
<1>1. XxdInv => XxdShows
  <2> SUFFICES ASSUME XxdInv, command = "xxd", state = "PROCESS_FINISH" PROVE XxdShows
    BY DEF XxdShows, Serves
  <2>1. DataStands /\ Chained /\ item \in Nat /\ XxdBehindRow /\ item >= size
    BY DEF XxdInv
  <2>2. QED
    BY <2>1 DEF XxdShows, DataStands, Chained, XxdBehindRow, AllShow, LastRow
<1>2. QED
  BY <1>1, XxdInvariant, PTL

-----------------------------------------------------------------------------
(***************************************************************************)
(* cat.  What the files gave is one sequence behind the other.             *)
(***************************************************************************)
\* What get_data returned once, byte by byte, and all that it returned.
Readings == [file : Files, place : Places, bytes : Seq(0 .. 255)]
Triples  == Places \X Nat \X (0 .. 255)
TriplesOf(r) == [i \in DOMAIN r.bytes |-> <<r.place, i, r.bytes[i]>>]

LEMMA TriplesTyped ==
  ASSUME NEW r \in Readings
  PROVE  TriplesOf(r) \in Seq(Triples) /\ Len(TriplesOf(r)) = Len(r.bytes)
<1>1. r.place \in Places /\ r.bytes \in Seq(0 .. 255)
  BY DEF Readings
<1>2. Len(r.bytes) \in Nat /\ DOMAIN r.bytes = 1 .. Len(r.bytes)
  BY ONLY <1>1, LenProperties
<1>3. \A i \in 1 .. Len(r.bytes) : <<r.place, i, r.bytes[i]>> \in Triples
  <2>1. \A i \in 1 .. Len(r.bytes) : r.bytes[i] \in 0 .. 255 /\ i \in Nat
    BY <1>1, <1>2, ElementOfSeq
  <2> QED BY <1>1, <2>1 DEF Triples
<1>4. TriplesOf(r) \in [1 .. Len(r.bytes) -> Triples]
  BY <1>2, <1>3 DEF TriplesOf
<1>5. TriplesOf(r) \in Seq(Triples)
  BY <1>2, <1>4, SeqDef
<1> QED BY <1>2, <1>4, <1>5

LEMMA GivenGrows ==
  ASSUME got \in Seq(Readings), NEW r \in Readings, got' = Append(got, r)
  PROVE  /\ Given \in Seq(Triples) /\ got' \in Seq(Readings) /\ Len(got') = Len(got) + 1
         /\ Given' = Given \o TriplesOf(r)
<1> DEFINE all == [k \in DOMAIN got |-> TriplesOf(got[k])]
<1>1. Given = FlattenSeq(all) /\ Given' = FlattenSeq([k \in DOMAIN got' |-> TriplesOf(got'[k])])
  BY DEF Given, TriplesOf
<1>2. /\ Len(got) \in Nat /\ DOMAIN got = 1 .. Len(got) /\ got' \in Seq(Readings)
      /\ Len(got') = Len(got) + 1 /\ DOMAIN got' = 1 .. Len(got) + 1
      /\ got'[Len(got) + 1] = r /\ \A k \in 1 .. Len(got) : got'[k] = got[k]
  BY AppendProperties, LenProperties
<1>3. \A k \in 1 .. Len(got) : TriplesOf(got[k]) \in Seq(Triples)
  BY ElementOfSeq, TriplesTyped
<1>4. all \in Seq(Seq(Triples)) /\ Len(all) = Len(got)
  <2>1. all \in [1 .. Len(got) -> Seq(Triples)]
    BY <1>2, <1>3
  <2>2. all \in Seq(Seq(Triples))
    BY <1>2, <2>1, SeqDef
  <2> QED BY <1>2, <2>1, <2>2
<1>5. [k \in DOMAIN got' |-> TriplesOf(got'[k])] = Append(all, TriplesOf(r))
  <2> DEFINE new == [k \in DOMAIN got' |-> TriplesOf(got'[k])]
  <2>1. \A k \in 1 .. Len(got) : k \in 1 .. Len(got) + 1 /\ new[k] = all[k]
    BY <1>2
  <2>2. Len(got) + 1 \in 1 .. Len(got) + 1 /\ new[Len(got) + 1] = TriplesOf(r)
    BY <1>2
  <2>3. TriplesOf(r) \in Seq(Triples)
    BY TriplesTyped
  <2>4. /\ Append(all, TriplesOf(r)) \in Seq(Seq(Triples)) /\ Len(Append(all, TriplesOf(r))) = Len(got) + 1
        /\ Append(all, TriplesOf(r))[Len(got) + 1] = TriplesOf(r)
        /\ \A k \in 1 .. Len(got) : Append(all, TriplesOf(r))[k] = all[k]
    <3> HIDE DEF all
    <3> QED BY <1>4, <2>3, AppendProperties
  <2>5. \A k \in 1 .. Len(got) + 1 : k \in 1 .. Len(got) \/ k = Len(got) + 1
    BY <1>2
  <2>6. new = [k \in 1 .. Len(got) + 1 |-> new[k]]
    BY <1>2
  <2> HIDE DEF new, all
  <2>7. Append(all, TriplesOf(r)) = [k \in 1 .. Len(got) + 1 |-> Append(all, TriplesOf(r))[k]]
    BY <2>4, LenProperties
  <2>8. \A k \in 1 .. Len(got) + 1 : new[k] = Append(all, TriplesOf(r))[k]
    BY <2>1, <2>2, <2>4, <2>5
  <2>9. new = Append(all, TriplesOf(r))
    BY <2>6, <2>7, <2>8
  <2> QED BY <2>9 DEF new
<1> HIDE DEF all
<1>6. TriplesOf(r) \in Seq(Triples)
  BY TriplesTyped
<1> QED BY <1>1, <1>2, <1>4, <1>5, <1>6, FlattenAppend

-----------------------------------------------------------------------------
\* What is on the terminal is the beginning of what the files gave, but for
\* bytes changed since.
OutStands ==
  /\ Len(out) <= Len(Given)
  /\ \A i \in 1 .. Len(out) : out[i] = Given[i][3] \/ <<Given[i][1], Given[i][2]>> \in poked

\* While the writer is at a byte of a file, the bytes it has still to write
\* are the last ones given, and stand in the memory of the file as they were
\* given or were changed since.
CatWriting ==
  /\ size \in Nat /\ pos \in 0 .. size
  /\ place \in Places /\ 1 .. size \subseteq DOMAIN memory[place]
  /\ Len(Given) = Len(out) + (size - pos)
  /\ \A i \in pos + 1 .. size :
       /\ Given[Len(out) - pos + i] = <<place, i, Given[Len(out) - pos + i][3]>>
       /\ memory[place][i] = Given[Len(out) - pos + i][3] \/ <<place, i>> \in poked

CatInv ==
  command = "cat" /\ state # "OTHER" =>
    /\ got \in Seq(Readings) /\ out \in Seq(0 .. 255)
    /\ Given \in Seq(Triples) /\ OutStands
    /\ state = "PROCESS_START" => got = << >> /\ Len(Given) = Len(out)
    /\ state \in {"PROCESS_SERVICE", "WRITE_CHAR"} => Len(got) = item - 1 /\ Len(got) <= Len(args)
    /\ state \in {"PROCESS_SERVICE", "PROCESS_FINISH"} => Len(Given) = Len(out)
    /\ state = "PROCESS_FINISH" => Len(got) = Len(args)
    /\ state = "WRITE_CHAR" => CatWriting

\* A byte of an array that the application changes is one that may differ.
LEMMA CatPoked ==
  ASSUME FilesInv, CatInv, command = "cat", state # "OTHER",
         NEW f \in Files, NEW i \in DOMAIN memory[f], NEW byte \in Bytes, Poke(f, i, byte)
  PROVE  CatInv'
<1>1. /\ memory' = [memory EXCEPT ![f][i] = byte]
      /\ poked' = poked \cup {<<f, i>>}
      /\ UNCHANGED <<out, got, size, place, pos, item, args, command, state>>
  BY DEF Poke, process, reading
<1>2. Given' = Given
  BY <1>1 DEF Given
<1>3. OutStands => OutStands'
  BY <1>1, <1>2 DEF OutStands
<1>4. ASSUME CatWriting PROVE CatWriting'
  <2>1. memory \in [Places -> Seq(0 .. 255)] /\ f \in Places
    BY DEF FilesInv, Places
  <2>2. DOMAIN memory'[place] = DOMAIN memory[place]
    BY <1>1, <1>4, <2>1 DEF CatWriting
  <2>3. \A k : memory'[place][k] = memory[place][k] \/ (place = f /\ k = i)
    BY <1>1, <1>4, <2>1 DEF CatWriting
  <2>4. ASSUME NEW k \in pos + 1 .. size
        PROVE  memory'[place][k] = Given[Len(out) - pos + k][3] \/ <<place, k>> \in poked'
    <3>1. memory[place][k] = Given[Len(out) - pos + k][3] \/ <<place, k>> \in poked
      BY <1>4 DEF CatWriting
    <3> QED BY <1>1, <2>3, <3>1
  <2> QED BY <1>1, <1>2, <1>4, <2>2, <2>4 DEF CatWriting
<1> QED BY <1>1, <1>2, <1>3, <1>4 DEF CatInv

\* What changes neither the files' bytes nor what cat wrote.
LEMMA CatIsLeft ==
  ASSUME CatInv, UNCHANGED <<out, got, size, place, pos, memory, item, args, poked, command>>,
         state' = state \/ state' = "OTHER"
  PROVE  CatInv'
<1>1. Given' = Given
  BY DEF Given
<1>2. OutStands => OutStands'
  BY <1>1 DEF OutStands
<1>3. CatWriting => CatWriting'
  BY <1>1 DEF CatWriting
<1> QED BY <1>1, <1>2, <1>3 DEF CatInv

LEMMA NothingGiven ==
  ASSUME got = << >>
  PROVE  got \in Seq(Readings) /\ Given = << >> /\ Given \in Seq(Triples)
<1>1. [k \in DOMAIN got |-> [i \in DOMAIN got[k].bytes |-> <<got[k].place, i, got[k].bytes[i]>>]] = << >>
  OBVIOUS
<1>2. Given = FlattenSeq(<< >>)
  BY <1>1 DEF Given
<1>3. FlattenSeq(<< >>) = << >>
  BY DEF FlattenSeq
<1>4. << >> \in Seq(Readings) /\ << >> \in Seq(Triples)
  OBVIOUS
<1>5. Given = << >>
  BY <1>2, <1>3
<1> QED BY <1>4, <1>5

LEMMA CatBegins ==
  ASSUME out' = << >>, got' = << >>, poked' = {}, command' = "cat", state' = "PROCESS_START"
  PROVE  CatInv'
<1>1. (got = << >> => got \in Seq(Readings) /\ Given = << >> /\ Given \in Seq(Triples))'
  BY NothingGiven, PTL
<1>2. Len(Given') = 0 /\ Len(out') = 0
  BY <1>1
<1> QED BY <1>1, <1>2 DEF CatInv, OutStands

\* The data of the next file is given behind that of those before.
LEMMA CatFileKept ==
  ASSUME FilesInv, CatInv, CatFile, Readable(Find(args[item]))
  PROVE  CatInv'
<1> DEFINE f == Find(args[item])
           r == [file |-> f, place |-> place', bytes |-> SubSeq(memory'[place'], 1, size')]
           n == Len(Given)
<1>1. /\ command = "cat" /\ state = "PROCESS_SERVICE" /\ item <= Len(args)
      /\ memory' \in Memories(f)
      /\ place' = PlaceOf(f) /\ size' = SizeIn(memory', f) /\ pos' = 0
      /\ got' = Append(got, r)
      /\ item' = item + 1 /\ state' = "WRITE_CHAR"
      /\ UNCHANGED <<command, args, out, poked>>
  BY DEF CatFile, Serves, GetData, ItemAfter, Returned
<1>2. /\ got \in Seq(Readings) /\ out \in Seq(0 .. 255) /\ OutStands
      /\ Given \in Seq(Triples) /\ Len(Given) = Len(out)
      /\ Len(got) = item - 1 /\ item \in Nat \ {0} /\ args \in Seq(Typed)
  BY <1>1 DEF CatInv, FilesInv
<1>3. f \in Files
  BY FindsFound DEF FilesInv
<1>4. memory' \in [Places -> Seq(0 .. 255)]
  BY <1>1, <1>3, MemoriesTypes
<1>5. place' \in Places
  BY <1>1, <1>3 DEF PlaceOf, Places, FilesInv
<1>6. size' \in Nat /\ size' <= Len(memory'[place']) /\ memory'[place'] \in Seq(0 .. 255)
  BY <1>1, <1>4, <1>5 DEF SizeIn
<1> DEFINE m == memory'[place']
           bytes == SubSeq(m, 1, size')
<1>7. bytes \in Seq(0 .. 255) /\ Len(bytes) = size' /\ \A i \in 1 .. size' : bytes[i] = m[i]
  <2> HIDE DEF m
  <2>1. m \in Seq(0 .. 255) /\ size' \in Nat /\ size' <= Len(m)
    BY <1>6 DEF m
  <2> QED BY ONLY <2>1, FirstOfSeq DEF bytes
<1> HIDE DEF m, bytes, f
<1>8. r = [file |-> f, place |-> place', bytes |-> bytes] /\ r \in Readings
  BY <1>3, <1>5, <1>7 DEF Readings, bytes, m
<1> HIDE DEF r
<1>9. /\ got' \in Seq(Readings) /\ Len(got') = Len(got) + 1 /\ Given' = Given \o TriplesOf(r)
  BY <1>1, <1>2, <1>8, GivenGrows
<1>10. /\ TriplesOf(r) \in Seq(Triples) /\ Len(TriplesOf(r)) = size'
       /\ \A i \in 1 .. size' : TriplesOf(r)[i] = <<place', i, m[i]>>
  <2>1. TriplesOf(r) \in Seq(Triples) /\ Len(TriplesOf(r)) = size'
    BY <1>7, <1>8, TriplesTyped
  <2>2. DOMAIN bytes = 1 .. size'
    BY <1>7, LenProperties
  <2> QED BY <1>7, <1>8, <2>1, <2>2 DEF TriplesOf
<1>11. /\ Given' \in Seq(Triples) /\ Len(Given') = n + size' /\ n \in Nat
       /\ \A i \in 1 .. n : Given'[i] = Given[i]
       /\ \A i \in 1 .. size' : Given'[n + i] = <<place', i, m[i]>>
  <2> DEFINE before == Given
             behind == TriplesOf(r)
  <2>1. before \in Seq(Triples) /\ behind \in Seq(Triples) /\ Given' = before \o behind
    BY <1>2, <1>9, <1>10
  <2> HIDE DEF before, behind
  <2>2. /\ before \o behind \in Seq(Triples) /\ Len(before) \in Nat
        /\ Len(before \o behind) = Len(before) + Len(behind)
        /\ \A i \in 1 .. Len(before) : (before \o behind)[i] = before[i]
        /\ \A i \in 1 .. Len(behind) : (before \o behind)[Len(before) + i] = behind[i]
    BY ONLY <2>1, Joined
  <2>3. n = Len(before) /\ Len(behind) = size' /\ before = Given
        /\ \A i \in 1 .. size' : behind[i] = <<place', i, m[i]>>
    BY <1>10 DEF before, behind
  <2> HIDE DEF n
  <2> QED BY <2>1, <2>2, <2>3
<1> HIDE DEF n
<1>12. OutStands'
  <2>1. Len(out') <= Len(Given')
    BY <1>1, <1>2, <1>6, <1>11 DEF n
  <2> QED BY <1>1, <1>2, <1>11, <2>1 DEF OutStands, n
<1>13. CatWriting'
  <2>1. Len(Given') = Len(out') + (size' - pos') /\ pos' \in 0 .. size' /\ Len(out') = n /\ pos' = 0
    BY <1>1, <1>2, <1>6, <1>11 DEF n
  <2>2. 1 .. size' \subseteq DOMAIN m
    BY <1>6 DEF m
  <2>3. ASSUME NEW i \in 0 + 1 .. size'
        PROVE  /\ Given'[n - 0 + i] = <<place', i, Given'[n - 0 + i][3]>>
               /\ m[i] = Given'[n - 0 + i][3]
    <3>1. i \in 1 .. size' /\ n - 0 + i = n + i
      BY <1>11
    <3> QED BY <1>11, <3>1
  <2> QED BY <1>5, <1>6, <2>1, <2>2, <2>3 DEF CatWriting, m
<1> QED BY <1>1, <1>2, <1>9, <1>11, <1>12, <1>13 DEF CatInv

\* The next byte written is the next one given.
LEMMA WriteByteKept ==
  ASSUME FilesInv, CatInv, WriteByte, command = "cat"
  PROVE  CatInv'
<1>1. /\ state = "WRITE_CHAR" /\ ~(pos >= size)
      /\ out' = Append(out, memory[place][pos + 1]) /\ pos' = pos + 1
      /\ UNCHANGED <<memory, state, command, args, item, place, size, got, poked>>
  BY DEF WriteByte, Written, process
<1>2. /\ CatWriting /\ OutStands /\ out \in Seq(0 .. 255) /\ got \in Seq(Readings)
      /\ Given \in Seq(Triples)
      /\ Len(got) = item - 1 /\ Len(got) <= Len(args) /\ Len(out) \in Nat
  BY <1>1, LenProperties DEF CatInv
<1>3. Given' = Given
  BY <1>1 DEF Given
<1>4. pos \in Nat /\ size \in Nat /\ pos + 1 <= size /\ pos + 1 \in pos + 1 .. size /\ pos + 1 \in 1 .. size
  BY <1>1, <1>2 DEF CatWriting
<1>5. memory[place][pos + 1] \in 0 .. 255
  <2>1. memory[place] \in Seq(0 .. 255)
    BY <1>2 DEF FilesInv, CatWriting
  <2>2. 1 .. size \subseteq DOMAIN memory[place]
    BY <1>2 DEF CatWriting
  <2>3. pos + 1 \in 1 .. Len(memory[place])
    BY <1>4, <2>1, <2>2
  <2> QED BY ONLY <2>1, <2>3, ElementOfSeq
<1>6. /\ out' \in Seq(0 .. 255) /\ Len(out') = Len(out) + 1
      /\ out'[Len(out) + 1] = memory[place][pos + 1]
      /\ \A i \in 1 .. Len(out) : out'[i] = out[i]
  BY <1>1, <1>2, <1>5, AppendProperties
<1>7. OutStands'
  <2>1. Len(out') <= Len(Given')
    BY <1>2, <1>3, <1>4, <1>6 DEF CatWriting
  <2>2. ASSUME NEW i \in 1 .. Len(out')
        PROVE  out'[i] = Given[i][3] \/ <<Given[i][1], Given[i][2]>> \in poked
    <3>1. CASE i = Len(out) + 1
      <4>1. Len(out) - pos + (pos + 1) = i
        BY <1>2, <1>4, <3>1
      <4>2. /\ Given[i] = <<place, pos + 1, Given[i][3]>>
            /\ memory[place][pos + 1] = Given[i][3] \/ <<place, pos + 1>> \in poked
        BY <1>2, <1>4, <4>1 DEF CatWriting
      <4>3. Given[i][1] = place /\ Given[i][2] = pos + 1
        BY <4>2
      <4> QED BY <1>6, <3>1, <4>2, <4>3
    <3>2. CASE i # Len(out) + 1
      <4>1. i \in 1 .. Len(out)
        BY <1>2, <1>6, <3>2
      <4> QED BY <1>2, <1>6, <4>1 DEF OutStands
    <3> QED BY <3>1, <3>2
  <2> QED BY <1>1, <1>3, <2>1, <2>2 DEF OutStands
<1>8. CatWriting'
  <2>1. pos' \in 0 .. size' /\ Len(Given') = Len(out') + (size' - pos')
    <3>1. Len(Given) = Len(out) + (size - pos)
      BY <1>2 DEF CatWriting
    <3>2. Len(Given') = Len(out) + 1 + (size - (pos + 1))
      BY <1>2, <1>3, <1>4, <3>1
    <3> QED BY <1>1, <1>4, <1>6, <3>2
  <2>2. \A i \in pos' + 1 .. size' : i \in pos + 1 .. size /\ Len(out') - pos' + i = Len(out) - pos + i
    BY <1>1, <1>2, <1>4, <1>6
  <2> QED BY <1>1, <1>2, <1>3, <2>1, <2>2 DEF CatWriting
<1> QED BY <1>1, <1>2, <1>3, <1>6, <1>7, <1>8 DEF CatInv

-----------------------------------------------------------------------------
\* Every step keeps what is on the terminal the beginning of what was given.
LEMMA CatKept == FilesInv /\ CatInv /\ [Next]_vars => CatInv'
<1> SUFFICES ASSUME FilesInv, CatInv, [Next]_vars PROVE CatInv'
  OBVIOUS
<1> USE DEF process, reading, shown, tree, choice
<1>1. CASE UNCHANGED vars
  BY <1>1, CatIsLeft DEF vars
<1>2. ASSUME NEW names \in SeqOf(Typed, MaxArgs), Cat(names) PROVE CatInv'
  <2>1. CASE StatusOf(names) = "OK"
    BY <1>2, <2>1, CatBegins DEF Cat, Begins
  <2>2. CASE StatusOf(names) # "OK"
    BY <1>2, <2>2, CatIsLeft DEF Cat, Refused
  <2> QED BY <2>1, <2>2
<1>3. ASSUME NEW names \in SeqOf(Typed, MaxArgs), Xxd(names) PROVE CatInv'
  <2>1. CASE status' = "OK"
    BY <1>3, <2>1 DEF Xxd, Begins, CatInv
  <2>2. CASE status' # "OK"
    BY <1>3, <2>2, CatIsLeft DEF Xxd, Refused
  <2> QED BY <2>1, <2>2
<1>4. ASSUME NEW name \in Typed, NEW argument \in Arguments, EchoInto(name, argument)
      PROVE  CatInv'
  BY <1>4 DEF EchoInto, CatInv
<1>5. ASSUME NEW argument \in {"0", "1", "on"}, SetLed(argument) PROVE CatInv'
  BY <1>5 DEF SetLed, CatInv
<1>6. CASE ToggleLed
  BY <1>6 DEF ToggleLed, CatInv
<1>7. CASE CatStart
  <2>1. /\ command = "cat" /\ state = "PROCESS_START" /\ item' = 1 /\ state' = "PROCESS_SERVICE"
        /\ UNCHANGED <<command, args, out, got, poked>>
    BY <1>7 DEF CatStart, Serves
  <2>2. /\ got = << >> /\ got \in Seq(Readings) /\ out \in Seq(0 .. 255) /\ Given \in Seq(Triples)
        /\ OutStands /\ Len(Given) = Len(out)
    BY <2>1 DEF CatInv
  <2>3. Given' = Given
    BY <2>1 DEF Given
  <2>4. OutStands'
    BY <2>1, <2>2, <2>3 DEF OutStands
  <2>5. Len(got) = item' - 1 /\ Len(got) <= Len(args)
    BY <2>1, <2>2, LenProperties DEF FilesInv
  <2> QED BY <2>1, <2>2, <2>3, <2>4, <2>5 DEF CatInv
<1>8. CASE CatFile
  <2>1. CASE Readable(Find(args[item]))
    BY <1>8, <2>1, CatFileKept
  <2>2. CASE ~Readable(Find(args[item]))
    <3>1. /\ command = "cat" /\ state = "PROCESS_SERVICE" /\ state' = "FAULT"
          /\ UNCHANGED <<command, args, item, out, got, poked>>
      BY <1>8, <2>2 DEF CatFile, Serves
    <3>2. Given' = Given
      BY <3>1 DEF Given
    <3>3. OutStands'
      BY <3>1, <3>2 DEF OutStands, CatInv
    <3> QED BY <3>1, <3>2, <3>3 DEF CatInv
  <2> QED BY <2>1, <2>2
<1>9. CASE WriteByte
  BY <1>9, WriteByteKept DEF FilesInv, WriteByte
<1>10. CASE WriteEnd
  <2>1. /\ state = "WRITE_CHAR" /\ pos >= size /\ state' = "PROCESS_SERVICE"
        /\ UNCHANGED <<command, args, item, out, got, poked>>
    BY <1>10 DEF WriteEnd, Written
  <2>2. command = "cat"
    BY <2>1 DEF FilesInv
  <2>3. Given' = Given
    BY <2>1 DEF Given
  <2>4. Len(Given) = Len(out)
    <3>1. CatWriting /\ out \in Seq(0 .. 255)
      BY <2>1, <2>2 DEF CatInv
    <3>2. Len(Given) = Len(out) + (size - pos) /\ pos = size /\ size \in Nat /\ Len(out) \in Nat
      BY <2>1, <3>1, LenProperties DEF CatWriting
    <3> QED BY <3>2
  <2>5. OutStands'
    BY <2>1, <2>2, <2>3 DEF OutStands, CatInv
  <2> QED BY <2>1, <2>2, <2>3, <2>4, <2>5 DEF CatInv
<1>11. CASE CatThrough
  <2>1. /\ command = "cat" /\ state = "PROCESS_SERVICE" /\ item > Len(args)
        /\ state' = "PROCESS_FINISH" /\ UNCHANGED <<command, args, item, out, got, poked>>
    BY <1>11 DEF CatThrough, Serves
  <2>2. Given' = Given
    BY <2>1 DEF Given
  <2>3. OutStands'
    BY <2>1, <2>2 DEF OutStands, CatInv
  <2>4. Len(got) = Len(args)
    <3>1. Len(got) = item - 1 /\ Len(got) <= Len(args) /\ item \in Nat /\ args \in Seq(Typed)
      BY <2>1 DEF CatInv, FilesInv
    <3> QED BY <2>1, <3>1, LenProperties
  <2> QED BY <2>1, <2>2, <2>3, <2>4 DEF CatInv
<1>12. CASE Finish \/ PrintOver
  BY <1>12 DEF Finish, PrintOver, Ends, CatInv
<1>13. CASE XxdStart \/ XxdOffset \/ XxdHex \/ XxdText \/ XxdNewline
  BY <1>13 DEF XxdStart, XxdOffset, XxdHex, XxdText, XxdNewline, XxdServes, Serves, CatInv
<1>14. ASSUME NEW f \in Files, NEW i \in DOMAIN memory[f], NEW byte \in Bytes, Poke(f, i, byte)
       PROVE  CatInv'
  <2>1. CASE command = "cat" /\ state # "OTHER"
    BY <1>14, <2>1, CatPoked
  <2>2. CASE ~(command = "cat" /\ state # "OTHER")
    BY <1>14, <2>2 DEF Poke, CatInv
  <2> QED BY <2>1, <2>2
<1>15. ASSUME (\E f \in Files : Unmount(f) \/ Mount(f)) \/ \E d \in Dirs : SetDir(d) PROVE CatInv'
  BY <1>15, CatIsLeft DEF Unmount, Mount, SetDir
<1> QED
  BY <1>1, <1>2, <1>3, <1>4, <1>5, <1>6, <1>7, <1>8, <1>9, <1>10, <1>11, <1>12, <1>13, <1>14,
     <1>15 DEF Next, Service, Entered, Application

\* What cat has written and has still to write, in every reachable state.
THEOREM CatInvariant == Spec => []CatInv
<1>1. Init => CatInv
  BY DEF Init, CatInv
<1>2. QED
  BY <1>1, CatKept, FilesInvariant, PTL DEF Spec

\* cat writes all its files in order, byte by byte as they were given, for
\* files of every length and any number of them; only bytes the application
\* changed behind the pointer may differ.
THEOREM CatShowsFiles == Spec => []CatShows
<1>1. CatInv => CatShows
  <2> SUFFICES ASSUME CatInv, command = "cat", state = "PROCESS_FINISH" PROVE CatShows
    BY DEF CatShows, Serves
  <2>1. /\ Len(got) = Len(args) /\ Len(out) = Len(Given) /\ OutStands /\ out \in Seq(0 .. 255)
    BY DEF CatInv
  <2>2. DOMAIN out = 1 .. Len(out)
    BY <2>1, LenProperties
  <2> QED BY <2>1, <2>2 DEF CatShows, OutStands
<1>2. QED
  BY <1>1, CatInvariant, PTL

-----------------------------------------------------------------------------
(***************************************************************************)
(* What cat finds.  A search that found the file chosen for an argument    *)
(* finds it again, unless one of the causes in "moved" came between.       *)
(***************************************************************************)
\* A path is mounted once.
TreeInv ==
  \A f \in found \ Commands, g \in found \ Commands : PathOf[f] = PathOf[g] => f = g

\* What a search for a name finds.
Finds(name, f) ==
  /\ f \in found
  /\ \/ f \in Commands /\ PathOf[f] = name
     \/ f \notin Commands /\ PathOf[f] = PathFrom[dir][name] /\ CommandsNamed(name) = {}

LEMMA FindIs ==
  found \subseteq Files /\ TreeInv =>
    \A name \in Typed, f \in Files : Find(name) = f <=> Finds(name, f)
<1> SUFFICES ASSUME found \subseteq Files, TreeInv, NEW name \in Typed, NEW f \in Files
             PROVE  Find(name) = f <=> Finds(name, f)
  OBVIOUS
<1>1. f # Missing
  BY FilesAssumption
<1>2. CASE CommandsNamed(name) # {}
  <2>1. PICK c \in CommandsNamed(name) : TRUE
    BY <1>2
  <2>2. \A e \in CommandsNamed(name) : e = c
    BY <2>1, LookupAssumption DEF CommandsNamed
  <2>3. Find(name) = c
    BY <1>2, <2>1, <2>2 DEF Find
  <2> QED BY <1>2, <2>1, <2>2, <2>3 DEF Finds, CommandsNamed
<1>3. CASE CommandsNamed(name) = {} /\ FilesNamed(name) # {}
  <2>1. PICK g \in FilesNamed(name) : TRUE
    BY <1>3
  <2>2. \A e \in FilesNamed(name) : e = g
    BY <2>1 DEF FilesNamed, TreeInv
  <2>3. Find(name) = g
    BY <1>3, <2>1, <2>2 DEF Find
  <2> QED BY <1>3, <2>1, <2>2, <2>3 DEF Finds, CommandsNamed, FilesNamed
<1>4. CASE CommandsNamed(name) = {} /\ FilesNamed(name) = {}
  BY <1>1, <1>4 DEF Find, Finds, CommandsNamed, FilesNamed
<1> QED BY <1>2, <1>3, <1>4

\* What a command was accepted for, and what it read.
ChosenInv ==
  /\ TreeInv
  /\ state # "OTHER" =>
       /\ chosen \in Seq(Files) /\ Len(chosen) = Len(args)
       /\ \A i \in DOMAIN chosen : /\ Readable(chosen[i])
                                   /\ Finds(args[i], chosen[i]) \/ i \in moved
  /\ state = "OTHER" => got = << >>
  /\ CatFindsAgain

\* A command begins for the files it finds.
LEMMA ChosenBegins ==
  ASSUME FilesInv, ChosenInv, NEW names \in Seq(Typed), NEW name, StatusOf(names) = "OK",
         Begins(name, names), UNCHANGED <<found, dir>>,
         \/ got' = << >>
         \/ Len(names) = 1 /\ got' = <<Returned(Find(names[1]))>>
  PROVE  ChosenInv'
<1> DEFINE c == [i \in DOMAIN names |-> Find(names[i])]
<1>1. /\ chosen' = c /\ moved' = {} /\ args' = names /\ state' = "PROCESS_START"
  BY DEF Begins
<1>2. \A i \in DOMAIN names : Find(names[i]) \in Files /\ Readable(Find(names[i]))
  BY BegunForFiles
<1>3. DOMAIN names = 1 .. Len(names) /\ Len(names) \in Nat
  OBVIOUS
<1>4. c \in Seq(Files) /\ Len(c) = Len(names) /\ DOMAIN c = DOMAIN names
  <2>1. c \in [1 .. Len(names) -> Files]
    BY <1>2, <1>3
  <2> HIDE DEF c
  <2> QED BY <1>3, <2>1, SeqDef
<1>5. \A i \in DOMAIN names : Finds(names[i], Find(names[i]))
  <2>1. found \subseteq Files /\ TreeInv /\ \A i \in DOMAIN names : names[i] \in Typed
    BY <1>3, ElementOfSeq DEF FilesInv, ChosenInv
  <2> QED BY <1>2, <2>1, FindIs
<1>6. \A i \in DOMAIN chosen' : Readable(chosen'[i]) /\ Finds(args[i], chosen[i])'
  BY <1>1, <1>2, <1>4, <1>5 DEF Finds, CommandsNamed
<1>7. TreeInv'
  BY DEF ChosenInv, TreeInv
<1>8. CatFindsAgain'
  <2>1. CASE got' = << >>
    BY <1>1, <2>1 DEF CatFindsAgain
  <2>2. CASE Len(names) = 1 /\ got' = <<Returned(Find(names[1]))>>
    <3>1. DOMAIN got' = {1} /\ got'[1].file = Find(names[1]) /\ chosen'[1] = Find(names[1])
      BY <1>1, <1>3, <2>2 DEF Returned
    <3> QED BY <1>1, <3>1 DEF CatFindsAgain
  <2> QED BY <2>1, <2>2
<1> QED BY <1>1, <1>4, <1>6, <1>7, <1>8 DEF ChosenInv

\* What leaves the tree and the command as they are.
LEMMA ChosenIsLeft ==
  ASSUME ChosenInv, UNCHANGED <<found, dir, args, chosen, moved, got, item>>,
         state' = state \/ (state # "OTHER" /\ state' \notin {"OTHER", "FAULT"})
  PROVE  ChosenInv'
BY DEF ChosenInv, TreeInv, Finds, CommandsNamed, CatFindsAgain

LEMMA ChosenEnds ==
  ASSUME ChosenInv, UNCHANGED <<found, dir>>, Ends
  PROVE  ChosenInv'
BY DEF ChosenInv, TreeInv, CatFindsAgain, Ends

\* The application takes files away, adds them, or leaves the directory.
LEMMA ChosenMoved ==
  ASSUME FilesInv, ChosenInv, state # "FAULT",
         (\E f \in Files : Unmount(f) \/ Mount(f)) \/ \E d \in Dirs : SetDir(d)
  PROVE  ChosenInv'
<1>1. UNCHANGED <<args, chosen, got, item, state>> /\ moved \subseteq moved'
  BY DEF Unmount, Mount, SetDir, process
<1>2. TreeInv'
  BY DEF ChosenInv, TreeInv, Unmount, Mount, SetDir
<1>3. ASSUME state # "OTHER", NEW i \in DOMAIN chosen, Finds(args[i], chosen[i])
      PROVE  Finds(args[i], chosen[i])' \/ i \in moved'
  <2>1. ASSUME NEW f \in Files, Unmount(f) PROVE Finds(args[i], chosen[i])' \/ i \in moved'
    BY <1>3, <2>1 DEF Unmount, Finds, CommandsNamed, process
  <2>2. ASSUME NEW f \in Files, Mount(f) PROVE Finds(args[i], chosen[i])' \/ i \in moved'
    BY <1>3, <2>2 DEF Mount, Finds, CommandsNamed, process
  <2>3. ASSUME NEW d \in Dirs, SetDir(d) PROVE Finds(args[i], chosen[i])' \/ i \in moved'
    BY <1>3, <2>3 DEF SetDir, Finds, CommandsNamed, process
  <2> QED BY <2>1, <2>2, <2>3
<1>4. CatFindsAgain'
  BY <1>1 DEF ChosenInv, CatFindsAgain
<1> QED BY <1>1, <1>2, <1>3, <1>4 DEF ChosenInv

\* cat comes to a file: it is the one chosen, or was moved.
LEMMA ChosenRead ==
  ASSUME FilesInv, ChosenInv, CatInv, CatFile
  PROVE  ChosenInv'
<1> DEFINE f == Find(args[item])
<1>1. /\ command = "cat" /\ state = "PROCESS_SERVICE" /\ item <= Len(args)
      /\ UNCHANGED <<found, dir, args, chosen, moved>>
  BY DEF CatFile, Serves, tree, choice
<1>2. /\ item \in Nat \ {0} /\ args \in Seq(Typed) /\ Len(args) \in Nat
      /\ found \subseteq Files /\ TreeInv
      /\ chosen \in Seq(Files) /\ Len(chosen) = Len(args)
  BY <1>1 DEF FilesInv, ChosenInv
<1>3. item \in DOMAIN chosen /\ chosen[item] \in Files /\ args[item] \in Typed
  <2>1. item \in 1 .. Len(args)
    BY <1>1, <1>2
  <2> QED BY <1>2, <2>1, ElementOfSeq
<1>4. (f = chosen[item] /\ Readable(f)) \/ item \in moved
  <2>1. Readable(chosen[item]) /\ (Finds(args[item], chosen[item]) \/ item \in moved)
    BY <1>1, <1>3 DEF ChosenInv
  <2> QED BY <1>2, <1>3, <2>1, FindIs
<1>5. TreeInv'
  BY <1>1, <1>2 DEF TreeInv
<1>6. CatFindsAgain'
  <2>1. \A k \in DOMAIN got : got[k].file = chosen[k] \/ k \in moved
    BY DEF ChosenInv, CatFindsAgain
  <2>2. CASE Readable(f)
    <3>1. /\ got' = Append(got, Returned(f)) /\ state' = "WRITE_CHAR"
      BY <2>2 DEF CatFile, GetData
    <3>2. got \in Seq(Readings) /\ Len(got) = item - 1
      BY <1>1 DEF CatInv
    <3>3. /\ DOMAIN got' = 1 .. item /\ \A k \in 1 .. item - 1 : got'[k] = got[k] /\ k \in DOMAIN got
          /\ got'[item] = Returned(f)
      BY <1>2, <3>1, <3>2
    <3>4. got'[item].file = f
      BY <3>3 DEF Returned
    <3>5. \A k \in 1 .. item : k \in 1 .. item - 1 \/ k = item
      BY <1>2
    <3> HIDE DEF f
    <3> QED BY <1>1, <1>4, <2>1, <3>1, <3>3, <3>4, <3>5 DEF CatFindsAgain
  <2>3. CASE ~Readable(f)
    <3>1. UNCHANGED <<got, item>> /\ state' = "FAULT"
      BY <2>3 DEF CatFile
    <3> QED BY <1>1, <1>4, <2>1, <2>3, <3>1 DEF CatFindsAgain
  <2> QED BY <2>2, <2>3
<1>7. state' # "OTHER"
  BY DEF CatFile
<1>8. \A i \in DOMAIN chosen : Finds(args[i], chosen[i])' <=> Finds(args[i], chosen[i])
  BY <1>1 DEF Finds, CommandsNamed
<1> QED BY <1>1, <1>2, <1>5, <1>6, <1>7, <1>8 DEF ChosenInv

LEMMA ChosenKept == FilesInv /\ CatInv /\ ChosenInv /\ [Next]_vars => ChosenInv'
<1> SUFFICES ASSUME FilesInv, CatInv, ChosenInv, [Next]_vars PROVE ChosenInv'
  OBVIOUS
<1> USE DEF process, reading, shown, tree, choice
<1>1. CASE UNCHANGED vars
  BY <1>1, ChosenIsLeft DEF vars
<1>2. ASSUME NEW names \in SeqOf(Typed, MaxArgs), Cat(names) PROVE ChosenInv'
  <2>1. CASE StatusOf(names) = "OK"
    BY <1>2, <2>1, NamesAreSequences, ChosenBegins DEF Cat
  <2>2. CASE StatusOf(names) # "OK"
    BY <1>2, <2>2, ChosenIsLeft DEF Cat, Refused
  <2> QED BY <2>1, <2>2
<1>3. ASSUME NEW names \in SeqOf(Typed, MaxArgs), Xxd(names) PROVE ChosenInv'
  <2>1. CASE status' = "OK"
    BY <1>3, <2>1, NamesAreSequences, ChosenBegins DEF Xxd, XxdGetsData
  <2>2. CASE status' # "OK"
    BY <1>3, <2>2, ChosenIsLeft DEF Xxd, Refused
  <2> QED BY <2>1, <2>2
<1>4. ASSUME \/ \E name \in Typed, argument \in Arguments : EchoInto(name, argument)
             \/ \E argument \in {"0", "1", "on"} : SetLed(argument)
             \/ ToggleLed
      PROVE  ChosenInv'
  BY <1>4, ChosenIsLeft DEF EchoInto, SetLed, ToggleLed
<1>5. CASE CatStart
  <2>1. state = "PROCESS_START" /\ state' = "PROCESS_SERVICE"
        /\ UNCHANGED <<found, dir, args, chosen, moved, got>>
    BY <1>5 DEF CatStart, Serves
  <2> QED BY <2>1 DEF ChosenInv, TreeInv, Finds, CommandsNamed, CatFindsAgain
<1>6. CASE CatFile
  BY <1>6, ChosenRead
<1>7. CASE WriteByte \/ WriteEnd \/ CatThrough
  BY <1>7, ChosenIsLeft DEF WriteByte, WriteEnd, CatThrough, Serves
<1>8. CASE Finish \/ PrintOver
  BY <1>8, ChosenEnds DEF Finish, PrintOver
<1>9. CASE XxdStart \/ XxdOffset \/ XxdHex \/ XxdText \/ XxdNewline
  <2>1. /\ state \in {"PROCESS_START", "PROCESS_SERVICE"} /\ state' \in {"PROCESS_SERVICE", "PROCESS_FINISH"}
        /\ UNCHANGED <<found, dir, args, chosen, moved, got>>
    BY <1>9 DEF XxdStart, XxdOffset, XxdHex, XxdText, XxdNewline, XxdServes, Serves
  <2> QED BY <2>1 DEF ChosenInv, TreeInv, Finds, CommandsNamed, CatFindsAgain
<1>10. ASSUME NEW f \in Files, NEW i \in DOMAIN memory[f], NEW byte \in Bytes, Poke(f, i, byte)
       PROVE  ChosenInv'
  BY <1>10, ChosenIsLeft DEF Poke
<1>11. ASSUME state # "FAULT", (\E f \in Files : Unmount(f) \/ Mount(f)) \/ \E d \in Dirs : SetDir(d)
       PROVE  ChosenInv'
  BY <1>11, ChosenMoved
<1> QED
  BY <1>1, <1>2, <1>3, <1>4, <1>5, <1>6, <1>7, <1>8, <1>9, <1>10, <1>11
  DEF Next, Service, Entered, Application

\* cat reads for each argument the file it was accepted for, and calls through
\* NULL for none, for every set of files, paths, directories and commands,
\* whatever is mounted and unmounted besides: unless the application took that
\* file away, hid it behind a command, or left the directory it is named from.
THEOREM CatFindsItsFiles == Spec => []CatFindsAgain
<1>1. Init => ChosenInv
  BY LookupAssumption DEF Init, ChosenInv, TreeInv, CatFindsAgain
<1>2. ChosenInv => CatFindsAgain
  BY DEF ChosenInv
<1> QED
  BY <1>1, <1>2, ChosenKept, FilesInvariant, CatInvariant, PTL DEF Spec

-----------------------------------------------------------------------------
(***************************************************************************)
(* How far a command is from its end.                                      *)
(***************************************************************************)
\* No command is beyond its files, the data it was given, or its rows.
ReadingInv ==
  /\ state = "WRITE_CHAR" => size \in Nat /\ pos \in Nat /\ pos <= size
  /\ state \in {"PROCESS_SERVICE", "WRITE_CHAR"} /\ command = "cat" => item <= Len(args) + 1
  /\ Serves("xxd", "PROCESS_SERVICE") =>
       size \in Nat /\ index \in 0 .. 3 /\ RowAt \in Nat /\ RowAt <= size

\* Ranks by what is served.
LEMMA RankIs ==
  /\ state = "PROCESS_START" => Rank = <<2, 0, 0>>
  /\ Serves("cat", "PROCESS_SERVICE") => Rank = <<1, Len(args) + 1 - item, 0>>
  /\ state = "WRITE_CHAR" => Rank = <<1, Len(args) + 1 - item, 1 + size - pos>>
  /\ Serves("xxd", "PROCESS_SERVICE") => Rank = <<1, size - RowAt, 3 - index>>
  /\ state = "PROCESS_FINISH" => Rank = <<0, 0, 0>>
BY DEF Rank, Serves

LEMMA RankBecomes ==
  /\ state' = "PROCESS_START" => Rank' = <<2, 0, 0>>
  /\ Serves("cat", "PROCESS_SERVICE")' => Rank' = <<1, Len(args') + 1 - item', 0>>
  /\ state' = "WRITE_CHAR" => Rank' = <<1, Len(args') + 1 - item', 1 + size' - pos'>>
  /\ Serves("xxd", "PROCESS_SERVICE")' => Rank' = <<1, size' - RowAt', 3 - index'>>
  /\ state' = "PROCESS_FINISH" => Rank' = <<0, 0, 0>>
BY DEF Rank, Serves

LEMMA BelowIs ==
  ASSUME NEW a \in Nat, NEW b \in Nat, NEW c \in Nat,
         NEW x \in Nat, NEW y \in Nat, NEW z \in Nat,
         \/ a < x
         \/ a = x /\ b < y
         \/ a = x /\ b = y /\ c < z
  PROVE  Below(<<a, b, c>>, <<x, y, z>>)
<1> DEFINE r == <<a, b, c>>
           t == <<x, y, z>>
<1>1. r[1] = a /\ r[2] = b /\ r[3] = c /\ t[1] = x /\ t[2] = y /\ t[3] = z
  OBVIOUS
<1> HIDE DEF r, t
<1>2. \E k \in 1 .. 3 : r[k] < t[k] /\ \A j \in 1 .. k - 1 : r[j] = t[j]
  BY <1>1
<1> QED BY <1>2 DEF Below, r, t

\* Ranks are of naturals.
LEMMA Ranked == FilesInv /\ ReadingInv /\ ~Ended => Rank \in [1 .. 3 -> Nat]
<1> SUFFICES ASSUME FilesInv, ReadingInv, ~Ended PROVE Rank \in [1 .. 3 -> Nat]
  OBVIOUS
<1>1. \A a, b, c \in Nat : <<a, b, c>> \in [1 .. 3 -> Nat]
  OBVIOUS
<1>2. Len(args) \in Nat
  BY DEF FilesInv
<1>3. CASE state \in {"PROCESS_START", "PROCESS_FINISH"}
  BY <1>1, <1>3, RankIs
<1>4. CASE Serves("cat", "PROCESS_SERVICE")
  <2>1. Len(args) + 1 - item \in Nat
    BY <1>2, <1>4 DEF FilesInv, ReadingInv, Serves
  <2> QED BY <1>1, <1>4, <2>1, RankIs
<1>5. CASE state = "WRITE_CHAR"
  <2>1. Len(args) + 1 - item \in Nat
    BY <1>2, <1>5 DEF FilesInv, ReadingInv
  <2>2. 1 + size - pos \in Nat
    BY <1>5 DEF ReadingInv
  <2> QED BY <1>1, <1>5, <2>1, <2>2, RankIs
<1>6. CASE Serves("xxd", "PROCESS_SERVICE")
  <2>1. size - RowAt \in Nat /\ 3 - index \in Nat
    <3>1. size \in Nat /\ RowAt \in Nat /\ RowAt <= size /\ index \in 0 .. 3
      BY <1>6 DEF ReadingInv
    <3> HIDE DEF RowAt
    <3> QED BY <3>1
  <2> QED BY <1>1, <1>6, <2>1, RankIs
<1> QED BY <1>3, <1>4, <1>5, <1>6 DEF FilesInv, States, Serves, Ended

\* Each step of a command brings its end nearer.
LEMMA CatReadsOn ==
  ASSUME FilesInv, ReadingInv, CatStart \/ CatFile \/ WriteByte \/ WriteEnd \/ CatThrough
  PROVE  ReadingInv' /\ (~Ended' => Below(Rank', Rank))
<1> USE DEF process, reading, shown, tree, choice
<1>1. Len(args) \in Nat /\ command = "cat"
  BY DEF FilesInv, CatStart, CatFile, WriteByte, WriteEnd, CatThrough, Serves
<1>2. CASE CatStart
  <2>1. /\ state = "PROCESS_START" /\ Serves("cat", "PROCESS_SERVICE")' /\ item' = 1
        /\ UNCHANGED <<command, args>>
    BY <1>2 DEF CatStart, Serves
  <2>2. Rank = <<2, 0, 0>> /\ Rank' = <<1, Len(args) + 1 - 1, 0>>
    BY <2>1, RankIs, RankBecomes
  <2>3. Len(args) + 1 - 1 \in Nat
    BY <1>1
  <2>4. Below(Rank', Rank)
    BY <2>2, <2>3, BelowIs
  <2> QED BY <1>1, <2>1, <2>4 DEF ReadingInv, Serves
<1>7. CASE CatFile /\ ~Readable(Find(args[item]))
  BY <1>7 DEF CatFile, Serves, ReadingInv, Ended
<1>3. CASE CatFile /\ Readable(Find(args[item]))
  <2>1. /\ Serves("cat", "PROCESS_SERVICE") /\ item \in Nat \ {0} /\ item <= Len(args)
        /\ state' = "WRITE_CHAR" /\ item' = item + 1 /\ pos' = 0
        /\ UNCHANGED <<command, args>>
    BY <1>1, <1>3 DEF CatFile, Serves, FilesInv, GetData, ItemAfter
  <2>2. size' \in Nat
    <3>1. Find(args[item]) \in Files
      BY <1>3, FindsFound DEF FilesInv
    <3>2. memory' \in [Places -> Seq(0 .. 255)]
      BY <1>3, <3>1, MemoriesTypes DEF CatFile, GetData
    <3>3. PlaceOf(Find(args[item])) \in Places
      BY <3>1 DEF PlaceOf, Places, FilesInv
    <3>4. size' = SizeIn(memory', Find(args[item]))
      BY <1>3 DEF CatFile, GetData
    <3>5. memory'[PlaceOf(Find(args[item]))] \in Seq(0 .. 255)
      BY <3>2, <3>3
    <3> QED BY <3>4, <3>5 DEF SizeIn
  <2>3. /\ Rank = <<1, Len(args) + 1 - item, 0>>
        /\ Rank' = <<1, Len(args) + 1 - (item + 1), 1 + size' - 0>>
    BY <2>1, RankIs, RankBecomes
  <2>4. /\ Len(args) + 1 - item \in Nat /\ Len(args) + 1 - (item + 1) \in Nat
        /\ Len(args) + 1 - (item + 1) < Len(args) + 1 - item
    BY <1>1, <2>1
  <2>5. \A n \in Nat : 1 + n - 0 \in Nat
    OBVIOUS
  <2>6. Below(Rank', Rank)
    BY <2>2, <2>3, <2>4, <2>5, BelowIs
  <2> QED BY <1>1, <2>1, <2>2, <2>6 DEF ReadingInv, Serves
<1>4. CASE WriteByte
  <2>1. /\ state = "WRITE_CHAR" /\ state' = "WRITE_CHAR" /\ ~(pos >= size) /\ pos' = pos + 1
        /\ UNCHANGED <<command, args, item, size>>
    BY <1>4 DEF WriteByte, Written
  <2>2. /\ size \in Nat /\ pos \in Nat /\ item \in Nat /\ item <= Len(args) + 1
    BY <1>1, <2>1 DEF ReadingInv, FilesInv
  <2>3. /\ Rank = <<1, Len(args) + 1 - item, 1 + size - pos>>
        /\ Rank' = <<1, Len(args) + 1 - item, 1 + size - (pos + 1)>>
    BY <2>1, RankIs, RankBecomes
  <2>4. Len(args) + 1 - item \in Nat
    BY <1>1, <2>2
  <2>5. /\ 1 + size - pos \in Nat /\ 1 + size - (pos + 1) \in Nat
        /\ 1 + size - (pos + 1) < 1 + size - pos
    BY <2>1, <2>2
  <2>6. Below(Rank', Rank)
    BY <2>3, <2>4, <2>5, BelowIs
  <2> QED BY <2>1, <2>2, <2>6 DEF ReadingInv, Serves
<1>5. CASE WriteEnd
  <2>1. /\ state = "WRITE_CHAR" /\ Serves("cat", "PROCESS_SERVICE")'
        /\ UNCHANGED <<command, args, item>>
    BY <1>1, <1>5 DEF WriteEnd, Serves
  <2>2. /\ size \in Nat /\ pos \in Nat /\ pos <= size /\ item \in Nat /\ item <= Len(args) + 1
    BY <1>1, <2>1 DEF ReadingInv, FilesInv
  <2>3. /\ Rank = <<1, Len(args) + 1 - item, 1 + size - pos>>
        /\ Rank' = <<1, Len(args) + 1 - item, 0>>
    BY <2>1, RankIs, RankBecomes
  <2>4. Len(args) + 1 - item \in Nat
    BY <1>1, <2>2
  <2>5. 1 + size - pos \in Nat /\ 0 < 1 + size - pos
    BY <2>2
  <2>6. Below(Rank', Rank)
    BY <2>3, <2>4, <2>5, BelowIs
  <2> QED BY <1>1, <2>1, <2>2, <2>6 DEF ReadingInv, Serves
<1>6. CASE CatThrough
  <2>1. /\ Serves("cat", "PROCESS_SERVICE") /\ state' = "PROCESS_FINISH"
        /\ UNCHANGED <<command, args, item>>
    BY <1>6 DEF CatThrough, Serves
  <2>2. Len(args) + 1 - item \in Nat
    BY <1>1, <2>1 DEF ReadingInv, FilesInv, Serves
  <2>3. Rank = <<1, Len(args) + 1 - item, 0>> /\ Rank' = <<0, 0, 0>>
    BY <2>1, RankIs, RankBecomes
  <2>4. Below(Rank', Rank)
    BY <2>2, <2>3, BelowIs
  <2> QED BY <2>1, <2>4 DEF ReadingInv, Serves
<1> QED BY <1>2, <1>3, <1>4, <1>5, <1>6, <1>7

LEMMA XxdReadsOn ==
  ASSUME FilesInv, XxdInv, ReadingInv, XxdStart \/ XxdOffset \/ XxdHex \/ XxdText \/ XxdNewline
  PROVE  ReadingInv' /\ (~Ended' => Below(Rank', Rank))
<1> USE DEF process, reading, shown, tree, choice
<1>1. /\ command = "xxd" /\ state \in {"PROCESS_START", "PROCESS_SERVICE"}
      /\ size \in Nat /\ Columns \in Nat \ {0}
      /\ UNCHANGED <<command, args, size>>
  BY FilesAssumption DEF XxdStart, XxdOffset, XxdHex, XxdText, XxdNewline, XxdServes, Serves, XxdInv,
     DataStands
<1>2. CASE XxdStart
  <2>1. /\ state = "PROCESS_START" /\ Serves("xxd", "PROCESS_SERVICE")' /\ index' = 0 /\ item' = 0
    BY <1>2 DEF XxdStart, Serves
  <2>2. RowAt' = 0
    BY <2>1 DEF RowAt
  <2>3. Rank = <<2, 0, 0>> /\ Rank' = <<1, size - 0, 3 - 0>>
    BY <1>1, <2>1, <2>2, RankIs, RankBecomes
  <2>4. size - 0 \in Nat /\ 3 - 0 \in Nat
    BY <1>1
  <2>5. Below(Rank', Rank)
    BY <2>3, <2>4, BelowIs
  <2> QED BY <1>1, <2>1, <2>2, <2>5 DEF ReadingInv, Serves
<1>3. CASE XxdOffset \/ XxdHex \/ XxdText \/ XxdNewline
  <2>1. /\ Serves("xxd", "PROCESS_SERVICE") /\ index \in 0 .. 3 /\ item \in Nat
        /\ RowAt \in Nat /\ RowAt <= size
    BY <1>3 DEF XxdOffset, XxdHex, XxdText, XxdNewline, XxdServes, Serves, XxdInv, ReadingInv
  <2>2. Rank = <<1, size - RowAt, 3 - index>>
    BY <2>1, RankIs
  <2> DEFINE b == size - RowAt
             c == 3 - index
  <2>3. b \in Nat /\ c \in Nat
    <3> HIDE DEF RowAt
    <3> QED BY <1>1, <2>1
  <2>4. CASE XxdOffset \/ XxdHex \/ XxdText
    <3>1. /\ Serves("xxd", "PROCESS_SERVICE")' /\ index \in 0 .. 2 /\ index' = index + 1
          /\ item' = IF index = 2 THEN item + Columns ELSE item
      BY <2>4 DEF XxdOffset, XxdHex, XxdText, XxdServes, Serves
    <3>2. RowAt' = RowAt
      <4>1. CASE index = 2
        BY <1>1, <2>1, <3>1, <4>1 DEF RowAt
      <4>2. CASE index # 2
        BY <2>1, <3>1, <4>2 DEF RowAt
      <4> QED BY <4>1, <4>2
    <3>3. Rank' = <<1, b, 3 - index'>>
      BY <1>1, <3>1, <3>2, RankBecomes
    <3>4. 3 - index' \in Nat /\ 3 - index' < c
      BY <3>1
    <3> HIDE DEF b, c
    <3>5. Below(<<1, b, 3 - index'>>, <<1, b, c>>)
      BY <2>3, <3>4, BelowIs
    <3>6. Below(Rank', Rank)
      BY <2>2, <3>3, <3>5 DEF b, c
    <3> QED BY <1>1, <2>1, <3>1, <3>2, <3>6 DEF ReadingInv, Serves
  <2>5. CASE XxdNewline /\ item >= size
    <3>1. state' = "PROCESS_FINISH"
      BY <2>5 DEF XxdNewline, Through
    <3>2. Rank' = <<0, 0, 0>>
      BY <3>1, RankBecomes
    <3> HIDE DEF b, c
    <3>3. Below(<<0, 0, 0>>, <<1, b, c>>)
      BY <2>3, BelowIs
    <3>4. Below(Rank', Rank)
      BY <2>2, <3>2, <3>3 DEF b, c
    <3> QED BY <3>1, <3>4 DEF ReadingInv, Serves
  <2>6. CASE XxdNewline /\ ~(item >= size)
    <3>1. /\ Serves("xxd", "PROCESS_SERVICE")' /\ index = 3 /\ index' = 0 /\ item' = item
      BY <2>6 DEF XxdNewline, Through, IndexOfRow, XxdServes, Serves
    <3>2. RowAt' = item /\ RowAt = item - Columns
      BY <3>1 DEF RowAt
    <3>3. Rank' = <<1, size - item, 3>>
      BY <1>1, <3>1, <3>2, RankBecomes
    <3>4. size - item \in Nat /\ size - item < b
      BY <1>1, <2>1, <2>6, <3>2
    <3> HIDE DEF b, c
    <3>5. Below(<<1, size - item, 3>>, <<1, b, c>>)
      BY <2>3, <3>4, BelowIs
    <3>6. Below(Rank', Rank)
      BY <2>2, <3>3, <3>5 DEF b, c
    <3> QED BY <1>1, <2>1, <2>6, <3>1, <3>2, <3>6 DEF ReadingInv, Serves
  <2> QED BY <1>3, <2>4, <2>5, <2>6
<1> QED BY <1>2, <1>3

\* What else happens leaves a command where it is, or begins or ends one.
LEMMA ElseReadsOn ==
  ASSUME FilesInv, ReadingInv, Finish \/ Entered \/ Application \/ UNCHANGED vars
  PROVE  \/ UNCHANGED <<state, process, reading>>
         \/ state' = "OTHER"
         \/ state = "OTHER" /\ state' = "PROCESS_START"
<1> USE DEF process, shown, tree, choice
<1>1. ASSUME NEW names \in SeqOf(Typed, MaxArgs), Cat(names) \/ Xxd(names)
      PROVE  \/ UNCHANGED <<state, process, reading>>
             \/ state = "OTHER" /\ state' = "PROCESS_START"
  <2>1. ASSUME Cat(names)
        PROVE  UNCHANGED <<state, process, reading>> \/ (state = "OTHER" /\ state' = "PROCESS_START")
    BY <2>1 DEF Cat, Begins, Refused
  <2>2. ASSUME Xxd(names)
        PROVE  UNCHANGED <<state, process, reading>> \/ (state = "OTHER" /\ state' = "PROCESS_START")
    BY <2>2 DEF Xxd, Begins, Refused
  <2> QED BY <1>1, <2>1, <2>2
<1>2. ASSUME NEW name \in Typed, NEW argument \in Arguments, EchoInto(name, argument)
      PROVE  UNCHANGED <<state, process, reading>>
  BY <1>2 DEF EchoInto
<1>3. ASSUME (\E argument \in {"0", "1", "on"} : SetLed(argument)) \/ ToggleLed
      PROVE  UNCHANGED <<state, process, reading>>
  BY <1>3 DEF SetLed, ToggleLed
<1>4. ASSUME NEW f \in Files, NEW i \in DOMAIN memory[f], NEW byte \in Bytes, Poke(f, i, byte)
      PROVE  UNCHANGED <<state, process, reading>>
  BY <1>4 DEF Poke
<1>5. ASSUME (\E f \in Files : Unmount(f) \/ Mount(f)) \/ \E d \in Dirs : SetDir(d)
      PROVE  UNCHANGED <<state, process, reading>>
  BY <1>5 DEF Unmount, Mount, SetDir
<1>6. ASSUME Finish \/ PrintOver PROVE state' = "OTHER"
  BY <1>6 DEF Finish, PrintOver, Ends
<1>7. ASSUME UNCHANGED vars PROVE UNCHANGED <<state, process, reading>>
  BY <1>7 DEF vars
<1> QED BY <1>1, <1>2, <1>3, <1>4, <1>5, <1>6, <1>7 DEF Entered, Application

LEMMA ReadingKept ==
  ASSUME FilesInv, XxdInv, ReadingInv, [Next]_vars
  PROVE  /\ ReadingInv'
         /\ state # "OTHER" /\ ~Ended' =>
              Below(Rank', Rank) \/ UNCHANGED <<state, process, reading>>
<1>1. CASE CatStart \/ CatFile \/ WriteByte \/ WriteEnd \/ CatThrough
  BY <1>1, CatReadsOn
<1>2. CASE XxdStart \/ XxdOffset \/ XxdHex \/ XxdText \/ XxdNewline
  BY <1>2, XxdReadsOn
<1>3. CASE Finish \/ Entered \/ Application \/ UNCHANGED vars
  <2>1. \/ UNCHANGED <<state, process, reading>>
        \/ state' = "OTHER"
        \/ state = "OTHER" /\ state' = "PROCESS_START"
    BY <1>3, ElseReadsOn
  <2>2. ReadingInv'
    BY <2>1 DEF ReadingInv, RowAt, Serves, process, reading
  <2> QED BY <2>1, <2>2 DEF Ended
<1> QED BY <1>1, <1>2, <1>3 DEF Next, Service

THEOREM ReadingInvariant == Spec => []ReadingInv
<1>1. Init => ReadingInv
  BY DEF Init, ReadingInv, Serves
<1>2. FilesInv /\ XxdInv /\ ReadingInv /\ [Next]_vars => ReadingInv'
  BY ReadingKept
<1> QED BY <1>1, <1>2, FilesInvariant, XxdInvariant, PTL DEF Spec

\* No sequence of ranks goes down for ever.
LEMMA RanksEnd ==
  ASSUME NEW f \in [Nat -> [1 .. 3 -> Nat]]
  PROVE  \E n \in Nat : ~Below(f[n + 1], f[n])
<1>1. 3 \in Nat
  OBVIOUS
<1>2. \E n \in Nat :
        ~ \E k \in 1 .. 3 : f[n + 1][k] < f[n][k] /\ \A j \in 1 .. k - 1 : f[n + 1][j] = f[n][j]
  BY ONLY <1>1, f \in [Nat -> [1 .. 3 -> Nat]], TuplesEnd
<1> QED BY <1>2 DEF Below

\* Every call of ush_service that does not end cat or xxd brings its end
\* nearer, in an order of three naturals that has no infinite descent, for
\* files of every length and every number of columns.
THEOREM ReadsOnHolds == Spec => ReadsOn
<1> DEFINE Nearer ==
      ~Ended' =>
        /\ Rank' \in [1 .. 3 -> Nat]
        /\ state # "OTHER" => Below(Rank', Rank) \/ UNCHANGED <<state, process, reading>>
<1>1. FilesInv /\ XxdInv /\ ReadingInv /\ [Next]_vars => [Nearer]_vars
  <2> SUFFICES ASSUME FilesInv, XxdInv, ReadingInv, [Next]_vars, ~Ended' PROVE Nearer
    OBVIOUS
  <2>1. FilesInv' /\ ReadingInv'
    BY FilesKept, ReadingKept
  <2>2. (FilesInv /\ ReadingInv /\ ~Ended => Rank \in [1 .. 3 -> Nat])'
    BY Ranked, PTL
  <2>3. Rank' \in [1 .. 3 -> Nat]
    BY <2>1, <2>2
  <2> QED BY <2>3, ReadingKept
<1> QED BY <1>1, FilesInvariant, XxdInvariant, ReadingInvariant, PTL DEF Spec, ReadsOn


=============================================================================
