---------------------------- MODULE UshAutocomp ----------------------------
(***************************************************************************)
(* Autocompletion: a key press starts a search through the files of the    *)
(* global commands, the files of the current directory and the directories *)
(* in it, one look per call of ush_service, and the line that is edited is *)
(* extended in place from what was found.  Meanwhile the application links *)
(* and unlinks nodes, and prints.                                          *)
(*                                                                         *)
(* The bytes of the buffer are kept, and some memory behind it.  A string  *)
(* is on the terminal in the step that hands it to ush_write_pointer; the  *)
(* writer comes back to the state it is given.  Names and words are free   *)
(* of "/" and ".": no name of a file or directory has a slash in it, so a  *)
(* word that has one is completed to nothing.                              *)
(***************************************************************************)
EXTENDS UshLists

CONSTANTS
  InSize,    \* input_buffer_size
  LineMax,   \* the longest line that is typed
  NameMax,   \* the longest name offered
  Letters,   \* bytes of names
  Cwd,       \* current_node
  FilesOf,   \* the names of the files of each node
  NameOf     \* the last name of the path of each node

Names == {NameOf[n] : n \in Nodes} \cup UNION {ToSet(FilesOf[n]) : n \in Nodes \cup {Cwd}}

ASSUME AutocompAssumption ==
  /\ InSize \in Nat \ {0} /\ LineMax \in 0 .. InSize /\ NameMax \in Nat
  /\ {"SP", "NUL", "OTHER"} \cap Letters = {}
  /\ Cwd \notin Nodes \cup {NoNode}
  /\ FilesOf \in [Nodes \cup {Cwd} -> Seq(Seq(Letters) \ {<< >>})]
  /\ NameOf \in [Nodes -> Seq(Letters) \ {<< >>}]
  /\ \A name \in Names : Len(name) <= NameMax

\* The input buffer, and as much memory behind it as a name can reach, which
\* holds other things.
Memory == 0 .. InSize + NameMax
Bytes  == Letters \cup {"SP", "NUL", "OTHER"}

VARIABLES
  state,      \* ush_object.state, without its prefixes
  prev,       \* autocomp_prev_state
  stage,      \* process_stage
  node,       \* process_node
  index,      \* process_index
  item,       \* process_index_item
  count,      \* autocomp_count
  prevCount,  \* autocomp_prev_count
  suffixLen,  \* autocomp_suffix_len
  candidate,  \* the string at autocomp_candidate_name
  input,      \* autocomp_input, as an offset into the buffer
  buf,        \* the bytes of memory from the input buffer on
  inPos,      \* in_pos
  row,        \* the row of the terminal the cursor is in, behind its prompt
  listed,     \* the rows printed since the key press
  asked,      \* the line at the key press, << >> while it is edited
  joined,     \* nodes linked into a list since the key press
  gone        \* nodes unlinked from a list since then

walk    == <<stage, node, index, item>>
tally   == <<count, prevCount, suffixLen, candidate>>
typed   == <<buf, inPos>>
changes == <<asked, joined, gone>>
vars    == <<lists, state, prev, walk, tally, input, typed, row, listed, changes>>

StringAt(memory, p) ==
  LET end == Min({q \in Memory : q >= p /\ memory[q] = "NUL"} \cup {InSize + NameMax + 1})
  IN  [i \in 1 .. end - p |-> memory[p + i - 1]]

Line  == StringAt(buf, 0)
Input == StringAt(buf, input)

Wrapped(p) == IF p >= InSize THEN 0 ELSE p

\* Ends at READ_CHAR with the line as it then is.
Returns == /\ state' = "READ_CHAR"
           /\ asked' = << >> /\ joined' = {} /\ gone' = {} /\ listed' = << >>

(***************************************************************************)
(* Editing, as in UshLine.                                                 *)
(***************************************************************************)
StoreAt(p, byte) == [buf EXCEPT ![p] = byte, ![Wrapped(p + 1)] = "NUL"]

Type(key) ==
  /\ state = "READ_CHAR"
  /\ inPos < LineMax
  /\ buf' = StoreAt(inPos, key) /\ inPos' = Wrapped(inPos + 1)
  /\ row' = Append(row, key)
  /\ UNCHANGED <<lists, state, prev, walk, tally, input, listed, changes>>

Backspace ==
  /\ state = "READ_CHAR" /\ inPos > 0
  /\ inPos' = inPos - 1 /\ buf' = [buf EXCEPT ![inPos - 1] = "NUL"]
  /\ row' = Front(row)
  /\ UNCHANGED <<lists, state, prev, walk, tally, input, listed, changes>>

Tab ==
  /\ state = "READ_CHAR"
  /\ state' = "PREPARE"
  /\ asked' = Line
  /\ UNCHANGED <<lists, prev, walk, tally, input, typed, row, listed, joined, gone>>

\* The offset of the last word.  The loop does not look at the first byte: a
\* line whose only space begins it is taken for one word.
LastArg(line) == Max({0} \cup {i \in 1 .. Len(line) : line[i] = "SP" /\ (i > 1 \/ i = Len(line))})

Prepare ==
  /\ state = "PREPARE"
  /\ input' = LastArg(Line)
  /\ state' = "START"
  /\ UNCHANGED <<lists, prev, walk, tally, typed, row, listed, changes>>

(***************************************************************************)
(* The search.                                                             *)
(***************************************************************************)
PrepareCandidates ==
  count' = 0 /\ stage' = 0 /\ node' = head["commands"] /\ index' = 0 /\ item' = 0

Start ==
  /\ state = "START"
  /\ state' = "COUNT"
  /\ prevCount' = 0 /\ suffixLen' = 0 /\ PrepareCandidates
  /\ UNCHANGED <<lists, prev, candidate, input, typed, row, listed, changes>>

Searching == state \in {"COUNT", "OPTIMISE", "PRINT"}

\* Mutant: the directories are not walked through.
FirstOfStageFiles == NoNode

\* Where the next stage begins.
FirstOfStage == IF stage = 0 THEN Cwd ELSE head["children"]

StageEnds ==
  /\ Searching /\ node = NoNode /\ stage < 2
  /\ stage' = stage + 1 /\ node' = FirstOfStage
  /\ index' = 0 /\ item' = 0
  /\ UNCHANGED <<lists, state, prev, tally, input, typed, row, listed, changes>>

SearchEnds ==
  /\ Searching /\ node = NoNode /\ stage = 2
  /\ prev' = state /\ state' = "FINISH"
  /\ UNCHANGED <<lists, walk, tally, input, typed, row, listed, changes>>

\* Mutant: a node without more files is looked at again.
NodeKept == IF stage = 0 THEN node ELSE NoNode

\* The node behind one whose files are through.
NodeBehind == IF stage = 0 THEN next[node] ELSE NoNode

FilesThrough == stage < 2 /\ item >= Len(FilesOf[node])

NodeEnds ==
  /\ Searching /\ node # NoNode /\ FilesThrough
  /\ item' = 0 /\ node' = NodeBehind
  /\ UNCHANGED <<lists, state, prev, stage, index, tally, input, typed, row, listed, changes>>

\* The name looked at, when there is one.
AtName == Searching /\ node # NoNode /\ ~FilesThrough
Name   == IF stage < 2 THEN FilesOf[node][item + 1] ELSE NameOf[node]

Advance ==
  /\ index' = 0
  /\ IF stage < 2 THEN item' = item + 1 /\ node' = node
                  ELSE item' = item /\ node' = next[node]
  /\ UNCHANGED <<lists, state, prev, stage, input, typed, changes>>

Skip ==
  /\ AtName /\ ~IsPrefix(Input, Name)
  /\ Advance
  /\ UNCHANGED <<tally, row, listed>>

\* The candidate is counted, and printed by the state that prints.
Count ==
  /\ AtName /\ IsPrefix(Input, Name) /\ index = 0
  /\ index' = 1 /\ count' = count + 1 /\ candidate' = Name
  /\ row' = IF state = "PRINT" THEN row \o Name ELSE row
  /\ UNCHANGED <<lists, state, prev, stage, node, item, prevCount, suffixLen, input, typed,
                 listed, changes>>

EndRow ==
  /\ AtName /\ IsPrefix(Input, Name) /\ index = 1
  /\ index' = 2
  /\ IF state = "PRINT" THEN row' = << >> /\ listed' = Append(listed, row)
                        ELSE UNCHANGED <<row, listed>>
  /\ UNCHANGED <<lists, state, prev, stage, node, item, tally, input, typed, changes>>

Pass ==
  /\ AtName /\ IsPrefix(Input, Name) /\ index = 2
  /\ Advance
  /\ UNCHANGED <<tally, row, listed>>

(***************************************************************************)
(* What is made of the candidates.                                         *)
(***************************************************************************)
Finishing(after) == state = "FINISH" /\ prev = after

FinishNone ==
  /\ Finishing("COUNT") /\ count = 0
  /\ Returns
  /\ UNCHANGED <<lists, prev, walk, tally, input, typed, row>>

\* strcpy of a name to a place in memory.
Copied(name, to) ==
  [p \in Memory |->
     IF p \in to .. to + Len(name) - 1 THEN name[p - to + 1]
     ELSE IF p = to + Len(name) THEN "NUL" ELSE buf[p]]

\* Mutant: the candidate is put behind the word.
CopiedBehind == Copied(candidate, input + Len(Input))

CopiedOver == Copied(candidate, input)

\* Mutant: in_pos stays where it was.
PosKept == inPos

PosAfterCopy == Len(StringAt(CopiedOver, 0))

FinishOne ==
  /\ Finishing("COUNT") /\ count = 1
  /\ Returns
  /\ buf' = CopiedOver /\ inPos' = PosAfterCopy
  /\ row' = row \o SubSeq(candidate, Len(Input) + 1, Len(candidate))
  /\ UNCHANGED <<lists, prev, walk, tally, input>>

\* The last candidate has another byte: it is tried, and the candidates are
\* counted again.
Extend(suffixBefore) ==
  /\ Len(Input) < Len(candidate)
  /\ buf' = StoreAt(inPos, candidate[Len(Input) + 1]) /\ inPos' = Wrapped(inPos + 1)
  /\ suffixLen' = suffixBefore + 1
  /\ prevCount' = count /\ PrepareCandidates
  /\ state' = "OPTIMISE"
  /\ UNCHANGED <<lists, prev, candidate, input, row, listed, changes>>

Extended(suffixBefore) ==
  /\ Len(Input) >= Len(candidate)
  /\ state' = "RECALL_SUFFIX"
  /\ suffixLen' = suffixBefore /\ prevCount' = count
  /\ UNCHANGED <<lists, prev, walk, count, candidate, input, typed, row, listed, changes>>

FinishMany == Finishing("COUNT") /\ count > 1 /\ (Extend(0) \/ Extended(0))

\* Mutant: a byte that loses one candidate is kept.
LostSome == count + 1 < prevCount

Lost == count < prevCount

\* The byte tried does not belong to all of them.
FinishDrop ==
  /\ Finishing("OPTIMISE") /\ Lost
  /\ state' = "RECALL_SUFFIX"
  /\ inPos' = IF inPos > 0 THEN inPos - 1 ELSE 0
  /\ buf' = [buf EXCEPT ![inPos'] = "NUL"]
  /\ suffixLen' = suffixLen - 1
  /\ UNCHANGED <<lists, prev, walk, count, prevCount, candidate, input, row, listed, changes>>

FinishOptimise ==
  Finishing("OPTIMISE") /\ ~Lost /\ (Extend(suffixLen) \/ Extended(suffixLen))

\* The bytes found are shown, or the candidates listed if there are none.
Suffix == SubSeq(Input, Len(Input) - suffixLen + 1, Len(Input))

RecallSuffix ==
  /\ state = "RECALL_SUFFIX" /\ Suffix # << >>
  /\ Returns
  /\ row' = row \o Suffix
  /\ UNCHANGED <<lists, prev, walk, tally, input, typed>>

BeginPrint ==
  /\ state = "RECALL_SUFFIX" /\ Suffix = << >>
  /\ state' = "PRINT"
  /\ PrepareCandidates
  /\ row' = << >>
  /\ UNCHANGED <<lists, prev, prevCount, suffixLen, candidate, input, typed, listed, changes>>

FinishPrint ==
  /\ Finishing("PRINT")
  /\ state' = "PROMPT"
  /\ UNCHANGED <<lists, prev, walk, tally, input, typed, row, listed, changes>>

Prompt ==
  /\ state = "PROMPT"
  /\ state' = "RECALL"
  /\ row' = << >>
  /\ UNCHANGED <<lists, prev, walk, tally, input, typed, listed, changes>>

Recall ==
  /\ state = "RECALL"
  /\ Returns
  /\ row' = row \o Line
  /\ UNCHANGED <<lists, prev, walk, tally, input, typed>>

(***************************************************************************)
(* The application.  As under a listing, it does not link a node again     *)
(* that it unlinked while the search ran.                                  *)
(***************************************************************************)
Prepend(l, n) ==
  /\ \A k \in Lists : <<k, n>> \notin gone
  /\ LinkFirst(l, n)
  /\ joined' = IF state = "READ_CHAR" THEN {} ELSE joined \cup {<<l, n>>}
  /\ UNCHANGED <<state, prev, walk, tally, input, typed, row, listed, asked, gone>>

Unlink(l, n) ==
  /\ UnlinkFrom(l, n)
  /\ gone' = IF state = "READ_CHAR" THEN {} ELSE gone \cup {<<l, n>>}
  /\ UNCHANGED <<state, prev, walk, tally, input, typed, row, listed, asked, joined>>

\* The message, then the prompt, an empty line, and whatever was searched for
\* is forgotten.
PrintOver ==
  /\ Returns
  /\ inPos' = 0 /\ buf' = [buf EXCEPT ![0] = "NUL"]
  /\ row' = << >>
  /\ UNCHANGED <<lists, prev, walk, tally, input>>

Init ==
  /\ NothingLinked
  /\ state = "READ_CHAR" /\ prev = "READ_CHAR"
  /\ stage = 0 /\ node = NoNode /\ index = 0 /\ item = 0
  /\ count = 0 /\ prevCount = 0 /\ suffixLen = 0 /\ candidate = << >>
  /\ input = 0
  /\ buf = [p \in Memory |-> IF p < InSize THEN "NUL" ELSE "OTHER"] /\ inPos = 0
  /\ row = << >> /\ listed = << >>
  /\ asked = << >> /\ joined = {} /\ gone = {}

Service ==
  \/ Prepare \/ Start
  \/ StageEnds \/ SearchEnds \/ NodeEnds \/ Skip \/ Count \/ EndRow \/ Pass
  \/ FinishNone \/ FinishOne \/ FinishMany \/ FinishDrop \/ FinishOptimise \/ FinishPrint
  \/ RecallSuffix \/ BeginPrint \/ Prompt \/ Recall

Editing == (\E key \in Letters \cup {"SP"} : Type(key)) \/ Backspace \/ Tab

Application == PrintOver \/ \E l \in Lists, n \in Nodes : Prepend(l, n) \/ Unlink(l, n)

Next == Editing \/ Service \/ Application

Spec == Init /\ [][Next]_vars
FairSpec == Spec /\ WF_vars(Service)

-----------------------------------------------------------------------------
\* The memory behind the input buffer is not the shell's to write: a name that
\* is completed ends inside the buffer (strcpy in candidates_finish).
KeepsToBuffer == \A p \in Memory : p >= InSize => buf[p] = "OTHER"

\* Whenever a byte is awaited the terminal shows the line in the buffer and
\* in_pos is behind it, after completing one candidate, a common beginning, or
\* listing them below and recalling the line.
ScreenShowsLine == state = "READ_CHAR" => row = Line /\ inPos = Len(Line)

\* The entries of the lists, as pairs of a list and a node.
Entries == UNION {{<<l, n>> : n \in ToSet(ListOf(l))} : l \in Lists}

NamesIn(entries) ==
  ToSet(FilesOf[Cwd])
    \cup UNION {IF e[1] = "children" THEN {NameOf[e[2]]} ELSE ToSet(FilesOf[e[2]]) : e \in entries}

\* Candidates that are listed are all there: every name that begins with the
\* word and was offered all the time since the key press is in a row of its
\* own, and every row is a name offered some time since then.
ListsCandidates ==
  [][FinishPrint =>
       LET matching(entries) == {name \in NamesIn(entries) : IsPrefix(Input, name)}
       IN  /\ matching(Entries \ joined) \subseteq ToSet(listed)
           /\ ToSet(listed) \subseteq matching(Entries \cup joined \cup gone)]_vars

\* Every search comes back to the editor, however nodes come and go, if
\* ush_service goes on being called.
TabReturns == (state # "READ_CHAR") ~> (state = "READ_CHAR")

In(step) == state = step \/ Finishing(step)

\* What a search has still before it: its phases, the bytes that can be tried,
\* the stages of the count, the nodes its pointer leads to, the files of the node
\* it is at, and the pieces of the row begun.
PhasesLeft ==
  CASE state = "PREPARE"       -> 7
    [] state = "START"         -> 6
    [] In("COUNT")             -> 5
    [] In("OPTIMISE")          -> 4
    [] state = "RECALL_SUFFIX" -> 3
    [] In("PRINT")             -> 2
    [] state = "PROMPT"        -> 1
    [] state = "RECALL"        -> 0

BytesLeft  == IF In("OPTIMISE") THEN NameMax - Len(Input) ELSE 0
StagesLeft == IF Searching THEN 3 - stage ELSE 0
NodesLeft  == IF ~Searching \/ node = NoNode THEN 0
              ELSE IF stage = 1 THEN 1 ELSE Cardinality(ToSet(NodesFrom(node)))
FilesLeft  == IF Searching /\ stage < 2 /\ node # NoNode THEN Len(FilesOf[node]) - item ELSE 0
PiecesLeft == IF Searching THEN 2 - index ELSE 0

Rank == <<PhasesLeft, BytesLeft, StagesLeft, NodesLeft, FilesLeft, PiecesLeft>>

\* The order of ranks: by their first difference.
Below(r, s) == \E k \in 1 .. 6 : r[k] < s[k] /\ \A j \in 1 .. k - 1 : r[j] = s[j]

\* Every call of ush_service that does not come back to the editor brings the
\* search nearer to its end, though a byte tried makes it count all names again,
\* and nothing that is linked or unlinked under it puts the end off.
TabAdvances ==
  [][state' # "READ_CHAR" =>
       /\ Rank' \in [1 .. 6 -> Nat]
       /\ state # "READ_CHAR" => Below(Rank', Rank) \/ (lists' # lists /\ Rank' = Rank)]_vars

C == INSTANCE Completion WITH
       Keys <- Letters \cup {"SP"}, AllNames <- Names,
       line <- IF state = "READ_CHAR" THEN Line ELSE asked,
       phase <- IF state = "READ_CHAR" THEN "edit" ELSE "search",
       offers <- NamesIn(Entries),
       seen <- IF state = "READ_CHAR" THEN {} ELSE NamesIn(Entries \cup joined \cup gone),
       steady <- joined = {} /\ gone = {}

\* The search is, for the line, the one step of the abstract completion.
RefinesCompletion == C!Spec

=============================================================================
