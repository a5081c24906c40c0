----------------------------- MODULE UshListing -----------------------------
(***************************************************************************)
(* The commands ls and help, which print one piece per call of             *)
(* ush_service and keep pointers into the lists of nodes between the       *)
(* calls, while the application links and unlinks nodes.                   *)
(*                                                                         *)
(* The lists are those of UshLists, the children being those of the        *)
(* directory that is listed.  A piece is printed in the step that hands it *)
(* to ush_write_pointer; the writer comes back to the same state.          *)
(***************************************************************************)
EXTENDS UshLists

CONSTANTS
  Dir,       \* the directory listed by ls
  FilesOf    \* the file list of each node: "described" or "plain" files

ASSUME ListingAssumption ==
  /\ Dir \notin Nodes
  /\ FilesOf \in [Nodes \cup {Dir} -> Seq({"described", "plain"})]

VARIABLES
  state,   \* "OTHER" when no process is served
  command, \* process_file: "ls" or "help"
  node,    \* process_node of help; that of ls is Dir
  child,   \* process_child_node
  index,   \* process_index
  item,    \* process_index_item
  out,     \* the pieces printed since the command began, until it ends
  stayed,  \* the nodes in its list since then
  left     \* the nodes unlinked since then

process == <<command, node, child, index, item>>
vars    == <<lists, state, process, out, stayed, left>>

Shows(piece) == out' = Append(out, piece)

(***************************************************************************)
(* The commands begin: the callbacks of ls and help.                       *)
(***************************************************************************)
Begin(name, list) ==
  /\ state = "OTHER"
  /\ state' = "PROCESS_START" /\ command' = name
  /\ stayed' = ToSet(ListOf(list))
  /\ UNCHANGED <<lists, child, out, left>>

Ls   == Begin("ls", "children") /\ UNCHANGED <<node, index, item>>
Help == Begin("help", "commands") /\ node' = head["commands"] /\ index' = 0 /\ item' = 0

(***************************************************************************)
(* ls: the children, three pieces each, then the files.                    *)
(***************************************************************************)
LsServes(s) == state = s /\ command = "ls"

\* Mutant: a listing takes up the piece the one before was interrupted at.
IndexLeft == index

IndexFirst == 0

LsStart ==
  /\ LsServes("PROCESS_START")
  /\ Shows(<<"dots">>)
  /\ state' = "PROCESS_SERVICE"
  /\ child' = head["children"] /\ index' = IndexFirst
  /\ UNCHANGED <<lists, command, node, item, stayed, left>>

LsChildPiece ==
  /\ LsServes("PROCESS_SERVICE") /\ child # NoNode /\ index < 3
  /\ Shows(<<<<"open">>, <<"name", child>>, <<"close">>>>[index + 1])
  /\ index' = index + 1
  /\ UNCHANGED <<lists, state, command, node, child, item, stayed, left>>

LsChildNext ==
  /\ LsServes("PROCESS_SERVICE") /\ child # NoNode /\ index = 3
  /\ index' = 0 /\ child' = next[child]
  /\ UNCHANGED <<lists, state, command, node, item, out, stayed, left>>

LsChildrenEnd ==
  /\ LsServes("PROCESS_SERVICE") /\ child = NoNode
  /\ index' = 0 /\ item' = 0
  /\ state' = "PROCESS_FINISH"
  /\ UNCHANGED <<lists, command, node, child, out, stayed, left>>

\* What may be printed of a file, ls printing its flags first.
FileSlots(n, i, flags) == flags \o <<<<"file", n, i>>, <<"description", n, i>>, <<"newline">>>>

\* Only a file with a description has that slot printed; the last slot leads
\* to the next file.
SlotAfter(n, i, flags) ==
  IF index = Len(flags) /\ FilesOf[n][i] = "plain" THEN index + 2 ELSE index + 1

\* Mutant: the next slot is the first one, but of the same file.
ItemSame(slots) == item

ItemAfter(slots) == IF index + 1 = Len(slots) THEN item + 1 ELSE item

FileStep(n, flags) ==
  LET slots == FileSlots(n, item + 1, flags)
  IN  /\ item < Len(FilesOf[n])
      /\ Shows(slots[index + 1])
      /\ index' = SlotAfter(n, item + 1, flags) % Len(slots)
      /\ item' = ItemAfter(slots)
      /\ UNCHANGED <<lists, state, command, node, child, stayed, left>>

LsFlags == <<<<"flags">>>>
LsFile == LsServes("PROCESS_FINISH") /\ FileStep(Dir, LsFlags)

Ends == /\ state' = "OTHER"
        /\ out' = << >> /\ stayed' = {} /\ left' = {}
        /\ UNCHANGED <<lists, process>>

LsEnd == /\ LsServes("PROCESS_FINISH")
         /\ item >= Len(FilesOf[Dir])
         /\ Ends

(***************************************************************************)
(* help: the files of every node of commands.                              *)
(***************************************************************************)
HelpServes == state = "PROCESS_START" /\ command = "help"

HelpFile == HelpServes /\ node # NoNode /\ FileStep(node, << >>)

\* Mutant: the node is not left when its files are through.
NodeSame == node

NodeAfter == next[node]

HelpNext ==
  /\ HelpServes /\ node # NoNode
  /\ item >= Len(FilesOf[node])
  /\ index' = 0 /\ item' = 0 /\ node' = NodeAfter
  /\ UNCHANGED <<lists, state, command, child, out, stayed, left>>

HelpEnd == HelpServes /\ node = NoNode /\ Ends

(***************************************************************************)
(* The application between two calls of ush_service: ush_node_mount and    *)
(* ush_commands_add link a node at the head of a list, ush_node_unmount    *)
(* and ush_commands_remove unlink it; ush_print ends the command.  It does *)
(* not link a node it unlinked while the same command ran: the command may *)
(* be at that node, and would be led into another list.                    *)
(***************************************************************************)
Prepend(l, n) ==
  /\ n \notin left
  /\ LinkFirst(l, n)
  /\ UNCHANGED <<state, process, out, stayed, left>>

Unlink(l, n) ==
  /\ UnlinkFrom(l, n)
  /\ stayed' = stayed \ {n}
  /\ left' = IF state = "OTHER" THEN left ELSE left \cup {n}
  /\ UNCHANGED <<state, process, out>>

PrintOver == state # "OTHER" /\ Ends

Init ==
  /\ NothingLinked
  /\ state = "OTHER" /\ command = "ls"
  /\ node = NoNode /\ child = NoNode
  /\ index = 0 /\ item = 0
  /\ out = << >> /\ stayed = {} /\ left = {}

Service == \/ LsStart \/ LsChildPiece \/ LsChildNext \/ LsChildrenEnd \/ LsFile \/ LsEnd
           \/ HelpFile \/ HelpNext \/ HelpEnd

Application == \/ \E l \in Lists, n \in Nodes : Prepend(l, n) \/ Unlink(l, n)
               \/ PrintOver

Next == Ls \/ Help \/ Service \/ Application

Spec == Init /\ [][Next]_vars
FairSpec == Spec /\ WF_vars(Service)

-----------------------------------------------------------------------------
Kind(piece) == piece[1]

\* What may follow a piece of the output.
Follow(piece) ==
  CASE Kind(piece) = "open"        -> {"name"}
    [] Kind(piece) = "name"        -> {"close"}
    [] Kind(piece) \in {"dots", "close"} -> {"open", "flags"}
    [] Kind(piece) = "flags"       -> {"file"}
    [] Kind(piece) = "file"        -> IF FilesOf[piece[2]][piece[3]] = "described"
                                      THEN {"description"} ELSE {"newline"}
    [] Kind(piece) = "description" -> {"newline"}
    [] Kind(piece) = "newline"     -> IF command = "ls" THEN {"flags"} ELSE {"file"}

\* Rows are printed whole and in order, whatever the listing before was
\* interrupted at and whatever is linked or unlinked meanwhile.
RowsWhole ==
  /\ out # << >> => Kind(out[1]) = IF command = "ls" THEN "dots" ELSE "file"
  /\ \A i \in 1 .. Len(out) - 1 : Kind(out[i + 1]) \in Follow(out[i])

\* No directory and no file is listed twice.
ListsOnce ==
  \A i, j \in 1 .. Len(out) :
    out[i] = out[j] /\ Kind(out[i]) \in {"name", "file"} => i = j

\* The rows a command owes: the nodes that were in its list all the time it
\* ran, and for ls the files of the directory.
Owed == IF command = "ls"
        THEN {<<"name", n>> : n \in stayed}
               \cup {<<"file", Dir, i>> : i \in DOMAIN FilesOf[Dir]}
        ELSE UNION {{<<"file", n, i>> : i \in DOMAIN FilesOf[n]} : n \in stayed}

\* A command that comes to its end has listed all it owes: a node unlinked
\* under it still leads it to the rest of the list.
ListsAll == [][LsEnd \/ HelpEnd => Owed \subseteq ToSet(out)]_vars

\* The pointers are lists, and linking and unlinking change the one list as
\* they would a sequence, and no other, whatever pointers nodes that were
\* unlinked before have kept.
KeepsLists ==
  [][/\ left' \cap Linked' = {}
     /\ lists' # lists =>
          \E l \in Lists :
            /\ \A k \in Lists \ {l} : ListOf(k)' = ListOf(k)
            /\ LET old == ListOf(l)
                   new == ListOf(l)'
               IN  \/ \E n \in Nodes \ Linked : new = <<n>> \o old
                   \/ \E i \in DOMAIN old : old[i] \notin stayed' /\ new = RemoveAt(old, i)]_vars

\* What a command has still before it, as it takes it up: its phases, the nodes
\* its pointer leads to, the files of the node it is at, and the pieces of the
\* row begun.
Rank ==
  CASE LsServes("PROCESS_START")   -> <<2, 0, 0, 0>>
    [] LsServes("PROCESS_SERVICE") -> <<1, Cardinality(ToSet(NodesFrom(child))), 0, 3 - index>>
    [] LsServes("PROCESS_FINISH")  -> <<0, 0, Len(FilesOf[Dir]) - item, 4 - index>>
    [] command = "help" /\ node = NoNode -> <<0, 0, 0, 0>>
    [] command = "help" /\ node # NoNode ->
         <<0, Cardinality(ToSet(NodesFrom(node))), Len(FilesOf[node]) - item, 3 - index>>

\* The order of ranks: by their first difference.
Below(r, s) == \E k \in 1 .. 4 : r[k] < s[k] /\ \A j \in 1 .. k - 1 : r[j] = s[j]

\* Every call of ush_service that does not end a command brings its end nearer,
\* and nothing that is linked or unlinked under it puts the end off.
Advances ==
  [][state' # "OTHER" =>
       /\ Rank' \in [1 .. 4 -> Nat]
       /\ state # "OTHER" => Below(Rank', Rank) \/ (lists' # lists /\ Rank' = Rank)]_vars

\* Every listing ends, if ush_service goes on being called.
ListingEnds == (state # "OTHER") ~> (state = "OTHER")

=============================================================================
