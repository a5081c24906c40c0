-------------------------- MODULE UshListingProofs --------------------------
(***************************************************************************)
(* Proofs about UshListing, for every set of nodes and every list of       *)
(* files: rows are printed whole; the pointers stay lists whatever is      *)
(* linked and unlinked; and a listing shows each row once and all it owes. *)
(***************************************************************************)
EXTENDS UshListing, SequenceTheorems, FiniteSetTheorems, Induction, TLAPS

Pointers == Nodes \cup {NoNode}

\* The pieces of files, by kind, node and number.
FilePieces == {"file", "description"} \X (Nodes \cup {Dir}) \X Nat

Pieces == {<<"dots">>, <<"open">>, <<"close">>, <<"flags">>, <<"newline">>}
            \cup {<<"name", n>> : n \in Nodes} \cup FilePieces

TypeInv ==
  /\ state \in {"OTHER", "PROCESS_START", "PROCESS_SERVICE", "PROCESS_FINISH"}
  /\ command \in {"ls", "help"}
  /\ index \in Nat /\ item \in Nat
  /\ next \in [Nodes -> Pointers] /\ head \in [Lists -> Pointers]
  /\ node \in Pointers /\ child \in Pointers
  /\ out \in Seq(Pieces)

LastPiece == out[Len(out)]

\* The file piece of the row begun, when it has a description or when it has
\* not: what has to follow is the slot the index is at.
FileBegun(n, described, atNewline) ==
  /\ item < Len(FilesOf[n])
  /\ index = described  => /\ LastPiece = <<"file", n, item + 1>>
                           /\ FilesOf[n][item + 1] = "described"
  /\ index = atNewline  => "newline" \in Follow(LastPiece)

\* ls among the children: the index says which piece came last.
LsChildrenInv ==
  LsServes("PROCESS_SERVICE") =>
    /\ out # << >> /\ index \in 0 .. 3
    /\ child = NoNode => index = 0
    /\ Kind(LastPiece) \in CASE index = 0 -> {"dots", "close"} [] index = 1 -> {"open"}
                             [] index = 2 -> {"name"} [] index = 3 -> {"close"}

LsFilesInv ==
  LsServes("PROCESS_FINISH") =>
    /\ out # << >> /\ index \in 0 .. 3
    /\ index = 0 => Kind(LastPiece) \in {"dots", "close", "newline"}
    /\ index = 1 => Kind(LastPiece) = "flags"
    /\ index # 0 => FileBegun(Dir, 2, 3)

HelpInv ==
  HelpServes =>
    /\ index \in 0 .. 2
    /\ index = 0 => out = << >> \/ Kind(LastPiece) = "newline"
    /\ index # 0 => out # << >> /\ node # NoNode /\ FileBegun(node, 1, 2)

\* Nothing is printed before a command begins, by ls before its dots.
QuietInv == (state = "OTHER" \/ LsServes("PROCESS_START")) => out = << >>

\* help is served in one state only.
HelpState == command = "help" => state \in {"OTHER", "PROCESS_START"}

ListingInv ==
  TypeInv /\ QuietInv /\ HelpState /\ LsChildrenInv /\ LsFilesInv /\ HelpInv /\ RowsWhole

-----------------------------------------------------------------------------
\* The slots of a file, in order.
LEMMA OneInFront ==
  ASSUME NEW a, NEW b, NEW c, NEW d
  PROVE  LET s == <<a>> \o <<b, c, d>>
         IN  Len(s) = 4 /\ s[1] = a /\ s[2] = b /\ s[3] = c /\ s[4] = d
<1> DEFINE S == {a, b, c, d}
<1>1. <<a>> \in Seq(S) /\ <<b, c, d>> \in Seq(S) /\ Len(<<a>>) = 1 /\ Len(<<b, c, d>>) = 3
  OBVIOUS
<1> HIDE DEF S
<1>2. /\ Len(<<a>> \o <<b, c, d>>) = 1 + 3
      /\ \A i \in 1 .. 1 + 3 : (<<a>> \o <<b, c, d>>)[i] = IF i <= 1 THEN <<a>>[i] ELSE <<b, c, d>>[i - 1]
  BY ONLY <1>1, ConcatProperties
<1>3. /\ <<a>>[1] = a /\ <<b, c, d>>[2 - 1] = b
      /\ <<b, c, d>>[3 - 1] = c /\ <<b, c, d>>[4 - 1] = d
  OBVIOUS
<1> QED BY ONLY <1>2, <1>3

LEMMA SlotsOfLs ==
  ASSUME NEW n, NEW i
  PROVE  LET slots == FileSlots(n, i, LsFlags)
         IN  /\ Len(slots) = 4 /\ Len(LsFlags) = 1
             /\ slots[1] = <<"flags">> /\ slots[2] = <<"file", n, i>>
             /\ slots[3] = <<"description", n, i>> /\ slots[4] = <<"newline">>
  BY OneInFront DEF FileSlots, LsFlags

LEMMA SlotsOfHelp ==
  ASSUME NEW n, NEW i
  PROVE  FileSlots(n, i, << >>) = <<<<"file", n, i>>, <<"description", n, i>>, <<"newline">>>>
  BY DEF FileSlots

LEMMA PiecesOfFile ==
  ASSUME NEW n \in Nodes \cup {Dir}, NEW i \in Nat
  PROVE  {<<"file", n, i + 1>>, <<"description", n, i + 1>>} \subseteq Pieces
<1>1. i + 1 \in Nat
  OBVIOUS
<1>2. ASSUME NEW kind \in {"file", "description"} PROVE <<kind, n, i + 1>> \in FilePieces
  BY <1>1 DEF FilePieces
<1> QED BY <1>2 DEF Pieces

\* One more piece keeps the rows whole if it may follow the last, or begins
\* the output as the command does.
LEMMA OneMorePiece ==
  ASSUME TypeInv, RowsWhole, NEW piece \in Pieces, Shows(piece), command' = command,
         IF out = << >> THEN Kind(piece) = IF command = "ls" THEN "dots" ELSE "file"
                        ELSE Kind(piece) \in Follow(LastPiece)
  PROVE  /\ RowsWhole'
         /\ out' \in Seq(Pieces) /\ out' # << >> /\ LastPiece' = piece
<1>1. /\ out' \in Seq(Pieces) /\ Len(out') = Len(out) + 1 /\ Len(out) \in Nat
      /\ out'[Len(out) + 1] = piece
      /\ \A i \in 1 .. Len(out) : out'[i] = out[i]
  BY DEF TypeInv, Shows
<1>2. out' # << >> /\ LastPiece' = piece
  BY <1>1 DEF LastPiece
<1>3. Kind(out'[1]) = IF command' = "ls" THEN "dots" ELSE "file"
  <2>1. CASE out = << >>
    BY <1>1, <2>1
  <2>2. CASE out # << >>
    <3>1. Len(out) >= 1
      BY <1>1, <2>2 DEF TypeInv
    <3> QED BY <1>1, <2>2, <3>1 DEF RowsWhole
  <2> QED BY <2>1, <2>2
<1>4. ASSUME NEW i \in 1 .. Len(out) + 1 - 1
      PROVE  Kind(out[i + 1])' \in Follow(out[i])'
  <2>1. Follow(out[i])' = Follow(out[i])
    <3>1. out[i]' = out[i]
      BY <1>1
    <3> QED BY <3>1 DEF Follow
  <2>2. CASE i = Len(out)
    <3>1. out # << >>
      BY <1>1, <2>2
    <3>2. Kind(piece) \in Follow(out[i])
      BY <2>2, <3>1 DEF LastPiece
    <3> QED BY <1>1, <2>1, <2>2, <3>2
  <2>3. CASE i # Len(out)
    <3>1. i \in 1 .. Len(out) - 1 /\ i + 1 \in 1 .. Len(out)
      BY <1>1, <2>3
    <3> QED BY <1>1, <2>1, <3>1 DEF RowsWhole
  <2> QED BY <2>2, <2>3
<1> QED BY <1>1, <1>2, <1>3, <1>4 DEF RowsWhole

-----------------------------------------------------------------------------
\* A piece of a file's row, with its flags or without, is the one that has to
\* follow, and leaves the index where the next one is.
LEMMA LsFileKept == ListingInv /\ LsFile => ListingInv'
<1> SUFFICES ASSUME ListingInv, LsFile PROVE ListingInv'
  OBVIOUS
<1> USE DEF ListingInv
<1>1. /\ state = "PROCESS_FINISH" /\ command = "ls" /\ item < Len(FilesOf[Dir])
      /\ UNCHANGED <<lists, state, command, node, child, stayed, left>>
  BY DEF LsFile, LsServes, FileStep
<1>2. /\ out # << >> /\ index \in 0 .. 3 /\ item \in Nat
      /\ FilesOf[Dir] \in Seq({"described", "plain"}) /\ Dir \notin Nodes
  BY <1>1, ListingAssumption DEF LsFilesInv, LsServes, TypeInv
<1>3. FilesOf[Dir][item + 1] \in {"described", "plain"}
  BY <1>1, <1>2
<1> DEFINE slots == FileSlots(Dir, item + 1, LsFlags)
<1>4. /\ Shows(slots[index + 1])
      /\ index' = (IF index = 1 /\ FilesOf[Dir][item + 1] = "plain" THEN index + 2 ELSE index + 1) % 4
      /\ item' = IF index + 1 = 4 THEN item + 1 ELSE item
  BY SlotsOfLs DEF LsFile, FileStep, SlotAfter, ItemAfter
<1>5. /\ slots[1] = <<"flags">> /\ slots[2] = <<"file", Dir, item + 1>>
      /\ slots[3] = <<"description", Dir, item + 1>> /\ slots[4] = <<"newline">>
  BY SlotsOfLs
<1> HIDE DEF slots
<1>6. slots[index + 1] \in Pieces
  <2>1. {slots[1], slots[2], slots[3], slots[4]} \subseteq Pieces
    BY <1>2, <1>5, PiecesOfFile DEF Pieces
  <2> QED BY <1>2, <2>1
<1>7. Kind(slots[index + 1]) \in Follow(LastPiece)
  <2>1. CASE index = 0
    BY <1>1, <1>5, <2>1 DEF LsFilesInv, LsServes, Follow, Kind
  <2>2. CASE index = 1
    BY <1>1, <1>5, <2>2 DEF LsFilesInv, LsServes, Follow, Kind
  <2>3. CASE index = 2
    BY <1>1, <1>2, <1>5, <2>3 DEF LsFilesInv, FileBegun, LsServes, Follow, Kind
  <2>4. CASE index = 3
    BY <1>1, <1>5, <2>4 DEF LsFilesInv, FileBegun, LsServes, Kind
  <2> QED BY <1>2, <2>1, <2>2, <2>3, <2>4
<1>8. /\ RowsWhole' /\ out' \in Seq(Pieces) /\ out' # << >>
      /\ LastPiece' = slots[index + 1]
  BY <1>1, <1>2, <1>4, <1>6, <1>7, OneMorePiece
<1>9. TypeInv'
  BY <1>1, <1>2, <1>4, <1>8 DEF TypeInv, lists
<1>10. LsFilesInv'
  <2>1. CASE index = 0
    BY <1>1, <1>2, <1>4, <1>5, <1>8, <2>1 DEF LsFilesInv, FileBegun, Kind
  <2>2. CASE index = 1 /\ FilesOf[Dir][item + 1] = "plain"
    <3>1. index' = 3 /\ item' = item /\ LastPiece' = <<"file", Dir, item + 1>>
      BY <1>4, <1>5, <1>8, <2>2
    <3>2. Follow(LastPiece)' = {"newline"}
      BY <3>1, <2>2 DEF Follow, Kind
    <3> QED BY <1>1, <1>8, <3>1, <3>2 DEF LsFilesInv, FileBegun
  <2>3. CASE index = 1 /\ FilesOf[Dir][item + 1] = "described"
    <3>1. index' = 2 /\ item' = item /\ LastPiece' = <<"file", Dir, item + 1>>
      BY <1>4, <1>5, <1>8, <2>3
    <3> QED BY <1>1, <1>8, <2>3, <3>1 DEF LsFilesInv, FileBegun
  <2>4. CASE index = 2
    <3>1. index' = 3 /\ item' = item /\ LastPiece' = <<"description", Dir, item + 1>>
      BY <1>4, <1>5, <1>8, <2>4
    <3>2. Follow(LastPiece)' = {"newline"}
      BY <3>1 DEF Follow, Kind
    <3> QED BY <1>1, <1>8, <3>1, <3>2 DEF LsFilesInv, FileBegun
  <2>5. CASE index = 3
    <3>1. index' = 0 /\ LastPiece' = <<"newline">>
      BY <1>4, <1>5, <1>8, <2>5
    <3> QED BY <1>8, <3>1 DEF LsFilesInv, Kind
  <2> QED BY <1>2, <1>3, <2>1, <2>2, <2>3, <2>4, <2>5
<1> QED
  BY <1>1, <1>8, <1>9, <1>10 DEF QuietInv, HelpState, LsChildrenInv, HelpInv, LsServes, HelpServes

LEMMA HelpFileKept == ListingInv /\ HelpFile => ListingInv'
<1> SUFFICES ASSUME ListingInv, HelpFile PROVE ListingInv'
  OBVIOUS
<1> USE DEF ListingInv
<1>1. /\ state = "PROCESS_START" /\ command = "help" /\ node # NoNode
      /\ item < Len(FilesOf[node])
      /\ UNCHANGED <<lists, state, command, node, child, stayed, left>>
  BY DEF HelpFile, HelpServes, FileStep
<1>2. /\ node \in Nodes /\ index \in 0 .. 2 /\ item \in Nat
      /\ FilesOf[node] \in Seq({"described", "plain"})
  BY <1>1, ListingAssumption DEF HelpInv, HelpServes, TypeInv, Pointers
<1>3. FilesOf[node][item + 1] \in {"described", "plain"}
  BY <1>1, <1>2
<1> DEFINE slots == FileSlots(node, item + 1, << >>)
<1>4. slots = <<<<"file", node, item + 1>>, <<"description", node, item + 1>>, <<"newline">>>>
  BY SlotsOfHelp
<1>5. Len(slots) = 3 /\ Len(<< >>) = 0
  BY <1>4
<1> HIDE DEF slots
<1>6. /\ Shows(slots[index + 1])
      /\ index' = (IF index = 0 /\ FilesOf[node][item + 1] = "plain" THEN index + 2 ELSE index + 1) % 3
      /\ item' = IF index + 1 = 3 THEN item + 1 ELSE item
  <2>1. FileStep(node, << >>)
    BY DEF HelpFile
  <2>2. /\ Shows(slots[index + 1])
        /\ index' = SlotAfter(node, item + 1, << >>) % Len(slots)
        /\ item' = ItemAfter(slots)
    BY <2>1 DEF FileStep, slots
  <2>3. SlotAfter(node, item + 1, << >>)
          = IF index = 0 /\ FilesOf[node][item + 1] = "plain" THEN index + 2 ELSE index + 1
    BY <1>5 DEF SlotAfter
  <2> QED BY <1>5, <2>2, <2>3 DEF ItemAfter
<1>7. /\ slots[1] = <<"file", node, item + 1>>
      /\ slots[2] = <<"description", node, item + 1>> /\ slots[3] = <<"newline">>
  BY <1>4
<1>8. slots[index + 1] \in Pieces
  <2>1. {slots[1], slots[2], slots[3]} \subseteq Pieces
    BY <1>2, <1>7, PiecesOfFile DEF Pieces
  <2> QED BY <1>2, <2>1
<1>9. IF out = << >> THEN Kind(slots[index + 1]) = "file"
                     ELSE Kind(slots[index + 1]) \in Follow(LastPiece)
  <2>1. CASE index = 0
    BY <1>1, <1>7, <2>1 DEF HelpInv, HelpServes, Follow, Kind
  <2>2. CASE index = 1
    <3>1. out # << >> /\ LastPiece = <<"file", node, item + 1>>
          /\ FilesOf[node][item + 1] = "described"
      BY <1>1, <2>2 DEF HelpInv, HelpServes, FileBegun
    <3>2. Follow(LastPiece) = {"description"}
      BY <3>1 DEF Follow, Kind
    <3> QED BY <1>7, <2>2, <3>1, <3>2 DEF Kind
  <2>3. CASE index = 2
    BY <1>1, <1>7, <2>3 DEF HelpInv, FileBegun, HelpServes, Kind
  <2> QED BY <1>2, <2>1, <2>2, <2>3
<1>10. /\ RowsWhole' /\ out' \in Seq(Pieces) /\ out' # << >>
       /\ LastPiece' = slots[index + 1]
  BY <1>1, <1>6, <1>8, <1>9, OneMorePiece
<1>11. TypeInv'
  <2>1. index' \in Nat /\ item' \in Nat
    BY <1>2, <1>6
  <2> QED BY <1>1, <1>10, <2>1 DEF TypeInv, lists
<1>12. HelpInv'
  <2>1. CASE index = 0 /\ FilesOf[node][item + 1] = "plain"
    <3>1. index' = 2 /\ item' = item /\ LastPiece' = <<"file", node, item + 1>>
      BY <1>6, <1>7, <1>10, <2>1
    <3>2. Follow(LastPiece)' = {"newline"}
      BY <3>1, <2>1 DEF Follow, Kind
    <3>3. FileBegun(node, 1, 2)'
      BY <1>1, <3>1, <3>2 DEF FileBegun
    <3> QED BY <1>1, <1>10, <3>1, <3>3 DEF HelpInv
  <2>2. CASE index = 0 /\ FilesOf[node][item + 1] = "described"
    <3>1. index' = 1 /\ item' = item /\ LastPiece' = <<"file", node, item + 1>>
      BY <1>6, <1>7, <1>10, <2>2
    <3> QED BY <1>1, <1>10, <2>2, <3>1 DEF HelpInv, FileBegun
  <2>3. CASE index = 1
    <3>1. index' = 2 /\ item' = item /\ LastPiece' = <<"description", node, item + 1>>
      BY <1>6, <1>7, <1>10, <2>3
    <3>2. Follow(LastPiece)' = {"newline"}
      BY <3>1 DEF Follow, Kind
    <3>3. FileBegun(node, 1, 2)'
      BY <1>1, <3>1, <3>2 DEF FileBegun
    <3> QED BY <1>1, <1>10, <3>1, <3>3 DEF HelpInv
  <2>4. CASE index = 2
    <3>1. index' = 0 /\ LastPiece' = <<"newline">>
      BY <1>6, <1>7, <1>10, <2>4
    <3> QED BY <3>1 DEF HelpInv, Kind
  <2> QED BY <1>2, <1>3, <2>1, <2>2, <2>3, <2>4
<1> QED
  BY <1>1, <1>10, <1>11, <1>12 DEF QuietInv, HelpState, LsChildrenInv, LsFilesInv, LsServes

\* The pieces of a child.
LEMMA LsChildPieceKept == ListingInv /\ LsChildPiece => ListingInv'
<1> SUFFICES ASSUME ListingInv, LsChildPiece PROVE ListingInv'
  OBVIOUS
<1> USE DEF ListingInv
<1>1. /\ state = "PROCESS_SERVICE" /\ command = "ls" /\ child # NoNode /\ index < 3
      /\ index' = index + 1
      /\ UNCHANGED <<lists, state, command, node, child, item, stayed, left>>
  BY DEF LsChildPiece, LsServes
<1>2. child \in Nodes /\ index \in 0 .. 2 /\ out # << >>
  BY <1>1 DEF LsChildrenInv, LsServes, TypeInv, Pointers
<1> DEFINE piece == <<<<"open">>, <<"name", child>>, <<"close">>>>[index + 1]
<1>3. /\ index = 0 => piece = <<"open">>
      /\ index = 1 => piece = <<"name", child>>
      /\ index = 2 => piece = <<"close">>
  OBVIOUS
<1>4. Shows(piece)
  BY DEF LsChildPiece
<1> HIDE DEF piece
<1>5. piece \in Pieces
  BY <1>2, <1>3 DEF Pieces
<1>6. Kind(piece) \in Follow(LastPiece)
  BY <1>1, <1>2, <1>3 DEF LsChildrenInv, LsServes, Follow, Kind
<1>7. /\ RowsWhole' /\ out' \in Seq(Pieces) /\ out' # << >>
      /\ LastPiece' = piece
  BY <1>1, <1>2, <1>4, <1>5, <1>6, OneMorePiece
<1>8. TypeInv'
  BY <1>1, <1>2, <1>7 DEF TypeInv, lists
<1>9. LsChildrenInv'
  BY <1>1, <1>2, <1>3, <1>7 DEF LsChildrenInv, Kind
<1> QED
  BY <1>1, <1>7, <1>8, <1>9 DEF QuietInv, HelpState, LsFilesInv, HelpInv, LsServes, HelpServes

-----------------------------------------------------------------------------
\* Linking and unlinking keep the types of the pointers.
LEMMA ListsTyped ==
  ASSUME TypeInv, NEW l \in Lists, NEW n \in Nodes, LinkFirst(l, n) \/ UnlinkFrom(l, n)
  PROVE  next' \in [Nodes -> Pointers] /\ head' \in [Lists -> Pointers]
<1>1. CASE LinkFirst(l, n)
  BY <1>1 DEF TypeInv, LinkFirst, Pointers
<1>2. CASE UnlinkFrom(l, n)
  <2>1. next[n] \in Pointers /\ HeadAfter(l, n) \in Pointers
    BY DEF TypeInv, HeadAfter
  <2>2. NextAfter(n) \in [Nodes -> Pointers]
    BY <2>1 DEF TypeInv, NextAfter
  <2> QED BY <1>2, <2>1, <2>2 DEF TypeInv, UnlinkFrom
<1> QED BY <1>1, <1>2

\* What the application links and unlinks is none of the rows' concern.
LEMMA OutputKept ==
  ASSUME ListingInv, UNCHANGED <<state, process, out>>,
         next' \in [Nodes -> Pointers], head' \in [Lists -> Pointers]
  PROVE  ListingInv'
<1> USE DEF ListingInv, process
<1>1. TypeInv'
  BY DEF TypeInv
<1>2. QuietInv' /\ HelpState'
  BY DEF QuietInv, HelpState, LsServes
<1>3. LsChildrenInv'
  BY DEF LsChildrenInv, LsServes, LastPiece
<1>4. Follow(LastPiece)' = Follow(LastPiece) /\ LastPiece' = LastPiece
  BY DEF Follow, LastPiece
<1>5. LsFilesInv'
  BY <1>4 DEF LsFilesInv, LsServes, FileBegun
<1>6. HelpInv'
  BY <1>4 DEF HelpInv, HelpServes, FileBegun
<1>7. RowsWhole'
  BY DEF RowsWhole, Follow
<1> QED BY <1>1, <1>2, <1>3, <1>5, <1>6, <1>7

\* A command that is over, or none.
LEMMA EndsKept == ListingInv /\ Ends => ListingInv'
  BY DEF ListingInv, Ends, lists, process, TypeInv, QuietInv, HelpState, LsChildrenInv, LsFilesInv,
         HelpInv, RowsWhole, LsServes, HelpServes, Pieces

LEMMA ListingKept == ListingInv /\ [Next]_vars => ListingInv'
<1> SUFFICES ASSUME ListingInv, [Next]_vars PROVE ListingInv'
  OBVIOUS
<1> USE DEF ListingInv
<1>1. ASSUME Ls PROVE ListingInv'
  <2>1. state = "OTHER" /\ out = << >>
    BY <1>1 DEF Ls, Begin, QuietInv
  <2>2. state' = "PROCESS_START" /\ command' = "ls" /\ out' = << >>
        /\ UNCHANGED <<next, head, child, node, index, item>>
    BY <1>1, <2>1 DEF Ls, Begin, lists
  <2> QED
    BY <2>2 DEF TypeInv, QuietInv, HelpState, LsChildrenInv, LsFilesInv, HelpInv, RowsWhole,
                LsServes, HelpServes
<1>2. ASSUME Help PROVE ListingInv'
  <2>1. state = "OTHER" /\ out = << >>
    BY <1>2 DEF Help, Begin, QuietInv
  <2>2. state' = "PROCESS_START" /\ command' = "help" /\ out' = << >>
        /\ UNCHANGED <<next, head, child>>
        /\ node' = head["commands"] /\ index' = 0 /\ item' = 0
    BY <1>2, <2>1 DEF Help, Begin, lists
  <2>3. node' \in Pointers
    BY <2>2 DEF TypeInv, Lists
  <2> QED
    BY <2>2, <2>3 DEF TypeInv, QuietInv, HelpState, LsChildrenInv, LsFilesInv, HelpInv, RowsWhole,
                      LsServes, HelpServes
<1>3. ASSUME LsStart PROVE ListingInv'
  <2>1. /\ state = "PROCESS_START" /\ command = "ls" /\ out = << >> /\ Shows(<<"dots">>)
        /\ state' = "PROCESS_SERVICE" /\ child' = head["children"] /\ index' = 0
        /\ UNCHANGED <<next, head, command, node, item>>
    BY <1>3 DEF LsStart, LsServes, IndexFirst, QuietInv, lists
  <2>2. <<"dots">> \in Pieces /\ Kind(<<"dots">>) = "dots"
    BY DEF Pieces, Kind
  <2>3. /\ RowsWhole' /\ out' \in Seq(Pieces) /\ out' # << >>
        /\ LastPiece' = <<"dots">>
    BY <2>1, <2>2, OneMorePiece
  <2>4. TypeInv'
    BY <2>1, <2>3 DEF TypeInv, Lists
  <2> QED
    BY <2>1, <2>2, <2>3, <2>4
       DEF QuietInv, HelpState, LsChildrenInv, LsFilesInv, HelpInv, LsServes, HelpServes, Kind
<1>4. ASSUME LsChildPiece PROVE ListingInv'
  BY <1>4, LsChildPieceKept
<1>5. ASSUME LsChildNext PROVE ListingInv'
  <2>1. /\ state = "PROCESS_SERVICE" /\ command = "ls" /\ index = 3 /\ child \in Nodes
        /\ index' = 0 /\ child' = next[child]
        /\ UNCHANGED <<next, head, state, command, node, item, out>>
    BY <1>5 DEF LsChildNext, LsServes, lists, TypeInv, Pointers
  <2>2. Kind(LastPiece) = "close" /\ out # << >>
    BY <2>1 DEF LsChildrenInv, LsServes
  <2>3. TypeInv' /\ RowsWhole' /\ LastPiece' = LastPiece
    BY <2>1 DEF TypeInv, RowsWhole, Follow, LastPiece
  <2> QED
    BY <2>1, <2>2, <2>3
       DEF QuietInv, HelpState, LsChildrenInv, LsFilesInv, HelpInv, LsServes, HelpServes, Kind
<1>6. ASSUME LsChildrenEnd PROVE ListingInv'
  <2>1. /\ state = "PROCESS_SERVICE" /\ command = "ls" /\ child = NoNode
        /\ index' = 0 /\ item' = 0 /\ state' = "PROCESS_FINISH"
        /\ UNCHANGED <<next, head, command, node, child, out>>
    BY <1>6 DEF LsChildrenEnd, LsServes, lists
  <2>2. Kind(LastPiece) \in {"dots", "close"} /\ out # << >>
    BY <2>1 DEF LsChildrenInv, LsServes
  <2>3. TypeInv' /\ RowsWhole' /\ LastPiece' = LastPiece
    BY <2>1 DEF TypeInv, RowsWhole, Follow, LastPiece
  <2> QED
    BY <2>1, <2>2, <2>3
       DEF QuietInv, HelpState, LsChildrenInv, LsFilesInv, HelpInv, LsServes, HelpServes, Kind
<1>7. ASSUME LsFile PROVE ListingInv'
  BY <1>7, LsFileKept
<1>8. ASSUME LsEnd \/ HelpEnd \/ PrintOver PROVE ListingInv'
  BY <1>8, EndsKept DEF LsEnd, HelpEnd, PrintOver
<1>9. ASSUME HelpFile PROVE ListingInv'
  BY <1>9, HelpFileKept
<1>10. ASSUME HelpNext PROVE ListingInv'
  <2>1. /\ state = "PROCESS_START" /\ command = "help" /\ node # NoNode
        /\ item >= Len(FilesOf[node])
        /\ index' = 0 /\ item' = 0 /\ node' = next[node]
        /\ UNCHANGED <<next, head, state, command, child, out>>
    BY <1>10 DEF HelpNext, HelpServes, NodeAfter, lists
  <2>2. node \in Nodes /\ FilesOf[node] \in Seq({"described", "plain"})
    BY <2>1, ListingAssumption DEF TypeInv, Pointers
  <2>3. index = 0
    BY <2>1, <2>2 DEF HelpInv, HelpServes, FileBegun, TypeInv
  <2>4. out = << >> \/ Kind(LastPiece) = "newline"
    BY <2>1, <2>3 DEF HelpInv, HelpServes
  <2>5. TypeInv' /\ RowsWhole' /\ LastPiece' = LastPiece
    BY <2>1, <2>2 DEF TypeInv, RowsWhole, Follow, LastPiece
  <2> QED
    BY <2>1, <2>4, <2>5
       DEF QuietInv, HelpState, LsChildrenInv, LsFilesInv, HelpInv, LsServes, HelpServes, Kind
<1>11. ASSUME NEW l \in Lists, NEW n \in Nodes, Prepend(l, n) \/ Unlink(l, n)
       PROVE  ListingInv'
  BY <1>11, ListsTyped, OutputKept DEF Prepend, Unlink
<1>12. ASSUME UNCHANGED vars PROVE ListingInv'
  BY <1>12, OutputKept DEF vars, lists, TypeInv
<1> QED
  BY <1>1, <1>2, <1>3, <1>4, <1>5, <1>6, <1>7, <1>8, <1>9, <1>10, <1>11, <1>12
     DEF Next, Service, Application

\* The invariant of the listings.
THEOREM ListingInvariant == Spec => []ListingInv
<1>1. Init => ListingInv
  BY DEF Init, NothingLinked, ListingInv, TypeInv, QuietInv, HelpState, LsChildrenInv, LsFilesInv,
         HelpInv, RowsWhole, LsServes, HelpServes, Pointers, Pieces
<1> QED BY <1>1, ListingKept, PTL DEF Spec

\* For every directory and every list of commands, ls and help print their
\* rows whole, whatever process_index and process_index_item are left at by a
\* command that was interrupted and whatever is linked or unlinked meanwhile.
THEOREM RowsStayWhole == Spec => []RowsWhole
<1>1. ListingInv => RowsWhole
  BY DEF ListingInv
<1> QED BY <1>1, ListingInvariant, PTL

-----------------------------------------------------------------------------
(***************************************************************************)
(* The lists: walks along the pointers, as in Induction.                   *)
(***************************************************************************)
Walk(s, h, nx) == IsWalk(s, h, nx, Nodes, NoNode)

ListsInv == Separate(head, next, Nodes, NoNode)

LEMMA ListOfIs ==
  /\ \A l \in Lists : ListOf(l) = ListFrom(head[l], next, Nodes, NoNode)
  /\ \A l \in Lists : ListOf(l)' = ListFrom(head'[l], next', Nodes, NoNode)
BY DEF ListOf, NodesFrom, ListFrom

LEMMA ListsAre ==
  ASSUME TypeInv, ListsInv
  PROVE  /\ \A l \in Lists : Walk(ListOf(l), head[l], next) /\ ListOf(l) \in Seq(Nodes)
         /\ \A k, l \in Lists : k # l => ToSet(ListOf(k)) \cap ToSet(ListOf(l)) = {}
         /\ Linked = InLists(head, next, Nodes, NoNode)
<1>1. DOMAIN head = Lists
  BY DEF TypeInv
<1>2. \A l \in Lists : Walk(ListOf(l), head[l], next)
  BY <1>1, ListOfIs DEF ListsInv, Separate, Walk
<1>3. \A k, l \in Lists : k # l => ToSet(ListOf(k)) \cap ToSet(ListOf(l)) = {}
  BY <1>1, ListOfIs DEF ListsInv, Separate
<1>4. Linked = InLists(head, next, Nodes, NoNode)
  BY <1>1, ListOfIs DEF Linked, InLists
<1> QED BY <1>2, <1>3, <1>4 DEF Walk, IsWalk

LEMMA SameLists ==
  ASSUME ListsInv, UNCHANGED lists
  PROVE  ListsInv' /\ (\A l \in Lists : ListOf(l)' = ListOf(l)) /\ Linked' = Linked
<1>1. next' = next /\ head' = head
  BY DEF lists
<1>2. \A l \in Lists : ListOf(l)' = ListOf(l)
  BY <1>1, ListOfIs
<1> QED BY <1>1, <1>2 DEF ListsInv, Linked

\* Linking and unlinking change one list as they would a sequence.
LEMMA LinkedFirst ==
  ASSUME TypeInv, ListsInv, NEW l \in Lists, NEW n \in Nodes, LinkFirst(l, n)
  PROVE  /\ ListsInv' /\ ListOf(l)' = <<n>> \o ListOf(l)
         /\ \A k \in Lists \ {l} : ListOf(k)' = ListOf(k)
         /\ ToSet(ListOf(l))' = ToSet(ListOf(l)) \cup {n}
<1>1. /\ Links(l, n, head, next, head', next')
      /\ next \in [Nodes -> Nodes \cup {NoNode}] /\ head \in [Lists -> Nodes \cup {NoNode}]
      /\ n \notin InLists(head, next, Nodes, NoNode)
  BY ListsAre DEF LinkFirst, TypeInv, Links, Pointed, Pointers
<1>2. Separate(head, next, Nodes, NoNode) /\ IsFiniteSet(Nodes) /\ NoNode \notin Nodes
  BY NodesAssumption DEF ListsInv
<1>3. /\ Becomes(l, <<n>> \o ListFrom(head[l], next, Nodes, NoNode), head, next, head', next', Nodes, NoNode)
      /\ ToSet(<<n>> \o ListFrom(head[l], next, Nodes, NoNode))
           = ToSet(ListFrom(head[l], next, Nodes, NoNode)) \cup {n}
  BY ONLY <1>1, <1>2, l \in Lists, n \in Nodes, LinkedLists
<1>4. DOMAIN head = Lists
  BY ONLY <1>1
<1> QED BY ONLY <1>3, <1>4, l \in Lists, ListOfIs DEF ListsInv, Becomes

LEMMA UnlinkedOne ==
  ASSUME TypeInv, ListsInv, NEW l \in Lists, NEW n \in Nodes, UnlinkFrom(l, n)
  PROVE  /\ ListsInv' /\ next' = Bypassed(next, Linked, n)
         /\ \E k \in 1 .. Len(ListOf(l)) : ListOf(l)[k] = n /\ ListOf(l)' = RemoveAt(ListOf(l), k)
         /\ \A k \in Lists \ {l} : ListOf(k)' = ListOf(k)
         /\ ToSet(ListOf(l))' = ToSet(ListOf(l)) \ {n}
<1>1. /\ next' = Bypassed(next, Linked, n)
      /\ Unlinks(l, n, head, next, head', next', Linked)
      /\ next \in [Nodes -> Nodes \cup {NoNode}] /\ head \in [Lists -> Nodes \cup {NoNode}]
      /\ n \in ToSet(ListFrom(head[l], next, Nodes, NoNode))
  BY ListOfIs DEF UnlinkFrom, TypeInv, NextAfter, HeadAfter, Unlinks, Bypassed,
                   Pointed, Pointers
<1>2. /\ Separate(head, next, Nodes, NoNode) /\ IsFiniteSet(Nodes) /\ NoNode \notin Nodes
      /\ Linked = InLists(head, next, Nodes, NoNode)
  BY NodesAssumption, ListsAre DEF ListsInv
<1>3. PICK k \in 1 .. Len(ListFrom(head[l], next, Nodes, NoNode)) :
        LET t == RemoveAt(ListFrom(head[l], next, Nodes, NoNode), k)
        IN  /\ ListFrom(head[l], next, Nodes, NoNode)[k] = n
            /\ Becomes(l, t, head, next, head', next', Nodes, NoNode)
            /\ LacksOnly(t, ListFrom(head[l], next, Nodes, NoNode), n)
  BY ONLY <1>1, <1>2, l \in Lists, n \in Nodes, UnlinkedLists
<1>4. DOMAIN head = Lists
  BY ONLY <1>1
<1> QED BY ONLY <1>1, <1>3, <1>4, l \in Lists, ListOfIs DEF ListsInv, Becomes, LacksOnly

-----------------------------------------------------------------------------
(***************************************************************************)
(* What the commands have printed and have still to come to.               *)
(***************************************************************************)
Shown == ToSet(out)

\* What was unlinked while the command ran is in no list again.
LeftInv ==
  /\ left \subseteq Nodes /\ left \cap Linked = {}
  /\ state = "OTHER" => left = {} /\ stayed = {}

LsBegun == LsServes("PROCESS_START") => stayed \subseteq ToSet(ListOf("children"))

\* s is still before the command: what it may be led to.
Ahead(s, h) == Walk(s, h, next) /\ ToSet(s) \subseteq left \cup Linked

\* ls among the children: those that stayed are named or ahead, and of those
\* ahead none is named but the first.
LsAhead(s) ==
  /\ Ahead(s, child)
  /\ \A n \in ToSet(s) : <<"name", n>> \in Shown => n = child /\ index >= 2
  /\ \A n \in stayed : n \in ToSet(s) \/ <<"name", n>> \in Shown

LsWalk ==
  LsServes("PROCESS_SERVICE") =>
    /\ \A i \in Nat : <<"file", Dir, i>> \notin Shown
    /\ index >= 2 => <<"name", child>> \in Shown
    /\ \E s : LsAhead(s)

\* The files of n are printed to item, and the next one when it is begun.
FilesUpTo(n, begun) ==
  /\ \A i \in 1 .. item : <<"file", n, i>> \in Shown
  /\ begun => <<"file", n, item + 1>> \in Shown

FilesNotBeyond(n, begun) ==
  \A i \in Nat : <<"file", n, i>> \in Shown => i <= item \/ (i = item + 1 /\ begun)

LsDone ==
  LsServes("PROCESS_FINISH") =>
    /\ \A n \in stayed : <<"name", n>> \in Shown
    /\ FilesUpTo(Dir, index >= 2) /\ FilesNotBeyond(Dir, index >= 2)

\* help: the files of the nodes that stayed are printed or ahead, and of those
\* ahead none is printed but of the first.
AllFiles(n) == \A i \in DOMAIN FilesOf[n] : <<"file", n, i>> \in Shown

HelpAhead(s) ==
  /\ Ahead(s, node)
  /\ \A n \in ToSet(s), i \in Nat : <<"file", n, i>> \in Shown => n = node
  /\ node # NoNode => FilesNotBeyond(node, index >= 1)
  /\ \A n \in stayed : n \in ToSet(s) \/ AllFiles(n)

HelpWalk ==
  HelpServes => FilesUpTo(node, index >= 1) /\ \E s : HelpAhead(s)

OnceInv ==
  ListsInv /\ LeftInv /\ ListsOnce /\ LsBegun /\ LsWalk /\ LsDone /\ HelpWalk

-----------------------------------------------------------------------------
\* Printing adds one piece; a name or a file that was not printed keeps the
\* output without repetition.
LEMMA Printing ==
  ASSUME TypeInv, NEW piece \in Pieces, Shows(piece)
  PROVE  /\ Shown' = Shown \cup {piece}
         /\ ListsOnce /\ (piece \in Shown => Kind(piece) \notin {"name", "file"}) => ListsOnce'
<1>1. /\ out \in Seq(Pieces) /\ out' \in Seq(Pieces)
      /\ Len(out') = Len(out) + 1 /\ Len(out) \in Nat
      /\ out'[Len(out) + 1] = piece
      /\ \A i \in 1 .. Len(out) : out'[i] = out[i]
  BY DEF TypeInv, Shows
<1>2. /\ \A i \in 1 .. Len(out) : out[i] \in Shown
      /\ \A x \in Shown : \E i \in 1 .. Len(out) : x = out[i]
      /\ \A i \in 1 .. Len(out') : out'[i] \in Shown'
      /\ \A x \in Shown' : \E i \in 1 .. Len(out') : x = out'[i]
  BY <1>1, Elements DEF Shown
<1>3. \A i \in 1 .. Len(out') : i \in 1 .. Len(out) \/ i = Len(out) + 1
  BY <1>1
<1>4. \A i \in 1 .. Len(out) : i \in 1 .. Len(out')
  BY <1>1
<1>5. Len(out) + 1 \in 1 .. Len(out')
  BY <1>1
<1>6. Shown' = Shown \cup {piece}
  <2>1. \A x \in Shown' : x \in Shown \cup {piece}
    BY <1>1, <1>2, <1>3
  <2>2. \A x \in Shown : x \in Shown'
    BY <1>1, <1>2, <1>4
  <2>3. piece \in Shown'
    BY <1>1, <1>2, <1>5
  <2> QED BY <2>1, <2>2, <2>3
<1>7. ASSUME ListsOnce, piece \in Shown => Kind(piece) \notin {"name", "file"}
      PROVE  ListsOnce'
  <2> SUFFICES ASSUME NEW i \in 1 .. Len(out'), NEW j \in 1 .. Len(out'),
                      out'[i] = out'[j], Kind(out'[i]) \in {"name", "file"}
               PROVE  i = j
    BY DEF ListsOnce
  <2>1. CASE i \in 1 .. Len(out) /\ j \in 1 .. Len(out)
    BY <1>1, <1>7, <2>1 DEF ListsOnce
  <2>2. CASE i \in 1 .. Len(out) /\ j = Len(out) + 1
    BY <1>1, <1>2, <1>7, <2>2
  <2>3. CASE i = Len(out) + 1 /\ j \in 1 .. Len(out)
    BY <1>1, <1>2, <1>7, <2>3
  <2> QED BY <1>3, <2>1, <2>2, <2>3
<1> QED BY <1>6, <1>7

\* The lists are left alone while a piece is printed.
LEMMA AheadSame ==
  ASSUME ListsInv, LeftInv, UNCHANGED <<lists, left>>, state' # "OTHER"
  PROVE  /\ ListsInv' /\ LeftInv' /\ Linked' = Linked
         /\ \A l \in Lists : ListOf(l)' = ListOf(l)
<1>1. ListsInv' /\ Linked' = Linked /\ (\A l \in Lists : ListOf(l)' = ListOf(l))
  BY SameLists
<1> QED BY <1>1 DEF LeftInv

\* What is printed of a row's file, and where the index goes.
LEMMA LsFileSlots ==
  ASSUME ListingInv, LsFile
  PROVE  /\ item \in Nat /\ state = "PROCESS_FINISH" /\ command = "ls"
         /\ UNCHANGED <<lists, state, command, stayed, left>>
         /\ \E piece \in Pieces :
              /\ Shows(piece)
              /\ \/ index = 0 /\ index' = 1 /\ item' = item /\ piece = <<"flags">>
                 \/ index = 1 /\ index' >= 2 /\ item' = item /\ piece = <<"file", Dir, item + 1>>
                 \/ index = 2 /\ index' = 3 /\ item' = item /\ piece = <<"description", Dir, item + 1>>
                 \/ index = 3 /\ index' = 0 /\ item' = item + 1 /\ piece = <<"newline">>
<1>1. /\ state = "PROCESS_FINISH" /\ command = "ls" /\ item < Len(FilesOf[Dir])
      /\ UNCHANGED <<lists, state, command, stayed, left>>
  BY DEF LsFile, LsServes, FileStep
<1>2. index \in 0 .. 3 /\ item \in Nat
  BY <1>1 DEF ListingInv, LsFilesInv, LsServes, TypeInv
<1> DEFINE slots == FileSlots(Dir, item + 1, LsFlags)
<1>3. /\ Shows(slots[index + 1])
      /\ index' = (IF index = 1 /\ FilesOf[Dir][item + 1] = "plain" THEN index + 2 ELSE index + 1) % 4
      /\ item' = IF index + 1 = 4 THEN item + 1 ELSE item
  BY SlotsOfLs DEF LsFile, FileStep, SlotAfter, ItemAfter
<1>4. /\ slots[1] = <<"flags">> /\ slots[2] = <<"file", Dir, item + 1>>
      /\ slots[3] = <<"description", Dir, item + 1>> /\ slots[4] = <<"newline">>
  BY SlotsOfLs
<1> HIDE DEF slots
<1>5. {slots[1], slots[2], slots[3], slots[4]} \subseteq Pieces
  BY <1>2, <1>4, PiecesOfFile DEF Pieces
<1>6. CASE index = 0
  BY <1>1, <1>2, <1>3, <1>4, <1>5, <1>6
<1>7. CASE index = 1
  BY <1>1, <1>2, <1>3, <1>4, <1>5, <1>7
<1>8. CASE index = 2
  BY <1>1, <1>2, <1>3, <1>4, <1>5, <1>8
<1>9. CASE index = 3
  BY <1>1, <1>2, <1>3, <1>4, <1>5, <1>9
<1> QED BY <1>2, <1>6, <1>7, <1>8, <1>9

LEMMA HelpFileSlots ==
  ASSUME ListingInv, HelpFile
  PROVE  /\ item \in Nat /\ HelpServes /\ node \in Nodes
         /\ UNCHANGED <<lists, state, command, node, stayed, left>>
         /\ \E piece \in Pieces :
              /\ Shows(piece)
              /\ \/ index = 0 /\ index' >= 1 /\ item' = item /\ piece = <<"file", node, item + 1>>
                 \/ index = 1 /\ index' = 2 /\ item' = item /\ piece = <<"description", node, item + 1>>
                 \/ index = 2 /\ index' = 0 /\ item' = item + 1 /\ piece = <<"newline">>
<1>1. /\ HelpServes /\ node # NoNode /\ item < Len(FilesOf[node])
      /\ UNCHANGED <<lists, state, command, node, stayed, left>>
  BY DEF HelpFile, FileStep
<1>2. index \in 0 .. 2 /\ item \in Nat /\ node \in Nodes
  BY <1>1 DEF ListingInv, HelpInv, TypeInv, Pointers
<1> DEFINE slots == FileSlots(node, item + 1, << >>)
<1>3. slots = <<<<"file", node, item + 1>>, <<"description", node, item + 1>>, <<"newline">>>>
  BY SlotsOfHelp
<1>4. Len(slots) = 3 /\ Len(<< >>) = 0
  BY <1>3
<1> HIDE DEF slots
<1>5. /\ Shows(slots[index + 1])
      /\ index' = (IF index = 0 /\ FilesOf[node][item + 1] = "plain" THEN index + 2 ELSE index + 1) % 3
      /\ item' = IF index + 1 = 3 THEN item + 1 ELSE item
  <2>1. FileStep(node, << >>)
    BY DEF HelpFile
  <2>2. /\ Shows(slots[index + 1])
        /\ index' = SlotAfter(node, item + 1, << >>) % Len(slots)
        /\ item' = ItemAfter(slots)
    BY <2>1 DEF FileStep, slots
  <2>3. SlotAfter(node, item + 1, << >>)
          = IF index = 0 /\ FilesOf[node][item + 1] = "plain" THEN index + 2 ELSE index + 1
    BY <1>4 DEF SlotAfter
  <2> QED BY <1>4, <2>2, <2>3 DEF ItemAfter
<1>6. /\ slots[1] = <<"file", node, item + 1>>
      /\ slots[2] = <<"description", node, item + 1>> /\ slots[3] = <<"newline">>
  BY <1>3
<1>7. {slots[1], slots[2], slots[3]} \subseteq Pieces
  BY <1>2, <1>6, PiecesOfFile DEF Pieces
<1>8. CASE index = 0
  BY <1>1, <1>2, <1>5, <1>6, <1>7, <1>8
<1>9. CASE index = 1
  BY <1>1, <1>2, <1>5, <1>6, <1>7, <1>9
<1>10. CASE index = 2
  BY <1>1, <1>2, <1>5, <1>6, <1>7, <1>10
<1> QED BY <1>2, <1>8, <1>9, <1>10

-----------------------------------------------------------------------------
\* The commands begin.
LEMMA BeginOnce ==
  ASSUME ListingInv, OnceInv, Ls \/ Help
  PROVE  OnceInv'
<1> USE DEF OnceInv
<1>1. state = "OTHER" /\ out = << >> /\ left = {} /\ stayed = {}
  BY DEF Ls, Help, Begin, LeftInv, ListingInv, QuietInv
<1>2. /\ state' = "PROCESS_START" /\ out' = << >>
      /\ UNCHANGED <<lists, left>>
  BY <1>1 DEF Ls, Help, Begin
<1>3. ListsInv' /\ LeftInv' /\ Linked' = Linked /\ \A l \in Lists : ListOf(l)' = ListOf(l)
  BY <1>2, AheadSame
<1>4. ListsOnce' /\ Shown' = {}
  BY <1>2 DEF ListsOnce, Shown, ToSet
<1>5. LsWalk' /\ LsDone'
  BY <1>2 DEF LsWalk, LsDone, LsServes
<1>6. CASE Ls
  <2>1. command' = "ls" /\ stayed' = ToSet(ListOf("children"))
    BY <1>6 DEF Ls, Begin
  <2>2. LsBegun' /\ HelpWalk'
    BY <1>3, <2>1 DEF LsBegun, HelpWalk, HelpServes, Lists
  <2> QED BY <1>3, <1>4, <1>5, <2>2
<1>7. CASE Help
  <2>1. /\ command' = "help" /\ stayed' = ToSet(ListOf("commands"))
        /\ node' = head["commands"] /\ index' = 0 /\ item' = 0
    BY <1>7 DEF Help, Begin
  <2>2. /\ Walk(ListOf("commands"), node', next') /\ ToSet(ListOf("commands")) \subseteq Linked
        /\ "commands" \in Lists
    BY <1>2, <2>1, ListsAre DEF ListingInv, Linked, Lists, lists
  <2>3. HelpAhead(ListOf("commands"))'
    <3>1. Walk(ListOf("commands")', node', next')
      BY <1>3, <2>2
    <3>2. ToSet(ListOf("commands")') \subseteq left' \cup Linked'
      BY <1>3, <2>2
    <3>3. \A n \in stayed' : n \in ToSet(ListOf("commands")')
      BY <1>3, <2>1, <2>2
    <3> QED BY <1>4, <3>1, <3>2, <3>3 DEF HelpAhead, Ahead, FilesNotBeyond
  <2>4. HelpWalk'
    <3>1. FilesUpTo(node, index >= 1)'
      BY <2>1 DEF FilesUpTo
    <3> QED BY <2>3, <3>1 DEF HelpWalk
  <2>5. LsBegun'
    BY <2>1 DEF LsBegun, LsServes
  <2> QED BY <1>3, <1>4, <1>5, <2>4, <2>5
<1> QED BY <1>6, <1>7

\* ls comes to the children that are linked, which are those that stayed.
LEMMA LsStartOnce ==
  ASSUME ListingInv, OnceInv, LsStart
  PROVE  OnceInv'
<1> USE DEF OnceInv
<1>1. /\ state = "PROCESS_START" /\ command = "ls" /\ Shows(<<"dots">>)
      /\ state' = "PROCESS_SERVICE" /\ child' = head["children"] /\ index' = 0
      /\ UNCHANGED <<lists, command, stayed, left>>
  BY DEF LsStart, LsServes, IndexFirst
<1>2. ListsInv' /\ LeftInv' /\ Linked' = Linked /\ \A l \in Lists : ListOf(l)' = ListOf(l)
  BY <1>1, AheadSame
<1>3. Shown = {}
  BY <1>1 DEF ListingInv, QuietInv, LsServes, Shown, ToSet
<1>4. Shown' = {<<"dots">>} /\ ListsOnce'
  <2>1. <<"dots">> \in Pieces /\ TypeInv
    BY DEF Pieces, ListingInv
  <2> QED BY <1>1, <1>3, <2>1, Printing
<1>5. LsAhead(ListOf("children"))'
  <2>1. "children" \in Lists
    BY DEF Lists
  <2>2. Walk(ListOf("children")', child', next')
    BY <1>1, <1>2, <2>1, ListsAre DEF ListingInv, lists
  <2>3. ToSet(ListOf("children")') \subseteq left' \cup Linked'
    BY <2>1 DEF Linked
  <2>4. stayed' \subseteq ToSet(ListOf("children")')
    BY <1>1, <1>2, <2>1 DEF LsBegun, LsServes
  <2>5. \A n : <<"name", n>> \notin Shown'
    BY <1>4
  <2> QED BY <2>2, <2>3, <2>4, <2>5 DEF LsAhead, Ahead
<1>6. LsWalk'
  <2>1. \A i \in Nat : <<"file", Dir, i>> \notin Shown'
    BY <1>4
  <2> QED BY <1>1, <1>5, <2>1 DEF LsWalk
<1>7. LsBegun' /\ LsDone' /\ HelpWalk'
  BY <1>1 DEF LsBegun, LsDone, HelpWalk, LsServes, HelpServes
<1> QED BY <1>2, <1>4, <1>6, <1>7

\* A child is named once, when it is the first of those ahead.
LEMMA LsChildPieceOnce ==
  ASSUME ListingInv, OnceInv, LsChildPiece
  PROVE  OnceInv'
<1> USE DEF OnceInv
<1>1. /\ state = "PROCESS_SERVICE" /\ command = "ls" /\ child # NoNode /\ index < 3
      /\ index' = index + 1
      /\ UNCHANGED <<lists, state, command, child, stayed, left>>
  BY DEF LsChildPiece, LsServes
<1>2. ListsInv' /\ LeftInv' /\ Linked' = Linked
  BY <1>1, AheadSame
<1>3. index \in 0 .. 2 /\ child \in Nodes /\ TypeInv
  BY <1>1 DEF ListingInv, LsChildrenInv, LsServes, TypeInv, Pointers
<1> DEFINE piece == <<<<"open">>, <<"name", child>>, <<"close">>>>[index + 1]
<1>4. /\ index = 0 => piece = <<"open">>
      /\ index = 1 => piece = <<"name", child>>
      /\ index = 2 => piece = <<"close">>
  OBVIOUS
<1>5. Shows(piece)
  BY DEF LsChildPiece
<1> HIDE DEF piece
<1>6. piece \in Pieces
  BY <1>3, <1>4 DEF Pieces
<1>7. PICK s : LsAhead(s)
  BY <1>1 DEF LsWalk, LsServes
<1>8. /\ Shown' = Shown \cup {piece}
      /\ (piece \in Shown => Kind(piece) \notin {"name", "file"}) => ListsOnce'
  BY <1>3, <1>5, <1>6, Printing
<1>9. ListsOnce'
  <2>1. index = 1 => piece \notin Shown
    <3>1. child \in ToSet(s)
      BY <1>1, <1>3, <1>7, RestOfWalk, NodesAssumption DEF LsAhead, Ahead, TypeInv, Walk, Pointers
    <3> QED BY <1>3, <1>4, <1>7, <3>1 DEF LsAhead
  <2> QED BY <1>3, <1>4, <1>8, <2>1 DEF Kind
<1>10. LsAhead(s)'
  <2>1. Ahead(s, child)'
    BY <1>1, <1>2, <1>7 DEF LsAhead, Ahead, lists
  <2>2. \A n : <<"name", n>> \in Shown' => <<"name", n>> \in Shown \/ (n = child /\ index = 1)
    BY <1>3, <1>4, <1>8
  <2>3. \A n \in ToSet(s) : <<"name", n>> \in Shown' => n = child' /\ index' >= 2
    BY <1>1, <1>3, <1>7, <2>2 DEF LsAhead
  <2>4. \A n \in stayed' : n \in ToSet(s) \/ <<"name", n>> \in Shown'
    BY <1>1, <1>7, <1>8 DEF LsAhead
  <2> QED BY <2>1, <2>3, <2>4 DEF LsAhead
<1>11. LsWalk'
  <2>1. \A i \in Nat : <<"file", Dir, i>> \notin Shown'
    BY <1>1, <1>3, <1>4, <1>8 DEF LsWalk, LsServes
  <2>2. index' >= 2 => <<"name", child'>> \in Shown'
    BY <1>1, <1>3, <1>4, <1>8 DEF LsWalk, LsServes
  <2> QED BY <1>10, <2>1, <2>2 DEF LsWalk
<1>12. LsBegun' /\ LsDone' /\ HelpWalk'
  BY <1>1 DEF LsBegun, LsDone, HelpWalk, LsServes, HelpServes
<1> QED BY <1>2, <1>9, <1>11, <1>12

\* What is not printed changes nothing that is.
LEMMA QuietStep ==
  ASSUME OnceInv, UNCHANGED <<lists, out, stayed, left>>, state # "OTHER", state' # "OTHER"
  PROVE  ListsInv' /\ LeftInv' /\ ListsOnce' /\ Shown' = Shown /\ Linked' = Linked
<1>1. ListsInv' /\ LeftInv' /\ Linked' = Linked
  BY AheadSame DEF OnceInv
<1> QED BY <1>1 DEF OnceInv, ListsOnce, Shown

\* The next child: the one left was named.
LEMMA LsChildNextOnce ==
  ASSUME ListingInv, OnceInv, LsChildNext
  PROVE  OnceInv'
<1> USE DEF OnceInv
<1>1. /\ state = "PROCESS_SERVICE" /\ command = "ls" /\ child # NoNode /\ index = 3
      /\ index' = 0 /\ child' = next[child]
      /\ UNCHANGED <<lists, state, command, out, stayed, left>>
  BY DEF LsChildNext, LsServes
<1>2. ListsInv' /\ LeftInv' /\ ListsOnce' /\ Shown' = Shown /\ Linked' = Linked
  BY <1>1, QuietStep
<1>3. PICK s : LsAhead(s)
  BY <1>1 DEF LsWalk, LsServes
<1>4. PICK t : Walk(t, next[child], next) /\ ToSet(t) = ToSet(s) \ {child}
  BY <1>1, <1>3, RestOfWalk, NodesAssumption DEF ListingInv, TypeInv, LsAhead, Ahead, Walk, Pointers
<1>5. <<"name", child>> \in Shown
  BY <1>1 DEF LsWalk, LsServes
<1>6. LsAhead(t)'
  BY <1>1, <1>2, <1>3, <1>4, <1>5 DEF LsAhead, Ahead, lists
<1>7. LsWalk'
  BY <1>1, <1>2, <1>6 DEF LsWalk, LsServes
<1>8. LsBegun' /\ LsDone' /\ HelpWalk'
  BY <1>1 DEF LsBegun, LsDone, HelpWalk, LsServes, HelpServes
<1> QED BY <1>2, <1>7, <1>8

\* At the end of the children none is ahead.
LEMMA LsChildrenEndOnce ==
  ASSUME ListingInv, OnceInv, LsChildrenEnd
  PROVE  OnceInv'
<1> USE DEF OnceInv
<1>1. /\ state = "PROCESS_SERVICE" /\ command = "ls" /\ child = NoNode
      /\ index' = 0 /\ item' = 0 /\ state' = "PROCESS_FINISH"
      /\ UNCHANGED <<lists, command, out, stayed, left>>
  BY DEF LsChildrenEnd, LsServes
<1>2. ListsInv' /\ LeftInv' /\ ListsOnce' /\ Shown' = Shown
  BY <1>1, QuietStep
<1>3. PICK s : LsAhead(s)
  BY <1>1 DEF LsWalk, LsServes
<1>4. ToSet(s) = {}
  BY <1>1, <1>3, NoWalk, NodesAssumption DEF LsAhead, Ahead, Walk
<1>5. \A n \in stayed' : <<"name", n>> \in Shown'
  BY <1>1, <1>2, <1>3, <1>4 DEF LsAhead
<1>6. FilesUpTo(Dir, index >= 2)' /\ FilesNotBeyond(Dir, index >= 2)'
  BY <1>1, <1>2 DEF FilesUpTo, FilesNotBeyond, LsWalk, LsServes
<1>7. LsDone'
  BY <1>5, <1>6 DEF LsDone
<1>8. LsBegun' /\ LsWalk' /\ HelpWalk'
  BY <1>1 DEF LsBegun, LsWalk, HelpWalk, LsServes, HelpServes
<1> QED BY <1>2, <1>7, <1>8

-----------------------------------------------------------------------------
\* The files of the directory, in order.
LEMMA LsFileOnce ==
  ASSUME ListingInv, OnceInv, LsFile
  PROVE  OnceInv'
<1> USE DEF OnceInv
<1>1. /\ item \in Nat /\ state = "PROCESS_FINISH" /\ command = "ls"
      /\ UNCHANGED <<lists, state, command, stayed, left>>
  BY LsFileSlots
<1>2. PICK piece \in Pieces :
        /\ Shows(piece)
        /\ \/ index = 0 /\ index' = 1 /\ item' = item /\ piece = <<"flags">>
           \/ index = 1 /\ index' >= 2 /\ item' = item /\ piece = <<"file", Dir, item + 1>>
           \/ index = 2 /\ index' = 3 /\ item' = item /\ piece = <<"description", Dir, item + 1>>
           \/ index = 3 /\ index' = 0 /\ item' = item + 1 /\ piece = <<"newline">>
  BY LsFileSlots
<1>3. ListsInv' /\ LeftInv'
  BY <1>1, AheadSame
<1>4. /\ Shown' = Shown \cup {piece}
      /\ (piece \in Shown => Kind(piece) \notin {"name", "file"}) => ListsOnce'
  <2>1. TypeInv
    BY DEF ListingInv
  <2> QED BY <1>2, <2>1, Printing
<1>5. LsDone /\ LsServes("PROCESS_FINISH")
  BY <1>1 DEF LsServes
<1>6. ListsOnce'
  <2>1. index = 1 => <<"file", Dir, item + 1>> \notin Shown
    BY <1>1, <1>5 DEF LsDone, FilesNotBeyond
  <2> QED BY <1>2, <1>4, <2>1 DEF Kind
<1>7. FilesUpTo(Dir, index >= 2)'
  <2>1. /\ \A i \in 1 .. item : <<"file", Dir, i>> \in Shown'
        /\ index >= 2 => <<"file", Dir, item + 1>> \in Shown'
    BY <1>4, <1>5 DEF LsDone, FilesUpTo
  <2>2. CASE index = 3
    <3>1. \A i \in 1 .. item' : i \in 1 .. item \/ i = item + 1
      BY <1>1, <1>2, <2>2
    <3> QED BY <1>2, <2>1, <2>2, <3>1 DEF FilesUpTo
  <2>3. CASE index # 3
    <3>1. item' = item /\ (index' >= 2 => <<"file", Dir, item + 1>> \in Shown')
      BY <1>2, <1>4, <2>1, <2>3
    <3> QED BY <2>1, <3>1 DEF FilesUpTo
  <2> QED BY <2>2, <2>3
<1>8. FilesNotBeyond(Dir, index >= 2)'
  <2> SUFFICES ASSUME NEW i \in Nat, <<"file", Dir, i>> \in Shown'
               PROVE  i <= item' \/ (i = item' + 1 /\ index' >= 2)
    BY DEF FilesNotBeyond
  <2>1. CASE <<"file", Dir, i>> \in Shown
    BY <1>1, <1>2, <1>5, <2>1 DEF LsDone, FilesNotBeyond
  <2>2. CASE <<"file", Dir, i>> = piece
    BY <1>1, <1>2, <2>2
  <2> QED BY <1>4, <2>1, <2>2
<1>9. LsDone'
  BY <1>1, <1>4, <1>5, <1>7, <1>8 DEF LsDone
<1>10. LsBegun' /\ LsWalk' /\ HelpWalk'
  BY <1>1 DEF LsBegun, LsWalk, HelpWalk, LsServes, HelpServes
<1> QED BY <1>3, <1>6, <1>9, <1>10

\* The files of a command node, when it is the first of those ahead.
LEMMA HelpFileOnce ==
  ASSUME ListingInv, OnceInv, HelpFile
  PROVE  OnceInv'
<1> USE DEF OnceInv
<1>1. /\ item \in Nat /\ HelpServes /\ node \in Nodes
      /\ UNCHANGED <<lists, state, command, node, stayed, left>>
  BY HelpFileSlots
<1>2. PICK piece \in Pieces :
        /\ Shows(piece)
        /\ \/ index = 0 /\ index' >= 1 /\ item' = item /\ piece = <<"file", node, item + 1>>
           \/ index = 1 /\ index' = 2 /\ item' = item /\ piece = <<"description", node, item + 1>>
           \/ index = 2 /\ index' = 0 /\ item' = item + 1 /\ piece = <<"newline">>
  BY HelpFileSlots
<1>3. ListsInv' /\ LeftInv' /\ Linked' = Linked
  BY <1>1, AheadSame DEF HelpServes
<1>4. /\ Shown' = Shown \cup {piece}
      /\ (piece \in Shown => Kind(piece) \notin {"name", "file"}) => ListsOnce'
  <2>1. TypeInv
    BY DEF ListingInv
  <2> QED BY <1>2, <2>1, Printing
<1>5. FilesUpTo(node, index >= 1)
  BY <1>1 DEF HelpWalk
<1>6. PICK s : HelpAhead(s)
  BY <1>1 DEF HelpWalk
<1>7. FilesNotBeyond(node, index >= 1)
  BY <1>1, <1>6, NodesAssumption DEF HelpAhead
<1>8. ListsOnce'
  <2>1. index = 0 => <<"file", node, item + 1>> \notin Shown
    BY <1>1, <1>7 DEF FilesNotBeyond
  <2> QED BY <1>2, <1>4, <2>1 DEF Kind
<1>9. FilesUpTo(node, index >= 1)'
  <2>1. /\ \A i \in 1 .. item : <<"file", node, i>> \in Shown'
        /\ index >= 1 => <<"file", node, item + 1>> \in Shown'
    BY <1>4, <1>5 DEF FilesUpTo
  <2>2. CASE index = 2
    <3>1. \A i \in 1 .. item' : i \in 1 .. item \/ i = item + 1
      BY <1>1, <1>2, <2>2
    <3> QED BY <1>1, <1>2, <2>1, <2>2, <3>1 DEF FilesUpTo
  <2>3. CASE index # 2
    <3>1. item' = item /\ (index' >= 1 => <<"file", node, item + 1>> \in Shown')
      BY <1>2, <1>4, <2>1, <2>3
    <3> QED BY <1>1, <2>1, <3>1 DEF FilesUpTo
  <2> QED BY <2>2, <2>3
<1>10. FilesNotBeyond(node, index >= 1)'
  <2> SUFFICES ASSUME NEW i \in Nat, <<"file", node, i>> \in Shown'
               PROVE  i <= item' \/ (i = item' + 1 /\ index' >= 1)
    BY <1>1 DEF FilesNotBeyond
  <2>1. CASE <<"file", node, i>> \in Shown
    BY <1>1, <1>2, <1>7, <2>1 DEF FilesNotBeyond
  <2>2. CASE <<"file", node, i>> = piece
    BY <1>1, <1>2, <2>2
  <2> QED BY <1>4, <2>1, <2>2
<1>11. HelpAhead(s)'
  <2>1. Ahead(s, node)'
    BY <1>1, <1>3, <1>6 DEF HelpAhead, Ahead, lists
  <2>2. \A n \in ToSet(s), i \in Nat : <<"file", n, i>> \in Shown' => n = node'
    <3>1. \A n, i : <<"file", n, i>> = piece => n = node
      BY <1>2
    <3> QED BY <1>1, <1>4, <1>6, <3>1 DEF HelpAhead
  <2>3. \A n \in stayed' : n \in ToSet(s) \/ AllFiles(n)'
    BY <1>1, <1>4, <1>6 DEF HelpAhead, AllFiles
  <2> QED BY <1>10, <2>1, <2>2, <2>3 DEF HelpAhead
<1>12. HelpWalk'
  BY <1>9, <1>11 DEF HelpWalk
<1>13. LsBegun' /\ LsWalk' /\ LsDone'
  BY <1>1 DEF LsBegun, LsWalk, LsDone, LsServes, HelpServes
<1> QED BY <1>3, <1>8, <1>12, <1>13

\* A node whose files are through is left for the next one.
LEMMA HelpNextOnce ==
  ASSUME ListingInv, OnceInv, HelpNext
  PROVE  OnceInv'
<1> USE DEF OnceInv
<1>1. /\ HelpServes /\ node # NoNode /\ item >= Len(FilesOf[node])
      /\ index' = 0 /\ item' = 0 /\ node' = next[node]
      /\ UNCHANGED <<lists, state, command, out, stayed, left>>
  BY DEF HelpNext, NodeAfter
<1>2. ListsInv' /\ LeftInv' /\ ListsOnce' /\ Shown' = Shown /\ Linked' = Linked
  BY <1>1, QuietStep DEF HelpServes
<1>3. PICK s : HelpAhead(s)
  BY <1>1 DEF HelpWalk
<1>4. PICK t : Walk(t, next[node], next) /\ ToSet(t) = ToSet(s) \ {node}
  BY <1>1, <1>3, RestOfWalk, NodesAssumption DEF ListingInv, TypeInv, HelpAhead, Ahead, Walk, Pointers
<1>5. AllFiles(node)
  <2>1. node \in Nodes /\ item \in Nat
    BY <1>1 DEF ListingInv, TypeInv, Pointers
  <2>2. FilesOf[node] \in Seq({"described", "plain"})
    BY <2>1, ListingAssumption
  <2>3. \A i \in DOMAIN FilesOf[node] : i \in 1 .. item
    BY <1>1, <2>1, <2>2
  <2> QED BY <1>1, <2>3 DEF AllFiles, HelpWalk, FilesUpTo
<1>6. HelpAhead(t)'
  <2>1. Ahead(t, node)'
    BY <1>1, <1>2, <1>3, <1>4 DEF HelpAhead, Ahead, lists
  <2>2. \A n \in ToSet(t), i \in Nat : <<"file", n, i>> \notin Shown'
    BY <1>2, <1>3, <1>4 DEF HelpAhead
  <2>3. ASSUME node' # NoNode PROVE FilesNotBeyond(node, index >= 1)'
    <3>1. node' \in ToSet(t)
      BY <1>1, <1>4, <2>3, RestOfWalk, NodesAssumption DEF ListingInv, TypeInv, Walk, Pointers
    <3> QED BY <2>2, <3>1 DEF FilesNotBeyond
  <2>4. \A n \in stayed' : n \in ToSet(t) \/ AllFiles(n)'
    BY <1>1, <1>2, <1>3, <1>4, <1>5 DEF HelpAhead, AllFiles
  <2> QED BY <2>1, <2>2, <2>3, <2>4 DEF HelpAhead
<1>7. HelpWalk'
  <2>1. FilesUpTo(node, index >= 1)'
    BY <1>1 DEF FilesUpTo
  <2> QED BY <1>6, <2>1 DEF HelpWalk
<1>8. LsBegun' /\ LsWalk' /\ LsDone'
  BY <1>1 DEF LsBegun, LsWalk, LsDone, LsServes, HelpServes
<1> QED BY <1>2, <1>7, <1>8

LEMMA EndsOnce ==
  ASSUME ListingInv, OnceInv, Ends
  PROVE  OnceInv'
<1> USE DEF OnceInv
<1>1. state' = "OTHER" /\ out' = << >> /\ stayed' = {} /\ left' = {} /\ UNCHANGED lists
  BY DEF Ends
<1>2. ListsInv'
  BY <1>1, SameLists
<1>3. LeftInv' /\ ListsOnce'
  BY <1>1 DEF LeftInv, ListsOnce
<1> QED BY <1>1, <1>2, <1>3 DEF LsBegun, LsWalk, LsDone, HelpWalk, LsServes, HelpServes

-----------------------------------------------------------------------------
\* What is still before a command when the application links a node, or takes
\* one out: at most that node is no longer.
LEMMA AheadKept ==
  ASSUME TypeInv, ListsInv, LeftInv, NEW s, NEW h, Ahead(s, h), NEW l \in Lists, NEW n \in Nodes,
         (Prepend(l, n) \/ Unlink(l, n)), state # "OTHER"
  PROVE  \E t : /\ Walk(t, h, next') /\ ToSet(t) \subseteq left' \cup Linked'
                /\ ToSet(t) \subseteq ToSet(s) /\ ToSet(s) \cap stayed' \subseteq ToSet(t)
<1>1. Walk(s, h, next) /\ ToSet(s) \subseteq left \cup Linked /\ next \in [Nodes -> Pointers]
  BY DEF Ahead, TypeInv
<1>2. CASE Prepend(l, n)
  <2>1. n \notin left /\ LinkFirst(l, n) /\ left' = left /\ n \notin Linked
    BY <1>2 DEF Prepend, LinkFirst
  <2>2. \A i \in 1 .. Len(s) : s[i] \in Nodes /\ s[i] # n
    BY <1>1, <2>1, Elements DEF Walk, IsWalk
  <2>3. Walk(s, h, next')
    <3>1. \A i \in 1 .. Len(s) : next'[s[i]] = next[s[i]]
      BY <1>1, <2>1, <2>2 DEF LinkFirst
    <3> QED BY <1>1, <3>1, SameWalk, NodesAssumption DEF Walk
  <2>4. \A k \in Lists : ToSet(ListOf(k)) \subseteq ToSet(ListOf(k))'
    BY <2>1, LinkedFirst
  <2>5. ToSet(s) \subseteq left' \cup Linked'
    BY <1>1, <2>1, <2>4 DEF Linked
  <2> QED BY <2>3, <2>5
<1>3. CASE Unlink(l, n)
  <2>1. UnlinkFrom(l, n) /\ left' = left \cup {n} /\ stayed' = stayed \ {n}
    BY <1>3 DEF Unlink
  <2>2. next' = Bypassed(next, Linked, n)
    BY <2>1, UnlinkedOne
  <2>3. PICK t : /\ Walk(t, h, next')
                 /\ ToSet(t) \subseteq ToSet(s) /\ ToSet(s) \ {n} \subseteq ToSet(t)
    BY <1>1, <2>2, WalkKept, NodesAssumption DEF Walk, Pointers
  <2>4. \A k \in Lists : ToSet(ListOf(k)) \subseteq ToSet(ListOf(k))' \cup {n}
    BY <2>1, UnlinkedOne
  <2>5. ToSet(t) \subseteq left' \cup Linked'
    BY <1>1, <2>1, <2>3, <2>4 DEF Linked
  <2> QED BY <2>1, <2>3, <2>5
<1> QED BY <1>2, <1>3

-----------------------------------------------------------------------------
\* The lists as the application changes them.
LEMMA ListsChanged ==
  ASSUME TypeInv, ListsInv, LeftInv, NEW l \in Lists, NEW n \in Nodes,
         Prepend(l, n) \/ Unlink(l, n)
  PROVE  /\ ListsInv' /\ LeftInv'
         /\ \A k \in Lists \ {l} : ListOf(k)' = ListOf(k)
         /\ \/ n \in Nodes \ Linked /\ ListOf(l)' = <<n>> \o ListOf(l)
            \/ \E i \in DOMAIN ListOf(l) : /\ ListOf(l)[i] \notin stayed'
                                          /\ ListOf(l)' = RemoveAt(ListOf(l), i)
         /\ \A k \in Lists : ToSet(ListOf(k)) \cap stayed' \subseteq ToSet(ListOf(k))'
<1>1. CASE Prepend(l, n)
  <2>1. n \notin left /\ n \notin Linked /\ LinkFirst(l, n) /\ UNCHANGED <<state, stayed, left>>
    BY <1>1 DEF Prepend, LinkFirst
  <2>2. /\ ListsInv' /\ ListOf(l)' = <<n>> \o ListOf(l)
        /\ \A k \in Lists \ {l} : ListOf(k)' = ListOf(k)
        /\ ToSet(ListOf(l))' = ToSet(ListOf(l)) \cup {n}
    BY <2>1, LinkedFirst
  <2>3. Linked' \subseteq Linked \cup {n}
    BY <2>2 DEF Linked
  <2>4. LeftInv'
    BY <2>1, <2>3 DEF LeftInv
  <2> QED BY <2>1, <2>2, <2>4
<1>2. CASE Unlink(l, n)
  <2>1. /\ UnlinkFrom(l, n) /\ stayed' = stayed \ {n} /\ state' = state
        /\ left' = IF state = "OTHER" THEN left ELSE left \cup {n}
    BY <1>2 DEF Unlink
  <2>2. /\ ListsInv'
        /\ \E i \in 1 .. Len(ListOf(l)) : ListOf(l)[i] = n /\ ListOf(l)' = RemoveAt(ListOf(l), i)
        /\ \A k \in Lists \ {l} : ListOf(k)' = ListOf(k)
        /\ ToSet(ListOf(l))' = ToSet(ListOf(l)) \ {n}
    BY <2>1, UnlinkedOne
  <2>3. DOMAIN ListOf(l) = 1 .. Len(ListOf(l))
    BY ListsAre
  <2>4. n \notin Linked' /\ Linked' \subseteq Linked
    <3>1. \A k \in Lists : n \notin ToSet(ListOf(k))'
      <4>1. n \in ToSet(ListOf(l))
        BY <2>1 DEF UnlinkFrom
      <4> QED BY <2>2, <4>1, ListsAre
    <3>2. \A k \in Lists : ToSet(ListOf(k))' \subseteq ToSet(ListOf(k))
      BY <2>2
    <3> QED BY <3>1, <3>2 DEF Linked
  <2>5. LeftInv'
    BY <2>1, <2>4 DEF LeftInv
  <2> QED BY <2>1, <2>2, <2>3, <2>5
<1> QED BY <1>1, <1>2

LEMMA ApplicationOnce ==
  ASSUME ListingInv, OnceInv, NEW l \in Lists, NEW n \in Nodes, Prepend(l, n) \/ Unlink(l, n)
  PROVE  OnceInv'
<1> USE DEF OnceInv
<1>1. /\ UNCHANGED <<state, command, node, child, index, item, out>> /\ stayed' \subseteq stayed
  BY DEF Prepend, Unlink, process
<1>2. /\ ListsInv' /\ LeftInv'
      /\ \A k \in Lists : ToSet(ListOf(k)) \cap stayed' \subseteq ToSet(ListOf(k))'
  BY ListsChanged DEF ListingInv
<1>3. ListsOnce' /\ Shown' = Shown
  BY <1>1 DEF ListsOnce, Shown
<1>4. LsBegun'
  <2>1. "children" \in Lists
    BY DEF Lists
  <2> QED BY <1>1, <1>2, <2>1 DEF LsBegun, LsServes
<1>5. LsWalk'
  <2> SUFFICES ASSUME LsServes("PROCESS_SERVICE") PROVE LsWalk'
    BY <1>1 DEF LsWalk, LsServes
  <2>1. PICK s : LsAhead(s)
    BY DEF LsWalk
  <2>2. state # "OTHER" /\ Ahead(s, child)
    BY <2>1 DEF LsAhead, LsServes
  <2>3. PICK t : /\ Walk(t, child, next') /\ ToSet(t) \subseteq left' \cup Linked'
                 /\ ToSet(t) \subseteq ToSet(s) /\ ToSet(s) \cap stayed' \subseteq ToSet(t)
    BY <2>2, AheadKept DEF ListingInv
  <2>4. LsAhead(t)'
    BY <1>1, <1>3, <2>1, <2>3 DEF LsAhead, Ahead
  <2> QED BY <1>1, <1>3, <2>4 DEF LsWalk
<1>6. LsDone'
  BY <1>1, <1>3 DEF LsDone, LsServes, FilesUpTo, FilesNotBeyond
<1>7. HelpWalk'
  <2> SUFFICES ASSUME HelpServes PROVE HelpWalk'
    BY <1>1 DEF HelpWalk, HelpServes
  <2>1. PICK s : HelpAhead(s)
    BY DEF HelpWalk
  <2>2. state # "OTHER" /\ Ahead(s, node)
    BY <2>1 DEF HelpAhead, HelpServes
  <2>3. PICK t : /\ Walk(t, node, next') /\ ToSet(t) \subseteq left' \cup Linked'
                 /\ ToSet(t) \subseteq ToSet(s) /\ ToSet(s) \cap stayed' \subseteq ToSet(t)
    BY <2>2, AheadKept DEF ListingInv
  <2>4. HelpAhead(t)'
    BY <1>1, <1>3, <2>1, <2>3 DEF HelpAhead, Ahead, FilesNotBeyond, AllFiles
  <2> QED BY <1>1, <1>3, <2>4 DEF HelpWalk, FilesUpTo
<1> QED BY <1>2, <1>3, <1>4, <1>5, <1>6, <1>7

LEMMA UnchangedOnce ==
  ASSUME OnceInv, UNCHANGED vars
  PROVE  OnceInv'
<1> USE DEF OnceInv
<1>1. UNCHANGED <<lists, next, state, command, node, child, index, item, out, stayed, left>>
  BY DEF vars, process, lists
<1>2. ListsInv' /\ Linked' = Linked /\ \A l \in Lists : ListOf(l)' = ListOf(l)
  BY <1>1, SameLists
<1>3. LeftInv' /\ ListsOnce' /\ Shown' = Shown
  BY <1>1, <1>2 DEF LeftInv, ListsOnce, Shown
<1>4. LsBegun'
  BY <1>1, <1>2 DEF LsBegun, LsServes, Lists
<1>5. LsWalk'
  BY <1>1, <1>2, <1>3 DEF LsWalk, LsServes, LsAhead, Ahead
<1>6. LsDone'
  BY <1>1, <1>3 DEF LsDone, LsServes, FilesUpTo, FilesNotBeyond
<1>7. HelpWalk'
  BY <1>1, <1>2, <1>3 DEF HelpWalk, HelpServes, HelpAhead, Ahead, FilesUpTo, FilesNotBeyond, AllFiles
<1> QED BY <1>2, <1>3, <1>4, <1>5, <1>6, <1>7

LEMMA OnceKept == ListingInv /\ OnceInv /\ [Next]_vars => OnceInv'
<1> SUFFICES ASSUME ListingInv, OnceInv, [Next]_vars PROVE OnceInv'
  OBVIOUS
<1>1. ASSUME Ls \/ Help PROVE OnceInv'
  BY <1>1, BeginOnce
<1>2. ASSUME LsStart PROVE OnceInv'
  BY <1>2, LsStartOnce
<1>3. ASSUME LsChildPiece PROVE OnceInv'
  BY <1>3, LsChildPieceOnce
<1>4. ASSUME LsChildNext PROVE OnceInv'
  BY <1>4, LsChildNextOnce
<1>5. ASSUME LsChildrenEnd PROVE OnceInv'
  BY <1>5, LsChildrenEndOnce
<1>6. ASSUME LsFile PROVE OnceInv'
  BY <1>6, LsFileOnce
<1>7. ASSUME LsEnd \/ HelpEnd \/ PrintOver PROVE OnceInv'
  BY <1>7, EndsOnce DEF LsEnd, HelpEnd, PrintOver
<1>8. ASSUME HelpFile PROVE OnceInv'
  BY <1>8, HelpFileOnce
<1>9. ASSUME HelpNext PROVE OnceInv'
  BY <1>9, HelpNextOnce
<1>10. ASSUME NEW l \in Lists, NEW n \in Nodes, Prepend(l, n) \/ Unlink(l, n) PROVE OnceInv'
  BY <1>10, ApplicationOnce
<1>11. ASSUME UNCHANGED vars PROVE OnceInv'
  BY <1>11, UnchangedOnce
<1> QED
  BY <1>1, <1>2, <1>3, <1>4, <1>5, <1>6, <1>7, <1>8, <1>9, <1>10, <1>11
     DEF Next, Service, Application

\* The invariant of what is listed, and the one it rests on.
THEOREM OnceInvariant == Spec => [](ListingInv /\ OnceInv)
<1>1. Init => OnceInv
  <2> SUFFICES ASSUME Init PROVE OnceInv
    OBVIOUS
  <2>1. DOMAIN head = Lists /\ \A l \in Lists : head[l] = NoNode
    BY DEF Init, NothingLinked
  <2>2. ListsInv /\ InLists(head, next, Nodes, NoNode) = {}
    BY <2>1, NodesAssumption, EmptyLists DEF ListsInv
  <2>3. Linked = {}
    BY <2>1, <2>2, ListOfIs DEF Linked, InLists
  <2> QED
    BY <2>2, <2>3 DEF Init, OnceInv, LeftInv, ListsOnce, LsBegun, LsWalk, LsDone, HelpWalk,
                LsServes, HelpServes
<1>2. OnceInv /\ ListingInv /\ [Next]_vars => OnceInv'
  BY OnceKept
<1> QED BY <1>1, <1>2, ListingInvariant, PTL DEF Spec

\* No directory and no file is listed twice, whatever the application links
\* and unlinks under the command.
THEOREM ListsOnceHolds == Spec => []ListsOnce
<1>1. OnceInv => ListsOnce
  BY DEF OnceInv
<1> QED BY <1>1, OnceInvariant, PTL

\* ls that ends has named every child that stayed and printed every file of
\* the directory, help every file of every node that stayed.
THEOREM ListsAllHolds == Spec => ListsAll
<1>1. ListingInv /\ OnceInv /\ [Next]_vars => [LsEnd \/ HelpEnd => Owed \subseteq ToSet(out)]_vars
  <2> SUFFICES ASSUME ListingInv, OnceInv, LsEnd \/ HelpEnd PROVE Owed \subseteq ToSet(out)
    OBVIOUS
  <2>1. CASE LsEnd
    <3>1. LsServes("PROCESS_FINISH") /\ item >= Len(FilesOf[Dir]) /\ command = "ls"
      BY <2>1 DEF LsEnd, LsServes
    <3>2. /\ \A n \in stayed : <<"name", n>> \in Shown
          /\ \A i \in 1 .. item : <<"file", Dir, i>> \in Shown
      BY <3>1 DEF OnceInv, LsDone, FilesUpTo
    <3>3. \A i \in DOMAIN FilesOf[Dir] : i \in 1 .. item
      BY <3>1, ListingAssumption DEF ListingInv, TypeInv
    <3> QED BY <3>1, <3>2, <3>3 DEF Owed, Shown
  <2>2. CASE HelpEnd
    <3>1. HelpServes /\ node = NoNode /\ command = "help"
      BY <2>2 DEF HelpEnd, HelpServes
    <3>2. PICK s : HelpAhead(s)
      BY <3>1 DEF OnceInv, HelpWalk
    <3>3. ToSet(s) = {}
      BY <3>1, <3>2, NoWalk, NodesAssumption DEF HelpAhead, Ahead, Walk
    <3>4. \A n \in stayed : AllFiles(n)
      BY <3>2, <3>3 DEF HelpAhead
    <3> QED BY <3>1, <3>4 DEF Owed, Shown, AllFiles
  <2> QED BY <2>1, <2>2
<1> QED BY <1>1, OnceInvariant, PTL DEF Spec, ListsAll

\* Linking and unlinking change one list as they would a sequence, whatever
\* pointers the nodes unlinked before have kept, and keep those under which a
\* command runs out of every list.
THEOREM KeepsListsHolds == Spec => KeepsLists
<1> DEFINE Changed ==
      /\ left' \cap Linked' = {}
      /\ lists' # lists =>
           \E l \in Lists :
             /\ \A k \in Lists \ {l} : ListOf(k)' = ListOf(k)
             /\ LET old == ListOf(l)
                    new == ListOf(l)'
                IN  \/ \E n \in Nodes \ Linked : new = <<n>> \o old
                    \/ \E i \in DOMAIN old : old[i] \notin stayed' /\ new = RemoveAt(old, i)
<1>1. ListingInv /\ OnceInv /\ [Next]_vars => [Changed]_vars
  <2> SUFFICES ASSUME ListingInv, OnceInv, Next PROVE Changed
    OBVIOUS
  <2>1. left' \cap Linked' = {}
    BY OnceKept DEF OnceInv, LeftInv
  <2>2. ASSUME NEW l \in Lists, NEW n \in Nodes, Prepend(l, n) \/ Unlink(l, n)
        PROVE  Changed
    <3>1. /\ \A k \in Lists \ {l} : ListOf(k)' = ListOf(k)
          /\ \/ n \in Nodes \ Linked /\ ListOf(l)' = <<n>> \o ListOf(l)
             \/ \E i \in DOMAIN ListOf(l) : /\ ListOf(l)[i] \notin stayed'
                                           /\ ListOf(l)' = RemoveAt(ListOf(l), i)
      BY <2>2, ListsChanged DEF ListingInv, OnceInv
    <3> QED BY <2>1, <3>1
  <2>3. \/ lists' = lists
        \/ \E l \in Lists, n \in Nodes : Prepend(l, n) \/ Unlink(l, n)
    BY DEF Next, Service, Application, Ls, Help, Begin, LsStart, LsChildPiece, LsChildNext,
           LsChildrenEnd, LsFile, FileStep, LsEnd, Ends, HelpFile, HelpNext, HelpEnd, PrintOver
  <2> QED BY <2>1, <2>2, <2>3
<1> QED BY <1>1, OnceInvariant, PTL DEF Spec, KeepsLists

-----------------------------------------------------------------------------
(***************************************************************************)
(* How far a command is from its end.                                      *)
(***************************************************************************)
\* No command goes beyond the files of the node it is at.
ItemInv ==
  /\ LsServes("PROCESS_FINISH") => item <= Len(FilesOf[Dir])
  /\ HelpServes /\ node # NoNode => item <= Len(FilesOf[node])

NodesLeft(p) == Cardinality(ToSet(NodesFrom(p)))

\* What is ahead of a pointer is counted by any walk from it.
LEMMA NodesLeftIs ==
  ASSUME NEW s, NEW p, Walk(s, p, next)
  PROVE  NodesLeft(p) = Cardinality(ToSet(s)) /\ IsFiniteSet(ToSet(s)) /\ NodesLeft(p) \in Nat
<1>1. NodesFrom(p) = ListFrom(p, next, Nodes, NoNode)
  BY DEF NodesFrom, ListFrom
<1>2. NodesFrom(p) = s
  BY <1>1, ListFromIs, NodesAssumption DEF Walk
<1>3. ToSet(s) \subseteq Nodes
  BY Elements DEF Walk, IsWalk
<1>4. IsFiniteSet(ToSet(s)) /\ Cardinality(ToSet(s)) \in Nat
  BY <1>3, FS_Subset, FS_CardinalityType, NodesAssumption
<1> QED BY <1>2, <1>4 DEF NodesLeft

\* The same after a step.
LEMMA NodesLeftBecome ==
  /\ \A s : Walk(s, child', next') => NodesLeft(child)' = Cardinality(ToSet(s))
  /\ \A s : Walk(s, node', next') => NodesLeft(node)' = Cardinality(ToSet(s))
<1>1. NodesFrom(child)' = ListFrom(child', next', Nodes, NoNode)
  BY DEF NodesFrom, ListFrom
<1>2. NodesFrom(node)' = ListFrom(node', next', Nodes, NoNode)
  BY DEF NodesFrom, ListFrom
<1>3. \A s, h : Walk(s, h, next') => ListFrom(h, next', Nodes, NoNode) = s
  BY ListFromIs, NodesAssumption DEF Walk
<1> QED BY <1>1, <1>2, <1>3 DEF NodesLeft

\* Ranks by what is served.
LEMMA RankIs ==
  /\ LsServes("PROCESS_START") => Rank = <<2, 0, 0, 0>>
  /\ LsServes("PROCESS_SERVICE") => Rank = <<1, NodesLeft(child), 0, 3 - index>>
  /\ LsServes("PROCESS_FINISH") => Rank = <<0, 0, Len(FilesOf[Dir]) - item, 4 - index>>
  /\ HelpServes /\ node = NoNode => Rank = <<0, 0, 0, 0>>
  /\ HelpServes /\ node # NoNode =>
       Rank = <<0, NodesLeft(node), Len(FilesOf[node]) - item, 3 - index>>
BY DEF Rank, LsServes, HelpServes, NodesLeft

LEMMA RankBecomes ==
  /\ LsServes("PROCESS_START")' => Rank' = <<2, 0, 0, 0>>
  /\ LsServes("PROCESS_SERVICE")' => Rank' = <<1, NodesLeft(child)', 0, 3 - index'>>
  /\ LsServes("PROCESS_FINISH")' => Rank' = <<0, 0, Len(FilesOf[Dir]) - item', 4 - index'>>
  /\ HelpServes' /\ node' = NoNode => Rank' = <<0, 0, 0, 0>>
  /\ HelpServes' /\ node' # NoNode =>
       Rank' = <<0, NodesLeft(node)', Len(FilesOf[node']) - item', 3 - index'>>
BY DEF Rank, LsServes, HelpServes, NodesLeft

LEMMA BelowIs ==
  ASSUME NEW a \in Nat, NEW b \in Nat, NEW c \in Nat, NEW d \in Nat,
         NEW w \in Nat, NEW x \in Nat, NEW y \in Nat, NEW z \in Nat,
         \/ a < w
         \/ a = w /\ b < x
         \/ a = w /\ b = x /\ c < y
         \/ a = w /\ b = x /\ c = y /\ d < z
  PROVE  Below(<<a, b, c, d>>, <<w, x, y, z>>)
<1> DEFINE r == <<a, b, c, d>>
           t == <<w, x, y, z>>
<1>1. /\ r[1] = a /\ r[2] = b /\ r[3] = c /\ r[4] = d
      /\ t[1] = w /\ t[2] = x /\ t[3] = y /\ t[4] = z
  OBVIOUS
<1> HIDE DEF r, t
<1>2. \E k \in 1 .. 4 : r[k] < t[k] /\ \A j \in 1 .. k - 1 : r[j] = t[j]
  BY <1>1
<1> QED BY <1>2 DEF Below, r, t

\* Ranks are of naturals.
LEMMA Ranked == ListingInv /\ OnceInv /\ ItemInv /\ state # "OTHER" => Rank \in [1 .. 4 -> Nat]
<1> SUFFICES ASSUME ListingInv, OnceInv, ItemInv, state # "OTHER" PROVE Rank \in [1 .. 4 -> Nat]
  OBVIOUS
<1>1. \A a, b, c, d \in Nat : <<a, b, c, d>> \in [1 .. 4 -> Nat]
  OBVIOUS
<1>2. /\ index \in Nat /\ item \in Nat /\ node \in Pointers
      /\ \A n \in Nodes \cup {Dir} : Len(FilesOf[n]) \in Nat
  BY ListingAssumption DEF ListingInv, TypeInv
<1>3. CASE LsServes("PROCESS_START")
  BY <1>1, <1>3, RankIs
<1>4. CASE LsServes("PROCESS_SERVICE")
  <2>1. index \in 0 .. 3
    BY <1>4 DEF ListingInv, LsChildrenInv
  <2>2. PICK s : LsAhead(s)
    BY <1>4 DEF OnceInv, LsWalk
  <2>3. NodesLeft(child) \in Nat
    BY <2>2, NodesLeftIs DEF LsAhead, Ahead
  <2>4. 3 - index \in Nat
    BY <2>1
  <2> QED BY <1>1, <1>4, <2>3, <2>4, RankIs
<1>5. CASE LsServes("PROCESS_FINISH")
  <2>1. 4 - index \in Nat
    BY <1>5 DEF ListingInv, LsFilesInv
  <2>2. Len(FilesOf[Dir]) - item \in Nat
    BY <1>2, <1>5 DEF ItemInv
  <2> QED BY <1>1, <1>5, <2>1, <2>2, RankIs
<1>6. CASE HelpServes
  <2>1. CASE node = NoNode
    BY <1>1, <1>6, <2>1, RankIs
  <2>2. CASE node # NoNode
    <3>1. 3 - index \in Nat
      BY <1>6 DEF ListingInv, HelpInv
    <3>2. Len(FilesOf[node]) - item \in Nat
      BY <1>2, <1>6, <2>2 DEF ItemInv, Pointers
    <3>3. PICK s : HelpAhead(s)
      BY <1>6 DEF OnceInv, HelpWalk
    <3>4. NodesLeft(node) \in Nat
      BY <3>3, NodesLeftIs DEF HelpAhead, Ahead
    <3> QED BY <1>1, <1>6, <2>2, <3>1, <3>2, <3>4, RankIs
  <2> QED BY <2>1, <2>2
<1> QED BY <1>3, <1>4, <1>5, <1>6 DEF ListingInv, TypeInv, HelpState, LsServes, HelpServes

\* A walk that goes on beyond a node has one less before it.
LEMMA OneLess ==
  ASSUME NEW S, IsFiniteSet(S), NEW n \in S, NEW T, T = S \ {n}
  PROVE  Cardinality(T) \in Nat /\ Cardinality(S) \in Nat /\ Cardinality(T) < Cardinality(S)
<1>1. Cardinality(S) \in Nat /\ IsFiniteSet(T) /\ Cardinality(T) = Cardinality(S) - 1
  BY FS_CardinalityType, FS_RemoveElement
<1> QED BY <1>1, FS_CardinalityType

LEMMA ItemKept ==
  ASSUME ListingInv, OnceInv, ItemInv, [Next]_vars
  PROVE  ItemInv'
<1>1. /\ index \in Nat /\ item \in Nat /\ node \in Pointers /\ NoNode \notin Nodes
      /\ \A n \in Nodes \cup {Dir} : Len(FilesOf[n]) \in Nat
  BY ListingAssumption, NodesAssumption DEF ListingInv, TypeInv
<1>2. ASSUME Ls PROVE ItemInv'
  BY <1>2 DEF Ls, Begin, ItemInv, LsServes, HelpServes
<1>3. ASSUME Help PROVE ItemInv'
  <2>1. /\ state' = "PROCESS_START" /\ item' = 0 /\ node' \in Pointers
    BY <1>3, ListingKept DEF Help, Begin, ListingInv, TypeInv, Lists
  <2> QED BY <1>1, <2>1 DEF ItemInv, LsServes, HelpServes, Pointers
<1>4. ASSUME LsStart \/ LsChildPiece \/ LsChildNext PROVE ItemInv'
  BY <1>4 DEF LsStart, LsChildPiece, LsChildNext, ItemInv, LsServes, HelpServes
<1>5. ASSUME LsChildrenEnd PROVE ItemInv'
  BY <1>1, <1>5 DEF LsChildrenEnd, ItemInv, LsServes, HelpServes
<1>6. ASSUME LsFile PROVE ItemInv'
  <2>1. /\ LsServes("PROCESS_FINISH") /\ item < Len(FilesOf[Dir]) /\ item' \in {item, item + 1}
        /\ UNCHANGED <<state, command>>
    BY <1>6 DEF LsFile, FileStep, ItemAfter
  <2> QED BY <1>1, <2>1 DEF ItemInv, LsServes, HelpServes
<1>7. ASSUME HelpFile PROVE ItemInv'
  <2>1. /\ HelpServes /\ item < Len(FilesOf[node]) /\ item' \in {item, item + 1} /\ node # NoNode
        /\ UNCHANGED <<state, command, node>>
    BY <1>7 DEF HelpFile, FileStep, ItemAfter
  <2> QED BY <1>1, <2>1 DEF ItemInv, LsServes, HelpServes, Pointers
<1>8. ASSUME HelpNext PROVE ItemInv'
  <2>1. HelpServes /\ item' = 0 /\ node' \in Pointers /\ UNCHANGED <<state, command>>
    BY <1>8, <1>1 DEF HelpNext, NodeAfter, ListingInv, TypeInv, Pointers
  <2> QED BY <1>1, <2>1 DEF ItemInv, LsServes, HelpServes, Pointers
<1>9. ASSUME LsEnd \/ HelpEnd \/ PrintOver PROVE ItemInv'
  BY <1>9 DEF LsEnd, HelpEnd, PrintOver, Ends, ItemInv, LsServes, HelpServes
<1>10. ASSUME NEW l \in Lists, NEW n \in Nodes, Prepend(l, n) \/ Unlink(l, n) PROVE ItemInv'
  BY <1>10 DEF Prepend, Unlink, process, ItemInv, LsServes, HelpServes
<1>11. ASSUME UNCHANGED vars PROVE ItemInv'
  BY <1>11 DEF vars, process, ItemInv, LsServes, HelpServes
<1> QED
  BY <1>2, <1>3, <1>4, <1>5, <1>6, <1>7, <1>8, <1>9, <1>10, <1>11 DEF Next, Service, Application

\* The pieces of a file: one less in the row, or the next file.
LEMMA FileAdvances ==
  ASSUME NEW len \in Nat, NEW k \in Nat, NEW i \in Nat, NEW j \in Nat, i < k, j < k,
         NEW m \in Nat, m < len, NEW n,
         \/ j > i /\ n = m
         \/ j = 0 /\ n = m + 1
  PROVE  /\ len - m \in Nat /\ len - n \in Nat /\ k - i \in Nat /\ k - j \in Nat
         /\ len - n < len - m \/ (len - n = len - m /\ k - j < k - i)
OBVIOUS

LEMMA LsAdvances ==
  ASSUME ListingInv, OnceInv, LsStart \/ LsChildPiece \/ LsChildNext \/ LsChildrenEnd \/ LsFile
  PROVE  Below(Rank', Rank)
<1>1. OnceInv'
  BY LsStartOnce, LsChildPieceOnce, LsChildNextOnce, LsChildrenEndOnce, LsFileOnce
<1>2. ListingInv'
  BY ListingKept DEF Next, Service
<1>3. ASSUME LsServes("PROCESS_SERVICE")
      PROVE  /\ index \in 0 .. 3 /\ NodesLeft(child) \in Nat
             /\ \E s : Ahead(s, child) /\ NodesLeft(child) = Cardinality(ToSet(s))
  <2>1. PICK s : LsAhead(s)
    BY <1>3 DEF OnceInv, LsWalk
  <2> QED BY <1>3, <2>1, NodesLeftIs DEF LsAhead, Ahead, ListingInv, LsChildrenInv
<1>4. CASE LsStart
  <2>1. LsServes("PROCESS_START") /\ LsServes("PROCESS_SERVICE")' /\ index' = 0
    BY <1>4 DEF LsStart, LsServes, IndexFirst
  <2>2. PICK s : LsAhead(s)'
    BY <1>1, <2>1 DEF OnceInv, LsWalk
  <2>3. Walk(s, child', next') /\ ToSet(s) \subseteq Nodes
    BY <2>2, Elements DEF LsAhead, Ahead, Walk, IsWalk
  <2>4. Cardinality(ToSet(s)) \in Nat
    BY <2>3, FS_Subset, FS_CardinalityType, NodesAssumption
  <2>5. NodesLeft(child)' \in Nat
    BY <2>3, <2>4, NodesLeftBecome
  <2>6. Rank = <<2, 0, 0, 0>> /\ Rank' = <<1, NodesLeft(child)', 0, 3>>
    BY <2>1, RankIs, RankBecomes
  <2> DEFINE c == NodesLeft(child)'
  <2>7. c \in Nat
    BY <2>5
  <2> HIDE DEF c
  <2>8. Below(<<1, c, 0, 3>>, <<2, 0, 0, 0>>)
    BY <2>7, BelowIs
  <2> QED BY <2>6, <2>8 DEF c
<1>5. CASE LsChildPiece
  <2>1. /\ LsServes("PROCESS_SERVICE") /\ LsServes("PROCESS_SERVICE")'
        /\ index' = index + 1 /\ index < 3 /\ UNCHANGED <<lists, child>>
    BY <1>5 DEF LsChildPiece, LsServes
  <2>2. PICK s : Ahead(s, child) /\ NodesLeft(child) = Cardinality(ToSet(s))
    BY <1>3, <2>1
  <2>3. Walk(s, child', next')
    BY <2>1, <2>2 DEF Ahead, lists
  <2>4. NodesLeft(child)' = NodesLeft(child)
    BY <2>2, <2>3, NodesLeftBecome
  <2>5. /\ Rank = <<1, NodesLeft(child), 0, 3 - index>>
        /\ Rank' = <<1, NodesLeft(child), 0, 3 - index'>>
    BY <2>1, <2>4, RankIs, RankBecomes
  <2>6. 3 - index' \in Nat /\ 3 - index \in Nat /\ 3 - index' < 3 - index
    BY <1>3, <2>1
  <2> QED BY <1>3, <2>1, <2>5, <2>6, BelowIs
<1>6. CASE LsChildNext
  <2>1. /\ LsServes("PROCESS_SERVICE") /\ LsServes("PROCESS_SERVICE")'
        /\ index = 3 /\ index' = 0 /\ child # NoNode /\ child' = next[child] /\ UNCHANGED lists
    BY <1>6 DEF LsChildNext, LsServes
  <2>2. PICK s : Ahead(s, child) /\ NodesLeft(child) = Cardinality(ToSet(s))
    BY <1>3, <2>1
  <2>3. child \in ToSet(s) /\ \E t : Walk(t, next[child], next) /\ ToSet(t) = ToSet(s) \ {child}
    BY <2>1, <2>2, RestOfWalk, NodesAssumption DEF ListingInv, TypeInv, Ahead, Walk, Pointers
  <2>4. PICK t : Walk(t, next[child], next) /\ ToSet(t) = ToSet(s) \ {child}
    BY <2>3
  <2>5. NodesLeft(child)' = Cardinality(ToSet(t))
    BY <2>1, <2>4, NodesLeftBecome DEF lists
  <2>6. IsFiniteSet(ToSet(s))
    BY <2>2, NodesLeftIs DEF Ahead
  <2>7. /\ NodesLeft(child)' \in Nat /\ NodesLeft(child) \in Nat
        /\ NodesLeft(child)' < NodesLeft(child)
    BY <2>2, <2>3, <2>4, <2>5, <2>6, OneLess
  <2>8. /\ Rank = <<1, NodesLeft(child), 0, 0>>
        /\ Rank' = <<1, NodesLeft(child)', 0, 3>>
    BY <2>1, RankIs, RankBecomes
  <2> QED BY <2>7, <2>8, BelowIs
<1>7. CASE LsChildrenEnd
  <2>1. /\ LsServes("PROCESS_SERVICE") /\ LsServes("PROCESS_FINISH")' /\ index' = 0 /\ item' = 0
    BY <1>7 DEF LsChildrenEnd, LsServes
  <2>2. /\ Rank = <<1, NodesLeft(child), 0, 3 - index>>
        /\ Rank' = <<0, 0, Len(FilesOf[Dir]), 4>>
    BY <2>1, RankIs, RankBecomes, ListingAssumption
  <2>3. 3 - index \in Nat /\ Len(FilesOf[Dir]) \in Nat /\ NodesLeft(child) \in Nat
    BY <1>3, <2>1, ListingAssumption
  <2> DEFINE c == NodesLeft(child)
             f == Len(FilesOf[Dir])
             i == 3 - index
  <2>4. c \in Nat /\ f \in Nat /\ i \in Nat
    BY <2>3
  <2> HIDE DEF c, f, i
  <2>5. Below(<<0, 0, f, 4>>, <<1, c, 0, i>>)
    BY <2>4, BelowIs
  <2> QED BY <2>2, <2>5 DEF c, f, i
<1>8. CASE LsFile
  <2>1. /\ LsServes("PROCESS_FINISH") /\ LsServes("PROCESS_FINISH")' /\ item \in Nat
        /\ item < Len(FilesOf[Dir]) /\ index \in 0 .. 3 /\ index' \in 0 .. 3
    BY <1>2, <1>8 DEF LsFile, FileStep, LsServes, ListingInv, TypeInv, LsFilesInv
  <2>2. \/ index' > index /\ item' = item
        \/ index' = 0 /\ item' = item + 1
    BY <1>8, <2>1, LsFileSlots
  <2>3. Len(FilesOf[Dir]) \in Nat
    BY ListingAssumption
  <2> DEFINE left0 == Len(FilesOf[Dir]) - item
             left1 == Len(FilesOf[Dir]) - item'
  <2>4. /\ left0 \in Nat /\ left1 \in Nat /\ 4 - index \in Nat /\ 4 - index' \in Nat
        /\ left1 < left0 \/ (left1 = left0 /\ 4 - index' < 4 - index)
    <3>1. index \in Nat /\ index' \in Nat /\ index < 4 /\ index' < 4
      BY <2>1
    <3> QED BY <2>1, <2>2, <2>3, <3>1, FileAdvances
  <2>5. Rank = <<0, 0, left0, 4 - index>> /\ Rank' = <<0, 0, left1, 4 - index'>>
    BY <2>1, RankIs, RankBecomes
  <2> HIDE DEF left0, left1
  <2> QED BY <2>4, <2>5, BelowIs
<1> QED BY <1>4, <1>5, <1>6, <1>7, <1>8

LEMMA HelpAdvances ==
  ASSUME ListingInv, OnceInv, ItemInv, HelpFile \/ HelpNext
  PROVE  Below(Rank', Rank)
<1>1. ListingInv' /\ OnceInv' /\ ItemInv'
  <2>1. Next
    BY DEF Next, Service
  <2> QED BY <2>1, ListingKept, OnceKept, ItemKept
<1>2. /\ HelpServes /\ node \in Nodes /\ index \in 0 .. 2 /\ item \in Nat /\ UNCHANGED lists
      /\ HelpServes' /\ node # NoNode /\ item <= Len(FilesOf[node])
      /\ \A n \in Nodes : Len(FilesOf[n]) \in Nat
  BY ListingAssumption DEF HelpFile, HelpNext, HelpServes, FileStep, ListingInv, TypeInv, Pointers,
     HelpInv, ItemInv
<1>3. PICK s : HelpAhead(s)
  BY <1>2 DEF OnceInv, HelpWalk
<1>4. /\ Walk(s, node, next) /\ NodesLeft(node) = Cardinality(ToSet(s))
      /\ IsFiniteSet(ToSet(s)) /\ NodesLeft(node) \in Nat
  BY <1>3, NodesLeftIs DEF HelpAhead, Ahead
<1> DEFINE left0 == Len(FilesOf[node]) - item
<1>5. left0 \in Nat /\ 3 - index \in Nat
  BY <1>2
<1>6. Rank = <<0, NodesLeft(node), left0, 3 - index>>
  BY <1>2, RankIs
<1>7. CASE HelpFile
  <2>1. item < Len(FilesOf[node]) /\ node' = node
    BY <1>7 DEF HelpFile, FileStep
  <2>2. index' \in 0 .. 2
    BY <1>1, <1>2 DEF ListingInv, HelpInv
  <2>3. \/ index' > index /\ item' = item
        \/ index' = 0 /\ item' = item + 1
    BY <1>2, <1>7, <2>2, HelpFileSlots
  <2> DEFINE left1 == Len(FilesOf[node]) - item'
  <2>4. /\ left1 \in Nat /\ 3 - index' \in Nat
        /\ left1 < left0 \/ (left1 = left0 /\ 3 - index' < 3 - index)
    <3> DEFINE f == Len(FilesOf[node])
    <3>1. index \in Nat /\ index' \in Nat /\ index < 3 /\ index' < 3
      BY <1>2, <2>2
    <3>2. item \in Nat /\ f \in Nat /\ item < f
      BY <1>2, <2>1
    <3> HIDE DEF f
    <3>3. 3 \in Nat
      OBVIOUS
    <3>4. /\ f - item \in Nat /\ f - item' \in Nat /\ 3 - index \in Nat /\ 3 - index' \in Nat
          /\ f - item' < f - item \/ (f - item' = f - item /\ 3 - index' < 3 - index)
      BY ONLY <2>3, <3>1, <3>2, <3>3, FileAdvances
    <3> QED BY <3>4 DEF f
  <2>5. NodesLeft(node)' = NodesLeft(node)
    BY <1>2, <1>4, <2>1, NodesLeftBecome DEF lists
  <2>6. Rank' = <<0, NodesLeft(node), left1, 3 - index'>>
    BY <1>2, <2>1, <2>5, RankBecomes
  <2> HIDE DEF left0, left1
  <2> QED BY <1>4, <1>5, <1>6, <2>4, <2>6, BelowIs
<1>8. CASE HelpNext
  <2>1. node' = next[node] /\ index' = 0 /\ item' = 0
    BY <1>8 DEF HelpNext, NodeAfter
  <2>2. node \in ToSet(s) /\ \E t : Walk(t, next[node], next) /\ ToSet(t) = ToSet(s) \ {node}
    BY <1>2, <1>4, RestOfWalk, NodesAssumption DEF ListingInv, TypeInv, Walk, Pointers
  <2>3. PICK t : Walk(t, next[node], next) /\ ToSet(t) = ToSet(s) \ {node}
    BY <2>2
  <2>4. NodesLeft(node)' = Cardinality(ToSet(t))
    BY <1>2, <2>1, <2>3, NodesLeftBecome DEF lists
  <2>5. Cardinality(ToSet(t)) \in Nat /\ Cardinality(ToSet(t)) < NodesLeft(node)
    BY <1>4, <2>2, <2>3, OneLess
  <2>6. CASE node' = NoNode
    <3>1. Rank' = <<0, 0, 0, 0>>
      BY <1>2, <2>6, RankBecomes
    <3> DEFINE c == NodesLeft(node)
    <3>2. c \in Nat /\ 0 < c
      BY <1>4, <2>5
    <3> HIDE DEF left0, c
    <3>3. Below(<<0, 0, 0, 0>>, <<0, c, left0, 3 - index>>)
      BY <1>5, <3>2, BelowIs
    <3> QED BY <1>6, <3>1, <3>3 DEF c
  <2>7. CASE node' # NoNode
    <3>1. Rank' = <<0, NodesLeft(node)', Len(FilesOf[node']) - item', 3 - index'>>
      BY <1>2, <2>7, RankBecomes
    <3>2. Rank' \in [1 .. 4 -> Nat]
      <4>1. (state # "OTHER")'
        BY <1>2 DEF HelpServes
      <4>2. (ListingInv /\ OnceInv /\ ItemInv /\ state # "OTHER" => Rank \in [1 .. 4 -> Nat])'
        BY Ranked, PTL
      <4> QED BY <1>1, <4>1, <4>2
    <3>3. Len(FilesOf[node']) - item' \in Nat /\ 3 - index' \in Nat
      BY <3>1, <3>2
    <3> HIDE DEF left0
    <3> QED BY <1>4, <1>5, <1>6, <2>4, <2>5, <3>1, <3>3, BelowIs
  <2> QED BY <2>6, <2>7
<1> QED BY <1>7, <1>8

\* What is linked is not before a command; what is unlinked only takes the
\* node out that is.
LEMMA ApplicationDelays ==
  ASSUME ListingInv, OnceInv, ItemInv, state # "OTHER",
         NEW l \in Lists, NEW n \in Nodes, Prepend(l, n) \/ Unlink(l, n)
  PROVE  Rank' = Rank \/ Below(Rank', Rank)
<1>1. /\ UNCHANGED <<state, command, node, child, index, item>>
      /\ TypeInv /\ ListsInv /\ LeftInv
  BY DEF Prepend, Unlink, process, ListingInv, OnceInv
<1>2. ASSUME NEW s, NEW h, Ahead(s, h)
      PROVE  /\ NodesLeft(h) = Cardinality(ToSet(s))
             /\ \E t : /\ Walk(t, h, next')
                      /\ Cardinality(ToSet(t)) \in Nat /\ NodesLeft(h) \in Nat
                      /\ Cardinality(ToSet(t)) <= NodesLeft(h)
  <2>1. NodesLeft(h) = Cardinality(ToSet(s)) /\ IsFiniteSet(ToSet(s)) /\ NodesLeft(h) \in Nat
    BY <1>2, NodesLeftIs DEF Ahead
  <2>2. PICK t : Walk(t, h, next') /\ ToSet(t) \subseteq ToSet(s)
    BY <1>1, <1>2, AheadKept
  <2>3. Cardinality(ToSet(t)) \in Nat /\ Cardinality(ToSet(t)) <= Cardinality(ToSet(s))
    BY <2>1, <2>2, FS_Subset, FS_CardinalityType
  <2> QED BY <2>1, <2>2, <2>3
<1>3. CASE LsServes("PROCESS_START") \/ LsServes("PROCESS_FINISH")
  BY <1>1, <1>3, RankIs, RankBecomes DEF LsServes
<1>4. CASE LsServes("PROCESS_SERVICE")
  <2>1. PICK s : Ahead(s, child)
    BY <1>4 DEF OnceInv, LsWalk, LsAhead
  <2>2. PICK t : /\ Walk(t, child, next')
                 /\ Cardinality(ToSet(t)) \in Nat /\ NodesLeft(child) \in Nat
                 /\ Cardinality(ToSet(t)) <= NodesLeft(child)
    BY <1>2, <2>1
  <2>3. NodesLeft(child)' = Cardinality(ToSet(t))
    BY <1>1, <2>2, NodesLeftBecome
  <2>4. /\ Rank = <<1, NodesLeft(child), 0, 3 - index>>
        /\ Rank' = <<1, NodesLeft(child)', 0, 3 - index>>
    BY <1>1, <1>4, RankIs, RankBecomes DEF LsServes
  <2>5. 3 - index \in Nat
    BY <1>4 DEF ListingInv, LsChildrenInv
  <2>6. CASE NodesLeft(child)' = NodesLeft(child)
    BY <2>4, <2>6
  <2>7. CASE NodesLeft(child)' # NodesLeft(child)
    <3>1. NodesLeft(child)' \in Nat /\ NodesLeft(child)' < NodesLeft(child)
      BY <2>2, <2>3, <2>7
    <3> QED BY <2>2, <2>4, <2>5, <3>1, BelowIs
  <2> QED BY <2>6, <2>7
<1>5. CASE HelpServes /\ node = NoNode
  BY <1>1, <1>5, RankIs, RankBecomes DEF HelpServes
<1>6. CASE HelpServes /\ node # NoNode
  <2>1. PICK s : Ahead(s, node)
    BY <1>6 DEF OnceInv, HelpWalk, HelpAhead
  <2>2. PICK t : /\ Walk(t, node, next')
                 /\ Cardinality(ToSet(t)) \in Nat /\ NodesLeft(node) \in Nat
                 /\ Cardinality(ToSet(t)) <= NodesLeft(node)
    BY <1>2, <2>1
  <2>3. NodesLeft(node)' = Cardinality(ToSet(t))
    BY <1>1, <2>2, NodesLeftBecome
  <2>4. /\ Rank = <<0, NodesLeft(node), Len(FilesOf[node]) - item, 3 - index>>
        /\ Rank' = <<0, NodesLeft(node)', Len(FilesOf[node]) - item, 3 - index>>
    BY <1>1, <1>6, RankIs, RankBecomes DEF HelpServes
  <2>5. 3 - index \in Nat /\ Len(FilesOf[node]) - item \in Nat
    BY <1>6, ListingAssumption DEF ListingInv, HelpInv, TypeInv, ItemInv, Pointers
  <2>6. CASE NodesLeft(node)' = NodesLeft(node)
    BY <2>4, <2>6
  <2>7. CASE NodesLeft(node)' # NodesLeft(node)
    <3>1. NodesLeft(node)' \in Nat /\ NodesLeft(node)' < NodesLeft(node)
      BY <2>2, <2>3, <2>7
    <3> QED BY <2>2, <2>4, <2>5, <3>1, BelowIs
  <2> QED BY <2>6, <2>7
<1> QED
  BY <1>3, <1>4, <1>5, <1>6 DEF ListingInv, TypeInv, HelpState, LsServes, HelpServes

THEOREM ItemInvariant == Spec => []ItemInv
<1>1. Init => ItemInv
  BY DEF Init, ItemInv, LsServes, HelpServes
<1>2. ListingInv /\ OnceInv /\ ItemInv /\ [Next]_vars => ItemInv'
  BY ItemKept
<1> QED BY <1>1, <1>2, OnceInvariant, PTL DEF Spec

\* No sequence of ranks goes down for ever.
LEMMA RanksEnd ==
  ASSUME NEW f \in [Nat -> [1 .. 4 -> Nat]]
  PROVE  \E n \in Nat : ~Below(f[n + 1], f[n])
<1>1. 4 \in Nat
  OBVIOUS
<1>2. \E n \in Nat :
        ~ \E k \in 1 .. 4 : f[n + 1][k] < f[n][k] /\ \A j \in 1 .. k - 1 : f[n + 1][j] = f[n][j]
  BY ONLY <1>1, f \in [Nat -> [1 .. 4 -> Nat]], TuplesEnd
<1> QED BY <1>2 DEF Below

\* Every call of ush_service that does not end ls or help brings its end nearer,
\* in an order of four naturals that has no infinite descent; what the
\* application links and unlinks under the command never puts the end off.
THEOREM AdvancesHolds == Spec => Advances
<1> DEFINE Nearer ==
      state' # "OTHER" =>
        /\ Rank' \in [1 .. 4 -> Nat]
        /\ state # "OTHER" => Below(Rank', Rank) \/ (lists' # lists /\ Rank' = Rank)
<1>1. ListingInv /\ OnceInv /\ ItemInv /\ [Next]_vars => [Nearer]_vars
  <2> SUFFICES ASSUME ListingInv, OnceInv, ItemInv, Next, state' # "OTHER", vars' # vars PROVE Nearer
    OBVIOUS
  <2>1. Rank' \in [1 .. 4 -> Nat]
    <3>1. ListingInv' /\ OnceInv' /\ ItemInv'
      BY ListingKept, OnceKept, ItemKept
    <3>2. (ListingInv /\ OnceInv /\ ItemInv /\ state # "OTHER" => Rank \in [1 .. 4 -> Nat])'
      BY Ranked, PTL
    <3> QED BY <3>1, <3>2
  <2>2. ASSUME state # "OTHER" PROVE Below(Rank', Rank) \/ (lists' # lists /\ Rank' = Rank)
    <3>1. ASSUME LsStart \/ LsChildPiece \/ LsChildNext \/ LsChildrenEnd \/ LsFile
          PROVE  Below(Rank', Rank)
      BY <3>1, LsAdvances
    <3>2. ASSUME HelpFile \/ HelpNext PROVE Below(Rank', Rank)
      BY <3>2, HelpAdvances
    <3>3. ASSUME NEW l \in Lists, NEW n \in Nodes, Prepend(l, n) \/ Unlink(l, n)
          PROVE  Below(Rank', Rank) \/ (lists' # lists /\ Rank' = Rank)
      <4>1. Rank' = Rank \/ Below(Rank', Rank)
        BY <2>2, <3>3, ApplicationDelays
      <4>2. lists' # lists
        <5>1. CASE Prepend(l, n)
          <6>1. n \notin Linked /\ UNCHANGED <<state, process, out, stayed, left>>
            BY <5>1 DEF Prepend, LinkFirst
          <6> QED BY <6>1 DEF vars
        <5>2. CASE Unlink(l, n)
          <6>1. n \in Linked /\ n \notin Linked'
            <7>1. n \in ToSet(ListOf(l))
              BY <5>2 DEF Unlink, UnlinkFrom
            <7>2. \A k \in Lists : n \notin ToSet(ListOf(k))'
              BY <5>2, <7>1, UnlinkedOne, ListsAre DEF Unlink, ListingInv, OnceInv
            <7> QED BY <7>1, <7>2 DEF Linked
          <6>2. ASSUME lists' = lists PROVE Linked' = Linked
            BY <6>2, SameLists DEF OnceInv
          <6> QED BY <6>1, <6>2
        <5> QED BY <3>3, <5>1, <5>2
      <4> QED BY <4>1, <4>2
    <3>4. ~(Ls \/ Help \/ LsEnd \/ HelpEnd \/ PrintOver)
      BY <2>2 DEF Ls, Help, Begin, LsEnd, HelpEnd, PrintOver, Ends
    <3> QED BY <3>1, <3>2, <3>3, <3>4 DEF Next, Service, Application
  <2> QED BY <2>1, <2>2
<1> QED BY <1>1, OnceInvariant, ItemInvariant, PTL DEF Spec, Advances


=============================================================================
