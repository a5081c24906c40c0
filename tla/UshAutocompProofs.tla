------------------------- MODULE UshAutocompProofs -------------------------
(***************************************************************************)
(* Completing a word never writes behind the input buffer, for names of    *)
(* every length, when the lines typed leave room for the longest of them;  *)
(* the terminal then shows the line again; the candidates listed are all   *)
(* there, whatever is linked and unlinked meanwhile; and the search, byte  *)
(* by byte, is for the line the one step that Completion describes.        *)
(***************************************************************************)
EXTENDS UshAutocomp, Induction, SequenceTheorems, FiniteSetTheorems, TLAPS

\* What completion_bounds shows to be needed.
Fits == LineMax + NameMax < InSize

\* The bytes of lines and names.
Shown == Letters \cup {"SP"}

Candidates == {name \in Seq(Letters) : Len(name) <= NameMax}

\* The line in the buffer: bytes of names and spaces up to in_pos, a NUL there,
\* and spaces only where they are typed.
Shape ==
  /\ buf \in [Memory -> Bytes]
  /\ KeepsToBuffer
  /\ inPos \in 0 .. LineMax + NameMax
  /\ buf[inPos] = "NUL"
  /\ \A q \in 0 .. inPos - 1 : buf[q] \in Shown /\ (buf[q] = "SP" => q < LineMax)

\* The search looks at nodes of the list of its stage.
WalkTypes ==
  /\ next \in [Nodes -> Nodes \cup {NoNode}]
  /\ head \in [Lists -> Nodes \cup {NoNode}]
  /\ stage \in {0, 1, 2} /\ item \in Nat
  /\ stage = 1 => node \in {Cwd, NoNode}
  /\ stage # 1 => node \in Nodes \cup {NoNode}
  /\ candidate \in Candidates

Idle == {"READ_CHAR", "PREPARE", "PROMPT", "RECALL"}

\* The word begins where a typed line may have one and before its end; while a
\* byte is tried there is one to take back.
WordBegins ==
  /\ state \notin Idle => input \in 0 .. LineMax /\ input <= inPos
  /\ state = "OPTIMISE" \/ Finishing("OPTIMISE") => input < inPos

AutocompInv == Shape /\ WalkTypes /\ WordBegins

LEMMA Constants ==
  /\ InSize \in Nat \ {0} /\ LineMax \in Nat /\ NameMax \in Nat /\ LineMax <= InSize
  /\ {"SP", "NUL", "OTHER"} \cap Letters = {}
  BY AutocompAssumption

\* A string ends at the first NUL.
LEMMA StringEnds ==
  ASSUME NEW m \in [Memory -> Bytes], NEW p \in Memory, NEW e \in Memory, p <= e,
         m[e] = "NUL", \A q \in p .. e - 1 : m[q] # "NUL"
  PROVE  /\ StringAt(m, p) = [i \in 1 .. e - p |-> m[p + i - 1]]
         /\ StringAt(m, p) \in Seq(Bytes) /\ Len(StringAt(m, p)) = e - p
<1> DEFINE S == {q \in Memory : q >= p /\ m[q] = "NUL"} \cup {InSize + NameMax + 1}
<1>1. e \in S /\ \A q \in S : q \in Int /\ e <= q
  BY Constants DEF Memory
<1>2. Min(S) = e
  <2> HIDE DEF S
  <2> QED
    BY <1>1 DEF Min
<1>3. StringAt(m, p) = [i \in 1 .. e - p |-> m[p + i - 1]]
  BY <1>2 DEF StringAt
<1> DEFINE n == e - p
           s == [i \in 1 .. n |-> m[p + i - 1]]
<1>4. n \in Nat
  BY Constants DEF Memory
<1>5. \A i \in 1 .. n : p + i - 1 \in Memory
  BY Constants DEF Memory
<1>6. s \in [1 .. n -> Bytes]
  BY <1>5
<1> HIDE DEF n, s
<1>7. s \in Seq(Bytes) /\ Len(s) = n
  BY <1>4, <1>6, SeqDef
<1> QED
  BY <1>3, <1>7 DEF n, s

\* A byte put behind the line, where there is room for it.
LEMMA Stored ==
  ASSUME Fits, Shape, NEW byte \in Shown, byte = "SP" => inPos < LineMax,
         inPos < LineMax + NameMax,
         buf' = StoreAt(inPos, byte), inPos' = Wrapped(inPos + 1)
  PROVE  Shape' /\ inPos' = inPos + 1
<1>1. inPos' = inPos + 1 /\ inPos + 1 < InSize /\ inPos \in Nat
  BY Constants DEF Fits, Shape, Wrapped
<1>2. inPos \in Memory /\ inPos + 1 \in Memory
  BY <1>1, Constants DEF Memory
<1>3. buf' = [buf EXCEPT ![inPos] = byte, ![inPos + 1] = "NUL"]
  BY <1>1 DEF StoreAt
<1>4. byte \in Bytes /\ "NUL" \in Bytes
  BY DEF Bytes, Shown
<1>5. /\ buf' \in [Memory -> Bytes] /\ buf'[inPos + 1] = "NUL" /\ buf'[inPos] = byte
      /\ \A q \in Memory : q # inPos /\ q # inPos + 1 => buf'[q] = buf[q]
  BY <1>1, <1>2, <1>3, <1>4 DEF Shape
<1>6. KeepsToBuffer'
  BY <1>1, <1>5, Constants DEF Shape, KeepsToBuffer, Memory
<1>7. ASSUME NEW q \in 0 .. inPos
      PROVE  buf'[q] \in Shown /\ (buf'[q] = "SP" => q < LineMax)
  <2>1. q \in Memory /\ q # inPos + 1
    BY <1>1, Constants DEF Memory
  <2>2. CASE q = inPos
    BY <1>5, <2>2
  <2>3. CASE q # inPos
    BY <1>1, <1>5, <2>1, <2>3 DEF Shape
  <2> QED
    BY <2>2, <2>3
<1> QED
  BY <1>1, <1>5, <1>6, <1>7, Constants DEF Shape

\* The line cut at one of its bytes.
LEMMA Cut ==
  ASSUME Shape, inPos < InSize, NEW p \in 0 .. inPos, inPos' = p, buf' = [buf EXCEPT ![p] = "NUL"]
  PROVE  Shape'
<1>1. p \in Memory /\ "NUL" \in Bytes
  BY Constants DEF Memory, Shape, Bytes
<1>2. /\ buf' \in [Memory -> Bytes] /\ buf'[p] = "NUL"
      /\ \A q \in Memory : q # p => buf'[q] = buf[q]
  BY <1>1 DEF Shape
<1>3. KeepsToBuffer'
  BY <1>1, <1>2, Constants DEF Shape, KeepsToBuffer, Memory
<1>4. \A q \in 0 .. p - 1 : buf'[q] \in Shown /\ (buf'[q] = "SP" => q < LineMax)
  BY <1>1, <1>2, Constants DEF Shape, Memory
<1> QED
  BY <1>2, <1>3, <1>4, Constants DEF Shape

\* A candidate copied over the word.
LEMMA CopiedFits ==
  ASSUME Fits, Shape, input \in 0 .. LineMax, input <= inPos, candidate \in Candidates,
         buf' = CopiedOver, inPos' = PosAfterCopy
  PROVE  /\ Shape' /\ inPos' = input + Len(candidate)
         /\ \A q \in 0 .. input - 1 : buf'[q] = buf[q]
         /\ \A i \in 1 .. Len(candidate) : buf'[input + i - 1] = candidate[i]
<1> DEFINE n == Len(candidate)
           e == input + n
<1>1. n \in Nat /\ n <= NameMax /\ e \in 0 .. LineMax + NameMax /\ e < InSize /\ e \in Memory
  BY Constants DEF Candidates, Fits, Memory
<1>2. \A i \in 1 .. n : candidate[i] \in Letters
  <2>1. candidate \in Seq(Letters)
    BY DEF Candidates
  <2>2. QED
    BY ONLY <2>1, ElementOfSeq
<1> HIDE DEF n
<1>3. /\ DOMAIN CopiedOver = Memory /\ CopiedOver[e] = "NUL"
      /\ \A q \in Memory : /\ q \in input .. e - 1 => CopiedOver[q] \in Letters
                           /\ q < input \/ q > e => CopiedOver[q] = buf[q]
  <2>1. CopiedOver = [q \in Memory |-> IF q \in input .. e - 1 THEN candidate[q - input + 1]
                                       ELSE IF q = e THEN "NUL" ELSE buf[q]]
    BY DEF CopiedOver, Copied, n
  <2>2. \A q \in input .. e - 1 : q - input + 1 \in 1 .. n
    BY <1>1
  <2> HIDE DEF e
  <2>3. e \in Nat /\ input \in Nat /\ input <= e
    BY <1>1, Constants DEF e
  <2>4. \A q \in Memory : q \in Int
    BY Constants DEF Memory
  <2>5. QED
    BY <1>1, <1>2, <2>1, <2>2, <2>3, <2>4
<1>4. ASSUME NEW q \in Memory PROVE CopiedOver[q] \in Bytes
  <2>1. q \in Nat
    BY Constants DEF Memory
  <2>2. \/ q \in input .. e - 1 \/ q = e \/ q < input \/ q > e
    BY <1>1, <2>1, Constants
  <2>3. QED
    BY <1>3, <2>2 DEF Bytes, Shape
<1>5. CopiedOver \in [Memory -> Bytes]
  <2>1. CopiedOver = [q \in Memory |-> CopiedOver[q]]
    BY <1>3 DEF CopiedOver, Copied
  <2>2. QED
    BY <1>4, <2>1
<1>6. ASSUME NEW q \in 0 .. e - 1
      PROVE  CopiedOver[q] \in Shown /\ (CopiedOver[q] = "SP" => q < LineMax) /\ CopiedOver[q] # "NUL"
  <2>1. q \in Memory
    BY <1>1, Constants DEF Memory
  <2>2. CASE q < input
    BY <1>3, <2>1, <2>2, Constants DEF Shape, Shown
  <2>3. CASE q >= input
    BY <1>3, <2>1, <2>3, Constants DEF Shown
  <2> QED
    BY <2>2, <2>3, Constants
<1>7. inPos' = e
  <2>1. 0 \in Memory
    BY Constants DEF Memory
  <2>2. Len(StringAt(CopiedOver, 0)) = e - 0
    BY <1>1, <1>3, <1>5, <1>6, <2>1, StringEnds
  <2>3. QED
    BY <1>1, <2>2 DEF PosAfterCopy
<1>8. KeepsToBuffer'
  BY <1>1, <1>3, Constants DEF Shape, KeepsToBuffer, Memory
<1>9. Shape'
  BY <1>1, <1>3, <1>5, <1>6, <1>7, <1>8 DEF Shape
<1>10. ASSUME NEW q \in 0 .. input - 1 PROVE CopiedOver[q] = buf[q]
  BY <1>3, Constants DEF Memory
<1>11. ASSUME NEW i \in 1 .. n PROVE CopiedOver[input + i - 1] = candidate[i]
  <2>1. input + i - 1 \in Memory /\ input + i - 1 \in input .. e - 1 /\ input + i - 1 - input + 1 = i
    BY <1>1, Constants DEF Memory
  <2>2. e - 1 = input + Len(candidate) - 1
    BY <1>1, Constants DEF n
  <2>3. QED
    BY <2>1, <2>2 DEF CopiedOver, Copied
<1> QED
  BY <1>7, <1>9, <1>10, <1>11 DEF n

\* The line and the word as strings.
LEMMA LineIs ==
  ASSUME Fits, Shape, NEW p \in 0 .. inPos
  PROVE  StringAt(buf, p) = [i \in 1 .. inPos - p |-> buf[p + i - 1]] /\ Len(StringAt(buf, p)) = inPos - p
<1>1. p \in Memory /\ inPos \in Memory /\ p <= inPos
  BY Constants DEF Shape, Memory
<1>2. \A q \in p .. inPos - 1 : buf[q] # "NUL"
  BY <1>1, Constants DEF Shape, Shown
<1> QED
  BY <1>1, <1>2, StringEnds DEF Shape

\* A word begins at the beginning or behind a space.
LEMMA ArgBegins ==
  ASSUME Fits, Shape
  PROVE  LastArg(Line) \in 0 .. LineMax /\ LastArg(Line) <= inPos
<1> DEFINE S == {0} \cup {i \in 1 .. Len(Line) : Line[i] = "SP" /\ (i > 1 \/ i = Len(Line))}
<1>1. inPos \in Nat /\ Len(Line) = inPos /\ \A i \in 1 .. inPos : Line[i] = buf[i - 1]
  <2>1. inPos \in Nat /\ 0 \in 0 .. inPos
    BY Constants DEF Shape
  <2>2. Line = [i \in 1 .. inPos - 0 |-> buf[0 + i - 1]] /\ Len(Line) = inPos - 0
    BY <2>1, LineIs DEF Line
  <2>3. QED
    BY <2>1, <2>2
<1>2. S \subseteq 0 .. inPos /\ S # {}
  BY <1>1
<1>3. Max(S) \in S
  BY <1>1, <1>2, MaxUpTo
<1>4. \A i \in S : i <= LineMax /\ i \in Nat
  <2> TAKE i \in S
  <2>1. CASE i = 0
    BY <2>1, Constants
  <2>2. CASE i # 0
    <3>1. i \in 1 .. inPos /\ Line[i] = "SP"
      BY <1>1, <2>2
    <3>2. i - 1 \in 0 .. inPos - 1 /\ buf[i - 1] = "SP"
      BY <1>1, <3>1
    <3>3. i - 1 < LineMax
      BY <3>2 DEF Shape
    <3>4. QED
      BY <3>1, <3>3, Constants
  <2> QED
    BY <2>1, <2>2
<1>5. QED
  BY <1>2, <1>3, <1>4 DEF LastArg

\* The names looked at are candidates.
LEMMA NamesFit ==
  ASSUME WalkTypes, AtName
  PROVE  Name \in Candidates
<1>1. \A name \in Names : Len(name) <= NameMax
  BY AutocompAssumption
<1>2. CASE stage < 2
  <2>1. node \in Nodes \cup {Cwd}
    BY <1>2 DEF WalkTypes, AtName
  <2>2. FilesOf[node] \in Seq(Seq(Letters) \ {<< >>})
    BY <2>1, AutocompAssumption
  <2>3. item + 1 \in 1 .. Len(FilesOf[node])
    BY <1>2, <2>2 DEF WalkTypes, AtName, FilesThrough
  <2>4. FilesOf[node][item + 1] \in Seq(Letters)
    BY ONLY <2>2, <2>3, ElementOfSeq
  <2>5. FilesOf[node][item + 1] \in Names
    <3>1. DOMAIN FilesOf[node] = 1 .. Len(FilesOf[node])
      BY <2>2
    <3>2. FilesOf[node][item + 1] \in ToSet(FilesOf[node])
      BY <2>3, <3>1 DEF ToSet
    <3>3. QED
      BY <2>1, <3>2 DEF Names
  <2>6. QED
    BY <1>1, <1>2, <2>4, <2>5 DEF Name, Candidates
<1>3. CASE ~(stage < 2)
  <2>1. node \in Nodes
    BY <1>3 DEF WalkTypes, AtName
  <2>2. NameOf[node] \in Seq(Letters) /\ NameOf[node] \in Names
    <3>1. NameOf[node] \in Names
      BY <2>1 DEF Names
    <3>2. NameOf \in [Nodes -> Seq(Letters) \ {<< >>}]
      BY AutocompAssumption
    <3>3. NameOf[node] \in Seq(Letters) \ {<< >>}
      BY ONLY <2>1, <3>2
    <3>4. QED
      BY <3>1, <3>3
  <2>3. QED
    BY <1>1, <1>3, <2>2 DEF Name, Candidates
<1> QED
  BY <1>2, <1>3

\* Another byte of the last candidate: the word is shorter than a name.
LEMMA ExtendKept ==
  ASSUME Fits, AutocompInv, state \notin Idle, NEW before, Extend(before)
  PROVE  AutocompInv' /\ inPos' = inPos + 1
<1>1. input \in 0 .. LineMax /\ input <= inPos /\ inPos \in Nat
  BY Constants DEF AutocompInv, WordBegins, Shape
<1>2. Len(Input) = inPos - input
  BY <1>1, LineIs, Constants DEF AutocompInv, Input
<1>3. candidate \in Candidates
  BY DEF AutocompInv, WalkTypes
<1> DEFINE byte == candidate[Len(Input) + 1]
<1>4. byte \in Letters
  <2>1. candidate \in Seq(Letters) /\ Len(Input) + 1 \in 1 .. Len(candidate)
    BY <1>1, <1>2, <1>3 DEF Candidates, Extend
  <2>2. QED
    BY ONLY <2>1, ElementOfSeq
<1>5. inPos < LineMax + NameMax
  BY <1>1, <1>2, <1>3, Constants DEF Candidates, Extend
<1>6. buf' = StoreAt(inPos, byte) /\ inPos' = Wrapped(inPos + 1)
  BY DEF Extend
<1> HIDE DEF byte
<1>7. Shape' /\ inPos' = inPos + 1
  BY <1>4, <1>5, <1>6, Stored, Constants DEF AutocompInv, Shown
<1>8. WalkTypes'
  BY DEF AutocompInv, WalkTypes, Extend, PrepareCandidates, lists, Lists
<1>9. WordBegins'
  BY <1>1, <1>7 DEF WordBegins, Extend
<1> QED
  BY <1>7, <1>8, <1>9 DEF AutocompInv

\* Every step keeps the types, whatever the lines typed.
LEMMA WalkTypesKept == WalkTypes /\ [Next]_vars => WalkTypes'
<1> SUFFICES ASSUME WalkTypes, [Next]_vars PROVE WalkTypes'
  OBVIOUS
<1> USE DEF walk, tally, changes, lists
<1>1. UNCHANGED <<lists, walk, candidate>> => WalkTypes'
  BY DEF WalkTypes
<1>2. CASE UNCHANGED vars
  BY <1>1, <1>2 DEF vars
<1>3. ASSUME NEW key \in Letters \cup {"SP"}, Type(key) PROVE WalkTypes'
  BY <1>1, <1>3 DEF Type
<1>4. CASE Backspace \/ Tab \/ Prepare \/ SearchEnds \/ PrintOver
  BY <1>1, <1>4 DEF Backspace, Tab, Prepare, SearchEnds, PrintOver
<1>5. CASE FinishNone \/ FinishOne \/ FinishPrint \/ FinishDrop
  BY <1>1, <1>5 DEF FinishNone, FinishOne, FinishPrint, FinishDrop
<1>6. CASE Prompt \/ Recall \/ RecallSuffix
  BY <1>1, <1>6 DEF Prompt, Recall, RecallSuffix
<1>7. PrepareCandidates /\ UNCHANGED <<lists, candidate>> => WalkTypes'
  BY DEF PrepareCandidates, WalkTypes, Lists
<1>8. CASE Start \/ BeginPrint
  BY <1>7, <1>8 DEF Start, BeginPrint
<1>9. ASSUME NEW before, Extend(before) \/ Extended(before) PROVE WalkTypes'
  BY <1>1, <1>7, <1>9 DEF Extend, Extended
<1>10. CASE FinishMany \/ FinishOptimise
  BY <1>9, <1>10 DEF FinishMany, FinishOptimise
<1>11. CASE StageEnds
  BY <1>11 DEF StageEnds, FirstOfStage, WalkTypes, Lists
<1>12. CASE NodeEnds
  BY <1>12 DEF NodeEnds, NodeBehind, FilesThrough, WalkTypes
<1>13. CASE Skip \/ Pass
  BY <1>13 DEF Skip, Pass, AtName, Advance, WalkTypes
<1>14. CASE Count
  <2>1. candidate' \in Candidates
    BY <1>14, NamesFit DEF Count
  <2> QED BY <1>14, <2>1 DEF Count, WalkTypes
<1>15. CASE EndRow
  BY <1>15 DEF EndRow, WalkTypes
<1>16. ASSUME NEW l \in Lists, NEW n \in Nodes, Prepend(l, n) \/ Unlink(l, n) PROVE WalkTypes'
  BY <1>16 DEF Prepend, Unlink, LinkFirst, UnlinkFrom, NextAfter, HeadAfter, WalkTypes
<1> QED
  BY <1>2, <1>3, <1>4, <1>5, <1>6, <1>8, <1>10, <1>11, <1>12, <1>13, <1>14, <1>15, <1>16
  DEF Next, Editing, Service, Application

LEMMA AutocompKept == Fits /\ AutocompInv /\ [Next]_vars => AutocompInv'
<1> SUFFICES ASSUME Fits, AutocompInv, [Next]_vars PROVE AutocompInv'
  OBVIOUS
<1>1. Shape /\ WalkTypes /\ WordBegins
  BY DEF AutocompInv
<1>2. UNCHANGED typed => Shape'
  BY <1>1 DEF typed, Shape, KeepsToBuffer
<1>3. WalkTypes'
  BY <1>1, WalkTypesKept
<1>4. Finishing("OPTIMISE") => state = "FINISH"
  BY DEF Finishing
<1>5. inPos \in Nat /\ inPos < InSize
  BY <1>1, Constants DEF Shape, Fits
<1> USE DEF Returns, walk, tally, typed, changes
<1>6. CASE UNCHANGED vars
  BY <1>1, <1>2, <1>3, <1>6 DEF vars, AutocompInv, WordBegins, Finishing
<1>7. ASSUME NEW key \in Letters \cup {"SP"}, Type(key) PROVE AutocompInv'
  <2>1. Shape'
    BY <1>1, <1>7, Stored, Constants DEF Type, Shown, Shape
  <2>2. QED
    BY <1>1, <1>3, <1>7, <2>1 DEF Type, AutocompInv, WordBegins, Idle, Finishing
<1>8. CASE Backspace
  <2>1. Shape'
    <3>1. inPos - 1 \in 0 .. inPos
      BY <1>5, <1>8 DEF Backspace
    <3>2. QED
      BY <1>1, <1>5, <1>8, <3>1, Cut DEF Backspace
  <2>2. QED
    BY <1>1, <1>3, <1>8, <2>1 DEF Backspace, AutocompInv, WordBegins, Idle, Finishing
<1>9. CASE Tab
  BY <1>1, <1>2, <1>3, <1>9 DEF Tab, AutocompInv, WordBegins, Idle, Finishing
<1>10. CASE Prepare
  <2>1. input' \in 0 .. LineMax /\ input' <= inPos
    BY <1>1, <1>10, ArgBegins DEF Prepare
  <2>2. QED
    BY <1>1, <1>2, <1>3, <1>10, <2>1 DEF Prepare, AutocompInv, WordBegins, Finishing
<1>11. CASE Start
  BY <1>1, <1>2, <1>3, <1>11 DEF Start, AutocompInv, WordBegins, Idle, Finishing
<1>12. CASE StageEnds
  BY <1>1, <1>2, <1>3, <1>12 DEF StageEnds, AutocompInv, WordBegins, Finishing
<1>13. CASE SearchEnds
  BY <1>1, <1>2, <1>3, <1>13 DEF SearchEnds, Searching, AutocompInv, WordBegins, Idle, Finishing
<1>14. CASE NodeEnds
  BY <1>1, <1>2, <1>3, <1>14 DEF NodeEnds, AutocompInv, WordBegins, Finishing
<1>15. CASE Skip \/ Pass
  BY <1>1, <1>2, <1>3, <1>15 DEF Skip, Pass, Advance, AutocompInv, WordBegins, Finishing
<1>16. CASE Count
  BY <1>1, <1>2, <1>3, <1>16 DEF Count, AutocompInv, WordBegins, Finishing
<1>17. CASE EndRow
  <2>1. UNCHANGED <<buf, inPos, input, state, prev>>
    BY <1>17 DEF EndRow
  <2>2. QED
    BY <1>1, <1>2, <1>3, <2>1 DEF AutocompInv, WordBegins, Finishing
<1>18. CASE FinishNone \/ FinishPrint \/ Prompt \/ Recall \/ RecallSuffix
  BY <1>1, <1>2, <1>3, <1>18
  DEF FinishNone, FinishPrint, Prompt, Recall, RecallSuffix, AutocompInv, WordBegins, Idle, Finishing
<1>19. CASE FinishOne
  <2>1. input \in 0 .. LineMax /\ input <= inPos
    BY <1>1, <1>19 DEF FinishOne, Finishing, Idle, WordBegins
  <2>2. Shape'
    BY <1>1, <1>19, <2>1, CopiedFits DEF FinishOne, WalkTypes
  <2>3. QED
    BY <1>1, <1>3, <1>19, <2>2 DEF FinishOne, AutocompInv, WordBegins, Idle, Finishing
<1>20. ASSUME NEW before, Extend(before), state = "FINISH" PROVE AutocompInv'
  BY <1>20, ExtendKept DEF Idle
<1>21. ASSUME NEW before, Extended(before), state = "FINISH" PROVE AutocompInv'
  BY <1>1, <1>2, <1>3, <1>21 DEF Extended, AutocompInv, WordBegins, Idle, Finishing
<1>22. CASE FinishMany \/ FinishOptimise
  BY <1>20, <1>21, <1>22 DEF FinishMany, FinishOptimise, Finishing
<1>23. CASE FinishDrop
  <2>1. inPos' = inPos - 1 /\ inPos' \in 0 .. inPos /\ input <= inPos' /\ input \in 0 .. LineMax
    BY <1>1, <1>5, <1>23, Constants DEF FinishDrop, WordBegins, Idle, Finishing
  <2>2. Shape'
    BY <1>1, <1>5, <1>23, <2>1, Cut DEF FinishDrop
  <2>3. QED
    BY <1>1, <1>3, <1>23, <2>1, <2>2 DEF FinishDrop, AutocompInv, WordBegins, Finishing
<1>24. CASE BeginPrint
  BY <1>1, <1>2, <1>3, <1>24 DEF BeginPrint, AutocompInv, WordBegins, Idle, Finishing
<1>25. CASE PrintOver
  <2>1. Shape'
    <3>1. 0 \in 0 .. inPos
      BY <1>5
    <3>2. inPos' = 0 /\ buf' = [buf EXCEPT ![0] = "NUL"]
      BY <1>25 DEF PrintOver
    <3>3. QED
      BY <1>1, <1>5, <3>1, <3>2, Cut
  <2>2. QED
    BY <1>1, <1>3, <1>25, <2>1 DEF PrintOver, AutocompInv, WordBegins, Idle, Finishing
<1>26. ASSUME NEW l \in Lists, NEW n \in Nodes, Prepend(l, n) \/ Unlink(l, n) PROVE AutocompInv'
  BY <1>1, <1>2, <1>3, <1>26 DEF Prepend, Unlink, AutocompInv, WordBegins, Finishing
<1> QED
  BY <1>6, <1>7, <1>8, <1>9, <1>10, <1>11, <1>12, <1>13, <1>14, <1>15, <1>16, <1>17, <1>18, <1>19,
     <1>22, <1>23, <1>24, <1>25, <1>26 DEF Next, Editing, Service, Application

LEMMA AutocompBegins == Init => AutocompInv
<1> SUFFICES ASSUME Init PROVE AutocompInv
  OBVIOUS
<1>1. Shape
  BY Constants DEF Init, Shape, KeepsToBuffer, Memory, Bytes
<1>2. WalkTypes
  BY Constants DEF Init, NothingLinked, WalkTypes, Candidates
<1>3. WordBegins
  BY DEF Init, WordBegins, Idle, Finishing
<1> QED
  BY <1>1, <1>2, <1>3 DEF AutocompInv

\* If the lines typed leave room for the longest name offered, completing a
\* word writes no byte behind the input buffer, whatever is mounted and printed
\* meanwhile.
THEOREM KeepsToItsBuffer ==
  ASSUME Fits
  PROVE  Spec => []KeepsToBuffer
<1>1. Init => AutocompInv
  BY AutocompBegins
<1>2. AutocompInv /\ [Next]_vars => AutocompInv'
  BY AutocompKept
<1>3. AutocompInv => KeepsToBuffer
  BY DEF AutocompInv, Shape
<1>4. QED
  BY <1>1, <1>2, <1>3, PTL DEF Spec


-----------------------------------------------------------------------------
(***************************************************************************)
(* Whenever autocompletion comes back to the editor the terminal shows the *)
(* line that is in the buffer: for names of every length and any nodes,    *)
(* when the lines typed leave room for the longest name.                   *)
(***************************************************************************)

\* The first n bytes of the buffer, as a string.
FirstBytes(n) == [i \in 1 .. n |-> buf[i - 1]]

\* The states in which a suffix is in the line that is not on the screen yet.
Trying == state \in {"OPTIMISE", "RECALL_SUFFIX"} \/ Finishing("OPTIMISE")

\* While the first candidates are counted the screen has the line, and a
\* candidate begins with the word.
CountShown ==
  state = "COUNT" \/ Finishing("COUNT")
    => /\ row = FirstBytes(inPos)
       /\ count \in Nat /\ (count > 0 => IsPrefix(Input, candidate))

\* Then it has all but the bytes that were tried.
SuffixShown ==
  Trying => /\ suffixLen \in 0 .. inPos - input /\ input \in Nat
            /\ state # "RECALL_SUFFIX" => suffixLen > 0
            /\ row = FirstBytes(inPos - suffixLen)

EditorShown ==
  /\ state \in {"READ_CHAR", "PREPARE", "START"} => row = FirstBytes(inPos)
  /\ state = "RECALL" => row = << >>

ScreenInv == CountShown /\ SuffixShown /\ EditorShown

-----------------------------------------------------------------------------
LEMMA FirstBytesTyped ==
  ASSUME Fits, Shape, NEW n \in 0 .. inPos
  PROVE  FirstBytes(n) \in Seq(Shown) /\ Len(FirstBytes(n)) = n
<1>1. n \in Nat /\ inPos \in Nat
  BY Constants DEF Shape
<1>2. FirstBytes(n) \in [1 .. n -> Shown]
  BY <1>1 DEF FirstBytes, Shape
<1> QED BY <1>1, <1>2, SeqDef

\* A string is the first bytes of a buffer when each of its bytes is.
LEMMA SameBytes ==
  ASSUME NEW n \in Nat, NEW S, NEW s \in Seq(S), Len(s) = n, NEW f,
         \A i \in 1 .. n : s[i] = f[i - 1]
  PROVE  s = [i \in 1 .. n |-> f[i - 1]]
<1>1. s = [i \in 1 .. Len(s) |-> s[i]]
  OBVIOUS
<1> QED BY <1>1

\* The same bytes in the buffer make the same string.
LEMMA FirstBytesSame ==
  ASSUME NEW n \in Nat, \A q \in 0 .. n - 1 : buf'[q] = buf[q]
  PROVE  [i \in 1 .. n |-> buf'[i - 1]] = FirstBytes(n)
  BY DEF FirstBytes

\* The line and the word are the bytes up to in_pos.
LEMMA LineBytes ==
  ASSUME Fits, Shape
  PROVE  /\ inPos \in Nat
         /\ Line = FirstBytes(inPos) /\ Len(Line) = inPos
<1>1. inPos \in Nat /\ 0 \in 0 .. inPos
  BY Constants DEF Shape
<1>2. Line = [i \in 1 .. inPos - 0 |-> buf[0 + i - 1]] /\ Len(Line) = inPos - 0
  BY <1>1, LineIs DEF Line
<1> QED BY <1>1, <1>2 DEF FirstBytes

LEMMA WordBytes ==
  ASSUME Fits, Shape, input \in Nat, input <= inPos
  PROVE  /\ Input \in Seq(Shown) /\ Len(Input) = inPos - input
         /\ \A i \in 1 .. inPos - input : Input[i] = buf[input + i - 1]
<1>1. inPos \in Nat /\ input \in 0 .. inPos
  BY Constants DEF Shape
<1>2. Input = [i \in 1 .. inPos - input |-> buf[input + i - 1]]
  BY <1>1, LineIs DEF Input
<1> DEFINE n == inPos - input
<1>3. n \in Nat /\ \A i \in 1 .. n : input + i - 1 \in 0 .. inPos - 1
  BY <1>1
<1>4. Input \in [1 .. n -> Shown]
  BY <1>2, <1>3 DEF Shape
<1>5. Input \in Seq(Shown) /\ Len(Input) = n
  BY ONLY <1>3, <1>4, SeqDef
<1> QED BY <1>2, <1>5

\* The byte typed is shown behind the line, the byte erased no more.
LEMMA TypeShown ==
  ASSUME Fits, Shape, Shape', row = FirstBytes(inPos), NEW key \in Shown, Type(key)
  PROVE  (row = FirstBytes(inPos))'
<1>1. inPos \in Nat /\ inPos + 1 < InSize /\ inPos' = inPos + 1
  BY Constants DEF Shape, Fits, Type, Wrapped
<1>2. inPos \in Memory /\ inPos + 1 \in Memory
  BY <1>1, Constants DEF Memory
<1>3. buf'[inPos] = key /\ \A q \in 0 .. inPos - 1 : buf'[q] = buf[q]
  <2>1. buf' = [buf EXCEPT ![inPos] = key, ![inPos + 1] = "NUL"]
    BY <1>1 DEF Type, StoreAt
  <2>2. buf \in [Memory -> Bytes]
    BY DEF Shape
  <2>3. \A q \in 0 .. inPos - 1 : q \in Memory /\ q # inPos /\ q # inPos + 1
    BY <1>1, Constants DEF Memory
  <2>4. inPos # inPos + 1
    BY <1>1
  <2> QED BY ONLY <1>2, <2>1, <2>2, <2>3, <2>4
<1>4. row \in Seq(Shown) /\ Len(row) = inPos
  BY <1>1, FirstBytesTyped
<1>5. row' = Append(row, key)
  BY DEF Type
<1>6. /\ row' \in Seq(Shown) /\ Len(row') = inPos + 1
      /\ \A i \in 1 .. inPos : row'[i] = row[i]
      /\ row'[inPos + 1] = key
  BY <1>4, <1>5, AppendProperties
<1>7. \A i \in 1 .. inPos + 1 : row'[i] = buf'[i - 1]
  <2> TAKE i \in 1 .. inPos + 1
  <2>1. CASE i = inPos + 1
    <3>1. i - 1 = inPos
      BY <1>1, <2>1
    <3>2. row'[i] = key /\ buf'[i - 1] = key
      BY <1>1, <1>3, <1>6, <2>1, <3>1
    <3> QED BY <3>2
  <2>2. CASE i # inPos + 1
    <3>1. i \in 1 .. inPos /\ i - 1 \in 0 .. inPos - 1 /\ row[i] = buf[i - 1]
      BY <1>1, <2>2 DEF FirstBytes
    <3> QED BY <1>3, <1>6, <3>1
  <2> QED BY <2>1, <2>2
<1>8. inPos + 1 \in Nat
  BY <1>1
<1> QED BY <1>1, <1>6, <1>7, <1>8, SameBytes DEF FirstBytes

LEMMA BackspaceShown ==
  ASSUME Fits, Shape, row = FirstBytes(inPos), Backspace
  PROVE  (row = FirstBytes(inPos))'
<1>1. inPos \in Nat /\ inPos > 0 /\ inPos' = inPos - 1 /\ inPos - 1 \in Nat
  BY Constants DEF Shape, Backspace
<1>2. \A q \in 0 .. inPos - 2 : buf'[q] = buf[q]
  BY <1>1, Constants DEF Backspace, Shape, Memory
<1>3. Len(row) = inPos /\ \A i \in 1 .. inPos : row[i] = buf[i - 1] /\ buf[i - 1] \in Shown
  BY <1>1, FirstBytesTyped DEF FirstBytes, Shape
<1>4. row' = SubSeq(row, 1, inPos - 1)
  BY <1>3 DEF Backspace, Front
<1>5. /\ row' \in Seq(Shown) /\ Len(row') = inPos - 1
      /\ \A i \in 1 .. inPos - 1 : row'[i] = row[i]
  <2>1. \A i \in 1 .. inPos - 1 : row[i] \in Shown
    BY <1>1, <1>3
  <2> DEFINE n == inPos - 1
  <2>2. n \in Nat /\ 1 \in Int /\ n \in Int
    BY <1>1
  <2> HIDE DEF n
  <2>3. /\ SubSeq(row, 1, n) \in Seq(Shown)
        /\ Len(SubSeq(row, 1, n)) = IF 1 <= n THEN n - 1 + 1 ELSE 0
        /\ \A i \in 1 .. n - 1 + 1 : SubSeq(row, 1, n)[i] = row[1 + i - 1]
    BY <2>1, <2>2, SubSeqProperties DEF n
  <2>4. Len(SubSeq(row, 1, n)) = n /\ \A i \in 1 .. n : SubSeq(row, 1, n)[i] = row[i]
    BY <2>2, <2>3
  <2> QED BY <1>4, <2>3, <2>4 DEF n
<1>6. \A i \in 1 .. inPos - 1 : row'[i] = buf'[i - 1]
  <2> TAKE i \in 1 .. inPos - 1
  <2>1. i \in 1 .. inPos /\ i - 1 \in 0 .. inPos - 2
    BY <1>1
  <2> QED BY <1>2, <1>3, <1>5, <2>1
<1> QED BY <1>1, <1>5, <1>6, SameBytes DEF FirstBytes

\* A word completed: what the candidate adds to it is shown.
LEMMA CompletedShown ==
  ASSUME Fits, Shape, input \in 0 .. LineMax, input <= inPos, candidate \in Candidates,
         IsPrefix(Input, candidate), row = FirstBytes(inPos), FinishOne
  PROVE  (row = FirstBytes(inPos))'
<1> DEFINE n == Len(candidate)
           w == Len(Input)
           added == SubSeq(candidate, w + 1, n)
<1>1. /\ inPos' = input + n
      /\ \A q \in 0 .. input - 1 : buf'[q] = buf[q]
      /\ \A i \in 1 .. n : buf'[input + i - 1] = candidate[i]
  BY CopiedFits DEF FinishOne
<1>2. /\ w = inPos - input /\ w \in Nat /\ n \in Nat /\ inPos \in Nat /\ input \in Nat
      /\ \A i \in 1 .. w : Input[i] = buf[input + i - 1]
      /\ Input \in Seq(Shown)
  BY WordBytes, LineBytes, Constants DEF Candidates
<1>3. candidate \in Seq(Shown) /\ \A i \in 1 .. n : candidate[i] \in Shown
  <2>1. candidate \in Seq(Letters)
    BY DEF Candidates
  <2>2. \A i \in 1 .. n : candidate[i] \in Letters
    BY ONLY <2>1, ElementOfSeq DEF n
  <2>3. candidate \in [1 .. n -> Shown]
    BY <2>1, <2>2 DEF Shown
  <2> QED BY <1>2, <2>3, SeqDef
<1>4. w <= n /\ SubSeq(Input, 1, w) = SubSeq(candidate, 1, w)
  BY DEF IsPrefix
<1> HIDE DEF n, w
<1>5. \A i \in 1 .. w : Input[i] = candidate[i]
  <2>1. \A i \in 1 .. w : SubSeq(Input, 1, w)[i] = Input[i]
    BY <1>2
  <2>2. \A i \in 1 .. w : SubSeq(candidate, 1, w)[i] = candidate[i]
    BY <1>2, <1>3, <1>4 DEF n
  <2> QED BY <1>4, <2>1, <2>2
<1>6. /\ added \in Seq(Shown) /\ Len(added) = n - w
      /\ \A i \in 1 .. n - w : added[i] = candidate[w + i]
  <2>1. \A i \in w + 1 .. n : candidate[i] \in Shown
    BY <1>2, <1>3
  <2>2. w + 1 \in Int /\ n \in Int
    BY <1>2
  <2>3. /\ added \in Seq(Shown)
        /\ Len(added) = IF w + 1 <= n THEN n - (w + 1) + 1 ELSE 0
        /\ \A i \in 1 .. n - (w + 1) + 1 : added[i] = candidate[w + 1 + i - 1]
    BY <2>1, <2>2, SubSeqProperties
  <2> HIDE DEF added
  <2>4. Len(added) = n - w
    BY <1>2, <1>4, <2>3
  <2>5. ASSUME NEW i \in 1 .. n - w PROVE added[i] = candidate[w + i]
    <3>1. i \in 1 .. n - (w + 1) + 1 /\ w + 1 + i - 1 = w + i
      BY <1>2
    <3> QED BY <2>3, <3>1
  <2> QED BY <2>3, <2>4, <2>5
<1>7. row \in Seq(Shown) /\ Len(row) = inPos
  BY <1>2, FirstBytesTyped
<1>8. row' = row \o added
  BY DEF FinishOne, n, w
<1> HIDE DEF added
<1>9. /\ row' \in Seq(Shown) /\ Len(row') = inPos + (n - w)
      /\ \A i \in 1 .. inPos + (n - w) : row'[i] = IF i <= inPos THEN row[i] ELSE added[i - inPos]
  BY <1>6, <1>7, <1>8, ConcatProperties
<1>10. inPos + (n - w) = input + n /\ input + n \in Nat
  BY <1>2
<1>11. ASSUME NEW i \in 1 .. input + n PROVE row'[i] = buf'[i - 1]
  <2>1. CASE i <= input
    <3>1. i - 1 \in 0 .. input - 1 /\ i \in 1 .. inPos
      BY <1>2, <2>1
    <3> QED BY <1>1, <1>9, <1>10, <3>1 DEF FirstBytes
  <2>2. CASE i > input /\ i <= inPos
    <3>1. i - input \in 1 .. w /\ i - input \in 1 .. n /\ input + (i - input) - 1 = i - 1
          /\ i \in 1 .. inPos
      BY <1>2, <1>4, <2>2
    <3>2. row'[i] = buf[i - 1]
      BY <1>9, <1>10, <2>2, <3>1 DEF FirstBytes
    <3>3. buf[i - 1] = candidate[i - input]
      BY <1>2, <1>5, <3>1
    <3> QED BY <1>1, <3>1, <3>2, <3>3
  <2>3. CASE i > inPos
    <3>1. i - inPos \in 1 .. n - w /\ w + (i - inPos) = i - input /\ i - input \in 1 .. n
          /\ input + (i - input) - 1 = i - 1
      BY <1>2, <1>10, <2>3
    <3>2. row'[i] = added[i - inPos]
      BY <1>9, <1>10, <2>3, <1>2
    <3>3. added[i - inPos] = candidate[i - input]
      BY <1>6, <3>1
    <3> QED BY <1>1, <3>1, <3>2, <3>3
  <2> QED BY <1>2, <2>1, <2>2, <2>3
<1> QED BY <1>1, <1>9, <1>10, <1>11, SameBytes DEF FirstBytes

\* The suffix that was tried and kept is shown.
LEMMA SuffixRecalled ==
  ASSUME Fits, Shape, input \in Nat, input <= inPos, suffixLen \in 0 .. inPos - input,
         row = FirstBytes(inPos - suffixLen), RecallSuffix
  PROVE  (row = FirstBytes(inPos))'
<1> DEFINE w == Len(Input)
           m == inPos - suffixLen
<1>1. /\ w = inPos - input /\ w \in Nat /\ inPos \in Nat /\ input \in Nat /\ suffixLen \in Nat
      /\ Input \in Seq(Shown) /\ \A i \in 1 .. w : Input[i] = buf[input + i - 1]
  BY WordBytes, LineBytes
<1>2. m \in 0 .. inPos /\ m \in Nat
  BY <1>1
<1>3. UNCHANGED <<buf, inPos>> /\ row' = row \o Suffix
  BY DEF RecallSuffix, typed
<1> HIDE DEF w
<1>4. /\ Suffix \in Seq(Shown) /\ Len(Suffix) = suffixLen
      /\ \A i \in 1 .. suffixLen : Suffix[i] = buf[m + i - 1]
  <2> DEFINE a == w - suffixLen + 1
  <2>1. a \in Int /\ w \in Int /\ a >= 1
    BY <1>1
  <2>2. Suffix = SubSeq(Input, a, w)
    BY DEF Suffix, w
  <2>3. \A i \in a .. w : Input[i] \in Shown
    <3>1. \A i \in 1 .. Len(Input) : Input[i] \in Shown
      BY ONLY <1>1, ElementOfSeq
    <3> QED BY <1>1, <2>1, <3>1 DEF w
  <2> HIDE DEF a
  <2>4. /\ Suffix \in Seq(Shown)
        /\ Len(Suffix) = IF a <= w THEN w - a + 1 ELSE 0
        /\ \A i \in 1 .. w - a + 1 : Suffix[i] = Input[a + i - 1]
    BY <2>1, <2>2, <2>3, SubSeqProperties
  <2>5. w - a + 1 = suffixLen
    BY <1>1 DEF a
  <2>6. Len(Suffix) = suffixLen
    BY <1>1, <2>1, <2>4, <2>5
  <2>7. ASSUME NEW i \in 1 .. suffixLen PROVE Suffix[i] = buf[m + i - 1]
    <3>1. a + i - 1 \in 1 .. w /\ input + (a + i - 1) - 1 = m + i - 1
      BY <1>1 DEF a
    <3> QED BY <1>1, <2>4, <2>5, <3>1
  <2> QED BY <2>4, <2>6, <2>7
<1>5. row \in Seq(Shown) /\ Len(row) = m /\ \A i \in 1 .. m : row[i] = buf[i - 1]
  BY <1>2, FirstBytesTyped DEF FirstBytes
<1>6. /\ row' \in Seq(Shown) /\ Len(row') = m + suffixLen
      /\ \A i \in 1 .. m + suffixLen : row'[i] = IF i <= m THEN row[i] ELSE Suffix[i - m]
  BY <1>3, <1>4, <1>5, ConcatProperties
<1>7. m + suffixLen = inPos
  BY <1>1
<1> HIDE DEF m
<1>8. ASSUME NEW i \in 1 .. inPos PROVE row'[i] = buf[i - 1]
  <2>1. CASE i <= m
    <3>1. i \in 1 .. m
      BY <1>2, <2>1
    <3> QED BY <1>1, <1>2, <1>5, <1>6, <1>7, <2>1, <3>1
  <2>2. CASE i > m
    <3>1. i - m \in 1 .. suffixLen /\ m + (i - m) - 1 = i - 1
      BY <1>1, <1>2, <1>7, <2>2
    <3>2. row'[i] = Suffix[i - m]
      <4>1. i \in 1 .. m + suffixLen /\ ~(i <= m)
        BY <1>1, <1>2, <1>7, <2>2
      <4> QED BY <1>6, <4>1
    <3> QED BY <1>4, <3>1, <3>2
  <2> QED BY <1>2, <2>1, <2>2
<1>9. row' = [i \in 1 .. inPos |-> buf[i - 1]]
  BY <1>1, <1>6, <1>7, <1>8, SameBytes
<1> QED BY <1>3, <1>9 DEF FirstBytes

-----------------------------------------------------------------------------
\* Steps that look at names change nothing of this.
LEMMA ScreenSame ==
  ASSUME ScreenInv,
         UNCHANGED <<buf, inPos, input, row, count, suffixLen, candidate, state, prev>>
  PROVE  ScreenInv'
<1>1. CountShown'
  BY DEF ScreenInv, CountShown, Finishing, FirstBytes, Input
<1>2. SuffixShown'
  BY DEF ScreenInv, SuffixShown, Trying, Finishing, FirstBytes
<1>3. EditorShown'
  BY DEF ScreenInv, EditorShown, FirstBytes
<1> QED BY <1>1, <1>2, <1>3 DEF ScreenInv

\* So is a state in which the row is being printed.
LEMMA PrintingFree ==
  ASSUME \/ state' \in {"PRINT", "PROMPT"}
         \/ state' = "FINISH" /\ prev' = "PRINT"
  PROVE  ScreenInv'
  BY DEF ScreenInv, CountShown, SuffixShown, EditorShown, Trying, Finishing

\* A state of the editor.
LEMMA EditorFree ==
  ASSUME state' \in {"READ_CHAR", "PREPARE", "START"}, (row = FirstBytes(inPos))'
  PROVE  ScreenInv'
  BY DEF ScreenInv, CountShown, SuffixShown, EditorShown, Trying, Finishing

\* A byte that is tried is not shown yet.
LEMMA ExtendShown ==
  ASSUME Fits, AutocompInv, state = "FINISH", input \in Nat, input <= inPos,
         NEW before \in 0 .. inPos - input, row = FirstBytes(inPos - before), Extend(before)
  PROVE  ScreenInv'
<1>1. inPos' = inPos + 1 /\ inPos \in Nat /\ inPos < InSize
  BY ExtendKept, Constants DEF Idle, AutocompInv, Shape, Fits
<1>2. /\ state' = "OPTIMISE" /\ suffixLen' = before + 1
      /\ UNCHANGED <<row, input>>
      /\ buf' = StoreAt(inPos, candidate[Len(Input) + 1]) /\ inPos' = Wrapped(inPos + 1)
  BY DEF Extend
<1>3. \A q \in 0 .. inPos - 1 : buf'[q] = buf[q]
  <2>1. Wrapped(inPos + 1) = inPos + 1
    BY <1>1, <1>2
  <2> QED BY <1>1, <1>2, <2>1, Constants DEF StoreAt, AutocompInv, Shape, Memory
<1> DEFINE m == inPos - before
<1>4. m \in Nat /\ m <= inPos /\ inPos' - suffixLen' = m
  BY <1>1, <1>2
<1>5. [i \in 1 .. m |-> buf'[i - 1]] = FirstBytes(m)
  <2>1. \A q \in 0 .. m - 1 : buf'[q] = buf[q]
    BY <1>1, <1>3, <1>4
  <2> HIDE DEF m
  <2> QED BY <1>4, <2>1, FirstBytesSame
<1>6. row' = FirstBytes(inPos - suffixLen)'
  <2> HIDE DEF m
  <2>1. FirstBytes(inPos - suffixLen)' = [i \in 1 .. m |-> buf'[i - 1]]
    BY <1>4 DEF FirstBytes
  <2>2. row' = FirstBytes(m)
    BY <1>2 DEF m
  <2> QED BY <1>5, <2>1, <2>2
<1>7. suffixLen' \in 0 .. inPos' - input' /\ suffixLen' > 0
  BY <1>1, <1>2
<1> QED
  BY <1>2, <1>6, <1>7 DEF ScreenInv, CountShown, SuffixShown, EditorShown, Trying, Finishing

\* Nothing more to try.
LEMMA ExtendedShown ==
  ASSUME state = "FINISH", input \in Nat, NEW before \in 0 .. inPos - input,
         row = FirstBytes(inPos - before), Extended(before)
  PROVE  ScreenInv'
<1>1. /\ state' = "RECALL_SUFFIX" /\ suffixLen' = before
      /\ UNCHANGED <<row, input, buf, inPos>>
  BY DEF Extended, typed
<1>2. row' = FirstBytes(inPos - suffixLen)'
  BY <1>1 DEF FirstBytes
<1> QED
  BY <1>1, <1>2 DEF ScreenInv, CountShown, SuffixShown, EditorShown, Trying, Finishing

\* The byte that does not belong to all is taken back.
LEMMA DropShown ==
  ASSUME Fits, AutocompInv, ScreenInv, FinishDrop
  PROVE  ScreenInv'
<1>1. /\ suffixLen \in 0 .. inPos - input /\ input \in Nat /\ suffixLen > 0
      /\ row = FirstBytes(inPos - suffixLen)
  BY DEF ScreenInv, SuffixShown, Trying, Finishing, FinishDrop
<1>2. inPos \in Nat /\ inPos > 0 /\ inPos < InSize
  BY <1>1, Constants DEF AutocompInv, Shape, Fits
<1>3. /\ state' = "RECALL_SUFFIX" /\ suffixLen' = suffixLen - 1 /\ inPos' = inPos - 1
      /\ buf' = [buf EXCEPT ![inPos - 1] = "NUL"]
      /\ UNCHANGED <<row, input>>
  BY <1>2 DEF FinishDrop
<1> DEFINE m == inPos - suffixLen
<1>4. m \in Nat /\ m <= inPos - 1 /\ inPos' - suffixLen' = m
  BY <1>1, <1>2, <1>3
<1>5. row = FirstBytes(m)
  BY <1>1
<1> HIDE DEF m
<1>6. \A q \in 0 .. m - 1 : buf'[q] = buf[q]
  BY <1>2, <1>3, <1>4, Constants DEF AutocompInv, Shape, Memory
<1>7. [i \in 1 .. m |-> buf'[i - 1]] = FirstBytes(m)
  BY <1>4, <1>6, FirstBytesSame
<1>8. row' = FirstBytes(inPos - suffixLen)'
  <2>1. FirstBytes(inPos - suffixLen)' = [i \in 1 .. m |-> buf'[i - 1]]
    BY <1>4 DEF FirstBytes
  <2> QED BY <1>3, <1>5, <1>7, <2>1
<1>9. suffixLen' \in 0 .. inPos' - input'
  BY <1>1, <1>2, <1>3
<1> QED
  BY <1>3, <1>8, <1>9, <1>1 DEF ScreenInv, CountShown, SuffixShown, EditorShown, Trying, Finishing

LEMMA ScreenKept == Fits /\ AutocompInv /\ AutocompInv' /\ ScreenInv /\ [Next]_vars => ScreenInv'
<1> SUFFICES ASSUME Fits, AutocompInv, AutocompInv', ScreenInv, [Next]_vars PROVE ScreenInv'
  OBVIOUS
<1>1. Shape /\ Shape' /\ WordBegins /\ CountShown /\ SuffixShown /\ EditorShown
  BY DEF AutocompInv, ScreenInv
<1>2. inPos \in Nat
  BY <1>1, LineBytes
<1>3. state = "FINISH" => input \in 0 .. LineMax /\ input \in Nat /\ input <= inPos
  BY <1>1, Constants DEF WordBegins, Idle
<1> USE DEF Returns, walk, tally, typed, changes
<1>4. CASE UNCHANGED vars
  BY <1>4, ScreenSame DEF vars
<1>5. ASSUME NEW key \in Letters \cup {"SP"}, Type(key) PROVE ScreenInv'
  <2>1. row = FirstBytes(inPos) /\ key \in Shown
    BY <1>1, <1>5 DEF EditorShown, Type, Shown
  <2>2. (row = FirstBytes(inPos))'
    BY <1>1, <1>5, <2>1, TypeShown
  <2>3. state' = "READ_CHAR"
    BY <1>5 DEF Type
  <2> QED BY <2>2, <2>3, EditorFree
<1>6. CASE Backspace
  <2>1. (row = FirstBytes(inPos))'
    BY <1>1, <1>6, BackspaceShown DEF EditorShown, Backspace
  <2>2. state' = "READ_CHAR"
    BY <1>6 DEF Backspace
  <2> QED BY <2>1, <2>2, EditorFree
<1>7. CASE Tab \/ Prepare
  <2>1. /\ state' \in {"PREPARE", "START"} /\ UNCHANGED <<row, buf, inPos>>
        /\ row = FirstBytes(inPos)
    BY <1>1, <1>7 DEF Tab, Prepare, EditorShown
  <2>2. (row = FirstBytes(inPos))'
    BY <2>1 DEF FirstBytes
  <2> QED BY <2>1, <2>2, EditorFree
<1>8. CASE Start
  <2>1. /\ state' = "COUNT" /\ count' = 0 /\ UNCHANGED <<row, buf, inPos>>
        /\ row = FirstBytes(inPos)
    BY <1>1, <1>8 DEF Start, PrepareCandidates, EditorShown
  <2>2. (row = FirstBytes(inPos))'
    BY <2>1 DEF FirstBytes
  <2> QED
    BY <2>1, <2>2 DEF ScreenInv, CountShown, SuffixShown, EditorShown, Trying, Finishing
<1>9. CASE StageEnds \/ NodeEnds \/ Skip \/ Pass
  BY <1>9, ScreenSame DEF StageEnds, NodeEnds, Skip, Pass, Advance
<1>10. CASE SearchEnds
  <2>1. /\ state' = "FINISH" /\ prev' = state /\ state \in {"COUNT", "OPTIMISE", "PRINT"}
        /\ UNCHANGED <<buf, inPos, input, row, count, suffixLen, candidate>>
    BY <1>10 DEF SearchEnds, Searching
  <2>2. CountShown'
    BY <1>1, <2>1 DEF CountShown, Finishing, FirstBytes, Input
  <2>3. SuffixShown'
    BY <1>1, <2>1 DEF SuffixShown, Trying, Finishing, FirstBytes
  <2> QED BY <2>1, <2>2, <2>3 DEF ScreenInv, EditorShown
<1>11. CASE Count
  <2>1. CASE state = "PRINT"
    BY <1>11, <2>1, PrintingFree DEF Count
  <2>2. CASE state # "PRINT"
    <3>1. /\ state \in {"COUNT", "OPTIMISE"} /\ count' = count + 1 /\ candidate' = Name
          /\ IsPrefix(Input, Name)
          /\ UNCHANGED <<buf, inPos, input, row, suffixLen, state, prev>>
      BY <1>11, <2>2 DEF Count, AtName, Searching
    <3>2. Input' = Input
      BY <3>1 DEF Input
    <3>3. CountShown'
      BY <1>1, <3>1, <3>2 DEF CountShown, Finishing, FirstBytes
    <3>4. SuffixShown'
      BY <1>1, <3>1 DEF SuffixShown, Trying, Finishing, FirstBytes
    <3> QED BY <3>1, <3>3, <3>4 DEF ScreenInv, EditorShown
  <2> QED BY <2>1, <2>2
<1>12. CASE EndRow
  <2>1. CASE state = "PRINT"
    BY <1>12, <2>1, PrintingFree DEF EndRow
  <2>2. CASE state # "PRINT"
    BY <1>12, <2>2, ScreenSame DEF EndRow
  <2> QED BY <2>1, <2>2
<1>13. CASE FinishNone
  <2>1. /\ state' = "READ_CHAR" /\ UNCHANGED <<row, buf, inPos>>
        /\ row = FirstBytes(inPos)
    BY <1>1, <1>13 DEF FinishNone, CountShown
  <2>2. (row = FirstBytes(inPos))'
    BY <2>1 DEF FirstBytes
  <2> QED BY <2>1, <2>2, EditorFree
<1>14. CASE FinishOne
  <2>1. /\ state = "FINISH" /\ state' = "READ_CHAR"
        /\ row = FirstBytes(inPos) /\ IsPrefix(Input, candidate)
    BY <1>1, <1>14 DEF FinishOne, Finishing, CountShown
  <2>2. candidate \in Candidates
    BY DEF AutocompInv, WalkTypes
  <2>3. (row = FirstBytes(inPos))'
    BY <1>1, <1>3, <1>14, <2>1, <2>2, CompletedShown
  <2> QED BY <2>1, <2>3, EditorFree
<1>15. CASE FinishMany
  <2>1. state = "FINISH" /\ row = FirstBytes(inPos)
    BY <1>1, <1>15 DEF FinishMany, Finishing, CountShown
  <2>2. 0 \in 0 .. inPos - input /\ row = FirstBytes(inPos - 0)
    BY <1>2, <1>3, <2>1
  <2> QED BY <1>3, <1>15, <2>1, <2>2, ExtendShown, ExtendedShown DEF FinishMany
<1>16. CASE FinishOptimise
  <2>1. /\ state = "FINISH" /\ suffixLen \in 0 .. inPos - input
        /\ row = FirstBytes(inPos - suffixLen)
    BY <1>1, <1>16 DEF FinishOptimise, Finishing, Trying, SuffixShown
  <2> QED BY <1>3, <1>16, <2>1, ExtendShown, ExtendedShown DEF FinishOptimise
<1>17. CASE FinishDrop
  BY <1>17, DropShown
<1>18. CASE FinishPrint \/ BeginPrint
  BY <1>18, PrintingFree DEF FinishPrint, BeginPrint
<1>19. CASE RecallSuffix
  <2>1. /\ suffixLen \in 0 .. inPos - input /\ input \in Nat /\ input <= inPos
        /\ row = FirstBytes(inPos - suffixLen) /\ state' = "READ_CHAR"
    BY <1>1, <1>2, <1>19 DEF RecallSuffix, SuffixShown, Trying
  <2>2. (row = FirstBytes(inPos))'
    BY <1>1, <1>19, <2>1, SuffixRecalled
  <2> QED BY <2>1, <2>2, EditorFree
<1>20. CASE Prompt
  BY <1>20 DEF Prompt, ScreenInv, CountShown, SuffixShown, EditorShown, Trying, Finishing
<1>21. CASE Recall
  <2>1. /\ state' = "READ_CHAR" /\ row' = row \o Line /\ row = << >>
        /\ UNCHANGED <<buf, inPos>>
    BY <1>1, <1>21 DEF Recall, EditorShown
  <2>2. Line = FirstBytes(inPos)
    BY <1>1, LineBytes
  <2>3. inPos \in 0 .. inPos
    BY <1>2
  <2>4. << >> \o Line = Line
    BY <1>1, <2>2, <2>3, FirstBytesTyped, ConcatEmptySeq
  <2>5. (row = FirstBytes(inPos))'
    BY <2>1, <2>2, <2>4 DEF FirstBytes
  <2> QED BY <2>1, <2>5, EditorFree
<1>22. CASE PrintOver
  <2>1. state' = "READ_CHAR" /\ row' = << >> /\ inPos' = 0
    BY <1>22 DEF PrintOver
  <2>2. (row = FirstBytes(inPos))'
    BY <2>1 DEF FirstBytes
  <2> QED BY <2>1, <2>2, EditorFree
<1>23. ASSUME NEW l \in Lists, NEW n \in Nodes, Prepend(l, n) \/ Unlink(l, n) PROVE ScreenInv'
  BY <1>23, ScreenSame DEF Prepend, Unlink
<1> QED
  BY <1>4, <1>5, <1>6, <1>7, <1>8, <1>9, <1>10, <1>11, <1>12, <1>13, <1>14, <1>15, <1>16, <1>17,
     <1>18, <1>19, <1>20, <1>21, <1>22, <1>23 DEF Next, Editing, Service, Application

\* If the lines typed leave room for the longest name offered, then whenever a
\* byte is awaited the terminal shows the line in the buffer and in_pos is
\* behind it, after every word completed, extended, dropped or listed.
THEOREM ScreenShowsTheLine ==
  ASSUME Fits
  PROVE  Spec => []ScreenShowsLine
<1>1. Init => AutocompInv /\ ScreenInv
  <2>1. Init => AutocompInv
    BY AutocompBegins
  <2>2. Init => ScreenInv
    BY DEF Init, ScreenInv, CountShown, SuffixShown, EditorShown, Trying, Finishing, FirstBytes
  <2> QED BY <2>1, <2>2
<1>2. AutocompInv /\ ScreenInv /\ [Next]_vars => (AutocompInv /\ ScreenInv)'
  BY AutocompKept, ScreenKept
<1>3. AutocompInv /\ ScreenInv => ScreenShowsLine
  BY LineBytes DEF AutocompInv, ScreenInv, EditorShown, ScreenShowsLine
<1> QED BY <1>1, <1>2, <1>3, PTL DEF Spec

-----------------------------------------------------------------------------
(***************************************************************************)
(* The candidates listed are all there, for any nodes and names and        *)
(* whatever the buffer holds.  What is ahead of the search is a walk along *)
(* the pointers, as in Induction.                                          *)
(***************************************************************************)
Walk(s, h, nx) == IsWalk(s, h, nx, Nodes, NoNode)

ListsInv == Separate(head, next, Nodes, NoNode)

LEMMA ListOfIs ==
  /\ \A l \in Lists : ListOf(l) = ListFrom(head[l], next, Nodes, NoNode)
  /\ \A l \in Lists : ListOf(l)' = ListFrom(head'[l], next', Nodes, NoNode)
BY DEF ListOf, NodesFrom, ListFrom

LEMMA ListsAre ==
  ASSUME WalkTypes, ListsInv
  PROVE  /\ \A l \in Lists : Walk(ListOf(l), head[l], next) /\ ListOf(l) \in Seq(Nodes)
         /\ \A k, l \in Lists : k # l => ToSet(ListOf(k)) \cap ToSet(ListOf(l)) = {}
         /\ Linked = InLists(head, next, Nodes, NoNode)
<1>1. DOMAIN head = Lists
  BY DEF WalkTypes
<1>2. \A l \in Lists : Walk(ListOf(l), head[l], next)
  BY <1>1, ListOfIs DEF ListsInv, Separate, Walk
<1>3. \A k, l \in Lists : k # l => ToSet(ListOf(k)) \cap ToSet(ListOf(l)) = {}
  BY <1>1, ListOfIs DEF ListsInv, Separate
<1>4. Linked = InLists(head, next, Nodes, NoNode)
  BY <1>1, ListOfIs DEF Linked, InLists
<1> QED BY <1>2, <1>3, <1>4 DEF Walk, IsWalk

\* The entries are those of the lists.
LEMMA EntryIs ==
  /\ \A l, m : <<l, m>> \in Entries <=> l \in Lists /\ m \in ToSet(ListOf(l))
  /\ \A l, m : <<l, m>> \in Entries' <=> l \in Lists /\ m \in ToSet(ListOf(l))'
  /\ \A e \in Entries : e = <<e[1], e[2]>>
  /\ \A e \in Entries' : e = <<e[1], e[2]>>
BY DEF Entries

LEMMA SameLists ==
  ASSUME ListsInv, UNCHANGED lists
  PROVE  ListsInv' /\ Entries' = Entries
<1>1. next' = next /\ head' = head
  BY DEF lists
<1>2. \A l \in Lists : ListOf(l)' = ListOf(l)
  BY <1>1, ListOfIs
<1> QED BY <1>1, <1>2 DEF ListsInv, Entries

\* Linking and unlinking change the entries by one.
LEMMA LinkedFirst ==
  ASSUME WalkTypes, ListsInv, NEW l \in Lists, NEW n \in Nodes, LinkFirst(l, n)
  PROVE  /\ ListsInv' /\ \A k \in Lists : n \notin ToSet(ListOf(k))
         /\ \A k, m : <<k, m>> \in Entries' <=> <<k, m>> \in Entries \/ <<k, m>> = <<l, n>>
<1>1. /\ Links(l, n, head, next, head', next')
      /\ next \in [Nodes -> Nodes \cup {NoNode}] /\ head \in [Lists -> Nodes \cup {NoNode}]
      /\ n \notin InLists(head, next, Nodes, NoNode)
  BY ListsAre DEF LinkFirst, WalkTypes, Links, Pointed
<1>2. Separate(head, next, Nodes, NoNode) /\ IsFiniteSet(Nodes) /\ NoNode \notin Nodes
  BY NodesAssumption DEF ListsInv
<1>3. /\ Becomes(l, <<n>> \o ListFrom(head[l], next, Nodes, NoNode), head, next, head', next', Nodes, NoNode)
      /\ ToSet(<<n>> \o ListFrom(head[l], next, Nodes, NoNode))
           = ToSet(ListFrom(head[l], next, Nodes, NoNode)) \cup {n}
  BY ONLY <1>1, <1>2, l \in Lists, n \in Nodes, LinkedLists
<1>4. DOMAIN head = Lists
  BY ONLY <1>1
<1>5. /\ ListsInv' /\ ToSet(ListOf(l))' = ToSet(ListOf(l)) \cup {n}
      /\ \A k \in Lists \ {l} : ListOf(k)' = ListOf(k)
  BY ONLY <1>3, <1>4, l \in Lists, ListOfIs DEF ListsInv, Becomes
<1>6. \A k \in Lists : n \notin ToSet(ListOf(k))
  BY DEF LinkFirst, Linked
<1>7. ASSUME NEW k, NEW m
      PROVE  <<k, m>> \in Entries' <=> <<k, m>> \in Entries \/ (k = l /\ m = n)
  <2>1. CASE k = l
    BY <2>1, <1>5, EntryIs
  <2>2. CASE k # l
    BY <2>2, <1>5, EntryIs
  <2> QED BY <2>1, <2>2
<1> QED BY <1>5, <1>6, <1>7

LEMMA UnlinkedOne ==
  ASSUME WalkTypes, ListsInv, NEW l \in Lists, NEW n \in Nodes, UnlinkFrom(l, n)
  PROVE  /\ ListsInv' /\ next' = Bypassed(next, Linked, n)
         /\ \A k, m : <<k, m>> \in Entries' <=> <<k, m>> \in Entries /\ m # n
<1>1. /\ next' = Bypassed(next, Linked, n)
      /\ Unlinks(l, n, head, next, head', next', Linked)
      /\ next \in [Nodes -> Nodes \cup {NoNode}] /\ head \in [Lists -> Nodes \cup {NoNode}]
      /\ n \in ToSet(ListFrom(head[l], next, Nodes, NoNode))
  BY ListOfIs DEF UnlinkFrom, WalkTypes, NextAfter, HeadAfter, Unlinks, Bypassed, Pointed
<1>2. /\ Separate(head, next, Nodes, NoNode) /\ IsFiniteSet(Nodes) /\ NoNode \notin Nodes
      /\ Linked = InLists(head, next, Nodes, NoNode)
  BY NodesAssumption, ListsAre DEF ListsInv
<1>3. PICK k \in 1 .. Len(ListFrom(head[l], next, Nodes, NoNode)) :
        LET t == RemoveAt(ListFrom(head[l], next, Nodes, NoNode), k)
        IN  /\ ListFrom(head[l], next, Nodes, NoNode)[k] = n
            /\ Becomes(l, t, head, next, head', next', Nodes, NoNode)
            /\ LacksOnly(t, ListFrom(head[l], next, Nodes, NoNode), n)
  BY ONLY <1>1, <1>2, l \in Lists, n \in Nodes, UnlinkedLists
<1>4. DOMAIN head = Lists
  BY ONLY <1>1
<1>5. /\ ListsInv' /\ ToSet(ListOf(l))' = ToSet(ListOf(l)) \ {n}
      /\ \A i \in Lists \ {l} : ListOf(i)' = ListOf(i)
  BY ONLY <1>3, <1>4, l \in Lists, ListOfIs DEF ListsInv, Becomes, LacksOnly
<1>6. \A i \in Lists \ {l} : n \notin ToSet(ListOf(i))
  BY ListsAre DEF UnlinkFrom
<1>7. ASSUME NEW i, NEW m
      PROVE  <<i, m>> \in Entries' <=> <<i, m>> \in Entries /\ m # n
  <2>1. CASE i = l
    BY <2>1, <1>5, EntryIs
  <2>2. CASE i # l
    BY <2>2, <1>5, <1>6, EntryIs
  <2> QED BY <2>1, <2>2
<1> QED BY <1>1, <1>5, <1>7

-----------------------------------------------------------------------------
\* What was offered some time since the key press, and all the time: a node
\* linked since then is linked still or was unlinked again.
Once   == Entries \cup gone
Always == Entries \ joined

\* s is before the search: what it is led to in the list l.
Ahead(l, s) == Walk(s, node, next) /\ \A m \in ToSet(s) : <<l, m>> \in Once

Listed(name) == IsPrefix(Input, name) => name \in ToSet(listed)
FilesListed(n) == \A name \in ToSet(FilesOf[n]) : Listed(name)

\* The nodes of one list are ahead, or their names are listed.
CommandsAhead(s) == \A m : <<"commands", m>> \in Always => m \in ToSet(s) \/ FilesListed(m)
ChildrenAhead(s) == \A m : <<"children", m>> \in Always => m \in ToSet(s) \/ Listed(NameOf[m])

\* The row that is being printed.
RowBegun ==
  /\ index \in 0 .. 2
  /\ index > 0 => AtName /\ IsPrefix(Input, Name)
  /\ row = IF index = 1 THEN Name ELSE << >>
  /\ index = 2 => Name \in ToSet(listed)

\* The files of the node that is looked at, as far as they were.
FilesBegun ==
  stage < 2 /\ node # NoNode =>
    \A i \in 1 .. Len(FilesOf[node]) : i <= item => Listed(FilesOf[node][i])

\* s is before the search, in the list of its stage.
SearchAt(s) ==
  /\ stage = 0 => Ahead("commands", s)
  /\ stage = 2 => Ahead("children", s)

NodesAhead ==
  /\ stage = 0 => \E s : Ahead("commands", s) /\ CommandsAhead(s)
  /\ stage > 0 => CommandsAhead(<< >>)
  /\ stage = 2 \/ (stage = 1 /\ node = NoNode) => FilesListed(Cwd)
  /\ stage = 2 => \E s : Ahead("children", s) /\ ChildrenAhead(s)

Printing == state = "PRINT" => RowBegun /\ FilesBegun /\ NodesAhead

Printed ==
  Finishing("PRINT") => CommandsAhead(<< >>) /\ FilesListed(Cwd) /\ ChildrenAhead(<< >>)

RowsOffered ==
  /\ listed \in Seq(Candidates)
  /\ listed # << >> => state \in {"PRINT", "PROMPT", "RECALL"} \/ Finishing("PRINT")
  /\ state = "PRINT" \/ Finishing("PRINT") =>
       \A name \in ToSet(listed) : name \in NamesIn(Once) /\ IsPrefix(Input, name)

ListingInv == WalkTypes /\ ListsInv /\ Printing /\ Printed /\ RowsOffered

LEMMA NamesGrow == \A A, B : A \subseteq B => NamesIn(A) \subseteq NamesIn(B)
BY DEF NamesIn

\* What is offered by a node that is looked at.
LEMMA NameOffered ==
  ASSUME WalkTypes, AtName, \E s : SearchAt(s)
  PROVE  /\ Name \in NamesIn(Once)
         /\ stage < 2 => Name \in ToSet(FilesOf[node]) /\ Name = FilesOf[node][item + 1]
<1>1. ASSUME stage < 2
      PROVE  Name \in ToSet(FilesOf[node]) /\ Name = FilesOf[node][item + 1]
  <2>1. node \in Nodes \cup {Cwd}
    BY <1>1 DEF WalkTypes, AtName
  <2>2. FilesOf[node] \in Seq(Seq(Letters) \ {<< >>})
    BY <2>1, AutocompAssumption
  <2>3. Name = FilesOf[node][item + 1] /\ item + 1 \in 1 .. Len(FilesOf[node])
    BY <1>1, <2>2 DEF Name, WalkTypes, AtName, FilesThrough
  <2> QED BY ONLY <2>2, <2>3, Elements
<1>2. ASSUME NEW l, NEW s, Ahead(l, s), node # NoNode PROVE <<l, node>> \in Once
  <2>1. NoNode \notin Nodes /\ next \in [Nodes -> Nodes \cup {NoNode}]
    BY NodesAssumption DEF WalkTypes
  <2>2. IsWalk(s, node, next, Nodes, NoNode)
    BY <1>2 DEF Ahead, Walk
  <2>3. node \in ToSet(s)
    BY ONLY <1>2, <2>1, <2>2, RestOfWalk
  <2> QED BY <1>2, <2>3 DEF Ahead
<1>3. node # NoNode
  BY DEF AtName
<1>4. CASE stage = 0
  <2>1. <<"commands", node>> \in Once
    BY <1>2, <1>3, <1>4 DEF SearchAt
  <2> QED BY <1>1, <1>4, <2>1 DEF NamesIn
<1>5. CASE stage = 1
  <2>1. node = Cwd
    BY <1>3, <1>5 DEF WalkTypes
  <2> QED BY <1>1, <1>5, <2>1 DEF NamesIn
<1>6. CASE stage = 2
  <2>1. <<"children", node>> \in Once
    BY <1>2, <1>3, <1>6 DEF SearchAt
  <2> QED BY <1>6, <2>1 DEF NamesIn, Name
<1> QED BY <1>1, <1>4, <1>5, <1>6 DEF WalkTypes

\* What was listed stays listed, and what was ahead is ahead or listed.
LEMMA AheadKept ==
  ASSUME Input' = Input, Always' \subseteq Always, ToSet(listed) \subseteq ToSet(listed')
  PROVE  /\ \A name : Listed(name) => Listed(name)'
         /\ \A n : FilesListed(n) => FilesListed(n)'
         /\ \A s, t : /\ CommandsAhead(s)
                      /\ \A m \in ToSet(s) :
                           <<"commands", m>> \in Always' => m \in ToSet(t) \/ FilesListed(m)'
                      => CommandsAhead(t)'
         /\ \A s, t : /\ ChildrenAhead(s)
                      /\ \A m \in ToSet(s) :
                           <<"children", m>> \in Always' => m \in ToSet(t) \/ Listed(NameOf[m])'
                      => ChildrenAhead(t)'
<1>1. \A name : Listed(name) => Listed(name)'
  BY DEF Listed
<1>2. \A n : FilesListed(n) => FilesListed(n)'
  BY <1>1 DEF FilesListed
<1>3. ASSUME NEW s, NEW t, CommandsAhead(s),
             \A m \in ToSet(s) : <<"commands", m>> \in Always' => m \in ToSet(t) \/ FilesListed(m)'
      PROVE  CommandsAhead(t)'
  <2>1. ASSUME NEW m, <<"commands", m>> \in Always' PROVE m \in ToSet(t) \/ FilesListed(m)'
    BY <1>2, <1>3, <2>1 DEF CommandsAhead
  <2> QED BY <2>1 DEF CommandsAhead
<1>4. ASSUME NEW s, NEW t, ChildrenAhead(s),
             \A m \in ToSet(s) : <<"children", m>> \in Always' => m \in ToSet(t) \/ Listed(NameOf[m])'
      PROVE  ChildrenAhead(t)'
  <2>1. ASSUME NEW m, <<"children", m>> \in Always' PROVE m \in ToSet(t) \/ Listed(NameOf[m])'
    BY <1>1, <1>4, <2>1 DEF ChildrenAhead
  <2> QED BY <2>1 DEF ChildrenAhead
<1> QED BY <1>1, <1>2, <1>3, <1>4

\* A step of the search that prints leaves these alone.
Looks == state = "PRINT" /\ UNCHANGED <<lists, buf, input, joined, gone>>

LEMMA Still ==
  ASSUME ListingInv, Looks
  PROVE  /\ ListsInv' /\ Entries' = Entries /\ Once' = Once /\ Always' = Always /\ Input' = Input
         /\ NamesIn(Once)' = NamesIn(Once) /\ next' = next
         /\ RowBegun /\ FilesBegun /\ NodesAhead /\ \E s : SearchAt(s)
<1>1. ListsInv' /\ Entries' = Entries
  BY SameLists DEF ListingInv, Looks
<1>2. Once' = Once /\ Always' = Always
  BY <1>1 DEF Once, Always, Looks
<1>3. NamesIn(Once)' = NamesIn(Once)
  BY <1>2 DEF NamesIn
<1>4. Input' = Input
  BY DEF Input, Looks
<1>5. RowBegun /\ FilesBegun /\ NodesAhead
  BY DEF ListingInv, Printing, Looks
<1>6. \E s : SearchAt(s)
  BY <1>5 DEF NodesAhead, SearchAt
<1> QED BY <1>1, <1>2, <1>3, <1>4, <1>5, <1>6 DEF Looks, lists

\* Such a step that prints no row.
LEMMA RowsStill ==
  ASSUME ListingInv, Looks, listed' = listed, state' = "PRINT" \/ Finishing("PRINT")'
  PROVE  RowsOffered'
<1>1. NamesIn(Once)' = NamesIn(Once) /\ Input' = Input
  BY Still
<1>2. \A name \in ToSet(listed) : name \in NamesIn(Once) /\ IsPrefix(Input, name)
  BY DEF ListingInv, RowsOffered, Looks
<1>3. ToSet(listed)' = ToSet(listed)
  OBVIOUS
<1>4. \A name \in ToSet(listed)' : name \in NamesIn(Once)' /\ IsPrefix(Input, name)'
  BY <1>1, <1>2, <1>3
<1> QED BY <1>4 DEF ListingInv, RowsOffered

LEMMA StageEndsListing ==
  ASSUME ListingInv, WalkTypes', StageEnds, state = "PRINT"
  PROVE  ListingInv'
<1>1. /\ node = NoNode /\ stage < 2 /\ stage' = stage + 1 /\ node' = FirstOfStage
      /\ index' = 0 /\ item' = 0 /\ UNCHANGED <<lists, state, prev, listed, row>> /\ Looks
  BY DEF StageEnds, Looks, typed, changes
<1>2. /\ ListsInv' /\ Entries' = Entries /\ Once' = Once /\ Always' = Always /\ Input' = Input
      /\ next' = next /\ RowBegun /\ NodesAhead
  BY <1>1, Still
<1>3. WalkTypes /\ ListsInv /\ stage \in {0, 1}
  BY <1>1 DEF ListingInv, WalkTypes
<1>4. RowBegun'
  <2>1. row = << >>
    BY <1>1, <1>2 DEF RowBegun, AtName
  <2> QED BY <1>1, <2>1 DEF RowBegun
<1>5. FilesBegun'
  BY <1>1 DEF FilesBegun
<1>6. Always' \subseteq Always /\ ToSet(listed) \subseteq ToSet(listed')
  BY <1>1, <1>2
<1>7. ASSUME stage = 0 PROVE NodesAhead'
  <2>1. PICK s : Ahead("commands", s) /\ CommandsAhead(s)
    BY <1>2, <1>7 DEF NodesAhead
  <2>2. NoNode \notin Nodes /\ IsWalk(s, NoNode, next, Nodes, NoNode)
    BY <1>1, <2>1, NodesAssumption DEF Ahead, Walk
  <2>3. ToSet(s) = {}
    BY ONLY <2>2, NoWalk
  <2>4. CommandsAhead(<< >>)'
    BY <1>2, <1>6, <2>1, <2>3, AheadKept
  <2>5. stage' = 1 /\ node' = Cwd /\ Cwd # NoNode
    BY <1>1, <1>7, AutocompAssumption DEF FirstOfStage
  <2> QED BY <2>4, <2>5 DEF NodesAhead
<1>8. ASSUME stage = 1 PROVE NodesAhead'
  <2>1. CommandsAhead(<< >>) /\ FilesListed(Cwd)
    BY <1>1, <1>2, <1>8 DEF NodesAhead
  <2>2. CommandsAhead(<< >>)' /\ FilesListed(Cwd)'
    <3>1. ToSet(<< >>) = {}
      BY DEF ToSet
    <3> QED BY <1>2, <1>6, <2>1, <3>1, AheadKept
  <2>3. PICK s : /\ Walk(s, head["children"], next)
                 /\ \A m : m \in ToSet(s) <=> <<"children", m>> \in Entries
    BY <1>3, ListsAre, EntryIs DEF Lists
  <2>4. node' = head["children"] /\ stage' = 2
    BY <1>1, <1>8 DEF FirstOfStage
  <2>5. Ahead("children", s)'
    BY <1>2, <2>3, <2>4 DEF Ahead, Once, Walk
  <2>6. ChildrenAhead(s)'
    BY <1>2, <2>3 DEF ChildrenAhead, Always
  <2> QED BY <2>2, <2>4, <2>5, <2>6 DEF NodesAhead
<1>9. NodesAhead'
  BY <1>3, <1>7, <1>8
<1>10. RowsOffered'
  BY <1>1, RowsStill
<1>11. Printing' /\ Printed'
  BY <1>1, <1>4, <1>5, <1>9 DEF Printing, Printed, Finishing
<1> QED BY <1>2, <1>10, <1>11 DEF ListingInv

LEMMA SearchEndsListing ==
  ASSUME ListingInv, WalkTypes', SearchEnds, state = "PRINT"
  PROVE  ListingInv'
<1>1. /\ node = NoNode /\ stage = 2 /\ state' = "FINISH" /\ prev' = "PRINT"
      /\ UNCHANGED <<lists, walk, listed, row>> /\ Looks
  BY DEF SearchEnds, Looks, typed, changes
<1>2. ListsInv' /\ Always' = Always /\ Input' = Input /\ NodesAhead
  BY <1>1, Still
<1>3. Always' \subseteq Always /\ ToSet(listed) \subseteq ToSet(listed')
  BY <1>1, <1>2
<1>4. PICK s : Ahead("children", s) /\ ChildrenAhead(s)
  BY <1>1, <1>2 DEF NodesAhead
<1>5. NoNode \notin Nodes /\ IsWalk(s, NoNode, next, Nodes, NoNode)
  BY <1>1, <1>4, NodesAssumption DEF Ahead, Walk
<1>6. ToSet(s) = {} /\ ToSet(<< >>) = {}
  <2>1. ToSet(s) = {}
    BY ONLY <1>5, NoWalk
  <2> QED BY <2>1 DEF ToSet
<1>7. CommandsAhead(<< >>) /\ FilesListed(Cwd)
  BY <1>1, <1>2 DEF NodesAhead
<1>8. Printed'
  BY <1>2, <1>3, <1>4, <1>6, <1>7, AheadKept DEF Printed
<1>9. RowsOffered'
  BY <1>1, RowsStill DEF Finishing
<1> QED BY <1>1, <1>2, <1>8, <1>9 DEF ListingInv, Printing

\* The search goes on from a node of the list.
LEMMA NextAhead ==
  ASSUME WalkTypes, node # NoNode, NEW l, NEW s, Ahead(l, s), Once' = Once,
         next' = next, node' = next[node]
  PROVE  \E t : Ahead(l, t)' /\ ToSet(t) = ToSet(s) \ {node}
<1>1. NoNode \notin Nodes /\ next \in [Nodes -> Nodes \cup {NoNode}]
  BY NodesAssumption DEF WalkTypes
<1>2. IsWalk(s, node, next, Nodes, NoNode) /\ node # NoNode
  BY DEF Ahead, Walk
<1>3. PICK t : IsWalk(t, next[node], next, Nodes, NoNode) /\ ToSet(t) = ToSet(s) \ {node}
  BY ONLY <1>1, <1>2, RestOfWalk
<1>4. Ahead(l, t)'
  BY <1>3 DEF Ahead, Walk
<1> QED BY <1>3, <1>4

LEMMA NodeEndsListing ==
  ASSUME ListingInv, WalkTypes', NodeEnds, state = "PRINT"
  PROVE  ListingInv'
<1>1. /\ node # NoNode /\ FilesThrough /\ item' = 0 /\ node' = NodeBehind
      /\ UNCHANGED <<lists, state, prev, stage, index, listed, row>> /\ Looks
  BY DEF NodeEnds, Looks, typed, changes
<1>2. /\ ListsInv' /\ Once' = Once /\ Always' = Always /\ Input' = Input
      /\ next' = next /\ RowBegun /\ FilesBegun /\ NodesAhead
  BY <1>1, Still
<1>3. WalkTypes /\ stage \in {0, 1} /\ item \in Nat
  BY <1>1 DEF ListingInv, WalkTypes, FilesThrough
<1>4. RowBegun'
  <2>1. row = << >> /\ index = 0
    BY <1>1, <1>2 DEF RowBegun, AtName
  <2> QED BY <1>1, <2>1 DEF RowBegun
<1>5. FilesBegun'
  BY <1>1 DEF FilesBegun
<1>6. Always' \subseteq Always /\ ToSet(listed) \subseteq ToSet(listed')
  BY <1>1, <1>2
<1>7. ASSUME NEW n, n = node PROVE FilesListed(n)'
  <2>1. node \in Nodes \cup {Cwd}
    BY <1>1, <1>3 DEF WalkTypes
  <2>2. FilesOf[node] \in Seq(Seq(Letters) \ {<< >>})
    BY <2>1, AutocompAssumption
  <2> DEFINE files == FilesOf[node]
  <2>3. item >= Len(files) /\ \A i \in 1 .. Len(files) : i <= item => Listed(files[i])
    BY <1>1, <1>2, <1>3 DEF FilesThrough, FilesBegun
  <2> HIDE DEF files
  <2>4. files \in Seq(Seq(Letters) \ {<< >>})
    BY <2>2 DEF files
  <2>5. Len(files) \in Nat /\ \A name \in ToSet(files) : \E i \in 1 .. Len(files) : name = files[i]
    BY ONLY <2>4, Elements
  <2>6. \A name \in ToSet(files) : Listed(name)
    BY <1>3, <2>3, <2>5
  <2>7. FilesListed(n)
    BY <1>7, <2>6 DEF FilesListed, files
  <2> QED BY <1>2, <1>6, <2>7, AheadKept
<1>8. ASSUME stage = 0 PROVE NodesAhead'
  <2>1. PICK s : Ahead("commands", s) /\ CommandsAhead(s)
    BY <1>2, <1>8 DEF NodesAhead
  <2>2. node' = next[node]
    BY <1>1, <1>8 DEF NodeBehind
  <2>3. PICK t : Ahead("commands", t)' /\ ToSet(t) = ToSet(s) \ {node}
    BY <1>1, <1>2, <1>3, <2>1, <2>2, NextAhead
  <2>4. \A m \in ToSet(s) : m \in ToSet(t) \/ FilesListed(m)'
    BY <1>7, <2>3
  <2>5. CommandsAhead(t)'
    BY <1>2, <1>6, <2>1, <2>4, AheadKept
  <2> QED BY <1>1, <1>8, <2>3, <2>5 DEF NodesAhead
<1>9. ASSUME stage = 1 PROVE NodesAhead'
  <2>1. node = Cwd /\ node' = NoNode /\ CommandsAhead(<< >>)
    BY <1>1, <1>2, <1>3, <1>9 DEF NodeBehind, WalkTypes, NodesAhead
  <2>2. ToSet(<< >>) = {}
    BY DEF ToSet
  <2>3. CommandsAhead(<< >>)'
    BY <1>2, <1>6, <2>1, <2>2, AheadKept
  <2>4. FilesListed(Cwd)'
    BY <1>7, <2>1
  <2> QED BY <1>1, <1>9, <2>3, <2>4 DEF NodesAhead
<1>10. NodesAhead'
  BY <1>3, <1>8, <1>9
<1>11. RowsOffered'
  BY <1>1, RowsStill
<1>12. Printing' /\ Printed'
  BY <1>1, <1>4, <1>5, <1>10 DEF Printing, Printed, Finishing
<1> QED BY <1>2, <1>11, <1>12 DEF ListingInv

\* A step that stays at its node.
LEMMA StaysAhead ==
  ASSUME ListingInv, Looks, UNCHANGED <<stage, node>>, ToSet(listed) \subseteq ToSet(listed')
  PROVE  NodesAhead' /\ \A name : Listed(name) => Listed(name)'
<1>1. /\ Once' = Once /\ Always' = Always /\ Input' = Input /\ next' = next
      /\ Always' \subseteq Always /\ NodesAhead
  BY Still
<1>2. /\ \A name : Listed(name) => Listed(name)'
      /\ \A n : FilesListed(n) => FilesListed(n)'
      /\ \A s : CommandsAhead(s) => CommandsAhead(s)'
      /\ \A s : ChildrenAhead(s) => ChildrenAhead(s)'
  BY <1>1, AheadKept
<1>3. \A l, s : Ahead(l, s) => Ahead(l, s)'
  BY <1>1 DEF Ahead, Walk
<1> QED BY <1>1, <1>2, <1>3 DEF NodesAhead

LEMMA AdvanceListing ==
  ASSUME ListingInv, WalkTypes', Skip \/ Pass, state = "PRINT"
  PROVE  ListingInv'
<1>1. /\ AtName /\ Advance /\ index' = 0 /\ node # NoNode
      /\ UNCHANGED <<lists, state, prev, stage, listed, row>> /\ Looks
  BY DEF Skip, Pass, Advance, AtName, Looks, typed, changes
<1>2. /\ ListsInv' /\ Once' = Once /\ Always' = Always /\ Input' = Input
      /\ next' = next /\ RowBegun /\ FilesBegun /\ NodesAhead /\ \E s : SearchAt(s)
  BY <1>1, Still
<1>3. WalkTypes /\ stage \in {0, 1, 2} /\ item \in Nat
  BY <1>1 DEF ListingInv, WalkTypes
<1>4. row = << >> /\ Listed(Name)
  <2>1. CASE Skip
    BY <1>2, <2>1 DEF Skip, RowBegun, Listed
  <2>2. CASE Pass
    BY <1>2, <2>2 DEF Pass, RowBegun, Listed
  <2> QED BY <2>1, <2>2
<1>5. RowBegun'
  BY <1>1, <1>4 DEF RowBegun
<1>6. Always' \subseteq Always /\ ToSet(listed) \subseteq ToSet(listed')
  BY <1>1, <1>2
<1>7. ASSUME stage < 2 PROVE FilesBegun' /\ NodesAhead'
  <2>1. item' = item + 1 /\ node' = node
    BY <1>1, <1>7 DEF Advance
  <2>2. NodesAhead' /\ \A name : Listed(name) => Listed(name)'
    BY <1>1, <1>6, <2>1, StaysAhead
  <2>3. ASSUME NEW i \in 1 .. Len(FilesOf[node]), i <= item + 1, NEW name, name = FilesOf[node][i]
        PROVE  Listed(name)'
    <3>1. CASE i = item + 1
      BY <1>1, <1>2, <1>3, <1>4, <1>7, <2>2, <2>3, <3>1, NameOffered
    <3>2. CASE i # item + 1
      <4>1. i <= item
        BY <1>3, <2>3, <3>2
      <4> QED BY <1>1, <1>2, <1>7, <2>2, <2>3, <4>1 DEF FilesBegun
    <3> QED BY <3>1, <3>2
  <2>4. FilesBegun'
    BY <2>1, <2>3 DEF FilesBegun, Listed
  <2> QED BY <2>2, <2>4
<1>8. ASSUME stage = 2 PROVE FilesBegun' /\ NodesAhead'
  <2>1. node' = next[node] /\ Name = NameOf[node]
    BY <1>1, <1>8 DEF Advance, Name
  <2>2. PICK s : Ahead("children", s) /\ ChildrenAhead(s)
    BY <1>2, <1>8 DEF NodesAhead
  <2>3. PICK t : Ahead("children", t)' /\ ToSet(t) = ToSet(s) \ {node}
    BY <1>1, <1>2, <1>3, <2>1, <2>2, NextAhead
  <2>4. \A name : Listed(name) => Listed(name)'
    BY <1>2, <1>6, AheadKept
  <2>5. \A m \in ToSet(s) : m \in ToSet(t) \/ Listed(NameOf[m])'
    <3>1. ASSUME NEW m, m = node PROVE Listed(NameOf[m])'
      BY <1>4, <2>1, <2>4, <3>1
    <3> QED BY <2>3, <3>1
  <2>6. ChildrenAhead(t)'
    BY <1>2, <1>6, <2>2, <2>5, AheadKept
  <2>7. CommandsAhead(<< >>) /\ FilesListed(Cwd)
    BY <1>2, <1>8 DEF NodesAhead
  <2>8. ToSet(<< >>) = {}
    BY DEF ToSet
  <2>9. CommandsAhead(<< >>)' /\ FilesListed(Cwd)'
    BY <1>2, <1>6, <2>7, <2>8, AheadKept
  <2> QED BY <1>1, <1>8, <2>3, <2>6, <2>9 DEF NodesAhead, FilesBegun
<1>9. FilesBegun' /\ NodesAhead'
  BY <1>3, <1>7, <1>8
<1>10. RowsOffered'
  BY <1>1, RowsStill
<1>11. Printing' /\ Printed'
  BY <1>1, <1>5, <1>9 DEF Printing, Printed, Finishing
<1> QED BY <1>2, <1>10, <1>11 DEF ListingInv

\* A step that stays at its name.
LEMMA StaysAtName ==
  ASSUME ListingInv, Looks, AtName, IsPrefix(Input, Name), UNCHANGED <<state, stage, node, item>>,
         ToSet(listed) \subseteq ToSet(listed')
  PROVE  FilesBegun' /\ NodesAhead' /\ AtName' /\ Name' = Name /\ IsPrefix(Input, Name)'
<1>1. NodesAhead' /\ \A name : Listed(name) => Listed(name)'
  BY StaysAhead
<1>2. FilesBegun /\ Input' = Input
  BY Still
<1>3. FilesBegun'
  <2>1. ASSUME NEW i, NEW name, name = FilesOf[node][i], Listed(name)
        PROVE  Listed(name)'
    BY <1>1, <2>1
  <2> QED BY <1>2, <2>1 DEF FilesBegun, Listed
<1>4. AtName' /\ Name' = Name
  BY DEF AtName, Name, Searching, FilesThrough
<1>5. IsPrefix(Input, Name)'
  BY <1>2, <1>4
<1> QED BY <1>1, <1>3, <1>4, <1>5

LEMMA CountListing ==
  ASSUME ListingInv, WalkTypes', Count, state = "PRINT"
  PROVE  ListingInv'
<1>1. /\ AtName /\ IsPrefix(Input, Name) /\ index = 0 /\ index' = 1 /\ row' = row \o Name
      /\ UNCHANGED <<lists, state, prev, stage, node, item, listed>> /\ Looks
      /\ ToSet(listed) \subseteq ToSet(listed')
  BY DEF Count, Looks, typed, changes
<1>2. ListsInv' /\ RowBegun
  BY <1>1, Still
<1>3. FilesBegun' /\ NodesAhead' /\ AtName' /\ Name' = Name /\ IsPrefix(Input, Name)'
  BY <1>1, StaysAtName
<1>4. row' = Name
  <2>1. Name \in Seq(Letters)
    BY <1>1, NamesFit DEF ListingInv, Candidates
  <2>2. << >> \o Name = Name
    BY ONLY <2>1, ConcatEmptySeq
  <2>3. row = << >>
    BY <1>1, <1>2 DEF RowBegun
  <2> QED BY <1>1, <2>2, <2>3
<1>5. RowBegun'
  BY <1>1, <1>3, <1>4 DEF RowBegun
<1>6. RowsOffered'
  BY <1>1, RowsStill
<1>7. Printing' /\ Printed'
  BY <1>1, <1>3, <1>5 DEF Printing, Printed, Finishing
<1> QED BY <1>2, <1>6, <1>7 DEF ListingInv

LEMMA EndRowListing ==
  ASSUME ListingInv, WalkTypes', EndRow, state = "PRINT"
  PROVE  ListingInv'
<1>1. /\ AtName /\ IsPrefix(Input, Name) /\ index = 1 /\ index' = 2
      /\ row' = << >> /\ listed' = Append(listed, row)
      /\ UNCHANGED <<lists, state, prev, stage, node, item>> /\ Looks
  BY DEF EndRow, Looks, typed, changes
<1>2. /\ ListsInv' /\ RowBegun /\ NamesIn(Once)' = NamesIn(Once) /\ Input' = Input
      /\ \E s : SearchAt(s)
  BY <1>1, Still
<1>3. listed \in Seq(Candidates) /\ Name \in Candidates /\ row = Name
  BY <1>1, <1>2, NamesFit DEF ListingInv, RowsOffered, RowBegun
<1>4. listed' \in Seq(Candidates) /\ ToSet(listed)' = ToSet(listed) \cup {Name}
  <2> DEFINE name == Name
             s == listed
  <2>1. name \in Candidates /\ s \in Seq(Candidates)
    BY <1>3
  <2> HIDE DEF name, s
  <2>2. /\ Append(s, name) \in Seq(Candidates)
        /\ ToSet(Append(s, name)) = ToSet(s) \cup {name}
    BY ONLY <2>1, Appended
  <2> QED BY <1>1, <1>3, <2>2 DEF name, s
<1>5. FilesBegun' /\ NodesAhead' /\ AtName' /\ Name' = Name /\ IsPrefix(Input, Name)'
  BY <1>1, <1>4, StaysAtName
<1>6. RowBegun'
  BY <1>1, <1>4, <1>5 DEF RowBegun
<1>7. RowsOffered'
  <2>1. Name \in NamesIn(Once) /\ WalkTypes
    BY <1>1, <1>2, NameOffered DEF ListingInv
  <2>2. \A name \in ToSet(listed) : name \in NamesIn(Once) /\ IsPrefix(Input, name)
    BY <1>1 DEF ListingInv, RowsOffered
  <2>3. \A name \in ToSet(listed)' : name \in NamesIn(Once)' /\ IsPrefix(Input', name)
    BY <1>1, <1>2, <1>4, <2>1, <2>2
  <2> QED BY <1>1, <1>4, <2>3 DEF RowsOffered
<1>8. Printing' /\ Printed'
  BY <1>1, <1>5, <1>6 DEF Printing, Printed, Finishing
<1> QED BY <1>2, <1>7, <1>8 DEF ListingInv

-----------------------------------------------------------------------------
\* What linking and unlinking do to what is ahead of the search.
Changed ==
  /\ ListsInv' /\ Once \subseteq Once' /\ Always' \subseteq Always
  /\ \A k \in Lists : \A s : Ahead(k, s) =>
       \E t : /\ Ahead(k, t)' /\ ToSet(t) \subseteq ToSet(s)
              /\ \A m \in ToSet(s) : <<k, m>> \in Always' => m \in ToSet(t)

LEMMA PrependChanges ==
  ASSUME WalkTypes, ListsInv, NEW l \in Lists, NEW n \in Nodes, Prepend(l, n), state # "READ_CHAR"
  PROVE  Changed
<1>1. /\ LinkFirst(l, n) /\ joined' = joined \cup {<<l, n>>} /\ UNCHANGED <<gone, node>>
      /\ \A k \in Lists : <<k, n>> \notin gone
  BY DEF Prepend, walk
<1>2. /\ ListsInv' /\ \A k \in Lists : n \notin ToSet(ListOf(k))
      /\ \A k, m : <<k, m>> \in Entries' <=> <<k, m>> \in Entries \/ <<k, m>> = <<l, n>>
  BY <1>1, LinkedFirst
<1>3. Once \subseteq Once'
  <2>1. ASSUME NEW e \in Entries PROVE e \in Entries'
    BY <1>2, EntryIs
  <2> QED BY <1>1, <2>1 DEF Once
<1>4. Always' \subseteq Always
  <2>1. ASSUME NEW e \in Entries', e \notin joined' PROVE e \in Entries \ joined
    BY <1>1, <1>2, <2>1, EntryIs
  <2> QED BY <2>1 DEF Always
<1>5. ASSUME NEW k \in Lists, NEW s, Ahead(k, s) PROVE Ahead(k, s)'
  <2>1. n \notin ToSet(s)
    BY <1>1, <1>2, <1>5, EntryIs DEF Ahead, Once
  <2>2. IsWalk(s, node, next, Nodes, NoNode) /\ s \in Seq(Nodes)
    BY <1>5 DEF Ahead, Walk, IsWalk
  <2>3. Len(s) \in Nat /\ \A i \in 1 .. Len(s) : s[i] \in Nodes /\ s[i] \in ToSet(s)
    BY ONLY <2>2, Elements
  <2>4. \A m \in Nodes : m # n => next'[m] = next[m]
    BY <1>1 DEF LinkFirst, WalkTypes
  <2>5. \A i \in 1 .. Len(s) : next'[s[i]] = next[s[i]]
    BY <2>1, <2>3, <2>4
  <2>6. NoNode \notin Nodes
    BY NodesAssumption
  <2>7. IsWalk(s, node, next', Nodes, NoNode)
    BY ONLY <2>2, <2>5, <2>6, SameWalk
  <2> QED BY <1>1, <1>3, <1>5, <2>7 DEF Ahead, Walk
<1> QED BY <1>2, <1>3, <1>4, <1>5 DEF Changed

LEMMA UnlinkChanges ==
  ASSUME WalkTypes, ListsInv, NEW l \in Lists, NEW n \in Nodes, Unlink(l, n), state # "READ_CHAR"
  PROVE  Changed
<1>1. UnlinkFrom(l, n) /\ gone' = gone \cup {<<l, n>>} /\ UNCHANGED <<joined, node>>
  BY DEF Unlink, walk
<1>2. /\ ListsInv' /\ next' = Bypassed(next, Linked, n)
      /\ \A k, m : <<k, m>> \in Entries' <=> <<k, m>> \in Entries /\ m # n
  BY <1>1, UnlinkedOne
<1>3. Once \subseteq Once'
  <2>1. \A k \in Lists : n \in ToSet(ListOf(k)) => k = l
    BY <1>1, ListsAre DEF UnlinkFrom
  <2>2. ASSUME NEW e \in Entries PROVE e \in Entries' \/ e = <<l, n>>
    BY <1>2, <2>1, EntryIs
  <2> QED BY <1>1, <2>2 DEF Once
<1>4. Always' \subseteq Always /\ \A k, m : <<k, m>> \in Always' => m # n
  <2>1. ASSUME NEW e \in Entries', e \notin joined' PROVE e \in Entries \ joined
    BY <1>1, <1>2, <2>1, EntryIs
  <2> QED BY <1>2, <2>1 DEF Always
<1>5. ASSUME NEW k \in Lists, NEW s, Ahead(k, s)
      PROVE  \E t : /\ Ahead(k, t)' /\ ToSet(t) \subseteq ToSet(s)
                    /\ \A m \in ToSet(s) : <<k, m>> \in Always' => m \in ToSet(t)
  <2>1. NoNode \notin Nodes /\ next \in [Nodes -> Nodes \cup {NoNode}]
    BY NodesAssumption DEF WalkTypes
  <2>2. IsWalk(s, node, next, Nodes, NoNode)
    BY <1>5 DEF Ahead, Walk
  <2>3. PICK t : /\ IsWalk(t, node, Bypassed(next, Linked, n), Nodes, NoNode)
                 /\ ToSet(t) \subseteq ToSet(s) /\ ToSet(s) \ {n} \subseteq ToSet(t)
    BY ONLY <2>1, <2>2, n \in Nodes, WalkKept
  <2>4. Ahead(k, t)'
    BY <1>1, <1>2, <1>3, <1>5, <2>3 DEF Ahead, Walk
  <2> QED BY <1>4, <2>3, <2>4
<1> QED BY <1>2, <1>3, <1>4, <1>5 DEF Changed

LEMMA ChangedListing ==
  ASSUME ListingInv, WalkTypes', Changed,
         UNCHANGED <<state, prev, walk, buf, input, row, listed>>
  PROVE  ListingInv'
<1>1. /\ Input' = Input /\ Always' \subseteq Always /\ ToSet(listed) \subseteq ToSet(listed')
      /\ Once \subseteq Once' /\ ListsInv'
      /\ UNCHANGED <<stage, node, index, item>>
  BY DEF Input, Changed, walk
<1>2. /\ \A name : Listed(name) => Listed(name)'
      /\ \A n : FilesListed(n) => FilesListed(n)'
      /\ CommandsAhead(<< >>) => CommandsAhead(<< >>)'
      /\ ChildrenAhead(<< >>) => ChildrenAhead(<< >>)'
  <2>1. ToSet(<< >>) = {}
    BY DEF ToSet
  <2> QED BY <1>1, <2>1, AheadKept
<1>3. ASSUME state = "PRINT" PROVE (RowBegun /\ FilesBegun /\ NodesAhead)'
  <2>1. RowBegun /\ FilesBegun /\ NodesAhead
    BY <1>3 DEF ListingInv, Printing
  <2>2. RowBegun'
    BY <1>1, <2>1 DEF RowBegun, AtName, Name, Searching, FilesThrough
  <2>3. FilesBegun'
    <3>1. ASSUME NEW i, NEW name, name = FilesOf[node][i], Listed(name) PROVE Listed(name)'
      BY <1>2, <3>1
    <3> QED BY <1>1, <2>1, <3>1 DEF FilesBegun, Listed
  <2>4. ASSUME NEW s, Ahead("commands", s), CommandsAhead(s)
        PROVE  \E t : Ahead("commands", t)' /\ CommandsAhead(t)'
    <3>1. PICK t : /\ Ahead("commands", t)'
                   /\ \A m \in ToSet(s) : <<"commands", m>> \in Always' => m \in ToSet(t)
      BY <2>4 DEF Changed, Lists
    <3>2. CommandsAhead(t)'
      BY <1>1, <2>4, <3>1, AheadKept
    <3> QED BY <3>1, <3>2
  <2>5. ASSUME NEW s, Ahead("children", s), ChildrenAhead(s)
        PROVE  \E t : Ahead("children", t)' /\ ChildrenAhead(t)'
    <3>1. PICK t : /\ Ahead("children", t)'
                   /\ \A m \in ToSet(s) : <<"children", m>> \in Always' => m \in ToSet(t)
      BY <2>5 DEF Changed, Lists
    <3>2. ChildrenAhead(t)'
      BY <1>1, <2>5, <3>1, AheadKept
    <3> QED BY <3>1, <3>2
  <2>6. NodesAhead'
    BY <1>1, <1>2, <2>1, <2>4, <2>5 DEF NodesAhead
  <2> QED BY <2>2, <2>3, <2>6
<1>4. Printing' /\ Printed'
  BY <1>2, <1>3 DEF Printing, Printed, ListingInv, Finishing
<1>5. RowsOffered'
  <2>1. NamesIn(Once) \subseteq NamesIn(Once')
    BY <1>1, NamesGrow
  <2>2. NamesIn(Once)' = NamesIn(Once')
    BY DEF NamesIn
  <2> QED BY <1>1, <2>1, <2>2 DEF RowsOffered, ListingInv, Finishing
<1> QED BY <1>1, <1>4, <1>5 DEF ListingInv

\* Outside the search that prints there is nothing to keep but the lists.
LEMMA QuietListing ==
  ASSUME ListingInv, WalkTypes', ListsInv', state' # "PRINT", ~Finishing("PRINT")',
         \/ listed' = << >>
         \/ listed' = listed /\ (listed # << >> => state' \in {"PROMPT", "RECALL"})
  PROVE  ListingInv'
<1>1. listed \in Seq(Candidates) /\ << >> \in Seq(Candidates)
  BY DEF ListingInv, RowsOffered
<1> QED BY <1>1 DEF ListingInv, Printing, Printed, RowsOffered

LEMMA BeginsListing ==
  ASSUME ListingInv, WalkTypes', BeginPrint
  PROVE  ListingInv'
<1>1. /\ state' = "PRINT" /\ stage' = 0 /\ node' = head["commands"] /\ index' = 0 /\ item' = 0
      /\ row' = << >> /\ listed' = << >> /\ UNCHANGED <<lists, joined, gone>>
  BY DEF BeginPrint, PrepareCandidates, changes, ListingInv, RowsOffered, Finishing
<1>2. ListsInv' /\ Entries' = Entries /\ next' = next /\ WalkTypes /\ ListsInv
  BY <1>1, SameLists DEF ListingInv, lists
<1>3. PICK s : /\ Walk(s, head["commands"], next)
               /\ \A m : m \in ToSet(s) <=> <<"commands", m>> \in Entries
  BY <1>2, ListsAre, EntryIs DEF Lists
<1>4. Ahead("commands", s)'
  BY <1>1, <1>2, <1>3 DEF Ahead, Once, Walk
<1>5. CommandsAhead(s)'
  BY <1>2, <1>3 DEF CommandsAhead, Always
<1>6. NodesAhead'
  BY <1>1, <1>4, <1>5 DEF NodesAhead
<1>7. RowBegun' /\ FilesBegun'
  BY <1>1 DEF RowBegun, FilesBegun
<1>8. RowsOffered'
  <2>1. ToSet(<< >>) = {} /\ << >> \in Seq(Candidates)
    BY DEF ToSet
  <2> QED BY <1>1, <2>1 DEF RowsOffered
<1> QED BY <1>1, <1>2, <1>6, <1>7, <1>8 DEF ListingInv, Printing, Printed, Finishing

LEMMA ListingKept == ListingInv /\ [Next]_vars => ListingInv'
<1> SUFFICES ASSUME ListingInv, [Next]_vars PROVE ListingInv'
  OBVIOUS
<1>1. WalkTypes' /\ WalkTypes /\ ListsInv
  BY WalkTypesKept DEF ListingInv
<1>2. UNCHANGED lists => ListsInv' /\ Entries' = Entries
  BY <1>1, SameLists
<1>3. listed # << >> => state \in {"PRINT", "PROMPT", "RECALL"} \/ Finishing("PRINT")
  BY DEF ListingInv, RowsOffered
<1> USE DEF walk, tally, typed, changes
<1>4. CASE UNCHANGED vars
  <2>1. Once' = Once /\ Always' = Always /\ UNCHANGED <<lists, state, prev, walk, buf, input, row, listed>>
    BY <1>2, <1>4 DEF vars, Once, Always
  <2>2. \A k \in Lists : \A s : Ahead(k, s) => Ahead(k, s)'
    BY <2>1 DEF Ahead, Walk, lists
  <2>3. Changed
    BY <1>2, <2>1, <2>2 DEF Changed
  <2> QED BY <1>1, <2>1, <2>3, ChangedListing
<1>5. ASSUME NEW key \in Letters \cup {"SP"}, Type(key) PROVE ListingInv'
  BY <1>1, <1>2, <1>3, <1>5, QuietListing DEF Type, Finishing
<1>6. CASE Backspace \/ Tab \/ Prepare \/ Start
  BY <1>1, <1>2, <1>3, <1>6, QuietListing DEF Backspace, Tab, Prepare, Start, Finishing
<1>7. CASE FinishNone \/ FinishOne \/ RecallSuffix \/ Recall \/ PrintOver
  BY <1>1, <1>2, <1>7, QuietListing
  DEF FinishNone, FinishOne, RecallSuffix, Recall, PrintOver, Returns, Finishing
<1>8. CASE FinishPrint \/ Prompt \/ FinishDrop
  BY <1>1, <1>2, <1>3, <1>8, QuietListing DEF FinishPrint, Prompt, FinishDrop, Finishing
<1>9. ASSUME NEW before, Extend(before) \/ Extended(before), state = "FINISH", prev # "PRINT"
      PROVE  ListingInv'
  BY <1>1, <1>2, <1>3, <1>9, QuietListing DEF Extend, Extended, Finishing
<1>10. CASE FinishMany \/ FinishOptimise
  BY <1>9, <1>10 DEF FinishMany, FinishOptimise, Finishing
<1>11. CASE BeginPrint
  BY <1>1, <1>11, BeginsListing
<1>12. CASE StageEnds \/ NodeEnds \/ Skip \/ Pass \/ Count \/ EndRow
  <2>1. CASE state = "PRINT"
    BY <1>1, <1>12, <2>1, StageEndsListing, NodeEndsListing, AdvanceListing, CountListing, EndRowListing
  <2>2. CASE state # "PRINT"
    BY <1>1, <1>2, <1>3, <1>12, <2>2, QuietListing
    DEF StageEnds, NodeEnds, Skip, Pass, Count, EndRow, Advance, AtName, Searching, Finishing
  <2> QED BY <2>1, <2>2
<1>13. CASE SearchEnds
  <2>1. CASE state = "PRINT"
    BY <1>1, <1>13, <2>1, SearchEndsListing
  <2>2. CASE state # "PRINT"
    BY <1>1, <1>2, <1>3, <1>13, <2>2, QuietListing DEF SearchEnds, Searching, Finishing
  <2> QED BY <2>1, <2>2
<1>14. ASSUME NEW l \in Lists, NEW n \in Nodes, Prepend(l, n) \/ Unlink(l, n) PROVE ListingInv'
  <2>1. UNCHANGED <<state, prev, walk, buf, input, row, listed>>
    BY <1>14 DEF Prepend, Unlink
  <2>2. ListsInv'
    BY <1>1, <1>14, LinkedFirst, UnlinkedOne DEF Prepend, Unlink
  <2>3. CASE state = "READ_CHAR"
    BY <1>1, <1>3, <2>1, <2>2, <2>3, QuietListing DEF Finishing
  <2>4. CASE state # "READ_CHAR"
    BY <1>1, <1>14, <2>1, <2>4, PrependChanges, UnlinkChanges, ChangedListing
  <2> QED BY <2>3, <2>4
<1> QED
  BY <1>4, <1>5, <1>6, <1>7, <1>8, <1>10, <1>11, <1>12, <1>13, <1>14
  DEF Next, Editing, Service, Application

LEMMA ListingBegins == Init => ListingInv
<1> SUFFICES ASSUME Init PROVE ListingInv
  OBVIOUS
<1>1. WalkTypes
  BY AutocompBegins DEF AutocompInv
<1>2. ListsInv
  <2>1. \A l \in Lists : head[l] = NoNode
    BY DEF Init, NothingLinked
  <2>2. DOMAIN head = Lists
    BY <1>1 DEF WalkTypes
  <2> QED BY <2>1, <2>2, NodesAssumption, EmptyLists DEF ListsInv
<1> QED
  BY <1>1, <1>2 DEF ListingInv, Init, Printing, Printed, RowsOffered, Finishing

Matching(entries) == {name \in NamesIn(entries) : IsPrefix(Input, name)}
AllListed ==
  /\ Matching(Entries \ joined) \subseteq ToSet(listed)
  /\ ToSet(listed) \subseteq Matching(Entries \cup joined \cup gone)

\* When the candidates have been listed, every name that begins with the word
\* and was offered all the time since the key press is in a row of its own, and
\* every row is a name offered some time since then, for all nodes linked and
\* unlinked meanwhile and all lines typed.
THEOREM ListsCandidatesHolds == Spec => ListsCandidates
<1>1. ListingInv /\ FinishPrint => AllListed
  <2> SUFFICES ASSUME ListingInv, FinishPrint PROVE AllListed
    OBVIOUS
  <2>1. /\ CommandsAhead(<< >>) /\ FilesListed(Cwd) /\ ChildrenAhead(<< >>)
        /\ \A name \in ToSet(listed) : name \in NamesIn(Once) /\ IsPrefix(Input, name)
    BY DEF FinishPrint, ListingInv, Printed, RowsOffered
  <2>2. ToSet(<< >>) = {}
    BY DEF ToSet
  <2>3. \A m : /\ <<"commands", m>> \in Always => FilesListed(m)
               /\ <<"children", m>> \in Always => Listed(NameOf[m])
    BY <2>1, <2>2 DEF CommandsAhead, ChildrenAhead
  <2>4. ASSUME NEW name \in NamesIn(Entries \ joined) PROVE Listed(name)
    <3>1. CASE name \in ToSet(FilesOf[Cwd])
      BY <2>1, <3>1 DEF FilesListed
    <3>2. ASSUME NEW e \in Entries \ joined,
                 name \in IF e[1] = "children" THEN {NameOf[e[2]]} ELSE ToSet(FilesOf[e[2]])
          PROVE  Listed(name)
      <4>1. e = <<e[1], e[2]>> /\ e[1] \in Lists /\ e \in Always
        BY EntryIs DEF Always
      <4> QED BY <2>3, <3>2, <4>1 DEF Lists, FilesListed
    <3> QED BY <3>1, <3>2 DEF NamesIn
  <2>5. Matching(Entries \ joined) \subseteq ToSet(listed)
    BY <2>4 DEF Listed, Matching
  <2>6. NamesIn(Once) \subseteq NamesIn(Entries \cup joined \cup gone)
    <3>1. Once \subseteq Entries \cup joined \cup gone
      BY DEF Once
    <3> QED BY <3>1, NamesGrow
  <2>7. ToSet(listed) \subseteq Matching(Entries \cup joined \cup gone)
    BY <2>1, <2>6 DEF Matching
  <2> QED BY <2>5, <2>7 DEF AllListed
<1>2. ListingInv /\ [Next]_vars => [FinishPrint => AllListed]_vars
  BY <1>1
<1> QED
  BY <1>2, ListingBegins, ListingKept, PTL DEF Spec, ListsCandidates, AllListed, Matching

-----------------------------------------------------------------------------
(***************************************************************************)
(* The search is the one step of the abstract completion: what it counts   *)
(* and tries byte by byte is what the names that begin with the word have  *)
(* in common.  It is counted in offers, not in names: a name that two      *)
(* nodes offer counts twice.                                               *)
(***************************************************************************)
AskedWord == C!Word(asked)

\* What one node offers as a directory, and as the k-th of its files.
Slots == UNION {{n} \X (0 .. Len(FilesOf[n])) : n \in Nodes \cup {Cwd}}
NameAt(o) == IF o[2] = 0 THEN NameOf[o[1]] ELSE FilesOf[o[1]][o[2]]
Offered == {o \in Slots : IF o[2] = 0 THEN <<"children", o[1]>> \in Entries
                                      ELSE o[1] = Cwd \/ <<"commands", o[1]>> \in Entries}
Matches(word) == {o \in Offered : IsPrefix(word, NameAt(o))}

-----------------------------------------------------------------------------
\* The line asked about is its stem and its word.
LEMMA SplitAt ==
  ASSUME NEW l \in Seq(Shown)
  PROVE  /\ LastArg(l) \in 0 .. Len(l)
         /\ C!Stem(l) \in Seq(Shown) /\ Len(C!Stem(l)) = LastArg(l)
         /\ \A i \in 1 .. LastArg(l) : C!Stem(l)[i] = l[i]
         /\ C!Word(l) \in Seq(Shown) /\ Len(C!Word(l)) = Len(l) - LastArg(l)
         /\ \A i \in 1 .. Len(l) - LastArg(l) : C!Word(l)[i] = l[LastArg(l) + i]
<1> DEFINE T == {i \in 1 .. Len(l) : l[i] = "SP" /\ (i > 1 \/ i = Len(l))}
           k == LastArg(l)
           n == Len(l)
<1>1. n \in Nat
  OBVIOUS
<1>2. k \in 0 .. n
  <2>1. {0} \cup T # {} /\ \A x \in {0} \cup T : x \in 0 .. n
    BY <1>1
  <2> DEFINE U == {0} \cup T
  <2>2. k = Max(U)
    BY DEF LastArg
  <2> HIDE DEF U, k, n
  <2>3. U # {} /\ \A x \in U : x \in 0 .. n
    BY <2>1 DEF U
  <2>4. Max(U) \in U
    BY ONLY <1>1, <2>3, MaxUpTo
  <2> QED BY <2>2, <2>3, <2>4
<1>3. C!Stem(l) = SubSeq(l, 1, k)
  BY DEF C!Stem, C!WordStarts, LastArg, C!Max, Max
<1> HIDE DEF k, n
<1>4. k \in Nat /\ k <= n
  BY <1>1, <1>2
<1>5. /\ C!Stem(l) \in Seq(Shown) /\ Len(C!Stem(l)) = k
      /\ \A i \in 1 .. k : C!Stem(l)[i] = l[i]
  BY <1>3, <1>4, FirstOfSeq DEF n
<1>6. C!Word(l) = SubSeq(l, k + 1, n)
  BY <1>5 DEF C!Word, n
<1>7. \A i \in k + 1 .. n : l[i] \in Shown
  BY <1>4 DEF n
<1>8. k + 1 \in Int /\ n \in Int
  BY <1>1, <1>4
<1>9. /\ SubSeq(l, k + 1, n) \in Seq(Shown)
      /\ Len(SubSeq(l, k + 1, n)) = IF k + 1 <= n THEN n - (k + 1) + 1 ELSE 0
      /\ \A i \in 1 .. n - (k + 1) + 1 : SubSeq(l, k + 1, n)[i] = l[k + 1 + i - 1]
  BY ONLY <1>7, <1>8, SubSeqProperties
<1> DEFINE w == C!Word(l)
<1>10. /\ w \in Seq(Shown) /\ Len(w) = IF k + 1 <= n THEN n - (k + 1) + 1 ELSE 0
       /\ \A i \in 1 .. n - (k + 1) + 1 : w[i] = l[k + 1 + i - 1]
  BY <1>6, <1>9
<1> HIDE DEF w
<1>11. Len(w) = n - k
  BY <1>1, <1>4, <1>10
<1>12. ASSUME NEW i \in 1 .. n - k PROVE w[i] = l[k + i]
  <2>1. i \in 1 .. n - (k + 1) + 1 /\ k + 1 + i - 1 = k + i
    BY <1>1, <1>4
  <2> QED BY <1>10, <2>1
<1> QED BY <1>2, <1>5, <1>10, <1>11, <1>12 DEF k, n, w

\* The buffer holds the stem, the search the rest.
StemKept ==
  /\ asked \in Seq(Shown) /\ input = LastArg(asked) /\ input <= inPos
  /\ \A i \in 1 .. input : buf[i - 1] = asked[i]

LEMMA LineSplits ==
  ASSUME Fits, Shape, StemKept
  PROVE  Line = C!Stem(asked) \o Input
<1> DEFINE s == C!Stem(asked)
           n == Len(Input)
<1>1. s \in Seq(Shown) /\ Len(s) = input /\ input \in Nat /\ \A i \in 1 .. input : s[i] = buf[i - 1]
  BY SplitAt DEF StemKept
<1>2. /\ inPos \in Nat /\ input <= inPos /\ Line = FirstBytes(inPos)
      /\ Input \in Seq(Shown) /\ n = inPos - input
      /\ \A i \in 1 .. n : Input[i] = buf[input + i - 1]
  BY <1>1, LineBytes, WordBytes DEF StemKept
<1> HIDE DEF s, n
<1>3. Input \in Seq(Shown) /\ Len(Input) = n
  BY <1>2 DEF n
<1>4. /\ s \o Input \in Seq(Shown) /\ Len(s \o Input) = Len(s) + Len(Input)
      /\ \A i \in 1 .. Len(s) : (s \o Input)[i] = s[i]
      /\ \A i \in 1 .. Len(Input) : (s \o Input)[Len(s) + i] = Input[i]
  <2>1. s \in Seq(Shown) /\ Input \in Seq(Shown)
    BY <1>1, <1>3
  <2> QED BY ONLY <2>1, Joined
<1> DEFINE t == s \o Input
<1>5. /\ t \in Seq(Shown) /\ Len(t) = Len(s) + Len(Input)
      /\ \A i \in 1 .. Len(s) : t[i] = s[i]
      /\ \A i \in 1 .. Len(Input) : t[Len(s) + i] = Input[i]
  BY <1>4 DEF t
<1> HIDE DEF t
<1>6. /\ t \in Seq(Shown) /\ Len(t) = inPos
      /\ \A i \in 1 .. input : t[i] = s[i]
      /\ \A i \in 1 .. n : t[input + i] = Input[i]
  BY <1>1, <1>2, <1>3, <1>5
<1>7. input + n = inPos /\ n \in Nat
  BY <1>1, <1>2
<1>8. ASSUME NEW i \in 1 .. inPos PROVE t[i] = buf[i - 1]
  <2>1. CASE i <= input
    <3>1. i \in 1 .. input
      BY <1>1, <1>2, <2>1
    <3> QED BY <1>1, <1>6, <3>1
  <2>2. CASE i > input
    <3>1. i - input \in 1 .. n /\ input + (i - input) = i
      BY <1>1, <1>2, <1>7, <2>2
    <3>2. input + (i - input) - 1 = i - 1
      BY <1>1, <3>1
    <3>3. Input[i - input] = buf[i - 1]
      BY <1>2, <3>1, <3>2
    <3>4. t[i] = Input[i - input]
      BY <1>6, <3>1
    <3> QED BY <3>3, <3>4
  <2> QED BY <1>1, <1>2, <2>1, <2>2
<1>9. t = [i \in 1 .. inPos |-> buf[i - 1]]
  BY <1>2, <1>6, <1>8, SameBytes
<1> QED BY <1>2, <1>9 DEF FirstBytes, s, t

\* When the search is prepared the word is the last of the line.
LEMMA WordAsked ==
  ASSUME Fits, Shape, asked = Line, Prepare
  PROVE  StemKept' /\ Input' = AskedWord'
<1>1. /\ inPos \in Nat /\ Line = FirstBytes(inPos) /\ Len(Line) = inPos /\ Line \in Seq(Shown)
      /\ \A i \in 1 .. inPos : Line[i] = buf[i - 1]
  <2>1. inPos \in Nat /\ Line = FirstBytes(inPos) /\ Len(Line) = inPos
    BY LineBytes
  <2>2. FirstBytes(inPos) \in Seq(Shown)
    BY <2>1, FirstBytesTyped
  <2> QED BY <2>1, <2>2 DEF FirstBytes
<1> DEFINE k == LastArg(asked)
           w == C!Word(asked)
<1>2. UNCHANGED <<buf, inPos, asked>> /\ input' = k
  BY DEF Prepare, typed, changes
<1>3. /\ k \in 0 .. inPos
      /\ w \in Seq(Shown) /\ Len(w) = inPos - k
      /\ \A i \in 1 .. inPos - k : w[i] = asked[k + i]
  BY <1>1, SplitAt
<1> HIDE DEF k, w
<1>4. StemKept'
  BY <1>1, <1>2, <1>3 DEF StemKept, k
<1>5. Input' = StringAt(buf, k)
  BY <1>2 DEF Input
<1>6. StringAt(buf, k) = [i \in 1 .. inPos - k |-> buf[k + i - 1]]
  BY <1>3, LineIs
<1>7. w = [i \in 1 .. inPos - k |-> buf[k + i - 1]]
  <2>1. w = [i \in 1 .. inPos - k |-> w[i]]
    BY <1>3
  <2>2. \A i \in 1 .. inPos - k : k + i \in 1 .. inPos
    BY <1>1, <1>3
  <2> QED BY <1>1, <1>3, <2>1, <2>2
<1>8. AskedWord' = w
  BY <1>2 DEF AskedWord, w
<1> QED BY <1>4, <1>5, <1>6, <1>7, <1>8

-----------------------------------------------------------------------------
\* The nodes and the directory have the names they are given.
LEMMA NamesTyped ==
  /\ \A n \in Nodes \cup {Cwd} :
       /\ FilesOf[n] \in Seq(Seq(Letters)) /\ Len(FilesOf[n]) \in Nat
       /\ \A k \in 1 .. Len(FilesOf[n]) : /\ FilesOf[n][k] \in Seq(Letters)
                                          /\ FilesOf[n][k] \in ToSet(FilesOf[n])
       /\ \A name \in ToSet(FilesOf[n]) : \E k \in 1 .. Len(FilesOf[n]) : name = FilesOf[n][k]
  /\ \A n \in Nodes : NameOf[n] \in Seq(Letters)
<1>1. ASSUME NEW n \in Nodes \cup {Cwd}
      PROVE  /\ FilesOf[n] \in Seq(Seq(Letters)) /\ Len(FilesOf[n]) \in Nat
             /\ \A k \in 1 .. Len(FilesOf[n]) : /\ FilesOf[n][k] \in Seq(Letters)
                                                /\ FilesOf[n][k] \in ToSet(FilesOf[n])
             /\ \A name \in ToSet(FilesOf[n]) : \E k \in 1 .. Len(FilesOf[n]) : name = FilesOf[n][k]
  <2> DEFINE files == FilesOf[n]
  <2>1. files \in Seq(Seq(Letters) \ {<< >>})
    BY AutocompAssumption
  <2> HIDE DEF files
  <2>2. files \in Seq(Seq(Letters))
    BY <2>1
  <2>3. /\ Len(files) \in Nat /\ \A k \in 1 .. Len(files) : files[k] \in Seq(Letters) /\ files[k] \in ToSet(files)
        /\ \A name \in ToSet(files) : \E k \in 1 .. Len(files) : name = files[k]
    BY ONLY <2>2, Elements
  <2> QED BY <2>2, <2>3 DEF files
<1>2. \A n \in Nodes : NameOf[n] \in Seq(Letters)
  BY AutocompAssumption
<1> QED BY <1>1, <1>2

LEMMA SlotIs ==
  /\ \A n, k : <<n, k>> \in Slots <=> n \in Nodes \cup {Cwd} /\ k \in 0 .. Len(FilesOf[n])
  /\ \A o \in Slots : o = <<o[1], o[2]>>
BY DEF Slots

\* There are finitely many of them, so they can be counted.
LEMMA SlotsFinite == IsFiniteSet(Slots)
<1> DEFINE D == Nodes \cup {Cwd}
           f == [n \in D |-> {n} \X (0 .. Len(FilesOf[n]))]
           T == {f[n] : n \in D}
<1>1. IsFiniteSet(D)
  BY NodesAssumption, FS_AddElement
<1>2. f \in Surjection(D, T)
  BY DEF Surjection
<1>3. ASSUME NEW n \in D PROVE IsFiniteSet(f[n])
  <2>1. IsFiniteSet(0 .. Len(FilesOf[n]))
    BY NamesTyped, FS_Interval
  <2>2. IsFiniteSet({n})
    BY FS_Singleton
  <2>3. IsFiniteSet({n} \X (0 .. Len(FilesOf[n])))
    BY <2>1, <2>2, FS_Product
  <2> QED BY <2>3
<1>4. Slots = UNION T
  BY DEF Slots
<1> HIDE DEF D, f
<1>5. IsFiniteSet(T)
  BY ONLY <1>1, <1>2, FS_Surjection
<1>6. \A x \in T : IsFiniteSet(x)
  BY <1>3
<1> HIDE DEF T
<1>7. IsFiniteSet(UNION T)
  BY ONLY <1>5, <1>6, FS_UNION
<1> QED BY <1>4, <1>7

LEMMA MatchesFinite == \A w : IsFiniteSet(Matches(w)) /\ Cardinality(Matches(w)) \in Nat
<1> TAKE w
<1>1. Matches(w) \subseteq Slots
  BY DEF Matches, Offered
<1>2. IsFiniteSet(Matches(w))
  BY <1>1, SlotsFinite, FS_Subset
<1> QED BY <1>2, FS_CardinalityType

LEMMA EntriesTyped ==
  ASSUME WalkTypes, ListsInv
  PROVE  /\ \A e \in Entries : e = <<e[1], e[2]>> /\ e[1] \in Lists /\ e[2] \in Nodes
         /\ \A l, m : <<l, m>> \in Entries => l \in Lists /\ m \in Nodes
<1>1. \A l \in Lists : ToSet(ListOf(l)) \subseteq Nodes
  BY ListsAre DEF ToSet
<1> QED BY <1>1, EntryIs

\* What is offered is what the slots offered are named.
LEMMA NamesOffered ==
  ASSUME WalkTypes, ListsInv
  PROVE  /\ \A o \in Offered : NameAt(o) \in Seq(Letters) /\ NameAt(o) \in NamesIn(Entries)
         /\ NamesIn(Entries) = {NameAt(o) : o \in Offered}
         /\ NamesIn(Entries) \subseteq Names
<1>1. ASSUME NEW o \in Offered PROVE NameAt(o) \in Seq(Letters) /\ NameAt(o) \in NamesIn(Entries)
  <2>1. PICK n, k : o = <<n, k>> /\ n \in Nodes \cup {Cwd} /\ k \in 0 .. Len(FilesOf[n])
    BY SlotIs DEF Offered
  <2>2. IF k = 0 THEN <<"children", n>> \in Entries
                 ELSE n = Cwd \/ <<"commands", n>> \in Entries
    BY <2>1 DEF Offered
  <2>3. CASE k = 0
    <3>1. n \in Nodes /\ NameAt(o) = NameOf[n] /\ <<"children", n>> \in Entries
      BY <2>1, <2>2, <2>3, EntriesTyped DEF NameAt
    <3> QED BY <3>1, NamesTyped DEF NamesIn
  <2>4. CASE k # 0
    <3>1. k \in 1 .. Len(FilesOf[n]) /\ NameAt(o) = FilesOf[n][k]
      BY <2>1, <2>4, NamesTyped DEF NameAt
    <3>2. FilesOf[n][k] \in Seq(Letters) /\ FilesOf[n][k] \in ToSet(FilesOf[n])
      BY <2>1, <3>1, NamesTyped
    <3> QED BY <2>2, <2>4, <3>1, <3>2 DEF NamesIn
  <2> QED BY <2>3, <2>4
<1>2. ASSUME NEW name, NEW n \in Nodes \cup {Cwd}, name \in ToSet(FilesOf[n]),
             n = Cwd \/ <<"commands", n>> \in Entries
      PROVE  \E o \in Offered : name = NameAt(o)
  <2>1. PICK k \in 1 .. Len(FilesOf[n]) : name = FilesOf[n][k]
    BY <1>2, NamesTyped
  <2>2. k \in 0 .. Len(FilesOf[n]) /\ k # 0
    BY NamesTyped
  <2>3. <<n, k>> \in Offered /\ NameAt(<<n, k>>) = name
    BY <1>2, <2>1, <2>2, SlotIs DEF Offered, NameAt
  <2> QED BY <2>3
<1>3. ASSUME NEW n \in Nodes, <<"children", n>> \in Entries
      PROVE  \E o \in Offered : NameOf[n] = NameAt(o)
  <2>1. 0 \in 0 .. Len(FilesOf[n])
    BY NamesTyped
  <2>2. <<n, 0>> \in Offered /\ NameAt(<<n, 0>>) = NameOf[n]
    BY <1>3, <2>1, SlotIs DEF Offered, NameAt
  <2> QED BY <2>2
<1>4. ASSUME NEW name \in NamesIn(Entries) PROVE name \in Names /\ \E o \in Offered : name = NameAt(o)
  <2>1. CASE name \in ToSet(FilesOf[Cwd])
    BY <1>2, <2>1 DEF Names
  <2>2. ASSUME NEW e \in Entries,
               name \in IF e[1] = "children" THEN {NameOf[e[2]]} ELSE ToSet(FilesOf[e[2]])
        PROVE  name \in Names /\ \E o \in Offered : name = NameAt(o)
    <3>1. e = <<e[1], e[2]>> /\ e[1] \in {"children", "commands"} /\ e[2] \in Nodes
      BY EntriesTyped DEF Lists
    <3>2. CASE e[1] = "children"
      BY <1>3, <2>2, <3>1, <3>2 DEF Names
    <3>3. CASE e[1] = "commands"
      BY <1>2, <2>2, <3>1, <3>3 DEF Names
    <3> QED BY <3>1, <3>2, <3>3
  <2> QED BY <2>1, <2>2 DEF NamesIn
<1> QED BY <1>1, <1>4

-----------------------------------------------------------------------------
\* The abstract completion has operators of the same definition.
LEMMA CopiesAre ==
  /\ \A s, t : C!IsPrefix(s, t) = IsPrefix(s, t)
  /\ \A s : C!Prefixes(s) = Prefixes(s)
  /\ \A s : C!Front(s) = Front(s)
  /\ \A T : C!LongestCommonPrefix(T) = LongestCommonPrefix(T)
<1>1. \A s, t : C!IsPrefix(s, t) = IsPrefix(s, t)
  BY DEF C!IsPrefix, IsPrefix
<1>2. \A s : C!Prefixes(s) = Prefixes(s)
  BY DEF C!Prefixes, Prefixes
<1>3. \A s : C!Front(s) = Front(s)
  BY DEF C!Front, Front
<1>4. \A T : C!CommonPrefixes(T) = CommonPrefixes(T)
  BY <1>1, <1>2 DEF C!CommonPrefixes, CommonPrefixes
<1>5. \A T : C!LongestCommonPrefix(T) = LongestCommonPrefix(T)
  BY <1>4 DEF C!LongestCommonPrefix, LongestCommonPrefix
<1> QED BY <1>1, <1>2, <1>3, <1>5

NamesOf(slots) == {NameAt(o) : o \in slots}

LEMMA MatchingIs ==
  ASSUME WalkTypes, ListsInv, NEW w \in Seq(Shown)
  PROVE  /\ C!Matching(w, NamesIn(Entries)) = NamesOf(Matches(w))
         /\ NamesOf(Matches(w)) \subseteq Seq(Shown)
         /\ Matches(w) \subseteq Offered /\ \A o \in Offered : NameAt(o) \in Seq(Shown)
<1>1. NamesIn(Entries) = {NameAt(o) : o \in Offered} /\ \A o \in Offered : NameAt(o) \in Seq(Letters)
  BY NamesOffered
<1>2. Seq(Letters) \subseteq Seq(Shown)
  <2>1. Letters \subseteq Shown
    BY DEF Shown
  <2>2. ASSUME NEW s \in Seq(Letters) PROVE s \in Seq(Shown)
    BY <2>1, Elements, SeqDef
  <2> QED BY <2>2
<1>3. \A s, t : C!IsPrefix(s, t) = IsPrefix(s, t)
  BY CopiesAre
<1>4. C!Matching(w, NamesIn(Entries)) = NamesOf(Matches(w))
  BY <1>1, <1>3 DEF C!Matching, NamesOf, Matches
<1> QED BY <1>1, <1>2, <1>4 DEF NamesOf, Matches

\* A longer word is the beginning of fewer names.
LEMMA MatchesShrink ==
  ASSUME WalkTypes, ListsInv, NEW v \in Seq(Shown), NEW w \in Seq(Shown), IsPrefix(v, w)
  PROVE  Matches(w) \subseteq Matches(v)
<1>1. \A o \in Offered : NameAt(o) \in Seq(Shown)
  BY MatchingIs
<1>2. ASSUME NEW o \in Matches(w) PROVE o \in Matches(v)
  <2>1. o \in Offered /\ NameAt(o) \in Seq(Shown) /\ IsPrefix(w, NameAt(o))
    BY <1>1 DEF Matches
  <2>2. IsPrefix(v, NameAt(o))
    BY <2>1, PrefixOfPrefix
  <2> QED BY <2>1, <2>2 DEF Matches
<1> QED BY <1>2

\* No name begins with the word.
LEMMA CompletedNone ==
  ASSUME WalkTypes, ListsInv, NEW w \in Seq(Shown), Matches(w) = {}
  PROVE  C!Completed(w, NamesIn(Entries)) = w
<1>1. C!Matching(w, NamesIn(Entries)) = {}
  BY MatchingIs DEF NamesOf
<1> QED BY <1>1 DEF C!Completed

\* All that do begin with one of them.
LEMMA CompletedAll ==
  ASSUME WalkTypes, ListsInv, NEW w \in Seq(Shown), NEW x \in Seq(Shown),
         NEW o \in Matches(w), NameAt(o) = x, Matches(w) \subseteq Matches(x)
  PROVE  C!Completed(w, NamesIn(Entries)) = x
<1> DEFINE T == NamesOf(Matches(w))
<1>1. C!Matching(w, NamesIn(Entries)) = T /\ T \subseteq Seq(Shown)
  BY MatchingIs
<1>2. x \in T
  BY DEF NamesOf
<1>3. BeginsAll(x, T)
  BY DEF BeginsAll, NamesOf, Matches
<1> HIDE DEF T
<1>4. LongestCommonPrefix(T) = x
  BY ONLY <1>1, <1>2, <1>3, CommonIsOne
<1> QED BY <1>1, <1>2, <1>4, CopiesAre DEF C!Completed

\* All begin with x but for its last byte, and not all with x.
LEMMA CompletedFront ==
  ASSUME WalkTypes, ListsInv, NEW w \in Seq(Shown), NEW x \in Seq(Shown), x # << >>,
         NEW o \in Matches(w), IsPrefix(x, NameAt(o)),
         Matches(w) = Matches(Front(x)), NEW p \in Matches(w), p \notin Matches(x)
  PROVE  C!Completed(w, NamesIn(Entries)) = Front(x)
<1> DEFINE T == NamesOf(Matches(w))
           c == NameAt(o)
           t == NameAt(p)
<1>1. C!Matching(w, NamesIn(Entries)) = T /\ T \subseteq Seq(Shown)
  BY MatchingIs
<1>2. c \in T /\ t \in T /\ IsPrefix(x, c) /\ ~IsPrefix(x, t)
  BY DEF NamesOf, Matches
<1>3. BeginsAll(Front(x), T)
  <2>1. \A q \in Matches(w) : IsPrefix(Front(x), NameAt(q))
    BY DEF Matches
  <2> QED BY <2>1 DEF BeginsAll, NamesOf
<1> HIDE DEF T, c, t
<1>4. LongestCommonPrefix(T) = Front(x)
  BY ONLY <1>1, <1>2, <1>3, x \in Seq(Shown), x # << >>, CommonIsFront
<1> QED BY <1>1, <1>2, <1>4, CopiesAre DEF C!Completed

\* What is the beginning of a name offered, and begins with the word, is a part
\* of a completion.
LEMMA PartlyIs ==
  ASSUME NEW w \in Seq(Shown), NEW x \in Seq(Shown), NEW names, NEW c \in names, c \in Seq(Shown),
         IsPrefix(w, x), IsPrefix(x, c)
  PROVE  x \in C!Partly(w, names)
<1>1. IsPrefix(w, c)
  BY PrefixOfPrefix
<1>2. x \in Prefixes(c)
  <2>1. Len(x) \in Nat /\ Len(c) \in Nat /\ Len(x) <= Len(c)
    BY PrefixIs
  <2>2. x = SubSeq(c, 1, Len(x))
    <3>1. SubSeq(x, 1, Len(x)) = x
      OBVIOUS
    <3> QED BY <3>1 DEF IsPrefix
  <2>3. \E l \in 0 .. Len(c) : x = SubSeq(c, 1, l)
    <3>1. Len(x) \in 0 .. Len(c)
      BY <2>1
    <3> QED BY <2>2, <3>1
  <2> QED BY <2>3 DEF Prefixes
<1>3. c \in C!Matching(w, names) /\ x \in C!Prefixes(c) /\ C!IsPrefix(w, x)
  BY <1>1, <1>2, CopiesAre DEF C!Matching
<1> QED BY <1>3 DEF C!Partly

LEMMA PartlyGrows ==
  ASSUME NEW A, NEW B, A \subseteq B, NEW w
  PROVE  C!Partly(w, A) \subseteq C!Partly(w, B)
BY DEF C!Partly, C!Matching

-----------------------------------------------------------------------------
(***************************************************************************)
(* What the search keeps.                                                  *)
(***************************************************************************)
Steady == joined = {} /\ gone = {}

\* The states in which the line is completed but not on the screen yet.
Settled == state \in {"RECALL_SUFFIX", "PROMPT", "RECALL"} \/ In("PRINT")

SplitInv ==
  /\ state = "READ_CHAR" => Steady
  /\ state = "PREPARE" => asked = Line
  /\ state \notin {"READ_CHAR", "PREPARE"} => StemKept

\* The last candidate is a name offered some time since the key press.
Found == candidate \in NamesIn(Once) /\ IsPrefix(Input, candidate)

WordInv ==
  /\ state = "START" \/ In("COUNT") => Input = AskedWord
  /\ In("COUNT") => count \in Nat /\ (count > 0 => Found)
  /\ In("OPTIMISE") => Found /\ Input # << >> /\ IsPrefix(AskedWord, Front(Input))
  /\ Settled => Input \in C!Partly(AskedWord, NamesIn(Once))

\* The names of a node that are behind the search.
Behind == IF index > 0 THEN item + 1 ELSE item

\* The k-th name of a node is not counted yet, s being the nodes ahead.
Waits(n, k, s) ==
  IF k = 0 THEN stage < 2 \/ (n \in ToSet(s) /\ (n = node => index = 0))
  ELSE IF n = Cwd THEN stage = 0 \/ (stage = 1 /\ node = Cwd /\ k > Behind)
  ELSE stage = 0 /\ n \in ToSet(s) /\ (n = node => k > Behind)

Left(s) == {o \in Offered : Waits(o[1], o[2], s)}

Counted(s) ==
  Steady /\ state # "PRINT" => count = Cardinality(Matches(Input) \ Left(s))

StepsInv ==
  Searching => /\ index \in 0 .. 2 /\ (index > 0 => AtName)
               /\ \E s : SearchAt(s) /\ Counted(s)

\* Nothing was linked or unlinked: the numbers tell how many offers begin with
\* the word, and with the word without the byte tried.
CountInv ==
  Steady =>
    /\ Finishing("COUNT") \/ Finishing("OPTIMISE") => count = Cardinality(Matches(Input))
    /\ In("OPTIMISE") => /\ prevCount = Cardinality(Matches(Front(Input)))
                         /\ Matches(AskedWord) = Matches(Front(Input))
    /\ Settled => Input = C!Completed(AskedWord, NamesIn(Entries))

CompletionInv == SplitInv /\ WordInv /\ StepsInv /\ CountInv

-----------------------------------------------------------------------------
\* A string in memory up to the NUL.
LEMMA StringIs ==
  ASSUME NEW m \in [Memory -> Bytes], NEW e \in Memory, NEW p \in 0 .. e, m[e] = "NUL",
         \A q \in 0 .. e - 1 : m[q] \in Shown
  PROVE  /\ StringAt(m, p) \in Seq(Shown) /\ Len(StringAt(m, p)) = e - p
         /\ \A i \in 1 .. e - p : StringAt(m, p)[i] = m[p + i - 1]
<1>1. e \in Nat /\ p \in Nat /\ p <= e /\ p \in Memory
  BY Constants DEF Memory
<1>2. \A q \in p .. e - 1 : m[q] # "NUL"
  BY <1>1, Constants DEF Shown
<1>3. StringAt(m, p) = [i \in 1 .. e - p |-> m[p + i - 1]] /\ Len(StringAt(m, p)) = e - p
  BY <1>1, <1>2, StringEnds
<1> DEFINE n == e - p
           s == StringAt(m, p)
<1>4. n \in Nat /\ \A i \in 1 .. n : p + i - 1 \in 0 .. e - 1
  BY <1>1
<1>5. s \in [1 .. n -> Shown]
  BY <1>3, <1>4
<1>6. s \in Seq(Shown)
  BY ONLY <1>4, <1>5, SeqDef
<1> QED BY <1>3, <1>6

LEMMA WordTyped ==
  ASSUME Fits, Shape, WalkTypes, StemKept
  PROVE  /\ input \in Nat /\ inPos \in Nat /\ inPos < InSize /\ input <= inPos
         /\ Input \in Seq(Shown) /\ Len(Input) = inPos - input
         /\ \A i \in 1 .. inPos - input : Input[i] = buf[input + i - 1]
         /\ AskedWord \in Seq(Shown) /\ candidate \in Seq(Shown)
<1>1. input \in Nat /\ AskedWord \in Seq(Shown)
  BY SplitAt DEF StemKept, AskedWord
<1>2. inPos \in Nat /\ input <= inPos /\ inPos < InSize
  BY Constants DEF Shape, StemKept, Fits
<1>3. candidate \in Seq(Shown)
  <2>1. candidate \in Seq(Letters) /\ Letters \subseteq Shown
    BY DEF WalkTypes, Candidates, Shown
  <2>2. Len(candidate) \in Nat /\ \A i \in 1 .. Len(candidate) : candidate[i] \in Letters
    BY <2>1, Elements
  <2>3. candidate \in [1 .. Len(candidate) -> Shown]
    BY <2>1, <2>2
  <2> QED BY ONLY <2>2, <2>3, SeqDef
<1> QED BY <1>1, <1>2, <1>3, WordBytes

\* The byte tried is the next of the candidate.
LEMMA WordExtended ==
  ASSUME Fits, AutocompInv, StemKept, state \notin Idle, NEW before, Extend(before)
  PROVE  /\ StemKept' /\ Input' \in Seq(Shown) /\ Input' # << >> /\ Front(Input') = Input
         /\ IsPrefix(Input, candidate) => IsPrefix(Input', candidate)
<1> DEFINE w == Input
           x == StringAt(buf', input)
           n == Len(Input)
<1>1. Shape /\ WalkTypes /\ Shape' /\ inPos' = inPos + 1
  BY ExtendKept DEF AutocompInv
<1>2. /\ input \in Nat /\ inPos \in Nat /\ inPos < InSize /\ input <= inPos
      /\ w \in Seq(Shown) /\ n = inPos - input /\ n \in Nat
      /\ \A i \in 1 .. n : w[i] = buf[input + i - 1]
      /\ candidate \in Seq(Shown)
  BY <1>1, WordTyped
<1>3. /\ UNCHANGED <<input, asked, candidate>> /\ n < Len(candidate)
      /\ buf' = StoreAt(inPos, candidate[n + 1]) /\ Wrapped(inPos + 1) = inPos + 1
  BY <1>1 DEF Extend, changes
<1>4. /\ buf'[inPos] = candidate[n + 1]
      /\ \A q \in 0 .. inPos - 1 : buf'[q] = buf[q]
  <2>1. inPos \in Memory /\ inPos # inPos + 1 /\ buf \in [Memory -> Bytes]
    BY <1>1, <1>2, Constants DEF Memory, Shape
  <2>2. \A q \in 0 .. inPos - 1 : q \in Memory /\ q # inPos /\ q # inPos + 1
    BY <1>2, Constants DEF Memory
  <2> QED BY <1>3, <2>1, <2>2 DEF StoreAt
<1>5. Input' = x
  BY <1>3 DEF Input
<1>6. /\ x \in Seq(Shown) /\ Len(x) = n + 1
      /\ \A i \in 1 .. n + 1 : x[i] = buf'[input + i - 1]
  <2> DEFINE e == inPos + 1
  <2>1. e \in Memory /\ buf' \in [Memory -> Bytes] /\ buf'[e] = "NUL"
        /\ \A q \in 0 .. e - 1 : buf'[q] \in Shown
    BY <1>1, <1>2, Constants DEF Shape, Memory
  <2>2. input \in 0 .. e /\ e - input = n + 1
    BY <1>2
  <2> HIDE DEF e
  <2>3. /\ x \in Seq(Shown) /\ Len(x) = e - input
        /\ \A i \in 1 .. e - input : x[i] = buf'[input + i - 1]
    BY ONLY <2>1, <2>2, StringIs
  <2> QED BY <2>2, <2>3
<1>7. StemKept'
  <2>1. \A i \in 1 .. input : i - 1 \in 0 .. inPos - 1
    BY <1>2
  <2>2. input <= inPos'
    BY <1>1, <1>2
  <2> QED BY <1>3, <1>4, <2>1, <2>2 DEF StemKept
<1> HIDE DEF w, x, n
<1>8. \A i \in 1 .. n : x[i] = w[i]
  <2> TAKE i \in 1 .. n
  <2>1. input + i - 1 \in 0 .. inPos - 1 /\ i \in 1 .. n + 1
    BY <1>2
  <2> QED BY <1>2, <1>4, <1>6, <2>1
<1>9. x[n + 1] = candidate[n + 1]
  <2>1. input + (n + 1) - 1 = inPos /\ n + 1 \in 1 .. n + 1
    BY <1>2
  <2> QED BY <1>4, <1>6, <2>1
<1>10. Len(w) = n
  BY DEF w, n
<1>11. x # << >> /\ Front(x) = w
  <2>1. x # << >>
    BY <1>2, <1>6
  <2>2. Front(x) \in Seq(Shown) /\ Len(Front(x)) = n /\ \A i \in 1 .. n : Front(x)[i] = x[i]
    <3>1. /\ Front(x) \in Seq(Shown) /\ Len(Front(x)) = Len(x) - 1
          /\ \A i \in 1 .. Len(x) - 1 : Front(x)[i] = x[i]
      BY ONLY <1>6, <2>1, FrontIs
    <3>2. Len(x) - 1 = n
      BY <1>2, <1>6
    <3> QED BY <3>1, <3>2
  <2> DEFINE f == Front(x)
  <2>3. f \in Seq(Shown) /\ Len(f) = Len(w) /\ \A i \in 1 .. Len(f) : f[i] = w[i]
    BY <1>8, <1>10, <2>2
  <2> HIDE DEF f
  <2>4. f = w
    BY ONLY <1>2, <2>3, SeqEqual
  <2> QED BY <2>1, <2>4 DEF f
<1>12. ASSUME IsPrefix(w, candidate) PROVE IsPrefix(x, candidate)
  <2>1. \A i \in 1 .. n : w[i] = candidate[i]
    <3>1. w \in Seq(Shown) /\ candidate \in Seq(Shown)
      BY <1>2
    <3>2. \A i \in 1 .. Len(w) : w[i] = candidate[i]
      BY ONLY <1>12, <3>1, PrefixIs
    <3> QED BY <1>10, <3>2
  <2>2. \A i \in 1 .. n + 1 : x[i] = candidate[i]
    <3> TAKE i \in 1 .. n + 1
    <3>1. i = n + 1 \/ i \in 1 .. n
      BY <1>2
    <3> QED BY <1>8, <1>9, <2>1, <3>1
  <2>3. Len(x) <= Len(candidate)
    BY <1>2, <1>3, <1>6 DEF n
  <2> QED BY <1>2, <1>6, <2>2, <2>3, PrefixIs
<1> QED BY <1>5, <1>6, <1>7, <1>11, <1>12 DEF w

\* The byte that was tried is taken back.
LEMMA WordCut ==
  ASSUME Fits, AutocompInv, AutocompInv', StemKept, Input # << >>, FinishDrop
  PROVE  StemKept' /\ Input' = Front(Input)
<1> DEFINE w == Input
           x == StringAt(buf', input)
           n == Len(Input)
<1>1. Shape /\ WalkTypes /\ Shape'
  BY DEF AutocompInv
<1>2. /\ input \in Nat /\ inPos \in Nat /\ inPos < InSize /\ input <= inPos
      /\ w \in Seq(Shown) /\ n = inPos - input
      /\ \A i \in 1 .. n : w[i] = buf[input + i - 1]
      /\ n > 0
  <2>1. Len(Input) > 0
    BY <1>1, WordTyped, EmptySeq
  <2> QED BY <1>1, <2>1, WordTyped
<1>3. /\ UNCHANGED <<input, asked, candidate>> /\ inPos' = inPos - 1
      /\ buf' = [buf EXCEPT ![inPos - 1] = "NUL"]
  <2>1. inPos > 0
    BY <1>2
  <2>2. inPos' = inPos - 1
    BY <2>1 DEF FinishDrop
  <2> QED BY <2>2 DEF FinishDrop, changes
<1>4. \A q \in 0 .. inPos - 2 : buf'[q] = buf[q]
  <2>1. \A q \in 0 .. inPos - 2 : q \in Memory /\ q # inPos - 1
    BY <1>2, Constants DEF Memory
  <2>2. buf \in [Memory -> Bytes]
    BY <1>1 DEF Shape
  <2> QED BY <1>3, <2>1, <2>2
<1>5. Input' = x
  BY <1>3 DEF Input
<1>6. /\ x \in Seq(Shown) /\ Len(x) = n - 1
      /\ \A i \in 1 .. n - 1 : x[i] = buf'[input + i - 1]
  <2> DEFINE e == inPos - 1
  <2>1. e \in Memory /\ buf' \in [Memory -> Bytes] /\ buf'[e] = "NUL"
        /\ \A q \in 0 .. e - 1 : buf'[q] \in Shown
    BY <1>1, <1>2, <1>3, Constants DEF Shape, Memory
  <2>2. input \in 0 .. e /\ e - input = n - 1
    BY <1>2
  <2> HIDE DEF e
  <2>3. /\ x \in Seq(Shown) /\ Len(x) = e - input
        /\ \A i \in 1 .. e - input : x[i] = buf'[input + i - 1]
    BY ONLY <2>1, <2>2, StringIs
  <2> QED BY <2>2, <2>3
<1>7. StemKept'
  <2>1. \A i \in 1 .. input : i - 1 \in 0 .. inPos - 2
    BY <1>2
  <2>2. input <= inPos'
    BY <1>2, <1>3
  <2> QED BY <1>3, <1>4, <2>1, <2>2 DEF StemKept
<1> HIDE DEF w, x, n
<1>8. \A i \in 1 .. n - 1 : x[i] = w[i]
  <2> TAKE i \in 1 .. n - 1
  <2>1. input + i - 1 \in 0 .. inPos - 2 /\ i \in 1 .. n
    BY <1>2
  <2> QED BY <1>2, <1>4, <1>6, <2>1
<1>9. Len(w) = n /\ w # << >>
  BY DEF w, n
<1> DEFINE f == Front(w)
<1>10. f \in Seq(Shown) /\ Len(f) = n - 1 /\ \A i \in 1 .. n - 1 : f[i] = w[i]
  BY <1>2, <1>9, FrontIs
<1> HIDE DEF f
<1>11. x \in Seq(Shown) /\ f \in Seq(Shown) /\ Len(x) = Len(f) /\ \A i \in 1 .. Len(x) : x[i] = f[i]
  BY <1>6, <1>8, <1>10
<1>12. x = f
  BY ONLY <1>11, SeqEqual
<1> QED BY <1>5, <1>7, <1>12 DEF w, f

-----------------------------------------------------------------------------
\* A step of the search leaves the line and what is offered alone.
Looking == Searching /\ UNCHANGED <<lists, state, prev, typed, input, changes, prevCount>>

LEMMA SameOffers ==
  ASSUME ListsInv, UNCHANGED <<lists, joined, gone>>
  PROVE  /\ Entries' = Entries /\ Once' = Once /\ Offered' = Offered /\ next' = next /\ head' = head
         /\ NamesIn(Entries)' = NamesIn(Entries) /\ NamesIn(Once)' = NamesIn(Once)
         /\ Steady' = Steady
<1>1. Entries' = Entries
  BY SameLists
<1>2. Once' = Once
  BY <1>1 DEF Once
<1>3. Offered' = Offered
  BY <1>1 DEF Offered
<1>4. NamesIn(Entries)' = NamesIn(Entries) /\ NamesIn(Once)' = NamesIn(Once)
  BY <1>1, <1>2 DEF NamesIn
<1> QED BY <1>1, <1>2, <1>3, <1>4 DEF lists, Steady

LEMMA OfferedIs ==
  ASSUME WalkTypes, ListsInv, NEW o \in Offered
  PROVE  \E n \in Nodes \cup {Cwd}, k \in Nat :
           /\ o = <<n, k>> /\ k <= Len(FilesOf[n]) /\ Len(FilesOf[n]) \in Nat
           /\ k = 0 => n \in Nodes /\ <<"children", n>> \in Entries
           /\ k # 0 /\ n # Cwd => n \in Nodes /\ <<"commands", n>> \in Entries
<1>1. PICK n, k : o = <<n, k>> /\ n \in Nodes \cup {Cwd} /\ k \in 0 .. Len(FilesOf[n])
  BY SlotIs DEF Offered
<1>2. Len(FilesOf[n]) \in Nat
  BY <1>1, NamesTyped
<1>3. IF k = 0 THEN <<"children", n>> \in Entries ELSE n = Cwd \/ <<"commands", n>> \in Entries
  BY <1>1 DEF Offered
<1>4. \A l, m : <<l, m>> \in Entries => m \in Nodes
  BY EntriesTyped
<1> QED BY <1>1, <1>2, <1>3, <1>4

\* The node looked at is one of those ahead.
LEMMA AheadIs ==
  ASSUME WalkTypes, NEW l, NEW s, Ahead(l, s)
  PROVE  /\ ToSet(s) \subseteq Nodes
         /\ node = NoNode => ToSet(s) = {}
         /\ node # NoNode => node \in ToSet(s)
<1>1. NoNode \notin Nodes /\ next \in [Nodes -> Nodes \cup {NoNode}]
  BY NodesAssumption DEF WalkTypes
<1>2. IsWalk(s, node, next, Nodes, NoNode) /\ s \in Seq(Nodes)
  BY DEF Ahead, Walk, IsWalk
<1>3. ToSet(s) \subseteq Nodes
  BY ONLY <1>2, Elements
<1>4. node # NoNode => node \in ToSet(s)
  BY ONLY <1>1, <1>2, RestOfWalk
<1>5. node = NoNode => ToSet(s) = {}
  BY ONLY <1>1, <1>2, NoWalk
<1> QED BY <1>3, <1>4, <1>5

\* The number stays when what is left of the offers that begin with the word
\* does.
LEMMA CountedSame ==
  ASSUME ListsInv, Looking, count' = count, NEW s, NEW t, Counted(s),
         \A o \in Matches(Input) : Waits(o[1], o[2], s) <=> Waits(o[1], o[2], t)'
  PROVE  Counted(t)'
<1>1. Offered' = Offered /\ Steady' = Steady
  BY SameOffers DEF Looking, changes
<1>2. Input' = Input /\ state' = state
  BY DEF Input, Looking, typed
<1>3. Matches(Input)' = Matches(Input)
  BY <1>1, <1>2 DEF Matches
<1>4. (Matches(Input) \ Left(t))' = Matches(Input) \ Left(s)
  <2>1. Matches(Input) \subseteq Offered
    BY DEF Matches
  <2> QED BY <1>1, <1>3, <2>1 DEF Left
<1> QED BY <1>1, <1>2, <1>4 DEF Counted

LEMMA StageEndsSearch ==
  ASSUME WalkTypes, ListsInv, StepsInv, StageEnds
  PROVE  StepsInv'
<1>1. /\ Looking /\ node = NoNode /\ stage' = stage + 1 /\ node' = FirstOfStage
      /\ index' = 0 /\ item' = 0 /\ count' = count /\ stage \in {0, 1}
  BY DEF StageEnds, Looking, tally, WalkTypes
<1>2. PICK s : SearchAt(s) /\ Counted(s)
  BY <1>1 DEF StepsInv, Looking
<1>3. index = 0 /\ Cwd # NoNode /\ Cwd \notin Nodes
  BY <1>1, AutocompAssumption DEF StepsInv, Looking, AtName
<1>4. ASSUME stage = 0 PROVE SearchAt(s)' /\ Counted(s)'
  <2>1. ToSet(s) = {}
    BY <1>1, <1>2, <1>4, AheadIs DEF SearchAt
  <2>2. stage' = 1 /\ node' = Cwd
    BY <1>1, <1>4 DEF FirstOfStage
  <2>3. ASSUME NEW o \in Offered PROVE Waits(o[1], o[2], s) <=> Waits(o[1], o[2], s)'
    <3>1. PICK n \in Nodes \cup {Cwd}, k \in Nat : o = <<n, k>>
      BY OfferedIs
    <3> QED BY <1>1, <1>3, <1>4, <2>1, <2>2, <3>1 DEF Waits, Behind
  <2>4. Counted(s)'
    BY <1>1, <1>2, <2>3, CountedSame DEF Matches
  <2> QED BY <2>2, <2>4 DEF SearchAt
<1>5. ASSUME stage = 1 PROVE \E t : SearchAt(t)' /\ Counted(t)'
  <2>1. PICK t : /\ Walk(t, head["children"], next)
                 /\ \A m : m \in ToSet(t) <=> <<"children", m>> \in Entries
    BY ListsAre, EntryIs DEF Lists
  <2>2. stage' = 2 /\ node' = head["children"]
    BY <1>1, <1>5 DEF FirstOfStage
  <2>3. Once' = Once /\ next' = next
    BY <1>1, SameOffers DEF Looking, changes
  <2>4. SearchAt(t)'
    BY <2>1, <2>2, <2>3 DEF SearchAt, Ahead, Once, Walk
  <2>5. ASSUME NEW o \in Offered PROVE Waits(o[1], o[2], s) <=> Waits(o[1], o[2], t)'
    <3>1. PICK n \in Nodes \cup {Cwd}, k \in Nat :
            o = <<n, k>> /\ (k = 0 => <<"children", n>> \in Entries)
      BY OfferedIs
    <3> QED BY <1>1, <1>3, <1>5, <2>1, <2>2, <3>1 DEF Waits, Behind
  <2>6. Counted(t)'
    BY <1>1, <1>2, <2>5, CountedSame DEF Matches
  <2> QED BY <2>4, <2>6
<1>6. \E t : SearchAt(t)' /\ Counted(t)'
  BY <1>1, <1>4, <1>5
<1> QED BY <1>1, <1>6 DEF StepsInv

LEMMA NodeEndsSearch ==
  ASSUME WalkTypes, ListsInv, StepsInv, NodeEnds
  PROVE  StepsInv'
<1>1. /\ Looking /\ node # NoNode /\ FilesThrough /\ item' = 0 /\ node' = NodeBehind
      /\ UNCHANGED <<stage, index, count>> /\ stage \in {0, 1}
  BY DEF NodeEnds, Looking, tally, FilesThrough, WalkTypes
<1>2. PICK s : SearchAt(s) /\ Counted(s)
  BY <1>1 DEF StepsInv, Looking
<1>3. /\ index = 0 /\ Cwd # NoNode /\ Cwd \notin Nodes /\ item \in Nat
      /\ item >= Len(FilesOf[node])
  BY <1>1, AutocompAssumption DEF StepsInv, Looking, AtName, WalkTypes, FilesThrough
<1>4. ASSUME stage = 0 PROVE \E t : SearchAt(t)' /\ Counted(t)'
  <2>1. Ahead("commands", s) /\ node' = next[node]
    BY <1>1, <1>2, <1>4 DEF SearchAt, NodeBehind
  <2>2. Once' = Once /\ next' = next
    BY <1>1, SameOffers DEF Looking, changes
  <2>3. PICK t : Ahead("commands", t)' /\ ToSet(t) = ToSet(s) \ {node}
    BY <1>1, <2>1, <2>2, NextAhead
  <2>4. ASSUME NEW o \in Offered PROVE Waits(o[1], o[2], s) <=> Waits(o[1], o[2], t)'
    <3>1. PICK n \in Nodes \cup {Cwd}, k \in Nat : o = <<n, k>> /\ k <= Len(FilesOf[n]) /\ Len(FilesOf[n]) \in Nat
      BY OfferedIs
    <3>2. n = node => ~(k > item)
      BY <1>3, <3>1
    <3> QED BY <1>1, <1>3, <1>4, <2>3, <3>1, <3>2 DEF Waits, Behind
  <2>5. Counted(t)'
    BY <1>1, <1>2, <2>4, CountedSame DEF Matches
  <2> QED BY <1>1, <1>4, <2>3, <2>5 DEF SearchAt
<1>5. ASSUME stage = 1 PROVE SearchAt(s)' /\ Counted(s)'
  <2>1. node = Cwd /\ node' = NoNode
    BY <1>1, <1>5 DEF NodeBehind, WalkTypes
  <2>2. ASSUME NEW o \in Offered PROVE Waits(o[1], o[2], s) <=> Waits(o[1], o[2], s)'
    <3>1. PICK n \in Nodes \cup {Cwd}, k \in Nat : o = <<n, k>> /\ k <= Len(FilesOf[n]) /\ Len(FilesOf[n]) \in Nat
      BY OfferedIs
    <3>2. n = node => ~(k > item)
      BY <1>3, <3>1
    <3> QED BY <1>1, <1>3, <1>5, <2>1, <3>1, <3>2 DEF Waits, Behind
  <2>3. Counted(s)'
    BY <1>1, <1>2, <2>2, CountedSame DEF Matches
  <2> QED BY <1>1, <1>5, <2>3 DEF SearchAt
<1>6. \E t : SearchAt(t)' /\ Counted(t)'
  BY <1>1, <1>4, <1>5
<1> QED BY <1>1, <1>3, <1>6 DEF StepsInv

\* The offer looked at.
Here == IF stage < 2 THEN <<node, item + 1>> ELSE <<node, 0>>

LEMMA HereIs ==
  ASSUME WalkTypes, ListsInv, AtName, NEW s, SearchAt(s)
  PROVE  /\ Name \in NamesIn(Once) /\ NameAt(Here) = Name
         /\ stage = 0 => node \in Nodes
         /\ stage # 1 => node \in ToSet(s)
         /\ Steady => Here \in Offered
<1>1. node # NoNode /\ stage \in {0, 1, 2} /\ item \in Nat /\ Cwd \notin Nodes
  BY AutocompAssumption DEF AtName, WalkTypes
<1>2. Name \in NamesIn(Once)
  BY NameOffered
<1>3. stage # 1 => node \in ToSet(s)
  BY <1>1, AheadIs DEF SearchAt
<1>4. Steady => Once = Entries
  BY DEF Steady, Once
<1>5. ASSUME stage < 2 PROVE NameAt(Here) = Name /\ (Steady => Here \in Offered)
  <2>1. Here = <<node, item + 1>> /\ item + 1 # 0
    BY <1>1, <1>5 DEF Here
  <2>2. NameAt(Here) = Name
    BY <1>5, <2>1 DEF NameAt, Name
  <2>3. node \in Nodes \cup {Cwd}
    BY <1>1 DEF WalkTypes
  <2>4. item + 1 \in 0 .. Len(FilesOf[node])
    BY <1>1, <1>5, <2>3, NamesTyped DEF AtName, FilesThrough
  <2>5. <<node, item + 1>> \in Slots
    BY <2>3, <2>4, SlotIs
  <2>6. stage = 0 => <<"commands", node>> \in Once
    BY <1>3 DEF SearchAt, Ahead
  <2>7. stage = 1 => node = Cwd
    BY <1>1 DEF WalkTypes
  <2>8. stage = 0 \/ stage = 1
    BY <1>1, <1>5
  <2>9. Steady => <<node, item + 1>> \in Offered
    BY <1>4, <2>1, <2>5, <2>6, <2>7, <2>8 DEF Offered
  <2> QED BY <2>1, <2>2, <2>9
<1>6. ASSUME ~(stage < 2) PROVE NameAt(Here) = Name /\ (Steady => Here \in Offered)
  <2>1. Here = <<node, 0>> /\ stage = 2 /\ node \in Nodes
    BY <1>1, <1>6 DEF Here, WalkTypes
  <2>2. NameAt(Here) = Name
    BY <1>6, <2>1 DEF NameAt, Name
  <2>3. <<node, 0>> \in Slots
    BY <2>1, SlotIs, NamesTyped
  <2>4. <<"children", node>> \in Once
    BY <1>3, <2>1 DEF SearchAt, Ahead
  <2> QED BY <1>4, <2>1, <2>2, <2>3, <2>4 DEF Offered
<1>7. stage = 0 => node \in Nodes
  BY <1>1 DEF WalkTypes
<1> QED BY <1>2, <1>3, <1>5, <1>6, <1>7

LEMMA AdvanceSearch ==
  ASSUME WalkTypes, ListsInv, StepsInv, Skip \/ Pass
  PROVE  StepsInv'
<1>1. /\ Looking /\ AtName /\ Advance /\ index' = 0 /\ UNCHANGED <<stage, count>>
      /\ IsPrefix(Input, Name) => index = 2
  BY DEF Skip, Pass, Advance, AtName, Looking, tally, typed, changes
<1>2. PICK s : SearchAt(s) /\ Counted(s)
  BY <1>1 DEF StepsInv, Looking
<1>3. /\ index \in 0 .. 2 /\ Cwd \notin Nodes /\ item \in Nat /\ stage \in {0, 1, 2}
      /\ node # NoNode
  BY <1>1, AutocompAssumption DEF StepsInv, Looking, AtName, WalkTypes
<1>4. NameAt(Here) = Name /\ (stage = 0 => node \in Nodes) /\ (stage # 1 => node \in ToSet(s))
  BY <1>1, <1>2, HereIs
<1>5. ASSUME NEW o \in Matches(Input), index = 0 PROVE o # Here
  BY <1>1, <1>4, <1>5 DEF Matches
<1>6. ASSUME stage < 2 PROVE SearchAt(s)' /\ Counted(s)'
  <2>1. item' = item + 1 /\ node' = node /\ Here = <<node, item + 1>>
    BY <1>1, <1>6 DEF Advance, Here
  <2>2. Once' = Once /\ next' = next
    BY <1>1, SameOffers DEF Looking, changes
  <2>3. SearchAt(s)'
    BY <1>1, <1>2, <2>1, <2>2 DEF SearchAt, Ahead, Walk
  <2>4. ASSUME NEW o \in Matches(Input) PROVE Waits(o[1], o[2], s) <=> Waits(o[1], o[2], s)'
    <3>1. o \in Offered
      BY DEF Matches
    <3>2. PICK n \in Nodes \cup {Cwd}, k \in Nat : o = <<n, k>>
      BY <3>1, OfferedIs
    <3>3. index = 0 => n # node \/ k # item + 1
      BY <1>5, <2>1, <3>2
    <3>4. n = node => (k > Behind <=> k > item + 1)
      BY <1>3, <3>2, <3>3 DEF Behind
    <3>5. Behind' = item + 1
      BY <1>1, <2>1 DEF Behind
    <3> QED BY <1>1, <1>3, <1>4, <1>6, <2>1, <3>2, <3>4, <3>5 DEF Waits
  <2>5. Counted(s)'
    BY <1>1, <1>2, <2>4, CountedSame
  <2> QED BY <2>3, <2>5
<1>7. ASSUME stage = 2 PROVE \E t : SearchAt(t)' /\ Counted(t)'
  <2>1. node' = next[node] /\ Ahead("children", s) /\ Here = <<node, 0>>
    BY <1>1, <1>2, <1>7 DEF Advance, SearchAt, Here
  <2>2. Once' = Once /\ next' = next
    BY <1>1, SameOffers DEF Looking, changes
  <2>3. PICK t : Ahead("children", t)' /\ ToSet(t) = ToSet(s) \ {node}
    BY <1>3, <2>1, <2>2, NextAhead
  <2>4. ASSUME NEW o \in Matches(Input) PROVE Waits(o[1], o[2], s) <=> Waits(o[1], o[2], t)'
    <3>1. o \in Offered
      BY DEF Matches
    <3>2. PICK n \in Nodes \cup {Cwd}, k \in Nat : o = <<n, k>>
      BY <3>1, OfferedIs
    <3>3. index = 0 => n # node \/ k # 0
      BY <1>5, <2>1, <3>2
    <3> QED BY <1>1, <1>3, <1>7, <2>3, <3>2, <3>3 DEF Waits
  <2>5. Counted(t)'
    BY <1>1, <1>2, <2>4, CountedSame
  <2> QED BY <1>1, <1>7, <2>3, <2>5 DEF SearchAt
<1>8. \E t : SearchAt(t)' /\ Counted(t)'
  BY <1>3, <1>6, <1>7
<1> QED BY <1>1, <1>8 DEF StepsInv

\* Counting an offer is one less to count.
LEMMA CountSearch ==
  ASSUME WalkTypes, ListsInv, StepsInv, Count
  PROVE  StepsInv'
<1>1. /\ Looking /\ AtName /\ IsPrefix(Input, Name) /\ index = 0 /\ index' = 1
      /\ count' = count + 1 /\ UNCHANGED <<stage, node, item, state>>
  BY DEF Count, AtName, Looking, typed, changes
<1>2. PICK s : SearchAt(s) /\ Counted(s)
  BY <1>1 DEF StepsInv, Looking
<1>3. Cwd \notin Nodes /\ item \in Nat /\ stage \in {0, 1, 2}
  BY AutocompAssumption DEF WalkTypes
<1>4. AtName'
  BY <1>1 DEF AtName, Searching, FilesThrough
<1>5. /\ Once' = Once /\ next' = next /\ Offered' = Offered /\ Steady' = Steady
      /\ Input' = Input
  BY <1>1, SameOffers DEF Looking, changes, typed, Input
<1>6. SearchAt(s)'
  BY <1>1, <1>2, <1>5 DEF SearchAt, Ahead, Walk
<1>7. ASSUME Steady, state # "PRINT" PROVE count' = Cardinality(Matches(Input) \ Left(s))'
  <2>1. /\ NameAt(Here) = Name /\ (stage = 0 => node \in Nodes)
        /\ (stage # 1 => node \in ToSet(s)) /\ Here \in Offered
    BY <1>1, <1>2, <1>7, HereIs
  <2>2. Matches(Input)' = Matches(Input)
    BY <1>5 DEF Matches
  <2>3. Behind = item /\ Behind' = item + 1
    BY <1>1 DEF Behind
  <2>4. ASSUME NEW o \in Offered
        PROVE  Waits(o[1], o[2], s)' <=> Waits(o[1], o[2], s) /\ o # Here
    <3>1. PICK n \in Nodes \cup {Cwd}, k \in Nat : o = <<n, k>>
      BY OfferedIs
    <3>2. CASE stage < 2
      <4>1. Here = <<node, item + 1>>
        BY <3>2 DEF Here
      <4>2. k > item + 1 <=> k > item /\ k # item + 1
        BY <1>3, <3>1
      <4>3. stage = 1 => node \in {Cwd, NoNode} /\ node # NoNode
        BY <1>1 DEF WalkTypes, AtName
      <4> QED BY <1>1, <1>3, <2>1, <2>3, <3>1, <3>2, <4>1, <4>2, <4>3 DEF Waits
    <3>3. CASE stage = 2
      <4>1. Here = <<node, 0>>
        BY <3>3 DEF Here
      <4> QED BY <1>1, <1>3, <2>1, <3>1, <3>3, <4>1 DEF Waits
    <3> QED BY <1>3, <3>2, <3>3
  <2>5. Waits(Here[1], Here[2], s)
    <3>1. CASE stage < 2
      <4>1. Here = <<node, item + 1>> /\ item + 1 # 0 /\ item + 1 > item
        BY <1>3, <3>1 DEF Here
      <4>2. stage = 1 => node \in {Cwd, NoNode} /\ node # NoNode
        BY <1>1 DEF WalkTypes, AtName
      <4> QED BY <1>3, <2>1, <2>3, <3>1, <4>1, <4>2 DEF Waits
    <3>2. CASE stage = 2
      <4>1. Here = <<node, 0>>
        BY <3>2 DEF Here
      <4> QED BY <1>1, <2>1, <3>2, <4>1 DEF Waits
    <3> QED BY <1>3, <3>1, <3>2
  <2>6. Here \in Matches(Input)
    BY <1>1, <2>1 DEF Matches
  <2> DEFINE A == Matches(Input) \ Left(s)
             h == Here
  <2>7. (Matches(Input) \ Left(s))' = A \cup {h} /\ h \notin A
    <3>1. Matches(Input) \subseteq Offered
      BY DEF Matches
    <3>2. Left(s)' = {o \in Offered : Waits(o[1], o[2], s)'}
      BY <1>5 DEF Left
    <3>3. \A o \in Matches(Input) : o \in Left(s)' <=> o \in Left(s) /\ o # h
      BY <2>4, <3>1, <3>2 DEF Left
    <3>4. h \in Left(s)
      BY <2>1, <2>5 DEF Left
    <3> QED BY <2>2, <2>6, <3>3, <3>4
  <2>8. count = Cardinality(A)
    BY <1>2, <1>7 DEF Counted
  <2>9. IsFiniteSet(A)
    <3>1. A \subseteq Matches(Input)
      OBVIOUS
    <3> QED BY <3>1, MatchesFinite, FS_Subset
  <2> DEFINE B == (Matches(Input) \ Left(s))'
  <2>10. B = A \cup {h}
    BY <2>7
  <2> HIDE DEF A, h, B
  <2>11. Cardinality(A \cup {h}) = Cardinality(A) + 1
    BY ONLY <2>7, <2>9, FS_AddElement
  <2>12. count' = Cardinality(B)
    BY <1>1, <2>8, <2>10, <2>11
  <2> QED BY <2>12 DEF B
<1>8. Counted(s)'
  BY <1>1, <1>5, <1>7 DEF Counted
<1> QED BY <1>1, <1>4, <1>6, <1>8 DEF StepsInv

LEMMA EndRowSearch ==
  ASSUME WalkTypes, ListsInv, StepsInv, EndRow
  PROVE  StepsInv'
<1>1. /\ Looking /\ AtName /\ index = 1 /\ index' = 2 /\ count' = count
      /\ UNCHANGED <<stage, node, item>>
  BY DEF EndRow, AtName, Looking, tally, typed, changes
<1>2. PICK s : SearchAt(s) /\ Counted(s)
  BY <1>1 DEF StepsInv, Looking
<1>3. AtName'
  BY <1>1 DEF AtName, Searching, FilesThrough, Looking
<1>4. Once' = Once /\ next' = next
  BY <1>1, SameOffers DEF Looking, changes
<1>5. SearchAt(s)'
  BY <1>1, <1>2, <1>4 DEF SearchAt, Ahead, Walk
<1>6. \A o \in Matches(Input) : Waits(o[1], o[2], s) <=> Waits(o[1], o[2], s)'
  BY <1>1 DEF Waits, Behind
<1>7. Counted(s)'
  BY <1>1, <1>2, <1>6, CountedSame
<1> QED BY <1>1, <1>3, <1>5, <1>7 DEF StepsInv

\* The search begins with everything ahead of it.
LEMMA PreparedSearch ==
  ASSUME WalkTypes, ListsInv, PrepareCandidates, UNCHANGED <<lists, joined, gone>>
  PROVE  StepsInv'
<1>1. count' = 0 /\ stage' = 0 /\ node' = head["commands"] /\ index' = 0 /\ item' = 0
  BY DEF PrepareCandidates
<1>2. Once' = Once /\ next' = next /\ Offered' = Offered /\ Entries' = Entries
  BY SameOffers
<1>3. PICK t : /\ Walk(t, head["commands"], next)
               /\ \A m : m \in ToSet(t) <=> <<"commands", m>> \in Entries
  BY ListsAre, EntryIs DEF Lists
<1>4. SearchAt(t)'
  BY <1>1, <1>2, <1>3 DEF SearchAt, Ahead, Once, Walk
<1>5. Left(t)' = Offered
  <2>1. ASSUME NEW o \in Offered PROVE Waits(o[1], o[2], t)'
    <3>1. PICK n \in Nodes \cup {Cwd}, k \in Nat :
            o = <<n, k>> /\ (k # 0 /\ n # Cwd => <<"commands", n>> \in Entries)
      BY OfferedIs
    <3> QED BY <1>1, <1>3, <3>1 DEF Waits, Behind
  <2> QED BY <1>2, <2>1 DEF Left
<1>6. (Matches(Input) \ Left(t))' = {}
  BY <1>2, <1>5 DEF Matches
<1>7. Counted(t)'
  <2>1. Cardinality({}) = 0
    BY FS_EmptySet
  <2> QED BY <1>1, <1>6, <2>1 DEF Counted
<1> QED BY <1>1, <1>4, <1>7 DEF StepsInv

\* What is linked and unlinked meanwhile leaves the search its way.
LEMMA ChangedSearch ==
  ASSUME StepsInv, Changed, ~Steady', UNCHANGED <<state, walk>>
  PROVE  StepsInv'
<1>1. UNCHANGED <<stage, node, index, item>>
  BY DEF walk
<1>2. ASSUME Searching
      PROVE  index \in 0 .. 2 /\ (index > 0 => AtName') /\ \E t : SearchAt(t)' /\ Counted(t)'
  <2>1. PICK s : SearchAt(s)
    BY <1>2 DEF StepsInv
  <2>2. index > 0 => AtName'
    BY <1>1, <1>2 DEF StepsInv, AtName, Searching, FilesThrough
  <2>3. \E t : SearchAt(t)'
    <3>1. CASE stage = 0
      <4>1. PICK t : Ahead("commands", t)'
        BY <2>1, <3>1 DEF Changed, SearchAt, Lists
      <4> QED BY <1>1, <3>1, <4>1 DEF SearchAt
    <3>2. CASE stage = 2
      <4>1. PICK t : Ahead("children", t)'
        BY <2>1, <3>2 DEF Changed, SearchAt, Lists
      <4> QED BY <1>1, <3>2, <4>1 DEF SearchAt
    <3>3. CASE stage # 0 /\ stage # 2
      BY <1>1, <3>3 DEF SearchAt
    <3> QED BY <3>1, <3>2, <3>3
  <2> QED BY <1>2, <2>2, <2>3 DEF Counted, StepsInv
<1> QED BY <1>1, <1>2 DEF StepsInv, Searching

-----------------------------------------------------------------------------
\* A step that looks at names keeps all of it.
LEMMA LookingKept ==
  ASSUME ListsInv, CompletionInv, Looking, StepsInv',
         UNCHANGED <<count, candidate>> \/ (count' = count + 1 /\ Found')
  PROVE  CompletionInv'
<1>1. /\ Offered' = Offered /\ Once' = Once /\ Steady' = Steady
      /\ NamesIn(Entries)' = NamesIn(Entries) /\ NamesIn(Once)' = NamesIn(Once)
  BY SameOffers DEF Looking, changes
<1>2. /\ Input' = Input /\ AskedWord' = AskedWord
      /\ UNCHANGED <<state, prev, buf, inPos, input, asked, prevCount>>
      /\ state \in {"COUNT", "OPTIMISE", "PRINT"}
  BY DEF Input, AskedWord, Looking, typed, changes, Searching
<1>3. SplitInv'
  BY <1>2 DEF CompletionInv, SplitInv, StemKept
<1>4. WordInv'
  <2>1. Found => Found' \/ ~UNCHANGED <<count, candidate>>
    BY <1>1, <1>2 DEF Found
  <2>2. Settled' => Settled
    BY <1>2 DEF Settled, In, Finishing
  <2>3. Settled' => Input' \in C!Partly(AskedWord', NamesIn(Once)')
    BY <1>1, <1>2, <2>2 DEF CompletionInv, WordInv
  <2>4. In("COUNT")' => count' \in Nat /\ (count' > 0 => Found')
    BY <1>2, <2>1 DEF CompletionInv, WordInv, In, Finishing
  <2>5. In("OPTIMISE")' => Found' /\ Input' # << >> /\ IsPrefix(AskedWord', Front(Input'))
    BY <1>2, <2>1 DEF CompletionInv, WordInv, In, Finishing
  <2> QED BY <1>2, <2>3, <2>4, <2>5 DEF CompletionInv, WordInv, In, Finishing
<1>5. CountInv'
  <2>1. \A w : Matches(w)' = Matches(w)
    BY <1>1 DEF Matches
  <2>2. /\ Matches(Front(Input))' = Matches(Front(Input))
        /\ Matches(AskedWord)' = Matches(AskedWord)
    BY <1>1, <1>2 DEF Matches
  <2>3. In("OPTIMISE")' => In("OPTIMISE")
    BY <1>2 DEF In, Finishing
  <2>4. Settled' => Settled
    BY <1>2 DEF Settled, In, Finishing
  <2>5. ~Finishing("COUNT")' /\ ~Finishing("OPTIMISE")'
    BY <1>2 DEF Finishing
  <2>6. C!Completed(AskedWord, NamesIn(Entries))' = C!Completed(AskedWord, NamesIn(Entries))
    BY <1>1, <1>2
  <2> QED BY <1>1, <1>2, <2>2, <2>3, <2>4, <2>5, <2>6 DEF CompletionInv, CountInv
<1> QED BY <1>3, <1>4, <1>5 DEF CompletionInv

\* At the end nothing is left to be counted.
LEMMA SearchEndsKept ==
  ASSUME WalkTypes, ListsInv, CompletionInv, SearchEnds
  PROVE  CompletionInv'
<1>1. /\ Searching /\ node = NoNode /\ stage = 2 /\ state' = "FINISH" /\ prev' = state
      /\ UNCHANGED <<lists, input, buf, inPos, asked, joined, gone, count, prevCount, candidate>>
      /\ state \in {"COUNT", "OPTIMISE", "PRINT"}
  BY DEF SearchEnds, Searching, tally, typed, changes
<1>2. /\ Offered' = Offered /\ Once' = Once /\ Steady' = Steady
      /\ NamesIn(Entries)' = NamesIn(Entries) /\ NamesIn(Once)' = NamesIn(Once)
  BY <1>1, SameOffers
<1>3. Input' = Input /\ AskedWord' = AskedWord
  BY <1>1 DEF Input, AskedWord
<1>4. SplitInv'
  BY <1>1 DEF CompletionInv, SplitInv, StemKept
<1>5. /\ In("COUNT")' => In("COUNT")
      /\ In("OPTIMISE")' => In("OPTIMISE")
      /\ Settled' => Settled
      /\ state' # "START"
  BY <1>1 DEF In, Settled, Finishing
<1>6. Found => Found'
  BY <1>1, <1>2, <1>3 DEF Found
<1>7. WordInv'
  <2>1. Settled' => Input' \in C!Partly(AskedWord', NamesIn(Once)')
    BY <1>2, <1>3, <1>5 DEF CompletionInv, WordInv
  <2>2. In("COUNT")' => Input' = AskedWord' /\ count' \in Nat /\ (count' > 0 => Found')
    BY <1>1, <1>3, <1>5, <1>6 DEF CompletionInv, WordInv
  <2>3. In("OPTIMISE")' => Found' /\ Input' # << >> /\ IsPrefix(AskedWord', Front(Input'))
    BY <1>3, <1>5, <1>6 DEF CompletionInv, WordInv
  <2> QED BY <1>5, <2>1, <2>2, <2>3 DEF WordInv
<1>8. ASSUME Steady, state # "PRINT" PROVE count = Cardinality(Matches(Input))
  <2>1. PICK s : SearchAt(s) /\ Counted(s)
    BY <1>1 DEF CompletionInv, StepsInv
  <2>2. ToSet(s) = {}
    BY <1>1, <2>1, AheadIs DEF SearchAt
  <2>3. Left(s) = {}
    <3>1. ASSUME NEW o \in Offered PROVE ~Waits(o[1], o[2], s)
      BY <1>1, <2>2 DEF Waits
    <3> QED BY <3>1 DEF Left
  <2> QED BY <1>8, <2>1, <2>3 DEF Counted
<1>9. CountInv'
  <2>1. /\ Matches(Input)' = Matches(Input)
        /\ Matches(Front(Input))' = Matches(Front(Input))
        /\ Matches(AskedWord)' = Matches(AskedWord)
    BY <1>2, <1>3 DEF Matches
  <2>2. C!Completed(AskedWord, NamesIn(Entries))' = C!Completed(AskedWord, NamesIn(Entries))
    BY <1>2, <1>3
  <2>3. Finishing("COUNT")' \/ Finishing("OPTIMISE")' => state # "PRINT"
    BY <1>1 DEF Finishing
  <2> QED BY <1>1, <1>2, <1>3, <1>5, <1>8, <2>1, <2>2, <2>3 DEF CompletionInv, CountInv
<1> QED BY <1>1, <1>4, <1>7, <1>9 DEF CompletionInv, StepsInv, Searching

\* What is known when the word is to be extended or is found.
Extending ==
  /\ state = "FINISH" /\ StemKept /\ Found /\ IsPrefix(AskedWord, Input)
  /\ Steady => count = Cardinality(Matches(Input)) /\ Matches(AskedWord) = Matches(Input)

LEMMA ExtendCompletes ==
  ASSUME Fits, AutocompInv, ListsInv, Extending, NEW before, Extend(before)
  PROVE  CompletionInv'
<1>1. /\ state' = "OPTIMISE" /\ prevCount' = count /\ PrepareCandidates
      /\ UNCHANGED <<lists, candidate, asked, joined, gone>>
  BY DEF Extend, changes
<1>2. state \notin Idle /\ WalkTypes
  BY DEF Extending, Idle, AutocompInv
<1>3. /\ StemKept' /\ Input' # << >> /\ Front(Input') = Input
      /\ IsPrefix(Input', candidate)
  BY <1>2, WordExtended DEF Extending, Found
<1>4. /\ Offered' = Offered /\ Steady' = Steady /\ NamesIn(Once)' = NamesIn(Once)
  BY <1>1, SameOffers
<1>5. AskedWord' = AskedWord
  BY <1>1 DEF AskedWord
<1>6. SplitInv'
  BY <1>1, <1>3 DEF SplitInv
<1>7. WordInv'
  <2>1. Found'
    BY <1>1, <1>3, <1>4 DEF Found, Extending
  <2>2. IsPrefix(AskedWord', Front(Input'))
    BY <1>3, <1>5 DEF Extending
  <2> QED BY <1>1, <1>3, <2>1, <2>2 DEF WordInv, In, Settled, Finishing
<1>8. StepsInv'
  BY <1>1, <1>2, PreparedSearch
<1>9. CountInv'
  <2>1. /\ Matches(Front(Input))' = Matches(Input)
        /\ Matches(AskedWord)' = Matches(AskedWord)
    BY <1>3, <1>4, <1>5 DEF Matches
  <2> QED BY <1>1, <1>4, <2>1 DEF CountInv, Extending, In, Settled, Finishing
<1> QED BY <1>6, <1>7, <1>8, <1>9 DEF CompletionInv

\* The offers are named in Entries, when nothing changes.
LEMMA CandidateOffered ==
  ASSUME WalkTypes, ListsInv, Steady, Found
  PROVE  \E o \in Offered : NameAt(o) = candidate
<1>1. Once = Entries
  BY DEF Once, Steady
<1>2. NamesIn(Entries) = {NameAt(o) : o \in Offered}
  BY NamesOffered
<1> QED BY <1>1, <1>2 DEF Found

LEMMA ExtendedCompletes ==
  ASSUME Fits, AutocompInv, ListsInv, Extending, NEW before, Extended(before)
  PROVE  CompletionInv'
<1>1. /\ state' = "RECALL_SUFFIX" /\ Len(Input) >= Len(candidate)
      /\ UNCHANGED <<lists, candidate, input, buf, inPos, asked, joined, gone>>
  BY DEF Extended, typed, changes
<1>2. /\ Steady' = Steady /\ NamesIn(Once)' = NamesIn(Once) /\ NamesIn(Entries)' = NamesIn(Entries)
  BY <1>1, SameOffers
<1>3. AskedWord' = AskedWord /\ Input' = Input
  BY <1>1 DEF AskedWord, Input
<1>4. /\ Input \in Seq(Shown) /\ AskedWord \in Seq(Shown) /\ candidate \in Seq(Shown)
      /\ WalkTypes /\ IsPrefix(Input, candidate) /\ IsPrefix(AskedWord, Input)
      /\ candidate \in NamesIn(Once)
  BY WordTyped DEF AutocompInv, Extending, Found
<1>5. Input \in C!Partly(AskedWord, NamesIn(Once))
  BY <1>4, PartlyIs
<1>6. ASSUME Steady PROVE Input = C!Completed(AskedWord, NamesIn(Entries))
  <2>1. Input = candidate
    BY <1>1, <1>4, SamePrefix
  <2>2. PICK o \in Offered : NameAt(o) = candidate
    BY <1>4, <1>6, CandidateOffered DEF Extending
  <2>3. o \in Matches(AskedWord) /\ Matches(AskedWord) \subseteq Matches(Input)
    BY <1>4, <1>6, <2>1, <2>2 DEF Matches, Extending
  <2> QED BY <1>4, <2>1, <2>2, <2>3, CompletedAll
<1>7. SplitInv' /\ StepsInv'
  BY <1>1 DEF SplitInv, StepsInv, Searching, StemKept, Extending
<1>8. WordInv'
  <2>1. Input' \in C!Partly(AskedWord', NamesIn(Once)')
    BY <1>2, <1>3, <1>5
  <2> QED BY <1>1, <2>1 DEF WordInv, In, Finishing
<1>9. CountInv'
  <2>1. Steady' => Input' = C!Completed(AskedWord', NamesIn(Entries)')
    BY <1>2, <1>3, <1>6
  <2> QED BY <1>1, <2>1 DEF CountInv, In, Finishing
<1> QED BY <1>7, <1>8, <1>9 DEF CompletionInv

\* While a byte is tried.
Tried == Finishing("OPTIMISE") /\ CompletionInv

LEMMA TriedIs ==
  ASSUME Fits, AutocompInv, ListsInv, Tried
  PROVE  /\ StemKept /\ Found /\ Input # << >> /\ IsPrefix(AskedWord, Front(Input))
         /\ Input \in Seq(Shown) /\ AskedWord \in Seq(Shown) /\ candidate \in Seq(Shown)
         /\ Front(Input) \in Seq(Shown) /\ IsPrefix(Front(Input), Input)
         /\ IsPrefix(AskedWord, Input) /\ IsPrefix(Front(Input), candidate)
         /\ Matches(Input) \subseteq Matches(Front(Input))
         /\ Steady => /\ count = Cardinality(Matches(Input))
                      /\ prevCount = Cardinality(Matches(Front(Input)))
                      /\ Matches(AskedWord) = Matches(Front(Input))
<1>1. /\ StemKept /\ Found /\ Input # << >> /\ IsPrefix(AskedWord, Front(Input))
      /\ Steady => /\ count = Cardinality(Matches(Input))
                   /\ prevCount = Cardinality(Matches(Front(Input)))
                   /\ Matches(AskedWord) = Matches(Front(Input))
  BY DEF Tried, CompletionInv, SplitInv, WordInv, CountInv, Finishing, In
<1>2. /\ Input \in Seq(Shown) /\ AskedWord \in Seq(Shown) /\ candidate \in Seq(Shown) /\ WalkTypes
  BY <1>1, WordTyped DEF AutocompInv
<1> DEFINE x == Input
           f == Front(x)
<1>3. f \in Seq(Shown) /\ IsPrefix(f, x)
  BY <1>1, <1>2, FrontIs
<1>4. IsPrefix(AskedWord, f) /\ IsPrefix(x, candidate)
  BY <1>1 DEF Found
<1> HIDE DEF f, x
<1>5. IsPrefix(AskedWord, x) /\ IsPrefix(f, candidate)
  <2>1. x \in Seq(Shown)
    BY <1>2 DEF x
  <2>2. IsPrefix(AskedWord, x)
    BY <1>2, <1>3, <1>4, <2>1, PrefixOfPrefix
  <2>3. IsPrefix(f, candidate)
    BY <1>2, <1>3, <1>4, <2>1, PrefixOfPrefix
  <2> QED BY <2>2, <2>3
<1>6. Matches(x) \subseteq Matches(f)
  BY <1>2, <1>3, MatchesShrink DEF x
<1> QED BY <1>1, <1>2, <1>3, <1>5, <1>6 DEF f, x

\* No name was lost: all begin with the byte tried too.
LEMMA NoneLost ==
  ASSUME Fits, AutocompInv, ListsInv, Tried, ~Lost
  PROVE  Extending
<1>1. ASSUME Steady PROVE Matches(AskedWord) = Matches(Input)
  <2> DEFINE A == Matches(Front(Input))
             B == Matches(Input)
  <2>1. /\ B \subseteq A /\ count = Cardinality(B) /\ prevCount = Cardinality(A)
        /\ Matches(AskedWord) = A
    BY <1>1, TriedIs
  <2>2. IsFiniteSet(A) /\ Cardinality(A) \in Nat /\ Cardinality(B) \in Nat
    BY MatchesFinite
  <2>3. ~(count < prevCount)
    BY DEF Lost
  <2> HIDE DEF A, B
  <2>4. /\ Cardinality(B) <= Cardinality(A)
        /\ Cardinality(A) = Cardinality(B) => A = B
    BY ONLY <2>1, <2>2, FS_Subset
  <2>5. A = B
    BY <2>1, <2>2, <2>3, <2>4
  <2> QED BY <2>1, <2>5 DEF A, B
<1> QED BY <1>1, TriedIs DEF Extending, Tried, Finishing

\* One was lost: the byte does not belong to all.
LEMMA DropCompletes ==
  ASSUME Fits, AutocompInv, AutocompInv', ListsInv, CompletionInv, FinishDrop
  PROVE  CompletionInv'
<1>1. /\ Tried /\ Lost /\ state' = "RECALL_SUFFIX"
      /\ UNCHANGED <<lists, asked, joined, gone, candidate>>
  BY DEF Tried, FinishDrop, changes
<1>2. /\ StemKept /\ Found /\ Input # << >> /\ IsPrefix(AskedWord, Front(Input))
      /\ Input \in Seq(Shown) /\ AskedWord \in Seq(Shown) /\ candidate \in Seq(Shown)
      /\ Front(Input) \in Seq(Shown) /\ IsPrefix(Front(Input), candidate)
      /\ IsPrefix(AskedWord, Input)
      /\ Matches(Input) \subseteq Matches(Front(Input))
      /\ Steady => /\ count = Cardinality(Matches(Input))
                   /\ prevCount = Cardinality(Matches(Front(Input)))
                   /\ Matches(AskedWord) = Matches(Front(Input))
      /\ WalkTypes
  BY <1>1, TriedIs DEF AutocompInv
<1>3. StemKept' /\ Input' = Front(Input)
  BY <1>2, WordCut
<1>4. Steady' = Steady /\ NamesIn(Once)' = NamesIn(Once) /\ NamesIn(Entries)' = NamesIn(Entries)
  BY <1>1, SameOffers
<1>5. AskedWord' = AskedWord
  BY <1>1 DEF AskedWord
<1>6. Front(Input) \in C!Partly(AskedWord, NamesIn(Once))
  BY <1>2, PartlyIs DEF Found
<1>7. ASSUME Steady PROVE Front(Input) = C!Completed(AskedWord, NamesIn(Entries))
  <2> DEFINE A == Matches(Front(Input))
             B == Matches(Input)
  <2>1. B \subseteq A /\ Cardinality(B) < Cardinality(A) /\ Matches(AskedWord) = A
    BY <1>1, <1>2, <1>7 DEF Lost
  <2>2. Cardinality(A) \in Nat
    BY MatchesFinite
  <2> HIDE DEF A, B
  <2>3. A # B
    BY <2>1, <2>2
  <2>4. PICK p \in A : p \notin B
    BY <2>1, <2>3
  <2>5. PICK o \in Offered : NameAt(o) = candidate
    BY <1>2, <1>7, CandidateOffered
  <2>6. IsPrefix(Input, NameAt(o)) /\ o \in B
    BY <1>2, <2>5 DEF Found, Matches, B
  <2>7. o \in Matches(AskedWord)
    BY <2>1, <2>6
  <2>8. p \in Matches(AskedWord) /\ p \notin Matches(Input) /\ Matches(AskedWord) = Matches(Front(Input))
    BY <2>1, <2>4 DEF A, B
  <2> QED BY <1>2, <2>6, <2>7, <2>8, CompletedFront
<1>8. SplitInv' /\ StepsInv'
  BY <1>1, <1>3 DEF SplitInv, StepsInv, Searching
<1>9. WordInv'
  <2>1. Input' \in C!Partly(AskedWord', NamesIn(Once)')
    BY <1>3, <1>4, <1>5, <1>6
  <2> QED BY <1>1, <2>1 DEF WordInv, In, Finishing
<1>10. CountInv'
  <2>1. Steady' => Input' = C!Completed(AskedWord', NamesIn(Entries)')
    BY <1>3, <1>4, <1>5, <1>7
  <2> QED BY <1>1, <2>1 DEF CountInv, In, Finishing
<1> QED BY <1>8, <1>9, <1>10 DEF CompletionInv

\* In the editor there is nothing to keep.
LEMMA EditorKept ==
  ASSUME state' = "READ_CHAR", Steady'
  PROVE  CompletionInv'
BY DEF CompletionInv, SplitInv, WordInv, StepsInv, CountInv, In, Settled, Finishing, Searching

\* A word that is completed stays so while the candidates are listed and the
\* line is recalled.
LEMMA SettledKept ==
  ASSUME WalkTypes, ListsInv, CompletionInv, BeginPrint \/ FinishPrint \/ Prompt
  PROVE  CompletionInv'
<1>1. /\ UNCHANGED <<lists, input, buf, inPos, asked, joined, gone>>
      /\ Settled /\ state \notin {"READ_CHAR", "PREPARE"}
      /\ state' \in {"PRINT", "PROMPT", "RECALL"}
  BY DEF BeginPrint, FinishPrint, Prompt, typed, changes, Settled, In, Finishing
<1>2. /\ Steady' = Steady /\ NamesIn(Once)' = NamesIn(Once) /\ NamesIn(Entries)' = NamesIn(Entries)
  BY <1>1, SameOffers
<1>3. Input' = Input /\ AskedWord' = AskedWord
  BY <1>1 DEF Input, AskedWord
<1>4. SplitInv'
  BY <1>1 DEF CompletionInv, SplitInv, StemKept
<1>5. WordInv'
  <2>1. Input' \in C!Partly(AskedWord', NamesIn(Once)')
    BY <1>1, <1>2, <1>3 DEF CompletionInv, WordInv
  <2> QED BY <1>1, <2>1 DEF WordInv, In, Finishing
<1>6. StepsInv'
  <2>1. CASE BeginPrint
    BY <1>1, <2>1, PreparedSearch DEF BeginPrint
  <2>2. CASE FinishPrint \/ Prompt
    BY <2>2 DEF StepsInv, Searching, FinishPrint, Prompt
  <2> QED BY <2>1, <2>2
<1>7. CountInv'
  <2>1. Steady' => Input' = C!Completed(AskedWord', NamesIn(Entries)')
    BY <1>1, <1>2, <1>3 DEF CompletionInv, CountInv
  <2> QED BY <1>1, <2>1 DEF CountInv, In, Finishing
<1> QED BY <1>4, <1>5, <1>6, <1>7 DEF CompletionInv

\* The key press takes the line, then its last word.
LEMMA AskingKept ==
  ASSUME Fits, AutocompInv, ListsInv, CompletionInv, Tab \/ Prepare \/ Start
  PROVE  CompletionInv'
<1>1. Shape /\ WalkTypes
  BY DEF AutocompInv
<1> USE DEF In, Settled, Finishing
<1>2. CASE Tab
  <2>1. state' = "PREPARE" /\ asked' = Line /\ Line' = Line
    BY <1>2 DEF Tab, typed, Line
  <2> QED BY <2>1 DEF CompletionInv, SplitInv, WordInv, StepsInv, CountInv, Searching
<1>3. CASE Prepare
  <2>1. asked = Line /\ state' = "START"
    BY <1>3 DEF CompletionInv, SplitInv, Prepare
  <2>2. StemKept' /\ Input' = AskedWord'
    BY <1>1, <1>3, <2>1, WordAsked
  <2> QED BY <2>1, <2>2 DEF CompletionInv, SplitInv, WordInv, StepsInv, CountInv, Searching
<1>4. CASE Start
  <2>1. /\ state' = "COUNT" /\ count' = 0 /\ Input = AskedWord /\ StemKept
        /\ UNCHANGED <<lists, input, buf, inPos, asked, joined, gone>> /\ PrepareCandidates
    BY <1>4 DEF Start, CompletionInv, SplitInv, WordInv, typed, changes, PrepareCandidates
  <2>2. Input' = AskedWord' /\ StemKept'
    BY <2>1 DEF Input, AskedWord, StemKept
  <2>3. StepsInv'
    BY <1>1, <2>1, PreparedSearch
  <2> QED BY <2>1, <2>2, <2>3 DEF CompletionInv, SplitInv, WordInv, CountInv
<1> QED BY <1>2, <1>3, <1>4

\* A name counted is one that is offered.
LEMMA CountKept ==
  ASSUME WalkTypes, ListsInv, CompletionInv, Count
  PROVE  CompletionInv'
<1>1. /\ AtName /\ IsPrefix(Input, Name) /\ count' = count + 1 /\ candidate' = Name /\ Looking
  BY DEF Count, AtName, Looking, typed, changes
<1>2. StepsInv'
  BY CountSearch DEF CompletionInv
<1>3. PICK s : SearchAt(s)
  BY <1>1 DEF CompletionInv, StepsInv, AtName
<1>4. Name \in NamesIn(Once)
  BY <1>1, <1>3, HereIs
<1>5. NamesIn(Once)' = NamesIn(Once) /\ Input' = Input
  BY <1>1, SameOffers DEF Looking, changes, typed, Input
<1>6. Found'
  BY <1>1, <1>4, <1>5 DEF Found
<1> QED BY <1>1, <1>2, <1>6, LookingKept

\* With several candidates the first byte is tried, or the next.
LEMMA ManyKept ==
  ASSUME Fits, AutocompInv, ListsInv, CompletionInv, FinishMany \/ FinishOptimise
  PROVE  CompletionInv'
<1>1. Extending
  <2>1. CASE FinishMany
    <3>1. In("COUNT") /\ state = "FINISH" /\ count > 0 /\ Finishing("COUNT")
      <4>1. Finishing("COUNT") /\ count > 1
        BY <2>1 DEF FinishMany
      <4>2. count \in Nat
        BY <4>1 DEF CompletionInv, WordInv, In
      <4> QED BY <4>1, <4>2 DEF In, Finishing
    <3>2. StemKept /\ Found /\ Input = AskedWord
      BY <3>1 DEF CompletionInv, SplitInv, WordInv
    <3>3. Input \in Seq(Shown)
      BY <3>2, WordTyped DEF AutocompInv
    <3>4. IsPrefix(AskedWord, Input)
      BY <3>2, <3>3, PrefixIs
    <3> QED BY <3>1, <3>2, <3>4 DEF Extending, CompletionInv, CountInv
  <2>2. CASE FinishOptimise
    BY <2>2, NoneLost DEF FinishOptimise, Tried
  <2> QED BY <2>1, <2>2
<1>2. \E before : Extend(before) \/ Extended(before)
  BY DEF FinishMany, FinishOptimise
<1> QED BY <1>1, <1>2, ExtendCompletes, ExtendedCompletes

\* Nodes come and go during the search.
LEMMA ChangedKept ==
  ASSUME CompletionInv, Changed, ~Steady', state # "READ_CHAR",
         UNCHANGED <<state, prev, walk, tally, input, typed, asked>>
  PROVE  CompletionInv'
<1>1. UNCHANGED <<buf, inPos, count, prevCount, candidate>>
  BY DEF typed, tally
<1>2. Input' = Input /\ AskedWord' = AskedWord /\ Line' = Line
  BY <1>1 DEF Input, AskedWord, Line
<1>3. NamesIn(Once) \subseteq NamesIn(Once)'
  <2>1. NamesIn(Once) \subseteq NamesIn(Once')
    BY NamesGrow DEF Changed
  <2>2. NamesIn(Once)' = NamesIn(Once')
    BY DEF NamesIn
  <2> QED BY <2>1, <2>2
<1>4. Found => Found'
  BY <1>1, <1>2, <1>3 DEF Found
<1>5. C!Partly(AskedWord, NamesIn(Once)) \subseteq C!Partly(AskedWord', NamesIn(Once)')
  BY <1>2, <1>3, PartlyGrows
<1>6. SplitInv'
  BY <1>1, <1>2 DEF CompletionInv, SplitInv, StemKept
<1>7. WordInv'
  BY <1>1, <1>2, <1>4, <1>5 DEF CompletionInv, WordInv, In, Settled, Finishing
<1>8. StepsInv'
  BY ChangedSearch DEF CompletionInv
<1> QED BY <1>6, <1>7, <1>8 DEF CompletionInv, CountInv

LEMMA CompletionKept ==
  Fits /\ AutocompInv /\ AutocompInv' /\ ListsInv /\ ListsInv' /\ CompletionInv /\ [Next]_vars
    => CompletionInv'
<1> SUFFICES ASSUME Fits, AutocompInv, AutocompInv', ListsInv, ListsInv', CompletionInv, [Next]_vars
             PROVE  CompletionInv'
  OBVIOUS
<1>1. WalkTypes
  BY DEF AutocompInv
<1>2. state = "READ_CHAR" => Steady
  BY DEF CompletionInv, SplitInv
<1>3. CASE UNCHANGED vars
  <2>1. UNCHANGED <<lists, state, prev, walk, tally, input, typed, changes>>
    BY <1>3 DEF vars
  <2>2. CASE state = "READ_CHAR"
    BY <1>2, <2>1, <2>2, EditorKept DEF Steady, changes
  <2>3. CASE Searching
    <3>1. Looking /\ UNCHANGED <<count, candidate>>
      BY <2>1, <2>3 DEF Looking, tally
    <3>2. Once' = Once /\ next' = next
      BY <1>1, <2>1, SameOffers DEF changes
    <3>3. UNCHANGED <<state, stage, node, index, item>>
      BY <2>1 DEF walk
    <3>4. PICK s : SearchAt(s) /\ Counted(s)
      BY <2>3 DEF CompletionInv, StepsInv
    <3>5. SearchAt(s)'
      BY <3>2, <3>3, <3>4 DEF SearchAt, Ahead, Walk
    <3>6. Counted(s)'
      <4>1. \A o \in Matches(Input) : Waits(o[1], o[2], s) <=> Waits(o[1], o[2], s)'
        BY <3>3 DEF Waits, Behind
      <4> QED BY <3>1, <3>4, <4>1, CountedSame
    <3>7. AtName' <=> AtName
      BY <3>3 DEF AtName, Searching, FilesThrough
    <3>8. StepsInv'
      BY <2>3, <3>3, <3>5, <3>6, <3>7 DEF CompletionInv, StepsInv
    <3> QED BY <3>1, <3>8, LookingKept
  <2>4. CASE state # "READ_CHAR" /\ ~Searching
    <3>1. UNCHANGED <<state, prev, buf, inPos, input, asked, count, prevCount, candidate, lists, joined, gone>>
      BY <2>1 DEF typed, tally, changes
    <3>2. /\ Input' = Input /\ AskedWord' = AskedWord /\ Line' = Line
      BY <3>1 DEF Input, AskedWord, Line
    <3>3. /\ NamesIn(Entries)' = NamesIn(Entries) /\ NamesIn(Once)' = NamesIn(Once)
          /\ Steady' = Steady /\ Offered' = Offered
      BY <3>1, SameOffers
    <3>4. /\ Matches(Input)' = Matches(Input)
          /\ Matches(Front(Input))' = Matches(Front(Input))
          /\ Matches(AskedWord)' = Matches(AskedWord)
      BY <3>2, <3>3 DEF Matches
    <3>5. SplitInv'
      BY <3>1, <3>2, <3>3 DEF CompletionInv, SplitInv, StemKept
    <3>6. WordInv'
      BY <3>1, <3>2, <3>3 DEF CompletionInv, WordInv, Found, In, Settled, Finishing
    <3>7. StepsInv'
      BY <2>4, <3>1 DEF StepsInv, Searching
    <3>8. CountInv'
      <4>1. Settled' <=> Settled
        BY <3>1 DEF Settled, In, Finishing
      <4>2. In("OPTIMISE")' <=> In("OPTIMISE")
        BY <3>1 DEF In, Finishing
      <4>3. C!Completed(AskedWord, NamesIn(Entries))' = C!Completed(AskedWord, NamesIn(Entries))
        BY <3>2, <3>3
      <4> QED BY <3>1, <3>2, <3>3, <3>4, <4>1, <4>2, <4>3 DEF CompletionInv, CountInv, Finishing
    <3> QED BY <3>5, <3>6, <3>7, <3>8 DEF CompletionInv
  <2> QED BY <2>2, <2>3, <2>4
<1>4. ASSUME NEW key \in Letters \cup {"SP"}, Type(key) PROVE CompletionInv'
  BY <1>2, <1>4, EditorKept DEF Type, Steady, changes
<1>5. CASE Backspace
  BY <1>2, <1>5, EditorKept DEF Backspace, Steady, changes
<1>6. CASE FinishNone \/ FinishOne \/ RecallSuffix \/ Recall \/ PrintOver
  BY <1>6, EditorKept DEF FinishNone, FinishOne, RecallSuffix, Recall, PrintOver, Returns, Steady
<1>7. CASE Tab \/ Prepare \/ Start
  BY <1>7, AskingKept
<1>8. CASE BeginPrint \/ FinishPrint \/ Prompt
  BY <1>1, <1>8, SettledKept
<1>9. CASE StageEnds \/ NodeEnds \/ Skip \/ Pass \/ EndRow
  <2>1. StepsInv'
    BY <1>1, <1>9, StageEndsSearch, NodeEndsSearch, AdvanceSearch, EndRowSearch DEF CompletionInv
  <2>2. Looking /\ UNCHANGED <<count, candidate>>
    BY <1>9 DEF StageEnds, NodeEnds, Skip, Pass, Advance, EndRow, AtName, Looking, typed, tally, changes
  <2> QED BY <2>1, <2>2, LookingKept
<1>10. CASE Count
  BY <1>1, <1>10, CountKept
<1>11. CASE SearchEnds
  BY <1>1, <1>11, SearchEndsKept
<1>12. CASE FinishMany \/ FinishOptimise
  BY <1>12, ManyKept
<1>13. CASE FinishDrop
  BY <1>13, DropCompletes
<1>14. ASSUME NEW l \in Lists, NEW n \in Nodes, Prepend(l, n) \/ Unlink(l, n) PROVE CompletionInv'
  <2>1. CASE state = "READ_CHAR"
    BY <1>2, <1>14, <2>1, EditorKept DEF Prepend, Unlink, Steady
  <2>2. CASE state # "READ_CHAR"
    <3>1. Changed
      BY <1>1, <1>14, <2>2, PrependChanges, UnlinkChanges
    <3>2. ~Steady'
      BY <1>14, <2>2 DEF Prepend, Unlink, Steady
    <3>3. UNCHANGED <<state, prev, walk, tally, input, typed, asked>>
      BY <1>14 DEF Prepend, Unlink
    <3> QED BY <2>2, <3>1, <3>2, <3>3, ChangedKept
  <2> QED BY <2>1, <2>2
<1> QED
  BY <1>3, <1>4, <1>5, <1>6, <1>7, <1>8, <1>9, <1>10, <1>11, <1>12, <1>13, <1>14
  DEF Next, Editing, Service, Application

LEMMA CompletionBegins == Init => CompletionInv
  BY DEF Init, CompletionInv, SplitInv, WordInv, StepsInv, CountInv, Steady, In, Settled, Finishing,
         Searching

-----------------------------------------------------------------------------
(***************************************************************************)
(* Each step is one of the abstract completion, or none.                   *)
(***************************************************************************)
\* The names offered by more entries.
LEMMA NamesJoin == \A A, B : NamesIn(A \cup B) = NamesIn(A) \cup NamesIn(B)
  BY DEF NamesIn

\* The end of a search completes the word.
LEMMA CompleteMaps ==
  ASSUME ListsInv, state # "READ_CHAR", Returns, UNCHANGED lists,
         NEW x, Line' = C!Stem(asked) \o x,
         x \in C!Partly(AskedWord, NamesIn(Once)),
         Steady => x = C!Completed(AskedWord, NamesIn(Entries))
  PROVE  C!Complete
<1>1. /\ state' = "READ_CHAR" /\ joined' = {} /\ gone' = {}
  BY DEF Returns
<1>2. Entries' = Entries
  BY SameLists
<1>3. NamesIn(Entries)' = NamesIn(Entries)
  BY <1>2 DEF NamesIn
<1>4. x \in C!Partly(AskedWord, NamesIn(Entries \cup joined \cup gone))
  <2>1. Once \subseteq Entries \cup joined \cup gone
    BY DEF Once
  <2>2. NamesIn(Once) \subseteq NamesIn(Entries \cup joined \cup gone)
    BY <2>1, NamesGrow
  <2> QED BY <2>2, PartlyGrows
<1> DEFINE words == IF joined = {} /\ gone = {} THEN {C!Completed(C!Word(asked), NamesIn(Entries))}
                    ELSE C!Partly(C!Word(asked), NamesIn(Entries \cup joined \cup gone))
<1>5. x \in words
  BY <1>4 DEF Steady, AskedWord
<1>6. Line' \in {C!Stem(asked) \o word : word \in words}
  BY <1>5
<1> HIDE DEF words
<1>7. (IF state = "READ_CHAR" THEN Line ELSE asked)'
        \in {C!Stem(IF state = "READ_CHAR" THEN Line ELSE asked) \o word : word \in words}
  BY <1>1, <1>6
<1>8. words = IF joined = {} /\ gone = {}
              THEN {C!Completed(C!Word(IF state = "READ_CHAR" THEN Line ELSE asked), NamesIn(Entries))}
              ELSE C!Partly(C!Word(IF state = "READ_CHAR" THEN Line ELSE asked),
                            IF state = "READ_CHAR" THEN {} ELSE NamesIn(Entries \cup joined \cup gone))
  BY DEF words
<1> QED BY <1>1, <1>3, <1>7, <1>8 DEF C!Complete

\* One candidate is the completion.
LEMMA OneCompletes ==
  ASSUME Fits, AutocompInv, ListsInv, CompletionInv, Finishing("COUNT"), count = 1
  PROVE  /\ candidate \in C!Partly(AskedWord, NamesIn(Once))
         /\ Steady => candidate = C!Completed(AskedWord, NamesIn(Entries))
<1>1. StemKept /\ Input = AskedWord /\ Found
  BY DEF CompletionInv, SplitInv, WordInv, In, Finishing
<1>2. /\ AskedWord \in Seq(Shown) /\ candidate \in Seq(Shown) /\ WalkTypes
      /\ IsPrefix(AskedWord, candidate) /\ candidate \in NamesIn(Once)
  BY <1>1, WordTyped DEF AutocompInv, Found
<1>3. IsPrefix(AskedWord, AskedWord) /\ IsPrefix(candidate, candidate)
  BY <1>2, PrefixIs
<1>4. candidate \in C!Partly(AskedWord, NamesIn(Once))
  BY <1>2, <1>3, PartlyIs
<1>5. ASSUME Steady PROVE candidate = C!Completed(AskedWord, NamesIn(Entries))
  <2> DEFINE M == Matches(AskedWord)
  <2>1. PICK o \in Offered : NameAt(o) = candidate
    BY <1>1, <1>2, <1>5, CandidateOffered
  <2>2. o \in M
    BY <1>2, <2>1 DEF Matches
  <2>3. IsFiniteSet(M) /\ Cardinality(M) = 1
    BY <1>1, <1>5, MatchesFinite DEF CompletionInv, CountInv
  <2> HIDE DEF M
  <2>4. M = {o}
    BY ONLY <2>2, <2>3, FS_Singleton
  <2>5. o \in Matches(candidate)
    BY <1>3, <2>1 DEF Matches
  <2>6. o \in Matches(AskedWord) /\ Matches(AskedWord) \subseteq Matches(candidate)
    BY <2>4, <2>5 DEF M
  <2> QED BY <1>2, <2>1, <2>6, CompletedAll
<1> QED BY <1>4, <1>5

LEMMA NoneCompletes ==
  ASSUME Fits, AutocompInv, ListsInv, CompletionInv, Finishing("COUNT"), count = 0
  PROVE  /\ Input \in C!Partly(AskedWord, NamesIn(Once))
         /\ Steady => Input = C!Completed(AskedWord, NamesIn(Entries))
<1>1. StemKept /\ Input = AskedWord
  BY DEF CompletionInv, SplitInv, WordInv, In, Finishing
<1>2. AskedWord \in Seq(Shown) /\ WalkTypes
  BY <1>1, WordTyped DEF AutocompInv
<1>3. ASSUME Steady PROVE Matches(AskedWord) = {}
  <2>1. IsFiniteSet(Matches(AskedWord)) /\ Cardinality(Matches(AskedWord)) = 0
    BY <1>1, <1>3, MatchesFinite DEF CompletionInv, CountInv
  <2> QED BY <2>1, FS_EmptySet
<1> QED BY <1>1, <1>2, <1>3, CompletedNone DEF C!Partly

\* One candidate is put behind the stem.
LEMMA OneEndsLine ==
  ASSUME Fits, AutocompInv, CompletionInv, row = Line, FinishOne
  PROVE  row' = C!Stem(asked) \o candidate
<1>1. StemKept /\ Found
  BY DEF CompletionInv, SplitInv, WordInv, In, Finishing, FinishOne
<1>2. /\ Input \in Seq(Shown) /\ candidate \in Seq(Shown) /\ IsPrefix(Input, candidate) /\ Shape
  BY <1>1, WordTyped DEF AutocompInv, Found
<1> DEFINE s == C!Stem(asked)
           w == Input
           r == SubSeq(candidate, Len(Input) + 1, Len(candidate))
<1>3. s \in Seq(Shown)
  BY <1>1, SplitAt DEF StemKept
<1>4. r \in Seq(Shown) /\ w \o r = candidate
  BY <1>2, PrefixRest
<1>5. row' = (s \o w) \o r
  BY <1>1, <1>2, LineSplits DEF FinishOne
<1>6. w \in Seq(Shown)
  BY <1>2
<1> HIDE DEF s, w, r
<1>7. (s \o w) \o r = s \o (w \o r)
  <2>1. s \in Seq(Shown) /\ w \in Seq(Shown) /\ r \in Seq(Shown)
    BY <1>3, <1>4, <1>6
  <2> QED BY ONLY <2>1, ConcatAssociative
<1> QED BY <1>4, <1>5, <1>7 DEF s

\* Linking and unlinking change what is offered.
LEMMA ChangeMaps ==
  ASSUME ListsInv, WalkTypes, CompletionInv, NamesIn(Entries)' \subseteq Names,
         NEW l \in Lists, NEW n \in Nodes, Prepend(l, n) \/ Unlink(l, n)
  PROVE  C!Change
<1>1. UNCHANGED <<state, buf, asked>>
  BY DEF Prepend, Unlink, typed
<1>2. Line' = Line
  BY <1>1 DEF Line
<1>3. NamesIn(Entries)' = NamesIn(Entries')
  BY DEF NamesIn
<1>4. CASE state = "READ_CHAR"
  <2>1. joined = {} /\ gone = {} /\ joined' = {} /\ gone' = {}
    BY <1>4 DEF CompletionInv, SplitInv, Steady, Prepend, Unlink
  <2> QED BY <1>1, <1>2, <1>4, <2>1 DEF C!Change
<1>5. CASE state # "READ_CHAR"
  <2> DEFINE A == Entries \cup joined \cup gone
             B == Entries' \cup joined' \cup gone'
  <2>1. B = A \cup Entries' /\ ~(joined' = {} /\ gone' = {})
    <3>1. CASE Prepend(l, n)
      <4>1. LinkFirst(l, n) /\ joined' = joined \cup {<<l, n>>} /\ gone' = gone
        BY <1>5, <3>1 DEF Prepend
      <4>2. \A k, m : <<k, m>> \in Entries' <=> <<k, m>> \in Entries \/ <<k, m>> = <<l, n>>
        BY <4>1, LinkedFirst
      <4>3. <<l, n>> \in Entries' /\ Entries \subseteq Entries'
        BY <4>2, EntryIs
      <4> QED BY <4>1, <4>3
    <3>2. CASE Unlink(l, n)
      <4>1. UnlinkFrom(l, n) /\ gone' = gone \cup {<<l, n>>} /\ joined' = joined
        BY <1>5, <3>2 DEF Unlink
      <4>2. \A k, m : <<k, m>> \in Entries' <=> <<k, m>> \in Entries /\ m # n
        BY <4>1, UnlinkedOne
      <4>3. <<l, n>> \in Entries /\ \A k \in Lists : n \in ToSet(ListOf(k)) => k = l
        BY <4>1, ListsAre, EntryIs DEF UnlinkFrom
      <4>4. \A e \in Entries : e \in Entries' \/ e = <<l, n>>
        BY <4>2, <4>3, EntryIs
      <4> QED BY <4>1, <4>3, <4>4
    <3> QED BY <3>1, <3>2
  <2>2. NamesIn(B) = NamesIn(A) \cup NamesIn(Entries')
    <3> HIDE DEF A, B
    <3> QED BY <2>1, NamesJoin
  <2>3. NamesIn(Entries \cup joined \cup gone)' = NamesIn(B)
    BY DEF NamesIn
  <2> HIDE DEF B
  <2>4. (IF state = "READ_CHAR" THEN {} ELSE NamesIn(Entries \cup joined \cup gone))'
          = (IF state = "READ_CHAR" THEN {} ELSE NamesIn(Entries \cup joined \cup gone))
              \cup NamesIn(Entries)'
    BY <1>1, <1>3, <1>5, <2>2, <2>3
  <2>5. (joined = {} /\ gone = {})' = FALSE
    BY <2>1
  <2> QED BY <1>1, <1>5, <2>4, <2>5 DEF C!Change
<1> QED BY <1>4, <1>5

LEMMA NamesKnown == WalkTypes /\ ListsInv => NamesIn(Entries) \subseteq Names
  BY NamesOffered

LEMMA NamesKnownNext == (WalkTypes /\ ListsInv)' => (NamesIn(Entries) \subseteq Names)'
  BY NamesKnown, PTL

LEMMA Shows == Fits /\ AutocompInv /\ ScreenInv => ScreenShowsLine
  BY LineBytes DEF AutocompInv, ScreenInv, EditorShown, ScreenShowsLine

LEMMA ShownNext == Fits /\ (AutocompInv /\ ScreenInv)' => ScreenShowsLine'
<1>1. Fits => Fits'
  BY DEF Fits
<1> QED BY <1>1, Shows, PTL

\* A step of the search itself changes nothing that is promised.
LEMMA SearchHides ==
  ASSUME UNCHANGED <<lists, asked, joined, gone>>, state # "READ_CHAR", state' # "READ_CHAR", ListsInv
  PROVE  UNCHANGED C!completionVars
<1>1. Entries' = Entries
  BY SameLists
<1>2. /\ NamesIn(Entries)' = NamesIn(Entries)
      /\ NamesIn(Entries \cup joined \cup gone)' = NamesIn(Entries \cup joined \cup gone)
  BY <1>1 DEF NamesIn
<1>3. (joined = {} /\ gone = {})' = (joined = {} /\ gone = {})
  OBVIOUS
<1> QED BY <1>2, <1>3 DEF C!completionVars

LEMMA EditMaps ==
  ASSUME ListsInv, Steady, row = Line, state' = "READ_CHAR" => row' = Line',
         Editing, AutocompInv, Fits
  PROVE  C!Next
<1>1. state = "READ_CHAR" /\ joined = {} /\ gone = {}
      /\ UNCHANGED <<lists, joined, gone>>
  BY DEF Editing, Type, Backspace, Tab, changes, Steady
<1>2. NamesIn(Entries)' = NamesIn(Entries)
  BY <1>1, SameOffers
<1>3. ASSUME NEW key \in Letters \cup {"SP"}, Type(key) PROVE C!Insert(key)
  <2>1. state' = "READ_CHAR" /\ Line' = Append(Line, key)
    BY <1>3 DEF Type
  <2> QED BY <1>1, <1>2, <2>1 DEF C!Insert
<1>4. CASE Backspace
  <2>1. state' = "READ_CHAR" /\ Line' = Front(Line) /\ inPos > 0
    BY <1>4 DEF Backspace
  <2>2. Len(Line) = inPos
    BY LineBytes DEF AutocompInv
  <2>3. Line # << >>
    BY <2>1, <2>2
  <2>4. Line' = C!Front(Line)
    BY <2>1, CopiesAre
  <2> QED BY <1>1, <1>2, <2>1, <2>3, <2>4 DEF C!Next, C!Erase
<1>5. CASE Tab
  <2>1. state' = "PREPARE" /\ asked' = Line
    BY <1>5 DEF Tab
  <2>2. Entries' = Entries
    BY <1>1, SameLists
  <2>3. NamesIn(Entries \cup joined \cup gone)' = NamesIn(Entries)
    BY <1>1, <2>2 DEF NamesIn
  <2> QED BY <1>1, <1>2, <2>1, <2>3 DEF C!Next, C!Tab
<1> QED BY <1>3, <1>4, <1>5 DEF C!Next, Editing

LEMMA CompletionMaps ==
  Fits /\ AutocompInv /\ AutocompInv' /\ ScreenInv /\ ScreenInv' /\ ListsInv /\ ListsInv' /\ CompletionInv
    /\ [Next]_vars => [C!Next]_(C!completionVars)
<1> SUFFICES ASSUME Fits, AutocompInv, AutocompInv', ScreenInv, ScreenInv', ListsInv, ListsInv',
                    CompletionInv, [Next]_vars
             PROVE  [C!Next]_(C!completionVars)
  OBVIOUS
<1>1. WalkTypes /\ Shape /\ NamesIn(Entries)' \subseteq Names
  BY NamesKnownNext DEF AutocompInv
<1>2. /\ state = "READ_CHAR" \/ Finishing("COUNT") => row = Line
      /\ state' = "READ_CHAR" => row' = Line'
  BY <1>1, LineBytes, ShownNext DEF ScreenInv, EditorShown, CountShown, ScreenShowsLine
<1>3. CASE UNCHANGED vars
  <2>1. UNCHANGED <<lists, state, buf, asked, joined, gone>>
    BY <1>3 DEF vars, typed, changes
  <2>2. Entries' = Entries /\ Line' = Line
    BY <2>1, SameLists DEF Line
  <2>3. /\ NamesIn(Entries)' = NamesIn(Entries)
        /\ NamesIn(Entries \cup joined \cup gone)' = NamesIn(Entries \cup joined \cup gone)
    BY <2>1, <2>2 DEF NamesIn
  <2>4. (joined = {} /\ gone = {})' = (joined = {} /\ gone = {})
    BY <2>1
  <2> QED BY <2>1, <2>2, <2>3, <2>4 DEF C!completionVars
<1>4. CASE Editing
  <2>1. Steady /\ row = Line
    BY <1>2, <1>4 DEF Editing, Type, Backspace, Tab, CompletionInv, SplitInv
  <2> QED BY <1>2, <1>4, <2>1, EditMaps
<1>5. CASE \/ Prepare \/ Start \/ StageEnds \/ SearchEnds \/ NodeEnds \/ Skip \/ Count \/ EndRow \/ Pass
           \/ FinishMany \/ FinishOptimise \/ FinishDrop \/ BeginPrint \/ FinishPrint \/ Prompt
  <2>1. /\ UNCHANGED <<lists, asked, joined, gone>>
        /\ state # "READ_CHAR" /\ state' # "READ_CHAR"
    BY <1>5
    DEF Prepare, Start, StageEnds, SearchEnds, NodeEnds, Skip, Count, EndRow, Pass, Advance, AtName,
        Searching, FinishMany, FinishOptimise, FinishDrop, Extend, Extended, BeginPrint, FinishPrint,
        Prompt, Finishing, changes
  <2> QED BY <2>1, SearchHides
<1>6. ASSUME FinishNone \/ Recall \/ RecallSuffix PROVE C!Complete
  <2>1. state # "READ_CHAR" /\ state # "PREPARE" /\ Returns /\ UNCHANGED <<lists, buf>>
    BY <1>6 DEF FinishNone, Recall, RecallSuffix, Finishing, typed
  <2>2. Line' = C!Stem(asked) \o Input
    <3>1. StemKept
      BY <2>1 DEF CompletionInv, SplitInv
    <3>2. Line = C!Stem(asked) \o Input
      BY <1>1, <3>1, LineSplits
    <3> QED BY <2>1, <3>2 DEF Line
  <2>3. /\ Input \in C!Partly(AskedWord, NamesIn(Once))
        /\ Steady => Input = C!Completed(AskedWord, NamesIn(Entries))
    <3>1. CASE FinishNone
      BY <3>1, NoneCompletes DEF FinishNone
    <3>2. CASE Recall \/ RecallSuffix
      BY <3>2 DEF Recall, RecallSuffix, CompletionInv, WordInv, CountInv, Settled
    <3> QED BY <1>6, <3>1, <3>2
  <2> QED BY <2>1, <2>2, <2>3, CompleteMaps
<1>7. ASSUME FinishOne PROVE C!Complete
  <2>1. /\ state # "READ_CHAR" /\ Returns /\ UNCHANGED lists /\ Finishing("COUNT") /\ count = 1
        /\ state' = "READ_CHAR"
    BY <1>7 DEF FinishOne, Finishing, Returns
  <2>2. Line' = C!Stem(asked) \o candidate
    BY <1>2, <1>7, <2>1, OneEndsLine
  <2>3. /\ candidate \in C!Partly(AskedWord, NamesIn(Once))
        /\ Steady => candidate = C!Completed(AskedWord, NamesIn(Entries))
    BY <2>1, OneCompletes
  <2> QED BY <2>1, <2>2, <2>3, CompleteMaps
<1>8. ASSUME PrintOver PROVE C!Lose
  <2>1. /\ state' = "READ_CHAR" /\ row' = << >> /\ joined' = {} /\ gone' = {} /\ UNCHANGED lists
    BY <1>8 DEF PrintOver, Returns
  <2>2. Line' = << >>
    BY <1>2, <2>1
  <2>3. Entries' = Entries
    BY <2>1, SameLists
  <2>4. NamesIn(Entries)' = NamesIn(Entries)
    BY <2>3 DEF NamesIn
  <2> QED BY <2>1, <2>2, <2>4 DEF C!Lose
<1>9. ASSUME NEW l \in Lists, NEW n \in Nodes, Prepend(l, n) \/ Unlink(l, n) PROVE C!Change
  BY <1>1, <1>9, ChangeMaps
<1> QED
  BY <1>3, <1>4, <1>5, <1>6, <1>7, <1>8, <1>9 DEF Next, Service, Application, C!Next

LEMMA CompletionStarts == Fits /\ Init => C!Init
<1> SUFFICES ASSUME Fits, Init PROVE C!Init
  OBVIOUS
<1>1. AutocompInv /\ ListingInv
  BY AutocompBegins, ListingBegins
<1>2. NamesIn(Entries) \subseteq Names
  BY <1>1, NamesKnown DEF AutocompInv, ListingInv
<1>3. state = "READ_CHAR" /\ joined = {} /\ gone = {} /\ inPos = 0
  BY DEF Init
<1>4. Line = << >>
  BY <1>1, <1>3, LineBytes DEF AutocompInv, FirstBytes
<1> QED BY <1>2, <1>3, <1>4 DEF C!Init

\* If the lines typed leave room for the longest name offered, then however many
\* looks the search takes and whatever is linked and unlinked meanwhile, what it
\* makes of the line is the one step of the abstract completion: with nothing
\* linked or unlinked the word is extended by what all names that begin with it
\* have in common, and otherwise by the beginning of one that was offered.
THEOREM ImplementsCompletion ==
  ASSUME Fits
  PROVE  Spec => RefinesCompletion
<1> DEFINE IInv == AutocompInv /\ ScreenInv /\ ListingInv /\ CompletionInv
<1>1. Init => IInv
  <2>1. Init => ScreenInv
    BY DEF Init, ScreenInv, CountShown, SuffixShown, EditorShown, Trying, Finishing, FirstBytes
  <2> QED BY <2>1, AutocompBegins, ListingBegins, CompletionBegins
<1>2. IInv /\ [Next]_vars => IInv'
  BY AutocompKept, ScreenKept, ListingKept, CompletionKept DEF ListingInv
<1>3. IInv /\ IInv' /\ [Next]_vars => [C!Next]_(C!completionVars)
  BY CompletionMaps DEF ListingInv
<1>4. Init => C!Init
  BY CompletionStarts
<1> HIDE DEF IInv
<1> QED BY <1>1, <1>2, <1>3, <1>4, PTL DEF Spec, RefinesCompletion, C!Spec

-----------------------------------------------------------------------------
(***************************************************************************)
(* How far a search is from its end.                                       *)
(***************************************************************************)
\* A search has ended a count of its own, and never is behind the files of a
\* node.
TabInv ==
  /\ state \in Idle \cup {"START", "COUNT", "OPTIMISE", "PRINT", "FINISH", "RECALL_SUFFIX"}
  /\ state = "FINISH" => prev \in {"COUNT", "OPTIMISE", "PRINT"}
  /\ Searching /\ stage < 2 /\ node # NoNode => item <= Len(FilesOf[node])

SearchInv == AutocompInv /\ ListingInv /\ CompletionInv /\ TabInv

RankTyped ==
  /\ PhasesLeft \in Nat /\ BytesLeft \in Nat /\ StagesLeft \in Nat
  /\ NodesLeft \in Nat /\ FilesLeft \in Nat /\ PiecesLeft \in Nat

LEMMA PhaseIs ==
  /\ state = "PREPARE" => PhasesLeft = 7
  /\ state = "START" => PhasesLeft = 6
  /\ In("COUNT") => PhasesLeft = 5
  /\ In("OPTIMISE") => PhasesLeft = 4
  /\ state = "RECALL_SUFFIX" => PhasesLeft = 3
  /\ In("PRINT") => PhasesLeft = 2
  /\ state = "PROMPT" => PhasesLeft = 1
  /\ state = "RECALL" => PhasesLeft = 0
BY DEF PhasesLeft, In, Finishing

LEMMA PhaseBecomes ==
  /\ state' = "PREPARE" => PhasesLeft' = 7
  /\ state' = "START" => PhasesLeft' = 6
  /\ In("COUNT")' => PhasesLeft' = 5
  /\ In("OPTIMISE")' => PhasesLeft' = 4
  /\ state' = "RECALL_SUFFIX" => PhasesLeft' = 3
  /\ In("PRINT")' => PhasesLeft' = 2
  /\ state' = "PROMPT" => PhasesLeft' = 1
  /\ state' = "RECALL" => PhasesLeft' = 0
BY DEF PhasesLeft, In, Finishing

\* A rank is lower when the first part that changes is.
LEMMA Lower ==
  ASSUME \/ PhasesLeft' < PhasesLeft
         \/ /\ PhasesLeft' = PhasesLeft
            /\ \/ BytesLeft' < BytesLeft
               \/ /\ BytesLeft' = BytesLeft
                  /\ \/ StagesLeft' < StagesLeft
                     \/ /\ StagesLeft' = StagesLeft
                        /\ \/ NodesLeft' < NodesLeft
                           \/ /\ NodesLeft' = NodesLeft
                              /\ \/ FilesLeft' < FilesLeft
                                 \/ FilesLeft' = FilesLeft /\ PiecesLeft' < PiecesLeft
  PROVE  Below(Rank', Rank)
<1> DEFINE r == Rank'
           t == Rank
<1>1. /\ r[1] = PhasesLeft' /\ r[2] = BytesLeft' /\ r[3] = StagesLeft'
      /\ r[4] = NodesLeft' /\ r[5] = FilesLeft' /\ r[6] = PiecesLeft'
      /\ t[1] = PhasesLeft /\ t[2] = BytesLeft /\ t[3] = StagesLeft
      /\ t[4] = NodesLeft /\ t[5] = FilesLeft /\ t[6] = PiecesLeft
  BY DEF Rank
<1> HIDE DEF r, t
<1>2. \/ r[1] < t[1]
      \/ r[1] = t[1] /\ r[2] < t[2]
      \/ r[1] = t[1] /\ r[2] = t[2] /\ r[3] < t[3]
      \/ r[1] = t[1] /\ r[2] = t[2] /\ r[3] = t[3] /\ r[4] < t[4]
      \/ r[1] = t[1] /\ r[2] = t[2] /\ r[3] = t[3] /\ r[4] = t[4] /\ r[5] < t[5]
      \/ r[1] = t[1] /\ r[2] = t[2] /\ r[3] = t[3] /\ r[4] = t[4] /\ r[5] = t[5] /\ r[6] < t[6]
  BY <1>1
<1>3. \E k \in 1 .. 6 : r[k] < t[k] /\ \A j \in 1 .. k - 1 : r[j] = t[j]
  BY ONLY <1>2
<1> QED BY <1>3 DEF Below, r, t

\* What is ahead is counted by any walk from the pointer.
LEMMA NodesLeftIs ==
  /\ \A s : Walk(s, node, next) /\ Searching /\ stage # 1 =>
       NodesLeft = Cardinality(ToSet(s)) /\ IsFiniteSet(ToSet(s)) /\ NodesLeft \in Nat
  /\ \A s : Walk(s, node', next') /\ Searching' /\ stage' # 1 =>
       NodesLeft' = Cardinality(ToSet(s)) /\ IsFiniteSet(ToSet(s)) /\ NodesLeft' \in Nat
<1>1. ASSUME NEW s, NEW p, NEW nx, Walk(s, p, nx)
      PROVE  /\ ListFrom(p, nx, Nodes, NoNode) = s
             /\ p = NoNode => ToSet(s) = {}
             /\ IsFiniteSet(ToSet(s)) /\ Cardinality(ToSet(s)) \in Nat
  <2>1. IsWalk(s, p, nx, Nodes, NoNode) /\ NoNode \notin Nodes /\ IsFiniteSet(Nodes)
    BY <1>1, NodesAssumption DEF Walk
  <2>2. ToSet(s) \subseteq Nodes
    BY <2>1, Elements DEF IsWalk
  <2>3. IsFiniteSet(ToSet(s)) /\ Cardinality(ToSet(s)) \in Nat
    BY <2>1, <2>2, FS_Subset, FS_CardinalityType
  <2>4. ListFrom(p, nx, Nodes, NoNode) = s
    BY <2>1, ListFromIs
  <2>5. p = NoNode => ToSet(s) = {}
    <3>1. p = NoNode => s = << >>
      BY <2>1 DEF IsWalk
    <3> QED BY <3>1 DEF ToSet
  <2> QED BY <2>3, <2>4, <2>5
<1>2. /\ NodesFrom(node) = ListFrom(node, next, Nodes, NoNode)
      /\ NodesFrom(node)' = ListFrom(node', next', Nodes, NoNode)
  BY DEF NodesFrom, ListFrom
<1>3. Cardinality({}) = 0
  BY FS_EmptySet
<1>4. ASSUME NEW s, Walk(s, node, next), Searching, stage # 1
      PROVE  NodesLeft = Cardinality(ToSet(s)) /\ IsFiniteSet(ToSet(s)) /\ NodesLeft \in Nat
  BY <1>1, <1>2, <1>3, <1>4 DEF NodesLeft
<1>5. ASSUME NEW s, Walk(s, node', next'), Searching', stage' # 1
      PROVE  NodesLeft' = Cardinality(ToSet(s)) /\ IsFiniteSet(ToSet(s)) /\ NodesLeft' \in Nat
  BY <1>1, <1>2, <1>3, <1>5 DEF NodesLeft
<1> QED BY <1>4, <1>5

\* In a search there is a walk ahead, and a row has three pieces.
LEMMA SearchWalks ==
  ASSUME SearchInv, Searching
  PROVE  /\ index \in 0 .. 2 /\ stage \in {0, 1, 2} /\ item \in Nat
         /\ stage # 1 => \E l \in Lists : \E s : Ahead(l, s)
<1>1. PICK s : SearchAt(s)
  BY DEF SearchInv, CompletionInv, StepsInv
<1>2. index \in 0 .. 2 /\ stage \in {0, 1, 2} /\ item \in Nat
  BY DEF SearchInv, CompletionInv, StepsInv, AutocompInv, WalkTypes
<1> QED BY <1>1, <1>2 DEF SearchAt, Lists

LEMMA FilesTyped == \A n \in Nodes \cup {Cwd} : Len(FilesOf[n]) \in Nat
BY AutocompAssumption

LEMMA Ranked == Fits /\ SearchInv /\ state # "READ_CHAR" => RankTyped
<1> SUFFICES ASSUME Fits, SearchInv, state # "READ_CHAR" PROVE RankTyped
  OBVIOUS
<1>1. PhasesLeft \in Nat
  BY PhaseIs DEF SearchInv, TabInv, Idle, In, Finishing
<1>2. BytesLeft \in Nat
  <2>1. CASE In("OPTIMISE")
    <3>1. IsPrefix(Input, candidate) /\ candidate \in Candidates /\ StemKept
      BY <2>1 DEF SearchInv, CompletionInv, WordInv, Found, AutocompInv, WalkTypes, SplitInv, In, Finishing
    <3>2. Input \in Seq(Shown) /\ candidate \in Seq(Shown)
      BY <3>1, WordTyped DEF SearchInv, AutocompInv
    <3>3. Len(Input) <= Len(candidate) /\ Len(Input) \in Nat /\ Len(candidate) \in Nat
      BY <3>1, <3>2 DEF IsPrefix
    <3>4. Len(candidate) <= NameMax /\ NameMax \in Nat
      BY <3>1, Constants DEF Candidates
    <3>5. NameMax - Len(Input) \in Nat
      BY <3>3, <3>4
    <3> QED BY <2>1, <3>5 DEF BytesLeft
  <2> QED BY <2>1 DEF BytesLeft
<1>3. StagesLeft \in Nat /\ PiecesLeft \in Nat
  BY SearchWalks DEF StagesLeft, PiecesLeft
<1>4. NodesLeft \in Nat
  <2>1. CASE ~Searching \/ stage = 1
    BY <2>1 DEF NodesLeft
  <2>2. CASE Searching /\ stage # 1
    BY <2>2, SearchWalks, NodesLeftIs DEF Ahead
  <2> QED BY <2>1, <2>2
<1>5. FilesLeft \in Nat
  <2>1. ASSUME Searching, stage < 2, node # NoNode PROVE Len(FilesOf[node]) - item \in Nat
    <3>1. node \in Nodes \cup {Cwd} /\ item \in Nat /\ item <= Len(FilesOf[node])
      BY <2>1, SearchWalks DEF SearchInv, TabInv, AutocompInv, WalkTypes
    <3> QED BY <3>1, FilesTyped
  <2> QED BY <2>1 DEF FilesLeft
<1> QED BY <1>1, <1>2, <1>3, <1>4, <1>5 DEF RankTyped

LEMMA TabKept == SearchInv /\ [Next]_vars => TabInv'
<1> SUFFICES ASSUME SearchInv, [Next]_vars PROVE TabInv'
  OBVIOUS
<1>1. /\ TabInv /\ WalkTypes /\ item \in Nat
      /\ \A n \in Nodes \cup {Cwd} : Len(FilesOf[n]) \in Nat
  BY FilesTyped DEF SearchInv, AutocompInv, WalkTypes
<1>2. WalkTypes'
  BY <1>1, WalkTypesKept
<1>3. item' = 0 => item' <= Len(FilesOf[node]') \/ ~(Searching /\ stage < 2 /\ node # NoNode)'
  <2>1. (stage < 2 /\ node # NoNode)' => node' \in Nodes \cup {Cwd}
    BY <1>2 DEF WalkTypes
  <2> QED BY <1>1, <2>1
<1> USE DEF walk, Idle
<1>4. ASSUME UNCHANGED <<state, prev, stage, node, item>> PROVE TabInv'
  BY <1>1, <1>4 DEF TabInv, Searching
<1>5. CASE UNCHANGED vars
  BY <1>4, <1>5 DEF vars
<1>6. ASSUME NEW key \in Letters \cup {"SP"}, Type(key) PROVE TabInv'
  BY <1>4, <1>6 DEF Type
<1>7. CASE Backspace \/ Count \/ EndRow
  BY <1>4, <1>7 DEF Backspace, Count, EndRow
<1>8. CASE Tab \/ Prepare \/ FinishPrint \/ Prompt \/ FinishDrop
  BY <1>8 DEF Tab, Prepare, FinishPrint, Prompt, FinishDrop, TabInv, Searching
<1>9. CASE FinishNone \/ FinishOne \/ RecallSuffix \/ Recall \/ PrintOver
  BY <1>9 DEF FinishNone, FinishOne, RecallSuffix, Recall, PrintOver, Returns, TabInv, Searching
<1>10. CASE Start \/ BeginPrint
  BY <1>3, <1>10 DEF Start, BeginPrint, PrepareCandidates, TabInv
<1>11. ASSUME NEW before, Extend(before) \/ Extended(before) PROVE TabInv'
  BY <1>3, <1>11 DEF Extend, Extended, PrepareCandidates, TabInv, Searching
<1>12. CASE FinishMany \/ FinishOptimise
  BY <1>11, <1>12 DEF FinishMany, FinishOptimise
<1>13. CASE StageEnds \/ NodeEnds
  BY <1>1, <1>3, <1>13 DEF StageEnds, NodeEnds, TabInv, Searching
<1>14. CASE SearchEnds
  BY <1>14 DEF SearchEnds, TabInv, Searching
<1>15. CASE Skip \/ Pass
  <2>1. AtName /\ Advance /\ UNCHANGED <<state, prev, stage>>
    BY <1>15 DEF Skip, Pass, Advance
  <2>2. CASE stage < 2
    <3>1. /\ item' = item + 1 /\ node' = node /\ item < Len(FilesOf[node]) /\ node \in Nodes \cup {Cwd}
      BY <1>1, <2>1, <2>2 DEF Advance, AtName, FilesThrough, WalkTypes
    <3>2. item' <= Len(FilesOf[node])
      BY <1>1, <3>1
    <3> QED BY <1>1, <2>1, <3>1, <3>2 DEF TabInv, Searching
  <2> QED BY <1>1, <2>1, <2>2 DEF TabInv, Searching
<1>16. ASSUME NEW l \in Lists, NEW n \in Nodes, Prepend(l, n) \/ Unlink(l, n) PROVE TabInv'
  BY <1>4, <1>16 DEF Prepend, Unlink
<1> QED
  BY <1>5, <1>6, <1>7, <1>8, <1>9, <1>10, <1>12, <1>13, <1>14, <1>15, <1>16
  DEF Next, Editing, Service, Application

\* The steps from one phase to the next.
LEMMA PhaseFalls ==
  ASSUME \/ Prepare \/ Start \/ FinishMany \/ FinishDrop \/ BeginPrint \/ FinishPrint \/ Prompt
         \/ (Finishing("OPTIMISE") /\ \E before : Extended(before))
  PROVE  PhasesLeft' < PhasesLeft
<1>1. CASE Prepare \/ Start
  BY <1>1, PhaseIs, PhaseBecomes DEF Prepare, Start, In
<1>2. CASE FinishMany
  BY <1>2, PhaseIs, PhaseBecomes DEF FinishMany, Extend, Extended, In
<1>3. CASE FinishDrop \/ (Finishing("OPTIMISE") /\ \E before : Extended(before))
  BY <1>3, PhaseIs, PhaseBecomes DEF FinishDrop, Extended, In
<1>4. CASE BeginPrint \/ FinishPrint \/ Prompt
  BY <1>4, PhaseIs, PhaseBecomes DEF BeginPrint, FinishPrint, Prompt, In
<1> QED BY <1>1, <1>2, <1>3, <1>4

\* Another byte is tried: the word is longer by it.
LEMMA ExtendNearer ==
  ASSUME Fits, SearchInv, Finishing("OPTIMISE"), NEW before, Extend(before)
  PROVE  Below(Rank', Rank)
<1>1. In("OPTIMISE") /\ In("OPTIMISE")' /\ state \notin Idle
  BY DEF In, Finishing, Extend, Idle
<1>2. AutocompInv /\ StemKept
  BY DEF SearchInv, CompletionInv, SplitInv, Finishing
<1>3. Input' \in Seq(Shown) /\ Input' # << >> /\ Front(Input') = Input
  BY <1>1, <1>2, WordExtended
<1>4. Input \in Seq(Shown)
  BY <1>2, WordTyped DEF AutocompInv
<1> DEFINE w == Input'
           n == Len(Input')
           m == Len(Input)
<1>5. n = m + 1 /\ m \in Nat /\ n \in Nat
  <2>1. w \in Seq(Shown) /\ w # << >>
    BY <1>3
  <2> HIDE DEF w
  <2>2. Len(Front(w)) = Len(w) - 1 /\ Len(w) \in Nat /\ Len(w) > 0
    BY ONLY <2>1, FrontIs
  <2> QED BY <1>3, <1>4, <2>2 DEF w
<1>6. BytesLeft = NameMax - m /\ BytesLeft' = NameMax - n
  BY <1>1 DEF BytesLeft
<1>7. BytesLeft' < BytesLeft
  <2>1. NameMax \in Nat
    BY Constants
  <2> HIDE DEF m, n
  <2>2. NameMax - n < NameMax - m
    BY <1>5, <2>1
  <2> QED BY <1>6, <2>2
<1>8. PhasesLeft' = PhasesLeft
  BY <1>1, PhaseIs, PhaseBecomes
<1> QED BY <1>7, <1>8, Lower

\* A look of the search.
LEMMA LookingNearer ==
  ASSUME SearchInv, StageEnds \/ NodeEnds \/ Skip \/ Count \/ EndRow \/ Pass
  PROVE  Below(Rank', Rank)
<1>1. /\ Searching /\ Searching' /\ UNCHANGED <<lists, state, prev, buf, input>>
      /\ index \in 0 .. 2 /\ stage \in {0, 1, 2} /\ item \in Nat
  BY SearchWalks
  DEF StageEnds, NodeEnds, Skip, Count, EndRow, Pass, AtName, Advance, Searching, typed
<1>2. PhasesLeft' = PhasesLeft /\ BytesLeft' = BytesLeft
  BY <1>1 DEF PhasesLeft, BytesLeft, In, Finishing, Input
<1>3. ASSUME StageEnds PROVE Below(Rank', Rank)
  <2>1. stage < 2 /\ stage' = stage + 1
    BY <1>3 DEF StageEnds
  <2>2. StagesLeft = 3 - stage /\ StagesLeft' = 3 - stage'
    BY <1>1 DEF StagesLeft
  <2>3. StagesLeft' < StagesLeft
    BY <1>1, <2>1, <2>2
  <2> QED BY <1>2, <2>3, Lower
<1>4. ASSUME stage' = stage PROVE StagesLeft' = StagesLeft
  BY <1>1, <1>4 DEF StagesLeft
<1>5. ASSUME stage \in {0, 2}, stage' = stage, node # NoNode, node' = next[node]
      PROVE  Below(Rank', Rank)
  <2>1. PICK l, s : Ahead(l, s)
    BY <1>1, <1>5, SearchWalks
  <2>2. WalkTypes
    BY DEF SearchInv, AutocompInv
  <2>3. PICK t : Walk(t, next[node], next) /\ ToSet(t) = ToSet(s) \ {node} /\ node \in ToSet(s)
    <3>1. IsWalk(s, node, next, Nodes, NoNode) /\ NoNode \notin Nodes
          /\ next \in [Nodes -> Nodes \cup {NoNode}]
      BY <2>1, <2>2, NodesAssumption DEF Ahead, Walk, WalkTypes
    <3> QED BY ONLY <3>1, <1>5, RestOfWalk DEF Walk
  <2>4. NodesLeft = Cardinality(ToSet(s)) /\ IsFiniteSet(ToSet(s))
    BY <1>1, <1>5, <2>1, NodesLeftIs DEF Ahead
  <2>5. NodesLeft' = Cardinality(ToSet(t))
    BY <1>1, <1>5, <2>3, NodesLeftIs DEF lists
  <2>6. NodesLeft' < NodesLeft
    <3>1. Cardinality(ToSet(s) \ {node}) = Cardinality(ToSet(s)) - 1
      BY <2>3, <2>4, FS_RemoveElement
    <3>2. Cardinality(ToSet(s)) \in Nat
      BY <2>4, FS_CardinalityType
    <3> QED BY <2>3, <2>4, <2>5, <3>1, <3>2
  <2> QED BY <1>2, <1>4, <1>5, <2>6, Lower
<1>6. ASSUME NodeEnds PROVE Below(Rank', Rank)
  <2>1. node # NoNode /\ stage < 2 /\ stage' = stage /\ node' = NodeBehind
    BY <1>6 DEF NodeEnds, FilesThrough
  <2>2. CASE stage = 0
    BY <1>5, <2>1, <2>2 DEF NodeBehind
  <2>3. CASE stage = 1
    <3>1. NodesLeft = 1 /\ NodesLeft' = 0
      BY <1>1, <2>1, <2>3 DEF NodesLeft, NodeBehind
    <3> QED BY <1>2, <1>4, <2>1, <3>1, Lower
  <2> QED BY <1>1, <2>1, <2>2, <2>3
<1>7. ASSUME stage' = stage, node' = node PROVE NodesLeft' = NodesLeft
  <2>1. NodesFrom(node)' = NodesFrom(node)
    BY <1>1, <1>7 DEF NodesFrom, lists
  <2> QED BY <1>1, <1>7, <2>1 DEF NodesLeft
<1>8. ASSUME Skip \/ Pass PROVE Below(Rank', Rank)
  <2>1. AtName /\ Advance /\ stage' = stage /\ node # NoNode
    BY <1>8 DEF Skip, Pass, Advance, AtName
  <2>2. CASE stage < 2
    <3>1. item' = item + 1 /\ node' = node /\ node \in Nodes \cup {Cwd}
      BY <2>1, <2>2 DEF Advance, AtName, SearchInv, AutocompInv, WalkTypes
    <3>2. FilesLeft = Len(FilesOf[node]) - item /\ FilesLeft' = Len(FilesOf[node]) - item'
      BY <1>1, <2>1, <2>2, <3>1 DEF FilesLeft
    <3>3. Len(FilesOf[node]) \in Nat
      BY <3>1, FilesTyped
    <3>4. FilesLeft' < FilesLeft
      BY <1>1, <3>1, <3>2, <3>3
    <3> QED BY <1>2, <1>4, <1>7, <2>1, <3>1, <3>4, Lower
  <2>3. CASE stage = 2
    BY <1>5, <2>1, <2>3 DEF Advance
  <2> QED BY <1>1, <2>2, <2>3
<1>9. ASSUME Count \/ EndRow PROVE Below(Rank', Rank)
  <2>1. index' = index + 1 /\ UNCHANGED <<stage, node, item>>
    BY <1>9 DEF Count, EndRow
  <2>2. FilesLeft' = FilesLeft
    BY <1>1, <2>1 DEF FilesLeft
  <2>3. PiecesLeft = 2 - index /\ PiecesLeft' = 2 - index'
    BY <1>1 DEF PiecesLeft
  <2>4. PiecesLeft' < PiecesLeft
    BY <1>1, <2>1, <2>3
  <2> QED BY <1>2, <1>4, <1>7, <2>1, <2>2, <2>4, Lower
<1> QED BY <1>3, <1>6, <1>8, <1>9

LEMMA SearchEndsNearer ==
  ASSUME SearchInv, SearchEnds
  PROVE  Below(Rank', Rank)
<1>1. /\ Searching /\ ~Searching' /\ stage = 2 /\ UNCHANGED <<buf, input>>
      /\ state' = "FINISH" /\ prev' = state
  BY DEF SearchEnds, Searching, typed
<1>2. \A step \in {"COUNT", "OPTIMISE", "PRINT"} : In(step) <=> In(step)'
  BY <1>1 DEF In, Finishing, Searching
<1>3. PhasesLeft' = PhasesLeft
  BY <1>1, <1>2, PhaseIs, PhaseBecomes DEF In, Searching
<1>4. BytesLeft' = BytesLeft
  BY <1>1, <1>2 DEF BytesLeft, Input
<1>5. StagesLeft = 1 /\ StagesLeft' = 0
  BY <1>1 DEF StagesLeft
<1> QED BY <1>3, <1>4, <1>5, Lower

\* What is linked is not ahead; what is unlinked is taken out of it at most.
LEMMA ApplicationDelays ==
  ASSUME SearchInv, state # "READ_CHAR",
         NEW l \in Lists, NEW n \in Nodes, Prepend(l, n) \/ Unlink(l, n)
  PROVE  /\ Below(Rank', Rank) \/ Rank' = Rank
         /\ lists' # lists
<1>1. UNCHANGED <<state, prev, stage, node, index, item, buf, input>> /\ WalkTypes /\ ListsInv
  BY DEF Prepend, Unlink, walk, typed, SearchInv, ListingInv
<1>2. /\ PhasesLeft' = PhasesLeft /\ BytesLeft' = BytesLeft /\ StagesLeft' = StagesLeft
      /\ FilesLeft' = FilesLeft /\ PiecesLeft' = PiecesLeft
  BY <1>1 DEF PhasesLeft, BytesLeft, StagesLeft, FilesLeft, PiecesLeft, In, Finishing, Searching, Input
<1>3. NodesLeft' < NodesLeft \/ NodesLeft' = NodesLeft
  <2>1. CASE ~Searching \/ stage = 1
    BY <1>1, <2>1 DEF NodesLeft, Searching
  <2>2. CASE Searching /\ stage # 1
    <3>1. PICK k \in Lists : \E s : Ahead(k, s)
      BY <2>2, SearchWalks
    <3>2. PICK s : Ahead(k, s)
      BY <3>1
    <3>3. Changed
      BY <1>1, PrependChanges, UnlinkChanges
    <3>4. PICK t : Ahead(k, t)' /\ ToSet(t) \subseteq ToSet(s)
      BY <3>2, <3>3 DEF Changed
    <3>5. NodesLeft = Cardinality(ToSet(s)) /\ IsFiniteSet(ToSet(s)) /\ NodesLeft \in Nat
      BY <2>2, <3>2, NodesLeftIs DEF Ahead
    <3>6. Walk(t, node', next') /\ Searching' /\ stage' # 1
      BY <1>1, <2>2, <3>4 DEF Ahead, Walk, Searching
    <3>7. NodesLeft' = Cardinality(ToSet(t)) /\ NodesLeft' \in Nat
      BY <3>6, NodesLeftIs
    <3>8. Cardinality(ToSet(t)) <= Cardinality(ToSet(s))
      BY <3>4, <3>5, FS_Subset
    <3> QED BY <3>5, <3>7, <3>8
  <2> QED BY <2>1, <2>2
<1>4. lists' # lists
  <2>1. <<l, n>> \in Entries' <=> <<l, n>> \notin Entries
    <3>1. CASE Prepend(l, n)
      BY <1>1, <3>1, LinkedFirst, EntryIs DEF Prepend
    <3>2. CASE Unlink(l, n)
      <4>1. n \in ToSet(ListOf(l))
        BY <3>2 DEF Unlink, UnlinkFrom
      <4> QED BY <1>1, <3>2, <4>1, UnlinkedOne, EntryIs DEF Unlink
    <3> QED BY <3>1, <3>2
  <2> QED BY <1>1, <2>1, SameLists
<1>5. Rank' = Rank \/ NodesLeft' < NodesLeft
  BY <1>2, <1>3 DEF Rank
<1> QED BY <1>2, <1>4, <1>5, Lower

\* No sequence of ranks goes down for ever.
LEMMA RanksEnd ==
  ASSUME NEW f \in [Nat -> [1 .. 6 -> Nat]]
  PROVE  \E n \in Nat : ~Below(f[n + 1], f[n])
<1>1. 6 \in Nat
  OBVIOUS
<1>2. \E n \in Nat :
        ~ \E k \in 1 .. 6 : f[n + 1][k] < f[n][k] /\ \A j \in 1 .. k - 1 : f[n + 1][j] = f[n][j]
  BY ONLY <1>1, f \in [Nat -> [1 .. 6 -> Nat]], TuplesEnd
<1> QED BY <1>2 DEF Below

\* Every call of ush_service that does not come back to the editor brings the
\* search nearer to its end, in an order of tuples of naturals that has no
\* infinite descent; nodes linked and unlinked meanwhile never put the end off.
THEOREM TabAdvancesHolds ==
  ASSUME Fits
  PROVE  Spec => TabAdvances
<1> DEFINE IInv == SearchInv
           Nearer ==
             state' # "READ_CHAR" =>
               /\ Rank' \in [1 .. 6 -> Nat]
               /\ state # "READ_CHAR" => Below(Rank', Rank) \/ (lists' # lists /\ Rank' = Rank)
<1>1. Init => IInv
  <2>1. Init => TabInv
    BY DEF Init, TabInv, Idle, Searching
  <2> QED BY <2>1, AutocompBegins, ListingBegins, CompletionBegins DEF SearchInv
<1>2. IInv /\ [Next]_vars => IInv'
  <2> SUFFICES ASSUME SearchInv, [Next]_vars PROVE SearchInv'
    OBVIOUS
  <2>1. AutocompInv' /\ TabInv' /\ ListingInv'
    BY AutocompKept, TabKept, ListingKept DEF SearchInv
  <2>2. CompletionInv'
    BY <2>1, CompletionKept DEF SearchInv, ListingInv
  <2> QED BY <2>1, <2>2 DEF SearchInv
<1>3. IInv /\ IInv' /\ [Next]_vars => [Nearer]_vars
  <2> SUFFICES ASSUME SearchInv, SearchInv', Next, state' # "READ_CHAR" PROVE Nearer
    OBVIOUS
  <2>1. Rank' \in [1 .. 6 -> Nat]
    <3>1. (Fits /\ SearchInv /\ state # "READ_CHAR" => RankTyped)'
      BY Ranked, PTL
    <3>2. RankTyped'
      BY <3>1 DEF Fits
    <3>3. \A a, b, c, d, e, f \in Nat : <<a, b, c, d, e, f>> \in [1 .. 6 -> Nat]
      OBVIOUS
    <3> QED BY <3>2, <3>3 DEF Rank, RankTyped
  <2>2. ASSUME state # "READ_CHAR" PROVE Below(Rank', Rank) \/ (lists' # lists /\ Rank' = Rank)
    <3>1. CASE Editing
      BY <2>2, <3>1 DEF Editing, Type, Backspace, Tab
    <3>2. CASE FinishNone \/ FinishOne \/ RecallSuffix \/ Recall \/ PrintOver
      BY <3>2 DEF FinishNone, FinishOne, RecallSuffix, Recall, PrintOver, Returns
    <3>3. CASE Prepare \/ Start \/ FinishMany \/ FinishDrop \/ BeginPrint \/ FinishPrint \/ Prompt
      BY <3>3, PhaseFalls, Lower
    <3>4. CASE FinishOptimise
      <4>1. CASE Extend(suffixLen)
        BY <3>4, <4>1, ExtendNearer DEF FinishOptimise
      <4>2. CASE Extended(suffixLen)
        BY <3>4, <4>2, PhaseFalls, Lower DEF FinishOptimise
      <4> QED BY <3>4, <4>1, <4>2 DEF FinishOptimise
    <3>5. CASE StageEnds \/ NodeEnds \/ Skip \/ Count \/ EndRow \/ Pass
      BY <3>5, LookingNearer
    <3>6. CASE SearchEnds
      BY <3>6, SearchEndsNearer
    <3>7. ASSUME NEW l \in Lists, NEW n \in Nodes, Prepend(l, n) \/ Unlink(l, n)
          PROVE  Below(Rank', Rank) \/ (lists' # lists /\ Rank' = Rank)
      BY <2>2, <3>7, ApplicationDelays
    <3> QED
      BY <3>1, <3>2, <3>3, <3>4, <3>5, <3>6, <3>7 DEF Next, Service, Application
  <2> QED BY <2>1, <2>2
<1> HIDE DEF IInv
<1> QED BY <1>1, <1>2, <1>3, PTL DEF Spec, TabAdvances

=============================================================================
