--------------------------- MODULE UtilityProofs ----------------------------
(***************************************************************************)
(* What the library's utilities promise their callers, for every size and  *)
(* every length.  ush_printf sends from inside the output buffer, and      *)
(* writes past it by one byte at most, in every buffer ush_init takes.  The *)
(* path functions of ush_utils.c split, resolve and part every path that   *)
(* can be typed: by induction over the path, a character at a time, since  *)
(* the code reads it so and the names of a path are said by positions.     *)
(***************************************************************************)
EXTENDS UshPrint, UshPaths, Induction

(***************************************************************************)
(* Printing into the output buffer.                                        *)
(***************************************************************************)

\* The string and its terminator fit, unless the terminator has gone past the
\* buffer; what is to be sent is the string, or, once an error message was forced
\* in, the whole buffer.
PrintInv ==
  /\ TypeOK
  /\ text <= OutSize /\ (end # "outside" => text < OutSize)
  /\ KeepsText /\ end = "text" => size = text /\ pos <= size
  /\ KeepsText /\ end = "error" => size = OutSize /\ text = OutSize - 1 /\ pos <= size

\* What vsnprintf leaves in the buffer.
LEMMA StoresInRoom ==
  ASSUME PrintInv, NEW n \in Nat
  PROVE  /\ Insert \in 0 .. OutSize /\ Stored(n) \in 0 .. n /\ Room \in Nat
         /\ Insert + Stored(n) \in 0 .. OutSize
         /\ Room = OutSize - Insert
         /\ Room # 0 => Insert + Stored(n) < OutSize
         /\ Room = 0 => KeepsText /\ end = "outside" /\ Stored(n) = 0
<1>1. Insert \in 0 .. OutSize /\ Room \in Nat /\ Room = OutSize - Insert
  BY PrintAssumption DEF PrintInv, TypeOK, Insert, Room
<1>2. Room = 0 => KeepsText /\ end = "outside" /\ Stored(n) = 0
  BY PrintAssumption DEF PrintInv, TypeOK, Insert, Room, Stored
<1>3. CASE Room = 0
  BY <1>1, <1>2, <1>3, PrintAssumption
<1>4. CASE Room # 0
  <2>1. Room - 1 \in Nat
    BY <1>1, <1>4
  <2>2. Stored(n) = Min({n, Room - 1})
    BY <1>4 DEF Stored
  <2>3. Stored(n) = IF n <= Room - 1 THEN n ELSE Room - 1
    BY <2>1, <2>2 DEF Min
  <2> QED BY <1>1, <1>4, <2>1, <2>3, PrintAssumption
<1> QED BY <1>3, <1>4

\* An error message is near the buffer, and leaves the string with an end unless
\* the terminator is the one byte past it.
LEMMA SaysErrorKeeps ==
  ASSUME PrintInv, NEW n \in Nat, NEW message \in {OverflowErrorLen, FormatErrorLen},
         SaysError(n, message)
  PROVE  PrintInv' /\ NearBuffer'
<1> DEFINE len == Insert + Stored(n)
           at  == OutSize - (message + 1)
           least == Min({0, OutSize - (OverflowErrorLen + 1)})
<1>1. /\ len \in 0 .. OutSize /\ Insert \in 0 .. OutSize /\ Stored(n) \in Nat
      /\ len = OutSize => KeepsText /\ end = "outside"
  BY StoresInRoom, PrintAssumption
<1>2. message \in {17, 19} /\ OutSize \in Nat /\ OutSize >= 4
  BY PrintAssumption DEF OverflowErrorLen, FormatErrorLen
<1>3. /\ state' = "WRITE_CHAR" /\ source' = "output_buffer" /\ pos' = Sent /\ KeepsText'
      /\ Sent \in Nat /\ Due \in Nat
  BY DEF SaysError, StartPrintf, Sent, Due, KeepsText, PrintInv, TypeOK
<1>4. least = IF OutSize < 20 THEN OutSize - 20 ELSE 0
  BY <1>2 DEF Min, OverflowErrorLen
<1>5. Min({0, at}) = IF at < 0 THEN at ELSE 0
  BY <1>2 DEF Min
<1>6. CASE ErrorFits(len, message)
  <2>1. /\ text' = len + message /\ size' = Due + Stored(n) + message
        /\ touched' = [low |-> 0, high |-> len + message] /\ end' = EndAfter(EndKept)
    BY <1>6 DEF SaysError, Span
  <2>2. text' \in Nat /\ text' <= OutSize
    BY <1>1, <1>2, <1>6, <2>1 DEF ErrorFits
  <2>3. NearBuffer'
    <3>1. touched.low' = 0 /\ touched.high' = text'
      BY <2>1
    <3>2. text' = OutSize => end' = "outside"
      BY <2>1, <2>2, <1>2 DEF EndAfter
    <3> QED BY <1>2, <1>4, <2>2, <3>1, <3>2 DEF NearBuffer
  <2>4. TypeOK'
    <3>1. size' \in Nat /\ touched' \in [low : Int, high : Int]
      BY <1>1, <1>2, <1>3, <2>1
    <3>2. end' \in {"text", "error", "outside"}
      BY <2>1 DEF EndAfter, EndKept, PrintInv, TypeOK
    <3> QED BY <1>3, <2>2, <3>1, <3>2 DEF TypeOK
  <2>5. CASE end' = "outside"
    BY <2>2, <2>3, <2>4, <2>5 DEF PrintInv
  <2>6. CASE end' # "outside"
    <3>1. end' = EndKept /\ text' < OutSize /\ (KeepsText => end # "outside")
      BY <1>2, <2>1, <2>2, <2>6 DEF EndAfter
    <3>2. CASE KeepsText
      <4>1. Insert = text /\ Due = size /\ Sent = pos /\ end' = end
        BY <3>1, <3>2 DEF Insert, Due, Sent, EndKept
      <4>2. end = "text"
        <5>1. end # "error"
          BY <1>1, <1>2, <1>6, <3>2, <4>1 DEF PrintInv, ErrorFits
        <5> QED BY <5>1, <3>1, <3>2 DEF PrintInv, TypeOK
      <4>3. size = text /\ pos <= size /\ pos \in Nat /\ size \in Nat
        BY <3>2, <4>2 DEF PrintInv, TypeOK
      <4>4. size' = text' /\ pos' <= size'
        BY <1>1, <1>2, <1>3, <2>1, <4>1, <4>3
      <4> QED BY <2>2, <2>3, <2>4, <3>1, <4>1, <4>2, <4>4 DEF PrintInv
    <3>3. CASE ~KeepsText
      <4>1. Insert = 0 /\ Due = 0 /\ Sent = 0 /\ end' = "text"
        BY <3>1, <3>3 DEF Insert, Due, Sent, EndKept
      <4>2. size' = text' /\ pos' <= size'
        BY <1>1, <1>2, <1>3, <2>1, <4>1
      <4> QED BY <2>2, <2>3, <2>4, <3>1, <4>1, <4>2 DEF PrintInv
    <3> QED BY <3>2, <3>3
  <2> QED BY <2>3, <2>5, <2>6
<1>7. CASE ~ErrorFits(len, message)
  <2>1. /\ text' = OutSize - 1 /\ size' = OutSize
        /\ touched' = [low |-> Min({0, at}), high |-> Max({len, OutSize - 1})]
        /\ end' = EndAfter("error")
    BY <1>7 DEF SaysError, Span
  <2>2. Max({len, OutSize - 1}) = IF len = OutSize THEN OutSize ELSE OutSize - 1
    BY <1>1, <1>2 DEF Max
  <2>3. end' = IF KeepsText /\ end = "outside" THEN "outside" ELSE "error"
    BY <1>2, <2>1 DEF EndAfter
  <2>4. NearBuffer'
    BY <1>1, <1>2, <1>4, <1>5, <2>1, <2>2, <2>3 DEF NearBuffer
  <2>5. Sent <= OutSize \/ (KeepsText /\ end = "outside")
    BY <1>2 DEF Sent, PrintInv, TypeOK
  <2>6. TypeOK'
    BY <1>1, <1>2, <1>3, <1>5, <2>1, <2>2, <2>3 DEF TypeOK
  <2> QED BY <1>2, <1>3, <2>1, <2>3, <2>4, <2>5, <2>6 DEF PrintInv
<1> QED BY <1>6, <1>7

\* A text that fits is cut nowhere.
LEMMA PrintfFitsKeeps ==
  ASSUME PrintInv, NEW n \in Nat, PrintfFits(n)
  PROVE  PrintInv' /\ NearBuffer'
<1>1. /\ Insert \in 0 .. OutSize /\ Insert + n \in 0 .. OutSize
      /\ Insert + n = OutSize => KeepsText /\ end = "outside" /\ n = 0
      /\ OutSize \in Nat /\ OutSize >= 4
  BY StoresInRoom, PrintAssumption DEF PrintfFits
<1>2. /\ state' = "WRITE_CHAR" /\ source' = "output_buffer" /\ pos' = Sent /\ KeepsText'
      /\ text' = Insert + n /\ size' = Due + n /\ end' = EndAfter(EndKept)
      /\ touched' = [low |-> 0, high |-> Insert + n]
  BY DEF PrintfFits, StartPrintf, KeepsText, Span
<1>3. end' = IF KeepsText /\ end = "outside" THEN "outside" ELSE EndKept
  BY <1>1, <1>2 DEF EndAfter
<1>4. Min({0, OutSize - (OverflowErrorLen + 1)}) = IF OutSize < 20 THEN OutSize - 20 ELSE 0
  BY <1>1 DEF Min, OverflowErrorLen
<1>5. NearBuffer'
  BY <1>1, <1>2, <1>3, <1>4 DEF NearBuffer
<1>6. CASE KeepsText
  <2>1. Insert = text /\ Due = size /\ Sent = pos /\ end' = end
    BY <1>3, <1>6 DEF Insert, Due, Sent, EndKept
  <2>2. end = "error" => n = 0
    BY <1>1, <1>6, <2>1 DEF PrintInv
  <2> QED BY <1>1, <1>2, <1>5, <1>6, <2>1, <2>2 DEF PrintInv, TypeOK
<1>7. CASE ~KeepsText
  <2>1. Insert = 0 /\ Due = 0 /\ Sent = 0 /\ end' = "text"
    BY <1>3, <1>7 DEF Insert, Due, Sent, EndKept
  <2> QED BY <1>1, <1>2, <1>5, <2>1 DEF PrintInv, TypeOK
<1> QED BY <1>6, <1>7

\* Every step keeps the invariant and is near the buffer.
LEMMA PrintKeeps ==
  ASSUME PrintInv, Next
  PROVE  PrintInv' /\ NearBuffer'
<1>1. ASSUME touched' = Nothing PROVE NearBuffer'
  <2>1. Min({0, OutSize - (OverflowErrorLen + 1)}) = IF OutSize < 20 THEN OutSize - 20 ELSE 0
    BY PrintAssumption DEF Min, OverflowErrorLen
  <2> QED BY <1>1, <2>1, PrintAssumption DEF NearBuffer, Nothing
<1>2. ASSUME NEW n \in 0 .. 3, Echo(n) PROVE PrintInv' /\ NearBuffer'
  <2>1. Min({0, OutSize - (OverflowErrorLen + 1)}) = IF OutSize < 20 THEN OutSize - 20 ELSE 0
    BY PrintAssumption DEF Min, OverflowErrorLen
  <2> QED BY <1>2, <2>1, PrintAssumption DEF Echo, Span, PrintInv, TypeOK, KeepsText, NearBuffer
<1>3. ASSUME NEW n \in Lengths, PrintText(n) PROVE PrintInv' /\ NearBuffer'
  BY <1>1, <1>3, PrintAssumption DEF PrintText, PrintInv, TypeOK, KeepsText, Nothing
<1>4. ASSUME NEW n \in Lengths, Printf(n) PROVE PrintInv' /\ NearBuffer'
  <2>1. n \in Nat
    BY PrintAssumption
  <2>2. \/ PrintfFits(n)
        \/ \E message \in {OverflowErrorLen, FormatErrorLen} : SaysError(n, message)
    BY <1>4 DEF Printf, PrintfOverflows, PrintfFails
  <2> QED BY <2>1, <2>2, PrintfFitsKeeps, SaysErrorKeeps
<1>5. CASE Flush
  BY <1>1, <1>5, PrintAssumption DEF Flush, PrintInv, TypeOK, KeepsText, Nothing
<1>6. CASE SendByte
  BY <1>1, <1>6 DEF SendByte, PrintInv, TypeOK, KeepsText, Nothing
<1>7. CASE SendEnd
  BY <1>1, <1>7 DEF SendEnd, PrintInv, TypeOK, KeepsText, Nothing
<1> QED BY <1>2, <1>3, <1>4, <1>5, <1>6, <1>7 DEF Next

\* The inductive invariant of the output buffer: every call of ush_printf,
\* ush_print, ush_flush and the echo, and every byte sent, keeps it, in every
\* buffer that ush_init takes.
THEOREM PrintInvariant == Spec => []PrintInv
<1>1. Init => PrintInv
  BY PrintAssumption DEF Init, PrintInv, TypeOK, KeepsText, Nothing
<1>2. PrintInv /\ [Next]_vars => PrintInv'
  BY PrintKeeps DEF PrintInv, TypeOK, KeepsText, vars
<1> QED BY <1>1, <1>2, PTL DEF Spec

\* As long as its string ends inside the buffer, a call of ush_printf writes
\* past the buffer by one terminator or not at all, and in front of it only if it
\* is shorter than the longer error message.
THEOREM PrintfWritesNearBuffer == Spec => WritesNearBuffer
<1>1. PrintInv /\ [Next]_vars => [end # "outside" => NearBuffer']_vars
  BY PrintKeeps
<1> QED BY <1>1, PrintInvariant, PTL DEF Spec, WritesNearBuffer

\* The steps of an application whose formats never fail.
NextSound == \/ \E n \in 0 .. 3 : Echo(n)
             \/ \E n \in Lengths : PrintText(n) \/ PrintfFits(n) \/ PrintfOverflows(n)
             \/ Flush \/ SendByte \/ SendEnd

LEMMA OverflowStaysInside ==
  ASSUME OutSize > OverflowErrorLen, PrintInv, end # "outside", NEW n \in Nat, PrintfOverflows(n)
  PROVE  end' # "outside"
<1>1. /\ Insert + Stored(n) < OutSize /\ Room - 1 \in Nat /\ Room = OutSize - Insert
      /\ Insert \in 0 .. OutSize /\ Stored(n) = Min({n, Room - 1})
  BY StoresInRoom, PrintAssumption DEF Stored
<1>2. n > Stored(n)
  BY DEF PrintfOverflows
<1>3. Stored(n) = Room - 1
  BY <1>1, <1>2 DEF Min
<1>4. Insert + Stored(n) = OutSize - 1
  BY <1>1, <1>3, PrintAssumption
<1>5. ~ErrorFits(Insert + Stored(n), OverflowErrorLen)
  BY <1>4, PrintAssumption DEF ErrorFits, OverflowErrorLen
<1>6. text' = OutSize - 1 /\ end' = EndAfter("error")
  BY <1>5 DEF PrintfOverflows, SaysError
<1> QED BY <1>6, PrintAssumption DEF EndAfter

\* Nothing is written outside of an output buffer longer than the overflow message
\* by an application whose formats never fail: the message is then always forced
\* in at the end.
THEOREM PrintfWritesInBuffer ==
  ASSUME OutSize > OverflowErrorLen
  PROVE  Init /\ [][NextSound]_vars => []WritesInBuffer
<1> DEFINE IInv == PrintInv /\ end # "outside" /\ WritesInBuffer
<1>1. Init => IInv
  BY PrintAssumption DEF Init, PrintInv, TypeOK, KeepsText, Nothing, WritesInBuffer
<1>2. ASSUME IInv, NextSound PROVE IInv'
  <2>1. Next
    BY <1>2 DEF Next, NextSound, Printf
  <2>2. PrintInv' /\ NearBuffer'
    BY <1>2, <2>1, PrintKeeps
  <2>3. end' # "outside"
    <3>1. ASSUME NEW n \in Lengths, PrintfFits(n) PROVE end' # "outside"
      <4>1. n \in Nat /\ Insert + n < OutSize /\ text' = Insert + n /\ end' = EndAfter(EndKept)
        BY <1>2, <3>1, StoresInRoom, PrintAssumption DEF PrintfFits
      <4>2. Insert + n \in 0 .. OutSize /\ OutSize \in Nat
        BY <1>2, <3>1, StoresInRoom, <4>1, PrintAssumption DEF PrintfFits
      <4>3. ~(text' >= OutSize)
        BY <4>1, <4>2
      <4> QED BY <1>2, <4>1, <4>3 DEF EndAfter, EndKept
    <3>2. ASSUME NEW n \in Lengths, PrintfOverflows(n) PROVE end' # "outside"
      BY <1>2, <3>2, OverflowStaysInside, PrintAssumption
    <3>3. CASE \E n \in 0 .. 3 : Echo(n)
      BY <3>3 DEF Echo
    <3>4. CASE \E n \in Lengths : PrintText(n)
      BY <1>2, <3>4 DEF PrintText
    <3>5. CASE Flush \/ SendByte \/ SendEnd
      BY <1>2, <3>5 DEF Flush, SendByte, SendEnd
    <3> QED BY <1>2, <3>1, <3>2, <3>3, <3>4, <3>5 DEF NextSound
  <2>4. Min({0, OutSize - (OverflowErrorLen + 1)}) = 0
    BY PrintAssumption DEF Min, OverflowErrorLen
  <2> QED BY <2>2, <2>3, <2>4 DEF NearBuffer, WritesInBuffer
<1>3. IInv /\ UNCHANGED vars => IInv'
  BY DEF PrintInv, TypeOK, KeepsText, WritesInBuffer, vars
<1> QED BY <1>1, <1>2, <1>3, PTL

\* The count of bytes to send is the length of the string in the buffer, as
\* long as no error message was forced into it.
THEOREM PrintfCountsText == Spec => []CountsText
<1>1. PrintInv => CountsText
  BY DEF PrintInv, CountsText
<1> QED BY <1>1, PrintInvariant, PTL

\* The writer never sends bytes from behind the output buffer.
THEOREM PrintfSendsFromBuffer == Spec => []SendsFromBuffer
<1>1. PrintInv => SendsFromBuffer
  BY PrintAssumption DEF PrintInv, TypeOK, KeepsText, SendsFromBuffer
<1> QED BY <1>1, PrintInvariant, PTL

-----------------------------------------------------------------------------
(***************************************************************************)
(* Counting the "/" of a path.                                             *)
(***************************************************************************)
SlashPlaces(p) == {k \in Nat : k \in DOMAIN p /\ p[k] = "/"}

\* The "/" up to the k-th character, and those behind the first.
UpTo(p, k)   == CountIn(SlashPlaces(p), 0, k)
Behind(p, k) == CountIn(SlashPlaces(p), 1, k)

\* The counts of a path with one character more.
LEMMA CountsAppend ==
  ASSUME NEW p \in Seq(Chars), NEW c \in Chars
  PROVE  /\ Len(p) \in Nat
         /\ \A k \in 0 .. Len(p) : UpTo(Append(p, c), k) = UpTo(p, k) /\ UpTo(p, k) \in Nat
         /\ UpTo(Append(p, c), Len(p) + 1) = UpTo(p, Len(p)) + (IF c = "/" THEN 1 ELSE 0)
         /\ UpTo(<< >>, 0) = 0
<1> DEFINE q == Append(p, c)
           n == Len(p)
<1>1. /\ n \in Nat /\ DOMAIN p = 1 .. n /\ DOMAIN q = 1 .. n + 1
      /\ \A i \in 1 .. n : q[i] = p[i]
      /\ q[n + 1] = c
  <2>1. q \in Seq(Chars) /\ Len(q) = n + 1
    BY AppendFacts
  <2> QED BY <2>1, AppendFacts, LenProperties
<1> HIDE DEF q, n
<1>2. \A i \in 1 .. n : i \in SlashPlaces(q) <=> i \in SlashPlaces(p)
  BY <1>1 DEF SlashPlaces
<1>3. n + 1 \in SlashPlaces(q) <=> c = "/"
  BY <1>1 DEF SlashPlaces
<1>4. ASSUME NEW k \in 0 .. n PROVE UpTo(q, k) = UpTo(p, k) /\ UpTo(p, k) \in Nat
  <2>1. \A i \in 0 + 1 .. k : i \in 1 .. n
    BY <1>1
  <2>2. {i \in 0 + 1 .. k : i \in SlashPlaces(q)} = {i \in 0 + 1 .. k : i \in SlashPlaces(p)}
    BY <1>2, <2>1
  <2>3. CountsOnward(SlashPlaces(p), 0, k)
    <3>1. k \in Nat /\ 0 <= k
      BY <1>1
    <3> QED BY <3>1, CountGoesOn
  <2>4. UpTo(p, k) \in Nat
    BY <2>3 DEF UpTo, CountsOnward
  <2> QED BY <2>2, <2>4 DEF UpTo, CountIn
<1>5. UpTo(q, n + 1) = UpTo(q, n) + (IF n + 1 \in SlashPlaces(q) THEN 1 ELSE 0)
  <2>1. CountsOnward(SlashPlaces(q), 0, n)
    BY <1>1, CountGoesOn
  <2> QED BY <2>1 DEF UpTo, CountsOnward, One
<1>6. UpTo(<< >>, 0) = 0
  <2>1. CountsOnward(SlashPlaces(<< >>), 0, 0)
    BY CountGoesOn
  <2> QED BY <2>1 DEF UpTo, CountsOnward
<1>7. UpTo(q, n) = UpTo(p, n)
  BY <1>1, <1>4
<1> QED BY <1>1, <1>3, <1>4, <1>5, <1>6, <1>7 DEF q, n

\* The level of the k-th character, by these counts.
LEMMA LevelCounts ==
  ASSUME NEW p \in Seq(Chars), NEW k \in 1 .. Len(p)
  PROVE  /\ LevelAt(p, k) = 1 + Behind(p, k) /\ Behind(p, k) \in Nat
         /\ UpTo(p, k) = (IF p[1] = "/" THEN 1 ELSE 0) + Behind(p, k)
<1>1. Len(p) \in Nat /\ DOMAIN p = 1 .. Len(p)
  BY LenProperties
<1>2. \A j \in 2 .. k : j \in Nat /\ j \in DOMAIN p
  BY <1>1
<1>3. {j \in 2 .. k : p[j] = "/"} = {j \in 1 + 1 .. k : j \in SlashPlaces(p)}
  BY <1>2 DEF SlashPlaces
<1>4. LevelAt(p, k) = 1 + Behind(p, k)
  BY <1>3 DEF LevelAt, Behind, CountIn
<1>5. k \in Nat /\ k >= 1 /\ 1 \in DOMAIN p
  BY <1>1
<1>6. One(SlashPlaces(p), 1) = IF p[1] = "/" THEN 1 ELSE 0
  BY <1>5 DEF SlashPlaces, One
<1> QED BY <1>4, <1>5, <1>6, FirstCounted DEF UpTo, Behind

-----------------------------------------------------------------------------
(***************************************************************************)
(* Splitting a path, character by character.                               *)
(***************************************************************************)
SplitStates == [state : {0, 1}, nodes : Seq(Seq(Chars))]

\* g[k] is the split after k characters.
SplitsBy(g, p) ==
  /\ g \in [0 .. Len(p) -> SplitStates]
  /\ g[0] = NothingSplit
  /\ \A k \in 1 .. Len(p) : g[k] = SplitChar(g[k - 1], p[k])

SplitsTo(p, st) == \E g : SplitsBy(g, p) /\ g[Len(p)] = st

\* What one character makes of the names that the path is split into.
LEMMA SplitCharType ==
  ASSUME NEW st \in SplitStates, NEW c \in Chars
  PROVE  /\ SplitChar(st, c) \in SplitStates
         /\ Len(st.nodes) \in Nat
         /\ st.state = 0 => SplitChar(st, c).state = (IF c = "/" THEN 1 ELSE 0)
                            /\ Len(SplitChar(st, c).nodes) = Len(st.nodes)
         /\ st.state # 0 => SplitChar(st, c).state = 0
                            /\ Len(SplitChar(st, c).nodes) = Len(st.nodes) + 1
<1> DEFINE ns == st.nodes
           n  == Len(ns)
<1>1. ns \in Seq(Seq(Chars)) /\ st.state \in {0, 1} /\ st = [state |-> st.state, nodes |-> ns]
  BY DEF SplitStates
<1>2. n \in Nat /\ ns \in [1 .. n -> Seq(Chars)]
  BY <1>1, LenProperties
<1>3. CASE st.state = 0 /\ c = "/"
  <2>1. SplitChar(st, c) = [state |-> 1, nodes |-> ns]
    BY <1>1, <1>3 DEF SplitChar
  <2> QED BY <1>1, <1>2, <1>3, <2>1 DEF SplitStates
<1>4. CASE st.state = 0 /\ c # "/"
  <2> DEFINE ms == [ns EXCEPT ![n] = Append(@, c)]
  <2>1. SplitChar(st, c) = [state |-> 0, nodes |-> ms]
    BY <1>1, <1>4 DEF SplitChar
  <2>2. ms \in Seq(Seq(Chars)) /\ Len(ms) = n
    <3>1. CASE n = 0
      <4>1. ns = << >>
        BY <1>1, <3>1, EmptySeq
      <4>2. ms = << >>
        BY <4>1, <3>1
      <4> QED BY <4>1, <4>2, <1>1
    <3>2. CASE n # 0
      <4>1. n \in 1 .. n /\ ns[n] \in Seq(Chars)
        BY <3>2, <1>2
      <4>2. Append(ns[n], c) \in Seq(Chars)
        BY <4>1, AppendProperties
      <4> QED BY ONLY <1>1, <4>1, <4>2, ExceptSeq
    <3> QED BY <3>1, <3>2
  <2> HIDE DEF ms
  <2> QED BY <1>2, <1>4, <2>1, <2>2 DEF SplitStates
<1>5. CASE st.state # 0
  <2>1. SplitChar(st, c) = [state |-> 0, nodes |-> Append(ns, <<c>>)]
    BY <1>5 DEF SplitChar
  <2>2. <<c>> \in Seq(Chars)
    OBVIOUS
  <2>3. Append(ns, <<c>>) \in Seq(Seq(Chars)) /\ Len(Append(ns, <<c>>)) = n + 1
    BY <1>1, <2>2, AppendProperties
  <2> QED BY <1>2, <1>5, <2>1, <2>3 DEF SplitStates
<1> QED BY <1>3, <1>4, <1>5

\* Nothing is split into nothing.
LEMMA SplitBegins == SplitsTo(<< >>, NothingSplit)
<1> DEFINE g == [k \in 0 .. 0 |-> NothingSplit]
<1>1. NothingSplit \in SplitStates
  BY DEF NothingSplit, SplitStates
<1>2. Len(<< >>) = 0 /\ 1 .. 0 = {} /\ 0 \in 0 .. 0
  OBVIOUS
<1>3. SplitsBy(g, << >>) /\ g[Len(<< >>)] = NothingSplit
  BY <1>1, <1>2 DEF SplitsBy
<1> QED BY <1>3 DEF SplitsTo

\* A path with one character more is split by one step more.
LEMMA SplitGoesOn ==
  ASSUME NEW p \in Seq(Chars), NEW c \in Chars, NEW st, SplitsTo(p, st)
  PROVE  st \in SplitStates /\ SplitsTo(Append(p, c), SplitChar(st, c))
<1> DEFINE n == Len(p)
           q == Append(p, c)
<1>1. PICK g : SplitsBy(g, p) /\ g[n] = st
  BY DEF SplitsTo
<1>2. n \in Nat /\ Len(q) = n + 1 /\ q[n + 1] = c /\ \A k \in 1 .. n : q[k] = p[k]
  BY AppendFacts
<1>3. /\ g \in [0 .. n -> SplitStates] /\ g[0] = NothingSplit
      /\ \A k \in 1 .. n : g[k] = SplitChar(g[k - 1], p[k])
  BY <1>1 DEF SplitsBy
<1> DEFINE h == [k \in 0 .. n + 1 |-> IF k = n + 1 THEN SplitChar(st, c) ELSE g[k]]
<1> HIDE DEF n, q
<1>4. st \in SplitStates /\ SplitChar(st, c) \in SplitStates
  <2>1. n \in 0 .. n
    BY <1>2
  <2>2. st \in SplitStates
    BY <1>1, <1>3, <2>1
  <2> QED BY <2>2, SplitCharType
<1>5. \A k \in 0 .. n + 1 : k # n + 1 => k \in 0 .. n
  BY <1>2
<1>6. h \in [0 .. n + 1 -> SplitStates]
  BY <1>3, <1>4, <1>5
<1>7. /\ h[n + 1] = SplitChar(st, c)
      /\ \A k \in 0 .. n : h[k] = g[k]
  <2>1. n + 1 \in 0 .. n + 1 /\ \A k \in 0 .. n : k \in 0 .. n + 1 /\ k # n + 1
    BY <1>2
  <2> QED BY <2>1
<1> HIDE DEF h
<1>8. ASSUME NEW k \in 1 .. n + 1 PROVE h[k] = SplitChar(h[k - 1], q[k])
  <2>1. CASE k = n + 1
    <3>1. k - 1 = n /\ n \in 0 .. n
      BY <1>2, <2>1
    <3> QED BY <1>1, <1>2, <1>7, <2>1, <3>1 DEF n
  <2>2. CASE k # n + 1
    <3>1. k \in 1 .. n /\ k \in 0 .. n /\ k - 1 \in 0 .. n
      BY <1>2, <2>2
    <3> QED BY <1>2, <1>3, <1>7, <3>1
  <2> QED BY <2>1, <2>2
<1>9. h[0] = NothingSplit
  <2>1. 0 \in 0 .. n
    BY <1>2
  <2> QED BY <1>3, <1>7, <2>1
<1>10. SplitsBy(h, q) /\ h[Len(q)] = SplitChar(st, c)
  BY <1>2, <1>6, <1>7, <1>8, <1>9 DEF SplitsBy
<1>11. SplitsTo(q, SplitChar(st, c))
  BY <1>10 DEF SplitsTo
<1> QED BY <1>4, <1>11 DEF q

\* The function of Split is the one with these steps.
LEMMA SplitIs ==
  ASSUME NEW p \in Seq(Chars), NEW st, SplitsTo(p, st)
  PROVE  Split(p) = IF st.state = 1 THEN Append(st.nodes, << >>) ELSE st.nodes
<1> DEFINE n == Len(p)
           Is(g) == g = [k \in 0 .. n |-> IF k = 0 THEN NothingSplit ELSE SplitChar(g[k - 1], p[k])]
           split == CHOOSE g : Is(g)
<1>1. PICK g : SplitsBy(g, p) /\ g[n] = st
  BY DEF SplitsTo
<1>2. Split(p) = IF split[n].state = 1 THEN Append(split[n].nodes, << >>) ELSE split[n].nodes
  BY DEF Split
<1>3. n \in Nat
  BY LenProperties
<1>4. /\ g \in [0 .. n -> SplitStates] /\ g[0] = NothingSplit
      /\ \A k \in 1 .. n : g[k] = SplitChar(g[k - 1], p[k])
  BY <1>1 DEF SplitsBy
<1> HIDE DEF n
<1>5. Is(g)
  <2>1. \A k \in 0 .. n : k # 0 => k \in 1 .. n
    BY <1>3
  <2>2. \A k \in 0 .. n : g[k] = IF k = 0 THEN NothingSplit ELSE SplitChar(g[k - 1], p[k])
    BY <1>4, <2>1
  <2> QED BY <1>4, <2>2
<1>6. Is(split)
  <2> HIDE DEF Is
  <2> QED BY <1>5
<1> HIDE DEF split
<1>7. split[0] = NothingSplit /\ \A k \in 1 .. n : split[k] = SplitChar(split[k - 1], p[k])
  <2>1. 0 \in 0 .. n /\ \A k \in 1 .. n : k \in 0 .. n /\ k # 0
    BY <1>3
  <2> QED BY <1>6, <2>1
<1> DEFINE Agree == {k \in 0 .. n : split[k] = g[k]}
<1>8. 0 \in Agree
  BY <1>3, <1>4, <1>7
<1>9. ASSUME NEW k \in 1 .. n, k - 1 \in Agree PROVE k \in Agree
  <2>1. split[k - 1] = g[k - 1] /\ k \in 0 .. n
    BY <1>3, <1>9
  <2> QED BY <1>4, <1>7, <2>1
<1>10. \A k \in 0 .. n : k \in Agree
  <2> HIDE DEF Agree
  <2> QED BY <1>3, <1>8, <1>9, IntervalInduction
<1>11. split[n] = st
  <2>1. n \in 0 .. n
    BY <1>3
  <2> QED BY <1>1, <1>10, <2>1 DEF n
<1> QED BY <1>2, <1>11

\* A name begins behind a "/" only: there are at most as many as these.
LEMMA SplitCounts ==
  \A p \in Seq(Chars) : \E st \in SplitStates :
     SplitsTo(p, st) /\ Len(st.nodes) + st.state <= UpTo(p, Len(p))
<1> DEFINE Good(p) == \E st \in SplitStates :
                         SplitsTo(p, st) /\ Len(st.nodes) + st.state <= UpTo(p, Len(p))
           G == {p \in Seq(Chars) : Good(p)}
<1>1. << >> \in G
  <2>1. NothingSplit \in SplitStates /\ Len(NothingSplit.nodes) + NothingSplit.state = 0
    BY DEF NothingSplit, SplitStates
  <2>2. UpTo(<< >>, Len(<< >>)) = 0
    <3>1. UpTo(<< >>, 0) = 0
      BY CountNext DEF UpTo
    <3> QED BY <3>1
  <2>3. Good(<< >>)
    BY <2>1, <2>2, SplitBegins
  <2> QED BY <2>3
<1>2. ASSUME NEW p \in Seq(Chars), p \in G, NEW c \in Chars PROVE Append(p, c) \in G
  <2> DEFINE q == Append(p, c)
  <2>1. PICK st \in SplitStates : SplitsTo(p, st) /\ Len(st.nodes) + st.state <= UpTo(p, Len(p))
    BY <1>2
  <2> DEFINE su == SplitChar(st, c)
  <2>2. SplitsTo(q, su)
    BY <2>1, SplitGoesOn
  <2>3. /\ su \in SplitStates /\ Len(st.nodes) \in Nat /\ st.state \in {0, 1}
        /\ st.state = 0 => su.state = (IF c = "/" THEN 1 ELSE 0) /\ Len(su.nodes) = Len(st.nodes)
        /\ st.state # 0 => su.state = 0 /\ Len(su.nodes) = Len(st.nodes) + 1
    <3>1. st.state \in {0, 1}
      BY DEF SplitStates
    <3> QED BY <3>1, SplitCharType
  <2>4. /\ UpTo(p, Len(p)) \in Nat /\ Len(q) = Len(p) + 1
        /\ UpTo(q, Len(p) + 1) = UpTo(p, Len(p)) + (IF c = "/" THEN 1 ELSE 0)
    <3>1. Len(p) \in Nat /\ Len(q) = Len(p) + 1
      BY AppendFacts
    <3>2. Len(p) \in 0 .. Len(p)
      BY <3>1
    <3> QED BY <3>1, <3>2, CountsAppend
  <2> HIDE DEF su, q
  <2>5. Len(su.nodes) + su.state <= UpTo(q, Len(q))
    BY <2>1, <2>3, <2>4
  <2>6. q \in Seq(Chars)
    BY AppendFacts DEF q
  <2>7. Good(q)
    BY <2>2, <2>3, <2>5
  <2> QED BY <2>6, <2>7 DEF q
<1>3. \A p \in Seq(Chars) : p \in G
  <2> HIDE DEF G
  <2> QED BY <1>1, <1>2, AppendInduction
<1> QED BY <1>3

\* The root is a path.
LEMMA RootIsPath == Root \in Seq(Chars)
<1>1. "/" \in Chars
  BY DEF Chars
<1> QED BY <1>1 DEF Root

\* ush_utils_join_path makes a path of a path and a name.
LEMMA JoinedPaths ==
  ASSUME NEW p \in Seq(Chars), NEW t \in Seq(Chars)
  PROVE  JoinPath(p, t) \in Seq(Chars)
<1>1. Root \in Seq(Chars)
  BY RootIsPath
<1>2. p \o t \in Seq(Chars) /\ p \o Root \in Seq(Chars)
  BY ONLY <1>1, p \in Seq(Chars), t \in Seq(Chars), ConcatProperties
<1>3. (p \o Root) \o t \in Seq(Chars)
  BY ONLY <1>2, t \in Seq(Chars), ConcatProperties
<1> QED BY <1>2, <1>3 DEF JoinPath

\* The inductive invariant: what is typed and the current node's path are paths.
PathsTyped == typed \in Seq(Chars) /\ current \in Currents

\* Typing keeps the invariant.
LEMMA PathsTypedHolds == PathSpec => []PathsTyped
<1>1. PathInit => PathsTyped
  BY DEF PathInit, PathsTyped
<1>2. PathsTyped /\ [PathNext]_pathVars => PathsTyped'
  <2> SUFFICES ASSUME PathsTyped, [PathNext]_pathVars PROVE PathsTyped'
    OBVIOUS
  <2>1. ASSUME NEW ch \in Chars, Type(ch) PROVE PathsTyped'
    BY <2>1, AppendProperties DEF Type, PathsTyped
  <2>2. CASE UNCHANGED pathVars
    BY <2>2 DEF PathsTyped, pathVars
  <2> QED BY <2>1, <2>2 DEF PathNext
<1> QED BY <1>1, <1>2, PTL DEF PathSpec

\* A path without the "/" at its end is a path.
LEMMA TrimmedPaths ==
  ASSUME NEW p \in Seq(Chars)
  PROVE  Trimmed(p) \in Seq(Chars)
<1>1. CASE Len(p) > 1 /\ Last(p) = "/"
  <2>1. p # << >>
    BY <1>1
  <2> QED BY <2>1, <1>1, FrontLast DEF Trimmed
<1>2. CASE ~(Len(p) > 1 /\ Last(p) = "/")
  BY <1>2 DEF Trimmed
<1> QED BY <1>1, <1>2

\* As many names as levels, at most.
LEMMA SplitLen ==
  ASSUME NEW p \in Seq(Chars), p # Root
  PROVE  Len(Split(p)) <= LevelsCount(p)
<1>1. PICK st \in SplitStates : SplitsTo(p, st) /\ Len(st.nodes) + st.state <= UpTo(p, Len(p))
  BY SplitCounts
<1>2. st.nodes \in Seq(Seq(Chars)) /\ Len(st.nodes) \in Nat /\ st.state \in {0, 1}
  <2>1. st.nodes \in Seq(Seq(Chars)) /\ st.state \in {0, 1}
    BY DEF SplitStates
  <2> QED BY <2>1, LenProperties
<1>3. Len(Split(p)) = Len(st.nodes) + st.state
  <2>1. Split(p) = IF st.state = 1 THEN Append(st.nodes, << >>) ELSE st.nodes
    BY <1>1, SplitIs
  <2>2. << >> \in Seq(Chars)
    OBVIOUS
  <2>3. Len(Append(st.nodes, << >>)) = Len(st.nodes) + 1
    BY ONLY <1>2, <2>2, AppendProperties
  <2> QED BY <1>2, <2>1, <2>3
<1>4. CASE p = << >>
  <2>1. UpTo(p, Len(p)) = 0
    <3>1. Len(p) = 0 /\ "/" \in Chars
      BY <1>4 DEF Chars
    <3>2. UpTo(<< >>, 0) = 0
      BY <3>1, CountsAppend
    <3> QED BY <1>4, <3>1, <3>2
  <2>2. LevelsCount(p) = 0
    BY <1>4 DEF LevelsCount
  <2> QED BY <1>1, <1>2, <1>3, <2>1, <2>2
<1>5. CASE p # << >>
  <2>1. LevelsCount(p) = LevelAt(p, Len(p))
    BY <1>5 DEF LevelsCount
  <2>2. Len(p) \in 1 .. Len(p)
    <3>1. Len(p) \in Nat /\ Len(p) # 0
      BY <1>5, EmptySeq
    <3> QED BY <3>1
  <2>3. /\ LevelAt(p, Len(p)) = 1 + Behind(p, Len(p)) /\ Behind(p, Len(p)) \in Nat
        /\ UpTo(p, Len(p)) = (IF p[1] = "/" THEN 1 ELSE 0) + Behind(p, Len(p))
    BY <2>2, LevelCounts
  <2>4. UpTo(p, Len(p)) <= LevelAt(p, Len(p)) /\ UpTo(p, Len(p)) \in Nat /\ LevelAt(p, Len(p)) \in Nat
    BY <2>3
  <2> QED BY <1>1, <1>2, <1>3, <2>1, <2>4
<1> QED BY <1>4, <1>5

\* ush_utils_get_collapse_path makes an array on the stack with one place per level
\* of the path: whatever is typed, the names that it then finds in the path, empty
\* ones and all, fit in it.
THEOREM SplitFitsHolds == PathSpec => []SplitFits
<1>1. PathsTyped => SplitFits
  <2> SUFFICES ASSUME PathsTyped PROVE SplitFits
    OBVIOUS
  <2>1. typed \in Seq(Chars) /\ current \in Seq(Chars)
    BY PathsAssumption DEF PathsTyped
  <2>2. Anchored(typed) \in Seq(Chars)
    BY <2>1, JoinedPaths DEF Anchored
  <2> QED BY <2>2, TrimmedPaths, SplitLen DEF SplitFits
<1> QED BY <1>1, PathsTypedHolds, PTL

(***************************************************************************)
(* The names of a path with one character more.                            *)
(***************************************************************************)
Inside(p) == DOMAIN p \ Slashes(p)

\* How many names begin up to the k-th character.
NamesUpTo(p, k) == CountIn(Beginnings(p), 0, k)

Begun(p, c) == c # "/" /\ (p = << >> \/ Last(p) = "/")

\* The character that comes last begins a name if it is the first or follows a "/".
LEMMA BeginningsAppend ==
  ASSUME NEW p \in Seq(Chars), NEW c \in Chars
  PROVE  LET q == Append(p, c)
             n == Len(p)
         IN  /\ n \in Nat /\ Inside(p) \subseteq 1 .. n /\ Inside(q) \subseteq 1 .. n + 1
             /\ \A k \in 1 .. n : k \in Inside(q) <=> k \in Inside(p)
             /\ n + 1 \in Inside(q) <=> c # "/"
             /\ Beginnings(p) \subseteq Inside(p) /\ Beginnings(q) \subseteq Inside(q)
             /\ \A k \in 1 .. n : k \in Beginnings(q) <=> k \in Beginnings(p)
             /\ n + 1 \in Beginnings(q) <=> Begun(p, c)
<1> DEFINE q == Append(p, c)
           n == Len(p)
<1>1. /\ n \in Nat /\ DOMAIN p = 1 .. n /\ DOMAIN q = 1 .. n + 1
      /\ \A i \in 1 .. n : q[i] = p[i]
      /\ q[n + 1] = c
  <2>1. q \in Seq(Chars) /\ Len(q) = n + 1
    BY AppendFacts
  <2> QED BY <2>1, AppendFacts, LenProperties
<1>2. p = << >> <=> n = 0
  BY EmptySeq
<1>3. n # 0 => Last(p) = p[n]
  BY DEF Last
<1> HIDE DEF q, n
<1>4. /\ Inside(p) \subseteq 1 .. n /\ Inside(q) \subseteq 1 .. n + 1
      /\ \A k \in 1 .. n : k \in Inside(q) <=> k \in Inside(p)
      /\ n + 1 \in Inside(q) <=> c # "/"
  BY <1>1 DEF Inside, Slashes
<1>5. /\ Beginnings(p) \subseteq Inside(p) /\ Beginnings(q) \subseteq Inside(q)
      /\ \A k : k \in Beginnings(p) <=> k \in Inside(p) /\ (k > 1 => k - 1 \in Slashes(p))
      /\ \A k : k \in Beginnings(q) <=> k \in Inside(q) /\ (k > 1 => k - 1 \in Slashes(q))
  BY DEF Beginnings, Inside
<1>6. \A k \in 1 .. n : k \in Slashes(q) <=> k \in Slashes(p)
  BY <1>1 DEF Slashes
<1>7. ASSUME NEW k \in 1 .. n PROVE k \in Beginnings(q) <=> k \in Beginnings(p)
  <2>1. k > 1 => k - 1 \in 1 .. n
    BY <1>1
  <2> QED BY <1>4, <1>5, <1>6, <2>1
<1>8. n + 1 \in Beginnings(q) <=> Begun(p, c)
  <2>1. CASE n = 0
    BY <1>2, <1>4, <1>5, <2>1 DEF Begun
  <2>2. CASE n # 0
    <3>1. n + 1 > 1 /\ (n + 1) - 1 = n /\ n \in 1 .. n
      BY <1>1, <2>2
    <3>2. n \in Slashes(p) <=> Last(p) = "/"
      BY <1>1, <1>3, <2>2, <3>1 DEF Slashes
    <3>3. n + 1 \in Beginnings(q) <=> n + 1 \in Inside(q) /\ n \in Slashes(q)
      BY <1>5, <3>1
    <3> QED BY <1>2, <1>4, <1>6, <2>2, <3>1, <3>2, <3>3 DEF Begun
  <2> QED BY <2>1, <2>2
<1> QED BY <1>1, <1>4, <1>5, <1>7, <1>8 DEF q, n

\* The names that begin up to a character, counted.
LEMMA NamesCount ==
  ASSUME NEW p \in Seq(Chars)
  PROVE  /\ \A k \in Nat : NamesUpTo(p, k) \in Nat
                           /\ Cardinality({b \in Beginnings(p) : b <= k}) = NamesUpTo(p, k)
         /\ Cardinality(Beginnings(p)) = NamesUpTo(p, Len(p))
         /\ NamesUpTo(p, 0) = 0
<1>1. "/" \in Chars
  BY DEF Chars
<1>2. Len(p) \in Nat /\ Beginnings(p) \subseteq 1 .. Len(p)
  BY <1>1, BeginningsAppend
<1>3. ASSUME NEW k \in Nat
      PROVE  NamesUpTo(p, k) \in Nat /\ Cardinality({b \in Beginnings(p) : b <= k}) = NamesUpTo(p, k)
  <2>1. {b \in Beginnings(p) : b <= k} = {i \in 0 + 1 .. k : i \in Beginnings(p)}
    BY <1>2
  <2>2. CountsOnward(Beginnings(p), 0, k)
    BY CountGoesOn
  <2> QED BY <2>1, <2>2 DEF NamesUpTo, CountIn, CountsOnward
<1>4. {b \in Beginnings(p) : b <= Len(p)} = Beginnings(p)
  BY <1>2
<1>5. CountsOnward(Beginnings(p), 0, 0)
  BY CountGoesOn
<1>6. NamesUpTo(p, 0) = 0
  BY <1>5 DEF CountsOnward, NamesUpTo
<1> QED BY <1>2, <1>3, <1>4, <1>6

\* One character more begins a name or does not.
LEMMA NamesCountAppend ==
  ASSUME NEW p \in Seq(Chars), NEW c \in Chars
  PROVE  LET q == Append(p, c)
             n == Len(p)
         IN  /\ \A k \in 0 .. n : NamesUpTo(q, k) = NamesUpTo(p, k) /\ NamesUpTo(p, k) \in Nat
             /\ NamesUpTo(q, n + 1) = NamesUpTo(p, n) + (IF Begun(p, c) THEN 1 ELSE 0)
<1> DEFINE q == Append(p, c)
           n == Len(p)
<1>1. /\ n \in Nat /\ q \in Seq(Chars)
      /\ \A k \in 1 .. n : k \in Beginnings(q) <=> k \in Beginnings(p)
      /\ n + 1 \in Beginnings(q) <=> Begun(p, c)
  BY BeginningsAppend, AppendFacts
<1> HIDE DEF q, n
<1>2. ASSUME NEW k \in 0 .. n PROVE NamesUpTo(q, k) = NamesUpTo(p, k) /\ NamesUpTo(p, k) \in Nat
  <2>1. \A i \in 0 + 1 .. k : i \in 1 .. n
    BY <1>1
  <2>2. {i \in 0 + 1 .. k : i \in Beginnings(q)} = {i \in 0 + 1 .. k : i \in Beginnings(p)}
    BY <1>1, <2>1
  <2>3. k \in Nat
    BY <1>1
  <2> QED BY <2>2, <2>3, NamesCount DEF NamesUpTo, CountIn
<1>3. NamesUpTo(q, n + 1) = NamesUpTo(q, n) + (IF n + 1 \in Beginnings(q) THEN 1 ELSE 0)
  <2>1. CountsOnward(Beginnings(q), 0, n)
    BY <1>1, CountGoesOn
  <2> QED BY <2>1 DEF NamesUpTo, CountsOnward, One
<1>4. n \in 0 .. n
  BY <1>1
<1> QED BY <1>1, <1>2, <1>3, <1>4 DEF q, n

\* The places of a name when the path has one character more.
LEMMA PlacesAppend ==
  ASSUME NEW p \in Seq(Chars), NEW c \in Chars, NEW i
  PROVE  LET q == Append(p, c)
             n == Len(p)
         IN  /\ PlacesOf(p, i) \subseteq 1 .. n /\ PlacesOf(q, i) \subseteq 1 .. n + 1
             /\ \A k \in 1 .. n : k \in PlacesOf(q, i) <=> k \in PlacesOf(p, i)
             /\ n + 1 \in PlacesOf(q, i) <=> c # "/" /\ NamesUpTo(q, n + 1) = i
             /\ \A k \in PlacesOf(p, i) : NamesUpTo(p, k) = i
<1> DEFINE q == Append(p, c)
           n == Len(p)
<1>1. /\ n \in Nat /\ q \in Seq(Chars) /\ Inside(p) \subseteq 1 .. n /\ Inside(q) \subseteq 1 .. n + 1
      /\ \A k \in 1 .. n : k \in Inside(q) <=> k \in Inside(p)
      /\ n + 1 \in Inside(q) <=> c # "/"
  BY BeginningsAppend, AppendFacts
<1>2. \A k \in 0 .. n : NamesUpTo(q, k) = NamesUpTo(p, k)
  BY NamesCountAppend
<1> HIDE DEF q, n
<1>3. \A r \in Seq(Chars) : PlacesOf(r, i) = {k \in Inside(r) :
                                Cardinality({b \in Beginnings(r) : b <= k}) = i}
  BY DEF PlacesOf, Inside
<1>4. ASSUME NEW k \in 1 .. n + 1
      PROVE  /\ k \in PlacesOf(p, i) <=> k \in Inside(p) /\ NamesUpTo(p, k) = i
             /\ k \in PlacesOf(q, i) <=> k \in Inside(q) /\ NamesUpTo(q, k) = i
  <2>1. k \in Nat
    BY <1>1
  <2>2. /\ Cardinality({b \in Beginnings(p) : b <= k}) = NamesUpTo(p, k)
        /\ Cardinality({b \in Beginnings(q) : b <= k}) = NamesUpTo(q, k)
    BY <1>1, <2>1, NamesCount
  <2> QED BY <1>1, <1>3, <2>2
<1>5. \A k \in 1 .. n : k \in 0 .. n /\ k \in 1 .. n + 1
  BY <1>1
<1>6. PlacesOf(p, i) \subseteq 1 .. n /\ PlacesOf(q, i) \subseteq 1 .. n + 1
  BY <1>1, <1>3
<1>7. n + 1 \in 1 .. n + 1
  BY <1>1
<1> QED BY <1>1, <1>2, <1>4, <1>5, <1>6, <1>7 DEF q, n

\* The i-th name of p is from x to y.
Spanned(p, i, x, y) ==
  x \in PlacesOf(p, i) /\ y \in PlacesOf(p, i) /\ \A k \in PlacesOf(p, i) : x <= k /\ k <= y

\* The names ns are from the places a to the places b.
Spans(p, ns, a, b) ==
  /\ ns \in Seq(Seq(Chars)) /\ Len(ns) = NamesUpTo(p, Len(p))
  /\ \A k \in 0 .. Len(p) : NamesUpTo(p, k) <= Len(ns)
  /\ \A i \in 1 .. Len(ns) : Spanned(p, i, a[i], b[i]) /\ ns[i] = SubSeq(p, a[i], b[i])
  /\ p # << >> /\ Last(p) # "/" => Len(ns) >= 1 /\ b[Len(ns)] = Len(p)

\* The names of a path are what is between these places.
LEMMA SpansNames ==
  ASSUME NEW p \in Seq(Chars), NEW ns, NEW a, NEW b, Spans(p, ns, a, b)
  PROVE  NamesOf(p) = ns
<1>1. /\ ns \in Seq(Seq(Chars)) /\ Len(ns) = NamesUpTo(p, Len(p))
      /\ \A i \in 1 .. Len(ns) : Spanned(p, i, a[i], b[i]) /\ ns[i] = SubSeq(p, a[i], b[i])
  BY DEF Spans
<1>2. Len(p) \in Nat /\ "/" \in Chars
  BY LenProperties DEF Chars
<1>3. ASSUME NEW i \in 1 .. Len(ns)
      PROVE  SubSeq(p, Min(PlacesOf(p, i)), Max(PlacesOf(p, i))) = ns[i]
  <2>1. PlacesOf(p, i) \subseteq 1 .. Len(p)
    BY <1>2, PlacesAppend
  <2>2. PlacesOf(p, i) \subseteq Int
    BY <1>2, <2>1
  <2>3. /\ a[i] \in PlacesOf(p, i) /\ \A k \in PlacesOf(p, i) : a[i] <= k
        /\ b[i] \in PlacesOf(p, i) /\ \A k \in PlacesOf(p, i) : k <= b[i]
    BY <1>1 DEF Spanned
  <2>4. Min(PlacesOf(p, i)) = a[i]
    BY <2>2, <2>3, MinIs
  <2>5. Max(PlacesOf(p, i)) = b[i]
    BY <2>2, <2>3, MaxIs
  <2> QED BY <1>1, <2>4, <2>5
<1>4. Cardinality(Beginnings(p)) = Len(ns)
  BY <1>1, NamesCount
<1>5. NamesOf(p) = [i \in 1 .. Len(ns) |-> SubSeq(p, Min(PlacesOf(p, i)), Max(PlacesOf(p, i)))]
  BY <1>4 DEF NamesOf
<1>6. NamesOf(p) = [i \in 1 .. Len(ns) |-> ns[i]]
  BY <1>3, <1>5
<1>7. ns = [i \in 1 .. Len(ns) |-> ns[i]]
  <2>1. ns \in [1 .. Len(ns) -> Seq(Chars)]
    BY <1>1, LenProperties
  <2> QED BY <2>1
<1> QED BY <1>6, <1>7

\* A character begins a name, goes on with the last one, or is a "/".
NextNames(p, ns, c) ==
  IF c = "/" THEN ns
  ELSE IF Begun(p, c) THEN Append(ns, <<c>>)
  ELSE [ns EXCEPT ![Len(ns)] = Append(@, c)]

\* The places of the names when the path has one character more.
LEMMA SpansNext ==
  ASSUME NEW p \in Seq(Chars), NEW c \in Chars, NEW ns, NEW a, NEW b, Spans(p, ns, a, b)
  PROVE  \E u, v : Spans(Append(p, c), NextNames(p, ns, c), u, v)
<1> DEFINE q == Append(p, c)
           n == Len(p)
           N == Len(ns)
           ms == NextNames(p, ns, c)
<1>1. /\ ns \in Seq(Seq(Chars)) /\ N = NamesUpTo(p, n)
      /\ \A k \in 0 .. n : NamesUpTo(p, k) <= N
      /\ \A i \in 1 .. N : Spanned(p, i, a[i], b[i]) /\ ns[i] = SubSeq(p, a[i], b[i])
      /\ p # << >> /\ Last(p) # "/" => N >= 1 /\ b[N] = n
  BY DEF Spans
<1>2. N \in Nat /\ ns \in [1 .. N -> Seq(Chars)]
  BY <1>1, LenProperties
<1>3. /\ n \in Nat /\ q \in Seq(Chars) /\ Len(q) = n + 1 /\ q # << >> /\ Last(q) = c
  BY AppendFacts
<1>4. /\ \A k \in 0 .. n : NamesUpTo(q, k) = NamesUpTo(p, k) /\ NamesUpTo(p, k) \in Nat
      /\ NamesUpTo(q, n + 1) = NamesUpTo(p, n) + (IF Begun(p, c) THEN 1 ELSE 0)
  BY NamesCountAppend
<1>5. \A i : /\ PlacesOf(p, i) \subseteq 1 .. n /\ PlacesOf(q, i) \subseteq 1 .. n + 1
             /\ \A k \in 1 .. n : k \in PlacesOf(q, i) <=> k \in PlacesOf(p, i)
             /\ n + 1 \in PlacesOf(q, i) <=> c # "/" /\ NamesUpTo(q, n + 1) = i
             /\ \A k \in PlacesOf(p, i) : NamesUpTo(p, k) = i
  BY PlacesAppend
<1>6. \A i \in Nat, j \in Nat : 1 <= i /\ j <= n => SubSeq(q, i, j) = SubSeq(p, i, j)
  BY SubSeqOfAppend
<1>7. \A i \in 1 .. n + 1 : SubSeq(q, i, n + 1) = Append(SubSeq(p, i, n), c)
  BY SubSeqGrows
<1>8. SubSeq(p, n + 1, n) = << >>
  BY <1>3, SubSeqEmpty
<1>9. <<c>> \in Seq(Chars) /\ Append(<< >>, c) = <<c>>
  OBVIOUS
<1>10. \A i \in 1 .. N : a[i] \in 1 .. n /\ b[i] \in 1 .. n /\ a[i] \in Nat /\ b[i] \in Nat
                        /\ SubSeq(q, a[i], b[i]) = ns[i]
  <2> SUFFICES ASSUME NEW i \in 1 .. N
               PROVE  a[i] \in 1 .. n /\ b[i] \in 1 .. n /\ a[i] \in Nat /\ b[i] \in Nat
                      /\ SubSeq(q, a[i], b[i]) = ns[i]
    OBVIOUS
  <2>1. a[i] \in PlacesOf(p, i) /\ b[i] \in PlacesOf(p, i) /\ ns[i] = SubSeq(p, a[i], b[i])
    BY <1>1 DEF Spanned
  <2>2. a[i] \in 1 .. n /\ b[i] \in 1 .. n
    BY <1>5, <2>1
  <2>3. a[i] \in Nat /\ b[i] \in Nat /\ 1 <= a[i] /\ b[i] <= n
    BY <1>3, <2>2
  <2> QED BY <1>6, <2>1, <2>2, <2>3
<1>11. ms = IF c = "/" THEN ns ELSE IF Begun(p, c) THEN Append(ns, <<c>>)
               ELSE [ns EXCEPT ![N] = Append(@, c)]
  BY DEF NextNames
<1>12. PICK more : more = Append(ns, <<c>>)
  OBVIOUS
<1>13. /\ more \in Seq(Seq(Chars)) /\ Len(more) = N + 1 /\ more[N + 1] = <<c>>
       /\ \A i \in 1 .. N : more[i] = ns[i]
  BY ONLY <1>1, <1>9, <1>12, AppendProperties
<1> HIDE DEF q, n, N, ms
\* The places of the names that were there are the same but for the last.
<1>14. ASSUME NEW i \in 1 .. N, c # "/" => NamesUpTo(q, n + 1) # i
      PROVE  Spanned(q, i, a[i], b[i])
  <2>1. \A k : k \in PlacesOf(q, i) <=> k \in PlacesOf(p, i)
    <3> SUFFICES ASSUME NEW k PROVE k \in PlacesOf(q, i) <=> k \in PlacesOf(p, i)
      OBVIOUS
    <3>1. CASE k \in 1 .. n
      BY <3>1, <1>5
    <3>2. CASE k = n + 1
      <4>1. k \notin 1 .. n
        BY <1>3, <3>2
      <4> QED BY <1>5, <1>14, <3>2, <4>1
    <3>3. CASE k \notin 1 .. n /\ k # n + 1
      <4>1. k \notin 1 .. n + 1
        BY <1>3, <3>3
      <4> QED BY <1>5, <3>3, <4>1
    <3> QED BY <3>1, <3>2, <3>3
  <2>2. Spanned(p, i, a[i], b[i])
    BY <1>1
  <2> QED BY <2>1, <2>2 DEF Spanned
<1>15. CASE c = "/"
  <2>1. ms = ns /\ ~ Begun(p, c)
    BY <1>15, <1>11 DEF Begun
  <2>2. NamesUpTo(q, n + 1) = N
    <3>1. n \in 0 .. n
      BY <1>3
    <3> QED BY <1>1, <1>2, <1>4, <2>1, <3>1
  <2>3. \A k \in 0 .. n + 1 : NamesUpTo(q, k) <= N
    <3>1. \A k \in 0 .. n + 1 : k # n + 1 => k \in 0 .. n
      BY <1>3
    <3> QED BY <1>1, <1>2, <1>4, <2>2, <3>1
  <2>4. \A i \in 1 .. N : Spanned(q, i, a[i], b[i]) /\ ns[i] = SubSeq(q, a[i], b[i])
    BY <1>10, <1>14, <1>15
  <2>5. Spans(q, ms, a, b)
    BY <1>1, <1>3, <1>15, <2>1, <2>2, <2>3, <2>4 DEF Spans, N
  <2> QED BY <2>5 DEF q, ms
<1>16. CASE Begun(p, c)
  <2> DEFINE u == [i \in 1 .. N + 1 |-> IF i = N + 1 THEN n + 1 ELSE a[i]]
             v == [i \in 1 .. N + 1 |-> IF i = N + 1 THEN n + 1 ELSE b[i]]
  <2>1. c # "/" /\ ms = Append(ns, <<c>>)
    BY <1>16, <1>11 DEF Begun
  <2>2. /\ ms \in Seq(Seq(Chars)) /\ Len(ms) = N + 1 /\ ms[N + 1] = <<c>>
        /\ \A i \in 1 .. N : ms[i] = ns[i]
    <3>1. ms = more
      BY <1>12, <2>1
    <3> QED BY ONLY <1>13, <3>1
  <2>3. NamesUpTo(q, n + 1) = N + 1
    <3>1. n \in 0 .. n
      BY <1>3
    <3> QED BY <1>1, <1>2, <1>4, <1>16, <3>1
  <2>4. \A k \in 0 .. n + 1 : NamesUpTo(q, k) <= N + 1
    <3>1. \A k \in 0 .. n + 1 : k # n + 1 => k \in 0 .. n
      BY <1>3
    <3>2. \A k \in 0 .. n : NamesUpTo(q, k) \in Nat /\ NamesUpTo(q, k) <= N
      BY <1>1, <1>4
    <3> QED BY <1>2, <2>3, <3>1, <3>2
  <2>5. /\ u[N + 1] = n + 1 /\ v[N + 1] = n + 1
        /\ \A i \in 1 .. N : u[i] = a[i] /\ v[i] = b[i]
    <3>1. N + 1 \in 1 .. N + 1 /\ \A i \in 1 .. N : i \in 1 .. N + 1 /\ i # N + 1
      BY <1>2
    <3> QED BY <3>1
  <2> HIDE DEF u, v
  <2>6. ASSUME NEW i \in 1 .. N PROVE Spanned(q, i, u[i], v[i]) /\ ms[i] = SubSeq(q, u[i], v[i])
    <3>1. NamesUpTo(q, n + 1) # i
      BY <1>2, <2>3
    <3>2. Spanned(q, i, a[i], b[i])
      BY <1>14, <3>1
    <3> QED BY <1>10, <2>2, <2>5, <3>2
  <2>7. Spanned(q, N + 1, n + 1, n + 1)
    <3>1. n + 1 \in PlacesOf(q, N + 1)
      BY <1>5, <2>1, <2>3
    <3>2. ASSUME NEW k \in PlacesOf(q, N + 1) PROVE k = n + 1
      <4>1. k \in 1 .. n + 1
        BY <1>5
      <4>2. ASSUME k \in 1 .. n PROVE FALSE
        <5>1. k \in PlacesOf(p, N + 1) /\ k \in 0 .. n
          BY <1>3, <1>5, <4>2
        <5>2. NamesUpTo(p, k) = N + 1 /\ NamesUpTo(p, k) <= N
          BY <1>1, <1>5, <5>1
        <5> QED BY <1>2, <5>2
      <4> QED BY <1>3, <4>1, <4>2
    <3>3. n + 1 <= n + 1
      BY <1>3
    <3> QED BY <3>1, <3>2, <3>3 DEF Spanned
  <2>8. SubSeq(q, n + 1, n + 1) = <<c>>
    <3>1. n + 1 \in 1 .. n + 1
      BY <1>3
    <3> QED BY <1>7, <1>8, <1>9, <3>1
  <2>9. ASSUME NEW i \in 1 .. N + 1
        PROVE  Spanned(q, i, u[i], v[i]) /\ ms[i] = SubSeq(q, u[i], v[i])
    <3>1. i = N + 1 \/ i \in 1 .. N
      BY <1>2
    <3> QED BY <2>2, <2>5, <2>6, <2>7, <2>8, <3>1
  <2>10. N + 1 >= 1
    BY <1>2
  <2>11. Spans(q, ms, u, v)
    BY <1>3, <2>2, <2>3, <2>4, <2>5, <2>9, <2>10 DEF Spans
  <2> QED BY <2>11 DEF q, ms
<1>17. CASE c # "/" /\ ~ Begun(p, c)
  <2>1. p # << >> /\ Last(p) # "/"
    BY <1>17 DEF Begun
  <2>2. N \in 1 .. N /\ b[N] = n /\ a[N] \in 1 .. n /\ ns[N] = SubSeq(p, a[N], n)
    <3>1. N \in 1 .. N /\ b[N] = n
      BY <1>1, <1>2, <2>1
    <3> QED BY <1>1, <1>10, <3>1
  <2> DEFINE v == [i \in 1 .. N |-> IF i = N THEN n + 1 ELSE b[i]]
             w == Append(ns[N], c)
  <2>3. ms = [ns EXCEPT ![N] = w]
    BY <1>17, <1>11
  <2>4. w \in Seq(Chars)
    <3>1. ns[N] \in Seq(Chars)
      BY <1>2, <2>2
    <3> QED BY ONLY <3>1, AppendProperties, c \in Chars
  <2>5. w = SubSeq(q, a[N], n + 1)
    <3>1. a[N] \in 1 .. n + 1
      BY <1>3, <2>2
    <3> QED BY <1>7, <2>2, <3>1
  <2> HIDE DEF w
  <2>6. /\ ms \in Seq(Seq(Chars)) /\ Len(ms) = N /\ ms[N] = w
        /\ \A i \in 1 .. N : i # N => ms[i] = ns[i]
    <3>1. /\ [ns EXCEPT ![N] = w] \in Seq(Seq(Chars)) /\ Len([ns EXCEPT ![N] = w]) = Len(ns)
      BY ONLY <1>1, <2>2, <2>4, ExceptSeq DEF N
    <3> QED BY <1>2, <2>2, <2>3, <3>1 DEF N
  <2>7. NamesUpTo(q, n + 1) = N
    <3>1. n \in 0 .. n
      BY <1>3
    <3> QED BY <1>1, <1>2, <1>4, <1>17, <3>1
  <2>8. \A k \in 0 .. n + 1 : NamesUpTo(q, k) <= N
    <3>1. \A k \in 0 .. n + 1 : k # n + 1 => k \in 0 .. n
      BY <1>3
    <3> QED BY <1>1, <1>2, <1>4, <2>7, <3>1
  <2>9. v[N] = n + 1 /\ \A i \in 1 .. N : i # N => v[i] = b[i]
    BY <2>2
  <2> HIDE DEF v
  <2>10. Spanned(q, N, a[N], n + 1)
    <3>1. Spanned(p, N, a[N], n)
      BY <1>1, <2>2
    <3>2. n + 1 \in PlacesOf(q, N)
      BY <1>5, <1>17, <2>7
    <3>3. a[N] \in PlacesOf(q, N)
      BY <1>5, <2>2, <3>1 DEF Spanned
    <3>4. ASSUME NEW k \in PlacesOf(q, N) PROVE a[N] <= k /\ k <= n + 1
      <4>1. k \in 1 .. n + 1
        BY <1>5
      <4>2. CASE k = n + 1
        BY <1>3, <2>2, <4>2
      <4>3. CASE k # n + 1
        <5>1. k \in 1 .. n
          BY <1>3, <4>1, <4>3
        <5>2. k \in PlacesOf(p, N)
          BY <1>5, <5>1
        <5>3. a[N] <= k
          BY <3>1, <5>2 DEF Spanned
        <5> QED BY <1>3, <4>1, <5>3
      <4> QED BY <4>2, <4>3
    <3> QED BY <3>2, <3>3, <3>4 DEF Spanned
  <2>11. ASSUME NEW i \in 1 .. N PROVE Spanned(q, i, a[i], v[i]) /\ ms[i] = SubSeq(q, a[i], v[i])
    <3>1. CASE i = N
      BY <2>5, <2>6, <2>9, <2>10, <3>1
    <3>2. CASE i # N
      <4>1. Spanned(q, i, a[i], b[i])
        BY <1>14, <2>7, <3>2
      <4> QED BY <1>10, <2>6, <2>9, <3>2, <4>1
    <3> QED BY <3>1, <3>2
  <2>12. N >= 1
    BY <1>2, <2>2
  <2>13. Spans(q, ms, a, v)
    BY <1>3, <2>6, <2>7, <2>8, <2>9, <2>11, <2>12 DEF Spans
  <2> QED BY <2>13 DEF q, ms
<1> QED BY <1>15, <1>16, <1>17

\* By induction every path has such places.
LEMMA NamesSpanned ==
  \A p \in Seq(Chars) : \E a, b : Spans(p, NamesOf(p), a, b)
<1> DEFINE Good(p) == \E ns, a, b : Spans(p, ns, a, b)
           G == {p \in Seq(Chars) : Good(p)}
<1>1. << >> \in G
  <2>1. NamesUpTo(<< >>, 0) = 0 /\ Len(<< >>) = 0
    <3>1. << >> \in Seq(Chars)
      OBVIOUS
    <3>2. NamesUpTo(<< >>, 0) = 0
      BY <3>1, NamesCount
    <3> QED BY <3>2
  <2>2. \A k \in 0 .. 0 : k = 0
    OBVIOUS
  <2>3. << >> \in Seq(Seq(Chars)) /\ 1 .. 0 = {}
    OBVIOUS
  <2>4. Spans(<< >>, << >>, << >>, << >>)
    BY <2>1, <2>2, <2>3 DEF Spans
  <2> QED BY <2>4
<1>2. ASSUME NEW p \in Seq(Chars), p \in G, NEW c \in Chars PROVE Append(p, c) \in G
  <2>1. PICK ns, a, b : Spans(p, ns, a, b)
    BY <1>2
  <2>2. Append(p, c) \in Seq(Chars)
    BY AppendFacts
  <2> QED BY <2>1, <2>2, SpansNext
<1>3. \A p \in Seq(Chars) : p \in G
  <2> HIDE DEF G
  <2> QED BY <1>1, <1>2, AppendInduction
<1> QED BY <1>3, SpansNames

\* The names of a path, and what one more character makes of them.
LEMMA NamesNext ==
  /\ NamesOf(<< >>) = << >>
  /\ \A p \in Seq(Chars) : NamesOf(p) \in Seq(Seq(Chars))
  /\ \A p \in Seq(Chars), c \in Chars : NamesOf(Append(p, c)) = NextNames(p, NamesOf(p), c)
  /\ \A p \in Seq(Chars) : p # << >> /\ Last(p) # "/" => Len(NamesOf(p)) >= 1
<1>1. \A p \in Seq(Chars) : NamesOf(p) \in Seq(Seq(Chars))
  BY NamesSpanned DEF Spans
<1>2. ASSUME NEW p \in Seq(Chars), NEW c \in Chars
      PROVE  NamesOf(Append(p, c)) = NextNames(p, NamesOf(p), c)
  <2>1. PICK a, b : Spans(p, NamesOf(p), a, b)
    BY NamesSpanned
  <2>2. Append(p, c) \in Seq(Chars)
    BY AppendFacts
  <2> QED BY <2>1, <2>2, SpansNext, SpansNames
<1>3. NamesOf(<< >>) = << >>
  <2>1. << >> \in Seq(Chars)
    OBVIOUS
  <2>2. NamesOf(<< >>) \in Seq(Seq(Chars)) /\ Len(NamesOf(<< >>)) = 0
    BY <2>1, NamesSpanned, NamesCount DEF Spans
  <2> QED BY <2>2, EmptySeq
<1>4. \A p \in Seq(Chars) : p # << >> /\ Last(p) # "/" => Len(NamesOf(p)) >= 1
  BY NamesSpanned DEF Spans
<1> QED BY <1>1, <1>2, <1>3, <1>4

(***************************************************************************)
(* Names written.                                                          *)
(***************************************************************************)

\* What is written of no names, and of one name more.
LEMMA WrittenNames ==
  /\ Written(<< >>) = << >>
  /\ \A ns \in Seq(Seq(Chars)) : Written(ns) \in Seq(Chars)
  /\ \A ns \in Seq(Seq(Chars)), s \in Seq(Chars) :
        Written(Append(ns, s)) = Written(ns) \o (Root \o s)
<1> DEFINE Slashed(ns) == [i \in DOMAIN ns |-> Root \o ns[i]]
<1>1. Root \in Seq(Chars)
  BY RootIsPath
<1>2. ASSUME NEW ns \in Seq(Seq(Chars))
      PROVE  /\ Slashed(ns) \in Seq(Seq(Chars)) /\ Len(Slashed(ns)) = Len(ns)
             /\ \A i \in 1 .. Len(ns) : Slashed(ns)[i] = Root \o ns[i]
  <2>1. Len(ns) \in Nat /\ DOMAIN ns = 1 .. Len(ns) /\ \A i \in 1 .. Len(ns) : ns[i] \in Seq(Chars)
    BY LenProperties, ElementOfSeq
  <2>2. \A i \in 1 .. Len(ns) : Root \o ns[i] \in Seq(Chars)
    BY <1>1, <2>1, ConcatProperties
  <2>3. Slashed(ns) = [i \in 1 .. Len(ns) |-> Root \o ns[i]]
    BY <2>1
  <2>4. Slashed(ns) \in [1 .. Len(ns) -> Seq(Chars)]
    BY <2>2, <2>3
  <2>5. Slashed(ns) \in Seq(Seq(Chars))
    BY <2>1, <2>4, SeqDef
  <2>6. DOMAIN Slashed(ns) = 1 .. Len(ns) /\ Len(Slashed(ns)) \in Nat
        /\ DOMAIN Slashed(ns) = 1 .. Len(Slashed(ns))
    BY <2>4, <2>5, LenProperties
  <2> HIDE DEF Slashed
  <2>7. Len(Slashed(ns)) = Len(ns)
    BY <2>1, <2>6
  <2> QED BY <2>3, <2>5, <2>7
<1>3. ASSUME NEW ns \in Seq(Seq(Chars)), NEW s \in Seq(Chars)
      PROVE  Slashed(Append(ns, s)) = Append(Slashed(ns), Root \o s)
  <2> DEFINE ms == Append(ns, s)
             x  == Slashed(ms)
             rs == Root \o s
             y  == Append(Slashed(ns), rs)
  <2>1. /\ ms \in Seq(Seq(Chars)) /\ Len(ms) = Len(ns) + 1 /\ Len(ns) \in Nat
        /\ \A i \in 1 .. Len(ns) : ms[i] = ns[i]
        /\ ms[Len(ns) + 1] = s
    BY AppendFacts
  <2>2. rs \in Seq(Chars)
    BY ONLY <1>1, s \in Seq(Chars), ConcatProperties
  <2>3. /\ Slashed(ns) \in Seq(Seq(Chars)) /\ Len(Slashed(ns)) = Len(ns)
        /\ \A i \in 1 .. Len(ns) : Slashed(ns)[i] = Root \o ns[i]
    BY <1>2
  <2>4. s = ms[Len(ns) + 1] => rs = Root \o ms[Len(ns) + 1]
    OBVIOUS
  <2> HIDE DEF ms, rs
  <2>5. /\ x \in Seq(Seq(Chars)) /\ Len(x) = Len(ms)
        /\ \A i \in 1 .. Len(ms) : x[i] = Root \o ms[i]
    BY <1>2, <2>1
  <2> HIDE DEF x, Slashed
  <2>6. /\ y \in Seq(Seq(Chars)) /\ Len(y) = Len(ns) + 1
        /\ \A i \in 1 .. Len(ns) : y[i] = Slashed(ns)[i]
        /\ y[Len(ns) + 1] = rs
    <3>1. \A z \in Seq(Seq(Chars)) :
             /\ Append(z, rs) \in Seq(Seq(Chars)) /\ Len(Append(z, rs)) = Len(z) + 1
             /\ \A i \in 1 .. Len(z) : Append(z, rs)[i] = z[i]
             /\ Append(z, rs)[Len(z) + 1] = rs
      BY ONLY <2>2, AppendProperties
    <3> QED BY <2>3, <3>1
  <2> HIDE DEF y
  <2>7. ASSUME NEW i \in 1 .. Len(x) PROVE x[i] = y[i]
    <3>1. i = Len(ns) + 1 \/ i \in 1 .. Len(ns)
      BY <2>1, <2>5
    <3> QED BY <2>1, <2>3, <2>4, <2>5, <2>6, <3>1
  <2>8. x = y
    BY ONLY <2>1, <2>5, <2>6, <2>7, SeqEqual
  <2> QED BY <2>8 DEF x, y, ms, rs
<1>4. \A ns : Written(ns) = FlattenSeq(Slashed(ns))
  BY DEF Written
<1>5. FlattenSeq(Slashed(<< >>)) = << >>
  <2>1. Slashed(<< >>) = << >>
    OBVIOUS
  <2>2. FlattenSeq(<< >>) = << >>
    BY DEF FlattenSeq
  <2> QED BY <2>1, <2>2
<1> HIDE DEF Slashed
<1>6. ASSUME NEW ns \in Seq(Seq(Chars)), NEW s \in Seq(Chars)
      PROVE  Written(ns) \in Seq(Chars) /\ Written(Append(ns, s)) = Written(ns) \o (Root \o s)
  <2>1. Root \o s \in Seq(Chars)
    BY ONLY <1>1, s \in Seq(Chars), ConcatProperties
  <2>2. Slashed(ns) \in Seq(Seq(Chars))
    BY <1>2
  <2> QED BY <1>3, <1>4, <2>1, <2>2, FlattenAppend
<1>7. << >> \in Seq(Chars)
  OBVIOUS
<1> QED BY <1>4, <1>5, <1>6, <1>7

\* Going on with the last name.
LEMMA GoesOn ==
  ASSUME NEW ns \in Seq(Seq(Chars)), ns # << >>, NEW c \in Chars
  PROVE  /\ [ns EXCEPT ![Len(ns)] = Append(@, c)] = Append(Front(ns), Append(Last(ns), c))
         /\ Append(Last(ns), c) \in Seq(Chars)
<1> DEFINE n == Len(ns)
           w == Append(Last(ns), c)
           y == Append(Front(ns), w)
           x == [ns EXCEPT ![n] = w]
<1>1. /\ Front(ns) \in Seq(Seq(Chars)) /\ Last(ns) \in Seq(Chars) /\ n \in Nat /\ n >= 1
      /\ Last(ns) = ns[n] /\ ns = Append(Front(ns), Last(ns))
  BY FrontLast
<1>2. w \in Seq(Chars)
  BY ONLY <1>1, c \in Chars, AppendProperties
<1>3. /\ Len(Front(ns)) = n - 1
      /\ \A i \in 1 .. n - 1 : Front(ns)[i] = ns[i]
  BY FrontIs
<1> HIDE DEF w
<1>4. /\ y \in Seq(Seq(Chars)) /\ Len(y) = n
      /\ \A i \in 1 .. n - 1 : y[i] = ns[i]
      /\ y[n] = w
  <2>1. /\ y \in Seq(Seq(Chars)) /\ Len(y) = Len(Front(ns)) + 1
        /\ \A i \in 1 .. Len(Front(ns)) : y[i] = Front(ns)[i]
        /\ y[Len(Front(ns)) + 1] = w
    BY <1>1, <1>2, AppendProperties
  <2>2. Len(Front(ns)) + 1 = n
    BY <1>1, <1>3
  <2> HIDE DEF y
  <2> QED BY <1>3, <2>1, <2>2
<1>5. /\ x \in Seq(Seq(Chars)) /\ Len(x) = n
      /\ \A i \in 1 .. n : x[i] = IF i = n THEN w ELSE ns[i]
  <2>1. n \in 1 .. n
    BY <1>1
  <2> QED BY ONLY <1>2, <2>1, ns \in Seq(Seq(Chars)), ExceptSeq
<1>6. [ns EXCEPT ![n] = Append(@, c)] = x
  BY <1>1 DEF w
<1> HIDE DEF n, x, y
<1>7. ASSUME NEW i \in 1 .. Len(x) PROVE x[i] = y[i]
  <2>1. i = n \/ i \in 1 .. n - 1
    BY <1>1, <1>5
  <2> QED BY <1>1, <1>4, <1>5, <2>1
<1>8. x = y
  BY ONLY <1>4, <1>5, <1>7, SeqEqual
<1> QED BY <1>2, <1>6, <1>8 DEF n, w, x, y

\* What one more character makes of the names, in each case.
LEMMA NamesGrow ==
  ASSUME NEW p \in Seq(Chars), NEW c \in Chars
  PROVE  LET ns == NamesOf(p)
             ms == NamesOf(Append(p, c))
         IN  /\ ns \in Seq(Seq(Chars)) /\ ms \in Seq(Seq(Chars))
             /\ c = "/" => ms = ns
             /\ Begun(p, c) => ms = Append(ns, <<c>>)
             /\ c # "/" /\ ~Begun(p, c) =>
                  /\ ns # << >> /\ Append(Last(ns), c) \in Seq(Chars)
                  /\ Front(ns) \in Seq(Seq(Chars)) /\ Last(ns) \in Seq(Chars)
                  /\ ns = Append(Front(ns), Last(ns))
                  /\ [ns EXCEPT ![Len(ns)] = Append(@, c)] = ms
                  /\ ms = Append(Front(ns), Append(Last(ns), c))
<1> DEFINE ns == NamesOf(p)
           ms == NamesOf(Append(p, c))
<1>1. Append(p, c) \in Seq(Chars)
  BY AppendFacts
<1>2. ns \in Seq(Seq(Chars)) /\ ms \in Seq(Seq(Chars)) /\ ms = NextNames(p, ns, c)
  BY <1>1, NamesNext
<1>3. ASSUME c # "/", ~Begun(p, c) PROVE ns # << >>
  <2>1. Len(ns) >= 1
    BY <1>3, NamesNext DEF Begun
  <2> QED BY <2>1
<1> HIDE DEF ns, ms
<1>4. c = "/" => ms = ns
  BY <1>2 DEF NextNames
<1>5. Begun(p, c) => ms = Append(ns, <<c>>)
  BY <1>2 DEF NextNames, Begun
<1>6. ASSUME c # "/", ~Begun(p, c)
      PROVE  /\ ns # << >> /\ Append(Last(ns), c) \in Seq(Chars)
             /\ Front(ns) \in Seq(Seq(Chars)) /\ Last(ns) \in Seq(Chars)
             /\ ns = Append(Front(ns), Last(ns))
             /\ [ns EXCEPT ![Len(ns)] = Append(@, c)] = ms
             /\ ms = Append(Front(ns), Append(Last(ns), c))
  <2>1. ns # << >>
    BY <1>3, <1>6
  <2>2. /\ [ns EXCEPT ![Len(ns)] = Append(@, c)] = Append(Front(ns), Append(Last(ns), c))
        /\ Append(Last(ns), c) \in Seq(Chars)
    BY <1>2, <2>1, GoesOn
  <2>3. /\ Front(ns) \in Seq(Seq(Chars)) /\ Last(ns) \in Seq(Chars)
        /\ ns = Append(Front(ns), Last(ns))
    BY <1>2, <2>1, FrontLast
  <2>4. ms = [ns EXCEPT ![Len(ns)] = Append(@, c)]
    BY <1>2, <1>6 DEF NextNames
  <2> QED BY <2>1, <2>2, <2>3, <2>4
<1> QED BY <1>2, <1>4, <1>5, <1>6 DEF ns, ms

Ends(p) == p # << >> /\ Last(p) = "/"

\* A "/" behind a "/" is what a path must not be continued with.
LEMMA RegularNext ==
  ASSUME NEW p \in Seq(Chars), NEW c \in Chars
  PROVE  Regular(Append(p, c)) <=> Regular(p) /\ ~(Ends(p) /\ c = "/")
<1> DEFINE q == Append(p, c)
           n == Len(p)
<1>1. /\ n \in Nat /\ DOMAIN p = 1 .. n /\ DOMAIN q = 1 .. n + 1 /\ Len(q) = n + 1
      /\ \A i \in 1 .. n : q[i] = p[i]
      /\ q[n + 1] = c
  <2>1. q \in Seq(Chars) /\ Len(q) = n + 1
    BY AppendFacts
  <2> QED BY <2>1, AppendFacts, LenProperties
<1>2. p = << >> <=> n = 0
  BY EmptySeq
<1>3. n # 0 => Last(p) = p[n]
  BY DEF Last
<1> HIDE DEF q, n
<1>4. Regular(q) <=> \A k \in 1 .. n + 1 : q[k] = "/" /\ k < n + 1 => q[k + 1] # "/"
  BY <1>1 DEF Regular, Slashes
<1>5. Regular(p) <=> \A k \in 1 .. n : p[k] = "/" /\ k < n => p[k + 1] # "/"
  BY <1>1 DEF Regular, Slashes, n
<1>6. ASSUME Regular(q) PROVE Regular(p) /\ ~(Ends(p) /\ c = "/")
  <2>1. ASSUME NEW k \in 1 .. n, p[k] = "/", k < n PROVE p[k + 1] # "/"
    <3>1. k \in 1 .. n + 1 /\ k < n + 1 /\ k + 1 \in 1 .. n
      BY <1>1, <2>1
    <3> QED BY <1>1, <1>4, <1>6, <2>1, <3>1
  <2>2. ASSUME Ends(p), c = "/" PROVE FALSE
    <3>1. n \in 1 .. n /\ n \in 1 .. n + 1 /\ n < n + 1 /\ p[n] = "/"
      BY <1>1, <1>2, <1>3, <2>2 DEF Ends
    <3> QED BY <1>1, <1>4, <1>6, <2>2, <3>1
  <2> QED BY <1>5, <2>1, <2>2
<1>7. ASSUME Regular(p), ~(Ends(p) /\ c = "/") PROVE Regular(q)
  <2> SUFFICES ASSUME NEW k \in 1 .. n + 1, q[k] = "/", k < n + 1 PROVE q[k + 1] # "/"
    BY <1>4
  <2>1. k \in 1 .. n /\ p[k] = "/"
    BY <1>1
  <2>2. CASE k = n
    <3>1. Ends(p)
      BY <1>1, <1>2, <1>3, <2>1, <2>2 DEF Ends
    <3> QED BY <1>1, <1>7, <2>2, <3>1
  <2>3. CASE k # n
    <3>1. k < n /\ k + 1 \in 1 .. n
      BY <1>1, <2>1, <2>3
    <3> QED BY <1>1, <1>5, <1>7, <2>1, <3>1
  <2> QED BY <2>2, <2>3
<1> QED BY <1>6, <1>7 DEF q

\* The path of names, and the "/" it ends with.
Ending(p)  == IF Ends(p) THEN Root ELSE << >>
SplitAs(p) == [state |-> IF Ends(p) THEN 1 ELSE 0, nodes |-> NamesOf(p)]

Absolute(p) == p # << >> => p[1] = "/"

\* A path from the root with single "/" is split into its names, and is these
\* written one behind the other.
LEMMA RegularSplits ==
  \A p \in Seq(Chars) : Absolute(p) /\ Regular(p) =>
     SplitsTo(p, SplitAs(p)) /\ p = Written(NamesOf(p)) \o Ending(p)
<1> DEFINE Good(p) == Absolute(p) /\ Regular(p) =>
                        SplitsTo(p, SplitAs(p)) /\ p = Written(NamesOf(p)) \o Ending(p)
           G == {p \in Seq(Chars) : Good(p)}
<1>1. << >> \in G
  <2>1. SplitAs(<< >>) = NothingSplit
    BY NamesNext DEF SplitAs, NothingSplit, Ends
  <2>2. Ending(<< >>) = << >> /\ Written(NamesOf(<< >>)) = << >>
    BY NamesNext, WrittenNames DEF Ending, Ends
  <2>3. << >> \o << >> = << >>
    OBVIOUS
  <2>4. Good(<< >>)
    BY <2>1, <2>2, <2>3, SplitBegins
  <2> QED BY <2>4
<1>2. ASSUME NEW p \in Seq(Chars), p \in G, NEW c \in Chars PROVE Append(p, c) \in G
  <2> DEFINE q == Append(p, c)
             ns == NamesOf(p)
             ms == NamesOf(q)
  <2>1. q \in Seq(Chars) /\ q # << >> /\ Last(q) = c /\ q[1] = (IF p = << >> THEN c ELSE p[1])
        /\ q = p \o <<c>> /\ <<c>> \in Seq(Chars)
    BY AppendFacts, AppendIsConcat
  <2>2. SUFFICES ASSUME Absolute(q), Regular(q)
                 PROVE  SplitsTo(q, SplitAs(q)) /\ q = Written(ms) \o Ending(q)
    BY <2>1
  <2>3. Absolute(p) /\ Regular(p) /\ ~(Ends(p) /\ c = "/") /\ (p = << >> => c = "/")
    BY <2>1, <2>2, RegularNext DEF Absolute
  <2>4. SplitsTo(p, SplitAs(p)) /\ p = Written(ns) \o Ending(p)
    BY <1>2, <2>3
  <2>5. SplitsTo(q, SplitChar(SplitAs(p), c))
    BY <2>4, SplitGoesOn
  <2>6. /\ ns \in Seq(Seq(Chars)) /\ ms \in Seq(Seq(Chars))
        /\ c = "/" => ms = ns
        /\ Begun(p, c) => ms = Append(ns, <<c>>)
        /\ c # "/" /\ ~Begun(p, c) =>
             /\ ns # << >> /\ Append(Last(ns), c) \in Seq(Chars)
             /\ Front(ns) \in Seq(Seq(Chars)) /\ Last(ns) \in Seq(Chars)
             /\ ns = Append(Front(ns), Last(ns))
             /\ [ns EXCEPT ![Len(ns)] = Append(@, c)] = ms
             /\ ms = Append(Front(ns), Append(Last(ns), c))
    BY NamesGrow
  <2>7. Ends(q) <=> c = "/"
    BY <2>1 DEF Ends
  <2>8. Written(ns) \in Seq(Chars) /\ Root \in Seq(Chars) /\ Root = <<"/">>
    BY <2>6, WrittenNames, RootIsPath DEF Root
  <2>9. SplitAs(p).nodes = ns /\ SplitAs(p).state = (IF Ends(p) THEN 1 ELSE 0)
        /\ SplitAs(p) = [state |-> SplitAs(p).state, nodes |-> ns]
    BY DEF SplitAs
  <2>10. SplitAs(q) = [state |-> IF Ends(q) THEN 1 ELSE 0, nodes |-> ms]
    BY DEF SplitAs
  <2> HIDE DEF q, ns, ms
  <2>11. CASE c = "/"
    <3>1. ~Ends(p) /\ ms = ns
      BY <2>3, <2>6, <2>11
    <3>2. SplitChar(SplitAs(p), c) = [state |-> 1, nodes |-> ns]
      BY <2>9, <2>11, <3>1 DEF SplitChar
    <3>3. SplitChar(SplitAs(p), c) = SplitAs(q)
      BY <2>7, <2>10, <2>11, <3>1, <3>2
    <3>4. p = Written(ns)
      BY <2>4, <2>8, <3>1, ConcatEmptySeq DEF Ending
    <3> QED BY <2>1, <2>5, <2>7, <2>8, <2>11, <3>1, <3>3, <3>4 DEF Ending
  <2>12. CASE Begun(p, c)
    <3>1. Ends(p) /\ c # "/" /\ ms = Append(ns, <<c>>)
      BY <2>3, <2>6, <2>12 DEF Begun, Ends
    <3>2. SplitChar(SplitAs(p), c) = [state |-> 0, nodes |-> ms]
      BY <2>9, <3>1 DEF SplitChar
    <3>3. SplitChar(SplitAs(p), c) = SplitAs(q)
      BY <2>7, <2>10, <3>1, <3>2
    <3>4. p = Written(ns) \o Root /\ Ending(q) = << >>
      BY <2>4, <2>7, <3>1 DEF Ending
    <3>5. Written(ms) = Written(ns) \o (Root \o <<c>>)
      BY <2>1, <2>6, <3>1, WrittenNames
    <3>6. (Written(ns) \o Root) \o <<c>> = Written(ns) \o (Root \o <<c>>)
      BY ONLY <2>1, <2>8, ConcatAssociative
    <3>7. q = Written(ms)
      BY <2>1, <3>4, <3>5, <3>6
    <3>8. q = Written(ms) \o Ending(q)
      BY <2>1, <3>4, <3>7, ConcatEmptySeq
    <3> QED BY <2>5, <3>3, <3>8
  <2>13. CASE c # "/" /\ ~Begun(p, c)
    <3> DEFINE F == Front(ns)
               l == Last(ns)
               m == Append(l, c)
    <3>1. /\ ns # << >> /\ m \in Seq(Chars)
          /\ F \in Seq(Seq(Chars)) /\ l \in Seq(Chars) /\ ns = Append(F, l)
          /\ [ns EXCEPT ![Len(ns)] = Append(@, c)] = ms /\ ms = Append(F, m)
      BY <2>6, <2>13
    <3>2. ~Ends(p)
      BY <2>13 DEF Begun, Ends
    <3>3. SplitChar(SplitAs(p), c) = [state |-> 0, nodes |-> [ns EXCEPT ![Len(ns)] = Append(@, c)]]
      <4>1. SplitAs(p).state = 0
        BY <2>9, <3>2
      <4> QED BY <2>9, <2>13, <4>1 DEF SplitChar
    <3>4. SplitChar(SplitAs(p), c) = SplitAs(q)
      BY <2>7, <2>10, <2>13, <3>1, <3>3
    <3>5. m = l \o <<c>>
      BY ONLY <3>1, AppendIsConcat, c \in Chars
    <3> HIDE DEF F, l, m
    <3>6. Written(ns) = Written(F) \o (Root \o l) /\ Written(ms) = Written(F) \o (Root \o m)
          /\ Written(F) \in Seq(Chars)
      BY <3>1, WrittenNames
    <3>7. <<c>> \in Seq(Chars) /\ l \in Seq(Chars) /\ Root \in Seq(Chars) /\ Written(F) \in Seq(Chars)
      BY <2>1, <2>8, <3>1, <3>6
    <3>8. JoinsLast(Written(F), Root, l, <<c>>)
      BY ONLY <3>7, JoinedFour
    <3>9. p = Written(ns) /\ Ending(q) = << >>
      BY <2>4, <2>7, <2>8, <2>13, <3>2, ConcatEmptySeq DEF Ending
    <3>10. q = Written(ms)
      BY <2>1, <3>5, <3>6, <3>8, <3>9 DEF JoinsLast
    <3>11. q = Written(ms) \o Ending(q)
      BY <2>1, <3>9, <3>10, ConcatEmptySeq
    <3> QED BY <2>5, <3>4, <3>11
  <2> QED BY <2>11, <2>12, <2>13
<1>3. \A p \in Seq(Chars) : p \in G
  <2> HIDE DEF G
  <2> QED BY <1>1, <1>2, AppendInduction
<1> QED BY <1>3

\* A "/" at the end is no part of a name.
LEMMA TrimmedNames ==
  ASSUME NEW p \in Seq(Chars), Regular(p), p # << >>, p[1] = "/"
  PROVE  LET t == Trimmed(p)
         IN  /\ t \in Seq(Chars) /\ t # << >> /\ t[1] = "/" /\ Regular(t)
             /\ NamesOf(t) = NamesOf(p)
             /\ t = Root \/ ~Ends(t)
<1>1. PICK s \in Seq(Chars), c \in Chars : p = Append(s, c)
  BY SequenceEmptyOrAppend
<1>2. Front(p) = s /\ Last(p) = c /\ Len(s) \in Nat /\ Len(p) = Len(s) + 1
      /\ p[1] = IF s = << >> THEN c ELSE s[1]
  BY <1>1, AppendFacts
<1>3. Regular(s) /\ ~(Ends(s) /\ c = "/")
  BY <1>1, RegularNext
<1>4. s = << >> <=> Len(s) = 0
  BY EmptySeq
<1>5. CASE Len(p) > 1 /\ Last(p) = "/"
  <2>1. Trimmed(p) = s /\ c = "/" /\ s # << >>
    BY <1>2, <1>4, <1>5 DEF Trimmed
  <2>2. NamesOf(p) = NamesOf(s)
    BY <1>1, <2>1, NamesGrow
  <2> QED BY <1>2, <1>3, <2>1, <2>2
<1>6. CASE ~(Len(p) > 1 /\ Last(p) = "/")
  <2>1. Trimmed(p) = p
    BY <1>6 DEF Trimmed
  <2>2. ASSUME Ends(p) PROVE p = Root
    <3>1. c = "/" /\ s = << >>
      BY <1>2, <1>4, <1>6, <2>2 DEF Ends
    <3>2. Append(<< >>, "/") = <<"/">>
      OBVIOUS
    <3> QED BY <1>1, <3>1, <3>2 DEF Root
  <2> QED BY <2>1, <2>2
<1> QED BY <1>5, <1>6

\* A relative path behind one that ends with a "/" adds its names.
JoinsNames(b, t) ==
  /\ b \o t \in Seq(Chars) /\ b \o t # << >> /\ (b \o t)[1] = b[1]
  /\ Regular(b \o t) /\ (Ends(b \o t) <=> t = << >> \/ Ends(t))
  /\ NamesOf(b \o t) = NamesOf(b) \o NamesOf(t)

Relative(t) == t # << >> => t[1] # "/"

\* By induction over the relative path.
LEMMA NamesJoined ==
  ASSUME NEW b \in Seq(Chars), Ends(b), Regular(b)
  PROVE  \A t \in Seq(Chars) : Regular(t) /\ Relative(t) => JoinsNames(b, t)
<1> DEFINE Good(t) == Regular(t) /\ Relative(t) => JoinsNames(b, t)
           G == {t \in Seq(Chars) : Good(t)}
           nb == NamesOf(b)
<1>1. nb \in Seq(Seq(Chars)) /\ b # << >>
  BY NamesNext DEF Ends
<1>2. << >> \in G
  <2>1. b \o << >> = b /\ nb \o << >> = nb
    BY <1>1, ConcatEmptySeq
  <2>2. JoinsNames(b, << >>)
    BY <1>1, <2>1, NamesNext DEF JoinsNames
  <2> QED BY <2>2
<1>3. ASSUME NEW t \in Seq(Chars), t \in G, NEW c \in Chars PROVE Append(t, c) \in G
  <2> DEFINE u  == Append(t, c)
             r  == b \o t
             q  == Append(r, c)
             nt == NamesOf(t)
             nu == NamesOf(u)
             nr == NamesOf(r)
             nq == NamesOf(q)
  <2>1. u \in Seq(Chars) /\ u # << >> /\ Last(u) = c /\ u[1] = (IF t = << >> THEN c ELSE t[1])
    BY AppendFacts
  <2>2. SUFFICES ASSUME Regular(u), Relative(u) PROVE JoinsNames(b, u)
    BY <2>1
  <2>3. Regular(t) /\ ~(Ends(t) /\ c = "/") /\ Relative(t) /\ (t = << >> => c # "/")
    BY <2>1, <2>2, RegularNext DEF Relative
  <2>4. /\ r \in Seq(Chars) /\ r # << >> /\ r[1] = b[1]
        /\ Regular(r) /\ (Ends(r) <=> t = << >> \/ Ends(t))
        /\ nr = nb \o nt
    BY <1>3, <2>3 DEF JoinsNames
  <2>5. b \o u = q
    BY AppendJoined DEF JoinsAppend
  <2>6. q \in Seq(Chars) /\ q # << >> /\ q[1] = r[1] /\ Last(q) = c
    <3> HIDE DEF r
    <3> QED BY <2>4, AppendFacts
  <2>7. Regular(q)
    <3> HIDE DEF r
    <3>1. Regular(q) <=> Regular(r) /\ ~(Ends(r) /\ c = "/")
      BY <2>4, RegularNext
    <3> QED BY <2>3, <2>4, <3>1
  <2>8. (Ends(q) <=> c = "/") /\ (Ends(u) <=> c = "/")
    BY <2>1, <2>6 DEF Ends
  <2>9. /\ nt \in Seq(Seq(Chars)) /\ nu \in Seq(Seq(Chars))
        /\ c = "/" => nu = nt
        /\ Begun(t, c) => nu = Append(nt, <<c>>)
        /\ c # "/" /\ ~Begun(t, c) =>
             /\ Append(Last(nt), c) \in Seq(Chars)
             /\ Front(nt) \in Seq(Seq(Chars)) /\ Last(nt) \in Seq(Chars)
             /\ nt = Append(Front(nt), Last(nt))
             /\ nu = Append(Front(nt), Append(Last(nt), c))
    BY NamesGrow
  <2>10. /\ nr \in Seq(Seq(Chars))
         /\ c = "/" => nq = nr
         /\ Begun(r, c) => nq = Append(nr, <<c>>)
         /\ c # "/" /\ ~Begun(r, c) => nq = Append(Front(nr), Append(Last(nr), c))
    <3> HIDE DEF r
    <3> QED BY <2>4, NamesGrow
  <2>11. Begun(r, c) <=> Begun(t, c)
    <3> HIDE DEF r
    <3> QED BY <2>4 DEF Begun, Ends
  <2> HIDE DEF nb, nt, nu, nr, nq
  <2>12. nq = nb \o nu
    <3>1. CASE c = "/"
      BY <2>4, <2>9, <2>10, <3>1
    <3>2. CASE Begun(t, c)
      <4>1. <<c>> \in Seq(Chars)
        OBVIOUS
      <4>2. JoinsAppend(Seq(Chars), nb, nt, <<c>>)
        BY <1>1, <2>9, <4>1, AppendJoined
      <4> QED BY <2>4, <2>9, <2>10, <2>11, <3>2, <4>2 DEF JoinsAppend
    <3>3. CASE c # "/" /\ ~Begun(t, c)
      <4> DEFINE F == Front(nt)
                 l == Last(nt)
                 m == Append(l, c)
      <4>1. /\ m \in Seq(Chars) /\ F \in Seq(Seq(Chars)) /\ l \in Seq(Chars)
            /\ nt = Append(F, l) /\ nu = Append(F, m)
        BY <2>9, <3>3
      <4>2. nq = Append(Front(nr), Append(Last(nr), c))
        BY <2>10, <2>11, <3>3
      <4>3. Append(l, c) = m
        OBVIOUS
      <4> HIDE DEF F, l, m
      <4>4. JoinsAppend(Seq(Chars), nb, F, l) /\ JoinsAppend(Seq(Chars), nb, F, m)
        BY <1>1, <4>1, AppendJoined
      <4>5. PICK e : e = nb \o F
        OBVIOUS
      <4>6. nr = Append(e, l) /\ e \in Seq(Seq(Chars))
        BY <2>4, <4>1, <4>4, <4>5 DEF JoinsAppend
      <4>7. Front(nr) = e /\ Last(nr) = l
        BY ONLY <4>1, <4>6, AppendFacts
      <4> QED BY <4>1, <4>2, <4>3, <4>4, <4>5, <4>7 DEF JoinsAppend
    <3> QED BY <3>1, <3>2, <3>3
  <2>13. NamesOf(b \o u) = NamesOf(b) \o NamesOf(u)
    BY <2>5, <2>12 DEF nb, nu, nq
  <2> HIDE DEF q, u, r
  <2> QED BY <2>1, <2>4, <2>5, <2>6, <2>7, <2>8, <2>13 DEF JoinsNames
<1>4. \A t \in Seq(Chars) : t \in G
  <2> HIDE DEF G
  <2> QED BY <1>2, <1>3, AppendInduction
<1> QED BY <1>4

\* A path below the one of a node.
LEMMA PathsJoined ==
  ASSUME NEW b \in Seq(Chars), Mountable(b), NEW t \in Seq(Chars), Regular(t), Relative(t)
  PROVE  LET p == JoinPath(b, t)
         IN  /\ p \in Seq(Chars) /\ Regular(p) /\ p # << >> /\ p[1] = "/"
             /\ NamesOf(p) = NamesOf(b) \o NamesOf(t)
<1>1. b # << >> /\ b[1] = "/" /\ Regular(b) /\ (b = Root \/ Last(b) # "/")
  BY DEF Mountable
<1>2. CASE b = Root
  <2>1. Ends(b)
    <3>1. Root = Append(<< >>, "/") /\ "/" \in Chars /\ << >> \in Seq(Chars)
      BY DEF Root, Chars
    <3>2. Last(Root) = "/"
      BY <3>1, AppendFacts
    <3> QED BY <1>1, <1>2, <3>2 DEF Ends
  <2>2. JoinPath(b, t) = b \o t
    BY <1>2 DEF JoinPath
  <2>3. JoinsNames(b, t)
    BY <1>1, <2>1, NamesJoined
  <2> QED BY <1>1, <2>2, <2>3 DEF JoinsNames
<1>3. CASE b # Root
  <2>1. "/" \in Chars
    BY DEF Chars
  <2> DEFINE d == Append(b, "/")
  <2>2. d \in Seq(Chars) /\ d # << >> /\ Last(d) = "/" /\ d[1] = b[1]
    BY <1>1, <2>1, AppendFacts
  <2>3. Regular(d)
    BY <1>1, <1>3, <2>1, RegularNext DEF Ends
  <2>4. NamesOf(d) = NamesOf(b)
    BY <2>1, NamesGrow
  <2>5. d = b \o Root
    BY <2>1, AppendIsConcat DEF Root
  <2>6. JoinPath(b, t) = d \o t
    BY <1>3, <2>5 DEF JoinPath
  <2> HIDE DEF d
  <2>7. JoinsNames(d, t)
    BY <2>2, <2>3, NamesJoined DEF Ends
  <2> QED BY <1>1, <2>2, <2>4, <2>6, <2>7 DEF JoinsNames
<1> QED BY <1>2, <1>3

(***************************************************************************)
(* Collapsing resolves.                                                    *)
(***************************************************************************)
\* ush_utils_path_collapse keeps, name by name, what reading them one by one keeps.
LEMMA NamesKeptReads ==
  ASSUME NEW ns \in Seq(Seq(Chars))
  PROVE  /\ NamesKept(ns) = Reading(ns, <<".", ".">>, <<".">>)[Len(ns)]
         /\ ReadsNames(Reading(ns, <<".", ".">>, <<".">>), ns, Seq(Seq(Chars)), <<".", ".">>, <<".">>)
<1> DEFINE Is(g) == g = [i \in 0 .. Len(ns) |-> IF i = 0 THEN << >> ELSE KeepName(g[i - 1], ns[i])]
           kept == CHOOSE g : Is(g)
           done == Reading(ns, <<".", ".">>, <<".">>)
           n == Len(ns)
<1>1. ReadsNames(done, ns, Seq(Seq(Chars)), <<".", ".">>, <<".">>)
  BY ReadingReads
<1>2. NamesKept(ns) = kept[n]
  BY DEF NamesKept
<1>3. n \in Nat
  BY LenProperties
<1>4. /\ done \in [0 .. n -> Seq(Seq(Chars))] /\ done[0] = << >>
      /\ \A i \in 1 .. n : done[i] = Kept(done[i - 1], ns[i], <<".", ".">>, <<".">>)
  BY <1>1 DEF ReadsNames
<1>5. \A so, name : KeepName(so, name) = Kept(so, name, <<".", ".">>, <<".">>)
  BY DEF KeepName, Kept
<1> HIDE DEF n, done
<1>6. Is(done)
  <2>1. \A i \in 0 .. n : i # 0 => i \in 1 .. n
    BY <1>3
  <2>2. \A i \in 0 .. n : done[i] = IF i = 0 THEN << >> ELSE KeepName(done[i - 1], ns[i])
    BY <1>4, <1>5, <2>1
  <2> QED BY <1>4, <2>2 DEF n
<1>7. Is(kept)
  <2> HIDE DEF Is
  <2> QED BY <1>6
<1> HIDE DEF kept
<1>8. kept[0] = << >> /\ \A i \in 1 .. n : kept[i] = KeepName(kept[i - 1], ns[i])
  <2>1. 0 \in 0 .. n /\ \A i \in 1 .. n : i \in 0 .. n /\ i # 0
    BY <1>3
  <2> QED BY <1>7, <2>1 DEF n
<1> DEFINE Agree == {i \in 0 .. n : kept[i] = done[i]}
<1>9. 0 \in Agree
  BY <1>3, <1>4, <1>8
<1>10. ASSUME NEW i \in 1 .. n, i - 1 \in Agree PROVE i \in Agree
  <2>1. kept[i - 1] = done[i - 1] /\ i \in 0 .. n
    BY <1>3, <1>10
  <2> QED BY <1>4, <1>5, <1>8, <2>1
<1>11. \A i \in 0 .. n : i \in Agree
  <2> HIDE DEF Agree
  <2> QED BY <1>3, <1>9, <1>10, IntervalInduction
<1>12. kept[n] = done[n]
  <2>1. n \in 0 .. n
    BY <1>3
  <2> QED BY <1>11, <2>1
<1> QED BY <1>1, <1>2, <1>12 DEF done, n

\* Names read one by one, with the one before taken away at each "..", leave what
\* the reference counts as left.
LEMMA NamesKeptResolves ==
  ASSUME NEW ns \in Seq(Seq(Chars))
  PROVE  Reference!Resolve(ns) = NamesKept(ns)
<1>1. NamesKept(ns) = Picked(Survivors(ns, <<".", ".">>, <<".">>), ns)
  <2>1. <<".", ".">> # <<".">>
    OBVIOUS
  <2>2. PICK done : /\ ReadsNames(done, ns, Seq(Seq(Chars)), <<".", ".">>, <<".">>)
                    /\ NamesKept(ns) = done[Len(ns)]
    BY NamesKeptReads
  <2>3. done[Len(ns)] = Picked(Survivors(ns, <<".", ".">>, <<".">>), ns)
    BY ONLY <2>1, <2>2, ns \in Seq(Seq(Chars)), ReadingKeepsSurvivors
  <2> QED BY <2>2, <2>3
<1>2. Reference!Resolve(ns) = Picked(Survivors(ns, <<".", ".">>, <<".">>), ns)
  BY DEF Reference!Resolve, Reference!Survives, Reference!Ups, Reference!Ordinary,
         Reference!Cardinality, Cardinality, Picked, Survivors
<1> QED BY <1>1, <1>2

\* A path from the root with single "/" collapses to its names, resolved.
LEMMA CollapseWrites ==
  ASSUME NEW p \in Seq(Chars), Regular(p), p # << >>, p[1] = "/"
  PROVE  Collapse(Trimmed(p)) = LET kept == NamesKept(NamesOf(p))
                                IN  IF kept = << >> THEN Root ELSE Written(kept)
<1> DEFINE t  == Trimmed(p)
           ns == NamesOf(p)
<1>1. /\ t \in Seq(Chars) /\ t # << >> /\ t[1] = "/" /\ Regular(t) /\ NamesOf(t) = ns
      /\ t = Root \/ ~Ends(t)
  BY TrimmedNames
<1>2. ns \in Seq(Seq(Chars))
  BY NamesNext
<1> HIDE DEF t, ns
<1>3. CASE t = Root
  <2>1. Collapse(t) = Root
    BY <1>3 DEF Collapse
  <2>2. ns = << >>
    <3>1. Root = Append(<< >>, "/") /\ "/" \in Chars /\ << >> \in Seq(Chars)
      BY DEF Root, Chars
    <3>2. NamesOf(Root) = NamesOf(<< >>)
      BY <3>1, NamesGrow
    <3> QED BY <1>1, <1>3, <3>2, NamesNext
  <2>3. NamesKept(ns) = << >>
    <3>1. Len(ns) = 0
      BY <2>2
    <3> QED BY <1>2, <3>1, NamesKeptReads DEF ReadsNames
  <2> QED BY <2>1, <2>3 DEF t, ns
<1>4. CASE t # Root
  <2>1. SplitsTo(t, SplitAs(t)) /\ ~Ends(t)
    BY <1>1, <1>4, RegularSplits DEF Absolute
  <2>2. Split(t) = IF SplitAs(t).state = 1 THEN Append(SplitAs(t).nodes, << >>) ELSE SplitAs(t).nodes
    BY <1>1, <2>1, SplitIs
  <2>3. Split(t) = ns
    BY <1>1, <2>1, <2>2 DEF SplitAs
  <2> QED BY <1>4, <2>3 DEF Collapse, t, ns
<1> QED BY <1>3, <1>4

\* ush_node_get_absolute_path, character by character, resolves what is typed with
\* single "/" to the names that it means at the current node, if that node is
\* mounted at a path of whole names.
THEOREM ResolvesNamesHolds ==
  ASSUME \A c \in Currents : Mountable(c)
  PROVE  PathSpec => []ResolvesNames
<1>1. PathsTyped => ResolvesNames
  <2> SUFFICES ASSUME PathsTyped, Regular(typed)
               PROVE  LET from  == IF typed # << >> /\ typed[1] = "/" THEN << >> ELSE NamesOf(current)
                          names == Reference!Resolve(from \o NamesOf(typed))
                      IN  AbsolutePath(typed) = IF names = << >> THEN Root ELSE Written(names)
    BY DEF ResolvesNames
  <2>1. typed \in Seq(Chars) /\ current \in Seq(Chars) /\ Mountable(current)
    BY PathsAssumption DEF PathsTyped
  <2> DEFINE from == IF typed # << >> /\ typed[1] = "/" THEN << >> ELSE NamesOf(current)
             p == Anchored(typed)
             ns == from \o NamesOf(typed)
  <2>2. p \in Seq(Chars) /\ Regular(p) /\ p # << >> /\ p[1] = "/" /\ NamesOf(p) = ns
    <3>1. CASE typed # << >> /\ typed[1] = "/"
      <4>1. p = typed /\ from = << >>
        BY <3>1 DEF Anchored
      <4>2. NamesOf(typed) \in Seq(Seq(Chars))
        BY <2>1, NamesNext
      <4>3. ns = NamesOf(typed)
        BY <4>1, <4>2, ConcatEmptySeq
      <4> QED BY <2>1, <3>1, <4>1, <4>3
    <3>2. CASE ~(typed # << >> /\ typed[1] = "/")
      <4>1. p = JoinPath(current, typed) /\ from = NamesOf(current)
        BY <3>2 DEF Anchored
      <4>2. Relative(typed)
        BY <3>2 DEF Relative
      <4> QED BY <2>1, <4>1, <4>2, PathsJoined
    <3> QED BY <3>1, <3>2
  <2>3. ns \in Seq(Seq(Chars))
    BY <2>2, NamesNext
  <2> HIDE DEF p, ns
  <2>4. Collapse(Trimmed(p)) = LET kept == NamesKept(ns) IN IF kept = << >> THEN Root ELSE Written(kept)
    BY <2>2, CollapseWrites
  <2>5. AbsolutePath(typed) = Collapse(Trimmed(p))
    BY DEF AbsolutePath, p
  <2>6. Reference!Resolve(ns) = NamesKept(ns)
    BY <2>3, NamesKeptResolves
  <2> QED BY <2>4, <2>5, <2>6 DEF ns
<1> QED BY <1>1, PathsTypedHolds, PTL

(***************************************************************************)
(* The levels of a path with one character more.                           *)
(***************************************************************************)

\* A level of a longer path is the level before, or all of it.
LEMMA LevelNext ==
  ASSUME NEW p \in Seq(Chars), NEW c \in Chars, NEW i \in Nat, i # 0
  PROVE  LET q == Append(p, c)
             n == Len(p)
         IN  PathLevel(i, q) = IF LevelAt(q, n + 1) <= i THEN q ELSE PathLevel(i, p)
<1> DEFINE q == Append(p, c)
           n == Len(p)
           A == {k \in DOMAIN p : LevelAt(p, k) <= i} \cup {0}
           B == {k \in DOMAIN q : LevelAt(q, k) <= i} \cup {0}
<1>1. /\ n \in Nat /\ DOMAIN p = 1 .. n /\ DOMAIN q = 1 .. n + 1 /\ Len(q) = n + 1
      /\ q \in Seq(Chars)
      /\ \A j \in 1 .. n : q[j] = p[j]
  <2>1. q \in Seq(Chars) /\ Len(q) = n + 1
    BY AppendFacts
  <2> QED BY <2>1, AppendFacts, LenProperties
<1>2. \A j \in Nat : j <= n => SubSeq(q, 1, j) = SubSeq(p, 1, j)
  BY SubSeqOfAppend
<1>3. PathLevel(i, p) = SubSeq(p, 1, Max(A)) /\ PathLevel(i, q) = SubSeq(q, 1, Max(B))
  BY DEF PathLevel
<1>4. SubSeq(q, 1, n + 1) = q
  <2>1. SubSeq(q, 1, Len(q)) = q
    BY ONLY <1>1, SubSeqFull
  <2> QED BY <1>1, <2>1
<1> HIDE DEF q, n
<1>5. ASSUME NEW k \in 1 .. n PROVE LevelAt(q, k) = LevelAt(p, k)
  <2>1. \A j \in 2 .. k : j \in 1 .. n
    BY <1>1
  <2>2. {j \in 2 .. k : q[j] = "/"} = {j \in 2 .. k : p[j] = "/"}
    BY <1>1, <2>1
  <2> QED BY <2>2 DEF LevelAt
<1>6. /\ B \subseteq Int /\ 0 \in A
      /\ \A x \in A : x \in 0 .. n
      /\ \A x \in B : x \in 0 .. n + 1
  BY <1>1
<1>7. CASE LevelAt(q, n + 1) <= i
  <2>1. n + 1 \in B /\ \A x \in B : x <= n + 1
    BY <1>1, <1>6, <1>7
  <2>2. Max(B) = n + 1
    <3> HIDE DEF B
    <3> QED BY <1>6, <2>1, MaxIs
  <2> HIDE DEF A, B
  <2> QED BY <1>3, <1>4, <1>7, <2>2 DEF q, n
<1>8. CASE ~(LevelAt(q, n + 1) <= i)
  <2>1. A = B
    <3>1. \A k \in 1 .. n : k \in A <=> k \in B
      BY <1>1, <1>5
    <3>2. n + 1 \notin B
      BY <1>1, <1>8
    <3>3. 0 \in A /\ 0 \in B
      OBVIOUS
    <3> HIDE DEF A, B
    <3>4. \A k \in 0 .. n + 1 : k = 0 \/ k \in 1 .. n \/ k = n + 1
      BY <1>1
    <3>5. \A k \in 0 .. n : k = 0 \/ k \in 1 .. n
      BY <1>1
    <3>6. \A x \in A : x \in B
      BY <1>6, <3>1, <3>3, <3>5
    <3>7. \A x \in B : x \in A
      BY <1>6, <3>1, <3>2, <3>3, <3>4
    <3> QED BY <3>6, <3>7
  <2>2. Max(A) \in A
    <3> HIDE DEF A, B
    <3> QED BY <1>1, <1>6, MaxUpTo
  <2>3. Max(A) \in Nat /\ Max(A) <= n
    <3> HIDE DEF A, B
    <3> QED BY <1>1, <1>6, <2>2
  <2> HIDE DEF A, B
  <2> QED BY <1>2, <1>3, <1>8, <2>1, <2>3 DEF q, n
<1> QED BY <1>7, <1>8 DEF q, n

\* As many "/" as names, and one more when the path ends with it.
LEMMA SlashesCount ==
  \A p \in Seq(Chars) : Absolute(p) /\ Regular(p) =>
     UpTo(p, Len(p)) = Len(NamesOf(p)) + (IF Ends(p) THEN 1 ELSE 0)
<1> DEFINE Good(p) == Absolute(p) /\ Regular(p) =>
                        UpTo(p, Len(p)) = Len(NamesOf(p)) + (IF Ends(p) THEN 1 ELSE 0)
           G == {p \in Seq(Chars) : Good(p)}
<1>1. << >> \in G
  <2>1. "/" \in Chars /\ << >> \in Seq(Chars) /\ Len(<< >>) = 0
    BY DEF Chars
  <2>2. UpTo(<< >>, 0) = 0
    BY <2>1, CountsAppend
  <2>3. Good(<< >>)
    BY <2>1, <2>2, NamesNext DEF Ends
  <2> QED BY <2>1, <2>3
<1>2. ASSUME NEW p \in Seq(Chars), p \in G, NEW c \in Chars PROVE Append(p, c) \in G
  <2> DEFINE q == Append(p, c)
             ns == NamesOf(p)
             ms == NamesOf(q)
  <2>1. /\ q \in Seq(Chars) /\ q # << >> /\ Last(q) = c /\ q[1] = (IF p = << >> THEN c ELSE p[1])
        /\ Len(q) = Len(p) + 1 /\ Len(p) \in Nat
    BY AppendFacts
  <2>2. SUFFICES ASSUME Absolute(q), Regular(q)
                 PROVE  UpTo(q, Len(q)) = Len(ms) + (IF Ends(q) THEN 1 ELSE 0)
    BY <2>1
  <2>3. Absolute(p) /\ Regular(p) /\ ~(Ends(p) /\ c = "/") /\ (p = << >> => c = "/")
    BY <2>1, <2>2, RegularNext DEF Absolute
  <2>4. UpTo(p, Len(p)) = Len(ns) + (IF Ends(p) THEN 1 ELSE 0)
    BY <1>2, <2>3
  <2>5. UpTo(q, Len(q)) = UpTo(p, Len(p)) + (IF c = "/" THEN 1 ELSE 0)
    BY <2>1, CountsAppend
  <2>6. /\ ns \in Seq(Seq(Chars)) /\ ms \in Seq(Seq(Chars))
        /\ c = "/" => ms = ns
        /\ Begun(p, c) => ms = Append(ns, <<c>>)
        /\ c # "/" /\ ~Begun(p, c) => /\ Append(Last(ns), c) \in Seq(Chars)
                                      /\ Front(ns) \in Seq(Seq(Chars)) /\ Last(ns) \in Seq(Chars)
                                      /\ ns = Append(Front(ns), Last(ns))
                                      /\ ms = Append(Front(ns), Append(Last(ns), c))
    BY NamesGrow
  <2>7. Ends(q) <=> c = "/"
    BY <2>1 DEF Ends
  <2>8. Begun(p, c) => Ends(p) /\ c # "/"
    BY <2>3 DEF Begun, Ends
  <2>9. c # "/" /\ ~Begun(p, c) => ~Ends(p)
    BY DEF Begun, Ends
  <2> HIDE DEF q, ns, ms
  <2>10. Len(ns) \in Nat /\ <<c>> \in Seq(Chars)
    BY <2>6, LenProperties
  <2>11. CASE c = "/"
    BY <2>3, <2>4, <2>5, <2>6, <2>7, <2>10, <2>11
  <2>12. CASE Begun(p, c)
    <3>1. Len(ms) = Len(ns) + 1
      BY <2>6, <2>10, <2>12, AppendFacts
    <3> QED BY <2>4, <2>5, <2>7, <2>8, <2>10, <2>12, <3>1
  <2>13. CASE c # "/" /\ ~Begun(p, c)
    <3>1. Len(ms) = Len(Front(ns)) + 1 /\ Len(ns) = Len(Front(ns)) + 1
      BY <2>6, <2>13, AppendFacts
    <3> QED BY <2>4, <2>5, <2>7, <2>9, <2>10, <2>13, <3>1
  <2> QED BY <2>11, <2>12, <2>13
<1>3. \A p \in Seq(Chars) : p \in G
  <2> HIDE DEF G
  <2> QED BY <1>1, <1>2, AppendInduction
<1> QED BY <1>3

\* The last "/", what is in front of it and what is behind.
LastSlashOf(p, ns) ==
  LET k == LastSlash(p)
  IN  /\ k \in 1 .. Len(p) /\ p[k] = "/"
      /\ SubSeq(p, 1, k - 1) = IF Ends(p) THEN Written(ns) ELSE Written(Front(ns))
      /\ SubSeq(p, k + 1, Len(p)) = IF Ends(p) THEN << >> ELSE Last(ns)

\* Each level is so many names.
LevelsOf(p, ns) == \A i \in 1 .. Len(ns) : PathLevel(i, p) = Written(SubSeq(ns, 1, i))

\* Where the last "/" of a path with one character more is.
LEMMA LastSlashNext ==
  ASSUME NEW p \in Seq(Chars), NEW c \in Chars
  PROVE  LastSlash(Append(p, c)) = IF c = "/" THEN Len(p) + 1 ELSE LastSlash(p)
<1> DEFINE q == Append(p, c)
           n == Len(p)
           A == {k \in DOMAIN p : p[k] = "/"} \cup {0}
           B == {k \in DOMAIN q : q[k] = "/"} \cup {0}
<1>1. /\ n \in Nat /\ DOMAIN p = 1 .. n /\ DOMAIN q = 1 .. n + 1
      /\ \A j \in 1 .. n : q[j] = p[j]
      /\ q[n + 1] = c
  <2>1. q \in Seq(Chars) /\ Len(q) = n + 1
    BY AppendFacts
  <2> QED BY <2>1, AppendFacts, LenProperties
<1>2. LastSlash(p) = Max(A) /\ LastSlash(q) = Max(B)
  BY DEF LastSlash
<1> HIDE DEF q, n
<1>3. CASE c = "/"
  <2>1. n + 1 \in B /\ \A x \in B : x <= n + 1
    BY <1>1, <1>3
  <2>2. B \subseteq Int
    BY <1>1
  <2>3. Max(B) = n + 1
    <3> HIDE DEF B
    <3> QED BY <2>1, <2>2, MaxIs
  <2> QED BY <1>2, <1>3, <2>3 DEF q, n
<1>4. CASE c # "/"
  <2>1. \A x : x \in A <=> x \in B
    <3> SUFFICES ASSUME NEW x PROVE x \in A <=> x \in B
      OBVIOUS
    <3>1. CASE x = 0
      BY <3>1
    <3>2. CASE x \in 1 .. n
      <4>1. x \in 1 .. n + 1
        BY <1>1, <3>2
      <4> QED BY <1>1, <3>2, <4>1
    <3>3. CASE x # 0 /\ x \notin 1 .. n
      <4>1. x \notin A
        BY <1>1, <3>3
      <4>2. ASSUME x \in B PROVE FALSE
        <5>1. x \in 1 .. n + 1 /\ q[x] = "/"
          BY <1>1, <3>3, <4>2
        <5>2. x = n + 1
          BY <1>1, <3>3, <5>1
        <5> QED BY <1>1, <1>4, <5>1, <5>2
      <4> QED BY <4>1, <4>2
    <3> QED BY <3>1, <3>2, <3>3
  <2>2. A = B
    <3> HIDE DEF A, B
    <3> QED BY <2>1
  <2> HIDE DEF A, B
  <2> QED BY <1>2, <1>4, <2>2 DEF q, n
<1> QED BY <1>3, <1>4

\* A path of whole names has their levels, and its last "/" parts the last name
\* from the others.
LEMMA PathsInParts ==
  \A p \in Seq(Chars) : Absolute(p) /\ Regular(p) =>
     LevelsOf(p, NamesOf(p)) /\ (p # << >> => LastSlashOf(p, NamesOf(p)))
<1> DEFINE Good(p) == Absolute(p) /\ Regular(p) =>
                        LevelsOf(p, NamesOf(p)) /\ (p # << >> => LastSlashOf(p, NamesOf(p)))
           G == {p \in Seq(Chars) : Good(p)}
<1>1. << >> \in G
  <2>1. LevelsOf(<< >>, << >>)
    BY DEF LevelsOf
  <2> QED BY <2>1, NamesNext
<1>2. ASSUME NEW p \in Seq(Chars), p \in G, NEW c \in Chars PROVE Append(p, c) \in G
  <2> DEFINE q == Append(p, c)
             ns == NamesOf(p)
             ms == NamesOf(q)
             n == Len(p)
             k == LastSlash(p)
             l == LastSlash(q)
  <2>1. /\ q \in Seq(Chars) /\ q # << >> /\ Last(q) = c /\ q[1] = (IF p = << >> THEN c ELSE p[1])
        /\ Len(q) = n + 1 /\ n \in Nat /\ \A j \in 1 .. n : q[j] = p[j]
        /\ q[n + 1] = c
    BY AppendFacts
  <2>2. SUFFICES ASSUME Absolute(q), Regular(q)
                 PROVE  LevelsOf(q, ms) /\ LastSlashOf(q, ms)
    BY <2>1
  <2>3. Absolute(p) /\ Regular(p) /\ ~(Ends(p) /\ c = "/") /\ (p = << >> => c = "/")
    BY <2>1, <2>2, RegularNext DEF Absolute
  <2>4. LevelsOf(p, ns) /\ (p # << >> => LastSlashOf(p, ns))
    BY <1>2, <2>3
  <2>5. /\ p = Written(ns) \o Ending(p) /\ q = Written(ms) \o Ending(q)
        /\ UpTo(q, n + 1) = Len(ms) + (IF Ends(q) THEN 1 ELSE 0)
    BY <2>1, <2>2, <2>3, RegularSplits, SlashesCount
  <2>6. /\ ns \in Seq(Seq(Chars)) /\ ms \in Seq(Seq(Chars))
        /\ c = "/" => ms = ns
        /\ Begun(p, c) => ms = Append(ns, <<c>>)
        /\ c # "/" /\ ~Begun(p, c) => /\ Append(Last(ns), c) \in Seq(Chars)
                                      /\ Front(ns) \in Seq(Seq(Chars)) /\ Last(ns) \in Seq(Chars)
                                      /\ ns = Append(Front(ns), Last(ns))
                                      /\ ms = Append(Front(ns), Append(Last(ns), c))
    BY NamesGrow
  <2>7. Ends(q) <=> c = "/"
    BY <2>1 DEF Ends
  <2>8. Begun(p, c) => Ends(p) /\ c # "/"
    BY <2>3 DEF Begun, Ends
  <2>9. c # "/" /\ ~Begun(p, c) => ~Ends(p) /\ p # << >>
    BY <2>3 DEF Begun, Ends
  <2>10. Written(ns) \in Seq(Chars) /\ Written(ms) \in Seq(Chars) /\ <<c>> \in Seq(Chars)
    BY <2>6, WrittenNames
  <2>11. \A i \in Nat : i # 0 =>
           PathLevel(i, q) = IF LevelAt(q, n + 1) <= i THEN q ELSE PathLevel(i, p)
    BY LevelNext
  <2>12. LevelAt(q, n + 1) = UpTo(q, n + 1)
    <3>1. n + 1 \in 1 .. Len(q) /\ q[1] = "/"
      BY <2>1, <2>2 DEF Absolute
    <3>2. /\ LevelAt(q, n + 1) = 1 + Behind(q, n + 1) /\ Behind(q, n + 1) \in Nat
          /\ UpTo(q, n + 1) = (IF q[1] = "/" THEN 1 ELSE 0) + Behind(q, n + 1)
      BY <2>1, <3>1, LevelCounts
    <3> QED BY <3>1, <3>2
  <2>13. l = IF c = "/" THEN n + 1 ELSE k
    BY LastSlashNext
  <2>14. \A i \in Nat, j \in Nat : 1 <= i /\ j <= n => SubSeq(q, i, j) = SubSeq(p, i, j)
    BY SubSeqOfAppend
  <2>15. \A i \in 1 .. n + 1 : SubSeq(q, i, n + 1) = Append(SubSeq(p, i, n), c)
    BY SubSeqGrows
  <2>16. SubSeq(p, 1, n) = p /\ SubSeq(q, n + 2, n + 1) = << >>
    BY <2>1, SubSeqFull, SubSeqEmpty
  <2>17. SubSeq(ms, 1, Len(ms)) = ms
    BY <2>6, SubSeqFull
  <2>18. Len(ms) \in Nat /\ Len(ns) \in Nat
    BY <2>6, LenProperties
  <2>19. /\ c = "/" => Len(ms) = Len(ns)
         /\ Begun(p, c) => Len(ms) = Len(ns) + 1 /\ Front(ms) = ns /\ Last(ms) = <<c>>
                           /\ \A i \in Nat : i <= Len(ns) => SubSeq(ms, 1, i) = SubSeq(ns, 1, i)
         /\ c # "/" /\ ~Begun(p, c) =>
               /\ Len(ms) = Len(ns) /\ Front(ms) = Front(ns) /\ Last(ms) = Append(Last(ns), c)
               /\ \A i \in Nat : i <= Len(ns) - 1 => SubSeq(ms, 1, i) = SubSeq(ns, 1, i)
    <3> HIDE DEF ns, ms, q
    <3>1. ASSUME Begun(p, c)
          PROVE  /\ Len(ms) = Len(ns) + 1 /\ Front(ms) = ns /\ Last(ms) = <<c>>
                 /\ \A i \in Nat : i <= Len(ns) => SubSeq(ms, 1, i) = SubSeq(ns, 1, i)
      <4>1. ms = Append(ns, <<c>>)
        BY <2>6, <3>1
      <4>2. Len(ms) = Len(ns) + 1 /\ Front(ms) = ns /\ Last(ms) = <<c>>
        <5>1. PICK w \in Seq(Chars) : w = <<c>>
          BY <2>10
        <5>2. Len(Append(ns, w)) = Len(ns) + 1 /\ Front(Append(ns, w)) = ns /\ Last(Append(ns, w)) = w
          BY ONLY <2>6, w \in Seq(Chars), AppendFacts
        <5> QED BY <4>1, <5>1, <5>2
      <4>3. \A i \in Nat : i <= Len(ns) => SubSeq(ms, 1, i) = SubSeq(ns, 1, i)
        BY <2>6, <2>10, <4>1, SubSeqOfAppend
      <4> QED BY <4>2, <4>3
    <3>2. ASSUME c # "/", ~Begun(p, c)
          PROVE  /\ Len(ms) = Len(ns) /\ Front(ms) = Front(ns) /\ Last(ms) = Append(Last(ns), c)
                 /\ \A i \in Nat : i <= Len(ns) - 1 => SubSeq(ms, 1, i) = SubSeq(ns, 1, i)
      <4> DEFINE F == Front(ns)
                 x == Last(ns)
                 y == Append(x, c)
      <4>1. /\ F \in Seq(Seq(Chars)) /\ x \in Seq(Chars) /\ y \in Seq(Chars)
            /\ ns = Append(F, x) /\ ms = Append(F, y)
        BY <2>6, <3>2
      <4> HIDE DEF F, x, y
      <4>2. Len(ns) = Len(F) + 1 /\ Len(ms) = Len(F) + 1 /\ Len(F) \in Nat
            /\ Front(ms) = F /\ Last(ms) = y
        BY <4>1, AppendFacts
      <4>3. ASSUME NEW i \in Nat, i <= Len(ns) - 1 PROVE SubSeq(ms, 1, i) = SubSeq(ns, 1, i)
        <5>1. i <= Len(F)
          BY <4>2, <4>3
        <5>2. SubSeq(Append(F, x), 1, i) = SubSeq(F, 1, i)
          BY ONLY <4>1, <5>1, i \in Nat, SubSeqOfAppend
        <5>3. SubSeq(Append(F, y), 1, i) = SubSeq(F, 1, i)
          BY ONLY <4>1, <5>1, i \in Nat, SubSeqOfAppend
        <5> QED BY <4>1, <5>2, <5>3
      <4> QED BY <4>2, <4>3 DEF F, x, y
    <3> QED BY <2>6, <3>1, <3>2
  <2> HIDE DEF q, ns, ms, n, k, l
  <2>20. c # "/" => q = Written(ms)
    BY <2>5, <2>7, <2>10, ConcatEmptySeq DEF Ending
  <2>21. c = "/" => p = Written(ns)
    BY <2>3, <2>5, <2>10, ConcatEmptySeq DEF Ending
  <2>22. LevelsOf(q, ms)
    <3> SUFFICES ASSUME NEW i \in 1 .. Len(ms) PROVE PathLevel(i, q) = Written(SubSeq(ms, 1, i))
      BY DEF LevelsOf
    <3>1. i \in Nat /\ i # 0 /\ 1 <= i /\ i <= Len(ms)
      BY <2>18
    <3> DEFINE L == LevelAt(q, n + 1)
               M == Len(ms)
    <3>2. LevelAt(q, n + 1) = Len(ms) + (IF c = "/" THEN 1 ELSE 0)
      BY <2>5, <2>7, <2>12
    <3>3. M \in Nat /\ i <= M /\ L = M + (IF c = "/" THEN 1 ELSE 0)
      BY <2>18, <3>1, <3>2
    <3>4. \A j \in 1 .. Len(ns) : PathLevel(j, p) = Written(SubSeq(ns, 1, j))
      BY <2>4 DEF LevelsOf
    <3>5. CASE c = "/"
      <4>1. ~(LevelAt(q, n + 1) <= i) /\ ms = ns
        <5>1. ~(L <= i)
          <6> HIDE DEF L, M
          <6> QED BY <3>1, <3>3, <3>5
        <5> QED BY <2>6, <3>5, <5>1
      <4> QED BY <2>11, <3>1, <3>4, <4>1
    <3>6. CASE c # "/" /\ i = Len(ms)
      <4>1. LevelAt(q, n + 1) <= i
        BY <2>18, <3>1, <3>2, <3>6
      <4> QED BY <2>11, <2>17, <2>20, <3>1, <3>6, <4>1
    <3>7. CASE c # "/" /\ i # Len(ms)
      <4>1. ~(LevelAt(q, n + 1) <= i)
        <5>1. i # M
          BY <3>7
        <5>2. ~(L <= i)
          <6> HIDE DEF L, M
          <6> QED BY <3>1, <3>3, <3>7, <5>1
        <5> QED BY <5>2
      <4>2. i \in 1 .. Len(ns) /\ SubSeq(ms, 1, i) = SubSeq(ns, 1, i)
        <5>1. CASE Begun(p, c)
          <6>1. i \in 1 .. Len(ns) /\ i <= Len(ns)
            <7>1. Len(ms) = Len(ns) + 1
              BY <2>19, <5>1
            <7>2. i # Len(ms)
              BY <3>7
            <7> QED BY ONLY <2>18, <3>1, <7>1, <7>2
          <6> QED BY <2>19, <3>1, <5>1, <6>1
        <5>2. CASE ~Begun(p, c)
          <6>1. i \in 1 .. Len(ns) /\ i <= Len(ns) - 1
            <7>1. Len(ms) = Len(ns)
              BY <2>19, <3>7, <5>2
            <7>2. i # Len(ms)
              BY <3>7
            <7> QED BY ONLY <2>18, <3>1, <7>1, <7>2
          <6> QED BY <2>19, <3>1, <3>7, <5>2, <6>1
        <5> QED BY <5>1, <5>2
      <4> QED BY <2>11, <3>1, <3>4, <4>1, <4>2
    <3> QED BY <3>5, <3>6, <3>7
  <2>23. LastSlashOf(q, ms)
    <3>1. CASE c = "/"
      <4>1. l = n + 1 /\ l - 1 = n /\ l + 1 = n + 2 /\ l \in 1 .. Len(q)
        BY <2>1, <2>13, <3>1
      <4>2. SubSeq(q, 1, n) = p
        BY <2>1, <2>14, <2>16
      <4>3. q[l] = "/" /\ SubSeq(q, 1, l - 1) = Written(ms) /\ SubSeq(q, l + 1, Len(q)) = << >>
        BY <2>1, <2>6, <2>16, <2>21, <3>1, <4>1, <4>2
      <4> QED BY <2>7, <3>1, <4>1, <4>3 DEF LastSlashOf, l
    <3>2. CASE c # "/"
      <4>1. p # << >> /\ LastSlashOf(p, ns)
        BY <2>3, <2>4, <3>2
      <4>2. /\ k \in 1 .. n /\ p[k] = "/"
            /\ SubSeq(p, 1, k - 1) = IF Ends(p) THEN Written(ns) ELSE Written(Front(ns))
            /\ SubSeq(p, k + 1, n) = IF Ends(p) THEN << >> ELSE Last(ns)
        BY <4>1 DEF LastSlashOf, k, n
      <4>3. l = k /\ k \in 1 .. Len(q) /\ q[k] = "/" /\ k + 1 \in 1 .. n + 1
            /\ k - 1 \in Nat /\ k - 1 <= n /\ 1 \in Nat /\ 1 <= 1
        BY <2>1, <2>13, <3>2, <4>2
      <4>4. SubSeq(q, 1, k - 1) = SubSeq(p, 1, k - 1)
        BY <2>14, <4>3
      <4>5. SubSeq(q, k + 1, Len(q)) = Append(SubSeq(p, k + 1, n), c)
        BY <2>1, <2>15, <4>3
      <4>6. SubSeq(q, 1, k - 1) = Written(Front(ms)) /\ SubSeq(q, k + 1, Len(q)) = Last(ms)
        <5>1. CASE Begun(p, c)
          <6>1. Append(<< >>, c) = <<c>>
            OBVIOUS
          <6> QED BY <2>8, <2>19, <4>2, <4>4, <4>5, <5>1, <6>1
        <5>2. CASE ~Begun(p, c)
          BY <2>9, <2>19, <3>2, <4>2, <4>4, <4>5, <5>2
        <5> QED BY <5>1, <5>2
      <4> QED BY <2>7, <3>2, <4>3, <4>6 DEF LastSlashOf, l
    <3> QED BY <3>1, <3>2
  <2> QED BY <2>22, <2>23
<1>3. \A p \in Seq(Chars) : p \in G
  <2> HIDE DEF G
  <2> QED BY <1>1, <1>2, AppendInduction
<1> QED BY <1>3

\* What ush_utils.c says of the levels, the parent and the last name of a path
\* that is mounted.
LEMMA MountedLevels ==
  ASSUME NEW p \in Seq(Chars), Mountable(p), p # Root
  PROVE  LET ns == NamesOf(p)
             n  == LevelsCount(p)
         IN  /\ n = Len(ns)
             /\ \A i \in 1 .. n : PathLevel(i, p) = Written(SubSeq(ns, 1, i))
             /\ PathUpper(p) = PathLevel(n - 1, p)
             /\ JoinPath(PathUpper(p), PathLast(p)) = p
<1> DEFINE ns == NamesOf(p)
           N  == Len(ns)
           F  == Front(ns)
           x  == Last(ns)
           k  == LastSlash(p)
<1>1. p # << >> /\ p[1] = "/" /\ Regular(p) /\ ~Ends(p) /\ Absolute(p)
  BY DEF Mountable, Ends, Absolute
<1>2. /\ Len(p) \in Nat /\ Len(p) >= 1 /\ DOMAIN p = 1 .. Len(p)
  BY <1>1, EmptySeq, LenProperties
<1>3. Len(p) # 1
  <2> SUFFICES ASSUME Len(p) = 1 PROVE FALSE
    OBVIOUS
  <2>1. Len(Root) = 1 /\ Root[1] = "/"
    BY DEF Root
  <2>2. \A i \in 1 .. Len(p) : p[i] = Root[i]
    BY <1>1, <2>1
  <2>3. p = Root
    BY <2>1, <2>2, RootIsPath, SeqEqual
  <2> QED BY <2>3
<1>4. /\ ns \in Seq(Seq(Chars)) /\ N \in Nat /\ N >= 1
  BY <1>1, NamesNext, LenProperties DEF Ends
<1>5. LevelsOf(p, ns) /\ LastSlashOf(p, ns) /\ UpTo(p, Len(p)) = N
  BY <1>1, <1>4, PathsInParts, SlashesCount
<1>6. p = Written(ns)
  <2>1. p = Written(ns) \o Ending(p)
    BY <1>1, RegularSplits
  <2>2. Written(ns) \in Seq(Chars)
    BY <1>4, WrittenNames
  <2> HIDE DEF ns
  <2> QED BY <1>1, <2>1, <2>2, ConcatEmptySeq DEF Ending
<1>7. LevelsCount(p) = N
  <2>1. LevelsCount(p) = LevelAt(p, Len(p))
    BY <1>1 DEF LevelsCount
  <2>2. Len(p) \in 1 .. Len(p)
    BY <1>2
  <2>3. /\ LevelAt(p, Len(p)) = 1 + Behind(p, Len(p)) /\ Behind(p, Len(p)) \in Nat
        /\ UpTo(p, Len(p)) = (IF p[1] = "/" THEN 1 ELSE 0) + Behind(p, Len(p))
    BY <2>2, LevelCounts
  <2> QED BY <1>1, <1>5, <2>1, <2>3
<1>8. /\ k \in 1 .. Len(p) /\ p[k] = "/"
      /\ SubSeq(p, 1, k - 1) = Written(F) /\ SubSeq(p, k + 1, Len(p)) = x
  BY <1>1, <1>5 DEF LastSlashOf
<1>9. ns # << >>
  BY <1>4
<1>10. F \in Seq(Seq(Chars)) /\ x \in Seq(Chars) /\ ns = Append(F, x) /\ F = SubSeq(ns, 1, N - 1)
  BY <1>4, <1>9, FrontLast DEF Front
<1>11. PathLast(p) = x
  BY <1>3, <1>8 DEF PathLast
<1>12. \A i \in 1 .. N : PathLevel(i, p) = Written(SubSeq(ns, 1, i))
  BY <1>5 DEF LevelsOf
<1>13. Len(F) = N - 1
  <2> HIDE DEF F, x, ns
  <2>1. N = Len(F) + 1 /\ Len(F) \in Nat
    BY <1>10, AppendFacts DEF N
  <2> QED BY <2>1
<1>14. Written(ns) = Written(F) \o (Root \o x) /\ Written(F) \in Seq(Chars) /\ Written(<< >>) = << >>
  <2> HIDE DEF F, x, ns
  <2> QED BY <1>10, WrittenNames
<1> HIDE DEF ns, N, F, x, k
<1>15. PathUpper(p) = IF k = 1 THEN Root ELSE Written(F)
  <2>1. k = LastSlash(p) /\ k # 0
    BY <1>2, <1>8 DEF k
  <2>2. CASE k = 1
    <3>1. SubSeq(p, 1, 1) = Root
      <4>1. /\ SubSeq(p, 1, 1) \in Seq(Chars) /\ Len(SubSeq(p, 1, 1)) = 1
            /\ \A i \in 1 .. 1 : SubSeq(p, 1, 1)[i] = p[i]
        BY <1>2, FirstOfSeq
      <4>2. Len(Root) = 1 /\ Root[1] = "/"
        BY DEF Root
      <4>3. \A i \in 1 .. Len(SubSeq(p, 1, 1)) : SubSeq(p, 1, 1)[i] = Root[i]
        BY <1>1, <4>1, <4>2
      <4> QED BY <4>1, <4>2, <4>3, RootIsPath, SeqEqual
    <3> QED BY <1>3, <2>1, <2>2, <3>1 DEF PathUpper
  <2>3. CASE k # 1
    BY <1>3, <1>8, <2>1, <2>3 DEF PathUpper
  <2> QED BY <2>2, <2>3
<1>16. k = 1 <=> N = 1
  <2>1. /\ Len(SubSeq(p, 1, k - 1)) = k - 1 /\ k - 1 \in Nat
    <3>1. k - 1 \in Nat /\ k - 1 <= Len(p)
      BY <1>2, <1>8
    <3> QED BY <3>1, FirstOfSeq
  <2>2. Len(Written(F)) = k - 1
    BY <1>8, <2>1
  <2>3. ASSUME N = 1 PROVE k = 1
    <3>1. Len(F) = 0
      BY <1>13, <2>3
    <3>2. F = << >>
      BY <1>10, <3>1, EmptySeq
    <3>3. Len(Written(F)) = 0
      BY <1>14, <3>2
    <3> QED BY <1>2, <1>8, <2>2, <3>3
  <2>4. ASSUME N # 1 PROVE k # 1
    <3>1. F # << >>
      <4>1. Len(F) # 0
        BY <1>4, <1>13, <2>4
      <4> QED BY <4>1
    <3>2. Front(F) \in Seq(Seq(Chars)) /\ Last(F) \in Seq(Chars) /\ F = Append(Front(F), Last(F))
      BY <1>10, <3>1, FrontLast
    <3>3. Written(F) = Written(Front(F)) \o (Root \o Last(F)) /\ Written(Front(F)) \in Seq(Chars)
      BY <3>2, WrittenNames
    <3>4. PICK y, z \in Seq(Chars) : y = Last(F) /\ z = Written(Front(F))
      BY <3>2, <3>3
    <3>5. PICK r \in Seq(Chars) : r = Root
      BY RootIsPath
    <3>6. Len(r) = 1
      BY <3>5 DEF Root
    <3>7. r \o y \in Seq(Chars) /\ Len(r \o y) = Len(r) + Len(y) /\ Len(y) \in Nat
      BY ONLY r \in Seq(Chars), y \in Seq(Chars), Joined
    <3>8. PICK w \in Seq(Chars) : w = r \o y
      BY <3>7
    <3>9. Len(z \o w) = Len(z) + Len(w) /\ Len(z) \in Nat
      BY ONLY z \in Seq(Chars), w \in Seq(Chars), Joined
    <3>10. Written(F) = z \o w
      BY <3>3, <3>4, <3>5, <3>8
    <3>11. Len(Written(F)) >= 1
      BY <3>6, <3>7, <3>8, <3>9, <3>10
    <3> QED BY <2>2, <3>11
  <2> QED BY <2>3, <2>4
<1>17. PathUpper(p) = PathLevel(N - 1, p)
  <2>1. CASE N = 1
    BY <1>15, <1>16, <2>1 DEF PathLevel
  <2>2. CASE N # 1
    <3>1. N - 1 \in 1 .. N
      BY <1>4, <2>2
    <3> QED BY <1>10, <1>12, <1>15, <1>16, <2>2, <3>1
  <2> QED BY <2>1, <2>2
<1>18. JoinPath(PathUpper(p), x) = p
  <2>1. CASE k = 1
    <3>1. Len(F) = 0
      BY <1>13, <1>16, <2>1
    <3>2. F = << >>
      BY <1>10, <3>1, EmptySeq
    <3>3. PICK w \in Seq(Chars) : w = Root \o x
      BY <1>10, RootIsPath, ConcatProperties
    <3>4. << >> \o w = w
      BY ConcatEmptySeq
    <3>5. p = Root \o x
      BY <1>6, <1>14, <3>2, <3>3, <3>4
    <3> QED BY <1>15, <2>1, <3>5 DEF JoinPath
  <2>2. CASE k # 1
    <3>1. Written(F) # Root
      <4> SUFFICES ASSUME Written(F) = Root PROVE FALSE
        OBVIOUS
      <4>1. Len(SubSeq(p, 1, k - 1)) = k - 1
        <5>1. k - 1 \in Nat /\ k - 1 <= Len(p)
          BY <1>2, <1>8
        <5> QED BY <5>1, FirstOfSeq
      <4>2. Len(Root) = 1
        BY DEF Root
      <4>3. k - 1 = 1
        BY <1>8, <4>1, <4>2
      <4>4. k \in Int
        BY <1>2, <1>8
      <4>5. k = 2
        BY ONLY <4>3, <4>4
      <4>6. 1 \in Slashes(p) /\ 1 < Len(p) /\ p[1 + 1] = "/"
        BY <1>1, <1>2, <1>8, <4>5 DEF Slashes
      <4> QED BY <1>1, <4>6 DEF Regular
    <3>2. Joins(Written(F), Root, x)
      BY <1>10, <1>14, RootIsPath, JoinsAlways
    <3>3. JoinPath(Written(F), x) = Written(F) \o Root \o x
      BY <3>1 DEF JoinPath
    <3> QED BY <1>6, <1>14, <1>15, <2>2, <3>2, <3>3 DEF Joins
  <2> QED BY <2>1, <2>2
<1> QED BY <1>7, <1>11, <1>12, <1>17, <1>18 DEF ns, N

\* The prefixes by ush_utils_get_path_level, the path one level up by
\* ush_utils_path_upper, the name by ush_utils_path_last and the two joined again
\* by ush_utils_join_path agree for every path that can be mounted: the level above
\* the last is the parent's path.
THEOREM LevelsAreParentsHolds == PathSpec => []LevelsAreParents
<1>1. PathsTyped => LevelsAreParents
  BY MountedLevels DEF PathsTyped, LevelsAreParents
<1> QED BY <1>1, PathsTypedHolds, PTL

=============================================================================
