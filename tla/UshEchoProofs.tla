---------------------------- MODULE UshEchoProofs ----------------------------
(***************************************************************************)
(* echo, for arguments of every length and of every bytes: decoding in     *)
(* place reads nothing it has written, so that each byte that is meant is  *)
(* stored once and in order, and what breaks off is dropped.               *)
(***************************************************************************)
EXTENDS UshEcho, Induction, SequenceTheorems, TLAPS

Typed == 1 .. 255

-----------------------------------------------------------------------------
(***************************************************************************)
(* The turns of the decoder as a function of their number.                 *)
(***************************************************************************)
HighParts == {16 * h : h \in 0 .. 15}

Decoders(n) == [buf : [1 .. n + 1 -> 0 .. 255], size : 0 .. n, state : 0 .. 3,
                val : HighParts]

Fresh(text) == [buf |-> text \o <<0>>, size |-> 0, state |-> 0, val |-> 0]

Turns(text, g) ==
  /\ g \in [0 .. Len(text) -> Decoders(Len(text))]
  /\ g[0] = Fresh(text)
  /\ \A k \in 1 .. Len(text) : g[k] = Turn(g[k - 1], k, Len(text))

LEMMA DigitsAreFour ==
  ASSUME NEW ch \in 0 .. 255
  PROVE  /\ HexToDec(ch) \in 0 .. 15 /\ High(ch) = 16 * HexToDec(ch)
         /\ High(ch) \in HighParts
<1>1. HexToDec(ch) \in 0 .. 15
  <2>1. CASE ch \in 48 .. 57
    BY <2>1 DEF HexToDec
  <2>2. CASE ch \in 65 .. 70
    BY <2>2 DEF HexToDec
  <2>3. CASE ch \in 97 .. 102
    BY <2>3 DEF HexToDec
  <2>4. CASE ch \notin (48 .. 57) \cup (65 .. 70) \cup (97 .. 102)
    BY <2>4 DEF HexToDec
  <2> QED BY <2>1, <2>2, <2>3, <2>4
<1>2. \A h \in 0 .. 15 : (h * 16) % 256 = 16 * h
  OBVIOUS
<1>3. High(ch) = 16 * HexToDec(ch)
  BY <1>1, <1>2 DEF High
<1> QED BY <1>1, <1>3 DEF HighParts

\* What else a turn does, field by field.
Like(d, e, s, v) == e.buf = d.buf /\ e.size = d.size /\ e.state = s /\ e.val = v

LEMMA SetIs ==
  ASSUME NEW n, NEW d \in Decoders(n), NEW s \in 0 .. 3, NEW v \in HighParts
  PROVE  /\ Like(d, [d EXCEPT !.state = s], s, d.val)
         /\ [d EXCEPT !.state = s] \in Decoders(n)
         /\ Like(d, [d EXCEPT !.val = v, !.state = s], s, v)
         /\ [d EXCEPT !.val = v, !.state = s] \in Decoders(n)
<1> DEFINE B == [1 .. n + 1 -> 0 .. 255]
           S == 0 .. n
           T == 0 .. 3
           V == HighParts
<1>1. Decoders(n) = [buf : B, size : S, state : T, val : V]
  BY DEF Decoders
<1>2. d \in [buf : B, size : S, state : T, val : V] /\ s \in T /\ v \in V
  BY <1>1
<1> HIDE DEF B, S, T, V
<1>3. /\ [d EXCEPT !.state = s] \in [buf : B, size : S, state : T, val : V]
      /\ [d EXCEPT !.val = v, !.state = s] \in [buf : B, size : S, state : T, val : V]
  BY ONLY <1>2
<1>4. Like(d, [d EXCEPT !.state = s], s, d.val)
  BY ONLY <1>2 DEF Like
<1>5. Like(d, [d EXCEPT !.val = v, !.state = s], s, v)
  BY ONLY <1>2 DEF Like
<1> QED BY <1>1, <1>3, <1>4, <1>5

\* A turn leaves a decoder.
LEMMA TurnTypes ==
  ASSUME NEW n \in Nat, NEW d \in Decoders(n), NEW k \in 1 .. n
  PROVE  Turn(d, k, n) \in Decoders(n)
<1> DEFINE ch == d.buf[k]
<1>1. /\ d.buf \in [1 .. n + 1 -> 0 .. 255] /\ d.size \in 0 .. n /\ d.state \in 0 .. 3
      /\ d.val \in HighParts /\ k \in 1 .. n + 1
  BY DEF Decoders
<1>2. ch \in 0 .. 255
  BY <1>1
<1>3. HexToDec(ch) \in 0 .. 15 /\ High(ch) = 16 * HexToDec(ch)
  BY <1>2, DigitsAreFour
<1> HIDE DEF ch
<1>4. ASSUME NEW byte \in 0 .. 255, d.size < n PROVE Store(d, byte) \in Decoders(n)
  <2>1. d.size + 1 \in 1 .. n + 1 /\ d.size + 1 \in 0 .. n
    BY <1>1, <1>4
  <2>2. [d.buf EXCEPT ![d.size + 1] = byte] \in [1 .. n + 1 -> 0 .. 255]
    BY <1>1, <2>1
  <2>3. QED
    BY <1>1, <2>1, <2>2 DEF Decoders, Store
<1>5. ASSUME d.size < n PROVE DecodeByte(d, ch) \in Decoders(n)
  <2>1. CASE d.state = 0 \/ d.state = 1
    <3>1. Store(d, ch) \in Decoders(n)
      BY <1>2, <1>4, <1>5
    <3>2. [d EXCEPT !.state = 1] \in Decoders(n) /\ [d EXCEPT !.state = 2] \in Decoders(n)
      <4>1. 1 \in 0 .. 3 /\ 2 \in 0 .. 3
        OBVIOUS
      <4> QED BY ONLY <1>1, <4>1, d \in Decoders(n), SetIs
    <3>3. QED
      BY <2>1, <3>1, <3>2 DEF DecodeByte, StoreEscaped
  <2>2. CASE d.state = 2
    <3>1. [d EXCEPT !.val = High(ch), !.state = 3] \in Decoders(n)
      <4>1. High(ch) \in HighParts /\ 3 \in 0 .. 3
        BY <1>3 DEF HighParts
      <4> QED BY <4>1, SetIs
    <3>2. QED
      BY <2>2, <3>1 DEF DecodeByte
  <2>3. CASE d.state = 3
    <3>1. d.val + HexToDec(ch) \in 0 .. 255
      <4>1. PICK h \in 0 .. 15 : d.val = 16 * h
        BY <1>1 DEF HighParts
      <4> QED BY <1>3, <4>1
    <3>2. Store(d, d.val + HexToDec(ch)) \in Decoders(n)
      BY <1>4, <1>5, <3>1
    <3>3. QED
      BY <2>3, <3>2 DEF DecodeByte
  <2> QED BY <1>1, <2>1, <2>2, <2>3
<1> QED BY <1>5 DEF Turn, ch

LEMMA EndedBy ==
  ASSUME NEW S, NEW text \in Seq(S), NEW last \in Seq(S), Len(last) = 1
  PROVE  /\ text \o last \in Seq(S) /\ Len(text) \in Nat
         /\ Len(text \o last) = Len(text) + 1
         /\ \A i \in 1 .. Len(text) : (text \o last)[i] = text[i]
         /\ (text \o last)[Len(text) + 1] = last[1]
<1>1. /\ text \o last \in Seq(S) /\ Len(text) \in Nat
      /\ Len(text \o last) = Len(text) + Len(last)
      /\ \A i \in 1 .. Len(text) : (text \o last)[i] = text[i]
      /\ \A i \in 1 .. Len(last) : (text \o last)[Len(text) + i] = last[i]
  BY ONLY text \in Seq(S), last \in Seq(S), Joined
<1> QED BY <1>1

LEMMA FreshTypes ==
  ASSUME NEW text \in Seq(Typed)
  PROVE  /\ Len(text) \in Nat
         /\ Fresh(text) \in Decoders(Len(text))
         /\ \A j \in 1 .. Len(text) : Fresh(text).buf[j] = text[j]
         /\ Fresh(text).buf[Len(text) + 1] = 0
<1> DEFINE B == 0 .. 255
           last == <<0>>
           ended == text \o last
<1>1. text \in Seq(B)
  <2>1. Typed \subseteq B
    BY DEF Typed
  <2> HIDE DEF B
  <2> QED BY <2>1
<1>2. last \in Seq(B) /\ Len(last) = 1 /\ last[1] = 0
  OBVIOUS
<1> HIDE DEF B, last
<1>3. /\ ended \in Seq(B) /\ Len(text) \in Nat /\ Len(ended) = Len(text) + 1
      /\ \A i \in 1 .. Len(text) : ended[i] = text[i]
      /\ ended[Len(text) + 1] = last[1]
  BY ONLY <1>1, <1>2, EndedBy
<1> HIDE DEF ended
<1>4. ended \in [1 .. Len(text) + 1 -> B]
  BY ONLY <1>3, SeqDef, LenProperties
<1>5. Fresh(text) = [buf |-> ended, size |-> 0, state |-> 0, val |-> 0]
  BY DEF Fresh, ended, last
<1>6. 0 \in 0 .. Len(text) /\ 0 \in 0 .. 3 /\ 0 \in HighParts
  <2>1. 16 * 0 = 0 /\ 0 \in 0 .. 15
    OBVIOUS
  <2> QED BY <1>3, <2>1 DEF HighParts
<1>7. Fresh(text) \in Decoders(Len(text))
  BY ONLY <1>4, <1>5, <1>6 DEF Decoders, B
<1>8. Fresh(text).buf = ended
  BY ONLY <1>5
<1> QED
  BY <1>2, <1>3, <1>7, <1>8

LEMMA TurnsExist ==
  ASSUME NEW text \in Seq(Typed)
  PROVE  \E g : Turns(text, g)
<1> DEFINE N == Len(text)
           V == Decoders(N)
           F == [p \in (1 .. N) \X V |-> Turn(p[2], p[1], N)]
           c == Fresh(text)
<1>1. N \in Nat /\ c \in V
  BY FreshTypes
<1>2. F \in [(1 .. N) \X V -> V]
  <2> SUFFICES ASSUME NEW p \in (1 .. N) \X V PROVE Turn(p[2], p[1], N) \in V
    OBVIOUS
  <2>1. p[1] \in 1 .. N /\ p[2] \in V
    OBVIOUS
  <2> QED BY <1>1, <2>1, TurnTypes
<1>3. \A k \in 1 .. N, d \in V : F[<<k, d>>] = Turn(d, k, N)
  OBVIOUS
<1> HIDE DEF N, V, F, c
<1>4. PICK g : IsRecursive(g, N, V, c, F)
  BY <1>1, <1>2, IntervalRecursion
<1>5. ASSUME NEW k \in 1 .. N PROVE g[k] = Turn(g[k - 1], k, N)
  <2>1. k - 1 \in 0 .. N
    BY <1>1
  <2> QED BY <1>3, <1>4, <2>1 DEF IsRecursive
<1>6. Turns(text, g)
  BY <1>4, <1>5 DEF Turns, IsRecursive, N, V, c
<1> QED BY <1>6

\* Decode ends at the last of them.
LEMMA DecodeIs ==
  ASSUME NEW text \in Seq(Typed), NEW g, Turns(text, g)
  PROVE  Decode(text) = g[Len(text)]
<1> DEFINE N == Len(text)
           Is(h) == h = [k \in 0 .. N |-> IF k = 0 THEN Fresh(text) ELSE Turn(h[k - 1], k, N)]
           d == CHOOSE h : Is(h)
<1>1. Decode(text) = d[N]
  BY DEF Decode, Fresh
<1>2. N \in Nat
  BY LenProperties
<1> HIDE DEF N
<1>3. /\ g \in [0 .. N -> Decoders(N)] /\ g[0] = Fresh(text)
      /\ \A k \in 1 .. N : g[k] = Turn(g[k - 1], k, N)
  BY DEF Turns, N
<1>4. Is(g)
  <2>1. \A k \in 0 .. N : k # 0 => k \in 1 .. N
    BY <1>2
  <2>2. \A k \in 0 .. N : g[k] = IF k = 0 THEN Fresh(text) ELSE Turn(g[k - 1], k, N)
    BY <1>3, <2>1
  <2>3. g = [k \in 0 .. N |-> g[k]]
    BY <1>3
  <2> QED BY <2>2, <2>3
<1>5. Is(d)
  <2> HIDE DEF Is
  <2> QED BY <1>4
<1> HIDE DEF d
<1>6. \A k \in 0 .. N : d[k] = IF k = 0 THEN Fresh(text) ELSE Turn(d[k - 1], k, N)
  BY <1>5
<1> DEFINE Good == {k \in 0 .. N : d[k] = g[k]}
<1>7. 0 \in Good
  BY <1>2, <1>3, <1>6
<1>8. ASSUME NEW k \in 1 .. N, k - 1 \in Good PROVE k \in Good
  <2>1. k \in 0 .. N /\ k # 0
    BY <1>2
  <2> QED BY <1>3, <1>6, <1>8, <2>1
<1>9. \A k \in 0 .. N : k \in Good
  <2> HIDE DEF Good
  <2> QED BY <1>2, <1>7, <1>8, IntervalInduction
<1>10. N \in 0 .. N
  BY <1>2
<1> QED BY <1>1, <1>9, <1>10 DEF N

-----------------------------------------------------------------------------
(***************************************************************************)
(* In place: what is written lies before what is read.                     *)
(***************************************************************************)
\* After k turns at most k bytes are written, and behind them is what was
\* typed.
Behind(text, d, k) ==
  /\ d.size <= k
  /\ \A j \in d.size + 1 .. Len(text) : d.buf[j] = text[j]
  /\ d.buf[Len(text) + 1] = 0

LEMMA TypedNotZero == ASSUME NEW x \in Typed PROVE x # 0 /\ x \in 0 .. 255
  BY DEF Typed

\* A turn is made for the byte that was typed, and there is room.
LEMMA TurnReads ==
  ASSUME NEW text \in Seq(Typed), NEW d \in Decoders(Len(text)), NEW k \in 1 .. Len(text),
         Behind(text, d, k - 1)
  PROVE  /\ Turn(d, k, Len(text)) = DecodeByte(d, text[k])
         /\ text[k] \in Typed /\ d.size < Len(text)
<1>1. text[k] \in Typed /\ Len(text) \in Nat
  BY ElementOfSeq, LenProperties
<1>2. d.size \in Int /\ d.size <= k - 1
  BY DEF Decoders, Behind
<1>3. k \in d.size + 1 .. Len(text) /\ d.size < Len(text)
  BY <1>1, <1>2
<1>4. d.buf[k] = text[k]
  BY <1>3 DEF Behind
<1>5. text[k] # 0
  BY ONLY <1>1, TypedNotZero
<1> QED BY <1>1, <1>3, <1>4, <1>5 DEF Turn

\* What a byte does to the decoder: it writes one byte, or none.
WritesOne(d, e) ==
  \/ e.buf = d.buf /\ e.size = d.size
  \/ \E byte : e.buf = [d.buf EXCEPT ![d.size + 1] = byte] /\ e.size = d.size + 1

LEMMA ByteWrites ==
  ASSUME NEW n, NEW d \in Decoders(n), NEW ch \in 0 .. 255
  PROVE  WritesOne(d, DecodeByte(d, ch))
<1>1. d.state \in 0 .. 3
  BY DEF Decoders
<1>2. ASSUME NEW byte PROVE WritesOne(d, Store(d, byte))
  BY DEF WritesOne, Store
<1>3. WritesOne(d, [d EXCEPT !.state = 1]) /\ WritesOne(d, [d EXCEPT !.state = 2])
  <2>1. 1 \in 0 .. 3 /\ 2 \in 0 .. 3 /\ d.val \in HighParts
    BY DEF Decoders
  <2>2. Like(d, [d EXCEPT !.state = 1], 1, d.val) /\ Like(d, [d EXCEPT !.state = 2], 2, d.val)
    BY <2>1, SetIs
  <2> QED BY <2>2 DEF WritesOne, Like
<1>4. WritesOne(d, [d EXCEPT !.val = High(ch), !.state = 3])
  <2>1. High(ch) \in HighParts /\ 3 \in 0 .. 3
    BY DigitsAreFour
  <2>2. Like(d, [d EXCEPT !.val = High(ch), !.state = 3], 3, High(ch))
    BY <2>1, SetIs
  <2> QED BY <2>2 DEF WritesOne, Like
<1>5. CASE d.state = 0
  BY <1>2, <1>3, <1>5 DEF DecodeByte
<1>6. CASE d.state = 1
  BY <1>2, <1>3, <1>6 DEF DecodeByte, StoreEscaped
<1>7. CASE d.state = 2
  BY <1>4, <1>7 DEF DecodeByte
<1>8. CASE d.state = 3
  BY <1>2, <1>8 DEF DecodeByte
<1> QED BY <1>1, <1>5, <1>6, <1>7, <1>8

LEMMA BehindKept ==
  ASSUME NEW text \in Seq(Typed), NEW d \in Decoders(Len(text)), NEW k \in 1 .. Len(text),
         Behind(text, d, k - 1), NEW e, WritesOne(d, e)
  PROVE  Behind(text, e, k)
<1>1. Len(text) \in Nat /\ d.size \in Int /\ d.size >= 0 /\ d.size <= k - 1 /\ k <= Len(text)
  BY LenProperties DEF Decoders, Behind
<1>2. d.buf \in [1 .. Len(text) + 1 -> 0 .. 255]
  BY DEF Decoders
<1>3. /\ \A j \in d.size + 1 .. Len(text) : d.buf[j] = text[j]
      /\ d.buf[Len(text) + 1] = 0
  BY DEF Behind
<1>4. CASE e.buf = d.buf /\ e.size = d.size
  BY <1>1, <1>3, <1>4 DEF Behind
<1>5. CASE \E byte : e.buf = [d.buf EXCEPT ![d.size + 1] = byte] /\ e.size = d.size + 1
  <2>1. PICK byte : e.buf = [d.buf EXCEPT ![d.size + 1] = byte] /\ e.size = d.size + 1
    BY <1>5
  <2>2. ASSUME NEW j \in d.size + 2 .. Len(text) + 1 PROVE e.buf[j] = d.buf[j]
    <3>1. j \in 1 .. Len(text) + 1 /\ j # d.size + 1
      BY <1>1
    <3> QED BY <1>2, <2>1, <3>1
  <2>3. \A j \in e.size + 1 .. Len(text) : j \in d.size + 1 .. Len(text) /\ j \in d.size + 2 .. Len(text) + 1
    BY <1>1, <2>1
  <2>4. Len(text) + 1 \in d.size + 2 .. Len(text) + 1 /\ e.size <= k
    BY <1>1, <2>1
  <2> QED BY <1>3, <2>2, <2>3, <2>4 DEF Behind
<1> QED BY <1>4, <1>5 DEF WritesOne

LEMMA InPlace ==
  ASSUME NEW text \in Seq(Typed), NEW g, Turns(text, g)
  PROVE  \A k \in 0 .. Len(text) : g[k] \in Decoders(Len(text)) /\ Behind(text, g[k], k)
<1> DEFINE N == Len(text)
<1>1. /\ N \in Nat /\ Fresh(text) \in Decoders(N)
      /\ \A j \in 1 .. N : Fresh(text).buf[j] = text[j]
      /\ Fresh(text).buf[N + 1] = 0 /\ Fresh(text).size = 0
  BY FreshTypes DEF Fresh
<1>2. /\ g[0] = Fresh(text) /\ \A k \in 1 .. N : g[k] = Turn(g[k - 1], k, N)
      /\ \A k \in 0 .. N : g[k] \in Decoders(N)
  BY DEF Turns
<1>3. Behind(text, g[0], 0)
  BY <1>1, <1>2 DEF Behind
<1> HIDE DEF N
<1> DEFINE Good == {k \in 0 .. N : Behind(text, g[k], k)}
<1>4. 0 \in Good
  BY <1>1, <1>3
<1>5. ASSUME NEW k \in 1 .. N, k - 1 \in Good PROVE k \in Good
  <2>1. k \in 0 .. N /\ k - 1 \in 0 .. N /\ Behind(text, g[k - 1], k - 1)
    BY <1>1, <1>5
  <2>2. g[k - 1] \in Decoders(N)
    BY <1>2, <2>1
  <2>3. Turn(g[k - 1], k, N) = DecodeByte(g[k - 1], text[k]) /\ text[k] \in Typed
    BY <2>1, <2>2, TurnReads DEF N
  <2>4. text[k] \in 0 .. 255
    BY ONLY <2>3, TypedNotZero
  <2>5. WritesOne(g[k - 1], g[k])
    BY <1>2, <2>2, <2>3, <2>4, ByteWrites
  <2>6. Behind(text, g[k], k)
    BY <2>1, <2>2, <2>5, BehindKept DEF N
  <2> QED BY <2>1, <2>6
<1>6. \A k \in 0 .. N : k \in Good
  <2> HIDE DEF Good
  <2> QED BY <1>1, <1>4, <1>5, IntervalInduction
<1> QED BY <1>2, <1>6 DEF N

\* Each turn decodes the byte that was typed in its place.
LEMMA Advance ==
  ASSUME NEW text \in Seq(Typed), NEW g, Turns(text, g), NEW k \in 0 .. Len(text) - 1
  PROVE  /\ g[k + 1] = DecodeByte(g[k], text[k + 1])
         /\ g[k] \in Decoders(Len(text)) /\ g[k].size < Len(text)
         /\ text[k + 1] \in 0 .. 255
         /\ k + 1 \in 0 .. Len(text)
<1>1. Len(text) \in Nat
  BY LenProperties
<1>2. k \in 0 .. Len(text) /\ k + 1 \in 1 .. Len(text) /\ (k + 1) - 1 = k /\ k + 1 \in 0 .. Len(text)
  BY <1>1
<1>3. g[k] \in Decoders(Len(text)) /\ Behind(text, g[k], k)
  BY <1>2, InPlace
<1>4. g[k + 1] = Turn(g[k], k + 1, Len(text))
  BY <1>2 DEF Turns
<1>5. /\ Turn(g[k], k + 1, Len(text)) = DecodeByte(g[k], text[k + 1])
      /\ text[k + 1] \in Typed /\ g[k].size < Len(text)
  BY <1>2, <1>3, TurnReads
<1>6. text[k + 1] \in 0 .. 255
  BY ONLY <1>5, TypedNotZero
<1> QED BY <1>2, <1>3, <1>4, <1>5, <1>6

-----------------------------------------------------------------------------
(***************************************************************************)
(* What is meant comes out, unit by unit.                                  *)
(***************************************************************************)
Bytes == 0 .. 255

\* What is written so far.
Holds(d, bytes) ==
  /\ d.size = Len(bytes)
  /\ \A i \in 1 .. Len(bytes) : d.buf[i] = bytes[i]

At(text, g, k, s, bytes) ==
  /\ k \in 0 .. Len(text)
  /\ g[k].state = s
  /\ Holds(g[k], bytes)

LEMMA OneMore ==
  ASSUME NEW S, NEW s \in Seq(S), NEW x \in S
  PROVE  /\ Append(s, x) \in Seq(S) /\ Len(s) \in Nat /\ Len(Append(s, x)) = Len(s) + 1
         /\ Append(s, x)[Len(s) + 1] = x
         /\ \A i \in 1 .. Len(s) : Append(s, x)[i] = s[i]
  BY AppendProperties, LenProperties

LEMMA PartsJoined ==
  ASSUME NEW v \in HighParts, NEW low \in 0 .. 15
  PROVE  v + low \in Bytes
<1>1. PICK h \in 0 .. 15 : v = 16 * h
  BY DEF HighParts
<1> QED BY <1>1 DEF Bytes

LEMMA StoreHolds ==
  ASSUME NEW n \in Nat, NEW d \in Decoders(n), d.size < n,
         NEW bytes \in Seq(Bytes), Holds(d, bytes), NEW byte \in Bytes
  PROVE  Holds(Store(d, byte), Append(bytes, byte)) /\ Store(d, byte).state = 0
<1> DEFINE more == Append(bytes, byte)
           e == Store(d, byte)
<1>1. /\ Len(bytes) \in Nat /\ Len(more) = Len(bytes) + 1
      /\ more[Len(bytes) + 1] = byte
      /\ \A i \in 1 .. Len(bytes) : more[i] = bytes[i]
  BY OneMore
<1>2. d.buf \in [1 .. n + 1 -> 0 .. 255] /\ d.size \in 0 .. n
  BY DEF Decoders
<1>3. e.buf = [d.buf EXCEPT ![d.size + 1] = byte] /\ e.size = d.size + 1 /\ e.state = 0
  BY DEF Store
<1>4. d.size = Len(bytes) /\ \A i \in 1 .. Len(bytes) : d.buf[i] = bytes[i]
  BY DEF Holds
<1> HIDE DEF more, e
<1>5. d.size + 1 \in 1 .. n + 1 /\ \A i \in 1 .. Len(bytes) : i \in 1 .. n + 1 /\ i # d.size + 1
  BY <1>1, <1>2, <1>4
<1>6. e.buf[d.size + 1] = byte /\ \A i \in 1 .. Len(bytes) : e.buf[i] = d.buf[i]
  BY <1>2, <1>3, <1>5
<1>7. \A i \in 1 .. Len(more) : i = Len(bytes) + 1 \/ i \in 1 .. Len(bytes)
  BY <1>1
<1>8. \A i \in 1 .. Len(more) : e.buf[i] = more[i]
  BY <1>1, <1>4, <1>6, <1>7
<1>9. e.size = Len(more)
  BY <1>1, <1>3, <1>4
<1> QED BY <1>3, <1>8, <1>9 DEF Holds, more, e

\* The turns of the decoder, by its state and the byte that was typed.
LEMMA StateTurns ==
  ASSUME NEW text \in Seq(Typed), NEW g, Turns(text, g), NEW k \in 0 .. Len(text) - 1,
         NEW s, NEW bytes \in Seq(Bytes), At(text, g, k, s, bytes)
  PROVE  /\ s = 0 /\ text[k + 1] # Backslash => At(text, g, k + 1, 0, Append(bytes, text[k + 1]))
         /\ s = 0 /\ text[k + 1] = Backslash => At(text, g, k + 1, 1, bytes)
         /\ s = 1 /\ text[k + 1] # LetterX => At(text, g, k + 1, 0, Append(bytes, text[k + 1]))
         /\ s = 1 /\ text[k + 1] = LetterX => At(text, g, k + 1, 2, bytes)
         /\ s = 2 => At(text, g, k + 1, 3, bytes) /\ g[k + 1].val = 16 * HexToDec(text[k + 1])
         /\ s = 3 /\ g[k].val \in HighParts =>
              At(text, g, k + 1, 0, Append(bytes, g[k].val + HexToDec(text[k + 1])))
<1> DEFINE d == g[k]
           ch == text[k + 1]
           n == Len(text)
<1>1. /\ g[k + 1] = DecodeByte(d, ch) /\ d \in Decoders(n) /\ d.size < n
      /\ ch \in 0 .. 255 /\ k + 1 \in 0 .. n /\ n \in Nat
  <2>1. n \in Nat /\ k + 1 \in 0 .. n
    BY LenProperties
  <2>2. /\ g[k + 1] = DecodeByte(g[k], text[k + 1]) /\ g[k] \in Decoders(Len(text))
        /\ g[k].size < Len(text) /\ text[k + 1] \in 0 .. 255
    BY Advance
  <2> QED BY <2>1, <2>2
<1>2. d.state = s /\ Holds(d, bytes)
  BY DEF At
<1>3. d.val \in HighParts
  BY <1>1 DEF Decoders
<1> HIDE DEF d, ch, n
<1>4. ASSUME NEW byte \in Bytes
      PROVE  Holds(Store(d, byte), Append(bytes, byte)) /\ Store(d, byte).state = 0
  BY <1>1, <1>2, StoreHolds
<1>5. ASSUME NEW e, NEW t, NEW v, Like(d, e, t, v)
      PROVE  Holds(e, bytes) /\ e.state = t /\ e.val = v
  BY <1>2, <1>5 DEF Like, Holds
<1>6. ASSUME NEW t \in 0 .. 3 PROVE Like(d, [d EXCEPT !.state = t], t, d.val)
  BY <1>1, <1>3, SetIs
<1>7. HexToDec(ch) \in 0 .. 15 /\ High(ch) = 16 * HexToDec(ch) /\ High(ch) \in HighParts
  BY <1>1, DigitsAreFour
<1>8. Like(d, [d EXCEPT !.val = High(ch), !.state = 3], 3, High(ch))
  <2>1. 3 \in 0 .. 3
    OBVIOUS
  <2> QED BY <1>1, <1>7, <2>1, SetIs
<1>9. ch \in Bytes /\ (d.val \in HighParts => d.val + HexToDec(ch) \in Bytes)
  <2>1. ch \in Bytes
    BY <1>1 DEF Bytes
  <2>2. HexToDec(ch) \in 0 .. 15
    BY <1>7
  <2>3. d.val \in HighParts => d.val + HexToDec(ch) \in Bytes
    BY ONLY <2>2, PartsJoined
  <2> QED BY <2>1, <2>3
<1>10. 1 \in 0 .. 3 /\ 2 \in 0 .. 3
  OBVIOUS
<1>11. s = 0 /\ ch # Backslash => g[k + 1] = Store(d, ch)
  BY <1>1, <1>2 DEF DecodeByte
<1>12. s = 0 /\ ch = Backslash => g[k + 1] = [d EXCEPT !.state = 1]
  BY <1>1, <1>2 DEF DecodeByte
<1>13. s = 1 /\ ch # LetterX => g[k + 1] = Store(d, ch)
  BY <1>1, <1>2 DEF DecodeByte, StoreEscaped
<1>14. s = 1 /\ ch = LetterX => g[k + 1] = [d EXCEPT !.state = 2]
  BY <1>1, <1>2 DEF DecodeByte
<1>15. s = 2 => g[k + 1] = [d EXCEPT !.val = High(ch), !.state = 3]
  BY <1>1, <1>2 DEF DecodeByte
<1>16. s = 3 => g[k + 1] = Store(d, d.val + HexToDec(ch))
  BY <1>1, <1>2 DEF DecodeByte
<1>17. s = 0 /\ ch # Backslash => At(text, g, k + 1, 0, Append(bytes, ch))
  BY <1>1, <1>4, <1>9, <1>11 DEF At, n
<1>18. s = 0 /\ ch = Backslash => At(text, g, k + 1, 1, bytes)
  BY <1>1, <1>5, <1>6, <1>10, <1>12 DEF At, n
<1>19. s = 1 /\ ch # LetterX => At(text, g, k + 1, 0, Append(bytes, ch))
  BY <1>1, <1>4, <1>9, <1>13 DEF At, n
<1>20. s = 1 /\ ch = LetterX => At(text, g, k + 1, 2, bytes)
  <2>1. LET e == [d EXCEPT !.state = 2] IN Holds(e, bytes) /\ e.state = 2
    BY <1>5, <1>6, <1>10
  <2> QED BY <1>1, <1>14, <2>1 DEF At, n
<1>21. s = 2 => At(text, g, k + 1, 3, bytes) /\ g[k + 1].val = 16 * HexToDec(ch)
  <2>1. LET e == [d EXCEPT !.val = High(ch), !.state = 3]
        IN  Holds(e, bytes) /\ e.state = 3 /\ e.val = High(ch)
    BY ONLY <1>5, <1>8
  <2> QED BY <1>1, <1>7, <1>15, <2>1 DEF At, n
<1>22. s = 3 => At(text, g, k + 1, 0, Append(bytes, d.val + HexToDec(ch)))
  BY <1>1, <1>3, <1>4, <1>9, <1>16 DEF At, n
<1> QED BY <1>17, <1>18, <1>19, <1>20, <1>21, <1>22 DEF d, ch

\* The unit is written in the text behind k.
Spells(text, k, w) ==
  /\ k + Len(w) <= Len(text)
  /\ \A i \in 1 .. Len(w) : text[k + i] = w[i]

LEMMA UnitDecoded ==
  ASSUME NEW text \in Seq(Typed), NEW g, Turns(text, g), NEW k \in Nat,
         NEW bytes \in Seq(Bytes), At(text, g, k, 0, bytes),
         NEW unit \in Units, Spells(text, k, WrittenAs(unit))
  PROVE  At(text, g, k + Len(WrittenAs(unit)), 0, Append(bytes, ValueOf(unit)))
<1> DEFINE n == Len(text)
<1>1. n \in Nat
  BY LenProperties
<1>2. Plain \cup Escaped \cup Digits \subseteq Typed /\ Backslash \notin Plain /\ LetterX \notin Escaped
  BY EchoAssumption DEF Typed
<1> HIDE DEF n
<1>3. ASSUME NEW c \in Plain, unit = <<"plain", c>>
      PROVE  At(text, g, k + Len(WrittenAs(unit)), 0, Append(bytes, ValueOf(unit)))
  <2>1. WrittenAs(unit) = <<c>> /\ ValueOf(unit) = c
    BY <1>3 DEF WrittenAs, ValueOf
  <2>2. k + 1 <= n /\ text[k + 1] = c
    BY <2>1 DEF Spells, n
  <2>3. k \in 0 .. n - 1
    BY <1>1, <2>2
  <2>4. At(text, g, k + 1, 0, Append(bytes, c))
    BY <1>2, <2>2, <2>3, StateTurns DEF n
  <2> QED BY <2>1, <2>4
<1>4. ASSUME NEW c \in Escaped, unit = <<"escaped", c>>
      PROVE  At(text, g, k + Len(WrittenAs(unit)), 0, Append(bytes, ValueOf(unit)))
  <2>1. WrittenAs(unit) = <<Backslash, c>> /\ ValueOf(unit) = c
    BY <1>4 DEF WrittenAs, ValueOf
  <2>2. k + 2 <= n /\ text[k + 1] = Backslash /\ text[k + 2] = c
    BY <2>1 DEF Spells, n
  <2>3. k \in 0 .. n - 1 /\ k + 1 \in 0 .. n - 1 /\ (k + 1) + 1 = k + 2
    BY <1>1, <2>2
  <2>4. At(text, g, k + 1, 1, bytes)
    BY <2>2, <2>3, StateTurns DEF n
  <2>5. At(text, g, k + 2, 0, Append(bytes, c))
    BY <1>2, <2>2, <2>3, <2>4, StateTurns DEF n
  <2> QED BY <2>1, <2>5
<1>5. ASSUME NEW high \in Digits, NEW low \in Digits, unit = <<"hex", high, low>>
      PROVE  At(text, g, k + Len(WrittenAs(unit)), 0, Append(bytes, ValueOf(unit)))
  <2>1. /\ WrittenAs(unit) = <<Backslash, LetterX, high, low>>
        /\ ValueOf(unit) = HexToDec(high) * 16 + HexToDec(low)
    BY <1>5 DEF WrittenAs, ValueOf
  <2>2. /\ k + 4 <= n /\ text[k + 1] = Backslash /\ text[k + 2] = LetterX
        /\ text[k + 3] = high /\ text[k + 4] = low
    BY <2>1 DEF Spells, n
  <2>3. /\ k \in 0 .. n - 1 /\ k + 1 \in 0 .. n - 1 /\ k + 2 \in 0 .. n - 1 /\ k + 3 \in 0 .. n - 1
        /\ (k + 1) + 1 = k + 2 /\ (k + 2) + 1 = k + 3 /\ (k + 3) + 1 = k + 4
    BY <1>1, <2>2
  <2>4. At(text, g, k + 1, 1, bytes)
    BY <2>2, <2>3, StateTurns DEF n
  <2>5. At(text, g, k + 2, 2, bytes)
    BY <2>2, <2>3, <2>4, StateTurns DEF n
  <2>6. At(text, g, k + 3, 3, bytes) /\ g[k + 3].val = 16 * HexToDec(high)
    BY <2>2, <2>3, <2>5, StateTurns DEF n
  <2>7. HexToDec(high) \in 0 .. 15 /\ HexToDec(low) \in 0 .. 15
    <3>1. high \in 0 .. 255 /\ low \in 0 .. 255
      BY <1>2, TypedNotZero
    <3> QED BY <3>1, DigitsAreFour
  <2>8. g[k + 3].val \in HighParts
    BY <2>6, <2>7 DEF HighParts
  <2>9. At(text, g, k + 4, 0, Append(bytes, g[k + 3].val + HexToDec(low)))
    BY <2>2, <2>3, <2>6, <2>8, StateTurns DEF n
  <2>10. g[k + 3].val + HexToDec(low) = ValueOf(unit)
    BY <2>1, <2>6, <2>7
  <2> QED BY <2>1, <2>9, <2>10
<1> QED BY <1>3, <1>4, <1>5 DEF Units

\* What breaks off writes nothing.
LEMMA TailDropped ==
  ASSUME NEW text \in Seq(Typed), NEW g, Turns(text, g), NEW k \in Nat,
         NEW bytes \in Seq(Bytes), At(text, g, k, 0, bytes),
         NEW rest \in Unfinished, Spells(text, k, rest), Len(text) = k + Len(rest)
  PROVE  Holds(g[Len(text)], bytes)
<1>1. \/ rest \in {<< >>, <<Backslash>>, <<Backslash, LetterX>>}
      \/ \E high \in 1 .. 255 : rest = <<Backslash, LetterX, high>>
  BY EchoAssumption
<1>2. CASE rest = << >>
  BY <1>2 DEF At
<1>3. CASE rest = <<Backslash>>
  <2>1. Len(text) = k + 1 /\ text[k + 1] = Backslash /\ k \in 0 .. Len(text) - 1
    BY <1>3 DEF Spells
  <2>2. At(text, g, k + 1, 1, bytes)
    BY <2>1, StateTurns
  <2> QED BY <2>1, <2>2 DEF At
<1>4. CASE rest = <<Backslash, LetterX>>
  <2>1. /\ Len(text) = k + 2 /\ text[k + 1] = Backslash /\ text[k + 2] = LetterX
        /\ k \in 0 .. Len(text) - 1 /\ k + 1 \in 0 .. Len(text) - 1 /\ (k + 1) + 1 = k + 2
    BY <1>4 DEF Spells
  <2>2. At(text, g, k + 1, 1, bytes)
    BY <2>1, StateTurns
  <2>3. At(text, g, k + 2, 2, bytes)
    BY <2>1, <2>2, StateTurns
  <2> QED BY <2>1, <2>3 DEF At
<1>5. CASE \E high \in 1 .. 255 : rest = <<Backslash, LetterX, high>>
  <2>1. PICK high \in 1 .. 255 : rest = <<Backslash, LetterX, high>>
    BY <1>5
  <2>2. /\ Len(text) = k + 3 /\ text[k + 1] = Backslash /\ text[k + 2] = LetterX
        /\ k \in 0 .. Len(text) - 1 /\ k + 1 \in 0 .. Len(text) - 1 /\ k + 2 \in 0 .. Len(text) - 1
        /\ (k + 1) + 1 = k + 2 /\ (k + 2) + 1 = k + 3
    BY <2>1 DEF Spells
  <2>3. At(text, g, k + 1, 1, bytes)
    BY <2>2, StateTurns
  <2>4. At(text, g, k + 2, 2, bytes)
    BY <2>2, <2>3, StateTurns
  <2>5. At(text, g, k + 3, 3, bytes)
    BY <2>2, <2>4, StateTurns
  <2> QED BY <2>2, <2>5 DEF At
<1> QED BY <1>1, <1>2, <1>3, <1>4, <1>5

-----------------------------------------------------------------------------
(***************************************************************************)
(* The argument grows by one unit.                                         *)
(***************************************************************************)
Spelt == [i \in DOMAIN units |-> WrittenAs(units[i])]
Flat  == FlattenSeq(Spelt)

\* Whatever follows the units, the decoder has made of them what is meant.
Reached(text, k, bytes) == \A g : Turns(text, g) => At(text, g, k, 0, bytes)

EchoInv ==
  /\ units \in Seq(Units) /\ tail \in Unfinished
  /\ outcome \in {"none", "reset", "printed", "stored", "status"}
  /\ Flat \in Seq(Typed) /\ Spelt \in Seq(Seq(Typed)) /\ Meant \in Seq(Bytes)
  /\ \A more \in Seq(Typed) : Reached(Flat \o more, Len(Flat), Meant)
  /\ StoresMeant /\ PrintsMeantFirst

LEMMA UnitTypes ==
  ASSUME NEW unit \in Units
  PROVE  WrittenAs(unit) \in Seq(Typed) /\ ValueOf(unit) \in Bytes
<1>1. Plain \cup Escaped \cup Digits \subseteq Typed
  BY EchoAssumption DEF Typed
<1>2. Backslash \in Typed /\ LetterX \in Typed
  BY DEF Typed, Backslash, LetterX
<1>3. \A c \in Typed : c \in Bytes
  BY TypedNotZero DEF Bytes
<1>4. ASSUME NEW c \in Plain, unit = <<"plain", c>>
      PROVE  WrittenAs(unit) \in Seq(Typed) /\ ValueOf(unit) \in Bytes
  <2>1. WrittenAs(unit) = <<c>> /\ ValueOf(unit) = c
    BY <1>4 DEF WrittenAs, ValueOf
  <2> QED BY <1>1, <1>3, <2>1
<1>5. ASSUME NEW c \in Escaped, unit = <<"escaped", c>>
      PROVE  WrittenAs(unit) \in Seq(Typed) /\ ValueOf(unit) \in Bytes
  <2>1. WrittenAs(unit) = <<Backslash, c>> /\ ValueOf(unit) = c
    BY <1>5 DEF WrittenAs, ValueOf
  <2> QED BY <1>1, <1>2, <1>3, <2>1
<1>6. ASSUME NEW high \in Digits, NEW low \in Digits, unit = <<"hex", high, low>>
      PROVE  WrittenAs(unit) \in Seq(Typed) /\ ValueOf(unit) \in Bytes
  <2>1. /\ WrittenAs(unit) = <<Backslash, LetterX, high, low>>
        /\ ValueOf(unit) = HexToDec(high) * 16 + HexToDec(low)
    BY <1>6 DEF WrittenAs, ValueOf
  <2>2. HexToDec(high) \in 0 .. 15 /\ HexToDec(low) \in 0 .. 15
    <3>1. high \in 0 .. 255 /\ low \in 0 .. 255
      BY <1>1, TypedNotZero
    <3> QED BY <3>1, DigitsAreFour
  <2>3. ValueOf(unit) \in Bytes
    BY <2>1, <2>2 DEF Bytes
  <2> QED BY <1>1, <1>2, <2>1, <2>3
<1> QED BY <1>4, <1>5, <1>6 DEF Units

LEMMA NothingTyped ==
  ASSUME NEW text \in Seq(Typed)
  PROVE  Reached(text, 0, << >>)
<1>1. Len(text) \in Nat
  BY FreshTypes
<1>2. ASSUME NEW g, Turns(text, g) PROVE At(text, g, 0, 0, << >>)
  <2>1. g[0].state = 0 /\ g[0].size = 0
    BY <1>2 DEF Turns, Fresh
  <2> QED BY <1>1, <2>1 DEF At, Holds
<1> QED BY <1>2 DEF Reached

LEMMA AnInitial == Init => EchoInv
<1> SUFFICES ASSUME Init PROVE EchoInv
  OBVIOUS
<1>1. units = << >> /\ tail \in Unfinished /\ outcome = "none"
  BY DEF Init
<1>2. Spelt = << >> /\ Meant = << >>
  BY <1>1 DEF Spelt, Meant
<1>3. Flat = << >>
  BY <1>2 DEF Flat, FlattenSeq
<1>4. ASSUME NEW more \in Seq(Typed) PROVE Reached(Flat \o more, Len(Flat), Meant)
  <2>1. << >> \o more = more /\ Len(<< >>) = 0
    BY ConcatEmptySeq
  <2>2. Reached(more, 0, << >>)
    BY NothingTyped
  <2> QED BY <1>2, <1>3, <2>1, <2>2
<1>5. StoresMeant /\ PrintsMeantFirst
  BY <1>1 DEF StoresMeant, PrintsMeantFirst
<1> QED BY <1>1, <1>2, <1>3, <1>4, <1>5 DEF EchoInv

\* The units before, the one unit, and what follows.
LEMMA SpeltBetween ==
  ASSUME NEW S, NEW s \in Seq(S), NEW w \in Seq(S), NEW more \in Seq(S)
  PROVE  /\ (s \o w) \o more = s \o (w \o more) /\ w \o more \in Seq(S)
         /\ s \o (w \o more) \in Seq(S)
         /\ Len(s \o w) = Len(s) + Len(w) /\ Len(s) \in Nat /\ Len(w) \in Nat
         /\ Spells(s \o (w \o more), Len(s), w)
<1> DEFINE t == w \o more
           text == s \o t
           l == s \o w
           r == l \o more
<1>1. /\ t \in Seq(S) /\ Len(w) \in Nat /\ Len(more) \in Nat /\ Len(t) = Len(w) + Len(more)
      /\ \A i \in 1 .. Len(w) : t[i] = w[i]
      /\ \A i \in 1 .. Len(more) : t[Len(w) + i] = more[i]
  BY ONLY w \in Seq(S), more \in Seq(S), Joined
<1>2. /\ l \in Seq(S) /\ Len(s) \in Nat /\ Len(l) = Len(s) + Len(w)
      /\ \A i \in 1 .. Len(s) : l[i] = s[i]
      /\ \A i \in 1 .. Len(w) : l[Len(s) + i] = w[i]
  BY ONLY w \in Seq(S), s \in Seq(S), Joined
<1>9. t \in Seq(S) /\ l \in Seq(S)
  BY <1>1, <1>2
<1> HIDE DEF t, l
<1>3. /\ text \in Seq(S) /\ Len(text) = Len(s) + Len(t)
      /\ \A i \in 1 .. Len(s) : text[i] = s[i]
      /\ \A i \in 1 .. Len(t) : text[Len(s) + i] = t[i]
  BY ONLY <1>9, s \in Seq(S), Joined
<1>4. /\ r \in Seq(S) /\ Len(r) = Len(l) + Len(more)
      /\ \A i \in 1 .. Len(l) : r[i] = l[i]
      /\ \A i \in 1 .. Len(more) : r[Len(l) + i] = more[i]
  BY ONLY <1>9, more \in Seq(S), Joined
<1> HIDE DEF text, r
<1>5. Len(r) = Len(text)
  BY <1>1, <1>2, <1>3, <1>4
<1>6. ASSUME NEW i \in 1 .. Len(r) PROVE r[i] = text[i]
  <2>1. CASE i \in 1 .. Len(s)
    <3>1. i \in 1 .. Len(l)
      BY <1>1, <1>2, <2>1
    <3> QED BY <1>2, <1>3, <1>4, <2>1, <3>1
  <2>2. CASE i \in Len(s) + 1 .. Len(l)
    <3>1. /\ i - Len(s) \in 1 .. Len(w) /\ Len(s) + (i - Len(s)) = i /\ i - Len(s) \in 1 .. Len(t)
          /\ i \in 1 .. Len(l)
      BY <1>1, <1>2, <2>2
    <3>2. r[i] = l[i] /\ l[i] = w[i - Len(s)]
      BY <1>2, <1>4, <3>1
    <3>3. text[i] = t[i - Len(s)] /\ t[i - Len(s)] = w[i - Len(s)]
      BY <1>1, <1>3, <3>1
    <3> QED BY <3>2, <3>3
  <2>3. CASE i \in Len(l) + 1 .. Len(r)
    <3> DEFINE j == i - Len(l)
    <3>1. /\ j \in 1 .. Len(more) /\ Len(l) + j = i /\ Len(w) + j \in 1 .. Len(t)
          /\ Len(s) + (Len(w) + j) = i
      BY <1>1, <1>2, <1>4, <2>3
    <3> HIDE DEF j
    <3>2. r[i] = more[j]
      BY <1>4, <3>1
    <3>3. text[i] = t[Len(w) + j] /\ t[Len(w) + j] = more[j]
      BY <1>1, <1>3, <3>1
    <3> QED BY <3>2, <3>3
  <2> QED BY <1>1, <1>2, <1>4, <2>1, <2>2, <2>3
<1>7. r = text
  BY ONLY <1>3, <1>4, <1>5, <1>6, SeqEqual
<1>8. Spells(text, Len(s), w)
  <2>1. \A i \in 1 .. Len(w) : i \in 1 .. Len(t)
    BY <1>1
  <2>2. \A i \in 1 .. Len(w) : text[Len(s) + i] = w[i]
    BY <1>1, <1>3, <2>1
  <2>3. Len(s) + Len(w) <= Len(text)
    BY <1>1, <1>2, <1>3
  <2> QED BY <2>2, <2>3 DEF Spells
<1> QED BY <1>1, <1>2, <1>3, <1>7, <1>8 DEF r, l, text, t

LEMMA ReachedMore ==
  ASSUME NEW s \in Seq(Typed), NEW bytes \in Seq(Bytes), NEW unit \in Units,
         \A more \in Seq(Typed) : Reached(s \o more, Len(s), bytes)
  PROVE  \A more \in Seq(Typed) : Reached((s \o WrittenAs(unit)) \o more, Len(s \o WrittenAs(unit)),
                                          Append(bytes, ValueOf(unit)))
<1> SUFFICES ASSUME NEW more \in Seq(Typed)
             PROVE  Reached((s \o WrittenAs(unit)) \o more, Len(s \o WrittenAs(unit)),
                            Append(bytes, ValueOf(unit)))
  OBVIOUS
<1> DEFINE w == WrittenAs(unit)
           t == w \o more
           text == s \o t
<1>1. w \in Seq(Typed)
  BY UnitTypes
<1>2. /\ (s \o w) \o more = text /\ t \in Seq(Typed) /\ text \in Seq(Typed)
      /\ Len(s \o w) = Len(s) + Len(w) /\ Len(s) \in Nat
      /\ Spells(text, Len(s), w)
  BY <1>1, SpeltBetween
<1>3. Reached(text, Len(s), bytes)
  BY <1>2
<1> HIDE DEF text, t
<1>4. ASSUME NEW g, Turns(text, g)
      PROVE  At(text, g, Len(s) + Len(w), 0, Append(bytes, ValueOf(unit)))
  <2>1. At(text, g, Len(s), 0, bytes)
    BY <1>3, <1>4 DEF Reached
  <2> QED BY <1>2, <1>4, <2>1, UnitDecoded
<1>5. Reached(text, Len(s) + Len(w), Append(bytes, ValueOf(unit)))
  BY <1>4 DEF Reached
<1> QED BY <1>2, <1>5

\* What has been decoded when the argument ends.
LEMMA Decoded ==
  ASSUME EchoInv, NEW d, d = Decode(Argument)
  PROVE  /\ Holds(d, Meant) /\ d.buf \in Seq(Bytes)
         /\ Len(Meant) < Len(d.buf) /\ d.buf[Len(d.buf)] = 0
<1> DEFINE text == Argument
           n == Len(text)
<1>1. /\ Flat \in Seq(Typed) /\ Meant \in Seq(Bytes) /\ tail \in Unfinished
      /\ \A more \in Seq(Typed) : Reached(Flat \o more, Len(Flat), Meant)
  BY DEF EchoInv
<1>2. tail \in Seq(Typed)
  <2>1. Backslash \in Typed /\ LetterX \in Typed
    BY DEF Typed, Backslash, LetterX
  <2>2. \/ tail \in {<< >>, <<Backslash>>, <<Backslash, LetterX>>}
        \/ \E high \in Typed : tail = <<Backslash, LetterX, high>>
    BY <1>1, EchoAssumption DEF Typed
  <2>3. CASE tail \in {<< >>, <<Backslash>>, <<Backslash, LetterX>>}
    <3>1. << >> \in Seq(Typed)
      OBVIOUS
    <3>2. <<Backslash>> \in Seq(Typed)
      BY <2>1
    <3>3. <<Backslash, LetterX>> \in Seq(Typed)
      BY <2>1
    <3> QED BY <2>3, <3>1, <3>2, <3>3
  <2>4. CASE \E high \in Typed : tail = <<Backslash, LetterX, high>>
    BY <2>1, <2>4
  <2> QED BY <2>2, <2>3, <2>4
<1>3. text = Flat \o tail
  BY DEF Argument, Flat, Spelt
<1>4. /\ Flat \o tail \in Seq(Typed) /\ Len(Flat) \in Nat /\ Len(tail) \in Nat
      /\ Len(Flat \o tail) = Len(Flat) + Len(tail)
      /\ \A i \in 1 .. Len(Flat) : (Flat \o tail)[i] = Flat[i]
      /\ \A i \in 1 .. Len(tail) : (Flat \o tail)[Len(Flat) + i] = tail[i]
  BY ONLY <1>1, <1>2, Joined
<1> HIDE DEF text
<1>5. text \in Seq(Typed) /\ n = Len(Flat) + Len(tail) /\ n \in Nat
  BY <1>3, <1>4
<1>6. PICK g : Turns(text, g)
  BY <1>5, TurnsExist
<1>7. d = g[n]
  BY <1>5, <1>6, DecodeIs DEF text
<1>8. At(text, g, Len(Flat), 0, Meant)
  BY <1>1, <1>2, <1>3, <1>6 DEF Reached
<1>9. Spells(text, Len(Flat), tail)
  BY <1>3, <1>4, <1>5 DEF Spells
<1>10. Holds(d, Meant)
  BY <1>1, <1>4, <1>5, <1>6, <1>7, <1>8, <1>9, TailDropped
<1>11. d \in Decoders(n) /\ Behind(text, d, n)
  <2>1. n \in 0 .. n
    BY <1>5
  <2> QED BY <1>5, <1>6, <1>7, <2>1, InPlace
<1>12. d.buf \in [1 .. n + 1 -> Bytes] /\ d.size \in 0 .. n /\ d.buf[n + 1] = 0
  BY <1>11 DEF Decoders, Behind, Bytes
<1> HIDE DEF n
<1>13. d.buf \in Seq(Bytes) /\ Len(d.buf) = n + 1
  <2> DEFINE buf == d.buf
             m == n + 1
  <2>1. buf \in [1 .. m -> Bytes] /\ m \in Nat
    BY <1>5, <1>12
  <2> HIDE DEF buf, m
  <2>2. buf \in Seq(Bytes) /\ Len(buf) = m
    BY ONLY <2>1, SeqDef, LenProperties
  <2> QED BY <2>2 DEF buf, m
<1>14. Len(Meant) = d.size
  BY <1>10 DEF Holds
<1> QED BY <1>5, <1>10, <1>12, <1>13, <1>14

LEMMA HoldsData ==
  ASSUME NEW d, NEW bytes \in Seq(Bytes), Holds(d, bytes), d.buf \in Seq(Bytes), Len(bytes) < Len(d.buf)
  PROVE  DataOf(d) = bytes
<1> DEFINE buf == d.buf
           k == Len(bytes)
           data == SubSeq(buf, 1, k)
<1>1. buf \in Seq(Bytes) /\ k \in Nat /\ k < Len(buf) /\ d.size = k /\ \A i \in 1 .. k : buf[i] = bytes[i]
  BY LenProperties DEF Holds
<1>2. DataOf(d) = data
  BY <1>1 DEF DataOf
<1> HIDE DEF buf
<1>3. k <= Len(buf)
  BY <1>1, LenProperties
<1> HIDE DEF k
<1>4. data \in Seq(Bytes) /\ Len(data) = k /\ \A i \in 1 .. k : data[i] = buf[i]
  BY ONLY <1>1, <1>3, FirstOfSeq
<1> HIDE DEF data
<1>5. data = bytes
  BY ONLY <1>1, <1>4, bytes \in Seq(Bytes), k = Len(bytes), SeqEqual DEF k
<1> QED BY <1>2, <1>5

LEMMA MinIsLeast ==
  ASSUME NEW S, S \subseteq Nat, S # {}
  PROVE  Min(S) \in S /\ \A y \in S : Min(S) <= y
<1>1. \E x \in S : \A y \in S : x <= y
  BY LeastNumber
<1> QED BY <1>1 DEF Min

\* What the terminal shows of the bytes that are meant.
ShownOf(meant) ==
  LET zeros == {k \in DOMAIN meant : meant[k] = 0}
  IN  IF zeros = {} THEN meant ELSE SubSeq(meant, 1, Min(zeros) - 1)

LEMMA FirstZero ==
  ASSUME NEW meant \in Seq(Bytes), NEW buf \in Seq(Bytes), Len(meant) < Len(buf),
         \A i \in 1 .. Len(meant) : buf[i] = meant[i], buf[Len(buf)] = 0
  PROVE  IsPrefix(ShownOf(meant), StringIn(buf))
<1> DEFINE zeros == {k \in DOMAIN meant : meant[k] = 0}
           ends == {k \in DOMAIN buf : buf[k] = 0}
           end == Min(ends)
           zero == Min(zeros)
           string == SubSeq(buf, 1, end - 1)
<1>1. /\ Len(meant) \in Nat /\ DOMAIN meant = 1 .. Len(meant)
      /\ Len(buf) \in Nat /\ DOMAIN buf = 1 .. Len(buf)
  BY LenProperties
<1>2. ends \subseteq Nat /\ ends # {} /\ zeros \subseteq Nat
  <2>1. Len(buf) \in ends
    BY <1>1
  <2> QED BY <1>1, <2>1
<1>3. end \in ends /\ \A k \in ends : end <= k
  <2> HIDE DEF ends
  <2> QED BY <1>2, MinIsLeast
<1> HIDE DEF end
<1>4. end \in 1 .. Len(buf) /\ buf[end] = 0
  BY <1>1, <1>3
<1>5. end - 1 \in Nat /\ end - 1 <= Len(buf)
  BY <1>1, <1>4
<1>6. string \in Seq(Bytes) /\ Len(string) = end - 1 /\ \A i \in 1 .. end - 1 : string[i] = buf[i]
  <2> DEFINE k == end - 1
  <2>1. k \in Nat /\ k <= Len(buf)
    BY <1>5
  <2> HIDE DEF k
  <2>2. LET s == SubSeq(buf, 1, k)
        IN  s \in Seq(Bytes) /\ Len(s) = k /\ \A i \in 1 .. k : s[i] = buf[i]
    BY ONLY <2>1, buf \in Seq(Bytes), FirstOfSeq
  <2> QED BY <2>2 DEF k
<1>7. StringIn(buf) = string
  BY DEF StringIn, end
<1>8. CASE zeros = {}
  <2>1. ShownOf(meant) = meant
    BY <1>8 DEF ShownOf
  <2>2. ~(end <= Len(meant))
    <3> SUFFICES ASSUME end <= Len(meant) PROVE FALSE
      OBVIOUS
    <3>1. end \in 1 .. Len(meant)
      BY <1>1, <1>4
    <3>2. meant[end] = 0
      BY <1>4, <3>1
    <3> QED BY <1>1, <1>8, <3>1, <3>2
  <2>3. Len(meant) <= end - 1
    BY <1>1, <1>4, <2>2
  <2>4. \A i \in 1 .. Len(meant) : i \in 1 .. end - 1
    BY <1>1, <1>4, <2>3
  <2> HIDE DEF string
  <2>5. Len(meant) <= Len(string) /\ \A i \in 1 .. Len(meant) : meant[i] = string[i]
    BY <1>6, <2>3, <2>4
  <2>6. IsPrefix(meant, string)
    BY ONLY <1>6, <2>5, meant \in Seq(Bytes), PrefixIs
  <2> QED BY <1>7, <2>1, <2>6
<1>9. CASE zeros # {}
  <2>1. zero \in zeros /\ \A k \in zeros : zero <= k
    <3> HIDE DEF zeros
    <3> QED BY <1>2, <1>9, MinIsLeast
  <2> HIDE DEF zero
  <2>2. zero \in 1 .. Len(meant) /\ meant[zero] = 0
    BY <1>1, <2>1
  <2>3. zero = end
    <3>1. zero \in 1 .. Len(buf) /\ buf[zero] = 0
      BY <1>1, <2>2
    <3>2. end <= zero
      BY <1>1, <1>3, <3>1
    <3>3. end \in 1 .. Len(meant)
      BY <1>1, <1>4, <2>2, <3>2
    <3>4. meant[end] = 0
      BY <1>4, <3>3
    <3>5. zero <= end
      BY <1>1, <2>1, <3>3, <3>4
    <3> QED BY <1>4, <2>2, <3>2, <3>5
  <2> DEFINE k == end - 1
             shown == SubSeq(meant, 1, k)
  <2>4. ShownOf(meant) = shown
    BY <1>9, <2>3 DEF ShownOf, zero
  <2>5. k \in Nat /\ k <= Len(meant) /\ Len(string) = k
    BY <1>1, <1>4, <1>6, <2>2, <2>3
  <2>6. \A i \in 1 .. k : string[i] = buf[i] /\ i \in 1 .. Len(meant)
    BY <1>1, <1>6, <2>5
  <2> HIDE DEF string, k
  <2>7. shown \in Seq(Bytes) /\ Len(shown) = k /\ \A i \in 1 .. k : shown[i] = meant[i]
    BY ONLY <2>5, meant \in Seq(Bytes), FirstOfSeq
  <2> HIDE DEF shown
  <2>8. Len(shown) <= Len(string) /\ \A i \in 1 .. Len(shown) : shown[i] = string[i]
    BY <2>5, <2>6, <2>7
  <2>9. IsPrefix(shown, string)
    BY ONLY <1>6, <2>7, <2>8, PrefixIs
  <2> QED BY <1>7, <2>4, <2>9
<1> QED BY <1>8, <1>9

LEMMA AppendIs ==
  ASSUME NEW S, NEW s \in Seq(S), NEW x \in S,
         NEW f, f = [i \in DOMAIN f |-> f[i]], DOMAIN f = 1 .. Len(s) + 1,
         \A i \in 1 .. Len(s) : f[i] = s[i], f[Len(s) + 1] = x
  PROVE  f = Append(s, x)
<1> DEFINE a == Append(s, x)
           n == Len(s)
<1>1. /\ a \in Seq(S) /\ n \in Nat /\ Len(a) = n + 1 /\ a[n + 1] = x
      /\ \A i \in 1 .. n : a[i] = s[i]
  BY OneMore
<1> HIDE DEF a, n
<1>2. a = [i \in 1 .. n + 1 |-> a[i]]
  BY <1>1, LenProperties, SeqDef
<1>3. ASSUME NEW i \in 1 .. n + 1 PROVE f[i] = a[i]
  <2>1. i \in 1 .. n \/ i = n + 1
    BY <1>1
  <2> QED BY <1>1, <2>1 DEF n
<1>4. f = [i \in 1 .. n + 1 |-> f[i]]
  BY DEF n
<1> QED BY <1>2, <1>3, <1>4 DEF a

LEMMA TypedUnit ==
  ASSUME EchoInv, NEW unit \in Units, TypeUnit(unit)
  PROVE  EchoInv'
<1> DEFINE w == WrittenAs(unit)
           v == ValueOf(unit)
<1>1. /\ units \in Seq(Units) /\ units' = Append(units, unit)
      /\ outcome = "none" /\ outcome' = "none" /\ tail' = tail /\ tail \in Unfinished
  BY DEF EchoInv, TypeUnit
<1>2. /\ Flat \in Seq(Typed) /\ Spelt \in Seq(Seq(Typed)) /\ Meant \in Seq(Bytes)
      /\ \A more \in Seq(Typed) : Reached(Flat \o more, Len(Flat), Meant)
  BY DEF EchoInv
<1>3. w \in Seq(Typed) /\ v \in Bytes
  BY UnitTypes
<1>4. /\ units' \in Seq(Units) /\ Len(units) \in Nat /\ DOMAIN units = 1 .. Len(units)
      /\ DOMAIN units' = 1 .. Len(units) + 1
      /\ units'[Len(units) + 1] = unit /\ \A i \in 1 .. Len(units) : units'[i] = units[i]
  <2> DEFINE more == Append(units, unit)
  <2>1. /\ more \in Seq(Units) /\ Len(units) \in Nat /\ Len(more) = Len(units) + 1
        /\ more[Len(units) + 1] = unit /\ \A i \in 1 .. Len(units) : more[i] = units[i]
    BY <1>1, OneMore
  <2> HIDE DEF more
  <2>2. DOMAIN more = 1 .. Len(units) + 1 /\ DOMAIN units = 1 .. Len(units)
    BY <1>1, <2>1, LenProperties
  <2> QED BY <1>1, <2>1, <2>2 DEF more
<1>5. Meant' = Append(Meant, v)
  <2> DEFINE n == Len(units)
             u == units'
             new == [i \in DOMAIN u |-> ValueOf(u[i])]
             old == [i \in DOMAIN units |-> ValueOf(units[i])]
  <2>1. Meant' = new /\ Meant = old
    BY DEF Meant, ValueOf
  <2> HIDE DEF u
  <2>2. n \in Nat /\ DOMAIN u = 1 .. n + 1 /\ DOMAIN units = 1 .. n
        /\ u[n + 1] = unit /\ \A i \in 1 .. n : u[i] = units[i]
    BY <1>4 DEF u
  <2> HIDE DEF n
  <2>3. new = Append(old, ValueOf(unit))
    <3>1. /\ DOMAIN new = 1 .. n + 1 /\ new[n + 1] = v /\ DOMAIN old = 1 .. n
          /\ \A i \in 1 .. n : new[i] = old[i]
      <4>1. n + 1 \in 1 .. n + 1 /\ \A i \in 1 .. n : i \in 1 .. n + 1
        BY <2>2
      <4> QED BY <2>2, <4>1
    <3>2. new = [i \in DOMAIN new |-> new[i]]
      OBVIOUS
    <3>3. old \in Seq(Bytes)
      BY <1>2, <2>1
    <3> HIDE DEF new, old, v
    <3>4. Len(old) = n
      BY <2>2, <3>1, <3>3, LenProperties
    <3>5. new = Append(old, v)
      BY <1>3, <3>1, <3>2, <3>3, <3>4, AppendIs
    <3> QED BY <3>5 DEF v
  <2> QED BY <2>1, <2>3
<1>6. Spelt' = Append(Spelt, w)
  <2> DEFINE n == Len(units)
             u == units'
             new == [i \in DOMAIN u |-> WrittenAs(u[i])]
             old == [i \in DOMAIN units |-> WrittenAs(units[i])]
  <2>1. Spelt' = new /\ Spelt = old
    BY DEF Spelt, WrittenAs
  <2> HIDE DEF u
  <2>2. n \in Nat /\ DOMAIN u = 1 .. n + 1 /\ DOMAIN units = 1 .. n
        /\ u[n + 1] = unit /\ \A i \in 1 .. n : u[i] = units[i]
    BY <1>4 DEF u
  <2> HIDE DEF n
  <2>3. new = Append(old, WrittenAs(unit))
    <3>1. /\ DOMAIN new = 1 .. n + 1 /\ new[n + 1] = w /\ DOMAIN old = 1 .. n
          /\ \A i \in 1 .. n : new[i] = old[i]
      <4>1. n + 1 \in 1 .. n + 1 /\ \A i \in 1 .. n : i \in 1 .. n + 1
        BY <2>2
      <4> QED BY <2>2, <4>1
    <3>2. new = [i \in DOMAIN new |-> new[i]]
      OBVIOUS
    <3>3. old \in Seq(Seq(Typed))
      BY <1>2, <2>1
    <3> HIDE DEF new, old, w
    <3>4. Len(old) = n
      BY <2>2, <3>1, <3>3, LenProperties
    <3>5. new = Append(old, w)
      BY <1>3, <3>1, <3>2, <3>3, <3>4, AppendIs
    <3> QED BY <3>5 DEF w
  <2> QED BY <2>1, <2>3
<1>7. Flat' = Flat \o w
  <2>1. Flat' = FlattenSeq(Spelt') /\ Flat = FlattenSeq(Spelt)
    BY DEF Flat
  <2> DEFINE ss == Spelt
  <2> HIDE DEF w, ss
  <2>2. ss \in Seq(Seq(Typed)) /\ w \in Seq(Typed)
    BY <1>2, <1>3 DEF ss
  <2>3. FlattenSeq(Append(ss, w)) = FlattenSeq(ss) \o w
    BY ONLY <2>2, FlattenAppend
  <2> QED BY <1>6, <2>1, <2>3 DEF ss
<1> HIDE DEF w, v
<1>8. Flat' \in Seq(Typed) /\ Spelt' \in Seq(Seq(Typed)) /\ Meant' \in Seq(Bytes)
  <2>1. Flat \o w \in Seq(Typed)
    BY <1>2, <1>3
  <2>2. Append(Spelt, w) \in Seq(Seq(Typed))
    BY <1>2, <1>3
  <2>3. Append(Meant, v) \in Seq(Bytes)
    BY <1>2, <1>3
  <2> QED BY <1>5, <1>6, <1>7, <2>1, <2>2, <2>3
<1>9. \A more \in Seq(Typed) : Reached(Flat' \o more, Len(Flat'), Meant')
  <2> DEFINE s == Flat
             bytes == Meant
  <2> HIDE DEF s, bytes
  <2>1. /\ s \in Seq(Typed) /\ bytes \in Seq(Bytes)
        /\ \A more \in Seq(Typed) : Reached(s \o more, Len(s), bytes)
    BY <1>2 DEF s, bytes
  <2>2. \A more \in Seq(Typed) : Reached((s \o WrittenAs(unit)) \o more, Len(s \o WrittenAs(unit)),
                                         Append(bytes, ValueOf(unit)))
    BY ONLY <2>1, unit \in Units, ReachedMore
  <2> QED BY <1>5, <1>7, <2>2 DEF s, bytes, w, v
<1>10. StoresMeant' /\ PrintsMeantFirst'
  BY <1>1 DEF StoresMeant, PrintsMeantFirst
<1>11. (\A more \in Seq(Typed) : Reached(Flat \o more, Len(Flat), Meant))'
  BY <1>9 DEF Reached, Turns, At, Holds
<1> QED BY <1>1, <1>4, <1>8, <1>10, <1>11 DEF EchoInv

\* Once the command has begun the argument stays.
LEMMA ArgumentStays ==
  ASSUME EchoInv, UNCHANGED <<units, tail>>,
         outcome' \in {"none", "reset", "printed", "stored", "status"}, StoresMeant', PrintsMeantFirst'
  PROVE  EchoInv'
<1>1. Spelt' = Spelt /\ Meant' = Meant
  BY DEF Spelt, Meant
<1>2. Flat' = Flat
  BY <1>1 DEF Flat
<1>3. (\A more \in Seq(Typed) : Reached(Flat \o more, Len(Flat), Meant))'
  BY <1>1, <1>2 DEF EchoInv, Reached, Turns, At, Holds
<1> QED BY <1>1, <1>2, <1>3 DEF EchoInv

LEMMA EchoKept == EchoInv /\ [Next]_vars => EchoInv'
<1> SUFFICES ASSUME EchoInv, [Next]_vars PROVE EchoInv'
  OBVIOUS
<1>1. /\ outcome \in {"none", "reset", "printed", "stored", "status"}
      /\ StoresMeant /\ PrintsMeantFirst /\ Meant \in Seq(Bytes)
  BY DEF EchoInv
<1>2. ASSUME NEW unit \in Units, TypeUnit(unit) PROVE EchoInv'
  BY <1>2, TypedUnit
<1>3. ASSUME UNCHANGED units PROVE Meant' = Meant
  BY <1>3 DEF Meant
<1>4. CASE EchoNothing \/ EchoRefused
  <2>1. /\ UNCHANGED <<units, tail>> /\ outcome' \in {"reset", "status"}
    BY <1>4 DEF EchoNothing, EchoRefused
  <2>2. StoresMeant' /\ PrintsMeantFirst'
    BY <2>1 DEF StoresMeant, PrintsMeantFirst
  <2> QED BY <2>1, <2>2, ArgumentStays
<1>5. CASE EchoStore
  <2> DEFINE d == Decode(Argument)
  <2>1. UNCHANGED <<units, tail>> /\ outcome' = "stored" /\ given' = DataOf(d)
    BY <1>5 DEF EchoStore
  <2>2. /\ Holds(d, Meant) /\ d.buf \in Seq(Bytes)
        /\ Len(Meant) < Len(d.buf) /\ d.buf[Len(d.buf)] = 0
    BY Decoded
  <2> HIDE DEF d
  <2>3. DataOf(d) = Meant
    BY <1>1, <2>2, HoldsData
  <2>4. StoresMeant' /\ PrintsMeantFirst'
    BY <1>3, <2>1, <2>3 DEF StoresMeant, PrintsMeantFirst
  <2> QED BY <2>1, <2>4, ArgumentStays
<1>6. CASE EchoPrint
  <2> DEFINE d == Decode(Argument)
  <2>1. UNCHANGED <<units, tail>> /\ outcome' = "printed" /\ printed' = StringIn(d.buf)
    BY <1>6 DEF EchoPrint
  <2>2. /\ Holds(d, Meant) /\ d.buf \in Seq(Bytes)
        /\ Len(Meant) < Len(d.buf) /\ d.buf[Len(d.buf)] = 0
    BY Decoded
  <2> HIDE DEF d
  <2>3. IsPrefix(ShownOf(Meant), StringIn(d.buf))
    <3>1. \A i \in 1 .. Len(Meant) : d.buf[i] = Meant[i]
      BY <2>2 DEF Holds
    <3> QED BY <1>1, <2>2, <3>1, FirstZero
  <2>4. Meant' = Meant
    BY <1>3, <2>1
  <2>5. IsPrefix(ShownOf(Meant'), printed')
    BY <2>1, <2>3, <2>4
  <2>6. PrintsMeantFirst'
    BY <2>5 DEF PrintsMeantFirst, ShownOf, IsPrefix
  <2>7. StoresMeant'
    BY <2>1 DEF StoresMeant
  <2> QED BY <2>1, <2>6, <2>7, ArgumentStays
<1>7. CASE UNCHANGED vars
  <2>1. UNCHANGED <<units, tail, outcome, printed, given>>
    BY <1>7 DEF vars
  <2>2. StoresMeant' /\ PrintsMeantFirst'
    BY <1>1, <1>3, <2>1 DEF StoresMeant, PrintsMeantFirst, IsPrefix
  <2> QED BY <1>1, <2>1, <2>2, ArgumentStays
<1> QED BY <1>2, <1>4, <1>5, <1>6, <1>7 DEF Next

\* Whatever is typed comes to bytes: what UshFiles assumes of its arguments.
THEOREM DecodesBytes ==
  ASSUME NEW text \in Seq(Typed)
  PROVE  LET d == Decode(text)
         IN  DataOf(d) \in Seq(0 .. 255) /\ StringIn(d.buf) \in Seq(0 .. 255)
<1> DEFINE d == Decode(text)
           n == Len(text)
           buf == d.buf
<1>1. PICK g : Turns(text, g)
  BY TurnsExist
<1>2. n \in Nat
  BY LenProperties
<1>3. d = g[n] /\ n \in 0 .. n
  BY <1>1, <1>2, DecodeIs
<1>4. d \in Decoders(n) /\ Behind(text, d, n)
  BY <1>1, <1>3, InPlace
<1> HIDE DEF d
<1>5. buf \in [1 .. n + 1 -> Bytes] /\ d.size \in 0 .. n /\ buf[n + 1] = 0
  BY <1>4 DEF Decoders, Behind, Bytes
<1> HIDE DEF n, buf
<1>6. buf \in Seq(Bytes) /\ Len(buf) = n + 1
  <2> DEFINE m == n + 1
  <2>1. buf \in [1 .. m -> Bytes] /\ m \in Nat
    BY <1>2, <1>5
  <2> HIDE DEF m
  <2>2. buf \in Seq(Bytes) /\ Len(buf) = m
    BY ONLY <2>1, SeqDef, LenProperties
  <2> QED BY <2>2 DEF m
<1>7. ASSUME NEW k \in Nat, k <= n PROVE SubSeq(buf, 1, k) \in Seq(Bytes)
  <2>1. k <= Len(buf)
    BY <1>2, <1>6, <1>7
  <2> QED BY ONLY <1>6, <2>1, k \in Nat, FirstOfSeq
<1>8. DataOf(d) \in Seq(Bytes)
  <2>1. d.size \in Nat /\ d.size <= n
    BY <1>2, <1>5
  <2> QED BY <1>7, <2>1 DEF DataOf, buf
<1>9. StringIn(buf) \in Seq(Bytes)
  <2> DEFINE ends == {k \in DOMAIN buf : buf[k] = 0}
             end == Min(ends)
  <2>1. DOMAIN buf = 1 .. n + 1
    BY <1>5
  <2>2. n + 1 \in ends /\ ends \subseteq Nat
    BY <1>2, <1>5, <2>1
  <2>3. end \in ends /\ \A k \in ends : end <= k
    <3> HIDE DEF ends
    <3> QED BY <2>2, MinIsLeast
  <2>4. StringIn(buf) = SubSeq(buf, 1, end - 1)
    BY DEF StringIn
  <2> HIDE DEF end
  <2>5. end \in 1 .. n + 1
    BY <2>1, <2>3
  <2>6. end - 1 \in Nat /\ end - 1 <= n
    BY <1>2, <2>5
  <2> QED BY <1>7, <2>4, <2>6
<1> QED BY <1>8, <1>9 DEF Bytes, d, buf

\* Type correctness and what the decoder has made of each unit.
THEOREM EchoInvariant == Spec => []EchoInv
BY AnInitial, EchoKept, PTL DEF Spec

\* A file gets the bytes that are meant, each once and in order, for arguments
\* of every length.
THEOREM StoresMeantHolds == Spec => []StoresMeant
<1>1. EchoInv => StoresMeant
  BY DEF EchoInv
<1> QED BY <1>1, EchoInvariant, PTL

\* The terminal gets them up to the first byte 0.
THEOREM PrintsMeantFirstHolds == Spec => []PrintsMeantFirst
<1>1. EchoInv => PrintsMeantFirst
  BY DEF EchoInv
<1> QED BY <1>1, EchoInvariant, PTL

=============================================================================
