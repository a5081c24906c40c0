----------------------------- MODULE UshTokens -----------------------------
(***************************************************************************)
(* What the words of a microshell command line are, said of the whole line *)
(* at once: the reference the parser of ush_parse_utils.c is held to.      *)
(***************************************************************************)
EXTENDS Integers, FiniteSetsExt, SequencesExt

\* A byte is escaped when an odd number of backslashes leads up to it.
Escaped(line, i) ==
  LET before == Max({j \in 0 .. i - 1 : j = 0 \/ line[j] # "BSL"})
  IN  (i - 1 - before) % 2 = 1

Quotes(line, i) == line[i] = "QT" /\ ~Escaped(line, i)

Quoted(line, i) == Cardinality({j \in 1 .. i - 1 : Quotes(line, j)}) % 2 = 1

\* Words are what unescaped spaces outside quotes leave between them.
Gap(line, i) == line[i] = "SP" /\ ~Escaped(line, i) /\ ~Quoted(line, i)

WordStarts(line) == {i \in 1 .. Len(line) :
                       ~Gap(line, i) /\ (i = 1 \/ Gap(line, i - 1))}

WordEnd(line, i) == Max({j \in i .. Len(line) : \A k \in i .. j : ~Gap(line, k)})

\* Quotes and backslashes vanish from a word; \x is left to the command.
Meaning(line, i) ==
  CASE Escaped(line, i) -> IF line[i] = "x" THEN <<"BSL", "x">> ELSE <<line[i]>>
    [] ~Escaped(line, i) /\ line[i] \in {"QT", "BSL"} -> <<>>
    [] OTHER -> <<line[i]>>

Word(line, i) ==
  FlattenSeq([k \in 1 .. WordEnd(line, i) - i + 1 |-> Meaning(line, i + k - 1)])

\* How many words begin up to i, and where the k-th does.
WordsTo(line, i) == Cardinality({j \in WordStarts(line) : j <= i})
NthWord(line, k) == CHOOSE i \in WordStarts(line) : WordsTo(line, i) = k

Tokens(line) ==
  [k \in 1 .. Cardinality(WordStarts(line)) |-> Word(line, NthWord(line, k))]

=============================================================================
