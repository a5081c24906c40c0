----------------------------- MODULE Completion -----------------------------
(***************************************************************************)
(* What autocompletion promises: in one step the last word of the line is  *)
(* extended by what all the names that begin with it have in common.  No   *)
(* search, no pointers, no buffer.                                         *)
(*                                                                         *)
(* Names come and go.  While those offered are still the ones of the key   *)
(* press the result is exact; otherwise the word is still the beginning of *)
(* a name that was offered during the search, or what it was.              *)
(***************************************************************************)
EXTENDS Integers, FiniteSetsExt, SequencesExt

CONSTANTS
  Keys,      \* bytes that may be typed, "SP" among them
  AllNames   \* names that may be offered

VARIABLES
  line,      \* the line edited
  phase,     \* "edit" or "search"
  offers,    \* the names offered now
  seen,      \* those offered at some moment of the search
  steady     \* the offers are those the search began with

completionVars == <<line, phase, offers, seen, steady>>

\* A space separates words, unless it begins the line and a word follows.
WordStarts(l) == {i \in 1 .. Len(l) : l[i] = "SP" /\ (i > 1 \/ i = Len(l))}

Stem(l) == SubSeq(l, 1, Max({0} \cup WordStarts(l)))
Word(l) == SubSeq(l, Len(Stem(l)) + 1, Len(l))

Matching(word, names) == {name \in names : IsPrefix(word, name)}

Completed(word, names) ==
  IF Matching(word, names) = {} THEN word ELSE LongestCommonPrefix(Matching(word, names))

Partly(word, names) ==
  {word} \cup {p \in UNION {Prefixes(name) : name \in Matching(word, names)} : IsPrefix(word, p)}

Init == /\ line = << >> /\ phase = "edit"
        /\ offers \subseteq AllNames /\ seen = {} /\ steady = TRUE

Insert(key) == /\ phase = "edit"
               /\ line' = Append(line, key)
               /\ UNCHANGED <<phase, offers, seen, steady>>

Erase == /\ phase = "edit" /\ line # << >>
         /\ line' = Front(line)
         /\ UNCHANGED <<phase, offers, seen, steady>>

Tab == /\ phase = "edit"
       /\ phase' = "search" /\ seen' = offers /\ steady' = TRUE
       /\ UNCHANGED <<line, offers>>

Complete == /\ phase = "search"
            /\ phase' = "edit" /\ seen' = {} /\ steady' = TRUE
            /\ LET words == IF steady THEN {Completed(Word(line), offers)}
                                      ELSE Partly(Word(line), seen)
               IN  line' \in {Stem(line) \o word : word \in words}
            /\ UNCHANGED offers

\* The application prints over the line.
Lose == /\ line' = << >> /\ phase' = "edit" /\ seen' = {} /\ steady' = TRUE
        /\ UNCHANGED offers

Change == /\ offers' \subseteq AllNames
          /\ IF phase = "search" THEN seen' = seen \cup offers' /\ steady' = FALSE
                                 ELSE UNCHANGED <<seen, steady>>
          /\ UNCHANGED <<line, phase>>

Next == \/ Erase \/ Tab \/ Complete \/ Lose \/ Change
        \/ \E key \in Keys : Insert(key)

Spec == Init /\ [][Next]_completionVars

=============================================================================
