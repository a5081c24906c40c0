------------------------------- MODULE UshEcho -------------------------------
(***************************************************************************)
(* The command echo: what becomes of its argument, decoded by UshDecode.   *)
(***************************************************************************)
EXTENDS UshDecode

CONSTANTS
  Plain,     \* bytes that stand for themselves
  Escaped,   \* bytes typed behind a backslash
  Digits,    \* digits typed behind \x
  MaxUnits,  \* bound on the length of the argument
  Unfinished \* what the argument may break off with

ASSUME EchoAssumption ==
  /\ Plain \cup Escaped \cup Digits \subseteq 1 .. 255
  /\ Backslash \notin Plain /\ LetterX \notin Escaped
  /\ MaxUnits \in Nat
  /\ \A rest \in Unfinished :
       \/ rest \in {<< >>, <<Backslash>>, <<Backslash, LetterX>>}
       \/ \E high \in 1 .. 255 : rest = <<Backslash, LetterX, high>>

\* What is meant by an argument: bytes one by one, each written in one of
\* three ways.
Units == {<<"plain", c>> : c \in Plain} \cup {<<"escaped", c>> : c \in Escaped}
           \cup {<<"hex", high, low>> : high, low \in Digits}

VARIABLES
  units,    \* the units of the argument
  tail,     \* what follows them, unfinished
  outcome,  \* what echo has done
  printed,  \* the string handed to ush_print
  given     \* the data handed to the file's set_data

vars == <<units, tail, outcome, printed, given>>

WrittenAs(unit) ==
  CASE unit[1] = "plain"   -> <<unit[2]>>
    [] unit[1] = "escaped" -> <<Backslash, unit[2]>>
    [] unit[1] = "hex"     -> <<Backslash, LetterX, unit[2], unit[3]>>

\* argv[1] as the parser leaves it.
Argument == FlattenSeq([i \in DOMAIN units |-> WrittenAs(units[i])]) \o tail

(***************************************************************************)
(* echo, by the number of its arguments.                                   *)
(***************************************************************************)
EchoNothing == /\ outcome = "none"
               /\ outcome' = "reset"
               /\ UNCHANGED <<units, tail, printed, given>>

EchoPrint == /\ outcome = "none"
             /\ outcome' = "printed"
             /\ printed' = StringIn(Decode(Argument).buf)
             /\ UNCHANGED <<units, tail, given>>

EchoStore == /\ outcome = "none"
             /\ outcome' = "stored"
             /\ given' = DataOf(Decode(Argument))
             /\ UNCHANGED <<units, tail, printed>>

\* The file is missing, or not writable; or there is no ">".
EchoRefused == /\ outcome = "none"
               /\ outcome' = "status"
               /\ UNCHANGED <<units, tail, printed, given>>

\* The argument is typed.
TypeUnit(unit) == /\ outcome = "none"
                  /\ Len(units) < MaxUnits
                  /\ units' = Append(units, unit)
                  /\ UNCHANGED <<tail, outcome, printed, given>>

Init == /\ units = << >> /\ tail \in Unfinished
        /\ outcome = "none" /\ printed = << >> /\ given = << >>

Next == \/ \E unit \in Units : TypeUnit(unit)
        \/ EchoNothing \/ EchoPrint \/ EchoStore \/ EchoRefused

Spec == Init /\ [][Next]_vars

-----------------------------------------------------------------------------
ValueOf(unit) == IF unit[1] = "hex" THEN HexToDec(unit[2]) * 16 + HexToDec(unit[3]) ELSE unit[2]
Meant == [i \in DOMAIN units |-> ValueOf(units[i])]

\* The file gets the bytes that are meant, each once and in order: decoding in
\* place writes nothing it has still to read, and what breaks off is dropped.
StoresMeant == outcome = "stored" => given = Meant

\* The terminal gets them too, up to the first byte 0.
PrintsMeantFirst ==
  outcome = "printed" =>
    LET zeros == {k \in DOMAIN Meant : Meant[k] = 0}
        shown == IF zeros = {} THEN Meant ELSE SubSeq(Meant, 1, Min(zeros) - 1)
    IN  IsPrefix(shown, printed)

=============================================================================
