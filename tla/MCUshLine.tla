---------------------------- MODULE MCUshLine ----------------------------
(***************************************************************************)
(* Instances of UshLine for TLC.                                           *)
(***************************************************************************)
EXTENDS UshLine

EditKeys  == {"SP", "LF", "CR", "BS", "TAB", "ETX", "ESC", "[", "a"}
ParseKeys == {"CR", "x", "SP", "QT", "BSL"}

\* Bounds a run to the first line typed into a fresh buffer, so that it can be
\* a longer one: the states that start another line, or wrap around with more
\* to type, are not expanded.
FirstLine ==
  /\ state = "READ_PREPARE" => \A p \in Index : buf[p] = "NUL"
  /\ ~(Editing /\ overrun)

=============================================================================
