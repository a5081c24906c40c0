------------------------------ MODULE MCUshEcho ------------------------------
(***************************************************************************)
(* An instance of UshEcho for TLC.                                         *)
(***************************************************************************)
EXTENDS UshEcho

\* "4", "a" and "x" for themselves; "a" and a backslash behind a backslash;
\* the digits 0, 4, F and a; what breaks off in each state of the decoder.
PlainBytes   == {52, 97, 120}
EscapedBytes == {92, 97}
HexDigits    == {48, 52, 70, 97}
BreaksOff    == {<< >>, <<92>>, <<92, 120>>, <<92, 120, 52>>}

=============================================================================
