--------------------------- MODULE MCUshAutocomp ---------------------------
(***************************************************************************)
(* Instances of UshAutocomp for TLC.                                       *)
(***************************************************************************)
EXTENDS UshAutocomp

CONSTANTS n1, n2, cwd

TwoNodes  == {n1, n2}
TwoLetters == {"a", "b"}

\* Names that begin alike, one that is the beginning of another, a name that
\* is offered twice.
SomeFiles == (cwd :> <<<<"a", "b">>>>) @@ (n1 :> <<<<"a", "b", "a">>, <<"b">>>>)
               @@ (n2 :> <<<<"b", "b">>>>)
SomeNames == (n1 :> <<"a", "b">>) @@ (n2 :> <<"a">>)

\* What a state can still depend on: the search is prepared anew at each key
\* press, and nothing is read from behind the end of the line.
Live == <<lists, state, row, listed, changes, inPos, Line,
          [p \in Memory \ (0 .. InSize - 1) |-> buf[p]],
          IF state \in {"READ_CHAR", "PREPARE"} THEN << >> ELSE <<prev, walk, tally, input>>>>

=============================================================================
