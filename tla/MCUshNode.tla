----------------------------- MODULE MCUshNode -----------------------------
(***************************************************************************)
(* An instance of UshNode for TLC.                                         *)
(***************************************************************************)
EXTENDS UshNode

CONSTANTS n1, n2, n3

ThreeNodes == {n1, n2, n3}
TwoNames   == {"a", "b"}
SameFiles  == [n \in Nodes |-> {"a"}]
Alike      == Permutations(Nodes)
Upwards    == {<<"..">>, <<"a">>, <<"..", "b">>, <<"a", "..", ".", "b">>, <<"..", "..">>}

=============================================================================
