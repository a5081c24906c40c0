---------------------------- MODULE MCUshListing ----------------------------
(***************************************************************************)
(* An instance of UshListing for TLC.                                      *)
(***************************************************************************)
EXTENDS UshListing

CONSTANTS n1, n2, n3, dir

ThreeNodes == {n1, n2, n3}
SomeFiles  == (dir :> <<"described">>) @@ (n1 :> <<"plain", "described">>)
                @@ (n2 :> <<"plain">>) @@ (n3 :> << >>)

=============================================================================
