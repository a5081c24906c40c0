----------------------------- MODULE MCUshPaths -----------------------------
(***************************************************************************)
(* An instance of UshPaths for TLC.                                        *)
(***************************************************************************)
EXTENDS UshPaths

SomeCurrents == {<<"/">>, <<"/", "a">>, <<"/", "a", "a", "/", "a">>}

=============================================================================
