-------------------------- MODULE MCSeedLifecycle --------------------------
(***************************************************************************)
(* The whole suite, with and without a crash, over two formation turns.    *)
(***************************************************************************)
EXTENDS SeedLifecycle

TwoTurns == <<"f1", "f2">>

=============================================================================
