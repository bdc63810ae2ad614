---------------------------- MODULE MCMigration ----------------------------
(* Instances of Migration for TLC.                                         *)
EXTENDS Migration

MCParent == ("a" :> "a") @@ ("b" :> "b") @@ ("sub" :> "a")
MCLists == {<<"a">>, <<"b">>, <<"sub">>, <<"a", "b">>, <<"b", "sub">>}
=============================================================================
