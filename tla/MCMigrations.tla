---------------------------- MODULE MCMigrations ----------------------------
(***************************************************************************)
(* Migrations for TLC: two modules, the first with two migrations and a    *)
(* last down script that the database refuses, as the one of the auth      *)
(* module is.                                                              *)
(***************************************************************************)
EXTENDS Migrations, TLC

CONSTANTS auth, order

MCOrder  == <<auth, order>>
MCLatest == (auth :> 2) @@ (order :> 1)
=============================================================================
