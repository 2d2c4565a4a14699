---------------------------- MODULE MCMigrations ----------------------------
(* Migrations with the three scripts that touch the transactions table and *)
(* one of those that create a table of their own.                          *)
EXTENDS Migrations, TLC

RunnersAlike == Permutations(Runners)

=============================================================================
