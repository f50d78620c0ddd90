------------------------------ MODULE MCMigrations ------------------------------
(* Model-checking instance of Migrations, its commands in the cfg.         *)
EXTENDS Migrations
===============================================================================
