------------------------------- MODULE MCSeeder -------------------------------
(* Rows an earlier seed, or a hand, may have left: what the seed writes,   *)
(* older data under the same keys, and rows that share one of its keys     *)
(* only: another id under a seeded email, slug or membership, or a seeded  *)
(* id under another one.                                                   *)
EXTENDS Seeder

MCLeftovers ==
  {Seed[1], Row("users", "owner", "owner@example.com", "old"),
   Row("users", "owner", "admin@example.com", "old"),
   Seed[2], Row("users", "u9", "admin@example.com", "old"),
   Row("users", "admin", "other@example.com", "old"),
   Row("teams", "t9", "platform", "old"), Row("teams", "a36ee216", "other", "old"),
   Seed[5], Row("teams", "c48302d9", "operations", "old"),
   Row("teams", "t9", "operations", "old"),
   Seed[6], Row("team_memberships", "m9", <<"c48302d9", "admin">>, "seed"),
   Row("team_memberships", "adminOfOps", <<"c48302d9", "owner">>, "seed")}
===============================================================================
