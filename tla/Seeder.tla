--------------------------------- MODULE Seeder ---------------------------------
(***************************************************************************)
(* The command cmd/seed, run by several people or scripts at once: each    *)
(* run upserts the users, the teams and the memberships of the seed, in    *)
(* that order, inside one READ COMMITTED transaction.  The tables may hold *)
(* rows of an earlier seed definition, or put there by hand.               *)
(*                                                                         *)
(* A row is its table, its primary key, its other unique key (email, slug, *)
(* or team and user) and the rest of its columns.                          *)
(***************************************************************************)
EXTENDS Naturals, Sequences

CONSTANTS Seeders,     \* the runs of the command
          Leftovers    \* rows that may be in the tables before the first run

VARIABLES
  db,      \* the committed rows
  pc,      \* where each run is
  pos,     \* the statement it executes next
  mine     \* the rows its transaction wrote, which it has locked

vars == <<db, pc, pos, mine>>

Row(t, i, k, d) == [table |-> t, id |-> i, key |-> k, data |-> d]

SeedUsers == <<Row("users", "owner", "owner@example.com", "seed"),
               Row("users", "admin", "admin@example.com", "seed"),
               Row("users", "member", "member@example.com", "seed")>>
SeedTeams == <<Row("teams", "a36ee216", "platform", "seed"),
               Row("teams", "c48302d9", "operations", "seed")>>
SeedMemberships ==
  <<Row("team_memberships", "adminOfOps", <<"c48302d9", "admin">>, "seed"),
    Row("team_memberships", "memberOfOps", <<"c48302d9", "member">>, "seed")>>

Seed == SeedUsers \o SeedTeams \o SeedMemberships

Ids(rows, t) == {r.id : r \in {q \in rows : q.table = t}}

\* The constraints of 00002_auth_identity.sql, checked after every statement.
Legal(rows) ==
  /\ \A r, q \in rows :
       r.table = q.table /\ (r.id = q.id \/ r.key = q.key) => r = q
  /\ \A m \in {r \in rows : r.table = "team_memberships"} :
       m.key[1] \in Ids(rows, "teams") /\ m.key[2] \in Ids(rows, "users")

\* Mutant: the memberships are inserted without an ON CONFLICT clause.
ConflictingPlainMemberships(rows, r) ==
  {q \in rows : /\ q.table = r.table /\ r.table # "team_memberships"
                /\ IF r.table = "teams" THEN q.key = r.key ELSE q.id = r.id}

\* ON CONFLICT names the slug for teams and the primary key for the others.
Conflicting(rows, r) ==
  {q \in rows : /\ q.table = r.table
                /\ IF r.table = "teams" THEN q.key = r.key ELSE q.id = r.id}

\* Mutant: DO NOTHING instead of DO UPDATE.
WrittenDoNothing(rows, r) ==
  LET old == Conflicting(rows, r)
  IN  IF old = {} THEN r ELSE CHOOSE q \in old : TRUE

\* DO UPDATE sets every column of the statement but the id.
Written(rows, r) ==
  LET old == Conflicting(rows, r)
  IN  IF old = {} THEN r ELSE [r EXCEPT !.id = (CHOOSE q \in old : TRUE).id]

Upserted(rows, r) == (rows \ Conflicting(rows, r)) \cup {Written(rows, r)}

\* Neither a constraint is violated nor a row there a second time.
Accepted(rows, r) == /\ Legal(Upserted(rows, r))
                     /\ Written(rows, r) \notin rows \ Conflicting(rows, r)

\* What the first statements of the seed, none to all, make of the rows.
After(rows) ==
  LET after[i \in 0..Len(Seed)] ==
        IF i = 0 THEN rows ELSE Upserted(after[i - 1], Seed[i])
  IN  after

SameRow(r, q) == r.table = q.table /\ r.id = q.id

\* What a transaction sees: the committed rows under its own.
View(s) == {r \in db : ~\E m \in mine[s] : SameRow(m, r)} \cup mine[s]

\* A statement waits for the transaction that wrote a row, or replaced one,
\* with the same primary key or the same unique key.
Waits(s, r) ==
  \E t \in Seeders \ {s} : \E m \in mine[t] :
    \E q \in {m} \cup {d \in db : SameRow(d, m)} :
      q.table = r.table /\ (q.id = r.id \/ q.key = r.key)

\* Mutant: the users are ranged over in a map, in another order in each run.
StatementOfMap(s) ==
  IF s = CHOOSE t \in Seeders : TRUE THEN Seed[pos[s]]
  ELSE Seed[CASE pos[s] = 1 -> 2 [] pos[s] = 2 -> 1 [] OTHER -> pos[s]]

Statement(s) == Seed[pos[s]]

TypeOK ==
  /\ Legal(db)
  /\ pc \in [Seeders -> {"none", "tx", "done", "lost", "failed", "conflict"}]
  /\ pos \in [Seeders -> 1..Len(Seed) + 1]
  /\ \A s \in Seeders : mine[s] # {} => pc[s] = "tx"

Init ==
  /\ db \in {rows \in SUBSET Leftovers : Legal(rows)}
  /\ pc = [s \in Seeders |-> "none"]
  /\ pos = [s \in Seeders |-> 1]
  /\ mine = [s \in Seeders |-> {}]
-------------------------------------------------------------------------------
\* Mutant: a run that fails does not roll back.
ExitWithoutRollback(s, status) ==
  /\ pc' = [pc EXCEPT ![s] = status]
  /\ mine' = IF status \in {"done", "lost"} THEN [mine EXCEPT ![s] = {}] ELSE mine
  /\ UNCHANGED pos

Exit(s, status) ==
  /\ pc' = [pc EXCEPT ![s] = status]
  /\ mine' = [mine EXCEPT ![s] = {}]          \* rolled back, or committed
  /\ UNCHANGED pos

\* Production refuses to be seeded, and connecting or Begin may fail.
Begin(s) ==
  /\ pc[s] = "none" /\ pc' = [pc EXCEPT ![s] = "tx"]
  /\ UNCHANGED <<db, pos, mine>>

BeginFails(s) == pc[s] = "none" /\ Exit(s, "failed") /\ UNCHANGED db

\* Mutant: the queries are made for the pool instead of the transaction.
UpsertOnPool(s) ==
  /\ pc[s] = "tx" /\ pos[s] <= Len(Seed) /\ ~Waits(s, Statement(s))
  /\ LET r == Statement(s) IN
     IF Accepted(db, r)
       THEN /\ db' = Upserted(db, r) /\ pos' = [pos EXCEPT ![s] = @ + 1]
            /\ UNCHANGED <<pc, mine>>
       ELSE Exit(s, "conflict") /\ UNCHANGED db

\* One upsert.  A violated constraint ends the run, and rolls it back.
Upsert(s) ==
  /\ pc[s] = "tx" /\ pos[s] <= Len(Seed) /\ ~Waits(s, Statement(s))
  /\ LET r == Statement(s)
         new == Written(View(s), r)
     IN IF Accepted(View(s), r)
          THEN /\ mine' = [mine EXCEPT ![s] =
                             {m \in @ : ~SameRow(m, new)} \cup {new}]
               /\ pos' = [pos EXCEPT ![s] = @ + 1] /\ UNCHANGED pc
          ELSE Exit(s, "conflict")
  /\ UNCHANGED db

\* The answer to a commit may get lost: the run reports an error and exits 1,
\* and its rows are there.
Commit(s) ==
  /\ pc[s] = "tx" /\ pos[s] > Len(Seed)
  /\ db' = View(s) /\ (Exit(s, "done") \/ Exit(s, "lost"))

\* The run is killed or loses its connection: once the server notices, it rolls
\* the transaction back.
Disconnect(s) == pc[s] = "tx" /\ Exit(s, "failed") /\ UNCHANGED db

Next == \E s \in Seeders : \/ Begin(s) \/ BeginFails(s) \/ Upsert(s)
                           \/ Commit(s) \/ Disconnect(s)

Spec == Init /\ [][Next]_vars

\* PostgreSQL executes every statement that waits for no lock.
FairSpec == Spec /\ \A s \in Seeders : WF_vars(Upsert(s)) /\ WF_vars(Commit(s))
-------------------------------------------------------------------------------
\* "Wrap the whole run in one transaction so a failure midway leaves the
\* database untouched": whatever fails, and whoever else is seeding, the
\* committed rows change by a whole seed at a time.
AllOrNothing == [][db' = After(db)[Len(Seed)]]_db

\* A run that has committed, whether or not it was told.
Committed(s) == pc[s] \in {"done", "lost"}

\* "re-running the seeder converges the rows to the seed definition": once a
\* run has committed, every entry has its row, with what the entry says of it,
\* and another run, a retry of it or not, changes nothing of that.
ConvergesOnSuccess ==
  (\E s \in Seeders : Committed(s)) =>
    \A i \in 1..Len(Seed) : \E r \in db :
      /\ r.table = Seed[i].table /\ r.key = Seed[i].key
      /\ r.data = Seed[i].data

\* "safe to run repeatedly": of two runs on the same tables, before, after or
\* beside each other, never does one commit and the other meet a conflict: nor
\* the retry of a run that did not learn that it had committed.
RunsAgree ==
  \A s, t \in Seeders : ~(Committed(s) /\ pc[t] = "conflict")

\* Runs beside each other do not wait for one another in a circle: they all
\* lock the rows in the order of the seed.
EveryRunEnds == \A s \in Seeders : pc[s] = "tx" ~> pc[s] # "tx"

\* "teams (upserted by hardcoded UUID)", and users and memberships too: once a
\* run has succeeded, every entry has a row of its id.
SeededIdsAreFixed ==
  (\E s \in Seeders : pc[s] = "done") =>
    \A i \in 1..Len(Seed) : Seed[i].id \in Ids(db, Seed[i].table)
===============================================================================
