------------------------------- MODULE Migrations -------------------------------
(***************************************************************************)
(* The command cmd/migrate, run by several people, scripts or deployments  *)
(* at once on one database.  goose reads the version, picks a migration,   *)
(* and executes its script and the change of goose_db_version in one       *)
(* transaction; nothing but PostgreSQL's own locks keeps two commands      *)
(* apart.  An object stands for a group of objects that the scripts create *)
(* and drop together.                                                      *)
(***************************************************************************)
EXTENDS Naturals, Sequences, SequencesExt

CONSTANT Commands      \* the runs of the command

VARIABLES
  catalog,   \* the committed schema: each object "absent", "whole" or "damaged"
  rows,      \* committed version_ids of goose_db_version by the rows' ids, with
             \* a mark for a row that was deleted; <<>>: no such table
  cmd,       \* the argument of each command
  pc,        \* where it is
  target,    \* the migration it executes
  step,      \* the statement of the script it executes next
  mine,      \* what its transaction made of each object, "same" if nothing:
             \* the server may hold the transaction of a command that is gone
  mixed      \* an up and a down have run at the same time (history)

database == <<catalog, rows>>
vars == <<catalog, rows, cmd, pc, target, step, mine, mixed>>

\* The files under database/migrations and what each creates, in order.
UpScript == <<  <<"extensions", "functions">>, <<"user_role", "tables">>  >>

\* Mutant: the down script of 00002 forgets its enum type.
DownScriptKeepsRole == <<  <<"functions", "extensions">>, <<"tables">>  >>

DownScript == <<  <<"functions", "extensions">>, <<"tables", "user_role">>  >>

Latest == Len(UpScript)
Created(v) == ToSet(UpScript[v])
Objects == UNION {Created(v) : v \in 1..Latest}
Deleted == Latest + 1      \* the mark

\* Column types, defaults and checks of the tables need all the others.
Needs(o) == IF o = "tables" THEN Objects \ {o} ELSE {}
\* DROP EXTENSION ... CASCADE drops the citext columns of the tables.
Cascades(o) == o = "extensions"

TypeOK ==
  /\ catalog \in [Objects -> {"absent", "whole", "damaged"}]
  /\ rows \in Seq(0..Deleted) /\ (rows = <<>> \/ rows[1] = 0)
  /\ cmd \in [Commands -> {"none", "up", "down", "status"}]
  /\ pc \in [Commands -> {"none", "ensure", "create", "next", "tx", "ok", "failed"}]
  /\ target \in [Commands -> 0..Latest] /\ step \in [Commands -> 1..3]
  /\ mine \in [Commands -> [Objects -> {"same", "absent", "whole", "damaged"}]]
  /\ \A c \in Commands : pc[c] \notin {"tx", "failed"} =>
       \A o \in Objects : mine[c][o] = "same"
  /\ mixed \in BOOLEAN

Migrated(v) == [o \in Objects |-> IF \E w \in 1..v : o \in Created(w)
                                    THEN "whole" ELSE "absent"]

\* A fresh database, or one an earlier command has migrated.
Init ==
  /\ \E v \in 0..Latest : /\ catalog = Migrated(v)
                          /\ rows = [i \in 1..v + 1 |-> i - 1] \/ (v = 0 /\ rows = <<>>)
  /\ cmd = [c \in Commands |-> "none"] /\ pc = [c \in Commands |-> "none"]
  /\ target = [c \in Commands |-> 0] /\ step = [c \in Commands |-> 1]
  /\ mine = [c \in Commands |-> [o \in Objects |-> "same"]]
  /\ mixed = FALSE

Active(c) == pc[c] \notin {"none", "ok", "failed"}
Go(c, to) == pc' = [pc EXCEPT ![c] = to]

\* What a transaction sees: the committed schema under its own changes.
View(c) == [o \in Objects |-> IF mine[c][o] = "same" THEN catalog[o] ELSE mine[c][o]]
TouchedByOthers(c, o) == \E d \in Commands \ {c} : mine[d][o] # "same"
-------------------------------------------------------------------------------
Start(c, command) ==
  /\ pc[c] = "none" /\ Go(c, "ensure") /\ cmd' = [cmd EXCEPT ![c] = command]
  /\ mixed' = (mixed \/ \E d \in Commands : Active(d) /\ {cmd[d], command} = {"up", "down"})
  /\ UNCHANGED <<database, target, step, mine>>

Applied == ToSet(rows) \ {Deleted}

\* Without its table, the version is 0.  up refuses when a migration below the
\* highest version is missing; status has nothing else to do.
EnsureDBVersion(c) ==
  /\ pc[c] = "ensure"
  /\ Go(c, CASE rows = <<>> -> "create"
             [] rows # <<>> /\ cmd[c] = "status" -> "ok"
             [] rows # <<>> /\ cmd[c] = "up" /\ \E v \in 1..Latest \ Applied :
                  \E w \in Applied : v < w -> "failed"
             [] OTHER -> "next")
  /\ UNCHANGED <<database, cmd, target, step, mine, mixed>>

\* The table and its row for version 0, in one transaction.
CreateVersionTable(c) ==
  /\ pc[c] = "create"
  /\ IF rows = <<>> THEN rows' = <<0>> /\ Go(c, "ensure")
                    ELSE Go(c, "failed") /\ UNCHANGED rows
  /\ UNCHANGED <<catalog, cmd, target, step, mine, mixed>>

\* The version is that of the row inserted last, 0 if there is none.
LastRows(r) == {i \in DOMAIN r : /\ r[i] # Deleted
                                 /\ \A j \in DOMAIN r : j > i => r[j] = Deleted}
VersionOf(r) == IF LastRows(r) = {} THEN 0 ELSE r[CHOOSE i \in LastRows(r) : TRUE]
Version == VersionOf(rows)

Begin(c, v) == /\ Go(c, "tx") /\ target' = [target EXCEPT ![c] = v]
               /\ step' = [step EXCEPT ![c] = 1]

\* Mutant: UpByOne, which stops after one migration.
NextMigrationByOne(c) ==
  /\ pc[c] = "next"
  /\ \/ cmd[c] = "up" /\ Version < Latest /\ target[c] = 0 /\ Begin(c, Version + 1)
     \/ cmd[c] = "up" /\ (Version = Latest \/ target[c] # 0) /\ Go(c, "ok")
        /\ UNCHANGED <<target, step>>
     \/ cmd[c] = "down" /\ Version > 0 /\ Begin(c, Version)
     \/ cmd[c] = "down" /\ Version = 0 /\ Go(c, "failed") /\ UNCHANGED <<target, step>>
  /\ UNCHANGED <<database, cmd, mine, mixed>>

\* up goes on until there is no next migration, down undoes the current one.
NextMigration(c) ==
  /\ pc[c] = "next"
  /\ \/ cmd[c] = "up" /\ Version < Latest /\ Begin(c, Version + 1)
     \/ cmd[c] = "up" /\ Version = Latest /\ Go(c, "ok") /\ UNCHANGED <<target, step>>
     \/ cmd[c] = "down" /\ Version > 0 /\ Begin(c, Version)
     \/ cmd[c] = "down" /\ Version = 0 /\ Go(c, "failed") /\ UNCHANGED <<target, step>>
  /\ UNCHANGED <<database, cmd, mine, mixed>>

Rollback(c) == mine' = [mine EXCEPT ![c] = [o \in Objects |-> "same"]]
Fail(c) == Go(c, "failed") /\ Rollback(c) /\ UNCHANGED step

\* Mutant: the files of one command list the objects in the other order.
ScriptOfOtherRelease(c) ==
  LET script == IF cmd[c] = "up" THEN UpScript[target[c]] ELSE DownScript[target[c]]
  IN  IF c = CHOOSE d \in Commands : TRUE THEN Reverse(script) ELSE script

Script(c) == IF cmd[c] = "up" THEN UpScript[target[c]] ELSE DownScript[target[c]]
Executing(c) == pc[c] = "tx" /\ step[c] <= Len(Script(c))

Touch(c, objects, state) ==
  mine' = [mine EXCEPT ![c] = [o \in Objects |-> IF o \in objects THEN state[o] ELSE @[o]]]

\* Mutant: CREATE ... IF NOT EXISTS.
CreateIfNotExists(c) ==
  /\ Executing(c) /\ cmd[c] = "up"
  /\ LET o == Script(c)[step[c]] IN
     /\ ~TouchedByOthers(c, o)
     /\ Touch(c, {o}, [x \in Objects |-> "whole"])
  /\ step' = [step EXCEPT ![c] = @ + 1]
  /\ UNCHANGED <<database, cmd, pc, target, mixed>>

\* CREATE waits for a transaction that has created or dropped the object, and
\* fails when it exists or something it needs does not.
Create(c) ==
  /\ Executing(c) /\ cmd[c] = "up"
  /\ LET o == Script(c)[step[c]] IN
     /\ ~TouchedByOthers(c, o)
     /\ IF View(c)[o] = "absent" /\ \A n \in Needs(o) : View(c)[n] # "absent"
          THEN /\ Touch(c, {o}, [x \in Objects |-> "whole"])
               /\ step' = [step EXCEPT ![c] = @ + 1] /\ UNCHANGED pc
          ELSE Fail(c)
  /\ UNCHANGED <<database, cmd, target, mixed>>

\* DROP IF EXISTS waits likewise, but not for what it cannot see.  Without
\* CASCADE it fails when a visible object needs this one; what others have
\* created and not committed is not visible, and nothing protects it.
Drop(c) ==
  /\ Executing(c) /\ cmd[c] = "down"
  /\ LET o == Script(c)[step[c]]
         users == {u \in Objects : o \in Needs(u) /\ View(c)[u] # "absent"}
         hit == IF View(c)[o] = "absent" THEN {} ELSE {o} \cup users
     IN /\ \A x \in hit : ~TouchedByOthers(c, x)
        /\ IF hit = {} \/ users = {} \/ Cascades(o)
             THEN /\ Touch(c, hit, [x \in Objects |-> IF x = o THEN "absent" ELSE "damaged"])
                  /\ step' = [step EXCEPT ![c] = @ + 1] /\ UNCHANGED pc
             ELSE Fail(c)
  /\ UNCHANGED <<database, cmd, target, mixed>>

\* Mutant: the version's row by another connection, and the transaction left open.
CommitVersionOnly(c) ==
  /\ pc[c] = "tx" /\ step[c] > Len(Script(c))
  /\ rows' = IF cmd[c] = "up" THEN Append(rows, target[c])
                             ELSE ReplaceAll(rows, target[c], Deleted)
  /\ Go(c, IF cmd[c] = "up" THEN "next" ELSE "ok")
  /\ UNCHANGED <<catalog, cmd, target, step, mine, mixed>>

\* The version changes in the transaction of the script.  When the answer to
\* the commit is lost, the command fails and the migration is there.
Commit(c) ==
  /\ pc[c] = "tx" /\ step[c] > Len(Script(c))
  /\ catalog' = View(c) /\ Rollback(c)
  /\ rows' = IF cmd[c] = "up" THEN Append(rows, target[c])
                             ELSE ReplaceAll(rows, target[c], Deleted)
  /\ Go(c, IF cmd[c] = "up" THEN "next" ELSE "ok") \/ Go(c, "failed")
  /\ UNCHANGED <<cmd, target, step, mixed>>

\* Thirty seconds are over, the connection broke, or the command was killed.
\* The server keeps its transaction, with the locks, until it notices.
GiveUp(c) ==
  /\ Active(c) /\ Go(c, "failed")
  /\ UNCHANGED <<database, cmd, target, step, mine, mixed>>

ServerNotices(c) ==
  /\ pc[c] = "failed" /\ \E o \in Objects : mine[c][o] # "same"
  /\ Rollback(c)
  /\ UNCHANGED <<database, cmd, pc, target, step, mixed>>

Next == \E c \in Commands :
          \/ \E command \in {"up", "down", "status"} : Start(c, command)
          \/ EnsureDBVersion(c) \/ CreateVersionTable(c) \/ NextMigration(c)
          \/ Create(c) \/ Drop(c) \/ Commit(c) \/ GiveUp(c) \/ ServerNotices(c)

Spec == Init /\ [][Next]_vars

\* The database answers a statement that waits for nothing, and notices that a
\* client is gone.  The thirty seconds are not counted on.
Proceeds(c) == \/ EnsureDBVersion(c) \/ CreateVersionTable(c) \/ NextMigration(c)
               \/ Create(c) \/ Drop(c) \/ Commit(c)
FairSpec == Spec /\ \A c \in Commands : WF_vars(Proceeds(c)) /\ WF_vars(ServerNotices(c))
-------------------------------------------------------------------------------
\* The version says what the schema is: after failures, kills and lost answers,
\* and however many ups, or downs, run at once.  An up beside a down is not
\* covered, and cannot be: see the README.
SchemaMatchesVersion == ~mixed => catalog = Migrated(Version)

\* goose_db_version has no unique key on version_id, and the last row decides:
\* all the same no version is recorded twice, or below an earlier one.
VersionsInOrder ==
  ~mixed => \A i, j \in DOMAIN rows :
              i < j /\ rows[i] # Deleted /\ rows[j] # Deleted => rows[i] < rows[j]

\* "Apply migrations": an up that succeeds found or left the latest version,
\* and others that go up at the same time do not take it back.
UpReachesLatest ==
  (\A d \in Commands : cmd[d] # "down") =>
    \A c \in Commands : pc[c] = "ok" /\ cmd[c] = "up" => Version = Latest

\* "Roll back the last migration": whatever a command had read before others
\* changed it, the version moves by the next migration or the last one only.
OneMigrationAtATime ==
  [][~mixed' => \E c \in Commands :
       pc[c] = "tx" /\ Version' = IF cmd[c] = "up" THEN Version + 1 ELSE Version - 1]_Version

\* Commands wait for each other's locks, and for those of a command that is
\* gone, but never in a circle: each ends, even if no deadline cuts it short.
EveryCommandEnds == \A c \in Commands : Active(c) ~> ~Active(c)
===============================================================================
