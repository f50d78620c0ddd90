---------------------------- MODULE MigrationsProofs ----------------------------
(***************************************************************************)
(* Proofs about Migrations, for any number of commands.                    *)
(***************************************************************************)
EXTENDS Migrations, SequenceTheorems, TLAPS

(* The inductive invariant.                                                *)

\* PostgreSQL's locks: an object is changed by one transaction at a time.
Exclusive ==
  \A c, d \in Commands : \A o \in Objects :
    c # d /\ mine[c][o] # "same" => mine[d][o] = "same"

\* What the history variable stands for: unless it is set, the commands that
\* run all go the same way, and it is set only by a down.
OneWay ==
  /\ ~mixed => \A c, d \in Commands :
       ~(Active(c) /\ Active(d) /\ cmd[c] = "up" /\ cmd[d] = "down")
  /\ mixed => \E d \in Commands : cmd[d] = "down"

\* The types, without the version table.
Types ==
  /\ catalog \in [Objects -> {"absent", "whole", "damaged"}]
  /\ cmd \in [Commands -> {"none", "up", "down", "status"}]
  /\ pc \in [Commands -> {"none", "ensure", "create", "next", "tx", "ok", "failed"}]
  /\ target \in [Commands -> 0..Latest] /\ step \in [Commands -> 1..3]
  /\ mine \in [Commands -> [Objects -> {"same", "absent", "whole", "damaged"}]]
  /\ mixed \in BOOLEAN

\* How the rest of a command goes with where it is.
Stage ==
  \A c \in Commands :
    /\ pc[c] \notin {"tx", "failed"} => \A o \in Objects : mine[c][o] = "same"
    /\ pc[c] = "none" <=> cmd[c] = "none"
    /\ pc[c] \in {"next", "tx"} => cmd[c] \in {"up", "down"}
    /\ pc[c] = "tx" => target[c] \in 1..Latest

\* The version table: its first row is that of version 0, and stays.
Table ==
  /\ rows \in Seq(0..Deleted) /\ (rows = <<>> \/ rows[1] = 0)
  /\ \A c \in Commands : pc[c] \in {"next", "tx"} => rows # <<>>

\* The rows that are left are those of 0 to the version.
VersionRows == ~mixed /\ rows # <<>> => /\ LastRows(rows) # {}
                                        /\ \A v \in 0..Version : \E i \in DOMAIN rows : rows[i] = v

Executed(c) == {Script(c)[i] : i \in 1..(step[c] - 1)}

\* An up has created what its script has so far, none of which was there.  Its
\* migration is the next one, unless another up has been faster.
UpInTx ==
  \A c \in Commands : ~mixed /\ pc[c] = "tx" /\ cmd[c] = "up" =>
    /\ target[c] <= Version + 1
    /\ \A o \in Objects : mine[c][o] = IF o \in Executed(c) THEN "whole" ELSE "same"
    /\ \A o \in Executed(c) : catalog[o] = "absent"

\* A down has dropped those objects of its script so far that were there.  Its
\* migration is the current one, unless another down has been faster.
DownInTx ==
  \A c \in Commands : ~mixed /\ pc[c] = "tx" /\ cmd[c] = "down" =>
    /\ Version <= target[c]
    /\ \A o \in Objects : mine[c][o] # "same" =>
         mine[c][o] = "absent" /\ catalog[o] = "whole" /\ o \in Executed(c)
    /\ \A o \in Executed(c) : mine[c][o] = "absent" \/ catalog[o] = "absent"

IInv == /\ Types /\ Stage /\ Table /\ Exclusive /\ OneWay
        /\ SchemaMatchesVersion /\ VersionsInOrder /\ VersionRows /\ UpInTx /\ DownInTx
        /\ UpReachesLatest
-------------------------------------------------------------------------------
(* The scripts, written out.                                               *)

LEMMA Scripts ==
  /\ Latest = 2 /\ Deleted = 3
  /\ Created(1) = {"extensions", "functions"} /\ Created(2) = {"user_role", "tables"}
  /\ Objects = {"extensions", "functions", "user_role", "tables"}
  /\ \A v \in 1..Latest : Len(UpScript[v]) = 2 /\ Len(DownScript[v]) = 2
<1>1. Latest = 2 /\ Deleted = 3
  BY DEF Latest, Deleted, UpScript
<1>2. Created(1) = {"extensions", "functions"} /\ Created(2) = {"user_role", "tables"}
  <2>1. ToSet(<<"extensions", "functions">>) = {"extensions", "functions"}
    BY DEF ToSet
  <2>2. ToSet(<<"user_role", "tables">>) = {"user_role", "tables"}
    BY DEF ToSet
  <2> QED
    BY <2>1, <2>2 DEF Created, UpScript
<1>3. Objects = {"extensions", "functions", "user_role", "tables"}
  <2>1. 1..Latest = {1, 2}
    BY <1>1
  <2>2. Objects = UNION {Created(v) : v \in {1, 2}}
    BY <2>1, Zenon DEF Objects
  <2> QED
    BY <1>2, <2>2
<1>4. \A v \in 1..Latest : Len(UpScript[v]) = 2 /\ Len(DownScript[v]) = 2
  BY <1>1 DEF UpScript, DownScript
<1> QED
  BY <1>1, <1>2, <1>3, <1>4

LEMMA MigratedIs ==
  \A v \in 0..2 : Migrated(v) =
    [o \in Objects |-> IF \/ v >= 1 /\ o \in {"extensions", "functions"}
                          \/ v = 2 /\ o \in {"user_role", "tables"}
                         THEN "whole" ELSE "absent"]
<1>1. \A v \in 0..2 : \A o \in Objects :
        (\E w \in 1..v : o \in Created(w)) <=> \/ v >= 1 /\ o \in {"extensions", "functions"}
                                               \/ v = 2 /\ o \in {"user_role", "tables"}
  BY Scripts
<1> QED
  BY <1>1 DEF Migrated
-------------------------------------------------------------------------------
(* The version table.                                                      *)

\* A row that is left, with none left after it, has the version.
LEMMA VersionIs ==
  ASSUME NEW r \in Seq(0..Deleted), NEW k \in DOMAIN r, r[k] # Deleted,
         \A j \in DOMAIN r : j > k => r[j] = Deleted
  PROVE  LastRows(r) # {} /\ VersionOf(r) = r[k]
<1>1. k \in LastRows(r)
  BY DEF LastRows
<1>2. ASSUME NEW i \in LastRows(r) PROVE i = k
  <2>1. i \in DOMAIN r /\ i \in Int /\ k \in Int
    BY DEF LastRows
  <2>2. ~(i > k) /\ ~(k > i)
    BY <2>1 DEF LastRows
  <2> QED
    BY <2>1, <2>2
<1>3. LastRows(r) = {k}
  BY <1>1, <1>2
<1> QED
  BY <1>3 DEF VersionOf

LEMMA VersionType ==
  ASSUME NEW r \in Seq(0..Deleted)
  PROVE  /\ VersionOf(r) \in 0..Latest
         /\ r = <<>> => VersionOf(r) = 0
         /\ LastRows(r) # {} => \E k \in DOMAIN r :
              /\ r[k] = VersionOf(r) /\ r[k] # Deleted
              /\ \A j \in DOMAIN r : j > k => r[j] = Deleted
<1>1. r = <<>> => LastRows(r) = {}
  BY DEF LastRows
<1>2. CASE LastRows(r) = {}
  <2>1. VersionOf(r) = 0
    BY <1>2, Zenon DEF VersionOf
  <2> QED
    BY <1>2, <2>1, Scripts
<1>3. CASE LastRows(r) # {}
  <2> DEFINE k == CHOOSE i \in LastRows(r) : TRUE
  <2>1. k \in LastRows(r)
    BY <1>3, Zenon
  <2>2. VersionOf(r) = r[k]
    BY <1>3, Zenon DEF VersionOf
  <2> HIDE DEF k
  <2>3. k \in DOMAIN r /\ r[k] # Deleted /\ r[k] \in 0..Deleted
    <3>1. k \in DOMAIN r /\ r[k] # Deleted
      BY <2>1 DEF LastRows
    <3> QED
      BY <3>1, ElementOfSeq, LenProperties
  <2>4. \A j \in DOMAIN r : j > k => r[j] = Deleted
    BY <2>1 DEF LastRows
  <2>5. VersionOf(r) \in 0..Latest
    BY <2>2, <2>3, Scripts
  <2>6. r # <<>>
    BY <2>3
  <2> QED
    BY <2>2, <2>3, <2>4, <2>5, <2>6
<1> QED
  BY <1>2, <1>3

LEMMA VersionAppended ==
  ASSUME NEW r \in Seq(0..Deleted), NEW v \in 0..Latest
  PROVE  /\ Append(r, v) \in Seq(0..Deleted) /\ Append(r, v) # <<>>
         /\ Len(Append(r, v)) = Len(r) + 1 /\ Append(r, v)[Len(r) + 1] = v
         /\ \A i \in DOMAIN r : Append(r, v)[i] = r[i]
         /\ LastRows(Append(r, v)) # {} /\ VersionOf(Append(r, v)) = v
<1>0. v \in 0..Deleted
  BY Scripts
<1>1. /\ Append(r, v) \in Seq(0..Deleted) /\ Len(Append(r, v)) = Len(r) + 1
      /\ Append(r, v)[Len(r) + 1] = v
      /\ \A i \in DOMAIN r : Append(r, v)[i] = r[i]
  BY <1>0
<1> DEFINE new == Append(r, v)
<1>2. /\ Len(r) + 1 \in DOMAIN new /\ new[Len(r) + 1] # Deleted
      /\ \A j \in DOMAIN new : ~(j > Len(r) + 1)
  BY <1>1, Scripts
<1>3. LastRows(new) # {} /\ VersionOf(new) = v
  BY <1>1, <1>2, VersionIs
<1>4. new # <<>>
  BY <1>2
<1> QED
  BY <1>1, <1>3, <1>4

LEMMA RowsDeleted ==
  ASSUME NEW r \in Seq(0..Deleted), NEW v
  PROVE  LET left == ReplaceAll(r, v, Deleted) IN
         /\ left \in Seq(0..Deleted) /\ Len(left) = Len(r)
         /\ \A i \in DOMAIN r : left[i] = IF r[i] = v THEN Deleted ELSE r[i]
BY Scripts DEF ReplaceAll
-------------------------------------------------------------------------------
(* The steps: first what does not depend on how commands overlap.          *)

\* What a statement, and what a rollback or a commit, leaves in mine.
LEMMA Touched ==
  ASSUME Types, NEW c \in Commands, NEW hit, NEW state, Touch(c, hit, state),
         state \in [Objects -> {"absent", "whole", "damaged"}]
  PROVE  /\ mine' \in [Commands -> [Objects -> {"same", "absent", "whole", "damaged"}]]
         /\ \A d \in Commands \ {c} : mine'[d] = mine[d]
         /\ \A o \in Objects : mine'[c][o] = IF o \in hit THEN state[o] ELSE mine[c][o]
<1>1. mine \in [Commands -> [Objects -> {"same", "absent", "whole", "damaged"}]]
  BY DEF Types
<1> QED
  BY <1>1 DEF Touch

LEMMA Undone ==
  ASSUME Types, NEW c \in Commands, Rollback(c) \/ Fail(c)
  PROVE  /\ mine' \in [Commands -> [Objects -> {"same", "absent", "whole", "damaged"}]]
         /\ \A d \in Commands \ {c} : mine'[d] = mine[d]
         /\ \A o \in Objects : mine'[c][o] = "same"
<1>1. mine \in [Commands -> [Objects -> {"same", "absent", "whole", "damaged"}]]
  BY DEF Types
<1>2. Rollback(c)
  BY DEF Fail
<1> QED
  BY <1>1, <1>2 DEF Rollback

LEMMA Handlers ==
  ASSUME Next
  PROVE  \E c \in Commands :
           \/ \E command \in {"up", "down", "status"} : Start(c, command)
           \/ EnsureDBVersion(c) \/ CreateVersionTable(c) \/ NextMigration(c)
           \/ Create(c) \/ Drop(c) \/ Commit(c) \/ GiveUp(c) \/ ServerNotices(c)
BY Zenon DEF Next

LEMMA ScriptLength ==
  ASSUME Stage, NEW c \in Commands, pc[c] = "tx"
  PROVE  Len(Script(c)) = 2
BY Scripts DEF Script, Stage

LEMMA NextStage ==
  ASSUME Types, Stage, Table, Next
  PROVE  Types' /\ Stage'
<1>1. Latest = 2 /\ Version \in 0..2
  BY VersionType, Scripts DEF Version, Table
<1> PICK c \in Commands :
      \/ \E command \in {"up", "down", "status"} : Start(c, command)
      \/ EnsureDBVersion(c) \/ CreateVersionTable(c) \/ NextMigration(c)
      \/ Create(c) \/ Drop(c) \/ Commit(c) \/ GiveUp(c) \/ ServerNotices(c)
  BY Handlers, Zenon
<1> USE DEF Go, database
<1>2. ASSUME NEW command \in {"up", "down", "status"}, Start(c, command)
      PROVE  Types' /\ Stage'
  <2>1. Types'
    BY <1>2 DEF Start, Types
  <2>2. Stage'
    BY <1>2 DEF Start, Types, Stage
  <2> QED
    BY <2>1, <2>2
<1>3. CASE EnsureDBVersion(c)
  <2>1. Types'
    BY <1>3 DEF EnsureDBVersion, Types
  <2>2. Stage'
    BY <1>3 DEF EnsureDBVersion, Types, Stage
  <2> QED
    BY <2>1, <2>2
<1>4. CASE CreateVersionTable(c)
  <2>1. Types'
    BY <1>4 DEF CreateVersionTable, Types
  <2>2. Stage'
    BY <1>4 DEF CreateVersionTable, Types, Stage
  <2> QED
    BY <2>1, <2>2
<1>5. CASE NextMigration(c)
  <2>1. Types'
    <3>1. CASE UNCHANGED <<target, step>>
      BY <1>5, <3>1 DEF NextMigration, Begin, Types
    <3>2. ASSUME NEW v \in 1..Latest, Begin(c, v) PROVE Types'
      BY <1>5, <3>2 DEF NextMigration, Begin, Types
    <3>3. Version < Latest => Version + 1 \in 1..Latest
      BY <1>1
    <3>4. Version > 0 => Version \in 1..Latest
      BY <1>1
    <3> QED
      BY <1>5, <3>1, <3>2, <3>3, <3>4, Zenon DEF NextMigration
  <2>2. Stage'
    BY <1>1, <1>5 DEF NextMigration, Begin, Types, Stage
  <2> QED
    BY <2>1, <2>2
<1>6. ASSUME pc[c] # "none", UNCHANGED <<catalog, cmd, target, mixed>>, Fail(c)
      PROVE  Types' /\ Stage'
  <2>1. /\ mine' \in [Commands -> [Objects -> {"same", "absent", "whole", "damaged"}]]
        /\ \A d \in Commands \ {c} : mine'[d] = mine[d]
        /\ \A o \in Objects : mine'[c][o] = "same"
    BY <1>6, Undone
  <2>2. pc' = [pc EXCEPT ![c] = "failed"] /\ UNCHANGED <<catalog, cmd, target, step, mixed>>
    BY <1>6 DEF Fail
  <2>3. Types'
    BY <2>1, <2>2 DEF Types
  <2>4. Stage'
    BY <1>6, <2>1, <2>2 DEF Types, Stage
  <2> QED
    BY <2>3, <2>4
<1>7. ASSUME Executing(c), UNCHANGED <<catalog, cmd, pc, target, mixed>>,
             step' = [step EXCEPT ![c] = @ + 1], NEW hit, NEW state, Touch(c, hit, state),
             state \in [Objects -> {"absent", "whole", "damaged"}]
      PROVE  Types' /\ Stage'
  <2>1. step[c] <= 2 /\ pc[c] = "tx"
    BY <1>7, ScriptLength DEF Executing
  <2>2. /\ mine' \in [Commands -> [Objects -> {"same", "absent", "whole", "damaged"}]]
        /\ \A d \in Commands \ {c} : mine'[d] = mine[d]
    BY <1>7, Touched
  <2>3. Types'
    <3>1. step' \in [Commands -> 1..3]
      BY <1>7, <2>1 DEF Types
    <3> QED
      BY <1>7, <2>2, <3>1 DEF Types
  <2>4. Stage'
    BY <1>7, <2>1, <2>2 DEF Types, Stage
  <2> QED
    BY <2>3, <2>4
<1>8. CASE Create(c)
  <2>1. Executing(c) /\ pc[c] # "none" /\ UNCHANGED <<catalog, cmd, target, mixed>>
    BY <1>8 DEF Create, Executing
  <2>2. \/ Fail(c)
        \/ /\ Touch(c, {Script(c)[step[c]]}, [x \in Objects |-> "whole"])
           /\ step' = [step EXCEPT ![c] = @ + 1] /\ UNCHANGED pc
    BY <1>8, Zenon DEF Create
  <2> QED
    BY <1>6, <1>7, <2>1, <2>2
<1>9. CASE Drop(c)
  <2>1. Executing(c) /\ pc[c] # "none" /\ UNCHANGED <<catalog, cmd, target, mixed>>
    BY <1>9 DEF Drop, Executing
  <2>2. CASE Fail(c)
    BY <1>6, <2>1, <2>2
  <2>3. ASSUME NEW hit, NEW o,
               Touch(c, hit, [x \in Objects |-> IF x = o THEN "absent" ELSE "damaged"]),
               step' = [step EXCEPT ![c] = @ + 1], UNCHANGED pc
        PROVE  Types' /\ Stage'
    BY <1>7, <2>1, <2>3
  <2> QED
    BY <1>9, <2>2, <2>3, Zenon DEF Drop
<1>10. CASE Commit(c)
  <2>1. View(c) \in [Objects -> {"absent", "whole", "damaged"}]
    BY DEF View, Types
  <2>2. catalog' = View(c) /\ pc[c] = "tx" /\ UNCHANGED <<cmd, target, step, mixed>>
    BY <1>10 DEF Commit
  <2>3. \/ pc' = [pc EXCEPT ![c] = "next"] /\ cmd[c] = "up"
        \/ pc' = [pc EXCEPT ![c] = "ok"] \/ pc' = [pc EXCEPT ![c] = "failed"]
    BY <1>10 DEF Commit
  <2>4. /\ mine' \in [Commands -> [Objects -> {"same", "absent", "whole", "damaged"}]]
        /\ \A d \in Commands \ {c} : mine'[d] = mine[d]
        /\ \A o \in Objects : mine'[c][o] = "same"
    BY <1>10, Undone DEF Commit
  <2>5. Types'
    BY <2>1, <2>2, <2>3, <2>4 DEF Types
  <2>6. Stage'
    BY <2>2, <2>3, <2>4 DEF Types, Stage
  <2> QED
    BY <2>5, <2>6
<1>11. CASE GiveUp(c)
  <2>1. Types'
    BY <1>11 DEF GiveUp, Types
  <2>2. Stage'
    BY <1>11 DEF GiveUp, Active, Types, Stage
  <2> QED
    BY <2>1, <2>2
<1>12. CASE ServerNotices(c)
  <2>1. /\ mine' \in [Commands -> [Objects -> {"same", "absent", "whole", "damaged"}]]
        /\ \A d \in Commands \ {c} : mine'[d] = mine[d]
        /\ \A o \in Objects : mine'[c][o] = "same"
    BY <1>12, Undone DEF ServerNotices
  <2>2. Types'
    BY <1>12, <2>1 DEF ServerNotices, Types
  <2>3. Stage'
    BY <1>12, <2>1 DEF ServerNotices, Stage
  <2> QED
    BY <2>2, <2>3
<1> QED
  BY <1>2, <1>3, <1>4, <1>5, <1>8, <1>9, <1>10, <1>11, <1>12

LEMMA NextTable ==
  ASSUME Types, Stage, Table, Next
  PROVE  Table'
<1> PICK c \in Commands :
      \/ \E command \in {"up", "down", "status"} : Start(c, command)
      \/ EnsureDBVersion(c) \/ CreateVersionTable(c) \/ NextMigration(c)
      \/ Create(c) \/ Drop(c) \/ Commit(c) \/ GiveUp(c) \/ ServerNotices(c)
  BY Handlers, Zenon
<1> USE DEF Go, database
<1>1. pc \in [Commands -> {"none", "ensure", "create", "next", "tx", "ok", "failed"}]
  BY DEF Types
<1>2. ASSUME UNCHANGED rows,
             \A d \in Commands :
               pc'[d] \in {"next", "tx"} => pc[d] \in {"next", "tx"} \/ rows # <<>>
      PROVE  Table'
  BY <1>2 DEF Table
<1>3. ASSUME NEW command \in {"up", "down", "status"}, Start(c, command) PROVE Table'
  BY <1>1, <1>2, <1>3 DEF Start
<1>4. CASE EnsureDBVersion(c)
  BY <1>1, <1>2, <1>4 DEF EnsureDBVersion
<1>5. CASE CreateVersionTable(c)
  <2>1. CASE rows # <<>>
    BY <1>1, <1>2, <1>5, <2>1 DEF CreateVersionTable
  <2>2. CASE rows = <<>>
    <3>1. rows' = <<0>> /\ 0 \in 0..Deleted
      BY <1>5, <2>2, Scripts DEF CreateVersionTable
    <3>2. rows' \in Seq(0..Deleted) /\ rows' # <<>> /\ rows'[1] = 0
      BY <3>1
    <3> QED
      BY <3>2 DEF Table
  <2> QED
    BY <2>1, <2>2
<1>6. CASE NextMigration(c)
  BY <1>1, <1>2, <1>6 DEF NextMigration, Begin
<1>7. CASE Create(c)
  BY <1>1, <1>2, <1>7 DEF Create, Fail
<1>8. CASE Drop(c)
  BY <1>1, <1>2, <1>8 DEF Drop, Fail
<1>9. CASE Commit(c)
  <2>1. rows # <<>> /\ rows[1] = 0 /\ target[c] \in 1..Latest /\ rows \in Seq(0..Deleted)
    BY <1>9 DEF Commit, Table, Stage
  <2>2. 1 \in DOMAIN rows
    BY <2>1
  <2>3. CASE rows' = Append(rows, target[c])
    BY <2>1, <2>2, <2>3, VersionAppended DEF Table
  <2>4. CASE rows' = ReplaceAll(rows, target[c], Deleted)
    <3>1. /\ rows' \in Seq(0..Deleted) /\ Len(rows') = Len(rows)
          /\ rows'[1] = IF rows[1] = target[c] THEN Deleted ELSE rows[1]
      BY <2>1, <2>2, <2>4, RowsDeleted
    <3>2. rows' # <<>> /\ rows'[1] = 0
      BY <2>1, <2>2, <3>1, Scripts
    <3> QED
      BY <3>1, <3>2 DEF Table
  <2> QED
    BY <1>9, <2>3, <2>4 DEF Commit
<1>10. CASE GiveUp(c)
  BY <1>1, <1>2, <1>10 DEF GiveUp, Active
<1>11. CASE ServerNotices(c)
  BY <1>1, <1>2, <1>11 DEF ServerNotices
<1> QED
  BY <1>3, <1>4, <1>5, <1>6, <1>7, <1>8, <1>9, <1>10, <1>11

LEMMA NextOneWay ==
  ASSUME Types, Stage, OneWay, Next
  PROVE  OneWay'
<1> PICK c \in Commands :
      \/ \E command \in {"up", "down", "status"} : Start(c, command)
      \/ EnsureDBVersion(c) \/ CreateVersionTable(c) \/ NextMigration(c)
      \/ Create(c) \/ Drop(c) \/ Commit(c) \/ GiveUp(c) \/ ServerNotices(c)
  BY Handlers, Zenon
<1>1. /\ pc \in [Commands -> {"none", "ensure", "create", "next", "tx", "ok", "failed"}]
      /\ cmd \in [Commands -> {"none", "up", "down", "status"}] /\ mixed \in BOOLEAN
  BY DEF Types
<1>2. ASSUME UNCHANGED <<cmd, mixed>>, pc[c] \notin {"none", "ok", "failed"},
             \A d \in Commands \ {c} : pc'[d] = pc[d]
      PROVE  OneWay'
  BY <1>2 DEF OneWay, Active
<1>3. ASSUME NEW command \in {"up", "down", "status"}, Start(c, command) PROVE OneWay'
  <2>1. /\ pc[c] = "none" /\ \A d \in Commands \ {c} : pc'[d] = pc[d] /\ cmd'[d] = cmd[d]
        /\ cmd'[c] = command
        /\ mixed' = (mixed \/ \E d \in Commands : Active(d) /\ {cmd[d], command} = {"up", "down"})
    BY <1>1, <1>3 DEF Start, Go
  <2>2. ASSUME ~mixed', NEW a \in Commands, NEW b \in Commands,
               Active(a)', Active(b)', cmd'[a] = "up", cmd'[b] = "down"
        PROVE  FALSE
    <3>1. ~mixed /\ \A d \in Commands : ~(Active(d) /\ {cmd[d], command} = {"up", "down"})
      BY <2>1, <2>2
    <3>2. CASE a # c /\ b # c
      BY <2>1, <2>2, <3>1, <3>2 DEF OneWay, Active
    <3>3. CASE a = c
      BY <2>1, <2>2, <3>1, <3>3 DEF Active
    <3>4. CASE b = c
      BY <2>1, <2>2, <3>1, <3>4 DEF Active
    <3> QED
      BY <3>2, <3>3, <3>4
  <2>3. ASSUME mixed' PROVE \E d \in Commands : cmd'[d] = "down"
    <3>1. CASE mixed
      <4>1. PICK d \in Commands : cmd[d] = "down"
        BY <3>1 DEF OneWay
      <4>2. d # c
        BY <2>1, <4>1, <1>3 DEF Start, Stage, OneWay
      <4> QED
        BY <2>1, <4>1, <4>2
    <3>2. CASE ~mixed
      <4>1. PICK d \in Commands : Active(d) /\ {cmd[d], command} = {"up", "down"}
        BY <2>1, <2>3, <3>2
      <4>2. cmd[d] = "down" \/ command = "down"
        BY <4>1
      <4>3. d # c
        BY <2>1, <4>1 DEF Active
      <4> QED
        BY <2>1, <4>2, <4>3
    <3> QED
      BY <3>1, <3>2
  <2> QED
    BY <2>2, <2>3 DEF OneWay
<1> USE DEF Go
<1>4. CASE EnsureDBVersion(c)
  BY <1>1, <1>2, <1>4 DEF EnsureDBVersion
<1>5. CASE CreateVersionTable(c)
  BY <1>1, <1>2, <1>5 DEF CreateVersionTable
<1>6. CASE NextMigration(c)
  BY <1>1, <1>2, <1>6 DEF NextMigration, Begin
<1>7. CASE Create(c)
  BY <1>1, <1>2, <1>7 DEF Create, Executing, Fail
<1>8. CASE Drop(c)
  BY <1>1, <1>2, <1>8 DEF Drop, Executing, Fail
<1>9. CASE Commit(c)
  BY <1>1, <1>2, <1>9 DEF Commit
<1>10. CASE GiveUp(c)
  BY <1>1, <1>2, <1>10 DEF GiveUp, Active
<1>11. CASE ServerNotices(c)
  BY <1>11 DEF ServerNotices, OneWay, Active
<1> QED
  BY <1>3, <1>4, <1>5, <1>6, <1>7, <1>8, <1>9, <1>10, <1>11

\* What a statement does, of an up and of a down.
LEMMA CreateStep ==
  ASSUME Types, Stage, NEW c \in Commands, Create(c)
  PROVE  LET o == Script(c)[step[c]] IN
         /\ pc[c] = "tx" /\ cmd[c] = "up" /\ step[c] \in 1..2 /\ o \in Objects
         /\ UNCHANGED <<catalog, rows, cmd, target, mixed>>
         /\ \A d \in Commands \ {c} : mine[d][o] = "same"
         /\ \/ Fail(c)
            \/ /\ View(c)[o] = "absent"
               /\ Touch(c, {o}, [x \in Objects |-> "whole"])
               /\ step' = [step EXCEPT ![c] = @ + 1] /\ UNCHANGED pc
<1> DEFINE o == Script(c)[step[c]]
<1>1. /\ pc[c] = "tx" /\ cmd[c] = "up" /\ step[c] <= 2
      /\ UNCHANGED <<catalog, rows, cmd, target, mixed>>
  BY ScriptLength DEF Create, Executing, database
<1>2. step[c] \in 1..2 /\ target[c] \in 1..2
  BY <1>1, Scripts DEF Types, Stage
<1>3. o \in Objects
  BY <1>1, <1>2, Scripts DEF Script, UpScript
<1>4. \A d \in Commands \ {c} : mine[d][o] = "same"
  BY DEF Create, TouchedByOthers
<1>5. \/ Fail(c)
      \/ /\ View(c)[o] = "absent"
         /\ Touch(c, {o}, [x \in Objects |-> "whole"])
         /\ step' = [step EXCEPT ![c] = @ + 1] /\ UNCHANGED pc
  BY Zenon DEF Create
<1> QED
  BY <1>1, <1>2, <1>3, <1>4, <1>5

LEMMA DropStep ==
  ASSUME Types, Stage, NEW c \in Commands, Drop(c)
  PROVE  LET o == Script(c)[step[c]]
             users == {u \in Objects : o \in Needs(u) /\ View(c)[u] # "absent"}
             hit == IF View(c)[o] = "absent" THEN {} ELSE {o} \cup users
         IN /\ pc[c] = "tx" /\ cmd[c] = "down" /\ step[c] \in 1..2 /\ o \in Objects
            /\ UNCHANGED <<catalog, rows, cmd, target, mixed>>
            /\ \A d \in Commands \ {c} : \A x \in hit : mine[d][x] = "same"
            /\ \/ Fail(c)
               \/ /\ Touch(c, hit, [x \in Objects |-> IF x = o THEN "absent" ELSE "damaged"])
                  /\ step' = [step EXCEPT ![c] = @ + 1] /\ UNCHANGED pc
<1> DEFINE o == Script(c)[step[c]]
           users == {u \in Objects : o \in Needs(u) /\ View(c)[u] # "absent"}
           hit == IF View(c)[o] = "absent" THEN {} ELSE {o} \cup users
<1>1. /\ pc[c] = "tx" /\ cmd[c] = "down" /\ step[c] <= 2
      /\ UNCHANGED <<catalog, rows, cmd, target, mixed>>
  BY ScriptLength DEF Drop, Executing, database
<1>2. step[c] \in 1..2 /\ target[c] \in 1..2
  BY <1>1, Scripts DEF Types, Stage
<1>3. o \in Objects
  BY <1>1, <1>2, Scripts DEF Script, DownScript
<1>4. /\ \A x \in hit : ~TouchedByOthers(c, x)
      /\ \/ Fail(c)
         \/ /\ Touch(c, hit, [x \in Objects |-> IF x = o THEN "absent" ELSE "damaged"])
            /\ step' = [step EXCEPT ![c] = @ + 1] /\ UNCHANGED pc
  BY Zenon DEF Drop
<1>5. \A d \in Commands \ {c} : \A x \in hit : mine[d][x] = "same"
  BY <1>4, Zenon DEF TouchedByOthers
<1> HIDE DEF o, users, hit
<1> QED
  BY <1>1, <1>2, <1>3, <1>4, <1>5 DEF o, users, hit

LEMMA NextExclusive ==
  ASSUME Types, Stage, Exclusive, Next
  PROVE  Exclusive'
<1> PICK c \in Commands :
      \/ \E command \in {"up", "down", "status"} : Start(c, command)
      \/ EnsureDBVersion(c) \/ CreateVersionTable(c) \/ NextMigration(c)
      \/ Create(c) \/ Drop(c) \/ Commit(c) \/ GiveUp(c) \/ ServerNotices(c)
  BY Handlers, Zenon
<1>1. CASE UNCHANGED mine
  BY <1>1 DEF Exclusive
<1>2. CASE Rollback(c) \/ Fail(c)
  <2>1. /\ \A d \in Commands \ {c} : mine'[d] = mine[d]
        /\ \A o \in Objects : mine'[c][o] = "same"
    BY <1>2, Undone
  <2> QED
    BY <2>1 DEF Exclusive
<1>3. ASSUME NEW hit, NEW state, Touch(c, hit, state),
             state \in [Objects -> {"absent", "whole", "damaged"}],
             \A d \in Commands \ {c} : \A x \in hit : mine[d][x] = "same"
      PROVE  Exclusive'
  <2>1. /\ \A d \in Commands \ {c} : mine'[d] = mine[d]
        /\ \A o \in Objects : mine'[c][o] = IF o \in hit THEN state[o] ELSE mine[c][o]
    BY <1>3, Touched
  <2> QED
    BY <1>3, <2>1 DEF Exclusive
<1>4. CASE Create(c)
  <2> DEFINE o == Script(c)[step[c]]
  <2>1. /\ \A d \in Commands \ {c} : mine[d][o] = "same"
        /\ Fail(c) \/ Touch(c, {o}, [x \in Objects |-> "whole"])
    BY <1>4, CreateStep
  <2> QED
    BY <1>2, <1>3, <2>1
<1>5. CASE Drop(c)
  <2> DEFINE o == Script(c)[step[c]]
             users == {u \in Objects : o \in Needs(u) /\ View(c)[u] # "absent"}
             hit == IF View(c)[o] = "absent" THEN {} ELSE {o} \cup users
  <2>1. /\ \A d \in Commands \ {c} : \A x \in hit : mine[d][x] = "same"
        /\ \/ Fail(c)
           \/ Touch(c, hit, [x \in Objects |-> IF x = o THEN "absent" ELSE "damaged"])
    BY <1>5, DropStep, Zenon
  <2> HIDE DEF o, hit
  <2> QED
    BY <1>2, <1>3, <2>1
<1> QED
  BY <1>1, <1>2, <1>4, <1>5
  DEF Start, EnsureDBVersion, CreateVersionTable, NextMigration, Commit, GiveUp, ServerNotices
-------------------------------------------------------------------------------
(* Commands that all go up, or all go down.                                *)

LEMMA ExecutedNone ==
  ASSUME NEW c \in Commands, step'[c] = 1
  PROVE  Executed(c)' = {}
BY DEF Executed

LEMMA ExecutedOneMore ==
  ASSUME NEW c \in Commands, Script(c)' = Script(c), step[c] \in 1..2, step'[c] = step[c] + 1
  PROVE  Executed(c)' = Executed(c) \cup {Script(c)[step[c]]}
<1>1. 1..(step'[c] - 1) = 1..(step[c] - 1) \cup {step[c]}
  BY SMT
<1>2. Executed(c)' = {Script(c)[i] : i \in 1..(step'[c] - 1)}
  BY DEF Executed
<1> QED
  BY <1>1, <1>2 DEF Executed

LEMMA ExecutedSame ==
  ASSUME NEW c \in Commands, cmd'[c] = cmd[c], target'[c] = target[c], step'[c] = step[c]
  PROVE  Executed(c)' = Executed(c)
BY DEF Executed, Script

\* A statement's object is not one that the script has had before, and when
\* all are executed these are what the migration creates.
LEMMA ExecutedObjects ==
  ASSUME Types, Stage, NEW c \in Commands, pc[c] = "tx"
  PROVE  /\ step[c] \in 1..2 => Script(c)[step[c]] \notin Executed(c)
         /\ Executed(c) \subseteq Created(target[c])
         /\ step[c] = 3 => Executed(c) = Created(target[c])
         /\ step[c] = 2 => Executed(c) = {Script(c)[1]}
         /\ step[c] = 1 => Executed(c) = {}
<1>1. /\ target[c] \in 1..2 /\ step[c] \in 1..3 /\ cmd[c] \in {"up", "down"}
  BY Scripts DEF Types, Stage
<1>2. /\ step[c] = 1 => Executed(c) = {}
      /\ step[c] = 2 => Executed(c) = {Script(c)[1]}
      /\ step[c] = 3 => Executed(c) = {Script(c)[1], Script(c)[2]}
  <2>1. 1..(1 - 1) = {} /\ 1..(2 - 1) = {1} /\ 1..(3 - 1) = {1, 2}
    OBVIOUS
  <2>2. CASE step[c] = 1
    BY <2>1, <2>2 DEF Executed
  <2>3. CASE step[c] = 2
    BY <2>1, <2>3 DEF Executed
  <2>4. CASE step[c] = 3
    BY <2>1, <2>4 DEF Executed
  <2> QED
    BY <2>2, <2>3, <2>4
<1>3. Script(c)[1] # Script(c)[2] /\ {Script(c)[1], Script(c)[2]} = Created(target[c])
  <2>1. CASE target[c] = 1
    BY <1>1, <2>1, Scripts DEF Script, UpScript, DownScript
  <2>2. CASE target[c] = 2
    BY <1>1, <2>2, Scripts DEF Script, UpScript, DownScript
  <2> QED
    BY <1>1, <2>1, <2>2
<1> QED
  BY <1>1, <1>2, <1>3

\* An up that commits takes the schema to the next version, as no other has.
LEMMA UpCommits ==
  ASSUME Types, Stage, Table, SchemaMatchesVersion, UpInTx, ~mixed,
         NEW c \in Commands, cmd[c] = "up", Commit(c)
  PROVE  target[c] = Version + 1 /\ View(c) = Migrated(Version + 1)
<1>1. /\ pc[c] = "tx" /\ step[c] = 3 /\ target[c] \in 1..2 /\ target[c] <= Version + 1
      /\ \A o \in Objects : mine[c][o] = IF o \in Created(target[c]) THEN "whole" ELSE "same"
      /\ \A o \in Created(target[c]) : catalog[o] = "absent"
  <2>1. pc[c] = "tx" /\ step[c] > Len(Script(c))
    BY DEF Commit
  <2>2. step[c] = 3 /\ target[c] \in 1..2
    <3>1. Len(Script(c)) = 2 /\ target[c] \in 1..Latest /\ step[c] \in 1..3
      BY <2>1, ScriptLength DEF Types, Stage
    <3> QED
      BY <2>1, <3>1, Scripts
  <2>3. Executed(c) = Created(target[c])
    BY <2>1, <2>2, ExecutedObjects
  <2>4. /\ target[c] <= Version + 1
        /\ \A o \in Objects : mine[c][o] = IF o \in Executed(c) THEN "whole" ELSE "same"
        /\ \A o \in Executed(c) : catalog[o] = "absent"
    BY <2>1, Zenon DEF UpInTx
  <2> QED
    BY <2>1, <2>2, <2>3, <2>4
<1>2. Version \in 0..2 /\ catalog = Migrated(Version)
  BY VersionType, Scripts DEF Version, Table, SchemaMatchesVersion
<1>3. target[c] = Version + 1
  BY <1>1, <1>2, MigratedIs, Scripts
<1>4. Version + 1 \in 0..2
  BY <1>1, <1>2, <1>3
<1>5. View(c) = Migrated(Version + 1)
  <2>1. \A o \in Objects : View(c)[o] = Migrated(Version + 1)[o]
    BY <1>1, <1>2, <1>3, <1>4, MigratedIs, Scripts DEF View
  <2>2. View(c) = [o \in Objects |-> View(c)[o]]
    BY DEF View
  <2>3. Migrated(Version + 1) = [o \in Objects |-> Migrated(Version + 1)[o]]
    BY DEF Migrated
  <2> QED
    BY <2>1, <2>2, <2>3
<1> QED
  BY <1>3, <1>5

\* A down that commits takes the schema one version back, or changes nothing
\* when another down has been faster.
LEMMA DownCommits ==
  ASSUME Types, Stage, Table, SchemaMatchesVersion, DownInTx, ~mixed,
         NEW c \in Commands, cmd[c] = "down", Commit(c)
  PROVE  \/ target[c] > Version /\ View(c) = catalog
         \/ Version > 0 /\ target[c] = Version /\ View(c) = Migrated(Version - 1)
<1>1. /\ pc[c] = "tx" /\ step[c] = 3 /\ target[c] \in 1..2 /\ Version <= target[c]
      /\ \A o \in Objects : mine[c][o] # "same" =>
           mine[c][o] = "absent" /\ catalog[o] = "whole" /\ o \in Created(target[c])
      /\ \A o \in Created(target[c]) : mine[c][o] = "absent" \/ catalog[o] = "absent"
  <2>1. pc[c] = "tx" /\ step[c] > Len(Script(c))
    BY DEF Commit
  <2>2. step[c] = 3 /\ target[c] \in 1..2
    <3>1. Len(Script(c)) = 2 /\ target[c] \in 1..Latest /\ step[c] \in 1..3
      BY <2>1, ScriptLength DEF Types, Stage
    <3> QED
      BY <2>1, <3>1, Scripts
  <2>3. Executed(c) = Created(target[c])
    BY <2>1, <2>2, ExecutedObjects
  <2>4. /\ Version <= target[c]
        /\ \A o \in Objects : mine[c][o] # "same" =>
             mine[c][o] = "absent" /\ catalog[o] = "whole" /\ o \in Executed(c)
        /\ \A o \in Executed(c) : mine[c][o] = "absent" \/ catalog[o] = "absent"
    BY <2>1, Zenon DEF DownInTx
  <2> QED
    BY <2>1, <2>2, <2>3, <2>4
<1>2. Version \in 0..2 /\ catalog = Migrated(Version)
  BY VersionType, Scripts DEF Version, Table, SchemaMatchesVersion
<1>3. /\ View(c) = [o \in Objects |-> View(c)[o]]
      /\ \A v \in 0..2 : Migrated(v) = [o \in Objects |-> Migrated(v)[o]]
  BY DEF View, Migrated
<1>4. CASE target[c] > Version
  <2>1. \A o \in Objects : View(c)[o] = Migrated(Version)[o]
    BY <1>1, <1>2, <1>4, MigratedIs, Scripts DEF View
  <2> QED
    BY <1>2, <1>3, <1>4, <2>1
<1>5. CASE target[c] = Version
  <2>1. Version - 1 \in 0..2 /\ Version > 0
    BY <1>1, <1>2, <1>5
  <2>2. \A o \in Objects : View(c)[o] = Migrated(Version - 1)[o]
    BY <1>1, <1>2, <1>5, <2>1, MigratedIs, Scripts DEF View
  <2> QED
    BY <1>3, <1>5, <2>1, <2>2
<1> QED
  BY <1>1, <1>2, <1>4, <1>5

\* The rows of the version table say so too.  From here on IInv is the
\* hypothesis: what a step leaves depends on all of it.
LEMMA NextDatabase ==
  ASSUME IInv, Next, ~mixed'
  PROVE  /\ catalog' = Migrated(Version') /\ VersionsInOrder' /\ VersionRows'
         /\ \/ UNCHANGED Version
            \/ \E c \in Commands : Commit(c) /\ cmd[c] = "up" /\ Version' = Version + 1
            \/ \E c \in Commands : Commit(c) /\ cmd[c] = "down" /\ Version' = Version - 1
<1> PICK c \in Commands :
      \/ \E command \in {"up", "down", "status"} : Start(c, command)
      \/ EnsureDBVersion(c) \/ CreateVersionTable(c) \/ NextMigration(c)
      \/ Create(c) \/ Drop(c) \/ Commit(c) \/ GiveUp(c) \/ ServerNotices(c)
  BY Handlers, Zenon
<1>1. /\ ~mixed /\ catalog = Migrated(Version) /\ rows \in Seq(0..Deleted)
      /\ Version \in 0..2 /\ Types /\ Stage /\ Table /\ SchemaMatchesVersion /\ UpInTx /\ DownInTx
      /\ \A i, j \in DOMAIN rows :
           i < j /\ rows[i] # Deleted /\ rows[j] # Deleted => rows[i] < rows[j]
  <2>1. ~mixed
    BY DEF Start, EnsureDBVersion, CreateVersionTable, NextMigration, Create, Drop, Commit,
           GiveUp, ServerNotices
  <2> QED
    BY <2>1, VersionType, Scripts
    DEF IInv, Table, SchemaMatchesVersion, VersionsInOrder, Version
<1>0. \A i \in DOMAIN rows : rows[i] \in 0..3 /\ i \in Int
  BY <1>1, Scripts, ElementOfSeq, LenProperties
<1>2. rows # <<>> => \E k \in DOMAIN rows :
        /\ rows[k] = Version /\ rows[k] # Deleted
        /\ \A j \in DOMAIN rows : j > k => rows[j] = Deleted
  BY <1>1, VersionType DEF IInv, VersionRows, Version
<1>3. rows # <<>> => \A v \in 0..Version : \E i \in DOMAIN rows : rows[i] = v
  BY <1>1 DEF IInv, VersionRows
<1>4. CASE UNCHANGED database
  BY <1>1, <1>4 DEF IInv, database, Version, VersionsInOrder, VersionRows
<1>5. CASE rows = <<>> /\ rows' = <<0>> /\ UNCHANGED catalog
  <2>1. Version = 0
    BY <1>5, VersionType, <1>1 DEF Version
  <2>2. rows' = Append(rows, 0) /\ 0 \in 0..Latest
    BY <1>5, Scripts
  <2>3. LastRows(rows') # {} /\ Version' = 0
    BY <1>1, <2>2, VersionAppended, Zenon DEF Version
  <2>4. DOMAIN rows' = {1} /\ rows'[1] = 0
    BY <1>5
  <2> QED
    BY <1>1, <1>5, <2>1, <2>3, <2>4 DEF VersionsInOrder, VersionRows
<1>6. CASE Commit(c) /\ cmd[c] = "up"
  <2>1. target[c] = Version + 1 /\ catalog' = Migrated(Version + 1)
    BY <1>1, <1>6, UpCommits DEF Commit
  <2>2. target[c] \in 0..Latest /\ rows # <<>>
    BY <1>6 DEF Commit, IInv, Stage, Table
  <2>3. /\ LastRows(rows') # {} /\ Version' = Version + 1
        /\ Len(rows') = Len(rows) + 1 /\ rows'[Len(rows) + 1] = Version + 1
        /\ \A i \in DOMAIN rows : rows'[i] = rows[i]
        /\ rows' \in Seq(0..Deleted)
    BY <1>1, <1>6, <2>1, <2>2, VersionAppended DEF Commit, Version
  <2>4. DOMAIN rows = 1..Len(rows) /\ DOMAIN rows' = 1..(Len(rows) + 1) /\ Len(rows) \in Nat
    BY <1>1, <2>3
  <2>5. ASSUME NEW i \in DOMAIN rows, rows[i] # Deleted PROVE rows[i] <= Version
    <3>1. PICK k \in DOMAIN rows : /\ rows[k] = Version /\ rows[k] # Deleted
                                   /\ \A j \in DOMAIN rows : j > k => rows[j] = Deleted
      BY <1>2, <2>2
    <3>2. i < k \/ i = k
      BY <2>4, <2>5, <3>1
    <3>3. rows[i] \in Int
      BY <1>0
    <3> QED
      BY <1>1, <2>5, <3>1, <3>2, <3>3
  <2>6. VersionsInOrder'
    <3> SUFFICES ASSUME NEW i \in DOMAIN rows', NEW j \in DOMAIN rows', i < j,
                        rows'[i] # Deleted, rows'[j] # Deleted
                 PROVE  rows'[i] < rows'[j]
      BY DEF VersionsInOrder
    <3>1. i \in DOMAIN rows
      BY <2>4
    <3>2. CASE j \in DOMAIN rows
      BY <1>1, <2>3, <3>1, <3>2
    <3>3. CASE j = Len(rows) + 1
      <4>1. rows[i] <= Version /\ rows[i] \in Int
        BY <1>0, <2>3, <2>5, <3>1
      <4> QED
        BY <1>1, <2>3, <3>1, <3>3, <4>1
    <3> QED
      BY <2>4, <3>2, <3>3
  <2>7. VersionRows'
    <3> SUFFICES ASSUME NEW v \in 0..Version' PROVE \E i \in DOMAIN rows' : rows'[i] = v
      BY <2>3 DEF VersionRows
    <3>1. CASE v = Version + 1
      BY <2>3, <2>4, <3>1
    <3>2. CASE v \in 0..Version
      BY <1>3, <2>2, <2>3, <2>4, <3>2
    <3> QED
      BY <1>1, <2>3, <3>1, <3>2
  <2> QED
    BY <1>6, <2>1, <2>3, <2>6, <2>7
<1>7. CASE Commit(c) /\ cmd[c] = "down"
  <2>1. \/ target[c] > Version /\ catalog' = Migrated(Version)
        \/ Version > 0 /\ target[c] = Version /\ catalog' = Migrated(Version - 1)
    BY <1>1, <1>7, DownCommits DEF Commit
  <2>2. /\ rows # <<>> /\ rows' = ReplaceAll(rows, target[c], Deleted)
        /\ target[c] \in 1..2
    BY <1>7, Scripts DEF Commit, IInv, Stage, Table
  <2>3. /\ rows' \in Seq(0..Deleted) /\ DOMAIN rows' = DOMAIN rows
        /\ \A i \in DOMAIN rows : rows'[i] = IF rows[i] = target[c] THEN Deleted ELSE rows[i]
    BY <1>1, <2>2, RowsDeleted, LenProperties
  <2>4. rows' # <<>>
    BY <2>2, <2>3
  <2>5. PICK k \in DOMAIN rows : /\ rows[k] = Version /\ rows[k] # Deleted
                                 /\ \A j \in DOMAIN rows : j > k => rows[j] = Deleted
    BY <1>2, <2>2
  <2>6. \A i \in DOMAIN rows : rows[i] \in 0..3 /\ i \in Int
    BY <1>0
  <2>7. \A i \in DOMAIN rows : rows[i] # Deleted => rows[i] <= Version
    BY <1>1, <2>5, <2>6
  <2>8. VersionsInOrder'
    BY <1>1, <2>3 DEF VersionsInOrder
  <2>9. PICK n \in DOMAIN rows : /\ rows[n] = IF target[c] > Version THEN Version ELSE Version - 1
                                 /\ rows'[n] = rows[n]
    <3>1. CASE target[c] > Version
      BY <2>3, <2>5, <3>1, <1>1, <2>2
    <3>2. CASE Version > 0 /\ target[c] = Version
      <4>1. Version - 1 \in 0..Version
        BY <1>1, <3>2
      <4>2. PICK n \in DOMAIN rows : rows[n] = Version - 1
        BY <1>3, <2>2, <4>1
      <4> QED
        BY <1>1, <2>3, <3>2, <4>2
    <3> QED
      BY <2>1, <3>1, <3>2
  <2>10. rows'[n] # Deleted /\ \A j \in DOMAIN rows' : j > n => rows'[j] = Deleted
    <3>1. rows'[n] # Deleted
      BY <1>1, <2>1, <2>9, Scripts
    <3>2. ASSUME NEW j \in DOMAIN rows, j > n, rows'[j] # Deleted PROVE FALSE
      <4>1. rows[j] # Deleted /\ rows[j] # target[c]
        BY <2>3, <3>2
      <4>2. rows[n] < rows[j] /\ rows[j] <= Version
        BY <1>1, <2>6, <2>7, <2>9, <3>1, <3>2, <4>1
      <4> QED
        BY <1>1, <2>1, <2>2, <2>6, <2>9, <4>1, <4>2
    <3> QED
      BY <2>3, <3>1, <3>2
  <2>11. LastRows(rows') # {} /\ Version' = rows'[n]
    BY <2>3, <2>10, VersionIs DEF Version
  <2>12. VersionRows'
    <3> SUFFICES ASSUME NEW v \in 0..Version' PROVE \E i \in DOMAIN rows' : rows'[i] = v
      BY <2>11 DEF VersionRows
    <3>1. v \in 0..Version /\ v # target[c]
      BY <1>1, <2>1, <2>2, <2>9, <2>11
    <3>2. PICK i \in DOMAIN rows : rows[i] = v
      BY <1>3, <2>2, <3>1
    <3> QED
      BY <2>3, <3>1, <3>2
  <2> QED
    BY <1>1, <1>7, <2>1, <2>8, <2>9, <2>11, <2>12
<1>8. CASE Commit(c)
  BY <1>6, <1>7, <1>8 DEF Commit, IInv, Stage
<1>9. CASE CreateVersionTable(c)
  BY <1>4, <1>5, <1>9 DEF CreateVersionTable, database
<1> QED
  BY <1>4, <1>8, <1>9
  DEF Start, EnsureDBVersion, NextMigration, Create, Drop, GiveUp, ServerNotices, database

\* A drop meets no table that needs its object, so that it damages nothing.
LEMMA DropDamagesNothing ==
  ASSUME IInv, ~mixed, NEW c \in Commands, Drop(c)
  PROVE  {u \in Objects : Script(c)[step[c]] \in Needs(u) /\ View(c)[u] # "absent"} = {}
<1>1. /\ pc[c] = "tx" /\ cmd[c] = "down" /\ step[c] \in 1..2 /\ target[c] \in 1..2
      /\ Types /\ Stage
  BY DropStep, Scripts DEF IInv, Stage
<1>2. /\ Version \in 0..2 /\ catalog = Migrated(Version) /\ Version <= target[c]
      /\ \A o \in Objects : mine[c][o] # "same" =>
           mine[c][o] = "absent" /\ catalog[o] = "whole" /\ o \in Executed(c)
      /\ \A o \in Executed(c) : mine[c][o] = "absent" \/ catalog[o] = "absent"
  <2>1. Version \in 0..2
    BY VersionType, Scripts DEF IInv, Table, Version
  <2> QED
    BY <1>1, <2>1, Zenon DEF IInv, DownInTx, SchemaMatchesVersion
<1>3. Script(c)[step[c]] # "tables" => View(c)["tables"] = "absent"
  <2>1. CASE target[c] = 1
    BY <1>2, <2>1, MigratedIs, Scripts DEF View
  <2>2. CASE target[c] = 2
    <3>1. step[c] = 1 => Script(c)[step[c]] = "tables"
      BY <1>1, <2>2 DEF Script, DownScript
    <3>2. step[c] = 2 => "tables" \in Executed(c)
      <4>1. Script(c)[1] = "tables"
        BY <1>1, <2>2 DEF Script, DownScript
      <4> QED
        BY <1>1, <4>1, ExecutedObjects
    <3> QED
      BY <1>1, <1>2, <3>1, <3>2, Scripts DEF View
  <2> QED
    BY <1>1, <2>1, <2>2
<1> QED
  BY <1>3 DEF Needs

LEMMA NextInTx ==
  ASSUME IInv, Next
  PROVE  UpInTx' /\ DownInTx'
<1> SUFFICES ASSUME ~mixed' PROVE UpInTx' /\ DownInTx'
  BY DEF UpInTx, DownInTx
<1> PICK c \in Commands :
      \/ \E command \in {"up", "down", "status"} : Start(c, command)
      \/ EnsureDBVersion(c) \/ CreateVersionTable(c) \/ NextMigration(c)
      \/ Create(c) \/ Drop(c) \/ Commit(c) \/ GiveUp(c) \/ ServerNotices(c)
  BY Handlers, Zenon
<1>1. ~mixed /\ Types /\ Stage /\ Table /\ Exclusive /\ OneWay /\ UpInTx /\ DownInTx
  <2>1. ~mixed
    BY DEF Start, EnsureDBVersion, CreateVersionTable, NextMigration, Create, Drop, Commit,
           GiveUp, ServerNotices
  <2> QED
    BY <2>1 DEF IInv
<1>2. Version \in 0..2 /\ catalog = Migrated(Version)
  BY <1>1, VersionType, Scripts DEF IInv, Table, Version, SchemaMatchesVersion
<1> DEFINE Up(d) == /\ target[d] <= Version + 1
                    /\ \A o \in Objects : mine[d][o] = IF o \in Executed(d) THEN "whole" ELSE "same"
                    /\ \A o \in Executed(d) : catalog[o] = "absent"
           Down(d) == /\ Version <= target[d]
                      /\ \A o \in Objects : mine[d][o] # "same" =>
                           mine[d][o] = "absent" /\ catalog[o] = "whole" /\ o \in Executed(d)
                      /\ \A o \in Executed(d) : mine[d][o] = "absent" \/ catalog[o] = "absent"
<1>3. /\ UNCHANGED database \/ CreateVersionTable(c) \/ Commit(c)
      /\ \A d \in Commands \ {c} : /\ pc'[d] = pc[d] /\ cmd'[d] = cmd[d] /\ target'[d] = target[d]
                                   /\ step'[d] = step[d] /\ mine'[d] = mine[d]
  <2>1. UNCHANGED database \/ CreateVersionTable(c) \/ Commit(c)
    BY DEF Start, EnsureDBVersion, NextMigration, Create, Drop, GiveUp, ServerNotices, database
  <2>2. \A d \in Commands \ {c} : pc'[d] = pc[d] /\ cmd'[d] = cmd[d]
    BY <1>1 DEF Types, Start, EnsureDBVersion, CreateVersionTable, NextMigration, Begin,
                Create, Drop, Commit, GiveUp, ServerNotices, Fail, Go
  <2>3. \A d \in Commands \ {c} : target'[d] = target[d] /\ step'[d] = step[d]
    BY <1>1 DEF Types, Start, EnsureDBVersion, CreateVersionTable, NextMigration, Begin,
                Create, Drop, Commit, GiveUp, ServerNotices, Fail
  <2>4. \A d \in Commands \ {c} : mine'[d] = mine[d]
    BY <1>1 DEF Types, Start, EnsureDBVersion, CreateVersionTable, NextMigration,
                Create, Drop, Commit, GiveUp, ServerNotices, Fail, Rollback, Touch
  <2> QED
    BY <2>1, <2>2, <2>3, <2>4
<1>4. ASSUME NEW d \in Commands \ {c}, pc[d] = "tx", NEW o \in Objects, mine[d][o] # "same"
      PROVE  catalog'[o] = catalog[o]
  <2>1. mine[c][o] = "same"
    BY <1>1, <1>4 DEF Exclusive
  <2>2. catalog' = catalog \/ catalog' = View(c)
    BY <1>3 DEF database, CreateVersionTable, Commit
  <2> QED
    BY <2>1, <2>2 DEF View
<1>5. ASSUME NEW d \in Commands \ {c}, pc'[d] = "tx", cmd'[d] = "up"
      PROVE  Up(d)'
  <2>1. pc[d] = "tx" /\ cmd[d] = "up" /\ Executed(d)' = Executed(d) /\ Up(d)
    BY <1>1, <1>3, <1>5, ExecutedSame DEF UpInTx
  <2>2. ~(Active(c) /\ cmd[c] = "down")
    BY <1>1, <2>1 DEF OneWay, Active
  <2>3. Version <= Version'
    <3>1. ASSUME NEW e \in Commands, Commit(e), cmd[e] = "down" PROVE FALSE
      BY <1>1, <2>1, <3>1 DEF OneWay, Active, Commit
    <3> QED
      BY <1>2, <3>1, NextDatabase
  <2>4. Version' \in Int
    BY <1>2, NextDatabase
  <2>5. target'[d] <= Version' + 1
    BY <1>1, <1>2, <1>3, <2>1, <2>3, <2>4 DEF Types
  <2>6. \A o \in Executed(d) : catalog'[o] = "absent"
    <3> SUFFICES ASSUME NEW o \in Executed(d) PROVE catalog'[o] = "absent"
      OBVIOUS
    <3>1. o \in Objects
      BY <1>1, <2>1, ExecutedObjects, Scripts DEF Stage
    <3> QED
      BY <1>4, <2>1, <3>1
  <2> QED
    BY <1>3, <2>1, <2>5, <2>6
<1>6. ASSUME NEW d \in Commands \ {c}, pc'[d] = "tx", cmd'[d] = "down"
      PROVE  Down(d)'
  <2>1. pc[d] = "tx" /\ cmd[d] = "down" /\ Executed(d)' = Executed(d) /\ Down(d)
    BY <1>1, <1>3, <1>6, ExecutedSame DEF DownInTx
  <2>2. \A e \in Commands : ~(Active(e) /\ cmd[e] = "up")
    BY <1>1, <2>1 DEF OneWay, Active
  <2>3. Version' <= Version
    <3>1. ASSUME NEW e \in Commands, Commit(e), cmd[e] = "up" PROVE FALSE
      BY <2>2, <3>1 DEF Active, Commit
    <3> QED
      BY <1>2, <3>1, NextDatabase
  <2>4. Version' \in Int
    BY <1>2, NextDatabase
  <2>5. Version' <= target'[d]
    BY <1>1, <1>2, <1>3, <2>1, <2>3, <2>4 DEF Types
  <2>6. ASSUME NEW o \in Objects, catalog[o] = "absent" PROVE catalog'[o] = "absent"
    <3>1. CASE catalog' = catalog
      BY <2>6, <3>1
    <3>2. CASE Commit(c)
      <4>1. pc[c] = "tx" /\ cmd[c] = "down" /\ catalog' = View(c)
        BY <1>1, <2>2, <3>2 DEF Commit, Active, Stage
      <4>2. mine[c][o] = "same" \/ mine[c][o] = "absent"
        BY <1>1, <4>1 DEF DownInTx
      <4> QED
        BY <2>6, <4>1, <4>2 DEF View
    <3> QED
      BY <1>3, <3>1, <3>2 DEF database, CreateVersionTable
  <2>7. Executed(d) \subseteq Objects
    BY <1>1, <2>1, ExecutedObjects, Scripts DEF Stage
  <2> QED
    BY <1>3, <1>4, <2>1, <2>5, <2>6, <2>7
<1>7. CASE NextMigration(c)
  <2>1. ASSUME pc'[c] = "tx"
        PROVE  /\ step'[c] = 1 /\ pc[c] = "next"
               /\ \/ cmd[c] = "up" /\ target'[c] = Version + 1
                  \/ cmd[c] = "down" /\ target'[c] = Version
    BY <1>1, <1>7, <2>1 DEF NextMigration, Begin, Go, Types
  <2>2. /\ UNCHANGED <<catalog, rows, cmd, mine>> /\ Version' = Version
    BY <1>7 DEF NextMigration, database, Version
  <2>3. pc'[c] = "tx" => Executed(c)' = {} /\ \A o \in Objects : mine'[c][o] = "same"
    BY <1>1, <2>1, <2>2, ExecutedNone DEF Stage
  <2> QED
    BY <1>2, <1>5, <1>6, <2>1, <2>2, <2>3 DEF UpInTx, DownInTx
<1>8. CASE Create(c)
  <2> DEFINE o == Script(c)[step[c]]
  <2>1. /\ pc[c] = "tx" /\ cmd[c] = "up" /\ step[c] \in 1..2 /\ o \in Objects
        /\ UNCHANGED <<catalog, rows, cmd, target, mixed>>
        /\ \/ Fail(c)
           \/ /\ View(c)[o] = "absent"
              /\ Touch(c, {o}, [x \in Objects |-> "whole"])
              /\ step' = [step EXCEPT ![c] = @ + 1] /\ UNCHANGED pc
    BY <1>1, <1>8, CreateStep
  <2>2. CASE Fail(c)
    <3>1. pc'[c] = "failed"
      BY <1>1, <2>2 DEF Fail, Go, Types
    <3> QED
      BY <1>5, <1>6, <3>1 DEF UpInTx, DownInTx
  <2>3. CASE /\ View(c)[o] = "absent"
             /\ Touch(c, {o}, [x \in Objects |-> "whole"])
             /\ step' = [step EXCEPT ![c] = @ + 1]
    <3>1. Up(c) /\ o \notin Executed(c) /\ Version' = Version
      BY <1>1, <2>1, ExecutedObjects DEF UpInTx, Version
    <3>2. catalog[o] = "absent"
      BY <2>1, <2>3, <3>1 DEF View
    <3>3. Executed(c)' = Executed(c) \cup {o}
      <4>1. Script(c)' = Script(c) /\ step'[c] = step[c] + 1
        BY <1>1, <2>1, <2>3 DEF Script, Types
      <4> QED
        BY <2>1, <4>1, ExecutedOneMore
    <3>4. \A x \in Objects : mine'[c][x] = IF x = o THEN "whole" ELSE mine[c][x]
      BY <1>1, <2>3, Touched
    <3>5. Up(c)'
      BY <2>1, <3>1, <3>2, <3>3, <3>4
    <3> QED
      BY <1>5, <1>6, <2>1, <3>5 DEF UpInTx, DownInTx
  <2> QED
    BY <2>1, <2>2, <2>3
<1>9. CASE Drop(c)
  <2> DEFINE o == Script(c)[step[c]]
             hit == IF View(c)[o] = "absent" THEN {} ELSE {o}
  <2>1. /\ pc[c] = "tx" /\ cmd[c] = "down" /\ step[c] \in 1..2 /\ o \in Objects
        /\ UNCHANGED <<catalog, rows, cmd, target, mixed>>
        /\ \/ Fail(c)
           \/ /\ Touch(c, hit, [x \in Objects |-> IF x = o THEN "absent" ELSE "damaged"])
              /\ step' = [step EXCEPT ![c] = @ + 1] /\ UNCHANGED pc
    <3>1. {u \in Objects : o \in Needs(u) /\ View(c)[u] # "absent"} = {}
      BY <1>1, <1>9, DropDamagesNothing
    <3>2. hit = IF View(c)[o] = "absent" THEN {}
                ELSE {o} \cup {u \in Objects : o \in Needs(u) /\ View(c)[u] # "absent"}
      BY <3>1
    <3> HIDE DEF hit
    <3> QED
      BY <1>1, <1>9, <3>2, DropStep
  <2>2. CASE Fail(c)
    <3>1. pc'[c] = "failed"
      BY <1>1, <2>2 DEF Fail, Go, Types
    <3> QED
      BY <1>5, <1>6, <3>1 DEF UpInTx, DownInTx
  <2>3. CASE /\ Touch(c, hit, [x \in Objects |-> IF x = o THEN "absent" ELSE "damaged"])
             /\ step' = [step EXCEPT ![c] = @ + 1]
    <3>1. Down(c) /\ o \notin Executed(c) /\ Version' = Version
      BY <1>1, <2>1, ExecutedObjects DEF DownInTx, Version
    <3>2. mine[c][o] = "same" /\ View(c)[o] = catalog[o] /\ catalog[o] \in {"absent", "whole"}
      BY <1>2, <2>1, <3>1 DEF View, Migrated
    <3>3. Executed(c)' = Executed(c) \cup {o}
      <4>1. Script(c)' = Script(c) /\ step'[c] = step[c] + 1
        BY <1>1, <2>1, <2>3 DEF Script, Types
      <4> QED
        BY <2>1, <4>1, ExecutedOneMore
    <3>4. \A x \in Objects : mine'[c][x] = IF x \in hit THEN "absent" ELSE mine[c][x]
      <4> DEFINE dropped == [x \in Objects |-> IF x = o THEN "absent" ELSE "damaged"]
      <4>1. \A x \in Objects : mine'[c][x] = IF x \in hit THEN dropped[x] ELSE mine[c][x]
        <5>1. dropped \in [Objects -> {"absent", "whole", "damaged"}]
          OBVIOUS
        <5> HIDE DEF dropped, hit
        <5> QED
          BY <1>1, <2>3, <5>1, Touched DEF dropped
      <4>2. \A x \in Objects : x \in hit => dropped[x] = "absent"
        OBVIOUS
      <4> QED
        BY <4>1, <4>2
    <3>5. Down(c)'
      <4>1. Version' <= target'[c]
        BY <2>1, <3>1
      <4>2. ASSUME NEW x \in Objects, mine'[c][x] # "same"
            PROVE  mine'[c][x] = "absent" /\ catalog'[x] = "whole" /\ x \in Executed(c)'
        <5>1. CASE x = o
          BY <2>1, <3>2, <3>3, <3>4, <4>2, <5>1
        <5>2. CASE x # o
          BY <2>1, <3>1, <3>3, <3>4, <4>2, <5>2
        <5> QED
          BY <5>1, <5>2
      <4>3. ASSUME NEW x \in Executed(c)' PROVE mine'[c][x] = "absent" \/ catalog'[x] = "absent"
        <5>1. CASE x = o
          BY <2>1, <3>2, <3>4, <5>1
        <5>2. CASE x \in Executed(c)
          <6>1. x \in Objects /\ x # o
            BY <1>1, <2>1, <3>1, <5>2, ExecutedObjects, Scripts DEF Stage
          <6> QED
            BY <2>1, <3>1, <3>4, <5>2, <6>1
        <5> QED
          BY <3>3, <4>3, <5>1, <5>2
      <4> QED
        BY <4>1, <4>2, <4>3
    <3> QED
      BY <1>5, <1>6, <2>1, <3>5 DEF UpInTx, DownInTx
  <2> QED
    BY <2>1, <2>2, <2>3
<1>10. ASSUME pc'[c] # "tx" PROVE UpInTx' /\ DownInTx'
  BY <1>5, <1>6, <1>10 DEF UpInTx, DownInTx
<1>11. CASE \/ \E command \in {"up", "down", "status"} : Start(c, command)
            \/ EnsureDBVersion(c) \/ CreateVersionTable(c) \/ Commit(c)
            \/ GiveUp(c) \/ ServerNotices(c)
  <2>1. pc'[c] # "tx"
    BY <1>1, <1>11
    DEF Types, Start, EnsureDBVersion, CreateVersionTable, Commit, GiveUp, ServerNotices, Fail, Go
  <2> QED
    BY <1>10, <2>1
<1> QED
  BY <1>7, <1>8, <1>9, <1>11
-------------------------------------------------------------------------------
LEMMA NextUpReaches ==
  ASSUME IInv, Next
  PROVE  UpReachesLatest'
<1> SUFFICES ASSUME \A d \in Commands : cmd'[d] # "down", NEW a \in Commands,
                    pc'[a] = "ok", cmd'[a] = "up"
             PROVE  Version' = Latest
  BY DEF UpReachesLatest
<1> PICK c \in Commands :
      \/ \E command \in {"up", "down", "status"} : Start(c, command)
      \/ EnsureDBVersion(c) \/ CreateVersionTable(c) \/ NextMigration(c)
      \/ Create(c) \/ Drop(c) \/ Commit(c) \/ GiveUp(c) \/ ServerNotices(c)
  BY Handlers, Zenon
<1>1. Types /\ Stage /\ Table /\ OneWay /\ Types' /\ Table' /\ OneWay'
  BY NextStage, NextTable, NextOneWay DEF IInv
<1>2. \A d \in Commands : cmd[d] # "down" /\ (cmd'[d] # cmd[d] => pc[d] = "none" /\ pc'[d] # "ok")
  <2>1. CASE UNCHANGED cmd
    BY <2>1
  <2>2. ASSUME NEW command \in {"up", "down", "status"}, Start(c, command)
        PROVE  \A d \in Commands :
                 cmd[d] # "down" /\ (cmd'[d] # cmd[d] => pc[d] = "none" /\ pc'[d] # "ok")
    <3>1. cmd[c] = "none" /\ pc[c] = "none" /\ pc'[c] = "ensure"
      BY <1>1, <2>2 DEF Start, Go, Stage, Types
    <3>2. \A d \in Commands \ {c} : cmd'[d] = cmd[d]
      BY <1>1, <2>2 DEF Start, Types
    <3> QED
      BY <3>1, <3>2
  <2> QED
    BY <2>1, <2>2
    DEF EnsureDBVersion, CreateVersionTable, NextMigration, Create, Drop, Commit, GiveUp,
        ServerNotices
<1>3. ~mixed'
  BY <1>1 DEF OneWay
<1>4. Version' = Version \/ Version' = Version + 1
  BY <1>2, <1>3, NextDatabase
<1>5. Latest = 2 /\ Version \in 0..2 /\ Version' \in 0..2
  BY <1>1, VersionType, Scripts DEF Table, Version
<1>6. CASE pc[a] = "ok"
  <2>1. Version = Latest
    BY <1>2, <1>6 DEF IInv, UpReachesLatest
  <2> QED
    BY <1>4, <1>5, <2>1
<1>7. CASE pc[a] # "ok"
  <2>1. cmd[a] = "up"
    BY <1>2
  <2>2. a = c
    BY <1>1, <1>7
    DEF Types, Start, EnsureDBVersion, CreateVersionTable, NextMigration, Begin,
        Create, Drop, Commit, GiveUp, ServerNotices, Fail, Go
  <2>3. NextMigration(c) /\ Version = Latest
    <3>1. ~(EnsureDBVersion(c) \/ CreateVersionTable(c) \/ Create(c) \/ Drop(c)
              \/ Commit(c) \/ GiveUp(c) \/ ServerNotices(c))
      BY <1>1, <1>7, <2>1, <2>2
      DEF Types, EnsureDBVersion, CreateVersionTable, Create, Drop, Commit, GiveUp, ServerNotices,
          Fail, Go
    <3>2. \A command \in {"up", "down", "status"} : ~Start(c, command)
      BY <1>1, <2>2 DEF Types, Start, Go
    <3>3. NextMigration(c)
      BY <3>1, <3>2
    <3> QED
      BY <1>1, <2>1, <2>2, <3>3 DEF Types, NextMigration, Begin, Go
  <2> QED
    BY <2>3 DEF NextMigration, database, Version
<1> QED
  BY <1>6, <1>7

LEMMA InitIInv == Init => IInv
<1> SUFFICES ASSUME Init PROVE IInv
  OBVIOUS
<1>1. PICK v \in 0..Latest : /\ catalog = Migrated(v)
                             /\ rows = [i \in 1..v + 1 |-> i - 1] \/ (v = 0 /\ rows = <<>>)
  BY DEF Init
<1>2. v \in 0..2
  BY Scripts
<1>3. Types
  <2>1. catalog \in [Objects -> {"absent", "whole", "damaged"}]
    BY <1>1 DEF Migrated
  <2>2. mine \in [Commands -> [Objects -> {"same", "absent", "whole", "damaged"}]]
    BY DEF Init
  <2>3. target \in [Commands -> 0..Latest] /\ step \in [Commands -> 1..3]
    <3>1. 0 \in 0..Latest /\ 1 \in 1..3
      BY Scripts
    <3>2. target = [c \in Commands |-> 0] /\ step = [c \in Commands |-> 1]
      BY DEF Init
    <3> QED
      BY <3>1, <3>2
  <2>4. /\ cmd \in [Commands -> {"none", "up", "down", "status"}]
        /\ pc \in [Commands -> {"none", "ensure", "create", "next", "tx", "ok", "failed"}]
        /\ mixed \in BOOLEAN
    BY DEF Init
  <2> QED
    BY <2>1, <2>2, <2>3, <2>4 DEF Types
<1>4. Stage /\ Exclusive /\ OneWay /\ UpInTx /\ DownInTx /\ UpReachesLatest
  <2>1. /\ \A c \in Commands : pc[c] = "none" /\ cmd[c] = "none"
        /\ \A c \in Commands : \A o \in Objects : mine[c][o] = "same"
        /\ mixed = FALSE
    BY DEF Init
  <2> QED
    BY <2>1 DEF Stage, Exclusive, OneWay, Active, UpInTx, DownInTx, UpReachesLatest
<1>5. Table /\ Version = v /\ VersionsInOrder /\ VersionRows
  <2>1. CASE rows = <<>> /\ v = 0
    <3>1. rows \in Seq(0..Deleted)
      BY <2>1
    <3>2. Version = 0
      BY <2>1, <3>1, VersionType DEF Version
    <3> QED
      BY <2>1, <3>1, <3>2 DEF Table, VersionsInOrder, VersionRows, Init
  <2>2. CASE rows = [i \in 1..v + 1 |-> i - 1]
    <3>1. rows \in Seq(0..Deleted) /\ DOMAIN rows = 1..v + 1 /\ rows[1] = 0
      <4>1. \A i \in 1..v + 1 : i - 1 \in 0..Deleted
        BY <1>2, Scripts
      <4>2. v + 1 \in Nat
        BY <1>2
      <4>3. rows \in Seq(0..Deleted)
        BY <2>2, <4>1, <4>2, IsASeq
      <4> QED
        BY <1>2, <2>2, <4>3
    <3>2. v + 1 \in DOMAIN rows /\ rows[v + 1] = v /\ v # Deleted
      BY <1>2, <2>2, Scripts
    <3>3. \A j \in DOMAIN rows : ~(j > v + 1)
      BY <1>2, <3>1
    <3>4. LastRows(rows) # {} /\ Version = v
      BY <3>1, <3>2, <3>3, VersionIs DEF Version
    <3>5. VersionsInOrder
      BY <1>2, <2>2, <3>1 DEF VersionsInOrder
    <3>6. VersionRows
      <4>1. ASSUME NEW w \in 0..v PROVE w + 1 \in DOMAIN rows /\ rows[w + 1] = w
        BY <1>2, <2>2, <3>1
      <4> QED
        BY <3>4, <4>1 DEF VersionRows
    <3> QED
      BY <3>1, <3>4, <3>5, <3>6 DEF Table, Init
  <2> QED
    BY <1>1, <2>1, <2>2
<1> QED
  BY <1>1, <1>3, <1>4, <1>5 DEF IInv, SchemaMatchesVersion

LEMMA NextIInv == IInv /\ [Next]_vars => IInv'
<1> SUFFICES ASSUME IInv, [Next]_vars PROVE IInv'
  OBVIOUS
<1>1. CASE Next
  <2>1. Types' /\ Stage' /\ Table' /\ Exclusive' /\ OneWay'
    BY <1>1, NextStage, NextTable, NextExclusive, NextOneWay DEF IInv
  <2>2. SchemaMatchesVersion' /\ VersionsInOrder' /\ VersionRows'
    BY <1>1, NextDatabase DEF SchemaMatchesVersion, VersionsInOrder, VersionRows
  <2>3. UpInTx' /\ DownInTx' /\ UpReachesLatest'
    BY <1>1, NextInTx, NextUpReaches
  <2> QED
    BY <2>1, <2>2, <2>3 DEF IInv
<1>2. CASE UNCHANGED vars
  <2>1. Types' /\ Stage' /\ Table' /\ Exclusive' /\ OneWay'
    BY <1>2 DEF vars, IInv, Types, Stage, Table, Exclusive, OneWay, Active
  <2>2. SchemaMatchesVersion' /\ VersionsInOrder' /\ VersionRows' /\ UpReachesLatest'
    BY <1>2 DEF vars, IInv, SchemaMatchesVersion, VersionsInOrder, VersionRows,
                UpReachesLatest, Version
  <2>3. UpInTx' /\ DownInTx'
    BY <1>2 DEF vars, IInv, UpInTx, DownInTx, Version, Executed, Script
  <2> QED
    BY <2>1, <2>2, <2>3 DEF IInv
<1> QED
  BY <1>1, <1>2

\* What the four theorems below rest on.
THEOREM Inductive == Spec => []IInv
BY InitIInv, NextIInv, PTL DEF Spec

\* A command that has succeeded leaves nothing in a transaction, and the first
\* row of the version table stays, whatever fails.
THEOREM TypeCorrect == Spec => []TypeOK
<1>1. IInv => TypeOK
  BY DEF IInv, Types, Stage, Table, TypeOK
<1> QED
  BY Inductive, <1>1, PTL

\* The version says what the schema is as long as ups and downs do not mix.
THEOREM SchemaVersion == Spec => []SchemaMatchesVersion
<1>1. IInv => SchemaMatchesVersion
  BY DEF IInv
<1> QED
  BY Inductive, <1>1, PTL

\* No version is recorded twice, or below an earlier one.
THEOREM VersionsOrdered == Spec => []VersionsInOrder
<1>1. IInv => VersionsInOrder
  BY DEF IInv
<1> QED
  BY Inductive, <1>1, PTL

\* An up that succeeds leaves the latest version, whoever else goes up.
THEOREM UpLatest == Spec => []UpReachesLatest
<1>1. IInv => UpReachesLatest
  BY DEF IInv
<1> QED
  BY Inductive, <1>1, PTL

\* A command moves the version by one migration, the next one or the last one,
\* though it may have picked it before others moved the version.
THEOREM ByOne == Spec => OneMigrationAtATime
<1>1. IInv /\ [Next]_vars => [~mixed' => \E c \in Commands :
        pc[c] = "tx" /\ Version' = IF cmd[c] = "up" THEN Version + 1 ELSE Version - 1]_Version
  <2> SUFFICES ASSUME IInv, [Next]_vars, ~mixed', Version' # Version
               PROVE  \E c \in Commands :
                        /\ pc[c] = "tx"
                        /\ Version' = IF cmd[c] = "up" THEN Version + 1 ELSE Version - 1
    OBVIOUS
  <2>1. Next
    BY DEF vars, database, Version
  <2> QED
    BY <2>1, NextDatabase DEF Commit
<1> QED
  BY <1>1, Inductive, PTL DEF Spec, OneMigrationAtATime
===============================================================================
