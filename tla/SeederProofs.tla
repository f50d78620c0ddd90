------------------------------ MODULE SeederProofs ------------------------------
(***************************************************************************)
(* Proofs about Seeder, for any number of runs and any rows left over.     *)
(***************************************************************************)
EXTENDS Seeder, SequenceTheorems, TLAPS

(* The inductive invariant.                                                *)

\* The row of an entry; a team keeps the id it had.
SeedAs(i, id) == Row(Seed[i].table, id, Seed[i].key, Seed[i].data)

Entry(R, i) ==
  \E r \in R : /\ r = SeedAs(i, r.id)
               /\ Seed[i].table # "teams" => r.id = Seed[i].id

Seeded(R) == \A i \in 1..Len(Seed) : Entry(R, i)

\* A run alone on these rows meets no conflict.
Smooth(R) == \A p \in 1..Len(Seed) : Accepted(After(R)[p - 1], Seed[p])

\* From its first statement to its end a run has the row of the first entry
\* locked: all others wait with their first statement.
Locked ==
  /\ DOMAIN mine = Seeders
  /\ \A s \in Seeders :
       /\ pc[s] = "none" => pos[s] = 1
       /\ mine[s] # {} => pc[s] = "tx" /\ pos[s] > 1
       /\ pc[s] = "tx" /\ pos[s] > 1 => \E m \in mine[s] : SameRow(m, Seed[1])

OneWriter == \A s, t \in Seeders : s # t /\ mine[s] # {} => mine[t] = {}

\* A run sees the rows as if it had been alone since it wrote the first one.
AsIfAlone ==
  \A s \in Seeders : pc[s] = "tx" =>
    /\ Legal(View(s)) /\ View(s) = After(db)[pos[s] - 1]
    /\ \A p \in 1..(pos[s] - 1) : Accepted(After(db)[p - 1], Seed[p]) /\ Entry(View(s), p)

\* What a success says of the rows holds for good; so does what a conflict says.
Ends ==
  /\ (\E s \in Seeders : Committed(s)) => Seeded(db)
  /\ (\E s \in Seeders : pc[s] = "conflict") => ~Smooth(db)

IInv == TypeOK /\ Locked /\ OneWriter /\ AsIfAlone /\ Ends

-------------------------------------------------------------------------------
(* The seed, written out.                                                  *)

LEMMA SeedIs ==
  /\ Len(Seed) = 7
  /\ Seed[1] = Row("users", "owner", "owner@example.com", "seed")
  /\ Seed[2] = Row("users", "admin", "admin@example.com", "seed")
  /\ Seed[3] = Row("users", "member", "member@example.com", "seed")
  /\ Seed[4] = Row("teams", "a36ee216", "platform", "seed")
  /\ Seed[5] = Row("teams", "c48302d9", "operations", "seed")
  /\ Seed[6] = Row("team_memberships", "adminOfOps", <<"c48302d9", "admin">>, "seed")
  /\ Seed[7] = Row("team_memberships", "memberOfOps", <<"c48302d9", "member">>, "seed")
<1> DEFINE S == {SeedUsers[i] : i \in 1..3} \cup {SeedTeams[i] : i \in 1..2}
                  \cup {SeedMemberships[i] : i \in 1..2}
<1>1. Len(SeedUsers) = 3 /\ Len(SeedTeams) = 2 /\ Len(SeedMemberships) = 2
  BY DEF SeedUsers, SeedTeams, SeedMemberships
<1>2. /\ SeedUsers = [i \in 1..3 |-> SeedUsers[i]] /\ SeedTeams = [i \in 1..2 |-> SeedTeams[i]]
      /\ SeedMemberships = [i \in 1..2 |-> SeedMemberships[i]]
  BY DEF SeedUsers, SeedTeams, SeedMemberships
<1>3. SeedUsers \in Seq(S) /\ SeedTeams \in Seq(S) /\ SeedMemberships \in Seq(S)
  <2>1. \A n \in Nat : \A f : (\A i \in 1..n : f[i] \in S) => [i \in 1..n |-> f[i]] \in Seq(S)
    BY IsASeq
  <2> QED
    BY <1>2, <2>1
<1> HIDE DEF S
<1> DEFINE front == SeedUsers \o SeedTeams
<1>4. /\ front \in Seq(S) /\ Len(front) = 5
      /\ \A i \in 1..5 : front[i] = IF i <= 3 THEN SeedUsers[i] ELSE SeedTeams[i - 3]
  <2>1. /\ front \in Seq(S) /\ Len(front) = Len(SeedUsers) + Len(SeedTeams)
        /\ \A i \in 1..Len(SeedUsers) + Len(SeedTeams) :
             front[i] = IF i <= Len(SeedUsers) THEN SeedUsers[i] ELSE SeedTeams[i - Len(SeedUsers)]
    BY <1>3, ConcatProperties, Zenon
  <2> QED
    BY <1>1, <2>1
<1> HIDE DEF front
<1>5. /\ Len(Seed) = 7
      /\ \A i \in 1..7 : Seed[i] = IF i <= 5 THEN front[i] ELSE SeedMemberships[i - 5]
  <2>1. Seed = front \o SeedMemberships
    BY DEF Seed, front
  <2>2. /\ Len(Seed) = Len(front) + Len(SeedMemberships)
        /\ \A i \in 1..Len(front) + Len(SeedMemberships) :
             Seed[i] = IF i <= Len(front) THEN front[i] ELSE SeedMemberships[i - Len(front)]
    BY <1>3, <1>4, <2>1, ConcatProperties, Zenon
  <2> QED
    BY <1>1, <1>4, <2>2
<1>6. /\ Seed[1] = SeedUsers[1] /\ Seed[2] = SeedUsers[2] /\ Seed[3] = SeedUsers[3]
      /\ Seed[4] = SeedTeams[1] /\ Seed[5] = SeedTeams[2]
      /\ Seed[6] = SeedMemberships[1] /\ Seed[7] = SeedMemberships[2]
  BY <1>4, <1>5
<1> QED
  BY <1>5, <1>6 DEF SeedUsers, SeedTeams, SeedMemberships

\* No two entries of a table share an id or a key.
LEMMA SeedDistinct ==
  /\ \A i, p \in 1..7 : i # p /\ Seed[i].table = Seed[p].table =>
       Seed[i].id # Seed[p].id /\ Seed[i].key # Seed[p].key
  /\ \A i \in 1..7 : Seed[i] = Row(Seed[i].table, Seed[i].id, Seed[i].key, Seed[i].data)
<1>1. \A i \in 1..7 : Seed[i] = Row(Seed[i].table, Seed[i].id, Seed[i].key, Seed[i].data)
  BY SeedIs DEF Row
<1>2. \A i, p \in 1..7 : i # p /\ Seed[i].table = Seed[p].table => Seed[i].id # Seed[p].id
  BY SeedIs DEF Row
<1>3. \A i, p \in 1..7 : i # p /\ Seed[i].table = Seed[p].table => Seed[i].key # Seed[p].key
  BY SeedIs DEF Row
<1> QED
  BY <1>1, <1>2, <1>3

LEMMA AfterIs ==
  ASSUME NEW R
  PROVE  /\ After(R)[0] = R
         /\ \A p \in 1..7 : After(R)[p] = Upserted(After(R)[p - 1], Seed[p])
<1> DEFINE S1 == Upserted(R, Seed[1])
           S2 == Upserted(S1, Seed[2])
           S3 == Upserted(S2, Seed[3])
           S4 == Upserted(S3, Seed[4])
           S5 == Upserted(S4, Seed[5])
           S6 == Upserted(S5, Seed[6])
           S7 == Upserted(S6, Seed[7])
           g == [i \in 0..Len(Seed) |->
                   CASE i = 0 -> R [] i = 1 -> S1 [] i = 2 -> S2 [] i = 3 -> S3
                     [] i = 4 -> S4 [] i = 5 -> S5 [] i = 6 -> S6 [] i = 7 -> S7]
           Unfolds(f) == f = [i \in 0..Len(Seed) |->
                                IF i = 0 THEN R ELSE Upserted(f[i - 1], Seed[i])]
<1>1. Unfolds(g)
  BY SeedIs
<1>2. After(R) = CHOOSE f : Unfolds(f)
  BY DEF After
<1>3. Unfolds(After(R))
  <2> HIDE DEF Unfolds, g
  <2> QED
    BY <1>1, <1>2, Zenon
<1> QED
  BY <1>3, SeedIs
-------------------------------------------------------------------------------
(* Upserts.                                                                *)

LEMMA LegalUnique ==
  ASSUME NEW R, Legal(R), NEW r \in R, NEW q \in R, r.table = q.table,
         r.id = q.id \/ r.key = q.key
  PROVE  r = q
BY DEF Legal

LEMMA SeedAsIs ==
  ASSUME NEW i \in 1..7, NEW x
  PROVE  /\ SeedAs(i, x).table = Seed[i].table /\ SeedAs(i, x).key = Seed[i].key
         /\ SeedAs(i, x).data = Seed[i].data /\ SeedAs(i, x).id = x
         /\ SeedAs(i, Seed[i].id) = Seed[i]
         /\ [Seed[i] EXCEPT !.id = x] = SeedAs(i, x)
<1> DEFINE t == Seed[i].table
           k == Seed[i].key
           d == Seed[i].data
<1>1. Seed[i] = [table |-> t, id |-> Seed[i].id, key |-> k, data |-> d]
  BY SeedDistinct DEF Row
<1>2. SeedAs(i, x) = [table |-> t, id |-> x, key |-> k, data |-> d]
  BY DEF SeedAs, Row
<1>3. SeedAs(i, Seed[i].id) = Seed[i]
  BY SeedDistinct, Zenon DEF SeedAs
<1> HIDE DEF t, k, d
<1>4. [Seed[i] EXCEPT !.id = x] = [table |-> t, id |-> x, key |-> k, data |-> d]
  <2> DEFINE z == Seed[i].id
  <2> HIDE DEF z
  <2>1. [[table |-> t, id |-> z, key |-> k, data |-> d] EXCEPT !.id = x]
          = [table |-> t, id |-> x, key |-> k, data |-> d]
    OBVIOUS
  <2> QED
    BY <1>1, <2>1 DEF z
<1> QED
  BY <1>2, <1>3, <1>4 DEF t, k, d

LEMMA WrittenIs ==
  ASSUME NEW R, NEW i \in 1..7
  PROVE  LET w == Written(R, Seed[i]) IN
         /\ w = SeedAs(i, w.id)
         /\ Seed[i].table # "teams" => w.id = Seed[i].id
         /\ w.table = Seed[i].table
         /\ Conflicting(R, Seed[i]) = {} => w = Seed[i]
         /\ Conflicting(R, Seed[i]) # {} => \E q \in Conflicting(R, Seed[i]) : w.id = q.id
<1> DEFINE w == Written(R, Seed[i])
           old == Conflicting(R, Seed[i])
<1>1. CASE old = {}
  <2>1. w = Seed[i]
    BY <1>1, Zenon DEF Written
  <2> QED
    BY <1>1, <2>1, SeedAsIs, Zenon
<1>2. CASE old # {}
  <2> DEFINE q == CHOOSE x \in old : TRUE
  <2>1. q \in old
    BY <1>2, Zenon
  <2>2. w = SeedAs(i, q.id)
    <3>1. w = [Seed[i] EXCEPT !.id = q.id]
      BY <1>2, Zenon DEF Written
    <3> QED
      BY <3>1, SeedAsIs, Zenon
  <2>3. Seed[i].table # "teams" => q.id = Seed[i].id
    BY <2>1 DEF Conflicting
  <2> HIDE DEF q, w
  <2>4. w.id = q.id /\ w.table = Seed[i].table
    BY <2>2, SeedAsIs
  <2> QED
    BY <1>2, <2>1, <2>2, <2>3, <2>4 DEF w
<1> QED
  BY <1>1, <1>2

\* The statement of an entry that has its row changes nothing.
LEMMA UpsertStays ==
  ASSUME NEW R, Legal(R), NEW i \in 1..7, Entry(R, i)
  PROVE  Upserted(R, Seed[i]) = R /\ Accepted(R, Seed[i])
<1>1. PICK e \in R : /\ e = SeedAs(i, e.id)
                     /\ Seed[i].table # "teams" => e.id = Seed[i].id
  BY DEF Entry
<1>2. e.table = Seed[i].table /\ e.key = Seed[i].key
  BY <1>1, SeedAsIs
<1>3. e \in Conflicting(R, Seed[i])
  BY <1>1, <1>2 DEF Conflicting
<1>4. \A q \in Conflicting(R, Seed[i]) : q = e
  <2> TAKE q \in Conflicting(R, Seed[i])
  <2>1. q \in R /\ q.table = e.table /\ (q.id = e.id \/ q.key = e.key)
    BY <1>1, <1>2 DEF Conflicting
  <2> QED
    BY <2>1, LegalUnique
<1>5. Conflicting(R, Seed[i]) = {e}
  BY <1>3, <1>4
<1>6. Written(R, Seed[i]) = e
  <2>1. Written(R, Seed[i]).id = e.id
    BY <1>5, WrittenIs
  <2>2. Written(R, Seed[i]) = SeedAs(i, e.id)
    BY <2>1, WrittenIs
  <2> QED
    BY <1>1, <2>2
<1>7. Upserted(R, Seed[i]) = R
  BY <1>5, <1>6 DEF Upserted
<1> QED
  BY <1>5, <1>6, <1>7 DEF Accepted

\* "Safe to run repeatedly".
LEMMA SeededSmooth ==
  ASSUME NEW R, Legal(R), Seeded(R)
  PROVE  Smooth(R)
<1>1. \A i \in 1..7 : Upserted(R, Seed[i]) = R /\ Accepted(R, Seed[i])
  BY UpsertStays, SeedIs DEF Seeded
<1>2. After(R)[0] = R /\ \A p \in 1..7 : After(R)[p] = Upserted(After(R)[p - 1], Seed[p])
  BY AfterIs
<1>3. /\ After(R)[1] = Upserted(After(R)[0], Seed[1])
      /\ After(R)[2] = Upserted(After(R)[1], Seed[2])
      /\ After(R)[3] = Upserted(After(R)[2], Seed[3])
      /\ After(R)[4] = Upserted(After(R)[3], Seed[4])
      /\ After(R)[5] = Upserted(After(R)[4], Seed[5])
      /\ After(R)[6] = Upserted(After(R)[5], Seed[6])
  BY <1>2
<1>4. \A p \in 0..6 : After(R)[p] = R
  BY <1>1, <1>2, <1>3
<1> QED
  BY <1>1, <1>4, SeedIs DEF Smooth

\* A statement makes its entry's row, and keeps those of the others.
LEMMA EntryMade ==
  ASSUME NEW R, NEW p \in 1..7
  PROVE  Entry(Upserted(R, Seed[p]), p)
BY WrittenIs DEF Entry, Upserted

LEMMA EntryKept ==
  ASSUME NEW R, NEW p \in 1..7, NEW i \in 1..7, i # p, Entry(R, i)
  PROVE  Entry(Upserted(R, Seed[p]), i)
<1>1. PICK e \in R : /\ e = SeedAs(i, e.id)
                     /\ Seed[i].table # "teams" => e.id = Seed[i].id
  BY DEF Entry
<1>2. e.table = Seed[i].table /\ e.key = Seed[i].key
  BY <1>1, SeedAsIs
<1>3. e \notin Conflicting(R, Seed[p])
  BY <1>1, <1>2, SeedDistinct DEF Conflicting
<1>4. e \in Upserted(R, Seed[p])
  BY <1>3 DEF Upserted
<1> QED
  BY <1>1, <1>4 DEF Entry

\* What a run sees after a statement is what it saw, upserted.
LEMMA UpsertSeen ==
  ASSUME NEW s \in Seeders, NEW p \in 1..7, Legal(View(s)), Accepted(View(s), Seed[p]),
         UNCHANGED db,
         mine'[s] = {m \in mine[s] : ~SameRow(m, Written(View(s), Seed[p]))}
                      \cup {Written(View(s), Seed[p])}
  PROVE  View(s)' = Upserted(View(s), Seed[p])
<1> DEFINE V == View(s)
           w == Written(V, Seed[p])
           K == Conflicting(V, Seed[p])
<1>1. V = {r \in db : ~\E m \in mine[s] : SameRow(m, r)} \cup mine[s]
  BY DEF View
<1>2. View(s)' = {r \in db : ~\E m \in mine'[s] : SameRow(m, r)} \cup mine'[s]
  BY DEF View
<1>3. K \subseteq V
  BY DEF Conflicting
<1> HIDE DEF V, w, K
<1>4. mine'[s] = {m \in mine[s] : ~SameRow(m, w)} \cup {w}
  BY DEF V, w
<1>5. View(s)' = {x \in V : ~SameRow(x, w)} \cup {w}
  BY <1>1, <1>2, <1>4 DEF SameRow
<1>6. ASSUME NEW x \in V PROVE SameRow(x, w) <=> x \in K
  <2>1. w.table = Seed[p].table
    BY WrittenIs DEF V, w
  <2>2. CASE K = {}
    <3>1. ASSUME SameRow(x, w) PROVE FALSE
      <4>1. x \in Upserted(V, Seed[p]) /\ w \in Upserted(V, Seed[p]) /\ Legal(Upserted(V, Seed[p]))
        BY <2>2 DEF Upserted, Accepted, V, w, K
      <4>2. x = w
        BY <3>1, <4>1, LegalUnique DEF SameRow
      <4>3. w \notin V
        BY <2>2 DEF Accepted, V, w, K
      <4> QED
        BY <4>2, <4>3
    <3> QED
      BY <2>2, <3>1
  <2>3. CASE K # {}
    <3>1. PICK q \in K : w.id = q.id
      BY <2>3, WrittenIs DEF V, w, K
    <3>2. q.table = Seed[p].table
      BY DEF Conflicting, K
    <3>3. \A y \in K : y = q
      <4> TAKE y \in K
      <4>1. y.table = q.table /\ (y.id = q.id \/ y.key = q.key)
        BY DEF Conflicting, K
      <4> QED
        BY <1>3, <4>1, LegalUnique DEF V
    <3>4. SameRow(x, w) => x = q
      BY <1>3, <2>1, <3>1, <3>2, LegalUnique DEF SameRow, V
    <3>5. SameRow(q, w)
      BY <2>1, <3>1, <3>2 DEF SameRow
    <3> QED
      BY <3>3, <3>4, <3>5
  <2> QED
    BY <2>2, <2>3
<1>7. Upserted(V, Seed[p]) = (V \ K) \cup {w}
  BY DEF Upserted, w, K
<1> QED
  BY <1>5, <1>6, <1>7 DEF V
-------------------------------------------------------------------------------
(* The steps.                                                              *)

LEMMA UpsertStep ==
  ASSUME TypeOK, Locked, NEW s \in Seeders, Upsert(s)
  PROVE  LET new == Written(View(s), Seed[pos[s]]) IN
         /\ pc[s] = "tx" /\ pos[s] \in 1..7 /\ UNCHANGED db /\ ~Waits(s, Seed[pos[s]])
         /\ \/ /\ ~Accepted(View(s), Seed[pos[s]]) /\ Exit(s, "conflict")
            \/ /\ Accepted(View(s), Seed[pos[s]])
               /\ mine' = [mine EXCEPT ![s] = {m \in mine[s] : ~SameRow(m, new)} \cup {new}]
               /\ pos' = [pos EXCEPT ![s] = @ + 1] /\ UNCHANGED pc
<1>1. pc[s] = "tx" /\ pos[s] \in 1..7 /\ UNCHANGED db /\ ~Waits(s, Seed[pos[s]])
  BY SeedIs DEF Upsert, Statement, TypeOK
<1>2. CASE ~Accepted(View(s), Seed[pos[s]])
  BY <1>1, <1>2, Zenon DEF Upsert, Statement
<1>3. CASE Accepted(View(s), Seed[pos[s]])
  BY <1>1, <1>3, Zenon DEF Upsert, Statement
<1> QED
  BY <1>1, <1>2, <1>3

\* The run that commits is through with the seed.
LEMMA CommitStep ==
  ASSUME TypeOK, NEW s \in Seeders, Commit(s)
  PROVE  /\ pc[s] = "tx" /\ pos[s] = 8 /\ db' = View(s)
         /\ Exit(s, "done") \/ Exit(s, "lost")
BY SeedIs DEF Commit, TypeOK

\* When a run executes a statement, or commits, no other has written anything.
LEMMA OthersWait ==
  ASSUME TypeOK, Locked, OneWriter, NEW s \in Seeders, NEW t \in Seeders \ {s}, pc[s] = "tx",
         pos[s] > 1 \/ ~Waits(s, Seed[pos[s]])
  PROVE  mine[t] = {}
<1>1. CASE pos[s] > 1
  BY <1>1 DEF Locked, OneWriter
<1>2. CASE pos[s] = 1
  <2> SUFFICES ASSUME mine[t] # {} PROVE FALSE
    OBVIOUS
  <2>1. PICK m \in mine[t] : SameRow(m, Seed[1])
    BY DEF Locked
  <2>2. Waits(s, Seed[1])
    BY <2>1 DEF Waits, SameRow
  <2> QED
    BY <1>2, <2>2
<1> QED
  BY <1>1, <1>2, SeedIs DEF TypeOK

LEMMA InitIInv == Init => IInv
<1> SUFFICES ASSUME Init PROVE IInv
  OBVIOUS
<1>1. /\ Legal(db) /\ DOMAIN mine = Seeders
      /\ \A s \in Seeders : pc[s] = "none" /\ pos[s] = 1 /\ mine[s] = {}
  BY DEF Init
<1>2. TypeOK
  BY <1>1, SeedIs DEF Init, TypeOK
<1> QED
  BY <1>1, <1>2 DEF IInv, Locked, OneWriter, AsIfAlone, Ends, Committed

LEMMA NextTypeOK ==
  ASSUME TypeOK, Locked, AsIfAlone, Next
  PROVE  TypeOK'
<1> PICK s \in Seeders : Begin(s) \/ BeginFails(s) \/ Upsert(s) \/ Commit(s) \/ Disconnect(s)
  BY DEF Next
<1> USE SeedIs
<1>1. ASSUME NEW status \in {"done", "lost", "failed", "conflict"}, Exit(s, status), Legal(db')
      PROVE  TypeOK'
  BY <1>1 DEF TypeOK, Locked, Exit
<1>2. CASE Begin(s)
  BY <1>2 DEF Begin, TypeOK
<1>3. CASE BeginFails(s) \/ Disconnect(s)
  BY <1>1, <1>3 DEF BeginFails, Disconnect, TypeOK
<1>4. CASE Upsert(s)
  <2>1. CASE Exit(s, "conflict")
    BY <1>1, <1>4, <2>1, UpsertStep DEF TypeOK
  <2>2. CASE ~Exit(s, "conflict")
    <3>1. /\ pc[s] = "tx" /\ pos[s] \in 1..7 /\ UNCHANGED <<db, pc>>
          /\ pos' = [pos EXCEPT ![s] = @ + 1] /\ \A t \in Seeders \ {s} : mine'[t] = mine[t]
      BY <1>4, <2>2, UpsertStep DEF Locked
    <3> QED
      BY <3>1 DEF TypeOK
  <2> QED
    BY <2>1, <2>2
<1>5. CASE Commit(s)
  BY <1>1, <1>5, CommitStep DEF AsIfAlone
<1> QED
  BY <1>2, <1>3, <1>4, <1>5

LEMMA NextLocked ==
  ASSUME TypeOK, Locked, OneWriter, Next
  PROVE  Locked' /\ OneWriter'
<1> PICK s \in Seeders : Begin(s) \/ BeginFails(s) \/ Upsert(s) \/ Commit(s) \/ Disconnect(s)
  BY DEF Next
<1>1. ASSUME NEW status \in {"done", "lost", "failed", "conflict"}, Exit(s, status)
      PROVE  Locked' /\ OneWriter'
  BY <1>1 DEF TypeOK, Locked, OneWriter, Exit
<1>2. CASE Begin(s)
  BY <1>2 DEF Begin, TypeOK, Locked, OneWriter
<1>3. CASE BeginFails(s) \/ Disconnect(s)
  BY <1>1, <1>3 DEF BeginFails, Disconnect
<1>4. CASE Upsert(s)
  <2>1. CASE Exit(s, "conflict")
    BY <1>1, <2>1
  <2>2. CASE ~Exit(s, "conflict")
    <3> DEFINE new == Written(View(s), Seed[pos[s]])
    <3> HIDE DEF new
    <3>1. /\ pc[s] = "tx" /\ pos[s] \in 1..7 /\ UNCHANGED pc
          /\ pos' = [pos EXCEPT ![s] = @ + 1] /\ \A t \in Seeders \ {s} : mine'[t] = mine[t]
          /\ mine'[s] = {m \in mine[s] : ~SameRow(m, new)} \cup {new}
          /\ DOMAIN mine' = Seeders /\ ~Waits(s, Seed[pos[s]])
      BY <1>4, <2>2, UpsertStep DEF Locked, new
    <3>2. \A t \in Seeders \ {s} : mine[t] = {}
      BY <3>1, OthersWait
    <3>3. \E m \in mine'[s] : SameRow(m, Seed[1])
      <4>1. CASE pos[s] = 1
        <5>1. new.table = Seed[1].table /\ new.id = Seed[1].id
          BY <4>1, WrittenIs, SeedIs DEF new, Row
        <5> QED
          BY <3>1, <5>1 DEF SameRow
      <4>2. CASE pos[s] > 1
        <5>1. PICK m \in mine[s] : SameRow(m, Seed[1])
          BY <3>1, <4>2 DEF Locked
        <5> QED
          BY <3>1, <5>1 DEF SameRow
      <4> QED
        BY <3>1, <4>1, <4>2
    <3>4. Locked'
      BY <3>1, <3>2, <3>3 DEF Locked, TypeOK
    <3>5. OneWriter'
      BY <3>1, <3>2 DEF OneWriter
    <3> QED
      BY <3>4, <3>5
  <2> QED
    BY <2>1, <2>2
<1>5. CASE Commit(s)
  BY <1>1, <1>5, CommitStep
<1> QED
  BY <1>2, <1>3, <1>4, <1>5

\* Another run sees nothing of a step, or a commit from before it wrote a row.
LEMMA OthersAsIfAlone ==
  ASSUME TypeOK, Locked, OneWriter, AsIfAlone, NEW s \in Seeders,
         \/ UNCHANGED db
         \/ Commit(s),
         NEW t \in Seeders \ {s}, pc[t] = "tx", pos'[t] = pos[t], mine'[t] = mine[t]
  PROVE  /\ Legal(View(t))' /\ View(t)' = After(db')[pos'[t] - 1]
         /\ \A p \in 1..(pos'[t] - 1) :
              Accepted(After(db')[p - 1], Seed[p]) /\ Entry(View(t), p)'
<1>1. CASE UNCHANGED db
  <2>1. View(t)' = View(t)
    BY <1>1 DEF View
  <2>2. /\ Legal(View(t)) /\ View(t) = After(db)[pos[t] - 1]
        /\ \A p \in 1..(pos[t] - 1) : Accepted(After(db)[p - 1], Seed[p]) /\ Entry(View(t), p)
    BY DEF AsIfAlone
  <2>3. Legal(View(t)') /\ \A p \in 1..(pos[t] - 1) : Entry(View(t)', p)
    BY <2>1, <2>2, Zenon
  <2>4. Legal(View(t))' /\ \A p \in 1..(pos[t] - 1) : Entry(View(t), p)'
    BY <2>3 DEF Legal, Entry, Ids, SeedAs, Row
  <2> QED
    BY <1>1, <2>1, <2>2, <2>4
<1>2. CASE Commit(s)
  <2>1. pc[s] = "tx" /\ pos[s] = 8 /\ db' = View(s)
    BY <1>2, CommitStep
  <2>2. mine[t] = {}
    BY <2>1, OthersWait
  <2>3. pos[t] = 1
    BY <2>2, SeedIs DEF Locked, TypeOK
  <2>4. View(t)' = db'
    BY <2>2 DEF View
  <2>5. Legal(db')
    BY <2>1 DEF AsIfAlone
  <2>6. After(db')[0] = db'
    BY AfterIs
  <2>7. Legal(View(t))'
    BY <2>4, <2>5 DEF Legal, Ids
  <2> QED
    BY <2>3, <2>4, <2>6, <2>7
<1> QED
  BY <1>1, <1>2

LEMMA NextAsIfAlone ==
  ASSUME TypeOK, Locked, OneWriter, AsIfAlone, Next
  PROVE  AsIfAlone'
<1> PICK s \in Seeders : Begin(s) \/ BeginFails(s) \/ Upsert(s) \/ Commit(s) \/ Disconnect(s)
  BY DEF Next
<1>1. \/ UNCHANGED db
      \/ Commit(s)
  BY DEF Begin, BeginFails, Upsert, Disconnect
<1>2. ASSUME NEW t \in Seeders \ {s}
      PROVE  pc'[t] = pc[t] /\ pos'[t] = pos[t] /\ mine'[t] = mine[t]
  <2>1. ASSUME NEW status, Exit(s, status)
        PROVE  pc'[t] = pc[t] /\ pos'[t] = pos[t] /\ mine'[t] = mine[t]
    BY <2>1 DEF TypeOK, Locked, Exit
  <2>2. CASE Begin(s)
    BY <2>2 DEF TypeOK, Begin
  <2>3. CASE Upsert(s)
    BY <2>1, <2>3, UpsertStep DEF TypeOK, Locked
  <2> QED
    BY <2>1, <2>2, <2>3, CommitStep DEF BeginFails, Disconnect
<1>3. ASSUME pc'[s] = "tx"
      PROVE  /\ Legal(View(s))' /\ View(s)' = After(db')[pos'[s] - 1]
             /\ \A p \in 1..(pos'[s] - 1) :
                  Accepted(After(db')[p - 1], Seed[p]) /\ Entry(View(s), p)'
  <2>1. ASSUME NEW status \in {"done", "lost", "failed", "conflict"}, Exit(s, status) PROVE FALSE
    BY <1>3, <2>1 DEF Exit, TypeOK
  <2>2. CASE Begin(s)
    <3>1. pos'[s] = 1 /\ mine'[s] = {} /\ db' = db
      BY <2>2 DEF Begin, Locked
    <3>2. View(s)' = db'
      BY <3>1 DEF View
    <3>3. Legal(View(s))'
      BY <3>1, <3>2 DEF TypeOK, Legal, Ids
    <3>4. After(db')[0] = db'
      BY AfterIs
    <3> QED
      BY <3>1, <3>2, <3>3, <3>4
  <2>3. CASE Upsert(s)
    <3> DEFINE p == pos[s]
               new == Written(View(s), Seed[p])
    <3>1. /\ pc[s] = "tx" /\ p \in 1..7 /\ UNCHANGED db /\ Accepted(View(s), Seed[p])
          /\ pos'[s] = p + 1 /\ mine'[s] = {m \in mine[s] : ~SameRow(m, new)} \cup {new}
      BY <2>1, <2>3, UpsertStep DEF TypeOK, Locked
    <3>2. /\ Legal(View(s)) /\ View(s) = After(db)[p - 1]
          /\ \A i \in 1..(p - 1) : Accepted(After(db)[i - 1], Seed[i]) /\ Entry(View(s), i)
      BY <3>1 DEF AsIfAlone
    <3>3. View(s)' = Upserted(View(s), Seed[p])
      BY <3>1, <3>2, UpsertSeen
    <3>4. View(s)' = After(db')[p]
      BY <3>1, <3>2, <3>3, AfterIs
    <3>5. Legal(View(s))'
      BY <3>1, <3>3 DEF Accepted, Legal, Ids
    <3>6. ASSUME NEW i \in 1..p PROVE Accepted(After(db')[i - 1], Seed[i]) /\ Entry(View(s), i)'
      <4>1. Entry(Upserted(View(s), Seed[p]), i)
        <5>1. CASE i = p
          BY <3>1, <5>1, EntryMade
        <5>2. CASE i # p
          <6>1. i \in 1..7 /\ i \in 1..(p - 1)
            BY <3>1, <5>2
          <6> QED
            BY <3>1, <3>2, <5>2, <6>1, EntryKept
        <5> QED
          BY <5>1, <5>2
      <4>2. Entry(View(s), i)'
        BY <3>3, <4>1 DEF Entry, SeedAs, Row
      <4> QED
        BY <3>1, <3>2, <4>2
    <3> QED
      BY <3>1, <3>4, <3>5, <3>6
  <2> QED
    BY <2>1, <2>2, <2>3, CommitStep DEF BeginFails, Disconnect
<1>4. ASSUME NEW t \in Seeders, pc'[t] = "tx"
      PROVE  /\ Legal(View(t))' /\ View(t)' = After(db')[pos'[t] - 1]
             /\ \A p \in 1..(pos'[t] - 1) :
                  Accepted(After(db')[p - 1], Seed[p]) /\ Entry(View(t), p)'
  <2>1. CASE t = s
    BY <1>3, <1>4, <2>1
  <2>2. CASE t # s
    BY <1>1, <1>2, <1>4, <2>2, OthersAsIfAlone
  <2> QED
    BY <2>1, <2>2
<1> QED
  BY <1>4 DEF AsIfAlone

\* A success ends with every row there, and only where no run can meet a conflict.
LEMMA CommitSeeded ==
  ASSUME TypeOK, AsIfAlone, NEW s \in Seeders, Commit(s)
  PROVE  Smooth(db) /\ Seeded(db') /\ db' = After(db)[Len(Seed)]
<1>1. pc[s] = "tx" /\ pos[s] = 8 /\ db' = View(s)
  BY CommitStep
<1>2. /\ View(s) = After(db)[7]
      /\ \A p \in 1..7 : Accepted(After(db)[p - 1], Seed[p]) /\ Entry(View(s), p)
  BY <1>1 DEF AsIfAlone
<1> QED
  BY <1>1, <1>2, SeedIs DEF Smooth, Seeded

LEMMA NextEnds ==
  ASSUME TypeOK, Locked, AsIfAlone, Ends, Next
  PROVE  Ends'
<1> PICK s \in Seeders : Begin(s) \/ BeginFails(s) \/ Upsert(s) \/ Commit(s) \/ Disconnect(s)
  BY DEF Next
<1>1. CASE Commit(s)
  <2>1. Smooth(db) /\ Seeded(db')
    BY <1>1, CommitSeeded
  <2>2. \A t \in Seeders : pc[t] # "conflict"
    BY <2>1 DEF Ends
  <2>3. \A t \in Seeders : pc'[t] # "conflict"
    BY <1>1, <2>2, CommitStep DEF Exit, TypeOK
  <2> QED
    BY <2>1, <2>3 DEF Ends, Seeded, Entry, SeedAs, Row
<1>2. CASE Upsert(s) /\ Exit(s, "conflict")
  <2>1. pc[s] = "tx" /\ pos[s] \in 1..7 /\ db' = db
    BY <1>2, UpsertStep
  <2>2. ~Accepted(View(s), Seed[pos[s]])
    BY <1>2, <2>1, UpsertStep DEF Exit, TypeOK
  <2>3. ~Smooth(db')
    BY <2>1, <2>2, SeedIs DEF AsIfAlone, Smooth
  <2>4. \A t \in Seeders : Committed(t)' => Committed(t)
    BY <1>2 DEF Exit, TypeOK, Committed
  <2>5. (\E t \in Seeders : Committed(t)') => Seeded(db')
    BY <2>1, <2>4 DEF Ends
  <2> QED
    BY <2>3, <2>5 DEF Ends, Seeded, Entry, SeedAs, Row, Smooth
<1>3. CASE Begin(s) \/ BeginFails(s) \/ Disconnect(s) \/ (Upsert(s) /\ ~Exit(s, "conflict"))
  <2>1. db' = db
    BY <1>3 DEF Begin, BeginFails, Upsert, Disconnect
  <2>2. \A t \in Seeders : /\ Committed(t)' => Committed(t)
                           /\ pc'[t] = "conflict" => pc[t] = "conflict"
    BY <1>3, UpsertStep DEF Begin, BeginFails, Disconnect, Exit, TypeOK, Committed
  <2>3. /\ (\E t \in Seeders : Committed(t)') => Seeded(db')
        /\ (\E t \in Seeders : pc'[t] = "conflict") => ~Smooth(db')
    BY <2>1, <2>2 DEF Ends
  <2> QED
    BY <2>3 DEF Ends
<1> QED
  BY <1>1, <1>2, <1>3

LEMMA NextIInv == IInv /\ [Next]_vars => IInv'
<1> SUFFICES ASSUME IInv, [Next]_vars PROVE IInv'
  OBVIOUS
<1>1. CASE Next
  BY <1>1, NextTypeOK, NextLocked, NextAsIfAlone, NextEnds DEF IInv
<1>2. CASE UNCHANGED vars
  <2>1. db' = db /\ pc' = pc /\ pos' = pos /\ mine' = mine
    BY <1>2 DEF vars
  <2>2. TypeOK' /\ Locked' /\ OneWriter' /\ Ends'
    BY <2>1 DEF IInv, TypeOK, Locked, OneWriter, Ends, Committed
  <2>3. AsIfAlone'
    BY <2>1 DEF IInv, AsIfAlone, View
  <2> QED
    BY <2>2, <2>3 DEF IInv
<1> QED
  BY <1>1, <1>2
-------------------------------------------------------------------------------
(* The theorems.                                                           *)

\* What the four theorems below rest on: a run that has written anything is the
\* only one, sees the tables as if it were alone, and a success or a conflict
\* says for good what the tables are like.
THEOREM Inductive == Spec => []IInv
<1>1. Init => IInv
  BY InitIInv
<1>2. IInv /\ [Next]_vars => IInv'
  BY NextIInv
<1> QED
  BY <1>1, <1>2, PTL DEF Spec

\* The committed rows meet the constraints of the tables, a run is at one of
\* the seed's statements, and only a run in its transaction has rows locked.
THEOREM TypeCorrect == Spec => []TypeOK
<1>1. IInv => TypeOK
  BY DEF IInv
<1> QED
  BY <1>1, Inductive, PTL

\* Once a run of cmd/seed has committed, whether or not it was told, every entry
\* has its row, with what the entry says of it, and no later run takes it away.
THEOREM Converges == Spec => []ConvergesOnSuccess
<1>1. IInv => ConvergesOnSuccess
  <2> SUFFICES ASSUME IInv, NEW s \in Seeders, Committed(s), NEW i \in 1..Len(Seed)
               PROVE  \E r \in db : /\ r.table = Seed[i].table /\ r.key = Seed[i].key
                                    /\ r.data = Seed[i].data
    BY DEF ConvergesOnSuccess
  <2>1. PICK r \in db : r = SeedAs(i, r.id)
    BY DEF IInv, Ends, Seeded, Entry
  <2>2. r.table = Seed[i].table /\ r.key = Seed[i].key /\ r.data = Seed[i].data
    BY <2>1, SeedIs, SeedAsIs
  <2> QED
    BY <2>2
<1> QED
  BY <1>1, Inductive, PTL

\* Whether a run of cmd/seed can commit or meets a conflict is decided by the
\* rows that were there, never by the runs before or beside it, and not by the
\* run it repeats after the answer to a commit was lost.
THEOREM Agreement == Spec => []RunsAgree
<1>1. IInv => RunsAgree
  BY SeededSmooth DEF IInv, TypeOK, Ends, RunsAgree
<1> QED
  BY <1>1, Inductive, PTL

\* The transaction of cmd/seed: the committed rows change only when a run
\* commits, and then to what the whole seed, alone, makes of them.
THEOREM WholeSeed == Spec => AllOrNothing
<1>1. IInv /\ [Next]_vars => [db' = After(db)[Len(Seed)]]_db
  <2> SUFFICES ASSUME IInv, Next, db' # db PROVE db' = After(db)[Len(Seed)]
    BY DEF vars
  <2>1. PICK s \in Seeders :
          Begin(s) \/ BeginFails(s) \/ Upsert(s) \/ Commit(s) \/ Disconnect(s)
    BY DEF Next
  <2>2. Commit(s)
    BY <2>1 DEF Begin, BeginFails, Upsert, Disconnect
  <2> QED
    BY <2>2, CommitSeeded DEF IInv
<1> QED
  BY <1>1, Inductive, PTL DEF Spec, AllOrNothing
===============================================================================
