---------------------------- MODULE HitCounterProofs ----------------------------
(***************************************************************************)
(* Proofs about HitCounter, for any number of browsers and requests.       *)
(***************************************************************************)
EXTENDS HitCounter, FiniteSetTheorems, TLAPS

\* The types the argument needs; the bounds of TypeOK come last.
Numbers ==
  /\ count \in Nat /\ floor \in Nat
  /\ at \in [Requests -> {"none", "load", "store", "read", "write", "page", "render"}]
  /\ reg \in [Requests -> Nat] /\ base \in [Requests -> Nat]

\* A handler that is about to store has loaded after floor was taken, because
\* floor moves only when nobody is about to store: what it stores is above it.
\* So is everything stored since, by whoever it was.
LoadedAboveFloor == \A r \in Requests : at[r] = "store" => reg[r] >= floor
BaseBelowFloor == \A r \in Requests : base[r] <= floor
StoredAboveBase == \A r \in Requests : at[r] = "read" => count > base[r]

IInv == /\ Numbers /\ CountedIsKept /\ AnswerCountsClick
        /\ LoadedAboveFloor /\ BaseBelowFloor /\ StoredAboveBase

LEMMA InitIInv == Init => IInv
BY DEF Init, IInv, Numbers, CountedIsKept, AnswerCountsClick, LoadedAboveFloor,
       BaseBelowFloor, StoredAboveBase

LEMMA NextIInv == IInv /\ [Next]_vars => IInv'
<1> SUFFICES ASSUME IInv, [Next]_vars PROVE IInv'
  OBVIOUS
<1> USE DEF IInv, Numbers, CountedIsKept, AnswerCountsClick, LoadedAboveFloor,
            BaseBelowFloor, StoredAboveBase, Move, history
<1>1. ASSUME NEW b \in Browsers, NEW r \in Requests, NEW to \in {"load", "page"},
             Send(b, r, to)
      PROVE  IInv'
  BY <1>1 DEF Send
<1>2. ASSUME NEW b \in Browsers, Fail(b) PROVE IInv'
  BY <1>2 DEF Fail
<1>3. ASSUME NEW r \in Requests, Vanish(r) PROVE IInv'
  BY <1>3 DEF Vanish
<1>4. ASSUME NEW r \in Requests, Load(r) PROVE IInv'
  BY <1>4 DEF Load
<1>5. ASSUME NEW r \in Requests, Store(r) PROVE IInv'
  <2>1. count' = reg[r] + 1 /\ reg[r] >= floor /\ UNCHANGED <<reg, base>>
    BY <1>5 DEF Store
  <2>2. /\ at[r] = "store" /\ at' = [at EXCEPT ![r] = "read"]
    BY <1>5 DEF Store
  <2>3. CASE Adding = {r} /\ floor' = count'
    <3>1. \A q \in Requests : at'[q] # "store"
      BY <2>2, <2>3 DEF Adding
    <3> QED
      BY <2>1, <2>2, <2>3, <3>1
  <2>4. CASE floor' = floor
    BY <2>1, <2>2, <2>4
  <2> QED
    BY <1>5, <2>3, <2>4 DEF Store
<1>6. ASSUME NEW r \in Requests, Read(r) PROVE IInv'
  BY <1>6 DEF Read
<1>7. ASSUME NEW r \in Requests, Write(r) PROVE IInv'
  BY <1>7 DEF Write
<1>8. CASE Restart
  BY <1>8 DEF Restart
<1>9. CASE UNCHANGED vars
  BY <1>9 DEF vars
<1> QED
  BY <1>1, <1>2, <1>3, <1>4, <1>5, <1>6, <1>7, <1>8, <1>9 DEF Next, Visit, Click, Retry

\* No click takes back what its process had counted before it began.
THEOREM CountKept == Spec => []CountedIsKept
<1>1. IInv => CountedIsKept
  BY DEF IInv
<1> QED
  BY InitIInv, NextIInv, <1>1, PTL DEF Spec

\* The answer of a click includes the click.
THEOREM AnswersCount == Spec => []AnswerCountsClick
<1>1. IInv => AnswerCountsClick
  BY DEF IInv
<1> QED
  BY InitIInv, NextIInv, <1>1, PTL DEF Spec
-------------------------------------------------------------------------------
(* While clicks do not overlap, the variable and the pages only go up,     *)
(* those aside that show a number of an earlier process.                   *)

PagesAndOwners ==
  /\ page \in [Browsers -> Nat \cup {None}] /\ owner \in [Requests -> Browsers \cup {None}]
  /\ overlapped \in BOOLEAN
  \* a browser waits for one answer, and for a page only while it has none
  /\ \A r, q \in Requests : owner[r] = owner[q] /\ owner[r] # None => r = q
  /\ \A r \in Requests : owner[r] # None =>
       at[r] # "none" /\ (at[r] \in {"page", "render"} => page[owner[r]] = None)

OneAdds == /\ \A r, q \in Requests : at[r] = "store" /\ at[q] = "store" => r = q
           /\ \A r \in Requests : at[r] = "store" => reg[r] = count

\* What is shown, or about to be, is not above the variable.
ShownBelowCount ==
  /\ \A b \in Browsers \ stale : page[b] # None => page[b] <= count
  /\ \A r \in Requests : at[r] \in {"write", "render"} => reg[r] <= count

AnswersAbovePages ==
  \A r \in Requests :
    at[r] = "write" /\ owner[r] \in Browsers \ stale /\ page[owner[r]] # None =>
      reg[r] >= page[owner[r]]

Apart == ~overlapped => OneAdds /\ ShownBelowCount /\ AnswersAbovePages
FInv == Numbers /\ PagesAndOwners /\ Apart

LEMMA InitFInv == Init => FInv
<1> SUFFICES ASSUME Init PROVE FInv
  OBVIOUS
<1>1. Numbers
  BY InitIInv DEF IInv
<1>2. PagesAndOwners
  BY DEF Init, PagesAndOwners
<1>3. Apart
  BY DEF Init, Apart, OneAdds, ShownBelowCount, AnswersAbovePages
<1> QED
  BY <1>1, <1>2, <1>3 DEF FInv

\* FInv is inductive, and each step that keeps it moves pages forward only.
LEMMA NextFInv ==
  ASSUME FInv, IInv, [Next]_vars
  PROVE  /\ FInv'
         /\ \A b \in Browsers \ stale : page[b] # None /\ page'[b] # None /\ ~overlapped
              => page'[b] >= page[b]
<1> DEFINE Forward == \A b \in Browsers \ stale :
             page[b] # None /\ page'[b] # None /\ ~overlapped => page'[b] >= page[b]
<1> HIDE DEF Forward
<1> SUFFICES FInv' /\ Forward
  BY DEF Forward
<1> USE CounterAssumption DEF FInv, Numbers, Move, history
<1>1. Numbers'
  BY NextIInv DEF IInv
<1>2. ASSUME NEW b \in Browsers, NEW r \in Requests, Visit(b, r) \/ Click(b, r)
      PROVE  FInv' /\ Forward
  <2>1. /\ \/ Send(b, r, "page") /\ page' = [page EXCEPT ![b] = None]
           \/ Send(b, r, "load") /\ page' = page
        /\ \A q \in Requests : owner'[q] = IF q = r THEN b
                                          ELSE IF owner[q] = b THEN None ELSE owner[q]
    <3>1. \/ Send(b, r, "page") /\ page' = [page EXCEPT ![b] = None]
          \/ Send(b, r, "load") /\ page' = page
      BY <1>2, Zenon DEF Visit, Click
    <3>2. owner' = [q \in Requests |-> IF q = r THEN b
                                        ELSE IF owner[q] = b THEN None ELSE owner[q]]
      BY <3>1, Zenon DEF Send
    <3> QED
      BY <3>1, <3>2, Zenon
  <2>2. PagesAndOwners'
    <3>1. CASE Send(b, r, "page") /\ page' = [page EXCEPT ![b] = None]
      BY <2>1, <3>1 DEF PagesAndOwners, Send
    <3>2. CASE Send(b, r, "load") /\ page' = page
      BY <2>1, <3>2 DEF PagesAndOwners, Send
    <3> QED
      BY <2>1, <3>1, <3>2
  <2>3. Apart'
    BY <2>1 DEF Apart, OneAdds, ShownBelowCount, AnswersAbovePages, PagesAndOwners, Send
  <2>4. Forward
    <3>1. \A c \in Browsers : page'[c] = page[c] \/ page'[c] = None
      BY <2>1 DEF PagesAndOwners
    <3>2. \A c \in Browsers : page[c] # None => page[c] \in Nat
      BY DEF PagesAndOwners
    <3> QED
      BY <3>1, <3>2 DEF Forward
  <2> QED
    BY <1>1, <2>2, <2>3, <2>4
<1>3. ASSUME NEW b \in Browsers, Fail(b) PROVE FInv' /\ Forward
  <2>1. \A q \in Requests : owner'[q] = IF owner[q] = b THEN None ELSE owner[q]
    BY <1>3 DEF Fail
  <2>2. PagesAndOwners'
    BY <1>3, <2>1 DEF PagesAndOwners, Fail
  <2>3. Apart'
    BY <1>3, <2>1 DEF Apart, OneAdds, ShownBelowCount, AnswersAbovePages, PagesAndOwners, Fail
  <2> QED
    BY <1>1, <1>3, <2>2, <2>3 DEF Forward, Fail, PagesAndOwners
<1>4. ASSUME NEW r \in Requests, Vanish(r) PROVE FInv' /\ Forward
  <2>1. PagesAndOwners'
    BY <1>4 DEF PagesAndOwners, Vanish
  <2>2. Apart'
    BY <1>4 DEF Apart, OneAdds, ShownBelowCount, AnswersAbovePages, PagesAndOwners, Vanish
  <2> QED
    BY <1>1, <1>4, <2>1, <2>2 DEF Forward, Vanish, PagesAndOwners
<1>5. ASSUME NEW r \in Requests, Load(r) PROVE FInv' /\ Forward
  <2>1. PagesAndOwners'
    BY <1>5 DEF PagesAndOwners, Load
  <2>2. Apart'
    BY <1>5 DEF Apart, OneAdds, ShownBelowCount, AnswersAbovePages, PagesAndOwners, Load, Adding
  <2> QED
    BY <1>1, <1>5, <2>1, <2>2 DEF Forward, Load, PagesAndOwners
<1>6. ASSUME NEW r \in Requests, Store(r) PROVE FInv' /\ Forward
  <2>1. PagesAndOwners'
    BY <1>6 DEF PagesAndOwners, Store
  <2>2. Apart'
    BY <1>6 DEF Apart, OneAdds, ShownBelowCount, AnswersAbovePages, PagesAndOwners, Store
  <2> QED
    BY <1>1, <1>6, <2>1, <2>2 DEF Forward, Store, PagesAndOwners
<1>7. ASSUME NEW r \in Requests, Read(r) PROVE FInv' /\ Forward
  <2>1. PagesAndOwners'
    BY <1>7 DEF PagesAndOwners, Read
  <2>2. Apart'
    BY <1>7 DEF Apart, OneAdds, ShownBelowCount, AnswersAbovePages, PagesAndOwners, Read
  <2> QED
    BY <1>1, <1>7, <2>1, <2>2 DEF Forward, Read, PagesAndOwners
<1>8. ASSUME NEW r \in Requests, Write(r) PROVE FInv' /\ Forward
  <2>1. PagesAndOwners'
    BY <1>8 DEF PagesAndOwners, Write
  <2>2. Apart'
    BY <1>8 DEF Apart, OneAdds, ShownBelowCount, AnswersAbovePages, PagesAndOwners, Write
  <2>3. Forward
    BY <1>8 DEF Forward, Apart, AnswersAbovePages, PagesAndOwners, Write
  <2> QED
    BY <1>1, <2>1, <2>2, <2>3
<1>9. CASE Restart
  <2>1. PagesAndOwners'
    BY <1>9 DEF PagesAndOwners, Restart
  <2>2. Apart'
    BY <1>9 DEF Apart, OneAdds, ShownBelowCount, AnswersAbovePages, PagesAndOwners, Restart
  <2> QED
    BY <1>1, <1>9, <2>1, <2>2 DEF Forward, Restart, PagesAndOwners
<1>10. CASE UNCHANGED vars
  <2>1. PagesAndOwners' /\ Apart'
    BY <1>10 DEF PagesAndOwners, Apart, OneAdds, ShownBelowCount, AnswersAbovePages, vars
  <2>2. Forward
    BY <1>10 DEF Forward, vars, PagesAndOwners
  <2> QED
    BY <1>1, <2>1, <2>2
<1>11. CASE Next
  BY <1>2, <1>3, <1>4, <1>5, <1>6, <1>7, <1>8, <1>9, <1>11, Zenon DEF Next, Retry
<1> QED
  BY <1>10, <1>11

\* The number on a page falls only after clicks have overlapped, or when it is
\* still that of a process that has been restarted since.
THEOREM PagesForward == Spec => PagesGoForward
<1>1. FInv /\ IInv /\ [Next]_vars => (FInv /\ IInv)'
  BY NextFInv, NextIInv
<1>2. FInv /\ IInv /\ [Next]_vars =>
        [\A b \in Browsers \ stale : page[b] # None /\ page'[b] # None /\ ~overlapped
           => page'[b] >= page[b]]_vars
  BY NextFInv
<1> QED
  BY InitFInv, InitIInv, <1>1, <1>2, PTL DEF Spec, PagesGoForward
-------------------------------------------------------------------------------
(* The bounds: the counter never exceeds the number of requests sent.      *)

\* The clicks that have been sent and have not been counted.
Pending == {r \in Requests : at[r] \in {"load", "store"}}

Pages ==
  /\ owner \in [Requests -> Browsers \cup {None}]
  /\ \A r \in Requests : at[r] = "none" => owner[r] = None
  /\ page \in [Browsers -> 0..sent \cup {None}]
  /\ failed \subseteq Browsers /\ stale \subseteq Browsers /\ overlapped \in BOOLEAN

\* What is counted, and what a handler has read, leaves room for every pending
\* click: count <= sent alone is not inductive, as Store adds to an old value.
RoomForPending ==
  /\ sent \in 0..MaxSent /\ IsFiniteSet(Pending)
  /\ count + Cardinality(Pending) <= sent
  /\ \A r \in Requests : reg[r] + Cardinality(Pending) <= sent

TInv == Pages /\ RoomForPending

LEMMA InitTInv == Init => TInv
<1> SUFFICES ASSUME Init PROVE TInv
  OBVIOUS
<1>1. Pending = {}
  BY DEF Init, Pending
<1>2. IsFiniteSet(Pending) /\ Cardinality(Pending) = 0
  BY <1>1, FS_EmptySet
<1>3. Pages
  BY DEF Init, Pages
<1> QED
  BY <1>2, <1>3, CounterAssumption DEF Init, TInv, RoomForPending

LEMMA NextTInv == IInv /\ TInv /\ [Next]_vars => TInv'
<1> SUFFICES ASSUME IInv, TInv, [Next]_vars PROVE TInv'
  OBVIOUS
<1> USE CounterAssumption DEF Move, history
<1>1. Numbers /\ Numbers'
  BY NextIInv DEF IInv
<1>2. /\ sent \in Nat /\ IsFiniteSet(Pending) /\ Cardinality(Pending) \in Nat
      /\ count \in Nat /\ reg \in [Requests -> Nat] /\ Pages /\ RoomForPending
  BY <1>1, FS_CardinalityType DEF TInv, RoomForPending, Numbers
<1>3. ASSUME Pending' \subseteq Pending
      PROVE  /\ IsFiniteSet(Pending') /\ Cardinality(Pending') \in Nat
             /\ Cardinality(Pending') <= Cardinality(Pending)
  BY <1>2, <1>3, FS_Subset, FS_CardinalityType
<1>4. ASSUME NEW b \in Browsers, NEW r \in Requests, Visit(b, r) \/ Click(b, r)
      PROVE  TInv'
  <2>1. PICK to \in {"page", "load"} : Send(b, r, to)
    BY <1>4, Zenon DEF Visit, Click
  <2>2. /\ sent' = sent + 1 /\ sent' \in 0..MaxSent
        /\ UNCHANGED <<count, reg, overlapped>>
    BY <1>2, <2>1 DEF Send, RoomForPending
  <2>3. /\ IsFiniteSet(Pending') /\ Cardinality(Pending') \in Nat
        /\ Cardinality(Pending') <= Cardinality(Pending) + 1
    <3>1. at[r] = "none" /\ at' = [at EXCEPT ![r] = to]
      BY <2>1 DEF Send
    <3>2. CASE to = "load"
      <4>1. Pending' = Pending \cup {r}
        BY <1>1, <3>1, <3>2 DEF Pending, Numbers
      <4>2. /\ IsFiniteSet(Pending \cup {r})
            /\ \/ Cardinality(Pending \cup {r}) = Cardinality(Pending)
               \/ Cardinality(Pending \cup {r}) = Cardinality(Pending) + 1
        BY <1>2, FS_AddElement, Zenon
      <4> QED
        BY <1>2, <4>1, <4>2
    <3>3. CASE to = "page"
      <4>1. Pending' \subseteq Pending
        BY <1>1, <3>1, <3>3 DEF Pending, Numbers
      <4> QED
        BY <1>2, <1>3, <4>1
    <3> QED
      BY <3>2, <3>3
  <2>4. Pages'
    <3>1. page' \in [Browsers -> 0..sent' \cup {None}]
      <4>1. page' = page \/ page' = [page EXCEPT ![b] = None]
        BY <1>4, Zenon DEF Visit, Click
      <4> QED
        BY <1>2, <2>2, <4>1 DEF Pages
    <3>2. owner' \in [Requests -> Browsers \cup {None}]
      BY <1>2, <2>1 DEF Pages, Send
    <3>3. \A q \in Requests : at'[q] = "none" => owner'[q] = None
      BY <1>1, <1>2, <2>1 DEF Pages, Numbers, Send
    <3> QED
      BY <1>2, <2>1, <2>2, <3>1, <3>2, <3>3 DEF Pages, Send
  <2> QED
    BY <1>2, <2>2, <2>3, <2>4 DEF TInv, RoomForPending
<1>5. ASSUME NEW b \in Browsers, Fail(b) PROVE TInv'
  BY <1>2, <1>5 DEF TInv, RoomForPending, Pages, Pending, Fail
<1>6. ASSUME NEW r \in Requests, Vanish(r) PROVE TInv'
  <2>1. Pending' \subseteq Pending
    BY <1>1, <1>6 DEF Pending, Numbers, Vanish
  <2>2. Pages'
    BY <1>1, <1>2, <1>6 DEF Pages, Numbers, Vanish
  <2> QED
    BY <1>2, <1>3, <1>6, <2>1, <2>2 DEF TInv, RoomForPending, Vanish
<1>7. ASSUME NEW r \in Requests, Load(r) PROVE TInv'
  <2>1. Pending' \subseteq Pending
    BY <1>1, <1>7 DEF Pending, Numbers, Load
  <2>2. Pages'
    BY <1>1, <1>2, <1>7 DEF Pages, Numbers, Load
  <2> QED
    BY <1>1, <1>2, <1>3, <1>7, <2>1, <2>2 DEF TInv, RoomForPending, Numbers, Load
<1>8. ASSUME NEW r \in Requests, Store(r) PROVE TInv'
  <2>1. /\ IsFiniteSet(Pending') /\ Cardinality(Pending') \in Nat
        /\ Cardinality(Pending') = Cardinality(Pending) - 1
    <3>1. r \in Pending /\ Pending' = Pending \ {r}
      BY <1>1, <1>8 DEF Pending, Numbers, Store
    <3> QED
      BY <1>2, <3>1, FS_RemoveElement, FS_CardinalityType
  <2>2. Pages'
    BY <1>1, <1>2, <1>8 DEF Pages, Numbers, Store
  <2> QED
    BY <1>1, <1>2, <1>8, <2>1, <2>2 DEF TInv, RoomForPending, Numbers, Store
<1>9. ASSUME NEW r \in Requests, Read(r) PROVE TInv'
  <2>1. Pending' \subseteq Pending
    BY <1>1, <1>9 DEF Pending, Numbers, Read
  <2>2. Pages'
    BY <1>1, <1>2, <1>9 DEF Pages, Numbers, Read
  <2> QED
    BY <1>1, <1>2, <1>3, <1>9, <2>1, <2>2 DEF TInv, RoomForPending, Numbers, Read
<1>10. ASSUME NEW r \in Requests, Write(r) PROVE TInv'
  <2>1. Pending' \subseteq Pending
    BY <1>1, <1>10 DEF Pending, Numbers, Write
  <2>2. reg[r] \in 0..sent
    BY <1>2 DEF RoomForPending
  <2>3. Pages'
    BY <1>1, <1>2, <1>10, <2>2 DEF Pages, Numbers, Write
  <2> QED
    BY <1>2, <1>3, <1>10, <2>1, <2>3 DEF TInv, RoomForPending, Write
<1>11. CASE Restart
  <2>1. Pending' = {}
    BY <1>11 DEF Pending, Restart
  <2>2. IsFiniteSet(Pending') /\ Cardinality(Pending') = 0
    BY <2>1, FS_EmptySet
  <2>3. Pages'
    BY <1>2, <1>11 DEF Pages, Restart
  <2> QED
    BY <1>2, <1>11, <2>2, <2>3 DEF TInv, RoomForPending, Restart
<1>12. CASE UNCHANGED vars
  BY <1>2, <1>12 DEF TInv, RoomForPending, Pages, Pending, vars
<1> QED
  BY <1>4, <1>5, <1>6, <1>7, <1>8, <1>9, <1>10, <1>11, <1>12, Zenon DEF Next, Retry

\* No value is above the number of requests: not the counter, and not what a
\* handler holds or a page shows.
THEOREM TypeCorrect == Spec => []TypeOK
<1>1. IInv /\ TInv /\ [Next]_vars => (IInv /\ TInv)'
  BY NextIInv, NextTInv
<1>2. IInv /\ TInv => TypeOK
  <2> SUFFICES ASSUME IInv, TInv PROVE TypeOK
    OBVIOUS
  <2>1. Cardinality(Pending) \in Nat
    BY FS_CardinalityType DEF TInv, RoomForPending
  <2>2. /\ count \in 0..sent /\ floor \in 0..sent
        /\ reg \in [Requests -> 0..sent] /\ base \in [Requests -> 0..sent]
    BY <2>1, CounterAssumption
    DEF IInv, Numbers, CountedIsKept, BaseBelowFloor, TInv, RoomForPending
  <2> QED
    BY <2>2 DEF IInv, Numbers, TInv, RoomForPending, Pages, TypeOK
<1> QED
  BY InitIInv, InitTInv, <1>1, <1>2, PTL DEF Spec
===============================================================================
