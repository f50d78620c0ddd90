---------------------------- MODULE HotReloadProofs ----------------------------
(***************************************************************************)
(* Proofs about HotReload and DevPages, for any number of pages, requests  *)
(* and builds.                                                             *)
(***************************************************************************)
EXTENDS DevPages, TLAPS

\* TypeOK and OneRunsOnce together are inductive, and ReloadsArePaidFor is so
\* with them: a request inside the Once shows that the count has left "fresh".
IInv == TypeOK /\ OneRunsOnce /\ ReloadsArePaidFor

LEMMA InitIInv == Init => IInv
BY BoundsAssumption DEF Init, IInv, TypeOK, OneRunsOnce, ReloadsArePaidFor

\* Each handler step, page action and post keeps the invariant.
LEMMA NextIInv == IInv /\ [Next]_vars => IInv'
<1> SUFFICES ASSUME IInv, [Next]_vars PROVE IInv'
  OBVIOUS
<1> USE BoundsAssumption DEF IInv, TypeOK, OneRunsOnce, ReloadsArePaidFor, Move
<1>1. CASE Post
  <2>1. (queued = 0 /\ accepted' = accepted + 1) \/ (queued = 1 /\ accepted' = accepted)
    BY <1>1 DEF Post
  <2>2. TypeOK'
    BY <1>1, <2>1 DEF Post
  <2>3. ReloadsArePaidFor'
    BY <1>1, <2>1 DEF Post
  <2>4. OneRunsOnce'
    BY <1>1 DEF Post
  <2> QED
    BY <2>2, <2>3, <2>4
<1>2. ASSUME NEW r \in Requests, Open(r) \/ HangUp(r) PROVE IInv'
  <2>1. gone' \in [Requests -> BOOLEAN]
    BY <1>2, Zenon DEF Open, HangUp
  <2>2. CASE Open(r)
    BY <2>1, <2>2 DEF Open
  <2>3. CASE HangUp(r)
    BY <2>1, <2>3 DEF HangUp
  <2> QED
    BY <1>2, <2>2, <2>3
<1>3. ASSUME NEW r \in Requests, Reload(r) PROVE IInv'
  <2>1. CASE EnterOnce(r)
    BY <2>1 DEF EnterOnce
  <2>2. CASE LeaveOnce(r)
    BY <2>2 DEF LeaveOnce
  <2>3. CASE SkipOnce(r)
    BY <2>3 DEF SkipOnce
  <2>4. CASE TakeToken(r)
    BY <2>4 DEF TakeToken
  <2>5. CASE GiveUp(r)
    BY <2>5 DEF GiveUp
  <2>6. CASE Reloaded(r)
    BY <2>6 DEF Reloaded
  <2> QED
    BY <1>3, <2>1, <2>2, <2>3, <2>4, <2>5, <2>6 DEF Reload
<1>4. CASE UNCHANGED vars
  BY <1>4 DEF vars
<1> QED
  BY <1>1, <1>2, <1>3, <1>4 DEF Next

\* Every reload has its cause, whatever the pages do.
THEOREM ReloadsPaid == Spec => []ReloadsArePaidFor
<1>1. IInv => ReloadsArePaidFor
  BY DEF IInv
<1> QED
  BY InitIInv, NextIInv, <1>1, PTL DEF Spec

\* The Once admits one request, and no request gets past it earlier.
THEOREM OnceExclusive == Spec => []OneRunsOnce
<1>1. IInv => OneRunsOnce
  BY DEF IInv
<1> QED
  BY InitIInv, NextIInv, <1>1, PTL DEF Spec
-------------------------------------------------------------------------------
(* The session of tabs and builds: each of its steps is a step of HotReload *)
(* for the process, or leaves the process alone, or starts a new process.   *)

PagesIInv == IInv /\ PagesTypeOK

LEMMA PagesInitIInv == PagesInit => PagesIInv
<1> SUFFICES ASSUME PagesInit PROVE PagesIInv
  OBVIOUS
<1>1. IInv
  BY InitIInv DEF PagesInit
<1>2. TypeOK /\ build \in 1..MaxBuilds /\ events \in 0..MaxEvents
  BY <1>1, PagesAssumption DEF PagesInit, IInv
<1>3. lost \in BOOLEAN
  BY DEF PagesInit
<1>4. page \in [Tabs -> 0..MaxBuilds] /\ request \in [Tabs -> Requests \cup {None}]
  BY PagesAssumption DEF PagesInit
<1>5. \A t \in Tabs : request[t] = None
  BY DEF PagesInit
<1>6. told \cup asleep \cup ended \subseteq {t \in Tabs : page[t] # 0}
  BY DEF PagesInit
<1>7. RequestsOfPages
  BY <1>5 DEF RequestsOfPages
<1> QED
  BY <1>1, <1>2, <1>3, <1>4, <1>6, <1>7 DEF PagesIInv, PagesTypeOK

\* The steps that leave the server to HotReload.
LEMMA PagesNextProcess ==
  ASSUME PagesIInv, [PagesNext]_<<vars, pageVars>>
  PROVE  [Next]_vars \/ Restart
<1>1. CASE Post /\ UNCHANGED pageVars
  BY <1>1 DEF Next
<1>2. CASE Restart
  BY <1>2
<1>3. ASSUME NEW t \in Tabs, Leave(t) PROVE [Next]_vars
  BY <1>3 DEF Leave, Next, PagesIInv, PagesTypeOK
<1>4. ASSUME NEW t \in Tabs,
             Visit(t) \/ Refresh(t) \/ Close(t) \/ Lose(t) \/ Show(t)
                \/ \E r \in Requests : Connect(t, r)
      PROVE  [Next]_vars
  <2>1. CASE Visit(t) \/ Refresh(t) \/ Close(t)
    BY <1>3, <2>1 DEF Visit, Refresh, Close, Load
  <2>2. CASE Lose(t)
    BY <2>2 DEF Lose, Next, PagesIInv, PagesTypeOK
  <2>3. CASE Show(t)
    BY <2>3 DEF Show
  <2>4. CASE \E r \in Requests : Connect(t, r)
    BY <2>4 DEF Connect, Next
  <2> QED
    BY <1>4, <2>1, <2>2, <2>3, <2>4
<1>5. ASSUME NEW r \in Requests, Handle(r) PROVE Next
  BY <1>5 DEF Handle, Send, Reload, Next
<1>6. CASE UNCHANGED <<vars, pageVars>>
  BY <1>6
<1> QED
  BY <1>1, <1>2, <1>4, <1>5, <1>6 DEF PagesNext

\* A page that gives up its request leaves those of the others alone.
LEMMA RequestGivenUp ==
  ASSUME PagesTypeOK, NEW t \in Tabs, request' = [request EXCEPT ![t] = None],
         (request[t] = None /\ UNCHANGED <<at, gone>>) \/ HangUp(request[t]),
         \A u \in Tabs \ {t} : page'[u] = page[u]
  PROVE  RequestsOfPages' /\ request' \in [Tabs -> Requests \cup {None}]
<1> USE DEF PagesTypeOK, TypeOK, RequestsOfPages
<1>1. request'[t] = None /\ \A u \in Tabs \ {t} : request'[u] = request[u]
  OBVIOUS
<1>2. at' = at /\ (gone' = gone \/ gone' = [gone EXCEPT ![request[t]] = TRUE])
  BY DEF HangUp
<1>3. \A u \in Tabs \ {t} : request[u] # None => gone'[request[u]] = gone[request[u]]
  BY <1>2
<1> QED
  BY <1>1, <1>2, <1>3

LEMMA PagesNextIInv == PagesIInv /\ [PagesNext]_<<vars, pageVars>> => PagesIInv'
<1> SUFFICES ASSUME PagesIInv, [PagesNext]_<<vars, pageVars>> PROVE PagesIInv'
  OBVIOUS
<1> USE PagesAssumption DEF PagesIInv, PagesTypeOK
<1>1. IInv'
  <2>1. CASE Restart
    BY <2>1, BoundsAssumption
       DEF Restart, NewBuild, IInv, TypeOK, OneRunsOnce, ReloadsArePaidFor
  <2> QED
    BY <2>1, PagesNextProcess, NextIInv
<1>2. TypeOK'
  BY <1>1 DEF IInv
<1>3. CASE Post /\ UNCHANGED pageVars
  BY <1>1, <1>2, <1>3 DEF Post, pageVars, RequestsOfPages
<1>4. CASE Restart
  <2>1. request' = [t \in Tabs |-> None]
    BY <1>4 DEF Restart, NewBuild
  <2>2. RequestsOfPages'
    BY <2>1 DEF RequestsOfPages
  <2>3. ended' \subseteq {t \in Tabs : page[t] # 0}
    BY <1>4 DEF Restart, RequestsOfPages
  <2>4. told' \cup asleep' \cup ended' \subseteq {t \in Tabs : page'[t] # 0}
    BY <1>4, <2>3 DEF Restart, NewBuild
  <2>5. build' \in 1..MaxBuilds /\ request' \in [Tabs -> Requests \cup {None}]
    BY <1>4, <2>1 DEF Restart, NewBuild
  <2>6. lost' \in BOOLEAN
    BY <1>4 DEF Restart, NewBuild
  <2> QED
    BY <1>1, <1>2, <1>4, <2>2, <2>4, <2>5, <2>6 DEF Restart, NewBuild
<1>5. ASSUME NEW t \in Tabs, Visit(t) \/ Refresh(t) \/ Close(t) PROVE PagesIInv'
  <2>1. Leave(t) /\ (page' = [page EXCEPT ![t] = build] \/ page' = [page EXCEPT ![t] = 0])
    BY <1>5 DEF Visit, Refresh, Close, Load
  <2>2. RequestsOfPages' /\ request' \in [Tabs -> Requests \cup {None}]
    BY <2>1, RequestGivenUp DEF Leave, vars
  <2>3. told' \cup asleep' \cup ended' \subseteq {u \in Tabs : page'[u] # 0}
    BY <2>1 DEF Leave
  <2>4. lost' \in BOOLEAN
    BY <1>5 DEF Visit, Refresh, Close, Load
  <2> QED
    BY <1>1, <1>2, <1>5, <2>1, <2>2, <2>3, <2>4 DEF Visit, Refresh, Close, Load, Event
<1>6. ASSUME NEW t \in Tabs, Lose(t) PROVE PagesIInv'
  <2>1. RequestsOfPages' /\ request' \in [Tabs -> Requests \cup {None}]
    BY <1>6, RequestGivenUp DEF Lose
  <2>2. page[t] # 0
    BY <1>6 DEF Lose, RequestsOfPages
  <2>3. lost' \in BOOLEAN
    BY <1>6 DEF Lose
  <2> QED
    BY <1>1, <1>2, <1>6, <2>1, <2>2, <2>3 DEF Lose, Event
<1>7. ASSUME NEW t \in Tabs, Show(t) PROVE PagesIInv'
  BY <1>1, <1>2, <1>7 DEF Show, Event, vars, RequestsOfPages
<1>8. ASSUME NEW t \in Tabs, NEW r \in Requests, Connect(t, r) PROVE PagesIInv'
  <2>1. /\ at[r] = "none" /\ at' = [at EXCEPT ![r] = "once"]
        /\ gone' = [gone EXCEPT ![r] = FALSE] /\ request' = [request EXCEPT ![t] = r]
    BY <1>8 DEF Connect, Open, Move
  <2>2. at'[r] = "once" /\ ~gone'[r]
    BY <2>1 DEF TypeOK
  <2>3. page[t] # 0
    BY <1>8 DEF Connect, Watching
  <2>4. RequestsOfPages'
    BY <1>8, <2>1, <2>2, <2>3 DEF Connect, RequestsOfPages, TypeOK
  <2> QED
    BY <1>1, <1>2, <1>8, <2>1, <2>4 DEF Connect
<1>9. ASSUME NEW r \in Requests, Handle(r) PROVE PagesIInv'
  <2>1. /\ gone' = gone /\ \E stage : at' = [at EXCEPT ![r] = stage]
    BY <1>9 DEF Handle, Send, LeaveOnce, Reloaded, EnterOnce, SkipOnce, TakeToken, GiveUp, Move
  <2>2. CASE Send(r)
    <3>1. \A t \in Tabs : request'[t] = IF request[t] = r /\ at'[r] = "none"
                                          THEN None ELSE request[t]
      BY <2>2 DEF Send
    <3>2. told' \subseteq {t \in Tabs : page[t] # 0}
      BY <2>2 DEF Send, RequestsOfPages
    <3>3. RequestsOfPages'
      BY <2>1, <2>2, <3>1 DEF Send, RequestsOfPages, TypeOK
    <3> QED
      BY <1>1, <1>2, <2>2, <3>2, <3>3 DEF Send
  <2>3. CASE UNCHANGED pageVars /\ (at'[r] # "none" \/ GiveUp(r))
    BY <1>1, <1>2, <2>1, <2>3 DEF GiveUp, Move, pageVars, RequestsOfPages, TypeOK
  <2> QED
    BY <1>9, <2>2, <2>3 DEF Handle, EnterOnce, SkipOnce, TakeToken, Move, TypeOK
<1>10. CASE UNCHANGED <<vars, pageVars>>
  BY <1>1, <1>2, <1>10 DEF vars, pageVars, RequestsOfPages
<1> QED
  BY <1>1, <1>3, <1>4, <1>5, <1>6, <1>7, <1>8, <1>9, <1>10 DEF PagesNext

\* The session keeps its types, and no two pages share a request.
THEOREM PagesTypeCorrect == PagesSpec => []PagesTypeOK
<1>1. PagesIInv => PagesTypeOK
  BY DEF PagesIInv
<1> QED
  BY PagesInitIInv, PagesNextIInv, <1>1, PTL DEF PagesSpec

\* However tabs, builds and interruptions come, a page is told to reload once
\* for the process it reaches and once for each token, and by one at a time.
THEOREM PagesReloadsPaid == PagesSpec => []ReloadsArePaidFor /\ []OneRunsOnce
<1>1. PagesIInv => ReloadsArePaidFor /\ OneRunsOnce
  BY DEF PagesIInv, IInv
<1> QED
  BY PagesInitIInv, PagesNextIInv, <1>1, PTL DEF PagesSpec
===============================================================================
