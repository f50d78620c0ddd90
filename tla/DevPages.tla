-------------------------------- MODULE DevPages --------------------------------
(***************************************************************************)
(* A development session: browser tabs over the endpoints of HotReload,    *)
(* and a server that is built anew and restarted while the tabs are open.  *)
(* Each page asks for /reload when it is loaded, asks again when that      *)
(* fails, and reloads itself when it is sent the script.                   *)
(*                                                                         *)
(* HotReload is one process of the server.  Its history counts since the   *)
(* last restart.                                                           *)
(***************************************************************************)
EXTENDS HotReload

CONSTANTS Tabs,        \* browser tabs
          None,        \* no request
          MaxBuilds,   \* bound: builds in a behaviour
          MaxEvents    \* bound: what users and the network do to the tabs

ASSUME PagesAssumption ==
  None \notin Requests /\ MaxBuilds \in Nat \ {0} /\ MaxEvents \in Nat

VARIABLES
  build,    \* the build that is running
  page,     \* the build that rendered each tab's page; 0 for no page
  request,  \* the /reload request of each page
  told,     \* the tabs that have received the script
  asleep,   \* hidden tabs, whose request was aborted until they are shown
  ended,    \* tabs whose stream came to its end, after which Datastar stops
  events,   \* number of things users and the network have done
  lost      \* a tab was closed or cut off since the last restart (history)

pageVars == <<build, page, request, told, asleep, ended, events, lost>>

\* No page shares its request, or keeps one that is finished or given up.
RequestsOfPages ==
  /\ \A t, u \in Tabs : request[t] = request[u] /\ request[t] # None => t = u
  /\ \A t \in Tabs : request[t] # None =>
       page[t] # 0 /\ at[request[t]] # "none" /\ ~gone[request[t]]

PagesTypeOK ==
  /\ TypeOK
  /\ build \in 1..MaxBuilds /\ page \in [Tabs -> 0..MaxBuilds]
  /\ request \in [Tabs -> Requests \cup {None}]
  /\ told \cup asleep \cup ended \subseteq {t \in Tabs : page[t] # 0}
  /\ events \in 0..MaxEvents /\ lost \in BOOLEAN
  /\ RequestsOfPages

PagesInit ==
  /\ Init /\ build = 1 /\ page = [t \in Tabs |-> 0]
  /\ request = [t \in Tabs |-> None] /\ told = {} /\ asleep = {} /\ ended = {}
  /\ events = 0 /\ lost = FALSE

\* The tabs that ask for /reload, or will when their retry is due.
Watching == {t \in Tabs : page[t] # 0 /\ t \notin told \cup asleep \cup ended}
-------------------------------------------------------------------------------
\* The page of a tab goes away, and its connection with it.
Leave(t) ==
  /\ request' = [request EXCEPT ![t] = None]
  /\ told' = told \ {t} /\ asleep' = asleep \ {t} /\ ended' = ended \ {t}
  /\ IF request[t] = None THEN UNCHANGED vars ELSE HangUp(request[t])

Load(t) == page' = [page EXCEPT ![t] = build] /\ Leave(t) /\ UNCHANGED <<build, lost>>

Event == events < MaxEvents /\ events' = events + 1

\* A tab is opened, or its page reloaded by hand.
Visit(t) == Event /\ Load(t)

\* window.location.reload()
Refresh(t) == t \in told /\ Load(t) /\ UNCHANGED events

Close(t) ==
  /\ Event /\ page[t] # 0 /\ page' = [page EXCEPT ![t] = 0]
  /\ Leave(t) /\ lost' = TRUE /\ UNCHANGED build

\* Mutant: the page asks for /reload when it is loaded and never again.
ConnectOnLoad(t, r) ==
  /\ t \in Watching /\ page[t] = build /\ request[t] = None
  /\ Open(r) /\ request' = [request EXCEPT ![t] = r]
  /\ UNCHANGED <<build, page, told, asleep, ended, events, lost>>

\* data-init="@get('/reload', ...)": its retries outlast a restart.
Connect(t, r) ==
  /\ t \in Watching /\ request[t] = None
  /\ Open(r) /\ request' = [request EXCEPT ![t] = r]
  /\ UNCHANGED <<build, page, told, asleep, ended, events, lost>>

\* The network drops a connection, or the tab is hidden: a GET is then aborted,
\* and made anew only when the tab is shown.
Lose(t) ==
  /\ Event /\ request[t] # None /\ HangUp(request[t])
  /\ request' = [request EXCEPT ![t] = None] /\ lost' = TRUE
  /\ asleep' \in {asleep, asleep \cup {t}}
  /\ UNCHANGED <<build, page, told, ended>>

Show(t) ==
  /\ Event /\ t \in asleep /\ asleep' = asleep \ {t}
  /\ UNCHANGED <<vars, build, page, request, told, ended, lost>>

\* The script arrives.  The handler of a token returns, one that ran under the
\* Once goes on to wait for a token.
Send(r) ==
  /\ LeaveOnce(r) \/ Reloaded(r)
  /\ told' = told \cup {t \in Tabs : request[t] = r}
  /\ request' = [t \in Tabs |-> IF request[t] = r /\ at'[r] = "none" THEN None
                                                                   ELSE request[t]]
  /\ UNCHANGED <<build, page, asleep, ended, events, lost>>

Handle(r) ==
  \/ Send(r)
  \/ /\ EnterOnce(r) \/ SkipOnce(r) \/ TakeToken(r) \/ GiveUp(r)
     /\ UNCHANGED pageVars

\* The requests of the old process are gone with it.
NewBuild ==
  /\ build < MaxBuilds /\ build' = build + 1
  /\ queued' = 0 /\ accepted' = 0 /\ reloads' = 0 /\ UNCHANGED <<opened, posts>>
  /\ at' = [r \in Requests |-> "none"] /\ gone' = [r \in Requests |-> FALSE]
  /\ request' = [t \in Tabs |-> None] /\ lost' = FALSE
  /\ UNCHANGED <<page, told, asleep, events>>

\* A new build takes the place of the old process, which is killed: requests
\* fail and are retried.  When it is interrupted instead, its handlers return
\* and the streams end as if nothing was to come.
Restart ==
  /\ NewBuild /\ once' = "fresh"
  /\ ended' \in {ended, ended \cup {t \in Tabs : request[t] # None}}

PagesNext ==
  \/ Post /\ UNCHANGED pageVars
  \/ Restart
  \/ \E t \in Tabs : \/ Visit(t) \/ Refresh(t) \/ Close(t) \/ Lose(t) \/ Show(t)
                     \/ \E r \in Requests : Connect(t, r)
  \/ \E r \in Requests : Handle(r)

PagesSpec == PagesInit /\ [][PagesNext]_<<vars, pageVars>>

\* Handlers run, LeaveOnce without a reading client too: the script is all that
\* is written, and fits the socket's buffer.  Pages retry and do as the script
\* says.  Tabs need not be shown.
PagesFairSpec ==
  /\ PagesSpec
  /\ \A r \in Requests : WF_<<vars, pageVars>>(Handle(r))
  /\ \A t \in Tabs : /\ WF_<<vars, pageVars>>(Refresh(t))
                     /\ WF_<<vars, pageVars>>(\E r \in Requests : Connect(t, r))
-------------------------------------------------------------------------------
\* The bound on requests keeps a page from connecting.
OutOfRequests == opened = MaxOpened /\ \E t \in Watching : request[t] = None

\* "Hot reload": when a new build is running and a tab watches it, the tabs do
\* not all go on showing older builds, unless one was closed, hidden or cut off
\* since: the first to reach the Once of the new process is told.  The others
\* wait for tokens, which nothing sends.
SomeTabCatchesUp ==
  <>[](~lost /\ Watching \cup told # {}) =>
    <>[](OutOfRequests \/ \E t \in Tabs : page[t] = build)
===============================================================================
