------------------------------- MODULE HotReload -------------------------------
(***************************************************************************)
(* The development endpoints of router.setupReload.  Every open page keeps *)
(* a /reload request; the first one of the process makes its page reload,  *)
(* under a sync.Once, and each later reload is paid for by a /hotreload    *)
(* request, through a channel that holds one token.                        *)
(***************************************************************************)
EXTENDS Naturals

CONSTANTS Requests,    \* /reload requests that may be open at the same time
          MaxOpened,   \* bound: /reload requests opened in a behaviour
          MaxPosts     \* bound: /hotreload requests in a behaviour

ASSUME BoundsAssumption == MaxOpened \in Nat /\ MaxPosts \in Nat

VARIABLES
  once,      \* hotReloadOnce: "fresh", "running" or "done"
  queued,    \* number of tokens in reloadChan, whose capacity is one
  at,        \* where each /reload handler is; "none" when there is no request
  gone,      \* r.Context() of the request is done
  opened,    \* number of /reload requests so far
  posts,     \* number of /hotreload requests so far
  accepted,  \* how many of them put a token into the channel
  reloads    \* how often reload() has been called

vars == <<once, queued, at, gone, opened, posts, accepted, reloads>>

TypeOK ==
  /\ once \in {"fresh", "running", "done"} /\ queued \in 0..1
  /\ at \in [Requests -> {"none", "once", "first", "select", "reload"}]
  /\ gone \in [Requests -> BOOLEAN]
  /\ opened \in 0..MaxOpened /\ posts \in 0..MaxPosts
  /\ accepted \in 0..posts /\ reloads \in Nat

Init ==
  /\ once = "fresh" /\ queued = 0
  /\ at = [r \in Requests |-> "none"] /\ gone = [r \in Requests |-> FALSE]
  /\ opened = 0 /\ posts = 0 /\ accepted = 0 /\ reloads = 0

Move(r, from, to) == at[r] = from /\ at' = [at EXCEPT ![r] = to]

Open(r) ==
  /\ opened < MaxOpened /\ opened' = opened + 1
  /\ Move(r, "none", "once") /\ gone' = [gone EXCEPT ![r] = FALSE]
  /\ UNCHANGED <<once, queued, posts, accepted, reloads>>

\* The page closed its connection, or the process was interrupted.
HangUp(r) ==
  /\ at[r] # "none" /\ ~gone[r] /\ gone' = [gone EXCEPT ![r] = TRUE]
  /\ UNCHANGED <<once, queued, at, opened, posts, accepted, reloads>>

\* Mutant: a flag that is read before it is set instead of the sync.Once.
EnterOnceUnguarded(r) ==
  /\ Move(r, "once", "first")
  /\ once # "done" /\ once' = "running" /\ reloads' = reloads + 1
  /\ UNCHANGED <<queued, gone, opened, posts, accepted>>

\* hotReloadOnce.Do: one request runs reload, whoever comes meanwhile waits for
\* it, whether its context is done or not.
EnterOnce(r) ==
  /\ Move(r, "once", "first")
  /\ once = "fresh" /\ once' = "running" /\ reloads' = reloads + 1
  /\ UNCHANGED <<queued, gone, opened, posts, accepted>>

\* Mutant: the Once is given back when the script could not be sent, and stays
\* locked.
LeaveOnceOnSuccess(r) ==
  /\ Move(r, "first", "select") /\ once' = IF gone[r] THEN once ELSE "done"
  /\ UNCHANGED <<queued, gone, opened, posts, accepted, reloads>>

\* The script was sent, or could not be: that is only logged.
LeaveOnce(r) ==
  /\ Move(r, "first", "select") /\ once' = "done"
  /\ UNCHANGED <<queued, gone, opened, posts, accepted, reloads>>

SkipOnce(r) ==
  /\ once = "done" /\ Move(r, "once", "select")
  /\ UNCHANGED <<once, queued, gone, opened, posts, accepted, reloads>>

\* Mutant: the token is only looked at, not received.
TakeTokenPeek(r) ==
  /\ queued = 1 /\ Move(r, "select", "reload") /\ reloads' = reloads + 1
  /\ UNCHANGED <<once, queued, gone, opened, posts, accepted>>

\* select may choose the token even when the context is done as well: the
\* reload is then lost with its connection.
TakeToken(r) ==
  /\ queued = 1 /\ queued' = 0
  /\ Move(r, "select", "reload") /\ reloads' = reloads + 1
  /\ UNCHANGED <<once, gone, opened, posts, accepted>>

GiveUp(r) ==
  /\ gone[r] /\ Move(r, "select", "none")
  /\ UNCHANGED <<once, queued, gone, opened, posts, accepted, reloads>>

Reloaded(r) ==
  /\ Move(r, "reload", "none")
  /\ UNCHANGED <<once, queued, gone, opened, posts, accepted, reloads>>

\* Mutant: a queue without the default branch's limit.
PostUnlimited ==
  /\ posts < MaxPosts /\ posts' = posts + 1
  /\ queued' = queued + 1 /\ accepted' = accepted + 1
  /\ UNCHANGED <<once, at, gone, opened, reloads>>

\* /hotreload never waits: a second token is dropped while one is pending.
Post ==
  /\ posts < MaxPosts /\ posts' = posts + 1
  /\ queued' = 1 /\ accepted' = accepted + (1 - queued)
  /\ UNCHANGED <<once, at, gone, opened, reloads>>

Reload(r) == \/ EnterOnce(r) \/ LeaveOnce(r) \/ SkipOnce(r)
             \/ TakeToken(r) \/ GiveUp(r) \/ Reloaded(r)

Next == Post \/ \E r \in Requests : Open(r) \/ HangUp(r) \/ Reload(r)

Spec == Init /\ [][Next]_vars

-------------------------------------------------------------------------------
\* Each reload has its cause, so pages cannot keep each other, or themselves,
\* reloading: the first request of the process, or a token that was sent and is
\* not in the channel any more.  Tokens are neither lost nor received twice.
ReloadsArePaidFor ==
  reloads = (IF once = "fresh" THEN 0 ELSE 1) + accepted - queued

\* One request at a time is inside the Once, and none is past it before it is
\* done: a page that connects meanwhile cannot take a token first.
OneRunsOnce ==
  /\ \A r, s \in Requests : at[r] = "first" /\ at[s] = "first" => r = s
  /\ (\E r \in Requests : at[r] = "first") => once = "running"
  /\ (\E r \in Requests : at[r] \in {"select", "reload"}) => once = "done"

\* Requests that wait for the one inside the Once do not see their own context;
\* they get on all the same, even when the one inside lost its client.
NobodyStuckInOnce == \A r \in Requests : at[r] = "once" ~> at[r] # "once"

\* A pending reload does not stay in the channel beside an open page.
PendingReloadTaken ==
  ~<>[](queued = 1 /\ \E r \in Requests : at[r] # "none" /\ ~gone[r])
===============================================================================
