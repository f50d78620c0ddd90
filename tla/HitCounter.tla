------------------------------- MODULE HitCounter -------------------------------
(***************************************************************************)
(* The counter of the index page: a package variable that the handlers of  *)
(* /increment add to and all handlers of the page read, each in its own    *)
(* goroutine and without a lock, so that count++ is a load and a store.    *)
(* Datastar sends a click's request, aborts it for the next click, sends   *)
(* it again when it fails, and patches the page with the answer.  Pages    *)
(* outlive the process, and the count does not.                            *)
(***************************************************************************)
EXTENDS Naturals

CONSTANTS Browsers,    \* one page each
          Requests,    \* requests that may be handled at the same time
          None,        \* no browser, or no page
          MaxSent      \* bound: requests sent in a behaviour

ASSUME CounterAssumption == None \notin Browsers \cup Nat /\ MaxSent \in Nat

VARIABLES
  count,      \* handlers.go: var count int, of the process that runs
  at,         \* where each handler is; "load" and "page" before it has started
  reg,        \* the value it has read last
  owner,      \* the browser whose page waits for the answer; None if aborted
  page,       \* the number on each browser's page
  failed,     \* pages whose click failed and is sent again
  sent,       \* number of requests so far
  floor,      \* count when last no handler was between load and store (history)
  base,       \* floor when each click's handler started (history)
  overlapped, \* two handlers have been between load and store (history)
  stale       \* pages with a number of an earlier process (history)

vars == <<count, at, reg, owner, page, failed, sent, floor, base, overlapped, stale>>
history == <<floor, base, overlapped, stale>>

TypeOK ==
  /\ sent \in 0..MaxSent /\ count \in 0..sent /\ floor \in 0..sent
  /\ at \in [Requests -> {"none", "load", "store", "read", "write", "page", "render"}]
  /\ reg \in [Requests -> 0..sent] /\ base \in [Requests -> 0..sent]
  /\ owner \in [Requests -> Browsers \cup {None}]
  /\ \A r \in Requests : at[r] = "none" => owner[r] = None
  /\ page \in [Browsers -> 0..sent \cup {None}]
  /\ failed \subseteq Browsers /\ stale \subseteq Browsers /\ overlapped \in BOOLEAN

Init ==
  /\ count = 0 /\ sent = 0 /\ failed = {}
  /\ at = [r \in Requests |-> "none"] /\ reg = [r \in Requests |-> 0]
  /\ owner = [r \in Requests |-> None] /\ page = [b \in Browsers |-> None]
  /\ floor = 0 /\ base = [r \in Requests |-> 0] /\ overlapped = FALSE /\ stale = {}

Move(r, from, to) == at[r] = from /\ at' = [at EXCEPT ![r] = to]
Adding == {r \in Requests : at[r] = "store"}
-------------------------------------------------------------------------------
(* The browsers.                                                           *)

\* Mutant: {requestCancellation: 'disabled'}.
SendAlongside(b, r, to) ==
  /\ sent < MaxSent /\ sent' = sent + 1 /\ Move(r, "none", to)
  /\ owner' = [owner EXCEPT ![r] = b]
  /\ failed' = failed \ {b} /\ UNCHANGED <<count, reg, history>>

\* A browser has one request at a time: what it asked for before is aborted.
Send(b, r, to) ==
  /\ sent < MaxSent /\ sent' = sent + 1 /\ Move(r, "none", to)
  /\ owner' = [q \in Requests |-> IF q = r THEN b
                                  ELSE IF owner[q] = b THEN None ELSE owner[q]]
  /\ failed' = failed \ {b} /\ UNCHANGED <<count, reg, history>>

Visit(b, r) == Send(b, r, "page") /\ page' = [page EXCEPT ![b] = None]

\* data-on:click="@get('/increment')"
Click(b, r) == page[b] # None /\ Send(b, r, "load") /\ UNCHANGED page

\* What was asked for a click that failed is asked for again.
Retry(b, r) == b \in failed /\ Click(b, r)

\* The connection is lost before the answer arrives, or the tab is hidden.
Fail(b) ==
  /\ b \in {owner[r] : r \in Requests}
  /\ owner' = [r \in Requests |-> IF owner[r] = b THEN None ELSE owner[r]]
  /\ failed' = IF page[b] = None THEN failed ELSE failed \cup {b}
  /\ UNCHANGED <<count, at, reg, page, sent, history>>
-------------------------------------------------------------------------------
(* The handlers.                                                           *)

\* A request that was aborted need not have reached the server.
Vanish(r) ==
  /\ owner[r] = None /\ (Move(r, "load", "none") \/ Move(r, "page", "none"))
  /\ UNCHANGED <<count, reg, owner, page, failed, sent, history>>

\* Mutant: the page sends the number it shows, and is told that number plus one.
LoadFromPage(r) ==
  /\ Move(r, "load", "store")
  /\ reg' = [reg EXCEPT ![r] = IF owner[r] = None THEN count ELSE page[owner[r]]]
  /\ base' = [base EXCEPT ![r] = floor]
  /\ overlapped' = (overlapped \/ Adding # {})
  /\ UNCHANGED <<count, owner, page, failed, sent, floor, stale>>

\* count++ does not look at the request's context.
Load(r) ==
  /\ Move(r, "load", "store")
  /\ reg' = [reg EXCEPT ![r] = count] /\ base' = [base EXCEPT ![r] = floor]
  /\ overlapped' = (overlapped \/ Adding # {})
  /\ UNCHANGED <<count, owner, page, failed, sent, floor, stale>>

Store(r) ==
  /\ Move(r, "store", "read") /\ count' = reg[r] + 1
  /\ floor' = IF Adding = {r} THEN count' ELSE floor
  /\ UNCHANGED <<reg, owner, page, failed, sent, base, overlapped, stale>>

\* Mutant: n := count; count++; pages.Counter(n).
ReadOld(r) ==
  /\ Move(r, "read", "write") \/ Move(r, "page", "render")
  /\ reg' = [reg EXCEPT ![r] = IF at[r] = "read" THEN @ ELSE count]
  /\ UNCHANGED <<count, owner, page, failed, sent, history>>

\* Mutant: a view counts as well.
ReadIncrementing(r) ==
  /\ Move(r, "read", "write") \/ Move(r, "page", "render")
  /\ count' = count + 1 /\ reg' = [reg EXCEPT ![r] = count']
  /\ UNCHANGED <<owner, page, failed, sent, history>>

\* pages.Counter(count) reads the variable again, whoever wrote it meanwhile;
\* pages.IndexPage(count, ...) does so after both backends have answered.
Read(r) ==
  /\ Move(r, "read", "write") \/ Move(r, "page", "render")
  /\ reg' = [reg EXCEPT ![r] = count]
  /\ UNCHANGED <<count, owner, page, failed, sent, history>>

\* The answer is on the page, unless the request's context is done.
Write(r) ==
  /\ Move(r, "write", "none") \/ Move(r, "render", "none")
  /\ owner' = [owner EXCEPT ![r] = None]
  /\ page' = [b \in Browsers |-> IF b = owner[r] THEN reg[r] ELSE page[b]]
  /\ stale' = stale \ {owner[r]}
  /\ UNCHANGED <<count, reg, failed, sent, floor, base, overlapped>>

\* The process ends, however it does, and is started again: handlers and
\* connections are gone, and the variable is zero.  The pages stay, and send
\* again the clicks that were not answered.
Restart ==
  /\ count' = 0 /\ at' = [r \in Requests |-> "none"] /\ reg' = [r \in Requests |-> 0]
  /\ owner' = [r \in Requests |-> None]
  /\ failed' = failed \cup {b \in Browsers : page[b] # None /\ \E r \in Requests : owner[r] = b}
  /\ floor' = 0 /\ base' = [r \in Requests |-> 0] /\ overlapped' = FALSE
  /\ stale' = {b \in Browsers : page[b] # None}
  /\ UNCHANGED <<page, sent>>

Next == \/ Restart
        \/ \E b \in Browsers : \/ Fail(b)
                               \/ \E r \in Requests : Visit(b, r) \/ Click(b, r) \/ Retry(b, r)
        \/ \E r \in Requests : Vanish(r) \/ Load(r) \/ Store(r) \/ Read(r) \/ Write(r)

Spec == Init /\ [][Next]_vars
-------------------------------------------------------------------------------
\* Overlapping clicks overwrite one another, but only one another: what the
\* process had counted when last no click was being added is never taken back.
CountedIsKept == count >= floor

\* The answer of a click shows more than had been counted when it was made,
\* even though others add, and overwrite it, before the variable is read again.
AnswerCountsClick ==
  \A r \in Requests : at[r] = "write" => reg[r] > base[r]

\* As long as clicks do not overlap, the number on a page falls only when the
\* page still shows that of a process that has been restarted since: no answer
\* comes after that of a later request, and no retry takes a click back.
PagesGoForward ==
  [][\A b \in Browsers \ stale :
       page[b] # None /\ page'[b] # None /\ ~overlapped => page'[b] >= page[b]]_vars
===============================================================================
