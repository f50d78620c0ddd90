------------------------------- MODULE WebServer -------------------------------
(***************************************************************************)
(* The process cmd/web: run() opens the database pool and the NATS         *)
(* connection, starts two goroutines under an errgroup (ListenAndServe and *)
(* the one that waits for the group's context and calls Shutdown), waits   *)
(* for both, and releases what it opened through its deferred calls, last  *)
(* opened first.  Requests are served meanwhile, each by a goroutine that  *)
(* walks through the stages of its route's handler and whose context is    *)
(* done when the client hangs up or the process is interrupted.            *)
(*                                                                         *)
(* Time is abstract: a timeout may fire at any moment it is armed.         *)
(***************************************************************************)
EXTENDS Integers, FiniteSets

CONSTANTS Conns,       \* the client connections, each open at most once at a time
          MaxConns,    \* DATABASE_MAX_CONNECTIONS, an int
          Half         \* 2^31: half of what an int32 can tell apart

ASSUME PoolAssumption ==
  IsFiniteSet(Conns) /\ MaxConns \in Int /\ Half \in Nat \ {0}

VARIABLES
  pc,            \* where run() is; "exited" or "killed" once the process is gone
  interrupted,   \* SIGINT was received: the signal context is done
  err,           \* the error run() will return: of startup or the errgroup's first
  srv,           \* the goroutine in ListenAndServe
  shut,          \* the goroutine that calls Shutdown
  expired,       \* the five seconds of shutdownCtx ran out
  db,            \* the pgx pool
  nats,          \* the NATS connection
  conn,          \* state of each client connection, as net/http tracks it
  at,            \* stage of its handler
  status         \* how the request was, or is about to be, answered

runVars == <<pc, interrupted, err>>
groupVars == <<srv, shut, expired>>
resources == <<db, nats>>
reqVars == <<conn, at, status>>
vars == <<pc, interrupted, err, srv, shut, expired, db, nats, conn, at, status>>

\* The first stage of each route's handler.  "static" stands for the handlers
\* that only write: assets, what the login form is sent to, and /hotreload.
FirstStage == [index |-> "acquire", increment |-> "render", ping |-> "ping",
               publish |-> "publish", reload |-> "reload", login |-> "render",
               static |-> "write"]
Routes == DOMAIN FirstStage

\* The page of "/" needs a query and the count, a publish its own count.
Stages == {"none", "acquire", "query", "pageCount", "publish", "jobsCount",
           "ping", "reload", "render", "write"}

\* int32(config.Env.DBMaxConns), the size of the pgx pool.
PoolSize == ((MaxConns + Half) % (2 * Half)) - Half

Startup == {"loadConfig", "openDB", "dialNATS", "ensureStreams", "setupRoutes"}
Cleanup == {"closeNATS", "closeDB", "return", "exited"}

TypeOK ==
  /\ pc \in Startup \cup Cleanup \cup {"serve", "killed"}
  /\ interrupted \in BOOLEAN /\ expired \in BOOLEAN
  /\ err \in {"none", "startup", "server", "shutdown"}
  /\ srv \in {"off", "starting", "accepting", "returned"}
  /\ shut \in {"off", "waiting", "draining", "polling", "returned"}
  /\ db \in {"none", "open", "closing", "closed"}
  /\ nats \in {"none", "open", "reconnecting", "draining", "closed"}
  /\ conn \in [Conns -> {"closed", "new", "idle", "active", "hungup"}]
  /\ at \in [Conns -> Stages]
  /\ status \in [Conns -> {"none", "ok", "error", "aborted"}]

Alive == pc \notin {"exited", "killed"}
InShutdown == shut \in {"draining", "polling", "returned"}
\* Mutant: the stopping goroutine waits for ctx instead of egctx.
GroupDoneSignalOnly == interrupted
GroupDone == interrupted \/ err # "none"              \* egctx.Done()
\* Mutant: no BaseContext, requests do not see the signal.
RequestDoneNoBaseContext(c) == conn[c] = "hungup"
RequestDone(c) == interrupted \/ conn[c] = "hungup"   \* r.Context().Done()
Serving(c) == conn[c] \in {"active", "hungup"}        \* StateActive in net/http
Held == {c \in Conns : at[c] = "query"}               \* pool connections in use

Init ==
  /\ pc = "loadConfig" /\ interrupted = FALSE /\ err = "none"
  /\ srv = "off" /\ shut = "off" /\ expired = FALSE
  /\ db = "none" /\ nats = "none"
  /\ conn = [c \in Conns |-> "closed"]
  /\ at = [c \in Conns |-> "none"]
  /\ status = [c \in Conns |-> "none"]
-------------------------------------------------------------------------------
(* Startup.  A failed step returns through the defers registered so far.   *)

StartupFails(cleanup) == err' = "startup" /\ pc' = cleanup

\* GetString and parseValue panic when a setting is missing, empty or cannot be
\* parsed.  Nothing has been opened or deferred yet.
ConfigPanics == StartupFails("exited")

\* The settings are read before main.
LoadConfig ==
  /\ pc = "loadConfig"
  /\ \/ pc' = "openDB" /\ UNCHANGED err
     \/ ConfigPanics
  /\ UNCHANGED <<interrupted, resources, groupVars, reqVars>>

\* A pool that cannot hold a connection is refused.
OpenDB ==
  /\ pc = "openDB"
  /\ \/ ~interrupted /\ PoolSize >= 1 /\ db' = "open" /\ pc' = "dialNATS" /\ UNCHANGED err
     \/ StartupFails("return") /\ UNCHANGED db
  /\ UNCHANGED <<interrupted, nats, groupVars, reqVars>>

DialNATS ==
  /\ pc = "dialNATS"
  /\ \/ ~interrupted /\ nats' = "open" /\ pc' = "ensureStreams" /\ UNCHANGED err
     \/ StartupFails("closeDB") /\ UNCHANGED nats
  /\ UNCHANGED <<interrupted, db, groupVars, reqVars>>

\* Mutant: natsClient.Close is deferred only after the streams exist.
EnsureStreamsLateDefer ==
  /\ pc = "ensureStreams"
  /\ \/ ~interrupted /\ nats = "open" /\ pc' = "setupRoutes" /\ UNCHANGED err
     \/ StartupFails("closeDB")
  /\ UNCHANGED <<interrupted, resources, groupVars, reqVars>>

EnsureStreams ==
  /\ pc = "ensureStreams"
  /\ \/ ~interrupted /\ nats = "open" /\ pc' = "setupRoutes" /\ UNCHANGED err
     \/ StartupFails("closeNATS")
  /\ UNCHANGED <<interrupted, resources, groupVars, reqVars>>

\* Subscribes and flushes; success goes on to start both goroutines.
SetupRoutes ==
  /\ pc = "setupRoutes"
  /\ \/ /\ ~interrupted /\ nats = "open"
        /\ pc' = "serve" /\ srv' = "starting" /\ shut' = "waiting"
        /\ UNCHANGED err
     \/ StartupFails("closeNATS") /\ UNCHANGED <<srv, shut>>
  /\ UNCHANGED <<interrupted, expired, resources, reqVars>>
-------------------------------------------------------------------------------
(* The two goroutines of the errgroup.                                     *)

\* errgroup keeps the first error and ignores the later ones.
GroupError(e) == err' = IF err = "none" THEN e ELSE err

Listen ==
  /\ Alive /\ srv = "starting"
  /\ \/ InShutdown /\ srv' = "returned" /\ UNCHANGED err
     \/ ~InShutdown /\ srv' = "accepting" /\ UNCHANGED err
     \/ ~InShutdown /\ srv' = "returned" /\ GroupError("server")
  /\ UNCHANGED <<pc, interrupted, shut, expired, resources, reqVars>>

AcceptFails ==
  /\ Alive /\ srv = "accepting" /\ ~InShutdown
  /\ srv' = "returned" /\ GroupError("server")
  /\ UNCHANGED <<pc, interrupted, shut, expired, resources, reqVars>>

\* Mutant: ErrServerClosed is not recognised and becomes the group's error.
ServerClosedIsError ==
  /\ Alive /\ srv = "accepting" /\ InShutdown
  /\ srv' = "returned" /\ GroupError("ErrServerClosed")
  /\ UNCHANGED <<pc, interrupted, shut, expired, resources, reqVars>>

\* Shutdown closed the listener: ErrServerClosed is mapped to nil.
ServerClosed ==
  /\ Alive /\ srv = "accepting" /\ InShutdown
  /\ srv' = "returned"
  /\ UNCHANGED <<runVars, shut, expired, resources, reqVars>>

BeginShutdown ==
  /\ Alive /\ shut = "waiting" /\ GroupDone
  /\ shut' = "draining"
  /\ UNCHANGED <<runVars, srv, expired, resources, reqVars>>

\* Mutant: a connection whose client hung up counts as closed.
PollConnsSkippingHungUp ==
  /\ Alive /\ shut \in {"draining", "polling"} /\ srv # "accepting"
  /\ conn' = [c \in Conns |-> IF conn[c] = "idle" THEN "closed" ELSE conn[c]]
  /\ shut' = IF \A c \in Conns : conn'[c] \in {"closed", "hungup"}
               THEN "returned" ELSE "polling"
  /\ UNCHANGED <<runVars, srv, expired, resources, at, status>>

\* One round of Shutdown's loop, entered once Serve has returned.  Idle
\* connections are closed; a connection that never sent a request counts as
\* idle only after five seconds, so any set of those may be old enough.
PollConns ==
  /\ Alive /\ shut \in {"draining", "polling"} /\ srv # "accepting"
  /\ \E aged \in SUBSET {c \in Conns : conn[c] = "new"} :
       /\ conn' = [c \in Conns |-> IF conn[c] = "idle" \/ c \in aged
                                     THEN "closed" ELSE conn[c]]
       /\ shut' = IF \A c \in Conns : conn'[c] = "closed"
                    THEN "returned" ELSE "polling"
  /\ UNCHANGED <<runVars, srv, expired, resources, at, status>>

\* Mutant: the error of Shutdown is dropped.
ShutdownTimesOutSilently ==
  /\ Alive /\ shut = "polling"
  /\ shut' = "returned" /\ expired' = TRUE
  /\ UNCHANGED <<runVars, srv, resources, reqVars>>

ShutdownTimesOut ==
  /\ Alive /\ shut = "polling"
  /\ shut' = "returned" /\ expired' = TRUE /\ GroupError("shutdown")
  /\ UNCHANGED <<pc, interrupted, srv, resources, reqVars>>

\* Mutant: run() goes on once ListenAndServe has returned.
GroupWaitServerOnly ==
  /\ pc = "serve" /\ srv = "returned"
  /\ pc' = "closeNATS"
  /\ UNCHANGED <<interrupted, err, groupVars, resources, reqVars>>

GroupWait ==
  /\ pc = "serve" /\ srv = "returned" /\ shut = "returned"
  /\ pc' = "closeNATS"
  /\ UNCHANGED <<interrupted, err, groupVars, resources, reqVars>>
-------------------------------------------------------------------------------
(* The deferred calls.                                                     *)

\* Drain only starts draining; without a live connection it closes at once.
CloseNATS ==
  /\ pc = "closeNATS"
  /\ nats' = IF nats = "open" THEN "draining" ELSE "closed"
  /\ pc' = "closeDB"
  /\ UNCHANGED <<interrupted, err, groupVars, db, reqVars>>

\* Close refuses new acquires, then blocks until every connection is back.
CloseDB ==
  /\ pc = "closeDB"
  /\ \/ db = "open" /\ db' = "closing" /\ UNCHANGED pc
     \/ db = "closing" /\ Held = {} /\ db' = "closed" /\ pc' = "return"
  /\ UNCHANGED <<interrupted, err, nats, groupVars, reqVars>>

\* cancel(), then main() returns or calls os.Exit(1).
Return ==
  /\ pc = "return" /\ pc' = "exited"
  /\ UNCHANGED <<interrupted, err, groupVars, resources, reqVars>>
-------------------------------------------------------------------------------
(* Connections and requests.  net/http cancels nothing on Shutdown: only   *)
(* BaseContext, which is the signal context, and the client end a request. *)

Accept(c) ==
  /\ Alive /\ srv = "accepting" /\ conn[c] = "closed"
  /\ conn' = [conn EXCEPT ![c] = "new"]
  /\ UNCHANGED <<runVars, groupVars, resources, at, status>>

Request(c, r) ==
  /\ Alive /\ conn[c] \in {"new", "idle"}
  /\ conn' = [conn EXCEPT ![c] = "active"]
  /\ at' = [at EXCEPT ![c] = FirstStage[r]]
  /\ status' = [status EXCEPT ![c] = IF r = "static" THEN "ok" ELSE "none"]
  /\ UNCHANGED <<runVars, groupVars, resources>>

HangUp(c) ==
  /\ Alive /\ conn[c] \in {"new", "idle", "active"}
  /\ conn' = [conn EXCEPT ![c] = IF @ = "active" THEN "hungup" ELSE "closed"]
  /\ UNCHANGED <<runVars, groupVars, resources, at, status>>

HandlerStep(c, stage) ==
  /\ Alive /\ at[c] = stage
  /\ UNCHANGED <<runVars, groupVars, resources, conn>>
Goto(c, stage) == at' = [at EXCEPT ![c] = stage] /\ UNCHANGED status
Answer(c, s) == /\ at' = [at EXCEPT ![c] = "write"]
                /\ status' = [status EXCEPT ![c] = s]

\* Mutant: the pool stops one connection short of its size.
AcquireOneShort(c) ==
  /\ HandlerStep(c, "acquire")
  /\ Cardinality(Held) + 1 < PoolSize
  /\ IF db = "open" THEN Goto(c, "query") ELSE Answer(c, "error")

\* The pool hands out a connection, or fails once it is being closed.
Acquire(c) ==
  /\ HandlerStep(c, "acquire")
  /\ Cardinality(Held) < PoolSize
  /\ IF db = "open" THEN Goto(c, "query") ELSE Answer(c, "error")

\* Either way the connection goes back to the pool: Scan closes the rows.
QueryReply(c) ==
  /\ HandlerStep(c, "query")
  /\ Goto(c, "pageCount") \/ Answer(c, "error")

NATSUp == nats \in {"open", "draining"}

PublishReply(c) ==
  /\ HandlerStep(c, "publish")
  /\ (NATSUp /\ Goto(c, "jobsCount")) \/ Answer(c, "error")

\* The page shows 0 jobs when the count fails; a publish answers 503.
CountReply(c) ==
  \/ HandlerStep(c, "pageCount") /\ Goto(c, "render")
  \/ /\ HandlerStep(c, "jobsCount")
     /\ (NATSUp /\ Goto(c, "render")) \/ Answer(c, "error")

PingReply(c) ==
  /\ HandlerStep(c, "ping")
  /\ (NATSUp /\ Goto(c, "render")) \/ Answer(c, "error")

\* A /reload request waits for its channel or for the end of the request.
ReloadWakes(c) ==
  /\ HandlerStep(c, "reload")
  /\ Goto(c, "render") \/ (RequestDone(c) /\ Answer(c, "ok"))

\* A backend call returns because the request's context is done.
Abort(c) ==
  /\ RequestDone(c)
  /\ \/ HandlerStep(c, "pageCount") /\ Goto(c, "render")
     \/ \E stage \in {"acquire", "query", "publish", "jobsCount", "ping"} :
          HandlerStep(c, stage) /\ Answer(c, "aborted")

\* templ components and SSE events refuse a context that is done.
Render(c) ==
  /\ HandlerStep(c, "render")
  /\ Answer(c, IF RequestDone(c) THEN "aborted" ELSE "ok")

\* The response is out (or lost) and the handler returns; the connection is
\* kept for another request unless the server is shutting down.
Finish(c) ==
  /\ Alive /\ at[c] = "write"
  /\ conn' = [conn EXCEPT ![c] = IF @ = "hungup" \/ InShutdown THEN "closed"
                                                              ELSE "idle"]
  /\ at' = [at EXCEPT ![c] = "none"]
  /\ status' = [status EXCEPT ![c] = "none"]
  /\ UNCHANGED <<runVars, groupVars, resources>>

Handler(c) == \/ Acquire(c) \/ QueryReply(c) \/ PublishReply(c) \/ CountReply(c)
              \/ PingReply(c) \/ ReloadWakes(c) \/ Abort(c) \/ Render(c) \/ Finish(c)
-------------------------------------------------------------------------------
(* The environment.                                                        *)

\* Until run() has registered the signal it kills the process.
Interrupt ==
  /\ Alive /\ pc # "loadConfig" /\ ~interrupted /\ interrupted' = TRUE
  /\ UNCHANGED <<pc, err, groupVars, resources, reqVars>>

\* SIGTERM is not registered and SIGKILL cannot be caught, although os.Kill is
\* passed to NotifyContext: both end the process where it stands.
Kill ==
  /\ Alive /\ pc' = "killed"
  /\ UNCHANGED <<interrupted, err, groupVars, resources, reqVars>>

\* The client library reconnects a bounded number of times, then closes.
NATSLink ==
  /\ Alive
  /\ \/ nats = "open" /\ nats' = "reconnecting"
     \/ nats = "reconnecting" /\ nats' \in {"open", "closed"}
     \/ nats = "draining" /\ nats' = "closed"
  /\ UNCHANGED <<runVars, groupVars, db, reqVars>>

Run == \/ LoadConfig \/ OpenDB \/ DialNATS \/ EnsureStreams \/ SetupRoutes
       \/ GroupWait \/ CloseNATS \/ CloseDB \/ Return
Server == \/ Listen \/ AcceptFails \/ ServerClosed
Stopper == \/ BeginShutdown \/ PollConns \/ ShutdownTimesOut
Client(c) == Accept(c) \/ HangUp(c) \/ \E r \in Routes : Request(c, r)

Next == \/ Run \/ Server \/ Stopper
        \/ \E c \in Conns : Client(c) \/ Handler(c)
        \/ Interrupt \/ Kill \/ NATSLink

Spec == Init /\ [][Next]_vars

\* The Go scheduler runs every goroutine that can run, startup steps and
\* Shutdown carry timeouts, calls return once their context is done, and the
\* pool's semaphore serves its waiters first in, first out.  No fairness for
\* clients, for answers of the backends or for writes to a client.
Fairness ==
  /\ WF_vars(Run) /\ WF_vars(Listen) /\ WF_vars(ServerClosed)
  /\ WF_vars(BeginShutdown) /\ WF_vars(PollConns) /\ WF_vars(ShutdownTimesOut)
  /\ \A c \in Conns : WF_vars(Abort(c)) /\ SF_vars(Acquire(c))

FairSpec == Spec /\ Fairness
-------------------------------------------------------------------------------
(* Properties.                                                             *)

\* Resources are released while no request is served, unless the grace period
\* of Shutdown ran out: Serve has returned, the poll loop has seen every
\* connection closed, and neither goroutine can bring one back afterwards.
ReleaseAfterDrain ==
  pc \in Cleanup /\ ~expired => \A c \in Conns : ~Serving(c) /\ at[c] = "none"

\* Whichever of its paths run() returns by, the defers have closed what that
\* path opened, and no handler is left inside a query of the closed pool.
ReleasedOnReturn ==
  pc = "exited" => /\ db \in {"none", "closed"}
                   /\ nats \in {"none", "draining", "closed"}
                   /\ Held = {}

\* Exit status 0 means an orderly stop on request: SIGINT was received, the
\* listener is closed and nothing was cut off.
ExitZeroIsOrderly ==
  pc = "exited" /\ err = "none" =>
    interrupted /\ srv = "returned" /\ \A c \in Conns : conn[c] = "closed"

\* What run() has reached, for a reader who does not know of its threads.
Phase == CASE pc = "killed" -> "crashed"
           [] pc \in Cleanup -> "released"
           [] pc = "serve" /\ InShutdown -> "draining"
           [] OTHER -> "up"
Busy == {c \in Conns : Serving(c)}

Stop == INSTANCE GracefulStop WITH
          Work <- Conns, phase <- Phase, busy <- Busy, forced <- expired

\* The errgroup, Shutdown and the defers together behave as GracefulStop says:
\* draining before releasing, no new request after an orderly release.
ImplementsGracefulStop == Stop!StopSpec

\* SIGINT always ends the process, whatever the database, NATS and the clients
\* do: handlers leave their backend calls, Shutdown times out, the pool empties.
InterruptLeadsToExit == interrupted ~> ~Alive

\* When the listener fails, the signal context stays live until after the
\* defers: the process ends, or Close waits for good on a query nobody cancels.
ServerFailureLeadsToExit ==
  err = "server" ~> (~Alive \/ [](pc = "closeDB" /\ Held # {}))

\* A page request that waits while every connection of the pool is taken gets
\* one, or its end, provided that no query keeps its connection for ever.
PoolWaitEnds ==
  (\A c \in Conns : []<>(at[c] # "query")) =>
    \A c \in Conns : at[c] = "acquire" ~> (at[c] # "acquire" \/ ~Alive)

\* README: "graceful HTTP shutdown".  A request whose client is still there is
\* not given up because the process was asked to stop.
InFlightRequestsComplete ==
  \A c \in Conns : conn[c] = "active" => status[c] # "aborted"

\* README: "NATS drain on shutdown".  When run() has returned and the process
\* ends, the connection has finished draining.
DrainedBeforeExit == pc = "exited" => nats \in {"none", "closed"}
===============================================================================
