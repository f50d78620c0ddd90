--------------------------- MODULE WebServerProofs ---------------------------
(***************************************************************************)
(* Proofs about WebServer, for any set of connections and any pool size.   *)
(* The safety invariants follow from one inductive invariant, whose parts  *)
(* say how far run() has got with each thread and each resource.           *)
(***************************************************************************)
EXTENDS WebServer, TLAPS

\* A handler runs on a connection exactly while net/http counts it as active.
HandlerPerActiveConn == \A c \in Conns : at[c] # "none" <=> Serving(c)

\* Both goroutines start together, once startup is over, and serve starts with
\* them: nothing is connected before.
ThreadsStartTogether ==
  /\ srv = "off" <=> shut = "off"
  /\ pc \in Startup => srv = "off"
  /\ srv = "off" => expired = FALSE /\ \A c \in Conns : conn[c] = "closed"

\* eg.Wait() returned for both threads before the defers run, or startup failed.
CleanupAfterBoth ==
  pc \in Cleanup => \/ srv = "off" /\ err = "startup"
                    \/ srv = "returned" /\ shut = "returned"

\* What Shutdown has seen when it returns without an error stays true.
OrderlyShutdown ==
  shut = "returned" /\ ~expired =>
    srv # "accepting" /\ \A c \in Conns : conn[c] = "closed"

\* Every end of the group has its cause.
ShutdownHasCause ==
  /\ expired => shut = "returned" /\ err # "none"
  /\ InShutdown => interrupted \/ err # "none"

\* The resources at each point of run().
ResourceProgress ==
  /\ pc \in {"loadConfig", "openDB"} => db = "none" /\ nats = "none"
  /\ pc = "dialNATS" => db = "open" /\ nats = "none"
  /\ pc \in {"ensureStreams", "setupRoutes", "serve", "closeNATS"} => db = "open"
  /\ pc = "closeDB" => nats \in {"none", "draining", "closed"}
                       /\ db \in {"open", "closing"}
  /\ pc \in {"return", "exited"} => /\ db \in {"none", "closed"}
                                    /\ nats \in {"none", "draining", "closed"}
  /\ db = "none" => \A c \in Conns : conn[c] = "closed"
  /\ db = "closed" => Held = {}

IInv == /\ TypeOK /\ HandlerPerActiveConn /\ ThreadsStartTogether
        /\ CleanupAfterBoth /\ OrderlyShutdown /\ ShutdownHasCause
        /\ ResourceProgress
-------------------------------------------------------------------------------
(* The inductive invariant.                                                *)

\* The process starts in the inductive invariant.
LEMMA InitIInv == Init => IInv
<1> SUFFICES ASSUME Init PROVE IInv
  OBVIOUS
<1>2. TypeOK
  BY DEF Init, TypeOK, Startup, Stages
<1>3. HandlerPerActiveConn /\ ResourceProgress
  BY DEF Init, HandlerPerActiveConn, ResourceProgress, Serving
<1>4. ThreadsStartTogether /\ CleanupAfterBoth /\ OrderlyShutdown /\ ShutdownHasCause
  BY DEF Init, ThreadsStartTogether, CleanupAfterBoth, OrderlyShutdown,
         ShutdownHasCause, InShutdown, Cleanup
<1> QED
  BY <1>2, <1>3, <1>4 DEF IInv

\* A handler that goes on to another stage keeps the invariant, provided it
\* reaches "query" only while the pool is open.
LEMMA StageChange ==
  ASSUME IInv, NEW c \in Conns, at[c] # "none",
         NEW stage \in Stages \ {"none"}, stage = "query" => db = "open",
         at' = [at EXCEPT ![c] = stage],
         status' \in [Conns -> {"none", "ok", "error", "aborted"}],
         UNCHANGED <<runVars, groupVars, resources, conn>>
  PROVE  IInv'
<1> USE DEF runVars, groupVars, resources
<1>0. TypeOK'
  <2>1. at' \in [Conns -> Stages]
    BY DEF IInv, TypeOK
  <2>2. conn' = conn /\ pc' = pc /\ interrupted' = interrupted
        /\ err' = err /\ srv' = srv /\ shut' = shut /\ expired' = expired
        /\ db' = db /\ nats' = nats
    OBVIOUS
  <2> QED
    BY <2>1, <2>2 DEF IInv, TypeOK
<1>1. HandlerPerActiveConn'
  BY DEF IInv, TypeOK, HandlerPerActiveConn, Serving
<1>2. ThreadsStartTogether' /\ CleanupAfterBoth' /\ OrderlyShutdown' /\ ShutdownHasCause'
  BY DEF IInv, ThreadsStartTogether, CleanupAfterBoth, OrderlyShutdown,
         ShutdownHasCause, InShutdown
<1>3. ResourceProgress'
  BY DEF IInv, TypeOK, ResourceProgress, Held
<1> QED
  BY <1>0, <1>1, <1>2, <1>3 DEF IInv

\* Each stage of a handler.
LEMMA HandlerIInv ==
  ASSUME IInv, NEW c \in Conns, Handler(c)
  PROVE  IInv'
<1> USE DEF HandlerStep, Goto, Answer
<1> DEFINE Statuses == {"none", "ok", "error", "aborted"}
<1>0. status \in [Conns -> Statuses] /\ at \in [Conns -> Stages]
  BY DEF IInv, TypeOK
<1>1. CASE Acquire(c)
  BY <1>0, <1>1, StageChange DEF Acquire, Stages
<1>2. CASE QueryReply(c)
  BY <1>0, <1>2, StageChange DEF QueryReply, Stages
<1>3. CASE PublishReply(c)
  BY <1>0, <1>3, StageChange DEF PublishReply, Stages
<1>4. CASE CountReply(c)
  BY <1>0, <1>4, StageChange DEF CountReply, Stages
<1>5. CASE PingReply(c)
  BY <1>0, <1>5, StageChange DEF PingReply, Stages
<1>6. CASE ReloadWakes(c)
  BY <1>0, <1>6, StageChange DEF ReloadWakes, Stages
<1>7. CASE Abort(c)
  BY <1>0, <1>7, StageChange DEF Abort, Stages
<1>8. CASE Render(c)
  BY <1>0, <1>8, StageChange DEF Render, Stages
<1>9. CASE Finish(c)
  <2> USE <1>9 DEF Finish, runVars, groupVars, resources
  <2>1. TypeOK' /\ HandlerPerActiveConn'
    BY <1>0 DEF IInv, TypeOK, HandlerPerActiveConn, Serving, Stages
  <2>2. srv # "off"
    BY <1>0 DEF IInv, HandlerPerActiveConn, ThreadsStartTogether, Serving
  <2>3. conn[c] # "closed"
    BY <1>0 DEF IInv, HandlerPerActiveConn, Serving
  <2>4. ThreadsStartTogether' /\ CleanupAfterBoth' /\ OrderlyShutdown' /\ ShutdownHasCause'
    BY <2>2, <2>3 DEF IInv, TypeOK, ThreadsStartTogether, CleanupAfterBoth,
              OrderlyShutdown, ShutdownHasCause, InShutdown
  <2>5. ResourceProgress'
    BY <1>0, <2>3 DEF IInv, ResourceProgress, Held
  <2> QED
    BY <2>1, <2>4, <2>5 DEF IInv
<1> QED
  BY <1>1, <1>2, <1>3, <1>4, <1>5, <1>6, <1>7, <1>8, <1>9 DEF Handler

\* What a client does to its connection.
LEMMA ClientIInv ==
  ASSUME IInv, NEW c \in Conns, Client(c)
  PROVE  IInv'
<1> USE DEF runVars, groupVars, resources
<1>1. CASE Accept(c)
  BY <1>1 DEF Accept, Alive, IInv, TypeOK, HandlerPerActiveConn, ThreadsStartTogether,
       CleanupAfterBoth, OrderlyShutdown, ShutdownHasCause, ResourceProgress,
       InShutdown, Serving, Held, Startup, Cleanup
<1>2. CASE HangUp(c)
  BY <1>2 DEF HangUp, IInv, TypeOK, HandlerPerActiveConn, ThreadsStartTogether,
       CleanupAfterBoth, OrderlyShutdown, ShutdownHasCause, ResourceProgress,
       InShutdown, Serving, Held
<1>3. ASSUME NEW r \in Routes, Request(c, r) PROVE IInv'
  <2> USE <1>3 DEF Request
  <2>1. FirstStage[r] \in Stages \ {"none"} /\ FirstStage[r] # "query"
    BY DEF FirstStage, Routes, Stages
  <2>2. TypeOK' /\ HandlerPerActiveConn'
    BY <2>1 DEF IInv, TypeOK, HandlerPerActiveConn, Serving
  <2>3. conn[c] # "closed"
    OBVIOUS
  <2>4. ThreadsStartTogether' /\ CleanupAfterBoth' /\ OrderlyShutdown' /\ ShutdownHasCause'
    BY <2>3 DEF IInv, ThreadsStartTogether, CleanupAfterBoth, OrderlyShutdown,
              ShutdownHasCause, InShutdown
  <2>5. ResourceProgress'
    BY <2>1, <2>3 DEF IInv, TypeOK, ResourceProgress, Held
  <2> QED
    BY <2>2, <2>4, <2>5 DEF IInv
<1> QED
  BY <1>1, <1>2, <1>3 DEF Client

\* The steps of run(), which move through startup, the group and the defers.
LEMMA RunIInv == ASSUME IInv, Run PROVE IInv'
<1> USE DEF IInv, TypeOK, HandlerPerActiveConn, ThreadsStartTogether,
       CleanupAfterBoth, OrderlyShutdown, ShutdownHasCause, ResourceProgress,
       InShutdown, Serving, Held, Startup, Cleanup, groupVars, resources, reqVars
<1>1. CASE LoadConfig \/ OpenDB
  BY <1>1 DEF LoadConfig, ConfigPanics, OpenDB, StartupFails
<1>2. CASE DialNATS
  BY <1>2 DEF DialNATS, StartupFails
<1>3. CASE EnsureStreams
  BY <1>3 DEF EnsureStreams, StartupFails
<1>4. CASE SetupRoutes
  BY <1>4 DEF SetupRoutes, StartupFails
<1>5. CASE GroupWait
  BY <1>5 DEF GroupWait
<1>6. CASE CloseNATS
  BY <1>6 DEF CloseNATS
<1>7. CASE CloseDB
  BY <1>7 DEF CloseDB
<1>8. CASE Return
  BY <1>8 DEF Return
<1> QED
  BY <1>1, <1>2, <1>3, <1>4, <1>5, <1>6, <1>7, <1>8 DEF Run

\* The steps of the two goroutines.
LEMMA GroupIInv == ASSUME IInv, Server \/ Stopper PROVE IInv'
<1> USE DEF IInv, TypeOK, HandlerPerActiveConn, ThreadsStartTogether,
       CleanupAfterBoth, OrderlyShutdown, ShutdownHasCause, ResourceProgress,
       InShutdown, Serving, Held, Startup, Cleanup, Alive,
       runVars, resources, reqVars
<1>1. CASE Listen
  BY <1>1 DEF Listen, GroupError
<1>2. CASE AcceptFails
  BY <1>2 DEF AcceptFails, GroupError
<1>3. CASE ServerClosed
  BY <1>3 DEF ServerClosed
<1>4. CASE BeginShutdown
  BY <1>4 DEF BeginShutdown, GroupDone
<1>5. CASE PollConns
  BY <1>5 DEF PollConns
<1>6. CASE ShutdownTimesOut
  BY <1>6 DEF ShutdownTimesOut, GroupError
<1> QED
  BY <1>1, <1>2, <1>3, <1>4, <1>5, <1>6 DEF Server, Stopper

\* Every step of the process and of its environment.
LEMMA NextIInv == IInv /\ [Next]_vars => IInv'
<1> SUFFICES ASSUME IInv, [Next]_vars PROVE IInv'
  OBVIOUS
<1>1. CASE Run
  BY <1>1, RunIInv
<1>2. CASE Server \/ Stopper
  BY <1>2, GroupIInv
<1>3. ASSUME NEW c \in Conns, Client(c) \/ Handler(c) PROVE IInv'
  BY <1>3, ClientIInv, HandlerIInv
<1>4. CASE Interrupt \/ Kill \/ NATSLink \/ UNCHANGED vars
  <2> USE DEF IInv, TypeOK, HandlerPerActiveConn, ThreadsStartTogether,
       CleanupAfterBoth, OrderlyShutdown, ShutdownHasCause, ResourceProgress,
       InShutdown, Serving, Held, Startup, Cleanup, groupVars, resources, reqVars
  <2>1. CASE Interrupt
    BY <2>1 DEF Interrupt
  <2>2. CASE Kill
    BY <2>2 DEF Kill
  <2>3. CASE NATSLink
    BY <2>3 DEF NATSLink, runVars
  <2>4. CASE UNCHANGED vars
    BY <2>4 DEF vars
  <2> QED
    BY <1>4, <2>1, <2>2, <2>3, <2>4
<1> QED
  BY <1>1, <1>2, <1>3, <1>4 DEF Next

\* The inductive invariant holds in every state the process reaches.
THEOREM Invariance == Spec => []IInv
<1>1. Init => IInv
  BY InitIInv
<1>2. IInv /\ [Next]_vars => IInv'
  BY NextIInv
<1> QED
  BY <1>1, <1>2, PTL DEF Spec
-------------------------------------------------------------------------------
(* The properties.                                                         *)

\* The variables keep their types.
THEOREM TypeCorrect == Spec => []TypeOK
<1>1. IInv => TypeOK
  BY DEF IInv
<1> QED
  BY <1>1, Invariance, PTL

\* The deferred calls of run() release the pool and the NATS connection only
\* when no request is being served, unless Shutdown's five seconds ran out.
THEOREM ReleaseIsAfterDrain == Spec => []ReleaseAfterDrain
<1>1. IInv => ReleaseAfterDrain
  BY DEF IInv, ReleaseAfterDrain, HandlerPerActiveConn, ThreadsStartTogether,
         CleanupAfterBoth, OrderlyShutdown, Serving
<1> QED
  BY <1>1, Invariance, PTL

\* Whichever path run() returns by, its defers have released what it opened.
THEOREM ReturnsReleased == Spec => []ReleasedOnReturn
<1>1. IInv => ReleasedOnReturn
  <2> SUFFICES ASSUME IInv, pc = "exited"
               PROVE  /\ db \in {"none", "closed"}
                      /\ nats \in {"none", "draining", "closed"}
                      /\ Held = {}
    BY DEF ReleasedOnReturn
  <2>1. db \in {"none", "closed"} /\ nats \in {"none", "draining", "closed"}
    BY DEF IInv, ResourceProgress
  <2>2. db = "none" => Held = {}
    BY DEF IInv, ResourceProgress, HandlerPerActiveConn, Serving, Held
  <2>3. db = "closed" => Held = {}
    BY DEF IInv, ResourceProgress
  <2> QED
    BY <2>1, <2>2, <2>3
<1> QED
  BY <1>1, Invariance, PTL

\* Exit status 0 means that the stop was asked for and cut nothing off.
THEOREM ZeroIsOrderly == Spec => []ExitZeroIsOrderly
<1>1. IInv => ExitZeroIsOrderly
  BY DEF IInv, ExitZeroIsOrderly, CleanupAfterBoth, OrderlyShutdown,
         ShutdownHasCause, InShutdown, Cleanup
<1> QED
  BY <1>1, Invariance, PTL
-------------------------------------------------------------------------------
(* The refinement.  Only nine kinds of steps are visible to GracefulStop.  *)

\* A step that keeps Phase, Busy and expired is a stutter of GracefulStop.
LEMMA Stutter ==
  ASSUME Phase' = Phase, Busy' = Busy, expired' = expired
  PROVE  [Stop!StopNext]_(Stop!stopVars)
BY DEF Stop!stopVars

\* While startup lasts, GracefulStop is "up" and idle.
LEMMA PhaseInStartup == IInv /\ pc \in Startup => Phase = "up" /\ Busy = {}
<1> SUFFICES ASSUME IInv, pc \in Startup PROVE Phase = "up" /\ Busy = {}
  OBVIOUS
<1>1. Phase = "up"
  BY DEF Phase, Startup, Cleanup
<1>2. Busy = {}
  BY DEF IInv, ThreadsStartTogether, Busy, Serving
<1> QED
  BY <1>1, <1>2

\* Until Shutdown has returned, its goroutine runs under eg.Wait().
LEMMA StopperUnderWait ==
  IInv /\ Alive /\ shut \in {"waiting", "draining", "polling"} => pc = "serve"
BY DEF IInv, TypeOK, Alive, ThreadsStartTogether, CleanupAfterBoth, Startup, Cleanup

\* A failed startup releases what there is; the wait for the group releases
\* after draining; the defers change nothing more.
LEMMA RunRefines ==
  ASSUME IInv, IInv', Run
  PROVE  [Stop!StopNext]_(Stop!stopVars)
<1>1. CASE LoadConfig \/ OpenDB \/ DialNATS \/ EnsureStreams \/ SetupRoutes
  <2>1. /\ pc \in Startup /\ expired' = expired /\ conn' = conn
        /\ (pc' \in Startup \cup {"serve"} /\ ~InShutdown') \/ pc' \in Cleanup
    BY <1>1 DEF LoadConfig, ConfigPanics, OpenDB, DialNATS, EnsureStreams, SetupRoutes, StartupFails,
         Startup, Cleanup, InShutdown, IInv, ThreadsStartTogether, groupVars, reqVars
  <2>2. Phase = "up" /\ Busy = {} /\ Busy' = Busy
    BY <2>1, PhaseInStartup DEF Busy, Serving
  <2>3. CASE pc' \in Cleanup
    <3>1. Phase' = "released"
      BY <2>3 DEF Phase, Cleanup
    <3>2. Stop!Release
      BY <2>1, <2>2, <3>1 DEF Stop!Release
    <3> QED
      BY <3>2 DEF Stop!StopNext
  <2>4. CASE pc' \in Startup \cup {"serve"} /\ ~InShutdown'
    <3>1. Phase' = "up"
      BY <2>4 DEF Phase, Startup, Cleanup
    <3> QED
      BY <2>1, <2>2, <3>1, Stutter
  <2> QED
    BY <2>1, <2>3, <2>4
<1>2. CASE GroupWait
  <2>1. Phase = "draining" /\ Phase' = "released"
    BY <1>2 DEF GroupWait, Phase, Cleanup, InShutdown
  <2>2. expired' = expired /\ Busy' = Busy
    BY <1>2 DEF GroupWait, Busy, Serving, groupVars, reqVars
  <2>3. Busy = {} \/ expired
    BY <1>2 DEF GroupWait, IInv, OrderlyShutdown, Busy, Serving
  <2>4. Stop!Release
    BY <2>1, <2>2, <2>3 DEF Stop!Release
  <2> QED
    BY <2>4 DEF Stop!StopNext
<1>3. CASE CloseNATS \/ CloseDB \/ Return
  <2>1. pc \in Cleanup /\ pc' \in Cleanup /\ expired' = expired /\ conn' = conn
    BY <1>3 DEF CloseNATS, CloseDB, Return, Cleanup, groupVars, reqVars
  <2>2. Phase' = Phase /\ Busy' = Busy
    BY <2>1 DEF Phase, Busy, Cleanup, Serving
  <2> QED
    BY <2>1, <2>2, Stutter
<1> QED
  BY <1>1, <1>2, <1>3 DEF Run

\* The serving goroutine is not visible; the other one begins to drain, and its
\* timeout is the end of the grace period.
LEMMA GroupRefines ==
  ASSUME IInv, IInv', Server \/ Stopper
  PROVE  [Stop!StopNext]_(Stop!stopVars)
<1>1. CASE Server
  <2>1. pc' = pc /\ shut' = shut /\ expired' = expired /\ conn' = conn
    BY <1>1 DEF Server, Listen, AcceptFails, ServerClosed, runVars, reqVars
  <2>2. Phase' = Phase /\ Busy' = Busy
    BY <2>1 DEF Phase, Busy, InShutdown, Serving
  <2> QED
    BY <2>1, <2>2, Stutter
<1>2. CASE BeginShutdown
  <2>1. pc = "serve" /\ pc' = pc /\ shut = "waiting" /\ shut' = "draining"
        /\ conn' = conn /\ expired' = expired
    BY <1>2, StopperUnderWait DEF BeginShutdown, runVars, reqVars
  <2>2. Phase = "up" /\ Phase' = "draining" /\ Busy' = Busy
    BY <2>1 DEF Phase, Cleanup, InShutdown, Busy, Serving
  <2>3. Stop!Drain
    BY <2>1, <2>2 DEF Stop!Drain
  <2> QED
    BY <2>3 DEF Stop!StopNext
<1>3. CASE PollConns
  <2>1. pc = "serve" /\ pc' = pc /\ expired' = expired /\ InShutdown /\ InShutdown'
    BY <1>3, StopperUnderWait DEF PollConns, runVars, InShutdown
  <2>2. \A c \in Conns : Serving(c)' <=> Serving(c)
    BY <1>3 DEF PollConns, Serving, IInv, TypeOK
  <2>3. Phase' = Phase /\ Busy' = Busy
    BY <2>1, <2>2 DEF Phase, Cleanup, Busy
  <2> QED
    BY <2>1, <2>3, Stutter
<1>4. CASE ShutdownTimesOut
  <2>1. pc = "serve" /\ pc' = pc /\ InShutdown /\ InShutdown' /\ expired' = TRUE
        /\ conn' = conn
    BY <1>4, StopperUnderWait DEF ShutdownTimesOut, InShutdown, reqVars
  <2>2. Phase = "draining" /\ Phase' = "draining" /\ Busy' = Busy
    BY <2>1 DEF Phase, Cleanup, Busy, Serving
  <2>3. Stop!GraceExpires
    BY <2>1, <2>2 DEF Stop!GraceExpires
  <2> QED
    BY <2>3 DEF Stop!StopNext
<1> QED
  BY <1>1, <1>2, <1>3, <1>4 DEF Stopper

\* A request is work that begins, which after an orderly stop it cannot; the
\* other steps of a client are not visible.
LEMMA ClientRefines ==
  ASSUME IInv, IInv', NEW c \in Conns, Client(c)
  PROVE  [Stop!StopNext]_(Stop!stopVars)
<1>1. pc' = pc /\ shut' = shut /\ expired' = expired /\ Alive
  BY DEF Client, Accept, HangUp, Request, runVars, groupVars
<1>2. Phase' = Phase
  BY <1>1 DEF Phase, InShutdown
<1>3. CASE Accept(c) \/ HangUp(c)
  <2>1. \A d \in Conns : Serving(d)' <=> Serving(d)
    BY <1>3 DEF Accept, HangUp, Serving, IInv, TypeOK
  <2>2. Busy' = Busy
    BY <2>1 DEF Busy
  <2> QED
    BY <1>1, <1>2, <2>2, Stutter
<1>4. ASSUME NEW r \in Routes, Request(c, r)
      PROVE  [Stop!StopNext]_(Stop!stopVars)
  <2>1. Busy' = Busy \cup {c}
    BY <1>4 DEF Request, Busy, Serving, IInv, TypeOK
  <2>2. conn[c] # "closed"
    BY <1>4 DEF Request
  <2>3. pc \in Cleanup => expired
    BY <2>2 DEF IInv, ThreadsStartTogether, CleanupAfterBoth, OrderlyShutdown
  <2>4. Phase \in {"up", "draining"} \/ (Phase = "released" /\ expired)
    BY <1>1, <2>3 DEF Phase, Alive
  <2>5. Stop!Begin(c)
    BY <1>1, <1>2, <2>1, <2>4 DEF Stop!Begin
  <2> QED
    BY <2>5 DEF Stop!StopNext
<1> QED
  BY <1>3, <1>4 DEF Client

\* Work ends when its handler returns; the stages before are not visible.
LEMMA HandlerRefines ==
  ASSUME IInv, IInv', NEW c \in Conns, Handler(c)
  PROVE  [Stop!StopNext]_(Stop!stopVars)
<1>1. pc' = pc /\ shut' = shut /\ expired' = expired
  BY DEF Handler, Acquire, QueryReply, PublishReply, CountReply, PingReply,
         ReloadWakes, Abort, Render, Finish, HandlerStep, runVars, groupVars
<1>2. Phase' = Phase
  BY <1>1 DEF Phase, InShutdown
<1>3. CASE Finish(c)
  <2>1. c \in Busy
    BY <1>3 DEF Finish, IInv, HandlerPerActiveConn, Busy
  <2>2. Busy' = Busy \ {c}
    BY <1>3 DEF Finish, Busy, Serving, IInv, TypeOK
  <2>3. Stop!End(c)
    BY <1>1, <1>2, <2>1, <2>2 DEF Stop!End
  <2> QED
    BY <2>3 DEF Stop!StopNext
<1>4. CASE ~Finish(c)
  <2>1. conn' = conn
    BY <1>4 DEF Handler, Acquire, QueryReply, PublishReply, CountReply, PingReply,
         ReloadWakes, Abort, Render, HandlerStep
  <2>2. Busy' = Busy
    BY <2>1 DEF Busy, Serving
  <2> QED
    BY <1>1, <1>2, <2>2, Stutter
<1> QED
  BY <1>3, <1>4

\* The process implements GracefulStop: each of its steps is a step of the
\* abstract specification or leaves it where it is.
THEOREM GracefulStopImplemented == Spec => ImplementsGracefulStop
<1>1. Init => Stop!StopInit
  BY DEF Init, Stop!StopInit, Phase, Cleanup, Busy, Serving
<1>2. IInv /\ IInv' /\ [Next]_vars => [Stop!StopNext]_(Stop!stopVars)
  <2> SUFFICES ASSUME IInv, IInv', [Next]_vars
               PROVE  [Stop!StopNext]_(Stop!stopVars)
    OBVIOUS
  <2>1. CASE Run
    BY <2>1, RunRefines
  <2>2. CASE Server \/ Stopper
    BY <2>2, GroupRefines
  <2>3. ASSUME NEW c \in Conns, Client(c) \/ Handler(c)
        PROVE  [Stop!StopNext]_(Stop!stopVars)
    BY <2>3, ClientRefines, HandlerRefines
  <2>4. CASE Kill
    <3>1. Phase # "crashed" /\ Phase' = "crashed" /\ Busy' = Busy /\ expired' = expired
      BY <2>4 DEF Kill, Alive, Phase, Cleanup, Busy, Serving, groupVars, reqVars
    <3>2. Stop!Crash
      BY <3>1 DEF Stop!Crash
    <3> QED
      BY <3>2 DEF Stop!StopNext
  <2>5. CASE Interrupt \/ NATSLink \/ UNCHANGED vars
    <3>1. pc' = pc /\ shut' = shut /\ expired' = expired /\ conn' = conn
      BY <2>5 DEF Interrupt, NATSLink, vars, runVars, groupVars, reqVars
    <3>2. Phase' = Phase /\ Busy' = Busy
      BY <3>1 DEF Phase, Busy, InShutdown, Serving
    <3> QED
      BY <3>1, <3>2, Stutter
  <2> QED
    BY <2>1, <2>2, <2>3, <2>4, <2>5 DEF Next
<1> QED
  BY <1>1, <1>2, Invariance, PTL DEF Spec, ImplementsGracefulStop, Stop!StopSpec
===============================================================================
