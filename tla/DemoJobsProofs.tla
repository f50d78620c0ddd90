----------------------------- MODULE DemoJobsProofs -----------------------------
(***************************************************************************)
(* Proofs about DemoJobs: what the stream keeps, what an answer counts,    *)
(* and that to its publishers the stream is JobLog.  For any set of jobs   *)
(* and any number of faults.                                               *)
(***************************************************************************)
EXTENDS DemoJobs, TLAPS

\* A job that has not been asked for is nowhere, and a job is in one place
\* only: kept by the connection, on its way, in the stream, or too old.  So
\* what reaches the stream is new to it.
OnePlace ==
  /\ \A j \in Jobs : at[j] = "none" => j \notin asked
  /\ buffered \cup sent \cup stored \cup expired \subseteq asked
  /\ buffered \cap (sent \cup stored \cup expired) = {}
  /\ sent \cap (stored \cup expired) = {}

\* Acknowledgements tell the truth, on their way and received.
AcksAreTrue == acks \cup acked \subseteq stored \cup expired

\* A job does not grow too old while its request is in progress, so what was
\* acknowledged to it is still there when it is counted.
YoungWhileInProgress ==
  \A j \in Jobs : /\ InProgress(j) => j \notin expired
                  /\ at[j] = "count" => j \in stored

IInv == /\ TypeOK /\ OnePlace /\ AcksAreTrue /\ YoungWhileInProgress
        /\ CountIncludesOwn

LEMMA InitIInv == Init => IInv
BY FaultsAssumption DEF Init, IInv, TypeOK, OnePlace, AcksAreTrue,
   YoungWhileInProgress, InProgress, CountIncludesOwn

\* One step for each action; an action of one job moves that job only.
LEMMA NextIInv == IInv /\ [Next]_vars => IInv'
<1> SUFFICES ASSUME IInv, [Next]_vars PROVE IInv'
  OBVIOUS
<1> USE FaultsAssumption
    DEF IInv, TypeOK, OnePlace, AcksAreTrue, YoungWhileInProgress, InProgress,
        CountIncludesOwn, wire
<1>1. CASE EnsureStreams
  BY <1>1 DEF EnsureStreams
<1>2. CASE LinkDrops
  BY <1>2 DEF LinkDrops, Fault, Lose
<1>3. CASE Reconnect
  BY <1>3 DEF Reconnect
<1>4. CASE StopReconnecting
  BY <1>4 DEF StopReconnecting
<1>5. CASE Crash
  BY <1>5 DEF Crash, Fault, Lose
<1>6. ASSUME NEW j \in Jobs, Publish(j) PROVE IInv'
  BY <1>6 DEF Publish
<1>7. ASSUME NEW j \in Jobs, PublishReply(j) PROVE IInv'
  BY <1>7 DEF PublishReply
<1>8. ASSUME NEW j \in Jobs, CountReply(j) PROVE IInv'
  BY <1>8 DEF CountReply
<1>9. ASSUME NEW j \in Jobs, Timeout(j) PROVE IInv'
  BY <1>9 DEF Timeout
<1>10. ASSUME NEW j \in Jobs, Store(j) PROVE IInv'
  BY <1>10 DEF Store
<1>11. ASSUME NEW j \in Jobs, Expire(j) PROVE IInv'
  BY <1>11 DEF Expire
<1>12. CASE UNCHANGED vars
  BY <1>12 DEF vars
<1> QED
  BY <1>1, <1>2, <1>3, <1>4, <1>5, <1>6, <1>7, <1>8, <1>9, <1>10, <1>11, <1>12
  DEF Next, Handler

LEMMA Invariance == Spec => []IInv
BY InitIInv, NextIInv, PTL DEF Spec

\* The publish path keeps its types, whatever the connection does.
THEOREM TypeCorrect == Spec => []TypeOK
<1>1. IInv => TypeOK
  BY DEF IInv
<1> QED
  BY Invariance, <1>1, PTL

\* What the process was told is stored stays stored until it is too old.
THEOREM AckedKept == Spec => []AckedIsKept
<1>1. IInv => AckedIsKept
  BY DEF IInv, AcksAreTrue, AckedIsKept
<1> QED
  BY Invariance, <1>1, PTL

\* The number shown after a publish counts the job just published.
THEOREM OwnIsCounted == Spec => []CountIncludesOwn
<1>1. IInv => CountIncludesOwn
  BY DEF IInv
<1> QED
  BY Invariance, <1>1, PTL
-------------------------------------------------------------------------------
(* DemoJobs implements JobLog.                                             *)

LEMMA InitLog == Init => Log!LogInit
BY DEF Init, Log!LogInit

\* Publish asks, Store appends, Expire ages and PublishReply knows; every other
\* step leaves the log as it is.
LEMMA NextLog == IInv /\ [Next]_vars => [Log!LogNext]_(Log!logVars)
<1> SUFFICES ASSUME IInv, [Next]_vars PROVE [Log!LogNext]_(Log!logVars)
  OBVIOUS
<1> USE DEF Log!LogNext, Log!logVars
<1>1. ASSUME NEW j \in Jobs, Publish(j) PROVE Log!Ask(j)
  BY <1>1 DEF Publish, Log!Ask
<1>2. ASSUME NEW j \in Jobs, Store(j) PROVE Log!Append(j)
  BY <1>2 DEF Store, Log!Append, IInv, OnePlace
<1>3. ASSUME NEW j \in Jobs, Expire(j) PROVE Log!Age(j)
  BY <1>3 DEF Expire, Log!Age
<1>4. ASSUME NEW j \in Jobs, PublishReply(j) PROVE Log!Know(j)
  BY <1>4 DEF PublishReply, Log!Know, IInv, AcksAreTrue
<1>5. ASSUME \/ EnsureStreams \/ LinkDrops \/ Reconnect \/ StopReconnecting \/ Crash
             \/ \E j \in Jobs : CountReply(j) \/ Timeout(j)
             \/ UNCHANGED vars
      PROVE  UNCHANGED Log!logVars
  BY <1>5 DEF EnsureStreams, LinkDrops, Reconnect, StopReconnecting, Crash,
              CountReply, Timeout, vars
<1> QED
  BY <1>1, <1>2, <1>3, <1>4, <1>5 DEF Next, Handler

\* To its publishers the stream is the log: no connection failure or restart
\* adds a job, takes one back or makes an acknowledgement untrue.
THEOREM JobLogImplemented == Spec => ImplementsJobLog
<1> QED
  BY InitLog, NextLog, Invariance, PTL DEF Spec, ImplementsJobLog, Log!LogSpec
===============================================================================
