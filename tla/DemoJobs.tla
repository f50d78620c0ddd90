-------------------------------- MODULE DemoJobs --------------------------------
(***************************************************************************)
(* The demo jobs: POST /jobs/demo publishes one job to the JetStream       *)
(* stream DEMO_JOBS, waits for its acknowledgement and then asks for the   *)
(* number of jobs it shows.  The stream lives in the NATS server, so it    *)
(* outlives the process; the connection in between loses messages, or      *)
(* keeps them while it is down and sends them later.                       *)
(***************************************************************************)
EXTENDS Naturals

CONSTANTS Jobs,        \* the requests, each with the job it publishes
          MaxFaults    \* bound: link failures, restarts of NATS and crashes

ASSUME FaultsAssumption == MaxFaults \in Nat

VARIABLES
  link,      \* the process's NATS connection; "none" while there is no process
  at,        \* where each request is
  shown,     \* the jobs counted in its answer (the page shows their number)
  asked,     \* jobs handed to the connection
  buffered,  \* those it keeps until it has reconnected
  sent,      \* those on their way to the stream
  stored,    \* jobs in the stream
  expired,   \* jobs the stream removed because of their age
  acks,      \* acknowledgements on their way to the process
  acked,     \* jobs whose acknowledgement the process has received
  faults     \* number of faults so far

wire == <<buffered, sent, acks>>
vars == <<link, at, shown, asked, buffered, sent, stored, expired, acks, acked, faults>>

TypeOK ==
  /\ link \in {"none", "up", "down", "closed"} /\ faults \in 0..MaxFaults
  /\ at \in [Jobs -> {"none", "publish", "count", "ok", "failed", "cut"}]
  /\ shown \in [Jobs -> SUBSET Jobs]
  /\ {asked, buffered, sent, stored, expired, acks, acked} \subseteq SUBSET Jobs
  /\ buffered # {} => link = "down"

Init ==
  /\ link = "none" /\ faults = 0
  /\ at = [j \in Jobs |-> "none"] /\ shown = [j \in Jobs |-> {}]
  /\ asked = {} /\ buffered = {} /\ sent = {} /\ acks = {}
  /\ stored = {} /\ expired = {} /\ acked = {}

InProgress(j) == at[j] \in {"publish", "count"}

\* Mutant: the stream is created anew at every start.
EnsureStreamsAnew ==
  /\ link = "none" /\ link' = "up" /\ stored' = {}
  /\ UNCHANGED <<at, shown, asked, wire, expired, acked, faults>>

\* The process starts: CreateOrUpdateStream keeps what an existing stream holds.
EnsureStreams ==
  /\ link = "none" /\ link' = "up"
  /\ UNCHANGED <<at, shown, asked, wire, stored, expired, acked, faults>>

\* A closed connection refuses; one that is down keeps the message for later.
Publish(j) ==
  /\ at[j] = "none" /\ link # "none"
  /\ at' = [at EXCEPT ![j] = IF link = "closed" THEN "failed" ELSE "publish"]
  /\ asked' = asked \cup {j}
  /\ sent' = IF link = "up" THEN sent \cup {j} ELSE sent
  /\ buffered' = IF link = "down" THEN buffered \cup {j} ELSE buffered
  /\ UNCHANGED <<link, shown, stored, expired, acks, acked, faults>>

\* Mutant: PublishAsync, whose acknowledgement nobody waits for.
PublishReplyAsync(j) ==
  /\ at[j] = "publish" /\ at' = [at EXCEPT ![j] = "count"]
  /\ acks' = acks \ {j} /\ acked' = acked \cup (acks \cap {j})
  /\ UNCHANGED <<link, shown, asked, buffered, sent, stored, expired, faults>>

PublishReply(j) ==
  /\ at[j] = "publish" /\ j \in acks /\ link = "up"
  /\ at' = [at EXCEPT ![j] = "count"]
  /\ acks' = acks \ {j} /\ acked' = acked \cup {j}
  /\ UNCHANGED <<link, shown, asked, buffered, sent, stored, expired, faults>>

CountReply(j) ==
  /\ at[j] = "count" /\ link = "up"
  /\ at' = [at EXCEPT ![j] = "ok"] /\ shown' = [shown EXCEPT ![j] = stored]
  /\ UNCHANGED <<link, asked, wire, stored, expired, acked, faults>>

\* Either call runs into its timeout or the end of the request: 503.  Nothing
\* takes back what the connection was given.
Timeout(j) ==
  /\ InProgress(j) /\ at' = [at EXCEPT ![j] = "failed"]
  /\ UNCHANGED <<link, shown, asked, wire, stored, expired, acked, faults>>

Handler(j) == PublishReply(j) \/ CountReply(j) \/ Timeout(j)
-------------------------------------------------------------------------------
(* The NATS server and the connection.                                     *)

Store(j) ==
  /\ j \in sent /\ sent' = sent \ {j}
  /\ stored' = stored \cup {j} /\ acks' = acks \cup {j}
  /\ UNCHANGED <<link, at, shown, asked, buffered, expired, acked, faults>>

\* MaxAge is 24 hours, so no job expires while its own request is answered.
Expire(j) ==
  /\ j \in stored /\ ~InProgress(j)
  /\ stored' = stored \ {j} /\ expired' = expired \cup {j}
  /\ UNCHANGED <<link, at, shown, asked, wire, acked, faults>>

Fault == faults < MaxFaults /\ faults' = faults + 1

\* What was on its way may arrive or be lost.
Lose == \E lost \in SUBSET sent : sent' = sent \ lost /\ acks' = {}

\* Mutant: Storage is MemoryStorage, and it is the NATS server that went down.
LinkDropsInMemory ==
  /\ Fault /\ link = "up" /\ link' = "down" /\ Lose /\ stored' = {}
  /\ UNCHANGED <<at, shown, asked, buffered, expired, acked>>

\* The connection breaks, or the NATS server restarts with its file storage.
LinkDrops ==
  /\ Fault /\ link = "up" /\ link' = "down" /\ Lose
  /\ UNCHANGED <<at, shown, asked, buffered, stored, expired, acked>>

\* Mutant: what was kept is sent, and kept as well.
ReconnectKeepsBuffer ==
  /\ link = "down" /\ link' = "up" /\ sent' = sent \cup buffered
  /\ UNCHANGED <<at, shown, asked, buffered, stored, expired, acks, acked, faults>>

Reconnect ==
  /\ link = "down" /\ link' = "up"
  /\ sent' = sent \cup buffered /\ buffered' = {}
  /\ UNCHANGED <<at, shown, asked, stored, expired, acks, acked, faults>>

\* After its last attempt the client closes for good.
StopReconnecting ==
  /\ link = "down" /\ link' = "closed" /\ buffered' = {}
  /\ UNCHANGED <<at, shown, asked, sent, stored, expired, acks, acked, faults>>

\* The process ends, however it does: its requests are cut off.
Crash ==
  /\ Fault /\ link # "none" /\ link' = "none" /\ Lose /\ buffered' = {}
  /\ at' = [j \in Jobs |-> IF InProgress(j) THEN "cut" ELSE at[j]]
  /\ UNCHANGED <<shown, asked, stored, expired, acked>>

Next == \/ EnsureStreams \/ LinkDrops \/ Reconnect \/ StopReconnecting \/ Crash
        \/ \E j \in Jobs : Publish(j) \/ Handler(j) \/ Store(j) \/ Expire(j)

Spec == Init /\ [][Next]_vars
-------------------------------------------------------------------------------
\* A job the process was told is stored stays in the stream until its age
\* removes it, whatever restarts in between.
AckedIsKept == acked \subseteq stored \cup expired

\* "a JetStream publish path with message counting": the number shown after a
\* publish counts the job just published, since the count is asked for after
\* the acknowledgement.
CountIncludesOwn == \A j \in Jobs : at[j] = "ok" => j \in shown[j]

Log == INSTANCE JobLog WITH log <- stored, old <- expired, known <- acked

\* To its publishers the stream is the log JobLog describes: connections and
\* restarts add no job nobody asked for, and none a second time.
ImplementsJobLog == Log!LogSpec

\* "failed to publish demo job": a request that is answered 503 with that log
\* entry has not published its job.
FailedIsNotStored == \A j \in Jobs : at[j] = "failed" => j \notin stored
===============================================================================
