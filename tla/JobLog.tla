--------------------------------- MODULE JobLog ---------------------------------
(***************************************************************************)
(* What the demo jobs stream promises a publisher, without connections and *)
(* restarts: a job enters the log only when asked for, leaves it only when *)
(* it is too old, and is acknowledged only once the log has taken it.      *)
(***************************************************************************)
CONSTANT Jobs

VARIABLES asked,       \* jobs somebody tried to publish
          log,         \* jobs in the log
          old,         \* jobs that left it because of their age
          known        \* jobs whose publisher knows they were taken

logVars == <<asked, log, old, known>>

LogInit == asked = {} /\ log = {} /\ old = {} /\ known = {}

Ask(j) == asked' = asked \cup {j} /\ UNCHANGED <<log, old, known>>

Append(j) == /\ j \in asked \ (log \cup old)
             /\ log' = log \cup {j}
             /\ UNCHANGED <<asked, old, known>>

Age(j) == /\ j \in log
          /\ log' = log \ {j} /\ old' = old \cup {j}
          /\ UNCHANGED <<asked, known>>

Know(j) == /\ j \in log \cup old
           /\ known' = known \cup {j}
           /\ UNCHANGED <<asked, log, old>>

LogNext == \E j \in Jobs : Ask(j) \/ Append(j) \/ Age(j) \/ Know(j)

LogSpec == LogInit /\ [][LogNext]_logVars
===============================================================================
