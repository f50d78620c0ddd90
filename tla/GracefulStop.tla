----------------------------- MODULE GracefulStop -----------------------------
(***************************************************************************)
(* What a gracefully stopping service promises, without its threads: the   *)
(* resources its requests use are released only once no request is being   *)
(* served, or once the grace period of the stop has run out.  WebServer    *)
(* implements it with an errgroup, http.Server.Shutdown and deferred calls.*)
(***************************************************************************)
CONSTANT Work          \* what may be served at the same time

VARIABLES phase,       \* "up", "draining", "released" or "crashed"
          busy,        \* the work being served
          forced       \* the grace period ran out

stopVars == <<phase, busy, forced>>

StopInit == phase = "up" /\ busy = {} /\ forced = FALSE

\* Work may still begin while draining (a connection that was already open),
\* and after a forced stop; never after an orderly one.
Begin(w) == /\ phase \in {"up", "draining"} \/ (phase = "released" /\ forced)
            /\ busy' = busy \cup {w}
            /\ UNCHANGED <<phase, forced>>

End(w) == /\ w \in busy
          /\ busy' = busy \ {w}
          /\ UNCHANGED <<phase, forced>>

Drain == phase = "up" /\ phase' = "draining" /\ UNCHANGED <<busy, forced>>

GraceExpires == phase = "draining" /\ forced' = TRUE /\ UNCHANGED <<phase, busy>>

\* From "up" only when startup failed, so nothing was ever served.
Release == /\ phase \in {"up", "draining"}
           /\ busy = {} \/ (phase = "draining" /\ forced)
           /\ phase' = "released"
           /\ UNCHANGED <<busy, forced>>

Crash == phase # "crashed" /\ phase' = "crashed" /\ UNCHANGED <<busy, forced>>

StopNext == \/ \E w \in Work : Begin(w) \/ End(w)
            \/ Drain \/ GraceExpires \/ Release \/ Crash

StopSpec == StopInit /\ [][StopNext]_stopVars
===============================================================================
