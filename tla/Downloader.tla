------------------------------- MODULE Downloader -------------------------------
(***************************************************************************)
(* cmd/web/downloader: removes the vendored bundle's directory, creates it *)
(* again and fetches the files into it, one goroutine each, joined by a    *)
(* WaitGroup, with an error channel that has room for every goroutine.     *)
(* The command may be killed at any point and run again.                   *)
(***************************************************************************)
EXTENDS Naturals, FiniteSets

CONSTANTS Files,       \* what is fetched
          MaxRuns      \* bound: how often the command is run

ASSUME FilesAssumption == IsFiniteSet(Files) /\ MaxRuns \in Nat

VARIABLES
  runs,      \* how often the command was started
  pc,        \* where run() is; "exit0" and "exit1" when it is over
  dir,       \* the directory exists
  disk,      \* what is on disk for each file
  at,        \* where each file's goroutine is
  errCh,     \* number of errors in the channel
  failed,    \* files whose download failed in this run
  unclosed   \* files of this run whose Close failed, which is only logged

vars == <<runs, pc, dir, disk, at, errCh, failed, unclosed>>

Over == {"idle", "exit0", "exit1", "killed"}

\* "old": of an earlier run, complete or not; "partial": a copy that was cut off,
\* and "new": one that is complete, of this run.
TypeOK ==
  /\ runs \in 0..MaxRuns /\ dir \in BOOLEAN
  /\ pc \in Over \cup {"remove", "create", "spawn", "wait"}
  /\ disk \in [Files -> {"absent", "old", "partial", "new"}]
  /\ at \in [Files -> {"none", "get", "create", "copy", "send", "done"}]
  /\ errCh \in 0..Cardinality(Files) /\ failed \subseteq Files /\ unclosed \subseteq Files
  /\ pc = "wait" => errCh = Cardinality(failed)

Init ==
  /\ runs = 0 /\ pc = "idle" /\ dir = TRUE /\ errCh = 0 /\ failed = {} /\ unclosed = {}
  /\ disk \in [Files -> {"absent", "old"}]
  /\ at = [f \in Files |-> "none"]

\* A new process: what the last one left is now an earlier run's.
Start ==
  /\ pc \in Over /\ runs < MaxRuns /\ runs' = runs + 1
  /\ pc' = "remove" /\ errCh' = 0 /\ failed' = {} /\ unclosed' = {}
  /\ disk' = [f \in Files |-> IF disk[f] = "absent" THEN "absent" ELSE "old"]
  /\ at' = [f \in Files |-> "none"]
  /\ UNCHANGED dir

\* Mutant: the directory is not removed, only created if need be.
RemoveNothing ==
  /\ pc = "remove" /\ pc' = "create"
  /\ UNCHANGED <<runs, dir, disk, at, errCh, failed, unclosed>>

\* removeDirectories: RemoveAll may fail half-way, and ends the command.
Remove ==
  /\ pc = "remove"
  /\ \/ /\ pc' = "create" /\ dir' = FALSE
        /\ disk' = [f \in Files |-> "absent"]
     \/ /\ pc' = "exit1" /\ UNCHANGED dir
        /\ \E gone \in SUBSET Files :
             disk' = [f \in Files |-> IF f \in gone THEN "absent" ELSE disk[f]]
  /\ UNCHANGED <<runs, at, errCh, failed, unclosed>>

Create ==
  /\ pc = "create"
  /\ \/ pc' = "spawn" /\ dir' = TRUE
     \/ pc' = "exit1" /\ UNCHANGED dir
  /\ UNCHANGED <<runs, disk, at, errCh, failed, unclosed>>

Spawn ==
  /\ pc = "spawn" /\ pc' = "wait" /\ at' = [f \in Files |-> "get"]
  /\ UNCHANGED <<runs, dir, disk, errCh, failed, unclosed>>

\* A step of downloadFile, which goes on or ends with an error.
Download(f, from, to, there) ==
  /\ pc = "wait" /\ at[f] = from
  /\ \/ at' = [at EXCEPT ![f] = to] /\ disk' = [disk EXCEPT ![f] = there]
     \/ at' = [at EXCEPT ![f] = "send"] /\ UNCHANGED disk
  /\ UNCHANGED <<runs, pc, dir, errCh, failed, unclosed>>

Get(f) == Download(f, "get", "create", disk[f])
CreateFile(f) == dir /\ Download(f, "create", "copy", "partial")
Copy(f) == Download(f, "copy", "done", "new")

\* All is copied, and the deferred Close fails: what the disk has is not known.
CloseFails(f) ==
  /\ pc = "wait" /\ at[f] = "copy" /\ at' = [at EXCEPT ![f] = "done"]
  /\ unclosed' = unclosed \cup {f}
  /\ UNCHANGED <<runs, pc, dir, disk, errCh, failed>>

\* Mutant: room for one error; the others are dropped instead of waiting.
SendFirstOnly(f) ==
  /\ pc = "wait" /\ at[f] = "send"
  /\ errCh' = 1 /\ failed' = failed \cup {f}
  /\ at' = [at EXCEPT ![f] = "done"]
  /\ UNCHANGED <<runs, pc, dir, disk, unclosed>>

\* Mutant: an unbuffered channel, which nobody reads before the join.
SendUnbuffered(f) ==
  /\ pc = "wait" /\ at[f] = "send" /\ errCh < 0
  /\ errCh' = errCh + 1 /\ failed' = failed \cup {f}
  /\ at' = [at EXCEPT ![f] = "done"]
  /\ UNCHANGED <<runs, pc, dir, disk, unclosed>>

\* The channel has room for len(files) errors.
Send(f) ==
  /\ pc = "wait" /\ at[f] = "send" /\ errCh < Cardinality(Files)
  /\ errCh' = errCh + 1 /\ failed' = failed \cup {f}
  /\ at' = [at EXCEPT ![f] = "done"]
  /\ UNCHANGED <<runs, pc, dir, disk, unclosed>>

\* wg.Wait(), then the errors are collected, and nil is returned.
Join ==
  /\ pc = "wait" /\ \A f \in Files : at[f] = "done"
  /\ pc' = "exit0" /\ errCh' = 0
  /\ UNCHANGED <<runs, dir, disk, at, failed, unclosed>>

Kill ==
  /\ pc \notin Over /\ pc' = "killed"
  /\ UNCHANGED <<runs, dir, disk, at, errCh, failed, unclosed>>

Next == \/ Start \/ Remove \/ Create \/ Spawn \/ Join \/ Kill
        \/ \E f \in Files : Get(f) \/ CreateFile(f) \/ Copy(f) \/ CloseFails(f) \/ Send(f)

Spec == Init /\ [][Next]_vars

\* The goroutines run; http.Get has no timeout, so transfers may never end.
FairSpec == Spec /\ WF_vars(Join) /\ \A f \in Files : WF_vars(Send(f))
-------------------------------------------------------------------------------
\* What a command that succeeded leaves is what it fetched: nothing an earlier
\* run left, complete or cut off, and nothing cut off unless something was wrong
\* with that file, its Close included.
BundleIsOfThisRun ==
  pc = "exit0" => \A f \in Files :
    disk[f] = "new" \/ (f \in failed \cup unclosed /\ disk[f] # "old")

\* When no transfer is under way any more, the command ends, however many of
\* them failed: no goroutine waits for room in the error channel.
JoinEnds ==
  (pc = "wait" /\ \A f \in Files : at[f] \in {"send", "done"}) ~> pc \in Over

\* "failed to download [%s]": run() returns the error and main exits with 1.
ExitZeroMeansFetched == pc = "exit0" => failed = {}
===============================================================================
