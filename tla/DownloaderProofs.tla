---------------------------- MODULE DownloaderProofs ----------------------------
(***************************************************************************)
(* Proofs about Downloader, for any finite set of files and any number of  *)
(* runs, failures and kills.                                               *)
(***************************************************************************)
EXTENDS Downloader, FiniteSetTheorems, TLAPS

\* Until the goroutines start there is no error and, once the directories are
\* removed, no file.
CleanStart ==
  /\ pc \in {"remove", "create", "spawn"} => errCh = 0 /\ failed = {} /\ unclosed = {}
  /\ pc \in {"create", "spawn"} => \A f \in Files : disk[f] = "absent"

\* How far a file's goroutine is says what is on disk.  It reports at most one
\* error, as its last step.
Progress(f) ==
  /\ at[f] \in {"get", "create", "copy", "send"} => f \notin failed
  /\ at[f] \in {"get", "create"} => disk[f] = "absent"
  /\ at[f] = "copy" => disk[f] = "partial"
  /\ at[f] = "send" => disk[f] \in {"absent", "partial"}
  /\ at[f] = "done" => disk[f] = "new" \/ (f \in failed \cup unclosed /\ disk[f] # "old")
  /\ at[f] # "none"

WhileWaiting == pc = "wait" => \A f \in Files : Progress(f)

IInv == TypeOK /\ CleanStart /\ WhileWaiting /\ BundleIsOfThisRun

LEMMA InitIInv == Init => IInv
<1> Cardinality(Files) \in Nat
  BY FilesAssumption, FS_CardinalityType
<1> QED
  BY FilesAssumption
  DEF Init, IInv, TypeOK, Over, CleanStart, WhileWaiting, BundleIsOfThisRun

\* The steps of downloadFile, which touch one file and no error.
LEMMA DownloadKeeps ==
  ASSUME IInv, NEW f \in Files, Get(f) \/ CreateFile(f) \/ Copy(f) \/ CloseFails(f)
  PROVE  IInv'
<1> USE DEF IInv, TypeOK, CleanStart, WhileWaiting, Progress, BundleIsOfThisRun, Download
<1>1. CASE Get(f)
  BY <1>1 DEF Get
<1>2. CASE CreateFile(f)
  BY <1>2 DEF CreateFile
<1>3. CASE Copy(f)
  BY <1>3 DEF Copy
<1>4. CASE CloseFails(f)
  BY <1>4 DEF CloseFails
<1> QED
  BY <1>1, <1>2, <1>3, <1>4

\* One more error, of a file that had none: the channel holds one for each.
LEMMA SendKeeps ==
  ASSUME IInv, NEW f \in Files, Send(f)
  PROVE  IInv'
<1>1. f \notin failed /\ IsFiniteSet(failed)
  BY FilesAssumption, FS_Subset DEF IInv, TypeOK, WhileWaiting, Progress, Send
<1>2. /\ Cardinality(failed') = Cardinality(failed) + 1
      /\ Cardinality(failed) \in Nat /\ Cardinality(Files) \in Nat
  BY <1>1, FilesAssumption, FS_AddElement, FS_CardinalityType DEF Send
<1>3. TypeOK'
  BY <1>2 DEF IInv, TypeOK, Send
<1>4. CleanStart' /\ WhileWaiting' /\ BundleIsOfThisRun'
  BY DEF IInv, TypeOK, CleanStart, WhileWaiting, Progress, BundleIsOfThisRun, Send
<1> QED
  BY <1>3, <1>4 DEF IInv

LEMMA NextIInv == IInv /\ [Next]_vars => IInv'
<1> SUFFICES ASSUME IInv, [Next]_vars PROVE IInv'
  OBVIOUS
<1>0. Cardinality(Files) \in Nat /\ Cardinality({}) = 0
  BY FilesAssumption, FS_CardinalityType, FS_EmptySet
<1> USE DEF IInv, TypeOK, Over, CleanStart, WhileWaiting, Progress, BundleIsOfThisRun
<1>1. CASE Start
  BY <1>0, <1>1, FilesAssumption DEF Start
<1>2. CASE Remove
  BY <1>0, <1>2 DEF Remove
<1>3. CASE Create
  BY <1>0, <1>3 DEF Create
<1>4. CASE Spawn
  BY <1>0, <1>4 DEF Spawn
<1>5. CASE Join
  BY <1>0, <1>5 DEF Join
<1>6. CASE Kill
  BY <1>6 DEF Kill
<1>7. ASSUME NEW f \in Files, Get(f) \/ CreateFile(f) \/ Copy(f) \/ CloseFails(f)
      PROVE  IInv'
  BY <1>7, DownloadKeeps
<1>8. ASSUME NEW f \in Files, Send(f) PROVE IInv'
  BY <1>8, SendKeeps
<1>9. CASE UNCHANGED vars
  BY <1>9 DEF vars
<1> QED
  BY <1>1, <1>2, <1>3, <1>4, <1>5, <1>6, <1>7, <1>8, <1>9 DEF Next

LEMMA Invariance == Spec => []IInv
BY InitIInv, NextIInv, PTL DEF Spec

\* The channel holds exactly the errors of the files that failed.
THEOREM TypeCorrect == Spec => []TypeOK
<1>1. IInv => TypeOK
  BY DEF IInv
<1> QED
  BY Invariance, <1>1, PTL

\* A command that succeeds leaves the files it fetched, and of the others
\* nothing of an earlier run, whatever failed or was killed before.
THEOREM BundleIsFresh == Spec => []BundleIsOfThisRun
<1>1. IInv => BundleIsOfThisRun
  BY DEF IInv
<1> QED
  BY Invariance, <1>1, PTL
===============================================================================
