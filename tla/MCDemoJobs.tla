------------------------------- MODULE MCDemoJobs -------------------------------
(* Model-checking instance of DemoJobs.  Jobs are interchangeable, which   *)
(* the run without liveness uses.                                          *)
EXTENDS DemoJobs, TLC

JobSymmetry == Permutations(Jobs)
===============================================================================
