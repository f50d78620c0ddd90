------------------------------ MODULE MCWebServer ------------------------------
(* Model-checking instance of WebServer.  Connections are interchangeable,  *)
(* which the runs without liveness use.                                    *)
EXTENDS WebServer, TLC

ConnSymmetry == Permutations(Conns)
===============================================================================
