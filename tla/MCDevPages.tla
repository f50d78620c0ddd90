------------------------------- MODULE MCDevPages -------------------------------
(* Model-checking instance of DevPages, its bounds in the cfg.  Tabs and   *)
(* requests are not declared symmetric: liveness is checked.               *)
EXTENDS DevPages
===============================================================================
