------------------------------ MODULE MCDownloader ------------------------------
(* Model-checking instance of Downloader.  Files are interchangeable,      *)
(* which the run without liveness uses.                                    *)
EXTENDS Downloader, TLC

FileSymmetry == Permutations(Files)
===============================================================================
