------------------------ MODULE MCConnectionThreads --------------------------
(* Instances of ConnectionThreads for TLC.                                  *)
EXTENDS ConnectionThreads
==============================================================================
