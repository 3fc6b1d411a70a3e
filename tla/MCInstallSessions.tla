------------------------- MODULE MCInstallSessions -------------------------
(* Instances of InstallSessions for TLC.                                   *)
EXTENDS InstallSessions
==============================================================================
