---------------------------- MODULE MCServerLaunch ---------------------------
(* The instance of ServerLaunch for TLC: what it needs is in the cfg.       *)
EXTENDS ServerLaunch
==============================================================================
