---------------------------- MODULE MCFdeventLoop ----------------------------
(* Instances of FdeventLoop for TLC.  Descriptor numbers decide the order in *)
(* which one round sees the events.                                         *)
EXTENDS FdeventLoop
==============================================================================
