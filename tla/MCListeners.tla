----------------------------- MODULE MCListeners -----------------------------
(* Instances of Listeners for TLC.                                          *)
EXTENDS Listeners, TLC

ObjectSymmetry == Permutations(Ids) \cup Permutations(Transports) \cup Permutations(Remotes)
==============================================================================
