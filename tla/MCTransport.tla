----------------------------- MODULE MCTransport -----------------------------
(* Instances of Transport for TLC.                                          *)
EXTENDS Transport, TLC

CONSTANTS t1, t2

\* Two transports for one device, the second created when the first is gone.
SameSerial == [t \in {t1, t2} |-> "phone"]

TransportSymmetry == Permutations({t1, t2})
==============================================================================
