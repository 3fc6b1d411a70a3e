----------------------------- MODULE Connection ------------------------------
(***************************************************************************)
(* What a Connection promises the transport that owns it (transport.cpp),  *)
(* and what Transport takes for granted: it starts once, its threads post  *)
(* packets, the end of it is reported exactly once, whoever notices it     *)
(* first, and when Stop has returned nothing comes any more.               *)
(***************************************************************************)
EXTENDS Naturals

VARIABLES
    conn,      \* "fresh", "started", "stopped"
    packets,   \* packets posted to the looper so far
    errors     \* calls of HandleError so far

connectionVars == <<conn, packets, errors>>

Init == conn = "fresh" /\ packets = 0 /\ errors = 0

Start ==
    /\ conn = "fresh"
    /\ conn' = "started"
    /\ UNCHANGED <<packets, errors>>

HandleRead ==
    /\ conn = "started"
    /\ packets' = packets + 1
    /\ UNCHANGED <<conn, errors>>

HandleError ==
    /\ conn = "started" /\ errors = 0
    /\ errors' = 1
    /\ UNCHANGED <<conn, packets>>

\* Stop reports the end unless a thread has done so.
Stop ==
    /\ conn = "started"
    /\ conn' = "stopped"
    /\ errors' = 1
    /\ UNCHANGED packets

Next == Start \/ HandleRead \/ HandleError \/ Stop

Spec == Init /\ [][Next]_connectionVars
==============================================================================
