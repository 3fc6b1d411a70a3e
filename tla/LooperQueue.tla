----------------------------- MODULE LooperQueue -----------------------------
(***************************************************************************)
(* What fdevent_run_on_looper promises to the rest of the server: the      *)
(* functions handed to the event loop are run in the order in which they   *)
(* were queued, each of them once, and none of them is forgotten for as    *)
(* long as the loop is open.  Nothing is promised once it has closed.      *)
(***************************************************************************)
EXTENDS Naturals, Sequences

CONSTANT Fns          \* the functions that may be queued

VARIABLES pending,    \* queued, not started, oldest first
          done,       \* started, in the order in which they were started
          open        \* the loop will look at the queue again

vars == <<pending, done, open>>

Queued == {pending[i] : i \in DOMAIN pending} \cup {done[i] : i \in DOMAIN done}

Init == /\ pending = <<>>
        /\ done = <<>>
        /\ open = TRUE

Post(f) == /\ f \notin Queued
           /\ pending' = Append(pending, f)
           /\ UNCHANGED <<done, open>>

Execute == /\ open
           /\ pending # <<>>
           /\ done' = Append(done, Head(pending))
           /\ pending' = Tail(pending)
           /\ UNCHANGED open

Close == /\ open
         /\ open' = FALSE
         /\ UNCHANGED <<pending, done>>

Next == \/ \E f \in Fns : Post(f)
        \/ Execute
        \/ Close

SafeSpec == Init /\ [][Next]_vars

Spec == SafeSpec /\ WF_vars(Execute)
==============================================================================
