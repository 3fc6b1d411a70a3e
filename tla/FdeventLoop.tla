----------------------------- MODULE FdeventLoop -----------------------------
(***************************************************************************)
(* The event loop of the server: fdevent_context and fdevent_context_poll. *)
(*                                                                         *)
(* One thread, the looper, runs Loop(): it polls the installed             *)
(* descriptors, calls ONE handler per round (HandleEvents leaves its loop  *)
(* after the first installed event) and then runs every function other     *)
(* threads queued with Run().  A queued function is announced by a byte    *)
(* written to a socket pair whose other end is polled like any descriptor. *)
(***************************************************************************)
EXTENDS Naturals, Sequences, FiniteSets

CONSTANTS Fds,           \* descriptors that code outside the loop installs
          InterruptFd,   \* the polled end of the interrupt socket pair
          Fns,           \* functions passed to Run, each at most once
          MaxInterrupt,  \* bytes the socket pair holds before EAGAIN
          ReadSize,      \* bytes one fdevent_interrupt reads (BUFSIZ)
          PollMayFail    \* whether adb_poll may return -1

ASSUME FdeventAssumption ==
    /\ Fds \subseteq Nat
    /\ InterruptFd \in Nat \ Fds
    /\ MaxInterrupt \in Nat \ {0}
    /\ ReadSize \in Nat \ {0}
    /\ PollMayFail \in BOOLEAN

VARIABLES
    pc,          \* where the looper is
    looperId,    \* looper_thread_id_.has_value()
    terminate,   \* TerminateLoop: "no", "set" (flag stored), "done" (interrupted)
    runQueue,    \* run_queue_
    fnState,     \* progress of Run(f): "new", "pushed", "posted"
    bytes,       \* unread bytes of the interrupt socket pair
    installed,   \* keys of installed_fdevents_ (= fdevent_set_), InterruptFd aside
    interest,    \* installed descriptors with FDE_READ or FDE_WRITE in state
    ready,       \* descriptors the kernel would report for that interest
    hup,         \* descriptors in error: reported whatever the interest
    timer,       \* timeout and last_active: "none", "armed", "due"
    pollEvents,  \* poll_events of this round
    invoked,     \* descriptors whose handler was called in this round
    executed     \* functions FlushRunQueue took out, in order

loopVars == <<pc, looperId>>
fdVars   == <<installed, interest, ready, hup, timer>>
fnVars   == <<runQueue, fnState, executed>>
vars     == <<pc, looperId, terminate, runQueue, fnState, bytes, installed,
              interest, ready, hup, timer, pollEvents, invoked, executed>>

Event == [fd : Fds \cup {InterruptFd}, kind : {"io", "timeout"}]

TypeOK ==
    /\ pc \in {"idle", "top", "poll", "handle", "callback", "flush", "fn", "exited", "failed"}
    /\ looperId \in BOOLEAN
    /\ terminate \in {"no", "set", "done"}
    /\ runQueue \in Seq(Fns)
    /\ fnState \in [Fns -> {"new", "pushed", "posted"}]
    /\ bytes \in 0..MaxInterrupt
    /\ installed \subseteq Fds
    /\ interest \subseteq installed
    /\ ready \subseteq installed
    /\ hup \subseteq installed
    /\ timer \in [Fds -> {"none", "armed", "due"}]
    /\ pollEvents \subseteq Event
    /\ invoked \subseteq Fds \cup {InterruptFd}
    /\ executed \in Seq(Fns)

\* The constructor installs the interrupt descriptor; nothing else is there yet.
Init ==
    /\ pc = "idle"
    /\ looperId = FALSE
    /\ terminate = "no"
    /\ runQueue = <<>>
    /\ fnState = [f \in Fns |-> "new"]
    /\ bytes = 0
    /\ installed = {} /\ interest = {} /\ ready = {} /\ hup = {}
    /\ timer = [fd \in Fds |-> "none"]
    /\ pollEvents = {}
    /\ invoked = {}
    /\ executed = <<>>

------------------------------------------------------------------------------
(* Operations other code calls.                                            *)

\* A mistake: no cap, as if adb_write could never answer EAGAIN.
InterruptUncapped == bytes' = bytes + 1

\* adb_write of one byte; a full socket pair answers EAGAIN, which is ignored.
Interrupt == bytes' = IF bytes < MaxInterrupt THEN bytes + 1 ELSE bytes

\* Run(fn), first half: the push under run_queue_mutex_.
RunPush(f) ==
    /\ fnState[f] = "new"
    /\ runQueue' = Append(runQueue, f)
    /\ fnState' = [fnState EXCEPT ![f] = "pushed"]
    /\ UNCHANGED <<loopVars, fdVars, terminate, bytes, pollEvents, invoked, executed>>

\* A mistake: Run returns without interrupting the loop.
RunInterruptSilent(f) ==
    /\ fnState[f] = "pushed"
    /\ fnState' = [fnState EXCEPT ![f] = "posted"]
    /\ UNCHANGED <<loopVars, fdVars, terminate, bytes, runQueue, pollEvents, invoked, executed>>

\* Run(fn), second half: the interrupt, after the mutex is released.
RunInterrupt(f) ==
    /\ fnState[f] = "pushed"
    /\ fnState' = [fnState EXCEPT ![f] = "posted"]
    /\ Interrupt
    /\ UNCHANGED <<loopVars, fdVars, terminate, runQueue, pollEvents, invoked, executed>>

\* TerminateLoop: the flag, then the interrupt.
TerminateSet ==
    /\ terminate = "no"
    /\ terminate' = "set"
    /\ UNCHANGED <<loopVars, fdVars, fnVars, bytes, pollEvents, invoked>>

TerminateInterrupt ==
    /\ terminate = "set"
    /\ terminate' = "done"
    /\ Interrupt
    /\ UNCHANGED <<loopVars, fdVars, fnVars, pollEvents, invoked>>

\* Create, Set and SetTimeout run on the looper, inside a handler or a queued
\* function, or before the loop is entered (CheckLooperThread).
OnLooper == pc \in {"idle", "callback", "fn"}

Create(fd) ==
    /\ OnLooper /\ fd \notin installed
    /\ installed' = installed \cup {fd}
    /\ timer' = [timer EXCEPT ![fd] = "none"]
    /\ UNCHANGED <<loopVars, fnVars, terminate, bytes, interest, ready, hup, pollEvents, invoked>>

\* Destroy does not check its thread: launch_server's cleanup calls it from a
\* client's, let through by WaitForLoopExit while no thread is the looper.
Destroy(fd) ==
    /\ OnLooper \/ ~looperId
    /\ fd \in installed
    /\ installed' = installed \ {fd}
    /\ interest' = interest \ {fd}
    /\ ready' = ready \ {fd}
    /\ hup' = hup \ {fd}
    /\ timer' = [timer EXCEPT ![fd] = "none"]
    /\ UNCHANGED <<loopVars, fnVars, terminate, bytes, pollEvents, invoked>>

Set(fd) ==
    /\ OnLooper /\ fd \in installed
    /\ interest' \in {interest \cup {fd}, interest \ {fd}}
    /\ UNCHANGED <<loopVars, fnVars, terminate, bytes, installed, ready, hup, timer,
                   pollEvents, invoked>>

SetTimeout(fd) ==
    /\ OnLooper /\ fd \in installed
    /\ \E t \in {"none", "armed"} : timer' = [timer EXCEPT ![fd] = t]
    /\ UNCHANGED <<loopVars, fnVars, terminate, bytes, installed, interest, ready, hup,
                   pollEvents, invoked>>

------------------------------------------------------------------------------
(* The world: data and errors arrive, time passes.                         *)

KernelReady(fd) ==
    /\ fd \in installed \ ready
    /\ ready' = ready \cup {fd}
    /\ UNCHANGED <<loopVars, fnVars, terminate, bytes, installed, interest, hup, timer,
                   pollEvents, invoked>>

KernelHup(fd) ==
    /\ fd \in installed \ hup
    /\ hup' = hup \cup {fd}
    /\ UNCHANGED <<loopVars, fnVars, terminate, bytes, installed, interest, ready, timer,
                   pollEvents, invoked>>

TimePasses(fd) ==
    /\ timer[fd] = "armed"
    /\ timer' = [timer EXCEPT ![fd] = "due"]
    /\ UNCHANGED <<loopVars, fnVars, terminate, bytes, installed, interest, ready, hup,
                   pollEvents, invoked>>

------------------------------------------------------------------------------
(* The looper thread.                                                      *)

EnterLoop ==
    /\ pc = "idle"
    /\ pc' = "top"
    /\ looperId' = TRUE
    /\ UNCHANGED <<fdVars, fnVars, terminate, bytes, pollEvents, invoked>>

\* A mistake: the loop is left by a return instead of a break.
CheckTerminateSilent ==
    /\ pc = "top"
    /\ pc' = IF terminate = "no" THEN "poll" ELSE "exited"
    /\ UNCHANGED <<looperId, fdVars, fnVars, terminate, bytes, pollEvents, invoked>>

\* The terminate_loop_ test at the top of every round; leaving the loop ends
\* with NotifyLoopExit.
CheckTerminate ==
    /\ pc = "top"
    /\ IF terminate = "no"
       THEN pc' = "poll" /\ UNCHANGED looperId
       ELSE pc' = "exited" /\ looperId' = FALSE
    /\ UNCHANGED <<fdVars, fnVars, terminate, bytes, pollEvents, invoked>>

IoPending(fd) == fd \in hup \/ fd \in ready \cap interest

\* What the scan of pollfds collects after poll returned.
PolledEvents ==
    {[fd |-> fd, kind |-> "io"] : fd \in {g \in installed : IoPending(g)}}
    \cup {[fd |-> fd, kind |-> "timeout"] :
             fd \in {g \in installed : ~IoPending(g) /\ timer[g] = "due"}}
    \cup {[fd |-> fd, kind |-> "io"] : fd \in {g \in {InterruptFd} : bytes > 0}}

\* poll returns and the scan refreshes last_active of every event it records.
\* A descriptor with a timeout bounds the poll, and the bound is truncated to
\* milliseconds: the round it ends may find the deadline not yet passed.
PollReturn ==
    /\ pc = "poll"
    /\ PolledEvents # {} \/ \E fd \in installed : timer[fd] # "none"
    /\ pollEvents' = PolledEvents
    /\ invoked' = {}
    /\ timer' = [fd \in Fds |->
                   IF timer[fd] = "due" /\ \E e \in PolledEvents : e.fd = fd
                   THEN "armed" ELSE timer[fd]]
    /\ pc' = "handle"
    /\ UNCHANGED <<looperId, fnVars, terminate, bytes, installed, interest, ready, hup>>

\* poll() == -1: Loop returns on the spot, without NotifyLoopExit.
PollFail ==
    /\ pc = "poll" /\ PollMayFail
    /\ pc' = "failed"
    /\ UNCHANGED <<looperId, fdVars, fnVars, terminate, bytes, pollEvents, invoked>>

StillInstalled(e) == e.fd \in installed \cup {InterruptFd}

\* HandleEvents: the first event (in descriptor order) that is still
\* installed is invoked, and the loop over the events ends there.
HandleEvents ==
    /\ pc = "handle"
    /\ \/ \E e \in pollEvents :
            /\ StillInstalled(e)
            /\ \A o \in pollEvents : StillInstalled(o) => e.fd <= o.fd
            /\ invoked' = {e.fd}
            /\ IF e.fd = InterruptFd
               THEN /\ bytes' = IF bytes > ReadSize THEN bytes - ReadSize ELSE 0
                    /\ pc' = "flush"
                    /\ UNCHANGED ready
               ELSE /\ pc' = "callback"
                    /\ ready' \in {ready, ready \ {e.fd}}
                    /\ UNCHANGED bytes
       \/ /\ \A e \in pollEvents : ~StillInstalled(e)
          /\ pc' = "flush"
          /\ UNCHANGED <<invoked, bytes, ready>>
    /\ UNCHANGED <<looperId, fnVars, terminate, installed, interest, hup, timer, pollEvents>>

CallbackReturn ==
    /\ pc = "callback"
    /\ pc' = "flush"
    /\ UNCHANGED <<looperId, fdVars, fnVars, terminate, bytes, pollEvents, invoked>>

\* A mistake: the newest function is taken instead of the oldest.
FlushRunQueueBack ==
    /\ pc = "flush"
    /\ IF runQueue = <<>>
       THEN pc' = "top" /\ pollEvents' = {} /\ UNCHANGED <<runQueue, executed>>
       ELSE /\ pc' = "fn"
            /\ executed' = Append(executed, runQueue[Len(runQueue)])
            /\ runQueue' = SubSeq(runQueue, 1, Len(runQueue) - 1)
            /\ UNCHANGED pollEvents
    /\ UNCHANGED <<looperId, fdVars, fnState, terminate, bytes, invoked>>

\* A mistake: the front function is called but not taken out.
FlushRunQueueKeep ==
    /\ pc = "flush"
    /\ IF runQueue = <<>>
       THEN pc' = "top" /\ pollEvents' = {} /\ UNCHANGED executed
       ELSE pc' = "fn" /\ executed' = Append(executed, Head(runQueue)) /\ UNCHANGED pollEvents
    /\ UNCHANGED <<looperId, fdVars, runQueue, fnState, terminate, bytes, invoked>>

\* FlushRunQueue: take the front under the mutex and call it unlocked, until
\* the queue is empty; poll_events is cleared when the round ends.
FlushRunQueue ==
    /\ pc = "flush"
    /\ IF runQueue = <<>>
       THEN pc' = "top" /\ pollEvents' = {} /\ UNCHANGED <<runQueue, executed>>
       ELSE /\ pc' = "fn"
            /\ executed' = Append(executed, Head(runQueue))
            /\ runQueue' = Tail(runQueue)
            /\ UNCHANGED pollEvents
    /\ UNCHANGED <<looperId, fdVars, fnState, terminate, bytes, invoked>>

FnReturn ==
    /\ pc = "fn"
    /\ pc' = "flush"
    /\ UNCHANGED <<looperId, fdVars, fnVars, terminate, bytes, pollEvents, invoked>>

Looper == \/ EnterLoop \/ CheckTerminate \/ PollReturn \/ PollFail \/ HandleEvents
          \/ CallbackReturn \/ FlushRunQueue \/ FnReturn

Callers == \/ \E f \in Fns : RunPush(f) \/ RunInterrupt(f)
           \/ TerminateSet \/ TerminateInterrupt
           \/ \E fd \in Fds : Create(fd) \/ Destroy(fd) \/ Set(fd) \/ SetTimeout(fd)

World == \E fd \in Fds : KernelReady(fd) \/ KernelHup(fd) \/ TimePasses(fd)

Next == Looper \/ Callers \/ World

\* The looper is a thread that is always scheduled and whose handlers and
\* functions return; a thread inside Run or TerminateLoop finishes the call.
\* Nothing obliges the world, or anybody to call these operations at all.
Fairness ==
    /\ WF_vars(EnterLoop) /\ WF_vars(CheckTerminate) /\ WF_vars(PollReturn)
    /\ WF_vars(HandleEvents) /\ WF_vars(CallbackReturn)
    /\ WF_vars(FlushRunQueue) /\ WF_vars(FnReturn)
    /\ \A f \in Fns : WF_vars(RunInterrupt(f))
    /\ WF_vars(TerminateInterrupt)

Spec == Init /\ [][Next]_vars

FairSpec == Spec /\ Fairness

------------------------------------------------------------------------------
(* Properties.                                                             *)

\* No wakeup is lost (fdevent_context::Run against Loop): a looper that is
\* about to sleep in poll, or sleeps there, while functions are queued has an
\* unread interrupt, or a thread inside Run or TerminateLoop is about to send
\* one.  The same holds of a stored terminate flag.
NoLostWakeup ==
    /\ pc = "poll" /\ runQueue # <<>> =>
          bytes > 0 \/ \E f \in Fns : fnState[f] = "pushed"
    /\ pc = "poll" /\ terminate = "done" => bytes > 0

\* The strengthening that is inductive: the queue can only be non-empty with
\* nobody about to interrupt while the interrupt is unread or while the looper
\* is still on its way to FlushRunQueue.
WakeupInv ==
    /\ pc \in {"idle", "top", "poll"} /\ runQueue # <<>> =>
          bytes > 0 \/ \E f \in Fns : fnState[f] = "pushed"
    /\ pc \in {"idle", "poll"} /\ terminate = "done" => bytes > 0

Elems(s) == {s[i] : i \in DOMAIN s}
NoDup(s) == \A i, j \in DOMAIN s : s[i] = s[j] => i = j

\* FlushRunQueue drops nothing and runs nothing twice, though functions are
\* pushed while it runs unlocked: a function some Run has pushed is in the
\* queue or was taken out of it, not both, and once.
RunExactlyOnce ==
    /\ \A f \in Fns : fnState[f] # "new" <=> f \in Elems(runQueue) \cup Elems(executed)
    /\ NoDup(runQueue) /\ NoDup(executed)
    /\ Elems(runQueue) \cap Elems(executed) = {}

\* fdevent_run_on_looper keeps the promise of LooperQueue.
LQ == INSTANCE LooperQueue WITH pending <- runQueue, done <- executed,
                                open <- pc \notin {"exited", "failed"}

\* The loop implements LooperQueue: order, no repetition, and, under the
\* fairness above, no function left in the queue of a loop that goes on.
ImplementsLooperQueue == LQ!Spec

\* The part of that promise which needs no fairness: order, once each.
ImplementsLooperQueueOrder == LQ!SafeSpec

\* TerminateLoop ends the loop, and the exit is announced to the thread in
\* WaitForLoopExit, which waits for looper_thread_id_ to be reset; only a loop
\* that poll's failure made return does not announce it.
TerminationIsAnnounced ==
    (terminate # "no") ~> (pc = "failed" \/ (pc # "idle" /\ ~looperId))

\* fdevent.h, on SetTimeout: "If no events are triggered by the timeout, an
\* FDE_TIMEOUT will be generated" and "it will trigger repeatedly every
\* |timeout| ms".  When the handlers of a round are done,
\* every timeout the scan recorded, and whose timer it restarted, has been
\* passed to its handler, unless its descriptor went away.
TimeoutGenerated ==
    pc = "flush" =>
        \A e \in pollEvents :
            e.kind = "timeout" /\ e.fd \in installed => e.fd \in invoked
==============================================================================
