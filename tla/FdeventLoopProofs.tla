-------------------------- MODULE FdeventLoopProofs --------------------------
(***************************************************************************)
(* Proofs about FdeventLoop, for every set of descriptors and functions,   *)
(* every size of the interrupt socket pair and every read size.            *)
(***************************************************************************)
EXTENDS FdeventLoop, TLAPS

(* What one queue operation does to the elements of a sequence.            *)
LEMMA AppendElems ==
    ASSUME NEW S, NEW s \in Seq(S), NEW x \in S
    PROVE  /\ Append(s, x) \in Seq(S)
           /\ Elems(Append(s, x)) = Elems(s) \cup {x}
           /\ NoDup(s) /\ x \notin Elems(s) => NoDup(Append(s, x))
  <1> DEFINE t == Append(s, x)
  <1>1. /\ t \in Seq(S) /\ Len(s) \in Nat
        /\ DOMAIN s = 1..Len(s) /\ DOMAIN t = 1..(Len(s) + 1)
        /\ \A i \in 1..Len(s) : t[i] = s[i]
        /\ t[Len(s) + 1] = x
    OBVIOUS
  <1> HIDE DEF t
  <1>2. \A i \in 1..(Len(s) + 1) : i \in 1..Len(s) \/ i = Len(s) + 1
    BY <1>1
  <1>3. Elems(t) = Elems(s) \cup {x}
    <2>1. Elems(t) \subseteq Elems(s) \cup {x}
      BY <1>1, <1>2 DEF Elems
    <2>2. \A i \in 1..Len(s) : i \in 1..(Len(s) + 1)
      BY <1>1
    <2>3. Elems(s) \subseteq Elems(t)
      BY <1>1, <2>2 DEF Elems
    <2>4. x \in Elems(t)
      BY <1>1 DEF Elems
    <2> QED BY <2>1, <2>3, <2>4
  <1>4. ASSUME NoDup(s), x \notin Elems(s) PROVE NoDup(t)
    <2> SUFFICES ASSUME NEW i \in 1..(Len(s) + 1), NEW j \in 1..(Len(s) + 1), t[i] = t[j]
                 PROVE  i = j
      BY <1>1 DEF NoDup
    <2>1. \A k \in 1..Len(s) : t[k] # x
      BY <1>1, <1>4 DEF Elems
    <2> QED BY <2>1, <1>1, <1>2, <1>4 DEF NoDup
  <1> QED BY <1>1, <1>3, <1>4 DEF t

LEMMA HeadTailElems ==
    ASSUME NEW S, NEW s \in Seq(S), s # <<>>
    PROVE  /\ Head(s) \in S
           /\ Tail(s) \in Seq(S)
           /\ Elems(s) = {Head(s)} \cup Elems(Tail(s))
           /\ NoDup(s) => NoDup(Tail(s)) /\ Head(s) \notin Elems(Tail(s))
  <1>1. Head(s) = s[1] /\ Len(s) \in Nat \ {0} /\ DOMAIN s = 1..Len(s)
    OBVIOUS
  <1>2. /\ Tail(s) \in Seq(S) /\ Head(s) \in S
        /\ DOMAIN Tail(s) = 1..(Len(s) - 1)
        /\ \A i \in 1..(Len(s) - 1) : Tail(s)[i] = s[i + 1]
    OBVIOUS
  <1>3. Elems(s) \subseteq {Head(s)} \cup Elems(Tail(s))
    <2> SUFFICES ASSUME NEW i \in 1..Len(s)
                 PROVE  s[i] \in {Head(s)} \cup Elems(Tail(s))
      BY <1>1, Zenon DEF Elems
    <2>1. CASE i = 1
      BY <2>1, <1>1
    <2>2. CASE i # 1
      <3>1. i - 1 \in 1..(Len(s) - 1) /\ (i - 1) + 1 = i
        BY <2>2, <1>1
      <3>2. Tail(s)[i - 1] = s[i]
        BY <3>1, <1>2
      <3> QED BY <3>1, <3>2, <1>2, Zenon DEF Elems
    <2> QED BY <2>1, <2>2
  <1>4. {Head(s)} \cup Elems(Tail(s)) \subseteq Elems(s)
    BY <1>1, <1>2 DEF Elems
  <1>5. NoDup(s) => NoDup(Tail(s)) /\ Head(s) \notin Elems(Tail(s))
    BY <1>1, <1>2 DEF NoDup, Elems
  <1> QED BY <1>2, <1>3, <1>4, <1>5

------------------------------------------------------------------------------
(* Types.                                                                  *)

\* The loop's state keeps its types: in particular descriptors with an
\* interest, data or an error are installed ones, whatever Destroy removes,
\* and the interrupt socket pair never holds more than it can.
THEOREM TypeCorrect == Spec => []TypeOK
  <1> USE FdeventAssumption
  <1>1. ASSUME Init PROVE TypeOK
    <2>1. runQueue \in Seq(Fns) /\ executed \in Seq(Fns)
      BY <1>1 DEF Init
    <2>2. /\ fnState \in [Fns -> {"new", "pushed", "posted"}]
          /\ timer \in [Fds -> {"none", "armed", "due"}]
      BY <1>1 DEF Init
    <2>3. bytes \in 0..MaxInterrupt
      BY <1>1 DEF Init
    <2>6. looperId \in BOOLEAN
      BY <1>1, Zenon DEF Init
    <2>4. /\ pc \in {"idle", "top", "poll", "handle", "callback", "flush", "fn",
                    "exited", "failed"}
          /\ terminate \in {"no", "set", "done"}
      BY <1>1 DEF Init
    <2>5. /\ installed \subseteq Fds /\ interest \subseteq installed
          /\ ready \subseteq installed /\ hup \subseteq installed
          /\ pollEvents \subseteq Event /\ invoked \subseteq Fds \cup {InterruptFd}
      BY <1>1 DEF Init
    <2> QED BY <2>1, <2>2, <2>3, <2>4, <2>5, <2>6 DEF TypeOK
  <1>2. TypeOK /\ [Next]_vars => TypeOK'
    <2> SUFFICES ASSUME TypeOK, [Next]_vars PROVE TypeOK'
      OBVIOUS
    <2> USE DEF TypeOK, loopVars, fdVars, fnVars
    <2>1. ASSUME NEW f \in Fns, RunPush(f) PROVE TypeOK'
      BY <2>1 DEF RunPush
    <2>2. ASSUME NEW f \in Fns, RunInterrupt(f) PROVE TypeOK'
      BY <2>2 DEF RunInterrupt, Interrupt
    <2>3. CASE TerminateSet
      BY <2>3 DEF TerminateSet
    <2>4. CASE TerminateInterrupt
      BY <2>4 DEF TerminateInterrupt, Interrupt
    <2>5. ASSUME NEW fd \in Fds, Create(fd) PROVE TypeOK'
      BY <2>5 DEF Create
    <2>6. ASSUME NEW fd \in Fds, Destroy(fd) PROVE TypeOK'
      BY <2>6 DEF Destroy
    <2>7. ASSUME NEW fd \in Fds, Set(fd) PROVE TypeOK'
      BY <2>7 DEF Set
    <2>8. ASSUME NEW fd \in Fds, SetTimeout(fd) PROVE TypeOK'
      BY <2>8 DEF SetTimeout
    <2>9. ASSUME NEW fd \in Fds, KernelReady(fd) PROVE TypeOK'
      BY <2>9 DEF KernelReady
    <2>10. ASSUME NEW fd \in Fds, KernelHup(fd) PROVE TypeOK'
      BY <2>10 DEF KernelHup
    <2>11. ASSUME NEW fd \in Fds, TimePasses(fd) PROVE TypeOK'
      BY <2>11 DEF TimePasses
    <2>12. CASE EnterLoop
      BY <2>12 DEF EnterLoop
    <2>13. CASE CheckTerminate
      BY <2>13 DEF CheckTerminate
    <2>14. CASE PollReturn
      <3>1. PolledEvents \subseteq Event
        BY DEF PolledEvents, Event
      <3>2. timer' \in [Fds -> {"none", "armed", "due"}]
        BY <2>14 DEF PollReturn
      <3> QED BY <2>14, <3>1, <3>2 DEF PollReturn
    <2>15. CASE PollFail
      BY <2>15 DEF PollFail
    <2>16. CASE HandleEvents
      <3>1. CASE \A e \in pollEvents : ~StillInstalled(e)
        <4>1. ~ \E e \in pollEvents : StillInstalled(e)
          BY <3>1
        <4>2. pc' = "flush" /\ UNCHANGED <<invoked, bytes, ready>>
          BY <2>16, <4>1 DEF HandleEvents
        <4> QED BY <2>16, <4>2 DEF HandleEvents
      <3>2. ASSUME NEW e \in pollEvents, invoked' = {e.fd},
                   IF e.fd = InterruptFd
                   THEN /\ bytes' = IF bytes > ReadSize THEN bytes - ReadSize ELSE 0
                        /\ pc' = "flush"
                        /\ UNCHANGED ready
                   ELSE /\ pc' = "callback"
                        /\ ready' \in {ready, ready \ {e.fd}}
                        /\ UNCHANGED bytes
            PROVE  TypeOK'
        <4>1. e.fd \in Fds \cup {InterruptFd}
          BY DEF Event
        <4>2. invoked' \subseteq Fds \cup {InterruptFd}
          BY <4>1, <3>2
        <4>3. bytes' \in 0..MaxInterrupt
          BY <3>2
        <4>5. ready' \subseteq installed
          BY <3>2
        <4>4. pc' \in {"flush", "callback"}
          BY <3>2
        <4> QED BY <2>16, <4>2, <4>3, <4>4, <4>5 DEF HandleEvents
      <3> QED BY <2>16, <3>1, <3>2, Zenon DEF HandleEvents
    <2>17. CASE CallbackReturn
      BY <2>17 DEF CallbackReturn
    <2>18. CASE FlushRunQueue
      <3>1. runQueue' \in Seq(Fns) /\ executed' \in Seq(Fns)
        <4>1. CASE runQueue = <<>>
          BY <2>18, <4>1 DEF FlushRunQueue
        <4>2. CASE runQueue # <<>>
          <5>1. Head(runQueue) \in Fns /\ Tail(runQueue) \in Seq(Fns)
            BY <4>2, HeadTailElems
          <5>2. executed' = Append(executed, Head(runQueue)) /\ runQueue' = Tail(runQueue)
            BY <2>18, <4>2 DEF FlushRunQueue
          <5> QED BY <5>1, <5>2
        <4> QED BY <4>1, <4>2
      <3> QED BY <2>18, <3>1 DEF FlushRunQueue
    <2>19. CASE FnReturn
      BY <2>19 DEF FnReturn
    <2>20. CASE UNCHANGED vars
      BY <2>20 DEF vars
    <2> QED
      BY <2>1, <2>2, <2>3, <2>4, <2>5, <2>6, <2>7, <2>8, <2>9, <2>10, <2>11, <2>12, <2>13,
         <2>14, <2>15, <2>16, <2>17, <2>18, <2>19, <2>20
         DEF Next, Looper, Callers, World
  <1> QED BY <1>1, <1>2, PTL DEF Spec

------------------------------------------------------------------------------
(* Wakeups.                                                                *)

\* No wakeup is lost between Run or TerminateLoop and a poll that is about to
\* sleep: WakeupInv is inductive, because the looper only gets back to the
\* top of its loop through a FlushRunQueue that found the queue empty.
THEOREM WakeupCorrect == Spec => []NoLostWakeup
  <1> USE FdeventAssumption
  <1>1. Init => WakeupInv
    BY DEF Init, WakeupInv
  <1>2. TypeOK /\ WakeupInv /\ [Next]_vars => WakeupInv'
    <2> SUFFICES ASSUME TypeOK, WakeupInv, [Next]_vars PROVE WakeupInv'
      OBVIOUS
    <2> USE DEF WakeupInv, loopVars, fdVars, fnVars
    <2>1. ASSUME NEW f \in Fns, RunPush(f) PROVE WakeupInv'
      <3>1. fnState'[f] = "pushed"
        BY <2>1 DEF RunPush, TypeOK
      <3> QED BY <2>1, <3>1 DEF RunPush
    <2>2. ASSUME NEW f \in Fns, RunInterrupt(f) PROVE WakeupInv'
      <3>1. bytes' > 0
        BY <2>2 DEF RunInterrupt, Interrupt, TypeOK
      <3> QED BY <2>2, <3>1 DEF RunInterrupt
    <2>3. CASE TerminateSet
      BY <2>3 DEF TerminateSet
    <2>4. CASE TerminateInterrupt
      <3>1. bytes' > 0
        BY <2>4 DEF TerminateInterrupt, Interrupt, TypeOK
      <3> QED BY <2>4, <3>1 DEF TerminateInterrupt
    <2>5. ASSUME NEW fd \in Fds, Create(fd) \/ Destroy(fd) \/ Set(fd) \/ SetTimeout(fd)
          PROVE  WakeupInv'
      BY <2>5 DEF Create, Destroy, Set, SetTimeout
    <2>6. ASSUME NEW fd \in Fds, KernelReady(fd) \/ KernelHup(fd) \/ TimePasses(fd)
          PROVE  WakeupInv'
      BY <2>6 DEF KernelReady, KernelHup, TimePasses
    <2>7. CASE EnterLoop
      BY <2>7 DEF EnterLoop
    <2>8. CASE CheckTerminate
      BY <2>8 DEF CheckTerminate
    <2>9. CASE PollReturn \/ PollFail
      BY <2>9 DEF PollReturn, PollFail
    <2>10. CASE HandleEvents
      <3>1. pc' \in {"flush", "callback"}
        BY <2>10 DEF HandleEvents
      <3> QED BY <3>1
    <2>11. CASE CallbackReturn \/ FnReturn
      BY <2>11 DEF CallbackReturn, FnReturn
    <2>12. CASE FlushRunQueue
      BY <2>12 DEF FlushRunQueue
    <2>13. CASE UNCHANGED vars
      BY <2>13 DEF vars
    <2> QED
      BY <2>1, <2>2, <2>3, <2>4, <2>5, <2>6, <2>7, <2>8, <2>9, <2>10, <2>11, <2>12, <2>13
         DEF Next, Looper, Callers, World
  <1>3. WakeupInv => NoLostWakeup
    BY DEF WakeupInv, NoLostWakeup
  <1> QED BY <1>1, <1>2, <1>3, TypeCorrect, PTL DEF Spec

------------------------------------------------------------------------------
(* The run queue.                                                          *)

\* The steps that touch neither the queue nor the progress of a Run call.
LEMMA QueueFrame ==
    ASSUME [Next]_vars
    PROVE  \/ \E f \in Fns : RunPush(f) \/ RunInterrupt(f)
           \/ FlushRunQueue
           \/ UNCHANGED fnVars
  <1> USE DEF fnVars, loopVars, fdVars
  <1>1. ASSUME NEW fd \in Fds, Create(fd) \/ Destroy(fd) \/ Set(fd) \/ SetTimeout(fd)
        PROVE  UNCHANGED fnVars
    BY <1>1 DEF Create, Destroy, Set, SetTimeout
  <1>2. ASSUME NEW fd \in Fds, KernelReady(fd) \/ KernelHup(fd) \/ TimePasses(fd)
        PROVE  UNCHANGED fnVars
    BY <1>2 DEF KernelReady, KernelHup, TimePasses
  <1>3. CASE TerminateSet \/ TerminateInterrupt \/ EnterLoop \/ CheckTerminate
    BY <1>3 DEF TerminateSet, TerminateInterrupt, EnterLoop, CheckTerminate
  <1>4. CASE PollReturn \/ PollFail \/ HandleEvents \/ CallbackReturn \/ FnReturn
    BY <1>4 DEF PollReturn, PollFail, HandleEvents, CallbackReturn, FnReturn
  <1>5. CASE UNCHANGED vars
    BY <1>5 DEF vars
  <1> QED BY <1>1, <1>2, <1>3, <1>4, <1>5 DEF Next, Looper, Callers, World

\* Every function handed to Run is queued or was taken out, never both and
\* never twice, although Run pushes while FlushRunQueue runs unlocked.
THEOREM QueueCorrect == Spec => []RunExactlyOnce
  <1>1. Init => RunExactlyOnce
    BY DEF Init, RunExactlyOnce, Elems, NoDup
  <1>2. TypeOK /\ RunExactlyOnce /\ [Next]_vars => RunExactlyOnce'
    <2> SUFFICES ASSUME TypeOK, RunExactlyOnce, [Next]_vars PROVE RunExactlyOnce'
      OBVIOUS
    <2>0. runQueue \in Seq(Fns) /\ executed \in Seq(Fns)
      BY DEF TypeOK
    <2>1. ASSUME NEW f \in Fns, RunPush(f) PROVE RunExactlyOnce'
      <3>1. f \notin Elems(runQueue) /\ f \notin Elems(executed)
        BY <2>1 DEF RunPush, RunExactlyOnce
      <3>2. runQueue' = Append(runQueue, f) /\ executed' = executed
        BY <2>1 DEF RunPush
      <3>3. Elems(runQueue') = Elems(runQueue) \cup {f} /\ NoDup(runQueue')
        BY <2>0, <3>1, <3>2, AppendElems DEF RunExactlyOnce
      <3>4. \A g \in Fns : fnState'[g] # "new" <=> fnState[g] # "new" \/ g = f
        BY <2>1 DEF RunPush, TypeOK
      <3> QED BY <3>1, <3>2, <3>3, <3>4 DEF RunExactlyOnce
    <2>2. ASSUME NEW f \in Fns, RunInterrupt(f) PROVE RunExactlyOnce'
      <3>1. \A g \in Fns : fnState'[g] # "new" <=> fnState[g] # "new"
        BY <2>2 DEF RunInterrupt, TypeOK
      <3>2. UNCHANGED <<runQueue, executed>>
        BY <2>2 DEF RunInterrupt
      <3> QED BY <3>1, <3>2 DEF RunExactlyOnce
    <2>3. CASE FlushRunQueue
      <3>1. CASE runQueue = <<>>
        BY <2>3, <3>1 DEF FlushRunQueue, RunExactlyOnce
      <3>2. CASE runQueue # <<>>
        <4>1. /\ executed' = Append(executed, Head(runQueue))
              /\ runQueue' = Tail(runQueue) /\ fnState' = fnState
          BY <2>3, <3>2 DEF FlushRunQueue
        <4>2. /\ Head(runQueue) \in Fns
              /\ Elems(runQueue) = {Head(runQueue)} \cup Elems(runQueue')
              /\ NoDup(runQueue') /\ Head(runQueue) \notin Elems(runQueue')
          BY <2>0, <3>2, <4>1, HeadTailElems DEF RunExactlyOnce
        <4>3. Head(runQueue) \notin Elems(executed)
          BY <4>2 DEF RunExactlyOnce
        <4>4. Elems(executed') = Elems(executed) \cup {Head(runQueue)} /\ NoDup(executed')
          BY <2>0, <4>1, <4>2, <4>3, AppendElems DEF RunExactlyOnce
        <4> QED BY <4>1, <4>2, <4>3, <4>4 DEF RunExactlyOnce
      <3> QED BY <3>1, <3>2
    <2>4. CASE UNCHANGED fnVars
      BY <2>4 DEF fnVars, RunExactlyOnce
    <2> QED BY <2>1, <2>2, <2>3, <2>4, QueueFrame
  <1> QED BY <1>1, <1>2, TypeCorrect, PTL DEF Spec

\* A loop that was left is never entered again.
LEMMA ExitIsFinal ==
    ASSUME [Next]_vars, pc \in {"exited", "failed"}
    PROVE  pc' = pc
  <1> USE DEF loopVars
  <1>1. ASSUME NEW fd \in Fds, Create(fd) \/ Destroy(fd) \/ Set(fd) \/ SetTimeout(fd)
        PROVE  pc' = pc
    BY <1>1 DEF Create, Destroy, Set, SetTimeout
  <1>2. ASSUME NEW fd \in Fds, KernelReady(fd) \/ KernelHup(fd) \/ TimePasses(fd)
        PROVE  pc' = pc
    BY <1>2 DEF KernelReady, KernelHup, TimePasses
  <1>3. ASSUME NEW f \in Fns, RunPush(f) \/ RunInterrupt(f)
        PROVE  pc' = pc
    BY <1>3 DEF RunPush, RunInterrupt
  <1>4. CASE TerminateSet \/ TerminateInterrupt
    BY <1>4 DEF TerminateSet, TerminateInterrupt
  <1>5. ~Looper
    BY DEF Looper, EnterLoop, CheckTerminate, PollReturn, PollFail, HandleEvents,
           CallbackReturn, FlushRunQueue, FnReturn
  <1>6. CASE UNCHANGED vars
    BY <1>6 DEF vars
  <1> QED BY <1>1, <1>2, <1>3, <1>4, <1>5, <1>6 DEF Next, Callers, World

\* The loop implements LooperQueue's order: every step of the loop is a Post,
\* an Execute or a Close of the abstract queue, or leaves it alone.
THEOREM RefinesLooperQueue == Spec => ImplementsLooperQueueOrder
  <1>1. Init => LQ!Init
    BY DEF Init, LQ!Init
  <1>2. TypeOK /\ RunExactlyOnce /\ [Next]_vars => [LQ!Next]_(LQ!vars)
    <2> SUFFICES ASSUME TypeOK, RunExactlyOnce, [Next]_vars PROVE [LQ!Next]_(LQ!vars)
      OBVIOUS
    <2> DEFINE open == pc \notin {"exited", "failed"}
    <2>1. ASSUME NEW f \in Fns, RunPush(f) PROVE LQ!Post(f)
      <3>1. f \notin LQ!Queued
        BY <2>1 DEF RunPush, RunExactlyOnce, LQ!Queued, Elems
      <3> QED BY <2>1, <3>1 DEF RunPush, LQ!Post, loopVars
    <2>2. ASSUME NEW f \in Fns, RunInterrupt(f) PROVE UNCHANGED LQ!vars
      BY <2>2 DEF RunInterrupt, LQ!vars, loopVars
    <2>3. CASE FlushRunQueue
      BY <2>3 DEF FlushRunQueue, LQ!Execute, LQ!vars, LQ!Next
    <2>4. CASE UNCHANGED fnVars
      <3>1. open' # open => open /\ open' = FALSE
        BY ExitIsFinal
      <3> QED BY <2>4, <3>1 DEF fnVars, LQ!Close, LQ!Next, LQ!vars
    <2> QED BY <2>1, <2>2, <2>3, <2>4, QueueFrame DEF LQ!Next
  <1> QED
    BY <1>1, <1>2, TypeCorrect, QueueCorrect, PTL DEF Spec, ImplementsLooperQueueOrder, LQ!SafeSpec
==============================================================================
