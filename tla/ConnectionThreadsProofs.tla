----------------------- MODULE ConnectionThreadsProofs -----------------------
(***************************************************************************)
(* Proofs about ConnectionThreads, for every number of packets and every   *)
(* length of the write queue: the threads of a connection implement        *)
(* Connection, and a deleted transport has no work left.                   *)
(***************************************************************************)
EXTENDS ConnectionThreads, TLAPS

(* The inductive invariant, in parts.                                      *)

\* Where a Stop that set stopped_ is until it has reported the end.
Phases == {"close", "move", "joinR", "joinW", "tell"}

Work == {"packet", "stls", "error", "unregister"}

\* TypeOK without its two bounds, which nothing below needs.
Types ==
    /\ life \in {"new", "live", "tracked", "deleted"}
    /\ tlock \in {"client", "looper", "none"}
    /\ kicked \in BOOLEAN /\ mutex \in BOOLEAN /\ started \in BOOLEAN
    /\ stopped \in BOOLEAN /\ error \in BOOLEAN /\ open \in BOOLEAN
    /\ rset \in BOOLEAN /\ late \in BOOLEAN /\ mine \in BOOLEAN
    /\ rpc \in {"none", "reading", "packet", "stls", "failed", "ended"}
    /\ wpc \in {"none", "top", "waiting", "writing", "failed", "ended"}
    /\ spc \in [Stoppers -> {"idle", "reset", "enter", "return"} \cup Phases]
    /\ queue \in Seq(Work)
    /\ packets \in Nat
    /\ errors \in {0, 1} /\ (error <=> errors = 1)

\* Whoever stops the connection holds transport_lock.
LockInv == \A s \in Stoppers : spc[s] # "idle" <=> tlock = s

\* Nothing happens before Start.
StartInv ==
    /\ started <=> life # "new"
    /\ ~started => /\ ~stopped /\ ~error /\ tlock = "none" /\ queue = <<>>
                   /\ rpc = "none" /\ wpc = "none" /\ hpc = "none"

\* What holds at each step of Stop.
StopInv ==
    /\ \A s \in Stoppers :
          /\ spc[s] \in Phases \cup {"return"} => stopped
          /\ spc[s] = "joinR" => mine \/ late
          /\ spc[s] \in {"joinW", "tell"} => rpc = "ended" \/ late
          /\ spc[s] = "tell" => wpc = "ended"
    /\ stopped /\ (\A s \in Stoppers : spc[s] # "close") => ~open
    /\ StopDone => error /\ wpc = "ended" /\ (rpc = "ended" \/ late)

\* A read thread that was started behind Stop's back finds the descriptor
\* closed.
LateInv ==
    late => /\ stopped /\ \A s \in Stoppers : spc[s] \notin {"close", "move"}
            /\ rpc \in {"reading", "failed", "ended"}

Inv1 == Types /\ LockInv /\ StartInv /\ StopInv /\ LateInv

\* The end of the connection goes through the looper's queue once, and what
\* unregisters the transport is behind everything else.
QueueInv ==
    /\ ~error => \A i \in DOMAIN queue : queue[i] \notin {"error", "unregister"}
    /\ \A i \in DOMAIN queue : queue[i] = "error" =>
          /\ life = "live" /\ spc["looper"] = "idle"
          /\ \A j \in DOMAIN queue : queue[j] \in {"error", "unregister"} => j = i
    /\ \A i \in DOMAIN queue : queue[i] = "unregister" =>
          /\ life = "live" /\ spc["looper"] = "idle"
          /\ i = Len(queue) /\ StopDone
    /\ spc["looper"] # "idle" =>
          /\ life = "live" /\ error
          /\ \A i \in DOMAIN queue : queue[i] \notin {"error", "unregister"}
    /\ life = "tracked" => error
    /\ life = "deleted" => queue = <<>> /\ StopDone

------------------------------------------------------------------------------
(* Every action keeps Inv1.                                                *)

\* call_once: afterwards the end is reported, once.
LEMMA TellOnce ==
    ASSUME Types, Tell
    PROVE  /\ error' /\ error' \in BOOLEAN /\ errors' = 1 /\ packets' = packets
           /\ queue' \in Seq(Work)
           /\ queue' = IF error THEN queue ELSE Append(queue, "error")
  <1>1. CASE error
    <2>1. UNCHANGED posts
      BY <1>1, Zenon DEF Tell
    <2>2. UNCHANGED <<error, queue, packets, errors>>
      BY <2>1 DEF posts
    <2>3. error' /\ error' \in BOOLEAN
      BY <2>2, <1>1, Zenon DEF Types
    <2> QED BY <2>2, <2>3, <1>1 DEF Types
  <1>2. CASE ~error
    <2>1. error' = TRUE /\ queue' = Append(queue, "error") /\ errors' = errors + 1 /\ packets' = packets
      BY <1>2, Zenon DEF Tell
    <2>2. error' /\ error' \in BOOLEAN
      BY <2>1, Zenon
    <2>3. queue' \in Seq(Work)
      BY <2>1 DEF Types, Work
    <2>4. errors' = 1
      BY <2>1, <1>2 DEF Types
    <2> QED BY <1>2, <2>1, <2>2, <2>3, <2>4
  <1> QED BY <1>1, <1>2

\* The actions of the read, write and handshake threads and of the device.
LEMMA ThreadsKeepInv1 ==
    ASSUME Inv1, Read \/ Written \/ ReaderStep \/ WriterStep \/ HandshakeStep \/ DeviceCloses
    PROVE  Inv1'
  <1> USE DEF Inv1, owner, flags, link, reader, posts, Stoppers, Phases
  <1>1. CASE Read
    BY <1>1 DEF Read, Alive, Types, LockInv, StartInv, StopInv, StopDone, LateInv
  <1>2. CASE ReadFails
    BY <1>2 DEF ReadFails, Types, LockInv, StartInv, StopInv, StopDone, LateInv
  <1>3. CASE PostPacket
    BY <1>3 DEF PostPacket, Work, Types, LockInv, StartInv, StopInv, StopDone, LateInv
  <1>4. CASE ReaderEnds
    <2>1. Types'
      BY <1>4, TellOnce DEF ReaderEnds, Types
    <2>2. LockInv' /\ StartInv' /\ StopInv' /\ LateInv'
      BY <1>4, TellOnce DEF ReaderEnds, Types, LockInv, StartInv, StopInv, StopDone, LateInv
    <2> QED BY <2>1, <2>2
  <1>5. CASE WriterTakes \/ Written \/ WriteFails
    BY <1>5 DEF WriterTakes, Written, WriteFails, Types, LockInv, StartInv, StopInv, StopDone, LateInv
  <1>6. CASE WriterEnds
    <2>1. Types'
      BY <1>6, TellOnce DEF WriterEnds, Types
    <2>2. LockInv' /\ StartInv' /\ StopInv' /\ LateInv'
      BY <1>6, TellOnce DEF WriterEnds, Types, LockInv, StartInv, StopInv, StopDone, LateInv
    <2> QED BY <2>1, <2>2
  <1>7. CASE HandshakeLock \/ HandshakeJoin
    <2>1. mutex' \in BOOLEAN /\ rset' \in BOOLEAN
      BY <1>7, Zenon DEF HandshakeLock, HandshakeJoin, Types
    <2> QED BY <1>7, <2>1 DEF HandshakeLock, HandshakeJoin, Types, LockInv, StartInv, StopInv, StopDone, LateInv
  <1>8. CASE HandshakeEnds
    <2>1. mutex' \in BOOLEAN /\ rset' \in BOOLEAN /\ mine' \in BOOLEAN /\ late' \in BOOLEAN
      BY <1>8, Zenon DEF HandshakeEnds
    <2>2. late' <=> stopped /\ \A s \in Stoppers : spc[s] \notin {"close", "move"}
      BY <1>8 DEF HandshakeEnds, Types
    <2> QED BY <1>8, <2>1, <2>2 DEF HandshakeEnds, Types, LockInv, StartInv, StopInv, StopDone, LateInv
  <1>9. CASE DeviceCloses
    BY <1>9 DEF DeviceCloses, Types, LockInv, StartInv, StopInv, StopDone, LateInv
  <1> QED
    BY <1>1, <1>2, <1>3, <1>4, <1>5, <1>6, <1>7, <1>8, <1>9
       DEF ReaderStep, WriterStep, HandshakeStep

\* Stop, by the client or by the looper.
LEMMA StopKeepsInv1 ==
    ASSUME Inv1, NEW s \in Stoppers, StopStep(s)
    PROVE  Inv1'
  <1> USE DEF Inv1, owner, flags, link, reader, posts, Stoppers, Phases, Goto
  <1>1. CASE StopReset(s)
    <2>1. open' \in BOOLEAN /\ (open' => open)
      BY <1>1, Zenon DEF StopReset, Types
    <2> QED BY <1>1, <2>1 DEF StopReset, Types, LockInv, StartInv, StopInv, StopDone, LateInv
  <1>2. CASE StopEnter(s)
    <2>1. CASE started /\ ~stopped
      <3>1. stopped' /\ stopped' \in BOOLEAN
        BY <1>2, <2>1, Zenon DEF StopEnter
      <3> QED BY <1>2, <2>1, <3>1 DEF StopEnter, Types, LockInv, StartInv, StopInv, StopDone, LateInv
    <2>2. CASE ~(started /\ ~stopped)
      BY <1>2, <2>2 DEF StopEnter, Types, LockInv, StartInv, StopInv, StopDone, LateInv
    <2> QED BY <2>1, <2>2
  <1>3. CASE StopClose(s)
    <2>1. ~open' /\ open' \in BOOLEAN
      BY <1>3, Zenon DEF StopClose
    <2> QED BY <1>3, <2>1 DEF StopClose, Notified, Types, LockInv, StartInv, StopInv, StopDone, LateInv
  <1>4. CASE StopMove(s)
    <2>1. mine' /\ mine' \in BOOLEAN /\ rset' \in BOOLEAN
      BY <1>4, Zenon DEF StopMove
    <2> QED BY <1>4, <2>1 DEF StopMove, Types, LockInv, StartInv, StopInv, StopDone, LateInv
  <1>5. CASE StopJoin(s)
    BY <1>5 DEF StopJoin, Types, LockInv, StartInv, StopInv, StopDone, LateInv
  <1>6. CASE StopTell(s)
    <2>1. Types'
      BY <1>6, TellOnce DEF StopTell, Types
    <2>2. LockInv' /\ StartInv' /\ StopInv' /\ LateInv'
      BY <1>6, TellOnce DEF StopTell, Types, LockInv, StartInv, StopInv, StopDone, LateInv
    <2> QED BY <2>1, <2>2
  <1> QED BY <1>1, <1>2, <1>3, <1>4, <1>5, <1>6 DEF StopStep

\* The rest of kick_transport and of the looper's work.
LEMMA OwnersKeepInv1 ==
    ASSUME Inv1,
           \/ KickTransport \/ KickReturns \/ RegisterTransport \/ SendPacket \/ HandlePacket
           \/ HandleStls \/ TransportDestroy \/ DestroyReturns \/ UnregisterTransport
    PROVE  Inv1'
  <1> USE DEF Inv1, owner, flags, link, reader, posts, Stoppers, Phases, Goto
  <1>1. CASE KickTransport
    <2>1. kicked' \in BOOLEAN
      BY <1>1, Zenon DEF KickTransport
    <2> QED BY <1>1, <2>1 DEF KickTransport, Types, LockInv, StartInv, StopInv, StopDone, LateInv
  <1>2. CASE KickReturns
    BY <1>2 DEF KickReturns, Types, LockInv, StartInv, StopInv, StopDone, LateInv
  <1>3. CASE RegisterTransport
    <2>1. started' /\ started' \in BOOLEAN /\ rset' \in BOOLEAN
      BY <1>3, Zenon DEF RegisterTransport
    <2> QED BY <1>3, <2>1 DEF RegisterTransport, Types, LockInv, StartInv, StopInv, StopDone, LateInv
  <1>4. CASE SendPacket
    BY <1>4 DEF SendPacket, Enqueue, Notified, Types, LockInv, StartInv, StopInv, StopDone, LateInv
  <1>5. CASE HandlePacket
    BY <1>5 DEF HandlePacket, Running, Work, Types, LockInv, StartInv, StopInv, StopDone, LateInv
  <1>6. CASE HandleStls
    BY <1>6 DEF HandleStls, Running, Enqueue, Notified, Work, Types, LockInv, StartInv, StopInv, StopDone, LateInv
  <1>7. CASE TransportDestroy
    BY <1>7 DEF TransportDestroy, Running, Work, Types, LockInv, StartInv, StopInv, StopDone, LateInv
  <1>8. CASE DestroyReturns
    BY <1>8 DEF DestroyReturns, Work, Types, LockInv, StartInv, StopInv, StopDone, LateInv
  <1>9. CASE UnregisterTransport
    BY <1>9 DEF UnregisterTransport, Running, Work, Types, LockInv, StartInv, StopInv, StopDone, LateInv
  <1> QED BY <1>1, <1>2, <1>3, <1>4, <1>5, <1>6, <1>7, <1>8, <1>9

LEMMA Inv1Correct == Spec => []Inv1
  <1>1. ASSUME Init PROVE Inv1
    <2>1. /\ kicked \in BOOLEAN /\ mutex \in BOOLEAN /\ started \in BOOLEAN
          /\ stopped \in BOOLEAN /\ error \in BOOLEAN /\ open \in BOOLEAN
          /\ rset \in BOOLEAN /\ late \in BOOLEAN /\ mine \in BOOLEAN
          /\ ~started /\ ~stopped /\ ~error /\ ~late
      BY <1>1, Zenon DEF Init
    <2> QED
      BY <1>1, <2>1 DEF Init, Inv1, Types, LockInv, StartInv, StopInv, StopDone, LateInv, Stoppers, Phases
  <1>2. Inv1 /\ [Next]_vars => Inv1'
    <2> SUFFICES ASSUME Inv1, [Next]_vars PROVE Inv1'
      OBVIOUS
    <2>1. CASE UNCHANGED vars
      BY <2>1 DEF vars, Inv1, Types, LockInv, StartInv, StopInv, StopDone, LateInv
    <2>2. CASE Next
      BY <2>2, ThreadsKeepInv1, StopKeepsInv1, OwnersKeepInv1 DEF Next, ClientStep, LooperStep, Stoppers
    <2> QED BY <2>1, <2>2
  <1> QED BY <1>1, <1>2, PTL DEF Spec

------------------------------------------------------------------------------
(* The refinement.                                                         *)

\* What a step is for the owner of the connection.
LEMMA StepOfConnection ==
    ASSUME Inv1, [Next]_vars
    PROVE  [C!Next]_(C!connectionVars)
  <1> USE DEF Inv1, owner, flags, link, reader, posts, Stoppers, Phases, Goto,
              State, StopDone, C!connectionVars, C!Next
  <1>1. CASE PostPacket
    <2>1. State = "started" /\ State' = "started"
      BY <1>1 DEF PostPacket, Types, StartInv, StopInv, LateInv
    <2> QED BY <1>1, <2>1 DEF PostPacket, C!HandleRead
  <1>2. CASE ReaderEnds \/ WriterEnds
    <2>1. State' = State /\ (~error => State = "started")
      BY <1>2 DEF ReaderEnds, WriterEnds, Types, StartInv, StopInv
    <2>2. Types /\ Tell
      BY <1>2 DEF ReaderEnds, WriterEnds
    <2>3. packets' = packets /\ (errors' = errors \/ (~error /\ errors = 0 /\ errors' = 1))
      BY <2>2, TellOnce DEF Types
    <2> HIDE DEF State
    <2> QED BY <2>1, <2>3 DEF C!HandleError
  <1>3. CASE RegisterTransport
    <2>1. started'
      BY <1>3, Zenon DEF RegisterTransport
    <2>2. ~started /\ ~stopped
      BY <1>3 DEF RegisterTransport, Types, StartInv
    <2> QED BY <1>3, <2>1, <2>2 DEF RegisterTransport, C!Start
  <1>4. ASSUME NEW s \in Stoppers, StopTell(s) PROVE C!Stop
    <2>1. Types /\ Tell
      BY <1>4 DEF StopTell
    <2>2. State = "started" /\ State' = "stopped"
      BY <1>4 DEF StopTell, Types, LockInv, StartInv, StopInv
    <2> QED BY <2>1, <2>2, TellOnce DEF C!Stop
  <1>5. ASSUME NEW s \in Stoppers,
               StopReset(s) \/ StopClose(s) \/ StopMove(s) \/ StopJoin(s)
        PROVE  UNCHANGED C!connectionVars
    BY <1>5 DEF StopReset, StopClose, StopMove, StopJoin, Types, LockInv, StartInv, StopInv
  <1>6. ASSUME NEW s \in Stoppers, StopEnter(s) PROVE UNCHANGED C!connectionVars
    <2>1. CASE started /\ ~stopped
      <3>1. stopped'
        BY <1>6, <2>1, Zenon DEF StopEnter
      <3> QED BY <1>6, <2>1, <3>1 DEF StopEnter, Types
    <2>2. CASE ~(started /\ ~stopped)
      BY <1>6, <2>2 DEF StopEnter, Types
    <2> QED BY <2>1, <2>2
  <1>7. CASE Read \/ Written \/ ReadFails \/ WriterTakes \/ WriteFails \/ DeviceCloses
    BY <1>7 DEF Read, Written, ReadFails, WriterTakes, WriteFails, DeviceCloses
  <1>8. CASE HandshakeStep
    BY <1>8 DEF HandshakeStep, HandshakeLock, HandshakeJoin, HandshakeEnds
  <1>9. CASE KickTransport \/ KickReturns \/ TransportDestroy \/ DestroyReturns
    BY <1>9 DEF KickTransport, KickReturns, TransportDestroy, DestroyReturns, Types, LockInv
  <1>10. CASE SendPacket \/ HandlePacket \/ HandleStls \/ UnregisterTransport
    BY <1>10 DEF SendPacket, HandlePacket, HandleStls, UnregisterTransport
  <1>11. CASE UNCHANGED vars
    BY <1>11 DEF vars
  <1> QED
    BY <1>1, <1>2, <1>3, <1>4, <1>5, <1>6, <1>7, <1>8, <1>9, <1>10, <1>11
       DEF Next, ReaderStep, WriterStep, StopStep, ClientStep, LooperStep

\* Stop in its many steps, against threads that fail, post, wait or make a
\* handshake meanwhile, is the atomic Stop that Transport relies on: packets
\* come only between Start and the return of Stop, and the end is reported
\* exactly once.
THEOREM RefinesConnection == Spec => ImplementsConnection
  <1>1. ASSUME Init PROVE C!Init
    <2>1. ~started
      BY <1>1, Zenon DEF Init
    <2> QED BY <1>1, <2>1 DEF Init, C!Init, State
  <1>2. Inv1 /\ [Next]_vars => [C!Next]_(C!connectionVars)
    BY StepOfConnection
  <1> QED BY <1>1, <1>2, Inv1Correct, PTL DEF Spec, ImplementsConnection, C!Spec

------------------------------------------------------------------------------
(* The looper's queue.                                                     *)

LEMMA AppendAt ==
    ASSUME NEW S, NEW s \in Seq(S), NEW x \in S
    PROVE  /\ Append(s, x) \in Seq(S) /\ Len(Append(s, x)) = Len(s) + 1
           /\ \A i \in DOMAIN s : i \in DOMAIN Append(s, x) /\ Append(s, x)[i] = s[i]
           /\ \A i \in DOMAIN Append(s, x) : i \in DOMAIN s \/ i = Len(s) + 1
           /\ Len(s) + 1 \in DOMAIN Append(s, x) /\ Append(s, x)[Len(s) + 1] = x
           /\ Len(s) + 1 \notin DOMAIN s
  OBVIOUS

LEMMA TailAt ==
    ASSUME NEW S, NEW s \in Seq(S), s # <<>>
    PROVE  /\ Tail(s) \in Seq(S) /\ Len(Tail(s)) = Len(s) - 1 /\ Len(s) \in Nat \ {0}
           /\ Head(s) = s[1] /\ 1 \in DOMAIN s
           /\ \A i \in DOMAIN Tail(s) : i \in Nat \ {0} /\ i + 1 \in DOMAIN s /\ Tail(s)[i] = s[i + 1]
           /\ Len(s) = 1 => Tail(s) = <<>>
  OBVIOUS

\* The threads post packets, and the end once, when there is still somebody
\* to hear of it.
LEMMA PostsKeepQueueInv ==
    ASSUME Inv1, QueueInv,
           PostPacket \/ ReaderEnds \/ WriterEnds \/ \E s \in Stoppers : StopTell(s)
    PROVE  QueueInv'
  <1> USE DEF Inv1, owner, flags, link, reader, posts, Stoppers, Phases, Goto, StopDone
  <1>0. queue \in Seq(Work) /\ Len(queue) \in Nat
    BY DEF Types
  <1>1. CASE PostPacket
    <2>1. ~StopDone
      BY <1>1 DEF PostPacket, Types, StopInv, LateInv
    <2>2. rpc \in {"packet", "stls"} /\ queue' = Append(queue, rpc) /\ rpc \in Work
      BY <1>1 DEF PostPacket, Work
    <2>3. /\ \A i \in DOMAIN queue : i \in DOMAIN queue' /\ queue'[i] = queue[i]
          /\ \A i \in DOMAIN queue' : i \in DOMAIN queue \/ queue'[i] = rpc
      BY <1>0, <2>2, AppendAt
    <2>4. UNCHANGED <<life, spc, error, stopped>>
      BY <1>1 DEF PostPacket
    <2> QED BY <2>1, <2>2, <2>3, <2>4 DEF QueueInv
  <1>2. ASSUME Tell, UNCHANGED <<life, stopped>>, ~error => life = "live",
               spc' = spc \/ \E s \in Stoppers : StopTell(s)
        PROVE  QueueInv'
    <2>1. CASE error
      <3>1. queue' = queue /\ error'
        BY <2>1, <1>2, TellOnce
      <3>2. spc'["looper"] = "idle" <=> spc["looper"] = "idle"
        BY <1>2 DEF StopTell, Types
      <3>3. StopDone => StopDone'
        BY <1>2 DEF StopTell, Types
      <3> HIDE DEF StopDone
      <3> QED BY <1>2, <2>1, <3>1, <3>2, <3>3 DEF QueueInv
    <2>2. CASE ~error
      <3>1. /\ \A i \in DOMAIN queue : queue[i] \notin {"error", "unregister"}
            /\ spc["looper"] = "idle" /\ life = "live"
        BY <2>2, <1>2 DEF QueueInv
      <3>2. spc'["looper"] = "idle"
        BY <1>2, <3>1 DEF StopTell, Types
      <3>3. queue' = Append(queue, "error") /\ error' /\ "error" \in Work
        BY <2>2, <1>2, TellOnce DEF Work
      <3>4. /\ \A i \in DOMAIN queue : i \in DOMAIN queue' /\ queue'[i] = queue[i]
            /\ \A i \in DOMAIN queue' : i \in DOMAIN queue \/ i = Len(queue) + 1
            /\ queue'[Len(queue) + 1] = "error"
        BY <1>0, <3>3, AppendAt
      <3> QED BY <1>2, <3>1, <3>2, <3>3, <3>4 DEF QueueInv
    <2> QED BY <2>1, <2>2
  <1>3. CASE ReaderEnds \/ WriterEnds
    <2>1. Tell /\ UNCHANGED <<life, stopped, spc>>
      BY <1>3 DEF ReaderEnds, WriterEnds
    <2>2. ~error => life = "live"
      BY <1>3 DEF ReaderEnds, WriterEnds, Types, StartInv, StopInv, QueueInv
    <2> QED BY <1>2, <2>1, <2>2
  <1>4. ASSUME NEW s \in Stoppers, StopTell(s) PROVE QueueInv'
    <2>1. Tell /\ UNCHANGED <<life, stopped>>
      BY <1>4 DEF StopTell
    <2>2. ~error => life = "live"
      BY <1>4 DEF StopTell, Types, LockInv, StartInv, StopInv, QueueInv
    <2> QED BY <1>2, <1>4, <2>1, <2>2
  <1> QED BY <1>1, <1>3, <1>4

\* The looper takes the front of its queue; transport_destroy appends the
\* removal of the transport when nobody posts any more.
LEMMA LooperKeepsQueueInv ==
    ASSUME Inv1, QueueInv,
           HandlePacket \/ HandleStls \/ TransportDestroy \/ DestroyReturns \/ UnregisterTransport
    PROVE  QueueInv'
  <1> USE DEF Inv1, owner, flags, link, reader, posts, Stoppers, Phases, Goto
  <1>0. queue \in Seq(Work) /\ Len(queue) \in Nat
    BY DEF Types
  <1>1. CASE HandlePacket \/ HandleStls
    <2>1. /\ queue # <<>> /\ queue' = Tail(queue) /\ spc["looper"] = "idle"
          /\ UNCHANGED <<life, spc, error, stopped>>
      BY <1>1 DEF HandlePacket, HandleStls, Running
    <2>2. StopDone' <=> StopDone
      BY <2>1 DEF StopDone
    <2>3. /\ Len(queue') = Len(queue) - 1
          /\ \A i \in DOMAIN queue' : i \in Nat /\ i + 1 \in DOMAIN queue /\ queue'[i] = queue[i + 1]
      BY <1>0, <2>1, TailAt
    <2>4. life # "deleted"
      BY <2>1 DEF QueueInv
    <2> QED BY <1>0, <2>1, <2>2, <2>3, <2>4 DEF QueueInv
  <1>2. CASE TransportDestroy
    <2>1. /\ queue # <<>> /\ queue' = Tail(queue) /\ Head(queue) = "error"
          /\ UNCHANGED <<life, error, stopped>>
      BY <1>2 DEF TransportDestroy, Running
    <2>2. /\ queue[1] = "error" /\ 1 \in DOMAIN queue
          /\ \A i \in DOMAIN queue' : i \in Nat \ {0} /\ i + 1 \in DOMAIN queue /\ queue'[i] = queue[i + 1]
      BY <1>0, <2>1, TailAt
    <2>3. life = "live" /\ error
      BY <2>2 DEF QueueInv, Types
    <2>4. \A i \in DOMAIN queue' : queue'[i] \notin {"error", "unregister"}
      BY <2>2 DEF QueueInv
    <2> QED BY <2>1, <2>3, <2>4 DEF QueueInv
  <1>3. CASE DestroyReturns
    <2>1. /\ spc["looper"] = "return" /\ spc'["looper"] = "idle" /\ life = "live" /\ error
          /\ \A i \in DOMAIN queue : queue[i] \notin {"error", "unregister"}
          /\ UNCHANGED <<error, stopped>>
      BY <1>3 DEF DestroyReturns, QueueInv, Types
    <2>2. StopDone'
      BY <1>3 DEF DestroyReturns, Types, LockInv, StopInv, StopDone
    <2>3. CASE kicked
      <3>1. queue' = Append(queue, "unregister") /\ life' = life /\ "unregister" \in Work
        BY <1>3, <2>3 DEF DestroyReturns, Work
      <3>2. /\ \A i \in DOMAIN queue : i \in DOMAIN queue' /\ queue'[i] = queue[i]
            /\ \A i \in DOMAIN queue' : i \in DOMAIN queue \/ i = Len(queue')
            /\ queue'[Len(queue')] = "unregister"
        BY <1>0, <3>1, AppendAt
      <3> QED BY <2>1, <2>2, <3>1, <3>2 DEF QueueInv
    <2>4. CASE ~kicked
      <3>1. life' = "tracked" /\ queue' = queue
        BY <1>3, <2>4 DEF DestroyReturns
      <3> QED BY <2>1, <2>2, <3>1 DEF QueueInv
    <2> QED BY <2>3, <2>4
  <1>4. CASE UnregisterTransport
    <2>1. /\ queue # <<>> /\ queue' = Tail(queue) /\ Head(queue) = "unregister"
          /\ spc["looper"] = "idle" /\ life' = "deleted" /\ UNCHANGED <<error, stopped, spc>>
      BY <1>4 DEF UnregisterTransport, Running
    <2>2. Len(queue) = 1 /\ StopDone /\ error
      BY <1>0, <2>1, TailAt DEF QueueInv, StopInv
    <2>3. queue' = <<>> /\ StopDone'
      BY <1>0, <2>1, <2>2, TailAt DEF StopDone
    <2> QED BY <2>1, <2>2, <2>3 DEF QueueInv
  <1> QED BY <1>1, <1>2, <1>3, <1>4

LEMMA QueueInvCorrect == Spec => []QueueInv
  <1>1. ASSUME Init PROVE QueueInv
    <2>1. ~error
      BY <1>1, Zenon DEF Init
    <2> QED BY <1>1, <2>1 DEF Init, QueueInv, Stoppers
  <1>2. Inv1 /\ QueueInv /\ [Next]_vars => QueueInv'
    <2> SUFFICES ASSUME Inv1, QueueInv, [Next]_vars PROVE QueueInv'
      OBVIOUS
    <2> USE DEF Inv1, owner, flags, link, reader, posts, Stoppers, Phases, Goto
    <2>1. CASE RegisterTransport
      <3>1. life = "new" /\ life' = "live" /\ UNCHANGED <<queue, error, spc>>
        BY <2>1 DEF RegisterTransport, posts
      <3>2. queue = <<>> /\ ~error /\ spc["looper"] = "idle"
        BY <3>1 DEF StartInv, LockInv
      <3> QED BY <3>1, <3>2 DEF QueueInv
    <2>2. ASSUME UNCHANGED <<queue, life, error>>, StopDone => StopDone',
                 spc'["looper"] = "idle" <=> spc["looper"] = "idle"
          PROVE  QueueInv'
      BY <2>2 DEF QueueInv
    <2> USE DEF StopDone
    <2>3. CASE Read \/ Written \/ ReadFails \/ WriterTakes \/ WriteFails \/ DeviceCloses
      BY <2>2, <2>3 DEF Read, Written, ReadFails, WriterTakes, WriteFails, DeviceCloses
    <2>4. CASE HandshakeStep \/ SendPacket
      BY <2>2, <2>4 DEF HandshakeStep, HandshakeLock, HandshakeJoin, HandshakeEnds, SendPacket
    <2>5. CASE KickTransport \/ KickReturns
      BY <2>2, <2>5 DEF KickTransport, KickReturns, Types
    <2>6. ASSUME NEW s \in Stoppers,
                 StopReset(s) \/ StopEnter(s) \/ StopClose(s) \/ StopMove(s) \/ StopJoin(s)
          PROVE  QueueInv'
      <3>1. UNCHANGED <<queue, life, error>> /\ spc[s] # "idle" /\ spc'[s] # "idle"
        BY <2>6 DEF StopReset, StopEnter, StopClose, StopMove, StopJoin, Types
      <3>2. \A t \in Stoppers \ {s} : spc'[t] = spc[t]
        BY <2>6 DEF StopReset, StopEnter, StopClose, StopMove, StopJoin, Types
      <3>3. StopDone => StopDone'
        BY <2>6 DEF StopReset, StopEnter, StopClose, StopMove, StopJoin, Types
      <3> QED BY <2>2, <3>1, <3>2, <3>3
    <2>7. CASE UNCHANGED vars
      BY <2>2, <2>7 DEF vars
    <2> QED
      BY <2>1, <2>3, <2>4, <2>5, <2>6, <2>7, PostsKeepQueueInv, LooperKeepsQueueInv
         DEF Next, ReaderStep, WriterStep, StopStep, ClientStep, LooperStep
  <1> QED BY <1>1, <1>2, Inv1Correct, PTL DEF Spec

\* kick_transport and transport_destroy keep transport_lock until the threads
\* are joined: when the transport is deleted nothing of it is left in the
\* looper's queue and its threads have ended, but for a read thread that a
\* handshake started behind Stop's back.
THEOREM DeletedCorrect == Spec => []DeletedIsQuiet
  <1>1. Inv1 /\ QueueInv => DeletedIsQuiet
    BY DEF Inv1, StopInv, QueueInv, DeletedIsQuiet
  <1> QED BY <1>1, Inv1Correct, QueueInvCorrect, PTL
==============================================================================
