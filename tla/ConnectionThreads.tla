-------------------------- MODULE ConnectionThreads --------------------------
(***************************************************************************)
(* BlockingConnectionAdapter over an FdConnection (transport.cpp), for one *)
(* transport: its read and write threads, the thread that makes the TLS    *)
(* handshake, and the two that stop it: a client's under kick_transport    *)
(* and the looper in transport_destroy.                                    *)
(*                                                                         *)
(* A critical section of mutex_ is one step, but for DoTlsHandshake, which *)
(* keeps the mutex while it joins the read thread and talks to the device. *)
(* kick_transport and transport_destroy hold transport_lock all along.     *)
(* The device sends packets, reads or does not, and goes away when it      *)
(* likes.  The handshake's caller (adb_auth_tls_handshake) is not in the   *)
(* repository: it runs on a thread of its own, and what it does with the   *)
(* result is left out.                                                     *)
(***************************************************************************)
EXTENDS Naturals, Sequences

CONSTANTS
    MaxPackets,   \* bound: packets the device sends
    MaxQueue      \* bound: length of write_queue_ up to which others write

ASSUME ConnectionThreadsAssumption == MaxPackets \in Nat /\ MaxQueue \in Nat \ {0}

Stoppers == {"client", "looper"}

VARIABLES
    life,       \* the transport: "new", "live", "tracked" (for reconnection), "deleted"
    kicked,     \* kicked_
    tlock,      \* who holds transport_lock: a stopper, or "none"
    mutex,      \* mutex_ is held by the handshake
    started, stopped,  \* started_, stopped_
    error,      \* error_flag_ was used
    wq,         \* write_queue_, its length
    open,       \* the descriptor is open here
    gone,       \* the device closed its end
    rpc,        \* read thread: "none", "reading", "packet" or "stls" (read, to be
                \* posted), "failed", "ended"
    rset,       \* read_thread_ is joinable
    late,       \* history: the read thread was started after Stop took the threads
    wpc,        \* write thread: "none", "top", "waiting", "writing", "failed", "ended"
    hpc,        \* handshake thread: "none", "lock", "join", "shake"
    spc,        \* each stopper: "idle", "reset", "enter", "close", "move", "joinR",
                \* "joinW", "tell", "return"
    mine,       \* the moved read thread is still the one that runs
    queue,      \* functions posted to the looper
    packets, errors  \* history: packets and errors posted

owner   == <<life, kicked, tlock>>
flags   == <<started, stopped>>
link    == <<open, gone>>
reader  == <<rpc, rset, late>>
posts   == <<error, queue, packets, errors>>
vars == <<life, kicked, tlock, mutex, started, stopped, error, wq, open, gone,
          rpc, rset, late, wpc, hpc, spc, mine, queue, packets, errors>>

TypeOK ==
    /\ life \in {"new", "live", "tracked", "deleted"}
    /\ tlock \in Stoppers \cup {"none"}
    /\ {kicked, mutex, started, stopped, error, open, gone, rset, late, mine} \subseteq BOOLEAN
    /\ wq \in 0..(MaxQueue + MaxPackets)
    /\ rpc \in {"none", "reading", "packet", "stls", "failed", "ended"}
    /\ wpc \in {"none", "top", "waiting", "writing", "failed", "ended"}
    /\ hpc \in {"none", "lock", "join", "shake"}
    /\ spc \in [Stoppers -> {"idle", "reset", "enter", "close", "move", "joinR",
                             "joinW", "tell", "return"}]
    /\ queue \in Seq({"packet", "stls", "error", "unregister"})
    /\ packets \in 0..MaxPackets /\ errors \in Nat

Init ==
    /\ life = "new" /\ kicked = FALSE /\ tlock = "none"
    /\ mutex = FALSE /\ started = FALSE /\ stopped = FALSE /\ error = FALSE
    /\ wq = 0 /\ open = TRUE /\ gone = FALSE
    /\ rpc = "none" /\ rset = FALSE /\ late = FALSE
    /\ wpc = "none" /\ hpc = "none"
    /\ spc = [s \in Stoppers |-> "idle"] /\ mine = FALSE
    /\ queue = <<>> /\ packets = 0 /\ errors = 0

------------------------------------------------------------------------------
(* Building blocks.                                                        *)

\* A mistake: call_once is left out.
TellAlways ==
    /\ error' = TRUE
    /\ queue' = Append(queue, "error")
    /\ errors' = errors + 1
    /\ UNCHANGED packets

\* call_once(error_flag_, HandleError).
Tell ==
    IF error THEN UNCHANGED posts
    ELSE /\ error' = TRUE
         /\ queue' = Append(queue, "error")
         /\ errors' = errors + 1
         /\ UNCHANGED packets

\* notify_one: only the write thread waits.
Notified == IF wpc = "waiting" THEN "top" ELSE wpc

\* BlockingConnectionAdapter::Write.
Enqueue ==
    /\ ~mutex
    /\ wq' = wq + 1
    /\ wpc' = Notified

------------------------------------------------------------------------------
(* The read thread.                                                        *)

Alive == open /\ ~gone

\* FdConnection::Read brings a packet, or the connection is at its end.
Read ==
    /\ rpc = "reading"
    /\ Alive /\ packets < MaxPackets
    /\ rpc' \in {"packet", "stls"}
    /\ UNCHANGED <<owner, mutex, flags, posts, wq, link, rset, late, wpc, hpc, spc, mine>>

ReadFails ==
    /\ rpc = "reading" /\ ~Alive
    /\ rpc' = "failed"
    /\ UNCHANGED <<owner, mutex, flags, posts, wq, link, rset, late, wpc, hpc, spc, mine>>

\* HandleRead; after A_STLS the thread makes room for the handshake.
PostPacket ==
    /\ rpc \in {"packet", "stls"}
    /\ queue' = Append(queue, rpc)
    /\ packets' = packets + 1
    /\ rpc' = IF rpc = "stls" THEN "ended" ELSE "reading"
    /\ UNCHANGED <<owner, mutex, flags, error, errors, wq, link, rset, late, wpc, hpc, spc, mine>>

ReaderEnds ==
    /\ rpc = "failed"
    /\ Tell
    /\ rpc' = "ended"
    /\ UNCHANGED <<owner, mutex, flags, wq, link, rset, late, wpc, hpc, spc, mine>>

------------------------------------------------------------------------------
(* The write thread.                                                       *)

\* The wait on cv_, and what follows it under the lock.
WriterTakes ==
    /\ wpc = "top" /\ ~mutex
    /\ \/ stopped /\ wpc' = "ended" /\ UNCHANGED wq
       \/ ~stopped /\ wq = 0 /\ wpc' = "waiting" /\ UNCHANGED wq
       \/ ~stopped /\ wq > 0 /\ wpc' = "writing" /\ wq' = wq - 1
    /\ UNCHANGED <<owner, mutex, flags, posts, link, reader, hpc, spc, mine>>

\* FdConnection::Write; a device that does not read keeps it waiting.
Written ==
    /\ wpc = "writing" /\ Alive
    /\ wpc' = "top"
    /\ UNCHANGED <<owner, mutex, flags, posts, wq, link, reader, hpc, spc, mine>>

WriteFails ==
    /\ wpc = "writing" /\ ~Alive
    /\ wpc' = "failed"
    /\ UNCHANGED <<owner, mutex, flags, posts, wq, link, reader, hpc, spc, mine>>

WriterEnds ==
    /\ wpc = "failed"
    /\ Tell
    /\ wpc' = "ended"
    /\ UNCHANGED <<owner, mutex, flags, wq, link, reader, hpc, spc, mine>>

------------------------------------------------------------------------------
(* DoTlsHandshake.                                                         *)

HandshakeLock ==
    /\ hpc = "lock" /\ ~mutex
    /\ mutex' = TRUE /\ hpc' = "join"
    /\ UNCHANGED <<owner, flags, posts, wq, link, reader, wpc, spc, mine>>

HandshakeJoin ==
    /\ hpc = "join"
    /\ rset => rpc = "ended"
    /\ rset' = FALSE /\ hpc' = "shake"
    /\ UNCHANGED <<owner, mutex, flags, posts, wq, link, rpc, late, wpc, spc, mine>>

\* FdConnection::DoTlsHandshake has succeeded or failed: StartReadThread all
\* the same, and the mutex is released.
HandshakeEnds ==
    /\ hpc = "shake"
    /\ rpc' = "reading" /\ rset' = TRUE /\ mine' = FALSE
    /\ late' = (stopped /\ \A s \in Stoppers : spc[s] \notin {"close", "move"})
    /\ mutex' = FALSE /\ hpc' = "none"
    /\ UNCHANGED <<owner, flags, posts, wq, link, wpc, spc>>

------------------------------------------------------------------------------
(* Stop, by either stopper.                                                *)

Goto(s, p) == spc' = [spc EXCEPT ![s] = p]

\* Reset looks at the flags and closes the connection before it calls Stop.
StopReset(s) ==
    /\ spc[s] = "reset" /\ ~mutex
    /\ IF started /\ ~stopped THEN open' = FALSE /\ Goto(s, "enter")
                              ELSE Goto(s, "return") /\ UNCHANGED open
    /\ UNCHANGED <<owner, mutex, flags, posts, wq, gone, reader, wpc, hpc, mine>>

StopEnter(s) ==
    /\ spc[s] = "enter" /\ ~mutex
    /\ IF started /\ ~stopped THEN stopped' = TRUE /\ Goto(s, "close")
                              ELSE Goto(s, "return") /\ UNCHANGED stopped
    /\ UNCHANGED <<owner, mutex, started, posts, wq, link, reader, wpc, hpc, mine>>

\* A mistake: the write thread is not woken.
StopCloseSilent(s) ==
    /\ spc[s] = "close"
    /\ open' = FALSE
    /\ Goto(s, "move")
    /\ UNCHANGED <<owner, mutex, flags, posts, wq, gone, reader, wpc, hpc, mine>>

\* FdConnection::Close shuts the socket down: a read or write under way ends.
StopClose(s) ==
    /\ spc[s] = "close"
    /\ open' = FALSE /\ wpc' = Notified
    /\ Goto(s, "move")
    /\ UNCHANGED <<owner, mutex, flags, posts, wq, gone, reader, hpc, mine>>

StopMove(s) ==
    /\ spc[s] = "move" /\ ~mutex
    /\ rset' = FALSE /\ mine' = TRUE
    /\ Goto(s, "joinR")
    /\ UNCHANGED <<owner, mutex, flags, posts, wq, link, rpc, late, wpc, hpc>>

\* read_thread.join(), write_thread.join().
StopJoin(s) ==
    /\ \/ spc[s] = "joinR" /\ (rpc = "ended" \/ ~mine) /\ Goto(s, "joinW")
       \/ spc[s] = "joinW" /\ wpc = "ended" /\ Goto(s, "tell")
    /\ UNCHANGED <<owner, mutex, flags, posts, wq, link, reader, wpc, hpc, mine>>

StopTell(s) ==
    /\ spc[s] = "tell"
    /\ Tell
    /\ Goto(s, "return")
    /\ UNCHANGED <<owner, mutex, flags, wq, link, reader, wpc, hpc, mine>>

------------------------------------------------------------------------------
(* A client's kick_transport.                                              *)

\* With the lock, if the transport is listed: Kick or Reset, the first time.
KickTransport ==
    /\ life \in {"live", "tracked"} /\ tlock = "none" /\ ~kicked
    /\ kicked' = TRUE
    /\ tlock' = "client"
    /\ \E p \in {"enter", "reset"} : Goto("client", p)
    /\ UNCHANGED <<life, mutex, flags, posts, wq, link, reader, wpc, hpc, mine>>

KickReturns ==
    /\ spc["client"] = "return"
    /\ Goto("client", "idle")
    /\ tlock' = "none"
    /\ UNCHANGED <<life, kicked, mutex, flags, posts, wq, link, reader, wpc, hpc, mine>>

------------------------------------------------------------------------------
(* The looper.                                                             *)

Running(k) == spc["looper"] = "idle" /\ queue # <<>> /\ Head(queue) = k

\* fdevent_register_transport: Start, and send_connect.
RegisterTransport ==
    /\ life = "new"
    /\ life' = "live"
    /\ started' = TRUE
    /\ rpc' = "reading" /\ rset' = TRUE
    /\ wpc' = "top" /\ wq' = 1
    /\ UNCHANGED <<kicked, tlock, mutex, stopped, posts, link, late, hpc, spc, mine>>

\* Something else is sent, from a descriptor's handler.
SendPacket ==
    /\ life = "live" /\ spc["looper"] = "idle" /\ wq < MaxQueue
    /\ Enqueue
    /\ UNCHANGED <<owner, mutex, flags, posts, link, reader, hpc, spc, mine>>

HandlePacket ==
    /\ Running("packet")
    /\ queue' = Tail(queue)
    /\ UNCHANGED <<owner, mutex, flags, error, packets, errors, wq, link, reader, wpc, hpc, spc, mine>>

\* A_STLS: send_tls_request, and the handshake on another thread.
HandleStls ==
    /\ Running("stls")
    /\ queue' = Tail(queue)
    /\ Enqueue
    /\ hpc' = "lock"
    /\ UNCHANGED <<owner, mutex, flags, error, packets, errors, link, reader, spc, mine>>

\* A mistake: transport_destroy does not take the lock.
TransportDestroyUnlocked ==
    /\ Running("error")
    /\ queue' = Tail(queue)
    /\ Goto("looper", "enter")
    /\ UNCHANGED <<owner, mutex, flags, error, packets, errors, wq, link, reader, wpc, hpc, mine>>

\* The function HandleError queued: transport_destroy takes transport_lock
\* and stops the connection.
TransportDestroy ==
    /\ Running("error") /\ tlock = "none"
    /\ queue' = Tail(queue)
    /\ tlock' = "looper"
    /\ Goto("looper", "enter")
    /\ UNCHANGED <<life, kicked, mutex, flags, error, packets, errors, wq, link, reader, wpc, hpc, mine>>

\* A kicked transport is removed, another one tracked for reconnection.
DestroyReturns ==
    /\ spc["looper"] = "return"
    /\ Goto("looper", "idle")
    /\ tlock' = "none"
    /\ IF kicked THEN queue' = Append(queue, "unregister") /\ UNCHANGED life
                 ELSE life' = "tracked" /\ UNCHANGED queue
    /\ UNCHANGED <<kicked, mutex, flags, error, packets, errors, wq, link, reader, wpc, hpc, mine>>

\* fdevent_unregister_transport.
UnregisterTransport ==
    /\ Running("unregister") /\ tlock = "none"
    /\ queue' = Tail(queue)
    /\ life' = "deleted"
    /\ UNCHANGED <<kicked, tlock, mutex, flags, error, packets, errors, wq, link, reader, wpc, hpc, spc, mine>>

------------------------------------------------------------------------------
DeviceCloses ==
    /\ ~gone
    /\ gone' = TRUE
    /\ UNCHANGED <<owner, mutex, flags, posts, wq, open, reader, wpc, hpc, spc, mine>>

ReaderStep == ReadFails \/ PostPacket \/ ReaderEnds
WriterStep == WriterTakes \/ WriteFails \/ WriterEnds
HandshakeStep == HandshakeLock \/ HandshakeJoin \/ HandshakeEnds
StopStep(s) ==
    \/ StopReset(s) \/ StopEnter(s) \/ StopClose(s) \/ StopMove(s) \/ StopJoin(s) \/ StopTell(s)
ClientStep == StopStep("client") \/ KickReturns
LooperStep ==
    \/ StopStep("looper") \/ HandlePacket \/ HandleStls \/ TransportDestroy
    \/ DestroyReturns \/ UnregisterTransport

Next ==
    \/ Read \/ Written \/ ReaderStep \/ WriterStep \/ HandshakeStep
    \/ ClientStep \/ LooperStep
    \/ KickTransport \/ RegisterTransport \/ SendPacket \/ DeviceCloses

Spec == Init /\ [][Next]_vars

\* Threads run when they can; a mutex that is released again and again is had
\* in the end.  A device need neither send, nor read, nor go away, but a
\* handshake does not take for ever.
FairSpec ==
    /\ Spec
    /\ WF_vars(ReaderStep) /\ SF_vars(WriterStep) /\ SF_vars(HandshakeStep)
    /\ SF_vars(ClientStep) /\ SF_vars(LooperStep)

------------------------------------------------------------------------------
(* Properties.                                                             *)

\* The connection as Transport sees it: it is stopped when the Stop that set
\* stopped_ has joined the threads and reported the end.
StopDone == stopped /\ \A s \in Stoppers : spc[s] \notin {"close", "move", "joinR", "joinW", "tell"}
State == IF ~started THEN "fresh" ELSE IF StopDone THEN "stopped" ELSE "started"
C == INSTANCE Connection WITH conn <- State

\* Stop in its many steps, against threads that fail, post, wait or make a
\* handshake at the same time, is the atomic Stop of Connection, and the
\* error is reported once by whoever comes first.
ImplementsConnection == C!Spec

\* When the transport is deleted its write thread has ended, so has the read
\* thread (but for one a handshake started after Stop was through), and no
\* function for it is left in the looper's queue: kick_transport and
\* transport_destroy keep transport_lock until the threads are joined.
DeletedIsQuiet ==
    life = "deleted" =>
        /\ queue = <<>>
        /\ wpc = "ended"
        /\ rpc = "ended" \/ late

\* A client in kick_transport and the looper in transport_destroy come back
\* from Stop: the threads they join, the handshake that keeps the mutex and
\* the lock they hold against each other never wait in a circle.
StopReturns == \A s \in Stoppers : spc[s] # "idle" ~> spc[s] = "idle"

\* "Move the threads out into locals with the lock taken, and then unlock to
\* let them exit": once Stop is through, no thread of the connection is left.
StoppedHasNoThreads ==
    StopDone => rpc = "ended" /\ wpc = "ended"
==============================================================================
