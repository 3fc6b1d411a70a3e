------------------------------ MODULE Transport ------------------------------
(***************************************************************************)
(* The life of a TCP transport (atransport) in the server.                 *)
(*                                                                         *)
(* Four kinds of threads meet here: clients that connect, the read and     *)
(* write threads of each connection, the reconnect handler, and the looper *)
(* which alone changes a transport's state.  The first three hand the      *)
(* looper work through fdevent_run_on_looper, the FIFO that FdeventLoop    *)
(* models; nothing but the order of that work protects a transport from    *)
(* being used after it was deleted.                                        *)
(*                                                                         *)
(* Connection::Stop is one step: it closes the connection and joins both   *)
(* threads before it returns, and what those threads post before they end  *)
(* they could as well have posted before Stop was called.  The connecting  *)
(* thread's wait for the first handshake (ConnectionWaitable) feeds back   *)
(* into nothing here and is left out, as are the sockets of a transport:   *)
(* `attached' only records that some listener or socket depends on it.     *)
(***************************************************************************)
EXTENDS Naturals, Sequences, FiniteSets

CONSTANTS
    Transports,     \* atransport objects, each allocated at most once
    SerialOf,       \* the serial a transport is created with
    MaxAttempts,    \* kMaxAttempts
    KeyCount,       \* private keys adb_auth_get_private_keys returns
    MaxReconnects,  \* bound: connections the handler opens for one transport
    MaxPackets,     \* bound: the read threads post while the queue is shorter
    MayShutDown     \* adb_server_cleanup may run

ASSUME TransportAssumption ==
    /\ IsFiniteSet(Transports)
    /\ MaxAttempts \in Nat
    /\ KeyCount \in Nat \ {0}
    /\ MaxReconnects \in Nat
    /\ MaxPackets \in Nat
    /\ MayShutDown \in BOOLEAN

VARIABLES
    mem,        \* "free", "new" (not yet handed to the looper), "live", "deleted"
    pending,    \* pending_list
    listed,     \* transport_list
    conn,       \* connection(): "fresh" (not started), "started", "stopped"
    flagged,    \* its error_flag_ was used: HandleError was called
    opened,     \* connections the handler opened so far
    kicked,     \* kicked_
    cstate,     \* connection_state_
    keys,       \* keys_.size()
    attached,   \* transports some listener or socket refers to
    late,       \* history: the looper handled a packet of the transport after
                \* the end of the connection it came from
    stray,      \* history: it was put offline by the default branch of A_AUTH
    queue,      \* work posted to the looper, oldest first
    flushing,   \* the looper is in FlushRunQueue
    rq,         \* reconnect_queue_
    running,    \* running_
    hpc,        \* the handler thread: "top", "sleeping" (wait), "waiting"
                \* (wait_until), "woken" (holds the mutex), "attempt", "exited"
    attempt,    \* the transport and count of the attempt under way
    serving     \* "yes", "stopping" (in ReconnectHandler::Stop), "down"

regVars     == <<mem, pending, listed>>
connVars    == <<conn, flagged, opened>>
objVars     == <<kicked, cstate, keys, attached, late, stray>>
handlerVars == <<rq, running, hpc, attempt>>
vars == <<mem, pending, listed, conn, flagged, opened, kicked, cstate, keys, attached,
          late, stray, queue, flushing, rq, running, hpc, attempt, serving>>

PacketKinds == {"cnxn", "auth", "badauth"}
Work        == [kind : {"register", "unregister", "error"} \cup PacketKinds, t : Transports]
Attempts    == [t : Transports, left : 0..MaxAttempts]

TypeOK ==
    /\ mem \in [Transports -> {"free", "new", "live", "deleted"}]
    /\ pending \subseteq Transports
    /\ listed \subseteq Transports
    /\ conn \in [Transports -> {"fresh", "started", "stopped"}]
    /\ flagged \in [Transports -> BOOLEAN]
    /\ opened \in [Transports -> 0..MaxReconnects]
    /\ kicked \in [Transports -> BOOLEAN]
    /\ cstate \in [Transports -> {"offline", "authorizing", "unauthorized", "device"}]
    /\ keys \in [Transports -> 0..KeyCount]
    /\ attached \subseteq Transports /\ late \subseteq Transports /\ stray \subseteq Transports
    /\ queue \in Seq(Work)
    /\ flushing \in BOOLEAN
    /\ rq \subseteq Attempts
    /\ running \in BOOLEAN
    /\ hpc \in {"top", "sleeping", "waiting", "woken", "attempt", "exited"}
    /\ attempt \subseteq Attempts
    /\ serving \in {"yes", "stopping", "down"}

Init ==
    /\ mem = [t \in Transports |-> "free"]
    /\ pending = {} /\ listed = {} /\ attached = {} /\ late = {} /\ stray = {}
    /\ conn = [t \in Transports |-> "fresh"]
    /\ flagged = [t \in Transports |-> FALSE]
    /\ opened = [t \in Transports |-> 0]
    /\ kicked = [t \in Transports |-> FALSE]
    /\ cstate = [t \in Transports |-> "offline"]
    /\ keys = [t \in Transports |-> 0]
    /\ queue = <<>> /\ flushing = FALSE
    /\ rq = {} /\ attempt = {}
    /\ running = TRUE
    /\ hpc = "top"
    /\ serving = "yes"

------------------------------------------------------------------------------
(* Building blocks.                                                        *)

Item(k, t) == [kind |-> k, t |-> t]

\* fdevent_run_on_looper.
Post(k, t) == queue' = Append(queue, Item(k, t))

\* The orders in which a set can be walked.
Orders(S) ==
    {s \in [1..Cardinality(S) -> S] :
        /\ \A x \in S : \E i \in 1..Cardinality(S) : s[i] = x
        /\ \A i, j \in 1..Cardinality(S) : s[i] = s[j] => i = j}

\* notify_one on reconnect_cv_: lost unless the handler is waiting.
Notified == IF hpc \in {"sleeping", "waiting"} THEN "woken" ELSE hpc

\* atransport::Kick on every transport of S: kicked_ is exchanged and the
\* connection stopped.  Stop does nothing to a connection that is not started
\* or is stopped already, and reports the end of the others once.
Kick(S) ==
    LET stop == {t \in S : ~kicked[t] /\ conn[t] = "started"}
        tell == {t \in stop : ~flagged[t]}
    IN  /\ kicked' = [t \in Transports |-> kicked[t] \/ t \in S]
        /\ conn' = [t \in Transports |-> IF t \in stop THEN "stopped" ELSE conn[t]]
        /\ flagged' = [t \in Transports |-> flagged[t] \/ t \in tell]
        /\ \E s \in Orders(tell) :
              queue' = queue \o [i \in 1..Cardinality(tell) |-> Item("error", s[i])]

------------------------------------------------------------------------------
(* Client threads.                                                         *)

\* A mistake: only transport_list is searched for the serial.
ConnectUnchecked(t) ==
    /\ serving = "yes"
    /\ mem[t] = "free"
    /\ IF \E u \in listed : SerialOf[u] = SerialOf[t]
       THEN mem' = [mem EXCEPT ![t] = "deleted"] /\ UNCHANGED pending
       ELSE mem' = [mem EXCEPT ![t] = "new"] /\ pending' = pending \cup {t}
    /\ UNCHANGED <<listed, connVars, objVars, queue, handlerVars, serving, flushing>>

\* register_socket_transport up to the unlock: a serial that is pending or
\* listed is refused and the new object deleted (EALREADY).
Connect(t) ==
    /\ serving = "yes"
    /\ mem[t] = "free"
    /\ IF \E u \in pending \cup listed : SerialOf[u] = SerialOf[t]
       THEN mem' = [mem EXCEPT ![t] = "deleted"] /\ UNCHANGED pending
       ELSE mem' = [mem EXCEPT ![t] = "new"] /\ pending' = pending \cup {t}
    /\ UNCHANGED <<listed, connVars, objVars, queue, handlerVars, serving, flushing>>

\* register_transport, after the unlock.
ConnectPost(t) ==
    /\ mem[t] = "new"
    /\ mem' = [mem EXCEPT ![t] = "live"]
    /\ Post("register", t)
    /\ UNCHANGED <<pending, listed, connVars, objVars, handlerVars, serving, flushing>>

\* kick_transport, for `adb disconnect <serial>' and `adb reconnect'.
KickTransport(t) ==
    /\ serving = "yes"
    /\ Kick({t} \cap listed)
    /\ hpc' = Notified
    /\ UNCHANGED <<regVars, opened, cstate, keys, attached, late, stray,
                   rq, running, attempt, serving, flushing>>

\* kick_all_tcp_devices, for `adb disconnect'.
KickAllTcpDevices ==
    /\ serving = "yes"
    /\ Kick(listed)
    /\ hpc' = Notified
    /\ UNCHANGED <<regVars, opened, cstate, keys, attached, late, stray,
                   rq, running, attempt, serving, flushing>>

\* A listener or a socket is put on an online transport (AddDisconnect), in a
\* descriptor's handler: the looper is not running queued functions.
Attach(t) ==
    /\ serving = "yes" /\ ~flushing
    /\ t \in listed /\ cstate[t] = "device"
    /\ attached' = attached \cup {t}
    /\ UNCHANGED <<regVars, connVars, kicked, cstate, keys, late, stray, queue,
                   handlerVars, serving, flushing>>

------------------------------------------------------------------------------
(* The threads of a connection.                                            *)

\* The read thread has read a packet and posts it, ahead of the error that ends
\* its connection or behind it: the write thread fails on its own.
HandleRead(t, k) ==
    /\ conn[t] = "started"
    /\ Len(queue) < MaxPackets
    /\ Post(k, t)
    /\ UNCHANGED <<regVars, connVars, objVars, handlerVars, serving, flushing>>

\* A mistake: each of the two threads reports its own failure.
HandleErrorTwice(t) ==
    /\ conn[t] = "started" /\ Len(queue) < MaxPackets
    /\ flagged' = [flagged EXCEPT ![t] = TRUE]
    /\ Post("error", t)
    /\ UNCHANGED <<regVars, conn, opened, objVars, handlerVars, serving, flushing>>

\* Read or Write failed: the first of the two threads reports it.
HandleError(t) ==
    /\ conn[t] = "started" /\ ~flagged[t]
    /\ flagged' = [flagged EXCEPT ![t] = TRUE]
    /\ Post("error", t)
    /\ UNCHANGED <<regVars, conn, opened, objVars, handlerVars, serving, flushing>>

------------------------------------------------------------------------------
(* The looper, one queued function at a time.                              *)

\* FlushRunQueue takes the front, and goes on until the queue is empty; the
\* loop has ended when the server stops.
Take(k, t) ==
    /\ serving = "yes"
    /\ queue # <<>> /\ Head(queue) = Item(k, t)
FlushOn == flushing' = (queue' # <<>>)

\* fdevent_register_transport.
RegisterTransport(t) ==
    /\ Take("register", t) /\ queue' = Tail(queue) /\ FlushOn
    /\ conn' = [conn EXCEPT ![t] = "started"]
    /\ pending' = pending \ {t}
    /\ listed' = IF t \in pending THEN listed \cup {t} ELSE listed
    /\ UNCHANGED <<mem, flagged, opened, objVars, handlerVars, serving>>

\* fdevent_unregister_transport.
UnregisterTransport(t) ==
    /\ Take("unregister", t) /\ queue' = Tail(queue) /\ FlushOn
    /\ listed' = listed \ {t}
    /\ mem' = [mem EXCEPT ![t] = "deleted"]
    /\ UNCHANGED <<pending, connVars, objVars, handlerVars, serving>>

\* Two mistakes: the disconnects are not run; the state is not changed.
OfflineSilent(t) == cstate' = [cstate EXCEPT ![t] = "offline"] /\ UNCHANGED attached
OfflineStateless(t) == attached' = attached \ {t} /\ UNCHANGED cstate

\* handle_offline: nothing for a transport that is offline already.
Offline(t) ==
    /\ cstate' = [cstate EXCEPT ![t] = "offline"]
    /\ attached' = IF cstate[t] = "offline" THEN attached ELSE attached \ {t}

\* Two mistakes: the threads are not joined; the keys are kept.
StopDetached(t) == UNCHANGED conn
ResetKeysForgotten(t) == UNCHANGED keys

\* What the histories note: a packet that comes after the end of its connection
\* (its error was handled, a new connection is not started yet) makes the
\* transport late; the default branch of A_AUTH makes one that was not offline
\* stray, any other state it is put in ends that.
NoteLate(t) ==
    late' = IF conn[t] = "started" \/ \E i \in DOMAIN queue : queue[i] = Item("error", t)
            THEN late ELSE late \cup {t}
NoteStray(t) == stray' = IF cstate[t] = "offline" THEN stray ELSE stray \cup {t}
NoteEnd(t) ==
    /\ late' = late \ {t}
    /\ stray' = IF cstate[t] = "offline" THEN stray ELSE stray \ {t}

Stop(t) == conn' = [conn EXCEPT ![t] = IF @ = "started" THEN "stopped" ELSE @]
ResetKeys(t) == keys' = [keys EXCEPT ![t] = 0]

\* The function HandleError queued: handle_offline, then transport_destroy,
\* which stops the connection and passes a transport nobody kicked to
\* TrackTransport.  TrackTransport takes the mutex a woken handler holds.
\* The connection's error_flag_ is used, or the function would not be queued.
TransportDestroy(t) ==
    /\ Take("error", t)
    /\ Offline(t) /\ NoteEnd(t)
    /\ Stop(t)
    /\ IF kicked[t]
       THEN /\ queue' = Append(Tail(queue), Item("unregister", t))
            /\ UNCHANGED <<keys, rq, hpc>>
       ELSE /\ hpc # "woken"
            /\ queue' = Tail(queue)
            /\ ResetKeys(t)
            /\ rq' = IF running THEN rq \cup {[t |-> t, left |-> MaxAttempts]} ELSE rq
            /\ hpc' = IF running THEN Notified ELSE hpc
    /\ FlushOn
    /\ UNCHANGED <<regVars, flagged, opened, kicked, running, attempt, serving>>

\* handle_packet, A_CNXN: handle_new_connection.
HandleNewConnection(t) ==
    /\ Take("cnxn", t) /\ queue' = Tail(queue) /\ FlushOn
    /\ cstate' = [cstate EXCEPT ![t] = "device"]
    /\ attached' = IF cstate[t] = "offline" THEN attached ELSE attached \ {t}
    /\ NoteLate(t) /\ stray' = stray \ {t}
    /\ UNCHANGED <<regVars, connVars, kicked, keys, handlerVars, serving>>

\* handle_packet, A_AUTH with a token: NextKey, and when no key is left the
\* public key is sent and the transport becomes unauthorized.
HandleAuthToken(t) ==
    /\ Take("auth", t) /\ queue' = Tail(queue) /\ FlushOn
    /\ keys' = [keys EXCEPT ![t] = IF @ = 0 THEN KeyCount ELSE @ - 1]
    /\ cstate' = [cstate EXCEPT ![t] = IF keys[t] = 1 THEN "unauthorized" ELSE "authorizing"]
    /\ NoteLate(t) /\ stray' = stray \ {t}
    /\ UNCHANGED <<regVars, connVars, kicked, attached, handlerVars, serving>>

\* handle_packet, A_AUTH of any other type: the state is set to offline first,
\* and the handle_offline that follows finds nothing left to do.
HandleAuthOther(t) ==
    /\ Take("badauth", t) /\ queue' = Tail(queue) /\ FlushOn
    /\ cstate' = [cstate EXCEPT ![t] = "offline"]
    /\ NoteLate(t) /\ NoteStray(t)
    /\ UNCHANGED <<regVars, connVars, kicked, keys, attached, handlerVars, serving>>

\* handle_packet, A_AUTH in TLS mode (use_tls, which any device may ask for with
\* A_STLS, is not tracked): nothing is done.
HandleAuthIgnored(t) ==
    /\ Take("auth", t) \/ Take("badauth", t)
    /\ queue' = Tail(queue) /\ FlushOn
    /\ UNCHANGED <<regVars, connVars, objVars, handlerVars, serving>>

HandlePacket(t) ==
    HandleNewConnection(t) \/ HandleAuthToken(t) \/ HandleAuthOther(t) \/ HandleAuthIgnored(t)

------------------------------------------------------------------------------
(* ReconnectHandler::Run.                                                  *)

\* A mistake: the handler always waits for a notification.
HandlerWaitUntimed ==
    /\ hpc = "top"
    /\ hpc' = "sleeping"
    /\ UNCHANGED <<regVars, connVars, objVars, queue, rq, running, attempt, serving, flushing>>

\* Take the mutex and wait: with a deadline only if something is queued.
HandlerWait ==
    /\ hpc = "top"
    /\ hpc' = IF rq = {} THEN "sleeping" ELSE "waiting"
    /\ UNCHANGED <<regVars, connVars, objVars, queue, rq, running, attempt, serving, flushing>>

\* The deadline of the first attempt passes.
HandlerTimeout ==
    /\ hpc = "waiting"
    /\ hpc' = "woken"
    /\ UNCHANGED <<regVars, connVars, objVars, queue, rq, running, attempt, serving, flushing>>

\* The wait has no predicate: it may return for no reason.
HandlerSpurious ==
    /\ hpc = "sleeping"
    /\ hpc' = "woken"
    /\ UNCHANGED <<regVars, connVars, objVars, queue, rq, running, attempt, serving, flushing>>

HandlerExit ==
    /\ hpc = "woken" /\ ~running
    /\ hpc' = "exited"
    /\ UNCHANGED <<regVars, connVars, objVars, queue, rq, running, attempt, serving, flushing>>

\* The scan for kicked transports; a kick may still come while it goes on.
HandlerGiveUp(a) ==
    /\ hpc = "woken" /\ running
    /\ a \in rq /\ kicked[a.t]
    /\ rq' = rq \ {a}
    /\ Post("unregister", a.t)
    /\ UNCHANGED <<regVars, connVars, objVars, running, hpc, attempt, serving, flushing>>

ScanDone == hpc = "woken" /\ running /\ \A a \in rq : ~kicked[a.t]

\* Nothing queued, or the first attempt not due yet.
HandlerAgain ==
    /\ ScanDone
    /\ hpc' = "top"
    /\ UNCHANGED <<regVars, connVars, objVars, queue, rq, running, attempt, serving, flushing>>

\* The first attempt is due; which one is first depends on the clock.
HandlerTake ==
    /\ ScanDone
    /\ \E a \in rq : rq' = rq \ {a} /\ attempt' = {a}
    /\ hpc' = "attempt"
    /\ UNCHANGED <<regVars, connVars, objVars, queue, running, serving, flushing>>

AttemptOver == hpc = "attempt" /\ hpc' = "top" /\ attempt' = {}

\* A mistake: the count of attempts is not looked at.
ReconnectRetryForever(a) ==
    /\ AttemptOver /\ a \in attempt
    /\ rq' = rq \cup {[a EXCEPT !.left = @ - 1]}
    /\ UNCHANGED <<regVars, connVars, objVars, queue, running, serving, flushing>>

\* Reconnect() == Retry.
ReconnectRetry(a) ==
    /\ AttemptOver /\ a \in attempt
    /\ IF a.left = 0
       THEN Post("unregister", a.t) /\ UNCHANGED rq
       ELSE rq' = rq \cup {[a EXCEPT !.left = @ - 1]} /\ UNCHANGED queue
    /\ UNCHANGED <<regVars, connVars, objVars, running, serving, flushing>>

\* Reconnect() == Success: a new connection was set, and is to be started.
ReconnectSuccess(a) ==
    /\ AttemptOver /\ a \in attempt
    /\ opened[a.t] < MaxReconnects
    /\ opened' = [opened EXCEPT ![a.t] = @ + 1]
    /\ conn' = [conn EXCEPT ![a.t] = "fresh"]
    /\ flagged' = [flagged EXCEPT ![a.t] = FALSE]
    /\ Post("register", a.t)
    /\ UNCHANGED <<regVars, objVars, rq, running, serving, flushing>>

\* Reconnect() == Abort.
ReconnectAbort(a) ==
    /\ AttemptOver /\ a \in attempt
    /\ Post("unregister", a.t)
    /\ UNCHANGED <<regVars, connVars, objVars, rq, running, serving, flushing>>

------------------------------------------------------------------------------
(* kick_all_transports, called by adb_server_cleanup when no loop runs.    *)

\* ReconnectHandler::Stop up to the join.
StopHandler ==
    /\ MayShutDown /\ serving = "yes" /\ hpc # "woken"
    /\ serving' = "stopping"
    /\ running' = FALSE
    /\ hpc' = Notified
    /\ UNCHANGED <<regVars, connVars, objVars, queue, rq, attempt, flushing>>

\* The join returned: the reconnect queue is drained.
DrainOne(a) ==
    /\ serving = "stopping" /\ hpc = "exited"
    /\ a \in rq
    /\ rq' = rq \ {a}
    /\ Post("unregister", a.t)
    /\ UNCHANGED <<regVars, connVars, objVars, running, hpc, attempt, serving, flushing>>

\* Stop returned: every transport in the list is kicked.
KickAllTransports ==
    /\ serving = "stopping" /\ hpc = "exited" /\ rq = {}
    /\ serving' = "down"
    /\ Kick(listed)
    /\ UNCHANGED <<regVars, opened, cstate, keys, attached, late, stray, handlerVars, flushing>>

------------------------------------------------------------------------------
Looper ==
    \E t \in Transports :
        \/ RegisterTransport(t) \/ UnregisterTransport(t) \/ TransportDestroy(t)
        \/ HandlePacket(t)

Handler ==
    \/ HandlerWait \/ HandlerTimeout \/ HandlerSpurious \/ HandlerExit \/ HandlerAgain \/ HandlerTake
    \/ \E a \in rq : HandlerGiveUp(a)
    \/ \E a \in attempt : ReconnectRetry(a) \/ ReconnectSuccess(a) \/ ReconnectAbort(a)

Threads ==
    \/ \E t \in Transports :
          \/ Connect(t) \/ ConnectPost(t) \/ KickTransport(t) \/ Attach(t)
          \/ \E k \in PacketKinds : HandleRead(t, k)
          \/ HandleError(t)
    \/ KickAllTcpDevices

Shutdown ==
    \/ StopHandler
    \/ \E a \in rq : DrainOne(a)
    \/ KickAllTransports

Next == Looper \/ Handler \/ Threads \/ Shutdown

Spec == Init /\ [][Next]_vars

\* The looper and the handler are threads that are always scheduled, a client
\* inside register_socket_transport and the thread in kick_all_transports go
\* on, a blocking Reconnect returns.  Deadlines pass, so a handler that is
\* woken again and again with something queued takes it in the end (SF).
\* Nothing obliges a device to send, a connection to fail, a user to kick or a
\* wait to return without cause.
Fairness ==
    /\ WF_vars(Looper)
    /\ WF_vars(HandlerWait) /\ WF_vars(HandlerTimeout) /\ WF_vars(HandlerExit)
    /\ WF_vars(HandlerAgain)
    /\ WF_vars(\E a \in rq : HandlerGiveUp(a))
    /\ SF_vars(HandlerTake)
    /\ WF_vars(\E a \in attempt : ReconnectRetry(a) \/ ReconnectSuccess(a) \/ ReconnectAbort(a))
    /\ \A t \in Transports : WF_vars(ConnectPost(t))
    /\ WF_vars((\E a \in rq : DrainOne(a)) \/ KickAllTransports)

FairSpec == Spec /\ Fairness
------------------------------------------------------------------------------
(* Properties.                                                             *)

\* What will decide about a transport next: the threads of its connection, a
\* function in the looper's queue, or the reconnect handler.
Holders(t) ==
    {<<"conn", 0>> : x \in {y \in {t} : conn[y] = "started" /\ ~flagged[y]}}
    \cup {<<"queue", i>> : i \in {j \in DOMAIN queue :
                                    queue[j].t = t /\ queue[j].kind \notin PacketKinds}}
    \cup {<<"rq", a.left>> : a \in {b \in rq : b.t = t}}
    \cup {<<"attempt", a.left>> : a \in {b \in attempt : b.t = t}}

\* A live transport is in exactly one pair of hands, and any other in none:
\* it is never forgotten, never registered (started) or deleted twice, never
\* reconnected by the handler while the looper is about to delete it.
OneHolder ==
    \A t \in Transports :
        IF mem[t] = "live" THEN \E h \in Holders(t) : Holders(t) = {h}
                           ELSE Holders(t) = {}

\* No function in the looper's queue, packets included, refers to a transport
\* that is deleted by then: Stop joins the threads that post packets before
\* remove_transport posts the deletion, whichever thread stopped them.
WorkIsLive ==
    \A i \in DOMAIN queue :
        /\ mem[queue[i].t] = "live"
        /\ queue[i].kind = "unregister" =>
              \A j \in DOMAIN queue : j > i => queue[j].t # queue[i].t

\* pending_list and transport_list together hold exactly the transports that
\* exist, each once, and never two with one serial, although the check, the
\* move between the lists and the removal are made by different threads.
RegistryConsistent ==
    /\ pending \cap listed = {}
    /\ \A t \in Transports : t \in pending \cup listed <=> mem[t] \in {"new", "live"}
    /\ \A t, u \in pending \cup listed : SerialOf[t] = SerialOf[u] => t = u

\* handle_offline, "necessary to avoid a race condition that occurred when a
\* transport closes while a client socket is still active": no listener or
\* socket is left on a transport that was deleted.
AttachedIsLive == \A t \in attached : mem[t] = "live"

\* What the code keeps of it: a transport is deleted with something attached
\* only if the default branch of A_AUTH put it offline last, so that the
\* handle_offline of its end returned early, or if a packet of a connection
\* that had ended put it online again.  No other order of packets, errors,
\* kicks and reconnections does.
OnlyStrayIsLeft == \A t \in attached : mem[t] = "live" \/ t \in stray \cup late

\* transport_destroy: "We need to clear the transport's keys, so that on the
\* next connection, it tries again from the beginning."  Only a packet handled
\* after that uses up one of the next connection's keys.
KeysStartOver ==
    \A t \in Transports :
        mem[t] = "live" /\ conn[t] = "fresh" => keys[t] = 0 \/ t \in late

\* A transport that waits to be reconnected, or to be deleted, is offline: it
\* has another state only while its connection runs or while the looper has
\* yet to learn of its end, or after a packet that came late.
ReconnectingIsOffline ==
    \A t \in Transports :
        mem[t] = "live" /\ cstate[t] # "offline" =>
            \/ conn[t] = "started" \/ t \in late
            \/ \E i \in DOMAIN queue : queue[i] = Item("error", t)

\* A transport whose connection ended is started again or deleted.
DroppedIsResolved ==
    \A t \in Transports :
        (t \in listed /\ conn[t] = "stopped")
            ~> (conn[t] = "started" \/ mem[t] = "deleted" \/ serving # "yes")

\* kick_all_tcp_devices, on Kick: "Finally, this transport will be closed and
\* freed in the main thread."
KickedIsFreed ==
    \A t \in Transports : kicked[t] ~> (mem[t] = "deleted" \/ serving # "yes")

\* ReconnectHandler::Stop "Requests the ReconnectHandler thread to stop" and
\* joins it: the request is heard whatever the handler is doing.
HandlerStops == serving = "stopping" ~> serving = "down"
==============================================================================
