------------------------------ MODULE HostClient -----------------------------
(***************************************************************************)
(* How a command of adb_commandline (commandline.cpp) finds its device:    *)
(* the options become three globals (adb_client.cpp), every request reads  *)
(* them again, and the server picks a transport for it (handle_host_request*)
(* in adb.cpp, acquire_one_transport in transport.cpp) while transports    *)
(* come and go.  The host application may issue commands from several      *)
(* threads and for as long as it lives: adb's own process runs one and     *)
(* exits, and globals, feature cache and timers were written for that.     *)
(*                                                                         *)
(* A request is read and handled by the looper in one step.  The server is *)
(* there (ServerLaunch is about that).  External: the parser of "host-     *)
(* serial:" and the like and the wait-for service (sockets.cpp and         *)
(* services.cpp are not in the repository), and the device.                *)
(***************************************************************************)
EXTENDS Naturals, Sequences, FiniteSets

CONSTANTS
    Threads,      \* threads of the application that call adb_commandline
    Devices,      \* the devices, and what is known of each:
    Info,         \* serial, host, port, devpath, product, model, shell2
    Options,      \* the targets a command line can name: id, serial, type
    MaxId,        \* bound: transports ever registered
    MaxFlaps,     \* bound: how often devices go offline or away
    MaxCommands   \* bound: commands

\* serial is a record of what the text after -s can be read as: an exact
\* "name", a "host" with a port (0: left out), a "product:" or "model:"
\* qualifier, "empty", or "none" when there is no -s.
NoSerial == [kind |-> "none", value |-> "", port |-> 0]
Default  == [id |-> 0, serial |-> NoSerial, type |-> "any"]

ASSUME HostClientAssumption ==
    /\ Default \in Options
    /\ \A o \in Options : o.id \in Nat /\ o.type \in {"any", "local", "usb"}
    /\ MaxId \in Nat /\ MaxFlaps \in Nat /\ MaxCommands \in Nat

\* "service" stands for the commands that are one service of the device (exec-out,
\* tcpip, reboot, jdwp and the like), "query" for get-state and its kin.
Commands == {"shell", "logcat", "root", "service", "forward", "query", "reconnect",
             "disconnect", "wait"}

VARIABLES
    list,      \* transport_list: id, device, state, and whether a banner was read
    nextId,    \* the id of the next transport
    kicked,    \* ids of transports kicked
    g,         \* __adb_transport, __adb_serial, __adb_transport_id
    cache,     \* features: {} or the feature set of a device (has it shell_v2?)
    exited,    \* the process called _exit
    timer,     \* a thread of wait_for_device sleeps before its _exit(1)
    pc,        \* each thread: "idle", "start", "connect", "asked" (request sent),
               \* "open", "opened", "running", "reply", "back" and "wait"
    cmd, want, \* its command and the target its options named
    msg,       \* its request: service, target
    conn,      \* the transport its connection was switched to, or 0
    prev,      \* previous_type, previous_serial, previous_id of adb_root
    v2,        \* it uses the shell protocol
    sel,       \* history: the transport it was given, among how many matches
    mixed,     \* history: threads whose command ran while another one wrote g
    flaps, commands  \* counters of the bounds

server == <<list, nextId, kicked, flaps>>
global == <<g, cache, exited, timer>>
local  == <<cmd, want, msg, conn, prev, v2, sel>>
vars == <<list, nextId, kicked, g, cache, exited, timer, pc, cmd, want, msg, conn,
          prev, v2, sel, mixed, flaps, commands>>

Services == {"none", "features", "tport", "query", "reconnect", "disconnect",
             "wait-device", "wait-gone"}

TypeOK ==
    /\ \A i \in DOMAIN list :
          /\ list[i].id \in 1..MaxId /\ list[i].dev \in Devices
          /\ list[i].state \in {"connecting", "unauthorized", "offline", "device"}
          /\ \A j \in DOMAIN list : i # j => list[i].dev # list[j].dev
    /\ nextId \in 1..(MaxId + 1) /\ kicked \subseteq 1..MaxId
    /\ g.id \in 0..MaxId /\ g.type \in {"any", "local", "usb"}
    /\ cache \subseteq BOOLEAN /\ Cardinality(cache) <= 1
    /\ exited \in BOOLEAN /\ timer \in BOOLEAN
    /\ pc \in [Threads -> {"idle", "start", "connect", "asked", "open", "opened",
                           "running", "reply", "gone", "back", "wait"}]
    /\ cmd \in [Threads -> Commands] /\ want \in [Threads -> Options]
    /\ \A th \in Threads : msg[th].svc \in Services
    /\ conn \in [Threads -> 0..MaxId] /\ mixed \subseteq Threads
    /\ v2 \in [Threads -> BOOLEAN]

Init ==
    /\ list = <<>> /\ nextId = 1 /\ kicked = {} /\ flaps = 0 /\ commands = 0
    /\ g = Default /\ cache = {} /\ exited = FALSE /\ timer = FALSE
    /\ pc = [th \in Threads |-> "idle"]
    /\ cmd = [th \in Threads |-> "wait"] /\ want = [th \in Threads |-> Default]
    /\ msg = [th \in Threads |-> [svc |-> "none", req |-> Default]]
    /\ conn = [th \in Threads |-> 0] /\ prev = [th \in Threads |-> Default]
    /\ v2 = [th \in Threads |-> FALSE] /\ sel = [th \in Threads |-> <<>>]
    /\ mixed = {}

------------------------------------------------------------------------------
(* acquire_one_transport and find_transport.                               *)

\* The qualifiers come with the banner; an empty text matches what is empty.
MatchesTarget(t, x) ==
    LET i == Info[t.dev] IN
    \/ x.kind = "name" /\ x.value \in {i.serial, i.devpath}
    \/ x.kind = "host" /\ i.host = x.value /\ x.port \in {0, i.port}
    \/ x.kind = "product" /\ t.known /\ i.product = x.value
    \/ x.kind = "model" /\ t.known /\ i.model = x.value
    \/ x.kind = "empty" /\ (i.devpath = "" \/ ~t.known)

Candidate(t, r) ==
    CASE r.id # 0 -> t.id = r.id
      [] r.id = 0 /\ r.serial # NoSerial -> MatchesTarget(t, r.serial)
      [] OTHER -> r.type \in {"any", Info[t.dev].type}

Candidates(r) == {list[i] : i \in {j \in DOMAIN list : Candidate(list[j], r)}}

IsAmbiguous(r) == Cardinality(Candidates(r)) > 1

\* The transport, in a set: empty if there is none, more than one, or if it
\* is not in a state to be used.  The state is tested after transport_lock is
\* released, but only the looper, which runs this, writes states.
Acquire(r, anyState) ==
    {t \in Candidates(r) : ~IsAmbiguous(r) /\ (anyState \/ t.state = "device")}

------------------------------------------------------------------------------
(* Transports come, change and go (Transport.tla), on the looper.          *)

Env == UNCHANGED <<global, cmd, want, msg, prev, v2, sel, pc, mixed, commands>>

\* handle_offline closes the sockets of a transport.
CloseSockets(id) == conn' = [th \in Threads |-> IF conn[th] = id THEN 0 ELSE conn[th]]

\* register_socket_transport refuses a serial that is in the lists.
Register(d) ==
    /\ ~exited /\ nextId <= MaxId
    /\ \A i \in DOMAIN list : list[i].dev # d
    /\ list' = <<[id |-> nextId, dev |-> d, state |-> "connecting", known |-> FALSE]>> \o list
    /\ nextId' = nextId + 1
    /\ UNCHANGED <<kicked, flaps, conn>> /\ Env

\* parse_banner: CNXN, or the answer to a refused key.
Online(i) ==
    /\ ~exited /\ list[i].state # "device" /\ list[i].id \notin kicked
    /\ \/ list' = [list EXCEPT ![i].state = "device", ![i].known = TRUE]
       \/ list[i].state = "connecting" /\ list' = [list EXCEPT ![i].state = "unauthorized"]
    /\ UNCHANGED <<nextId, kicked, flaps, conn>> /\ Env

Offline(i) ==
    /\ ~exited /\ list[i].state # "offline"
    /\ flaps < MaxFlaps \/ list[i].id \in kicked
    /\ flaps' = IF list[i].id \in kicked THEN flaps ELSE flaps + 1
    /\ list' = [list EXCEPT ![i].state = "offline"]
    /\ CloseSockets(list[i].id)
    /\ UNCHANGED <<nextId, kicked>> /\ Env

Unregister(i) ==
    /\ ~exited /\ list[i].state = "offline"
    /\ list' = SubSeq(list, 1, i - 1) \o SubSeq(list, i + 1, Len(list))
    /\ UNCHANGED <<nextId, kicked, flaps, conn>> /\ Env

------------------------------------------------------------------------------
(* adb_commandline: options, then the command.                             *)

Go(th, p) == pc' = [pc EXCEPT ![th] = p]

\* A mistake: an id stays until another is given.
SetTransportKept(o) == g' = [o EXCEPT !.id = IF o.id = 0 THEN g.id ELSE o.id]

\* adb_set_transport
SetTransport(o) == g' = o

\* Commands that other threads are at when th writes the globals.
Busy(th) == {u \in Threads \ {th} : pc[u] # "idle"}

\* The dispatch of adb_commandline.
FirstStep(c) ==
    CASE c \in {"shell", "logcat", "forward"} -> "start"
      [] c \in {"root", "service"} -> "connect"
      [] OTHER -> "wait"

\* The argument of `disconnect' is drawn from the same set as the options.
Begin(th, o, c) ==
    /\ ~exited /\ pc[th] = "idle" /\ commands < MaxCommands
    /\ commands' = commands + 1
    /\ SetTransport(IF c = "disconnect" THEN Default ELSE o)
    /\ cmd' = [cmd EXCEPT ![th] = c] /\ want' = [want EXCEPT ![th] = o]
    /\ sel' = [sel EXCEPT ![th] = <<>>] /\ conn' = [conn EXCEPT ![th] = 0]
    /\ mixed' = (mixed \ {th}) \cup Busy(th)
    /\ Go(th, FirstStep(c))
    /\ UNCHANGED <<server, cache, exited, timer, msg, prev, v2>>

\* SendProtocolString of a request for the target of the moment.
Send(th, svc, r) ==
    /\ msg' = [msg EXCEPT ![th] = [svc |-> svc, req |-> r]]
    /\ Go(th, "asked")

\* The target of a request: `disconnect' names its own.
RequestTarget(th) == IF cmd[th] = "disconnect" THEN want[th] ELSE g

\* format_host_command, for the commands that are one request.
Request(th) ==
    /\ ~exited /\ pc[th] = "wait"
    /\ Send(th, IF cmd[th] \in {"wait", "logcat", "root"} THEN "wait-device" ELSE cmd[th],
            RequestTarget(th))
    /\ UNCHANGED <<server, global, cmd, want, conn, prev, v2, sel, mixed, commands>>

\* adb_shell and send_shell_command use the shell protocol unless told not to;
\* forward asks for another feature.
UseShellProtocol(th) ==
    IF cmd[th] = "forward" THEN {FALSE} ELSE cache \cup {FALSE}

\* adb_get_feature_set, under its mutex: the cache, or a request.  adb_shell
\* may find that what it is asked for needs the protocol.
GetFeatureSet(th) ==
    /\ ~exited /\ pc[th] = "start"
    /\ \A u \in Threads \ {th} : ~(pc[u] = "asked" /\ msg[u].svc = "features")
    /\ IF cache = {}
       THEN Send(th, "features", g) /\ UNCHANGED v2
       ELSE /\ \E p \in UseShellProtocol(th) : v2' = [v2 EXCEPT ![th] = p]
            /\ \/ Go(th, "connect")
               \/ cmd[th] = "shell" /\ ~v2'[th] /\ Go(th, "idle")
            /\ UNCHANGED msg
    /\ UNCHANGED <<server, global, cmd, want, conn, prev, sel, mixed, commands>>

\* _adb_connect: switch_socket_transport first.
Connect(th) ==
    /\ ~exited /\ pc[th] = "connect"
    /\ Send(th, "tport", g)
    /\ UNCHANGED <<server, global, cmd, want, conn, prev, v2, sel, mixed, commands>>

\* The service itself goes over the switched connection, to the device or, for
\* a forward, to the server.
Open(th) ==
    /\ ~exited /\ pc[th] = "open"
    /\ Go(th, "opened")
    /\ UNCHANGED <<server, global, local, mixed, commands>>

\* send_shell_command waits for the device and tries again.
AfterFailure(th) == IF cmd[th] = "logcat" THEN "wait" ELSE "idle"

OpenSucceeds(th) ==
    /\ ~exited /\ pc[th] = "opened" /\ conn[th] # 0
    /\ Go(th, IF cmd[th] = "root" THEN "reply" ELSE "running")
    /\ UNCHANGED <<server, global, local, mixed, commands>>

\* The device refuses the service, or is gone.
OpenFails(th) ==
    /\ ~exited /\ pc[th] = "opened"
    /\ Go(th, AfterFailure(th))
    /\ UNCHANGED <<server, global, local, mixed, commands>>

\* read_and_dump, to the end of the connection.
SessionEnds(th) ==
    /\ ~exited /\ pc[th] = "running"
    /\ Go(th, "idle")
    /\ UNCHANGED <<server, global, local, mixed, commands>>

------------------------------------------------------------------------------
(* adb_root.                                                               *)

\* The device says that it restarts, or that it need not, or is cut off.
RootReply(th) ==
    /\ ~exited /\ pc[th] = "reply"
    /\ \/ Go(th, "idle") /\ UNCHANGED <<g, msg, prev, mixed>>
       \/ /\ prev' = [prev EXCEPT ![th] = g]
          /\ SetTransport([Default EXCEPT !.id = sel[th][1].id])
          /\ mixed' = mixed \cup Busy(th)
          /\ Send(th, "wait-gone", g')
    /\ UNCHANGED <<server, cache, exited, timer, cmd, want, conn, v2, sel, commands>>

\* A mistake: the target is left as it is.
RestoreNothing(th) == UNCHANGED g

Restore(th) == SetTransport(prev[th])

\* "If we were using a specific transport ID, there's nothing we can wait for."
\* Otherwise wait_for_device with a timeout: a thread that sleeps, and exits.
RootBack(th) ==
    /\ ~exited /\ pc[th] = "back"
    /\ IF prev[th].id # 0
       THEN Go(th, "idle") /\ UNCHANGED <<g, timer, msg, mixed>>
       ELSE /\ Restore(th) /\ mixed' = mixed \cup Busy(th)
            /\ timer' = TRUE /\ Send(th, "wait-device", g')
    /\ UNCHANGED <<server, cache, exited, cmd, want, conn, prev, v2, sel, commands>>

TimeoutExpires ==
    /\ timer /\ ~exited
    /\ exited' = TRUE
    /\ UNCHANGED <<server, g, cache, timer, pc, local, mixed, commands>>

------------------------------------------------------------------------------
(* handle_host_request, and the client's way on.                           *)

Asked(th, svc) == ~exited /\ pc[th] = "asked" /\ msg[th].svc \in svc

\* "tport:" and "transport-id:": the connection is tied to the transport.
SwitchTransport(th) ==
    /\ Asked(th, {"tport"})
    /\ LET r == msg[th].req IN
       \/ \E t \in Acquire(r, FALSE) :
             /\ conn' = [conn EXCEPT ![th] = t.id]
             /\ sel' = [sel EXCEPT ![th] = <<t, Cardinality(Candidates(want[th]))>>]
             /\ Go(th, "open")
       \/ /\ Acquire(r, FALSE) = {}
          /\ Go(th, AfterFailure(th))
          /\ UNCHANGED <<conn, sel>>
    /\ UNCHANGED <<server, global, cmd, want, msg, prev, v2, mixed, commands>>

\* forward_dest_is_featured goes on without an answer.
WithoutFeatures(th) == IF cmd[th] = "forward" THEN "connect" ELSE AfterFailure(th)

\* "features": the answer is kept for good.
Features(th) ==
    /\ Asked(th, {"features"})
    /\ \/ \E t \in Acquire(msg[th].req, FALSE) :
             cache' = {Info[t.dev].shell2} /\ Go(th, "start")
       \/ Acquire(msg[th].req, FALSE) = {} /\ Go(th, WithoutFeatures(th)) /\ UNCHANGED cache
    /\ UNCHANGED <<server, g, exited, timer, local, mixed, commands>>

\* "get-state" and the like; "reconnect" takes a transport in any state.
Query(th) ==
    /\ Asked(th, {"query", "reconnect"})
    /\ LET any == msg[th].svc = "reconnect" IN
       /\ sel' = [sel EXCEPT ![th] =
                    IF Acquire(msg[th].req, any) = {} THEN <<>>
                    ELSE <<CHOOSE t \in Acquire(msg[th].req, any) : TRUE,
                           Cardinality(Candidates(want[th]))>>]
       /\ kicked' = IF any THEN kicked \cup {t.id : t \in Acquire(msg[th].req, TRUE)}
                    ELSE kicked
    /\ Go(th, "idle")
    /\ UNCHANGED <<list, nextId, flaps, global, cmd, want, msg, conn, prev, v2, mixed, commands>>

\* "disconnect:": everything, or the transport with that serial, as it is
\* given or completed with the default port.
Disconnect(th) ==
    /\ Asked(th, {"disconnect"})
    /\ LET x == msg[th].req.serial
           named(t) == \/ x = NoSerial
                       \/ x.kind = "name" /\ x.value = Info[t.dev].serial
                       \/ x.kind = "host" /\ x.value = Info[t.dev].host
                          /\ Info[t.dev].port = IF x.port = 0 THEN 5555 ELSE x.port
       IN kicked' = kicked \cup {list[i].id : i \in {j \in DOMAIN list : named(list[j])}}
    /\ Go(th, "idle")
    /\ UNCHANGED <<list, nextId, flaps, global, local, mixed, commands>>

\* A mistake: send_shell_command waits again after the wait.
WaitDeviceAgain(th) ==
    /\ Asked(th, {"wait-device"})
    /\ \/ /\ Acquire(msg[th].req, FALSE) # {}
          /\ Go(th, IF cmd[th] = "logcat" THEN "wait" ELSE "idle")
       \/ IsAmbiguous(msg[th].req) /\ Go(th, "idle")
    /\ UNCHANGED <<server, global, local, mixed, commands>>

\* The wait-for services: until a transport can be acquired, or cannot any
\* more.  Waiting for one of several is refused.
WaitDevice(th) ==
    /\ Asked(th, {"wait-device"})
    /\ \/ /\ Acquire(msg[th].req, FALSE) # {}
          /\ Go(th, IF cmd[th] = "logcat" THEN "start" ELSE "idle")
       \/ IsAmbiguous(msg[th].req) /\ Go(th, "idle")
    /\ UNCHANGED <<server, global, local, mixed, commands>>

WaitGone(th) ==
    /\ Asked(th, {"wait-gone"})
    /\ Acquire(msg[th].req, FALSE) = {}
    /\ Go(th, "back")
    /\ UNCHANGED <<server, global, local, mixed, commands>>

Serve(th) ==
    \/ SwitchTransport(th) \/ Features(th) \/ Query(th) \/ Disconnect(th)
    \/ WaitDevice(th) \/ WaitGone(th)

------------------------------------------------------------------------------
Client(th) ==
    \/ Request(th) \/ GetFeatureSet(th) \/ Connect(th) \/ Open(th)
    \/ RootReply(th) \/ RootBack(th)

Transports ==
    \/ \E d \in Devices : Register(d)
    \/ \E i \in DOMAIN list : Online(i) \/ Offline(i) \/ Unregister(i)

Next ==
    \/ Transports
    \/ \E th \in Threads :
          \/ \E o \in Options, c \in Commands : Begin(th, o, c)
          \/ Client(th) \/ OpenSucceeds(th) \/ OpenFails(th) \/ SessionEnds(th) \/ Serve(th)
    \/ TimeoutExpires

Spec == Init /\ [][Next]_vars

\* Threads and looper run; a device that is asked again and again for a
\* service takes it at last.  Nothing is assumed of transports and timers.
FairSpec ==
    /\ Spec
    /\ \A th \in Threads :
          /\ WF_vars(Client(th)) /\ WF_vars(Serve(th))
          /\ SF_vars(OpenSucceeds(th)) /\ WF_vars(OpenFails(th))

------------------------------------------------------------------------------
(* Properties.                                                             *)

\* A command is given the one transport its options name, whatever commands
\* ran before it and left in the globals or in a cache, and whatever came or
\* went between its requests, unless another thread set the globals meanwhile.
RightDevice ==
    \A th \in Threads \ mixed : sel[th] # <<>> =>
        Candidate(sel[th][1], want[th]) /\ sel[th][2] = 1

\* adb_root waits for the end of the transport it ran on, and then for the
\* target of its own options, not for another device that happens to be there,
\* with the same exception.
RootWaitsForItsDevice ==
    \A th \in Threads \ mixed :
        cmd[th] = "root" /\ pc[th] = "asked" =>
            CASE msg[th].svc = "wait-gone"   -> msg[th].req.id = sel[th][1].id
              [] msg[th].svc = "wait-device" -> msg[th].req = want[th]
              [] OTHER -> TRUE

\* The loop of send_shell_command gets through to a device that stays there.
Trying(th) ==
    /\ cmd[th] = "logcat" /\ pc[th] \notin {"idle", "running"} /\ th \notin mixed
    /\ ~exited /\ Acquire(want[th], FALSE) # {}

RetryGetsThrough == \A th \in Threads : []<>~Trying(th)

\* send_shell_command: "Use shell protocol if it's supported".  It asks the
\* feature set it has, and gets that of the first device it ever asked about.
ProtocolIsSupported ==
    \A th \in Threads : pc[th] = "running" /\ v2[th] =>
        Info[sel[th][1].dev].shell2

\* wait_for_device: "timeout expired while waiting for device" is why the
\* process is ended.
ExitIsTimeout ==
    exited => \E th \in Threads : pc[th] = "asked" /\ msg[th].svc = "wait-device"
==============================================================================
