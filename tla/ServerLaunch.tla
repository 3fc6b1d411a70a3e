----------------------------- MODULE ServerLaunch ----------------------------
(***************************************************************************)
(* The server inside the application (main.cpp): a client that cannot      *)
(* connect (adb_client.cpp) ends the old event loop, clears what is left   *)
(* of the old server, starts a thread that becomes the new one, and waits  *)
(* for its "OK" on a pipe.  adb runs this once per process; here it is run *)
(* again whenever the listening socket was lost, which a mobile system     *)
(* does to an application it suspends.                                     *)
(*                                                                         *)
(* Steps are the calls of launch_server and adb_server_main that other     *)
(* threads can see.  The event loop is in FdeventLoop: here it is entered, *)
(* runs what was posted, and ends.  A program of another version may hold  *)
(* the port; ours is always of the right one.                              *)
(*                                                                         *)
(* No lock keeps two launches apart, and a launch may find the last server *)
(* before its loop.  Both happen here, and hasty remembers that one did:   *)
(* what launch_server promises is lost from then on.                       *)
(***************************************************************************)
EXTENDS Naturals, Sequences

CONSTANTS
    Clients,      \* threads of the application that run commands
    Foreign,      \* what may hold the port at the start: "none", "same" (a server of
                  \* this version), "old", "mute" (knows no host:version), "stubborn"
                  \* (old, and rejects host:kill)
    MaxCommands, MaxLosses   \* bounds: commands run, sockets lost

ASSUME ServerLaunchAssumption ==
    /\ Foreign \subseteq {"none", "same", "old", "mute", "stubborn"}
    /\ MaxCommands \in Nat /\ MaxLosses \in Nat

VARIABLES
    other,      \* the foreign server: of Foreign, or "dying" after host:kill
    notFirst,   \* not_first
    pipe,       \* pipe_server, by number: 0 before the first
    full, shut, \* pipes that hold "OK", and whose writing end is closed
    ctx,        \* the ambient fdevent context, by number; older ones are deleted
    term,       \* contexts whose terminate_loop_ is set
    looper,     \* by context: the server thread in looper_thread_id_, 0 if none
    posted,     \* contexts with enable_server_sockets in their run queue
    smart,      \* context of the smart socket in listener_list, 0 if none
    sock,       \* its descriptor: "none", "listening", "dead"
    enabled,    \* its fdevent is set to FDE_READ
    handler,    \* the reconnect handler: "new", "running", "stopped"
    srv,        \* the server threads: where each is, its pipe, its context, and its
                \* notify_thread
    cpc,        \* clients: "idle", "kill", "launch", "wait" (WaitForLoopExit), "sleep"
                \* (in loop_exit_cv_), "clean", "reset", "pipe", "spawn", "spawned",
                \* "read", "connect", "asked"
    cx,         \* clients: the context waited on, or the pipe read from
    crashed,    \* "no", "fatal" (LOG(FATAL)), "fault" (a deleted context was used)
    hasty,      \* history: a launch began beside another, or before the last server
                \* was in its loop and enabled
    commands, losses  \* counters of the bounds

pipes   == <<pipe, full, shut>>
context == <<ctx, term, looper, posted>>
socket  == <<smart, sock, enabled>>
vars == <<other, notFirst, pipe, full, shut, ctx, term, looper, posted, smart, sock,
          enabled, handler, srv, cpc, cx, crashed, hasty, commands, losses>>

SrvPcs    == {"spawned", "listen", "notify", "enter", "loop", "leaving", "ended"}
Notes     == {"none", "waiting", "told", "done"}
Servers   == [pc : SrvPcs, pipe : Nat, at : Nat, note : Notes]
Launching == {"wait", "sleep", "clean", "reset", "pipe", "spawn", "spawned", "read"}
Pcs       == Launching \cup {"idle", "kill", "launch", "connect", "asked"}

TypeOK ==
    /\ pipe \in Nat /\ full \subseteq shut /\ shut \subseteq 1..pipe
    /\ looper \in Seq(Nat) /\ ctx = Len(looper) /\ ctx \in Nat \ {0}
    /\ term \subseteq 1..ctx /\ posted \subseteq 1..ctx
    /\ smart \in Nat /\ sock \in {"none", "listening", "dead"}
    /\ srv \in Seq(Servers)
    /\ cpc \in [Clients -> Pcs] /\ cx \in [Clients -> Nat]
    /\ hasty \in BOOLEAN

Init ==
    /\ other \in Foreign /\ notFirst = FALSE
    /\ pipe = 0 /\ full = {} /\ shut = {}
    /\ ctx = 1 /\ term = {} /\ looper = <<0>> /\ posted = {}
    /\ smart = 0 /\ sock = "none" /\ enabled = FALSE
    /\ handler = "new" /\ srv = <<>>
    /\ cpc = [c \in Clients |-> "idle"] /\ cx = [c \in Clients |-> 0]
    /\ crashed = "no" /\ hasty = FALSE /\ commands = 0 /\ losses = 0

------------------------------------------------------------------------------
(* The client: adb_connect, with __adb_check_server_version in front.      *)

Alive == crashed = "no"
At(c, p) == Alive /\ cpc[c] = p
Go(c, p) == cpc' = [cpc EXCEPT ![c] = p]
Bounds == UNCHANGED <<commands, losses, crashed, hasty>>

\* host:version: a foreign server answers at once, ours when it runs.
CheckServerVersion(c) ==
    /\ At(c, "idle") /\ commands < MaxCommands
    /\ commands' = commands + 1
    /\ CASE other = "same" -> Go(c, "idle")
         [] other \in {"old", "mute", "stubborn"} -> Go(c, "kill")
         [] other = "dying" -> \E p \in {"idle", "launch"} : Go(c, p)
         [] OTHER -> Go(c, IF sock = "listening" THEN "asked" ELSE "launch")
    /\ UNCHANGED <<other, notFirst, pipes, context, socket, handler, srv, cx, crashed, hasty, losses>>

\* adb_kill_server, whatever comes of it.
KillServer(c) ==
    /\ At(c, "kill")
    /\ other' = IF other \in {"old", "mute"} THEN "dying" ELSE other
    /\ Go(c, "launch")
    /\ UNCHANGED <<notFirst, pipes, context, socket, handler, srv, cx>> /\ Bounds

ForeignExits ==
    /\ Alive /\ other = "dying" /\ other' = "none"
    /\ UNCHANGED <<notFirst, pipes, context, socket, handler, srv, cpc, cx>> /\ Bounds

\* The request is answered by a loop that accepts, or the connection is lost
\* with the socket or the context.
Up == /\ sock = "listening" /\ enabled /\ smart = ctx
      /\ looper[ctx] # 0 /\ ctx \notin term

Answered(c) ==
    /\ At(c, "asked") /\ (Up \/ sock # "listening")
    /\ Go(c, "idle")
    /\ UNCHANGED <<other, notFirst, pipes, context, socket, handler, srv, cx>> /\ Bounds

\* The service itself, after a launch; "daemon still not running" otherwise.
Connect(c) ==
    /\ At(c, "connect")
    /\ Go(c, IF sock = "listening" THEN "asked" ELSE "idle")
    /\ UNCHANGED <<other, notFirst, pipes, context, socket, handler, srv, cx>> /\ Bounds

------------------------------------------------------------------------------
(* launch_server.                                                          *)

\* What a launch counts on: no other one is under way, and the last server is
\* in its loop with its socket enabled.
Settled(c) ==
    /\ \A d \in Clients \ {c} : cpc[d] \notin Launching
    /\ \A n \in DOMAIN srv : srv[n].pc \in {"loop", "leaving", "ended"} /\ srv[n].note = "done"

\* TerminateLoop, from the second launch on.
Launch(c) ==
    /\ At(c, "launch")
    /\ IF notFirst
       THEN term' = term \cup {ctx} /\ cx' = [cx EXCEPT ![c] = ctx] /\ Go(c, "wait")
       ELSE Go(c, "pipe") /\ UNCHANGED <<term, cx>>
    /\ hasty' = (hasty \/ ~Settled(c))
    /\ UNCHANGED <<other, notFirst, pipes, ctx, looper, posted, socket, handler, srv, crashed,
                   commands, losses>>

\* A mistake: nobody waits.
WaitForLoopExitNot(c) ==
    /\ At(c, "wait") /\ Go(c, "clean")
    /\ UNCHANGED <<other, notFirst, pipes, context, socket, handler, srv, cx>> /\ Bounds

\* Until looper_thread_id_ is empty, which it also is before the loop starts:
\* tested, and the sleep begun, under loop_exit_mutex_.
WaitForLoopExit(c) ==
    /\ At(c, "wait")
    /\ Go(c, IF looper[cx[c]] = 0 THEN "clean" ELSE "sleep")
    /\ UNCHANGED <<other, notFirst, pipes, context, socket, handler, srv, cx>> /\ Bounds

\* A condition variable may wake for no reason.
WakeSpuriously(c) ==
    /\ At(c, "sleep") /\ Go(c, "wait")
    /\ UNCHANGED <<other, notFirst, pipes, context, socket, handler, srv, cx>> /\ Bounds

\* A mistake: the smart socket stays.
CleanupKeepingSocket(c) ==
    /\ At(c, "clean")
    /\ handler' = "stopped"
    /\ Go(c, "reset")
    /\ UNCHANGED <<other, notFirst, pipes, context, socket, srv, cx>> /\ Bounds

\* adb_server_cleanup (close_smartsockets, then kick_all_transports, which
\* stops the reconnect handler) and clear_transport_list.
Cleanup(c) ==
    /\ At(c, "clean")
    /\ smart' = 0 /\ sock' = "none" /\ enabled' = FALSE
    /\ handler' = "stopped"
    /\ Go(c, "reset")
    /\ UNCHANGED <<other, notFirst, pipes, context, srv, cx>> /\ Bounds

\* fdevent_reset: the old context is deleted, with what was posted to it.
Reset(c) ==
    /\ At(c, "reset")
    /\ ctx' = ctx + 1 /\ looper' = Append(looper, 0) /\ posted' = posted \ {ctx}
    /\ Go(c, "pipe")
    /\ UNCHANGED <<other, notFirst, pipes, term, socket, handler, srv, cx>> /\ Bounds

MakePipe(c) ==
    /\ At(c, "pipe")
    /\ notFirst' = TRUE
    /\ pipe' = pipe + 1
    /\ Go(c, "spawn")
    /\ UNCHANGED <<other, full, shut, context, socket, handler, srv, cx>> /\ Bounds

Spawn(c) ==
    /\ At(c, "spawn")
    /\ srv' = Append(srv, [pc |-> "spawned", pipe |-> 0, at |-> 0, note |-> "none"])
    /\ Go(c, "spawned")
    /\ UNCHANGED <<other, notFirst, pipes, context, socket, handler, cx>> /\ Bounds

\* The pipe is the one the static names when adb_read is called.
StartRead(c) ==
    /\ At(c, "spawned")
    /\ cx' = [cx EXCEPT ![c] = pipe]
    /\ Go(c, "read")
    /\ UNCHANGED <<other, notFirst, pipes, context, socket, handler, srv>> /\ Bounds

\* "OK\n", or the end of the pipe.
Read(c) ==
    /\ At(c, "read") /\ cx[c] \in shut
    /\ full' = full \ {cx[c]}
    /\ Go(c, IF cx[c] \in full THEN "connect" ELSE "idle")
    /\ UNCHANGED <<other, notFirst, pipe, shut, context, socket, handler, srv, cx>> /\ Bounds

------------------------------------------------------------------------------
(* adb_server_main, in the thread n, and its notify_thread.                *)

Srv(n, p) == Alive /\ srv[n].pc = p
Client == UNCHANGED <<cpc, cx, hasty, commands, losses>>

\* The thread takes its pipe from the static too; init_reconnect_handler
\* starts the handler once in the life of the process.
ServerMain(n) ==
    /\ Srv(n, "spawned")
    /\ srv' = [srv EXCEPT ![n].pc = "listen", ![n].pipe = pipe]
    /\ handler' = IF handler = "new" THEN "running" ELSE handler
    /\ UNCHANGED <<other, notFirst, pipes, context, socket, crashed>> /\ Client

\* install_listener fails while somebody holds the port or the name: retried
\* for half a second, and then the process is aborted.
PortIsTaken == smart # 0 \/ other # "none"

InstallListener(n) ==
    /\ Srv(n, "listen") /\ ~PortIsTaken
    /\ smart' = ctx /\ sock' = "listening" /\ enabled' = FALSE
    /\ srv' = [srv EXCEPT ![n].pc = "notify"]
    /\ UNCHANGED <<other, notFirst, pipes, context, handler, crashed>> /\ Client

InstallTimesOut(n) ==
    /\ Srv(n, "listen") /\ PortIsTaken
    /\ crashed' = "fatal"
    /\ UNCHANGED <<other, notFirst, pipes, context, socket, handler, srv>> /\ Client

\* A mistake: the client is told before the server listens.
StartNotifyThreadEarly(n) ==
    /\ Srv(n, "listen") \/ Srv(n, "notify")
    /\ srv[n].note = "none" \/ Srv(n, "notify")
    /\ srv' = [srv EXCEPT ![n].pc = IF Srv(n, "notify") THEN "enter" ELSE "listen",
                          ![n].note = IF @ = "none" THEN "waiting" ELSE @]
    /\ UNCHANGED <<other, notFirst, pipes, context, socket, handler, crashed>> /\ Client

StartNotifyThread(n) ==
    /\ Srv(n, "notify")
    /\ srv' = [srv EXCEPT ![n].pc = "enter", ![n].note = "waiting"]
    /\ UNCHANGED <<other, notFirst, pipes, context, socket, handler, crashed>> /\ Client

\* A mistake: nobody is told.
NotifySilently(n) ==
    /\ Alive /\ srv[n].note = "waiting"
    /\ srv' = [srv EXCEPT ![n].note = "told"]
    /\ UNCHANGED <<other, notFirst, pipes, context, socket, handler, crashed>> /\ Client

\* "OK\n" is written and the end closed; a write to a closed end is fatal.
Notify(n) ==
    /\ Alive /\ srv[n].note = "waiting"
    /\ srv' = [srv EXCEPT ![n].note = "told"]
    /\ full' = full \cup {srv[n].pipe} /\ shut' = shut \cup {srv[n].pipe}
    /\ crashed' = IF srv[n].pipe \in shut THEN "fatal" ELSE "no"
    /\ UNCHANGED <<other, notFirst, pipe, context, socket, handler>> /\ Client

PostEnable(n) ==
    /\ Alive /\ srv[n].note = "told"
    /\ srv' = [srv EXCEPT ![n].note = "done"]
    /\ posted' = posted \cup {ctx}
    /\ UNCHANGED <<other, notFirst, pipes, ctx, term, looper, socket, handler, crashed>> /\ Client

EnterLoop(n) ==
    /\ Srv(n, "enter")
    /\ srv' = [srv EXCEPT ![n].pc = "loop", ![n].at = ctx]
    /\ looper' = [looper EXCEPT ![ctx] = n]
    /\ UNCHANGED <<other, notFirst, pipes, ctx, term, posted, socket, handler, crashed>> /\ Client

\* enable_server_sockets
RunPosted(n) ==
    /\ Srv(n, "loop") /\ srv[n].at \in posted /\ srv[n].at \notin term
    /\ posted' = posted \ {srv[n].at}
    /\ enabled' = (smart # 0)
    /\ UNCHANGED <<other, notFirst, pipes, ctx, term, looper, smart, sock, handler, srv, crashed>>
    /\ Client

\* looper_thread_id_ is reset under loop_exit_mutex_, and the mutex unlocked.
ExitLoop(n) ==
    /\ Srv(n, "loop") /\ srv[n].at \in term
    /\ srv' = [srv EXCEPT ![n].pc = "leaving"]
    /\ looper' = [looper EXCEPT ![srv[n].at] = 0]
    /\ UNCHANGED <<other, notFirst, pipes, ctx, term, posted, socket, handler, crashed>> /\ Client

\* loop_exit_cv_.notify_all, a call on the context.
NotifyLoopExit(n) ==
    /\ Srv(n, "leaving")
    /\ srv' = [srv EXCEPT ![n].pc = "ended"]
    /\ cpc' = [c \in Clients |-> IF cpc[c] = "sleep" /\ cx[c] = srv[n].at THEN "wait" ELSE cpc[c]]
    /\ UNCHANGED <<other, notFirst, pipes, context, socket, handler, cx>> /\ Bounds

\* What uses a context after fdevent_reset may go well, or end the process.
UseDeletedContext ==
    /\ Alive
    /\ \/ \E n \in DOMAIN srv : srv[n].pc \in {"loop", "leaving"} /\ srv[n].at # ctx
       \/ \E c \in Clients : cpc[c] \in {"wait", "sleep"} /\ cx[c] # ctx
    /\ crashed' = "fault"
    /\ UNCHANGED <<other, notFirst, pipes, context, socket, handler, srv>> /\ Client

\* The system takes the listening socket from a suspended application.
LoseSocket ==
    /\ Alive /\ sock = "listening" /\ losses < MaxLosses
    /\ losses' = losses + 1
    /\ sock' = "dead"
    /\ UNCHANGED <<other, notFirst, pipes, context, smart, enabled, handler, srv, cpc, cx,
                   crashed, hasty, commands>>

------------------------------------------------------------------------------
ClientStep(c) ==
    \/ KillServer(c) \/ Answered(c) \/ Connect(c) \/ Launch(c) \/ WaitForLoopExit(c)
    \/ Cleanup(c) \/ Reset(c) \/ MakePipe(c) \/ Spawn(c) \/ StartRead(c) \/ Read(c)

ServerStep(n) ==
    \/ ServerMain(n) \/ InstallListener(n) \/ StartNotifyThread(n) \/ EnterLoop(n)
    \/ RunPosted(n) \/ ExitLoop(n) \/ NotifyLoopExit(n) \/ InstallTimesOut(n)

NotifyStep(n) == Notify(n) \/ PostEnable(n)

Next ==
    \/ \E c \in Clients : CheckServerVersion(c) \/ ClientStep(c) \/ WakeSpuriously(c)
    \/ \E n \in DOMAIN srv : ServerStep(n) \/ NotifyStep(n)
    \/ ForeignExits \/ LoseSocket \/ UseDeletedContext

Spec == Init /\ [][Next]_vars

\* Every thread runs; whether commands come and sockets go is not our choice.
FairSpec ==
    /\ Spec
    /\ \A c \in Clients : WF_vars(ClientStep(c))
    /\ \A n \in 1..MaxCommands :
          WF_vars(n \in DOMAIN srv /\ ServerStep(n)) /\ WF_vars(n \in DOMAIN srv /\ NotifyStep(n))
    /\ WF_vars(ForeignExits)

------------------------------------------------------------------------------
(* Properties.                                                             *)

\* launch_server: "Wait for the fdevent loop to actually exit before
\* destroying the context": a loop never runs on a context that was deleted,
\* and two never run on one, unless a launch began hastily.
LoopHasContext ==
    hasty \/ \A n \in DOMAIN srv : srv[n].pc = "loop" => srv[n].at = ctx /\ looper[ctx] = n

\* The same comment, of every launch: it counts on the loop having begun.
LoopIsWaitedFor == \A n \in DOMAIN srv : srv[n].pc = "loop" => srv[n].at = ctx

\* "This fixes the race condition where the loop thread was still accessing
\* [the context] while we were destroying it": a thread is done with a context
\* before it is deleted, the wake-up at the end of the loop included.
ContextOutlivesLoop ==
    hasty \/ \A n \in DOMAIN srv : srv[n].pc \in {"loop", "leaving"} => srv[n].at = ctx

\* launch_server reads "OK" from the pipe: when it is there the listener of
\* this launch is installed, alive or lost again, and not one closed since.
AckMeansListening ==
    hasty \/ \A c \in Clients : cpc[c] = "read" /\ cx[c] \in full => sock # "none"

\* The application is aborted over the port only when another program holds
\* it, never over what its own last server left behind, and never by a write
\* to a pipe that was closed.
AbortIsForeign == crashed = "fatal" => other # "none" \/ hasty

\* Every command comes to an end: the launch is acknowledged, and what is
\* asked of the new server is answered when it accepts.
CommandsEnd ==
    \A c \in Clients : cpc[c] # "idle" ~> (cpc[c] = "idle" \/ crashed # "no" \/ hasty)

\* TrackTransport: "Adds the atransport* to the queue of reconnect attempts":
\* a server that is up has a handler that makes them.
HandlerRuns == Up => handler = "running"
==============================================================================
