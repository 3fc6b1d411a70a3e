# TLA+ verification of adb-mobile

adb-mobile is a port of the adb host (client and server) to iOS: the server that
elsewhere is a process of its own runs here on a thread of the app, can be launched
several times in one process, and talks to devices over TCP only. This project models
the parts of `src/porting/adb` that carry its own logic, checks them with TLC and proves
theorems about them with TLAPS.

`PROJECT.json` maps every definition that models code to the lines it models, lists the
runs, the mutants that show each property can fail, the hazards and the theorems.

## The system

| part | state | operations | interacts with |
|---|---|---|---|
| Event loop (`fdevent/`) | installed descriptors, run queue, interrupt socket pair, terminate flag, looper id | Create, Destroy, Set, SetTimeout, Run, TerminateLoop, WaitForLoopExit, Loop | everything: all server state changes on its thread; other threads hand it functions (`fdevent_run_on_looper`) |
| Transports (`transport.cpp`, `client/adb.cpp`) | `pending_list`, `transport_list`, per transport: connection and its two threads, `kicked_`, state, keys; the reconnect queue and its thread | connect, kick, read, error, register, unregister, destroy, CNXN/AUTH, reconnect, stop | loop (queue), listeners and sockets (disconnects) |
| Transport selection (`acquire_one_transport`) | reads the lists | lookup by id, serial, type | host services |
| Connection threads, TLS | `started_`, `stopped_`, two threads, write queue, error flag | Start, Stop, Reset, Write, DoTlsHandshake | transports |
| Packets and sockets (`handle_packet`) | asockets (not in the repository) | OPEN, OKAY, WRTE, CLSE | transports, listeners |
| Listeners (`adb_listeners.cpp`) | `listener_list`, each listener's transport and fdevent | install, rebind, remove, remove all, enable, close smart sockets, disconnect | transports (`disconnects_`), loop |
| Server launch (`client/main.cpp`) | `not_first`, the notify pipe, the ambient fdevent context | launch, relaunch, cleanup | loop, transports, listeners |
| Client to server (`client/adb_client.cpp`) | the target of the command (three globals), the feature cache | connect, version check, kill and restart of the server | server launch, host services |
| Host services (`handle_host_request`) | none of their own | tie a connection to a transport, features, reconnect, disconnect, forwards, version, kill | transport selection, listeners |
| File push (`client/file_sync_client.cpp`) | deferred acknowledgements, acknowledgement buffer, the two directions of one connection | send small and large files, lstat, read acknowledgements | the device's sync service |
| File pull and list | file, directory and link lists, one connection | recv, list, stat | the same |
| Installation (`client/adb_install.cpp`) | session ids, success flag | create, write, link, commit, abandon | the device's package manager |
| Command line (`client/commandline.cpp`) | the target while `root` changes it, timers of waits | one handler per command | all client parts |
| Bug reports | text | - | command line |
| USB | none: the platform files are empty in this port | - | - |

Where it is hard:

* four kinds of threads (clients, read and write threads of each connection, the
  reconnect handler, the looper) share transports, and nothing but the order of the
  looper's queue keeps a transport from being used after its deletion;
* the looper sleeps in poll and depends on a byte in a socket pair to be woken;
* connections drop at any time, are retried, and can be kicked during the retry;
* a forward and its transport point at each other and either may go first;
* the server is relaunched in a process that still holds the state of the first launch;
* push acknowledges late to be fast, over a connection with bounded buffers, where
  only the order says what a reply answers;
* a pull finds the shape of the remote tree as it goes, from a device that may fail in
  the middle of every answer;
* an installation takes many commands, each on a connection of its own;
* globals, caches and timers were written for a process that runs one command and exits,
  and here outlive it.

What makes each part correct is stated by the properties below.

## Modules

| module | models |
|---|---|
| `LooperQueue` | what `fdevent_run_on_looper` promises: every function once, in order, and not left behind by a loop that goes on |
| `FdeventLoop` | `fdevent_context` and `fdevent_context_poll` step by step; implements `LooperQueue` |
| `FdeventLoopProofs` | its theorems |
| `Transport` | the life of TCP transports across all threads; its `queue` is the queue of `LooperQueue` |
| `TransportProofs` | its theorems |
| `Listeners` | the listener list, its ties to transports, and a new launch of the server |
| `ListenersProofs` | its theorems |
| `Connection` | what a `Connection` promises its transport; what `Transport` takes for granted |
| `ConnectionThreads` | `BlockingConnectionAdapter` over `FdConnection`, thread by thread; implements `Connection` |
| `ConnectionThreadsProofs` | its theorems, the refinement of `Connection` among them |
| `HostClient` | a command on its way from the options to its device: target globals, requests, `acquire_one_transport`, feature cache, wait and retry |
| `ServerLaunch` | `adb_connect`, `launch_server` and `adb_server_main`, again and again in one process |
| `ServerLaunchProofs` | its theorems |
| `SyncPush` | `do_sync_push` against the device's sync service |
| `SyncPushProofs` | its theorems |
| `SyncPull` | `do_sync_pull` against the same |
| `SyncPullProofs` | its theorems |
| `InstallSessions` | `install-multiple` and `install-multi-package` against the device's package manager |
| `ClientProofs` | the theorems of `HostClient` and `InstallSessions`, both steps of client commands |
| `MC*` | instances for TLC |

**FdeventLoop.** `pc` is the looper's place in `Loop()`; `Run` and `TerminateLoop` are two
steps each, the change under the lock and the interrupt after it. The socket pair holds
`MaxInterrupt` bytes and a full one swallows the write, as EAGAIN does. One round of
polling records all events, restarts the timers of all of them and calls the handler of
the first one only, as `HandleEvents` does. Handlers and queued functions are steps in
which the looper is away (`callback`, `fn`), so that other threads, and they themselves,
may create and destroy descriptors meanwhile. Both calls belong to the looper while it is
in `Loop()`; before and after that any thread may `Destroy`, as the launching client does
in `close_smartsockets`.

**Transport.** `Connection::Stop` is one step: it joins both threads before it returns,
and what they post before they end they could have posted before Stop was called. That
this is all a transport sees of it is `ImplementsConnection` of `ConnectionThreads`.
`attached` abbreviates listeners and sockets that depend on a transport. The reconnect
handler has a step for each wait, its scan, and each result of `Reconnect()`; the wait
has no predicate in the code, so it may lose a notification and may return without one.
A read thread may post what it read behind the error that the write thread reported, and
a device may send any packet in any state; in TLS mode (`use_tls`, not tracked) A_AUTH
packets may be ignored. Two history variables name what such packets do: `late` holds the
transports whose packet the looper handled after the end of the connection it came from,
`stray` those that the default branch of A_AUTH put offline. The wait for the first
handshake is left out.

**Listeners.** All operations run on the looper, so one operation is one action. A port 0
is resolved to any free name, other programs take and free names (`ForeignBind`).
`Relaunch` does what a second `launch_server` does to this state: smart sockets are
closed, the event context is replaced with every fdevent in it, and the list of forwards
stays. A transport goes through the states that the looper gives it: registered, online
(`handle_new_connection`, which detaches the forwards of a transport that was not
offline), asked for a token, offline through the default branch of A_AUTH, offline at the
end of its connection, registered again after a reconnection, deleted. `ended` holds the
transports whose connection is over. `relaunched` and `astray` are history variables:
`astray` holds the transports that the default branch of A_AUTH, or a packet of an ended
connection, left in a state from which the next `handle_offline` does not detach.

**SyncPush.** The two directions of the connection are bounded queues in which a write
blocks. The device is external: it answers in order, writes a failure in two parts (the
comment in `ReadAcknowledgements` counts on this), and closes the connection after a
request that does not belong there. Data is abstracted to the identity of a file.
`ReplyFits` is about acknowledgements: the comment in `ReadAcknowledgements` promises
room for those, and an answer to an lstat may find none.

A `Job` is one call with its sources and whether it compares (`--sync`).

**SyncPull.** A path is the sequence of names from the source down. The client's steps are
its requests and the messages it reads: the stat of a source, the entries of a list, the
stat of every link the list had, the blocks of a file. `copy_remote_dir_local` lists the
whole tree, one stack for the recursion of `remote_build_list`, before it asks for a
file. The device is external; it answers in order, may break off any answer (`OrCutShort`),
may send what the client must refuse, and ends a file it can read with one ID_DONE. Links
may lead nowhere or back up; `MaxPath` stands for the 1024 bytes a request can carry,
which is what ends the recursion.

**ConnectionThreads.** One transport with its read thread, write thread, handshake thread
and two stoppers (a client in `kick_transport`, the looper in `transport_destroy`), with
`mutex_`, `transport_lock` and the condition variable. A critical section is one step,
but for the handshake, which keeps the mutex while it waits. `Stop` is one step per
call it makes, so that threads fail, post or wait between any two of them.

**HostClient.** The options become the globals (`SetTransport`); every request of the
command formats the globals anew (`msg`), the looper answers it in one step
(`Acquire`, translated from `acquire_one_transport` and `MatchesTarget`) and the command
goes on. Transports register, go offline, come back and get new ids between any two
requests. `acquire_one_transport` gives up `transport_lock` before it reads the state of
what it found; it is one step because the looper that runs it is also the only thread that
writes those states. A `serial` is a record of what the text after `-s` can be read as.
`sel` and `mixed` are history variables: the transport a command was given, and the
commands during which another thread set the globals. The commands with more than one
request (`shell`, `logcat`, `root`, `forward`, `wait`, `disconnect`, `reconnect`) have
their own steps, the others are one `service` or one `query`.

**ServerLaunch.** The steps of `launch_server` and of the threads it starts that other
threads can see: terminate, wait for the exit, cleanup, reset, pipe, thread, the OK on
the pipe. Contexts and pipes are numbered, since the statics that hold them are
overwritten. `FdeventLoop` is abstracted to entering, running what was posted, and
ending, which takes two steps as in `NotifyLoopExit`: the id is reset under the lock
(`ExitLoop`), the waiters are notified after it. A thread that uses a context after
`fdevent_reset` deleted it may go on or end the process (`UseDeletedContext`). Any number
of clients may be in `launch_server` at once, and the listening socket may be lost
(`LoseSocket`, as the system does to a suspended app) at any moment, before the loop is
entered too; a foreign server may hold the port. `hasty` is a history variable: some
launch began while another was under way, or before the last server was in its loop with
its socket enabled (`Settled`).

**InstallSessions.** Every command may be refused, may not be connected, or may be done
and its answer lost; `lost` is a history variable that records the last two. The package
manager is external: ending the parent session takes along the children linked to it.

## Runs

| run | checks | bounds, and why they are enough |
|---|---|---|
| `loop` | `TypeOK`, `NoLostWakeup`, `RunExactlyOnce`, `ImplementsLooperQueue`, `TerminationIsAnnounced` | one descriptor beside the interrupt, two functions, a socket pair of two bytes read one at a time: queued functions and the terminate flag compete for a full pair, bytes outlive a round, a busy descriptor with a smaller number delays the interrupt. The theorems drop these bounds |
| `transport_safe` | `TypeOK`, `OneHolder`, `WorkIsLive`, `RegistryConsistent` | two transport objects with one serial, the second refused or created after the first; one reconnection and one retry each; the read threads post while the queue is shorter than two |
| `transport_live` | `OnlyStrayIsLeft`, `KeysStartOver`, `ReconnectingIsOffline`, `DroppedIsResolved` | one device, two reconnections, two keys, with shutdown; three items of work in the queue, so that a packet stands behind an error and in front of the next registration |
| `transport_kicked` | `KickedIsFreed` is violated | one device, one reconnection |
| `listeners` | `TypeOK`, `DisconnectsMatch`, `ForwardTransportConnected`, `FirstLaunchIsBound` | four listener objects, three names, two transports: two forwards on either transport with a rebind between them, every state of both transports, and a second launch. The theorems drop these bounds |
| `push` | `SuccessIsStored`, `ReplyFits`, `FailureIsAttributed`, `FaultNeedsFailure`, `PushEnds` | three calls: a directory of three files, one large, then a large file; with `--sync`, a file and a directory, and two directories; two deferred acknowledgements (128 in the code) and a reply buffer of twice that, as the code's comment assumes; local errors. The lstat requests of a directory fit the connection |
| `pull` | `SuccessIsComplete`, `NoTruncatedFile`, `ParentIsMade`, `FaultIsEarned`, `PullEnds` | seven lists of sources over a directory with a file, a fifo, a good and a dangling link, one with a subdirectory and a link to it, one with a link to itself, one with nothing but a link to a directory, and single files, links and fifos; two blocks in a file, paths of three names, a reply buffer of one message: every answer can break off at every message, links chain, the recursion reaches its limit |
| `install` | `CommitIsWhole`, `SuccessIsInstalled`, `NothingLeftOpen` | four packages of three files, or one session of three files. The theorems drop these bounds |
| `connection` | `DeletedIsQuiet`, `ImplementsConnection`, `StopReturns` | three packets from the device, a write queue of one: both threads fail in either order, before, during and after both stoppers and the handshake |
| `client` | `RightDevice`, `RootWaitsForItsDevice`, `RetryGetsThrough` | one thread, two devices behind one address and of one product, five targets (none, `-t`, a serial, an address without port, a model), two ids, one change of state, two commands: ambiguous and unique matches, a device that comes back under a new id, a second command that finds what the first left behind. The theorems drop these bounds and allow any number of threads |
| `client_exit` | `ExitIsTimeout` is violated | the same |
| `launch` | `LoopHasContext`, `AckMeansListening`, `AbortIsForeign`, `CommandsEnd` | two clients, two commands, two losses of the socket, every kind of foreign server: a launch over no server, a live one, a dead socket and one that is still starting or leaving, and every way in which two clients overlap. The theorems drop these bounds |

Runs that end (`CHECK_DEADLOCK FALSE`): a loop exits, a server goes down or aborts, a
push, a pull and an install return; the application exits; a bounded supply of objects or
commands is used up.

`TypeOK` is checked where the proofs or other modules build on it (`loop`,
`transport_safe`, `listeners`); in the other modules it says what values the variables
take, and TLC confirms it on the same instances when it is added to their cfg.

**Fairness.** In `FdeventLoop` the looper is a thread that is scheduled and whose
handlers return, and a thread inside `Run` or `TerminateLoop` finishes the call. In
`Transport` the looper and the handler are scheduled, a blocking `Reconnect` returns, and
deadlines pass, so that a handler woken over and over with something queued takes it at
last (the one strong fairness). In `SyncPush` client and device run whenever they are not
blocked; the client's fairness is strong because the device may fill the reply queue
between two of its polls, and excludes `SendData`, for a file ends. In `SyncPull` client
and device run whenever they can. In `ConnectionThreads` every thread is scheduled, and
strongly fair where it competes for a mutex; a device in a handshake ends it. In
`HostClient` threads and looper are scheduled, and a device that is asked again and again
to open a service accepts at last (strong fairness of `OpenSucceeds`: the retry loop has
no other end). In `ServerLaunch` every thread is scheduled, and a foreign server exits
once it took `host:kill`. Nothing obliges
devices to send, connections to fail, users to act or waits to return without cause.

## Theorems

All are proved from the assumption named in the module (`FdeventAssumption`,
`TransportAssumption`, ...), for every value of the constants, and cover any number of
steps; none has a further hypothesis. Where the code keeps a promise only in part, the
exception is in the property, as a history variable that says what must have happened
(`late`, `stray`, `astray`, `hasty`, `mixed`); the Observations show that it does happen. The inductive
invariants were checked with TLC on the instances of the runs before they were proved.

* `FdeventLoopProofs`: `TypeCorrect`, `WakeupCorrect` (`NoLostWakeup`), `QueueCorrect`
  (`RunExactlyOnce`), `RefinesLooperQueue` (the safety part of `ImplementsLooperQueue`).
  `NoLostWakeup` speaks of a looper in poll and is not inductive; `WakeupInv` also covers
  the places from which the looper goes to poll without passing `FlushRunQueue`. The
  argument: a queue that is not empty has a function whose `Run` is still to interrupt,
  or an unread byte, or a looper that will flush before it polls again.
* `ListenersProofs`: `ListenersTypeCorrect`, `DisconnectsCorrect`, `ForwardsCorrect`,
  `BoundCorrect`. The strengthening is `SmartIsBound` (a smart socket has its descriptor
  and no transport), without which `close_smartsockets` could leave a pointer behind;
  `DisconnectsMatch` in turn is what `RunDisconnects` needs to take away every forward of
  a transport that goes offline. `ForwardsCorrect` follows the transports through the
  states in which their forwards may stay. The last two hold of a server that is launched once.
* `ClientProofs`, about `InstallSessions`: `CommitCorrect`, `SuccessCorrect`, `CleanupCorrect`. `Inv`
  says which packages are written at each step and what the success flag stands for
  (every file written, every child linked and open), so that the commit takes them all;
  `CleanInv` says that on a device that can be reached every open session is known to
  the client and, in the last loop, still to be abandoned.
* `TransportProofs`: `TransportTypeCorrect`, `OneHolderCorrect`, `WorkIsLiveCorrect` and
  `RegistryCorrect`, for any transports, serials, keys and numbers of attempts. `OneHolder`
  counts the hands a transport is in and says nothing of what a step takes out of them;
  `Inv` therefore names the hands (`HeldInv`, `OnceInv`), says that the queue has one
  function that decides about a transport and that a deletion is the last about it
  (`Ordered`), and what state a connection is in for each of them (`ConnInv`,
  `HandlerInv`). `WorkIsLive` is part of it: a function is posted only by the hand that
  holds the transport. `RegistryConsistent` also needs `PendingInv`: what is pending has
  its registration ahead of it. `ReconnectingCorrect`, `KeysCorrect` and `OnlyStrayCorrect`
  rest on what is left of a transport's state, keys and attachments when the error of its
  connection is behind it: all three are reset, unless a packet came after it.
* `ConnectionThreadsProofs`: `RefinesConnection` (each step of the three threads and the
  two stoppers is a step of `Connection` or none) and `DeletedCorrect`. The invariant
  says that whoever is inside `Stop` holds `transport_lock` (`LockInv`), how far a `Stop`
  has got for each state of the threads (`StopInv`), that a read thread started late can
  post nothing (`LateInv`), and that the end of the connection goes through the queue
  once, the removal of the transport behind everything else (`QueueInv`).
* `ServerLaunchProofs`: `LoopHasContextCorrect`, `AckMeansListeningCorrect` and
  `AbortIsForeignCorrect`, for any number of clients, commands, launches and losses at any
  time. As long as no launch was hasty one client at most is in `launch_server`, and
  `LaunchInv` ties its place to the place of the last server thread and of its notify
  thread; all earlier ones have left their loop.
* `ClientProofs`, about `HostClient`: `RightDeviceCorrect` and `RootWaitsCorrect`, for any devices and
  targets and any number of threads. `TargetsInv` says, for a thread whose globals nobody
  else has set since its command began, what the three globals
  hold at each place of each command: the options, but for the part of `adb_root` that
  works on a transport id. `AcquiredIsTheOne` is what `acquire_one_transport` computes.
* `SyncPushProofs`: `SuccessIsStoredCorrect`, `FaultNeedsFailureCorrect` and
  `ReplyFitsCorrect`, for any sources (a file may be in the list twice), local errors,
  failing device and capacities. For the first two, `PushInv`: as long as nothing has
  failed, a file the client is done with is stored, or is on its way, or its failure is,
  or the connection is gone (`SafeInv`); every reply on the way is one the client still
  waits for (`CountInv`); stat replies come in the order of the list and never together
  with acknowledgements (`KindInv`, `StatInv`). For `ReplyFits` this is not enough, since
  replies may be left over after a failure: `OpenInv` counts both parts of a failure
  (`BalanceInv`), bounds what is deferred (`LimitInv`) and orders the rest (`OrderInv`).
* `SyncPushProofs` also: `FailureIsAttributedCorrect`, for sources that name no file twice
  (`NamedOnce`). The replies, what the device is about to write, and the requests are one
  `Stream`. Every file has one *unit* in it: the request that ends the file, later its
  acknowledgement or the reason of its failure. `AnswerInv` says that the units of the
  outstanding files come in the order of `deferred_acknowledgements_`, each once, and that
  none is missing until the device closes; `FailedInv` that a file with a reason on its way
  is not stored, and the reported ones are not. A file could be stored again only if it
  were sent again: `AheadInv` says that what is still to be sent is neither outstanding nor
  reported. `GroupInv` and `BegunInv` say that a large file is written in one piece and
  begun once, so that the device refuses a request only behind a file given up halfway.
  From then on it is `Stuck`: nothing it waits for can come, it refuses everything, and the
  property, which excludes this case, is all that is claimed.
* `SyncPullProofs`: `PullTypeCorrect`, `PullFaultCorrect`, `PullFilesCorrect`,
  `PullParentCorrect` and `PullCompleteCorrect`, for any tree, sources, lengths of files
  and paths, and failures of either side. `WireInv` says what can be on the wire at every
  place of the client: the rest of the answer to its last request (`OnWire`), or, once a
  local failure has left data unread (`dirty`), that data in front (`Leftover`), which the
  next source takes for a stat. From this follow `FaultIsEarned` and, with the number of
  the next block in `DataWire`, `NoTruncatedFile` (`FilesInv`). `ParentInv` says that a
  directory is on the list of files in front of all that is in it, and that a link still
  to be resolved has its directory on the list. `CoverInv` carries `SuccessIsComplete`:
  while the pull succeeds, every path below a source is settled (a directory, complete on
  the disk, warned about, or the file at hand) or a prefix of it is still in a list, in
  a request or in the answer being read; and all below a source that is left is settled. The set `Wanted` is
  defined by a recursive function on lengths of paths, `Depth`. Its definition can only
  be unfolded where the function exists, and the induction theorem for that is out of
  reach; `DepthUnfolds` gets it from the least counterexample, through the approximations
  of `Depth` up to each length.

All invariants that the runs check are proved. Only model-checked is everything about
liveness (`TerminationIsAnnounced`, `DroppedIsResolved`, `PushEnds`, `PullEnds`,
`StopReturns`, `RetryGetsThrough`, `CommandsEnd`, the liveness part of
`ImplementsLooperQueue`), which is out of the prover's reach.

## Findings

The violation runs are disagreements between the code and what it says about itself; the
quotations are in `PROJECT.json`.

* `transport_kicked`: a disconnect during a reconnection attempt is lost, and no later
  disconnect has an effect.
* `client_exit`: `wait_for_device` starts a thread that ends the process when the time is
  over, and nothing cancels it; twelve seconds after a successful `root` the application
  is gone.

### Observations

TLC also refutes the following; the formulas are in the modules, no run is kept for them.

Event loop:
* `TimeoutGenerated`, with two descriptors: both time out in one round, the timers of both
  are restarted, and `HandleEvents` calls one handler (`fdevent.cpp:161`); `fdevent.h:93`
  says an FDE_TIMEOUT is generated.
* `TerminationIsAnnounced` without its exception, with `PollMayFail`: after a failed poll
  `Loop()` returns without `NotifyLoopExit`, and `WaitForLoopExit` waits for ever.

Transports and connections:
* `AttachedIsLive`: the default branch of A_AUTH puts a transport offline before
  `handle_offline` looks at that state (`adb.cpp:467`), so that nothing is detached, then or
  later, and it is deleted with listeners or sockets on it; `handle_offline` says that it
  detaches them "to avoid a race condition" (`adb.cpp:192`). A packet posted behind the
  error of its connection (`transport.cpp:1155`), which puts the transport online after its
  last `handle_offline`, has the same effect. `OnlyStrayIsLeft` says that these are the only
  two ways.
* `KeysStartOver` and `ReconnectingIsOffline` without `late`: an AUTH packet behind the error
  of its connection uses up keys after `ResetKeys`, and a transport waits for the reconnect
  handler in a state of its last connection.
* `ForwardsConnected` without `astray` (`Listeners`): a forward stays on a transport that the
  default branch of A_AUTH put offline (`adb.cpp:467`).
* `HandlerStops` (`Transport`, under `FairSpec`, `MayShutDown = TRUE`): the notification
  of `ReconnectHandler::Stop` is lost while the handler is not waiting, and the join waits
  for ever.
* `StoppedHasNoThreads`: `DoTlsHandshake` does not look at `stopped_`, and after `Stop` it
  starts a read thread that nobody joins. It finds the descriptor closed and posts
  nothing, which is why `ImplementsConnection` holds, but may outlive the transport
  (`late` in `DeletedIsQuiet`).
* A handshake keeps `mutex_` until the device has ended it; `Stop`, and through
  `transport_lock` every other operation on transports, waits that long.

Server launch:
* `ListenerIsBound` (`Listeners`): a second launch replaces the event context and leaves
  the forwards in the list; they listen nowhere, and a request for the same port is
  answered OK by rebinding the dead object (`main.cpp:281`).
* `SmartSocketStays` (`Listeners`): `killforward` of the server's own name removes its
  smart socket (`adb_listeners.cpp:150`).
* `HandlerRuns` (`ServerLaunch`): the reconnect handler is started once per process and
  stopped by the first cleanup, so after a relaunch nothing reconnects (`transport.cpp:789`).
* `LoopHasContext`, `AckMeansListening` and `AbortIsForeign` without `hasty`, with two
  clients: both are in `launch_server` at once, its statics have no lock, and one deletes
  the context under the other's server (`main.cpp:266`).
* `LoopIsWaitedFor`, with one client: the wait for the old loop's end looks at the looper's
  id, which a server that has not entered its loop has not set (`fdevent_poll.cpp:104`); the
  launch goes on and the loop runs on without its context, although `main.cpp:271` waits
  "for the fdevent loop to actually exit before destroying the context".
* `ContextOutlivesLoop`, in an orderly relaunch: `NotifyLoopExit` resets the id under the
  lock and notifies after the unlock (`fdevent.cpp:215`), and the launch that saw the reset
  may have deleted the condition variable by then (`fdevent.cpp:295`).

Commands and devices:
* `ProtocolIsSupported`: the features of the first device asked serve for all, so a device
  without shell_v2 is spoken to in it (`adb_client.cpp:437`).
* `RightDevice` without `mixed`, with two threads: a command's second request goes to the device another
  command has named meanwhile (`adb_client.cpp:58`).

File sync:
* A `push --sync` of two directories, the first of which failed, takes an acknowledgement
  for a stat reply and ends the process, blaming the device (`file_sync_client.cpp:893`
  and 486). `FaultNeedsFailure` states what does hold: without a failed file there is no
  such fault.
* `PushEnds` with more files in a directory than both directions of the connection hold
  lstat requests and replies: client and device wait for each other.
* `FailureIsAttributed` without `NamedOnce`: when a file is in the list twice its first copy
  may be stored and the second refused. With a large file left halfway on a local error
  (`recv` not empty), the complaint about the next request is reported for another file.
* `SuccessIsComplete` with one warning per path (`p \in warned` in place of `Warned(p)`):
  when the device goes away between the listing and the stat of a link to a directory, the
  link gets a warning, the pull goes on and returns true if nothing else is left to do, and
  nothing is said of what lies behind the link.
* `AttrsPreserved` (`SyncPull`): `pull -a` gives a file reached through a link the mode of
  the link and the time 0, for `remote_build_list` keeps only what the list said of it.

Read off the code while modelling, not properties: a push leaves out a subdirectory that
cannot be opened and a file that cannot be `lstat`ed without failing
(`file_sync_client.cpp:1338` and 1313), so that `SuccessIsStored` speaks of the files that
`local_build_list` listed; a link to a fifo is pulled although a
fifo is skipped; a local file that cannot be created or written leaves its data on the
connection in front of the next answer; a link whose stat cannot be sent is only warned
about; sources with the same last name overwrite each other; a second ID_DONE makes
`sync_recv_v2` return without removing the file; the callers of `adb_get_feature_set_or_die`
use the result of a function that no longer dies, without a test; the version check runs each time although
its comment says once per process (`adb_client.cpp:345`); `launch_server` ignores the
result of `pipe()` and never closes the end it reads.

## Not modelled, and the plan

Left to do, in this order:

1. The wait for the first handshake (`ConnectionWaitable`) and the device trackers
   (`transport.cpp:604-730`).
2. The single-package installation modes and their fallback.
3. The stream loops of the command line (shell protocol, sideload, backup).

Left out for good: USB (no code in this port), sockets (`asocket` is not in the
repository), mdns and the attach and detach of USB devices, bug reports, argument parsing
and listings (text without shared state), and the data of files, packages and packets.
