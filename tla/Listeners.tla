------------------------------ MODULE Listeners ------------------------------
(***************************************************************************)
(* The listeners of the server (adb_listeners.cpp) and what ties them to   *)
(* transports: a forward keeps a pointer to its transport, and the         *)
(* transport a pointer back in disconnects_, through which the forward is  *)
(* removed when handle_offline finds the transport in another state than   *)
(* offline.  Everything here runs on the looper; the difficulty is in      *)
(* sequences of calls, and of packets, some of which are handled after the *)
(* end of the connection they came from (Transport).                       *)
(*                                                                         *)
(* disconnects_ is a std::list; it is a set here because a listener is     *)
(* only ever added to a list it is not in (DisconnectsMatch).              *)
(***************************************************************************)
EXTENDS Naturals, FiniteSets

CONSTANTS
    Ids,         \* alistener objects, each allocated at most once
    Names,       \* local names: tcp:<port>
    Remotes,     \* destinations of forwards
    Transports,  \* atransport objects
    SmartName,   \* the server's own socket_spec
    None         \* nullptr

ASSUME ListenersAssumption ==
    /\ SmartName \in Names
    /\ "*smartsocket*" \notin Remotes
    /\ None \notin Transports

VARIABLES
    list,        \* listener_list
    used,        \* objects allocated so far
    name,        \* local_name
    dest,        \* connect_to
    tr,          \* transport
    open,        \* objects whose fde is installed in the current fdevent_context
    enabled,     \* those of them with FDE_READ set
    disc,        \* disconnects_ of each transport
    status,      \* connection_state_: "offline", "online", "authorizing" (or
                 \* unauthorized); "new" before and "gone" after its life
    ended,       \* transports whose connection is over, as transport_destroy saw
    astray,      \* history: transports that left the online state, or came back
                 \* to it after the end of a connection, unseen by handle_offline
    foreign,     \* names other programs have bound
    up,          \* the server: "starting", "up", "aborted"
    relaunched   \* history: launch_server was called again

vars == <<list, used, name, dest, tr, open, enabled, disc, status, ended, astray,
          foreign, up, relaunched>>
objVars == <<used, name, dest>>
trVars  == <<status, ended, astray>>

Smart(l) == dest[l] = "*smartsocket*"

TypeOK ==
    /\ list \subseteq used /\ used \subseteq Ids
    /\ name \in [Ids -> Names]
    /\ dest \in [Ids -> Remotes \cup {"*smartsocket*"}]
    /\ tr \in [Ids -> Transports \cup {None}]
    /\ enabled \subseteq open /\ open \subseteq list
    /\ disc \in [Transports -> SUBSET Ids]
    /\ status \in [Transports -> {"new", "offline", "online", "authorizing", "gone"}]
    /\ ended \subseteq Transports /\ astray \subseteq Transports
    /\ foreign \subseteq Names
    /\ up \in {"starting", "up", "aborted"}
    /\ relaunched \in BOOLEAN

Init ==
    /\ list = {} /\ used = {} /\ open = {} /\ enabled = {} /\ foreign = {}
    /\ ended = {} /\ astray = {}
    /\ name = [l \in Ids |-> SmartName]
    /\ dest = [l \in Ids |-> "*smartsocket*"]
    /\ tr = [l \in Ids |-> None]
    /\ disc = [t \in Transports |-> {}]
    /\ status = [t \in Transports |-> "new"]
    /\ up = "starting"
    /\ relaunched = FALSE

------------------------------------------------------------------------------
(* install_listener and its callers.                                       *)

Bound == {name[l] : l \in open} \cup foreign
At(n) == {l \in list : name[l] = n}

\* A mistake: the socket shares a name that is bound.
ResolveShared(n, m) == n = m \/ n = "tcp:0"

\* Port 0 is resolved by the kernel; any other name must be free.
Resolve(n, m) == m \notin Bound /\ (n = m \/ n = "tcp:0")

\* install_listener for a name nobody listens on: bind, create the fdevent,
\* link the new object to its transport.
NewListener(l, n, to, t, readable) ==
    /\ l \in Ids \ used
    /\ used' = used \cup {l}
    /\ list' = list \cup {l}
    /\ name' = [name EXCEPT ![l] = n]
    /\ dest' = [dest EXCEPT ![l] = to]
    /\ tr' = [tr EXCEPT ![l] = t]
    /\ open' = open \cup {l}
    /\ enabled' = IF readable THEN enabled \cup {l} ELSE enabled
    /\ disc' = [u \in Transports |-> IF u = t THEN disc[u] \cup {l} ELSE disc[u]]

\* forward:<local>;<remote>, first case: a new listener.
ForwardNew(n, to, t) ==
    /\ up = "up" /\ status[t] = "online"
    /\ At(n) = {}
    /\ \E l \in Ids, m \in Names : Resolve(n, m) /\ NewListener(l, m, to, t, TRUE)
    /\ UNCHANGED <<trVars, foreign, up>>

\* A mistake: the old transport keeps its pointer to the listener.
RebindLink(l, t) == disc' = [disc EXCEPT ![t] = @ \cup {l}]

\* RemoveDisconnect from the old transport, AddDisconnect to the new one.
Relink(l, t) ==
    disc' = [u \in Transports |-> IF u = t THEN disc[u] \cup {l} ELSE disc[u] \ {l}]

\* Second case: an existing forward is rebound, unless NO_REBIND was given; a
\* smart socket cannot be repurposed.
ForwardRebind(n, to, t) ==
    /\ up = "up" /\ status[t] = "online"
    /\ \E l \in At(n) :
          /\ ~Smart(l)
          /\ dest' = [dest EXCEPT ![l] = to]
          /\ tr' = [tr EXCEPT ![l] = t]
          /\ IF tr[l] = t THEN UNCHANGED disc ELSE Relink(l, t)
    /\ UNCHANGED <<list, used, name, open, enabled, trVars, foreign, up>>

\* adb_server_main: the smart socket is installed disabled.
InstallSmartSocket ==
    /\ up = "starting" /\ At(SmartName) = {} /\ SmartName \notin Bound
    /\ \E l \in Ids : NewListener(l, SmartName, "*smartsocket*", None, FALSE)
    /\ UNCHANGED <<trVars, foreign, up>>

\* The server dies when the name stays bound by another program (LOG(FATAL)),
\* and when a forward has it: the forward is rebound to no transport, and
\* AddDisconnect is called on nullptr.
SmartSocketRefused ==
    /\ up = "starting" /\ \A l \in At(SmartName) : ~Smart(l)
    /\ At(SmartName) # {} \/ SmartName \in Bound
    /\ up' = "aborted"
    /\ UNCHANGED <<list, objVars, tr, open, enabled, disc, trVars, foreign>>

\* enable_server_sockets, queued by the notify thread.
EnableServerSockets ==
    /\ up = "starting" /\ \E l \in list : Smart(l)
    /\ enabled' = enabled \cup {l \in list : Smart(l)}
    /\ up' = "up"
    /\ UNCHANGED <<list, objVars, tr, open, disc, trVars, foreign>>

------------------------------------------------------------------------------
(* Removal.                                                                *)

\* A mistake: the fdevent is not destroyed.
EraseLeaking(S) ==
    /\ list' = list \ S
    /\ disc' = [t \in Transports |-> disc[t] \ {l \in S : tr[l] = t}]
    /\ UNCHANGED <<open, enabled, tr, up>>

\* fdevent_destroy on a listener whose fdevent went with an old context: the
\* descriptor read from the freed object is installed nowhere, and CHECK_EQ
\* aborts.
Destroyed(S) == up' = IF S \subseteq open THEN up ELSE "aborted"

\* Erasing from listener_list runs ~alistener: the fdevent is destroyed, which
\* closes the socket, and the transport forgets the listener.
Erase(S) ==
    /\ list' = list \ S
    /\ open' = open \ S
    /\ enabled' = enabled \ S
    /\ disc' = [t \in Transports |-> disc[t] \ {l \in S : tr[l] = t}]
    /\ Destroyed(S)
    /\ UNCHANGED tr

\* killforward:<local>; whose forward it is does not matter.  (Two listeners
\* have one name only after a new launch; which is first is left open.)
RemoveListener(n) ==
    /\ up = "up"
    /\ \E l \in At(n) : Erase({l})
    /\ UNCHANGED <<objVars, trVars, foreign>>

\* killforward-all.
RemoveAllListeners ==
    /\ up = "up"
    /\ Erase({l \in list : ~Smart(l)})
    /\ UNCHANGED <<objVars, trVars, foreign>>

\* A mistake: the first disconnect function ends the walk.
RunDisconnectsFirst(t) ==
    LET some == CHOOSE S \in SUBSET disc[t] : Cardinality(S) <= 1 /\ (S = {} => disc[t] = {})
    IN  /\ list' = list \ some
        /\ open' = open \ some
        /\ enabled' = enabled \ some
        /\ tr' = [l \in Ids |-> IF l \in some THEN None ELSE tr[l]]
        /\ disc' = [disc EXCEPT ![t] = {}]
        /\ UNCHANGED up

\* atransport::RunDisconnects: listener_disconnect for each pointer, which
\* clears the listener's transport, so that its destructor leaves the list
\* being walked alone, and erases it; then the whole list is cleared.
RunDisconnects(t) ==
    /\ list' = list \ disc[t]
    /\ open' = open \ disc[t]
    /\ enabled' = enabled \ disc[t]
    /\ tr' = [l \in Ids |-> IF l \in disc[t] \cap list THEN None ELSE tr[l]]
    /\ disc' = [disc EXCEPT ![t] = {}]
    /\ Destroyed(disc[t])

------------------------------------------------------------------------------
(* Transports, the world, and a new launch of the server.                  *)

NoDisconnects == UNCHANGED <<list, tr, open, enabled, disc, up>>
Exists(t) == status[t] \in {"offline", "online", "authorizing"}

\* A transport is registered.
TransportAdded(t) ==
    /\ up = "up" /\ status[t] = "new"
    /\ status' = [status EXCEPT ![t] = "offline"]
    /\ NoDisconnects
    /\ UNCHANGED <<objVars, ended, astray, foreign>>

\* A_CNXN: handle_offline on a transport that is not offline, then online.
TransportOnline(t) ==
    /\ up = "up" /\ Exists(t)
    /\ status' = [status EXCEPT ![t] = "online"]
    /\ IF status[t] = "offline" THEN NoDisconnects ELSE RunDisconnects(t)
    /\ astray' = IF t \in ended THEN astray \cup {t}
                 ELSE IF status[t] = "offline" THEN astray ELSE astray \ {t}
    /\ UNCHANGED <<objVars, ended, foreign>>

\* A_AUTH with a token: no handle_offline, whatever the state was.
AuthToken(t) ==
    /\ up = "up" /\ Exists(t)
    /\ status' = [status EXCEPT ![t] = "authorizing"]
    /\ NoDisconnects
    /\ astray' = IF t \in ended THEN astray \cup {t} ELSE astray
    /\ UNCHANGED <<objVars, ended, foreign>>

\* A_AUTH of any other type: offline first, so that handle_offline returns early.
AuthOther(t) ==
    /\ up = "up" /\ Exists(t)
    /\ status' = [status EXCEPT ![t] = "offline"]
    /\ NoDisconnects
    /\ astray' = IF status[t] = "offline" THEN astray ELSE astray \cup {t}
    /\ UNCHANGED <<objVars, ended, foreign>>

\* The function HandleError queued: handle_offline and transport_destroy.
TransportOffline(t) ==
    /\ up = "up" /\ Exists(t) /\ t \notin ended
    /\ status' = [status EXCEPT ![t] = "offline"]
    /\ ended' = ended \cup {t}
    /\ IF status[t] = "offline" THEN NoDisconnects /\ UNCHANGED astray
                                ELSE RunDisconnects(t) /\ astray' = astray \ {t}
    /\ UNCHANGED <<objVars, foreign>>

\* fdevent_register_transport after Reconnect.
TransportAgain(t) ==
    /\ up = "up" /\ Exists(t) /\ t \in ended
    /\ ended' = ended \ {t}
    /\ NoDisconnects
    /\ UNCHANGED <<objVars, status, astray, foreign>>

\* fdevent_unregister_transport, of a transport whose connection is over.
TransportDeleted(t) ==
    /\ up = "up" /\ Exists(t) /\ t \in ended
    /\ status' = [status EXCEPT ![t] = "gone"]
    /\ NoDisconnects
    /\ UNCHANGED <<objVars, ended, astray, foreign>>

ForeignBind(n) ==
    /\ up # "aborted"
    /\ foreign' = IF n \in foreign THEN foreign \ {n} ELSE foreign \cup ({n} \ Bound)
    /\ UNCHANGED <<list, objVars, tr, open, enabled, disc, trVars, up>>

\* launch_server on a running server: close_smartsockets, then every transport
\* is kicked and dropped from the lists without handle_offline (the functions
\* that would call it are in the queue of the old fdevent_context), and
\* fdevent_reset destroys that context with every fdevent in it.
Relaunch ==
    /\ up = "up"
    /\ up' = "starting"
    /\ relaunched' = TRUE
    /\ list' = {l \in list : ~Smart(l)}
    /\ open' = {} /\ enabled' = {}
    /\ status' = [t \in Transports |-> IF status[t] = "new" THEN "new" ELSE "gone"]
    /\ UNCHANGED <<objVars, tr, disc, ended, astray, foreign>>

Serve ==
    \/ \E n \in Names \cup {"tcp:0"}, to \in Remotes, t \in Transports :
          ForwardNew(n, to, t) \/ ForwardRebind(n, to, t)
    \/ InstallSmartSocket \/ SmartSocketRefused \/ EnableServerSockets
    \/ \E n \in Names : RemoveListener(n) \/ ForeignBind(n)
    \/ RemoveAllListeners
    \/ \E t \in Transports :
          \/ TransportAdded(t) \/ TransportOnline(t) \/ AuthToken(t) \/ AuthOther(t)
          \/ TransportOffline(t) \/ TransportAgain(t) \/ TransportDeleted(t)

Next == (Serve /\ UNCHANGED relaunched) \/ Relaunch

Spec == Init /\ [][Next]_vars

------------------------------------------------------------------------------
(* Properties.                                                             *)

\* listener_disconnect and ~alistener reach exactly the right objects: the
\* pointers a transport keeps in disconnects_ are those of the listeners in
\* the list that point to it, none of them dangling, none missing.
DisconnectsMatch ==
    \A t \in Transports : disc[t] = {l \in list : tr[l] = t}

Connected(t) == status[t] \in {"online", "authorizing"} /\ t \notin ended

ForwardsConnected ==
    \A l \in list : ~Smart(l) => tr[l] \in Transports /\ (Connected(tr[l]) \/ tr[l] \in astray)

\* A forward's transport, which listener_event_func hands to every new socket
\* and format_listeners dereferences, has a connection and is not offline, in a
\* server that is launched once, unless the default branch of A_AUTH or a packet
\* of an ended connection took it past handle_offline.
ForwardTransportConnected == ~relaunched => ForwardsConnected

\* "A listener is an entity which binds to a local port": every listener in
\* the list has its descriptor in the event loop, and no two share a name.
ListenerIsBound ==
    /\ list = open
    /\ \A l, m \in list : name[l] = name[m] => l = m
    /\ \A l \in list : name[l] \notin foreign

\* The same of a server that is launched once: no sequence of forwards,
\* rebinds, removals and disconnections parts the list from the event loop.
FirstLaunchIsBound == ~relaunched => ListenerIsBound

\* remove_all_listeners: "Never remove smart sockets."  Once the server is up
\* it keeps a smart socket, enabled, until it is launched again.
SmartSocketStays == up = "up" => \E l \in list : Smart(l) /\ l \in enabled
==============================================================================
