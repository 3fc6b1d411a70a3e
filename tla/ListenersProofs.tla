--------------------------- MODULE ListenersProofs ---------------------------
(***************************************************************************)
(* Proofs about Listeners, for any number of listeners, names and          *)
(* transports.  TypeOK needs that smart sockets keep their descriptor,     *)
(* which holds across launches because close_smartsockets runs before the  *)
(* context is replaced, and DisconnectsMatch that they have no transport   *)
(* (SmartIsBound).  What is said of forwards holds only of a server that   *)
(* is launched once.                                                       *)
(***************************************************************************)
EXTENDS Listeners, TLAPS

SmartIsBound == \A l \in list : Smart(l) => l \in open /\ tr[l] = None
Typed == TypeOK /\ SmartIsBound

\* Installing a listener keeps the types: the new object is in list, open and
\* used at once.
LEMMA NewListenerTyped ==
    ASSUME Typed, NEW n \in Names, NEW to \in Remotes \cup {"*smartsocket*"},
           NEW t \in Transports \cup {None}, NEW b \in BOOLEAN, NEW l \in Ids,
           to = "*smartsocket*" => t = None,
           NewListener(l, n, to, t, b), UNCHANGED <<trVars, foreign, up, relaunched>>
    PROVE  Typed'
BY DEF Typed, TypeOK, SmartIsBound, Smart, NewListener, trVars

\* Removing listeners keeps the types.
LEMMA EraseTyped ==
    ASSUME Typed, NEW S \in SUBSET list, Erase(S), UNCHANGED <<objVars, trVars, foreign, relaunched>>
    PROVE  Typed'
BY DEF Typed, TypeOK, SmartIsBound, Smart, Erase, Destroyed, objVars, trVars

\* What happens to a transport changes listeners only through its disconnects_.
TransportAction(t) ==
    \/ TransportAdded(t) \/ TransportOnline(t) \/ AuthToken(t) \/ AuthOther(t)
    \/ TransportOffline(t) \/ TransportAgain(t) \/ TransportDeleted(t)

LEMMA TransportActionDisconnects ==
    ASSUME NEW t, TransportAction(t)
    PROVE  UNCHANGED <<objVars, foreign>> /\ (NoDisconnects \/ RunDisconnects(t))
BY DEF TransportAction, TransportAdded, TransportOnline, AuthToken, AuthOther, TransportOffline,
       TransportAgain, TransportDeleted

TrTyped ==
    /\ status \in [Transports -> {"new", "offline", "online", "authorizing", "gone"}]
    /\ ended \subseteq Transports /\ astray \subseteq Transports

LEMMA TypedStep == Typed /\ [Next]_vars => Typed'
<1> SUFFICES ASSUME Typed, [Next]_vars PROVE Typed'
  OBVIOUS
<1> USE ListenersAssumption
<1>0. CASE Serve /\ UNCHANGED relaunched
  <2> USE <1>0
  <2>1. ASSUME NEW n \in Names \cup {"tcp:0"}, NEW to \in Remotes, NEW t \in Transports,
               ForwardNew(n, to, t)
        PROVE  Typed'
    <3>1. PICK l \in Ids, m \in Names : NewListener(l, m, to, t, TRUE)
      BY <2>1 DEF ForwardNew
    <3> QED
      BY <2>1, <3>1, NewListenerTyped DEF ForwardNew
  <2>2. ASSUME NEW n \in Names \cup {"tcp:0"}, NEW to \in Remotes, NEW t \in Transports,
               ForwardRebind(n, to, t)
        PROVE  Typed'
    BY <2>2 DEF Typed, TypeOK, SmartIsBound, Smart, ForwardRebind, Relink, At, trVars
  <2>3. CASE InstallSmartSocket
    BY <2>3, NewListenerTyped DEF InstallSmartSocket
  <2>4. CASE SmartSocketRefused
    BY <2>4 DEF Typed, TypeOK, SmartIsBound, Smart, SmartSocketRefused, objVars, trVars
  <2>5. CASE EnableServerSockets
    BY <2>5 DEF Typed, TypeOK, SmartIsBound, Smart, EnableServerSockets, objVars, trVars
  <2>6. ASSUME NEW n \in Names, RemoveListener(n) PROVE Typed'
    BY <2>6, EraseTyped DEF RemoveListener, At
  <2>7. ASSUME NEW n \in Names, ForeignBind(n) PROVE Typed'
    BY <2>7 DEF Typed, TypeOK, SmartIsBound, Smart, ForeignBind, objVars, trVars
  <2>8. CASE RemoveAllListeners
    BY <2>8, EraseTyped DEF RemoveAllListeners
  <2>9. ASSUME NEW t \in Transports, TransportAction(t) PROVE Typed'
    <3>1. TrTyped'
      BY <2>9 DEF Typed, TypeOK, TrTyped, TransportAction, TransportAdded, TransportOnline, AuthToken,
            AuthOther, TransportOffline, TransportAgain, TransportDeleted
    <3>2. UNCHANGED <<objVars, foreign, relaunched>> /\ (NoDisconnects \/ RunDisconnects(t))
      BY <2>9, TransportActionDisconnects
    <3> QED
      BY <3>1, <3>2 DEF Typed, TypeOK, TrTyped, SmartIsBound, Smart, NoDisconnects, RunDisconnects,
            Destroyed, objVars
  <2> QED
    BY <2>1, <2>2, <2>3, <2>4, <2>5, <2>6, <2>7, <2>8, <2>9 DEF Serve, TransportAction
<1>1. CASE Relaunch
  BY <1>1 DEF Typed, TypeOK, SmartIsBound, Smart, Relaunch, objVars
<1>2. CASE UNCHANGED vars
  BY <1>2 DEF Typed, TypeOK, SmartIsBound, Smart, vars
<1> QED
  BY <1>0, <1>1, <1>2 DEF Next

LEMMA InitTyped == Init => Typed
<1> SUFFICES ASSUME Init PROVE Typed
  OBVIOUS
<1>1. relaunched \in BOOLEAN
  BY Zenon DEF Init
<1>2. TypeOK
  BY <1>1, ListenersAssumption DEF Init, TypeOK
<1>3. SmartIsBound
  BY DEF Init, SmartIsBound
<1> QED
  BY <1>2, <1>3 DEF Typed

\* Every state of the server is well typed; in particular nothing is installed
\* in the event loop that is not in listener_list.
THEOREM ListenersTypeCorrect == Spec => []TypeOK
<1>1. Typed => TypeOK
  BY DEF Typed
<1> QED
  BY <1>1, InitTyped, TypedStep, PTL DEF Spec

------------------------------------------------------------------------------
LEMMA TypedAlways == Spec => []Typed
  BY InitTyped, TypedStep, PTL DEF Spec

LEMMA NewListenerMatches ==
    ASSUME TypeOK, DisconnectsMatch, NEW n, NEW to, NEW t, NEW b, NEW l \in Ids,
           NewListener(l, n, to, t, b)
    PROVE  DisconnectsMatch'
BY DEF TypeOK, DisconnectsMatch, NewListener

LEMMA EraseMatches ==
    ASSUME TypeOK, DisconnectsMatch, NEW S, Erase(S)
    PROVE  DisconnectsMatch'
BY DEF TypeOK, DisconnectsMatch, Erase

LEMMA RunDisconnectsMatches ==
    ASSUME TypeOK, DisconnectsMatch, NEW t \in Transports, RunDisconnects(t)
    PROVE  DisconnectsMatch'
<1>1. disc[t] = {l \in list : tr[l] = t}
  BY DEF DisconnectsMatch
<1>2. list' = {l \in list : tr[l] # t} /\ \A l \in list' : tr'[l] = tr[l]
  BY <1>1 DEF RunDisconnects, TypeOK
<1>3. ASSUME NEW u \in Transports PROVE disc'[u] = {l \in list' : tr'[l] = u}
  <2>1. CASE u = t
    BY <1>2, <2>1 DEF RunDisconnects, TypeOK
  <2>2. CASE u # t
    <3>1. disc'[u] = disc[u]
      BY <2>2 DEF RunDisconnects, TypeOK
    <3>2. disc[u] = {l \in list : tr[l] = u}
      BY DEF DisconnectsMatch
    <3> QED
      BY <1>2, <2>2, <3>1, <3>2
  <2> QED
    BY <2>1, <2>2
<1> QED
  BY <1>3 DEF DisconnectsMatch

LEMMA MatchStep == Typed /\ DisconnectsMatch /\ [Next]_vars => DisconnectsMatch'
<1> SUFFICES ASSUME TypeOK, SmartIsBound, DisconnectsMatch, [Next]_vars
             PROVE  DisconnectsMatch'
  BY DEF Typed
<1>1. ASSUME NEW n, NEW to, NEW t \in Transports, ForwardNew(n, to, t)
      PROVE  DisconnectsMatch'
  BY <1>1, NewListenerMatches DEF ForwardNew
<1>2. ASSUME NEW n, NEW to, NEW t \in Transports, ForwardRebind(n, to, t)
      PROVE  DisconnectsMatch'
  <2>1. PICK l \in list : /\ tr' = [tr EXCEPT ![l] = t]
                          /\ IF tr[l] = t THEN UNCHANGED disc ELSE Relink(l, t)
    BY <1>2 DEF ForwardRebind, At
  <2>2. list' = list
    BY <1>2 DEF ForwardRebind
  <2>3. CASE tr[l] = t
    BY <2>1, <2>2, <2>3 DEF TypeOK, DisconnectsMatch
  <2>4. CASE tr[l] # t
    BY <2>1, <2>2, <2>4 DEF TypeOK, DisconnectsMatch, Relink
  <2> QED
    BY <2>3, <2>4
<1>3. CASE InstallSmartSocket
  BY <1>3, NewListenerMatches DEF InstallSmartSocket
<1>4. ASSUME NEW n \in Names, RemoveListener(n) PROVE DisconnectsMatch'
  BY <1>4, EraseMatches DEF RemoveListener
<1>5. CASE RemoveAllListeners
  BY <1>5, EraseMatches DEF RemoveAllListeners
<1>6. ASSUME NEW t \in Transports, TransportAction(t) PROVE DisconnectsMatch'
  <2>1. CASE NoDisconnects
    BY <2>1 DEF NoDisconnects, DisconnectsMatch
  <2> QED
    BY <1>6, <2>1, TransportActionDisconnects, RunDisconnectsMatches
<1>7. CASE Relaunch
  \* Smart sockets, which go, point to no transport.
  BY <1>7, ListenersAssumption DEF Relaunch, DisconnectsMatch, SmartIsBound, Smart, TypeOK
<1>8. CASE UNCHANGED <<list, tr, disc>>
  BY <1>8 DEF DisconnectsMatch
<1> QED
  BY <1>1, <1>2, <1>3, <1>4, <1>5, <1>6, <1>7, <1>8
     DEF Next, Serve, vars, SmartSocketRefused, EnableServerSockets, ForeignBind, TransportAction

\* The pointers between listeners and transports agree in both directions, in
\* every sequence of forwards, rebinds, removals, disconnections and launches:
\* listener_disconnect is never called for a listener that is gone, and no
\* listener outlives the walk over its transport's disconnects_.
THEOREM DisconnectsCorrect == Spec => []DisconnectsMatch
<1>1. Init => DisconnectsMatch
  BY DEF Init, DisconnectsMatch
<1> QED
  BY <1>1, TypedAlways, MatchStep, PTL DEF Spec

------------------------------------------------------------------------------
(* A server that is launched once.                                         *)

\* A transport that is online after the end of its connection is astray.
Tracked == \A t \in ended : status[t] \in {"online", "authorizing"} => t \in astray

LEMMA TrackedStep == TypeOK /\ Tracked /\ [Next]_vars => Tracked'
<1> SUFFICES ASSUME TypeOK, Tracked, [Next]_vars PROVE Tracked'
  OBVIOUS
<1>1. ASSUME NEW t \in Transports, TransportAction(t) PROVE Tracked'
  BY <1>1 DEF Tracked, TypeOK, TransportAction, TransportAdded, TransportOnline, AuthToken, AuthOther,
        TransportOffline, TransportAgain, TransportDeleted
<1>2. CASE Relaunch
  BY <1>2 DEF Relaunch, Tracked, TypeOK
<1>3. CASE UNCHANGED trVars
  BY <1>3 DEF trVars, Tracked
<1> QED
  BY <1>1, <1>2, <1>3
     DEF Next, Serve, vars, trVars, ForwardNew, ForwardRebind, InstallSmartSocket, SmartSocketRefused,
         EnableServerSockets, RemoveListener, ForeignBind, RemoveAllListeners, TransportAction

LEMMA ConnectedStep ==
    Typed /\ Tracked /\ DisconnectsMatch /\ ForwardTransportConnected /\ [Next]_vars
        => ForwardTransportConnected'
<1> SUFFICES ASSUME TypeOK, Tracked, DisconnectsMatch, ForwardsConnected, Serve \/ UNCHANGED vars
             PROVE  ForwardsConnected'
  BY DEF Typed, Next, vars, Relaunch, ForwardTransportConnected
<1> USE DEF ForwardsConnected, Connected, Smart
<1>9. \A t \in Transports : status[t] = "online" => Connected(t) \/ t \in astray
  BY DEF Tracked
<1>1. ASSUME NEW n, NEW to \in Remotes, NEW t \in Transports, ForwardNew(n, to, t)
      PROVE  ForwardsConnected'
  BY <1>1, <1>9 DEF ForwardNew, NewListener, TypeOK, trVars
<1>2. ASSUME NEW n, NEW to \in Remotes, NEW t \in Transports, ForwardRebind(n, to, t)
      PROVE  ForwardsConnected'
  BY <1>2, <1>9 DEF ForwardRebind, TypeOK, At, trVars
<1>3. CASE InstallSmartSocket
  BY <1>3 DEF InstallSmartSocket, NewListener, TypeOK, trVars
<1>4. ASSUME NEW n \in Names, RemoveListener(n) PROVE ForwardsConnected'
  BY <1>4 DEF RemoveListener, Erase, objVars, trVars
<1>5. CASE RemoveAllListeners
  BY <1>5 DEF RemoveAllListeners, Erase, objVars, trVars
<1>6. ASSUME NEW t \in Transports, TransportAction(t) PROVE ForwardsConnected'
  <2>1. \A u \in Transports : u # t => /\ status'[u] = status[u]
                                       /\ u \in ended' => u \in ended
                                       /\ u \in astray => u \in astray'
    BY <1>6 DEF TransportAction, TransportAdded, TransportOnline, AuthToken, AuthOther,
          TransportOffline, TransportAgain, TransportDeleted, TypeOK
  <2>2. CASE RunDisconnects(t)
    <3>1. list' = {l \in list : tr[l] # t} /\ \A l \in list' : tr'[l] = tr[l]
      BY <2>2 DEF RunDisconnects, TypeOK, DisconnectsMatch
    <3>2. dest' = dest
      BY <1>6, TransportActionDisconnects DEF objVars
    <3> QED
      BY <2>1, <3>1, <3>2
  <2>3. CASE NoDisconnects /\ ~RunDisconnects(t)
    <3>1. UNCHANGED <<list, tr, dest>>
      BY <1>6, <2>3, TransportActionDisconnects DEF NoDisconnects, objVars
    <3>2. status[t] \notin {"new", "gone"} => Connected(t)' \/ t \in astray' \/ status[t] = "offline"
      BY <1>6, <2>3 DEF TransportAction, TransportAdded, TransportOnline, AuthToken, AuthOther,
            TransportOffline, TransportAgain, TransportDeleted, TypeOK, Tracked
    <3>3. t \in astray => t \in astray'
      BY <1>6, <2>3 DEF TransportAction, TransportAdded, TransportOnline, AuthToken, AuthOther,
            TransportOffline, TransportAgain, TransportDeleted
    <3> QED
      BY <2>1, <3>1, <3>2, <3>3
  <2> QED
    BY <1>6, <2>2, <2>3, TransportActionDisconnects
<1>7. CASE UNCHANGED <<list, dest, tr, status, ended, astray>>
  BY <1>7
<1> QED
  BY <1>1, <1>2, <1>3, <1>4, <1>5, <1>6, <1>7
     DEF Serve, vars, objVars, trVars, SmartSocketRefused, EnableServerSockets, ForeignBind,
         TransportAction

\* In a server that is launched once, a forward never names a transport that
\* is offline, without a connection or deleted, unless the transport went past
\* handle_offline: listener_event_func and format_listeners use the pointer
\* unchecked.
THEOREM ForwardsCorrect == Spec => []ForwardTransportConnected
<1>1. Init => ForwardTransportConnected /\ Tracked
  BY DEF Init, ForwardTransportConnected, ForwardsConnected, Tracked
<1>2. Typed => TypeOK
  BY DEF Typed
<1> QED
  BY <1>1, <1>2, TypedAlways, DisconnectsCorrect, ConnectedStep, TrackedStep, PTL DEF Spec

LEMMA BoundStep ==
    Typed /\ DisconnectsMatch /\ FirstLaunchIsBound /\ [Next]_vars => FirstLaunchIsBound'
<1> SUFFICES ASSUME TypeOK, DisconnectsMatch, ListenerIsBound, Serve \/ UNCHANGED vars
             PROVE  ListenerIsBound'
  BY DEF Typed, Next, vars, Relaunch, FirstLaunchIsBound
<1> USE DEF ListenerIsBound
<1>1. ASSUME NEW n, NEW to, NEW t, NEW l \in Ids, NEW m \in Names, NEW b,
             m \notin Bound, NewListener(l, m, to, t, b), UNCHANGED foreign
      PROVE  ListenerIsBound'
  BY <1>1 DEF NewListener, TypeOK, Bound
<1>2. ASSUME NEW n, NEW to, NEW t \in Transports, ForwardNew(n, to, t)
      PROVE  ListenerIsBound'
  BY <1>1, <1>2 DEF ForwardNew, Resolve
<1>3. ASSUME NEW n, NEW to, NEW t \in Transports, ForwardRebind(n, to, t)
      PROVE  ListenerIsBound'
  BY <1>3 DEF ForwardRebind
<1>4. CASE InstallSmartSocket
  BY <1>1, <1>4, ListenersAssumption DEF InstallSmartSocket
<1>5. ASSUME NEW n \in Names, RemoveListener(n) PROVE ListenerIsBound'
  BY <1>5 DEF RemoveListener, Erase, objVars
<1>6. CASE RemoveAllListeners
  BY <1>6 DEF RemoveAllListeners, Erase, objVars
<1>7. ASSUME NEW t \in Transports, TransportAction(t) PROVE ListenerIsBound'
  BY <1>7, TransportActionDisconnects DEF RunDisconnects, NoDisconnects, objVars
<1>8. ASSUME NEW n \in Names, ForeignBind(n) PROVE ListenerIsBound'
  BY <1>8 DEF ForeignBind, Bound, objVars
<1>9. CASE UNCHANGED <<list, name, open, foreign>>
  BY <1>9
<1> QED
  BY <1>2, <1>3, <1>4, <1>5, <1>6, <1>7, <1>8, <1>9
     DEF Serve, vars, objVars, SmartSocketRefused, EnableServerSockets, TransportAction

\* In a server that is launched once, listener_list and the event loop hold
\* the same listeners, under names of their own.
THEOREM BoundCorrect == Spec => []FirstLaunchIsBound
<1>1. Init => FirstLaunchIsBound
  BY DEF Init, FirstLaunchIsBound, ListenerIsBound
<1> QED
  BY <1>1, TypedAlways, DisconnectsCorrect, BoundStep, PTL DEF Spec
==============================================================================
