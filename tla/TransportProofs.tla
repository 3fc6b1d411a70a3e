--------------------------- MODULE TransportProofs ---------------------------
(***************************************************************************)
(* Proofs about Transport, for every finite set of transports, every       *)
(* choice of serials and every number of attempts and keys.                *)
(***************************************************************************)
EXTENDS Transport, FiniteSetTheorems, SequenceTheorems, TLAPS

(* The inductive invariant, in parts.                                      *)

\* The functions in a queue, without their order.
Posts(q) == {q[i] : i \in DOMAIN q}

\* The four pairs of hands a transport can be in (Holders, as predicates).
Queued(k, t)    == Item(k, t) \in Posts(queue)
QueueHolds(t)   == Queued("register", t) \/ Queued("unregister", t) \/ Queued("error", t)
ConnHolds(t)    == conn[t] = "started" /\ ~flagged[t]
RqHolds(t)      == \E a \in rq : a.t = t
AttemptHolds(t) == \E a \in attempt : a.t = t

\* Some hand holds every live transport, and no hand a transport that is not.
Held(t) ==
    mem[t] = "live" <=> ConnHolds(t) \/ QueueHolds(t) \/ RqHolds(t) \/ AttemptHolds(t)
HeldInv == \A t \in Transports : Held(t)

\* The queue has no work about a transport that is not, packets included.
LiveInv == \A x \in Posts(queue) : mem[x.t] = "live"

\* No two hands hold one.
Once(t) ==
    /\ RqHolds(t) => ~AttemptHolds(t)
    /\ QueueHolds(t) => ~RqHolds(t) /\ ~AttemptHolds(t)
    /\ ConnHolds(t) => ~QueueHolds(t)
    /\ Queued("error", t) => ~Queued("unregister", t)
OnceInv == \A t \in Transports : Once(t)

\* A queue holds one function that decides about a transport, and the deletion
\* is the last function about it.
Decides(x) == x.kind \notin PacketKinds
Ordered(q) ==
    /\ \A i, j \in DOMAIN q : q[i].t = q[j].t /\ Decides(q[i]) /\ Decides(q[j]) => i = j
    /\ \A i, j \in DOMAIN q : q[i].kind = "unregister" /\ j > i => q[j].t # q[i].t

\* What each hand says about the connection.
Connected(t) ==
    /\ Queued("register", t) => conn[t] = "fresh"
    /\ Queued("error", t) => conn[t] # "fresh" /\ flagged[t]
    /\ Queued("unregister", t) => conn[t] = "stopped"
    /\ conn[t] = "fresh" => ~flagged[t]
    /\ conn[t] = "started" => mem[t] = "live"
    /\ mem[t] \in {"free", "new"} => conn[t] = "fresh"
    /\ RqHolds(t) \/ AttemptHolds(t) => conn[t] = "stopped"
ConnInv == \A t \in Transports : Connected(t)

\* The handler has one attempt under way and queues a transport once; the
\* server that serves has not stopped it.
HandlerInv ==
    /\ serving = "yes" => running
    /\ attempt # {} => hpc = "attempt"
    /\ \A a, b \in attempt : a = b
    /\ \A a, b \in rq : a.t = b.t => a = b

Inv == TypeOK /\ HeldInv /\ LiveInv /\ OnceInv /\ Ordered(queue) /\ ConnInv /\ HandlerInv

\* A transport that is still pending has its registration ahead of it.
PendingInv ==
    \A t \in pending : mem[t] = "live" => Queued("register", t)

\* When the end of a connection has been handled and no packet came late, the
\* transport is offline.
Over(t)  == conn[t] # "started" /\ ~Queued("error", t)
Quiet(t) == Over(t) /\ t \notin late => cstate[t] = "offline"
QuietInv == \A t \in Transports : Quiet(t)

\* A transport that something depends on is offline only if the default branch
\* of A_AUTH made it so.
AttachedInv == \A t \in attached : cstate[t] # "offline" \/ t \in stray

KeysInv ==
    \A t \in Transports :
        t \notin late /\ (conn[t] = "fresh" \/ RqHolds(t) \/ AttemptHolds(t)) => keys[t] = 0

------------------------------------------------------------------------------
(* The queue.                                                              *)

Kinds == {"register", "unregister", "error"} \cup PacketKinds

\* What Item makes is a function for the queue.
LEMMA ItemInWork ==
    ASSUME NEW k \in Kinds, NEW t \in Transports
    PROVE  Item(k, t) \in Work /\ Item(k, t).kind = k /\ Item(k, t).t = t
  BY DEF Item, Work, Kinds

\* r is q with one function of kind k for each transport of T after it.
Posted(q, r, k, T) ==
    /\ r \in Seq(Work)
    /\ \A i \in DOMAIN q : i \in DOMAIN r /\ r[i] = q[i]
    /\ \A i \in DOMAIN r \ DOMAIN q :
          (\A j \in DOMAIN q : j < i) /\ \E t \in T : r[i] = Item(k, t)
    /\ \A t \in T : \E i \in DOMAIN r \ DOMAIN q : r[i] = Item(k, t)
    /\ \A i, j \in DOMAIN r \ DOMAIN q : r[i] = r[j] => i = j

\* What is in the queue after a post,
LEMMA AppendPosts ==
    ASSUME NEW q \in Seq(Work), NEW k \in Kinds, NEW t \in Transports
    PROVE  Posted(q, Append(q, Item(k, t)), k, {t})
  <1> DEFINE x == Item(k, t)
             r == Append(q, x)
  <1>1. x \in Work
    BY ItemInWork
  <1> HIDE DEF x
  <1>3. /\ r \in Seq(Work)
        /\ \A i \in DOMAIN q : i \in DOMAIN r /\ r[i] = q[i]
        /\ \A i \in DOMAIN r \ DOMAIN q : (\A j \in DOMAIN q : j < i) /\ i = Len(q) + 1
        /\ Len(q) + 1 \in DOMAIN r \ DOMAIN q /\ r[Len(q) + 1] = x
    BY <1>1
  <1> HIDE DEF r
  <1>4. Posted(q, r, k, {t})
    BY <1>3 DEF Posted, x
  <1> QED BY <1>4 DEF r, x

\* after a kick, which posts the errors of the connections it stops,
LEMMA KickPosts ==
    ASSUME TypeOK, NEW S \in SUBSET Transports, Kick(S)
    PROVE  Posted(queue, queue', "error", {t \in S : ~kicked[t] /\ conn[t] = "started" /\ ~flagged[t]})
  <1> DEFINE stop == {t \in S : ~kicked[t] /\ conn[t] = "started"}
             tell == {t \in stop : ~flagged[t]}
             n == Cardinality(tell)
  <1>1. PICK s \in Orders(tell) : queue' = queue \o [i \in 1..n |-> Item("error", s[i])]
    BY DEF Kick
  <1>2. n \in Nat
    <2>1. IsFiniteSet(tell)
      BY TransportAssumption, FS_Subset
    <2> QED BY <2>1, FS_CardinalityType
  <1>3. tell = {t \in S : ~kicked[t] /\ conn[t] = "started" /\ ~flagged[t]} /\ tell \subseteq Transports
    OBVIOUS
  <1>4. /\ s \in [1..n -> tell]
        /\ \A x \in tell : \E i \in 1..n : s[i] = x
        /\ \A i, j \in 1..n : s[i] = s[j] => i = j
    BY <1>1 DEF Orders
  <1> HIDE DEF tell, n
  <1> DEFINE E == [i \in 1..n |-> Item("error", s[i])]
  <1>5. E \in Seq(Work) /\ Len(E) = n
    <2>1. \A i \in 1..n : Item("error", s[i]) \in Work
      BY <1>3, <1>4, ItemInWork DEF Kinds
    <2> QED BY <2>1, <1>2
  <1>6. \A i \in 1..n : E[i] = Item("error", s[i])
    OBVIOUS
  <1> HIDE DEF E
  <1>7. queue \in Seq(Work) /\ queue' = queue \o E
    BY <1>1 DEF TypeOK, E
  <1>8. /\ queue' \in Seq(Work) /\ Len(queue) \in Nat /\ DOMAIN queue = 1..Len(queue)
        /\ DOMAIN queue' = 1..(Len(queue) + n)
        /\ \A i \in 1..Len(queue) : queue'[i] = queue[i]
        /\ \A i \in 1..n : queue'[Len(queue) + i] = E[i]
    <2>1. /\ queue' \in Seq(Work) /\ Len(queue') = Len(queue) + n
          /\ \A i \in 1..(Len(queue) + n) :
                queue'[i] = IF i <= Len(queue) THEN queue[i] ELSE E[i - Len(queue)]
      BY <1>5, <1>7, ConcatProperties
    <2>2. Len(queue) \in Nat /\ DOMAIN queue = 1..Len(queue) /\ DOMAIN queue' = 1..Len(queue')
      BY <1>7, <2>1
    <2>3. ASSUME NEW i \in 1..n PROVE queue'[Len(queue) + i] = E[i]
      <3>1. Len(queue) + i \in 1..(Len(queue) + n) /\ ~(Len(queue) + i <= Len(queue))
            /\ (Len(queue) + i) - Len(queue) = i
        BY <2>2, <1>2
      <3> QED BY <2>1, <3>1
    <2> QED BY <1>2, <2>1, <2>2, <2>3
  <1>9. \A i \in DOMAIN queue' \ DOMAIN queue :
           /\ \A j \in DOMAIN queue : j < i
           /\ i - Len(queue) \in 1..n /\ queue'[i] = Item("error", s[i - Len(queue)])
    <2> SUFFICES ASSUME NEW i \in DOMAIN queue' \ DOMAIN queue
                 PROVE  /\ \A j \in DOMAIN queue : j < i
                        /\ i - Len(queue) \in 1..n /\ queue'[i] = Item("error", s[i - Len(queue)])
      OBVIOUS
    <2>1. (\A j \in DOMAIN queue : j < i) /\ i - Len(queue) \in 1..n /\ Len(queue) + (i - Len(queue)) = i
      BY <1>2, <1>8
    <2>2. queue'[i] = E[i - Len(queue)]
      BY <1>8, <2>1
    <2> QED BY <2>1, <2>2, <1>6
  <1>10. \A i \in 1..n : /\ Len(queue) + i \in DOMAIN queue' \ DOMAIN queue
                         /\ queue'[Len(queue) + i] = Item("error", s[i])
    BY <1>2, <1>6, <1>8
  <1>11. ASSUME NEW i \in DOMAIN queue' \ DOMAIN queue, NEW j \in DOMAIN queue' \ DOMAIN queue,
                queue'[i] = queue'[j]
         PROVE  i = j
    <2>1. s[i - Len(queue)] = s[j - Len(queue)]
      BY <1>9, <1>11, <1>4 DEF Item
    <2>2. i - Len(queue) = j - Len(queue)
      BY <2>1, <1>9, <1>4
    <2> QED BY <2>2, <1>8, <1>2
  <1>12. \A t \in tell : \E i \in DOMAIN queue' \ DOMAIN queue : queue'[i] = Item("error", t)
    BY <1>4, <1>10
  <1>13. \A i \in DOMAIN queue' \ DOMAIN queue : \E t \in tell : queue'[i] = Item("error", t)
    BY <1>9, <1>4
  <1>14. Posted(queue, queue', "error", tell)
    <2>1. /\ queue' \in Seq(Work)
          /\ \A i \in DOMAIN queue : i \in DOMAIN queue' /\ queue'[i] = queue[i]
      BY <1>2, <1>8
    <2> QED BY <2>1, <1>9, <1>11, <1>12, <1>13, Zenon DEF Posted
  <1> QED BY <1>14, <1>3

\* r is q without the function at its front.
Popped(q, r, k, t) ==
    /\ r \in Seq(Work)
    /\ 1 \in DOMAIN q /\ q[1] = Item(k, t)
    /\ \A i \in DOMAIN r : i \in Nat \ {0} /\ i + 1 \in DOMAIN q /\ r[i] = q[i + 1]
    /\ \A i \in DOMAIN q : i # 1 => i - 1 \in DOMAIN r /\ r[i - 1] = q[i]

\* and after the looper took its front.
LEMMA TakePops ==
    ASSUME queue \in Seq(Work), NEW k, NEW t, Take(k, t)
    PROVE  Popped(queue, Tail(queue), k, t)
  <1> DEFINE x == Item(k, t)
             r == Tail(queue)
  <1>1. queue # <<>> /\ Head(queue) = x
    BY DEF Take
  <1> HIDE DEF x
  <1>2. /\ Len(queue) \in Nat \ {0} /\ DOMAIN queue = 1..Len(queue) /\ Head(queue) = queue[1]
        /\ r \in Seq(Work) /\ DOMAIN r = 1..(Len(queue) - 1)
        /\ \A i \in 1..(Len(queue) - 1) : r[i] = queue[i + 1]
    BY <1>1
  <1> HIDE DEF r
  <1>3. \A i \in DOMAIN r : i \in Nat \ {0} /\ i + 1 \in DOMAIN queue /\ r[i] = queue[i + 1]
    BY <1>2
  <1>4. ASSUME NEW i \in DOMAIN queue, i # 1
        PROVE  i - 1 \in DOMAIN r /\ r[i - 1] = queue[i]
    <2>1. i - 1 \in 1..(Len(queue) - 1) /\ (i - 1) + 1 = i
      BY <1>2, <1>4
    <2> QED BY <2>1, <1>2
  <1>5. Popped(queue, r, k, t)
    BY <1>1, <1>2, <1>3, <1>4 DEF Popped, x
  <1> QED BY <1>5 DEF r

\* The functions in the longer and in the shorter queue.
LEMMA PostedSet ==
    ASSUME NEW q, NEW r, NEW k, NEW T, Posted(q, r, k, T)
    PROVE  Posts(r) = Posts(q) \cup {Item(k, t) : t \in T}
  <1>1. ASSUME NEW x \in Posts(r) PROVE x \in Posts(q) \cup {Item(k, t) : t \in T}
    <2>1. PICK i \in DOMAIN r : x = r[i]
      BY DEF Posts
    <2>2. CASE i \in DOMAIN q
      BY <2>1, <2>2 DEF Posted, Posts
    <2>3. CASE i \notin DOMAIN q
      BY <2>1, <2>3 DEF Posted
    <2> QED BY <2>2, <2>3
  <1>2. ASSUME NEW x \in Posts(q) PROVE x \in Posts(r)
    BY DEF Posted, Posts
  <1>3. ASSUME NEW t \in T PROVE Item(k, t) \in Posts(r)
    BY DEF Posted, Posts
  <1> QED BY <1>1, <1>2, <1>3

\* A post keeps the order when no other function decides about the transport.
LEMMA PostedOrdered ==
    ASSUME NEW q \in Seq(Work), Ordered(q), NEW k \in Kinds, NEW T \in SUBSET Transports,
           NEW r, Posted(q, r, k, T),
           \A t \in T : /\ Item("unregister", t) \notin Posts(q)
                        /\ k \notin PacketKinds => /\ Item("register", t) \notin Posts(q)
                                                   /\ Item("error", t) \notin Posts(q)
    PROVE  Ordered(r)
  <1>1. \A i \in DOMAIN q : i \in DOMAIN r /\ r[i] = q[i]
    BY DEF Posted
  <1>2. \A i \in DOMAIN r \ DOMAIN q :
           /\ \A j \in DOMAIN q : j < i
           /\ r[i].kind = k /\ r[i].t \in T
    BY ItemInWork DEF Posted
  <1>3. ASSUME NEW i \in DOMAIN q, q[i].t \in T
        PROVE  q[i].kind # "unregister" /\ (k \notin PacketKinds => ~Decides(q[i]))
    <2>1. q[i] \in Work
      OBVIOUS
    <2>2. q[i] = Item(q[i].kind, q[i].t) /\ q[i].kind \in Kinds
      BY <2>1 DEF Work, Item, Kinds
    <2>3. Item(q[i].kind, q[i].t) \in Posts(q)
      BY <2>2 DEF Posts
    <2> QED BY <1>3, <2>2, <2>3 DEF Decides, Kinds
  <1>4. \A i, j \in DOMAIN r \ DOMAIN q : r[i].t = r[j].t => i = j
    BY ItemInWork DEF Posted
  <1>5. DOMAIN r \subseteq Nat /\ DOMAIN q \subseteq Nat
    BY DEF Posted
  <1>6. ASSUME NEW i \in DOMAIN r, NEW j \in DOMAIN r, r[i].t = r[j].t, Decides(r[i]), Decides(r[j])
        PROVE  i = j
    <2>1. CASE i \in DOMAIN q /\ j \in DOMAIN q
      BY <1>1, <1>6, <2>1 DEF Ordered
    <2>2. CASE i \notin DOMAIN q /\ j \notin DOMAIN q
      BY <1>4, <1>6, <2>2
    <2>3. CASE i \in DOMAIN q /\ j \notin DOMAIN q
      BY <1>1, <1>2, <1>3, <1>6, <2>3 DEF Decides
    <2>4. CASE i \notin DOMAIN q /\ j \in DOMAIN q
      BY <1>1, <1>2, <1>3, <1>6, <2>4 DEF Decides
    <2> QED BY <2>1, <2>2, <2>3, <2>4
  <1>7. ASSUME NEW i \in DOMAIN r, NEW j \in DOMAIN r, r[i].kind = "unregister", j > i
        PROVE  r[j].t # r[i].t
    <2>1. CASE i \in DOMAIN q /\ j \in DOMAIN q
      BY <1>1, <1>7, <2>1 DEF Ordered
    <2>2. CASE i \notin DOMAIN q /\ j \notin DOMAIN q
      BY <1>4, <1>5, <1>7, <2>2
    <2>3. CASE i \in DOMAIN q /\ j \notin DOMAIN q
      BY <1>1, <1>2, <1>3, <1>7, <2>3
    <2>4. CASE i \notin DOMAIN q /\ j \in DOMAIN q
      BY <1>2, <1>5, <1>7, <2>4
    <2> QED BY <2>1, <2>2, <2>3, <2>4
  <1> QED BY <1>6, <1>7 DEF Ordered

\* What is left of the queue without its front.
LEMMA PoppedSet ==
    ASSUME NEW q \in Seq(Work), NEW k \in Kinds, NEW t \in Transports, NEW r, Popped(q, r, k, t)
    PROVE  /\ Item(k, t) \in Posts(q) /\ Posts(r) \subseteq Posts(q)
           /\ Posts(q) \subseteq Posts(r) \cup {Item(k, t)}
           /\ Ordered(q) => Ordered(r) /\ (k \notin PacketKinds => Item(k, t) \notin Posts(r))
  <1>1. DOMAIN q \subseteq Nat /\ DOMAIN r \subseteq Nat
    BY DEF Popped
  <1>2. \A i \in DOMAIN r : i + 1 \in DOMAIN q /\ r[i] = q[i + 1] /\ i + 1 # 1
    BY DEF Popped
  <1>3. Item(k, t) \in Posts(q) /\ Posts(r) \subseteq Posts(q)
    BY <1>2 DEF Posts, Popped
  <1>4. ASSUME NEW i \in DOMAIN q PROVE q[i] \in Posts(r) \cup {Item(k, t)}
    BY DEF Posts, Popped
  <1>5. ASSUME Ordered(q) PROVE Ordered(r)
    BY <1>1, <1>2, <1>5 DEF Ordered
  <1>6. ASSUME Ordered(q), k \notin PacketKinds, NEW i \in DOMAIN r PROVE r[i] # Item(k, t)
    <2>1. 1 \in DOMAIN q /\ q[1] = Item(k, t) /\ i + 1 \in DOMAIN q /\ r[i] = q[i + 1] /\ i + 1 # 1
      BY <1>2 DEF Popped
    <2> QED BY <1>6, <2>1, ItemInWork DEF Ordered, Decides
  <1> QED BY <1>3, <1>4, <1>5, <1>6 DEF Posts

------------------------------------------------------------------------------
(* Types.                                                                  *)

LEMMA KickTypes ==
    ASSUME TypeOK, NEW S \in SUBSET Transports, Kick(S)
    PROVE  /\ queue' \in Seq(Work)
           /\ conn' \in [Transports -> {"fresh", "started", "stopped"}]
           /\ flagged' \in [Transports -> BOOLEAN] /\ kicked' \in [Transports -> BOOLEAN]
  <1>1. queue' \in Seq(Work)
    BY KickPosts DEF Posted
  <1>2. conn' \in [Transports -> {"fresh", "started", "stopped"}]
    BY DEF Kick, TypeOK
  <1>3. flagged' \in [Transports -> BOOLEAN] /\ kicked' \in [Transports -> BOOLEAN]
    BY Zenon DEF Kick, TypeOK
  <1> QED BY <1>1, <1>2, <1>3

LEMMA TailTyped ==
    ASSUME queue \in Seq(Work), NEW k, NEW t, Take(k, t)
    PROVE  Tail(queue) \in Seq(Work)
  <1>1. queue # <<>>
    BY DEF Take
  <1> QED BY <1>1

LEMMA LooperTypes ==
    ASSUME TypeOK, NEW t \in Transports,
           \/ RegisterTransport(t) \/ UnregisterTransport(t) \/ TransportDestroy(t)
           \/ HandlePacket(t)
    PROVE  TypeOK'
  <1> USE TransportAssumption
  <1>1. ASSUME FlushOn PROVE flushing' \in BOOLEAN
    BY <1>1, Zenon DEF FlushOn
  <1>2. CASE RegisterTransport(t)
    BY <1>1, <1>2, TailTyped DEF RegisterTransport, TypeOK, objVars, handlerVars
  <1>3. CASE UnregisterTransport(t)
    BY <1>1, <1>3, TailTyped DEF UnregisterTransport, TypeOK, connVars, objVars, handlerVars
  <1>4. CASE TransportDestroy(t)
    <2> DEFINE x == Item("unregister", t)
               y == [t |-> t, left |-> MaxAttempts]
    <2>1. /\ x \in Work /\ Tail(queue) \in Seq(Work)
          /\ y \in Attempts
      BY <1>4, ItemInWork, TailTyped DEF TransportDestroy, Kinds, Attempts, TypeOK
    <2>2. /\ queue' \in Seq(Work) /\ rq' \subseteq Attempts
          /\ keys' \in [Transports -> 0..KeyCount]
          /\ hpc' \in {"top", "sleeping", "waiting", "woken", "attempt", "exited"}
      <3>1. CASE kicked[t]
        <4>1. queue' = Append(Tail(queue), x) /\ UNCHANGED <<keys, rq, hpc>>
          BY <1>4, <3>1 DEF TransportDestroy
        <4> HIDE DEF x, y
        <4> QED BY <2>1, <4>1 DEF TypeOK
      <3>2. CASE ~kicked[t]
        <4>1. queue' = Tail(queue) /\ ResetKeys(t) /\ rq' \subseteq rq \cup {y} /\ hpc' \in {hpc, Notified}
          BY <1>4, <3>2 DEF TransportDestroy
        <4> HIDE DEF x, y
        <4> QED BY <2>1, <4>1 DEF TypeOK, ResetKeys, Notified
      <3> QED BY <3>1, <3>2
    <2>3. /\ cstate' \in [Transports -> {"offline", "authorizing", "unauthorized", "device"}]
          /\ attached' \subseteq Transports /\ late' \subseteq Transports /\ stray' \subseteq Transports
          /\ conn' \in [Transports -> {"fresh", "started", "stopped"}]
      BY <1>4 DEF TransportDestroy, TypeOK, Offline, NoteEnd, Stop
    <2> QED BY <1>1, <1>4, <2>2, <2>3 DEF TransportDestroy, TypeOK, regVars
  <1>5. CASE HandleNewConnection(t)
    BY <1>1, <1>5, TailTyped DEF HandleNewConnection, TypeOK, regVars, connVars, handlerVars, NoteLate
  <1>6. CASE HandleAuthToken(t)
    <2>1. queue' \in Seq(Work) /\ flushing' \in BOOLEAN
      BY <1>1, <1>6, TailTyped DEF HandleAuthToken, TypeOK
    <2>2. keys' \in [Transports -> 0..KeyCount]
      BY <1>6 DEF HandleAuthToken, TypeOK
    <2> QED BY <1>6, <2>1, <2>2 DEF HandleAuthToken, TypeOK, regVars, connVars, handlerVars, NoteLate
  <1>7. CASE HandleAuthOther(t)
    BY <1>1, <1>7, TailTyped DEF HandleAuthOther, TypeOK, regVars, connVars, handlerVars, NoteLate, NoteStray
  <1>8. CASE HandleAuthIgnored(t)
    BY <1>1, <1>8, TailTyped DEF HandleAuthIgnored, TypeOK, regVars, connVars, objVars, handlerVars
  <1> QED BY <1>2, <1>3, <1>4, <1>5, <1>6, <1>7, <1>8 DEF HandlePacket

LEMMA HandlerTypes ==
    ASSUME TypeOK, Handler \/ Shutdown
    PROVE  TypeOK'
  <1> USE TransportAssumption
  <1>1. ASSUME NEW t \in Transports, NEW k \in Kinds, Post(k, t)
        PROVE  queue' \in Seq(Work)
    BY <1>1, AppendPosts DEF Post, Posted, TypeOK
  <1>2. "unregister" \in Kinds /\ "register" \in Kinds
    BY DEF Kinds
  <1>3. ASSUME NEW a \in Attempts PROVE a.t \in Transports /\ a.left \in 0..MaxAttempts
    BY <1>3 DEF Attempts
  <1>4. CASE HandlerWait \/ HandlerTimeout \/ HandlerSpurious \/ HandlerExit \/ HandlerAgain
    BY <1>4 DEF HandlerWait, HandlerTimeout, HandlerSpurious, HandlerExit, HandlerAgain,
                TypeOK, regVars, connVars, objVars
  <1>5. CASE HandlerTake
    BY <1>5 DEF HandlerTake, TypeOK, regVars, connVars, objVars
  <1>6. ASSUME NEW a \in rq, HandlerGiveUp(a) \/ DrainOne(a) PROVE TypeOK'
    <2>1. queue' \in Seq(Work)
      BY <1>1, <1>2, <1>3, <1>6 DEF HandlerGiveUp, DrainOne, TypeOK
    <2> QED BY <1>6, <2>1 DEF HandlerGiveUp, DrainOne, TypeOK, regVars, connVars, objVars
  <1>7. ASSUME NEW a \in attempt, ReconnectRetry(a) PROVE TypeOK'
    <2>1. a \in Attempts /\ a.t \in Transports /\ a.left \in 0..MaxAttempts
      BY <1>3 DEF TypeOK
    <2>2. CASE a.left = 0
      <3>1. queue' \in Seq(Work)
        BY <1>1, <1>2, <1>7, <2>1, <2>2 DEF ReconnectRetry
      <3> QED BY <1>7, <2>2, <3>1 DEF ReconnectRetry, AttemptOver, TypeOK, regVars, connVars, objVars
    <2>3. CASE a.left # 0
      <3>1. [a EXCEPT !.left = @ - 1] \in Attempts
        BY <2>1, <2>3 DEF Attempts
      <3> QED BY <1>7, <2>3, <3>1 DEF ReconnectRetry, AttemptOver, TypeOK, regVars, connVars, objVars
    <2> QED BY <2>2, <2>3
  <1>8. ASSUME NEW a \in attempt, ReconnectSuccess(a) PROVE TypeOK'
    <2>1. a.t \in Transports
      BY <1>3 DEF TypeOK
    <2>2. queue' \in Seq(Work)
      BY <1>1, <1>2, <1>8, <2>1 DEF ReconnectSuccess
    <2>3. opened' \in [Transports -> 0..MaxReconnects]
      BY <1>8, <2>1 DEF ReconnectSuccess, TypeOK
    <2>4. flagged' \in [Transports -> BOOLEAN]
      BY <1>8, <2>1, Zenon DEF ReconnectSuccess, TypeOK
    <2> QED BY <1>8, <2>1, <2>2, <2>3, <2>4 DEF ReconnectSuccess, AttemptOver, TypeOK, regVars, objVars
  <1>9. ASSUME NEW a \in attempt, ReconnectAbort(a) PROVE TypeOK'
    <2>1. queue' \in Seq(Work)
      BY <1>1, <1>2, <1>3, <1>9 DEF ReconnectAbort, TypeOK
    <2> QED BY <1>9, <2>1 DEF ReconnectAbort, AttemptOver, TypeOK, regVars, connVars, objVars
  <1>10. CASE StopHandler
    <2>1. running' \in BOOLEAN
      BY <1>10, Zenon DEF StopHandler
    <2> QED BY <1>10, <2>1 DEF StopHandler, Notified, TypeOK, regVars, connVars, objVars
  <1>11. CASE KickAllTransports
    <2>1. listed \in SUBSET Transports /\ Kick(listed)
      BY <1>11 DEF KickAllTransports, TypeOK
    <2> HIDE DEF Kick
    <2> QED BY <1>11, <2>1, KickTypes DEF KickAllTransports, TypeOK, regVars, handlerVars
  <1> QED BY <1>4, <1>5, <1>6, <1>7, <1>8, <1>9, <1>10, <1>11 DEF Handler, Shutdown

LEMMA ThreadTypes ==
    ASSUME TypeOK, Threads
    PROVE  TypeOK'
  <1>1. ASSUME NEW t \in Transports, Connect(t) PROVE TypeOK'
    BY <1>1 DEF Connect, TypeOK, connVars, objVars, handlerVars
  <1>2. ASSUME NEW t \in Transports, ConnectPost(t) PROVE TypeOK'
    <2>1. queue' \in Seq(Work)
      BY <1>2, AppendPosts DEF Post, ConnectPost, Posted, TypeOK, Kinds
    <2> QED BY <1>2, <2>1 DEF ConnectPost, TypeOK, connVars, objVars, handlerVars
  <1>3. ASSUME NEW t \in Transports, KickTransport(t) PROVE TypeOK'
    <2>1. {t} \cap listed \in SUBSET Transports /\ Kick({t} \cap listed)
      BY <1>3 DEF KickTransport, TypeOK
    <2> QED BY <1>3, <2>1, KickTypes DEF KickTransport, TypeOK, Notified, regVars
  <1>4. CASE KickAllTcpDevices
    <2>1. listed \in SUBSET Transports /\ Kick(listed)
      BY <1>4 DEF KickAllTcpDevices, TypeOK
    <2> QED BY <1>4, <2>1, KickTypes DEF KickAllTcpDevices, TypeOK, Notified, regVars
  <1>5. ASSUME NEW t \in Transports, Attach(t) PROVE TypeOK'
    BY <1>5 DEF Attach, TypeOK, regVars, connVars, handlerVars
  <1>6. ASSUME NEW t \in Transports, NEW k \in PacketKinds, HandleRead(t, k) PROVE TypeOK'
    <2>1. queue' \in Seq(Work)
      BY <1>6, AppendPosts DEF Post, HandleRead, Posted, TypeOK, Kinds
    <2> QED BY <1>6, <2>1 DEF HandleRead, TypeOK, regVars, connVars, objVars, handlerVars
  <1>7. ASSUME NEW t \in Transports, HandleError(t) PROVE TypeOK'
    <2>1. queue' \in Seq(Work)
      BY <1>7, AppendPosts DEF Post, HandleError, Posted, TypeOK, Kinds
    <2>2. flagged' \in [Transports -> BOOLEAN]
      BY <1>7, Zenon DEF HandleError, TypeOK
    <2> QED BY <1>7, <2>1, <2>2 DEF HandleError, TypeOK, regVars, objVars, handlerVars
  <1> QED BY <1>1, <1>2, <1>3, <1>4, <1>5, <1>6, <1>7 DEF Threads

LEMMA TypeOKInitially == Init => TypeOK
  <1> SUFFICES ASSUME Init PROVE TypeOK
    OBVIOUS
  <1>1. flagged \in [Transports -> BOOLEAN] /\ kicked \in [Transports -> BOOLEAN]
        /\ flushing \in BOOLEAN /\ running \in BOOLEAN
    BY Zenon DEF Init
  <1> QED BY <1>1, TransportAssumption DEF Init, TypeOK

LEMMA TypeOKInductive == TypeOK /\ [Next]_vars => TypeOK'
  <1> SUFFICES ASSUME TypeOK, [Next]_vars PROVE TypeOK'
    OBVIOUS
  <1>1. CASE Next
    BY <1>1, LooperTypes, HandlerTypes, ThreadTypes DEF Next, Looper
  <1>2. CASE UNCHANGED vars
    BY <1>2 DEF vars, TypeOK
  <1> QED BY <1>1, <1>2

\* Every variable keeps its type: the queue holds work about known transports
\* only, the counts of attempts, keys and connections keep their bounds.
THEOREM TransportTypeCorrect == Spec => []TypeOK
  BY TypeOKInitially, TypeOKInductive, PTL DEF Spec

------------------------------------------------------------------------------
(* Who holds a transport.                                                  *)

LEMMA ItemsDiffer ==
    \A k, t, l, u : /\ Item(k, t) = Item(l, u) <=> k = l /\ t = u
                    /\ Item(k, t).t = t /\ Item(k, t).kind = k
  BY DEF Item

LEMMA PostsInWork ==
    ASSUME NEW q \in Seq(Work), NEW x \in Posts(q)
    PROVE  x \in Work /\ x.t \in Transports /\ x.kind \in Kinds /\ x = Item(x.kind, x.t)
  <1>1. PICK i \in DOMAIN q : x = q[i]
    BY DEF Posts
  <1>2. x \in Work
    BY <1>1
  <1> QED BY <1>2 DEF Work, Kinds, Item

\* The looper takes a function off the queue.
LEMMA TakeEffect ==
    ASSUME Inv, NEW k \in Kinds, NEW t \in Transports, Take(k, t)
    PROVE  /\ Ordered(Tail(queue)) /\ Item(k, t) \in Posts(queue)
           /\ Posts(Tail(queue)) \subseteq Posts(queue)
           /\ Posts(queue) \subseteq Posts(Tail(queue)) \cup {Item(k, t)}
           /\ k \notin PacketKinds => Item(k, t) \notin Posts(Tail(queue))
           /\ Tail(queue) \in Seq(Work)
  <1>1. queue \in Seq(Work) /\ Ordered(queue)
    BY DEF Inv, TypeOK
  <1>2. Popped(queue, Tail(queue), k, t)
    BY <1>1, TakePops
  <1> QED BY <1>1, <1>2, PoppedSet, TailTyped

\* fdevent_register_transport: from the queue to the connection.
LEMMA RegisterKeepsInv ==
    ASSUME Inv, NEW t \in Transports, RegisterTransport(t)
    PROVE  HeldInv' /\ LiveInv' /\ OnceInv' /\ Ordered(queue)' /\ ConnInv' /\ HandlerInv'
  <1>1. /\ Posts(queue') = Posts(queue) \ {Item("register", t)} /\ Ordered(queue)'
        /\ Queued("register", t)
    BY TakeEffect DEF RegisterTransport, Kinds, PacketKinds, Queued
  <1>2. /\ conn' = [conn EXCEPT ![t] = "started"]
        /\ UNCHANGED <<mem, flagged, rq, attempt, hpc, running, serving>>
    BY DEF RegisterTransport, handlerVars
  <1>3. TypeOK /\ HeldInv /\ LiveInv /\ OnceInv /\ ConnInv /\ HandlerInv
    BY DEF Inv
  <1>4. ASSUME NEW u \in Transports PROVE Held(u)' /\ Once(u)' /\ Connected(u)'
    <2>1. /\ (Queued("register", u)' <=> Queued("register", u) /\ u # t)
          /\ (Queued("unregister", u)' <=> Queued("unregister", u))
          /\ (Queued("error", u)' <=> Queued("error", u))
          /\ (RqHolds(u)' <=> RqHolds(u))
          /\ (AttemptHolds(u)' <=> AttemptHolds(u))
          /\ (ConnHolds(u)' <=> ConnHolds(u) \/ u = t)
      BY <1>1, <1>2, <1>3, ItemsDiffer DEF Queued, RqHolds, AttemptHolds, ConnHolds,
            ConnInv, Connected, TypeOK
    <2>2. Held(u) /\ Once(u) /\ Connected(u)
      BY <1>3 DEF HeldInv, OnceInv, ConnInv
    <2>3. Held(u)'
      BY <1>1, <1>2, <1>3, <2>1, <2>2 DEF Held, Once, Connected, QueueHolds, TypeOK
    <2>4. Once(u)'
      BY <1>1, <2>1, <2>2 DEF Held, Once, Connected, QueueHolds, ConnHolds
    <2>5. Connected(u)'
      BY <1>1, <1>2, <1>3, <2>1, <2>2 DEF Held, Once, Connected, QueueHolds, ConnHolds, TypeOK
    <2> QED BY <2>3, <2>4, <2>5
  <1>5. LiveInv'
    BY <1>1, <1>2, <1>3, PostsInWork, ItemsDiffer DEF LiveInv, HeldInv, Held, QueueHolds, Queued,
          TypeOK
  <1>6. HandlerInv'
    BY <1>2, <1>3 DEF HandlerInv
  <1> QED BY <1>1, <1>4, <1>5, <1>6 DEF HeldInv, OnceInv, ConnInv

\* fdevent_unregister_transport deletes what no other hand holds.
LEMMA UnregisterKeepsInv ==
    ASSUME Inv, NEW t \in Transports, UnregisterTransport(t)
    PROVE  HeldInv' /\ LiveInv' /\ OnceInv' /\ Ordered(queue)' /\ ConnInv' /\ HandlerInv'
  <1>1. /\ Posts(queue') = Posts(queue) \ {Item("unregister", t)} /\ Ordered(queue)'
        /\ Queued("unregister", t) /\ \A x \in Posts(queue') : x.t # t
    <2>1. /\ Posts(queue') = Posts(queue) \ {Item("unregister", t)} /\ Ordered(queue)'
          /\ Queued("unregister", t)
      BY TakeEffect DEF UnregisterTransport, Kinds, PacketKinds, Queued
    <2>2. Popped(queue, queue', "unregister", t) /\ Ordered(queue) /\ queue \in Seq(Work)
      BY TakePops DEF UnregisterTransport, Inv, TypeOK
    <2>3. ASSUME NEW i \in DOMAIN queue' PROVE queue'[i].t # t
      <3>1. /\ 1 \in DOMAIN queue /\ queue[1] = Item("unregister", t) /\ i + 1 > 1
            /\ i + 1 \in DOMAIN queue /\ queue'[i] = queue[i + 1]
        BY <2>2 DEF Popped
      <3> QED BY <2>2, <3>1 DEF Ordered, Item
    <2> QED BY <2>1, <2>3 DEF Posts
  <1>2. /\ mem' = [mem EXCEPT ![t] = "deleted"]
        /\ UNCHANGED <<conn, flagged, rq, attempt, hpc, running, serving>>
    BY DEF UnregisterTransport, handlerVars, connVars
  <1>3. TypeOK /\ HeldInv /\ LiveInv /\ OnceInv /\ ConnInv /\ HandlerInv
    BY DEF Inv
  <1>4. ASSUME NEW u \in Transports PROVE Held(u)' /\ Once(u)' /\ Connected(u)'
    <2>1. /\ (Queued("register", u)' <=> Queued("register", u))
          /\ (Queued("unregister", u)' <=> Queued("unregister", u) /\ u # t)
          /\ (Queued("error", u)' <=> Queued("error", u))
          /\ (RqHolds(u)' <=> RqHolds(u))
          /\ (AttemptHolds(u)' <=> AttemptHolds(u))
          /\ (ConnHolds(u)' <=> ConnHolds(u))
      BY <1>1, <1>2, <1>3, ItemsDiffer DEF Queued, RqHolds, AttemptHolds, ConnHolds,
            ConnInv, Connected, TypeOK
    <2>2. Held(u) /\ Once(u) /\ Connected(u)
      BY <1>3 DEF HeldInv, OnceInv, ConnInv
    <2>3. Held(u)'
      BY <1>1, <1>2, <1>3, <2>1, <2>2 DEF Held, Once, Connected, QueueHolds, TypeOK
    <2>4. Once(u)'
      BY <1>1, <2>1, <2>2 DEF Held, Once, Connected, QueueHolds, ConnHolds
    <2>5. Connected(u)'
      BY <1>1, <1>2, <1>3, <2>1, <2>2 DEF Held, Once, Connected, QueueHolds, ConnHolds, TypeOK
    <2> QED BY <2>3, <2>4, <2>5
  <1>5. LiveInv'
    BY <1>1, <1>2, <1>3, PostsInWork, ItemsDiffer DEF LiveInv, HeldInv, Held, QueueHolds, Queued,
          TypeOK
  <1>6. HandlerInv'
    BY <1>2, <1>3 DEF HandlerInv
  <1> QED BY <1>1, <1>4, <1>5, <1>6 DEF HeldInv, OnceInv, ConnInv

\* transport_destroy of a kicked transport: its deletion is posted.
LEMMA DestroyKickedKeepsInv ==
    ASSUME Inv, NEW t \in Transports, TransportDestroy(t), kicked[t]
    PROVE  HeldInv' /\ LiveInv' /\ OnceInv' /\ Ordered(queue)' /\ ConnInv' /\ HandlerInv'
  <1>1. /\ Posts(queue') = (Posts(queue) \ {Item("error", t)}) \cup {Item("unregister", t)}
        /\ Ordered(queue)' /\ Queued("error", t)
    <2>1. Take("error", t) /\ queue' = Append(Tail(queue), Item("unregister", t))
      BY DEF TransportDestroy
    <2> DEFINE r == Tail(queue)
    <2>2. /\ Posts(r) = Posts(queue) \ {Item("error", t)} /\ Ordered(r)
          /\ Queued("error", t) /\ r \in Seq(Work)
      BY <2>1, TakeEffect DEF Kinds, PacketKinds, Queued
    <2>3. Posted(r, queue', "unregister", {t})
      BY <2>1, <2>2, AppendPosts DEF Kinds
    <2>4. /\ Item("register", t) \notin Posts(r)
          /\ Item("unregister", t) \notin Posts(r)
          /\ Item("error", t) \notin Posts(r)
      BY <2>2 DEF Inv, OnceInv, Once, ConnInv, Connected, Queued
    <2> HIDE DEF r
    <2>5. Ordered(queue')
      <3>1. {t} \in SUBSET Transports /\ "unregister" \in Kinds
        BY DEF Kinds
      <3> QED BY <2>2, <2>3, <2>4, <3>1, PostedOrdered
    <2>6. Posts(queue') = Posts(r) \cup {Item("unregister", t)}
      BY <2>3, PostedSet
    <2> QED BY <2>2, <2>5, <2>6
  <1>2. /\ conn' = [conn EXCEPT ![t] = "stopped"]
        /\ UNCHANGED <<mem, flagged, rq, attempt, hpc, running, serving>>
    <2>1. conn[t] \in {"started", "stopped"}
      BY <1>1 DEF Inv, ConnInv, Connected, TypeOK
    <2> QED BY <2>1 DEF TransportDestroy, Stop, regVars
  <1>3. TypeOK /\ HeldInv /\ LiveInv /\ OnceInv /\ ConnInv /\ HandlerInv
    BY DEF Inv
  <1>4. ASSUME NEW u \in Transports PROVE Held(u)' /\ Once(u)' /\ Connected(u)'
    <2>1. /\ (Queued("register", u)' <=> Queued("register", u))
          /\ (Queued("unregister", u)' <=> Queued("unregister", u) \/ u = t)
          /\ (Queued("error", u)' <=> Queued("error", u) /\ u # t)
          /\ (RqHolds(u)' <=> RqHolds(u))
          /\ (AttemptHolds(u)' <=> AttemptHolds(u))
          /\ (ConnHolds(u)' <=> ConnHolds(u))
      BY <1>1, <1>2, <1>3, ItemsDiffer DEF Queued, RqHolds, AttemptHolds, ConnHolds,
            ConnInv, Connected, TypeOK
    <2>2. Held(u) /\ Once(u) /\ Connected(u)
      BY <1>3 DEF HeldInv, OnceInv, ConnInv
    <2>3. Held(u)'
      BY <1>1, <1>2, <1>3, <2>1, <2>2 DEF Held, Once, Connected, QueueHolds, TypeOK
    <2>4. Once(u)'
      BY <1>1, <2>1, <2>2 DEF Held, Once, Connected, QueueHolds, ConnHolds
    <2>5. Connected(u)'
      BY <1>1, <1>2, <1>3, <2>1, <2>2 DEF Held, Once, Connected, QueueHolds, ConnHolds, TypeOK
    <2> QED BY <2>3, <2>4, <2>5
  <1>5. LiveInv'
    BY <1>1, <1>2, <1>3, PostsInWork, ItemsDiffer DEF LiveInv, HeldInv, Held, QueueHolds, Queued,
          TypeOK
  <1>6. HandlerInv'
    BY <1>2, <1>3 DEF HandlerInv
  <1> QED BY <1>1, <1>4, <1>5, <1>6 DEF HeldInv, OnceInv, ConnInv

\* transport_destroy of any other: it goes to the reconnect queue, which still
\* takes it because the looper runs.
LEMMA DestroyKeepsInv ==
    ASSUME Inv, NEW t \in Transports, TransportDestroy(t), ~kicked[t]
    PROVE  HeldInv' /\ LiveInv' /\ OnceInv' /\ Ordered(queue)' /\ ConnInv' /\ HandlerInv'
  <1> DEFINE y == [t |-> t, left |-> MaxAttempts]
  <1>1. /\ Posts(queue') = Posts(queue) \ {Item("error", t)} /\ Ordered(queue)'
        /\ Queued("error", t)
    <2>1. Take("error", t) /\ queue' = Tail(queue)
      BY DEF TransportDestroy
    <2> QED BY <2>1, TakeEffect DEF Kinds, PacketKinds, Queued
  <1>2. /\ conn' = [conn EXCEPT ![t] = "stopped"] /\ rq' = rq \cup {y} /\ y.t = t
        /\ hpc' = Notified
        /\ UNCHANGED <<mem, flagged, attempt, running, serving>>
    <2>1. conn[t] \in {"started", "stopped"}
      BY <1>1 DEF Inv, ConnInv, Connected, TypeOK
    <2>2. running
      BY DEF TransportDestroy, Take, Inv, HandlerInv
    <2> QED BY <2>1, <2>2 DEF TransportDestroy, Stop, regVars
  <1> HIDE DEF y
  <1>3. TypeOK /\ HeldInv /\ LiveInv /\ OnceInv /\ ConnInv /\ HandlerInv
    BY DEF Inv
  <1>4. ASSUME NEW u \in Transports PROVE Held(u)' /\ Once(u)' /\ Connected(u)'
    <2>1. /\ (Queued("register", u)' <=> Queued("register", u))
          /\ (Queued("unregister", u)' <=> Queued("unregister", u))
          /\ (Queued("error", u)' <=> Queued("error", u) /\ u # t)
          /\ (RqHolds(u)' <=> RqHolds(u) \/ u = t)
          /\ (AttemptHolds(u)' <=> AttemptHolds(u))
          /\ (ConnHolds(u)' <=> ConnHolds(u))
      BY <1>1, <1>2, <1>3, ItemsDiffer DEF Queued, RqHolds, AttemptHolds, ConnHolds,
            ConnInv, Connected, TypeOK
    <2>2. Held(u) /\ Once(u) /\ Connected(u)
      BY <1>3 DEF HeldInv, OnceInv, ConnInv
    <2>3. Held(u)'
      BY <1>1, <1>2, <1>3, <2>1, <2>2 DEF Held, Once, Connected, QueueHolds, TypeOK
    <2>4. Once(u)'
      BY <1>1, <2>1, <2>2 DEF Held, Once, Connected, QueueHolds, ConnHolds
    <2>5. Connected(u)'
      BY <1>1, <1>2, <1>3, <2>1, <2>2 DEF Held, Once, Connected, QueueHolds, ConnHolds, TypeOK
    <2> QED BY <2>3, <2>4, <2>5
  <1>5. LiveInv'
    BY <1>1, <1>2, <1>3, PostsInWork, ItemsDiffer DEF LiveInv, HeldInv, Held, QueueHolds, Queued,
          TypeOK
  <1>6. HandlerInv'
    BY <1>1, <1>2, <1>3 DEF HandlerInv, Notified, OnceInv, Once, QueueHolds, RqHolds
  <1> QED BY <1>1, <1>4, <1>5, <1>6 DEF HeldInv, OnceInv, ConnInv

\* Packets change no hands.
LEMMA PacketKeepsInv ==
    ASSUME Inv, NEW t \in Transports,
           HandlePacket(t)
    PROVE  HeldInv' /\ LiveInv' /\ OnceInv' /\ Ordered(queue)' /\ ConnInv' /\ HandlerInv'
  <1>1. PICK k \in PacketKinds : Take(k, t) /\ queue' = Tail(queue)
    BY DEF HandlePacket, HandleNewConnection, HandleAuthToken, HandleAuthOther, HandleAuthIgnored, PacketKinds
  <1>2. /\ Ordered(queue') /\ Posts(queue') \subseteq Posts(queue)
        /\ Posts(queue) \subseteq Posts(queue') \cup {Item(k, t)}
    BY <1>1, TakeEffect DEF Kinds
  <1>3. UNCHANGED <<mem, conn, flagged, rq, attempt, hpc, running, serving>>
    BY DEF HandlePacket, HandleNewConnection, HandleAuthToken, HandleAuthOther, HandleAuthIgnored, regVars, connVars, handlerVars
  <1>4. ASSUME NEW u \in Transports
        PROVE  /\ Queued("register", u)' <=> Queued("register", u)
               /\ Queued("unregister", u)' <=> Queued("unregister", u)
               /\ Queued("error", u)' <=> Queued("error", u)
    BY <1>2, ItemsDiffer DEF Queued, PacketKinds
  <1> QED BY <1>2, <1>3, <1>4 DEF Inv, HeldInv, Held, LiveInv, OnceInv, Once, ConnInv, Connected, HandlerInv,
          QueueHolds, RqHolds, AttemptHolds, ConnHolds

\* A function is put on the queue.
LEMMA PostEffect ==
    ASSUME Inv, NEW k \in Kinds, NEW t \in Transports, Post(k, t), ~Queued("unregister", t),
           k \notin PacketKinds => ~QueueHolds(t)
    PROVE  Posts(queue') = Posts(queue) \cup {Item(k, t)} /\ Ordered(queue)'
  <1>1. queue \in Seq(Work) /\ Ordered(queue) /\ {t} \in SUBSET Transports
    BY DEF Inv, TypeOK
  <1>2. Posted(queue, queue', k, {t})
    BY <1>1, AppendPosts DEF Post
  <1>3. Posts(queue') = Posts(queue) \cup {Item(k, t)}
    BY <1>2, PostedSet
  <1>4. Ordered(queue')
    BY <1>1, <1>2, PostedOrdered DEF QueueHolds, Queued
  <1> QED BY <1>3, <1>4

\* register_transport: from the caller to the queue.
LEMMA ConnectPostKeepsInv ==
    ASSUME Inv, NEW t \in Transports, ConnectPost(t)
    PROVE  HeldInv' /\ LiveInv' /\ OnceInv' /\ Ordered(queue)' /\ ConnInv' /\ HandlerInv'
  <1>1. /\ Posts(queue') = Posts(queue) \cup {Item("register", t)} /\ Ordered(queue)'
        /\ mem[t] = "new"
    <2>1. mem[t] = "new" /\ Post("register", t) /\ "register" \in Kinds
      BY DEF ConnectPost, Kinds
    <2>2. ~QueueHolds(t)
      BY <2>1 DEF Inv, HeldInv, Held
    <2> QED BY <2>1, <2>2, PostEffect DEF QueueHolds
  <1>2. /\ mem' = [mem EXCEPT ![t] = "live"]
        /\ UNCHANGED <<conn, flagged, rq, attempt, hpc, running, serving>>
    BY DEF ConnectPost, connVars, handlerVars
  <1>3. TypeOK /\ HeldInv /\ LiveInv /\ OnceInv /\ ConnInv /\ HandlerInv
    BY DEF Inv
  <1>4. ASSUME NEW u \in Transports PROVE Held(u)' /\ Once(u)' /\ Connected(u)'
    <2>1. /\ (Queued("register", u)' <=> Queued("register", u) \/ u = t)
          /\ (Queued("unregister", u)' <=> Queued("unregister", u))
          /\ (Queued("error", u)' <=> Queued("error", u))
          /\ (RqHolds(u)' <=> RqHolds(u))
          /\ (AttemptHolds(u)' <=> AttemptHolds(u))
          /\ (ConnHolds(u)' <=> ConnHolds(u))
      BY <1>1, <1>2, <1>3, ItemsDiffer DEF Queued, RqHolds, AttemptHolds, ConnHolds,
            ConnInv, Connected, TypeOK
    <2>2. Held(u) /\ Once(u) /\ Connected(u)
      BY <1>3 DEF HeldInv, OnceInv, ConnInv
    <2>3. Held(u)'
      BY <1>1, <1>2, <1>3, <2>1, <2>2 DEF Held, Once, Connected, QueueHolds, TypeOK
    <2>4. Once(u)'
      BY <1>1, <2>1, <2>2 DEF Held, Once, Connected, QueueHolds, ConnHolds
    <2>5. Connected(u)'
      BY <1>1, <1>2, <1>3, <2>1, <2>2 DEF Held, Once, Connected, QueueHolds, ConnHolds, TypeOK
    <2> QED BY <2>3, <2>4, <2>5
  <1>5. LiveInv'
    BY <1>1, <1>2, <1>3, PostsInWork, ItemsDiffer DEF LiveInv, HeldInv, Held, QueueHolds, Queued,
          TypeOK
  <1>6. HandlerInv'
    BY <1>2, <1>3 DEF HandlerInv
  <1> QED BY <1>1, <1>4, <1>5, <1>6 DEF HeldInv, OnceInv, ConnInv

\* A read thread posts a packet.
LEMMA ReadKeepsInv ==
    ASSUME Inv, NEW t \in Transports, NEW k \in PacketKinds, HandleRead(t, k)
    PROVE  HeldInv' /\ LiveInv' /\ OnceInv' /\ Ordered(queue)' /\ ConnInv' /\ HandlerInv'
  <1>1. /\ Posts(queue') = Posts(queue) \cup {Item(k, t)} /\ Ordered(queue)'
        /\ conn[t] = "started" /\ k \notin {"register", "unregister", "error"}
    <2>1. conn[t] = "started" /\ Post(k, t) /\ k \in Kinds
      BY DEF HandleRead, Kinds
    <2>2. ~Queued("unregister", t)
      BY <2>1 DEF Inv, ConnInv, Connected
    <2> QED BY <2>1, <2>2, PostEffect DEF PacketKinds
  <1>2. UNCHANGED <<mem, conn, flagged, rq, attempt, hpc, running, serving>>
    BY DEF HandleRead, regVars, connVars, handlerVars
  <1>3. TypeOK /\ HeldInv /\ LiveInv /\ OnceInv /\ ConnInv /\ HandlerInv
    BY DEF Inv
  <1>4. ASSUME NEW u \in Transports PROVE Held(u)' /\ Once(u)' /\ Connected(u)'
    <2>1. /\ (Queued("register", u)' <=> Queued("register", u))
          /\ (Queued("unregister", u)' <=> Queued("unregister", u))
          /\ (Queued("error", u)' <=> Queued("error", u))
          /\ (RqHolds(u)' <=> RqHolds(u))
          /\ (AttemptHolds(u)' <=> AttemptHolds(u))
          /\ (ConnHolds(u)' <=> ConnHolds(u))
      BY <1>1, <1>2, <1>3, ItemsDiffer DEF Queued, RqHolds, AttemptHolds, ConnHolds,
            ConnInv, Connected, TypeOK
    <2>2. Held(u) /\ Once(u) /\ Connected(u)
      BY <1>3 DEF HeldInv, OnceInv, ConnInv
    <2>3. Held(u)'
      BY <1>1, <1>2, <1>3, <2>1, <2>2 DEF Held, Once, Connected, QueueHolds, TypeOK
    <2>4. Once(u)'
      BY <1>1, <2>1, <2>2 DEF Held, Once, Connected, QueueHolds, ConnHolds
    <2>5. Connected(u)'
      BY <1>1, <1>2, <1>3, <2>1, <2>2 DEF Held, Once, Connected, QueueHolds, ConnHolds, TypeOK
    <2> QED BY <2>3, <2>4, <2>5
  <1>5. LiveInv'
    BY <1>1, <1>2, <1>3, ItemsDiffer DEF LiveInv, ConnInv, Connected
  <1>6. HandlerInv'
    BY <1>2, <1>3 DEF HandlerInv
  <1> QED BY <1>1, <1>4, <1>5, <1>6 DEF HeldInv, OnceInv, ConnInv

\* The error of a connection: from its threads to the queue.
LEMMA ErrorKeepsInv ==
    ASSUME Inv, NEW t \in Transports, HandleError(t)
    PROVE  HeldInv' /\ LiveInv' /\ OnceInv' /\ Ordered(queue)' /\ ConnInv' /\ HandlerInv'
  <1>1. /\ Posts(queue') = Posts(queue) \cup {Item("error", t)} /\ Ordered(queue)'
        /\ ConnHolds(t)
    <2>1. ConnHolds(t) /\ Post("error", t) /\ "error" \in Kinds
      BY DEF HandleError, Kinds, ConnHolds
    <2>2. ~QueueHolds(t)
      BY <2>1 DEF Inv, OnceInv, Once
    <2> QED BY <2>1, <2>2, PostEffect DEF QueueHolds
  <1>2. /\ flagged' = [flagged EXCEPT ![t] = TRUE]
        /\ UNCHANGED <<mem, conn, rq, attempt, hpc, running, serving>>
    BY DEF HandleError, regVars, handlerVars
  <1>3. TypeOK /\ HeldInv /\ LiveInv /\ OnceInv /\ ConnInv /\ HandlerInv
    BY DEF Inv
  <1>4. ASSUME NEW u \in Transports PROVE Held(u)' /\ Once(u)' /\ Connected(u)'
    <2>1. /\ (Queued("register", u)' <=> Queued("register", u))
          /\ (Queued("unregister", u)' <=> Queued("unregister", u))
          /\ (Queued("error", u)' <=> Queued("error", u) \/ u = t)
          /\ (RqHolds(u)' <=> RqHolds(u))
          /\ (AttemptHolds(u)' <=> AttemptHolds(u))
          /\ (ConnHolds(u)' <=> ConnHolds(u) /\ u # t)
      BY <1>1, <1>2, <1>3, ItemsDiffer DEF Queued, RqHolds, AttemptHolds, ConnHolds,
            ConnInv, Connected, TypeOK
    <2>2. Held(u) /\ Once(u) /\ Connected(u)
      BY <1>3 DEF HeldInv, OnceInv, ConnInv
    <2>3. Held(u)'
      BY <1>1, <1>2, <1>3, <2>1, <2>2 DEF Held, Once, Connected, QueueHolds, TypeOK
    <2>4. Once(u)'
      BY <1>1, <2>1, <2>2 DEF Held, Once, Connected, QueueHolds, ConnHolds
    <2>5. Connected(u)'
      BY <1>1, <1>2, <1>3, <2>1, <2>2 DEF Held, Once, Connected, QueueHolds, ConnHolds, TypeOK
    <2> QED BY <2>3, <2>4, <2>5
  <1>5. LiveInv'
    BY <1>1, <1>2, <1>3, PostsInWork, ItemsDiffer DEF LiveInv, HeldInv, Held, QueueHolds, Queued,
          TypeOK
  <1>6. HandlerInv'
    BY <1>2, <1>3 DEF HandlerInv
  <1> QED BY <1>1, <1>4, <1>5, <1>6 DEF HeldInv, OnceInv, ConnInv

\* The handler gives a transport up, or Stop drains it.
LEMMA GiveUpKeepsInv ==
    ASSUME Inv, NEW a \in rq, HandlerGiveUp(a) \/ DrainOne(a)
    PROVE  HeldInv' /\ LiveInv' /\ OnceInv' /\ Ordered(queue)' /\ ConnInv' /\ HandlerInv'
  <1>1. /\ Posts(queue') = Posts(queue) \cup {Item("unregister", a.t)} /\ Ordered(queue)'
        /\ a.t \in Transports /\ RqHolds(a.t)
    <2>1. a.t \in Transports /\ RqHolds(a.t) /\ Post("unregister", a.t) /\ "unregister" \in Kinds
      BY DEF HandlerGiveUp, DrainOne, Kinds, RqHolds, Inv, TypeOK, Attempts
    <2>2. ~QueueHolds(a.t)
      BY <2>1 DEF Inv, OnceInv, Once
    <2> QED BY <2>1, <2>2, PostEffect DEF QueueHolds
  <1>2. /\ rq' = rq \ {a}
        /\ UNCHANGED <<mem, conn, flagged, attempt, hpc, running, serving>>
    BY DEF HandlerGiveUp, DrainOne, regVars, connVars
  <1>3. TypeOK /\ HeldInv /\ LiveInv /\ OnceInv /\ ConnInv /\ HandlerInv
    BY DEF Inv
  <1>4. ASSUME NEW u \in Transports PROVE Held(u)' /\ Once(u)' /\ Connected(u)'
    <2>1. /\ (Queued("register", u)' <=> Queued("register", u))
          /\ (Queued("unregister", u)' <=> Queued("unregister", u) \/ u = a.t)
          /\ (Queued("error", u)' <=> Queued("error", u))
          /\ (RqHolds(u)' <=> RqHolds(u) /\ u # a.t)
          /\ (AttemptHolds(u)' <=> AttemptHolds(u))
          /\ (ConnHolds(u)' <=> ConnHolds(u))
      BY <1>1, <1>2, <1>3, ItemsDiffer DEF Queued, RqHolds, AttemptHolds, ConnHolds,
            ConnInv, Connected, TypeOK, HandlerInv
    <2>2. Held(u) /\ Once(u) /\ Connected(u)
      BY <1>3 DEF HeldInv, OnceInv, ConnInv
    <2>3. Held(u)'
      BY <1>1, <1>2, <1>3, <2>1, <2>2 DEF Held, Once, Connected, QueueHolds, TypeOK
    <2>4. Once(u)'
      BY <1>1, <2>1, <2>2 DEF Held, Once, Connected, QueueHolds, ConnHolds
    <2>5. Connected(u)'
      BY <1>1, <1>2, <1>3, <2>1, <2>2 DEF Held, Once, Connected, QueueHolds, ConnHolds, TypeOK
    <2> QED BY <2>3, <2>4, <2>5
  <1>5. LiveInv'
    BY <1>1, <1>2, <1>3, PostsInWork, ItemsDiffer DEF LiveInv, HeldInv, Held, QueueHolds, Queued,
          TypeOK
  <1>6. HandlerInv'
    BY <1>2, <1>3 DEF HandlerInv
  <1> QED BY <1>1, <1>4, <1>5, <1>6 DEF HeldInv, OnceInv, ConnInv

\* HandlerTake, for the attempt it takes.
LEMMA TakeAttemptKeepsInv ==
    ASSUME Inv, NEW a \in rq, hpc # "attempt", rq' = rq \ {a}, attempt' = {a}, hpc' = "attempt",
           UNCHANGED <<regVars, connVars, objVars, queue, running, serving, flushing>>
    PROVE  HeldInv' /\ LiveInv' /\ OnceInv' /\ Ordered(queue)' /\ ConnInv' /\ HandlerInv'
  <1>1. /\ Ordered(queue)' /\ a.t \in Transports /\ RqHolds(a.t) /\ attempt = {}
    BY DEF Inv, RqHolds, HandlerInv, TypeOK, Attempts
  <1>2. UNCHANGED <<mem, conn, flagged, queue, running, serving>>
    BY DEF regVars, connVars
  <1>3. TypeOK /\ HeldInv /\ LiveInv /\ OnceInv /\ ConnInv /\ HandlerInv
    BY DEF Inv
  <1>4. ASSUME NEW u \in Transports PROVE Held(u)' /\ Once(u)' /\ Connected(u)'
    <2>1. /\ (Queued("register", u)' <=> Queued("register", u))
          /\ (Queued("unregister", u)' <=> Queued("unregister", u))
          /\ (Queued("error", u)' <=> Queued("error", u))
          /\ (RqHolds(u)' <=> RqHolds(u) /\ u # a.t)
          /\ (AttemptHolds(u)' <=> u = a.t)
          /\ (ConnHolds(u)' <=> ConnHolds(u))
          /\ ~AttemptHolds(u)
      BY <1>1, <1>2, <1>3, ItemsDiffer DEF Queued, RqHolds, AttemptHolds, ConnHolds,
            ConnInv, Connected, TypeOK, HandlerInv
    <2>2. Held(u) /\ Once(u) /\ Connected(u)
      BY <1>3 DEF HeldInv, OnceInv, ConnInv
    <2>3. Held(u)'
      BY <1>1, <1>2, <1>3, <2>1, <2>2 DEF Held, Once, Connected, QueueHolds, TypeOK
    <2>4. Once(u)'
      BY <1>1, <2>1, <2>2 DEF Held, Once, Connected, QueueHolds, ConnHolds
    <2>5. Connected(u)'
      BY <1>1, <1>2, <1>3, <2>1, <2>2 DEF Held, Once, Connected, QueueHolds, ConnHolds, TypeOK
    <2> QED BY <2>3, <2>4, <2>5
  <1>5. LiveInv'
    BY <1>2, <1>3 DEF LiveInv
  <1>6. HandlerInv'
    BY <1>2, <1>3 DEF HandlerInv
  <1> QED BY <1>1, <1>4, <1>5, <1>6 DEF HeldInv, OnceInv, ConnInv

\* Reconnect() aborts, or fails for the last time.
LEMMA LastAttemptKeepsInv ==
    ASSUME Inv, NEW a \in attempt, (ReconnectRetry(a) /\ a.left = 0) \/ ReconnectAbort(a)
    PROVE  HeldInv' /\ LiveInv' /\ OnceInv' /\ Ordered(queue)' /\ ConnInv' /\ HandlerInv'
  <1>1. /\ Posts(queue') = Posts(queue) \cup {Item("unregister", a.t)} /\ Ordered(queue)'
        /\ a.t \in Transports /\ AttemptHolds(a.t)
    <2>1. a.t \in Transports /\ AttemptHolds(a.t) /\ Post("unregister", a.t) /\ "unregister" \in Kinds
      BY DEF ReconnectRetry, ReconnectAbort, Kinds, AttemptHolds, Inv, TypeOK, Attempts
    <2>2. ~QueueHolds(a.t)
      BY <2>1 DEF Inv, OnceInv, Once
    <2> QED BY <2>1, <2>2, PostEffect DEF QueueHolds
  <1>2. /\ attempt' = {}
        /\ UNCHANGED <<mem, conn, flagged, rq, running, serving>>
    BY DEF ReconnectRetry, ReconnectAbort, AttemptOver, regVars, connVars
  <1>3. TypeOK /\ HeldInv /\ LiveInv /\ OnceInv /\ ConnInv /\ HandlerInv
    BY DEF Inv
  <1>4. ASSUME NEW u \in Transports PROVE Held(u)' /\ Once(u)' /\ Connected(u)'
    <2>1. /\ (Queued("register", u)' <=> Queued("register", u))
          /\ (Queued("unregister", u)' <=> Queued("unregister", u) \/ u = a.t)
          /\ (Queued("error", u)' <=> Queued("error", u))
          /\ (RqHolds(u)' <=> RqHolds(u))
          /\ (AttemptHolds(u)' <=> FALSE)
          /\ (ConnHolds(u)' <=> ConnHolds(u))
          /\ (AttemptHolds(u) <=> u = a.t)
      BY <1>1, <1>2, <1>3, ItemsDiffer DEF Queued, RqHolds, AttemptHolds, ConnHolds,
            ConnInv, Connected, TypeOK, HandlerInv
    <2>2. Held(u) /\ Once(u) /\ Connected(u)
      BY <1>3 DEF HeldInv, OnceInv, ConnInv
    <2>3. Held(u)'
      BY <1>1, <1>2, <1>3, <2>1, <2>2 DEF Held, Once, Connected, QueueHolds, TypeOK
    <2>4. Once(u)'
      BY <1>1, <2>1, <2>2 DEF Held, Once, Connected, QueueHolds, ConnHolds
    <2>5. Connected(u)'
      BY <1>1, <1>2, <1>3, <2>1, <2>2 DEF Held, Once, Connected, QueueHolds, ConnHolds, TypeOK
    <2> QED BY <2>3, <2>4, <2>5
  <1>5. LiveInv'
    BY <1>1, <1>2, <1>3, PostsInWork, ItemsDiffer DEF LiveInv, HeldInv, Held, QueueHolds, Queued,
          TypeOK
  <1>6. HandlerInv'
    BY <1>2, <1>3 DEF HandlerInv
  <1> QED BY <1>1, <1>4, <1>5, <1>6 DEF HeldInv, OnceInv, ConnInv

\* A failed attempt goes back to the reconnect queue.
LEMMA RetryKeepsInv ==
    ASSUME Inv, NEW a \in attempt, ReconnectRetry(a), a.left # 0
    PROVE  HeldInv' /\ LiveInv' /\ OnceInv' /\ Ordered(queue)' /\ ConnInv' /\ HandlerInv'
  <1> DEFINE b == [a EXCEPT !.left = @ - 1]
  <1>1. /\ Ordered(queue)' /\ a.t \in Transports /\ AttemptHolds(a.t) /\ b.t = a.t
    BY DEF Inv, AttemptHolds, TypeOK, Attempts, ReconnectRetry
  <1> HIDE DEF b
  <1>2. /\ attempt' = {} /\ rq' = rq \cup {b}
        /\ UNCHANGED <<mem, conn, flagged, queue, running, serving>>
    BY DEF ReconnectRetry, AttemptOver, regVars, connVars, b
  <1>3. TypeOK /\ HeldInv /\ LiveInv /\ OnceInv /\ ConnInv /\ HandlerInv
    BY DEF Inv
  <1>4. ASSUME NEW u \in Transports PROVE Held(u)' /\ Once(u)' /\ Connected(u)'
    <2>1. /\ (Queued("register", u)' <=> Queued("register", u))
          /\ (Queued("unregister", u)' <=> Queued("unregister", u))
          /\ (Queued("error", u)' <=> Queued("error", u))
          /\ (RqHolds(u)' <=> RqHolds(u) \/ u = a.t)
          /\ (AttemptHolds(u)' <=> FALSE)
          /\ (ConnHolds(u)' <=> ConnHolds(u))
          /\ (AttemptHolds(u) <=> u = a.t)
      BY <1>1, <1>2, <1>3, ItemsDiffer DEF Queued, RqHolds, AttemptHolds, ConnHolds,
            ConnInv, Connected, TypeOK, HandlerInv
    <2>2. Held(u) /\ Once(u) /\ Connected(u)
      BY <1>3 DEF HeldInv, OnceInv, ConnInv
    <2>3. Held(u)'
      BY <1>1, <1>2, <1>3, <2>1, <2>2 DEF Held, Once, Connected, QueueHolds, TypeOK
    <2>4. Once(u)'
      BY <1>1, <2>1, <2>2 DEF Held, Once, Connected, QueueHolds, ConnHolds
    <2>5. Connected(u)'
      BY <1>1, <1>2, <1>3, <2>1, <2>2 DEF Held, Once, Connected, QueueHolds, ConnHolds, TypeOK
    <2> QED BY <2>3, <2>4, <2>5
  <1>5. LiveInv'
    BY <1>2, <1>3 DEF LiveInv
  <1>6. HandlerInv'
    BY <1>1, <1>2, <1>3 DEF HandlerInv, OnceInv, Once, RqHolds
  <1> QED BY <1>1, <1>4, <1>5, <1>6 DEF HeldInv, OnceInv, ConnInv

\* A successful one: from the handler to the queue.
LEMMA SuccessKeepsInv ==
    ASSUME Inv, NEW a \in attempt, ReconnectSuccess(a)
    PROVE  HeldInv' /\ LiveInv' /\ OnceInv' /\ Ordered(queue)' /\ ConnInv' /\ HandlerInv'
  <1>1. /\ Posts(queue') = Posts(queue) \cup {Item("register", a.t)} /\ Ordered(queue)'
        /\ a.t \in Transports /\ AttemptHolds(a.t)
    <2>1. a.t \in Transports /\ AttemptHolds(a.t) /\ Post("register", a.t) /\ "register" \in Kinds
      BY DEF ReconnectSuccess, Kinds, AttemptHolds, Inv, TypeOK, Attempts
    <2>2. ~QueueHolds(a.t)
      BY <2>1 DEF Inv, OnceInv, Once
    <2> QED BY <2>1, <2>2, PostEffect DEF QueueHolds
  <1>2. /\ attempt' = {} /\ conn' = [conn EXCEPT ![a.t] = "fresh"]
        /\ flagged' = [flagged EXCEPT ![a.t] = FALSE]
        /\ UNCHANGED <<mem, rq, running, serving>>
    BY DEF ReconnectSuccess, AttemptOver, regVars
  <1>3. TypeOK /\ HeldInv /\ LiveInv /\ OnceInv /\ ConnInv /\ HandlerInv
    BY DEF Inv
  <1>4. ASSUME NEW u \in Transports PROVE Held(u)' /\ Once(u)' /\ Connected(u)'
    <2>1. /\ (Queued("register", u)' <=> Queued("register", u) \/ u = a.t)
          /\ (Queued("unregister", u)' <=> Queued("unregister", u))
          /\ (Queued("error", u)' <=> Queued("error", u))
          /\ (RqHolds(u)' <=> RqHolds(u))
          /\ (AttemptHolds(u)' <=> FALSE)
          /\ (ConnHolds(u)' <=> ConnHolds(u))
          /\ (AttemptHolds(u) <=> u = a.t)
      BY <1>1, <1>2, <1>3, ItemsDiffer DEF Queued, RqHolds, AttemptHolds, ConnHolds,
            ConnInv, Connected, TypeOK, HandlerInv
    <2>2. Held(u) /\ Once(u) /\ Connected(u)
      BY <1>3 DEF HeldInv, OnceInv, ConnInv
    <2>3. Held(u)'
      BY <1>1, <1>2, <1>3, <2>1, <2>2 DEF Held, Once, Connected, QueueHolds, TypeOK
    <2>4. Once(u)'
      BY <1>1, <2>1, <2>2 DEF Held, Once, Connected, QueueHolds, ConnHolds
    <2>5. Connected(u)'
      BY <1>1, <1>2, <1>3, <2>1, <2>2 DEF Held, Once, Connected, QueueHolds, ConnHolds, TypeOK
    <2> QED BY <2>3, <2>4, <2>5
  <1>5. LiveInv'
    BY <1>1, <1>2, <1>3, PostsInWork, ItemsDiffer DEF LiveInv, HeldInv, Held, QueueHolds, Queued,
          TypeOK
  <1>6. HandlerInv'
    BY <1>2, <1>3 DEF HandlerInv
  <1> QED BY <1>1, <1>4, <1>5, <1>6 DEF HeldInv, OnceInv, ConnInv

\* Kick stops the connections of S and tells the looper of those that had not
\* ended by themselves.
LEMMA KickKeepsInv ==
    ASSUME Inv, NEW S \in SUBSET Transports, Kick(S), UNCHANGED <<mem, rq, attempt>>, HandlerInv'
    PROVE  HeldInv' /\ LiveInv' /\ OnceInv' /\ Ordered(queue)' /\ ConnInv' /\ HandlerInv'
  <1> DEFINE tell == {t \in S : ~kicked[t] /\ conn[t] = "started" /\ ~flagged[t]}
  <1>1. /\ Posts(queue') = Posts(queue) \cup {Item("error", t) : t \in tell} /\ Ordered(queue)'
        /\ \A t \in tell : ConnHolds(t) /\ t \in Transports
    <2>1. \A t \in tell : ConnHolds(t) /\ t \in Transports
      BY DEF ConnHolds
    <2>2. \A t \in tell : ~QueueHolds(t)
      BY <2>1 DEF Inv, OnceInv, Once
    <2>3. Posted(queue, queue', "error", tell)
      BY KickPosts DEF Inv
    <2> HIDE DEF tell
    <2>4. Posts(queue') = Posts(queue) \cup {Item("error", t) : t \in tell}
      BY <2>3, PostedSet
    <2>5. "error" \in Kinds /\ tell \in SUBSET Transports /\ queue \in Seq(Work) /\ Ordered(queue)
      BY <2>1 DEF Kinds, Inv, TypeOK
    <2>6. Ordered(queue')
      BY <2>2, <2>3, <2>5, PostedOrdered DEF QueueHolds, Queued
    <2> QED BY <2>1, <2>4, <2>6
  <1>2. /\ \A t \in Transports : /\ conn'[t] = IF t \in S /\ ~kicked[t] /\ conn[t] = "started"
                                           THEN "stopped" ELSE conn[t]
                                 /\ flagged'[t] <=> flagged[t] \/ t \in tell
                                 /\ t \in tell <=> /\ t \in S /\ ~kicked[t]
                                                   /\ conn[t] = "started" /\ ~flagged[t]
        /\ UNCHANGED <<mem, rq, attempt>>
    BY DEF Kick
  <1> HIDE DEF tell
  <1>3. TypeOK /\ HeldInv /\ LiveInv /\ OnceInv /\ ConnInv /\ HandlerInv
    BY DEF Inv
  <1>4. ASSUME NEW u \in Transports PROVE Held(u)' /\ Once(u)' /\ Connected(u)'
    <2>1. /\ (Queued("register", u)' <=> Queued("register", u))
          /\ (Queued("unregister", u)' <=> Queued("unregister", u))
          /\ (Queued("error", u)' <=> Queued("error", u) \/ u \in tell)
          /\ (RqHolds(u)' <=> RqHolds(u))
          /\ (AttemptHolds(u)' <=> AttemptHolds(u))
          /\ (ConnHolds(u)' <=> ConnHolds(u) /\ u \notin tell)
      BY <1>1, <1>2, <1>3, ItemsDiffer DEF Queued, RqHolds, AttemptHolds, ConnHolds,
            ConnInv, Connected, TypeOK
    <2>2. Held(u) /\ Once(u) /\ Connected(u)
      BY <1>3 DEF HeldInv, OnceInv, ConnInv
    <2>3. Held(u)'
      BY <1>1, <1>2, <1>3, <2>1, <2>2 DEF Held, Once, Connected, QueueHolds, TypeOK
    <2>4. Once(u)'
      BY <1>1, <2>1, <2>2 DEF Held, Once, Connected, QueueHolds, ConnHolds
    <2>5. Connected(u)'
      BY <1>1, <1>2, <1>3, <2>1, <2>2 DEF Held, Once, Connected, QueueHolds, ConnHolds, TypeOK
    <2> QED BY <2>3, <2>4, <2>5
  <1>5. LiveInv'
    BY <1>1, <1>2, <1>3, ItemsDiffer DEF LiveInv, HeldInv, Held
  <1>6. HandlerInv'
    OBVIOUS
  <1> QED BY <1>1, <1>4, <1>5, <1>6 DEF HeldInv, OnceInv, ConnInv

LEMMA ConnectKeepsInv ==
    ASSUME Inv, NEW t \in Transports, Connect(t)
    PROVE  HeldInv' /\ LiveInv' /\ OnceInv' /\ Ordered(queue)' /\ ConnInv' /\ HandlerInv'
  <1>1. Ordered(queue)' /\ mem[t] = "free" /\ ~ConnHolds(t) /\ ~QueueHolds(t)
    BY DEF Connect, Inv, HeldInv, Held
  <1>2. /\ mem' \in {[mem EXCEPT ![t] = "new"], [mem EXCEPT ![t] = "deleted"]}
        /\ UNCHANGED <<conn, flagged, queue, rq, attempt, hpc, running, serving>>
    BY DEF Connect, connVars, handlerVars
  <1>3. TypeOK /\ HeldInv /\ LiveInv /\ OnceInv /\ ConnInv /\ HandlerInv
    BY DEF Inv
  <1>4. ASSUME NEW u \in Transports PROVE Held(u)' /\ Once(u)' /\ Connected(u)'
    <2>1. /\ (Queued("register", u)' <=> Queued("register", u))
          /\ (Queued("unregister", u)' <=> Queued("unregister", u))
          /\ (Queued("error", u)' <=> Queued("error", u))
          /\ (RqHolds(u)' <=> RqHolds(u))
          /\ (AttemptHolds(u)' <=> AttemptHolds(u))
          /\ (ConnHolds(u)' <=> ConnHolds(u))
      BY <1>1, <1>2, <1>3, ItemsDiffer DEF Queued, RqHolds, AttemptHolds, ConnHolds,
            ConnInv, Connected, TypeOK
    <2>2. Held(u) /\ Once(u) /\ Connected(u)
      BY <1>3 DEF HeldInv, OnceInv, ConnInv
    <2>3. Held(u)'
      BY <1>1, <1>2, <1>3, <2>1, <2>2 DEF Held, Once, Connected, QueueHolds, TypeOK
    <2>4. Once(u)'
      BY <1>1, <2>1, <2>2 DEF Held, Once, Connected, QueueHolds, ConnHolds
    <2>5. Connected(u)'
      BY <1>1, <1>2, <1>3, <2>1, <2>2 DEF Held, Once, Connected, QueueHolds, ConnHolds, TypeOK
    <2> QED BY <2>3, <2>4, <2>5
  <1>5. LiveInv'
    BY <1>1, <1>2, <1>3, PostsInWork DEF LiveInv, TypeOK
  <1>6. HandlerInv'
    BY <1>2, <1>3 DEF HandlerInv
  <1> QED BY <1>1, <1>4, <1>5, <1>6 DEF HeldInv, OnceInv, ConnInv

\* Steps of the handler's thread that only move it, Attach and
\* ReconnectHandler::Stop change nothing the invariant is about but hpc.
LEMMA QuietStepKeepsInv ==
    ASSUME Inv, \/ HandlerWait \/ HandlerTimeout \/ HandlerSpurious \/ HandlerExit \/ HandlerAgain
                \/ StopHandler \/ \E t \in Transports : Attach(t)
    PROVE  HeldInv' /\ LiveInv' /\ OnceInv' /\ Ordered(queue)' /\ ConnInv' /\ HandlerInv'
  <1>1. /\ UNCHANGED <<mem, conn, flagged, queue, rq, attempt>>
        /\ (hpc' = hpc \/ hpc # "attempt") /\ (serving' = "yes" => serving = "yes" /\ running' = running)
    BY DEF HandlerWait, HandlerTimeout, HandlerSpurious, HandlerExit, HandlerAgain, ScanDone,
           StopHandler, Notified, Attach, regVars, connVars, handlerVars
  <1>2. HandlerInv'
    BY <1>1 DEF Inv, HandlerInv
  <1> QED BY <1>1, <1>2 DEF Inv, HeldInv, Held, LiveInv, OnceInv, Once, ConnInv, Connected,
          Queued, QueueHolds, ConnHolds, RqHolds, AttemptHolds

LEMMA InvInductive == Inv /\ [Next]_vars => Inv'
  <1> SUFFICES ASSUME Inv, [Next]_vars PROVE Inv'
    OBVIOUS
  <1>1. TypeOK'
    BY TypeOKInductive DEF Inv
  <1>2. CASE Looper
    <2>1. PICK t \in Transports :
              \/ RegisterTransport(t) \/ UnregisterTransport(t) \/ TransportDestroy(t)
              \/ HandlePacket(t)
      BY <1>2 DEF Looper
    <2> QED BY <1>1, <2>1, RegisterKeepsInv, UnregisterKeepsInv, DestroyKickedKeepsInv,
            DestroyKeepsInv, PacketKeepsInv DEF Inv
  <1>3. CASE Handler
    <2>1. CASE HandlerTake
      <3>1. hpc # "attempt"
        BY <2>1 DEF HandlerTake, ScanDone
      <3> QED BY <1>1, <2>1, <3>1, TakeAttemptKeepsInv DEF HandlerTake, Inv
    <2>2. ASSUME NEW a \in rq, HandlerGiveUp(a) PROVE Inv'
      BY <1>1, <2>2, GiveUpKeepsInv DEF Inv
    <2>3. ASSUME NEW a \in attempt, ReconnectRetry(a) \/ ReconnectSuccess(a) \/ ReconnectAbort(a)
          PROVE  Inv'
      BY <1>1, <2>3, LastAttemptKeepsInv, RetryKeepsInv, SuccessKeepsInv DEF Inv
    <2> QED BY <1>1, <1>3, <2>1, <2>2, <2>3, QuietStepKeepsInv DEF Handler, Inv
  <1>4. CASE Threads
    <2>1. ASSUME NEW t \in Transports, NEW k \in PacketKinds, HandleRead(t, k) PROVE Inv'
      BY <1>1, <2>1, ReadKeepsInv DEF Inv
    <2>2. ASSUME NEW S \in SUBSET Transports, Kick(S), hpc' = Notified,
                 UNCHANGED <<mem, rq, attempt, running, serving>>
          PROVE  Inv'
      <3>1. HandlerInv'
        BY <2>2 DEF Inv, HandlerInv, Notified
      <3> QED BY <1>1, <2>2, <3>1, KickKeepsInv DEF Inv
    <2>3. ASSUME NEW t \in Transports, KickTransport(t) PROVE Inv'
      BY <2>2, <2>3 DEF KickTransport, Inv, TypeOK, regVars
    <2>4. CASE KickAllTcpDevices
      BY <2>2, <2>4 DEF KickAllTcpDevices, Inv, TypeOK, regVars
    <2>5. ASSUME NEW t \in Transports, Connect(t) \/ ConnectPost(t) \/ Attach(t) \/ HandleError(t)
          PROVE  Inv'
      BY <1>1, <2>5, ConnectKeepsInv, ConnectPostKeepsInv, QuietStepKeepsInv, ErrorKeepsInv DEF Inv
    <2> QED BY <1>4, <2>1, <2>3, <2>4, <2>5 DEF Threads
  <1>5. CASE Shutdown
    <2>1. ASSUME NEW a \in rq, DrainOne(a) PROVE Inv'
      BY <1>1, <2>1, GiveUpKeepsInv DEF Inv
    <2>2. CASE KickAllTransports
      <3>1. HandlerInv'
        BY <2>2 DEF KickAllTransports, Inv, HandlerInv, handlerVars
      <3>2. listed \in SUBSET Transports /\ Kick(listed) /\ UNCHANGED <<mem, rq, attempt>>
        BY <2>2 DEF KickAllTransports, Inv, TypeOK, regVars, handlerVars
      <3> QED BY <1>1, <3>1, <3>2, KickKeepsInv DEF Inv
    <2> QED BY <1>1, <1>5, <2>1, <2>2, QuietStepKeepsInv DEF Shutdown, Inv
  <1>6. CASE UNCHANGED vars
    BY <1>1, <1>6 DEF vars, Inv, HeldInv, Held, LiveInv, OnceInv, Once, ConnInv, Connected,
       HandlerInv, Queued, QueueHolds, ConnHolds, RqHolds, AttemptHolds
  <1> QED BY <1>2, <1>3, <1>4, <1>5, <1>6 DEF Next

LEMMA InvInitially == Init => Inv
  <1> SUFFICES ASSUME Init PROVE Inv
    OBVIOUS
  <1>1. TypeOK
    BY TypeOKInitially
  <1>2. Posts(queue) = {}
    BY DEF Init, Posts
  <1>3. Ordered(queue)
    BY DEF Init, Ordered
  <1>4. HandlerInv /\ LiveInv
    BY <1>2 DEF Init, HandlerInv, LiveInv
  <1>5. ASSUME NEW t \in Transports PROVE Held(t) /\ Once(t) /\ Connected(t)
    BY <1>2 DEF Init, Held, Once, Connected, Queued, QueueHolds, ConnHolds, RqHolds, AttemptHolds
  <1> QED BY <1>1, <1>3, <1>4, <1>5 DEF Inv, HeldInv, OnceInv, ConnInv

\* One hand, counted as OneHolder does.
LEMMA InvImpliesOneHolder == Inv => OneHolder
  <1> SUFFICES ASSUME Inv, NEW t \in Transports
               PROVE  IF mem[t] = "live" THEN \E h \in Holders(t) : Holders(t) = {h}
                                         ELSE Holders(t) = {}
    BY DEF OneHolder
  <1> DEFINE C == {<<"conn", 0>> : x \in {y \in {t} : conn[y] = "started" /\ ~flagged[y]}}
             J == {j \in DOMAIN queue : queue[j].t = t /\ queue[j].kind \notin PacketKinds}
             Q == {<<"queue", i>> : i \in J}
             R == {<<"rq", a.left>> : a \in {b \in rq : b.t = t}}
             A == {<<"attempt", a.left>> : a \in {b \in attempt : b.t = t}}
  <1>1. Holders(t) = C \cup Q \cup R \cup A
    BY DEF Holders
  <1>2. Held(t) /\ Once(t) /\ Connected(t) /\ Ordered(queue) /\ HandlerInv /\ queue \in Seq(Work)
    BY DEF Inv, HeldInv, OnceInv, ConnInv, TypeOK
  <1>3. /\ ConnHolds(t) => C = {<<"conn", 0>>}
        /\ ~ConnHolds(t) => C = {}
    BY DEF ConnHolds
  <1>4. /\ RqHolds(t) => \E h \in R : R = {h}
        /\ ~RqHolds(t) => R = {}
    <2>1. CASE RqHolds(t)
      <3>1. PICK a \in rq : a.t = t
        BY <2>1 DEF RqHolds
      <3>2. {b \in rq : b.t = t} = {a}
        BY <1>2, <3>1 DEF HandlerInv
      <3>3. R = {<<"rq", a.left>>}
        BY <3>2
      <3> QED BY <2>1, <3>3
    <2>2. CASE ~RqHolds(t)
      BY <2>2 DEF RqHolds
    <2> QED BY <2>1, <2>2
  <1>5. /\ AttemptHolds(t) => \E h \in A : A = {h}
        /\ ~AttemptHolds(t) => A = {}
    <2>1. CASE AttemptHolds(t)
      <3>1. PICK a \in attempt : a.t = t
        BY <2>1 DEF AttemptHolds
      <3>2. {b \in attempt : b.t = t} = {a}
        BY <1>2, <3>1 DEF HandlerInv
      <3>3. A = {<<"attempt", a.left>>}
        BY <3>2
      <3> QED BY <2>1, <3>3
    <2>2. CASE ~AttemptHolds(t)
      BY <2>2 DEF AttemptHolds
    <2> QED BY <2>1, <2>2
  <1>6. QueueHolds(t) <=> J # {}
    <2>1. ASSUME NEW k \in {"register", "unregister", "error"}, Queued(k, t) PROVE J # {}
      BY <2>1, ItemsDiffer DEF Queued, Posts, PacketKinds
    <2>2. ASSUME NEW j \in J PROVE QueueHolds(t)
      <3>1. queue[j] \in Posts(queue)
        BY DEF Posts
      <3>2. queue[j].kind \in Kinds /\ queue[j] = Item(queue[j].kind, t)
        BY <1>2, <3>1, PostsInWork
      <3> QED BY <3>1, <3>2 DEF QueueHolds, Queued, Kinds, PacketKinds
    <2> QED BY <2>1, <2>2 DEF QueueHolds
  <1>7. \A i, j \in J : i = j
    BY <1>2 DEF Ordered, Decides
  <1>8. /\ QueueHolds(t) => \E h \in Q : Q = {h}
        /\ ~QueueHolds(t) => Q = {}
    <2>1. CASE QueueHolds(t)
      <3>1. PICK j \in J : TRUE
        BY <2>1, <1>6
      <3>2. J = {j}
        BY <3>1, <1>7
      <3> HIDE DEF J
      <3> QED BY <2>1, <3>2
    <2>2. CASE ~QueueHolds(t)
      BY <2>2, <1>6
    <2> QED BY <2>1, <2>2
  <1> HIDE DEF C, J, Q, R, A
  <1>9. ConnHolds(t) => ~RqHolds(t) /\ ~AttemptHolds(t)
    BY <1>2 DEF Connected, ConnHolds
  <1>10. CASE ConnHolds(t)
    BY <1>1, <1>2, <1>3, <1>4, <1>5, <1>8, <1>9, <1>10 DEF Held, Once
  <1>11. CASE QueueHolds(t)
    BY <1>1, <1>2, <1>3, <1>4, <1>5, <1>8, <1>11 DEF Held, Once
  <1>12. CASE RqHolds(t)
    BY <1>1, <1>2, <1>3, <1>4, <1>5, <1>8, <1>9, <1>12 DEF Held, Once
  <1>13. CASE AttemptHolds(t)
    BY <1>1, <1>2, <1>3, <1>4, <1>5, <1>8, <1>9, <1>13 DEF Held, Once
  <1>14. CASE ~ConnHolds(t) /\ ~QueueHolds(t) /\ ~RqHolds(t) /\ ~AttemptHolds(t)
    BY <1>1, <1>2, <1>3, <1>4, <1>5, <1>8, <1>14 DEF Held
  <1> QED BY <1>10, <1>11, <1>12, <1>13, <1>14

LEMMA InvCorrect == Spec => []Inv
  BY InvInitially, InvInductive, PTL DEF Spec

\* Whatever the clients, the devices and the clock do, a live transport is in
\* exactly one pair of hands: its connection's threads, one function in the
\* looper's queue, or the reconnect handler.
THEOREM OneHolderCorrect == Spec => []OneHolder
  BY InvCorrect, InvImpliesOneHolder, PTL

\* The looper never runs a function, a packet's included, on a transport that
\* fdevent_unregister_transport has deleted, and a deletion is the last
\* function queued about it.
THEOREM WorkIsLiveCorrect == Spec => []WorkIsLive
  <1>1. Inv => WorkIsLive
    <2> SUFFICES ASSUME Inv, NEW i \in DOMAIN queue
                 PROVE  /\ mem[queue[i].t] = "live"
                        /\ queue[i].kind = "unregister" =>
                              \A j \in DOMAIN queue : j > i => queue[j].t # queue[i].t
      BY DEF WorkIsLive
    <2> QED BY DEF Inv, LiveInv, Posts, Ordered
  <1> QED BY <1>1, InvCorrect, PTL

------------------------------------------------------------------------------
(* The two lists.                                                          *)

\* A registration leaves the queue only when fdevent_register_transport runs.
LEMMA RegistrationStays ==
    ASSUME Inv, Next, NEW u \in Transports, Queued("register", u), ~RegisterTransport(u)
    PROVE  Queued("register", u)'
  <1>1. queue \in Seq(Work) /\ TypeOK /\ Ordered(queue)
    BY DEF Inv, TypeOK
  <1>2. ASSUME NEW k \in Kinds, NEW t \in Transports, Take(k, t), k # "register" \/ t # u
        PROVE  Item("register", u) \in Posts(Tail(queue))
    BY <1>2, TakeEffect, ItemsDiffer DEF Queued
  <1>3. ASSUME NEW k, NEW T, NEW q, Item("register", u) \in Posts(q), Posted(q, queue', k, T)
        PROVE  Queued("register", u)'
    BY <1>3, PostedSet DEF Queued
  <1>4. ASSUME NEW k \in Kinds, NEW t \in Transports, Post(k, t)
        PROVE  Queued("register", u)'
    BY <1>1, <1>3, <1>4, AppendPosts DEF Post, Queued
  <1>5. ASSUME NEW S \in SUBSET Transports, Kick(S)
        PROVE  Queued("register", u)'
    <2>1. Posted(queue, queue', "error", {t \in S : ~kicked[t] /\ conn[t] = "started" /\ ~flagged[t]})
      BY <1>1, <1>5, KickPosts
    <2> QED BY <2>1, <1>3 DEF Queued
  <1>6. ASSUME queue' = queue PROVE Queued("register", u)'
    BY <1>6 DEF Queued
  <1>7. CASE Looper
    <2>1. PICK t \in Transports :
              \/ RegisterTransport(t) \/ UnregisterTransport(t) \/ TransportDestroy(t)
              \/ HandlePacket(t)
      BY <1>7 DEF Looper
    <2>2. CASE TransportDestroy(t) /\ kicked[t]
      <3> DEFINE r == Tail(queue)
      <3>1. Take("error", t) /\ queue' = Append(r, Item("unregister", t))
        BY <2>2 DEF TransportDestroy
      <3>2. Item("register", u) \in Posts(r) /\ r \in Seq(Work)
        BY <3>1, <1>1, <1>2, TailTyped DEF Kinds
      <3> HIDE DEF r
      <3>3. Posted(r, queue', "unregister", {t})
        BY <3>1, <3>2, AppendPosts DEF Kinds
      <3> QED BY <3>2, <3>3, <1>3
    <2>3. CASE ~(TransportDestroy(t) /\ kicked[t])
      <3>1. PICK k \in Kinds : Take(k, t) /\ queue' = Tail(queue) /\ (k # "register" \/ t # u)
        BY <2>1, <2>3 DEF RegisterTransport, UnregisterTransport, TransportDestroy,
              HandlePacket, HandleNewConnection, HandleAuthToken, HandleAuthOther, HandleAuthIgnored, Kinds, PacketKinds
      <3> QED BY <3>1, <1>2 DEF Queued
    <2> QED BY <2>2, <2>3
  <1>8. ASSUME NEW a, a \in rq \cup attempt PROVE a.t \in Transports
    BY <1>8 DEF Inv, TypeOK, Attempts
  <1>9. "unregister" \in Kinds /\ "register" \in Kinds /\ "error" \in Kinds /\ PacketKinds \subseteq Kinds
    BY DEF Kinds
  <1>10. CASE Handler \/ Shutdown
    <2>1. CASE KickAllTransports
      BY <1>5, <2>1 DEF KickAllTransports, Inv, TypeOK
    <2>2. CASE \/ \E a \in rq : HandlerGiveUp(a) \/ DrainOne(a)
               \/ \E a \in attempt : ReconnectRetry(a) \/ ReconnectSuccess(a) \/ ReconnectAbort(a)
      <3>1. queue' = queue \/ \E t \in Transports : \E k \in Kinds : Post(k, t)
        BY <2>2, <1>8, <1>9 DEF HandlerGiveUp, DrainOne, ReconnectRetry, ReconnectSuccess, ReconnectAbort
      <3> QED BY <3>1, <1>4, <1>6
    <2>3. CASE \/ HandlerWait \/ HandlerTimeout \/ HandlerSpurious \/ HandlerExit \/ HandlerAgain
               \/ HandlerTake \/ StopHandler
      BY <2>3, <1>6 DEF HandlerWait, HandlerTimeout, HandlerSpurious, HandlerExit, HandlerAgain,
                HandlerTake, StopHandler
    <2> QED BY <1>10, <2>1, <2>2, <2>3 DEF Handler, Shutdown
  <1>11. CASE Threads
    <2>1. ASSUME NEW t \in Transports, KickTransport(t) PROVE Queued("register", u)'
      <3>1. {t} \cap listed \in SUBSET Transports /\ Kick({t} \cap listed)
        BY <2>1 DEF KickTransport
      <3> QED BY <3>1, <1>5
    <2>2. CASE KickAllTcpDevices
      BY <2>2, <1>5 DEF KickAllTcpDevices, Inv, TypeOK
    <2>3. ASSUME NEW t \in Transports,
                 \/ Connect(t) \/ Attach(t) \/ ConnectPost(t) \/ HandleError(t)
                 \/ \E k \in PacketKinds : HandleRead(t, k)
          PROVE  Queued("register", u)'
      <3>1. queue' = queue \/ \E k \in Kinds : Post(k, t)
        BY <2>3, <1>9 DEF Connect, Attach, ConnectPost, HandleError, HandleRead
      <3> QED BY <3>1, <1>4, <1>6
    <2> QED BY <1>11, <2>1, <2>2, <2>3 DEF Threads
  <1> QED BY <1>7, <1>10, <1>11 DEF Next

RegInv == RegistryConsistent /\ PendingInv

LEMMA RegInvInductive == Inv /\ Inv' /\ RegInv /\ [Next]_vars => RegInv'
  <1> SUFFICES ASSUME Inv, Inv', RegInv, [Next]_vars PROVE RegInv'
    OBVIOUS
  <1>1. CASE UNCHANGED vars
    BY <1>1 DEF vars, RegInv, RegistryConsistent, PendingInv, Queued
  <1>2. ASSUME NEW t \in Transports, Connect(t) PROVE RegInv'
    <2>1. mem[t] = "free" /\ listed' = listed /\ queue' = queue
      BY <1>2 DEF Connect
    <2>2. t \notin pending \cup listed
      BY <2>1 DEF RegInv, RegistryConsistent
    <2>3. CASE \E u \in pending \cup listed : SerialOf[u] = SerialOf[t]
      <3>1. mem' = [mem EXCEPT ![t] = "deleted"] /\ pending' = pending
        BY <1>2, <2>3 DEF Connect
      <3> QED BY <2>1, <2>2, <3>1 DEF RegInv, RegistryConsistent, PendingInv, Queued, Inv, TypeOK
    <2>4. CASE ~\E u \in pending \cup listed : SerialOf[u] = SerialOf[t]
      <3>1. mem' = [mem EXCEPT ![t] = "new"] /\ pending' = pending \cup {t}
        BY <1>2, <2>4 DEF Connect
      <3> QED BY <2>1, <2>2, <2>4, <3>1 DEF RegInv, RegistryConsistent, PendingInv, Queued, Inv, TypeOK
    <2> QED BY <2>3, <2>4
  <1>3. ASSUME NEW t \in Transports, ConnectPost(t) PROVE RegInv'
    <2>1. mem[t] = "new" /\ mem' = [mem EXCEPT ![t] = "live"] /\ UNCHANGED <<pending, listed>>
      BY <1>3 DEF ConnectPost
    <2>2. Queued("register", t)' /\ \A u \in Transports : Queued("register", u) => Queued("register", u)'
      <3>1. Posted(queue, queue', "register", {t})
        BY <1>3, AppendPosts DEF ConnectPost, Post, Inv, TypeOK, Kinds
      <3> QED BY <3>1, PostedSet DEF Queued
    <2> QED BY <2>1, <2>2 DEF RegInv, RegistryConsistent, PendingInv, Inv, TypeOK
  <1>4. ASSUME NEW t \in Transports, RegisterTransport(t) PROVE RegInv'
    <2>1. /\ pending' = pending \ {t} /\ mem' = mem
          /\ listed' = IF t \in pending THEN listed \cup {t} ELSE listed
      BY <1>4 DEF RegisterTransport
    <2>2. \A u \in Transports : u # t /\ Queued("register", u) => Queued("register", u)'
      BY <1>4, TakeEffect, ItemsDiffer DEF RegisterTransport, Kinds, Queued
    <2> QED BY <2>1, <2>2 DEF RegInv, RegistryConsistent, PendingInv, Inv, TypeOK
  <1>5. ASSUME NEW t \in Transports, UnregisterTransport(t) PROVE RegInv'
    <2>1. listed' = listed \ {t} /\ pending' = pending /\ mem' = [mem EXCEPT ![t] = "deleted"]
      BY <1>5 DEF UnregisterTransport
    <2>2. Queued("unregister", t)
      BY <1>5, TakeEffect DEF UnregisterTransport, Kinds, Queued
    <2>3. t \notin pending
      <3>1. Connected(t) /\ mem[t] = "live"
        BY <2>2 DEF Inv, ConnInv, HeldInv, Held, QueueHolds
      <3> QED BY <2>2, <3>1 DEF RegInv, PendingInv, Connected
    <2>4. \A u \in Transports : Queued("register", u) => Queued("register", u)'
      BY <1>5, TakeEffect, ItemsDiffer DEF UnregisterTransport, Kinds, Queued
    <2> QED BY <2>1, <2>3, <2>4 DEF RegInv, RegistryConsistent, PendingInv, Inv, TypeOK
  <1>6. ASSUME Next, \A t \in Transports : ~RegisterTransport(t), UNCHANGED regVars PROVE RegInv'
    BY <1>6, RegistrationStays DEF RegInv, RegistryConsistent, PendingInv, regVars, Inv, TypeOK
  <1>7. CASE Next
    <2>1. \/ \E t \in Transports : Connect(t) \/ ConnectPost(t) \/ RegisterTransport(t) \/ UnregisterTransport(t)
          \/ UNCHANGED regVars
      <3>1. CASE Looper
        BY <3>1 DEF Looper, TransportDestroy, HandlePacket, HandleNewConnection, HandleAuthToken, HandleAuthOther, HandleAuthIgnored
      <3>2. CASE Handler
        BY <3>2 DEF Handler, HandlerWait, HandlerTimeout, HandlerSpurious, HandlerExit, HandlerAgain,
              HandlerTake, HandlerGiveUp, ReconnectRetry, ReconnectSuccess, ReconnectAbort
      <3>3. CASE Threads
        BY <3>3 DEF Threads, KickTransport, Attach, HandleRead, HandleError, KickAllTcpDevices
      <3>4. CASE Shutdown
        BY <3>4 DEF Shutdown, StopHandler, DrainOne, KickAllTransports
      <3> QED BY <1>7, <3>1, <3>2, <3>3, <3>4 DEF Next
    <2> QED BY <1>2, <1>3, <1>4, <1>5, <1>6, <1>7, <2>1
  <1> QED BY <1>1, <1>7

\* pending_list and transport_list together hold exactly the transports that
\* exist, each in one of them, and no two with one serial, for every choice of
\* serials.
THEOREM RegistryCorrect == Spec => []RegistryConsistent
  <1>1. Init => RegInv
    BY DEF Init, RegInv, RegistryConsistent, PendingInv
  <1>2. RegInv => RegistryConsistent
    BY DEF RegInv
  <1> QED BY <1>1, <1>2, RegInvInductive, InvCorrect, PTL DEF Spec

------------------------------------------------------------------------------
(* What a connection leaves behind.                                        *)

\* An error leaves the queue only when it is handled.
LEMMA PostKeepsErrors ==
    ASSUME TypeOK, NEW k \in Kinds, NEW t \in Transports, Post(k, t)
    PROVE  \A u \in Transports : Queued("error", u) => Queued("error", u)'
  <1>1. Posted(queue, queue', k, {t})
    BY AppendPosts DEF Post, TypeOK
  <1> QED BY <1>1, PostedSet DEF Queued

\* A step after which no more connections are over than before, and which
\* changes no state.
LEMMA SameStateKeepsQuiet ==
    ASSUME QuietInv, UNCHANGED <<cstate, late>>, \A u \in Transports : Over(u)' => Over(u)
    PROVE  QuietInv'
  BY DEF QuietInv, Quiet

\* A connection that was started and flagged has its end in the queue.
LEMMA FlaggedIsQueued ==
    ASSUME Inv, NEW t \in Transports, conn[t] = "started", flagged[t]
    PROVE  Queued("error", t)
  <1>1. Held(t) /\ Connected(t)
    BY DEF Inv, HeldInv, ConnInv
  <1> QED BY <1>1 DEF Held, Connected, QueueHolds, ConnHolds

LEMMA KickKeepsQuiet ==
    ASSUME Inv, QuietInv, NEW S \in SUBSET Transports, Kick(S), UNCHANGED <<cstate, late>>
    PROVE  QuietInv'
  <1> DEFINE tell == {t \in S : ~kicked[t] /\ conn[t] = "started" /\ ~flagged[t]}
  <1>1. Posted(queue, queue', "error", tell)
    BY KickPosts DEF Inv, TypeOK
  <1>2. \A t \in Transports : /\ conn'[t] = IF t \in S /\ ~kicked[t] /\ conn[t] = "started"
                                           THEN "stopped" ELSE conn[t]
                              /\ t \in tell <=> /\ t \in S /\ ~kicked[t]
                                                /\ conn[t] = "started" /\ ~flagged[t]
    BY DEF Kick
  <1> HIDE DEF tell
  <1>3. Posts(queue') = Posts(queue) \cup {Item("error", t) : t \in tell}
    BY <1>1, PostedSet
  <1>4. ASSUME NEW u \in Transports, Over(u)' PROVE Over(u)
    <2>1. ~Queued("error", u) /\ u \notin tell
      BY <1>3, <1>4 DEF Queued, Over
    <2>2. conn[u] # "started"
      BY <1>2, <1>4, <2>1, FlaggedIsQueued DEF Over
    <2> QED BY <2>1, <2>2 DEF Over
  <1> QED BY <1>4, SameStateKeepsQuiet

LEMMA LooperKeepsQuiet ==
    ASSUME Inv, QuietInv, NEW t \in Transports,
           \/ RegisterTransport(t) \/ UnregisterTransport(t) \/ TransportDestroy(t)
           \/ HandlePacket(t)
    PROVE  QuietInv'
  <1> DEFINE r == Tail(queue)
  <1>1. ASSUME NEW k \in Kinds, Take(k, t), queue' = r \/ queue' = Append(r, Item("unregister", t))
        PROVE  \A u \in Transports : Queued("error", u) /\ (k # "error" \/ u # t) => Queued("error", u)'
    <2>1. r \in Seq(Work) /\ Posts(queue) \subseteq Posts(r) \cup {Item(k, t)}
      BY <1>1, TakeEffect
    <2> HIDE DEF r
    <2>2. CASE queue' = r
      BY <2>1, <2>2, ItemsDiffer DEF Queued
    <2>3. CASE queue' = Append(r, Item("unregister", t))
      <3>1. Posted(r, queue', "unregister", {t})
        BY <2>1, <2>3, AppendPosts DEF Kinds
      <3>2. Posts(r) \subseteq Posts(queue')
        BY <3>1, PostedSet
      <3> QED BY <2>1, <3>2, ItemsDiffer DEF Queued
    <2> QED BY <1>1, <2>2, <2>3 DEF r
  <1> HIDE DEF r
  <1>2. CASE RegisterTransport(t) \/ UnregisterTransport(t)
    <2>1. PICK k \in {"register", "unregister"} : Take(k, t) /\ queue' = r
      BY <1>2 DEF RegisterTransport, UnregisterTransport, r
    <2>2. \A u \in Transports : Queued("error", u) => Queued("error", u)'
      BY <1>1, <2>1 DEF Kinds
    <2>3. UNCHANGED <<cstate, late>> /\ \A u \in Transports : conn'[u] # "started" => conn[u] # "started"
      BY <1>2 DEF RegisterTransport, UnregisterTransport, objVars, connVars, Inv, TypeOK
    <2> QED BY <2>2, <2>3, SameStateKeepsQuiet DEF Over
  <1>3. CASE TransportDestroy(t)
    <2>1. /\ Take("error", t) /\ "error" \in Kinds
          /\ queue' = r \/ queue' = Append(r, Item("unregister", t))
      BY <1>3 DEF TransportDestroy, r, Kinds
    <2>2. \A u \in Transports : u # t /\ Queued("error", u) => Queued("error", u)'
      BY <1>1, <2>1
    <2>3. /\ cstate' = [cstate EXCEPT ![t] = "offline"] /\ late' = late \ {t}
          /\ \A u \in Transports : u # t => conn'[u] = conn[u]
      BY <1>3 DEF TransportDestroy, Offline, NoteEnd, Stop, Inv, TypeOK
    <2> QED BY <2>2, <2>3 DEF QuietInv, Quiet, Over, Inv, TypeOK
  <1>4. CASE HandlePacket(t)
    <2>1. PICK k \in PacketKinds : Take(k, t) /\ queue' = r
      BY <1>4 DEF HandlePacket, HandleNewConnection, HandleAuthToken, HandleAuthOther, HandleAuthIgnored,
            PacketKinds, r
    <2>2. conn' = conn /\ \A u \in Transports : Queued("error", u) => Queued("error", u)'
      BY <1>1, <1>4, <2>1 DEF HandlePacket, HandleNewConnection, HandleAuthToken, HandleAuthOther,
            HandleAuthIgnored, connVars, Kinds, PacketKinds
    <2>3. CASE HandleAuthIgnored(t)
      BY <2>2, <2>3, SameStateKeepsQuiet DEF HandleAuthIgnored, objVars, Over
    <2>4. CASE ~HandleAuthIgnored(t)
      <3>1. NoteLate(t) /\ \A u \in Transports : u # t => cstate'[u] = cstate[u]
        BY <1>4, <2>4 DEF HandlePacket, HandleNewConnection, HandleAuthToken, HandleAuthOther, Inv, TypeOK
      <3>2. late \subseteq late' /\ (t \notin late' => ~Over(t))
        BY <3>1 DEF NoteLate, Over, Queued, Posts
      <3> QED BY <2>2, <3>1, <3>2 DEF QuietInv, Quiet, Over
    <2> QED BY <2>3, <2>4
  <1> QED BY <1>2, <1>3, <1>4

LEMMA QuietInductive ==
    ASSUME Inv, QuietInv, [Next]_vars
    PROVE  QuietInv'
  <1>1. TypeOK
    BY DEF Inv
  <1>2. CASE Looper
    BY <1>2, LooperKeepsQuiet DEF Looper
  <1>3. ASSUME UNCHANGED <<conn, cstate, late, queue>> PROVE QuietInv'
    BY <1>3, SameStateKeepsQuiet DEF Over, Queued
  <1>4. ASSUME NEW k \in Kinds, NEW t \in Transports, Post(k, t), UNCHANGED <<conn, cstate, late>>
        PROVE  QuietInv'
    BY <1>1, <1>4, PostKeepsErrors, SameStateKeepsQuiet DEF Over
  <1>5. {"register", "unregister", "error"} \cup PacketKinds = Kinds
    BY DEF Kinds
  <1>6. ASSUME NEW a, a \in rq \cup attempt PROVE a.t \in Transports
    BY <1>6 DEF Inv, TypeOK, Attempts
  <1>7. CASE Handler
    <2>1. ASSUME NEW a \in rq, HandlerGiveUp(a) PROVE QuietInv'
      BY <1>4, <1>5, <1>6, <2>1 DEF HandlerGiveUp, connVars, objVars
    <2>2. ASSUME NEW a \in attempt, ReconnectRetry(a) \/ ReconnectAbort(a) PROVE QuietInv'
      BY <1>3, <1>4, <1>5, <1>6, <2>2 DEF ReconnectRetry, ReconnectAbort, connVars, objVars
    <2>3. ASSUME NEW a \in attempt, ReconnectSuccess(a) PROVE QuietInv'
      <3>1. /\ a.t \in Transports /\ Post("register", a.t) /\ UNCHANGED <<cstate, late>>
            /\ conn' = [conn EXCEPT ![a.t] = "fresh"]
        BY <1>6, <2>3 DEF ReconnectSuccess, objVars
      <3>2. Connected(a.t) /\ AttemptHolds(a.t)
        BY <3>1 DEF Inv, ConnInv, AttemptHolds
      <3>3. \A u \in Transports : conn'[u] # "started" => conn[u] # "started"
        BY <3>1, <3>2 DEF Inv, TypeOK, Connected
      <3>4. \A u \in Transports : Queued("error", u) => Queued("error", u)'
        BY <1>1, <1>5, <3>1, PostKeepsErrors
      <3> QED BY <3>1, <3>3, <3>4, SameStateKeepsQuiet DEF Over
    <2>4. CASE \/ HandlerWait \/ HandlerTimeout \/ HandlerSpurious \/ HandlerExit \/ HandlerAgain
               \/ HandlerTake
      BY <1>3, <2>4 DEF HandlerWait, HandlerTimeout, HandlerSpurious, HandlerExit, HandlerAgain,
            HandlerTake, connVars, objVars
    <2> QED BY <1>7, <2>1, <2>2, <2>3, <2>4 DEF Handler
  <1>8. CASE Threads
    <2>1. ASSUME NEW t \in Transports, Connect(t) \/ Attach(t) PROVE QuietInv'
      BY <1>3, <2>1 DEF Connect, Attach, connVars, objVars
    <2>2. ASSUME NEW t \in Transports, ConnectPost(t) \/ HandleError(t) \/ \E k \in PacketKinds : HandleRead(t, k)
          PROVE  QuietInv'
      BY <1>4, <1>5, <2>2 DEF ConnectPost, HandleError, HandleRead, connVars, objVars
    <2>3. ASSUME NEW t \in Transports, KickTransport(t) PROVE QuietInv'
      <3>1. {t} \cap listed \in SUBSET Transports /\ Kick({t} \cap listed) /\ UNCHANGED <<cstate, late>>
        BY <2>3 DEF KickTransport
      <3> QED BY <3>1, KickKeepsQuiet
    <2>4. CASE KickAllTcpDevices
      <3>1. listed \in SUBSET Transports /\ Kick(listed) /\ UNCHANGED <<cstate, late>>
        BY <2>4 DEF KickAllTcpDevices, Inv, TypeOK
      <3> QED BY <3>1, KickKeepsQuiet
    <2> QED BY <1>8, <2>1, <2>2, <2>3, <2>4 DEF Threads
  <1>9. CASE Shutdown
    <2>1. CASE StopHandler
      BY <1>3, <2>1 DEF StopHandler, connVars, objVars
    <2>2. ASSUME NEW a \in rq, DrainOne(a) PROVE QuietInv'
      BY <1>4, <1>5, <1>6, <2>2 DEF DrainOne, connVars, objVars
    <2>3. CASE KickAllTransports
      <3>1. listed \in SUBSET Transports /\ Kick(listed) /\ UNCHANGED <<cstate, late>>
        BY <2>3 DEF KickAllTransports, Inv, TypeOK
      <3> QED BY <3>1, KickKeepsQuiet
    <2> QED BY <1>9, <2>1, <2>2, <2>3 DEF Shutdown
  <1>10. CASE UNCHANGED vars
    BY <1>3, <1>10 DEF vars
  <1> QED BY <1>2, <1>7, <1>8, <1>9, <1>10 DEF Next

LEMMA KeysInductive ==
    ASSUME Inv, KeysInv, [Next]_vars
    PROVE  KeysInv'
  <1> DEFINE Starts(t) == conn[t] = "fresh" \/ RqHolds(t) \/ AttemptHolds(t)
  <1>1. ASSUME UNCHANGED <<keys, late>>, \A u \in Transports : Starts(u)' => Starts(u) PROVE KeysInv'
    BY <1>1 DEF KeysInv
  <1>2. ASSUME UNCHANGED <<conn, keys, rq, attempt>>, late \subseteq late' PROVE KeysInv'
    BY <1>2 DEF KeysInv, RqHolds, AttemptHolds
  <1>3. ASSUME NEW t \in Transports, RegisterTransport(t) PROVE KeysInv'
    <2>1. conn' = [conn EXCEPT ![t] = "started"] /\ UNCHANGED <<keys, late, rq, attempt>>
      BY <1>3 DEF RegisterTransport, objVars, handlerVars
    <2> QED BY <1>1, <2>1 DEF RqHolds, AttemptHolds, Inv, TypeOK
  <1>4. ASSUME NEW t \in Transports, TransportDestroy(t) PROVE KeysInv'
    <2>1. /\ attempt' = attempt /\ late' = late \ {t}
          /\ \A u \in Transports : conn'[u] = "fresh" => conn[u] = "fresh"
      BY <1>4 DEF TransportDestroy, NoteEnd, Stop, Inv, TypeOK
    <2>2. CASE kicked[t]
      <3>1. Queued("error", t) /\ Once(t) /\ Connected(t)
        BY <1>4, TakeEffect DEF TransportDestroy, Kinds, Queued, Inv, OnceInv, ConnInv
      <3>2. ~Starts(t)
        BY <3>1 DEF Once, Connected, QueueHolds
      <3>3. UNCHANGED <<keys, rq>>
        BY <1>4, <2>2 DEF TransportDestroy
      <3> QED BY <2>1, <3>2, <3>3 DEF KeysInv, RqHolds, AttemptHolds
    <2>3. CASE ~kicked[t]
      <3> DEFINE y == [t |-> t, left |-> MaxAttempts]
      <3>1. keys' = [keys EXCEPT ![t] = 0] /\ rq' \subseteq rq \cup {y} /\ y.t = t
        BY <1>4, <2>3 DEF TransportDestroy, ResetKeys
      <3> HIDE DEF y
      <3> QED BY <2>1, <3>1 DEF KeysInv, RqHolds, AttemptHolds, Inv, TypeOK
    <2> QED BY <2>2, <2>3
  <1>5. ASSUME NEW t \in Transports, HandleAuthToken(t) PROVE KeysInv'
    <2>1. Take("auth", t) /\ UNCHANGED <<conn, rq, attempt>> /\ NoteLate(t)
          /\ keys' = [keys EXCEPT ![t] = IF @ = 0 THEN KeyCount ELSE @ - 1]
      BY <1>5 DEF HandleAuthToken, connVars, handlerVars
    <2>2. late \subseteq late' /\ (t \notin late' => ~Over(t))
      BY <2>1 DEF NoteLate, Over, Queued, Posts
    <2>3. Once(t) /\ Connected(t)
      BY DEF Inv, OnceInv, ConnInv
    <2>4. t \notin late' => ~Starts(t)
      BY <2>2, <2>3 DEF Once, Connected, QueueHolds, Over
    <2>5. \A u \in Transports : u # t => keys'[u] = keys[u]
      BY <2>1 DEF Inv, TypeOK
    <2> QED BY <2>1, <2>2, <2>4, <2>5 DEF KeysInv, RqHolds, AttemptHolds
  <1>6. CASE Looper
    <2>1. ASSUME NEW t \in Transports,
                 UnregisterTransport(t) \/ HandleNewConnection(t) \/ HandleAuthOther(t) \/ HandleAuthIgnored(t)
          PROVE  KeysInv'
      BY <1>2, <2>1 DEF UnregisterTransport, HandleNewConnection, HandleAuthOther, HandleAuthIgnored,
            NoteLate, connVars, objVars, handlerVars
    <2> QED BY <1>3, <1>4, <1>5, <1>6, <2>1 DEF Looper, HandlePacket
  <1>7. ASSUME NEW a, a \in rq \cup attempt PROVE a.t \in Transports
    BY <1>7 DEF Inv, TypeOK, Attempts
  <1>8. CASE Handler
    <2>1. ASSUME NEW a \in rq, HandlerGiveUp(a) PROVE KeysInv'
      BY <1>1, <2>1 DEF HandlerGiveUp, connVars, objVars, RqHolds, AttemptHolds
    <2>2. ASSUME NEW a \in attempt, ReconnectRetry(a) \/ ReconnectAbort(a) PROVE KeysInv'
      <3> DEFINE b == [a EXCEPT !.left = @ - 1]
      <3>1. /\ attempt' = {} /\ UNCHANGED <<conn, keys, late>> /\ rq' \subseteq rq \cup {b}
        BY <2>2 DEF ReconnectRetry, ReconnectAbort, AttemptOver, connVars, objVars
      <3>2. b.t = a.t
        BY DEF Inv, TypeOK, Attempts
      <3> HIDE DEF b
      <3> QED BY <1>1, <3>1, <3>2 DEF RqHolds, AttemptHolds
    <2>3. ASSUME NEW a \in attempt, ReconnectSuccess(a) PROVE KeysInv'
      <3>1. /\ attempt' = {} /\ UNCHANGED <<keys, late, rq>> /\ conn' = [conn EXCEPT ![a.t] = "fresh"]
        BY <2>3 DEF ReconnectSuccess, AttemptOver, objVars
      <3> QED BY <1>1, <1>7, <3>1 DEF RqHolds, AttemptHolds, Inv, TypeOK
    <2>4. CASE HandlerTake
      BY <1>1, <2>4 DEF HandlerTake, connVars, objVars, RqHolds, AttemptHolds
    <2>5. CASE HandlerWait \/ HandlerTimeout \/ HandlerSpurious \/ HandlerExit \/ HandlerAgain
      BY <1>2, <2>5 DEF HandlerWait, HandlerTimeout, HandlerSpurious, HandlerExit, HandlerAgain,
            connVars, objVars
    <2> QED BY <1>8, <2>1, <2>2, <2>3, <2>4, <2>5 DEF Handler
  <1>9. ASSUME NEW S, Kick(S), UNCHANGED <<keys, late, rq, attempt>> PROVE KeysInv'
    <2>1. \A u \in Transports : conn'[u] = "fresh" => conn[u] = "fresh"
      BY <1>9 DEF Kick
    <2> QED BY <1>1, <1>9, <2>1 DEF RqHolds, AttemptHolds
  <1>10. CASE Threads
    <2>1. ASSUME NEW t \in Transports,
                 Connect(t) \/ Attach(t) \/ ConnectPost(t) \/ HandleError(t) \/ \E k \in PacketKinds : HandleRead(t, k)
          PROVE  KeysInv'
      BY <1>2, <2>1 DEF Connect, Attach, ConnectPost, HandleError, HandleRead, connVars, objVars, handlerVars
    <2> QED BY <1>9, <1>10, <2>1 DEF Threads, KickTransport, KickAllTcpDevices
  <1>11. CASE Shutdown
    <2>1. ASSUME NEW a \in rq, DrainOne(a) PROVE KeysInv'
      BY <1>1, <2>1 DEF DrainOne, connVars, objVars, RqHolds, AttemptHolds
    <2> QED BY <1>2, <1>9, <1>11, <2>1 DEF Shutdown, StopHandler, KickAllTransports, connVars, objVars,
          handlerVars
  <1>12. CASE UNCHANGED vars
    BY <1>2, <1>12 DEF vars
  <1> QED BY <1>6, <1>8, <1>10, <1>11, <1>12 DEF Next

LEMMA QuietInitially == Init => QuietInv /\ KeysInv /\ AttachedInv
  BY DEF Init, QuietInv, Quiet, KeysInv, AttachedInv

LEMMA QuietCorrect == Spec => [](Inv /\ QuietInv /\ KeysInv)
  <1>1. Inv /\ QuietInv /\ KeysInv /\ [Next]_vars => QuietInv' /\ KeysInv'
    BY QuietInductive, KeysInductive
  <1> QED BY <1>1, QuietInitially, InvInitially, InvInductive, PTL DEF Spec

\* A transport that waits to be reconnected or deleted is offline: it has
\* another state only while its connection runs, while its end is in the queue,
\* or after a packet of an ended connection.
THEOREM ReconnectingCorrect == Spec => []ReconnectingIsOffline
  <1>1. QuietInv => ReconnectingIsOffline
    <2> SUFFICES ASSUME QuietInv, NEW t \in Transports, cstate[t] # "offline", conn[t] # "started",
                        t \notin late
                 PROVE  \E i \in DOMAIN queue : queue[i] = Item("error", t)
      BY DEF ReconnectingIsOffline
    <2>1. Queued("error", t)
      BY DEF QuietInv, Quiet, Over
    <2> QED BY <2>1 DEF Queued, Posts
  <1> QED BY <1>1, QuietCorrect, PTL

\* A connection starts with no key tried: only a packet of an ended connection
\* uses up a key between transport_destroy, which clears them, and the next.
THEOREM KeysCorrect == Spec => []KeysStartOver
  <1>1. KeysInv => KeysStartOver
    BY DEF KeysInv, KeysStartOver
  <1> QED BY <1>1, QuietCorrect, PTL

LEMMA AttachedInductive ==
    ASSUME TypeOK, AttachedInv, [Next]_vars
    PROVE  AttachedInv'
  <1>1. ASSUME UNCHANGED <<cstate, attached, stray>> PROVE AttachedInv'
    BY <1>1 DEF AttachedInv
  <1>2. ASSUME NEW t \in Transports,
               HandleNewConnection(t) \/ HandleAuthToken(t) \/ HandleAuthOther(t)
        PROVE  AttachedInv'
    <2>1. /\ attached' \subseteq attached
          /\ \A u \in Transports : u # t => cstate'[u] = cstate[u] /\ (u \in stray => u \in stray')
      BY <1>2 DEF HandleNewConnection, HandleAuthToken, HandleAuthOther, NoteStray, TypeOK
    <2>2. cstate'[t] # "offline" \/ (stray' = IF cstate[t] = "offline" THEN stray ELSE stray \cup {t})
      BY <1>2 DEF HandleNewConnection, HandleAuthToken, HandleAuthOther, NoteStray, TypeOK
    <2> QED BY <2>1, <2>2 DEF AttachedInv, TypeOK
  <1>3. ASSUME NEW t \in Transports, TransportDestroy(t) PROVE AttachedInv'
    <2>1. /\ \A u \in Transports : u # t => cstate'[u] = cstate[u]
          /\ attached' = IF cstate[t] = "offline" THEN attached ELSE attached \ {t}
          /\ stray' = IF cstate[t] = "offline" THEN stray ELSE stray \ {t}
      BY <1>3 DEF TransportDestroy, Offline, NoteEnd, TypeOK
    <2> QED BY <2>1 DEF AttachedInv, TypeOK
  <1>4. CASE Looper
    <2>1. ASSUME NEW t \in Transports,
                 RegisterTransport(t) \/ UnregisterTransport(t) \/ HandleAuthIgnored(t)
          PROVE  AttachedInv'
      BY <1>1, <2>1 DEF RegisterTransport, UnregisterTransport, HandleAuthIgnored, objVars
    <2> QED BY <1>2, <1>3, <1>4, <2>1 DEF Looper, HandlePacket
  <1>5. CASE Handler
    BY <1>1, <1>5 DEF Handler, HandlerWait, HandlerTimeout, HandlerSpurious, HandlerExit, HandlerAgain,
          HandlerTake, HandlerGiveUp, ReconnectRetry, ReconnectSuccess, ReconnectAbort, objVars
  <1>6. ASSUME NEW t \in Transports, Attach(t) PROVE AttachedInv'
    BY <1>6 DEF Attach, AttachedInv
  <1>7. CASE Threads
    <2>1. ASSUME NEW t \in Transports,
                 \/ Connect(t) \/ ConnectPost(t) \/ KickTransport(t) \/ HandleError(t)
                 \/ \E k \in PacketKinds : HandleRead(t, k)
          PROVE  AttachedInv'
      BY <1>1, <2>1 DEF Connect, ConnectPost, KickTransport, HandleError, HandleRead, objVars
    <2> QED BY <1>1, <1>6, <1>7, <2>1 DEF Threads, KickAllTcpDevices
  <1>8. CASE Shutdown
    BY <1>1, <1>8 DEF Shutdown, StopHandler, DrainOne, KickAllTransports, objVars
  <1>9. CASE UNCHANGED vars
    BY <1>1, <1>9 DEF vars
  <1> QED BY <1>4, <1>5, <1>7, <1>8, <1>9 DEF Next

\* Whatever packets a device sends, and however late they are handled, a
\* transport is deleted with a listener or socket attached only if the default
\* branch of A_AUTH put it offline last or a packet of an ended connection
\* put it online again.
THEOREM OnlyStrayCorrect == Spec => []OnlyStrayIsLeft
  <1>1. TypeOK /\ AttachedInv /\ [Next]_vars => AttachedInv'
    BY AttachedInductive
  <1>2. Inv /\ QuietInv /\ AttachedInv => OnlyStrayIsLeft
    <2> SUFFICES ASSUME Inv, QuietInv, AttachedInv, NEW t \in attached, t \notin stray, t \notin late
                 PROVE  mem[t] = "live"
      BY DEF OnlyStrayIsLeft
    <2>1. t \in Transports /\ cstate[t] # "offline"
      BY DEF Inv, TypeOK, AttachedInv
    <2>2. conn[t] = "started" \/ Queued("error", t)
      BY <2>1 DEF QuietInv, Quiet, Over
    <2>3. Held(t) /\ Connected(t)
      BY <2>1 DEF Inv, HeldInv, ConnInv
    <2> QED BY <2>2, <2>3 DEF Held, Connected, QueueHolds
  <1>3. Inv => TypeOK
    BY DEF Inv
  <1> QED BY <1>1, <1>2, <1>3, QuietInitially, QuietCorrect, PTL DEF Spec
==============================================================================
