----------------------------- MODULE ClientProofs ----------------------------
(***************************************************************************)
(* Proofs about the client's commands.  HostClient: for every set of       *)
(* devices and of targets, every number of threads and commands and every  *)
(* coming and going of transports.                                         *)
(* InstallSessions: for every number of packages and files, and every      *)
(* failure of the device and of its connections.                           *)
(***************************************************************************)
EXTENDS HostClient, InstallSessions, FiniteSetTheorems, TLAPS

------------------------------------------------------------------------------
(* acquire_one_transport.                                                  *)

States  == {"connecting", "unauthorized", "offline", "device"}
Entries == [id : Nat, dev : Devices, state : States, known : BOOLEAN]

\* What is acquired for a target is the one transport that matches it.
LEMMA AcquiredIsTheOne ==
    ASSUME list \in Seq(Entries), NEW r, NEW any, NEW t \in Acquire(r, any)
    PROVE  Candidate(t, r) /\ Cardinality(Candidates(r)) = 1
  <1> DEFINE I == {j \in DOMAIN list : Candidate(list[j], r)}
             f == [i \in I |-> list[i]]
  <1>1. IsFiniteSet(I)
    <2>1. DOMAIN list = 1..Len(list) /\ Len(list) \in Int
      OBVIOUS
    <2>2. IsFiniteSet(1..Len(list))
      BY <2>1, FS_Interval
    <2> QED BY <2>1, <2>2, FS_Subset
  <1>2. f \in Surjection(I, Candidates(r))
    BY DEF Surjection, Candidates
  <1>3. IsFiniteSet(Candidates(r))
    <2> HIDE DEF I, f
    <2> QED BY <1>1, <1>2, FS_Surjection
  <1>4. t \in Candidates(r) /\ ~(Cardinality(Candidates(r)) > 1)
    BY DEF Acquire, IsAmbiguous
  <1>5. Cardinality(Candidates(r)) \in Nat /\ Cardinality(Candidates(r)) # 0
    BY <1>3, <1>4, FS_CardinalityType, FS_EmptySet
  <1>6. Candidate(t, r)
    BY <1>4 DEF Candidates
  <1> QED BY <1>4, <1>5, <1>6

------------------------------------------------------------------------------
(* The inductive invariant.                                                *)

Types ==
    /\ list \in Seq(Entries) /\ nextId \in Nat
    /\ DOMAIN pc = Threads /\ cmd \in [Threads -> Commands] /\ DOMAIN want = Threads
    /\ DOMAIN msg = Threads /\ DOMAIN prev = Threads /\ DOMAIN sel = Threads

\* Commands that connect to a device, and that ask for its features first.
Connecting == {"shell", "logcat", "forward", "root", "service"}
Featured   == {"shell", "logcat", "forward"}

\* The command and the request that lead a thread to where it is.
CommandInv(th) ==
    /\ pc[th] = "start" => cmd[th] \in Featured
    /\ pc[th] \in {"connect", "open", "opened"} => cmd[th] \in Connecting
    /\ pc[th] \in {"reply", "back"} => cmd[th] = "root"
    /\ pc[th] = "wait" => cmd[th] \notin {"shell", "forward", "root", "service"}
    /\ pc[th] = "asked" =>
          /\ msg[th].svc = "features" => cmd[th] \in Featured
          /\ msg[th].svc = "tport" => cmd[th] \in Connecting
          /\ msg[th].svc = "wait-device" => cmd[th] \in {"wait", "logcat", "root"}
          /\ msg[th].svc = "wait-gone" => cmd[th] = "root"
          /\ msg[th].svc \in {"query", "reconnect"} => cmd[th] # "disconnect"

\* The globals hold the target of the options, but for the time between the
\* reply to adb_root and the end of the transport that gave it, when prev
\* does.
Astray(th) ==
    \/ pc[th] \in {"idle", "back"}
    \/ pc[th] = "asked" /\ msg[th].svc = "wait-gone"

TargetInv(th) ==
    /\ ~Astray(th) /\ cmd[th] # "disconnect" => g = want[th]
    /\ pc[th] = "back" => prev[th] = want[th]
    /\ pc[th] = "asked" /\ msg[th].svc # "disconnect" =>
          IF msg[th].svc = "wait-gone"
          THEN prev[th] = want[th] /\ msg[th].req.id = sel[th][1].id
          ELSE msg[th].req = want[th]

Given(th) == sel[th] # <<>> => Candidate(sel[th][1], want[th]) /\ sel[th][2] = 1

TargetsInv ==
    /\ Types
    /\ \A th \in Threads : CommandInv(th) /\ (th \notin mixed => TargetInv(th) /\ Given(th))

LEMMA SameTargets ==
    ASSUME NEW th, CommandInv(th), th \notin mixed => TargetInv(th) /\ Given(th),
           UNCHANGED <<g, pc, cmd, want, msg, prev, sel, mixed>>
    PROVE  CommandInv(th)' /\ (th \notin mixed' => TargetInv(th)' /\ Given(th)')
  <1>1. CommandInv(th)'
    BY DEF CommandInv
  <1>2. TargetInv(th) => TargetInv(th)'
    BY DEF TargetInv, Astray
  <1>3. Given(th) => Given(th)'
    BY DEF Given
  <1> QED BY <1>1, <1>2, <1>3

LEMMA TransportsKeepTypes ==
    ASSUME Types, Transports
    PROVE  list' \in Seq(Entries) /\ nextId' \in Nat
  <1>1. ASSUME NEW d \in Devices, Register(d) PROVE list' \in Seq(Entries) /\ nextId' \in Nat
    <2> DEFINE t == [id |-> nextId, dev |-> d, state |-> "connecting", known |-> FALSE]
    <2>1. t \in Entries
      BY DEF Types, Entries, States
    <2>2. list' = <<t>> \o list /\ nextId' = nextId + 1
      BY <1>1 DEF Register
    <2> HIDE DEF t
    <2> QED BY <2>1, <2>2 DEF Types
  <1>2. ASSUME NEW i \in DOMAIN list, NEW t \in Entries, list' = [list EXCEPT ![i] = t]
        PROVE  list' \in Seq(Entries)
    BY <1>2 DEF Types
  <1>3. ASSUME NEW i \in DOMAIN list, NEW x \in States
        PROVE  /\ [list[i] EXCEPT !.state = x] \in Entries
               /\ [list[i] EXCEPT !.state = x, !.known = TRUE] \in Entries
    <2>1. list[i] \in Entries
      BY DEF Types
    <2> QED BY <2>1, Zenon DEF Entries
  <1>4. ASSUME NEW i \in DOMAIN list, Online(i) PROVE list' \in Seq(Entries) /\ nextId' \in Nat
    <2>1. CASE list' = [list EXCEPT ![i].state = "device", ![i].known = TRUE]
      <3> DEFINE t == [list[i] EXCEPT !.state = "device", !.known = TRUE]
      <3>1. t \in Entries
        BY <1>3, Zenon DEF States
      <3>2. list' = [list EXCEPT ![i] = t]
        BY <2>1, Zenon
      <3> HIDE DEF t
      <3> QED BY <1>2, <1>4, <3>1, <3>2 DEF Online, Types
    <2>2. CASE list' = [list EXCEPT ![i].state = "unauthorized"]
      <3> DEFINE t == [list[i] EXCEPT !.state = "unauthorized"]
      <3>1. t \in Entries
        BY <1>3, Zenon DEF States
      <3>2. list' = [list EXCEPT ![i] = t]
        BY <2>2
      <3> HIDE DEF t
      <3> QED BY <1>2, <1>4, <3>1, <3>2 DEF Online, Types
    <2> QED BY <1>4, <2>1, <2>2 DEF Online
  <1>5. ASSUME NEW i \in DOMAIN list, Offline(i) PROVE list' \in Seq(Entries) /\ nextId' \in Nat
    <2> DEFINE t == [list[i] EXCEPT !.state = "offline"]
    <2>1. t \in Entries
      BY <1>3, Zenon DEF States
    <2>2. list' = [list EXCEPT ![i] = t]
      BY <1>5 DEF Offline
    <2> HIDE DEF t
    <2> QED BY <1>2, <1>5, <2>1, <2>2 DEF Offline, Types
  <1>6. ASSUME NEW i \in DOMAIN list, Unregister(i) PROVE list' \in Seq(Entries) /\ nextId' \in Nat
    BY <1>6 DEF Types, Unregister
  <1> QED BY <1>1, <1>4, <1>5, <1>6 DEF Transports

\* Transports come and go behind the client's back.
LEMMA TransportsKeepTargets ==
    ASSUME TargetsInv, Transports
    PROVE  TargetsInv'
  <1>1. UNCHANGED <<g, pc, cmd, want, msg, prev, sel, mixed>>
    BY Zenon DEF Transports, Register, Online, Offline, Unregister, Env, global
  <1>2. Types'
    BY <1>1, TransportsKeepTypes DEF TargetsInv, Types
  <1> QED BY <1>1, <1>2, SameTargets DEF TargetsInv

LEMMA BeginKeepsTargets ==
    ASSUME NEW th \in Threads, Types, NEW o \in Options, NEW c \in Commands, Begin(th, o, c)
    PROVE  Types' /\ CommandInv(th)' /\ TargetInv(th)' /\ Given(th)'
  <1>1. /\ pc'[th] = FirstStep(c) /\ cmd'[th] = c /\ want'[th] = o /\ sel'[th] = <<>>
        /\ g' = IF c = "disconnect" THEN Default ELSE o
    BY DEF Types, Begin, Go, SetTransport
  <1>2. Types'
    BY DEF Types, Begin, Go, server
  <1>3. pc'[th] \in {"start", "connect", "wait"}
    BY <1>1 DEF FirstStep
  <1>4. CommandInv(th)'
    BY <1>1, <1>3 DEF CommandInv, FirstStep, Commands, Featured, Connecting
  <1>5. TargetInv(th)'
    BY <1>1, <1>3 DEF TargetInv
  <1>6. Given(th)'
    BY <1>1 DEF Given
  <1> QED BY <1>2, <1>4, <1>5, <1>6

\* The client's own steps.
LEMMA ClientKeepsTargets ==
    ASSUME NEW th \in Threads, Types, CommandInv(th), Client(th)
    PROVE  Types' /\ CommandInv(th)' /\ (TargetInv(th) /\ Given(th) => TargetInv(th)' /\ Given(th)')
  <1>1. Types /\ CommandInv(th)
    OBVIOUS
  <1>2. CASE Request(th)
    <2>1. Types'
      BY <1>1, <1>2 DEF Types, Request, Go, Send, server
    <2>2. /\ pc[th] = "wait" /\ pc'[th] = "asked" /\ UNCHANGED <<g, cmd, want, prev, sel>>
          /\ msg'[th] = [svc |-> IF cmd[th] \in {"wait", "logcat", "root"} THEN "wait-device" ELSE cmd[th],
                         req |-> IF cmd[th] = "disconnect" THEN want[th] ELSE g]
      BY <1>1, <1>2 DEF Types, Request, Go, Send, RequestTarget, global
    <2>3. /\ msg'[th].svc = IF cmd[th] \in {"wait", "logcat", "root"} THEN "wait-device" ELSE cmd[th]
          /\ msg'[th].req = IF cmd[th] = "disconnect" THEN want[th] ELSE g
      BY <2>2
    <2>4. cmd[th] \in Commands
      BY <1>1 DEF Types
    <2>5. CommandInv(th)'
      BY <1>1, <2>2, <2>3, <2>4 DEF CommandInv, Commands
    <2>6. TargetInv(th) => TargetInv(th)'
      BY <1>1, <2>2, <2>3, <2>4 DEF TargetInv, Astray, Commands
    <2>7. TargetInv(th) /\ Given(th) => Given(th)'
      BY <1>1, <2>2 DEF Given
    <2> QED BY <2>1, <2>5, <2>6, <2>7
  <1>3. CASE GetFeatureSet(th)
    <2>1. Types'
      BY <1>1, <1>3 DEF Types, GetFeatureSet, Go, Send, server, local
    <2>2. CommandInv(th)'
      BY <1>1, <1>3 DEF Types, CommandInv, Featured, Connecting, GetFeatureSet, Go, Send, local
    <2>3. TargetInv(th) => TargetInv(th)'
      BY <1>1, <1>3 DEF Types, CommandInv, TargetInv, Astray, Featured, Connecting, GetFeatureSet, Go, Send, global, local
    <2>4. TargetInv(th) /\ Given(th) => Given(th)'
      BY <1>1, <1>3 DEF Given, GetFeatureSet, local
    <2> QED BY <2>1, <2>2, <2>3, <2>4
  <1>4. CASE Connect(th)
    <2>1. Types'
      BY <1>1, <1>4 DEF Types, Connect, Go, Send, server, local
    <2>2. CommandInv(th)'
      BY <1>1, <1>4 DEF Types, CommandInv, Featured, Connecting, Connect, Go, Send, local
    <2>3. TargetInv(th) => TargetInv(th)'
      BY <1>1, <1>4 DEF Types, CommandInv, TargetInv, Astray, Featured, Connecting, Connect, Go, Send, global, local
    <2>4. TargetInv(th) /\ Given(th) => Given(th)'
      BY <1>1, <1>4 DEF Given, Connect, local
    <2> QED BY <2>1, <2>2, <2>3, <2>4
  <1>5. CASE Open(th)
    <2>1. Types'
      BY <1>1, <1>5 DEF Types, Open, Go, server, local
    <2>2. CommandInv(th)'
      BY <1>1, <1>5 DEF Types, CommandInv, Featured, Connecting, Open, Go, local
    <2>3. TargetInv(th) => TargetInv(th)'
      BY <1>1, <1>5 DEF Types, CommandInv, TargetInv, Astray, Open, Go, global, local
    <2>4. TargetInv(th) /\ Given(th) => Given(th)'
      BY <1>1, <1>5 DEF Given, Open, local
    <2> QED BY <2>1, <2>2, <2>3, <2>4
  <1>6. CASE RootReply(th)
    <2>1. Types'
      BY <1>1, <1>6 DEF Types, RootReply, Go, Send, server
    <2>2. /\ pc[th] = "reply" /\ cmd[th] = "root" /\ UNCHANGED <<cmd, want, sel>>
          /\ TargetInv(th) => g = want[th]
      BY <1>1, <1>6 DEF RootReply, CommandInv, TargetInv, Astray
    <2>3. \/ pc'[th] = "idle"
          \/ pc'[th] = "asked" /\ prev'[th] = g /\ msg'[th].svc = "wait-gone" /\ msg'[th].req.id = sel[th][1].id
      BY <1>1, <1>6 DEF Types, RootReply, Go, Send, SetTransport, Default
    <2>4. CommandInv(th)'
      BY <2>2, <2>3 DEF CommandInv
    <2>5. TargetInv(th) => TargetInv(th)'
      BY <2>2, <2>3 DEF TargetInv, Astray
    <2>6. TargetInv(th) /\ Given(th) => Given(th)'
      BY <1>1, <2>2 DEF Given
    <2> QED BY <2>1, <2>4, <2>5, <2>6
  <1>7. CASE RootBack(th)
    <2>1. Types'
      BY <1>1, <1>7 DEF Types, RootBack, Go, Send, server, local
    <2>2. CommandInv(th)'
      BY <1>1, <1>7 DEF Types, CommandInv, Featured, Connecting, RootBack, Go, Send, local
    <2>3. TargetInv(th) => TargetInv(th)'
      BY <1>1, <1>7 DEF Types, CommandInv, TargetInv, Astray, RootBack, Go, Send, SetTransport, Restore, local
    <2>4. TargetInv(th) /\ Given(th) => Given(th)'
      BY <1>1, <1>7 DEF Given, RootBack, local
    <2> QED BY <2>1, <2>2, <2>3, <2>4
  <1> QED BY <1>2, <1>3, <1>4, <1>5, <1>6, <1>7 DEF Client

\* The connection opens, fails or ends.
LEMMA EndsKeepTargets ==
    ASSUME NEW th \in Threads, Types, CommandInv(th), OpenSucceeds(th) \/ OpenFails(th) \/ SessionEnds(th)
    PROVE  Types' /\ CommandInv(th)' /\ (TargetInv(th) /\ Given(th) => TargetInv(th)' /\ Given(th)')
  <1>1. Types /\ CommandInv(th)
    OBVIOUS
  <1>2. CASE OpenSucceeds(th)
    <2>1. Types'
      BY <1>1, <1>2 DEF Types, OpenSucceeds, Go, server, local
    <2>2. CommandInv(th)'
      BY <1>1, <1>2 DEF Types, CommandInv, Featured, Connecting, OpenSucceeds, Go, local
    <2>3. TargetInv(th) => TargetInv(th)'
      BY <1>1, <1>2 DEF Types, CommandInv, TargetInv, Astray, OpenSucceeds, Go, global, local
    <2>4. TargetInv(th) /\ Given(th) => Given(th)'
      BY <1>1, <1>2 DEF Given, OpenSucceeds, local
    <2> QED BY <2>1, <2>2, <2>3, <2>4
  <1>3. CASE OpenFails(th)
    <2>1. Types'
      BY <1>1, <1>3 DEF Types, OpenFails, Go, server, local
    <2>2. CommandInv(th)'
      BY <1>1, <1>3 DEF Types, CommandInv, Featured, Connecting, OpenFails, Go, AfterFailure, local
    <2>3. TargetInv(th) => TargetInv(th)'
      BY <1>1, <1>3 DEF Types, CommandInv, TargetInv, Astray, OpenFails, Go, AfterFailure, global, local
    <2>4. TargetInv(th) /\ Given(th) => Given(th)'
      BY <1>1, <1>3 DEF Given, OpenFails, local
    <2> QED BY <2>1, <2>2, <2>3, <2>4
  <1>4. CASE SessionEnds(th)
    <2>1. Types'
      BY <1>1, <1>4 DEF Types, SessionEnds, Go, server, local
    <2>2. CommandInv(th)'
      BY <1>1, <1>4 DEF Types, CommandInv, Featured, Connecting, SessionEnds, Go, local
    <2>3. TargetInv(th) => TargetInv(th)'
      BY <1>1, <1>4 DEF Types, CommandInv, TargetInv, Astray, SessionEnds, Go, global, local
    <2>4. TargetInv(th) /\ Given(th) => Given(th)'
      BY <1>1, <1>4 DEF Given, SessionEnds, local
    <2> QED BY <2>1, <2>2, <2>3, <2>4
  <1> QED BY <1>2, <1>3, <1>4

\* handle_host_request.
LEMMA ServeKeepsTargets ==
    ASSUME NEW th \in Threads, Types, CommandInv(th), Serve(th)
    PROVE  Types' /\ CommandInv(th)' /\ (TargetInv(th) /\ Given(th) => TargetInv(th)' /\ Given(th)')
  <1>1. Types /\ CommandInv(th)
    OBVIOUS
  <1>2. CASE SwitchTransport(th)
    <2>1. Types'
      BY <1>1, <1>2 DEF Types, SwitchTransport, Go, server, local
    <2>2. CommandInv(th)'
      BY <1>1, <1>2 DEF Types, CommandInv, Featured, Connecting, SwitchTransport, Go, Asked,
           AfterFailure, local
    <2>3. TargetInv(th) => TargetInv(th)'
      BY <1>1, <1>2 DEF Types, CommandInv, TargetInv, Astray, SwitchTransport, Go, Asked, AfterFailure,
           global, local
    <2>4. TargetInv(th) /\ Given(th) => Given(th)'
      <3> SUFFICES ASSUME TargetInv(th), Given(th) PROVE Given(th)'
        OBVIOUS
      <3>1. msg[th].req = want[th] /\ UNCHANGED want
        BY <1>1, <1>2 DEF SwitchTransport, Asked, TargetInv
      <3>2. ASSUME NEW t \in Acquire(want[th], FALSE),
                   sel' = [sel EXCEPT ![th] = <<t, Cardinality(Candidates(want[th]))>>]
            PROVE  Given(th)'
        <4>1. Candidate(t, want[th]) /\ Cardinality(Candidates(want[th])) = 1
          BY <1>1, AcquiredIsTheOne DEF Types
        <4>2. sel'[th] = <<t, 1>>
          BY <1>1, <3>2, <4>1 DEF Types
        <4>3. sel'[th][1] = t /\ sel'[th][2] = 1 /\ want'[th] = want[th]
          BY <3>1, <4>2
        <4> QED BY <4>1, <4>3 DEF Given
      <3>3. CASE UNCHANGED sel
        BY <1>1, <3>1, <3>3 DEF Given
      <3> QED BY <1>2, <3>1, <3>2, <3>3 DEF SwitchTransport
    <2> QED BY <2>1, <2>2, <2>3, <2>4
  <1>3. CASE Features(th)
    <2>1. Types'
      BY <1>1, <1>3 DEF Types, Features, Go, server, local
    <2>2. CommandInv(th)'
      BY <1>1, <1>3 DEF Types, CommandInv, Featured, Connecting, Features, Go, Asked, AfterFailure,
           WithoutFeatures, local
    <2>3. TargetInv(th) => TargetInv(th)'
      BY <1>1, <1>3 DEF Types, CommandInv, TargetInv, Astray, Features, Go, Asked, AfterFailure,
           WithoutFeatures, local
    <2>4. TargetInv(th) /\ Given(th) => Given(th)'
      BY <1>1, <1>3 DEF Given, Features, local
    <2> QED BY <2>1, <2>2, <2>3, <2>4
  <1>4. CASE Query(th)
    <2>1. Types'
      BY <1>1, <1>4 DEF Types, Query, Go, local
    <2>2. CommandInv(th)'
      BY <1>1, <1>4 DEF Types, CommandInv, Featured, Connecting, Query, Go, Asked, local
    <2>3. TargetInv(th) => TargetInv(th)'
      BY <1>1, <1>4 DEF Types, CommandInv, TargetInv, Astray, Query, Go, Asked, global, local
    <2>4. TargetInv(th) /\ Given(th) => Given(th)'
      <3> SUFFICES ASSUME TargetInv(th), Given(th) PROVE Given(th)'
        OBVIOUS
      <3> DEFINE A == Acquire(want[th], msg[th].svc = "reconnect")
      <3>1. msg[th].req = want[th] /\ UNCHANGED want
        BY <1>1, <1>4 DEF Query, Asked, TargetInv
      <3>2. sel'[th] = IF A = {} THEN <<>> ELSE <<CHOOSE t \in A : TRUE, Cardinality(Candidates(want[th]))>>
        BY <1>1, <1>4, <3>1 DEF Query, Types
      <3>3. CASE A = {}
        BY <3>2, <3>3 DEF Given
      <3>4. CASE A # {}
        <4> DEFINE t == CHOOSE u \in A : TRUE
        <4>1. t \in A
          BY <3>4
        <4>2. Candidate(t, want[th]) /\ Cardinality(Candidates(want[th])) = 1
          BY <1>1, <4>1, AcquiredIsTheOne DEF Types
        <4>3. sel'[th] = <<t, 1>>
          BY <3>2, <3>4, <4>2
        <4> HIDE DEF t
        <4>4. sel'[th][1] = t /\ sel'[th][2] = 1 /\ want'[th] = want[th]
          BY <3>1, <4>3
        <4> QED BY <4>2, <4>4 DEF Given
      <3> QED BY <3>3, <3>4
    <2> QED BY <2>1, <2>2, <2>3, <2>4
  <1>5. CASE Disconnect(th)
    <2>1. Types'
      BY <1>1, <1>5 DEF Types, Disconnect, Go, local
    <2>2. CommandInv(th)'
      BY <1>1, <1>5 DEF Types, CommandInv, Featured, Connecting, Disconnect, Go, Asked, local
    <2>3. TargetInv(th) => TargetInv(th)'
      BY <1>1, <1>5 DEF Types, CommandInv, TargetInv, Astray, Disconnect, Go, Asked, global, local
    <2>4. TargetInv(th) /\ Given(th) => Given(th)'
      BY <1>1, <1>5 DEF Given, Disconnect, local
    <2> QED BY <2>1, <2>2, <2>3, <2>4
  <1>6. CASE WaitDevice(th)
    <2>1. Types'
      BY <1>1, <1>6 DEF Types, WaitDevice, Go, server, local
    <2>2. CommandInv(th)'
      BY <1>1, <1>6 DEF Types, CommandInv, Featured, Connecting, WaitDevice, Go, Asked, local
    <2>3. TargetInv(th) => TargetInv(th)'
      BY <1>1, <1>6 DEF Types, CommandInv, TargetInv, Astray, WaitDevice, Go, Asked, global, local
    <2>4. TargetInv(th) /\ Given(th) => Given(th)'
      BY <1>1, <1>6 DEF Given, WaitDevice, local
    <2> QED BY <2>1, <2>2, <2>3, <2>4
  <1>7. CASE WaitGone(th)
    <2>1. Types'
      BY <1>1, <1>7 DEF Types, WaitGone, Go, server, local
    <2>2. CommandInv(th)'
      BY <1>1, <1>7 DEF Types, CommandInv, Featured, Connecting, WaitGone, Go, Asked, local
    <2>3. TargetInv(th) => TargetInv(th)'
      BY <1>1, <1>7 DEF Types, CommandInv, TargetInv, Astray, WaitGone, Go, Asked, global, local
    <2>4. TargetInv(th) /\ Given(th) => Given(th)'
      BY <1>1, <1>7 DEF Given, WaitGone, local
    <2> QED BY <2>1, <2>2, <2>3, <2>4
  <1> QED BY <1>2, <1>3, <1>4, <1>5, <1>6, <1>7 DEF Serve

\* What a thread does to the others: it may write the globals under a command
\* that runs, and is then remembered.
LEMMA OthersKept ==
    ASSUME NEW th \in Threads, NEW u \in Threads \ {th}, Types,
           \/ \E o \in Options, c \in Commands : Begin(th, o, c)
           \/ Client(th) \/ OpenSucceeds(th) \/ OpenFails(th) \/ SessionEnds(th) \/ Serve(th)
    PROVE  /\ pc'[u] = pc[u] /\ cmd'[u] = cmd[u] /\ want'[u] = want[u] /\ msg'[u] = msg[u]
           /\ prev'[u] = prev[u] /\ sel'[u] = sel[u]
           /\ g' = g \/ pc[u] = "idle" \/ u \in mixed'
           /\ u \in mixed => u \in mixed'
  <1>1. ASSUME NEW o \in Options, NEW c \in Commands, Begin(th, o, c)
        PROVE  /\ pc'[u] = pc[u] /\ cmd'[u] = cmd[u] /\ want'[u] = want[u] /\ msg'[u] = msg[u]
               /\ prev'[u] = prev[u] /\ sel'[u] = sel[u]
               /\ g' = g \/ pc[u] = "idle" \/ u \in mixed'
               /\ u \in mixed => u \in mixed'
    BY <1>1 DEF Begin, Go, Busy, Types
  <1>2. CASE RootReply(th)
    BY <1>2 DEF RootReply, Go, Send, Busy, Types
  <1>3. CASE RootBack(th)
    BY <1>3 DEF RootBack, Go, Send, Busy, Types
  <1>4. CASE Request(th) \/ GetFeatureSet(th) \/ Connect(th) \/ Open(th)
    BY <1>4 DEF Request, GetFeatureSet, Connect, Open, Go, Send, Types, global, local
  <1>5. CASE OpenSucceeds(th) \/ OpenFails(th) \/ SessionEnds(th)
    BY <1>5 DEF OpenSucceeds, OpenFails, SessionEnds, Go, Types, global, local
  <1>6. CASE Serve(th)
    BY <1>6 DEF Serve, SwitchTransport, Features, Query, Disconnect, WaitDevice, WaitGone, Go, Types,
                global, local
  <1> QED BY <1>1, <1>2, <1>3, <1>4, <1>5, <1>6 DEF Client

LEMMA OtherTargetsKept ==
    ASSUME NEW th \in Threads, NEW u \in Threads \ {th}, TargetsInv,
           \/ \E o \in Options, c \in Commands : Begin(th, o, c)
           \/ Client(th) \/ OpenSucceeds(th) \/ OpenFails(th) \/ SessionEnds(th) \/ Serve(th)
    PROVE  CommandInv(u)' /\ (u \notin mixed' => TargetInv(u)' /\ Given(u)')
  <1>1. /\ pc'[u] = pc[u] /\ cmd'[u] = cmd[u] /\ want'[u] = want[u] /\ msg'[u] = msg[u]
        /\ prev'[u] = prev[u] /\ sel'[u] = sel[u]
        /\ g' = g \/ pc[u] = "idle" \/ u \in mixed'
        /\ u \in mixed => u \in mixed'
    BY OthersKept DEF TargetsInv
  <1>2. CommandInv(u) /\ (u \notin mixed => TargetInv(u) /\ Given(u))
    BY DEF TargetsInv
  <1>3. CommandInv(u)'
    BY <1>1, <1>2 DEF CommandInv
  <1>4. Given(u) => Given(u)'
    BY <1>1 DEF Given
  <1>5. TargetInv(u) /\ u \notin mixed' => TargetInv(u)'
    BY <1>1 DEF TargetInv, Astray
  <1> QED BY <1>1, <1>2, <1>3, <1>4, <1>5

LEMMA ThreadKeepsTargets ==
    ASSUME TargetsInv, NEW th \in Threads,
           \/ \E o \in Options, c \in Commands : Begin(th, o, c)
           \/ Client(th) \/ OpenSucceeds(th) \/ OpenFails(th) \/ SessionEnds(th) \/ Serve(th)
    PROVE  TargetsInv'
  <1>1. Types /\ CommandInv(th) /\ (th \notin mixed => TargetInv(th) /\ Given(th))
    BY DEF TargetsInv
  <1>2. \A u \in Threads \ {th} : CommandInv(u)' /\ (u \notin mixed' => TargetInv(u)' /\ Given(u)')
    BY OtherTargetsKept
  <1>3. CASE \E o \in Options, c \in Commands : Begin(th, o, c)
    BY <1>1, <1>2, <1>3, BeginKeepsTargets DEF TargetsInv
  <1>4. CASE Client(th) \/ OpenSucceeds(th) \/ OpenFails(th) \/ SessionEnds(th) \/ Serve(th)
    <2>1. th \in mixed => th \in mixed'
      <3>1. CASE Client(th)
        BY <3>1 DEF Client, Request, GetFeatureSet, Connect, Open, RootReply, RootBack
      <3>2. CASE OpenSucceeds(th) \/ OpenFails(th) \/ SessionEnds(th) \/ Serve(th)
        BY <3>2 DEF OpenSucceeds, OpenFails, SessionEnds, Serve, SwitchTransport, Features, Query,
                    Disconnect, WaitDevice, WaitGone
      <3> QED BY <1>4, <3>1, <3>2
    <2>2. Types' /\ CommandInv(th)' /\ (TargetInv(th) /\ Given(th) => TargetInv(th)' /\ Given(th)')
      BY <1>1, <1>4, ClientKeepsTargets, EndsKeepTargets, ServeKeepsTargets
    <2> QED BY <1>1, <1>2, <2>1, <2>2 DEF TargetsInv
  <1> QED BY <1>3, <1>4

LEMMA TargetsInvariant == Spec => []TargetsInv
  <1>1. Init => TargetsInv
    <2> SUFFICES ASSUME Init PROVE TargetsInv
      OBVIOUS
    <2>1. Types
      BY DEF Init, Types, Commands
    <2>2. \A th \in Threads : CommandInv(th) /\ TargetInv(th) /\ Given(th)
      BY DEF Init, CommandInv, TargetInv, Astray, Given
    <2> QED BY <2>1, <2>2 DEF TargetsInv
  <1>2. TargetsInv /\ [Next]_vars => TargetsInv'
    <2> SUFFICES ASSUME TargetsInv, [Next]_vars PROVE TargetsInv'
      OBVIOUS
    <2>1. CASE Transports
      BY <2>1, TransportsKeepTargets
    <2>2. ASSUME NEW th \in Threads,
                 \/ \E o \in Options, c \in Commands : Begin(th, o, c)
                 \/ Client(th) \/ OpenSucceeds(th) \/ OpenFails(th) \/ SessionEnds(th) \/ Serve(th)
          PROVE  TargetsInv'
      BY <2>2, ThreadKeepsTargets
    <2>3. CASE TimeoutExpires \/ UNCHANGED vars
      <3>1. UNCHANGED <<list, nextId, g, pc, cmd, want, msg, prev, sel, mixed>>
        BY <2>3 DEF TimeoutExpires, server, local, vars
      <3>2. Types'
        BY <3>1 DEF TargetsInv, Types
      <3> QED BY <3>1, <3>2, SameTargets DEF TargetsInv
    <2> QED BY <2>1, <2>2, <2>3 DEF Next
  <1> QED BY <1>1, <1>2, PTL DEF Spec

\* Every request of a command is made for the target its own options named,
\* and acquire_one_transport finds exactly one transport for it: a command is
\* never given another device because of what earlier commands left in the
\* globals (adb_root changes them on its way), nor because transports came or
\* went between its requests; only a thread that sets the globals meanwhile
\* can do that.
THEOREM RightDeviceCorrect == Spec => []RightDevice
  <1>1. TargetsInv => RightDevice
    BY DEF TargetsInv, Given, RightDevice
  <1> QED BY <1>1, TargetsInvariant, PTL

\* adb_root waits for the end of the transport it ran on, and after that for
\* the target of its own options, although the globals name the transport's
\* id in between, unless another thread sets them meanwhile.
THEOREM RootWaitsCorrect == Spec => []RootWaitsForItsDevice
  <1>1. TargetsInv => RootWaitsForItsDevice
    BY DEF TargetsInv, TargetInv, RootWaitsForItsDevice
  <1> QED BY <1>1, TargetsInvariant, PTL

------------------------------------------------------------------------------
(* InstallSessions.                                                        *)

\* The steps before the parent session is committed or abandoned.
Streaming == step \in {"child", "write", "finalize"}

\* Until then nothing is committed and the parent is open.
NotYet ==
    /\ step = "parent" => \A s \in Sessions : state[s] = "none"
    /\ Streaming => state[0] = "open" /\ \A s \in Sessions : state[s] # "committed"

\* Packages before the one at hand are written, the ones after it are not.
Progress ==
    /\ step = "parent" => ~complete /\ known = {} /\ at = 1 /\ split = 0 /\ \A s \in Sessions : written[s] = 0
    /\ step = "child" => multi
    /\ step = "write" => (multi => at <= Packages) /\ written[Current] = split
    /\ step \in {"child", "write"} =>
          /\ ~complete
          /\ \A c \in Children : /\ c < at => written[c] = Splits /\ state[c] = "open"
                                 /\ c > at \/ (c = at /\ step = "child") => written[c] = 0
    /\ step = "write" /\ multi => state[at] = "open"

Full == \A s \in Packed : written[s] = Splits

\* What "success" stands for while the parent is still open.
CompleteIsFull ==
    complete => /\ Full
                /\ linked = Children
                /\ step = "finalize" => \A c \in Children : state[c] = "open"

\* Open sessions are known to the client, and in the loop still to do.
OpenIsKnown ==
    /\ ~lost => \A s \in Sessions : state[s] = "open" => s \in known
    /\ ~lost /\ step = "abandon" => \A s \in Sessions : state[s] = "open" => s \in todo

InstallInv ==
    /\ InstallTypeOK /\ NotYet /\ Progress /\ CompleteIsFull
    /\ CommitIsWhole /\ SuccessIsInstalled

LEMMA SessionsFacts ==
    /\ Packages \in Nat /\ Packages >= 1 /\ Splits \in Nat /\ Splits >= 1
    /\ 0 \in Sessions
    /\ 1..Packages \subseteq Sessions
    /\ \A c \in 1..Packages : c \in Nat /\ c >= 1 /\ c <= Packages
  BY InstallAssumption DEF Sessions

\* The initial states satisfy the invariant.
LEMMA InitInstallInv == InstallInit => InstallInv
  <1> SUFFICES ASSUME InstallInit PROVE InstallInv
    OBVIOUS
  <1> USE SessionsFacts DEF InstallInit, Children
  <1>1. InstallTypeOK
    <2>1. at \in 1..(Packages + 1) /\ 0 \in 0..Splits
      OBVIOUS
    <2> QED
      BY <2>1 DEF InstallTypeOK
  <1>2. NotYet /\ Progress
    BY DEF NotYet, Streaming, Progress
  <1>3. CompleteIsFull /\ CommitIsWhole /\ SuccessIsInstalled
    BY DEF CompleteIsFull, CommitIsWhole, SuccessIsInstalled, Packed
  <1> QED
    BY <1>1, <1>2, <1>3 DEF InstallInv

\* Every step of the client and the device keeps the invariant.
LEMMA NextInstallInv == InstallInv /\ [InstallNext]_installVars => InstallInv'
  <1> SUFFICES ASSUME InstallInv, [InstallNext]_installVars PROVE InstallInv'
    OBVIOUS
  <1> USE SessionsFacts
  <1> USE DEF InstallInv, InstallTypeOK, NotYet, Streaming, Progress, CompleteIsFull,
              CommitIsWhole,
              SuccessIsInstalled, Current, Full, Children, Packed
  <1>1. CASE CreateParent
    <2> USE <1>1 DEF CreateParent, CreateSession, Answered, Unanswered,
                     deviceVars
    <2>1. InstallTypeOK'
      OBVIOUS
    <2>2. NotYet'
      OBVIOUS
    <2>3. Progress'
      OBVIOUS
    <2>4. CompleteIsFull' /\ CommitIsWhole' /\ SuccessIsInstalled'
      OBVIOUS
    <2> QED
      BY <2>1, <2>2, <2>3, <2>4
  <1>2. CASE CreateChild
    <2> USE <1>2 DEF CreateChild, CreateSession, Answered, Unanswered,
                     deviceVars
    <2>1. InstallTypeOK'
      <3>1. at \in Sessions /\ 0 \in 0..Splits
        BY DEF Sessions
      <3> QED
        BY <3>1
    <2>2. NotYet'
      OBVIOUS
    <2>3. Progress'
      OBVIOUS
    <2>4. CompleteIsFull' /\ CommitIsWhole' /\ SuccessIsInstalled'
      OBVIOUS
    <2> QED
      BY <2>1, <2>2, <2>3, <2>4
  <1>3. CASE WriteSplit
    <2> USE <1>3 DEF WriteSplit, WriteSession, Answered, Unanswered,
                     deviceVars
    <2>1. InstallTypeOK'
      <3>1. split < Splits => split + 1 \in 0..Splits
        OBVIOUS
      <3> HIDE DEF NotYet, Progress, CompleteIsFull, CommitIsWhole
      <3> QED
        BY <3>1
    <2>2. NotYet'
      OBVIOUS
    <2>3. Progress'
      OBVIOUS
    <2>4. CompleteIsFull' /\ CommitIsWhole' /\ SuccessIsInstalled'
      OBVIOUS
    <2> QED
      BY <2>1, <2>2, <2>3, <2>4
  <1>4. CASE PackageDone
    <2>1. CASE multi
      BY <1>4, <2>1 DEF PackageDone, deviceVars
    <2>2. CASE ~multi
      <3>1. linked = {} /\ written[0] = Splits
        BY <1>4, <2>2 DEF PackageDone
      <3> QED
        BY <1>4, <2>2, <3>1 DEF PackageDone, deviceVars
    <2> QED
      BY <2>1, <2>2
  <1>5. CASE LinkSessions
    <2>1. multi /\ Streaming' /\ UNCHANGED <<multi, state, written, at>> /\ step' = "finalize"
      BY <1>5 DEF LinkSessions, AddSessions, Answered, Unanswered,
                  deviceVars
    <2>2. \A c \in Children : written[c] = Splits /\ state[c] = "open"
      <3>1. \A c \in Children : c < at
        BY <1>5 DEF LinkSessions
      <3> QED
        BY <1>5, <3>1 DEF LinkSessions
    <2>3. complete' => linked' = Children
      BY <1>5 DEF LinkSessions, AddSessions, Answered
    <2>4. InstallTypeOK'
      BY <1>5 DEF LinkSessions, AddSessions, Answered, Unanswered,
                  deviceVars
    <2>5. NotYet' /\ Progress'
      BY <1>5, <2>1 DEF LinkSessions
    <2>6. CompleteIsFull' /\ CommitIsWhole' /\ SuccessIsInstalled'
      BY <1>5, <2>1, <2>2, <2>3 DEF LinkSessions
    <2> QED
      BY <2>4, <2>5, <2>6
  <1>6. CASE Finalize
    <2>0. /\ step = "finalize" /\ (Commit \/ AbandonParent)
          /\ UNCHANGED <<multi, at, split, known, complete>>
      BY <1>6 DEF Finalize
    <2>1. CASE Commit
      BY <2>0, <2>1 DEF Commit, EndSession, Cleanup, Answered,
                        Unanswered, NotConnected, deviceVars
    <2>2. CASE AbandonParent
      <3>1. /\ ~complete
            /\ \/ EndSession(0, "abandoned") /\ lost' = lost
               \/ UNCHANGED <<state, written, linked>> /\ lost' = TRUE
            /\ \/ step' = "abandon" /\ todo' = known
               \/ step' = "failed" /\ todo' = todo
        BY <2>2 DEF AbandonParent, Cleanup, Answered, NotConnected,
                    deviceVars
      <3>2. CASE EndSession(0, "abandoned")
        BY <2>0, <3>1, <3>2 DEF EndSession
      <3>3. CASE UNCHANGED <<state, written, linked>>
        BY <2>0, <3>1, <3>3
      <3> QED
        BY <3>1, <3>2, <3>3
    <2> QED
      BY <2>0, <2>1, <2>2
  <1>7. CASE AbandonSession
    <2>1. PICK s \in todo : /\ todo' = todo \ {s}
                            /\ \/ EndSession(s, "abandoned") /\ lost' = lost
                               \/ UNCHANGED <<state, written, linked>> /\ lost' = TRUE
      BY <1>7 DEF AbandonSession, Answered, NotConnected, deviceVars
    <2>2. /\ step = "abandon" /\ s \in Sessions
          /\ UNCHANGED <<multi, step, at, split, known, complete>>
      BY <1>7 DEF AbandonSession
    <2>3. CASE EndSession(s, "abandoned")
      BY <2>1, <2>2, <2>3 DEF EndSession
    <2>4. CASE UNCHANGED <<state, written, linked>>
      BY <2>1, <2>2, <2>4
    <2> QED
      BY <2>1, <2>3, <2>4
  <1>8. CASE AbandonDone
    BY <1>8 DEF AbandonDone, deviceVars
  <1>9. CASE UNCHANGED installVars
    BY <1>9 DEF installVars
  <1> QED
    BY <1>1, <1>2, <1>3, <1>4, <1>5, <1>6, <1>7, <1>8, <1>9 DEF InstallNext

\* The invariant behind the clean-up loop.
CleanInv ==
    /\ InstallTypeOK /\ OpenIsKnown /\ NothingLeftOpen
    /\ (step = "parent" => \A s \in Sessions : state[s] = "none")

LEMMA InitCleanInv == InstallInit => CleanInv
  BY InitInstallInv DEF InstallInit, InstallInv, CleanInv, OpenIsKnown, NothingLeftOpen

LEMMA NextCleanInv == InstallInv /\ CleanInv /\ [InstallNext]_installVars => CleanInv'
  <1> SUFFICES ASSUME InstallInv, CleanInv, [InstallNext]_installVars PROVE CleanInv'
    OBVIOUS
  <1>0. InstallInv'
    BY NextInstallInv
  <1>1. InstallTypeOK' /\ NotYet'
    BY <1>0 DEF InstallInv
  <1> SUFFICES OpenIsKnown' /\ NothingLeftOpen'
    BY <1>1 DEF CleanInv, NotYet
  <1> USE SessionsFacts
  <1> USE DEF CleanInv, InstallTypeOK, OpenIsKnown, NothingLeftOpen, Children
  <1>2. CASE CreateParent
    BY <1>2 DEF CreateParent, CreateSession, Answered, Unanswered,
                deviceVars
  <1>3. CASE CreateChild
    BY <1>3 DEF CreateChild, CreateSession, Answered, Unanswered,
                deviceVars
  <1>4. CASE WriteSplit
    BY <1>4 DEF WriteSplit, WriteSession, Answered, Unanswered, deviceVars
  <1>5. CASE PackageDone
    BY <1>5 DEF PackageDone, deviceVars
  <1>6. CASE LinkSessions
    BY <1>6 DEF LinkSessions, AddSessions, Answered, Unanswered, deviceVars
  <1>7. CASE Finalize
    BY <1>7 DEF Finalize, Commit, AbandonParent, EndSession, Cleanup,
                Answered, Unanswered, NotConnected, deviceVars
  <1>8. CASE AbandonSession
    BY <1>8 DEF AbandonSession, EndSession, Answered, NotConnected,
                deviceVars
  <1>9. CASE AbandonDone
    BY <1>9 DEF AbandonDone, deviceVars
  <1>10. CASE UNCHANGED installVars
    BY <1>10 DEF installVars
  <1> QED
    BY <1>2, <1>3, <1>4, <1>5, <1>6, <1>7, <1>8, <1>9, <1>10 DEF InstallNext

\* Installed packages are whole and are committed together.
THEOREM CommitCorrect == InstallSpec => []CommitIsWhole
  <1>1. InstallInv => CommitIsWhole
    BY DEF InstallInv
  <1> QED
    BY InitInstallInv, NextInstallInv, <1>1, PTL DEF InstallSpec

\* A zero exit status means the packages are installed.
THEOREM SuccessCorrect == InstallSpec => []SuccessIsInstalled
  <1>1. InstallInv => SuccessIsInstalled
    BY DEF InstallInv
  <1> QED
    BY InitInstallInv, NextInstallInv, <1>1, PTL DEF InstallSpec

\* On a device that can be reached a failed install-multi-package leaves no
\* session open.
THEOREM CleanupCorrect == InstallSpec => []NothingLeftOpen
  <1>1. CleanInv => NothingLeftOpen
    BY DEF CleanInv
  <1> QED
    BY InitInstallInv, NextInstallInv, InitCleanInv, NextCleanInv, <1>1, PTL DEF InstallSpec
==============================================================================
