------------------------- MODULE ServerLaunchProofs --------------------------
(***************************************************************************)
(* Proofs about ServerLaunch, for every number of clients, commands and    *)
(* losses, and every foreign server: until a launch is hasty, launches     *)
(* come one after the other, whoever makes them.                           *)
(***************************************************************************)
EXTENDS ServerLaunch, TLAPS

(* The inductive invariant.  Every launch makes one context, one pipe and  *)
(* one server thread, so the thread of the launch is srv[ctx], and its     *)
(* pipe has the same number.                                               *)

\* One client at most is in a launch, at the place p, with y in cx; p is
\* "idle" when there is none.
Where(p, y) ==
    \/ /\ p = "idle" /\ y = 0
       /\ \A c \in Clients : cpc[c] \notin Launching
    \/ \E c \in Clients : /\ cpc[c] \in Launching /\ p = cpc[c] /\ y = cx[c]
                          /\ \A d \in Clients \ {c} : cpc[d] \notin Launching

\* The numbers.
Counts(p) ==
    /\ notFirst => /\ pipe > 0
                   /\ ctx = IF p = "pipe" THEN pipe + 1 ELSE pipe
                   /\ Len(srv) = IF p = "spawn" THEN pipe - 1 ELSE pipe
    /\ ~notFirst => pipe = 0 /\ ctx = 1 /\ Len(srv) = 0 /\ p \in {"idle", "pipe"}

\* The server threads of earlier launches are past their loops.
OldInv == \A n \in DOMAIN srv : n < ctx => srv[n].pc \in {"leaving", "ended"} /\ srv[n].note = "done"

\* There is no server thread for this context yet, and nothing of an old one.
Nobody == smart = 0 /\ sock = "none" /\ ctx \notin term /\ looper[ctx] = 0

\* The server thread s of this context, by its own place and its notify_thread.
Stage(s) ==
    /\ s.pc # "spawned" => s.pipe = pipe
    /\ s.pc \in {"spawned", "listen", "notify"} <=> s.note = "none"
    /\ s.pc \in {"spawned", "listen"} => smart = 0 /\ sock = "none"
    /\ s.pc \in {"notify", "enter", "loop"} => smart = ctx /\ sock # "none"
    /\ s.pc = "loop" => s.at = ctx /\ looper[ctx] = ctx
    /\ s.pc # "loop" => looper[ctx] = 0
    /\ s.pc \in {"leaving", "ended"} => ctx \in term
    /\ pipe \in shut <=> s.note \in {"told", "done"}

\* The same, by the place of the client that launches.
Progress(s, p, y) ==
    /\ ctx \in term <=> p \in {"wait", "sleep", "clean", "reset"}
    /\ p \in {"wait", "sleep"} =>
          y = ctx /\ s.pc \in {"loop", "leaving", "ended"} /\ s.note = "done"
    /\ p \in {"clean", "reset"} => s.pc \in {"leaving", "ended"} /\ s.note = "done"
    /\ p = "reset" => smart = 0 /\ sock = "none"
    /\ p \in {"spawned", "read"} /\ pipe \in shut => pipe \in full
    /\ p = "read" => y = pipe

Started(p) == notFirst /\ p \notin {"pipe", "spawn"}

Phase(p, y) ==
    /\ Counts(p)
    /\ ~Started(p) => Nobody
    /\ p = "spawn" => pipe \notin shut
    /\ Started(p) => Stage(srv[ctx]) /\ Progress(srv[ctx], p, y)

Foreigners == crashed = "fatal" => other # "none"

Calm == TypeOK /\ OldInv /\ Foreigners /\ \E p \in Pcs, y \in Nat : Where(p, y) /\ Phase(p, y)

LaunchInv == hasty \/ Calm

------------------------------------------------------------------------------
(* Who launches.                                                           *)

LEMMA TheLauncher ==
    ASSUME NEW c \in Clients, cpc[c] \in Launching, NEW p, NEW y, Where(p, y)
    PROVE  /\ p = cpc[c] /\ y = cx[c]
           /\ \A d \in Clients \ {c} : cpc[d] \notin Launching
  BY DEF Where

\* A client moves from p to q while no other one is in a launch.
LEMMA Moves ==
    ASSUME TypeOK, NEW c \in Clients, NEW q \in Pcs, Go(c, q), cx'[c] \in Nat,
           \A d \in Clients \ {c} : cpc[d] \notin Launching, Phase(q, cx[c])', OldInv', Foreigners', TypeOK',
           q \in Launching
    PROVE  Calm'
  <1>1. cpc'[c] = q /\ \A d \in Clients \ {c} : cpc'[d] = cpc[d]
    BY DEF Go, TypeOK
  <1>2. Where(q, cx[c])'
    BY <1>1 DEF Where
  <1> QED BY <1>2 DEF Calm

LEMMA MovesOut ==
    ASSUME TypeOK, NEW c \in Clients, NEW q \in Pcs, Go(c, q),
           \A d \in Clients \ {c} : cpc[d] \notin Launching, Phase("idle", 0)', OldInv', Foreigners', TypeOK',
           q \notin Launching
    PROVE  Calm'
  <1>1. cpc'[c] = q /\ \A d \in Clients \ {c} : cpc'[d] = cpc[d]
    BY DEF Go, TypeOK
  <1>2. Where("idle", 0)'
    BY <1>1 DEF Where
  <1> QED BY <1>2 DEF Calm, Pcs

\* A client outside a launch moves on and stays outside.
LEMMA MovesOutside ==
    ASSUME Calm, NEW c \in Clients, NEW q \in Pcs \ Launching, cpc[c] \notin Launching, Go(c, q),
           UNCHANGED <<notFirst, pipe, full, shut, ctx, term, looper, posted, smart, sock, srv, cx, crashed>>,
           UNCHANGED hasty, other' = other \/ crashed = "no"
    PROVE  Calm'
  <1>1. PICK p \in Pcs, y \in Nat : Where(p, y) /\ Phase(p, y)
    BY DEF Calm
  <1>2. cpc'[c] = q /\ \A d \in Clients \ {c} : cpc'[d] = cpc[d]
    BY DEF Go, Calm, TypeOK
  <1>3. Where(p, y)'
    BY <1>1, <1>2 DEF Where
  <1>4. Phase(p, y)'
    BY <1>1 DEF Phase, Counts, Started, Nobody, Stage, Progress
  <1>5. TypeOK'
    BY <1>2 DEF Calm, TypeOK, Go
  <1>6. OldInv' /\ Foreigners'
    BY DEF Calm, OldInv, Foreigners
  <1> QED BY <1>3, <1>4, <1>5, <1>6 DEF Calm

------------------------------------------------------------------------------
(* The client's steps.                                                     *)

LEMMA ClientTypes ==
    ASSUME TypeOK, NEW c \in Clients, ClientStep(c) \/ WakeSpuriously(c)
    PROVE  TypeOK'
  <1>1. CASE KillServer(c) \/ Answered(c) \/ Connect(c)
    BY <1>1 DEF KillServer, Answered, Connect, TypeOK, Pcs, Go, Bounds, pipes, context, socket
  <1>2. CASE Launch(c)
    <2>1. ctx \in 1..ctx /\ ctx \in Nat
      BY DEF TypeOK
    <2>2. cpc' \in [Clients -> Pcs] /\ cx' \in [Clients -> Nat]
      BY <1>2, <2>1 DEF Launch, Go, TypeOK, Pcs, Launching
    <2>3. term' \subseteq term \cup {ctx}
      BY <1>2 DEF Launch
    <2>4. /\ cpc' \in [Clients -> Pcs] /\ cx' \in [Clients -> Nat] /\ term' \subseteq 1..ctx
          /\ UNCHANGED <<ctx, pipe, full, srv, looper, sock, smart, posted, shut>>
      BY <1>2, <2>1, <2>2, <2>3 DEF Launch, pipes, socket, TypeOK
    <2>5. hasty' \in BOOLEAN
      BY <1>2, Zenon DEF Launch
    <2> QED BY <2>4, <2>5 DEF TypeOK
  <1>3. CASE WaitForLoopExit(c) \/ WakeSpuriously(c) \/ Cleanup(c)
    <2>1. cpc' \in [Clients -> Pcs]
      BY <1>3 DEF WaitForLoopExit, WakeSpuriously, Cleanup, TypeOK, Pcs, Launching, Go
    <2>2. /\ smart' \in Nat /\ sock' \in {"none", "listening", "dead"}
          /\ UNCHANGED <<pipe, full, shut, ctx, term, looper, posted, srv, cx, hasty>>
      BY <1>3 DEF WaitForLoopExit, WakeSpuriously, Cleanup, TypeOK, Bounds, pipes, context, socket
    <2> QED BY <2>1, <2>2 DEF TypeOK
  <1>4. CASE Reset(c)
    <2>1. looper' \in Seq(Nat) /\ Len(looper') = ctx + 1
      BY <1>4 DEF Reset, TypeOK
    <2>2. cpc' \in [Clients -> Pcs]
      BY <1>4 DEF Reset, TypeOK, Pcs, Launching, Go
    <2>3. term' \subseteq 1..(ctx + 1) /\ posted' \subseteq 1..(ctx + 1)
      <3>1. 1..ctx \subseteq 1..(ctx + 1)
        BY DEF TypeOK
      <3> QED BY <1>4, <3>1 DEF Reset, TypeOK
    <2> QED BY <1>4, <2>1, <2>2, <2>3 DEF Reset, TypeOK, Bounds, pipes, socket
  <1>5. CASE MakePipe(c)
    BY <1>5 DEF MakePipe, TypeOK, Pcs, Launching, Go, Bounds, context, socket
  <1>6. CASE Spawn(c)
    <2> DEFINE r == [pc |-> "spawned", pipe |-> 0, at |-> 0, note |-> "none"]
    <2>1. r \in Servers
      BY DEF Servers, SrvPcs, Notes
    <2>2. srv' = Append(srv, r)
      BY <1>6 DEF Spawn
    <2> HIDE DEF r
    <2>3. srv' \in Seq(Servers)
      BY <2>1, <2>2 DEF TypeOK
    <2> QED BY <1>6, <2>3 DEF Spawn, TypeOK, Pcs, Launching, Go, Bounds, pipes, context, socket
  <1>7. CASE StartRead(c) \/ Read(c)
    BY <1>7 DEF StartRead, Read, TypeOK, Pcs, Launching, Go, Bounds, pipes, context, socket
  <1> QED BY <1>1, <1>2, <1>3, <1>4, <1>5, <1>6, <1>7 DEF ClientStep

LEMMA LaunchKeepsCalm ==
    ASSUME Calm, NEW c \in Clients, Launch(c), ~hasty'
    PROVE  Calm'
  <1>1. Settled(c) /\ cpc[c] = "launch" /\ TypeOK /\ TypeOK'
    BY ClientTypes DEF Launch, At, Calm, ClientStep
  <1>2. \A d \in Clients : cpc[d] \notin Launching
    BY <1>1 DEF Settled, Launching
  <1>3. Phase("idle", 0)
    BY <1>2 DEF Calm, Where
  <1>4. OldInv' /\ Foreigners'
    BY DEF Calm, OldInv, Foreigners, Launch, pipes, socket
  <1>5. CASE notFirst
    <2>1. /\ term' = term \cup {ctx} /\ cx'[c] = ctx /\ Go(c, "wait")
          /\ UNCHANGED <<notFirst, pipe, full, shut, ctx, looper, smart, sock, srv>>
      BY <1>1, <1>5 DEF Launch, pipes, socket, TypeOK
    <2>2. Stage(srv[ctx]) /\ Progress(srv[ctx], "idle", 0) /\ Counts("idle")
      BY <1>3, <1>5 DEF Phase, Started
    <2>3. srv[ctx].pc \in {"loop", "leaving", "ended"} /\ srv[ctx].note = "done"
      BY <1>1, <1>5, <2>2 DEF Settled, Counts, TypeOK
    <2>4. Phase("wait", cx[c])'
      BY <1>5, <2>1, <2>2, <2>3 DEF Phase, Counts, Started, Stage, Progress
    <2> QED BY <1>1, <1>2, <1>4, <2>1, <2>4, Moves DEF Pcs, Launching, TypeOK
  <1>6. CASE ~notFirst
    <2>1. Go(c, "pipe") /\ UNCHANGED <<notFirst, pipe, full, shut, ctx, term, looper, smart, sock, srv, cx>>
      BY <1>6 DEF Launch, pipes, socket
    <2>2. Phase("pipe", cx[c])'
      BY <1>3, <1>6, <2>1 DEF Phase, Counts, Started, Nobody
    <2> QED BY <1>1, <1>2, <1>4, <2>1, <2>2, Moves DEF Pcs, Launching, TypeOK
  <1> QED BY <1>5, <1>6

LEMMA LauncherPhase ==
    ASSUME Calm, NEW c \in Clients, cpc[c] \in Launching
    PROVE  /\ Phase(cpc[c], cx[c])
           /\ \A d \in Clients \ {c} : cpc[d] \notin Launching
  BY TheLauncher DEF Calm

\* The steps of a launch up to its pipe.
LEMMA ClosingKeepsCalm ==
    ASSUME Calm, NEW c \in Clients,
           WaitForLoopExit(c) \/ WakeSpuriously(c) \/ Cleanup(c) \/ Reset(c) \/ MakePipe(c)
    PROVE  Calm'
  <1>1. cpc[c] \in Launching /\ TypeOK /\ TypeOK'
    BY ClientTypes DEF WaitForLoopExit, WakeSpuriously, Cleanup, Reset, MakePipe, At, Launching, Calm, ClientStep
  <1>2. Phase(cpc[c], cx[c]) /\ \A d \in Clients \ {c} : cpc[d] \notin Launching
    BY <1>1, LauncherPhase
  <1>3. Foreigners'
    BY DEF Calm, Foreigners, WaitForLoopExit, WakeSpuriously, Cleanup, Reset, MakePipe, Bounds
  <1>4. CASE WaitForLoopExit(c)
    <2>1. /\ cpc[c] = "wait"
          /\ UNCHANGED <<notFirst, pipe, full, shut, ctx, term, looper, smart, sock, srv, cx>>
      BY <1>4 DEF WaitForLoopExit, At, pipes, context, socket
    <2>2. OldInv'
      BY <2>1 DEF Calm, OldInv
    <2>3. Started("wait") /\ Stage(srv[ctx]) /\ Progress(srv[ctx], "wait", cx[c]) /\ Counts("wait")
      BY <1>2, <2>1 DEF Phase, Started, Counts
    <2>4. CASE looper[ctx] = 0
      <3>1. Go(c, "clean")
        BY <1>4, <2>3, <2>4 DEF WaitForLoopExit, Progress
      <3>2. srv[ctx].pc # "loop"
        BY <2>3, <2>4, <1>1 DEF Stage, TypeOK
      <3>3. Phase("clean", cx[c])'
        BY <2>1, <2>3, <3>2 DEF Phase, Counts, Started, Stage, Progress
      <3> QED BY <1>1, <1>2, <1>3, <2>2, <3>1, <3>3, <2>1, Moves DEF Pcs, Launching, TypeOK
    <2>5. CASE looper[ctx] # 0
      <3>1. Go(c, "sleep")
        BY <1>4, <2>3, <2>5 DEF WaitForLoopExit, Progress
      <3>2. Phase("sleep", cx[c])'
        BY <2>1, <2>3 DEF Phase, Counts, Started, Stage, Progress
      <3> QED BY <1>1, <1>2, <1>3, <2>2, <3>1, <3>2, <2>1, Moves DEF Pcs, Launching, TypeOK
    <2> QED BY <2>4, <2>5
  <1>5. CASE WakeSpuriously(c)
    <2>1. /\ cpc[c] = "sleep" /\ Go(c, "wait")
          /\ UNCHANGED <<notFirst, pipe, full, shut, ctx, term, looper, smart, sock, srv, cx>>
      BY <1>5 DEF WakeSpuriously, At, pipes, context, socket
    <2>2. OldInv' /\ Phase("wait", cx[c])'
      BY <1>2, <2>1 DEF Calm, OldInv, Phase, Counts, Started, Stage, Progress
    <2> QED BY <1>1, <1>2, <1>3, <2>1, <2>2, Moves DEF Pcs, Launching, TypeOK
  <1>6. CASE Cleanup(c)
    <2>1. /\ cpc[c] = "clean" /\ Go(c, "reset") /\ smart' = 0 /\ sock' = "none"
          /\ UNCHANGED <<notFirst, pipe, full, shut, ctx, term, looper, srv, cx>>
      BY <1>6 DEF Cleanup, At, pipes, context
    <2>2. OldInv' /\ Phase("reset", cx[c])'
      BY <1>2, <2>1 DEF Calm, OldInv, Phase, Counts, Started, Stage, Progress
    <2> QED BY <1>1, <1>2, <1>3, <2>1, <2>2, Moves DEF Pcs, Launching, TypeOK
  <1>7. CASE Reset(c)
    <2>1. /\ cpc[c] = "reset" /\ Go(c, "pipe") /\ ctx' = ctx + 1 /\ looper' = Append(looper, 0)
          /\ UNCHANGED <<notFirst, pipe, full, shut, term, smart, sock, srv, cx>>
      BY <1>7 DEF Reset, At, pipes, socket
    <2>2. /\ Counts("reset") /\ notFirst
          /\ Stage(srv[ctx]) /\ Progress(srv[ctx], "reset", cx[c])
      BY <1>2, <2>1 DEF Phase, Started, Counts
    <2>3. looper'[ctx + 1] = 0 /\ ctx \in Nat /\ ctx + 1 \notin term /\ Len(srv) = ctx
      BY <1>1, <2>1, <2>2 DEF Counts, TypeOK
    <2>4. OldInv'
      BY <1>1, <2>1, <2>2, <2>3 DEF Calm, OldInv, Progress, TypeOK
    <2>5. Counts("pipe")'
      BY <1>1, <2>1, <2>2 DEF Counts, TypeOK
    <2>6. Nobody'
      BY <2>1, <2>2, <2>3 DEF Nobody, Progress
    <2>7. Phase("pipe", cx[c])'
      BY <2>1, <2>5, <2>6 DEF Phase, Started
    <2> QED BY <1>1, <1>2, <1>3, <2>1, <2>4, <2>7, Moves DEF Pcs, Launching, TypeOK
  <1>8. CASE MakePipe(c)
    <2>1. /\ cpc[c] = "pipe" /\ Go(c, "spawn") /\ notFirst' = TRUE /\ pipe' = pipe + 1
          /\ UNCHANGED <<full, shut, ctx, term, looper, smart, sock, srv, cx>>
      BY <1>8 DEF MakePipe, At, context, socket
    <2>2. Counts("pipe") /\ Nobody
      BY <1>2, <2>1 DEF Phase, Started
    <2>3. pipe + 1 \notin shut /\ pipe \in Nat
      BY <1>1 DEF TypeOK
    <2>4. OldInv'
      BY <2>1 DEF Calm, OldInv
    <2>5. Phase("spawn", cx[c])'
      BY <1>1, <2>1, <2>2, <2>3 DEF Phase, Counts, Started, Nobody, TypeOK
    <2> QED BY <1>1, <1>2, <1>3, <2>1, <2>4, <2>5, Moves DEF Pcs, Launching, TypeOK
  <1> QED BY <1>4, <1>5, <1>6, <1>7, <1>8

\* From the server's thread to the end of the launch.
LEMMA StartingKeepsCalm ==
    ASSUME Calm, NEW c \in Clients, Spawn(c) \/ StartRead(c) \/ Read(c)
    PROVE  Calm'
  <1>1. cpc[c] \in Launching /\ TypeOK /\ TypeOK'
    BY ClientTypes DEF Spawn, StartRead, Read, At, Launching, Calm, ClientStep
  <1>2. Phase(cpc[c], cx[c]) /\ \A d \in Clients \ {c} : cpc[d] \notin Launching
    BY <1>1, LauncherPhase
  <1>3. Foreigners'
    BY DEF Calm, Foreigners, Spawn, StartRead, Read, Bounds
  <1>4. CASE Spawn(c)
    <2> DEFINE r == [pc |-> "spawned", pipe |-> 0, at |-> 0, note |-> "none"]
    <2>1. /\ cpc[c] = "spawn" /\ Go(c, "spawned") /\ srv' = Append(srv, r)
          /\ UNCHANGED <<notFirst, pipe, full, shut, ctx, term, looper, smart, sock, cx>>
      BY <1>4 DEF Spawn, At, pipes, context, socket
    <2>2. Counts("spawn") /\ Nobody /\ pipe \notin shut /\ notFirst
      BY <1>2, <2>1 DEF Phase, Started, Counts
    <2>3. Len(srv) + 1 = ctx /\ ctx = pipe /\ srv'[ctx] = r /\ Len(srv') = ctx
          /\ \A n \in DOMAIN srv : srv'[n] = srv[n]
      BY <1>1, <2>1, <2>2 DEF Counts, TypeOK
    <2>4. DOMAIN srv' = DOMAIN srv \cup {ctx}
      BY <1>1, <2>1, <2>3 DEF TypeOK
    <2>5. OldInv'
      BY <1>1, <2>1, <2>3, <2>4 DEF Calm, OldInv, TypeOK
    <2>6. Counts("spawned")'
      BY <2>1, <2>2, <2>3 DEF Counts
    <2>7. Stage(srv[ctx])' /\ Progress(srv[ctx], "spawned", cx[c])'
      BY <2>1, <2>2, <2>3 DEF Stage, Progress, Nobody
    <2>8. Phase("spawned", cx[c])'
      BY <2>1, <2>2, <2>6, <2>7 DEF Phase, Started
    <2> QED BY <1>1, <1>2, <1>3, <2>1, <2>5, <2>8, Moves DEF Pcs, Launching, TypeOK
  <1>5. CASE StartRead(c)
    <2>1. /\ cpc[c] = "spawned" /\ Go(c, "read") /\ cx'[c] = pipe
          /\ UNCHANGED <<notFirst, pipe, full, shut, ctx, term, looper, smart, sock, srv>>
      BY <1>1, <1>5 DEF StartRead, At, pipes, context, socket, TypeOK
    <2>2. OldInv' /\ Phase("read", cx[c])'
      BY <1>2, <2>1 DEF Calm, OldInv, Phase, Counts, Started, Stage, Progress
    <2> QED BY <1>1, <1>2, <1>3, <2>1, <2>2, Moves DEF Pcs, Launching, TypeOK
  <1>6. CASE Read(c)
    <2>1. /\ cpc[c] = "read"
          /\ UNCHANGED <<notFirst, pipe, shut, ctx, term, looper, smart, sock, srv, cx>>
      BY <1>6 DEF Read, At, context, socket
    <2>2. OldInv' /\ Phase("idle", 0)'
      BY <1>2, <2>1 DEF Calm, OldInv, Phase, Counts, Started, Stage, Progress
    <2>3. PICK q \in {"connect", "idle"} : Go(c, q)
      BY <1>6 DEF Read
    <2> QED BY <1>1, <1>2, <1>3, <2>1, <2>2, <2>3, MovesOut DEF Pcs, Launching
  <1> QED BY <1>4, <1>5, <1>6

\* The steps outside a launch.
LEMMA AskingKeepsCalm ==
    ASSUME Calm, NEW c \in Clients, CheckServerVersion(c) \/ KillServer(c) \/ Answered(c) \/ Connect(c)
    PROVE  Calm'
  <1>1. /\ cpc[c] \notin Launching
        /\ UNCHANGED <<notFirst, pipe, full, shut, ctx, term, looper, posted, smart, sock, srv, cx, crashed>>
        /\ UNCHANGED hasty
        /\ other' = other \/ crashed = "no"
    BY DEF CheckServerVersion, KillServer, Answered, Connect, At, Alive, Launching, Bounds, pipes, context, socket
  <1>2. \E q \in Pcs \ Launching : Go(c, q)
    <2>1. {"idle", "kill", "launch", "asked"} \subseteq Pcs \ Launching
      BY DEF Pcs, Launching
    <2>2. CASE CheckServerVersion(c)
      BY <2>1, <2>2 DEF CheckServerVersion
    <2>3. CASE KillServer(c) \/ Answered(c) \/ Connect(c)
      BY <2>1, <2>3 DEF KillServer, Answered, Connect
    <2> QED BY <2>2, <2>3
  <1> QED BY <1>1, <1>2, MovesOutside

LEMMA ClientKeepsCalm ==
    ASSUME Calm, NEW c \in Clients, CheckServerVersion(c) \/ ClientStep(c) \/ WakeSpuriously(c), ~hasty'
    PROVE  Calm'
  BY AskingKeepsCalm, LaunchKeepsCalm, ClosingKeepsCalm, StartingKeepsCalm DEF ClientStep

------------------------------------------------------------------------------
(* The server's steps.                                                     *)

\* Only the thread of this launch has something to do before its loop ends.
LEMMA OnlyCurrent ==
    ASSUME TypeOK, OldInv, NEW p, NEW y, Phase(p, y), NEW n \in DOMAIN srv,
           srv[n].pc \notin {"leaving", "ended"} \/ srv[n].note # "done"
    PROVE  /\ Started(p) /\ n = ctx /\ Len(srv) = ctx /\ ctx = pipe /\ ctx \in 1..ctx
           /\ Stage(srv[ctx]) /\ Progress(srv[ctx], p, y) /\ srv[ctx] \in Servers
  <1>1. ctx \in Nat \ {0} /\ pipe \in Nat /\ Len(srv) \in Nat /\ DOMAIN srv = 1..Len(srv)
    BY DEF TypeOK
  <1>2. n \in 1..Len(srv) /\ n >= ctx
    BY <1>1 DEF OldInv
  <1>3. Started(p) /\ Len(srv) = ctx /\ ctx = pipe
    <2>1. Len(srv) >= ctx /\ Len(srv) > 0 /\ Counts(p)
      BY <1>1, <1>2 DEF Phase
    <2>2. notFirst
      BY <2>1 DEF Counts
    <2>3. p # "pipe" /\ p # "spawn"
      <3>1. ASSUME p = "pipe" PROVE FALSE
        <4>1. ctx = pipe + 1 /\ Len(srv) = pipe
          BY <2>1, <2>2, <3>1 DEF Counts
        <4> QED BY <1>1, <2>1, <4>1
      <3>2. ASSUME p = "spawn" PROVE FALSE
        <4>1. ctx = pipe /\ Len(srv) = pipe - 1
          BY <2>1, <2>2, <3>2 DEF Counts
        <4> QED BY <1>1, <2>1, <4>1
      <3> QED BY <3>1, <3>2
    <2> QED BY <2>1, <2>2, <2>3 DEF Counts, Started
  <1>4. Stage(srv[ctx]) /\ Progress(srv[ctx], p, y)
    BY <1>3 DEF Phase
  <1> QED BY <1>1, <1>2, <1>3, <1>4 DEF TypeOK

\* The record of the thread changes to r; who launches does not.
LEMMA ThreadMoves ==
    ASSUME Calm, NEW p \in Pcs, NEW y \in Nat, Where(p, y), Phase(p, y), Started(p),
           NEW r \in Servers, Len(srv) = ctx, srv' = [srv EXCEPT ![ctx] = r],
           UNCHANGED <<notFirst, pipe, ctx, cpc, cx>>,
           TypeOK', Foreigners', Stage(r)', Progress(r, p, y)'
    PROVE  Calm'
  <1>1. srv'[ctx] = r /\ Len(srv') = Len(srv) /\ DOMAIN srv' = DOMAIN srv
        /\ \A n \in DOMAIN srv : n # ctx => srv'[n] = srv[n]
    BY DEF Calm, TypeOK
  <1>2. OldInv'
    BY <1>1 DEF Calm, OldInv, TypeOK
  <1>3. Counts(p)'
    BY <1>1 DEF Phase, Counts
  <1>4. Phase(p, y)'
    BY <1>1, <1>3 DEF Phase, Started
  <1>5. Where(p, y)'
    BY DEF Where
  <1> QED BY <1>2, <1>4, <1>5 DEF Calm

LEMMA StartUpKeepsCalm ==
    ASSUME Calm, NEW n \in DOMAIN srv,
           ServerMain(n) \/ InstallListener(n) \/ StartNotifyThread(n) \/ EnterLoop(n)
    PROVE  Calm'
  <1>1. PICK p \in Pcs, y \in Nat : Where(p, y) /\ Phase(p, y)
    BY DEF Calm
  <1>2. srv[n].pc \notin {"leaving", "ended"} \/ srv[n].note # "done"
    BY DEF ServerMain, InstallListener, StartNotifyThread, EnterLoop, Srv
  <1>3. /\ Started(p) /\ n = ctx /\ Len(srv) = ctx /\ ctx = pipe /\ ctx \in 1..ctx
        /\ Stage(srv[ctx]) /\ Progress(srv[ctx], p, y) /\ srv[ctx] \in Servers
    BY <1>1, <1>2, OnlyCurrent DEF Calm
  <1>4. UNCHANGED <<notFirst, pipe, full, shut, ctx, term, posted, cpc, cx, hasty, crashed, other>>
    BY DEF ServerMain, InstallListener, StartNotifyThread, EnterLoop, Client, pipes, context, socket
  <1>5. Foreigners' /\ TypeOK
    BY <1>4 DEF Calm, Foreigners
  <1>6. ASSUME NEW r \in Servers, srv' = [srv EXCEPT ![ctx] = r],
               looper' \in Seq(Nat), Len(looper') = ctx, smart' \in Nat, sock' \in {"none", "listening", "dead"}
        PROVE  TypeOK'
    <2>1. srv' \in Seq(Servers)
      BY <1>3, <1>5, <1>6 DEF TypeOK
    <2> QED BY <1>4, <1>5, <1>6, <2>1 DEF TypeOK
  <1>7. CASE ServerMain(n)
    <2>1. PICK r \in Servers : r = [srv[ctx] EXCEPT !.pc = "listen", !.pipe = pipe]
      BY <1>3, <1>5 DEF Servers, SrvPcs, Notes, TypeOK
    <2>2. /\ srv' = [srv EXCEPT ![ctx] = r] /\ srv[ctx].pc = "spawned"
          /\ UNCHANGED <<looper, smart, sock>>
      BY <1>3, <1>7, <2>1 DEF ServerMain, Srv, context, socket
    <2>3. /\ r \in Servers /\ r.pc = "listen" /\ r.note = srv[ctx].note /\ r.pipe = pipe
      BY <1>3, <1>5, <2>1 DEF Servers, SrvPcs, TypeOK
    <2>4. TypeOK'
      BY <1>5, <1>6, <2>2, <2>3 DEF TypeOK
    <2>5. Stage(r)' /\ Progress(r, p, y)'
      BY <1>3, <1>4, <2>2, <2>3 DEF Stage, Progress
    <2> QED BY <1>1, <1>3, <1>4, <1>5, <2>2, <2>3, <2>4, <2>5, ThreadMoves
  <1>8. CASE InstallListener(n)
    <2>1. PICK r \in Servers : r = [srv[ctx] EXCEPT !.pc = "notify"]
      BY <1>3, <1>5 DEF Servers, SrvPcs, Notes, TypeOK
    <2>2. /\ srv' = [srv EXCEPT ![ctx] = r] /\ srv[ctx].pc = "listen"
          /\ smart' = ctx /\ sock' = "listening" /\ UNCHANGED looper
      BY <1>3, <1>8, <2>1 DEF InstallListener, Srv, context
    <2>3. /\ r \in Servers /\ r.pc = "notify" /\ r.note = srv[ctx].note /\ r.pipe = srv[ctx].pipe
      BY <1>3, <2>1 DEF Servers, SrvPcs
    <2>4. TypeOK'
      BY <1>5, <1>6, <2>2, <2>3 DEF TypeOK
    <2>5. Stage(r)' /\ Progress(r, p, y)'
      BY <1>3, <1>4, <2>2, <2>3 DEF Stage, Progress
    <2> QED BY <1>1, <1>3, <1>4, <1>5, <2>2, <2>3, <2>4, <2>5, ThreadMoves
  <1>9. CASE StartNotifyThread(n)
    <2>1. PICK r \in Servers : r = [srv[ctx] EXCEPT !.pc = "enter", !.note = "waiting"]
      BY <1>3, <1>5 DEF Servers, SrvPcs, Notes, TypeOK
    <2>2. /\ srv' = [srv EXCEPT ![ctx] = r] /\ srv[ctx].pc = "notify"
          /\ UNCHANGED <<looper, smart, sock>>
      BY <1>3, <1>9, <2>1 DEF StartNotifyThread, Srv, context, socket
    <2>3. /\ r \in Servers /\ r.pc = "enter" /\ r.note = "waiting" /\ r.pipe = srv[ctx].pipe
      BY <1>3, <2>1 DEF Servers, SrvPcs, Notes
    <2>4. TypeOK'
      BY <1>5, <1>6, <2>2, <2>3 DEF TypeOK
    <2>5. Stage(r)' /\ Progress(r, p, y)'
      BY <1>3, <1>4, <2>2, <2>3 DEF Stage, Progress
    <2> QED BY <1>1, <1>3, <1>4, <1>5, <2>2, <2>3, <2>4, <2>5, ThreadMoves
  <1>10. CASE EnterLoop(n)
    <2>1. PICK r \in Servers : r = [srv[ctx] EXCEPT !.pc = "loop", !.at = ctx]
      BY <1>3, <1>5 DEF Servers, SrvPcs, Notes, TypeOK
    <2>2. /\ srv' = [srv EXCEPT ![ctx] = r] /\ srv[ctx].pc = "enter"
          /\ looper' = [looper EXCEPT ![ctx] = ctx] /\ UNCHANGED <<smart, sock>>
      BY <1>3, <1>10, <2>1 DEF EnterLoop, Srv, socket
    <2>3. /\ r \in Servers /\ r.pc = "loop" /\ r.note = srv[ctx].note /\ r.pipe = srv[ctx].pipe
          /\ r.at = ctx
      BY <1>3, <1>5, <2>1 DEF Servers, SrvPcs, TypeOK
    <2>4. looper' \in Seq(Nat) /\ Len(looper') = ctx /\ looper'[ctx] = ctx
      BY <1>3, <1>5, <2>2 DEF TypeOK
    <2>5. TypeOK'
      BY <1>5, <1>6, <2>2, <2>3, <2>4 DEF TypeOK
    <2>6. Stage(r)' /\ Progress(r, p, y)'
      BY <1>3, <1>4, <2>2, <2>3, <2>4 DEF Stage, Progress
    <2> QED BY <1>1, <1>3, <1>4, <1>5, <2>2, <2>3, <2>5, <2>6, ThreadMoves
  <1> QED BY <1>7, <1>8, <1>9, <1>10

LEMMA RunningKeepsCalm ==
    ASSUME Calm, NEW n \in DOMAIN srv, Notify(n) \/ PostEnable(n) \/ ExitLoop(n)
    PROVE  Calm'
  <1>1. PICK p \in Pcs, y \in Nat : Where(p, y) /\ Phase(p, y)
    BY DEF Calm
  <1>2. srv[n].pc \notin {"leaving", "ended"} \/ srv[n].note # "done"
    BY DEF Notify, PostEnable, ExitLoop, Srv
  <1>3. /\ Started(p) /\ n = ctx /\ Len(srv) = ctx /\ ctx = pipe /\ ctx \in 1..ctx
        /\ Stage(srv[ctx]) /\ Progress(srv[ctx], p, y) /\ srv[ctx] \in Servers
    BY <1>1, <1>2, OnlyCurrent DEF Calm
  <1>4. UNCHANGED <<notFirst, pipe, ctx, term, smart, sock, cpc, cx, hasty, other>>
    BY DEF Notify, PostEnable, ExitLoop, Client, pipes, context, socket
  <1>5. TypeOK
    BY DEF Calm
  <1>6. ASSUME NEW r \in Servers, srv' = [srv EXCEPT ![ctx] = r],
               looper' \in Seq(Nat), Len(looper') = ctx, posted' \subseteq 1..ctx,
               full' \subseteq shut', shut' \subseteq 1..pipe
        PROVE  TypeOK'
    <2>1. srv' \in Seq(Servers)
      BY <1>3, <1>5, <1>6 DEF TypeOK
    <2> QED BY <1>4, <1>5, <1>6, <2>1 DEF TypeOK
  <1>7. CASE Notify(n)
    <2>1. PICK r \in Servers : r = [srv[ctx] EXCEPT !.note = "told"]
      BY <1>3, <1>5 DEF Servers, SrvPcs, Notes, TypeOK
    <2>2. /\ srv' = [srv EXCEPT ![ctx] = r] /\ srv[ctx].note = "waiting" /\ Alive
          /\ full' = full \cup {srv[ctx].pipe} /\ shut' = shut \cup {srv[ctx].pipe}
          /\ crashed' = IF srv[ctx].pipe \in shut THEN "fatal" ELSE "no"
          /\ UNCHANGED <<looper, posted>>
      BY <1>3, <1>7, <2>1 DEF Notify, context
    <2>3. srv[ctx].pipe = pipe /\ pipe \notin shut
      BY <1>3, <2>2 DEF Stage
    <2>4. /\ r \in Servers /\ r.pc = srv[ctx].pc /\ r.note = "told" /\ r.pipe = srv[ctx].pipe
          /\ r.at = srv[ctx].at
      BY <1>3, <2>1 DEF Servers, Notes
    <2>5. full' \subseteq shut' /\ shut' \subseteq 1..pipe
      BY <1>3, <1>5, <2>2, <2>3 DEF TypeOK
    <2>6. TypeOK' /\ Foreigners'
      BY <1>5, <1>6, <2>2, <2>3, <2>4, <2>5 DEF TypeOK, Foreigners
    <2>7. Stage(r)'
      BY <1>3, <1>4, <2>2, <2>3, <2>4 DEF Stage
    <2>8. Progress(r, p, y)'
      BY <1>3, <1>4, <2>2, <2>3, <2>4 DEF Progress
    <2> QED BY <1>1, <1>3, <1>4, <1>5, <2>2, <2>4, <2>6, <2>7, <2>8, ThreadMoves
  <1>8. CASE PostEnable(n)
    <2>1. PICK r \in Servers : r = [srv[ctx] EXCEPT !.note = "done"]
      BY <1>3, <1>5 DEF Servers, SrvPcs, Notes, TypeOK
    <2>2. /\ srv' = [srv EXCEPT ![ctx] = r] /\ srv[ctx].note = "told"
          /\ posted' = posted \cup {ctx}
          /\ UNCHANGED <<looper, full, shut, crashed>>
      BY <1>3, <1>8, <2>1 DEF PostEnable, pipes
    <2>3. /\ r \in Servers /\ r.pc = srv[ctx].pc /\ r.note = "done" /\ r.pipe = srv[ctx].pipe
          /\ r.at = srv[ctx].at
      BY <1>3, <2>1 DEF Servers, Notes
    <2>4. TypeOK' /\ Foreigners'
      BY <1>3, <1>4, <1>5, <1>6, <2>2, <2>3 DEF TypeOK, Foreigners, Calm
    <2>5. Stage(r)'
      BY <1>3, <1>4, <2>2, <2>3 DEF Stage
    <2>6. Progress(r, p, y)'
      BY <1>3, <1>4, <2>2, <2>3 DEF Progress
    <2> QED BY <1>1, <1>3, <1>4, <1>5, <2>2, <2>3, <2>4, <2>5, <2>6, ThreadMoves
  <1>9. CASE ExitLoop(n)
    <2>1. PICK r \in Servers : r = [srv[ctx] EXCEPT !.pc = "leaving"]
      BY <1>3, <1>5 DEF Servers, SrvPcs, Notes, TypeOK
    <2>2. srv[ctx].pc = "loop" /\ srv[ctx].at = ctx /\ ctx \in term
      BY <1>3, <1>9 DEF ExitLoop, Srv, Stage
    <2>3. /\ srv' = [srv EXCEPT ![ctx] = r] /\ looper' = [looper EXCEPT ![ctx] = 0]
          /\ UNCHANGED <<posted, full, shut, crashed>>
      BY <1>3, <1>9, <2>2, <2>1 DEF ExitLoop, pipes
    <2>4. /\ r \in Servers /\ r.pc = "leaving" /\ r.note = srv[ctx].note /\ r.pipe = srv[ctx].pipe
      BY <1>3, <2>1 DEF Servers, SrvPcs
    <2>5. looper' \in Seq(Nat) /\ Len(looper') = ctx /\ looper'[ctx] = 0
      BY <1>3, <1>5, <2>3 DEF TypeOK
    <2>6. TypeOK' /\ Foreigners'
      BY <1>4, <1>5, <1>6, <2>3, <2>4, <2>5 DEF TypeOK, Foreigners, Calm
    <2>7. Stage(r)'
      BY <1>3, <1>4, <2>2, <2>3, <2>4, <2>5 DEF Stage
    <2>8. Progress(r, p, y)'
      BY <1>3, <1>4, <2>2, <2>3, <2>4 DEF Progress
    <2> QED BY <1>1, <1>3, <1>4, <1>5, <2>3, <2>4, <2>6, <2>7, <2>8, ThreadMoves
  <1> QED BY <1>7, <1>8, <1>9

\* A thread past its loop wakes those that wait for its end.
LEMMA NotifyLoopExitKeepsCalm ==
    ASSUME Calm, NEW n \in DOMAIN srv, NotifyLoopExit(n)
    PROVE  Calm'
  <1>1. PICK p \in Pcs, y \in Nat : Where(p, y) /\ Phase(p, y)
    BY DEF Calm
  <1>2. PICK r \in Servers : r = [srv[n] EXCEPT !.pc = "ended"]
    <2>1. srv[n] \in Servers
      BY DEF Calm, TypeOK
    <2> QED BY <2>1 DEF Servers, SrvPcs
  <1>3. /\ srv[n].pc = "leaving" /\ srv' = [srv EXCEPT ![n] = r]
        /\ cpc' = [c \in Clients |-> IF cpc[c] = "sleep" /\ cx[c] = srv[n].at THEN "wait" ELSE cpc[c]]
        /\ UNCHANGED <<other, notFirst, pipe, full, shut, ctx, term, looper, posted, smart, sock, cx,
                       crashed, hasty>>
    BY <1>2 DEF NotifyLoopExit, Srv, Bounds, pipes, context, socket
  <1>4. /\ srv'[n] = r /\ Len(srv') = Len(srv) /\ DOMAIN srv' = DOMAIN srv
        /\ \A m \in DOMAIN srv : m # n => srv'[m] = srv[m]
    BY <1>2, <1>3 DEF Calm, TypeOK
  <1>5. r.pc = "ended" /\ r.note = srv[n].note /\ r.pipe = srv[n].pipe
    BY <1>2 DEF Calm, TypeOK, Servers
  <1>6. TypeOK'
    <2>1. srv' \in Seq(Servers)
      BY <1>2, <1>3 DEF Calm, TypeOK
    <2>2. cpc' \in [Clients -> Pcs]
      BY <1>3 DEF Calm, TypeOK, Pcs, Launching
    <2> QED BY <1>3, <2>1, <2>2 DEF Calm, TypeOK
  <1>7. OldInv' /\ Foreigners'
    BY <1>3, <1>4, <1>5 DEF Calm, OldInv, Foreigners
  <1>8. \A c \in Clients :
           /\ cpc'[c] = cpc[c] \/ (cpc[c] = "sleep" /\ cpc'[c] = "wait")
           /\ cpc'[c] \in Launching <=> cpc[c] \in Launching
    BY <1>3 DEF Launching
  <1>9. PICK q \in Pcs : Where(q, y)' /\ (q = p \/ (p = "sleep" /\ q = "wait"))
    <2>1. CASE p = "idle" /\ y = 0 /\ \A c \in Clients : cpc[c] \notin Launching
      <3>1. Where(p, y)'
        <4>1. \A c \in Clients : cpc'[c] \notin Launching
          BY <1>8, <2>1
        <4> QED BY <2>1, <4>1 DEF Where
      <3> QED BY <3>1
    <2>2. ASSUME NEW c \in Clients, cpc[c] \in Launching, p = cpc[c], y = cx[c],
                 \A d \in Clients \ {c} : cpc[d] \notin Launching
          PROVE  \E q \in Pcs : Where(q, y)' /\ (q = p \/ (p = "sleep" /\ q = "wait"))
      <3>1. PICK q \in Pcs : q = cpc'[c]
        BY <1>6 DEF TypeOK
      <3>2. /\ cpc'[c] \in Launching /\ q = cpc'[c] /\ y = cx'[c]
            /\ \A d \in Clients \ {c} : cpc'[d] \notin Launching
        BY <1>3, <1>8, <2>2, <3>1
      <3>3. Where(q, y)'
        BY <3>2 DEF Where
      <3> QED BY <1>8, <2>2, <3>1, <3>3
    <2> QED BY <1>1, <2>1, <2>2 DEF Where
  <1>10. Counts(q)' /\ (Started(q)' <=> Started(p))
    BY <1>1, <1>3, <1>4, <1>9 DEF Phase, Counts, Started
  <1>11. ASSUME Started(p) PROVE Stage(srv[ctx])' /\ Progress(srv[ctx], q, y)'
    <2>1. Stage(srv[ctx]) /\ Progress(srv[ctx], p, y) /\ ctx \in DOMAIN srv
      BY <1>1, <1>11 DEF Phase, Started, Counts, Calm, TypeOK
    <2>2. CASE n = ctx
      BY <1>3, <1>4, <1>5, <1>9, <2>1, <2>2 DEF Stage, Progress
    <2>3. CASE n # ctx
      BY <1>3, <1>4, <1>9, <2>1, <2>3 DEF Stage, Progress
    <2> QED BY <2>2, <2>3
  <1>12. ~Started(p) => Nobody' /\ (q = "spawn" => pipe' \notin shut')
    BY <1>1, <1>3, <1>9 DEF Phase, Nobody, Started
  <1>13. Phase(q, y)'
    BY <1>1, <1>3, <1>9, <1>10, <1>11, <1>12 DEF Phase, Started
  <1> QED BY <1>6, <1>7, <1>9, <1>13 DEF Calm

\* enable_server_sockets, and install_listener failing for half a second.
LEMMA OtherServerStepsKeepCalm ==
    ASSUME Calm, NEW n \in DOMAIN srv, RunPosted(n) \/ InstallTimesOut(n)
    PROVE  Calm'
  <1>1. PICK p \in Pcs, y \in Nat : Where(p, y) /\ Phase(p, y)
    BY DEF Calm
  <1>2. /\ UNCHANGED <<other, notFirst, pipe, full, shut, ctx, term, looper, smart, sock, srv, cpc, cx, hasty>>
        /\ posted' \subseteq posted
    BY DEF RunPosted, InstallTimesOut, Client, pipes, context, socket
  <1>3. TypeOK' /\ OldInv' /\ Where(p, y)' /\ Phase(p, y)'
    BY <1>1, <1>2 DEF Calm, TypeOK, OldInv, Where, Phase, Counts, Started, Nobody, Stage, Progress
  <1>4. Foreigners'
    <2>1. CASE RunPosted(n)
      BY <2>1 DEF Calm, Foreigners, RunPosted
    <2>2. CASE InstallTimesOut(n)
      <3>1. srv[n].pc = "listen" /\ PortIsTaken
        BY <2>2 DEF InstallTimesOut, Srv
      <3>2. n = ctx /\ Stage(srv[ctx])
        BY <1>1, <3>1, OnlyCurrent DEF Calm
      <3> QED BY <1>2, <3>1, <3>2 DEF Foreigners, PortIsTaken, Stage
    <2> QED BY <2>1, <2>2
  <1> QED BY <1>3, <1>4 DEF Calm

------------------------------------------------------------------------------
(* What the system and other programs do, and the whole step.              *)

LEMMA OthersKeepCalm ==
    ASSUME Calm, ForeignExits \/ LoseSocket \/ UseDeletedContext
    PROVE  Calm'
  <1>1. PICK p \in Pcs, y \in Nat : Where(p, y) /\ Phase(p, y)
    BY DEF Calm
  <1>2. /\ UNCHANGED <<notFirst, pipe, full, shut, ctx, term, looper, posted, smart, srv, cpc, cx, hasty>>
        /\ sock' = sock \/ (sock = "listening" /\ sock' = "dead")
    BY DEF ForeignExits, LoseSocket, UseDeletedContext, Bounds, Client, pipes, context, socket
  <1>3. TypeOK' /\ OldInv' /\ Where(p, y)'
    BY <1>1, <1>2 DEF Calm, TypeOK, OldInv, Where
  <1>4. Phase(p, y)'
    BY <1>1, <1>2 DEF Phase, Counts, Started, Nobody, Stage, Progress
  <1>5. Foreigners'
    BY DEF Calm, Foreigners, ForeignExits, LoseSocket, UseDeletedContext, Alive, Bounds
  <1> QED BY <1>3, <1>4, <1>5 DEF Calm

LEMMA LaunchInductive ==
    ASSUME LaunchInv, [Next]_vars
    PROVE  LaunchInv'
  <1>1. CASE hasty
    <2>1. ASSUME NEW c \in Clients, CheckServerVersion(c) \/ ClientStep(c) \/ WakeSpuriously(c) PROVE hasty'
      BY <1>1, <2>1 DEF ClientStep, CheckServerVersion, WakeSpuriously, KillServer, Answered, Connect, Launch,
            WaitForLoopExit, Cleanup, Reset, MakePipe, Spawn, StartRead, Read, Bounds
    <2>2. ASSUME NEW n \in DOMAIN srv, ServerStep(n) \/ NotifyStep(n) PROVE hasty'
      BY <1>1, <2>2 DEF ServerStep, NotifyStep, ServerMain, InstallListener, StartNotifyThread, EnterLoop,
            RunPosted, ExitLoop, NotifyLoopExit, InstallTimesOut, Notify, PostEnable, Client, Bounds
    <2>3. CASE ForeignExits \/ LoseSocket \/ UseDeletedContext
      <3>1. hasty' = hasty
        BY <2>3 DEF ForeignExits, LoseSocket, UseDeletedContext, Client, Bounds
      <3> QED BY <1>1, <3>1 DEF LaunchInv
    <2>4. CASE UNCHANGED vars
      <3>1. hasty' = hasty
        BY <2>4 DEF vars
      <3> QED BY <1>1, <3>1 DEF LaunchInv
    <2> QED BY <2>1, <2>2, <2>3, <2>4 DEF Next, LaunchInv
  <1>2. CASE Calm
    <2>1. ASSUME NEW c \in Clients, CheckServerVersion(c) \/ ClientStep(c) \/ WakeSpuriously(c) PROVE LaunchInv'
      BY <1>2, <2>1, ClientKeepsCalm DEF LaunchInv
    <2>2. ASSUME NEW n \in DOMAIN srv, ServerStep(n) \/ NotifyStep(n) PROVE LaunchInv'
      BY <1>2, <2>2, StartUpKeepsCalm, RunningKeepsCalm, NotifyLoopExitKeepsCalm, OtherServerStepsKeepCalm
         DEF LaunchInv, ServerStep, NotifyStep
    <2>3. CASE ForeignExits \/ LoseSocket \/ UseDeletedContext
      BY <1>2, <2>3, OthersKeepCalm DEF LaunchInv
    <2>4. CASE UNCHANGED vars
      BY <1>2, <2>4 DEF vars, LaunchInv, Calm, TypeOK, OldInv, Foreigners, Where, Phase, Counts, Started,
            Nobody, Stage, Progress
    <2> QED BY <2>1, <2>2, <2>3, <2>4 DEF Next
  <1> QED BY <1>1, <1>2 DEF LaunchInv

LEMMA LaunchInit == Init => LaunchInv
  <1> SUFFICES ASSUME Init PROVE LaunchInv
    OBVIOUS
  <1>1. TypeOK
    <2>1. looper \in Seq(Nat) /\ Len(looper) = 1
      BY DEF Init
    <2>2. hasty \in BOOLEAN
      BY Zenon DEF Init
    <2>3. srv \in Seq(Servers)
      BY DEF Init
    <2> QED BY <2>1, <2>2, <2>3 DEF Init, TypeOK, Pcs, Launching
  <1>2. OldInv /\ Foreigners
    BY DEF Init, OldInv, Foreigners
  <1>3. Where("idle", 0) /\ Phase("idle", 0)
    BY DEF Init, Where, Launching, Phase, Counts, Started, Nobody
  <1> QED BY <1>1, <1>2, <1>3 DEF Calm, LaunchInv, Pcs

LEMMA LaunchInvariant == Spec => []LaunchInv
  <1>1. LaunchInv /\ [Next]_vars => LaunchInv'
    BY LaunchInductive
  <1> QED BY LaunchInit, <1>1, PTL DEF Spec

\* launch_server, "Wait for the fdevent loop to actually exit before
\* destroying the context": however often the socket is lost and the server
\* launched again, by however many clients, a loop runs only on the context
\* that is not deleted, and one at most, until a launch begins beside another
\* or before the last server was in its loop and enabled.
THEOREM LoopHasContextCorrect == Spec => []LoopHasContext
  <1>1. LaunchInv => LoopHasContext
    <2> SUFFICES ASSUME Calm, NEW n \in DOMAIN srv, srv[n].pc = "loop"
                 PROVE  srv[n].at = ctx /\ looper[ctx] = n
      BY DEF LaunchInv, LoopHasContext
    <2>1. PICK p \in Pcs, y \in Nat : Where(p, y) /\ Phase(p, y)
      BY DEF Calm
    <2>2. n = ctx /\ Stage(srv[ctx])
      BY <2>1, OnlyCurrent DEF Calm
    <2> QED BY <2>2 DEF Stage
  <1> QED BY <1>1, LaunchInvariant, PTL

\* launch_server reads "OK" from the pipe: when it is there the listener of
\* this launch is installed, alive or lost again, never an earlier one's that
\* is closed, until a launch is hasty.
THEOREM AckMeansListeningCorrect == Spec => []AckMeansListening
  <1>1. LaunchInv => AckMeansListening
    <2> SUFFICES ASSUME Calm, NEW c \in Clients, cpc[c] = "read", cx[c] \in full PROVE sock # "none"
      BY DEF LaunchInv, AckMeansListening
    <2>1. Phase("read", cx[c]) /\ TypeOK
      BY LauncherPhase DEF Launching, Calm
    <2>2. notFirst /\ Started("read")
      BY <2>1 DEF Phase, Counts, Started
    <2>3. Stage(srv[ctx]) /\ Progress(srv[ctx], "read", cx[c]) /\ srv[ctx] \in Servers
      BY <2>1, <2>2 DEF Phase, Counts, TypeOK
    <2>4. pipe \in shut
      BY <2>1, <2>3 DEF Progress, TypeOK
    <2>5. srv[ctx].pc \in {"enter", "loop"}
      BY <2>3, <2>4 DEF Stage, Progress, Servers, SrvPcs
    <2> QED BY <2>3, <2>5 DEF Stage
  <1> QED BY <1>1, LaunchInvariant, PTL

\* adb_server_main aborts the process when install_listener fails for half a
\* second: it does so only when another program holds the port, never over
\* the smart socket of its own last server, and a pipe is never written
\* after it was closed, until a launch is hasty.
THEOREM AbortIsForeignCorrect == Spec => []AbortIsForeign
  <1>1. LaunchInv => AbortIsForeign
    BY DEF LaunchInv, Calm, Foreigners, AbortIsForeign
  <1> QED BY <1>1, LaunchInvariant, PTL
==============================================================================
