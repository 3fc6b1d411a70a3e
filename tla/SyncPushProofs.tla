--------------------------- MODULE SyncPushProofs ----------------------------
(***************************************************************************)
(* Proofs about SyncPush, for every job (a file may be listed twice, but   *)
(* in FailureIsAttributedCorrect), with or without local errors, and every *)
(* capacity of the connection.                                             *)
(***************************************************************************)
EXTENDS SyncPush, FiniteSetTheorems, SequenceTheorems, TLAPS

------------------------------------------------------------------------------
(* Counting the messages of some kinds in a queue.                         *)

Count(s, K) == Cardinality({i \in DOMAIN s : s[i].m \in K})

\* A count is a number, and zero when no message is of these kinds.
LEMMA CountType ==
    ASSUME NEW M, NEW K, NEW s \in Seq(M)
    PROVE  /\ Count(s, K) \in Nat
           /\ Count(s, K) = 0 <=> \A i \in DOMAIN s : s[i].m \notin K
           /\ IsFiniteSet({i \in DOMAIN s : s[i].m \in K})
  <1> DEFINE I == {i \in DOMAIN s : s[i].m \in K}
  <1>1. IsFiniteSet(I)
    <2>1. DOMAIN s = 1..Len(s) /\ Len(s) \in Int
      OBVIOUS
    <2>2. IsFiniteSet(1..Len(s))
      BY <2>1, FS_Interval
    <2> QED BY <2>1, <2>2, FS_Subset
  <1>2. Cardinality(I) \in Nat /\ (Cardinality(I) = 0 <=> I = {})
    <2> HIDE DEF I
    <2> QED BY <1>1, FS_CardinalityType, FS_EmptySet
  <1> QED BY <1>1, <1>2 DEF Count

\* What a message more counts.
LEMMA CountAppend ==
    ASSUME NEW M, NEW K, NEW s \in Seq(M), NEW x \in M
    PROVE  Count(Append(s, x), K) = IF x.m \in K THEN Count(s, K) + 1 ELSE Count(s, K)
  <1> DEFINE I == {i \in DOMAIN s : s[i].m \in K}
             J == {i \in DOMAIN Append(s, x) : Append(s, x)[i].m \in K}
  <1>1. J = IF x.m \in K THEN I \cup {Len(s) + 1} ELSE I
    OBVIOUS
  <1>2. Len(s) + 1 \notin I
    OBVIOUS
  <1>3. IsFiniteSet(I)
    BY CountType
  <1>4. Cardinality(I \cup {Len(s) + 1}) = Cardinality(I) + 1
    <2> HIDE DEF I
    <2> QED BY <1>2, <1>3, FS_AddElement
  <1>5. Count(s, K) = Cardinality(I) /\ Count(Append(s, x), K) = Cardinality(J)
    BY DEF Count
  <1> QED BY <1>1, <1>4, <1>5

\* What the message taken off the front counted.
LEMMA CountTail ==
    ASSUME NEW M, NEW K, NEW s \in Seq(M), s # <<>>
    PROVE  Count(s, K) = IF Head(s).m \in K THEN Count(Tail(s), K) + 1 ELSE Count(Tail(s), K)
  <1> DEFINE I == {i \in DOMAIN s : s[i].m \in K}
             J == {i \in DOMAIN Tail(s) : Tail(s)[i].m \in K}
             R == I \ {1}
             f == [j \in J |-> j + 1]
  <1>1. /\ Tail(s) \in Seq(M) /\ Len(Tail(s)) = Len(s) - 1 /\ Len(s) \in Nat /\ Len(s) > 0
        /\ \A j \in DOMAIN Tail(s) : j \in 1..(Len(s) - 1) /\ Tail(s)[j] = s[j + 1]
    OBVIOUS
  <1>2. \A j \in J : j \in Nat /\ j + 1 \in R
    BY <1>1
  <1>3. \A k \in R : k - 1 \in J /\ k = (k - 1) + 1
    BY <1>1
  <1>4. f \in Bijection(J, R)
    <2> HIDE DEF J, R
    <2>1. f \in Injection(J, R)
      BY <1>2 DEF Injection, IsInjective
    <2>2. f \in Surjection(J, R)
      BY <1>2, <1>3 DEF Surjection
    <2> QED BY <2>1, <2>2 DEF Bijection
  <1>5. IsFiniteSet(I) /\ IsFiniteSet(J)
    BY <1>1, CountType
  <1>6. IsFiniteSet(R) /\ Cardinality(R) = Cardinality(J)
    <2> HIDE DEF I, J, R, f
    <2> QED BY <1>4, <1>5, FS_Bijection DEF ExistsBijection
  <1>7. Cardinality(R) = IF 1 \in I THEN Cardinality(I) - 1 ELSE Cardinality(I)
    <2> HIDE DEF I
    <2> QED BY <1>5, FS_RemoveElement
  <1>8. 1 \in I <=> Head(s).m \in K
    BY <1>1
  <1>9. Count(s, K) = Cardinality(I) /\ Count(Tail(s), K) = Cardinality(J)
    BY DEF Count
  <1>10. Cardinality(I) \in Nat
    BY <1>9, CountType
  <1> HIDE DEF I, J, R
  <1> QED BY <1>6, <1>7, <1>8, <1>9, <1>10

------------------------------------------------------------------------------
(* What holds in every state: types, the place of the client on its list,  *)
(* and the two parts of a failure.                                         *)

Types ==
    /\ job \in Jobs /\ src \in Nat \ {0} /\ todo \in Seq(Files) /\ deferred \in Seq(Files)
    /\ req \in Seq(Requests) /\ rep \in Seq(Replies) /\ out \in Seq(Replies)
    /\ recv \subseteq Files

List == Sources[src].files

\* The client is inside a source.
Inside == pc \in {"ask", "stats", "send", "large"} \/ (pc = "acks" /\ ret # "end")

\* l is what is left of the list.
Rest(l) ==
    /\ Len(l) <= Len(List)
    /\ \A i \in 1..Len(l) : l[i] = List[Len(List) - Len(l) + i]

TodoInv ==
    /\ Inside => src <= Len(Sources) /\ Rest(todo)
    /\ pc = "large" => todo # <<>>
    /\ pc = "done" \/ (pc = "acks" /\ ret = "end") => src > Len(Sources)
    /\ pc = "acks" /\ ret \notin {"file", "end"} => todo = <<>>

\* The parts of replies on their way to the client: how many, and the kind of each.
Parts   == Len(rep) + Len(out)
Part(i) == IF i <= Len(rep) THEN rep[i].m ELSE out[i - Len(rep)].m

PairInv ==
    /\ \A i \in 1..Parts :
          /\ Part(i) = "fail" => i < Parts /\ Part(i + 1) = "reason"
          /\ Part(i) = "reason" => IF i = 1 THEN buf ELSE Part(i - 1) = "fail"
    /\ buf /\ Parts > 0 => Part(1) = "reason"
    /\ buf /\ ~closed => Parts > 0

Base == Types /\ TodoInv /\ PairInv

\* What do_sync_push is called with, from SyncPushAssumption.
LEMMA JobTypes ==
    ASSUME job \in Jobs
    PROVE  /\ Len(Sources) \in Nat /\ Sync \in BOOLEAN
           /\ \A i \in 1..Len(Sources) :
                 /\ Sources[i].files \in Seq(Files)
                 /\ ~Sources[i].dir => Len(Sources[i].files) = 1
  <1>1. Sources \in Seq([dir : BOOLEAN, files : Seq(Files)]) /\ Sync \in BOOLEAN
    BY SyncPushAssumption DEF Sources, Sync
  <1>2. \A i \in DOMAIN Sources : ~Sources[i].dir => Len(Sources[i].files) = 1
    BY SyncPushAssumption DEF Sources
  <1>3. DOMAIN Sources = 1..Len(Sources) /\ Len(Sources) \in Nat
    BY <1>1
  <1>4. ASSUME NEW i \in 1..Len(Sources) PROVE Sources[i].files \in Seq(Files)
    <2> DEFINE R == [dir : BOOLEAN, files : Seq(Files)]
    <2>1. Sources \in Seq(R)
      BY <1>1
    <2>2. Sources[i] \in R
      <3> HIDE DEF R
      <3> QED BY <2>1
    <2> QED BY <2>2
  <1> QED BY <1>1, <1>2, <1>3, <1>4

\* The list of the moment, and what a step along it leaves.
LEMMA ListTypes ==
    ASSUME Types, src <= Len(Sources)
    PROVE  /\ List \in Seq(Files) /\ Len(List) \in Nat /\ Rest(List) /\ Rest(<<>>)
           /\ ~IsDir => Len(List) = 1
           /\ Rest(todo) /\ todo # <<>> => Rest(Tail(todo)) /\ Head(todo) \in Files
  <1>1. List \in Seq(Files) /\ (~IsDir => Len(List) = 1)
    BY JobTypes DEF Types, List, IsDir
  <1> HIDE DEF List
  <1>2. Rest(List) /\ Rest(<<>>)
    BY <1>1 DEF Rest
  <1>3. ASSUME Rest(todo), todo # <<>> PROVE Rest(Tail(todo)) /\ Head(todo) \in Files
    <2>1. /\ Len(Tail(todo)) = Len(todo) - 1 /\ Len(todo) \in Nat /\ Len(todo) > 0
          /\ \A i \in 1..Len(Tail(todo)) : Tail(todo)[i] = todo[i + 1] /\ i + 1 \in 1..Len(todo)
      BY <1>3 DEF Types
    <2>2. Rest(Tail(todo))
      BY <1>1, <1>3, <2>1 DEF Rest
    <2> QED BY <1>3, <2>2 DEF Types
  <1> QED BY <1>1, <1>2, <1>3

\* Parts are read in front and written behind; a device that answers has no
\* part left to write.
LEMMA PairKept ==
    ASSUME PairInv, UNCHANGED <<rep, out, buf>>, closed => closed'
    PROVE  PairInv'
  BY DEF PairInv, Parts, Part

\* Reading the front of the replies keeps the two parts of a failure together.
LEMMA PairRead ==
    ASSUME Types, PairInv, rep # <<>>, rep' = Tail(rep), UNCHANGED <<out, closed>>,
           Head(rep).m = "fail" <=> buf', buf => Head(rep).m = "reason"
    PROVE  PairInv'
  <1>1. /\ Parts' = Parts - 1 /\ Parts \in Nat /\ Parts > 0
        /\ \A i \in 1..Parts' : Part(i)' = Part(i + 1)
    BY DEF Types, Parts, Part
  <1>2. Part(1) = Head(rep).m
    BY DEF Types, Part
  <1> HIDE DEF Parts, Part
  <1> QED BY <1>1, <1>2 DEF PairInv

\* So does moving a part from the device into the connection.
LEMMA PairMoved ==
    ASSUME Types, PairInv, ~closed, out # <<>>, rep' = Append(rep, Head(out)), out' = Tail(out), UNCHANGED buf
    PROVE  PairInv'
  <1>1. /\ Parts' = Parts /\ Parts \in Nat
        /\ \A i \in 1..Parts : Part(i)' = Part(i)
    BY DEF Types, Parts, Part
  <1> HIDE DEF Parts, Part
  <1> QED BY <1>1 DEF PairInv

\* So does a new reply of the device.
LEMMA PairAnswered ==
    ASSUME Types, PairInv, ~closed, out = <<>>, UNCHANGED <<rep, buf>>,
           \/ \E r \in Replies : out' = <<r>> /\ r.m \notin {"fail", "reason"}
           \/ \E f \in Files : out' = Failure(f)
    PROVE  PairInv'
  <1>1. PICK k \in Nat : k = Parts /\ k = Len(rep)
    BY DEF Types, Parts
  <1>2. CASE \E r \in Replies : out' = <<r>> /\ r.m \notin {"fail", "reason"}
    <2>0. PICK r \in Replies : out' = <<r>> /\ r.m \notin {"fail", "reason"}
      BY <1>2
    <2>1. Len(out') = 1 /\ out'[1] = r
      BY <2>0
    <2>2. /\ Parts' = k + 1 /\ Part(k + 1)' = r.m
          /\ \A i \in 1..k : Part(i)' = Part(i)
      BY <1>1, <2>1 DEF Parts, Part
    <2> HIDE DEF Parts, Part
    <2> QED BY <1>1, <2>0, <2>2 DEF PairInv
  <1>3. CASE \E f \in Files : out' = Failure(f)
    <2>1. Len(out') = 2 /\ out'[1].m = "fail" /\ out'[2].m = "reason"
      BY <1>3 DEF Failure
    <2>2. /\ Parts' = k + 2 /\ Part(k + 1)' = "fail" /\ Part(k + 2)' = "reason"
          /\ \A i \in 1..k : Part(i)' = Part(i)
      BY <1>1, <2>1 DEF Parts, Part
    <2> HIDE DEF Parts, Part
    <2> QED BY <1>1, <2>2 DEF PairInv
  <1> QED BY <1>2, <1>3

\* What a step of the client can do to its variables and to the connection.
Moves ==
    /\ UNCHANGED <<job, out, recv>>
    /\ src' \in {src, src + 1}
    /\ \/ todo' \in {todo, <<>>}
       \/ src <= Len(Sources) /\ todo' = List
       \/ todo # <<>> /\ todo' = Tail(todo)
    /\ \/ UNCHANGED deferred
       \/ deferred # <<>> /\ deferred' = Tail(deferred)
       \/ todo # <<>> /\ deferred' = Append(deferred, Head(todo))
    /\ UNCHANGED rep \/ (rep # <<>> /\ rep' = Tail(rep))
    /\ \/ UNCHANGED req
       \/ /\ todo # <<>>
          /\ \E k \in {"lstat", "small", "send", "data", "done"} :
                req' = Append(req, [m |-> k, f |-> Head(todo)])

\* Types of what the actions do with queues.
LEMMA SeqTypes ==
    ASSUME NEW S, NEW s \in Seq(S)
    PROVE  /\ s # <<>> => Tail(s) \in Seq(S) /\ Head(s) \in S
           /\ \A x \in S : Append(s, x) \in Seq(S)
  OBVIOUS

\* Steps within the lists and queues keep the types.
LEMMA MovesKeepTypes ==
    ASSUME Types, Moves
    PROVE  Types'
  <1>1. todo' \in Seq(Files)
    <2>1. <<>> \in Seq(Files) /\ (src <= Len(Sources) => List \in Seq(Files))
      BY ListTypes
    <2> QED BY <2>1, SeqTypes DEF Types, Moves
  <1>2. deferred' \in Seq(Files)
    BY SeqTypes DEF Types, Moves
  <1>3. rep' \in Seq(Replies)
    BY SeqTypes DEF Types, Moves
  <1>4. req' \in Seq(Requests)
    <2>1. ASSUME todo # <<>>, NEW k \in {"lstat", "small", "send", "data", "done"}
          PROVE  [m |-> k, f |-> Head(todo)] \in Requests
      BY <2>1 DEF Types, Requests
    <2>2. ASSUME NEW r \in Requests, req' = Append(req, r) PROVE req' \in Seq(Requests)
      BY <2>2 DEF Types
    <2> QED BY <2>1, <2>2 DEF Types, Moves
  <1> QED BY <1>1, <1>2, <1>3, <1>4 DEF Types, Moves

\* The client's steps keep types and place.
LEMMA ClientBase ==
    ASSUME Types, TodoInv, (Client \/ SendData) /\ UNCHANGED job
    PROVE  Types' /\ TodoInv'
  <1>0. UNCHANGED Sources
    BY DEF Sources
  <1>1. CASE NextSource
    <2>1. Moves
      BY <1>1 DEF Moves, TodoInv, Inside, List, NextSource, device
    <2>2. TodoInv'
      BY <1>0, <1>1, ListTypes DEF Types, TodoInv, Inside, Rest, List, NextSource, device
    <2> QED BY <2>1, <2>2, MovesKeepTypes
  <1>2. CASE SourceFails
    <2>1. Moves
      BY <1>2 DEF Moves, TodoInv, Inside, List, SourceFails, GiveUp, device
    <2>2. TodoInv'
      BY <1>0, <1>2, ListTypes DEF Types, TodoInv, Inside, Rest, List, SourceFails, GiveUp, device
    <2> QED BY <2>1, <2>2, MovesKeepTypes
  <1>3. CASE SourcesEnd
    <2>1. Moves
      BY <1>3 DEF Moves, TodoInv, Inside, List, SourcesEnd, device
    <2>2. TodoInv'
      BY <1>0, <1>3, ListTypes DEF Types, TodoInv, Inside, Rest, List, SourcesEnd, device
    <2> QED BY <2>1, <2>2, MovesKeepTypes
  <1>4. CASE AskStat
    <2>1. Moves
      BY <1>4 DEF Moves, TodoInv, Inside, List, AskStat, Write, device
    <2>2. TodoInv'
      BY <1>0, <1>4, ListTypes DEF Types, TodoInv, Inside, Rest, List, AskStat, Write, device
    <2> QED BY <2>1, <2>2, MovesKeepTypes
  <1>5. CASE AskFails
    <2>1. Moves
      BY <1>5 DEF Moves, TodoInv, Inside, List, AskFails, GiveUp, WriteFails, device
    <2>2. TodoInv'
      BY <1>0, <1>5, ListTypes DEF Types, TodoInv, Inside, Rest, List, AskFails, GiveUp, WriteFails, device
    <2> QED BY <2>1, <2>2, MovesKeepTypes
  <1>6. CASE FinishStat
    <2>1. Moves
      BY <1>6 DEF Moves, TodoInv, Inside, List, FinishStat, device
    <2>2. TodoInv'
      BY <1>0, <1>6, ListTypes DEF Types, TodoInv, Inside, Rest, List, FinishStat, device
    <2> QED BY <2>1, <2>2, MovesKeepTypes
  <1>7. CASE SkipFile
    <2>1. Moves
      BY <1>7 DEF Moves, TodoInv, Inside, List, SkipFile, device
    <2>2. TodoInv'
      BY <1>0, <1>7, ListTypes DEF Types, TodoInv, Inside, Rest, List, SkipFile, device
    <2> QED BY <2>1, <2>2, MovesKeepTypes
  <1>8. CASE FilesEnd
    <2>1. Moves
      BY <1>8 DEF Moves, TodoInv, Inside, List, FilesEnd, device
    <2>2. TodoInv'
      BY <1>0, <1>8, ListTypes DEF Types, TodoInv, Inside, Rest, List, FilesEnd, device
    <2> QED BY <2>1, <2>2, MovesKeepTypes
  <1>9. CASE LocalFails
    <2>1. Moves
      BY <1>9 DEF Moves, TodoInv, Inside, List, LocalFails, Sending, GiveUp, device
    <2>2. TodoInv'
      BY <1>0, <1>9, ListTypes DEF Types, TodoInv, Inside, Rest, List, LocalFails, Sending, GiveUp, device
    <2> QED BY <2>1, <2>2, MovesKeepTypes
  <1>10. CASE SendSmallFile
    <2>1. Moves
      BY <1>10 DEF Moves, TodoInv, Inside, List, SendSmallFile, Sending, Write, WriteFails, WriteOrDie, FileSent, device
    <2>2. TodoInv'
      BY <1>0, <1>10, ListTypes DEF Types, TodoInv, Inside, Rest, List, SendSmallFile, Sending, Write, WriteFails, WriteOrDie, FileSent, device
    <2> QED BY <2>1, <2>2, MovesKeepTypes
  <1>11. CASE SendRequest
    <2>1. Moves
      BY <1>11 DEF Moves, TodoInv, Inside, List, SendRequest, Sending, Write, WriteFails, GiveUp, device
    <2>2. TodoInv'
      BY <1>0, <1>11, ListTypes DEF Types, TodoInv, Inside, Rest, List, SendRequest, Sending, Write, WriteFails, GiveUp, device
    <2> QED BY <2>1, <2>2, MovesKeepTypes
  <1>12. CASE SendData
    <2>1. Moves
      BY <1>12 DEF Moves, TodoInv, Inside, List, SendData, Write, WriteFails, WriteOrDie, client, device
    <2>2. TodoInv'
      BY <1>0, <1>12, ListTypes DEF Types, TodoInv, Inside, Rest, List, SendData, Write, WriteFails, WriteOrDie, client, device
    <2> QED BY <2>1, <2>2, MovesKeepTypes
  <1>13. CASE SendDone
    <2>1. Moves
      BY <1>13 DEF Moves, TodoInv, Inside, List, SendDone, Write, WriteFails, WriteOrDie, FileSent, device
    <2>2. TodoInv'
      BY <1>0, <1>13, ListTypes DEF Types, TodoInv, Inside, Rest, List, SendDone, Write, WriteFails, WriteOrDie, FileSent, device
    <2> QED BY <2>1, <2>2, MovesKeepTypes
  <1>14. CASE LargeFails
    <2>1. Moves
      BY <1>14 DEF Moves, TodoInv, Inside, List, LargeFails, GiveUp, device
    <2>2. TodoInv'
      BY <1>0, <1>14, ListTypes DEF Types, TodoInv, Inside, Rest, List, LargeFails, GiveUp, device
    <2> QED BY <2>1, <2>2, MovesKeepTypes
  <1>15. CASE AllRead
    <2>1. Moves
      BY <1>15 DEF Moves, TodoInv, Inside, List, AllRead, Return, AckVars, device
    <2>2. TodoInv'
      BY <1>0, <1>15, ListTypes DEF Types, TodoInv, Inside, Rest, List, AllRead, Return, AckVars, device
    <2> QED BY <2>1, <2>2, MovesKeepTypes
  <1>16. CASE TryLater
    <2>1. Moves
      BY <1>16 DEF Moves, TodoInv, Inside, List, TryLater, Return, AckVars, device
    <2>2. TodoInv'
      BY <1>0, <1>16, ListTypes DEF Types, TodoInv, Inside, Rest, List, TryLater, Return, AckVars, device
    <2> QED BY <2>1, <2>2, MovesKeepTypes
  <1>17. CASE ReadHeader
    <2>1. Moves
      BY <1>17 DEF Moves, TodoInv, Inside, List, ReadHeader, CopyDone, device
    <2>2. TodoInv'
      BY <1>0, <1>17, ListTypes DEF Types, TodoInv, Inside, Rest, List, ReadHeader, CopyDone, device
    <2> QED BY <2>1, <2>2, MovesKeepTypes
  <1>18. CASE ReadFailure
    <2>1. Moves
      BY <1>18 DEF Moves, TodoInv, Inside, List, ReadFailure, Return, CopyDone, device
    <2>2. TodoInv'
      BY <1>0, <1>18, ListTypes DEF Types, TodoInv, Inside, Rest, List, ReadFailure, Return, CopyDone, device
    <2> QED BY <2>1, <2>2, MovesKeepTypes
  <1>19. CASE ReadError
    <2>1. Moves
      BY <1>19 DEF Moves, TodoInv, Inside, List, ReadError, Return, AckVars, device
    <2>2. TodoInv'
      BY <1>0, <1>19, ListTypes DEF Types, TodoInv, Inside, Rest, List, ReadError, Return, AckVars, device
    <2> QED BY <2>1, <2>2, MovesKeepTypes
  <1> QED BY <1>1, <1>2, <1>3, <1>4, <1>5, <1>6, <1>7, <1>8, <1>9, <1>10, <1>11, <1>12, <1>13, <1>14, <1>15, <1>16, <1>17, <1>18, <1>19 DEF Client

\* The client's steps keep the pairs.
LEMMA ClientPairs ==
    ASSUME Types, PairInv, Client \/ SendData
    PROVE  PairInv'
  <1>1. rep # <<>> => Part(1) = Head(rep).m /\ Parts > 0
    BY DEF Types, Part, Parts
  <1>2. CASE ReadHeader
    BY <1>1, <1>2, PairRead DEF ReadHeader, device
  <1>3. CASE ReadFailure
    BY <1>1, <1>3, PairRead DEF ReadFailure, device, PairInv
  <1>4. CASE FinishStat
    <2>1. CASE UNCHANGED rep
      BY <1>4, <2>1, PairKept DEF FinishStat, device
    <2>2. CASE rep # <<>> /\ Head(rep).m \in {"same", "other"} /\ rep' = Tail(rep)
      <3>1. ~buf /\ ~buf' /\ UNCHANGED <<out, closed>>
        BY <1>1, <1>4, <2>2 DEF FinishStat, device, PairInv
      <3> QED BY <2>2, <3>1, PairRead
    <2> QED BY <1>4, <2>1, <2>2 DEF FinishStat
  <1>5. CASE UNCHANGED <<rep, out, buf, closed>>
    BY <1>5, PairKept
  <1>6. ReadHeader \/ ReadFailure \/ FinishStat \/ UNCHANGED <<rep, out, buf, closed>>
    BY DEF Client, SendData, NextSource, SourceFails, SourcesEnd, AskStat, AskFails, SkipFile, FilesEnd,
           LocalFails, SendSmallFile, SendRequest, SendDone, LargeFails, AllRead, TryLater, ReadError,
           WriteOrDie, FileSent, AckVars, client, device
  <1> QED BY <1>2, <1>3, <1>4, <1>5, <1>6

------------------------------------------------------------------------------
(* What the device does with the request r, by what it is.                 *)

Answers(f) ==
    /\ recv' = {}
    /\ \/ out' = <<[m |-> "okay", f |-> f]>> /\ stored' = stored \cup {f}
       \/ out' = Failure(f) /\ stored' = stored \ {f}

GivesStat(r) ==
    /\ recv = {} /\ r.m = "lstat" /\ UNCHANGED <<recv, stored>>
    /\ out' = <<[m |-> IF r.f \in stored THEN "same" ELSE "other", f |-> r.f]>>
TakesSmall(r) == recv = {} /\ r.m = "small" /\ Answers(r.f)
Begins(r)     == recv = {} /\ r.m = "send" /\ recv' = {r.f} /\ stored' = stored \ {r.f} /\ out' = <<>>
TakesData(r)  == recv = {r.f} /\ r.m = "data" /\ UNCHANGED <<recv, stored>> /\ out' = <<>>
Ends(r)       == recv = {r.f} /\ r.m = "done" /\ Answers(r.f)
Refuses(r) ==
    /\ recv = {} => r.m \notin {"lstat", "small", "send"}
    /\ recv = {r.f} => r.m \notin {"data", "done"}
    /\ \E f \in IF recv = {} THEN {r.f} ELSE recv : out' = Failure(f)
    /\ UNCHANGED <<recv, stored>>

\* The cases of a request the device reads.
LEMMA DeviceReading ==
    ASSUME DeviceReads, NEW r, r = Head(req)
    PROVE  /\ ~closed /\ ~closed' /\ out = <<>> /\ req # <<>> /\ req' = Tail(req)
           /\ UNCHANGED <<client, rep>>
           /\ \/ GivesStat(r) \/ TakesSmall(r) \/ Begins(r) \/ TakesData(r) \/ Ends(r) \/ Refuses(r)
  BY DEF DeviceReads, Finish, Answers, GivesStat, TakesSmall, Begins, TakesData, Ends, Refuses

\* Steps of the device.
LEMMA DeviceBase ==
    ASSUME Base, DeviceReads \/ DeviceWrites \/ DeviceCloses, UNCHANGED job
    PROVE  Base'
  <1>1. Types /\ TodoInv /\ PairInv
    BY DEF Base
  <1>2. UNCHANGED <<client, Sources>>
    BY DEF DeviceReads, DeviceWrites, DeviceCloses, Sources
  <1>3. TodoInv'
    BY <1>1, <1>2 DEF TodoInv, Inside, Rest, List, client
  <1>4. CASE DeviceReads
    <2> DEFINE r == Head(req)
    <2>1. /\ ~closed /\ out = <<>> /\ req # <<>> /\ req' = Tail(req) /\ UNCHANGED rep
          /\ \/ GivesStat(r) \/ TakesSmall(r) \/ Begins(r) \/ TakesData(r) \/ Ends(r) \/ Refuses(r)
      BY <1>4, DeviceReading
    <2>2. r \in Requests /\ Tail(req) \in Seq(Requests)
      BY <1>1, <2>1, SeqTypes DEF Types
    <2>3. r.f \in Files
      BY <2>2 DEF Requests
    <2> HIDE DEF r
    <2>4. \/ UNCHANGED out
          \/ \E a \in Replies : out' = <<a>> /\ a.m \notin {"fail", "reason"}
          \/ \E f \in Files : out' = Failure(f)
      <3>1. ASSUME NEW k \in {"same", "other", "okay"}
            PROVE  [m |-> k, f |-> r.f] \in Replies /\ [m |-> k, f |-> r.f].m \notin {"fail", "reason"}
        BY <2>3 DEF Replies
      <3> QED BY <1>1, <2>1, <2>3, <3>1
            DEF GivesStat, TakesSmall, Begins, TakesData, Ends, Refuses, Answers, Types
    <2>5. ASSUME NEW f \in Files PROVE Failure(f) \in Seq(Replies)
      BY DEF Failure, Replies
    <2>6. ASSUME NEW a \in Replies PROVE <<a>> \in Seq(Replies)
      OBVIOUS
    <2>7. out' \in Seq(Replies)
      BY <1>1, <2>4, <2>5, <2>6 DEF Types
    <2>8. recv' \subseteq Files
      BY <1>1, <2>1, <2>3 DEF GivesStat, TakesSmall, Begins, TakesData, Ends, Refuses, Answers, Types
    <2>9. Types'
      BY <1>1, <1>2, <2>1, <2>2, <2>7, <2>8 DEF Types, client
    <2>10. PairInv'
      BY <1>1, <1>2, <1>4, <2>1, <2>4, PairAnswered, PairKept DEF client
    <2> QED BY <1>3, <2>9, <2>10 DEF Base
  <1>5. CASE DeviceWrites
    <2>1. Types'
      BY <1>1, <1>2, <1>5, SeqTypes DEF Types, DeviceWrites, client
    <2>2. PairInv'
      BY <1>1, <1>2, <1>5, PairMoved DEF DeviceWrites, client
    <2> QED BY <1>3, <2>1, <2>2 DEF Base
  <1>6. CASE DeviceCloses
    <2>1. Types'
      BY <1>1, <1>2, <1>6 DEF Types, DeviceCloses, client, device
    <2>2. PairInv'
      BY <1>1, <1>2, <1>6, PairKept DEF DeviceCloses, client, device
    <2> QED BY <1>3, <2>1, <2>2 DEF Base
  <1> QED BY <1>4, <1>5, <1>6

LEMMA BaseInductive ==
    ASSUME Base, [Next]_vars
    PROVE  Base'
  <1>1. CASE (Client \/ SendData) /\ UNCHANGED job
    BY <1>1, ClientBase, ClientPairs DEF Base
  <1>2. CASE (DeviceReads \/ DeviceWrites \/ DeviceCloses) /\ UNCHANGED job
    BY <1>2, DeviceBase
  <1>3. CASE UNCHANGED vars
    BY <1>3 DEF vars, Base, Types, TodoInv, Inside, Rest, List, Sources, PairInv, Parts, Part
  <1> QED BY <1>1, <1>2, <1>3 DEF Next, Device, Client

LEMMA BaseInit ==
    ASSUME Init
    PROVE  Base
  <1>1. Types
    BY DEF Init, Types
  <1> QED BY <1>1 DEF Init, Base, TodoInv, Inside, PairInv, Parts

------------------------------------------------------------------------------
(* What holds while nothing has failed.                                    *)

\* Messages that stand for one outstanding acknowledgement each.
Units == {"okay", "reason", "small", "done"}
Stats == {"same", "other", "lstat"}

Total(K)    == Count(rep, K) + Count(out, K) + Count(req, K)
Outstanding == Total(Units)

\* A file was "sent" to a device that had closed the connection.
Lost == Outstanding < Len(deferred)

Good == success /\ pc \notin {"exit", "fault"}

CountInv == Outstanding <= Len(deferred)

\* When everything must have been acknowledged.
AcksInv ==
    /\ pc = "acks" /\ (ret # "file" \/ (Sync /\ ~IsDir)) => readAll
    /\ (Sync /\ (pc = "next" \/ (pc = "send" /\ ~IsDir))) \/ pc = "done" => deferred = <<>>

\* The device reads what it expects: before the i-th request a large file is
\* open or none is, and it is the one the request goes on with.
OpenAt(i) == IF i = 0 THEN recv # {} ELSE req[i].m \in {"send", "data"}
FileAt(i) == IF i = 0 THEN recv ELSE {req[i].f}

ShapeInv ==
    /\ \A i \in 1..Len(req) : /\ req[i].m \in {"data", "done"} <=> OpenAt(i - 1)
                              /\ OpenAt(i - 1) => FileAt(i) = FileAt(i - 1)
    /\ ~closed => (pc = "large" <=> OpenAt(Len(req)))
    /\ ~closed /\ pc = "large" => FileAt(Len(req)) = {Head(todo)}

\* A large file that was begun by the i-th request will be finished, unless
\* its end was lost.
Finishing(f, i) ==
    \/ \E j \in 1..Len(req) : j > i /\ req[j].m = "done" /\ req[j].f = f
    \/ pc = "large" /\ Head(todo) = f
    \/ Lost

FinishInv ==
    /\ \A f \in recv : Finishing(f, 0)
    /\ \A i \in 1..Len(req) : req[i].m \in {"send", "data"} => Finishing(req[i].f, i)

\* Sizes and times are asked for when nothing else is on its way, and the
\* answers come in the order of the list.
Asking == pc \in {"ask", "stats"}
OnWire == Len(rep) + Len(out) + Len(req)

Aligned(l) ==
    /\ \A i \in 1..Len(rep) : rep[i].f = l[i]
    /\ \A i \in 1..Len(out) : out[i].f = l[Len(rep) + i]
    /\ \A i \in 1..Len(req) : req[i].f = l[Len(rep) + Len(out) + i]

KindInv ==
    /\ \A i \in 1..Len(rep) : rep[i].m \in Stats <=> Asking
    /\ \A i \in 1..Len(out) : out[i].m \in Stats <=> Asking
    /\ \A i \in 1..Len(req) : req[i].m \in Stats <=> Asking

StatInv ==
    /\ Asking => Sync /\ deferred = <<>> /\ recv = {}
    /\ \A i \in 1..Len(rep) : rep[i].m = "same" => rep[i].f \in stored
    /\ \A i \in 1..Len(out) : out[i].m = "same" => out[i].f \in stored
    /\ pc = "ask" => /\ Aligned(List) /\ OnWire <= Len(List) - Len(todo)
                     /\ ~closed => OnWire = Len(List) - Len(todo)
    /\ pc = "stats" => Aligned(todo) /\ OnWire <= Len(todo)

\* A file found up to date stays so.
SkipInv ==
    /\ skip \subseteq stored
    /\ \A i \in 1..Len(req) : req[i].m \notin Stats => req[i].f \notin skip
    /\ pc = "large" => Head(todo) \notin skip

\* The file is on its way, or the news that it could not be stored.
Flying(f) ==
    \/ \E i \in 1..Len(req) : req[i].m \in {"small", "done"} /\ req[i].f = f
    \/ \E i \in 1..Len(out) : out[i].m = "reason" /\ out[i].f = f
    \/ \E i \in 1..Len(rep) : rep[i].m = "reason" /\ rep[i].f = f

\* The files the client is done with, and what became of them.
Handled(f) ==
    \/ \E i \in 1..(src - 1) : \E j \in 1..Len(Sources[i].files) : Sources[i].files[j] = f
    \/ /\ Inside /\ ~Asking
       /\ \E j \in 1..(Len(List) - Len(todo)) : List[j] = f

Safe(f) == f \in stored \/ Flying(f) \/ Lost \/ (pc = "large" /\ Head(todo) = f)

SafeInv == \A f \in Files : Handled(f) => Safe(f)

WireInv == CountInv /\ ShapeInv /\ FinishInv /\ KindInv /\ StatInv /\ SkipInv
GoodInv == AcksInv /\ WireInv /\ SafeInv

PushInv == Base /\ FaultNeedsFailure /\ (Good => GoodInv)

------------------------------------------------------------------------------
(* How messages and outstanding acknowledgements go together.              *)

\* The messages of some kinds in the whole connection.
LEMMA TotalType ==
    ASSUME Types, NEW K
    PROVE  /\ Count(rep, K) \in Nat /\ Count(out, K) \in Nat /\ Count(req, K) \in Nat /\ Total(K) \in Nat
           /\ Total(K) = 0 <=> /\ \A i \in 1..Len(rep) : rep[i].m \notin K
                               /\ \A i \in 1..Len(out) : out[i].m \notin K
                               /\ \A i \in 1..Len(req) : req[i].m \notin K
  <1>1. /\ Count(rep, K) \in Nat /\ Count(out, K) \in Nat /\ Count(req, K) \in Nat
        /\ Count(rep, K) = 0 <=> \A i \in DOMAIN rep : rep[i].m \notin K
        /\ Count(out, K) = 0 <=> \A i \in DOMAIN out : out[i].m \notin K
        /\ Count(req, K) = 0 <=> \A i \in DOMAIN req : req[i].m \notin K
    BY CountType DEF Types
  <1>2. DOMAIN rep = 1..Len(rep) /\ DOMAIN out = 1..Len(out) /\ DOMAIN req = 1..Len(req)
    BY DEF Types
  <1>3. Total(K) = 0 <=> Count(rep, K) = 0 /\ Count(out, K) = 0 /\ Count(req, K) = 0
    BY <1>1 DEF Total
  <1>4. Total(K) \in Nat
    BY <1>1 DEF Total
  <1>5. Total(K) = 0 <=> /\ \A i \in 1..Len(rep) : rep[i].m \notin K
                         /\ \A i \in 1..Len(out) : out[i].m \notin K
                         /\ \A i \in 1..Len(req) : req[i].m \notin K
    BY <1>1, <1>2, <1>3, Zenon
  <1> QED BY <1>1, <1>4, <1>5

\* The files the device has still to answer or has answered unread.
LEMMA OutstandingType ==
    ASSUME Types
    PROVE  Outstanding \in Nat /\ Len(deferred) \in Nat
  BY TotalType DEF Outstanding, Types

\* A step of the client: it writes a request, or reads a reply.
LEMMA TotalWritten ==
    ASSUME Types, NEW K, NEW r \in Requests, req' = Append(req, r), UNCHANGED <<rep, out>>
    PROVE  Total(K)' = IF r.m \in K THEN Total(K) + 1 ELSE Total(K)
  <1>1. Count(req', K) = IF r.m \in K THEN Count(req, K) + 1 ELSE Count(req, K)
    BY CountAppend DEF Types
  <1>2. Count(rep, K) \in Nat /\ Count(out, K) \in Nat /\ Count(req, K) \in Nat
    BY TotalType
  <1> QED BY <1>1, <1>2 DEF Total

\* What is left of a kind when the client has read a reply.
LEMMA TotalRead ==
    ASSUME Types, NEW K, rep # <<>>, rep' = Tail(rep), UNCHANGED <<req, out>>
    PROVE  /\ Total(K) = IF Head(rep).m \in K THEN Total(K)' + 1 ELSE Total(K)'
           /\ Count(rep, K) = IF Head(rep).m \in K THEN Count(rep', K) + 1 ELSE Count(rep', K)
           /\ Count(rep', K) \in Nat
  <1>1. Count(rep, K) = IF Head(rep).m \in K THEN Count(rep', K) + 1 ELSE Count(rep', K)
    BY CountTail DEF Types
  <1>2. Count(rep', K) \in Nat /\ Count(out, K) \in Nat /\ Count(req, K) \in Nat
    BY CountType, SeqTypes DEF Types
  <1> QED BY <1>1, <1>2 DEF Total

\* A step of the device: it writes a part of a reply, or reads a request.
LEMMA TotalMoved ==
    ASSUME Types, NEW K, out # <<>>, rep' = Append(rep, Head(out)), out' = Tail(out), UNCHANGED req
    PROVE  /\ Total(K)' = Total(K)
           /\ Count(rep', K) + Count(out', K) = Count(rep, K) + Count(out, K)
  <1>1. Head(out) \in Replies /\ Tail(out) \in Seq(Replies)
    BY SeqTypes DEF Types
  <1>2. Count(rep', K) = IF Head(out).m \in K THEN Count(rep, K) + 1 ELSE Count(rep, K)
    BY <1>1, CountAppend DEF Types
  <1>3. Count(out, K) = IF Head(out).m \in K THEN Count(out', K) + 1 ELSE Count(out', K)
    BY CountTail DEF Types
  <1>4. Count(rep, K) \in Nat /\ Count(out', K) \in Nat /\ Count(req, K) \in Nat
    BY <1>1, CountType DEF Types
  <1> QED BY <1>2, <1>3, <1>4 DEF Total

\* How a reply of the device counts, in one part or two.
LEMMA CountReply ==
    ASSUME NEW f \in Files, NEW K
    PROVE  /\ Count(<<>>, K) = 0
           /\ \A k \in {"same", "other", "okay"} :
                 Count(<<[m |-> k, f |-> f]>>, K) = IF k \in K THEN 1 ELSE 0
           /\ Count(Failure(f), K) = (IF "fail" \in K THEN 1 ELSE 0) + (IF "reason" \in K THEN 1 ELSE 0)
  <1>1. <<>> \in Seq(Replies) /\ Count(<<>>, K) = 0
    <2>1. <<>> \in Seq(Replies) /\ \A i \in DOMAIN <<>> : <<>>[i].m \notin K
      OBVIOUS
    <2> QED BY <2>1, CountType
  <1>2. ASSUME NEW k \in {"same", "other", "okay", "fail"}
        PROVE  /\ [m |-> k, f |-> f] \in Replies /\ <<[m |-> k, f |-> f]>> \in Seq(Replies)
               /\ Count(<<[m |-> k, f |-> f]>>, K) = IF k \in K THEN 1 ELSE 0
    <2> DEFINE r == [m |-> k, f |-> f]
    <2>1. r \in Replies /\ r.m = k
      BY DEF Replies
    <2> HIDE DEF r
    <2>2. <<r>> = Append(<<>>, r) /\ <<r>> \in Seq(Replies)
      BY <2>1
    <2>3. Count(Append(<<>>, r), K) = IF r.m \in K THEN Count(<<>>, K) + 1 ELSE Count(<<>>, K)
      <3>1. PICK s \in Seq(Replies) : s = <<>>
        BY <1>1
      <3>2. Count(Append(s, r), K) = IF r.m \in K THEN Count(s, K) + 1 ELSE Count(s, K)
        BY <2>1, CountAppend
      <3> QED BY <3>1, <3>2, Zenon
    <2>4. r \in Replies /\ <<r>> \in Seq(Replies) /\ Count(<<r>>, K) = IF k \in K THEN 1 ELSE 0
      BY <1>1, <2>1, <2>2, <2>3
    <2> QED BY <2>4 DEF r
  <1>3. Count(Failure(f), K) = (IF "fail" \in K THEN 1 ELSE 0) + (IF "reason" \in K THEN 1 ELSE 0)
    <2> DEFINE a == [m |-> "fail", f |-> f]
               b == [m |-> "reason", f |-> f]
    <2>1. b \in Replies /\ b.m = "reason"
      BY DEF Replies
    <2>2. <<a>> \in Seq(Replies) /\ Count(<<a>>, K) = IF "fail" \in K THEN 1 ELSE 0
      BY <1>2
    <2>3. Failure(f) = <<a, b>>
      BY DEF Failure
    <2> HIDE DEF a, b
    <2>4. <<a, b>> = Append(<<a>>, b)
      OBVIOUS
    <2>5. Count(Append(<<a>>, b), K) = IF b.m \in K THEN Count(<<a>>, K) + 1 ELSE Count(<<a>>, K)
      <3>1. PICK s \in Seq(Replies) : s = <<a>>
        BY <2>2
      <3>2. Count(Append(s, b), K) = IF b.m \in K THEN Count(s, K) + 1 ELSE Count(s, K)
        BY <2>1, CountAppend
      <3> QED BY <3>1, <3>2, Zenon
    <2>6. Count(<<a, b>>, K) = IF b.m \in K THEN Count(<<a>>, K) + 1 ELSE Count(<<a>>, K)
      BY <2>4, <2>5, Zenon
    <2> QED BY <2>1, <2>2, <2>3, <2>6
  <1> QED BY <1>1, <1>2, <1>3

\* A request served is outstanding as its reply.
LEMMA OutstandingServed ==
    ASSUME Types, out = <<>>, req # <<>>, req' = Tail(req), UNCHANGED rep, NEW r, r = Head(req),
           GivesStat(r) \/ TakesSmall(r) \/ Begins(r) \/ TakesData(r) \/ Ends(r)
    PROVE  Outstanding' = Outstanding
  <1>0. r \in Requests
    BY SeqTypes DEF Types
  <1>1. r.f \in Files
    BY <1>0 DEF Requests
  <1>2. Count(req, Units) = IF r.m \in Units THEN Count(req', Units) + 1 ELSE Count(req', Units)
    BY CountTail DEF Types
  <1>3. Count(out, Units) = 0
    BY <1>1, CountReply
  <1>4. Count(out', Units) = IF r.m \in Units THEN 1 ELSE 0
    <2>1. CASE GivesStat(r)
      BY <1>1, <2>1, CountReply DEF GivesStat, Units
    <2>2. CASE Begins(r) \/ TakesData(r)
      BY <1>1, <2>2, CountReply DEF Begins, TakesData, Units
    <2>3. CASE TakesSmall(r) \/ Ends(r)
      <3>0. "okay" \in Units /\ "fail" \notin Units /\ "reason" \in Units
        BY DEF Units
      <3>1. /\ Count(<<[m |-> "okay", f |-> r.f]>>, Units) = 1
            /\ Count(Failure(r.f), Units) = 1
        <4>1. PICK g \in Files : g = r.f
          BY <1>1
        <4>2. Count(<<[m |-> "okay", f |-> g]>>, Units) = IF "okay" \in Units THEN 1 ELSE 0
          BY CountReply
        <4>3. Count(Failure(g), Units)
                 = (IF "fail" \in Units THEN 1 ELSE 0) + (IF "reason" \in Units THEN 1 ELSE 0)
          BY CountReply
        <4>4. Count(<<[m |-> "okay", f |-> g]>>, Units) = 1 /\ Count(Failure(g), Units) = 1
          BY <3>0, <4>2, <4>3
        <4> QED BY <4>1, <4>4, Zenon
      <3>2. out' = <<[m |-> "okay", f |-> r.f]>> \/ out' = Failure(r.f)
        BY <2>3 DEF TakesSmall, Ends, Answers
      <3>3. r.m \in Units
        BY <2>3 DEF TakesSmall, Ends, Units
      <3> QED BY <3>1, <3>2, <3>3
    <2> QED BY <2>1, <2>2, <2>3
  <1>5. Count(rep, Units) \in Nat /\ Count(req', Units) \in Nat
    BY CountType, SeqTypes DEF Types
  <1> QED BY <1>2, <1>3, <1>4, <1>5 DEF Outstanding, Total

\* When everything is acknowledged nothing is on its way.
LEMMA Quiet ==
    ASSUME Types, PairInv, WireInv, ~Asking, pc # "large", deferred = <<>>
    PROVE  rep = <<>> /\ out = <<>> /\ req = <<>> /\ recv = {} /\ ~Lost
  <1>1. Outstanding = 0 /\ ~Lost
    BY OutstandingType DEF WireInv, CountInv, Lost
  <1>2. /\ \A i \in 1..Len(rep) : rep[i].m \notin Units \cup Stats
        /\ \A i \in 1..Len(out) : out[i].m \notin Units \cup Stats
        /\ \A i \in 1..Len(req) : req[i].m \notin Units \cup Stats
    <2>1. /\ \A i \in 1..Len(rep) : rep[i].m \notin Units
          /\ \A i \in 1..Len(out) : out[i].m \notin Units
          /\ \A i \in 1..Len(req) : req[i].m \notin Units
      BY <1>1, TotalType, Zenon DEF Outstanding
    <2> QED BY <2>1 DEF WireInv, KindInv
  <1>3. Parts = 0
    <2> SUFFICES ASSUME Parts # 0 PROVE FALSE
      OBVIOUS
    <2>1. Parts \in Nat /\ 1 \in 1..Parts
      BY DEF Types, Parts
    <2>2. ASSUME NEW i \in 1..Parts PROVE Part(i) = "fail"
      <3>1. CASE i <= Len(rep)
        <4>1. rep[i] \in Replies /\ i \in 1..Len(rep)
          BY <3>1 DEF Types, Parts
        <4> QED BY <1>2, <3>1, <4>1 DEF Part, Replies, Units, Stats
      <3>2. CASE i > Len(rep)
        <4>1. out[i - Len(rep)] \in Replies /\ i - Len(rep) \in 1..Len(out)
          BY <3>2 DEF Types, Parts
        <4> QED BY <1>2, <3>2, <4>1 DEF Part, Replies, Units, Stats, Types
      <3> QED BY <3>1, <3>2 DEF Types, Parts
    <2>3. Part(1) = "fail" /\ 1 < Parts /\ Part(1 + 1) = "reason"
      BY <2>1, <2>2 DEF PairInv
    <2>4. Part(1 + 1) = "fail"
      BY <2>1, <2>2, <2>3
    <2> QED BY <2>3, <2>4
  <1>4. ASSUME NEW f, NEW i PROVE ~Finishing(f, i)
    BY <1>1, <1>2 DEF Finishing, Units
  <1>5. Len(req) = 0
    <2> SUFFICES ASSUME Len(req) # 0 PROVE FALSE
      OBVIOUS
    <2>1. req[1] \in Requests /\ 1 \in 1..Len(req)
      BY DEF Types
    <2>2. req[1].m \in {"send", "data"}
      BY <1>2, <2>1 DEF Requests, Units, Stats
    <2> QED BY <1>4, <2>1, <2>2 DEF WireInv, FinishInv
  <1>6. recv = {}
    BY <1>4 DEF WireInv, FinishInv
  <1> QED BY <1>1, <1>3, <1>5, <1>6 DEF Types, Parts

\* Nothing on the wire changes, and no large file is being sent.
LEMMA WireKept ==
    ASSUME Types, WireInv, UNCHANGED <<rep, out, req, recv, stored, closed, deferred, skip>>,
           ~Asking, ~Asking', pc # "large", pc' # "large"
    PROVE  WireInv'
  <1>1. UNCHANGED <<Outstanding, Lost>>
    BY DEF Outstanding, Total, Lost
  <1>2. CountInv'
    BY <1>1 DEF WireInv, CountInv
  <1>3. ShapeInv'
    BY DEF WireInv, ShapeInv, OpenAt, FileAt
  <1>4. FinishInv'
    BY <1>1 DEF WireInv, FinishInv, Finishing
  <1>5. KindInv'
    BY DEF WireInv, KindInv
  <1>6. StatInv'
    BY DEF WireInv, StatInv, Asking
  <1>7. SkipInv'
    BY DEF WireInv, SkipInv
  <1> QED BY <1>2, <1>3, <1>4, <1>5, <1>6, <1>7 DEF WireInv

\* A step that takes nothing off the way of a file keeps it safe.
LEMMA SafeKept ==
    ASSUME NEW f, Safe(f), UNCHANGED <<rep, out, req, stored, deferred>>, pc # "large"
    PROVE  Safe(f)'
  BY DEF Safe, Flying, Lost, Outstanding, Total

\* Nothing is on the wire.
LEMMA WireEmpty ==
    ASSUME Types', rep' = <<>>, out' = <<>>, req' = <<>>, recv' = {}, pc' # "large", skip' \subseteq stored',
           (pc' \in {"ask", "stats"}) => /\ Sync' /\ deferred' = <<>> /\ Len(todo)' <= Len(List)'
                                         /\ (pc' = "ask" => Len(List)' - Len(todo)' = 0)
    PROVE  WireInv'
  <1>1. Len(rep') = 0 /\ Len(out') = 0 /\ Len(req') = 0
    OBVIOUS
  <1>2. Outstanding' = 0 /\ Len(deferred)' \in Nat
    <2>1. <<>> \in Seq(Replies) /\ \A i \in DOMAIN <<>> : <<>>[i].m \notin Units
      OBVIOUS
    <2>2. Count(<<>>, Units) = 0
      BY <2>1, CountType
    <2> QED BY <2>2 DEF Outstanding, Total, Types
  <1>3. CountInv'
    BY <1>2 DEF CountInv
  <1>4. ShapeInv'
    BY <1>1 DEF ShapeInv, OpenAt
  <1>5. FinishInv'
    BY <1>1 DEF FinishInv
  <1>6. KindInv'
    BY <1>1 DEF KindInv
  <1>7. StatInv'
    BY <1>1 DEF StatInv, Asking, Aligned, OnWire, Types
  <1>8. SkipInv'
    BY <1>1 DEF SkipInv
  <1> QED BY <1>3, <1>4, <1>5, <1>6, <1>7, <1>8 DEF WireInv

------------------------------------------------------------------------------
(* The files the client is done with, along its list.                      *)

\* When the client is done with a file: it stays at its place,
LEMMA HandledSame ==
    ASSUME UNCHANGED <<src, todo, job>>, Inside' /\ ~Asking' => Inside /\ ~Asking, NEW f, Handled(f)'
    PROVE  Handled(f)
  BY DEF Handled, List, Sources

\* begins a source,
LEMMA HandledStart ==
    ASSUME Types, src <= Len(Sources), UNCHANGED <<src, job>>, Len(todo') >= Len(List), todo' \in Seq(Files),
           NEW f, Handled(f)'
    PROVE  Handled(f)
  <1>1. List' = List /\ Sources' = Sources /\ Len(List) \in Nat /\ Len(todo') \in Nat
    BY ListTypes DEF List, Sources
  <1> QED BY <1>1 DEF Handled

\* goes on to the next file,
LEMMA HandledNext ==
    ASSUME Types, TodoInv, Inside, ~Asking, todo # <<>>, todo' = Tail(todo), UNCHANGED <<src, job>>,
           NEW f, Handled(f)'
    PROVE  Handled(f) \/ f = Head(todo)
  <1>1. List' = List /\ Sources' = Sources
    BY DEF List, Sources
  <1>2. Len(List) \in Nat /\ Rest(todo)
    BY ListTypes DEF TodoInv
  <1>3. /\ Len(todo') = Len(todo) - 1 /\ Len(todo) \in Nat /\ Len(todo) > 0
        /\ Head(todo) = todo[1]
    BY DEF Types
  <1>4. Head(todo) = List[Len(List) - Len(todo) + 1]
    BY <1>2, <1>3 DEF Rest
  <1>5. CASE \E j \in 1..(Len(List) - Len(todo')) : List[j] = f
    <2>1. PICK j \in 1..(Len(List) - Len(todo')) : List[j] = f
      BY <1>5
    <2>2. j \in 1..(Len(List) - Len(todo)) \/ j = Len(List) - Len(todo) + 1
      BY <1>2, <1>3
    <2> QED BY <1>4, <2>1, <2>2 DEF Handled
  <1> QED BY <1>1, <1>5 DEF Handled

\* or leaves a source behind.
LEMMA HandledOver ==
    ASSUME Types, TodoInv, Inside, ~Asking, todo = <<>>, src' = src + 1, ~Inside', UNCHANGED job,
           NEW f, Handled(f)'
    PROVE  Handled(f)
  <1>1. Sources' = Sources /\ src \in Nat
    BY DEF Sources, Types
  <1>2. Len(List) \in Nat /\ Len(todo) = 0
    BY ListTypes DEF TodoInv
  <1>3. PICK i \in 1..(src' - 1) : \E j \in 1..Len(Sources[i].files) : Sources[i].files[j] = f
    BY <1>1 DEF Handled
  <1>4. i \in 1..(src - 1) \/ i = src
    BY <1>1
  <1> QED BY <1>2, <1>3, <1>4 DEF Handled, List

------------------------------------------------------------------------------
(* The steps of the client that leave the connection alone.                *)

Before == Base /\ Good /\ GoodInv

\* do_sync_push takes the next source.
LEMMA NextSourceGood ==
    ASSUME Before, Base', Good', UNCHANGED job, NextSource
    PROVE  GoodInv'
  <1>0. Types /\ PairInv /\ WireInv /\ AcksInv /\ SafeInv /\ Types' /\ Sources' = Sources /\ Sync' = Sync
    BY DEF Before, Base, GoodInv, Sources, Sync
  <1>1. /\ pc = "next" /\ ~Asking /\ src <= Len(Sources) /\ todo' = List /\ List' = List
        /\ UNCHANGED <<src, skip, deferred, buf, rep, out, req, recv, stored, closed>>
    BY <1>0 DEF NextSource, Asking, List, device
  <1>2. SafeInv'
    <2> SUFFICES ASSUME NEW f \in Files, Handled(f)' PROVE Safe(f)'
      BY DEF SafeInv
    <2>1. Handled(f)
      BY <1>0, <1>1, HandledStart, ListTypes DEF Types
    <2> QED BY <1>0, <1>1, <2>1, SafeKept DEF SafeInv
  <1>3. AcksInv'
    BY <1>0, <1>1 DEF NextSource, AcksInv
  <1>4. WireInv'
    <2>1. CASE Sync
      <3>1. deferred = <<>>
        BY <1>0, <1>1, <2>1 DEF AcksInv
      <3>2. rep = <<>> /\ out = <<>> /\ req = <<>> /\ recv = {}
        BY <1>0, <1>1, <3>1, Quiet
      <3>3. Len(List) \in Nat /\ skip \subseteq stored
        BY <1>0, <1>1, ListTypes DEF WireInv, SkipInv
      <3>4. pc' = "ask"
        BY <2>1 DEF NextSource
      <3> QED BY <1>0, <1>1, <2>1, <3>1, <3>2, <3>3, <3>4, WireEmpty
    <2>2. CASE ~Sync
      <3>1. pc' = "send" /\ ~Asking'
        BY <2>2 DEF NextSource, Asking
      <3> QED BY <1>0, <1>1, <3>1, WireKept
    <2> QED BY <2>1, <2>2
  <1> QED BY <1>2, <1>3, <1>4 DEF GoodInv

\* Steps without a message: a file skipped, a list ended, nothing to read.
LEMMA LocalGood ==
    ASSUME Before, Base', Good', UNCHANGED job, SourcesEnd \/ SkipFile \/ FilesEnd \/ AllRead \/ TryLater
    PROVE  GoodInv'
  <1>0. /\ Types /\ TodoInv /\ PairInv /\ WireInv /\ AcksInv /\ SafeInv
        /\ Types' /\ TodoInv' /\ Sources' = Sources /\ Sync' = Sync
    BY DEF Before, Base, GoodInv, Sources, Sync
  <1>1. /\ pc \in {"next", "send", "acks"} /\ pc' \in {"next", "send", "acks", "done"}
        /\ UNCHANGED <<skip, deferred, rep, out, req, recv, stored, closed>>
    BY DEF SourcesEnd, SkipFile, FilesEnd, AllRead, TryLater, Return, AckVars, device
  <1>2. ~Asking /\ ~Asking' /\ pc # "large" /\ pc' # "large"
    BY <1>1 DEF Asking
  <1>3. WireInv'
    BY <1>0, <1>1, <1>2, WireKept
  <1>4. AcksInv' /\ \A f \in Files : Handled(f)' => Handled(f) \/ f \in skip
    <2>1. CASE SourcesEnd
      <3>1. UNCHANGED <<src, todo>> /\ ~Inside'
        BY <2>1 DEF SourcesEnd, Inside
      <3>2. AcksInv'
        BY <2>1 DEF SourcesEnd, AcksInv
      <3> QED BY <3>1, <3>2, HandledSame
    <2>2. CASE SkipFile
      <3>1. todo # <<>> /\ todo' = Tail(todo) /\ Head(todo) \in skip /\ Inside /\ UNCHANGED src
        BY <2>2 DEF SkipFile, Inside
      <3>2. AcksInv'
        BY <1>0, <2>2 DEF SkipFile, AcksInv, IsDir
      <3> QED BY <1>0, <1>2, <3>1, <3>2, HandledNext
    <2>3. CASE FilesEnd
      <3>1. AcksInv'
        BY <1>0, <2>3 DEF FilesEnd, AcksInv, IsDir
      <3>2. CASE IsDir
        <4>1. UNCHANGED <<src, todo>> /\ Inside
          BY <2>3, <3>2 DEF FilesEnd, Inside
        <4> QED BY <1>2, <3>1, <4>1, HandledSame
      <3>3. CASE ~IsDir
        <4>1. src' = src + 1 /\ todo = <<>> /\ Inside /\ ~Inside'
          BY <2>3, <3>3 DEF FilesEnd, Inside
        <4> QED BY <1>0, <1>2, <3>1, <4>1, HandledOver
      <3> QED BY <3>2, <3>3
    <2>4. CASE AllRead \/ TryLater
      <3>1. pc = "acks" /\ UNCHANGED <<ret, readAll>> /\ Return(TRUE)
        BY <2>4 DEF AllRead, TryLater
      <3>2. deferred = <<>> \/ (ret = "file" /\ ~(Sync /\ ~IsDir))
        BY <1>0, <2>4 DEF AllRead, TryLater, AcksInv
      <3>3. CASE ret = "end"
        <4>1. pc' = "done" /\ UNCHANGED <<src, todo>> /\ ~Inside'
          BY <3>1, <3>3 DEF Return, Inside
        <4>2. AcksInv'
          BY <1>1, <3>2, <3>3, <4>1 DEF AcksInv
        <4> QED BY <4>1, <4>2, HandledSame
      <3>4. CASE ret = "file"
        <4>1. pc' = "send" /\ UNCHANGED <<src, todo>> /\ Inside
          BY <3>1, <3>4 DEF Return, Inside
        <4>2. AcksInv'
          BY <1>0, <1>1, <3>2, <4>1 DEF AcksInv, IsDir
        <4> QED BY <1>2, <4>1, <4>2, HandledSame
      <3>5. CASE ret \notin {"end", "file"}
        <4>1. pc' = "next" /\ src' = src + 1 /\ Inside /\ ~Inside'
          BY <3>1, <3>5 DEF Return, Inside
        <4>2. AcksInv'
          BY <1>1, <3>2, <3>5, <4>1 DEF AcksInv
        <4>3. todo = <<>>
          BY <1>0, <3>1, <3>5 DEF TodoInv
        <4> QED BY <1>0, <1>2, <4>1, <4>2, <4>3, HandledOver
      <3> QED BY <3>3, <3>4, <3>5
    <2> QED BY <2>1, <2>2, <2>3, <2>4
  <1>5. SafeInv'
    <2> SUFFICES ASSUME NEW f \in Files, Handled(f)' PROVE Safe(f)'
      BY DEF SafeInv
    <2>1. Safe(f)
      BY <1>0, <1>4 DEF SafeInv, WireInv, SkipInv, Safe
    <2> QED BY <1>1, <1>2, <2>1, SafeKept
  <1> QED BY <1>3, <1>4, <1>5 DEF GoodInv

------------------------------------------------------------------------------
(* The comparison with what the device has.                                *)

\* While the client asks, the kinds and the order of the messages say it all.
LEMMA AskingWire ==
    ASSUME Types', Asking', KindInv', StatInv', skip' \subseteq stored'
    PROVE  WireInv'
  <1>1. /\ \A i \in 1..Len(rep') : rep'[i].m \in Stats
        /\ \A i \in 1..Len(out') : out'[i].m \in Stats
        /\ \A i \in 1..Len(req') : req'[i].m \in Stats
    BY DEF KindInv
  <1>2. /\ rep' \in Seq(Replies) /\ out' \in Seq(Replies) /\ req' \in Seq(Requests)
        /\ DOMAIN rep' = 1..Len(rep') /\ DOMAIN out' = 1..Len(out') /\ DOMAIN req' = 1..Len(req')
    BY DEF Types
  <1>3. \A m \in Stats : m \notin Units /\ m \notin {"send", "data", "done"}
    BY DEF Stats, Units
  <1>4. Count(rep', Units) = 0 /\ Count(out', Units) = 0 /\ Count(req', Units) = 0
    BY <1>1, <1>2, <1>3, CountType
  <1>5. CountInv'
    BY <1>4 DEF CountInv, Outstanding, Total, Types
  <1>6. ShapeInv'
    BY <1>1, <1>2, <1>3 DEF ShapeInv, OpenAt, Asking, StatInv
  <1>7. FinishInv'
    BY <1>1, <1>3 DEF FinishInv, StatInv
  <1>8. SkipInv'
    BY <1>1 DEF SkipInv, Asking
  <1> QED BY <1>5, <1>6, <1>7, <1>8 DEF WireInv

\* While the client asks nothing else is on its way: what is safe is stored.
LEMMA AskingStored ==
    ASSUME Types, WireInv, Asking, NEW f, Safe(f)
    PROVE  f \in stored
  <1>1. deferred = <<>> /\ pc # "large"
    BY DEF WireInv, StatInv, Asking
  <1>2. ~Lost
    BY <1>1, OutstandingType DEF Lost
  <1>3. ~Flying(f)
    BY DEF WireInv, KindInv, Stats, Flying
  <1> QED BY <1>1, <1>2, <1>3 DEF Safe

\* SendLstat.
LEMMA AskStatGood ==
    ASSUME Before, Base', Good', UNCHANGED job, AskStat
    PROVE  GoodInv'
  <1>0. /\ Types /\ TodoInv /\ WireInv /\ AcksInv /\ SafeInv /\ KindInv /\ StatInv /\ skip \subseteq stored
        /\ Types' /\ Sources' = Sources /\ Sync' = Sync
    BY DEF Before, Base, GoodInv, WireInv, SkipInv, Sources, Sync
  <1>1. /\ pc = "ask" /\ Asking /\ Asking' /\ src <= Len(Sources) /\ Rest(todo) /\ List' = List
        /\ UNCHANGED <<src, skip, deferred, rep, out, recv, stored, closed>>
    BY <1>0 DEF AskStat, Asking, List, device, TodoInv, Inside
  <1>2. AcksInv'
    BY <1>1 DEF AskStat, AcksInv
  <1>3. SafeInv'
    <2> SUFFICES ASSUME NEW f \in Files, Handled(f)' PROVE Safe(f)'
      BY DEF SafeInv
    <2>1. Handled(f)
      BY <1>0, <1>1 DEF Handled
    <2>2. f \in stored
      BY <1>0, <1>1, <2>1, AskingStored DEF SafeInv
    <2> QED BY <1>1, <2>2 DEF Safe
  <1>4. Len(List) \in Nat
    BY <1>0, <1>1, ListTypes
  <1>5. KindInv' /\ StatInv'
    <2>1. CASE todo = <<>>
      <3>1. pc' = "stats" /\ todo' = List /\ UNCHANGED req
        BY <2>1 DEF AskStat, List
      <3>2. KindInv'
        BY <1>0, <1>1, <3>1 DEF KindInv
      <3>3. Aligned(List)' /\ OnWire' <= Len(List)
        BY <1>0, <1>1, <1>4, <2>1, <3>1 DEF StatInv, Aligned, OnWire
      <3> QED BY <1>0, <1>1, <3>1, <3>2, <3>3 DEF StatInv, Aligned
    <2>2. CASE todo # <<>> /\ closed
      <3>1. pc' = "ask" /\ todo' = Tail(todo) /\ UNCHANGED req
        BY <1>1, <2>2 DEF AskStat, Write
      <3>2. Len(todo') = Len(todo) - 1 /\ Len(todo) \in Nat
        BY <1>0, <2>2, <3>1 DEF Types
      <3>3. OnWire' = OnWire /\ OnWire \in Nat /\ Aligned(List)'
        BY <1>0, <1>1, <3>1 DEF OnWire, Types, StatInv, Aligned
      <3>4. KindInv'
        BY <1>0, <1>1, <3>1 DEF KindInv
      <3> QED BY <1>0, <1>1, <1>4, <2>2, <3>1, <3>2, <3>3, <3>4 DEF StatInv
    <2>3. CASE todo # <<>> /\ ~closed
      <3> DEFINE r == [m |-> "lstat", f |-> Head(todo)]
      <3>1. pc' = "ask" /\ todo' = Tail(todo) /\ req' = Append(req, r)
        BY <1>1, <2>3 DEF AskStat, Write
      <3>2. Len(todo') = Len(todo) - 1 /\ Len(todo) \in Nat /\ Len(todo) > 0 /\ Head(todo) = todo[1]
        BY <1>0, <2>3, <3>1 DEF Types
      <3>3. r.m \in Stats /\ r.f = Head(todo)
        BY DEF Stats
      <3> HIDE DEF r
      <3>4. /\ Len(req') = Len(req) + 1 /\ Len(req) \in Nat /\ Len(rep) \in Nat /\ Len(out) \in Nat
            /\ \A i \in 1..Len(req) : req'[i] = req[i]
            /\ req'[Len(req) + 1] = r
        BY <1>0, <3>1 DEF Types
      <3>5. KindInv'
        BY <1>0, <1>1, <3>3, <3>4 DEF KindInv
      <3>6. OnWire' = OnWire + 1 /\ OnWire \in Nat /\ OnWire = Len(List) - Len(todo)
        BY <1>0, <1>1, <2>3, <3>4 DEF OnWire, StatInv
      <3>7. Head(todo) = List[OnWire + 1]
        BY <1>1, <1>4, <3>2, <3>6 DEF Rest
      <3>8. Aligned(List)'
        <4>1. Aligned(List)
          BY <1>0, <1>1 DEF StatInv
        <4>2. \A i \in 1..(Len(req) + 1) : req'[i].f = List[Len(rep) + Len(out) + i]
          <5> SUFFICES ASSUME NEW i \in 1..(Len(req) + 1)
                       PROVE  req'[i].f = List[Len(rep) + Len(out) + i]
            OBVIOUS
          <5>1. CASE i \in 1..Len(req)
            BY <3>4, <4>1, <5>1 DEF Aligned
          <5>2. CASE i = Len(req) + 1
            BY <3>3, <3>4, <3>7, <5>2 DEF OnWire
          <5> QED BY <3>4, <5>1, <5>2
        <4> QED BY <1>1, <3>4, <4>1, <4>2 DEF Aligned
      <3>9. OnWire' = Len(List') - Len(todo')
        BY <1>1, <1>4, <3>2, <3>6
      <3>10. /\ \A i \in 1..Len(rep') : rep'[i].m = "same" => rep'[i].f \in stored'
             /\ \A i \in 1..Len(out') : out'[i].m = "same" => out'[i].f \in stored'
        BY <1>0, <1>1 DEF StatInv
      <3>11. Sync' /\ deferred' = <<>> /\ recv' = {}
        BY <1>0, <1>1 DEF StatInv
      <3>12. OnWire' \in Nat
        BY <3>6
      <3> QED BY <3>1, <3>5, <3>8, <3>9, <3>10, <3>11, <3>12 DEF StatInv
    <2> QED BY <2>1, <2>2, <2>3
  <1>6. WireInv'
    BY <1>0, <1>1, <1>5, AskingWire
  <1> QED BY <1>2, <1>3, <1>6 DEF GoodInv

\* The last answer was read, or none will come: on to the files.
LEMMA AskedGood ==
    ASSUME Before, Base', UNCHANGED job, Asking, OnWire = 0, pc' = "send", src <= Len(Sources),
           Len(todo') >= Len(List),
           UNCHANGED <<src, skip, deferred, rep, out, req, recv, stored, closed>>
    PROVE  GoodInv'
  <1>0. /\ Types /\ WireInv /\ SafeInv /\ skip \subseteq stored /\ deferred = <<>> /\ recv = {}
        /\ Types'
    BY DEF Before, Base, GoodInv, WireInv, SkipInv, StatInv
  <1>1. rep = <<>> /\ out = <<>> /\ req = <<>>
    BY <1>0 DEF OnWire, Types
  <1>2. WireInv'
    BY <1>0, <1>1, WireEmpty
  <1>3. AcksInv'
    BY <1>0 DEF AcksInv
  <1>4. SafeInv'
    <2> SUFFICES ASSUME NEW f \in Files, Handled(f)' PROVE Safe(f)'
      BY DEF SafeInv
    <2>1. Handled(f)
      BY <1>0, HandledStart DEF Types
    <2>2. f \in stored
      BY <1>0, <2>1, AskingStored DEF SafeInv
    <2> QED BY <2>2 DEF Safe
  <1> QED BY <1>2, <1>3, <1>4 DEF GoodInv

\* SendLstat on a connection that is gone.
LEMMA AskFailsGood ==
    ASSUME Before, Base', Good', UNCHANGED job, AskFails
    PROVE  GoodInv'
  <1>0. Types /\ TodoInv /\ StatInv
    BY DEF Before, Base, GoodInv, WireInv
  <1>1. /\ pc = "ask" /\ Asking /\ src <= Len(Sources) /\ todo # <<>> /\ Rest(todo)
        /\ ~IsDir /\ pc' = "send"
        /\ UNCHANGED <<src, todo, skip, deferred, rep, out, req, recv, stored, closed>>
    BY <1>0 DEF AskFails, WriteFails, GiveUp, Good, Asking, device, TodoInv, Inside
  <1>2. Len(List) = 1 /\ Len(todo) = 1
    BY <1>0, <1>1, ListTypes DEF Rest, Types
  <1>3. OnWire = 0
    BY <1>0, <1>1, <1>2 DEF StatInv, OnWire, Types
  <1> QED BY <1>1, <1>2, <1>3, AskedGood

\* FinishStat: the answer read is the one to the first file of the list.
LEMMA FinishStatGood ==
    ASSUME Before, Base', Good', UNCHANGED job, FinishStat
    PROVE  GoodInv'
  <1>0. /\ Types /\ TodoInv /\ WireInv /\ AcksInv /\ SafeInv /\ KindInv /\ StatInv /\ skip \subseteq stored
        /\ Types' /\ Sources' = Sources /\ Sync' = Sync
    BY DEF Before, Base, GoodInv, WireInv, SkipInv, Sources, Sync
  <1>1. /\ pc = "stats" /\ Asking /\ src <= Len(Sources) /\ List' = List
        /\ UNCHANGED <<src, deferred, req, out, recv, stored, closed>>
    BY <1>0 DEF FinishStat, Asking, List, device, TodoInv, Inside
  <1>2. CASE todo = <<>>
    <2>1. todo' = List /\ pc' = "send" /\ UNCHANGED <<skip, rep>>
      BY <1>2 DEF FinishStat, List
    <2>2. OnWire = 0
      BY <1>0, <1>1, <1>2 DEF StatInv, OnWire, Types
    <2>3. Len(List) \in Nat
      BY <1>0, <1>1, ListTypes
    <2> QED BY <1>1, <2>1, <2>2, <2>3, AskedGood
  <1>3. CASE todo # <<>>
    <2>1. /\ rep # <<>> /\ rep' = Tail(rep) /\ pc' = "stats" /\ todo' = Tail(todo)
          /\ skip' = IF Head(rep).m = "same" THEN skip \cup {Head(todo)} ELSE skip
      BY <1>1, <1>3 DEF FinishStat, Good
    <2>2. /\ Len(todo') = Len(todo) - 1 /\ Len(todo) \in Nat /\ Len(todo) > 0 /\ Head(todo) = todo[1]
          /\ \A i \in 1..Len(todo') : todo'[i] = todo[i + 1]
      BY <1>0, <1>3, <2>1 DEF Types
    <2>3. /\ Len(rep') = Len(rep) - 1 /\ Len(rep) \in Nat /\ Len(rep) > 0 /\ Head(rep) = rep[1]
          /\ \A i \in 1..Len(rep') : rep'[i] = rep[i + 1]
          /\ Len(out) \in Nat /\ Len(req) \in Nat
      BY <1>0, <2>1 DEF Types
    <2>4. Asking'
      BY <2>1 DEF Asking
    <2>5. skip' \subseteq stored'
      BY <1>0, <1>1, <2>1, <2>2, <2>3 DEF StatInv, Aligned
    <2>6. KindInv'
      <3>1. \A i \in 1..Len(rep') : rep'[i].m \in Stats
        <4> SUFFICES ASSUME NEW i \in 1..Len(rep') PROVE rep'[i].m \in Stats
          OBVIOUS
        <4>1. i + 1 \in 1..Len(rep)
          BY <2>3
        <4> QED BY <1>0, <1>1, <2>3, <4>1 DEF KindInv
      <3> QED BY <1>0, <1>1, <2>4, <3>1 DEF KindInv
    <2>7. OnWire' = OnWire - 1 /\ OnWire \in Nat /\ OnWire <= Len(todo)
      BY <1>0, <1>1, <2>3 DEF OnWire, StatInv
    <2>8. Aligned(todo)'
      <3>1. Aligned(todo)
        BY <1>0, <1>1 DEF StatInv
      <3>2. \A i \in 1..Len(rep') : rep'[i].f = todo'[i]
        <4> SUFFICES ASSUME NEW i \in 1..Len(rep') PROVE rep'[i].f = todo'[i]
          OBVIOUS
        <4>1. i + 1 \in 1..Len(rep) /\ i \in 1..Len(todo')
          BY <2>2, <2>3, <2>7 DEF OnWire
        <4> QED BY <2>2, <2>3, <3>1, <4>1 DEF Aligned
      <3>5. Len(rep') \in Nat /\ Len(out) \in Nat
        <4>1. Len(rep') = Len(rep) - 1 /\ Len(rep) \in Nat /\ Len(rep) > 0 /\ Len(out) \in Nat
          BY <2>3
        <4> QED BY <4>1
      <3>3. \A i \in 1..Len(out) : out[i].f = todo'[Len(rep') + i]
        <4> SUFFICES ASSUME NEW i \in 1..Len(out) PROVE out[i].f = todo'[Len(rep') + i]
          OBVIOUS
        <4>1. PICK k \in Nat : k = Len(rep') + i
          BY <3>5
        <4>2. k \in 1..Len(todo') /\ k + 1 = Len(rep) + i
          BY <2>2, <2>3, <2>7, <4>1 DEF OnWire
        <4>3. out[i].f = todo[Len(rep) + i]
          BY <3>1 DEF Aligned
        <4> QED BY <2>2, <4>1, <4>2, <4>3
      <3>4. \A i \in 1..Len(req) : req[i].f = todo'[Len(rep') + Len(out) + i]
        <4> SUFFICES ASSUME NEW i \in 1..Len(req) PROVE req[i].f = todo'[Len(rep') + Len(out) + i]
          OBVIOUS
        <4>1. PICK k \in Nat : k = Len(rep') + Len(out) + i
          BY <3>5
        <4>2. k \in 1..Len(todo') /\ k + 1 = Len(rep) + Len(out) + i
          BY <2>2, <2>3, <2>7, <4>1 DEF OnWire
        <4>3. req[i].f = todo[Len(rep) + Len(out) + i]
          BY <3>1 DEF Aligned
        <4> QED BY <2>2, <4>1, <4>2, <4>3
      <3> QED BY <1>1, <3>2, <3>3, <3>4 DEF Aligned
    <2>9. StatInv'
      BY <1>0, <1>1, <2>1, <2>2, <2>3, <2>7, <2>8 DEF StatInv
    <2>10. WireInv'
      BY <1>0, <2>4, <2>5, <2>6, <2>9, AskingWire
    <2>11. AcksInv'
      BY <2>1 DEF AcksInv
    <2>12. SafeInv'
      <3> SUFFICES ASSUME NEW f \in Files, Handled(f)' PROVE Safe(f)'
        BY DEF SafeInv
      <3>1. Handled(f)
        BY <1>0, <1>1, <2>4 DEF Handled
      <3>2. f \in stored
        BY <1>0, <1>1, <3>1, AskingStored DEF SafeInv
      <3> QED BY <1>1, <3>2 DEF Safe
    <2> QED BY <2>10, <2>11, <2>12 DEF GoodInv
  <1> QED BY <1>2, <1>3

------------------------------------------------------------------------------
(* The files are sent.                                                     *)

\* A request is written behind the others.
LEMMA Appended ==
    ASSUME Types, WireInv, NEW r \in Requests, req' = Append(req, r),
           UNCHANGED <<rep, out, recv, stored, skip, closed>>, ~closed, ~Asking, ~Asking', Len(deferred') \in Nat,
           r.m \notin Stats, r.f = Head(todo), r.f \notin skip,
           r.m \in {"data", "done"} <=> pc = "large", r.m \in {"send", "data"} <=> pc' = "large",
           pc' = "large" => todo' = todo,
           Len(deferred') = IF r.m \in Units THEN Len(deferred) + 1 ELSE Len(deferred)
    PROVE  /\ WireInv'
           /\ \A f : Safe(f) => Safe(f)'
           /\ r.m \in {"small", "done"} => Safe(r.f)'
  <1>1. /\ Len(req') = Len(req) + 1 /\ Len(req) \in Nat /\ req'[Len(req) + 1] = r
        /\ \A i \in 1..Len(req) : i \in 1..Len(req') /\ req'[i] = req[i]
        /\ Len(req) + 1 \in 1..Len(req')
        /\ \A i \in 1..Len(req') : i \in 1..Len(req) \/ i = Len(req) + 1
    BY DEF Types
  <1>2. Outstanding' = IF r.m \in Units THEN Outstanding + 1 ELSE Outstanding
    BY TotalWritten DEF Outstanding
  <1>3. Outstanding \in Nat /\ Len(deferred) \in Nat
    BY OutstandingType
  <1>4. (Lost => Lost') /\ CountInv'
    BY <1>2, <1>3 DEF WireInv, CountInv, Lost
  <1>5. ShapeInv'
    <2>0. PICK n \in Nat : n = Len(req)
      BY <1>1
    <2>1. OpenAt(0)' <=> OpenAt(0)
      BY DEF OpenAt
    <2>2. FileAt(0)' = FileAt(0)
      BY DEF FileAt
    <2>3. ASSUME NEW i \in 1..n PROVE (OpenAt(i)' <=> OpenAt(i)) /\ FileAt(i)' = FileAt(i)
      BY <1>1, <2>0, <2>3 DEF OpenAt, FileAt
    <2>4. ASSUME NEW k \in Nat, k = n + 1
          PROVE  (OpenAt(k)' <=> r.m \in {"send", "data"}) /\ FileAt(k)' = {r.f}
      BY <1>1, <2>0, <2>4 DEF OpenAt, FileAt
    <2>5. /\ \A i \in 1..n : /\ req[i].m \in {"data", "done"} <=> OpenAt(i - 1)
                             /\ OpenAt(i - 1) => FileAt(i) = FileAt(i - 1)
          /\ pc = "large" <=> OpenAt(n)
          /\ pc = "large" => FileAt(n) = {Head(todo)}
      BY <2>0 DEF WireInv, ShapeInv
    <2>6. ASSUME NEW i \in 0..n PROVE (OpenAt(i)' <=> OpenAt(i)) /\ FileAt(i)' = FileAt(i)
      BY <2>1, <2>2, <2>3
    <2>7. ASSUME NEW i \in 1..(n + 1)
          PROVE  /\ req'[i].m \in {"data", "done"} <=> OpenAt(i - 1)'
                 /\ OpenAt(i - 1)' => FileAt(i)' = FileAt(i - 1)'
      <3>1. i - 1 \in 0..n
        OBVIOUS
      <3>2. PICK j \in 0..n : j = i - 1
        BY <3>1
      <3>3. (OpenAt(j)' <=> OpenAt(j)) /\ FileAt(j)' = FileAt(j)
        BY <2>6
      <3>4. CASE i \in 1..n
        <4>1. /\ req[i].m \in {"data", "done"} <=> OpenAt(j)
              /\ OpenAt(j) => FileAt(i) = FileAt(j)
          BY <2>5, <3>2, <3>4
        <4>2. FileAt(i)' = FileAt(i) /\ req'[i] = req[i]
          BY <1>1, <2>0, <2>3, <3>4
        <4> QED BY <3>2, <3>3, <4>1, <4>2
      <3>5. CASE i = n + 1
        <4>1. j = n /\ req'[i] = r
          BY <1>1, <2>0, <3>2, <3>5
        <4>2. FileAt(i)' = {r.f}
          BY <2>4, <3>5
        <4>3. r.m \in {"data", "done"} <=> OpenAt(j)
          BY <2>5, <4>1
        <4>4. OpenAt(j) => FileAt(j) = {r.f}
          BY <2>5, <4>1
        <4> QED BY <3>2, <3>3, <4>1, <4>2, <4>3, <4>4
      <3>6. i \in 1..n \/ i = n + 1
        BY <2>0
      <3> QED BY <3>4, <3>5, <3>6
    <2>8. (OpenAt(n + 1)' <=> r.m \in {"send", "data"}) /\ FileAt(n + 1)' = {r.f}
      BY <2>4
    <2> HIDE DEF OpenAt, FileAt
    <2> QED BY <1>1, <2>0, <2>7, <2>8 DEF ShapeInv
  <1>6. ASSUME NEW f, NEW i, Finishing(f, i), i \in 0..Len(req) PROVE Finishing(f, i)'
    <2>1. CASE pc = "large" /\ Head(todo) = f
      <3>1. r.m \in {"data", "done"}
        BY <2>1
      <3> QED BY <1>1, <1>6, <2>1, <3>1 DEF Finishing
    <2> QED BY <1>1, <1>4, <1>6, <2>1 DEF Finishing
  <1>7. FinishInv'
    <2>1. ASSUME NEW f \in recv PROVE Finishing(f, 0)'
      BY <1>1, <1>6 DEF WireInv, FinishInv
    <2>2. ASSUME NEW i \in 1..Len(req'), req'[i].m \in {"send", "data"} PROVE Finishing(req[i].f, i)'
      <3>1. CASE i \in 1..Len(req)
        <4>1. req'[i] = req[i] /\ Finishing(req[i].f, i)
          BY <1>1, <2>2, <3>1 DEF WireInv, FinishInv
        <4>2. PICK f : f = req[i].f
          OBVIOUS
        <4>3. Finishing(f, i)'
          <5>1. i \in 0..Len(req)
            BY <1>1, <3>1
          <5> QED BY <1>6, <4>1, <4>2, <5>1
        <4> QED BY <4>1, <4>2, <4>3 DEF Finishing
      <3>2. CASE i = Len(req) + 1
        BY <1>1, <2>2, <3>2 DEF Finishing
      <3> QED BY <1>1, <3>1, <3>2
    <2> QED BY <2>1, <2>2 DEF FinishInv
  <1>8. KindInv'
    BY <1>1 DEF WireInv, KindInv
  <1>9. StatInv'
    BY DEF WireInv, StatInv, Asking
  <1>10. SkipInv'
    BY <1>1 DEF WireInv, SkipInv
  <1>11. ASSUME NEW f, Safe(f) PROVE Safe(f)'
    <2>1. CASE Flying(f)
      BY <1>1, <2>1 DEF Safe, Flying
    <2>2. CASE pc = "large" /\ Head(todo) = f
      <3>1. r.m \in {"data", "done"}
        BY <2>2
      <3> QED BY <1>1, <2>2, <3>1 DEF Safe, Flying
    <2> QED BY <1>4, <1>11, <2>1, <2>2 DEF Safe
  <1>12. r.m \in {"small", "done"} => Safe(r.f)'
    BY <1>1 DEF Safe, Flying
  <1>13. WireInv'
    BY <1>4, <1>5, <1>7, <1>8, <1>9, <1>10 DEF WireInv
  <1> QED BY <1>11, <1>12, <1>13

\* A request is lost: either its file counts as sent and will be missed, or it
\* was not the last of its file.
LEMMA Dropped ==
    ASSUME Types, WireInv, UNCHANGED <<req, rep, out, recv, stored, skip, closed>>, closed, ~Asking, ~Asking',
           Len(deferred') \in Nat,
           \/ pc' # "large" /\ Len(deferred') = Len(deferred) + 1
           \/ pc' = "large" /\ UNCHANGED <<todo, deferred>> /\ Head(todo) \notin skip
    PROVE  /\ WireInv'
           /\ \A f : Safe(f) => Safe(f)'
           /\ pc' # "large" => \A f : Safe(f)'
  <1>1. Outstanding' = Outstanding /\ Outstanding \in Nat /\ Len(deferred) \in Nat
    BY OutstandingType DEF Outstanding, Total
  <1>2. (Lost => Lost') /\ CountInv' /\ (pc' # "large" => Lost')
    BY <1>1 DEF WireInv, CountInv, Lost
  <1>3. ShapeInv'
    BY DEF WireInv, ShapeInv, OpenAt, FileAt
  <1>4. ASSUME NEW f, NEW i, Finishing(f, i) PROVE Finishing(f, i)'
    BY <1>2, <1>4 DEF Finishing
  <1>5. FinishInv'
    BY <1>4 DEF WireInv, FinishInv
  <1>6. KindInv' /\ StatInv' /\ SkipInv'
    BY DEF WireInv, KindInv, StatInv, SkipInv, Asking
  <1>7. WireInv'
    BY <1>2, <1>3, <1>5, <1>6 DEF WireInv
  <1>8. \A f : Safe(f) => Safe(f)'
    BY <1>2 DEF Safe, Flying
  <1>9. pc' # "large" => \A f : Safe(f)'
    BY <1>2 DEF Safe
  <1> QED BY <1>7, <1>8, <1>9

\* The last request of a file, and RecordFileSent.
LEMMA FileSentGood ==
    ASSUME Before, Base', Good', UNCHANGED job, SendSmallFile \/ SendDone
    PROVE  GoodInv'
  <1>0. /\ Types /\ TodoInv /\ WireInv /\ AcksInv /\ SafeInv
        /\ Types' /\ Sources' = Sources /\ Sync' = Sync
    BY DEF Before, Base, GoodInv, Sources, Sync
  <1>1. PICK k \in {"small", "done"} :
           /\ k = "done" <=> pc = "large"
           /\ pc \in {"send", "large"} /\ todo # <<>>
           /\ Write(k, Head(todo)) /\ FileSent(Head(todo))
           /\ Head(todo) \notin skip
    <2>1. CASE SendSmallFile
      BY <2>1 DEF SendSmallFile, Sending, WriteOrDie, Good
    <2>2. CASE SendDone
      BY <1>0, <2>2 DEF SendDone, WriteOrDie, Good, TodoInv, WireInv, SkipInv
    <2> QED BY <2>1, <2>2
  <1>2. /\ pc' = "acks" /\ todo' = Tail(todo) /\ deferred' = Append(deferred, Head(todo))
        /\ UNCHANGED <<src, skip, rep, closed, out, recv, stored>>
    BY <1>1 DEF FileSent, SendSmallFile, SendDone, device
  <1>3. ~Asking /\ ~Asking' /\ Inside
    BY <1>1, <1>2 DEF Asking, Inside
  <1>4. Len(deferred') = Len(deferred) + 1 /\ Len(deferred') \in Nat
    BY <1>0, <1>2 DEF Types
  <1>h. PICK h : h = Head(todo)
    OBVIOUS
  <1>5. WireInv' /\ (\A f : Safe(f) => Safe(f)') /\ Safe(h)'
    <2>1. CASE closed
      <3>1. UNCHANGED req
        BY <1>1, <2>1 DEF Write
      <3> QED BY <1>0, <1>2, <1>3, <1>4, <2>1, <3>1, Dropped
    <2>2. CASE ~closed
      <3>1. PICK r : r = [m |-> k, f |-> Head(todo)] /\ req' = Append(req, r)
        BY <1>1, <2>2 DEF Write
      <3>2. r \in Requests /\ r.m = k /\ r.f = Head(todo)
        BY <1>0, <1>1, <3>1 DEF Requests, Types
      <3>3. r.m \notin Stats /\ r.m \in Units
        BY <3>2 DEF Stats, Units
      <3>4. r.m \in {"data", "done"} <=> pc = "large"
        BY <1>1, <3>2
      <3>5. r.m \in {"send", "data"} <=> pc' = "large"
        BY <1>2, <3>2
      <3>6. WireInv' /\ (\A f : Safe(f) => Safe(f)') /\ Safe(r.f)'
        BY <1>0, <1>1, <1>2, <1>3, <1>4, <2>2, <3>1, <3>2, <3>3, <3>4, <3>5, Appended
      <3>7. h = r.f
        BY <1>h, <3>2
      <3> QED BY <3>6, <3>7
    <2> QED BY <2>1, <2>2
  <1>6. AcksInv'
    BY <1>0, <1>1, <1>2 DEF FileSent, AcksInv, IsDir
  <1>7. SafeInv'
    BY <1>0, <1>1, <1>2, <1>3, <1>h, <1>5, HandledNext DEF SafeInv
  <1> QED BY <1>5, <1>6, <1>7 DEF GoodInv

\* The other requests of a large file.
LEMMA LargeGood ==
    ASSUME Before, Base', Good', UNCHANGED job, SendRequest \/ SendData
    PROVE  GoodInv'
  <1>0. /\ Types /\ TodoInv /\ WireInv /\ AcksInv /\ SafeInv
        /\ Types' /\ Sources' = Sources /\ Sync' = Sync
    BY DEF Before, Base, GoodInv, Sources, Sync
  <1>1. PICK k \in {"send", "data"} :
           /\ k = "data" <=> pc = "large"
           /\ pc \in {"send", "large"} /\ todo # <<>> /\ Write(k, Head(todo))
           /\ Head(todo) \notin skip
           /\ pc' = "large" /\ UNCHANGED <<src, todo, deferred, skip, rep, closed, out, recv, stored>>
    <2>1. CASE SendRequest
      BY <2>1 DEF SendRequest, Sending, GiveUp, Good, device
    <2>2. CASE SendData
      BY <1>0, <2>2 DEF SendData, WriteOrDie, Good, TodoInv, WireInv, SkipInv, client, device
    <2> QED BY <2>1, <2>2
  <1>2. ~Asking /\ ~Asking' /\ Inside
    BY <1>1 DEF Asking, Inside
  <1>3. Len(deferred) \in Nat
    BY <1>0 DEF Types
  <1>4. WireInv' /\ (\A f : Safe(f) => Safe(f)')
    <2>1. CASE closed
      <3>1. UNCHANGED req
        BY <1>1, <2>1 DEF Write
      <3> QED BY <1>0, <1>1, <1>2, <1>3, <2>1, <3>1, Dropped
    <2>2. CASE ~closed
      <3>1. PICK r : r = [m |-> k, f |-> Head(todo)] /\ req' = Append(req, r)
        BY <1>1, <2>2 DEF Write
      <3>2. r \in Requests /\ r.m = k /\ r.f = Head(todo)
        BY <1>0, <1>1, <3>1 DEF Requests, Types
      <3>3. r.m \notin Stats /\ r.m \notin Units
        BY <3>2 DEF Stats, Units
      <3>4. r.m \in {"data", "done"} <=> pc = "large"
        BY <1>1, <3>2
      <3>5. r.m \in {"send", "data"} <=> pc' = "large"
        BY <1>1, <3>2
      <3> QED BY <1>0, <1>1, <1>2, <1>3, <2>2, <3>1, <3>2, <3>3, <3>4, <3>5, Appended
    <2> QED BY <2>1, <2>2
  <1>5. AcksInv'
    BY <1>1 DEF AcksInv
  <1>6. SafeInv'
    BY <1>0, <1>1, <1>2, <1>4, HandledSame DEF SafeInv
  <1> QED BY <1>4, <1>5, <1>6 DEF GoodInv

------------------------------------------------------------------------------
(* The acknowledgements are read.                                          *)

\* ReadAcknowledgements reads an OKAY or the header of a failure.
LEMMA ReadHeaderGood ==
    ASSUME Before, Base', Good', UNCHANGED job, ReadHeader
    PROVE  GoodInv'
  <1>0. /\ Types /\ WireInv /\ AcksInv /\ SafeInv /\ Types' /\ Sources' = Sources /\ Sync' = Sync
    BY DEF Before, Base, GoodInv, Sources, Sync
  <1>1. /\ pc = "acks" /\ deferred # <<>> /\ rep # <<>> /\ Head(rep).m \in {"okay", "fail"}
        /\ rep' = Tail(rep)
        /\ deferred' = IF Head(rep).m = "okay" THEN Tail(deferred) ELSE deferred
        /\ UNCHANGED <<pc, src, todo, skip, readAll, ret, req, closed, out, recv, stored>>
    BY DEF ReadHeader, CopyDone, device
  <1>2. ~Asking /\ ~Asking' /\ pc' # "large"
    BY <1>1 DEF Asking
  <1>3. /\ Len(rep') = Len(rep) - 1 /\ Len(rep) \in Nat /\ Len(rep) > 0 /\ Head(rep) = rep[1]
        /\ \A i \in 1..Len(rep') : i + 1 \in 1..Len(rep) /\ rep'[i] = rep[i + 1]
        /\ \A i \in 1..Len(rep) : i = 1 \/ (i - 1 \in 1..Len(rep') /\ rep'[i - 1] = rep[i])
    BY <1>0, <1>1 DEF Types
  <1>4. Outstanding = IF Head(rep).m = "okay" THEN Outstanding' + 1 ELSE Outstanding'
    BY <1>0, <1>1, TotalRead DEF Outstanding, Units
  <1>5. /\ Len(deferred) = IF Head(rep).m = "okay" THEN Len(deferred') + 1 ELSE Len(deferred')
        /\ Len(deferred') \in Nat
    BY <1>0, <1>1 DEF Types
  <1>6. Outstanding' \in Nat
    <2>1. Count(rep', Units) \in Nat /\ Count(out, Units) \in Nat /\ Count(req, Units) \in Nat
      BY <1>0, <1>1, CountType DEF Types
    <2> QED BY <1>1, <2>1 DEF Outstanding, Total
  <1>7. (Lost <=> Lost') /\ CountInv'
    BY <1>0, <1>4, <1>5, <1>6 DEF WireInv, CountInv, Lost
  <1>8. ShapeInv'
    BY <1>0, <1>1 DEF WireInv, ShapeInv, OpenAt, FileAt
  <1>9. FinishInv'
    <2>1. ASSUME NEW f, NEW i, Finishing(f, i) PROVE Finishing(f, i)'
      BY <1>1, <1>7, <2>1 DEF Finishing
    <2> QED BY <1>0, <1>1, <2>1 DEF WireInv, FinishInv
  <1>10. KindInv'
    BY <1>0, <1>1, <1>2, <1>3 DEF WireInv, KindInv
  <1>11. StatInv'
    BY <1>0, <1>1, <1>2, <1>3 DEF WireInv, StatInv, Asking
  <1>12. SkipInv'
    BY <1>0, <1>1 DEF WireInv, SkipInv
  <1>13. WireInv'
    BY <1>7, <1>8, <1>9, <1>10, <1>11, <1>12 DEF WireInv
  <1>14. AcksInv'
    BY <1>0, <1>1 DEF AcksInv, IsDir
  <1>15. ASSUME NEW f, Safe(f) PROVE Safe(f)'
    <2>1. CASE Flying(f)
      <3>1. CASE \E i \in 1..Len(rep) : rep[i].m = "reason" /\ rep[i].f = f
        <4>1. PICK i \in 1..Len(rep) : rep[i].m = "reason" /\ rep[i].f = f
          BY <3>1
        <4>2. i - 1 \in 1..Len(rep') /\ rep'[i - 1] = rep[i]
          BY <1>1, <1>3, <4>1
        <4> QED BY <4>1, <4>2 DEF Safe, Flying
      <3> QED BY <1>1, <2>1, <3>1 DEF Safe, Flying
    <2> QED BY <1>1, <1>7, <1>15, <2>1 DEF Safe
  <1>16. SafeInv'
    <2>1. Inside' => Inside
      BY <1>1 DEF Inside
    <2> QED BY <1>0, <1>1, <1>2, <1>15, <2>1, HandledSame DEF SafeInv
  <1> QED BY <1>13, <1>14, <1>16 DEF GoodInv

------------------------------------------------------------------------------
(* The device.                                                             *)

\* What its steps leave alone.
LEMMA DeviceLeaves ==
    ASSUME Before, UNCHANGED <<client, job>>, \A f : Safe(f) => Safe(f)'
    PROVE  AcksInv' /\ SafeInv' /\ (Asking' <=> Asking) /\ List' = List /\ Sync' = Sync
  <1>1. /\ UNCHANGED <<pc, src, todo, skip, deferred, readAll, ret>>
        /\ Sources' = Sources /\ Sync' = Sync /\ AcksInv /\ SafeInv
    BY DEF client, Sources, Sync, Before, GoodInv
  <1>2. AcksInv'
    BY <1>1 DEF AcksInv, IsDir
  <1>3. (Asking' <=> Asking) /\ (Inside' <=> Inside) /\ List' = List
    BY <1>1 DEF Asking, Inside, List
  <1>4. SafeInv'
    BY <1>1, <1>3, HandledSame DEF SafeInv
  <1> QED BY <1>1, <1>2, <1>3, <1>4

\* The connection is gone.
LEMMA DeviceClosesGood ==
    ASSUME Before, UNCHANGED job, DeviceCloses
    PROVE  GoodInv'
  <1>0. Types /\ WireInv
    BY DEF Before, Base, GoodInv
  <1>1. /\ UNCHANGED <<pc, src, todo, skip, deferred, job, client>>
        /\ UNCHANGED <<req, rep, out, recv, stored>> /\ closed'
    BY DEF DeviceCloses, client, device
  <1>2. Outstanding' = Outstanding /\ (Lost' <=> Lost)
    BY <1>1 DEF Outstanding, Total, Lost
  <1>3. \A f : Safe(f) => Safe(f)'
    BY <1>1, <1>2 DEF Safe, Flying
  <1>4. AcksInv' /\ SafeInv' /\ (Asking' <=> Asking) /\ List' = List /\ Sync' = Sync
    BY <1>1, <1>3, DeviceLeaves
  <1>5. CountInv'
    BY <1>0, <1>1, <1>2 DEF WireInv, CountInv
  <1>6. ShapeInv'
    BY <1>0, <1>1 DEF WireInv, ShapeInv, OpenAt, FileAt
  <1>7. FinishInv'
    BY <1>0, <1>1, <1>2 DEF WireInv, FinishInv, Finishing
  <1>8. KindInv' /\ SkipInv'
    BY <1>0, <1>1, <1>4 DEF WireInv, KindInv, SkipInv
  <1>9. StatInv'
    BY <1>0, <1>1, <1>4 DEF WireInv, StatInv, Aligned, OnWire
  <1> QED BY <1>4, <1>5, <1>6, <1>7, <1>8, <1>9 DEF GoodInv, WireInv

\* The device puts a part of its reply into the connection.
LEMMA DeviceWritesGood ==
    ASSUME Before, Base', UNCHANGED job, DeviceWrites
    PROVE  GoodInv'
  <1>0. Types /\ WireInv /\ Types'
    BY DEF Before, Base, GoodInv
  <1>1. /\ UNCHANGED <<pc, src, todo, skip, deferred, job, client>>
        /\ UNCHANGED <<req, recv, stored>> /\ ~closed
        /\ out # <<>> /\ rep' = Append(rep, Head(out)) /\ out' = Tail(out)
    BY DEF DeviceWrites, client
  <1>2. Outstanding' = Outstanding /\ (Lost' <=> Lost)
    BY <1>0, <1>1, TotalMoved DEF Outstanding, Lost
  <1>3. /\ Len(rep') = Len(rep) + 1 /\ Len(rep) \in Nat /\ rep'[Len(rep) + 1] = out[1]
        /\ \A i \in 1..Len(rep) : i \in 1..Len(rep') /\ rep'[i] = rep[i]
        /\ \A i \in 1..Len(rep') : i \in 1..Len(rep) \/ i = Len(rep) + 1
        /\ Len(rep) + 1 \in 1..Len(rep')
    BY <1>0, <1>1 DEF Types
  <1>4. /\ Len(out') = Len(out) - 1 /\ Len(out) \in Nat /\ 1 \in 1..Len(out)
        /\ \A i \in 1..Len(out') : i + 1 \in 1..Len(out) /\ out'[i] = out[i + 1]
        /\ \A i \in 1..Len(out) : i = 1 \/ (i - 1 \in 1..Len(out') /\ out'[i - 1] = out[i])
    BY <1>0, <1>1 DEF Types
  <1>5. ASSUME NEW f, Safe(f) PROVE Safe(f)'
    <2>1. CASE \E i \in 1..Len(out) : out[i].m = "reason" /\ out[i].f = f
      <3>1. PICK i \in 1..Len(out) : out[i].m = "reason" /\ out[i].f = f
        BY <2>1
      <3>2. CASE i = 1
        BY <1>3, <3>1, <3>2 DEF Safe, Flying
      <3>3. CASE i # 1
        BY <1>4, <3>1, <3>3 DEF Safe, Flying
      <3> QED BY <3>2, <3>3
    <2>2. CASE \E i \in 1..Len(rep) : rep[i].m = "reason" /\ rep[i].f = f
      BY <1>3, <2>2 DEF Safe, Flying
    <2> QED BY <1>1, <1>2, <1>5, <2>1, <2>2 DEF Safe, Flying
  <1>6. AcksInv' /\ SafeInv' /\ (Asking' <=> Asking) /\ List' = List /\ Sync' = Sync
    BY <1>1, <1>5, DeviceLeaves
  <1>7. CountInv'
    BY <1>0, <1>1, <1>2 DEF WireInv, CountInv
  <1>8. ShapeInv'
    BY <1>0, <1>1 DEF WireInv, ShapeInv, OpenAt, FileAt
  <1>9. FinishInv'
    BY <1>0, <1>1, <1>2 DEF WireInv, FinishInv, Finishing
  <1>10. KindInv'
    <2>1. KindInv
      BY <1>0 DEF WireInv
    <2>2. \A i \in 1..Len(rep') : rep'[i].m \in Stats <=> Asking
      BY <1>3, <1>4, <2>1 DEF KindInv
    <2>3. \A i \in 1..Len(out') : out'[i].m \in Stats <=> Asking
      BY <1>4, <2>1 DEF KindInv
    <2> QED BY <1>1, <1>6, <2>1, <2>2, <2>3 DEF KindInv
  <1>11. SkipInv'
    BY <1>0, <1>1, <1>6 DEF WireInv, SkipInv
  <1>12. ASSUME NEW l, Aligned(l) PROVE Aligned(l)'
    <2>1. \A i \in 1..Len(rep') : rep'[i].f = l[i]
      BY <1>3, <1>4, <1>12 DEF Aligned
    <2>2. \A i \in 1..Len(out') : out'[i].f = l[Len(rep') + i]
      BY <1>3, <1>4, <1>12 DEF Aligned
    <2>3. \A i \in 1..Len(req) : req[i].f = l[Len(rep') + Len(out') + i]
      BY <1>3, <1>4, <1>12 DEF Aligned
    <2> QED BY <1>1, <2>1, <2>2, <2>3 DEF Aligned
  <1>13. OnWire' = OnWire
    BY <1>0, <1>1, <1>3, <1>4 DEF OnWire, Types
  <1>14. StatInv'
    <2>0. StatInv
      BY <1>0 DEF WireInv
    <2>1. \A i \in 1..Len(rep') : rep'[i].m = "same" => rep'[i].f \in stored
      BY <1>3, <1>4, <2>0 DEF StatInv
    <2>2. \A i \in 1..Len(out') : out'[i].m = "same" => out'[i].f \in stored
      BY <1>4, <2>0 DEF StatInv
    <2>3. PICK l : l = List
      OBVIOUS
    <2>4. PICK t : t = todo
      OBVIOUS
    <2>5. (pc' = "ask" => Aligned(List)') /\ (pc' = "stats" => Aligned(todo)')
      <3>1. (pc = "ask" => Aligned(l)) /\ (pc = "stats" => Aligned(t))
        BY <2>0, <2>3, <2>4 DEF StatInv
      <3>2. (pc = "ask" => Aligned(l)') /\ (pc = "stats" => Aligned(t)')
        BY <1>12, <3>1
      <3>3. l = List' /\ t = todo'
        BY <1>1, <1>6, <2>3, <2>4
      <3> QED BY <1>1, <3>2, <3>3 DEF Aligned
    <2> HIDE DEF Aligned, List, OnWire, Asking
    <2> QED BY <1>1, <1>6, <1>13, <2>0, <2>1, <2>2, <2>5 DEF StatInv
  <1> QED BY <1>6, <1>7, <1>8, <1>9, <1>10, <1>11, <1>14 DEF GoodInv, WireInv

\* The device takes a request and acts on it.
LEMMA DeviceReadsGood ==
    ASSUME Before, Base', UNCHANGED job, DeviceReads
    PROVE  GoodInv'
  <1>0. /\ Types /\ WireInv /\ Types'
        /\ CountInv /\ ShapeInv /\ FinishInv /\ KindInv /\ StatInv /\ SkipInv
    BY DEF Before, Base, GoodInv, WireInv
  <1>1. PICK r : r = Head(req)
    OBVIOUS
  <1>2. /\ ~closed /\ ~closed' /\ out = <<>> /\ req # <<>> /\ req' = Tail(req) /\ UNCHANGED rep
        /\ UNCHANGED <<pc, src, todo, skip, deferred, job, client>>
        /\ GivesStat(r) \/ TakesSmall(r) \/ Begins(r) \/ TakesData(r) \/ Ends(r) \/ Refuses(r)
    BY <1>1, DeviceReading DEF client
  <1>3. /\ Len(req') = Len(req) - 1 /\ Len(req) \in Nat /\ 1 \in 1..Len(req) /\ r = req[1]
        /\ \A i \in 1..Len(req') : i + 1 \in 1..Len(req) /\ req'[i] = req[i + 1]
        /\ \A i \in 1..Len(req) : i = 1 \/ (i - 1 \in 1..Len(req') /\ req'[i - 1] = req[i])
        /\ Len(out) = 0 /\ Len(rep) \in Nat
    BY <1>0, <1>1, <1>2 DEF Types
  <1>4. r \in Requests /\ r.f \in Files
    <2>1. r \in Requests
      BY <1>0, <1>1, <1>2, SeqTypes DEF Types
    <2> QED BY <2>1 DEF Requests
  <1>5. (r.m \in {"data", "done"} <=> recv # {}) /\ (recv # {} => recv = {r.f})
    <2>1. (r.m \in {"data", "done"} <=> OpenAt(1 - 1)) /\ (OpenAt(1 - 1) => FileAt(1) = FileAt(1 - 1))
      BY <1>0, <1>3 DEF ShapeInv
    <2> QED BY <1>3, <2>1 DEF OpenAt, FileAt
  <1>6. GivesStat(r) \/ TakesSmall(r) \/ Begins(r) \/ TakesData(r) \/ Ends(r)
    BY <1>2, <1>4, <1>5 DEF Refuses, Requests
  <1>7. Outstanding' = Outstanding /\ (Lost' <=> Lost)
    <2>1. Outstanding' = Outstanding
      BY <1>0, <1>1, <1>2, <1>6, OutstandingServed
    <2> QED BY <1>2, <2>1 DEF Lost
  <1>8. /\ recv' = IF r.m \in {"send", "data"} THEN {r.f} ELSE {}
        /\ r.m \in {"send", "data"} => out' = <<>>
        /\ r.m = "send" => stored' = stored \ {r.f}
        /\ r.m \in {"data", "lstat"} => stored' = stored
        /\ r.m = "lstat" => out' = <<[m |-> IF r.f \in stored THEN "same" ELSE "other", f |-> r.f]>>
        /\ r.m \in {"small", "done"} =>
              \/ out' = <<[m |-> "okay", f |-> r.f]>> /\ stored' = stored \cup {r.f}
              \/ out' = Failure(r.f) /\ stored' = stored \ {r.f}
    <2>1. CASE GivesStat(r)
      BY <2>1 DEF GivesStat
    <2>2. CASE TakesSmall(r)
      BY <2>2 DEF TakesSmall, Answers
    <2>3. CASE Begins(r)
      BY <2>3 DEF Begins
    <2>4. CASE TakesData(r)
      BY <2>4 DEF TakesData
    <2>5. CASE Ends(r)
      BY <2>5 DEF Ends, Answers
    <2> QED BY <1>6, <2>1, <2>2, <2>3, <2>4, <2>5
  <1>9. r.m \in {"lstat", "small", "send", "data", "done"}
    BY <1>4 DEF Requests
  <1>10. r.m = "lstat" <=> Asking
    <2>1. r.m \in Stats <=> Asking
      BY <1>0, <1>3 DEF KindInv
    <2>2. r.m \in Stats <=> r.m = "lstat"
      BY <1>9 DEF Stats
    <2> QED BY <2>1, <2>2
  <1>11. \A i \in 1..Len(out') :
            /\ out'[i].f = r.f
            /\ out'[i].m \in Stats <=> r.m = "lstat"
            /\ out'[i].m = "same" => r.f \in stored
    <2>1. CASE r.m \in {"send", "data"}
      BY <1>8, <2>1
    <2>2. CASE r.m = "lstat"
      <3>1. PICK a : a = [m |-> IF r.f \in stored THEN "same" ELSE "other", f |-> r.f] /\ out' = <<a>>
        BY <1>8, <2>2
      <3>2. a.f = r.f /\ a.m \in {"same", "other"} /\ (a.m = "same" => r.f \in stored)
        BY <3>1
      <3>3. Len(out') = 1 /\ out'[1] = a
        BY <3>1
      <3> QED BY <2>2, <3>2, <3>3 DEF Stats
    <2>3. CASE r.m \in {"small", "done"}
      BY <1>8, <2>3 DEF Stats, Failure
    <2> QED BY <1>9, <2>1, <2>2, <2>3
  <1>12. ASSUME NEW f, NEW i \in 0..Len(req'), Finishing(f, i + 1) PROVE Finishing(f, i)'
    <2>1. CASE \E j \in 1..Len(req) : j > i + 1 /\ req[j].m = "done" /\ req[j].f = f
      <3>1. PICK j \in 1..Len(req) : j > i + 1 /\ req[j].m = "done" /\ req[j].f = f
        BY <2>1
      <3>2. j # 1 /\ j - 1 > i
        BY <1>3, <3>1
      <3>3. j - 1 \in 1..Len(req') /\ req'[j - 1] = req[j]
        BY <1>3, <3>2
      <3> QED BY <3>1, <3>2, <3>3 DEF Finishing
    <2> QED BY <1>2, <1>7, <1>12, <2>1 DEF Finishing
  <1>13. r.m \in {"send", "data"} => Finishing(r.f, 1)
    BY <1>0, <1>3 DEF FinishInv
  <1>14. ASSUME NEW f, Safe(f) PROVE Safe(f)'
    <2>1. CASE f # r.f
      <3>1. f \in stored => f \in stored'
        BY <1>8, <1>9, <2>1
      <3>2. CASE Flying(f)
        <4>1. CASE \E i \in 1..Len(req) : req[i].m \in {"small", "done"} /\ req[i].f = f
          <5>1. PICK i \in 1..Len(req) : req[i].m \in {"small", "done"} /\ req[i].f = f
            BY <4>1
          <5>2. i # 1
            BY <1>3, <2>1, <5>1
          <5> QED BY <1>3, <5>1, <5>2 DEF Safe, Flying
        <4> QED BY <1>2, <1>3, <3>2, <4>1 DEF Safe, Flying
      <3> QED BY <1>2, <1>7, <1>14, <3>1, <3>2 DEF Safe
    <2>2. CASE f = r.f /\ r.m \in {"small", "done"}
      <3>1. CASE f \in stored'
        BY <3>1 DEF Safe
      <3>2. CASE f \notin stored'
        <4>1. out' = Failure(f)
          BY <1>8, <2>2, <3>2
        <4>2. Len(out') = 2 /\ out'[2].m = "reason" /\ out'[2].f = f
          BY <4>1 DEF Failure
        <4> QED BY <4>2 DEF Safe, Flying
      <3> QED BY <3>1, <3>2
    <2>3. CASE f = r.f /\ r.m \in {"send", "data"}
      <3>1. Finishing(f, 0 + 1)
        BY <1>13, <2>3
      <3>2. Finishing(f, 0)'
        BY <1>3, <1>12, <3>1
      <3> QED BY <3>2 DEF Finishing, Safe, Flying
    <2>4. CASE r.m = "lstat"
      <3>1. f \in stored
        BY <1>0, <1>10, <1>14, <2>4, AskingStored
      <3> QED BY <1>8, <2>4, <3>1 DEF Safe
    <2> QED BY <1>9, <2>1, <2>2, <2>3, <2>4
  <1>15. AcksInv' /\ SafeInv' /\ (Asking' <=> Asking) /\ List' = List /\ Sync' = Sync
    BY <1>2, <1>14, DeviceLeaves
  <1>16. CountInv'
    BY <1>0, <1>2, <1>7 DEF CountInv
  <1>17. ShapeInv'
    <2>1. ASSUME NEW i \in 0..Len(req')
          PROVE  (OpenAt(i)' <=> OpenAt(i + 1)) /\ (OpenAt(i)' => FileAt(i)' = FileAt(i + 1))
      <3>1. CASE i = 0
        BY <1>3, <1>8, <1>9, <3>1 DEF OpenAt, FileAt
      <3>2. CASE i \in 1..Len(req')
        <4>1. i # 0 /\ i + 1 # 0 /\ req'[i] = req[i + 1]
          BY <1>3, <3>2
        <4> QED BY <4>1 DEF OpenAt, FileAt
      <3> QED BY <1>3, <3>1, <3>2
    <2>2. ASSUME NEW i \in 1..Len(req')
          PROVE  /\ req'[i].m \in {"data", "done"} <=> OpenAt(i - 1)'
                 /\ OpenAt(i - 1)' => FileAt(i)' = FileAt(i - 1)'
      <3>1. PICK j \in 0..Len(req') : j = i - 1 /\ j + 1 = i
        BY <1>3
      <3>2. /\ OpenAt(j)' <=> OpenAt(i)
            /\ OpenAt(j)' => FileAt(j)' = FileAt(i)
        BY <2>1, <3>1
      <3>3. PICK k \in 1..Len(req) : k = i + 1 /\ k - 1 = i
        BY <1>3
      <3>4. /\ req[k].m \in {"data", "done"} <=> OpenAt(k - 1)
            /\ OpenAt(k - 1) => FileAt(k) = FileAt(k - 1)
        BY <1>0 DEF ShapeInv
      <3>5. req'[i] = req[k] /\ i # 0 /\ k # 0
        BY <1>3, <3>3
      <3>6. FileAt(i)' = FileAt(k)
        BY <3>5 DEF FileAt
      <3> QED BY <3>1, <3>2, <3>3, <3>4, <3>5, <3>6
    <2>3. PICK n \in 0..Len(req') : n = Len(req') /\ n + 1 = Len(req)
      BY <1>3
    <2>4. (pc = "large" <=> OpenAt(n)') /\ (pc = "large" => FileAt(n)' = {Head(todo)})
      <3>1. (pc = "large" <=> OpenAt(n + 1)) /\ (pc = "large" => FileAt(n + 1) = {Head(todo)})
        BY <1>0, <1>2, <2>3 DEF ShapeInv
      <3> QED BY <2>1, <3>1
    <2> HIDE DEF OpenAt, FileAt
    <2> QED BY <1>2, <2>2, <2>3, <2>4 DEF ShapeInv
  <1>18. FinishInv'
    <2>1. ASSUME NEW f \in recv' PROVE Finishing(f, 0)'
      <3>1. f = r.f /\ Finishing(f, 0 + 1)
        BY <1>8, <1>13
      <3> QED BY <1>3, <1>12, <3>1
    <2>2. ASSUME NEW i \in 1..Len(req'), req'[i].m \in {"send", "data"} PROVE Finishing(req[i].f, i)'
      <3>1. PICK f : f = req[i + 1].f
        OBVIOUS
      <3>2. Finishing(f, i + 1) /\ i \in 0..Len(req')
        BY <1>0, <1>3, <2>2, <3>1 DEF FinishInv
      <3>3. Finishing(f, i)'
        BY <1>12, <3>2
      <3> QED BY <1>3, <3>1, <3>3 DEF Finishing
    <2> QED BY <2>1, <2>2 DEF FinishInv
  <1>19. KindInv'
    <2>1. \A i \in 1..Len(req') : req'[i].m \in Stats <=> Asking
      BY <1>0, <1>3 DEF KindInv
    <2>2. \A i \in 1..Len(out') : out'[i].m \in Stats <=> Asking
      BY <1>10, <1>11
    <2> QED BY <1>0, <1>2, <1>15, <2>1, <2>2 DEF KindInv
  <1>20. SkipInv'
    <2>1. skip \subseteq stored'
      <3>1. r.m # "lstat" => r.f \notin skip
        BY <1>0, <1>3, <1>9 DEF SkipInv, Stats
      <3> QED BY <1>0, <1>8, <1>9, <3>1 DEF SkipInv
    <2>2. \A i \in 1..Len(req') : req'[i].m \notin Stats => req'[i].f \notin skip
      BY <1>0, <1>3 DEF SkipInv
    <2> QED BY <1>0, <1>2, <2>1, <2>2 DEF SkipInv
  <1>21. StatInv'
    <2>1. CASE ~Asking
      <3>1. \A i \in 1..Len(rep) : rep[i].m # "same"
        BY <1>0, <2>1 DEF KindInv, Stats
      <3>2. \A i \in 1..Len(out') : out'[i].m # "same"
        BY <1>10, <1>11, <2>1 DEF Stats
      <3> QED BY <1>2, <1>15, <2>1, <3>1, <3>2 DEF StatInv, Asking
    <2>2. CASE Asking
      <3>1. r.m = "lstat" /\ stored' = stored /\ recv' = {} /\ Len(out') = 1 /\ out'[1].f = r.f
        BY <1>8, <1>9, <1>10, <2>2
      <3>2. OnWire' = OnWire
        BY <1>2, <1>3, <3>1 DEF OnWire
      <3>3. ASSUME NEW l, Aligned(l) PROVE Aligned(l)'
        <4>1. out'[1].f = l[Len(rep) + 1]
          BY <1>3, <3>1, <3>3 DEF Aligned
        <4>2. ASSUME NEW i \in 1..Len(req') PROVE req'[i].f = l[Len(rep) + 1 + i]
          <5>1. req[i + 1].f = l[Len(rep) + 0 + (i + 1)]
            BY <1>3, <3>3 DEF Aligned
          <5>2. Len(rep) + 0 + (i + 1) = Len(rep) + 1 + i
            BY <1>3
          <5> QED BY <1>3, <5>1, <5>2
        <4> QED BY <1>2, <3>1, <3>3, <4>1, <4>2 DEF Aligned
      <3>4. PICK l : l = List
        OBVIOUS
      <3>5. PICK t : t = todo
        OBVIOUS
      <3>6. (pc' = "ask" => Aligned(List)') /\ (pc' = "stats" => Aligned(todo)')
        <4>1. (pc = "ask" => Aligned(l)) /\ (pc = "stats" => Aligned(t))
          BY <1>0, <3>4, <3>5 DEF StatInv
        <4>2. (pc = "ask" => Aligned(l)') /\ (pc = "stats" => Aligned(t)')
          BY <3>3, <4>1
        <4>3. l = List' /\ t = todo'
          BY <1>2, <1>15, <3>4, <3>5
        <4> QED BY <1>2, <4>2, <4>3 DEF Aligned
      <3>7. \A i \in 1..Len(out') : out'[i].m = "same" => out'[i].f \in stored'
        BY <1>11, <3>1
      <3>8. \A i \in 1..Len(rep') : rep'[i].m = "same" => rep'[i].f \in stored'
        BY <1>0, <1>2, <3>1 DEF StatInv
      <3> HIDE DEF Aligned, List, OnWire, Asking
      <3> QED BY <1>0, <1>2, <1>15, <2>2, <3>1, <3>2, <3>6, <3>7, <3>8 DEF StatInv
    <2> QED BY <2>1, <2>2
  <1> QED BY <1>15, <1>16, <1>17, <1>18, <1>19, <1>20, <1>21 DEF GoodInv, WireInv

------------------------------------------------------------------------------
(* The theorems.                                                           *)

\* A step that leaves the push without a failure started without one, and
\* keeps what holds of such a push.
LEMMA GoodInductive ==
    ASSUME PushInv, Base', Good', [Next]_vars
    PROVE  GoodInv'
  <1>1. CASE UNCHANGED vars
    <2>1. Good /\ GoodInv
      BY <1>1 DEF vars, Good, PushInv
    <2>2. UNCHANGED <<client, job, rep, out, req, recv, stored, closed>>
      BY <1>1 DEF vars, client
    <2>3. UNCHANGED <<pc, src, todo, skip, deferred, Outstanding>> /\ (Lost' <=> Lost)
      BY <2>2 DEF client, Outstanding, Total, Lost
    <2>4. \A f : Safe(f) => Safe(f)'
      BY <2>2, <2>3 DEF Safe, Flying
    <2>5. AcksInv' /\ SafeInv' /\ (Asking' <=> Asking) /\ List' = List /\ Sync' = Sync
      BY <2>1, <2>2, <2>4, DeviceLeaves DEF Before, PushInv
    <2>6. WireInv
      BY <2>1 DEF GoodInv
    <2>7. CountInv' /\ FinishInv'
      BY <2>2, <2>3, <2>6 DEF WireInv, CountInv, FinishInv, Finishing
    <2>8. ShapeInv'
      BY <2>2, <2>3, <2>6 DEF WireInv, ShapeInv, OpenAt, FileAt
    <2>9. KindInv' /\ SkipInv'
      BY <2>2, <2>3, <2>5, <2>6 DEF WireInv, KindInv, SkipInv
    <2>10. StatInv'
      BY <2>2, <2>3, <2>5, <2>6 DEF WireInv, StatInv, Aligned, OnWire
    <2> QED BY <2>5, <2>7, <2>8, <2>9, <2>10 DEF GoodInv, WireInv
  <1>2. CASE Client \/ (SendData /\ UNCHANGED job)
    <2>0. UNCHANGED job
      BY <1>2 DEF Client
    <2>1. success' => success
      BY <1>2 DEF Client, NextSource, SourceFails, SourcesEnd, AskStat, AskFails, FinishStat, SkipFile, FilesEnd,
         LocalFails, SendSmallFile, SendRequest, SendData, SendDone, LargeFails, AllRead, TryLater, ReadHeader,
         ReadFailure, ReadError, GiveUp, WriteOrDie, FileSent, Return, client
    <2>2. pc \notin {"exit", "fault"}
      BY <1>2 DEF Client, NextSource, SourceFails, SourcesEnd, AskStat, AskFails, FinishStat, SkipFile, FilesEnd,
         LocalFails, SendSmallFile, SendRequest, SendData, SendDone, LargeFails, AllRead, TryLater, ReadHeader,
         ReadFailure, ReadError, Sending
    <2>3. Before
      BY <2>1, <2>2 DEF Good, Before, PushInv
    <2>4. ~(SourceFails \/ LocalFails \/ LargeFails \/ ReadFailure \/ ReadError)
      BY DEF SourceFails, LocalFails, LargeFails, ReadFailure, ReadError, GiveUp, Return, Good
    <2> QED BY <1>2, <2>0, <2>3, <2>4, NextSourceGood, LocalGood, AskStatGood, AskFailsGood, FinishStatGood,
            FileSentGood, LargeGood, ReadHeaderGood DEF Client
  <1>3. CASE (DeviceReads \/ DeviceWrites \/ DeviceCloses) /\ UNCHANGED job
    <2>1. Before
      BY <1>3 DEF DeviceReads, DeviceWrites, DeviceCloses, client, Good, Before, PushInv
    <2> QED BY <1>3, <2>1, DeviceReadsGood, DeviceWritesGood, DeviceClosesGood
  <1> QED BY <1>1, <1>2, <1>3 DEF Next, Device

\* A fault has a reason: the answer the client waits for is on its way.
LEMMA FaultInductive ==
    ASSUME PushInv, [Next]_vars
    PROVE  FaultNeedsFailure'
  <1>1. CASE FinishStat /\ pc' = "fault" /\ success /\ ~closed
    <2>1. WireInv /\ Types
      BY <1>1 DEF FinishStat, PushInv, Base, Good, GoodInv
    <2>2. pc = "stats" /\ Asking /\ rep # <<>> /\ Head(rep).m \notin {"same", "other"}
      BY <1>1 DEF FinishStat, Asking
    <2>3. rep[1] = Head(rep) /\ rep[1] \in Replies /\ 1 \in 1..Len(rep)
      BY <2>1, <2>2 DEF Types
    <2>4. rep[1].m \in Stats
      BY <2>1, <2>2, <2>3 DEF WireInv, KindInv
    <2> QED BY <2>2, <2>3, <2>4 DEF Stats, Replies
  <1>2. CASE FinishStat /\ (pc' # "fault" \/ ~success \/ closed)
    BY <1>2 DEF FinishStat, FaultNeedsFailure
  <1>3. CASE UNCHANGED <<pc, success>> /\ (closed => closed')
    BY <1>3 DEF PushInv, FaultNeedsFailure
  <1>4. CASE pc' # "fault"
    BY <1>4 DEF FaultNeedsFailure
  <1>5. \/ FinishStat
        \/ UNCHANGED <<pc, success>> /\ (closed => closed')
        \/ pc' # "fault"
    BY DEF Next, vars, Client, Device, NextSource, SourceFails, SourcesEnd, AskStat, AskFails, SkipFile, FilesEnd,
         LocalFails, SendSmallFile, SendRequest, SendData, SendDone, LargeFails, AllRead, TryLater, ReadHeader,
         ReadFailure, ReadError, GiveUp, WriteOrDie, FileSent, Return, client, DeviceReads, DeviceWrites, DeviceCloses
  <1> QED BY <1>1, <1>2, <1>3, <1>4, <1>5

LEMMA PushInvInit ==
    ASSUME Init
    PROVE  PushInv
  <1>1. Base
    BY BaseInit
  <1>2. /\ rep = <<>> /\ out = <<>> /\ req = <<>> /\ recv = {} /\ deferred = <<>> /\ skip = {}
        /\ pc = "next" /\ src = 1 /\ ~Asking /\ ~Inside
    BY DEF Init, Asking, Inside
  <1>3. Len(rep) = 0 /\ Len(out) = 0 /\ Len(req) = 0 /\ Len(deferred) = 0
    BY <1>2
  <1>4. CountInv
    <2>1. <<>> \in Seq(Replies) /\ \A i \in DOMAIN <<>> : <<>>[i].m \notin Units
      OBVIOUS
    <2>2. Count(<<>>, Units) = 0
      BY <2>1, CountType
    <2> QED BY <1>2, <1>3, <2>2 DEF CountInv, Outstanding, Total
  <1>5. AcksInv /\ ShapeInv /\ FinishInv /\ KindInv /\ StatInv /\ SkipInv
    BY <1>2, <1>3 DEF AcksInv, ShapeInv, OpenAt, FinishInv, KindInv, StatInv, SkipInv
  <1>6. SafeInv
    BY <1>2 DEF SafeInv, Handled
  <1>7. FaultNeedsFailure
    BY <1>2 DEF FaultNeedsFailure
  <1> QED BY <1>1, <1>4, <1>5, <1>6, <1>7 DEF PushInv, GoodInv, WireInv

LEMMA PushInductive ==
    ASSUME PushInv, [Next]_vars
    PROVE  PushInv'
  <1>1. Base'
    BY BaseInductive DEF PushInv
  <1>2. Good' => GoodInv'
    BY <1>1, GoodInductive
  <1>3. FaultNeedsFailure'
    BY FaultInductive
  <1> QED BY <1>1, <1>2, <1>3 DEF PushInv

\* At the end nothing is on its way, so that what is safe is stored.
LEMMA PushImplies ==
    ASSUME PushInv
    PROVE  SuccessIsStored
  <1> SUFFICES ASSUME pc = "done", success PROVE FilesOf(Sources) \subseteq stored
    BY DEF SuccessIsStored
  <1>1. Types /\ TodoInv /\ PairInv /\ WireInv /\ AcksInv /\ SafeInv
    BY DEF PushInv, Base, Good, GoodInv
  <1>2. deferred = <<>> /\ ~Asking
    BY <1>1 DEF AcksInv, Asking
  <1>3. rep = <<>> /\ out = <<>> /\ req = <<>> /\ ~Lost
    BY <1>1, <1>2, Quiet
  <1>4. ASSUME NEW f, Safe(f) PROVE f \in stored
    BY <1>3, <1>4 DEF Safe, Flying
  <1>5. src > Len(Sources) /\ src \in Nat /\ Len(Sources) \in Nat /\ DOMAIN Sources = 1..Len(Sources)
    <2>1. Sources \in Seq([dir : BOOLEAN, files : Seq(Files)])
      BY <1>1, SyncPushAssumption DEF Types, Sources
    <2> QED BY <1>1, <2>1 DEF TodoInv, Types
  <1>6. ASSUME NEW i \in DOMAIN Sources, NEW j \in DOMAIN Sources[i].files
        PROVE  Sources[i].files[j] \in stored
    <2>1. i \in 1..(src - 1) /\ Sources[i].files \in Seq(Files)
      BY <1>1, <1>5, JobTypes DEF Types
    <2>2. PICK l \in Seq(Files) : l = Sources[i].files
      BY <2>1
    <2>3. j \in 1..Len(l) /\ l[j] \in Files
      BY <2>2
    <2>4. Handled(l[j])
      BY <2>1, <2>2, <2>3 DEF Handled
    <2> QED BY <1>1, <1>4, <2>2, <2>3, <2>4 DEF SafeInv
  <1> QED BY <1>6 DEF FilesOf

\* do_sync_push returns true only if every file of every source is on the
\* device, for every list of sources and whatever the device does: a failure
\* it reported is never lost among the deferred acknowledgements, nor is a
\* file the closed connection swallowed.
THEOREM SuccessIsStoredCorrect == Spec => []SuccessIsStored
  <1>1. Init => PushInv
    BY PushInvInit
  <1>2. PushInv /\ [Next]_vars => PushInv'
    BY PushInductive
  <1>3. PushInv => SuccessIsStored
    BY PushImplies
  <1> QED BY <1>1, <1>2, <1>3, PTL DEF Spec

\* FinishStat meets something that is no answer to its lstat only after a
\* failure or when the connection is gone: until then no acknowledgement is on
\* its way while the client asks.
THEOREM FaultNeedsFailureCorrect == Spec => []FaultNeedsFailure
  <1>1. Init => PushInv
    BY PushInvInit
  <1>2. PushInv /\ [Next]_vars => PushInv'
    BY PushInductive
  <1>3. PushInv => FaultNeedsFailure
    BY DEF PushInv
  <1> QED BY <1>1, <1>2, <1>3, PTL DEF Spec

------------------------------------------------------------------------------
(* Room for the acknowledgements, while the connection is open: after      *)
(* failures too, when replies may be waiting that no call reads.           *)

\* Parts of replies the device made and the client has not read.
Written(K) == Count(rep, K) + Count(out, K)

BalanceInv == Written({"fail"}) + (IF buf THEN 1 ELSE 0) = Written({"reason"})

\* Only ReadAcknowledgements sees as many files outstanding as it allows, and
\* then the last request was the end of a file: what the device may yet refuse
\* is none of the others.
LimitInv ==
    /\ Len(deferred) <= MaxDeferred
    /\ Len(deferred) = MaxDeferred => pc = "acks" /\ (req # <<>> => req[Len(req)].m \in Units)
    /\ Written(Units) <= MaxDeferred
    /\ ~Unexpected => Outstanding <= Len(deferred)

\* Questions and answers about sizes and times are on their way only while the
\* client asks.
AskInv ==
    /\ ~Asking /\ pc # "fault" => Total(Stats) = 0
    /\ pc = "ask" => Total(Stats) <= Len(List) - Len(todo)
    /\ pc = "stats" => Total(Stats) <= Len(todo)

NoStat(s) == \A i \in 1..Len(s) : s[i].m \notin Stats

\* They are behind everything else, and the device answers none while it
\* receives a file.
OrderInv ==
    /\ Len(out) <= 2
    /\ Len(out) = 2 => out[1].m = "fail" /\ out[2].m = "reason"
    /\ (\E i \in 1..Len(out) : out[i].m \notin Stats) => NoStat(rep)
    /\ (\E i \in 1..Len(req) : req[i].m \notin Stats) => NoStat(rep) /\ NoStat(out)
    /\ \A i, j \in 1..Len(req) : i < j /\ req[i].m \in Stats => req[j].m \in Stats
    /\ recv # {} => NoStat(rep) /\ NoStat(out)

\* The device is never sent the rest of a file it has not begun.
ExpectInv ==
    /\ \A i \in 1..Len(req) : req[i].m \in {"data", "done"} => OpenAt(i - 1)
    /\ pc = "large" => OpenAt(Len(req))

RoomInv == BalanceInv /\ LimitInv /\ AskInv /\ OrderInv /\ ExpectInv

OpenInv == Base /\ (~closed => RoomInv)

\* Nothing on the connection changes.
LEMMA RoomKept ==
    ASSUME RoomInv, UNCHANGED <<rep, out, req, recv, deferred, buf>>, AskInv',
           Len(deferred) = MaxDeferred => pc' = "acks", pc' = "large" => pc = "large"
    PROVE  RoomInv'
  <1>1. BalanceInv /\ LimitInv /\ OrderInv /\ ExpectInv
    BY DEF RoomInv
  <1>2. BalanceInv'
    BY <1>1 DEF BalanceInv, Written
  <1>3. LimitInv'
    BY <1>1 DEF LimitInv, Written, Unexpected, Outstanding, Total
  <1>4. OrderInv'
    BY <1>1 DEF OrderInv, NoStat
  <1>5. ExpectInv'
    BY <1>1 DEF ExpectInv, OpenAt
  <1> QED BY <1>2, <1>3, <1>4, <1>5 DEF RoomInv

\* Steps without a message.
LEMMA LocalRoom ==
    ASSUME Base, Base', RoomInv, ~closed, UNCHANGED job,
           \/ NextSource \/ SourceFails \/ SourcesEnd \/ SkipFile \/ FilesEnd \/ LocalFails \/ LargeFails
           \/ AllRead \/ TryLater \/ ReadError
    PROVE  RoomInv'
  <1>0. /\ Types /\ TodoInv /\ PairInv /\ Types' /\ TodoInv' /\ LimitInv /\ AskInv
        /\ Sources' = Sources /\ Sync' = Sync
    BY DEF Base, RoomInv, Sources, Sync
  <1>1. /\ UNCHANGED <<rep, out, req, recv, deferred, buf>> /\ ~Asking
        /\ pc \in {"next", "send", "large", "acks"} /\ pc' \in {"next", "ask", "send", "acks", "done"}
        /\ pc' = "ask" => src <= Len(Sources) /\ UNCHANGED src /\ todo' = List
    BY DEF NextSource, SourceFails, SourcesEnd, SkipFile, FilesEnd, LocalFails, LargeFails, AllRead, TryLater, ReadError,
           GiveUp, Return, Sending, AckVars, device, Asking, List
  <1>2. Total(Stats)' = Total(Stats) /\ Total(Stats) = 0
    BY <1>0, <1>1 DEF AskInv, Total
  <1>3. AskInv'
    <2>1. CASE pc' = "ask"
      <3>1. List' = List /\ todo' = List /\ Len(List) \in Nat
        BY <1>0, <1>1, <2>1, ListTypes DEF List
      <3> QED BY <1>2, <2>1, <3>1 DEF AskInv, Asking
    <2>2. CASE pc' # "ask"
      BY <1>1, <1>2, <2>2 DEF AskInv
    <2> QED BY <2>1, <2>2
  <1>4. Len(deferred) = MaxDeferred => pc' = "acks"
    <2> SUFFICES ASSUME Len(deferred) = MaxDeferred, pc' # "acks" PROVE FALSE
      OBVIOUS
    <2>1. pc = "acks" /\ deferred # <<>>
      BY <1>0, SyncPushAssumption DEF LimitInv
    <2>2. ReadError
      <3>1. ~(NextSource \/ SourceFails \/ SourcesEnd \/ SkipFile \/ FilesEnd \/ LocalFails \/ LargeFails)
        BY <2>1 DEF NextSource, SourceFails, SourcesEnd, SkipFile, FilesEnd, LocalFails, LargeFails, Sending
      <3>2. ~AllRead
        BY <2>1 DEF AllRead
      <3>3. MaxDeferred \in Nat
        BY SyncPushAssumption
      <3>4. ~(Len(deferred) < MaxDeferred)
        BY <3>3
      <3>5. ~TryLater
        BY <3>4 DEF TryLater
      <3> QED BY <3>1, <3>2, <3>5
    <2>3. ~buf /\ rep # <<>> /\ Head(rep).m \notin {"okay", "fail"}
      BY <2>2 DEF ReadError
    <2>4. rep[1] \in Replies /\ rep[1] = Head(rep) /\ 1 \in 1..Len(rep) /\ 1 \in 1..Parts
      BY <1>0, <2>3 DEF Types, Parts
    <2>5. rep[1].m \notin Stats
      BY <1>0, <1>2, <2>4, TotalType
    <2>6. rep[1].m = "reason"
      BY <2>3, <2>4, <2>5 DEF Replies, Stats
    <2>7. Part(1) = "reason"
      BY <2>4, <2>6 DEF Part
    <2> QED BY <1>0, <2>3, <2>4, <2>7 DEF PairInv
  <1> QED BY <1>1, <1>3, <1>4, RoomKept

\* A request is written.
LEMMA RoomWritten ==
    ASSUME Types, RoomInv, NEW r \in Requests, req' = Append(req, r), UNCHANGED <<rep, out, recv, buf>>,
           pc # "acks", AskInv', Len(deferred) \in Nat,
           IF r.m \in Units THEN Len(deferred') = Len(deferred) + 1 /\ pc' = "acks" ELSE UNCHANGED deferred,
           r.m \notin Stats => Total(Stats) = 0,
           r.m \in {"data", "done"} => pc = "large", pc' = "large" => r.m \in {"send", "data"}
    PROVE  RoomInv'
  <1>0. BalanceInv /\ LimitInv /\ OrderInv /\ ExpectInv
    BY DEF RoomInv
  <1>1. /\ Len(req') = Len(req) + 1 /\ Len(req) \in Nat /\ req'[Len(req) + 1] = r
        /\ \A i \in 1..Len(req) : i \in 1..Len(req') /\ req'[i] = req[i]
        /\ \A i \in 1..Len(req') : i \in 1..Len(req) \/ i = Len(req) + 1
    BY DEF Types
  <1>2. BalanceInv'
    BY <1>0 DEF BalanceInv, Written
  <1>3. LimitInv'
    <2>1. Outstanding' = IF r.m \in Units THEN Outstanding + 1 ELSE Outstanding
      BY TotalWritten DEF Outstanding
    <2>2. Outstanding \in Nat /\ MaxDeferred \in Nat
      BY OutstandingType, SyncPushAssumption
    <2>3. Len(deferred) < MaxDeferred
      BY <1>0, <2>2 DEF LimitInv
    <2>4. Written(Units)' = Written(Units) /\ (Unexpected' <=> Unexpected)
      BY DEF Written, Unexpected
    <2>5. Len(deferred') <= MaxDeferred
      BY <2>2, <2>3
    <2>6. Len(deferred') = MaxDeferred => pc' = "acks" /\ req'[Len(req')].m \in Units
      BY <1>1, <2>2, <2>3
    <2>7. ~Unexpected' => Outstanding' <= Len(deferred')
      BY <1>0, <2>1, <2>2, <2>4 DEF LimitInv
    <2> QED BY <1>0, <2>4, <2>5, <2>6, <2>7 DEF LimitInv
  <1>4. OrderInv'
    <2>1. CASE r.m \in Stats
      <3>1. \A i, j \in 1..Len(req') : i < j /\ req'[i].m \in Stats => req'[j].m \in Stats
        BY <1>0, <1>1, <2>1 DEF OrderInv
      <3>2. (\E i \in 1..Len(req') : req'[i].m \notin Stats) => NoStat(rep) /\ NoStat(out)
        BY <1>0, <1>1, <2>1 DEF OrderInv
      <3> QED BY <1>0, <3>1, <3>2 DEF OrderInv, NoStat
    <2>2. CASE r.m \notin Stats
      <3>1. NoStat(rep) /\ NoStat(out) /\ NoStat(req)
        BY <2>2, TotalType DEF NoStat
      <3>2. \A i \in 1..Len(req') : req'[i].m \notin Stats
        BY <1>1, <2>2, <3>1 DEF NoStat
      <3> QED BY <1>0, <3>1, <3>2 DEF OrderInv, NoStat
    <2> QED BY <2>1, <2>2
  <1>5. ExpectInv'
    <2>0. PICK n \in Nat : n = Len(req)
      BY <1>1
    <2>1. ASSUME NEW i \in 0..n PROVE OpenAt(i)' <=> OpenAt(i)
      <3>1. CASE i = 0
        BY <3>1 DEF OpenAt
      <3>2. CASE i # 0
        <4>1. req'[i] = req[i]
          BY <1>1, <2>0, <3>2
        <4> QED BY <3>2, <4>1 DEF OpenAt
      <3> QED BY <3>1, <3>2
    <2>2. ASSUME NEW i \in 1..(n + 1), req'[i].m \in {"data", "done"} PROVE OpenAt(i - 1)'
      <3>1. PICK j \in 0..n : j = i - 1
        BY <2>0
      <3>2. CASE i \in 1..n
        <4>1. OpenAt(i - 1)
          BY <1>0, <1>1, <2>0, <2>2, <3>2 DEF ExpectInv
        <4> QED BY <2>1, <3>1, <4>1
      <3>3. CASE i = n + 1
        <4>1. OpenAt(n) /\ j = n
          BY <1>0, <1>1, <2>0, <2>2, <3>1, <3>3 DEF ExpectInv
        <4> QED BY <2>1, <3>1, <4>1
      <3>4. i \in 1..n \/ i = n + 1
        BY <2>0
      <3> QED BY <3>2, <3>3, <3>4
    <2>3. pc' = "large" => OpenAt(n + 1)'
      BY <1>1, <2>0 DEF OpenAt
    <2> HIDE DEF OpenAt
    <2> QED BY <1>1, <2>0, <2>2, <2>3 DEF ExpectInv
  <1> QED BY <1>2, <1>3, <1>4, <1>5 DEF RoomInv

\* SendLstat.
LEMMA AskRoom ==
    ASSUME Base, Base', RoomInv, ~closed, UNCHANGED job, AskStat
    PROVE  RoomInv'
  <1>0. /\ Types /\ TodoInv /\ Types' /\ AskInv /\ LimitInv /\ Sources' = Sources
    BY DEF Base, RoomInv, Sources
  <1>1. /\ pc = "ask" /\ src <= Len(Sources) /\ Rest(todo) /\ List' = List
        /\ UNCHANGED <<src, deferred, rep, out, recv, buf>>
    BY <1>0 DEF AskStat, List, device, TodoInv, Inside
  <1>2. Len(List) \in Nat /\ Total(Stats) \in Nat /\ Len(deferred) \in Nat /\ Len(todo) \in Nat
    BY <1>0, <1>1, ListTypes, TotalType DEF Types
  <1>3. CASE todo = <<>>
    <2>1. pc' = "stats" /\ todo' = List /\ UNCHANGED req
      BY <1>3 DEF AskStat, List
    <2>2. AskInv'
      BY <1>0, <1>1, <1>2, <1>3, <2>1 DEF AskInv, Asking, Total
    <2>3. Len(deferred) = MaxDeferred => pc' = "acks"
      BY <1>0, <1>1 DEF LimitInv
    <2> QED BY <1>1, <2>1, <2>2, <2>3, RoomKept
  <1>4. CASE todo # <<>>
    <2>1. PICK r : r = [m |-> "lstat", f |-> Head(todo)] /\ req' = Append(req, r)
      BY <1>4 DEF AskStat, Write
    <2>2. r \in Requests /\ r.m = "lstat"
      BY <1>0, <1>4, <2>1 DEF Requests, Types
    <2>3. pc' = "ask" /\ todo' = Tail(todo)
      BY <1>1, <1>4 DEF AskStat
    <2>4. r.m \in Stats /\ r.m \notin Units
      BY <2>2 DEF Stats, Units
    <2>5. Total(Stats)' = Total(Stats) + 1
      BY <1>0, <1>1, <2>1, <2>2, <2>4, TotalWritten
    <2>6. Len(todo') = Len(todo) - 1
      BY <1>0, <1>4, <2>3 DEF Types
    <2>7. AskInv'
      <3>1. Total(Stats) <= Len(List) - Len(todo)
        BY <1>0, <1>1 DEF AskInv
      <3>2. Total(Stats)' <= Len(List) - Len(todo')
        BY <1>2, <2>5, <2>6, <3>1
      <3> QED BY <1>1, <2>3, <3>2 DEF AskInv, Asking
    <2> QED BY <1>0, <1>1, <1>2, <2>1, <2>2, <2>3, <2>4, <2>7, RoomWritten
  <1> QED BY <1>3, <1>4

\* A request of a file is written.
LEMMA SendRoom ==
    ASSUME Base, Base', RoomInv, ~closed, UNCHANGED job, SendSmallFile \/ SendRequest \/ SendData \/ SendDone
    PROVE  RoomInv'
  <1>0. /\ Types /\ TodoInv /\ Types' /\ AskInv
    BY DEF Base, RoomInv
  <1>1. PICK k \in {"small", "send", "data", "done"} :
           /\ pc \in {"send", "large"} /\ todo # <<>> /\ Write(k, Head(todo))
           /\ k \in {"data", "done"} => pc = "large"
           /\ IF k \in {"small", "done"} THEN deferred' = Append(deferred, Head(todo)) /\ pc' = "acks"
                                         ELSE UNCHANGED deferred /\ pc' = "large"
           /\ UNCHANGED <<rep, out, recv, buf>>
    <2>1. CASE SendSmallFile
      BY <2>1 DEF SendSmallFile, Sending, WriteOrDie, WriteFails, FileSent, device
    <2>2. CASE SendRequest
      BY <2>2 DEF SendRequest, Sending, WriteFails, device
    <2>3. CASE SendData
      BY <1>0, <2>3 DEF SendData, WriteOrDie, WriteFails, client, device, TodoInv
    <2>4. CASE SendDone
      BY <1>0, <2>4 DEF SendDone, WriteOrDie, WriteFails, FileSent, device, TodoInv
    <2> QED BY <2>1, <2>2, <2>3, <2>4
  <1>2. PICK r : r = [m |-> k, f |-> Head(todo)] /\ req' = Append(req, r)
    BY <1>1 DEF Write
  <1>3. r \in Requests /\ r.m = k
    BY <1>0, <1>1, <1>2 DEF Requests, Types
  <1>4. r.m \notin Stats /\ (r.m \in Units <=> k \in {"small", "done"})
    BY <1>3 DEF Stats, Units
  <1>5. Total(Stats) = 0
    BY <1>0, <1>1 DEF AskInv, Asking
  <1>6. Total(Stats)' = 0
    <2>1. Total(Stats)' = IF r.m \in Stats THEN Total(Stats) + 1 ELSE Total(Stats)
      BY <1>0, <1>1, <1>2, <1>3, TotalWritten
    <2> QED BY <1>4, <1>5, <2>1
  <1>7. AskInv'
    BY <1>1, <1>6 DEF AskInv
  <1>8. Len(deferred) \in Nat /\ (k \in {"small", "done"} => Len(deferred') = Len(deferred) + 1)
    BY <1>0, <1>1 DEF Types
  <1>9. IF r.m \in Units THEN Len(deferred') = Len(deferred) + 1 /\ pc' = "acks" ELSE UNCHANGED deferred
    BY <1>1, <1>4, <1>8
  <1>10. (r.m \in {"data", "done"} => pc = "large") /\ (pc' = "large" => r.m \in {"send", "data"})
    BY <1>1, <1>3
  <1>11. pc # "acks" /\ UNCHANGED <<rep, out, recv, buf>>
    BY <1>1
  <1> QED BY <1>0, <1>2, <1>3, <1>5, <1>7, <1>8, <1>9, <1>10, <1>11, RoomWritten

\* The first part of a reply is read.
LEMMA RoomRead ==
    ASSUME Types, PairInv, RoomInv, rep # <<>>, rep' = Tail(rep), UNCHANGED <<req, out, recv>>, AskInv',
           Head(rep).m = "fail" <=> buf', buf => Head(rep).m = "reason",
           Len(deferred) \in Nat, Len(deferred') \in Nat,
           Len(deferred) = IF Head(rep).m \in Units THEN Len(deferred') + 1 ELSE Len(deferred'),
           Head(rep).m \in Units \/ pc' = pc, pc' # "large"
    PROVE  RoomInv'
  <1>0. BalanceInv /\ LimitInv /\ OrderInv /\ ExpectInv
    BY DEF RoomInv
  <1>1. /\ Len(rep') = Len(rep) - 1 /\ Len(rep) \in Nat /\ 1 \in 1..Len(rep) /\ Head(rep) = rep[1]
        /\ \A i \in 1..Len(rep') : i + 1 \in 1..Len(rep) /\ rep'[i] = rep[i + 1]
    BY DEF Types
  <1>2. Head(rep).m = "reason" => buf
    <2>1. 1 \in 1..Parts /\ Part(1) = Head(rep).m
      BY <1>1 DEF Types, Parts, Part
    <2> QED BY <2>1 DEF PairInv
  <1>3. BalanceInv'
    <2>1. /\ Count(rep, {"fail"}) = IF Head(rep).m = "fail" THEN Count(rep', {"fail"}) + 1 ELSE Count(rep', {"fail"})
          /\ Count(rep', {"fail"}) \in Nat
      BY TotalRead
    <2>2. /\ Count(rep, {"reason"}) = IF Head(rep).m = "reason" THEN Count(rep', {"reason"}) + 1 ELSE Count(rep', {"reason"})
          /\ Count(rep', {"reason"}) \in Nat
      BY TotalRead
    <2>3. Count(out, {"fail"}) \in Nat /\ Count(out, {"reason"}) \in Nat
      BY TotalType
    <2>4. Count(rep, {"fail"}) + Count(out, {"fail"}) + (IF buf THEN 1 ELSE 0)
             = Count(rep, {"reason"}) + Count(out, {"reason"})
      BY <1>0 DEF BalanceInv, Written
    <2>5. Count(rep', {"fail"}) + Count(out, {"fail"}) + (IF buf' THEN 1 ELSE 0)
             = Count(rep', {"reason"}) + Count(out, {"reason"})
      <3>1. CASE Head(rep).m = "fail"
        BY <2>1, <2>2, <2>3, <2>4, <3>1
      <3>2. CASE Head(rep).m = "reason"
        BY <1>2, <2>1, <2>2, <2>3, <2>4, <3>2
      <3>3. CASE Head(rep).m \notin {"fail", "reason"}
        BY <2>1, <2>2, <2>3, <2>4, <3>3
      <3> QED BY <3>1, <3>2, <3>3
    <2> QED BY <2>5 DEF BalanceInv, Written
  <1>4. LimitInv'
    <2>1. /\ Outstanding = IF Head(rep).m \in Units THEN Outstanding' + 1 ELSE Outstanding'
          /\ Count(rep, Units) = IF Head(rep).m \in Units THEN Count(rep', Units) + 1 ELSE Count(rep', Units)
          /\ Count(rep', Units) \in Nat
      BY TotalRead DEF Outstanding
    <2>2. Outstanding \in Nat /\ MaxDeferred \in Nat /\ Count(out, Units) \in Nat
      BY OutstandingType, TotalType, SyncPushAssumption
    <2>3. Outstanding' \in Nat
      <3>1. Count(req, Units) \in Nat
        BY TotalType
      <3> QED BY <2>1, <2>2, <3>1 DEF Outstanding, Total
    <2>4. Written(Units)' <= MaxDeferred
      BY <1>0, <2>1, <2>2 DEF LimitInv, Written
    <2>5. Len(deferred') <= MaxDeferred
      BY <1>0, <2>2 DEF LimitInv
    <2>6. Len(deferred') = MaxDeferred => pc' = "acks" /\ (req' # <<>> => req'[Len(req')].m \in Units)
      BY <1>0, <2>2 DEF LimitInv
    <2>7. ~Unexpected' => Outstanding' <= Len(deferred')
      BY <1>0, <2>1, <2>2, <2>3 DEF LimitInv, Unexpected
    <2> QED BY <2>4, <2>5, <2>6, <2>7 DEF LimitInv
  <1>5. OrderInv'
    <2>1. NoStat(rep) => NoStat(rep')
      BY <1>1 DEF NoStat
    <2> QED BY <1>0, <2>1 DEF OrderInv, NoStat
  <1>6. ExpectInv'
    BY <1>0 DEF ExpectInv, OpenAt
  <1> QED BY <1>3, <1>4, <1>5, <1>6 DEF RoomInv

\* A reply is read.
LEMMA ReadRoom ==
    ASSUME Base, Base', RoomInv, ~closed, UNCHANGED job, FinishStat \/ ReadHeader \/ ReadFailure
    PROVE  RoomInv'
  <1>0. /\ Types /\ TodoInv /\ PairInv /\ Types' /\ AskInv /\ LimitInv /\ Sources' = Sources
    BY DEF Base, RoomInv, Sources
  <1>1. Total(Stats) \in Nat /\ Len(deferred) \in Nat /\ Len(deferred') \in Nat /\ Len(todo) \in Nat
    BY <1>0, TotalType DEF Types
  <1>2. rep # <<>> => /\ Part(1) = Head(rep).m /\ Parts > 0 /\ 1 \in 1..Parts
                      /\ rep[1] = Head(rep) /\ 1 \in 1..Len(rep)
    BY <1>0 DEF Types, Part, Parts
  <1>3. CASE FinishStat /\ UNCHANGED rep
    <2>1. /\ pc = "stats" /\ UNCHANGED <<rep, out, req, recv, deferred, buf, src>>
          /\ \/ todo = <<>> /\ pc' = "send"
             \/ pc' = "fault"
      <3>1. rep # <<>> => Tail(rep) # rep
        <4>1. rep # <<>> => Len(Tail(rep)) = Len(rep) - 1 /\ Len(rep) \in Nat
          BY <1>0 DEF Types
        <4> QED BY <4>1
      <3> QED BY <1>3, <3>1 DEF FinishStat, device
    <2>2. AskInv'
      <3>1. Total(Stats)' = Total(Stats)
        BY <2>1 DEF Total
      <3>2. todo = <<>> => Total(Stats) = 0
        BY <1>0, <1>1, <2>1 DEF AskInv
      <3> QED BY <2>1, <3>1, <3>2 DEF AskInv, Asking
    <2>3. Len(deferred) # MaxDeferred
      BY <1>0, <2>1 DEF LimitInv
    <2> QED BY <2>1, <2>2, <2>3, RoomKept
  <1>4. CASE FinishStat /\ ~UNCHANGED rep
    <2>1. /\ pc = "stats" /\ pc' = "stats" /\ rep # <<>> /\ Head(rep).m \in {"same", "other"}
          /\ rep' = Tail(rep) /\ todo # <<>> /\ todo' = Tail(todo)
          /\ UNCHANGED <<out, req, recv, deferred, buf>>
      BY <1>4 DEF FinishStat, device
    <2>2. Head(rep).m \in Stats /\ Head(rep).m \notin Units
      BY <2>1 DEF Stats, Units
    <2>3. Total(Stats) = Total(Stats)' + 1
      BY <1>0, <2>1, <2>2, TotalRead
    <2>4. Len(todo') = Len(todo) - 1
      BY <1>0, <2>1 DEF Types
    <2>5. Total(Stats)' \in Nat
      <3>1. Count(rep', Stats) \in Nat /\ Count(out, Stats) \in Nat /\ Count(req, Stats) \in Nat
        BY <1>0, <2>1, TotalRead, TotalType
      <3> QED BY <2>1, <3>1 DEF Total
    <2>6. AskInv'
      <3>1. Total(Stats) <= Len(todo)
        BY <1>0, <2>1 DEF AskInv
      <3>2. Total(Stats)' <= Len(todo')
        BY <1>1, <2>3, <2>4, <2>5, <3>1
      <3> QED BY <2>1, <3>2 DEF AskInv, Asking
    <2>7. ~buf /\ ~buf'
      BY <1>0, <1>2, <2>1 DEF PairInv
    <2> QED BY <1>0, <1>1, <2>1, <2>2, <2>6, <2>7, RoomRead
  <1>5. CASE ReadHeader \/ ReadFailure
    <2>1. /\ pc = "acks" /\ pc' \in {"acks", "done", "send", "next"} /\ deferred # <<>> /\ rep # <<>> /\ rep' = Tail(rep)
          /\ UNCHANGED <<req, out, recv>>
      BY <1>5 DEF ReadHeader, ReadFailure, Return, device
    <2>2. /\ Head(rep).m = "fail" <=> buf'
          /\ buf => Head(rep).m = "reason"
          /\ Head(rep).m \in {"okay", "reason"} => deferred' = Tail(deferred)
          /\ Head(rep).m \notin {"okay", "reason"} => UNCHANGED <<deferred, pc>>
      <3>1. CASE ReadHeader
        BY <3>1 DEF ReadHeader, CopyDone
      <3>2. CASE ReadFailure
        <4>1. Head(rep).m = "reason"
          BY <1>0, <1>2, <3>2 DEF ReadFailure, PairInv
        <4> QED BY <3>2, <4>1 DEF ReadFailure, CopyDone
      <3> QED BY <1>5, <3>1, <3>2
    <2>3. Head(rep).m \in {"same", "other", "okay", "fail", "reason"}
      <3>1. Head(rep) \in Replies
        BY <1>0, <2>1, SeqTypes DEF Types
      <3> QED BY <3>1 DEF Replies
    <2>4. Head(rep).m \in Units <=> Head(rep).m \in {"okay", "reason"}
      BY <2>3 DEF Units
    <2>5. Len(deferred) = IF Head(rep).m \in Units THEN Len(deferred') + 1 ELSE Len(deferred')
      <3>1. Len(Tail(deferred)) = Len(deferred) - 1
        BY <1>0, <2>1 DEF Types
      <3> QED BY <1>1, <2>2, <2>4, <3>1
    <2>6. AskInv'
      <3>1. Total(Stats) = 0
        BY <1>0, <2>1 DEF AskInv, Asking
      <3>2. Total(Stats) = IF Head(rep).m \in Stats THEN Total(Stats)' + 1 ELSE Total(Stats)'
        BY <1>0, <2>1, TotalRead
      <3>3. Head(rep).m \notin Stats
        BY <1>0, <1>2, <2>1, <3>1, TotalType
      <3> QED BY <2>1, <3>1, <3>2, <3>3 DEF AskInv
    <2>7. Head(rep).m \in Units \/ pc' = pc
      BY <2>2, <2>4
    <2>8. pc' # "large"
      BY <2>1
    <2> QED BY <1>0, <1>1, <2>1, <2>2, <2>5, <2>6, <2>7, <2>8, RoomRead
  <1> QED BY <1>3, <1>4, <1>5

\* A part of a reply moves into the connection.
LEMMA DeviceWritesRoom ==
    ASSUME Base, Base', RoomInv, ~closed', UNCHANGED job, DeviceWrites
    PROVE  RoomInv'
  <1>0. /\ Types /\ Types' /\ BalanceInv /\ LimitInv /\ AskInv /\ OrderInv /\ ExpectInv /\ Sources' = Sources
    BY DEF Base, RoomInv, Sources
  <1>1. /\ UNCHANGED <<pc, src, todo, deferred, buf, req, recv>> /\ ~(Unexpected /\ Len(out) = 1)
        /\ out # <<>> /\ rep' = Append(rep, Head(out)) /\ out' = Tail(out)
    BY DEF DeviceWrites, client
  <1>2. /\ Len(rep') = Len(rep) + 1 /\ Len(rep) \in Nat /\ rep'[Len(rep) + 1] = out[1]
        /\ \A i \in 1..Len(rep) : rep'[i] = rep[i]
        /\ \A i \in 1..Len(rep') : i \in 1..Len(rep) \/ i = Len(rep) + 1
    BY <1>0, <1>1 DEF Types
  <1>3. /\ Len(out') = Len(out) - 1 /\ Len(out) \in Nat /\ 1 \in 1..Len(out)
        /\ \A i \in 1..Len(out') : i + 1 \in 1..Len(out) /\ out'[i] = out[i + 1]
    BY <1>0, <1>1 DEF Types
  <1>4. \A K : Total(K)' = Total(K) /\ Written(K)' = Written(K)
    BY <1>0, <1>1, TotalMoved DEF Written
  <1>5. BalanceInv'
    <2>1. Written({"fail"})' = Written({"fail"}) /\ Written({"reason"})' = Written({"reason"})
      BY <1>4
    <2> QED BY <1>0, <1>1, <2>1 DEF BalanceInv
  <1>6. LimitInv'
    <2>1. Written(Units)' = Written(Units) /\ Outstanding' = Outstanding
      BY <1>4 DEF Outstanding
    <2>2. Unexpected => Unexpected'
      <3>1. Unexpected => Len(out') > 0
        BY <1>1, <1>3
      <3>2. Len(out') > 0 => out' # <<>>
        OBVIOUS
      <3> QED BY <1>1, <3>1, <3>2 DEF Unexpected
    <2> QED BY <1>0, <1>1, <2>1, <2>2 DEF LimitInv
  <1>7. AskInv'
    <2>1. Total(Stats)' = Total(Stats) /\ List' = List
      BY <1>0, <1>1, <1>4 DEF List
    <2> QED BY <1>0, <1>1, <2>1 DEF AskInv, Asking
  <1>8. OrderInv'
    <2>1. Len(out') <= 2 /\ Len(out') # 2
      BY <1>0, <1>3 DEF OrderInv
    <2>2. NoStat(rep) /\ NoStat(out) => NoStat(rep') /\ NoStat(out')
      BY <1>2, <1>3 DEF NoStat
    <2>3. (\E i \in 1..Len(out') : out'[i].m \notin Stats) => NoStat(rep')
      <3> SUFFICES ASSUME NEW i \in 1..Len(out'), out'[i].m \notin Stats PROVE NoStat(rep')
        OBVIOUS
      <3>1. Len(out) = 2
        BY <1>0, <1>3 DEF OrderInv
      <3>2. out[1].m \notin Stats
        BY <1>0, <3>1 DEF OrderInv, Stats
      <3>3. NoStat(rep)
        BY <1>0, <1>3, <3>2 DEF OrderInv
      <3> QED BY <1>2, <3>2, <3>3 DEF NoStat
    <2> QED BY <1>0, <1>1, <2>1, <2>2, <2>3 DEF OrderInv, NoStat
  <1>9. ExpectInv'
    BY <1>0, <1>1 DEF ExpectInv, OpenAt
  <1> QED BY <1>5, <1>6, <1>7, <1>8, <1>9 DEF RoomInv

\* What a new reply of the device adds to the counts.
LEMMA AnswerCounts ==
    ASSUME NEW f \in Files, NEW s
    PROVE  /\ s = <<>> => /\ Len(s) = 0 /\ Count(s, {"fail"}) = 0 /\ Count(s, {"reason"}) = 0
                          /\ Count(s, Units) = 0 /\ Count(s, Stats) = 0
           /\ (\E k \in {"same", "other"} : s = <<[m |-> k, f |-> f]>>) =>
                 /\ Len(s) = 1 /\ s[1].m \in Stats
                 /\ Count(s, {"fail"}) = 0 /\ Count(s, {"reason"}) = 0
                 /\ Count(s, Units) = 0 /\ Count(s, Stats) = 1
           /\ s = <<[m |-> "okay", f |-> f]>> =>
                 /\ Len(s) = 1 /\ s[1].m \notin Stats
                 /\ Count(s, {"fail"}) = 0 /\ Count(s, {"reason"}) = 0
                 /\ Count(s, Units) = 1 /\ Count(s, Stats) = 0
           /\ s = Failure(f) =>
                 /\ Len(s) = 2 /\ s[1].m = "fail" /\ s[2].m = "reason"
                 /\ Count(s, {"fail"}) = 1 /\ Count(s, {"reason"}) = 1
                 /\ Count(s, Units) = 1 /\ Count(s, Stats) = 0
  <1>0. /\ "okay" \in Units /\ "reason" \in Units /\ "fail" \notin Units /\ "same" \notin Units /\ "other" \notin Units
        /\ "okay" \notin Stats /\ "reason" \notin Stats /\ "fail" \notin Stats /\ "same" \in Stats /\ "other" \in Stats
    BY DEF Units, Stats
  <1>1. ASSUME NEW K
        PROVE  /\ Count(<<>>, K) = 0
               /\ \A k \in {"same", "other", "okay"} :
                     Count(<<[m |-> k, f |-> f]>>, K) = IF k \in K THEN 1 ELSE 0
               /\ Count(Failure(f), K) = (IF "fail" \in K THEN 1 ELSE 0) + (IF "reason" \in K THEN 1 ELSE 0)
    BY CountReply
  <1>2. ASSUME s = <<>>
        PROVE  /\ Len(s) = 0 /\ Count(s, {"fail"}) = 0 /\ Count(s, {"reason"}) = 0
               /\ Count(s, Units) = 0 /\ Count(s, Stats) = 0
    BY <1>1, <1>2
  <1>3. ASSUME NEW k \in {"same", "other", "okay"}, s = <<[m |-> k, f |-> f]>>
        PROVE  /\ Len(s) = 1 /\ s[1].m = k
               /\ \A K : Count(s, K) = IF k \in K THEN 1 ELSE 0
    <2>1. Len(s) = 1 /\ s[1].m = k
      BY <1>3
    <2>2. \A K : Count(<<[m |-> k, f |-> f]>>, K) = IF k \in K THEN 1 ELSE 0
      BY <1>1
    <2> QED BY <1>3, <2>1, <2>2, Zenon
  <1>4. ASSUME s = Failure(f)
        PROVE  /\ Len(s) = 2 /\ s[1].m = "fail" /\ s[2].m = "reason"
               /\ \A K : Count(s, K) = (IF "fail" \in K THEN 1 ELSE 0) + (IF "reason" \in K THEN 1 ELSE 0)
    <2>1. Len(s) = 2 /\ s[1].m = "fail" /\ s[2].m = "reason"
      BY <1>4 DEF Failure
    <2>2. \A K : Count(Failure(f), K) = (IF "fail" \in K THEN 1 ELSE 0) + (IF "reason" \in K THEN 1 ELSE 0)
      BY <1>1
    <2> QED BY <1>4, <2>1, <2>2, Zenon
  <1>5. ASSUME NEW k \in {"same", "other"}, s = <<[m |-> k, f |-> f]>>
        PROVE  /\ Len(s) = 1 /\ s[1].m \in Stats
               /\ Count(s, {"fail"}) = 0 /\ Count(s, {"reason"}) = 0
               /\ Count(s, Units) = 0 /\ Count(s, Stats) = 1
    <2>1. Len(s) = 1 /\ s[1].m = k /\ \A K : Count(s, K) = IF k \in K THEN 1 ELSE 0
      BY <1>3, <1>5
    <2> QED BY <1>0, <2>1
  <1>6. ASSUME s = <<[m |-> "okay", f |-> f]>>
        PROVE  /\ Len(s) = 1 /\ s[1].m \notin Stats
               /\ Count(s, {"fail"}) = 0 /\ Count(s, {"reason"}) = 0
               /\ Count(s, Units) = 1 /\ Count(s, Stats) = 0
    <2>1. Len(s) = 1 /\ s[1].m = "okay" /\ \A K : Count(s, K) = IF "okay" \in K THEN 1 ELSE 0
      BY <1>3, <1>6
    <2> QED BY <1>0, <2>1
  <1>7. ASSUME s = Failure(f)
        PROVE  /\ Len(s) = 2 /\ s[1].m = "fail" /\ s[2].m = "reason"
               /\ Count(s, {"fail"}) = 1 /\ Count(s, {"reason"}) = 1
               /\ Count(s, Units) = 1 /\ Count(s, Stats) = 0
    <2>1. /\ Len(s) = 2 /\ s[1].m = "fail" /\ s[2].m = "reason"
          /\ \A K : Count(s, K) = (IF "fail" \in K THEN 1 ELSE 0) + (IF "reason" \in K THEN 1 ELSE 0)
      BY <1>4, <1>7
    <2> QED BY <1>0, <2>1
  <1> QED BY <1>2, <1>5, <1>6, <1>7, Zenon

\* What reading the request r does to the counts; a refused one is answered by
\* a failure that stands for no file.
LEMMA ServedCounts ==
    ASSUME Types, OrderInv, ExpectInv, out = <<>>, req # <<>>, NEW r, r = Head(req),
           GivesStat(r) \/ TakesSmall(r) \/ Begins(r) \/ TakesData(r) \/ Ends(r) \/ Refuses(r)
    PROVE  /\ Count(out', {"fail"}) = Count(out', {"reason"}) /\ Count(out', {"reason"}) \in {0, 1}
           /\ Len(out') <= 2 /\ (Len(out') = 2 => out'[1].m = "fail" /\ out'[2].m = "reason")
           /\ IF Refuses(r) THEN Count(out', Units) = 1 /\ out' # <<>> /\ recv' # {}
                            ELSE Count(out', Units) = IF r.m \in Units THEN 1 ELSE 0
           /\ Count(out', Stats) = IF r.m \in Stats /\ recv = {} THEN 1 ELSE 0
           /\ (\E i \in 1..Len(out') : out'[i].m \notin Stats) => NoStat(rep) /\ NoStat(out')
           /\ r.m \notin Stats => NoStat(out')
           /\ r.m \in {"send", "data"} => recv' # {}
           /\ recv' # {} => NoStat(rep) /\ NoStat(out')
  <1>1. r \in Requests /\ r = req[1] /\ 1 \in 1..Len(req)
    BY SeqTypes DEF Types
  <1>2. r.f \in Files /\ r.m \in {"lstat", "small", "send", "data", "done"}
    BY <1>1 DEF Requests
  <1>3. r.m \in {"data", "done"} => recv # {}
    <2>1. r.m \in {"data", "done"} => OpenAt(1 - 1)
      BY <1>1 DEF ExpectInv
    <2> QED BY <2>1 DEF OpenAt
  <1>4. r.m \notin Stats \/ recv # {} => NoStat(rep)
    BY <1>1 DEF OrderInv
  <1>5. (r.m \in Stats <=> r.m = "lstat") /\ (r.m \in Units <=> r.m \in {"small", "done"})
    BY <1>2 DEF Stats, Units
  <1>6. CASE GivesStat(r)
    <2>1. /\ Len(out') = 1 /\ out'[1].m \in Stats
          /\ Count(out', {"fail"}) = 0 /\ Count(out', {"reason"}) = 0
          /\ Count(out', Units) = 0 /\ Count(out', Stats) = 1
      <3>1. PICK k \in {"same", "other"} : out' = <<[m |-> k, f |-> r.f]>>
        BY <1>6 DEF GivesStat
      <3>2. PICK g \in Files : g = r.f
        BY <1>2
      <3>3. \E k2 \in {"same", "other"} : out' = <<[m |-> k2, f |-> g]>>
        BY <3>1, <3>2
      <3> QED BY <3>3, AnswerCounts
    <2>2. r.m = "lstat" /\ recv = {} /\ recv' = {}
      BY <1>6 DEF GivesStat
    <2>3. ~Refuses(r)
      BY <2>2 DEF Refuses
    <2> QED BY <1>5, <2>1, <2>2, <2>3 DEF NoStat
  <1>7. CASE Begins(r) \/ TakesData(r)
    <2>1. out' = <<>> /\ r.m \in {"send", "data"} /\ recv' # {} /\ (r.m = "send" => recv = {})
      BY <1>7 DEF Begins, TakesData
    <2>2. /\ Len(out') = 0 /\ Count(out', {"fail"}) = 0 /\ Count(out', {"reason"}) = 0
          /\ Count(out', Units) = 0 /\ Count(out', Stats) = 0
      BY <1>2, <2>1, AnswerCounts
    <2>3. ~Refuses(r)
      BY <1>7 DEF Refuses, Begins, TakesData
    <2> QED BY <1>2, <1>4, <1>5, <2>1, <2>2, <2>3 DEF NoStat
  <1>8. CASE TakesSmall(r) \/ Ends(r)
    <2>1. r.m \in {"small", "done"} /\ recv' = {} /\ ~Refuses(r)
      BY <1>8 DEF TakesSmall, Ends, Answers, Refuses
    <2>2. out' = <<[m |-> "okay", f |-> r.f]>> \/ out' = Failure(r.f)
      BY <1>8 DEF TakesSmall, Ends, Answers
    <2>3. /\ Count(out', {"fail"}) = Count(out', {"reason"}) /\ Count(out', {"reason"}) \in {0, 1}
          /\ Len(out') <= 2 /\ (Len(out') = 2 => out'[1].m = "fail" /\ out'[2].m = "reason")
          /\ Count(out', Units) = 1 /\ Count(out', Stats) = 0 /\ NoStat(out')
      <3>1. CASE out' = <<[m |-> "okay", f |-> r.f]>>
        <4>1. /\ Len(out') = 1 /\ out'[1].m \notin Stats
              /\ Count(out', {"fail"}) = 0 /\ Count(out', {"reason"}) = 0
              /\ Count(out', Units) = 1 /\ Count(out', Stats) = 0
          BY <1>2, <3>1, AnswerCounts, Zenon
        <4> QED BY <4>1 DEF NoStat
      <3>2. CASE out' = Failure(r.f)
        <4>1. /\ Len(out') = 2 /\ out'[1].m = "fail" /\ out'[2].m = "reason"
              /\ Count(out', {"fail"}) = 1 /\ Count(out', {"reason"}) = 1
              /\ Count(out', Units) = 1 /\ Count(out', Stats) = 0
          BY <1>2, <3>2, AnswerCounts, Zenon
        <4> QED BY <4>1 DEF NoStat, Stats
      <3> QED BY <2>2, <3>1, <3>2
    <2> QED BY <1>4, <1>5, <2>1, <2>3
  <1>9. CASE Refuses(r)
    <2>1. recv # {} /\ recv' = recv
      BY <1>2, <1>3, <1>9 DEF Refuses
    <2>2. PICK f \in Files : out' = Failure(f)
      BY <1>9, <2>1 DEF Refuses, Types
    <2>3. /\ Len(out') = 2 /\ out'[1].m = "fail" /\ out'[2].m = "reason"
          /\ Count(out', {"fail"}) = 1 /\ Count(out', {"reason"}) = 1
          /\ Count(out', Units) = 1 /\ Count(out', Stats) = 0
      BY <2>2, AnswerCounts, Zenon
    <2>4. NoStat(out')
      BY <2>3 DEF NoStat, Stats
    <2>5. out' # <<>>
      BY <2>3
    <2> QED BY <1>4, <1>9, <2>1, <2>3, <2>4, <2>5
  <1> QED BY <1>6, <1>7, <1>8, <1>9

\* The device takes a request.
LEMMA DeviceReadsRoom ==
    ASSUME Base, Base', RoomInv, UNCHANGED job, DeviceReads
    PROVE  RoomInv'
  <1>0. /\ Types /\ Types' /\ BalanceInv /\ LimitInv /\ AskInv /\ OrderInv /\ ExpectInv /\ Sources' = Sources
    BY DEF Base, RoomInv, Sources
  <1>1. PICK r : r = Head(req)
    OBVIOUS
  <1>2. /\ out = <<>> /\ req # <<>> /\ req' = Tail(req) /\ UNCHANGED rep
        /\ UNCHANGED <<pc, src, todo, deferred, buf>>
        /\ GivesStat(r) \/ TakesSmall(r) \/ Begins(r) \/ TakesData(r) \/ Ends(r) \/ Refuses(r)
    BY <1>1, DeviceReading DEF client
  <1>3. /\ Len(req') = Len(req) - 1 /\ Len(req) \in Nat /\ 1 \in 1..Len(req) /\ r = req[1]
        /\ \A i \in 1..Len(req') : i + 1 \in 1..Len(req) /\ req'[i] = req[i + 1]
        /\ Len(out) = 0
    BY <1>0, <1>1, <1>2 DEF Types
  <1>4. /\ Count(out', {"fail"}) = Count(out', {"reason"}) /\ Count(out', {"reason"}) \in {0, 1}
        /\ Len(out') <= 2 /\ (Len(out') = 2 => out'[1].m = "fail" /\ out'[2].m = "reason")
        /\ IF Refuses(r) THEN Count(out', Units) = 1 /\ out' # <<>> /\ recv' # {}
                         ELSE Count(out', Units) = IF r.m \in Units THEN 1 ELSE 0
        /\ Count(out', Stats) = IF r.m \in Stats /\ recv = {} THEN 1 ELSE 0
        /\ (\E i \in 1..Len(out') : out'[i].m \notin Stats) => NoStat(rep) /\ NoStat(out')
        /\ r.m \notin Stats => NoStat(out')
        /\ r.m \in {"send", "data"} => recv' # {}
        /\ recv' # {} => NoStat(rep) /\ NoStat(out')
    BY <1>0, <1>1, <1>2, ServedCounts
  <1>5. ASSUME NEW K
        PROVE  /\ Count(out, K) = 0 /\ Count(rep, K) \in Nat /\ Count(req, K) \in Nat /\ Count(req', K) \in Nat
               /\ Count(req, K) = IF r.m \in K THEN Count(req', K) + 1 ELSE Count(req', K)
    <2>1. Count(req, K) = IF r.m \in K THEN Count(req', K) + 1 ELSE Count(req', K)
      BY <1>0, <1>1, <1>2, CountTail DEF Types
    <2>2. Count(req', K) \in Nat
      BY <1>0, CountType DEF Types
    <2>3. Count(out, K) = 0
      <3>1. out \in Seq(Replies) /\ \A i \in DOMAIN out : out[i].m \notin K
        BY <1>0, <1>2 DEF Types
      <3> QED BY <3>1, CountType
    <2> QED BY <1>0, <2>1, <2>2, <2>3, TotalType
  <1>6. BalanceInv'
    <2>1. /\ Count(out, {"fail"}) = 0 /\ Count(out, {"reason"}) = 0
          /\ Count(rep, {"fail"}) \in Nat /\ Count(rep, {"reason"}) \in Nat
      BY <1>5
    <2>2. Count(rep, {"fail"}) + (IF buf THEN 1 ELSE 0) = Count(rep, {"reason"})
      BY <1>0, <2>1 DEF BalanceInv, Written
    <2>3. Count(rep, {"fail"}) + Count(out', {"fail"}) + (IF buf THEN 1 ELSE 0)
             = Count(rep, {"reason"}) + Count(out', {"reason"})
      BY <1>4, <2>1, <2>2
    <2> QED BY <1>2, <2>3 DEF BalanceInv, Written
  <1>7. LimitInv'
    <2>0. /\ Count(out, Units) = 0 /\ Count(rep, Units) \in Nat /\ Count(req, Units) \in Nat /\ Count(req', Units) \in Nat
          /\ Count(req, Units) = IF r.m \in Units THEN Count(req', Units) + 1 ELSE Count(req', Units)
          /\ MaxDeferred \in Nat /\ Len(deferred) \in Nat
      BY <1>0, <1>5, SyncPushAssumption DEF Types
    <2>1. ~Unexpected /\ Count(rep, Units) + Count(req, Units) <= Len(deferred) /\ Len(deferred) <= MaxDeferred
      BY <1>0, <1>2, <2>0 DEF LimitInv, Unexpected, Outstanding, Total
    <2>2. Len(deferred) = MaxDeferred => pc = "acks" /\ req[Len(req)].m \in Units
      BY <1>0, <1>2 DEF LimitInv
    <2>3. Len(deferred) = MaxDeferred => Count(req, Units) > 0
      <3>1. (\A i \in DOMAIN req : req[i].m \notin Units) <=> Count(req, Units) = 0
        BY <1>0, CountType DEF Types
      <3>2. Len(req) \in DOMAIN req
        BY <1>0, <1>3 DEF Types
      <3> QED BY <2>0, <2>2, <3>1, <3>2
    <2>4. Written(Units)' <= MaxDeferred
      <3>1. Count(rep, Units) + Count(out', Units) <= MaxDeferred
        <4>1. CASE Refuses(r)
          BY <1>4, <2>0, <2>1, <2>3, <4>1
        <4>2. CASE ~Refuses(r)
          BY <1>4, <2>0, <2>1, <4>2
        <4> QED BY <4>1, <4>2
      <3> QED BY <1>2, <3>1 DEF Written
    <2>5. Len(deferred) = MaxDeferred => pc = "acks" /\ (req' # <<>> => req'[Len(req')].m \in Units)
      <3>1. req' # <<>> => Len(req') \in 1..Len(req') /\ Len(req') + 1 = Len(req)
        BY <1>0, <1>3 DEF Types
      <3> QED BY <1>3, <2>2, <3>1
    <2>6. ~Unexpected' => Outstanding' <= Len(deferred)
      <3>1. CASE Refuses(r)
        BY <1>4, <3>1 DEF Unexpected
      <3>2. CASE ~Refuses(r)
        <4>1. Count(rep, Units) + Count(out', Units) + Count(req', Units) <= Len(deferred)
          BY <1>4, <2>0, <2>1, <3>2
        <4> QED BY <1>2, <4>1 DEF Outstanding, Total
      <3> QED BY <3>1, <3>2
    <2> QED BY <1>2, <2>1, <2>4, <2>5, <2>6 DEF LimitInv
  <1>8. AskInv'
    <2>0. /\ Count(out, Stats) = 0 /\ Count(rep, Stats) \in Nat /\ Count(req, Stats) \in Nat /\ Count(req', Stats) \in Nat
          /\ Count(req, Stats) = IF r.m \in Stats THEN Count(req', Stats) + 1 ELSE Count(req', Stats)
      BY <1>5
    <2>1. Total(Stats) = Count(rep, Stats) + Count(req, Stats)
      BY <2>0 DEF Total
    <2>2. Total(Stats)' = Count(rep, Stats) + Count(out', Stats) + Count(req', Stats)
      BY <1>2 DEF Total
    <2>3. Total(Stats)' <= Total(Stats) /\ Total(Stats)' \in Nat /\ Total(Stats) \in Nat
      BY <1>4, <2>0, <2>1, <2>2
    <2>4. List' = List
      BY <1>0, <1>2 DEF List
    <2>5. pc = "ask" => Total(Stats)' <= Len(List) - Len(todo)
      <3>1. pc = "ask" => Len(List) \in Nat /\ Len(todo) \in Nat
        BY <1>0, ListTypes DEF Base, TodoInv, Inside, Types
      <3> QED BY <1>0, <2>3, <3>1 DEF AskInv
    <2>6. pc = "stats" => Total(Stats)' <= Len(todo)
      <3>1. Len(todo) \in Nat
        BY <1>0 DEF Types
      <3> QED BY <1>0, <2>3, <3>1 DEF AskInv
    <2>7. Total(Stats) = 0 => Total(Stats)' = 0
      BY <2>3
    <2> QED BY <1>0, <1>2, <2>4, <2>5, <2>6, <2>7 DEF AskInv, Asking
  <1>9. OrderInv'
    <2>1. \A i, j \in 1..Len(req') : i < j /\ req'[i].m \in Stats => req'[j].m \in Stats
      <3> SUFFICES ASSUME NEW i \in 1..Len(req'), NEW j \in 1..Len(req'), i < j, req'[i].m \in Stats
                   PROVE  req'[j].m \in Stats
        OBVIOUS
      <3>1. i + 1 \in 1..Len(req) /\ j + 1 \in 1..Len(req) /\ i + 1 < j + 1
        BY <1>3
      <3> QED BY <1>0, <1>3, <3>1 DEF OrderInv
    <2>2. (\E i \in 1..Len(req') : req'[i].m \notin Stats) => NoStat(rep) /\ NoStat(out')
      <3> SUFFICES ASSUME NEW i \in 1..Len(req'), req'[i].m \notin Stats PROVE NoStat(rep) /\ NoStat(out')
        OBVIOUS
      <3>1. i + 1 \in 1..Len(req) /\ req[i + 1].m \notin Stats /\ 1 < i + 1
        BY <1>3
      <3>2. r.m \notin Stats
        BY <1>0, <1>3, <3>1 DEF OrderInv
      <3>3. NoStat(rep)
        BY <1>0, <3>1 DEF OrderInv
      <3> QED BY <1>4, <3>2, <3>3
    <2> HIDE DEF NoStat
    <2>3. NoStat(rep)' <=> NoStat(rep)
      BY <1>2 DEF NoStat
    <2>4. NoStat(out)' <=> NoStat(out')
      BY DEF NoStat
    <2> QED BY <1>4, <2>1, <2>2, <2>3, <2>4 DEF OrderInv
  <1>10. ExpectInv'
    <2>1. ASSUME NEW i \in 0..Len(req'), OpenAt(i + 1) PROVE OpenAt(i)'
      <3>1. CASE i = 0
        BY <1>3, <1>4, <2>1, <3>1 DEF OpenAt
      <3>2. CASE i # 0
        <4>1. i + 1 # 0 /\ req'[i] = req[i + 1]
          BY <1>3, <3>2
        <4> QED BY <2>1, <3>2, <4>1 DEF OpenAt
      <3> QED BY <3>1, <3>2
    <2>2. ASSUME NEW i \in 1..Len(req'), req'[i].m \in {"data", "done"} PROVE OpenAt(i - 1)'
      <3>1. PICK j \in 0..Len(req') : j = i - 1 /\ j + 1 = i
        BY <1>3
      <3>2. i + 1 \in 1..Len(req) /\ req[i + 1].m \in {"data", "done"} /\ (i + 1) - 1 = i
        BY <1>3, <2>2
      <3>3. OpenAt((i + 1) - 1)
        BY <1>0, <3>2 DEF ExpectInv
      <3>4. OpenAt(j + 1)
        BY <3>1, <3>2, <3>3
      <3>5. OpenAt(j)'
        BY <2>1, <3>4
      <3> QED BY <3>1, <3>5
    <2>3. PICK n \in 0..Len(req') : n = Len(req') /\ n + 1 = Len(req)
      BY <1>3
    <2>4. pc = "large" => OpenAt(n)'
      <3>1. pc = "large" => OpenAt(n + 1)
        BY <1>0, <2>3 DEF ExpectInv
      <3> QED BY <2>1, <3>1
    <2> HIDE DEF OpenAt
    <2> QED BY <1>2, <2>2, <2>3, <2>4 DEF ExpectInv
  <1> QED BY <1>6, <1>7, <1>8, <1>9, <1>10 DEF RoomInv

LEMMA OpenInductive ==
    ASSUME OpenInv, [Next]_vars
    PROVE  OpenInv'
  <1>1. Base /\ Base'
    BY BaseInductive DEF OpenInv
  <1>2. closed => closed'
    BY DEF Next, vars, Client, Device, NextSource, SourceFails, SourcesEnd, AskStat, AskFails, FinishStat, SkipFile,
         FilesEnd, LocalFails, SendSmallFile, SendRequest, SendData, SendDone, LargeFails, AllRead, TryLater,
         ReadHeader, ReadFailure, ReadError, DeviceReads, DeviceWrites, DeviceCloses
  <1> SUFFICES ASSUME ~closed' PROVE RoomInv'
    BY <1>1 DEF OpenInv
  <1>3. RoomInv /\ ~closed
    BY <1>2 DEF OpenInv
  <1>4. CASE UNCHANGED vars
    <2>1. UNCHANGED <<rep, out, req, recv, deferred, buf, pc, src, todo, job>>
      BY <1>4 DEF vars
    <2>2. AskInv'
      BY <1>3, <2>1 DEF RoomInv, AskInv, Asking, Total, List, Sources
    <2>3. Len(deferred) = MaxDeferred => pc' = "acks"
      BY <1>3, <2>1 DEF RoomInv, LimitInv
    <2> QED BY <1>3, <2>1, <2>2, <2>3, RoomKept
  <1>5. CASE Client
    <2>1. UNCHANGED job /\ ~AskFails
      BY <1>3, <1>5 DEF Client, AskFails, WriteFails
    <2> QED BY <1>1, <1>3, <1>5, <2>1, LocalRoom, AskRoom, SendRoom, ReadRoom DEF Client
  <1>6. CASE SendData /\ UNCHANGED job
    BY <1>1, <1>3, <1>6, SendRoom
  <1>7. CASE (DeviceReads \/ DeviceWrites \/ DeviceCloses) /\ UNCHANGED job
    <2>1. ~DeviceCloses
      BY DEF DeviceCloses
    <2> QED BY <1>1, <1>3, <1>7, <2>1, DeviceReadsRoom, DeviceWritesRoom
  <1> QED BY <1>4, <1>5, <1>6, <1>7 DEF Next, Device

LEMMA OpenInit ==
    ASSUME Init
    PROVE  OpenInv
  <1>1. Base
    BY BaseInit
  <1>2. /\ rep = <<>> /\ out = <<>> /\ req = <<>> /\ recv = {} /\ deferred = <<>> /\ ~buf
        /\ pc = "next" /\ ~Asking
    BY DEF Init, Asking
  <1>3. Len(rep) = 0 /\ Len(out) = 0 /\ Len(req) = 0 /\ Len(deferred) = 0
    BY <1>2
  <1>4. \A K : Count(rep, K) = 0 /\ Count(out, K) = 0 /\ Count(req, K) = 0
    <2> SUFFICES ASSUME NEW K PROVE Count(<<>>, K) = 0
      BY <1>2
    <2>1. <<>> \in Seq(Replies) /\ \A i \in DOMAIN <<>> : <<>>[i].m \notin K
      OBVIOUS
    <2> QED BY <2>1, CountType
  <1>5. BalanceInv
    BY <1>2, <1>4 DEF BalanceInv, Written
  <1>6. LimitInv
    <2>1. Written(Units) = 0 /\ Outstanding = 0
      BY <1>4 DEF Written, Outstanding, Total
    <2> QED BY <1>3, <2>1, SyncPushAssumption DEF LimitInv
  <1>7. AskInv
    BY <1>2, <1>4 DEF AskInv, Total
  <1>8. OrderInv /\ ExpectInv
    BY <1>2, <1>3 DEF OrderInv, NoStat, ExpectInv
  <1> QED BY <1>1, <1>5, <1>6, <1>7, <1>8 DEF OpenInv, RoomInv

\* Two kinds that make up a queue make up its length.
LEMMA CountAll ==
    ASSUME NEW M, NEW s \in Seq(M), NEW K, NEW L, K \cap L = {}, \A i \in 1..Len(s) : s[i].m \in K \cup L
    PROVE  Len(s) = Count(s, K) + Count(s, L)
  <1> DEFINE I == {i \in DOMAIN s : s[i].m \in K}
             J == {i \in DOMAIN s : s[i].m \in L}
  <1>1. IsFiniteSet(I) /\ IsFiniteSet(J)
    BY CountType
  <1>2. I \cup J = 1..Len(s) /\ I \cap J = {} /\ Len(s) \in Nat
    OBVIOUS
  <1>3. Count(s, K) = Cardinality(I) /\ Count(s, L) = Cardinality(J)
    BY DEF Count
  <1>4. Cardinality(I) \in Nat /\ Cardinality(J) \in Nat
    BY <1>3, CountType
  <1> HIDE DEF I, J
  <1>5. Cardinality(I \cup J) = Cardinality(I) + Cardinality(J) - Cardinality(I \cap J)
    BY <1>1, FS_Union
  <1>6. Cardinality(I \cap J) = 0
    BY <1>2, FS_EmptySet
  <1>7. Cardinality(1..Len(s)) = Len(s)
    <2>1. PICK n \in Nat : n = Len(s)
      BY <1>2
    <2>2. Cardinality(1..n) = IF 1 > n THEN 0 ELSE n - 1 + 1
      BY FS_Interval
    <2> QED BY <2>1, <2>2
  <1>8. Cardinality(I \cup J) = Len(s)
    BY <1>2, <1>7
  <1> QED BY <1>3, <1>4, <1>5, <1>6, <1>8

\* More kinds count more.
LEMMA CountSubset ==
    ASSUME NEW M, NEW s \in Seq(M), NEW K, NEW L, K \subseteq L
    PROVE  Count(s, K) <= Count(s, L)
  <1> DEFINE I == {i \in DOMAIN s : s[i].m \in K}
             J == {i \in DOMAIN s : s[i].m \in L}
  <1>1. IsFiniteSet(J) /\ I \subseteq J
    BY CountType
  <1>2. Cardinality(I) <= Cardinality(J)
    <2> HIDE DEF I, J
    <2> QED BY <1>1, FS_Subset
  <1> QED BY <1>2 DEF Count

\* A queue of one.
LEMMA TailOfOne ==
    ASSUME NEW M, NEW s \in Seq(M), Len(s) = 1
    PROVE  s # <<>> /\ Head(s) = s[1] /\ Tail(s) = <<>>
  <1>1. s # <<>>
    <2>1. Len(<<>>) = 0
      BY EmptySeq
    <2>2. 0 # 1
      OBVIOUS
    <2> QED BY <2>1, <2>2, Zenon
  <1>2. Tail(s) \in Seq(M) /\ Len(Tail(s)) = 0
    BY <1>1, HeadTailProperties
  <1>3. Tail(s) # <<>> => Len(Tail(s)) \in Nat \ {0}
    BY <1>2, EmptySeq
  <1>4. Head(s) = s[1]
    BY <1>1
  <1> QED BY <1>1, <1>2, <1>3, <1>4

\* Every file outstanding has at most two parts of a reply on its way, and the
\* one whose reply is being written is not all in the queue.
LEMMA OpenImplies ==
    ASSUME OpenInv
    PROVE  ReplyFits
  <1> SUFFICES ASSUME ~closed, out # <<>>, Head(out).m \in {"okay", "fail", "reason"}
               PROVE  Len(rep) < ReplyRoom
    BY DEF ReplyFits
  <1>0. Types /\ PairInv /\ BalanceInv /\ LimitInv /\ OrderInv
    BY DEF OpenInv, Base, RoomInv
  <1>1. /\ Len(out) \in Nat /\ Len(out) > 0 /\ 1 \in 1..Len(out) /\ Head(out) = out[1]
        /\ Tail(out) \in Seq(Replies) /\ Len(Tail(out)) = Len(out) - 1
        /\ Len(rep) \in Nat
    BY <1>0 DEF Types
  <1>12. Len(out) = 1 => Tail(out) = <<>>
    BY <1>0, TailOfOne DEF Types
  <1>13. ASSUME Len(out) = 2
         PROVE  Tail(out) # <<>> /\ Head(Tail(out)) = out[2] /\ Tail(Tail(out)) = <<>>
    <2>1. Len(Tail(out)) = 1 /\ Tail(out)[1] = out[2]
      <3>1. out \in Seq(Replies)
        BY <1>0 DEF Types
      <3>2. Len(Tail(out)) = 1
        BY <1>1, <1>13
      <3>3. \A i \in 1..Len(Tail(out)) : Tail(out)[i] = out[i + 1]
        BY <3>1, HeadTailProperties
      <3>4. Tail(out)[1] = out[1 + 1]
        BY <3>2, <3>3
      <3> QED BY <3>2, <3>4
    <2>2. PICK u \in Seq(Replies) : u = Tail(out)
      BY <1>1
    <2>3. Len(u) = 1 /\ u # <<>> /\ Head(u) = u[1] /\ Tail(u) = <<>>
      BY <2>1, <2>2, TailOfOne
    <2> QED BY <2>1, <2>2, <2>3, Zenon
  <1>2. NoStat(rep)
    BY <1>0, <1>1 DEF OrderInv, Stats
  <1>3. Len(rep) = Count(rep, Units) + Count(rep, {"fail"})
    <2>1. Units \cap {"fail"} = {}
      BY DEF Units
    <2>2. \A i \in 1..Len(rep) : rep[i].m \in Units \cup {"fail"}
      <3> SUFFICES ASSUME NEW i \in 1..Len(rep) PROVE rep[i].m \in Units \cup {"fail"}
        OBVIOUS
      <3>1. rep[i] \in Replies /\ rep[i].m \notin Stats
        BY <1>0, <1>2 DEF Types, NoStat
      <3> QED BY <3>1 DEF Replies, Stats, Units
    <2> QED BY <1>0, <2>1, <2>2, CountAll DEF Types
  <1>4. Count(rep, {"reason"}) <= Count(rep, Units)
    <2>1. {"reason"} \subseteq Units
      BY DEF Units
    <2> QED BY <1>0, <2>1, CountSubset DEF Types
  <1>5. /\ Count(rep, Units) \in Nat /\ Count(rep, {"fail"}) \in Nat /\ Count(rep, {"reason"}) \in Nat
    BY <1>0, TotalType
  <1>6. \A K : Count(<<>>, K) = 0
    <2> SUFFICES ASSUME NEW K PROVE Count(<<>>, K) = 0
      OBVIOUS
    <2>1. <<>> \in Seq(Replies) /\ \A i \in DOMAIN <<>> : <<>>[i].m \notin K
      OBVIOUS
    <2> QED BY <2>1, CountType
  <1>7. ASSUME NEW K
        PROVE  Count(out, K) = IF Head(out).m \in K THEN Count(Tail(out), K) + 1 ELSE Count(Tail(out), K)
    BY <1>0, CountTail DEF Types
  <1>8. Head(out).m = "fail" => Len(out) = 2
    <2> SUFFICES ASSUME Head(out).m = "fail", Len(out) # 2 PROVE FALSE
      OBVIOUS
    <2>1. Len(out) = 1
      BY <1>0, <1>1 DEF OrderInv
    <2>2. PICK k \in Nat : k = Len(rep) + 1 /\ k = Parts /\ Part(k) = "fail"
      BY <1>1, <2>1 DEF Parts, Part
    <2> QED BY <1>0, <2>2 DEF PairInv
  <1>14. MaxDeferred \in Nat /\ ReplyRoom \in Nat /\ ReplyRoom >= 2 * MaxDeferred
    BY SyncPushAssumption
  <1>9. CASE Len(out) = 1
    <2>1. ASSUME NEW K PROVE Count(out, K) = IF Head(out).m \in K THEN 1 ELSE 0
      <3>1. Count(Tail(out), K) = 0
        <4>1. Tail(out) = <<>>
          BY <1>9, <1>12
        <4> QED BY <4>1, <1>6, Zenon
      <3> QED BY <1>7, <3>1
    <2>2. Head(out).m \in {"okay", "reason"} /\ Head(out).m \in Units
      BY <1>8, <1>9 DEF Units
    <2>3. /\ Count(out, Units) = 1 /\ Count(out, {"fail"}) = 0
          /\ Count(out, {"reason"}) = IF Head(out).m = "reason" THEN 1 ELSE 0
      BY <2>1, <2>2
    <2>4. Count(rep, Units) + 1 <= MaxDeferred
      BY <1>0, <2>3 DEF LimitInv, Written
    <2>5. Count(rep, {"fail"}) <= Count(rep, {"reason"}) + 1
      <3>1. Count(rep, {"fail"}) + Count(out, {"fail"}) + (IF buf THEN 1 ELSE 0)
              = Count(rep, {"reason"}) + Count(out, {"reason"})
        BY <1>0 DEF BalanceInv, Written
      <3>2. PICK b \in {0, 1} : b = IF buf THEN 1 ELSE 0
        OBVIOUS
      <3>3. PICK c \in {0, 1} : c = Count(out, {"reason"})
        BY <2>3
      <3>4. Count(rep, {"fail"}) + 0 + b = Count(rep, {"reason"}) + c
        BY <2>3, <3>1, <3>2, <3>3
      <3> QED BY <1>5, <3>4
    <2> QED BY <1>1, <1>3, <1>4, <1>5, <1>14, <2>4, <2>5
  <1>10. CASE Len(out) = 2
    <2>1. out[1].m = "fail" /\ out[2].m = "reason"
      BY <1>0, <1>10 DEF OrderInv
    <2>2. ASSUME NEW K
          PROVE  Count(out, K) = (IF "fail" \in K THEN 1 ELSE 0) + (IF "reason" \in K THEN 1 ELSE 0)
      <3>1. Count(Tail(out), K) = IF Head(Tail(out)).m \in K THEN Count(Tail(Tail(out)), K) + 1
                                                             ELSE Count(Tail(Tail(out)), K)
        BY <1>1, <1>10, <1>13, CountTail
      <3>2. Count(Tail(Tail(out)), K) = 0
        <4>1. Tail(Tail(out)) = <<>>
          BY <1>10, <1>13
        <4> QED BY <4>1, <1>6, Zenon
      <3>3. Head(out).m = "fail" /\ Head(Tail(out)).m = "reason"
        <4>1. Head(out) = out[1] /\ Head(Tail(out)) = out[2]
          BY <1>1, <1>10, <1>13
        <4> QED BY <2>1, <4>1, Zenon
      <3>4. Count(Tail(out), K) = IF "reason" \in K THEN 1 ELSE 0
        <4>1. Count(Tail(out), K) = IF "reason" \in K THEN Count(Tail(Tail(out)), K) + 1
                                                      ELSE Count(Tail(Tail(out)), K)
          BY <3>1, <3>3, Zenon
        <4>2. PICK c : c = Count(Tail(Tail(out)), K)
          OBVIOUS
        <4>3. Count(Tail(out), K) = IF "reason" \in K THEN c + 1 ELSE c
          BY <4>1, <4>2, Zenon
        <4>4. c = 0
          BY <3>2, <4>2
        <4> QED BY <4>3, <4>4
      <3>5. Count(out, K) = IF "fail" \in K THEN Count(Tail(out), K) + 1 ELSE Count(Tail(out), K)
        BY <1>7, <3>3
      <3>6. CASE "fail" \in K
        BY <3>4, <3>5, <3>6
      <3>7. CASE "fail" \notin K
        BY <3>4, <3>5, <3>7
      <3> QED BY <3>6, <3>7
    <2>3. "fail" \notin Units /\ "reason" \in Units
      BY DEF Units
    <2>4. Count(out, Units) = 1 /\ Count(out, {"fail"}) = 1 /\ Count(out, {"reason"}) = 1
      BY <2>2, <2>3
    <2>5. Count(rep, Units) + 1 <= MaxDeferred
      BY <1>0, <2>4 DEF LimitInv, Written
    <2>6. Count(rep, {"fail"}) <= Count(rep, {"reason"})
      <3>1. Count(rep, {"fail"}) + Count(out, {"fail"}) + (IF buf THEN 1 ELSE 0)
              = Count(rep, {"reason"}) + Count(out, {"reason"})
        BY <1>0 DEF BalanceInv, Written
      <3>2. PICK b \in {0, 1} : b = IF buf THEN 1 ELSE 0
        OBVIOUS
      <3>3. Count(rep, {"fail"}) + 1 + b = Count(rep, {"reason"}) + 1
        BY <2>4, <3>1, <3>2
      <3> QED BY <1>5, <3>2, <3>3
    <2> QED BY <1>1, <1>3, <1>4, <1>5, <1>14, <2>5, <2>6
  <1> QED BY <1>0, <1>1, <1>9, <1>10 DEF OrderInv

\* adbd never waits for the client to read when it acknowledges a file: the
\* bound on deferred acknowledgements in ReadAcknowledgements keeps room for
\* two messages for each of them, after failures and after files left halfway
\* too.
THEOREM ReplyFitsCorrect == Spec => []ReplyFits
  <1>1. Init => OpenInv
    BY OpenInit
  <1>2. OpenInv /\ [Next]_vars => OpenInv'
    BY OpenInductive
  <1>3. OpenInv => ReplyFits
    BY OpenImplies
  <1> QED BY <1>1, <1>2, <1>3, PTL DEF Spec

------------------------------------------------------------------------------
(* FailureIsAttributed: the answers come in the order of the files that     *)
(* wait for them, so the oldest file is the one a failure is about.  Every  *)
(* file has one unit, a piece of the stream that becomes its answer: its    *)
(* last request, then its acknowledgement or the reason of its failure.     *)

\* All that is between the device's answers and the client's requests, oldest first.
Stream == rep \o out \o req

\* The element p of s is or becomes the answer to a file.
Unit(s, p) == p \in DOMAIN s /\ s[p].m \in Units

\* The files of s are answered in the order of d, each once.
InOrder(s, d) ==
    /\ \A q \in DOMAIN s : Unit(s, q) =>
          \E j \in DOMAIN d :
             /\ d[j] = s[q].f
             /\ \A i \in 1..(j - 1) : \E p \in 1..(q - 1) : Unit(s, p) /\ s[p].f = d[i]
    /\ \A p, q \in DOMAIN s : Unit(s, p) /\ Unit(s, q) /\ s[p].f = s[q].f => p = q

\* No file of d has lost its answer.
Covers(s, d) == \A i \in DOMAIN d : \E p \in DOMAIN s : Unit(s, p) /\ s[p].f = d[i]

\* The source i lists f.
InSource(i, f) == \E x \in DOMAIN Sources[i].files : Sources[i].files[x] = f

\* The files do_sync_push has still to send, the one it is sending included.
Ahead ==
    {f \in Files :
        \/ \E i \in 1..Len(Sources) :
              (i > src \/ (i = src /\ pc \in {"next", "ask", "stats"})) /\ InSource(i, f)
        \/ Inside /\ \E x \in DOMAIN todo : todo[x] = f}

\* A file is outstanding once, and neither outstanding nor reported while it is
\* still to be sent.
AheadInv ==
    /\ \A i, j \in DOMAIN deferred : deferred[i] = deferred[j] => i = j
    /\ \A i \in DOMAIN deferred : deferred[i] \notin Ahead /\ deferred[i] \notin reported
    /\ reported \cap Ahead = {}

\* A large file given up halfway (SendLargeFile failing on a local error): the
\* device waits for a rest that is neither written nor ever will be, so that
\* it takes the next request for data, refuses it and closes the connection.
\* No order is kept any more, and none is claimed: recv stays non-empty.
Stuck ==
    /\ recv # {}
    /\ \A f \in recv : /\ f \notin Ahead
                       /\ \A i \in DOMAIN req : req[i].m \in {"data", "done"} => req[i].f # f

\* The request at position i is data of f.
IsData(i, f) == req[i].m = "data" /\ req[i].f = f

\* What is written after position i is data of f, begun there or with the device.
Continues(f, i) ==
    \/ \E j \in 1..(i - 1) : /\ req[j].m = "send" /\ req[j].f = f
                             /\ \A k \in (j + 1)..(i - 1) : IsData(k, f)
    \/ recv = {f} /\ \A k \in 1..(i - 1) : IsData(k, f)

\* SendLargeFile writes a file in one piece.
GroupInv ==
    /\ \A i \in DOMAIN req, f \in Files :
          req[i].m \in {"data", "done"} /\ req[i].f = f => Continues(f, i)
    /\ \A f \in Files : pc = "large" /\ ~closed /\ f = Head(todo) => Continues(f, Len(req) + 1)

\* A file is begun once, and none that is begun is ahead but for the one inside
\* SendLargeFile.
BegunInv ==
    /\ \A f \in recv : recv = {f}
    /\ \A f \in recv : f \in Ahead => pc = "large" /\ f = Head(todo)
    /\ \A i \in DOMAIN req : req[i].m = "send" =>
          /\ req[i].f \notin recv
          /\ req[i].f \in Ahead => pc = "large" /\ req[i].f = Head(todo)
          /\ \A j \in DOMAIN req : req[j].m = "send" /\ req[j].f = req[i].f => i = j

\* A file that was reported, or whose failure is on its way, is not stored.
FailedInv ==
    /\ reported \cap stored = {}
    /\ \A p \in DOMAIN Stream : Stream[p].m = "reason" => Stream[p].f \notin stored

\* Until the device closes, every outstanding file has its unit, in this order.
AnswerInv == InOrder(Stream, deferred) /\ (~closed => Covers(Stream, deferred))

\* The same units in the same order: s and t are answered alike.
LEMMA SameUnits ==
    ASSUME NEW s, NEW t, NEW d, NEW h,
           \A i \in DOMAIN s : i \in Nat /\ i >= 1 /\ 1..i \subseteq DOMAIN s,
           \A i \in DOMAIN t : i \in Nat /\ i >= 1 /\ 1..i \subseteq DOMAIN t,
           \A q \in DOMAIN t : Unit(t, q) => Unit(s, h[q]) /\ s[h[q]].f = t[q].f,
           \A p \in DOMAIN s : Unit(s, p) => \E q \in DOMAIN t : Unit(t, q) /\ h[q] = p,
           \A p, q \in DOMAIN t : Unit(t, p) /\ Unit(t, q) => (h[p] < h[q] <=> p < q)
    PROVE  /\ InOrder(s, d) => InOrder(t, d)
           /\ Covers(s, d) => Covers(t, d)
  <1>1. ASSUME InOrder(s, d), NEW q \in DOMAIN t, Unit(t, q)
        PROVE  \E j \in DOMAIN d :
                  /\ d[j] = t[q].f
                  /\ \A i \in 1..(j - 1) : \E p \in 1..(q - 1) : Unit(t, p) /\ t[p].f = d[i]
    <2>1. Unit(s, h[q]) /\ h[q] \in DOMAIN s /\ s[h[q]].f = t[q].f
      BY <1>1 DEF Unit
    <2>2. PICK j \in DOMAIN d :
             /\ d[j] = s[h[q]].f
             /\ \A i \in 1..(j - 1) : \E p \in 1..(h[q] - 1) : Unit(s, p) /\ s[p].f = d[i]
      BY <1>1, <2>1 DEF InOrder
    <2>3. ASSUME NEW i \in 1..(j - 1) PROVE \E p \in 1..(q - 1) : Unit(t, p) /\ t[p].f = d[i]
      <3>1. PICK p \in 1..(h[q] - 1) : Unit(s, p) /\ s[p].f = d[i]
        BY <2>2
      <3>2. PICK r \in DOMAIN t : Unit(t, r) /\ h[r] = p
        BY <3>1 DEF Unit
      <3>3. h[r] < h[q]
        BY <2>1, <3>2
      <3>4. r < q
        BY <1>1, <3>2, <3>3
      <3>5. r \in 1..(q - 1)
        BY <3>4
      <3>6. t[r].f = d[i]
        BY <3>1, <3>2
      <3> QED BY <3>2, <3>5, <3>6
    <2> QED BY <2>1, <2>2, <2>3
  <1>2. ASSUME InOrder(s, d), NEW p \in DOMAIN t, NEW q \in DOMAIN t, Unit(t, p), Unit(t, q), t[p].f = t[q].f
        PROVE  p = q
    <2>1. h[p] \in DOMAIN s /\ h[q] \in DOMAIN s /\ h[p] = h[q]
      BY <1>2 DEF Unit, InOrder
    <2>2. ~(p < q) /\ ~(q < p)
      BY <1>2, <2>1
    <2> QED BY <2>2
  <1>3. ASSUME Covers(s, d) PROVE Covers(t, d)
    <2>1. ASSUME NEW i \in DOMAIN d PROVE \E q \in DOMAIN t : Unit(t, q) /\ t[q].f = d[i]
      <3>1. PICK p \in DOMAIN s : Unit(s, p) /\ s[p].f = d[i]
        BY <1>3 DEF Covers
      <3> QED BY <3>1
    <2> QED BY <2>1 DEF Covers
  <1> QED BY <1>1, <1>2, <1>3 DEF InOrder

\* The first unit is the answer to the oldest file.
LEMMA FirstAnswered ==
    ASSUME NEW M, NEW s \in Seq(M), NEW F, NEW d \in Seq(F), s # <<>>, Head(s).m \in Units, InOrder(s, d),
           \A i, j \in DOMAIN d : d[i] = d[j] => i = j
    PROVE  /\ d # <<>> /\ Head(d) = Head(s).f
           /\ InOrder(Tail(s), Tail(d))
           /\ Covers(s, d) => Covers(Tail(s), Tail(d))
  <1>1. PICK n \in Nat : n = Len(s) /\ n >= 1 /\ DOMAIN s = 1..n
    OBVIOUS
  <1>2. PICK k \in Nat : k = Len(d) /\ DOMAIN d = 1..k
    OBVIOUS
  <1>3. Unit(s, 1) /\ s[1] = Head(s)
    BY <1>1 DEF Unit
  <1>4. PICK j \in DOMAIN d :
           /\ d[j] = s[1].f
           /\ \A i \in 1..(j - 1) : \E p \in 1..(1 - 1) : Unit(s, p) /\ s[p].f = d[i]
    BY <1>1, <1>3 DEF InOrder
  <1>5. j = 1
    <2>1. j > 1 => 1 \in 1..(j - 1)
      BY <1>2
    <2>2. 1..(1 - 1) = {}
      OBVIOUS
    <2> QED BY <1>2, <1>4, <2>1, <2>2
  <1>6. k >= 1 /\ d # <<>> /\ d[1] = s[1].f /\ Head(d) = d[1]
    BY <1>2, <1>4, <1>5
  <1>7. /\ DOMAIN Tail(s) = 1..(n - 1) /\ \A q \in 1..(n - 1) : Tail(s)[q] = s[q + 1]
        /\ DOMAIN Tail(d) = 1..(k - 1) /\ \A q \in 1..(k - 1) : Tail(d)[q] = d[q + 1]
    BY <1>1, <1>2, <1>6
  <1>8. \A q \in 1..(n - 1) : Unit(Tail(s), q) <=> Unit(s, q + 1)
    BY <1>1, <1>7 DEF Unit
  <1>9. ASSUME NEW q \in 1..(n - 1), Unit(Tail(s), q)
        PROVE  \E i \in DOMAIN Tail(d) :
                  /\ Tail(d)[i] = Tail(s)[q].f
                  /\ \A l \in 1..(i - 1) : \E p \in 1..(q - 1) : Unit(Tail(s), p) /\ Tail(s)[p].f = Tail(d)[l]
    <2>1. Unit(s, q + 1) /\ q + 1 \in DOMAIN s /\ q + 1 # 1
      BY <1>1, <1>8, <1>9
    <2>2. PICK i \in DOMAIN d :
             /\ d[i] = s[q + 1].f
             /\ \A l \in 1..(i - 1) : \E p \in 1..(q + 1 - 1) : Unit(s, p) /\ s[p].f = d[l]
      BY <2>1 DEF InOrder
    <2>3. i # 1
      BY <1>1, <1>3, <1>6, <2>1, <2>2 DEF InOrder
    <2>4. i - 1 \in 1..(k - 1) /\ i = (i - 1) + 1
      BY <1>2, <2>3
    <2>5. ASSUME NEW l \in 1..(i - 1 - 1)
          PROVE  \E p \in 1..(q - 1) : Unit(Tail(s), p) /\ Tail(s)[p].f = Tail(d)[l]
      <3>1. l + 1 \in 1..(i - 1) /\ l \in 1..(k - 1) /\ l + 1 \in 1..k /\ l + 1 # 1
        BY <2>4
      <3>2. PICK p \in 1..(q + 1 - 1) : Unit(s, p) /\ s[p].f = d[l + 1]
        BY <2>2, <3>1
      <3>3. p # 1
        BY <1>2, <1>6, <3>1, <3>2
      <3>4. p - 1 \in 1..(q - 1) /\ p - 1 \in 1..(n - 1) /\ (p - 1) + 1 = p
        BY <3>3
      <3>5. Unit(Tail(s), p - 1) /\ Tail(s)[p - 1] = s[p]
        BY <1>7, <1>8, <3>2, <3>4
      <3>6. Tail(d)[l] = d[l + 1]
        BY <1>7, <3>1
      <3> QED BY <3>2, <3>4, <3>5, <3>6
    <2>6. Tail(d)[i - 1] = d[i] /\ Tail(s)[q] = s[q + 1] /\ i - 1 \in DOMAIN Tail(d)
      BY <1>7, <2>4
    <2> QED BY <2>2, <2>5, <2>6
  <1>10. ASSUME NEW p \in 1..(n - 1), NEW q \in 1..(n - 1), Unit(Tail(s), p), Unit(Tail(s), q),
                Tail(s)[p].f = Tail(s)[q].f
         PROVE  p = q
    <2>1. Unit(s, p + 1) /\ Unit(s, q + 1) /\ s[p + 1].f = s[q + 1].f
      BY <1>7, <1>8, <1>10
    <2>2. p + 1 = q + 1
      BY <2>1 DEF InOrder, Unit
    <2> QED BY <2>2
  <1>11. InOrder(Tail(s), Tail(d))
    BY <1>7, <1>9, <1>10 DEF InOrder
  <1>12. ASSUME Covers(s, d) PROVE Covers(Tail(s), Tail(d))
    <2>1. ASSUME NEW i \in 1..(k - 1)
          PROVE \E p \in 1..(n - 1) : Unit(Tail(s), p) /\ Tail(s)[p].f = Tail(d)[i]
      <3>1. i + 1 \in 1..k /\ i + 1 # 1
        BY <2>1
      <3>2. PICK p \in DOMAIN s : Unit(s, p) /\ s[p].f = d[i + 1]
        BY <1>2, <1>12, <3>1 DEF Covers
      <3>3. p # 1
        BY <1>2, <1>6, <3>1, <3>2
      <3>4. p - 1 \in 1..(n - 1) /\ (p - 1) + 1 = p
        BY <1>1, <3>3
      <3>5. Unit(Tail(s), p - 1) /\ Tail(s)[p - 1] = s[p]
        BY <1>7, <1>8, <3>2, <3>4
      <3> QED BY <1>7, <3>2, <3>4, <3>5
    <2> QED BY <1>7, <2>1 DEF Covers
  <1> QED BY <1>6, <1>11, <1>12

\* A file more is outstanding, with its unit or without.
LEMMA LastOutstanding ==
    ASSUME NEW M, NEW s \in Seq(M), NEW F, NEW d \in Seq(F), NEW f \in F, InOrder(s, d)
    PROVE  /\ InOrder(s, Append(d, f))
           /\ \A x \in M : /\ x.m \in Units /\ x.f = f /\ Covers(s, d)
                           /\ \A i \in DOMAIN d : d[i] # f
                           => InOrder(Append(s, x), Append(d, f)) /\ Covers(Append(s, x), Append(d, f))
  <1> DEFINE e == Append(d, f)
  <1>1. PICK n \in Nat : n = Len(s) /\ DOMAIN s = 1..n
    OBVIOUS
  <1>2. PICK k \in Nat : k = Len(d) /\ DOMAIN d = 1..k
    OBVIOUS
  <1>3. DOMAIN e = 1..(k + 1) /\ e[k + 1] = f /\ \A i \in 1..k : e[i] = d[i]
    BY <1>2
  <1> HIDE DEF e
  <1>4. ASSUME NEW q \in 1..n, Unit(s, q)
        PROVE  \E j \in 1..k : /\ e[j] = s[q].f /\ d[j] = s[q].f
                               /\ \A i \in 1..(j - 1) : \E p \in 1..(q - 1) : Unit(s, p) /\ s[p].f = e[i]
    <2>1. PICK j \in DOMAIN d :
             /\ d[j] = s[q].f
             /\ \A i \in 1..(j - 1) : \E p \in 1..(q - 1) : Unit(s, p) /\ s[p].f = d[i]
      BY <1>1, <1>4 DEF InOrder
    <2>2. \A i \in 1..(j - 1) : e[i] = d[i]
      BY <1>2, <1>3
    <2> QED BY <1>2, <1>3, <2>1, <2>2
  <1>5. \A j \in 1..k : j \in 1..(k + 1)
    OBVIOUS
  <1>6. InOrder(s, e)
    <2>1. ASSUME NEW q \in DOMAIN s, Unit(s, q)
          PROVE  \E j \in DOMAIN e :
                    /\ e[j] = s[q].f
                    /\ \A i \in 1..(j - 1) : \E p \in 1..(q - 1) : Unit(s, p) /\ s[p].f = e[i]
      <3>1. q \in 1..n
        BY <1>1
      <3>2. PICK j \in 1..k : /\ e[j] = s[q].f
                              /\ \A i \in 1..(j - 1) : \E p \in 1..(q - 1) : Unit(s, p) /\ s[p].f = e[i]
        BY <1>4, <2>1, <3>1
      <3>3. j \in DOMAIN e
        BY <1>3, <1>5
      <3> QED BY <3>2, <3>3
    <2>2. \A p, q \in DOMAIN s : Unit(s, p) /\ Unit(s, q) /\ s[p].f = s[q].f => p = q
      BY DEF InOrder
    <2> QED BY <2>1, <2>2 DEF InOrder
  <1>7. ASSUME NEW x \in M, x.m \in Units, x.f = f, Covers(s, d), \A i \in DOMAIN d : d[i] # f
        PROVE  InOrder(Append(s, x), e) /\ Covers(Append(s, x), e)
    <2> DEFINE t == Append(s, x)
    <2>1. DOMAIN t = 1..(n + 1) /\ t[n + 1] = x /\ \A i \in 1..n : t[i] = s[i]
      BY <1>1
    <2> HIDE DEF t
    <2>2. \A q \in 1..n : Unit(t, q) <=> Unit(s, q)
      BY <1>1, <2>1 DEF Unit
    <2>3. Unit(t, n + 1)
      BY <1>7, <2>1 DEF Unit
    <2>4. ASSUME NEW i \in 1..k PROVE \E p \in 1..n : Unit(t, p) /\ t[p].f = e[i]
      <3>1. PICK p \in DOMAIN s : Unit(s, p) /\ s[p].f = d[i]
        BY <1>2, <1>7 DEF Covers
      <3> QED BY <1>1, <1>3, <2>1, <2>2, <3>1
    <2>5. ASSUME NEW q \in DOMAIN t, Unit(t, q)
          PROVE  \E j \in DOMAIN e :
                    /\ e[j] = t[q].f
                    /\ \A i \in 1..(j - 1) : \E p \in 1..(q - 1) : Unit(t, p) /\ t[p].f = e[i]
      <3>1. CASE q = n + 1
        <4>1. PICK j \in DOMAIN e : j = k + 1 /\ e[j] = t[q].f
          BY <1>3, <1>7, <2>1, <3>1
        <4>2. \A i \in 1..(j - 1) : \E p \in 1..(q - 1) : Unit(t, p) /\ t[p].f = e[i]
          <5>1. j - 1 = k /\ q - 1 = n
            BY <3>1, <4>1
          <5> QED BY <2>4, <5>1
        <4> QED BY <4>1, <4>2
      <3>2. CASE q \in 1..n
        <4>1. Unit(s, q) /\ t[q] = s[q]
          BY <2>1, <2>2, <2>5, <3>2
        <4>2. PICK j \in 1..k : /\ e[j] = s[q].f
                                /\ \A i \in 1..(j - 1) : \E p \in 1..(q - 1) : Unit(s, p) /\ s[p].f = e[i]
          BY <1>4, <3>2, <4>1
        <4>3. \A p \in 1..(q - 1) : p \in 1..n
          BY <3>2
        <4>4. \A i \in 1..(j - 1) : \E p \in 1..(q - 1) : Unit(t, p) /\ t[p].f = e[i]
          BY <2>1, <2>2, <4>2, <4>3
        <4>5. j \in DOMAIN e
          BY <1>3, <1>5
        <4> QED BY <4>1, <4>2, <4>4, <4>5
      <3>3. q \in 1..n \/ q = n + 1
        BY <2>1
      <3> QED BY <3>1, <3>2, <3>3
    <2>6. ASSUME NEW p \in DOMAIN t, NEW q \in DOMAIN t, Unit(t, p), Unit(t, q), t[p].f = t[q].f
          PROVE  p = q
      <3>1. ASSUME NEW i \in 1..n, Unit(t, i) PROVE t[i].f # f
        <4>1. PICK j \in 1..k : d[j] = s[i].f
          BY <1>4, <2>2, <3>1
        <4> QED BY <1>2, <1>7, <2>1, <4>1
      <3>2. CASE p \in 1..n /\ q \in 1..n
        BY <1>1, <2>1, <2>2, <2>6, <3>2 DEF InOrder
      <3>3. CASE p = n + 1 \/ q = n + 1
        BY <1>7, <2>1, <2>6, <3>1, <3>3
      <3>4. \A i \in DOMAIN t : i \in 1..n \/ i = n + 1
        BY <2>1
      <3> QED BY <2>6, <3>2, <3>3, <3>4
    <2>7. InOrder(t, e)
      BY <2>5, <2>6 DEF InOrder
    <2>8. Covers(t, e)
      <3>1. ASSUME NEW i \in 1..(k + 1) PROVE \E p \in 1..(n + 1) : Unit(t, p) /\ t[p].f = e[i]
        <4>1. CASE i \in 1..k
          <5>1. PICK p \in 1..n : Unit(t, p) /\ t[p].f = e[i]
            BY <2>4, <4>1
          <5> QED BY <5>1
        <4>2. CASE i = k + 1
          BY <1>3, <1>7, <2>1, <2>3, <4>2
        <4> QED BY <4>1, <4>2
      <3> QED BY <1>3, <2>1, <3>1 DEF Covers
    <2> QED BY <2>7, <2>8 DEF t
  <1> QED BY <1>6, <1>7 DEF e

\* The elements of three sequences one behind the other.
LEMMA Joined ==
    ASSUME NEW M, NEW a \in Seq(M), NEW b \in Seq(M), NEW c \in Seq(M)
    PROVE  /\ a \o b \o c \in Seq(M) /\ Len(a \o b \o c) = Len(a) + Len(b) + Len(c)
           /\ \A i \in 1..Len(a) : (a \o b \o c)[i] = a[i]
           /\ \A i \in 1..Len(b) : (a \o b \o c)[Len(a) + i] = b[i]
           /\ \A i \in 1..Len(c) : (a \o b \o c)[Len(a) + Len(b) + i] = c[i]
  <1>1. /\ a \o b \in Seq(M) /\ Len(a \o b) = Len(a) + Len(b)
        /\ \A i \in 1..Len(a) : (a \o b)[i] = a[i]
        /\ \A i \in 1..Len(b) : (a \o b)[Len(a) + i] = b[i]
    OBVIOUS
  <1>2. PICK e \in Seq(M) : e = a \o b
    BY <1>1
  <1>3. /\ e \o c \in Seq(M) /\ Len(e \o c) = Len(e) + Len(c)
        /\ \A i \in 1..Len(e) : (e \o c)[i] = e[i]
        /\ \A i \in 1..Len(c) : (e \o c)[Len(e) + i] = c[i]
    OBVIOUS
  <1>4. /\ \A i \in 1..Len(a) : i \in 1..Len(e)
        /\ \A i \in 1..Len(b) : Len(a) + i \in 1..Len(e)
    BY <1>1, <1>2
  <1> QED BY <1>1, <1>2, <1>3, <1>4

\* What reading, writing and moving do to the stream.
LEMMA StreamSteps ==
    ASSUME Types
    PROVE  /\ Stream \in Seq(Replies \cup Requests)
           /\ Len(Stream) = Len(rep) + Len(out) + Len(req)
           /\ \A x \in Requests : rep \o out \o Append(req, x) = Append(Stream, x)
           /\ rep # <<>> => /\ Tail(rep) \o out \o req = Tail(Stream)
                            /\ Stream # <<>> /\ Head(Stream) = Head(rep) /\ Stream[1] = Head(rep)
           /\ out # <<>> => Append(rep, Head(out)) \o Tail(out) \o req = Stream
  <1> DEFINE M == Replies \cup Requests
  <1>1. rep \in Seq(M) /\ out \in Seq(M) /\ req \in Seq(M)
    BY DEF Types
  <1> HIDE DEF M
  <1>2. /\ Stream \in Seq(M) /\ Len(Stream) = Len(rep) + Len(out) + Len(req)
        /\ \A i \in 1..Len(rep) : Stream[i] = rep[i]
        /\ \A i \in 1..Len(out) : Stream[Len(rep) + i] = out[i]
        /\ \A i \in 1..Len(req) : Stream[Len(rep) + Len(out) + i] = req[i]
    BY <1>1, Joined DEF Stream
  <1>3. ASSUME NEW x \in Requests PROVE rep \o out \o Append(req, x) = Append(Stream, x)
    <2>1. x \in M
      BY DEF M
    <2>2. rep \o out \in Seq(M)
      BY <1>1
    <2>3. (rep \o out) \o Append(req, x) = Append((rep \o out) \o req, x)
      <3>1. PICK e \in Seq(M) : e = rep \o out
        BY <2>2
      <3>2. <<x>> \in Seq(M) /\ Append(req, x) = req \o <<x>> /\ e \o req \in Seq(M)
        BY <1>1, <2>1, AppendIsConcat
      <3>3. Append(e \o req, x) = (e \o req) \o <<x>>
        BY <2>1, <3>2, AppendIsConcat
      <3>4. (e \o req) \o <<x>> = e \o (req \o <<x>>)
        BY <1>1, <3>2, ConcatAssociative
      <3> QED BY <3>1, <3>2, <3>3, <3>4
    <2> QED BY <2>2, <2>3 DEF Stream
  <1>4. ASSUME rep # <<>>
        PROVE  /\ Tail(rep) \o out \o req = Tail(Stream)
               /\ Stream # <<>> /\ Head(Stream) = Head(rep) /\ Stream[1] = Head(rep)
    <2>1. out \o req \in Seq(M)
      BY <1>1
    <2>2. PICK e \in Seq(M) : e = out \o req
      BY <2>1
    <2>3. Stream = rep \o e /\ Tail(rep) \o out \o req = Tail(rep) \o e
      <3>1. Tail(rep) \in Seq(M)
        BY <1>1, <1>4
      <3> QED BY <1>1, <2>2, <3>1, ConcatAssociative DEF Stream
    <2>4. Tail(rep \o e) = Tail(rep) \o e /\ rep \o e # <<>> /\ Head(rep \o e) = Head(rep) /\ (rep \o e)[1] = rep[1]
          /\ Head(rep) = rep[1]
      BY <1>1, <1>4
    <2> QED BY <2>3, <2>4
  <1>5. ASSUME out # <<>> PROVE Append(rep, Head(out)) \o Tail(out) \o req = Stream
    <2>1. Append(rep, Head(out)) \o Tail(out) = rep \o out
      BY <1>1, <1>5
    <2> QED BY <2>1 DEF Stream
  <1> QED BY <1>2, <1>3, <1>4, <1>5 DEF M

\* A message that is no unit comes or goes.
LEMMA OtherMessages ==
    ASSUME NEW M, NEW s \in Seq(M), NEW d, InOrder(s, d)
    PROVE  /\ \A x \in M : x.m \notin Units =>
                 InOrder(Append(s, x), d) /\ (Covers(s, d) => Covers(Append(s, x), d))
           /\ s # <<>> /\ Head(s).m \notin Units =>
                 InOrder(Tail(s), d) /\ (Covers(s, d) => Covers(Tail(s), d))
  <1>1. PICK n \in Nat : n = Len(s) /\ DOMAIN s = 1..n
    OBVIOUS
  <1>2. ASSUME NEW x \in M, x.m \notin Units
        PROVE  InOrder(Append(s, x), d) /\ (Covers(s, d) => Covers(Append(s, x), d))
    <2>1. Append(s, x) \in Seq(M)
      OBVIOUS
    <2>2. PICK t \in Seq(M) : t = Append(s, x)
      BY <2>1
    <2>3. DOMAIN t = 1..(n + 1) /\ t[n + 1] = x /\ \A i \in 1..n : t[i] = s[i]
      BY <1>1, <2>2
    <2>4. /\ ~Unit(t, n + 1)
          /\ \A q \in 1..n : Unit(t, q) <=> Unit(s, q)
      BY <1>1, <1>2, <2>3 DEF Unit
    <2>5. \A q \in DOMAIN t : Unit(t, q) => q \in 1..n
      BY <2>3, <2>4
    <2> DEFINE h == [q \in 1..n |-> q]
    <2>6. \A q \in DOMAIN t : Unit(t, q) => Unit(s, h[q]) /\ s[h[q]].f = t[q].f
      BY <2>3, <2>4, <2>5
    <2>7. \A p \in DOMAIN s : Unit(s, p) => \E q \in DOMAIN t : Unit(t, q) /\ h[q] = p
      BY <1>1, <2>3, <2>4
    <2>8. \A p, q \in DOMAIN t : Unit(t, p) /\ Unit(t, q) => (h[p] < h[q] <=> p < q)
      BY <2>5
    <2>9. /\ \A i \in DOMAIN s : i \in Nat /\ i >= 1 /\ 1..i \subseteq DOMAIN s
          /\ \A i \in DOMAIN t : i \in Nat /\ i >= 1 /\ 1..i \subseteq DOMAIN t
      BY <1>1, <2>3
    <2> HIDE DEF h
    <2>10. InOrder(t, d) /\ (Covers(s, d) => Covers(t, d))
      BY <2>6, <2>7, <2>8, <2>9, SameUnits
    <2> QED BY <2>2, <2>10
  <1>3. ASSUME s # <<>>, Head(s).m \notin Units
        PROVE  InOrder(Tail(s), d) /\ (Covers(s, d) => Covers(Tail(s), d))
    <2>1. Tail(s) \in Seq(M)
      BY <1>3
    <2>2. PICK t \in Seq(M) : t = Tail(s)
      BY <2>1
    <2>3. DOMAIN t = 1..(n - 1) /\ n >= 1 /\ s[1] = Head(s) /\ \A i \in 1..(n - 1) : t[i] = s[i + 1]
      BY <1>1, <1>3, <2>2
    <2>4. /\ ~Unit(s, 1)
          /\ \A q \in 1..(n - 1) : Unit(t, q) <=> Unit(s, q + 1)
      BY <1>1, <1>3, <2>3 DEF Unit
    <2> DEFINE h == [q \in 1..(n - 1) |-> q + 1]
    <2>5. \A q \in DOMAIN t : Unit(t, q) => Unit(s, h[q]) /\ s[h[q]].f = t[q].f
      BY <2>3, <2>4
    <2>6. \A p \in DOMAIN s : Unit(s, p) => \E q \in DOMAIN t : Unit(t, q) /\ h[q] = p
      <3>1. ASSUME NEW p \in 1..n, Unit(s, p) PROVE p - 1 \in 1..(n - 1) /\ Unit(t, p - 1) /\ h[p - 1] = p
        <4>1. p - 1 \in 1..(n - 1) /\ (p - 1) + 1 = p
          BY <2>4, <3>1
        <4> QED BY <2>4, <3>1, <4>1
      <3> HIDE DEF h
      <3> QED BY <1>1, <2>3, <3>1
    <2>7. \A p, q \in DOMAIN t : Unit(t, p) /\ Unit(t, q) => (h[p] < h[q] <=> p < q)
      BY <2>3
    <2>8. /\ \A i \in DOMAIN s : i \in Nat /\ i >= 1 /\ 1..i \subseteq DOMAIN s
          /\ \A i \in DOMAIN t : i \in Nat /\ i >= 1 /\ 1..i \subseteq DOMAIN t
      BY <1>1, <2>3
    <2> HIDE DEF h
    <2>9. InOrder(t, d) /\ (Covers(s, d) => Covers(t, d))
      BY <2>5, <2>6, <2>7, <2>8, SameUnits
    <2> QED BY <2>2, <2>9
  <1> QED BY <1>2, <1>3

\* The element n + 1 of s is replaced by k elements, of which the last is a unit
\* for the same file if it was one.
Replaces(s, t, n, k, l) ==
    /\ DOMAIN s = 1..(n + 1 + l) /\ DOMAIN t = 1..(n + k + l)
    /\ \A i \in 1..n : t[i] = s[i]
    /\ \A i \in 1..l : t[n + k + i] = s[n + 1 + i]
    /\ Unit(s, n + 1) => k >= 1 /\ Unit(t, n + k) /\ t[n + k].f = s[n + 1].f
    /\ \A i \in 1..k : Unit(t, n + i) => i = k /\ Unit(s, n + 1) /\ t[n + k].f = s[n + 1].f

\* The answers keep their order under such a replacement.
LEMMA Replaced ==
    ASSUME NEW s, NEW t, NEW d, NEW n \in Nat, NEW k \in Nat, NEW l \in Nat, Replaces(s, t, n, k, l)
    PROVE  /\ InOrder(s, d) => InOrder(t, d)
           /\ Covers(s, d) => Covers(t, d)
  <1> USE DEF Replaces
  <1>1. /\ \A i \in 1..n : i \in DOMAIN s /\ i \in DOMAIN t
        /\ \A i \in 1..l : n + 1 + i \in DOMAIN s /\ n + k + i \in DOMAIN t
        /\ \A i \in 1..k : n + i \in DOMAIN t
    OBVIOUS
  <1>2. \A i \in 1..n : Unit(s, i) <=> Unit(t, i)
    BY <1>1 DEF Unit
  <1>3. \A i \in 1..l : Unit(s, n + 1 + i) <=> Unit(t, n + k + i)
    BY <1>1 DEF Unit
  <1> DEFINE h == [q \in 1..(n + k + l) |->
                      IF q <= n THEN q ELSE IF q <= n + k THEN n + 1 ELSE q - k + 1]
  <1>4. /\ \A i \in 1..n : h[i] = i
        /\ \A i \in 1..k : h[n + i] = n + 1
        /\ \A i \in 1..l : h[n + k + i] = n + 1 + i
    OBVIOUS
  <1>5. \A q \in 1..(n + k + l) : q \in 1..n \/ (\E i \in 1..k : q = n + i) \/ (\E i \in 1..l : q = n + k + i)
    <2>1. ASSUME NEW q \in 1..(n + k + l)
          PROVE  q \in 1..n \/ q - n \in 1..k \/ q - n - k \in 1..l
      OBVIOUS
    <2>2. \A q \in 1..(n + k + l) : q = n + (q - n) /\ q = n + k + (q - n - k)
      OBVIOUS
    <2> QED BY <2>1, <2>2
  <1> HIDE DEF h
  <1>6. ASSUME NEW q \in DOMAIN t, Unit(t, q) PROVE Unit(s, h[q]) /\ s[h[q]].f = t[q].f
    <2>1. CASE q \in 1..n
      BY <1>2, <1>4, <1>6, <2>1
    <2>2. ASSUME NEW i \in 1..k, q = n + i PROVE Unit(s, h[q]) /\ s[h[q]].f = t[q].f
      BY <1>4, <1>6, <2>2
    <2>3. ASSUME NEW i \in 1..l, q = n + k + i PROVE Unit(s, h[q]) /\ s[h[q]].f = t[q].f
      BY <1>3, <1>4, <1>6, <2>3
    <2> QED BY <1>5, <2>1, <2>2, <2>3
  <1>7. ASSUME NEW p \in DOMAIN s, Unit(s, p) PROVE \E q \in DOMAIN t : Unit(t, q) /\ h[q] = p
    <2>1. CASE p \in 1..n
      BY <1>1, <1>2, <1>4, <1>7, <2>1
    <2>2. CASE p = n + 1
      <3>1. k \in 1..k /\ n + k \in DOMAIN t /\ Unit(t, n + k)
        BY <1>1, <1>7, <2>2
      <3> QED BY <1>4, <2>2, <3>1
    <2>3. CASE p \notin 1..n /\ p # n + 1
      <3>1. PICK i \in 1..l : p = n + 1 + i
        <4>1. p - n - 1 \in 1..l /\ p = n + 1 + (p - n - 1)
          BY <2>3
        <4> QED BY <4>1
      <3>2. n + k + i \in DOMAIN t
        BY <1>1
      <3> QED BY <1>3, <1>4, <1>7, <3>1, <3>2
    <2> QED BY <2>1, <2>2, <2>3
  <1>8. ASSUME NEW p \in DOMAIN t, NEW q \in DOMAIN t, Unit(t, p), Unit(t, q) PROVE h[p] < h[q] <=> p < q
    <2>1. \A r \in DOMAIN t : Unit(t, r) =>
             \/ r \in 1..n /\ h[r] = r
             \/ r = n + k /\ k >= 1 /\ h[r] = n + 1
             \/ r \in (n + k + 1)..(n + k + l) /\ h[r] = r - k + 1
      <3>1. ASSUME NEW r \in DOMAIN t, Unit(t, r), NEW i \in 1..k, r = n + i
            PROVE  r = n + k /\ k >= 1 /\ h[r] = n + 1
        BY <1>4, <3>1
      <3>2. ASSUME NEW r \in DOMAIN t, NEW i \in 1..l, r = n + k + i
            PROVE  r \in (n + k + 1)..(n + k + l) /\ h[r] = r - k + 1
        BY <1>4, <3>2
      <3> QED BY <1>4, <1>5, <3>1, <3>2
    <2>2. \/ p \in 1..n /\ h[p] = p
          \/ p = n + k /\ k >= 1 /\ h[p] = n + 1
          \/ p \in (n + k + 1)..(n + k + l) /\ h[p] = p - k + 1
      BY <1>8, <2>1
    <2>3. \/ q \in 1..n /\ h[q] = q
          \/ q = n + k /\ k >= 1 /\ h[q] = n + 1
          \/ q \in (n + k + 1)..(n + k + l) /\ h[q] = q - k + 1
      BY <1>8, <2>1
    <2> QED BY <2>2, <2>3
  <1>9. /\ \A i \in DOMAIN s : i \in Nat /\ i >= 1 /\ 1..i \subseteq DOMAIN s
        /\ \A i \in DOMAIN t : i \in Nat /\ i >= 1 /\ 1..i \subseteq DOMAIN t
    OBVIOUS
  <1> QED BY <1>6, <1>7, <1>8, <1>9, SameUnits

\* The same when the last sequence has lost its head.
AreJoined(M, t, a, c, e) ==
    /\ t \in Seq(M) /\ Len(t) = Len(a) + Len(c) + (Len(e) - 1)
    /\ \A i \in 1..Len(a) : t[i] = a[i]
    /\ \A i \in 1..Len(c) : t[Len(a) + i] = c[i]
    /\ \A i \in 1..(Len(e) - 1) : t[Len(a) + Len(c) + i] = Tail(e)[i]

\* It is so for a request taken out of the stream.
LEMMA JoinedTail ==
    ASSUME NEW M, NEW a \in Seq(M), NEW c \in Seq(M), NEW e \in Seq(M), Len(e) >= 1
    PROVE  AreJoined(M, a \o c \o Tail(e), a, c, e)
  <1>1. PICK x \in Seq(M) : x = Tail(e) /\ Len(x) = Len(e) - 1
    <2>1. Tail(e) \in Seq(M) /\ Len(Tail(e)) = Len(e) - 1
      OBVIOUS
    <2> QED BY <2>1
  <1>2. /\ a \o c \o x \in Seq(M) /\ Len(a \o c \o x) = Len(a) + Len(c) + Len(x)
        /\ \A i \in 1..Len(a) : (a \o c \o x)[i] = a[i]
        /\ \A i \in 1..Len(c) : (a \o c \o x)[Len(a) + i] = c[i]
        /\ \A i \in 1..Len(x) : (a \o c \o x)[Len(a) + Len(c) + i] = x[i]
    BY Joined
  <1> QED BY <1>1, <1>2 DEF AreJoined

\* The device takes the request e[1] and puts c in its place.
LEMMA Served ==
    ASSUME NEW M, NEW a \in Seq(M), NEW c \in Seq(M), NEW e \in Seq(M), NEW d, Len(e) >= 1,
           \/ Len(c) = 0 /\ e[1].m \notin Units
           \/ Len(c) = 1 /\ c[1].m \notin Units /\ e[1].m \notin Units
           \/ Len(c) = 1 /\ c[1].m \in Units /\ e[1].m \in Units /\ c[1].f = e[1].f
           \/ /\ Len(c) = 2 /\ c[1].m \notin Units /\ c[2].m \in Units
              /\ e[1].m \in Units /\ c[2].f = e[1].f
    PROVE  LET s == a \o <<>> \o e
               t == a \o c \o Tail(e)
           IN  /\ InOrder(s, d) => InOrder(t, d)
               /\ Covers(s, d) => Covers(t, d)
  <1> DEFINE s == a \o <<>> \o e
             t == a \o c \o Tail(e)
             n == Len(a)
             k == Len(c)
             l == Len(e) - 1
  <1>1. /\ <<>> \in Seq(M) /\ Len(<<>>) = 0
        /\ Tail(e) \in Seq(M) /\ Len(Tail(e)) = l /\ \A i \in 1..l : Tail(e)[i] = e[i + 1]
        /\ n \in Nat /\ k \in Nat /\ l \in Nat /\ Len(e) = l + 1
    OBVIOUS
  <1>2. /\ s \in Seq(M) /\ Len(s) = n + 0 + (l + 1)
        /\ \A i \in 1..n : s[i] = a[i]
        /\ \A i \in 1..(l + 1) : s[n + 0 + i] = e[i]
    BY <1>1, Joined
  <1>3. /\ t \in Seq(M) /\ Len(t) = n + k + l
        /\ \A i \in 1..n : t[i] = a[i]
        /\ \A i \in 1..k : t[n + i] = c[i]
        /\ \A i \in 1..l : t[n + k + i] = Tail(e)[i]
    <2>1. AreJoined(M, t, a, c, e)
      BY JoinedTail
    <2> QED BY <2>1 DEF AreJoined
  <1> HIDE DEF s, t, n, k, l
  <1>4. n \in Nat /\ k \in Nat /\ l \in Nat
    BY <1>1
  <1>5. DOMAIN s = 1..(n + 1 + l) /\ DOMAIN t = 1..(n + k + l)
    <2>1. Len(s) = n + 1 + l
      BY <1>1, <1>2
    <2> QED BY <1>2, <1>3, <2>1, LenProperties
  <1>6. s[n + 1] = e[1] /\ \A i \in 1..l : s[n + 1 + i] = e[i + 1]
    <2>1. \A i \in 1..(l + 1) : s[n + i] = e[i]
      BY <1>1, <1>2
    <2>2. ASSUME NEW i \in 1..l PROVE s[n + 1 + i] = e[i + 1]
      <3>1. i + 1 \in 1..(l + 1) /\ n + (i + 1) = n + 1 + i
        BY <1>1
      <3>2. s[n + (i + 1)] = e[i + 1]
        BY <2>1, <3>1
      <3> QED BY <3>1, <3>2
    <2>3. 1 \in 1..(l + 1)
      BY <1>1
    <2> QED BY <2>1, <2>2, <2>3
  <1>7. Unit(s, n + 1) <=> e[1].m \in Units
    <2>1. n + 1 \in DOMAIN s
      BY <1>1, <1>5
    <2> QED BY <1>6, <2>1 DEF Unit
  <1>8. \A i \in 1..k : Unit(t, n + i) <=> c[i].m \in Units
    <2>1. \A i \in 1..k : n + i \in 1..(n + k + l)
      BY <1>4
    <2>2. \A i \in 1..k : n + i \in DOMAIN t
      BY <1>5, <2>1
    <2> QED BY <1>3, <2>2 DEF Unit
  <1>9. /\ Unit(s, n + 1) => k >= 1 /\ Unit(t, n + k) /\ t[n + k].f = s[n + 1].f
        /\ \A i \in 1..k : Unit(t, n + i) => i = k /\ Unit(s, n + 1) /\ t[n + k].f = s[n + 1].f
    <2>1. CASE k = 0 /\ e[1].m \notin Units
      BY <1>7, <2>1
    <2>2. CASE k = 1 /\ c[1].m \notin Units /\ e[1].m \notin Units
      BY <1>7, <1>8, <2>2
    <2>3. CASE k = 1 /\ c[1].m \in Units /\ e[1].m \in Units /\ c[1].f = e[1].f
      <3>1. 1 \in 1..k /\ \A i \in 1..k : i = 1
        BY <2>3
      <3>2. t[n + 1] = c[1] /\ Unit(t, n + 1)
        BY <1>3, <1>8, <2>3, <3>1
      <3> QED BY <1>6, <1>7, <2>3, <3>1, <3>2
    <2>4. CASE k = 2 /\ c[1].m \notin Units /\ c[2].m \in Units /\ e[1].m \in Units /\ c[2].f = e[1].f
      <3>1. 1 \in 1..k /\ 2 \in 1..k /\ \A i \in 1..k : i = 1 \/ i = 2
        BY <2>4
      <3>2. t[n + 2] = c[2] /\ Unit(t, n + 2) /\ ~Unit(t, n + 1)
        BY <1>3, <1>8, <2>4, <3>1
      <3> QED BY <1>6, <1>7, <2>4, <3>1, <3>2
    <2> QED BY <2>1, <2>2, <2>3, <2>4 DEF k
  <1>10. /\ \A i \in 1..n : t[i] = s[i]
         /\ \A i \in 1..l : t[n + k + i] = s[n + 1 + i]
    BY <1>1, <1>2, <1>3, <1>6
  <1>11. /\ InOrder(s, d) => InOrder(t, d)
         /\ Covers(s, d) => Covers(t, d)
    <2>1. Replaces(s, t, n, k, l)
      BY <1>5, <1>9, <1>10 DEF Replaces
    <2> QED BY <1>4, <2>1, Replaced
  <1> QED BY <1>11 DEF s, t

------------------------------------------------------------------------------
\* No step of the client puts a file back.
LEMMA AheadMoves ==
    ASSUME Base, Base', UNCHANGED job,
           \/ src' = src + 1 /\ pc' = "next"
           \/ UNCHANGED src /\ pc \in {"next", "ask", "stats"}
           \/ /\ UNCHANGED src /\ {pc, pc'} \cap {"next", "ask", "stats"} = {}
              /\ Inside' => Inside /\ (UNCHANGED todo \/ (todo # <<>> /\ todo' = Tail(todo)))
    PROVE  Ahead' \subseteq Ahead
  <1>1. UNCHANGED Sources /\ \A i, f : InSource(i, f)' <=> InSource(i, f)
    BY DEF Sources, InSource
  <1>2. Types /\ TodoInv /\ Types' /\ TodoInv'
    BY DEF Base
  <1>3. src \in Nat /\ src' \in Nat /\ todo \in Seq(Files)
    BY <1>2 DEF Types
  <1>4. CASE src' = src + 1 /\ pc' = "next"
    <2>1. ~Inside'
      BY <1>4 DEF Inside
    <2>2. ASSUME NEW i \in 1..Len(Sources), i > src' \/ i = src' PROVE i > src
      BY <1>3, <1>4, <2>2
    <2> QED BY <1>1, <1>4, <2>1, <2>2 DEF Ahead
  <1>5. CASE UNCHANGED src /\ pc \in {"next", "ask", "stats"}
    <2>1. ASSUME Inside', NEW x \in DOMAIN todo' PROVE src \in 1..Len(Sources) /\ InSource(src, todo'[x])
      <3>1. src \in 1..Len(Sources) /\ Rest(todo)'
        <4>1. src <= Len(Sources) /\ Rest(todo)'
          BY <1>1, <1>2, <1>5, <2>1 DEF TodoInv
        <4>2. Len(Sources) \in Nat /\ src >= 1
          BY <1>2, JobTypes DEF Types
        <4> QED BY <1>3, <4>1, <4>2
      <3>2. List' = List /\ List \in Seq(Files) /\ todo' \in Seq(Files)
        <4>1. List' = List
          BY <1>1, <1>5 DEF List
        <4> QED BY <1>2, <3>1, <4>1, ListTypes DEF Types
      <3>3. todo'[x] = List[Len(List) - Len(todo') + x] /\ Len(todo') <= Len(List)
        BY <3>1, <3>2 DEF Rest
      <3>4. Len(List) - Len(todo') + x \in DOMAIN List
        BY <3>2, <3>3
      <3> QED BY <3>1, <3>3, <3>4 DEF InSource, List
    <2> QED BY <1>1, <1>5, <2>1 DEF Ahead
  <1>6. CASE /\ UNCHANGED src /\ {pc, pc'} \cap {"next", "ask", "stats"} = {}
             /\ Inside' => Inside /\ (UNCHANGED todo \/ (todo # <<>> /\ todo' = Tail(todo)))
    <2>1. ASSUME Inside', NEW x \in DOMAIN todo' PROVE Inside /\ \E y \in DOMAIN todo : todo[y] = todo'[x]
      <3>1. CASE todo # <<>> /\ todo' = Tail(todo)
        <4>1. x + 1 \in DOMAIN todo /\ todo'[x] = todo[x + 1]
          BY <1>3, <3>1
        <4> QED BY <1>6, <2>1, <4>1
      <3>2. CASE UNCHANGED todo
        BY <1>6, <2>1, <3>2
      <3> QED BY <1>6, <2>1, <3>1, <3>2
    <2>2. pc \notin {"next", "ask", "stats"} /\ pc' \notin {"next", "ask", "stats"}
      BY <1>6
    <2> QED BY <1>1, <1>6, <2>1, <2>2 DEF Ahead
  <1> QED BY <1>4, <1>5, <1>6

\* A file the client is done with is not ahead: it is in no list again.
LEMMA LeftBehind ==
    ASSUME Base, NamedOnce, UNCHANGED job, pc \in {"send", "large"}, todo # <<>>,
           \/ src' = src + 1 /\ pc' = "next"
           \/ UNCHANGED src /\ pc' \notin {"next", "ask", "stats"} /\ (Inside' => todo' = Tail(todo))
    PROVE  Head(todo) \notin Ahead'
  <1>1. UNCHANGED Sources /\ \A i, f : InSource(i, f)' <=> InSource(i, f)
    BY DEF Sources, InSource
  <1>2. Types /\ src \in 1..Len(Sources) /\ Rest(todo)
    <2>1. Types /\ src <= Len(Sources) /\ Rest(todo)
      BY DEF Base, TodoInv, Inside
    <2>2. src >= 1 /\ src \in Nat /\ Len(Sources) \in Nat
      BY <2>1, JobTypes DEF Types
    <2> QED BY <2>1, <2>2
  <1>3. /\ List \in Seq(Files) /\ todo \in Seq(Files)
        /\ Len(todo) \in Nat /\ Len(List) \in Nat /\ Len(todo) >= 1 /\ Head(todo) = todo[1]
    BY <1>2, ListTypes DEF Types
  <1>4. PICK p \in DOMAIN List : p = Len(List) - Len(todo) + 1 /\ List[p] = Head(todo)
    <2>1. Len(todo) <= Len(List) /\ todo[1] = List[Len(List) - Len(todo) + 1]
      BY <1>2, <1>3 DEF Rest
    <2>2. Len(List) - Len(todo) + 1 \in DOMAIN List
      BY <1>3, <2>1
    <2> QED BY <1>3, <2>1, <2>2
  <1>5. \A i, k \in 1..Len(Sources) : \A x \in DOMAIN Sources[i].files, y \in DOMAIN Sources[k].files :
           Sources[i].files[x] = Sources[k].files[y] => i = k /\ x = y
    <2>1. DOMAIN Sources = 1..Len(Sources)
      <3>1. Sources \in Seq([dir : BOOLEAN, files : Seq(Files)])
        BY <1>2, SyncPushAssumption DEF Types, Sources
      <3> QED BY <3>1
    <2> QED BY <1>2, <2>1 DEF NamedOnce, Types, Sources
  <1>6. ASSUME NEW i \in 1..Len(Sources), i # src PROVE ~InSource(i, Head(todo))
    BY <1>2, <1>4, <1>5, <1>6 DEF InSource, List
  <1>7. ASSUME Inside', todo' = Tail(todo), NEW x \in DOMAIN todo' PROVE todo'[x] # Head(todo)
    <2>1. x + 1 \in 1..Len(todo) /\ todo'[x] = todo[x + 1] /\ x \in Nat /\ x >= 1
      BY <1>3, <1>7
    <2>2. todo[x + 1] = List[Len(List) - Len(todo) + (x + 1)] /\ Len(todo) <= Len(List)
      BY <1>2, <2>1 DEF Rest
    <2>3. PICK q \in DOMAIN List : q = Len(List) - Len(todo) + (x + 1) /\ List[q] = todo'[x]
      <3>1. Len(List) - Len(todo) + (x + 1) \in DOMAIN List
        BY <1>3, <2>1, <2>2
      <3> QED BY <2>1, <2>2, <3>1
    <2>4. q # p
      BY <1>3, <1>4, <2>1, <2>3
    <2> QED BY <1>2, <1>4, <1>5, <2>3, <2>4 DEF List
  <1>8. src \in Nat /\ src' \in {src, src + 1}
    BY <1>2
  <1>9. ASSUME NEW i \in 1..Len(Sources), i > src' \/ (i = src' /\ pc' \in {"next", "ask", "stats"})
        PROVE  i # src
    BY <1>8, <1>9
  <1>10. Inside' => todo' = Tail(todo)
    BY DEF Inside
  <1> QED BY <1>1, <1>6, <1>7, <1>9, <1>10 DEF Ahead

------------------------------------------------------------------------------
\* What a step of the client does to the stream and to its own books.

\* It does not stay inside SendLargeFile.
Leaves == pc' # "large" /\ (pc = "large" => Head(todo) \notin Ahead')

\* It reads and writes nothing.
Idles ==
    /\ UNCHANGED <<rep, req, deferred, reported>>
    /\ \/ Leaves
       \/ pc = "large" /\ UNCHANGED <<pc, todo>>
       \/ pc = "send" /\ pc' = "large" /\ closed

\* It reads an answer to lstat, or the header of a failure.
ReadsOther ==
    /\ rep # <<>> /\ rep' = Tail(rep) /\ Head(rep).m \notin Units
    /\ UNCHANGED <<req, deferred, reported>>
    /\ Leaves

\* It reads the answer to the oldest file.
ReadsUnit ==
    /\ rep # <<>> /\ rep' = Tail(rep) /\ deferred # <<>> /\ deferred' = Tail(deferred)
    /\ \/ Head(rep).m = "okay" /\ UNCHANGED reported
       \/ Head(rep).m = "reason" /\ reported' = reported \cup {Head(deferred)}
    /\ UNCHANGED req
    /\ Leaves

\* It writes a request that ends no file.
Asks(k) ==
    /\ todo # <<>> /\ req' = Append(req, [m |-> k, f |-> Head(todo)])
    /\ UNCHANGED <<rep, deferred, reported>> /\ ~closed
    /\ \/ k = "lstat" /\ Leaves
       \/ k = "send" /\ pc = "send" /\ pc' = "large" /\ UNCHANGED todo
       \/ k = "data" /\ pc = "large" /\ UNCHANGED <<pc, todo>>

\* It ends a file, which is outstanding from now on.
Sends(k) ==
    /\ todo # <<>> /\ deferred' = Append(deferred, Head(todo))
    /\ IF closed THEN UNCHANGED req ELSE req' = Append(req, [m |-> k, f |-> Head(todo)])
    /\ UNCHANGED <<rep, reported>>
    /\ (pc = "send" /\ k = "small") \/ (pc = "large" /\ k = "done")
    /\ pc' # "large" /\ Head(todo) \notin Ahead'

\* One of these.
Kinds ==
    \/ Idles \/ ReadsOther \/ ReadsUnit
    \/ \E k \in {"lstat", "send", "data"} : Asks(k)
    \/ \E k \in {"small", "done"} : Sends(k)

\* Every step of the client is of one of these kinds.
LEMMA ClientKinds ==
    ASSUME Base, Base', NamedOnce, (Client \/ SendData) /\ UNCHANGED job
    PROVE  /\ Ahead' \subseteq Ahead /\ Kinds
           /\ UNCHANGED <<job, out, recv, stored, closed>>
  <1> USE DEF device
  <1>1. Types /\ TodoInv /\ PairInv
    BY DEF Base
  <1>2. pc = "large" => todo # <<>>
    BY <1>1 DEF TodoInv
  <1>3. UNCHANGED <<job, out, recv, stored, closed>>
    BY DEF Client, SendData, client, NextSource, SourceFails, SourcesEnd, AskStat, AskFails, FinishStat,
           SkipFile, FilesEnd, LocalFails, SendSmallFile, SendRequest, SendDone, LargeFails,
           AllRead, TryLater, ReadHeader, ReadFailure, ReadError
  <1>4. CASE NextSource \/ SourceFails \/ SourcesEnd
    <2>1. Ahead' \subseteq Ahead
      BY <1>4, AheadMoves DEF NextSource, SourceFails, SourcesEnd, GiveUp
    <2>2. Idles
      BY <1>4 DEF Idles, Leaves, NextSource, SourceFails, SourcesEnd, GiveUp
    <2> QED BY <1>3, <2>1, <2>2 DEF Kinds
  <1>5. CASE AskStat
    <2>1. Ahead' \subseteq Ahead
      BY <1>5, AheadMoves DEF AskStat
    <2>2. CASE todo = <<>> \/ closed
      <3>1. Idles
        BY <1>5, <2>2 DEF Idles, Leaves, AskStat, Write
      <3> QED BY <1>3, <2>1, <3>1 DEF Kinds
    <2>3. CASE todo # <<>> /\ ~closed
      <3>1. Asks("lstat")
        BY <1>5, <2>3 DEF Asks, Leaves, AskStat, Write
      <3> QED BY <1>3, <2>1, <3>1 DEF Kinds
    <2> QED BY <2>2, <2>3
  <1>6. CASE AskFails
    <2>1. Ahead' \subseteq Ahead
      BY <1>6, AheadMoves DEF AskFails, GiveUp
    <2>2. Idles
      BY <1>6 DEF Idles, Leaves, AskFails, GiveUp, WriteFails
    <2> QED BY <1>3, <2>1, <2>2 DEF Kinds
  <1>7. CASE FinishStat
    <2>1. Ahead' \subseteq Ahead
      BY <1>7, AheadMoves DEF FinishStat
    <2>2. Idles \/ ReadsOther
      BY <1>7 DEF Idles, ReadsOther, Leaves, FinishStat, Units
    <2> QED BY <1>3, <2>1, <2>2 DEF Kinds
  <1>8. CASE SkipFile \/ FilesEnd
    <2>1. Ahead' \subseteq Ahead
      BY <1>8, AheadMoves DEF SkipFile, FilesEnd, Inside
    <2>2. Idles
      BY <1>8 DEF Idles, Leaves, SkipFile, FilesEnd
    <2> QED BY <1>3, <2>1, <2>2 DEF Kinds
  <1>9. CASE LocalFails \/ LargeFails
    <2>1. src' = src + 1 /\ pc' = "next" /\ UNCHANGED <<rep, req, deferred, reported>>
      BY <1>9 DEF LocalFails, LargeFails, Sending, GiveUp
    <2>2. Ahead' \subseteq Ahead
      BY <2>1, AheadMoves
    <2>3. Leaves
      BY <1>2, <2>1, LeftBehind DEF Leaves
    <2> QED BY <1>3, <2>1, <2>2, <2>3 DEF Kinds, Idles
  <1>10. CASE SendSmallFile \/ SendDone
    <2>1. /\ todo # <<>> /\ pc \in {"send", "large"} /\ UNCHANGED src
          /\ pc' \notin {"next", "ask", "stats", "large"} /\ (Inside' => todo' = Tail(todo))
      BY <1>2, <1>10 DEF SendSmallFile, SendDone, Sending, WriteOrDie, FileSent, Inside
    <2>2. Head(todo) \notin Ahead'
      BY <2>1, LeftBehind
    <2>3. Ahead' \subseteq Ahead
      BY <2>1, AheadMoves DEF Inside
    <2>4. CASE pc' = "exit"
      <3>1. Idles
        BY <1>10, <2>1, <2>2, <2>4 DEF Idles, Leaves, SendSmallFile, SendDone, Sending, WriteOrDie, FileSent,
                                     WriteFails
      <3> QED BY <1>3, <2>3, <3>1 DEF Kinds
    <2>5. CASE pc' # "exit"
      <3>1. CASE SendSmallFile
        <4>1. FileSent(Head(todo)) /\ Write("small", Head(todo)) /\ pc = "send" /\ UNCHANGED rep
          BY <2>5, <3>1 DEF SendSmallFile, Sending, WriteOrDie
        <4>2. Sends("small")
          BY <1>3, <2>1, <2>2, <4>1 DEF Sends, FileSent, Write
        <4> QED BY <1>3, <2>3, <4>2 DEF Kinds
      <3>2. CASE SendDone
        <4>1. FileSent(Head(todo)) /\ Write("done", Head(todo)) /\ pc = "large" /\ UNCHANGED rep
          BY <2>5, <3>2 DEF SendDone, WriteOrDie
        <4>2. Sends("done")
          BY <1>3, <2>1, <2>2, <4>1 DEF Sends, FileSent, Write
        <4> QED BY <1>3, <2>3, <4>2 DEF Kinds
      <3> QED BY <1>10, <3>1, <3>2
    <2> QED BY <2>4, <2>5
  <1>11. CASE SendRequest
    <2>1. Ahead' \subseteq Ahead
      BY <1>11, AheadMoves DEF SendRequest, Sending, Inside, GiveUp
    <2>2. CASE WriteFails /\ GiveUp
      <3>1. Idles
        BY <1>11, <2>2 DEF Idles, Leaves, SendRequest, Sending, WriteFails, GiveUp
      <3> QED BY <1>3, <2>1, <3>1 DEF Kinds
    <2>3. CASE Write("send", Head(todo)) /\ pc' = "large" /\ UNCHANGED todo
      <3>1. pc = "send" /\ todo # <<>> /\ UNCHANGED <<rep, deferred, reported>>
        BY <1>11 DEF SendRequest, Sending
      <3>2. CASE closed
        <4>1. Idles
          BY <2>3, <3>1, <3>2 DEF Idles, Write
        <4> QED BY <1>3, <2>1, <4>1 DEF Kinds
      <3>3. CASE ~closed
        <4>1. Asks("send")
          BY <2>3, <3>1, <3>3 DEF Asks, Write
        <4> QED BY <1>3, <2>1, <4>1 DEF Kinds
      <3> QED BY <3>2, <3>3
    <2> QED BY <1>11, <2>2, <2>3 DEF SendRequest
  <1>12. CASE SendData
    <2>1. pc = "large" /\ todo # <<>> /\ UNCHANGED rep
      BY <1>2, <1>12 DEF SendData
    <2>2. CASE Write("data", Head(todo)) /\ UNCHANGED client
      <3>1. Ahead' \subseteq Ahead
        BY <2>1, <2>2, AheadMoves DEF client, Inside
      <3>2. CASE closed
        <4>1. Idles
          BY <2>1, <2>2, <3>2 DEF Idles, Write, client
        <4> QED BY <1>3, <3>1, <4>1 DEF Kinds
      <3>3. CASE ~closed
        <4>1. Asks("data")
          BY <2>1, <2>2, <3>3 DEF Asks, Write, client
        <4> QED BY <1>3, <3>1, <4>1 DEF Kinds
      <3> QED BY <3>2, <3>3
    <2>3. CASE WriteFails /\ pc' = "exit" /\ UNCHANGED <<src, todo, deferred, reported>>
      <3>1. ~Inside'
        BY <2>3 DEF Inside
      <3>2. Ahead' \subseteq Ahead
        BY <2>1, <2>3, <3>1, AheadMoves
      <3>3. Head(todo) \notin Ahead'
        BY <2>1, <2>3, <3>1, LeftBehind
      <3>4. Idles
        BY <2>1, <2>3, <3>3 DEF Idles, Leaves, WriteFails
      <3> QED BY <1>3, <3>2, <3>4 DEF Kinds
    <2> QED BY <1>12, <2>2, <2>3 DEF SendData, WriteOrDie
  <1>13. CASE AllRead \/ TryLater \/ ReadError
    <2>1. Ahead' \subseteq Ahead
      BY <1>13, AheadMoves DEF AllRead, TryLater, ReadError, Return, Inside
    <2>2. Idles
      BY <1>13 DEF Idles, Leaves, AllRead, TryLater, ReadError, Return, AckVars
    <2> QED BY <1>3, <2>1, <2>2 DEF Kinds
  <1>14. CASE ReadHeader
    <2>1. Ahead' \subseteq Ahead
      BY <1>14, AheadMoves DEF ReadHeader, Inside
    <2>2. ReadsOther \/ ReadsUnit
      BY <1>14 DEF ReadsOther, ReadsUnit, Leaves, ReadHeader, CopyDone, Units
    <2> QED BY <1>3, <2>1, <2>2 DEF Kinds
  <1>15. CASE ReadFailure
    <2>1. Ahead' \subseteq Ahead
      BY <1>15, AheadMoves DEF ReadFailure, Return, Inside
    <2>2. Head(rep).m = "reason"
      <3>1. Len(rep) >= 1 /\ Parts > 0 /\ Head(rep) = rep[1]
        BY <1>1, <1>15 DEF ReadFailure, Types, Parts
      <3> QED BY <1>1, <1>15, <3>1 DEF PairInv, ReadFailure, Part
    <2>3. ReadsUnit
      BY <1>15, <2>2 DEF ReadsUnit, Leaves, ReadFailure, CopyDone, Return
    <2> QED BY <1>3, <2>1, <2>3 DEF Kinds
  <1> QED BY <1>4, <1>5, <1>6, <1>7, <1>8, <1>9, <1>10, <1>11, <1>12, <1>13, <1>14, <1>15 DEF Client

------------------------------------------------------------------------------
\* The file the client is at is ahead.
LEMMA TodoAhead ==
    ASSUME Base, todo # <<>>, Inside
    PROVE  Head(todo) \in Ahead
  <1>1. 1 \in DOMAIN todo /\ todo[1] = Head(todo) /\ Head(todo) \in Files
    BY DEF Base, Types
  <1> QED BY <1>1 DEF Ahead

\* What is ahead is neither outstanding nor reported, and nothing twice.
LEMMA BooksKept ==
    ASSUME Base, AheadInv, Ahead' \subseteq Ahead, Kinds
    PROVE  AheadInv'
  <1>1. deferred \in Seq(Files)
    BY DEF Base, Types
  <1>2. CASE UNCHANGED <<deferred, reported>>
    BY <1>2 DEF AheadInv
  <1>3. CASE ReadsUnit
    <2>1. /\ DOMAIN deferred' = 1..(Len(deferred) - 1) /\ Len(deferred) \in Nat /\ DOMAIN deferred = 1..Len(deferred)
          /\ \A i \in 1..(Len(deferred) - 1) : deferred'[i] = deferred[i + 1]
          /\ 1 \in DOMAIN deferred /\ Head(deferred) = deferred[1]
      BY <1>1, <1>3 DEF ReadsUnit
    <2>2. \A i \in DOMAIN deferred' : i + 1 \in DOMAIN deferred /\ i + 1 # 1 /\ deferred'[i] = deferred[i + 1]
      BY <2>1
    <2>3. \A i, j \in DOMAIN deferred' : deferred'[i] = deferred'[j] => i = j
      <3>1. ASSUME NEW i \in DOMAIN deferred', NEW j \in DOMAIN deferred', deferred'[i] = deferred'[j]
            PROVE i = j
        <4>1. i + 1 = j + 1
          BY <2>2, <3>1 DEF AheadInv
        <4>2. i \in Int /\ j \in Int
          BY <2>1
        <4> QED BY <4>1, <4>2
      <3> QED BY <3>1
    <2>4. reported' \subseteq reported \cup {deferred[1]}
      BY <1>3, <2>1 DEF ReadsUnit
    <2>5. \A i \in DOMAIN deferred' : deferred'[i] # deferred[1]
      BY <2>1, <2>2 DEF AheadInv
    <2> QED BY <2>1, <2>2, <2>3, <2>4, <2>5 DEF AheadInv
  <1>4. CASE \E k \in {"small", "done"} : Sends(k)
    <2>1. PICK f \in Files : f = Head(todo)
      BY <1>4 DEF Sends, Base, Types
    <2>2. f \in Ahead /\ f \notin Ahead' /\ deferred' = Append(deferred, f) /\ UNCHANGED reported
      BY <1>4, <2>1, TodoAhead DEF Sends, Inside
    <2>3. /\ DOMAIN deferred' = 1..(Len(deferred) + 1) /\ Len(deferred) \in Nat /\ DOMAIN deferred = 1..Len(deferred)
          /\ \A i \in 1..Len(deferred) : deferred'[i] = deferred[i]
          /\ deferred'[Len(deferred) + 1] = f
      BY <1>1, <2>2
    <2>4. \A i \in DOMAIN deferred' : (i \in DOMAIN deferred /\ deferred'[i] = deferred[i])
                                      \/ (i = Len(deferred) + 1 /\ deferred'[i] = f)
      BY <2>3
    <2>5. \A i \in DOMAIN deferred : deferred[i] # f
      BY <2>2 DEF AheadInv
    <2> QED BY <2>2, <2>4, <2>5 DEF AheadInv
  <1> QED BY <1>2, <1>3, <1>4 DEF Kinds, Idles, ReadsOther, Asks

\* A device that waits for a file given up waits for ever.
LEMMA StuckKept ==
    ASSUME Base, Stuck, Ahead' \subseteq Ahead, Kinds, UNCHANGED recv
    PROVE  Stuck'
  <1>1. req \in Seq(Requests)
    BY DEF Base, Types
  <1>2. CASE UNCHANGED req
    BY <1>2 DEF Stuck
  <1>3. ASSUME NEW k, Asks(k) \/ Sends(k), ~UNCHANGED req PROVE Stuck'
    <2>1. PICK r \in Requests : r.m = k /\ r.f = Head(todo) /\ req' = Append(req, r)
      <3>1. k \in {"lstat", "send", "data", "small", "done"} /\ todo # <<>>
            /\ req' = Append(req, [m |-> k, f |-> Head(todo)])
        BY <1>3 DEF Asks, Sends
      <3>2. [m |-> k, f |-> Head(todo)] \in Requests
        BY <3>1 DEF Requests, Base, Types
      <3> QED BY <3>1, <3>2
    <2>2. \A i \in DOMAIN req' : (i \in DOMAIN req /\ req'[i] = req[i]) \/ req'[i] = r
      BY <1>1, <2>1
    <2>3. r.m \in {"data", "done"} => r.f \notin recv
      <3>1. ASSUME r.m \in {"data", "done"} PROVE r.f \in Ahead
        <4>1. Inside /\ todo # <<>>
          BY <1>3, <2>1, <3>1 DEF Asks, Sends, Inside
        <4> QED BY <2>1, <4>1, TodoAhead
      <3> QED BY <3>1 DEF Stuck
    <2> QED BY <2>2, <2>3 DEF Stuck
  <1> QED BY <1>2, <1>3 DEF Kinds, Idles, ReadsOther, ReadsUnit

\* The stream after each kind of step.
LEMMA StreamKinds ==
    ASSUME Base, Kinds, UNCHANGED out
    PROVE  /\ Stream \in Seq(Replies \cup Requests)
           /\ UNCHANGED <<rep, req>> => UNCHANGED Stream
           /\ ReadsOther \/ ReadsUnit => /\ Stream # <<>> /\ Stream' = Tail(Stream)
                                         /\ Head(Stream) = Head(rep) /\ Stream[1] = Head(rep)
           /\ \A k : (Asks(k) \/ Sends(k)) /\ ~closed =>
                 \E x \in Requests : x.m = k /\ x.f = Head(todo) /\ Stream' = Append(Stream, x)
  <1>1. Types
    BY DEF Base
  <1>2. Stream \in Seq(Replies \cup Requests)
    BY <1>1, StreamSteps
  <1>3. UNCHANGED <<rep, req>> => UNCHANGED Stream
    BY DEF Stream
  <1>4. ReadsOther \/ ReadsUnit => /\ Stream # <<>> /\ Stream' = Tail(Stream)
                                   /\ Head(Stream) = Head(rep) /\ Stream[1] = Head(rep)
    <2>1. ASSUME ReadsOther \/ ReadsUnit PROVE rep # <<>> /\ Stream' = Tail(rep) \o out \o req
      BY <2>1 DEF ReadsOther, ReadsUnit, Stream
    <2> QED BY <1>1, <2>1, StreamSteps
  <1>5. ASSUME NEW k, Asks(k) \/ Sends(k), ~closed
        PROVE  \E x \in Requests : x.m = k /\ x.f = Head(todo) /\ Stream' = Append(Stream, x)
    <2>1. /\ k \in {"lstat", "send", "data", "small", "done"} /\ todo # <<>> /\ UNCHANGED rep
          /\ req' = Append(req, [m |-> k, f |-> Head(todo)])
      BY <1>5 DEF Asks, Sends
    <2>2. [m |-> k, f |-> Head(todo)] \in Requests
      BY <1>1, <2>1 DEF Requests, Types
    <2>3. PICK x \in Requests : x = [m |-> k, f |-> Head(todo)]
      BY <2>2
    <2>4. Stream' = rep \o out \o Append(req, x)
      BY <2>1, <2>3 DEF Stream
    <2>5. Stream' = Append(Stream, x)
      BY <1>1, <2>4, StreamSteps
    <2> QED BY <2>3, <2>5
  <1> QED BY <1>2, <1>3, <1>4, <1>5

\* The client keeps the order of the answers.
LEMMA AnswerKept ==
    ASSUME Base, AheadInv, AnswerInv, Kinds, UNCHANGED <<out, closed>>
    PROVE  AnswerInv'
  <1> DEFINE M == Replies \cup Requests
  <1>1. Stream \in Seq(M) /\ deferred \in Seq(Files)
    BY StreamKinds DEF Base, Types
  <1> HIDE DEF M
  <1>2. CASE Idles
    BY <1>2, StreamKinds DEF Idles, AnswerInv
  <1>3. CASE ReadsOther
    <2>1. /\ Stream # <<>> /\ Stream' = Tail(Stream) /\ Head(Stream).m \notin Units /\ UNCHANGED deferred
      BY <1>3, StreamKinds DEF ReadsOther
    <2>2. InOrder(Tail(Stream), deferred) /\ (Covers(Stream, deferred) => Covers(Tail(Stream), deferred))
      BY <1>1, <2>1, OtherMessages DEF AnswerInv
    <2> QED BY <2>1, <2>2 DEF AnswerInv
  <1>4. CASE ReadsUnit
    <2>1. /\ Stream # <<>> /\ Stream' = Tail(Stream) /\ Head(Stream).m \in Units /\ deferred' = Tail(deferred)
      BY <1>4, StreamKinds DEF ReadsUnit, Units
    <2>2. /\ InOrder(Tail(Stream), Tail(deferred))
          /\ Covers(Stream, deferred) => Covers(Tail(Stream), Tail(deferred))
      BY <1>1, <2>1, FirstAnswered DEF AnswerInv, AheadInv
    <2> QED BY <2>1, <2>2 DEF AnswerInv
  <1>5. ASSUME NEW k \in {"lstat", "send", "data"}, Asks(k) PROVE AnswerInv'
    <2>1. PICK x \in Requests : x.m = k /\ Stream' = Append(Stream, x)
      BY <1>5, StreamKinds DEF Asks
    <2>2. x.m \notin Units /\ x \in M /\ UNCHANGED deferred
      BY <1>5, <2>1 DEF Units, M, Asks
    <2>3. InOrder(Append(Stream, x), deferred) /\ (Covers(Stream, deferred) => Covers(Append(Stream, x), deferred))
      BY <1>1, <2>2, OtherMessages DEF AnswerInv
    <2> QED BY <2>1, <2>2, <2>3 DEF AnswerInv
  <1>6. ASSUME NEW k \in {"small", "done"}, Sends(k) PROVE AnswerInv'
    <2>1. PICK f \in Files : f = Head(todo)
      BY <1>6 DEF Sends, Base, Types
    <2>2. deferred' = Append(deferred, f) /\ \A i \in DOMAIN deferred : deferred[i] # f
      BY <1>6, <2>1, TodoAhead DEF Sends, Inside, AheadInv
    <2>3. CASE closed
      <3>1. UNCHANGED Stream
        BY <1>6, <2>3, StreamKinds DEF Sends
      <3>2. InOrder(Stream, Append(deferred, f))
        BY <1>1, LastOutstanding DEF AnswerInv
      <3> QED BY <2>2, <2>3, <3>1, <3>2 DEF AnswerInv
    <2>4. CASE ~closed
      <3>1. PICK x \in Requests : x.m = k /\ x.f = f /\ Stream' = Append(Stream, x)
        BY <1>6, <2>1, <2>4, StreamKinds
      <3>2. x \in M /\ x.m \in Units
        BY <3>1 DEF M, Units
      <3>3. InOrder(Append(Stream, x), Append(deferred, f)) /\ Covers(Append(Stream, x), Append(deferred, f))
        BY <1>1, <2>2, <2>4, <3>1, <3>2, LastOutstanding DEF AnswerInv
      <3> QED BY <2>2, <3>1, <3>3 DEF AnswerInv
    <2> QED BY <2>3, <2>4
  <1> QED BY <1>2, <1>3, <1>4, <1>5, <1>6 DEF Kinds

\* It reports the file whose failure it reads.
LEMMA FailedKept ==
    ASSUME Base, AheadInv, AnswerInv, FailedInv, Kinds, UNCHANGED <<out, stored>>
    PROVE  FailedInv'
  <1>1. Stream \in Seq(Replies \cup Requests) /\ deferred \in Seq(Files)
    BY StreamKinds DEF Base, Types
  <1>2. CASE Idles
    BY <1>2, StreamKinds DEF Idles, FailedInv
  <1>3. CASE ReadsOther \/ ReadsUnit
    <2>1. /\ Stream # <<>> /\ Stream' = Tail(Stream) /\ Stream[1] = Head(rep) /\ Head(Stream) = Head(rep)
      BY <1>3, StreamKinds
    <2>2. 1 \in DOMAIN Stream /\ \A i \in DOMAIN Stream' : i + 1 \in DOMAIN Stream /\ Stream'[i] = Stream[i + 1]
      BY <1>1, <2>1
    <2>3. reported' \cap stored = {}
      <3>1. CASE UNCHANGED reported
        BY <3>1 DEF FailedInv
      <3>2. CASE Head(rep).m = "reason" /\ reported' = reported \cup {Head(deferred)}
        <4>1. Head(deferred) = Stream[1].f
          BY <1>1, <2>1, <3>2, FirstAnswered DEF AnswerInv, AheadInv, Units
        <4>2. Stream[1].f \notin stored
          BY <2>1, <2>2, <3>2 DEF FailedInv
        <4> QED BY <3>2, <4>1, <4>2 DEF FailedInv
      <3> QED BY <1>3, <3>1, <3>2 DEF ReadsOther, ReadsUnit
    <2> QED BY <2>2, <2>3 DEF FailedInv
  <1>4. ASSUME NEW k, Asks(k) \/ Sends(k), k \in {"lstat", "send", "data", "small", "done"} PROVE FailedInv'
    <2>1. UNCHANGED reported
      BY <1>4 DEF Asks, Sends
    <2>2. CASE closed
      BY <1>4, <2>1, <2>2, StreamKinds DEF Asks, Sends, FailedInv
    <2>3. CASE ~closed
      <3>1. PICK x \in Requests : x.m = k /\ Stream' = Append(Stream, x)
        BY <1>4, <2>3, StreamKinds
      <3>2. x.m # "reason"
        BY <1>4, <3>1
      <3>3. \A i \in DOMAIN Stream' : (i \in DOMAIN Stream /\ Stream'[i] = Stream[i]) \/ Stream'[i] = x
        BY <1>1, <3>1
      <3> QED BY <2>1, <3>2, <3>3 DEF FailedInv
    <2> QED BY <2>2, <2>3
  <1> QED BY <1>2, <1>3, <1>4 DEF Kinds

------------------------------------------------------------------------------
\* The client writes a file in one piece.
LEMMA ContinuesKept ==
    ASSUME req \in Seq(Requests), UNCHANGED recv, NEW r \in Requests, req' = Append(req, r),
           NEW f, NEW i \in 1..(Len(req) + 1), Continues(f, i)
    PROVE  Continues(f, i)'
  <1>1. \A j \in 1..(i - 1) : req'[j] = req[j] /\ (IsData(j, f)' <=> IsData(j, f))
    BY DEF IsData
  <1>2. CASE recv = {f} /\ \A k \in 1..(i - 1) : IsData(k, f)
    BY <1>1, <1>2 DEF Continues
  <1>3. ASSUME NEW j \in 1..(i - 1), req[j].m = "send", req[j].f = f, \A k \in (j + 1)..(i - 1) : IsData(k, f)
        PROVE  Continues(f, i)'
    <2>1. \A k \in (j + 1)..(i - 1) : IsData(k, f)'
      BY <1>1, <1>3
    <2> QED BY <1>1, <1>3, <2>1 DEF Continues
  <1> QED BY <1>2, <1>3 DEF Continues

\* Whatever the client writes, files stay in one piece.
LEMMA GroupKept ==
    ASSUME Base, GroupInv, Kinds, UNCHANGED <<recv, closed>>
    PROVE  GroupInv'
  <1>1. req \in Seq(Requests)
    BY DEF Base, Types
  <1>2. CASE UNCHANGED req
    <2>1. \A f, i : Continues(f, i)' <=> Continues(f, i)
      BY <1>2 DEF Continues, IsData
    <2>2. ASSUME pc' = "large", ~closed PROVE pc = "large" /\ UNCHANGED todo
      <3>1. ASSUME NEW k, Asks(k) PROVE FALSE
        <4>1. Len(Append(req, [m |-> k, f |-> Head(todo)])) = Len(req) + 1 /\ Len(req) \in Nat
          BY <1>1
        <4> QED BY <1>2, <3>1, <4>1 DEF Asks
      <3> QED BY <2>2, <3>1 DEF Kinds, Idles, ReadsOther, ReadsUnit, Sends, Leaves
    <2> QED BY <1>2, <2>1, <2>2 DEF GroupInv
  <1>3. ASSUME NEW k, (Asks(k) \/ Sends(k)) /\ ~closed, k \in {"lstat", "send", "data", "small", "done"}
        PROVE  GroupInv'
    <2>1. PICK r \in Requests : r.m = k /\ r.f = Head(todo) /\ req' = Append(req, r)
      <3>1. todo # <<>> /\ req' = Append(req, [m |-> k, f |-> Head(todo)])
        BY <1>3 DEF Asks, Sends
      <3>2. [m |-> k, f |-> Head(todo)] \in Requests
        BY <1>3, <3>1 DEF Requests, Base, Types
      <3> QED BY <3>1, <3>2
    <2>2. PICK n \in Nat : n = Len(req)
      BY <1>1
    <2>3. /\ DOMAIN req' = 1..(n + 1) /\ Len(req') = n + 1 /\ DOMAIN req = 1..n
          /\ \A i \in 1..n : req'[i] = req[i]
          /\ req'[n + 1] = r
      BY <1>1, <2>1, <2>2
    <2>4. \A f : \A i \in 1..(n + 1) : Continues(f, i) => Continues(f, i)'
      BY <1>1, <2>1, <2>2, ContinuesKept
    <2>5. ASSUME NEW f \in Files, k \in {"data", "done"}, f = Head(todo) PROVE Continues(f, n + 1)
      <3>1. pc = "large"
        BY <1>3, <2>5 DEF Asks, Sends
      <3> QED BY <1>3, <2>2, <2>5, <3>1 DEF GroupInv
    <2>6. ASSUME NEW i \in DOMAIN req', NEW f \in Files, req'[i].m \in {"data", "done"}, req'[i].f = f
          PROVE  Continues(f, i)'
      <3>1. CASE i \in 1..n
        <4>1. Continues(f, i)
          BY <2>3, <2>6, <3>1 DEF GroupInv
        <4> QED BY <2>4, <3>1, <4>1
      <3>2. CASE i = n + 1
        <4>1. k \in {"data", "done"} /\ f = Head(todo)
          BY <2>1, <2>3, <2>6, <3>2
        <4>2. Continues(f, n + 1)
          BY <2>5, <4>1
        <4> QED BY <2>4, <3>2, <4>2
      <3>3. i \in 1..n \/ i = n + 1
        BY <2>3
      <3> QED BY <3>1, <3>2, <3>3
    <2>7. ASSUME NEW f \in Files, pc' = "large", f = Head(todo'), NEW z, z = n + 1 + 1
          PROVE  Continues(f, z)'
      <3>1. k \in {"send", "data"} /\ UNCHANGED todo
        BY <1>3, <2>7 DEF Asks, Sends, Leaves
      <3>2. f = Head(todo) /\ z - 1 = n + 1
        BY <2>7, <3>1
      <3>3. r.f = f
        BY <2>1, <3>2
      <3>4. CASE k = "send"
        <4>1. req'[n + 1].m = "send" /\ req'[n + 1].f = f /\ n + 1 \in 1..(z - 1)
          BY <2>1, <2>3, <3>2, <3>3, <3>4
        <4>2. \A l \in (n + 1 + 1)..(z - 1) : IsData(l, f)'
          BY <3>2
        <4> QED BY <4>1, <4>2 DEF Continues
      <3>5. CASE k = "data"
        <4>1. IsData(n + 1, f)'
          BY <2>1, <2>3, <3>3, <3>5 DEF IsData
        <4>2. PICK y \in Nat : y = n + 1
          OBVIOUS
        <4>3. Continues(f, y)'
          BY <2>4, <2>5, <3>2, <3>5, <4>2
        <4>4. CASE recv' = {f} /\ \A l \in 1..(y - 1) : IsData(l, f)'
          <5>1. \A l \in 1..(z - 1) : l \in 1..(y - 1) \/ l = n + 1
            BY <3>2, <4>2
          <5>2. \A l \in 1..(z - 1) : IsData(l, f)'
            BY <4>1, <4>4, <5>1
          <5> QED BY <4>4, <5>2 DEF Continues
        <4>5. ASSUME NEW l \in 1..(y - 1), req'[l].m = "send", req'[l].f = f,
                     \A x \in (l + 1)..(y - 1) : IsData(x, f)'
              PROVE  Continues(f, z)'
          <5>1. l \in 1..(z - 1)
            BY <3>2, <4>2
          <5>2. \A x \in (l + 1)..(z - 1) : x \in (l + 1)..(y - 1) \/ x = n + 1
            BY <3>2, <4>2
          <5>3. \A x \in (l + 1)..(z - 1) : IsData(x, f)'
            BY <4>1, <4>5, <5>2
          <5> QED BY <4>5, <5>1, <5>3 DEF Continues
        <4> QED BY <4>3, <4>4, <4>5 DEF Continues
      <3> QED BY <3>1, <3>4, <3>5
    <2>8. ASSUME NEW f \in Files, pc' = "large", f = Head(todo') PROVE Continues(f, Len(req) + 1)'
      <3>1. PICK z \in Nat : z = n + 1 + 1
        OBVIOUS
      <3>2. Continues(f, z)' /\ z = Len(req') + 1
        BY <2>3, <2>7, <2>8, <3>1
      <3> QED BY <3>2 DEF Continues
    <2> QED BY <2>6, <2>8 DEF GroupInv
  <1> QED BY <1>2, <1>3 DEF Kinds, Idles, ReadsOther, ReadsUnit, Asks, Sends

\* A file that is begun is not ahead, but for the one the client is at.
LEMMA BegunKept ==
    ASSUME Base, BegunInv, Ahead' \subseteq Ahead, Kinds, UNCHANGED <<recv, closed>>
    PROVE  BegunInv'
  <1>1. req \in Seq(Requests)
    BY DEF Base, Types
  <1>2. pc = "large" /\ Head(todo) \in Ahead' => pc' = "large" /\ UNCHANGED todo
    BY DEF Kinds, Idles, ReadsOther, ReadsUnit, Asks, Sends, Leaves
  <1>3. ASSUME NEW f, f \in Ahead => pc = "large" /\ f = Head(todo), f \in Ahead'
        PROVE  pc' = "large" /\ f = Head(todo')
    BY <1>2, <1>3
  <1>4. CASE UNCHANGED req
    BY <1>3, <1>4 DEF BegunInv
  <1>5. ASSUME NEW k, (Asks(k) \/ Sends(k)) /\ ~closed, k \in {"lstat", "send", "data", "small", "done"}
        PROVE  BegunInv'
    <2>1. PICK r \in Requests : r.m = k /\ r.f = Head(todo) /\ req' = Append(req, r)
      <3>1. todo # <<>> /\ req' = Append(req, [m |-> k, f |-> Head(todo)])
        BY <1>5 DEF Asks, Sends
      <3>2. [m |-> k, f |-> Head(todo)] \in Requests
        BY <1>5, <3>1 DEF Requests, Base, Types
      <3> QED BY <3>1, <3>2
    <2>2. \A i \in DOMAIN req' : (i \in DOMAIN req /\ req'[i] = req[i]) \/ (i = Len(req) + 1 /\ req'[i] = r)
      BY <1>1, <2>1
    <2>3. CASE k # "send"
      <3>1. r.m # "send"
        BY <2>1, <2>3
      <3>2. \A i \in DOMAIN req' : req'[i].m = "send" => i \in DOMAIN req /\ req'[i] = req[i]
        BY <2>2, <3>1
      <3> QED BY <1>3, <3>2 DEF BegunInv
    <2>4. CASE k = "send"
      <3>1. pc = "send" /\ pc' = "large" /\ UNCHANGED todo /\ r.f = Head(todo) /\ r.f \in Ahead
        BY <1>5, <2>1, <2>4, TodoAhead DEF Asks, Sends, Inside
      <3>2. r.f \notin recv /\ \A i \in DOMAIN req : req[i].m = "send" => req[i].f # r.f
        BY <3>1 DEF BegunInv
      <3>3. ASSUME NEW i \in DOMAIN req', req'[i].m = "send"
            PROVE  /\ req'[i].f \notin recv'
                   /\ req'[i].f \in Ahead' => pc' = "large" /\ req'[i].f = Head(todo')
                   /\ \A j \in DOMAIN req' : req'[j].m = "send" /\ req'[j].f = req'[i].f => i = j
        <4>1. CASE i \in DOMAIN req /\ req'[i] = req[i]
          BY <1>3, <2>2, <3>2, <3>3, <4>1 DEF BegunInv
        <4>2. CASE i = Len(req) + 1 /\ req'[i] = r
          BY <2>2, <3>1, <3>2, <4>2
        <4> QED BY <2>2, <4>1, <4>2
      <3> QED BY <1>3, <3>3 DEF BegunInv
    <2> QED BY <2>3, <2>4
  <1> QED BY <1>4, <1>5 DEF Kinds, Idles, ReadsOther, ReadsUnit, Asks, Sends

------------------------------------------------------------------------------
\* The device reads a request.

\* What holds unless the device is stuck.
Held == AnswerInv /\ FailedInv /\ GroupInv /\ BegunInv

\* A step of the device leaves the books of the client alone.
LEMMA ClientStays ==
    ASSUME UNCHANGED <<job, client>>
    PROVE  UNCHANGED <<Ahead, AheadInv, deferred, reported, pc, todo>>
  <1>1. UNCHANGED <<job, pc, src, todo, ret, deferred, reported>>
    BY DEF client
  <1>2. UNCHANGED Ahead
    BY <1>1 DEF Ahead, Inside, InSource, Sources
  <1> QED BY <1>1, <1>2 DEF AheadInv

\* A large file that is refused has lost its data for good.
LEMMA RefusedStuck ==
    ASSUME Base, Held, ~closed, req # <<>>, req' = Tail(req), UNCHANGED <<job, client>>, Refuses(Head(req))
    PROVE  Stuck'
  <1>1. /\ req \in Seq(Requests) /\ recv \subseteq Files
        /\ 1 \in DOMAIN req /\ req[1] = Head(req) /\ Len(req) \in Nat
    BY DEF Base, Types
  <1>2. \A i \in DOMAIN req : req[i] \in Requests /\ req[i].f \in Files
    <2>1. \A i \in DOMAIN req : req[i] \in Requests
      BY <1>1
    <2> QED BY <2>1 DEF Requests
  <1>3. recv # {}
    <2>1. SUFFICES ASSUME recv = {} PROVE FALSE
      OBVIOUS
    <2>2. req[1].m \in {"data", "done"}
      <3>1. req[1].m \in {"lstat", "small", "send", "data", "done"}
        BY <1>1, <1>2 DEF Requests
      <3> QED BY <1>1, <2>1, <3>1 DEF Refuses
    <2>3. Continues(req[1].f, 1)
      BY <1>1, <1>2, <2>2 DEF Held, GroupInv
    <2> QED BY <2>1, <2>3 DEF Continues
  <1>4. PICK g \in recv : recv = {g}
    BY <1>3 DEF Held, BegunInv
  <1>5. g \in Files /\ \A i \in DOMAIN req : req[i].m = "send" => req[i].f # g
    BY <1>1, <1>4 DEF Held, BegunInv
  <1>6. ~(req[1].m \in {"data", "done"} /\ req[1].f = g)
    BY <1>1, <1>4 DEF Refuses
  <1>7. ASSUME NEW i \in 2..(Len(req) + 1) PROVE ~Continues(g, i)
    <2>1. 1 \in 1..(i - 1) /\ \A j \in 1..(i - 1) : j \in DOMAIN req
      BY <1>1
    <2>2. ~IsData(1, g)
      BY <1>6 DEF IsData
    <2> QED BY <1>5, <2>1, <2>2 DEF Continues
  <1>8. ASSUME NEW i \in DOMAIN req' PROVE ~(req'[i].m \in {"data", "done"} /\ req'[i].f = g)
    <2>1. i + 1 \in DOMAIN req /\ i + 1 \in 2..(Len(req) + 1) /\ req'[i] = req[i + 1]
      BY <1>1
    <2> QED BY <1>5, <1>7, <2>1 DEF Held, GroupInv
  <1>9. g \notin Ahead
    <2>1. SUFFICES ASSUME g \in Ahead PROVE FALSE
      OBVIOUS
    <2>2. pc = "large" /\ g = Head(todo)
      BY <1>4, <2>1 DEF Held, BegunInv
    <2>3. Continues(g, Len(req) + 1)
      BY <1>5, <2>2 DEF Held, GroupInv
    <2>4. Len(req) + 1 \in 2..(Len(req) + 1)
      BY <1>1
    <2> QED BY <1>7, <2>3, <2>4
  <1>10. recv' = {g} /\ Ahead' = Ahead
    BY <1>4, ClientStays DEF Refuses
  <1> QED BY <1>8, <1>9, <1>10 DEF Stuck

\* What the device puts into the stream for the request it takes out.
Gives(r, o) ==
    \/ o = <<>> /\ r.m \in {"send", "data"}
    \/ r.m = "lstat" /\ \E k \in {"same", "other"} : o = <<[m |-> k, f |-> r.f]>>
    \/ r.m \in {"small", "done"} /\ (o = <<[m |-> "okay", f |-> r.f]>> \/ o = Failure(r.f))

\* Serving a request keeps the order of the answers.
LEMMA AnswerServed ==
    ASSUME Base, Base', AnswerInv, out = <<>>, req # <<>>, req' = Tail(req),
           UNCHANGED <<rep, deferred, closed>>, Gives(Head(req), out')
    PROVE  AnswerInv'
  <1> DEFINE M == Replies \cup Requests
  <1>1. rep \in Seq(M) /\ out' \in Seq(M) /\ req \in Seq(M) /\ Len(req) >= 1 /\ req[1] = Head(req)
    <2>1. rep \in Seq(Replies) /\ out' \in Seq(Replies) /\ req \in Seq(Requests)
      BY DEF Base, Types
    <2>2. rep \in Seq(M) /\ out' \in Seq(M) /\ req \in Seq(M)
      BY <2>1
    <2> QED BY <2>1, <2>2
  <1> HIDE DEF M
  <1>2. \/ Len(out') = 0 /\ req[1].m \notin Units
        \/ Len(out') = 1 /\ out'[1].m \notin Units /\ req[1].m \notin Units
        \/ Len(out') = 1 /\ out'[1].m \in Units /\ req[1].m \in Units /\ out'[1].f = req[1].f
        \/ /\ Len(out') = 2 /\ out'[1].m \notin Units /\ out'[2].m \in Units
           /\ req[1].m \in Units /\ out'[2].f = req[1].f
    BY <1>1 DEF Gives, Failure, Units
  <1>3. Stream = rep \o <<>> \o req /\ Stream' = rep \o out' \o Tail(req)
    BY DEF Stream
  <1>4. PICK c \in Seq(M) : c = out'
    BY <1>1
  <1>5. PICK d : d = deferred
    OBVIOUS
  <1>6. /\ InOrder(rep \o <<>> \o req, d) => InOrder(rep \o c \o Tail(req), d)
        /\ Covers(rep \o <<>> \o req, d) => Covers(rep \o c \o Tail(req), d)
    <2>1. \/ Len(c) = 0 /\ req[1].m \notin Units
          \/ Len(c) = 1 /\ c[1].m \notin Units /\ req[1].m \notin Units
          \/ Len(c) = 1 /\ c[1].m \in Units /\ req[1].m \in Units /\ c[1].f = req[1].f
          \/ /\ Len(c) = 2 /\ c[1].m \notin Units /\ c[2].m \in Units
             /\ req[1].m \in Units /\ c[2].f = req[1].f
      BY <1>2, <1>4
    <2> QED BY <1>1, <2>1, Served
  <1> QED BY <1>3, <1>4, <1>5, <1>6 DEF AnswerInv

\* Where the elements of the new stream come from.
LEMMA StreamServed ==
    ASSUME Base, Base', out = <<>>, req # <<>>, req' = Tail(req), UNCHANGED rep
    PROVE  /\ Len(rep) + 1 \in DOMAIN Stream /\ Stream[Len(rep) + 1] = Head(req)
           /\ \A p \in DOMAIN Stream' :
                 \/ \E x \in DOMAIN out' : Stream'[p] = out'[x]
                 \/ \E q \in DOMAIN Stream : q # Len(rep) + 1 /\ Stream[q] = Stream'[p]
  <1> DEFINE M == Replies \cup Requests
  <1>1. rep \in Seq(M) /\ out' \in Seq(M) /\ req \in Seq(M) /\ Tail(req) \in Seq(M) /\ <<>> \in Seq(M)
    <2>1. rep \in Seq(Replies) /\ out' \in Seq(Replies) /\ req \in Seq(Requests)
      BY DEF Base, Types
    <2>2. rep \in Seq(M) /\ out' \in Seq(M) /\ req \in Seq(M)
      BY <2>1
    <2> QED BY <2>2
  <1> HIDE DEF M
  <1>2. PICK n \in Nat : n = Len(rep)
    BY <1>1
  <1>3. PICK k \in Nat : k = Len(out')
    BY <1>1
  <1>4. PICK l \in Nat : l + 1 = Len(req)
    <2>1. Len(req) - 1 \in Nat /\ (Len(req) - 1) + 1 = Len(req)
      BY <1>1
    <2> QED BY <2>1
  <1>5. /\ Len(Tail(req)) = l /\ \A i \in 1..l : Tail(req)[i] = req[i + 1]
        /\ Head(req) = req[1] /\ Len(<<>>) = 0
    BY <1>1, <1>4
  <1>6. /\ Stream \in Seq(M) /\ Len(Stream) = n + 0 + (l + 1)
        /\ \A i \in 1..n : Stream[i] = rep[i]
        /\ \A i \in 1..(l + 1) : Stream[n + 0 + i] = req[i]
    <2>1. Stream = rep \o <<>> \o req
      BY DEF Stream
    <2>2. PICK b \in Seq(M) : b = <<>> /\ Len(b) = 0
      BY <1>1, <1>5
    <2>3. /\ rep \o b \o req \in Seq(M) /\ Len(rep \o b \o req) = Len(rep) + Len(b) + Len(req)
          /\ \A i \in 1..Len(rep) : (rep \o b \o req)[i] = rep[i]
          /\ \A i \in 1..Len(req) : (rep \o b \o req)[Len(rep) + Len(b) + i] = req[i]
      BY <1>1, Joined
    <2>4. Stream = rep \o b \o req
      BY <2>1, <2>2
    <2> QED BY <1>2, <1>4, <2>2, <2>3, <2>4
  <1>7. /\ Stream' \in Seq(M) /\ Len(Stream') = n + k + l
        /\ \A i \in 1..n : Stream'[i] = rep[i]
        /\ \A i \in 1..k : Stream'[n + i] = out'[i]
        /\ \A i \in 1..l : Stream'[n + k + i] = Tail(req)[i]
    <2>1. PICK c \in Seq(M) : c = out'
      BY <1>1
    <2>2. Stream' = rep \o c \o Tail(req)
      BY <2>1 DEF Stream
    <2>3. PICK e \in Seq(M) : e = Tail(req) /\ Len(e) = l
      BY <1>1, <1>5
    <2>4. /\ rep \o c \o e \in Seq(M) /\ Len(rep \o c \o e) = Len(rep) + Len(c) + Len(e)
          /\ \A i \in 1..Len(rep) : (rep \o c \o e)[i] = rep[i]
          /\ \A i \in 1..Len(c) : (rep \o c \o e)[Len(rep) + i] = c[i]
          /\ \A i \in 1..Len(e) : (rep \o c \o e)[Len(rep) + Len(c) + i] = e[i]
      BY <1>1, Joined
    <2>5. Stream' = rep \o c \o e
      BY <2>2, <2>3
    <2> QED BY <1>2, <1>3, <2>1, <2>3, <2>4, <2>5
  <1>8. DOMAIN Stream = 1..(n + l + 1) /\ DOMAIN Stream' = 1..(n + k + l) /\ DOMAIN out' = 1..k
    <2>1. Len(Stream) = n + l + 1
      BY <1>6
    <2> QED BY <1>1, <1>3, <1>6, <1>7, <2>1, LenProperties
  <1>9. n + 1 \in DOMAIN Stream /\ Stream[n + 1] = Head(req)
    <2>1. n + 1 \in 1..(n + l + 1) /\ n + 0 + 1 = n + 1 /\ 1 \in 1..(l + 1)
      OBVIOUS
    <2>2. Stream[n + 0 + 1] = req[1]
      BY <1>6, <2>1
    <2> QED BY <1>5, <1>8, <2>1, <2>2
  <1>10. ASSUME NEW p \in DOMAIN Stream'
         PROVE  \/ \E x \in DOMAIN out' : Stream'[p] = out'[x]
                \/ \E q \in DOMAIN Stream : q # n + 1 /\ Stream[q] = Stream'[p]
    <2>1. p \in 1..n \/ p - n \in 1..k \/ p - n - k \in 1..l
      BY <1>8
    <2>2. CASE p \in 1..n
      <3>1. p \in DOMAIN Stream /\ p # n + 1
        BY <1>8, <2>2
      <3> QED BY <1>6, <1>7, <2>2, <3>1
    <2>3. CASE p - n \in 1..k
      <3>1. PICK x \in 1..k : x = p - n
        BY <2>3
      <3>2. p = n + x
        BY <1>8, <3>1
      <3> QED BY <1>7, <1>8, <3>2
    <2>4. CASE p - n - k \in 1..l
      <3>1. PICK x \in 1..l : x = p - n - k
        BY <2>4
      <3>2. p = n + k + x /\ x + 1 \in 1..(l + 1)
        BY <1>8, <3>1
      <3>3. Stream'[p] = req[x + 1] /\ Stream[n + 0 + (x + 1)] = req[x + 1]
        BY <1>5, <1>6, <1>7, <3>2
      <3>4. n + 0 + (x + 1) \in 1..(n + l + 1) /\ n + 0 + (x + 1) # n + 1
        OBVIOUS
      <3> QED BY <1>8, <3>3, <3>4
    <2> QED BY <2>1, <2>2, <2>3, <2>4
  <1> QED BY <1>2, <1>9, <1>10

\* The cases in which a request is in its place.
Takes(r) ==
    \/ recv = {} /\ recv' = {} /\ r.m \in {"lstat", "small"}
    \/ recv = {} /\ recv' = {r.f} /\ r.m = "send"
    \/ recv = {r.f} /\ recv' = {r.f} /\ r.m = "data"
    \/ recv = {r.f} /\ recv' = {} /\ r.m = "done"

\* Taking a request that is in its place keeps files in one piece.
LEMMA GroupServed ==
    ASSUME Base, GroupInv, BegunInv, req # <<>>, req' = Tail(req), UNCHANGED <<job, client, closed>>, Takes(Head(req))
    PROVE  GroupInv' /\ BegunInv'
  <1>1. /\ req \in Seq(Requests) /\ 1 \in DOMAIN req /\ req[1] = Head(req) /\ Len(req) \in Nat
        /\ DOMAIN req = 1..Len(req) /\ DOMAIN req' = 1..(Len(req) - 1) /\ Len(req') = Len(req) - 1
        /\ \A i \in 1..(Len(req) - 1) : req'[i] = req[i + 1]
    BY DEF Base, Types
  <1>2. UNCHANGED <<Ahead, pc, todo, closed>>
    BY ClientStays
  <1>3. ASSUME NEW f, NEW i \in 1..Len(req), NEW k, k = i + 1, Continues(f, k) PROVE Continues(f, i)'
    <2>1. \A j \in 1..(i - 1) : j + 1 \in 1..(k - 1) /\ req'[j] = req[j + 1] /\ (IsData(j, f)' <=> IsData(j + 1, f))
      BY <1>1, <1>3 DEF IsData
    <2>2. ASSUME recv = {f}, \A l \in 1..(k - 1) : IsData(l, f) PROVE Continues(f, i)'
      <3>1. IsData(1, f)
        BY <1>3, <2>2
      <3>2. recv' = {f}
        BY <1>1, <2>2, <3>1 DEF Takes, IsData
      <3>3. \A l \in 1..(i - 1) : IsData(l, f)'
        BY <2>1, <2>2
      <3> QED BY <3>2, <3>3 DEF Continues
    <2>3. ASSUME NEW j \in 1..(k - 1), req[j].m = "send", req[j].f = f,
               \A l \in (j + 1)..(k - 1) : IsData(l, f)
          PROVE  Continues(f, i)'
      <3>1. CASE j = 1
        <4>1. recv' = {f}
          BY <1>1, <2>3, <3>1 DEF Takes
        <4>2. \A l \in 1..(i - 1) : l + 1 \in (j + 1)..(k - 1)
          BY <1>3, <3>1
        <4>3. \A l \in 1..(i - 1) : IsData(l, f)'
          BY <2>1, <2>3, <4>2
        <4> QED BY <4>1, <4>3 DEF Continues
      <3>2. CASE j # 1
        <4>1. PICK h \in 1..(i - 1) : h + 1 = j
          <5>1. j - 1 \in 1..(i - 1) /\ (j - 1) + 1 = j
            BY <1>3, <3>2
          <5> QED BY <5>1
        <4>2. req'[h].m = "send" /\ req'[h].f = f
          BY <2>1, <2>3, <4>1
        <4>3. \A l \in (h + 1)..(i - 1) : l \in 1..(i - 1) /\ l + 1 \in (j + 1)..(k - 1)
          BY <1>3, <4>1
        <4>4. \A l \in (h + 1)..(i - 1) : IsData(l, f)'
          BY <2>1, <2>3, <4>3
        <4> QED BY <4>2, <4>4 DEF Continues
      <3> QED BY <3>1, <3>2
    <2> QED BY <1>3, <2>2, <2>3 DEF Continues
  <1>4. ASSUME NEW i \in DOMAIN req', NEW f \in Files, req'[i].m \in {"data", "done"}, req'[i].f = f
        PROVE  Continues(f, i)'
    <2>1. PICK k : k = i + 1
      OBVIOUS
    <2>2. i \in 1..Len(req) /\ k \in DOMAIN req /\ req[k] = req'[i]
      BY <1>1, <2>1
    <2>3. Continues(f, k)
      BY <1>4, <2>2 DEF GroupInv
    <2> QED BY <1>3, <2>1, <2>2, <2>3
  <1>5. ASSUME NEW f \in Files, pc' = "large", ~closed', f = Head(todo') PROVE Continues(f, Len(req) + 1)'
    <2>1. PICK k : k = Len(req) + 1
      OBVIOUS
    <2>2. Continues(f, k)
      BY <1>2, <1>5, <2>1 DEF GroupInv
    <2>3. PICK i \in 1..Len(req) : i = Len(req)
      <3>1. Len(req) \in 1..Len(req)
        BY <1>1
      <3> QED BY <3>1
    <2>4. Continues(f, i)'
      BY <1>3, <2>1, <2>2, <2>3
    <2>5. i = Len(req') + 1
      BY <1>1, <2>3
    <2> QED BY <2>4, <2>5 DEF Continues
  <1>6. GroupInv'
    BY <1>4, <1>5 DEF GroupInv
  <1>7. \A i \in DOMAIN req' : i + 1 \in DOMAIN req /\ req'[i] = req[i + 1] /\ i + 1 # 1 /\ i \in Nat
    BY <1>1
  <1>8. ASSUME NEW i \in DOMAIN req', req'[i].m = "send"
        PROVE  /\ req'[i].f \notin recv'
               /\ req'[i].f \in Ahead' => pc' = "large" /\ req'[i].f = Head(todo')
               /\ \A j \in DOMAIN req' : req'[j].m = "send" /\ req'[j].f = req'[i].f => i = j
    <2>1. PICK k \in DOMAIN req : k = i + 1 /\ req[k] = req'[i] /\ k # 1
      BY <1>7
    <2>2. req'[i].f \notin recv'
      BY <1>1, <1>8, <2>1 DEF Takes, BegunInv
    <2>3. ASSUME NEW j \in DOMAIN req', req'[j].m = "send", req'[j].f = req'[i].f PROVE i = j
      <3>1. k = j + 1
        BY <1>7, <1>8, <2>1, <2>3 DEF BegunInv
      <3> QED BY <1>7, <2>1, <3>1
    <2> QED BY <1>2, <1>8, <2>1, <2>2, <2>3 DEF BegunInv
  <1>9. \A f \in recv' : recv' = {f} /\ (f \in Ahead' => pc' = "large" /\ f = Head(todo'))
    BY <1>1, <1>2 DEF Takes, BegunInv
  <1>10. BegunInv'
    BY <1>8, <1>9 DEF BegunInv
  <1> QED BY <1>6, <1>10

\* What is stored now was neither reported nor refused before.
LEMMA FailedServed ==
    ASSUME Base, Base', AheadInv, AnswerInv, FailedInv, out = <<>>, req # <<>>, req' = Tail(req),
           UNCHANGED <<rep, reported>>,
           LET r == Head(req) IN
             \/ stored' \subseteq stored /\ out' = <<>>
             \/ UNCHANGED stored /\ r.m = "lstat" /\ Gives(r, out')
             \/ r.m \in {"small", "done"} /\ out' = Failure(r.f) /\ stored' = stored \ {r.f}
             \/ /\ r.m \in {"small", "done"} /\ out' = <<[m |-> "okay", f |-> r.f]>>
                /\ stored' = stored \cup {r.f}
    PROVE  FailedInv'
  <1>1. PICK n : n = Len(rep) + 1 /\ n \in DOMAIN Stream /\ Stream[n] = Head(req)
    BY StreamServed
  <1>2. \A p \in DOMAIN Stream' :
           \/ \E x \in DOMAIN out' : Stream'[p] = out'[x]
           \/ \E q \in DOMAIN Stream : q # n /\ Stream[q] = Stream'[p]
    BY <1>1, StreamServed
  <1>3. CASE stored' \subseteq stored /\ out' = <<>>
    <2>1. DOMAIN out' = {}
      BY <1>3
    <2> QED BY <1>2, <1>3, <2>1 DEF FailedInv
  <1>4. CASE UNCHANGED stored /\ Head(req).m = "lstat" /\ Gives(Head(req), out')
    <2>1. \A x \in DOMAIN out' : out'[x].m # "reason"
      BY <1>4 DEF Gives
    <2> QED BY <1>2, <1>4, <2>1 DEF FailedInv
  <1>5. CASE out' = Failure(Head(req).f) /\ stored' = stored \ {Head(req).f}
    <2>1. \A x \in DOMAIN out' : out'[x].f = Head(req).f
      BY <1>5 DEF Failure
    <2> QED BY <1>2, <1>5, <2>1 DEF FailedInv
  <1>6. CASE /\ Head(req).m \in {"small", "done"} /\ out' = <<[m |-> "okay", f |-> Head(req).f]>>
             /\ stored' = stored \cup {Head(req).f}
    <2>1. PICK f : f = Head(req).f
      OBVIOUS
    <2>2. Unit(Stream, n) /\ Stream[n].f = f
      BY <1>1, <1>6, <2>1 DEF Unit, Units
    <2>3. f \notin reported
      BY <1>1, <2>2 DEF AnswerInv, InOrder, AheadInv
    <2>4. ASSUME NEW q \in DOMAIN Stream, q # n, Stream[q].m = "reason"
          PROVE Stream[q].f \notin stored \cup {f}
      <3>1. Unit(Stream, q)
        BY <2>4 DEF Unit, Units
      <3>2. Stream[q].f # f
        BY <1>1, <2>2, <2>4, <3>1 DEF AnswerInv, InOrder
      <3> QED BY <2>4, <3>2 DEF FailedInv
    <2>5. \A x \in DOMAIN out' : out'[x].m # "reason"
      BY <1>6
    <2> QED BY <1>2, <1>6, <2>1, <2>3, <2>4, <2>5 DEF FailedInv
  <1> QED BY <1>3, <1>4, <1>5, <1>6

\* The device serves a request, or refuses it and is stuck for good.
LEMMA DeviceReadsHeld ==
    ASSUME Base, Base', AheadInv, Held, DeviceReads, UNCHANGED job
    PROVE  Stuck' \/ Held'
  <1>1. PICK r : r = Head(req)
    OBVIOUS
  <1>2. /\ ~closed /\ ~closed' /\ out = <<>> /\ req # <<>> /\ req' = Tail(req) /\ UNCHANGED <<client, rep>>
        /\ \/ GivesStat(r) \/ TakesSmall(r) \/ Begins(r) \/ TakesData(r) \/ Ends(r) \/ Refuses(r)
    BY <1>1, DeviceReading
  <1>3. UNCHANGED <<deferred, reported, closed>>
    BY <1>2, ClientStays DEF DeviceReads, Finish
  <1>4. CASE Refuses(r)
    BY <1>1, <1>2, <1>4, RefusedStuck
  <1>5. CASE GivesStat(r) \/ TakesSmall(r) \/ Begins(r) \/ TakesData(r) \/ Ends(r)
    <2>1. Takes(r)
      BY <1>5 DEF Takes, GivesStat, TakesSmall, Begins, TakesData, Ends, Answers
    <2>2. Gives(r, out')
      BY <1>5 DEF Gives, GivesStat, TakesSmall, Begins, TakesData, Ends, Answers
    <2>3. GroupInv' /\ BegunInv'
      BY <1>1, <1>2, <1>3, <2>1, GroupServed DEF Held
    <2>4. AnswerInv'
      BY <1>1, <1>2, <1>3, <2>2, AnswerServed DEF Held
    <2>5. \/ stored' \subseteq stored /\ out' = <<>>
          \/ UNCHANGED stored /\ r.m = "lstat" /\ Gives(r, out')
          \/ r.m \in {"small", "done"} /\ out' = Failure(r.f) /\ stored' = stored \ {r.f}
          \/ r.m \in {"small", "done"} /\ out' = <<[m |-> "okay", f |-> r.f]>> /\ stored' = stored \cup {r.f}
      BY <1>5, <2>2 DEF GivesStat, TakesSmall, Begins, TakesData, Ends, Answers
    <2>6. FailedInv'
      BY <1>1, <1>2, <1>3, <2>5, FailedServed DEF Held
    <2> QED BY <2>3, <2>4, <2>6 DEF Held
  <1> QED BY <1>2, <1>4, <1>5

\* It writes a reply, or the connection ends.
LEMMA DeviceOtherHeld ==
    ASSUME Base, Held, (DeviceWrites \/ DeviceCloses) /\ UNCHANGED job
    PROVE  Held'
  <1>1. UNCHANGED <<client, job, req, recv, stored>> /\ ~closed
    BY DEF DeviceWrites, DeviceCloses, device
  <1>2. UNCHANGED <<Ahead, deferred, reported, pc, todo>>
    BY <1>1, ClientStays
  <1>3. UNCHANGED Stream
    <2>1. CASE DeviceWrites
      <3>1. out # <<>> /\ Stream' = Append(rep, Head(out)) \o Tail(out) \o req
        BY <1>1, <2>1 DEF DeviceWrites, Stream
      <3> QED BY <3>1, StreamSteps DEF Base
    <2>2. CASE DeviceCloses
      BY <1>1, <2>2 DEF DeviceCloses, device, Stream
    <2> QED BY <2>1, <2>2
  <1>4. AnswerInv' /\ FailedInv'
    BY <1>1, <1>2, <1>3 DEF Held, AnswerInv, FailedInv
  <1>5. \A f, i : Continues(f, i)' <=> Continues(f, i)
    BY <1>1 DEF Continues, IsData
  <1>6. GroupInv' /\ BegunInv'
    BY <1>1, <1>2, <1>5 DEF Held, GroupInv, BegunInv
  <1> QED BY <1>4, <1>6 DEF Held

\* A device that is stuck goes on to refuse.
LEMMA StuckStays ==
    ASSUME Base, Stuck, (DeviceReads \/ DeviceWrites \/ DeviceCloses) /\ UNCHANGED job
    PROVE  Stuck'
  <1>1. UNCHANGED Ahead
    BY ClientStays DEF DeviceReads, DeviceWrites, DeviceCloses
  <1>2. CASE DeviceWrites \/ DeviceCloses
    BY <1>1, <1>2 DEF DeviceWrites, DeviceCloses, device, Stuck
  <1>3. CASE DeviceReads
    <2>1. PICK r : r = Head(req)
      OBVIOUS
    <2>2. /\ req # <<>> /\ req' = Tail(req)
          /\ \/ GivesStat(r) \/ TakesSmall(r) \/ Begins(r) \/ TakesData(r) \/ Ends(r) \/ Refuses(r)
      BY <1>3, <2>1, DeviceReading
    <2>3. req \in Seq(Requests)
      BY DEF Base, Types
    <2>4. /\ 1 \in DOMAIN req /\ req[1] = r
          /\ \A i \in DOMAIN req' : i + 1 \in DOMAIN req /\ req'[i] = req[i + 1]
      BY <2>1, <2>2, <2>3
    <2>5. UNCHANGED recv
      BY <2>2, <2>4 DEF Stuck, GivesStat, TakesSmall, Begins, TakesData, Ends, Refuses
    <2> QED BY <1>1, <2>4, <2>5 DEF Stuck
  <1> QED BY <1>2, <1>3

\* The inductive invariant.
AttributedInv == Base /\ AheadInv /\ (Stuck \/ Held)

\* Every step keeps it.
LEMMA AttributedInductive ==
    ASSUME AttributedInv, NamedOnce, [Next]_vars
    PROVE  AttributedInv'
  <1>1. Base /\ Base' /\ AheadInv /\ (Stuck \/ Held)
    BY BaseInductive DEF AttributedInv
  <1>2. CASE (Client \/ SendData) /\ UNCHANGED job
    <2>1. Ahead' \subseteq Ahead /\ Kinds /\ UNCHANGED <<job, out, recv, stored, closed>>
      BY <1>1, <1>2, ClientKinds
    <2>2. AheadInv'
      BY <1>1, <2>1, BooksKept
    <2>3. Stuck => Stuck'
      BY <1>1, <2>1, StuckKept
    <2>4. Held => Held'
      BY <1>1, <2>1, AnswerKept, FailedKept, GroupKept, BegunKept DEF Held
    <2> QED BY <1>1, <2>2, <2>3, <2>4 DEF AttributedInv
  <1>3. CASE (DeviceReads \/ DeviceWrites \/ DeviceCloses) /\ UNCHANGED job
    <2>1. AheadInv'
      BY <1>1, <1>3, ClientStays DEF DeviceReads, DeviceWrites, DeviceCloses
    <2>2. Stuck => Stuck'
      BY <1>1, <1>3, StuckStays
    <2>3. Held => Stuck' \/ Held'
      BY <1>1, <1>3, DeviceReadsHeld, DeviceOtherHeld
    <2> QED BY <1>1, <2>1, <2>2, <2>3 DEF AttributedInv
  <1>4. CASE UNCHANGED vars
    <2>1. UNCHANGED <<job, client, req, rep, out, recv, stored, closed>>
      BY <1>4 DEF vars, client
    <2>2. UNCHANGED <<Ahead, AheadInv, deferred, reported, pc, todo>>
      BY <2>1, ClientStays
    <2>3. UNCHANGED Stream /\ \A f, i : Continues(f, i)' <=> Continues(f, i)
      BY <2>1 DEF Stream, Continues, IsData
    <2> QED BY <1>1, <2>1, <2>2, <2>3
          DEF AttributedInv, Stuck, Held, AnswerInv, FailedInv, GroupInv, BegunInv
  <1> QED BY <1>2, <1>3, <1>4 DEF Next, Device, Client

\* A push begins with it: nothing is outstanding.
LEMMA AttributedInit ==
    ASSUME Init
    PROVE  AttributedInv
  <1>1. Base
    BY BaseInit
  <1>2. deferred = <<>> /\ req = <<>> /\ rep = <<>> /\ out = <<>> /\ recv = {} /\ reported = {} /\ pc = "next"
    BY DEF Init
  <1>3. AheadInv
    BY <1>2 DEF AheadInv
  <1>4. Stream \in Seq(Replies \cup Requests) /\ Len(Stream) = 0
    BY <1>1, <1>2, StreamSteps DEF Base
  <1>5. DOMAIN Stream = {}
    BY <1>4
  <1>6. AnswerInv /\ FailedInv
    BY <1>2, <1>5 DEF AnswerInv, FailedInv, InOrder, Covers
  <1>7. GroupInv /\ BegunInv
    BY <1>2 DEF GroupInv, BegunInv
  <1> QED BY <1>1, <1>3, <1>6, <1>7 DEF AttributedInv, Held

\* ReportDeferredCopyFailure names the file the device failed to store: for
\* sources that name no file twice, with or without local errors, for a device
\* that fails any file or goes away at any time, and for every capacity.
THEOREM FailureIsAttributedCorrect ==
    ASSUME NamedOnce
    PROVE  Spec => []FailureIsAttributed
  <1>1. Init => AttributedInv
    BY AttributedInit
  <1>2. AttributedInv /\ [Next]_vars => AttributedInv'
    BY AttributedInductive
  <1>3. AttributedInv => FailureIsAttributed
    BY DEF AttributedInv, Stuck, Held, FailedInv, FailureIsAttributed
  <1> QED BY <1>1, <1>2, <1>3, PTL DEF Spec

==============================================================================
