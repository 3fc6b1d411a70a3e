--------------------------- MODULE SyncPullProofs ----------------------------
(***************************************************************************)
(* Proofs about SyncPull, for every tree on the device, every list of      *)
(* sources, every length of files and paths, and every failure.            *)
(***************************************************************************)
EXTENDS SyncPull, SequenceTheorems, WellFoundedInduction, TLAPS

------------------------------------------------------------------------------
(* What is on its way to the client, and what the device has still to read. *)

coming == IF closed THEN rep ELSE rep \o out
asked  == IF closed THEN <<>> ELSE req

Paths == Seq(Names) \ {<<>>}

\* Requests the device can answer, and the messages of its answers.
Requests == {r \in [m : {"stat", "lstat", "lstatDir", "list", "recv", "quit"}, p : Seq(Names)] :
                 /\ r.m # "quit" => r.p # <<>>
                 /\ r.m = "list" => IsDir(r.p)}

Kinds == {"file", "dir", "fifo", "link"}

Messages == [m : {"stat"}, k : Kinds \cup {"none"}]
            \cup [m : {"dent"}, n : Names, k : Kinds \cup {"dot"}]
            \cup [m : {"data"}, p : Seq(Names), i : Nat]
            \cup [m : {"done", "fail", "bad"}]

------------------------------------------------------------------------------
(* The inductive invariant.                                                *)

\* Where the client waits for a stat, is at a path, owes and expects nothing, is
\* inside copy_remote_dir_local, has begun with a source.
StatPcs == {"statReply", "lstatReply", "lstatDirReply"}
AtPath  == StatPcs \cup {"stat", "dents", "recv", "data"}
Quiet   == {"start", "source", "stat", "ls", "links", "copy", "recv", "quit"}
InTree  == pc \in {"ls", "dents", "links", "copy"} \/ (ret = "tree" /\ pc \in AtPath)
Begun   == AtPath \cup {"ls", "links", "copy"}

ClientTypes ==
    /\ srcs \in SourceLists /\ dst \in {"dir", "file", "none", "orphan"}
    /\ copyAttrs \in BOOLEAN /\ stat2 \in BOOLEAN
    /\ pc \in Begun \cup {"start", "source", "quit", "bye", "done", "fault"}
    /\ src \in 1..(Len(srcs) + 1)
    /\ pc \in Begun \cup {"start", "source"} => src <= Len(srcs)
    /\ ret \in {"source", "tree"}
    /\ path \in Seq(Names) /\ (pc \in AtPath => path # <<>>)
    /\ files \in Seq([p : Paths, k : Kinds])
    /\ dirs \in Seq({p \in Paths : IsDir(p)}) /\ links \in Seq(Paths)
    /\ pc = "ls" => dirs # <<>>
    /\ pc = "dents" => IsDir(path)
    /\ success \in BOOLEAN /\ dirty \in BOOLEAN
    /\ DOMAIN local \subseteq Seq(Names)
    /\ made \subseteq Seq(Names) /\ kept \subseteq Seq(Names) /\ warned \subseteq Seq(Names)

ConnTypes ==
    /\ req \in Seq(Requests) /\ rep \in Seq(Messages) /\ out \in Seq(Messages)
    /\ closed \in BOOLEAN

Types == ClientTypes /\ ConnTypes /\ Len(rep) <= ReplyRoom

\* The request whose answer is being read, and what a stat is answered with.
Asks == [statReply |-> "stat", lstatReply |-> "lstat", lstatDirReply |-> "lstatDir",
         dents |-> "list", data |-> "recv"]

Request == [m |-> Asks[pc], p |-> path]

StatAnswer(r) ==
    IF r.m = "stat" THEN KindOf(Resolve(NameOf(r.p)))
    ELSE IF r.m = "lstat" THEN Kind[NameOf(r.p)]
    ELSE IF IsDir(r.p) THEN "dir" ELSE "none"

\* The blocks of the file at hand that have arrived.
Got == Len(local[path])

\* Where nothing was left unread, the client reads the answer to its request,
\* an end of it comes last, and ID_DONE behind everything.
StatWire == coming = <<>> \/ coming = StatMsg(StatAnswer(Request))

DentWire ==
    \A j \in DOMAIN coming :
        IF j = Len(coming) /\ coming[j].m # "dent" THEN coming[j].m \in {"done", "bad"}
        ELSE \/ coming[j] = Dot(NameOf(path))
             \/ \E n \in Range(Entries[Resolve(NameOf(path))]) : coming[j] = Dent(n)

DataWire ==
    /\ path \in DOMAIN local /\ Got \in 0..Blocks /\ local[path] = [i \in 1..Got |-> Block(path, i)]
    /\ asked # <<>> => local[path] = <<>>
    /\ ~closed /\ asked = <<>> => coming # <<>> /\ Last(coming).m # "data"
    /\ \A j \in DOMAIN coming :
          \/ coming[j] = Data(path, Got + j) /\ Got + j <= Blocks
          \/ j = Len(coming) /\ coming[j].m \in {"fail", "bad"}
          \/ j = Len(coming) /\ coming[j].m = "done" /\ Got + j = Blocks + 1
             /\ KindOf(Resolve(NameOf(path))) = "file"

OnWire ==
    /\ pc \in Quiet => coming = <<>> /\ asked = <<>>
    /\ pc \in StatPcs \cup {"dents", "data"} =>
          asked = <<>> \/ (asked = <<Request>> /\ coming = <<>>)
    /\ pc \in StatPcs => StatWire
    /\ pc = "dents" => DentWire
    /\ pc = "data" => DataWire

\* After a local failure the rest of a file lies in front of the next answer;
\* the client gets as far as to read it for that.
Leftover ==
    /\ pc \in {"source", "stat", "statReply", "lstatReply", "quit", "bye", "done", "fault"}
    /\ pc \in AtPath => ret = "source"
    /\ pc \notin {"bye", "done", "fault"} =>
          \/ coming # <<>> /\ coming[1].m # "stat"
          \/ coming = <<>> /\ (closed \/ (asked # <<>> /\ asked[1].m = "recv"))

WireInv == (OnWire \/ (dirty /\ Leftover)) /\ FaultIsEarned

\* Only the file at hand is incomplete.
FilesInv ==
    \A p \in DOMAIN local : Whole(p) \/ local[p] = Old \/ (pc = "data" /\ p = path)

\* The directory of a file is on the list in front of it until it is made.
Entry(p) == [p |-> p, k |-> "dir"]
Listed(p) == \E j \in DOMAIN files : files[j] = Entry(p)

\* The list of files has every directory in front of what is in it.
MadeFirst ==
    \A i \in DOMAIN files :
        files[i].k \in {"file", "link"} /\ Len(files[i].p) > 1 =>
            \/ Front(files[i].p) \in made
            \/ \E j \in 1..(i - 1) : files[j] = Entry(Front(files[i].p))

\* The same of the links that are still to be resolved.
LinksListed == \A i \in DOMAIN links : Len(links[i]) > 1 => Listed(Front(links[i]))

\* While the list is made.
Listing == pc \in {"ls", "dents", "links"} \/ (ret = "tree" /\ pc \in StatPcs \cup {"stat"})

\* Whatever lies in a directory was found after the directory was put on the
\* list of files, and is pulled after it is made.
ParentInv ==
    /\ ParentIsMade
    /\ ret = "source" /\ pc \in AtPath \ {"dents"} => path = <<srcs[src]>>
    /\ InTree => MadeFirst
    /\ Listing => LinksListed
    /\ pc = "dents" => Listed(path)
    /\ ret = "tree" /\ pc \in StatPcs \cup {"stat"} /\ Len(path) > 1 => Listed(Front(path))
    /\ ret = "tree" /\ pc \in {"recv", "data"} /\ Len(path) > 1 => Front(path) \in made

\* A way down from p[1]: every name but the last is one of a directory, and
\* holds the next.
Walks ==
    {p \in Paths : \A j \in 1..(Len(p) - 1) :
                       /\ KindOf(Resolve(p[j])) = "dir"
                       /\ p[j + 1] \in Range(Entries[Resolve(p[j])])}

\* Nothing has to be done for p any more; something will be, for p or for what
\* it lies behind; the list that p is to be found through is being read.
Settled(p) ==
    \/ IsDir(p) \/ Warned(p)
    \/ p \in DOMAIN local /\ Whole(p)
    \/ pc = "data" /\ p = path

ToDo(q) ==
    \/ q \in Range(dirs) \/ q \in Range(links)
    \/ \E f \in Range(files) : f.p = q /\ f.k \in {"file", "link"}
    \/ pc \in AtPath \ {"dents"} /\ q = path

Unread(n) ==
    \/ asked # <<>>
    \/ \E j \in DOMAIN coming : coming[j] = Dent(n)
    \/ \A j \in DOMAIN coming : coming[j].m # "done"

Awaited(p) ==
    \/ \E i \in 1..Len(p) : ToDo(SubSeq(p, 1, i))
    \/ /\ pc = "dents" /\ Len(path) < Len(p) /\ SubSeq(p, 1, Len(path)) = path
       /\ Unread(p[Len(path) + 1])

\* As long as the pull succeeds, everything below a source is settled or a list
\* still leads to it; a source that is left has everything below it settled.
CoverInv ==
    /\ pc = "copy" \/ (ret = "tree" /\ pc \in {"recv", "data"}) => dirs = <<>> /\ links = <<>>
    /\ pc = "start" => src = 1
    /\ success /\ pc \in {"quit", "bye", "done"} => src = Len(srcs) + 1
    /\ success => \A i \in 1..(src - 1) : \A p \in Walks : p[1] = srcs[i] => Settled(p)
    /\ success /\ pc \in Begun =>
          \A p \in Walks : p[1] = srcs[src] => Settled(p) \/ Awaited(p)

------------------------------------------------------------------------------
(* Sequences and names.                                                    *)

LEMMA LastFront ==
    ASSUME NEW S, NEW s \in Seq(S), s # <<>>
    PROVE  /\ Len(s) \in Nat \ {0}
           /\ Last(s) = s[Len(s)] /\ Last(s) \in S
           /\ Front(s) \in Seq(S) /\ Len(Front(s)) = Len(s) - 1
           /\ \A i \in 1..(Len(s) - 1) : Front(s)[i] = s[i]
  <1>1. Len(s) \in Nat \ {0}
    BY EmptySeq
  <1>2. \A i \in 1..(Len(s) - 1) : s[i] \in S
    BY <1>1, ElementOfSeq
  <1>3. s[Len(s)] \in S
    BY <1>1, ElementOfSeq
  <1>4. /\ Front(s) \in Seq(S)
        /\ Len(Front(s)) = Len(s) - 1
        /\ \A i \in 1..(Len(s) - 1) : Front(s)[i] = s[i]
    <2> DEFINE n == Len(s) - 1
    <2>1. n \in Int /\ 1 \in Int /\ \A i \in 1..n : s[i] \in S
      BY <1>1, <1>2
    <2> HIDE DEF n
    <2>2. /\ SubSeq(s, 1, n) \in Seq(S)
          /\ Len(SubSeq(s, 1, n)) = IF 1 <= n THEN n - 1 + 1 ELSE 0
          /\ \A i \in 1..(n - 1 + 1) : SubSeq(s, 1, n)[i] = s[1 + i - 1]
      BY <2>1, SubSeqProperties
    <2>3. n \in Nat /\ Front(s) = SubSeq(s, 1, n)
      BY <1>1 DEF n, Front
    <2>4. Len(SubSeq(s, 1, n)) = n /\ n - 1 + 1 = n
      BY <2>2, <2>3
    <2>5. \A i \in 1..n : SubSeq(s, 1, n)[i] = s[i]
      BY <2>2, <2>3, <2>4
    <2> QED
      BY <2>2, <2>3, <2>4, <2>5 DEF n
  <1> QED
    BY <1>1, <1>3, <1>4 DEF Last

LEMMA AppendFacts ==
    ASSUME NEW S, NEW s \in Seq(S), NEW e \in S
    PROVE  /\ Append(s, e) \in Seq(S) /\ Append(s, e) # <<>>
           /\ Len(Append(s, e)) = Len(s) + 1
           /\ Last(Append(s, e)) = e /\ Front(Append(s, e)) = s
  <1> DEFINE t == Append(s, e)
  <1>1. /\ t \in Seq(S) /\ t # <<>> /\ Len(t) = Len(s) + 1
        /\ \A i \in 1..Len(s) : t[i] = s[i]
        /\ t[Len(s) + 1] = e
    BY AppendProperties
  <1> HIDE DEF t
  <1>2. Len(s) \in Nat
    BY LenProperties
  <1>3. /\ Last(t) = t[Len(t)] /\ Front(t) \in Seq(S) /\ Len(Front(t)) = Len(t) - 1
        /\ \A i \in 1..(Len(t) - 1) : Front(t)[i] = t[i]
    BY <1>1, LastFront
  <1>4. Len(t) - 1 = Len(s)
    BY <1>1, <1>2
  <1>5. Front(t) = s
    BY <1>1, <1>3, <1>4, SeqEqual
  <1> QED
    BY <1>1, <1>3, <1>5 DEF t

\* A sequence that is not empty begins with its first element, and goes on with the others.
LEMMA FirstRest ==
    ASSUME NEW S, NEW s \in Seq(S), s # <<>>
    PROVE  /\ Head(s) = s[1] /\ Head(s) \in S /\ Len(s) \in Nat \ {0}
           /\ Tail(s) \in Seq(S) /\ Len(Tail(s)) = Len(s) - 1
           /\ DOMAIN s = 1..Len(s) /\ DOMAIN Tail(s) = 1..(Len(s) - 1)
           /\ \A i \in 1..(Len(s) - 1) : Tail(s)[i] = s[i + 1]
           /\ Tail(s) # <<>> => Last(Tail(s)) = Last(s) /\ Len(s) > 1
           /\ Len(s) = 1 => Tail(s) = <<>>
  <1>1. Len(s) \in Nat \ {0}
    BY EmptySeq
  <1>2. /\ Head(s) \in S /\ Tail(s) \in Seq(S) /\ Len(Tail(s)) = Len(s) - 1
        /\ \A i \in 1..Len(Tail(s)) : Tail(s)[i] = s[i + 1]
    BY HeadTailProperties
  <1>3. DOMAIN s = 1..Len(s) /\ DOMAIN Tail(s) = 1..(Len(s) - 1)
    BY <1>2, LenProperties
  <1>4. ASSUME Tail(s) # <<>> PROVE Last(Tail(s)) = Last(s) /\ Len(s) > 1
    <2>1. Len(Tail(s)) \in Nat \ {0}
      BY <1>2, <1>4, EmptySeq
    <2>2. Tail(s)[Len(s) - 1] = s[Len(s) - 1 + 1]
      BY <1>1, <1>2, <2>1
    <2> QED
      BY <1>1, <1>2, <2>1, <2>2 DEF Last
  <1>5. Len(s) = 1 => Tail(s) = <<>>
    <2>1. Tail(s) # <<>> => Len(Tail(s)) \in Nat \ {0}
      BY <1>2, EmptySeq
    <2> QED
      BY <1>2, <2>1
  <1> QED
    BY <1>1, <1>2, <1>3, <1>4, <1>5

\* What a name stands for on the device.
LEMMA NameFacts ==
    ASSUME NEW n \in Names
    PROVE  /\ Kind[n] \in Kinds
           /\ KindOf(Resolve(n)) \in {"file", "dir", "fifo", "none"}
           /\ KindOf(Resolve(n)) = "dir" => Entries[Resolve(n)] \in Seq(Names)
           /\ Kind[n] # "link" => KindOf(Resolve(n)) = Kind[n]
  BY SyncPullAssumption DEF Names, Kinds, KindOf, Resolve

LEMMA PathName ==
    ASSUME NEW p \in Seq(Names), p # <<>>
    PROVE  NameOf(p) \in Names /\ NameOf(p) = p[Len(p)] /\ Len(p) \in Nat \ {0}
  BY LastFront DEF NameOf

LEMMA SourceFacts ==
    ASSUME srcs \in SourceLists
    PROVE  /\ srcs \in Seq(Names) /\ Len(srcs) \in Nat \ {0}
           /\ \A i \in 1..Len(srcs) : srcs[i] \in Names
  <1>1. srcs \in Seq(Names) /\ srcs # <<>>
    BY SyncPullAssumption DEF Names
  <1> QED
    BY <1>1, EmptySeq, ElementOfSeq

------------------------------------------------------------------------------
(* What the steps of the two sides do to the connection.                   *)

LEMMA WireTypes ==
    ASSUME ConnTypes
    PROVE  coming \in Seq(Messages) /\ asked \in Seq(Requests) /\ (closed => asked = <<>>)
  BY ConcatProperties, EmptySeq DEF ConnTypes, coming, asked

\* What is read is the first message on its way.
LEMMA Hear ==
    ASSUME ConnTypes, rep # <<>>, rep' = Tail(rep), UNCHANGED <<out, closed>>
    PROVE  /\ rep' \in Seq(Messages)
           /\ coming # <<>> /\ coming[1] = Head(rep) /\ coming' = Tail(coming)
  <1>1. /\ Head(rep) = rep[1] /\ Len(rep) \in Nat \ {0}
        /\ Tail(rep) \in Seq(Messages) /\ Len(Tail(rep)) = Len(rep) - 1
        /\ \A i \in 1..(Len(rep) - 1) : Tail(rep)[i] = rep[i + 1]
    BY FirstRest DEF ConnTypes
  <1>2. CASE closed
    BY <1>1, <1>2 DEF coming
  <1>3. CASE ~closed
    <2> DEFINE c == rep \o out
               d == Tail(rep) \o out
    <2>1. Len(out) \in Nat /\ out \in Seq(Messages)
      BY LenProperties DEF ConnTypes
    <2>2. /\ c \in Seq(Messages) /\ Len(c) = Len(rep) + Len(out)
          /\ \A i \in 1..(Len(rep) + Len(out)) : c[i] = IF i <= Len(rep) THEN rep[i] ELSE out[i - Len(rep)]
      BY ConcatProperties DEF ConnTypes
    <2>3. /\ d \in Seq(Messages) /\ Len(d) = Len(rep) - 1 + Len(out)
          /\ \A i \in 1..(Len(rep) - 1 + Len(out)) :
                 d[i] = IF i <= Len(rep) - 1 THEN Tail(rep)[i] ELSE out[i - (Len(rep) - 1)]
      BY <1>1, <2>1, ConcatProperties
    <2> HIDE DEF c, d
    <2>4. c # <<>> /\ c[1] = rep[1]
      <3>1. Len(c) # 0 /\ c[1] = rep[1]
        BY <1>1, <2>1, <2>2
      <3> QED
        BY <3>1, EmptySeq
    <2>5. /\ Tail(c) \in Seq(Messages) /\ Len(Tail(c)) = Len(c) - 1
          /\ \A i \in 1..(Len(c) - 1) : Tail(c)[i] = c[i + 1]
      BY <2>2, <2>4, FirstRest
    <2>6. Len(Tail(c)) = Len(d)
      BY <1>1, <2>1, <2>2, <2>3, <2>5
    <2>7. ASSUME NEW i \in 1..Len(d) PROVE Tail(c)[i] = d[i]
      <3>1. /\ i \in Nat /\ i >= 1 /\ i <= Len(rep) - 1 + Len(out)
            /\ i \in 1..(Len(c) - 1) /\ i + 1 \in 1..(Len(rep) + Len(out))
        BY <1>1, <2>1, <2>2, <2>3
      <3>2. Tail(c)[i] = IF i + 1 <= Len(rep) THEN rep[i + 1] ELSE out[i + 1 - Len(rep)]
        BY <2>2, <2>5, <3>1
      <3>3. d[i] = IF i <= Len(rep) - 1 THEN Tail(rep)[i] ELSE out[i - (Len(rep) - 1)]
        BY <2>3, <3>1
      <3>4. CASE i <= Len(rep) - 1
        BY <1>1, <3>1, <3>2, <3>3, <3>4
      <3>5. CASE i > Len(rep) - 1
        <4>1. i + 1 - Len(rep) = i - (Len(rep) - 1)
          BY <1>1, <3>1
        <4> QED
          BY <1>1, <3>1, <3>2, <3>3, <3>5, <4>1
      <3> QED
        BY <1>1, <3>1, <3>4, <3>5
    <2>8. Tail(c) = d
      BY <2>3, <2>5, <2>6, <2>7, SeqEqual
    <2>9. coming = c /\ coming' = d
      BY <1>3 DEF coming, c, d
    <2> QED
      BY <1>1, <2>4, <2>8, <2>9
  <1> QED
    BY <1>2, <1>3 DEF ConnTypes

\* A request goes behind the others, or nowhere.
LEMMA Ask ==
    ASSUME ConnTypes, NEW m, NEW p, [m |-> m, p |-> p] \in Requests, Sent(m, p), UNCHANGED <<rep, out, closed>>
    PROVE  /\ req' \in Seq(Requests) /\ coming' = coming
           /\ asked' = IF closed THEN <<>> ELSE Append(asked, [m |-> m, p |-> p])
  BY AppendProperties DEF ConnTypes, Sent, coming, asked

LEMMA NotAsked ==
    ASSUME UNCHANGED conn
    PROVE  UNCHANGED <<req, rep, out, closed, coming, asked>>
  BY DEF conn, coming, asked

\* An answer follows the messages that are on their way.
LEMMA Read ==
    ASSUME ConnTypes, DeviceReads
    PROVE  /\ ~closed /\ asked # <<>> /\ req' \in Seq(Requests) /\ UNCHANGED rep
           /\ \/ /\ asked[1].m = "quit" /\ closed' /\ UNCHANGED <<out, coming>> /\ asked' = <<>>
              \/ /\ asked[1].m # "quit" /\ ~closed' /\ asked' = Tail(asked)
                 /\ out' \in Answers(asked[1])
                 /\ out' \in Seq(Messages) => coming' = coming \o out'
  <1>1. /\ ~closed /\ out = <<>> /\ req # <<>> /\ req' = Tail(req) /\ UNCHANGED rep
        /\ asked = req /\ coming = rep \o out
    BY DEF DeviceReads, asked, coming
  <1>2. Head(req) = req[1] /\ Tail(req) \in Seq(Requests)
    BY <1>1, FirstRest DEF ConnTypes
  <1>3. rep \o <<>> = rep
    BY ConcatEmptySeq DEF ConnTypes
  <1>4. CASE Head(req).m = "quit"
    BY <1>1, <1>2, <1>3, <1>4 DEF DeviceReads, asked, coming
  <1>5. CASE Head(req).m # "quit"
    BY <1>1, <1>2, <1>3, <1>5 DEF DeviceReads, asked, coming, ConnTypes
  <1> QED
    BY <1>4, <1>5

\* Writing an answer changes where it is.
LEMMA Write ==
    ASSUME ConnTypes, DeviceWrites
    PROVE  /\ rep' \in Seq(Messages) /\ out' \in Seq(Messages)
           /\ UNCHANGED <<req, closed, coming, asked>>
  <1>1. /\ ~closed /\ out # <<>> /\ rep' = Append(rep, Head(out)) /\ out' = Tail(out)
        /\ UNCHANGED <<req, closed>>
    BY DEF DeviceWrites
  <1>2. Head(out) \in Messages /\ Tail(out) \in Seq(Messages)
    BY <1>1, FirstRest DEF ConnTypes
  <1>3. rep' \in Seq(Messages) /\ rep' = rep \o <<Head(out)>>
    BY <1>1, <1>2, AppendProperties, AppendIsConcat DEF ConnTypes
  <1>4. <<Head(out)>> \o Tail(out) = out
    <2>1. Len(out) \in Nat \ {0}
      BY <1>1, FirstRest DEF ConnTypes
    <2>2. 1 \in 1..Len(out) /\ Len(out) \in 1..Len(out) /\ 1 + 1 = 2
      BY <2>1
    <2>3. SubSeq(out, 1, Len(out)) = <<out[1]>> \o SubSeq(out, 1 + 1, Len(out))
      BY <2>2, SubSeqRecursiveFirst DEF ConnTypes
    <2>4. SubSeq(out, 1, Len(out)) = out /\ Tail(out) = SubSeq(out, 2, Len(out)) /\ Head(out) = out[1]
      BY <1>1, SubSeqFull, TailIsSubSeq, FirstRest DEF ConnTypes
    <2> QED
      BY <2>2, <2>3, <2>4
  <1>5. (rep \o <<Head(out)>>) \o Tail(out) = rep \o (<<Head(out)>> \o Tail(out))
    <2>1. <<Head(out)>> \in Seq(Messages)
      BY <1>2
    <2> QED
      BY <1>2, <2>1, ConcatAssociative DEF ConnTypes
  <1> QED
    BY <1>1, <1>2, <1>3, <1>4, <1>5 DEF coming, asked

\* What the device had not written is lost, and so is what it had not read.
LEMMA Close ==
    ASSUME ConnTypes, DeviceCloses
    PROVE  /\ closed' /\ asked' = <<>> /\ UNCHANGED <<req, rep, out>>
           /\ coming' \in Seq(Messages)
           /\ coming = <<>> => coming' = <<>>
           /\ Len(coming') \in 0..Len(coming)
           /\ \A i \in 1..Len(coming') : coming'[i] = coming[i]
  <1>1. ~closed /\ closed' = TRUE /\ UNCHANGED <<req, rep, out>>
    BY DEF DeviceCloses
  <1>2. coming = rep \o out /\ coming' = rep /\ asked' = <<>>
    BY <1>1 DEF coming, asked
  <1>3. /\ Len(coming) = Len(rep) + Len(out) /\ Len(rep) \in Nat /\ Len(out) \in Nat
        /\ \A i \in 1..(Len(rep) + Len(out)) : coming[i] = IF i <= Len(rep) THEN rep[i] ELSE out[i - Len(rep)]
    BY <1>2, ConcatProperties, LenProperties DEF ConnTypes
  <1>4. coming = <<>> => coming' = <<>>
    <2>1. coming = <<>> => Len(rep) = 0
      BY <1>3, EmptySeq
    <2> QED
      BY <1>2, <2>1, EmptySeq DEF ConnTypes
  <1> QED
    BY <1>1, <1>2, <1>3, <1>4 DEF ConnTypes

------------------------------------------------------------------------------
(* What the device answers.                                                *)

\* An answer is some of its parts in order and an end; all of them in front of ID_DONE.
LEMMA CutShort ==
    ASSUME NEW parts \in Seq(Messages), NEW ends \in SUBSET {"fail", "bad"},
           NEW a \in OrCutShort(parts, ends)
    PROVE  /\ a \in Seq(Messages) /\ Len(a) \in Nat \ {0} /\ Len(parts) \in Nat
           /\ \A j \in 1..(Len(a) - 1) : j \in 1..Len(parts) /\ a[j] = parts[j]
           /\ \/ a[Len(a)] = Done /\ Len(a) = Len(parts) + 1
              \/ \E e \in ends : a[Len(a)] = [m |-> e]
  <1>1. Len(parts) \in Nat /\ \A j \in 1..Len(parts) : parts[j] \in Messages
    BY LenProperties, ElementOfSeq
  <1>2. Done \in Messages /\ \A e \in ends : [m |-> e] \in Messages
    BY DEF Done, Messages
  <1>3. CASE a = Append(parts, Done)
    BY <1>1, <1>2, <1>3, AppendProperties
  <1>4. ASSUME NEW i \in 0..Len(parts), NEW e \in ends, a = Append(SubSeq(parts, 1, i), [m |-> e])
        PROVE  /\ a \in Seq(Messages) /\ Len(a) \in Nat \ {0}
               /\ \A j \in 1..(Len(a) - 1) : j \in 1..Len(parts) /\ a[j] = parts[j]
               /\ a[Len(a)] = [m |-> e]
    <2> DEFINE b == SubSeq(parts, 1, i)
    <2>1. /\ b \in Seq(Messages) /\ Len(b) = IF 1 <= i THEN i - 1 + 1 ELSE 0
          /\ \A j \in 1..(i - 1 + 1) : b[j] = parts[1 + j - 1]
      BY <1>1, SubSeqProperties
    <2> HIDE DEF b
    <2>2. Len(b) = i /\ \A j \in 1..i : b[j] = parts[j]
      BY <1>1, <2>1
    <2>3. [m |-> e] \in Messages
      BY <1>2
    <2>4. /\ a \in Seq(Messages) /\ Len(a) = i + 1 /\ a[i + 1] = [m |-> e]
          /\ \A j \in 1..i : a[j] = b[j]
      BY <1>4, <2>1, <2>2, <2>3, AppendProperties DEF b
    <2> QED
      BY <1>1, <2>2, <2>4
  <1>5. \/ a = Append(parts, Done)
        \/ \E i \in 0..Len(parts) : \E e \in ends : a = Append(SubSeq(parts, 1, i), [m |-> e])
    BY DEF OrCutShort
  <1>6. CASE \E i \in 0..Len(parts) : \E e \in ends : a = Append(SubSeq(parts, 1, i), [m |-> e])
    <2>1. PICK i \in 0..Len(parts), e \in ends : a = Append(SubSeq(parts, 1, i), [m |-> e])
      BY <1>6
    <2> QED
      BY <1>1, <1>4, <2>1
  <1> QED
    BY <1>1, <1>3, <1>5, <1>6

LEMMA AnswersAre ==
    ASSUME NEW r
    PROVE  /\ r.m = "stat" => Answers(r) = {StatMsg(KindOf(Resolve(NameOf(r.p))))}
           /\ r.m = "lstat" => Answers(r) = {StatMsg(Kind[NameOf(r.p)])}
           /\ r.m = "lstatDir" => Answers(r) = {StatMsg(IF IsDir(r.p) THEN "dir" ELSE "none")}
           /\ r.m = "list" =>
                 LET es == Entries[Resolve(NameOf(r.p))]
                 IN  Answers(r) = OrCutShort(<<Dot(NameOf(r.p))>> \o [i \in DOMAIN es |-> Dent(es[i])], {"bad"})
           /\ r.m = "recv" =>
                 Answers(r) = IF KindOf(Resolve(NameOf(r.p))) = "file"
                              THEN OrCutShort([i \in 1..Blocks |-> Data(r.p, i)], {"fail", "bad"})
                              ELSE {<<[m |-> "fail"]>>}
  BY DEF Answers, IsDir

LEMMA StatMessage ==
    ASSUME NEW k \in Kinds \cup {"none"}
    PROVE  StatMsg(k) = <<[m |-> "stat", k |-> k]>> /\ StatMsg(k) \in Seq(Messages)
  BY DEF StatMsg, Messages

LEMMA StatAnswers ==
    ASSUME NEW r \in Requests, r.m \in {"stat", "lstat", "lstatDir"}
    PROVE  /\ StatAnswer(r) \in Kinds \cup {"none"}
           /\ Answers(r) = {StatMsg(StatAnswer(r))}
  <1>1. NameOf(r.p) \in Names
    BY PathName DEF Requests
  <1>2. Kind[NameOf(r.p)] \in Kinds /\ KindOf(Resolve(NameOf(r.p))) \in Kinds \cup {"none"}
    BY <1>1, NameFacts DEF Kinds
  <1> QED
    BY <1>2, AnswersAre DEF StatAnswer, Kinds

\* A list that ends with ID_DONE has every name in it.
LEMMA ListAnswers ==
    ASSUME NEW r \in Requests, r.m = "list", NEW a \in Answers(r)
    PROVE  LET names == Range(Entries[Resolve(NameOf(r.p))] )
           IN  /\ a \in Seq(Messages) /\ Len(a) \in Nat \ {0}
               /\ \A j \in 1..(Len(a) - 1) : a[j] = Dot(NameOf(r.p)) \/ \E n \in names : a[j] = Dent(n)
               /\ a[Len(a)].m \in {"done", "bad"}
               /\ a[Len(a)].m = "done" => \A n \in names : \E j \in 1..(Len(a) - 1) : a[j] = Dent(n)
  <1> DEFINE es == Entries[Resolve(NameOf(r.p))]
             dots == <<Dot(NameOf(r.p))>>
             dents == [i \in DOMAIN es |-> Dent(es[i])]
             parts == dots \o dents
  <1>1. NameOf(r.p) \in Names /\ es \in Seq(Names)
    BY PathName, NameFacts DEF Requests, IsDir
  <1>2. Len(es) \in Nat /\ DOMAIN es = 1..Len(es) /\ \A i \in 1..Len(es) : es[i] \in Names
    BY <1>1, LenProperties, ElementOfSeq
  <1>3. dots \in Seq(Messages) /\ Len(dots) = 1 /\ dots[1] = Dot(NameOf(r.p))
    <2>1. Dot(NameOf(r.p)) \in Messages
      BY <1>1 DEF Dot, Messages
    <2> QED
      BY <2>1
  <1>4. dents \in Seq(Messages) /\ Len(dents) = Len(es) /\ \A i \in 1..Len(es) : dents[i] = Dent(es[i])
    <2>1. \A n \in Names : Dent(n) \in Messages
      BY NameFacts DEF Dent, Messages
    <2>2. dents \in [1..Len(es) -> Messages]
      BY <1>2, <2>1
    <2> HIDE DEF es
    <2>3. dents \in Seq(Messages) /\ Len(dents) = Len(es)
      BY <1>2, <2>2, SeqDef, LenProperties
    <2> QED
      BY <1>2, <2>3
  <1> HIDE DEF dots, dents
  <1>5. /\ parts \in Seq(Messages) /\ Len(parts) = 1 + Len(es)
        /\ \A i \in 1..(1 + Len(es)) : parts[i] = IF i <= 1 THEN dots[i] ELSE dents[i - 1]
    <2>1. /\ parts \in Seq(Messages) /\ Len(parts) = Len(dots) + Len(dents)
          /\ \A i \in 1..(Len(dots) + Len(dents)) :
                 parts[i] = IF i <= Len(dots) THEN dots[i] ELSE dents[i - Len(dots)]
      <3>1. dots \in Seq(Messages) /\ dents \in Seq(Messages)
        BY <1>3, <1>4
      <3> QED
        BY <3>1, ConcatProperties
    <2> HIDE DEF parts
    <2> QED
      BY <1>3, <1>4, <2>1
  <1>6. a \in OrCutShort(parts, {"bad"})
    <2>1. Answers(r) = OrCutShort(parts, {"bad"})
      BY AnswersAre DEF dots, dents
    <2> QED
      BY <2>1
  <1> HIDE DEF es, parts
  <1>7. /\ parts[1] = Dot(NameOf(r.p))
        /\ \A i \in 1..Len(es) : parts[i + 1] = Dent(es[i])
    <2>1. parts[1] = dots[1]
      BY <1>2, <1>5
    <2>2. ASSUME NEW i \in 1..Len(es) PROVE parts[i + 1] = dents[i]
      <3>1. i + 1 \in 1..(1 + Len(es)) /\ ~(i + 1 <= 1) /\ i + 1 - 1 = i
        BY <1>2
      <3> QED
        BY <1>5, <3>1
    <2> QED
      BY <1>3, <1>4, <2>1, <2>2
  <1>8. /\ a \in Seq(Messages) /\ Len(a) \in Nat \ {0}
        /\ \A j \in 1..(Len(a) - 1) : j \in 1..Len(parts) /\ a[j] = parts[j]
        /\ \/ a[Len(a)] = Done /\ Len(a) = Len(parts) + 1
           \/ a[Len(a)] = [m |-> "bad"]
    <2> DEFINE ends == {"bad"}
    <2>1. ends \in SUBSET {"fail", "bad"} /\ a \in OrCutShort(parts, ends)
      BY <1>6
    <2> HIDE DEF ends
    <2>2. parts \in Seq(Messages)
      BY <1>5
    <2>3. /\ a \in Seq(Messages) /\ Len(a) \in Nat \ {0} /\ Len(parts) \in Nat
          /\ \A j \in 1..(Len(a) - 1) : j \in 1..Len(parts) /\ a[j] = parts[j]
          /\ \/ a[Len(a)] = Done /\ Len(a) = Len(parts) + 1
             \/ \E e \in ends : a[Len(a)] = [m |-> e]
      BY <2>1, <2>2, CutShort
    <2> QED
      BY <2>3 DEF ends
  <1>9. ASSUME NEW j \in 1..(Len(a) - 1)
        PROVE  a[j] = Dot(NameOf(r.p)) \/ \E n \in Range(es) : a[j] = Dent(n)
    <2>1. j \in 1..(1 + Len(es)) /\ a[j] = parts[j]
      BY <1>5, <1>8
    <2>2. CASE j = 1
      BY <1>7, <2>1, <2>2
    <2>3. CASE j # 1
      <3>1. PICK i \in 1..Len(es) : j = i + 1
        <4>1. j - 1 \in 1..Len(es) /\ j = (j - 1) + 1
          BY <1>2, <2>1, <2>3
        <4> QED
          BY <4>1
      <3> QED
        BY <1>2, <1>7, <2>1, <3>1 DEF Range
    <2> QED
      BY <2>2, <2>3
  <1>10. a[Len(a)].m \in {"done", "bad"}
    BY <1>8 DEF Done
  <1>11. ASSUME a[Len(a)].m = "done", NEW n \in Range(es)
         PROVE  \E j \in 1..(Len(a) - 1) : a[j] = Dent(n)
    <2>1. Len(a) = Len(parts) + 1
      BY <1>8, <1>11 DEF Done
    <2>2. PICK i \in 1..Len(es) : es[i] = n
      BY <1>2 DEF Range
    <2>3. i + 1 \in 1..(Len(a) - 1)
      BY <1>2, <1>5, <2>1
    <2> QED
      BY <1>7, <1>8, <2>2, <2>3
  <1> QED
    BY <1>8, <1>9, <1>10, <1>11 DEF es

LEMMA FileAnswers ==
    ASSUME NEW r \in Requests, r.m = "recv", NEW a \in Answers(r)
    PROVE  /\ a \in Seq(Messages) /\ Len(a) \in Nat \ {0}
           /\ \A j \in 1..(Len(a) - 1) : a[j] = Data(r.p, j) /\ j <= Blocks
           /\ \/ a[Len(a)].m \in {"fail", "bad"}
              \/ /\ a[Len(a)].m = "done" /\ Len(a) = Blocks + 1
                 /\ KindOf(Resolve(NameOf(r.p))) = "file"
  <1> DEFINE parts == [i \in 1..Blocks |-> Data(r.p, i)]
  <1>1. parts \in Seq(Messages) /\ Len(parts) = Blocks /\ \A i \in 1..Blocks : parts[i] = Data(r.p, i)
    <2>1. Blocks \in Nat /\ \A i \in 1..Blocks : Data(r.p, i) \in Messages
      BY SyncPullAssumption DEF Requests, Data, Messages
    <2>2. parts \in [1..Blocks -> Messages]
      BY <2>1
    <2>3. parts \in Seq(Messages) /\ Len(parts) = Blocks
      BY <2>1, <2>2, SeqDef, LenProperties
    <2> QED
      BY <2>3
  <1>2. CASE KindOf(Resolve(NameOf(r.p))) = "file"
    <2>1. a \in OrCutShort(parts, {"fail", "bad"})
      BY <1>2, AnswersAre
    <2> HIDE DEF parts
    <2> DEFINE ends == {"fail", "bad"}
    <2>2. ends \in SUBSET {"fail", "bad"} /\ a \in OrCutShort(parts, ends)
      BY <2>1
    <2> HIDE DEF ends
    <2>3. /\ a \in Seq(Messages) /\ Len(a) \in Nat \ {0} /\ Len(parts) \in Nat
          /\ \A j \in 1..(Len(a) - 1) : j \in 1..Len(parts) /\ a[j] = parts[j]
          /\ \/ a[Len(a)] = Done /\ Len(a) = Len(parts) + 1
             \/ \E e \in ends : a[Len(a)] = [m |-> e]
      BY <1>1, <2>2, CutShort
    <2>4. \A j \in 1..(Len(a) - 1) : a[j] = Data(r.p, j) /\ j <= Blocks
      BY <1>1, <2>3
    <2> QED
      BY <1>1, <1>2, <2>3, <2>4 DEF Done, ends
  <1>3. CASE KindOf(Resolve(NameOf(r.p))) # "file"
    <2>1. Answers(r) = {<<[m |-> "fail"]>>}
      BY <1>3, AnswersAre
    <2>2. a = <<[m |-> "fail"]>> /\ [m |-> "fail"] \in Messages
      BY <2>1 DEF Messages
    <2>3. a \in Seq(Messages)
      BY <2>2
    <2>4. Len(a) = 1 /\ a[1].m = "fail"
      BY <2>2
    <2> QED
      BY <2>3, <2>4
  <1> QED
    BY <1>2, <1>3

------------------------------------------------------------------------------
(* The steps of the client, with what they do to the connection.           *)

LEMMA TypesImplyTypeOK == Types => TypeOK
  <1> SUFFICES ASSUME Types PROVE TypeOK
    OBVIOUS
  <1>1. \A i \in DOMAIN files : IsPath(files[i].p) /\ files[i].k \in {"file", "dir", "fifo", "link"}
    <2>1. \A i \in DOMAIN files : files[i] \in [p : Paths, k : Kinds]
      BY ElementOfSeq, LenProperties DEF Types, ClientTypes
    <2> QED
      BY <2>1 DEF IsPath, Paths, Kinds
  <1>2. dirs \in Seq(Seq(Names)) /\ links \in Seq(Seq(Names))
    BY SeqMonotonic DEF Types, ClientTypes, Paths
  <1> QED
    BY <1>1, <1>2 DEF Types, ClientTypes, ConnTypes, TypeOK, IsPath, Begun, AtPath, StatPcs

\* With something left unread in front of it the client does not get into a tree.
LEMMA NothingLeft ==
    ASSUME WireInv,
           \/ pc \in {"start", "ls", "dents", "links", "copy", "recv", "data", "lstatDirReply"}
           \/ pc \in AtPath /\ ret = "tree"
    PROVE  OnWire
  BY DEF WireInv, Leftover

\* A stat that is answered is answered with what it asked for.
LEMMA StatHeard ==
    ASSUME Types, WireInv, pc \in StatPcs, Received("stat"), UNCHANGED <<out, closed>>
    PROVE  /\ OnWire /\ Head(rep).k = StatAnswer(Request) /\ StatAnswer(Request) \in Kinds \cup {"none"}
           /\ rep' \in Seq(Messages) /\ coming' = <<>> /\ asked = <<>>
  <1>1. /\ rep # <<>> /\ Head(rep).m = "stat" /\ rep' = Tail(rep)
    BY DEF Received
  <1>2. /\ rep' \in Seq(Messages) /\ coming # <<>> /\ coming[1] = Head(rep) /\ coming' = Tail(coming)
    BY <1>1, Hear DEF Types
  <1>3. OnWire
    BY <1>1, <1>2 DEF WireInv, Leftover, StatPcs
  <1>4. Request \in Requests /\ Request.m \in {"stat", "lstat", "lstatDir"}
    BY DEF Types, ClientTypes, StatPcs, AtPath, Request, Asks, Requests
  <1>5. StatAnswer(Request) \in Kinds \cup {"none"}
    BY <1>4, StatAnswers
  <1>6. coming = <<[m |-> "stat", k |-> StatAnswer(Request)]>>
    BY <1>2, <1>3 DEF OnWire, StatWire, StatMsg
  <1>7. coming' = <<>> /\ Head(rep).k = StatAnswer(Request)
    BY <1>2, <1>6
  <1>8. asked = <<>>
    BY <1>2, <1>3 DEF OnWire
  <1> QED
    BY <1>2, <1>3, <1>5, <1>7, <1>8

\* The steps of sync_stat_fallback: another request, or the result.
StatAsked ==
    /\ pc \in {"stat", "lstatReply"} /\ pc' \in StatPcs
    /\ pc = "stat" => pc' \in {"statReply", "lstatReply"}
    /\ UNCHANGED <<args, src, ret, path, tree, success, disk, warned, dirty, out, closed>>
    /\ req' \in Seq(Requests) /\ rep' \in Seq(Messages)
    /\ \/ OnWire /\ coming' = <<>> /\ (asked' = <<>> \/ asked' = <<Request>>')
       \/ /\ pc = "stat" /\ dirty /\ Leftover /\ coming' = coming
          /\ IF closed THEN asked' = <<>> ELSE asked' = Append(asked, Request')

StatTaken(k) ==
    /\ pc \in StatPcs \cup {"stat"} /\ k \in Kinds \cup {"none"} /\ StatResult(k)
    /\ k = "dir" => IsDir(path)
    /\ UNCHANGED <<args, ret, path, disk, dirty, req, out, closed>>
    /\ rep' \in Seq(Messages)
    /\ \/ OnWire /\ coming' = <<>> /\ asked' = <<>>
       \/ /\ pc = "stat" /\ ret = "source" /\ k = "none"
          /\ dirty /\ Leftover /\ UNCHANGED <<coming, asked>>

LEMMA StatSteps ==
    ASSUME Types, WireInv, SendStat \/ LstatReply \/ StatReply
    PROVE  StatAsked \/ \E k \in Kinds \cup {"none"} : StatTaken(k)
  <1>1. path \in Seq(Names) /\ (pc \in AtPath => path # <<>>)
    BY DEF Types, ClientTypes
  <1>2. ASSUME NEW m \in {"stat", "lstat", "lstatDir"}, Sent(m, path), pc \in AtPath, UNCHANGED <<rep, out, closed>>
        PROVE  /\ req' \in Seq(Requests) /\ coming' = coming
               /\ asked' = IF closed THEN <<>> ELSE Append(asked, [m |-> m, p |-> path])
    <2>1. [m |-> m, p |-> path] \in Requests
      BY <1>1, <1>2 DEF Requests
    <2> QED
      BY <1>2, <2>1, Ask DEF Types
  <1>3. CASE SendStat
    <2>1. pc = "stat" /\ pc \in AtPath /\ UNCHANGED <<args, ret, path, disk, dirty, rep, out, closed>>
      BY <1>3 DEF SendStat, AtPath
    <2>2. OnWire \/ (dirty /\ Leftover)
      BY DEF WireInv
    <2>3. OnWire => coming = <<>> /\ asked = <<>>
      BY <2>1 DEF OnWire, Quiet
    <2>4. CASE NotSent(path) /\ StatResult("none")
      <3>1. UNCHANGED <<req, coming, asked>>
        BY <2>1, <2>4 DEF NotSent, coming, asked
      <3>2. ~OnWire => ret = "source"
        BY <2>1, <2>2 DEF Leftover
      <3> QED
        BY <2>1, <2>2, <2>3, <2>4, <3>1, <3>2 DEF StatTaken, Types, ConnTypes
    <2>5. ASSUME NEW m \in {"stat", "lstat"}, Sent(m, path), pc' = IF m = "stat" THEN "statReply" ELSE "lstatReply",
                 UNCHANGED <<src, tree, success, warned>>
          PROVE  StatAsked
      <3>1. /\ req' \in Seq(Requests) /\ coming' = coming
            /\ asked' = IF closed THEN <<>> ELSE Append(asked, [m |-> m, p |-> path])
        BY <1>2, <2>1, <2>5
      <3>2. pc' \in {"statReply", "lstatReply"} /\ Request' = [m |-> m, p |-> path]
        BY <2>1, <2>5 DEF Request, Asks
      <3>3. asked = <<>> => Append(asked, Request') = <<Request'>>
        OBVIOUS
      <3> QED
        BY <2>1, <2>2, <2>3, <2>5, <3>1, <3>2, <3>3 DEF StatAsked, StatPcs, Types, ConnTypes
    <2>6. \/ NotSent(path) /\ StatResult("none")
          \/ \E m \in {"stat", "lstat"} : /\ Sent(m, path) /\ pc' = IF m = "stat" THEN "statReply" ELSE "lstatReply"
                                          /\ UNCHANGED <<src, tree, success, warned>>
      BY <1>3 DEF SendStat
    <2> QED
      BY <2>4, <2>5, <2>6
  <1>4. CASE LstatReply
    <2>1. /\ pc = "lstatReply" /\ pc \in StatPcs /\ Received("stat")
          /\ UNCHANGED <<args, ret, path, disk, dirty, out, closed>>
      BY <1>4 DEF LstatReply, StatPcs
    <2>2. /\ OnWire /\ Head(rep).k = StatAnswer(Request) /\ StatAnswer(Request) \in Kinds \cup {"none"}
          /\ rep' \in Seq(Messages) /\ coming' = <<>> /\ asked = <<>>
      BY <2>1, StatHeard
    <2>3. Head(rep).k = Kind[NameOf(path)]
      BY <2>1, <2>2 DEF StatAnswer, Request, Asks
    <2>4. CASE Head(rep).k = "link" /\ Sent("lstatDir", path) /\ pc' = "lstatDirReply"
      <3>1. /\ req' \in Seq(Requests)
            /\ asked' = <<>> \/ asked' = <<[m |-> "lstatDir", p |-> path]>>
        <4>1. [m |-> "lstatDir", p |-> path] \in Requests
          BY <1>1, <2>1 DEF Requests, AtPath, StatPcs
        <4>2. req' = IF closed THEN req ELSE Append(req, [m |-> "lstatDir", p |-> path])
          BY <2>4 DEF Sent
        <4>3. req' \in Seq(Requests)
          BY <4>1, <4>2, AppendProperties DEF Types, ConnTypes
        <4>4. ~closed => req = <<>>
          BY <2>2 DEF asked
        <4> QED
          <5>1. CASE closed
            BY <2>1, <4>3, <5>1 DEF asked
          <5>2. CASE ~closed
            <6>1. req' = <<[m |-> "lstatDir", p |-> path]>>
              BY <4>2, <4>4, <5>2
            <6>2. asked' = req'
              BY <2>1, <5>2 DEF asked
            <6> QED
              BY <4>3, <6>1, <6>2
          <5> QED
            BY <5>1, <5>2
      <3>2. Request' = [m |-> "lstatDir", p |-> path]
        BY <2>1, <2>4 DEF Request, Asks
      <3>3. UNCHANGED <<src, tree, success, warned>>
        BY <1>4, <2>4 DEF LstatReply, StatResult, SourceStat, LinkStat, NextSource, ShouldPull
      <3> QED
        BY <2>1, <2>2, <2>4, <3>1, <3>2, <3>3 DEF StatAsked, StatPcs
    <2>5. CASE Head(rep).k = "link" /\ NotSent(path) /\ StatResult("file")
      <3>1. req' = req /\ asked' = <<>>
        BY <2>1, <2>2, <2>5 DEF NotSent, asked
      <3> QED
        BY <2>1, <2>2, <2>5, <3>1 DEF StatTaken, Kinds
    <2>6. CASE Head(rep).k # "link" /\ StatResult(Head(rep).k) /\ UNCHANGED req
      <3>1. asked' = <<>>
        BY <2>1, <2>2, <2>6 DEF asked
      <3>2. Kind[NameOf(path)] = "dir" => IsDir(path)
        BY <1>1, <2>1, PathName, NameFacts DEF IsDir, AtPath
      <3> QED
        BY <2>1, <2>2, <2>3, <2>6, <3>1, <3>2 DEF StatTaken
    <2> QED
      BY <1>4, <2>4, <2>5, <2>6 DEF LstatReply
  <1>5. CASE StatReply
    <2>1. /\ pc \in {"statReply", "lstatDirReply"} /\ pc \in StatPcs /\ Received("stat")
          /\ UNCHANGED <<args, ret, path, disk, dirty, req, out, closed>>
      BY <1>5 DEF StatReply, StatPcs
    <2>2. /\ OnWire /\ Head(rep).k = StatAnswer(Request) /\ StatAnswer(Request) \in Kinds \cup {"none"}
          /\ rep' \in Seq(Messages) /\ coming' = <<>> /\ asked = <<>>
      BY <2>1, StatHeard
    <2>3. asked' = <<>>
      BY <2>1, <2>2 DEF asked
    <2>4. CASE pc = "statReply"
      <3>1. StatResult(Head(rep).k)
        BY <1>5, <2>4 DEF StatReply
      <3>2. Head(rep).k = "dir" => IsDir(path)
        BY <2>2, <2>4 DEF StatAnswer, Request, Asks, IsDir
      <3> QED
        BY <2>1, <2>2, <2>3, <3>1, <3>2 DEF StatTaken
    <2>5. CASE pc = "lstatDirReply"
      <3> DEFINE k == IF Head(rep).k = "none" THEN "file" ELSE "dir"
      <3>1. StatResult(k)
        BY <1>5, <2>5 DEF StatReply
      <3>2. k = "dir" => IsDir(path)
        BY <2>2, <2>5 DEF StatAnswer, Request, Asks
      <3>3. k \in Kinds
        BY DEF Kinds
      <3> HIDE DEF k
      <3> QED
        BY <2>1, <2>2, <2>3, <3>1, <3>2, <3>3 DEF StatTaken
    <2> QED
      BY <2>1, <2>4, <2>5
  <1> QED
    BY <1>3, <1>4, <1>5

LEMMA GotIsNat ==
    ASSUME OnWire, pc = "data"
    PROVE  Got \in Nat
  BY SyncPullAssumption DEF OnWire, DataWire

\* The message of a list that is read: a name of the directory, or the end.
LEMMA DentHeard ==
    ASSUME Types, WireInv, pc = "dents", rep # <<>>, rep' = Tail(rep), UNCHANGED <<req, out, closed>>
    PROVE  /\ OnWire /\ rep' \in Seq(Messages) /\ coming' = Tail(coming) /\ asked = <<>> /\ asked' = <<>>
           /\ coming # <<>> /\ coming \in Seq(Messages) /\ coming[1] = Head(rep)
           /\ \/ Head(rep) = Dot(NameOf(path))
              \/ \E n \in Range(Entries[Resolve(NameOf(path))]) : Head(rep) = Dent(n)
              \/ Head(rep).m \in {"done", "bad"} /\ Len(coming) = 1 /\ coming' = <<>>
  <1>1. OnWire
    BY NothingLeft
  <1>2. /\ rep' \in Seq(Messages) /\ coming # <<>> /\ coming[1] = Head(rep) /\ coming' = Tail(coming)
    BY Hear DEF Types
  <1>3. coming \in Seq(Messages)
    BY WireTypes DEF Types
  <1>4. asked = <<>> /\ asked' = <<>>
    BY <1>1, <1>2 DEF OnWire, asked
  <1>5. Len(coming) \in Nat \ {0} /\ DOMAIN coming = 1..Len(coming) /\ (Len(coming) = 1 => coming' = <<>>)
    BY <1>2, <1>3, FirstRest
  <1>6. IF 1 = Len(coming) /\ coming[1].m # "dent" THEN coming[1].m \in {"done", "bad"}
        ELSE \/ coming[1] = Dot(NameOf(path))
             \/ \E n \in Range(Entries[Resolve(NameOf(path))]) : coming[1] = Dent(n)
    BY <1>1, <1>5 DEF OnWire, DentWire
  <1> QED
    BY <1>1, <1>2, <1>3, <1>4, <1>5, <1>6

LEMMA NameHeard ==
    ASSUME Types, WireInv, ReadDent
    PROVE  \E n \in Names : Head(rep) = Dot(n) \/ Head(rep) = Dent(n)
  <1>1. /\ pc = "dents" /\ rep # <<>> /\ rep' = Tail(rep) /\ Head(rep).m = "dent"
        /\ UNCHANGED <<req, out, closed>>
    BY DEF ReadDent, Received
  <1>2. IsDir(path) /\ NameOf(path) \in Names /\ Entries[Resolve(NameOf(path))] \in Seq(Names)
    BY <1>1, PathName, NameFacts DEF Types, ClientTypes, AtPath, IsDir
  <1>3. \/ Head(rep) = Dot(NameOf(path))
        \/ \E n \in Range(Entries[Resolve(NameOf(path))]) : Head(rep) = Dent(n)
    BY <1>1, DentHeard
  <1> QED
    BY <1>2, <1>3, RangeOfSeq

\* The message of a file that is read: the next block, or the end.
LEMMA DataHeard ==
    ASSUME Types, WireInv, pc = "data", rep # <<>>, rep' = Tail(rep), UNCHANGED <<req, out, closed>>
    PROVE  /\ OnWire /\ rep' \in Seq(Messages) /\ coming' = Tail(coming) /\ asked = <<>> /\ asked' = <<>>
           /\ coming # <<>> /\ coming \in Seq(Messages) /\ coming[1] = Head(rep)
           /\ \/ Head(rep) = Data(path, Got + 1) /\ Got + 1 <= Blocks
              \/ Head(rep).m \in {"fail", "bad"} /\ coming' = <<>>
              \/ /\ Head(rep).m = "done" /\ coming' = <<>>
                 /\ Got = Blocks /\ KindOf(Resolve(NameOf(path))) = "file"
  <1>1. OnWire
    BY NothingLeft
  <1>2. /\ rep' \in Seq(Messages) /\ coming # <<>> /\ coming[1] = Head(rep) /\ coming' = Tail(coming)
    BY Hear DEF Types
  <1>3. coming \in Seq(Messages)
    BY WireTypes DEF Types
  <1>4. asked = <<>> /\ asked' = <<>>
    BY <1>1, <1>2 DEF OnWire, asked
  <1>5. Len(coming) \in Nat \ {0} /\ DOMAIN coming = 1..Len(coming) /\ (Len(coming) = 1 => coming' = <<>>)
    BY <1>2, <1>3, FirstRest
  <1>6. \/ coming[1] = Data(path, Got + 1) /\ Got + 1 <= Blocks
        \/ 1 = Len(coming) /\ coming[1].m \in {"fail", "bad"}
        \/ 1 = Len(coming) /\ coming[1].m = "done" /\ Got + 1 = Blocks + 1
           /\ KindOf(Resolve(NameOf(path))) = "file"
    BY <1>1, <1>5 DEF OnWire, DataWire
  <1>7. Got \in Nat
    BY <1>1, GotIsNat
  <1> QED
    BY <1>1, <1>2, <1>3, <1>4, <1>5, <1>6, <1>7, SyncPullAssumption

LEMMA NothingHeard ==
    ASSUME ConnTypes, Ended, UNCHANGED <<req, rep, out, closed>>
    PROVE  closed /\ coming = <<>> /\ asked = <<>> /\ UNCHANGED <<coming, asked>>
  BY DEF Ended, coming, asked

\* The next directory, and what is listed of it.
LEMMA LsSteps ==
    ASSUME Types, WireInv, SendLs
    PROVE  /\ OnWire /\ path' = Last(dirs) /\ path' \in Paths /\ IsDir(path')
           /\ dirs' = Front(dirs) /\ dirs' \in Seq({p \in Paths : IsDir(p)})
           /\ files' = Append(files, Entry(path')) /\ files' \in Seq([p : Paths, k : Kinds])
           /\ req' \in Seq(Requests) /\ coming' = <<>>
           /\ \/ /\ pc' = "dents" /\ UNCHANGED <<src, success>>
                 /\ asked' = IF closed THEN <<>> ELSE <<[m |-> "list", p |-> path']>>
              \/ NextSource(FALSE) /\ asked' = <<>>
  <1>1. /\ pc = "ls" /\ path' = Last(dirs) /\ dirs' = Front(dirs) /\ UNCHANGED <<rep, out, closed>>
        /\ files' = Append(files, Entry(path'))
    BY DEF SendLs, Entry
  <1>2. OnWire /\ coming = <<>> /\ asked = <<>>
    BY <1>1, NothingLeft DEF OnWire, Quiet
  <1>3. path' \in Paths /\ IsDir(path') /\ dirs' \in Seq({p \in Paths : IsDir(p)})
    <2> DEFINE D == {p \in Paths : IsDir(p)}
    <2>1. dirs \in Seq(D) /\ dirs # <<>>
      BY <1>1 DEF Types, ClientTypes
    <2> HIDE DEF D
    <2>2. Last(dirs) \in D /\ Front(dirs) \in Seq(D)
      BY <2>1, LastFront
    <2> QED
      BY <1>1, <2>2 DEF D
  <1>4. files' \in Seq([p : Paths, k : Kinds])
    <2>1. Entry(path') \in [p : Paths, k : Kinds]
      BY <1>3 DEF Entry, Kinds
    <2> QED
      BY <1>1, <2>1, AppendProperties DEF Types, ClientTypes
  <1>5. CASE Sent("list", path') /\ pc' = "dents" /\ UNCHANGED <<src, success>>
    <2> DEFINE q == path'
    <2>1. [m |-> "list", p |-> q] \in Requests
      BY <1>3 DEF Requests, Paths
    <2>2. req' = IF closed THEN req ELSE Append(req, [m |-> "list", p |-> q])
      BY <1>5 DEF Sent
    <2>3. req' \in Seq(Requests)
      BY <2>1, <2>2, AppendProperties DEF Types, ConnTypes
    <2>4. coming' = coming
      BY <1>1 DEF coming
    <2>5. asked' = IF closed THEN <<>> ELSE <<[m |-> "list", p |-> q]>>
      <3>1. CASE closed
        BY <1>1, <3>1 DEF asked
      <3>2. CASE ~closed
        BY <1>1, <1>2, <2>2, <3>2 DEF asked
      <3> QED
        BY <3>1, <3>2
    <2> QED
      BY <1>1, <1>2, <1>3, <1>4, <1>5, <2>3, <2>4, <2>5
  <1>6. CASE NotSent(path') /\ NextSource(FALSE)
    <2>1. req' = req /\ coming' = coming /\ asked' = asked
      BY <1>1, <1>6 DEF NotSent, coming, asked
    <2> QED
      BY <1>1, <1>2, <1>3, <1>4, <1>6, <2>1 DEF Types, ConnTypes
  <1> QED
    BY <1>5, <1>6 DEF SendLs

------------------------------------------------------------------------------
(* Type correctness.                                                       *)

LEMMA NextSourceTypes ==
    ASSUME ClientTypes, pc \in Begun, NEW ok \in BOOLEAN, NextSource(ok)
    PROVE  /\ src' \in 1..(Len(srcs) + 1) /\ success' \in BOOLEAN /\ pc' \in {"source", "quit"}
           /\ pc' = "source" => src' <= Len(srcs)
           /\ pc' = "quit" => src' = Len(srcs) + 1
  <1>1. src \in 1..(Len(srcs) + 1) /\ src <= Len(srcs) /\ Len(srcs) \in Nat /\ success \in BOOLEAN
    BY SourceFacts DEF ClientTypes
  <1>2. src' = src + 1 /\ success' = (success /\ ok) /\ pc' = IF src < Len(srcs) THEN "source" ELSE "quit"
    BY DEF NextSource
  <1> QED
    BY <1>1, <1>2

LEMMA SourceTypes ==
    ASSUME Types, WireInv, CheckDst \/ StartSource \/ ProtocolFault \/ SendQuit \/ ReadOrderlyShutdown
    PROVE  ClientTypes'
  <1> USE DEF Types, ClientTypes, args, tree, disk, Begun, AtPath, StatPcs
  <1>1. CASE CheckDst
    <2>1. pc = "start" /\ success' \in BOOLEAN /\ pc' \in {"source", "quit"}
          /\ UNCHANGED <<args, src, ret, path, tree, disk, warned, dirty>>
      BY <1>1 DEF CheckDst
    <2> QED
      BY <2>1
  <1>2. CASE StartSource
    <2>1. srcs[src] \in Names
      BY <1>2, SourceFacts DEF StartSource
    <2>2. <<srcs[src]>> \in Seq(Names) /\ <<srcs[src]>> # <<>>
      BY <2>1
    <2> QED
      BY <1>2, <2>2 DEF StartSource
  <1>3. CASE ProtocolFault
    BY <1>3 DEF ProtocolFault, Unexpected
  <1>4. CASE SendQuit \/ ReadOrderlyShutdown
    BY <1>4 DEF SendQuit, ReadOrderlyShutdown
  <1> QED
    BY <1>1, <1>2, <1>3, <1>4

LEMMA StatTypes ==
    ASSUME Types, StatAsked \/ \E k \in Kinds \cup {"none"} : StatTaken(k)
    PROVE  ClientTypes'
  <1>1. CASE StatAsked
    BY <1>1 DEF StatAsked, Types, ClientTypes, args, tree, disk, Begun, AtPath, StatPcs
  <1>2. ASSUME NEW k, StatTaken(k) PROVE ClientTypes'
    <2>1. /\ pc \in StatPcs \cup {"stat"} /\ pc \in Begun /\ StatResult(k)
          /\ k = "dir" => IsDir(path)
          /\ UNCHANGED <<args, ret, path, disk, dirty>>
      BY <1>2 DEF StatTaken, Begun, AtPath
    <2>2. path \in Paths /\ path \in Seq(Names)
      BY <2>1 DEF Types, ClientTypes, AtPath, Paths
    <2>3. warned' \subseteq Seq(Names)
      BY <2>1, <2>2 DEF StatResult, SourceStat, LinkStat, Types, ClientTypes
    <2>4. CASE ret = "source"
      <3>1. CASE k \in {"none", "fifo"} /\ NextSource(k = "fifo") /\ UNCHANGED tree
        <4>1. /\ src' \in 1..(Len(srcs) + 1) /\ success' \in BOOLEAN /\ pc' \in {"source", "quit"}
              /\ pc' = "source" => src' <= Len(srcs)
          BY <2>1, <3>1, NextSourceTypes DEF Types
        <4> QED
          BY <2>1, <2>3, <3>1, <4>1 DEF Types, ClientTypes, args, tree, disk, Begun, AtPath, StatPcs
      <3>2. CASE success' = FALSE /\ pc' = "quit" /\ UNCHANGED <<src, tree>>
        BY <2>1, <2>3, <3>2 DEF Types, ClientTypes, args, tree, disk, Begun, AtPath, StatPcs
      <3>3. CASE /\ k = "dir" /\ pc' = "ls" /\ dirs' = <<path>> /\ files' = <<>> /\ links' = <<>>
                 /\ UNCHANGED <<src, success>>
        <4>1. dirs' \in Seq({p \in Paths : IsDir(p)}) /\ dirs' # <<>>
          <5> DEFINE D == {p \in Paths : IsDir(p)}
          <5>1. path \in D
            BY <2>1, <2>2, <3>3
          <5> HIDE DEF D
          <5>2. <<path>> \in Seq(D) /\ <<path>> # <<>>
            BY <5>1
          <5> QED
            BY <3>3, <5>2 DEF D
        <4>2. files' \in Seq([p : Paths, k : Kinds]) /\ links' \in Seq(Paths)
          BY <3>3, EmptySeq
        <4> QED
          BY <2>1, <2>3, <3>3, <4>1, <4>2 DEF Types, ClientTypes, args, disk, Begun, AtPath, StatPcs
      <3>4. CASE pc' = "recv" /\ UNCHANGED <<src, tree, success>>
        BY <2>1, <2>2, <2>3, <3>4 DEF Types, ClientTypes, args, tree, disk, Begun, AtPath, StatPcs, Paths
      <3>5. SourceStat(k)
        BY <2>1, <2>4 DEF StatResult
      <3> QED
        BY <3>1, <3>2, <3>3, <3>4, <3>5 DEF SourceStat
    <2>5. CASE ret = "tree"
      <3>1. LinkStat(k)
        BY <2>1, <2>5 DEF StatResult
      <3>2. pc' = "links" /\ UNCHANGED <<src, links, success>>
        BY <3>1 DEF LinkStat
      <3>3. dirs' \in Seq({p \in Paths : IsDir(p)})
        <4> DEFINE D == {p \in Paths : IsDir(p)}
        <4>1. dirs \in Seq(D) /\ (k = "dir" => path \in D)
          BY <2>1, <2>2 DEF Types, ClientTypes
        <4> HIDE DEF D
        <4>2. dirs' \in Seq(D)
          BY <3>1, <4>1, AppendProperties DEF LinkStat
        <4> QED
          BY <4>2 DEF D
      <3>4. files' \in Seq([p : Paths, k : Kinds])
        <4> DEFINE F == [p : Paths, k : Kinds]
                   e == [p |-> path, k |-> "link"]
        <4>1. files \in Seq(F) /\ e \in F
          BY <2>2 DEF Kinds, Types, ClientTypes
        <4>2. files' = files \/ files' = Append(files, e)
          BY <3>1 DEF LinkStat
        <4> HIDE DEF F, e
        <4>3. files' \in Seq(F)
          BY <4>1, <4>2, AppendProperties
        <4> QED
          BY <4>3 DEF F
      <3> QED
        BY <2>1, <2>3, <3>2, <3>3, <3>4 DEF Types, ClientTypes, args, disk, Begun, AtPath, StatPcs
    <2> QED
      BY <2>4, <2>5 DEF Types, ClientTypes
  <1> QED
    BY <1>1, <1>2

LEMMA ListTypes ==
    ASSUME Types, WireInv, SendLs \/ ReadDent \/ DentsDone \/ ReadDentFails \/ ResolveLinks
    PROVE  ClientTypes'
  <1>1. CASE SendLs
    <2>1. /\ path' \in Paths /\ IsDir(path')
          /\ dirs' \in Seq({p \in Paths : IsDir(p)})
          /\ files' \in Seq([p : Paths, k : Kinds])
          /\ (pc' = "dents" /\ UNCHANGED <<src, success>>) \/ NextSource(FALSE)
      BY <1>1, LsSteps
    <2>2. pc = "ls" /\ UNCHANGED <<args, ret, links, disk, warned, dirty>>
      BY <1>1 DEF SendLs
    <2>3. NextSource(FALSE) => /\ src' \in 1..(Len(srcs) + 1) /\ success' \in BOOLEAN
                               /\ pc' \in {"source", "quit"} /\ (pc' = "source" => src' <= Len(srcs))
      BY <2>2, NextSourceTypes DEF Types, Begun
    <2> QED
      BY <2>1, <2>2, <2>3 DEF Types, ClientTypes, args, disk, Begun, AtPath, StatPcs, Paths
  <1>2. CASE ReadDent
    <2>1. /\ pc = "dents" /\ rep # <<>> /\ rep' = Tail(rep) /\ Head(rep).m = "dent"
          /\ UNCHANGED <<args, pc, src, ret, path, success, disk, dirty, req, out, closed>>
      BY <1>2 DEF ReadDent, Received
    <2>2. PICK n \in Names : Head(rep) = Dot(n) \/ Head(rep) = Dent(n)
      BY <1>2, NameHeard
    <2> DEFINE p == Append(path, n)
    <2>3. /\ p \in Paths /\ (Kind[n] = "dir" => IsDir(p))
      <3>1. p \in Seq(Names) /\ p # <<>> /\ Last(p) = n
        BY AppendFacts DEF Types, ClientTypes
      <3> HIDE DEF p
      <3> QED
        BY <3>1, NameFacts DEF Paths, IsDir, NameOf
    <2>4. CASE Head(rep) = Dot(n)
      <3>1. UNCHANGED <<tree, warned>>
        BY <1>2, <2>4 DEF ReadDent, Dot
      <3> QED
        BY <2>1, <3>1 DEF Types, ClientTypes, args, tree, disk, Begun, AtPath, StatPcs
    <2>5. CASE Head(rep) = Dent(n)
      <3>1. \/ Kind[n] = "dir" /\ dirs' = Append(dirs, p) /\ UNCHANGED <<files, links, warned>>
            \/ Kind[n] = "link" /\ links' = Append(links, p) /\ UNCHANGED <<files, dirs, warned>>
            \/ /\ Kind[n] \in {"file", "fifo"} /\ files' = Append(files, [p |-> p, k |-> Kind[n]])
               /\ warned' \subseteq warned \cup {p} /\ UNCHANGED <<dirs, links>>
        <4>1. Head(rep).k = Kind[n] /\ Head(rep).n = n /\ Kind[n] # "dot"
          BY <2>5, NameFacts DEF Dent, Kinds
        <4> QED
          BY <1>2, <4>1 DEF ReadDent
      <3> HIDE DEF p
      <3>2. dirs' \in Seq({q \in Paths : IsDir(q)})
        <4> DEFINE D == {q \in Paths : IsDir(q)}
        <4>1. dirs \in Seq(D) /\ (Kind[n] = "dir" => p \in D)
          BY <2>3 DEF Types, ClientTypes
        <4> HIDE DEF D
        <4>2. dirs' \in Seq(D)
          BY <3>1, <4>1, AppendProperties
        <4> QED
          BY <4>2 DEF D
      <3>3. links' \in Seq(Paths)
        <4>1. links \in Seq(Paths) /\ p \in Paths
          BY <2>3 DEF Types, ClientTypes
        <4>2. Append(links, p) \in Seq(Paths)
          BY <4>1, AppendProperties
        <4> QED
          BY <3>1, <4>1, <4>2
      <3>4. files' \in Seq([p : Paths, k : Kinds])
        <4> DEFINE F == [p : Paths, k : Kinds]
                   e == [p |-> p, k |-> Kind[n]]
        <4>1. files \in Seq(F) /\ (Kind[n] \in {"file", "fifo"} => e \in F)
          BY <2>3 DEF Kinds, Types, ClientTypes
        <4>2. files' = files \/ (files' = Append(files, e) /\ Kind[n] \in {"file", "fifo"})
          BY <3>1
        <4> HIDE DEF F, e
        <4>3. files' \in Seq(F)
          BY <4>1, <4>2, AppendProperties
        <4> QED
          BY <4>3 DEF F
      <3>5. warned' \subseteq Seq(Names)
        BY <2>3, <3>1 DEF Types, ClientTypes, Paths
      <3> QED
        BY <2>1, <3>2, <3>3, <3>4, <3>5 DEF Types, ClientTypes, args, disk, Begun, AtPath, StatPcs
    <2> QED
      BY <2>2, <2>4, <2>5
  <1>3. CASE DentsDone
    BY <1>3 DEF DentsDone, Types, ClientTypes, args, tree, disk, Begun, AtPath, StatPcs
  <1>4. CASE ReadDentFails
    <2>1. /\ pc = "dents" /\ NextSource(FALSE) /\ UNCHANGED <<args, ret, path, tree, disk, warned>>
          /\ dirty' \in BOOLEAN
      BY <1>4 DEF ReadDentFails, Unexpected, Types, ClientTypes
    <2>2. /\ src' \in 1..(Len(srcs) + 1) /\ success' \in BOOLEAN
          /\ pc' \in {"source", "quit"} /\ (pc' = "source" => src' <= Len(srcs))
      BY <2>1, NextSourceTypes DEF Types, Begun, AtPath
    <2> QED
      BY <2>1, <2>2 DEF Types, ClientTypes, args, tree, disk, Begun, AtPath, StatPcs
  <1>5. CASE ResolveLinks
    <2>1. pc = "links" /\ UNCHANGED <<args, src, files, dirs, success, disk, warned, dirty>>
      BY <1>5 DEF ResolveLinks
    <2>2. CASE links # <<>> /\ path' = Head(links) /\ links' = Tail(links) /\ ret' = "tree" /\ pc' = "stat"
      <3>1. path' \in Paths /\ links' \in Seq(Paths)
        BY <2>2, FirstRest DEF Types, ClientTypes
      <3> QED
        BY <2>1, <2>2, <3>1 DEF Types, ClientTypes, args, disk, Begun, AtPath, StatPcs, Paths
    <2>3. CASE links = <<>> /\ pc' = (IF dirs = <<>> THEN "copy" ELSE "ls") /\ UNCHANGED <<path, links, ret>>
      BY <2>1, <2>3 DEF Types, ClientTypes, args, disk, Begun, AtPath, StatPcs
    <2> QED
      BY <1>5, <2>2, <2>3 DEF ResolveLinks
  <1> QED
    BY <1>1, <1>2, <1>3, <1>4, <1>5

LEMMA FileTypes ==
    ASSUME Types, WireInv, CopyNext \/ SendRecv \/ RecvData \/ RecvDone \/ RecvError
    PROVE  ClientTypes'
  <1>1. CASE CopyNext
    <2>1. pc = "copy" /\ UNCHANGED <<args, dirs, links, local, kept, warned, dirty>>
      BY <1>1 DEF CopyNext
    <2>2. /\ files' \in Seq([p : Paths, k : Kinds])
          /\ files # <<>> => Head(files).p \in Paths
      <3>1. CASE files = <<>>
        BY <1>1, <3>1, EmptySeq DEF CopyNext
      <3>2. CASE files # <<>>
        <4>1. Head(files) \in [p : Paths, k : Kinds] /\ Tail(files) \in Seq([p : Paths, k : Kinds])
          BY <3>2, FirstRest DEF Types, ClientTypes
        <4> QED
          BY <1>1, <3>2, <4>1 DEF CopyNext
      <3> QED
        BY <3>1, <3>2
    <2>3. ASSUME NEW ok \in BOOLEAN, NextSource(ok)
          PROVE  /\ src' \in 1..(Len(srcs) + 1) /\ success' \in BOOLEAN
                 /\ pc' \in {"source", "quit"} /\ (pc' = "source" => src' <= Len(srcs))
      BY <2>1, <2>3, NextSourceTypes DEF Types, Begun
    <2>4. /\ src' \in 1..(Len(srcs) + 1) /\ success' \in BOOLEAN
          /\ pc' \in {"source", "quit", "copy", "recv"} /\ (pc' # "quit" => src' <= Len(srcs))
      <3>1. CASE UNCHANGED <<src, success>> /\ pc' \in {"copy", "recv"}
        BY <2>1, <3>1 DEF Types, ClientTypes, Begun
      <3>2. CASE NextSource(TRUE) \/ NextSource(FALSE)
        BY <2>3, <3>2
      <3> QED
        BY <1>1, <2>1, <3>1, <3>2 DEF CopyNext
    <2>5. /\ path' \in Seq(Names) /\ ret' \in {"source", "tree"} /\ made' \subseteq Seq(Names)
          /\ pc' = "recv" => path' # <<>>
      BY <1>1, <2>1, <2>2 DEF CopyNext, Types, ClientTypes, Paths, NextSource
    <2> QED
      BY <2>1, <2>2, <2>4, <2>5 DEF Types, ClientTypes, args, Begun, AtPath, StatPcs
  <1>2. CASE SendRecv \/ RecvData \/ RecvDone \/ RecvError
    <2>1. /\ pc \in {"recv", "data"} /\ pc \in Begun /\ pc \in AtPath
          /\ UNCHANGED <<args, ret, path, tree, made, warned>>
      BY <1>2 DEF SendRecv, RecvData, RecvDone, RecvError, Begun, AtPath
    <2>2. DOMAIN local' \subseteq DOMAIN local \cup {path} /\ kept' \subseteq kept \cup {path}
      BY <1>2 DEF SendRecv, RecvData, RecvDone, RecvError, Unlink, Restrict
    <2>3. dirty' \in BOOLEAN
      BY <1>2 DEF SendRecv, RecvData, RecvDone, RecvError, Unexpected, Types, ClientTypes
    <2>4. \/ UNCHANGED <<src, success>> /\ pc' \in {"data", "copy"}
          \/ NextSource(TRUE) \/ NextSource(FALSE)
      BY <1>2 DEF SendRecv, RecvData, RecvDone, RecvError, RecvFails
    <2>5. /\ src' \in 1..(Len(srcs) + 1) /\ success' \in BOOLEAN
          /\ pc' \in {"source", "quit", "data", "copy"} /\ (pc' # "quit" => src' <= Len(srcs))
      <3>1. ASSUME NEW ok \in BOOLEAN, NextSource(ok)
            PROVE  /\ src' \in 1..(Len(srcs) + 1) /\ success' \in BOOLEAN
                   /\ pc' \in {"source", "quit"} /\ (pc' = "source" => src' <= Len(srcs))
        BY <2>1, <3>1, NextSourceTypes DEF Types
      <3> QED
        BY <2>1, <2>4, <3>1 DEF Types, ClientTypes
    <2> QED
      BY <2>1, <2>2, <2>3, <2>5 DEF Types, ClientTypes, args, tree, Begun, AtPath, StatPcs
  <1> QED
    BY <1>1, <1>2

LEMMA DeviceTypes ==
    ASSUME ClientTypes, DeviceReads \/ DeviceWrites \/ DeviceCloses \/ UNCHANGED vars
    PROVE  ClientTypes'
  BY DEF ClientTypes, DeviceReads, DeviceWrites, DeviceCloses, vars, args, tree, disk

------------------------------------------------------------------------------
(* The connection stays in step.                                           *)

LEMMA Silent ==
    ASSUME coming' = <<>>,
           \/ asked' = <<>> /\ pc' # "data"
           \/ pc' \in StatPcs \cup {"dents"} /\ asked' = <<Request>>'
    PROVE  OnWire'
  <1>1. DOMAIN coming' = {}
    OBVIOUS
  <1> QED
    BY <1>1 DEF OnWire, StatWire, DentWire, StatPcs, Quiet

LEMMA SourceWire ==
    ASSUME Types, WireInv, CheckDst \/ StartSource \/ ProtocolFault \/ SendQuit \/ ReadOrderlyShutdown
    PROVE  ConnTypes' /\ WireInv'
  <1>1. CASE CheckDst
    <2>1. /\ pc = "start" /\ pc' \in {"source", "quit"} /\ UNCHANGED conn
      BY <1>1 DEF CheckDst
    <2>2. UNCHANGED <<req, rep, out, closed, coming, asked>>
      BY <2>1, NotAsked
    <2>3. coming = <<>> /\ asked = <<>>
      BY <2>1, NothingLeft DEF OnWire, Quiet
    <2> QED
      BY <2>1, <2>2, <2>3, Silent DEF WireInv, FaultIsEarned, Types, ConnTypes
  <1>2. CASE StartSource
    <2>1. pc = "source" /\ pc' = "stat" /\ ret' = "source" /\ UNCHANGED dirty /\ UNCHANGED conn
      BY <1>2 DEF StartSource
    <2>2. UNCHANGED <<req, rep, out, closed, coming, asked>>
      BY <2>1, NotAsked
    <2>3. CASE OnWire
      BY <2>1, <2>2, <2>3, Silent DEF OnWire, Quiet, WireInv, FaultIsEarned, Types, ConnTypes
    <2>4. CASE dirty /\ Leftover
      BY <2>1, <2>2, <2>4 DEF Leftover, WireInv, FaultIsEarned, Types, ConnTypes
    <2> QED
      BY <2>3, <2>4 DEF WireInv
  <1>3. CASE ProtocolFault
    <2>1. /\ pc \in StatPcs /\ pc' = "fault" /\ UNCHANGED <<req, out, closed>>
      BY <1>3 DEF ProtocolFault, StatPcs
    <2>2. OnWire'
      BY <2>1 DEF OnWire, Quiet, StatPcs
    <2>3. CASE Ended /\ UNCHANGED <<rep, dirty>>
      BY <2>1, <2>2, <2>3 DEF Ended, WireInv, FaultIsEarned, Types, ConnTypes
    <2>4. CASE Unexpected({"stat"})
      <3>1. rep # <<>> /\ Head(rep).m # "stat" /\ rep' = Tail(rep) /\ (dirty => dirty')
        BY <2>4 DEF Unexpected
      <3>2. rep' \in Seq(Messages) /\ coming # <<>> /\ coming[1] = Head(rep)
        BY <2>1, <3>1, Hear DEF Types
      <3>3. OnWire => coming[1].m = "stat"
        BY <2>1, <3>2 DEF OnWire, StatWire, StatMsg
      <3> QED
        BY <2>1, <2>2, <3>1, <3>2, <3>3 DEF WireInv, FaultIsEarned, Types, ConnTypes
    <2> QED
      BY <1>3, <2>3, <2>4 DEF ProtocolFault
  <1>4. CASE SendQuit \/ ReadOrderlyShutdown
    <2>1. pc' \in {"bye", "done"} /\ UNCHANGED <<rep, out, closed>>
      BY <1>4 DEF SendQuit, ReadOrderlyShutdown, conn
    <2>2. req' \in Seq(Requests)
      <3>1. [m |-> "quit", p |-> <<>>] \in Requests
        BY EmptySeq DEF Requests
      <3> QED
        BY <1>4, <3>1, AppendProperties DEF SendQuit, ReadOrderlyShutdown, Sent, NotSent, conn, Types, ConnTypes
    <2> QED
      BY <2>1, <2>2 DEF OnWire, Quiet, StatPcs, WireInv, FaultIsEarned, Types, ConnTypes
  <1> QED
    BY <1>1, <1>2, <1>3, <1>4

LEMMA StatKeepsWire ==
    ASSUME Types, WireInv, StatAsked \/ \E k \in Kinds \cup {"none"} : StatTaken(k)
    PROVE  ConnTypes' /\ WireInv'
  <1>1. CASE StatAsked
    <2>1. /\ pc \in {"stat", "lstatReply"} /\ pc' \in StatPcs /\ ConnTypes' /\ UNCHANGED <<dirty, ret, closed>>
          /\ pc = "stat" => pc' \in {"statReply", "lstatReply"}
      BY <1>1 DEF StatAsked, Types, ConnTypes
    <2>2. FaultIsEarned'
      BY <2>1 DEF FaultIsEarned, StatPcs
    <2>3. CASE coming' = <<>> /\ (asked' = <<>> \/ asked' = <<Request>>')
      BY <2>1, <2>2, <2>3, Silent DEF WireInv, StatPcs
    <2>4. CASE /\ pc = "stat" /\ dirty /\ Leftover /\ coming' = coming
               /\ IF closed THEN asked' = <<>> ELSE asked' = Append(asked, Request')
      <3>1. asked \in Seq(Requests)
        BY WireTypes DEF Types
      <3>2. ASSUME asked # <<>>, ~closed PROVE asked' # <<>> /\ asked'[1] = asked[1]
        <4> DEFINE r == Request'
        <4>1. r \in Requests
          BY <2>1, <2>4, <1>1 DEF StatAsked, Request, Asks, Requests, Types, ClientTypes, AtPath
        <4>2. asked' = Append(asked, r)
          BY <2>4, <3>2
        <4> HIDE DEF r
        <4>3. 1 \in 1..Len(asked)
          BY <3>1, <3>2, EmptySeq
        <4> QED
          BY <3>1, <4>1, <4>2, <4>3, AppendProperties
      <3> QED
        BY <2>1, <2>2, <2>4, <3>2 DEF Leftover, WireInv, AtPath, StatPcs
    <2> QED
      BY <1>1, <2>3, <2>4 DEF StatAsked
  <1>2. ASSUME NEW k, StatTaken(k) PROVE ConnTypes' /\ WireInv'
    <2>1. ConnTypes' /\ UNCHANGED <<dirty, closed, ret>> /\ StatResult(k)
      BY <1>2 DEF StatTaken, Types, ConnTypes
    <2>2. pc' \in {"source", "quit", "ls", "recv", "links"}
      BY <2>1 DEF StatResult, SourceStat, LinkStat, NextSource
    <2>3. FaultIsEarned'
      BY <2>2 DEF FaultIsEarned
    <2>4. CASE coming' = <<>> /\ asked' = <<>>
      BY <2>1, <2>2, <2>3, <2>4, Silent DEF WireInv
    <2>5. CASE /\ pc = "stat" /\ ret = "source" /\ k = "none"
               /\ dirty /\ Leftover /\ UNCHANGED <<coming, asked>>
      <3>1. pc' \in {"source", "quit"}
        BY <2>1, <2>5 DEF StatResult, SourceStat, NextSource, ShouldPull
      <3> QED
        BY <2>1, <2>3, <2>5, <3>1 DEF Leftover, WireInv, AtPath, StatPcs
    <2> QED
      BY <1>2, <2>4, <2>5 DEF StatTaken
  <1> QED
    BY <1>1, <1>2

LEMMA ListWire ==
    ASSUME Types, WireInv, SendLs \/ ReadDent \/ DentsDone \/ ReadDentFails \/ ResolveLinks
    PROVE  ConnTypes' /\ WireInv'
  <1>1. CASE SendLs
    <2>1. /\ req' \in Seq(Requests) /\ coming' = <<>>
          /\ \/ pc' = "dents" /\ asked' = IF closed THEN <<>> ELSE <<[m |-> "list", p |-> path']>>
             \/ NextSource(FALSE) /\ asked' = <<>>
      BY <1>1, LsSteps
    <2>2. UNCHANGED <<rep, out, closed>>
      BY <1>1 DEF SendLs
    <2>3. pc' = "dents" => Request' = [m |-> "list", p |-> path']
      BY DEF Request, Asks
    <2>4. NextSource(FALSE) => pc' \in {"source", "quit"}
      BY DEF NextSource
    <2>5. OnWire' /\ pc' # "fault"
      BY <2>1, <2>3, <2>4, Silent
    <2> QED
      BY <2>1, <2>2, <2>5 DEF WireInv, FaultIsEarned, Types, ConnTypes
  <1>2. CASE ReadDent
    <2>1. /\ pc = "dents" /\ pc' = "dents" /\ rep # <<>> /\ rep' = Tail(rep) /\ Head(rep).m = "dent"
          /\ UNCHANGED <<path, req, out, closed>>
      BY <1>2 DEF ReadDent, Received
    <2>2. /\ OnWire /\ rep' \in Seq(Messages) /\ coming' = Tail(coming) /\ asked = <<>> /\ asked' = <<>>
          /\ coming # <<>> /\ coming \in Seq(Messages) /\ coming[1] = Head(rep)
      BY <2>1, DentHeard
    <2>3. DentWire'
      <3> DEFINE c == coming
                 d == Tail(coming)
      <3>1. /\ Len(c) \in Nat \ {0} /\ Len(d) = Len(c) - 1 /\ DOMAIN c = 1..Len(c) /\ DOMAIN d = 1..(Len(c) - 1)
            /\ \A i \in 1..(Len(c) - 1) : d[i] = c[i + 1]
        BY <2>2, FirstRest
      <3>2. DentWire
        BY <2>1, <2>2 DEF OnWire
      <3> SUFFICES ASSUME NEW j \in DOMAIN d
                   PROVE  IF j = Len(d) /\ d[j].m # "dent" THEN d[j].m \in {"done", "bad"}
                          ELSE \/ d[j] = Dot(NameOf(path))
                               \/ \E n \in Range(Entries[Resolve(NameOf(path))]) : d[j] = Dent(n)
        BY <2>1, <2>2 DEF DentWire
      <3>3. j + 1 \in DOMAIN c /\ d[j] = c[j + 1] /\ (j = Len(d) <=> j + 1 = Len(c))
        BY <3>1
      <3> HIDE DEF c, d
      <3>4. IF j + 1 = Len(c) /\ c[j + 1].m # "dent" THEN c[j + 1].m \in {"done", "bad"}
            ELSE \/ c[j + 1] = Dot(NameOf(path))
                 \/ \E n \in Range(Entries[Resolve(NameOf(path))]) : c[j + 1] = Dent(n)
        BY <3>2, <3>3 DEF DentWire, c
      <3> QED
        BY <3>3, <3>4
    <2>4. OnWire'
      BY <2>1, <2>2, <2>3 DEF OnWire, Quiet, StatPcs
    <2> QED
      BY <2>1, <2>2, <2>4 DEF WireInv, FaultIsEarned, Types, ConnTypes
  <1>3. CASE DentsDone \/ ReadDentFails
    <2>1. /\ pc = "dents" /\ pc' \in {"links", "source", "quit"} /\ UNCHANGED <<req, out, closed>>
          /\ \/ rep # <<>> /\ rep' = Tail(rep) /\ Head(rep).m # "dent"
             \/ Ended /\ UNCHANGED rep
      BY <1>3 DEF DentsDone, ReadDentFails, Received, Unexpected, NextSource
    <2>2. rep' \in Seq(Messages) /\ coming' = <<>> /\ asked' = <<>>
      <3>1. CASE rep # <<>> /\ rep' = Tail(rep) /\ Head(rep).m # "dent"
        BY <2>1, <3>1, DentHeard DEF Dot, Dent
      <3>2. CASE Ended /\ UNCHANGED rep
        BY <2>1, <3>2, NothingHeard DEF Types, ConnTypes
      <3> QED
        BY <2>1, <3>1, <3>2
    <2> QED
      BY <2>1, <2>2, Silent DEF WireInv, FaultIsEarned, Types, ConnTypes
  <1>4. CASE ResolveLinks
    <2>1. pc = "links" /\ pc' \in {"stat", "copy", "ls"} /\ UNCHANGED conn
      BY <1>4 DEF ResolveLinks
    <2>2. UNCHANGED <<req, rep, out, closed, coming, asked>>
      BY <2>1, NotAsked
    <2>3. coming = <<>> /\ asked = <<>>
      BY <2>1, NothingLeft DEF OnWire, Quiet
    <2> QED
      BY <2>1, <2>2, <2>3, Silent DEF WireInv, FaultIsEarned, Types, ConnTypes
  <1> QED
    BY <1>1, <1>2, <1>3, <1>4

\* The blocks that have arrived are the first ones of their file.
LEMMA NoBlocks ==
    ASSUME NEW p
    PROVE  <<>> = [i \in 1..0 |-> Block(p, i)]
  <1> DEFINE f == [i \in 1..0 |-> Block(p, i)]
  <1>1. f \in [1..0 -> {Block(p, i) : i \in Nat}]
    OBVIOUS
  <1> HIDE DEF f
  <1>2. f \in Seq({Block(p, i) : i \in Nat}) /\ Len(f) = 0
    BY <1>1, SeqDef, LenProperties
  <1>3. f = <<>>
    BY <1>2, EmptySeq
  <1> QED
    BY <1>3 DEF f

LEMMA OneMoreBlock ==
    ASSUME NEW p, NEW n \in Nat, NEW s, s = [i \in 1..n |-> Block(p, i)]
    PROVE  /\ Append(s, Block(p, n + 1)) = [i \in 1..(n + 1) |-> Block(p, i)]
           /\ Len(s) = n /\ Len(Append(s, Block(p, n + 1))) = n + 1
  <1> DEFINE B == {Block(p, i) : i \in Nat}
             t == Append(s, Block(p, n + 1))
             u == [i \in 1..(n + 1) |-> Block(p, i)]
  <1>1. s \in [1..n -> B] /\ u \in [1..(n + 1) -> B] /\ Block(p, n + 1) \in B
    OBVIOUS
  <1>2. \A i \in 1..n : s[i] = Block(p, i)
    OBVIOUS
  <1>3. \A i \in 1..(n + 1) : u[i] = Block(p, i)
    OBVIOUS
  <1> HIDE DEF B, u
  <1>4. s \in Seq(B) /\ Len(s) = n /\ u \in Seq(B) /\ Len(u) = n + 1
    BY <1>1, SeqDef, LenProperties
  <1>5. t \in Seq(B) /\ Len(t) = n + 1 /\ (\A i \in 1..n : t[i] = s[i]) /\ t[n + 1] = Block(p, n + 1)
    BY <1>1, <1>4, AppendProperties
  <1> HIDE DEF t
  <1>6. \A i \in 1..(n + 1) : t[i] = u[i]
    BY <1>2, <1>3, <1>5
  <1>7. t = u
    BY <1>4, <1>5, <1>6, SeqEqual
  <1> QED
    BY <1>4, <1>5, <1>7 DEF t, u

LEMMA FileWire ==
    ASSUME Types, WireInv, CopyNext \/ SendRecv \/ RecvData \/ RecvDone \/ RecvError
    PROVE  ConnTypes' /\ WireInv'
  <1>1. CASE CopyNext
    <2>1. pc = "copy" /\ pc' \in {"copy", "recv", "source", "quit"} /\ UNCHANGED conn
      BY <1>1 DEF CopyNext, NextSource
    <2>2. UNCHANGED <<req, rep, out, closed, coming, asked>>
      BY <2>1, NotAsked
    <2>3. coming = <<>> /\ asked = <<>>
      BY <2>1, NothingLeft DEF OnWire, Quiet
    <2> QED
      BY <2>1, <2>2, <2>3, Silent DEF WireInv, FaultIsEarned, Types, ConnTypes
  <1>2. CASE SendRecv
    <2>1. pc = "recv" /\ UNCHANGED <<path, rep, out, closed>> /\ coming = <<>> /\ asked = <<>>
      BY <1>2, NothingLeft DEF SendRecv, OnWire, Quiet
    <2>2. CASE NotSent(path) /\ RecvFails
      <3>1. UNCHANGED <<req, coming, asked>> /\ pc' \in {"source", "quit"}
        BY <2>1, <2>2 DEF NotSent, coming, asked, RecvFails, NextSource
      <3> QED
        BY <2>1, <3>1, Silent DEF WireInv, FaultIsEarned, Types, ConnTypes
    <2>3. CASE /\ Sent("recv", path)
               /\ \/ /\ local' = [p \in DOMAIN local \cup {path} |-> IF p = path THEN <<>> ELSE local[p]]
                     /\ pc' = "data"
                  \/ RecvFails /\ dirty'
      <3> DEFINE r == [m |-> "recv", p |-> path]
      <3>1. r \in Requests
        BY <2>1 DEF Requests, Types, ClientTypes, AtPath
      <3>2. /\ req' \in Seq(Requests) /\ coming' = <<>>
            /\ asked' = IF closed THEN <<>> ELSE Append(asked, r)
        BY <2>1, <2>3, <3>1, Ask DEF Types
      <3>3. IF closed THEN asked' = <<>> ELSE asked' = <<r>>
        BY <2>1, <3>2
      <3>4. ConnTypes'
        BY <2>1, <3>2 DEF Types, ConnTypes
      <3>5. CASE pc' = "data" /\ local' = [p \in DOMAIN local \cup {path} |-> IF p = path THEN <<>> ELSE local[p]]
        <4>1. path \in DOMAIN local' /\ local'[path] = <<>> /\ path' = path
          BY <2>1, <3>5
        <4>2. path' \in DOMAIN local' /\ local'[path'] = <<>> /\ Got' = 0
          BY <4>1 DEF Got
        <4>3. local'[path'] = [i \in 1..Got' |-> Block(path', i)]
          BY <4>2, NoBlocks
        <4>4. DOMAIN coming' = {}
          BY <3>2
        <4>5. ~closed' => asked' # <<>>
          BY <2>1, <3>3
        <4>6. DataWire'
          BY <4>2, <4>3, <4>4, <4>5, SyncPullAssumption DEF DataWire
        <4>7. Request' = r
          BY <2>1, <3>5 DEF Request, Asks
        <4> QED
          BY <3>2, <3>3, <3>4, <3>5, <4>6, <4>7 DEF OnWire, WireInv, FaultIsEarned, Quiet, StatPcs
      <3>6. CASE RecvFails /\ dirty'
        <4>1. pc' \in {"source", "quit"}
          BY <3>6 DEF RecvFails, NextSource
        <4>2. ~closed' => asked' # <<>> /\ asked'[1].m = "recv"
          BY <2>1, <3>3
        <4> QED
          BY <3>2, <3>4, <3>6, <4>1, <4>2 DEF Leftover, AtPath, StatPcs, WireInv, FaultIsEarned
      <3> QED
        BY <2>3, <3>5, <3>6
    <2> QED
      BY <1>2, <2>2, <2>3 DEF SendRecv
  <1>3. CASE RecvData
    <2>1. /\ pc = "data" /\ rep # <<>> /\ Head(rep).m = "data" /\ rep' = Tail(rep)
          /\ UNCHANGED <<path, req, out, closed>>
      BY <1>3 DEF RecvData, Received
    <2>2. /\ OnWire /\ rep' \in Seq(Messages) /\ coming' = Tail(coming) /\ asked = <<>> /\ asked' = <<>>
          /\ coming # <<>> /\ coming \in Seq(Messages) /\ coming[1] = Head(rep)
          /\ Head(rep) = Data(path, Got + 1) /\ Got + 1 <= Blocks
      BY <2>1, DataHeard
    <2>3. DataWire /\ Got \in Nat
      BY <2>1, <2>2, GotIsNat DEF OnWire
    <2> DEFINE c == coming
               d == Tail(coming)
    <2>4. /\ Len(c) \in Nat \ {0} /\ Len(d) = Len(c) - 1 /\ DOMAIN c = 1..Len(c) /\ DOMAIN d = 1..(Len(c) - 1)
          /\ \A i \in 1..(Len(c) - 1) : d[i] = c[i + 1]
          /\ d # <<>> => Last(d) = Last(c) /\ Len(c) > 1
      BY <2>2, FirstRest
    <2>5. ~closed => d # <<>> /\ Last(d).m # "data"
      <3>1. ~closed => Last(c).m # "data"
        BY <2>2, <2>3 DEF DataWire
      <3>2. Len(c) = 1 => Last(c).m = "data"
        BY <2>1, <2>2 DEF Last
      <3> HIDE DEF c, d
      <3>3. d = <<>> => Len(d) = 0
        BY Len(<<>>) = 0
      <3>4. Len(c) # 1 => Len(d) # 0
        BY <2>4
      <3> QED
        BY <2>4, <3>1, <3>2, <3>4, <3>3
    <2>6. \A j \in DOMAIN d :
              \/ d[j] = Data(path, Got + (j + 1)) /\ Got + (j + 1) <= Blocks
              \/ j = Len(d) /\ d[j].m \in {"fail", "bad"}
              \/ j = Len(d) /\ d[j].m = "done" /\ Got + (j + 1) = Blocks + 1
                 /\ KindOf(Resolve(NameOf(path))) = "file"
      <3> SUFFICES ASSUME NEW j \in DOMAIN d
                   PROVE  \/ d[j] = Data(path, Got + (j + 1)) /\ Got + (j + 1) <= Blocks
                          \/ j = Len(d) /\ d[j].m \in {"fail", "bad"}
                          \/ j = Len(d) /\ d[j].m = "done" /\ Got + (j + 1) = Blocks + 1
                             /\ KindOf(Resolve(NameOf(path))) = "file"
        OBVIOUS
      <3>1. j + 1 \in DOMAIN c /\ d[j] = c[j + 1] /\ (j = Len(d) <=> j + 1 = Len(c))
        BY <2>4
      <3> HIDE DEF d
      <3>2. \/ c[j + 1] = Data(path, Got + (j + 1)) /\ Got + (j + 1) <= Blocks
            \/ j + 1 = Len(c) /\ c[j + 1].m \in {"fail", "bad"}
            \/ j + 1 = Len(c) /\ c[j + 1].m = "done" /\ Got + (j + 1) = Blocks + 1
               /\ KindOf(Resolve(NameOf(path))) = "file"
        BY <2>3, <3>1 DEF DataWire
      <3> QED
        BY <3>1, <3>2
    <2>7. ConnTypes'
      BY <2>1, <2>2 DEF Types, ConnTypes
    <2>8. CASE pc' = "data" /\ local' = [local EXCEPT ![path] = Append(@, Block(Head(rep).p, Head(rep).i))]
      <3>1. path' \in DOMAIN local' /\ local'[path'] = Append(local[path], Block(path, Got + 1))
        BY <2>1, <2>2, <2>3, <2>8 DEF DataWire, Data
      <3> DEFINE g == Got
      <3>2. g \in Nat /\ local[path] = [i \in 1..g |-> Block(path, i)]
        BY <2>3 DEF DataWire
      <3> HIDE DEF g
      <3>3. /\ Append(local[path], Block(path, g + 1)) = [i \in 1..(g + 1) |-> Block(path, i)]
            /\ Len(Append(local[path], Block(path, g + 1))) = g + 1
        BY <3>2, OneMoreBlock
      <3>4. local'[path'] = Append(local[path], Block(path, g + 1)) /\ path' = path
        BY <2>1, <3>1 DEF g
      <3>5. Got' = g + 1
        BY <3>3, <3>4 DEF Got
      <3>6. Got' = g + 1 /\ local'[path'] = [i \in 1..Got' |-> Block(path', i)]
        BY <3>3, <3>4, <3>5
      <3>7. \A j \in DOMAIN d : Got' + j = g + (j + 1)
        BY <2>4, <3>2, <3>6
      <3>8. Got' \in 0..Blocks
        BY <2>2, <3>2, <3>6, SyncPullAssumption DEF g
      <3> HIDE DEF d
      <3>9. coming' = d
        BY <2>2 DEF d
      <3>10. \A j \in DOMAIN d :
              \/ d[j] = Data(path', Got' + j) /\ Got' + j <= Blocks
              \/ j = Len(d) /\ d[j].m \in {"fail", "bad"}
              \/ j = Len(d) /\ d[j].m = "done" /\ Got' + j = Blocks + 1
                 /\ KindOf(Resolve(NameOf(path'))) = "file"
        BY <2>1, <2>6, <3>7 DEF g
      <3>11. DataWire'
        BY <2>1, <2>2, <2>5, <3>1, <3>6, <3>8, <3>9, <3>10 DEF DataWire
      <3> QED
        BY <2>2, <2>7, <2>8, <3>11 DEF OnWire, WireInv, FaultIsEarned, Quiet, StatPcs
    <2>9. CASE RecvFails /\ dirty'
      <3>1. pc' \in {"source", "quit"}
        BY <2>9 DEF RecvFails, NextSource
      <3>2. coming' # <<>> => coming'[1].m # "stat"
        <4>1. ASSUME d # <<>> PROVE 1 \in DOMAIN d
          BY <2>4, <4>1
        <4>2. ASSUME 1 \in DOMAIN d PROVE d[1].m # "stat"
          <5> HIDE DEF d
          <5> QED
            BY <2>6, <4>2 DEF Data
        <4> QED
          BY <2>2, <4>1, <4>2
      <3>3. coming' = <<>> => closed'
        BY <2>1, <2>2, <2>5
      <3> QED
        BY <2>7, <2>9, <3>1, <3>2, <3>3 DEF Leftover, AtPath, StatPcs, WireInv, FaultIsEarned
    <2> QED
      BY <1>3, <2>8, <2>9 DEF RecvData
  <1>4. CASE RecvDone \/ RecvError
    <2>1. /\ pc = "data" /\ pc' \in {"copy", "source", "quit"} /\ UNCHANGED <<req, out, closed>>
          /\ \/ rep # <<>> /\ rep' = Tail(rep) /\ Head(rep).m # "data"
             \/ Ended /\ UNCHANGED rep
      BY <1>4 DEF RecvDone, RecvError, Received, Unexpected, RecvFails, NextSource
    <2>2. rep' \in Seq(Messages) /\ coming' = <<>> /\ asked' = <<>>
      <3>1. CASE rep # <<>> /\ rep' = Tail(rep) /\ Head(rep).m # "data"
        BY <2>1, <3>1, DataHeard DEF Data
      <3>2. CASE Ended /\ UNCHANGED rep
        BY <2>1, <3>2, NothingHeard DEF Types, ConnTypes
      <3> QED
        BY <2>1, <3>1, <3>2
    <2> QED
      BY <2>1, <2>2, Silent DEF WireInv, FaultIsEarned, Types, ConnTypes
  <1> QED
    BY <1>1, <1>2, <1>3, <1>4

LEMMA AnswerIsSome ==
    ASSUME NEW r \in Requests, r.m # "quit", NEW a \in Answers(r)
    PROVE  a \in Seq(Messages)
  <1>1. r.m \in {"stat", "lstat", "lstatDir", "list", "recv"}
    BY DEF Requests
  <1>2. CASE r.m \in {"stat", "lstat", "lstatDir"}
    BY <1>2, StatAnswers, StatMessage
  <1>3. CASE r.m = "list"
    BY <1>3, ListAnswers
  <1>4. CASE r.m = "recv"
    BY <1>4, FileAnswers
  <1> QED
    BY <1>1, <1>2, <1>3, <1>4

\* The answer to the request of the client is what it waits for.
LEMMA AnswerWire ==
    ASSUME Types, OnWire, pc \in StatPcs \cup {"dents", "data"}, asked # <<>>, DeviceReads
    PROVE  OnWire' /\ out' \in Seq(Messages)
  <1> DEFINE r == Request
             a == out'
  <1>1. asked = <<Request>> /\ coming = <<>> /\ UNCHANGED <<pc, path, local>>
    BY DEF OnWire, DeviceReads, disk
  <1>2. r = [m |-> Asks[pc], p |-> path] /\ r \in Requests /\ r.m # "quit" /\ Request' = r
    BY <1>1 DEF Request, Asks, Requests, Types, ClientTypes, AtPath, StatPcs
  <1>3. asked[1] = r /\ Tail(asked) = <<>>
    BY <1>1
  <1> HIDE DEF r
  <1>4. /\ ~closed /\ asked' = <<>> /\ a \in Answers(r)
        /\ a \in Seq(Messages) => coming' = coming \o a
    BY <1>2, <1>3, Read DEF Types
  <1> HIDE DEF a
  <1>5. a \in Seq(Messages)
    BY <1>2, <1>4, AnswerIsSome
  <1>6. coming' = a
    <2>1. <<>> \o a = a
      BY <1>5, ConcatEmptySeq
    <2> QED
      BY <1>1, <1>4, <1>5, <2>1
  <1>7. CASE pc \in StatPcs
    <2>1. r.m \in {"stat", "lstat", "lstatDir"}
      BY <1>2, <1>7 DEF Asks, StatPcs
    <2>2. a = StatMsg(StatAnswer(r))
      BY <1>2, <1>4, <2>1, StatAnswers
    <2>3. StatAnswer(Request)' = StatAnswer(r)
      BY <1>2 DEF StatAnswer
    <2>4. StatWire'
      BY <1>6, <2>2, <2>3 DEF StatWire
    <2> QED
      BY <1>1, <1>4, <1>5, <1>7, <2>4 DEF OnWire, StatPcs, Quiet, a
  <1>8. CASE pc = "dents"
    <2>1. r.m = "list" /\ r.p = path
      BY <1>2, <1>8 DEF Asks
    <2> DEFINE names == Range(Entries[Resolve(NameOf(path))])
    <2>2. /\ Len(a) \in Nat \ {0}
          /\ \A j \in 1..(Len(a) - 1) : a[j] = Dot(NameOf(path)) \/ \E n \in names : a[j] = Dent(n)
          /\ a[Len(a)].m \in {"done", "bad"}
      BY <1>2, <1>4, <2>1, ListAnswers
    <2>3. DOMAIN a = 1..Len(a)
      BY <1>5, LenProperties
    <2>4. DentWire'
      BY <1>1, <1>6, <2>2, <2>3 DEF DentWire
    <2> QED
      BY <1>1, <1>4, <1>5, <1>8, <2>4 DEF OnWire, StatPcs, Quiet, a
  <1>9. CASE pc = "data"
    <2>1. r.m = "recv" /\ r.p = path
      BY <1>2, <1>9 DEF Asks
    <2>2. /\ Len(a) \in Nat \ {0}
          /\ \A j \in 1..(Len(a) - 1) : a[j] = Data(path, j) /\ j <= Blocks
          /\ \/ a[Len(a)].m \in {"fail", "bad"}
             \/ /\ a[Len(a)].m = "done" /\ Len(a) = Blocks + 1
                /\ KindOf(Resolve(NameOf(path))) = "file"
      BY <1>2, <1>4, <2>1, FileAnswers
    <2>3. DOMAIN a = 1..Len(a) /\ a # <<>> /\ Last(a) = a[Len(a)]
      BY <1>5, <2>2, LenProperties, EmptySeq DEF Last
    <2>4. DataWire /\ local[path] = <<>>
      BY <1>1, <1>9 DEF OnWire, DataWire
    <2>5. Got = 0 /\ Got' = 0
      BY <1>1, <2>4 DEF Got
    <2>6. \A j \in DOMAIN a :
             \/ a[j] = Data(path, 0 + j) /\ 0 + j <= Blocks
             \/ j = Len(a) /\ a[j].m \in {"fail", "bad"}
             \/ j = Len(a) /\ a[j].m = "done" /\ 0 + j = Blocks + 1
                /\ KindOf(Resolve(NameOf(path))) = "file"
      BY <2>2, <2>3
    <2>7. Last(a).m # "data"
      BY <2>2, <2>3
    <2>8. /\ path' \in DOMAIN local' /\ Got' \in 0..Blocks /\ local'[path'] = [i \in 1..Got' |-> Block(path', i)]
      BY <1>1, <2>4, <2>5 DEF DataWire
    <2>9. DataWire'
      BY <1>1, <1>4, <1>6, <2>3, <2>4, <2>5, <2>6, <2>7, <2>8 DEF DataWire
    <2> QED
      BY <1>1, <1>4, <1>5, <1>9, <2>9 DEF OnWire, StatPcs, Quiet, a
  <1> QED
    BY <1>7, <1>8, <1>9

LEMMA ReadWire ==
    ASSUME Types, WireInv, DeviceReads
    PROVE  ConnTypes' /\ WireInv'
  <1>1. UNCHANGED <<pc, ret, path, local, dirty>>
    BY DEF DeviceReads, disk
  <1>2. asked \in Seq(Requests) /\ coming \in Seq(Messages)
    BY WireTypes DEF Types
  <1>3. /\ ~closed /\ asked # <<>> /\ req' \in Seq(Requests) /\ UNCHANGED rep
        /\ \/ /\ asked[1].m = "quit" /\ closed' /\ UNCHANGED <<out, coming>> /\ asked' = <<>>
           \/ /\ asked[1].m # "quit" /\ ~closed' /\ asked' = Tail(asked)
              /\ out' \in Answers(asked[1])
              /\ out' \in Seq(Messages) => coming' = coming \o out'
    BY Read DEF Types
  <1>4. asked[1] \in Requests
    BY <1>2, <1>3, FirstRest
  <1>5. out' \in Seq(Messages)
    BY <1>3, <1>4, AnswerIsSome DEF Types, ConnTypes
  <1>6. closed' \in BOOLEAN
    BY DEF DeviceReads, Types, ConnTypes
  <1>7. ConnTypes'
    BY <1>3, <1>5, <1>6 DEF Types, ConnTypes
  <1>8. FaultIsEarned'
    BY <1>1, <1>3 DEF WireInv, FaultIsEarned
  <1>9. CASE OnWire
    <2>1. pc \notin Quiet
      BY <1>3, <1>9 DEF OnWire
    <2>2. CASE pc \in StatPcs \cup {"dents", "data"}
      BY <1>3, <1>7, <1>8, <1>9, <2>2, AnswerWire DEF WireInv
    <2>3. CASE pc \notin StatPcs \cup {"dents", "data"}
      BY <1>1, <1>7, <1>8, <2>1, <2>3 DEF WireInv, OnWire
    <2> QED
      BY <2>2, <2>3
  <1>10. CASE dirty /\ Leftover
    <2>1. CASE pc \in {"bye", "done", "fault"}
      BY <1>1, <1>7, <1>8, <1>10, <2>1 DEF WireInv, Leftover, AtPath, StatPcs
    <2>2. ASSUME pc \notin {"bye", "done", "fault"}
          PROVE  coming' # <<>> /\ coming'[1].m # "stat"
      <3>1. CASE coming # <<>> /\ coming[1].m # "stat"
        <4>1. CASE UNCHANGED coming
          BY <3>1, <4>1
        <4>2. CASE coming' = coming \o out'
          <5> DEFINE a == out'
                     c == coming \o a
          <5>1. a \in Seq(Messages)
            BY <1>5
          <5> HIDE DEF a
          <5>2. Len(coming) \in Nat \ {0} /\ Len(a) \in Nat
            BY <1>2, <3>1, <5>1, FirstRest, LenProperties
          <5>3. /\ c \in Seq(Messages) /\ Len(c) = Len(coming) + Len(a)
                /\ \A i \in 1..(Len(coming) + Len(a)) :
                       c[i] = IF i <= Len(coming) THEN coming[i] ELSE a[i - Len(coming)]
            BY <1>2, <5>1, ConcatProperties
          <5> HIDE DEF c
          <5>4. c[1] = coming[1] /\ Len(c) # 0
            BY <5>2, <5>3
          <5>5. c # <<>>
            BY <5>3, <5>4, EmptySeq
          <5> QED
            BY <3>1, <4>2, <5>4, <5>5 DEF a, c
        <4> QED
          BY <1>3, <1>5, <4>1, <4>2
      <3>2. CASE coming = <<>> /\ asked[1].m = "recv"
        <4> DEFINE a == out'
        <4>1. a \in Seq(Messages) /\ a \in Answers(asked[1])
          BY <1>3, <1>5, <3>2
        <4>2. coming' = <<>> \o a
          BY <1>3, <1>5, <3>2
        <4> HIDE DEF a
        <4>3. <<>> \o a = a
          BY <4>1, ConcatEmptySeq
        <4> DEFINE n == Len(a)
        <4>4. /\ n \in Nat \ {0}
              /\ \A j \in 1..(n - 1) : a[j] = Data(asked[1].p, j)
              /\ a[n].m \in {"fail", "bad", "done"}
          BY <1>4, <3>2, <4>1, FileAnswers
        <4> HIDE DEF n
        <4>5. \A p, i : Data(p, i).m = "data"
          BY DEF Data
        <4>6. n \in Nat \ {0} /\ \A j \in 1..(n - 1) : a[j].m = "data"
          BY <4>4, <4>5
        <4>7. a[1].m # "stat"
          <5>1. CASE n = 1
            BY <4>4, <5>1
          <5>2. CASE n # 1
            <6>1. 1 \in 1..(n - 1)
              BY <4>6, <5>2
            <6> QED
              BY <4>6, <6>1
          <5> QED
            BY <5>1, <5>2
        <4>8. a # <<>>
          BY <4>6 DEF n
        <4> QED
          BY <4>2, <4>3, <4>7, <4>8
      <3> QED
        BY <1>3, <1>10, <2>2, <3>1, <3>2 DEF Leftover
    <2> QED
      BY <1>1, <1>7, <1>8, <1>10, <2>1, <2>2 DEF WireInv, Leftover, AtPath, StatPcs
  <1> QED
    BY <1>9, <1>10 DEF WireInv

LEMMA CloseWire ==
    ASSUME Types, WireInv, DeviceCloses
    PROVE  ConnTypes' /\ WireInv'
  <1> DEFINE c == coming
             d == coming'
  <1>1. UNCHANGED <<pc, ret, path, local, dirty>>
    BY DEF DeviceCloses, disk
  <1>2. c \in Seq(Messages)
    BY WireTypes DEF Types
  <1>3. /\ closed' /\ asked' = <<>> /\ UNCHANGED <<req, rep, out>> /\ d \in Seq(Messages)
        /\ c = <<>> => d = <<>>
        /\ Len(d) \in 0..Len(c)
        /\ \A i \in 1..Len(d) : d[i] = c[i]
    BY Close DEF Types
  <1>4. ConnTypes'
    BY <1>3 DEF DeviceCloses, Types, ConnTypes
  <1>5. FaultIsEarned'
    BY <1>3 DEF FaultIsEarned
  <1>6. /\ Len(c) \in Nat /\ Len(d) \in Nat /\ DOMAIN c = 1..Len(c) /\ DOMAIN d = 1..Len(d)
        /\ d = <<>> \/ Len(d) \in Nat \ {0}
    BY <1>2, <1>3, LenProperties, EmptySeq
  <1> HIDE DEF c, d
  <1>7. \A j \in DOMAIN d : j \in DOMAIN c /\ d[j] = c[j] /\ (j = Len(c) => j = Len(d))
    BY <1>3, <1>6
  <1>8. CASE OnWire
    <2>1. pc \in Quiet => d = <<>>
      BY <1>3, <1>8 DEF OnWire, c
    <2>2. ASSUME pc \in StatPcs PROVE StatWire'
      <3>1. StatWire /\ StatAnswer(Request)' = StatAnswer(Request)
        BY <1>1, <1>8, <2>2 DEF OnWire, StatAnswer, Request
      <3>2. CASE Len(c) = 0 \/ Len(d) = 0
        BY <1>2, <1>3, <3>2, EmptySeq DEF StatWire, d
      <3>3. CASE Len(c) = 1 /\ Len(d) = 1
        <4>1. d = c
          BY <1>2, <1>3, <3>3, SeqEqual
        <4> QED
          BY <3>1, <4>1 DEF StatWire, c, d
      <3>4. Len(c) = 0 \/ Len(c) = 1
        BY <3>1 DEF StatWire, StatMsg, c
      <3> QED
        BY <1>3, <3>2, <3>3, <3>4
    <2>3. ASSUME pc = "dents" PROVE DentWire'
      <3>1. DentWire
        BY <1>8, <2>3 DEF OnWire
      <3> SUFFICES ASSUME NEW j \in DOMAIN d
                   PROVE  IF j = Len(d) /\ d[j].m # "dent" THEN d[j].m \in {"done", "bad"}
                          ELSE \/ d[j] = Dot(NameOf(path))
                               \/ \E n \in Range(Entries[Resolve(NameOf(path))]) : d[j] = Dent(n)
        BY <1>1 DEF DentWire, d
      <3>2. IF j = Len(c) /\ c[j].m # "dent" THEN c[j].m \in {"done", "bad"}
            ELSE \/ c[j] = Dot(NameOf(path))
                 \/ \E n \in Range(Entries[Resolve(NameOf(path))]) : c[j] = Dent(n)
        BY <1>7, <3>1 DEF DentWire, c
      <3>3. CASE j = Len(c) /\ c[j].m # "dent"
        BY <1>7, <3>2, <3>3
      <3>4. CASE ~(j = Len(c) /\ c[j].m # "dent")
        <4>1. d[j] = c[j]
          BY <1>7
        <4>2. \/ d[j] = Dot(NameOf(path))
              \/ \E n \in Range(Entries[Resolve(NameOf(path))]) : d[j] = Dent(n)
          BY <3>2, <3>4, <4>1
        <4>3. d[j].m = "dent"
          BY <4>2 DEF Dot, Dent
        <4> QED
          BY <4>2, <4>3
      <3> QED
        BY <3>3, <3>4
    <2>4. ASSUME pc = "data" PROVE DataWire'
      <3>1. DataWire /\ Got' = Got
        BY <1>1, <1>8, <2>4 DEF OnWire, Got
      <3>2. \A j \in DOMAIN d :
               \/ d[j] = Data(path, Got + j) /\ Got + j <= Blocks
               \/ j = Len(d) /\ d[j].m \in {"fail", "bad"}
               \/ j = Len(d) /\ d[j].m = "done" /\ Got + j = Blocks + 1
                  /\ KindOf(Resolve(NameOf(path))) = "file"
        BY <1>7, <3>1 DEF DataWire, c
      <3> QED
        BY <1>1, <1>3, <3>1, <3>2 DEF DataWire, d
    <2>5. OnWire'
      BY <1>1, <1>3, <2>1, <2>2, <2>3, <2>4 DEF OnWire, d
    <2> QED
      BY <1>4, <1>5, <2>5 DEF WireInv
  <1>9. CASE dirty /\ Leftover
    <2>1. d # <<>> => d[1] = c[1] /\ c # <<>>
      BY <1>3, <1>6
    <2>2. Leftover'
      BY <1>1, <1>3, <1>9, <2>1 DEF Leftover, AtPath, StatPcs, c, d
    <2> QED
      BY <1>1, <1>4, <1>5, <1>9, <2>2 DEF WireInv
  <1> QED
    BY <1>8, <1>9 DEF WireInv

LEMMA DeviceWire ==
    ASSUME Types, WireInv, DeviceReads \/ DeviceWrites \/ DeviceCloses \/ UNCHANGED vars
    PROVE  ConnTypes' /\ WireInv'
  <1>1. CASE DeviceReads
    BY <1>1, ReadWire
  <1>2. CASE DeviceCloses
    BY <1>2, CloseWire
  <1>3. CASE DeviceWrites \/ UNCHANGED vars
    <2>1. UNCHANGED <<pc, ret, path, local, dirty, req, closed>>
      BY <1>3 DEF DeviceWrites, vars, disk
    <2>2. UNCHANGED <<coming, asked>> /\ rep' \in Seq(Messages) /\ out' \in Seq(Messages)
      BY <1>3, Write DEF Types, ConnTypes, vars, coming, asked
    <2>3. ConnTypes' /\ FaultIsEarned'
      BY <2>1, <2>2 DEF Types, ConnTypes, WireInv, FaultIsEarned
    <2>4. OnWire' = OnWire
      BY <2>1, <2>2 DEF OnWire, StatWire, StatAnswer, Request, DentWire, DataWire, Got
    <2>5. Leftover' = Leftover
      BY <2>1, <2>2 DEF Leftover
    <2> QED
      BY <2>1, <2>3, <2>4, <2>5 DEF WireInv
  <1> QED
    BY <1>1, <1>2, <1>3

------------------------------------------------------------------------------
(* The first theorems.                                                     *)

LEMMA ReplyRoomKept ==
    ASSUME Types, [Next]_vars
    PROVE  Len(rep') <= ReplyRoom
  <1>1. Len(rep) \in Nat /\ Len(rep) <= ReplyRoom /\ rep \in Seq(Messages) /\ out \in Seq(Messages)
    BY LenProperties DEF Types, ConnTypes
  <1>2. CASE rep # <<>> /\ rep' = Tail(rep)
    BY <1>1, <1>2, FirstRest, SyncPullAssumption
  <1>3. CASE DeviceWrites
    <2>1. Head(out) \in Messages /\ rep' = Append(rep, Head(out)) /\ Len(rep) < ReplyRoom
      BY <1>1, <1>3, FirstRest DEF DeviceWrites
    <2>2. Len(Append(rep, Head(out))) = Len(rep) + 1
      BY <1>1, <2>1, AppendProperties
    <2> QED
      BY <1>1, <2>1, <2>2, SyncPullAssumption
  <1>4. CASE UNCHANGED rep
    BY <1>1, <1>4
  <1>5. CASE CheckDst \/ StartSource \/ SendStat \/ LstatReply \/ StatReply \/ ProtocolFault
    BY <1>2, <1>4, <1>5
       DEF CheckDst, StartSource, SendStat, LstatReply, StatReply, ProtocolFault, Unexpected, Received, conn
  <1>6. CASE SendLs \/ ReadDent \/ DentsDone \/ ReadDentFails \/ ResolveLinks \/ SendQuit \/ ReadOrderlyShutdown
    BY <1>2, <1>4, <1>6
       DEF SendLs, ReadDent, DentsDone, ReadDentFails, ResolveLinks, SendQuit, ReadOrderlyShutdown,
           Unexpected, Received, conn
  <1>7. CASE CopyNext \/ SendRecv \/ RecvData \/ RecvDone \/ RecvError
    BY <1>2, <1>4, <1>7 DEF CopyNext, SendRecv, RecvData, RecvDone, RecvError, Unexpected, Received, conn
  <1>8. CASE DeviceReads \/ DeviceCloses \/ UNCHANGED vars
    BY <1>4, <1>8 DEF DeviceReads, DeviceCloses, vars
  <1> QED
    BY <1>3, <1>5, <1>6, <1>7, <1>8 DEF Next, Client, Device

LEMMA InitWire == Init => Types /\ WireInv
  <1> SUFFICES ASSUME Init PROVE Types /\ WireInv
    OBVIOUS
  <1>1. srcs \in SourceLists /\ srcs \in Seq(Names) /\ Len(srcs) \in Nat \ {0} /\ srcs[1] \in Names
    BY SourceFacts DEF Init
  <1>2. DOMAIN local \subseteq Seq(Names)
    <2>1. <<srcs[1]>> \in Seq(Names)
      BY <1>1
    <2>2. DOMAIN <<>> = {}
      OBVIOUS
    <2> QED
      BY <2>1, <2>2 DEF Init
  <1>3. /\ files \in Seq([p : Paths, k : Kinds])
        /\ dirs \in Seq({p \in Paths : IsDir(p)}) /\ links \in Seq(Paths)
        /\ path \in Seq(Names)
        /\ req \in Seq(Requests) /\ rep \in Seq(Messages) /\ out \in Seq(Messages)
        /\ Len(rep) = 0
    BY EmptySeq DEF Init
  <1>4. src \in 1..(Len(srcs) + 1) /\ src <= Len(srcs)
    BY <1>1 DEF Init
  <1>5. /\ srcs \in SourceLists /\ dst \in {"dir", "file", "none", "orphan"}
        /\ copyAttrs \in BOOLEAN /\ stat2 \in BOOLEAN /\ pc = "start" /\ ret = "source"
        /\ success = TRUE /\ dirty = FALSE /\ closed = FALSE
        /\ made = {} /\ kept = {} /\ warned = {}
    BY DEF Init
  <1>6. ClientTypes
    BY <1>2, <1>3, <1>4, <1>5 DEF ClientTypes, Begun, AtPath, StatPcs
  <1>7. Types
    <2>1. 0 <= ReplyRoom
      BY SyncPullAssumption
    <2> QED
      BY <1>3, <1>6, <1>5, <2>1 DEF Types, ConnTypes
  <1>8. coming = <<>> /\ asked = <<>>
    <2>1. <<>> \o <<>> = <<>>
      OBVIOUS
    <2> QED
      BY <2>1 DEF Init, coming, asked
  <1>9. OnWire /\ FaultIsEarned
    BY <1>8 DEF Init, OnWire, StatPcs, FaultIsEarned
  <1> QED
    BY <1>7, <1>9 DEF WireInv

LEMMA WireStep ==
    ASSUME Types, WireInv, [Next]_vars
    PROVE  Types' /\ WireInv'
  <1>1. CASE CheckDst \/ StartSource \/ ProtocolFault \/ SendQuit \/ ReadOrderlyShutdown
    BY <1>1, SourceTypes, SourceWire, ReplyRoomKept DEF Types
  <1>2. CASE SendStat \/ LstatReply \/ StatReply
    BY <1>2, StatSteps, StatTypes, StatKeepsWire, ReplyRoomKept DEF Types
  <1>3. CASE SendLs \/ ReadDent \/ DentsDone \/ ReadDentFails \/ ResolveLinks
    BY <1>3, ListTypes, ListWire, ReplyRoomKept DEF Types
  <1>4. CASE CopyNext \/ SendRecv \/ RecvData \/ RecvDone \/ RecvError
    BY <1>4, FileTypes, FileWire, ReplyRoomKept DEF Types
  <1>5. CASE DeviceReads \/ DeviceWrites \/ DeviceCloses \/ UNCHANGED vars
    BY <1>5, DeviceTypes, DeviceWire, ReplyRoomKept DEF Types
  <1> QED
    BY <1>1, <1>2, <1>3, <1>4, <1>5 DEF Next, Client, Device

\* Every variable keeps its type, for every tree, list of sources, length of
\* files and paths, and every failure of the device and of the local disk.
THEOREM PullTypeCorrect == Spec => []TypeOK
  <1>1. Init => Types /\ WireInv
    BY InitWire
  <1>2. (Types /\ WireInv) /\ [Next]_vars => (Types /\ WireInv)'
    BY WireStep
  <1>3. Types => TypeOK
    BY TypesImplyTypeOK
  <1> QED
    BY <1>1, <1>2, <1>3, PTL DEF Spec

\* FinishStat meets LOG(FATAL) "protocol fault" only on a connection that the
\* device closed, or behind a reply the client itself stopped reading: every
\* other reply is for the request the client waits for.
THEOREM PullFaultCorrect == Spec => []FaultIsEarned
  <1>1. Init => Types /\ WireInv
    BY InitWire
  <1>2. (Types /\ WireInv) /\ [Next]_vars => (Types /\ WireInv)'
    BY WireStep
  <1>3. WireInv => FaultIsEarned
    BY DEF WireInv
  <1> QED
    BY <1>1, <1>2, <1>3, PTL DEF Spec

------------------------------------------------------------------------------
(* No part of a file is left under its name.                               *)

\* Only the file at hand changes.
LEMMA FileAtHand ==
    ASSUME SendRecv \/ RecvData \/ RecvDone \/ RecvError
    PROVE  \A p \in DOMAIN local' : p # path => p \in DOMAIN local /\ local'[p] = local[p]
  <1>1. CASE UNCHANGED local
    BY <1>1
  <1>2. CASE Unlink
    BY <1>2 DEF Unlink, Restrict
  <1>3. CASE local' = [p \in DOMAIN local \cup {path} |-> IF p = path THEN <<>> ELSE local[p]]
    BY <1>3
  <1>4. CASE \E b : local' = [local EXCEPT ![path] = b]
    BY <1>4
  <1> QED
    BY <1>1, <1>2, <1>3, <1>4 DEF SendRecv, RecvData, RecvDone, RecvError

LEMMA FilesStep ==
    ASSUME Types, WireInv, FilesInv, [Next]_vars
    PROVE  FilesInv'
  <1>1. ASSUME UNCHANGED local, pc # "data" \/ UNCHANGED <<pc, path>> PROVE FilesInv'
    BY <1>1 DEF FilesInv, Whole
  <1>2. CASE SendRecv \/ RecvData \/ RecvError
    <2>1. UNCHANGED path /\ pc \in {"recv", "data"}
      BY <1>2 DEF SendRecv, RecvData, RecvError
    <2>2. \A p \in DOMAIN local' : p # path => p \in DOMAIN local /\ local'[p] = local[p]
      BY <1>2, FileAtHand
    <2>3. \/ pc' = "data" \/ (pc # "data" /\ UNCHANGED local) \/ path \notin DOMAIN local'
      BY <1>2 DEF SendRecv, RecvData, RecvError, Unlink, Restrict
    <2>4. CASE pc' = "data" \/ path \notin DOMAIN local'
      BY <2>1, <2>2, <2>4 DEF FilesInv, Whole
    <2> QED
      BY <1>1, <2>3, <2>4
  <1>3. CASE RecvDone
    <2>1. pc = "data" /\ UNCHANGED <<local, path, req, out, closed>> /\ rep # <<>> /\ rep' = Tail(rep)
          /\ Head(rep).m = "done"
      BY <1>3 DEF RecvDone, Received
    <2>2. Got = Blocks /\ OnWire
      BY <2>1, DataHeard DEF Data
    <2>3. Whole(path)
      BY <2>1, <2>2 DEF OnWire, DataWire, Whole
    <2> QED
      BY <2>1, <2>3 DEF FilesInv, Whole
  <1>4. CASE CheckDst \/ StartSource \/ SendStat \/ LstatReply \/ StatReply \/ ProtocolFault
    <2>1. UNCHANGED local /\ pc # "data"
      BY <1>4 DEF CheckDst, StartSource, SendStat, LstatReply, StatReply, ProtocolFault, disk
    <2> QED
      BY <1>1, <2>1
  <1>5. CASE SendLs \/ ReadDent \/ DentsDone \/ ReadDentFails \/ ResolveLinks \/ CopyNext \/ SendQuit
             \/ ReadOrderlyShutdown
    <2>1. UNCHANGED local /\ pc # "data"
      BY <1>5 DEF SendLs, ReadDent, DentsDone, ReadDentFails, ResolveLinks, CopyNext, SendQuit,
                  ReadOrderlyShutdown, disk
    <2> QED
      BY <1>1, <2>1
  <1>6. CASE DeviceReads \/ DeviceWrites \/ DeviceCloses \/ UNCHANGED vars
    <2>1. UNCHANGED <<local, pc, path>>
      BY <1>6 DEF DeviceReads, DeviceWrites, DeviceCloses, vars, disk
    <2> QED
      BY <1>1, <2>1
  <1> QED
    BY <1>2, <1>3, <1>4, <1>5, <1>6 DEF Next, Client, Device

LEMMA FirstBlocks ==
    ASSUME NEW p, NEW n \in 0..Blocks, NEW s, s = [i \in 1..n |-> Block(p, i)]
    PROVE  IsPrefix(s, [i \in 1..Blocks |-> Block(p, i)])
  <1> DEFINE B == {Block(p, i) : i \in Nat}
             t == [i \in 1..Blocks |-> Block(p, i)]
             u == SubSeq(t, 1, n)
  <1>1. n \in Nat /\ Blocks \in Nat /\ n <= Blocks
    BY SyncPullAssumption
  <1>2. s \in [1..n -> B] /\ t \in [1..Blocks -> B]
    BY <1>1
  <1>3. (\A i \in 1..n : s[i] = Block(p, i)) /\ (\A i \in 1..Blocks : t[i] = Block(p, i))
    OBVIOUS
  <1> HIDE DEF B, t
  <1>4. s \in Seq(B) /\ Len(s) = n /\ t \in Seq(B) /\ Len(t) = Blocks
    BY <1>1, <1>2, SeqDef, LenProperties
  <1>5. SubSeq(s, 1, n) = s
    BY <1>4, SubSeqFull
  <1>6. u \in Seq(B) /\ Len(u) = n /\ \A i \in 1..n : u[i] = t[i]
    <2>1. \A i \in 1..n : t[i] \in B
      BY <1>1, <1>4, ElementOfSeq
    <2>2. /\ u \in Seq(B) /\ Len(u) = IF 1 <= n THEN n - 1 + 1 ELSE 0
          /\ \A i \in 1..(n - 1 + 1) : u[i] = t[1 + i - 1]
      BY <1>1, <2>1, SubSeqProperties
    <2> HIDE DEF u
    <2> QED
      BY <1>1, <2>2
  <1> HIDE DEF u
  <1>7. \A i \in 1..n : s[i] = u[i]
    BY <1>1, <1>3, <1>6
  <1>8. s = u
    BY <1>4, <1>6, <1>7, SeqEqual
  <1> QED
    BY <1>1, <1>4, <1>5, <1>8 DEF IsPrefix, t, u

LEMMA FilesAreWhole ==
    ASSUME WireInv, FilesInv
    PROVE  NoTruncatedFile
  <1>1. ASSUME pc = "data" PROVE IsPrefix(local[path], [i \in 1..Blocks |-> Block(path, i)])
    <2>1. Got \in 0..Blocks /\ local[path] = [i \in 1..Got |-> Block(path, i)]
      BY <1>1, NothingLeft DEF OnWire, DataWire
    <2> QED
      BY <2>1, FirstBlocks
  <1> QED
    BY <1>1 DEF NoTruncatedFile, FilesInv

\* At no time, and after no kind of failure, is a part of a file left under
\* its name, or a block of another file in it; what is on the disk is older
\* than the pull, complete, or the beginning of the file at hand.
THEOREM PullFilesCorrect == Spec => []NoTruncatedFile
  <1> DEFINE IInv == Types /\ WireInv /\ FilesInv
  <1>1. Init => IInv
    <2>1. Init => FilesInv
      BY DEF Init, FilesInv
    <2> QED
      BY <2>1, InitWire
  <1>2. IInv /\ [Next]_vars => IInv'
    BY WireStep, FilesStep
  <1>3. IInv => NoTruncatedFile
    BY FilesAreWhole
  <1> QED
    BY <1>1, <1>2, <1>3, PTL DEF Spec

------------------------------------------------------------------------------
(* A directory is made before its files.                                   *)

LEMMA AppendElements ==
    ASSUME NEW S, NEW s \in Seq(S), NEW e \in S
    PROVE  /\ Append(s, e) \in Seq(S) /\ Len(s) \in Nat
           /\ DOMAIN s = 1..Len(s) /\ DOMAIN Append(s, e) = 1..(Len(s) + 1)
           /\ \A i \in 1..Len(s) : Append(s, e)[i] = s[i]
           /\ Append(s, e)[Len(s) + 1] = e
  <1> DEFINE t == Append(s, e)
  <1>1. /\ t \in Seq(S) /\ Len(t) = Len(s) + 1
        /\ \A i \in 1..Len(s) : t[i] = s[i]
        /\ t[Len(s) + 1] = e
    BY AppendProperties
  <1> HIDE DEF t
  <1>2. Len(s) \in Nat /\ DOMAIN s = 1..Len(s) /\ DOMAIN t = 1..Len(t)
    BY <1>1, LenProperties
  <1> QED
    BY <1>1, <1>2 DEF t

LEMMA GrowFiles ==
    ASSUME Types, NEW e \in [p : Paths, k : Kinds], files' = Append(files, e), UNCHANGED made, MadeFirst,
           e.k \in {"file", "link"} /\ Len(e.p) > 1 => Listed(Front(e.p))
    PROVE  /\ MadeFirst' /\ (\E j \in DOMAIN files' : files'[j] = e)
           /\ \A q : Listed(q) => Listed(q)'
  <1> DEFINE n == Len(files)
             F == [p : Paths, k : Kinds]
  <1>1. files \in Seq(F) /\ e \in F
    BY DEF Types, ClientTypes
  <1> HIDE DEF F
  <1>2. /\ n \in Nat /\ DOMAIN files = 1..n /\ DOMAIN files' = 1..(n + 1)
        /\ \A i \in 1..n : files'[i] = files[i]
        /\ files'[n + 1] = e
    BY <1>1, AppendElements
  <1> HIDE DEF n
  <1>3. \A q : Listed(q) => Listed(q)'
    <2> SUFFICES ASSUME NEW q, Listed(q) PROVE \E j \in DOMAIN files' : files'[j] = Entry(q)
      BY DEF Listed
    <2>1. PICK j \in 1..n : files[j] = Entry(q)
      BY <1>2 DEF Listed
    <2>2. j \in DOMAIN files' /\ files'[j] = Entry(q)
      BY <1>2, <2>1
    <2> QED
      BY <2>2
  <1>4. ASSUME NEW i \in 1..n, files[i].k \in {"file", "link"} /\ Len(files[i].p) > 1
        PROVE  \/ Front(files[i].p) \in made
               \/ \E j \in 1..(i - 1) : files'[j] = Entry(Front(files[i].p))
    <2>1. \/ Front(files[i].p) \in made
          \/ \E j \in 1..(i - 1) : files[j] = Entry(Front(files[i].p))
      BY <1>2, <1>4 DEF MadeFirst
    <2>2. \A j \in 1..(i - 1) : files'[j] = files[j]
      BY <1>2
    <2> QED
      BY <2>1, <2>2
  <1>5. e.k \in {"file", "link"} /\ Len(e.p) > 1 => \E j \in 1..n : files'[j] = Entry(Front(e.p))
    BY <1>2 DEF Listed
  <1>6. MadeFirst'
    <2> SUFFICES ASSUME NEW i \in 1..(n + 1), files'[i].k \in {"file", "link"} /\ Len(files'[i].p) > 1
                 PROVE  \/ Front(files'[i].p) \in made
                        \/ \E j \in 1..(i - 1) : files'[j] = Entry(Front(files'[i].p))
      BY <1>2 DEF MadeFirst
    <2>1. CASE i \in 1..n
      BY <1>2, <1>4, <2>1
    <2>2. CASE i = n + 1
      <3>1. files'[i] = e /\ i - 1 = n
        BY <1>2, <2>2
      <3> QED
        BY <1>5, <3>1
    <2> QED
      BY <1>2, <2>1, <2>2
  <1>7. n + 1 \in DOMAIN files'
    BY <1>2
  <1> QED
    BY <1>2, <1>3, <1>6, <1>7

\* The steps that keep what is known of the list.
LEMMA SameTree ==
    ASSUME ParentInv, UNCHANGED <<srcs, src, ret, path, files, links, made>>,
           DOMAIN local' \subseteq DOMAIN local,
           \/ pc' = pc
           \/ pc \in StatPcs \cup {"stat"} /\ pc' \in StatPcs \cup {"stat"}
           \/ pc \in {"ls", "dents", "links"} /\ pc' \in {"ls", "links"}
           \/ pc = "links" /\ pc' = "copy"
           \/ pc \in {"recv", "data"} /\ pc' \in {"recv", "data"}
           \/ pc \in {"recv", "data"} /\ ret = "tree" /\ pc' = "copy"
    PROVE  ParentInv'
  <1>1. ParentIsMade'
    BY DEF ParentInv, ParentIsMade
  <1>2. InTree' => InTree
    BY DEF InTree, AtPath, StatPcs
  <1>3. Listing' => Listing
    BY DEF Listing, StatPcs
  <1>4. MadeFirst' = MadeFirst /\ LinksListed' = LinksListed /\ \A q : Listed(q)' = Listed(q)
    BY DEF MadeFirst, LinksListed, Listed
  <1>5. ret' = "source" /\ pc' \in AtPath \ {"dents"} => path' = <<srcs'[src']>>
    BY DEF ParentInv, AtPath, StatPcs
  <1> QED
    BY <1>1, <1>2, <1>3, <1>4, <1>5 DEF ParentInv, StatPcs

\* The steps after which there is no list.
LEMMA NoTree ==
    ASSUME ParentIsMade', pc' \in {"start", "source", "quit", "bye", "done", "fault"}
    PROVE  ParentInv'
  BY DEF ParentInv, InTree, Listing, AtPath, StatPcs

LEMMA ParentStat ==
    ASSUME Types, ParentInv, StatAsked \/ \E k \in Kinds \cup {"none"} : StatTaken(k)
    PROVE  ParentInv'
  <1>1. CASE StatAsked
    <2>1. UNCHANGED <<srcs, src, ret, path, files, links, made, local>>
      BY <1>1 DEF StatAsked, args, tree, disk
    <2> QED
      BY <1>1, <2>1, SameTree DEF StatAsked, StatPcs
  <1>2. ASSUME NEW k, StatTaken(k) PROVE ParentInv'
    <2>1. /\ pc \in StatPcs \cup {"stat"} /\ StatResult(k) /\ UNCHANGED <<srcs, ret, path, made, local>>
          /\ k \in Kinds \cup {"none"}
      BY <1>2 DEF StatTaken, args, disk
    <2>2. ParentIsMade'
      BY <2>1 DEF ParentInv, ParentIsMade
    <2>3. CASE ret = "source"
      <3>1. SourceStat(k)
        BY <2>1, <2>3 DEF StatResult
      <3>2. CASE pc' \in {"source", "quit"}
        BY <2>2, <3>2, NoTree
      <3>3. CASE pc' = "recv" /\ UNCHANGED src
        <4>1. path' = <<srcs'[src']>>
          BY <2>1, <2>3, <3>3 DEF ParentInv, AtPath, StatPcs
        <4> QED
          BY <2>1, <2>2, <2>3, <3>3, <4>1 DEF ParentInv, InTree, Listing, AtPath, StatPcs
      <3>4. CASE pc' = "ls" /\ files' = <<>> /\ links' = <<>>
        <4>1. DOMAIN files' = {} /\ DOMAIN links' = {}
          BY <3>4
        <4>2. MadeFirst' /\ LinksListed'
          BY <4>1 DEF MadeFirst, LinksListed
        <4> QED
          BY <2>1, <2>2, <2>3, <3>4, <4>2 DEF ParentInv, AtPath, StatPcs
      <3> QED
        BY <3>1, <3>2, <3>3, <3>4 DEF SourceStat, NextSource
    <2>4. CASE ret = "tree"
      <3>1. LinkStat(k) /\ pc' = "links" /\ UNCHANGED links
        BY <2>1, <2>4 DEF StatResult, LinkStat
      <3>2. MadeFirst /\ LinksListed /\ (Len(path) > 1 => Listed(Front(path)))
        BY <2>1, <2>4 DEF ParentInv, InTree, Listing, AtPath
      <3>3. MadeFirst' /\ \A q : Listed(q) => Listed(q)'
        <4>1. CASE UNCHANGED files
          BY <2>1, <3>2, <4>1 DEF MadeFirst, Listed
        <4>2. CASE files' = Append(files, [p |-> path, k |-> "link"])
          <5> DEFINE e == [p |-> path, k |-> "link"]
          <5>1. e \in [p : Paths, k : Kinds]
            BY <2>1 DEF Types, ClientTypes, AtPath, Paths, Kinds
          <5>2. e.p = path
            OBVIOUS
          <5> HIDE DEF e
          <5>3. files' = Append(files, e)
            BY <4>2 DEF e
          <5> QED
            BY <2>1, <3>2, <5>1, <5>2, <5>3, GrowFiles
        <4> QED
          BY <3>1, <4>1, <4>2 DEF LinkStat
      <3>4. LinksListed'
        BY <3>1, <3>2, <3>3 DEF LinksListed
      <3> QED
        BY <2>1, <2>2, <3>1, <3>3, <3>4 DEF ParentInv, AtPath, StatPcs
    <2> QED
      BY <2>3, <2>4 DEF Types, ClientTypes
  <1> QED
    BY <1>1, <1>2

LEMMA ParentList ==
    ASSUME Types, WireInv, ParentInv, SendLs \/ ReadDent \/ DentsDone \/ ReadDentFails \/ ResolveLinks
    PROVE  ParentInv'
  <1>1. ParentIsMade' /\ UNCHANGED <<srcs, made, local>>
    BY DEF SendLs, ReadDent, DentsDone, ReadDentFails, ResolveLinks, disk, args, ParentInv, ParentIsMade
  <1>2. CASE SendLs
    <2>1. /\ pc = "ls" /\ UNCHANGED links /\ path' \in Paths /\ files' = Append(files, Entry(path'))
          /\ pc' = "dents" \/ NextSource(FALSE)
      BY <1>2, LsSteps DEF SendLs
    <2>2. MadeFirst /\ LinksListed
      BY <2>1 DEF ParentInv, InTree, Listing
    <2>3. MadeFirst' /\ Listed(path)' /\ \A q : Listed(q) => Listed(q)'
      <3> DEFINE e == Entry(path')
      <3>1. e \in [p : Paths, k : Kinds] /\ e.k = "dir"
        BY <2>1 DEF Entry, Kinds
      <3> HIDE DEF e
      <3>2. files' = Append(files, e)
        BY <2>1 DEF e
      <3>3. /\ MadeFirst' /\ (\E j \in DOMAIN files' : files'[j] = e)
            /\ \A q : Listed(q) => Listed(q)'
        BY <1>1, <2>2, <3>1, <3>2, GrowFiles
      <3> QED
        BY <3>3 DEF Listed, e
    <2>4. LinksListed'
      BY <2>1, <2>2, <2>3 DEF LinksListed
    <2>5. CASE pc' = "dents"
      BY <1>1, <2>3, <2>4, <2>5 DEF ParentInv, AtPath, StatPcs
    <2>6. CASE NextSource(FALSE)
      BY <1>1, <2>6, NoTree DEF NextSource
    <2> QED
      BY <2>1, <2>5, <2>6
  <1>3. CASE ReadDent
    <2>1. /\ pc = "dents" /\ pc' = "dents" /\ rep # <<>> /\ rep' = Tail(rep) /\ Head(rep).m = "dent"
          /\ UNCHANGED <<src, ret, path, req, out, closed>> /\ path \in Seq(Names)
      BY <1>3 DEF ReadDent, Received, Types, ClientTypes
    <2>2. MadeFirst /\ LinksListed /\ Listed(path)
      BY <2>1 DEF ParentInv, InTree, Listing
    <2>3. CASE UNCHANGED <<files, links>>
      BY <1>1, <2>1, <2>3, SameTree
    <2>4. PICK n \in Names : Head(rep) = Dot(n) \/ Head(rep) = Dent(n)
      BY <1>3, NameHeard
    <2> DEFINE p == Append(path, n)
    <2>5. p \in Paths /\ Front(p) = path
      BY <2>1, AppendFacts DEF Paths
    <2>6. Head(rep).n = n
      BY <2>4 DEF Dot, Dent
    <2>7. \/ UNCHANGED <<files, links>>
          \/ links' = Append(links, p) /\ UNCHANGED files
          \/ \E k \in {"file", "fifo"} : files' = Append(files, [p |-> p, k |-> k]) /\ UNCHANGED links
      BY <1>3, <2>6 DEF ReadDent, tree
    <2> HIDE DEF p
    <2>8. CASE links' = Append(links, p) /\ UNCHANGED files
      <3>1. MadeFirst' /\ \A q : Listed(q)' = Listed(q)
        BY <1>1, <2>2, <2>8 DEF MadeFirst, Listed
      <3>2. links \in Seq(Paths)
        BY DEF Types, ClientTypes
      <3>3. /\ Len(links) \in Nat /\ DOMAIN links = 1..Len(links) /\ DOMAIN links' = 1..(Len(links) + 1)
            /\ \A i \in 1..Len(links) : links'[i] = links[i]
            /\ links'[Len(links) + 1] = p
        BY <2>5, <2>8, <3>2, AppendElements
      <3>4. ASSUME NEW i \in DOMAIN links', Len(links'[i]) > 1 PROVE Listed(Front(links'[i]))
        <4>1. i \in 1..Len(links) \/ i = Len(links) + 1
          BY <3>3
        <4> QED
          BY <2>2, <2>5, <3>3, <3>4, <4>1 DEF LinksListed
      <3>5. LinksListed'
        BY <3>1, <3>4 DEF LinksListed
      <3> QED
        BY <1>1, <2>1, <2>2, <3>1, <3>5 DEF ParentInv, AtPath, StatPcs
    <2>9. ASSUME NEW k \in {"file", "fifo"}, files' = Append(files, [p |-> p, k |-> k]) /\ UNCHANGED links
          PROVE  ParentInv'
      <3> DEFINE e == [p |-> p, k |-> k]
      <3>1. e \in [p : Paths, k : Kinds]
        BY <2>5 DEF Kinds
      <3>2. e.p = p
        OBVIOUS
      <3> HIDE DEF e
      <3>3. files' = Append(files, e)
        BY <2>9 DEF e
      <3>4. MadeFirst' /\ \A q : Listed(q) => Listed(q)'
        BY <1>1, <2>2, <2>5, <3>1, <3>2, <3>3, GrowFiles
      <3>5. LinksListed' /\ Listed(path)'
        BY <2>1, <2>2, <2>9, <3>4 DEF LinksListed
      <3> QED
        BY <1>1, <2>1, <3>4, <3>5 DEF ParentInv, AtPath, StatPcs
    <2> QED
      BY <2>3, <2>7, <2>8, <2>9
  <1>4. CASE DentsDone
    BY <1>1, <1>4, SameTree DEF DentsDone, tree
  <1>5. CASE ReadDentFails
    BY <1>1, <1>5, NoTree DEF ReadDentFails, NextSource
  <1>6. CASE ResolveLinks
    <2>1. pc = "links" /\ UNCHANGED <<src, files, dirs>> /\ MadeFirst /\ LinksListed
      BY <1>6 DEF ResolveLinks, ParentInv, InTree, Listing
    <2>2. CASE links = <<>> /\ pc' = (IF dirs = <<>> THEN "copy" ELSE "ls") /\ UNCHANGED <<path, links, ret>>
      BY <1>1, <2>1, <2>2, SameTree
    <2>3. CASE links # <<>> /\ path' = Head(links) /\ links' = Tail(links) /\ ret' = "tree" /\ pc' = "stat"
      <3>1. MadeFirst' /\ \A q : Listed(q)' = Listed(q)
        BY <1>1, <2>1 DEF MadeFirst, Listed
      <3>2. links \in Seq(Paths)
        BY DEF Types, ClientTypes
      <3>3. /\ Head(links) = links[1] /\ Len(links) \in Nat \ {0}
            /\ DOMAIN links = 1..Len(links) /\ DOMAIN Tail(links) = 1..(Len(links) - 1)
            /\ \A i \in 1..(Len(links) - 1) : Tail(links)[i] = links[i + 1]
        BY <2>3, <3>2, FirstRest
      <3>4. Len(path') > 1 => Listed(Front(path'))
        BY <2>1, <2>3, <3>3 DEF LinksListed
      <3>5. ASSUME NEW i \in DOMAIN links', Len(links'[i]) > 1 PROVE Listed(Front(links'[i]))
        <4>1. i + 1 \in DOMAIN links /\ links'[i] = links[i + 1]
          BY <2>3, <3>3
        <4> QED
          BY <2>1, <3>5, <4>1 DEF LinksListed
      <3>6. LinksListed'
        BY <3>1, <3>5 DEF LinksListed
      <3> QED
        BY <1>1, <2>3, <3>1, <3>4, <3>6 DEF ParentInv, AtPath, StatPcs
    <2> QED
      BY <1>6, <2>2, <2>3 DEF ResolveLinks
  <1> QED
    BY <1>2, <1>3, <1>4, <1>5, <1>6

LEMMA ParentFile ==
    ASSUME Types, ParentInv, CopyNext \/ SendRecv \/ RecvData \/ RecvDone \/ RecvError
    PROVE  ParentInv'
  <1>1. CASE CopyNext
    <2>1. pc = "copy" /\ UNCHANGED <<srcs, local, links>> /\ MadeFirst
      BY <1>1 DEF CopyNext, ParentInv, InTree, args
    <2>2. made \subseteq made'
      BY <1>1 DEF CopyNext
    <2>3. ParentIsMade'
      BY <2>1, <2>2 DEF ParentInv, ParentIsMade
    <2>4. CASE pc' \in {"source", "quit"}
      BY <2>3, <2>4, NoTree
    <2>5. CASE files # <<>> /\ files' = Tail(files) /\ pc' \notin {"source", "quit"}
      <3> DEFINE f == Head(files)
                 F == [p : Paths, k : Kinds]
      <3>1. files \in Seq(F)
        BY DEF Types, ClientTypes
      <3> HIDE DEF F
      <3>2. /\ f = files[1] /\ Len(files) \in Nat \ {0}
            /\ DOMAIN files = 1..Len(files) /\ DOMAIN Tail(files) = 1..(Len(files) - 1)
            /\ \A i \in 1..(Len(files) - 1) : Tail(files)[i] = files[i + 1]
        BY <2>5, <3>1, FirstRest
      <3>3. \/ f.k = "fifo" /\ UNCHANGED made /\ pc' = "copy"
            \/ f.k = "dir" /\ made' = made \cup {f.p} /\ pc' = "copy"
            \/ f.k \in {"file", "link"} /\ UNCHANGED made /\ path' = f.p /\ ret' = "tree" /\ pc' = "recv"
        BY <1>1, <2>1, <2>5 DEF CopyNext, NextSource
      <3> HIDE DEF f
      <3>4. MadeFirst'
        <4> SUFFICES ASSUME NEW i \in DOMAIN files',
                            files'[i].k \in {"file", "link"} /\ Len(files'[i].p) > 1
                     PROVE  \/ Front(files'[i].p) \in made'
                            \/ \E j \in 1..(i - 1) : files'[j] = Entry(Front(files'[i].p))
          BY DEF MadeFirst
        <4> DEFINE q == Front(files'[i].p)
        <4>1. i \in Nat /\ i >= 1 /\ i < Len(files) /\ i + 1 \in DOMAIN files /\ files'[i] = files[i + 1]
          BY <2>5, <3>2
        <4>2. q \in made \/ \E j \in 1..(i + 1 - 1) : files[j] = Entry(q)
          BY <2>1, <4>1 DEF MadeFirst
        <4> HIDE DEF q
        <4>3. ASSUME NEW j \in 1..(i + 1 - 1), files[j] = Entry(q)
              PROVE  q \in made' \/ \E h \in 1..(i - 1) : files'[h] = Entry(q)
          <5>1. CASE j = 1
            BY <3>2, <3>3, <4>3, <5>1 DEF Entry
          <5>2. CASE j # 1
            <6>1. j - 1 \in 1..(i - 1) /\ j - 1 \in 1..(Len(files) - 1) /\ j - 1 + 1 = j
              BY <3>2, <4>1, <5>2
            <6>2. files'[j - 1] = Entry(q)
              BY <2>5, <3>2, <4>3, <6>1
            <6> QED
              BY <6>1, <6>2
          <5> QED
            BY <5>1, <5>2
        <4> QED
          BY <2>2, <4>2, <4>3 DEF q
      <3>5. CASE pc' = "copy"
        BY <2>3, <3>4, <3>5 DEF ParentInv, Listing, AtPath, StatPcs
      <3>6. CASE pc' = "recv"
        <4>1. path' = files[1].p /\ files[1].k \in {"file", "link"} /\ ret' = "tree" /\ UNCHANGED made
          BY <3>2, <3>3, <3>6
        <4>2. 1 \in DOMAIN files /\ 1..(1 - 1) = {}
          BY <3>2
        <4>3. Len(path') > 1 => Front(path') \in made'
          BY <2>1, <4>1, <4>2 DEF MadeFirst
        <4> QED
          BY <2>3, <3>4, <3>6, <4>1, <4>3 DEF ParentInv, Listing, AtPath, StatPcs
      <3> QED
        BY <3>3, <3>5, <3>6
    <2> QED
      BY <1>1, <2>1, <2>4, <2>5 DEF CopyNext, NextSource
  <1>2. CASE SendRecv \/ RecvData \/ RecvDone \/ RecvError
    <2>1. /\ pc \in {"recv", "data"} /\ UNCHANGED <<srcs, ret, path, files, links, made>>
          /\ \/ pc' \in {"source", "quit"}
             \/ UNCHANGED src /\ (pc' = "data" \/ (ret = "tree" /\ pc' = "copy"))
      BY <1>2 DEF SendRecv, RecvData, RecvDone, RecvError, RecvFails, NextSource, args, tree
    <2>2. \A p \in DOMAIN local' : p # path => p \in DOMAIN local
      BY <1>2, FileAtHand
    <2>3. Len(path) > 1 => Front(path) \in made
      <3>1. CASE ret = "source"
        <4>1. path = <<srcs[src]>>
          BY <2>1, <3>1 DEF ParentInv, AtPath
        <4>2. Len(path) = 1
          BY <4>1
        <4> QED
          BY <4>2
      <3>2. CASE ret = "tree"
        BY <2>1, <3>2 DEF ParentInv
      <3> QED
        BY <3>1, <3>2 DEF Types, ClientTypes
    <2>4. ParentIsMade'
      BY <2>1, <2>2, <2>3 DEF ParentInv, ParentIsMade
    <2>5. CASE pc' \in {"source", "quit"}
      BY <2>4, <2>5, NoTree
    <2>6. CASE UNCHANGED src /\ (pc' = "data" \/ (ret = "tree" /\ pc' = "copy"))
      <3>1. MadeFirst' = MadeFirst
        BY <2>1 DEF MadeFirst
      <3> QED
        BY <2>1, <2>3, <2>4, <2>6, <3>1 DEF ParentInv, InTree, Listing, AtPath, StatPcs
    <2> QED
      BY <2>1, <2>5, <2>6
  <1> QED
    BY <1>1, <1>2

LEMMA ParentStep ==
    ASSUME Types, WireInv, ParentInv, [Next]_vars
    PROVE  ParentInv'
  <1>1. CASE CheckDst \/ ProtocolFault \/ SendQuit \/ ReadOrderlyShutdown
    <2>1. UNCHANGED <<local, made>> /\ pc' \in {"source", "quit", "fault", "bye", "done"}
      BY <1>1 DEF CheckDst, ProtocolFault, SendQuit, ReadOrderlyShutdown, disk
    <2> QED
      BY <2>1, NoTree DEF ParentInv, ParentIsMade
  <1>2. CASE StartSource
    <2>1. /\ UNCHANGED <<local, made, srcs, src>> /\ pc' = "stat" /\ ret' = "source"
          /\ path' = <<srcs[src]>>
      BY <1>2 DEF StartSource, disk, args
    <2> QED
      BY <2>1 DEF ParentInv, ParentIsMade, InTree, Listing, AtPath, StatPcs
  <1>3. CASE SendStat \/ LstatReply \/ StatReply
    BY <1>3, StatSteps, ParentStat
  <1>4. CASE SendLs \/ ReadDent \/ DentsDone \/ ReadDentFails \/ ResolveLinks
    BY <1>4, ParentList
  <1>5. CASE CopyNext \/ SendRecv \/ RecvData \/ RecvDone \/ RecvError
    BY <1>5, ParentFile
  <1>6. CASE DeviceReads \/ DeviceWrites \/ DeviceCloses \/ UNCHANGED vars
    <2>1. UNCHANGED <<pc, srcs, src, ret, path, files, links, made, local>>
      BY <1>6 DEF DeviceReads, DeviceWrites, DeviceCloses, vars, args, tree, disk
    <2> QED
      BY <2>1, SameTree
  <1> QED
    BY <1>1, <1>2, <1>3, <1>4, <1>5, <1>6 DEF Next, Client, Device

LEMMA InitParent == Init => ParentInv
  <1> SUFFICES ASSUME Init PROVE ParentInv
    OBVIOUS
  <1>1. ASSUME NEW p \in DOMAIN local PROVE ~(Len(p) > 1)
    <2>1. p = <<srcs[1]>>
      BY <1>1 DEF Init
    <2>2. Len(p) = 1
      BY <2>1
    <2> QED
      BY <2>2
  <1> QED
    <2>1. ParentIsMade
      BY <1>1 DEF ParentIsMade
    <2>2. pc = "start"
      BY DEF Init
    <2> QED
      BY <2>1, <2>2 DEF ParentInv, InTree, Listing, AtPath, StatPcs

\* "Add an entry for the current directory to ensure it gets created before
\* pulling its contents" (remote_build_list): no local file is ever there
\* without its directory, whatever links, lists and failures the pull met.
THEOREM PullParentCorrect == Spec => []ParentIsMade
  <1> DEFINE IInv == Types /\ WireInv /\ ParentInv
  <1>1. Init => IInv
    BY InitWire, InitParent
  <1>2. IInv /\ [Next]_vars => IInv'
    BY WireStep, ParentStep
  <1>3. IInv => ParentIsMade
    BY DEF ParentInv
  <1> QED
    BY <1>1, <1>2, <1>3, PTL DEF Spec

------------------------------------------------------------------------------
(* Nothing is forgotten: what is in a list, and where a path leads along.  *)

LEMMA RangeAppend ==
    ASSUME NEW S, NEW s \in Seq(S), NEW e \in S
    PROVE  Range(Append(s, e)) = Range(s) \cup {e}
  <1> DEFINE n == Len(s)
             t == Append(s, e)
  <1>1. /\ n \in Nat /\ DOMAIN s = 1..n /\ DOMAIN t = 1..(n + 1)
        /\ \A i \in 1..n : t[i] = s[i]
        /\ t[n + 1] = e
    BY AppendElements
  <1> HIDE DEF n, t
  <1>2. \A i \in 1..n : i \in 1..(n + 1)
    BY <1>1
  <1>3. n + 1 \in 1..(n + 1) /\ \A i \in 1..(n + 1) : i \in 1..n \/ i = n + 1
    BY <1>1
  <1>4. Range(t) = Range(s) \cup {e}
    BY <1>1, <1>2, <1>3 DEF Range
  <1> QED
    BY <1>4 DEF t

LEMMA RangeTail ==
    ASSUME NEW S, NEW s \in Seq(S), s # <<>>
    PROVE  Range(s) = {Head(s)} \cup Range(Tail(s))
  <1> DEFINE n == Len(s)
             t == Tail(s)
             h == Head(s)
  <1>1. /\ h = s[1] /\ n \in Nat \ {0} /\ DOMAIN s = 1..n /\ DOMAIN t = 1..(n - 1)
        /\ \A i \in 1..(n - 1) : t[i] = s[i + 1]
    BY FirstRest
  <1> HIDE DEF n, t, h
  <1>2. 1 \in 1..n /\ \A i \in 1..(n - 1) : i + 1 \in 1..n
    BY <1>1
  <1>3. \A i \in 1..n : i = 1 \/ (i - 1 \in 1..(n - 1) /\ i - 1 + 1 = i)
    BY <1>1
  <1>4. Range(s) \subseteq {h} \cup Range(t)
    <2> SUFFICES ASSUME NEW i \in 1..n PROVE s[i] \in {h} \cup Range(t)
      BY <1>1 DEF Range
    <2>1. CASE i = 1
      BY <1>1, <2>1
    <2>2. CASE i # 1
      <3>1. t[i - 1] = s[i] /\ i - 1 \in DOMAIN t
        BY <1>1, <1>3, <2>2
      <3> QED
        BY <3>1 DEF Range
    <2> QED
      BY <2>1, <2>2
  <1>5. {h} \cup Range(t) \subseteq Range(s)
    BY <1>1, <1>2 DEF Range
  <1> QED
    BY <1>4, <1>5 DEF h, t

LEMMA RangeFront ==
    ASSUME NEW S, NEW s \in Seq(S), s # <<>>
    PROVE  Range(s) = Range(Front(s)) \cup {Last(s)}
  <1> DEFINE n == Len(s)
             t == Front(s)
             l == Last(s)
  <1>1. /\ n \in Nat \ {0} /\ l = s[n] /\ t \in Seq(S) /\ Len(t) = n - 1
        /\ \A i \in 1..(n - 1) : t[i] = s[i]
    BY LastFront
  <1>2. DOMAIN s = 1..n
    BY LenProperties
  <1> HIDE DEF n, t, l
  <1>3. DOMAIN t = 1..(n - 1)
    BY <1>1, LenProperties
  <1>4. n \in 1..n /\ (\A i \in 1..(n - 1) : i \in 1..n) /\ \A i \in 1..n : i = n \/ i \in 1..(n - 1)
    BY <1>1
  <1>5. Range(s) = Range(t) \cup {l}
    BY <1>1, <1>2, <1>3, <1>4 DEF Range
  <1> QED
    BY <1>5 DEF t, l

LEMMA Beginning ==
    ASSUME NEW p \in Paths, NEW i \in 1..Len(p)
    PROVE  /\ SubSeq(p, 1, i) \in Paths /\ Len(SubSeq(p, 1, i)) = i
           /\ \A j \in 1..i : SubSeq(p, 1, i)[j] = p[j]
           /\ NameOf(SubSeq(p, 1, i)) = p[i]
  <1> DEFINE q == SubSeq(p, 1, i)
  <1>1. p \in Seq(Names) /\ Len(p) \in Nat /\ i \in Nat /\ 1 <= i /\ i <= Len(p)
    BY LenProperties DEF Paths
  <1>2. \A j \in 1..i : p[j] \in Names
    BY <1>1, ElementOfSeq
  <1>3. /\ q \in Seq(Names) /\ Len(q) = IF 1 <= i THEN i - 1 + 1 ELSE 0
        /\ \A j \in 1..(i - 1 + 1) : q[j] = p[1 + j - 1]
    BY <1>1, <1>2, SubSeqProperties
  <1> HIDE DEF q
  <1>4. q \in Seq(Names) /\ Len(q) = i /\ \A j \in 1..i : q[j] = p[j]
    BY <1>1, <1>3
  <1>5. q # <<>>
    BY <1>1, <1>4
  <1>6. NameOf(q) = p[i]
    BY <1>1, <1>4, <1>5, PathName
  <1> QED
    BY <1>4, <1>5, <1>6 DEF q, Paths

LEMMA FirstName ==
    ASSUME NEW p \in Paths
    PROVE  Len(p) \in Nat \ {0} /\ 1 \in 1..Len(p) /\ SubSeq(p, 1, 1) = <<p[1]>> /\ SubSeq(p, 1, Len(p)) = p
  <1>1. p \in Seq(Names) /\ Len(p) \in Nat \ {0}
    BY EmptySeq DEF Paths
  <1>2. 1 \in 1..Len(p)
    BY <1>1
  <1> DEFINE q == SubSeq(p, 1, 1)
             u == <<p[1]>>
  <1>3. q \in Seq(Names) /\ Len(q) = 1 /\ q[1] = p[1]
    BY <1>2, Beginning DEF Paths
  <1>4. u \in Seq(Names) /\ Len(u) = 1 /\ u[1] = p[1]
    BY <1>1, <1>2, ElementOfSeq
  <1> HIDE DEF q, u
  <1>5. \A i \in 1..1 : q[i] = u[i]
    BY <1>3, <1>4
  <1>6. q = u
    BY <1>3, <1>4, <1>5, SeqEqual
  <1>7. SubSeq(p, 1, Len(p)) = p
    BY <1>1, SubSeqFull
  <1> QED
    BY <1>1, <1>2, <1>6, <1>7 DEF q, u

\* Behind a file there is nothing.
LEMMA FileEnds ==
    ASSUME NEW p \in Walks, NEW i \in 1..Len(p), KindOf(Resolve(NameOf(SubSeq(p, 1, i)))) # "dir"
    PROVE  SubSeq(p, 1, i) = p
  <1>1. p \in Paths /\ NameOf(SubSeq(p, 1, i)) = p[i] /\ Len(p) \in Nat
    BY Beginning, FirstName DEF Walks
  <1>2. ~(i \in 1..(Len(p) - 1))
    BY <1>1 DEF Walks
  <1>3. i = Len(p)
    BY <1>1, <1>2
  <1> QED
    BY <1>1, <1>3, FirstName

\* The next name on a way that leads through a directory is one of its entries.
LEMMA OneDown ==
    ASSUME NEW p \in Walks, NEW q \in Paths, Len(q) < Len(p), SubSeq(p, 1, Len(q)) = q
    PROVE  LET n == p[Len(q) + 1]
           IN  /\ n \in Range(Entries[Resolve(NameOf(q))]) /\ n \in Names
               /\ Len(q) + 1 \in 1..Len(p) /\ SubSeq(p, 1, Len(q) + 1) = Append(q, n)
  <1> DEFINE l == Len(q)
             n == p[l + 1]
             u == SubSeq(p, 1, l + 1)
             v == Append(q, n)
  <1>1. p \in Paths /\ p \in Seq(Names) /\ q \in Seq(Names) /\ Len(p) \in Nat /\ l \in Nat \ {0}
    BY FirstName DEF Walks, Paths
  <1>2. l \in 1..Len(p) /\ l \in 1..(Len(p) - 1) /\ l + 1 \in 1..Len(p)
    BY <1>1
  <1>3. NameOf(q) = p[l] /\ \A j \in 1..l : q[j] = p[j]
    <2> HIDE DEF l
    <2>1. NameOf(SubSeq(p, 1, l)) = p[l] /\ \A j \in 1..l : SubSeq(p, 1, l)[j] = p[j]
      BY <1>1, <1>2, Beginning
    <2>2. SubSeq(p, 1, l) = q
      BY DEF l
    <2> QED
      BY <2>1, <2>2
  <1>4. n \in Range(Entries[Resolve(NameOf(q))]) /\ n \in Names
    <2>1. n \in Range(Entries[Resolve(p[l])])
      BY <1>2 DEF Walks
    <2>2. n \in Names
      BY <1>1, <1>2, ElementOfSeq
    <2> QED
      BY <1>3, <2>1, <2>2
  <1>5. u \in Seq(Names) /\ Len(u) = l + 1 /\ \A j \in 1..(l + 1) : u[j] = p[j]
    <2> DEFINE i == l + 1
    <2>1. i \in 1..Len(p)
      BY <1>2
    <2> HIDE DEF i
    <2>2. SubSeq(p, 1, i) \in Paths /\ Len(SubSeq(p, 1, i)) = i /\ \A j \in 1..i : SubSeq(p, 1, i)[j] = p[j]
      BY <1>1, <2>1, Beginning
    <2> QED
      BY <2>2 DEF i, Paths
  <1> HIDE DEF n
  <1>6. v \in Seq(Names) /\ Len(v) = l + 1 /\ (\A j \in 1..l : v[j] = q[j]) /\ v[l + 1] = n
    BY <1>1, <1>4, AppendProperties
  <1>7. \A j \in 1..(l + 1) : u[j] = v[j]
    <2> HIDE DEF u, v, l
    <2>1. \A j \in 1..(l + 1) : j \in 1..l \/ j = l + 1
      BY <1>1
    <2>2. n = p[l + 1]
      BY DEF n
    <2> QED
      BY <1>3, <1>5, <1>6, <2>1, <2>2
  <1> HIDE DEF u, v, l
  <1>8. u = v
    BY <1>5, <1>6, <1>7, SeqEqual
  <1> QED
    BY <1>2, <1>4, <1>8 DEF u, v, n, l

------------------------------------------------------------------------------
(* Everything below the sources is dealt with.                             *)

\* What is settled remains so while nothing fails.
LEMMA SettledKept ==
    ASSUME Types, WireInv, [Next]_vars, success', NEW p, Settled(p)
    PROVE  Settled(p)'
  <1>1. ASSUME UNCHANGED local, warned \subseteq warned', pc # "data" \/ UNCHANGED <<pc, path>>
        PROVE  Settled(p)'
    BY <1>1 DEF Settled, Warned, Whole
  <1>2. CASE SendRecv
    <2>1. /\ pc = "recv" /\ pc' = "data" /\ UNCHANGED <<path, warned>>
          /\ local' = [q \in DOMAIN local \cup {path} |-> IF q = path THEN <<>> ELSE local[q]]
      BY <1>2 DEF SendRecv, RecvFails, NextSource
    <2>2. CASE p = path
      BY <2>1, <2>2 DEF Settled
    <2>3. CASE p # path
      <3>1. p \in DOMAIN local => p \in DOMAIN local' /\ local'[p] = local[p]
        BY <2>1, <2>3
      <3> QED
        BY <2>1, <3>1 DEF Settled, Warned, Whole
    <2> QED
      BY <2>2, <2>3
  <1>3. CASE RecvData
    <2>1. /\ pc = "data" /\ pc' = "data" /\ UNCHANGED <<path, warned>>
          /\ \E b : local' = [local EXCEPT ![path] = b]
      BY <1>3 DEF RecvData, RecvFails, NextSource
    <2>2. CASE p = path
      BY <2>1, <2>2 DEF Settled
    <2>3. CASE p # path
      <3>1. p \in DOMAIN local => p \in DOMAIN local' /\ local'[p] = local[p]
        BY <2>1, <2>3
      <3> QED
        BY <2>1, <2>3, <3>1 DEF Settled, Warned, Whole
    <2> QED
      BY <2>2, <2>3
  <1>4. CASE RecvDone
    <2>1. pc = "data" /\ UNCHANGED <<local, path, warned, req, out, closed>> /\ rep # <<>> /\ rep' = Tail(rep)
          /\ Head(rep).m = "done"
      BY <1>4 DEF RecvDone, Received
    <2>2. Got = Blocks /\ OnWire
      BY <2>1, DataHeard DEF Data
    <2>3. Whole(path) /\ path \in DOMAIN local
      BY <2>1, <2>2 DEF OnWire, DataWire, Whole
    <2> QED
      BY <2>1, <2>3 DEF Settled, Warned, Whole
  <1>5. CASE RecvError
    BY <1>5 DEF RecvError, RecvFails, NextSource
  <1>6. CASE CheckDst \/ StartSource \/ SendStat \/ LstatReply \/ StatReply \/ ProtocolFault
    <2>1. UNCHANGED local /\ pc # "data"
      BY <1>6 DEF CheckDst, StartSource, SendStat, LstatReply, StatReply, ProtocolFault, disk
    <2>2. warned \subseteq warned'
      BY <1>6 DEF CheckDst, StartSource, SendStat, LstatReply, StatReply, ProtocolFault,
                  StatResult, SourceStat, LinkStat
    <2> QED
      BY <1>1, <2>1, <2>2
  <1>7. CASE SendLs \/ ReadDent \/ DentsDone \/ ReadDentFails \/ ResolveLinks \/ CopyNext \/ SendQuit
             \/ ReadOrderlyShutdown
    <2>1. UNCHANGED local /\ pc # "data"
      BY <1>7 DEF SendLs, ReadDent, DentsDone, ReadDentFails, ResolveLinks, CopyNext, SendQuit,
                  ReadOrderlyShutdown, disk
    <2>2. warned \subseteq warned'
      BY <1>7 DEF SendLs, ReadDent, DentsDone, ReadDentFails, ResolveLinks, CopyNext, SendQuit,
                  ReadOrderlyShutdown
    <2> QED
      BY <1>1, <2>1, <2>2
  <1>8. CASE DeviceReads \/ DeviceWrites \/ DeviceCloses \/ UNCHANGED vars
    <2>1. UNCHANGED <<local, warned, pc, path>>
      BY <1>8 DEF DeviceReads, DeviceWrites, DeviceCloses, vars, disk
    <2> QED
      BY <1>1, <2>1
  <1> QED
    BY <1>2, <1>3, <1>4, <1>5, <1>6, <1>7, <1>8 DEF Next, Client, Device

LEMMA CoverFails ==
    ASSUME ~success', pc' \notin {"copy", "recv", "data", "start"}
    PROVE  CoverInv'
  BY DEF CoverInv

\* The step leaves the client at its source.
LEMMA CoverGoes ==
    ASSUME Types, WireInv, [Next]_vars, CoverInv, UNCHANGED <<srcs, src>>, success' => success,
           pc' = "start" => pc = "start",
           pc' = "copy" \/ (ret' = "tree" /\ pc' \in {"recv", "data"}) => dirs' = <<>> /\ links' = <<>>,
           success' /\ pc' \in {"quit", "bye", "done"} => pc \in {"quit", "bye", "done"},
           success' /\ pc' \in Begun =>
               \A p \in Walks : p[1] = srcs[src] /\ (pc \in Begun => Awaited(p)) => Settled(p)' \/ Awaited(p)'
    PROVE  CoverInv'
  <1>1. success' => \A p \in Walks : Settled(p) => Settled(p)'
    BY SettledKept
  <1>2. success' => \A i \in 1..(src' - 1) : \A p \in Walks : p[1] = srcs'[i] => Settled(p)'
    BY <1>1 DEF CoverInv
  <1>3. success' /\ pc' \in Begun =>
            \A p \in Walks : p[1] = srcs'[src'] => Settled(p)' \/ Awaited(p)'
    BY <1>1 DEF CoverInv
  <1> QED
    BY <1>2, <1>3 DEF CoverInv

\* The step ends the source.
LEMMA CoverNext ==
    ASSUME Types, WireInv, [Next]_vars, CoverInv, UNCHANGED srcs, pc \in Begun, NextSource(TRUE),
           success' => \A p \in Walks : p[1] = srcs[src] /\ Awaited(p) => Settled(p)'
    PROVE  CoverInv'
  <1>1. success' => \A p \in Walks : Settled(p) => Settled(p)'
    BY SettledKept
  <1>2. /\ src' = src + 1 /\ src \in Nat /\ pc' \in {"source", "quit"} /\ (success' => success)
        /\ pc' = "quit" => src' = Len(srcs) + 1
    BY NextSourceTypes DEF NextSource, Types, ClientTypes
  <1>3. ASSUME success', NEW i \in 1..(src' - 1), NEW p \in Walks, p[1] = srcs[i]
        PROVE  Settled(p)'
    <2>1. i \in 1..(src - 1) \/ i = src
      BY <1>2
    <2>2. CASE i \in 1..(src - 1)
      BY <1>1, <1>2, <1>3, <2>2 DEF CoverInv
    <2>3. CASE i = src
      BY <1>1, <1>2, <1>3, <2>3 DEF CoverInv
    <2> QED
      BY <2>1, <2>2, <2>3
  <1> QED
    BY <1>2, <1>3 DEF CoverInv, Begun, AtPath, StatPcs

LEMMA CoverStat ==
    ASSUME Types, WireInv, [Next]_vars, ParentInv, CoverInv,
           StatAsked \/ \E k \in Kinds \cup {"none"} : StatTaken(k)
    PROVE  CoverInv'
  <1>1. CASE StatAsked
    <2>1. /\ UNCHANGED <<srcs, src, ret, path, files, dirs, links, success, warned>>
          /\ pc \in {"stat", "lstatReply"} /\ pc' \in StatPcs
      BY <1>1 DEF StatAsked, args, tree
    <2>2. \A p \in Walks : Awaited(p) => Awaited(p)'
      BY <2>1 DEF Awaited, ToDo, AtPath, StatPcs
    <2> QED
      BY <2>1, <2>2, CoverGoes DEF Begun, AtPath, StatPcs
  <1>2. ASSUME NEW k, StatTaken(k) PROVE CoverInv'
    <2>1. /\ pc \in StatPcs \cup {"stat"} /\ StatResult(k) /\ UNCHANGED <<srcs, ret, path, made, local>>
          /\ k \in Kinds \cup {"none"} /\ pc \in Begun
          /\ path \in Paths
      BY <1>2 DEF StatTaken, args, disk, Begun, AtPath, StatPcs, Types, ClientTypes, Paths
    <2>2. CASE ret = "source"
      <3>1. SourceStat(k)
        BY <2>1, <2>2 DEF StatResult
      <3>2. path = <<srcs[src]>>
        BY <2>1, <2>2 DEF ParentInv, AtPath, StatPcs
      <3>3. \A p \in Walks : p[1] = srcs[src] => 1 \in 1..Len(p) /\ SubSeq(p, 1, 1) = path
        BY <3>2, FirstName DEF Walks
      <3>4. CASE (k = "none" /\ NextSource(FALSE)) \/ (success' = FALSE /\ pc' = "quit")
        BY <3>4, CoverFails DEF NextSource
      <3>5. CASE NextSource(TRUE) /\ warned' = warned \cup {path}
        <4>1. \A p \in Walks : p[1] = srcs[src] => Settled(p)'
          BY <3>3, <3>5 DEF Settled, Warned
        <4> QED
          BY <2>1, <3>5, <4>1, CoverNext
      <3>6. CASE pc' = "ls" /\ dirs' = <<path>> /\ UNCHANGED <<src, success>>
        <4>1. path \in Range(dirs')
          <5>1. dirs'[1] = path /\ 1 \in DOMAIN dirs'
            BY <3>6
          <5> QED
            BY <5>1 DEF Range
        <4>2. \A p \in Walks : p[1] = srcs[src] => Awaited(p)'
          BY <3>3, <4>1 DEF Awaited, ToDo
        <4> QED
          BY <2>1, <3>6, <4>2, CoverGoes
      <3>7. CASE pc' = "recv" /\ UNCHANGED <<src, success>>
        <4>1. \A p \in Walks : p[1] = srcs[src] => Awaited(p)'
          BY <2>1, <3>3, <3>7 DEF Awaited, ToDo, AtPath
        <4> QED
          BY <2>1, <2>2, <3>7, <4>1, CoverGoes
      <3> QED
        BY <3>1, <3>4, <3>5, <3>6, <3>7 DEF SourceStat
    <2>3. CASE ret = "tree"
      <3>1. LinkStat(k) /\ pc' = "links" /\ UNCHANGED <<src, links, success>>
        BY <2>1, <2>3 DEF StatResult, LinkStat
      <3>2. /\ Range(dirs) \subseteq Range(dirs') /\ Range(files) \subseteq Range(files')
            /\ k = "dir" => path \in Range(dirs')
            /\ k \in {"file", "fifo"} => [p |-> path, k |-> "link"] \in Range(files')
        <4> DEFINE D == {p \in Paths : IsDir(p)}
                   F == [p : Paths, k : Kinds]
                   e == [p |-> path, k |-> "link"]
        <4>1. dirs \in Seq(D) /\ files \in Seq(F) /\ e \in F /\ (k = "dir" => path \in D)
          BY <1>2, <2>1 DEF StatTaken, Types, ClientTypes, Kinds
        <4>2. /\ k = "dir" => dirs' = Append(dirs, path)
              /\ k # "dir" => dirs' = dirs
              /\ k \in {"file", "fifo"} => files' = Append(files, e)
              /\ k \notin {"file", "fifo"} => files' = files
          BY <3>1 DEF LinkStat
        <4> HIDE DEF D, F, e
        <4>3. Range(dirs) \subseteq Range(dirs') /\ (k = "dir" => path \in Range(dirs'))
          <5>1. CASE k = "dir"
            <6>1. Range(Append(dirs, path)) = Range(dirs) \cup {path}
              BY <4>1, <5>1, RangeAppend
            <6> QED
              BY <4>2, <5>1, <6>1
          <5> QED
            BY <4>2, <5>1
        <4>4. Range(files) \subseteq Range(files') /\ (k \in {"file", "fifo"} => e \in Range(files'))
          <5>1. Range(Append(files, e)) = Range(files) \cup {e}
            BY <4>1, RangeAppend
          <5> QED
            BY <4>2, <5>1
        <4> QED
          BY <4>3, <4>4 DEF e
      <3>3. \A q : ToDo(q) => ToDo(q)' \/ (q = path /\ path \in warned')
        <4> SUFFICES ASSUME NEW q, ToDo(q) PROVE ToDo(q)' \/ (q = path /\ path \in warned')
          OBVIOUS
        <4>1. CASE q # path
          BY <2>1, <3>1, <3>2, <4>1 DEF ToDo
        <4>2. CASE q = path
          <5>1. CASE k = "none"
            BY <3>1, <4>2, <5>1 DEF LinkStat
          <5>2. CASE k = "dir"
            BY <3>2, <4>2, <5>2 DEF ToDo
          <5>3. CASE k \in {"file", "fifo"}
            <6> DEFINE e == [p |-> path, k |-> "link"]
            <6>1. e \in Range(files') /\ e.p = q /\ e.k \in {"file", "link"}
              BY <3>2, <4>2, <5>3
            <6> HIDE DEF e
            <6> QED
              BY <6>1 DEF ToDo
          <5> QED
            BY <3>1, <5>1, <5>2, <5>3 DEF LinkStat
        <4> QED
          BY <4>1, <4>2
      <3>4. \A p \in Walks : Awaited(p) => Settled(p)' \/ Awaited(p)'
        <4> SUFFICES ASSUME NEW p \in Walks, Awaited(p) PROVE Settled(p)' \/ Awaited(p)'
          OBVIOUS
        <4>1. PICK i \in 1..Len(p) : ToDo(SubSeq(p, 1, i))
          BY <2>1 DEF Awaited, StatPcs
        <4>2. ToDo(SubSeq(p, 1, i))' \/ SubSeq(p, 1, i) \in warned'
          BY <3>3, <4>1
        <4> QED
          BY <4>2 DEF Awaited, Settled, Warned
      <3> QED
        BY <2>1, <3>1, <3>4, CoverGoes
    <2> QED
      BY <2>2, <2>3 DEF Types, ClientTypes
  <1> QED
    BY <1>1, <1>2

\* An entry that is read goes on the list it belongs to, or has a warning.
LEMMA EntryTaken ==
    ASSUME Types, WireInv, ReadDent
    PROVE  /\ \A q : ToDo(q) => ToDo(q)'
           /\ \A n \in Names : \A p : Head(rep) = Dent(n) /\ p = Append(path, n) => ToDo(p)' \/ p \in warned'
  <1> DEFINE D == {q \in Paths : IsDir(q)}
             F == [p : Paths, k : Kinds]
  <1>1. pc = "dents" /\ pc' = "dents" /\ UNCHANGED path /\ path \in Seq(Names)
    BY DEF ReadDent, Types, ClientTypes
  <1>2. dirs \in Seq(D) /\ files \in Seq(F) /\ links \in Seq(Paths)
    BY DEF Types, ClientTypes
  <1>3. ASSUME Range(dirs) \subseteq Range(dirs'), Range(files) \subseteq Range(files'),
               Range(links) \subseteq Range(links')
        PROVE  \A q : ToDo(q) => ToDo(q)'
    BY <1>1, <1>3 DEF ToDo
  <1>4. ASSUME NEW n \in Names, Head(rep) = Dent(n), NEW p, p = Append(path, n)
        PROVE  (\A q : ToDo(q) => ToDo(q)') /\ (ToDo(p)' \/ p \in warned')
    <2>1. p \in Paths /\ (Kind[n] = "dir" => p \in D)
      <3>1. p \in Seq(Names) /\ p # <<>> /\ Last(p) = n
        BY <1>1, <1>4, AppendFacts
      <3> QED
        BY <3>1, NameFacts DEF Paths, IsDir, NameOf
    <2>2. Head(rep).k = Kind[n] /\ Head(rep).n = n /\ Kind[n] \in Kinds /\ Kind[n] # "dot"
      BY <1>4, NameFacts DEF Dent, Kinds
    <2>3. \/ Kind[n] = "dir" /\ dirs' = Append(dirs, p) /\ UNCHANGED <<files, links>>
          \/ Kind[n] = "link" /\ links' = Append(links, p) /\ UNCHANGED <<files, dirs>>
          \/ /\ Kind[n] \in {"file", "fifo"} /\ files' = Append(files, [p |-> p, k |-> Kind[n]])
             /\ Kind[n] = "fifo" => p \in warned'
             /\ UNCHANGED <<dirs, links>>
      BY <1>4, <2>2 DEF ReadDent, ShouldPull
    <2> HIDE DEF D
    <2>4. CASE Kind[n] = "dir" /\ dirs' = Append(dirs, p) /\ UNCHANGED <<files, links>>
      <3>1. Range(dirs') = Range(dirs) \cup {p}
        BY <1>2, <2>1, <2>4, RangeAppend
      <3>2. ToDo(p)'
        BY <3>1 DEF ToDo
      <3> QED
        BY <1>3, <2>4, <3>1, <3>2
    <2>5. CASE Kind[n] = "link" /\ links' = Append(links, p) /\ UNCHANGED <<files, dirs>>
      <3>1. Range(links') = Range(links) \cup {p}
        BY <1>2, <2>1, <2>5, RangeAppend
      <3>2. ToDo(p)'
        BY <3>1 DEF ToDo
      <3> QED
        BY <1>3, <2>5, <3>1, <3>2
    <2>6. CASE /\ Kind[n] \in {"file", "fifo"} /\ files' = Append(files, [p |-> p, k |-> Kind[n]])
               /\ Kind[n] = "fifo" => p \in warned'
               /\ UNCHANGED <<dirs, links>>
      <3> DEFINE e == [p |-> p, k |-> Kind[n]]
      <3>1. e \in F /\ e.p = p /\ e.k = Kind[n] /\ files' = Append(files, e)
        BY <2>1, <2>2, <2>6
      <3> HIDE DEF e, F
      <3>2. Range(files') = Range(files) \cup {e}
        BY <1>2, <3>1, RangeAppend
      <3>3. ToDo(p)' \/ p \in warned'
        BY <2>6, <3>1, <3>2 DEF ToDo
      <3> QED
        BY <1>3, <2>6, <3>2, <3>3
    <2> QED
      BY <2>3, <2>4, <2>5, <2>6
  <1>5. ASSUME NEW n \in Names, Head(rep) = Dot(n)
        PROVE  \A q : ToDo(q) => ToDo(q)'
    <2>1. Head(rep).k = "dot"
      BY <1>5 DEF Dot
    <2>2. UNCHANGED <<files, dirs, links>>
      BY <2>1 DEF ReadDent, tree
    <2> QED
      BY <1>3, <2>2
  <1>6. PICK n \in Names : Head(rep) = Dot(n) \/ Head(rep) = Dent(n)
    BY NameHeard
  <1>7. \A q : ToDo(q) => ToDo(q)'
    <2>1. CASE Head(rep) = Dot(n)
      BY <1>5, <2>1
    <2>2. CASE Head(rep) = Dent(n)
      <3>1. PICK p : p = Append(path, n)
        OBVIOUS
      <3> QED
        BY <1>4, <2>2, <3>1
    <2> QED
      BY <1>6, <2>1, <2>2
  <1> QED
    BY <1>4, <1>7

\* A name that has been read is on a list; one that has not is still to come.
LEMMA EntryUnread ==
    ASSUME Types, WireInv, ReadDent, NEW n, Unread(n)
    PROVE  Unread(n)' \/ Head(rep) = Dent(n)
  <1> DEFINE c == coming
             d == Tail(coming)
  <1>1. /\ pc = "dents" /\ rep # <<>> /\ rep' = Tail(rep) /\ UNCHANGED <<req, out, closed>>
    BY DEF ReadDent, Received
  <1>2. /\ coming' = d /\ asked = <<>> /\ c # <<>> /\ c \in Seq(Messages) /\ c[1] = Head(rep)
    BY <1>1, DentHeard
  <1>3. /\ Len(c) \in Nat \ {0} /\ DOMAIN c = 1..Len(c) /\ DOMAIN d = 1..(Len(c) - 1)
        /\ \A i \in 1..(Len(c) - 1) : d[i] = c[i + 1]
    BY <1>2, FirstRest
  <1>4. (\E j \in DOMAIN c : c[j] = Dent(n)) \/ \A j \in DOMAIN c : c[j].m # "done"
    BY <1>2 DEF Unread
  <1> HIDE DEF c, d
  <1>5. ASSUME NEW j \in DOMAIN c, c[j] = Dent(n), j # 1
        PROVE  \E i \in DOMAIN d : d[i] = Dent(n)
    <2>1. j - 1 \in DOMAIN d /\ j - 1 \in 1..(Len(c) - 1) /\ j - 1 + 1 = j
      BY <1>3, <1>5
    <2>2. d[j - 1] = Dent(n)
      BY <1>3, <1>5, <2>1
    <2> QED
      BY <2>1, <2>2
  <1>6. ASSUME \A j \in DOMAIN c : c[j].m # "done"
        PROVE  \A i \in DOMAIN d : d[i].m # "done"
    <2> SUFFICES ASSUME NEW i \in DOMAIN d PROVE d[i].m # "done"
      OBVIOUS
    <2>1. i + 1 \in DOMAIN c /\ d[i] = c[i + 1]
      BY <1>3
    <2> QED
      BY <1>6, <2>1
  <1>7. (\E i \in DOMAIN d : d[i] = Dent(n)) \/ (\A i \in DOMAIN d : d[i].m # "done") \/ c[1] = Dent(n)
    BY <1>4, <1>5, <1>6
  <1> QED
    BY <1>2, <1>7 DEF Unread

LEMMA CoverLs ==
    ASSUME Types, WireInv, [Next]_vars, CoverInv, SendLs
    PROVE  CoverInv'
  <1>1. /\ path' = Last(dirs) /\ path' \in Paths /\ IsDir(path')
        /\ dirs' = Front(dirs) /\ files' = Append(files, Entry(path')) /\ coming' = <<>>
        /\ \/ /\ pc' = "dents" /\ UNCHANGED <<src, success>>
              /\ asked' = IF closed THEN <<>> ELSE <<[m |-> "list", p |-> path']>>
           \/ NextSource(FALSE) /\ asked' = <<>>
    BY LsSteps
  <1>2. pc = "ls" /\ UNCHANGED <<srcs, links>>
    BY DEF SendLs, args
  <1>3. CASE NextSource(FALSE)
    BY <1>3, CoverFails DEF NextSource
  <1>4. CASE pc' = "dents" /\ UNCHANGED <<src, success>>
    <2>1. \A n : Unread(n)'
      <3>1. DOMAIN coming' = {}
        BY <1>1
      <3> QED
        BY <3>1 DEF Unread
    <2>2. Range(dirs) = Range(dirs') \cup {path'}
      <3> DEFINE D == {q \in Paths : IsDir(q)}
      <3>1. dirs \in Seq(D) /\ dirs # <<>>
        BY <1>2 DEF Types, ClientTypes
      <3> HIDE DEF D
      <3> QED
        BY <1>1, <3>1, RangeFront
    <2>3. Range(files) \subseteq Range(files')
      <3> DEFINE F == [p : Paths, k : Kinds]
                 e == Entry(path')
      <3>1. files \in Seq(F) /\ e \in F /\ files' = Append(files, e)
        BY <1>1 DEF Types, ClientTypes, Entry, Kinds
      <3> HIDE DEF F, e
      <3> QED
        BY <3>1, RangeAppend
    <2>4. \A q : ToDo(q) => ToDo(q)' \/ q = path'
      BY <1>2, <2>2, <2>3 DEF ToDo, AtPath, StatPcs
    <2>5. ASSUME NEW p \in Walks, Awaited(p) PROVE Settled(p)' \/ Awaited(p)'
      <3>1. PICK i \in 1..Len(p) : ToDo(SubSeq(p, 1, i))
        BY <1>2, <2>5 DEF Awaited
      <3>2. CASE ToDo(SubSeq(p, 1, i))'
        BY <3>2 DEF Awaited
      <3>3. CASE SubSeq(p, 1, i) = path'
        <4>1. p \in Paths /\ Len(p) \in Nat /\ SubSeq(p, 1, Len(p)) = p /\ Len(path') = i
          BY <3>3, FirstName, Beginning DEF Walks
        <4>2. CASE i = Len(p)
          BY <1>1, <3>3, <4>1, <4>2 DEF Settled
        <4>3. CASE i # Len(p)
          <5>1. i < Len(p)
            <6>1. Len(p) \in Nat
              BY <4>1
            <6> QED
              BY <4>3, <6>1
          <5>2. Len(path') < Len(p) /\ SubSeq(p, 1, Len(path')) = path'
            BY <3>3, <4>1, <5>1
          <5> QED
            BY <1>4, <2>1, <5>2 DEF Awaited
        <4> QED
          BY <4>2, <4>3
      <3> QED
        BY <2>4, <3>1, <3>2, <3>3
    <2> QED
      BY <1>2, <1>4, <2>5, CoverGoes DEF Begun, AtPath
  <1> QED
    BY <1>1, <1>3, <1>4

LEMMA CoverDents ==
    ASSUME Types, WireInv, [Next]_vars, CoverInv, ReadDent \/ DentsDone \/ ReadDentFails
    PROVE  CoverInv'
  <1>1. CASE ReadDentFails
    BY <1>1, CoverFails DEF ReadDentFails, NextSource
  <1>2. CASE ReadDent
    <2>1. pc = "dents" /\ pc' = "dents" /\ UNCHANGED <<srcs, src, ret, path, success>> /\ path \in Paths
      BY <1>2 DEF ReadDent, args, Types, ClientTypes, AtPath, Paths
    <2>2. /\ \A q : ToDo(q) => ToDo(q)'
          /\ \A n \in Names : \A q : Head(rep) = Dent(n) /\ q = Append(path, n) => ToDo(q)' \/ q \in warned'
      BY <1>2, EntryTaken
    <2>3. ASSUME NEW p \in Walks, Awaited(p) PROVE Settled(p)' \/ Awaited(p)'
      <3>1. CASE \E i \in 1..Len(p) : ToDo(SubSeq(p, 1, i))
        BY <2>2, <3>1 DEF Awaited
      <3>2. CASE Len(path) < Len(p) /\ SubSeq(p, 1, Len(path)) = path /\ Unread(p[Len(path) + 1])
        <4>1. PICK n, i : n = p[Len(path) + 1] /\ i = Len(path) + 1
          OBVIOUS
        <4>2. n \in Names /\ i \in 1..Len(p) /\ SubSeq(p, 1, i) = Append(path, n)
          BY <2>1, <3>2, <4>1, OneDown
        <4>3. Unread(n)' \/ Head(rep) = Dent(n)
          BY <1>2, <3>2, <4>1, EntryUnread
        <4>4. CASE Unread(n)'
          BY <2>1, <3>2, <4>1, <4>4 DEF Awaited
        <4>5. CASE Head(rep) = Dent(n)
          <5>1. ToDo(SubSeq(p, 1, i))' \/ SubSeq(p, 1, i) \in warned'
            BY <2>2, <4>2, <4>5
          <5> QED
            BY <4>2, <5>1 DEF Awaited, Settled, Warned
        <4> QED
          BY <4>3, <4>4, <4>5
      <3> QED
        BY <2>3, <3>1, <3>2 DEF Awaited
    <2> QED
      BY <2>1, <2>3, CoverGoes DEF Begun, AtPath
  <1>3. CASE DentsDone
    <2>1. /\ pc = "dents" /\ pc' = "links" /\ UNCHANGED <<srcs, src, ret, path, files, dirs, links, success>>
          /\ rep # <<>> /\ rep' = Tail(rep) /\ Head(rep).m = "done" /\ UNCHANGED <<req, out, closed>>
      BY <1>3 DEF DentsDone, Received, args, tree
    <2>2. asked = <<>> /\ coming # <<>> /\ coming \in Seq(Messages) /\ coming[1].m = "done" /\ Len(coming) = 1
      BY <2>1, DentHeard DEF Dot, Dent
    <2>3. DOMAIN coming = {1}
      BY <2>2, LenProperties
    <2>4. \A n : ~Unread(n)
      BY <2>2, <2>3 DEF Unread, Dent
    <2>5. \A q : ToDo(q) => ToDo(q)'
      BY <2>1 DEF ToDo
    <2>6. \A p \in Walks : Awaited(p) => Awaited(p)'
      BY <2>4, <2>5 DEF Awaited
    <2> QED
      BY <2>1, <2>6, CoverGoes DEF Begun, AtPath
  <1> QED
    BY <1>1, <1>2, <1>3

LEMMA CoverLinks ==
    ASSUME Types, WireInv, [Next]_vars, CoverInv, ResolveLinks
    PROVE  CoverInv'
  <1>1. pc = "links" /\ UNCHANGED <<srcs, src, files, dirs, success>>
    BY DEF ResolveLinks, args
  <1>2. CASE links = <<>> /\ pc' = (IF dirs = <<>> THEN "copy" ELSE "ls") /\ UNCHANGED <<path, links, ret>>
    <2>1. \A q : ToDo(q) => ToDo(q)'
      BY <1>1, <1>2 DEF ToDo, AtPath, StatPcs
    <2>2. \A p \in Walks : Awaited(p) => Awaited(p)'
      BY <1>1, <2>1 DEF Awaited
    <2> QED
      BY <1>1, <1>2, <2>2, CoverGoes DEF Begun
  <1>3. CASE links # <<>> /\ path' = Head(links) /\ links' = Tail(links) /\ ret' = "tree" /\ pc' = "stat"
    <2>1. Range(links) = {path'} \cup Range(links')
      BY <1>3, RangeTail DEF Types, ClientTypes
    <2>2. \A q : ToDo(q) => ToDo(q)'
      BY <1>1, <1>3, <2>1 DEF ToDo, AtPath, StatPcs
    <2>3. \A p \in Walks : Awaited(p) => Awaited(p)'
      BY <1>1, <2>2 DEF Awaited
    <2> QED
      BY <1>1, <1>3, <2>3, CoverGoes DEF Begun
  <1> QED
    BY <1>2, <1>3 DEF ResolveLinks

LEMMA CoverCopy ==
    ASSUME Types, WireInv, [Next]_vars, CoverInv, CopyNext
    PROVE  CoverInv'
  <1>1. pc = "copy" /\ UNCHANGED <<srcs, dirs, links>> /\ dirs = <<>> /\ links = <<>> /\ pc \in Begun
    BY DEF CopyNext, args, CoverInv, Begun
  <1>2. Range(dirs) = {} /\ Range(links) = {}
    BY <1>1 DEF Range
  <1>3. CASE files = <<>> /\ NextSource(TRUE)
    <2>1. Range(files) = {}
      BY <1>3 DEF Range
    <2>2. \A p : ~Awaited(p)
      BY <1>1, <1>2, <2>1 DEF Awaited, ToDo, AtPath, StatPcs
    <2> QED
      BY <1>1, <1>3, <2>2, CoverNext
  <1>4. CASE NextSource(FALSE)
    BY <1>4, CoverFails DEF NextSource
  <1>5. CASE files # <<>> /\ files' = Tail(files) /\ ~NextSource(FALSE)
    <2> DEFINE f == Head(files)
    <2>1. \/ f.k \in {"fifo", "dir"} /\ UNCHANGED <<pc, src, success, path, ret>>
          \/ f.k \in {"file", "link"} /\ path' = f.p /\ ret' = "tree" /\ pc' = "recv" /\ UNCHANGED <<src, success>>
      BY <1>1, <1>5 DEF CopyNext
    <2>2. Range(files) = {f} \cup Range(files')
      BY <1>5, RangeTail DEF Types, ClientTypes
    <2> HIDE DEF f
    <2>3. \A q : ToDo(q) => ToDo(q)'
      BY <1>1, <2>1, <2>2 DEF ToDo, AtPath, StatPcs
    <2>4. \A p \in Walks : Awaited(p) => Awaited(p)'
      BY <1>1, <2>3 DEF Awaited
    <2> QED
      BY <1>1, <2>1, <2>4, CoverGoes
  <1> QED
    BY <1>1, <1>3, <1>4, <1>5 DEF CopyNext

LEMMA CoverFile ==
    ASSUME Types, WireInv, [Next]_vars, ParentInv, CoverInv,
           SendRecv \/ RecvData \/ RecvDone \/ RecvError
    PROVE  CoverInv'
  <1>1. pc \in {"recv", "data"} /\ pc \in Begun /\ UNCHANGED <<srcs, ret, path, files, dirs, links>> /\ path \in Paths
    BY DEF SendRecv, RecvData, RecvDone, RecvError, args, tree, Begun, AtPath, Types, ClientTypes, Paths
  <1>2. CASE RecvFails
    BY <1>2, CoverFails DEF RecvFails, NextSource
  <1>3. CASE pc' = "data" /\ UNCHANGED <<src, success>>
    <2>1. \A q : ToDo(q) => ToDo(q)'
      BY <1>1, <1>3 DEF ToDo, AtPath
    <2>2. \A p \in Walks : Awaited(p) => Awaited(p)'
      BY <1>1, <2>1 DEF Awaited
    <2>3. ret' = "tree" => dirs' = <<>> /\ links' = <<>>
      BY <1>1 DEF CoverInv
    <2> QED
      BY <1>1, <1>3, <2>2, <2>3, CoverGoes
  <1>4. CASE RecvDone /\ ~RecvFails
    <2>1. /\ pc = "data" /\ UNCHANGED <<local, req, out, closed>> /\ rep # <<>> /\ rep' = Tail(rep)
          /\ Head(rep).m = "done"
          /\ IF ret = "tree" THEN pc' = "copy" /\ UNCHANGED <<src, success>> ELSE NextSource(TRUE)
      BY <1>4 DEF RecvDone, Received
    <2>2. OnWire /\ Got = Blocks /\ KindOf(Resolve(NameOf(path))) = "file"
      BY <2>1, DataHeard DEF Data
    <2>3. Whole(path) /\ path \in DOMAIN local
      BY <2>1, <2>2 DEF OnWire, DataWire, Whole
    <2>4. ASSUME NEW p \in Walks, NEW i \in 1..Len(p), SubSeq(p, 1, i) = path
          PROVE  Settled(p)'
      <3>1. p = path
        BY <2>2, <2>4, FileEnds
      <3> QED
        BY <2>1, <2>3, <3>1 DEF Settled, Whole
    <2>5. CASE ret = "tree"
      <3>1. \A q : ToDo(q) => ToDo(q)' \/ q = path
        BY <1>1 DEF ToDo
      <3>2. ASSUME NEW p \in Walks, Awaited(p) PROVE Settled(p)' \/ Awaited(p)'
        <4>1. PICK i \in 1..Len(p) : ToDo(SubSeq(p, 1, i))
          BY <2>1, <3>2 DEF Awaited
        <4> QED
          BY <2>4, <3>1, <4>1 DEF Awaited
      <3>3. dirs' = <<>> /\ links' = <<>>
        BY <1>1, <2>5 DEF CoverInv
      <3> QED
        BY <1>1, <2>1, <2>5, <3>2, <3>3, CoverGoes
    <2>6. CASE ret = "source"
      <3>1. path = <<srcs[src]>>
        BY <2>1, <2>6 DEF ParentInv, AtPath
      <3>2. \A p \in Walks : p[1] = srcs[src] => Settled(p)'
        BY <2>4, <3>1, FirstName DEF Walks
      <3> QED
        BY <1>1, <2>1, <2>6, <3>2, CoverNext
    <2> QED
      BY <2>5, <2>6 DEF Types, ClientTypes
  <1> QED
    BY <1>2, <1>3, <1>4 DEF SendRecv, RecvData, RecvError

\* What the device does leaves a name that was not read still to come: it
\* comes in the answer, or the answer does not end as a complete one.
LEMMA DeviceUnread ==
    ASSUME Types, WireInv, pc = "dents", DeviceReads \/ DeviceWrites \/ DeviceCloses \/ UNCHANGED vars,
           NEW n \in Range(Entries[Resolve(NameOf(path))]), Unread(n)
    PROVE  Unread(n)'
  <1>1. OnWire
    BY NothingLeft
  <1>2. CASE DeviceWrites \/ UNCHANGED vars
    <2>1. UNCHANGED <<coming, asked>>
      BY <1>2, Write DEF Types, ConnTypes, vars, coming, asked
    <2> QED
      BY <2>1 DEF Unread
  <1>3. CASE DeviceCloses
    <2> DEFINE c == coming
               d == coming'
    <2>1. /\ asked' = <<>> /\ d \in Seq(Messages) /\ (c = <<>> => d = <<>>) /\ Len(d) \in 0..Len(c)
          /\ \A i \in 1..Len(d) : d[i] = c[i]
      BY <1>3, Close DEF Types
    <2>2. c \in Seq(Messages)
      BY WireTypes DEF Types
    <2>3. DOMAIN c = 1..Len(c) /\ DOMAIN d = 1..Len(d) /\ Len(c) \in Nat /\ Len(d) \in Nat
      BY <2>1, <2>2, LenProperties
    <2>4. asked # <<>> => d = <<>>
      BY <1>1, <2>1 DEF OnWire
    <2>5. DentWire
      BY <1>1 DEF OnWire
    <2>6. (\E j \in DOMAIN c : c[j] = Dent(n)) \/ (\A j \in DOMAIN c : c[j].m # "done") \/ asked # <<>>
      BY DEF Unread
    <2>7. \A j \in DOMAIN c : j # Len(c) => c[j].m = "dent"
      BY <2>5 DEF DentWire, Dot, Dent
    <2> HIDE DEF c, d
    <2>8. (\E j \in DOMAIN d : d[j] = Dent(n)) \/ \A j \in DOMAIN d : d[j].m # "done"
      <3>1. CASE d = <<>>
        BY <3>1
      <3>2. ASSUME NEW j \in DOMAIN c, c[j] = Dent(n)
            PROVE  (\E h \in DOMAIN d : d[h] = Dent(n)) \/ \A h \in DOMAIN d : d[h].m # "done"
        <4>1. CASE j \in DOMAIN d
          BY <2>1, <2>3, <3>2, <4>1
        <4>2. CASE j \notin DOMAIN d
          <5> SUFFICES ASSUME NEW h \in DOMAIN d PROVE d[h].m # "done"
            OBVIOUS
          <5>1. h \in DOMAIN c /\ h # Len(c) /\ d[h] = c[h]
            BY <2>1, <2>3, <3>2, <4>2
          <5> QED
            BY <2>7, <5>1
        <4> QED
          BY <4>1, <4>2
      <3>3. CASE \A j \in DOMAIN c : c[j].m # "done"
        <4> SUFFICES ASSUME NEW h \in DOMAIN d PROVE d[h].m # "done"
          OBVIOUS
        <4>1. h \in DOMAIN c /\ d[h] = c[h]
          BY <2>1, <2>3
        <4> QED
          BY <3>3, <4>1
      <3> QED
        BY <2>4, <2>6, <3>1, <3>2, <3>3
    <2> QED
      BY <2>8 DEF Unread, d
  <1>4. CASE DeviceReads
    <2> DEFINE r == Request
               a == out'
    <2>1. r = [m |-> "list", p |-> path] /\ UNCHANGED <<path, pc>>
      BY <1>4 DEF Request, Asks, DeviceReads
    <2>2. asked # <<>>
      BY <1>4, Read DEF Types
    <2>3. asked = <<r>> /\ coming = <<>>
      BY <1>1, <2>2 DEF OnWire
    <2>4. r \in Requests /\ r.m = "list" /\ r.p = path
      BY <2>1 DEF Requests, Types, ClientTypes, AtPath
    <2>5. asked[1] = r
      BY <2>3
    <2> HIDE DEF r
    <2>6. a \in Answers(r) /\ (a \in Seq(Messages) => coming' = coming \o a)
      BY <1>4, <2>4, <2>5, Read DEF Types
    <2>7. /\ a \in Seq(Messages) /\ Len(a) \in Nat \ {0}
          /\ \A j \in 1..(Len(a) - 1) :
                 a[j] = Dot(NameOf(path)) \/ \E x \in Range(Entries[Resolve(NameOf(path))]) : a[j] = Dent(x)
          /\ a[Len(a)].m \in {"done", "bad"}
          /\ a[Len(a)].m = "done" =>
                \A x \in Range(Entries[Resolve(NameOf(path))]) : \E j \in 1..(Len(a) - 1) : a[j] = Dent(x)
      BY <2>4, <2>6, ListAnswers
    <2> HIDE DEF a
    <2>8. <<>> \o a = a
      BY <2>7, ConcatEmptySeq
    <2>9. coming' = a
      BY <2>3, <2>6, <2>7, <2>8
    <2>10. DOMAIN a = 1..Len(a)
      BY <2>7, LenProperties
    <2>11. CASE a[Len(a)].m = "done"
      <3>1. PICK j \in 1..(Len(a) - 1) : a[j] = Dent(n)
        BY <2>7, <2>11
      <3>2. j \in DOMAIN a
        BY <2>7, <2>10
      <3> QED
        BY <2>9, <3>1, <3>2 DEF Unread
    <2>12. CASE a[Len(a)].m # "done"
      <3>1. \A j \in 1..(Len(a) - 1) : a[j].m = "dent"
        <4>1. \A x : Dot(x).m = "dent" /\ Dent(x).m = "dent"
          BY DEF Dot, Dent
        <4> QED
          BY <2>7, <4>1
      <3>2. \A j \in DOMAIN a : j = Len(a) \/ j \in 1..(Len(a) - 1)
        BY <2>7, <2>10
      <3>3. \A j \in DOMAIN a : a[j].m # "done"
        BY <2>12, <3>1, <3>2
      <3> QED
        BY <2>9, <3>3 DEF Unread
    <2> QED
      BY <2>11, <2>12
  <1> QED
    BY <1>2, <1>3, <1>4

LEMMA CoverDevice ==
    ASSUME Types, WireInv, [Next]_vars, CoverInv,
           DeviceReads \/ DeviceWrites \/ DeviceCloses \/ UNCHANGED vars
    PROVE  CoverInv'
  <1>1. UNCHANGED <<pc, srcs, src, ret, path, files, dirs, links, success>>
    BY DEF DeviceReads, DeviceWrites, DeviceCloses, vars, args, tree
  <1>2. \A q : ToDo(q) => ToDo(q)'
    BY <1>1 DEF ToDo
  <1>3. ASSUME NEW p \in Walks, Awaited(p) PROVE Awaited(p)'
    <2>1. CASE \E i \in 1..Len(p) : ToDo(SubSeq(p, 1, i))
      BY <1>2, <2>1 DEF Awaited
    <2>2. CASE /\ pc = "dents" /\ Len(path) < Len(p) /\ SubSeq(p, 1, Len(path)) = path
               /\ Unread(p[Len(path) + 1])
      <3>1. PICK n : n = p[Len(path) + 1]
        OBVIOUS
      <3>2. path \in Paths
        BY <2>2 DEF Types, ClientTypes, AtPath, Paths
      <3>3. n \in Range(Entries[Resolve(NameOf(path))])
        BY <2>2, <3>1, <3>2, OneDown
      <3>4. Unread(n)'
        BY <2>2, <3>1, <3>3, DeviceUnread
      <3> QED
        BY <1>1, <2>2, <3>1, <3>4 DEF Awaited
    <2> QED
      BY <1>3, <2>1, <2>2 DEF Awaited
  <1>4. pc' = "copy" \/ (ret' = "tree" /\ pc' \in {"recv", "data"}) => dirs' = <<>> /\ links' = <<>>
    BY <1>1 DEF CoverInv
  <1> QED
    BY <1>1, <1>3, <1>4, CoverGoes

LEMMA CoverSource ==
    ASSUME Types, WireInv, [Next]_vars, CoverInv,
           CheckDst \/ StartSource \/ ProtocolFault \/ SendQuit \/ ReadOrderlyShutdown
    PROVE  CoverInv'
  <1>1. CASE CheckDst
    <2>1. pc = "start" /\ src = 1 /\ UNCHANGED src /\ pc' \in {"source", "quit"} /\ (success' => pc' = "source")
      BY <1>1 DEF CheckDst, CoverInv
    <2>2. 1..(src' - 1) = {}
      BY <2>1
    <2> QED
      BY <2>1, <2>2 DEF CoverInv, Begun, AtPath, StatPcs
  <1>2. CASE StartSource
    <2>1. /\ pc = "source" /\ pc' = "stat" /\ path' = <<srcs[src]>> /\ UNCHANGED <<srcs, src, success>>
      BY <1>2 DEF StartSource, args
    <2>2. \A p \in Walks : p[1] = srcs[src] => 1 \in 1..Len(p) /\ SubSeq(p, 1, 1) = path'
      BY <2>1, FirstName DEF Walks
    <2>3. \A p \in Walks : p[1] = srcs[src] => Awaited(p)'
      BY <2>1, <2>2 DEF Awaited, ToDo, AtPath
    <2> QED
      BY <2>1, <2>3, CoverGoes
  <1>3. CASE ProtocolFault \/ SendQuit \/ ReadOrderlyShutdown
    <2>1. /\ UNCHANGED <<srcs, src, success>>
          /\ \/ pc' = "fault"
             \/ pc \in {"quit", "bye"} /\ pc' \in {"bye", "done"}
      BY <1>3 DEF ProtocolFault, SendQuit, ReadOrderlyShutdown, args
    <2>2. pc' \notin Begun
      BY <2>1 DEF Begun, AtPath, StatPcs
    <2> QED
      BY <2>1, <2>2, CoverGoes
  <1> QED
    BY <1>1, <1>2, <1>3

LEMMA CoverStep ==
    ASSUME Types, WireInv, ParentInv, CoverInv, [Next]_vars
    PROVE  CoverInv'
  <1>1. CASE CheckDst \/ StartSource \/ ProtocolFault \/ SendQuit \/ ReadOrderlyShutdown
    BY <1>1, CoverSource
  <1>2. CASE SendStat \/ LstatReply \/ StatReply
    BY <1>2, StatSteps, CoverStat
  <1>3. CASE SendLs \/ ReadDent \/ DentsDone \/ ReadDentFails \/ ResolveLinks
    BY <1>3, CoverLs, CoverDents, CoverLinks
  <1>4. CASE CopyNext \/ SendRecv \/ RecvData \/ RecvDone \/ RecvError
    BY <1>4, CoverCopy, CoverFile
  <1>5. CASE DeviceReads \/ DeviceWrites \/ DeviceCloses \/ UNCHANGED vars
    BY <1>5, CoverDevice
  <1> QED
    BY <1>1, <1>2, <1>3, <1>4, <1>5 DEF Next, Client, Device

LEMMA InitCover == Init => CoverInv
  <1> SUFFICES ASSUME Init PROVE CoverInv
    OBVIOUS
  <1>1. pc = "start" /\ src = 1
    BY DEF Init
  <1>2. 1..(src - 1) = {}
    BY <1>1
  <1> QED
    BY <1>1, <1>2 DEF CoverInv, Begun, AtPath, StatPcs

------------------------------------------------------------------------------
(* Depth is a recursive function: there is one that satisfies its equation, *)
(* and what it holds are ways down from the sources.                       *)

\* What Depth has at d, from what it has at the depth before.
Sources == {<<srcs[i]>> : i \in DOMAIN srcs}

Below(X) == UNION {{Append(p, n) : n \in Range(Entries[Resolve(NameOf(p))])} : p \in {q \in X : IsDir(q)}}

Level(d, X) == IF d = 1 THEN Sources ELSE Below(X)

Unfolds(g, n) == \A d \in 1..n : g[d] = Level(d, g[d - 1])

LEMMA Least ==
    ASSUME NEW T \in SUBSET Nat, T # {}
    PROVE  \E n \in T : \A m \in T : n <= m
  <1>1. IsWellFoundedOn(OpToRel(<, Nat), Nat)
    BY NatLessThanWellFounded
  <1>2. PICK n \in T : \A m \in T : ~(<<m, n>> \in OpToRel(<, Nat))
    BY <1>1, WFMin
  <1>3. \A m \in T : m < n => <<m, n>> \in OpToRel(<, Nat)
    BY DEF OpToRel
  <1>4. \A m \in T : ~(m < n)
    BY <1>2, <1>3
  <1>5. \A m \in T : n <= m
    <2> SUFFICES ASSUME NEW m \in T PROVE n <= m
      OBVIOUS
    <2>1. m \in Nat /\ n \in Nat /\ ~(m < n)
      BY <1>4
    <2> QED
      BY <2>1
  <1> QED
    BY <1>5

\* By the least depth without one.
LEMMA SomeUnfolds == \A n \in Nat : \E g : Unfolds(g, n)
  <1> DEFINE T == {n \in Nat : ~ \E g : Unfolds(g, n)}
  <1> SUFFICES ASSUME T # {} PROVE FALSE
    OBVIOUS
  <1>1. PICK n \in T : \A m \in T : n <= m
    BY Least
  <1>2. n \in Nat /\ ~ \E g : Unfolds(g, n)
    OBVIOUS
  <1>3. CASE n = 0
    <2>1. 1..n = {}
      BY <1>3
    <2>2. Unfolds(<<>>, n)
      BY <2>1 DEF Unfolds
    <2> QED
      BY <1>2, <2>2
  <1>4. CASE n # 0
    <2>1. n - 1 \in Nat /\ ~(n <= n - 1)
      BY <1>2, <1>4
    <2>2. n - 1 \notin T
      BY <1>1, <2>1
    <2>3. PICK g : Unfolds(g, n - 1)
      BY <2>1, <2>2
    <2> HIDE DEF T
    <2> DEFINE h == [d \in 1..n |-> IF d = n THEN Level(n, g[n - 1]) ELSE g[d]]
    <2>4. ASSUME NEW d \in 1..n PROVE h[d] = Level(d, h[d - 1])
      <3>1. d \in Nat /\ d >= 1 /\ d <= n /\ n \in Nat
        BY <1>2
      <3>2. d # 1 => h[d - 1] = g[d - 1]
        <4>1. d # 1 => d - 1 \in 1..n /\ d - 1 # n
          BY <3>1
        <4> QED
          BY <4>1
      <3>3. h[d] = Level(d, g[d - 1])
        <4>1. CASE d = n
          BY <4>1
        <4>2. CASE d # n
          <5>1. d \in 1..(n - 1)
            BY <3>1, <4>2
          <5>2. h[d] = g[d]
            BY <4>2
          <5> QED
            BY <2>3, <5>1, <5>2 DEF Unfolds
        <4> QED
          BY <4>1, <4>2
      <3> HIDE DEF h
      <3> QED
        BY <3>2, <3>3 DEF Level
    <2> HIDE DEF h
    <2>5. Unfolds(h, n)
      BY <2>4 DEF Unfolds
    <2> QED
      BY <1>2, <2>5
  <1> QED
    BY <1>3, <1>4

LEMMA DepthUnfolds ==
    Depth = [d \in 1..(MaxPath + 1) |-> Level(d, Depth[d - 1])]
  <1> DEFINE n == MaxPath + 1
  <1>1. n \in Nat
    BY SyncPullAssumption
  <1> HIDE DEF n
  <1>2. PICK g : Unfolds(g, n)
    BY <1>1, SomeUnfolds
  <1> DEFINE f == [d \in 1..n |-> g[d]]
  <1>3. ASSUME NEW d \in 1..n PROVE f[d] = Level(d, f[d - 1])
    <2>1. d # 1 => d - 1 \in 1..n
      BY <1>1
    <2>2. d # 1 => f[d - 1] = g[d - 1]
      BY <2>1
    <2>3. f[d] = Level(d, g[d - 1])
      BY <1>2 DEF Unfolds
    <2> HIDE DEF f
    <2> QED
      BY <2>2, <2>3 DEF Level
  <1>4. f = [d \in 1..n |-> f[d]]
    OBVIOUS
  <1> HIDE DEF f
  <1>5. f = [d \in 1..n |-> Level(d, f[d - 1])]
    BY <1>3, <1>4
  <1>6. f = [d \in 1..(MaxPath + 1) |->
                IF d = 1 THEN {<<srcs[i]>> : i \in DOMAIN srcs}
                ELSE UNION {{Append(p, n_1) : n_1 \in Range(Entries[Resolve(NameOf(p))])} :
                               p \in {q \in f[d - 1] : IsDir(q)}}]
    BY <1>5 DEF Level, Sources, Below, n
  <1>7. Depth = [d \in 1..(MaxPath + 1) |->
                    IF d = 1 THEN {<<srcs[i]>> : i \in DOMAIN srcs}
                    ELSE UNION {{Append(p, n_1) : n_1 \in Range(Entries[Resolve(NameOf(p))])} :
                                   p \in {q \in Depth[d - 1] : IsDir(q)}}]
    BY <1>6 DEF Depth
  <1> QED
    BY <1>7 DEF Level, Sources, Below

LEMMA DepthWalks ==
    ASSUME srcs \in SourceLists, NEW d \in 1..(MaxPath + 1), NEW p \in Depth[d]
    PROVE  p \in Walks /\ \E i \in DOMAIN srcs : p[1] = srcs[i]
  <1> DEFINE Good(q) == q \in Walks /\ \E i \in DOMAIN srcs : q[1] = srcs[i]
             T == {m \in 1..(MaxPath + 1) : ~ \A q \in Depth[m] : Good(q)}
  <1>1. MaxPath \in Nat
    BY SyncPullAssumption
  <1>2. ASSUME NEW m \in T, \A k \in T : m <= k PROVE FALSE
    <2>1. m \in 1..(MaxPath + 1)
      BY <1>2
    <2>2. Depth[m] = Level(m, Depth[m - 1])
      <3> DEFINE f == Depth
      <3>1. f = [k \in 1..(MaxPath + 1) |-> Level(k, f[k - 1])]
        BY DepthUnfolds
      <3> HIDE DEF f
      <3>2. f[m] = Level(m, f[m - 1])
        BY <2>1, <3>1
      <3> QED
        BY <3>2 DEF f
    <2>3. PICK q \in Depth[m] : ~Good(q)
      BY <1>2
    <2>4. CASE m = 1
      <3>1. PICK i \in DOMAIN srcs : q = <<srcs[i]>>
        BY <2>2, <2>3, <2>4 DEF Level, Sources
      <3>2. srcs[i] \in Names
        BY <3>1, SourceFacts, ElementOfSeq, LenProperties
      <3>3. q \in Paths /\ Len(q) = 1 /\ q[1] = srcs[i]
        BY <3>1, <3>2 DEF Paths
      <3>4. 1..(Len(q) - 1) = {}
        BY <3>3
      <3>5. q \in Walks
        BY <3>3, <3>4 DEF Walks
      <3> QED
        BY <2>3, <3>3, <3>5
    <2>5. CASE m # 1
      <3>1. m - 1 \in 1..(MaxPath + 1) /\ ~(m <= m - 1)
        BY <1>1, <2>1, <2>5
      <3>2. m - 1 \notin T
        BY <1>2, <3>1
      <3>3. \A u \in Depth[m - 1] : Good(u)
        BY <3>1, <3>2
      <3>4. q \in Below(Depth[m - 1])
        BY <2>2, <2>3, <2>5 DEF Level
      <3>5. PICK u \in Depth[m - 1] : IsDir(u) /\ \E x \in Range(Entries[Resolve(NameOf(u))]) : q = Append(u, x)
        BY <3>4 DEF Below
      <3>6. PICK x \in Range(Entries[Resolve(NameOf(u))]) : q = Append(u, x)
        BY <3>5
      <3>7. u \in Walks /\ u \in Paths /\ u \in Seq(Names) /\ u # <<>>
        BY <3>3, <3>5 DEF Walks, Paths
      <3>8. NameOf(u) \in Names /\ NameOf(u) = u[Len(u)] /\ Len(u) \in Nat \ {0}
        BY <3>7, PathName
      <3>9. x \in Names
        BY <3>5, <3>6, <3>8, NameFacts, RangeOfSeq DEF IsDir
      <3>10. /\ q \in Seq(Names) /\ q # <<>> /\ Len(q) = Len(u) + 1
             /\ (\A j \in 1..Len(u) : q[j] = u[j]) /\ q[Len(u) + 1] = x
        BY <3>6, <3>7, <3>9, AppendProperties
      <3>11. ASSUME NEW j \in 1..(Len(q) - 1)
             PROVE  KindOf(Resolve(q[j])) = "dir" /\ q[j + 1] \in Range(Entries[Resolve(q[j])])
        <4>1. j \in 1..Len(u) /\ q[j] = u[j]
          BY <3>8, <3>10
        <4>2. CASE j = Len(u)
          BY <3>5, <3>6, <3>8, <3>10, <4>1, <4>2 DEF IsDir
        <4>3. CASE j # Len(u)
          <5>1. j \in 1..(Len(u) - 1) /\ j + 1 \in 1..Len(u)
            BY <3>8, <4>1, <4>3
          <5>2. q[j + 1] = u[j + 1]
            BY <3>10, <5>1
          <5> QED
            BY <3>7, <4>1, <5>1, <5>2 DEF Walks
        <4> QED
          BY <4>2, <4>3
      <3>12. q \in Walks
        BY <3>10, <3>11 DEF Walks, Paths
      <3>13. q[1] = u[1]
        <4>1. 1 \in 1..Len(u)
          BY <3>8
        <4> QED
          BY <3>10, <4>1
      <3>14. Good(u)
        BY <3>3
      <3> QED
        BY <2>3, <3>12, <3>13, <3>14
    <2> QED
      BY <2>4, <2>5
  <1>3. T \in SUBSET Nat
    BY <1>1
  <1>4. T = {}
    BY <1>2, <1>3, Least
  <1>5. Good(p)
    BY <1>4
  <1> QED
    BY <1>5

LEMMA CoverIsComplete ==
    ASSUME Types, CoverInv
    PROVE  SuccessIsComplete
  <1> SUFFICES ASSUME pc = "done", success, NEW p \in Wanted
               PROVE  Warned(p) \/ (p \in DOMAIN local /\ Whole(p))
    BY DEF SuccessIsComplete
  <1>1. ~IsDir(p) /\ \E d \in 1..(MaxPath + 1) : p \in Depth[d]
    BY DEF Wanted
  <1>2. p \in Walks /\ \E i \in DOMAIN srcs : p[1] = srcs[i]
    BY <1>1, DepthWalks DEF Types, ClientTypes
  <1>3. DOMAIN srcs = 1..Len(srcs) /\ Len(srcs) \in Nat
    BY SourceFacts, LenProperties DEF Types, ClientTypes
  <1>4. src = Len(srcs) + 1
    BY DEF CoverInv
  <1>5. src - 1 = Len(srcs)
    BY <1>3, <1>4
  <1>6. Settled(p)
    BY <1>2, <1>3, <1>5 DEF CoverInv
  <1> QED
    BY <1>1, <1>6 DEF Settled

\* do_sync_pull returns true only if everything at or below every source is
\* on the disk, complete, or has a warning printed for it or for the link it
\* lies behind: for every tree of files, directories and links, links back
\* into their own directory too, and however the listing and the copying went.
THEOREM PullCompleteCorrect == Spec => []SuccessIsComplete
  <1> DEFINE IInv == Types /\ WireInv /\ ParentInv /\ CoverInv
  <1>1. Init => IInv
    BY InitWire, InitParent, InitCover
  <1>2. IInv /\ [Next]_vars => IInv'
    BY WireStep, ParentStep, CoverStep
  <1>3. IInv => SuccessIsComplete
    BY CoverIsComplete
  <1> QED
    BY <1>1, <1>2, <1>3, PTL DEF Spec
==============================================================================
