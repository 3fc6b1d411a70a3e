------------------------------ MODULE SyncPull -------------------------------
(***************************************************************************)
(* do_sync_pull (file_sync_client.cpp): files and directories are fetched  *)
(* from the sync service of a device over one connection.  Each source is  *)
(* stat'ed; the tree below a directory is listed before any of its files   *)
(* is asked for; a file comes as data blocks and ID_DONE, or ID_FAIL.      *)
(* Whatever goes wrong with a source, the next one is tried on the same    *)
(* connection.                                                             *)
(*                                                                         *)
(* A path is the sequence of names from the source down; local and remote  *)
(* paths correspond one to one.  The device (adbd is not part of this      *)
(* repository) answers every request in order; a file may fail to be read  *)
(* half way; it may send what the client must refuse (a block that is too  *)
(* large or does not decompress, a name with a separator); and it may go   *)
(* away.  A file it can read ends with one ID_DONE, behind its last block. *)
(***************************************************************************)
EXTENDS Naturals, Sequences, Functions, SequencesExt

CONSTANTS
    SourceLists,  \* the srcs arguments, sequences of names
    Kind,         \* names -> "file", "dir", "fifo", "link"
    Entries,      \* directories -> the sequence of names in them
    Target,       \* links -> the name they resolve to, or "nowhere"
    Blocks,       \* data blocks of a file
    MaxPath,      \* longest path a request can carry, in names (1024 bytes)
    ReplyRoom     \* messages the device can write before it blocks

ASSUME SyncPullAssumption ==
    /\ Blocks \in Nat /\ MaxPath \in Nat \ {0} /\ ReplyRoom \in Nat \ {0}
    /\ "nowhere" \notin DOMAIN Kind
    /\ \A n \in DOMAIN Kind :
          /\ Kind[n] \in {"file", "dir", "fifo", "link"}
          /\ Kind[n] = "dir" => Entries[n] \in Seq(DOMAIN Kind)
          /\ Kind[n] = "link" => \/ Target[n] = "nowhere"
                                \/ (Target[n] \in DOMAIN Kind /\ Kind[Target[n]] # "link")
    /\ \A s \in SourceLists : s \in Seq(DOMAIN Kind) /\ s # <<>>

VARIABLES
    srcs, dst,      \* arguments: the sources, what is at the destination
    copyAttrs,      \* copy_attrs
    stat2,          \* the device has kFeatureStat2
    pc,             \* where the client is, see TypeOK
    src,            \* the source it is at
    ret,            \* who asked for the stat or the file: "source" or "tree"
    path,           \* the path at hand
    files,          \* file_list
    dirs,           \* the dirlists of the recursion, one stack
    links,          \* linklist
    success,        \* of do_sync_pull
    local,          \* local files: path -> blocks
    made,           \* local directories
    kept,           \* local files that were given time and mode of the remote ones
    warned,         \* paths a warning was printed for
    dirty,          \* history: the client stopped reading a reply half way
    req, rep,       \* the connection, in both directions
    out,            \* reply parts the device has not written yet
    closed          \* by the device

args == <<srcs, dst, copyAttrs, stat2>>
tree == <<files, dirs, links>>
disk == <<local, made, kept>>
conn == <<req, rep, out, closed>>
vars == <<srcs, dst, copyAttrs, stat2, pc, src, ret, path, files, dirs, links,
          success, local, made, kept, warned, dirty, req, rep, out, closed>>

Names == DOMAIN Kind
IsPath(p) == p \in Seq(Names)

TypeOK ==
    /\ srcs \in SourceLists /\ dst \in {"dir", "file", "none", "orphan"}
    /\ copyAttrs \in BOOLEAN /\ stat2 \in BOOLEAN
    /\ pc \in {"start", "source", "stat", "statReply", "lstatReply", "lstatDirReply",
               "ls", "dents", "links", "copy", "recv", "data", "quit", "bye", "done", "fault"}
    /\ src \in 1..(Len(srcs) + 1)
    /\ ret \in {"source", "tree"}
    /\ IsPath(path)
    /\ \A i \in DOMAIN files : IsPath(files[i].p) /\ files[i].k \in {"file", "dir", "fifo", "link"}
    /\ dirs \in Seq(Seq(Names)) /\ links \in Seq(Seq(Names))
    /\ success \in BOOLEAN /\ dirty \in BOOLEAN /\ closed \in BOOLEAN
    /\ \A p \in DOMAIN local : IsPath(p)
    /\ \A p \in made \cup kept \cup warned : IsPath(p)
    /\ Len(rep) <= ReplyRoom

\* What a local file may hold: something older, or blocks of a remote one.
Old == <<"old">>
Block(p, i) == <<p, i>>
Whole(p) == local[p] = [i \in 1..Blocks |-> Block(p, i)]

Init ==
    /\ srcs \in SourceLists
    /\ dst \in {"dir", "file", "none", "orphan"}
    /\ copyAttrs \in BOOLEAN /\ stat2 \in BOOLEAN
    /\ pc = "start" /\ src = 1 /\ ret = "source" /\ path = <<>>
    /\ files = <<>> /\ dirs = <<>> /\ links = <<>>
    /\ success = TRUE
    /\ local = IF dst = "file" THEN [p \in {<<srcs[1]>>} |-> Old] ELSE <<>>
    /\ made = {} /\ kept = {} /\ warned = {} /\ dirty = FALSE
    /\ req = <<>> /\ rep = <<>> /\ out = <<>> /\ closed = FALSE

------------------------------------------------------------------------------
(* The connection, seen by the client.                                     *)

\* SendRequest and SendRecv2: a path that is too long is refused, and a write
\* may fail once the device is gone; otherwise it is delivered, or lost.
Sent(m, p) ==
    /\ Len(p) <= MaxPath
    /\ req' = IF closed THEN req ELSE Append(req, [m |-> m, p |-> p])

NotSent(p) == (Len(p) > MaxPath \/ closed) /\ UNCHANGED req

Received(m) == rep # <<>> /\ Head(rep).m = m /\ rep' = Tail(rep)

\* Something else than ms; a refused message is the middle of a reply.
Unexpected(ms) ==
    /\ rep # <<>> /\ Head(rep).m \notin ms
    /\ rep' = Tail(rep)
    /\ dirty' = (dirty \/ Head(rep).m = "bad")

Ended == rep = <<>> /\ closed

------------------------------------------------------------------------------
(* do_sync_pull: the sources.                                              *)

\* The next source, after the last one the destructor's goodbye.
NextSource(ok) ==
    /\ success' = (success /\ ok)
    /\ src' = src + 1
    /\ pc' = IF src < Len(srcs) THEN "source" ELSE "quit"

\* Several sources need a directory to go to; the parent of a new file must be there.
CheckDst ==
    /\ pc = "start"
    /\ LET ok == \/ dst = "dir"
                 \/ Len(srcs) = 1 /\ dst # "orphan"
       IN success' = ok /\ pc' = IF ok THEN "source" ELSE "quit"
    /\ UNCHANGED <<args, src, ret, path, tree, disk, warned, dirty, conn>>

StartSource ==
    /\ pc = "source"
    /\ path' = <<srcs[src]>>
    /\ ret' = "source"
    /\ pc' = "stat"
    /\ UNCHANGED <<args, src, tree, success, disk, warned, dirty, conn>>

------------------------------------------------------------------------------
(* sync_stat_fallback.                                                     *)

ShouldPull(k) == k = "file"

\* What the callers do with the answer.  do_sync_pull: there is no such
\* object; a directory is listed, but cannot replace a file; special files
\* are skipped; anything else is fetched.  remote_build_list: a link that
\* cannot be resolved is passed over with a warning.
SourceStat(k) ==
    \/ /\ k = "none" /\ NextSource(FALSE)
       /\ UNCHANGED <<tree, warned>>
    \/ /\ k = "dir" /\ dst = "file"
       /\ success' = FALSE /\ pc' = "quit"
       /\ UNCHANGED <<src, tree, warned>>
    \/ /\ k = "dir" /\ dst # "file"
       /\ pc' = "ls" /\ dirs' = <<path>> /\ files' = <<>> /\ links' = <<>>
       /\ UNCHANGED <<src, success, warned>>
    \/ /\ k = "fifo" /\ NextSource(TRUE)
       /\ warned' = warned \cup {path}
       /\ UNCHANGED tree
    \/ /\ ShouldPull(k) /\ pc' = "recv"
       /\ UNCHANGED <<src, tree, success, warned>>

LinkStat(k) ==
    /\ \/ k = "none" /\ warned' = warned \cup {path} /\ UNCHANGED <<dirs, files>>
       \/ k = "dir" /\ dirs' = Append(dirs, path) /\ UNCHANGED <<files, warned>>
       \/ /\ k \in {"file", "fifo"}
          /\ files' = Append(files, [p |-> path, k |-> "link"])
          /\ UNCHANGED <<dirs, warned>>
    /\ pc' = "links"
    /\ UNCHANGED <<src, links, success>>

StatResult(k) == IF ret = "source" THEN SourceStat(k) ELSE LinkStat(k)

\* SendStat, or SendLstat when the device has only the first version.
SendStat ==
    /\ pc = "stat"
    /\ \/ /\ Sent(IF stat2 THEN "stat" ELSE "lstat", path)
          /\ pc' = IF stat2 THEN "statReply" ELSE "lstatReply"
          /\ UNCHANGED <<src, tree, success, warned>>
       \/ NotSent(path) /\ StatResult("none")
    /\ UNCHANGED <<args, ret, path, disk, dirty, rep, out, closed>>

\* A mistake: the answer for the target of a link is left on the connection.
LstatReplyHasty ==
    /\ pc = "lstatReply" /\ Received("stat")
    /\ \/ /\ Head(rep).k = "link"
          /\ Sent("lstatDir", path) /\ StatResult("file")
       \/ Head(rep).k # "link" /\ StatResult(Head(rep).k) /\ UNCHANGED req
    /\ UNCHANGED <<args, ret, path, disk, dirty, out, closed>>

\* An lstat that finds a link asks again with a slash behind the path.
LstatReply ==
    /\ pc = "lstatReply" /\ Received("stat")
    /\ \/ /\ Head(rep).k = "link"
          /\ \/ /\ Sent("lstatDir", path) /\ pc' = "lstatDirReply"
                /\ UNCHANGED <<src, tree, success, warned>>
             \/ NotSent(path) /\ StatResult("file")
       \/ Head(rep).k # "link" /\ StatResult(Head(rep).k) /\ UNCHANGED req
    /\ UNCHANGED <<args, ret, path, disk, dirty, out, closed>>

\* FinishStat.  For the path with a slash only success or failure counts.
StatReply ==
    /\ pc \in {"statReply", "lstatDirReply"} /\ Received("stat")
    /\ StatResult(IF pc = "statReply" THEN Head(rep).k
                  ELSE IF Head(rep).k = "none" THEN "file" ELSE "dir")
    /\ UNCHANGED <<args, ret, path, disk, dirty, req, out, closed>>

\* LOG(FATAL): the connection ended, or something else is on it.
ProtocolFault ==
    /\ pc \in {"statReply", "lstatReply", "lstatDirReply"}
    /\ \/ Ended /\ UNCHANGED <<rep, dirty>>
       \/ Unexpected({"stat"})
    /\ pc' = "fault"
    /\ UNCHANGED <<args, src, ret, path, tree, success, disk, warned, req, out, closed>>

------------------------------------------------------------------------------
(* remote_build_list.                                                      *)

\* A mistake: a directory comes on the list behind its files.
SendLsBare ==
    /\ pc = "ls"
    /\ path' = Last(dirs) /\ dirs' = Front(dirs)
    /\ \/ /\ Sent("list", path')
          /\ pc' = "dents" /\ UNCHANGED <<src, files, success>>
       \/ NotSent(path') /\ NextSource(FALSE) /\ UNCHANGED files
    /\ UNCHANGED <<args, ret, links, disk, warned, dirty, rep, out, closed>>

\* The directory goes on the list before its contents, and is listed.
SendLs ==
    /\ pc = "ls"
    /\ path' = Last(dirs) /\ dirs' = Front(dirs)
    /\ files' = Append(files, [p |-> Last(dirs), k |-> "dir"])
    /\ \/ Sent("list", path') /\ pc' = "dents" /\ UNCHANGED <<src, success>>
       \/ NotSent(path') /\ NextSource(FALSE)
    /\ UNCHANGED <<args, ret, links, disk, warned, dirty, rep, out, closed>>

\* FinishLs and its callback.
ReadDent ==
    /\ pc = "dents" /\ Received("dent")
    /\ LET k == Head(rep).k
           p == Append(path, Head(rep).n)
       IN \/ k = "dot" /\ UNCHANGED <<tree, warned>>
          \/ k = "dir" /\ dirs' = Append(dirs, p) /\ UNCHANGED <<files, links, warned>>
          \/ k = "link" /\ links' = Append(links, p) /\ UNCHANGED <<files, dirs, warned>>
          \/ /\ k \in {"file", "fifo"}
             /\ files' = Append(files, [p |-> p, k |-> k])
             /\ warned' = IF ShouldPull(k) THEN warned ELSE warned \cup {p}
             /\ UNCHANGED <<dirs, links>>
    /\ UNCHANGED <<args, pc, src, ret, path, success, disk, dirty, req, out, closed>>

DentsDone ==
    /\ pc = "dents" /\ Received("done")
    /\ pc' = "links"
    /\ UNCHANGED <<args, src, ret, path, tree, success, disk, warned, dirty, req, out, closed>>

\* A mistake: a list that breaks off is taken for a complete one.
ReadDentFailsUnseen ==
    /\ pc = "dents"
    /\ \/ Ended /\ pc' = "links" /\ UNCHANGED <<src, success, rep, dirty>>
       \/ Received("bad") /\ NextSource(FALSE) /\ dirty' = TRUE
    /\ UNCHANGED <<args, ret, path, tree, disk, warned, req, out, closed>>

\* The connection ended, something else came, or a name has a separator in
\* it or is too long.
ReadDentFails ==
    /\ pc = "dents"
    /\ \/ Ended /\ UNCHANGED <<rep, dirty>>
       \/ Unexpected({"dent", "done"})
    /\ NextSource(FALSE)
    /\ UNCHANGED <<args, ret, path, tree, disk, warned, req, out, closed>>

\* The links of the directory, then the next directory, then the files.
ResolveLinks ==
    /\ pc = "links"
    /\ \/ /\ links # <<>>
          /\ path' = Head(links) /\ links' = Tail(links)
          /\ ret' = "tree" /\ pc' = "stat"
       \/ /\ links = <<>>
          /\ pc' = IF dirs = <<>> THEN "copy" ELSE "ls"
          /\ UNCHANGED <<path, links, ret>>
    /\ UNCHANGED <<args, src, files, dirs, success, disk, warned, dirty, conn>>

------------------------------------------------------------------------------
(* copy_remote_dir_local.                                                  *)

CopyNext ==
    /\ pc = "copy"
    /\ \/ files = <<>> /\ NextSource(TRUE) /\ UNCHANGED <<files, path, ret, made>>
       \/ /\ files # <<>> /\ files' = Tail(files)
          /\ LET f == Head(files) IN
             \/ f.k = "fifo" /\ UNCHANGED <<pc, src, success, path, ret, made>>
             \/ /\ f.k = "dir"
                /\ \/ made' = made \cup {f.p} /\ UNCHANGED <<pc, src, success>>
                   \/ NextSource(FALSE) /\ UNCHANGED made     \* mkdirs failed
                /\ UNCHANGED <<path, ret>>
             \/ /\ f.k \in {"file", "link"}
                /\ path' = f.p /\ ret' = "tree" /\ pc' = "recv"
                /\ UNCHANGED <<src, success, made>>
    /\ UNCHANGED <<args, dirs, links, local, kept, warned, dirty, conn>>

------------------------------------------------------------------------------
(* sync_recv_v1 and sync_recv_v2.                                          *)

Unlink == local' = Restrict(local, DOMAIN local \ {path})

\* A mistake: the rest of the directory is tried all the same.
RecvFailsOn ==
    IF ret = "tree" THEN pc' = "copy" /\ success' = FALSE /\ UNCHANGED src
                    ELSE NextSource(FALSE)

\* The directory is given up, and so is a single file.
RecvFails == NextSource(FALSE)

\* The request is sent first; then the old file goes and the new one is made.
SendRecv ==
    /\ pc = "recv"
    /\ \/ /\ Sent("recv", path)
          /\ \/ /\ local' = [p \in DOMAIN local \cup {path} |-> IF p = path THEN <<>> ELSE local[p]]
                /\ pc' = "data"
                /\ UNCHANGED <<src, success, dirty>>
             \/ Unlink /\ RecvFails /\ dirty' = TRUE    \* adb_creat failed
       \/ NotSent(path) /\ RecvFails /\ UNCHANGED <<local, dirty>>
    /\ UNCHANGED <<args, ret, path, tree, made, kept, warned, rep, out, closed>>

\* ID_DATA: written to the file, or the write failed.
RecvData ==
    /\ pc = "data" /\ Received("data")
    /\ \/ /\ local' = [local EXCEPT ![path] = Append(@, Block(Head(rep).p, Head(rep).i))]
          /\ UNCHANGED <<pc, src, success, dirty>>
       \/ Unlink /\ RecvFails /\ dirty' = TRUE
    /\ UNCHANGED <<args, ret, path, tree, made, kept, warned, req, out, closed>>

\* The attributes the client has are those of the file: a stat follows a
\* link, what a list or an lstat says of one is about the link.
OwnAttrs == Kind[Last(path)] # "link" \/ (ret = "source" /\ stat2)

\* ID_DONE; set_time_and_mode may fail, and leaves the file.
RecvDone ==
    /\ pc = "data" /\ Received("done")
    /\ \/ /\ IF ret = "tree" THEN pc' = "copy" /\ UNCHANGED <<src, success>> ELSE NextSource(TRUE)
          /\ kept' = IF copyAttrs /\ OwnAttrs THEN kept \cup {path} ELSE kept
       \/ copyAttrs /\ RecvFails /\ UNCHANGED kept
    /\ UNCHANGED <<args, ret, path, tree, local, made, warned, dirty, req, out, closed>>

\* The end of the connection, ID_FAIL with its reason or anything else, a
\* block that is too large or cannot be decoded.
RecvError ==
    /\ pc = "data"
    /\ \/ Ended /\ UNCHANGED <<rep, dirty>>
       \/ Unexpected({"data", "done"})
    /\ Unlink /\ RecvFails
    /\ UNCHANGED <<args, ret, path, tree, made, kept, warned, req, out, closed>>

------------------------------------------------------------------------------
(* ~SyncConnection.                                                        *)

SendQuit ==
    /\ pc = "quit"
    /\ \/ Sent("quit", <<>>) /\ pc' = "bye"
       \/ NotSent(<<>>) /\ pc' = "done"
    /\ UNCHANGED <<args, src, ret, path, tree, success, disk, warned, dirty, rep, out, closed>>

\* A mistake: data that is still coming is not an end.
ReadOrderlyShutdownStrict ==
    /\ pc = "bye" /\ Ended
    /\ pc' = "done"
    /\ UNCHANGED <<args, src, ret, path, tree, success, disk, warned, dirty, conn>>

\* One read: the end of the connection, or data nobody wants any more.
ReadOrderlyShutdown ==
    /\ pc = "bye"
    /\ rep # <<>> \/ closed
    /\ pc' = "done"
    /\ UNCHANGED <<args, src, ret, path, tree, success, disk, warned, dirty, conn>>

------------------------------------------------------------------------------
(* The device.                                                             *)

NameOf(p) == Last(p)
Resolve(n) == IF Kind[n] = "link" THEN Target[n] ELSE n
KindOf(n) == IF n = "nowhere" THEN "none" ELSE Kind[n]

StatMsg(k) == <<[m |-> "stat", k |-> k]>>
Dent(n) == [m |-> "dent", n |-> n, k |-> Kind[n]]
Dot(n) == [m |-> "dent", n |-> n, k |-> "dot"]
Data(p, i) == [m |-> "data", p |-> p, i |-> i]
Done == [m |-> "done"]

\* The whole answer, or a beginning of it and an end of another kind.
OrCutShort(parts, ends) ==
    {Append(parts, Done)} \cup
    {Append(SubSeq(parts, 1, i), [m |-> e]) : i \in 0..Len(parts), e \in ends}

Answers(r) ==
    LET n == NameOf(r.p) IN
    CASE r.m = "stat" -> {StatMsg(KindOf(Resolve(n)))}
      [] r.m = "lstat" -> {StatMsg(Kind[n])}
      [] r.m = "lstatDir" -> {StatMsg(IF KindOf(Resolve(n)) = "dir" THEN "dir" ELSE "none")}
      [] r.m = "list" ->
            OrCutShort(<<Dot(n)>> \o [i \in DOMAIN Entries[Resolve(n)] |-> Dent(Entries[Resolve(n)][i])],
                   {"bad"})
      [] r.m = "recv" ->
            IF KindOf(Resolve(n)) = "file"
            THEN OrCutShort([i \in 1..Blocks |-> Data(r.p, i)], {"fail", "bad"})
            ELSE {<<[m |-> "fail"]>>}

DeviceReads ==
    /\ ~closed /\ out = <<>> /\ req # <<>>
    /\ req' = Tail(req)
    /\ IF Head(req).m = "quit" THEN closed' = TRUE /\ UNCHANGED out
                               ELSE out' \in Answers(Head(req)) /\ UNCHANGED closed
    /\ UNCHANGED <<args, pc, src, ret, path, tree, success, disk, warned, dirty, rep>>

DeviceWrites ==
    /\ ~closed /\ out # <<>> /\ Len(rep) < ReplyRoom
    /\ rep' = Append(rep, Head(out)) /\ out' = Tail(out)
    /\ UNCHANGED <<args, pc, src, ret, path, tree, success, disk, warned, dirty, req, closed>>

\* The cable is pulled.
DeviceCloses ==
    /\ ~closed
    /\ closed' = TRUE
    /\ UNCHANGED <<args, pc, src, ret, path, tree, success, disk, warned, dirty, req, rep, out>>

------------------------------------------------------------------------------
Client ==
    \/ CheckDst \/ StartSource \/ SendStat \/ LstatReply \/ StatReply \/ ProtocolFault
    \/ SendLs \/ ReadDent \/ DentsDone \/ ReadDentFails \/ ResolveLinks
    \/ CopyNext \/ SendRecv \/ RecvData \/ RecvDone \/ RecvError
    \/ SendQuit \/ ReadOrderlyShutdown

Device == DeviceReads \/ DeviceWrites

Next == Client \/ Device \/ DeviceCloses

Spec == Init /\ [][Next]_vars

\* Client and device go on while they can; nobody need pull a cable.
FairSpec == Spec /\ WF_vars(Client) /\ WF_vars(Device)

------------------------------------------------------------------------------
(* Properties.                                                             *)

IsDir(p) == KindOf(Resolve(NameOf(p))) = "dir"

\* The paths with d names that lead from a source down directories and links
\* to directories, as far as a request can name them.
Depth[d \in 1..(MaxPath + 1)] ==
    IF d = 1 THEN {<<srcs[i]>> : i \in DOMAIN srcs}
    ELSE UNION {{Append(p, n) : n \in Range(Entries[Resolve(NameOf(p))])} :
                   p \in {q \in Depth[d - 1] : IsDir(q)}}

Wanted == {p \in UNION {Depth[d] : d \in 1..(MaxPath + 1)} : ~IsDir(p)}

\* A warning was printed for p, or for a link it lies behind.
Warned(p) == \E i \in 1..Len(p) : SubSeq(p, 1, i) \in warned

\* do_sync_pull returns true only if everything at or below the sources is on
\* the disk, complete, or has a warning printed for it, whatever kinds of
\* entries, links and failures the listing met (remote_build_list,
\* copy_remote_dir_local).  A link that could not be asked about, because the
\* device has gone, is passed over like one that leads nowhere: the warning
\* for it is the only one for all that is behind it.
SuccessIsComplete ==
    pc = "done" /\ success =>
        \A p \in Wanted : Warned(p) \/ (p \in DOMAIN local /\ Whole(p))

\* "-a: preserve file timestamp and mode" (commandline.cpp): after a
\* successful pull -a from a device with stat2 every file pulled has them.
AttrsPreserved ==
    pc = "done" /\ success /\ copyAttrs /\ stat2 => Wanted \ warned \subseteq kept

\* At no time, and after no kind of failure, is a part of a file left under
\* its name, or a block of one file in another: only the file at hand is
\* incomplete (sync_recv_v1, sync_recv_v2).
NoTruncatedFile ==
    \A p \in DOMAIN local :
        \/ Whole(p) \/ local[p] = Old
        \/ pc = "data" /\ p = path /\ IsPrefix(local[p], [i \in 1..Blocks |-> Block(p, i)])

\* remote_build_list: "Add an entry for the current directory to ensure it
\* gets created before pulling its contents."
ParentIsMade == \A p \in DOMAIN local : Len(p) > 1 => Front(p) \in made

\* FinishStat's "protocol fault" is met only when the connection broke, or
\* after the client itself stopped reading in the middle of a reply: no path
\* through links, lists and failures of the device misplaces a reply.
FaultIsEarned == pc = "fault" => closed \/ dirty

\* Every pull ends, through links that lead back into their own directory
\* too, and whatever the device still has to say at the end.
PullEnds == <>(pc \in {"done", "fault"})
==============================================================================
