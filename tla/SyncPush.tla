------------------------------ MODULE SyncPush -------------------------------
(***************************************************************************)
(* do_sync_push (file_sync_client.cpp): files are sent to the sync service *)
(* of a device one after the other, and their acknowledgements read later, *)
(* as they come or when too many are outstanding.  Nothing on the wire     *)
(* says what a reply answers, so all depends on the order.                 *)
(*                                                                         *)
(* The connection is a pair of bounded queues: a write blocks when its     *)
(* queue is full.  The device (adbd is not part of this repository) is     *)
(* what the client's comments make it: it answers every file in order,     *)
(* goes on after a file it could not store, writes a failure in two parts, *)
(* and closes the connection on a request it did not expect.  The stat     *)
(* of the destination, made before anything is outstanding, and the data   *)
(* of files are left out; a source's files are those local_build_list put  *)
(* on its list.                                                            *)
(***************************************************************************)
EXTENDS Naturals, Sequences

CONSTANTS
    Jobs,         \* the calls: records of srcs (a sequence of records of a list of
                  \* files and whether it is a directory) and sync (compare with
                  \* what the device has)
    Large,        \* files of SYNC_DATA_MAX bytes or more
    LocalErrors,  \* reading local files may fail
    MaxDeferred,  \* max_deferred_acks
    RequestRoom,  \* writes the client can make before one blocks
    ReplyRoom     \* the same for the device

FilesOf(srcs) == UNION {{srcs[i].files[j] : j \in DOMAIN srcs[i].files} : i \in DOMAIN srcs}

Files == UNION {FilesOf(j.srcs) : j \in Jobs}

ASSUME SyncPushAssumption ==
    /\ LocalErrors \in BOOLEAN
    /\ MaxDeferred \in Nat \ {0}
    /\ RequestRoom \in Nat \ {0}
    /\ ReplyRoom \in Nat /\ ReplyRoom >= 2 * MaxDeferred   \* the comment in ReadAcknowledgements
    /\ \A j \in Jobs : /\ j.sync \in BOOLEAN
                      /\ j.srcs \in Seq([dir : BOOLEAN, files : Seq(Files)])
                      /\ \A i \in DOMAIN j.srcs :
                            ~j.srcs[i].dir => Len(j.srcs[i].files) = 1

VARIABLES
    job,       \* the arguments of do_sync_push
    pc,        \* the client: "next" source, "ask" and "stats" (lstat), "send",
               \* "large" (inside SendLargeFile), "acks" (ReadAcknowledgements);
               \* "done", "exit" (_exit), "fault" (LOG(FATAL))
    src,       \* the source it is at
    todo,      \* its files still to be asked about, answered or sent
    skip,      \* files found to be up to date
    deferred,  \* deferred_acknowledgements_
    buf,       \* acknowledgement_buffer_ holds the header of a failure
    readAll,   \* the argument of ReadAcknowledgements
    ret,       \* where it was called: "file", "dir", "end"
    success,   \* of do_sync_push
    reported,  \* files ReportDeferredCopyFailure named
    req, rep,  \* the connection, in both directions
    closed,    \* by the device
    out,       \* the device: reply parts not written yet,
    recv,      \* the file it is receiving, or none,
    stored     \* the files it has

client == <<pc, src, todo, skip, deferred, buf, readAll, ret, success, reported>>
device == <<out, recv, stored>>
vars == <<job, pc, src, todo, skip, deferred, buf, readAll, ret, success, reported,
          req, rep, closed, out, recv, stored>>

Sources == job.srcs
Sync    == job.sync

Requests == [m : {"lstat", "small", "send", "data", "done"}, f : Files]
Replies  == [m : {"same", "other", "okay", "fail", "reason"}, f : Files]

TypeOK ==
    /\ job \in Jobs
    /\ pc \in {"next", "ask", "stats", "send", "large", "acks", "done", "exit", "fault"}
    /\ src \in 1..(Len(Sources) + 1)
    /\ todo \in Seq(Files)
    /\ skip \subseteq Files
    /\ deferred \in Seq(Files)
    /\ buf \in BOOLEAN /\ readAll \in BOOLEAN /\ success \in BOOLEAN /\ closed \in BOOLEAN
    /\ ret \in {"file", "dir", "end"}
    /\ reported \subseteq Files
    /\ req \in Seq(Requests) /\ Len(req) <= RequestRoom
    /\ rep \in Seq(Replies) /\ Len(rep) <= ReplyRoom
    /\ out \in Seq(Replies)
    /\ recv \subseteq Files
    /\ stored \subseteq Files

Init ==
    /\ job \in Jobs
    /\ pc = "next" /\ src = 1 /\ todo = <<>> /\ skip = {}
    /\ deferred = <<>> /\ buf = FALSE /\ readAll = FALSE /\ ret = "file"
    /\ success = TRUE /\ reported = {}
    /\ req = <<>> /\ rep = <<>> /\ closed = FALSE
    /\ out = <<>> /\ recv = {}
    /\ stored \in SUBSET Files

------------------------------------------------------------------------------
(* The connection, seen by the client.                                     *)

\* A write that is delivered, or is lost because the device closed.
Write(m, f) ==
    IF closed THEN UNCHANGED req
    ELSE Len(req) < RequestRoom /\ req' = Append(req, [m |-> m, f |-> f])

WriteFails == closed /\ UNCHANGED req

\* WriteOrDie: on failure the process exits.
WriteOrDie(m, f, ok) ==
    \/ Write(m, f) /\ ok
    \/ /\ WriteFails
       /\ pc' = "exit"
       /\ UNCHANGED <<src, todo, skip, deferred, buf, readAll, ret, success, reported>>

NoReply == rep = <<>> /\ ~closed

------------------------------------------------------------------------------
(* do_sync_push and copy_local_dir_remote: the sources.                    *)

IsDir == Sources[src].dir

\* Leave the source: its last result is false.
GiveUp ==
    /\ success' = FALSE
    /\ src' = src + 1
    /\ todo' = <<>>
    /\ pc' = "next"

NextSource ==
    /\ pc = "next" /\ src <= Len(Sources)
    /\ todo' = Sources[src].files
    /\ pc' = IF Sync THEN "ask" ELSE "send"
    /\ UNCHANGED <<src, skip, deferred, buf, readAll, ret, success, reported,
                   req, rep, closed, device>>

\* stat of the source or opendir failed.
SourceFails ==
    /\ pc = "next" /\ src <= Len(Sources) /\ LocalErrors
    /\ GiveUp
    /\ UNCHANGED <<skip, deferred, buf, readAll, ret, reported, req, rep, closed, device>>

\* After the last source every acknowledgement is read.
SourcesEnd ==
    /\ pc = "next" /\ src > Len(Sources)
    /\ pc' = "acks" /\ readAll' = TRUE /\ ret' = "end"
    /\ UNCHANGED <<src, todo, skip, deferred, buf, success, reported,
                   req, rep, closed, device>>

\* SendLstat, for all files of a directory before the first answer is read.
AskStat ==
    /\ pc = "ask"
    /\ IF todo = <<>>
       THEN todo' = Sources[src].files /\ pc' = "stats" /\ UNCHANGED req
       ELSE Write("lstat", Head(todo)) /\ todo' = Tail(todo) /\ UNCHANGED pc
    /\ UNCHANGED <<src, skip, deferred, buf, readAll, ret, success, reported,
                   rep, closed, device>>

\* A directory is given up; a single file is sent without the comparison.
AskFails ==
    /\ pc = "ask" /\ todo # <<>> /\ WriteFails
    /\ IF IsDir THEN GiveUp ELSE pc' = "send" /\ UNCHANGED <<src, todo, success>>
    /\ UNCHANGED <<skip, deferred, buf, readAll, ret, reported, rep, closed, device>>

\* FinishStat: whatever comes next is taken for the answer.
FinishStat ==
    /\ pc = "stats"
    /\ \/ /\ todo = <<>>
          /\ todo' = Sources[src].files /\ pc' = "send"
          /\ UNCHANGED <<skip, rep>>
       \/ /\ todo # <<>> /\ rep # <<>> /\ Head(rep).m \in {"same", "other"}
          /\ rep' = Tail(rep)
          /\ skip' = IF Head(rep).m = "same" THEN skip \cup {Head(todo)} ELSE skip
          /\ todo' = Tail(todo)
          /\ UNCHANGED pc
       \/ /\ todo # <<>> /\ rep # <<>> /\ Head(rep).m \notin {"same", "other"}
          /\ pc' = "fault"
          /\ UNCHANGED <<skip, rep, todo>>
       \/ /\ todo # <<>> /\ rep = <<>> /\ closed
          /\ pc' = "fault"
          /\ UNCHANGED <<skip, rep, todo>>
    /\ UNCHANGED <<src, deferred, buf, readAll, ret, success, reported, req, closed, device>>

\* The next file of the source is up to date.
SkipFile ==
    /\ pc = "send" /\ todo # <<>> /\ Head(todo) \in skip
    /\ todo' = Tail(todo)
    /\ UNCHANGED <<pc, src, skip, deferred, buf, readAll, ret, success, reported,
                   req, rep, closed, device>>

\* The list is at its end; a directory is acknowledged as a whole.
FilesEnd ==
    /\ pc = "send" /\ todo = <<>>
    /\ IF IsDir THEN pc' = "acks" /\ readAll' = TRUE /\ ret' = "dir" /\ UNCHANGED src
                ELSE pc' = "next" /\ src' = src + 1 /\ UNCHANGED <<readAll, ret>>
    /\ UNCHANGED <<todo, skip, deferred, buf, success, reported, req, rep, closed, device>>

------------------------------------------------------------------------------
(* sync_send.                                                              *)

Sending == pc = "send" /\ todo # <<>> /\ Head(todo) \notin skip

\* readlink, stat or the read of a small file failed: nothing was sent.
LocalFails ==
    /\ Sending /\ LocalErrors
    /\ GiveUp
    /\ UNCHANGED <<skip, deferred, buf, readAll, ret, reported, req, rep, closed, device>>

\* A mistake: the acknowledgement is left for later in every case.
FileSentUnread(f) ==
    /\ deferred' = Append(deferred, f)
    /\ pc' = "acks" /\ readAll' = FALSE /\ ret' = "file"
    /\ todo' = Tail(todo)
    /\ UNCHANGED <<src, skip, buf, success, reported>>

\* RecordFileSent, and on to ReadAcknowledgements(sync).
FileSent(f) ==
    /\ deferred' = Append(deferred, f)
    /\ pc' = "acks" /\ readAll' = (Sync /\ ~IsDir) /\ ret' = "file"
    /\ todo' = Tail(todo)
    /\ UNCHANGED <<src, skip, buf, success, reported>>

\* SendSmallFile: one write.
SendSmallFile ==
    /\ Sending /\ Head(todo) \notin Large
    /\ WriteOrDie("small", Head(todo), FileSent(Head(todo)))
    /\ UNCHANGED <<rep, closed, device>>

\* SendLargeFile: the request, data, the end.
SendRequest ==
    /\ Sending /\ Head(todo) \in Large
    /\ \/ /\ Write("send", Head(todo))
          /\ pc' = "large" /\ UNCHANGED <<src, todo, success>>
       \/ WriteFails /\ GiveUp
    /\ UNCHANGED <<skip, deferred, buf, readAll, ret, reported, rep, closed, device>>

SendData ==
    /\ pc = "large"
    /\ WriteOrDie("data", Head(todo), UNCHANGED client)
    /\ UNCHANGED <<rep, closed, device>>

SendDone ==
    /\ pc = "large"
    /\ WriteOrDie("done", Head(todo), FileSent(Head(todo)))
    /\ UNCHANGED <<rep, closed, device>>

\* A local error in the middle: the device is left waiting for data.
LargeFails ==
    /\ pc = "large" /\ LocalErrors
    /\ GiveUp
    /\ UNCHANGED <<skip, deferred, buf, readAll, ret, reported, req, rep, closed, device>>

------------------------------------------------------------------------------
(* ReadAcknowledgements, one turn of its loop at a time.                   *)

\* What the callers do with the result.
Return(ok) ==
    /\ success' = (success /\ ok)
    /\ CASE ret = "end" -> pc' = "done" /\ UNCHANGED <<src, todo>>
         [] ret = "file" /\ ok -> pc' = "send" /\ UNCHANGED <<src, todo>>
         [] OTHER -> pc' = "next" /\ src' = src + 1 /\ todo' = <<>>

AckVars == <<deferred, buf, reported, rep>>

\* Three mistakes: a failure does not count; nobody waits when too many are
\* outstanding; the newest file is taken for the one answered.
ReadFailureIgnored ==
    /\ pc = "acks" /\ deferred # <<>> /\ buf /\ rep # <<>>
    /\ rep' = Tail(rep) /\ buf' = FALSE
    /\ reported' = reported \cup {Head(deferred)}
    /\ deferred' = Tail(deferred)
    /\ Return(TRUE)
    /\ UNCHANGED <<skip, readAll, ret, req, closed, device>>
TryLaterAlways ==
    /\ pc = "acks" /\ deferred # <<>> /\ NoReply /\ ~readAll
    /\ Return(TRUE)
    /\ UNCHANGED <<AckVars, skip, readAll, ret, req, closed, device>>
CopyDoneLast == deferred' = SubSeq(deferred, 1, Len(deferred) - 1)

CopyDone == deferred' = Tail(deferred)

\* Nothing is outstanding.
AllRead ==
    /\ pc = "acks" /\ deferred = <<>>
    /\ Return(TRUE)
    /\ UNCHANGED <<AckVars, skip, readAll, ret, req, closed, device>>

\* Nothing to read yet, and no need to wait.
TryLater ==
    /\ pc = "acks" /\ deferred # <<>> /\ NoReply
    /\ ~readAll /\ Len(deferred) < MaxDeferred
    /\ Return(TRUE)
    /\ UNCHANGED <<AckVars, skip, readAll, ret, req, closed, device>>

\* ID_OKAY goes on to the next; the header of ID_FAIL is kept in the buffer.
ReadHeader ==
    /\ pc = "acks" /\ deferred # <<>> /\ ~buf
    /\ rep # <<>> /\ Head(rep).m \in {"okay", "fail"}
    /\ rep' = Tail(rep)
    /\ IF Head(rep).m = "okay" THEN CopyDone /\ UNCHANGED buf
                               ELSE buf' = TRUE /\ UNCHANGED deferred
    /\ UNCHANGED <<pc, src, todo, skip, readAll, ret, success, reported, req, closed, device>>

\* The reason of a failure: the oldest file has failed, and the call ends,
\* whatever else is outstanding.
ReadFailure ==
    /\ pc = "acks" /\ deferred # <<>> /\ buf /\ rep # <<>>
    /\ rep' = Tail(rep) /\ buf' = FALSE
    /\ reported' = reported \cup {Head(deferred)}
    /\ CopyDone
    /\ Return(FALSE)
    /\ UNCHANGED <<skip, readAll, ret, req, closed, device>>

\* A mistake: the end of the connection is not looked for.
ReadErrorUnseen ==
    /\ pc = "acks" /\ deferred # <<>>
    /\ ~buf /\ rep # <<>> /\ Head(rep).m \notin {"okay", "fail"}
    /\ Return(FALSE)
    /\ UNCHANGED <<AckVars, skip, readAll, ret, req, closed, device>>

\* Anything else in place of a header, or the end of the connection.
ReadError ==
    /\ pc = "acks" /\ deferred # <<>>
    /\ \/ rep = <<>> /\ closed
       \/ ~buf /\ rep # <<>> /\ Head(rep).m \notin {"okay", "fail"}
    /\ Return(FALSE)
    /\ UNCHANGED <<AckVars, skip, readAll, ret, req, closed, device>>

------------------------------------------------------------------------------
(* The device.                                                             *)

Failure(f) == <<[m |-> "fail", f |-> f], [m |-> "reason", f |-> f]>>

\* The end of a file: it is stored, or it cannot be.
Finish(f) ==
    /\ recv' = {}
    /\ \/ out' = <<[m |-> "okay", f |-> f]>> /\ stored' = stored \cup {f}
       \/ out' = Failure(f) /\ stored' = stored \ {f}

DeviceReads ==
    /\ ~closed /\ out = <<>> /\ req # <<>>
    /\ req' = Tail(req)
    /\ LET r == Head(req) IN
       CASE recv = {} /\ r.m = "lstat" ->
               /\ out' = <<[m |-> IF r.f \in stored THEN "same" ELSE "other", f |-> r.f]>>
               /\ UNCHANGED <<recv, stored, closed>>
         [] recv = {} /\ r.m = "small" -> Finish(r.f) /\ UNCHANGED closed
         [] recv = {} /\ r.m = "send" ->
               recv' = {r.f} /\ stored' = stored \ {r.f} /\ UNCHANGED <<out, closed>>
         [] recv = {r.f} /\ r.m = "data" -> UNCHANGED <<out, recv, stored, closed>>
         [] recv = {r.f} /\ r.m = "done" -> Finish(r.f) /\ UNCHANGED closed
         [] OTHER ->
               /\ \E f \in IF recv = {} THEN {r.f} ELSE recv : out' = Failure(f)
               /\ UNCHANGED <<recv, stored, closed>>
    /\ UNCHANGED <<client, rep>>

\* After an unexpected request the connection is closed behind the failure.
Unexpected == out # <<>> /\ recv # {}

DeviceWrites ==
    /\ ~closed /\ out # <<>> /\ Len(rep) < ReplyRoom
    /\ rep' = Append(rep, Head(out))
    /\ out' = Tail(out)
    /\ closed' = (Unexpected /\ Len(out) = 1)
    /\ UNCHANGED <<client, req, recv, stored>>

\* The cable is pulled.
DeviceCloses ==
    /\ ~closed
    /\ closed' = TRUE
    /\ UNCHANGED <<client, req, rep, device>>

------------------------------------------------------------------------------
Client ==
    /\ \/ NextSource \/ SourceFails \/ SourcesEnd \/ AskStat \/ AskFails \/ FinishStat
       \/ SkipFile \/ FilesEnd \/ LocalFails \/ SendSmallFile \/ SendRequest \/ SendDone
       \/ LargeFails \/ AllRead \/ TryLater \/ ReadHeader \/ ReadFailure \/ ReadError
    /\ UNCHANGED job

Device == (DeviceReads \/ DeviceWrites) /\ UNCHANGED job

Next ==
    \/ Client
    \/ Device
    \/ (SendData \/ DeviceCloses) /\ UNCHANGED job

Spec == Init /\ [][Next]_vars

\* Client and device run whenever they can; a file ends (SendData, the only
\* step a client could repeat for ever, is none of Client), and nobody need
\* pull a cable.
FairSpec == Spec /\ SF_vars(Client) /\ WF_vars(Device)

------------------------------------------------------------------------------
(* Properties.                                                             *)

Ended == pc \in {"done", "exit", "fault"}

\* The sources of a call name no file twice (of two copies one may be stored and
\* the next refused).
NamedOnce ==
    \A j \in Jobs : \A i, k \in DOMAIN j.srcs :
        \A x \in DOMAIN j.srcs[i].files, y \in DOMAIN j.srcs[k].files :
            j.srcs[i].files[x] = j.srcs[k].files[y] => i = k /\ x = y

\* do_sync_push returns true only if the device has every file of every
\* source: no failure is lost among the deferred acknowledgements, whichever
\* call reads it.
SuccessIsStored == pc = "done" /\ success => FilesOf(Sources) \subseteq stored

\* A failure is reported for the file the device failed to store, although
\* only the order ties a reply to a file (under NamedOnce).  The exception is
\* a large file that SendLargeFile left halfway on a local error: the device
\* takes the next request for data, and its complaint is reported for the wrong
\* file.
FailureIsAttributed == recv = {} => reported \cap stored = {}

\* ReadAcknowledgements: "We need to read enough such that adbd's intermediate
\* socket's write buffer can't be full": a reply to a file always finds room.
\* (The answers to lstat need not: SendLstat is called for a whole directory
\* before the first is read.)
ReplyFits ==
    ~closed /\ out # <<>> /\ Head(out).m \in {"okay", "fail", "reason"} => Len(rep) < ReplyRoom

\* The client never waits on a full queue while the device waits on the other:
\* every push comes to its end.
PushEnds == <>Ended

\* FinishStat: "protocol fault: stat response has wrong message id" says that
\* the device sent something else.  With a device that answers every request
\* in order and stays connected the client gets there only after a failure in
\* an earlier source: one the device reported, which left acknowledgements
\* unread, or a local one in the middle of a large file.
FaultNeedsFailure == pc = "fault" => closed \/ ~success
==============================================================================
