--------------------------- MODULE InstallSessions ---------------------------
(***************************************************************************)
(* install_multi_package and install_multiple_app_streamed                 *)
(* (adb_install.cpp): packages are streamed into sessions of the device's  *)
(* package manager, and the sessions committed together or abandoned.      *)
(*                                                                         *)
(* Every step is a command on a connection of its own.  The connection may *)
(* not come about; the device may refuse; it may do what it was asked and  *)
(* the answer be lost, which read_status_line cannot tell from a refusal.  *)
(* Session 0 is the parent, session i that of the i-th package; in         *)
(* install-multiple all files go into one session, number 0.               *)
(*                                                                         *)
(* The names of the specification are this module's own, so that a module  *)
(* may extend it together with HostClient's.                               *)
(***************************************************************************)
EXTENDS Naturals

CONSTANTS
    Packages,   \* number of packages of an install-multi-package
    Splits      \* files of each package, or of the install-multiple

ASSUME InstallAssumption == Packages \in Nat \ {0} /\ Splits \in Nat \ {0}

Sessions == 0..Packages

VARIABLES
    multi,    \* the command: install-multi-package, otherwise install-multiple
    step,     \* "parent", "child", "write", "finalize", "abandon", "ok", "failed"
    at,       \* the package at hand
    split,    \* files of it that are written
    known,    \* session_ids and parent_session_id: the sessions the client knows of
    complete, \* success: everything was streamed and linked
    todo,     \* sessions the last loop has still to abandon
    state,    \* the device: state of each session,
    written,  \* files in it,
    linked,   \* children added to the parent
    lost      \* history: a connection failed, or an answer was lost

deviceVars == <<state, written, linked>>
installVars == <<multi, step, at, split, known, complete, todo, state, written, linked, lost>>

\* The children the parent session is meant to have.
Children == IF multi THEN 1..Packages ELSE {}

\* Shape of the state.
InstallTypeOK ==
    /\ multi \in BOOLEAN /\ lost \in BOOLEAN
    /\ step \in {"parent", "child", "write", "finalize", "abandon", "ok", "failed"}
    /\ at \in 1..(Packages + 1)
    /\ split \in 0..Splits
    /\ known \subseteq Sessions
    /\ complete \in BOOLEAN
    /\ todo \subseteq known
    /\ state \in [Sessions -> {"none", "open", "committed", "abandoned"}]
    /\ written \in [Sessions -> 0..Splits]
    /\ linked \subseteq Children

InstallInit ==
    /\ multi \in BOOLEAN /\ lost = FALSE
    /\ step = "parent" /\ at = 1 /\ split = 0 /\ known = {} /\ complete = FALSE /\ todo = {}
    /\ state = [s \in Sessions |-> "none"]
    /\ written = [s \in Sessions |-> 0]
    /\ linked = {}

------------------------------------------------------------------------------
(* The device's package manager (external).                                *)

\* install-create, install-write, install-add-session.
CreateSession(s) ==
    /\ state' = [state EXCEPT ![s] = "open"]
    /\ UNCHANGED <<written, linked>>

WriteSession(s) ==
    /\ written' = [written EXCEPT ![s] = split + 1]
    /\ UNCHANGED <<state, linked>>

AddSessions ==
    /\ linked' = Children
    /\ UNCHANGED <<state, written>>

\* install-commit and install-abandon of the parent take the linked children
\* along; a session that is not open is left alone.
EndSession(s, end) ==
    /\ state' = [r \in Sessions |->
                    IF (r = s \/ (s = 0 /\ r \in linked)) /\ state[s] = "open" /\ state[r] = "open"
                    THEN end ELSE state[r]]
    /\ UNCHANGED <<written, linked>>

\* read_status_line has "Success": the command was carried out.
Answered(effect) == effect /\ UNCHANGED lost

\* It has not: a local file could not be read or the device refused; or the
\* connection failed, before the command was carried out or after.
Unanswered(effect) ==
    \/ UNCHANGED <<deviceVars, lost>>
    \/ (UNCHANGED deviceVars \/ effect) /\ lost' = TRUE

\* send_command returned no descriptor.
NotConnected == UNCHANGED deviceVars /\ lost' = TRUE

------------------------------------------------------------------------------
(* The client.                                                             *)

\* The session the files of the package at hand go into.
Current == IF multi THEN at ELSE 0

\* Create the parent session; without it there is nothing to clean up.
CreateParent ==
    /\ step = "parent"
    /\ \/ /\ Answered(CreateSession(0))
          /\ known' = {0}
          /\ step' = IF multi THEN "child" ELSE "write"
       \/ /\ Unanswered(CreateSession(0))
          /\ step' = "failed" /\ UNCHANGED known
    /\ UNCHANGED <<multi, at, split, complete, todo>>

\* A mistake: the id is noted only when the package is complete.
CreateChildUnnoted ==
    /\ step = "child" /\ at <= Packages
    /\ \/ /\ Answered(CreateSession(at))
          /\ split' = 0 /\ step' = "write"
       \/ /\ Unanswered(CreateSession(at))
          /\ step' = "finalize" /\ UNCHANGED split
    /\ UNCHANGED <<multi, at, known, complete, todo>>

\* Create the session of the next package.
CreateChild ==
    /\ step = "child" /\ at <= Packages
    /\ \/ /\ Answered(CreateSession(at))
          /\ known' = known \cup {at}
          /\ split' = 0 /\ step' = "write"
       \/ /\ Unanswered(CreateSession(at))
          /\ step' = "finalize" /\ UNCHANGED <<known, split>>
    /\ UNCHANGED <<multi, at, complete, todo>>

\* A mistake: a file that cannot be read is passed over.
WriteSplitLenient ==
    /\ step = "write" /\ split < Splits
    /\ Answered(WriteSession(Current)) \/ Unanswered(WriteSession(Current))
    /\ split' = split + 1
    /\ UNCHANGED <<multi, step, at, known, complete, todo>>

\* stat and open the file, stream it, read the status.
WriteSplit ==
    /\ step = "write" /\ split < Splits
    /\ \/ Answered(WriteSession(Current)) /\ split' = split + 1 /\ UNCHANGED step
       \/ Unanswered(WriteSession(Current)) /\ step' = "finalize" /\ UNCHANGED split
    /\ UNCHANGED <<multi, at, known, complete, todo>>

\* All files of the package are there.
PackageDone ==
    /\ step = "write" /\ split = Splits
    /\ IF multi THEN at' = at + 1 /\ step' = "child" /\ UNCHANGED complete
                ELSE step' = "finalize" /\ complete' = TRUE /\ UNCHANGED at
    /\ UNCHANGED <<multi, split, known, todo, deviceVars, lost>>

\* install-add-session, once every package has its session.
LinkSessions ==
    /\ step = "child" /\ at > Packages
    /\ \/ Answered(AddSessions) /\ complete' = TRUE
       \/ Unanswered(AddSessions) /\ UNCHANGED complete
    /\ step' = "finalize"
    /\ UNCHANGED <<multi, at, split, known, todo>>

\* Where the client goes once the parent is dealt with: the abandon loop over
\* all sessions, which only install-multi-package has.
Cleanup == IF multi THEN step' = "abandon" /\ todo' = known
                    ELSE step' = "failed" /\ UNCHANGED todo

\* A mistake: "Success" is taken for an installation, whichever command it answers.
FinalizeBlind ==
    /\ step = "finalize"
    /\ \/ Answered(EndSession(0, IF complete THEN "committed" ELSE "abandoned")) /\ step' = "ok" /\ UNCHANGED todo
       \/ Unanswered(EndSession(0, "committed")) /\ complete /\ Cleanup
    /\ UNCHANGED <<multi, at, split, known, complete>>

\* The parent is committed.  A connection that fails ends the install here,
\* any other failure goes on to the sessions one by one.
Commit ==
    /\ complete
    /\ \/ Answered(EndSession(0, "committed")) /\ step' = "ok" /\ UNCHANGED todo
       \/ Unanswered(EndSession(0, "committed")) /\ Cleanup
       \/ Answered(EndSession(0, "abandoned")) /\ Cleanup  \* the packages were found bad
       \/ NotConnected /\ step' = "failed" /\ UNCHANGED todo

\* The parent is abandoned, and the install fails in any case: the answer is
\* not looked at.  A device that can be reached abandons an open session.
AbandonParent ==
    /\ ~complete
    /\ \/ Answered(EndSession(0, "abandoned")) /\ Cleanup
       \/ NotConnected /\ Cleanup  \* it broke after the command was sent
       \/ NotConnected /\ step' = "failed" /\ UNCHANGED todo

Finalize ==
    /\ step = "finalize"
    /\ Commit \/ AbandonParent
    /\ UNCHANGED <<multi, at, split, known, complete>>

\* The loop: the children in order, then the parent once more.  A session
\* that cannot be reached is left behind.
AbandonSession ==
    /\ step = "abandon"
    /\ \E s \in todo :
        /\ \A r \in todo \ {0, s} : s # 0 /\ s < r
        /\ todo' = todo \ {s}
        /\ Answered(EndSession(s, "abandoned")) \/ NotConnected
    /\ UNCHANGED <<multi, step, at, split, known, complete>>

AbandonDone ==
    /\ step = "abandon" /\ todo = {}
    /\ step' = "failed"
    /\ UNCHANGED <<multi, at, split, known, complete, todo, deviceVars, lost>>

InstallNext ==
    \/ CreateParent \/ CreateChild \/ WriteSplit \/ PackageDone \/ LinkSessions
    \/ Finalize \/ AbandonSession \/ AbandonDone

InstallSpec == InstallInit /\ [][InstallNext]_installVars

------------------------------------------------------------------------------
(* Properties.                                                             *)

\* The sessions that files go into.
Packed == IF multi THEN Children ELSE {0}

\* Installed packages are whole and come together: once the parent session is
\* committed every child is, with all its files, and no child is committed
\* without it, whatever failed, was refused or was lost on the way
\* (install_multi_package, install_multiple_app_streamed).
CommitIsWhole ==
    /\ \A c \in Children : state[c] = "committed" <=> state[0] = "committed"
    /\ state[0] = "committed" =>
          \A s \in Packed : written[s] = Splits

\* A zero exit status means that the packages are installed: "Success" in
\* answer to install-abandon is not one.
SuccessIsInstalled == step = "ok" => state[0] = "committed"

\* A failed install-multi-package leaves no session open on a device that
\* can be reached: the loop after the commit abandons the children that
\* install-add-session had not yet tied to the parent.
NothingLeftOpen ==
    multi /\ ~lost /\ step = "failed" => \A s \in Sessions : state[s] # "open"
==============================================================================
