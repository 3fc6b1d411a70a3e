----------------------------- MODULE MCSyncPush ------------------------------
(* Instances of SyncPush for TLC.                                           *)
EXTENDS SyncPush

CONSTANTS a, b, c, d

Folder(fs) == [dir |-> TRUE, files |-> fs]
Single(f)  == [dir |-> FALSE, files |-> <<f>>]

\* Directories and files in several orders, with the comparison and without.
Pushes ==
    {[srcs |-> <<Folder(<<a, b, c>>), Single(d)>>, sync |-> FALSE],
     [srcs |-> <<Single(d), Folder(<<a, b, c>>)>>, sync |-> TRUE],
     [srcs |-> <<Folder(<<a, b>>), Folder(<<c>>)>>, sync |-> TRUE]}
==============================================================================
