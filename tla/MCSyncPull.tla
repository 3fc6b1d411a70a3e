----------------------------- MODULE MCSyncPull ------------------------------
(* Instances of SyncPull for TLC.                                           *)
EXTENDS SyncPull

\* A directory with a file, a fifo, a link to the file and one that leads
\* nowhere; one that holds a link to a directory, a subdirectory and a file;
\* one with a link back to itself; and one with nothing but a link to a
\* directory.
Names1 == [file |-> "file", pipe |-> "fifo", here |-> "link", gone |-> "link",
           flat |-> "dir", deep |-> "dir", to |-> "link", sub |-> "dir",
           ring |-> "dir", loop |-> "link", only |-> "dir"]
Entries1 == [flat |-> <<"file", "pipe", "here", "gone">>, deep |-> <<"sub", "to", "file">>,
             sub |-> <<"here">>, ring |-> <<"loop", "file">>,
             only |-> <<"to">>]
Target1 == [here |-> "file", gone |-> "nowhere", to |-> "sub", loop |-> "ring"]
SourceLists1 == {<<"flat">>, <<"deep">>, <<"ring">>, <<"here", "file">>, <<"gone", "pipe", "to">>,
                 <<"sub", "file">>, <<"sub", "only">>}
==============================================================================
