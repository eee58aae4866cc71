----------------------------- MODULE MCFileSys -----------------------------
(* A small disk for FileSys: a table for three inodes, four blocks, two    *)
(* processes; the disk has three or four inodes.                           *)
EXTENDS FileSys

O(op, path, mode, trunc, major) ==
  [op |-> op, path |-> path, mode |-> mode, trunc |-> trunc, major |-> major]

\* "f" is in the image; "d" is made a directory, "d/f" a file in it.
MCCalls ==
  << { O("mkdir", <<"/", "d">>, "r", FALSE, 0),
       O("unlink", <<"/", "d">>, "r", FALSE, 0),
       O("unlink", <<"f">>, "r", FALSE, 0),
       O("create", <<"/", "f">>, "rw", TRUE, 0),
       [op |-> "link", path |-> <<"/", "f">>, new |-> <<"d", "f">>],
       [op |-> "write", fd |-> 1, n |-> 6, good |-> 6],
       O("open", <<"/">>, "w", FALSE, 0),
       O("mkdir", <<"/">>, "r", FALSE, 0),
       [op |-> "close", fd |-> 1],
       [op |-> "fork"] },
     { [op |-> "write", fd |-> 1, n |-> 6, good |-> 5],
       O("create", <<"d", "f">>, "w", FALSE, 0),
       O("open", <<"f">>, "r", FALSE, 0),
       O("mknod", <<"c">>, "r", FALSE, 1),
       O("chdir", <<"/", "d">>, "r", FALSE, 0),
       O("chdir", <<"f">>, "r", FALSE, 0),
       O("unlink", <<"/", "f">>, "r", FALSE, 0),
       [op |-> "link", path |-> <<"/", "d">>, new |-> <<"c">>],
       [op |-> "read", fd |-> 1, n |-> 2],
       [op |-> "stat", fd |-> 1],
       [op |-> "dup", fd |-> 1],
       [op |-> "exit"] } >>

\* A file removed by one process while the other makes and removes a directory.
MCReuse ==
  << { O("unlink", <<"f">>, "r", FALSE, 0) },
     { O("mkdir", <<"/", "d">>, "r", FALSE, 0),
       O("unlink", <<"/", "d">>, "r", FALSE, 0) } >>
=============================================================================
