------------------------------- MODULE MCLoader -------------------------------
(***************************************************************************)
(* Two disks of different geometry. The root directory of "A" has a long   *)
(* name of two pieces with its short name, a directory and a file; that of *)
(* "B" a file of the same name in another slot.                            *)
(***************************************************************************)
EXTENDS Loader

File(name, at) == [kind |-> "file", name |-> name, n |-> 0, at |-> at]
Dir(name, at) == [kind |-> "dir", name |-> name, n |-> 0, at |-> at]
Long(name, n) == [kind |-> "long", name |-> name, n |-> n, at |-> "root"]

MCDevs == {"A", "B"}
MCGeometry == [v \in MCDevs |-> v]
MCNames == {"long", "piece", "short", "dir", "file", "other", "none"}
MCClusters == {"root", "sub", "d1", "d2", "d3"}

RootOf(v) ==
  IF v = "A" THEN <<Long("long", 2), Long("piece", 1), File("short", "d1"),
                    Dir("dir", "sub"), File("file", "d2")>>
             ELSE <<File("file", "d3"), Dir("dir", "sub")>>

SubOf(v) == <<File("other", "d1"), File("file", "d3")>>

MCDirs == [v \in MCDevs |-> [c \in MCClusters |-> IF c = "root" THEN RootOf(v) ELSE SubOf(v)]]

MCPaths == {<<"file">>, <<"dir", "file">>, <<"dir", "none">>, <<"none">>, <<"long">>, <<"file", "other">>, <<"none", "file">>}
\* A file is half a cluster of "A", which its buffer has room for, and a
\* quarter of one of "B", which it has not.
MCClusterSize == [v \in MCDevs |-> IF v = "A" THEN 4 ELSE 8]
MCSizes == 0 .. 2
MCWanted == {1, 4}
=============================================================================
