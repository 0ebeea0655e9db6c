-------------------------------- MODULE Loader --------------------------------
(***************************************************************************)
(* The callers that read a file until they have enough of it: the loop of  *)
(* the shell that loads a program (shellFile.c), and fread (stdio.c). Both *)
(* call VFS_Read again and again, and what that returns is not a number of *)
(* bytes but the truth value of FAT_ReadFile, or -1. A read takes the      *)
(* whole file, cluster by cluster, whatever was asked for. Its node keeps  *)
(* the path as the last call put it back, or what was left there of it.    *)
(***************************************************************************)
EXTENDS Fat

CONSTANTS FileSize,    \* the size of a file, rounded up to sectors
          ClusterSize, \* the size of a cluster of each disk
          Sizes,       \* bound: what an unset size may hold
          Wanted,      \* the bytes fread is asked for
          Word         \* 2^32: fread counts in size_t

ASSUME LoaderAssumption ==
  /\ FileSize \in Nat \ {0} /\ {0, FileSize} \subseteq Sizes /\ Sizes \subseteq 0 .. Word - 1
  /\ ClusterSize \in [Devs -> Nat \ {0}]
  /\ Word \in Nat \ {0} /\ Wanted \subseteq 1 .. Word - 1

VARIABLES
  user,               \* "none", or who waits for the file system: "open", "load", "fread"
  node,               \* the node of the file: its path, or <<>> for a name that is no
                      \* absolute path, and its size
  bytes,              \* bytesRead of the shell, bytes_to_read of fread
  held                \* the file whose first cluster the last read put into the buffer
                      \* (the chain of the others is not what the disk says), or NULL

callers == <<user, node, bytes, held>>
vars == <<fatvars, callers>>

NoNode == [dev |-> NULL, name |-> <<>>, size |-> 0]

Init == FatInit /\ user = "none" /\ node = NoNode /\ bytes = 0 /\ held = NULL

\* The rest of the system runs, and mounts, only when no call is under way.
Rest ==
  /\ user = "none"
  /\ HeapChanges \/ \E d \in Devs : Mount(d)
  /\ UNCHANGED callers

-----------------------------------------------------------------------------
(* VFS_Open: vfs_findDir does not mind an entry that is not found, and      *)
(* copies the name from where FAT_FindEntry has put the path back.          *)

Open(d, p) ==
  /\ user = "none"
  /\ Begin("find", d, p)
  /\ user' = "open" /\ node' = NoNode /\ bytes' = 0 /\ held' = NULL

ToldSize(a) ==
  IF a.found /\ a.slot # Junk THEN {IF a.slot.kind = "file" THEN FileSize ELSE 0} ELSE Sizes

\* The path is put back from copyPath. A slot that was read over that is no
\* absolute path; anything else may be one, or may be empty.
CopyIsJunk == copy = "overwritten" /\ entries[1] = Junk

PutBack ==
  IF copy # "overwritten" THEN {path} ELSE IF CopyIsJunk THEN Paths \cup {<<>>} ELSE {<<>>}

\* A find that failed has left parts of the path to strtok: vfs_resolve_path
\* takes them for further parts of its own, and the node has their name.
LeftOver == ~answer.found /\ segment + (IF entry = 0 THEN 0 ELSE 1) < Len(path)

Opened ==
  /\ user = "open"
  /\ \/ \E size \in ToldSize(answer), name \in IF LeftOver THEN {<<>>} ELSE PutBack :
          node' = [dev |-> dev, name |-> name, size |-> size]
     \/ CopyIsJunk /\ node' = NoNode
  /\ user' = "none"
  /\ Return /\ UNCHANGED <<bytes, held>>

-----------------------------------------------------------------------------
(* The reads *)

\* VFS_Read of the node. Only absolute paths are looked up.
ReadAgain ==
  \/ node.name # <<>> /\ Begin("read", node.dev, node.name)
  \/ /\ node.name = <<>> /\ Idle
     /\ call' = "read" /\ dev' = node.dev /\ path' = <<>>
     /\ step' = "done" /\ answer' = NoAnswer
     /\ UNCHANGED <<disk, ahead, segment, i, entry, copy, mode>>

NameAfterRead == node' \in {[node EXCEPT !.name = name] : name \in PutBack}

\* FAT_ReadClusters writes whole clusters. The shell has made room for twice
\* the sectors of the file, fread's caller for the bytes not yet counted.
Written(d) == ((FileSize + ClusterSize[d] - 1) \div ClusterSize[d]) * ClusterSize[d]

MutFits == Written(node.dev) <= 4 * node.size
Fits == Written(node.dev) <= node.size + node.size

PastBuffer ==
  /\ user \in {"load", "fread"} /\ answer.found
  /\ \/ answer.slot = Junk
     \/ user = "load" /\ ~Fits
     \/ user = "fread" /\ Written(dev) > bytes

\* What lies behind the buffer, or behind the name, is overwritten, unless it
\* is not in use.
WriteTooFar ==
  /\ Running /\ step = "done"
  /\ PastBuffer \/ CopyIsJunk
  /\ mode' = "lost"
  /\ UNCHANGED <<disk, ahead, args, place, copy, answer, callers>>

-----------------------------------------------------------------------------
(* The loops *)

StartLoad ==
  /\ user = "none" /\ Idle /\ node # NoNode
  /\ user' = "load" /\ bytes' = 0 /\ held' = NULL
  /\ UNCHANGED <<fatvars, node>>

LoadMore ==
  /\ user = "load" /\ bytes < node.size
  /\ ReadAgain
  /\ UNCHANGED callers

\* The 512 asked for play no part; the file is read from its beginning.
MutAnswered(found) == IF found THEN 0 ELSE 1
Answered(found) == IF found THEN 1 ELSE 0

LoadedMore ==
  /\ user = "load"
  /\ bytes' = bytes + Answered(answer.found)
  /\ held' = IF answer.found THEN answer.slot ELSE held
  /\ NameAfterRead
  /\ Return /\ UNCHANGED user

EndLoad ==
  /\ user = "load" /\ Idle /\ bytes >= node.size
  /\ user' = "none" /\ bytes' = 0
  /\ UNCHANGED <<fatvars, node, held>>

\* fread. Its descriptor may as well be a bad one.
StartFread(n) ==
  /\ user = "none" /\ Idle
  /\ user' \in {"bad fread"} \cup {u \in {"fread"} : node # NoNode}
  /\ bytes' = n /\ held' = NULL
  /\ UNCHANGED <<fatvars, node>>

FreadMore ==
  /\ user = "fread" /\ bytes > 0
  /\ ReadAgain
  /\ UNCHANGED callers

\* The answer is unsigned, so that -1 is no error but one byte less.
MutWrap(n) == n
Wrap(n) == n % Word

MutLess(n, answered) == IF answered = 0 THEN n ELSE Wrap(n - answered)
Less(n, answered) == IF answered = 0 THEN 0 ELSE Wrap(n - answered)

FreadReturned ==
  /\ user = "fread"
  /\ bytes' = Less(bytes, Answered(answer.found))
  /\ held' = IF answer.found THEN answer.slot ELSE held
  /\ NameAfterRead
  /\ Return /\ UNCHANGED user

BadFread ==
  /\ user = "bad fread" /\ Idle /\ bytes > 0
  /\ bytes' = Less(bytes, -1)
  /\ UNCHANGED <<fatvars, user, node, held>>

EndFread ==
  /\ user \in {"fread", "bad fread"} /\ Idle /\ bytes = 0
  /\ user' = "none"
  /\ UNCHANGED <<fatvars, node, bytes, held>>

-----------------------------------------------------------------------------

Work ==
  \/ Lookup /\ UNCHANGED callers
  \/ Opened \/ WriteTooFar \/ LoadMore \/ LoadedMore \/ EndLoad
  \/ FreadMore \/ FreadReturned \/ BadFread \/ EndFread

Next ==
  \/ Work \/ Rest
  \/ \E d \in Devs, p \in Paths : Open(d, p)
  \/ StartLoad
  \/ \E n \in Wanted : StartFread(n)

\* The processor goes on with what it is doing.
Spec == Init /\ [][Next]_vars /\ WF_vars(Work)

-----------------------------------------------------------------------------
(* Properties *)

\* Every variable has its type.
TypeOK ==
  /\ FatTypeOK
  /\ user \in {"none", "open", "load", "fread", "bad fread"}
  /\ node \in [dev : Devs \cup {NULL}, name : Seq(Names), size : Sizes]
  /\ bytes \in 0 .. Word - 1
  /\ held \in Slot \cup {Junk, NULL}

FilesOf(slots, name, kind) ==
  {slots[k] : k \in {l \in 1 .. Len(slots) : Visible(slots, name, l) /\ slots[l].kind = kind}}

\* No more slots of a directory than the root directory has.
Reached(slots, root) == SubSeq(slots, 1, IF Len(slots) < Len(root) THEN Len(slots) ELSE Len(root))

\* The files a path of one or two parts leads to, one at most.
FilesAt(d, p) ==
  LET root == Dirs[d][Root]
  IN  IF d = NULL THEN {}
      ELSE IF Len(p) = 1 THEN FilesOf(root, p[1], "file")
      ELSE IF Len(p) = 2
      THEN UNION {FilesOf(Reached(Dirs[d][s.at], root), p[2], "file") : s \in FilesOf(root, p[1], "dir")}
      ELSE {}

\* The shell's loop ends, with the first cluster of the file in its buffer, if
\* the heap has a free block in front of the directory's buffer, FatData fits
\* the disk, the clusters of the file fit the buffer, and the open gave the node
\* a size and its path. (It need not end for any other node: a read that fails
\* adds nothing to the count. And it may overwrite the memory behind a buffer
\* the clusters do not fit.)
LoadEnds ==
  (/\ user = "load" /\ node.name # <<>> /\ node.size > 0
   /\ ahead # "none" /\ owner # NULL /\ Geometry[owner] = Geometry[node.dev]
   /\ Geometry[bs] = Geometry[node.dev]
   /\ FilesAt(node.dev, node.name) # {} /\ Fits)
  ~> (user = "none" /\ held \in FilesAt(node.dev, node.name))

\* fread ends whatever it is answered, and if it takes every number of a word.
FreadEnds == (user \in {"fread", "bad fread"}) ~> (user = "none" \/ mode = "lost")
=============================================================================
