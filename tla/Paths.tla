------------------------------- MODULE Paths -------------------------------
(***************************************************************************)
(* File_Exists of kernel/files.cpp: the walk along a path through the two  *)
(* mounted file systems, FAT12 at C:\ and procfs at C:\procfs.             *)
(*                                                                         *)
(* An absolute path is the sequence of its components behind C:\.  A last  *)
(* component "" stands for a separator at the end.  An identifier of a     *)
(* file in its file system (a cluster, a process) is the path that leads   *)
(* to it; the root of each is <<>>.                                        *)
(***************************************************************************)
EXTENDS Integers, Once

Mount == <<"procfs">>

(* path::operator/= and path::parent_path.                                 *)
Joined(path, c) ==
  IF path # <<>> /\ Last(path) = "" THEN Append(Front(path), c) ELSE Append(path, c)
Parent(path) == IF path = <<>> THEN <<>> ELSE Front(path)
WithSeparator(path) == IF path = <<>> THEN <<>> ELSE Joined(path, "")

(* file_exists of Fat_Fs and of Proc_Fs: the identifiers of what is called *)
(* c in the folder fd, none or one.                                        *)
FatFileExists(tree, fd, c) ==
  IF c = "." THEN {fd}
  ELSE IF c = "" THEN {<<>>}
  ELSE {Append(fd, c)} \cap tree

ProcFileExists(pids, fd, c) ==
  IF fd # <<>> THEN {}
  ELSE IF c \in {"tasklist", "", "."} THEN {<<>>}
  ELSE {<<p>> : p \in {c} \cap pids}

(* The locals of the walk: current_path, current_fs_path and the stacks    *)
(* file_systems, paths_relative_to_fs, cluster_stack, and                  *)
(* components_in_current_fs.                                               *)
Start == [path |-> <<>>, rel |-> <<>>, fs |-> <<"fat">>, rels |-> <<>>,
          fds |-> << <<>> >>, n |-> 1, status |-> "found"]

(* Mutant of Up: the file system of the mount point is not taken back.     *)
UpStay(w) ==
  LET up == [w EXCEPT !.path = Parent(@), !.fds = Front(@), !.n = @ - 1]
  IN IF up.n > 0 THEN [up EXCEPT !.rel = Parent(@)]
     ELSE IF Len(w.fs) = 1 THEN [up EXCEPT !.status = "undefined"]
     ELSE [up EXCEPT !.rel = Last(w.rels), !.rels = Front(@), !.n = 1]

(* Mutant of Up: the file system is left one component too early.          *)
UpEarly(w) ==
  LET up == [w EXCEPT !.path = Parent(@), !.fds = Front(@), !.n = @ - 1]
  IN IF up.n > 1 THEN [up EXCEPT !.rel = Parent(@)]
     ELSE IF Len(w.fs) = 1 THEN [up EXCEPT !.status = "undefined"]
     ELSE [up EXCEPT !.fs = Front(@), !.rel = Last(w.rels), !.rels = Front(@), !.n = 1]

(* One level up.  The root path always has a root directory, so the count  *)
(* of components alone says when the file system has to be left; at the    *)
(* root of C:\ the last file system is popped and top() is undefined.      *)
Up(w) ==
  LET up == [w EXCEPT !.path = Parent(@), !.fds = Front(@), !.n = @ - 1]
  IN IF up.n > 0 THEN [up EXCEPT !.rel = Parent(@)]
     ELSE IF Len(w.fs) = 1 THEN [up EXCEPT !.status = "undefined"]
     ELSE [up EXCEPT !.fs = Front(@), !.rel = Last(w.rels), !.rels = Front(@), !.n = 1]

Mounted(w) ==
  [w EXCEPT !.path = Mount, !.rels = Append(@, w.rel), !.rel = <<>>,
            !.fs = Append(@, "proc"), !.fds = Append(@, <<>>), !.n = 1]

Down(tree, pids, w, c) ==
  LET found == IF Last(w.fs) = "fat" THEN FatFileExists(tree, Last(w.fds), c)
               ELSE ProcFileExists(pids, Last(w.fds), c)
  IN IF Joined(w.path, c) = Mount THEN Mounted(w)
     ELSE IF found = {} THEN [w EXCEPT !.status = "missing"]
     ELSE [w EXCEPT !.path = IF c = "." THEN WithSeparator(@) ELSE Joined(@, c),
                    !.rel = Joined(@, c),
                    !.fds = Append(@, CHOOSE fd \in found : TRUE),
                    !.n = IF c = "." THEN @ ELSE @ + 1]

(* One component of the path.                                              *)
Walked(tree, pids, w, c) ==
  IF w.status # "found" THEN w
  ELSE IF c = ".." THEN Up(w)
  ELSE Down(tree, pids, w, c)

(* The walk along an absolute path.  tree holds the paths of FAT12, pids   *)
(* the names that procfs has.  The status is found, missing or undefined.  *)
File_Exists(tree, pids, path) ==
  FoldOnce(LAMBDA w, c : Walked(tree, pids, w, c), Start, path)

-----------------------------------------------------------------------------
(* What the walk is for, said without its stacks: the folder that a path   *)
(* names.  Every folder on the way has to exist.  A path may lead above    *)
(* C:\ or nowhere; no folder is called .. or has no name.                  *)
Above == <<"..">>
Nowhere == <<"">>

Exists(tree, pids, p) ==
  p \in tree \cup {<<>>, Mount} \cup {Append(Mount, q) : q \in pids}

Resolved(tree, pids, p, c) ==
  IF p = Above \/ p = Nowhere \/ c \in {".", ""} THEN p
  ELSE IF c = ".." THEN (IF p = <<>> THEN Above ELSE Front(p))
  ELSE IF Exists(tree, pids, Append(p, c)) THEN Append(p, c) ELSE Nowhere

Resolve(tree, pids, path) ==
  FoldOnce(LAMBDA p, c : Resolved(tree, pids, p, c), <<>>, path)
=============================================================================
