------------------------------ MODULE FileTree ------------------------------
(* What a file system promises: a tree of folders and files.  A file grows *)
(* at its end, a name is removed only when nothing lies below it, and an   *)
(* operation that finds the disk full leaves every other file alone.       *)
EXTENDS Naturals, Sequences, SequencesExt

CONSTANT Data   (* what a unit of a file holds *)

VARIABLE tree   (* from the paths that exist to what lies there            *)

Folder    == [dir |-> TRUE, data |-> <<>>]
File(s)   == [dir |-> FALSE, data |-> s]

IsFolder(p) == p = <<>> \/ (p \in DOMAIN tree /\ tree[p].dir)

(* The tree after `what` was put at path p.                                *)
With(p, what) ==
  [q \in DOMAIN tree \cup {p} |-> IF q = p THEN what ELSE tree[q]]

Init == tree = [p \in {} |-> Folder]

Create(p, what) ==
  /\ what \in {Folder, File(<<>>)}
  /\ p \notin DOMAIN tree
  /\ IsFolder(Front(p))
  /\ tree' = With(p, what)

(* A write of n copies of d at the end of a file; when the disk gets full, *)
(* fewer.                                                                  *)
Grow(p, d, n) ==
  /\ p \in DOMAIN tree
  /\ ~tree[p].dir
  /\ tree' = With(p, File(tree[p].data \o [i \in 1 .. n |-> d]))

Delete(p) ==
  /\ p \in DOMAIN tree
  /\ \A q \in DOMAIN tree : ~IsStrictPrefix(p, q)
  /\ tree' = [q \in DOMAIN tree \ {p} |-> tree[q]]

Next ==
  /\ tree' # tree
  /\ \/ \E p \in DOMAIN tree' \ DOMAIN tree : Create(p, tree'[p])
     \/ \E p \in DOMAIN tree \ DOMAIN tree' : Delete(p)
     \/ \E p \in DOMAIN tree \cap DOMAIN tree' :
          \E d \in Data, n \in 1 .. Len(tree'[p].data) : Grow(p, d, n)

Spec == Init /\ [][Next]_tree
=============================================================================
