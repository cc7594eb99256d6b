------------------------------- MODULE FatInv -------------------------------
(***************************************************************************)
(* What the tables and the units of a disk stand for: a tree of entries.   *)
(* E leads from each path that exists to its entry, S to the chain of its  *)
(* clusters, and L to the names that a folder lists, in their order; the   *)
(* root folder has the path <<>>.                                          *)
(***************************************************************************)
EXTENDS Fat, FatCodec

Unit == {Blank, Label} \cup EntryType \cup {Dot(c) : c \in Areas} \cup {Datum(v) : v \in Data}

Width(a) == IF a = Root THEN RootSize ELSE Size

DiskType == {d \in [Areas -> Seq(Unit)] : \A a \in Areas : Len(d[a]) = Width(a)}

Distinct(s) == \A i, j \in DOMAIN s : s[i] = s[j] => i = j

(* The clusters of something that is in use: the root folder is an area.   *)
Shaped(s) ==
  \/ s = <<Root>>
  \/ s \in Seq(Clusters) /\ s # <<>> /\ Distinct(s)

(* The disk d after the write of unit k (from 0) of the clusters s.        *)
Put(d, s, k, u) ==
  LET width == Len(d[s[1]])
      c     == s[(k \div width) + 1]
  IN [d EXCEPT ![c] = [d[c] EXCEPT ![(k % width) + 1] = u]]

(* The disk d with the units s in area a.                                  *)
Paste(d, a, s) == [d EXCEPT ![a] = s]

(* F with the value v for x.                                               *)
With(F, x, v) == [y \in DOMAIN F \cup {x} |-> IF y = x THEN v ELSE F[y]]

(* Cluster c belongs to no path.                                           *)
Unused(S, c) == \A p \in DOMAIN S : c \notin ToSet(S[p])

(* The clusters s are allocated, each but the last leads to the next.      *)
IsChain(t, s) ==
  /\ s \in Seq(Clusters) /\ s # <<>> /\ Distinct(s)
  /\ \A i \in 1 .. Len(s) - 1 : t[s[i]] = s[i + 1]
  /\ t[s[Len(s)]] = EOC

(* E, S and L are a tree: what a folder lists lies below it, and no more.  *)
IsTree(E, S, L) ==
  /\ DOMAIN E \subseteq Paths \cup {<<>>} /\ DOMAIN S = DOMAIN E /\ DOMAIN L = DOMAIN E
  /\ <<>> \in DOMAIN E /\ E[<<>>] = RootEntry /\ S[<<>>] = <<Root>>
  /\ \A p \in DOMAIN E \ {<<>>} :
       E[p] \in EntryType /\ E[p].name = Last(p) /\ Front(p) \in DOMAIN E
  /\ \A p \in DOMAIN E :
       /\ E[p].first = S[p][1]
       /\ L[p] \in Seq(Names) /\ Distinct(L[p]) /\ (~E[p].dir => L[p] = <<>>)
       /\ \A n \in Names : Append(p, n) \in DOMAIN E <=> n \in ToSet(L[p])

(* Each path has a chain of its own.                                       *)
ChainsApart(t, E, S) ==
  \A p \in DOMAIN E \ {<<>>} :
    /\ IsChain(t, S[p])
    /\ \A q \in DOMAIN E \ {p, <<>>} : ToSet(S[p]) \cap ToSet(S[q]) = {}

Headed(d, s) == \A k \in 1 .. Header(s[1]) : Units(d, s)[k] # Blank

(* The folder p holds its header, which md writes last, then the entries   *)
(* of what it lists, and then blank units.                                 *)
FolderHolds(d, E, S, L, p) ==
  LET U   == Units(d, S[p])
      top == Header(S[p][1])
      m   == Len(L[p])
  IN /\ top + m <= Len(U)
     /\ \A k \in 1 .. top : U[k].kind # "entry"
     /\ Headed(d, S[p]) \/ (m = 0 /\ \A k \in 1 .. top : U[k] = Blank)
     /\ \A k \in 1 .. m : U[top + k] = E[Append(p, L[p][k])]
     /\ \A k \in top + m + 1 .. Len(U) : U[k] = Blank

(* Cluster c holds a piece of a file or nothing.                           *)
NoEntries(d, c) == \A j \in 1 .. Size : d[c][j].kind \in {"blank", "data"}

Holds(d, E, S, L) ==
  \A p \in DOMAIN E :
    IF E[p].dir THEN FolderHolds(d, E, S, L, p)
    ELSE \A c \in ToSet(S[p]) : NoEntries(d, c)

(* The table t and the disk d stand for the tree.                          *)
Represents(t, d, E, S, L) ==
  IsTree(E, S, L) /\ ChainsApart(t, E, S) /\ Holds(d, E, S, L)

AllHeaded(d, E, S) == \A p \in DOMAIN E : E[p].dir => Headed(d, S[p])

FreeBlank(t, d) == \A c \in FreeIn(t) : d[c] = BlankCluster

(***************************************************************************)
(* The writes of an operation, in their order.                             *)
(***************************************************************************)

Written(a) == {s \in Seq(Unit) : Len(s) = Width(a)}

WriteType ==
  [at : {Table}, what : TableType]
    \cup UNION {[at : {a}, what : Written(a)] : a \in Areas}

(* What place a holds after the first n writes of w, if it held `before`.  *)
WritesTo(w, n, a) == {i \in 1 .. n : w[i].at = a}

Latest(w, n, a, before) ==
  IF WritesTo(w, n, a) = {} THEN before ELSE w[Max(WritesTo(w, n, a))].what

TableAfter(t, w, n) == Latest(w, n, Table, t)
DiskAfter(d, w, n)  == [a \in Areas |-> Latest(w, n, a, d[a])]

(* No write of a program is longer than one unit more than a cluster: a    *)
(* file never needs two new clusters at once beyond the one at its edge.   *)
SmallWrites == \A n \in Sizes : n <= Size + 1

SizesFit(E, S) ==
  \A p \in DOMAIN E : ~E[p].dir => E[p].size <= Size * Len(S[p])

Sound(t, d, E, S, L) ==
  Represents(t, d, E, S, L) /\ (SmallWrites => SizesFit(E, S))

(* What holds at every write of operation op: outside of rmdir the table   *)
(* and the folders stand for a tree, and outside of write a free cluster   *)
(* is blank.                                                               *)
Midway(op, t, d) ==
  /\ op # "rmdir" => \E E, S, L : /\ Sound(t, d, E, S, L)
                                  /\ op \in {"idle", "create_file"} => AllHeaded(d, E, S)
  /\ op # "write" => FreeBlank(t, d)

(* The writes w of op lead from t and d to u and e, midway at every write. *)
Goes(op, t, d, w, u, e) ==
  /\ w \in Seq(WriteType)
  /\ \A n \in 0 .. Len(w) : Midway(op, TableAfter(t, w, n), DiskAfter(d, w, n))
  /\ TableAfter(t, w, Len(w)) = u
  /\ DiskAfter(d, w, Len(w)) = e

(* Every cluster that is not free belongs to a path.                       *)
AllOwned(t, S) ==
  \A c \in Clusters : t[c] # Free => \E p \in DOMAIN S \ {<<>>} : c \in ToSet(S[p])

(* What holds between the operations.                                      *)
Settles(t, d, E, S, L) ==
  Sound(t, d, E, S, L) /\ AllHeaded(d, E, S) /\ FreeBlank(t, d)

(***************************************************************************)
(* The invariant.                                                          *)
(***************************************************************************)

Operations == {"idle", "create_file", "create_folder", "rmdir", "write"}

HandleType ==
  {Closed, Spoiled}
    \cup [kind : {"open"}, path : Paths, first : Clusters, size : Nat, position : Nat]

(* There is one open file at most at a time.                               *)
OneHandle == \A g, h \in Handles : g = h

(* The open handles lead to files of the tree, and know their sizes if no  *)
(* write but their own, at the end of the file, can change them.           *)
HandlesFit(H, E) ==
  \A h \in Handles : H[h].kind = "open" =>
    /\ H[h].path \in DOMAIN E /\ ~E[H[h].path].dir /\ E[H[h].path].first = H[h].first
    /\ AppendOnly /\ OneHandle => E[H[h].path].size = H[h].size

(* A table and a disk between two operations, with the open files H and    *)
(* after n crashes.                                                        *)
Leads(t, d, H, n) ==
  \E E, S, L : /\ Settles(t, d, E, S, L) /\ HandlesFit(H, E)
               /\ SmallWrites /\ n = 0 => AllOwned(t, S)

Typed ==
  /\ fat \in TableType /\ saved \in TableType /\ disk \in DiskType
  /\ pending \in Seq(WriteType) /\ doing \in Operations
  /\ handles \in [Handles -> HandleType]
  /\ crashes \in 0 .. MaxCrashes /\ torn \in BOOLEAN

(* An operation runs as long as it has something to write.                 *)
Phased ==
  /\ doing = "idle" <=> pending = <<>> /\ ~torn
  /\ torn => doing # "create_file" /\ pending = <<>>

(* The disk once the running operation is through.                         *)
Future == DiskAfter(disk, pending, Len(pending))

(* The machine stopped in the middle of an operation, and booted.          *)
Stopped == saved = fat /\ Midway(doing, saved, disk)

(* What is still to be written leads from the disk as it is to the table   *)
(* in memory and to a disk that, with it, stands for a tree.               *)
Running ==
  /\ Goes(doing, saved, disk, pending, fat, Future)
  /\ Leads(fat, Future, handles, crashes)

IInv == Typed /\ Phased /\ (torn => Stopped) /\ (~torn => Running)

(* A file that is open stays in its folder, as a file, and begins at the   *)
(* cluster that its handle remembers, also when others write to it and     *)
(* wherever in the file they write.                                        *)
OpenFilesStay ==
  doing = "idle" =>
    \A h \in Handles : handles[h].kind = "open" =>
      /\ Lookup(fat, disk, handles[h].path) # Missing
      /\ ~Lookup(fat, disk, handles[h].path).dir
      /\ Lookup(fat, disk, handles[h].path).first = handles[h].first

(* The tree that the look-ups read in a table and on a disk.              *)
EntriesOf(t, d)  == [p \in Found(t, d) \cup {<<>>} |-> Lookup(t, d, p)]
ChainsOf(t, E)   == [p \in DOMAIN E |-> Chain(t, E[p].first)]
ListsOf(d, E, S) ==
  [p \in DOMAIN E |->
     IF ~E[p].dir THEN <<>>
     ELSE The({[i \in DOMAIN items |-> items[i].name] : items \in {ItemsIn(d, S[p])}})]

StandsFor(op, t, d) ==
  \E E \in {EntriesOf(t, d)} : \E S \in {ChainsOf(t, E)} : \E L \in {ListsOf(d, E, S)} :
    /\ Sound(t, d, E, S, L)
    /\ op \in {"idle", "create_file"} => AllHeaded(d, E, S)

(* At every write and after every crash, rmdir apart, the table and the    *)
(* folders on the disk are a tree without a flaw: each folder lists what   *)
(* lies below it, once each, and blank units follow; each item has a chain *)
(* of its own; and a folder that is listed has its header, unless md was   *)
(* stopped before it wrote it.  What the running operation still has to    *)
(* write leads to such a tree with the table in memory.                    *)
DiskIsTree ==
  /\ doing # "rmdir" => StandsFor(doing, saved, disk)
  /\ pending # <<>> => \E future \in {Future} : StandsFor("idle", fat, future)

(* The table that the next boot reads from the bytes is the one the kernel *)
(* looks clusters up in: two entries that share a byte do not disturb each *)
(* other.                                                                  *)
TableReadsBack ==
  \E bytes \in {Bytes(fat, Max(Clusters) \div 2 + 1)} :
    \A c \in Clusters : convert_fat_table_to_dec(bytes, c) = fat[c]
=============================================================================
