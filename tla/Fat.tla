-------------------------------- MODULE Fat --------------------------------
(***************************************************************************)
(* kernel/fat_fs.cpp, fat_fs_utils.cpp and fs_file.cpp: the FAT12 file     *)
(* system on the disk image, and the open files of programs on top of it.  *)
(*                                                                         *)
(* The disk is cut into clusters and a cluster into units of 32 bytes: a   *)
(* unit holds one entry of a folder or a piece of a file.  Sizes, offsets  *)
(* and positions are counted in units.  The root folder has an area of its *)
(* own.  The tables first_fat_table_dec and first_fat_table_hex hold the   *)
(* same numbers in two formats and change together: they are `fat`.  What  *)
(* save_fat_tables wrote last is `saved`.                                  *)
(*                                                                         *)
(* An operation reads what it needs, changes the table in memory and then  *)
(* writes to the disk in the order of `pending`, one write_data_to_fat_fs  *)
(* per step; the machine may stop between two of them.  Operations do not  *)
(* overlap: the model gives each the file system for itself.               *)
(***************************************************************************)
EXTENDS Naturals, Sequences, FiniteSets, FiniteSetsExt, SequencesExt

CONSTANTS
  Clusters,    (* numbers of the data clusters                             *)
  Names,       (* names of files and folders                               *)
  Data,        (* what programs write into a unit of a file                *)
  Handles,     (* the open files of programs                               *)
  Size,        (* units of a cluster (16 in the code)                      *)
  RootSize,    (* units of the root folder (224 in the code)               *)
  Depth,       (* bound on the length of a path                            *)
  MaxFile,     (* bound on the size of a file                              *)
  Sizes,       (* the sizes of the reads and writes of programs             *)
  AppendOnly,  (* whether programs write at the end of a file only         *)
  MaxCrashes   (* bound on the number of crashes                           *)

Free  == 0     (* a free cluster in the tables                             *)
EOC   == 4095  (* the last cluster of a chain                              *)
Root  == 0     (* the root folder: 19 in the code, 0 in its entries        *)
Table == 1     (* where save_fat_tables writes                             *)

ASSUME FatAssumption ==
  /\ Clusters \subseteq 2 .. 2847
  /\ Clusters # {}
  /\ Size \in Nat /\ Size > 2
  /\ RootSize \in Nat /\ RootSize > 1
  /\ {Depth, MaxFile, MaxCrashes} \subseteq Nat
  /\ Sizes \subseteq Nat \ {0}
  /\ AppendOnly \in BOOLEAN

VARIABLES
  fat,       (* the table in memory: the next cluster, Free or EOC         *)
  saved,     (* the table on the disk                                      *)
  disk,      (* the units of every cluster and of the root folder          *)
  pending,   (* what the running operation still has to write, in order    *)
  doing,     (* the running operation                                      *)
  handles,   (* the open files: File and the position in it                *)
  crashes,   (* how often the machine stopped                              *)
  torn       (* whether it stopped where the model does not follow         *)

vars == <<fat, saved, disk, pending, doing, handles, crashes, torn>>

Areas == Clusters \cup {Root}
Paths == UNION {[1 .. n -> Names] : n \in 1 .. Depth}

Blank == [kind |-> "blank"]   \* a unit that begins with 0 or with 246
Label == [kind |-> "label"]   \* the volume label, first in the root folder
Dot(c)   == [kind |-> "dot", first |-> c]
Datum(d) == [kind |-> "data", value |-> d]
Entry(n, dir, c, s) ==
  [kind |-> "entry", name |-> n, dir |-> dir, first |-> c, size |-> s]

EntryType ==
  [kind : {"entry"}, name : Names, dir : BOOLEAN, first : Clusters, size : Nat]

Missing == [kind |-> "missing"]
Closed  == [kind |-> "closed"]
Spoiled == [kind |-> "spoiled"]   \* its position was advanced by garbage
Opened(p, c, s, pos) ==
  [kind |-> "open", path |-> p, first |-> c, size |-> s, position |-> pos]

(***************************************************************************)
(* Chains and folders, read from a table t and the units d of a disk.      *)
(***************************************************************************)

(* The element of a set that has one: its definition names it once.        *)
The(S) == CHOOSE x \in S : TRUE

(* The clusters s, and the one behind the last of them if there is one.    *)
Followed(t, s) ==
  IF t[Last(s)] \in Clusters THEN Append(s, t[Last(s)]) ELSE s

(* The clusters of the file or folder that begins at c.                    *)
Chain(t, c) ==
  LET follow[n \in Nat] ==
        IF n = 0 THEN <<c>>
        ELSE The({Followed(t, s) : s \in {follow[n - 1]}})
  IN IF c = Root THEN <<Root>> ELSE follow[Cardinality(Clusters) - 1]

(* The units of the clusters of a chain, one after the other.              *)
Units(d, chain) ==
  LET width == Len(d[chain[1]])
  IN [i \in 1 .. width * Len(chain) |->
        d[chain[((i - 1) \div width) + 1]][((i - 1) % width) + 1]]

(* How many units of a cluster come before the first blank one.            *)
Used(units) ==
  Min({i \in 1 .. Len(units) : units[i] = Blank} \cup {Len(units) + 1}) - 1

(* The label of the root folder, or `.` and `..` of another one.           *)
Header(c) == IF c = Root THEN 1 ELSE 2

(* What a folder lists in its cluster i: the units up to a blank one,      *)
(* without the header.                                                     *)
ItemsOf(d, chain, i) ==
  SubSeq(d[chain[i]], IF i = 1 THEN Header(chain[1]) + 1 ELSE 1,
         Used(d[chain[i]]))

ItemsIn(d, chain) ==
  LET upTo[i \in 0 .. Len(chain)] ==
        IF i = 0 THEN <<>> ELSE upTo[i - 1] \o ItemsOf(d, chain, i)
  IN upTo[Len(chain)]

Items(t, d, c) == The({ItemsIn(d, chain) : chain \in {Chain(t, c)}})

Index(items, n) ==
  SelectInSeq(items, LAMBDA u : u.kind = "entry" /\ u.name = n)

Pick(items, n) ==
  IF Index(items, n) = 0 THEN Missing ELSE items[Index(items, n)]

RootEntry == Entry("\\", TRUE, Root, 0)

(* What the folder `at` has under the name n.                              *)
Under(t, d, at, n) ==
  IF at = Missing THEN Missing
  ELSE The({Pick(items, n) : items \in {Items(t, d, at.first)}})

(* The entry at the end of a path, one folder after the other.             *)
Lookup(t, d, path) ==
  LET down[n \in 0 .. Len(path)] ==
        IF n = 0 THEN RootEntry
        ELSE The({Under(t, d, at, path[n]) : at \in {down[n - 1]}})
  IN down[Len(path)]

(***************************************************************************)
(* Allocation and writes.                                                  *)
(***************************************************************************)

FreeIn(t)   == {c \in Clusters : t[c] = Free}
NextFree(t) == Min(FreeIn(t))

(* The clusters s and the next free one, if there is one left.             *)
TakeFree(t, s) ==
  IF FreeIn(t) \subseteq ToSet(s) THEN s
  ELSE Append(s, Min(FreeIn(t) \ ToSet(s)))

(* The first n free clusters, or all that there are.                       *)
FirstFree(t, n) ==
  LET take[i \in Nat] == IF i = 0 THEN <<>> ELSE TakeFree(t, take[i - 1])
  IN take[n]

(* The table after the chain of c got one more cluster at its end.         *)
AllocateNewCluster(t, c) ==
  [t EXCEPT ![NextFree(t)] = EOC, ![Last(Chain(t, c))] = NextFree(t)]

(* Mutant of SaveTables: saves the table as it was before the operation.   *)
SaveTablesBefore(t) == [at |-> Table, what |-> fat]

SaveTables(t)    == [at |-> Table, what |-> t]
WriteUnits(c, u) == [at |-> c, what |-> u]

(* The write of unit k (from 0) of the clusters in chain.                  *)
WriteUnit(chain, k, u) ==
  LET width == Len(disk[chain[1]])
      c     == chain[(k \div width) + 1]
  IN WriteUnits(c, [disk[c] EXCEPT ![(k % width) + 1] = u])

(* Mutant of Over: the rest of the cluster is not read before the write.   *)
OverShort(units, c) == units

(* A cluster that keeps its units behind the ones that are written.        *)
Over(units, c) ==
  [i \in 1 .. Size |-> IF i <= Len(units) THEN units[i] ELSE disk[c][i]]

BlankCluster == [i \in 1 .. Size |-> Blank]

(* Mutant of FolderBasics: `..` is forgotten.                              *)
FolderBasicsShort(c, up) == [BlankCluster EXCEPT ![1] = Dot(c)]

FolderBasics(c, up) == [BlankCluster EXCEPT ![1] = Dot(c), ![2] = Dot(up)]

(* No operation is running.                                                *)
Idle == pending = <<>> /\ ~torn

(* An operation begins: the table in memory is t, and then come the writes.*)
Begin(op, t, writes) ==
  /\ fat' = t
  /\ pending' = writes
  /\ doing' = op
  /\ UNCHANGED <<saved, disk, crashes, torn>>

WriteDataToFatFs ==
  /\ pending # <<>>
  /\ LET w == Head(pending)
     IN IF w.at = Table THEN saved' = w.what /\ UNCHANGED disk
        ELSE disk' = [disk EXCEPT ![w.at] = w.what] /\ UNCHANGED saved
  /\ pending' = Tail(pending)
  /\ doing' = IF Len(pending) = 1 THEN "idle" ELSE doing
  /\ UNCHANGED <<fat, handles, crashes, torn>>

(***************************************************************************)
(* Creating and removing.                                                  *)
(***************************************************************************)

(* Callers create what does not exist, in a folder that exists.            *)
Creatable(path) ==
  /\ Idle
  /\ Lookup(fat, disk, path) = Missing
  /\ Lookup(fat, disk, Front(path)) # Missing
  /\ Lookup(fat, disk, Front(path)).dir
  /\ FreeIn(fat) # {}

(* Mutant of GiveBack: a creation that fails keeps its cluster.            *)
Keep(t, c) == t

(* A creation that fails gives its cluster back.                           *)
GiveBack(t, c) == [t EXCEPT ![c] = Free]

(* Mutant of InOrder: the entry is written before the table is saved.      *)
EntryFirst(saves, entry, basics) == <<entry>> \o saves \o basics

(* The cluster of a new item is marked in the saved table before an entry  *)
(* leads to it.                                                            *)
InOrder(saves, entry, basics) == saves \o <<entry>> \o basics

(* The body shared by create_file and create_folder: whether it succeeds,  *)
(* the table it leaves and its writes.  The cluster of the new item is     *)
(* taken and saved first; it is given back when the entry has no place.    *)
NewItem(path, dir) ==
  LET up    == Lookup(fat, disk, Front(path)).first
      chain == Chain(fat, up)
      used  == Len(Items(fat, disk, up)) + Header(up)
      c     == NextFree(fat)
      taken == [fat EXCEPT ![c] = EOC]
      longer == AllocateNewCluster(taken, up)
      entry(in) == WriteUnit(in, used, Entry(Last(path), dir, c, 0))
      basics == IF dir THEN <<WriteUnits(c, FolderBasics(c, up))>> ELSE <<>>
  IN IF used < Len(Units(disk, Chain(fat, up)))
     THEN [ok |-> TRUE, first |-> c, table |-> taken,
           writes |-> InOrder(<<SaveTables(taken)>>, entry(chain), basics)]
     ELSE IF up # Root /\ FreeIn(taken) # {}
     THEN [ok |-> TRUE, first |-> c, table |-> longer,
           writes |-> InOrder(<<SaveTables(taken), SaveTables(longer)>>,
                              entry(chain \o <<NextFree(taken)>>), basics)]
     ELSE [ok |-> FALSE, first |-> c, table |-> GiveBack(taken, c),
           writes |-> <<SaveTables(taken), SaveTables(GiveBack(taken, c))>>]

CreateFile(h, path) ==
  /\ handles[h] = Closed
  /\ Creatable(path)
  /\ LET new == NewItem(path, FALSE)
     IN /\ Begin("create_file", new.table, new.writes)
        /\ handles' = IF new.ok
                      THEN [handles EXCEPT ![h] = Opened(path, new.first, 0, 0)]
                      ELSE handles

(* md, the only program that creates folders, closes its handle at once.   *)
CreateFolder(path) ==
  /\ Creatable(path)
  /\ LET new == NewItem(path, TRUE)
     IN Begin("create_folder", new.table, new.writes)
  /\ UNCHANGED handles

InUse(path) ==
  \E h \in Handles : handles[h].kind = "open" /\ handles[h].path = path

(* Mutant of Cleared: the clusters of what is removed keep their content.  *)
ClearedNone(gone) == <<>>

Cleared(gone) == [i \in 1 .. Len(gone) |-> WriteUnits(gone[i], BlankCluster)]

(* Mutant of Without: the entry is blanked where it is.                    *)
WithHole(units, k) == [units EXCEPT ![k] = Blank]

(* A folder without its unit k: the units behind it move up.               *)
Without(units, k) == RemoveAt(units, k) \o <<Blank>>

(* A file or folder goes when it lists as an empty folder.  No program     *)
(* removes what another one has open.                                      *)
Rmdir(path) ==
  /\ Idle
  /\ Lookup(fat, disk, path) # Missing
  /\ ~InUse(path)
  /\ LET first  == Lookup(fat, disk, path).first
         gone   == Chain(fat, first)
         t      == [c \in Clusters |-> IF c \in ToSet(gone) THEN Free ELSE fat[c]]
         up     == Lookup(fat, disk, Front(path)).first
         upper  == Chain(fat, up)
         width  == Len(disk[up])
         k      == Index(Items(fat, disk, up), Last(path)) + Header(up)
         rest   == Without(Units(disk, Chain(fat, up)), k)
         Part(i) == SubSeq(rest, (i - 1) * width + 1, i * width)
     IN /\ Items(fat, disk, first) = <<>>
        /\ Begin("rmdir", t,
                 Cleared(gone)
                 \o <<SaveTables(t)>>
                 \o [i \in 1 .. Len(upper) |->
                       WriteUnits(upper[i], [j \in 1 .. width |-> Blank])]
                 \o [i \in 1 .. Len(upper) |-> WriteUnits(upper[i], Part(i))])
  /\ UNCHANGED handles

(***************************************************************************)
(* Open files.                                                             *)
(***************************************************************************)

OpenFile(h, path) ==
  /\ Idle
  /\ handles[h] = Closed
  /\ LET found == Lookup(fat, disk, path)
     IN /\ found # Missing
        /\ ~found.dir
        /\ handles' = [handles EXCEPT ![h] =
                         Opened(path, found.first, found.size, 0)]
  /\ UNCHANGED <<fat, saved, disk, pending, doing, crashes, torn>>

CloseFile(h) ==
  /\ Idle
  /\ handles[h] # Closed
  /\ handles' = [handles EXCEPT ![h] = Closed]
  /\ UNCHANGED <<fat, saved, disk, pending, doing, crashes, torn>>

(* A read stops at the size the open file has; what it returns are the     *)
(* units of the chain from the position on.                                *)
Read(h, n) ==
  /\ Idle
  /\ handles[h].kind = "open"
  /\ handles[h].position < handles[h].size
  /\ handles' = [handles EXCEPT ![h].position =
                   Min({@ + n, handles[h].size})]
  /\ UNCHANGED <<fat, saved, disk, pending, doing, crashes, torn>>

(* Seek to the beginning or to the end of the file.                        *)
Seek(h, position) ==
  /\ Idle
  /\ handles[h].kind = "open"
  /\ position # handles[h].position
  /\ handles' = [handles EXCEPT ![h].position = position]
  /\ UNCHANGED <<fat, saved, disk, pending, doing, crashes, torn>>

(* Mutant of UpdateSize: the header of the folder is not counted.          *)
UpdateSizeUnshifted(path, size) ==
  LET up == Lookup(fat, disk, Front(path)).first
      k  == Index(Items(fat, disk, up), Last(path))
  IN WriteUnit(Chain(fat, up), k - 1,
               [Items(fat, disk, up)[k] EXCEPT !.size = size])

(* update_size_file_in_folder finds the entry by the path of the file.     *)
UpdateSize(path, size) ==
  LET up == Lookup(fat, disk, Front(path)).first
      k  == Index(Items(fat, disk, up), Last(path))
  IN WriteUnit(Chain(fat, up), k - 1 + Header(up),
               [Items(fat, disk, up)[k] EXCEPT !.size = size])

(* How many bytes were written stays unset: the position gets garbage.     *)
Spoil(h) == [handles EXCEPT ![h] = Spoiled]

(* n units of d at the position of the file.  At the edge of the last      *)
(* cluster one is allocated first.  Each further cluster is linked to the  *)
(* cluster that was last before, as the list of the clusters of the file   *)
(* does not get longer.  A disk that gets full ends the write early.  The  *)
(* size of the entry is rewritten unless the write ends at the size that   *)
(* the open file has.  A position behind the clusters of the file, which   *)
(* only overwriting can lead to, makes the code throw and is left out.     *)
Write(h, d, n) ==
  LET f      == handles[h]
      before == Chain(fat, f.first)
      k      == f.position \div Size
      edge   == k >= Len(before)
      t      == IF edge THEN AllocateNewCluster(fat, f.first) ELSE fat
      chain  == Chain(t, f.first)
      units  == SubSeq(disk[chain[k + 1]], 1, f.position % Size)
                  \o [i \in 1 .. n |-> Datum(d)]
      count  == (Len(units) + Size - 1) \div Size
      lacking == IF k + count > Len(chain) THEN k + count - Len(chain) ELSE 0
      new    == FirstFree(t, lacking)
      target == SubSeq(chain, k + 1, Min({k + count, Len(chain)})) \o new
      linked == [c \in Clusters |->
                   IF c \in ToSet(new) THEN EOC
                   ELSE IF c = Last(chain) /\ new # <<>> THEN Last(new)
                   ELSE t[c]]
      end    == k * Size + Min({Len(units), Size * Len(target)})
      Part(i) == SubSeq(units, (i - 1) * Size + 1, Min({i * Size, Len(units)}))
  IN /\ Idle
     /\ f.kind = "open"
     /\ f.position <= f.size
     /\ AppendOnly => f.position = f.size
     /\ f.position + n <= MaxFile
     /\ IF edge /\ FreeIn(fat) = {}
        THEN /\ handles' = Spoil(h)
             /\ UNCHANGED <<fat, saved, disk, pending, doing, crashes, torn>>
        ELSE /\ k < Len(chain)
             /\ Begin("write", linked,
                      (IF edge THEN <<SaveTables(t)>> ELSE <<>>)
                      \o [i \in 1 .. Len(target) |->
                            WriteUnits(target[i], Over(Part(i), target[i]))]
                      \o <<SaveTables(linked)>>
                      \o IF end = f.size THEN <<>>
                         ELSE <<UpdateSize(f.path, end)>>)
             /\ handles' = IF Len(target) < count /\ end = f.size THEN Spoil(h)
                           ELSE [handles EXCEPT ![h].position = end,
                                                ![h].size = @ + (end - f.position)]

(***************************************************************************)
(* The specification.                                                      *)
(***************************************************************************)

Init ==
  /\ fat = [c \in Clusters |-> Free]
  /\ saved = fat
  /\ disk = [a \in Areas |->
                IF a = Root
                THEN [i \in 1 .. RootSize |-> IF i = 1 THEN Label ELSE Blank]
                ELSE BlankCluster]
  /\ pending = <<>>
  /\ doing = "idle"
  /\ handles = [h \in Handles |-> Closed]
  /\ crashes = 0
  /\ torn = FALSE

(* The machine stops and boots again: Fat_Fs::Fat_Fs reads the table from  *)
(* the disk.  The model goes on after the crashes that leave nothing but   *)
(* lost clusters behind; the others end it.                                *)
Crash ==
  /\ crashes < MaxCrashes /\ ~torn
  /\ fat' = saved
  /\ pending' = <<>>
  /\ torn' = (doing \notin {"idle", "create_file"})
  /\ doing' = IF torn' THEN doing ELSE "idle"
  /\ handles' = [h \in Handles |-> Closed]
  /\ crashes' = crashes + 1
  /\ UNCHANGED <<saved, disk>>

FileStep(h) ==
  \/ \E path \in Paths : CreateFile(h, path) \/ OpenFile(h, path)
  \/ CloseFile(h)
  \/ \E n \in Sizes : Read(h, n)
  \/ Seek(h, 0)
  \/ handles[h].kind = "open" /\ Seek(h, handles[h].size)
  \/ \E d \in Data, n \in Sizes : Write(h, d, n)

Next ==
  \/ \E h \in Handles : FileStep(h)
  \/ \E path \in Paths : CreateFolder(path) \/ Rmdir(path)
  \/ WriteDataToFatFs
  \/ Crash

Spec == Init /\ [][Next]_vars

(***************************************************************************)
(* Properties.                                                             *)
(***************************************************************************)

IsUnit(u) == \/ u \in {Blank, Label} \/ u \in EntryType
             \/ u \in {Dot(c) : c \in Areas} \cup {Datum(d) : d \in Data}

TableType == [Clusters -> Clusters \cup {Free, EOC}]

(* The types of the tables, the disk, the writes of an operation and the   *)
(* open files.                                                             *)
TypeOK ==
  /\ {fat, saved} \subseteq TableType
  /\ \A a \in Areas : /\ Len(disk[a]) = (IF a = Root THEN RootSize ELSE Size)
                       /\ \A u \in ToSet(disk[a]) : IsUnit(u)
  /\ \A i \in DOMAIN pending :
       \/ pending[i].at = Table /\ pending[i].what \in TableType
       \/ pending[i].at \in Areas /\ \A u \in ToSet(pending[i].what) : IsUnit(u)
  /\ doing \in {"idle", "create_file", "create_folder", "rmdir", "write"}
  /\ doing = "idle" => pending = <<>>
  /\ \A h \in Handles :
       \/ handles[h] \in {Closed, Spoiled}
       \/ /\ handles[h].kind = "open"
          /\ handles[h].path \in Paths
          /\ handles[h].first \in Clusters
          /\ {handles[h].size, handles[h].position} \subseteq Nat
  /\ crashes \in 0 .. MaxCrashes
  /\ torn \in BOOLEAN

Found(t, d)        == {p \in Paths : Lookup(t, d, p) # Missing}
ChainOf(t, d, p)   == Chain(t, Lookup(t, d, p).first)
Allocated(t, d)    == UNION {ToSet(ChainOf(t, d, p)) : p \in Found(t, d)}

(* Every entry leads to a chain of clusters of its own that is allocated   *)
(* to the last cluster and long enough for the size of the file.           *)
EntriesSound(t, d) ==
  \A p \in Found(t, d) :
    LET e == Lookup(t, d, p)
        chain == ChainOf(t, d, p)
    IN /\ Free \notin {t[c] : c \in ToSet(chain)}
       /\ t[Last(chain)] = EOC
       /\ ~e.dir => e.size <= Size * Len(chain)
       /\ \A q \in Found(t, d) \ {p} :
            ToSet(chain) \cap ToSet(ChainOf(t, d, q)) = {}

(* Wherever the machine stops, except inside of rmdir, the table and the   *)
(* folders that the next boot finds on the disk fit together: no entry     *)
(* leads to a free cluster and no two to the same one.                     *)
SoundAtEveryWrite == doing # "rmdir" => EntriesSound(saved, disk)

(* Between the operations no cluster is allocated that no file or folder   *)
(* leads to, as long as the machine never stopped: what a failed operation *)
(* took is given back.                                                     *)
NoLostClusters ==
  doing = "idle" /\ crashes = 0 =>
    Allocated(fat, disk) = Clusters \ FreeIn(fat)

(* A free cluster holds blank units only, wherever the machine stops       *)
(* outside of a write: a folder that is extended by it, without clearing   *)
(* it, lists nothing that was not put there.                               *)
FreeIsBlank ==
  doing # "write" => \A c \in FreeIn(saved) : disk[c] = BlankCluster

(* Between the operations the table on the disk is the one in memory, also *)
(* after an operation that failed half way.                                *)
SavedBetweenOperations == doing = "idle" => saved = fat

(* What an open file remembers of its entry, its first cluster and its     *)
(* size, is what the folder says.                                          *)
HandleFresh ==
  doing = "idle" =>
    \A h \in Handles : handles[h].kind = "open" =>
      /\ Lookup(fat, disk, handles[h].path).first = handles[h].first
      /\ Lookup(fat, disk, handles[h].path).size = handles[h].size

(* What programs wrote into a file lies within the size that its folder    *)
(* says: write updates the size when the file got longer, and an overwrite *)
(* in the middle leaves what is behind it.                                 *)
WrittenIsRecorded ==
  doing = "idle" =>
    \A p \in Paths :
      LET e == Lookup(fat, disk, p)
      IN e # Missing /\ ~e.dir =>
           \A i \in 1 .. Len(Units(disk, Chain(fat, e.first))) :
             Units(disk, Chain(fat, e.first))[i].kind = "data" => i <= e.size

(* The disk once the running operation is through.                         *)
Settled ==
  [a \in Areas |->
     LET writes == {i \in DOMAIN pending : pending[i].at = a}
     IN IF writes = {} THEN disk[a] ELSE pending[Max(writes)].what]

Content(d, chain, size) ==
  [i \in 1 .. size |-> d[chain[((i - 1) \div Size) + 1]][((i - 1) % Size) + 1].value]

TreeOf(t, d) ==
  [p \in Found(t, d) |->
     The({[dir |-> e.dir, data |-> IF e.dir THEN <<>> ELSE Content(d, Chain(t, e.first), e.size)] :
            e \in {Lookup(t, d, p)}})]

Tree == The({TreeOf(fat, d) : d \in {Settled}})

Promise == INSTANCE FileTree WITH tree <- Tree

(* While the machine runs, the clusters, tables and folders are a tree of  *)
(* files in which each operation changes the one path it is about, and a   *)
(* file reads back as everything that was appended to it.                  *)
FileTreeSpec == Promise!Spec
=============================================================================
