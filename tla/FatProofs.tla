------------------------------- MODULE FatProofs ------------------------------
(***************************************************************************)
(* Theorems about Fat.  Every step keeps the invariant: at each write the  *)
(* table and the folders on the disk stand for a tree, rmdir apart.  The   *)
(* trees before and after an operation differ as FileTree promises.  The   *)
(* bytes of the table (module FatCodec) say what its numbers say.          *)
(***************************************************************************)
EXTENDS FatLemmas

(***************************************************************************)
(* Writes to the disk, a crash, and the steps that change open files only. *)
(***************************************************************************)

(* What an open file remembers has its type, also when it moves.           *)
LEMMA HandleFacts ==
  /\ Closed.kind = "closed" /\ Spoiled.kind = "spoiled" /\ Closed \in HandleType /\ Spoiled \in HandleType
  /\ \A x \in HandleType : x.kind = "open" =>
       /\ x.path \in Paths /\ x.first \in Clusters /\ x.size \in Nat /\ x.position \in Nat
       /\ \A s \in Nat, p \in Nat : [[x EXCEPT !.position = p] EXCEPT !.size = s] \in HandleType
       /\ \A p \in Nat : [x EXCEPT !.position = p] \in HandleType
<1>1. /\ Closed.kind = "closed" /\ Spoiled.kind = "spoiled"
      /\ Closed \in HandleType /\ Spoiled \in HandleType
  BY DEF HandleType, Closed, Spoiled
<1>2. ASSUME NEW x \in HandleType, x.kind = "open"
      PROVE  /\ x.path \in Paths /\ x.first \in Clusters /\ x.size \in Nat /\ x.position \in Nat
             /\ \A s \in Nat, p \in Nat : [[x EXCEPT !.position = p] EXCEPT !.size = s] \in HandleType
             /\ \A p \in Nat : [x EXCEPT !.position = p] \in HandleType
  <2>1. x \in [kind : {"open"}, path : Paths, first : Clusters, size : Nat, position : Nat]
    BY <1>1, <1>2 DEF HandleType
  <2> QED
    BY <2>1 DEF HandleType
<1> QED
  BY <1>1, <1>2

(* Between the operations nothing is left to write.                        *)
LEMMA IdleFacts ==
  ASSUME IInv, Idle
  PROVE  /\ doing = "idle" /\ pending = <<>> /\ torn = FALSE /\ saved = fat
         /\ Future = disk /\ Leads(fat, disk, handles, crashes)
<1>1. /\ doing = "idle" /\ pending = <<>> /\ torn = FALSE /\ Running /\ disk \in DiskType /\ Len(pending) = 0
  BY DEF IInv, Typed, Phased, Idle
<1>2. TableAfter(saved, pending, 0) = saved /\ DiskAfter(disk, pending, 0) = disk
  BY ONLY <1>1, AfterNone
<1>3. TableAfter(saved, pending, Len(pending)) = fat
  BY <1>1 DEF Running, Goes
<1> QED
  BY <1>1, <1>2, <1>3 DEF Running, Future

(* An operation that begins keeps the invariant when its writes lead where *)
(* the table and the open files already are.                               *)
LEMMA Begun ==
  ASSUME IInv, Idle, NEW op \in Operations, op # "idle", NEW t, NEW w, NEW e, w # <<>>,
         Begin(op, t, w), Goes(op, fat, disk, w, t, e), Leads(t, e, handles', crashes),
         handles' \in [Handles -> HandleType]
  PROVE  IInv'
<1>1. doing = "idle" /\ pending = <<>> /\ torn = FALSE /\ saved = fat
  BY IdleFacts
<1>2. /\ fat' = t /\ pending' = w /\ doing' = op /\ saved' = saved /\ disk' = disk
      /\ crashes' = crashes /\ torn' = torn
  BY DEF Begin
<1>3. fat \in TableType /\ disk \in DiskType /\ saved \in TableType /\ crashes \in 0 .. MaxCrashes /\ torn \in BOOLEAN
  BY DEF IInv, Typed
<1>4. w \in Seq(WriteType) /\ t \in TableType /\ e \in DiskType
  BY <1>3, GoesTypes
<1>5. Typed'
  BY <1>2, <1>3, <1>4 DEF Typed
<1>6. Phased'
  BY <1>1, <1>2 DEF Phased
<1>7. Future' = e
  BY <1>2 DEF Future, Goes
<1>8. Running'
  BY <1>1, <1>2, <1>7 DEF Running
<1> QED
  BY <1>1, <1>2, <1>5, <1>6, <1>8 DEF IInv

(* It then leads to the table and the disk where its writes lead.          *)
LEMMA BegunAt ==
  ASSUME NEW op, NEW t, NEW w, NEW e, Begin(op, t, w), Goes(op, fat, disk, w, t, e)
  PROVE  fat' = t /\ Future' = e
BY DEF Begin, Future, Goes

(* What changes the open files only.                                       *)
LEMMA HandlesChanged ==
  ASSUME IInv, Idle, handles' \in [Handles -> HandleType], Leads(fat, disk, handles', crashes),
         UNCHANGED <<fat, saved, disk, pending, doing, crashes, torn>>
  PROVE  IInv'
<1>1. doing = "idle" /\ pending = <<>> /\ torn = FALSE /\ saved = fat /\ Future = disk /\ Running
  BY IdleFacts DEF IInv
<1>2. Typed' /\ Phased'
  BY DEF IInv, Typed, Phased
<1>3. Future' = Future
  BY DEF Future
<1>4. Running'
  BY <1>1, <1>3 DEF Running
<1> QED
  BY <1>1, <1>2, <1>4 DEF IInv

(* The root folder has one area.                                           *)
LEMMA RootUnits ==
  ASSUME NEW d \in DiskType
  PROVE  /\ Len(Units(d, <<Root>>)) = RootSize
         /\ \A k \in 1 .. RootSize : Units(d, <<Root>>)[k] = d[Root][k]
<1>1. Root \in Areas /\ RootSize \in Nat /\ RootSize > 1 /\ Width(Root) = RootSize
  BY ConstantFacts DEF Areas, Width
<1>2. Len(d[Root]) = RootSize
  BY <1>1 DEF DiskType
<1>3. ASSUME NEW k \in 1 .. RootSize PROVE ((k - 1) \div RootSize) + 1 = 1 /\ ((k - 1) % RootSize) + 1 = k
  <2>1. k - 1 \in 0 .. RootSize - 1
    BY <1>1
  <2>2. (RootSize * 0 + (k - 1)) \div RootSize = 0 /\ (RootSize * 0 + (k - 1)) % RootSize = k - 1
    <3> DEFINE j == k - 1
    <3> HIDE DEF j
    <3>1. j \in 0 .. RootSize - 1
      BY <2>1 DEF j
    <3>2. (RootSize * 0 + j) \div RootSize = 0 /\ (RootSize * 0 + j) % RootSize = j
      BY <1>1, <3>1, DivModOf
    <3> QED
      BY <3>2 DEF j
  <2>3. RootSize * 0 + (k - 1) = k - 1
    BY <1>1
  <2>4. (k - 1) \div RootSize = 0 /\ (k - 1) % RootSize = k - 1
    BY <2>2, <2>3
  <2> QED
    BY <1>1, <2>1, <2>4
<1>4. <<Root>>[1] = Root /\ Len(<<Root>>) = 1
  OBVIOUS
<1>5. Units(d, <<Root>>) = [i \in 1 .. RootSize * 1 |->
                             d[<<Root>>[((i - 1) \div RootSize) + 1]][((i - 1) % RootSize) + 1]]
  BY <1>2, <1>4 DEF Units
<1>6. RootSize * 1 = RootSize
  BY <1>1
<1>7. ASSUME NEW k \in 1 .. RootSize PROVE Units(d, <<Root>>)[k] = d[Root][k]
  <2>1. Units(d, <<Root>>)[k] = d[<<Root>>[((k - 1) \div RootSize) + 1]][((k - 1) % RootSize) + 1]
    BY <1>5, <1>6
  <2> QED
    BY <1>3, <1>4, <2>1
<1>8. Len(Units(d, <<Root>>)) = RootSize
  BY <1>1, <1>5, <1>6
<1> QED
  BY <1>7, <1>8

(* A disk where nothing was written yet.                                   *)
LEMMA InitHolds == Init => IInv
<1> SUFFICES ASSUME Init PROVE IInv
  OBVIOUS
<1> DEFINE E == [p \in {<<>>} |-> RootEntry]
           S == [p \in {<<>>} |-> <<Root>>]
           L == [p \in {<<>>} |-> <<>>]
<1>1. /\ fat = [c \in Clusters |-> Free] /\ saved = fat /\ pending = <<>> /\ doing = "idle"
      /\ handles = [h \in Handles |-> Closed] /\ crashes = 0 /\ torn = FALSE
      /\ disk = [a \in Areas |-> IF a = Root THEN [i \in 1 .. RootSize |-> IF i = 1 THEN Label ELSE Blank]
                                 ELSE BlankCluster]
  BY DEF Init
<1>2. disk \in DiskType
  <2>1. ASSUME NEW a \in Areas PROVE disk[a] \in Seq(Unit) /\ Len(disk[a]) = Width(a)
    <3>1. CASE a = Root
      <4>1. disk[a] = [i \in 1 .. RootSize |-> IF i = 1 THEN Label ELSE Blank]
        BY <1>1, <3>1
      <4>2. disk[a] \in [1 .. RootSize -> Unit] /\ RootSize \in Nat
        BY <4>1, ConstantFacts DEF Unit
      <4> QED
        BY <4>2, <3>1 DEF Width
    <3>2. CASE a # Root
      <4>1. disk[a] = BlankCluster
        BY <1>1, <3>2
      <4>2. disk[a] \in [1 .. Size -> Unit] /\ Size \in Nat
        BY <4>1, ConstantFacts DEF Unit, BlankCluster
      <4> QED
        BY <4>2, <3>2 DEF Width
    <3> QED
      BY <3>1, <3>2
  <2> QED
    BY <1>1, <2>1 DEF DiskType
<1>3. fat \in TableType
  BY <1>1 DEF TableType
<1>4. IsTree(E, S, L)
  <2>1. \A p \in {<<>>} : E[p] = RootEntry /\ S[p] = <<Root>> /\ L[p] = <<>>
    OBVIOUS
  <2>2. RootEntry.first = Root /\ <<Root>>[1] = Root
    BY KindFacts
  <2>3. <<>> \in Seq(Names) /\ Distinct(<<>>) /\ \A n : n \notin ToSet(<<>>)
    BY DEF Distinct, ToSet
  <2>4. \A n : Append(<<>>, n) # <<>>
    OBVIOUS
  <2> QED
    BY <2>1, <2>2, <2>3, <2>4 DEF IsTree
<1>5. ChainsApart(fat, E, S)
  BY DEF ChainsApart
<1>6. /\ Len(Units(disk, <<Root>>)) = RootSize
      /\ \A k \in 1 .. RootSize : Units(disk, <<Root>>)[k] = IF k = 1 THEN Label ELSE Blank
  <2>1. disk[Root] = [i \in 1 .. RootSize |-> IF i = 1 THEN Label ELSE Blank] /\ Root \in Areas
    BY <1>1 DEF Areas
  <2> QED
    BY <1>2, <2>1, RootUnits
<1>7. Headed(disk, <<Root>>)
  BY <1>6, ConstantFacts, KindFacts DEF Headed, Header
<1>8. Holds(disk, E, S, L)
  <2>1. FolderHolds(disk, E, S, L, <<>>)
    <3>1. S[<<>>] = <<Root>> /\ L[<<>>] = <<>> /\ Header(S[<<>>][1]) = 1 /\ Len(L[<<>>]) = 0
      BY DEF Header
    <3> HIDE DEF E, S, L
    <3>2. Label.kind # "entry"
      BY KindFacts
    <3>3. RootSize \in Nat /\ RootSize > 1
      BY ConstantFacts
    <3> QED
      BY <3>1, <3>2, <3>3, <1>6, <1>7 DEF FolderHolds
  <2> QED
    BY <2>1, KindFacts DEF Holds
<1>9. SizesFit(E, S)
  BY KindFacts DEF SizesFit
<1>10. AllHeaded(disk, E, S) /\ FreeBlank(fat, disk)
  <2>1. \A c \in Clusters : disk[c] = BlankCluster
    BY <1>1, ConstantFacts DEF Areas
  <2> QED
    BY <2>1, <1>7 DEF AllHeaded, FreeBlank, FreeIn
<1>11. AllOwned(fat, S)
  BY <1>1 DEF AllOwned
<1> HIDE DEF E, S, L
<1>12. Settles(fat, disk, E, S, L)
  BY <1>4, <1>5, <1>8, <1>9, <1>10 DEF Settles, Sound, Represents
<1>13. HandlesFit(handles, E)
  BY <1>1, HandleFacts DEF HandlesFit
<1>14. Leads(fat, disk, handles, crashes)
  BY <1>11, <1>12, <1>13 DEF Leads
<1>15. Goes("idle", fat, disk, <<>>, fat, disk)
  BY <1>2, <1>12, SettlesMidway, GoesNowhere
<1>16. Future = disk
  BY <1>1, <1>15 DEF Future, Goes
<1>17. Typed
  <2>1. handles \in [Handles -> HandleType]
    BY <1>1, HandleFacts
  <2>2. crashes \in 0 .. MaxCrashes /\ torn \in BOOLEAN /\ doing \in Operations /\ pending \in Seq(WriteType)
    <3>1. MaxCrashes \in Nat
      BY FatAssumption
    <3>2. <<>> \in Seq(WriteType)
      OBVIOUS
    <3>3. crashes \in 0 .. MaxCrashes
      BY <1>1, <3>1
    <3>4. doing \in Operations
      BY <1>1 DEF Operations
    <3> QED
      BY <1>1, <3>2, <3>3, <3>4
  <2> QED
    BY <1>1, <1>2, <1>3, <2>1, <2>2 DEF Typed
<1> QED
  BY <1>1, <1>14, <1>15, <1>16, <1>17 DEF IInv, Phased, Running

(* One write of the running operation.                                     *)
LEMMA WriteDataHolds ==
  ASSUME IInv, WriteDataToFatFs
  PROVE  IInv' /\ Future' = Future
<1> DEFINE v == Head(pending)
<1>1. Typed /\ Phased /\ pending # <<>> /\ torn = FALSE /\ Running
  BY DEF IInv, WriteDataToFatFs, Phased, Typed
<1>2. fat \in TableType /\ saved \in TableType /\ disk \in DiskType /\ pending \in Seq(WriteType)
  BY <1>1 DEF Typed
<1>3. Goes(doing, saved, disk, pending, fat, Future) /\ Leads(fat, Future, handles, crashes)
  BY <1>1 DEF Running
<1>4. /\ v \in WriteType
      /\ Goes(doing, TableAfter(saved, <<v>>, 1), DiskAfter(disk, <<v>>, 1), Tail(pending), fat, Future)
  BY ONLY <1>1, <1>2, <1>3, GoesTail
<1>5. saved' = TableAfter(saved, <<v>>, 1) /\ disk' = DiskAfter(disk, <<v>>, 1)
  <2>1. /\ v.at = Table => saved' = v.what /\ disk' = disk
        /\ v.at # Table => saved' = saved /\ disk' = [disk EXCEPT ![v.at] = v.what]
    BY DEF WriteDataToFatFs
  <2>2. v \in WriteType
    BY <1>4
  <2> HIDE DEF v
  <2>3. /\ v.at = Table => TableAfter(saved, <<v>>, 1) = v.what /\ DiskAfter(disk, <<v>>, 1) = disk
        /\ v.at # Table => /\ TableAfter(saved, <<v>>, 1) = saved
                           /\ DiskAfter(disk, <<v>>, 1) = [disk EXCEPT ![v.at] = v.what]
    BY ONLY <1>2, <2>2, AfterOne
  <2> QED
    BY <2>1, <2>3
<1>6. /\ pending' = Tail(pending) /\ doing' = (IF Len(pending) = 1 THEN "idle" ELSE doing)
      /\ fat' = fat /\ handles' = handles /\ crashes' = crashes /\ torn' = torn
  BY DEF WriteDataToFatFs
<1>7. Goes(doing, saved', disk', pending', fat, Future)
  BY <1>4, <1>5, <1>6
<1>8. saved' \in TableType /\ disk' \in DiskType /\ pending' \in Seq(WriteType)
  <2>1. <<v>> \in Seq(WriteType) /\ Len(<<v>>) = 1 /\ 1 \in 0 .. 1
    BY <1>4
  <2>2. TableAfter(saved, <<v>>, 1) \in TableType /\ DiskAfter(disk, <<v>>, 1) \in DiskType
    BY <1>2, <2>1, AfterTypes
  <2> QED
    BY <1>1, <1>2, <1>5, <1>6, <2>2
<1>9. Typed'
  BY <1>1, <1>6, <1>8 DEF Typed, Operations
<1>10. Len(pending) = 1 <=> pending' = <<>>
  <2>1. \A s \in Seq(WriteType) : s = <<>> <=> Len(s) = 0
    OBVIOUS
  <2>2. Len(pending) \in Nat /\ Len(Tail(pending)) = Len(pending) - 1 /\ Tail(pending) \in Seq(WriteType)
    BY <1>1, <1>2
  <2>3. Tail(pending) = <<>> <=> Len(Tail(pending)) = 0
    BY ONLY <2>1, <2>2
  <2>4. Len(Tail(pending)) = 0 <=> Len(pending) = 1
    BY ONLY <2>2
  <2> QED
    BY ONLY <1>6, <2>3, <2>4
<1>11. Phased'
  BY <1>1, <1>6, <1>10 DEF Phased
<1>12. Future' = Future
  BY <1>7 DEF Future, Goes
<1>13. Goes(doing', saved', disk', pending', fat, Future)
  <2>1. CASE Len(pending) # 1
    BY <1>6, <1>7, <2>1
  <2>2. CASE Len(pending) = 1
    <3>1. pending' = <<>> /\ doing' = "idle"
      BY <1>6, <1>10, <2>2
    <3>2. TableAfter(saved', <<>>, 0) = saved' /\ DiskAfter(disk', <<>>, 0) = disk'
      BY <1>8, AfterNone
    <3>3. saved' = fat /\ disk' = Future
      BY <1>7, <3>1, <3>2 DEF Goes
    <3>4. Midway("idle", fat, disk')
      BY <1>3, <3>3, SettlesMidway DEF Leads
    <3>5. Goes("idle", fat, disk', <<>>, fat, disk')
      BY <1>8, <3>4, GoesNowhere
    <3> QED
      BY <3>1, <3>3, <3>5
  <2> QED
    BY <2>1, <2>2
<1>14. Running'
  BY <1>3, <1>6, <1>12, <1>13 DEF Running
<1> QED
  BY <1>1, <1>6, <1>9, <1>11, <1>12, <1>14 DEF IInv

(* The machine stops.                                                      *)
LEMMA CrashHolds ==
  ASSUME IInv, Crash
  PROVE  IInv'
<1>1. Typed /\ Phased /\ torn = FALSE /\ Running
  BY DEF IInv, Crash, Typed
<1>2. /\ saved \in TableType /\ disk \in DiskType /\ pending \in Seq(WriteType)
      /\ crashes \in 0 .. MaxCrashes /\ doing \in Operations /\ fat \in TableType
  BY <1>1 DEF Typed
<1>3. /\ fat' = saved /\ pending' = <<>> /\ handles' = [h \in Handles |-> Closed]
      /\ crashes' = crashes + 1 /\ saved' = saved /\ disk' = disk /\ crashes < MaxCrashes
  BY DEF Crash
<1>4. Midway(doing, saved, disk)
  BY ONLY <1>1, <1>2, GoesTypes DEF Running
<1>5. handles' \in [Handles -> HandleType] /\ \A E : HandlesFit(handles', E)
  BY <1>3, HandleFacts DEF HandlesFit
<1>6. crashes' \in 0 .. MaxCrashes /\ crashes' # 0
  <2>1. MaxCrashes \in Nat
    BY FatAssumption
  <2> QED
    BY <1>2, <1>3, <2>1
<1>7. <<>> \in Seq(WriteType)
  OBVIOUS
<1>8. CASE doing \in {"idle", "create_file"}
  <2>1. torn' = FALSE /\ doing' = "idle"
    BY <1>8 DEF Crash
  <2>2. PICK E, S, L : Sound(saved, disk, E, S, L) /\ AllHeaded(disk, E, S)
    BY <1>4, <1>8 DEF Midway
  <2>3. Settles(saved, disk, E, S, L)
    BY <1>4, <1>8, <2>2 DEF Midway, Settles
  <2>4. Goes("idle", saved, disk, <<>>, saved, disk)
    BY <1>2, <2>3, SettlesMidway, GoesNowhere
  <2>5. Leads(saved, disk, handles', crashes')
    BY <1>5, <1>6, <2>3 DEF Leads
  <2>6. Future' = disk
    BY <1>3, <2>4 DEF Future, Goes
  <2>7. Running'
    BY <1>3, <2>1, <2>4, <2>5, <2>6 DEF Running
  <2>8. Typed'
    BY <1>2, <1>3, <1>5, <1>6, <1>7, <2>1 DEF Typed, Operations
  <2>9. Phased'
    BY <1>3, <2>1 DEF Phased
  <2> QED
    BY <2>1, <2>7, <2>8, <2>9 DEF IInv
<1>9. CASE doing \notin {"idle", "create_file"}
  <2>1. torn' = TRUE /\ doing' = doing
    BY <1>9 DEF Crash
  <2>2. Stopped'
    BY <1>3, <1>4, <2>1 DEF Stopped
  <2>3. Typed'
    BY <1>2, <1>3, <1>5, <1>6, <1>7, <2>1 DEF Typed
  <2>4. Phased'
    BY <1>3, <1>9, <2>1 DEF Phased
  <2> QED
    BY <2>1, <2>2, <2>3, <2>4 DEF IInv
<1> QED
  BY <1>8, <1>9

(* What an open file is when it is opened, at its place and in its tree.   *)
LEMMA FitsOpened ==
  ASSUME NEW E, HandlesFit(handles, E), NEW h \in Handles, handles \in [Handles -> HandleType],
         NEW x \in HandleType, handles' = [handles EXCEPT ![h] = x],
         x.kind = "open" => /\ x.path \in DOMAIN E /\ ~E[x.path].dir /\ E[x.path].first = x.first
                            /\ AppendOnly /\ OneHandle => E[x.path].size = x.size
  PROVE  HandlesFit(handles', E) /\ handles' \in [Handles -> HandleType]
<1>1. \A g \in Handles : handles'[g] = IF g = h THEN x ELSE handles[g]
  OBVIOUS
<1> QED
  BY <1>1 DEF HandlesFit

(* An opened file leads to its entry.                                      *)
LEMMA OpenFileHolds ==
  ASSUME IInv, NEW h \in Handles, NEW path \in Paths, OpenFile(h, path)
  PROVE  IInv'
<1>1. Idle /\ Typed /\ Leads(fat, disk, handles, crashes) /\ handles \in [Handles -> HandleType]
  BY IdleFacts DEF OpenFile, IInv, Typed
<1>2. PICK E, S, L : /\ Settles(fat, disk, E, S, L) /\ HandlesFit(handles, E)
                     /\ SmallWrites /\ crashes = 0 => AllOwned(fat, S)
  BY <1>1 DEF Leads
<1> DEFINE found == Lookup(fat, disk, path)
           x == Opened(path, found.first, found.size, 0)
<1>3. found # Missing /\ ~found.dir /\ handles' = [handles EXCEPT ![h] = x]
  BY DEF OpenFile
<1>4. Represents(fat, disk, E, S, L) /\ fat \in TableType /\ disk \in DiskType /\ path \in Seq(Names) /\ path # <<>>
  BY <1>1, <1>2, PathsAreSeqs DEF Settles, Sound, Typed
<1>5. found = IF path \in DOMAIN E THEN E[path] ELSE Missing
  BY ONLY <1>4, LookupIs
<1>6. path \in DOMAIN E /\ found = E[path]
  BY <1>3, <1>5
<1>7. E[path] \in EntryType
  BY <1>4, <1>6, TreeFacts DEF Represents
<1>8. found.first \in Clusters /\ found.size \in Nat
  BY <1>6, <1>7, KindFacts
<1> HIDE DEF found
<1>9. x \in HandleType /\ x.path = path /\ x.first = found.first /\ x.size = found.size
  BY <1>8 DEF Opened, HandleType
<1> HIDE DEF x
<1>10. HandlesFit(handles', E) /\ handles' \in [Handles -> HandleType]
  BY <1>1, <1>2, <1>3, <1>6, <1>9, FitsOpened
<1>11. Leads(fat, disk, handles', crashes)
  BY <1>2, <1>10 DEF Leads
<1> QED
  BY <1>1, <1>10, <1>11, HandlesChanged DEF OpenFile

(* A closed file leads nowhere.                                            *)
LEMMA CloseFileHolds ==
  ASSUME IInv, NEW h \in Handles, CloseFile(h)
  PROVE  IInv'
<1>1. Idle /\ Typed /\ Leads(fat, disk, handles, crashes) /\ handles \in [Handles -> HandleType]
  BY IdleFacts DEF CloseFile, IInv, Typed
<1>2. handles' = [handles EXCEPT ![h] = Closed]
  BY DEF CloseFile
<1>3. \A E : HandlesFit(handles, E) => HandlesFit(handles', E)
  BY <1>1, <1>2, FitsOpened, HandleFacts
<1>4. Leads(fat, disk, handles', crashes)
  BY <1>1, <1>3 DEF Leads
<1>5. handles' \in [Handles -> HandleType]
  BY <1>1, <1>2, HandleFacts
<1> QED
  BY <1>1, <1>4, <1>5, HandlesChanged DEF CloseFile

(* A position moves.                                                       *)
LEMMA Moved ==
  ASSUME IInv, Idle, NEW h \in Handles, handles[h].kind = "open", NEW n \in Nat,
         handles' = [handles EXCEPT ![h].position = n],
         UNCHANGED <<fat, saved, disk, pending, doing, crashes, torn>>
  PROVE  IInv'
<1>1. Leads(fat, disk, handles, crashes) /\ handles \in [Handles -> HandleType]
  BY IdleFacts DEF IInv, Typed
<1> DEFINE x == [handles[h] EXCEPT !.position = n]
<1>2. handles[h] \in HandleType
  BY <1>1
<1>3. /\ x \in HandleType
      /\ x.path = handles[h].path /\ x.first = handles[h].first /\ x.size = handles[h].size
  <2>1. x \in HandleType
    BY <1>2, HandleFacts
  <2>2. x.path = handles[h].path /\ x.first = handles[h].first /\ x.size = handles[h].size
    <3>1. handles[h] \in [kind : {"open"}, path : Paths, first : Clusters, size : Nat, position : Nat]
      BY <1>2, HandleFacts DEF HandleType
    <3> QED
      BY <3>1
  <2> QED
    BY <2>1, <2>2
<1>4. handles' = [handles EXCEPT ![h] = x]
  BY <1>1
<1> HIDE DEF x
<1>5. ASSUME NEW E, HandlesFit(handles, E) PROVE HandlesFit(handles', E)
  <2>1. /\ handles[h].path \in DOMAIN E /\ ~E[handles[h].path].dir
        /\ E[handles[h].path].first = handles[h].first
        /\ AppendOnly /\ OneHandle => E[handles[h].path].size = handles[h].size
    BY <1>5 DEF HandlesFit
  <2>2. /\ x.path \in DOMAIN E /\ ~E[x.path].dir /\ E[x.path].first = x.first
        /\ AppendOnly /\ OneHandle => E[x.path].size = x.size
    BY <1>3, <2>1
  <2>3. \A g \in Handles : handles'[g] = IF g = h THEN x ELSE handles[g]
    BY <1>1, <1>4
  <2> QED
    BY <1>5, <2>2, <2>3 DEF HandlesFit
<1>6. Leads(fat, disk, handles', crashes)
  BY <1>1, <1>5 DEF Leads
<1>7. handles' \in [Handles -> HandleType]
  BY <1>1, <1>3, <1>4
<1> QED
  BY <1>6, <1>7, HandlesChanged

(* A read moves the position of an open file.                              *)
LEMMA ReadHolds ==
  ASSUME IInv, NEW h \in Handles, NEW n \in Sizes, Read(h, n)
  PROVE  IInv'
<1>1. Idle /\ handles[h].kind = "open" /\ handles[h] \in HandleType /\ n \in Nat
  BY FatAssumption DEF Read, IInv, Typed
<1>2. handles[h].position \in Nat /\ handles[h].size \in Nat
  BY <1>1, HandleFacts
<1> DEFINE m == Min({handles[h].position + n, handles[h].size})
<1>3. m \in Nat
  <2> DEFINE a == handles[h].position + n
  <2>1. a \in Nat
    BY <1>1, <1>2
  <2> HIDE DEF a
  <2>2. Min({a, handles[h].size}) \in Nat
    BY <1>2, <2>1, MinOf
  <2> QED
    BY <2>2 DEF a
<1>4. handles' = [handles EXCEPT ![h].position = m]
  BY DEF Read
<1> HIDE DEF m
<1> QED
  BY <1>1, <1>3, <1>4, Moved DEF Read

(* So does a seek.                                                         *)
LEMMA SeekHolds ==
  ASSUME IInv, NEW h \in Handles, NEW n \in Nat, Seek(h, n)
  PROVE  IInv'
BY Moved DEF Seek

(***************************************************************************)
(* The steps of create_file, create_folder and rmdir.                      *)
(***************************************************************************)

(* The tree without path, and the table t and disk e with it, unless its   *)
(* entry had no place.                                                     *)
Created(path, dir, t, e) ==
  \E E, S, L, F, T, M :
    /\ Settles(fat, disk, E, S, L) /\ Settles(t, e, F, T, M)
    /\ path \notin DOMAIN E /\ Front(path) \in DOMAIN E /\ E[Front(path)].dir
    /\ Untouched(disk, E, S, e, F, T, DOMAIN E)
    /\ \/ DOMAIN F = DOMAIN E
       \/ DOMAIN F = DOMAIN E \cup {path} /\ F[path].dir = dir /\ F[path].size = 0

(* The tree with path, and the table t and disk e without it.              *)
Deleted(path, t, e) ==
  \E E, S, L, F, T, M :
    /\ Settles(fat, disk, E, S, L) /\ Settles(t, e, F, T, M)
    /\ path \in DOMAIN E /\ path # <<>> /\ L[path] = <<>>
    /\ DOMAIN F = DOMAIN E \ {path} /\ Untouched(disk, E, S, e, F, T, DOMAIN F)

(* Where the writes of a creation lead, and the open file of a new file.   *)
LEMMA CreateLeads ==
  ASSUME IInv, NEW path \in Paths, Creatable(path), NEW dir \in BOOLEAN,
         NEW new, new = NewItem(path, dir)
  PROVE  /\ new.writes # <<>> /\ new.first \in Clusters
         /\ \E e : /\ Goes(Creation(dir), fat, disk, new.writes, new.table, e)
                   /\ Leads(new.table, e, handles, crashes) /\ Created(path, dir, new.table, e)
                   /\ \A h \in Handles : new.ok /\ ~dir =>
                        Leads(new.table, e, [handles EXCEPT ![h] = Opened(path, new.first, 0, 0)], crashes)
<1>1. /\ Idle /\ Leads(fat, disk, handles, crashes) /\ handles \in [Handles -> HandleType]
      /\ fat \in TableType /\ disk \in DiskType
  BY IdleFacts DEF Creatable, IInv, Typed
<1>2. PICK E, S, L : /\ Settles(fat, disk, E, S, L) /\ HandlesFit(handles, E)
                     /\ SmallWrites /\ crashes = 0 => AllOwned(fat, S)
  BY <1>1 DEF Leads
<1> DEFINE f == Front(path)
           op == Creation(dir)
<1>3. Represents(fat, disk, E, S, L)
  BY <1>2 DEF Settles, Sound
<1>4. path \in Seq(Names) /\ path # <<>> /\ f \in Seq(Names)
  BY PathsAreSeqs, PathFacts
<1>5. \A p \in Seq(Names) : Lookup(fat, disk, p) = IF p \in DOMAIN E THEN E[p] ELSE Missing
  BY ONLY <1>1, <1>3, LookupIs
<1>6. \A p \in DOMAIN E : E[p] # Missing
  BY <1>3, TreeFacts DEF Represents
<1>7. path \notin DOMAIN E
  BY <1>4, <1>5, <1>6 DEF Creatable
<1>8. f \in DOMAIN E /\ E[f].dir
  BY <1>4, <1>5 DEF Creatable
<1>9. FreeIn(fat) # {} /\ op = Creation(dir) /\ f = Front(path)
  BY DEF Creatable
<1> HIDE DEF f, op
<1>10. /\ new.first \in Clusters /\ new.writes # <<>> /\ new.table \in TableType
       /\ Makes(op, path, dir, E, S, new)
  BY <1>1, <1>2, <1>7, <1>8, <1>9, CreateGoes, SMTT(60)
<1>11. PICK F, T, M, e :
            /\ Goes(op, fat, disk, new.writes, new.table, e)
            /\ Settles(new.table, e, F, T, M)
            /\ \A q \in DOMAIN E : q \in DOMAIN F /\ F[q] = E[q]
            /\ new.ok => path \in DOMAIN F /\ F[path] = Entry(Last(path), dir, new.first, 0)
            /\ AllOwned(fat, S) => AllOwned(new.table, T)
            /\ Untouched(disk, E, S, e, F, T, DOMAIN E)
            /\ DOMAIN F = IF new.ok THEN DOMAIN E \cup {path} ELSE DOMAIN E
  BY <1>10 DEF Makes
<1>12. HandlesFit(handles, F)
  BY <1>2, <1>11 DEF HandlesFit
<1>13. Leads(new.table, e, handles, crashes)
  BY <1>2, <1>11, <1>12 DEF Leads
<1>14. ASSUME NEW h \in Handles, new.ok, ~dir
       PROVE  Leads(new.table, e, [handles EXCEPT ![h] = Opened(path, new.first, 0, 0)], crashes)
  <2> DEFINE x == Opened(path, new.first, 0, 0)
             H == [handles EXCEPT ![h] = x]
  <2>1. x.path = path /\ x.first = new.first /\ x.size = 0
    BY DEF Opened
  <2>2. /\ path \in DOMAIN F /\ F[path].dir = dir /\ F[path].first = new.first /\ F[path].size = 0
    BY <1>11, <1>14 DEF Entry
  <2> HIDE DEF x
  <2>3. \A g \in Handles : H[g] = IF g = h THEN x ELSE handles[g]
    BY <1>1
  <2> HIDE DEF H
  <2>4. HandlesFit(H, F)
    BY <1>12, <1>14, <2>1, <2>2, <2>3 DEF HandlesFit
  <2>5. Leads(new.table, e, H, crashes)
    BY <1>2, <1>11, <2>4 DEF Leads
  <2> QED
    BY <2>5 DEF H, x
<1>15. Created(path, dir, new.table, e)
  <2> DEFINE v == Entry(Last(path), dir, new.first, 0)
  <2>1. v.dir = dir /\ v.size = 0 /\ (new.ok => F[path] = v)
    BY <1>11 DEF Entry
  <2> HIDE DEF v
  <2>2. \/ DOMAIN F = DOMAIN E
        \/ DOMAIN F = DOMAIN E \cup {path} /\ F[path].dir = dir /\ F[path].size = 0
    BY <1>11, <2>1
  <2> QED
    BY <1>2, <1>7, <1>8, <1>9, <1>11, <2>2 DEF Created
<1> QED
  BY <1>9, <1>10, <1>11, <1>13, <1>14, <1>15

(* The new file is in the tree, and its open file leads to it.             *)
LEMMA CreateFileHolds ==
  ASSUME IInv, NEW h \in Handles, NEW path \in Paths, CreateFile(h, path)
  PROVE  IInv' /\ Created(path, FALSE, fat', Future')
<1> DEFINE new == NewItem(path, FALSE)
           x == Opened(path, new.first, 0, 0)
<1>1. /\ Creatable(path) /\ Idle /\ Begin("create_file", new.table, new.writes)
      /\ handles' = (IF new.ok THEN [handles EXCEPT ![h] = x] ELSE handles)
      /\ handles \in [Handles -> HandleType]
  BY DEF CreateFile, Creatable, IInv, Typed
<1>2. new = NewItem(path, FALSE) /\ FALSE \in BOOLEAN /\ Creation(FALSE) = "create_file"
  BY DEF Creation
<1> HIDE DEF new
<1>3. /\ new.writes # <<>> /\ new.first \in Clusters
      /\ \E e : /\ Goes(Creation(FALSE), fat, disk, new.writes, new.table, e)
                /\ Leads(new.table, e, handles, crashes) /\ Created(path, FALSE, new.table, e)
                /\ \A g \in Handles : new.ok /\ ~FALSE =>
                     Leads(new.table, e, [handles EXCEPT ![g] = Opened(path, new.first, 0, 0)], crashes)
  BY <1>1, <1>2, CreateLeads
<1>4. PICK e : /\ Goes(Creation(FALSE), fat, disk, new.writes, new.table, e)
               /\ Leads(new.table, e, handles, crashes) /\ Created(path, FALSE, new.table, e)
               /\ \A g \in Handles : new.ok =>
                    Leads(new.table, e, [handles EXCEPT ![g] = Opened(path, new.first, 0, 0)], crashes)
  BY <1>3
<1>5. x \in HandleType
  BY <1>3 DEF Opened, HandleType
<1>6. handles' \in [Handles -> HandleType] /\ Leads(new.table, e, handles', crashes)
  BY <1>1, <1>4, <1>5
<1>7. Goes("create_file", fat, disk, new.writes, new.table, e)
  BY <1>2, <1>4
<1> HIDE DEF x
<1>8. fat' = new.table /\ Future' = e
  BY <1>1, <1>7, BegunAt
<1>9. IInv'
  BY <1>1, <1>3, <1>6, <1>7, Begun DEF Operations
<1> QED
  BY <1>4, <1>8, <1>9

(* The new folder is in the tree.                                          *)
LEMMA CreateFolderHolds ==
  ASSUME IInv, NEW path \in Paths, CreateFolder(path)
  PROVE  IInv' /\ Created(path, TRUE, fat', Future')
<1> DEFINE new == NewItem(path, TRUE)
<1>1. /\ Creatable(path) /\ Idle /\ Begin("create_folder", new.table, new.writes)
      /\ handles' = handles /\ handles \in [Handles -> HandleType]
  BY DEF CreateFolder, Creatable, IInv, Typed
<1>2. new = NewItem(path, TRUE) /\ TRUE \in BOOLEAN /\ Creation(TRUE) = "create_folder"
  BY DEF Creation
<1> HIDE DEF new
<1>3. /\ new.writes # <<>>
      /\ \E e : /\ Goes(Creation(TRUE), fat, disk, new.writes, new.table, e)
                /\ Leads(new.table, e, handles, crashes) /\ Created(path, TRUE, new.table, e)
  BY <1>1, <1>2, CreateLeads
<1>4. PICK e : /\ Goes("create_folder", fat, disk, new.writes, new.table, e)
               /\ Leads(new.table, e, handles, crashes) /\ Created(path, TRUE, new.table, e)
  BY <1>2, <1>3
<1>5. fat' = new.table /\ Future' = e
  BY <1>1, <1>4, BegunAt
<1>6. IInv'
  BY <1>1, <1>3, <1>4, Begun DEF Operations
<1> QED
  BY <1>4, <1>5, <1>6

(* The units of cluster i, cut out of those of a whole folder.             *)
LEMMA CutIs ==
  ASSUME NEW w \in Nat, w > 0, NEW n \in Nat, NEW i \in 1 .. n, NEW u \in Seq(Unit), Len(u) = w * n
  PROVE  SubSeq(u, (i - 1) * w + 1, i * w) \in Seq(Unit) /\ Len(SubSeq(u, (i - 1) * w + 1, i * w)) = w
<1> DEFINE a == (i - 1) * w
           b == i * w
<1>1. b = a + w /\ a \in Nat /\ b \in Nat
  <2>1. i - 1 \in Nat /\ w \in Nat /\ i \in Nat
    OBVIOUS
  <2>2. (i - 1) * w = i * w - w
    BY <2>1
  <2>3. (i - 1) * w \in Nat /\ i * w \in Nat
    BY <2>1
  <2> QED
    BY <2>2, <2>3
<1>2. b <= Len(u)
  <2>1. w * i <= w * n
    BY TimesMore
  <2>2. w * i = i * w
    OBVIOUS
  <2> QED
    BY <2>1, <2>2
<1> HIDE DEF a, b
<1>3. SubSeq(u, a + 1, b) \in Seq(Unit) /\ Len(SubSeq(u, a + 1, b)) = w
  BY <1>1, <1>2
<1> QED
  BY <1>3 DEF a, b

(* A removed item leaves the tree, with its clusters.                     *)
LEMMA RmdirHolds ==
  ASSUME IInv, NEW path \in Paths, Rmdir(path)
  PROVE  IInv' /\ Deleted(path, fat', Future')
<1>1. /\ Idle /\ Leads(fat, disk, handles, crashes) /\ handles \in [Handles -> HandleType]
      /\ fat \in TableType /\ disk \in DiskType /\ ~InUse(path) /\ handles' = handles
      /\ Lookup(fat, disk, path) # Missing
  BY IdleFacts DEF Rmdir, IInv, Typed
<1>2. PICK E, S, L : /\ Settles(fat, disk, E, S, L) /\ HandlesFit(handles, E)
                     /\ SmallWrites /\ crashes = 0 => AllOwned(fat, S)
  BY <1>1 DEF Leads
<1> DEFINE f     == Front(path)
           first == Lookup(fat, disk, path).first
           gone  == Chain(fat, first)
           t     == [c \in Clusters |-> IF c \in ToSet(gone) THEN Free ELSE fat[c]]
           up    == Lookup(fat, disk, f).first
           upper == Chain(fat, up)
           width == Len(disk[up])
           j     == Index(Items(fat, disk, up), Last(path))
           rest  == Without(Units(disk, Chain(fat, up)), j + Header(up))
           w1    == Cleared(gone)
           w2    == [i \in 1 .. Len(upper) |-> WriteUnits(upper[i], [x \in 1 .. width |-> Blank])]
           w3    == [i \in 1 .. Len(upper) |->
                       WriteUnits(upper[i], SubSeq(rest, (i - 1) * width + 1, i * width))]
           w     == ((w1 \o <<SaveTables(t)>>) \o w2) \o w3
<1>3. Items(fat, disk, first) = <<>> /\ Begin("rmdir", t, w)
  BY DEF Rmdir
<1>4. Represents(fat, disk, E, S, L) /\ IsTree(E, S, L) /\ ChainsApart(fat, E, S)
  BY <1>2 DEF Settles, Sound, Represents
<1>5. path \in Seq(Names) /\ path # <<>> /\ f \in Seq(Names)
  BY PathsAreSeqs, PathFacts
<1>6. \A p \in Seq(Names) : Lookup(fat, disk, p) = IF p \in DOMAIN E THEN E[p] ELSE Missing
  BY ONLY <1>1, <1>4, LookupIs
<1>7. path \in DOMAIN E /\ first = E[path].first
  BY <1>1, <1>5, <1>6
<1>8. f \in DOMAIN E /\ E[f].dir /\ \E k \in 1 .. Len(L[f]) : L[f][k] = Last(path)
  BY <1>4, <1>5, <1>7, ListedAt
<1>9. up = E[f].first
  BY <1>5, <1>6, <1>8
<1>10. gone = S[path] /\ upper = S[f]
  <2>1. \A p \in DOMAIN E : Chain(fat, E[p].first) = S[p]
    BY ONLY <1>1, <1>4, ShapeOf
  <2> QED
    BY <1>7, <1>8, <1>9, <2>1
<1>11. up = S[f][1] /\ L[path] \in Seq(Names) /\ (~E[path].dir => L[path] = <<>>)
  BY <1>4, <1>7, <1>8, <1>9, TreeFacts
<1>12. Shaped(S[f]) /\ S[f] \in Seq(Areas) /\ Len(S[f]) \in Nat /\ Len(S[f]) > 0
  BY <1>1, <1>4, <1>8, ShapeOf
<1>13. /\ S[f][1] \in Areas /\ Width(S[f][1]) \in Nat /\ Width(S[f][1]) > 0
       /\ \A i \in 1 .. Len(S[f]) : S[f][i] \in Areas /\ Width(S[f][i]) = Width(S[f][1])
  <2>1. /\ S[f][1] \in Areas /\ Width(S[f][1]) \in Nat /\ Width(S[f][1]) >= 2
        /\ \A i \in 1 .. Len(S[f]) : S[f][i] \in Areas /\ Len(disk[S[f][i]]) = Width(S[f][1])
        /\ \A a \in Areas : Len(disk[a]) = Width(a)
    BY ONLY <1>1, <1>12, ShapedFacts
  <2> QED
    BY <2>1
<1>14. width = Width(S[f][1])
  BY <1>1, <1>11, <1>13 DEF DiskType
<1>15. L[path] = <<>>
  <2>1. CASE E[path].dir
    <3>1. Len(Items(fat, disk, E[path].first)) = Len(L[path])
      BY <1>1, <1>4, <1>7, <2>1, ItemsOfFolder
    <3>2. Len(L[path]) = 0
      BY <1>3, <1>7, <3>1
    <3> QED
      BY <1>11, <3>2
  <2> QED
    BY <1>11, <2>1
<1>16. PICK k \in 1 .. Len(L[f]) : L[f][k] = Last(path)
  BY <1>8
<1>17. j = k
  <2>1. Last(path) \in Names
    BY <1>5, PathFacts
  <2>2. \A i \in 1 .. Len(L[f]) : L[f][i] = Last(path) => Index(Items(fat, disk, E[f].first), Last(path)) = i
    BY ONLY <1>1, <1>4, <1>8, <2>1, UnderFolder
  <2> QED
    BY <1>9, <1>16, <2>2
<1>18. rest = Without(Units(disk, S[f]), k + Header(S[f][1]))
  BY <1>10, <1>11, <1>17
<1>19. t \in TableType /\ \A c \in Clusters : t[c] = IF c \in ToSet(S[path]) THEN Free ELSE fat[c]
  BY <1>1, <1>10 DEF TableType
<1>20. /\ w1 = Cleared(S[path])
       /\ w2 = [i \in 1 .. Len(S[f]) |-> WriteUnits(S[f][i], [x \in 1 .. width |-> Blank])]
       /\ w3 = [i \in 1 .. Len(S[f]) |->
                   WriteUnits(S[f][i], SubSeq(rest, (i - 1) * width + 1, i * width))]
       /\ w = ((w1 \o <<SaveTables(t)>>) \o w2) \o w3
  BY <1>10
<1> HIDE DEF f, first, gone, t, up, upper, width, j, rest, w1, w2, w3, w
<1>21. rest \in Seq(Unit) /\ Len(rest) = width * Len(S[f])
  <2> DEFINE U == Units(disk, S[f])
             b == k + Header(S[f][1])
  <2>1. U \in Seq(Unit) /\ Len(U) = Width(S[f][1]) * Len(S[f])
    BY ONLY <1>1, <1>12, UnitsFacts
  <2>2. Header(S[f][1]) + Len(L[f]) <= Len(U) /\ Header(S[f][1]) \in {1, 2}
    BY <1>4, <1>8 DEF Represents, Holds, FolderHolds, Header
  <2>3. Len(L[f]) \in Nat /\ Len(U) \in Nat
    BY <1>4, <1>8, <2>1, TreeFacts
  <2>4. b \in 1 .. Len(U)
    BY <1>16, <2>2, <2>3
  <2> HIDE DEF U, b
  <2>5. Without(U, b) \in Seq(Unit) /\ Len(Without(U, b)) = Len(U)
    BY <2>1, <2>4, WithoutFacts
  <2> QED
    BY <1>14, <1>18, <2>1, <2>5 DEF U, b
<1>22. w2 \in Seq(WriteType) /\ Len(w2) = Len(S[f]) /\ \A i \in 1 .. Len(S[f]) : w2[i].at = S[f][i]
  <2> DEFINE s == [x \in 1 .. width |-> Blank]
  <2>1. s \in Seq(Unit) /\ Len(s) = width
    <3>1. s \in [1 .. width -> Unit] /\ width \in Nat
      BY <1>13, <1>14 DEF Unit
    <3> QED
      BY <3>1
  <2>2. w2 = [i \in 1 .. Len(S[f]) |-> WriteUnits(S[f][i], s)]
    BY <1>20
  <2> HIDE DEF s
  <2>3. ASSUME NEW i \in 1 .. Len(S[f])
        PROVE  WriteUnits(S[f][i], s) \in WriteType /\ WriteUnits(S[f][i], s).at = S[f][i]
    BY <1>13, <1>14, <2>1, WriteIs
  <2> QED
    BY <1>12, <2>2, <2>3
<1>23. /\ w3 \in Seq(WriteType) /\ Len(w3) = Len(S[f])
       /\ \A i \in 1 .. Len(S[f]) : /\ w3[i].at = S[f][i]
                                    /\ w3[i].what = SubSeq(rest, (i - 1) * width + 1, i * width)
  <2>1. ASSUME NEW i \in 1 .. Len(S[f])
        PROVE  LET s == SubSeq(rest, (i - 1) * width + 1, i * width)
               IN /\ WriteUnits(S[f][i], s) \in WriteType /\ WriteUnits(S[f][i], s).at = S[f][i]
                  /\ WriteUnits(S[f][i], s).what = s
    <3> DEFINE s == SubSeq(rest, (i - 1) * width + 1, i * width)
    <3>1. width \in Nat /\ width > 0
      BY <1>13, <1>14
    <3>2. s \in Seq(Unit) /\ Len(s) = width
      BY ONLY <1>12, <1>21, <3>1, i \in 1 .. Len(S[f]), CutIs
    <3> HIDE DEF s
    <3>3. S[f][i] \in Areas /\ Len(s) = Width(S[f][i])
      BY <1>13, <1>14, <3>2
    <3>4. /\ WriteUnits(S[f][i], s) \in WriteType /\ WriteUnits(S[f][i], s).at = S[f][i]
          /\ WriteUnits(S[f][i], s).what = s
      BY ONLY <3>2, <3>3, WriteIs
    <3> QED
      BY <3>4 DEF s
  <2> QED
    BY <1>12, <1>20, <2>1
<1>24. w # <<>> /\ Removed(E, S, path, t, w)
  <2>1. f = Front(path)
    BY DEF f
  <2>2. w1 = Cleared(S[path]) /\ w = ((w1 \o <<SaveTables(t)>>) \o w2) \o w3
    BY <1>20
  <2>3. Settles(fat, disk, E, S, L) /\ fat \in TableType /\ disk \in DiskType
    BY <1>1, <1>2
  <2>4. t \in TableType
    BY <1>19
  <2>5. \A c \in Clusters : t[c] = IF c \in ToSet(S[path]) THEN Free ELSE fat[c]
    BY <1>19
  <2>6. path \in DOMAIN E /\ path # <<>>
    BY <1>5, <1>7
  <2>7. w3 \in Seq(WriteType) /\ w2 \in Seq(WriteType) /\ Len(w2) = Len(S[f]) /\ Len(w3) = Len(S[f])
    BY <1>22, <1>23
  <2>8. \A i \in 1 .. Len(S[f]) : w2[i].at = S[f][i]
    BY <1>22
  <2>9. \A i \in 1 .. Len(S[f]) : w3[i].at = S[f][i] /\ w3[i].what = SubSeq(rest, (i - 1) * width + 1, i * width)
    BY <1>23
  <2>10. Removal(E, S, L, path, f, k, t, rest, width, w1, w2, w3)
    BY <1>14, <1>15, <1>16, <1>18, <2>1, <2>2, <2>5, <2>6, <2>7, <2>8, <2>9 DEF Removal
  <2> QED
    BY ONLY <2>2, <2>3, <2>4, <2>10, RmdirGoes
<1>25. PICK F, T, M, e :
            /\ Goes("rmdir", fat, disk, w, t, e) /\ Settles(t, e, F, T, M)
            /\ \A q \in DOMAIN E : q # path => q \in DOMAIN F /\ F[q] = E[q]
            /\ AllOwned(fat, S) => AllOwned(t, T)
            /\ DOMAIN F = DOMAIN E \ {path} /\ Untouched(disk, E, S, e, F, T, DOMAIN F)
  BY <1>24 DEF Removed
<1>26. HandlesFit(handles, F)
  BY <1>1, <1>2, <1>25 DEF HandlesFit, InUse
<1>27. Leads(t, e, handles', crashes)
  BY <1>1, <1>2, <1>25, <1>26 DEF Leads
<1>28. Begin("rmdir", t, w)
  BY <1>3 DEF f, first, gone, t, up, upper, width, j, rest, w1, w2, w3, w
<1>29. IInv'
  BY <1>1, <1>24, <1>25, <1>27, <1>28, Begun DEF Operations
<1>30. fat' = t /\ Future' = e
  BY <1>25, <1>28, BegunAt
<1>31. Deleted(path, t, e)
  BY <1>2, <1>5, <1>7, <1>15, <1>25 DEF Deleted
<1> QED
  BY <1>29, <1>30, <1>31

(***************************************************************************)
(* What a write needs: its clusters, the free ones and the edge.           *)
(***************************************************************************)

(* S1 are the chains after the allocation at the edge of the file q.       *)
Edged(t, before, E, S, L, q, S1) ==
  /\ t \in TableType /\ Goes("write", fat, disk, before, t, disk) /\ Settles(t, disk, E, S1, L)
  /\ \A x \in DOMAIN E : x # q => S1[x] = S[x]
  /\ AllOwned(fat, S) => AllOwned(t, S1)
  /\ S1[q] = S[q] \/ \E c \in Clusters : S1[q] = Append(S[q], c)

(* A write at the edge of the last cluster of a file allocates one first.  *)
LEMMA EdgeGoes ==
  ASSUME fat \in TableType, disk \in DiskType, NEW E, NEW S, NEW L, Settles(fat, disk, E, S, L),
         NEW q \in DOMAIN E, q # <<>>, FreeIn(fat) # {}, NEW t, t = AllocateNewCluster(fat, E[q].first)
  PROVE  \E S1 : Edged(t, <<SaveTables(t)>>, E, S, L, q, S1)
<1> DEFINE c == NextFree(fat)
           T == With(S, q, Append(S[q], c))
<1>1. /\ t \in TableType /\ c \in Clusters /\ c \in FreeIn(fat)
      /\ \A x \in Clusters : x # c /\ x # Last(S[q]) => t[x] = fat[x]
      /\ Settles(t, disk, E, T, L)
  BY Allocated1
<1>2. q \in DOMAIN S /\ DOMAIN S = DOMAIN E /\ IsTree(E, S, L) /\ ChainsApart(fat, E, S)
  BY TreeFacts DEF Settles, Sound, Represents
<1>3. /\ DOMAIN T = DOMAIN E /\ T[q] = Append(S[q], c) /\ \A x \in DOMAIN E : x # q => T[x] = S[x]
  <2>1. DOMAIN S \cup {q} = DOMAIN E
    BY <1>2
  <2> DEFINE v == Append(S[q], c)
  <2> HIDE DEF v
  <2>2. /\ DOMAIN With(S, q, v) = DOMAIN S \cup {q} /\ With(S, q, v)[q] = v
        /\ \A y \in DOMAIN S : y # q => With(S, q, v)[y] = S[y]
    BY DEF With
  <2>3. T = With(S, q, v)
    BY DEF v
  <2> HIDE DEF T
  <2> QED
    BY <1>2, <2>1, <2>2, <2>3 DEF v
<1>4. /\ S[q] \in Seq(Clusters) /\ Len(S[q]) \in Nat /\ Len(S[q]) > 0 /\ DOMAIN S[q] = 1 .. Len(S[q])
      /\ IsChain(fat, S[q])
  BY <1>2, ShapeOf
<1> HIDE DEF T, c
<1>5. \A y \in ToSet(S[q]) \cup {c} : y \in ToSet(T[q])
  <2> DEFINE s == S[q]
  <2>1. s \in Seq(Clusters) /\ DOMAIN s = 1 .. Len(s) /\ Len(s) \in Nat /\ T[q] = Append(s, c)
    BY <1>3, <1>4
  <2> HIDE DEF s
  <2>2. DOMAIN Append(s, c) = 1 .. Len(s) + 1 /\ Append(s, c)[Len(s) + 1] = c
        /\ \A i \in 1 .. Len(s) : Append(s, c)[i] = s[i]
    BY <1>1, <2>1
  <2>3. \A y \in ToSet(s) \cup {c} : y \in ToSet(Append(s, c))
    BY <2>1, <2>2 DEF ToSet
  <2> QED
    BY <2>1, <2>3 DEF s
<1>6. ASSUME AllOwned(fat, S) PROVE AllOwned(t, T)
  <2> SUFFICES ASSUME NEW x \in Clusters, t[x] # Free
               PROVE  \E p \in DOMAIN T \ {<<>>} : x \in ToSet(T[p])
    BY DEF AllOwned
  <2>1. CASE x = c
    BY <1>3, <1>5, <2>1
  <2>2. CASE x # c /\ x = Last(S[q])
    <3>1. x \in ToSet(S[q])
      BY <1>4, <2>2 DEF ToSet, Last
    <3> QED
      BY <1>3, <1>5, <3>1
  <2>3. CASE x # c /\ x # Last(S[q])
    <3>1. fat[x] # Free
      BY <1>1, <2>3
    <3>2. PICK p \in DOMAIN S \ {<<>>} : x \in ToSet(S[p])
      BY <1>6, <3>1 DEF AllOwned
    <3>3. CASE p = q
      BY <1>3, <1>5, <3>2, <3>3
    <3>4. CASE p # q
      BY <1>2, <1>3, <3>2, <3>4
    <3> QED
      BY <3>3, <3>4
  <2> QED
    BY <2>1, <2>2, <2>3
<1>7. Goes("write", fat, disk, <<SaveTables(t)>>, t, disk)
  <2>1. Midway("write", fat, disk) /\ Midway("write", t, disk)
    BY <1>1, SettlesMidway
  <2> QED
    BY <1>1, <2>1, GoesTable
<1>8. Edged(t, <<SaveTables(t)>>, E, S, L, q, T)
  BY <1>1, <1>3, <1>6, <1>7 DEF Edged
<1> QED
  BY <1>8

(* A write elsewhere allocates nothing first.                              *)
LEMMA NoEdgeGoes ==
  ASSUME fat \in TableType, disk \in DiskType, NEW E, NEW S, NEW L, Settles(fat, disk, E, S, L), NEW q
  PROVE  Edged(fat, <<>>, E, S, L, q, S)
BY SettlesMidway, GoesNowhere DEF Edged

(* The units of a write, counted from the beginning of its first cluster,  *)
(* and the clusters that they take.                                        *)
LEMMA CountFacts ==
  ASSUME NEW p \in Nat, NEW n \in Nat, n > 0, NEW len, len = (p % Size) + n,
         NEW count, count = (len + Size - 1) \div Size
  PROVE  /\ p \div Size \in Nat /\ p % Size \in 0 .. Size - 1 /\ p = Size * (p \div Size) + (p % Size)
         /\ len \in Nat /\ len > p % Size /\ count \in Nat /\ count >= 1
         /\ n <= Size + 1 => count <= 2
<1>1. Size \in Nat /\ Size > 2
  BY ConstantFacts
<1>2. p \div Size \in Nat /\ p % Size \in 0 .. Size - 1 /\ p = Size * (p \div Size) + (p % Size)
  <2>1. Size > 0
    BY <1>1
  <2> QED
    <3> DEFINE a == p
    <3>1. a \in Nat /\ a = p
      OBVIOUS
    <3> HIDE DEF a
    <3>2. a \div Size \in Nat /\ a % Size \in 0 .. Size - 1 /\ a = Size * (a \div Size) + (a % Size)
      BY ONLY <1>1, <2>1, <3>1, DivMod
    <3> QED
      BY ONLY <3>1, <3>2
<1> DEFINE r == p % Size
           m == len + Size - 1
<1>3. r \in 0 .. Size - 1 /\ len = r + n /\ len \in Nat /\ len > r /\ m \in Nat /\ m >= Size
      /\ (n <= Size + 1 => m < 3 * Size)
  <2>1. r \in 0 .. Size - 1 /\ len = r + n
    BY <1>2
  <2> HIDE DEF r
  <2> QED
    BY <1>1, <2>1
<1>4. count = m \div Size
  OBVIOUS
<1> HIDE DEF m
<1>5. count \in Nat /\ \E y \in 0 .. Size - 1 : m = Size * count + y
  <2>1. Size > 0 /\ m \in Nat
    BY <1>1, <1>3
  <2>2. m \div Size \in Nat /\ m % Size \in 0 .. Size - 1 /\ m = Size * (m \div Size) + (m % Size)
    BY ONLY <1>1, <2>1, DivMod
  <2> DEFINE y == m % Size
  <2>3. y \in 0 .. Size - 1 /\ m = Size * (m \div Size) + y
    BY ONLY <2>2
  <2> HIDE DEF y
  <2> QED
    BY <1>4, <2>2, <2>3
<1>6. PICK y \in 0 .. Size - 1 : m = Size * count + y
  BY <1>5
<1>7. count # 0
  <2> SUFFICES ASSUME count = 0 PROVE FALSE
    OBVIOUS
  <2>1. Size * count = 0
    BY <1>1
  <2> QED
    BY <1>1, <1>3, <1>6, <2>1
<1>8. n <= Size + 1 => count <= 2
  <2> SUFFICES ASSUME m < 3 * Size, count >= 3 PROVE FALSE
    BY <1>3, <1>5
  <2>1. Size * 3 <= Size * count /\ Size * count \in Nat
    BY <1>1, <1>5, TimesMore
  <2> QED
    BY <1>1, <1>3, <1>6, <2>1
<1> QED
  BY <1>2, <1>3, <1>5, <1>7, <1>8

(* The clusters that a write goes to, and the position it ends at.         *)
LEMMA EndFacts ==
  ASSUME NEW k \in Nat, NEW r \in 0 .. Size - 1, NEW len \in Nat, len > r,
         NEW count \in Nat, count >= 1, NEW C \in Nat, k < C, NEW N \in Nat,
         NEW m, m = Min({k + count, C}), NEW T, T = m - k + N,
         NEW end, end = k * Size + Min({len, Size * T})
  PROVE  /\ m \in k + 1 .. C /\ T \in Nat /\ end \in Nat /\ end > Size * k + r /\ end <= Size * (C + N)
<1>1. Size \in Nat /\ Size > 2
  BY ConstantFacts
<1>2. m = IF k + count <= C THEN k + count ELSE C
  <2> DEFINE a == k + count
  <2>1. a \in Nat
    OBVIOUS
  <2> HIDE DEF a
  <2>2. Min({a, C}) = IF a <= C THEN a ELSE C
    BY <2>1, MinOf
  <2> QED
    BY <2>2 DEF a
<1>3. m \in k + 1 .. C
  BY <1>2
<1>4. T \in Nat /\ T >= 1 /\ k + T \in Nat /\ k + T <= C + N /\ C + N \in Nat
  BY <1>3
<1> DEFINE b == Size * T
<1>5. b \in Nat /\ b >= Size
  <2>1. Size * 1 <= Size * T /\ Size * T \in Nat
    BY <1>1, <1>4, TimesMore
  <2> QED
    BY <1>1, <2>1
<1>6. end = k * Size + (IF len <= b THEN len ELSE b)
  <2>1. end = k * Size + Min({len, b})
    OBVIOUS
  <2> HIDE DEF b
  <2> QED
    BY <1>5, <2>1, MinOf
<1>7. k * Size = Size * k /\ Size * k \in Nat
  BY <1>1
<1>8. Size * (k + T) <= Size * (C + N)
  <2> DEFINE x == k + T
             y == C + N
  <2>1. x \in Nat /\ y \in Nat /\ x <= y
    BY <1>4
  <2> HIDE DEF x, y
  <2>2. Size * x <= Size * y
    BY <1>1, <2>1, TimesMore
  <2> QED
    BY <2>2 DEF x, y
<1>9. Size * (k + T) = Size * k + b
  BY <1>1, <1>4
<1> DEFINE z == Size * k
           g == Size * (C + N)
<1>10. z \in Nat /\ g \in Nat /\ z + b <= g /\ end = z + (IF len <= b THEN len ELSE b)
  BY <1>1, <1>4, <1>6, <1>7, <1>8, <1>9
<1>11. end \in Nat /\ end > z + r /\ end <= g
  <2> HIDE DEF b, z, g
  <2> QED
    <3>1. CASE len <= b
      <4>1. end = z + len /\ z + len <= g
        BY ONLY <1>5, <1>10, len \in Nat, <3>1
      <4> QED
        BY ONLY <4>1, <1>1, <1>10, r \in 0 .. Size - 1, len \in Nat, len > r
    <3>2. CASE ~(len <= b)
      <4>1. end = z + b
        BY ONLY <1>5, <1>10, <3>2
      <4> QED
        BY ONLY <4>1, <1>1, <1>5, <1>10, r \in 0 .. Size - 1
    <3> QED
      BY ONLY <3>1, <3>2
<1> QED
  BY <1>3, <1>4, <1>11

(* The clusters of a write belong to the file or are new.                  *)
LEMMA TargetFacts ==
  ASSUME NEW chain \in Seq(Clusters), NEW new \in Seq(Clusters), NEW a \in Nat, a > 0,
         NEW m \in Nat, a <= m, m <= Len(chain), NEW target, target = SubSeq(chain, a, m) \o new
  PROVE  /\ target \in Seq(Clusters)
         /\ \A i \in 1 .. Len(target) : target[i] \in ToSet(chain) \/ target[i] \in ToSet(new)
<1> DEFINE s == SubSeq(chain, a, m)
<1>1. /\ s \in Seq(Clusters) /\ Len(s) = m - a + 1 /\ \A i \in 1 .. Len(s) : s[i] = chain[a + i - 1]
  <2>1. a \in 1 .. Len(chain) /\ m \in 1 .. Len(chain) /\ Len(chain) \in Nat
    OBVIOUS
  <2> QED
    BY <2>1
<1>2. target = s \o new /\ Len(new) \in Nat
  OBVIOUS
<1>3. \A i \in 1 .. Len(s) : s[i] \in ToSet(chain)
  <2> SUFFICES ASSUME NEW i \in 1 .. Len(s) PROVE s[i] \in ToSet(chain)
    OBVIOUS
  <2>1. a + i - 1 \in DOMAIN chain
    BY <1>1
  <2> QED
    BY <1>1, <2>1 DEF ToSet
<1>4. \A i \in 1 .. Len(new) : new[i] \in ToSet(new)
  BY DEF ToSet
<1> HIDE DEF s
<1>5. /\ target \in Seq(Clusters) /\ Len(target) = Len(s) + Len(new)
      /\ \A i \in 1 .. Len(target) : target[i] = IF i <= Len(s) THEN s[i] ELSE new[i - Len(s)]
  <2>1. s \in Seq(Clusters) /\ new \in Seq(Clusters)
    BY <1>1
  <2>2. /\ s \o new \in Seq(Clusters) /\ Len(s \o new) = Len(s) + Len(new)
        /\ \A i \in 1 .. Len(s \o new) : (s \o new)[i] = IF i <= Len(s) THEN s[i] ELSE new[i - Len(s)]
    BY ONLY <2>1, ConcatProperties
  <2> QED
    BY ONLY <1>2, <2>2
<1>6. ASSUME NEW i \in 1 .. Len(target) PROVE target[i] \in ToSet(chain) \/ target[i] \in ToSet(new)
  <2>1. Len(s) \in Nat
    BY <1>1
  <2>2. CASE i <= Len(s)
    <3>1. i \in 1 .. Len(s)
      BY <1>5, <2>1, <2>2
    <3> QED
      BY <1>3, <1>5, <2>2, <3>1
  <2>3. CASE ~(i <= Len(s))
    <3>1. i - Len(s) \in 1 .. Len(new)
      BY <1>2, <1>5, <2>1, <2>3
    <3> QED
      BY <1>4, <1>5, <2>3, <3>1
  <2> QED
    BY <2>2, <2>3
<1> QED
  BY <1>1, <1>5, <1>6

(* The units of a write: those before the position, in the first cluster,  *)
(* and the data.                                                           *)
LEMMA UnitsOfWrite ==
  ASSUME disk \in DiskType, NEW c \in Clusters, NoEntries(disk, c),
         NEW r \in Nat, r <= Size, NEW y, y = SubSeq(disk[c], 1, r), NEW x \in Seq(Piece),
         NEW units, units = y \o x
  PROVE  units \in Seq(Piece) /\ y \in Seq(Piece)
<1>1. /\ c \in Areas /\ disk[c] \in Seq(Unit) /\ Len(disk[c]) = Size /\ Size \in Nat
  BY ConstantFacts DEF DiskType, Areas, Width
<1> DEFINE s == SubSeq(disk[c], 1, r)
<1>2. s \in Seq(Piece) /\ Len(s) = r
  <2> DEFINE u == disk[c]
  <2>1. u \in Seq(Unit) /\ Len(u) = Size /\ \A j \in 1 .. Size : u[j] \in Piece
    BY <1>1 DEF NoEntries, Piece
  <2> HIDE DEF u
  <2>2. SubSeq(u, 1, r) \in Seq(Unit) /\ Len(SubSeq(u, 1, r)) = r
        /\ \A j \in 1 .. r : SubSeq(u, 1, r)[j] = u[j]
    BY <1>1, <2>1
  <2>3. \A j \in 1 .. Len(SubSeq(u, 1, r)) : SubSeq(u, 1, r)[j] \in Piece
    BY <1>1, <2>1, <2>2
  <2>4. SubSeq(u, 1, r) = [j \in 1 .. r |-> SubSeq(u, 1, r)[j]]
    BY <2>2
  <2>5. [j \in 1 .. r |-> SubSeq(u, 1, r)[j]] \in Seq(Piece)
    BY <2>2, <2>3
  <2>6. SubSeq(u, 1, r) \in Seq(Piece)
    BY <2>4, <2>5
  <2> QED
    BY <2>2, <2>6 DEF u
<1>3. units = s \o x /\ y = s
  OBVIOUS
<1> HIDE DEF s
<1>4. s \o x \in Seq(Piece) /\ Len(s \o x) = Len(s) + Len(x)
  BY <1>2, ConcatProperties
<1> QED
  BY <1>2, <1>3, <1>4

(* The writes of the data, cluster by cluster.                             *)
DataOf(units, target) ==
  [i \in 1 .. Len(target) |->
     WriteUnits(target[i],
       Over(SubSeq(units, (i - 1) * Size + 1, Min({i * Size, Len(units)})), target[i]))]

(* They are writes of pieces of files.                                     *)
LEMMA DataWrites ==
  ASSUME disk \in DiskType, NEW units \in Seq(Piece), NEW target \in Seq(Clusters),
         \A i \in 1 .. Len(target) : NoEntries(disk, target[i]),
         NEW w, w = DataOf(units, target)
  PROVE  /\ w \in Seq(WriteType) /\ Len(w) = Len(target)
         /\ \A i \in 1 .. Len(target) :
              /\ w[i].at = target[i]
              /\ \A j \in 1 .. Size : w[i].what[j].kind \in {"blank", "data"}
<1>1. ASSUME NEW i \in 1 .. Len(target)
      PROVE  LET part == SubSeq(units, (i - 1) * Size + 1, Min({i * Size, Len(units)}))
                 v    == WriteUnits(target[i], Over(part, target[i]))
             IN /\ v \in WriteType /\ v.at = target[i]
                /\ \A j \in 1 .. Size : v.what[j].kind \in {"blank", "data"}
  <2> DEFINE part == SubSeq(units, (i - 1) * Size + 1, Min({i * Size, Len(units)}))
             c == target[i]
  <2>1. part \in Seq(Piece)
    <3>1. i \in Nat /\ i > 0
      OBVIOUS
    <3> QED
      BY ONLY units \in Seq(Piece), <3>1, PartTyped
  <2>2. c \in Clusters /\ NoEntries(disk, c) /\ disk \in DiskType
    OBVIOUS
  <2> HIDE DEF part, c
  <2> DEFINE s == Over(part, c)
  <2>3. s \in Seq(Unit) /\ Len(s) = Size /\ \A j \in 1 .. Size : s[j].kind \in {"blank", "data"}
    BY ONLY <2>1, <2>2, OverTyped
  <2>4. c \in Areas /\ Width(c) = Size
    BY <2>2, ConstantFacts DEF Areas, Width
  <2> HIDE DEF s
  <2>5. WriteUnits(c, s) \in WriteType /\ WriteUnits(c, s).at = c /\ WriteUnits(c, s).what = s
    BY <2>3, <2>4, WriteIs
  <2>6. /\ WriteUnits(c, s) \in WriteType /\ WriteUnits(c, s).at = c
        /\ \A j \in 1 .. Size : WriteUnits(c, s).what[j].kind \in {"blank", "data"}
    BY <2>3, <2>5
  <2> QED
    BY <2>6 DEF s, part, c
<1>2. Len(target) \in Nat
  OBVIOUS
<1>3. ASSUME NEW i \in 1 .. Len(target)
      PROVE  /\ w[i] \in WriteType /\ w[i].at = target[i]
             /\ \A j \in 1 .. Size : w[i].what[j].kind \in {"blank", "data"}
  BY <1>1 DEF DataOf
<1>4. w \in [1 .. Len(target) -> WriteType]
  BY <1>3 DEF DataOf
<1>5. w \in Seq(WriteType) /\ Len(w) = Len(target)
  BY ONLY <1>2, <1>4
<1> QED
  BY <1>3, <1>5

(* The write of the size of the file q.                                    *)
LEMMA UpdateSizeIs ==
  ASSUME fat \in TableType, disk \in DiskType, NEW E, NEW S, NEW L, Settles(fat, disk, E, S, L),
         NEW q \in DOMAIN E, q # <<>>, NEW f, f = Front(q),
         NEW k \in 1 .. Len(L[f]), L[f][k] = Last(q), NEW n
  PROVE  UpdateSize(q, n) = WriteUnit(S[f], k - 1 + Header(S[f][1]), [E[q] EXCEPT !.size = n])
<1>1. Represents(fat, disk, E, S, L) /\ IsTree(E, S, L) /\ ChainsApart(fat, E, S)
  BY DEF Settles, Sound, Represents
<1>2. f \in DOMAIN E /\ E[f].dir /\ Last(q) \in Names /\ Append(f, Last(q)) = q
  BY <1>1, ListedAt
<1>3. f \in Seq(Names) /\ E[f].first = S[f][1]
  BY <1>1, <1>2, TreeFacts
<1> DEFINE up == Lookup(fat, disk, Front(q)).first
<1>4. up = S[f][1] /\ up = E[f].first
  <2>1. Lookup(fat, disk, f) = E[f]
    BY <1>1, <1>2, <1>3, LookupIs
  <2> QED
    BY <1>3, <2>1
<1>5. Chain(fat, up) = S[f]
  BY <1>1, <1>2, <1>4, ShapeOf
<1>6. Index(Items(fat, disk, up), Last(q)) = k
  <2>1. \A j \in 1 .. Len(L[f]) : L[f][j] = Last(q) => Index(Items(fat, disk, E[f].first), Last(q)) = j
    BY <1>1, <1>2, UnderFolder
  <2> QED
    BY <1>4, <2>1
<1>7. Items(fat, disk, up)[k] = E[q]
  <2>1. Items(fat, disk, E[f].first)[k] = E[Append(f, L[f][k])]
    <3>1. \A j \in 1 .. Len(L[f]) : Items(fat, disk, E[f].first)[j] = E[Append(f, L[f][j])]
      BY <1>1, <1>2, ItemsOfFolder
    <3> QED
      BY <3>1
  <2> QED
    BY <1>2, <1>4, <2>1
<1> QED
  BY <1>4, <1>5, <1>6, <1>7 DEF UpdateSize

(* Two fields of an open file change.                                      *)
LEMMA Recorded ==
  ASSUME handles \in [Handles -> HandleType], NEW h \in Handles, handles[h].kind = "open", NEW a, NEW b
  PROVE  [handles EXCEPT ![h].position = a, ![h].size = @ + (a - b)]
           = [handles EXCEPT ![h] = [[handles[h] EXCEPT !.position = a] EXCEPT !.size = handles[h].size + (a - b)]]
<1>1. handles[h] \in [kind : {"open"}, path : Paths, first : Clusters, size : Nat, position : Nat]
  BY HandleFacts DEF HandleType
<1>2. [handles[h] EXCEPT !.position = a].size = handles[h].size
  BY <1>1
<1> QED
  BY <1>1, <1>2

(***************************************************************************)
(* What a file holds after a write at its end.                             *)
(***************************************************************************)

(* A unit of a piece that is put over a cluster.                           *)
LEMMA OverIs ==
  ASSUME NEW units \in Seq(Piece), NEW len, len = Len(units), NEW c, NEW i \in Nat, i > 0,
         NEW o \in 1 .. Size, (i - 1) * Size + o <= len
  PROVE  Over(SubSeq(units, (i - 1) * Size + 1, Min({i * Size, len})), c)[o] = units[(i - 1) * Size + o]
<1> DEFINE a == (i - 1) * Size
           b == i * Size
           n == Min({b, len})
           s == SubSeq(units, a + 1, n)
<1>1. a \in Nat /\ b \in Nat /\ b = a + Size /\ len \in Nat /\ Size \in Nat
  BY ConstantFacts
<1>2. a + o <= len
  OBVIOUS
<1>3. Over(s, c)[o] = IF o <= Len(s) THEN s[o] ELSE disk[c][o]
  BY DEF Over
<1> HIDE DEF a, b
<1>4. n \in Nat /\ n <= len /\ a + o <= n
  <2>1. n = IF b <= len THEN b ELSE len
    BY <1>1, MinOf
  <2> QED
    BY <1>1, <1>2, <2>1
<1> HIDE DEF n
<1>5. Len(s) = n - a /\ s[o] = units[a + o]
  BY <1>1, <1>2, <1>4
<1>6. o <= Len(s)
  BY <1>1, <1>4, <1>5
<1> QED
  BY <1>3, <1>5, <1>6 DEF a, b, n

(* The disk after the writes of data to different clusters.                *)
LEMMA DataAfter ==
  ASSUME NEW w, NEW T \in Nat, NEW target, \A i \in 1 .. T : w[i].at = target[i],
         \A i, j \in 1 .. T : target[i] = target[j] => i = j
  PROVE  /\ \A i \in 1 .. T : target[i] \in Areas => DiskAfter(disk, w, T)[target[i]] = w[i].what
         /\ \A a \in Areas : (\A i \in 1 .. T : target[i] # a) => DiskAfter(disk, w, T)[a] = disk[a]
<1>1. \A a \in Areas : DiskAfter(disk, w, T)[a] = Latest(w, T, a, disk[a])
  BY DEF DiskAfter
<1>2. ASSUME NEW i \in 1 .. T, target[i] \in Areas
      PROVE  DiskAfter(disk, w, T)[target[i]] = w[i].what
  <2> DEFINE a == target[i]
             b == disk[a]
  <2>1. w[i].at = a /\ \A j \in i + 1 .. T : w[j].at # a
    <3>1. \A j \in i + 1 .. T : j \in 1 .. T /\ j # i
      OBVIOUS
    <3> QED
      BY <3>1
  <2> HIDE DEF a, b
  <2>2. Latest(w, T, a, b) = w[i].what
    BY <2>1, LatestIs
  <2> QED
    BY <1>1, <1>2, <2>2 DEF a, b
<1>3. ASSUME NEW a \in Areas, \A i \in 1 .. T : target[i] # a
      PROVE  DiskAfter(disk, w, T)[a] = disk[a]
  <2> DEFINE b == disk[a]
  <2>1. \A i \in 1 .. T : w[i].at # a
    BY <1>3
  <2> HIDE DEF b
  <2>2. Latest(w, T, a, b) = b
    BY <2>1, LatestNone
  <2> QED
    BY <1>1, <2>2 DEF b
<1> QED
  BY <1>2, <1>3

(* Where unit i of a file lies.                                            *)
LEMMA SpotOf ==
  ASSUME NEW i \in Nat, i > 0
  PROVE  \E j \in Nat : \E o \in 1 .. Size :
           /\ j = (i - 1) \div Size /\ ((i - 1) % Size) + 1 = o /\ i = Size * j + o
<1> DEFINE k == i - 1
           j == k \div Size
           r == k % Size
<1>1. k \in Nat /\ Size \in Nat /\ Size > 0
  BY ConstantFacts
<1>2. j \in Nat /\ r \in 0 .. Size - 1 /\ k = Size * j + r
  <2> HIDE DEF k
  <2> QED
    BY <1>1, DivMod
<1>3. j = (i - 1) \div Size /\ r = (i - 1) % Size /\ i = k + 1
  OBVIOUS
<1> HIDE DEF j, r, k
<1> DEFINE x == Size * j
<1>4. x \in Nat
  BY <1>1, <1>2
<1>5. k = x + r
  BY <1>2
<1> HIDE DEF x
<1> DEFINE o == r + 1
<1>6. o \in 1 .. Size /\ i = x + o
  BY <1>1, <1>2, <1>3, <1>4, <1>5
<1> QED
  BY <1>2, <1>3, <1>6 DEF x

(* The chain s holds p units on the disk d, the last r of them in a cluster*)
(* that a write begins in.  On the disk e the chain U, which begins with s,*)
(* holds the units of the write from there on: the first r of them are     *)
(* what was there, the others hold v.                                      *)
Extends(d, e, s, U, C, k, r, p, T, len, units, v, end) ==
  /\ k \in Nat /\ r \in 0 .. Size - 1 /\ p = Size * k + r
  /\ C \in Nat /\ p <= Size * C /\ \A j \in 1 .. C : U[j] = s[j]
  /\ T \in Nat /\ T >= 1 /\ len \in Nat
  /\ \A j \in 1 .. k : e[U[j]] = d[U[j]]
  /\ \A a \in 1 .. T : \A o \in 1 .. Size :
       (a - 1) * Size + o <= len => e[U[k + a]][o] = units[(a - 1) * Size + o]
  /\ \A o \in 1 .. r : units[o] = d[U[k + 1]][o]
  /\ \A o \in r + 1 .. len : units[o] = Datum(v)
  /\ end \in Nat /\ end > p /\ end <= Size * k + len /\ end <= Size * k + Size * T

(* n times v.                                                              *)
Copies(v, n) == [i \in 1 .. n |-> v]

(* The file then holds some more v behind what it held.                    *)
LEMMA Appended ==
  ASSUME NEW d, NEW e, NEW s, NEW U, NEW C, NEW k, NEW r, NEW p, NEW T, NEW len, NEW units, NEW v, NEW end,
         Extends(d, e, s, U, C, k, r, p, T, len, units, v, end)
  PROVE  Content(e, U, end) = Content(d, s, p) \o Copies(v, end - p)
<1> USE DEF Extends, Copies
<1>1. Size \in Nat /\ Size > 2
  BY ConstantFacts
<1> DEFINE z == Size * k
           A == Content(e, U, end)
           B == Content(d, s, p)
           D == [i \in 1 .. (end - p) |-> v]
<1>2. z \in Nat /\ p = z + r /\ p \in Nat
  BY <1>1
<1>3. /\ A = [i \in 1 .. end |-> e[U[((i - 1) \div Size) + 1]][((i - 1) % Size) + 1].value]
      /\ B = [i \in 1 .. p |-> d[s[((i - 1) \div Size) + 1]][((i - 1) % Size) + 1].value]
  BY DEF Content
<1>4. ASSUME NEW i \in 1 .. p PROVE A[i] = B[i]
  <2>1. PICK j \in Nat, o \in 1 .. Size :
          /\ j = (i - 1) \div Size /\ ((i - 1) % Size) + 1 = o /\ i = Size * j + o
    BY SpotOf
  <2>2. A[i] = e[U[j + 1]][o].value /\ B[i] = d[s[j + 1]][o].value
    <3>1. i \in 1 .. end
      BY <1>2
    <3> HIDE DEF A, B
    <3> QED
      BY <1>3, <2>1, <3>1
  <2> HIDE DEF A, B, D
  <2>3. j + 1 \in 1 .. C
    <3> SUFFICES ASSUME j >= C PROVE FALSE
      OBVIOUS
    <3>1. Size * C <= Size * j /\ Size * j \in Nat /\ Size * C \in Nat
      BY <1>1, TimesMore
    <3> QED
      BY <1>2, <2>1, <3>1
  <2>4. U[j + 1] = s[j + 1]
    BY <2>3
  <2>5. CASE j < k
    <3>1. j + 1 \in 1 .. k
      BY <2>5
    <3> QED
      BY <2>2, <2>4, <3>1
  <2>6. CASE j = k
    <3>1. o \in 1 .. r
      BY <1>2, <2>1, <2>6
    <3>2. e[U[k + 1]][o] = units[o]
      <4>1. 1 \in 1 .. T /\ (1 - 1) * Size + o = o /\ o <= len
        BY <1>1, <1>2, <3>1
      <4> QED
        BY <2>1, <4>1
    <3> QED
      BY <2>2, <2>4, <2>6, <3>1, <3>2
  <2>7. CASE j > k
    <3>1. Size * (k + 1) <= Size * j /\ Size * j \in Nat /\ Size * (k + 1) = z + Size
      BY <1>1, <2>7, TimesMore
    <3> QED
      BY <1>1, <1>2, <2>1, <3>1
  <2> QED
    BY <2>5, <2>6, <2>7
<1>5. ASSUME NEW i \in p + 1 .. end PROVE A[i] = v
  <2>0. i \in Nat /\ i > 0 /\ i \in 1 .. end
    BY <1>2
  <2>1. PICK j \in Nat, o \in 1 .. Size :
          /\ j = (i - 1) \div Size /\ ((i - 1) % Size) + 1 = o /\ i = Size * j + o
    BY <2>0, SpotOf
  <2>2. A[i] = e[U[j + 1]][o].value
    <3> HIDE DEF A, B
    <3> QED
      BY <1>3, <2>0, <2>1
  <2> HIDE DEF A, B, D
  <2>3. j >= k
    <3> SUFFICES ASSUME j + 1 <= k PROVE FALSE
      OBVIOUS
    <3>1. Size * (j + 1) <= Size * k /\ Size * (j + 1) = Size * j + Size /\ Size * j \in Nat
      BY <1>1, TimesMore
    <3> QED
      BY <1>1, <1>2, <2>1, <3>1
  <2> DEFINE g == j - k
             a == g + 1
             b == Size * g
  <2>4. g \in Nat /\ b \in Nat /\ Size * j = z + b /\ j = k + g
    <3>1. g \in Nat /\ j = k + g
      BY <2>3
    <3> HIDE DEF g
    <3>2. Size * (k + g) = Size * k + Size * g /\ Size * g \in Nat
      BY <1>1, <3>1
    <3> QED
      BY <3>1, <3>2
  <2>5. b + o <= len /\ b + o > r
    <3> HIDE DEF b, z
    <3> QED
      BY <1>1, <1>2, <2>1, <2>4
  <2>6. g < T
    <3> SUFFICES ASSUME T <= g PROVE FALSE
      BY <2>4
    <3> HIDE DEF g
    <3>1. Size * T <= Size * g /\ Size * T \in Nat
      BY <1>1, <2>4, TimesMore
    <3> QED
      BY <1>1, <1>2, <2>1, <2>4, <3>1
  <2>7. a \in 1 .. T /\ (a - 1) * Size + o = b + o
    <3> HIDE DEF g
    <3> QED
      BY <1>1, <2>4, <2>6
  <2>8. e[U[k + a]][o] = units[b + o]
    <3> HIDE DEF a, b
    <3> QED
      BY <2>5, <2>7
  <2>9. units[b + o] = Datum(v) /\ Datum(v).value = v
    <3>1. b + o \in r + 1 .. len
      <4> HIDE DEF b
      <4> QED
        BY <2>4, <2>5
    <3> QED
      BY <3>1 DEF Datum
  <2>10. k + a = j + 1
    BY <2>3
  <2> HIDE DEF a, b
  <2> QED
    BY <2>2, <2>8, <2>9, <2>10
<1>6. DOMAIN A = 1 .. end /\ DOMAIN B = 1 .. p
  BY <1>3
<1>7. A = [i \in 1 .. end |-> A[i]] /\ B = [i \in 1 .. p |-> B[i]]
  BY <1>3
<1>8. Len(D) = end - p /\ D \in Seq({v}) /\ \A i \in 1 .. (end - p) : D[i] = v
  <2>1. end - p \in Nat
    BY <1>2
  <2> QED
    BY <2>1
<1> HIDE DEF A, B, D
<1> DEFINE X == {B[i] : i \in 1 .. p} \cup {v}
<1>11. B \in Seq(X) /\ Len(B) = p
  <2>1. B \in [1 .. p -> X]
    BY <1>7
  <2> HIDE DEF X
  <2> QED
    BY ONLY <1>2, <2>1
<1>12. D \in Seq(X)
  <2>1. \A i \in 1 .. Len(D) : D[i] \in X
    BY <1>8
  <2>2. end - p \in Nat
    BY <1>2
  <2>3. D = [i \in 1 .. (end - p) |-> D[i]]
    BY <1>8, <2>2
  <2>4. D \in [1 .. (end - p) -> X]
    BY <1>8, <2>1, <2>3
  <2> HIDE DEF X
  <2> QED
    BY ONLY <2>2, <2>4
<1> HIDE DEF X
<1> DEFINE Z == B \o D
<1>9. Len(Z) = end /\ Z \in Seq(X) /\ \A i \in 1 .. end : Z[i] = IF i <= p THEN B[i] ELSE D[i - p]
  <2>1. /\ B \o D \in Seq(X) /\ Len(B \o D) = Len(B) + Len(D)
        /\ \A i \in 1 .. Len(B) + Len(D) : (B \o D)[i] = IF i <= Len(B) THEN B[i] ELSE D[i - Len(B)]
    BY ONLY <1>11, <1>12, ConcatProperties
  <2>2. /\ B \o D \in Seq(X) /\ Len(B \o D) = p + (end - p)
        /\ \A i \in 1 .. p + (end - p) : (B \o D)[i] = IF i <= p THEN B[i] ELSE D[i - p]
    BY <1>8, <1>11, <2>1
  <2>3. p + (end - p) = end
    BY <1>2
  <2> QED
    BY <2>2, <2>3
<1>10. \A i \in 1 .. end : A[i] = IF i <= p THEN B[i] ELSE D[i - p]
  <2> TAKE i \in 1 .. end
  <2>1. CASE i <= p
    BY <1>2, <1>4, <2>1
  <2>2. CASE ~(i <= p)
    <3>1. i \in p + 1 .. end /\ i - p \in 1 .. (end - p)
      BY <1>2, <2>2
    <3> QED
      BY <1>5, <1>8, <2>2, <3>1
  <2> QED
    BY <2>1, <2>2
<1>13. A = Z
  <2> HIDE DEF Z
  <2>1. Z = [i \in 1 .. end |-> Z[i]]
    BY <1>9
  <2>2. \A i \in 1 .. end : A[i] = Z[i]
    BY <1>9, <1>10
  <2> QED
    BY <1>7, <2>1, <2>2
<1> QED
  BY <1>13 DEF A, B, D, Z

(* The file q, which then holds some more units of d; the other files stay *)
(* as they are.                                                            *)
GrownTo(E, S, L, F, T, M, q, v, t, e) ==
  /\ Settles(fat, disk, E, S, L) /\ Settles(t, e, F, T, M)
  /\ q \in DOMAIN E /\ q # <<>> /\ ~E[q].dir /\ DOMAIN F = DOMAIN E /\ ~F[q].dir
  /\ Untouched(disk, E, S, e, F, T, DOMAIN E \ {q})
  /\ \E n \in Nat : /\ n > 0
                   /\ Content(e, T[q], F[q].size)
                        = Content(disk, S[q], E[q].size) \o Copies(v, n)

(* The same for some trees before and after it.                            *)
Grown(q, v, t, e) == \E E, S, L, F, T, M : GrownTo(E, S, L, F, T, M, q, v, t, e)

(* Data are written to n clusters of the file q or free ones, and then to  *)
(* the folder f.                                                           *)
WritesOff(t, E, S, q, f, n, target, b, e, F, T, R) ==
  /\ q \in DOMAIN E /\ q # <<>> /\ f \in DOMAIN E /\ E[f].dir /\ n \in Nat
  /\ \A i \in 1 .. n : target[i] \in ToSet(S[q]) \/ target[i] \in FreeIn(t)
  /\ \A a \in Areas : (\A i \in 1 .. n : target[i] # a) => b[a] = disk[a]
  /\ \A a \in Areas : a \notin ToSet(S[f]) => e[a] = b[a]
  /\ DOMAIN F = DOMAIN E
  /\ \A x \in DOMAIN E : x # q => F[x] = E[x] /\ T[x] = S[x] /\ R[x] = S[x]

(* This leaves the other files as they are.                                *)
LEMMA OthersKept ==
  ASSUME NEW t \in TableType, NEW E, NEW S, NEW L, IsTree(E, S, L), ChainsApart(t, E, S),
         NEW q, NEW f, NEW n, NEW target, NEW b, NEW e, NEW F, NEW T, NEW R,
         WritesOff(t, E, S, q, f, n, target, b, e, F, T, R)
  PROVE  Untouched(disk, E, R, e, F, T, DOMAIN E \ {q})
<1> USE DEF WritesOff
<1> SUFFICES ASSUME NEW x \in DOMAIN E \ {q}, ~E[x].dir, NEW a \in ToSet(S[x]) PROVE e[a] = disk[a]
  BY DEF Untouched
<1>1. x \in DOMAIN E /\ x # q /\ x # f /\ DOMAIN S = DOMAIN E
  BY TreeFacts
<1>2. a \notin ToSet(S[f]) /\ a \notin ToSet(S[q])
  BY <1>1, Apart
<1>3. a \in Areas
  <2>1. S[x] \in Seq(Areas)
    BY <1>1, ShapeOf
  <2> QED
    BY <2>1 DEF ToSet
<1>4. a \notin FreeIn(t)
  <2> SUFFICES ASSUME a \in FreeIn(t) PROVE FALSE
    OBVIOUS
  <2>1. Unused(S, a)
    BY FreeFacts
  <2> QED
    BY <1>1, <2>1 DEF Unused
<1>5. \A i \in 1 .. n : target[i] # a
  BY <1>2, <1>4
<1> QED
  BY <1>2, <1>3, <1>5

(* A write to the clusters k + 1 to m of a file and to new ones, one at    *)
(* most: U is the chain of the file after it.                              *)
Targets(chain, new, k, m, target, U) ==
  /\ chain \in Seq(Clusters) /\ new \in Seq(Clusters) /\ Len(new) <= 1
  /\ k \in Nat /\ k < Len(chain) /\ m \in k + 1 .. Len(chain) /\ (new # <<>> => m = Len(chain))
  /\ target = SubSeq(chain, k + 1, m) \o new
  /\ U = IF new = <<>> THEN chain ELSE Append(chain, Last(new))

(* The clusters that it goes to follow each other in that chain.           *)
LEMMA TargetFollows ==
  ASSUME NEW chain, NEW new, NEW k, NEW m, NEW target, NEW U, Targets(chain, new, k, m, target, U)
  PROVE  /\ Len(target) = m - k + Len(new) /\ Len(U) \in Nat /\ k + Len(target) <= Len(U)
         /\ \A i \in 1 .. Len(target) : target[i] = U[k + i]
         /\ \A i \in 1 .. Len(chain) : U[i] = chain[i]
<1> USE DEF Targets
<1> DEFINE C == Len(chain)
           s == SubSeq(chain, k + 1, m)
<1>1. C \in Nat /\ m \in Nat /\ m <= C /\ m >= k + 1
  OBVIOUS
<1>2. s \in Seq(Clusters) /\ Len(s) = m - k /\ \A i \in 1 .. m - k : s[i] = chain[k + i]
  <2>1. k + 1 \in 1 .. C /\ m \in 1 .. C
    BY <1>1
  <2> QED
    BY <2>1
<1>3. target = s \o new
  OBVIOUS
<1> HIDE DEF s
<1>4. /\ Len(target) = m - k + Len(new)
      /\ \A i \in 1 .. m - k + Len(new) : target[i] = IF i <= m - k THEN s[i] ELSE new[i - (m - k)]
  <2>1. /\ Len(s \o new) = Len(s) + Len(new)
        /\ \A i \in 1 .. Len(s) + Len(new) : (s \o new)[i] = IF i <= Len(s) THEN s[i] ELSE new[i - Len(s)]
    BY <1>2, ConcatProperties
  <2> QED
    BY <1>2, <1>3, <2>1
<1>5. CASE new = <<>>
  <2>1. U = chain /\ Len(new) = 0
    BY <1>5
  <2>2. \A i \in 1 .. Len(target) : target[i] = U[k + i]
    <3> TAKE i \in 1 .. Len(target)
    <3>1. i \in 1 .. m - k /\ i <= m - k
      BY <1>1, <1>4, <2>1
    <3>2. target[i] = s[i]
      BY <1>4, <2>1, <3>1
    <3> QED
      BY <1>2, <2>1, <3>1, <3>2
  <2> QED
    BY <1>1, <1>4, <2>1, <2>2
<1>6. CASE new # <<>>
  <2>1. Len(new) = 1 /\ m = C
    <3> DEFINE n == Len(new)
    <3>1. n \in Nat /\ n # 0 /\ n <= 1
      BY <1>6
    <3> HIDE DEF n
    <3>2. n = 1
      BY <3>1
    <3> QED
      BY <1>6, <3>2 DEF n
  <2> DEFINE c == Last(new)
  <2>2. c = new[1] /\ c \in Clusters /\ U = Append(chain, c)
    BY <1>6, <2>1 DEF Last
  <2> HIDE DEF c
  <2>3. Len(U) = C + 1 /\ U[C + 1] = c /\ \A i \in 1 .. C : U[i] = chain[i]
    BY <2>2
  <2>4. Len(target) = C - k + 1
    BY <1>4, <2>1
  <2>5. \A i \in 1 .. Len(target) : target[i] = U[k + i]
    <3> TAKE i \in 1 .. Len(target)
    <3>1. target[i] = IF i <= C - k THEN s[i] ELSE new[i - (C - k)]
      BY <1>4, <2>1
    <3>2. CASE i <= C - k
      <4>1. i \in 1 .. C - k /\ k + i \in 1 .. C
        BY <1>1, <2>4, <3>2
      <4> QED
        BY <1>2, <2>1, <2>3, <3>1, <3>2, <4>1
    <3>3. CASE ~(i <= C - k)
      <4>1. i - (C - k) = 1 /\ k + i = C + 1
        BY <1>1, <2>4, <3>3
      <4> QED
        BY <2>2, <2>3, <3>1, <3>3, <4>1
    <3> QED
      BY <3>2, <3>3
  <2>6. Len(target) = m - k + Len(new) /\ Len(U) \in Nat /\ k + Len(target) <= Len(U)
    <3> HIDE DEF C
    <3> QED
      BY <1>1, <2>1, <2>3, <2>4
  <2> QED
    BY <2>3, <2>5, <2>6
<1> QED
  BY <1>5, <1>6

(* A write of v at the end of the file q, r units after the beginning of   *)
(* its cluster k + 1.                                                      *)
Ending(E, S, L, q, t, before, S1, k, r, v, units, new, m, target, w, end, u, writes) ==
  /\ Settles(fat, disk, E, S, L) /\ q \in DOMAIN E /\ q # <<>> /\ ~E[q].dir
  /\ Edged(t, before, E, S, L, q, S1)
  /\ k \in Nat /\ k < Len(S1[q]) /\ r \in 0 .. Size - 1 /\ E[q].size = Size * k + r
  /\ units \in Seq(Piece)
  /\ \A o \in 1 .. r : units[o] = disk[S1[q][k + 1]][o]
  /\ \A o \in r + 1 .. Len(units) : units[o] = Datum(v)
  /\ new \in Seq(Clusters) /\ Len(new) <= 1 /\ ToSet(new) \subseteq FreeIn(t)
  /\ m \in k + 1 .. Len(S1[q]) /\ (new # <<>> => m = Len(S1[q]))
  /\ target = SubSeq(S1[q], k + 1, m) \o new /\ w = DataOf(units, target)
  /\ end \in Nat /\ end > E[q].size /\ end = k * Size + Min({Len(units), Size * Len(target)})
  /\ u \in TableType /\ Wrote(t, E, S1, L, q, Front(q), new, w, u, end, E[q].size, writes)

(* What the file holds gets longer.                                        *)
LEMMA GrowsBy ==
  ASSUME fat \in TableType, disk \in DiskType, SmallWrites,
         NEW E, NEW S, NEW L, NEW q, NEW t, NEW before, NEW S1, NEW k, NEW r, NEW v, NEW units,
         NEW new, NEW m, NEW target, NEW w, NEW end, NEW u, NEW writes,
         Ending(E, S, L, q, t, before, S1, k, r, v, units, new, m, target, w, end, u, writes)
  PROVE  Grown(q, v, u, DiskAfter(disk, writes, Len(writes)))
<1> DEFINE chain == S1[q]
           size  == E[q].size
           len   == Len(units)
           f     == Front(q)
<1>a. chain = S1[q] /\ k \in Nat /\ k < Len(chain) /\ r \in 0 .. Size - 1 /\ size = E[q].size /\ size = Size * k + r
  BY DEF Ending
<1>b. new \in Seq(Clusters) /\ Len(new) <= 1 /\ m \in k + 1 .. Len(chain) /\ (new # <<>> => m = Len(chain))
      /\ target = SubSeq(chain, k + 1, m) \o new
  BY DEF Ending
<1>c. units \in Seq(Piece) /\ len = Len(units) /\ w = DataOf(units, target)
  BY DEF Ending
<1>d. q \in DOMAIN E /\ q # <<>> /\ ~E[q].dir /\ u \in TableType /\ end \in Nat /\ end > size
  BY DEF Ending
<1>e. Settles(fat, disk, E, S, L) /\ Edged(t, before, E, S, L, q, S1) /\ f = Front(q)
  BY DEF Ending
<1>f. Wrote(t, E, S1, L, q, f, new, w, u, end, size, writes) /\ end = k * Size + Min({len, Size * Len(target)})
  BY DEF Ending
<1>g. /\ \A o \in 1 .. r : units[o] = disk[chain[k + 1]][o]
      /\ \A o \in r + 1 .. len : units[o] = Datum(v)
  BY DEF Ending
<1>h. ToSet(new) \subseteq FreeIn(t)
  BY DEF Ending
<1> HIDE DEF chain, size, len, f
<1> USE <1>a, <1>b, <1>c, <1>d, <1>e, <1>f, <1>g, <1>h
<1>1. /\ t \in TableType /\ Settles(t, disk, E, S1, L)
      /\ \A z \in DOMAIN E : z # q => S1[z] = S[z]
      /\ S1[q] = S[q] \/ \E c \in Clusters : S1[q] = Append(S[q], c)
  BY <1>e DEF Edged
<1>2. /\ IsTree(E, S1, L) /\ ChainsApart(t, E, S1)
      /\ IsTree(E, S, L) /\ ChainsApart(fat, E, S) /\ SizesFit(E, S)
  BY <1>1 DEF Settles, Sound, Represents
<1>3. PICK F, T, e :
        /\ Goes("write", fat, disk, writes, u, e) /\ Settles(u, e, F, T, L)
        /\ DOMAIN F = DOMAIN E /\ \A x \in DOMAIN E : x # q => F[x] = E[x]
        /\ F[q].first = E[q].first /\ F[q].dir = E[q].dir
        /\ F[q].size = IF end = size THEN E[q].size ELSE end
        /\ \A x \in DOMAIN E : x # q => T[x] = S1[x]
        /\ T[q] = IF new = <<>> THEN S1[q] ELSE Append(S1[q], Last(new))
        /\ \A a \in Areas : a \notin ToSet(S1[f]) => e[a] = DiskAfter(disk, w, Len(w))[a]
  BY ONLY <1>f DEF Wrote
<1>4. e = DiskAfter(disk, writes, Len(writes))
  BY <1>3 DEF Goes
<1>5. IsTree(F, T, L) /\ ChainsApart(u, F, T) /\ F[q].size = end
  BY <1>3 DEF Settles, Sound, Represents
<1>6. f \in DOMAIN E /\ E[f].dir /\ f # q
  BY <1>2, ListedAt
<1>7. chain \in Seq(Clusters) /\ S[q] \in Seq(Clusters) /\ Len(S[q]) \in Nat
  BY <1>1, <1>2, ShapeOf
<1> DEFINE U == T[q]
           n == Len(target)
<1>8. /\ n = m - k + Len(new) /\ Len(U) \in Nat /\ k + n <= Len(U)
      /\ \A i \in 1 .. n : target[i] = U[k + i]
      /\ \A i \in 1 .. Len(chain) : U[i] = chain[i]
  <2>1. U = IF new = <<>> THEN chain ELSE Append(chain, Last(new))
    BY ONLY <1>3, <1>a
  <2> HIDE DEF U
  <2>2. Targets(chain, new, k, m, target, U)
    BY ONLY <1>7, <1>a, <1>b, <2>1 DEF Targets
  <2>3. /\ Len(target) = m - k + Len(new) /\ Len(U) \in Nat /\ k + Len(target) <= Len(U)
        /\ \A i \in 1 .. Len(target) : target[i] = U[k + i]
        /\ \A i \in 1 .. Len(chain) : U[i] = chain[i]
    BY ONLY <2>2, TargetFollows
  <2> QED
    BY ONLY <2>3 DEF n
<1>9. n \in Nat /\ n >= 1
  <2> DEFINE x == Len(new)
             y == Len(chain)
  <2>1. x \in Nat /\ n = m - k + x /\ y \in Nat
    BY ONLY <1>7, <1>8, <1>b
  <2> HIDE DEF n, x
  <2>2. m \in k + 1 .. y
    BY ONLY <1>b
  <2> HIDE DEF y
  <2> QED
    BY ONLY <1>a, <2>1, <2>2
<1>10. U \in Seq(Clusters) /\ DOMAIN U = 1 .. Len(U) /\ Distinct(U) /\ ToSet(U) \subseteq Clusters
  <2>1. q \in DOMAIN F
    BY ONLY <1>3, <1>d
  <2>2. IsChain(u, U) /\ U \in Seq(Clusters) /\ DOMAIN U = 1 .. Len(U) /\ ToSet(U) \subseteq Clusters
    BY ONLY <1>5, <1>d, <2>1, ShapeOf
  <2> QED
    BY ONLY <2>2 DEF IsChain
<1>11. \A i \in 1 .. Len(U) : U[i] \in Areas /\ U[i] \notin ToSet(S1[f])
  <2> TAKE i \in 1 .. Len(U)
  <2>1. U[i] \in ToSet(U)
    BY <1>10 DEF ToSet
  <2>2. U[i] \notin ToSet(T[f])
    BY <1>3, <1>5, <1>6, <2>1, Apart
  <2>3. T[f] = S1[f]
    BY <1>3, <1>6
  <2> QED
    BY <1>10, <2>1, <2>2, <2>3 DEF Areas
<1> HIDE DEF U, n
<1>12. \A i, j \in 1 .. n : target[i] = target[j] => i = j
  <2>1. \A i \in 1 .. n : k + i \in DOMAIN U
    BY ONLY <1>8, <1>9, <1>10, <1>a
  <2>2. \A i, j \in 1 .. n : U[k + i] = U[k + j] => k + i = k + j
    BY ONLY <2>1, <1>10 DEF Distinct
  <2> QED
    BY ONLY <1>8, <1>9, <1>a, <2>2
<1>13. /\ Len(w) = n
       /\ \A i \in 1 .. n : /\ w[i].at = target[i]
                           /\ w[i].what = Over(SubSeq(units, (i - 1) * Size + 1, Min({i * Size, Len(units)})), target[i])
  <2>1. w = [i \in 1 .. n |->
               WriteUnits(target[i],
                 Over(SubSeq(units, (i - 1) * Size + 1, Min({i * Size, Len(units)})), target[i]))]
    BY ONLY <1>c DEF DataOf, n
  <2>2. Len(w) = n
    BY ONLY <1>9, <2>1
  <2>3. ASSUME NEW i \in 1 .. n
        PROVE  /\ w[i].at = target[i]
               /\ w[i].what = Over(SubSeq(units, (i - 1) * Size + 1, Min({i * Size, Len(units)})), target[i])
    <3> DEFINE x == Over(SubSeq(units, (i - 1) * Size + 1, Min({i * Size, Len(units)})), target[i])
    <3>1. w[i] = WriteUnits(target[i], x)
      BY ONLY <2>1, i \in 1 .. n
    <3> HIDE DEF x
    <3>2. w[i].at = target[i] /\ w[i].what = x
      BY ONLY <3>1 DEF WriteUnits
    <3> QED
      BY ONLY <3>2 DEF x
  <2> QED
    BY ONLY <2>2, <2>3
<1> DEFINE b == DiskAfter(disk, w, n)
<1>14. /\ \A i \in 1 .. n : target[i] \in Areas => b[target[i]] = w[i].what
       /\ \A a \in Areas : (\A i \in 1 .. n : target[i] # a) => b[a] = disk[a]
  <2>1. \A i \in 1 .. n : w[i].at = target[i]
    BY ONLY <1>13
  <2> QED
    BY ONLY <1>9, <1>12, <2>1, DataAfter
<1> HIDE DEF b
<1>15. \A a \in Areas : a \notin ToSet(S1[f]) => e[a] = b[a]
  BY <1>3, <1>13 DEF b
<1>16. \A j \in 1 .. k : e[U[j]] = disk[U[j]]
  <2> TAKE j \in 1 .. k
  <2>1. j \in 1 .. Len(U)
    BY <1>8, <1>9
  <2>2. \A i \in 1 .. n : target[i] # U[j]
    <3> TAKE i \in 1 .. n
    <3>1. k + i \in 1 .. Len(U) /\ k + i # j
      BY <1>8, <1>9
    <3>2. U[k + i] # U[j]
      BY <1>10, <2>1, <3>1 DEF Distinct
    <3> QED
      BY <1>8, <3>2
  <2> QED
    BY <1>11, <1>14, <1>15, <2>1, <2>2
<1>17. \A a \in 1 .. n : \A o \in 1 .. Size :
         (a - 1) * Size + o <= len => e[U[k + a]][o] = units[(a - 1) * Size + o]
  <2> TAKE a \in 1 .. n
  <2> TAKE o \in 1 .. Size
  <2> HAVE (a - 1) * Size + o <= len
  <2>1. k + a \in 1 .. Len(U) /\ target[a] = U[k + a]
    BY ONLY <1>8, <1>9, <1>a, a \in 1 .. n
  <2> DEFINE c == target[a]
             z == (a - 1) * Size + o
             x == Over(SubSeq(units, (a - 1) * Size + 1, Min({a * Size, len})), c)
  <2>2. e[c] = b[c] /\ b[c] = w[a].what
    BY <1>11, <1>14, <1>15, <2>1
  <2>3. w[a].what = x
    BY <1>13
  <2>4. x[o] = units[z]
    <3>1. a \in Nat /\ a > 0 /\ (a - 1) * Size + o <= len
      BY <1>9
    <3> HIDE DEF c
    <3> QED
      BY ONLY <1>c, <3>1, o \in 1 .. Size, OverIs
  <2> HIDE DEF x, z
  <2>5. e[U[k + a]][o] = units[z]
    BY <2>1, <2>2, <2>3, <2>4
  <2> QED
    BY <2>5 DEF z
<1> DEFINE C == Len(S[q])
           s == S[q]
<1>18. C \in Nat /\ size <= Size * C /\ \A j \in 1 .. C : U[j] = s[j]
  <2>1. size <= Size * C
    BY <1>2 DEF SizesFit
  <2>2. C <= Len(chain) /\ \A j \in 1 .. C : chain[j] = s[j]
    <3>1. CASE S1[q] = S[q]
      BY <1>7, <3>1
    <3>2. CASE \E c \in Clusters : S1[q] = Append(S[q], c)
      <4>1. PICK c \in Clusters : chain = Append(s, c)
        BY <3>2
      <4>2. s \in Seq(Clusters)
        BY <1>7
      <4> HIDE DEF s
      <4>3. Len(chain) = Len(s) + 1 /\ \A j \in 1 .. Len(s) : chain[j] = s[j]
        BY <4>1, <4>2
      <4>4. C = Len(s) /\ Len(s) \in Nat
        BY <4>2 DEF s
      <4> QED
        BY <4>3, <4>4
    <3> QED
      BY <1>1, <3>1, <3>2
  <2>3. Len(chain) \in Nat
    BY <1>7
  <2> HIDE DEF C, s
  <2>4. \A j \in 1 .. C : U[j] = s[j]
    <3> TAKE j \in 1 .. C
    <3>1. j \in 1 .. Len(chain)
      BY <1>7, <2>2, <2>3 DEF C
    <3> QED
      BY <1>8, <2>2, <3>1
  <2> QED
    BY <1>7, <2>1, <2>4 DEF C
<1> HIDE DEF C, s
<1>19. \A o \in 1 .. r : units[o] = disk[U[k + 1]][o]
  <2>1. Len(chain) \in Nat /\ k + 1 \in 1 .. Len(chain)
    BY <1>7
  <2>2. U[k + 1] = chain[k + 1]
    BY <1>8, <2>1
  <2> QED
    BY <2>2
<1>20. len \in Nat /\ end <= Size * k + len /\ end <= Size * k + Size * n
  <2>1. len \in Nat
    OBVIOUS
  <2> DEFINE x == Size * n
             y == Size * k
  <2>2. x \in Nat /\ y \in Nat /\ k * Size = y
    BY <1>9, ConstantFacts
  <2>3. end = k * Size + Min({len, x})
    BY DEF n
  <2> HIDE DEF x, y
  <2>4. Min({len, x}) = IF len <= x THEN len ELSE x
    BY <2>1, <2>2, MinOf
  <2>5. end <= y + len /\ end <= y + x
    BY <2>1, <2>2, <2>3, <2>4
  <2> QED
    BY <2>1, <2>5 DEF x, y
<1>21. Content(e, U, end) = Content(disk, s, size) \o Copies(v, end - size)
  <2>1. \A o \in r + 1 .. len : units[o] = Datum(v)
    OBVIOUS
  <2>2. Extends(disk, e, s, U, C, k, r, size, n, len, units, v, end)
    BY ONLY <1>9, <1>16, <1>17, <1>18, <1>19, <1>20, <1>a, <1>d, <2>1 DEF Extends
  <2> QED
    BY ONLY <2>2, Appended
<1>22. Untouched(disk, E, S, e, F, T, DOMAIN E \ {q})
  <2>1. \A i \in 1 .. n : target[i] \in ToSet(S1[q]) \/ target[i] \in FreeIn(t)
    <3>1. k + 1 \in Nat /\ k + 1 > 0 /\ m \in Nat /\ k + 1 <= m /\ m <= Len(chain)
      BY <1>7
    <3>2. \A i \in 1 .. Len(target) : target[i] \in ToSet(chain) \/ target[i] \in ToSet(new)
      BY <1>7, <3>1, TargetFacts
    <3> QED
      BY <3>2 DEF n
  <2>2. \A x \in DOMAIN E : x # q => F[x] = E[x] /\ T[x] = S1[x] /\ S[x] = S1[x]
    BY <1>1, <1>3
  <2>3. DOMAIN F = DOMAIN E
    BY <1>3
  <2> QED
    <3>1. WritesOff(t, E, S1, q, f, n, target, b, e, F, T, S)
      BY ONLY <1>6, <1>9, <1>14, <1>15, <1>d, <2>1, <2>2, <2>3 DEF WritesOff
    <3> QED
      BY ONLY <1>1, <1>2, <3>1, OthersKept
<1>23. \E N \in Nat : /\ N > 0
                     /\ Content(e, T[q], F[q].size) = Content(disk, S[q], E[q].size) \o Copies(v, N)
  <2> DEFINE N == end - size
  <2>1. N \in Nat /\ N > 0
    <3>1. size \in Nat
      <4>1. Size \in Nat
        BY ONLY ConstantFacts
      <4>2. Size * k \in Nat
        BY ONLY <1>a, <4>1
      <4> DEFINE x == Size * k
      <4> HIDE DEF x
      <4>3. size = x + r /\ x \in Nat
        BY ONLY <1>a, <4>2 DEF x
      <4> QED
        BY ONLY <1>a, <4>1, <4>3
    <3> QED
      BY ONLY <1>d, <3>1
  <2>2. Content(e, T[q], F[q].size) = Content(disk, S[q], E[q].size) \o Copies(v, N)
    BY <1>5, <1>21 DEF U, s
  <2> HIDE DEF N
  <2> QED
    BY <2>1, <2>2
<1> QED
  <2>1. DOMAIN F = DOMAIN E /\ ~F[q].dir /\ Settles(u, e, F, T, L)
    BY ONLY <1>3, <1>d
  <2>2. GrownTo(E, S, L, F, T, L, q, v, u, e)
    BY ONLY <1>22, <1>23, <1>d, <2>1, <1>e DEF GrownTo
  <2> QED
    BY ONLY <1>4, <2>2 DEF Grown

(***************************************************************************)
(* The step of write.                                                      *)
(***************************************************************************)

(* A write of n units keeps the invariant: its data go to clusters of the  *)
(* file and to new ones that were free, and its size is recorded last.  At *)
(* the end of the file it adds to what the file holds, unless the disk is  *)
(* full and it does nothing.                                               *)
LEMMA WriteHolds ==
  ASSUME IInv, NEW h \in Handles, NEW d \in Data, NEW n \in Sizes, Write(h, d, n)
  PROVE  /\ IInv'
         /\ SmallWrites /\ AppendOnly /\ OneHandle =>
              \/ fat' = fat /\ Future' = Future
              \/ Grown(handles[h].path, d, fat', Future')
<1> DEFINE x      == handles[h]
           q      == x.path
           p      == x.position
           before == Chain(fat, x.first)
           k      == p \div Size
           edge   == k >= Len(before)
           t      == IF edge THEN AllocateNewCluster(fat, x.first) ELSE fat
           chain  == Chain(t, x.first)
           units  == SubSeq(disk[chain[k + 1]], 1, p % Size) \o [i \in 1 .. n |-> Datum(d)]
           count  == (Len(units) + Size - 1) \div Size
           lacking == IF k + count > Len(chain) THEN k + count - Len(chain) ELSE 0
           new    == FirstFree(t, lacking)
           m      == Min({k + count, Len(chain)})
           target == SubSeq(chain, k + 1, m) \o new
           linked == [c \in Clusters |->
                        IF c \in ToSet(new) THEN EOC
                        ELSE IF c = Last(chain) /\ new # <<>> THEN Last(new)
                        ELSE t[c]]
           end    == k * Size + Min({Len(units), Size * Len(target)})
           first  == IF edge THEN <<SaveTables(t)>> ELSE <<>>
           w      == [i \in 1 .. Len(target) |->
                        WriteUnits(target[i],
                          Over(SubSeq(units, (i - 1) * Size + 1, Min({i * Size, Len(units)})), target[i]))]
           last   == IF end = x.size THEN <<>> ELSE <<UpdateSize(q, end)>>
           writes == ((first \o w) \o <<SaveTables(linked)>>) \o last
           full   == edge /\ FreeIn(fat) = {}
           y      == [[x EXCEPT !.position = end] EXCEPT !.size = x.size + (end - p)]
<1>1. /\ Idle /\ Leads(fat, disk, handles, crashes) /\ handles \in [Handles -> HandleType]
      /\ fat \in TableType /\ disk \in DiskType
  BY IdleFacts DEF Write, IInv, Typed
<1>2. PICK E, S, L : /\ Settles(fat, disk, E, S, L) /\ HandlesFit(handles, E)
                     /\ SmallWrites /\ crashes = 0 => AllOwned(fat, S)
  BY <1>1 DEF Leads
<1>3. x.kind = "open" /\ (AppendOnly => p = x.size) /\ x \in HandleType
  BY <1>1 DEF Write
<1>4. q \in Paths /\ p \in Nat /\ x.size \in Nat /\ x.first \in Clusters
  BY <1>3, HandleFacts
<1>5. q \in DOMAIN E /\ ~E[q].dir /\ E[q].first = x.first /\ q # <<>>
      /\ (AppendOnly /\ OneHandle => E[q].size = x.size)
  BY <1>2, <1>3, <1>4, PathsAreSeqs DEF HandlesFit
<1>6. n \in Nat /\ n > 0
  BY FatAssumption
<1>7. CASE full
  <2>1. /\ handles' = Spoil(h)
        /\ UNCHANGED <<fat, saved, disk, pending, doing, crashes, torn>>
    BY <1>7 DEF Write
  <2>2. handles' = [handles EXCEPT ![h] = Spoiled]
    BY <2>1 DEF Spoil
  <2>3. HandlesFit(handles', E) /\ handles' \in [Handles -> HandleType]
    BY <1>1, <1>2, <2>2, FitsOpened, HandleFacts
  <2>4. Leads(fat, disk, handles', crashes)
    BY <1>2, <2>3 DEF Leads
  <2>5. IInv'
    BY <1>1, <2>1, <2>3, <2>4, HandlesChanged
  <2>6. fat' = fat /\ Future' = Future
    BY <2>1 DEF Future
  <2> QED
    BY ONLY <2>5, <2>6
<1>8. CASE ~full
  <2>1. k < Len(chain) /\ Begin("write", linked, writes)
    BY <1>8 DEF Write
  <2>2. handles' = IF Len(target) < count /\ end = x.size THEN Spoil(h)
                   ELSE [handles EXCEPT ![h].position = end, ![h].size = @ + (end - p)]
    BY <1>8 DEF Write
  <2>3. \E S1 : Edged(t, first, E, S, L, q, S1)
    <3>1. CASE edge
      <4>1. FreeIn(fat) # {}
        BY <1>8, <3>1
      <4>2. t = AllocateNewCluster(fat, E[q].first) /\ first = <<SaveTables(t)>>
        BY <1>5, <3>1
      <4> HIDE DEF t, first, q
      <4>3. \E S1 : Edged(t, <<SaveTables(t)>>, E, S, L, q, S1)
        BY <1>1, <1>2, <1>5, <4>1, <4>2, EdgeGoes
      <4> QED
        BY <4>2, <4>3
    <3>2. CASE ~edge
      <4>1. t = fat /\ first = <<>>
        BY <3>2
      <4> HIDE DEF t, first, q
      <4>2. Edged(fat, <<>>, E, S, L, q, S)
        BY <1>1, <1>2, NoEdgeGoes
      <4> QED
        BY <4>1, <4>2
    <3> QED
      BY <3>1, <3>2
  <2>4. PICK S1 : Edged(t, first, E, S, L, q, S1)
    BY <2>3
  <2>5. /\ t \in TableType /\ Goes("write", fat, disk, first, t, disk) /\ Settles(t, disk, E, S1, L)
        /\ \A z \in DOMAIN E : z # q => S1[z] = S[z]
        /\ AllOwned(fat, S) => AllOwned(t, S1)
    BY <2>4 DEF Edged
  <2>6. Represents(t, disk, E, S1, L) /\ IsTree(E, S1, L) /\ ChainsApart(t, E, S1) /\ FreeBlank(t, disk)
    BY <2>5 DEF Settles, Sound, Represents
  <2>7. chain = S1[q] /\ chain \in Seq(Clusters) /\ Len(chain) \in Nat /\ Len(chain) > 0
        /\ DOMAIN chain = 1 .. Len(chain)
    <3>1. Chain(t, E[q].first) = S1[q]
      BY <1>5, <2>5, <2>6, ShapeOf
    <3>2. S1[q] \in Seq(Clusters) /\ Len(S1[q]) \in Nat /\ Len(S1[q]) > 0 /\ DOMAIN S1[q] = 1 .. Len(S1[q])
      BY <1>5, <2>5, <2>6, ShapeOf
    <3>3. chain = S1[q]
      BY <1>5, <3>1
    <3> QED
      BY <3>2, <3>3
  <2>8. \A c \in ToSet(chain) : NoEntries(disk, c)
    BY <1>5, <2>6, <2>7 DEF Represents, Holds
  <2> DEFINE C    == Len(chain)
             len  == Len(units)
             N    == Len(new)
             c0   == chain[k + 1]
             r    == p % Size
             data == [i \in 1 .. n |-> Datum(d)]
             f    == Front(q)
  <2>9. k \in Nat /\ r \in 0 .. Size - 1 /\ p = Size * k + r
    <3>1. Size \in Nat /\ Size > 0
      BY ConstantFacts
    <3> HIDE DEF p
    <3> QED
      BY <1>4, <3>1, DivMod
  <2>10. /\ m = Min({k + count, C}) /\ target = SubSeq(chain, k + 1, m) \o new
         /\ end = k * Size + Min({len, Size * Len(target)})
    OBVIOUS
  <2>a. units = SubSeq(disk[c0], 1, r) \o data
    OBVIOUS
  <2>b. count = (len + Size - 1) \div Size
    OBVIOUS
  <2>c. lacking = IF k + count > C THEN k + count - C ELSE 0
    OBVIOUS
  <2>d. new = FirstFree(t, lacking) /\ N = Len(new)
    OBVIOUS
  <2>e. c0 = chain[k + 1] /\ C = Len(chain)
    OBVIOUS
  <2>f. len = Len(units)
    OBVIOUS
  <2>g. r = p % Size
    OBVIOUS
  <2>h. f = Front(q)
    OBVIOUS
  <2>11. w = DataOf(units, target)
    BY DEF DataOf
  <2>12. linked = [c \in Clusters |->
                     IF c \in ToSet(new) THEN EOC
                     ELSE IF c = Last(chain) /\ new # <<>> THEN Last(new)
                     ELSE t[c]]
    OBVIOUS
  <2>13. /\ last = (IF end = x.size THEN <<>> ELSE <<UpdateSize(q, end)>>)
         /\ writes = ((first \o w) \o <<SaveTables(linked)>>) \o last
    OBVIOUS
  <2>14. data \in Seq(Piece) /\ Len(data) = n
    <3>1. Datum(d) \in Piece
      BY KindFacts DEF Piece, Unit
    <3> QED
      BY <1>6, <3>1
  <2>15. /\ y = [[x EXCEPT !.position = end] EXCEPT !.size = x.size + (end - p)]
         /\ ~(Len(target) < count /\ end = x.size) => handles' = [handles EXCEPT ![h] = y]
    <3> HIDE DEF end, target, count
    <3>1. [handles EXCEPT ![h].position = end, ![h].size = @ + (end - p)] = [handles EXCEPT ![h] = y]
      BY <1>1, <1>3, Recorded
    <3> QED
      BY <2>2, <3>1
  <2> HIDE DEF p, k, edge, t, chain, units, count, lacking, new, m, target, linked, end, first, w, last, writes, full, y,
               C, len, N, c0, r, data, f, q, before
  <2>i. C \in Nat /\ k < C
    BY <2>1, <2>7, <2>e
  <2>16. c0 \in Clusters /\ NoEntries(disk, c0)
    <3>1. k + 1 \in DOMAIN chain
      BY <2>1, <2>7, <2>9
    <3>2. c0 \in ToSet(chain)
      BY <2>e, <3>1 DEF ToSet
    <3>3. ToSet(chain) \subseteq Clusters
      BY <2>7 DEF ToSet
    <3> QED
      BY <2>8, <3>2, <3>3
  <2>17. units \in Seq(Piece) /\ len = r + n
    <3>1. disk \in DiskType /\ r \in Nat /\ r <= Size
      BY <1>1, <2>9, ConstantFacts
    <3> DEFINE z == SubSeq(disk[c0], 1, r)
    <3>3. z = SubSeq(disk[c0], 1, r) /\ units = z \o data
      BY <2>a
    <3> HIDE DEF z
    <3>2. units \in Seq(Piece) /\ z \in Seq(Piece)
      BY ONLY <2>14, <2>16, <3>1, <3>3, UnitsOfWrite
    <3>5. Len(z) = r
      <4>1. disk[c0] \in Seq(Unit) /\ Len(disk[c0]) = Size
        BY <2>16, <3>1, ConstantFacts DEF DiskType, Areas, Width
      <4> QED
        BY <3>1, <3>3, <4>1, ConstantFacts
    <3>4. Len(z \o data) = Len(z) + Len(data)
      BY <2>14, <3>2, ConcatProperties
    <3> QED
      BY <2>f, <2>14, <3>2, <3>3, <3>4, <3>5
  <2>18. len \in Nat /\ len > r /\ count \in Nat /\ count >= 1 /\ (n <= Size + 1 => count <= 2)
    <3>1. len = (p % Size) + n
      BY ONLY <2>g, <2>17
    <3>3. p \in Nat
      BY <1>4
    <3>2. /\ len \in Nat /\ len > p % Size /\ count \in Nat /\ count >= 1
          /\ n <= Size + 1 => count <= 2
      BY ONLY <1>6, <2>b, <3>1, <3>3, CountFacts
    <3> QED
      BY ONLY <2>g, <3>2
  <2>19. lacking \in Nat /\ (SmallWrites => lacking <= 1)
    <3>1. lacking \in Nat
      BY ONLY <2>i, <2>9, <2>c, <2>18
    <3>2. ASSUME SmallWrites PROVE lacking <= 1
      <4>1. n <= Size + 1
        BY <3>2 DEF SmallWrites
      <4>2. count <= 2
        BY <2>18, <4>1
      <4> QED
        BY ONLY <2>i, <2>9, <2>c, <2>18, <4>2
    <3> QED
      BY <3>1, <3>2
  <2>20. new \in Seq(Clusters) /\ ToSet(new) \subseteq FreeIn(t) /\ N \in Nat /\ (SmallWrites => N <= 1) /\ N <= lacking
    <3>1. /\ new \in Seq(Clusters) /\ ToSet(new) \subseteq FreeIn(t) /\ Len(new) <= lacking
      BY ONLY <2>5, <2>d, <2>19, FirstFreeFacts
    <3>2. N \in Nat /\ N <= lacking
      BY ONLY <2>d, <3>1
    <3> QED
      BY ONLY <2>19, <3>1, <3>2
  <2> DEFINE T == m - k + N
  <2>21. m \in k + 1 .. C /\ T \in Nat
    <3> DEFINE z == k + count
    <3>1. z \in Nat /\ z > k /\ m = Min({z, C})
      BY <2>9, <2>10, <2>18
    <3> HIDE DEF z
    <3>2. m = IF z <= C THEN z ELSE C
      BY <2>i, <3>1, MinOf
    <3>3. m \in k + 1 .. C
      BY ONLY <2>9, <2>i, <3>1, <3>2
    <3> QED
      BY ONLY <2>9, <2>i, <2>20, <3>3 DEF T
  <2>22. /\ target \in Seq(Clusters) /\ Len(target) = T
         /\ \A i \in 1 .. Len(target) : target[i] \in ToSet(chain) \/ target[i] \in ToSet(new)
    <3> DEFINE z == k + 1
               s == SubSeq(chain, z, m)
    <3>1. /\ z \in Nat /\ z > 0 /\ m \in Nat /\ z <= m /\ m <= Len(chain) /\ Len(chain) \in Nat
          /\ target = SubSeq(chain, z, m) \o new
      BY <2>7, <2>9, <2>10, <2>e, <2>21
    <3>2. m - z + 1 + N = T
      BY ONLY <2>9, <2>20, <2>21, <2>i DEF T
    <3> HIDE DEF z, s
    <3>3. /\ target \in Seq(Clusters)
          /\ \A i \in 1 .. Len(target) : target[i] \in ToSet(chain) \/ target[i] \in ToSet(new)
      BY ONLY <2>7, <2>20, <3>1, TargetFacts
    <3>4. s \in Seq(Clusters) /\ Len(s) = m - z + 1
      BY <2>7, <3>1 DEF s
    <3>5. Len(s \o new) = Len(s) + Len(new)
      BY <2>20, <3>4, ConcatProperties
    <3>6. target = s \o new
      BY <3>1 DEF s
    <3> QED
      BY <2>d, <3>1, <3>2, <3>3, <3>4, <3>5, <3>6
  <2>23. Len(target) = T
    BY <2>22
  <2>24. end \in Nat /\ end > p /\ end <= Size * (C + N)
    <3>1. r \in 0 .. Size - 1 /\ len \in Nat /\ len > r /\ count \in Nat /\ count >= 1
      BY <2>9, <2>18
    <3>2. end = k * Size + Min({len, Size * T}) /\ T = m - k + N /\ m = Min({k + count, C})
      BY <2>10, <2>23
    <3> HIDE DEF T
    <3>3. end \in Nat /\ end > Size * k + r /\ end <= Size * (C + N)
      BY ONLY <2>9, <2>i, <2>20, <3>1, <3>2, EndFacts
    <3> QED
      BY <2>9, <3>3
  <2> HIDE DEF T
  <2>y. y \in HandleType /\ y.path = q /\ y.first = x.first /\ y.size = x.size + (end - p)
    <3>1. x \in [kind : {"open"}, path : Paths, first : Clusters, size : Nat, position : Nat]
      BY <1>3, HandleFacts DEF HandleType
    <3>2. x.size + (end - p) \in Nat
      BY <1>4, <2>24
    <3> DEFINE z == x.size + (end - p)
    <3> HIDE DEF z
    <3>3. z \in Nat /\ y = [[x EXCEPT !.position = end] EXCEPT !.size = z] /\ end \in Nat
      BY <2>15, <2>24, <3>2 DEF z
    <3>4. y \in HandleType /\ y.size = z
      BY <1>3, <3>1, <3>3, HandleFacts
    <3>5. y.path = x.path /\ y.first = x.first
      BY <3>1, <3>3
    <3> QED
      BY <3>4, <3>5 DEF z, q
  <2>25. \A i \in 1 .. Len(target) : NoEntries(disk, target[i])
    <3>1. \A c \in FreeIn(t) : NoEntries(disk, c)
      <4> SUFFICES ASSUME NEW c \in FreeIn(t) PROVE NoEntries(disk, c)
        OBVIOUS
      <4>1. disk[c] = BlankCluster
        BY <2>6 DEF FreeBlank
      <4> QED
        BY <4>1, KindFacts DEF NoEntries, BlankCluster
    <3> QED
      BY <2>8, <2>20, <2>22, <3>1
  <2>26. /\ w \in Seq(WriteType) /\ Len(w) = Len(target)
         /\ \A i \in 1 .. Len(target) :
              /\ w[i].at = target[i]
              /\ \A j \in 1 .. Size : w[i].what[j].kind \in {"blank", "data"}
    <3>1. disk \in DiskType /\ units \in Seq(Piece) /\ target \in Seq(Clusters)
      BY <1>1, <2>17, <2>22
    <3> QED
      BY ONLY <2>11, <2>25, <3>1, DataWrites
  <2>27. linked \in TableType /\ Links(t, linked, S1[q], new)
    <3>1. new # <<>> => Last(new) \in Clusters
      BY <2>20 DEF Last
    <3>2. \A c \in Clusters : t[c] \in Clusters \cup {Free, EOC}
      BY <2>5 DEF TableType
    <3> QED
      BY <2>7, <2>12, <3>1, <3>2 DEF TableType, Links
  <2>28. f \in DOMAIN E /\ f # q /\ \E i \in 1 .. Len(L[f]) : L[f][i] = Last(q)
    BY <1>5, <2>6, <2>h, ListedAt
  <2>29. PICK j \in 1 .. Len(L[f]) : L[f][j] = Last(q)
    BY <2>28
  <2>30. UpdateSize(q, end) = WriteUnit(S1[f], j - 1 + Header(S1[f][1]), [E[q] EXCEPT !.size = end])
    <3>1. UpdateSize(q, end) = WriteUnit(S[f], j - 1 + Header(S[f][1]), [E[q] EXCEPT !.size = end])
      BY ONLY <1>1, <1>2, <1>5, <2>h, <2>29, j \in 1 .. Len(L[f]), UpdateSizeIs
    <3> QED
      BY <2>5, <2>28, <3>1
  <2>31. Extension(t, E, S1, L, q, f, j, new, w, linked, end, x.size, last)
    <3>1. \A i \in 1 .. Len(w) : /\ w[i].at \in ToSet(S1[q]) \/ w[i].at \in ToSet(new)
                                 /\ \A z \in 1 .. Size : w[i].what[z].kind \in {"blank", "data"}
      BY <2>7, <2>22, <2>26
    <3>2. SmallWrites => Len(new) <= 1 /\ end <= Size * (Len(S1[q]) + Len(new))
      BY <2>7, <2>20, <2>24, <2>d, <2>e
    <3>3. last = IF end = x.size THEN <<>>
                 ELSE <<WriteUnit(S1[f], j - 1 + Header(S1[f][1]), [E[q] EXCEPT !.size = end])>>
      BY <2>13, <2>30
    <3> QED
      BY <1>5, <2>20, <2>24, <2>26, <2>27, <2>29, <2>h, <3>1, <3>2, <3>3 DEF Extension
  <2>32. writes # <<>> /\ Wrote(t, E, S1, L, q, f, new, w, linked, end, x.size, writes)
    <3>1. writes = ((first \o w) \o <<SaveTables(linked)>>) \o last
      BY <2>13
    <3> QED
      BY ONLY <1>1, <2>5, <2>31, <3>1, WriteGoes
  <2>33. PICK F, U, e :
           /\ Goes("write", fat, disk, writes, linked, e) /\ Settles(linked, e, F, U, L)
           /\ DOMAIN F = DOMAIN E /\ \A z \in DOMAIN E : z # q => F[z] = E[z]
           /\ F[q].first = E[q].first /\ F[q].dir = E[q].dir
           /\ F[q].size = IF end = x.size THEN E[q].size ELSE end
           /\ SmallWrites /\ AllOwned(t, S1) => AllOwned(linked, U)
    BY <2>32 DEF Wrote
  <2>34. \A g \in Handles : handles[g].kind = "open" =>
           /\ handles[g].path \in DOMAIN F /\ ~F[handles[g].path].dir
           /\ F[handles[g].path].first = handles[g].first
    BY <1>2, <1>5, <2>33 DEF HandlesFit
  <2>38. fat' = linked /\ Future' = DiskAfter(disk, writes, Len(writes))
    <3>1. fat' = linked /\ Future' = e
      BY <2>1, <2>33, BegunAt
    <3> QED
      BY <2>33, <3>1 DEF Goes
  <2>39. \A o \in 1 .. len : units[o] = IF o <= r THEN disk[chain[k + 1]][o] ELSE Datum(d)
    <3> DEFINE z == SubSeq(disk[c0], 1, r)
    <3>1. z \in Seq(Unit) /\ Len(z) = r /\ \A o \in 1 .. r : z[o] = disk[c0][o]
      <4>1. disk[c0] \in Seq(Unit) /\ Len(disk[c0]) = Size /\ r \in Nat /\ r <= Size
        BY <1>1, <2>9, <2>16, ConstantFacts DEF DiskType, Areas, Width
      <4> QED
        BY ONLY <4>1, ConstantFacts
    <3>2. data \in Seq(Unit) /\ Len(data) = n /\ \A o \in 1 .. n : data[o] = Datum(d)
      <4>1. data \in Seq(Unit)
        BY <2>14 DEF Piece
      <4> QED
        BY <2>14, <4>1 DEF data
    <3>3. units = z \o data
      BY <2>a
    <3> HIDE DEF z
    <3>4. \A o \in 1 .. Len(z) + Len(data) : units[o] = IF o <= Len(z) THEN z[o] ELSE data[o - Len(z)]
      BY ONLY <3>1, <3>2, <3>3, ConcatProperties
    <3>5. \A o \in 1 .. len : o <= r => units[o] = disk[c0][o]
      BY <2>9, <2>17, <3>1, <3>2, <3>4
    <3>6. \A o \in 1 .. len : ~(o <= r) => units[o] = Datum(d)
      <4> TAKE o \in 1 .. len
      <4> HAVE ~(o <= r)
      <4>1. o - r \in 1 .. n /\ o \in 1 .. r + n
        BY ONLY <2>9, <2>17, <1>6, o \in 1 .. len, ~(o <= r), ConstantFacts
      <4> QED
        BY ONLY <3>1, <3>2, <3>4, <4>1, ~(o <= r)
    <3> QED
      BY ONLY <2>e, <3>5, <3>6
  <2>37. SmallWrites /\ AppendOnly /\ OneHandle => Grown(handles[h].path, d, fat', Future')
    <3> SUFFICES ASSUME SmallWrites, AppendOnly, OneHandle PROVE Grown(q, d, linked, DiskAfter(disk, writes, Len(writes)))
      BY <2>38 DEF q
    <3> DEFINE size == x.size
    <3>1. size = E[q].size /\ size = p
      BY <1>3, <1>5
    <3>2. size = Size * k + r
      BY <2>9, <3>1
    <3>3. Len(new) <= 1 /\ (new # <<>> => m = Len(chain))
      <4>1. Len(new) <= 1
        BY <2>20, <2>d
      <4>2. ASSUME new # <<>> PROVE m = C
        <5>1. N # 0
          <6>1. Len(new) # 0
            BY <2>20, <4>2
          <6> QED
            BY <2>d, <6>1
        <5>2. k + count > C
          BY ONLY <2>c, <2>20, <5>1
        <5> DEFINE z == k + count
        <5>3. z \in Nat /\ m = Min({z, C})
          BY <2>9, <2>10, <2>18
        <5> HIDE DEF z
        <5>4. m = IF z <= C THEN z ELSE C
          BY ONLY <2>i, <5>3, MinOf
        <5> QED
          BY ONLY <2>i, <5>2, <5>3, <5>4 DEF z
      <4> QED
        BY ONLY <4>1, <4>2, <2>e
    <3>4. end = k * Size + Min({len, Size * Len(target)}) /\ end > size /\ end \in Nat
      BY ONLY <2>10, <2>24, <3>1
    <3>5. Wrote(t, E, S1, L, q, f, new, w, linked, end, size, writes)
      BY <2>32
    <3>6. m \in k + 1 .. Len(chain) /\ k < Len(chain) /\ chain = S1[q] /\ target = SubSeq(chain, k + 1, m) \o new
      BY ONLY <2>7, <2>10, <2>21, <2>1, <2>e
    <3>7. (\A o \in 1 .. r : units[o] = disk[chain[k + 1]][o]) /\ \A o \in r + 1 .. len : units[o] = Datum(d)
      <4>1. r \in Nat /\ r <= len /\ len \in Nat
        BY ONLY <2>9, <2>17, <1>6, ConstantFacts
      <4> QED
        BY ONLY <2>39, <4>1
    <3> HIDE DEF size
    <3>8. linked \in TableType
      BY <2>27
    <3>9. Ending(E, S, L, q, t, first, S1, k, r, d, units, new, m, target, w, end, linked, writes)
      BY ONLY <1>2, <1>5, <2>4, <2>9, <2>11, <2>17, <2>20, <2>f, <2>h,
              <3>1, <3>2, <3>3, <3>4, <3>5, <3>6, <3>7, <3>8 DEF Ending
    <3> QED
      BY ONLY <1>1, SmallWrites, <3>9, GrowsBy
  <2>35. CASE Len(target) < count /\ end = x.size
    <3>1. handles' = [handles EXCEPT ![h] = Spoiled]
      BY <2>2, <2>35 DEF Spoil
    <3>2. handles' \in [Handles -> HandleType] /\ \A g \in Handles : handles'[g] = IF g = h THEN Spoiled ELSE handles[g]
      BY <1>1, <3>1, HandleFacts
    <3>3. OneHandle => \A g \in Handles : g = h
      BY DEF OneHandle
    <3>4. HandlesFit(handles', F)
      BY <2>34, <3>2, <3>3, HandleFacts DEF HandlesFit
    <3>5. Leads(linked, e, handles', crashes)
      BY <1>2, <2>5, <2>33, <3>4 DEF Leads
    <3>6. IInv'
      BY <1>1, <2>1, <2>32, <2>33, <3>2, <3>5, Begun DEF Operations
    <3> QED
      BY ONLY <2>37, <3>6
  <2>36. CASE ~(Len(target) < count /\ end = x.size)
    <3>1. handles' = [handles EXCEPT ![h] = y]
      BY <2>15, <2>36
    <3>2. handles' \in [Handles -> HandleType] /\ \A g \in Handles : handles'[g] = IF g = h THEN y ELSE handles[g]
      BY <1>1, <2>y, <3>1
    <3>3. OneHandle => \A g \in Handles : g = h
      BY DEF OneHandle
    <3>4. AppendOnly /\ OneHandle => F[q].size = y.size
      <4> SUFFICES ASSUME AppendOnly PROVE F[q].size = y.size
        OBVIOUS
      <4>1. p = x.size /\ p \in Nat
        BY <1>3, <1>4
      <4>2. end # x.size /\ y.size = end
        BY <2>y, <2>24, <4>1
      <4> QED
        BY <2>33, <4>2
    <3>5. q \in DOMAIN F /\ ~F[q].dir /\ F[q].first = x.first
      BY <1>5, <2>33
    <3>6. HandlesFit(handles', F)
      BY <2>y, <2>34, <3>2, <3>3, <3>4, <3>5 DEF HandlesFit
    <3>7. Leads(linked, e, handles', crashes)
      BY <1>2, <2>5, <2>33, <3>6 DEF Leads
    <3>8. IInv'
      BY <1>1, <2>1, <2>32, <2>33, <3>2, <3>7, Begun DEF Operations
    <3> QED
      BY ONLY <2>37, <3>8
  <2> QED
    BY <2>35, <2>36
<1> QED
  BY <1>7, <1>8

(***************************************************************************)
(* The step of the file system, the invariant and the theorems from it.    *)
(***************************************************************************)

(* Every step of the file system keeps the invariant.                      *)
LEMMA NextHolds == IInv /\ [Next]_vars => IInv'
<1> SUFFICES ASSUME IInv, [Next]_vars PROVE IInv'
  OBVIOUS
<1>1. ASSUME NEW h \in Handles, FileStep(h) PROVE IInv'
  <2>1. ASSUME NEW path \in Paths, CreateFile(h, path) PROVE IInv'
    BY <2>1, CreateFileHolds
  <2>2. ASSUME NEW path \in Paths, OpenFile(h, path) PROVE IInv'
    BY <2>2, OpenFileHolds
  <2>3. ASSUME CloseFile(h) PROVE IInv'
    BY <2>3, CloseFileHolds
  <2>4. ASSUME NEW n \in Sizes, Read(h, n) PROVE IInv'
    BY <2>4, ReadHolds
  <2>5. ASSUME Seek(h, 0) PROVE IInv'
    BY <2>5, SeekHolds
  <2>6. ASSUME handles[h].kind = "open", Seek(h, handles[h].size) PROVE IInv'
    <3>1. handles[h] \in HandleType
      BY DEF IInv, Typed
    <3>2. handles[h].size \in Nat
      BY <2>6, <3>1, HandleFacts
    <3> QED
      BY <2>6, <3>2, SeekHolds
  <2>7. ASSUME NEW d \in Data, NEW n \in Sizes, Write(h, d, n) PROVE IInv'
    BY <2>7, WriteHolds
  <2> QED
    BY <1>1, <2>1, <2>2, <2>3, <2>4, <2>5, <2>6, <2>7 DEF FileStep
<1>2. ASSUME NEW path \in Paths, CreateFolder(path) \/ Rmdir(path) PROVE IInv'
  BY <1>2, CreateFolderHolds, RmdirHolds
<1>3. ASSUME WriteDataToFatFs PROVE IInv'
  BY <1>3, WriteDataHolds
<1>4. ASSUME Crash PROVE IInv'
  BY <1>4, CrashHolds
<1>5. ASSUME UNCHANGED vars PROVE IInv'
  <2>1. /\ fat' = fat /\ saved' = saved /\ disk' = disk /\ pending' = pending /\ doing' = doing
        /\ handles' = handles /\ crashes' = crashes /\ torn' = torn
    BY <1>5 DEF vars
  <2> QED
    BY <2>1 DEF IInv, Typed, Phased, Stopped, Running, Future
<1> QED
  BY <1>1, <1>2, <1>3, <1>4, <1>5 DEF Next

(* The invariant that the other theorems follow from.                      *)
THEOREM Invariance == Spec => []IInv
BY InitHolds, NextHolds, PTL DEF Spec

(* What the invariant says of the tables and the disk at every write.      *)
LEMMA MidwayHolds == IInv => Midway(doing, saved, disk)
<1> SUFFICES ASSUME IInv PROVE Midway(doing, saved, disk)
  OBVIOUS
<1>1. torn \in BOOLEAN /\ saved \in TableType /\ disk \in DiskType
  BY DEF IInv, Typed
<1>2. CASE torn
  BY <1>2 DEF IInv, Stopped
<1>3. CASE ~torn
  BY ONLY IInv, <1>1, <1>3, GoesTypes DEF IInv, Running
<1> QED
  BY <1>1, <1>2, <1>3

(* A unit of the invariant's type is a unit of the model's.                *)
LEMMA UnitIs == \A u \in Unit : IsUnit(u)
BY DEF Unit, IsUnit

(* The types of the tables, the disk, the writes of the running operation  *)
(* and the open files hold in every state.                                 *)
THEOREM Types == Spec => []TypeOK
<1>1. IInv => TypeOK
  <2> SUFFICES ASSUME IInv PROVE TypeOK
    OBVIOUS
  <2>1. Typed /\ Phased
    BY DEF IInv
  <2>2. \A a \in Areas : Len(disk[a]) = (IF a = Root THEN RootSize ELSE Size)
                         /\ \A u \in ToSet(disk[a]) : IsUnit(u)
    <3>1. \A a \in Areas : disk[a] \in Seq(Unit) /\ Len(disk[a]) = Width(a)
      BY <2>1 DEF Typed, DiskType
    <3> QED
      BY <3>1, UnitIs DEF Width, ToSet
  <2>3. \A i \in DOMAIN pending :
          \/ pending[i].at = Table /\ pending[i].what \in TableType
          \/ pending[i].at \in Areas /\ \A u \in ToSet(pending[i].what) : IsUnit(u)
    <3>1. \A i \in DOMAIN pending : pending[i] \in WriteType
      BY <2>1 DEF Typed
    <3> QED
      BY <3>1, WriteFacts, UnitIs DEF ToSet
  <2>4. \A h \in Handles :
          \/ handles[h] \in {Closed, Spoiled}
          \/ /\ handles[h].kind = "open"
             /\ handles[h].path \in Paths
             /\ handles[h].first \in Clusters
             /\ {handles[h].size, handles[h].position} \subseteq Nat
    <3> SUFFICES ASSUME NEW h \in Handles, handles[h] \notin {Closed, Spoiled}
                 PROVE  /\ handles[h].kind = "open"
                        /\ handles[h].path \in Paths
                        /\ handles[h].first \in Clusters
                        /\ {handles[h].size, handles[h].position} \subseteq Nat
      OBVIOUS
    <3>1. handles[h] \in [kind : {"open"}, path : Paths, first : Clusters, size : Nat, position : Nat]
      BY <2>1 DEF Typed, HandleType
    <3> QED
      BY <3>1
  <2>5. doing = "idle" => pending = <<>>
    BY <2>1 DEF Phased
  <2> QED
    BY <2>1, <2>2, <2>3, <2>4, <2>5 DEF TypeOK, Typed, Operations
<1> QED
  BY <1>1, Invariance, PTL

(* Between the operations the saved table is the one in memory, whatever   *)
(* failed before.                                                          *)
THEOREM Saved == Spec => []SavedBetweenOperations
<1>1. IInv => SavedBetweenOperations
  <2> SUFFICES ASSUME IInv, doing = "idle" PROVE saved = fat
    BY DEF SavedBetweenOperations
  <2>1. Idle
    BY DEF IInv, Phased, Idle
  <2> QED
    BY <2>1, IdleFacts
<1> QED
  BY <1>1, Invariance, PTL

(* Outside of a write a free cluster holds blank units only, at every      *)
(* write of every other operation and after every crash.                   *)
THEOREM FreeBlanks == Spec => []FreeIsBlank
<1>1. IInv => FreeIsBlank
  BY MidwayHolds DEF Midway, FreeBlank, FreeIsBlank
<1> QED
  BY <1>1, Invariance, PTL

(* What a tree that is sound says of the entries that are found.           *)
LEMMA EntriesAreSound ==
  ASSUME NEW t \in TableType, NEW d \in DiskType, NEW E, NEW S, NEW L, Sound(t, d, E, S, L),
         SmallWrites
  PROVE  EntriesSound(t, d)
<1>1. Represents(t, d, E, S, L) /\ IsTree(E, S, L) /\ ChainsApart(t, E, S) /\ SizesFit(E, S)
  BY DEF Sound, Represents
<1>2. \A p \in Paths : p \in Seq(Names) /\ p # <<>>
  BY PathsAreSeqs
<1>3. ASSUME NEW p \in Found(t, d)
      PROVE  /\ p \in DOMAIN E /\ p # <<>> /\ Lookup(t, d, p) = E[p]
             /\ ChainOf(t, d, p) = S[p] /\ IsChain(t, S[p])
  <2>1. p \in Paths /\ Lookup(t, d, p) # Missing
    BY DEF Found
  <2>2. Lookup(t, d, p) = IF p \in DOMAIN E THEN E[p] ELSE Missing
    BY <1>1, <1>2, <2>1, LookupIs
  <2>3. p \in DOMAIN E /\ p # <<>> /\ Lookup(t, d, p) = E[p]
    BY <1>2, <2>1, <2>2
  <2> QED
    BY <1>1, <2>3, ShapeOf DEF ChainOf
<1> SUFFICES ASSUME NEW p \in Found(t, d)
             PROVE  /\ Free \notin {t[c] : c \in ToSet(S[p])}
                    /\ t[Last(S[p])] = EOC
                    /\ ~E[p].dir => E[p].size <= Size * Len(S[p])
                    /\ \A q \in Found(t, d) \ {p} : ToSet(S[p]) \cap ToSet(ChainOf(t, d, q)) = {}
  BY <1>3 DEF EntriesSound
<1>4. p \in DOMAIN E /\ p # <<>> /\ IsChain(t, S[p])
  BY <1>3
<1>5. Free \notin {t[c] : c \in ToSet(S[p])}
  BY <1>4, ChainNotFree
<1>6. t[Last(S[p])] = EOC
  BY <1>4 DEF IsChain, Last
<1>7. ~E[p].dir => E[p].size <= Size * Len(S[p])
  BY <1>1, <1>4 DEF SizesFit
<1>8. ASSUME NEW q \in Found(t, d) \ {p} PROVE ToSet(S[p]) \cap ToSet(ChainOf(t, d, q)) = {}
  <2>1. q \in DOMAIN E /\ q # <<>> /\ ChainOf(t, d, q) = S[q]
    BY <1>3
  <2> QED
    BY <1>1, <1>4, <2>1 DEF ChainsApart
<1> QED
  BY <1>5, <1>6, <1>7, <1>8

(* Wherever the machine stops, except inside of rmdir, each entry on the   *)
(* disk leads to a chain of its own that is allocated and long enough,     *)
(* when no program writes more than a cluster and a unit at once.          *)
THEOREM SoundWrites == ASSUME SmallWrites PROVE Spec => []SoundAtEveryWrite
<1>1. IInv => SoundAtEveryWrite
  <2> SUFFICES ASSUME IInv, doing # "rmdir" PROVE EntriesSound(saved, disk)
    BY DEF SoundAtEveryWrite
  <2>1. saved \in TableType /\ disk \in DiskType
    BY DEF IInv, Typed
  <2>2. PICK E, S, L : Sound(saved, disk, E, S, L)
    BY MidwayHolds DEF Midway
  <2> QED
    BY <2>1, <2>2, EntriesAreSound
<1> QED
  BY <1>1, Invariance, PTL

(* As long as the machine never stopped, the clusters that are allocated   *)
(* between the operations are the ones of the files and folders, when no   *)
(* program writes more than a cluster and a unit at once.                  *)
THEOREM NoneLost == ASSUME SmallWrites PROVE Spec => []NoLostClusters
<1>1. IInv => NoLostClusters
  <2> SUFFICES ASSUME IInv, doing = "idle", crashes = 0
               PROVE  Allocated(fat, disk) = Clusters \ FreeIn(fat)
    BY DEF NoLostClusters
  <2>1. Idle
    BY DEF IInv, Phased, Idle
  <2>2. Leads(fat, disk, handles, crashes) /\ fat \in TableType /\ disk \in DiskType
    BY <2>1, IdleFacts DEF IInv, Typed
  <2>3. PICK E, S, L : Settles(fat, disk, E, S, L) /\ AllOwned(fat, S)
    BY <2>2 DEF Leads
  <2>4. Represents(fat, disk, E, S, L) /\ IsTree(E, S, L) /\ ChainsApart(fat, E, S)
    BY <2>3 DEF Settles, Sound, Represents
  <2>5. DOMAIN S = DOMAIN E /\ \A p \in DOMAIN E : p \in Seq(Names) /\ (p # <<>> => p \in Paths) /\ E[p] # Missing
    BY <2>4, TreeFacts
  <2>6. \A p \in Paths : p \in Seq(Names) /\ p # <<>>
    BY PathsAreSeqs
  <2>7. ASSUME NEW p \in Seq(Names)
        PROVE  Lookup(fat, disk, p) = IF p \in DOMAIN E THEN E[p] ELSE Missing
    BY <2>2, <2>4, LookupIs
  <2>8. Found(fat, disk) = DOMAIN E \ {<<>>}
    BY <2>5, <2>6, <2>7 DEF Found
  <2>9. ASSUME NEW p \in DOMAIN E \ {<<>>} PROVE ChainOf(fat, disk, p) = S[p] /\ IsChain(fat, S[p])
    <3>1. Lookup(fat, disk, p) = E[p]
      BY <2>5, <2>7
    <3> QED
      BY <2>2, <2>4, <3>1, ShapeOf DEF ChainOf
  <2>10. ASSUME NEW c \in Allocated(fat, disk) PROVE c \in Clusters \ FreeIn(fat)
    <3>1. PICK p \in DOMAIN E \ {<<>>} : c \in ToSet(S[p])
      BY <2>8, <2>9 DEF Allocated
    <3>2. c \in Clusters /\ fat[c] # Free
      BY <2>2, <2>9, <3>1, ChainNotFree
    <3> QED
      BY <3>2 DEF FreeIn
  <2>11. ASSUME NEW c \in Clusters \ FreeIn(fat) PROVE c \in Allocated(fat, disk)
    <3>1. PICK p \in DOMAIN S \ {<<>>} : c \in ToSet(S[p])
      BY <2>3 DEF AllOwned, FreeIn
    <3>2. p \in Found(fat, disk) /\ ChainOf(fat, disk, p) = S[p]
      BY <2>5, <2>8, <2>9, <3>1
    <3> QED
      BY <3>1, <3>2 DEF Allocated
  <2> QED
    BY <2>10, <2>11
<1> QED
  BY <1>1, Invariance, PTL

(* What the tree says of an open file between the operations.              *)
LEMMA OpenIs ==
  ASSUME IInv, doing = "idle", NEW h \in Handles, handles[h].kind = "open"
  PROVE  LET e == Lookup(fat, disk, handles[h].path) IN
         /\ e # Missing /\ ~e.dir /\ e.first = handles[h].first
         /\ AppendOnly /\ OneHandle => e.size = handles[h].size
<1>1. Idle
  BY DEF IInv, Phased, Idle
<1>2. /\ Leads(fat, disk, handles, crashes) /\ fat \in TableType /\ disk \in DiskType
      /\ handles[h] \in HandleType
  BY <1>1, IdleFacts DEF IInv, Typed
<1>3. PICK E, S, L : Settles(fat, disk, E, S, L) /\ HandlesFit(handles, E)
  BY <1>2 DEF Leads
<1>4. Represents(fat, disk, E, S, L) /\ IsTree(E, S, L)
  BY <1>3 DEF Settles, Sound, Represents
<1> DEFINE p == handles[h].path
<1>5. p \in Seq(Names)
  BY <1>2, HandleFacts, PathsAreSeqs
<1>6. /\ p \in DOMAIN E /\ ~E[p].dir /\ E[p].first = handles[h].first
      /\ AppendOnly /\ OneHandle => E[p].size = handles[h].size
  BY <1>3 DEF HandlesFit
<1> HIDE DEF p
<1>7. Lookup(fat, disk, p) = E[p]
  BY <1>2, <1>4, <1>5, <1>6, LookupIs
<1>8. E[p] # Missing
  BY <1>4, <1>6, TreeFacts
<1> QED
  BY <1>6, <1>7, <1>8 DEF p

(* No open file loses its entry or its first cluster, for every number of  *)
(* open files and every position of their writes.                          *)
THEOREM OpenStay == Spec => []OpenFilesStay
<1>1. IInv => OpenFilesStay
  BY OpenIs DEF OpenFilesStay
<1> QED
  BY <1>1, Invariance, PTL

(* What an open file remembers of its entry is what the folder says, if    *)
(* the file system has one handle and programs append.                     *)
THEOREM Fresh == ASSUME AppendOnly, OneHandle PROVE Spec => []HandleFresh
<1>1. IInv => HandleFresh
  BY OpenIs DEF HandleFresh
<1> QED
  BY <1>1, Invariance, PTL

(***************************************************************************)
(* The tree that the look-ups read.                                        *)
(***************************************************************************)

(* What is found is what a tree has that stands for the table and disk.    *)
LEMMA FoundIs ==
  ASSUME NEW t \in TableType, NEW d \in DiskType, NEW E, NEW S, NEW L, Represents(t, d, E, S, L)
  PROVE  Found(t, d) = DOMAIN E \ {<<>>}
<1>1. IsTree(E, S, L)
  BY DEF Represents
<1>2. \A p \in DOMAIN E : (p # <<>> => p \in Paths) /\ E[p] # Missing
  BY <1>1, TreeFacts
<1>3. \A p \in Paths : p \in Seq(Names) /\ p # <<>>
  BY PathsAreSeqs
<1>4. ASSUME NEW p \in Paths
      PROVE  Lookup(t, d, p) # Missing <=> p \in DOMAIN E
  <2>1. Lookup(t, d, p) = IF p \in DOMAIN E THEN E[p] ELSE Missing
    BY <1>3, LookupIs
  <2> QED
    BY <1>2, <2>1
<1> QED
  BY <1>2, <1>3, <1>4 DEF Found

(* The names that a folder lists, read from its items.                     *)
LEMMA ListIs ==
  ASSUME NEW t \in TableType, NEW d \in DiskType, NEW E, NEW S, NEW L, Represents(t, d, E, S, L),
         NEW p \in DOMAIN E, E[p].dir,
         NEW items, items = ItemsIn(d, S[p])
  PROVE  [i \in DOMAIN items |-> items[i].name] = L[p]
<1>1. IsTree(E, S, L) /\ ChainsApart(t, E, S)
  BY DEF Represents
<1>2. Chain(t, E[p].first) = S[p]
  BY <1>1, ShapeOf
<1>3. Items(t, d, E[p].first) = items
  BY <1>2, The_ DEF Items
<1>4. items \in Seq(Unit) /\ Len(items) = Len(L[p])
      /\ \A k \in 1 .. Len(L[p]) : items[k] = E[Append(p, L[p][k])]
  BY <1>3, ItemsOfFolder
<1>5. /\ p \in Seq(Names) /\ L[p] \in Seq(Names)
      /\ \A n \in Names : Append(p, n) \in DOMAIN E <=> n \in ToSet(L[p])
      /\ \A z \in DOMAIN E : z # <<>> => E[z].name = Last(z)
  BY <1>1, TreeFacts
<1>6. ASSUME NEW k \in 1 .. Len(L[p]) PROVE items[k].name = L[p][k]
  <2>1. L[p][k] \in Names /\ L[p][k] \in ToSet(L[p])
    BY <1>5 DEF ToSet
  <2>2. Append(p, L[p][k]) \in DOMAIN E
    BY <1>5, <2>1
  <2>3. Append(p, L[p][k]) # <<>> /\ Last(Append(p, L[p][k])) = L[p][k]
    BY <1>5, <2>1, ChildFacts
  <2> QED
    BY <1>4, <1>5, <2>2, <2>3
<1>7. DOMAIN items = 1 .. Len(L[p]) /\ L[p] = [k \in 1 .. Len(L[p]) |-> L[p][k]]
  BY <1>4, <1>5
<1> QED
  BY <1>6, <1>7

(* The tree that the look-ups read is the one the table and disk stand for.*)
LEMMA TreeIsRead ==
  ASSUME NEW t \in TableType, NEW d \in DiskType, NEW E, NEW S, NEW L, Represents(t, d, E, S, L)
  PROVE  LET F == EntriesOf(t, d) IN
         /\ DOMAIN F = DOMAIN E /\ \A p \in DOMAIN E : F[p] = E[p]
         /\ \A T : DOMAIN T = DOMAIN E /\ (\A p \in DOMAIN E : T[p] = S[p]) =>
              /\ DOMAIN ListsOf(d, F, T) = DOMAIN E
              /\ \A p \in DOMAIN E : ListsOf(d, F, T)[p] = L[p]
         /\ DOMAIN ChainsOf(t, F) = DOMAIN E /\ \A p \in DOMAIN E : ChainsOf(t, F)[p] = S[p]
<1> DEFINE F == EntriesOf(t, d)
<1>1. IsTree(E, S, L) /\ ChainsApart(t, E, S)
  BY DEF Represents
<1>2. /\ <<>> \in DOMAIN E
      /\ \A p \in DOMAIN E : p \in Seq(Names) /\ (~E[p].dir => L[p] = <<>>)
  BY <1>1, TreeFacts
<1>3. DOMAIN F = DOMAIN E /\ \A p \in DOMAIN E : F[p] = E[p]
  <2>1. Found(t, d) \cup {<<>>} = DOMAIN E
    BY <1>2, FoundIs
  <2>2. \A p \in DOMAIN E : Lookup(t, d, p) = E[p]
    BY <1>2, LookupIs
  <2> QED
    BY <2>1, <2>2 DEF EntriesOf
<1> HIDE DEF F
<1>4. DOMAIN ChainsOf(t, F) = DOMAIN E /\ \A p \in DOMAIN E : ChainsOf(t, F)[p] = S[p]
  <2>1. \A p \in DOMAIN E : Chain(t, E[p].first) = S[p]
    BY <1>1, ShapeOf
  <2> QED
    BY <1>3, <2>1 DEF ChainsOf
<1>5. ASSUME NEW T, DOMAIN T = DOMAIN E, \A p \in DOMAIN E : T[p] = S[p]
      PROVE  /\ DOMAIN ListsOf(d, F, T) = DOMAIN E
             /\ \A p \in DOMAIN E : ListsOf(d, F, T)[p] = L[p]
  <2>1. ASSUME NEW p \in DOMAIN E, E[p].dir
        PROVE  The({[i \in DOMAIN items |-> items[i].name] : items \in {ItemsIn(d, T[p])}}) = L[p]
    <3> DEFINE items == ItemsIn(d, S[p])
    <3>1. [i \in DOMAIN items |-> items[i].name] = L[p]
      BY <2>1, ListIs
    <3>2. {[i \in DOMAIN x |-> x[i].name] : x \in {ItemsIn(d, T[p])}} = {L[p]}
      BY <3>1, <1>5
    <3> QED
      BY <3>2, The_
  <2> QED
    BY <1>2, <1>3, <2>1 DEF ListsOf
<1> QED
  BY <1>3, <1>4, <1>5 DEF F

(* Functions with the same values describe the same tree.                  *)
LEMMA SameTree ==
  ASSUME NEW t, NEW d, NEW E, NEW S, NEW L, Sound(t, d, E, S, L), NEW F, NEW T, NEW M,
         DOMAIN F = DOMAIN E, DOMAIN T = DOMAIN E, DOMAIN M = DOMAIN E,
         \A p \in DOMAIN E : F[p] = E[p] /\ T[p] = S[p] /\ M[p] = L[p]
  PROVE  Sound(t, d, F, T, M) /\ (AllHeaded(d, E, S) => AllHeaded(d, F, T))
<1>1. IsTree(E, S, L) /\ ChainsApart(t, E, S) /\ Holds(d, E, S, L) /\ (SmallWrites => SizesFit(E, S))
  BY DEF Sound, Represents
<1>2. IsTree(F, T, M)
  BY <1>1 DEF IsTree
<1>3. ChainsApart(t, F, T)
  BY <1>1 DEF ChainsApart
<1>4. Holds(d, F, T, M)
  <2>1. ASSUME NEW p \in DOMAIN E, E[p].dir PROVE FolderHolds(d, F, T, M, p)
    <3>1. FolderHolds(d, E, S, L, p)
      BY <1>1, <2>1 DEF Holds
    <3>2. \A k \in 1 .. Len(L[p]) : F[Append(p, L[p][k])] = E[Append(p, L[p][k])]
      <4>1. L[p] \in Seq(Names) /\ \A n \in Names : Append(p, n) \in DOMAIN E <=> n \in ToSet(L[p])
        BY <1>1, TreeFacts
      <4>2. \A k \in 1 .. Len(L[p]) : L[p][k] \in Names /\ L[p][k] \in ToSet(L[p])
        BY <4>1 DEF ToSet
      <4> QED
        BY <4>1, <4>2
    <3> QED
      BY <3>1, <3>2 DEF FolderHolds
  <2> QED
    BY <1>1, <2>1 DEF Holds
<1>5. SmallWrites => SizesFit(F, T)
  BY <1>1 DEF SizesFit
<1>6. AllHeaded(d, E, S) => AllHeaded(d, F, T)
  BY DEF AllHeaded
<1> QED
  BY <1>2, <1>3, <1>4, <1>5, <1>6 DEF Sound, Represents

(* What the look-ups read is a tree if there is one.                       *)
LEMMA SoundStands ==
  ASSUME NEW op, NEW t \in TableType, NEW d \in DiskType, NEW E, NEW S, NEW L, Sound(t, d, E, S, L),
         op \in {"idle", "create_file"} => AllHeaded(d, E, S)
  PROVE  StandsFor(op, t, d)
<1> DEFINE F == EntriesOf(t, d)
           T == ChainsOf(t, F)
           M == ListsOf(d, F, T)
<1>1. Represents(t, d, E, S, L)
  BY DEF Sound
<1>2. DOMAIN T = DOMAIN E /\ \A p \in DOMAIN E : T[p] = S[p]
  BY <1>1, TreeIsRead
<1>3. DOMAIN F = DOMAIN E /\ \A p \in DOMAIN E : F[p] = E[p]
  BY <1>1, TreeIsRead
<1>4. DOMAIN M = DOMAIN E /\ \A p \in DOMAIN E : M[p] = L[p]
  BY <1>1, <1>2, TreeIsRead
<1> HIDE DEF F, T, M
<1>5. Sound(t, d, F, T, M) /\ (AllHeaded(d, E, S) => AllHeaded(d, F, T))
  BY <1>2, <1>3, <1>4, SameTree
<1> QED
  BY <1>5 DEF StandsFor, F, T, M

(* The look-ups read a tree without a flaw at every write and after every  *)
(* crash, rmdir apart, and the running operation leads to such a tree.     *)
THEOREM ATree == Spec => []DiskIsTree
<1>1. IInv => DiskIsTree
  <2> SUFFICES ASSUME IInv PROVE DiskIsTree
    OBVIOUS
  <2>1. saved \in TableType /\ disk \in DiskType /\ fat \in TableType
    BY DEF IInv, Typed
  <2>2. ASSUME doing # "rmdir" PROVE StandsFor(doing, saved, disk)
    <3>1. PICK E, S, L : /\ Sound(saved, disk, E, S, L)
                         /\ doing \in {"idle", "create_file"} => AllHeaded(disk, E, S)
      BY <2>2, MidwayHolds DEF Midway
    <3> QED
      BY <2>1, <3>1, SoundStands
  <2>3. ASSUME pending # <<>> PROVE StandsFor("idle", fat, Future)
    <3>1. ~torn /\ torn \in BOOLEAN
      BY <2>3 DEF IInv, Phased, Typed
    <3>2. Goes(doing, saved, disk, pending, fat, Future) /\ Leads(fat, Future, handles, crashes)
      BY <3>1 DEF IInv, Running
    <3>3. Future \in DiskType
      BY <2>1, <3>2, GoesTypes
    <3>4. PICK E, S, L : Settles(fat, Future, E, S, L)
      BY <3>2 DEF Leads
    <3> QED
      BY <2>1, <3>3, <3>4, SoundStands DEF Settles
  <2>4. pending # <<>> => \E future \in {Future} : StandsFor("idle", fat, future)
    BY <2>3
  <2> QED
    BY <2>2, <2>4 DEF DiskIsTree
<1> QED
  BY <1>1, Invariance, PTL

(***************************************************************************)
(* The tree of files that the table and the disk stand for.                *)
(***************************************************************************)

(* What lies at path p of the tree that a table and a disk stand for.      *)
Lies(d, E, S, p) ==
  [dir |-> E[p].dir, data |-> IF E[p].dir THEN <<>> ELSE Content(d, S[p], E[p].size)]

(* What the tree is, path by path.                                         *)
TreeFor(d, E, S) == [p \in DOMAIN E \ {<<>>} |-> Lies(d, E, S, p)]

(* This is the tree that is promised.                                      *)
LEMMA TreeOfIs ==
  ASSUME NEW t \in TableType, NEW d \in DiskType, NEW E, NEW S, NEW L, Represents(t, d, E, S, L)
  PROVE  TreeOf(t, d) = TreeFor(d, E, S)
<1>1. Found(t, d) = DOMAIN E \ {<<>>}
  BY FoundIs
<1>2. IsTree(E, S, L) /\ ChainsApart(t, E, S)
  BY DEF Represents
<1>3. ASSUME NEW p \in DOMAIN E
      PROVE  Lookup(t, d, p) = E[p] /\ Chain(t, E[p].first) = S[p]
  <2>1. p \in Seq(Names)
    BY <1>2, TreeFacts
  <2>2. Lookup(t, d, p) = E[p]
    BY <2>1, LookupIs
  <2> QED
    BY <1>2, <2>2, ShapeOf
<1>4. ASSUME NEW p \in DOMAIN E
      PROVE  The({[dir |-> e.dir, data |-> IF e.dir THEN <<>> ELSE Content(d, Chain(t, e.first), e.size)] :
                    e \in {Lookup(t, d, p)}}) = Lies(d, E, S, p)
  <2>1. {[dir |-> e.dir, data |-> IF e.dir THEN <<>> ELSE Content(d, Chain(t, e.first), e.size)] :
            e \in {Lookup(t, d, p)}} = {Lies(d, E, S, p)}
    BY <1>3, Zenon DEF Lies
  <2> QED
    BY <2>1, The_
<1> QED
  BY <1>1, <1>4 DEF TreeOf, TreeFor

(* The tree that is promised is the one of the disk to come.               *)
LEMMA TreeIs == IInv => Tree = TreeOf(fat, Future)
<1> SUFFICES ASSUME IInv PROVE Tree = TreeOf(fat, Future)
  OBVIOUS
<1>1. pending \in Seq(WriteType)
  BY DEF IInv, Typed
<1>2. DOMAIN pending = 1 .. Len(pending)
  BY <1>1
<1>3. Settled = Future
  BY <1>2 DEF Settled, Future, DiskAfter, Latest, WritesTo
<1>4. {TreeOf(fat, d) : d \in {Settled}} = {TreeOf(fat, Future)}
  BY <1>3
<1> QED
  BY <1>4, The_ DEF Tree

(* What a file holds depends on its clusters only.                         *)
LEMMA SameContent ==
  ASSUME SmallWrites, NEW t \in TableType, NEW d, NEW E, NEW S, NEW L, Sound(t, d, E, S, L),
         NEW p \in DOMAIN E, ~E[p].dir,
         NEW e, \A c \in ToSet(S[p]) : e[c] = d[c]
  PROVE  Content(e, S[p], E[p].size) = Content(d, S[p], E[p].size)
<1> DEFINE n == E[p].size
           s == S[p]
<1>1. IsTree(E, S, L) /\ ChainsApart(t, E, S) /\ n <= Size * Len(s)
  BY DEF Sound, Represents, SizesFit
<1>2. p # <<>> /\ n \in Nat /\ Len(s) \in Nat /\ ToSet(s) = {s[i] : i \in 1 .. Len(s)}
  <2>1. p # <<>> /\ E[p] \in EntryType
    BY <1>1, TreeFacts, KindFacts
  <2>2. n \in Nat
    BY <2>1, KindFacts
  <2>3. Len(s) \in Nat /\ ToSet(s) = {s[i] : i \in 1 .. Len(s)}
    <3>1. IsTree(E, S, L) /\ ChainsApart(t, E, S)
      BY <1>1
    <3> HIDE DEF n, s
    <3>2. Len(S[p]) \in Nat /\ DOMAIN S[p] = 1 .. Len(S[p])
      BY <3>1, ShapeOf
    <3> QED
      BY <3>2 DEF s, ToSet
  <2> QED
    BY <2>1, <2>2, <2>3
<1> HIDE DEF n, s
<1>3. ASSUME NEW i \in 1 .. n
      PROVE  e[s[((i - 1) \div Size) + 1]] = d[s[((i - 1) \div Size) + 1]]
  <2>1. Size \in Nat /\ Size > 0
    BY ConstantFacts
  <2>2. i - 1 \in 0 .. Size * Len(s) - 1
    <3> DEFINE z == Size * Len(s)
    <3>1. z \in Nat /\ n <= z
      BY <1>1, <1>2, <2>1
    <3> HIDE DEF z
    <3>2. i - 1 \in 0 .. z - 1
      BY <1>2, <3>1
    <3> QED
      BY <3>2 DEF z
  <2> DEFINE k == i - 1
             j == k \div Size
  <2>3. j \in 0 .. Len(s) - 1
    <3> HIDE DEF k
    <3>1. k \in 0 .. Size * Len(s) - 1
      BY <2>2 DEF k
    <3> QED
      BY <1>2, <2>1, <3>1, DivBound
  <2> HIDE DEF j
  <2>4. j + 1 \in 1 .. Len(s)
    BY <1>2, <2>3
  <2>5. s[j + 1] \in ToSet(s)
    BY <1>2, <2>4
  <2> QED
    BY <2>5 DEF j, s
<1>4. Content(e, s, n) = Content(d, s, n)
  BY <1>3 DEF Content
<1> QED
  BY <1>4 DEF n, s

(* What an operation left alone lies where it lay.                         *)
LEMMA SameLies ==
  ASSUME SmallWrites, NEW t \in TableType, NEW d, NEW E, NEW S, NEW L, Sound(t, d, E, S, L),
         NEW e, NEW F, NEW T, NEW Q, Untouched(d, E, S, e, F, T, Q), NEW p \in Q
  PROVE  p \in DOMAIN E /\ p \in DOMAIN F /\ Lies(e, F, T, p) = Lies(d, E, S, p)
<1>1. /\ p \in DOMAIN E /\ p \in DOMAIN F /\ F[p].dir = E[p].dir
      /\ ~E[p].dir => /\ F[p].size = E[p].size /\ T[p] = S[p]
                      /\ \A c \in ToSet(S[p]) : e[c] = d[c]
  BY DEF Untouched
<1>2. CASE E[p].dir
  BY <1>1, <1>2 DEF Lies
<1>3. CASE ~E[p].dir
  <2>1. Content(e, S[p], E[p].size) = Content(d, S[p], E[p].size)
    BY <1>1, <1>3, SameContent
  <2> QED
    BY <1>1, <1>3, <2>1 DEF Lies
<1> QED
  BY <1>1, <1>2, <1>3

(* Nothing lies below what lists nothing.                                  *)
LEMMA NothingBelow ==
  ASSUME NEW E, NEW S, NEW L, IsTree(E, S, L), NEW p \in DOMAIN E, L[p] = <<>>,
         NEW q \in DOMAIN E, IsStrictPrefix(p, q)
  PROVE  FALSE
<1>1. /\ p \in Seq(Names) /\ q \in Seq(Names) /\ Len(p) \in Nat /\ Len(q) \in Nat
      /\ \A n \in Names : Append(p, n) \notin DOMAIN E
      /\ \A x \in DOMAIN E : x # <<>> => Front(x) \in DOMAIN E
  <2>1. \A n \in Names : n \notin ToSet(<<>>)
    BY DEF ToSet
  <2>2. p \in Seq(Names) /\ q \in Seq(Names)
    BY TreeFacts
  <2> QED
    BY <2>1, <2>2 DEF IsTree
<1>2. Len(p) < Len(q) /\ p = SubSeq(q, 1, Len(p))
  <2>1. Len(p) <= Len(q) /\ SubSeq(p, 1, Len(p)) = SubSeq(q, 1, Len(p)) /\ p # q
    BY <1>1 DEF IsStrictPrefix, IsPrefix
  <2>2. SubSeq(p, 1, Len(p)) = p /\ SubSeq(q, 1, Len(q)) = q
    BY <1>1
  <2> QED
    BY <1>1, <2>1, <2>2
<1> DEFINE Short(n) == SubSeq(q, 1, n)
           K == {n \in Len(p) + 1 .. Len(q) : Short(n) \in DOMAIN E}
<1>3. Short(Len(q)) = q /\ Len(q) \in K
  <2>1. Short(Len(q)) = q
    BY <1>1
  <2>2. Len(q) \in Len(p) + 1 .. Len(q)
    BY <1>1, <1>2
  <2> HIDE DEF Short
  <2> QED
    BY <2>1, <2>2
<1>4. PICK m \in K : \A k \in K : m <= k
  <2>1. K \subseteq Nat /\ K # {}
    BY <1>1, <1>3
  <2> HIDE DEF K
  <2> QED
    BY <2>1, Least
<1>5. m \in Nat /\ m >= Len(p) + 1 /\ m <= Len(q) /\ Short(m) \in DOMAIN E
  BY <1>1, <1>4
<1>6. /\ Short(m) \in Seq(Names) /\ Len(Short(m)) = m /\ Short(m) # <<>>
      /\ Front(Short(m)) = Short(m - 1) /\ Last(Short(m)) \in Names
      /\ Append(Front(Short(m)), Last(Short(m))) = Short(m)
  <2>1. Short(m) \in Seq(Names) /\ Len(Short(m)) = m /\ Short(m) # <<>>
    BY <1>1, <1>5
  <2>2. SubSeq(Short(m), 1, m - 1) = Short(m - 1)
    BY <1>1, <1>5
  <2> HIDE DEF Short
  <2> QED
    BY <2>1, <2>2, PathFacts
<1> HIDE DEF Short
<1>7. Short(m - 1) \in DOMAIN E
  BY <1>1, <1>5, <1>6
<1>8. CASE m = Len(p) + 1
  <2>1. Short(m - 1) = p
    BY <1>1, <1>2, <1>8 DEF Short
  <2> QED
    BY <1>1, <1>5, <1>6, <2>1
<1>9. CASE m > Len(p) + 1
  <2>1. m - 1 \in K /\ ~(m <= m - 1)
    BY <1>1, <1>5, <1>7, <1>9
  <2> HIDE DEF K
  <2> QED
    BY <1>4, <2>1
<1> QED
  BY <1>1, <1>5, <1>8, <1>9

(***************************************************************************)
(* Creations, removals and writes are steps of the tree of files.          *)
(***************************************************************************)

(* The tree before and after an operation that leads to table and disk.    *)
Turns(t, e, E, S, L, F, T, M) ==
  /\ Settles(fat, disk, E, S, L) /\ Settles(t, e, F, T, M)
  /\ Tree = TreeOf(fat, disk) /\ Tree' = TreeOf(t, e)

(* Both trees are those that the tables and disks stand for.               *)
LEMMA TurnsAre ==
  ASSUME fat \in TableType, disk \in DiskType, NEW t \in TableType, NEW e \in DiskType,
         NEW E, NEW S, NEW L, NEW F, NEW T, NEW M, Turns(t, e, E, S, L, F, T, M)
  PROVE  Tree = TreeFor(disk, E, S) /\ Tree' = TreeFor(e, F, T)
<1>1. /\ Represents(fat, disk, E, S, L) /\ Represents(t, e, F, T, M)
      /\ Tree = TreeOf(fat, disk) /\ Tree' = TreeOf(t, e)
  BY DEF Turns, Settles, Sound
<1>2. Tree = TreeFor(disk, E, S)
  BY <1>1, TreeOfIs
<1>3. Tree' = TreeFor(e, F, T)
  BY <1>1, TreeOfIs
<1> QED
  BY <1>2, <1>3

(* What an operation left alone is at its path in both trees.              *)
LEMMA TurnsKeep ==
  ASSUME SmallWrites, fat \in TableType, NEW t, NEW e,
         NEW E, NEW S, NEW L, NEW F, NEW T, NEW M, Turns(t, e, E, S, L, F, T, M),
         Tree = TreeFor(disk, E, S), Tree' = TreeFor(e, F, T),
         NEW Q, Untouched(disk, E, S, e, F, T, Q), NEW p \in Q, p # <<>>
  PROVE  p \in DOMAIN Tree /\ p \in DOMAIN Tree' /\ Tree'[p] = Tree[p]
<1>1. Sound(fat, disk, E, S, L)
  BY DEF Turns, Settles
<1>2. p \in DOMAIN E /\ p \in DOMAIN F /\ Lies(e, F, T, p) = Lies(disk, E, S, p)
  BY <1>1, SameLies
<1> QED
  BY <1>2 DEF TreeFor

(* Two trees with the same paths and the same at each.                     *)
LEMMA TreesEqual ==
  ASSUME NEW d, NEW E, NEW S, NEW e, NEW F, NEW T, Tree = TreeFor(d, E, S), Tree' = TreeFor(e, F, T),
         DOMAIN Tree' = DOMAIN Tree, \A p \in DOMAIN Tree : Tree'[p] = Tree[p]
  PROVE  Tree' = Tree
<1>1. Tree = [p \in DOMAIN Tree |-> Tree[p]]
  BY DEF TreeFor
<1>2. Tree' = [p \in DOMAIN Tree' |-> Tree'[p]]
  BY DEF TreeFor
<1> QED
  BY <1>1, <1>2

(* A creation puts a new item into the tree, or fails and changes nothing. *)
LEMMA CreatedRefines ==
  ASSUME SmallWrites, fat \in TableType, disk \in DiskType, NEW t \in TableType, NEW e \in DiskType,
         Tree = TreeOf(fat, disk), Tree' = TreeOf(t, e),
         NEW path \in Paths, NEW dir \in BOOLEAN, Created(path, dir, t, e)
  PROVE  [Promise!Next]_Tree
<1>1. PICK E, S, L, F, T, M :
         /\ Settles(fat, disk, E, S, L) /\ Settles(t, e, F, T, M)
         /\ path \notin DOMAIN E /\ Front(path) \in DOMAIN E /\ E[Front(path)].dir
         /\ Untouched(disk, E, S, e, F, T, DOMAIN E)
         /\ \/ DOMAIN F = DOMAIN E
            \/ DOMAIN F = DOMAIN E \cup {path} /\ F[path].dir = dir /\ F[path].size = 0
  BY DEF Created
<1>2. Turns(t, e, E, S, L, F, T, M)
  BY <1>1 DEF Turns
<1>a. Tree = TreeFor(disk, E, S) /\ Tree' = TreeFor(e, F, T)
  BY <1>2, TurnsAre
<1>3. /\ Tree = TreeFor(disk, E, S) /\ Tree' = TreeFor(e, F, T)
      /\ DOMAIN Tree = DOMAIN E \ {<<>>} /\ DOMAIN Tree' = DOMAIN F \ {<<>>}
      /\ \A p \in DOMAIN Tree : Tree[p].dir = E[p].dir
  <2>1. DOMAIN Tree = DOMAIN E \ {<<>>} /\ DOMAIN Tree' = DOMAIN F \ {<<>>}
    BY <1>a, Zenon DEF TreeFor
  <2>2. ASSUME NEW p \in DOMAIN Tree PROVE Tree[p].dir = E[p].dir
    <3>1. Tree[p] = Lies(disk, E, S, p)
      BY <1>a, <2>1 DEF TreeFor
    <3> QED
      BY <3>1 DEF Lies
  <2> QED
    BY <1>a, <2>1, <2>2
<1>4. \A p \in DOMAIN Tree : p \in DOMAIN Tree' /\ Tree'[p] = Tree[p]
  <2> TAKE p \in DOMAIN Tree
  <2>1. p \in DOMAIN E /\ p # <<>>
    BY <1>3
  <2> QED
    BY <1>1, <1>2, <1>a, <2>1, TurnsKeep
<1>5. CASE DOMAIN F = DOMAIN E
  <2>1. Tree' = Tree
    BY <1>3, <1>4, <1>5, TreesEqual
  <2> QED
    BY <2>1
<1>6. CASE DOMAIN F = DOMAIN E \cup {path} /\ F[path].dir = dir /\ F[path].size = 0
  <2> DEFINE new == Tree'[path]
  <2>1. path # <<>> /\ path \in DOMAIN Tree' \ DOMAIN Tree /\ DOMAIN Tree' = DOMAIN Tree \cup {path}
    BY <1>1, <1>3, <1>6, PathsAreSeqs
  <2>2. new \in {Promise!Folder, Promise!File(<<>>)}
    <3>1. Content(e, T[path], 0) = <<>>
      BY DEF Content
    <3>2. new = Lies(e, F, T, path)
      BY <1>3, <2>1 DEF TreeFor
    <3> QED
      BY <1>6, <3>1, <3>2 DEF Lies, Promise!Folder, Promise!File
  <2>3. Promise!IsFolder(Front(path))
    BY <1>1, <1>3 DEF Promise!IsFolder
  <2>4. Promise!Front(path) = Front(path)
    BY DEF Promise!Front, Front
  <2>5. Tree' = [q \in DOMAIN Tree \cup {path} |-> IF q = path THEN new ELSE Tree[q]]
    <3>1. Tree' = [q \in DOMAIN Tree' |-> Tree'[q]]
      BY <1>3 DEF TreeFor
    <3> QED
      BY <1>4, <2>1, <3>1
  <2> HIDE DEF new
  <2>6. Promise!Create(path, new)
    BY <2>1, <2>2, <2>3, <2>4, <2>5 DEF Promise!Create, Promise!With
  <2>7. Tree' # Tree
    BY <2>1
  <2> QED
    BY <2>1, <2>6, <2>7 DEF Promise!Next, new
<1> QED
  BY <1>1, <1>5, <1>6

(* A removal takes one path out of the tree, with nothing below it.        *)
LEMMA DeletedRefines ==
  ASSUME SmallWrites, fat \in TableType, disk \in DiskType, NEW t \in TableType, NEW e \in DiskType,
         Tree = TreeOf(fat, disk), Tree' = TreeOf(t, e),
         NEW path, Deleted(path, t, e)
  PROVE  [Promise!Next]_Tree
<1>1. PICK E, S, L, F, T, M :
         /\ Settles(fat, disk, E, S, L) /\ Settles(t, e, F, T, M)
         /\ path \in DOMAIN E /\ path # <<>> /\ L[path] = <<>>
         /\ DOMAIN F = DOMAIN E \ {path} /\ Untouched(disk, E, S, e, F, T, DOMAIN F)
  BY DEF Deleted
<1>2. Turns(t, e, E, S, L, F, T, M)
  BY <1>1 DEF Turns
<1>a. Tree = TreeFor(disk, E, S) /\ Tree' = TreeFor(e, F, T)
  BY <1>2, TurnsAre
<1>3. /\ Tree = TreeFor(disk, E, S) /\ Tree' = TreeFor(e, F, T)
      /\ DOMAIN Tree = DOMAIN E \ {<<>>} /\ DOMAIN Tree' = DOMAIN F \ {<<>>}
  BY <1>a, Zenon DEF TreeFor, Lies
<1>4. \A p \in DOMAIN Tree' : p \in DOMAIN Tree /\ Tree'[p] = Tree[p]
  <2> TAKE p \in DOMAIN Tree'
  <2>1. p \in DOMAIN F /\ p # <<>>
    BY <1>3
  <2> QED
    BY <1>1, <1>2, <1>a, <2>1, TurnsKeep
<1>5. path \in DOMAIN Tree \ DOMAIN Tree' /\ DOMAIN Tree' = DOMAIN Tree \ {path}
  BY <1>1, <1>3
<1>6. \A q \in DOMAIN Tree : ~Promise!IsStrictPrefix(path, q)
  <2> SUFFICES ASSUME NEW q \in DOMAIN Tree, Promise!IsStrictPrefix(path, q) PROVE FALSE
    OBVIOUS
  <2>1. IsStrictPrefix(path, q)
    BY DEF IsStrictPrefix, IsPrefix, Promise!IsStrictPrefix, Promise!IsPrefix
  <2>2. q \in DOMAIN E /\ IsTree(E, S, L)
    BY <1>1, <1>3 DEF Settles, Sound, Represents
  <2> QED
    BY <1>1, <2>1, <2>2, NothingBelow
<1>7. Tree' = [q \in DOMAIN Tree \ {path} |-> Tree[q]]
  <2>1. Tree' = [q \in DOMAIN Tree' |-> Tree'[q]]
    BY <1>3 DEF TreeFor
  <2> QED
    BY <1>4, <1>5, <2>1
<1>8. Promise!Delete(path)
  BY <1>5, <1>6, <1>7 DEF Promise!Delete
<1>9. Tree' # Tree
  BY <1>5
<1> QED
  BY <1>5, <1>8, <1>9 DEF Promise!Next

(* A write at the end makes one file longer, by copies of one datum.       *)
LEMMA GrownRefines ==
  ASSUME SmallWrites, fat \in TableType, disk \in DiskType, NEW t \in TableType, NEW e \in DiskType,
         Tree = TreeOf(fat, disk), Tree' = TreeOf(t, e),
         NEW q, NEW v \in Data, Grown(q, v, t, e)
  PROVE  [Promise!Next]_Tree
<1>1. PICK E, S, L, F, T, M : GrownTo(E, S, L, F, T, M, q, v, t, e)
  BY DEF Grown
<1>2. /\ Settles(fat, disk, E, S, L) /\ Settles(t, e, F, T, M)
      /\ q \in DOMAIN E /\ q # <<>> /\ ~E[q].dir /\ DOMAIN F = DOMAIN E /\ ~F[q].dir
      /\ Untouched(disk, E, S, e, F, T, DOMAIN E \ {q})
  BY <1>1 DEF GrownTo
<1>3. PICK n \in Nat : /\ n > 0
                       /\ Content(e, T[q], F[q].size) = Content(disk, S[q], E[q].size) \o Copies(v, n)
  BY <1>1 DEF GrownTo
<1>4. Turns(t, e, E, S, L, F, T, M)
  BY <1>2 DEF Turns
<1>a. Tree = TreeFor(disk, E, S) /\ Tree' = TreeFor(e, F, T)
  BY <1>4, TurnsAre
<1>5. /\ Tree = TreeFor(disk, E, S) /\ Tree' = TreeFor(e, F, T)
      /\ DOMAIN Tree = DOMAIN E \ {<<>>} /\ DOMAIN Tree' = DOMAIN F \ {<<>>}
      /\ \A p \in DOMAIN Tree : Tree[p].dir = E[p].dir
  <2>1. DOMAIN Tree = DOMAIN E \ {<<>>} /\ DOMAIN Tree' = DOMAIN F \ {<<>>}
    BY <1>a, Zenon DEF TreeFor
  <2>2. ASSUME NEW p \in DOMAIN Tree PROVE Tree[p].dir = E[p].dir
    <3>1. Tree[p] = Lies(disk, E, S, p)
      BY <1>a, <2>1 DEF TreeFor
    <3> QED
      BY <3>1 DEF Lies
  <2> QED
    BY <1>a, <2>1, <2>2
<1>6. \A p \in DOMAIN E \ {q} : p # <<>> => Tree'[p] = Tree[p]
  <2> TAKE p \in DOMAIN E \ {q}
  <2> QED
    BY <1>2, <1>4, <1>a, TurnsKeep
<1>7. q \in DOMAIN Tree /\ DOMAIN Tree' = DOMAIN Tree /\ ~Tree[q].dir
  BY <1>2, <1>5
<1> DEFINE A == Content(disk, S[q], E[q].size)
           B == Content(e, T[q], F[q].size)
<1>8. Tree[q] = Lies(disk, E, S, q) /\ Tree'[q] = Lies(e, F, T, q)
  BY <1>5, <1>7 DEF TreeFor
<1>9. Tree[q] = Promise!File(A) /\ Tree'[q] = Promise!File(B)
  <2>1. E[q].dir \in BOOLEAN /\ F[q].dir \in BOOLEAN
    <3>1. IsTree(E, S, L) /\ IsTree(F, T, M) /\ q \in DOMAIN E /\ q \in DOMAIN F
      BY <1>2 DEF Settles, Sound, Represents
    <3> QED
      BY ONLY <3>1, TreeFacts
  <2>2. E[q].dir = FALSE /\ F[q].dir = FALSE
    BY <1>2, <2>1
  <2> QED
    BY <1>8, <2>2 DEF Lies, Promise!File
<1>10. B = A \o Copies(v, n) /\ Tree[q].data = A /\ Tree'[q].data = B
  BY <1>3, <1>9 DEF Promise!File
<1>11. n \in 1 .. Len(B) /\ B # A
  <2>1. E[q].size \in Nat
    BY <1>2, TreeFacts, KindFacts DEF Settles, Sound, Represents
  <2>2. \E X : A \in Seq(X) /\ Copies(v, n) \in Seq(X) /\ Len(Copies(v, n)) = n /\ Len(A) \in Nat
    <3> DEFINE m == E[q].size
    <3>1. A = [i \in 1 .. m |-> A[i]] /\ m \in Nat
      BY <2>1 DEF Content
    <3>2. Copies(v, n) = [i \in 1 .. n |-> v]
      BY DEF Copies
    <3> HIDE DEF A, m
    <3> DEFINE X == {A[i] : i \in 1 .. m} \cup {v}
    <3>3. A \in [1 .. m -> X] /\ Copies(v, n) \in [1 .. n -> X]
      BY <3>1, <3>2
    <3> HIDE DEF X
    <3>4. A \in Seq(X) /\ Len(A) = m /\ Copies(v, n) \in Seq(X) /\ Len(Copies(v, n)) = n
      BY ONLY <3>1, <3>3, n \in Nat
    <3> QED
      BY <3>1, <3>4
  <2> HIDE DEF A, B
  <2>3. PICK X : A \in Seq(X) /\ Copies(v, n) \in Seq(X) /\ Len(Copies(v, n)) = n /\ Len(A) \in Nat
    BY <2>2
  <2>4. Len(A \o Copies(v, n)) = Len(A) + Len(Copies(v, n))
    BY ONLY <2>3, ConcatProperties
  <2>5. Len(B) = Len(A) + n /\ Len(A) \in Nat
    BY <1>10, <2>3, <2>4
  <2> QED
    BY <1>3, <2>5
<1>12. Tree' = [p \in DOMAIN Tree \cup {q} |-> IF p = q THEN Tree'[q] ELSE Tree[p]]
  <2>1. Tree' = [p \in DOMAIN Tree' |-> Tree'[p]]
    BY <1>5 DEF TreeFor
  <2> QED
    BY <1>5, <1>6, <1>7, <2>1
<1> HIDE DEF A, B
<1>13. Promise!Grow(q, v, n)
  BY <1>7, <1>9, <1>10, <1>12 DEF Promise!Grow, Promise!With, Copies
<1>14. Tree' # Tree
  BY <1>10, <1>11
<1>15. n \in 1 .. Len(Tree'[q].data)
  BY <1>10, <1>11
<1> QED
  BY <1>7, <1>13, <1>14, <1>15 DEF Promise!Next

(***************************************************************************)
(* The file system implements a tree of files.                             *)
(***************************************************************************)

(* The same after a step.                                                  *)
LEMMA TreeWillBe == IInv' => Tree' = TreeOf(fat', Future')
<1>1. (IInv => Tree = TreeOf(fat, Future))'
  BY TreeIs, PTL
<1> QED
  BY <1>1

(* The empty disk stands for the empty tree.                               *)
LEMMA EmptyTree ==
  ASSUME SmallWrites, Init
  PROVE  Promise!Init
<1>1. IInv /\ pending = <<>> /\ torn = FALSE /\ crashes = 0 /\ fat = [c \in Clusters |-> Free]
  BY InitHolds DEF Init
<1>2. /\ Future = disk /\ Leads(fat, disk, handles, crashes)
      /\ fat \in TableType /\ disk \in DiskType
  BY <1>1, IdleFacts DEF Idle, IInv, Typed
<1>3. PICK E, S, L : Settles(fat, disk, E, S, L)
  BY <1>2 DEF Leads
<1>4. Represents(fat, disk, E, S, L) /\ IsTree(E, S, L) /\ ChainsApart(fat, E, S)
  BY <1>3 DEF Settles, Sound, Represents
<1>5. ASSUME NEW p \in DOMAIN E, p # <<>> PROVE FALSE
  <2>1. IsChain(fat, S[p])
    BY <1>4, <1>5 DEF ChainsApart
  <2> DEFINE s == S[p]
             c == s[Len(s)]
  <2>2. s \in Seq(Clusters) /\ s # <<>> /\ fat[c] = EOC
    BY <2>1 DEF IsChain
  <2>3. c \in Clusters
    <3> HIDE DEF s
    <3> QED
      BY <2>2
  <2> HIDE DEF c
  <2> QED
    BY <1>1, <2>2, <2>3, ConstantFacts
<1>6. Tree = TreeFor(disk, E, S)
  <2>1. Tree = TreeOf(fat, disk)
    BY <1>1, <1>2, TreeIs
  <2> QED
    BY <1>2, <1>4, <2>1, TreeOfIs
<1>7. DOMAIN E \ {<<>>} = {}
  BY <1>5
<1> QED
  BY <1>6, <1>7 DEF TreeFor, Promise!Init

(* Every step but a crash is one that a tree of files promises, or leaves  *)
(* the tree as it is.                                                      *)
LEMMA StepRefines ==
  ASSUME SmallWrites, AppendOnly, OneHandle, IInv, [Next]_vars
  PROVE  Crash \/ [Promise!Next]_Tree
<1>1. IInv'
  BY NextHolds
<1>2. /\ Tree = TreeOf(fat, Future) /\ Tree' = TreeOf(fat', Future')
      /\ fat \in TableType /\ disk \in DiskType /\ fat' \in TableType
  BY <1>1, TreeIs, TreeWillBe DEF IInv, Typed
<1>3. Idle => Tree = TreeOf(fat, disk)
  BY <1>2, IdleFacts
<1>4. ASSUME fat' = fat, Future' = Future PROVE Tree' = Tree
  BY <1>2, <1>4
<1>5. ASSUME fat' = fat, disk' = disk, pending' = pending PROVE Tree' = Tree
  BY <1>4, <1>5 DEF Future
<1>6. Future' \in DiskType
  <2>1. disk' \in DiskType
    BY <1>1 DEF IInv, Typed
  <2>2. CASE torn'
    <3>1. pending' = <<>>
      BY <1>1, <2>2 DEF IInv, Phased
    <3>2. Future' = DiskAfter(disk', <<>>, 0)
      BY <3>1 DEF Future
    <3>3. DiskAfter(disk', <<>>, 0) = disk'
      BY <2>1, AfterNone
    <3> QED
      BY <2>1, <3>2, <3>3
  <2>3. CASE ~torn'
    BY <1>1, <2>3, GoesTypes DEF IInv, Running, Typed
  <2> QED
    BY <2>2, <2>3
<1>7. ASSUME NEW h \in Handles, FileStep(h) PROVE [Promise!Next]_Tree
  <2>1. ASSUME NEW path \in Paths, CreateFile(h, path) PROVE [Promise!Next]_Tree
    <3>1. Created(path, FALSE, fat', Future')
      BY <2>1, CreateFileHolds
    <3>2. Tree = TreeOf(fat, disk)
      BY <1>3, <2>1 DEF CreateFile, Creatable
    <3> QED
      BY <1>2, <1>6, <3>1, <3>2, CreatedRefines
  <2>2. ASSUME NEW path \in Paths, OpenFile(h, path) PROVE Tree' = Tree
    BY <1>5, <2>2 DEF OpenFile
  <2>3. ASSUME CloseFile(h) PROVE Tree' = Tree
    BY <1>5, <2>3 DEF CloseFile
  <2>4. ASSUME NEW n \in Sizes, Read(h, n) PROVE Tree' = Tree
    BY <1>5, <2>4 DEF Read
  <2>5. ASSUME NEW n, Seek(h, n) PROVE Tree' = Tree
    BY <1>5, <2>5 DEF Seek
  <2>6. ASSUME NEW d \in Data, NEW n \in Sizes, Write(h, d, n) PROVE [Promise!Next]_Tree
    <3>1. (fat' = fat /\ Future' = Future) \/ Grown(handles[h].path, d, fat', Future')
      BY <2>6, WriteHolds
    <3>2. CASE fat' = fat /\ Future' = Future
      BY <1>4, <3>2
    <3>3. CASE Grown(handles[h].path, d, fat', Future')
      <4>1. Tree = TreeOf(fat, disk)
        BY <1>3, <2>6 DEF Write
      <4> QED
        BY <1>2, <1>6, <3>3, <4>1, GrownRefines
    <3> QED
      BY <3>1, <3>2, <3>3
  <2> QED
    BY <1>7, <2>1, <2>2, <2>3, <2>4, <2>5, <2>6 DEF FileStep
<1>8. ASSUME NEW path \in Paths, CreateFolder(path) PROVE [Promise!Next]_Tree
  <2>1. Created(path, TRUE, fat', Future')
    BY <1>8, CreateFolderHolds
  <2>2. Tree = TreeOf(fat, disk)
    BY <1>3, <1>8 DEF CreateFolder, Creatable
  <2> QED
    BY <1>2, <1>6, <2>1, <2>2, CreatedRefines
<1>9. ASSUME NEW path \in Paths, Rmdir(path) PROVE [Promise!Next]_Tree
  <2>1. Deleted(path, fat', Future')
    BY <1>9, RmdirHolds
  <2>2. Tree = TreeOf(fat, disk)
    BY <1>3, <1>9 DEF Rmdir
  <2> QED
    BY <1>2, <1>6, <2>1, <2>2, DeletedRefines
<1>10. ASSUME WriteDataToFatFs PROVE Tree' = Tree
  <2>1. Future' = Future /\ fat' = fat
    BY <1>10, WriteDataHolds DEF WriteDataToFatFs
  <2> QED
    BY <1>4, <2>1
<1>11. ASSUME UNCHANGED vars PROVE Tree' = Tree
  BY <1>5, <1>11 DEF vars
<1> QED
  BY <1>7, <1>8, <1>9, <1>10, <1>11 DEF Next

(* Every change of the files and folders is one that the interface of a    *)
(* file system names, of the one path it is about, or it is a crash.  It   *)
(* is the request that changes the tree; its writes then carry it out.     *)
THEOREM StepsOfTree ==
  ASSUME SmallWrites, AppendOnly, OneHandle
  PROVE  Spec => [][Crash \/ Promise!Next]_Tree
<1>1. IInv /\ [Next]_vars => [Crash \/ Promise!Next]_Tree
  BY StepRefines
<1> QED
  BY <1>1, Invariance, PTL DEF Spec

(* As long as the machine runs, the table, the clusters and the folders    *)
(* implement a tree of files: an operation changes the path it is about    *)
(* only, and a file holds everything that was appended to it, in order.    *)
THEOREM FatIsFileTree ==
  ASSUME SmallWrites, AppendOnly, OneHandle, MaxCrashes = 0
  PROVE  Spec => FileTreeSpec
<1>1. Init => Promise!Init
  BY EmptyTree
<1>2. IInv /\ [Next]_vars => [Promise!Next]_Tree
  <2>1. IInv => ~Crash
    BY DEF IInv, Typed, Crash
  <2> QED
    BY <2>1, StepRefines
<1> QED
  BY <1>1, <1>2, Invariance, PTL DEF Spec, FileTreeSpec, Promise!Spec

-----------------------------------------------------------------------------
(* The bytes of the disk: the bytes of the table, of the first clusters    *)
(* and of the sizes say what was put there, for every table and number.    *)

(* The digits of a number of 12 bits.                                      *)
LEMMA Digits ==
  ASSUME NEW n \in Number
  PROVE  /\ n \div 256 \in 0 .. 15 /\ High(n % 256) \in 0 .. 15 /\ Low(n) \in 0 .. 15
         /\ n = 256 * (n \div 256) + 16 * High(n % 256) + Low(n)
BY DEF Number, High, Low

LEMMA ByteDigits ==
  ASSUME NEW byte \in Byte
  PROVE  /\ High(byte) \in 0 .. 15 /\ Low(byte) \in 0 .. 15
         /\ byte = Pair(High(byte), Low(byte))
BY DEF Byte, High, Low, Pair

LEMMA PairDigits ==
  ASSUME NEW h \in 0 .. 15, NEW l \in 0 .. 15
  PROVE  Pair(h, l) \in Byte /\ High(Pair(h, l)) = h /\ Low(Pair(h, l)) = l
BY DEF Byte, High, Low, Pair

(* A first cluster that was written into an entry is read back.            *)
THEOREM FirstClusterReadsBack ==
  ASSUME NEW c \in 0 .. 65535
  PROVE  /\ \A k \in 1 .. 2 : convert_dec_to_hex_start_clus(c)[k] \in Byte
         /\ FirstCluster(convert_dec_to_hex_start_clus(c)) = c
BY SMT DEF convert_dec_to_hex_start_clus, FirstCluster, Byte

(* A size below 2^31 that was written into an entry is read back.          *)
THEOREM SizeReadsBack ==
  ASSUME NEW n \in Nat, n <= 2147483647
  PROVE  FileSize(convert_dec_num_to_hex(n)) = n
<1>1. n = 256 * (n \div 256) + (n % 256)
  BY SMT
<1>2. n \div 256 = 256 * (n \div 65536) + ((n \div 256) % 256)
  BY SMT
<1>3. n \div 65536 = 256 * (n \div 16777216) + ((n \div 65536) % 256)
  BY SMT
<1>4. n \div 16777216 = (n \div 16777216) % 256
  BY SMT
<1> DEFINE four == convert_dec_num_to_hex(n)
<1>5. /\ four[1] = n % 256 /\ four[2] = (n \div 256) % 256
      /\ four[3] = (n \div 65536) % 256 /\ four[4] = (n \div 16777216) % 256
  BY SMT DEF convert_dec_num_to_hex
<1>6. 16777216 * four[4] + 65536 * four[3] + 256 * four[2] + four[1] = n
  BY <1>1, <1>2, <1>3, <1>4, <1>5, SMT
<1> QED
  BY <1>6, SMT DEF FileSize

(* The two bytes of entry m of pair k, and what they leave to the other.   *)
LEMMA Places ==
  ASSUME NEW k \in Nat
  PROVE  /\ (2 * k) % 2 = 0 /\ ByteOf(2 * k) = 3 * k /\ (2 * k) \div 2 = k
         /\ (2 * k + 1) % 2 # 0 /\ ByteOf(2 * k + 1) = 3 * k + 1 /\ (2 * k + 1) \div 2 = k
BY DEF ByteOf

LEMMA EvenOrOdd ==
  ASSUME NEW i \in Nat
  PROVE  \E k \in Nat : i = 2 * k \/ i = 2 * k + 1
<1>1. i \div 2 \in Nat /\ (i = 2 * (i \div 2) \/ i = 2 * (i \div 2) + 1)
  OBVIOUS
<1> QED
  BY <1>1

LEMMA InjectedEven ==
  ASSUME NEW K \in Nat, NEW bytes \in [0 .. 3 * K - 1 -> Byte], NEW n \in Number,
         NEW k \in 0 .. K - 1
  PROVE  LET new == Injected(bytes, 2 * k, n)
         IN /\ new \in [0 .. 3 * K - 1 -> Byte]
            /\ convert_fat_table_to_dec(new, 2 * k) = n
            /\ High(new[3 * k + 1]) = High(bytes[3 * k + 1])
            /\ \A p \in 0 .. 3 * K - 1 \ {3 * k, 3 * k + 1} : new[p] = bytes[p]
<1> DEFINE two == convert_num_to_bytes_fat(2 * k, bytes, n)
           new == Injected(bytes, 2 * k, n)
           d0 == n \div 256
           d1 == High(n % 256)
           d2 == Low(n)
           h == High(bytes[3 * k + 1])
<1>1. /\ d0 \in 0 .. 15 /\ d1 \in 0 .. 15 /\ d2 \in 0 .. 15
      /\ n = 256 * d0 + 16 * d1 + d2
  BY Digits
<1>2. 3 * k \in 0 .. 3 * K - 1 /\ 3 * k + 1 \in 0 .. 3 * K - 1 /\ 3 * k # 3 * k + 1
  OBVIOUS
<1>3. h \in 0 .. 15
  BY <1>2, ByteDigits
<1>a. k \in Nat
  OBVIOUS
<1>b. (2 * k) % 2 = 0 /\ ByteOf(2 * k) = 3 * k /\ (2 * k) \div 2 = k
  BY <1>a, Places
<1>4. two[1] = Pair(d1, d2) /\ two[2] = Pair(h, d0)
  BY <1>b DEF convert_num_to_bytes_fat
<1> HIDE DEF two, h, d0, d1, d2
<1>5. /\ two[1] \in Byte /\ two[2] \in Byte
      /\ High(two[2]) = h /\ Low(two[2]) = d0
  BY <1>1, <1>3, <1>4, PairDigits
<1>6. new = [bytes EXCEPT ![3 * k] = two[1], ![3 * k + 1] = two[2]]
  BY <1>b DEF Injected, two
<1>7. /\ new \in [0 .. 3 * K - 1 -> Byte]
      /\ new[3 * k] = two[1] /\ new[3 * k + 1] = two[2]
      /\ \A p \in 0 .. 3 * K - 1 \ {3 * k, 3 * k + 1} : new[p] = bytes[p]
  BY <1>2, <1>5, <1>6
<1> HIDE DEF new
<1>8. convert_fat_table_to_dec(new, 2 * k) = 256 * Low(new[3 * k + 1]) + new[3 * k]
  BY <1>b DEF convert_fat_table_to_dec
<1>9. 256 * Low(new[3 * k + 1]) + new[3 * k] = n
  BY <1>1, <1>4, <1>5, <1>7 DEF Pair
<1> QED
  BY <1>5, <1>7, <1>8, <1>9 DEF new, h

LEMMA InjectedOdd ==
  ASSUME NEW K \in Nat, NEW bytes \in [0 .. 3 * K - 1 -> Byte], NEW n \in Number,
         NEW k \in 0 .. K - 1
  PROVE  LET new == Injected(bytes, 2 * k + 1, n)
         IN /\ new \in [0 .. 3 * K - 1 -> Byte]
            /\ convert_fat_table_to_dec(new, 2 * k + 1) = n
            /\ Low(new[3 * k + 1]) = Low(bytes[3 * k + 1])
            /\ \A p \in 0 .. 3 * K - 1 \ {3 * k + 1, 3 * k + 2} : new[p] = bytes[p]
<1> DEFINE two == convert_num_to_bytes_fat(2 * k + 1, bytes, n)
           new == Injected(bytes, 2 * k + 1, n)
           d0 == n \div 256
           d1 == High(n % 256)
           d2 == Low(n)
           l == Low(bytes[3 * k + 1])
<1>1. /\ d0 \in 0 .. 15 /\ d1 \in 0 .. 15 /\ d2 \in 0 .. 15
      /\ n = 256 * d0 + 16 * d1 + d2
  BY Digits
<1>2. /\ 3 * k + 1 \in 0 .. 3 * K - 1 /\ 3 * k + 2 \in 0 .. 3 * K - 1
      /\ 3 * k + 1 # 3 * k + 2 /\ 3 * k + 1 + 1 = 3 * k + 2
  OBVIOUS
<1>3. l \in 0 .. 15
  BY <1>2, ByteDigits
<1>a. k \in Nat
  OBVIOUS
<1>b. (2 * k + 1) % 2 # 0 /\ ByteOf(2 * k + 1) = 3 * k + 1 /\ (2 * k + 1) \div 2 = k
  BY <1>a, Places
<1>4. two[1] = Pair(d2, l) /\ two[2] = Pair(d0, d1)
  BY <1>b DEF convert_num_to_bytes_fat
<1> HIDE DEF two, l, d0, d1, d2
<1>5. /\ two[1] \in Byte /\ two[2] \in Byte
      /\ High(two[1]) = d2 /\ Low(two[1]) = l
  BY <1>1, <1>3, <1>4, PairDigits
<1>6. new = [bytes EXCEPT ![3 * k + 1] = two[1], ![3 * k + 2] = two[2]]
  BY <1>b, <1>2 DEF Injected, two
<1>7. /\ new \in [0 .. 3 * K - 1 -> Byte]
      /\ new[3 * k + 1] = two[1] /\ new[3 * k + 2] = two[2]
      /\ \A p \in 0 .. 3 * K - 1 \ {3 * k + 1, 3 * k + 2} : new[p] = bytes[p]
  BY <1>2, <1>5, <1>6
<1> HIDE DEF new
<1>8. convert_fat_table_to_dec(new, 2 * k + 1) = 16 * new[3 * k + 2] + High(new[3 * k + 1])
  BY <1>b DEF convert_fat_table_to_dec
<1>9. 16 * new[3 * k + 2] + High(new[3 * k + 1]) = n
  BY <1>1, <1>4, <1>5, <1>7 DEF Pair
<1> QED
  BY <1>5, <1>7, <1>8, <1>9 DEF new, l

(* What an entry of the table reads depends on its byte and a half.        *)
LEMMA SameRead ==
  ASSUME NEW K \in Nat,
         NEW f \in [0 .. 3 * K - 1 -> Byte], NEW g \in [0 .. 3 * K - 1 -> Byte], NEW k \in 0 .. K - 1
  PROVE  /\ f[3 * k] = g[3 * k] /\ Low(f[3 * k + 1]) = Low(g[3 * k + 1])
              => convert_fat_table_to_dec(f, 2 * k) = convert_fat_table_to_dec(g, 2 * k)
         /\ f[3 * k + 2] = g[3 * k + 2] /\ High(f[3 * k + 1]) = High(g[3 * k + 1])
              => convert_fat_table_to_dec(f, 2 * k + 1) = convert_fat_table_to_dec(g, 2 * k + 1)
<1>1. k \in Nat
  OBVIOUS
<1>2. /\ (2 * k) % 2 = 0 /\ (2 * k) \div 2 = k
      /\ (2 * k + 1) % 2 # 0 /\ (2 * k + 1) \div 2 = k
  BY <1>1, Places
<1> QED
  BY <1>2 DEF convert_fat_table_to_dec

(* For every table and every entry, even or odd: a number that is put into *)
(* the bytes is the one that the next boot reads there, and all the other  *)
(* entries, the one that shares a byte included, read as before.  So one   *)
(* table of numbers may stand for the two that the kernel keeps.           *)
THEOREM InjectedReadsBack ==
  ASSUME NEW K \in Nat, NEW bytes \in [0 .. 3 * K - 1 -> Byte],
         NEW i \in 0 .. 2 * K - 1, NEW n \in Number
  PROVE  /\ Injected(bytes, i, n) \in [0 .. 3 * K - 1 -> Byte]
         /\ convert_fat_table_to_dec(Injected(bytes, i, n), i) = n
         /\ \A j \in 0 .. 2 * K - 1 \ {i} :
              convert_fat_table_to_dec(Injected(bytes, i, n), j) = convert_fat_table_to_dec(bytes, j)
<1> DEFINE new == Injected(bytes, i, n)
<1>0. \A j \in 0 .. 2 * K - 1 : j \in Nat
  OBVIOUS
<1>1. PICK k \in Nat : i = 2 * k \/ i = 2 * k + 1
  BY <1>0, EvenOrOdd
<1>2. k \in 0 .. K - 1
  BY <1>1
<1>3. /\ new \in [0 .. 3 * K - 1 -> Byte]
      /\ convert_fat_table_to_dec(new, i) = n
      /\ i = 2 * k => /\ High(new[3 * k + 1]) = High(bytes[3 * k + 1])
                      /\ \A p \in 0 .. 3 * K - 1 \ {3 * k, 3 * k + 1} : new[p] = bytes[p]
      /\ i = 2 * k + 1 => /\ Low(new[3 * k + 1]) = Low(bytes[3 * k + 1])
                          /\ \A p \in 0 .. 3 * K - 1 \ {3 * k + 1, 3 * k + 2} : new[p] = bytes[p]
  <2>1. CASE i = 2 * k
    BY <2>1, <1>2, InjectedEven
  <2>2. CASE i = 2 * k + 1
    BY <2>2, <1>2, InjectedOdd
  <2> QED
    BY <1>1, <2>1, <2>2
<1> HIDE DEF new
<1>4. ASSUME NEW j \in 0 .. 2 * K - 1, j # i
      PROVE  convert_fat_table_to_dec(new, j) = convert_fat_table_to_dec(bytes, j)
  <2>1. PICK m \in Nat : j = 2 * m \/ j = 2 * m + 1
    BY <1>0, EvenOrOdd
  <2>2. /\ m \in 0 .. K - 1
        /\ {3 * m, 3 * m + 1, 3 * m + 2} \subseteq 0 .. 3 * K - 1
    BY <2>1
  <2>3. CASE m # k
    <3>1. {3 * m, 3 * m + 1, 3 * m + 2} \cap {3 * k, 3 * k + 1, 3 * k + 2} = {}
      BY <2>3
    <3>2. /\ new[3 * m] = bytes[3 * m] /\ new[3 * m + 1] = bytes[3 * m + 1]
          /\ new[3 * m + 2] = bytes[3 * m + 2]
      BY <1>1, <1>3, <2>2, <3>1
    <3> QED
      BY <1>3, <2>1, <2>2, <3>2, SameRead
  <2>4. CASE m = k /\ i = 2 * k
    <3>1. j = 2 * k + 1 /\ new[3 * k + 2] = bytes[3 * k + 2]
      BY <1>3, <1>4, <2>1, <2>2, <2>4
    <3> QED
      BY <1>2, <1>3, <2>4, <3>1, SameRead
  <2>5. CASE m = k /\ i = 2 * k + 1
    <3>1. j = 2 * k /\ new[3 * k] = bytes[3 * k]
      BY <1>3, <1>4, <2>1, <2>2, <2>5
    <3> QED
      BY <1>2, <1>3, <2>5, <3>1, SameRead
  <2> QED
    BY <1>1, <2>3, <2>4, <2>5
<1> QED
  BY <1>3, <1>4 DEF new

(* The loop that puts the entries of a table t into bytes, and what it has *)
(* done before entry k: what was put in so far is read back.               *)
InjectStep(t, bytes, i) == IF i \in DOMAIN t THEN Injected(bytes, i, t[i]) ELSE bytes

InjectInv(c, k, bytes) ==
  /\ bytes \in [0 .. 3 * c.pairs - 1 -> Byte]
  /\ \A i \in DOMAIN c.table : i < k => convert_fat_table_to_dec(bytes, i) = c.table[i]

Injecting == INSTANCE Induction WITH Op <- InjectStep, P <- InjectInv

LEMMA InjectKeeps ==
  ASSUME NEW t, \A i \in DOMAIN t : t[i] \in Number,
         NEW n \in Nat, DOMAIN t \subseteq 0 .. 2 * n - 1,
         NEW bytes \in [0 .. 3 * n - 1 -> Byte], NEW k \in 0 .. 2 * n - 1,
         \A i \in DOMAIN t : i < k => convert_fat_table_to_dec(bytes, i) = t[i]
  PROVE  LET new == InjectStep(t, bytes, k)
         IN /\ new \in [0 .. 3 * n - 1 -> Byte]
            /\ \A i \in DOMAIN t : i < k + 1 => convert_fat_table_to_dec(new, i) = t[i]
<1> DEFINE new == Injected(bytes, k, t[k])
<1>1. \A i \in DOMAIN t : i < k + 1 => i = k \/ i < k
  BY DOMAIN t \subseteq Int
<1>2. CASE k \notin DOMAIN t
  BY <1>1, <1>2 DEF InjectStep
<1>3. CASE k \in DOMAIN t
  <2>1. /\ new \in [0 .. 3 * n - 1 -> Byte]
        /\ convert_fat_table_to_dec(new, k) = t[k]
        /\ \A i \in 0 .. 2 * n - 1 \ {k} :
             convert_fat_table_to_dec(new, i) = convert_fat_table_to_dec(bytes, i)
    BY <1>3, InjectedReadsBack
  <2>2. InjectStep(t, bytes, k) = new
    BY <1>3 DEF InjectStep
  <2> HIDE DEF new
  <2>3. ASSUME NEW i \in DOMAIN t, i < k + 1
        PROVE  convert_fat_table_to_dec(new, i) = t[i]
    <3>1. CASE i = k
      BY <2>1, <3>1
    <3>2. CASE i # k
      <4>1. i < k
        BY <1>1, <2>3, <3>2
      <4>2. i \in 0 .. 2 * n - 1 \ {k}
        BY <3>2
      <4> QED
        BY <2>1, <4>1, <4>2
    <3> QED
      BY <3>1, <3>2
  <2> QED
    BY <2>1, <2>2, <2>3
<1> QED
  BY <1>2, <1>3

(* Every entry of a table is read back from the bytes.                     *)
LEMMA BytesReadBack ==
  ASSUME NEW t, \A i \in DOMAIN t : t[i] \in Number,
         NEW n \in Nat, DOMAIN t \subseteq 0 .. 2 * n - 1
  PROVE  \A i \in DOMAIN t : convert_fat_table_to_dec(Bytes(t, n), i) = t[i]
<1> DEFINE zero == [p \in 0 .. 3 * n - 1 |-> 0]
           seq == [i \in 1 .. 2 * n |-> i - 1]
           c == [table |-> t, pairs |-> n]
           Good(k, b) == InjectInv(c, k, b)
<1>1. Bytes(t, n) = Injecting!Fold(t, zero, seq)
  <2>1. Bytes(t, n) = FoldLeft(LAMBDA a, x : InjectStep(t, a, x), zero, seq)
    BY DEF Bytes, InjectStep, FoldLeft, MapThenFoldSet
  <2> HIDE DEF zero, seq
  <2> QED
    BY <2>1 DEF Injecting!Fold, FoldLeft, MapThenFoldSet, Injecting!FoldLeft, Injecting!MapThenFoldSet, Injecting!Max, Max
<1>2. DOMAIN seq = 1 .. 2 * n /\ 2 * n \in Nat /\ \A k \in 0 .. 2 * n - 1 : seq[k + 1] = k
  OBVIOUS
<1>3. Good(0, zero)
  <2>1. zero \in [0 .. 3 * n - 1 -> Byte]
    BY DEF Byte
  <2>2. \A i \in DOMAIN t : ~(i < 0)
    BY DOMAIN t \subseteq Nat
  <2> QED
    BY <2>1, <2>2 DEF InjectInv
<1>4. \A k \in 0 .. 2 * n - 1 : \A b : Good(k, b) => Good(k + 1, InjectStep(t, b, k))
  BY InjectKeeps DEF InjectInv
<1> HIDE DEF zero, seq, c
<1>5. PICK v : /\ v[0] = zero /\ v[2 * n] = Injecting!Fold(t, zero, seq)
              /\ \A k \in 0 .. 2 * n - 1 : v[k + 1] = InjectStep(t, v[k], seq[k + 1])
  <2>1. PICK m : m = 2 * n
    OBVIOUS
  <2>2. m \in Nat /\ DOMAIN seq = 1 .. m
    BY <1>2, <2>1
  <2>3. \E v : /\ v[0] = zero /\ v[m] = Injecting!Fold(t, zero, seq)
               /\ \A k \in 0 .. m - 1 : v[k + 1] = InjectStep(t, v[k], seq[k + 1])
    BY <2>2, Injecting!Unfolded
  <2> QED
    BY <2>1, <2>3
<1>6. \A k \in 0 .. 2 * n - 1 : InjectInv(c, k, v[k]) => InjectInv(c, k + 1, v[k + 1])
  BY <1>2, <1>4, <1>5
<1>7. InjectInv(c, 2 * n, v[2 * n])
  <2>1. InjectInv(c, 0, v[0])
    BY <1>3, <1>5
  <2>2. \A k \in 0 .. 2 * n : InjectInv(c, k, v[k])
    BY <1>2, <1>6, <2>1, Injecting!Steps
  <2> QED
    BY <1>2, <2>2
<1>8. \A i \in DOMAIN t : i < 2 * n
  BY DOMAIN t \subseteq 0 .. 2 * n - 1
<1> QED
  BY <1>1, <1>5, <1>7, <1>8 DEF InjectInv, c

(* The clusters lie among the pairs of entries up to the last of them.     *)
LEMMA ClustersPaired ==
  LET n == Max(Clusters) \div 2 + 1
  IN n \in Nat /\ Clusters \subseteq 0 .. 2 * n - 1
<1>1. PICK N \in Nat : Clusters \subseteq 1 .. N /\ Clusters # {}
  <2>1. PICK N : N = 2847
    OBVIOUS
  <2>2. N \in Nat
    BY <2>1
  <2>3. Clusters \subseteq 2 .. N /\ Clusters # {}
    BY <2>1, FatAssumption
  <2> QED
    BY <2>2, <2>3, 2 .. N \subseteq 1 .. N
<1>2. PICK m : m = Max(Clusters)
  OBVIOUS
<1>3. m \in Clusters /\ \A c \in Clusters : c <= m
  <2>1. Injecting!Max(Clusters) \in Clusters /\ \A c \in Clusters : c <= Injecting!Max(Clusters)
    BY <1>1, Injecting!MaxFacts
  <2>2. Injecting!Max(Clusters) = Max(Clusters)
    BY DEF Injecting!Max, Max
  <2> QED
    BY <1>2, <2>1, <2>2
<1>4. m \in Nat /\ \A c \in Clusters : c \in Nat /\ c <= m
  BY <1>1, <1>3
<1>5. PICK n : n = m \div 2 + 1
  OBVIOUS
<1>6. n \in Nat /\ m <= 2 * n - 1
  BY <1>4, <1>5
<1>7. \A c \in Clusters : c \in 0 .. 2 * n - 1
  BY <1>4, <1>6
<1> QED
  BY <1>2, <1>5, <1>6, <1>7

(* The bytes of every table that the file system reaches say what its      *)
(* numbers say.                                                            *)
THEOREM TableIsRead == Spec => []TableReadsBack
<1>1. TypeOK => TableReadsBack
  <2> SUFFICES ASSUME TypeOK PROVE TableReadsBack
    OBVIOUS
  <2> DEFINE n == Max(Clusters) \div 2 + 1
  <2>1. n \in Nat /\ Clusters \subseteq 0 .. 2 * n - 1
    BY ClustersPaired
  <2>2. DOMAIN fat = Clusters /\ \A c \in Clusters : fat[c] \in Number
    <3>1. fat \in [Clusters -> Clusters \cup {0, 4095}]
      BY DEF TypeOK, TableType, Free, EOC
    <3>2. \A c \in Clusters : c \in 0 .. 4095
      BY FatAssumption
    <3>3. 0 \in 0 .. 4095 /\ 4095 \in 0 .. 4095
      OBVIOUS
    <3>4. DOMAIN fat = Clusters /\ \A c \in Clusters : fat[c] \in Clusters \/ fat[c] = 0 \/ fat[c] = 4095
      BY <3>1
    <3> QED
      BY <3>2, <3>3, <3>4 DEF Number
  <2> HIDE DEF n
  <2>3. \A c \in Clusters : convert_fat_table_to_dec(Bytes(fat, n), c) = fat[c]
    BY <2>1, <2>2, BytesReadBack
  <2> QED
    BY <2>3 DEF TableReadsBack, n
<1> QED
  BY <1>1, Types, PTL
===============================================================================
