---------------------------- MODULE KernelProofs ----------------------------
(***************************************************************************)
(* Theorems about two parts of the kernel that stand alone: the numbers of *)
(* threads (module Handles) and the walk of File_Exists (module Paths).    *)
(***************************************************************************)
EXTENDS Handles, Paths, SequenceTheorems, TLAPS

-----------------------------------------------------------------------------
(* The numbers of threads: how long they are unique, for every width of a  *)
(* handle, every step and every number of threads.                         *)

TypeOK ==
  /\ Last_Handle \in THandle
  /\ table \in [THandle -> Threads \cup {INVALID}]
  /\ given \in [Threads -> THandle \cup {None}]
  /\ age \in [Threads -> Nat]
  /\ lapped \in BOOLEAN

(* The counter is as far from the number of a running thread as it went    *)
(* since then, and it went less than one round.                            *)
Placed ==
  \A t \in Running : age[t] < Width /\ Last_Handle = Advanced(given[t], age[t])

(* The table leads from numbers to threads as given leads back.            *)
Matched ==
  /\ \A t \in Running : table[given[t]] = t
  /\ \A h \in THandle : table[h] # INVALID => table[h] \in Running /\ given[table[h]] = h

HandlesInv == TypeOK /\ (~lapped => Placed /\ Matched)

-----------------------------------------------------------------------------
(* The sum stays in the width of a handle.                                 *)
LEMMA AdvancedType ==
  ASSUME Parameters, NEW h \in THandle, NEW step \in Nat, step < Width
  PROVE  Advanced(h, step) \in THandle
BY DEF Parameters, THandle, Advanced

(* Steps add up, and less than a round never leads back to the start.      *)
LEMMA AdvancedTwice ==
  ASSUME Parameters, NEW h \in THandle, NEW m \in Nat, NEW n \in Nat, m + n < Width
  PROVE  /\ Advanced(Advanced(h, m), n) = Advanced(h, m + n)
         /\ m + n > 0 => Advanced(h, m + n) # h
BY DEF Parameters, THandle, Advanced

LEMMA InitHolds ==
  ASSUME Parameters, Init
  PROVE  HandlesInv
<1>1. 0 \in THandle /\ Width \notin THandle
  BY DEF Parameters, THandle
<1>2. TypeOK
  BY <1>1 DEF Init, TypeOK, None
<1>3. Running = {}
  BY DEF Init, Running
<1>4. Placed /\ Matched
  BY <1>3 DEF Init, Placed, Matched
<1> QED
  BY <1>2, <1>4 DEF HandlesInv

(* A new number: no running thread has it, as each of them is less than a  *)
(* round behind the counter.                                               *)
LEMMA ConvertKeeps ==
  ASSUME Parameters, HandlesInv,
         NEW t \in Threads, NEW step \in 1 .. MaxStep, Convert_Native_Handle(t, step)
  PROVE  HandlesInv'
<1> DEFINE new == Advanced(Last_Handle, step)
<1>1. /\ step \in Nat /\ step > 0 /\ step < Width
      /\ TypeOK /\ t \notin Running /\ Last_Handle' = new
  BY DEF Parameters, HandlesInv, Convert_Native_Handle
<1>2. new \in THandle /\ new # None
  <2>1. new \in THandle
    BY <1>1, AdvancedType DEF TypeOK
  <2> QED
    BY <2>1 DEF THandle, None, Parameters
<1>3. TypeOK'
  <2>1. table' \in [THandle -> Threads \cup {INVALID}]
    BY <1>1, <1>2 DEF Convert_Native_Handle, Inserted, TypeOK
  <2>2. given' \in [Threads -> THandle \cup {None}]
    BY <1>1, <1>2 DEF Convert_Native_Handle, TypeOK
  <2>3. age' \in [Threads -> Nat]
    <3>1. \A u \in Threads : age[u] + step \in Nat
      BY <1>1 DEF TypeOK
    <3> QED
      BY <3>1 DEF Convert_Native_Handle
  <2>4. lapped' \in BOOLEAN
    BY <1>1 DEF Convert_Native_Handle, TypeOK
  <2> QED
    BY <1>1, <1>2, <2>1, <2>2, <2>3, <2>4 DEF TypeOK
<1>4. ASSUME ~lapped'
      PROVE  Placed' /\ Matched'
  <2>1. /\ Placed /\ Matched
        /\ \A u \in Running : age[u] \in Nat /\ given[u] \in THandle /\ age[u] + step < Width
    <3>1. ~lapped /\ \A u \in Running : ~(age[u] + step >= Width)
      BY <1>4 DEF Convert_Native_Handle
    <3>2. \A u \in Running : age[u] \in Nat /\ given[u] \in THandle
      BY <1>1 DEF TypeOK, Running
    <3> QED
      BY <3>1, <3>2, <1>1 DEF HandlesInv, Parameters
  <2>2. \A u \in Running : new = Advanced(given[u], age[u] + step) /\ new # given[u]
    BY <2>1, <1>1, AdvancedTwice DEF Placed
  <2>3. table[new] = INVALID
    BY <2>1, <2>2, <1>2 DEF Matched
  <2>4. /\ Running' = Running \cup {t} /\ given'[t] = new
        /\ \A u \in Running : given'[u] = given[u] /\ u # t
    BY <1>1, <1>2 DEF Convert_Native_Handle, Running, TypeOK
  <2>5. Placed'
    <3>1. age'[t] = 0 /\ \A u \in Running : age'[u] = age[u] + step
      BY <1>1 DEF Convert_Native_Handle, Running
    <3>2. Advanced(new, 0) = new
      BY <1>2 DEF Advanced, THandle, Parameters
    <3>3. 0 < Width
      BY <1>1 DEF Parameters
    <3>4. \A u \in Running' : age'[u] < Width /\ new = Advanced(given'[u], age'[u])
      BY <2>1, <2>2, <2>4, <3>1, <3>2, <3>3
    <3> QED
      BY <3>4, <1>1 DEF Placed, Advanced
  <2>6. table' = [table EXCEPT ![new] = t]
    BY <2>3, <1>1 DEF Convert_Native_Handle, Inserted
  <2>7. /\ table'[new] = t
        /\ \A h \in THandle \ {new} : table'[h] = table[h]
    BY <2>6, <1>1, <1>2 DEF TypeOK
  <2>8. \A u \in Running' : table'[given'[u]] = u
    BY <2>1, <2>2, <2>4, <2>7 DEF Matched
  <2>9. \A h \in THandle : table'[h] # INVALID => table'[h] \in Running' /\ given'[table'[h]] = h
    BY <2>1, <2>4, <2>7 DEF Matched
  <2> QED
    BY <2>5, <2>8, <2>9 DEF Matched, THandle
<1> QED
  BY <1>3, <1>4 DEF HandlesInv

(* A thread that ends takes its own entry with it and no other one.        *)
LEMMA RemoveKeeps ==
  ASSUME Parameters, HandlesInv, NEW t \in Threads, Remove_Handle(t)
  PROVE  HandlesInv'
<1>1. /\ TypeOK /\ t \in Running /\ given[t] \in THandle
      /\ Last_Handle' = Last_Handle /\ age' = age /\ lapped' = lapped
      /\ table' = [table EXCEPT ![given[t]] = INVALID]
      /\ given' = [given EXCEPT ![t] = None]
  BY DEF HandlesInv, Remove_Handle, TypeOK, Running
<1>2. TypeOK'
  BY <1>1 DEF TypeOK
<1>3. /\ Running' = Running \ {t}
      /\ \A u \in Running' : given'[u] = given[u]
  BY <1>1 DEF Running, TypeOK
<1>4. ASSUME ~lapped'
      PROVE  Placed' /\ Matched'
  <2>1. Placed /\ Matched
    BY <1>1, <1>4 DEF HandlesInv
  <2>2. Placed'
    <3>1. \A u \in Running' : age'[u] < Width /\ Last_Handle' = Advanced(given'[u], age'[u])
      BY <2>1, <1>1, <1>3 DEF Placed
    <3> QED
      BY <3>1 DEF Placed, Advanced
  <2>3. \A u \in Running' : given[u] # given[t] /\ given[u] \in THandle
    BY <2>1, <1>1, <1>3 DEF Matched, Running, TypeOK
  <2>4. \A u \in Running' : table'[given'[u]] = u
    BY <2>1, <2>3, <1>1, <1>3 DEF Matched, TypeOK
  <2>5. \A h \in THandle : table'[h] # INVALID => h # given[t] /\ table'[h] = table[h]
    BY <1>1 DEF TypeOK
  <2>6. \A h \in THandle : table'[h] # INVALID => table'[h] \in Running' /\ given'[table'[h]] = h
    <3> SUFFICES ASSUME NEW h \in THandle, table'[h] # INVALID
                 PROVE  table'[h] \in Running' /\ given'[table'[h]] = h
      OBVIOUS
    <3>1. table'[h] = table[h] /\ h # given[t]
      BY <2>5
    <3>2. table[h] \in Running /\ given[table[h]] = h
      BY <3>1, <2>1 DEF Matched
    <3>3. table[h] \in Running'
      BY <3>1, <3>2, <1>3
    <3> QED
      BY <3>1, <3>2, <3>3, <1>3
  <2> QED
    BY <2>2, <2>4, <2>6 DEF Matched, THandle
<1> QED
  BY <1>2, <1>4 DEF HandlesInv

LEMMA StutterKeeps ==
  ASSUME HandlesInv, UNCHANGED vars
  PROVE  HandlesInv'
BY DEF HandlesInv, vars, TypeOK, Placed, Matched, Running, THandle, Advanced, None

LEMMA InvHolds ==
  ASSUME Parameters
  PROVE  Spec => []HandlesInv
<1>1. Init => HandlesInv
  BY InitHolds
<1>2. HandlesInv /\ [Next]_vars => HandlesInv'
  BY ConvertKeeps, RemoveKeeps, StutterKeeps DEF Next
<1> QED
  BY <1>1, <1>2, PTL DEF Spec

(* For every width and every step, the numbers of threads are unique and   *)
(* lead to their threads until the counter of handles.cpp has gone all the *)
(* way round while one thread was running.                                 *)
THEOREM UniqueForARound ==
  ASSUME Parameters
  PROVE  Spec => []HandlesLeadToTheirThreads
<1>1. HandlesInv => HandlesLeadToTheirThreads
  BY DEF HandlesInv, Matched, HandlesLeadToTheirThreads, Resolve_kiv_os_Handle
<1> QED
  BY <1>1, InvHolds, PTL

-----------------------------------------------------------------------------
(* The walk of File_Exists, for every disk, every table of processes and   *)
(* every path.                                                             *)

CONSTANTS tree, pids, Component

Path == Seq(Component)

(* Identifiers of files are paths, and processes have names.               *)
DiskAndTable ==
  /\ {"", "procfs"} \subseteq Component
  /\ tree \subseteq Path /\ pids \subseteq Component

FileSystems == Seq({"fat", "proc"})
Stacks == Seq(Path)
Walks ==
  [path : Path, rel : Path, fs : FileSystems, rels : Stacks, fds : Stacks,
   n : Int, status : {"found", "missing", "undefined"}]

(* The identifiers on the stack are enough for the levels of the current   *)
(* file system and for one of each file system below it, and each of these *)
(* has left its path.  The count of components alone says when a file      *)
(* system is left, so it is what ties the three stacks to each other.      *)
Balanced(w) ==
  /\ w.n > 0
  /\ Len(w.fs) = Len(w.rels) + 1
  /\ Len(w.fds) >= w.n + Len(w.rels)

WalkKept(w) == w \in Walks /\ (w.status = "found" => Balanced(w))

(* No stack is empty when the next component is looked at: top() has an    *)
(* element, but for the walk above the root of C:\, which is undefined.    *)
StacksHold(w) ==
  w.status = "found" => w.fs # <<>> /\ w.fds # <<>> /\ Len(w.fs) = Len(w.rels) + 1

-----------------------------------------------------------------------------
LEMMA FrontFacts ==
  ASSUME NEW S, NEW s \in Seq(S), s # <<>>
  PROVE  /\ Front(s) \in Seq(S) /\ Len(Front(s)) = Len(s) - 1
         /\ Last(s) \in S
         /\ \A i \in 1 .. Len(s) - 1 : Front(s)[i] = s[i]
<1>1. Len(s) \in Nat \ {0} /\ s \in [1 .. Len(s) -> S]
  BY EmptySeq, LenProperties
<1>2. Last(s) \in S
  BY <1>1 DEF Last
<1>3. /\ \A i \in 1 .. Len(s) - 1 : s[i] \in S
      /\ 1 \in Int /\ Len(s) - 1 \in Int
  BY <1>1
<1>4. /\ SubSeq(s, 1, Len(s) - 1) \in Seq(S)
      /\ Len(SubSeq(s, 1, Len(s) - 1)) = IF 1 <= Len(s) - 1 THEN Len(s) - 1 - 1 + 1 ELSE 0
      /\ \A i \in 1 .. Len(s) - 1 - 1 + 1 : SubSeq(s, 1, Len(s) - 1)[i] = s[1 + i - 1]
  BY <1>3, SubSeqProperties
<1> QED
  BY <1>1, <1>2, <1>4 DEF Front

LEMMA FrontOfAppend ==
  ASSUME NEW S, NEW s \in Seq(S), NEW x \in S
  PROVE  Front(Append(s, x)) = s /\ Last(Append(s, x)) = x
<1> DEFINE a == Append(s, x)
<1>1. /\ a \in Seq(S) /\ a # <<>> /\ Len(a) = Len(s) + 1
      /\ \A i \in 1 .. Len(s) : a[i] = s[i]
      /\ a[Len(s) + 1] = x
      /\ Len(s) \in Nat
  BY AppendProperties, LenProperties
<1>2. Last(a) = x
  BY <1>1 DEF Last
<1> HIDE DEF a
<1>3. /\ Front(a) \in Seq(S) /\ Len(Front(a)) = Len(s)
      /\ \A i \in 1 .. Len(s) : Front(a)[i] = s[i]
  <2>1. /\ Front(a) \in Seq(S) /\ Len(Front(a)) = Len(a) - 1
        /\ \A i \in 1 .. Len(a) - 1 : Front(a)[i] = a[i]
    BY <1>1, FrontFacts
  <2> QED
    BY <1>1, <2>1
<1>4. Front(a) = s
  BY <1>3, SeqEqual
<1> QED
  BY <1>2, <1>4 DEF a

LEMMA ParentFacts ==
  ASSUME NEW p \in Path
  PROVE  Parent(p) \in Path
BY FrontFacts, EmptySeq DEF Path, Parent

LEMMA JoinedFacts ==
  ASSUME DiskAndTable, NEW p \in Path
  PROVE  WithSeparator(p) \in Path /\ \A c \in Component : Joined(p, c) \in Path
<1>2. \A d \in Component : Joined(p, d) \in Path
  <2> SUFFICES ASSUME NEW d \in Component
               PROVE  Joined(p, d) \in Path
    OBVIOUS
  <2>1. CASE p # <<>> /\ Last(p) = ""
    <3>1. Front(p) \in Path
      BY <2>1, FrontFacts DEF Path
    <3> QED
      BY <2>1, <3>1, AppendProperties DEF Path, Joined
  <2>2. CASE ~(p # <<>> /\ Last(p) = "")
    BY <2>2, AppendProperties DEF Joined, Path
  <2> QED
    BY <2>1, <2>2
<1>3. "" \in Component
  BY DEF DiskAndTable
<1>4. <<>> \in Path
  BY EmptySeq DEF Path
<1> QED
  BY <1>2, <1>3, <1>4 DEF WithSeparator

(* What the file systems find are identifiers.                             *)
LEMMA FoundFacts ==
  ASSUME DiskAndTable, NEW fd \in Path, NEW c \in Component
  PROVE  FatFileExists(tree, fd, c) \subseteq Path /\ ProcFileExists(pids, fd, c) \subseteq Path
<1>1. <<>> \in Path
  BY EmptySeq DEF Path
<1>2. FatFileExists(tree, fd, c) \subseteq Path
  BY <1>1 DEF FatFileExists, DiskAndTable
<1>3. \A q \in Component : <<q>> \in Path
  BY DEF Path
<1>4. ProcFileExists(pids, fd, c) \subseteq Path
  BY <1>1, <1>3 DEF ProcFileExists, DiskAndTable
<1> QED
  BY <1>2, <1>4

(* A walk stays one when one of its locals gets a new value of its type.   *)
LEMMA FieldFacts ==
  ASSUME NEW w \in Walks
  PROVE  /\ \A p \in Path : [w EXCEPT !.path = p] \in Walks /\ [w EXCEPT !.rel = p] \in Walks
         /\ \A f \in FileSystems : [w EXCEPT !.fs = f] \in Walks
         /\ \A s \in Stacks : [w EXCEPT !.rels = s] \in Walks /\ [w EXCEPT !.fds = s] \in Walks
         /\ \A k \in Int : [w EXCEPT !.n = k] \in Walks
         /\ [w EXCEPT !.status = "missing"] \in Walks
         /\ [w EXCEPT !.status = "undefined"] \in Walks
BY DEF Walks

(* One level up from a walk that has found all so far.  Within a file      *)
(* system one identifier is popped for one component; at its mount point   *)
(* the identifier, the file system and the path below it go together.      *)
LEMMA UpKeepsBalance ==
  ASSUME NEW w \in Walks, w.status = "found", Balanced(w)
  PROVE  Up(w) \in Walks /\ (Up(w).status = "found" => Balanced(Up(w)))
<1> DEFINE up == [w EXCEPT !.path = Parent(@), !.fds = Front(@), !.n = @ - 1]
<1>1. /\ w.n \in Int /\ w.n > 0
      /\ w.path \in Path /\ w.rel \in Path
      /\ w.fs \in FileSystems /\ w.rels \in Stacks /\ w.fds \in Stacks
      /\ Len(w.fs) = Len(w.rels) + 1 /\ Len(w.fds) >= w.n + Len(w.rels)
      /\ Len(w.rels) \in Nat /\ Len(w.fds) \in Nat
  BY LenProperties DEF Walks, Balanced, FileSystems, Stacks
<1>2. w.fds # <<>> /\ w.fs # <<>>
  BY <1>1, EmptySeq
<1>3. Front(w.fds) \in Stacks /\ Len(Front(w.fds)) = Len(w.fds) - 1
  BY <1>1, <1>2, FrontFacts DEF Stacks
<1>4. Parent(w.path) \in Path /\ Parent(w.rel) \in Path
  BY <1>1, ParentFacts
<1>5. /\ up.n = w.n - 1 /\ up.fds = Front(w.fds) /\ up.path = Parent(w.path)
      /\ up.fs = w.fs /\ up.rels = w.rels /\ up.status = "found" /\ up.rel = w.rel
  BY DEF Walks
<1>9. up \in Walks
  <2>1. [w EXCEPT !.path = Parent(@)] \in Walks
    BY <1>4, FieldFacts
  <2>2. [w EXCEPT !.path = Parent(@), !.fds = Front(w.fds)] \in Walks
    BY <2>1, <1>3, FieldFacts
  <2>3. w.n - 1 \in Int
    BY <1>1
  <2> QED
    BY <2>2, <2>3, FieldFacts
<1> HIDE DEF up
<1>6. CASE w.n - 1 > 0
  <2>1. Up(w) = [up EXCEPT !.rel = Parent(@)]
    BY <1>5, <1>6 DEF Up, up
  <2>2. Up(w) \in Walks
    BY <2>1, <1>4, <1>5, <1>9 DEF Walks
  <2>3. Up(w).n = w.n - 1 /\ Up(w).fds = Front(w.fds) /\ Up(w).fs = w.fs /\ Up(w).rels = w.rels
    BY <2>1, <1>5, <1>9 DEF Walks
  <2> QED
    BY <2>2, <2>3, <1>1, <1>3, <1>6 DEF Balanced
<1>7. CASE w.n = 1 /\ Len(w.fs) = 1
  <2>1. Up(w) = [up EXCEPT !.status = "undefined"]
    BY <1>5, <1>7 DEF Up, up
  <2>2. Up(w) \in Walks /\ Up(w).status = "undefined"
    BY <2>1, <1>9 DEF Walks
  <2> QED
    BY <2>2
<1>8. CASE w.n = 1 /\ Len(w.fs) # 1
  <2>1. Up(w) = [up EXCEPT !.fs = Front(@), !.rel = Last(w.rels), !.rels = Front(@), !.n = 1]
    BY <1>5, <1>8 DEF Up, up
  <2>2. w.rels # <<>>
    BY <1>1, <1>8, EmptySeq
  <2>3. /\ Front(w.rels) \in Stacks /\ Len(Front(w.rels)) = Len(w.rels) - 1
        /\ Last(w.rels) \in Path
    BY <1>1, <2>2, FrontFacts DEF Stacks
  <2>4. Front(w.fs) \in FileSystems /\ Len(Front(w.fs)) = Len(w.fs) - 1
    BY <1>1, <1>2, FrontFacts DEF FileSystems
  <2>5. Up(w) \in Walks
    <3>1. [up EXCEPT !.fs = Front(@)] \in Walks
      BY <2>4, <1>5, <1>9, FieldFacts
    <3>2. [up EXCEPT !.fs = Front(@), !.rel = Last(w.rels)] \in Walks
      BY <3>1, <2>3, FieldFacts
    <3>3. [up EXCEPT !.fs = Front(@), !.rel = Last(w.rels), !.rels = Front(@)] \in Walks
      BY <3>2, <2>3, <1>5, FieldFacts
    <3>4. 1 \in Int
      OBVIOUS
    <3> QED
      BY <2>1, <3>3, <3>4, FieldFacts
  <2>6. /\ Up(w).n = 1 /\ Up(w).fds = Front(w.fds)
        /\ Up(w).fs = Front(w.fs) /\ Up(w).rels = Front(w.rels)
    BY <2>1, <1>5, <1>9 DEF Walks
  <2> QED
    BY <2>3, <2>4, <2>5, <2>6, <1>1, <1>3, <1>8 DEF Balanced
<1> QED
  BY <1>1, <1>6, <1>7, <1>8

(* The mount point: the path below it is kept for the way back, and procfs *)
(* comes onto the stacks with its root as the only identifier.             *)
LEMMA MountKeepsBalance ==
  ASSUME DiskAndTable, NEW w \in Walks, Balanced(w)
  PROVE  Mounted(w) \in Walks /\ Balanced(Mounted(w))
<1>1. /\ w.n \in Int /\ w.rel \in Path
      /\ w.fs \in FileSystems /\ w.rels \in Stacks /\ w.fds \in Stacks
  BY DEF Walks
<1>2. /\ <<>> \in Path /\ Mount \in Path /\ 1 \in Int
      /\ "proc" \in {"fat", "proc"}
  <2>1. <<>> \in Path
    BY EmptySeq DEF Path
  <2>2. "procfs" \in Component
    BY DEF DiskAndTable
  <2>3. Mount \in Path
    BY <2>2 DEF Mount, Path
  <2> QED
    BY <2>1, <2>3
<1>3. Append(w.rels, w.rel) \in Stacks /\ Len(Append(w.rels, w.rel)) = Len(w.rels) + 1
  BY <1>1, AppendProperties DEF Stacks
<1>4. Append(w.fds, <<>>) \in Stacks /\ Len(Append(w.fds, <<>>)) = Len(w.fds) + 1
  BY <1>1, <1>2, AppendProperties DEF Stacks
<1>5. Append(w.fs, "proc") \in FileSystems /\ Len(Append(w.fs, "proc")) = Len(w.fs) + 1
  BY <1>1, <1>2, AppendProperties DEF FileSystems
<1>6. Mounted(w) \in Walks
  <2>1. [w EXCEPT !.path = Mount] \in Walks
    BY <1>2, FieldFacts
  <2>2. [w EXCEPT !.path = Mount, !.rels = Append(w.rels, w.rel)] \in Walks
    BY <2>1, <1>3, FieldFacts
  <2>3. [w EXCEPT !.path = Mount, !.rels = Append(w.rels, w.rel), !.rel = <<>>] \in Walks
    BY <2>2, <1>2, FieldFacts
  <2>4. [w EXCEPT !.path = Mount, !.rels = Append(w.rels, w.rel), !.rel = <<>>,
                  !.fs = Append(w.fs, "proc")] \in Walks
    BY <2>3, <1>5, FieldFacts
  <2>5. [w EXCEPT !.path = Mount, !.rels = Append(w.rels, w.rel), !.rel = <<>>,
                  !.fs = Append(w.fs, "proc"), !.fds = Append(w.fds, <<>>)] \in Walks
    BY <2>4, <1>4, FieldFacts
  <2> QED
    BY <2>5, <1>2, FieldFacts DEF Mounted
<1>7. /\ Mounted(w).n = 1 /\ Mounted(w).fds = Append(w.fds, <<>>)
      /\ Mounted(w).fs = Append(w.fs, "proc") /\ Mounted(w).rels = Append(w.rels, w.rel)
  BY DEF Mounted, Walks
<1>8. Len(w.rels) \in Nat /\ Len(w.fds) \in Nat
  BY <1>1, LenProperties DEF Stacks
<1> QED
  BY <1>1, <1>3, <1>4, <1>5, <1>6, <1>7, <1>8 DEF Balanced

(* One level down: a component that is found puts one identifier onto the  *)
(* stack and counts at most once.                                          *)
LEMMA DownKeepsBalance ==
  ASSUME DiskAndTable, NEW w \in Walks, Balanced(w), NEW c \in Component
  PROVE  /\ Down(tree, pids, w, c) \in Walks
         /\ Down(tree, pids, w, c).status = "found" => Balanced(Down(tree, pids, w, c))
<1> DEFINE found == IF Last(w.fs) = "fat" THEN FatFileExists(tree, Last(w.fds), c)
                    ELSE ProcFileExists(pids, Last(w.fds), c)
           fd == CHOOSE f \in found : TRUE
           down == Down(tree, pids, w, c)
           path == IF c = "." THEN WithSeparator(w.path) ELSE Joined(w.path, c)
           count == IF c = "." THEN w.n ELSE w.n + 1
<1>1. /\ w.n \in Int /\ w.path \in Path /\ w.rel \in Path
      /\ w.fs \in FileSystems /\ w.rels \in Stacks /\ w.fds \in Stacks
      /\ Len(w.rels) \in Nat /\ Len(w.fds) \in Nat
  BY LenProperties DEF Walks, Stacks
<1>2. w.fds # <<>>
  BY <1>1, EmptySeq DEF Balanced
<1>3. Last(w.fds) \in Path
  BY <1>1, <1>2, FrontFacts DEF Stacks
<1>4. found \subseteq Path
  BY <1>3, FoundFacts
<1>5. path \in Path /\ Joined(w.rel, c) \in Path /\ count \in Int /\ (count = w.n \/ count = w.n + 1)
  <2>1. path \in Path /\ Joined(w.rel, c) \in Path
    BY <1>1, JoinedFacts
  <2>2. count \in Int /\ (count = w.n \/ count = w.n + 1)
    BY <1>1
  <2> QED
    BY <2>1, <2>2
<1>6. CASE Joined(w.path, c) = Mount
  BY <1>6, MountKeepsBalance DEF Down
<1>7. CASE Joined(w.path, c) # Mount /\ found = {}
  <2>1. down = [w EXCEPT !.status = "missing"]
    BY <1>7 DEF Down
  <2>2. down \in Walks /\ down.status = "missing"
    BY <2>1 DEF Walks
  <2> QED
    BY <2>2
<1>8. CASE Joined(w.path, c) # Mount /\ found # {}
  <2>1. fd \in Path
    BY <1>4, <1>8
  <2>2. down = [w EXCEPT !.path = path, !.rel = Joined(w.rel, c), !.fds = Append(w.fds, fd), !.n = count]
    BY <1>8 DEF Down
  <2> HIDE DEF fd, path, count, found, down
  <2>3. Append(w.fds, fd) \in Stacks /\ Len(Append(w.fds, fd)) = Len(w.fds) + 1
    BY <1>1, <2>1, AppendProperties DEF Stacks
  <2>4. down \in Walks
    <3>1. [w EXCEPT !.path = path] \in Walks
      BY <1>5, FieldFacts
    <3>2. [w EXCEPT !.path = path, !.rel = Joined(w.rel, c)] \in Walks
      BY <3>1, <1>5, FieldFacts
    <3>3. [w EXCEPT !.path = path, !.rel = Joined(w.rel, c), !.fds = Append(w.fds, fd)] \in Walks
      BY <3>2, <2>3, FieldFacts
    <3> QED
      BY <2>2, <3>3, <1>5, FieldFacts
  <2>5. down.n = count /\ down.fds = Append(w.fds, fd) /\ down.fs = w.fs /\ down.rels = w.rels
    BY <2>2 DEF Walks
  <2>6. Balanced(down)
    BY <2>3, <2>5, <1>1, <1>5 DEF Balanced
  <2> QED
    BY <2>4, <2>6 DEF down
<1> QED
  BY <1>6, <1>7, <1>8

(* A step of the loop of File_Exists as the step of a fold, and what it    *)
(* keeps.                                                                  *)
WalkStep(x, walk, c) == Given(walk, LAMBDA w : Walked(tree, pids, w, c))
WalkInv(x, k, walk) == WalkKept(walk)
Walking == INSTANCE Induction WITH Op <- WalkStep, P <- WalkInv

LEMMA WalkIsFold ==
  ASSUME NEW path
  PROVE  File_Exists(tree, pids, path) = Walking!Fold(0, Start, path)
<1>1. File_Exists(tree, pids, path) = FoldLeft(LAMBDA a, x : WalkStep(0, a, x), Start, path)
  BY DEF File_Exists, FoldOnce, WalkStep, Given, FoldLeft, MapThenFoldSet
<1> QED
  BY <1>1 DEF Walking!Fold, FoldLeft, MapThenFoldSet, Walking!FoldLeft, Walking!MapThenFoldSet, Walking!Max, Max

LEMMA WalkStarts ==
  ASSUME DiskAndTable
  PROVE  WalkKept(Start)
<1>1. /\ <<>> \in Path /\ <<>> \in Stacks /\ << <<>> >> \in Stacks
      /\ <<"fat">> \in FileSystems
  BY EmptySeq DEF Path, Stacks, FileSystems
<1>2. Start \in Walks
  BY <1>1 DEF Start, Walks
<1>3. Balanced(Start)
  BY DEF Start, Balanced
<1> QED
  BY <1>2, <1>3 DEF WalkKept

LEMMA StepKept ==
  ASSUME DiskAndTable, NEW w, WalkKept(w), NEW c \in Component
  PROVE  WalkKept(Walked(tree, pids, w, c))
<1>1. CASE w.status # "found"
  BY <1>1 DEF Walked, WalkKept
<1>2. CASE w.status = "found" /\ c = ".."
  BY <1>2, UpKeepsBalance DEF Walked, WalkKept
<1>3. CASE w.status = "found" /\ c # ".."
  BY <1>3, DownKeepsBalance DEF Walked, WalkKept
<1> QED
  BY <1>1, <1>2, <1>3

(* Whatever is on the disk, whatever runs and whatever the path says, the  *)
(* loop of File_Exists never calls top() of an empty stack, but for ".."   *)
(* at the root of C:\: each state of the loop is the end of a walk along   *)
(* the beginning of the path.                                              *)
THEOREM WalkKeepsItsStacks ==
  ASSUME DiskAndTable, NEW path \in Path
  PROVE  StacksHold(File_Exists(tree, pids, path))
<1> DEFINE n == Len(path)
           w == File_Exists(tree, pids, path)
<1>1. n \in Nat /\ DOMAIN path = 1 .. n /\ \A k \in 1 .. n : path[k] \in Component
  BY LenProperties DEF Path
<1>2. WalkInv(0, 0, Start)
  BY WalkStarts DEF WalkInv
<1>3. \A k \in 0 .. n - 1 : \A a : WalkInv(0, k, a) => WalkInv(0, k + 1, WalkStep(0, a, path[k + 1]))
  <2> SUFFICES ASSUME NEW k \in 0 .. n - 1, NEW a, WalkKept(a)
               PROVE  WalkKept(WalkStep(0, a, path[k + 1]))
    BY DEF WalkInv
  <2>1. path[k + 1] \in Component
    BY <1>1
  <2>2. WalkStep(0, a, path[k + 1]) = Walked(tree, pids, a, path[k + 1])
    BY DEF WalkStep, Given
  <2> QED
    BY <2>1, <2>2, StepKept
<1> HIDE DEF n
<1>4. WalkInv(0, n, Walking!Fold(0, Start, path))
  BY <1>1, <1>2, <1>3, Walking!Folded
<1>5. WalkKept(w)
  BY <1>4, WalkIsFold DEF WalkInv
<1> HIDE DEF w
<1>6. StacksHold(w)
  <2> SUFFICES ASSUME w.status = "found"
               PROVE  w.fs # <<>> /\ w.fds # <<>> /\ Len(w.fs) = Len(w.rels) + 1
    BY DEF StacksHold
  <2>1. /\ w.n \in Int /\ w.n > 0 /\ Len(w.rels) \in Nat
        /\ Len(w.fs) = Len(w.rels) + 1 /\ Len(w.fds) >= w.n + Len(w.rels)
    BY <1>5, LenProperties DEF WalkKept, Balanced, Walks, Stacks
  <2> QED
    BY <2>1, EmptySeq
<1> QED
  BY <1>6 DEF w

LEMMA SameFields ==
  ASSUME NEW v \in Walks, NEW w \in Walks,
         v.path = w.path, v.rel = w.rel, v.fs = w.fs, v.rels = w.rels, v.fds = w.fds,
         v.n = w.n, v.status = w.status
  PROVE  v = w
BY DEF Walks

(* A path without a separator at its end.                                  *)
NoSeparator(p) == p = <<>> \/ Last(p) # ""

LEMMA ParentOfJoined ==
  ASSUME NEW p \in Path, NoSeparator(p), NEW c \in Component
  PROVE  Parent(Joined(p, c)) = p
<1>1. Joined(p, c) = Append(p, c)
  BY DEF NoSeparator, Joined
<1>2. Append(p, c) # <<>> /\ Front(Append(p, c)) = p
  BY AppendProperties, FrontOfAppend DEF Path
<1> QED
  BY <1>1, <1>2 DEF Parent

(* A component that was found within a file system, and then "..", lead    *)
(* File_Exists back to the very state it was in: the same file system and  *)
(* the same stacks, so that the rest of the path means the same.           *)
THEOREM UpUndoesDown ==
  ASSUME DiskAndTable,
         NEW w \in Walks, w.status = "found", Balanced(w), NoSeparator(w.path), NoSeparator(w.rel),
         NEW c \in Component, c # ".", Joined(w.path, c) # Mount,
         Down(tree, pids, w, c).status = "found"
  PROVE  Up(Down(tree, pids, w, c)) = w
<1> DEFINE found == IF Last(w.fs) = "fat" THEN FatFileExists(tree, Last(w.fds), c)
                    ELSE ProcFileExists(pids, Last(w.fds), c)
           fd == CHOOSE f \in found : TRUE
           down == Down(tree, pids, w, c)
           up == Up(down)
<1>1. /\ w.n \in Int /\ w.n > 0 /\ w.path \in Path /\ w.rel \in Path /\ w.fds \in Stacks
  BY DEF Walks, Balanced
<1>2. found # {}
  <2> SUFFICES ASSUME found = {} PROVE FALSE
    OBVIOUS
  <2>1. down = [w EXCEPT !.status = "missing"]
    BY DEF Down
  <2>2. down.status = "missing"
    BY <2>1 DEF Walks
  <2> QED
    BY <2>2
<1>3. fd \in Path
  <2>1. w.fds # <<>>
    <3>1. Len(w.fds) > 0
      BY <1>1, LenProperties DEF Balanced, Walks, Stacks
    <3> QED
      BY <3>1, EmptySeq
  <2>2. Last(w.fds) \in Path
    BY <1>1, <2>1, FrontFacts DEF Stacks
  <2>3. found \subseteq Path
    BY <2>2, FoundFacts
  <2> QED
    BY <2>3, <1>2
<1>4. down = [w EXCEPT !.path = Joined(w.path, c), !.rel = Joined(w.rel, c),
                       !.fds = Append(w.fds, fd), !.n = w.n + 1]
  BY <1>2 DEF Down
<1>5. down \in Walks /\ up \in Walks
  BY DownKeepsBalance, UpKeepsBalance
<1> HIDE DEF down, fd, found
<1>6. /\ down.path = Joined(w.path, c) /\ down.rel = Joined(w.rel, c)
      /\ down.fds = Append(w.fds, fd) /\ down.n = w.n + 1
      /\ down.fs = w.fs /\ down.rels = w.rels /\ down.status = w.status
  BY <1>4 DEF Walks
<1>7. up = [down EXCEPT !.path = Parent(@), !.fds = Front(@), !.n = @ - 1, !.rel = Parent(@)]
  <2>1. [down EXCEPT !.path = Parent(@), !.fds = Front(@), !.n = @ - 1].n > 0
    BY <1>1, <1>5, <1>6 DEF Walks
  <2> QED
    BY <2>1 DEF Up
<1>8. /\ up.path = Parent(down.path) /\ up.rel = Parent(down.rel)
      /\ up.fds = Front(down.fds) /\ up.n = down.n - 1
      /\ up.fs = down.fs /\ up.rels = down.rels /\ up.status = down.status
  BY <1>5, <1>7 DEF Walks
<1>9. up.path = w.path /\ up.rel = w.rel /\ up.n = w.n /\ up.fds = w.fds
  BY <1>1, <1>3, <1>6, <1>8, ParentOfJoined, FrontOfAppend DEF Stacks
<1> HIDE DEF up
<1>10. up = w
  BY <1>5, <1>6, <1>8, <1>9, SameFields
<1> QED
  BY <1>10 DEF up, down

-----------------------------------------------------------------------------
(* What a path means                                                       *)

(* Names that mean nothing else: . and the empty name are folders again,   *)
(* and the root of procfs is found under the name tasklist once more.      *)
Ordinary == Component \ {"..", ".", "", "tasklist"}

(* Nothing on the disk is below the mount point: a file of that name can   *)
(* be made, but no path leads to it any more, nor below it.                *)
Uncovered == DiskAndTable /\ \A p \in tree : p # <<>> /\ p[1] = "procfs" => p = Mount

(* The places that a path can lead to.                                     *)
OnDisk(p) == p \in Seq(Ordinary) /\ (p # <<>> => p[1] # "procfs")
InProcfs(p) == p = Mount \/ \E q \in Ordinary : p = <<"procfs", q>>

(* The locals of the walk as a function of the place that it has reached.  *)
Prefix(p, k) == [i \in 1 .. k |-> p[i]]
Locals(path, rel, fs, rels, fds, n) ==
  [path |-> path, rel |-> rel, fs |-> fs, rels |-> rels, fds |-> fds, n |-> n, status |-> "found"]
StandOnDisk(p) ==
  Locals(p, p, <<"fat">>, <<>>, [j \in 1 .. Len(p) + 1 |-> Prefix(p, j - 1)], Len(p) + 1)
StandInProcfs(p) ==
  Locals(p, Tail(p), <<"fat", "proc">>, << <<>> >>,
         IF p = Mount THEN << <<>>, <<>> >> ELSE << <<>>, <<>>, Tail(p) >>, Len(p))

Agree(w, p) ==
  \/ p = Above /\ w.status = "undefined"
  \/ p = Nowhere /\ w.status = "missing"
  \/ OnDisk(p) /\ w = StandOnDisk(p)
  \/ InProcfs(p) /\ w = StandInProcfs(p)

(* A step of Resolve as the step of a fold.                                *)
Stepped(p, c) == Resolved(tree, pids, p, c)
ResolveStep(x, place, c) == Given(place, LAMBDA p : Stepped(p, c))
AgreeInv(x, k, both) == Agree(both[1], both[2])
Resolving == INSTANCE Induction WITH Op <- ResolveStep, P <- AgreeInv

LEMMA ResolveIsFold ==
  ASSUME NEW path
  PROVE  Resolve(tree, pids, path) = Resolving!Fold(0, <<>>, path)
<1>1. Resolve(tree, pids, path) = FoldLeft(LAMBDA a, x : ResolveStep(0, a, x), <<>>, path)
  BY DEF Resolve, Stepped, FoldOnce, ResolveStep, Given, FoldLeft, MapThenFoldSet
<1> QED
  BY <1>1 DEF Resolving!Fold, FoldLeft, MapThenFoldSet, Resolving!FoldLeft, Resolving!MapThenFoldSet, Resolving!Max, Max

(* Tuples of one, two or three elements and their ends.                    *)
LEMMA OneElement ==
  ASSUME NEW a
  PROVE  /\ Append(<<>>, a) = <<a>> /\ Front(<<a>>) = <<>> /\ Tail(<<a>>) = <<>>
         /\ Last(<<a>>) = a /\ Len(<<a>>) = 1 /\ <<a>>[1] = a
<1> DEFINE S == {a}
<1>1. <<>> \in Seq(S) /\ <<a>> \in Seq(S) /\ a \in S
  OBVIOUS
<1> HIDE DEF S
<1>2. Append(<<>>, a) = <<a>>
  OBVIOUS
<1>3. Front(Append(<<>>, a)) = <<>>
  BY <1>1, FrontOfAppend
<1>4. Last(<<a>>) = a /\ Len(<<a>>) = 1 /\ <<a>>[1] = a /\ Tail(<<a>>) = <<>>
  BY DEF Last
<1> QED
  BY <1>2, <1>3, <1>4

LEMMA TwoElements ==
  ASSUME NEW a, NEW b
  PROVE  /\ Append(<<a>>, b) = <<a, b>> /\ Front(<<a, b>>) = <<a>> /\ Tail(<<a, b>>) = <<b>>
         /\ Last(<<a, b>>) = b /\ Len(<<a, b>>) = 2 /\ <<a, b>>[1] = a /\ <<a, b>>[2] = b
<1> DEFINE S == {a, b}
<1>1. <<a>> \in Seq(S) /\ <<a, b>> \in Seq(S) /\ b \in S
  OBVIOUS
<1> HIDE DEF S
<1>3. Append(<<a>>, b) = <<a, b>>
  <2>1. /\ Append(<<a>>, b) \in Seq(S) /\ Len(Append(<<a>>, b)) = Len(<<a>>) + 1
        /\ \A i \in 1 .. Len(<<a>>) : Append(<<a>>, b)[i] = <<a>>[i]
        /\ Append(<<a>>, b)[Len(<<a>>) + 1] = b
    BY <1>1, AppendProperties
  <2>2. Len(<<a>>) = 1 /\ <<a>>[1] = a /\ Len(<<a, b>>) = 2 /\ <<a, b>>[1] = a /\ <<a, b>>[2] = b
    OBVIOUS
  <2>3. Append(<<a>>, b)[1] = a /\ Append(<<a>>, b)[2] = b /\ Len(Append(<<a>>, b)) = 2
    BY <2>1, <2>2
  <2>4. \A i \in 1 .. 2 : Append(<<a>>, b)[i] = <<a, b>>[i]
    <3>1. \A i \in 1 .. 2 : i = 1 \/ i = 2
      OBVIOUS
    <3> QED
      BY <2>2, <2>3, <3>1
  <2> DEFINE s == Append(<<a>>, b)
             t == <<a, b>>
  <2>5. /\ s \in Seq(S) /\ t \in Seq(S) /\ Len(s) = 2 /\ Len(t) = 2
        /\ \A i \in 1 .. 2 : s[i] = t[i]
    BY <1>1, <2>1, <2>2, <2>3, <2>4
  <2> HIDE DEF s, t
  <2>6. s = t
    BY <2>5, SeqEqual
  <2> QED
    BY <2>6 DEF s, t
<1>4. Front(Append(<<a>>, b)) = <<a>>
  BY <1>1, FrontOfAppend
<1>5. /\ Last(<<a, b>>) = b /\ Len(<<a, b>>) = 2 /\ <<a, b>>[1] = a /\ <<a, b>>[2] = b
      /\ Tail(<<a, b>>) = <<b>>
  BY DEF Last
<1> QED
  BY <1>3, <1>4, <1>5

LEMMA ThreeElements ==
  ASSUME NEW a, NEW b, NEW c
  PROVE  /\ Append(<<a, b>>, c) = <<a, b, c>> /\ Front(<<a, b, c>>) = <<a, b>>
         /\ Last(<<a, b, c>>) = c /\ Len(<<a, b, c>>) = 3
<1> DEFINE S == {a, b, c}
<1>1. <<a, b>> \in Seq(S) /\ <<a, b, c>> \in Seq(S) /\ c \in S
  OBVIOUS
<1> HIDE DEF S
<1>4. Append(<<a, b>>, c) = <<a, b, c>>
  <2>1. /\ Append(<<a, b>>, c) \in Seq(S) /\ Len(Append(<<a, b>>, c)) = Len(<<a, b>>) + 1
        /\ \A i \in 1 .. Len(<<a, b>>) : Append(<<a, b>>, c)[i] = <<a, b>>[i]
        /\ Append(<<a, b>>, c)[Len(<<a, b>>) + 1] = c
    BY <1>1, AppendProperties
  <2>2. /\ Len(<<a, b>>) = 2 /\ <<a, b>>[1] = a /\ <<a, b>>[2] = b
        /\ Len(<<a, b, c>>) = 3 /\ <<a, b, c>>[1] = a /\ <<a, b, c>>[2] = b /\ <<a, b, c>>[3] = c
    OBVIOUS
  <2>3. /\ Append(<<a, b>>, c)[1] = a /\ Append(<<a, b>>, c)[2] = b /\ Append(<<a, b>>, c)[3] = c
        /\ Len(Append(<<a, b>>, c)) = 3
    BY <2>1, <2>2
  <2>4. \A i \in 1 .. 3 : Append(<<a, b>>, c)[i] = <<a, b, c>>[i]
    <3>1. \A i \in 1 .. 3 : i = 1 \/ i = 2 \/ i = 3
      OBVIOUS
    <3> QED
      BY <2>2, <2>3, <3>1
  <2> DEFINE s == Append(<<a, b>>, c)
             t == <<a, b, c>>
  <2>5. /\ s \in Seq(S) /\ t \in Seq(S) /\ Len(s) = 3 /\ Len(t) = 3
        /\ \A i \in 1 .. 3 : s[i] = t[i]
    BY <1>1, <2>1, <2>2, <2>3, <2>4
  <2> HIDE DEF s, t
  <2>6. s = t
    BY <2>5, SeqEqual
  <2> QED
    BY <2>6 DEF s, t
<1>5. Front(Append(<<a, b>>, c)) = <<a, b>>
  BY <1>1, FrontOfAppend
<1>6. Last(<<a, b, c>>) = c /\ Len(<<a, b, c>>) = 3
  BY DEF Last
<1> QED
  BY <1>4, <1>5, <1>6

(* What is said of the names of the places.                                *)
LEMMA Distinguish ==
  /\ \A c \in Ordinary : c # ".." /\ c # "." /\ c # "" /\ c # "tasklist"
  /\ Above[1] = ".." /\ Nowhere[1] = "" /\ Above # <<>> /\ Nowhere # <<>> /\ Above # Nowhere
  /\ Mount = <<"procfs">> /\ Mount # <<>> /\ Mount[1] = "procfs" /\ Len(Mount) = 1
  /\ \A p : InProcfs(p) => p # <<>> /\ p[1] = "procfs"
  /\ \A p : OnDisk(p) => p = <<>> \/ p[1] \in Ordinary
<1>1. \A c \in Ordinary : c # ".." /\ c # "." /\ c # "" /\ c # "tasklist"
  BY DEF Ordinary
<1>2. Above[1] = ".." /\ Nowhere[1] = "" /\ Above # <<>> /\ Nowhere # <<>> /\ Above # Nowhere
  BY DEF Above, Nowhere
<1>3. Mount = <<"procfs">> /\ Mount # <<>> /\ Mount[1] = "procfs" /\ Len(Mount) = 1
  BY DEF Mount
<1>4. \A p : InProcfs(p) => p # <<>> /\ p[1] = "procfs"
  <2> SUFFICES ASSUME NEW p, InProcfs(p) PROVE p # <<>> /\ p[1] = "procfs"
    OBVIOUS
  <2>1. CASE p = Mount
    BY <1>3, <2>1
  <2>2. ASSUME NEW q, p = <<"procfs", q>> PROVE p # <<>> /\ p[1] = "procfs"
    BY <2>2
  <2> QED
    BY <2>1, <2>2 DEF InProcfs
<1>5. \A p : OnDisk(p) => p = <<>> \/ p[1] \in Ordinary
  BY LenProperties, EmptySeq DEF OnDisk
<1> QED
  BY <1>1, <1>2, <1>3, <1>4, <1>5

(* The prefixes of a path with one more name, or with one name less.       *)
LEMMA PrefixFacts ==
  ASSUME NEW S, NEW p \in Seq(S)
  PROVE  /\ Prefix(p, Len(p)) = p /\ Len(p) \in Nat
         /\ \A c \in S : \A k \in 0 .. Len(p) : Prefix(Append(p, c), k) = Prefix(p, k)
         /\ p # <<>> => \A k \in 0 .. Len(p) - 1 : Prefix(Front(p), k) = Prefix(p, k)
<1>1. Len(p) \in Nat /\ p \in [1 .. Len(p) -> S]
  BY LenProperties
<1>2. \A c \in S : \A k \in 0 .. Len(p) : Prefix(Append(p, c), k) = Prefix(p, k)
  BY <1>1, AppendProperties DEF Prefix
<1>3. ASSUME p # <<>>
      PROVE  \A k \in 0 .. Len(p) - 1 : Prefix(Front(p), k) = Prefix(p, k)
  <2>1. \A i \in 1 .. Len(p) - 1 : Front(p)[i] = p[i]
    BY <1>3, FrontFacts
  <2> QED
    BY <1>1, <2>1 DEF Prefix
<1> QED
  BY <1>1, <1>2, <1>3 DEF Prefix

(* A name below a place: the parts of its path.                            *)
LEMMA BelowFacts ==
  ASSUME NEW p \in Seq(Ordinary), NEW c \in Ordinary
  PROVE  /\ Joined(p, c) = Append(p, c) /\ Append(p, c) \in Seq(Ordinary)
         /\ Append(p, c) # <<>> /\ Append(p, c) # Above /\ Append(p, c) # Nowhere
         /\ Front(Append(p, c)) = p /\ Last(Append(p, c)) = c
         /\ p # <<>> => Append(p, c)[1] = p[1]
         /\ p = <<>> => Append(p, c) = <<c>>
<1>1. Len(p) \in Nat /\ p \in [1 .. Len(p) -> Ordinary] /\ (p # <<>> => Len(p) > 0)
  BY LenProperties, EmptySeq
<1>2. p # <<>> => Last(p) # ""
  <2>1. p # <<>> => p[Len(p)] \in Ordinary
    BY <1>1
  <2> QED
    BY <2>1, Distinguish DEF Last
<1>3. Joined(p, c) = Append(p, c)
  BY <1>2 DEF Joined
<1>4. Append(p, c) \in Seq(Ordinary) /\ Append(p, c) # <<>> /\ (p # <<>> => Append(p, c)[1] = p[1])
  BY <1>1, AppendProperties
<1>5. Append(p, c)[1] \in Ordinary
  BY <1>1, AppendProperties
<1>6. Append(p, c) # Above /\ Append(p, c) # Nowhere
  BY <1>5, Distinguish
<1>7. Front(Append(p, c)) = p /\ Last(Append(p, c)) = c
  BY FrontOfAppend
<1>8. p = <<>> => Append(p, c) = <<c>>
  OBVIOUS
<1> QED
  BY <1>3, <1>4, <1>6, <1>7, <1>8

(* The locals of two walks are the same when each of them is.              *)
LEMMA SameLocals ==
  ASSUME NEW S, NEW v, NEW w,
         v \in [path : S, rel : S, fs : S, rels : S, fds : S, n : S, status : S],
         w \in [path : S, rel : S, fs : S, rels : S, fds : S, n : S, status : S],
         v.path = w.path, v.rel = w.rel, v.fs = w.fs, v.rels = w.rels, v.fds = w.fds,
         v.n = w.n, v.status = w.status
  PROVE  v = w
OBVIOUS

(* The four ways in which Up and Down change the locals.                   *)
BelowOf(w, p, r, e, k) ==
  [w EXCEPT !.path = p, !.rel = r, !.fds = e, !.n = k]
LEMMA BelowIs ==
  ASSUME NEW path, NEW rel, NEW fs, NEW rels, NEW fds, NEW n, NEW p, NEW r, NEW e, NEW k
  PROVE  BelowOf(Locals(path, rel, fs, rels, fds, n), p, r, e, k) = Locals(p, r, fs, rels, e, k)
<1> DEFINE S == {path, rel, fs, rels, fds, n, "found", p, r, e, k}
           T == [path : S, rel : S, fs : S, rels : S, fds : S, n : S, status : S]
           v == BelowOf(Locals(path, rel, fs, rels, fds, n), p, r, e, k)
           u == Locals(p, r, fs, rels, e, k)
<1>1. /\ path \in S /\ rel \in S /\ fs \in S /\ rels \in S /\ fds \in S /\ n \in S /\ "found" \in S
      /\ p \in S /\ r \in S /\ e \in S /\ k \in S
  OBVIOUS
<1> HIDE DEF S
<1>2. u \in T /\ Locals(path, rel, fs, rels, fds, n) \in T
  BY <1>1 DEF Locals
<1>3. v \in T
  BY <1>1 DEF Locals, BelowOf
<1>4. /\ v.path = u.path /\ v.rel = u.rel /\ v.fs = u.fs /\ v.rels = u.rels
      /\ v.fds = u.fds /\ v.n = u.n /\ v.status = u.status
  BY DEF Locals, BelowOf
<1> HIDE DEF v, u
<1>5. v = u
  BY <1>2, <1>3, <1>4, SameLocals
<1> QED
  BY <1>5 DEF v, u

EnteringOf(w, p, r, f, g, e, k) ==
  [w EXCEPT !.path = p, !.rels = g, !.rel = r, !.fs = f, !.fds = e, !.n = k]
LEMMA EnteringIs ==
  ASSUME NEW path, NEW rel, NEW fs, NEW rels, NEW fds, NEW n, NEW p, NEW r, NEW f, NEW g, NEW e, NEW k
  PROVE  EnteringOf(Locals(path, rel, fs, rels, fds, n), p, r, f, g, e, k) = Locals(p, r, f, g, e, k)
<1> DEFINE S == {path, rel, fs, rels, fds, n, "found", p, r, f, g, e, k}
           T == [path : S, rel : S, fs : S, rels : S, fds : S, n : S, status : S]
           v == EnteringOf(Locals(path, rel, fs, rels, fds, n), p, r, f, g, e, k)
           u == Locals(p, r, f, g, e, k)
<1>1. /\ path \in S /\ rel \in S /\ fs \in S /\ rels \in S /\ fds \in S /\ n \in S /\ "found" \in S
      /\ p \in S /\ r \in S /\ f \in S /\ g \in S /\ e \in S /\ k \in S
  OBVIOUS
<1> HIDE DEF S
<1>2. u \in T /\ Locals(path, rel, fs, rels, fds, n) \in T
  BY <1>1 DEF Locals
<1>3. v \in T
  BY <1>1 DEF Locals, EnteringOf
<1>4. /\ v.path = u.path /\ v.rel = u.rel /\ v.fs = u.fs /\ v.rels = u.rels
      /\ v.fds = u.fds /\ v.n = u.n /\ v.status = u.status
  BY DEF Locals, EnteringOf
<1> HIDE DEF v, u
<1>5. v = u
  BY <1>2, <1>3, <1>4, SameLocals
<1> QED
  BY <1>5 DEF v, u

HigherOf(w, p, r, e, k) ==
  [[w EXCEPT !.path = p, !.fds = e, !.n = k] EXCEPT !.rel = r]
LEMMA HigherIs ==
  ASSUME NEW path, NEW rel, NEW fs, NEW rels, NEW fds, NEW n, NEW p, NEW r, NEW e, NEW k
  PROVE  HigherOf(Locals(path, rel, fs, rels, fds, n), p, r, e, k) = Locals(p, r, fs, rels, e, k)
<1> DEFINE S == {path, rel, fs, rels, fds, n, "found", p, r, e, k}
           T == [path : S, rel : S, fs : S, rels : S, fds : S, n : S, status : S]
           v == HigherOf(Locals(path, rel, fs, rels, fds, n), p, r, e, k)
           u == Locals(p, r, fs, rels, e, k)
<1>1. /\ path \in S /\ rel \in S /\ fs \in S /\ rels \in S /\ fds \in S /\ n \in S /\ "found" \in S
      /\ p \in S /\ r \in S /\ e \in S /\ k \in S
  OBVIOUS
<1> HIDE DEF S
<1>2. u \in T /\ Locals(path, rel, fs, rels, fds, n) \in T
  BY <1>1 DEF Locals
<1>3. v \in T
  BY <1>1 DEF Locals, HigherOf
<1>4. /\ v.path = u.path /\ v.rel = u.rel /\ v.fs = u.fs /\ v.rels = u.rels
      /\ v.fds = u.fds /\ v.n = u.n /\ v.status = u.status
  BY DEF Locals, HigherOf
<1> HIDE DEF v, u
<1>5. v = u
  BY <1>2, <1>3, <1>4, SameLocals
<1> QED
  BY <1>5 DEF v, u

LeavingOf(w, p, r, f, g, e, k, o) ==
  [[w EXCEPT !.path = p, !.fds = e, !.n = k]
     EXCEPT !.fs = f, !.rel = r, !.rels = g, !.n = o]
LEMMA LeavingIs ==
  ASSUME NEW path, NEW rel, NEW fs, NEW rels, NEW fds, NEW n, NEW p, NEW r, NEW f, NEW g, NEW e, NEW k, NEW o
  PROVE  LeavingOf(Locals(path, rel, fs, rels, fds, n), p, r, f, g, e, k, o) = Locals(p, r, f, g, e, o)
<1> DEFINE S == {path, rel, fs, rels, fds, n, "found", p, r, f, g, e, k, o}
           T == [path : S, rel : S, fs : S, rels : S, fds : S, n : S, status : S]
           v == LeavingOf(Locals(path, rel, fs, rels, fds, n), p, r, f, g, e, k, o)
           u == Locals(p, r, f, g, e, o)
<1>1. /\ path \in S /\ rel \in S /\ fs \in S /\ rels \in S /\ fds \in S /\ n \in S /\ "found" \in S
      /\ p \in S /\ r \in S /\ f \in S /\ g \in S /\ e \in S /\ k \in S /\ o \in S
  OBVIOUS
<1> HIDE DEF S
<1>2. u \in T /\ Locals(path, rel, fs, rels, fds, n) \in T
  BY <1>1 DEF Locals
<1>3. v \in T
  BY <1>1 DEF Locals, LeavingOf
<1>4. /\ v.path = u.path /\ v.rel = u.rel /\ v.fs = u.fs /\ v.rels = u.rels
      /\ v.fds = u.fds /\ v.n = u.n /\ v.status = u.status
  BY DEF Locals, LeavingOf
<1> HIDE DEF v, u
<1>5. v = u
  BY <1>2, <1>3, <1>4, SameLocals
<1> QED
  BY <1>5 DEF v, u

(* One level up, and one level down, from any place.                       *)
LEMMA UpFacts ==
  ASSUME NEW path, NEW rel, NEW fs, NEW rels, NEW fds, NEW n \in Int
  PROVE  LET w == Locals(path, rel, fs, rels, fds, n)
         IN /\ Walked(tree, pids, w, "..") = Up(w)
            /\ n > 1 => Up(w) = Locals(Parent(path), Parent(rel), fs, rels, Front(fds), n - 1)
            /\ n <= 1 /\ Len(fs) # 1
                 => Up(w) = Locals(Parent(path), Last(rels), Front(fs), Front(rels), Front(fds), 1)
            /\ n <= 1 /\ Len(fs) = 1 => Up(w).status = "undefined"
<1> DEFINE w == Locals(path, rel, fs, rels, fds, n)
<1>1. PICK p, f, g, h, r, l : p = Parent(path) /\ f = Front(fds) /\ g = Front(fs) /\ h = Front(rels)
                              /\ r = Parent(rel) /\ l = Last(rels)
  OBVIOUS
<1>2. n - 1 > 0 <=> n > 1
  OBVIOUS
<1>3. /\ w.path = path /\ w.rel = rel /\ w.fs = fs /\ w.fds = fds /\ w.rels = rels /\ w.n = n
  BY DEF Locals
<1>4. LET up == [w EXCEPT !.path = p, !.fds = f, !.n = n - 1]
      IN /\ up.n = n - 1 /\ up.rel = rel /\ up.fs = fs /\ up.rels = rels
         /\ [up EXCEPT !.status = "undefined"].status = "undefined"
  BY DEF Locals
<1>5. /\ n > 1 => Up(w) = Locals(p, r, fs, rels, f, n - 1)
      /\ n <= 1 /\ Len(fs) # 1 => Up(w) = Locals(p, l, g, h, f, 1)
      /\ n <= 1 /\ Len(fs) = 1 => Up(w).status = "undefined"
  <2>1. Up(w) = LET up == [w EXCEPT !.path = p, !.fds = f, !.n = n - 1]
                IN IF n > 1 THEN [up EXCEPT !.rel = r]
                   ELSE IF Len(fs) = 1 THEN [up EXCEPT !.status = "undefined"]
                   ELSE [up EXCEPT !.fs = g, !.rel = l, !.rels = h, !.n = 1]
    <3> HIDE DEF w
    <3> QED
      BY <1>1, <1>2, <1>3, <1>4 DEF Up
  <2>2. PICK k, one : k = n - 1 /\ one = 1
    OBVIOUS
  <2>3. HigherOf(w, p, r, f, k) = Locals(p, r, fs, rels, f, k)
    BY HigherIs
  <2>4. LeavingOf(w, p, l, g, h, f, k, one) = Locals(p, l, g, h, f, one)
    BY LeavingIs
  <2> HIDE DEF w
  <2> QED
    BY <1>4, <2>1, <2>2, <2>3, <2>4 DEF HigherOf, LeavingOf
<1>6. Walked(tree, pids, w, "..") = Up(w)
  BY DEF Walked, Locals
<1> QED
  BY <1>1, <1>5, <1>6

Found(fs, fds, c) ==
  IF Last(fs) = "fat" THEN FatFileExists(tree, Last(fds), c) ELSE ProcFileExists(pids, Last(fds), c)

LEMMA DownFacts ==
  ASSUME NEW path, NEW rel, NEW fs, NEW rels, NEW fds, NEW n \in Int, NEW c \in Ordinary
  PROVE  LET w == Locals(path, rel, fs, rels, fds, n)
             to == Walked(tree, pids, w, c)
         IN /\ Joined(path, c) = Mount
                 => to = Locals(Mount, <<>>, Append(fs, "proc"), Append(rels, rel), Append(fds, <<>>), 1)
            /\ Joined(path, c) # Mount /\ Found(fs, fds, c) = {} => to.status = "missing"
            /\ \A fd : Joined(path, c) # Mount /\ Found(fs, fds, c) = {fd}
                 => to = Locals(Joined(path, c), Joined(rel, c), fs, rels, Append(fds, fd), n + 1)
<1> DEFINE w == Locals(path, rel, fs, rels, fds, n)
<1>1. PICK q, r, found : q = Joined(path, c) /\ r = Joined(rel, c) /\ found = Found(fs, fds, c)
  OBVIOUS
<1>2. c # ".." /\ c # "."
  BY Distinguish
<1>3. Walked(tree, pids, w, c) = Down(tree, pids, w, c)
  BY <1>2 DEF Walked, Locals
<1>4. /\ w.path = path /\ w.rel = rel /\ w.fs = fs /\ w.fds = fds /\ w.rels = rels /\ w.n = n
      /\ w.status = "found"
  BY DEF Locals
<1>5. Down(tree, pids, w, c)
        = IF q = Mount THEN Mounted(w)
          ELSE IF found = {} THEN [w EXCEPT !.status = "missing"]
          ELSE [w EXCEPT !.path = q, !.rel = r, !.fds = Append(fds, CHOOSE fd \in found : TRUE), !.n = n + 1]
  BY <1>1, <1>2, <1>4 DEF Down, Found
<1>6. q = Mount
        => Mounted(w) = Locals(Mount, <<>>, Append(fs, "proc"), Append(rels, rel), Append(fds, <<>>), 1)
  <2>1. PICK a, b, d, m, none, one :
          /\ a = Append(fs, "proc") /\ b = Append(rels, rel) /\ d = Append(fds, <<>>) /\ m = Mount
          /\ none = <<>> /\ one = 1
    OBVIOUS
  <2>2. EnteringOf(w, m, none, a, b, d, one) = Locals(m, none, a, b, d, one)
    BY EnteringIs
  <2> HIDE DEF w
  <2>3. Mounted(w) = EnteringOf(w, m, none, a, b, d, one)
    BY <1>4, <2>1 DEF Mounted, EnteringOf
  <2> QED
    BY <2>1, <2>2, <2>3
<1>7. [w EXCEPT !.status = "missing"].status = "missing"
  BY DEF Locals
<1>8. ASSUME NEW fd, found = {fd}
      PROVE  [w EXCEPT !.path = q, !.rel = r, !.fds = Append(fds, CHOOSE x \in found : TRUE), !.n = n + 1]
               = Locals(q, r, fs, rels, Append(fds, fd), n + 1)
  <2>1. (CHOOSE x \in found : TRUE) = fd
    BY <1>8
  <2>2. PICK e, k : e = Append(fds, fd) /\ k = n + 1
    OBVIOUS
  <2>3. BelowOf(w, q, r, e, k) = Locals(q, r, fs, rels, e, k)
    BY BelowIs
  <2> HIDE DEF w
  <2> QED
    BY <2>1, <2>2, <2>3 DEF BelowOf
<1>9. \A fd : found = {fd} => found # {}
  OBVIOUS
<1> HIDE DEF w
<1>10. /\ q = Mount
            => Down(tree, pids, w, c)
                 = Locals(Mount, <<>>, Append(fs, "proc"), Append(rels, rel), Append(fds, <<>>), 1)
       /\ q # Mount /\ found = {} => Down(tree, pids, w, c).status = "missing"
       /\ \A fd : q # Mount /\ found = {fd}
            => Down(tree, pids, w, c) = Locals(q, r, fs, rels, Append(fds, fd), n + 1)
  BY <1>5, <1>6, <1>7, <1>8, <1>9
<1> QED
  BY <1>1, <1>3, <1>10 DEF w

(* One level up on the disk.                                               *)
LEMMA UpOnDisk ==
  ASSUME NEW p, OnDisk(p)
  PROVE  Agree(Walked(tree, pids, StandOnDisk(p), ".."), Stepped(p, ".."))
<1> DEFINE fds == [j \in 1 .. Len(p) + 1 |-> Prefix(p, j - 1)]
           w == StandOnDisk(p)
<1>1. /\ p \in Seq(Ordinary) /\ Len(p) \in Nat /\ (p # <<>> => Len(p) > 0) /\ (p = <<>> => Len(p) = 0)
      /\ \A i \in 1 .. Len(p) : p[i] \in Ordinary
  BY LenProperties, EmptySeq DEF OnDisk
<1>2. p # Above /\ p # Nowhere
  BY Distinguish
<1>3. w = Locals(p, p, <<"fat">>, <<>>, fds, Len(p) + 1) /\ Len(p) + 1 \in Int
  BY <1>1 DEF StandOnDisk
<1>a. /\ Walked(tree, pids, w, "..") = Up(w)
      /\ Len(p) + 1 > 1 => Up(w) = Locals(Parent(p), Parent(p), <<"fat">>, <<>>, Front(fds), Len(p) + 1 - 1)
      /\ Len(p) + 1 <= 1 /\ Len(<<"fat">>) = 1 => Up(w).status = "undefined"
  BY <1>3, UpFacts
<1>4. CASE p = <<>>
  <2>1. Stepped(p, "..") = Above
    BY <1>2, <1>4 DEF Stepped, Resolved
  <2>2. Up(w).status = "undefined"
    BY <1>1, <1>4, <1>a
  <2> QED
    BY <1>a, <2>1, <2>2 DEF Agree
<1>5. CASE p # <<>>
  <2> DEFINE q == Front(p)
  <2>1. Stepped(p, "..") = q
    BY <1>2, <1>5 DEF Stepped, Resolved
  <2>2. q \in Seq(Ordinary) /\ Len(q) = Len(p) - 1 /\ \A i \in 1 .. Len(p) - 1 : q[i] = p[i]
    BY <1>1, <1>5, FrontFacts
  <2>3. OnDisk(q)
    <3>1. q # <<>> => Len(q) > 0
      BY <2>2, EmptySeq, LenProperties
    <3> QED
      BY <1>1, <1>5, <2>2, <3>1 DEF OnDisk
  <2>4. Front(fds) = [j \in 1 .. Len(q) + 1 |-> Prefix(q, j - 1)]
    <3>1. /\ Len(fds) = Len(p) + 1 /\ \A j \in 1 .. Len(p) + 1 : fds[j] = Prefix(p, j - 1)
      BY <1>1
    <3>2. Front(fds) = [j \in 1 .. Len(p) |-> fds[j]]
      BY <1>1, <3>1 DEF Front
    <3>3. \A j \in 1 .. Len(p) : Prefix(q, j - 1) = Prefix(p, j - 1)
      BY <1>1, <1>5, PrefixFacts
    <3>4. \A j \in 1 .. Len(p) : fds[j] = Prefix(q, j - 1)
      BY <1>1, <3>1, <3>3
    <3>5. Len(q) + 1 = Len(p)
      BY <1>1, <2>2
    <3> HIDE DEF fds, q
    <3> QED
      BY <3>2, <3>4, <3>5
  <2>5. Parent(p) = q
    BY <1>5 DEF Parent
  <2>6. Up(w) = Locals(q, q, <<"fat">>, <<>>, Front(fds), Len(p))
    BY <1>1, <1>5, <1>a, <2>5
  <2> HIDE DEF q, fds, w
  <2>7. Up(w) = StandOnDisk(q)
    <3>1. Len(q) + 1 = Len(p)
      BY <1>1, <2>2
    <3> QED
      BY <2>4, <2>6, <3>1 DEF StandOnDisk
  <2> QED
    BY <1>a, <2>1, <2>3, <2>7 DEF Agree, w
<1> QED
  BY <1>4, <1>5

(* One level up in procfs; from its root the walk is back on the disk.     *)
LEMMA UpInProcfs ==
  ASSUME NEW p, InProcfs(p)
  PROVE  Agree(Walked(tree, pids, StandInProcfs(p), ".."), Stepped(p, ".."))
<1> DEFINE w == StandInProcfs(p)
<1>1. p # <<>> /\ p[1] = "procfs" /\ "procfs" # ".." /\ "procfs" # ""
  BY Distinguish
<1>2. p # Above /\ p # Nowhere /\ p # <<>>
  BY <1>1, Distinguish
<1>3. Stepped(p, "..") = Front(p)
  BY <1>2 DEF Stepped, Resolved
<1>4. CASE p = Mount
  <2>1. Front(p) = <<>> /\ Parent(p) = <<>> /\ Tail(p) = <<>> /\ Len(p) = 1
    BY <1>4, OneElement, TwoElements, ThreeElements DEF Parent, Mount
  <2>2. w = Locals(Mount, <<>>, <<"fat", "proc">>, << <<>> >>, << <<>>, <<>> >>, 1)
    BY <1>4, <2>1 DEF StandInProcfs
  <2>3. /\ Front(<<"fat", "proc">>) = <<"fat">> /\ Len(<<"fat", "proc">>) = 2
        /\ Front(<< <<>>, <<>> >>) = << <<>> >>
        /\ Last(<< <<>> >>) = <<>> /\ Front(<< <<>> >>) = <<>>
    BY OneElement, TwoElements, ThreeElements
  <2>4. /\ Walked(tree, pids, w, "..") = Up(w)
        /\ 1 <= 1 /\ Len(<<"fat", "proc">>) # 1
             => Up(w) = Locals(Parent(Mount), Last(<< <<>> >>), Front(<<"fat", "proc">>), Front(<< <<>> >>),
                               Front(<< <<>>, <<>> >>), 1)
    BY <2>2, UpFacts
  <2>5. Up(w) = Locals(<<>>, <<>>, <<"fat">>, <<>>, << <<>> >>, 1)
    BY <1>4, <2>1, <2>3, <2>4
  <2>6. StandOnDisk(<<>>) = Locals(<<>>, <<>>, <<"fat">>, <<>>, << <<>> >>, 1) /\ OnDisk(<<>>)
    <3>1. [j \in 1 .. Len(<<>>) + 1 |-> Prefix(<<>>, j - 1)] = << <<>> >>
      BY DEF Prefix
    <3> QED
      BY <3>1 DEF StandOnDisk, OnDisk
  <2> QED
    BY <1>3, <2>1, <2>4, <2>5, <2>6 DEF Agree
<1>5. ASSUME NEW q \in Ordinary, p = <<"procfs", q>>
      PROVE  Agree(Walked(tree, pids, w, ".."), Front(p))
  <2>1. Front(p) = Mount /\ Tail(p) = <<q>> /\ Len(p) = 2 /\ p # Mount
    BY <1>5, OneElement, TwoElements, ThreeElements DEF Mount
  <2>2. Parent(p) = Mount /\ Parent(<<q>>) = <<>>
    BY <1>1, <2>1, OneElement, TwoElements, ThreeElements DEF Parent
  <2>3. w = Locals(p, <<q>>, <<"fat", "proc">>, << <<>> >>, << <<>>, <<>>, <<q>> >>, 2)
    BY <2>1 DEF StandInProcfs
  <2>4. /\ Walked(tree, pids, w, "..") = Up(w)
        /\ 2 > 1 => Up(w) = Locals(Parent(p), Parent(<<q>>), <<"fat", "proc">>, << <<>> >>,
                                   Front(<< <<>>, <<>>, <<q>> >>), 2 - 1)
    BY <2>3, UpFacts
  <2>5. Front(<< <<>>, <<>>, <<q>> >>) = << <<>>, <<>> >>
    BY Zenon, ThreeElements
  <2>6. Up(w) = Locals(Mount, <<>>, <<"fat", "proc">>, << <<>> >>, << <<>>, <<>> >>, 1)
    BY <2>2, <2>4, <2>5
  <2>7. Tail(Mount) = <<>> /\ Len(Mount) = 1
    BY OneElement, TwoElements, ThreeElements DEF Mount
  <2>8. Up(w) = StandInProcfs(Mount)
    BY <2>6, <2>7 DEF StandInProcfs
  <2> QED
    BY <2>1, <2>4, <2>8 DEF Agree, InProcfs
<1> QED
  BY <1>3, <1>4, <1>5 DEF InProcfs

(* One level down on the disk, or onto the mount point.                    *)
LEMMA DownOnDisk ==
  ASSUME Uncovered, NEW p, OnDisk(p), NEW c \in Ordinary
  PROVE  Agree(Walked(tree, pids, StandOnDisk(p), c), Stepped(p, c))
<1> DEFINE fds == [j \in 1 .. Len(p) + 1 |-> Prefix(p, j - 1)]
           w == StandOnDisk(p)
           q == Append(p, c)
           to == Walked(tree, pids, w, c)
<1>1. /\ p \in Seq(Ordinary) /\ Len(p) \in Nat /\ (p # <<>> => Len(p) > 0) /\ (p = <<>> => Len(p) = 0)
      /\ \A i \in 1 .. Len(p) : p[i] \in Ordinary
  BY LenProperties, EmptySeq DEF OnDisk
<1>2. p # Above /\ p # Nowhere /\ c \notin {"..", ".", "", "tasklist"}
  BY Distinguish
<1>3. /\ Joined(p, c) = q /\ q \in Seq(Ordinary) /\ q # <<>> /\ q # Above /\ q # Nowhere
      /\ (p # <<>> => q[1] = p[1]) /\ (p = <<>> => q = <<c>>)
  BY <1>1, BelowFacts
<1>4. w = Locals(p, p, <<"fat">>, <<>>, fds, Len(p) + 1) /\ Len(p) + 1 \in Int
  BY <1>1 DEF StandOnDisk
<1>5. Stepped(p, c) = IF Exists(tree, pids, q) THEN q ELSE Nowhere
  BY <1>2 DEF Stepped, Resolved
<1>6. /\ q = Mount
           => to = Locals(Mount, <<>>, Append(<<"fat">>, "proc"), Append(<<>>, p), Append(fds, <<>>), 1)
      /\ q # Mount /\ Found(<<"fat">>, fds, c) = {} => to.status = "missing"
      /\ q # Mount /\ Found(<<"fat">>, fds, c) = {q}
           => to = Locals(q, q, <<"fat">>, <<>>, Append(fds, q), Len(p) + 1 + 1)
  <2>1. PICK n, fat, none : n = Len(p) + 1 /\ fat = <<"fat">> /\ none = <<>>
    OBVIOUS
  <2>2. Joined(p, c) = q /\ w = Locals(p, p, fat, none, fds, n) /\ n \in Int
    BY <1>3, <1>4, <2>1
  <2> HIDE DEF q, w, fds
  <2>3. /\ q = Mount => to = Locals(Mount, <<>>, Append(fat, "proc"), Append(none, p), Append(fds, <<>>), 1)
        /\ q # Mount /\ Found(fat, fds, c) = {} => to.status = "missing"
        /\ q # Mount /\ Found(fat, fds, c) = {q} => to = Locals(q, q, fat, none, Append(fds, q), n + 1)
    BY <2>2, DownFacts
  <2> QED
    BY <2>1, <2>3
<1>7. Len(q) = Len(p) + 1
  BY <1>1, AppendProperties
<1>8. CASE q = Mount
  <2>1. p = <<>>
    BY <1>1, <1>7, <1>8 DEF Mount
  <2>2. fds = << <<>> >>
    BY <2>1 DEF Prefix
  <2>3. /\ Append(<<"fat">>, "proc") = <<"fat", "proc">> /\ Append(<<>>, <<>>) = << <<>> >>
        /\ Append(<< <<>> >>, <<>>) = << <<>>, <<>> >>
    BY OneElement, TwoElements, ThreeElements
  <2>4. to = Locals(Mount, <<>>, <<"fat", "proc">>, << <<>> >>, << <<>>, <<>> >>, 1)
    BY <1>6, <1>8, <2>1, <2>2, <2>3
  <2>5. Tail(Mount) = <<>> /\ Len(Mount) = 1
    BY OneElement, TwoElements, ThreeElements DEF Mount
  <2>6. to = StandInProcfs(Mount)
    BY <2>4, <2>5 DEF StandInProcfs
  <2>7. Stepped(p, c) = Mount
    BY <1>5, <1>8 DEF Exists
  <2> QED
    BY <2>6, <2>7 DEF Agree, InProcfs
<1>9. CASE q # Mount
  <2>1. q[1] # "procfs"
    <3>1. CASE p = <<>>
      BY <1>3, <1>9, <3>1 DEF Mount
    <3>2. CASE p # <<>>
      BY <1>3, <3>2 DEF OnDisk
    <3> QED
      BY <3>1, <3>2
  <2>2. Exists(tree, pids, q) <=> q \in tree
    <3>1. \A r : Append(Mount, r)[1] = "procfs"
      BY DEF Mount
    <3> QED
      BY <1>3, <1>9, <2>1, <3>1 DEF Exists
  <2>3. /\ Len(fds) = Len(p) + 1 /\ Last(fds) = p /\ Last(<<"fat">>) = "fat"
        /\ \A j \in 1 .. Len(p) + 1 : fds[j] = Prefix(p, j - 1)
    <3>1. Prefix(p, Len(p)) = p
      BY <1>1, PrefixFacts
    <3> QED
      BY <1>1, <3>1 DEF Last
  <2>4. Found(<<"fat">>, fds, c) = {q} \cap tree
    BY <1>2, <2>3 DEF Found, FatFileExists
  <2>5. CASE q \notin tree
    <3>1. to.status = "missing"
      BY <1>6, <1>9, <2>4, <2>5
    <3> QED
      BY <1>5, <2>2, <2>5, <3>1 DEF Agree
  <2>6. CASE q \in tree
    <3>1. to = Locals(q, q, <<"fat">>, <<>>, Append(fds, q), Len(p) + 1 + 1)
      BY <1>6, <1>9, <2>4, <2>6
    <3>2. Append(fds, q) = [j \in 1 .. Len(q) + 1 |-> Prefix(q, j - 1)]
      <4>1. \A k \in 0 .. Len(p) : Prefix(q, k) = Prefix(p, k)
        BY <1>1, PrefixFacts
      <4>2. Prefix(q, Len(q)) = q
        BY <1>3, PrefixFacts
      <4>3. Append(fds, q) = [j \in 1 .. Len(p) + 2 |-> IF j = Len(p) + 2 THEN q ELSE fds[j]]
        BY <1>1, <2>3
      <4> HIDE DEF fds, q
      <4>4. \A j \in 1 .. Len(p) + 1 : fds[j] = Prefix(q, j - 1)
        BY <1>1, <2>3, <4>1
      <4> QED
        BY <1>1, <1>7, <4>2, <4>3, <4>4
    <3> HIDE DEF fds, q, to
    <3>3. to = StandOnDisk(q)
      <4>1. Len(q) + 1 = Len(p) + 1 + 1
        BY <1>7
      <4> QED
        BY <3>1, <3>2, <4>1 DEF StandOnDisk
    <3>4. OnDisk(q)
      BY <1>3, <2>1 DEF OnDisk
    <3> QED
      BY <1>5, <2>2, <2>6, <3>3, <3>4 DEF Agree, to
  <2> QED
    BY <2>5, <2>6
<1> QED
  BY <1>8, <1>9

(* One level down in procfs: its root has the processes, and they nothing. *)
LEMMA DownInProcfs ==
  ASSUME Uncovered, NEW p, InProcfs(p), NEW c \in Ordinary
  PROVE  Agree(Walked(tree, pids, StandInProcfs(p), c), Stepped(p, c))
<1> DEFINE w == StandInProcfs(p)
           q == Append(p, c)
           to == Walked(tree, pids, w, c)
<1>1. p # <<>> /\ p[1] = "procfs" /\ "procfs" # ".." /\ "procfs" # ""
  BY Distinguish
<1>2. p # Above /\ p # Nowhere /\ c \notin {"..", ".", "", "tasklist"}
  BY <1>1, Distinguish
<1>3. Stepped(p, c) = IF Exists(tree, pids, q) THEN q ELSE Nowhere
  BY <1>2 DEF Stepped, Resolved
<1>4. q \notin tree
  <2>1. q # <<>> /\ q[1] = "procfs"
    BY DEF InProcfs, Mount
  <2>2. \E n : n = Len(p) /\ n \in Nat \ {0} /\ Len(q) = n + 1
    BY DEF InProcfs, Mount
  <2>3. Len(Mount) = 1
    BY Distinguish
  <2>4. q # Mount
    BY <2>2, <2>3
  <2> QED
    BY <2>1, <2>4 DEF Uncovered
<1>5. Last(<<"fat", "proc">>) = "proc"
  BY Zenon, TwoElements
<1>6. CASE p = Mount
  <2>1. q = <<"procfs", c>> /\ Len(q) = 2 /\ Tail(q) = <<c>> /\ q # Mount
    <3>1. /\ Append(<<"procfs">>, c) = <<"procfs", c>> /\ Len(<<"procfs", c>>) = 2
          /\ Tail(<<"procfs", c>>) = <<c>> /\ Len(<<"procfs">>) = 1
      BY Zenon, OneElement, TwoElements
    <3>2. q = <<"procfs", c>>
      BY <1>6, <3>1 DEF Mount
    <3>3. Len(Mount) = 1
      BY Distinguish
    <3> HIDE DEF q
    <3> QED
      BY <3>1, <3>2, <3>3
  <2>2. Joined(p, c) = q /\ Joined(<<>>, c) = <<c>>
    <3>1. Last(p) = "procfs"
      BY <1>6, OneElement, TwoElements, ThreeElements DEF Mount
    <3> QED
      BY <1>1, <3>1, OneElement, TwoElements, ThreeElements DEF Joined
  <2>3. Exists(tree, pids, q) <=> c \in pids
    <3>1. ASSUME NEW r, Append(Mount, r) = q
          PROVE  r = c
      <4>1. Append(Mount, r) = <<"procfs", r>>
        BY OneElement, TwoElements, ThreeElements DEF Mount
      <4>2. <<"procfs", r>>[2] = <<"procfs", c>>[2]
        BY <2>1, <3>1, <4>1
      <4> QED
        BY <4>2
    <3>2. Append(Mount, c) = q
      BY <1>6
    <3>3. q # <<>> /\ q # Mount
      BY <2>1
    <3> HIDE DEF q
    <3> QED
      BY <1>4, <3>1, <3>2, <3>3 DEF Exists
  <2>4. w = Locals(p, <<>>, <<"fat", "proc">>, << <<>> >>, << <<>>, <<>> >>, 1)
    <3>1. Tail(p) = <<>> /\ Len(p) = 1
      BY <1>6, OneElement, TwoElements, ThreeElements DEF Mount
    <3> QED
      BY <1>6, <3>1 DEF StandInProcfs
  <2>5. Found(<<"fat", "proc">>, << <<>>, <<>> >>, c) = {<<r>> : r \in {c} \cap pids}
    <3>1. Last(<< <<>>, <<>> >>) = <<>>
      BY OneElement, TwoElements, ThreeElements
    <3> QED
      BY <1>2, <1>5, <3>1 DEF Found, ProcFileExists
  <2>6. /\ Found(<<"fat", "proc">>, << <<>>, <<>> >>, c) = {} => to.status = "missing"
        /\ Found(<<"fat", "proc">>, << <<>>, <<>> >>, c) = {<<c>>}
             => to = Locals(q, <<c>>, <<"fat", "proc">>, << <<>> >>, Append(<< <<>>, <<>> >>, <<c>>), 1 + 1)
    BY <2>1, <2>2, <2>4, DownFacts
  <2>7. CASE c \notin pids
    <3>1. to.status = "missing"
      BY <2>5, <2>6, <2>7
    <3> QED
      BY <1>3, <2>3, <2>7, <3>1 DEF Agree
  <2>8. CASE c \in pids
    <3>1. to = Locals(q, <<c>>, <<"fat", "proc">>, << <<>> >>, Append(<< <<>>, <<>> >>, <<c>>), 1 + 1)
      BY <2>5, <2>6, <2>8
    <3>2. Append(<< <<>>, <<>> >>, <<c>>) = << <<>>, <<>>, <<c>> >>
      BY Zenon, ThreeElements
    <3> HIDE DEF q, to
    <3>3. to = StandInProcfs(q)
      <4>1. PICK t, two, l : t = <<c>> /\ two = Len(q) /\ l = << <<>>, <<>>, t >>
        OBVIOUS
      <4>2. StandInProcfs(q)
              = Locals(q, t, <<"fat", "proc">>, << <<>> >>, l, two)
        BY <2>1, <4>1 DEF StandInProcfs
      <4>3. two = 1 + 1 /\ Append(<< <<>>, <<>> >>, <<c>>) = l
        BY <2>1, <3>2, <4>1
      <4>4. to = Locals(q, t, <<"fat", "proc">>, << <<>> >>, l, two)
        BY <3>1, <4>1, <4>3
      <4> QED
        BY <4>2, <4>4
    <3>4. InProcfs(q)
      BY <2>1 DEF InProcfs
    <3> QED
      BY <1>3, <2>3, <2>8, <3>3, <3>4 DEF Agree, to
  <2> QED
    BY <2>7, <2>8
<1>7. ASSUME NEW r \in Ordinary, p = <<"procfs", r>>
      PROVE  Agree(to, Stepped(p, c))
  <2>1. q = <<"procfs", r, c>> /\ Last(p) = r /\ Len(p) = 2 /\ Tail(p) = <<r>> /\ p # Mount
    <3>1. Append(<<"procfs", r>>, c) = <<"procfs", r, c>>
      BY Zenon, ThreeElements
    <3>2. Last(<<"procfs", r>>) = r /\ Len(<<"procfs", r>>) = 2 /\ Tail(<<"procfs", r>>) = <<r>>
      BY Zenon, TwoElements
    <3>3. Len(Mount) = 1
      BY Distinguish
    <3> QED
      BY <1>7, <3>1, <3>2, <3>3
  <2>2. Joined(p, c) = q
    BY <1>1, <2>1, Distinguish DEF Joined
  <2>3. q # Mount /\ q # <<>>
    BY <2>1 DEF Mount
  <2>4. ~Exists(tree, pids, q)
    <3>1. ASSUME NEW s PROVE Append(Mount, s) # q
      <4>1. Append(Mount, s) = <<"procfs", s>>
        BY OneElement, TwoElements, ThreeElements DEF Mount
      <4> QED
        BY <2>1, <4>1
    <3> HIDE DEF q
    <3> QED
      BY <1>4, <2>3, <3>1 DEF Exists
  <2>5. Found(<<"fat", "proc">>, << <<>>, <<>>, <<r>> >>, c) = {}
    <3>1. Last(<< <<>>, <<>>, <<r>> >>) = <<r>>
      BY Zenon, ThreeElements
    <3>2. PICK t, fs, fds : t = <<r>> /\ fs = <<"fat", "proc">> /\ fds = << <<>>, <<>>, <<r>> >>
      OBVIOUS
    <3>3. t # <<>>
      BY <3>2
    <3>4. Found(fs, fds, c) = {}
      BY <1>5, <3>1, <3>2, <3>3 DEF Found, ProcFileExists
    <3> QED
      BY <3>2, <3>4
  <2>6. w = Locals(p, <<r>>, <<"fat", "proc">>, << <<>> >>, << <<>>, <<>>, <<r>> >>, 2)
    BY <2>1 DEF StandInProcfs
  <2>7. to.status = "missing"
    BY <2>2, <2>3, <2>5, <2>6, DownFacts
  <2> QED
    BY <1>3, <2>4, <2>7 DEF Agree
<1> QED
  BY <1>6, <1>7 DEF InProcfs

LEMMA StepAgrees ==
  ASSUME Uncovered, NEW w, NEW p, Agree(w, p), NEW c \in Ordinary \cup {".."}
  PROVE  Agree(Walked(tree, pids, w, c), Stepped(p, c))
<1>1. CASE p = Above /\ w.status = "undefined"
  BY <1>1 DEF Agree, Walked, Stepped, Resolved
<1>2. CASE p = Nowhere /\ w.status = "missing"
  BY <1>2 DEF Agree, Walked, Stepped, Resolved
<1>3. CASE OnDisk(p) /\ w = StandOnDisk(p)
  BY <1>3, UpOnDisk, DownOnDisk
<1>4. CASE InProcfs(p) /\ w = StandInProcfs(p)
  BY <1>4, UpInProcfs, DownInProcfs
<1> QED
  BY <1>1, <1>2, <1>3, <1>4 DEF Agree

(* The stacks of File_Exists mean what the path says: along every path of  *)
(* names and "..", across the mount point of procfs and back, on every     *)
(* disk and for every table of processes, the walk ends in the file system *)
(* and at the place that the path leads to, misses what does not exist and *)
(* is undefined above C:\.                                                 *)
THEOREM WalkAgrees ==
  ASSUME Uncovered, NEW path \in Seq(Ordinary \cup {".."})
  PROVE  LET w == File_Exists(tree, pids, path)
             to == Resolve(tree, pids, path)
         IN /\ w.status = "undefined" <=> to = Above
            /\ w.status = "missing" <=> to = Nowhere
            /\ w.status = "found" => w.path = to
            /\ w.status = "found" => (Last(w.fs) = "proc" <=> to # <<>> /\ to[1] = "procfs")
<1> DEFINE n == Len(path)
           w == File_Exists(tree, pids, path)
           to == Resolve(tree, pids, path)
<1>1. n \in Nat /\ DOMAIN path = 1 .. n /\ \A k \in 1 .. n : path[k] \in Ordinary \cup {".."}
  BY LenProperties
<1> HIDE DEF n
<1>a. w = Walking!Fold(0, Start, path) /\ to = Resolving!Fold(0, <<>>, path)
  BY WalkIsFold, ResolveIsFold
<1>2. PICK v : /\ v[0] = Start /\ v[n] = Walking!Fold(0, Start, path)
              /\ \A k \in 0 .. n - 1 : v[k + 1] = WalkStep(0, v[k], path[k + 1])
  BY <1>1, <1>a, Walking!Unfolded
<1>3. PICK u : /\ u[0] = <<>> /\ u[n] = Resolving!Fold(0, <<>>, path)
              /\ \A k \in 0 .. n - 1 : u[k + 1] = ResolveStep(0, u[k], path[k + 1])
  BY <1>1, <1>a, Resolving!Unfolded
<1> DEFINE both == [k \in 0 .. n |-> <<v[k], u[k]>>]
<1>4. AgreeInv(0, 0, both[0])
  <2>1. OnDisk(<<>>) /\ StandOnDisk(<<>>).fds = << <<>> >>
    BY DEF OnDisk, StandOnDisk, Locals, Prefix
  <2>2. Start = StandOnDisk(<<>>)
    BY <2>1 DEF Start, StandOnDisk, Locals
  <2>3. both[0] = <<Start, <<>> >>
    BY <1>1, <1>2, <1>3
  <2> QED
    BY <2>1, <2>2, <2>3 DEF AgreeInv, Agree
<1>5. \A k \in 0 .. n - 1 : AgreeInv(0, k, both[k]) => AgreeInv(0, k + 1, both[k + 1])
  <2> SUFFICES ASSUME NEW k \in 0 .. n - 1, Agree(v[k], u[k])
               PROVE  Agree(v[k + 1], u[k + 1])
    <3>1. \A k \in 0 .. n - 1 : k \in 0 .. n /\ k + 1 \in 0 .. n
      BY <1>1
    <3>2. \A k \in 0 .. n - 1 : both[k] = <<v[k], u[k]>> /\ both[k + 1] = <<v[k + 1], u[k + 1]>>
      BY <3>1
    <3> HIDE DEF both
    <3> QED
      BY <3>2 DEF AgreeInv
  <2>1. v[k + 1] = WalkStep(0, v[k], path[k + 1]) /\ u[k + 1] = ResolveStep(0, u[k], path[k + 1])
    BY <1>2, <1>3
  <2>2. path[k + 1] \in Ordinary \cup {".."}
    BY <1>1
  <2>3. v[k + 1] = Walked(tree, pids, v[k], path[k + 1]) /\ u[k + 1] = Stepped(u[k], path[k + 1])
    BY <2>1 DEF WalkStep, ResolveStep, Given
  <2> QED
    BY <2>2, <2>3, StepAgrees
<1> HIDE DEF both
<1>6. \A k \in 0 .. n : AgreeInv(0, k, both[k])
  BY <1>1, <1>4, <1>5, Resolving!Steps
<1>7. Agree(w, to)
  <2>1. n \in 0 .. n
    BY <1>1
  <2>2. Agree(v[n], u[n])
    BY <1>6, <2>1 DEF AgreeInv, both
  <2> QED
    BY <1>2, <1>3, <2>2, WalkIsFold, ResolveIsFold
<1> HIDE DEF w, to
<1>8. /\ w.status = "undefined" <=> to = Above
      /\ w.status = "missing" <=> to = Nowhere
      /\ w.status = "found" => w.path = to
      /\ w.status = "found" => (Last(w.fs) = "proc" <=> to # <<>> /\ to[1] = "procfs")
  <2>1. CASE to = Above /\ w.status = "undefined"
    BY <2>1 DEF Above, Nowhere
  <2>2. CASE to = Nowhere /\ w.status = "missing"
    BY <2>2 DEF Above, Nowhere
  <2>3. CASE OnDisk(to) /\ w = StandOnDisk(to)
    <3>1. to # Above /\ to # Nowhere
      <4>1. to = <<>> \/ to[1] \in Ordinary
        BY <2>3, Distinguish
      <4> QED
        BY <4>1, Distinguish
    <3> QED
      BY <2>3, <3>1 DEF StandOnDisk, Locals, OnDisk, Last
  <2>4. CASE InProcfs(to) /\ w = StandInProcfs(to)
    <3>0. to # <<>> /\ to[1] = "procfs" /\ "procfs" # ".." /\ "procfs" # ""
      BY <2>4, Distinguish
    <3>1. to # Above /\ to # Nowhere /\ to # <<>> /\ to[1] = "procfs"
      BY <3>0, Distinguish
    <3> QED
      BY <2>4, <3>1 DEF StandInProcfs, Locals, Last
  <2> QED
    BY <1>7, <2>1, <2>2, <2>3, <2>4 DEF Agree
<1> QED
  BY <1>8 DEF w, to
=============================================================================
