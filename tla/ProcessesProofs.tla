--------------------------- MODULE ProcessesProofs ---------------------------
(***************************************************************************)
(* Theorems about Processes, for every set of threads, every tree of       *)
(* clones and every choice of the arrays passed to Wait_For.               *)
(***************************************************************************)
EXTENDS Processes, FiniteSetTheorems, TLAPS

USE ProcessesAssumption

(* A handle occurs in an array as often as a natural number says, and at   *)
(* least once exactly if it is an element of the array.                    *)
LEMMA OccurrencesType ==
  ASSUME NEW w \in Seq(Thread), NEW h
  PROVE  /\ Occurrences(w, h) \in Nat
         /\ Occurrences(w, h) > 0 <=> h \in {w[i] : i \in DOMAIN w}
<1> DEFINE S == {i \in DOMAIN w : w[i] = h}
<1>1. IsFiniteSet(DOMAIN w) BY FS_Interval, DOMAIN w = 1 .. Len(w), Len(w) \in Nat
<1>2. IsFiniteSet(S) BY <1>1, FS_Subset, S \subseteq DOMAIN w
<1>3. Cardinality(S) \in Nat BY <1>2, FS_CardinalityType
<1>4. Cardinality(S) = 0 <=> S = {} BY <1>2, FS_EmptySet
<1>5. S = {} <=> h \notin {w[i] : i \in DOMAIN w} OBVIOUS
<1> HIDE DEF S
<1>6. Cardinality(S) > 0 <=> h \in {w[i] : i \in DOMAIN w} BY <1>3, <1>4, <1>5
<1> QED BY <1>3, <1>6 DEF Occurrences, S

(* A thread that is being cloned has one cloner, which is in Clone, and    *)
(* waits until its entry in the process table exists.                      *)
CloneInProgress ==
  \A t \in Thread : pc[t] \in {"add", "start"} =>
    /\ child[t] \in Thread \ {Boot}
    /\ pc[child[t]] = "held"
    /\ Cloner[child[t]] = t
    /\ pc[t] = "start" /\ child[t] \in Process => pcb[child[t]] # None

(* Only processes have entries, of status Zombie after they ended.         *)
EntriesOfProcesses ==
  \A t \in Thread : pcb[t] # None =>
    /\ t \in Process
    /\ pc[t] = "ended" => pcb[t].status = "Zombie"

(* Which entries of the tables exist while a thread is cloned, runs and    *)
(* after it has ended.                                                     *)
Lifecycle ==
  /\ EntryWhileRunning
  /\ pc[Boot] \notin {"unborn", "held", "ended"}
  /\ CloneInProgress
  /\ EntriesOfProcesses

(* The arrays hold handles that Clone has returned.                        *)
KnownHandles ==
  \A t \in Thread : \A h \in Watched(t) : h \in Thread \ {Boot} /\ Known(h)

(* As long as a handle resolves, its list has the listener of a thread in  *)
(* Wait_For once for each time the handle is in the array.                 *)
Registered ==
  \A t \in Thread : pc[t] \in {"blocked", "collect"} =>
    \A h \in Watched(t) : h \in handles => listeners[h][t] = Occurrences(watch[t], h)

(* Where the listeners of the threads in a Wait_For are.                   *)
Listening ==
  KnownHandles /\ Registered /\ NoDanglingListener /\ NoLostWakeup /\ WokenByTheEnded

(* What a thread in Read_Exit_Code waits for.                              *)
Reading ==
  \A t \in Thread :
    /\ pc[t] \in {"fetch", "reap"} => reading[t] # None
    /\ reading[t] # None =>
         /\ <<t, reading[t]>> \in Readers
         /\ pc[t] \in {"register", "blocked", "collect", "fetch", "reap"}
         /\ pc[t] \in {"register", "blocked", "collect"} => watch[t] = <<reading[t]>>
         /\ pc[t] \in {"fetch", "reap"} => pc[reading[t]] = "ended"

(* The inductive invariant.                                                *)
ProcInv == TypeOK /\ Lifecycle /\ Listening /\ Reading

(* The initial state has the invariant.                                    *)
LEMMA ProcInit == Init => ProcInv
<1> SUFFICES ASSUME Init PROVE ProcInv
  OBVIOUS
<1> USE DEF Init
<1>1. TypeOK BY DEF TypeOK, Label, Result
<1>2. Lifecycle BY DEF Lifecycle, EntryWhileRunning, CloneInProgress, EntriesOfProcesses
<1>3. Listening
    BY DEF Listening, KnownHandles, Registered, NoDanglingListener, NoLostWakeup, WokenByTheEnded, Watched
<1>4. Reading BY DEF Reading
<1> QED BY <1>1, <1>2, <1>3, <1>4 DEF ProcInv

(* A step of a thread inside the kernel preserves the types: Collect never *)
(* takes a listener out of a list more often than it is in it.             *)
LEMMA KernelType ==
  ASSUME ProcInv, NEW t \in Thread, KernelStep(t)
  PROVE  TypeOK'
<1> USE DEF Move, tables, waiting
<1>0. TypeOK BY DEF ProcInv
<1>l. listeners \in [Thread -> [Thread -> Nat]] BY <1>0 DEF TypeOK
<1>s. semaphore \in [Thread -> Nat] BY <1>0 DEF TypeOK
<1>r. result \in [Thread -> Result] BY <1>0 DEF TypeOK
<1>p. pcb \in [Thread -> Entry \cup {None}] BY <1>0 DEF TypeOK
<1>w. watch[t] \in Seq(Thread) BY <1>0 DEF TypeOK
<1>c. \A h \in Thread : Occurrences(watch[t], h) \in Nat
  BY <1>w, OccurrencesType
<1>1. CASE AddProcess(t)
  <2> DEFINE e == [status |-> "Running", exit_code |-> Success]
  <2>1. e \in Entry BY DEF Entry
  <2> HIDE DEF e
  <2>2. pcb' = [pcb EXCEPT ![child[t]] = e] BY <1>1 DEF AddProcess, e
  <2>3. pcb' \in [Thread -> Entry \cup {None}] BY <1>0, <2>1, <2>2 DEF TypeOK
  <2>4. pc' \in [Thread -> Label] BY <1>0, <1>1 DEF TypeOK, Label, AddProcess
  <2> QED BY <1>0, <1>1, <2>3, <2>4 DEF TypeOK, AddProcess
<1>2. CASE AddThread(t) BY <1>0, <1>2 DEF AddThread, TypeOK, Label
<1>3. CASE Start(t)
  <2>1. pc' \in [Thread -> Label] BY <1>0, <1>3 DEF TypeOK, Label, Start
  <2>2. result' \in [Thread -> Result] BY <1>0, <1>3 DEF TypeOK, Result, Start
  <2>3. child' \in [Thread -> Thread \cup {None}] BY <1>0, <1>3 DEF TypeOK, Start
  <2> QED BY <1>0, <1>3, <2>1, <2>2, <2>3 DEF TypeOK, Start
<1>4. CASE Register(t)
  <2>1. listeners' \in [Thread -> [Thread -> Nat]]
    <3> DEFINE added(h) == listeners[h][t] + Occurrences(watch[t], h)
    <3>1. \A h \in Thread : added(h) \in Nat BY <1>l, <1>c
    <3>2. listeners' = [h \in Thread |-> [listeners[h] EXCEPT ![t] = added(h)]]
      BY <1>4 DEF Register
    <3> HIDE DEF added
    <3> QED BY <1>0, <3>1, <3>2 DEF TypeOK
  <2>2. pc' \in [Thread -> Label] BY <1>0, <1>4 DEF TypeOK, Label, Register
  <2>3. /\ notifier' \in [Thread -> Thread \cup {None}]
        /\ semaphore' \in [Thread -> Nat]
    BY <1>0, <1>4 DEF TypeOK, Register
  <2> QED BY <1>0, <1>4, <2>1, <2>2, <2>3 DEF TypeOK, Register
<1>5. CASE RollBack(t)
  <2>1. pc' \in [Thread -> Label] BY <1>0, <1>5 DEF TypeOK, Label, RollBack, Caller
  <2>2. watch' \in [Thread -> Seq(Thread)] BY <1>0, <1>5 DEF TypeOK, RollBack
  <2>3. \A i \in DOMAIN watch[t] : i - 1 \in Result /\ Len(watch[t]) \in Result
    BY <1>w DEF Result
  <2>4. PICK r \in Result : result' = [result EXCEPT ![t] = r] BY <1>5, <2>3 DEF RollBack
  <2>5. result' \in [Thread -> Result] BY <1>r, <2>4
  <2> QED BY <1>0, <1>5, <2>1, <2>2, <2>5 DEF TypeOK, RollBack
<1>6. CASE Wake(t)
  <2>1. pc' \in [Thread -> Label] BY <1>0, <1>6 DEF TypeOK, Label, Wake
  <2>2. semaphore' \in [Thread -> Nat] BY <1>s, <1>6 DEF Wake
  <2> QED BY <1>0, <1>6, <2>1, <2>2 DEF TypeOK, Wake
<1>7. CASE Collect(t)
  <2>1. ASSUME NEW h \in Thread, listeners[h][t] # 0, h # notifier[t]
        PROVE  listeners[h][t] - Occurrences(watch[t], h) \in Nat
    <3>1. pc[t] = "collect" BY <1>7 DEF Collect
    <3>2. listeners[h][t] > 0 BY <1>0, <2>1 DEF TypeOK
    <3>3. listeners[h][t] = Occurrences(watch[t], h)
      BY <3>1, <3>2 DEF ProcInv, Listening, Registered, NoDanglingListener
    <3> QED BY <1>c, <3>3
  <2>2. listeners' \in [Thread -> [Thread -> Nat]]
    BY <1>0, <1>7, <2>1 DEF TypeOK, Collect
  <2>3. pc' \in [Thread -> Label] BY <1>0, <1>7 DEF TypeOK, Label, Collect, Caller
  <2>4. /\ notifier' \in [Thread -> Thread \cup {None}]
        /\ semaphore' \in [Thread -> Nat]
        /\ watch' \in [Thread -> Seq(Thread)]
    BY <1>0, <1>7 DEF TypeOK, Collect
  <2>5. 255 \in Result /\ \A i \in DOMAIN watch[t] : i - 1 \in Result
    BY <1>w DEF Result
  <2>6. PICK r \in Result : result' = [result EXCEPT ![t] = r] BY <1>7, <2>5 DEF Collect
  <2>7. result' \in [Thread -> Result] BY <1>r, <2>6
  <2> QED BY <1>0, <1>7, <2>2, <2>3, <2>4, <2>7 DEF TypeOK, Collect
<1>8. CASE Fetch(t) BY <1>0, <1>8 DEF Fetch, TypeOK, Label
<1>9. CASE Reap(t)
  <2>1. pc' \in [Thread -> Label] BY <1>0, <1>9 DEF TypeOK, Label, Reap
  <2>2. pcb' \in [Thread -> Entry \cup {None}] BY <1>0, <1>9 DEF TypeOK, Reap
  <2>3. /\ reading' \in [Thread -> Thread \cup {None}]
        /\ found' \in [Thread -> BOOLEAN]
    BY <1>0, <1>9 DEF TypeOK, Reap
  <2>4. result' \in [Thread -> Result]
    <3>1. \A h \in Thread : pcb[h] # None => pcb[h].exit_code \in Code
      BY <1>p DEF Entry
    <3>2. reading[t] \in Thread BY <1>9 DEF Reap, ProcInv, Reading
    <3>3. PICK r \in Code \cup {Unknown} : result' = [result EXCEPT ![t] = r]
      BY <1>9, <3>1, <3>2 DEF Reap
    <3> QED BY <1>r, <3>3 DEF Result
  <2> QED BY <1>0, <1>9, <2>1, <2>2, <2>3, <2>4 DEF TypeOK, Reap
<1> QED BY <1>1, <1>2, <1>3, <1>4, <1>5, <1>6, <1>7, <1>8, <1>9 DEF KernelStep

(* So does a call of a program and its return.                             *)
LEMMA UserType ==
  ASSUME TypeOK, NEW t \in Thread, UserStep(t)
  PROVE  TypeOK'
<1> USE DEF Move, tables, waiting
<1>r. None \in Result BY DEF Result
<1>1. ASSUME NEW c \in Thread, Clone(t, c) PROVE TypeOK'
  BY <1>1, <1>r DEF Clone, TypeOK, Label
<1>2. ASSUME NEW w, WaitFor(t, w) PROVE TypeOK'
  <2>1. w \in Seq(Thread) BY <1>2 DEF WaitFor
  <2>2. watch' \in [Thread -> Seq(Thread)] BY <1>2, <2>1 DEF WaitFor, TypeOK
  <2>3. pc' \in [Thread -> Label] BY <1>2 DEF WaitFor, TypeOK, Label
  <2> QED BY <1>2, <1>r, <2>2, <2>3 DEF WaitFor, TypeOK
<1>3. ASSUME NEW c \in Code, Exit(t, c) PROVE TypeOK'
  BY <1>3, <1>r DEF Exit, TypeOK, Entry
<1>4. ASSUME NEW h \in Thread, ReadExitCode(t, h) PROVE TypeOK'
  <2>1. watch' \in [Thread -> Seq(Thread)] BY <1>4 DEF ReadExitCode, TypeOK
  <2>2. pc' \in [Thread -> Label] BY <1>4 DEF ReadExitCode, TypeOK, Label
  <2> QED BY <1>4, <1>r, <2>1, <2>2 DEF ReadExitCode, TypeOK
<1>5. CASE ThreadPostExecute(t)
  <2> USE <1>5 DEF ThreadPostExecute
  <2>1. pc' \in [Thread -> Label] BY DEF TypeOK, Label
  <2>2. pcb' \in [Thread -> Entry \cup {None}] BY DEF TypeOK, Entry
  <2>3. listeners' \in [Thread -> [Thread -> Nat]] BY DEF TypeOK
  <2>4. semaphore' \in [Thread -> Nat] BY DEF TypeOK
  <2>5. notifier' \in [Thread -> Thread \cup {None}] BY DEF TypeOK
  <2>6. parents' \in [Thread -> Thread \cup {None}] BY DEF TypeOK
  <2>7. result' \in [Thread -> Result] BY <1>r DEF TypeOK
  <2> QED BY <2>1, <2>2, <2>3, <2>4, <2>5, <2>6, <2>7 DEF TypeOK
<1> QED BY <1>1, <1>2, <1>3, <1>4, <1>5 DEF UserStep

(* Every step preserves the types.                                         *)
LEMMA TypeStep == ProcInv /\ [Next]_vars => TypeOK'
<1> SUFFICES ASSUME ProcInv, [Next]_vars PROVE TypeOK'
  OBVIOUS
<1>1. TypeOK BY DEF ProcInv
<1>2. ASSUME NEW t \in Thread, KernelStep(t) PROVE TypeOK'
  BY <1>2, KernelType
<1>3. ASSUME NEW t \in Thread, UserStep(t) PROVE TypeOK'
  BY <1>1, <1>3, UserType
<1>4. CASE UNCHANGED vars BY <1>1, <1>4 DEF vars, tables, waiting, TypeOK
<1> QED BY <1>2, <1>3, <1>4 DEF Next

(* The steps of Wait_For and Read_Exit_Code that leave the tables alone    *)
(* move a thread from one label of a running thread to another.            *)
LEMMA CallLife ==
  ASSUME TypeOK, Lifecycle, NEW t \in Thread,
         UNCHANGED <<child, tables>>,
         NEW from \in Label \ {"unborn", "held", "ended", "add", "start"},
         NEW to \in Label \ {"unborn", "held", "ended", "add", "start"},
         Move(t, from, to)
  PROVE  Lifecycle'
BY DEF TypeOK, Lifecycle, EntryWhileRunning, CloneInProgress, EntriesOfProcesses, Move,
       tables

(* A step inside the kernel preserves the order of a thread's life.        *)
LEMMA KernelLife ==
  ASSUME TypeOK, Lifecycle, NEW t \in Thread, KernelStep(t),
         pc[t] = "reap" => pc[reading[t]] = "ended"
  PROVE  Lifecycle'
<1> USE DEF Label
<1>0. /\ EntryWhileRunning /\ CloneInProgress /\ EntriesOfProcesses
      /\ pc[Boot] \notin {"unborn", "held", "ended"}
  BY DEF Lifecycle
<1>1. CASE AddProcess(t)
  <2> USE <1>1 DEF AddProcess, Move, tables
  <2> DEFINE e == [status |-> "Running", exit_code |-> Success]
  <2>1. /\ child[t] \in Process /\ pc[child[t]] = "held"
        /\ child[t] \in Thread /\ child[t] # Boot /\ child[t] # t
    BY <1>0 DEF CloneInProgress
  <2>2. \A u \in Thread : pcb'[u] = IF u = child[t] THEN e ELSE pcb[u]
    BY DEF TypeOK
  <2>3. e \in Entry BY DEF Entry
  <2>4. e # None BY <2>3, NoneAssumption
  <2> HIDE DEF e
  <2>5. \A u \in Thread : pc'[u] = IF u = t THEN "start" ELSE pc[u]
    BY DEF TypeOK
  <2>6. EntryWhileRunning' BY <1>0, <2>1, <2>2, <2>4, <2>5 DEF EntryWhileRunning
  <2>7. CloneInProgress' BY <1>0, <2>1, <2>2, <2>4, <2>5 DEF CloneInProgress
  <2>8. EntriesOfProcesses' BY <1>0, <2>1, <2>2, <2>4, <2>5 DEF EntriesOfProcesses
  <2> QED BY <1>0, <2>5, <2>6, <2>7, <2>8 DEF Lifecycle
<1>2. CASE AddThread(t)
  <2> USE <1>2 DEF AddThread, Move, tables
  <2>1. /\ child[t] \notin Process /\ pc[child[t]] = "held"
        /\ child[t] \in Thread /\ child[t] # Boot /\ child[t] # t
    BY <1>0 DEF CloneInProgress
  <2>2. \A u \in Thread : pc'[u] = IF u = t THEN "start" ELSE pc[u]
    BY DEF TypeOK
  <2>3. \A u \in Thread : parents'[u] # None => u = child[t] \/ parents[u] # None
    BY DEF TypeOK
  <2>4. EntryWhileRunning' BY <1>0, <2>1, <2>2, <2>3 DEF EntryWhileRunning
  <2>5. CloneInProgress' BY <1>0, <2>1, <2>2 DEF CloneInProgress
  <2>6. EntriesOfProcesses' BY <1>0, <2>1, <2>2 DEF EntriesOfProcesses
  <2> QED BY <1>0, <2>2, <2>4, <2>5, <2>6 DEF Lifecycle
<1>3. CASE Start(t)
  <2>0. /\ pc[t] = "start"
        /\ handles' = handles /\ pcb' = pcb /\ parents' = parents
    BY <1>3 DEF Start, tables
  <2>1. /\ pc[child[t]] = "held" /\ child[t] \in Thread
        /\ child[t] # Boot /\ child[t] # t
        /\ child[t] \in Process => pcb[child[t]] # None
    BY <1>0, <2>0 DEF CloneInProgress
  <2>2. \A u \in Thread : pc'[u] = IF u \in {t, child[t]} THEN "user" ELSE pc[u]
    BY <1>3, <2>1 DEF Start, TypeOK
  <2>3. \A u \in Thread : u # t => child'[u] = child[u]
    BY <1>3 DEF Start, TypeOK
  <2>4. EntryWhileRunning' BY <1>0, <2>0, <2>1, <2>2 DEF EntryWhileRunning
  <2>5. CloneInProgress' BY <1>0, <2>0, <2>1, <2>2, <2>3 DEF CloneInProgress
  <2>6. EntriesOfProcesses' BY <1>0, <2>0, <2>1, <2>2 DEF EntriesOfProcesses
  <2> QED BY <1>0, <2>2, <2>4, <2>5, <2>6 DEF Lifecycle
<1>4. CASE Register(t)  BY <1>4, CallLife DEF Register
<1>5. CASE RollBack(t)  BY <1>5, CallLife DEF RollBack, Caller
<1>6. CASE Wake(t)      BY <1>6, CallLife DEF Wake
<1>7. CASE Collect(t)   BY <1>7, CallLife DEF Collect, Caller
<1>8. CASE Fetch(t)     BY <1>8, CallLife DEF Fetch
<1>9. CASE Reap(t)
  <2> USE <1>9 DEF Reap, Move
  <2>1. pc[reading[t]] = "ended" OBVIOUS
  <2>2. \A u \in Thread : pcb'[u] = pcb[u] \/ (u = reading[t] /\ pcb'[u] = None)
    BY DEF TypeOK
  <2>3. \A u \in Thread : pc'[u] = IF u = t THEN "user" ELSE pc[u]
    BY DEF TypeOK
  <2>4. EntryWhileRunning' BY <1>0, <2>1, <2>2, <2>3 DEF EntryWhileRunning
  <2>5. CloneInProgress'
    <3>1. \A u \in Thread : pc[u] \in {"add", "start"} => child[u] # reading[t]
      BY <1>0, <2>1 DEF CloneInProgress
    <3> QED BY <1>0, <2>2, <2>3, <3>1 DEF CloneInProgress
  <2>6. EntriesOfProcesses' BY <1>0, <2>2, <2>3 DEF EntriesOfProcesses
  <2> QED BY <1>0, <2>3, <2>4, <2>5, <2>6 DEF Lifecycle
<1> QED BY <1>1, <1>2, <1>3, <1>4, <1>5, <1>6, <1>7, <1>8, <1>9 DEF KernelStep

(* And so does a call of a program and its return.                         *)
LEMMA UserLife ==
  ASSUME TypeOK, Lifecycle, NEW t \in Thread, UserStep(t)
  PROVE  Lifecycle'
<1> USE DEF Label
<1>0. /\ EntryWhileRunning /\ CloneInProgress /\ EntriesOfProcesses
      /\ pc[Boot] \notin {"unborn", "held", "ended"}
  BY DEF Lifecycle
<1>1. ASSUME NEW c \in Thread, Clone(t, c) PROVE Lifecycle'
  <2>0. /\ c # Boot /\ Cloner[c] = t /\ pc[t] = "user" /\ pc[c] = "unborn"
        /\ handles' = handles \cup {c} /\ pcb' = pcb /\ parents' = parents
    BY <1>1 DEF Clone
  <2>1. \A u \in Thread :
          pc'[u] = IF u = c THEN "held" ELSE IF u = t THEN "add" ELSE pc[u]
    BY <1>1 DEF Clone, TypeOK
  <2>2. \A u \in Thread : child'[u] = IF u = t THEN c ELSE child[u]
    BY <1>1 DEF Clone, TypeOK
  <2>3. EntryWhileRunning' BY <1>0, <2>0, <2>1 DEF EntryWhileRunning
  <2>4. CloneInProgress' BY <1>0, <2>0, <2>1, <2>2 DEF CloneInProgress
  <2>5. EntriesOfProcesses' BY <1>0, <2>0, <2>1 DEF EntriesOfProcesses
  <2> QED BY <1>0, <2>0, <2>1, <2>3, <2>4, <2>5 DEF Lifecycle
<1>2. ASSUME NEW w, WaitFor(t, w) PROVE Lifecycle'
  BY <1>2, CallLife DEF WaitFor
<1>3. ASSUME NEW c \in Code, Exit(t, c) PROVE Lifecycle'
  <2> USE <1>3 DEF Exit, tables
  <2> DEFINE e == [status |-> "Zombie", exit_code |-> c]
  <2>1. \A u \in Thread : pcb'[u] = IF u = t THEN e ELSE pcb[u]
    BY DEF TypeOK
  <2>2. e \in Entry BY DEF Entry
  <2>3. e # None BY <2>2, NoneAssumption
  <2> HIDE DEF e
  <2>4. EntryWhileRunning' BY <1>0, <2>1, <2>3 DEF EntryWhileRunning
  <2>5. CloneInProgress' BY <1>0, <2>1, <2>3 DEF CloneInProgress
  <2>6. EntriesOfProcesses' BY <1>0, <2>1, <2>3 DEF EntriesOfProcesses
  <2> QED BY <1>0, <2>4, <2>5, <2>6 DEF Lifecycle
<1>4. ASSUME NEW h \in Thread, ReadExitCode(t, h) PROVE Lifecycle'
  BY <1>4, CallLife DEF ReadExitCode
<1>5. CASE ThreadPostExecute(t)
  <2> USE <1>5 DEF ThreadPostExecute, Move
  <2>1. \A u \in Thread : pc'[u] = IF u = t THEN "ended" ELSE pc[u]
    BY DEF TypeOK
  <2>2. \A u \in Thread : u # t => pcb'[u] = pcb[u]
    BY DEF TypeOK
  <2>3. pcb[t] = None => pcb'[t] = None BY DEF TypeOK
  <2>4. pcb[t] # None => t \in Process /\ pcb'[t].status = "Zombie"
    BY <1>0 DEF TypeOK, EntriesOfProcesses, Entry
  <2>5. \A u \in Thread : parents'[u] # None => u # t /\ parents[u] # None
    BY DEF TypeOK
  <2>6. EntryWhileRunning' BY <1>0, <2>1, <2>2, <2>5 DEF EntryWhileRunning
  <2>7. CloneInProgress'
    <3>1. \A u \in Thread : pc[u] \in {"add", "start"} => child[u] # t
      BY <1>0 DEF CloneInProgress
    <3> QED BY <1>0, <2>1, <2>2, <3>1 DEF CloneInProgress
  <2>8. EntriesOfProcesses' BY <1>0, <2>1, <2>2, <2>3, <2>4 DEF EntriesOfProcesses
  <2> QED BY <1>0, <2>1, <2>6, <2>7, <2>8 DEF Lifecycle
<1> QED BY <1>1, <1>2, <1>3, <1>4, <1>5 DEF UserStep

(* A step that leaves listeners, semaphores and every Wait_For alone.      *)
LEMMA QuietListening ==
  ASSUME TypeOK, Listening, UNCHANGED waiting,
         \A u \in Thread : pc'[u] # pc[u] =>
           /\ pc[u] \notin {"blocked", "collect", "ended"}
           /\ pc'[u] \notin {"blocked", "collect", "ended"}
           /\ Known(u) => Known(u)',
         \A u \in Thread : Known(u) => (u \in handles' <=> u \in handles)
  PROVE  Listening'
<1>1. /\ KnownHandles /\ Registered /\ NoDanglingListener
      /\ NoLostWakeup /\ WokenByTheEnded
  BY DEF Listening
<1>2. /\ listeners' = listeners /\ watch' = watch
      /\ notifier' = notifier /\ semaphore' = semaphore
  BY DEF waiting
<1>3. \A u \in Thread : Watched(u)' = Watched(u) BY <1>2 DEF Watched
<1>4. KnownHandles' BY <1>1, <1>3 DEF KnownHandles, Known
<1>5. Registered'
  <2> SUFFICES ASSUME NEW t \in Thread, (pc[t] \in {"blocked", "collect"})',
                      NEW h \in Watched(t)', (h \in handles)'
               PROVE  (listeners[h][t] = Occurrences(watch[t], h))'
    BY DEF Registered
  <2>1. pc[t] \in {"blocked", "collect"} OBVIOUS
  <2>2. h \in Watched(t) /\ h \in handles BY <1>1, <1>3 DEF KnownHandles
  <2>3. listeners[h][t] = Occurrences(watch[t], h) BY <1>1, <2>1, <2>2 DEF Registered
  <2> QED BY <1>2, <2>3 DEF Occurrences
<1>6. NoDanglingListener'
  <2> SUFFICES ASSUME NEW h \in Thread, NEW t \in Thread, listeners[h][t] > 0
               PROVE  /\ (pc[t] \in {"blocked", "collect"})'
                      /\ h \in Watched(t)' /\ (h \in handles)'
    BY <1>2 DEF NoDanglingListener
  <2>1. pc[t] \in {"blocked", "collect"} /\ h \in Watched(t) /\ h \in handles
    BY <1>1 DEF NoDanglingListener
  <2> QED BY <1>1, <1>3, <2>1 DEF KnownHandles
<1>7. NoLostWakeup' BY <1>1, <1>2, <1>3 DEF NoLostWakeup, KnownHandles
<1>8. WokenByTheEnded'
  <2> SUFFICES ASSUME NEW t \in Thread,
                      \/ (pc[t] = "collect")'
                      \/ (pc[t] = "blocked")' /\ semaphore[t] > 0
               PROVE  /\ notifier[t] \in Watched(t)'
                      /\ (pc[notifier[t]] = "ended")'
    BY <1>2 DEF WokenByTheEnded
  <2>1. notifier[t] \in Watched(t) /\ pc[notifier[t]] = "ended"
    BY <1>1 DEF WokenByTheEnded
  <2>2. notifier[t] \in Thread BY <1>1, <2>1 DEF KnownHandles
  <2> QED BY <1>2, <1>3, <2>1, <2>2
<1> QED BY <1>4, <1>5, <1>6, <1>7, <1>8 DEF Listening

(* A thread outside of the wait gets or gives up an array of handles.      *)
LEMMA ArrayListening ==
  ASSUME TypeOK, Listening, NEW t \in Thread, NEW w \in Seq(Thread \ {Boot}),
         UNCHANGED <<listeners, notifier, semaphore, handles>>,
         watch' = [watch EXCEPT ![t] = w],
         \A i \in DOMAIN w : Known(w[i]),
         pc[t] \in {"user", "register"},
         NEW to \in {"user", "register", "fetch"},
         pc' = [pc EXCEPT ![t] = to]
  PROVE  Listening'
<1>1. /\ KnownHandles /\ Registered /\ NoDanglingListener
      /\ NoLostWakeup /\ WokenByTheEnded
  BY DEF Listening
<1>2. \A u \in Thread : pc'[u] = IF u = t THEN to ELSE pc[u] BY DEF TypeOK
<1>3. \A u \in Thread : watch'[u] = IF u = t THEN w ELSE watch[u] BY DEF TypeOK
<1>4. \A u \in Thread \ {t} : Watched(u)' = Watched(u) BY <1>3 DEF Watched
<1>5. Watched(t)' = {w[i] : i \in DOMAIN w} BY <1>3 DEF Watched
<1>6. KnownHandles' BY <1>1, <1>2, <1>4, <1>5 DEF KnownHandles, Known
<1>7. Registered'
  <2> SUFFICES ASSUME NEW u \in Thread, (pc[u] \in {"blocked", "collect"})',
                      NEW h \in Watched(u)', (h \in handles)'
               PROVE  (listeners[h][u] = Occurrences(watch[u], h))'
    BY DEF Registered
  <2>1. u # t /\ pc[u] \in {"blocked", "collect"} BY <1>2
  <2>2. h \in Watched(u) /\ h \in handles BY <1>4, <2>1
  <2>3. listeners[h][u] = Occurrences(watch[u], h) BY <1>1, <2>1, <2>2 DEF Registered
  <2>4. watch'[u] = watch[u] BY <1>3, <2>1
  <2> QED BY <2>3, <2>4 DEF Occurrences
<1>8. \A h \in Thread : listeners[h][t] = 0
  <2>1. \A h \in Thread : listeners[h][t] \in Nat BY DEF TypeOK
  <2> QED BY <1>1, <2>1 DEF NoDanglingListener
<1>9. NoDanglingListener' BY <1>1, <1>2, <1>4, <1>8 DEF NoDanglingListener
<1>10. NoLostWakeup' BY <1>1, <1>2, <1>4 DEF NoLostWakeup
<1>11. WokenByTheEnded' BY <1>1, <1>2, <1>4 DEF WokenByTheEnded, KnownHandles
<1> QED BY <1>6, <1>7, <1>9, <1>10, <1>11 DEF Listening

(* Registering puts the listener into the lists of running threads only,   *)
(* and no list held it before.                                             *)
LEMMA RegisterListening ==
  ASSUME TypeOK, Listening, NEW t \in Thread, Register(t)
  PROVE  Listening'
<1>1. /\ KnownHandles /\ Registered /\ NoDanglingListener
      /\ NoLostWakeup /\ WokenByTheEnded
  BY DEF Listening
<1>2. /\ pc[t] = "register" /\ Watched(t) \subseteq handles
      /\ watch' = watch /\ handles' = handles
  BY DEF Register, Move, tables
<1>3. \A u \in Thread : pc'[u] = IF u = t THEN "blocked" ELSE pc[u]
  BY DEF Register, Move, TypeOK
<1>4. \A u \in Thread : /\ semaphore'[u] = IF u = t THEN 0 ELSE semaphore[u]
                        /\ u # t => notifier'[u] = notifier[u]
  BY DEF Register, TypeOK
<1>5. \A h, u \in Thread : u # t => listeners'[h][u] = listeners[h][u]
  BY DEF Register, TypeOK
<1>6. \A h \in Thread : listeners'[h][t] = Occurrences(watch[t], h)
  <2>1. \A h \in Thread : listeners[h][t] \in Nat BY DEF TypeOK
  <2>2. \A h \in Thread : listeners[h][t] = 0
    BY <1>1, <1>2, <2>1 DEF NoDanglingListener
  <2>3. \A h \in Thread : listeners'[h][t] = listeners[h][t] + Occurrences(watch[t], h)
    BY DEF Register, TypeOK
  <2>4. \A h \in Thread : Occurrences(watch[t], h) \in Nat
    BY OccurrencesType DEF TypeOK
  <2> QED BY <2>2, <2>3, <2>4
<1>7. \A h \in Thread : Occurrences(watch[t], h) > 0 <=> h \in Watched(t)
  BY OccurrencesType DEF TypeOK, Watched
<1>8. \A u \in Thread : Watched(u)' = Watched(u) BY <1>2 DEF Watched
<1>9. KnownHandles' BY <1>1, <1>2, <1>3, <1>8 DEF KnownHandles, Known
<1>10. Registered'
  <2> SUFFICES ASSUME NEW u \in Thread, (pc[u] \in {"blocked", "collect"})',
                      NEW h \in Watched(u)', (h \in handles)'
               PROVE  (listeners[h][u])' = Occurrences(watch[u], h)
    BY <1>2 DEF Registered, Occurrences
  <2>1. h \in Thread /\ h \in Watched(u) /\ h \in handles
    BY <1>1, <1>2, <1>8 DEF KnownHandles
  <2> QED BY <1>1, <1>3, <1>5, <1>6, <2>1 DEF Registered
<1>11. NoDanglingListener'
  BY <1>1, <1>2, <1>3, <1>5, <1>6, <1>7, <1>8 DEF NoDanglingListener
<1>12. NoLostWakeup'
  <2> SUFFICES ASSUME NEW u \in Thread, (pc[u] = "blocked" /\ semaphore[u] = 0)',
                      NEW h \in Watched(u)
               PROVE  h \in handles /\ listeners'[h][u] > 0
    BY <1>2, <1>8 DEF NoLostWakeup
  <2>1. h \in Thread BY <1>1 DEF KnownHandles
  <2> QED BY <1>1, <1>2, <1>3, <1>4, <1>5, <1>6, <1>7, <2>1 DEF NoLostWakeup
<1>13. WokenByTheEnded'
  <2> SUFFICES ASSUME NEW u \in Thread,
                      (pc[u] = "collect" \/ (pc[u] = "blocked" /\ semaphore[u] > 0))'
               PROVE  notifier'[u] \in Watched(u) /\ pc'[notifier'[u]] = "ended"
    BY <1>8 DEF WokenByTheEnded
  <2>1. u # t BY <1>3, <1>4
  <2>2. notifier[u] \in Watched(u) /\ pc[notifier[u]] = "ended"
    BY <1>1, <1>3, <1>4, <2>1 DEF WokenByTheEnded
  <2>3. notifier[u] \in Thread BY <1>1, <2>2 DEF KnownHandles
  <2> QED BY <1>2, <1>3, <1>4, <2>1, <2>2, <2>3
<1> QED BY <1>9, <1>10, <1>11, <1>12, <1>13 DEF Listening

(* Waking leaves the lists to Collect.                                     *)
LEMMA WakeListening ==
  ASSUME TypeOK, Listening, NEW t \in Thread, Wake(t)
  PROVE  Listening'
<1>1. /\ KnownHandles /\ Registered /\ NoDanglingListener
      /\ NoLostWakeup /\ WokenByTheEnded
  BY DEF Listening
<1>2. /\ pc[t] = "blocked" /\ semaphore[t] > 0
      /\ watch' = watch /\ handles' = handles
      /\ listeners' = listeners /\ notifier' = notifier
  BY DEF Wake, Move, tables
<1>3. \A u \in Thread : pc'[u] = IF u = t THEN "collect" ELSE pc[u]
  BY DEF Wake, Move, TypeOK
<1>4. \A u \in Thread : u # t => semaphore'[u] = semaphore[u]
  BY DEF Wake, TypeOK
<1>5. \A u \in Thread : Watched(u)' = Watched(u) BY <1>2 DEF Watched
<1>6. KnownHandles' BY <1>1, <1>2, <1>3, <1>5 DEF KnownHandles, Known
<1>7. Registered'
  <2> SUFFICES ASSUME NEW u \in Thread, (pc[u] \in {"blocked", "collect"})',
                      NEW h \in Watched(u)', (h \in handles)'
               PROVE  (listeners[h][u] = Occurrences(watch[u], h))'
    BY DEF Registered
  <2>1. listeners[h][u] = Occurrences(watch[u], h)
    BY <1>1, <1>2, <1>3, <1>5 DEF Registered
  <2> QED BY <1>2, <2>1 DEF Occurrences
<1>8. NoDanglingListener' BY <1>1, <1>2, <1>3, <1>5 DEF NoDanglingListener
<1>9. NoLostWakeup' BY <1>1, <1>2, <1>3, <1>4, <1>5 DEF NoLostWakeup
<1>10. WokenByTheEnded'
  <2> SUFFICES ASSUME NEW u \in Thread,
                      (pc[u] = "collect" \/ (pc[u] = "blocked" /\ semaphore[u] > 0))'
               PROVE  notifier[u] \in Watched(u) /\ pc'[notifier[u]] = "ended"
    BY <1>2, <1>5 DEF WokenByTheEnded
  <2>1. notifier[u] \in Watched(u) /\ pc[notifier[u]] = "ended"
    BY <1>1, <1>2, <1>3, <1>4 DEF WokenByTheEnded
  <2>2. notifier[u] \in Thread BY <1>1, <2>1 DEF KnownHandles
  <2> QED BY <1>2, <1>3, <2>1, <2>2
<1> QED BY <1>6, <1>7, <1>8, <1>9, <1>10 DEF Listening

(* Collect takes the listener out of every list before the call returns.   *)
LEMMA CollectListening ==
  ASSUME TypeOK, Lifecycle, Listening, NEW t \in Thread, Collect(t)
  PROVE  Listening'
<1>1. /\ KnownHandles /\ Registered /\ NoDanglingListener
      /\ NoLostWakeup /\ WokenByTheEnded /\ EntryWhileRunning
  BY DEF Listening, Lifecycle
<1>2. pc[t] = "collect" /\ handles' = handles
  BY DEF Collect, Move, tables
<1>3. \A u \in Thread : /\ u # t => pc'[u] = pc[u]
                        /\ pc'[t] \in {"user", "fetch"}
  BY DEF Collect, Move, Caller, TypeOK
<1>4. \A u \in Thread : u # t => /\ semaphore'[u] = semaphore[u]
                                 /\ notifier'[u] = notifier[u]
                                 /\ watch'[u] = watch[u]
  BY DEF Collect, TypeOK
<1>5. watch'[t] = <<>> BY DEF Collect, TypeOK
<1>6. \A h, u \in Thread : u # t => listeners'[h][u] = listeners[h][u]
  BY DEF Collect, TypeOK
<1>7. ASSUME NEW h \in Thread PROVE listeners'[h][t] = 0
  <2>1. listeners[h][t] \in Nat BY DEF TypeOK
  <2>2. listeners'[h][t] = IF h = notifier[t] \/ listeners[h][t] = 0
                           THEN listeners[h][t]
                           ELSE listeners[h][t] - Occurrences(watch[t], h)
    BY DEF Collect, TypeOK
  <2>3. CASE listeners[h][t] = 0 BY <2>2, <2>3
  <2>4. CASE listeners[h][t] > 0
    <3>1. h \in Watched(t) /\ h \in handles BY <1>1, <2>4 DEF NoDanglingListener
    <3>2. pc[notifier[t]] = "ended" BY <1>1, <1>2 DEF WokenByTheEnded
    <3>3. h # notifier[t] BY <1>1, <3>1, <3>2 DEF EntryWhileRunning, KnownHandles
    <3>4. listeners[h][t] = Occurrences(watch[t], h)
      BY <1>1, <1>2, <3>1 DEF Registered
    <3> QED BY <2>1, <2>2, <2>4, <3>3, <3>4
  <2> QED BY <2>1, <2>3, <2>4
<1>8. \A u \in Thread : u # t => Watched(u)' = Watched(u) BY <1>4 DEF Watched
<1>9. Watched(t)' = {} BY <1>5 DEF Watched
<1>10. KnownHandles'
  BY <1>1, <1>2, <1>3, <1>8, <1>9 DEF KnownHandles, Known
<1>11. Registered'
  <2> SUFFICES ASSUME NEW u \in Thread, (pc[u] \in {"blocked", "collect"})',
                      NEW h \in Watched(u)', (h \in handles)'
               PROVE  (listeners[h][u] = Occurrences(watch[u], h))'
    BY DEF Registered
  <2>1. u # t /\ pc[u] \in {"blocked", "collect"} BY <1>3
  <2>2. h \in Watched(u) /\ h \in handles BY <1>2, <1>8, <2>1
  <2>3. h \in Thread BY <1>1, <2>2 DEF KnownHandles
  <2>4. listeners[h][u] = Occurrences(watch[u], h) BY <1>1, <2>1, <2>2 DEF Registered
  <2>5. listeners'[h][u] = listeners[h][u] /\ watch'[u] = watch[u]
    BY <1>4, <1>6, <2>1, <2>3
  <2> QED BY <2>4, <2>5 DEF Occurrences
<1>12. NoDanglingListener'
  BY <1>1, <1>2, <1>3, <1>6, <1>7, <1>8 DEF NoDanglingListener
<1>13. NoLostWakeup'
  <2> SUFFICES ASSUME NEW u \in Thread, (pc[u] = "blocked" /\ semaphore[u] = 0)',
                      NEW h \in Watched(u)'
               PROVE  h \in handles /\ listeners'[h][u] > 0
    BY <1>2 DEF NoLostWakeup
  <2>1. u # t BY <1>3
  <2>2. h \in Watched(u) /\ h \in Thread BY <1>1, <1>8, <2>1 DEF KnownHandles
  <2> QED BY <1>1, <1>3, <1>4, <1>6, <2>1, <2>2 DEF NoLostWakeup
<1>14. WokenByTheEnded'
  <2> SUFFICES ASSUME NEW u \in Thread,
                      (pc[u] = "collect" \/ (pc[u] = "blocked" /\ semaphore[u] > 0))'
               PROVE  notifier'[u] \in Watched(u)' /\ pc'[notifier'[u]] = "ended"
    BY DEF WokenByTheEnded
  <2>1. u # t BY <1>3
  <2>2. notifier[u] \in Watched(u) /\ pc[notifier[u]] = "ended"
    BY <1>1, <1>3, <1>4, <2>1 DEF WokenByTheEnded
  <2>3. notifier[u] \in Thread BY <1>1, <2>2 DEF KnownHandles
  <2> QED BY <1>2, <1>3, <1>4, <1>8, <2>1, <2>2, <2>3
<1> QED BY <1>10, <1>11, <1>12, <1>13, <1>14 DEF Listening

(* The thread that ends notifies every listener in its list and clears it. *)
LEMMA EndListening ==
  ASSUME TypeOK, Lifecycle, Listening, NEW t \in Thread, ThreadPostExecute(t)
  PROVE  Listening'
<1>1. /\ KnownHandles /\ Registered /\ NoDanglingListener
      /\ NoLostWakeup /\ WokenByTheEnded /\ EntryWhileRunning
  BY DEF Listening, Lifecycle
<1>2. /\ pc[t] = "user" /\ watch' = watch /\ handles' = handles \ {t}
  BY DEF ThreadPostExecute, Move
<1>3. \A u \in Thread : pc'[u] = IF u = t THEN "ended" ELSE pc[u]
  BY DEF ThreadPostExecute, Move, TypeOK
<1>4. \A u \in Thread :
        /\ semaphore'[u] = semaphore[u] + listeners[t][u]
        /\ notifier'[u] = IF listeners[t][u] > 0 THEN t ELSE notifier[u]
  BY DEF ThreadPostExecute
<1>5. \A h, u \in Thread : listeners'[h][u] = IF h = t THEN 0 ELSE listeners[h][u]
  BY DEF ThreadPostExecute, TypeOK
<1>6. \A u \in Thread : semaphore[u] \in Nat /\ listeners[t][u] \in Nat
  BY DEF TypeOK
<1>7. \A u \in Thread : Watched(u)' = Watched(u) BY <1>2 DEF Watched
<1>8. KnownHandles' BY <1>1, <1>3, <1>7 DEF KnownHandles, Known
<1>9. Registered'
  <2> SUFFICES ASSUME NEW u \in Thread, (pc[u] \in {"blocked", "collect"})',
                      NEW h \in Watched(u)', (h \in handles)'
               PROVE  (listeners[h][u] = Occurrences(watch[u], h))'
    BY DEF Registered
  <2>1. h \in Watched(u) /\ h \in handles /\ h # t BY <1>2, <1>7
  <2>2. h \in Thread BY <1>1, <2>1 DEF KnownHandles
  <2>3. listeners'[h][u] = Occurrences(watch[u], h)
    BY <1>1, <1>3, <1>5, <2>1, <2>2 DEF Registered
  <2> QED BY <1>2, <2>3 DEF Occurrences
<1>10. NoDanglingListener'
  <2> SUFFICES ASSUME NEW h \in Thread, NEW u \in Thread, listeners'[h][u] > 0
               PROVE  /\ pc'[u] \in {"blocked", "collect"}
                      /\ h \in Watched(u) /\ h \in handles'
    BY <1>7 DEF NoDanglingListener
  <2>1. h # t /\ listeners[h][u] > 0 BY <1>5
  <2> QED BY <1>1, <1>2, <1>3, <2>1 DEF NoDanglingListener
<1>11. NoLostWakeup'
  <2> SUFFICES ASSUME NEW u \in Thread, (pc[u] = "blocked" /\ semaphore[u] = 0)',
                      NEW h \in Watched(u)
               PROVE  h \in handles' /\ listeners'[h][u] > 0
    BY <1>7 DEF NoLostWakeup
  <2>1. pc[u] = "blocked" /\ semaphore[u] = 0 /\ listeners[t][u] = 0
    BY <1>3, <1>4, <1>6
  <2>2. h \in handles /\ listeners[h][u] > 0 BY <1>1, <2>1 DEF NoLostWakeup
  <2>3. h # t /\ h \in Thread BY <1>1, <2>1, <2>2 DEF KnownHandles
  <2> QED BY <1>2, <1>5, <2>2, <2>3
<1>12. WokenByTheEnded'
  <2> SUFFICES ASSUME NEW u \in Thread,
                      (pc[u] = "collect" \/ (pc[u] = "blocked" /\ semaphore[u] > 0))'
               PROVE  notifier'[u] \in Watched(u) /\ pc'[notifier'[u]] = "ended"
    BY <1>7 DEF WokenByTheEnded
  <2>1. CASE listeners[t][u] > 0
    <3>1. t \in Watched(u) BY <1>1, <2>1 DEF NoDanglingListener
    <3> QED BY <1>3, <1>4, <2>1, <3>1
  <2>2. CASE listeners[t][u] = 0
    <3>1. pc[u] = "collect" \/ (pc[u] = "blocked" /\ semaphore[u] > 0)
      BY <1>3, <1>4, <1>6, <2>2
    <3>2. notifier[u] \in Watched(u) /\ pc[notifier[u]] = "ended"
      BY <1>1, <3>1 DEF WokenByTheEnded
    <3>3. notifier[u] \in Thread BY <1>1, <3>2 DEF KnownHandles
    <3> QED BY <1>2, <1>3, <1>4, <2>2, <3>2, <3>3
  <2> QED BY <1>6, <2>1, <2>2
<1> QED BY <1>8, <1>9, <1>10, <1>11, <1>12 DEF Listening

(* Every step keeps the listeners where the invariant says.                *)
LEMMA ListeningStep == ProcInv /\ [Next]_vars => Listening'
<1> SUFFICES ASSUME ProcInv, [Next]_vars PROVE Listening'
  OBVIOUS
<1>0. TypeOK /\ Lifecycle /\ Listening /\ Reading BY DEF ProcInv
<1>1. ASSUME NEW t \in Thread, KernelStep(t) PROVE Listening'
  <2>1. CASE AddProcess(t) \/ AddThread(t) \/ Fetch(t) \/ Reap(t)
    <3>1. UNCHANGED waiting /\ handles' = handles
      BY <2>1 DEF AddProcess, AddThread, Fetch, Reap, tables
    <3>2. /\ pc[t] \in {"add", "fetch", "reap"}
          /\ \A u \in Thread : u # t => pc'[u] = pc[u]
          /\ pc'[t] \in {"start", "reap", "user"}
      BY <1>0, <2>1 DEF AddProcess, AddThread, Fetch, Reap, Move, TypeOK
    <3> QED BY <1>0, <3>1, <3>2, QuietListening DEF Known
  <2>2. CASE Start(t)
    <3>1. UNCHANGED waiting /\ handles' = handles BY <2>2 DEF Start, tables
    <3>2. /\ pc[t] = "start" /\ child[t] \in Thread /\ pc[child[t]] = "held"
      BY <1>0, <2>2 DEF Start, Lifecycle, CloneInProgress
    <3>3. \A u \in Thread : pc'[u] = IF u \in {t, child[t]} THEN "user" ELSE pc[u]
      BY <1>0, <2>2, <3>2 DEF Start, TypeOK
    <3> QED BY <1>0, <3>1, <3>2, <3>3, QuietListening DEF Known
  <2>3. CASE Register(t) BY <1>0, <2>3, RegisterListening
  <2>4. CASE RollBack(t)
    <3>1. <<>> \in Seq(Thread \ {Boot}) /\ DOMAIN <<>> = {} OBVIOUS
    <3> QED BY <1>0, <2>4, <3>1, ArrayListening DEF RollBack, Move, Caller, tables
  <2>5. CASE Wake(t) BY <1>0, <2>5, WakeListening
  <2>6. CASE Collect(t) BY <1>0, <2>6, CollectListening
  <2> QED BY <1>1, <2>1, <2>2, <2>3, <2>4, <2>5, <2>6 DEF KernelStep
<1>2. ASSUME NEW t \in Thread, UserStep(t) PROVE Listening'
  <2>1. ASSUME NEW c \in Thread, Clone(t, c) PROVE Listening'
    <3>1. /\ UNCHANGED waiting /\ handles' = handles \cup {c}
          /\ pc[t] = "user" /\ pc[c] = "unborn"
      BY <2>1 DEF Clone
    <3>2. \A u \in Thread :
            pc'[u] = IF u = c THEN "held" ELSE IF u = t THEN "add" ELSE pc[u]
      BY <1>0, <2>1 DEF Clone, TypeOK
    <3> QED BY <1>0, <3>1, <3>2, QuietListening DEF Known
  <2>2. ASSUME NEW w, WaitFor(t, w) PROVE Listening'
    <3>1. w \in Seq(Thread \ {Boot}) BY <2>2 DEF WaitFor
    <3> QED BY <1>0, <2>2, <3>1, ArrayListening DEF WaitFor, Move, tables
  <2>3. ASSUME NEW c \in Code, Exit(t, c) PROVE Listening'
    BY <1>0, <2>3, QuietListening DEF Exit, Known
  <2>4. ASSUME NEW h \in Thread, ReadExitCode(t, h) PROVE Listening'
    <3>1. h \in Thread \ {Boot} /\ Known(h) BY <2>4 DEF ReadExitCode
    <3>2. CASE h \in handles
      <4>1. <<h>> \in Seq(Thread \ {Boot}) /\ DOMAIN <<h>> = {1} /\ <<h>>[1] = h
        BY <3>1
      <4>2. /\ watch' = [watch EXCEPT ![t] = <<h>>]
            /\ pc[t] = "user" /\ pc' = [pc EXCEPT ![t] = "register"]
            /\ UNCHANGED <<listeners, notifier, semaphore, handles>>
        BY <2>4, <3>2 DEF ReadExitCode, Move, tables
      <4>3. \A i \in DOMAIN <<h>> : Known(<<h>>[i]) BY <3>1, <4>1
      <4> QED BY <1>0, <4>1, <4>2, <4>3, ArrayListening
    <3>3. CASE h \notin handles
      <4>1. /\ UNCHANGED waiting /\ handles' = handles
            /\ pc[t] = "user" /\ pc'[t] = "fetch"
            /\ \A u \in Thread : u # t => pc'[u] = pc[u]
        BY <1>0, <2>4, <3>3 DEF ReadExitCode, waiting, tables, Move, TypeOK
      <4> QED BY <1>0, <4>1, QuietListening DEF Known
    <3> QED BY <3>2, <3>3
  <2>5. CASE ThreadPostExecute(t) BY <1>0, <2>5, EndListening
  <2> QED BY <1>2, <2>1, <2>2, <2>3, <2>4, <2>5 DEF UserStep
<1>3. CASE UNCHANGED vars BY <1>0, <1>3, QuietListening DEF vars, tables, Known
<1> QED BY <1>1, <1>2, <1>3 DEF Next

(* A thread gets to the process table only once the process it reads has   *)
(* ended.                                                                  *)
LEMMA ReadingStep == ProcInv /\ [Next]_vars => Reading'
<1> SUFFICES ASSUME ProcInv, [Next]_vars PROVE Reading'
  OBVIOUS
<1>0. /\ TypeOK /\ Lifecycle /\ Listening /\ Reading
      /\ EntryWhileRunning /\ KnownHandles /\ WokenByTheEnded
  BY DEF ProcInv, Lifecycle, Listening
<1>c. \A h \in Thread \ {Boot} : Known(h) /\ h \notin handles => pc[h] = "ended"
  BY <1>0 DEF EntryWhileRunning, Known
<1> DEFINE InCall == {"register", "blocked", "collect", "fetch", "reap"}
<1>1. ASSUME UNCHANGED <<watch, reading>>,
             \A u \in Thread : pc'[u] # pc[u] =>
               /\ pc[u] # "ended"
               /\ pc[u] \notin InCall /\ pc'[u] \notin InCall
      PROVE  Reading'
  BY <1>0, <1>1 DEF Reading
<1>2. ASSUME NEW t \in Thread, KernelStep(t) PROVE Reading'
  <2>1. CASE AddProcess(t) \/ AddThread(t)
    BY <1>0, <1>1, <2>1 DEF AddProcess, AddThread, Move, waiting, TypeOK
  <2>2. CASE Start(t)
    <3>1. pc[t] = "start" /\ child[t] \in Thread /\ pc[child[t]] = "held"
      BY <1>0, <2>2 DEF Start, Lifecycle, CloneInProgress
    <3>2. \A u \in Thread : pc'[u] = IF u \in {t, child[t]} THEN "user" ELSE pc[u]
      BY <1>0, <2>2, <3>1 DEF Start, TypeOK
    <3>3. UNCHANGED <<watch, reading>> BY <2>2 DEF Start, waiting
    <3> QED BY <1>1, <3>1, <3>2, <3>3
  <2>3. CASE Register(t) \/ Wake(t)
    <3>1. /\ UNCHANGED <<watch, reading>>
          /\ pc[t] \in {"register", "blocked"} /\ pc'[t] \in {"blocked", "collect"}
          /\ \A u \in Thread : u # t => pc'[u] = pc[u]
      BY <1>0, <2>3 DEF Register, Wake, Move, TypeOK
    <3> QED BY <1>0, <3>1 DEF Reading
  <2>4. CASE RollBack(t) \/ Collect(t)
    <3>1. /\ reading' = reading
          /\ \A u \in Thread : u # t => pc'[u] = pc[u] /\ watch'[u] = watch[u]
          /\ pc[t] \in {"register", "collect"} /\ pc'[t] = Caller(t)
      BY <1>0, <2>4 DEF RollBack, Collect, Move, TypeOK
    <3>2. \E h \in Watched(t) : pc[h] = "ended"
      <4>1. CASE RollBack(t)
        <5>1. PICK i \in DOMAIN watch[t] : watch[t][i] \notin handles
          BY <4>1 DEF RollBack, Invalid
        <5>2. watch[t][i] \in Watched(t) BY DEF Watched
        <5> QED BY <1>0, <1>c, <5>1, <5>2 DEF KnownHandles
      <4>2. CASE Collect(t)
        BY <1>0, <4>2 DEF Collect, Move, WokenByTheEnded
      <4> QED BY <2>4, <4>1, <4>2
    <3>3. reading[t] # None => pc[reading[t]] = "ended"
      <4> SUFFICES ASSUME reading[t] # None PROVE pc[reading[t]] = "ended"
        OBVIOUS
      <4>1. watch[t] = <<reading[t]>> BY <1>0, <3>1 DEF Reading
      <4>2. Watched(t) = {reading[t]} BY <4>1 DEF Watched
      <4> QED BY <3>2, <4>2
    <3>4. pc[t] # "ended" BY <3>1
    <3> QED BY <1>0, <3>1, <3>3, <3>4 DEF Reading, Caller
  <2>5. CASE Fetch(t)
    <3>1. /\ UNCHANGED <<watch, reading>>
          /\ pc[t] = "fetch" /\ pc'[t] = "reap"
          /\ \A u \in Thread : u # t => pc'[u] = pc[u]
      BY <1>0, <2>5 DEF Fetch, Move, waiting, TypeOK
    <3> QED BY <1>0, <3>1 DEF Reading
  <2>6. CASE Reap(t)
    <3>1. /\ watch' = watch /\ reading'[t] = None
          /\ \A u \in Thread : u # t => pc'[u] = pc[u] /\ reading'[u] = reading[u]
          /\ pc[t] = "reap" /\ pc'[t] = "user"
      BY <1>0, <2>6 DEF Reap, Move, waiting, TypeOK
    <3> QED BY <1>0, <3>1 DEF Reading
  <2> QED BY <1>2, <2>1, <2>2, <2>3, <2>4, <2>5, <2>6 DEF KernelStep
<1>3. ASSUME NEW t \in Thread, UserStep(t) PROVE Reading'
  <2>1. ASSUME NEW c \in Thread, Clone(t, c) PROVE Reading'
    <3>1. \A u \in Thread :
            pc'[u] = IF u = c THEN "held" ELSE IF u = t THEN "add" ELSE pc[u]
      BY <1>0, <2>1 DEF Clone, TypeOK
    <3>2. /\ UNCHANGED <<watch, reading>> /\ pc[t] = "user" /\ pc[c] = "unborn"
      BY <2>1 DEF Clone, waiting
    <3> QED BY <1>1, <3>1, <3>2
  <2>2. ASSUME NEW w, WaitFor(t, w) PROVE Reading'
    <3>1. /\ reading' = reading
          /\ \A u \in Thread : u # t => pc'[u] = pc[u] /\ watch'[u] = watch[u]
          /\ pc[t] = "user" /\ pc'[t] = "register"
      BY <1>0, <2>2 DEF WaitFor, Move, TypeOK
    <3> QED BY <1>0, <3>1 DEF Reading
  <2>3. ASSUME NEW c \in Code, Exit(t, c) PROVE Reading'
    BY <1>1, <2>3 DEF Exit, waiting
  <2>4. ASSUME NEW h \in Thread, ReadExitCode(t, h) PROVE Reading'
    <3>1. /\ <<t, h>> \in Readers /\ Known(h) /\ h \in Thread \ {Boot}
          /\ pc[t] = "user"
          /\ pc'[t] = IF h \in handles THEN "register" ELSE "fetch"
          /\ reading'[t] = h /\ (h \in handles => watch'[t] = <<h>>)
      BY <1>0, <2>4 DEF ReadExitCode, Move, TypeOK
    <3>2. \A u \in Thread : u # t =>
            pc'[u] = pc[u] /\ watch'[u] = watch[u] /\ reading'[u] = reading[u]
      BY <1>0, <2>4 DEF ReadExitCode, Move, TypeOK
    <3>3. h \notin handles => pc'[h] = "ended" BY <1>c, <3>1, <3>2
    <3> QED BY <1>0, <3>1, <3>2, <3>3 DEF Reading
  <2>5. CASE ThreadPostExecute(t)
    <3>1. /\ UNCHANGED <<watch, reading>> /\ pc[t] = "user"
          /\ \A u \in Thread : pc'[u] = IF u = t THEN "ended" ELSE pc[u]
      BY <1>0, <2>5 DEF ThreadPostExecute, Move, TypeOK
    <3> QED BY <1>1, <3>1
  <2> QED BY <1>3, <2>1, <2>2, <2>3, <2>4, <2>5 DEF UserStep
<1>4. CASE UNCHANGED vars BY <1>1, <1>4 DEF vars, waiting
<1> QED BY <1>2, <1>3, <1>4 DEF Next

(* The invariant of every behaviour.                                       *)
LEMMA ProcInvariant == Spec => []ProcInv
<1>1. ProcInv /\ [Next]_vars => ProcInv'
  <2> SUFFICES ASSUME ProcInv, [Next]_vars PROVE ProcInv'
    OBVIOUS
  <2>0. TypeOK /\ Lifecycle /\ Reading BY DEF ProcInv
  <2>1. TypeOK' BY TypeStep
  <2>2. Listening' BY ListeningStep
  <2>3. Reading' BY ReadingStep
  <2>4. Lifecycle'
    <3>1. ASSUME NEW t \in Thread, KernelStep(t) PROVE Lifecycle'
      BY <2>0, <3>1, KernelLife DEF Reading
    <3>2. ASSUME NEW t \in Thread, UserStep(t) PROVE Lifecycle'
      BY <2>0, <3>2, UserLife
    <3>3. CASE UNCHANGED vars
      BY <2>0, <3>3 DEF vars, tables, Lifecycle, EntryWhileRunning, CloneInProgress,
                        EntriesOfProcesses
    <3> QED BY <3>1, <3>2, <3>3 DEF Next
  <2> QED BY <2>1, <2>2, <2>3, <2>4 DEF ProcInv
<1> QED BY ProcInit, <1>1, PTL DEF Spec

(* The tables and the locals of the calls keep their types.                *)
THEOREM TypeCorrect == Spec => []TypeOK
<1>1. ProcInv => TypeOK BY DEF ProcInv
<1> QED BY <1>1, ProcInvariant, PTL

(* No list of listeners ever points at a listener whose Wait_For returned. *)
THEOREM NoListenerDangles == Spec => []NoDanglingListener
<1>1. ProcInv => NoDanglingListener BY DEF ProcInv, Listening
<1> QED BY <1>1, ProcInvariant, PTL

(* A Wait_For that nobody has notified waits for running threads only, and *)
(* each of them will notify it when it ends.                               *)
THEOREM WakeupsAreKept == Spec => []NoLostWakeup
<1>1. ProcInv => NoLostWakeup BY DEF ProcInv, Listening
<1> QED BY <1>1, ProcInvariant, PTL

(* A process has its entry in the table as long as it runs.                *)
THEOREM EntriesAreKept == Spec => []EntryWhileRunning
<1>1. ProcInv => EntryWhileRunning BY DEF ProcInv, Lifecycle
<1> QED BY <1>1, ProcInvariant, PTL

(* What a Wait_For that returns in this step returns.                      *)
Reported(t) ==
  \/ /\ result'[t] + 1 \in DOMAIN watch[t]
     /\ pc[watch[t][result'[t] + 1]] = "ended"
  \/ /\ result'[t] = Len(watch[t])
     /\ \E h \in Watched(t) : pc[h] = "ended" /\ pcb[h] = None

(* A Wait_For returns by RollBack or by Collect.                           *)
LEMMA ReturnsOfWaitFor ==
  ASSUME ProcInv, Next, NEW t \in Thread,
         pc[t] \in {"register", "collect"}, pc'[t] = "user"
  PROVE  RollBack(t) \/ Collect(t)
<1>0. TypeOK /\ CloneInProgress BY DEF ProcInv, Lifecycle
<1>1. ASSUME NEW u \in Thread, KernelStep(u) PROVE RollBack(t) \/ Collect(t)
  <2>1. CASE Start(u)
    <3>1. pc[u] = "start" /\ child[u] \in Thread /\ pc[child[u]] = "held"
      BY <1>0, <2>1 DEF Start, CloneInProgress
    <3>2. pc'[t] = pc[t] BY <1>0, <2>1, <3>1 DEF Start, TypeOK
    <3> QED BY <3>2
  <2>2. CASE RollBack(u) \/ Collect(u)
    <3>1. u # t => pc'[t] = pc[t] BY <1>0, <2>2 DEF RollBack, Collect, Move, TypeOK
    <3> QED BY <2>2, <3>1
  <2>3. CASE AddProcess(u) \/ AddThread(u) \/ Fetch(u)
    BY <1>0, <2>3 DEF AddProcess, AddThread, Fetch, Move, TypeOK
  <2>4. CASE Register(u) \/ Wake(u) \/ Reap(u)
    BY <1>0, <2>4 DEF Register, Wake, Reap, Move, TypeOK
  <2> QED BY <1>1, <2>1, <2>2, <2>3, <2>4 DEF KernelStep
<1>2. ASSUME NEW u \in Thread, UserStep(u) PROVE FALSE
  <2>1. ASSUME NEW c \in Thread, Clone(u, c) PROVE FALSE
    BY <1>0, <2>1 DEF Clone, TypeOK
  <2>2. ASSUME NEW w, WaitFor(u, w) PROVE FALSE
    BY <1>0, <2>2 DEF WaitFor, Move, TypeOK
  <2>3. ASSUME NEW c \in Code, Exit(u, c) PROVE FALSE
    BY <1>0, <2>3 DEF Exit, TypeOK
  <2>4. ASSUME NEW h \in Thread, ReadExitCode(u, h) PROVE FALSE
    BY <1>0, <2>4 DEF ReadExitCode, Move, TypeOK
  <2>5. CASE ThreadPostExecute(u)
    BY <1>0, <2>5 DEF ThreadPostExecute, Move, TypeOK
  <2> QED BY <1>2, <2>1, <2>2, <2>3, <2>4, <2>5 DEF UserStep
<1> QED BY <1>1, <1>2 DEF Next

(* Wait_For never reports a thread that is still running.                  *)
THEOREM WaitForReportsTheEnded == Spec => WaitForResult
<1>1. ASSUME ProcInv, Next, NEW t \in Thread,
             pc[t] \in {"register", "collect"}, pc'[t] = "user"
      PROVE  Reported(t)
  <2>0. /\ TypeOK /\ EntryWhileRunning /\ KnownHandles /\ WokenByTheEnded
        /\ watch[t] \in Seq(Thread)
    BY <1>1 DEF ProcInv, Lifecycle, Listening, TypeOK
  <2>1. CASE RollBack(t)
    <3>1. PICK i \in DOMAIN watch[t] :
            /\ watch[t][i] \notin handles
            /\ result' = [result EXCEPT ![t] =
                            IF pcb[watch[t][i]] # None THEN i - 1 ELSE Len(watch[t])]
      BY <2>1 DEF RollBack, Invalid
    <3>2. watch[t][i] \in Watched(t) BY DEF Watched
    <3>3. pc[watch[t][i]] = "ended"
      BY <2>0, <3>1, <3>2 DEF KnownHandles, EntryWhileRunning, Known
    <3>4. result'[t] = IF pcb[watch[t][i]] # None THEN i - 1 ELSE Len(watch[t])
      BY <2>0, <3>1 DEF TypeOK
    <3>5. i \in Nat /\ (i - 1) + 1 = i BY <2>0
    <3> QED BY <3>2, <3>3, <3>4, <3>5 DEF Reported
  <2>2. CASE Collect(t)
    <3>1. notifier[t] \in Watched(t) /\ pc[notifier[t]] = "ended"
      BY <2>0, <2>2 DEF Collect, Move, WokenByTheEnded
    <3>2. PICK i \in DOMAIN watch[t] :
            watch[t][i] = notifier[t] /\ result' = [result EXCEPT ![t] = i - 1]
      BY <2>2, <3>1 DEF Collect
    <3>3. result'[t] = i - 1 BY <2>0, <3>2 DEF TypeOK
    <3>4. i \in Nat /\ (i - 1) + 1 = i BY <2>0
    <3> QED BY <3>1, <3>2, <3>3, <3>4 DEF Reported
  <2> QED BY <1>1, <2>1, <2>2, ReturnsOfWaitFor
<1>2. ProcInv /\ [Next]_vars =>
        [\A t \in Thread :
           pc[t] \in {"register", "collect"} /\ pc'[t] = "user" => Reported(t)]_vars
  BY <1>1 DEF vars
<1> HIDE DEF ProcInv
<1>3. Spec => [][\A t \in Thread :
           pc[t] \in {"register", "collect"} /\ pc'[t] = "user" => Reported(t)]_vars
  BY <1>2, ProcInvariant, PTL DEF Spec
<1> QED BY <1>3 DEF WaitForResult, Reported

(* No step takes away the entry that a thread in Read_Exit_Code has found, *)
(* when no other thread reads that exit code.                              *)
LEMMA StaleStep ==
  ASSUME ProcInv, ProcInv', NoStaleEntry, Next
  PROVE  NoStaleEntry'
<1>0. /\ TypeOK /\ EntryWhileRunning /\ CloneInProgress /\ EntriesOfProcesses /\ Reading
  BY DEF ProcInv, Lifecycle
<1>1. \A t \in Thread : pc[t] = "reap" /\ found[t] /\ SoleReader(t) =>
        /\ reading[t] \in Thread /\ <<t, reading[t]>> \in Readers
        /\ pcb[reading[t]] # None /\ pcb[reading[t]].status = "Zombie"
        /\ pc[reading[t]] = "ended"
  BY <1>0 DEF Reading, NoStaleEntry
<1> SUFFICES ASSUME NEW t \in Thread, pc'[t] = "reap", found'[t],
                    \A u \in Thread : <<u, reading'[t]>> \in Readers => u = t
             PROVE  pcb'[reading'[t]] # None /\ pcb'[reading'[t]].status = "Zombie"
  BY DEF NoStaleEntry, SoleReader, ProcInv, Reading
<1> DEFINE Kept == /\ pc[t] = "reap" /\ found[t] /\ reading'[t] = reading[t]
                   /\ pcb'[reading[t]] = pcb[reading[t]]
<1>s. reading'[t] = reading[t] => SoleReader(t) BY DEF SoleReader
<1>2. Kept => pcb'[reading'[t]] # None /\ pcb'[reading'[t]].status = "Zombie"
  BY <1>1, <1>s
<1>3. ASSUME NEW u \in Thread, KernelStep(u)
      PROVE  pcb'[reading'[t]] # None /\ pcb'[reading'[t]].status = "Zombie"
  <2>1. CASE AddProcess(u)
    <3>1. pc[u] = "add" /\ child[u] \in Thread /\ pc[child[u]] = "held"
      BY <1>0, <2>1 DEF AddProcess, Move, CloneInProgress
    <3>2. pc[t] = "reap" /\ found' = found /\ reading' = reading
      BY <1>0, <2>1, <3>1 DEF AddProcess, Move, TypeOK
    <3>3. reading[t] # child[u] BY <1>1, <1>s, <3>1, <3>2
    <3>4. pcb'[reading[t]] = pcb[reading[t]]
      BY <1>0, <1>1, <1>s, <2>1, <3>2, <3>3 DEF AddProcess, TypeOK
    <3> QED BY <1>2, <3>2, <3>4
  <2>2. CASE Start(u)
    <3>1. pc[u] = "start" /\ child[u] \in Thread /\ pc[child[u]] = "held"
      BY <1>0, <2>2 DEF Start, CloneInProgress
    <3>2. \A v \in Thread : pc'[v] = IF v \in {u, child[u]} THEN "user" ELSE pc[v]
      BY <1>0, <2>2, <3>1 DEF Start, TypeOK
    <3>3. found' = found /\ reading' = reading /\ pcb' = pcb BY <2>2 DEF Start, tables
    <3>4. pc[t] = "reap" BY <3>2
    <3> QED BY <1>2, <3>3, <3>4
  <2>3. CASE AddThread(u) \/ Register(u) \/ Wake(u)
    <3>1. /\ pc'[u] \in {"start", "blocked", "collect"}
          /\ \A v \in Thread : v # u => pc'[v] = pc[v]
      BY <1>0, <2>3 DEF AddThread, Register, Wake, Move, TypeOK
    <3> QED BY <1>2, <2>3, <3>1 DEF AddThread, Register, Wake, tables
  <2>4. CASE RollBack(u) \/ Collect(u)
    <3>1. pc' = [pc EXCEPT ![u] = Caller(u)] BY <2>4 DEF RollBack, Collect, Move
    <3>2. /\ pc'[u] \in {"user", "fetch"}
          /\ \A v \in Thread : v # u => pc'[v] = pc[v]
      BY <1>0, <3>1 DEF Caller, TypeOK
    <3> QED BY <1>2, <2>4, <3>2 DEF RollBack, Collect, tables
  <2>5. CASE Fetch(u)
    <3>1. /\ pcb' = pcb /\ reading' = reading
          /\ \A v \in Thread : v # u => pc'[v] = pc[v] /\ found'[v] = found[v]
      BY <1>0, <2>5 DEF Fetch, Move, tables, TypeOK
    <3>2. CASE u # t BY <1>2, <3>1, <3>2
    <3>3. CASE u = t
      <4>1. pc[t] = "fetch" /\ pcb[reading[t]] # None
        BY <1>0, <2>5, <3>3 DEF Fetch, Move, TypeOK
      <4>2. reading[t] \in Thread /\ pc[reading[t]] = "ended"
        BY <1>0, <4>1 DEF Reading
      <4> QED BY <1>0, <3>1, <4>1, <4>2 DEF EntriesOfProcesses
    <3> QED BY <3>2, <3>3
  <2>6. CASE Reap(u)
    <3>1. /\ pc[u] = "reap" /\ pc'[u] = "user"
          /\ \A v \in Thread : v # u =>
               pc'[v] = pc[v] /\ found'[v] = found[v] /\ reading'[v] = reading[v]
      BY <1>0, <2>6 DEF Reap, Move, TypeOK
    <3>2. u # t BY <3>1
    <3>3. reading[u] \in Thread /\ <<u, reading[u]>> \in Readers
      BY <1>0, <3>1 DEF Reading
    <3>4. reading[u] # reading[t] BY <1>s, <3>1, <3>2, <3>3 DEF SoleReader
    <3>5. \A v \in Thread : v # reading[u] => pcb'[v] = pcb[v]
      BY <1>0, <2>6 DEF Reap, TypeOK
    <3> QED BY <1>1, <1>s, <1>2, <3>1, <3>2, <3>4, <3>5
  <2> QED BY <1>3, <2>1, <2>2, <2>3, <2>4, <2>5, <2>6 DEF KernelStep
<1>4. ASSUME NEW u \in Thread, UserStep(u)
      PROVE  pcb'[reading'[t]] # None /\ pcb'[reading'[t]].status = "Zombie"
  <2>1. ASSUME NEW c \in Thread, Clone(u, c) PROVE Kept
    BY <1>0, <2>1 DEF Clone, TypeOK
  <2>2. ASSUME NEW w, WaitFor(u, w) PROVE Kept
    <3>1. pc'[u] = "register" /\ \A v \in Thread : v # u => pc'[v] = pc[v]
      BY <1>0, <2>2 DEF WaitFor, Move, TypeOK
    <3> QED BY <2>2, <3>1 DEF WaitFor, tables
  <2>3. ASSUME NEW c \in Code, Exit(u, c) PROVE Kept
    <3>1. /\ pc[u] = "user" /\ pc' = pc /\ found' = found /\ reading' = reading
          /\ \A v \in Thread : v # u => pcb'[v] = pcb[v]
      BY <1>0, <2>3 DEF Exit, TypeOK
    <3> QED BY <1>1, <1>s, <3>1
  <2>4. ASSUME NEW h \in Thread, ReadExitCode(u, h) PROVE Kept
    <3>1. /\ pc'[u] \in {"register", "fetch"} /\ pcb' = pcb /\ found' = found
          /\ \A v \in Thread : v # u => pc'[v] = pc[v] /\ reading'[v] = reading[v]
      BY <1>0, <2>4 DEF ReadExitCode, Move, tables, TypeOK
    <3> QED BY <3>1
  <2>5. CASE ThreadPostExecute(u)
    <3>1. /\ pc[u] = "user" /\ pc'[u] = "ended" /\ found' = found /\ reading' = reading
          /\ \A v \in Thread : v # u => pc'[v] = pc[v] /\ pcb'[v] = pcb[v]
      BY <1>0, <2>5 DEF ThreadPostExecute, Move, TypeOK
    <3> QED BY <1>1, <1>s, <1>2, <3>1
  <2> QED BY <1>2, <1>4, <2>1, <2>2, <2>3, <2>4, <2>5 DEF UserStep
<1> QED BY <1>3, <1>4 DEF Next

(* The pointer that Read_Exit_Code takes without the lock is still good    *)
(* when it is used, and the process has ended, for every thread that alone *)
(* reads the exit code, whatever the readers of other exit codes do.       *)
THEOREM SoleReaderFindsEntry == Spec => []NoStaleEntry
<1>1. Init => NoStaleEntry BY DEF Init, NoStaleEntry
<1>2. ProcInv /\ ProcInv' /\ NoStaleEntry /\ [Next]_vars => NoStaleEntry'
  <2> SUFFICES ASSUME ProcInv, ProcInv', NoStaleEntry, [Next]_vars PROVE NoStaleEntry'
    OBVIOUS
  <2>1. CASE Next BY <2>1, StaleStep
  <2>2. CASE UNCHANGED vars BY <2>2 DEF vars, tables, NoStaleEntry, SoleReader
  <2> QED BY <2>1, <2>2
<1> QED BY <1>1, <1>2, ProcInvariant, PTL DEF Spec

=============================================================================
