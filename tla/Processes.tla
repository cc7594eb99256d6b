------------------------------ MODULE Processes ------------------------------
(***************************************************************************)
(* kernel/process.cpp: cloning of processes and threads, Wait_For with its *)
(* lists of listeners, Exit and Read_Exit_Code.                            *)
(*                                                                         *)
(* What Semaphores_Mutex guards is one step here, and so is a call of the  *)
(* tables that lock themselves (Handles, Process_Control_Block).  What the *)
(* code does outside of the lock is a step of its own: the entries that a  *)
(* clone writes after the thread was created, the wait on the listener's   *)
(* semaphore, Exit, and the pointer to a Process that Read_Exit_Code takes *)
(* before it locks.  A handle is the thread it was given to: that a number *)
(* of 16 bits may be given twice is left out.                              *)
(***************************************************************************)
EXTENDS Integers, Sequences, FiniteSets

CONSTANTS
  Thread,   (* the threads, the boot thread included, and their handles      *)
  Boot,     (* the thread of Bootstrap_Loader, which has no handle           *)
  Process,  (* the threads that Create_Process starts                        *)
  Cloner,   (* Cloner[c] clones thread c                                     *)
  Waits,    (* <<t, w>>: thread t passes the handles w to Wait_For           *)
  Readers,  (* <<t, h>>: thread t reads the exit code of h                   *)
  Code,     (* the exit codes                                                *)
  Success,  (* the code of a process that set none                           *)
  Unknown,  (* NOS_Error::Unknown_Error                                      *)
  None      (* no handle, no entry of a table                                *)

(* An entry of the process table.  Ready, the status for the time between  *)
(* Add_Process and the next statement, is left out.                        *)
Entry == [status : {"Running", "Zombie"}, exit_code : Code]

ASSUME ProcessesAssumption ==
  /\ Boot \in Thread
  /\ Process \subseteq Thread \ {Boot}
  /\ Cloner \in [Thread \ {Boot} -> Thread]
  /\ Waits \subseteq (Thread \ {Boot}) \X Seq(Thread \ {Boot})
  /\ Readers \subseteq Thread \X (Thread \ {Boot})
  /\ Success \in Code
  /\ None \notin Thread

ASSUME NoneAssumption == None \notin Entry

VARIABLES
  pc,        (* where each thread is                                          *)
  child,     (* the thread that a Clone in progress has created               *)
  handles,   (* Handles: the handles that resolve                             *)
  pcb,       (* the process table: an entry, or None                          *)
  parents,   (* Parent_Processes of the Tcb                                   *)
  listeners, (* Wait_For_Listeners: how often the listener of a thread is in  *)
             (* the list of a handle                                          *)
  watch,     (* the array of handles of a Wait_For                            *)
  notifier,  (* handle_that_notified of a thread's listener, None before      *)
  semaphore, (* the count of a listener's semaphore                           *)
  reading,   (* the handle whose exit code a thread is reading, or None       *)
  found,     (* whether Read_Exit_Code found an entry in the process table    *)
  result     (* what a thread's last call returned, None once it has made     *)
             (* another one                                                   *)

tables == <<handles, pcb, parents>>
waiting == <<listeners, watch, notifier, semaphore>>
vars == <<pc, child, tables, waiting, reading, found, result>>

Label == {"unborn", "held", "user", "add", "start", "register", "blocked",
          "collect", "fetch", "reap", "ended"}

Move(t, from, to) ==
  /\ pc[t] = from
  /\ pc' = [pc EXCEPT ![t] = to]

Init ==
  /\ pc = [t \in Thread |-> IF t = Boot THEN "user" ELSE "unborn"]
  /\ child = [t \in Thread |-> None]
  /\ handles = {}
  /\ pcb = [t \in Thread |-> None]
  /\ parents = [t \in Thread |-> None]
  /\ listeners = [h \in Thread |-> [t \in Thread |-> 0]]
  /\ watch = [t \in Thread |-> <<>>]
  /\ notifier = [t \in Thread |-> None]
  /\ semaphore = [t \in Thread |-> 0]
  /\ reading = [t \in Thread |-> None]
  /\ found = [t \in Thread |-> FALSE]
  /\ result = [t \in Thread |-> None]

(* A thread knows a handle once the Clone that made it has returned.       *)
Known(h) == pc[h] \notin {"unborn", "held"}

-----------------------------------------------------------------------------
(* clone *)

(* Mutant of Clone: the new thread does not wait for its cloner.           *)
CloneRunning(t, c) ==
  /\ c # Boot /\ Cloner[c] = t
  /\ pc[t] = "user" /\ pc[c] = "unborn"
  /\ pc' = [pc EXCEPT ![t] = "add", ![c] = "user"]
  /\ child' = [child EXCEPT ![t] = c]
  /\ handles' = handles \cup {c}
  /\ result' = [result EXCEPT ![t] = None]
  /\ UNCHANGED <<pcb, parents, waiting, reading, found>>

(* run_in_a_thread: the new thread gets a handle and waits on semaphore s. *)
Clone(t, c) ==
  /\ c # Boot /\ Cloner[c] = t
  /\ pc[t] = "user" /\ pc[c] = "unborn"
  /\ pc' = [pc EXCEPT ![t] = "add", ![c] = "held"]
  /\ child' = [child EXCEPT ![t] = c]
  /\ handles' = handles \cup {c}
  /\ result' = [result EXCEPT ![t] = None]
  /\ UNCHANGED <<pcb, parents, waiting, reading, found>>

(* Create_Process: the entry in the process table.                         *)
AddProcess(t) ==
  /\ Move(t, "add", "start")
  /\ child[t] \in Process
  /\ pcb' = [pcb EXCEPT ![child[t]] = [status |-> "Running", exit_code |-> Success]]
  /\ UNCHANGED <<child, handles, parents, waiting, reading, found, result>>

(* Create_Thread: the process the thread belongs to, if its creator is the *)
(* main thread of one.                                                     *)
AddThread(t) ==
  /\ Move(t, "add", "start")
  /\ child[t] \notin Process
  /\ parents' = IF pcb[t] # None THEN [parents EXCEPT ![child[t]] = t] ELSE parents
  /\ UNCHANGED <<child, handles, pcb, waiting, reading, found, result>>

(* s->notify(): the new thread starts and Clone returns its handle.        *)
Start(t) ==
  /\ pc[t] = "start"
  /\ pc' = [pc EXCEPT ![t] = "user", ![child[t]] = "user"]
  /\ result' = [result EXCEPT ![t] = child[t]]
  /\ child' = [child EXCEPT ![t] = None]
  /\ UNCHANGED <<tables, waiting, reading, found>>

(* Mutant of ThreadPostExecute: the list is dropped and nobody notified.   *)
ThreadPostExecuteSilent(t) ==
  /\ t # Boot
  /\ Move(t, "user", "ended")
  /\ pcb' = IF t \in Process /\ pcb[t] # None
            THEN [pcb EXCEPT ![t].status = "Zombie"] ELSE pcb
  /\ handles' = handles \ {t}
  /\ listeners' = [listeners EXCEPT ![t] = [l \in Thread |-> 0]]
  /\ parents' = [parents EXCEPT ![t] = None]
  /\ result' = [result EXCEPT ![t] = None]
  /\ UNCHANGED <<child, watch, notifier, semaphore, reading, found>>

(* thread_post_execute *)
ThreadPostExecute(t) ==
  /\ t # Boot
  /\ Move(t, "user", "ended")
  /\ pcb' = IF t \in Process /\ pcb[t] # None
            THEN [pcb EXCEPT ![t].status = "Zombie"] ELSE pcb
  /\ handles' = handles \ {t}
  /\ notifier' = [l \in Thread |-> IF listeners[t][l] > 0 THEN t ELSE notifier[l]]
  /\ semaphore' = [l \in Thread |-> semaphore[l] + listeners[t][l]]
  /\ listeners' = [listeners EXCEPT ![t] = [l \in Thread |-> 0]]
  /\ parents' = [parents EXCEPT ![t] = None]
  /\ result' = [result EXCEPT ![t] = None]
  /\ UNCHANGED <<child, watch, reading, found>>

-----------------------------------------------------------------------------
(* wait_for, called by Wait_For and by Read_Exit_Code.                     *)

Occurrences(w, h) == Cardinality({i \in DOMAIN w : w[i] = h})

Watched(t) == {watch[t][i] : i \in DOMAIN watch[t]}

(* Where wait_for returns to.                                              *)
Caller(t) == IF reading[t] = None THEN "user" ELSE "fetch"

WaitFor(t, w) ==
  /\ Move(t, "user", "register")
  /\ <<t, w>> \in Waits
  /\ \A i \in DOMAIN w : Known(w[i])
  /\ watch' = [watch EXCEPT ![t] = w]
  /\ result' = [result EXCEPT ![t] = None]
  /\ UNCHANGED <<child, tables, listeners, notifier, semaphore, reading, found>>

(* Mutant of Register: nobody looks whether the handles resolve.           *)
RegisterUnchecked(t) ==
  /\ Move(t, "register", "blocked")
  /\ listeners' = [h \in Thread |-> [listeners[h] EXCEPT
                     ![t] = @ + Occurrences(watch[t], h)]]
  /\ notifier' = [notifier EXCEPT ![t] = None]
  /\ semaphore' = [semaphore EXCEPT ![t] = 0]
  /\ UNCHANGED <<child, tables, watch, reading, found, result>>

(* Every handle resolves: a new listener enters the list of each of them.  *)
Register(t) ==
  /\ Move(t, "register", "blocked")
  /\ Watched(t) \subseteq handles
  /\ listeners' = [h \in Thread |-> [listeners[h] EXCEPT
                     ![t] = @ + Occurrences(watch[t], h)]]
  /\ notifier' = [notifier EXCEPT ![t] = None]
  /\ semaphore' = [semaphore EXCEPT ![t] = 0]
  /\ UNCHANGED <<child, tables, watch, reading, found, result>>

(* The first handle that does not resolve.  The listeners added before it  *)
(* are removed again under the same lock.  The index of the handle is the  *)
(* result if a process has that handle, and the number of handles if none. *)
Invalid(t, i) ==
  /\ i \in DOMAIN watch[t]
  /\ watch[t][i] \notin handles
  /\ \A j \in 1 .. i - 1 : watch[t][j] \in handles

(* Mutant of RollBack: the index counts from one.                          *)
RollBackFromOne(t) ==
  /\ Move(t, "register", Caller(t))
  /\ \E i \in DOMAIN watch[t] :
       /\ Invalid(t, i)
       /\ result' = [result EXCEPT ![t] =
                       IF pcb[watch[t][i]] # None THEN i ELSE Len(watch[t])]
  /\ watch' = [watch EXCEPT ![t] = <<>>]
  /\ UNCHANGED <<child, tables, listeners, notifier, semaphore, reading, found>>

RollBack(t) ==
  /\ Move(t, "register", Caller(t))
  /\ \E i \in DOMAIN watch[t] :
       /\ Invalid(t, i)
       /\ result' = [result EXCEPT ![t] =
                       IF pcb[watch[t][i]] # None THEN i - 1 ELSE Len(watch[t])]
  /\ watch' = [watch EXCEPT ![t] = <<>>]
  /\ UNCHANGED <<child, tables, listeners, notifier, semaphore, reading, found>>

(* current_listener.semaphore->wait() *)
Wake(t) ==
  /\ Move(t, "blocked", "collect")
  /\ semaphore[t] > 0
  /\ semaphore' = [semaphore EXCEPT ![t] = @ - 1]
  /\ UNCHANGED <<child, tables, listeners, watch, notifier, reading, found, result>>

(* Mutants of Collect: it takes listeners out of lists that were dropped,  *)
(* or stops looking once it has found the handle that notified.            *)
CollectDropped(t) ==
  /\ Move(t, "collect", Caller(t))
  /\ listeners' = [h \in Thread |-> [listeners[h] EXCEPT ![t] =
       IF h = notifier[t] THEN @ ELSE @ - Occurrences(watch[t], h)]]
  /\ result' = [result EXCEPT ![t] = 0]
  /\ watch' = [watch EXCEPT ![t] = <<>>]
  /\ notifier' = [notifier EXCEPT ![t] = None]
  /\ semaphore' = [semaphore EXCEPT ![t] = 0]
  /\ UNCHANGED <<child, tables, reading, found>>

CollectFirst(t) ==
  /\ Move(t, "collect", Caller(t))
  /\ \E i \in DOMAIN watch[t] :
       /\ watch[t][i] = notifier[t]
       /\ \A j \in 1 .. i - 1 : watch[t][j] # notifier[t]
       /\ result' = [result EXCEPT ![t] = i - 1]
       /\ listeners' = [h \in Thread |-> [listeners[h] EXCEPT ![t] =
            IF h = notifier[t] \/ @ = 0 THEN @
            ELSE @ - Occurrences(SubSeq(watch[t], 1, i - 1), h)]]
  /\ watch' = [watch EXCEPT ![t] = <<>>]
  /\ notifier' = [notifier EXCEPT ![t] = None]
  /\ semaphore' = [semaphore EXCEPT ![t] = 0]
  /\ UNCHANGED <<child, tables, reading, found>>

(* Every position of the array but those of the handle that notified takes *)
(* the listener out of a list once.  The last position of that handle is   *)
(* the result; should it have none, the result is (uint8_t) -1.            *)
Collect(t) ==
  /\ Move(t, "collect", Caller(t))
  /\ listeners' = [h \in Thread |-> [listeners[h] EXCEPT ![t] =
       IF h = notifier[t] \/ @ = 0 THEN @ ELSE @ - Occurrences(watch[t], h)]]
  /\ \/ \E i \in DOMAIN watch[t] :
          /\ watch[t][i] = notifier[t]
          /\ \A j \in i + 1 .. Len(watch[t]) : watch[t][j] # notifier[t]
          /\ result' = [result EXCEPT ![t] = i - 1]
     \/ notifier[t] \notin Watched(t) /\ result' = [result EXCEPT ![t] = 255]
  /\ watch' = [watch EXCEPT ![t] = <<>>]
  /\ notifier' = [notifier EXCEPT ![t] = None]
  /\ semaphore' = [semaphore EXCEPT ![t] = 0]
  /\ UNCHANGED <<child, tables, reading, found>>

-----------------------------------------------------------------------------
(* exit and read_exit_code *)

(* The code and the status Zombie, with no lock.  The thread runs on.      *)
Exit(t, c) ==
  /\ pc[t] = "user" /\ t \in handles
  /\ pcb[t] # None
  /\ pcb' = [pcb EXCEPT ![t] = [status |-> "Zombie", exit_code |-> c]]
  /\ result' = [result EXCEPT ![t] = None]
  /\ UNCHANGED <<pc, child, handles, parents, waiting, reading, found>>

(* Mutant of ReadExitCode: it does not wait for the process to end.        *)
ReadExitCodeAtOnce(t, h) ==
  /\ <<t, h>> \in Readers /\ Known(h)
  /\ Move(t, "user", "fetch")
  /\ reading' = [reading EXCEPT ![t] = h]
  /\ result' = [result EXCEPT ![t] = None]
  /\ UNCHANGED <<child, tables, waiting, found>>

ReadExitCode(t, h) ==
  /\ <<t, h>> \in Readers /\ Known(h)
  /\ Move(t, "user", IF h \in handles THEN "register" ELSE "fetch")
  /\ reading' = [reading EXCEPT ![t] = h]
  /\ watch' = [watch EXCEPT ![t] = IF h \in handles THEN <<h>> ELSE @]
  /\ result' = [result EXCEPT ![t] = None]
  /\ UNCHANGED <<child, tables, listeners, notifier, semaphore, found>>

(* The look-up in Proc::Pcb, before the lock is taken.                     *)
Fetch(t) ==
  /\ Move(t, "fetch", "reap")
  /\ found' = [found EXCEPT ![t] = pcb[reading[t]] # None]
  /\ UNCHANGED <<child, tables, waiting, reading, result>>

(* The entry that was found may have been erased by another reader: what a *)
(* read of the freed entry yields is not defined.                          *)
Reap(t) ==
  LET h == reading[t] IN
  /\ Move(t, "reap", "user")
  /\ reading' = [reading EXCEPT ![t] = None]
  /\ found' = [found EXCEPT ![t] = FALSE]
  /\ \/ /\ ~found[t] \/ (pcb[h] # None /\ pcb[h].status # "Zombie")
        /\ result' = [result EXCEPT ![t] = Unknown]
        /\ UNCHANGED pcb
     \/ /\ found[t] /\ pcb[h] # None /\ pcb[h].status = "Zombie"
        /\ result' = [result EXCEPT ![t] = pcb[h].exit_code]
        /\ pcb' = [pcb EXCEPT ![h] = None]
     \/ /\ found[t] /\ pcb[h] = None
        /\ \E c \in Code \cup {Unknown} : result' = [result EXCEPT ![t] = c]
        /\ UNCHANGED pcb
  /\ UNCHANGED <<child, handles, parents, waiting>>

-----------------------------------------------------------------------------
(* The steps that a thread takes inside the kernel, where it goes on until *)
(* the call returns.                                                       *)
KernelStep(t) ==
  \/ AddProcess(t) \/ AddThread(t) \/ Start(t)
  \/ Register(t) \/ RollBack(t) \/ Wake(t) \/ Collect(t)
  \/ Fetch(t) \/ Reap(t)

(* The calls that a program makes, in any order, and its return.           *)
UserStep(t) ==
  \/ \E c \in Thread : Clone(t, c)
  \/ \E w \in {p[2] : p \in Waits} : WaitFor(t, w)
  \/ \E c \in Code : Exit(t, c)
  \/ \E h \in Thread : ReadExitCode(t, h)
  \/ ThreadPostExecute(t)

Next == \E t \in Thread : KernelStep(t) \/ UserStep(t)

Spec == Init /\ [][Next]_vars

(* A Windows thread that can take a step inside the kernel takes it.  What *)
(* programs do is up to them.                                              *)
FairSpec == Spec /\ \A t \in Thread : WF_vars(KernelStep(t))

-----------------------------------------------------------------------------
(* Properties.                                                             *)

Result == Nat \cup Thread \cup Code \cup {Unknown, None}

(* Types of the tables and of the locals of the calls.                     *)
TypeOK ==
  /\ pc \in [Thread -> Label]
  /\ child \in [Thread -> Thread \cup {None}]
  /\ handles \subseteq Thread
  /\ pcb \in [Thread -> Entry \cup {None}]
  /\ parents \in [Thread -> Thread \cup {None}]
  /\ listeners \in [Thread -> [Thread -> Nat]]
  /\ watch \in [Thread -> Seq(Thread)]
  /\ notifier \in [Thread -> Thread \cup {None}]
  /\ semaphore \in [Thread -> Nat]
  /\ reading \in [Thread -> Thread \cup {None}]
  /\ found \in [Thread -> BOOLEAN]
  /\ result \in [Thread -> Result]

(* No list keeps a listener after the Wait_For that owns it, whose stack   *)
(* the listener lives on, has returned or was rolled back; and no list     *)
(* outlives its handle.                                                    *)
NoDanglingListener ==
  \A h, t \in Thread : listeners[h][t] > 0 =>
    /\ pc[t] \in {"blocked", "collect"}
    /\ h \in Watched(t)
    /\ h \in handles

(* No wakeup is lost: a waiting thread that nobody has notified is in the  *)
(* list of each thread it waits for, all of which are still running,       *)
(* although they end at any moment around the registration.                *)
NoLostWakeup ==
  \A t \in Thread : pc[t] = "blocked" /\ semaphore[t] = 0 =>
    \A h \in Watched(t) : h \in handles /\ listeners[h][t] > 0

(* Who has woken a Wait_For is one of the threads it was asked to wait for *)
(* and has ended, even when a second one ends before the waiter runs again.*)
WokenByTheEnded ==
  \A t \in Thread : pc[t] = "collect" \/ (pc[t] = "blocked" /\ semaphore[t] > 0) =>
    notifier[t] \in Watched(t) /\ pc[notifier[t]] = "ended"

(* A process has its entry from before its first instruction until after   *)
(* its last, so its exit code is final when it is read, and a handle       *)
(* resolves exactly while its thread exists.                               *)
EntryWhileRunning ==
  \A t \in Thread \ {Boot} :
    /\ t \in handles <=> pc[t] \notin {"unborn", "ended"}
    /\ t \in Process /\ pc[t] \notin {"unborn", "held", "ended"} => pcb[t] # None
    /\ parents[t] # None => t \in handles

(* No other thread ever reads the exit code that t is reading.             *)
SoleReader(t) == \A u \in Thread : <<u, reading[t]>> \in Readers => u = t

(* The pointer that Read_Exit_Code took before it locked still points at   *)
(* the entry when it is used, an entry of a process that has ended, as long*)
(* as nobody else reads that exit code.  Of two readers of one process the *)
(* second may use an entry that the first has erased (the last alternative *)
(* of Reap): the kernel does nothing against it.                           *)
NoStaleEntry ==
  \A t \in Thread : pc[t] = "reap" /\ found[t] /\ SoleReader(t) =>
    /\ pcb[reading[t]] # None
    /\ pcb[reading[t]].status = "Zombie"
    /\ pc[reading[t]] = "ended"

(* What Wait_For returns: the index of a handle whose thread has ended, or *)
(* the number of handles, and then one of the threads has ended and left   *)
(* no entry to read.  Never an index of a thread that is still running.    *)
WaitForResult ==
  [][\A t \in Thread :
       pc[t] \in {"register", "collect"} /\ pc'[t] = "user" =>
         \/ /\ result'[t] + 1 \in DOMAIN watch[t]
            /\ pc[watch[t][result'[t] + 1]] = "ended"
         \/ /\ result'[t] = Len(watch[t])
            /\ \E h \in Watched(t) : pc[h] = "ended" /\ pcb[h] = None]_vars

(* A thread in Wait_For returns once a thread it waits for has ended.      *)
WaitReturns ==
  \A t \in Thread :
    (pc[t] = "blocked" /\ \E h \in Watched(t) : pc[h] = "ended") ~> (pc[t] = "user")
=============================================================================
