------------------------------ MODULE Handles ------------------------------
(***************************************************************************)
(* kernel/handles.cpp: the numbers that programs know threads by, and the  *)
(* two places of kernel/process.cpp that give and take them, both under    *)
(* Semaphores_Mutex.                                                       *)
(*                                                                         *)
(* Last_Handle is a counter of Width numbers (2^16 in the code) that       *)
(* advances by a random step and wraps.  insert of std::map does not       *)
(* replace an entry, so a number that is still in use stays with its first *)
(* thread, while the second one is told that number, too.                  *)
(***************************************************************************)
EXTENDS Integers

CONSTANTS
  Threads,   (* the threads, known by their native handles                 *)
  INVALID,   (* INVALID_HANDLE_VALUE                                       *)
  Width,     (* how many numbers there are                                 *)
  MaxStep    (* the counter advances by 1 .. MaxStep (6 in the code)       *)

VARIABLES
  Last_Handle,
  table,     (* the map Handles: the native handle that is stored, if any  *)
  given,     (* Handle_To_THandle: the number that a thread was told       *)
  age,       (* history: how far the counter went since then               *)
  lapped     (* history: it came round while a thread was running          *)

vars == <<Last_Handle, table, given, age, lapped>>

(* The constants of handles.cpp; a step is shorter than a round.           *)
Parameters ==
  /\ Width \in Nat /\ MaxStep \in Nat /\ MaxStep < Width
  /\ INVALID \notin Threads

THandle == 0 .. Width - 1
None == Width   \* no thread is told this number

Running == {t \in Threads : given[t] # None}

(* What find returns; wait_for and read_exit_code take a handle for that   *)
(* of a running thread when this is not INVALID.                           *)
Resolve_kiv_os_Handle(h) == table[h]

(* The sum in the width of a handle.                                       *)
Advanced(h, step) == IF h + step < Width THEN h + step ELSE h + step - Width

(* insert: an entry that is there stays.                                   *)
Inserted(h, t) == IF table[h] = INVALID THEN [table EXCEPT ![h] = t] ELSE table

Init ==
  /\ Last_Handle = 0
  /\ table = [h \in THandle |-> INVALID]
  /\ given = [t \in Threads |-> None]
  /\ age = [t \in Threads |-> 0]
  /\ lapped = FALSE

(* run_in_a_thread: Convert_Native_Handle for a thread that was spawned.   *)
Convert_Native_Handle(t, step) ==
  /\ t \notin Running
  /\ Last_Handle' = Advanced(Last_Handle, step)
  /\ table' = Inserted(Last_Handle', t)
  /\ given' = [given EXCEPT ![t] = Last_Handle']
  /\ age' = [u \in Threads |-> IF u \in Running THEN age[u] + step ELSE 0]
  /\ lapped' = (lapped \/ \E u \in Running : age[u] + step >= Width)

(* thread_post_execute: Remove_Handle of the thread that ends.             *)
Remove_Handle(t) ==
  /\ t \in Running
  /\ table' = [table EXCEPT ![given[t]] = INVALID]
  /\ given' = [given EXCEPT ![t] = None]
  /\ UNCHANGED <<Last_Handle, age, lapped>>

Next ==
  \E t \in Threads :
    (\E step \in 1 .. MaxStep : Convert_Native_Handle(t, step)) \/ Remove_Handle(t)

Spec == Init /\ [][Next]_vars

-----------------------------------------------------------------------------
(* As long as no thread ran while the counter went all the way round, the  *)
(* number of a running thread leads to this thread, and a number leads     *)
(* nowhere when no thread runs that was told it: wait_for neither returns  *)
(* at once for a thread that runs nor waits for one that does not.         *)
HandlesLeadToTheirThreads ==
  ~lapped =>
    /\ \A t \in Running : Resolve_kiv_os_Handle(given[t]) = t
    /\ \A h \in THandle : Resolve_kiv_os_Handle(h) # INVALID => \E t \in Running : given[t] = h
=============================================================================
