-------------------------------- MODULE Pipe --------------------------------
(***************************************************************************)
(* kernel/pipe.cpp: the ring buffer behind a pipe and its two counting     *)
(* semaphores, at the granularity of one access to shared state per step.  *)
(*                                                                         *)
(* Three threads meet in a pipe.  The writer is the thread of the program  *)
(* left of the `|`: it calls Write through Pipe_In_File.  The reader is    *)
(* the thread of the program right of it: it calls Read through            *)
(* Pipe_Out_File.  The shell calls Close_In and Close_Out through          *)
(* Close_Handle: in Spec an end after the program using it has ended (the  *)
(* loop of call_piped_programs), in CancelSpec both ends at any time       *)
(* (cancel_all_programs).  No lock guards the pointers and the flags.      *)
(*                                                                         *)
(* File_Table owns the file of an end (a unique_ptr), the two files share  *)
(* the Pipe (a shared_ptr), and a thread inside of a call holds neither:   *)
(* removing a handle destroys its file, removing the second one destroys   *)
(* the Pipe with its semaphores.                                           *)
(***************************************************************************)
EXTENDS Integers, Sequences

CONSTANTS
  Char,      (* the characters programs write                              *)
  EOT,       (* the end-of-transmission character, one of Char             *)
  Zero,      (* what an unwritten cell of the buffer holds                 *)
  Capacity,  (* size of the ring buffer                                    *)
  Messages,  (* the buffers a writing program passes to Write_File         *)
  ReadSizes, (* the sizes a reading program passes to Read_File            *)
  MaxCalls   (* bound on the number of Write_File calls                    *)

ASSUME PipeAssumption ==
  /\ EOT \in Char
  /\ Zero \notin Char
  /\ Capacity \in Nat \ {0}
  /\ Messages \subseteq Seq(Char)
  /\ ReadSizes \subseteq Nat \ {0}
  /\ MaxCalls \in Nat

VARIABLES
  \* the members of class Pipe
  closed_in, closed_out, write_ptr, read_ptr, buffer, empty_count, fill_count,
  \* the two handles of the pipe: whether File_Table still holds them
  in_table,
  \* the threads: where each one is, and its locals
  pc,        (* the next step of each thread                               *)
  data,      (* what the writer's Write call still has to write            *)
  seen,      (* the value of write_ptr a producer read when it stored      *)
  want,      (* how many characters the reader's Read call still wants     *)
  outcome,   (* what the reader's last call told its program               *)
  calls,     (* how many Write_File calls were made                        *)
  \* histories
  sent,      (* every character stored into the buffer, in order           *)
  received   (* every character taken from the buffer, in order            *)

flags   == <<closed_in, closed_out>>
ring    == <<write_ptr, read_ptr, buffer>>
counts  == <<empty_count, fill_count>>
locals  == <<data, seen, want, outcome, calls>>
history == <<sent, received>>
vars    == <<flags, ring, counts, in_table, pc, locals, history>>

Thread   == {"writer", "reader", "shell"}
Program  == {"writer", "reader"}
Producer == {"writer", "shell"}     \* the callers of write_char
End      == {"in", "out"}

ProducerLabel ==
  {"check", "wait_empty", "recheck", "put", "advance", "wrap", "notify_fill"}
WriterLabel == {"idle", "file", "loop", "done", "undefined"} \cup ProducerLabel
ReaderLabel == {"idle", "file", "check", "wait_fill", "recheck", "take",
                "notify_empty", "set_closed_out", "done", "undefined"}
ShellLabel  == {"idle", "set_closed_in", "remove_in",
                "release_writer", "release_reader", "remove_out"} \cup ProducerLabel

Unread == Len(sent) - Len(received)

(* Thread t takes the step called `from` and continues at `to`.            *)
Move(t, from, to) ==
  /\ pc[t] = from
  /\ pc' = [pc EXCEPT ![t] = to]

Init ==
  /\ closed_in = FALSE
  /\ closed_out = FALSE
  /\ write_ptr = 0
  /\ read_ptr = 0
  /\ buffer = [i \in 0 .. Capacity - 1 |-> Zero]
  /\ empty_count = Capacity
  /\ fill_count = 0
  /\ in_table = End
  /\ pc = [t \in Thread |-> "idle"]
  /\ data = <<>>
  /\ seen = [t \in Producer |-> 0]
  /\ want = 0
  /\ outcome = "none"
  /\ calls = 0
  /\ sent = <<>>
  /\ received = <<>>

-----------------------------------------------------------------------------
(* Pipe::write_char, called by Write for each character and by Close_In    *)
(* for EOT.  Written is where a successful call continues and Refused      *)
(* where one that returned false does.                                     *)

CharOf(t) == IF t = "shell" THEN EOT ELSE Head(data)

Refused(t) == IF t = "shell" THEN "set_closed_in" ELSE "idle"

Written(t) == IF t = "shell" THEN "set_closed_in" ELSE "loop"

WriteCheck(t) ==
  /\ Move(t, "check", IF closed_out THEN Refused(t) ELSE "wait_empty")
  /\ UNCHANGED <<flags, ring, counts, in_table, locals, history>>

(* Mutant of WaitEmpty: a wait that only looks at the count.               *)
WaitEmptyUncounted(t) ==
  /\ Move(t, "wait_empty", "recheck")
  /\ empty_count > 0
  /\ UNCHANGED <<flags, ring, counts, in_table, locals, history>>

(* empty_count.wait() *)
WaitEmpty(t) ==
  /\ Move(t, "wait_empty", "recheck")
  /\ empty_count > 0
  /\ empty_count' = empty_count - 1
  /\ UNCHANGED <<flags, ring, fill_count, in_table, locals, history>>

(* The slot taken by WaitEmpty is not given back when the call is refused. *)
WriteRecheck(t) ==
  /\ Move(t, "recheck", IF closed_out THEN Refused(t) ELSE "put")
  /\ UNCHANGED <<flags, ring, counts, in_table, locals, history>>

(* buffer[write_ptr] = c.  A pointer beyond the buffer stores elsewhere.   *)
Put(t) ==
  /\ Move(t, "put", "advance")
  /\ buffer' = IF write_ptr < Capacity
               THEN [buffer EXCEPT ![write_ptr] = CharOf(t)]
               ELSE buffer
  /\ seen' = [seen EXCEPT ![t] = write_ptr]
  /\ sent' = Append(sent, CharOf(t))
  /\ UNCHANGED <<flags, write_ptr, read_ptr, counts, in_table, data, want,
                 outcome, calls, received>>

(* write_ptr++, with no lock: the value incremented is the one in memory   *)
(* or the one the thread loaded when it stored the character.              *)
Advance(t) ==
  /\ Move(t, "advance", "wrap")
  /\ \E p \in {write_ptr, seen[t]} : write_ptr' = p + 1
  /\ UNCHANGED <<flags, read_ptr, buffer, counts, in_table, locals, history>>

(* Mutant of Wrap: the roll-over comes one character late.                 *)
WrapLate(t) ==
  /\ Move(t, "wrap", "notify_fill")
  /\ write_ptr' = IF write_ptr > Capacity THEN 0 ELSE write_ptr
  /\ UNCHANGED <<flags, read_ptr, buffer, counts, in_table, locals, history>>

Wrap(t) ==
  /\ Move(t, "wrap", "notify_fill")
  /\ write_ptr' = IF write_ptr = Capacity THEN 0 ELSE write_ptr
  /\ UNCHANGED <<flags, read_ptr, buffer, counts, in_table, locals, history>>

(* Mutant of NotifyFill: only the first character of a full run is         *)
(* announced.                                                              *)
NotifyFillIfEmpty(t) ==
  /\ Move(t, "notify_fill", Written(t))
  /\ fill_count' = IF Unread = 1 THEN fill_count + 1 ELSE fill_count
  /\ data' = IF t = "writer" THEN Tail(data) ELSE data
  /\ UNCHANGED <<flags, ring, empty_count, in_table, seen, want, outcome, calls,
                 history>>

NotifyFill(t) ==
  /\ Move(t, "notify_fill", Written(t))
  /\ fill_count' = fill_count + 1
  /\ data' = IF t = "writer" THEN Tail(data) ELSE data
  /\ UNCHANGED <<flags, ring, empty_count, in_table, seen, want, outcome, calls,
                 history>>

WriteChar(t) ==
  \/ WriteCheck(t)
  \/ WaitEmpty(t)
  \/ WriteRecheck(t)
  \/ Put(t)
  \/ Advance(t)
  \/ Wrap(t)
  \/ NotifyFill(t)

-----------------------------------------------------------------------------
(* What a program uses after it was destroyed.                             *)

EndOf(t) == IF t = "writer" THEN "in" ELSE "out"

(* Both handles are gone from File_Table, and the Pipe with them.          *)
Destroyed == in_table = {}

(* A program between the resolving of its handle and the call of the file, *)
(* or inside of Pipe::Write or Pipe::Read.                                 *)
Calling(t) == pc[t] \notin {"idle", "done", "undefined"}

(* The next access of program t is to a destroyed file or a destroyed      *)
(* Pipe.  One that waits for a notification nobody sends accesses nothing. *)
Dangling(t) ==
  IF pc[t] = "file"
  THEN EndOf(t) \notin in_table
  ELSE /\ Destroyed /\ Calling(t)
       /\ pc[t] = "wait_empty" => empty_count > 0
       /\ pc[t] = "wait_fill" => fill_count > 0

(* Undefined behaviour: nothing is said of the program from here on.       *)
UseDestroyed(t) ==
  /\ Dangling(t)
  /\ pc' = [pc EXCEPT ![t] = "undefined"]
  /\ UNCHANGED <<flags, ring, counts, in_table, locals, history>>

-----------------------------------------------------------------------------
(* The writing program.  It may stop after any call, so the error that a   *)
(* short write returns adds no behaviour.                                  *)

(* Write_File resolves the handle to a pointer to the file ...             *)
Write ==
  /\ Move("writer", "idle", "file")
  /\ calls < MaxCalls
  /\ "in" \in in_table
  /\ \E m \in Messages : data' = m
  /\ calls' = calls + 1
  /\ UNCHANGED <<flags, ring, counts, in_table, seen, want, outcome, history>>

(* ... and enters Pipe::Write through it.                                  *)
EnterWrite ==
  /\ Move("writer", "file", "loop")
  /\ "in" \in in_table
  /\ UNCHANGED <<flags, ring, counts, in_table, locals, history>>

WriteLoop ==
  /\ Move("writer", "loop", IF data = <<>> \/ closed_in THEN "idle" ELSE "check")
  /\ UNCHANGED <<flags, ring, counts, in_table, locals, history>>

WriterEnds ==
  /\ Move("writer", "idle", "done")
  /\ UNCHANGED <<flags, ring, counts, in_table, locals, history>>

WriterStep ==
  \/ Write \/ EnterWrite \/ WriterEnds
  \/ ~Destroyed /\ (WriteLoop \/ WriteChar("writer"))
  \/ UseDestroyed("writer")

-----------------------------------------------------------------------------
(* The reading program: freq, sort, type and the others read until a call  *)
(* fails or returns EOT, or stop earlier for reasons of their own.         *)

Return(from, o) == Move("reader", from, "idle") /\ outcome' = o

Proceed(from, to) == Move("reader", from, to) /\ UNCHANGED outcome

LastReceived == received[Len(received)]

(* Read_File resolves the handle to a pointer to the file ...              *)
Read ==
  /\ Move("reader", "idle", "file")
  /\ outcome \in {"none", "data"}
  /\ "out" \in in_table
  /\ \E n \in ReadSizes : want' = n
  /\ UNCHANGED <<flags, ring, counts, in_table, data, seen, outcome, calls, history>>

(* ... and enters Pipe::Read through it.                                   *)
EnterRead ==
  /\ Move("reader", "file", "check")
  /\ "out" \in in_table
  /\ UNCHANGED <<flags, ring, counts, in_table, locals, history>>

(* The head of the for loop of Pipe::Read: the end of the loop, or the     *)
(* nothing_left_to_read return.                                            *)
ReadCheck ==
  /\ \/ want = 0 /\ Return("check", "data")
     \/ want > 0 /\ closed_out /\ read_ptr = write_ptr /\ Return("check", "error")
     \/ /\ want > 0 /\ ~(closed_out /\ read_ptr = write_ptr)
        /\ Proceed("check", "wait_fill")
  /\ UNCHANGED <<flags, ring, counts, in_table, data, seen, want, calls, history>>

(* fill_count.wait() *)
WaitFill ==
  /\ Move("reader", "wait_fill", "recheck")
  /\ fill_count > 0
  /\ fill_count' = fill_count - 1
  /\ UNCHANGED <<flags, ring, empty_count, in_table, locals, history>>

(* Closed while waiting: whatever was read so far is returned as a success,*)
(* nothing included.                                                       *)
ReadRecheck ==
  /\ IF closed_out THEN Return("recheck", "data") ELSE Proceed("recheck", "take")
  /\ UNCHANGED <<flags, ring, counts, in_table, data, seen, want, calls, history>>

(* Mutant of Take: the pointer rolls over one character late.              *)
TakeLate ==
  /\ Move("reader", "take", "notify_empty")
  /\ received' = Append(received, buffer[read_ptr])
  /\ read_ptr' = IF read_ptr = Capacity THEN 0 ELSE read_ptr + 1
  /\ want' = want - 1
  /\ UNCHANGED <<flags, write_ptr, buffer, counts, in_table, data, seen, outcome,
                 calls, sent>>

(* Only the reader uses read_ptr, so taking the character, the increment   *)
(* and the roll-over are one step.                                         *)
Take ==
  /\ Move("reader", "take", "notify_empty")
  /\ received' = Append(received, buffer[read_ptr])
  /\ read_ptr' = IF read_ptr + 1 = Capacity THEN 0 ELSE read_ptr + 1
  /\ want' = want - 1
  /\ UNCHANGED <<flags, write_ptr, buffer, counts, in_table, data, seen, outcome,
                 calls, sent>>

(* Mutant of NotifyEmpty: the slot of EOT is not released.                 *)
NotifyEmptyUnlessEot ==
  /\ Move("reader", "notify_empty",
          IF LastReceived = EOT THEN "set_closed_out" ELSE "check")
  /\ empty_count' = IF LastReceived = EOT THEN empty_count ELSE empty_count + 1
  /\ UNCHANGED <<flags, ring, fill_count, in_table, locals, history>>

NotifyEmpty ==
  /\ Move("reader", "notify_empty",
          IF LastReceived = EOT THEN "set_closed_out" ELSE "check")
  /\ empty_count' = empty_count + 1
  /\ UNCHANGED <<flags, ring, fill_count, in_table, locals, history>>

(* EOT has been read: the pipe closes its output, after the slot of EOT    *)
(* was released and with no further notification.                          *)
SetClosedOut ==
  /\ closed_out' = TRUE
  /\ Return("set_closed_out", "eot")
  /\ UNCHANGED <<closed_in, ring, counts, in_table, data, seen, want, calls, history>>

ReaderEnds ==
  /\ Move("reader", "idle", "done")
  /\ UNCHANGED <<flags, ring, counts, in_table, locals, history>>

ReaderStep ==
  \/ Read \/ EnterRead \/ ReaderEnds
  \/ /\ ~Destroyed
     /\ \/ ReadCheck \/ WaitFill \/ ReadRecheck \/ Take \/ NotifyEmpty
        \/ SetClosedOut
  \/ UseDestroyed("reader")

-----------------------------------------------------------------------------
(* The shell: Close_Handle of either end, which closes the file and then   *)
(* removes its handle from File_Table.                                     *)

CloseIn ==
  /\ Move("shell", "idle", IF closed_in THEN "remove_in" ELSE "check")
  /\ "in" \in in_table
  /\ UNCHANGED <<flags, ring, counts, in_table, locals, history>>

SetClosedIn ==
  /\ Move("shell", "set_closed_in", "remove_in")
  /\ closed_in' = TRUE
  /\ UNCHANGED <<closed_out, ring, counts, in_table, locals, history>>

CloseOut ==
  /\ Move("shell", "idle", "release_writer")
  /\ "out" \in in_table
  /\ closed_out' = TRUE
  /\ UNCHANGED <<closed_in, ring, counts, in_table, locals, history>>

(* Mutant of ReleaseWriter: nobody tells a blocked writer.                 *)
ReleaseNoWriter ==
  /\ Move("shell", "release_writer", "release_reader")
  /\ UNCHANGED <<flags, ring, counts, in_table, locals, history>>

(* empty_count.notify() of Close_Out *)
ReleaseWriter ==
  /\ Move("shell", "release_writer", "release_reader")
  /\ empty_count' = empty_count + 1
  /\ UNCHANGED <<flags, ring, fill_count, in_table, locals, history>>

(* Mutant of ReleaseReader: nobody tells a blocked reader.                 *)
ReleaseNoReader ==
  /\ Move("shell", "release_reader", "remove_out")
  /\ UNCHANGED <<flags, ring, counts, in_table, locals, history>>

(* fill_count.notify() of Close_Out *)
ReleaseReader ==
  /\ Move("shell", "release_reader", "remove_out")
  /\ fill_count' = fill_count + 1
  /\ UNCHANGED <<flags, ring, empty_count, in_table, locals, history>>

(* File_Table::Remove, the last step of Close_File: the entry goes, the    *)
(* file it owns is destroyed, and the Pipe with the second file.           *)
RemoveHandle(e) ==
  /\ Move("shell", IF e = "in" THEN "remove_in" ELSE "remove_out", "idle")
  /\ in_table' = in_table \ {e}
  /\ UNCHANGED <<flags, ring, counts, locals, history>>

ShellWork ==
  \/ WriteChar("shell") \/ SetClosedIn
  \/ ReleaseWriter \/ ReleaseReader \/ \E e \in End : RemoveHandle(e)

(* Mutant of ShellStep: the output end is closed without waiting for the   *)
(* program that reads from it.                                             *)
ShellStepEager ==
  \/ pc["writer"] = "done" /\ CloseIn
  \/ CloseOut
  \/ ShellWork

(* call_piped_programs closes an end once Wait_For reported its program.   *)
ShellStep ==
  \/ pc["writer"] = "done" /\ CloseIn
  \/ pc["reader"] = "done" /\ CloseOut
  \/ ShellWork

(* cancel_all_programs closes the handles in the order of creation, the    *)
(* input of a pipe before its output, whatever the programs are doing.     *)
CancelStep ==
  \/ CloseIn
  \/ "in" \notin in_table /\ CloseOut
  \/ ShellWork

-----------------------------------------------------------------------------
Next == WriterStep \/ ReaderStep \/ ShellStep

CancelNext == WriterStep \/ ReaderStep \/ CancelStep

(* Each thread is a Windows thread the scheduler keeps running: a step it  *)
(* can take it takes eventually.  A semaphore on which a thread waits is   *)
(* enabled from the moment its count is positive.                          *)
Spec == Init /\ [][Next]_vars

FairSpec ==
  /\ Spec
  /\ WF_vars(WriterStep) /\ WF_vars(ReaderStep) /\ WF_vars(ShellStep)

CancelSpec ==
  /\ Init /\ [][CancelNext]_vars
  /\ WF_vars(WriterStep) /\ WF_vars(ReaderStep) /\ WF_vars(CancelStep)

-----------------------------------------------------------------------------
(* Properties.                                                             *)

(* Types of the members, the locals and the histories.                     *)
TypeOK ==
  /\ closed_in \in BOOLEAN /\ closed_out \in BOOLEAN
  /\ write_ptr \in Nat
  /\ read_ptr \in 0 .. Capacity - 1
  /\ buffer \in [0 .. Capacity - 1 -> Char \cup {Zero}]
  /\ empty_count \in Nat /\ fill_count \in Nat
  /\ in_table \subseteq End
  /\ pc \in [Thread -> WriterLabel \cup ReaderLabel \cup ShellLabel]
  /\ pc["writer"] \in WriterLabel
  /\ pc["reader"] \in ReaderLabel
  /\ pc["shell"] \in ShellLabel
  /\ data \in Seq(Char)
  /\ seen \in [Producer -> Nat]
  /\ want \in Nat
  /\ outcome \in {"none", "data", "error", "eot"}
  /\ calls \in 0 .. MaxCalls
  /\ sent \in Seq(Char)
  /\ received \in Seq(Char \cup {Zero})
  /\ pc["writer"] \in ProducerLabel => data # <<>>
  /\ pc["reader"] \in {"wait_fill", "recheck", "take"} => want > 0

One(P) == IF P THEN 1 ELSE 0

(* Slots a producer has reserved and not stored into.                      *)
Reserved(t) == One(pc[t] \in {"recheck", "put"})

(* Characters a producer has stored and not announced.                     *)
Unannounced(t) == One(pc[t] \in {"advance", "wrap", "notify_fill"})

(* Until the output end is closed the two semaphores and the steps in      *)
(* progress account for every cell exactly once: a cell is free, reserved, *)
(* stored, announced, being taken or being released, and no notification   *)
(* is lost or sent twice, with whichever two producers.                    *)
TokensConserved ==
  ~closed_out =>
    /\ fill_count + Unannounced("writer") + Unannounced("shell")
         + One(pc["reader"] \in {"recheck", "take"}) = Unread
    /\ empty_count + Reserved("writer") + Reserved("shell")
         + One(pc["reader"] = "notify_empty") = Capacity - Unread

(* The cell k characters beyond pointer p.                                 *)
Cell(p, k) == IF p + k < Capacity THEN p + k ELSE p + k - Capacity

(* A writer never overwrites a character that was not read, roll-over of   *)
(* either pointer included: the cells from read_ptr on hold what was sent  *)
(* and not received, in order.                                             *)
RingHoldsUnread ==
  \A k \in 0 .. Unread - 1 :
    buffer[Cell(read_ptr, k)] = sent[Len(received) + k + 1]

(* The two users of an end and the shell that closes it after them never   *)
(* meet in it: the order of events in call_piped_programs.                 *)
EndsInOrder ==
  /\ pc["shell"] \in ProducerLabel \cup {"set_closed_in", "remove_in"} \/ closed_in
       => pc["writer"] = "done"
  /\ pc["shell"] \in ProducerLabel \cup {"set_closed_in"} => ~closed_in
  /\ pc["shell"] \in {"release_writer", "release_reader", "remove_out"}
       => pc["reader"] = "done"
  /\ closed_out => pc["reader"] = "done" \/ (pc["reader"] = "idle" /\ outcome = "eot")

(* An end is destroyed only after the program using it has ended, so in an *)
(* orderly pipeline no thread is inside of a file or a Pipe when they go,  *)
(* although neither call holds a reference to them (the loop of            *)
(* call_piped_programs, Close_File).                                       *)
DestroyedUnused ==
  \A t \in Program : /\ pc[t] # "undefined"
                     /\ EndOf(t) \notin in_table => pc[t] = "done"

(* Where write_ptr points: at the first free cell, or not yet past the     *)
(* character a producer has just stored.                                   *)
PointerInPlace ==
  /\ Unread \in 0 .. Capacity
  /\ \A t \in Producer :
       /\ pc[t] = "put" => Unread < Capacity
       /\ pc[t] \in {"advance", "wrap"} => Unread > 0
       /\ pc[t] = "advance" => /\ seen[t] = write_ptr
                               /\ write_ptr = Cell(read_ptr, Unread - 1)
       /\ pc[t] = "wrap" => write_ptr = Cell(read_ptr, Unread - 1) + 1
  /\ (\A t \in Producer : pc[t] \notin {"advance", "wrap"})
       => write_ptr = Cell(read_ptr, Unread)

(* Once EOT was taken the reader is on its way to close the output.        *)
EotEndsReading ==
  received # <<>> /\ LastReceived = EOT
    => pc["reader"] \in {"notify_empty", "set_closed_out"} \/ closed_out

(* The inductive invariant of an orderly pipeline.                         *)
PipeInv ==
  /\ TypeOK /\ TokensConserved /\ EndsInOrder /\ DestroyedUnused
  /\ PointerInPlace /\ RingHoldsUnread /\ EotEndsReading

(* Close_In stores EOT at Put and raises closed_in two steps later.        *)
InputOpen == ~closed_in /\ pc["shell"] \notin {"advance", "wrap", "notify_fill",
                                               "set_closed_in"}

Chan == INSTANCE Channel WITH open <- InputOpen

(* The pipe implements the bounded FIFO channel: in order, without loss or *)
(* duplication, EOT last, nothing received after EOT.                      *)
ChannelSpec == Chan!Spec

(* Both programs come to an end: a reader starved of input gets EOT when   *)
(* the writer has ended, a writer blocked on a full pipe is released when  *)
(* the reader has ended, and neither misses its notification.              *)
ProgramsEnd == <>(pc["writer"] = "done" /\ pc["reader"] = "done")

(* Once both programs have ended the shell gets both ends of the pipe      *)
(* closed, as the documentation of the pipeline says.                      *)
EndsGetClosed ==
  (pc["writer"] = "done" /\ pc["reader"] = "done") ~> (in_table = {})

(* Cancelling: a writer blocked for a free cell is released by Close_Out,  *)
(* whose notification comes before the Pipe is destroyed.                  *)
CancelReleasesWriter ==
  (pc["writer"] = "wait_empty" /\ pc["shell"] = "release_writer")
    ~> (pc["writer"] # "wait_empty")

(* Cancelling: a reader blocked for a character is released by Close_Out.  *)
CancelReleasesReader ==
  (pc["reader"] = "wait_fill" /\ pc["shell"] = "release_reader")
    ~> (pc["reader"] # "wait_fill")

(* Cancelling: once both handles are closed the reader comes to an end, as *)
(* reading its exit code, the next thing the shell does, requires.  What a *)
(* reader does that met the destroyed Pipe is undefined and not counted    *)
(* against the code here: one that waits for ever is.                      *)
CancelEndsReader == (in_table = {}) ~> (pc["reader"] \in {"done", "undefined"})
=============================================================================
