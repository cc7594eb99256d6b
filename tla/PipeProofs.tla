----------------------------- MODULE PipeProofs -----------------------------
(***************************************************************************)
(* Theorems about Pipe, for every capacity, every set of messages and read *)
(* sizes and every number of calls.                                        *)
(***************************************************************************)
EXTENDS Pipe, TLAPS

USE PipeAssumption

(* One step of any thread, whichever policy the shell follows.             *)
AnyNext == WriterStep \/ ReaderStep \/ CloseIn \/ CloseOut \/ ShellWork

(* The steps of write_char preserve the types.                             *)
LEMMA WriteCharType ==
  ASSUME TypeOK, NEW t \in Producer, WriteChar(t)
  PROVE  TypeOK'
<1> USE DEF TypeOK, Move, Thread, Producer, ProducerLabel, WriterLabel, ReaderLabel,
            ShellLabel, flags, ring, counts, locals, history
<1>1. CASE WriteCheck(t)   BY <1>1 DEF WriteCheck, Refused
<1>2. CASE WaitEmpty(t)    BY <1>2 DEF WaitEmpty
<1>3. CASE WriteRecheck(t) BY <1>3 DEF WriteRecheck, Refused
<1>4. CASE Put(t)          BY <1>4 DEF Put, CharOf
<1>5. CASE Advance(t)      BY <1>5 DEF Advance
<1>6. CASE Wrap(t)         BY <1>6 DEF Wrap
<1>7. CASE NotifyFill(t)   BY <1>7 DEF NotifyFill, Written
<1> QED BY <1>1, <1>2, <1>3, <1>4, <1>5, <1>6, <1>7 DEF WriteChar

(* Every step preserves the types.                                         *)
LEMMA TypeStep == TypeOK /\ [AnyNext]_vars => TypeOK'
<1> SUFFICES ASSUME TypeOK, [AnyNext]_vars PROVE TypeOK'
  OBVIOUS
<1>0. ASSUME NEW t \in Producer, WriteChar(t) PROVE TypeOK'
  BY <1>0, WriteCharType
<1> USE DEF TypeOK, Move, Thread, Producer, ProducerLabel, WriterLabel, ReaderLabel,
            ShellLabel, flags, ring, counts, locals, history
<1>1. CASE WriterStep
  <2>1. CASE Write                BY <2>1 DEF Write
  <2>2. CASE WriteLoop            BY <2>2 DEF WriteLoop
  <2>3. CASE WriteChar("writer")  BY <1>0, <2>3
  <2>4. CASE WriterEnds           BY <2>4 DEF WriterEnds
  <2>5. CASE EnterWrite           BY <2>5 DEF EnterWrite
  <2>6. CASE UseDestroyed("writer") BY <2>6 DEF UseDestroyed
  <2> QED BY <1>1, <2>1, <2>2, <2>3, <2>4, <2>5, <2>6 DEF WriterStep
<1>2. CASE ReaderStep
  <2>1. CASE Read           BY <2>1 DEF Read
  <2>2. CASE ReadCheck      BY <2>2 DEF ReadCheck, Return, Proceed
  <2>3. CASE WaitFill       BY <2>3 DEF WaitFill
  <2>4. CASE ReadRecheck    BY <2>4 DEF ReadRecheck, Return, Proceed
  <2>5. CASE Take           BY <2>5 DEF Take
  <2>6. CASE NotifyEmpty    BY <2>6 DEF NotifyEmpty
  <2>7. CASE SetClosedOut   BY <2>7 DEF SetClosedOut, Return
  <2>8. CASE ReaderEnds     BY <2>8 DEF ReaderEnds
  <2>9. CASE EnterRead      BY <2>9 DEF EnterRead
  <2>10. CASE UseDestroyed("reader") BY <2>10 DEF UseDestroyed
  <2> QED
    BY <1>2, <2>1, <2>2, <2>3, <2>4, <2>5, <2>6, <2>7, <2>8, <2>9, <2>10 DEF ReaderStep
<1>3. CASE CloseIn  BY <1>3 DEF CloseIn
<1>4. CASE CloseOut BY <1>4 DEF CloseOut
<1>5. CASE ShellWork
  <2>1. CASE SetClosedIn    BY <2>1 DEF SetClosedIn
  <2>2. CASE ReleaseWriter  BY <2>2 DEF ReleaseWriter
  <2>3. CASE ReleaseReader  BY <2>3 DEF ReleaseReader
  <2>4. ASSUME NEW e \in End, RemoveHandle(e) PROVE TypeOK'
    BY <2>4 DEF RemoveHandle
  <2> QED BY <1>0, <1>5, <2>1, <2>2, <2>3, <2>4 DEF ShellWork
<1>6. CASE UNCHANGED vars BY <1>6 DEF vars
<1> QED BY <1>1, <1>2, <1>3, <1>4, <1>5, <1>6 DEF AnyNext

(* The steps of both specifications are steps of the threads.              *)
LEMMA NextIsAny == (Next => AnyNext) /\ (CancelNext => AnyNext)
  BY DEF Next, CancelNext, AnyNext, ShellStep, CancelStep

(* The initial state of a pipe has the types.                              *)
LEMMA TypeInit == Init => TypeOK
<1> SUFFICES ASSUME Init PROVE TypeOK
  OBVIOUS
<1> USE DEF Init
<1>1. pc = [t \in Thread |-> "idle"] /\ pc \in [Thread -> {"idle"}]
  OBVIOUS
<1>2. /\ data \in Seq(Char) /\ sent \in Seq(Char) /\ received \in Seq(Char \cup {Zero})
      /\ buffer \in [0 .. Capacity - 1 -> Char \cup {Zero}]
      /\ seen \in [Producer -> Nat]
  OBVIOUS
<1>3. closed_in \in BOOLEAN /\ closed_out \in BOOLEAN /\ in_table \subseteq End
  OBVIOUS
<1>4. /\ write_ptr \in Nat /\ read_ptr \in 0 .. Capacity - 1 /\ want \in Nat
      /\ empty_count \in Nat /\ fill_count \in Nat /\ calls \in 0 .. MaxCalls
      /\ outcome \in {"none", "data", "error", "eot"}
  OBVIOUS
<1> HIDE DEF Init
<1> QED
  BY <1>1, <1>2, <1>3, <1>4
  DEF TypeOK, Thread, ProducerLabel, WriterLabel, ReaderLabel, ShellLabel

(* The types of the pipe and of the threads using it are preserved in an   *)
(* orderly pipeline ...                                                    *)
THEOREM TypeCorrect == Spec => []TypeOK
<1>1. TypeOK /\ [Next]_vars => TypeOK'
  BY TypeStep, NextIsAny
<1> QED BY TypeInit, <1>1, PTL DEF Spec

(* ... and in one that is being cancelled.                                 *)
THEOREM CancelTypeCorrect == CancelSpec => []TypeOK
<1>1. TypeOK /\ [CancelNext]_vars => TypeOK'
  BY TypeStep, NextIsAny
<1> QED BY TypeInit, <1>1, PTL DEF CancelSpec

-----------------------------------------------------------------------------
(* Conservation of the semaphores' tokens.                                 *)

(* A moved thread changes its own label and no other thread's.             *)
LEMMA MoveLabels ==
  ASSUME TypeOK, NEW t \in Thread, NEW from, NEW to, Move(t, from, to)
  PROVE  /\ pc[t] = from
         /\ pc'[t] = to
         /\ \A u \in Thread \ {t} : pc'[u] = pc[u]
  BY DEF Move, TypeOK

(* The shell gives the extra tokens of Close_Out after raising the flag.   *)
ReleasedAfterClose ==
  pc["shell"] \in {"release_writer", "release_reader"} => closed_out

(* The handle of the output goes after the flag is up.                     *)
RemovedAfterClose ==
  pc["shell"] = "remove_out" \/ "out" \notin in_table => closed_out

TokenInv == TypeOK /\ ReleasedAfterClose /\ RemovedAfterClose /\ TokensConserved

(* The flag of the output never comes down, and the shell removes the      *)
(* handle only on the path that raised it.                                 *)
LEMMA RemovedStep ==
  ASSUME TypeOK, ReleasedAfterClose, RemovedAfterClose, [AnyNext]_vars
  PROVE  RemovedAfterClose'
<1> USE DEF TypeOK, ReleasedAfterClose, RemovedAfterClose, Move, Thread, Program, flags
<1>1. CASE WriterStep
  BY <1>1 DEF WriterStep, Write, EnterWrite, WriteLoop, WriterEnds, UseDestroyed, WriteChar,
              WriteCheck, WaitEmpty, WriteRecheck, Put, Advance, Wrap, NotifyFill
<1>2. CASE ReaderStep
  BY <1>2 DEF ReaderStep, Read, EnterRead, ReadCheck, WaitFill, ReadRecheck, Take,
              NotifyEmpty, SetClosedOut, ReaderEnds, UseDestroyed, Return, Proceed
<1>3. CASE WriteChar("shell")
  BY <1>3 DEF WriteChar, WriteCheck, WaitEmpty, WriteRecheck, Put, Advance, Wrap,
              NotifyFill, Refused, Written
<1>4. CASE CloseIn \/ CloseOut \/ SetClosedIn \/ ReleaseWriter \/ ReleaseReader
  BY <1>4 DEF CloseIn, CloseOut, SetClosedIn, ReleaseWriter, ReleaseReader
<1>5. ASSUME NEW e \in End, RemoveHandle(e) PROVE RemovedAfterClose'
  BY <1>5 DEF RemoveHandle
<1>6. CASE UNCHANGED vars
  BY <1>6 DEF vars
<1> QED BY <1>1, <1>2, <1>3, <1>4, <1>5, <1>6 DEF AnyNext, ShellWork

(* A program that meets a destroyed file or Pipe reserves, stores and      *)
(* announces nothing until the output is closed.                           *)
LEMMA UseDestroyedTokens ==
  ASSUME TokenInv, NEW t \in Program, UseDestroyed(t)
  PROVE  TokensConserved' /\ ReleasedAfterClose'
<1> USE DEF TokenInv
<1>0. TypeOK /\ t \in Thread /\ pc'["shell"] = pc["shell"] /\ closed_out' = closed_out
  BY DEF TypeOK, Program, Thread, UseDestroyed, flags
<1>1. CASE closed_out
  BY <1>0, <1>1 DEF TokensConserved, ReleasedAfterClose
<1>2. CASE ~closed_out
  <2>1. pc[t] = "file" /\ pc'[t] = "undefined" /\ \A u \in Thread \ {t} : pc'[u] = pc[u]
    BY <1>0, <1>2 DEF UseDestroyed, Dangling, Destroyed, RemovedAfterClose, TypeOK
  <2>2. UNCHANGED <<empty_count, fill_count, Unread>>
    BY DEF UseDestroyed, counts, history, Unread
  <2> QED
    BY <1>0, <2>1, <2>2
    DEF TokensConserved, One, Reserved, Unannounced, Thread, Program, ReleasedAfterClose
<1> QED BY <1>1, <1>2

(* A step of write_char moves one token: from the empty count to a reserved *)
(* slot, from there to a stored character, from there to the fill count.   *)
LEMMA WriteCharTokens ==
  ASSUME TokenInv, NEW t \in Producer, WriteChar(t)
  PROVE  TokensConserved' /\ ReleasedAfterClose'
<1> USE DEF TokenInv
<1>0. /\ empty_count \in Nat /\ fill_count \in Nat /\ Unread \in Int
      /\ t \in Thread /\ t \in {"writer", "shell"}
      /\ closed_out' = closed_out
  BY DEF TypeOK, Unread, Producer, Thread, WriteChar, WriteCheck, WaitEmpty, WriteRecheck,
         Put, Advance, Wrap, NotifyFill, flags
<1>1. CASE WriteCheck(t)
  <2>1. /\ pc[t] = "check" /\ pc'[t] \in {"set_closed_in", "idle", "wait_empty"}
        /\ \A u \in Thread \ {t} : pc'[u] = pc[u]
        /\ UNCHANGED <<empty_count, fill_count, Unread>>
    BY <1>0, <1>1, MoveLabels DEF WriteCheck, Refused, counts, history, Unread
  <2> QED
    BY <1>0, <2>1 DEF TokensConserved, One, Reserved, Unannounced, Thread, ReleasedAfterClose
<1>2. CASE WaitEmpty(t)
  <2>1. /\ pc[t] = "wait_empty" /\ pc'[t] = "recheck"
        /\ \A u \in Thread \ {t} : pc'[u] = pc[u]
        /\ empty_count' = empty_count - 1
        /\ UNCHANGED <<fill_count, Unread>>
    BY <1>0, <1>2, MoveLabels DEF WaitEmpty, history, Unread
  <2> QED
    BY <1>0, <2>1 DEF TokensConserved, One, Reserved, Unannounced, Thread, ReleasedAfterClose
<1>3. CASE WriteRecheck(t)
  <2>1. /\ pc[t] = "recheck" /\ pc'[t] \in {"set_closed_in", "idle", "put"}
        /\ ~closed_out => pc'[t] = "put"
        /\ \A u \in Thread \ {t} : pc'[u] = pc[u]
        /\ UNCHANGED <<empty_count, fill_count, Unread>>
    BY <1>0, <1>3, MoveLabels DEF WriteRecheck, Refused, counts, history, Unread
  <2> QED
    BY <1>0, <2>1 DEF TokensConserved, One, Reserved, Unannounced, Thread, ReleasedAfterClose
<1>4. CASE Put(t)
  <2>1. /\ pc[t] = "put" /\ pc'[t] = "advance"
        /\ \A u \in Thread \ {t} : pc'[u] = pc[u]
        /\ UNCHANGED <<empty_count, fill_count>>
    BY <1>0, <1>4, MoveLabels DEF Put, counts
  <2>2. Unread' = Unread + 1
    BY <1>4 DEF Put, Unread, TypeOK
  <2> QED
    BY <1>0, <2>1, <2>2
    DEF TokensConserved, One, Reserved, Unannounced, Thread, ReleasedAfterClose
<1>5. CASE Advance(t) \/ Wrap(t)
  <2>1. /\ pc[t] \in {"advance", "wrap"} /\ pc'[t] \in {"wrap", "notify_fill"}
        /\ \A u \in Thread \ {t} : pc'[u] = pc[u]
        /\ UNCHANGED <<empty_count, fill_count, Unread>>
    BY <1>0, <1>5, MoveLabels DEF Advance, Wrap, counts, history, Unread
  <2> QED
    BY <1>0, <2>1 DEF TokensConserved, One, Reserved, Unannounced, Thread, ReleasedAfterClose
<1>6. CASE NotifyFill(t)
  <2>1. /\ pc[t] = "notify_fill" /\ pc'[t] \in {"set_closed_in", "loop"}
        /\ \A u \in Thread \ {t} : pc'[u] = pc[u]
        /\ fill_count' = fill_count + 1
        /\ UNCHANGED <<empty_count, Unread>>
    BY <1>0, <1>6, MoveLabels DEF NotifyFill, Written, history, Unread
  <2> QED
    BY <1>0, <2>1 DEF TokensConserved, One, Reserved, Unannounced, Thread, ReleasedAfterClose
<1> QED BY <1>1, <1>2, <1>3, <1>4, <1>5, <1>6 DEF WriteChar

(* A step of Pipe::Read moves one token the other way around.              *)
LEMMA ReaderTokens ==
  ASSUME TokenInv, ReaderStep
  PROVE  TokensConserved' /\ ReleasedAfterClose'
<1> USE DEF TokenInv
<1>0. /\ empty_count \in Nat /\ fill_count \in Nat /\ Unread \in Int
      /\ "reader" \in Thread
  BY DEF TypeOK, Unread, Thread
<1>1. CASE WaitFill
  <2>1. /\ pc["reader"] = "wait_fill" /\ pc'["reader"] = "recheck"
        /\ \A u \in Thread \ {"reader"} : pc'[u] = pc[u]
        /\ fill_count' = fill_count - 1
        /\ UNCHANGED <<empty_count, closed_out, Unread>>
    BY <1>0, <1>1, MoveLabels DEF WaitFill, flags, history, Unread
  <2> QED
    BY <1>0, <2>1 DEF TokensConserved, One, Reserved, Unannounced, Thread, ReleasedAfterClose
<1>2. CASE ReadRecheck
  <2>1. /\ pc["reader"] = "recheck"
        /\ ~closed_out => pc'["reader"] = "take"
        /\ \A u \in Thread \ {"reader"} : pc'[u] = pc[u]
        /\ UNCHANGED <<empty_count, fill_count, closed_out, Unread>>
    BY <1>0, <1>2, MoveLabels
    DEF ReadRecheck, Return, Proceed, flags, counts, history, Unread
  <2> QED
    BY <1>0, <2>1 DEF TokensConserved, One, Reserved, Unannounced, Thread, ReleasedAfterClose
<1>3. CASE Take
  <2>1. /\ pc["reader"] = "take" /\ pc'["reader"] = "notify_empty"
        /\ \A u \in Thread \ {"reader"} : pc'[u] = pc[u]
        /\ UNCHANGED <<empty_count, fill_count, closed_out>>
    BY <1>0, <1>3, MoveLabels DEF Take, flags, counts
  <2>2. Unread' = Unread - 1
    BY <1>3 DEF Take, Unread, TypeOK
  <2> QED
    BY <1>0, <2>1, <2>2
    DEF TokensConserved, One, Reserved, Unannounced, Thread, ReleasedAfterClose
<1>4. CASE NotifyEmpty
  <2>1. /\ pc["reader"] = "notify_empty" /\ pc'["reader"] \in {"set_closed_out", "check"}
        /\ \A u \in Thread \ {"reader"} : pc'[u] = pc[u]
        /\ empty_count' = empty_count + 1
        /\ UNCHANGED <<fill_count, closed_out, Unread>>
    BY <1>0, <1>4, MoveLabels DEF NotifyEmpty, flags, history, Unread
  <2> QED
    BY <1>0, <2>1 DEF TokensConserved, One, Reserved, Unannounced, Thread, ReleasedAfterClose
<1>5. CASE Read \/ EnterRead \/ ReadCheck \/ ReaderEnds
  <2>1. /\ pc["reader"] \in {"idle", "file", "check"}
        /\ pc'["reader"] \in {"idle", "file", "check", "wait_fill", "done"}
        /\ \A u \in Thread \ {"reader"} : pc'[u] = pc[u]
        /\ UNCHANGED <<empty_count, fill_count, closed_out, Unread>>
    BY <1>0, <1>5, MoveLabels
    DEF Read, EnterRead, ReadCheck, ReaderEnds, Return, Proceed, flags, counts, history,
        Unread
  <2> QED
    BY <1>0, <2>1 DEF TokensConserved, One, Reserved, Unannounced, Thread, ReleasedAfterClose
<1>6. CASE SetClosedOut
  BY <1>6 DEF SetClosedOut, TokensConserved, ReleasedAfterClose
<1>7. CASE UseDestroyed("reader")
  BY <1>7, UseDestroyedTokens DEF Program
<1> QED BY <1>1, <1>2, <1>3, <1>4, <1>5, <1>6, <1>7 DEF ReaderStep

(* Close_Out is the only call that makes tokens, and it raises closed_out  *)
(* before it makes them.                                                   *)
LEMMA ShellTokens ==
  ASSUME TokenInv, CloseIn \/ CloseOut \/ SetClosedIn \/ ReleaseWriter
                   \/ ReleaseReader \/ \E e \in End : RemoveHandle(e)
  PROVE  TokensConserved' /\ ReleasedAfterClose'
<1> USE DEF TokenInv
<1>0. /\ empty_count \in Nat /\ fill_count \in Nat /\ Unread \in Int
      /\ "shell" \in Thread
  BY DEF TypeOK, Unread, Thread
<1>1. CASE CloseIn \/ SetClosedIn \/ \E e \in End : RemoveHandle(e)
  <2>1. /\ pc["shell"] \in {"idle", "set_closed_in", "remove_in", "remove_out"}
        /\ pc'["shell"] \in {"check", "remove_in", "idle"}
        /\ \A u \in Thread \ {"shell"} : pc'[u] = pc[u]
        /\ UNCHANGED <<empty_count, fill_count, closed_out, Unread>>
    BY <1>0, <1>1, MoveLabels
    DEF CloseIn, SetClosedIn, RemoveHandle, flags, counts, history, Unread
  <2> QED
    BY <1>0, <2>1 DEF TokensConserved, One, Reserved, Unannounced, Thread, ReleasedAfterClose
<1>2. CASE CloseOut
  BY <1>2 DEF CloseOut, TokensConserved, ReleasedAfterClose
<1>3. CASE ReleaseWriter \/ ReleaseReader
  <2>1. closed_out /\ closed_out' = closed_out
    BY <1>3 DEF ReleaseWriter, ReleaseReader, Move, ReleasedAfterClose, flags
  <2> QED BY <2>1 DEF TokensConserved, ReleasedAfterClose
<1> QED BY <1>1, <1>2, <1>3

(* Every step keeps the account of the tokens.                             *)
LEMMA TokenStep == TokenInv /\ [AnyNext]_vars => TokenInv'
<1> SUFFICES ASSUME TokenInv, [AnyNext]_vars PROVE TokenInv'
  OBVIOUS
<1>1. TypeOK' /\ RemovedAfterClose'
  BY TypeStep, RemovedStep DEF TokenInv
<1>2. CASE WriterStep
  <2>1. CASE WriteChar("writer")
    BY <1>1, <2>1, WriteCharTokens DEF TokenInv, Producer
  <2>2. CASE Write \/ EnterWrite \/ WriteLoop \/ WriterEnds
    <3>0. "writer" \in Thread /\ TypeOK
      BY DEF Thread, TokenInv
    <3>1. /\ pc["writer"] \in {"idle", "file", "loop"}
          /\ pc'["writer"] \in {"idle", "file", "loop", "check", "done"}
          /\ \A u \in Thread \ {"writer"} : pc'[u] = pc[u]
          /\ UNCHANGED <<empty_count, fill_count, closed_out, Unread>>
      BY <2>2, <3>0, MoveLabels
      DEF Write, EnterWrite, WriteLoop, WriterEnds, flags, counts, history, Unread
    <3> QED
      BY <1>1, <3>1
      DEF TokenInv, TokensConserved, One, Reserved, Unannounced, Thread,
          ReleasedAfterClose
  <2>3. CASE UseDestroyed("writer")
    BY <1>1, <2>3, UseDestroyedTokens DEF TokenInv, Program
  <2> QED BY <1>2, <2>1, <2>2, <2>3 DEF WriterStep
<1>3. CASE ReaderStep
  BY <1>1, <1>3, ReaderTokens DEF TokenInv
<1>4. CASE CloseIn \/ CloseOut \/ ShellWork
  BY <1>1, <1>4, ShellTokens, WriteCharTokens DEF ShellWork, TokenInv, Producer
<1>5. CASE UNCHANGED vars
  BY <1>1, <1>5
  DEF vars, TokenInv, TokensConserved, One, Reserved, Unannounced, Unread,
      ReleasedAfterClose, flags, counts, history
<1> QED BY <1>2, <1>3, <1>4, <1>5 DEF AnyNext

(* At first every cell is free.                                            *)
LEMMA TokenInit == Init => TokenInv
<1> SUFFICES ASSUME Init PROVE TokenInv
  OBVIOUS
<1>1. TypeOK
  BY TypeInit
<1>2. ReleasedAfterClose /\ RemovedAfterClose /\ TokensConserved
  BY DEF Init, ReleasedAfterClose, RemovedAfterClose, TokensConserved, One, Reserved,
         Unannounced, Unread, Thread, End
<1> QED BY <1>1, <1>2 DEF TokenInv

(* Until the output end closes the semaphores account for every cell of    *)
(* the ring exactly once (Pipe::Read, Pipe::write_char), in an orderly     *)
(* pipeline ...                                                            *)
THEOREM TokensAreConserved == Spec => []TokensConserved
<1>1. TokenInv /\ [Next]_vars => TokenInv'
  BY TokenStep, NextIsAny
<1>2. TokenInv => TokensConserved
  BY DEF TokenInv
<1> QED BY TokenInit, <1>1, <1>2, PTL DEF Spec

(* ... and in a cancelled one, where Close_In may run beside the writer.   *)
THEOREM CancelTokensAreConserved == CancelSpec => []TokensConserved
<1>1. TokenInv /\ [CancelNext]_vars => TokenInv'
  BY TokenStep, NextIsAny
<1>2. TokenInv => TokensConserved
  BY DEF TokenInv
<1> QED BY TokenInit, <1>1, <1>2, PTL DEF CancelSpec

-----------------------------------------------------------------------------
(* Order of events: who may be where when the shell closes an end.         *)

(* Nothing dangles where every destroyed end had lost its program before.  *)
LEMMA NoneDangles ==
  ASSUME DestroyedUnused, NEW t \in Program
  PROVE  ~UseDestroyed(t)
  BY DEF UseDestroyed, Dangling, Destroyed, Calling, DestroyedUnused, EndOf

(* The shell closes an end after the program that used it has ended.       *)
LEMMA EndsStep ==
  ASSUME TypeOK, EndsInOrder, DestroyedUnused, [Next]_vars
  PROVE  EndsInOrder'
<1>0. ~UseDestroyed("writer") /\ ~UseDestroyed("reader")
  BY NoneDangles DEF Program
<1> USE DEF TypeOK, EndsInOrder, Move, Thread, Producer, ProducerLabel, flags, locals
<1>1. ASSUME NEW t \in Producer, WriteChar(t) PROVE EndsInOrder'
  BY <1>1 DEF WriteChar, WriteCheck, WaitEmpty, WriteRecheck, Put, Advance, Wrap,
              NotifyFill, Refused, Written
<1>2. CASE Write \/ EnterWrite \/ WriteLoop \/ WriterEnds
  BY <1>2 DEF Write, EnterWrite, WriteLoop, WriterEnds
<1>3. CASE ReaderStep
  BY <1>0, <1>3
  DEF ReaderStep, Read, EnterRead, ReadCheck, WaitFill, ReadRecheck, Take, NotifyEmpty,
      SetClosedOut, ReaderEnds, Return, Proceed
<1>4. CASE pc["writer"] = "done" /\ CloseIn
  BY <1>4 DEF CloseIn
<1>5. CASE pc["reader"] = "done" /\ CloseOut
  BY <1>5 DEF CloseOut
<1>6. CASE SetClosedIn \/ ReleaseWriter \/ ReleaseReader
  BY <1>6 DEF SetClosedIn, ReleaseWriter, ReleaseReader
<1>7. ASSUME NEW e \in End, RemoveHandle(e) PROVE EndsInOrder'
  BY <1>7 DEF RemoveHandle
<1>8. CASE UNCHANGED vars
  BY <1>8 DEF vars
<1> QED
  BY <1>0, <1>1, <1>2, <1>3, <1>4, <1>5, <1>6, <1>7, <1>8
  DEF Next, WriterStep, ShellStep, ShellWork

(* A program that has ended makes no more steps, and a handle is removed   *)
(* after the program of its end was found to have ended.                   *)
LEMMA UnusedStep ==
  ASSUME TypeOK, EndsInOrder, DestroyedUnused, [Next]_vars
  PROVE  DestroyedUnused'
<1>0. ~UseDestroyed("writer") /\ ~UseDestroyed("reader")
  BY NoneDangles DEF Program
<1> USE DEF TypeOK, DestroyedUnused, EndOf, Program, Move, Thread, Producer,
            ProducerLabel
<1>1. ASSUME NEW t \in Producer, WriteChar(t) PROVE DestroyedUnused'
  BY <1>1 DEF WriteChar, WriteCheck, WaitEmpty, WriteRecheck, Put, Advance, Wrap,
              NotifyFill, Refused, Written
<1>2. CASE Write \/ EnterWrite \/ WriteLoop \/ WriterEnds
  BY <1>2 DEF Write, EnterWrite, WriteLoop, WriterEnds
<1>3. CASE ReaderStep
  BY <1>0, <1>3
  DEF ReaderStep, Read, EnterRead, ReadCheck, WaitFill, ReadRecheck, Take, NotifyEmpty,
      SetClosedOut, ReaderEnds, Return, Proceed
<1>4. CASE CloseIn \/ CloseOut \/ SetClosedIn \/ ReleaseWriter \/ ReleaseReader
  BY <1>4 DEF CloseIn, CloseOut, SetClosedIn, ReleaseWriter, ReleaseReader
<1>5. ASSUME NEW e \in End, RemoveHandle(e) PROVE DestroyedUnused'
  BY <1>5 DEF RemoveHandle, EndsInOrder, End
<1>6. CASE UNCHANGED vars
  BY <1>6 DEF vars
<1> QED
  BY <1>0, <1>1, <1>2, <1>3, <1>4, <1>5, <1>6
  DEF Next, WriterStep, ShellStep, ShellWork

-----------------------------------------------------------------------------
(* Arithmetic of the ring.                                                 *)

(* Cells of the ring at different distances below Capacity are different.  *)
LEMMA CellsDiffer ==
  ASSUME NEW p \in 0 .. Capacity - 1, NEW j \in 0 .. Capacity - 1,
         NEW k \in 0 .. Capacity - 1, j # k
  PROVE  Cell(p, j) \in 0 .. Capacity - 1 /\ Cell(p, j) # Cell(p, k)
  BY DEF Cell

NextCell(p) == IF p + 1 = Capacity THEN 0 ELSE p + 1

(* Advancing read_ptr with its roll-over shortens every distance by one.   *)
LEMMA CellShift ==
  ASSUME NEW p \in 0 .. Capacity - 1, NEW k \in 0 .. Capacity - 1
  PROVE  /\ NextCell(p) \in 0 .. Capacity - 1
         /\ Cell(NextCell(p), k) = Cell(p, k + 1)
  BY DEF Cell, NextCell

(* Rolling write_ptr over leads to the next free cell.                     *)
LEMMA WrapsToNextCell ==
  ASSUME NEW p \in 0 .. Capacity - 1, NEW n \in 1 .. Capacity
  PROVE  (IF Cell(p, n - 1) + 1 = Capacity THEN 0 ELSE Cell(p, n - 1) + 1) = Cell(p, n)
  BY DEF Cell

-----------------------------------------------------------------------------
(* The pointers and the content of the ring.                               *)

RingInv ==
  TokenInv /\ EndsInOrder /\ DestroyedUnused /\ PointerInPlace /\ RingHoldsUnread

(* A step that neither touches the ring nor begins or ends a store.        *)
LEMMA RingUntouched ==
  ASSUME PointerInPlace, RingHoldsUnread,
         UNCHANGED <<write_ptr, read_ptr, buffer, seen, sent, received>>,
         \A t \in Producer : pc'[t] \in {"put", "advance", "wrap"} => pc'[t] = pc[t],
         \A t \in Producer : pc[t] \in {"advance", "wrap"} => pc'[t] = pc[t]
  PROVE  PointerInPlace' /\ RingHoldsUnread'
<1>1. Unread' = Unread
  BY DEF Unread
<1>2. \A k : Cell(read_ptr, k)' = Cell(read_ptr, k)
  BY DEF Cell
<1>3. PointerInPlace'
  BY <1>1 DEF PointerInPlace, Cell
<1>4. RingHoldsUnread'
  BY <1>1, <1>2 DEF RingHoldsUnread, Cell
<1> QED BY <1>3, <1>4

(* At most one producer is inside write_char in an orderly pipeline.       *)
LEMMA OneProducer ==
  ASSUME TypeOK, EndsInOrder, NEW t \in Producer, NEW u \in Producer, t # u,
         pc[t] \in {"put", "advance", "wrap", "notify_fill", "recheck"}
  PROVE  pc[u] \notin {"put", "advance", "wrap", "notify_fill", "recheck"}
  BY DEF TypeOK, EndsInOrder, Producer, ProducerLabel

(* A producer stores into the first free cell, beyond every unread one.    *)
LEMMA PutRing ==
  ASSUME RingInv, NEW t \in Producer, Put(t)
  PROVE  PointerInPlace' /\ RingHoldsUnread'
<1> DEFINE c == CharOf(t)
<1>0. /\ TypeOK /\ EndsInOrder /\ PointerInPlace /\ RingHoldsUnread
      /\ t \in Thread
  BY DEF RingInv, TokenInv, Producer, Thread
<1>1. /\ pc[t] = "put" /\ pc'[t] = "advance"
      /\ \A u \in Producer \ {t} : pc'[u] = pc[u] /\ pc[u] \notin {"put", "advance", "wrap"}
  BY <1>0, MoveLabels, OneProducer DEF Put, Producer, Thread
<1>2. /\ Unread \in 0 .. Capacity - 1
      /\ write_ptr = Cell(read_ptr, Unread)
      /\ read_ptr \in 0 .. Capacity - 1
      /\ sent \in Seq(Char) /\ Len(sent) \in Nat /\ Len(received) \in Nat
      /\ buffer \in [0 .. Capacity - 1 -> Char \cup {Zero}]
  <2>1. \A u \in Producer : pc[u] \notin {"advance", "wrap"}
    BY <1>1
  <2> QED BY <1>0, <1>1, <2>1 DEF PointerInPlace, TypeOK
<1>3. write_ptr \in 0 .. Capacity - 1
  BY <1>2 DEF Cell
<1>4. /\ buffer' = [buffer EXCEPT ![write_ptr] = c]
      /\ sent' = Append(sent, c)
      /\ UNCHANGED <<write_ptr, read_ptr, received>>
      /\ seen'[t] = write_ptr
  BY <1>0, <1>3 DEF Put, TypeOK
<1>5. /\ Len(sent') = Len(sent) + 1
      /\ sent'[Len(sent) + 1] = c
      /\ \A i \in 1 .. Len(sent) : sent'[i] = sent[i]
  BY <1>2, <1>4
<1>6. Unread' = Unread + 1 /\ Len(sent) = Len(received) + Unread
  BY <1>2, <1>4, <1>5 DEF Unread
<1>7. PointerInPlace'
  <2>1. write_ptr' = Cell(read_ptr', Unread' - 1)
    BY <1>2, <1>4, <1>6 DEF Cell
  <2>2. Unread' \in 0 .. Capacity /\ Unread' > 0
    BY <1>2, <1>6
  <2> QED BY <1>1, <1>4, <2>1, <2>2 DEF PointerInPlace, Cell
<1>8. RingHoldsUnread'
  <2> SUFFICES ASSUME NEW k \in 0 .. Unread
               PROVE  buffer'[Cell(read_ptr, k)] = sent'[Len(received) + k + 1]
    <3>1. \A k \in 0 .. Unread' - 1 : k \in 0 .. Unread
      BY <1>2, <1>6
    <3> QED BY <1>4, <3>1 DEF RingHoldsUnread
  <2>1. CASE k = Unread
    BY <1>2, <1>3, <1>4, <1>5, <1>6, <2>1
  <2>2. CASE k # Unread
    <3>1. k \in 0 .. Unread - 1 /\ k \in 0 .. Capacity - 1
      BY <1>2, <2>2
    <3>2. buffer[Cell(read_ptr, k)] = sent[Len(received) + k + 1]
      BY <1>0, <3>1 DEF RingHoldsUnread
    <3>3. Cell(read_ptr, k) \in 0 .. Capacity - 1 /\ Cell(read_ptr, k) # write_ptr
      BY <1>2, <2>2, <3>1, CellsDiffer
    <3>4. Len(received) + k + 1 \in 1 .. Len(sent)
      BY <1>2, <1>6, <3>1
    <3>5. buffer'[Cell(read_ptr, k)] = buffer[Cell(read_ptr, k)]
      BY <1>2, <1>4, <3>3
    <3> QED BY <1>5, <3>2, <3>4, <3>5
  <2> QED BY <2>1, <2>2
<1> QED BY <1>7, <1>8

(* The increment moves write_ptr beyond the character just stored.         *)
LEMMA AdvanceRing ==
  ASSUME RingInv, NEW t \in Producer, Advance(t)
  PROVE  PointerInPlace' /\ RingHoldsUnread'
<1>0. /\ TypeOK /\ EndsInOrder /\ PointerInPlace /\ RingHoldsUnread
      /\ t \in Thread
  BY DEF RingInv, TokenInv, Producer, Thread
<1>1. /\ pc[t] = "advance" /\ pc'[t] = "wrap"
      /\ \A u \in Producer \ {t} : pc'[u] = pc[u] /\ pc[u] \notin {"put", "advance", "wrap"}
  BY <1>0, MoveLabels, OneProducer DEF Advance, Producer, Thread
<1>2. /\ write_ptr' = Cell(read_ptr, Unread - 1) + 1
      /\ UNCHANGED <<read_ptr, buffer, seen, sent, received, Unread>>
      /\ Unread > 0
  BY <1>0, <1>1 DEF Advance, PointerInPlace, locals, history, Unread
<1>3. PointerInPlace'
  BY <1>0, <1>1, <1>2 DEF PointerInPlace
<1>4. RingHoldsUnread'
  BY <1>0, <1>2 DEF RingHoldsUnread
<1> QED BY <1>3, <1>4

(* The roll-over brings write_ptr back into the buffer.                    *)
LEMMA WrapRing ==
  ASSUME RingInv, NEW t \in Producer, Wrap(t)
  PROVE  PointerInPlace' /\ RingHoldsUnread'
<1>0. /\ TypeOK /\ EndsInOrder /\ PointerInPlace /\ RingHoldsUnread
      /\ t \in Thread
  BY DEF RingInv, TokenInv, Producer, Thread
<1>1. /\ pc[t] = "wrap" /\ pc'[t] = "notify_fill"
      /\ \A u \in Producer \ {t} : pc'[u] = pc[u] /\ pc[u] \notin {"put", "advance", "wrap"}
  BY <1>0, MoveLabels, OneProducer DEF Wrap, Producer, Thread
<1>2. /\ write_ptr = Cell(read_ptr, Unread - 1) + 1
      /\ Unread \in 1 .. Capacity
      /\ read_ptr \in 0 .. Capacity - 1
  BY <1>0, <1>1 DEF PointerInPlace, TypeOK
<1>3. /\ write_ptr' = IF write_ptr = Capacity THEN 0 ELSE write_ptr
      /\ UNCHANGED <<read_ptr, buffer, seen, sent, received, Unread>>
  BY DEF Wrap, locals, history, Unread
<1>4. write_ptr' = Cell(read_ptr, Unread)
  BY <1>2, <1>3, WrapsToNextCell
<1>5. PointerInPlace'
  BY <1>0, <1>1, <1>3, <1>4 DEF PointerInPlace
<1>6. RingHoldsUnread'
  BY <1>0, <1>3 DEF RingHoldsUnread
<1> QED BY <1>5, <1>6

(* What the reader takes is the oldest character not received yet.         *)
LEMMA TakeRing ==
  ASSUME RingInv, Take
  PROVE  /\ PointerInPlace' /\ RingHoldsUnread'
         /\ Len(received) < Len(sent)
         /\ received' = Append(received, sent[Len(received) + 1])
<1>0. /\ TypeOK /\ EndsInOrder /\ PointerInPlace /\ RingHoldsUnread /\ TokensConserved
      /\ "reader" \in Thread
  BY DEF RingInv, TokenInv, Thread
<1>1. /\ pc["reader"] = "take"
      /\ \A u \in Producer : pc'[u] = pc[u]
  BY <1>0, MoveLabels DEF Take, Producer, Thread
<1>2. ~closed_out
  BY <1>0, <1>1 DEF EndsInOrder
<1>3. /\ read_ptr \in 0 .. Capacity - 1 /\ fill_count \in Nat
      /\ Len(sent) \in Nat /\ Len(received) \in Nat
      /\ Unread \in 0 .. Capacity
      /\ Len(sent) = Len(received) + Unread
  BY <1>0 DEF TypeOK, PointerInPlace, Unread
<1>4. Unread > 0
  BY <1>0, <1>1, <1>2, <1>3 DEF TokensConserved, One, Unannounced
<1>5. \A u \in Producer : pc[u] \in {"advance", "wrap"} => Unread > 1
  BY <1>0, <1>1, <1>2, <1>3 DEF TokensConserved, One, Unannounced, Producer
<1>6. /\ received' = Append(received, buffer[read_ptr])
      /\ read_ptr' = NextCell(read_ptr)
      /\ UNCHANGED <<write_ptr, buffer, seen, sent>>
  BY DEF Take, NextCell
<1>7. buffer[read_ptr] = sent[Len(received) + 1]
  <2>1. Cell(read_ptr, 0) = read_ptr
    BY <1>3 DEF Cell
  <2>2. 0 \in 0 .. Unread - 1 /\ Len(received) + 0 + 1 = Len(received) + 1
    BY <1>3, <1>4
  <2> QED BY <1>0, <2>1, <2>2 DEF RingHoldsUnread
<1>8. Len(received') = Len(received) + 1 /\ Unread' = Unread - 1
  BY <1>0, <1>3, <1>6 DEF TypeOK, Unread
<1>9. PointerInPlace'
  <2>1. \A u \in Producer : pc[u] \in {"advance", "wrap"}
          => Cell(read_ptr', Unread' - 1) = Cell(read_ptr, Unread - 1) /\ Unread' > 0
    <3> SUFFICES ASSUME NEW u \in Producer, pc[u] \in {"advance", "wrap"}
                 PROVE  Cell(read_ptr', Unread' - 1) = Cell(read_ptr, Unread - 1)
                        /\ Unread' > 0
      OBVIOUS
    <3>1. Unread - 2 \in 0 .. Capacity - 1 /\ Unread - 2 + 1 = Unread - 1
      BY <1>3, <1>5
    <3>2. Cell(NextCell(read_ptr), Unread - 2) = Cell(read_ptr, Unread - 1)
      BY <1>3, <3>1, CellShift
    <3>3. Unread' - 1 = Unread - 2 /\ Unread' > 0
      BY <1>3, <1>5, <1>8
    <3> QED BY <1>6, <3>2, <3>3
  <2>2. Cell(read_ptr', Unread') = Cell(read_ptr, Unread)
    <3>1. Unread - 1 \in 0 .. Capacity - 1 /\ Unread - 1 + 1 = Unread
      BY <1>3, <1>4
    <3> QED BY <1>3, <1>6, <1>8, <3>1, CellShift
  <2>3. Unread' \in 0 .. Capacity /\ Unread' < Capacity
    BY <1>3, <1>4, <1>8
  <2> QED BY <1>0, <1>1, <1>6, <2>1, <2>2, <2>3 DEF PointerInPlace
<1>10. RingHoldsUnread'
  <2> SUFFICES ASSUME NEW k \in 0 .. Unread' - 1
               PROVE  buffer[Cell(read_ptr', k)] = sent[Len(received') + k + 1]
    BY <1>6 DEF RingHoldsUnread
  <2>1. /\ k \in 0 .. Capacity - 1 /\ k + 1 \in 0 .. Unread - 1
        /\ Len(received') + k + 1 = Len(received) + (k + 1) + 1
    BY <1>3, <1>8
  <2>2. Cell(read_ptr', k) = Cell(read_ptr, k + 1)
    BY <1>3, <1>6, <2>1, CellShift
  <2> QED BY <1>0, <2>1, <2>2 DEF RingHoldsUnread
<1> QED BY <1>3, <1>4, <1>6, <1>7, <1>9, <1>10

(* A producer that was let past the check has a free cell to store into.   *)
LEMMA RecheckRing ==
  ASSUME RingInv, NEW t \in Producer, WriteRecheck(t)
  PROVE  PointerInPlace' /\ RingHoldsUnread'
<1>0. /\ TypeOK /\ EndsInOrder /\ PointerInPlace /\ RingHoldsUnread /\ TokensConserved
      /\ t \in Thread
  BY DEF RingInv, TokenInv, Producer, Thread
<1>1. /\ pc[t] = "recheck" /\ pc'[t] \in {"set_closed_in", "idle", "put"}
      /\ closed_out => pc'[t] # "put"
      /\ \A u \in Producer \ {t} : pc'[u] = pc[u] /\ pc[u] \notin {"put", "advance", "wrap"}
  BY <1>0, MoveLabels, OneProducer DEF WriteRecheck, Refused, Producer, Thread
<1>2. UNCHANGED <<write_ptr, read_ptr, buffer, seen, sent, received, Unread>>
  BY DEF WriteRecheck, ring, locals, history, Unread
<1>3. empty_count \in Nat /\ Unread \in 0 .. Capacity
  BY <1>0 DEF TypeOK, PointerInPlace
<1>4. ~closed_out => Unread < Capacity
  BY <1>0, <1>1, <1>3 DEF TokensConserved, One, Reserved, Producer
<1>5. PointerInPlace'
  BY <1>0, <1>1, <1>2, <1>4 DEF PointerInPlace
<1>6. RingHoldsUnread'
  BY <1>0, <1>2 DEF RingHoldsUnread
<1> QED BY <1>5, <1>6

(* Every step keeps the unread characters in the ring.                     *)
LEMMA RingStep == RingInv /\ [Next]_vars => RingInv'
<1> SUFFICES ASSUME RingInv, [Next]_vars PROVE RingInv'
  OBVIOUS
<1>0. /\ TypeOK /\ EndsInOrder /\ PointerInPlace /\ RingHoldsUnread
      /\ ~UseDestroyed("writer") /\ ~UseDestroyed("reader")
  BY NoneDangles DEF RingInv, TokenInv, Program
<1>1. TokenInv' /\ EndsInOrder' /\ DestroyedUnused'
  BY <1>0, TokenStep, NextIsAny, EndsStep, UnusedStep DEF RingInv
<1> SUFFICES PointerInPlace' /\ RingHoldsUnread'
  BY <1>1 DEF RingInv
<1>2. ASSUME NEW t \in Producer, WriteChar(t)
      PROVE  PointerInPlace' /\ RingHoldsUnread'
  <2>1. CASE WriteCheck(t) \/ WaitEmpty(t) \/ NotifyFill(t)
    <3>1. /\ \A u \in Producer \ {t} : pc'[u] = pc[u]
          /\ pc[t] \in {"check", "wait_empty", "notify_fill"}
          /\ pc'[t] \in {"set_closed_in", "idle", "wait_empty", "recheck", "loop"}
      BY <1>0, <2>1, MoveLabels
      DEF WriteCheck, WaitEmpty, NotifyFill, Refused, Written, Producer, Thread
    <3>2. UNCHANGED <<write_ptr, read_ptr, buffer, seen, sent, received>>
      BY <2>1 DEF WriteCheck, WaitEmpty, NotifyFill, ring, locals, history
    <3> QED BY <1>0, <3>1, <3>2, RingUntouched
  <2> QED
    BY <1>2, <2>1, RecheckRing, PutRing, AdvanceRing, WrapRing DEF WriteChar
<1>3. CASE Write \/ EnterWrite \/ WriteLoop \/ WriterEnds
  <2>1. /\ pc["writer"] \in {"idle", "file", "loop"}
        /\ pc'["writer"] \in {"idle", "file", "loop", "check", "done"}
        /\ pc'["shell"] = pc["shell"]
    BY <1>0, <1>3, MoveLabels DEF Write, EnterWrite, WriteLoop, WriterEnds, Thread
  <2>2. UNCHANGED <<write_ptr, read_ptr, buffer, seen, sent, received>>
    BY <1>3 DEF Write, EnterWrite, WriteLoop, WriterEnds, ring, locals, history
  <2> QED BY <1>0, <2>1, <2>2, RingUntouched DEF Producer
<1>4. CASE ReaderStep
  <2>1. CASE Take
    BY <2>1, TakeRing
  <2>2. CASE ReaderStep /\ ~Take
    <3>1. \A u \in Producer : pc'[u] = pc[u]
      BY <1>0, <2>2, MoveLabels
      DEF ReaderStep, Read, EnterRead, ReadCheck, WaitFill, ReadRecheck, NotifyEmpty,
          SetClosedOut, ReaderEnds, Return, Proceed, Producer, Thread
    <3>2. UNCHANGED <<write_ptr, read_ptr, buffer, seen, sent, received>>
      BY <1>0, <2>2
      DEF ReaderStep, Read, EnterRead, ReadCheck, WaitFill, ReadRecheck, NotifyEmpty,
          SetClosedOut, ReaderEnds, ring, locals, history
    <3> QED BY <1>0, <3>1, <3>2, RingUntouched
  <2> QED BY <1>4, <2>1, <2>2
<1>5. CASE CloseIn \/ CloseOut \/ SetClosedIn \/ ReleaseWriter \/ ReleaseReader
           \/ \E e \in End : RemoveHandle(e)
  <2>1. /\ pc["shell"] \notin {"put", "advance", "wrap"}
        /\ pc'["shell"] \notin {"put", "advance", "wrap"}
        /\ pc'["writer"] = pc["writer"]
    BY <1>0, <1>5, MoveLabels
    DEF CloseIn, CloseOut, SetClosedIn, ReleaseWriter, ReleaseReader, RemoveHandle, Thread
  <2>2. UNCHANGED <<write_ptr, read_ptr, buffer, seen, sent, received>>
    BY <1>5
    DEF CloseIn, CloseOut, SetClosedIn, ReleaseWriter, ReleaseReader, RemoveHandle, ring,
        locals, history
  <2> QED BY <1>0, <2>1, <2>2, RingUntouched DEF Producer
<1>6. CASE UNCHANGED vars
  <2>1. UNCHANGED <<write_ptr, read_ptr, buffer, seen, sent, received, pc>>
    BY <1>6 DEF vars, ring, locals, history
  <2> QED BY <1>0, <2>1, RingUntouched
<1> QED
  BY <1>0, <1>2, <1>3, <1>4, <1>5, <1>6
  DEF Next, WriterStep, ShellStep, ShellWork, Producer

(* An empty ring holds what was not read.                                  *)
LEMMA RingInit == Init => RingInv
<1> SUFFICES ASSUME Init PROVE RingInv
  OBVIOUS
<1>1. Unread = 0 /\ Cell(read_ptr, Unread) = 0 /\ read_ptr = 0
  BY DEF Init, Unread, Cell
<1>2. EndsInOrder /\ DestroyedUnused
  BY DEF Init, EndsInOrder, ProducerLabel, Thread, DestroyedUnused, Program, EndOf, End
<1>3. PointerInPlace
  BY <1>1 DEF Init, PointerInPlace, Producer, Thread
<1>4. RingHoldsUnread
  BY <1>1 DEF RingHoldsUnread
<1> QED BY <1>2, <1>3, <1>4, TokenInit DEF RingInv

(* No character is overwritten before it was read, nor read twice, however *)
(* the pointers roll over (Pipe::write_char, Pipe::Read).                  *)
THEOREM UnreadIsKept == Spec => []RingHoldsUnread
<1>1. RingInv => RingHoldsUnread
  BY DEF RingInv
<1> QED BY RingInit, RingStep, <1>1, PTL DEF Spec

(* No program of an orderly pipeline is inside of a file or a Pipe when    *)
(* the shell destroys it (Close_File, the loop of call_piped_programs).    *)
THEOREM DestroyedIsUnused == Spec => []DestroyedUnused
<1>1. RingInv => DestroyedUnused
  BY DEF RingInv
<1> QED BY RingInit, RingStep, <1>1, PTL DEF Spec

-----------------------------------------------------------------------------
(* The pipe implements the channel.                                        *)

(* After EOT the reader does nothing but close the output.                 *)
LEMMA EotStep ==
  ASSUME RingInv, EotEndsReading, [Next]_vars
  PROVE  EotEndsReading'
<1>0. /\ TypeOK /\ "reader" \in Thread /\ received \in Seq(Char \cup {Zero})
      /\ ~UseDestroyed("writer") /\ ~UseDestroyed("reader")
  BY NoneDangles DEF RingInv, TokenInv, TypeOK, Thread, Program
<1>1. CASE Take
  BY <1>0, <1>1, MoveLabels DEF Take, EotEndsReading
<1>2. CASE NotifyEmpty
  BY <1>0, <1>2, MoveLabels DEF NotifyEmpty, EotEndsReading, LastReceived, history
<1>3. CASE SetClosedOut
  BY <1>3 DEF SetClosedOut, EotEndsReading
<1>4. CASE Read \/ EnterRead \/ ReadCheck \/ WaitFill \/ ReadRecheck \/ ReaderEnds
  <2>1. pc["reader"] \in {"idle", "file", "check", "wait_fill", "recheck"}
    BY <1>4
    DEF Read, EnterRead, ReadCheck, WaitFill, ReadRecheck, ReaderEnds, Return, Proceed,
        Move
  <2>2. UNCHANGED <<closed_out, received>>
    BY <1>4 DEF Read, EnterRead, ReadCheck, WaitFill, ReadRecheck, ReaderEnds, flags, history
  <2> QED BY <2>1, <2>2 DEF EotEndsReading, LastReceived
<1>5. CASE WriterStep \/ ShellStep \/ UNCHANGED vars
  <2>1. received' = received /\ pc'["reader"] = pc["reader"] /\ (closed_out => closed_out')
    BY <1>0, <1>5, MoveLabels
    DEF WriterStep, Write, EnterWrite, WriteLoop, WriterEnds, ShellStep, ShellWork, CloseIn,
        CloseOut, SetClosedIn, ReleaseWriter, ReleaseReader, RemoveHandle, WriteChar, WriteCheck,
        WaitEmpty, WriteRecheck, Put, Advance, Wrap, NotifyFill, Thread, vars, flags,
        history
  <2> QED BY <2>1 DEF EotEndsReading, LastReceived
<1> QED BY <1>0, <1>1, <1>2, <1>3, <1>4, <1>5 DEF Next, ReaderStep

(* Every step of an orderly pipeline preserves the whole invariant.        *)
LEMMA PipeInvStep ==
  PipeInv /\ ReleasedAfterClose /\ RemovedAfterClose /\ [Next]_vars
    => PipeInv' /\ ReleasedAfterClose' /\ RemovedAfterClose'
  BY RingStep, EotStep DEF PipeInv, RingInv, TokenInv

(* The invariant holds at first.                                           *)
LEMMA PipeInvInit == Init => PipeInv /\ ReleasedAfterClose /\ RemovedAfterClose
<1>1. Init => EotEndsReading
  BY DEF Init, EotEndsReading
<1> QED BY <1>1, RingInit DEF PipeInv, RingInv, TokenInv

(* The inductive invariant of an orderly pipeline holds throughout.        *)
THEOREM PipeInvariant == Spec => []PipeInv
BY PipeInvInit, PipeInvStep, PTL DEF Spec

(* A step that neither stores, takes nor closes leaves the channel alone.  *)
LEMMA ChannelUntouched ==
  ASSUME UNCHANGED <<sent, received>>, InputOpen' = InputOpen
  PROVE  UNCHANGED Chan!vars
  BY DEF Chan!vars

(* Put sends a character or closes the channel; the other steps of         *)
(* write_char leave the channel as it is.                                  *)
LEMMA WriteCharRefines ==
  ASSUME PipeInv, NEW t \in Producer, WriteChar(t)
  PROVE  [Chan!Next]_Chan!vars
<1>0. /\ TypeOK /\ EndsInOrder /\ PointerInPlace
      /\ t \in Thread /\ "shell" \in Thread /\ "writer" \in Thread
  BY DEF PipeInv, Producer, Thread
<1>1. CASE Put(t)
  <2>1. Chan!Room
    BY <1>0, <1>1 DEF Put, Move, PointerInPlace, Chan!Room, TypeOK, Unread
  <2>2. sent' = Append(sent, CharOf(t)) /\ received' = received /\ closed_in' = closed_in
    BY <1>1 DEF Put, flags
  <2>3. CASE t = "writer"
    <3>1. pc["writer"] = "put" /\ pc'["shell"] = pc["shell"]
      BY <1>0, <1>1, <2>3, MoveLabels DEF Put, Thread
    <3>2. InputOpen /\ InputOpen'
      BY <1>0, <2>2, <3>1 DEF EndsInOrder, InputOpen, ProducerLabel
    <3>3. CharOf(t) \in Char
      BY <1>0, <2>3, <3>1 DEF CharOf, TypeOK, ProducerLabel
    <3>4. Chan!Send(CharOf(t))
      BY <2>1, <2>2, <3>2 DEF Chan!Send
    <3> QED BY <3>3, <3>4 DEF Chan!Next
  <2>4. CASE t = "shell"
    <3>1. pc["shell"] = "put" /\ pc'["shell"] = "advance"
      BY <1>0, <1>1, <2>4, MoveLabels DEF Put
    <3>2. InputOpen /\ InputOpen' = FALSE
      BY <1>0, <3>1 DEF EndsInOrder, InputOpen, ProducerLabel
    <3>3. Chan!Close
      BY <2>1, <2>2, <2>4, <3>2 DEF Chan!Close, CharOf
    <3> QED BY <3>3 DEF Chan!Next
  <2> QED BY <2>3, <2>4 DEF Producer
<1>2. CASE WriteCheck(t) \/ WriteRecheck(t)
  <2>1. UNCHANGED <<sent, received, closed_in>>
    BY <1>2 DEF WriteCheck, WriteRecheck, flags, history
  <2>2. CASE t = "shell" /\ pc'[t] = "set_closed_in"
    <3>1. pc["shell"] \in {"check", "recheck"}
      BY <1>2, <2>2 DEF WriteCheck, WriteRecheck, Move
    <3>2. InputOpen /\ InputOpen' = FALSE
      BY <1>0, <2>2, <3>1 DEF EndsInOrder, InputOpen, ProducerLabel
    <3> QED BY <2>1, <3>2 DEF Chan!Abandon, Chan!Next
  <2>3. CASE ~(t = "shell" /\ pc'[t] = "set_closed_in")
    <3>1. \/ pc'["shell"] = pc["shell"]
          \/ /\ pc["shell"] \in {"check", "recheck"}
             /\ pc'["shell"] \in {"wait_empty", "put"}
      BY <1>0, <1>2, <2>3, MoveLabels
      DEF WriteCheck, WriteRecheck, Refused, Producer, Thread
    <3>2. InputOpen' = InputOpen
      BY <2>1, <3>1 DEF InputOpen
    <3> QED BY <2>1, <3>2, ChannelUntouched
  <2> QED BY <2>2, <2>3
<1>3. CASE WaitEmpty(t) \/ Advance(t) \/ Wrap(t) \/ NotifyFill(t)
  <2>1. UNCHANGED <<sent, received, closed_in>>
    BY <1>3 DEF WaitEmpty, Advance, Wrap, NotifyFill, flags, history
  <2>2. \/ pc'["shell"] = pc["shell"]
        \/ pc["shell"] = "wait_empty" /\ pc'["shell"] = "recheck"
        \/ /\ pc["shell"] \in {"advance", "wrap", "notify_fill"}
           /\ pc'["shell"] \in {"wrap", "notify_fill", "set_closed_in"}
    BY <1>0, <1>3, MoveLabels
    DEF WaitEmpty, Advance, Wrap, NotifyFill, Written, Producer, Thread
  <2>3. InputOpen' = InputOpen
    BY <2>1, <2>2 DEF InputOpen
  <2> QED BY <2>1, <2>3, ChannelUntouched
<1> QED BY <1>1, <1>2, <1>3 DEF WriteChar

(* Every step of the pipe is a step of the channel or leaves it as it is.  *)
LEMMA StepRefines ==
  PipeInv /\ ReleasedAfterClose /\ RemovedAfterClose /\ [Next]_vars
    => [Chan!Next]_Chan!vars
<1> SUFFICES ASSUME PipeInv, ReleasedAfterClose, RemovedAfterClose, [Next]_vars
             PROVE  [Chan!Next]_Chan!vars
  OBVIOUS
<1>0. /\ TypeOK /\ EndsInOrder /\ RingInv
      /\ "shell" \in Thread /\ "reader" \in Thread /\ "writer" \in Thread
      /\ ~UseDestroyed("writer") /\ ~UseDestroyed("reader")
  BY NoneDangles DEF PipeInv, RingInv, TokenInv, Thread, Program
<1>1. ASSUME NEW t \in Producer, WriteChar(t) PROVE [Chan!Next]_Chan!vars
  BY <1>1, WriteCharRefines
<1>2. CASE Take
  <2>1. pc["reader"] = "take" /\ pc'["shell"] = pc["shell"] /\ closed_in' = closed_in
    BY <1>0, <1>2, MoveLabels DEF Take, Thread, flags
  <2>2. ~Chan!Ended
    BY <1>0, <2>1 DEF PipeInv, EotEndsReading, EndsInOrder, LastReceived, Chan!Ended
  <2>3. InputOpen' = InputOpen
    BY <2>1 DEF InputOpen
  <2>4. Chan!Receive
    BY <1>0, <1>2, <2>2, <2>3, TakeRing DEF Take, Chan!Receive
  <2> QED BY <2>4 DEF Chan!Next
<1>3. CASE (ReaderStep /\ ~Take) \/ Write \/ EnterWrite \/ WriteLoop \/ WriterEnds
  <2>1. UNCHANGED <<sent, received, closed_in>> /\ pc'["shell"] = pc["shell"]
    BY <1>0, <1>3, MoveLabels
    DEF ReaderStep, Read, EnterRead, ReadCheck, WaitFill, ReadRecheck, NotifyEmpty,
        SetClosedOut, ReaderEnds, Return, Proceed, Write, EnterWrite, WriteLoop, WriterEnds,
        Thread, flags, history
  <2>2. InputOpen' = InputOpen
    BY <2>1 DEF InputOpen
  <2> QED BY <2>1, <2>2, ChannelUntouched
<1>4. CASE CloseIn \/ CloseOut \/ ReleaseWriter \/ ReleaseReader
           \/ \E e \in End : RemoveHandle(e)
  <2>1. /\ UNCHANGED <<sent, received, closed_in>>
        /\ pc["shell"] \notin {"advance", "wrap", "notify_fill", "set_closed_in"}
        /\ pc'["shell"] \notin {"advance", "wrap", "notify_fill", "set_closed_in"}
    BY <1>0, <1>4, MoveLabels
    DEF CloseIn, CloseOut, ReleaseWriter, ReleaseReader, RemoveHandle, flags, history
  <2>2. InputOpen' = InputOpen
    BY <2>1 DEF InputOpen
  <2> QED BY <2>1, <2>2, ChannelUntouched
<1>5. CASE SetClosedIn
  <2>1. /\ UNCHANGED <<sent, received>> /\ closed_in' = TRUE
        /\ pc["shell"] = "set_closed_in"
    BY <1>5 DEF SetClosedIn, Move, history
  <2>2. InputOpen' = InputOpen
    BY <2>1 DEF InputOpen
  <2> QED BY <2>1, <2>2, ChannelUntouched
<1>6. CASE UNCHANGED vars
  <2>1. UNCHANGED <<sent, received>> /\ InputOpen' = InputOpen
    BY <1>6 DEF vars, flags, history, InputOpen
  <2> QED BY <2>1, ChannelUntouched
<1> QED
  BY <1>0, <1>1, <1>2, <1>3, <1>4, <1>5, <1>6
  DEF Next, WriterStep, ReaderStep, ShellStep, ShellWork, Producer

(* What one program writes is what the other reads: in order, once, within *)
(* the capacity, EOT last and nothing taken after it.                      *)
THEOREM PipeIsChannel == Spec => ChannelSpec
<1>1. Init => Chan!Init
  BY DEF Init, Chan!Init, InputOpen, Thread
<1> QED BY PipeInvInit, PipeInvStep, StepRefines, <1>1, PTL DEF Spec, ChannelSpec, Chan!Spec
=============================================================================
