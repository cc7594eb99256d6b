------------------------------ MODULE Terminal ------------------------------
(***************************************************************************)
(* The keyboard and the three threads that use it: the loop of the shell   *)
(* (user/shell.cpp), rgen and the guard that rgen starts to read its input *)
(* (user/rgen.cpp), above Keyboard_File (kernel/keyboard_file.cpp) and the *)
(* queue of the simulated keyboard (boot/keyboard.cpp).                    *)
(*                                                                         *)
(* The console is interactive.  A step of a thread is one access to the    *)
(* queue, to Std_In_Is_Open, to the console or to the two flags that rgen  *)
(* and its guard share; what is echoed and printed is left out.            *)
(***************************************************************************)
EXTENDS Integers, Sequences

CONSTANTS
  Key,       (* the characters that the user may type                        *)
  Rgen,      (* the first character of the command that runs rgen            *)
  EOT, ETX, CR, LF, BS,  (* kiv_hal::NControl_Codes                          *)
  LineSize,  (* the size of the buffer passed to Read_File, 256 in the code  *)
  MaxQueue,  (* Max_Keyboard_Buffer_Size                                     *)
  MaxAhead,  (* bound: characters typed that nobody has read yet             *)
  MaxKeys    (* bound: characters typed                                      *)

Control == {EOT, ETX, CR, LF, BS}
Char == Key \cup {EOT}

ASSUME TerminalAssumption ==
  /\ Rgen \in Key \ Control
  /\ EOT \notin {ETX, CR, LF, BS} /\ ETX \notin {CR, LF, BS}
  /\ CR \notin {LF, BS} /\ LF # BS
  /\ LineSize \in Nat \ {0, 1}
  /\ MaxQueue \in Nat \ {0}
  /\ MaxAhead \in Nat /\ MaxKeys \in Nat

VARIABLES
  console,      (* what the user has typed and ReadFile has not taken       *)
  keys,         (* how many characters the user has typed                   *)
  queue,        (* Keyboard_Buffer                                          *)
  stdinOpen,    (* Std_In_Is_Open                                           *)
  pc,           (* where each thread is                                     *)
  line,         (* the buffer that the shell and the guard read a line into *)
  generate,     (* rgen's flag *generate, cleared by the guard              *)
  isGenerating, (* rgen's flag is_generating, read by the guard             *)
  eotRead,      (* the shell's eot_read                                     *)
  heard,        (* history: the guard of the last rgen was given EOT or ETX *)
                (* by the user                                              *)
  missed        (* history: the last rgen's CancelIoEx came after its guard *)
                (* had found the queue empty and before its ReadFile        *)

keyboard == <<console, keys, queue, stdinOpen>>
flags == <<generate, isGenerating>>
history == <<heard, missed>>
vars == <<keyboard, pc, line, flags, eotRead, history>>

Reader == {"shell", "guard"}
Thread == Reader \cup {"rgen"}

(* Where a thread is inside of Read_Line_From_Console.                     *)
Reading == {"read", "issue", "pending", "failed", "recheck"}

ReaderLabel == Reading \cup {"line", "none", "ended"}
ShellLabel == ReaderLabel \cup {"prompt", "wait"}
GuardLabel == ReaderLabel \cup {"flag", "stop"}
RgenLabel == {"none", "start", "test", "write", "check", "push", "cancel",
              "join", "ended"}

Goto(t, l) == pc' = [pc EXCEPT ![t] = l]

Init ==
  /\ console = <<>> /\ keys = 0
  /\ queue = <<>>
  /\ stdinOpen = TRUE
  /\ pc = [t \in Thread |-> IF t = "shell" THEN "prompt" ELSE "none"]
  /\ line = [t \in Reader |-> <<>>]
  /\ generate = FALSE /\ isGenerating = FALSE
  /\ eotRead = FALSE
  /\ heard = FALSE /\ missed = FALSE

(* The user types a character; the console keeps it until it is read.      *)
Press(c) ==
  /\ keys < MaxKeys /\ Len(console) < MaxAhead
  /\ console' = Append(console, c)
  /\ keys' = keys + 1
  /\ UNCHANGED <<queue, stdinOpen, pc, line, flags, eotRead, history>>

-----------------------------------------------------------------------------
(* Read_Line_From_Console and Read_Char                                    *)

(* The line s after the character c; the two ends of line are not kept.    *)
Edited(s, c) ==
  IF c = BS /\ s # <<>> THEN SubSeq(s, 1, Len(s) - 1)
  ELSE IF c \in {BS, LF, CR} THEN s
  ELSE Append(s, c)

(* Mutant of Take: EOT is a character like any other.                      *)
TakePlain(t, c) ==
  /\ line' = [line EXCEPT ![t] = Edited(@, c)]
  /\ Goto(t, IF c = CR \/ Len(line'[t]) = LineSize THEN "line" ELSE "read")

(* Mutant of Take: the buffer is passed by one character.                  *)
TakeOver(t, c) ==
  /\ line' = [line EXCEPT ![t] = Edited(@, c)]
  /\ Goto(t, IF c \in {CR, EOT} \/ Len(line'[t]) > LineSize THEN "line" ELSE "read")

(* What becomes of the character that Read_Char returned.  The line is     *)
(* complete with CR, with EOT, which is kept, or when the buffer is full.  *)
Take(t, c) ==
  /\ line' = [line EXCEPT ![t] = Edited(@, c)]
  /\ Goto(t, IF c \in {CR, EOT} \/ Len(line'[t]) = LineSize THEN "line" ELSE "read")

(* The queue is replayed before the console is asked.                      *)
Replay(t) ==
  /\ pc[t] = "read" /\ queue # <<>>
  /\ Take(t, Head(queue))
  /\ queue' = Tail(queue)
  /\ UNCHANGED <<console, keys, stdinOpen, flags, eotRead, history>>

(* The queue was empty: ReadFile is about to be called ...                 *)
Issue(t) ==
  /\ pc[t] = "read" /\ queue = <<>>
  /\ Goto(t, "issue")
  /\ UNCHANGED <<keyboard, line, flags, eotRead, history>>

(* ... and from here on CancelIoEx finds it.                               *)
Begin(t) ==
  /\ pc[t] = "issue"
  /\ Goto(t, "pending")
  /\ UNCHANGED <<keyboard, line, flags, eotRead, history>>

Typed(t) ==
  /\ pc[t] = "pending" /\ console # <<>>
  /\ Take(t, Head(console))
  /\ console' = Tail(console)
  /\ stdinOpen' = TRUE
  /\ heard' = (heard \/ (t = "guard" /\ Head(console) \in {EOT, ETX}))
  /\ UNCHANGED <<keys, queue, flags, eotRead, missed>>

(* ReadFile was cancelled and returns FALSE.                               *)
Fail(t) ==
  /\ pc[t] = "failed"
  /\ stdinOpen' = FALSE
  /\ Goto(t, "recheck")
  /\ UNCHANGED <<console, keys, queue, line, flags, eotRead, history>>

(* Mutant of Recheck: the character is read and left in the queue.        *)
RecheckPeek(t) ==
  /\ pc[t] = "recheck"
  /\ IF queue # <<>>
     THEN Take(t, Head(queue)) /\ stdinOpen' = TRUE
     ELSE Goto(t, "line") /\ UNCHANGED <<line, stdinOpen>>
  /\ UNCHANGED <<console, keys, queue, flags, eotRead, history>>

(* A cancelled read looks into the queue again.  If nothing is there,      *)
(* Read_Char reports an error and the line ends as it is.                  *)
Recheck(t) ==
  /\ pc[t] = "recheck"
  /\ IF queue # <<>>
     THEN Take(t, Head(queue)) /\ queue' = Tail(queue) /\ stdinOpen' = TRUE
     ELSE Goto(t, "line") /\ UNCHANGED <<line, queue, stdinOpen>>
  /\ UNCHANGED <<console, keys, flags, eotRead, history>>

ReadLine(t) ==
  \/ Replay(t) \/ Issue(t) \/ Begin(t)
  \/ Typed(t) \/ Fail(t) \/ Recheck(t)

-----------------------------------------------------------------------------
(* The guard of rgen                                                       *)

Occurs(c, s) == \E i \in DOMAIN s : s[i] = c

GuardLine ==
  /\ pc["guard"] = "line"
  /\ Goto("guard", IF Occurs(EOT, line["guard"]) \/ Occurs(ETX, line["guard"])
                   THEN "flag" ELSE "read")
  /\ line' = [line EXCEPT !["guard"] = <<>>]
  /\ UNCHANGED <<keyboard, flags, eotRead, history>>

(* The test of *is_generating.                                             *)
GuardFlag ==
  /\ pc["guard"] = "flag"
  /\ Goto("guard", IF isGenerating THEN "stop" ELSE "ended")
  /\ UNCHANGED <<keyboard, line, flags, eotRead, history>>

(* Mutant of GuardStop: the guard of an rgen that ended by itself.         *)
GuardStopLate ==
  /\ pc["guard"] = "stop"
  /\ generate' = isGenerating
  /\ Goto("guard", "ended")
  /\ UNCHANGED <<keyboard, line, isGenerating, eotRead, history>>

GuardStop ==
  /\ pc["guard"] = "stop"
  /\ generate' = FALSE
  /\ Goto("guard", "ended")
  /\ UNCHANGED <<keyboard, line, isGenerating, eotRead, history>>

GuardStep == ReadLine("guard") \/ GuardLine \/ GuardFlag \/ GuardStop

-----------------------------------------------------------------------------
(* rgen                                                                    *)

(* The two flags are set up and the guard is cloned.                       *)
RgenStart ==
  /\ pc["rgen"] = "start"
  /\ pc' = [pc EXCEPT !["rgen"] = "test", !["guard"] = "read"]
  /\ generate' = TRUE /\ isGenerating' = TRUE
  /\ heard' = FALSE /\ missed' = FALSE
  /\ UNCHANGED <<keyboard, line, eotRead>>

RgenTest ==
  /\ pc["rgen"] = "test"
  /\ Goto("rgen", IF generate THEN "write" ELSE "check")
  /\ UNCHANGED <<keyboard, line, flags, eotRead, history>>

(* A number is written, or the output is closed or full.                   *)
RgenWrite ==
  /\ pc["rgen"] = "write"
  /\ \/ Goto("rgen", "test") /\ UNCHANGED isGenerating
     \/ Goto("rgen", "check") /\ isGenerating' = FALSE
  /\ UNCHANGED <<keyboard, line, generate, eotRead, history>>

RgenCheck ==
  /\ pc["rgen"] = "check"
  /\ Goto("rgen", IF generate /\ ~isGenerating THEN "push" ELSE "ended")
  /\ UNCHANGED <<keyboard, line, flags, eotRead, history>>

(* Mutant of RgenPush: a read that waits for the console is not cancelled. *)
RgenPushOnly ==
  /\ pc["rgen"] = "push"
  /\ Goto("rgen", "join")
  /\ IF stdinOpen /\ Len(queue) < MaxQueue
     THEN queue' = Append(queue, EOT) ELSE UNCHANGED queue
  /\ UNCHANGED <<console, keys, stdinOpen, line, flags, eotRead, history>>

(* Write_Char: EOT enters the queue unless it is full or the input closed; *)
(* rgen does not look at the result of the write.                          *)
RgenPush ==
  /\ pc["rgen"] = "push"
  /\ IF stdinOpen /\ Len(queue) < MaxQueue
     THEN Goto("rgen", "cancel") /\ queue' = Append(queue, EOT)
     ELSE Goto("rgen", "join") /\ UNCHANGED queue
  /\ UNCHANGED <<console, keys, stdinOpen, line, flags, eotRead, history>>

(* Mutant of RgenCancelIo: rgen does not wait for its guard.               *)
RgenCancelIoEnd ==
  /\ pc["rgen"] = "cancel"
  /\ pc' = [t \in Thread |-> IF t = "rgen" THEN "ended"
                             ELSE IF pc[t] = "pending" THEN "failed" ELSE pc[t]]
  /\ UNCHANGED <<keyboard, line, flags, eotRead, history>>

(* CancelIoEx: a read that waits for the console returns.                 *)
RgenCancelIo ==
  /\ pc["rgen"] = "cancel"
  /\ pc' = [t \in Thread |-> IF t = "rgen" THEN "join"
                             ELSE IF pc[t] = "pending" THEN "failed" ELSE pc[t]]
  /\ missed' = (pc["guard"] = "issue")
  /\ UNCHANGED <<keyboard, line, flags, eotRead, heard>>

(* Wait_For of the guard's handle.                                         *)
RgenJoin ==
  /\ pc["rgen"] = "join" /\ pc["guard"] = "ended"
  /\ Goto("rgen", "ended")
  /\ UNCHANGED <<keyboard, line, flags, eotRead, history>>

RgenStep ==
  \/ RgenStart \/ RgenTest \/ RgenWrite \/ RgenCheck
  \/ RgenPush \/ RgenCancelIo \/ RgenJoin

-----------------------------------------------------------------------------
(* The loop of the shell                                                   *)

ShellPrompt ==
  /\ pc["shell"] = "prompt"
  /\ Goto("shell", "read")
  /\ line' = [line EXCEPT !["shell"] = <<>>]
  /\ UNCHANGED <<keyboard, flags, eotRead, history>>

(* What the shell makes of the buffer: a full one loses its last character *)
(* to the terminating zero, and EOT ends the text.                         *)
Kept == IF Len(line["shell"]) = LineSize
        THEN SubSeq(line["shell"], 1, LineSize - 1) ELSE line["shell"]

Again(eot) == IF eot THEN "ended" ELSE "prompt"

(* The command is run and waited for, also when EOT follows it: the loop   *)
(* ends after it.  Of all commands only rgen uses the keyboard again.      *)
ShellLine ==
  /\ pc["shell"] = "line"
  /\ eotRead' = Occurs(EOT, Kept)
  /\ IF Kept # <<>> /\ Kept[1] = Rgen
     THEN pc' = [pc EXCEPT !["shell"] = "wait", !["rgen"] = "start"]
     ELSE Goto("shell", Again(eotRead'))
  /\ UNCHANGED <<keyboard, line, flags, history>>

(* Read_Exit_Code has returned.                                            *)
ShellResume ==
  /\ pc["shell"] = "wait" /\ pc["rgen"] = "ended"
  /\ Goto("shell", Again(eotRead))
  /\ UNCHANGED <<keyboard, line, flags, eotRead, history>>

ShellStep == ReadLine("shell") \/ ShellPrompt \/ ShellLine \/ ShellResume

-----------------------------------------------------------------------------
Next ==
  \/ \E c \in Key : Press(c)
  \/ ShellStep
  \/ RgenStep
  \/ GuardStep

Spec == Init /\ [][Next]_vars

(* The threads are scheduled for as long as they can run.  Nothing makes   *)
(* the user type.                                                          *)
FairSpec ==
  Spec /\ WF_vars(ShellStep) /\ WF_vars(RgenStep) /\ WF_vars(GuardStep)

-----------------------------------------------------------------------------
(* Types: every buffer and queue holds characters and stays within its     *)
(* size; control characters that edit a line never get into one.           *)
TypeOK ==
  /\ console \in Seq(Key) /\ Len(console) <= MaxAhead
  /\ keys \in 0 .. MaxKeys
  /\ queue \in Seq({EOT}) /\ Len(queue) <= MaxQueue
  /\ pc \in [Thread -> ShellLabel \cup GuardLabel \cup RgenLabel]
  /\ pc["shell"] \in ShellLabel
  /\ pc["guard"] \in GuardLabel
  /\ pc["rgen"] \in RgenLabel
  /\ line \in [Reader -> Seq(Char \ {CR, LF, BS})]
  /\ \A t \in Reader : Len(line[t]) <= LineSize
  /\ {stdinOpen, generate, isGenerating, eotRead, heard, missed} \subseteq BOOLEAN

(* The flags and the parameters of the guard are in the frame of rgen: as  *)
(* long as the guard may use them rgen has not returned.  So there is also *)
(* only one thread at a time that reads the keyboard.                      *)
GuardInFrame ==
  pc["guard"] \notin {"none", "ended"} => pc["rgen"] \notin {"none", "start", "ended"}

(* The EOT that rgen writes is for its guard.  When the shell finds one,   *)
(* and ends because of it, the user had already ended the same input: the  *)
(* guard had stopped reading, and rgen could not see it between the test   *)
(* of *is_generating and the one of *generate.                             *)
StrayEot ==
  pc["shell"] \in Reading /\ queue # <<>> => heard

(* EOT from the user stops rgen; ETX does when the line that has it ends.  *)
EotStopsRgen ==
  pc["guard"] # "ended" /\ Occurs(EOT, line["guard"]) ~> pc["rgen"] = "ended"

(* An rgen that could not write ends, for its EOT releases the guard: the  *)
(* guard finds it in the queue or has its ReadFile cancelled.  The one     *)
(* exception is a CancelIoEx between those two.                            *)
JoinReturns ==
  pc["rgen"] = "join" ~> pc["rgen"] = "ended" \/ missed

(* In that case rgen, and the shell with it, hang until one more key.      *)
OneMoreKey ==
  pc["rgen"] = "join" /\ console # <<>> ~> pc["rgen"] = "ended"
=============================================================================
