------------------------------- MODULE Shell -------------------------------
(***************************************************************************)
(* The shell (user/shell.cpp) above its parser, the kernel and the         *)
(* programs that it runs side by side, from the moment kernel.cpp has      *)
(* started it to the end of run_shell.                                     *)
(*                                                                         *)
(* A step of the shell is one system call.  The prompt, the greeting, the  *)
(* echo of the command and the wording of messages are left out; the lines *)
(* that the user types are module Terminal.                                *)
(***************************************************************************)
EXTENDS Programs

CONSTANTS
  Commands,     (* the commands that the user may type                      *)
  Disk,         (* the entries of FAT12 at the beginning                    *)
  MaxCommands   (* bound: commands typed                                    *)

(* A command as the user means it: programs with what follows their names, *)
(* and the files at the two ends or <<>>.                                  *)
Command ==
  [programs : Seq([name : Seq(STRING), data : Seq(STRING)]), input : Seq(STRING), output : Seq(STRING)]

(* The terminal and the keyboard have handles 1 and 2.                     *)
ASSUME ShellAssumption ==
  /\ Handles \in Nat /\ Handles > 2 /\ ReadSize \in Nat \ {0} /\ PipeSize \in Nat
  /\ ReadSize <= PipeSize
  /\ MaxCommands \in Nat
  /\ Commands \subseteq Command

VARIABLES
  sh,           (* the locals of the shell and of call_piped_programs       *)
  job           (* history: the command that runs, what it found and how it *)
                (* went                                                     *)

kernel == <<os, prog, undefined>>
vars == <<kernel, sh, job>>

ShellPid == 1
Tty == 1
Kb == 2

-----------------------------------------------------------------------------
(* A command is typed with or without blanks before and after its          *)
(* delimiters.                                                             *)
Typed(c, before, after) ==
  LET Delim(d) == (IF before THEN <<Blank>> ELSE <<>>) \o <<d>> \o (IF after THEN <<Blank>> ELSE <<>>)
      Part(p) == p.name \o (IF p.data = <<>> THEN <<>> ELSE <<Blank>> \o p.data)
      End(d, name) == IF name = <<>> THEN <<>> ELSE Delim(d) \o name
      Chain(text, i) == text \o (IF i = 1 THEN <<>> ELSE Delim("|")) \o Part(c.programs[i])
  IN FoldLeft(Chain, <<>>, [i \in DOMAIN c.programs |-> i])
       \o End("<", c.input) \o End(">", c.output)

HasDelimiter(text) == ToSet(text) \cap Delimiter # {}

(* What the shell does with a line: where it goes on, and with what.       *)
Turn(pc, programs, say) == [pc |-> pc, programs |-> programs, say |-> say]

OnlyEcho(programs) ==
  /\ Len(programs) = 1 /\ programs[1].name = Echo
  /\ programs[1].input.type # "File" /\ programs[1].output.type # "File"

(* The part of the loop that takes a line as one command.                  *)
Single(text) ==
  LET name == Token(text).name
      args == Token(text).rest
      program == [Program(text) EXCEPT !.data = args]
  IN CASE name = <<>> -> Turn("prompt", <<>>, <<>>)
       [] name = Echo /\ args \in {<<"on">>, <<"off">>} -> Turn("prompt", <<>>, <<>>)
       [] name = <<"cd">> /\ args = <<>> -> Turn("say", <<>>, Message("Directory not specified")[1])
       [] name = <<"cd">> /\ args # <<>> -> Turn("cd", <<program>>, <<>>)
       [] name = <<"exit">> -> Turn("exit", <<>>, <<>>)
       [] OTHER -> Turn("call", <<program>>, <<>>)

Dispatch(text) ==
  LET parsed == parse_programs(text)
  IN IF ~HasDelimiter(text) THEN Single(text)
     ELSE IF parsed.undefined THEN Turn("undefined", <<>>, <<>>)
     ELSE IF parsed.error # <<>> THEN Turn("say", <<>>, parsed.error)
     ELSE IF OnlyEcho(parsed.programs) THEN Single(text)
     ELSE IF parsed.programs = <<>> THEN Turn("prompt", <<>>, <<>>)
     ELSE Turn("create", parsed.programs, <<>>)

Typings == Commands \X BOOLEAN \X BOOLEAN
Entered(line) == Typed(line[1], line[2], line[3])
Turns == [line \in Typings |-> Given(Entered(line), Dispatch)]

(* The last word is one symbol right behind its delimiter: then the parser *)
(* takes the symbol for the end of the input before it is a word.          *)
Glued(text) == Len(text) > 1 /\ text[Len(text) - 1] \in Delimiter

-----------------------------------------------------------------------------
Idle ==
  [pc |-> "prompt", commands |-> 0, programs |-> <<>>, say |-> <<>>,
   pipes |-> <<>>, first_in |-> Kb, last_out |-> Tty, close_last |-> FALSE,
   handles |-> <<>>, left |-> {}, closing |-> <<>>]

Process(name, in, out, wd) ==
  [name |-> name, std_in |-> in, std_out |-> out, status |-> "Running", wd |-> wd]

(* run_shell has opened the terminal and the keyboard and cloned the shell.*)
Init ==
  /\ os = [files |-> [h \in {Tty, Kb} |-> File(IF h = Tty THEN "tty" ELSE "kb", 0, 0)],
           last |-> Kb, pipes |-> <<>>, disk |-> Disk, tty |-> <<>>,
           pcb |-> [p \in {ShellPid} |-> Process("shell", Kb, Tty, <<>>)]]
  /\ prog = <<>>
  /\ undefined = FALSE
  /\ sh = Idle
  /\ job = [command |-> <<>>, glued |-> FALSE, before |-> os, went |-> "done"]

At(pc) == sh.pc = pc /\ ~undefined
Count_Programs == Len(sh.programs)

(* A system call of the shell.                                             *)
Calls(os2, sh2) == os' = os2 /\ sh' = sh2 /\ UNCHANGED <<prog, undefined>>


(* The command of the line is the one that runs now.                       *)
Begins(line, turn) ==
  /\ job' = [command |-> line[1], glued |-> Glued(Entered(line)), went |-> "done",
             before |-> [os EXCEPT !.tty = <<>>]]
  /\ sh' = [Idle EXCEPT !.commands = sh.commands + 1, !.programs = turn.programs, !.say = turn.say,
                        !.pc = IF turn.pc = "undefined" THEN "prompt" ELSE turn.pc]
  /\ undefined' = (turn.pc = "undefined")

(* The shell reads a line from the keyboard, parses and dispatches it.     *)
ReadCommand ==
  /\ At("prompt") /\ sh.commands < MaxCommands
  /\ Kb \in DOMAIN os.files
  /\ \E line \in Typings : Begins(line, Turns[line])
  /\ os' = [os EXCEPT !.tty = <<>>]
  /\ UNCHANGED prog

(* Something has closed the keyboard: the shell's read fails.              *)
EndOfInput ==
  /\ At("prompt") /\ Kb \notin DOMAIN os.files
  /\ Calls(os, [sh EXCEPT !.pc = "exit"])
  /\ UNCHANGED job

(* The handle of the terminal may denote another file by now.              *)
Say ==
  /\ At("say") /\ MayWrite(os, Tty, sh.say)
  /\ \E w \in {Write_File(os, Tty, sh.say)} :
       \/ w.error = "Undefined" /\ Breaks /\ UNCHANGED sh
       \/ /\ w.error = "Success" /\ Len(w.value) < Len(sh.say)
          /\ Calls(w.os, [sh EXCEPT !.say = SubSeq(@, Len(w.value) + 1, Len(@))])
       \/ /\ w.error # "Undefined" /\ (w.error = "Success" => Len(w.value) = Len(sh.say))
          /\ Calls(w.os, [sh EXCEPT !.pc = "prompt", !.say = <<>>])
  /\ UNCHANGED job

ChangeDirectory ==
  /\ At("cd")
  /\ \E set \in {Set_Working_Dir(os, ShellPid, sh.programs[1].data)} :
       \/ set.error = "Undefined" /\ Breaks /\ UNCHANGED sh
       \/ set.error = "Success" /\ Calls(set.os, [sh EXCEPT !.pc = "prompt"])
       \/ /\ set.error \notin {"Success", "Undefined"}
          /\ Calls(os, [sh EXCEPT !.pc = "say", !.say = Message("Directory not found")[1]])
  /\ UNCHANGED job

(* The shell ends; run_shell reads its exit code and closes both handles.  *)
Exit ==
  LET ended == [os EXCEPT !.pcb = [p \in DOMAIN @ \ {ShellPid} |-> @[p]]]
      quiet == Close_File(ended, Tty).os
  IN /\ At("exit") /\ MayClose(ended, Tty) /\ MayClose(quiet, Kb)
     /\ Calls(Close_File(quiet, Kb).os, [sh EXCEPT !.pc = "off"])
     /\ UNCHANGED job

-----------------------------------------------------------------------------
(* Processes                                                               *)

Known(program) == Word(program.name) \in Names
NextPid == Min((1 .. Cardinality(DOMAIN os.pcb) + 1) \ DOMAIN os.pcb)

(* What a handle denotes; one that is not in the table denotes nothing.    *)
Denoted(h) == IF h \in DOMAIN os.files THEN os.files[h] ELSE File("none", 0, 0)

(* Clone: the process inherits the working directory.                      *)
Clone(program, in, out) ==
  LET name == Word(program.name)
  IN /\ os' = [os EXCEPT !.pcb = With(@, NextPid, Process(name, in, out, os.pcb[ShellPid].wd))]
     /\ prog' = With(prog, NextPid, Thread(name, program.data, <<Denoted(in), Denoted(out)>>))
     /\ UNCHANGED undefined

Ended(p) == os.pcb[p].status = "Zombie"
Reaped(p) == [os EXCEPT !.pcb = [q \in DOMAIN @ \ {p} |-> @[q]]]

NotFound == Message("Program not found")[1]

(* call_program.                                                           *)
CallProgram ==
  LET program == sh.programs[1]
  IN /\ At("call")
     /\ \/ /\ Known(program)
           /\ Clone(program, Kb, Tty)
           /\ sh' = [sh EXCEPT !.pc = "join", !.handles = <<NextPid>>]
           /\ UNCHANGED job
        \/ /\ ~Known(program)
           /\ Calls(os, [sh EXCEPT !.pc = "say", !.say = NotFound])
           /\ job' = [job EXCEPT !.went = "cancelled"]

Join ==
  /\ At("join") /\ Ended(sh.handles[1])
  /\ Calls(Reaped(sh.handles[1]), [sh EXCEPT !.pc = "prompt"])
  /\ UNCHANGED job

-----------------------------------------------------------------------------
(* call_piped_programs                                                     *)

CreatePipe ==
  /\ At("create") /\ Len(sh.pipes) < 2 * (Count_Programs - 1)
  /\ HandlesLeft(os, 2)
  /\ \E made \in {Create_Pipe(os)} : Calls(made.os, [sh EXCEPT !.pipes = @ \o made.value])
  /\ UNCHANGED job

(* Opens the file at one end.  When that fails the function returns, and   *)
(* leaves open what it has made so far.                                    *)
OpenEnd(end, call, Done(_)) ==
  \E opened \in {call} :
    \/ opened.error = "Undefined" /\ Breaks /\ UNCHANGED <<sh, job>>
    \/ opened.error = "Success" /\ Calls(opened.os, Done(opened.value)) /\ UNCHANGED job
    \/ /\ opened.error \notin {"Success", "Undefined"}
       /\ Calls(os, [sh EXCEPT !.pc = "say", !.say = Message(opened.error)[1]])
       /\ job' = [job EXCEPT !.went = end]

OpenInput ==
  LET input == sh.programs[1].input
  IN /\ At("create") /\ Len(sh.pipes) = 2 * (Count_Programs - 1)
     /\ HandlesLeft(os, 1)
     /\ IF input.type = "File"
        THEN OpenEnd("input", Open_File(os, ShellPid, input.name, TRUE, "None"),
                     LAMBDA h : [sh EXCEPT !.pc = "output", !.first_in = h])
        ELSE Calls(os, [sh EXCEPT !.pc = "output"]) /\ UNCHANGED job

OpenOutput ==
  LET output == Last(sh.programs).output
  IN /\ At("output") /\ HandlesLeft(os, 1)
     /\ IF output.type = "File"
        THEN OpenEnd("output", Open_File(os, ShellPid, output.name, FALSE, "Archive"),
                     LAMBDA h : [sh EXCEPT !.pc = "clone", !.close_last = TRUE, !.last_out = h])
        ELSE Calls(os, [sh EXCEPT !.pc = "clone"]) /\ UNCHANGED job

(* The programs are cloned from the last to the first.                     *)
Handle_Of(i) == sh.handles[Count_Programs - i + 1]

Input_Of(i) == IF i = 1 THEN sh.first_in ELSE sh.pipes[2 * (i - 1)]
Output_Of(i) == IF i = Count_Programs THEN sh.last_out ELSE sh.pipes[2 * i - 1]

CloneNext ==
  LET i == Count_Programs - Len(sh.handles)
  IN /\ At("clone") /\ Known(sh.programs[i])
     /\ Clone(sh.programs[i], Input_Of(i), Output_Of(i))
     /\ sh' = [sh EXCEPT !.handles = Append(@, NextPid), !.left = @ \cup {i},
                         !.pc = IF i = 1 THEN "wait" ELSE "clone"]
     /\ UNCHANGED job

(* cancel_all_programs closes what the programs that run have been given.  *)
(* Whether the last handle is closed depends on the input of the last      *)
(* program.                                                                *)
Cancel ==
  LET i == Count_Programs - Len(sh.handles)
      If(file, h) == IF file.type = "File" THEN <<h>> ELSE <<>>
  IN /\ At("clone") /\ ~Known(sh.programs[i])
     /\ Calls(os, [sh EXCEPT !.pc = "cancel",
                             !.closing = sh.pipes \o If(sh.programs[1].input, sh.first_in)
                                           \o If(Last(sh.programs).input, sh.last_out)])
     /\ job' = [job EXCEPT !.went = "cancelled"]

(* A program that runs may be inside a call on the pipe that is closed.    *)
CloseNext ==
  LET h == Head(sh.closing)
  IN /\ At("cancel") \/ At("wait")
     /\ sh.closing # <<>> /\ MayClose(os, h)
     /\ \/ /\ \E ps \in SUBSET Strands(h) : prog' = Stranded(ps)
           /\ os' = Close_File(os, h).os
           /\ sh' = [sh EXCEPT !.closing = Tail(@)]
           /\ UNCHANGED undefined
        \/ Tears(h) /\ Breaks /\ UNCHANGED sh
     /\ UNCHANGED job

(* The exit codes of the programs that were cloned are read in turn.       *)
ReapCancelled ==
  /\ At("cancel") /\ sh.closing = <<>>
  /\ IF sh.left = {} THEN Calls(os, [sh EXCEPT !.pc = "say", !.say = NotFound])
     ELSE LET i == Min(sh.left)
          IN Ended(Handle_Of(i)) /\ Calls(Reaped(Handle_Of(i)), [sh EXCEPT !.left = @ \ {i}])
  /\ UNCHANGED job

(* Mutant of To_Close: a program in the middle leaves its input open.      *)
To_CloseLess(i) ==
  LET n == Count_Programs
  IN IF i = 1 THEN (IF n > 1 THEN <<sh.pipes[1]>> ELSE <<>>)
                     \o (IF sh.programs[1].input.type = "File" THEN <<sh.first_in>> ELSE <<>>)
     ELSE IF i = n THEN <<Last(sh.pipes)>>
     ELSE <<sh.pipes[2 * i - 1]>>

(* Mutant of To_Close: the input of the next program is closed.            *)
To_CloseAhead(i) ==
  LET n == Count_Programs
  IN IF i = 1 THEN (IF n > 1 THEN <<sh.pipes[1]>> ELSE <<>>)
                     \o (IF sh.programs[1].input.type = "File" THEN <<sh.first_in>> ELSE <<>>)
     ELSE IF i = n THEN <<Last(sh.pipes)>>
     ELSE <<sh.pipes[2 * i - 1], sh.pipes[2 * i]>>

(* What is closed when the program i has ended.                            *)
To_Close(i) ==
  LET n == Count_Programs
  IN IF i = 1 THEN (IF n > 1 THEN <<sh.pipes[1]>> ELSE <<>>)
                     \o (IF sh.programs[1].input.type = "File" THEN <<sh.first_in>> ELSE <<>>)
     ELSE IF i = n THEN <<Last(sh.pipes)>>
     ELSE <<sh.pipes[2 * i - 1], sh.pipes[2 * i - 2]>>

(* Wait_For returns a program that has ended, and its exit code is read.   *)
WaitFor(i) ==
  /\ At("wait") /\ sh.closing = <<>>
  /\ i \in sh.left /\ Ended(Handle_Of(i))
  /\ Calls(Reaped(Handle_Of(i)), [sh EXCEPT !.left = @ \ {i}, !.closing = To_Close(i)])
  /\ UNCHANGED job

(* All have ended: the file at the end is closed.                          *)
CloseLast ==
  /\ At("wait") /\ sh.closing = <<>> /\ sh.left = {}
  /\ Calls(IF sh.close_last THEN Close_File(os, sh.last_out).os ELSE os, [sh EXCEPT !.pc = "prompt"])
  /\ UNCHANGED job

ShellStep ==
  \/ EndOfInput \/ Say \/ ChangeDirectory \/ Exit
  \/ CallProgram \/ Join
  \/ CreatePipe \/ OpenInput \/ OpenOutput \/ CloneNext \/ Cancel
  \/ CloseNext \/ ReapCancelled \/ CloseLast
  \/ \E i \in DOMAIN sh.programs : WaitFor(i)

ProgramStep(p) == Step(p) /\ UNCHANGED <<sh, job>>

Next ==
  \/ ReadCommand
  \/ ShellStep
  \/ \E p \in DOMAIN prog : ProgramStep(p)

MaxPid == 1 + Max({Len(c.programs) : c \in Commands})

(* Threads that can go on do; the user need not type.                      *)
Fairness ==
  /\ WF_vars(ShellStep)
  /\ \A p \in 2 .. MaxPid : WF_vars(ProgramStep(p))

Spec == Init /\ [][Next]_vars /\ Fairness

=============================================================================
