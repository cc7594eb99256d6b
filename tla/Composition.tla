---------------------------- MODULE Composition ----------------------------
(***************************************************************************)
(* What the shell promises: a command is the composition of the functions  *)
(* that its programs compute, and leaves the system as it was but for      *)
(* that.  The exceptions in the properties are what the code does instead. *)
(***************************************************************************)
EXTENDS Shell

TypeOK ==
  /\ DOMAIN os.files \subseteq Handle /\ os.last \in Handle
  /\ \A h \in DOMAIN os.files :
       /\ os.files[h].kind \in {"kb", "tty", "in", "out", "file", "folder", "procfs", "process"}
       /\ os.files[h].kind \in {"in", "out"} => os.files[h].of \in DOMAIN os.pipes
  /\ \A p \in DOMAIN os.pipes :
       /\ os.pipes[p].closedIn \in BOOLEAN /\ os.pipes[p].closedOut \in BOOLEAN
       /\ Len(os.pipes[p].data) <= PipeSize
  /\ \A i \in DOMAIN os.disk : os.disk[i].dir \in BOOLEAN /\ os.disk[i].size \in Nat
  /\ \A p \in DOMAIN os.pcb : os.pcb[p].status \in {"Running", "Zombie"}
  /\ DOMAIN prog \subseteq DOMAIN os.pcb \ {ShellPid}
  /\ \A p \in DOMAIN prog :
       /\ prog[p].name \in Names /\ Cardinality(prog[p].own) <= 1
       /\ prog[p].pc \in {"start", "read", "write", "close", "next", "list", "task", "kill",
                          "hung", "end"}
  /\ sh.pc \in {"prompt", "say", "cd", "exit", "off", "call", "join", "create", "output",
                "clone", "cancel", "wait"}
  /\ sh.commands \in 0 .. MaxCommands
  /\ job.went \in {"done", "input", "output", "cancelled"}

AtPrompt == sh.pc = "prompt" /\ sh.commands > 0 /\ ~undefined
Uses(name) == \E i \in DOMAIN sh.programs : Word(sh.programs[i].name) = name

(* A program of that name has been started; the last one is the first.     *)
Ran(name) ==
  \E i \in Count_Programs - Len(sh.handles) + 1 .. Count_Programs : Word(sh.programs[i].name) = name

-----------------------------------------------------------------------------
(* The parser                                                              *)

Asked(c) ==
  [i \in DOMAIN c.programs |->
    [name |-> c.programs[i].name, data |-> c.programs[i].data,
     input |-> CASE i > 1 -> Io("Pipe", <<>>)
                 [] i = 1 /\ c.input = <<>> -> Io("Standard", <<>>)
                 [] OTHER -> Io("File", c.input),
     output |-> CASE i < Len(c.programs) -> Io("Pipe", <<>>)
                  [] i = Len(c.programs) /\ c.output = <<>> -> Io("Standard", <<>>)
                  [] OTHER -> Io("File", c.output)]]

(* The text of an echo without quotes goes on to the end of the line.      *)
Swallows(c) ==
  \E i \in DOMAIN c.programs :
    /\ c.programs[i].name = Echo /\ Quote \notin ToSet(c.programs[i].data)
    /\ i < Len(c.programs) \/ c.input # <<>> \/ c.output # <<>>

(* A pipeline is started as it was written, with or without blanks around  *)
(* the delimiters: no program, argument or file is lost or moved.  The     *)
(* code breaks this for a one-letter word right behind its delimiter at    *)
(* the end of the line and for an echo without quotes.                     *)
ParsedAsWritten ==
  sh.pc = "create" /\ ~job.glued /\ ~Swallows(job.command) => sh.programs = Asked(job.command)

-----------------------------------------------------------------------------
(* The files that a command opens                                          *)

(* What an unknown program with a file as input costs the shell.           *)
TerminalClosed ==
  /\ job.went = "cancelled" /\ Count_Programs = 1
  /\ sh.programs[1].input.type = "File" /\ sh.programs[1].output.type # "File"

(* Two files that denote the same object.                                  *)
Same(f, g) == f.kind = g.kind /\ f.of = g.of

(* When the prompt is back after a command whose programs have all run,    *)
(* the handles are those from before it and denote what they did: nothing  *)
(* stays open that call_piped_programs or a program has opened and nothing *)
(* is closed twice.  shutdown closes the keyboard, as it should.           *)
HandlesReturned ==
  LET before == job.before.files
  IN AtPrompt /\ job.went = "done" =>
       /\ DOMAIN os.files = DOMAIN before \ (IF Ran("shutdown") THEN {Kb} ELSE {})
       /\ \A h \in DOMAIN os.files : Same(os.files[h], before[h])

(* What doc/dokumentace.tex:474 says of a command with an unknown program: *)
(* "the handles of the inputs and outputs of all pipes and of the files    *)
(* that were opened are closed".  shell.cpp:28 closes the output file only *)
(* if the last program has a file as its input.                            *)
CancelledCloses ==
  AtPrompt /\ job.went = "cancelled" => DOMAIN os.files \subseteq DOMAIN job.before.files

(* While a program runs its two handles denote the objects that they       *)
(* denoted when it was cloned, unless the command is cancelled or a        *)
(* shutdown has closed them: nobody closes them early and no handle is     *)
(* given to another file.  An earlier command that cancel_all_programs has *)
(* closed the terminal for breaks this: the shell still passes the handle  *)
(* of the terminal on, and Add_File may by then have handed it out again.  *)
GivenHandlesStay ==
  job.went = "done" /\ ~Ran("shutdown") /\ Tty \in DOMAIN job.before.files =>
    \A p \in DOMAIN prog :
      Same(Denoted(StdIn(p)), prog[p].given[1]) /\ Same(Denoted(StdOut(p)), prog[p].given[2])

-----------------------------------------------------------------------------
(* What the programs do                                                    *)

Before == job.before
DataOf(i) == sh.programs[i].data
NameOf(i) == Word(sh.programs[i].name)
Reads == {"type", "sort", "find", "freq"}

(* A program that has nothing but its standard input to read.              *)
Waits(i) ==
  /\ NameOf(i) \in Reads
  /\ NameOf(i) = "find" => HasForm(DataOf(i))
  /\ FileArgument(NameOf(i), DataOf(i)) = <<>>

ListsProcesses(i) ==
  \/ NameOf(i) = "tasklist"
  \/ NameOf(i) = "dir" /\ Walk(Before, ShellPid, PathOf(FolderArgument(DataOf(i)))).fs # <<"fat">>

(* What opening a text finds when the command starts.                      *)
Opened(text, attributes) == Open_File(Before, ShellPid, text, TRUE, attributes)
TextOf(text) ==
  LET opened == Opened(text, "None")
  IN Visible(Before.disk[EntryAt(Before.disk, opened.os.files[opened.value].of)])

(* The rows of dir; the last folder of a folder comes first.               *)
DirText(folder, data) ==
  LET row(e) == Row([data |-> data], [name |-> Last(e.path), dir |-> e.dir])
      folders(kids) == IF Recursive(data) THEN Reverse(SelectSeq(kids, LAMBDA e : e.dir)) ELSE <<>>
      text[path \in Tree(Before) \cup {<<>>}] ==
        LET kids == Children(Before.disk, path)
        IN FlattenSeq([i \in DOMAIN kids |-> row(kids[i])])
             \o FlattenSeq([i \in DOMAIN folders(kids) |-> text[folders(kids)[i].path]])
  IN text[folder]

(* What program i writes, given all that it reads.                         *)
Written(i, input) ==
  LET data == DataOf(i)
      file == FileArgument(NameOf(i), data)
      error == Opened(file, "None").error
      source == IF file = <<>> THEN input ELSE TextOf(file)
      folder == Opened(FolderArgument(data), "Directory")
      row(p) == <<p, "Running", "NL">>
  IN CASE NameOf(i) = "echo" -> Unquoted(data) \o NL
       [] NameOf(i) = "find" /\ ~HasForm(data) -> Message("Arguments expected")[1]
       [] NameOf(i) \in Reads /\ (NameOf(i) = "find" => HasForm(data)) ->
            IF file # <<>> /\ error # "Success" THEN Message(error)[1]
            ELSE IF NameOf(i) = "type" THEN source
            ELSE FlattenSeq(Result(NameOf(i), source))
       [] NameOf(i) = "dir" ->
            IF folder.error # "Success" THEN Message(folder.error)[1]
            ELSE DirText(folder.os.files[folder.value].of, data)
       [] NameOf(i) = "tasklist" ->
            row("shell") \o FlattenSeq([j \in 1 .. Count_Programs |-> row(NameOf(Count_Programs + 1 - j))])

(* Commands whose outcome is the composition of their programs: processes  *)
(* are listed while the other programs wait, folders while none is made,   *)
(* and the shell has not lost the terminal to an earlier command.          *)
Composable ==
  /\ sh.programs # <<>>
  /\ Tty \in DOMAIN Before.files /\ Before.files[Tty].kind = "tty"
  /\ \A i \in DOMAIN sh.programs :
       /\ \/ NameOf(i) \in Reads \cup {"echo", "dir", "tasklist"}
          \/ job.went = "cancelled" /\ i <= Count_Programs - Len(sh.handles)
       /\ ListsProcesses(i) => NameOf(i) = "tasklist" /\ i = 1 /\ \A j \in 2 .. Count_Programs : Waits(j)
  /\ job.went = "cancelled" => Len(sh.handles) <= 1

(* The programs from the first that was started on.  The keyboard and the  *)
(* pipes of a cancelled command have nothing to read.                      *)
Composed ==
  LET first == sh.programs[1].input
      started == IF job.went = "cancelled" THEN Count_Programs - Len(sh.handles) ELSE 0
      input == IF started = 0 /\ first.type = "File" THEN TextOf(first.name) ELSE <<>>
      Then(text, i) == Written(i, text)
  IN FoldOnce(Then, input, [k \in 1 .. Count_Programs - started |-> started + k])

(* What the shell itself says at the end.                                  *)
Said ==
  CASE job.went = "done" -> <<>>
    [] job.went = "input" -> Message(Opened(sh.programs[1].input.name, "None").error)[1]
    [] job.went = "output" -> Message("Permission_Denied")[1]
    [] job.went = "cancelled" -> NotFound

(* The terminal and the file at the end of a pipeline get what the         *)
(* composition of its programs yields, whatever the order in which the     *)
(* programs ran, and no other file is changed.                             *)
OutputAsComposed ==
  LET run == job.went \in {"done", "cancelled"}
      output == Last(sh.programs).output
      target == IF run /\ output.type = "File" THEN PathOf(output.name) ELSE PathOf(<<>>)
      path == EntryPath(Absolute(Before, ShellPid, target))
      Others(disk) == SelectSeq(disk, LAMBDA e : e.path # path)
  IN AtPrompt /\ Composable =>
       \E text \in {IF run THEN Composed ELSE <<>>} :
       /\ Others(os.disk) = Others(Before.disk)
       /\ run /\ output.type = "File" /\ text # <<>> =>
            Visible(os.disk[EntryAt(os.disk, path)]) = text
       /\ os.tty = IF Tty \notin DOMAIN os.files THEN <<>>
                   ELSE (IF output.type = "File" THEN <<>> ELSE text) \o Said

-----------------------------------------------------------------------------
(* What may go wrong                                                       *)

(* Another program of the pipeline may end while this one lists processes. *)
MayShrink(i) ==
  ListsProcesses(i) /\ \E j \in DOMAIN sh.programs \ {i} : j < i \/ ~Waits(j)

Climbs(text) ==
  LET path == Absolute(Before, ShellPid, PathOf(text))
  IN "." \in ToSet(path) \/ Resolve(Tree(Before), Pids(Before), path) = Above

(* A list of processes that has become as short as the part of it that has *)
(* been read: each further read returns nothing and no error.              *)
Stuck ==
  \E p \in DOMAIN prog :
    /\ prog[p].pc = "list" /\ prog[p].from \in DOMAIN os.files
    /\ LET file == os.files[prog[p].from]
       IN file.kind = "procfs" /\ file.pos = Cardinality(DOMAIN os.pcb) /\ file.pos < file.size

(* The shell closes the input of a pipe that is full to the last symbol,   *)
(* and the program that should read it has ended.                          *)
Jammed ==
  /\ sh.pc \in {"wait", "cancel"} /\ sh.closing # <<>> /\ ~MayClose(os, Head(sh.closing))
  /\ LET pipe == os.files[Head(sh.closing)].of
     IN ~\E p \in DOMAIN prog : prog[p].given[1].kind = "out" /\ prog[p].given[1].of = pipe

(* A program waits for ever in a read of a pipe whose handle is gone.      *)
Hung == \E p \in DOMAIN prog : prog[p].pc = "hung"

(* cancel_all_programs closes the pipes under programs that use them.      *)
Cut ==
  /\ job.went = "cancelled"
  /\ \E i \in Count_Programs - Len(sh.handles) + 1 .. Count_Programs : Waits(i) \/ i < Count_Programs

(* A word that is nothing but blanks.                                      *)
Nameless(c) == \E i \in DOMAIN c.programs : Trim(c.programs[i].name) = <<>>

(* Nothing undefined happens, no listing of processes runs forever, no     *)
(* pipe is jammed and no reader is left in one, except for these commands: *)
(* a path that leads above C:\ (or has "."), a word that the parser loses  *)
(* or that is blank, processes listed while others end, a folder removed   *)
(* while dir reads, shutdown beside other programs, a program behind a     *)
(* pipe that does not read it, and a pipeline that is cancelled when a     *)
(* program that has been started uses a pipe: then the pipe is closed and  *)
(* destroyed under it.                                                     *)
Defined ==
  /\ Stuck => \E i \in DOMAIN sh.programs : MayShrink(i)
  /\ Jammed => \E i \in 2 .. Count_Programs : ~Waits(i)
  /\ Hung => Cut \/ (Uses("shutdown") /\ Count_Programs > 1)
  /\ undefined =>
       \/ job.glued \/ Nameless(job.command) \/ Cut
       \/ \E i \in DOMAIN sh.programs :
            \/ MayShrink(i)
            \/ \E text \in {DataOf(i), sh.programs[i].input.name, sh.programs[i].output.name} : Climbs(text)
       \/ Uses("rd") /\ Count_Programs > 1
       \/ Uses("shutdown") /\ Count_Programs > 1

(* cd leads where its path, taken for what it says, leads, and nowhere if  *)
(* a folder on the way is missing or cd is part of a pipeline: the stacks  *)
(* of File_Exists agree with the path across the mount point of procfs.    *)
(* Its root is found under the name tasklist again, which the path cannot  *)
(* say, and a process with a separator behind it is not found.             *)
CdAgrees ==
  LET text == sh.programs[1].data
      path == Absolute(Before, ShellPid, PathOf(text))
      to == Resolve(Tree(Before), Pids(Before), path)
      folder == Len(to) = 2 /\ Front(to) = Mount => Last(path) # ""
      wd == os.pcb[ShellPid].wd
  IN AtPrompt /\ sh.programs # <<>> /\ "tasklist" \notin ToSet(path) =>
       IF NameOf(1) # "cd" \/ job.went # "done" \/ to = Nowhere \/ ~folder THEN wd = Before.pcb[ShellPid].wd
       ELSE Climbs(text) \/ SelectSeq(wd, LAMBDA c : c # "") = to

(* The prompt comes back after every command: no program of a pipeline     *)
(* waits for another one, or the shell for them, forever.  A reader that a *)
(* closed pipe has left waiting breaks this, as do the listings and pipes  *)
(* that Defined speaks of; which commands those are is stated there.       *)
PromptReturns ==
  sh.pc # "prompt" ~> sh.pc \in {"prompt", "off"} \/ undefined \/ Stuck \/ Jammed \/ Hung
=============================================================================
