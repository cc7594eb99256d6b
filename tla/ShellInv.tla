------------------------------ MODULE ShellInv ------------------------------
(***************************************************************************)
(* The inductive invariant of the shell and its programs: who is to close  *)
(* each handle of the table.  A handle is one that the command found       *)
(* (job.before), one that the shell has still to close (Outstanding) or    *)
(* one that a program has opened for itself (Owns).                        *)
(***************************************************************************)
EXTENDS Composition

Pipeline == {"create", "output", "clone", "wait", "cancel"}

(* The programs whose exit codes the shell has still to read.              *)
Waited == IF sh.pc = "join" THEN {1} ELSE sh.left

FileIn == sh.programs[1].input.type = "File"
FileOut == Last(sh.programs).output.type = "File"

(* call_piped_programs has returned before it cloned anything.             *)
GaveUp == job.went \in {"input", "output"}

(* The handles that the shell has opened for the command.                  *)
Wires ==
  ToSet(sh.pipes) \cup (IF sh.first_in # Kb THEN {sh.first_in} ELSE {})
    \cup (IF sh.close_last THEN {sh.last_out} ELSE {})

(* cancel_all_programs leaves the file at the end open, unless its test of *)
(* the input of the last program happens to hold.                          *)
LeavesLast == sh.close_last /\ ~(Count_Programs = 1 /\ FileIn)

(* Those of them that are open as long as nobody else closes them.         *)
Outstanding ==
  IF sh.pc \in {"create", "output", "clone"} \/ GaveUp THEN Wires
  ELSE ToSet(sh.closing)
         \cup (IF sh.pc = "wait" THEN UNION {ToSet(To_Close(i)) : i \in sh.left} ELSE {})
         \cup (IF (sh.pc = "wait" /\ sh.close_last) \/ (job.went = "cancelled" /\ LeavesLast)
               THEN {sh.last_out} ELSE {})

(* What the command may have closed that it has not opened.                *)
Lost == (IF TerminalClosed THEN {Tty} ELSE {}) \cup (IF Ran("shutdown") THEN {Kb} ELSE {})

Owns == UNION {prog[p].own : p \in DOMAIN prog}

-----------------------------------------------------------------------------
(* The fields of the records.                                              *)
Kernel == {"files", "last", "pipes", "disk", "tty", "pcb"}
FileFields == {"kind", "of", "pos", "size"}
KernelOK ==
  /\ DOMAIN os = Kernel
  /\ DOMAIN os.files \subseteq Handle /\ os.last \in Handle
  /\ \A h \in DOMAIN os.files : DOMAIN os.files[h] = FileFields
Begun(t) == DOMAIN t = {"name", "data", "pc", "own", "from", "acc", "out", "wrote", "next", "todo", "given"}

Shapes ==
  /\ KernelOK
  /\ IsFiniteSet(DOMAIN os.pcb) /\ DOMAIN os.pcb \subseteq Nat \ {0}
  /\ \A p \in DOMAIN os.pcb : DOMAIN os.pcb[p] = {"name", "std_in", "std_out", "status", "wd"}
  /\ \A p \in DOMAIN prog : Begun(prog[p])
  /\ DOMAIN sh = DOMAIN Idle
  /\ DOMAIN job = {"command", "glued", "before", "went"}

(* How far the shell is with its command: what it has cloned, what it has  *)
(* still to wait for, and which of its branches a command can reach.       *)
Plan ==
  /\ sh.pc \in {"prompt", "say", "cd", "exit", "off", "call", "join"} \cup Pipeline
  /\ Len(sh.programs) \in Nat
  /\ sh.pipes \in Seq(Handle) /\ sh.handles \in Seq(Nat) /\ sh.closing \in Seq(Handle)
  /\ Len(sh.handles) <= Count_Programs
  /\ job.went \in {"done", "input", "output", "cancelled"}
  /\ job.went # "done" => sh.pc \in {"cancel", "say", "prompt", "exit", "off"}
  /\ sh.pc \in {"cd", "call", "join"} \cup Pipeline \/ job.went # "done" => Count_Programs > 0
  /\ (sh.pc \in Pipeline \/ job.went # "done") /\ Count_Programs > 1 => Last(sh.programs).input.type # "File"
  /\ sh.pc \in {"call", "join"} => Count_Programs = 1 /\ ~FileIn /\ ~FileOut
  /\ sh.pc \notin {"clone", "wait", "cancel"} => sh.left = {} /\ sh.closing = <<>>
  /\ sh.pc \in {"cd", "call", "create", "output"} \/ GaveUp => sh.handles = <<>>
  /\ sh.pc = "join" => Len(sh.handles) = 1
  /\ sh.pc = "clone" =>
       /\ Len(sh.handles) < Count_Programs /\ sh.closing = <<>>
       /\ sh.left = Count_Programs - Len(sh.handles) + 1 .. Count_Programs
  /\ sh.pc = "wait" => Len(sh.handles) = Count_Programs /\ sh.left \subseteq 1 .. Count_Programs
  /\ sh.pc = "cancel" =>
       job.went = "cancelled" /\ sh.left \subseteq Count_Programs - Len(sh.handles) + 1 .. Count_Programs

(* The handles that the shell has opened differ from each other and from   *)
(* those that the command found, and are as many as its programs need.     *)
Wired ==
  /\ sh.first_in \in Handle /\ sh.last_out \in Handle /\ sh.close_last \in BOOLEAN
  /\ ~sh.close_last => sh.last_out = Tty
  /\ \A k, l \in DOMAIN sh.pipes : k # l => sh.pipes[k] # sh.pipes[l]
  /\ sh.first_in \notin ToSet(sh.pipes)
  /\ sh.close_last => sh.last_out \notin ToSet(sh.pipes) \cup {sh.first_in}
  /\ Kb \in DOMAIN job.before.files /\ Wires \cap DOMAIN job.before.files = {}
  /\ sh.pc = "create" => \E m \in 0 .. Count_Programs - 1 : Len(sh.pipes) = 2 * m
  /\ sh.pc \in Pipeline \ {"create"} \/ GaveUp => Len(sh.pipes) = 2 * (Count_Programs - 1)
  /\ sh.pc \in {"cd", "call", "join"} => sh.pipes = <<>>
  /\ sh.pc \in {"cd", "call", "join", "create"} \/ job.went = "input" => sh.first_in = Kb
  /\ sh.pc \in Pipeline \ {"create"} \/ job.went \in {"output", "cancelled"} => (sh.first_in # Kb <=> FileIn)
  /\ sh.pc \in {"cd", "call", "join", "create", "output"} \/ GaveUp => ~sh.close_last
  /\ sh.pc \in {"clone", "wait", "cancel"} \/ job.went = "cancelled" => (sh.close_last <=> FileOut)
  /\ sh.pc = "wait" => ToSet(sh.closing) \subseteq Wires
  /\ sh.pc = "cancel" =>
        ToSet(sh.closing) \subseteq Wires \cup (IF TerminalClosed THEN {Tty} ELSE {})

(* A program has at most one handle of its own, and one to be closed.      *)
Owning(t) ==
  /\ t.own = {} \/ \E h \in Handle : t.own = {h}
  /\ t.own # {} => \/ t.pc \in {"read", "list", "task", "close"}
                   \/ t.pc = "write" /\ t.next \in {"read", "list", "close"}
  /\ t.pc = "kill" => t.name = "shutdown"
  /\ t.pc = "write" => t.next # "kill"

(* The processes are the shell and the programs that it waits for, each    *)
(* with the handles that its place in the pipeline gives it.               *)
Threads ==
  /\ sh.pc # "off" => DOMAIN os.pcb = {ShellPid} \cup {Handle_Of(i) : i \in Waited}
                      /\ os.pcb[ShellPid].std_in = Kb
  /\ \A i \in Waited :
       /\ Handle_Of(i) # ShellPid
       /\ os.pcb[Handle_Of(i)].std_in = Input_Of(i) /\ os.pcb[Handle_Of(i)].std_out = Output_Of(i)
       /\ \A j \in Waited : Handle_Of(i) = Handle_Of(j) => i = j
  /\ \A p \in DOMAIN prog :
       /\ os.pcb[p].status = "Running" /\ Owning(prog[p])
       /\ \E i \in Waited : p = Handle_Of(i) /\ prog[p].name = Word(sh.programs[i].name)

(* A shutdown runs and has still to close the input of the shell.          *)
AboutToClose ==
  \E p \in DOMAIN prog :
    /\ prog[p].name = "shutdown"
    /\ prog[p].pc = "start" \/ (prog[p].pc = "kill" /\ Head(prog[p].todo) = ShellPid)

(* Every handle of the table is somebody's, and those that the command     *)
(* found stay, with what they denote, but for those that are lost.         *)
Accounted ==
  sh.pc # "off" =>
  /\ \A h \in DOMAIN os.files :
       h \in (DOMAIN job.before.files \ Lost) \cup Outstanding \cup Owns \/ (h = Kb /\ AboutToClose)
  /\ \A h \in DOMAIN job.before.files \ Lost :
       h \in DOMAIN os.files /\ Same(os.files[h], job.before.files[h]) /\ h \notin Owns
  /\ sh.pc \in {"create", "output"} \/ GaveUp => Wires \subseteq DOMAIN os.files
  /\ sh.close_last /\ (sh.pc \in {"clone", "wait"} \/ (job.went = "cancelled" /\ LeavesLast)) =>
       sh.last_out \in DOMAIN os.files \ (Owns \cup ToSet(sh.closing))

Clean == job.went = "done" /\ ~Ran("shutdown") /\ Tty \in DOMAIN job.before.files

(* While nothing has gone wrong each handle has one owner, who will close  *)
(* it once, and what a program was given is still what it denotes.         *)
Orderly ==
  Clean /\ sh.pc # "off" =>
  /\ Outstanding \subseteq DOMAIN os.files
  /\ Owns \subseteq DOMAIN os.files /\ Owns \cap Outstanding = {}
  /\ \A p, q \in DOMAIN prog : p # q => prog[p].own \cap prog[q].own = {}
  /\ \A k, l \in DOMAIN sh.closing : k # l => sh.closing[k] # sh.closing[l]
  /\ \A i \in sh.left : ToSet(sh.closing) \cap ToSet(To_Close(i)) = {}
  /\ \A p \in DOMAIN prog :
      Same(Denoted(StdIn(p)), prog[p].given[1]) /\ Same(Denoted(StdOut(p)), prog[p].given[2])

(* At every system call of the shell and of its programs each open handle  *)
(* is accounted for: it is one of those that the command found, one that   *)
(* the shell will close, or one that a single running program will close.  *)
IInv == Shapes /\ Plan /\ Wired /\ Threads /\ Accounted /\ Orderly
=============================================================================
