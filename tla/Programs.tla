------------------------------ MODULE Programs ------------------------------
(***************************************************************************)
(* The programs of user/ that the shell runs: type, sort, find, freq,      *)
(* echo, tasklist, dir, md, rd and shutdown (rgen is module Terminal).     *)
(* They run at the same time; a step of a program is one system call.      *)
(***************************************************************************)
EXTENDS Files, ArgParser

CONSTANTS
  ReadSize,    (* the size of the buffers that the programs read into       *)
  Collation,   (* the symbols of texts in the order of the locale           *)
  Dotted       (* the names of files that have a dot                        *)

VARIABLES
  os,          (* the kernel                                                *)
  prog,        (* the threads of the programs by their process identifiers  *)
  undefined    (* what the code does next is undefined                      *)

Names == {"type", "sort", "find", "freq", "echo", "tasklist", "dir", "md",
          "rd", "shutdown"}

(* A program when its thread starts.  own is the handle that it has opened *)
(* itself, from the one that it reads, acc what it has read, out the texts *)
(* that it is about to write before it goes to next, wrote whether the     *)
(* write that it is in has stored a part of the first, todo what its loop  *)
(* has left.  given is history: what its two handles denote by then, which *)
(* a call that the thread is in goes on using.                             *)
Thread(name, data, given) ==
  [name |-> name, data |-> data, pc |-> "start", own |-> {}, from |-> 0,
   acc |-> <<>>, out |-> <<>>, wrote |-> FALSE, next |-> "end", todo |-> <<>>, given |-> given]

StdIn(p) == os.pcb[p].std_in
StdOut(p) == os.pcb[p].std_out
Rank(c) == SelectInSeq(Collation, LAMBDA d : d = c)

-----------------------------------------------------------------------------
(* What the programs compute                                               *)

(* The input up to EOT.                                                    *)
Text(input) ==
  LET eot == SelectInSeq(input, LAMBDA c : c = "EOT")
  IN IF eot = 0 THEN input ELSE SubSeq(input, 1, eot - 1)

(* The lines of a text; the last one need not end with NL.                 *)
Lines(text) ==
  LET Split(ls, c) == IF c = "NL" THEN Append(ls, <<>>) ELSE Append(Front(ls), Append(Last(ls), c))
      Finished(ls) == IF Last(ls) = <<>> THEN Front(ls) ELSE ls
  IN Given(FoldOnce(Split, << <<>> >>, text), Finished)

Precedes(s, t) ==
  \E i \in 1 .. Len(t) :
    /\ \A j \in 1 .. i - 1 : j <= Len(s) /\ s[j] = t[j]
    /\ i > Len(s) \/ Rank(s[i]) < Rank(t[i])

NL == <<"NL">>

(* The line l in a sorted sequence of lines.                               *)
Inserted(lines, l) ==
  LET k == Cardinality({i \in DOMAIN lines : ~Precedes(l, lines[i])})
  IN SubSeq(lines, 1, k) \o <<l>> \o SubSeq(lines, k + 1, Len(lines))

Sorted(text) ==
  LET lines == FoldLeft(Inserted, <<>>, Lines(text))
  IN FoldLeft(LAMBDA out, l : out \o <<l, NL>>, <<>>, lines) \o <<NL>>

Count(text, c) == Len(SelectSeq(text, LAMBDA d : d = c))

Counted(text) == <<<<ToString(Count(text, "NL"))>>, NL>>

(* freq lists the symbols in the order of their codes, which is taken to   *)
(* be that of the locale.                                                  *)
Frequencies(text) ==
  LET symbols == SelectSeq(Collation, LAMBDA c : Count(text, c) > 0)
  IN FoldLeft(LAMBDA out, c : out \o <<<<c, ":", ToString(Count(text, c))>>, NL>>, <<NL>>, symbols)

(* The texts that sort, find and freq write when they have read all.       *)
Result(name, text) ==
  CASE name = "sort" -> Sorted(text)
    [] name = "find" -> Counted(text)
    [] name = "freq" -> Frequencies(text)

Unquoted(text) ==
  IF Len(text) > 1 /\ text[1] = Quote /\ Last(text) = Quote THEN Tail(Front(text)) ELSE text

Message(error) == <<<<error, "NL">>>>

(* Where a program reads from: a file, or its input.  find has a form of   *)
(* its own, which it checks.                                               *)
FindForm == <<"/c", " ", "/v", "\"", "\"">>
HasForm(data) == IsPrefix(FindForm, data)
FileArgument(name, data) ==
  CASE name = "find" -> Trim(SubSeq(data, Len(FindForm) + 1, Len(data)))
    [] name = "sort" -> Trim(data)
    [] name = "type" -> data
    [] OTHER -> <<>>

-----------------------------------------------------------------------------
(* The steps of a program                                                  *)

Runs(p, pc) == p \in DOMAIN prog /\ prog[p].pc = pc /\ ~undefined
Rest(t) == IF t.todo # <<>> THEN "next" ELSE "end"

(* A system call has left the kernel os2 and the thread t.                 *)
Went(p, os2, t) ==
  /\ os' = os2
  /\ prog' = [prog EXCEPT ![p] = t]
  /\ UNCHANGED undefined

Goes(p, os2, t, pc) == Went(p, os2, [t EXCEPT !.pc = pc])
Says(p, os2, t, out, next) ==
  Went(p, os2, [t EXCEPT !.pc = "write", !.out = out, !.next = next])

Breaks == undefined' = TRUE /\ UNCHANGED <<os, prog>>

(* A system call that may fail, be undefined or succeed.                   *)
Attempt(p, t, call, Succeeds(_)) ==
  \E r \in {call} :
    \/ r.error = "Undefined" /\ Breaks
    \/ /\ r.error \notin {"Success", "Undefined"}
       /\ Says(p, os, t, Message(r.error), Rest(t))
    \/ /\ r.error = "Success"
       /\ Succeeds(r)

Opens(p, t, call, pc) ==
  Attempt(p, t, call, LAMBDA r : Goes(p, r.os, [t EXCEPT !.own = {r.value}, !.from = r.value], pc))

(* type, sort, find and freq find what to read.                            *)
TakeInput(p) ==
  LET t == prog[p]
      file == FileArgument(t.name, t.data)
      formed == t.name = "find" => HasForm(t.data)
  IN /\ Runs(p, "start") /\ t.name \in {"type", "sort", "find", "freq"}
     /\ HandlesLeft(os, 1)
     /\ \/ ~formed /\ Says(p, os, t, Message("Arguments expected"), "end")
        \/ formed /\ file = <<>> /\ Goes(p, os, [t EXCEPT !.from = StdIn(p)], "read")
        \/ formed /\ file # <<>> /\ Opens(p, t, Open_File(os, p, file, TRUE, "None"), "read")

(* Mutant of Got: what was read before is forgotten.                       *)
GotLast(p, r) ==
  LET t == prog[p]
      eot == "EOT" \in ToSet(r.value)
  IN IF t.name = "type" THEN Says(p, r.os, t, <<Text(r.value)>>, IF eot THEN "close" ELSE "read")
     ELSE IF eot THEN Says(p, r.os, t, Result(t.name, Text(r.value)), "close")
     ELSE Went(p, r.os, [t EXCEPT !.acc = Text(r.value)])

(* type writes what it has read; the others gather it.                     *)
Got(p, r) ==
  LET t == prog[p]
      eot == "EOT" \in ToSet(r.value)
      all == t.acc \o Text(r.value)
  IN IF t.name = "type" THEN Says(p, r.os, t, <<Text(r.value)>>, IF eot THEN "close" ELSE "read")
     ELSE IF eot THEN Says(p, r.os, t, Result(t.name, all), "close")
     ELSE Went(p, r.os, [t EXCEPT !.acc = all])

Read(p) ==
  LET t == prog[p]
  IN /\ Runs(p, "read") /\ MayRead(os, t.from, ReadSize)
     /\ \E r \in {Read_File(os, t.from, ReadSize)} :
          \/ r.error = "Undefined" /\ Breaks
          \/ r.error = "Success" /\ Got(p, r)
          \/ r.error \notin {"Success", "Undefined"} /\ t.name = "type" /\ Goes(p, os, t, "close")
          \/ /\ r.error \notin {"Success", "Undefined"} /\ t.name # "type"
             /\ Says(p, os, t, Result(t.name, t.acc), "close")

(* Only type looks at whether a write has succeeded: with a part of the    *)
(* text in the pipe it has.                                                *)
Write(p) ==
  LET t == prog[p]
      text == Head(t.out)
      Partly(w) == w.error = "Success" /\ Len(w.value) < Len(text)
      after(w) == IF t.next = "read" /\ w.error # "Success" /\ ~t.wrote THEN "close" ELSE t.next
  IN /\ Runs(p, "write") /\ MayWrite(os, StdOut(p), text)
     /\ \E w \in {Write_File(os, StdOut(p), text)} :
          \/ w.error = "Undefined" /\ Breaks
          \/ /\ Partly(w)
             /\ Went(p, w.os, [t EXCEPT !.out[1] = SubSeq(@, Len(w.value) + 1, Len(@)), !.wrote = TRUE])
          \/ /\ w.error # "Undefined" /\ ~Partly(w)
             /\ Goes(p, w.os, [t EXCEPT !.out = Tail(@), !.wrote = FALSE],
                     IF Len(t.out) > 1 THEN "write" ELSE after(w))

CloseOwn(p) ==
  LET t == prog[p]
      closed == IF t.own = {} THEN os ELSE Close_File(os, CHOOSE h \in t.own : TRUE).os
  IN /\ Runs(p, "close")
     /\ Goes(p, closed, [t EXCEPT !.own = {}], Rest(t))

EchoText(p) ==
  /\ Runs(p, "start") /\ prog[p].name = "echo"
  /\ Says(p, os, prog[p], <<Unquoted(prog[p].data), NL>>, "end")

MakeFolder(p) ==
  LET t == prog[p]
  IN /\ Runs(p, "start") /\ t.name = "md" /\ HandlesLeft(os, 1)
     /\ \/ t.data = <<>> /\ Says(p, os, t, Message("Name not specified"), "end")
        \/ t.data # <<>> /\ Opens(p, t, Open_File(os, p, t.data, FALSE, "Directory"), "close")

RemoveFolder(p) ==
  LET t == prog[p]
  IN /\ Runs(p, "start") /\ t.name = "rd"
     /\ \/ t.data = <<>> /\ Says(p, os, t, Message("Name not specified"), "end")
        \/ /\ t.data # <<>>
           /\ Attempt(p, t, Delete_File(os, p, t.data), LAMBDA r : Goes(p, r.os, t, "end"))

-----------------------------------------------------------------------------
(* dir and tasklist read folders, one entry at a time                      *)

RootText == <<"C:", "/">>
ProcText == <<"C:", "/", "procfs">>
Recursive(data) == Token(data).name = <<"/S">>
Patterned(data) == Recursive(data) /\ Token(Token(data).rest).name = <<"\\*.*">>

(* The folder that the arguments of dir name.                              *)
FolderArgument(data) ==
  LET named == IF Recursive(data) THEN Token(Token(data).rest).name ELSE Token(data).name
  IN IF named = <<>> THEN <<".">> ELSE IF Patterned(data) THEN RootText ELSE named

(* The path of the folder called name in the folder path.                  *)
Below(path, name) ==
  CASE path = <<".">> -> <<name>>
    [] path = RootText -> path \o <<name>>
    [] OTHER -> path \o <<"/", name>>

StartListing(p) ==
  LET t == prog[p]
  IN /\ Runs(p, "start") /\ HandlesLeft(os, 1)
     /\ \/ t.name = "dir" /\ Goes(p, os, [t EXCEPT !.todo = <<FolderArgument(t.data)>>], "next")
        \/ t.name = "tasklist" /\ Opens(p, t, Open_File(os, p, ProcText, TRUE, "Directory"), "list")

(* dir opens the folder on top of its stack, which it keeps in acc.        *)
OpenFolder(p) ==
  LET t == [prog[p] EXCEPT !.acc = Head(prog[p].todo), !.todo = Tail(@)]
  IN /\ Runs(p, "next") /\ prog[p].name = "dir" /\ HandlesLeft(os, 1)
     /\ Opens(p, t, Open_File(os, p, t.acc, TRUE, "Directory"), "list")

Row(t, e) ==
  IF e.dir THEN <<e.name, "\\", "NL">>
  ELSE IF Patterned(t.data) /\ e.name \notin Dotted THEN <<>> ELSE <<e.name, "NL">>

(* An entry is printed by dir, and kept by dir /S if it is a folder; it is *)
(* kept by tasklist.  procfs may return nothing and no error.              *)
Listed(p, r) ==
  LET t == prog[p]
      e == r.value[1]
      pushed == IF e.dir /\ Recursive(t.data) THEN <<Below(t.acc, e.name)>> ELSE <<>>
  IN IF r.value = <<>> THEN Went(p, r.os, t)
     ELSE IF t.name = "tasklist" THEN Went(p, r.os, [t EXCEPT !.todo = Append(@, e.name)])
     ELSE Says(p, r.os, [t EXCEPT !.todo = pushed \o @], <<Row(t, e)>>, "list")

List(p) ==
  /\ Runs(p, "list")
  /\ \E r \in {Read_File(os, prog[p].from, 1)} :
       IF r.error \in {"Success", "Undefined"}
       THEN Attempt(p, prog[p], r, LAMBDA s : Listed(p, s))
       ELSE Goes(p, os, prog[p], "close")

(* tasklist opens the file of a process and writes what is in it.          *)
OpenTask(p) ==
  LET t == [prog[p] EXCEPT !.todo = Tail(@)]
      path == ProcText \o <<"/", Head(prog[p].todo)>>
  IN /\ Runs(p, "next") /\ prog[p].name = "tasklist" /\ HandlesLeft(os, 1)
     /\ Opens(p, t, Open_File(os, p, path, TRUE, "None"), "task")

ReadTask(p) ==
  /\ Runs(p, "task")
  /\ \E r \in {Read_File(os, prog[p].from, 1)} :
       \/ r.error = "Undefined" /\ Breaks
       \/ /\ r.error = "Success"
          /\ Says(p, r.os, prog[p], <<<<r.value[1].name, r.value[1].status, "NL">>>>, "close")
       \/ r.error \notin {"Success", "Undefined"} /\ Goes(p, os, prog[p], "close")

-----------------------------------------------------------------------------
(* Closing a pipe that a thread may be reading or writing                  *)

(* The programs that may be inside Pipe::Read or Pipe::Write of the pipe   *)
(* x.  One that is hung waits there for ever and has no step.              *)
Reading(x) ==
  {p \in DOMAIN prog : /\ prog[p].pc \in {"read", "hung"} /\ prog[p].own = {}
                       /\ prog[p].given[1].kind = "out" /\ prog[p].given[1].of = x}
Writing(x) ==
  {p \in DOMAIN prog : /\ prog[p].pc = "write"
                       /\ prog[p].given[2].kind = "in" /\ prog[p].given[2].of = x}

IsEnd(h) == h \in DOMAIN os.files /\ os.files[h].kind \in {"in", "out"}
PipeOf(h) == os.files[h].of

(* With its second end a pipe is destroyed, and its semaphores with it: a  *)
(* thread that is still inside one of its functions uses them.             *)
Tears(h) ==
  /\ IsEnd(h) /\ PipeOf(h) \notin DOMAIN Close_File(os, h).os.pipes
  /\ Reading(PipeOf(h)) \cup Writing(PipeOf(h)) # {}

(* Close_Out wakes its reader once.  With symbols in the pipe, or one that *)
(* the writer is about to store, the reader may return with nothing, call  *)
(* again before the handle is gone, pass the test of closed_out and wait   *)
(* for a notification that nobody sends.                                   *)
Strands(h) ==
  IF /\ IsEnd(h) /\ os.files[h].kind = "out"
     /\ os.pipes[PipeOf(h)].data # <<>> \/ Writing(PipeOf(h)) # {}
  THEN Reading(PipeOf(h)) ELSE {}

Stranded(ps) == [p \in DOMAIN prog |-> [prog[p] EXCEPT !.pc = IF p \in ps THEN "hung" ELSE @]]

-----------------------------------------------------------------------------
(* shutdown closes the standard input of every process of a list that it   *)
(* makes first; a process that is gone by then is used all the same.       *)
ListProcesses(p) ==
  /\ Runs(p, "start") /\ prog[p].name = "shutdown"
  /\ Goes(p, os, [prog[p] EXCEPT !.todo = Processes(os)], "kill")

CloseStdIn(p) ==
  LET pid == Head(prog[p].todo)
      h == os.pcb[pid].std_in
      todo == Tail(prog[p].todo)
      t == [prog[p] EXCEPT !.todo = todo, !.pc = IF todo = <<>> THEN "end" ELSE "kill"]
  IN /\ Runs(p, "kill")
     /\ \/ /\ pid \in DOMAIN os.pcb
           /\ \E ps \in SUBSET Strands(h) : prog' = [Stranded(ps) EXCEPT ![p] = t]
           /\ os' = Close_File(os, h).os
           /\ UNCHANGED undefined
        \/ pid \in DOMAIN os.pcb /\ Tears(h) /\ Breaks
        \/ pid \notin DOMAIN os.pcb /\ Breaks

(* thread_post_execute: the process waits for its exit code to be read.    *)
Finish(p) ==
  /\ Runs(p, "end")
  /\ os' = [os EXCEPT !.pcb[p].status = "Zombie"]
  /\ prog' = [q \in DOMAIN prog \ {p} |-> prog[q]]
  /\ UNCHANGED undefined

Step(p) ==
  \/ TakeInput(p) \/ Read(p) \/ Write(p) \/ CloseOwn(p)
  \/ EchoText(p) \/ MakeFolder(p) \/ RemoveFolder(p)
  \/ StartListing(p) \/ OpenFolder(p) \/ List(p) \/ OpenTask(p) \/ ReadTask(p)
  \/ ListProcesses(p) \/ CloseStdIn(p)
  \/ Finish(p)
=============================================================================
