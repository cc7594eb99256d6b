------------------------------- MODULE Files -------------------------------
(***************************************************************************)
(* The system calls of the kernel that the shell and its programs use, as  *)
(* functions of the state of the kernel: the file table and its handles    *)
(* (kernel/files.cpp), the ends of pipes (kernel/pipes.cpp, pipe_file.cpp),*)
(* FAT12 as a tree of texts (kernel/fat_fs.cpp), procfs (kernel/           *)
(* proc_fs.cpp) and the table of processes (kernel/process/pcb.cpp).       *)
(*                                                                         *)
(* A text is a sequence of symbols; "NL" ends a line, "EOT" the input.     *)
(* The inside of a pipe is module Pipe, that of a disk is module Fat.      *)
(***************************************************************************)
EXTENDS Paths, FiniteSets

CONSTANTS
  Handles,     (* how many handles there are, 65536 in the code             *)
  PipeSize     (* how many symbols a pipe holds, 1028 in the code           *)

Handle == 0 .. Handles - 1

(* The state of the kernel: files is Ft->files and last is Last_File;      *)
(* pipes are the Pipe objects, disk the entries of FAT12 in the order of   *)
(* their slots, pcb the table of processes, tty what has been written to   *)
(* the terminal.                                                           *)
Entry(path, dir, text) ==
  [path |-> path, dir |-> dir, text |-> text, size |-> Len(text)]
File(kind, of, size) == [kind |-> kind, of |-> of, pos |-> 0, size |-> size]

(* What a system call leaves and returns.  "Undefined" is the error of a   *)
(* call that throws or reads what is not there.                            *)
Success(os, value) == [os |-> os, error |-> "Success", value |-> value]
Failed(os, error) == [os |-> os, error |-> error, value |-> <<>>]

-----------------------------------------------------------------------------
(* The file table                                                          *)

(* The table t with the entry e at k.                                      *)
With(t, k, e) == [j \in DOMAIN t \cup {k} |-> IF j = k THEN e ELSE t[j]]

(* Mutant of Next_Handle: Last_File is not compared with the table.        *)
Next_HandleBlind(os) == (os.last + 1) % Handles

(* The handle that Add_File finds: the next one that is not in use.        *)
Next_Handle(os) ==
  LET After(i) == (os.last + i) % Handles
  IN After(CHOOSE i \in 1 .. Handles :
             /\ After(i) \notin DOMAIN os.files
             /\ \A j \in 1 .. i - 1 : After(j) \in DOMAIN os.files)

Add_File(os, file) ==
  Given(Next_Handle(os), LAMBDA h : [os EXCEPT !.last = h, !.files = With(@, h, file)])

(* With no handle left Add_File never returns.                             *)
HandlesLeft(os, n) == Cardinality(DOMAIN os.files) + n <= Handles

(* A pipe lives as long as one of its ends is in the table.                *)
Erase(os, h) ==
  LET files == [k \in DOMAIN os.files \ {h} |-> os.files[k]]
      held == {files[k].of : k \in {j \in DOMAIN files : files[j].kind \in {"in", "out"}}}
  IN [os EXCEPT !.files = files, !.pipes = [p \in DOMAIN @ \cap held |-> @[p]]]

(* Mutant of Close_In: the reader is not told.                             *)
Close_InQuiet(pipe) == [pipe EXCEPT !.closedIn = TRUE]

(* Pipe::Close_In leaves EOT for the reader, Pipe::Close_Out only says     *)
(* that nobody reads.                                                      *)
Close_In(pipe) ==
  [pipe EXCEPT !.data = IF pipe.closedOut THEN @ ELSE Append(@, "EOT"),
               !.closedIn = TRUE]

(* Close_In needs room for EOT, unless nobody reads any more.              *)
Room(pipe) == PipeSize - Len(pipe.data)
MayClose(os, h) ==
  h \in DOMAIN os.files /\ os.files[h].kind = "in" =>
    LET pipe == os.pipes[os.files[h].of] IN pipe.closedOut \/ Room(pipe) > 0

Close_File(os, h) ==
  IF h \notin DOMAIN os.files THEN Failed(os, "File_Not_Found")
  ELSE LET file == os.files[h]
           closed == CASE file.kind = "in" -> [os EXCEPT !.pipes[file.of] = Close_In(@)]
                       [] file.kind = "out" -> [os EXCEPT !.pipes[file.of].closedOut = TRUE]
                       [] OTHER -> os
       IN Success(Erase(closed, h), <<>>)

Create_Pipe(os) ==
  LET p == Min((1 .. Cardinality(DOMAIN os.pipes) + 1) \ DOMAIN os.pipes)
      made == [os EXCEPT !.pipes =
                 With(@, p, [data |-> <<>>, closedIn |-> FALSE, closedOut |-> FALSE])]
      Both(in) == Given(Add_File(in, File("out", p, 0)),
                        LAMBDA out : Success(out, <<in.last, out.last>>))
  IN Given(Add_File(made, File("in", p, 0)), Both)

-----------------------------------------------------------------------------
(* Paths and folders                                                       *)

Word(symbols) == FoldLeft(LAMBDA w, c : w \o c, "", symbols)

(* The components of a path as it is written, and whether it has a root.   *)
(* Separators in a row count as one, and one at the end leaves an empty    *)
(* component.  A path without a drive that begins with a separator is      *)
(* relative to Windows, but append() then drops the working directory.     *)
PathOf(text) ==
  LET rest == IF text # <<>> /\ text[1] = "C:" THEN Tail(text) ELSE text
      Split(cs, c) == IF c # "/" THEN Append(Front(cs), Last(cs) \o c)
                      ELSE IF Last(cs) = "" THEN cs ELSE Append(cs, "")
      Named(names) == [absolute |-> rest # <<>> /\ rest[1] = "/",
                       path |-> IF names = <<"">> THEN <<>> ELSE names]
  IN Given(FoldOnce(Split, <<"">>, rest), Named)

(* A relative path is appended to the working directory of the caller.     *)
Absolute(os, pid, p) ==
  IF p.absolute THEN p.path
  ELSE IF p.path = <<>> THEN WithSeparator(os.pcb[pid].wd)
  ELSE FoldOnce(Joined, os.pcb[pid].wd, p.path)

Tree(os) == {os.disk[i].path : i \in DOMAIN os.disk}
Pids(os) == {ToString(pid) : pid \in DOMAIN os.pcb}
Walk(os, pid, p) == File_Exists(Tree(os), Pids(os), Absolute(os, pid, p))

(* path_to_indiv_items leaves out an empty item at the beginning, open and *)
(* readdir a "." at the end.  No entry is found for an empty item or a "." *)
(* elsewhere.                                                              *)
Items(rel) == IF rel # <<>> /\ rel[1] = "" THEN Tail(rel) ELSE rel
EntryPath(rel) ==
  LET items == Items(rel)
  IN IF items # <<>> /\ Last(items) = "." THEN Front(items) ELSE items

EntryAt(disk, path) == CHOOSE i \in DOMAIN disk : disk[i].path = path
IsFolder(disk, path) == path = <<>> \/ disk[EntryAt(disk, path)].dir
Children(disk, path) == SelectSeq(disk, LAMBDA e : e.path # <<>> /\ Front(e.path) = path)

(* Proc_Fs::readdir: the table of processes is ordered by their handles.   *)
Processes(os) ==
  [i \in 1 .. Cardinality(DOMAIN os.pcb) |->
    CHOOSE pid \in DOMAIN os.pcb : Cardinality({q \in DOMAIN os.pcb : q < pid}) = i - 1]

-----------------------------------------------------------------------------
(* Opening and deleting                                                    *)

(* The path is relative to the file system.  An entry is made in the       *)
(* folder that the look-up finds; without one the table is read at -1.     *)
FatOpen(os, rel, always, attributes) ==
  LET disk == os.disk
      path == EntryPath(rel)
      made == Append(disk, Entry(path, attributes = "Directory", <<>>))
      Opened(d) ==
        IF IsFolder(d, path) THEN File("folder", path, Len(Children(d, path)))
        ELSE File("file", path, Len(d[EntryAt(d, path)].text))
  IN IF path \notin Tree(os) \cup {<<>>}
     THEN IF always THEN Failed(os, "File_Not_Found")
          ELSE IF Front(path) \notin Tree(os) \cup {<<>>} THEN Failed(os, "Undefined")
          ELSE Success([os EXCEPT !.disk = made], Opened(made))
     ELSE IF IsFolder(disk, path) /\ attributes # "Directory" THEN Failed(os, "Permission_Denied")
     ELSE Success(os, Opened(disk))

(* procfs opens what is there, however it is asked.                        *)
ProcOpen(os, rel, attributes) ==
  LET named == {pid \in DOMAIN os.pcb : Items(rel) = <<ToString(pid)>>}
  IN IF Items(rel) \in {<<>>, <<".">>}
     THEN IF attributes # "Directory" THEN Failed(os, "Permission_Denied")
          ELSE Success(os, File("procfs", <<>>, Cardinality(DOMAIN os.pcb)))
     ELSE IF named = {} \/ attributes = "Directory" THEN Failed(os, "Permission_Denied")
     ELSE Success(os, File("process", CHOOSE pid \in named : TRUE, 1))

(* Open_File: always is fmOpen_Always.  A file that need not exist is      *)
(* looked for in its parent folder.                                        *)
Open_File(os, pid, text, always, attributes) ==
  LET p == PathOf(text)
      name == IF p.path = <<>> THEN "" ELSE Last(p.path)
      Relative(walk) == IF always THEN walk.rel ELSE Joined(walk.rel, name)
      Opened(walk) == IF Last(walk.fs) = "fat" THEN FatOpen(os, Relative(walk), always, attributes)
                      ELSE ProcOpen(os, Relative(walk), attributes)
      InTable(opened) ==
        IF opened.error # "Success" THEN Failed(os, opened.error)
        ELSE Given(Add_File(opened.os, opened.value), LAMBDA added : Success(added, added.last))
      Found(walk) ==
        IF walk.status = "undefined" THEN Failed(os, "Undefined")
        ELSE IF walk.status = "missing" THEN Failed(os, "File_Not_Found")
        ELSE Given(Opened(walk), InTable)
  IN IF ~always /\ attributes = "Directory" /\ Walk(os, pid, p).status # "missing"
     THEN Failed(os, "Invalid_Argument")
     ELSE Given(Walk(os, pid, IF always THEN p ELSE [p EXCEPT !.path = Parent(@)]), Found)

(* Delete_File, of a folder: rmdir.  An empty root has no name that could  *)
(* be removed; at() throws.                                                *)
Delete_File(os, pid, text) ==
  LET Found(walk) ==
        LET path == Items(walk.rel)
        IN IF walk.status = "undefined" THEN Failed(os, "Undefined")
           ELSE IF walk.status = "missing" THEN Failed(os, "File_Not_Found")
           ELSE IF Last(walk.fs) = "proc" THEN Failed(os, "Permission_Denied")
           ELSE IF path \notin Tree(os) \cup {<<>>} THEN Failed(os, "File_Not_Found")
           ELSE IF Children(os.disk, path) # <<>> THEN Failed(os, "Directory_Not_Empty")
           ELSE IF path = <<>> THEN Failed(os, "Undefined")
           ELSE Success([os EXCEPT !.disk = SelectSeq(@, LAMBDA e : e.path # path)], <<>>)
  IN Given(Walk(os, pid, PathOf(text)), Found)

Set_Working_Dir(os, pid, text) ==
  LET Found(walk) ==
        IF walk.status = "undefined" THEN Failed(os, "Undefined")
        ELSE IF walk.status = "missing" THEN Failed(os, "File_Not_Found")
        ELSE Success([os EXCEPT !.pcb[pid].wd = walk.path], <<>>)
  IN Given(Walk(os, pid, PathOf(text)), Found)

-----------------------------------------------------------------------------
(* Reading and writing                                                     *)

(* Pipe::Read returns n symbols, or fewer that end with EOT, which closes  *)
(* the pipe.                                                               *)
PipeRead(os, h, n) ==
  LET p == os.files[h].of
      data == os.pipes[p].data
      eot == SelectInSeq(data, LAMBDA c : c = "EOT")
      taken == IF eot \in 1 .. n THEN eot ELSE Min({n, Len(data)})
  IN IF data = <<>> THEN Failed(os, "IO_Error")
     ELSE Success([os EXCEPT !.pipes[p].data = SubSeq(data, taken + 1, Len(data)),
                             !.pipes[p].closedOut = @ \/ eot \in 1 .. n],
                  SubSeq(data, 1, taken))

(* A reader of a pipe waits for n symbols or for EOT.  One that is closed  *)
(* is read no more when it is empty; with symbols left a read waits for    *)
(* ever, once the notifications have been taken (module Pipe).             *)
MayRead(os, h, n) ==
  h \in DOMAIN os.files /\ os.files[h].kind = "out" =>
    LET pipe == os.pipes[os.files[h].of]
        ready == Len(pipe.data) >= n \/ \E i \in DOMAIN pipe.data : pipe.data[i] = "EOT"
    IN IF pipe.closedOut THEN pipe.data = <<>> ELSE ready

Visible(entry) == SubSeq(entry.text, 1, entry.size)

(* What the object behind a file has now, one element for each position.   *)
Contents(os, file) ==
  CASE file.kind = "file" -> Visible(os.disk[EntryAt(os.disk, file.of)])
    [] file.kind = "folder" ->
         LET kids == Children(os.disk, file.of)
         IN [i \in DOMAIN kids |-> [name |-> Last(kids[i].path), dir |-> kids[i].dir]]
    [] file.kind = "procfs" ->
         [i \in DOMAIN Processes(os) |-> [name |-> ToString(Processes(os)[i]), dir |-> FALSE]]
    [] file.kind = "process" -> <<os.pcb[file.of]>>

(* What was open has been removed: its clusters are free, or belong to     *)
(* another file by now (module Fat).                                       *)
Vanished(os, file) ==
  \/ file.kind = "folder" /\ file.of \notin Tree(os) \cup {<<>>}
  \/ file.kind = "file" /\ file.of \notin Tree(os)

(* Filesystem_File::read: the size is what it was when the file was        *)
(* opened.  A folder that has shrunk is read past its end with at(), which *)
(* throws, and procfs with an iterator behind end().                       *)
FileRead(os, h, n) ==
  LET file == os.files[h]
      to_read == Min({n, file.size - file.pos})
      ended == file.kind = "process" /\ file.of \notin DOMAIN os.pcb
      now == Contents(os, file)
      end == Min({file.pos + to_read, Len(now)})
  IN IF to_read = 0 THEN Failed(os, "IO_Error")
     ELSE IF ended THEN Failed(os, "File_Not_Found")
     ELSE IF Vanished(os, file) THEN Failed(os, "Undefined")
     ELSE IF file.kind = "folder" /\ now = <<>> THEN Failed(os, "IO_Error")
     ELSE IF file.pos > Len(now) \/ (file.kind = "folder" /\ file.pos = Len(now))
     THEN Failed(os, "Undefined")
     ELSE Success([os EXCEPT !.files[h].pos = end], SubSeq(now, file.pos + 1, end))

(* Read_File.  The user answers a program that reads the keyboard with the *)
(* end of the input.                                                       *)
Read_File(os, h, n) ==
  IF h \notin DOMAIN os.files THEN Failed(os, "File_Not_Found")
  ELSE CASE os.files[h].kind = "kb" -> Success(os, <<"EOT">>)
         [] os.files[h].kind = "out" -> PipeRead(os, h, n)
         [] os.files[h].kind \in {"tty", "in"} -> Failed(os, "IO_Error")
         [] OTHER -> FileRead(os, h, n)

(* Fat_Fs::write.  The end of what is written is the size of the file,     *)
(* unless it is the size that the open file has: then that of the entry    *)
(* stays as it is (module Fat).                                            *)
FileWrite(os, h, text) ==
  LET file == os.files[h]
      i == EntryAt(os.disk, file.of)
      end == file.pos + Len(text)
  IN [os EXCEPT !.disk[i].text = SubSeq(@, 1, file.pos) \o text,
                !.disk[i].size = IF end = file.size THEN @ ELSE end,
                !.files[h].pos = end,
                !.files[h].size = @ + Len(text)]

Closed(pipe) == pipe.closedIn \/ pipe.closedOut

(* Mutant of PipeWrite: the text is stored whether there is room or not.   *)
PipeWriteAll(os, h, text) ==
  LET pipe == os.pipes[os.files[h].of]
  IN IF text = <<>> \/ Closed(pipe) THEN Failed(os, "IO_Error")
     ELSE Success([os EXCEPT !.pipes[os.files[h].of].data = @ \o text], text)

(* Pipe::Write stores what there is room for, and waits for more with the  *)
(* rest of the text.                                                       *)
PipeWrite(os, h, text) ==
  LET pipe == os.pipes[os.files[h].of]
      stored == SubSeq(text, 1, Min({Len(text), Room(pipe)}))
  IN IF text = <<>> \/ Closed(pipe) THEN Failed(os, "IO_Error")
     ELSE Success([os EXCEPT !.pipes[os.files[h].of].data = @ \o stored], stored)

MayWrite(os, h, text) ==
  h \in DOMAIN os.files /\ os.files[h].kind = "in" /\ text # <<>> =>
    LET pipe == os.pipes[os.files[h].of] IN Closed(pipe) \/ Room(pipe) > 0

(* The value of a write is what of the text has been written.              *)
Write_File(os, h, text) ==
  IF h \notin DOMAIN os.files THEN Failed(os, "File_Not_Found")
  ELSE CASE os.files[h].kind = "tty" -> Success([os EXCEPT !.tty = @ \o text], text)
         [] os.files[h].kind = "in" -> PipeWrite(os, h, text)
         [] os.files[h].kind = "file" ->
              IF Vanished(os, os.files[h]) THEN Failed(os, "Undefined")
              ELSE Success(FileWrite(os, h, text), text)
         [] OTHER -> Failed(os, "Permission_Denied")
=============================================================================
