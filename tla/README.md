# Verification of the KIV/OS simulator: pipes, processes, file system, terminal and shell

The repository simulates a small operating system on Windows. `boot.exe` plays
the hardware, `kernel.dll` holds the kernel (processes, pipes, open files, a
FAT12 file system) and `user.dll` the shell and the other programs. Every
simulated process and thread is a thread of Windows, all of them share one
address space, and a system call runs in the thread of its caller. There is no
kernel lock: each structure has a lock of its own, or none. All paths below are
under `proj/src/` of the repository.

This directory holds TLA+ models of that code, the TLC configurations that check
them on small instances, and proofs checked by TLAPS.

## 1. Inventory

| Part | State | Operations | Talks to |
| --- | --- | --- | --- |
| Pipes (`kernel/pipe.cpp`, `pipe_file.cpp`, `semaphore.h`) | ring buffer, two pointers, two flags, two counting semaphores | Write, Read, Close_In, Close_Out | called from the threads of two programs and of the shell at the same time |
| Process manager (`kernel/process.cpp`, `process/`) | Handle_To_THandle, Wait_For_Listeners, Parent_Processes, process table | clone (thread, process), wait_for, exit, read_exit_code, register_signal_handler, shutdown | one mutex for some of the accesses; listeners live on the stack of the waiting thread |
| Handles (`kernel/handles.cpp`) | 16-bit handle to native handle, last handle given | Convert, Resolve, Remove | process manager |
| File table and I/O calls (`kernel/files.cpp`, `io.cpp`) | 16-bit handle to Generic_File | Open, Close, Read, Write, Seek, Delete, attributes | pipes, FAT12, procfs, terminal |
| FAT12 (`kernel/fat_fs.cpp`, `fat_fs_utils.cpp`, `fs_file.cpp`) | two copies of the table, directory entries, clusters, all on the disk image | read, write, open, mkdir, rmdir, readdir | disk of boot.exe through interrupts; no lock |
| procfs (`kernel/proc_fs.cpp`) | none, reads the process table | open, read, readdir | process manager |
| VFS, working directory (`kernel/vfs.h`, `dir.cpp`) | mounted file systems, working directory of a process | path walk, Set and Get_Working_Dir | FAT12, procfs |
| Terminal files (`kernel/tty_file.cpp`, `keyboard_file.cpp`, `boot/keyboard.cpp`) | queue of injected characters, Std_In_Is_Open | Read_Line, Read_Char, Write_Char with CancelIoEx | console of Windows |
| Shell (`user/shell.cpp`, `argparser.cpp`) | handles of pipes, files and programs of a command | pipeline, cancel | everything above through system calls |
| rgen (`user/rgen.cpp`) | two flags shared with its guard thread | generate, guard | threads, keyboard, output |
| Other programs (`user/*.cpp`) | locals | read until EOT or failure, print | file calls |

What is hard in it: threads that meet in a pipe or in the listener lists without
one lock around a whole call; programs that end at any moment around a
`Wait_For`; the shell that closes files while programs use them, in an order it
has to choose, and blocks in the closing; the two ways a pipeline ends (its
programs finish, or the shell cancels it); semaphores that must be notified
exactly once per event; two threads that read one keyboard, and a cancel that may
come before the call it should cancel; objects on stacks and in maps that other threads still
point at; and, in the file system, multi-cluster updates of a table on disk that
fail half way. `PROJECT.json` lists each hazard at its line.

What makes the parts correct:

- a pipe delivers each character once, in order, never overwrites an unread one,
  ends with EOT, and neither of its programs waits for ever;
- `Wait_For` returns as soon as one of its threads ends, says which, and leaves no
  pointer to its listener behind; the exit code that `Read_Exit_Code` returns is
  final, and its entry is there;
- a command line is parsed as it is written; a pipeline computes the composition
  of its programs whatever the order in which they run, closes every handle it
  opened exactly once, after its user has ended, and gives the prompt back;
- a path leads to the folder it names, across the mount point of procfs;
- rgen ends when its input ends or its output is closed, its guard never uses
  the frame of an rgen that has returned, and the EOT it writes to itself does
  not reach the shell;
- the clusters of every file form one chain, no cluster is in two chains, and the
  two copies of the table agree.

## 2. Modules

| Module | What it is |
| --- | --- |
| `Channel` | what a pipe promises: a bounded FIFO of characters with an end |
| `Pipe` | `kernel/pipe.cpp` and the three threads that meet in it |
| `PipeProofs` | theorems about `Pipe` |
| `MCPipe` | instance of `Pipe`: capacity 2, short messages |
| `FileTree` | what a file system promises: a tree of folders and files |
| `Fat` | `kernel/fat_fs.cpp`, `fat_fs_utils.cpp`, `fs_file.cpp`: the FAT12 file system and open files |
| `FatCodec` | the numbers of the file system as bytes: the table of 12-bit entries, first clusters, sizes |
| `FatInv` | what a table and a disk stand for, and the inductive invariant of `Fat` |
| `FatLemmas` | lemmas: chains, trees, folders, sequences of writes, and what the recursive functions of `Fat` return |
| `FatProofs` | theorems about `Fat`: every action keeps the invariant, what follows from it, that each step is one of `FileTree`, and that the bytes of a table are read back |
| `MCFat` | instance of `Fat`: four clusters, two names, folders that soon need a second cluster; the invariant with the tree that the look-ups read |
| `Processes` | `kernel/process.cpp`: clone, wait_for, exit, read_exit_code, end of a thread |
| `ProcessesProofs` | theorems about `Processes` |
| `MCProcesses` | instance of `Processes`: boot thread, shell, two programs, a thread of one |
| `Handles` | `kernel/handles.cpp`: the 16-bit numbers of threads |
| `Terminal` | `boot/keyboard.cpp`, `kernel/keyboard_file.cpp`, `user/rgen.cpp` and the loop of the shell at one keyboard |
| `TerminalProofs` | theorems about `Terminal` |
| `MCTerminal` | instance of `Terminal`: a user who types the command `r` and control characters |
| `ArgParser` | `parse_programs` of `user/argparser.cpp` as a function of the text |
| `Paths` | the path walk `File_Exists` of `kernel/files.cpp`, and what it is for |
| `Files` | the system calls of the shell and its programs as functions of the state of the kernel: file table, pipes, FAT12 and procfs as far as programs see them |
| `Programs` | the programs of `user/`, a system call per step |
| `Shell` | `user/shell.cpp` above all of these: commands, pipelines, cancelling |
| `Composition` | what the shell promises, and its properties |
| `ShellInv` | the inductive invariant of `Shell`: who is to close each handle |
| `ShellProofs` | theorems about `Shell` and about what the parser gives it |
| `MCShell` | instance of `Shell`: 42 commands, a small disk |
| `KernelProofs` | theorems about two small parts of the kernel: `Handles` and the walk of `Paths` |
| `Induction` | induction over numbers and over the steps of a fold, as theorems about operators that are constants: a proof takes an instance for each property |
| `Once` | evaluation of an argument once; needed by TLC only |

### Pipe

Variables have the names of the members of `class Pipe`; the members that are
semaphores are their counts. A step of a thread is one access to shared state:
`WriteCheck`, `WaitEmpty`, `WriteRecheck`, `Put`, `Advance`, `Wrap`, `NotifyFill` are
the statements of `write_char`; `ReadCheck`, `WaitFill`, `ReadRecheck`, `Take`,
`NotifyEmpty`, `SetClosedOut` those of `Read`. Reading the character, the increment
and the roll-over of `read_ptr` are one step, because a single thread uses
`read_ptr`. `write_ptr` has two users when a pipeline is cancelled, so storing,
incrementing and rolling over are three steps, and the increment may use a value
of the pointer that was loaded earlier: without a lock the build may do either.
A store beyond the buffer is a step that changes nothing the model sees.

`Spec` is the orderly pipeline: the shell closes an end when the program that used
it has ended (`call_piped_programs`). `CancelSpec` is `cancel_all_programs`: the
shell closes both ends, the input first, whatever the programs are doing. The
programs are any that write messages and read with any sizes, may stop after any
call, and stop reading once a call failed or returned EOT; all programs of `user/`
are among them.

A call has two steps before it touches the pipe: `Write_File` or `Read_File` resolves the
handle to a pointer to the file (`Write`, `Read`), then calls it (`EnterWrite`, `EnterRead`).
Nothing keeps the file, nor the `Pipe` behind it, alive in between: `RemoveHandle` of an end
destroys the file of that end, and the second one destroys the `Pipe` (files.cpp:183,
`Destroyed`). A program whose next access would be to one of them is `Dangling`; what it
does is undefined, and its label is `undefined` from then on (`UseDestroyed`). One that waits on
a semaphore of a pipe that is gone, and that nobody notified before, stays where it is.
`DestroyedUnused` says that this does not happen in an orderly pipeline;
in a cancelled one it does, so that `CancelReleasesWriter` and `CancelReleasesReader` promise
no more than that the program does not wait for ever in its call.

`sent` and `received` are history variables. `ChannelSpec` is the refinement of
`Channel`: `Put` is Send (or Close, in the shell), `Take` is Receive, and the flag
`open` is `InputOpen`.

### Processes

One step is what `Semaphores_Mutex` guards or one call of a table that locks
itself. `Clone` is `run_in_a_thread`; the entries that `clone` writes after it,
outside of the lock, are `AddProcess` and `AddThread`; `Start` is the notification
of the semaphore the new thread waits on. `WaitFor`, `Register` or `RollBack`,
`Wake` and `Collect` are `wait_for`. `ThreadPostExecute` is the end of a thread.
`ReadExitCode`, then `wait_for` again, `Fetch` and `Reap` are `read_exit_code`;
`Fetch` takes the pointer before the lock, and if another thread erased the entry
before `Reap`, the result is any code. `listeners[h][t]` counts how often the
listener of thread `t` is in the list of handle `h`: a handle may be passed twice.
Programs make these calls in any order, bounded by the constants `Cloner`, `Waits`
and `Readers`. In the run the exit code of one process is read by two threads, and the
second may find the erased entry; `NoStaleEntry` is about the threads that alone read
an exit code (`SoleReader`), as the shell does. `Exit` sets the status `Zombie` and the
program runs on (process.cpp:389), although the documentation (dokumentace.tex:222) says
that a Zombie has executed its program: `NoStaleEntry` says that a reader waits for the end
of the thread none the less.

Left out: a handle stands for its thread, so that a 16-bit number is given twice
is not in this model (module `Handles` has it), nor that two listeners get the
same 16-bit identifier;
signal handlers; `Shutdown`, which is a system call of `Programs`; the status `Ready`, which nobody can see.

### Fat

The disk is cut into clusters, and a cluster into units of 32 bytes: a unit is an
entry of a folder or a piece of a file, and sizes and positions count units.
`fat` is the table in memory. The code keeps it twice, as bytes and as numbers,
and changes both together; `saved` is what `save_fat_tables` wrote last (the
second copy on the disk is never read by the kernel). `disk` holds the
units of each cluster and of the root folder, which is one area that cannot grow.

An operation reads what it needs, changes `fat`, and leaves in `pending` the
writes it makes, in the order of the code: `WriteDataToFatFs` does one per step. The
order is the point: create saves the table before it writes the entry,
rmdir clears and frees before it removes the entry, write puts the data in the
clusters before it saves the table and the size. `Crash` stops the machine
between two of them and boots it again.

`Chain`, `Items`, `Lookup` are `retrieve_sectors_nums_fs`,
`retrieve_folders_cur_folder` and `retrieve_item_clust`: they read a table and a
disk given as arguments, so that the properties can ask what the next boot would
find. `CreateFile`, `CreateFolder`, `OpenFile` and `CloseFile` are `Fat_Fs::open`
and the calls above it, `Write`, `Read` and `Seek` those of `Filesystem_File` with
what they do in `Fat_Fs`. A handle remembers its path, first cluster, size and
position, as `File` does. `Write` keeps what the code does when a write
needs several new clusters (each is linked to the same old last one), when the disk is
full at the edge of a cluster (`written` is never set, `Spoiled`) and when a write
ends where the remembered size is.

`FatInv` says what the table and the disk are for: `Represents` gives them a tree,
that is, an entry (`E`) and a chain of clusters (`S`) for each path and a list of
names (`L`) for each folder. `Goes` follows the writes in `pending` and asks for such a
tree after each of them. `DiskIsTree` is this invariant with the `E`, `S` and `L`
that the look-ups of the code read, so that TLC can evaluate it.

`FileTreeSpec` is the refinement of `FileTree`: the tree is what the folders
will say when the running operation is through. Each operation changes one path.

Left out: operations that overlap (the code has no lock; the model gives each
the file system for itself); removing a file that is open; a path whose parent
is a file; names, attributes and dates; reading a folder as a file; a position other
than the beginning, the end and where reads and writes lead. A unit of data is
never blank, so a removed file is one that lists as an empty folder, as in the code:
a file with more than two units refuses to be removed. The first sector of the
root is 19 in the code, and a data cluster with that number would be taken for
it; on the image that is delivered cluster 19 belongs to the kernel file.

`FatCodec` has the two formats of the table, which `Fat` takes for one: `Injected` is how
every operation changes an entry in the bytes, `convert_fat_table_to_dec` how the next
boot reads it. The reader prints three bytes with `i++` in three arguments of one
call; the order is the compiler's, and the model has the one of the project's
compiler (last to first), in which the format is FAT12. `TableReadsBack` puts every table
that a run of `Fat` reaches into bytes and reads it back.

### Handles

`Convert_Native_Handle` is called when a thread is spawned, `Remove_Handle` when one ends;
both happen under `Semaphores_Mutex`, so each is a step. `given` is `Handle_To_THandle`,
`table` the map. `age` and `lapped` are history: how far the counter went since a thread
was given its number, and whether it ever came all the way round while a thread
was running. With 2^16 numbers and steps of 1 to 6 this takes at least 10 923
programs while one thread (the shell, say) runs. Afterwards a new program may get
the number of a running one: `insert` keeps the old entry, and when one of them
ends, the other is taken for ended. The identifiers of listeners (process.cpp:264)
come from such a counter, too, and a thread that stays blocked takes the place of
one that runs. There is no run of its own for this module: its one property is
proved.

### Terminal

Three threads use one keyboard: the shell, which reads a line; rgen, which writes
numbers until a write fails or its flag is cleared; and the guard that rgen
clones to read its input. A step is one access to the queue of
`boot/keyboard.cpp`, to `Std_In_Is_Open`, to the console or to one of the two flags
in the frame of rgen. `Replay`, `Issue`, `Begin`, `Typed`, `Fail` and `Recheck` are the
statements of `Read_Char`: the queue is looked at, then `ReadFile` is called, then
it waits, and `CancelIoEx` (`RgenCancelIo`) ends only a read that already waits. `Take`
is the body of `Read_Line_From_Console`. `GuardLine`, `GuardFlag` and `GuardStop` are
`stdin_guard`; `RgenStart` to `RgenJoin` are `rgen`.

What the run shows besides its properties: a `CancelIoEx` that falls between the
look at the queue and `ReadFile` cancels nothing, and rgen, with the shell behind it,
hangs until the user types one more key (`missed` in `JoinReturns`, `OneMoreKey`). The
EOT that rgen writes to its own input stays in the queue for the shell, which ends
because of it, if the guard goes between the test of `is_generating` in rgen and
its own; `StrayEot` says that this happens only after the user had ended the
input of the guard, when both ends were on their way. ETX stops rgen only with
the end of its line.

Left out: the NUL that a failed `ReadFile` may leave, a guard that cannot be cloned,
`exit`, and all commands but rgen. `std::queue` is used by both threads without a
lock; a step of the model is one whole access.

### The shell, its programs and the kernel below them

`Shell` starts where `run_shell` has opened the terminal and the keyboard. The user
types one of `Commands`, with or without blanks around its delimiters
(`Typed`); a text is a sequence of symbols, and a word has one or more of them, so
that it matters where the parser cuts. `parse_programs` of `ArgParser` follows the code
symbol by symbol: `Round` is one round of its loop, `EchoArgument` the loop inside of
it, `Assigned` one round of the loop that gives the programs their inputs and
outputs. `Dispatch` decides what a line is: a pipeline, a single program, `cd`, `exit`,
`echo on`. Since TLC would parse the same texts in every state, `Turns` tabulates
what each of them leads to.

Each step of the shell is one system call, in the order of `call_piped_programs` and
`cancel_all_programs`: `CreatePipe`, `OpenInput`, `OpenOutput`, `CloneNext` from the last
program to the first, `WaitFor` any program that has ended, `CloseNext`, `CloseLast`; or
`Cancel`, `CloseNext`, `ReapCancelled`. Each step of a program (`Step` of `Programs`) is one
system call as well, and the programs of a pipeline run in every order. The
kernel is the record `os`, and a system call is a function of it in `Files`:
`Add_File` with handles that wrap, `Open_File` with the walk of `Paths`, reads that
depend on what is behind the handle by then, partial writes to a pipe with little
room (`PipeSize`), procfs generated from the table of processes as it is at that
moment. `undefined` says that the code reads behind an end, throws or uses an erased
entry; nothing happens after it.

`Composition` states the promise. `Asked` is the pipeline that the user meant, `Written`
is what one program writes given its whole input, `Composed` the composition, and
`Resolve` of `Paths` the folder that a path names. `job` keeps, for these properties, the
kernel as it was when the command was typed. The exceptions in the properties are
exact statements of what this code does instead, each reached in the run:

- the last word of a line is lost if it is one letter right behind its delimiter,
  as in `type <f` (`Glued`): the loop takes the letter for the end of the input before
  it is a word;
- an echo without quotes takes the rest of the line, delimiters included (`Swallows`);
- a word of nothing but blanks, as in `a | | b`, is copied from a null pointer
  (`Nameless`, argparser.cpp:144);
- a file that cannot be opened leaves the pipes, and the input file, open
  (shell.cpp:90 and 112); `HandlesReturned` is about commands that were carried through;
- a pipeline that is cancelled leaves its output file open (`CancelledCloses`, run
  `shell_cancel`), and closes and destroys its pipes under the programs that already
  use them (`Cut`): such a program uses a destroyed object (`Tears`), or, as `Pipe` shows step by
  step, waits for ever for a notification that it has already taken (`Strands`, `Hung`), and with it
  the shell in `Read_Exit_Code`;
- an unknown program with a file as its input closes the terminal of the shell,
  because shell.cpp:28 asks for the input of the last program where it means the
  output (`TerminalClosed`); the shell goes on without output, and the handle of the
  terminal may later be given to another file; what the shell says then, and `exit`, go
  there: `Say` and `Exit` wait as any program would;
- a listing of processes beside programs that end reads a table that shrinks:
  a table as long as what was read gives nothing and no error for ever (`Stuck`), a
  shorter one is read behind its end (proc_fs.cpp:66);
- `rd` of the folder that `dir` reads makes it read behind the end (fat_fs.cpp:32),
  and `rd` of a file or folder that another program has open leaves it with clusters
  that are free or belong to another file (`Vanished`, fat_fs.cpp:260);
- `shutdown` in a pipeline uses entries of processes that were erased meanwhile
  (process.cpp:477), and closes pipes under their readers as a cancelled pipeline does;
- `..` at `C:\` pops the last file system, which is undefined, and `.` is not taken
  off again by `..`: `a\.\..` names `a` (`Climbs`);
- a process with a separator behind it, `procfs\1\`, is not found, while a folder is
  (proc_fs.cpp:152);
- a pipe that is full to the last character and whose reader has ended blocks
  the shell when it closes its input (`Jammed`); 1028 characters before a `find` whose
  arguments are wrong are enough.

Simplifications: the user answers a program that reads the keyboard with EOT
(reading a line is `Terminal`); a read of a pipe takes as many characters as the
buffer holds in one step, which needs `ReadSize <= PipeSize` (both are module `Pipe`,
step by step); a text is stored in the tree of FAT12 as one sequence (module `Fat` has
its clusters); the prompt, the greeting, the echo of the command, columns and
headers, and messages about exit codes are left out. A call on a pipe is one step
here. A pipe may be closed under a program that could be inside of such a call (`Reading`,
`Writing`), and `CloseNext` and `CloseStdIn` then have every outcome: the program was not
in the call yet and gets an error for its handle; it was, and was released; it uses the destroyed
pipe (`undefined`); it waits for ever (label `hung`). What a reader that
is released has already taken of a buffer is lost in the model, which no property speaks of.
`GivenHandlesStay` shows that in orderly pipelines no handle in use is closed. The
buffers of the parser have no end here: a program with its arguments, or a text in quotes,
that is longer than `NAME_LEN` (argparser.cpp writes `curr_prog_name` without a test) is not in
`Commands`.

## 3. Runs

| Run | Configuration | Shows |
| --- | --- | --- |
| `pipe_orderly` | `MCPipe.cfg` | the pipe is a FIFO channel (`ChannelSpec`), its inductive invariant holds, unread characters are kept, both programs end, nobody uses the pipe once it is destroyed |
| `pipe_cancel` | `MCPipeCancel.cfg` | with two producers at once the semaphores still count every cell until the output is closed; the writer and a blocked reader are released |
| `pipe_close_in_blocks` | `MCPipeHang.cfg` | violated: the shell blocks for ever in `Close_In` of a full pipe whose reader has ended |
| `pipe_cancel_reader_hang` | `MCPipeCancelHang.cfg` | violated: a cancelled reader may wait for ever |
| `fat` | `MCFat.cfg` | the disk is a tree of files (`FileTreeSpec`), no cluster is lost, open files agree with their entries, what an operation has still to write leads from tree to tree (`DiskIsTree`), the bytes of the table say what its numbers say |
| `fat_crash` | `MCFatCrash.cfg` | the machine may stop between any two writes: the table and the folders on the disk fit together except inside of rmdir, free clusters are blank, the tables agree between operations |
| `fat_long_write` | `MCFatWrite.cfg` | violated: a write that needs two more clusters loses one |
| `fat_overwrite` | `MCFatSize.cfg` | violated: after overwriting, the folder does not cover what was written |
| `process` | `MCProcesses.cfg` | listeners, wakeups, entries and results of `Wait_For` with five threads, two of which read the same exit code |
| `terminal` | `MCTerminal.cfg` | the guard stays in the frame of rgen, its EOT does not reach the shell unless the user ended the input, rgen stops at EOT and ends unless its cancel came at the wrong moment |
| `shell` | `MCShell.cfg` | any two commands in a row: parsed as written, handles given back by commands that were carried through, the output is the composition of the programs, paths lead where they say, nothing undefined happens and the prompt returns, with the exceptions named above |
| `shell_cancel` | `MCShellCancel.cfg` | violated: a pipeline that is given up leaves its output file open |

Bounds. The ring has two cells, the smallest in which full, empty and the
roll-over of both pointers are different states and a message of three characters
must wait for its reader; three calls of `Write_File` send up to nine characters
(`MaxCalls`), so both pointers go round several times; reads of one and of three
characters stop in the middle of a message and reach over two. EOT appears at the
end, where `Close_In` puts it, and inside of a message. The five threads of
`MCProcesses` give `Wait_For` with three positions and a handle passed twice, two
threads that wait for each other, a wait that races with `Read_Exit_Code`, two readers of
one exit code, and a thread that outlives its process. Deadlock is not checked in these runs: programs
do end, the shell of `Pipe` has nothing to do afterwards, and threads that wait
for each other are the programs' choice.

The four clusters of `MCFat` hold three units each: a folder has room for one entry
before it needs a second cluster, a file of four units spans two, and files and
folders compete for the last cluster in every way an allocation can fail; the root
holds one or two entries and gets full. `Depth` 2 gives a folder below the root,
`Sizes` writes inside of a cluster, to its edge and over it, `MaxFile` bounds a file to
two clusters in `fat` and three in `fat_crash`. In the passing runs programs append
(`AppendOnly`), and a write needs at most one new cluster inside of its loop: the two
violated runs show what happens beyond. One crash (`MaxCrashes`) at any
write is enough for what a single boot finds; the model goes on after a crash
between operations or inside of create_file, and stops after the others.

In `MCTerminal` a line holds three characters (`LineSize`), so that it gets full, the
queue two (`MaxQueue`), more than rgen ever has in it; the user is two characters
ahead of the readers (`MaxAhead`) and types six (`MaxKeys`), enough for the command
`r`, a line for its guard and what follows.

`MCShell` has 42 commands: every program, pipelines of up to three programs, a file at
either end or both, a blank word, a program, an input or an output that does not exist, a
folder as output, quotes, and each exception above. Two in a row (`MaxCommands`)
show what the first leaves behind for the second. `Handles` 11 is small enough that
handles wrap within two commands and large enough that the table is never
full, `PipeSize` 3 that writers wait and a pipe is full to the last character,
`ReadSize` 2 that a text takes several reads. tasklist is in pipelines of two
programs; with a third the table may shrink by two, and procfs is read behind its
end, which these bounds do not reach. Collation and file names with dots are
tables over the symbols of the instance. Deadlock is not checked: the user need
not type, and the shell exits.

Fairness. `Fat` has no liveness property and needs none. Each thread is a thread of Windows that is scheduled for as long as it
can run: weak fairness of every thread of `Pipe`. A thread that waits on a
semaphore has no other competitor for that semaphore except where `Pipe` models
it. The same holds of the three threads of `Terminal`, and of the shell and each
program of `Shell` (`PromptReturns`): each runs, or waits in a call for something that
another one does. Nothing makes the user type in either. In `Processes` only the steps inside the kernel are fair; what a program does
is up to it, and it need not end.

## 4. Proofs

`PipeProofs` proves, for every capacity, every set of messages and sizes:
`TypeOK`; that the semaphores account for every cell (`TokensConserved`), for the
orderly and for the cancelled pipeline; that unread characters are kept
(`RingHoldsUnread`); the inductive invariant `PipeInv`; that nobody is inside a call on a
pipe that has been destroyed (`DestroyedUnused`), as the shell removes the second handle only after
both programs have ended; and that the orderly pipe
implements `Channel`. `TokensConserved` is not inductive without
`PointerInPlace` (where `write_ptr` points relative to `read_ptr` and to what the
producer has just done) and `EndsInOrder` (the shell is in an end only after the
program that used it ended: that is what makes `write_char` safe without a lock).
The cancelled pipeline has two producers, `RingHoldsUnread` fails there, and the
proof of `TokensConserved` needs only the types and the program counters.

`ProcessesProofs` proves, for every set of threads, every array of handles and
every reader: the types, `NoDanglingListener`, `NoLostWakeup`,
`EntryWhileRunning`, `WaitForResult`, and `NoStaleEntry`. The inductive invariant is `ProcInv`: `Lifecycle` (program
counters, handles and entries agree), `Listening` (a list holds exactly the
occurrences of a handle in the array of each blocked thread that has registered
and not yet been notified by it) and `Reading` (what a call of read_exit_code has
in hand). `Listening` is needed because `NoDanglingListener` alone does not say
that a listener that is in a list is there as often as it will be removed.

`TerminalProofs` proves, for every size of the line and of the queue: `TypeOK`,
`GuardInFrame` and `StrayEot`. The inductive invariant adds `Room` (a line that is being
read is not full), `Scope` (which threads exist while each of the others is where
it is), `OneEot` (at most one EOT is in the queue, and only from the push of rgen
on) and `GuardListens` (as long as the user has not ended the input, a guard that
still reads will find that EOT).

`KernelProofs` holds what is proved of two small parts. Of `Handles` it proves
`HandlesLeadToTheirThreads` for every width, step and set of threads. The inductive invariant adds `Placed` (the counter is as far from the number
of each running thread as it went since then, less than a round) and `Matched` (the
table leads from numbers to threads as `given` leads back). `Placed` is what makes a
new number differ from all that are in use; that they differ from each other would
not be inductive.

`FatProofs` proves, for every number and size of clusters, every set of names and data,
every depth, every number of open files and of crashes: `TypeOK`,
`SavedBetweenOperations` and `FreeIsBlank`; `SoundAtEveryWrite` and `NoLostClusters` if no write
is longer than a cluster and a unit (`SmallWrites`); `HandleFresh` if programs append and one file
is open at a time; `OpenFilesStay`, which holds of any number of open files and
writes anywhere in them; `DiskIsTree` (`ATree`), that the entries, chains and lists of names that the
look-ups of the code read are a tree; and that `Fat` implements `FileTree`
(`FatIsFileTree`), under the hypotheses of `HandleFresh` and without crashes. These hypotheses are where the code goes wrong without
them: a longer write links two new clusters to the same last one
(`fat_long_write` violates `NoLostClusters`), and a write before the end of a file
sets a size that is too small (`fat_overwrite`).

The inductive invariant is `IInv`. `SoundAtEveryWrite` only speaks of the entries that a
walk from the root finds; it is not kept by a step, since it does not say
that a folder has its header, then its entries, then blanks (a new entry goes to the first
blank unit, and a look-up stops at it), that an entry is listed once, that chains
of different paths do not meet, nor that what an operation has still to write will do
no harm. `IInv` says all of this, in four parts: `Typed`; `Phased` (an operation runs as long as it
has something to write); `Running` (each of the writes that are left leads to a tree, and
the last of them to the table in memory and to a disk that settles with the open files);
and `Stopped` (a machine that stopped inside of an operation stays with a tree,
unless the operation is rmdir). A step of an operation then is of one of two kinds.
The first step computes all the writes: it has to show `Goes` for the whole
sequence, once per branch of the code (`CreateFileHolds`, `CreateFolderHolds`, `RmdirHolds`,
`WriteHolds`). Every other step, and every crash, takes or drops
what `Goes` already promised (`WriteDataHolds`, `CrashHolds`). The refinement follows the same
cut: the first step of an operation changes the tree that the folders will say at its end,
at one path (`StepsOfTree`), and the writes that carry it out leave that tree alone. A
crash in between leaves a tree with half of the change, so the refinement needs `MaxCrashes = 0`.

`Fat` computes chains, look-ups and free clusters with recursive functions. The lemma
`RecursionFor` proves that the function such a definition describes exists, so the
definition may be used as an equation; the properties of its values are
then proved along the chain or the path with `SetInduction`, induction over the
members of a set of numbers, which rests on `Least`. The proofs use one assumption,
`FatAssumption`.

`TableReadsBack` (`TableIsRead`) is proved for every table of `Fat`. `InjectedReadsBack` is the
step: an entry that is put into the bytes is read back and all others read as
before, by the parity of the entry and of its neighbour; `BytesReadBack` goes along the
entries with `Induction`. `FirstClusterReadsBack` and `SizeReadsBack` are about the other numbers on
the disk.

In `KernelProofs` the theorems about `Paths` hold for every disk, every table of processes and every
path; they go along the loop of `File_Exists` with `Induction`, a component of the path a step.
`WalkKeepsItsStacks`: `top()` is never called of an empty stack, but for `..` at `C:\`. The
code decides by `components_in_current_fs` alone when it leaves a file system, so the inductive
invariant `Balanced` ties this count to the heights of the three stacks.
`UpUndoesDown`: a component that was found within a file system, then `..`, restores
the whole state of the walk, provided that the path so far does not end with a
separator (that case is the `a\.\..` of `Climbs`). `WalkAgrees`: along a path of names
and `..`, the walk ends where `Resolve` says, is undefined above `C:\` and missing where
`Resolve` leads nowhere. Its invariant `Agree` gives all locals of the walk as a function of the place
that has been reached, one for the disk (`StandOnDisk`) and one for procfs. The theorem
needs that nothing on the disk lies below the mount point, and it leaves out
`.`, empty components and `tasklist` (which procfs takes for its own root);
`CdAgrees` checks those, too.

`ShellProofs` is about the shell with all of its programs, for any commands, disk and
number of handles. `PlansOfParser` is what the parser and the loop of the shell promise
to `call_piped_programs`: it is proved for every text by induction over its symbols
(the loop of `parse_programs`) and over its words (`Assigned`), and it says that no program but
the first reads from a file and that a program that is called alone has no
redirection. `Inductive` proves the invariant `IInv` of `ShellInv`, and from it `GivenHandles`
and `Returned` prove `GivenHandlesStay` and `HandlesReturned`. Neither is inductive: that a
handle is not closed under its user depends on who else holds it. `IInv` has six
parts. `Shapes` and `Plan` say which fields there are and how far the shell is; `Wired`,
that the handles the shell has opened differ from each other and from those it
found; `Threads`, that the processes are the shell and the programs it waits for, each
with the handles of its place in the pipeline; `Accounted`, that every handle in the
table was found by the command, has still to be closed by the shell (`Outstanding`) or
belongs to a program (`Owns`), in the failing branches as well; `Orderly`, that where
nothing has gone wrong these sets are disjoint, so that each handle is closed once and
by its owner. The premises of both properties were found that way: without the
terminal in the table (an earlier command may have closed it) the handle that the shell passes on may
be any file's, and a `shutdown` counts only if it was started.

The proofs use the assumptions `PipeAssumption`, `ProcessesAssumption`,
`NoneAssumption`, `TerminalAssumption`, `FatAssumption` and `ShellAssumption` (there is room for
the keyboard, the terminal and one more handle), the hypotheses `SmallWrites`, `AppendOnly`,
`OneHandle` and `MaxCrashes = 0` where they are named, and the hypotheses `DiskAndTable` (identifiers
of files are paths, processes have names) and `Uncovered` of the walk and `Parameters` of `Handles` (a
step is shorter than a round), only. Liveness (`ProgramsEnd`, `CancelReleasesWriter`,
`CancelReleasesReader`, `WaitReturns`, `EotStopsRgen`, `JoinReturns`, `OneMoreKey`,
`PromptReturns`) is model-checked only, and so are:

- `TypeOK`, `ParsedAsWritten`, `OutputAsComposed`, `Defined` and `CdAgrees` of `Composition`, which are
  about the contents of texts, files and pipes.

## 5. Plan

Done: `Channel`, `Pipe`, `Processes`, `Terminal`, `Handles`, `Fat` with `FatInv`,
`FileTree` and `FatCodec`, and the shell with everything below it (`ArgParser`, `Paths`, `Files`,
`Programs`, `Shell`, `Composition`), with the proofs of section 4. What would come next:

1. The types of `Composition` and of the kernel below it (`TypeOK`) as a theorem.
2. `Fat` with operations of two programs that overlap (no lock covers them).
3. Signal handlers that programs register.
4. `CdAgrees` for every disk: `WalkAgrees` is its core, what is missing is that the texts
   that `PathOf` puts together are the paths that it speaks of.

## 6. Not modelled, and why

The console, display and clock of boot.exe (I/O of Windows); the wrappers of
`user/rtl.cpp` as such (they copy registers; their calls are the actions of the
models); the dispatch by numbers in `kernel.cpp` and `io.cpp`; the columns and the
wording of what programs print; attributes of files (both system calls fail
before they look at anything); handlers of signals, which no program of the
repository registers; SimpleIni (vendored) and `fat_demo` (a superseded
prototype). The memory model below one access of a shared variable and the
inside of `std::map` and `std::queue` are not modelled; where the code uses one
without a lock, `PROJECT.json` says so.
