---------------------------- MODULE ShellProofs ----------------------------
(***************************************************************************)
(* Theorems about Shell: every handle that a command opens is closed once, *)
(* by the one who has to, for all commands, disks and schedules.           *)
(***************************************************************************)
EXTENDS ShellInv, SequenceTheorems, FiniteSetTheorems, WellFoundedInduction, TLAPS

-----------------------------------------------------------------------------
(* The text of a command                                                   *)

(* What a line is made of.                                                 *)
Symbol == STRING \cup {Blank, "|", "<", ">"}

(* The words of a command, the blank and the delimiters are symbols.       *)
LEMMA Symbols ==
  /\ Blank \in Symbol /\ "|" \in Symbol /\ "<" \in Symbol /\ ">" \in Symbol
  /\ \A s \in Symbol : <<s>> \in Seq(Symbol)
  /\ <<>> \in Seq(Symbol) /\ Seq(STRING) \subseteq Seq(Symbol)
<1>1. \A S, T : S \subseteq T => Seq(S) \subseteq Seq(T)
  OBVIOUS
<1> QED
  BY <1>1 DEF Symbol

(* Two sequences over a set make a sequence over it.                       *)
LEMMA Appended == 
  ASSUME NEW S, NEW s \in Seq(S), NEW t \in Seq(S)
  PROVE s \o t \in Seq(S)
OBVIOUS

(* The parts of Typed, and the step of its fold, as operators.             *)
Around(on) == IF on THEN <<Blank>> ELSE <<>>
Delim(d, before, after) == Around(before) \o <<d>> \o Around(after)
Part(p) == p.name \o (IF p.data = <<>> THEN <<>> ELSE <<Blank>> \o p.data)
ChainStep(x, text, i) ==
  text \o (IF i = 1 THEN <<>> ELSE Delim("|", x.before, x.after)) \o Part(x.c.programs[i])
ChainInv(x, k, text) == text \in Seq(Symbol)
Chains == INSTANCE Induction WITH Op <- ChainStep, P <- ChainInv

(* A command, as it is typed, is a sequence of symbols.                    *)
LEMMA TypedIsText ==
  ASSUME NEW x, x.c \in Command
  PROVE  Typed(x.c, x.before, x.after) \in Seq(Symbol)
<1> DEFINE seq == [i \in DOMAIN x.c.programs |-> i]
           n == Len(x.c.programs)
           chain == Chains!Fold(x, <<>>, seq)
           End(d, name) == IF name = <<>> THEN <<>> ELSE Delim(d, x.before, x.after) \o name
<1>1. Typed(x.c, x.before, x.after) = (chain \o End("<", x.c.input)) \o End(">", x.c.output)
  BY DEF Typed, Chains!Fold, ChainStep, Delim, Part, Around, FoldLeft, MapThenFoldSet, Chains!FoldLeft, Chains!MapThenFoldSet, Chains!Max, Max
<1>2. \A d \in Symbol : \A b, a : Delim(d, b, a) \in Seq(Symbol)
  <2> TAKE d \in Symbol
  <2> TAKE b, a
  <2>1. Around(b) \in Seq(Symbol) /\ Around(a) \in Seq(Symbol) /\ <<d>> \in Seq(Symbol)
    BY Symbols DEF Around
  <2>2. Around(b) \o <<d>> \in Seq(Symbol)
    BY <2>1, Appended
  <2> QED
    BY <2>1, <2>2, Appended DEF Delim
<1>3. \A p \in [name : Seq(STRING), data : Seq(STRING)] : Part(p) \in Seq(Symbol)
  <2> TAKE p \in [name : Seq(STRING), data : Seq(STRING)]
  <2>1. p.name \in Seq(Symbol) /\ p.data \in Seq(Symbol) /\ <<Blank>> \in Seq(Symbol) /\ <<>> \in Seq(Symbol)
    BY Symbols
  <2>2. (IF p.data = <<>> THEN <<>> ELSE <<Blank>> \o p.data) \in Seq(Symbol)
    BY <2>1, Appended
  <2> QED
    BY <2>1, <2>2, Appended DEF Part
<1>4. /\ n \in Nat /\ DOMAIN seq = 1 .. n
      /\ \A i \in 1 .. n : x.c.programs[i] \in [name : Seq(STRING), data : Seq(STRING)] /\ seq[i] = i
  <2> DEFINE ps == x.c.programs
             R == [name : Seq(STRING), data : Seq(STRING)]
  <2>1. ps \in Seq(R)
    BY DEF Command
  <2> HIDE DEF ps, R
  <2>2. Len(ps) \in Nat /\ DOMAIN ps = 1 .. Len(ps) /\ \A i \in 1 .. Len(ps) : ps[i] \in R
    BY <2>1
  <2> QED
    BY <2>2 DEF ps, R
<1>5. \A k \in 0 .. n - 1 : \A a : ChainInv(x, k, a) => ChainInv(x, k + 1, ChainStep(x, a, seq[k + 1]))
  <2> SUFFICES ASSUME NEW k \in 0 .. n - 1, NEW a, a \in Seq(Symbol)
               PROVE  ChainStep(x, a, seq[k + 1]) \in Seq(Symbol)
    BY DEF ChainInv
  <2> DEFINE d == IF k + 1 = 1 THEN <<>> ELSE Delim("|", x.before, x.after)
  <2>1. k + 1 \in 1 .. n
    BY <1>4
  <2>2. ChainStep(x, a, seq[k + 1]) = (a \o d) \o Part(x.c.programs[k + 1])
    BY <1>4, <2>1 DEF ChainStep
  <2>3. d \in Seq(Symbol) /\ Part(x.c.programs[k + 1]) \in Seq(Symbol)
    BY <1>2, <1>3, <1>4, <2>1, Symbols
  <2> HIDE DEF d
  <2>4. a \o d \in Seq(Symbol)
    BY <2>3, Appended
  <2> QED
    BY <2>2, <2>3, <2>4, Appended
<1>6. ChainInv(x, 0, <<>>)
  BY Symbols DEF ChainInv
<1> HIDE DEF seq, n
<1>7. ChainInv(x, n, chain)
  BY <1>4, <1>5, <1>6, Chains!Folded
<1>8. \A d \in Symbol : \A t \in Seq(Symbol) : End(d, t) \in Seq(Symbol)
  BY <1>2, Appended, Symbols
<1> HIDE DEF End, chain
<1>9. "<" \in Symbol /\ ">" \in Symbol /\ x.c.input \in Seq(Symbol) /\ x.c.output \in Seq(Symbol)
  BY Symbols DEF Command
<1>10. chain \in Seq(Symbol) /\ End("<", x.c.input) \in Seq(Symbol) /\ End(">", x.c.output) \in Seq(Symbol)
  BY <1>7, <1>8, <1>9 DEF ChainInv
<1>11. chain \o End("<", x.c.input) \in Seq(Symbol)
  BY <1>10, Appended
<1> QED
  BY <1>1, <1>10, <1>11, Appended

-----------------------------------------------------------------------------
(* The parser                                                              *)

(* The fields of an end of a program.                                      *)
IoFields == {"type", "name"}
(* A program as the parser makes it, and before the files of the command   *)
(* are assigned: none of its ends is a file.                               *)
Formed(p) ==
  /\ DOMAIN p = {"name", "data", "input", "output"}
  /\ DOMAIN p.input = IoFields /\ DOMAIN p.output = IoFields
Plain(p) == Formed(p) /\ p.input.type # "File" /\ p.output.type # "File"

(* What the scanning of a line has found by now.                           *)
ScanFields == {"i", "word", "programs", "delims", "actual", "error"}
Scanned(st) ==
  /\ DOMAIN st = ScanFields
  /\ \E T : st.programs \in Seq(T)
  /\ \A j \in 1 .. Len(st.programs) : Plain(st.programs[j])
  /\ st.actual \in Nat /\ st.actual <= Len(st.programs)

(* A round of the scan as the step of a fold, and what it keeps.           *)
ScanStep(input, acc, k) ==
  Given(acc, LAMBDA st : IF st.i > Len(input) \/ st.error # <<>> THEN st ELSE Round(input, st))
ScanInv(input, k, st) == Scanned(st)
Scans == INSTANCE Induction WITH Op <- ScanStep, P <- ScanInv

(* The scan is the fold of its rounds.                                     *)
LEMMA ScanIsFold ==
  ASSUME NEW input
  PROVE  Scan(input) = Scans!Fold(input, Scanning, [k \in DOMAIN input |-> k])
<1> DEFINE seq == [k \in DOMAIN input |-> k]
<1>1. Scan(input) = FoldLeft(LAMBDA a, x : ScanStep(input, a, x), Scanning, seq)
  BY DEF Scan, FoldOnce, ScanStep, Given, FoldLeft, MapThenFoldSet
<1> QED
  BY <1>1 DEF Scans!Fold, FoldLeft, MapThenFoldSet, Scans!FoldLeft, Scans!MapThenFoldSet, Scans!Max, Max

(* A word alone names a program whose ends are not files.                  *)
LEMMA ProgramIsPlain ==
  ASSUME NEW word
  PROVE  Plain(Program(word))
BY DEF Plain, Formed, IoFields, Program, Io

(* A sequence with an element appended, over whatever set.                 *)
LEMMA OneMore ==
  ASSUME NEW T, NEW s \in Seq(T), NEW x
  PROVE  /\ \E U : Append(s, x) \in Seq(U)
         /\ Len(s) \in Nat /\ Len(Append(s, x)) = Len(s) + 1
         /\ \A j \in 1 .. Len(s) : Append(s, x)[j] = s[j]
         /\ Append(s, x)[Len(s) + 1] = x
<1> DEFINE U == T \cup {x}
<1>1. s \in Seq(U) /\ x \in U
  OBVIOUS
<1> HIDE DEF U
<1>2. Append(s, x) \in Seq(U)
  BY <1>1
<1>3. /\ Len(s) \in Nat /\ Len(Append(s, x)) = Len(s) + 1
      /\ \A j \in 1 .. Len(s) : Append(s, x)[j] = s[j]
      /\ Append(s, x)[Len(s) + 1] = x
  BY <1>1
<1> QED
  BY <1>2, <1>3

(* The fields that say what has been found, which only a delimiter or the  *)
(* end of the input changes.                                               *)
SameFound(st, next) ==
  DOMAIN next = DOMAIN st /\ next.programs = st.programs /\ next.actual = st.actual

(* Rounds that find no program keep what is said of the programs.          *)
LEMMA SameFoundHolds ==
  ASSUME NEW st, NEW next, Scanned(st), SameFound(st, next)
  PROVE  Scanned(next)
BY DEF Scanned, SameFound

(* A delimiter or the end of the line completes a program.                 *)
LEMMA CompletedHolds ==
  ASSUME NEW input, NEW st, Scanned(st)
  PROVE  Scanned(Completed(input, st))
<1> DEFINE c == input[st.i]
           last == st.i = Len(input)
           program == Program(IF last THEN Append(st.word, c) ELSE st.word)
           next == Completed(input, st)
<1>1. /\ DOMAIN next = ScanFields /\ next.programs = Append(st.programs, program)
      /\ next.actual = IF c \in {"<", ">"} THEN st.actual ELSE st.actual + 1
  BY DEF Completed, Scanned, ScanFields
<1>2. Plain(program)
  BY ProgramIsPlain
<1> HIDE DEF program, next
<1>3. PICK T : st.programs \in Seq(T)
  BY DEF Scanned
<1>4. /\ \E U : next.programs \in Seq(U)
      /\ Len(st.programs) \in Nat /\ Len(next.programs) = Len(st.programs) + 1
      /\ \A j \in 1 .. Len(st.programs) : next.programs[j] = st.programs[j]
      /\ next.programs[Len(st.programs) + 1] = program
  <2> DEFINE s == st.programs
  <2> HIDE DEF s
  <2>1. s \in Seq(T) /\ next.programs = Append(s, program)
    BY <1>1, <1>3 DEF s
  <2>2. /\ \E U : Append(s, program) \in Seq(U)
        /\ Len(s) \in Nat /\ Len(Append(s, program)) = Len(s) + 1
        /\ \A j \in 1 .. Len(s) : Append(s, program)[j] = s[j]
        /\ Append(s, program)[Len(s) + 1] = program
    BY <2>1, OneMore
  <2> QED
    BY <2>1, <2>2 DEF s
<1>5. \A j \in 1 .. Len(next.programs) : j \in 1 .. Len(st.programs) \/ j = Len(st.programs) + 1
  BY <1>4
<1>6. \A j \in 1 .. Len(next.programs) : Plain(next.programs[j])
  BY <1>2, <1>4, <1>5 DEF Scanned
<1>7. next.actual \in Nat /\ next.actual <= Len(next.programs)
  BY <1>1, <1>4 DEF Scanned
<1> QED
  BY <1>1, <1>4, <1>6, <1>7 DEF Scanned, next

(* Each round of the scan keeps what has been found in shape.              *)
LEMMA RoundHolds ==
  ASSUME NEW input, NEW st, Scanned(st)
  PROVE  Scanned(Round(input, st))
<1> DEFINE c == input[st.i]
           Taken(next) ==
             [next EXCEPT !.i = @ + 1,
                          !.word = IF next.i > Len(input) THEN @ ELSE Append(@, input[next.i])]
           Argued(next) ==
             IF Trim(next.word) = Echo /\ next.i <= Len(input) THEN EchoArgument(input, next) ELSE next
           done == IF c \in Delimiter \/ st.i = Len(input) THEN Completed(input, st) ELSE st
           failed == [st EXCEPT !.error = <<"Unexpected", c>>]
<1>1. Scanned(failed)
  BY SameFoundHolds DEF SameFound, Scanned, ScanFields
<1>2. Scanned(done)
  BY CompletedHolds
<1>3. ASSUME NEW next, Scanned(next) PROVE Scanned(Taken(next))
  BY <1>3, SameFoundHolds DEF SameFound, Scanned, ScanFields
<1>4. ASSUME NEW next, Scanned(next) PROVE Scanned(Argued(next))
  <2>1. Scanned(EchoArgument(input, next))
    <3> DEFINE Ends(k) == \/ k = Len(input)
                          \/ input[k] \in Delimiter /\ ~QuotesOpen(SubSeq(input, next.i, k))
               Stopped(end) == [next EXCEPT !.i = end,
                                            !.word = Echo \o <<Blank>> \o SubSeq(input, next.i, end - 1)]
               end == CHOOSE k \in next.i .. Len(input) : Ends(k) /\ \A j \in next.i .. k - 1 : ~Ends(j)
    <3>1. EchoArgument(input, next) = Stopped(end)
      BY DEF EchoArgument, Given
    <3> HIDE DEF end
    <3>2. Scanned(Stopped(end))
      BY <1>4, SameFoundHolds DEF SameFound, Scanned, ScanFields
    <3> QED
      BY <3>1, <3>2
  <2> QED
    BY <1>4, <2>1
<1>5. Round(input, st) = IF c \in Delimiter /\ st.i \in {1, Len(input)} THEN failed
                         ELSE Given(Taken(done), Argued)
  BY DEF Round
<1> HIDE DEF failed, done
<1>6. Given(Taken(done), Argued) = Argued(Taken(done))
  <2> DEFINE v == Taken(done)
  <2> HIDE DEF v, Taken
  <2>1. Given(v, Argued) = Argued(v)
    BY DEF Given
  <2> QED
    BY <2>1 DEF v
<1> HIDE DEF Taken, Argued
<1> QED
  BY <1>1, <1>2, <1>3, <1>4, <1>5, <1>6

(* At the end of the scan the programs are in shape, and there are at least*)
(* as many as are run.                                                     *)
LEMMA ScanHolds ==
  ASSUME NEW S, NEW input \in Seq(S)
  PROVE  Scanned(Scan(input))
<1> DEFINE seq == [k \in DOMAIN input |-> k]
           n == Len(input)
<1>1. n \in Nat /\ DOMAIN seq = 1 .. n
  OBVIOUS
<1>2. ScanInv(input, 0, Scanning)
  <2>1. <<>> \in Seq({}) /\ Len(<<>>) = 0
    OBVIOUS
  <2> QED
    BY <2>1 DEF ScanInv, Scanned, Scanning, ScanFields
<1>3. ASSUME NEW k, NEW st, Scanned(st)
      PROVE  Scanned(ScanStep(input, st, k))
  <2>1. ScanStep(input, st, k) = IF st.i > Len(input) \/ st.error # <<>> THEN st ELSE Round(input, st)
    BY DEF ScanStep, Given
  <2> QED
    BY <1>3, <2>1, RoundHolds
<1>4. \A k \in 0 .. n - 1 : \A a : ScanInv(input, k, a) => ScanInv(input, k + 1, ScanStep(input, a, seq[k + 1]))
  BY <1>3 DEF ScanInv
<1> HIDE DEF seq, n
<1>5. ScanInv(input, n, Scans!Fold(input, Scanning, seq))
  BY <1>1, <1>2, <1>4, Scans!Folded
<1> QED
  BY <1>5, ScanIsFold DEF ScanInv, seq

(* Only the program before the file at the end may write to a file, and    *)
(* only the first one may read from one.                                   *)
EndsOnly(n, actual, ps) ==
  /\ DOMAIN ps = 1 .. n
  /\ \A j \in 1 .. n :
       /\ Formed(ps[j])
       /\ j # actual => ps[j].output.type # "File"
       /\ 2 <= j /\ j <= actual => ps[j].input.type # "File"

(* An assignment of inputs and outputs as the step of a fold, and what it  *)
(* keeps.                                                                  *)
AssignStep(st, acc, i) == Given(acc, LAMBDA programs : Assigned(programs, i, st.delims[i], st.actual))
AssignInv(st, k, ps) == EndsOnly(Len(st.programs), st.actual, ps)
Assigns == INSTANCE Induction WITH Op <- AssignStep, P <- AssignInv

(* A redirection gives its file to the first or to the last program.       *)
LEMMA RedirectedHolds ==
  ASSUME NEW n \in Nat, NEW actual \in Nat, NEW ps, EndsOnly(n, actual, ps), NEW i \in 1 .. n - 1, NEW delim
  PROVE  EndsOnly(n, actual, Redirected(ps, i, delim, actual))
<1> DEFINE file == Io("File", ps[i + 1].name)
<1>0. i \in 1 .. n /\ i + 1 \in 1 .. n /\ 1 \in 1 .. n
  OBVIOUS
<1>1. file.type = "File" /\ DOMAIN file = IoFields
  BY DEF Io, IoFields
<1> HIDE DEF file
<1>2. EndsOnly(n, actual, [ps EXCEPT ![i].output.type = "Pipe", ![i + 1].input.type = "Pipe"])
  <2> DEFINE a == [ps EXCEPT ![i].output.type = "Pipe"]
             b == [a EXCEPT ![i + 1].input.type = "Pipe"]
  <2>1. EndsOnly(n, actual, a)
    BY <1>0 DEF EndsOnly, Formed, IoFields
  <2> HIDE DEF a
  <2>2. EndsOnly(n, actual, b)
    BY <1>0, <2>1 DEF EndsOnly, Formed, IoFields
  <2> QED
    BY <2>2 DEF a
<1>3. EndsOnly(n, actual, [ps EXCEPT ![actual].output = file])
  BY <1>0, <1>1 DEF EndsOnly, Formed, IoFields
<1>4. EndsOnly(n, actual, [ps EXCEPT ![1].input = file])
  BY <1>0, <1>1 DEF EndsOnly, Formed, IoFields
<1> QED
  BY <1>2, <1>3, <1>4 DEF Redirected, file

(* A delimiter changes the input of the first program, if any.             *)
LEMMA AssignedHolds ==
  ASSUME NEW n \in Nat, NEW actual \in Nat, NEW ps, EndsOnly(n, actual, ps), NEW i \in 1 .. n - 1, NEW delim
  PROVE  EndsOnly(n, actual, Assigned(ps, i, delim, actual))
<1> DEFINE cleared == [ps EXCEPT ![i].input.name = <<>>, ![i].output.name = <<>>]
           first == [cleared EXCEPT ![1].input.type = "Standard", ![actual].output.type = "Standard"]
           later == [cleared EXCEPT ![i].input.type = cleared[i - 1].output.type]
<1>0. i \in 1 .. n /\ i + 1 \in 1 .. n /\ 1 \in 1 .. n
  OBVIOUS
<1>1. EndsOnly(n, actual, cleared)
  <2> DEFINE a == [ps EXCEPT ![i].input.name = <<>>]
             b == [a EXCEPT ![i].output.name = <<>>]
  <2>1. EndsOnly(n, actual, a)
    BY <1>0 DEF EndsOnly, Formed, IoFields
  <2> HIDE DEF a
  <2>2. EndsOnly(n, actual, b)
    BY <1>0, <2>1 DEF EndsOnly, Formed, IoFields
  <2> QED
    BY <2>2 DEF a
<1> HIDE DEF cleared
<1>2. EndsOnly(n, actual, first)
  <2> DEFINE a == [cleared EXCEPT ![1].input.type = "Standard"]
             b == [a EXCEPT ![actual].output.type = "Standard"]
  <2>1. EndsOnly(n, actual, a)
    BY <1>0, <1>1 DEF EndsOnly, Formed, IoFields
  <2> HIDE DEF a
  <2>2. EndsOnly(n, actual, b)
    BY <1>0, <2>1 DEF EndsOnly, Formed, IoFields
  <2> QED
    BY <2>2 DEF a
<1>3. i # 1 => EndsOnly(n, actual, later)
  <2> SUFFICES ASSUME i # 1 PROVE EndsOnly(n, actual, later)
    OBVIOUS
  <2>1. i - 1 \in 1 .. n /\ 2 <= i
    OBVIOUS
  <2>2. i <= actual => i - 1 # actual
    OBVIOUS
  <2>3. i <= actual => cleared[i - 1].output.type # "File"
    BY <1>1, <2>1, <2>2 DEF EndsOnly
  <2> DEFINE type == cleared[i - 1].output.type
  <2> HIDE DEF type
  <2>4. EndsOnly(n, actual, [cleared EXCEPT ![i].input.type = type])
    BY <1>0, <1>1, <2>3 DEF EndsOnly, Formed, IoFields, type
  <2> QED
    BY <2>4 DEF type
<1>4. Assigned(ps, i, delim, actual) = Redirected(IF i = 1 THEN first ELSE later, i, delim, actual)
  BY DEF Assigned, cleared
<1> HIDE DEF first, later
<1> QED
  BY <1>2, <1>3, <1>4, RedirectedHolds

(* The assignments are the fold of their steps.                            *)
LEMMA AssignIsFold ==
  ASSUME NEW st
  PROVE  Assignments(st) = Assigns!Fold(st, st.programs, [i \in 1 .. Len(st.programs) - 1 |-> i])
<1> DEFINE seq == [i \in 1 .. Len(st.programs) - 1 |-> i]
           once == FoldOnce(LAMBDA programs, i : Assigned(programs, i, st.delims[i], st.actual), st.programs, seq)
<1>1. Assignments(st) = once
  BY DEF Assignments
<1> HIDE DEF seq
<1>2. once = FoldLeft(LAMBDA a, x : AssignStep(st, a, x), st.programs, seq)
  BY DEF FoldOnce, AssignStep, Given, FoldLeft, MapThenFoldSet
<1>3. FoldLeft(LAMBDA a, x : AssignStep(st, a, x), st.programs, seq) = Assigns!Fold(st, st.programs, seq)
  BY DEF Assigns!Fold, FoldLeft, MapThenFoldSet, Assigns!FoldLeft, Assigns!MapThenFoldSet, Assigns!Max, Max
<1> QED
  BY <1>1, <1>2, <1>3 DEF seq

(* When all delimiters have been taken only the first program may read from*)
(* a file.                                                                 *)
LEMMA AllAssigned ==
  ASSUME NEW st, Scanned(st), NEW seq, seq = [i \in 1 .. Len(st.programs) - 1 |-> i]
  PROVE  EndsOnly(Len(st.programs), st.actual, Assigns!Fold(st, st.programs, seq))
<1> DEFINE n == Len(st.programs)
<1>1. n \in Nat /\ st.actual \in Nat /\ DOMAIN st.programs = 1 .. n
  BY DEF Scanned
<1>2. AssignInv(st, 0, st.programs)
  BY <1>1 DEF AssignInv, EndsOnly, Scanned, Plain
<1> HIDE DEF n
<1>3. CASE n = 0
  <2>1. DOMAIN seq = 1 .. 0
    BY <1>3 DEF n
  <2>2. \A k \in 0 .. 0 - 1 : \A a : AssignInv(st, k, a) => AssignInv(st, k + 1, AssignStep(st, a, seq[k + 1]))
    OBVIOUS
  <2>3. AssignInv(st, 0, Assigns!Fold(st, st.programs, seq))
    BY <1>2, <2>1, <2>2, Assigns!Folded
  <2> QED
    BY <2>3 DEF AssignInv
<1>4. CASE n # 0
  <2> DEFINE m == n - 1
  <2>1. m \in Nat /\ DOMAIN seq = 1 .. m /\ \A k \in 0 .. m - 1 : seq[k + 1] = k + 1 /\ k + 1 \in 1 .. n - 1
    BY <1>1, <1>4 DEF n
  <2> HIDE DEF m
  <2>2. ASSUME NEW k \in 0 .. m - 1, NEW a, EndsOnly(n, st.actual, a)
        PROVE  EndsOnly(n, st.actual, AssignStep(st, a, seq[k + 1]))
    <3>1. AssignStep(st, a, seq[k + 1]) = Assigned(a, seq[k + 1], st.delims[seq[k + 1]], st.actual)
      BY DEF AssignStep, Given
    <3> QED
      BY <1>1, <2>1, <2>2, <3>1, AssignedHolds
  <2>3. \A k \in 0 .. m - 1 : \A a : AssignInv(st, k, a) => AssignInv(st, k + 1, AssignStep(st, a, seq[k + 1]))
    BY <2>2 DEF AssignInv, n
  <2>4. AssignInv(st, m, Assigns!Fold(st, st.programs, seq))
    BY <1>2, <2>1, <2>3, Assigns!Folded
  <2> QED
    BY <2>4 DEF AssignInv
<1> QED
  BY <1>3, <1>4

-----------------------------------------------------------------------------
(* The system calls                                                        *)

(* The table of files of t is the one of s, up to positions and sizes.     *)
Kept(s, t) ==
  /\ DOMAIN t = Kernel
  /\ DOMAIN t.files = DOMAIN s.files /\ t.last = s.last /\ t.pcb = s.pcb
  /\ \A k \in DOMAIN s.files : DOMAIN t.files[k] = DOMAIN s.files[k] /\ Same(t.files[k], s.files[k])

(* As Kept, but that h is a handle now that was free.                      *)
Added(s, t, h) ==
  /\ DOMAIN t = Kernel
  /\ h \in Handle \ DOMAIN s.files /\ t.last = h /\ t.pcb = s.pcb
  /\ DOMAIN t.files = DOMAIN s.files \cup {h}
  /\ \A k \in DOMAIN s.files : t.files[k] = s.files[k]
  /\ DOMAIN t.files[h] = FileFields

(* As Kept, but that the handle h is no longer one.                        *)
Removed(s, t, h) ==
  /\ DOMAIN t = Kernel
  /\ t.last = s.last /\ t.pcb = s.pcb
  /\ DOMAIN t.files = DOMAIN s.files \ {h}
  /\ \A k \in DOMAIN s.files \ {h} : t.files[k] = s.files[k]

(* A call that changes nothing keeps everything.                           *)
LEMMA KeptSelf ==
  ASSUME NEW s, DOMAIN s = Kernel PROVE Kept(s, s)
BY DEF Kept, Same

(* Reading moves a position and takes from a pipe.                         *)
LEMMA ReadKeeps ==
  ASSUME NEW s, DOMAIN s = Kernel, NEW h, NEW n,
         \A k \in DOMAIN s.files : DOMAIN s.files[k] = FileFields
  PROVE  Kept(s, Read_File(s, h, n).os)
<1>1. ASSUME NEW e PROVE Kept(s, Failed(s, e).os)
  BY KeptSelf DEF Failed
<1>2. Kept(s, PipeRead(s, h, n).os)
  <2> DEFINE p == s.files[h].of
             data == s.pipes[p].data
             eot == SelectInSeq(data, LAMBDA c : c = "EOT")
             taken == IF eot \in 1 .. n THEN eot ELSE Min({n, Len(data)})
             rest == SubSeq(data, taken + 1, Len(data))
             first == SubSeq(data, 1, taken)
             ended == eot \in 1 .. n
             read == [s EXCEPT !.pipes[p].data = rest, !.pipes[p].closedOut = @ \/ ended]
  <2>1. PipeRead(s, h, n) = Failed(s, "IO_Error") \/ PipeRead(s, h, n) = Success(read, first)
    BY DEF PipeRead
  <2> HIDE DEF rest, first, ended, p
  <2>2. \A v : Kept(s, Success(read, v).os)
    BY DEF Success, Kept, Same, Kernel
  <2> HIDE DEF read
  <2> QED
    BY <1>1, <2>1, <2>2
<1>3. Kept(s, FileRead(s, h, n).os)
  BY <1>1 DEF FileRead, Success, Kept, Same, Kernel
<1>4. ASSUME NEW v PROVE Kept(s, Success(s, v).os)
  BY KeptSelf DEF Success
<1> QED
  BY <1>1, <1>2, <1>3, <1>4 DEF Read_File

(* Writing moves a position and changes a file, a pipe or the terminal.    *)
LEMMA WriteKeeps ==
  ASSUME NEW s, DOMAIN s = Kernel, NEW h, NEW text,
         \A k \in DOMAIN s.files : DOMAIN s.files[k] = FileFields
  PROVE  Kept(s, Write_File(s, h, text).os)
<1>1. ASSUME NEW e PROVE Kept(s, Failed(s, e).os)
  BY KeptSelf DEF Failed
<1>2. Kept(s, PipeWrite(s, h, text).os)
  BY <1>1 DEF PipeWrite, Success, Kept, Same, Kernel
<1>3. Kept(s, FileWrite(s, h, text))
  BY DEF FileWrite, Success, Kept, Same, Kernel
<1>4. Kept(s, [s EXCEPT !.tty = @ \o text])
  BY DEF Kept, Same, Kernel
<1> QED
  BY <1>1, <1>2, <1>3, <1>4 DEF Write_File, Success

(* Removing a file or a folder leaves the table of open files alone.       *)
LEMMA DeleteKeeps ==
  ASSUME NEW s, DOMAIN s = Kernel, NEW pid, NEW text
  PROVE  Kept(s, Delete_File(s, pid, text).os)
<1>1. \A e : Kept(s, Failed(s, e).os)
  BY KeptSelf DEF Failed
<1>2. \A d : Kept(s, Success([s EXCEPT !.disk = d], <<>>).os)
  BY DEF Success, Kept, Same, Kernel
<1> QED
  BY <1>1, <1>2 DEF Delete_File, Given

(* A working directory is changed in the process and nowhere else.         *)
LEMMA SetKeeps ==
  ASSUME NEW s, DOMAIN s = Kernel, NEW pid \in DOMAIN s.pcb, NEW text
  PROVE  LET t == Set_Working_Dir(s, pid, text).os
         IN /\ DOMAIN t = Kernel /\ t.files = s.files /\ t.last = s.last
            /\ DOMAIN t.pcb = DOMAIN s.pcb
            /\ \A p \in DOMAIN s.pcb : /\ DOMAIN t.pcb[p] = DOMAIN s.pcb[p]
                                       /\ t.pcb[p].std_in = s.pcb[p].std_in /\ t.pcb[p].std_out = s.pcb[p].std_out
                                       /\ t.pcb[p].status = s.pcb[p].status
<1> DEFINE walk == Walk(s, pid, PathOf(text))
<1>1. ASSUME NEW path, NEW t, t = [s EXCEPT !.pcb[pid].wd = path]
      PROVE  /\ DOMAIN t = Kernel /\ t.files = s.files /\ t.last = s.last
             /\ DOMAIN t.pcb = DOMAIN s.pcb
             /\ \A p \in DOMAIN s.pcb :
                  /\ DOMAIN t.pcb[p] = DOMAIN s.pcb[p]
                  /\ t.pcb[p].std_in = s.pcb[p].std_in /\ t.pcb[p].std_out = s.pcb[p].std_out
                  /\ t.pcb[p].status = s.pcb[p].status
  <2> DEFINE r == [s.pcb[pid] EXCEPT !.wd = path]
             q == [s.pcb EXCEPT ![pid] = r]
  <2>1. DOMAIN r = DOMAIN s.pcb[pid] /\ r.std_in = s.pcb[pid].std_in
          /\ r.std_out = s.pcb[pid].std_out /\ r.status = s.pcb[pid].status
    OBVIOUS
  <2>2. t = [s EXCEPT !.pcb = q]
    BY <1>1
  <2> HIDE DEF r
  <2>3. DOMAIN q = DOMAIN s.pcb /\ \A p \in DOMAIN s.pcb : q[p] = IF p = pid THEN r ELSE s.pcb[p]
    OBVIOUS
  <2> HIDE DEF q
  <2>4. DOMAIN t = Kernel /\ t.files = s.files /\ t.last = s.last /\ t.pcb = q
    BY <2>2 DEF Kernel
  <2> QED
    BY <2>1, <2>3, <2>4
<1>3. Set_Working_Dir(s, pid, text) =
        IF walk.status = "undefined" THEN Failed(s, "Undefined")
        ELSE IF walk.status = "missing" THEN Failed(s, "File_Not_Found")
        ELSE Success([s EXCEPT !.pcb[pid].wd = walk.path], <<>>)
  BY DEF Set_Working_Dir, Given
<1> HIDE DEF walk
<1> QED
  BY <1>1, <1>3 DEF Failed, Success

(* Closing removes the handle, and no other one, if it is one.             *)
LEMMA CloseRemoves ==
  ASSUME NEW s, DOMAIN s = Kernel, NEW h
  PROVE  LET t == Close_File(s, h).os
         IN IF h \in DOMAIN s.files THEN Removed(s, t, h) ELSE t = s
<1>1. CASE h \notin DOMAIN s.files
  BY <1>1 DEF Close_File, Failed
<1>2. ASSUME NEW u, DOMAIN u = Kernel, u.files = s.files, u.last = s.last, u.pcb = s.pcb
      PROVE  Removed(s, Erase(u, h), h)
  BY <1>2 DEF Erase, Removed, Kernel
<1>3. CASE h \in DOMAIN s.files
  <2>1. Removed(s, Erase([s EXCEPT !.pipes[s.files[h].of] = Close_In(@)], h), h)
    BY <1>2 DEF Kernel
  <2>2. Removed(s, Erase([s EXCEPT !.pipes[s.files[h].of].closedOut = TRUE], h), h)
    BY <1>2 DEF Kernel
  <2>3. Removed(s, Erase(s, h), h)
    BY <1>2 DEF Kernel
  <2> QED
    BY <1>3, <2>1, <2>2, <2>3 DEF Close_File, Success
<1> QED
  BY <1>1, <1>3

(* Add_File looks for a free handle from the last one on and comes round to*)
(* one while there is one.                                                 *)
LEMMA NextIsFree ==
  ASSUME NEW s, DOMAIN s.files \subseteq Handle, s.last \in Handle, HandlesLeft(s, 1)
  PROVE  Next_Handle(s) \in Handle \ DOMAIN s.files
<1> DEFINE After(i) == (s.last + i) % Handles
           I == {i \in 1 .. Handles : After(i) \notin DOMAIN s.files}
<1>0. Handles \in Nat \ {0} /\ s.last \in 0 .. Handles - 1
  BY ShellAssumption DEF Handle
<1>1. \E h \in Handle : h \notin DOMAIN s.files
  <2>1. SUFFICES ASSUME Handle \subseteq DOMAIN s.files PROVE FALSE
    OBVIOUS
  <2>2. DOMAIN s.files = 0 .. Handles - 1
    BY <2>1 DEF Handle
  <2>3. Cardinality(0 .. Handles - 1) = Handles
    BY <1>0, FS_Interval
  <2> QED
    BY <1>0, <2>2, <2>3 DEF HandlesLeft
<1>2. PICK h \in Handle : h \notin DOMAIN s.files
  BY <1>1
<1>3. I # {}
  <2> DEFINE i == IF h > s.last THEN h - s.last ELSE h - s.last + Handles
  <2>1. i \in 1 .. Handles /\ (s.last + i = h \/ s.last + i = h + Handles) /\ h \in 0 .. Handles - 1
    BY <1>0 DEF Handle
  <2>2. h % Handles = h /\ (h + Handles) % Handles = h
    BY <1>0, <2>1
  <2>3. After(i) = h
    BY <2>1, <2>2
  <2> QED
    BY <1>2, <2>1, <2>3
<1>4. PICK m \in I : \A k \in I : m <= k
  <2>1. I \subseteq Nat
    OBVIOUS
  <2> HIDE DEF I
  <2> QED
    BY <1>3, <2>1, Chains!Least
<1>5. /\ m \in 1 .. Handles /\ After(m) \notin DOMAIN s.files
      /\ \A j \in 1 .. m - 1 : After(j) \in DOMAIN s.files
  <2>1. m \in 1 .. Handles /\ After(m) \notin DOMAIN s.files
    BY <1>4
  <2> SUFFICES ASSUME NEW j \in 1 .. m - 1, After(j) \notin DOMAIN s.files
               PROVE  FALSE
    BY <2>1
  <2>2. j \in 1 .. Handles
    BY <1>0, <2>1
  <2>3. j \in I
    BY <2>2
  <2> HIDE DEF I, After
  <2> QED
    BY <1>4, <2>1, <2>3
<1>6. \E i \in 1 .. Handles : Next_Handle(s) = After(i) /\ After(i) \notin DOMAIN s.files
  BY <1>5 DEF Next_Handle
<1>7. \A i \in 1 .. Handles : After(i) \in 0 .. Handles - 1
  BY <1>0
<1> QED
  BY <1>6, <1>7 DEF Handle

(* Add_File adds a handle that was free, and no open file changes.         *)
LEMMA AddAdds ==
  ASSUME NEW s, DOMAIN s = Kernel, DOMAIN s.files \subseteq Handle, s.last \in Handle,
         HandlesLeft(s, 1), NEW f, DOMAIN f = FileFields
  PROVE  LET t == Add_File(s, f)
         IN Added(s, t, t.last) /\ t.files[t.last] = f
<1>1. Add_File(s, f) = [s EXCEPT !.last = Next_Handle(s), !.files = With(@, Next_Handle(s), f)]
  BY DEF Add_File, Given
<1>2. Next_Handle(s) \in Handle \ DOMAIN s.files
  BY NextIsFree
<1> DEFINE h == Next_Handle(s)
<1> HIDE DEF h
<1>4. /\ DOMAIN Add_File(s, f) = Kernel /\ Add_File(s, f).last = h /\ Add_File(s, f).pcb = s.pcb
      /\ Add_File(s, f).files = With(s.files, h, f)
  BY <1>1 DEF h, Kernel
<1> QED
  BY <1>2, <1>4 DEF Added, h, With

(* A file that could be opened has a new handle.                           *)
LEMMA OpenAdds ==
  ASSUME NEW s, DOMAIN s = Kernel, DOMAIN s.files \subseteq Handle, s.last \in Handle,
         HandlesLeft(s, 1), NEW pid, NEW text, NEW always, NEW attributes
  PROVE  LET r == Open_File(s, pid, text, always, attributes)
         IN r.error = "Success" => Added(s, r.os, r.value)
<1> DEFINE Fits(o) == o.error = "Success" => /\ DOMAIN o.os = Kernel /\ o.os.files = s.files
                                             /\ o.os.last = s.last /\ o.os.pcb = s.pcb
                                             /\ DOMAIN o.value = FileFields
           InTable(opened) ==
             IF opened.error # "Success" THEN Failed(s, opened.error)
             ELSE Given(Add_File(opened.os, opened.value), LAMBDA added : Success(added, added.last))
           Good(r) == r.error = "Success" => Added(s, r.os, r.value)
<1>1. ASSUME NEW e, e # "Success" PROVE Fits(Failed(s, e)) /\ Good(Failed(s, e))
  BY <1>1 DEF Failed
<1>2. ASSUME NEW kind, NEW of, NEW size PROVE Fits(Success(s, File(kind, of, size)))
  BY DEF Success, File, FileFields
<1>3. ASSUME NEW d, NEW kind, NEW of, NEW size
      PROVE  Fits(Success([s EXCEPT !.disk = d], File(kind, of, size)))
  BY DEF Success, File, FileFields, Kernel
<1>4. \A path, a, b : Fits(FatOpen(s, path, a, b))
  <2> TAKE path, a, b
  <2> HIDE DEF Fits
  <2> QED
    BY <1>1, <1>2, <1>3 DEF FatOpen
<1>5. \A path, a : Fits(ProcOpen(s, path, a))
  <2> TAKE path, a
  <2> HIDE DEF Fits
  <2> QED
    BY <1>1, <1>2 DEF ProcOpen
<1>6. ASSUME NEW o, Fits(o) PROVE Good(InTable(o))
  <2>1. CASE o.error # "Success"
    BY <1>1, <2>1
  <2>2. CASE o.error = "Success"
    <3> DEFINE t == Add_File(o.os, o.value)
    <3>1. InTable(o) = Success(t, t.last)
      BY <2>2 DEF Given
    <3>2. HandlesLeft(o.os, 1)
      BY <1>6, <2>2 DEF HandlesLeft
    <3>3. Added(o.os, t, t.last)
      BY <1>6, <2>2, <3>2, AddAdds
    <3> HIDE DEF t, InTable
    <3>4. Added(s, t, t.last)
      BY <1>6, <2>2, <3>3 DEF Added
    <3> QED
      BY <3>1, <3>4 DEF Success
  <2> QED
    BY <2>1, <2>2
<1> DEFINE p == PathOf(text)
           name == IF p.path = <<>> THEN "" ELSE Last(p.path)
           Relative(walk) == IF always THEN walk.rel ELSE Joined(walk.rel, name)
           Reached(walk) == IF Last(walk.fs) = "fat" THEN FatOpen(s, Relative(walk), always, attributes)
                           ELSE ProcOpen(s, Relative(walk), attributes)
           Put(walk) == Given(Reached(walk), InTable)
           Found(walk) ==
             IF walk.status = "undefined" THEN Failed(s, "Undefined")
             ELSE IF walk.status = "missing" THEN Failed(s, "File_Not_Found")
             ELSE Put(walk)
<1>7. ASSUME NEW walk PROVE Good(Found(walk))
  <2>1. Fits(Reached(walk))
    <3> HIDE DEF Fits, Relative
    <3> QED
      BY <1>4, <1>5
  <2> HIDE DEF Fits, Reached
  <2>2. Good(InTable(Reached(walk)))
    BY <1>6, <2>1
  <2>3. Put(walk) = InTable(Reached(walk))
    BY DEF Given
  <2> HIDE DEF Good, InTable, Put
  <2> QED
    BY <1>1, <2>2, <2>3
<1> DEFINE from == Walk(s, pid, IF always THEN p ELSE [p EXCEPT !.path = Parent(@)])
<1>8. Open_File(s, pid, text, always, attributes) =
        IF ~always /\ attributes = "Directory" /\ Walk(s, pid, p).status # "missing"
        THEN Failed(s, "Invalid_Argument")
        ELSE Given(from, Found)
  BY Zenon DEF Open_File
<1>10. Given(from, Found) = Found(from)
  <2> HIDE DEF Put, from
  <2> QED
    BY DEF Given
<1> HIDE DEF Found, from, Good, p
<1>9. Good(Open_File(s, pid, text, always, attributes))
  BY <1>1, <1>7, <1>8, <1>10
<1> QED
  BY <1>9 DEF Good

(* The two ends of a pipe have two new handles.                            *)
LEMMA PipeAdds ==
  ASSUME NEW s, DOMAIN s = Kernel, DOMAIN s.files \subseteq Handle, s.last \in Handle,
         HandlesLeft(s, 2)
  PROVE  LET r == Create_Pipe(s)
             a == r.value[1]
             b == r.value[2]
         IN /\ r.value = <<a, b>> /\ a # b /\ {a, b} \subseteq Handle \ DOMAIN s.files
            /\ DOMAIN r.os = Kernel /\ r.os.last \in Handle /\ r.os.pcb = s.pcb
            /\ DOMAIN r.os.files = DOMAIN s.files \cup {a, b}
            /\ \A k \in DOMAIN s.files : r.os.files[k] = s.files[k]
            /\ DOMAIN r.os.files[a] = FileFields /\ DOMAIN r.os.files[b] = FileFields
<1> DEFINE p == Min((1 .. Cardinality(DOMAIN s.pipes) + 1) \ DOMAIN s.pipes)
           made == [s EXCEPT !.pipes =
                      With(@, p, [data |-> <<>>, closedIn |-> FALSE, closedOut |-> FALSE])]
           t == Add_File(made, File("in", p, 0))
           u == Add_File(t, File("out", p, 0))
<1>1. Create_Pipe(s) = Success(u, <<t.last, u.last>>)
  BY Zenon DEF Create_Pipe, Given
<1>2. DOMAIN made = Kernel /\ made.files = s.files /\ made.last = s.last /\ made.pcb = s.pcb
  BY DEF Kernel
<1>3. \A kind : DOMAIN File(kind, p, 0) = FileFields
  BY DEF File, FileFields
<1> HIDE DEF made, p
<1>4. Handles \in Nat /\ IsFiniteSet(DOMAIN s.files) /\ Cardinality(DOMAIN s.files) \in Nat
  <2>1. IsFiniteSet(Handle) /\ Handles \in Nat
    BY ShellAssumption, FS_Interval DEF Handle
  <2> QED
    BY <2>1, FS_Subset, FS_CardinalityType
<1>5. HandlesLeft(made, 1)
  BY <1>2, <1>4 DEF HandlesLeft
<1>6. Added(made, t, t.last)
  BY <1>2, <1>3, <1>5, AddAdds
<1> HIDE DEF t
<1>7. HandlesLeft(t, 1)
  <2>1. DOMAIN t.files = DOMAIN s.files \cup {t.last} /\ t.last \notin DOMAIN s.files
    BY <1>2, <1>6 DEF Added
  <2>2. Cardinality(DOMAIN t.files) = Cardinality(DOMAIN s.files) + 1
    BY <1>4, <2>1, FS_AddElement
  <2> QED
    BY <1>4, <2>2 DEF HandlesLeft
<1>8. Added(t, u, u.last)
  <2>1. DOMAIN t = Kernel /\ DOMAIN t.files \subseteq Handle /\ t.last \in Handle
    BY <1>2, <1>6 DEF Added
  <2> QED
    BY <1>3, <1>7, <2>1, AddAdds
<1> HIDE DEF u
<1> QED
  BY <1>1, <1>2, <1>6, <1>8 DEF Added, Success

-----------------------------------------------------------------------------
(* The steps of a program                                                  *)

(* The other programs stay as they are, and p stays one.                   *)
Alone(p) ==
  /\ undefined' = undefined
  /\ DOMAIN prog' = DOMAIN prog
  /\ \A q \in DOMAIN prog \ {p} : prog'[q] = prog[q]
  /\ Begun(prog'[p]) /\ Owning(prog'[p])
  /\ prog'[p].name = prog[p].name /\ prog'[p].given = prog[p].given

(* A program is what it was, or is left waiting in a read.                 *)
Like(t, u) ==
  /\ Begun(u) /\ Owning(u)
  /\ u.own = t.own /\ u.name = t.name /\ u.given = t.given /\ u.todo = t.todo
  /\ u.pc = t.pc \/ (t.pc \in {"read", "hung"} /\ u.pc = "hung")

(* A step of p that may leave others waiting in the pipe that it closes.   *)
Beside(p) ==
  /\ undefined' = undefined
  /\ DOMAIN prog' = DOMAIN prog
  /\ \A q \in DOMAIN prog \ {p} : Like(prog[q], prog'[q])
  /\ Begun(prog'[p]) /\ Owning(prog'[p])
  /\ prog'[p].name = prog[p].name /\ prog'[p].given = prog[p].given

(* The kinds of steps of a program: something undefined, a step that leaves*)
(* the handles alone, one that opens, closes or, in a shutdown, takes a    *)
(* handle, and the end.                                                    *)
Closes(h) == IF h \in DOMAIN os.files THEN Removed(os, os', h) ELSE os' = os

Breaking == undefined' = TRUE /\ os' = os /\ prog' = prog
Continuing(p) ==
  /\ Alone(p) /\ Kept(os, os')
  /\ prog'[p].own = prog[p].own
  /\ prog[p].name = "shutdown" /\ prog[p].pc \in {"start", "kill"} =>
       prog'[p].pc = "kill" /\ prog'[p].todo = Processes(os)
Opening(p, h) ==
  /\ Alone(p) /\ Added(os, os', h)
  /\ prog[p].own = {} /\ prog'[p].own = {h}
  /\ ~(prog[p].name = "shutdown" /\ prog[p].pc \in {"start", "kill"})
Closing(p, h) ==
  /\ Alone(p) /\ Closes(h)
  /\ prog[p].own = {h} /\ prog'[p].own = {}
  /\ prog[p].pc = "close"
Killing(p, h) ==
  /\ Beside(p) /\ Closes(h)
  /\ prog[p].own = {} /\ prog'[p].own = {}
  /\ prog[p].name = "shutdown" /\ prog[p].pc = "kill"
  /\ Head(prog[p].todo) \in DOMAIN os.pcb /\ h = os.pcb[Head(prog[p].todo)].std_in
Finishing(p) ==
  /\ prog[p].pc = "end" /\ prog[p].own = {}
  /\ undefined' = undefined
  /\ prog' = [q \in DOMAIN prog \ {p} |-> prog[q]]
  /\ os' = [os EXCEPT !.pcb[p].status = "Zombie"]

(* A step of a program is one of these.                                    *)
Kinds(p) ==
  \/ Breaking \/ Continuing(p) \/ Finishing(p)
  \/ \E h \in Handle : Opening(p, h) \/ Closing(p, h)
  \/ \E h : Killing(p, h)

(* What a program does to itself concerns no other program.                *)
LEMMA WentAlone ==
  ASSUME NEW p \in DOMAIN prog, NEW t, NEW s, Went(p, s, t), Begun(t), Owning(t),
         t.name = prog[p].name, t.given = prog[p].given
  PROVE  Alone(p) /\ os' = s /\ prog'[p] = t
BY DEF Went, Alone

(* A program that writes a text goes on with the handles it had.           *)
LEMMA SaysKind ==
  ASSUME NEW p \in DOMAIN prog, NEW t, NEW s, Kept(os, s), NEW out, NEW next,
         Says(p, s, t, out, next), Begun(t), t.name = prog[p].name, t.given = prog[p].given,
         t.own = prog[p].own, t.own = {} \/ \E h \in Handle : t.own = {h},
         next # "kill", t.own # {} => next \in {"read", "list", "close"},
         prog[p].name = "shutdown" => prog[p].pc \notin {"start", "kill"}
  PROVE  Continuing(p)
<1> DEFINE u == [t EXCEPT !.pc = "write", !.out = out, !.next = next]
<1>1. /\ Begun(u) /\ u.pc = "write" /\ u.next = next /\ u.own = t.own /\ u.name = t.name /\ u.given = t.given
  BY DEF Begun
<1>2. Went(p, s, u)
  BY DEF Says
<1> HIDE DEF u
<1>3. Owning(u)
  BY <1>1 DEF Owning
<1>4. Alone(p) /\ os' = s /\ prog'[p] = u
  BY <1>1, <1>2, <1>3, WentAlone
<1> QED
  BY <1>1, <1>4 DEF Continuing

(* A program that goes on elsewhere concerns no other program.             *)
LEMMA GoesKind ==
  ASSUME NEW p \in DOMAIN prog, NEW t, NEW s, NEW pc, Goes(p, s, t, pc), Begun(t),
         t.name = prog[p].name, t.given = prog[p].given,
         Owning([t EXCEPT !.pc = pc])
  PROVE  Alone(p) /\ os' = s /\ prog'[p].own = t.own /\ prog'[p].pc = pc /\ prog'[p].todo = t.todo
<1> DEFINE u == [t EXCEPT !.pc = pc]
<1>1. Begun(u) /\ u.pc = pc /\ u.own = t.own /\ u.todo = t.todo /\ u.name = t.name /\ u.given = t.given
  BY DEF Begun
<1>2. Went(p, s, u) /\ Owning(u)
  BY DEF Goes
<1> HIDE DEF u
<1> QED
  BY <1>1, <1>2, WentAlone

(* A program that opens a file owns its handle afterwards, or owns none and*)
(* says why.                                                               *)
LEMMA OpensKind ==
  ASSUME KernelOK, HandlesLeft(os, 1), NEW p \in DOMAIN prog, NEW t, Begun(t),
         t.name = prog[p].name, t.given = prog[p].given, t.own = {}, prog[p].own = {},
         prog[p].name = "shutdown" => prog[p].pc \notin {"start", "kill"},
         NEW text, NEW always, NEW attributes, NEW pc \in {"read", "close", "list", "task"},
         Opens(p, t, Open_File(os, p, text, always, attributes), pc)
  PROVE  Kinds(p)
<1> DEFINE r == Open_File(os, p, text, always, attributes)
           u == [t EXCEPT !.own = {r.value}, !.from = r.value]
<1>1. r.error = "Success" => Added(os, r.os, r.value)
  BY OpenAdds DEF KernelOK
<1> HIDE DEF r
<1>2. \/ undefined' = TRUE /\ os' = os /\ prog' = prog
      \/ Says(p, os, t, Message(r.error), Rest(t))
      \/ r.error = "Success" /\ Goes(p, r.os, u, pc)
  <2> HIDE DEF u
  <2> QED
    BY Zenon DEF Opens, Attempt, Breaks, r, u
<1>3. CASE undefined' = TRUE /\ os' = os /\ prog' = prog
  BY <1>3 DEF Kinds, Breaking
<1>4. CASE Says(p, os, t, Message(r.error), Rest(t))
  <2>1. Rest(t) # "kill"
    BY DEF Rest
  <2>2. Kept(os, os)
    BY KeptSelf DEF KernelOK
  <2> QED
    BY <1>4, <2>1, <2>2, SaysKind DEF Kinds
<1>5. CASE r.error = "Success" /\ Goes(p, r.os, u, pc)
  <2>1. Begun(u) /\ u.own = {r.value} /\ u.name = t.name /\ u.given = t.given
    BY DEF Begun
  <2>2. Added(os, r.os, r.value) /\ r.value \in Handle
    BY <1>1, <1>5 DEF Added
  <2> HIDE DEF u
  <2>3. Owning([u EXCEPT !.pc = pc])
    BY <2>1, <2>2 DEF Owning, Begun
  <2>4. Alone(p) /\ os' = r.os /\ prog'[p].own = {r.value}
    BY <1>5, <2>1, <2>3, GoesKind
  <2> QED
    BY <2>2, <2>4 DEF Kinds, Opening
<1> QED
  BY <1>2, <1>3, <1>4, <1>5

(* Every step of every program is one of the kinds: it breaks, goes on,    *)
(* ends, or opens or closes one handle.                                    *)
(* What a closed pipe leaves of the programs.                              *)
LEMMA StrandedLike ==
  ASSUME NEW h, NEW ps \in SUBSET Strands(h), NEW q \in DOMAIN prog, Begun(prog[q]), Owning(prog[q])
  PROVE  DOMAIN Stranded(ps) = DOMAIN prog /\ Like(prog[q], Stranded(ps)[q])
<1> DEFINE t == prog[q]
           pc == IF q \in ps THEN "hung" ELSE t.pc
           u == [t EXCEPT !.pc = pc]
<1>1. DOMAIN Stranded(ps) = DOMAIN prog /\ Stranded(ps)[q] = u
  BY DEF Stranded
<1>2. q \in ps => t.pc \in {"read", "hung"} /\ t.own = {}
  BY DEF Strands, Reading
<1>3. /\ Begun(u) /\ u.own = t.own /\ u.name = t.name /\ u.given = t.given /\ u.todo = t.todo
      /\ u.next = t.next /\ u.pc = pc
  BY DEF Begun
<1> HIDE DEF u
<1>4. Owning(u)
  BY <1>2, <1>3 DEF Owning
<1> QED
  BY <1>1, <1>2, <1>3, <1>4 DEF Like

LEMMA StepKinds ==
  ASSUME KernelOK, NEW p \in DOMAIN prog, Begun(prog[p]), Owning(prog[p]), Step(p),
         \A q \in DOMAIN prog : Begun(prog[q]) /\ Owning(prog[q])
  PROVE  Kinds(p)
<1> DEFINE t == prog[p]
<1>0. Kept(os, os)
  BY KeptSelf DEF KernelOK
<1>1. CASE TakeInput(p)
  <2>0. t.own = {}
    BY <1>1 DEF TakeInput, Runs, Owning
  <2>1. CASE Says(p, os, t, Message("Arguments expected"), "end")
    BY <1>0, <1>1, <2>0, <2>1, SaysKind DEF Kinds, TakeInput, Runs
  <2>2. CASE Goes(p, os, [t EXCEPT !.from = StdIn(p)], "read")
    <3> DEFINE u == [t EXCEPT !.from = StdIn(p)]
    <3>1. Begun(u) /\ u.own = {} /\ u.name = t.name /\ u.given = t.given
      BY <2>0 DEF Begun
    <3>4. Goes(p, os, u, "read")
      BY <2>2
    <3> HIDE DEF u
    <3>2. Owning([u EXCEPT !.pc = "read"])
      BY <3>1 DEF Owning, Begun
    <3>3. Alone(p) /\ os' = os /\ prog'[p].own = {}
      BY <3>4, <3>1, <3>2, GoesKind
    <3> QED
      BY <1>0, <1>1, <2>0, <3>3 DEF Kinds, Continuing, TakeInput
  <2>3. ASSUME NEW file, HandlesLeft(os, 1), Opens(p, t, Open_File(os, p, file, TRUE, "None"), "read")
        PROVE  Kinds(p)
    BY <1>1, <2>0, <2>3, OpensKind DEF TakeInput
  <2> QED
    BY <1>1, <2>1, <2>2, <2>3 DEF TakeInput
<1>2. CASE Read(p)
  <2>0. t.pc = "read" /\ (t.own = {} \/ \E h \in Handle : t.own = {h})
    BY <1>2 DEF Read, Runs, Owning
  <2> DEFINE r == Read_File(os, t.from, ReadSize)
  <2>1. Kept(os, r.os)
    BY ReadKeeps DEF KernelOK
  <2>2. \/ Got(p, r)
        \/ Goes(p, os, t, "close")
        \/ Says(p, os, t, Result(t.name, t.acc), "close")
        \/ Breaking
    BY <1>2 DEF Read, Breaks, Breaking
  <2> HIDE DEF r
  <2>3. CASE Got(p, r)
    <3> DEFINE eot == "EOT" \in ToSet(r.value)
               all == t.acc \o Text(r.value)
    <3>1. \/ Says(p, r.os, t, <<Text(r.value)>>, IF eot THEN "close" ELSE "read")
          \/ Says(p, r.os, t, Result(t.name, all), "close")
          \/ Went(p, r.os, [t EXCEPT !.acc = all])
      BY <2>3 DEF Got
    <3> HIDE DEF eot, all
    <3>2. CASE Went(p, r.os, [t EXCEPT !.acc = all])
      <4> DEFINE u == [t EXCEPT !.acc = all]
      <4>1. Begun(u) /\ Owning(u) /\ u.own = t.own /\ u.name = t.name /\ u.given = t.given
        BY DEF Begun, Owning
      <4> HIDE DEF u
      <4>2. Alone(p) /\ os' = r.os /\ prog'[p] = u
        BY <3>2, <4>1, WentAlone DEF u
      <4> QED
        BY <2>0, <2>1, <4>1, <4>2 DEF Kinds, Continuing
    <3>3. ASSUME NEW out, NEW next \in {"close", "read"}, Says(p, r.os, t, out, next)
          PROVE  Kinds(p)
      BY <2>0, <2>1, <3>3, SaysKind DEF Kinds
    <3> QED
      BY <3>1, <3>2, <3>3
  <2>4. CASE Goes(p, os, t, "close")
    <3>1. Owning([t EXCEPT !.pc = "close"])
      BY <2>0 DEF Owning, Begun
    <3>2. Alone(p) /\ os' = os /\ prog'[p].own = t.own
      BY <2>4, <3>1, GoesKind
    <3> QED
      BY <1>0, <2>0, <3>2 DEF Kinds, Continuing
  <2>5. CASE Says(p, os, t, Result(t.name, t.acc), "close")
    BY <1>0, <2>0, <2>5, SaysKind DEF Kinds
  <2>6. CASE Breaking
    BY <2>6 DEF Kinds
  <2> QED
    BY <2>2, <2>3, <2>4, <2>5, <2>6
<1>3. CASE Write(p)
  <2> DEFINE text == Head(t.out)
             w == Write_File(os, StdOut(p), text)
  <2>1. Kept(os, w.os)
    BY WriteKeeps DEF KernelOK
  <2>2. t.pc = "write" /\ (t.own = {} \/ \E h \in Handle : t.own = {h}) /\ t.next # "kill"
          /\ (t.own # {} => t.next \in {"read", "list", "close"})
    BY <1>3 DEF Write, Runs, Owning
  <2>3. \/ \E o : Went(p, w.os, [t EXCEPT !.out = o, !.wrote = TRUE])
        \/ \E pc \in {"write", "close", t.next} :
             Goes(p, w.os, [t EXCEPT !.out = Tail(@), !.wrote = FALSE], pc)
        \/ Breaking
    <3> HIDE DEF w
    <3>1. \/ Went(p, w.os, [t EXCEPT !.out[1] = SubSeq(@, Len(w.value) + 1, Len(@)), !.wrote = TRUE])
          \/ Goes(p, w.os, [t EXCEPT !.out = Tail(@), !.wrote = FALSE],
                  IF Len(t.out) > 1 THEN "write"
                  ELSE IF t.next = "read" /\ w.error # "Success" /\ ~t.wrote THEN "close" ELSE t.next)
          \/ Breaking
      BY <1>3 DEF Write, Breaks, Breaking, w
    <3> QED
      BY <3>1
  <2> HIDE DEF w
  <2>4. ASSUME NEW o, Went(p, w.os, [t EXCEPT !.out = o, !.wrote = TRUE])
        PROVE  Kinds(p)
    <3> DEFINE u == [t EXCEPT !.out = o, !.wrote = TRUE]
    <3>1. Begun(u) /\ Owning(u) /\ u.own = t.own /\ u.name = t.name /\ u.given = t.given
      BY DEF Begun, Owning
    <3> HIDE DEF u
    <3>2. Alone(p) /\ os' = w.os /\ prog'[p] = u
      BY <2>4, <3>1, WentAlone DEF u
    <3> QED
      BY <2>1, <2>2, <3>1, <3>2 DEF Kinds, Continuing
  <2>5. ASSUME NEW pc \in {"write", "close", t.next},
               Goes(p, w.os, [t EXCEPT !.out = Tail(@), !.wrote = FALSE], pc)
        PROVE  Kinds(p)
    <3> DEFINE u == [t EXCEPT !.out = Tail(@), !.wrote = FALSE]
    <3>1. Begun(u) /\ u.own = t.own /\ u.name = t.name /\ u.given = t.given /\ u.next = t.next
      BY DEF Begun
    <3>4. Goes(p, w.os, u, pc)
      BY <2>5
    <3> HIDE DEF u
    <3>2. Owning([u EXCEPT !.pc = pc])
      BY <2>2, <3>1 DEF Owning, Begun
    <3>3. Alone(p) /\ os' = w.os /\ prog'[p].own = t.own
      BY <3>4, <3>1, <3>2, GoesKind
    <3> QED
      BY <2>1, <2>2, <3>3 DEF Kinds, Continuing
  <2>6. CASE Breaking
    BY <2>6 DEF Kinds
  <2> QED
    BY <2>3, <2>4, <2>5, <2>6
<1>4. CASE CloseOwn(p)
  <2>0. t.pc = "close" /\ (t.own = {} \/ \E h \in Handle : t.own = {h})
    BY <1>4 DEF CloseOwn, Runs, Owning
  <2> DEFINE u == [t EXCEPT !.own = {}]
             s == IF t.own = {} THEN os ELSE Close_File(os, CHOOSE h \in t.own : TRUE).os
  <2>1. Goes(p, s, u, Rest(t)) /\ Rest(t) \in {"next", "end"}
    BY <1>4 DEF CloseOwn, Rest
  <2>2. Begun(u) /\ u.own = {} /\ u.name = t.name /\ u.given = t.given
    BY DEF Begun
  <2> HIDE DEF u
  <2>3. Owning([u EXCEPT !.pc = Rest(t)])
    BY <2>1, <2>2 DEF Owning, Begun
  <2>4. Alone(p) /\ os' = s /\ prog'[p].own = {}
    BY <2>1, <2>2, <2>3, GoesKind
  <2>5. CASE t.own = {}
    BY <1>0, <2>0, <2>4, <2>5 DEF Kinds, Continuing
  <2>6. CASE t.own # {}
    <3>1. PICK h \in Handle : t.own = {h}
      BY <2>0, <2>6
    <3>2. os' = Close_File(os, h).os
      <4>1. (CHOOSE k \in t.own : TRUE) = h
        BY <3>1
      <4> QED
        BY <2>4, <2>6, <4>1
    <3>3. Closes(h)
      BY <3>2, CloseRemoves DEF Closes, KernelOK
    <3> QED
      BY <2>0, <2>4, <3>1, <3>3 DEF Kinds, Closing
  <2> QED
    BY <2>5, <2>6
<1>5. CASE EchoText(p)
  <2>0. t.own = {}
    BY <1>5 DEF EchoText, Runs, Owning
  <2> QED
    BY <1>0, <1>5, <2>0, SaysKind DEF Kinds, EchoText, Runs
<1>6. CASE MakeFolder(p)
  <2>0. t.own = {} /\ t.name # "shutdown"
    BY <1>6 DEF MakeFolder, Runs, Owning
  <2>1. CASE Says(p, os, t, Message("Name not specified"), "end")
    BY <1>0, <2>0, <2>1, SaysKind DEF Kinds
  <2>2. CASE HandlesLeft(os, 1) /\ Opens(p, t, Open_File(os, p, t.data, FALSE, "Directory"), "close")
    BY <2>0, <2>2, OpensKind
  <2> QED
    BY <1>6, <2>1, <2>2 DEF MakeFolder
<1>7. CASE RemoveFolder(p)
  <2>0. t.own = {} /\ t.name # "shutdown"
    BY <1>7 DEF RemoveFolder, Runs, Owning
  <2> DEFINE r == Delete_File(os, p, t.data)
  <2>1. Kept(os, r.os)
    BY DeleteKeeps DEF KernelOK
  <2> HIDE DEF r
  <2>2. \/ Says(p, os, t, Message("Name not specified"), "end")
        \/ undefined' = TRUE /\ os' = os /\ prog' = prog
        \/ Says(p, os, t, Message(r.error), Rest(t))
        \/ Goes(p, r.os, t, "end")
    BY <1>7, Zenon DEF RemoveFolder, Attempt, Breaks, r
  <2>3. CASE Says(p, os, t, Message("Name not specified"), "end")
    BY <1>0, <2>0, <2>3, SaysKind DEF Kinds
  <2>4. CASE undefined' = TRUE /\ os' = os /\ prog' = prog
    BY <2>4 DEF Kinds, Breaking
  <2>5. CASE Says(p, os, t, Message(r.error), Rest(t))
    <3>1. Rest(t) # "kill"
      BY DEF Rest
    <3> QED
      BY <1>0, <2>0, <2>5, <3>1, SaysKind DEF Kinds
  <2>6. CASE Goes(p, r.os, t, "end")
    <3>1. Owning([t EXCEPT !.pc = "end"])
      BY <2>0 DEF Owning, Begun
    <3>2. Alone(p) /\ os' = r.os /\ prog'[p].own = t.own
      BY <2>6, <3>1, GoesKind
    <3> QED
      BY <2>0, <2>1, <3>2 DEF Kinds, Continuing
  <2> QED
    BY <2>2, <2>3, <2>4, <2>5, <2>6
<1>8. CASE StartListing(p)
  <2>0. t.own = {} /\ t.name # "shutdown"
    BY <1>8 DEF StartListing, Runs, Owning
  <2>1. CASE Goes(p, os, [t EXCEPT !.todo = <<FolderArgument(t.data)>>], "next")
    <3> DEFINE u == [t EXCEPT !.todo = <<FolderArgument(t.data)>>]
    <3>1. Begun(u) /\ u.own = {} /\ u.name = t.name /\ u.given = t.given
      BY <2>0 DEF Begun
    <3>4. Goes(p, os, u, "next")
      BY <2>1
    <3> HIDE DEF u
    <3>2. Owning([u EXCEPT !.pc = "next"])
      BY <3>1 DEF Owning, Begun
    <3>3. Alone(p) /\ os' = os /\ prog'[p].own = {}
      BY <3>4, <3>1, <3>2, GoesKind
    <3> QED
      BY <1>0, <2>0, <3>3 DEF Kinds, Continuing
  <2>2. CASE HandlesLeft(os, 1) /\ Opens(p, t, Open_File(os, p, ProcText, TRUE, "Directory"), "list")
    BY <2>0, <2>2, OpensKind
  <2> QED
    BY <1>8, <2>1, <2>2 DEF StartListing
<1>9. CASE OpenFolder(p)
  <2>0. t.own = {} /\ t.name # "shutdown" /\ HandlesLeft(os, 1)
    BY <1>9 DEF OpenFolder, Runs, Owning
  <2> DEFINE u == [prog[p] EXCEPT !.acc = Head(prog[p].todo), !.todo = Tail(@)]
  <2>1. Begun(u) /\ u.own = {} /\ u.name = t.name /\ u.given = t.given
    BY <2>0 DEF Begun
  <2>2. Opens(p, u, Open_File(os, p, u.acc, TRUE, "Directory"), "list")
    BY <1>9 DEF OpenFolder
  <2> HIDE DEF u
  <2> QED
    BY <2>0, <2>1, <2>2, OpensKind
<1>10. CASE List(p)
  <2>0. t.pc = "list" /\ (t.own = {} \/ \E h \in Handle : t.own = {h})
    BY <1>10 DEF List, Runs, Owning
  <2> DEFINE r == Read_File(os, t.from, 1)
  <2>1. Kept(os, r.os)
    BY ReadKeeps DEF KernelOK
  <2> HIDE DEF r
  <2>2. \/ Goes(p, os, t, "close")
        \/ undefined' = TRUE /\ os' = os /\ prog' = prog
        \/ Listed(p, r)
    <3>1. IF r.error \in {"Success", "Undefined"}
          THEN Attempt(p, t, r, LAMBDA s : Listed(p, s))
          ELSE Goes(p, os, t, "close")
      BY <1>10 DEF List, r
    <3> QED
      BY <3>1 DEF Attempt, Breaks
  <2>3. CASE Goes(p, os, t, "close")
    <3>1. Owning([t EXCEPT !.pc = "close"])
      BY <2>0 DEF Owning, Begun
    <3>2. Alone(p) /\ os' = os /\ prog'[p].own = t.own
      BY <2>3, <3>1, GoesKind
    <3> QED
      BY <1>0, <2>0, <3>2 DEF Kinds, Continuing
  <2>4. CASE undefined' = TRUE /\ os' = os /\ prog' = prog
    BY <2>4 DEF Kinds, Breaking
  <2>5. CASE Listed(p, r)
    <3>1. \/ Went(p, r.os, t)
          \/ \E todo : Went(p, r.os, [t EXCEPT !.todo = todo])
          \/ \E todo, out : Says(p, r.os, [t EXCEPT !.todo = todo], out, "list")
      BY <2>5 DEF Listed
    <3>2. CASE Went(p, r.os, t)
      <4>1. Alone(p) /\ os' = r.os /\ prog'[p] = t
        BY <3>2, WentAlone
      <4> QED
        BY <2>0, <2>1, <4>1 DEF Kinds, Continuing
    <3>3. ASSUME NEW todo
          PROVE  LET u == [t EXCEPT !.todo = todo]
                 IN Begun(u) /\ Owning(u) /\ u.own = t.own /\ u.name = t.name /\ u.given = t.given
      BY DEF Begun, Owning
    <3>4. ASSUME NEW u, Begun(u), Owning(u), u.own = t.own, u.name = t.name, u.given = t.given
          PROVE  /\ Went(p, r.os, u) => Kinds(p)
                 /\ \A out : Says(p, r.os, u, out, "list") => Kinds(p)
      <4>1. ASSUME Went(p, r.os, u) PROVE Kinds(p)
        <5>1. Alone(p) /\ os' = r.os /\ prog'[p] = u
          BY <3>4, <4>1, WentAlone
        <5> QED
          BY <2>0, <2>1, <3>4, <5>1 DEF Kinds, Continuing
      <4>2. ASSUME NEW out, Says(p, r.os, u, out, "list") PROVE Kinds(p)
        BY <2>0, <2>1, <3>4, <4>2, SaysKind DEF Kinds
      <4> QED
        BY <4>1, <4>2
    <3> QED
      BY <3>1, <3>2, <3>3, <3>4
  <2> QED
    BY <2>2, <2>3, <2>4, <2>5
<1>11. CASE OpenTask(p)
  <2>0. t.own = {} /\ t.name # "shutdown" /\ HandlesLeft(os, 1)
    BY <1>11 DEF OpenTask, Runs, Owning
  <2> DEFINE u == [prog[p] EXCEPT !.todo = Tail(@)]
             path == ProcText \o <<"/", Head(prog[p].todo)>>
  <2>1. Begun(u) /\ u.own = {} /\ u.name = t.name /\ u.given = t.given
    BY <2>0 DEF Begun
  <2>2. Opens(p, u, Open_File(os, p, path, TRUE, "None"), "task")
    BY <1>11 DEF OpenTask
  <2> HIDE DEF u, path
  <2> QED
    BY <2>0, <2>1, <2>2, OpensKind
<1>12. CASE ReadTask(p)
  <2>0. t.pc = "task" /\ (t.own = {} \/ \E h \in Handle : t.own = {h})
    BY <1>12 DEF ReadTask, Runs, Owning
  <2> DEFINE r == Read_File(os, t.from, 1)
  <2>1. Kept(os, r.os)
    BY ReadKeeps DEF KernelOK
  <2> HIDE DEF r
  <2>2. \/ \E out : Says(p, r.os, t, out, "close")
        \/ Goes(p, os, t, "close")
        \/ Breaking
    BY <1>12 DEF ReadTask, Breaks, Breaking, r
  <2>3. ASSUME NEW out, Says(p, r.os, t, out, "close") PROVE Kinds(p)
    BY <2>0, <2>1, <2>3, SaysKind DEF Kinds
  <2>4. CASE Goes(p, os, t, "close")
    <3>1. Owning([t EXCEPT !.pc = "close"])
      BY <2>0 DEF Owning, Begun
    <3>2. Alone(p) /\ os' = os /\ prog'[p].own = t.own
      BY <2>4, <3>1, GoesKind
    <3> QED
      BY <1>0, <2>0, <3>2 DEF Kinds, Continuing
  <2>5. CASE Breaking
    BY <2>5 DEF Kinds
  <2> QED
    BY <2>2, <2>3, <2>4, <2>5
<1>13. CASE ListProcesses(p)
  <2>0. t.own = {} /\ t.name = "shutdown"
    BY <1>13 DEF ListProcesses, Runs, Owning
  <2> DEFINE u == [prog[p] EXCEPT !.todo = Processes(os)]
  <2>1. Begun(u) /\ u.own = {} /\ u.name = t.name /\ u.given = t.given /\ u.todo = Processes(os)
    BY <2>0 DEF Begun
  <2>2. Goes(p, os, u, "kill")
    BY <1>13 DEF ListProcesses
  <2> HIDE DEF u
  <2>3. Owning([u EXCEPT !.pc = "kill"])
    BY <2>0, <2>1 DEF Owning, Begun
  <2>4. Alone(p) /\ os' = os /\ prog'[p].own = {} /\ prog'[p].pc = "kill" /\ prog'[p].todo = Processes(os)
    BY <2>1, <2>2, <2>3, GoesKind
  <2> QED
    BY <1>0, <2>0, <2>4 DEF Kinds, Continuing
<1>14. CASE CloseStdIn(p)
  <2>0. t.own = {} /\ t.name = "shutdown" /\ t.pc = "kill"
    BY <1>14 DEF CloseStdIn, Runs, Owning
  <2> DEFINE pid == Head(prog[p].todo)
             h == os.pcb[pid].std_in
             todo == Tail(prog[p].todo)
             u == [prog[p] EXCEPT !.todo = todo, !.pc = IF todo = <<>> THEN "end" ELSE "kill"]
  <2>1. /\ Begun(u) /\ u.own = {} /\ u.name = t.name /\ u.given = t.given
        /\ u.pc \in {"end", "kill"}
    BY <2>0 DEF Begun
  <2>2. \/ /\ pid \in DOMAIN os.pcb /\ os' = Close_File(os, h).os /\ undefined' = undefined
           /\ \E ps \in SUBSET Strands(h) : prog' = [Stranded(ps) EXCEPT ![p] = u]
        \/ undefined' = TRUE /\ os' = os /\ prog' = prog
    BY <1>14 DEF CloseStdIn, Breaks
  <2> HIDE DEF u
  <2>3. ASSUME pid \in DOMAIN os.pcb, os' = Close_File(os, h).os, undefined' = undefined,
               NEW ps \in SUBSET Strands(h), prog' = [Stranded(ps) EXCEPT ![p] = u]
        PROVE  Kinds(p)
    <3>1. Owning(u)
      BY <2>0, <2>1 DEF Owning
    <3>2. \A q \in DOMAIN prog : DOMAIN Stranded(ps) = DOMAIN prog /\ Like(prog[q], Stranded(ps)[q])
      BY StrandedLike
    <3>3. /\ DOMAIN prog' = DOMAIN prog /\ prog'[p] = u
          /\ \A q \in DOMAIN prog \ {p} : prog'[q] = Stranded(ps)[q]
      BY <2>3, <3>2
    <3>4. Beside(p)
      BY <2>1, <2>3, <3>1, <3>2, <3>3 DEF Beside
    <3>5. Closes(h)
      BY <2>3, CloseRemoves DEF Closes, KernelOK
    <3> QED
      BY <2>0, <2>1, <2>3, <3>3, <3>4, <3>5 DEF Kinds, Killing
  <2>4. CASE undefined' = TRUE /\ os' = os /\ prog' = prog
    BY <2>4 DEF Kinds, Breaking
  <2> QED
    BY <2>2, <2>3, <2>4
<1>15. CASE Finish(p)
  <2>0. t.own = {} /\ t.pc = "end"
    BY <1>15 DEF Finish, Runs, Owning
  <2> QED
    BY <1>15, <2>0 DEF Finish, Kinds, Finishing
<1> QED
  BY <1>1, <1>2, <1>3, <1>4, <1>5, <1>6, <1>7, <1>8, <1>9, <1>10, <1>11, <1>12, <1>13, <1>14, <1>15 DEF Step

-----------------------------------------------------------------------------
(* What the invariant says of a place in a pipeline                        *)

(* What is said of the locals of the shell alone.                          *)
LEMMA Locals ==
  ASSUME UNCHANGED <<sh, job>>
  PROVE  /\ Plan => Plan'
         /\ Wired => Wired'
         /\ Outstanding' = Outstanding /\ Lost' = Lost /\ Wires' = Wires /\ Clean' = Clean
         /\ Waited' = Waited /\ LeavesLast' = LeavesLast /\ GaveUp' = GaveUp
<1>1. sh' = sh /\ job' = job
  OBVIOUS
<1>2. /\ Wires' = Wires /\ Waited' = Waited /\ LeavesLast' = LeavesLast /\ GaveUp' = GaveUp
      /\ Count_Programs' = Count_Programs /\ FileIn' = FileIn /\ FileOut' = FileOut
      /\ TerminalClosed' = TerminalClosed
  BY <1>1 DEF Wires, Waited, LeavesLast, GaveUp, FileIn, FileOut, Count_Programs, TerminalClosed
<1>3. \A i : To_Close(i)' = To_Close(i)
  BY <1>1 DEF To_Close, Count_Programs
<1>4. Outstanding' = Outstanding
  BY <1>1, <1>2, <1>3 DEF Outstanding
<1>5. Ran("shutdown")' = Ran("shutdown")
  BY <1>1 DEF Ran, Count_Programs
<1>6. Lost' = Lost /\ Clean' = Clean
  BY <1>1, <1>2, <1>5 DEF Lost, Clean
<1>7. Plan => Plan'
  BY <1>1 DEF Plan, FileIn, FileOut, GaveUp, Count_Programs, Pipeline
<1>8. Wired => Wired'
  BY <1>1, <1>2 DEF Wired, Pipeline
<1> QED
  BY <1>2, <1>4, <1>6, <1>7, <1>8

(* The sets of sequences that are empty, of one or two elements, or joined.*)
LEMMA ToSetFacts ==
  ASSUME NEW S
  PROVE  /\ \A s, t \in Seq(S) : s \o t \in Seq(S) /\ ToSet(s \o t) = ToSet(s) \cup ToSet(t)
         /\ \A x \in S : <<x>> \in Seq(S) /\ ToSet(<<x>>) = {x}
         /\ <<>> \in Seq(S) /\ ToSet(<<>>) = {}
         /\ \A x, y \in S : <<x, y>> \in Seq(S) /\ ToSet(<<x, y>>) = {x, y}
         /\ \A s \in Seq(S) : /\ ToSet(s) \subseteq S /\ Len(s) \in Nat
                               /\ \A x : x \in ToSet(s) <=> \E i \in 1 .. Len(s) : x = s[i]
<1>1. \A s \in Seq(S) : ToSet(s) \subseteq S /\ Len(s) \in Nat /\ DOMAIN s = 1 .. Len(s)
  BY DEF ToSet
<1>2. \A s, t \in Seq(S) : ToSet(s \o t) = ToSet(s) \cup ToSet(t)
  <2> SUFFICES ASSUME NEW s \in Seq(S), NEW t \in Seq(S)
               PROVE  ToSet(s \o t) = ToSet(s) \cup ToSet(t)
    OBVIOUS
  <2>1. /\ s \o t \in Seq(S) /\ Len(s \o t) = Len(s) + Len(t)
        /\ \A i \in 1 .. Len(s) : (s \o t)[i] = s[i]
        /\ \A i \in 1 .. Len(t) : (s \o t)[Len(s) + i] = t[i]
    OBVIOUS
  <2>2. \A i \in 1 .. Len(s) + Len(t) : i \in 1 .. Len(s) \/ \E j \in 1 .. Len(t) : i = Len(s) + j
    <3>1. Len(s) \in Nat /\ Len(t) \in Nat
      BY <1>1
    <3> SUFFICES ASSUME NEW i \in 1 .. Len(s) + Len(t), i \notin 1 .. Len(s)
                 PROVE  i - Len(s) \in 1 .. Len(t) /\ i = Len(s) + (i - Len(s))
      OBVIOUS
    <3> QED
      BY <3>1
  <2>3. ToSet(s \o t) \subseteq ToSet(s) \cup ToSet(t)
    <3> SUFFICES ASSUME NEW i \in 1 .. Len(s) + Len(t)
                 PROVE  (s \o t)[i] \in ToSet(s) \cup ToSet(t)
      BY <1>1, <2>1 DEF ToSet
    <3> QED
      BY <1>1, <2>1, <2>2 DEF ToSet
  <2>4. \A i \in 1 .. Len(s) : i \in 1 .. Len(s \o t)
    BY <1>1, <2>1
  <2>5. \A i \in 1 .. Len(t) : Len(s) + i \in 1 .. Len(s \o t)
    BY <1>1, <2>1
  <2>6. ToSet(s) \cup ToSet(t) \subseteq ToSet(s \o t)
    BY <1>1, <2>1, <2>4, <2>5 DEF ToSet
  <2> QED
    BY <2>3, <2>6
<1>3. \A x \in S : <<x>> \in Seq(S) /\ ToSet(<<x>>) = {x}
  BY DEF ToSet
<1>4. <<>> \in Seq(S) /\ ToSet(<<>>) = {}
  BY DEF ToSet
<1>5. \A x, y \in S : <<x, y>> \in Seq(S) /\ ToSet(<<x, y>>) = {x, y}
  BY DEF ToSet
<1>6. \A s, t \in Seq(S) : s \o t \in Seq(S)
  OBVIOUS
<1>7. \A s \in Seq(S) : \A x : x \in ToSet(s) <=> \E i \in 1 .. Len(s) : x = s[i]
  BY <1>1 DEF ToSet
<1> QED
  BY <1>1, <1>2, <1>3, <1>4, <1>5, <1>6, <1>7

(* What is closed when program i has ended: its ends of the pipes, and the *)
(* file at the beginning.                                                  *)
Ends(i) ==
  (IF i < Count_Programs THEN {sh.pipes[2 * i - 1]} ELSE {})
    \cup (IF i > 1 THEN {sh.pipes[2 * i - 2]} ELSE {})
    \cup (IF i = 1 /\ FileIn THEN {sh.first_in} ELSE {})

(* The shell closes the two ends of the program that has ended, each once. *)
LEMMA ToCloseIs ==
  ASSUME sh.pipes \in Seq(Handle), sh.first_in \in Handle, Count_Programs \in Nat,
         Len(sh.pipes) = 2 * (Count_Programs - 1),
         \A k, l \in DOMAIN sh.pipes : k # l => sh.pipes[k] # sh.pipes[l],
         sh.first_in \notin ToSet(sh.pipes),
         NEW i \in 1 .. Count_Programs
  PROVE  /\ To_Close(i) \in Seq(Handle)
         /\ ToSet(To_Close(i)) = Ends(i)
         /\ \A k, l \in DOMAIN To_Close(i) : k # l => To_Close(i)[k] # To_Close(i)[l]
<1> DEFINE n == Count_Programs
<1>1. \A k \in 1 .. 2 * (n - 1) : sh.pipes[k] \in Handle /\ sh.pipes[k] # sh.first_in
  BY DEF ToSet
<1>2. CASE i = 1
  <2> DEFINE a == IF n > 1 THEN <<sh.pipes[1]>> ELSE <<>>
             b == IF FileIn THEN <<sh.first_in>> ELSE <<>>
  <2>1. n > 1 => sh.pipes[1] \in Handle /\ sh.pipes[1] # sh.first_in
    BY <1>1
  <2>2. To_Close(i) = a \o b
    BY <1>2 DEF To_Close, FileIn
  <2>3. /\ a \in Seq(Handle) /\ b \in Seq(Handle)
        /\ ToSet(a) = (IF n > 1 THEN {sh.pipes[1]} ELSE {})
        /\ ToSet(b) = (IF FileIn THEN {sh.first_in} ELSE {})
    <3>1. \A x \in Handle : <<x>> \in Seq(Handle) /\ ToSet(<<x>>) = {x}
      BY ToSetFacts
    <3>2. <<>> \in Seq(Handle) /\ ToSet(<<>>) = {}
      BY ToSetFacts
    <3> QED
      BY <2>1, <3>1, <3>2
  <2>4. \A k, l \in DOMAIN (a \o b) : k # l => (a \o b)[k] # (a \o b)[l]
    BY <2>1
  <2> HIDE DEF a, b
  <2>5. To_Close(i) \in Seq(Handle) /\ ToSet(To_Close(i)) = ToSet(a) \cup ToSet(b)
    <3>1. \A s, t \in Seq(Handle) : s \o t \in Seq(Handle) /\ ToSet(s \o t) = ToSet(s) \cup ToSet(t)
      BY ToSetFacts
    <3> QED
      BY <2>2, <2>3, <3>1
  <2>6. Ends(i) = ToSet(a) \cup ToSet(b)
    BY <1>2, <2>3 DEF Ends
  <2> QED
    BY <2>2, <2>4, <2>5, <2>6
<1>3. CASE i # 1 /\ i = n
  <2>1. 2 * (n - 1) = 2 * i - 2 /\ 2 * (n - 1) \in 1 .. 2 * (n - 1)
    BY <1>3
  <2>2. To_Close(i) = <<sh.pipes[2 * i - 2]>>
    BY <1>3, <2>1 DEF To_Close, Last
  <2>3. To_Close(i) \in Seq(Handle) /\ ToSet(To_Close(i)) = {sh.pipes[2 * i - 2]}
    BY <1>1, <2>1, <2>2, ToSetFacts
  <2>4. Ends(i) = {sh.pipes[2 * i - 2]}
    BY <1>3 DEF Ends
  <2> QED
    BY <2>2, <2>3, <2>4
<1>4. CASE i # 1 /\ i # n
  <2>1. /\ 2 * i - 1 \in 1 .. 2 * (n - 1) /\ 2 * i - 2 \in 1 .. 2 * (n - 1)
        /\ 2 * i - 1 # 2 * i - 2
    BY <1>4
  <2>2. To_Close(i) = <<sh.pipes[2 * i - 1], sh.pipes[2 * i - 2]>>
    BY <1>4 DEF To_Close
  <2>3. /\ To_Close(i) \in Seq(Handle)
        /\ ToSet(To_Close(i)) = {sh.pipes[2 * i - 1], sh.pipes[2 * i - 2]}
    BY <1>1, <2>1, <2>2, ToSetFacts
  <2>4. Ends(i) = {sh.pipes[2 * i - 1], sh.pipes[2 * i - 2]}
    BY <1>4 DEF Ends
  <2>5. sh.pipes[2 * i - 1] # sh.pipes[2 * i - 2]
    BY <2>1
  <2>6. ASSUME NEW a, NEW b, a # b, NEW k \in DOMAIN <<a, b>>, NEW l \in DOMAIN <<a, b>>, k # l
        PROVE  <<a, b>>[k] # <<a, b>>[l]
    BY <2>6
  <2>7. \A k, l \in DOMAIN To_Close(i) : k # l => To_Close(i)[k] # To_Close(i)[l]
    BY <2>2, <2>5, <2>6
  <2> QED
    BY <2>3, <2>4, <2>7
<1> QED
  BY <1>2, <1>3, <1>4

(* The programs that the shell waits for have been started.                *)
LEMMA WaitedRange ==
  ASSUME Plan, NEW i \in Waited
  PROVE  /\ Count_Programs \in Nat /\ Len(sh.handles) \in Nat
         /\ i \in Count_Programs - Len(sh.handles) + 1 .. Count_Programs
         /\ i \in 1 .. Count_Programs
         /\ sh.pc \in {"join", "clone", "wait", "cancel"}
<1>1. Count_Programs \in Nat /\ Len(sh.handles) \in Nat /\ Len(sh.handles) <= Count_Programs
  <2>1. \A S : sh.handles \in Seq(S) => Len(sh.handles) \in Nat
    OBVIOUS
  <2> QED
    BY <2>1 DEF Plan, Count_Programs
<1>2. CASE sh.pc = "join"
  <2>1. Len(sh.handles) = 1 /\ Count_Programs = 1
    BY <1>2 DEF Plan
  <2> QED
    BY <1>2, <2>1 DEF Waited
<1>3. CASE sh.pc # "join"
  <2>1. i \in sh.left
    BY <1>3 DEF Waited
  <2>2. sh.pc \in {"clone", "wait", "cancel"}
    BY <2>1 DEF Plan
  <2>3. i \in Count_Programs - Len(sh.handles) + 1 .. Count_Programs
    <3>1. CASE sh.pc = "clone"
      BY <2>1, <3>1 DEF Plan
    <3>2. CASE sh.pc = "wait"
      <4>1. Len(sh.handles) = Count_Programs /\ sh.left \subseteq 1 .. Count_Programs
        BY <3>2 DEF Plan
      <4> QED
        BY <1>1, <2>1, <4>1
    <3>3. CASE sh.pc = "cancel"
      BY <2>1, <3>3 DEF Plan
    <3> QED
      BY <2>2, <3>1, <3>2, <3>3
  <2> QED
    BY <1>1, <2>2, <2>3
<1> QED
  BY <1>2, <1>3

(* A program that runs has been started by the command.                    *)
LEMMA Started ==
  ASSUME IInv, NEW p \in DOMAIN prog, Clean
  PROVE  prog[p].name # "shutdown"
<1>1. PICK i \in Waited : p = Handle_Of(i) /\ prog[p].name = Word(sh.programs[i].name)
  BY DEF IInv, Threads
<1>2. i \in Count_Programs - Len(sh.handles) + 1 .. Count_Programs
  BY WaitedRange DEF IInv
<1> QED
  BY <1>1, <1>2 DEF Clean, Ran

(* The handles that a program has been given are in the table, and nobody  *)
(* but the shell may close them.                                           *)
LEMMA InUse ==
  ASSUME IInv, NEW p \in DOMAIN prog, Clean
  PROVE  /\ StdIn(p) \in DOMAIN os.files \ Owns
         /\ StdOut(p) \in DOMAIN os.files \ Owns
         /\ StdIn(p) \in DOMAIN job.before.files \cup Outstanding
         /\ StdOut(p) \in DOMAIN job.before.files \cup Outstanding
<1>1. PICK i \in Waited : p = Handle_Of(i)
  BY DEF IInv, Threads
<1>2. StdIn(p) = Input_Of(i) /\ StdOut(p) = Output_Of(i)
  BY <1>1 DEF IInv, Threads, StdIn, StdOut
<1>3. sh.pc # "off"
  BY <1>1 DEF IInv, Plan, Waited
<1>4. Lost = {}
  BY DEF Clean, Lost, TerminalClosed
<1>5. \A h \in DOMAIN job.before.files \cup Outstanding : h \in DOMAIN os.files \ Owns
  BY <1>3, <1>4 DEF IInv, Accounted, Orderly
<1>6. Kb \in DOMAIN job.before.files /\ Tty \in DOMAIN job.before.files
  BY DEF IInv, Wired, Clean
<1>7. Input_Of(i) \in DOMAIN job.before.files \cup Outstanding
      /\ Output_Of(i) \in DOMAIN job.before.files \cup Outstanding
  <2>0. /\ Count_Programs \in Nat /\ Len(sh.handles) \in Nat /\ sh.pipes \in Seq(Handle)
        /\ job.went = "done" /\ ~GaveUp
    BY DEF IInv, Plan, Count_Programs, Clean, GaveUp
  <2>1. CASE sh.pc = "join"
    BY <1>6, <2>0, <2>1 DEF IInv, Plan, Wired, Waited, Input_Of, Output_Of, Pipeline, Count_Programs
  <2>4. i \in 1 .. Count_Programs
    BY WaitedRange DEF IInv
  <2>5. /\ sh.first_in \in {Kb} \cup Wires
        /\ sh.last_out \in {Tty} \cup Wires
        /\ \A k \in 1 .. Len(sh.pipes) : sh.pipes[k] \in Wires
    BY <2>0 DEF IInv, Wired, Wires, ToSet
  <2>6. sh.pc \in {"clone", "wait"} => Len(sh.pipes) = 2 * (Count_Programs - 1)
    BY DEF IInv, Wired, Pipeline
  <2>2. CASE sh.pc = "clone"
    <3>1. Outstanding = Wires
      BY <2>2 DEF Outstanding
    <3> QED
      BY <1>6, <2>0, <2>2, <2>4, <2>5, <2>6, <3>1 DEF Input_Of, Output_Of
  <2>3. CASE sh.pc = "wait"
    <3>1. i \in sh.left
      BY <2>3 DEF Waited
    <3>2. /\ ToSet(To_Close(i)) \subseteq Outstanding
          /\ sh.close_last => sh.last_out \in Outstanding
      BY <2>0, <2>3, <3>1 DEF Outstanding
    <3>3. /\ sh.first_in # Kb <=> FileIn
          /\ ~sh.close_last => sh.last_out = Tty
      BY <2>3 DEF IInv, Wired, Pipeline
    <3>4. ToSet(To_Close(i)) = Ends(i)
      BY <2>0, <2>3, <2>4, <2>6, ToCloseIs DEF IInv, Wired
    <3>5. 2 * (i - 1) = 2 * i - 2 /\ (i # 1 => i > 1) /\ (i # Count_Programs => i < Count_Programs)
      BY <2>0, <2>4
    <3> QED
      BY <1>6, <3>2, <3>3, <3>4, <3>5 DEF Input_Of, Output_Of, Ends
  <2> QED
    BY <1>1, <2>0, <2>1, <2>2, <2>3 DEF IInv, Plan, Waited, Clean
<1> QED
  BY <1>2, <1>5, <1>7

-----------------------------------------------------------------------------
(* A step of a program keeps the invariant                                 *)

(* The list of processes begins with the shell.                            *)
LEMMA ShellFirst ==
  ASSUME IsFiniteSet(DOMAIN os.pcb), DOMAIN os.pcb \subseteq Nat \ {0}, ShellPid \in DOMAIN os.pcb
  PROVE  Head(Processes(os)) = ShellPid
<1> DEFINE S == DOMAIN os.pcb
           Under(pid) == {q \in S : q < pid}
<1>1. Cardinality(S) \in Nat /\ 1 \in 1 .. Cardinality(S)
  <2>1. Cardinality(S) \in Nat /\ Cardinality(S) # 0
    BY FS_CardinalityType, FS_EmptySet
  <2> QED
    BY <2>1
<1>2. Head(Processes(os)) = CHOOSE pid \in S : Cardinality(Under(pid)) = 1 - 1
  <2> DEFINE f == [i \in 1 .. Cardinality(S) |-> CHOOSE pid \in S : Cardinality(Under(pid)) = i - 1]
  <2>1. Processes(os) = f
    BY DEF Processes
  <2>2. f[1] = CHOOSE pid \in S : Cardinality(Under(pid)) = 1 - 1
    BY <1>1
  <2>3. Head(f) = f[1]
    BY DEF Head
  <2> QED
    BY <2>1, <2>2, <2>3
<1>3. \A pid \in S : IsFiniteSet(Under(pid))
  BY FS_Subset
<1>4. \A pid \in S : Cardinality(Under(pid)) = 0 <=> Under(pid) = {}
  BY <1>3, FS_EmptySet
<1>5. Under(ShellPid) = {}
  BY DEF ShellPid
<1>6. \A pid \in S : Under(pid) = {} => pid = ShellPid
  BY DEF ShellPid
<1>7. \E pid \in S : Cardinality(Under(pid)) = 1 - 1
  BY <1>4, <1>5
<1> HIDE DEF Under, S
<1>8. Head(Processes(os)) \in S /\ Cardinality(Under(Head(Processes(os)))) = 0
  BY <1>2, <1>7
<1> QED
  BY <1>4, <1>6, <1>8

(* While a program runs the shell does, as another process.                *)
LEMMA NotOff ==
  ASSUME IInv, NEW p \in DOMAIN prog
  PROVE  sh.pc # "off" /\ p \in DOMAIN os.pcb /\ p # ShellPid /\ ShellPid \in DOMAIN os.pcb
<1>1. PICK i \in Waited : p = Handle_Of(i)
  BY DEF IInv, Threads
<1>2. sh.pc # "off" /\ Handle_Of(i) # ShellPid
  BY WaitedRange DEF IInv, Threads
<1> QED
  BY <1>1, <1>2 DEF IInv, Threads

(* What a step of a program that stays leaves of the tables of processes   *)
(* and threads.                                                            *)
LEMMA BesideShapes ==
  ASSUME IInv, NEW p \in DOMAIN prog, Beside(p), os'.pcb = os.pcb, KernelOK', UNCHANGED <<sh, job>>
  PROVE  Shapes' /\ Plan' /\ Wired' /\ Threads'
<1>1. Shapes'
  <2>1. \A q \in DOMAIN prog' : Begun(prog'[q])
    BY DEF IInv, Shapes, Beside, Like
  <2> QED
    BY <2>1 DEF IInv, Shapes
<1>2. Plan' /\ Wired' /\ Waited' = Waited
  BY Locals DEF IInv
<1>3. Threads'
  <2>1. \A i : Handle_Of(i)' = Handle_Of(i) /\ Input_Of(i)' = Input_Of(i) /\ Output_Of(i)' = Output_Of(i)
    BY DEF Handle_Of, Input_Of, Output_Of, Count_Programs
  <2>2. ASSUME NEW q \in DOMAIN prog'
        PROVE  /\ os'.pcb[q].status = "Running" /\ Owning(prog'[q])
               /\ \E i \in Waited : q = Handle_Of(i) /\ prog'[q].name = Word(sh.programs[i].name)
    BY DEF IInv, Threads, Beside, Like
  <2> QED
    BY <1>2, <2>1, <2>2 DEF IInv, Threads
<1> QED
  BY <1>1, <1>2, <1>3

LEMMA AloneShapes ==
  ASSUME IInv, NEW p \in DOMAIN prog, Alone(p), os'.pcb = os.pcb, KernelOK', UNCHANGED <<sh, job>>
  PROVE  Shapes' /\ Plan' /\ Wired' /\ Threads'
<1>1. Beside(p)
  BY DEF IInv, Shapes, Threads, Alone, Beside, Like
<1> QED
  BY <1>1, BesideShapes

(* The fields of the records stay what they are.                           *)
LEMMA KeptOK ==
  ASSUME KernelOK, Kept(os, os')
  PROVE  KernelOK'
BY DEF KernelOK, Kept

(* A program that reads, writes or computes keeps the invariant.           *)
LEMMA ContinuingHolds ==
  ASSUME IInv, NEW p \in DOMAIN prog, Continuing(p), UNCHANGED <<sh, job>>
  PROVE  IInv'
<1>1. Shapes' /\ Plan' /\ Wired' /\ Threads'
  BY KeptOK, AloneShapes DEF Continuing, Kept, IInv, Shapes
<1>2. /\ Outstanding' = Outstanding /\ Lost' = Lost /\ Wires' = Wires /\ Clean' = Clean
      /\ LeavesLast' = LeavesLast /\ GaveUp' = GaveUp
  BY Locals DEF IInv
<1>3. \A q \in DOMAIN prog : prog'[q].own = prog[q].own
  BY DEF Continuing, Alone
<1>4. Owns' = Owns
  BY <1>3 DEF Owns, Continuing, Alone
<1>5. AboutToClose => AboutToClose'
  <2>1. Head(Processes(os)) = ShellPid
    BY NotOff, ShellFirst DEF IInv, Shapes
  <2> SUFFICES ASSUME NEW q \in DOMAIN prog, prog[q].name = "shutdown",
                      prog[q].pc = "start" \/ (prog[q].pc = "kill" /\ Head(prog[q].todo) = ShellPid)
               PROVE  AboutToClose'
    BY DEF AboutToClose
  <2>2. /\ q \in DOMAIN prog' /\ prog'[q].name = "shutdown"
        /\ prog'[q].pc = "start" \/ (prog'[q].pc = "kill" /\ Head(prog'[q].todo) = ShellPid)
    BY <2>1 DEF Continuing, Alone
  <2> QED
    BY <2>2 DEF AboutToClose
<1>6. Accounted'
  BY <1>2, <1>4, <1>5 DEF IInv, Accounted, Continuing, Kept, Same
<1>7. ASSUME Clean, NEW q \in DOMAIN prog
      PROVE  /\ Same(Denoted(StdIn(q)), prog[q].given[1])' /\ Same(Denoted(StdOut(q)), prog[q].given[2])'
  <2>1. StdIn(q)' = StdIn(q) /\ StdOut(q)' = StdOut(q) /\ prog'[q].given = prog[q].given
    BY DEF StdIn, StdOut, Continuing, Kept, Alone
  <2>2. StdIn(q) \in DOMAIN os.files /\ StdOut(q) \in DOMAIN os.files
    BY <1>7, InUse
  <2>3. Same(Denoted(StdIn(q)), prog[q].given[1]) /\ Same(Denoted(StdOut(q)), prog[q].given[2])
    BY <1>7, NotOff DEF IInv, Orderly
  <2> QED
    BY <2>1, <2>2, <2>3 DEF Same, Denoted, Continuing, Kept
<1>8. Orderly'
  <2>1. \A i : To_Close(i)' = To_Close(i)
    BY DEF To_Close, Count_Programs
  <2>2. DOMAIN prog' = DOMAIN prog /\ DOMAIN os'.files = DOMAIN os.files
    BY DEF Continuing, Alone, Kept
  <2> QED
    BY <1>2, <1>3, <1>4, <1>7, <2>1, <2>2 DEF IInv, Orderly
<1> QED
  BY <1>1, <1>6, <1>8 DEF IInv

(* A handle that a program opens is its own: it was nobody's before.       *)
LEMMA OpeningHolds ==
  ASSUME IInv, NEW p \in DOMAIN prog, NEW h \in Handle, Opening(p, h), UNCHANGED <<sh, job>>
  PROVE  IInv'
<1>0. /\ DOMAIN os' = Kernel /\ h \notin DOMAIN os.files /\ os'.last = h /\ os'.pcb = os.pcb
      /\ DOMAIN os'.files = DOMAIN os.files \cup {h}
      /\ \A k \in DOMAIN os.files : os'.files[k] = os.files[k]
      /\ DOMAIN os'.files[h] = FileFields
  BY DEF Opening, Added
<1>1. Shapes' /\ Plan' /\ Wired' /\ Threads'
  <2>1. KernelOK'
    BY <1>0 DEF IInv, Shapes, KernelOK
  <2> QED
    BY <1>0, <2>1, AloneShapes DEF Opening
<1>2. /\ Outstanding' = Outstanding /\ Lost' = Lost /\ Wires' = Wires /\ Clean' = Clean
      /\ LeavesLast' = LeavesLast /\ GaveUp' = GaveUp
  BY Locals DEF IInv
<1>3. /\ DOMAIN prog' = DOMAIN prog
      /\ \A q \in DOMAIN prog : prog'[q].own = IF q = p THEN {h} ELSE prog[q].own
      /\ prog[p].own = {}
  BY DEF Opening, Alone
<1>4. Owns' = Owns \cup {h}
  BY <1>3 DEF Owns
<1>5. AboutToClose => AboutToClose'
  BY DEF AboutToClose, Opening, Alone
<1>6. Accounted'
  BY <1>0, <1>2, <1>4, <1>5 DEF IInv, Accounted, Same
<1>7. ASSUME Clean, NEW q \in DOMAIN prog
      PROVE  /\ Same(Denoted(StdIn(q)), prog[q].given[1])' /\ Same(Denoted(StdOut(q)), prog[q].given[2])'
  <2>1. StdIn(q)' = StdIn(q) /\ StdOut(q)' = StdOut(q) /\ prog'[q].given = prog[q].given
    BY <1>0 DEF StdIn, StdOut, Opening, Alone
  <2>2. StdIn(q) \in DOMAIN os.files /\ StdOut(q) \in DOMAIN os.files
    BY <1>7, InUse
  <2>3. Same(Denoted(StdIn(q)), prog[q].given[1]) /\ Same(Denoted(StdOut(q)), prog[q].given[2])
    BY <1>7, NotOff DEF IInv, Orderly
  <2> QED
    BY <1>0, <2>1, <2>2, <2>3 DEF Same, Denoted
<1>8. Orderly'
  <2>1. \A i : To_Close(i)' = To_Close(i)
    BY DEF To_Close, Count_Programs
  <2>2. ASSUME Clean PROVE Orderly'
    <3>1. /\ Outstanding \subseteq DOMAIN os.files
          /\ Owns \subseteq DOMAIN os.files /\ Owns \cap Outstanding = {}
          /\ \A q, r \in DOMAIN prog : q # r => prog[q].own \cap prog[r].own = {}
      BY <2>2, NotOff DEF IInv, Orderly
    <3>2. \A q \in DOMAIN prog : prog[q].own \subseteq DOMAIN os.files
      BY <3>1 DEF Owns
    <3>3. \A q, r \in DOMAIN prog' : q # r => prog'[q].own \cap prog'[r].own = {}
      BY <1>0, <1>3, <3>1, <3>2
    <3>4. /\ Outstanding' \subseteq DOMAIN os'.files
          /\ Owns' \subseteq DOMAIN os'.files /\ Owns' \cap Outstanding' = {}
      BY <1>0, <1>2, <1>4, <3>1
    <3> QED
      BY <1>3, <1>7, <2>1, <2>2, <3>3, <3>4, NotOff DEF IInv, Orderly
  <2> QED
    BY <1>2, <2>2 DEF Orderly
<1> QED
  BY <1>1, <1>6, <1>8 DEF IInv

(* A program closes what it owns, and that is nobody else's.               *)
LEMMA ClosingHolds ==
  ASSUME IInv, NEW p \in DOMAIN prog, NEW h, Closing(p, h), UNCHANGED <<sh, job>>
  PROVE  IInv'
<1>0. /\ DOMAIN os' = Kernel /\ os'.last = os.last /\ os'.pcb = os.pcb
      /\ DOMAIN os'.files = DOMAIN os.files \ {h}
      /\ \A k \in DOMAIN os.files \ {h} : os'.files[k] = os.files[k]
  BY DEF Closing, Closes, Removed, IInv, Shapes, KernelOK
<1>1. Shapes' /\ Plan' /\ Wired' /\ Threads'
  <2>1. KernelOK'
    BY <1>0 DEF IInv, Shapes, KernelOK
  <2> QED
    BY <1>0, <2>1, AloneShapes DEF Closing
<1>2. /\ Outstanding' = Outstanding /\ Lost' = Lost /\ Wires' = Wires /\ Clean' = Clean
      /\ LeavesLast' = LeavesLast /\ GaveUp' = GaveUp
  BY Locals DEF IInv
<1>3. /\ DOMAIN prog' = DOMAIN prog
      /\ \A q \in DOMAIN prog : prog'[q].own = IF q = p THEN {} ELSE prog[q].own
      /\ prog[p].own = {h}
  BY DEF Closing, Alone
<1>4. Owns' \subseteq Owns /\ Owns \subseteq Owns' \cup {h} /\ h \in Owns
  BY <1>3 DEF Owns
<1>5. AboutToClose => AboutToClose'
  BY DEF AboutToClose, Closing, Alone
<1>6. Accounted'
  <2> SUFFICES ASSUME sh.pc # "off" PROVE Accounted'
    BY DEF Accounted
  <2>1. \A k \in DOMAIN os'.files :
          k \in (DOMAIN job.before.files \ Lost) \cup Outstanding \cup Owns' \/ (k = Kb /\ AboutToClose')
    BY <1>0, <1>4, <1>5 DEF IInv, Accounted
  <2>2. \A k \in DOMAIN job.before.files \ Lost :
          k \in DOMAIN os'.files /\ Same(os'.files[k], job.before.files[k]) /\ k \notin Owns'
    BY <1>0, <1>4 DEF IInv, Accounted
  <2>3. sh.pc \in {"create", "output"} \/ GaveUp => Wires \subseteq DOMAIN os'.files
    <3>1. CASE sh.pc \in {"create", "output"} \/ GaveUp
      <4>1. Waited = {}
        BY <3>1 DEF IInv, Plan, Waited, GaveUp
      <4> QED
        BY <4>1 DEF IInv, Threads
    <3> QED
      BY <3>1
  <2> QED
    BY <1>0, <1>2, <1>4, <2>1, <2>2, <2>3 DEF IInv, Accounted
<1>7. ASSUME Clean, NEW q \in DOMAIN prog
      PROVE  /\ Same(Denoted(StdIn(q)), prog[q].given[1])' /\ Same(Denoted(StdOut(q)), prog[q].given[2])'
  <2>1. StdIn(q)' = StdIn(q) /\ StdOut(q)' = StdOut(q) /\ prog'[q].given = prog[q].given
    BY <1>0 DEF StdIn, StdOut, Closing, Alone
  <2>2. StdIn(q) \in DOMAIN os.files \ {h} /\ StdOut(q) \in DOMAIN os.files \ {h}
    BY <1>4, <1>7, InUse
  <2>3. Same(Denoted(StdIn(q)), prog[q].given[1]) /\ Same(Denoted(StdOut(q)), prog[q].given[2])
    BY <1>7, NotOff DEF IInv, Orderly
  <2> QED
    BY <1>0, <2>1, <2>2, <2>3 DEF Same, Denoted
<1>8. Orderly'
  <2>1. \A i : To_Close(i)' = To_Close(i)
    BY DEF To_Close, Count_Programs
  <2>2. ASSUME Clean PROVE Orderly'
    <3>1. /\ Outstanding \subseteq DOMAIN os.files
          /\ Owns \subseteq DOMAIN os.files /\ Owns \cap Outstanding = {}
          /\ \A q, r \in DOMAIN prog : q # r => prog[q].own \cap prog[r].own = {}
      BY <2>2, NotOff DEF IInv, Orderly
    <3>2. h \notin Owns'
      BY <1>3, <3>1 DEF Owns
    <3>3. \A q, r \in DOMAIN prog' : q # r => prog'[q].own \cap prog'[r].own = {}
      BY <1>3, <3>1
    <3>4. /\ Outstanding' \subseteq DOMAIN os'.files
          /\ Owns' \subseteq DOMAIN os'.files /\ Owns' \cap Outstanding' = {}
      BY <1>0, <1>2, <1>4, <3>1, <3>2
    <3> QED
      BY <1>3, <1>7, <2>1, <2>2, <3>3, <3>4, NotOff DEF IInv, Orderly
  <2> QED
    BY <1>2, <2>2 DEF Orderly
<1> QED
  BY <1>1, <1>6, <1>8 DEF IInv

(* A shutdown closes what is not part of the promise.                      *)
LEMMA KillingHolds ==
  ASSUME IInv, NEW p \in DOMAIN prog, NEW h, Killing(p, h), UNCHANGED <<sh, job>>
  PROVE  IInv'
<1>0. /\ DOMAIN os' = Kernel /\ os'.last = os.last /\ os'.pcb = os.pcb
      /\ DOMAIN os'.files = DOMAIN os.files \ {h}
      /\ \A k \in DOMAIN os.files \ {h} : os'.files[k] = os.files[k]
  BY DEF Killing, Closes, Removed, IInv, Shapes, KernelOK
<1>1. Shapes' /\ Plan' /\ Wired' /\ Threads'
  <2>1. KernelOK'
    BY <1>0 DEF IInv, Shapes, KernelOK
  <2> QED
    BY <1>0, <2>1, BesideShapes DEF Killing
<1>2. /\ Outstanding' = Outstanding /\ Lost' = Lost /\ Wires' = Wires /\ Clean' = Clean
      /\ LeavesLast' = LeavesLast /\ GaveUp' = GaveUp
  BY Locals DEF IInv
<1>3. /\ DOMAIN prog' = DOMAIN prog
      /\ \A q \in DOMAIN prog : prog'[q].own = prog[q].own
  BY DEF Killing, Beside, Like
<1>4. Owns' = Owns
  BY <1>3 DEF Owns
<1>5. ~Clean
  BY Started DEF Killing
<1>6. PICK i \in Waited : p = Handle_Of(i) /\ prog[p].name = Word(sh.programs[i].name)
  BY DEF IInv, Threads
<1>7. i \in Count_Programs - Len(sh.handles) + 1 .. Count_Programs /\ i \in 1 .. Count_Programs
        /\ sh.pc \in {"join", "clone", "wait", "cancel"}
  BY WaitedRange DEF IInv
<1>8. Kb \in Lost
  BY <1>6, <1>7 DEF Lost, Ran, Killing
<1>9. h = Kb \/ h \in ToSet(sh.pipes) \/ (h = sh.first_in /\ h # Kb)
  <2>1. PICK j \in {ShellPid} \cup {Handle_Of(k) : k \in Waited} : h = os.pcb[j].std_in
    BY NotOff DEF IInv, Threads, Killing
  <2>2. CASE j = ShellPid
    BY <2>1, <2>2, NotOff DEF IInv, Threads
  <2>3. ASSUME NEW k \in Waited, j = Handle_Of(k)
        PROVE  h = Kb \/ h \in ToSet(sh.pipes) \/ h = sh.first_in
    <3>1. h = Input_Of(k)
      BY <2>1, <2>3 DEF IInv, Threads
    <3>2. k \in 1 .. Count_Programs /\ Count_Programs \in Nat
      BY WaitedRange DEF IInv
    <3>3. CASE sh.pc = "join"
      BY <3>1, <3>3 DEF Input_Of, Waited
    <3>4. CASE sh.pc # "join"
      <4>1. Len(sh.pipes) = 2 * (Count_Programs - 1) /\ sh.pipes \in Seq(Handle)
        BY <1>7, <3>4 DEF IInv, Plan, Wired, Pipeline
      <4>2. k # 1 => 2 * (k - 1) \in 1 .. Len(sh.pipes)
        BY <3>2, <4>1
      <4> QED
        BY <3>1, <4>1, <4>2 DEF Input_Of, ToSet
    <3> QED
      BY <3>3, <3>4
  <2> QED
    BY <2>1, <2>2, <2>3
<1>10. h \notin DOMAIN job.before.files \ Lost
  BY <1>8, <1>9 DEF IInv, Wired, Wires
<1>11. AboutToClose => AboutToClose' \/ h = Kb
  <2> SUFFICES ASSUME NEW q \in DOMAIN prog, prog[q].name = "shutdown",
                      prog[q].pc = "start" \/ (prog[q].pc = "kill" /\ Head(prog[q].todo) = ShellPid)
               PROVE  AboutToClose' \/ h = Kb
    BY DEF AboutToClose
  <2>1. CASE q = p
    BY <2>1, NotOff DEF Killing, IInv, Threads
  <2>2. CASE q # p
    BY <2>2 DEF AboutToClose, Killing, Beside, Like
  <2> QED
    BY <2>1, <2>2
<1>12. Accounted'
  <2> SUFFICES ASSUME sh.pc # "off" PROVE Accounted'
    BY DEF Accounted
  <2>1. \A k \in DOMAIN os'.files :
          k \in (DOMAIN job.before.files \ Lost) \cup Outstanding \cup Owns' \/ (k = Kb /\ AboutToClose')
    BY <1>0, <1>4, <1>11 DEF IInv, Accounted
  <2>2. \A k \in DOMAIN job.before.files \ Lost :
          k \in DOMAIN os'.files /\ Same(os'.files[k], job.before.files[k]) /\ k \notin Owns'
    BY <1>0, <1>4, <1>10 DEF IInv, Accounted
  <2>3. ~(sh.pc \in {"create", "output"} \/ GaveUp)
    BY <1>7 DEF IInv, Plan, GaveUp
  <2>4. sh.close_last => h # sh.last_out
    BY <1>9 DEF IInv, Wired, Wires
  <2>5. sh.close_last /\ (sh.pc \in {"clone", "wait"} \/ (job.went = "cancelled" /\ LeavesLast)) =>
          sh.last_out \in DOMAIN os'.files \ (Owns' \cup ToSet(sh.closing))
    BY <1>0, <1>4, <2>4 DEF IInv, Accounted
  <2> QED
    BY <1>2, <2>1, <2>2, <2>3, <2>5 DEF Accounted
<1> QED
  BY <1>1, <1>2, <1>5, <1>12 DEF IInv, Orderly

(* A program that ends owns nothing any more.                              *)
LEMMA FinishingHolds ==
  ASSUME IInv, NEW p \in DOMAIN prog, Finishing(p), UNCHANGED <<sh, job>>
  PROVE  IInv'
<1>0. /\ DOMAIN os' = Kernel /\ os'.last = os.last /\ os'.files = os.files
      /\ DOMAIN os'.pcb = DOMAIN os.pcb
      /\ \A q \in DOMAIN os.pcb :
           /\ DOMAIN os'.pcb[q] = DOMAIN os.pcb[q]
           /\ os'.pcb[q].std_in = os.pcb[q].std_in /\ os'.pcb[q].std_out = os.pcb[q].std_out
           /\ q # p => os'.pcb[q].status = os.pcb[q].status
  <2> DEFINE r == [os.pcb[p] EXCEPT !.status = "Zombie"]
             c == [os.pcb EXCEPT ![p] = r]
  <2>1. os' = [os EXCEPT !.pcb = c]
    BY DEF Finishing
  <2>2. p \in DOMAIN os.pcb /\ DOMAIN os.pcb[p] = {"name", "std_in", "std_out", "status", "wd"}
    BY NotOff DEF IInv, Shapes
  <2>3. DOMAIN r = DOMAIN os.pcb[p] /\ r.std_in = os.pcb[p].std_in /\ r.std_out = os.pcb[p].std_out
    BY <2>2
  <2> HIDE DEF r
  <2>4. DOMAIN c = DOMAIN os.pcb /\ \A q \in DOMAIN os.pcb : c[q] = IF q = p THEN r ELSE os.pcb[q]
    BY <2>2
  <2> HIDE DEF c
  <2>5. DOMAIN os' = Kernel /\ os'.last = os.last /\ os'.files = os.files /\ os'.pcb = c
    BY <2>1 DEF IInv, Shapes, KernelOK, Kernel
  <2> QED
    BY <2>3, <2>4, <2>5
<1>1. /\ DOMAIN prog' = DOMAIN prog \ {p}
      /\ \A q \in DOMAIN prog \ {p} : prog'[q] = prog[q]
      /\ prog[p].own = {} /\ prog[p].pc = "end"
  BY DEF Finishing
<1>2. /\ Outstanding' = Outstanding /\ Lost' = Lost /\ Wires' = Wires /\ Clean' = Clean
      /\ LeavesLast' = LeavesLast /\ GaveUp' = GaveUp /\ Plan' /\ Wired' /\ Waited' = Waited
  BY Locals DEF IInv
<1>3. \A i : /\ Handle_Of(i)' = Handle_Of(i) /\ Input_Of(i)' = Input_Of(i) /\ Output_Of(i)' = Output_Of(i)
             /\ To_Close(i)' = To_Close(i)
  BY DEF Handle_Of, Input_Of, Output_Of, To_Close, Count_Programs
<1>4. Shapes'
  BY <1>0, <1>1 DEF IInv, Shapes, KernelOK
<1>5. Threads'
  <2>1. ASSUME NEW q \in DOMAIN prog'
        PROVE  /\ os'.pcb[q].status = "Running" /\ Owning(prog'[q])
               /\ \E i \in Waited : q = Handle_Of(i) /\ prog'[q].name = Word(sh.programs[i].name)
    BY <1>0, <1>1, NotOff DEF IInv, Threads
  <2>2. sh.pc # "off" => ShellPid \in DOMAIN os.pcb
    BY DEF IInv, Threads
  <2>3. \A i \in Waited : Handle_Of(i) \in DOMAIN os.pcb
    BY NotOff DEF IInv, Threads
  <2> QED
    BY <1>0, <1>2, <1>3, <2>1, <2>2, <2>3 DEF IInv, Threads
<1>6. Owns' = Owns
  BY <1>1 DEF Owns
<1>7. AboutToClose => AboutToClose'
  BY <1>1 DEF AboutToClose
<1>8. Accounted'
  BY <1>0, <1>2, <1>6, <1>7 DEF IInv, Accounted
<1>9. ASSUME Clean, NEW q \in DOMAIN prog'
      PROVE  /\ Same(Denoted(StdIn(q)), prog[q].given[1])' /\ Same(Denoted(StdOut(q)), prog[q].given[2])'
  <2>1. StdIn(q)' = StdIn(q) /\ StdOut(q)' = StdOut(q) /\ prog'[q].given = prog[q].given
    BY <1>0, <1>1, NotOff DEF StdIn, StdOut
  <2>2. Same(Denoted(StdIn(q)), prog[q].given[1]) /\ Same(Denoted(StdOut(q)), prog[q].given[2])
    BY <1>1, <1>9, NotOff DEF IInv, Orderly
  <2> QED
    BY <1>0, <2>1, <2>2 DEF Same, Denoted
<1>10. Orderly'
  BY <1>0, <1>1, <1>2, <1>3, <1>6, <1>9, NotOff DEF IInv, Orderly
<1> QED
  BY <1>2, <1>4, <1>5, <1>8, <1>10 DEF IInv

(* The step that does something undefined is the last one that the model   *)
(* follows.                                                                *)
LEMMA BreakingHolds ==
  ASSUME IInv, Breaking, UNCHANGED <<sh, job>>
  PROVE  IInv'
<1>1. os' = os /\ prog' = prog /\ sh' = sh /\ job' = job
  BY DEF Breaking
<1>2. /\ Outstanding' = Outstanding /\ Lost' = Lost /\ Wires' = Wires /\ Clean' = Clean
      /\ LeavesLast' = LeavesLast /\ GaveUp' = GaveUp /\ Plan' /\ Wired' /\ Waited' = Waited
  BY Locals DEF IInv
<1>3. \A i : /\ Handle_Of(i)' = Handle_Of(i) /\ Input_Of(i)' = Input_Of(i) /\ Output_Of(i)' = Output_Of(i)
             /\ To_Close(i)' = To_Close(i)
  BY <1>1 DEF Handle_Of, Input_Of, Output_Of, To_Close, Count_Programs
<1>4. Shapes'
  BY <1>1 DEF IInv, Shapes, KernelOK
<1>5. Threads'
  BY <1>1, <1>2, <1>3 DEF IInv, Threads
<1>6. Owns' = Owns /\ AboutToClose' = AboutToClose
  BY <1>1 DEF Owns, AboutToClose
<1>7. Accounted'
  BY <1>1, <1>2, <1>6 DEF IInv, Accounted
<1>8. \A q \in DOMAIN prog : StdIn(q)' = StdIn(q) /\ StdOut(q)' = StdOut(q)
  BY <1>1 DEF StdIn, StdOut
<1>9. \A h : Denoted(h)' = Denoted(h)
  BY <1>1 DEF Denoted
<1>10. Orderly'
  BY <1>1, <1>2, <1>3, <1>6, <1>8, <1>9 DEF IInv, Orderly, Denoted
<1> QED
  BY <1>2, <1>4, <1>5, <1>7, <1>10 DEF IInv

(* The steps of the programs keep the invariant.                           *)
LEMMA ProgramHolds ==
  ASSUME IInv, NEW p \in DOMAIN prog, ProgramStep(p)
  PROVE  IInv'
<1>1. Kinds(p)
  <2>1. /\ KernelOK /\ Begun(prog[p]) /\ Owning(prog[p]) /\ Step(p)
        /\ \A q \in DOMAIN prog : Begun(prog[q]) /\ Owning(prog[q])
    BY DEF IInv, Shapes, Threads, ProgramStep
  <2> QED
    BY <2>1, StepKinds
<1>2. UNCHANGED <<sh, job>>
  BY DEF ProgramStep
<1> QED
  BY <1>1, <1>2, BreakingHolds, ContinuingHolds, FinishingHolds, OpeningHolds, ClosingHolds, KillingHolds DEF Kinds

-----------------------------------------------------------------------------
(* The steps of the shell outside a pipeline                               *)

(* Where the shell is when it has no pipeline.                             *)
Quiet == {"prompt", "say", "exit"}

(* The fields of the shell that the invariant speaks of, but for its pc.   *)
SameButPc ==
  /\ DOMAIN sh' = DOMAIN Idle
  /\ sh'.programs = sh.programs /\ sh'.pipes = sh.pipes
  /\ sh'.first_in = sh.first_in /\ sh'.last_out = sh.last_out /\ sh'.close_last = sh.close_last
  /\ sh'.handles = sh.handles /\ sh'.left = sh.left /\ sh'.closing = sh.closing

(* The kernel keeps the files and, but for working directories, processes. *)
KernelKept ==
  /\ DOMAIN os' = Kernel /\ os'.last = os.last
  /\ DOMAIN os'.files = DOMAIN os.files
  /\ \A h \in DOMAIN os.files : DOMAIN os'.files[h] = DOMAIN os.files[h] /\ Same(os'.files[h], os.files[h])
  /\ DOMAIN os'.pcb = DOMAIN os.pcb
  /\ \A p \in DOMAIN os.pcb :
       /\ DOMAIN os'.pcb[p] = DOMAIN os.pcb[p]
       /\ os'.pcb[p].std_in = os.pcb[p].std_in /\ os'.pcb[p].std_out = os.pcb[p].std_out
       /\ os'.pcb[p].status = os.pcb[p].status

(* When the shell waits for nobody no program runs.                        *)
LEMMA NobodyWaited ==
  ASSUME IInv, Waited = {}
  PROVE  DOMAIN prog = {} /\ Owns = {} /\ ~AboutToClose
<1>1. DOMAIN prog = {}
  BY DEF IInv, Threads
<1> QED
  BY <1>1 DEF Owns, AboutToClose

(* The steps of the shell that touch no handle keep the invariant.         *)
LEMMA QuietHolds ==
  ASSUME IInv, sh.pc \in Quiet \cup {"cd"}, SameButPc, sh'.pc \in Quiet, KernelKept,
         UNCHANGED <<prog, job>>
  PROVE  IInv'
<1>0. prog' = prog /\ job' = job
  OBVIOUS
<1>1. Waited = {} /\ Waited' = {}
  BY DEF IInv, Plan, Waited, SameButPc, Quiet
<1>2. DOMAIN prog = {} /\ Owns = {} /\ ~AboutToClose /\ Owns' = {} /\ Owns = {}
  BY <1>0, <1>1, NobodyWaited DEF Owns
<1>3. /\ Wires' = Wires /\ LeavesLast' = LeavesLast /\ GaveUp' = GaveUp
      /\ Count_Programs' = Count_Programs /\ FileIn' = FileIn /\ FileOut' = FileOut
      /\ TerminalClosed' = TerminalClosed
  BY <1>0 DEF Wires, LeavesLast, GaveUp, FileIn, FileOut, Count_Programs, TerminalClosed, SameButPc
<1>4. Ran("shutdown")' = Ran("shutdown")
  BY DEF Ran, Count_Programs, SameButPc
<1>5. Lost' = Lost /\ Clean' = Clean
  BY <1>0, <1>3, <1>4 DEF Lost, Clean
<1>6. Outstanding' = Outstanding
  BY <1>0, <1>3 DEF Outstanding, SameButPc, Quiet
<1>7. Shapes'
  BY <1>0, <1>2 DEF IInv, Shapes, KernelOK, KernelKept, SameButPc
<1>8. Plan'
  BY <1>0, <1>3 DEF IInv, Plan, Pipeline, SameButPc, Quiet
<1>9. Wired'
  BY <1>0, <1>3 DEF IInv, Wired, Pipeline, SameButPc, Quiet
<1>10. Threads'
  BY <1>0, <1>1, <1>2 DEF IInv, Threads, KernelKept, Quiet
<1>11. Accounted'
  BY <1>0, <1>2, <1>3, <1>5, <1>6 DEF IInv, Accounted, KernelKept, SameButPc, Same, Quiet
<1>12. Orderly'
  <2>1. (Outstanding = {} /\ sh.left = {} /\ sh.closing = <<>>) \/ ~Clean
    BY DEF IInv, Plan, Outstanding, Clean, GaveUp, Quiet, ToSet, Wires, Wired
  <2> QED
    BY <1>0, <1>2, <1>5, <1>6, <2>1 DEF Orderly, SameButPc
<1> QED
  BY <1>7, <1>8, <1>9, <1>10, <1>11, <1>12 DEF IInv

(* The shell leaves its loop when its input is closed.                     *)
LEMMA EndOfInputHolds ==
  ASSUME IInv, EndOfInput
  PROVE  IInv'
<1>1. /\ sh.pc = "prompt" /\ os' = os /\ prog' = prog /\ job' = job
      /\ sh' = [sh EXCEPT !.pc = "exit"]
  BY DEF EndOfInput, At, Calls
<1>2. SameButPc /\ sh'.pc = "exit"
  BY <1>1 DEF SameButPc, IInv, Shapes, Idle
<1>3. KernelKept
  BY <1>1 DEF KernelKept, IInv, Shapes, KernelOK, Same
<1> QED
  BY <1>1, <1>2, <1>3, QuietHolds DEF Quiet

(* A message of the shell changes no handle.                               *)
LEMMA SayHolds ==
  ASSUME IInv, Say
  PROVE  IInv'
<1> DEFINE w == Write_File(os, Tty, sh.say)
<1>1. sh.pc = "say" /\ job' = job
  BY DEF Say, At
<1>2. \/ Breaking /\ sh' = sh
      \/ /\ os' = w.os /\ prog' = prog
         /\ \E pc \in {"say", "prompt"} : \E text :
                sh' = [sh EXCEPT !.pc = pc, !.say = text]
  <2>1. \/ Breaking /\ sh' = sh
        \/ /\ os' = w.os /\ prog' = prog
           /\ \/ \E text : sh' = [sh EXCEPT !.say = text]
              \/ \E text : sh' = [sh EXCEPT !.pc = "prompt", !.say = text]
    <3> HIDE DEF w
    <3> QED
      BY DEF Say, Breaks, Breaking, Calls, w
  <2>2. \A text : [sh EXCEPT !.say = text] = [sh EXCEPT !.pc = "say", !.say = text]
    BY <1>1
  <2> QED
    BY <2>1, <2>2
<1>3. CASE Breaking /\ sh' = sh
  BY <1>1, <1>3, BreakingHolds
<1>4. ASSUME NEW pc \in {"say", "prompt"}, NEW text, sh' = [sh EXCEPT !.pc = pc, !.say = text],
             os' = w.os, prog' = prog
      PROVE  IInv'
  <2>1. SameButPc /\ sh'.pc = pc
    BY <1>4 DEF SameButPc, IInv, Shapes, Idle
  <2>2. Kept(os, os')
    BY <1>4, WriteKeeps DEF IInv, Shapes, KernelOK
  <2>3. KernelKept
    BY <2>2 DEF KernelKept, IInv, Shapes, KernelOK, Kept
  <2> QED
    BY <1>1, <1>4, <2>1, <2>3, QuietHolds DEF Quiet
<1> QED
  BY <1>2, <1>3, <1>4

(* The same for a step of the shell that does something undefined.         *)
LEMMA ShellBreaks ==
  ASSUME IInv, Breaks, UNCHANGED <<sh, job>>
  PROVE  IInv'
BY BreakingHolds DEF Breaks, Breaking

(* cd changes no handle.                                                   *)
LEMMA ChangeDirectoryHolds ==
  ASSUME IInv, ChangeDirectory
  PROVE  IInv'
<1> DEFINE set == Set_Working_Dir(os, ShellPid, sh.programs[1].data)
<1>0. sh.pc = "cd" /\ job' = job /\ ShellPid \in DOMAIN os.pcb /\ DOMAIN os = Kernel
  BY DEF ChangeDirectory, At, IInv, Threads, Shapes, KernelOK
<1>1. \/ Breaks /\ sh' = sh
      \/ set.error = "Success" /\ Calls(set.os, [sh EXCEPT !.pc = "prompt"])
      \/ Calls(os, [sh EXCEPT !.pc = "say", !.say = Message("Directory not found")[1]])
  BY DEF ChangeDirectory
<1>2. CASE Breaks /\ sh' = sh
  BY <1>0, <1>2, ShellBreaks
<1>3. CASE Calls(set.os, [sh EXCEPT !.pc = "prompt"])
  <2>1. SameButPc /\ sh'.pc = "prompt" /\ prog' = prog
    BY <1>3 DEF Calls, SameButPc, IInv, Shapes, Idle
  <2>2. os' = set.os
    BY <1>3 DEF Calls
  <2>3. KernelKept
    BY <1>0, <2>2, SetKeeps DEF KernelKept, Same
  <2> QED
    BY <1>0, <2>1, <2>3, QuietHolds DEF Quiet
<1>4. CASE Calls(os, [sh EXCEPT !.pc = "say", !.say = Message("Directory not found")[1]])
  <2>1. SameButPc /\ sh'.pc = "say" /\ prog' = prog /\ os' = os
    BY <1>4 DEF Calls, SameButPc, IInv, Shapes, Idle
  <2>2. KernelKept
    BY <2>1 DEF KernelKept, IInv, Shapes, KernelOK, Same
  <2> QED
    BY <1>0, <2>1, <2>2, QuietHolds DEF Quiet
<1> QED
  BY <1>1, <1>2, <1>3, <1>4

(* When the shell has ended there is no process.                           *)
LEMMA ExitHolds ==
  ASSUME IInv, Exit
  PROVE  IInv'
<1> DEFINE rest == [p \in DOMAIN os.pcb \ {ShellPid} |-> os.pcb[p]]
           ended == [os EXCEPT !.pcb = rest]
           one == Close_File(ended, Tty).os
           two == Close_File(one, Kb).os
<1>1. /\ sh.pc = "exit" /\ prog' = prog /\ job' = job /\ os' = two
      /\ sh' = [sh EXCEPT !.pc = "off"]
  BY DEF Exit, At, Calls
<1>2. /\ DOMAIN ended = Kernel /\ ended.files = os.files /\ ended.last = os.last /\ ended.pcb = rest
  BY DEF IInv, Shapes, KernelOK, Kernel
<1> HIDE DEF ended
<1>3. /\ DOMAIN one = Kernel /\ DOMAIN one.files \subseteq DOMAIN os.files
      /\ one.last = os.last /\ one.pcb = rest
      /\ \A h \in DOMAIN one.files : one.files[h] = os.files[h]
  BY <1>2, CloseRemoves DEF Removed
<1> HIDE DEF one
<1>4. /\ DOMAIN two = Kernel /\ DOMAIN two.files \subseteq DOMAIN os.files
      /\ two.last = os.last /\ two.pcb = rest
      /\ \A h \in DOMAIN two.files : two.files[h] = os.files[h]
  BY <1>3, CloseRemoves DEF Removed
<1> HIDE DEF two
<1>5. DOMAIN rest = {}
  BY <1>1 DEF IInv, Threads, Waited, Plan
<1>6. SameButPc /\ sh'.pc = "off"
  BY <1>1 DEF SameButPc, IInv, Shapes, Idle
<1>7. Waited = {} /\ Waited' = {}
  BY <1>1, <1>6 DEF IInv, Plan, Waited, SameButPc
<1>8. DOMAIN prog = {}
  BY <1>7, NobodyWaited
<1>9. Shapes'
  <2>1. IsFiniteSet({})
    BY FS_EmptySet
  <2> QED
    BY <1>1, <1>4, <1>5, <1>6, <1>8, <2>1 DEF IInv, Shapes, KernelOK, SameButPc
<1>10. /\ Wires' = Wires /\ LeavesLast' = LeavesLast /\ GaveUp' = GaveUp
      /\ Count_Programs' = Count_Programs /\ FileIn' = FileIn /\ FileOut' = FileOut
      /\ TerminalClosed' = TerminalClosed
  BY <1>1, <1>6 DEF Wires, LeavesLast, GaveUp, FileIn, FileOut, Count_Programs, TerminalClosed, SameButPc
<1>11. Plan'
  BY <1>1, <1>6, <1>10 DEF IInv, Plan, Pipeline, SameButPc
<1>12. Wired'
  BY <1>1, <1>6, <1>10 DEF IInv, Wired, Pipeline, SameButPc
<1>13. Threads' /\ Accounted' /\ Orderly'
  BY <1>1, <1>6, <1>7, <1>8 DEF Threads, Accounted, Orderly
<1> QED
  BY <1>9, <1>11, <1>12, <1>13 DEF IInv

(* What the shell is told to do with a line can be done.                   *)
Planned(turn) ==
  /\ Len(turn.programs) \in Nat
  /\ turn.pc \in {"prompt", "say", "cd", "exit", "call", "undefined", "create"}
  /\ turn.pc \in {"cd", "call"} => Len(turn.programs) = 1
  /\ turn.pc = "call" => turn.programs[1].input.type # "File" /\ Last(turn.programs).output.type # "File"
  /\ turn.pc = "create" =>
       Len(turn.programs) > 0 /\ (Len(turn.programs) > 1 => Last(turn.programs).input.type # "File")

(* It can for every line.                                                  *)
ParserPlans == \A line \in Typings : Planned(Turns[line])

(* Nothing ran before the first program is cloned.                         *)
LEMMA NothingRan ==
  ASSUME Len(sh.programs) \in Nat, sh.handles = <<>>, NEW name
  PROVE  ~Ran(name)
<1>1. Len(<<>>) = 0 /\ Count_Programs \in Nat
  BY DEF Count_Programs
<1>2. Count_Programs - Len(sh.handles) + 1 .. Count_Programs = {}
  BY <1>1
<1> QED
  BY <1>2 DEF Ran

(* A new command finds what the last one left, and what is left over is    *)
(* from then on something that it found.                                   *)
LEMMA ReadCommandHolds ==
  ASSUME IInv, ReadCommand, ParserPlans
  PROVE  IInv'
<1>0. PICK line \in Typings : Begins(line, Turns[line])
  BY DEF ReadCommand
<1> DEFINE turn == Turns[line]
<1>1. /\ job' = [command |-> line[1], glued |-> Glued(Entered(line)), went |-> "done",
                    before |-> [os EXCEPT !.tty = <<>>]]
      /\ sh' = [Idle EXCEPT !.commands = sh.commands + 1, !.programs = turn.programs,
                               !.say = turn.say,
                               !.pc = IF turn.pc = "undefined" THEN "prompt" ELSE turn.pc]
  BY <1>0 DEF Begins
<1>2. Planned(turn)
  BY <1>0 DEF ParserPlans
<1> HIDE DEF turn
<1>3. /\ sh.pc = "prompt" /\ Kb \in DOMAIN os.files /\ prog' = prog /\ os' = [os EXCEPT !.tty = <<>>]
  BY DEF ReadCommand, At
<1>4. /\ DOMAIN sh' = DOMAIN Idle
      /\ sh'.programs = turn.programs /\ sh'.pipes = <<>> /\ sh'.first_in = Kb /\ sh'.last_out = Tty
      /\ sh'.close_last = FALSE /\ sh'.handles = <<>> /\ sh'.left = {} /\ sh'.closing = <<>>
      /\ sh'.pc = IF turn.pc = "undefined" THEN "prompt" ELSE turn.pc
  BY <1>1 DEF Idle
<1>5. /\ DOMAIN job' = {"command", "glued", "before", "went"}
      /\ job'.went = "done" /\ job'.before = os'
  BY <1>1, <1>3
<1>6. /\ DOMAIN os' = Kernel /\ os'.files = os.files /\ os'.last = os.last /\ os'.pcb = os.pcb
  BY <1>3 DEF IInv, Shapes, KernelOK, Kernel
<1>7. DOMAIN prog = {}
  BY <1>3, NobodyWaited DEF IInv, Plan, Waited
<1>8. /\ Len(sh'.programs) \in Nat
      /\ sh'.pc \in {"prompt", "say", "cd", "exit", "call", "create"}
      /\ sh'.pc \in {"cd", "call"} => Len(sh'.programs) = 1
      /\ sh'.pc = "call" => ~FileIn' /\ ~FileOut'
      /\ sh'.pc = "create" =>
           Len(sh'.programs) > 0 /\ (Len(sh'.programs) > 1 => Last(sh'.programs).input.type # "File")
  BY <1>2, <1>4 DEF Planned, FileIn, FileOut
<1>9. <<>> \in Seq(Handle) /\ <<>> \in Seq(Nat) /\ Len(<<>>) = 0 /\ ToSet(<<>>) = {} /\ DOMAIN <<>> = {}
  BY ToSetFacts
<1>10. Waited' = {} /\ ~GaveUp' /\ Wires' = {} /\ ~LeavesLast' /\ Outstanding' = {} /\ ~Ran("shutdown")'
  <2>1. Waited' = {} /\ ~GaveUp' /\ Wires' = {} /\ ~LeavesLast'
    BY <1>4, <1>5, <1>8, <1>9 DEF Waited, GaveUp, Wires, LeavesLast
  <2>2. Outstanding' = {}
    BY <1>4, <1>5, <1>8, <1>9, <2>1 DEF Outstanding
  <2>3. \A i : ~(i \in Count_Programs' - Len(sh'.handles) + 1 .. Count_Programs')
    BY <1>4, <1>8, <1>9 DEF Count_Programs
  <2>4. ~Ran("shutdown")'
    BY <2>3 DEF Ran
  <2> QED
    BY <2>1, <2>2, <2>4
<1>11. Lost' = {} /\ Owns' = {} /\ ~AboutToClose'
  BY <1>3, <1>5, <1>7, <1>10 DEF Lost, TerminalClosed, Owns, AboutToClose
<1>12. Shapes'
  BY <1>3, <1>4, <1>5, <1>6, <1>7 DEF IInv, Shapes, KernelOK
<1>13. Plan'
  <2>1. Count_Programs' = Len(sh'.programs) /\ Len(sh'.handles) <= Count_Programs'
    BY <1>4, <1>8, <1>9 DEF Count_Programs
  <2> QED
    BY <1>4, <1>5, <1>8, <1>9, <1>10, <2>1 DEF Plan, Pipeline
<1>14. Wired'
  <2>1. Kb \in Handle /\ Tty \in Handle
    <3>1. Kb \in 0 .. Handles - 1 /\ Handles \in Nat
      BY <1>3, ShellAssumption DEF IInv, Shapes, KernelOK, Handle
    <3> QED
      BY <3>1 DEF Kb, Tty, Handle
  <2>2. Count_Programs' > 0 => \E m \in 0 .. Count_Programs' - 1 : 0 = 2 * m
    BY <1>8 DEF Count_Programs
  <2> QED
    BY <1>3, <1>4, <1>5, <1>6, <1>8, <1>9, <1>10, <2>1, <2>2 DEF Wired, Count_Programs, Pipeline, GaveUp
<1>15. Threads'
  BY <1>3, <1>4, <1>6, <1>7, <1>8, <1>10 DEF IInv, Threads, Plan, Waited
<1>16. Accounted'
  BY <1>4, <1>5, <1>6, <1>10, <1>11 DEF Accounted, Same
<1>17. Orderly'
  BY <1>3, <1>4, <1>7, <1>9, <1>10, <1>11 DEF Orderly
<1> QED
  BY <1>12, <1>13, <1>14, <1>15, <1>16, <1>17 DEF IInv

-----------------------------------------------------------------------------
(* What the shell is told to do                                            *)

(* The pipeline that the parser finds: its last program does not read from *)
(* a file, unless it is the only one.                                      *)
LEMMA ParsedHolds ==
  ASSUME NEW S, NEW input \in Seq(S)
  PROVE  LET programs == parse_programs(input).programs
         IN /\ Len(programs) \in Nat
            /\ programs # <<>> => Len(programs) > 0
            /\ Len(programs) > 1 => Last(programs).input.type # "File"
<1> DEFINE st == Scan(input)
           n == Len(st.programs)
           all == Assigns!Fold(st, st.programs, [i \in 1 .. n - 1 |-> i])
           cut == SubSeq(all, 1, st.actual)
           programs == parse_programs(input).programs
<1>1. Scanned(st)
  BY ScanHolds
<1>2. programs \in {<<>>, cut}
  <2> DEFINE Undefined(s) == \/ \E i \in DOMAIN s.programs : s.programs[i].name = <<>>
                             \/ s.error = <<>> /\ Len(s.programs) > 1 /\ s.actual = 0
             Parsed(s) ==
               [error |-> s.error,
                undefined |-> Undefined(s),
                programs |-> IF Undefined(s) \/ s.error # <<>> THEN <<>>
                             ELSE SubSeq(Assignments(s), 1, s.actual)]
  <2>0. parse_programs(input) = Given(Scan(input), Parsed)
    BY DEF parse_programs
  <2>3. Given(Scan(input), Parsed) = Parsed(Scan(input))
    <3> HIDE DEF Parsed
    <3> QED
      BY DEF Given
  <2>1. programs \in {<<>>, SubSeq(Assignments(st), 1, st.actual)}
    <3>1. parse_programs(input) = Parsed(st)
      BY <2>0, <2>3
    <3> HIDE DEF st
    <3>2. Parsed(st).programs \in {<<>>, SubSeq(Assignments(st), 1, st.actual)}
      OBVIOUS
    <3> HIDE DEF Parsed
    <3> QED
      BY <3>1, <3>2
  <2> QED
    BY <2>1, AssignIsFold
<1> HIDE DEF st
<1>3. EndsOnly(n, st.actual, all)
  BY <1>1, AllAssigned
<1> HIDE DEF all
<1>4. n \in Nat /\ st.actual \in Nat /\ st.actual <= n
  BY <1>1 DEF Scanned
<1>5. Len(<<>>) = 0
  OBVIOUS
<1>6. /\ Len(cut) = st.actual
      /\ \A i \in 1 .. st.actual : cut[i] = all[i]
      /\ st.actual = 0 => cut = <<>>
  <2> DEFINE T == {all[i] : i \in 1 .. st.actual}
             m == st.actual
  <2>1. \A i \in 1 .. m : all[i] \in T
    OBVIOUS
  <2>2. m \in Nat /\ m \in Int /\ 1 \in Int
    BY <1>4
  <2> HIDE DEF T, m
  <2>3. /\ Len(SubSeq(all, 1, m)) = IF 1 <= m THEN m - 1 + 1 ELSE 0
        /\ \A i \in 1 .. m - 1 + 1 : SubSeq(all, 1, m)[i] = all[1 + i - 1]
    BY <2>1, <2>2, SubSeqProperties
  <2>4. m < 1 => SubSeq(all, 1, m) = <<>>
    BY <2>2, SubSeqEmpty
  <2> QED
    BY <2>2, <2>3, <2>4 DEF m
<1> HIDE DEF cut
<1>7. st.actual > 1 => Last(cut).input.type # "File"
  BY <1>3, <1>4, <1>6 DEF EndsOnly, Last
<1> HIDE DEF programs
<1>8. /\ Len(programs) \in Nat
      /\ programs # <<>> => Len(programs) > 0
      /\ Len(programs) > 1 => Last(programs).input.type # "File"
  <2>1. CASE programs = cut
    BY <1>4, <1>6, <1>7, <2>1
  <2>2. CASE programs = <<>>
    BY <1>5, <2>2
  <2> QED
    BY <1>2, <2>1, <2>2
<1> QED
  BY <1>8 DEF programs

(* A line that is taken as one command has one program without files.      *)
LEMMA SinglePlanned ==
  ASSUME NEW text
  PROVE  Planned(Single(text))
<1> DEFINE program == [Program(text) EXCEPT !.data = Token(text).rest]
<1>1. program.input.type # "File" /\ program.output.type # "File"
  BY DEF Program, Io
<1> HIDE DEF program
<1>2. Len(<<program>>) = 1 /\ <<program>>[1] = program /\ Last(<<program>>) = program
  BY DEF Last
<1>3. Len(<<>>) = 0
  OBVIOUS
<1>4. \A say : \A pc \in {"prompt", "say", "exit"} : Planned(Turn(pc, <<>>, say))
  BY <1>3 DEF Planned, Turn
<1>5. Planned(Turn("cd", <<program>>, <<>>)) /\ Planned(Turn("call", <<program>>, <<>>))
  BY <1>1, <1>2 DEF Planned, Turn
<1>6. Single(text) \in {Turn("prompt", <<>>, <<>>), Turn("say", <<>>, Message("Directory not specified")[1]),
                        Turn("cd", <<program>>, <<>>), Turn("exit", <<>>, <<>>), Turn("call", <<program>>, <<>>)}
  BY DEF Single, program
<1> QED
  BY <1>4, <1>5, <1>6

(* Whatever command is typed, with or without blanks: the shell calls,     *)
(* changes the directory or starts a pipeline only with programs to do it  *)
(* with, a program that it calls has no files, and of a pipeline no program*)
(* but the first one reads from a file.  This is what parse_programs and   *)
(* the loop of the shell promise to call_piped_programs.                   *)
THEOREM PlansOfParser == ParserPlans
<1> SUFFICES ASSUME NEW line \in Typings PROVE Planned(Turns[line])
  BY DEF ParserPlans
<1> DEFINE text == Entered(line)
           parsed == parse_programs(text)
           x == [c |-> line[1], before |-> line[2], after |-> line[3]]
<1>1. text \in Seq(Symbol)
  <2>1. x.c \in Command /\ x.c = line[1] /\ x.before = line[2] /\ x.after = line[3]
    BY ShellAssumption DEF Typings
  <2> HIDE DEF x
  <2>2. Typed(x.c, x.before, x.after) \in Seq(Symbol)
    BY <2>1, TypedIsText
  <2> QED
    BY <2>1, <2>2 DEF Entered
<1>2. Turns[line] = Dispatch(text)
  BY DEF Turns, Given
<1> HIDE DEF text
<1>3. /\ Len(parsed.programs) \in Nat
      /\ parsed.programs # <<>> => Len(parsed.programs) > 0
      /\ Len(parsed.programs) > 1 => Last(parsed.programs).input.type # "File"
  BY <1>1, ParsedHolds
<1> HIDE DEF parsed
<1>4. \A say : \A pc \in {"prompt", "say", "undefined"} : Planned(Turn(pc, <<>>, say))
  <2>1. Len(<<>>) = 0
    OBVIOUS
  <2> QED
    BY <2>1 DEF Planned, Turn
<1>5. parsed.programs # <<>> => Planned(Turn("create", parsed.programs, <<>>))
  BY <1>3 DEF Planned, Turn
<1>6. \/ Dispatch(text) = Single(text)
      \/ \E say : \E pc \in {"prompt", "say", "undefined"} : Dispatch(text) = Turn(pc, <<>>, say)
      \/ parsed.programs # <<>> /\ Dispatch(text) = Turn("create", parsed.programs, <<>>)
  BY DEF Dispatch, parsed
<1> QED
  BY <1>2, <1>4, <1>5, <1>6, SinglePlanned

-----------------------------------------------------------------------------
(* Cloning and joining                                                     *)

(* The number of a new process is free.                                    *)
LEMMA FreePid ==
  ASSUME IsFiniteSet(DOMAIN os.pcb), DOMAIN os.pcb \subseteq Nat \ {0}
  PROVE  NextPid \in Nat \ {0} /\ NextPid \notin DOMAIN os.pcb
<1> DEFINE S == DOMAIN os.pcb
           n == Cardinality(S)
           F == (1 .. n + 1) \ S
<1>1. n \in Nat
  BY FS_CardinalityType
<1>2. F # {}
  <2> SUFFICES ASSUME 1 .. n + 1 \subseteq S PROVE FALSE
    OBVIOUS
  <2>1. Cardinality(1 .. n + 1) <= n
    BY FS_Subset
  <2>2. Cardinality(1 .. n + 1) = n + 1
    BY <1>1, FS_Interval
  <2> QED
    BY <1>1, <2>1, <2>2
<1> HIDE DEF n
<1>3. F \subseteq Nat
  BY <1>1
<1>4. \E m \in F : \A k \in F : m <= k
  <2> HIDE DEF F
  <2> QED
    BY <1>2, <1>3, Chains!Least
<1>5. Min(F) \in F
  <2> HIDE DEF F
  <2> QED
    BY <1>4 DEF Min
<1>6. NextPid = Min(F)
  BY DEF NextPid, n
<1> QED
  BY <1>1, <1>5, <1>6

(* What Clone leaves.                                                      *)
Cloned(h, program, in, out) ==
  /\ DOMAIN os' = Kernel /\ os'.files = os.files /\ os'.last = os.last
  /\ h \in Nat \ {0} /\ h \notin DOMAIN os.pcb
  /\ DOMAIN os'.pcb = DOMAIN os.pcb \cup {h}
  /\ \A p \in DOMAIN os.pcb : os'.pcb[p] = os.pcb[p]
  /\ DOMAIN os'.pcb[h] = {"name", "std_in", "std_out", "status", "wd"}
  /\ os'.pcb[h].std_in = in /\ os'.pcb[h].std_out = out /\ os'.pcb[h].status = "Running"
  /\ DOMAIN prog' = DOMAIN prog \cup {h}
  /\ \A p \in DOMAIN prog : p # h => prog'[p] = prog[p]
  /\ Begun(prog'[h]) /\ prog'[h].own = {} /\ prog'[h].pc = "start"
  /\ prog'[h].name = Word(program.name)
  /\ prog'[h].given = <<Denoted(in), Denoted(out)>>

(* Clone takes a number that is free, and adds a process and its thread.   *)
LEMMA CloneAdds ==
  ASSUME IInv, NEW program, NEW in, NEW out, Clone(program, in, out)
  PROVE  Cloned(NextPid, program, in, out)
<1> DEFINE h == NextPid
           r == Process(Word(program.name), in, out, os.pcb[ShellPid].wd)
           t == Thread(Word(program.name), program.data, <<Denoted(in), Denoted(out)>>)
<1>1. /\ os' = [os EXCEPT !.pcb = With(@, h, r)]
      /\ prog' = With(prog, h, t)
  BY DEF Clone
<1>2. h \in Nat \ {0} /\ h \notin DOMAIN os.pcb
  BY FreePid DEF IInv, Shapes
<1>3. /\ DOMAIN r = {"name", "std_in", "std_out", "status", "wd"}
      /\ r.std_in = in /\ r.std_out = out /\ r.status = "Running"
  BY DEF Process
<1>4. /\ Begun(t) /\ t.own = {} /\ t.pc = "start" /\ t.name = Word(program.name)
      /\ t.given = <<Denoted(in), Denoted(out)>>
  BY DEF Thread, Begun
<1> HIDE DEF h, r, t
<1>5. DOMAIN os' = Kernel /\ os'.files = os.files /\ os'.last = os.last /\ os'.pcb = With(os.pcb, h, r)
  BY <1>1 DEF IInv, Shapes, KernelOK, Kernel
<1>6. /\ DOMAIN os'.pcb = DOMAIN os.pcb \cup {h}
      /\ \A p \in DOMAIN os.pcb : os'.pcb[p] = os.pcb[p]
      /\ os'.pcb[h] = r
  BY <1>2, <1>5 DEF With
<1>7. /\ DOMAIN prog' = DOMAIN prog \cup {h}
      /\ \A p \in DOMAIN prog : p # h => prog'[p] = prog[p]
      /\ prog'[h] = t
  BY <1>1 DEF With
<1>8. Cloned(h, program, in, out)
  BY <1>2, <1>3, <1>4, <1>5, <1>6, <1>7 DEF Cloned
<1> QED
  BY <1>8 DEF h

(* The new process is not one of the threads that run.                     *)
LEMMA CloneShapes ==
  ASSUME IInv, NEW h, NEW program, NEW in, NEW out, Cloned(h, program, in, out),
         DOMAIN sh' = DOMAIN Idle, DOMAIN job' = DOMAIN job
  PROVE  /\ Shapes' /\ Owns' = Owns /\ h \notin DOMAIN prog
         /\ \A p \in DOMAIN prog : prog'[p] = prog[p]
         /\ AboutToClose => AboutToClose'
<1>1. h \notin DOMAIN prog
  BY NotOff DEF Cloned
<1>2. /\ DOMAIN prog' = DOMAIN prog \cup {h} /\ prog'[h].own = {}
      /\ \A p \in DOMAIN prog : prog'[p] = prog[p]
  BY <1>1 DEF Cloned
<1>3. Owns' = Owns
  BY <1>1, <1>2 DEF Owns
<1>4. Shapes'
  <2>1. IsFiniteSet(DOMAIN os'.pcb)
    BY FS_AddElement DEF IInv, Shapes, Cloned
  <2>2. \A p \in DOMAIN os'.pcb : DOMAIN os'.pcb[p] = {"name", "std_in", "std_out", "status", "wd"}
    BY DEF IInv, Shapes, Cloned
  <2>3. \A p \in DOMAIN prog' : Begun(prog'[p])
    BY <1>2 DEF IInv, Shapes, Cloned
  <2>4. KernelOK'
    BY DEF IInv, Shapes, Cloned, KernelOK
  <2>5. DOMAIN os'.pcb \subseteq Nat \ {0}
    BY DEF IInv, Shapes, Cloned
  <2>6. DOMAIN job' = {"command", "glued", "before", "went"}
    BY DEF IInv, Shapes
  <2> QED
    BY <2>1, <2>2, <2>3, <2>4, <2>5, <2>6 DEF Shapes
<1>5. AboutToClose => AboutToClose'
  BY <1>2 DEF AboutToClose
<1> QED
  BY <1>1, <1>2, <1>3, <1>4, <1>5

(* A program that is run alone gets the keyboard and the terminal.         *)
LEMMA CallKnownHolds ==
  ASSUME IInv, sh.pc = "call", Clone(sh.programs[1], Kb, Tty), UNCHANGED job,
         sh' = [sh EXCEPT !.pc = "join", !.handles = <<NextPid>>]
  PROVE  IInv'
<1> PICK h : h = NextPid
  OBVIOUS
<1>0. Cloned(h, sh.programs[1], Kb, Tty) /\ h # ShellPid
  <2>1. Cloned(h, sh.programs[1], Kb, Tty)
    BY CloneAdds
  <2>2. ShellPid \in DOMAIN os.pcb
    BY DEF IInv, Threads
  <2> QED
    BY <2>1, <2>2 DEF Cloned
<1>1. /\ DOMAIN sh' = DOMAIN Idle /\ sh'.pc = "join" /\ sh'.handles = <<h>>
      /\ sh'.programs = sh.programs /\ sh'.pipes = sh.pipes
      /\ sh'.first_in = sh.first_in /\ sh'.last_out = sh.last_out /\ sh'.close_last = sh.close_last
      /\ sh'.left = sh.left /\ sh'.closing = sh.closing /\ job' = job
  BY DEF IInv, Shapes, Idle
<1>2. /\ Shapes' /\ Owns' = Owns /\ h \notin DOMAIN prog
      /\ \A p \in DOMAIN prog : prog'[p] = prog[p]
      /\ AboutToClose => AboutToClose'
  BY <1>0, <1>1, CloneShapes
<1>3. /\ Count_Programs = 1 /\ ~FileIn /\ ~FileOut /\ sh.left = {} /\ sh.closing = <<>> /\ job.went = "done"
      /\ sh.pipes = <<>> /\ sh.first_in = Kb /\ sh.last_out = Tty /\ ~sh.close_last /\ sh.handles = <<>>
      /\ Kb \in DOMAIN job.before.files
  BY DEF IInv, Plan, Wired, Pipeline
<1>4. /\ Count_Programs' = 1 /\ FileIn' = FileIn /\ FileOut' = FileOut /\ Waited' = {1} /\ Waited = {}
      /\ Wires' = Wires
  BY <1>1, <1>3 DEF Count_Programs, FileIn, FileOut, Waited, Wires
<1>5. DOMAIN prog = {} /\ Owns = {} /\ ~AboutToClose
  BY <1>4, NobodyWaited
<1>6. Outstanding = {} /\ Outstanding' = {} /\ ~GaveUp /\ ~GaveUp'
  BY <1>1, <1>3, ToSetFacts DEF Outstanding, GaveUp
<1>7. Lost = {}
  BY <1>3, NothingRan DEF Lost, TerminalClosed, IInv, Plan
<1>8. ~TerminalClosed'
  BY <1>1, <1>3 DEF TerminalClosed
<1>9. Handle_Of(1)' = h /\ Input_Of(1)' = Kb /\ Output_Of(1)' = Tty
  BY <1>1, <1>3, <1>4 DEF Handle_Of, Input_Of, Output_Of
<1>10. Plan'
  <2>1. <<h>> \in Seq(Nat) /\ Len(<<h>>) = 1
    BY <1>0 DEF Cloned
  <2>2. Len(sh.programs) \in Nat /\ sh.pipes \in Seq(Handle) /\ sh.closing \in Seq(Handle)
    BY DEF IInv, Plan
  <2>3. /\ sh'.pc = "join" /\ job'.went = "done" /\ ~GaveUp'
        /\ Len(sh'.programs) \in Nat /\ Count_Programs' = 1 /\ ~FileIn' /\ ~FileOut'
        /\ sh'.pipes \in Seq(Handle) /\ sh'.handles \in Seq(Nat) /\ sh'.closing \in Seq(Handle)
        /\ Len(sh'.handles) = 1 /\ sh'.left = {} /\ sh'.closing = <<>>
    BY <1>1, <1>3, <1>4, <1>6, <2>1, <2>2
  <2> QED
    BY <2>3 DEF Plan, Pipeline
<1>11. Wired'
  BY <1>1, <1>3, <1>4, <1>6 DEF IInv, Wired, Pipeline, GaveUp
<1>12. Threads'
  <2>1. /\ DOMAIN os.pcb = {ShellPid} /\ os.pcb[ShellPid].std_in = Kb
    BY <1>4 DEF IInv, Threads
  <2>2. /\ DOMAIN os'.pcb = {ShellPid} \cup {Handle_Of(i)' : i \in Waited'}
        /\ os'.pcb[ShellPid].std_in = Kb
    BY <1>0, <1>4, <1>9, <2>1 DEF Cloned
  <2>3. \A i \in Waited' : i = 1
    BY <1>4
  <2>4. /\ os'.pcb[h].std_in = Kb /\ os'.pcb[h].std_out = Tty
    BY <1>0 DEF Cloned
  <2>5. /\ DOMAIN prog' = {h} /\ os'.pcb[h].status = "Running" /\ Owning(prog'[h])
        /\ prog'[h].name = Word(sh'.programs[1].name)
    BY <1>0, <1>1, <1>5 DEF Cloned, Owning
  <2> QED
    BY <1>0, <1>4, <1>9, <2>2, <2>3, <2>4, <2>5 DEF Threads
<1>13. Ran("shutdown")' => AboutToClose'
  <2> SUFFICES ASSUME Ran("shutdown")' PROVE AboutToClose'
    OBVIOUS
  <2>1. PICK i \in Count_Programs' - Len(sh'.handles) + 1 .. Count_Programs' :
          Word(sh'.programs[i].name) = "shutdown"
    BY DEF Ran
  <2>2. i = 1
    BY <1>1, <1>4, <2>1
  <2>3. h \in DOMAIN prog' /\ prog'[h].name = "shutdown" /\ prog'[h].pc = "start"
    BY <1>0, <1>1, <2>1, <2>2 DEF Cloned
  <2> QED
    BY <2>3 DEF AboutToClose
<1>14. Accounted'
  <2>1. os'.files = os.files
    BY <1>0 DEF Cloned
  <2>2. Lost' \subseteq {Kb} /\ (Lost' # {} => AboutToClose')
    BY <1>8, <1>13 DEF Lost
  <2> QED
    BY <1>1, <1>2, <1>3, <1>5, <1>6, <1>7, <2>1, <2>2 DEF IInv, Accounted
<1>15. Orderly'
  <2>1. os'.files = os.files
    BY <1>0 DEF Cloned
  <2>2. Same(Denoted(StdIn(h)), prog[h].given[1])' /\ Same(Denoted(StdOut(h)), prog[h].given[2])'
    <3>1. \A x : Denoted(x)' = Denoted(x)
      BY <2>1 DEF Denoted
    <3>2. /\ os'.pcb[h].std_in = Kb /\ os'.pcb[h].std_out = Tty
          /\ prog'[h].given[1] = Denoted(Kb) /\ prog'[h].given[2] = Denoted(Tty)
      BY <1>0 DEF Cloned
    <3>3. (StdIn(h))' = Kb /\ (StdOut(h))' = Tty
      BY <3>2 DEF StdIn, StdOut
    <3>4. (Denoted(StdIn(h)))' = Denoted(Kb) /\ (Denoted(StdOut(h)))' = Denoted(Tty)
      BY <2>1, <3>3 DEF Denoted
    <3> QED
      BY <3>2, <3>4 DEF Same
  <2>3. DOMAIN prog' = {h}
    BY <1>0, <1>5 DEF Cloned
  <2> QED
    BY <1>1, <1>2, <1>3, <1>5, <1>6, <1>9, <2>2, <2>3, ToSetFacts DEF Orderly
<1> QED
  BY <1>2, <1>10, <1>11, <1>12, <1>14, <1>15 DEF IInv

(* call_program keeps the invariant.                                       *)
LEMMA CallProgramHolds ==
  ASSUME IInv, CallProgram
  PROVE  IInv'
<1>1. sh.pc = "call"
  BY DEF CallProgram, At
<1>2. CASE /\ Clone(sh.programs[1], Kb, Tty)
           /\ sh' = [sh EXCEPT !.pc = "join", !.handles = <<NextPid>>]
           /\ UNCHANGED job
  BY <1>1, <1>2, CallKnownHolds
<1>3. CASE /\ Calls(os, [sh EXCEPT !.pc = "say", !.say = NotFound])
           /\ job' = [job EXCEPT !.went = "cancelled"]
  <2>1. /\ DOMAIN sh' = DOMAIN Idle /\ sh'.pc = "say" /\ sh'.handles = sh.handles
        /\ sh'.programs = sh.programs /\ sh'.pipes = sh.pipes
        /\ sh'.first_in = sh.first_in /\ sh'.last_out = sh.last_out /\ sh'.close_last = sh.close_last
        /\ sh'.left = sh.left /\ sh'.closing = sh.closing
        /\ os' = os /\ prog' = prog
    BY <1>3 DEF IInv, Shapes, Idle, Calls
  <2>2. DOMAIN job' = DOMAIN job /\ job'.went = "cancelled" /\ job'.before = job.before
    BY <1>3 DEF IInv, Shapes
  <2>3. /\ Count_Programs = 1 /\ ~FileIn /\ ~FileOut /\ sh.left = {} /\ sh.closing = <<>> /\ job.went = "done"
        /\ sh.pipes = <<>> /\ sh.first_in = Kb /\ sh.last_out = Tty /\ ~sh.close_last /\ sh.handles = <<>>
        /\ Kb \in DOMAIN job.before.files /\ ShellPid \in DOMAIN os.pcb
    BY <1>1 DEF IInv, Plan, Wired, Pipeline, Threads
  <2>4. /\ Count_Programs' = 1 /\ FileIn' = FileIn /\ FileOut' = FileOut /\ Waited' = {} /\ Waited = {}
        /\ Wires' = Wires /\ ~GaveUp /\ ~GaveUp'
    BY <1>1, <2>1, <2>2, <2>3 DEF Count_Programs, FileIn, FileOut, Waited, Wires, GaveUp
  <2>5. DOMAIN prog = {} /\ Owns = {} /\ ~AboutToClose /\ Owns' = {} /\ ~AboutToClose'
    BY <2>1, <2>4, NobodyWaited DEF Owns, AboutToClose
  <2>6. Outstanding = {} /\ Outstanding' = {} /\ ~LeavesLast'
    BY <1>1, <2>1, <2>3, <2>4, ToSetFacts DEF Outstanding, LeavesLast
  <2>7. Lost = {}
    BY <2>3, NothingRan DEF Lost, TerminalClosed, IInv, Plan
  <2>8. Lost' = {}
    <3>1. ~Ran("shutdown")'
      <4>1. \A i : ~(i \in Count_Programs' - Len(sh'.handles) + 1 .. Count_Programs')
        BY <2>1, <2>3, <2>4
      <4> QED
        BY <4>1 DEF Ran
    <3>2. ~TerminalClosed'
      BY <2>1, <2>3, <2>4 DEF TerminalClosed, FileIn
    <3> QED
      BY <3>1, <3>2 DEF Lost
  <2>9. Shapes'
    BY <2>1, <2>2 DEF IInv, Shapes, KernelOK
  <2>10. Plan'
    BY <1>1, <2>1, <2>2, <2>3, <2>4 DEF IInv, Plan, Pipeline
  <2>11. Wired'
    BY <2>1, <2>2, <2>3, <2>4 DEF IInv, Wired, Pipeline
  <2>12. Threads'
    BY <1>1, <2>1, <2>4, <2>5 DEF IInv, Threads
  <2>13. Accounted'
    BY <1>1, <2>1, <2>2, <2>4, <2>5, <2>6, <2>7, <2>8 DEF IInv, Accounted
  <2>14. Orderly'
    BY <2>2 DEF Orderly, Clean
  <2> QED
    BY <2>9, <2>10, <2>11, <2>12, <2>13, <2>14 DEF IInv
<1> QED
  BY <1>2, <1>3 DEF CallProgram

(* The fields of the shell that say what the programs have been given.     *)
SameWires ==
  /\ DOMAIN sh' = DOMAIN Idle /\ sh'.programs = sh.programs /\ sh'.handles = sh.handles
  /\ sh'.pipes = sh.pipes /\ sh'.first_in = sh.first_in
  /\ sh'.last_out = sh.last_out /\ sh'.close_last = sh.close_last

(* What depends on the handles of the command alone stays while they do.   *)
LEMMA SameWiresKeeps ==
  ASSUME SameWires, UNCHANGED job
  PROVE  /\ \A i : /\ Handle_Of(i)' = Handle_Of(i) /\ Input_Of(i)' = Input_Of(i) /\ Output_Of(i)' = Output_Of(i)
                   /\ To_Close(i)' = To_Close(i)
         /\ Wires' = Wires /\ LeavesLast' = LeavesLast /\ GaveUp' = GaveUp
         /\ Count_Programs' = Count_Programs /\ FileIn' = FileIn /\ FileOut' = FileOut
         /\ TerminalClosed' = TerminalClosed /\ Lost' = Lost /\ Clean' = Clean
<1>0. job' = job
  OBVIOUS
<1>1. \A i : /\ Handle_Of(i)' = Handle_Of(i) /\ Input_Of(i)' = Input_Of(i) /\ Output_Of(i)' = Output_Of(i)
             /\ To_Close(i)' = To_Close(i)
  BY DEF SameWires, Handle_Of, Input_Of, Output_Of, To_Close, Count_Programs
<1>2. /\ Wires' = Wires /\ LeavesLast' = LeavesLast /\ GaveUp' = GaveUp
      /\ Count_Programs' = Count_Programs /\ FileIn' = FileIn /\ FileOut' = FileOut
      /\ TerminalClosed' = TerminalClosed
  BY <1>0 DEF SameWires, Wires, LeavesLast, GaveUp, FileIn, FileOut, Count_Programs, TerminalClosed
<1>3. Ran("shutdown")' = Ran("shutdown")
  BY DEF SameWires, Ran, Count_Programs
<1>4. Lost' = Lost /\ Clean' = Clean
  BY <1>0, <1>2, <1>3 DEF Lost, Clean
<1> QED
  BY <1>1, <1>2, <1>4

(* The exit code of a program that has ended is read.                      *)
LEMMA ReapShapes ==
  ASSUME IInv, NEW i \in Waited, Ended(Handle_Of(i)), os' = Reaped(Handle_Of(i)),
         UNCHANGED <<prog, job>>, SameWires, sh'.pc # "off", Waited' = Waited \ {i}
  PROVE  /\ Shapes' /\ Threads' /\ os'.files = os.files
         /\ Owns' = Owns /\ AboutToClose' = AboutToClose
         /\ \A p \in DOMAIN prog : /\ p # Handle_Of(i)
                                   /\ StdIn(p)' = StdIn(p) /\ StdOut(p)' = StdOut(p)
<1>0. prog' = prog /\ job' = job
  OBVIOUS
<1> DEFINE h == Handle_Of(i)
           rest == [q \in DOMAIN os.pcb \ {h} |-> os.pcb[q]]
<1>1. h \notin DOMAIN prog
  BY DEF Ended, IInv, Threads
<1>2. sh.pc # "off" /\ h # ShellPid
  BY WaitedRange DEF IInv, Threads
<1>3. /\ DOMAIN os' = Kernel /\ os'.files = os.files /\ os'.last = os.last /\ os'.pcb = rest
  BY DEF Reaped, IInv, Shapes, KernelOK, Kernel
<1>4. /\ DOMAIN os'.pcb = DOMAIN os.pcb \ {h}
      /\ \A q \in DOMAIN os.pcb \ {h} : os'.pcb[q] = os.pcb[q]
  BY <1>3
<1> HIDE DEF rest
<1>5. \A j : Handle_Of(j)' = Handle_Of(j) /\ Input_Of(j)' = Input_Of(j) /\ Output_Of(j)' = Output_Of(j)
  BY SameWiresKeeps
<1>6. Shapes'
  <2>1. IsFiniteSet(DOMAIN os'.pcb)
    BY <1>4, FS_Subset DEF IInv, Shapes
  <2> QED
    BY <1>0, <1>3, <1>4, <2>1 DEF IInv, Shapes, KernelOK, SameWires
<1>7. Threads'
  <2>1. /\ DOMAIN os.pcb = {ShellPid} \cup {Handle_Of(k) : k \in Waited}
        /\ os.pcb[ShellPid].std_in = Kb
    BY <1>2 DEF IInv, Threads
  <2>2. \A j \in Waited : Handle_Of(j) = h => j = i
    BY DEF IInv, Threads
  <2>3. DOMAIN os'.pcb = {ShellPid} \cup {Handle_Of(k) : k \in Waited'}
    BY <1>2, <1>4, <2>1, <2>2
  <2>4. os'.pcb[ShellPid].std_in = Kb
    BY <1>2, <1>4, <2>1
  <2>5. ASSUME NEW k \in Waited'
        PROVE  /\ Handle_Of(k) # ShellPid
               /\ os'.pcb[Handle_Of(k)].std_in = Input_Of(k) /\ os'.pcb[Handle_Of(k)].std_out = Output_Of(k)
               /\ \A j \in Waited' : Handle_Of(k) = Handle_Of(j) => k = j
    <3>1. k \in Waited /\ Handle_Of(k) # h
      BY <2>2
    <3>2. Handle_Of(k) \in DOMAIN os.pcb \ {h}
      BY <2>1, <3>1
    <3> QED
      BY <1>4, <3>1, <3>2 DEF IInv, Threads
  <2>6. ASSUME NEW p \in DOMAIN prog
        PROVE  /\ os'.pcb[p].status = "Running" /\ Owning(prog[p])
               /\ \E k \in Waited' : p = Handle_Of(k) /\ prog[p].name = Word(sh'.programs[k].name)
    <3>1. p # h /\ p \in DOMAIN os.pcb
      BY <1>1, NotOff
    <3>2. PICK k \in Waited : p = Handle_Of(k) /\ prog[p].name = Word(sh.programs[k].name)
      BY DEF IInv, Threads
    <3>3. k \in Waited'
      BY <3>1, <3>2
    <3> QED
      BY <1>4, <3>1, <3>2, <3>3 DEF IInv, Threads, SameWires
  <2> QED
    BY <1>0, <1>5, <2>3, <2>4, <2>5, <2>6 DEF Threads
<1>8. Owns' = Owns /\ AboutToClose' = AboutToClose
  BY <1>0 DEF Owns, AboutToClose
<1>9. \A p \in DOMAIN prog : p # h /\ StdIn(p)' = StdIn(p) /\ StdOut(p)' = StdOut(p)
  BY <1>1, <1>4, NotOff DEF StdIn, StdOut
<1> QED
  BY <1>3, <1>6, <1>7, <1>8, <1>9

(* The program that was run alone is no process when its exit code has been*)
(* read.                                                                   *)
LEMMA JoinHolds ==
  ASSUME IInv, Join
  PROVE  IInv'
<1>1. /\ sh.pc = "join" /\ Ended(sh.handles[1]) /\ os' = Reaped(sh.handles[1])
      /\ sh' = [sh EXCEPT !.pc = "prompt"] /\ prog' = prog /\ job' = job
  BY DEF Join, At, Calls
<1>2. SameWires /\ sh'.pc = "prompt" /\ sh'.left = sh.left /\ sh'.closing = sh.closing
  BY <1>1 DEF IInv, Shapes, Idle, SameWires
<1>3. /\ Count_Programs = 1 /\ sh.left = {} /\ sh.closing = <<>> /\ job.went = "done" /\ ~sh.close_last
      /\ sh.pipes = <<>> /\ sh.first_in = Kb
  BY <1>1 DEF IInv, Plan, Wired, Pipeline
<1>4. Handle_Of(1) = sh.handles[1] /\ Waited = {1} /\ Waited' = {}
  BY <1>1, <1>2, <1>3 DEF Handle_Of, Waited
<1>5. /\ Shapes' /\ Threads' /\ os'.files = os.files
      /\ Owns' = Owns /\ AboutToClose' = AboutToClose
      /\ \A p \in DOMAIN prog : p # Handle_Of(1)
  BY <1>1, <1>2, <1>4, ReapShapes
<1>6. /\ Wires' = Wires /\ LeavesLast' = LeavesLast /\ GaveUp' = GaveUp
      /\ Count_Programs' = Count_Programs /\ FileIn' = FileIn /\ FileOut' = FileOut
      /\ Lost' = Lost /\ Clean' = Clean
  BY <1>1, <1>2, SameWiresKeeps
<1>7. ~GaveUp /\ Outstanding = {} /\ Outstanding' = {}
  BY <1>1, <1>2, <1>3, <1>6, ToSetFacts DEF Outstanding, GaveUp
<1>8. DOMAIN prog = {} /\ Owns = {}
  <2>1. \A p \in DOMAIN prog : \E i \in Waited : p = Handle_Of(i)
    BY DEF IInv, Threads
  <2>2. DOMAIN prog = {}
    BY <1>4, <1>5, <2>1
  <2> QED
    BY <2>2 DEF Owns
<1>9. Plan'
  BY <1>1, <1>2, <1>3, <1>6, <1>7 DEF IInv, Plan, Pipeline, SameWires
<1>10. Wired'
  BY <1>1, <1>2, <1>3, <1>6, <1>7 DEF IInv, Wired, Pipeline, SameWires
<1>11. Accounted'
  BY <1>1, <1>2, <1>3, <1>5, <1>6, <1>7 DEF IInv, Accounted, SameWires
<1>12. Orderly'
  BY <1>1, <1>2, <1>3, <1>5, <1>6, <1>7, <1>8, ToSetFacts DEF Orderly
<1> QED
  BY <1>5, <1>9, <1>10, <1>11, <1>12 DEF IInv

-----------------------------------------------------------------------------
(* Opening what a pipeline needs                                           *)

(* The shell prepares a pipeline; nobody runs.                             *)
LEMMA Preparing ==
  ASSUME IInv, sh.pc \in {"create", "output"}
  PROVE  /\ DOMAIN prog = {} /\ Owns = {} /\ ~AboutToClose /\ Waited = {} /\ Lost = {}
         /\ job.went = "done" /\ ~GaveUp /\ sh.handles = <<>> /\ sh.left = {} /\ sh.closing = <<>>
         /\ Count_Programs \in Nat /\ Count_Programs > 0 /\ ~sh.close_last
         /\ Outstanding = Wires /\ Wires \subseteq DOMAIN os.files /\ Kb \in DOMAIN os.files
         /\ DOMAIN os.files = DOMAIN job.before.files \cup Wires
         /\ DOMAIN os.pcb = {ShellPid}
<1>1. /\ sh.left = {} /\ sh.closing = <<>> /\ job.went = "done" /\ sh.handles = <<>>
      /\ Count_Programs \in Nat /\ Count_Programs > 0 /\ ~sh.close_last
      /\ Kb \in DOMAIN job.before.files
  BY DEF IInv, Plan, Wired, Pipeline, Count_Programs
<1>2. Waited = {} /\ ~GaveUp
  BY <1>1 DEF Waited, GaveUp
<1>3. DOMAIN prog = {} /\ Owns = {} /\ ~AboutToClose
  BY <1>2, NobodyWaited
<1>4. Lost = {}
  BY <1>1, NothingRan DEF Lost, TerminalClosed, Count_Programs
<1>5. Outstanding = Wires
  BY DEF Outstanding
<1>6. /\ \A h \in DOMAIN os.files : h \in DOMAIN job.before.files \cup Wires
      /\ \A h \in DOMAIN job.before.files : h \in DOMAIN os.files
      /\ Wires \subseteq DOMAIN os.files
  BY <1>3, <1>4, <1>5 DEF IInv, Accounted
<1>7. DOMAIN os.pcb = {ShellPid}
  BY <1>2 DEF IInv, Threads
<1> QED
  BY <1>1, <1>2, <1>3, <1>4, <1>5, <1>6, <1>7

(* What the steps that prepare a pipeline have in common.                  *)
LEMMA PreparingShapes ==
  ASSUME IInv, sh.pc \in {"create", "output"}, KernelOK', os'.pcb = os.pcb,
         UNCHANGED prog, DOMAIN sh' = DOMAIN Idle, DOMAIN job' = DOMAIN job,
         sh'.pc \notin {"off", "join"}, sh'.left = {}
  PROVE  Shapes' /\ Threads' /\ Waited' = {} /\ Owns' = {} /\ ~AboutToClose'
<1>0. prog' = prog
  OBVIOUS
<1>1. DOMAIN prog = {} /\ Waited' = {}
  BY Preparing DEF Waited
<1>2. Shapes'
  BY <1>0, <1>1 DEF IInv, Shapes
<1>3. Threads'
  BY <1>0, <1>1, Preparing DEF IInv, Threads
<1> QED
  BY <1>0, <1>1, <1>2, <1>3 DEF Owns, AboutToClose

(* Nothing is lost before a program runs.                                  *)
LEMMA StillNothingLost ==
  ASSUME Count_Programs \in Nat, sh'.programs = sh.programs, sh'.handles = <<>>,
         job'.went # "cancelled"
  PROVE  Lost' = {}
<1>1. Count_Programs' = Count_Programs /\ Len(sh'.handles) = 0
  BY DEF Count_Programs
<1>2. \A i : ~(i \in Count_Programs' - Len(sh'.handles) + 1 .. Count_Programs')
  BY <1>1
<1>3. ~Ran("shutdown")' /\ ~TerminalClosed'
  BY <1>2 DEF Ran, TerminalClosed
<1> QED
  BY <1>3 DEF Lost

(* Two sequences end to end.                                               *)
LEMMA Joining ==
  ASSUME NEW S, NEW s \in Seq(S), NEW t \in Seq(S)
  PROVE  /\ s \o t \in Seq(S) /\ Len(s \o t) = Len(s) + Len(t) /\ Len(s) \in Nat /\ Len(t) \in Nat
         /\ ToSet(s \o t) = ToSet(s) \cup ToSet(t)
         /\ DOMAIN s = 1 .. Len(s) /\ DOMAIN (s \o t) = 1 .. Len(s) + Len(t)
         /\ \A k \in 1 .. Len(s) : (s \o t)[k] = s[k]
         /\ \A k \in 1 .. Len(t) : (s \o t)[Len(s) + k] = t[k]
<1>1. ToSet(s \o t) = ToSet(s) \cup ToSet(t)
  BY ToSetFacts
<1> QED
  BY <1>1

(* The two handles of a pipe are the shell's to close.                     *)
LEMMA CreatePipeHolds ==
  ASSUME IInv, CreatePipe
  PROVE  IInv'
<1>1. /\ sh.pc = "create" /\ Len(sh.pipes) < 2 * (Count_Programs - 1) /\ HandlesLeft(os, 2)
      /\ os' = Create_Pipe(os).os /\ sh' = [sh EXCEPT !.pipes = @ \o Create_Pipe(os).value]
      /\ prog' = prog /\ job' = job
  BY DEF CreatePipe, At, Calls
<1>2. PICK a, b : a = Create_Pipe(os).value[1] /\ b = Create_Pipe(os).value[2]
  OBVIOUS
<1>3. /\ Create_Pipe(os).value = <<a, b>> /\ a # b /\ {a, b} \subseteq Handle \ DOMAIN os.files
      /\ DOMAIN os' = Kernel /\ os'.last \in Handle /\ os'.pcb = os.pcb
      /\ DOMAIN os'.files = DOMAIN os.files \cup {a, b}
      /\ \A k \in DOMAIN os.files : os'.files[k] = os.files[k]
      /\ DOMAIN os'.files[a] = FileFields /\ DOMAIN os'.files[b] = FileFields
  BY <1>1, <1>2, PipeAdds DEF IInv, Shapes, KernelOK
<1>4. /\ DOMAIN sh' = DOMAIN Idle /\ sh'.programs = sh.programs /\ sh'.handles = sh.handles
      /\ sh'.pipes = sh.pipes \o <<a, b>> /\ sh'.first_in = sh.first_in /\ sh'.pc = sh.pc
      /\ sh'.last_out = sh.last_out /\ sh'.close_last = sh.close_last
      /\ sh'.left = sh.left /\ sh'.closing = sh.closing
  BY <1>1, <1>3 DEF IInv, Shapes, Idle
<1>5. /\ job.went = "done" /\ ~GaveUp /\ sh.handles = <<>> /\ sh.left = {} /\ sh.closing = <<>>
      /\ Count_Programs \in Nat /\ Count_Programs > 0 /\ ~sh.close_last
      /\ Outstanding = Wires /\ Wires \subseteq DOMAIN os.files
      /\ DOMAIN os.files = DOMAIN job.before.files \cup Wires /\ Lost = {} /\ Owns = {}
      /\ Kb \in DOMAIN os.files
  BY <1>1, Preparing
<1>6. KernelOK'
  BY <1>3 DEF IInv, Shapes, KernelOK
<1>7. Shapes' /\ Threads' /\ Waited' = {} /\ Owns' = {} /\ ~AboutToClose'
  BY <1>1, <1>3, <1>4, <1>5, <1>6, PreparingShapes
<1>8. sh.pipes \in Seq(Handle) /\ Len(sh.pipes) \in Nat /\ <<a, b>> \in Seq(Handle) /\ Len(<<a, b>>) = 2
  BY <1>3 DEF IInv, Plan
<1>9. /\ sh'.pipes \in Seq(Handle) /\ Len(sh'.pipes) = Len(sh.pipes) + 2
      /\ ToSet(sh'.pipes) = ToSet(sh.pipes) \cup {a, b}
      /\ DOMAIN sh.pipes = 1 .. Len(sh.pipes) /\ DOMAIN sh'.pipes = 1 .. Len(sh.pipes) + 2
      /\ \A k \in 1 .. Len(sh.pipes) : sh'.pipes[k] = sh.pipes[k]
      /\ sh'.pipes[Len(sh.pipes) + 1] = a /\ sh'.pipes[Len(sh.pipes) + 2] = b
  <2>1. ToSet(<<a, b>>) = {a, b}
    BY <1>3, ToSetFacts
  <2> DEFINE p == sh.pipes
             q == <<a, b>>
  <2>2. q[1] = a /\ q[2] = b /\ 1 \in 1 .. 2 /\ 2 \in 1 .. 2
    OBVIOUS
  <2>3. p \in Seq(Handle) /\ q \in Seq(Handle) /\ Len(q) = 2 /\ ToSet(q) = {a, b}
    BY <1>8, <2>1
  <2>4. sh'.pipes = p \o q
    BY <1>4
  <2> HIDE DEF p, q
  <2>5. /\ p \o q \in Seq(Handle) /\ Len(p \o q) = Len(p) + Len(q)
        /\ ToSet(p \o q) = ToSet(p) \cup ToSet(q)
        /\ DOMAIN p = 1 .. Len(p) /\ DOMAIN (p \o q) = 1 .. Len(p) + Len(q)
        /\ \A k \in 1 .. Len(p) : (p \o q)[k] = p[k]
        /\ \A k \in 1 .. Len(q) : (p \o q)[Len(p) + k] = q[k]
    BY <2>3, Joining
  <2>6. (p \o q)[Len(p) + 1] = a /\ (p \o q)[Len(p) + 2] = b
    BY <2>2, <2>3, <2>5
  <2> QED
    BY <2>3, <2>4, <2>5, <2>6 DEF p
<1>10. /\ Count_Programs' = Count_Programs /\ FileIn' = FileIn /\ FileOut' = FileOut /\ ~GaveUp'
       /\ Wires' = Wires \cup {a, b}
  BY <1>1, <1>4, <1>5, <1>9 DEF Count_Programs, FileIn, FileOut, GaveUp, Wires
<1>11. Outstanding' = Wires'
  BY <1>1, <1>4 DEF Outstanding
<1>12. Lost' = {}
  BY <1>1, <1>4, <1>5, StillNothingLost
<1>13. Plan'
  <2>1. Len(sh.programs) \in Nat /\ (Count_Programs > 1 => Last(sh.programs).input.type # "File")
    BY <1>1 DEF IInv, Plan, Pipeline
  <2>2. Len(<<>>) = 0 /\ <<>> \in Seq(Nat) /\ <<>> \in Seq(Handle)
    OBVIOUS
  <2>3. /\ sh'.pc = "create" /\ job'.went = "done" /\ Len(sh'.programs) \in Nat /\ Count_Programs' > 0
        /\ Len(sh'.handles) <= Count_Programs'
        /\ (Count_Programs' > 1 => Last(sh'.programs).input.type # "File")
    BY <1>1, <1>4, <1>5, <1>10, <2>1, <2>2
  <2> QED
    BY <1>4, <1>5, <1>9, <1>10, <2>2, <2>3 DEF Plan, Pipeline
<1>14. Wired'
  <2>1. \A k, l \in DOMAIN sh'.pipes : k # l => sh'.pipes[k] # sh'.pipes[l]
    <3>1. \A k, l \in DOMAIN sh.pipes : k # l => sh.pipes[k] # sh.pipes[l]
      BY DEF IInv, Wired
    <3>2. \A k \in DOMAIN sh.pipes : sh.pipes[k] \notin {a, b}
      BY <1>3, <1>5, <1>8 DEF Wires, ToSet
    <3>3. /\ \A k \in 1 .. Len(sh.pipes) : sh'.pipes[k] = sh.pipes[k]
          /\ sh'.pipes[Len(sh.pipes) + 1] = a /\ sh'.pipes[Len(sh.pipes) + 2] = b
      BY <1>4, <1>8
    <3>4. \A k \in DOMAIN sh'.pipes : k \in DOMAIN sh.pipes \/ k = Len(sh.pipes) + 1 \/ k = Len(sh.pipes) + 2
      BY <1>8, <1>9
    <3>5. DOMAIN sh.pipes = 1 .. Len(sh.pipes)
      BY <1>8
    <3> QED
      BY <1>3, <3>1, <3>2, <3>3, <3>4, <3>5
  <2>2. PICK m \in 0 .. Count_Programs - 1 : Len(sh.pipes) = 2 * m
    BY <1>1 DEF IInv, Wired
  <2>3. m + 1 \in 0 .. Count_Programs - 1 /\ Len(sh'.pipes) = 2 * (m + 1)
    <3>1. 2 * m < 2 * (Count_Programs - 1) /\ Count_Programs \in Nat /\ m \in Nat
      BY <1>1, <1>5, <2>2
    <3>2. m + 1 \in 0 .. Count_Programs - 1 /\ 2 * m + 2 = 2 * (m + 1)
      BY <3>1
    <3> QED
      BY <1>9, <2>2, <3>2
  <2>4. /\ sh.first_in = Kb /\ sh.first_in \notin ToSet(sh.pipes) /\ sh.first_in \in Handle
        /\ sh.last_out \in Handle /\ sh.last_out = Tty /\ Kb \in DOMAIN job.before.files
        /\ Wires \cap DOMAIN job.before.files = {}
    BY <1>1, <1>5 DEF IInv, Wired
  <2> QED
    <3>1. \E k \in 0 .. Count_Programs' - 1 : Len(sh'.pipes) = 2 * k
      BY <1>10, <2>3
    <3>2. /\ sh'.first_in = Kb /\ Kb \notin ToSet(sh'.pipes) /\ sh'.pc = "create" /\ job'.went = "done"
          /\ Wires' \cap DOMAIN job'.before.files = {}
      BY <1>1, <1>3, <1>4, <1>5, <1>9, <1>10, <2>4
    <3>3. /\ sh'.first_in \in Handle /\ sh'.last_out \in Handle /\ sh'.close_last = FALSE
          /\ sh'.last_out = Tty /\ Kb \in DOMAIN job'.before.files /\ ~GaveUp'
      BY <1>1, <1>4, <1>5, <1>10, <2>4
    <3> QED
      BY <2>1, <3>1, <3>2, <3>3 DEF Wired, Pipeline
<1>15. Accounted'
  <2>1. \A h \in DOMAIN job.before.files : Same(os.files[h], job.before.files[h])
    BY <1>1, <1>5 DEF IInv, Accounted
  <2> QED
    BY <1>1, <1>3, <1>4, <1>5, <1>7, <1>10, <1>11, <1>12, <2>1 DEF Accounted
<1>16. Orderly'
  BY <1>1, <1>3, <1>4, <1>5, <1>7, <1>10, <1>11, Preparing, ToSetFacts DEF Orderly
<1> QED
  BY <1>7, <1>13, <1>14, <1>15, <1>16 DEF IInv

(* What the shell says when a file cannot be opened.                       *)
LEMMA GivingUpHolds ==
  ASSUME IInv, NEW end, NEW text,
         \/ sh.pc = "create" /\ Len(sh.pipes) = 2 * (Count_Programs - 1) /\ end = "input"
         \/ sh.pc = "output" /\ end = "output",
         Calls(os, [sh EXCEPT !.pc = "say", !.say = text]), job' = [job EXCEPT !.went = end]
  PROVE  IInv'
<1>1. /\ DOMAIN sh' = DOMAIN Idle /\ sh'.programs = sh.programs /\ sh'.handles = sh.handles
      /\ sh'.pipes = sh.pipes /\ sh'.first_in = sh.first_in /\ sh'.pc = "say"
      /\ sh'.last_out = sh.last_out /\ sh'.close_last = sh.close_last
      /\ sh'.left = sh.left /\ sh'.closing = sh.closing /\ os' = os /\ prog' = prog
  BY DEF IInv, Shapes, Idle, Calls
<1>2. /\ DOMAIN job' = DOMAIN job /\ job'.went = end /\ job'.before = job.before
  BY DEF IInv, Shapes
<1>3. sh.pc \in {"create", "output"} /\ end \in {"input", "output"}
  OBVIOUS
<1>4. /\ job.went = "done" /\ ~GaveUp /\ sh.handles = <<>> /\ sh.left = {} /\ sh.closing = <<>>
      /\ Count_Programs \in Nat /\ Count_Programs > 0 /\ ~sh.close_last
      /\ Outstanding = Wires /\ Wires \subseteq DOMAIN os.files
      /\ DOMAIN os.files = DOMAIN job.before.files \cup Wires /\ Lost = {} /\ Owns = {}
      /\ Kb \in DOMAIN os.files
  BY <1>3, Preparing
<1>5. KernelOK'
  BY <1>1 DEF IInv, Shapes, KernelOK
<1>6. Shapes' /\ Threads' /\ Waited' = {} /\ Owns' = {} /\ ~AboutToClose'
  BY <1>1, <1>2, <1>3, <1>4, <1>5, PreparingShapes
<1>7. /\ Count_Programs' = Count_Programs /\ FileIn' = FileIn /\ FileOut' = FileOut /\ GaveUp'
      /\ Wires' = Wires /\ Outstanding' = Wires
  BY <1>1, <1>2, <1>3, <1>4 DEF Count_Programs, FileIn, FileOut, GaveUp, Wires, Outstanding
<1>8. Lost' = {}
  BY <1>1, <1>2, <1>3, <1>4, StillNothingLost
<1>9. Plan'
  <2>1. /\ Len(sh.programs) \in Nat /\ (Count_Programs > 1 => Last(sh.programs).input.type # "File")
        /\ sh.pipes \in Seq(Handle)
    BY <1>3 DEF IInv, Plan, Pipeline
  <2>2. Len(<<>>) = 0 /\ <<>> \in Seq(Nat) /\ <<>> \in Seq(Handle)
    OBVIOUS
  <2> QED
    BY <1>1, <1>2, <1>3, <1>4, <1>7, <2>1, <2>2 DEF Plan, Pipeline
<1>10. Wired'
  <2>1. /\ sh.first_in \notin ToSet(sh.pipes) /\ sh.first_in \in Handle
        /\ sh.last_out \in Handle /\ sh.last_out = Tty /\ Kb \in DOMAIN job.before.files
        /\ Wires \cap DOMAIN job.before.files = {}
        /\ \A k, l \in DOMAIN sh.pipes : k # l => sh.pipes[k] # sh.pipes[l]
    BY <1>4 DEF IInv, Wired
  <2>2. /\ Len(sh.pipes) = 2 * (Count_Programs - 1)
        /\ end = "input" => sh.first_in = Kb
        /\ end = "output" => (sh.first_in # Kb <=> FileIn)
    BY DEF IInv, Wired, Pipeline
  <2> QED
    <3>1. /\ sh'.pc = "say" /\ job'.went = end /\ end \in {"input", "output"} /\ sh'.close_last = FALSE
          /\ Len(sh'.pipes) = 2 * (Count_Programs' - 1)
          /\ end = "input" => sh'.first_in = Kb
          /\ end = "output" => (sh'.first_in # Kb <=> FileIn')
          /\ Wires' \cap DOMAIN job'.before.files = {} /\ Kb \in DOMAIN job'.before.files
      BY <1>1, <1>2, <1>3, <1>4, <1>7, <2>1, <2>2
    <3>2. /\ sh'.first_in \notin ToSet(sh'.pipes) /\ sh'.first_in \in Handle
          /\ sh'.last_out \in Handle /\ sh'.last_out = Tty
          /\ \A k, l \in DOMAIN sh'.pipes : k # l => sh'.pipes[k] # sh'.pipes[l]
      BY <1>1, <2>1
    <3> QED
      BY <3>1, <3>2 DEF Wired, Pipeline
<1>11. Accounted'
  <2>1. \A h \in DOMAIN job.before.files : Same(os.files[h], job.before.files[h])
    BY <1>3, <1>4 DEF IInv, Accounted
  <2> QED
    BY <1>1, <1>2, <1>3, <1>4, <1>6, <1>7, <1>8, <2>1 DEF Accounted
<1>12. Orderly'
  BY <1>2, <1>3 DEF Orderly, Clean
<1> QED
  BY <1>6, <1>9, <1>10, <1>11, <1>12 DEF IInv

(* The file at the beginning, if there is one, is open.                    *)
LEMMA InputOpenHolds ==
  ASSUME IInv, sh.pc = "create", Len(sh.pipes) = 2 * (Count_Programs - 1),
         DOMAIN sh' = DOMAIN Idle, sh'.programs = sh.programs, sh'.handles = sh.handles,
         sh'.pipes = sh.pipes, sh'.pc = "output",
         sh'.last_out = sh.last_out, sh'.close_last = sh.close_last,
         sh'.left = sh.left, sh'.closing = sh.closing, UNCHANGED <<prog, job>>,
         \/ FileIn /\ Added(os, os', sh'.first_in)
         \/ ~FileIn /\ sh'.first_in = sh.first_in /\ os' = os
  PROVE  IInv'
<1>0. prog' = prog /\ job' = job
  OBVIOUS
<1>1. /\ job.went = "done" /\ ~GaveUp /\ sh.handles = <<>> /\ sh.left = {} /\ sh.closing = <<>>
      /\ Count_Programs \in Nat /\ Count_Programs > 0 /\ ~sh.close_last
      /\ Outstanding = Wires /\ Wires \subseteq DOMAIN os.files
      /\ DOMAIN os.files = DOMAIN job.before.files \cup Wires /\ Lost = {} /\ Owns = {}
      /\ Kb \in DOMAIN os.files
  BY Preparing
<1>2. /\ sh.first_in \notin ToSet(sh.pipes) /\ sh.first_in = Kb /\ Kb \in Handle
      /\ sh.last_out \in Handle /\ sh.last_out = Tty /\ Kb \in DOMAIN job.before.files
      /\ Wires \cap DOMAIN job.before.files = {}
      /\ \A k, l \in DOMAIN sh.pipes : k # l => sh.pipes[k] # sh.pipes[l]
      /\ sh.pipes \in Seq(Handle)
  BY <1>1 DEF IInv, Wired, Plan
<1> DEFINE New == IF FileIn THEN {sh'.first_in} ELSE {}
<1>3. /\ KernelOK' /\ os'.pcb = os.pcb /\ DOMAIN os'.files = DOMAIN os.files \cup New
      /\ \A k \in DOMAIN os.files : os'.files[k] = os.files[k]
      /\ sh'.first_in \in Handle
      /\ FileIn => sh'.first_in \notin DOMAIN os.files
      /\ ~FileIn => sh'.first_in = Kb
  <2>1. CASE FileIn /\ Added(os, os', sh'.first_in)
    <3>1. KernelOK'
      BY <2>1 DEF IInv, Shapes, KernelOK, Added
    <3> QED
      BY <2>1, <3>1 DEF Added
  <2>2. CASE ~FileIn /\ sh'.first_in = sh.first_in /\ os' = os
    BY <1>2, <2>2 DEF IInv, Shapes, KernelOK
  <2> QED
    BY <2>1, <2>2
<1>4. /\ Count_Programs' = Count_Programs /\ FileIn' = FileIn /\ FileOut' = FileOut /\ ~GaveUp'
      /\ Wires = ToSet(sh.pipes) /\ Wires' = Wires \cup New /\ Outstanding' = Wires'
  <2>1. Wires = ToSet(sh.pipes)
    BY <1>1, <1>2 DEF Wires
  <2>2. sh'.first_in # Kb <=> FileIn
    BY <1>1, <1>3
  <2>3. Wires' = Wires \cup New
    BY <1>1, <2>1, <2>2 DEF Wires
  <2> QED
    BY <1>0, <1>1, <2>1, <2>3 DEF Count_Programs, FileIn, FileOut, GaveUp, Outstanding
<1> HIDE DEF New
<1>5. Shapes' /\ Threads' /\ Waited' = {} /\ Owns' = {} /\ ~AboutToClose'
  BY <1>0, <1>1, <1>3, PreparingShapes
<1>6. Lost' = {}
  BY <1>0, <1>1, StillNothingLost
<1>7. Plan'
  <2>1. Len(sh.programs) \in Nat /\ (Count_Programs > 1 => Last(sh.programs).input.type # "File")
    BY DEF IInv, Plan, Pipeline
  <2>2. Len(<<>>) = 0 /\ <<>> \in Seq(Nat) /\ <<>> \in Seq(Handle)
    OBVIOUS
  <2>3. /\ sh'.pc = "output" /\ job'.went = "done" /\ Len(sh'.programs) \in Nat /\ Count_Programs' > 0
        /\ Len(sh'.handles) <= Count_Programs' /\ sh'.pipes \in Seq(Handle)
        /\ (Count_Programs' > 1 => Last(sh'.programs).input.type # "File")
    BY <1>0, <1>1, <1>2, <1>4, <2>1, <2>2
  <2> QED
    BY <1>1, <1>4, <2>2, <2>3 DEF Plan, Pipeline
<1>8. Wired'
  <2>1. /\ sh'.first_in \notin ToSet(sh'.pipes) /\ (sh'.first_in # Kb <=> FileIn')
        /\ Wires' \cap DOMAIN job'.before.files = {} /\ Kb \in DOMAIN job'.before.files
        /\ sh'.first_in \in Handle /\ sh'.last_out \in Handle /\ sh'.close_last = FALSE /\ sh'.last_out = Tty
    <3>1. FileIn => sh'.first_in \notin ToSet(sh.pipes) \cup DOMAIN job.before.files \cup {Kb}
      BY <1>1, <1>3, <1>4
    <3> QED
      BY <1>0, <1>1, <1>2, <1>3, <1>4, <3>1 DEF New, IInv, Wired
  <2>2. /\ \A k, l \in DOMAIN sh'.pipes : k # l => sh'.pipes[k] # sh'.pipes[l]
        /\ Len(sh'.pipes) = 2 * (Count_Programs' - 1) /\ job'.went = "done"
    BY <1>0, <1>1, <1>2, <1>4
  <2> QED
    BY <1>4, <2>1, <2>2 DEF Wired, Pipeline
<1>9. Accounted'
  <2>1. \A h \in DOMAIN job.before.files : Same(os.files[h], job.before.files[h])
    BY <1>1 DEF IInv, Accounted
  <2> QED
    BY <1>0, <1>1, <1>3, <1>4, <1>5, <1>6, <2>1 DEF Accounted
<1>10. Orderly'
  <2>1. DOMAIN prog' = {}
    BY <1>0, Preparing
  <2> QED
    BY <1>1, <1>3, <1>4, <1>5, <2>1, ToSetFacts DEF Orderly
<1> QED
  BY <1>5, <1>7, <1>8, <1>9, <1>10 DEF IInv

(* The file at the beginning has a handle of its own, or the function      *)
(* returns with what it has opened.                                        *)
LEMMA OpenInputHolds ==
  ASSUME IInv, OpenInput
  PROVE  IInv'
<1> DEFINE input == sh.programs[1].input
           opened == Open_File(os, ShellPid, input.name, TRUE, "None")
<1>1. sh.pc = "create" /\ Len(sh.pipes) = 2 * (Count_Programs - 1) /\ HandlesLeft(os, 1)
  BY DEF OpenInput, At
<1>2. CASE ~FileIn
  <2>1. Calls(os, [sh EXCEPT !.pc = "output"]) /\ job' = job
    BY <1>2 DEF OpenInput, FileIn
  <2>2. /\ DOMAIN sh' = DOMAIN Idle /\ sh'.programs = sh.programs /\ sh'.handles = sh.handles
        /\ sh'.pipes = sh.pipes /\ sh'.first_in = sh.first_in /\ sh'.pc = "output"
        /\ sh'.last_out = sh.last_out /\ sh'.close_last = sh.close_last
        /\ sh'.left = sh.left /\ sh'.closing = sh.closing /\ os' = os /\ prog' = prog
    BY <2>1 DEF IInv, Shapes, Idle, Calls
  <2> QED
    BY <1>1, <1>2, <2>1, <2>2, InputOpenHolds
<1>3. CASE FileIn
  <2>1. \/ Breaks /\ sh' = sh /\ job' = job
        \/ /\ opened.error = "Success" /\ job' = job
           /\ Calls(opened.os, [sh EXCEPT !.pc = "output", !.first_in = opened.value])
        \/ /\ Calls(os, [sh EXCEPT !.pc = "say", !.say = Message(opened.error)[1]])
           /\ job' = [job EXCEPT !.went = "input"]
    <3> HIDE DEF opened
    <3>1. OpenEnd("input", opened, LAMBDA h : [sh EXCEPT !.pc = "output", !.first_in = h])
      BY <1>3 DEF OpenInput, FileIn, opened
    <3> QED
      BY <3>1 DEF OpenEnd
  <2>2. CASE Breaks /\ sh' = sh /\ job' = job
    BY <2>2, ShellBreaks
  <2>3. CASE /\ opened.error = "Success" /\ job' = job
             /\ Calls(opened.os, [sh EXCEPT !.pc = "output", !.first_in = opened.value])
    <3>1. Added(os, opened.os, opened.value)
      BY <1>1, <2>3, OpenAdds DEF IInv, Shapes, KernelOK
    <3> HIDE DEF opened
    <3>2. /\ DOMAIN sh' = DOMAIN Idle /\ sh'.programs = sh.programs /\ sh'.handles = sh.handles
          /\ sh'.pipes = sh.pipes /\ sh'.first_in = opened.value /\ sh'.pc = "output"
          /\ sh'.last_out = sh.last_out /\ sh'.close_last = sh.close_last
          /\ sh'.left = sh.left /\ sh'.closing = sh.closing /\ os' = opened.os /\ prog' = prog
      BY <2>3 DEF IInv, Shapes, Idle, Calls
    <3> QED
      BY <1>1, <1>3, <2>3, <3>1, <3>2, InputOpenHolds
  <2>4. CASE /\ Calls(os, [sh EXCEPT !.pc = "say", !.say = Message(opened.error)[1]])
             /\ job' = [job EXCEPT !.went = "input"]
    <3> HIDE DEF opened
    <3> QED
      BY <1>1, <2>4, GivingUpHolds
  <2> QED
    BY <2>1, <2>2, <2>3, <2>4
<1> QED
  BY <1>2, <1>3

(* The file at the end, if there is one, is open.                          *)
LEMMA OutputOpenHolds ==
  ASSUME IInv, sh.pc = "output",
         DOMAIN sh' = DOMAIN Idle, sh'.programs = sh.programs, sh'.handles = sh.handles,
         sh'.pipes = sh.pipes, sh'.pc = "clone", sh'.first_in = sh.first_in,
         sh'.close_last = FileOut,
         sh'.left = sh.left, sh'.closing = sh.closing, UNCHANGED <<prog, job>>,
         \/ FileOut /\ Added(os, os', sh'.last_out)
         \/ ~FileOut /\ sh'.last_out = sh.last_out /\ os' = os
  PROVE  IInv'
<1>0. prog' = prog /\ job' = job
  OBVIOUS
<1>1. /\ job.went = "done" /\ ~GaveUp /\ sh.handles = <<>> /\ sh.left = {} /\ sh.closing = <<>>
      /\ Count_Programs \in Nat /\ Count_Programs > 0 /\ ~sh.close_last
      /\ Outstanding = Wires /\ Wires \subseteq DOMAIN os.files
      /\ DOMAIN os.files = DOMAIN job.before.files \cup Wires /\ Lost = {} /\ Owns = {}
      /\ Kb \in DOMAIN os.files
  BY Preparing
<1>2. /\ sh.first_in \notin ToSet(sh.pipes) /\ sh.first_in \in Handle
      /\ sh.last_out \in Handle /\ sh.last_out = Tty /\ Kb \in DOMAIN job.before.files
      /\ Wires \cap DOMAIN job.before.files = {}
      /\ \A k, l \in DOMAIN sh.pipes : k # l => sh.pipes[k] # sh.pipes[l]
      /\ sh.pipes \in Seq(Handle)
  BY <1>1 DEF IInv, Wired, Plan
<1>3. /\ Len(sh.pipes) = 2 * (Count_Programs - 1) /\ (sh.first_in # Kb <=> FileIn)
  BY DEF IInv, Wired, Pipeline
<1> DEFINE New == IF FileOut THEN {sh'.last_out} ELSE {}
<1>4. /\ KernelOK' /\ os'.pcb = os.pcb /\ DOMAIN os'.files = DOMAIN os.files \cup New
      /\ \A k \in DOMAIN os.files : os'.files[k] = os.files[k]
      /\ sh'.last_out \in Handle
      /\ FileOut => sh'.last_out \notin DOMAIN os.files
      /\ ~FileOut => sh'.last_out = Tty
  <2>1. CASE FileOut /\ Added(os, os', sh'.last_out)
    <3>1. KernelOK'
      BY <2>1 DEF IInv, Shapes, KernelOK, Added
    <3> QED
      BY <2>1, <3>1 DEF Added
  <2>2. CASE ~FileOut /\ sh'.last_out = sh.last_out /\ os' = os
    BY <1>2, <2>2 DEF IInv, Shapes, KernelOK
  <2> QED
    BY <2>1, <2>2
<1>5. /\ Count_Programs' = Count_Programs /\ FileIn' = FileIn /\ FileOut' = FileOut /\ ~GaveUp'
      /\ Wires' = Wires \cup New /\ Outstanding' = Wires'
  <2>1. Wires' = Wires \cup New
    BY <1>1 DEF Wires
  <2> QED
    BY <1>0, <1>1, <2>1 DEF Count_Programs, FileIn, FileOut, GaveUp, Outstanding
<1>6. /\ ToSet(sh.pipes) \subseteq Wires /\ sh.first_in \in Wires \cup {Kb}
      /\ FileOut => sh'.last_out \notin ToSet(sh.pipes) \cup {sh.first_in} \cup DOMAIN job.before.files
  <2>1. ToSet(sh.pipes) \subseteq Wires /\ sh.first_in \in Wires \cup {Kb}
    BY DEF Wires
  <2> QED
    BY <1>1, <1>4, <2>1
<1>7. Wires' \cap DOMAIN job'.before.files = {}
  BY <1>0, <1>2, <1>5, <1>6 DEF New
<1> HIDE DEF New
<1>8. Shapes' /\ Threads' /\ Waited' = {} /\ Owns' = {} /\ ~AboutToClose'
  BY <1>0, <1>1, <1>4, PreparingShapes
<1>9. Lost' = {}
  BY <1>0, <1>1, StillNothingLost
<1>10. Plan'
  <2>1. Len(sh.programs) \in Nat /\ (Count_Programs > 1 => Last(sh.programs).input.type # "File")
    BY DEF IInv, Plan, Pipeline
  <2>2. Len(<<>>) = 0 /\ <<>> \in Seq(Nat) /\ <<>> \in Seq(Handle)
    OBVIOUS
  <2>3. /\ sh'.pc = "clone" /\ job'.went = "done" /\ Len(sh'.programs) \in Nat /\ Count_Programs' > 0
        /\ Len(sh'.handles) = 0 /\ sh'.pipes \in Seq(Handle)
        /\ Len(sh'.handles) <= Count_Programs'
        /\ Len(sh'.handles) < Count_Programs'
        /\ (Count_Programs' > 1 => Last(sh'.programs).input.type # "File")
    BY <1>0, <1>1, <1>2, <1>5, <2>1, <2>2
  <2>4. Count_Programs' - Len(sh'.handles) + 1 .. Count_Programs' = {}
    BY <1>1, <1>5, <2>3
  <2> QED
    BY <1>1, <1>5, <2>2, <2>3, <2>4 DEF Plan, Pipeline
<1>11. Wired'
  <2>1. /\ sh'.first_in \notin ToSet(sh'.pipes) /\ (sh'.first_in # Kb <=> FileIn')
        /\ Kb \in DOMAIN job'.before.files
        /\ sh'.first_in \in Handle /\ sh'.last_out \in Handle
        /\ \A k, l \in DOMAIN sh'.pipes : k # l => sh'.pipes[k] # sh'.pipes[l]
        /\ Len(sh'.pipes) = 2 * (Count_Programs' - 1) /\ job'.went = "done"
    BY <1>0, <1>1, <1>2, <1>3, <1>4, <1>5
  <2>2. /\ sh'.close_last \in BOOLEAN /\ (sh'.close_last <=> FileOut')
        /\ ~sh'.close_last => sh'.last_out = Tty
        /\ sh'.close_last => sh'.last_out \notin ToSet(sh'.pipes) \cup {sh'.first_in}
    BY <1>4, <1>5, <1>6 DEF FileOut
  <2> QED
    BY <1>5, <1>7, <2>1, <2>2 DEF Wired, Pipeline
<1>12. Accounted'
  <2>1. \A h \in DOMAIN job.before.files : Same(os.files[h], job.before.files[h])
    BY <1>1 DEF IInv, Accounted
  <2>2. sh'.close_last => sh'.last_out \in DOMAIN os'.files \ (Owns' \cup ToSet(sh'.closing))
    BY <1>1, <1>4, <1>8, ToSetFacts DEF New
  <2> QED
    BY <1>0, <1>1, <1>4, <1>5, <1>8, <1>9, <2>1, <2>2 DEF Accounted
<1>13. Orderly'
  <2>1. DOMAIN prog' = {}
    BY <1>0, Preparing
  <2> QED
    BY <1>1, <1>4, <1>5, <1>8, <2>1, ToSetFacts DEF Orderly
<1> QED
  BY <1>8, <1>10, <1>11, <1>12, <1>13 DEF IInv

(* So has the file at the end.                                             *)
LEMMA OpenOutputHolds ==
  ASSUME IInv, OpenOutput
  PROVE  IInv'
<1> DEFINE output == Last(sh.programs).output
           opened == Open_File(os, ShellPid, output.name, FALSE, "Archive")
<1>1. sh.pc = "output" /\ HandlesLeft(os, 1) /\ sh.close_last = FALSE
  <2>1. sh.pc = "output" /\ HandlesLeft(os, 1)
    BY DEF OpenOutput, At
  <2> QED
    BY <2>1 DEF IInv, Wired
<1>2. CASE ~FileOut
  <2>1. Calls(os, [sh EXCEPT !.pc = "clone"]) /\ job' = job
    BY <1>2 DEF OpenOutput, FileOut
  <2>2. /\ DOMAIN sh' = DOMAIN Idle /\ sh'.programs = sh.programs /\ sh'.handles = sh.handles
        /\ sh'.pipes = sh.pipes /\ sh'.first_in = sh.first_in /\ sh'.pc = "clone"
        /\ sh'.last_out = sh.last_out /\ sh'.close_last = sh.close_last
        /\ sh'.left = sh.left /\ sh'.closing = sh.closing /\ os' = os /\ prog' = prog
    BY <2>1 DEF IInv, Shapes, Idle, Calls
  <2>3. sh'.close_last = FileOut
    BY <1>1, <1>2, <2>2 DEF FileOut
  <2> QED
    BY <1>1, <1>2, <2>1, <2>2, <2>3, OutputOpenHolds
<1>3. CASE FileOut
  <2>1. \/ Breaks /\ sh' = sh /\ job' = job
        \/ /\ opened.error = "Success" /\ job' = job
           /\ Calls(opened.os, [sh EXCEPT !.pc = "clone", !.close_last = TRUE, !.last_out = opened.value])
        \/ /\ Calls(os, [sh EXCEPT !.pc = "say", !.say = Message(opened.error)[1]])
           /\ job' = [job EXCEPT !.went = "output"]
    <3> HIDE DEF opened
    <3>1. OpenEnd("output", opened,
                  LAMBDA h : [sh EXCEPT !.pc = "clone", !.close_last = TRUE, !.last_out = h])
      BY <1>3 DEF OpenOutput, FileOut, opened
    <3> QED
      BY <3>1 DEF OpenEnd
  <2>2. CASE Breaks /\ sh' = sh /\ job' = job
    BY <2>2, ShellBreaks
  <2>3. CASE /\ opened.error = "Success" /\ job' = job
             /\ Calls(opened.os, [sh EXCEPT !.pc = "clone", !.close_last = TRUE, !.last_out = opened.value])
    <3>1. Added(os, opened.os, opened.value)
      BY <1>1, <2>3, OpenAdds DEF IInv, Shapes, KernelOK
    <3> HIDE DEF opened
    <3>2. /\ DOMAIN sh' = DOMAIN Idle /\ sh'.programs = sh.programs /\ sh'.handles = sh.handles
          /\ sh'.pipes = sh.pipes /\ sh'.first_in = sh.first_in /\ sh'.pc = "clone"
          /\ sh'.last_out = opened.value /\ sh'.close_last = TRUE
          /\ sh'.left = sh.left /\ sh'.closing = sh.closing /\ os' = opened.os /\ prog' = prog
      BY <2>3 DEF IInv, Shapes, Idle, Calls
    <3>3. sh'.close_last = FileOut
      BY <1>3, <3>2 DEF FileOut
    <3> QED
      BY <1>1, <1>3, <2>3, <3>1, <3>2, <3>3, OutputOpenHolds
  <2>4. CASE /\ Calls(os, [sh EXCEPT !.pc = "say", !.say = Message(opened.error)[1]])
             /\ job' = [job EXCEPT !.went = "output"]
    <3> HIDE DEF opened
    <3> QED
      BY <1>1, <2>4, GivingUpHolds
  <2> QED
    BY <2>1, <2>2, <2>3, <2>4
<1> QED
  BY <1>2, <1>3

-----------------------------------------------------------------------------
(* Starting a pipeline                                                     *)

(* All that the shell closes as the programs end.                          *)
AllEnds == UNION {Ends(i) : i \in 1 .. Count_Programs}

(* The programs close all that the shell has made, but for the file at the *)
(* end.                                                                    *)
LEMMA EndsCover ==
  ASSUME sh.pipes \in Seq(Handle), Count_Programs \in Nat, Count_Programs > 0,
         Len(sh.pipes) = 2 * (Count_Programs - 1), sh.first_in # Kb <=> FileIn
  PROVE  /\ AllEnds
              = ToSet(sh.pipes) \cup (IF sh.first_in # Kb THEN {sh.first_in} ELSE {})
         /\ \A i, j \in 1 .. Count_Programs :
              (\A k, l \in DOMAIN sh.pipes : k # l => sh.pipes[k] # sh.pipes[l])
              /\ sh.first_in \notin ToSet(sh.pipes) /\ i # j => Ends(i) \cap Ends(j) = {}
<1> DEFINE n == Count_Programs
<1>1. DOMAIN sh.pipes = 1 .. 2 * (n - 1)
  OBVIOUS
<1>2. ASSUME NEW i \in 1 .. n, NEW x \in Ends(i)
      PROVE  \/ i < n /\ 2 * i - 1 \in DOMAIN sh.pipes /\ x = sh.pipes[2 * i - 1]
             \/ i > 1 /\ 2 * i - 2 \in DOMAIN sh.pipes /\ x = sh.pipes[2 * i - 2]
             \/ i = 1 /\ FileIn /\ x = sh.first_in
  <2>1. /\ i < n => 2 * i - 1 \in 1 .. 2 * (n - 1)
        /\ i > 1 => 2 * i - 2 \in 1 .. 2 * (n - 1)
    OBVIOUS
  <2> QED
    BY <1>1, <1>2, <2>1 DEF Ends
<1>3. ASSUME NEW x \in ToSet(sh.pipes)
      PROVE  \E i \in 1 .. n : x \in Ends(i)
  <2>1. PICK k \in 1 .. 2 * (n - 1) : x = sh.pipes[k]
    BY <1>1 DEF ToSet
  <2>2. PICK j \in 0 .. n - 1 : k = 2 * j \/ k = 2 * j + 1
    <3>1. k \div 2 \in 0 .. n - 1 /\ (k = 2 * (k \div 2) \/ k = 2 * (k \div 2) + 1)
      OBVIOUS
    <3> QED
      BY <3>1
  <2>3. CASE k = 2 * j
    <3>1. j + 1 \in 1 .. n /\ j + 1 > 1 /\ 2 * (j + 1) - 2 = k
      BY <2>3
    <3>2. x \in Ends(j + 1)
      BY <2>1, <3>1 DEF Ends
    <3> QED
      BY <3>1, <3>2
  <2>4. CASE k = 2 * j + 1
    <3>1. j + 1 \in 1 .. n /\ j + 1 < n /\ 2 * (j + 1) - 1 = k
      BY <2>4
    <3>2. x \in Ends(j + 1)
      BY <2>1, <3>1 DEF Ends
    <3> QED
      BY <3>1, <3>2
  <2> QED
    BY <2>2, <2>3, <2>4
<1>4. \A i \in 1 .. n : Ends(i) \subseteq ToSet(sh.pipes) \cup (IF FileIn THEN {sh.first_in} ELSE {})
  BY <1>2 DEF ToSet
<1>5. FileIn => sh.first_in \in Ends(1) /\ 1 \in 1 .. n
  BY DEF Ends
<1>6. ASSUME \A k, l \in DOMAIN sh.pipes : k # l => sh.pipes[k] # sh.pipes[l],
             sh.first_in \notin ToSet(sh.pipes), NEW i \in 1 .. n, NEW j \in 1 .. n, i # j,
             NEW x \in Ends(i), x \in Ends(j)
      PROVE  FALSE
  <2>1. \/ i < n /\ 2 * i - 1 \in DOMAIN sh.pipes /\ x = sh.pipes[2 * i - 1]
        \/ i > 1 /\ 2 * i - 2 \in DOMAIN sh.pipes /\ x = sh.pipes[2 * i - 2]
        \/ i = 1 /\ FileIn /\ x = sh.first_in
    BY <1>2
  <2>2. \/ j < n /\ 2 * j - 1 \in DOMAIN sh.pipes /\ x = sh.pipes[2 * j - 1]
        \/ j > 1 /\ 2 * j - 2 \in DOMAIN sh.pipes /\ x = sh.pipes[2 * j - 2]
        \/ j = 1 /\ FileIn /\ x = sh.first_in
    BY <1>2, <1>6
  <2>3. \A k \in DOMAIN sh.pipes : sh.pipes[k] # sh.first_in
    BY <1>6 DEF ToSet
  <2>4. 2 * i - 1 # 2 * j - 1 /\ 2 * i - 1 # 2 * j - 2 /\ 2 * i - 2 # 2 * j - 1 /\ 2 * i - 2 # 2 * j - 2
    BY <1>6
  <2> QED
    BY <1>6, <2>1, <2>2, <2>3, <2>4
<1> HIDE DEF n
<1>7. AllEnds = ToSet(sh.pipes) \cup (IF sh.first_in # Kb THEN {sh.first_in} ELSE {})
  BY <1>3, <1>4, <1>5 DEF AllEnds, n
<1>8. \A i, j \in 1 .. n :
        (\A k, l \in DOMAIN sh.pipes : k # l => sh.pipes[k] # sh.pipes[l])
        /\ sh.first_in \notin ToSet(sh.pipes) /\ i # j => Ends(i) \cap Ends(j) = {}
  BY <1>6
<1> QED
  BY <1>7, <1>8 DEF n

(* The pipes and files of a pipeline that has been prepared.               *)
LEMMA Prepared ==
  ASSUME IInv, sh.pc \in {"clone", "wait", "cancel"}
  PROVE  /\ Count_Programs \in Nat /\ Count_Programs > 0 /\ Len(sh.handles) \in Nat
         /\ Len(sh.handles) <= Count_Programs
         /\ sh.pipes \in Seq(Handle) /\ sh.handles \in Seq(Nat) /\ sh.closing \in Seq(Handle)
         /\ Len(sh.pipes) = 2 * (Count_Programs - 1)
         /\ (sh.first_in # Kb <=> FileIn) /\ (sh.close_last <=> FileOut)
         /\ sh.first_in \notin ToSet(sh.pipes) /\ sh.first_in \in Handle /\ sh.last_out \in Handle
         /\ sh.close_last => sh.last_out \notin ToSet(sh.pipes) \cup {sh.first_in}
         /\ ~sh.close_last => sh.last_out = Tty
         /\ \A k, l \in DOMAIN sh.pipes : k # l => sh.pipes[k] # sh.pipes[l]
         /\ \A i \in 1 .. Count_Programs :
              /\ To_Close(i) \in Seq(Handle) /\ ToSet(To_Close(i)) = Ends(i) /\ Ends(i) \subseteq Wires
              /\ \A k, l \in DOMAIN To_Close(i) : k # l => To_Close(i)[k] # To_Close(i)[l]
              /\ sh.close_last => sh.last_out \notin Ends(i)
              /\ \A j \in 1 .. Count_Programs : i # j => Ends(i) \cap Ends(j) = {}
         /\ AllEnds \cup (IF sh.close_last THEN {sh.last_out} ELSE {})
              = Wires
         /\ Kb \in DOMAIN job.before.files /\ Wires \cap DOMAIN job.before.files = {}
         /\ Count_Programs > 1 => Last(sh.programs).input.type # "File"
         /\ sh.pc # "cancel" => job.went = "done"
         /\ ~GaveUp
<1>1. /\ Count_Programs \in Nat /\ Count_Programs > 0 /\ Len(sh.handles) <= Count_Programs
      /\ sh.pipes \in Seq(Handle) /\ sh.handles \in Seq(Nat) /\ sh.closing \in Seq(Handle)
      /\ Count_Programs > 1 => Last(sh.programs).input.type # "File"
      /\ sh.pc # "cancel" => job.went = "done"
      /\ ~GaveUp
  BY DEF IInv, Plan, Pipeline, Count_Programs, GaveUp
<1>2. /\ Len(sh.pipes) = 2 * (Count_Programs - 1)
      /\ (sh.first_in # Kb <=> FileIn) /\ (sh.close_last <=> FileOut)
  BY DEF IInv, Wired, Pipeline
<1>3. /\ sh.first_in \notin ToSet(sh.pipes) /\ sh.first_in \in Handle /\ sh.last_out \in Handle
      /\ sh.close_last => sh.last_out \notin ToSet(sh.pipes) \cup {sh.first_in}
      /\ ~sh.close_last => sh.last_out = Tty
      /\ \A k, l \in DOMAIN sh.pipes : k # l => sh.pipes[k] # sh.pipes[l]
      /\ Kb \in DOMAIN job.before.files /\ Wires \cap DOMAIN job.before.files = {}
  BY DEF IInv, Wired
<1>4. /\ AllEnds
            = ToSet(sh.pipes) \cup (IF sh.first_in # Kb THEN {sh.first_in} ELSE {})
      /\ \A i, j \in 1 .. Count_Programs : i # j => Ends(i) \cap Ends(j) = {}
  BY <1>1, <1>2, <1>3, EndsCover
<1>5. AllEnds \cup (IF sh.close_last THEN {sh.last_out} ELSE {})
        = Wires
  BY <1>4 DEF Wires
<1>6. ASSUME NEW i \in 1 .. Count_Programs
      PROVE  /\ To_Close(i) \in Seq(Handle) /\ ToSet(To_Close(i)) = Ends(i) /\ Ends(i) \subseteq Wires
             /\ \A k, l \in DOMAIN To_Close(i) : k # l => To_Close(i)[k] # To_Close(i)[l]
             /\ sh.close_last => sh.last_out \notin Ends(i)
  <2>1. /\ To_Close(i) \in Seq(Handle) /\ ToSet(To_Close(i)) = Ends(i)
        /\ \A k, l \in DOMAIN To_Close(i) : k # l => To_Close(i)[k] # To_Close(i)[l]
    BY <1>1, <1>2, <1>3, ToCloseIs
  <2>2. Ends(i) \subseteq ToSet(sh.pipes) \cup {sh.first_in} /\ Ends(i) \subseteq AllEnds
    BY <1>4 DEF AllEnds
  <2> QED
    BY <1>3, <1>5, <2>1, <2>2
<1>7. Len(sh.handles) \in Nat
  BY <1>1
<1> QED
  BY <1>1, <1>2, <1>3, <1>4, <1>5, <1>6, <1>7

(* The file at the end does not belong to anybody else.                    *)
LEMMA NamesKept ==
  ASSUME IInv, sh.pc = "clone", sh'.programs = sh.programs, NEW h,
         sh'.handles = Append(sh.handles, h), NEW last, last = Count_Programs - Len(sh.handles)
  PROVE  /\ Ran("shutdown")' <=>
              Ran("shutdown") \/ Word(sh.programs[last].name) = "shutdown"
         /\ \A i \in Waited : Handle_Of(i)' = Handle_Of(i)
         /\ Handle_Of(last)' = h
<1> DEFINE n == Count_Programs
           m == Len(sh.handles)
<1>1. /\ n \in Nat /\ m \in Nat /\ m < n /\ sh.handles \in Seq(Nat)
      /\ sh.left = n - m + 1 .. n /\ Waited = sh.left
  BY Prepared DEF IInv, Plan, Waited
<1>2. /\ Len(sh'.handles) = m + 1 /\ Count_Programs' = n
      /\ \A k \in 1 .. m : sh'.handles[k] = sh.handles[k]
      /\ sh'.handles[m + 1] = h
  BY <1>1 DEF Count_Programs
<1>0. last = n - m
  OBVIOUS
<1> HIDE DEF n, m
<1>3. n - (m + 1) + 1 .. n = (n - m + 1 .. n) \cup {last}
  <2>1. ASSUME NEW i \in n - (m + 1) + 1 .. n PROVE i \in (n - m + 1 .. n) \cup {last}
    BY <1>0, <1>1
  <2>2. ASSUME NEW i \in n - m + 1 .. n PROVE i \in n - (m + 1) + 1 .. n
    BY <1>1
  <2>3. last \in n - (m + 1) + 1 .. n
    BY <1>0, <1>1
  <2> QED
    BY <2>1, <2>2, <2>3
<1>4. Ran("shutdown")' <=> Ran("shutdown") \/ Word(sh.programs[last].name) = "shutdown"
  <2>1. Ran("shutdown")' <=> \E i \in n - (m + 1) + 1 .. n : Word(sh.programs[i].name) = "shutdown"
    BY <1>2 DEF Ran
  <2>2. Ran("shutdown") <=> \E i \in n - m + 1 .. n : Word(sh.programs[i].name) = "shutdown"
    BY DEF Ran, n, m
  <2> QED
    BY <1>3, <2>1, <2>2
<1>5. \A i \in Waited : Handle_Of(i)' = Handle_Of(i)
  <2> SUFFICES ASSUME NEW i \in n - m + 1 .. n PROVE Handle_Of(i)' = Handle_Of(i)
    BY <1>1
  <2>1. n - i + 1 \in 1 .. m
    BY <1>1
  <2> QED
    BY <1>2, <2>1 DEF Handle_Of, n
<1>6. Handle_Of(last)' = h
  <2>1. n - last + 1 = m + 1
    BY <1>0, <1>1
  <2> QED
    BY <1>2, <2>1 DEF Handle_Of
<1> QED
  BY <1>4, <1>5, <1>6 DEF n, m

(* What is left of it.                                                     *)
Unclosed == UNION {ToSet(To_Close(i)) : i \in sh.left}

(* A program that is cloned into a pipeline takes its place: what the shell*)
(* will close when it has ended is still open.                             *)
LEMMA CloneNextHolds ==
  ASSUME IInv, CloneNext
  PROVE  IInv'
<1> PICK i : i = Count_Programs - Len(sh.handles)
  OBVIOUS
<1> PICK h : h = NextPid
  OBVIOUS
<1> PICK in, out : in = Input_Of(i) /\ out = Output_Of(i)
  OBVIOUS
<1>1. /\ sh.pc = "clone" /\ Clone(sh.programs[i], in, out) /\ job' = job
      /\ sh' = [sh EXCEPT !.handles = Append(@, h), !.left = @ \cup {i},
                          !.pc = IF i = 1 THEN "wait" ELSE "clone"]
  BY DEF CloneNext, At
<1>2. Cloned(h, sh.programs[i], in, out)
  BY <1>1, CloneAdds
<1>3. /\ DOMAIN sh' = DOMAIN Idle /\ sh'.programs = sh.programs /\ sh'.handles = Append(sh.handles, h)
      /\ sh'.pipes = sh.pipes /\ sh'.first_in = sh.first_in
      /\ sh'.last_out = sh.last_out /\ sh'.close_last = sh.close_last
      /\ sh'.left = sh.left \cup {i} /\ sh'.closing = sh.closing
      /\ sh'.pc = IF i = 1 THEN "wait" ELSE "clone"
  BY <1>1 DEF IInv, Shapes, Idle
<1>4. /\ Shapes' /\ Owns' = Owns /\ h \notin DOMAIN prog
      /\ \A p \in DOMAIN prog : prog'[p] = prog[p]
      /\ AboutToClose => AboutToClose'
  BY <1>1, <1>2, <1>3, CloneShapes
<1>5. /\ Count_Programs \in Nat /\ Count_Programs > 0 /\ Len(sh.handles) \in Nat
      /\ Len(sh.handles) < Count_Programs
      /\ sh.pipes \in Seq(Handle) /\ sh.handles \in Seq(Nat) /\ sh.closing = <<>>
      /\ Len(sh.pipes) = 2 * (Count_Programs - 1)
      /\ sh.left = Count_Programs - Len(sh.handles) + 1 .. Count_Programs
      /\ job.went = "done" /\ ~GaveUp
  BY <1>1, Prepared DEF IInv, Plan
<1>6. /\ i \in 1 .. Count_Programs
      /\ i = 1 => sh'.left = 1 .. Count_Programs /\ Len(sh'.handles) = Count_Programs
      /\ sh'.left = Count_Programs - Len(sh'.handles) + 1 .. Count_Programs
      /\ Len(sh'.handles) = Len(sh.handles) + 1 /\ sh'.handles \in Seq(Nat)
      /\ i # 1 => Len(sh'.handles) < Count_Programs
      /\ i \notin sh.left
  <2> DEFINE n == Count_Programs
             m == Len(sh.handles)
  <2>1. Len(sh'.handles) = m + 1 /\ sh'.handles \in Seq(Nat)
    BY <1>2, <1>3, <1>5 DEF Cloned
  <2>2. i \in 1 .. n /\ i = n - m /\ n \in Nat /\ m \in Nat /\ m < n
    BY <1>5
  <2>3. sh'.left = (n - m + 1 .. n) \cup {i}
    BY <1>3, <1>5
  <2> HIDE DEF n, m
  <2>4. (n - m + 1 .. n) \cup {i} = n - (m + 1) + 1 .. n
    <3>1. ASSUME NEW k \in n - (m + 1) + 1 .. n PROVE k \in (n - m + 1 .. n) \cup {i}
      BY <2>2
    <3>2. ASSUME NEW k \in n - m + 1 .. n PROVE k \in n - (m + 1) + 1 .. n
      BY <2>2
    <3>3. i \in n - (m + 1) + 1 .. n
      BY <2>2
    <3> QED
      BY <3>1, <3>2, <3>3
  <2>5. i \notin n - m + 1 .. n
    BY <2>2
  <2>6. i = 1 => m + 1 = n /\ n - (m + 1) + 1 .. n = 1 .. n
    BY <2>2
  <2>7. i # 1 => m + 1 < n
    BY <2>2
  <2> QED
    BY <1>5, <2>1, <2>2, <2>3, <2>4, <2>5, <2>6, <2>7 DEF n, m
<1>7. /\ Count_Programs' = Count_Programs /\ FileIn' = FileIn /\ FileOut' = FileOut /\ ~GaveUp'
      /\ Wires' = Wires /\ Waited = sh.left /\ Waited' = sh.left \cup {i} /\ TerminalClosed' = TerminalClosed
      /\ \A k : Input_Of(k)' = Input_Of(k) /\ Output_Of(k)' = Output_Of(k) /\ To_Close(k)' = To_Close(k)
  BY <1>1, <1>3, <1>5 DEF Count_Programs, FileIn, FileOut, GaveUp, Wires, Waited, TerminalClosed,
                          Input_Of, Output_Of, To_Close
<1>8. /\ Ran("shutdown")' <=> Ran("shutdown") \/ Word(sh.programs[i].name) = "shutdown"
      /\ \A k \in Waited : Handle_Of(k)' = Handle_Of(k)
      /\ Handle_Of(i)' = h
  BY <1>1, <1>3, NamesKept
<1>9. Outstanding = Wires /\ Outstanding' = Wires
  <2>1. Outstanding = Wires
    BY <1>1 DEF Outstanding
  <2>2. CASE i # 1
    <3>1. sh'.pc = "clone"
      BY <1>3, <2>2
    <3>2. Outstanding' = Wires'
      BY <3>1 DEF Outstanding
    <3> QED
      BY <1>7, <2>1, <3>2
  <2>3. CASE i = 1
    <3>1. /\ sh'.pc = "wait" /\ ~GaveUp' /\ job'.went = "done" /\ sh'.closing = <<>> /\ ToSet(<<>>) = {}
          /\ sh'.last_out = sh.last_out /\ sh'.close_last = sh.close_last
      BY <1>1, <1>3, <1>5, <1>7, <2>3, ToSetFacts
    <3>2. Unclosed' = AllEnds
      <4>1. \A k \in 1 .. Count_Programs : ToSet(To_Close(k)) = Ends(k)
        BY <1>1, Prepared
      <4>2. sh'.left = 1 .. Count_Programs
        BY <1>6, <2>3
      <4>3. {ToSet(To_Close(k)') : k \in sh'.left} = {Ends(k) : k \in 1 .. Count_Programs}
        BY <1>7, <4>1, <4>2
      <4> QED
        BY <4>3 DEF Unclosed, AllEnds
    <3>3. AllEnds \cup (IF sh.close_last THEN {sh.last_out} ELSE {}) = Wires
      BY <1>1, Prepared
    <3>4. Outstanding' = ToSet(sh'.closing) \cup Unclosed' \cup (IF sh'.close_last THEN {sh'.last_out} ELSE {})
      BY <3>1 DEF Outstanding, Unclosed
    <3> QED
      BY <2>1, <3>1, <3>2, <3>3, <3>4
  <2> QED
    BY <2>1, <2>2, <2>3
<1>10. /\ Lost \subseteq Lost' /\ Lost' \subseteq Lost \cup {Kb}
       /\ Lost' # Lost => AboutToClose'
       /\ Clean' => Clean
  <2>1. Word(sh.programs[i].name) = "shutdown" => AboutToClose'
    BY <1>2 DEF AboutToClose, Cloned
  <2> QED
    BY <1>1, <1>7, <1>8, <2>1 DEF Lost, Clean
<1>11. Plan'
  <2>1. /\ Len(sh.programs) \in Nat /\ (Count_Programs > 1 => Last(sh.programs).input.type # "File")
    BY <1>1, Prepared DEF Count_Programs
  <2>2. /\ sh'.pc \in {"clone", "wait"} /\ job'.went = "done" /\ Len(sh'.programs) \in Nat
        /\ sh'.pipes \in Seq(Handle) /\ sh'.handles \in Seq(Nat) /\ sh'.closing = <<>>
        /\ <<>> \in Seq(Handle)
        /\ Len(sh'.handles) <= Count_Programs' /\ Count_Programs' > 0
        /\ (Count_Programs' > 1 => Last(sh'.programs).input.type # "File")
    BY <1>1, <1>3, <1>5, <1>6, <1>7, <2>1
  <2>3. sh'.pc = "clone" => Len(sh'.handles) < Count_Programs'
                            /\ sh'.left = Count_Programs' - Len(sh'.handles) + 1 .. Count_Programs'
    BY <1>3, <1>6, <1>7
  <2>4. sh'.pc = "wait" => Len(sh'.handles) = Count_Programs' /\ sh'.left \subseteq 1 .. Count_Programs'
    BY <1>3, <1>6, <1>7
  <2> QED
    BY <1>7, <2>2, <2>3, <2>4 DEF Plan, Pipeline
<1>12. Wired'
  <2>1. /\ Wired /\ sh'.pc \in {"clone", "wait"} /\ ToSet(sh'.closing) = {}
    BY <1>3, <1>5, ToSetFacts DEF IInv
  <2> QED
    BY <1>1, <1>3, <1>5, <1>7, <2>1 DEF Wired, Pipeline
<1>13. Threads'
  <2>1. /\ DOMAIN os.pcb = {ShellPid} \cup {Handle_Of(k) : k \in Waited} /\ os.pcb[ShellPid].std_in = Kb
    BY <1>1 DEF IInv, Threads
  <2>2. h # ShellPid /\ \A k \in Waited : Handle_Of(k) # h
    BY <1>2, <2>1 DEF Cloned
  <2>3. DOMAIN os'.pcb = {ShellPid} \cup {Handle_Of(k)' : k \in Waited'}
    <3>1. {Handle_Of(k)' : k \in Waited'} = {Handle_Of(k) : k \in Waited} \cup {h}
      BY <1>7, <1>8
    <3> QED
      BY <1>2, <2>1, <3>1 DEF Cloned
  <2>4. os'.pcb[ShellPid].std_in = Kb
    BY <1>2, <2>1 DEF Cloned
  <2>5. ASSUME NEW k \in Waited'
        PROVE  /\ Handle_Of(k)' # ShellPid
               /\ os'.pcb[Handle_Of(k)'].std_in = Input_Of(k) /\ os'.pcb[Handle_Of(k)'].std_out = Output_Of(k)
               /\ \A j \in Waited' : Handle_Of(k)' = Handle_Of(j)' => k = j
    <3>1. CASE k = i
      BY <1>2, <1>7, <1>8, <2>2, <3>1 DEF Cloned
    <3>2. CASE k # i
      <4>1. k \in Waited /\ Handle_Of(k)' = Handle_Of(k)
        BY <1>7, <1>8, <3>2
      <4>2. /\ Handle_Of(k) # ShellPid
            /\ os.pcb[Handle_Of(k)].std_in = Input_Of(k) /\ os.pcb[Handle_Of(k)].std_out = Output_Of(k)
            /\ \A j \in Waited : Handle_Of(k) = Handle_Of(j) => k = j
        BY <4>1 DEF IInv, Threads
      <4>3. os'.pcb[Handle_Of(k)] = os.pcb[Handle_Of(k)]
        BY <1>2, <2>1, <4>1 DEF Cloned
      <4> QED
        BY <1>7, <1>8, <2>2, <4>1, <4>2, <4>3
    <3> QED
      BY <3>1, <3>2
  <2>6. ASSUME NEW p \in DOMAIN prog'
        PROVE  /\ os'.pcb[p].status = "Running" /\ Owning(prog'[p])
               /\ \E k \in Waited' : p = Handle_Of(k)' /\ prog'[p].name = Word(sh'.programs[k].name)
    <3>1. CASE p = h
      BY <1>2, <1>3, <1>7, <1>8, <3>1 DEF Cloned, Owning
    <3>2. CASE p # h
      <4>1. p \in DOMAIN prog /\ prog'[p] = prog[p] /\ p \in DOMAIN os.pcb /\ os'.pcb[p] = os.pcb[p]
        BY <1>2, <1>4, <3>2, NotOff DEF Cloned
      <4>2. /\ os.pcb[p].status = "Running" /\ Owning(prog[p])
            /\ \E k \in Waited : p = Handle_Of(k) /\ prog[p].name = Word(sh.programs[k].name)
        BY <4>1 DEF IInv, Threads
      <4> QED
        BY <1>3, <1>7, <1>8, <4>1, <4>2
    <3> QED
      BY <3>1, <3>2
  <2> QED
    BY <1>7, <2>3, <2>4, <2>5, <2>6 DEF Threads
<1>14. Accounted'
  <2>1. os'.files = os.files /\ job'.before = job.before /\ sh'.pc \in {"clone", "wait"} /\ job'.went = "done"
    BY <1>1, <1>2, <1>3, <1>5 DEF Cloned
  <2>2. \A k \in DOMAIN os.files :
          k \in (DOMAIN job.before.files \ Lost) \cup Wires \cup Owns \/ (k = Kb /\ AboutToClose)
    BY <1>1, <1>9 DEF IInv, Accounted
  <2>3. \A k \in DOMAIN os'.files :
          k \in (DOMAIN job'.before.files \ Lost') \cup Outstanding' \cup Owns' \/ (k = Kb /\ AboutToClose')
    BY <1>4, <1>9, <1>10, <2>1, <2>2
  <2>4. \A k \in DOMAIN job'.before.files \ Lost' :
          k \in DOMAIN os'.files /\ Same(os'.files[k], job'.before.files[k]) /\ k \notin Owns'
    BY <1>1, <1>4, <1>10, <2>1 DEF IInv, Accounted
  <2>5. sh'.close_last => sh'.last_out \in DOMAIN os'.files \ (Owns' \cup ToSet(sh'.closing))
    BY <1>1, <1>3, <1>4, <2>1 DEF IInv, Accounted
  <2> QED
    BY <1>7, <2>1, <2>3, <2>4, <2>5 DEF Accounted
<1>15. Orderly'
  <2> SUFFICES ASSUME Clean' PROVE Orderly'
    BY DEF Orderly
  <2>0. Clean /\ sh.pc # "off"
    BY <1>1, <1>10
  <2>1. /\ Outstanding \subseteq DOMAIN os.files
        /\ Owns \subseteq DOMAIN os.files /\ Owns \cap Outstanding = {}
        /\ \A p, q \in DOMAIN prog : p # q => prog[p].own \cap prog[q].own = {}
        /\ \A p \in DOMAIN prog :
             Same(Denoted(StdIn(p)), prog[p].given[1]) /\ Same(Denoted(StdOut(p)), prog[p].given[2])
    BY <2>0 DEF IInv, Orderly
  <2>2. /\ os'.files = os.files /\ DOMAIN prog' = DOMAIN prog \cup {h} /\ prog'[h].own = {}
        /\ sh'.closing = <<>> /\ ToSet(<<>>) = {} /\ DOMAIN <<>> = {}
    BY <1>2, <1>3, <1>5, ToSetFacts DEF Cloned
  <2>3. \A x : Denoted(x)' = Denoted(x)
    BY <2>2 DEF Denoted
  <2>4. ASSUME NEW p \in DOMAIN prog'
        PROVE  Same(Denoted(StdIn(p)), prog[p].given[1])' /\ Same(Denoted(StdOut(p)), prog[p].given[2])'
    <3>1. CASE p = h
      <4>1. /\ os'.pcb[h].std_in = in /\ os'.pcb[h].std_out = out
            /\ prog'[h].given[1] = Denoted(in) /\ prog'[h].given[2] = Denoted(out)
        BY <1>2 DEF Cloned
      <4>2. StdIn(h)' = in /\ StdOut(h)' = out
        BY <4>1 DEF StdIn, StdOut
      <4>3. (Denoted(StdIn(h)))' = Denoted(in) /\ (Denoted(StdOut(h)))' = Denoted(out)
        BY <2>2, <4>2 DEF Denoted
      <4> QED
        BY <3>1, <4>1, <4>3 DEF Same
    <3>2. CASE p # h
      <4>1. p \in DOMAIN prog /\ prog'[p] = prog[p] /\ p \in DOMAIN os.pcb
        BY <1>4, <2>2, <3>2, NotOff
      <4>2. StdIn(p)' = StdIn(p) /\ StdOut(p)' = StdOut(p)
        BY <1>2, <4>1 DEF StdIn, StdOut, Cloned
      <4> QED
        BY <2>1, <2>2, <4>1, <4>2 DEF Same, Denoted
    <3> QED
      BY <3>1, <3>2
  <2>5. \A p, q \in DOMAIN prog' : p # q => prog'[p].own \cap prog'[q].own = {}
    BY <1>4, <2>1, <2>2
  <2> QED
    BY <1>4, <1>9, <2>1, <2>2, <2>4, <2>5 DEF Orderly
<1> QED
  BY <1>4, <1>11, <1>12, <1>13, <1>14, <1>15 DEF IInv

(* A command that is cancelled closes what the shell opened, but for the   *)
(* file at the end, and what is lost is known.                             *)
LEMMA CancelHolds ==
  ASSUME IInv, Cancel
  PROVE  IInv'
<1> DEFINE LastIn == Last(sh.programs).input.type = "File"
           ends == sh.pipes \o (IF FileIn THEN <<sh.first_in>> ELSE <<>>)
           all == ends \o (IF LastIn THEN <<sh.last_out>> ELSE <<>>)
<1>1. /\ sh.pc = "clone" /\ os' = os /\ prog' = prog
      /\ sh' = [sh EXCEPT !.pc = "cancel", !.closing = all]
      /\ job' = [job EXCEPT !.went = "cancelled"]
  BY DEF Cancel, At, Calls, FileIn
<1>2. /\ DOMAIN sh' = DOMAIN Idle /\ sh'.programs = sh.programs /\ sh'.handles = sh.handles
      /\ sh'.pipes = sh.pipes /\ sh'.first_in = sh.first_in
      /\ sh'.last_out = sh.last_out /\ sh'.close_last = sh.close_last
      /\ sh'.left = sh.left /\ sh'.closing = all /\ sh'.pc = "cancel"
  BY <1>1 DEF IInv, Shapes, Idle
<1>3. /\ DOMAIN job' = {"command", "glued", "before", "went"} /\ job'.went = "cancelled"
      /\ job'.before = job.before
  BY <1>1 DEF IInv, Shapes
<1>4. /\ Count_Programs \in Nat /\ Count_Programs > 0 /\ Len(sh.handles) \in Nat
      /\ Len(sh.handles) < Count_Programs /\ Len(sh.programs) \in Nat
      /\ sh.pipes \in Seq(Handle) /\ sh.handles \in Seq(Nat)
      /\ sh.left = Count_Programs - Len(sh.handles) + 1 .. Count_Programs
      /\ Len(sh.pipes) = 2 * (Count_Programs - 1)
      /\ sh.first_in # Kb <=> FileIn
      /\ sh.close_last <=> FileOut
      /\ sh.first_in \in Handle /\ sh.last_out \in Handle
      /\ sh.close_last => sh.last_out \notin ToSet(sh.pipes) \cup {sh.first_in}
      /\ ~sh.close_last => sh.last_out = Tty
      /\ Count_Programs > 1 => ~LastIn
      /\ ~GaveUp /\ sh.closing = <<>>
  BY <1>1, Prepared DEF IInv, Plan, Count_Programs
<1>5. Count_Programs = 1 => (LastIn <=> FileIn)
  BY DEF Count_Programs, FileIn, Last
<1>6. all \in Seq(Handle)
      /\ ToSet(all) = ToSet(sh.pipes) \cup (IF FileIn THEN {sh.first_in} ELSE {})
                        \cup (IF LastIn THEN {sh.last_out} ELSE {})
  <2> DEFINE x == IF FileIn THEN <<sh.first_in>> ELSE <<>>
             y == IF LastIn THEN <<sh.last_out>> ELSE <<>>
  <2>1. x \in Seq(Handle) /\ ToSet(x) = IF FileIn THEN {sh.first_in} ELSE {}
    BY <1>4, ToSetFacts
  <2>2. y \in Seq(Handle) /\ ToSet(y) = IF LastIn THEN {sh.last_out} ELSE {}
    BY <1>4, ToSetFacts
  <2>3. ends = sh.pipes \o x /\ all = (sh.pipes \o x) \o y
    OBVIOUS
  <2> HIDE DEF x, y, ends, all
  <2> DEFINE p == sh.pipes \o x
  <2>4. p \in Seq(Handle) /\ ToSet(p) = ToSet(sh.pipes) \cup ToSet(x)
    BY <1>4, <2>1, ToSetFacts
  <2> HIDE DEF p
  <2>5. p \o y \in Seq(Handle) /\ ToSet(p \o y) = ToSet(p) \cup ToSet(y)
    BY <2>2, <2>4, Joining
  <2>6. all = p \o y
    BY <2>3 DEF p
  <2> QED
    BY <2>1, <2>2, <2>4, <2>5, <2>6
<1> HIDE DEF all, ends
<1>7. /\ Count_Programs' = Count_Programs /\ FileIn' = FileIn /\ FileOut' = FileOut /\ ~GaveUp'
      /\ Wires' = Wires /\ Waited = sh.left /\ Waited' = sh.left /\ LeavesLast' = LeavesLast
      /\ \A k : Input_Of(k)' = Input_Of(k) /\ Output_Of(k)' = Output_Of(k) /\ Handle_Of(k)' = Handle_Of(k)
      /\ Ran("shutdown")' = Ran("shutdown")
      /\ Owns' = Owns /\ AboutToClose' = AboutToClose /\ ~Clean'
  BY <1>1, <1>2, <1>3 DEF Count_Programs, FileIn, FileOut, GaveUp, Wires, Waited, LeavesLast,
        Input_Of, Output_Of, Handle_Of, Ran, Owns, AboutToClose, Clean
<1>8. TerminalClosed' <=> Count_Programs = 1 /\ FileIn /\ ~sh.close_last
  BY <1>2, <1>3, <1>4 DEF TerminalClosed, FileIn, FileOut, Count_Programs, Last
<1>9. ~TerminalClosed
  BY <1>1, Prepared DEF TerminalClosed
<1>10. LeavesLast <=> sh.close_last /\ ~LastIn
  BY <1>4, <1>5 DEF LeavesLast
<1>11. ToSet(all) \cup (IF LeavesLast THEN {sh.last_out} ELSE {})
         = Wires \cup (IF TerminalClosed' THEN {Tty} ELSE {})
  BY <1>4, <1>5, <1>6, <1>8, <1>10 DEF Wires
<1>12. /\ Outstanding = Wires /\ Outstanding' = Wires \cup (IF TerminalClosed' THEN {Tty} ELSE {})
       /\ Lost' = Lost \cup (IF TerminalClosed' THEN {Tty} ELSE {})
  <2>1. Outstanding = Wires
    BY <1>1 DEF Outstanding
  <2>2. Outstanding' = ToSet(all) \cup (IF LeavesLast THEN {sh.last_out} ELSE {})
    BY <1>2, <1>3, <1>7 DEF Outstanding
  <2>3. Lost' = Lost \cup (IF TerminalClosed' THEN {Tty} ELSE {})
    BY <1>7, <1>9 DEF Lost
  <2> QED
    BY <1>11, <2>1, <2>2, <2>3
<1>13. Shapes'
  BY <1>1, <1>2, <1>3 DEF IInv, Shapes, KernelOK
<1>14. Plan'
  BY <1>2, <1>3, <1>4, <1>6, <1>7 DEF Plan, Pipeline
<1>15. Wired'
  <2>1. ToSet(sh'.closing) \subseteq Wires' \cup (IF TerminalClosed' THEN {Tty} ELSE {})
    BY <1>2, <1>7, <1>11
  <2>2. /\ Wired /\ sh.pc = "clone" /\ sh'.pc = "cancel" /\ job'.went = "cancelled"
    BY <1>1, <1>2, <1>3 DEF IInv
  <2> QED
    BY <1>2, <1>3, <1>4, <1>7, <2>1, <2>2 DEF Wired, Pipeline
<1>16. Threads'
  BY <1>1, <1>2, <1>7 DEF IInv, Threads
<1>17. Accounted'
  <2>1. \A h \in DOMAIN os.files :
          h \in (DOMAIN job.before.files \ Lost) \cup Wires \cup Owns \/ (h = Kb /\ AboutToClose)
    BY <1>1, <1>12 DEF IInv, Accounted
  <2>2. \A h \in DOMAIN job.before.files \ Lost :
          h \in DOMAIN os.files /\ Same(os.files[h], job.before.files[h]) /\ h \notin Owns
    BY <1>1 DEF IInv, Accounted
  <2>3. LeavesLast => sh.last_out \in DOMAIN os.files \ (Owns \cup ToSet(all))
    <3>1. sh.close_last => sh.last_out \in DOMAIN os.files \ Owns
      BY <1>1 DEF IInv, Accounted
    <3> QED
      BY <1>4, <1>6, <1>10, <3>1
  <2>4. \A h \in DOMAIN os'.files :
          h \in (DOMAIN job'.before.files \ Lost') \cup Outstanding' \cup Owns' \/ (h = Kb /\ AboutToClose')
    BY <1>1, <1>3, <1>7, <1>12, <2>1
  <2> QED
    BY <1>1, <1>2, <1>3, <1>7, <1>12, <2>2, <2>3, <2>4 DEF Accounted
<1>18. Orderly'
  BY <1>7 DEF Orderly
<1> QED
  BY <1>13, <1>14, <1>15, <1>16, <1>17, <1>18 DEF IInv

-----------------------------------------------------------------------------
(* Ending a pipeline                                                       *)

(* A program is given what is closed when it has ended, the keyboard, the  *)
(* terminal and the file at the end.                                       *)
LEMMA GivenEnds ==
  ASSUME IInv, sh.pc \in {"clone", "wait", "cancel"}, NEW i \in 1 .. Count_Programs
  PROVE  /\ Input_Of(i) \in {Kb} \cup Ends(i)
         /\ Output_Of(i) \in Ends(i) \cup (IF sh.close_last THEN {sh.last_out} ELSE {Tty})
<1>1. /\ Count_Programs \in Nat /\ (sh.first_in # Kb <=> FileIn) /\ (~sh.close_last => sh.last_out = Tty)
  BY Prepared
<1>2. 2 * (i - 1) = 2 * i - 2 /\ (i # 1 => i > 1) /\ (i # Count_Programs => i < Count_Programs)
  BY <1>1
<1> QED
  BY <1>1, <1>2 DEF Input_Of, Output_Of, Ends

(* The first element of a sequence and the rest.                           *)
LEMMA FirstOf ==
  ASSUME NEW S, NEW s \in Seq(S), s # <<>>
  PROVE  /\ Head(s) \in S /\ Tail(s) \in Seq(S) /\ ToSet(s) = {Head(s)} \cup ToSet(Tail(s))
         /\ (\A k, l \in DOMAIN s : k # l => s[k] # s[l]) =>
              /\ Head(s) \notin ToSet(Tail(s))
              /\ \A k, l \in DOMAIN Tail(s) : k # l => Tail(s)[k] # Tail(s)[l]
<1>1. /\ Len(s) \in Nat /\ Len(s) > 0 /\ DOMAIN s = 1 .. Len(s) /\ Head(s) = s[1] /\ Head(s) \in S
      /\ Tail(s) \in Seq(S) /\ DOMAIN Tail(s) = 1 .. Len(s) - 1
      /\ \A k \in 1 .. Len(s) - 1 : Tail(s)[k] = s[k + 1]
  OBVIOUS
<1>2. \A x : x \in ToSet(s) <=> \E k \in 1 .. Len(s) : x = s[k]
  BY <1>1 DEF ToSet
<1>3. \A x : x \in ToSet(Tail(s)) <=> \E k \in 1 .. Len(s) - 1 : x = s[k + 1]
  BY <1>1 DEF ToSet
<1>4. ASSUME NEW k \in 1 .. Len(s)
      PROVE  k = 1 \/ \E l \in 1 .. Len(s) - 1 : k = l + 1
  <2>1. k # 1 => k - 1 \in 1 .. Len(s) - 1 /\ k = (k - 1) + 1
    BY <1>1
  <2> QED
    BY <2>1
<1>5. \A l \in 1 .. Len(s) - 1 : l + 1 \in 1 .. Len(s) /\ l + 1 # 1
  BY <1>1
<1>6. 1 \in 1 .. Len(s)
  BY <1>1
<1>7. ToSet(s) = {Head(s)} \cup ToSet(Tail(s))
  <2>1. ASSUME NEW x \in ToSet(s) PROVE x \in {Head(s)} \cup ToSet(Tail(s))
    BY <1>1, <1>2, <1>3, <1>4, <2>1
  <2>2. ASSUME NEW x \in ToSet(Tail(s)) PROVE x \in ToSet(s)
    BY <1>2, <1>3, <1>5, <2>2
  <2>3. Head(s) \in ToSet(s)
    BY <1>1, <1>2, <1>6
  <2> QED
    BY <2>1, <2>2, <2>3
<1>8. ASSUME \A k, l \in DOMAIN s : k # l => s[k] # s[l]
      PROVE  /\ Head(s) \notin ToSet(Tail(s))
             /\ \A k, l \in DOMAIN Tail(s) : k # l => Tail(s)[k] # Tail(s)[l]
  <2>1. Head(s) \notin ToSet(Tail(s))
    BY <1>1, <1>3, <1>5, <1>6, <1>8
  <2>2. ASSUME NEW k \in 1 .. Len(s) - 1, NEW l \in 1 .. Len(s) - 1, k # l
        PROVE  Tail(s)[k] # Tail(s)[l]
    <3>1. k + 1 \in DOMAIN s /\ l + 1 \in DOMAIN s /\ k + 1 # l + 1
      BY <1>1, <2>2
    <3> QED
      BY <1>1, <1>8, <3>1
  <2> QED
    BY <1>1, <2>1, <2>2
<1> QED
  BY <1>1, <1>7, <1>8

(* The shell closes the next handle that it has to, and that handle is in  *)
(* no other place.                                                         *)
LEMMA ClosesNext ==
  ASSUME IInv, NEW x, x = Head(sh.closing),
         sh.pc \in {"cancel", "wait"}, sh.closing # <<>>, os' = Close_File(os, x).os,
         sh' = [sh EXCEPT !.closing = Tail(@)], job' = job,
         NEW ps \in SUBSET Strands(x), prog' = Stranded(ps)
  PROVE  IInv'
<1>0. DOMAIN prog' = DOMAIN prog /\ \A q \in DOMAIN prog : Like(prog[q], prog'[q])
  BY StrandedLike DEF IInv, Shapes, Threads, Stranded
<1>1. /\ sh.pc \in {"cancel", "wait"} /\ sh.closing # <<>> /\ os' = Close_File(os, x).os
      /\ sh' = [sh EXCEPT !.closing = Tail(@)] /\ job' = job
  OBVIOUS
<1>2. SameWires /\ sh'.pc = sh.pc /\ sh'.left = sh.left /\ sh'.closing = Tail(sh.closing)
  BY <1>1 DEF IInv, Shapes, Idle, SameWires
<1>3. /\ sh.closing \in Seq(Handle) /\ Tail(sh.closing) \in Seq(Handle)
      /\ ToSet(sh.closing) = {x} \cup ToSet(sh'.closing)
      /\ (\A k, l \in DOMAIN sh.closing : k # l => sh.closing[k] # sh.closing[l]) =>
           /\ x \notin ToSet(sh'.closing)
           /\ \A k, l \in DOMAIN sh'.closing : k # l => sh'.closing[k] # sh'.closing[l]
  <2>1. sh.closing \in Seq(Handle)
    BY <1>1, Prepared
  <2> QED
    BY <1>1, <1>2, <2>1, FirstOf
<1>4. /\ DOMAIN os' = Kernel /\ os'.last = os.last /\ os'.pcb = os.pcb
      /\ DOMAIN os'.files = DOMAIN os.files \ {x}
      /\ \A k \in DOMAIN os.files \ {x} : os'.files[k] = os.files[k]
  <2>1. IF x \in DOMAIN os.files THEN Removed(os, os', x) ELSE os' = os
    BY <1>1, CloseRemoves DEF IInv, Shapes, KernelOK
  <2> QED
    BY <2>1 DEF Removed, IInv, Shapes, KernelOK
<1>5. /\ \A i : /\ Handle_Of(i)' = Handle_Of(i) /\ Input_Of(i)' = Input_Of(i) /\ Output_Of(i)' = Output_Of(i)
                /\ To_Close(i)' = To_Close(i)
      /\ Wires' = Wires /\ LeavesLast' = LeavesLast /\ GaveUp' = GaveUp
      /\ Count_Programs' = Count_Programs /\ FileIn' = FileIn /\ FileOut' = FileOut
      /\ TerminalClosed' = TerminalClosed /\ Lost' = Lost /\ Clean' = Clean
  BY <1>1, <1>2, SameWiresKeeps
<1>6. /\ Waited' = Waited /\ Owns' = Owns /\ AboutToClose' = AboutToClose /\ ~GaveUp
  <2>1. Waited' = Waited /\ ~GaveUp
    BY <1>1, <1>2, Prepared DEF Waited
  <2>2. Owns' = Owns
    BY <1>0 DEF Owns, Like
  <2>3. \A q \in DOMAIN prog :
          /\ prog'[q].name = prog[q].name /\ prog'[q].todo = prog[q].todo
          /\ prog'[q].pc = "start" <=> prog[q].pc = "start"
          /\ prog'[q].pc = "kill" <=> prog[q].pc = "kill"
    BY <1>0 DEF Like
  <2>4. AboutToClose' = AboutToClose
    BY <1>0, <2>3 DEF AboutToClose
  <2> QED
    BY <2>1, <2>2, <2>4
<1>7. /\ x \in Wires \cup (IF TerminalClosed THEN {Tty} ELSE {})
      /\ ToSet(sh.closing) \subseteq Wires \cup (IF TerminalClosed THEN {Tty} ELSE {})
      /\ sh.pc = "wait" => ToSet(sh.closing) \subseteq Wires /\ x \in Wires
  BY <1>1, <1>3 DEF IInv, Wired
<1>8. /\ Outstanding = Outstanding' \cup {x}
      /\ sh.pc = "wait" =>
           Outstanding' = ToSet(sh'.closing) \cup Unclosed \cup (IF sh.close_last THEN {sh.last_out} ELSE {})
  <2> DEFINE end == IF (sh.pc = "wait" /\ sh.close_last) \/ (job.went = "cancelled" /\ LeavesLast)
                    THEN {sh.last_out} ELSE {}
             some == IF sh.pc = "wait" THEN Unclosed ELSE {}
  <2>0. Unclosed' = Unclosed
    BY <1>2, <1>5 DEF Unclosed
  <2>1. Outstanding = ToSet(sh.closing) \cup some \cup end
    BY <1>1, <1>6 DEF Outstanding, Unclosed
  <2>2. Outstanding' = ToSet(sh'.closing) \cup some \cup end
    <3>1. /\ sh'.pc = sh.pc /\ sh'.pc \notin {"create", "output", "clone"} /\ ~GaveUp'
          /\ sh'.last_out = sh.last_out /\ sh'.close_last = sh.close_last /\ job' = job /\ LeavesLast' = LeavesLast
      BY <1>1, <1>2, <1>5, <1>6 DEF SameWires
    <3> QED
      BY <2>0, <3>1 DEF Outstanding, Unclosed
  <2>3. sh.pc = "wait" => job.went # "cancelled"
    BY Prepared
  <2> QED
    BY <1>3, <2>1, <2>2, <2>3
<1>9. Shapes'
  <2>1. \A q \in DOMAIN prog' : Begun(prog'[q])
    BY <1>0 DEF Like
  <2> QED
    BY <1>1, <1>2, <1>4, <2>1 DEF IInv, Shapes, KernelOK, SameWires
<1>10. Plan'
  BY <1>1, <1>2, <1>3, <1>5, <1>6 DEF IInv, Plan, Pipeline, SameWires
<1>11. Wired'
  <2>1. sh'.pc = "wait" => ToSet(sh'.closing) \subseteq Wires'
    BY <1>2, <1>3, <1>5, <1>7
  <2>2. sh'.pc = "cancel" => ToSet(sh'.closing) \subseteq Wires' \cup (IF TerminalClosed' THEN {Tty} ELSE {})
    BY <1>2, <1>3, <1>5, <1>7
  <2>3. Wired /\ job'.before = job.before /\ job'.went = job.went
    BY <1>1 DEF IInv
  <2> QED
    BY <1>1, <1>2, <1>5, <2>1, <2>2, <2>3 DEF Wired, Pipeline, SameWires
<1>12. Threads'
  <2>1. ASSUME NEW q \in DOMAIN prog'
        PROVE  /\ os'.pcb[q].status = "Running" /\ Owning(prog'[q])
               /\ \E i \in Waited : q = Handle_Of(i) /\ prog'[q].name = Word(sh.programs[i].name)
    BY <1>0, <1>4 DEF IInv, Threads, Like
  <2> QED
    BY <1>1, <1>2, <1>4, <1>5, <1>6, <2>1 DEF IInv, Threads, SameWires
<1>13. x \notin DOMAIN job.before.files \ Lost
  BY <1>7 DEF IInv, Wired, Lost
<1>14. sh.close_last /\ (sh.pc = "wait" \/ (job.went = "cancelled" /\ LeavesLast)) =>
         sh.last_out \in DOMAIN os.files \ (Owns \cup ToSet(sh.closing))
  BY <1>1 DEF IInv, Accounted
<1>15. Accounted'
  <2>1. \A h \in DOMAIN os.files :
          h \in (DOMAIN job.before.files \ Lost) \cup Outstanding \cup Owns \/ (h = Kb /\ AboutToClose)
    BY <1>1 DEF IInv, Accounted
  <2>2. \A h \in DOMAIN job.before.files \ Lost :
          h \in DOMAIN os.files /\ Same(os.files[h], job.before.files[h]) /\ h \notin Owns
    BY <1>1 DEF IInv, Accounted
  <2>3. \A h \in DOMAIN os'.files :
          h \in (DOMAIN job'.before.files \ Lost') \cup Outstanding' \cup Owns' \/ (h = Kb /\ AboutToClose')
    BY <1>1, <1>4, <1>5, <1>6, <1>8, <2>1
  <2>4. \A h \in DOMAIN job'.before.files \ Lost' :
          h \in DOMAIN os'.files /\ Same(os'.files[h], job'.before.files[h]) /\ h \notin Owns'
    BY <1>1, <1>4, <1>5, <1>6, <1>13, <2>2
  <2>5. sh'.close_last /\ (sh'.pc \in {"clone", "wait"} \/ (job'.went = "cancelled" /\ LeavesLast')) =>
          sh'.last_out \in DOMAIN os'.files \ (Owns' \cup ToSet(sh'.closing))
    BY <1>1, <1>2, <1>3, <1>4, <1>5, <1>6, <1>14 DEF SameWires
  <2>6. sh'.pc \notin {"create", "output"} /\ ~GaveUp'
    BY <1>1, <1>2, <1>5, <1>6
  <2> QED
    BY <2>3, <2>4, <2>5, <2>6 DEF Accounted
<1>16. Orderly'
  <2> SUFFICES ASSUME Clean' PROVE Orderly'
    BY DEF Orderly
  <2>0. Clean /\ sh.pc = "wait"
    BY <1>1, <1>5 DEF IInv, Plan, Clean
  <2>1. /\ Outstanding \subseteq DOMAIN os.files
        /\ Owns \subseteq DOMAIN os.files /\ Owns \cap Outstanding = {}
        /\ \A p, q \in DOMAIN prog : p # q => prog[p].own \cap prog[q].own = {}
        /\ \A k, l \in DOMAIN sh.closing : k # l => sh.closing[k] # sh.closing[l]
        /\ \A i \in sh.left : ToSet(sh.closing) \cap ToSet(To_Close(i)) = {}
        /\ \A p \in DOMAIN prog :
             Same(Denoted(StdIn(p)), prog[p].given[1]) /\ Same(Denoted(StdOut(p)), prog[p].given[2])
    BY <2>0 DEF IInv, Orderly
  <2>2. x \notin Outstanding'
    <3>1. x \notin ToSet(sh'.closing)
      BY <1>3, <2>1
    <3>2. x \notin Unclosed
      BY <1>3, <2>1 DEF Unclosed
    <3>3. sh.close_last => x # sh.last_out
      BY <1>3, <1>14, <2>0
    <3> QED
      BY <1>8, <2>0, <3>1, <3>2, <3>3
  <2>3. x # Kb /\ x # Tty
    BY <1>7, <2>0 DEF Clean, IInv, Wired
  <2>4. ASSUME NEW p \in DOMAIN prog PROVE StdIn(p) # x /\ StdOut(p) # x
    <3>1. PICK i \in sh.left : StdIn(p) = Input_Of(i) /\ StdOut(p) = Output_Of(i)
      BY <2>0 DEF IInv, Threads, Waited, StdIn, StdOut
    <3>2. i \in 1 .. Count_Programs
      BY <2>0, <3>1 DEF IInv, Plan
    <3>3. x \notin Ends(i)
      BY <1>3, <2>0, <2>1, <3>1, <3>2, Prepared
    <3>4. sh.close_last => x # sh.last_out
      BY <1>3, <1>14, <2>0
    <3> QED
      BY <2>0, <2>3, <3>1, <3>2, <3>3, <3>4, GivenEnds
  <2>5. ASSUME NEW p \in DOMAIN prog
        PROVE  Same(Denoted(StdIn(p))', prog'[p].given[1]) /\ Same(Denoted(StdOut(p))', prog'[p].given[2])
    <3>1. StdIn(p)' = StdIn(p) /\ StdOut(p)' = StdOut(p)
      BY <1>4 DEF StdIn, StdOut
    <3>2. ASSUME NEW h, h # x PROVE Denoted(h)' = Denoted(h)
      BY <1>4, <3>2 DEF Denoted
    <3>3. Denoted(StdIn(p))' = Denoted(StdIn(p)) /\ Denoted(StdOut(p))' = Denoted(StdOut(p))
      BY <1>4, <2>4, <3>1 DEF Denoted
    <3>4. prog'[p].given = prog[p].given
      BY <1>0 DEF Like
    <3> QED
      BY <2>1, <3>3, <3>4
  <2>6. /\ Outstanding' \subseteq DOMAIN os'.files /\ Owns' \subseteq DOMAIN os'.files
        /\ Owns' \cap Outstanding' = {}
    BY <1>4, <1>6, <1>8, <2>1, <2>2
  <2>7. /\ \A k, l \in DOMAIN sh'.closing : k # l => sh'.closing[k] # sh'.closing[l]
        /\ \A i \in sh'.left : ToSet(sh'.closing) \cap ToSet(To_Close(i)') = {}
    BY <1>2, <1>3, <1>5, <2>1
  <2>8. \A p, q \in DOMAIN prog' : p # q => prog'[p].own \cap prog'[q].own = {}
    BY <1>0, <2>1 DEF Like
  <2> QED
    BY <1>0, <1>1, <2>5, <2>6, <2>7, <2>8 DEF Orderly, Same
<1> QED
  BY <1>9, <1>10, <1>11, <1>12, <1>15, <1>16 DEF IInv

(* The pipe may be destroyed under a program, or be closed and leave some  *)
(* waiting in it.                                                          *)
LEMMA CloseNextHolds ==
  ASSUME IInv, CloseNext
  PROVE  IInv'
<1> PICK x : x = Head(sh.closing)
  OBVIOUS
<1>1. sh.pc \in {"cancel", "wait"} /\ sh.closing # <<>> /\ job' = job
  BY DEF CloseNext, At
<1>2. CASE Breaks /\ UNCHANGED sh
  BY <1>1, <1>2, BreakingHolds DEF Breaks, Breaking
<1>3. ASSUME NEW ps \in SUBSET Strands(x), prog' = Stranded(ps), os' = Close_File(os, x).os,
             sh' = [sh EXCEPT !.closing = Tail(@)]
      PROVE  IInv'
  BY <1>1, <1>3, ClosesNext
<1> QED
  BY <1>2, <1>3 DEF CloseNext

(* The shell reads the exit code of a program of a pipeline.               *)
LEMMA ReapingHolds ==
  ASSUME IInv, sh.pc \in {"wait", "cancel"}, sh.closing = <<>>, NEW i \in sh.left, Ended(Handle_Of(i)),
         os' = Reaped(Handle_Of(i)), prog' = prog, job' = job, SameWires, sh'.pc = sh.pc,
         sh'.left = sh.left \ {i}, sh'.closing = IF sh.pc = "wait" THEN To_Close(i) ELSE <<>>
  PROVE  IInv'
<1>1. /\ Waited = sh.left /\ Waited' = sh.left \ {i}
  BY DEF Waited
<1>2. /\ Shapes' /\ Threads' /\ os'.files = os.files
      /\ Owns' = Owns /\ AboutToClose' = AboutToClose
      /\ \A p \in DOMAIN prog : /\ p # Handle_Of(i)
                                /\ StdIn(p)' = StdIn(p) /\ StdOut(p)' = StdOut(p)
  BY <1>1, ReapShapes
<1>3. /\ \A k : /\ Handle_Of(k)' = Handle_Of(k) /\ Input_Of(k)' = Input_Of(k) /\ Output_Of(k)' = Output_Of(k)
                /\ To_Close(k)' = To_Close(k)
      /\ Wires' = Wires /\ LeavesLast' = LeavesLast /\ GaveUp' = GaveUp
      /\ Count_Programs' = Count_Programs /\ FileIn' = FileIn /\ FileOut' = FileOut
      /\ TerminalClosed' = TerminalClosed /\ Lost' = Lost /\ Clean' = Clean
  BY SameWiresKeeps
<1>4. /\ ~GaveUp /\ (sh.pc = "wait" => job.went = "done")
      /\ sh.left \subseteq 1 .. Count_Programs
  <2>1. sh.left \subseteq 1 .. Count_Programs
    BY <1>1, WaitedRange DEF IInv
  <2> QED
    BY <2>1, Prepared
<1>5. /\ To_Close(i) \in Seq(Handle) /\ ToSet(To_Close(i)) \subseteq Wires
      /\ <<>> \in Seq(Handle) /\ ToSet(<<>>) = {}
      /\ sh.close_last => sh.last_out \notin ToSet(To_Close(i))
      /\ \A k, l \in DOMAIN To_Close(i) : k # l => To_Close(i)[k] # To_Close(i)[l]
      /\ \A j \in sh.left \ {i} : ToSet(To_Close(i)) \cap ToSet(To_Close(j)) = {}
  <2>1. \A j \in sh.left : j \in 1 .. Count_Programs /\ ToSet(To_Close(j)) = Ends(j)
    BY <1>4, Prepared
  <2>2. i \in 1 .. Count_Programs
    BY <1>4
  <2>3. /\ To_Close(i) \in Seq(Handle) /\ ToSet(To_Close(i)) \subseteq Wires
        /\ sh.close_last => sh.last_out \notin ToSet(To_Close(i))
        /\ \A k, l \in DOMAIN To_Close(i) : k # l => To_Close(i)[k] # To_Close(i)[l]
    BY <2>1, <2>2, Prepared
  <2>4. \A j \in sh.left \ {i} : Ends(i) \cap Ends(j) = {}
    BY <2>1, <2>2, Prepared
  <2>5. <<>> \in Seq(Handle) /\ ToSet(<<>>) = {}
    BY ToSetFacts
  <2> QED
    BY <2>1, <2>3, <2>4, <2>5
<1>6. Outstanding' = Outstanding
  <2> DEFINE end == IF (sh.pc = "wait" /\ sh.close_last) \/ (job.went = "cancelled" /\ LeavesLast)
                    THEN {sh.last_out} ELSE {}
             left2 == sh.left \ {i}
  <2>0. UNION {ToSet(To_Close(k)') : k \in sh'.left} = UNION {ToSet(To_Close(k)) : k \in left2}
    BY <1>3
  <2>1. Outstanding = (IF sh.pc = "wait" THEN Unclosed ELSE {}) \cup end
    BY <1>4, <1>5 DEF Outstanding, Unclosed
  <2>2. Unclosed = ToSet(To_Close(i)) \cup UNION {ToSet(To_Close(k)) : k \in left2}
    BY DEF Unclosed
  <2>3. Unclosed' = UNION {ToSet(To_Close(k)) : k \in left2}
    BY <2>0 DEF Unclosed
  <2> HIDE DEF left2
  <2>4. Outstanding' = ToSet(sh'.closing) \cup (IF sh.pc = "wait" THEN Unclosed' ELSE {}) \cup end
    <3>1. /\ sh'.pc = sh.pc /\ sh'.pc \notin {"create", "output", "clone"} /\ ~GaveUp'
          /\ sh'.last_out = sh.last_out /\ sh'.close_last = sh.close_last /\ job' = job /\ LeavesLast' = LeavesLast
      BY <1>3, <1>4 DEF SameWires
    <3> QED
      BY <3>1 DEF Outstanding, Unclosed
  <2> QED
    BY <1>5, <2>1, <2>2, <2>3, <2>4
<1>7. /\ sh'.closing \in Seq(Handle)
      /\ ToSet(sh'.closing) \subseteq Wires
      /\ sh.close_last => sh.last_out \notin ToSet(sh'.closing)
  BY <1>5
<1>8. Plan'
  BY <1>3, <1>4, <1>7 DEF IInv, Plan, Pipeline, SameWires
<1>9. Wired'
  BY <1>3, <1>4, <1>7 DEF IInv, Wired, Pipeline, SameWires
<1>10. Accounted'
  <2>1. ToSet(sh.closing) = {}
    BY <1>5
  <2> QED
    BY <1>2, <1>3, <1>4, <1>6, <1>7 DEF IInv, Accounted, SameWires
<1>11. Orderly'
  <2> SUFFICES ASSUME Clean' PROVE Orderly'
    BY DEF Orderly
  <2>0. Clean /\ sh.pc = "wait"
    BY <1>3 DEF IInv, Plan, Clean
  <2>1. /\ Outstanding \subseteq DOMAIN os.files
        /\ Owns \subseteq DOMAIN os.files /\ Owns \cap Outstanding = {}
        /\ \A p, q \in DOMAIN prog : p # q => prog[p].own \cap prog[q].own = {}
        /\ \A p \in DOMAIN prog :
             Same(Denoted(StdIn(p)), prog[p].given[1]) /\ Same(Denoted(StdOut(p)), prog[p].given[2])
    BY <2>0 DEF IInv, Orderly
  <2>2. ASSUME NEW p \in DOMAIN prog
        PROVE  Same(Denoted(StdIn(p))', prog[p].given[1]) /\ Same(Denoted(StdOut(p))', prog[p].given[2])
    <3>1. Denoted(StdIn(p))' = Denoted(StdIn(p)) /\ Denoted(StdOut(p))' = Denoted(StdOut(p))
      BY <1>2 DEF Denoted
    <3> QED
      BY <2>1, <3>1
  <2>3. /\ \A k, l \in DOMAIN sh'.closing : k # l => sh'.closing[k] # sh'.closing[l]
        /\ \A j \in sh'.left : ToSet(sh'.closing) \cap ToSet(To_Close(j)') = {}
    BY <1>3, <1>5, <2>0
  <2> QED
    BY <1>2, <1>6, <2>1, <2>2, <2>3 DEF Orderly, Same
<1> QED
  BY <1>2, <1>8, <1>9, <1>10, <1>11 DEF IInv

(* A program of a pipeline that has ended leaves its ends to be closed.    *)
LEMMA WaitForHolds ==
  ASSUME IInv, NEW i, WaitFor(i)
  PROVE  IInv'
<1>1. /\ sh.pc = "wait" /\ sh.closing = <<>> /\ i \in sh.left /\ Ended(Handle_Of(i))
      /\ os' = Reaped(Handle_Of(i)) /\ prog' = prog /\ job' = job
      /\ sh' = [sh EXCEPT !.left = @ \ {i}, !.closing = To_Close(i)]
  BY DEF WaitFor, At, Calls
<1>2. SameWires /\ sh'.pc = sh.pc /\ sh'.left = sh.left \ {i} /\ sh'.closing = To_Close(i)
  BY <1>1 DEF IInv, Shapes, Idle, SameWires
<1> QED
  BY <1>1, <1>2, ReapingHolds

(* The programs of a cancelled command are removed when they have ended.   *)
LEMMA ReapCancelledHolds ==
  ASSUME IInv, ReapCancelled
  PROVE  IInv'
<1>1. sh.pc = "cancel" /\ sh.closing = <<>> /\ job' = job
  BY DEF ReapCancelled, At
<1>2. CASE sh.left # {}
  <2> PICK i : i = Min(sh.left)
    OBVIOUS
  <2>1. /\ Ended(Handle_Of(i)) /\ os' = Reaped(Handle_Of(i)) /\ prog' = prog
        /\ sh' = [sh EXCEPT !.left = @ \ {i}]
    BY <1>2 DEF ReapCancelled, Calls
  <2>2. i \in sh.left
    <3>1. sh.left \subseteq Nat
      <4>1. Waited = sh.left
        BY <1>1 DEF Waited
      <4> QED
        BY <4>1, WaitedRange DEF IInv
    <3> QED
      BY <1>2, <3>1, Chains!Least DEF Min
  <2>3. SameWires /\ sh'.pc = sh.pc /\ sh'.left = sh.left \ {i} /\ sh'.closing = <<>>
    BY <1>1, <2>1 DEF IInv, Shapes, Idle, SameWires
  <2> QED
    BY <1>1, <2>1, <2>2, <2>3, ReapingHolds
<1>3. CASE sh.left = {}
  <2>1. /\ os' = os /\ prog' = prog /\ sh' = [sh EXCEPT !.pc = "say", !.say = NotFound]
    BY <1>3 DEF ReapCancelled, Calls
  <2>2. SameWires /\ sh'.pc = "say" /\ sh'.left = {} /\ sh'.closing = <<>>
    BY <1>1, <1>3, <2>1 DEF IInv, Shapes, Idle, SameWires
  <2>3. /\ Wires' = Wires /\ LeavesLast' = LeavesLast /\ GaveUp' = GaveUp
        /\ Count_Programs' = Count_Programs /\ FileIn' = FileIn /\ FileOut' = FileOut
        /\ TerminalClosed' = TerminalClosed /\ Lost' = Lost /\ Clean' = Clean
        /\ \A k : Handle_Of(k)' = Handle_Of(k)
    BY <1>1, <2>2, SameWiresKeeps
  <2>4. /\ Waited = {} /\ Waited' = {} /\ Owns' = Owns /\ AboutToClose' = AboutToClose /\ ~GaveUp
        /\ job.went = "cancelled" /\ ~Clean /\ DOMAIN prog = {}
    <3>1. Waited = {} /\ Waited' = {} /\ Owns' = Owns /\ AboutToClose' = AboutToClose
      BY <1>1, <1>3, <2>1, <2>2 DEF Waited, Owns, AboutToClose
    <3>2. job.went = "cancelled"
      BY <1>1 DEF IInv, Plan
    <3> QED
      BY <3>1, <3>2, NobodyWaited DEF GaveUp, Clean
  <2>5. Outstanding' = Outstanding
    <3>1. Outstanding = ToSet(<<>>) \cup (IF job.went = "cancelled" /\ LeavesLast THEN {sh.last_out} ELSE {})
      BY <1>1, <2>4 DEF Outstanding
    <3>2. Outstanding' = ToSet(<<>>) \cup (IF job.went = "cancelled" /\ LeavesLast THEN {sh.last_out} ELSE {})
      BY <1>1, <2>2, <2>3, <2>4 DEF Outstanding, SameWires
    <3> QED
      BY <3>1, <3>2
  <2>6. Shapes'
    BY <1>1, <2>1, <2>2 DEF IInv, Shapes, KernelOK, SameWires
  <2>7. Plan'
    BY <1>1, <2>2, <2>3, <2>4 DEF IInv, Plan, Pipeline, SameWires
  <2>8. Wired'
    BY <1>1, <2>2, <2>3, <2>4 DEF IInv, Wired, Pipeline, SameWires
  <2>9. Threads'
    BY <1>1, <2>1, <2>2, <2>4 DEF IInv, Threads
  <2>10. Accounted'
    BY <1>1, <2>1, <2>2, <2>3, <2>4, <2>5 DEF IInv, Accounted, SameWires
  <2>11. Orderly'
    BY <2>3, <2>4 DEF Orderly
  <2> QED
    BY <2>6, <2>7, <2>8, <2>9, <2>10, <2>11 DEF IInv
<1> QED
  BY <1>2, <1>3

(* The file at the end is closed last, and with it all that the command    *)
(* opened.                                                                 *)
LEMMA CloseLastHolds ==
  ASSUME IInv, CloseLast
  PROVE  IInv'
<1> DEFINE Gone == IF sh.close_last THEN {sh.last_out} ELSE {}
<1>1. /\ sh.pc = "wait" /\ sh.closing = <<>> /\ sh.left = {} /\ job' = job /\ prog' = prog
      /\ os' = (IF sh.close_last THEN Close_File(os, sh.last_out).os ELSE os)
      /\ sh' = [sh EXCEPT !.pc = "prompt"]
  BY DEF CloseLast, At, Calls
<1>2. SameWires /\ sh'.pc = "prompt" /\ sh'.left = {} /\ sh'.closing = <<>>
  BY <1>1 DEF IInv, Shapes, Idle, SameWires
<1>3. /\ DOMAIN os' = Kernel /\ os'.last = os.last /\ os'.pcb = os.pcb
      /\ DOMAIN os'.files = DOMAIN os.files \ Gone
      /\ \A k \in DOMAIN os.files \ Gone : os'.files[k] = os.files[k]
  <2>1. CASE sh.close_last
    <3>1. IF sh.last_out \in DOMAIN os.files THEN Removed(os, os', sh.last_out) ELSE os' = os
      BY <1>1, <2>1, CloseRemoves DEF IInv, Shapes, KernelOK
    <3> QED
      BY <2>1, <3>1 DEF Removed, IInv, Shapes, KernelOK
  <2>2. CASE ~sh.close_last
    BY <1>1, <2>2 DEF IInv, Shapes, KernelOK
  <2> QED
    BY <2>1, <2>2
<1>4. /\ Wires' = Wires /\ LeavesLast' = LeavesLast /\ GaveUp' = GaveUp
      /\ Count_Programs' = Count_Programs /\ FileIn' = FileIn /\ FileOut' = FileOut
      /\ TerminalClosed' = TerminalClosed /\ Lost' = Lost /\ Clean' = Clean
      /\ \A k : Handle_Of(k)' = Handle_Of(k)
  BY <1>1, <1>2, SameWiresKeeps
<1>5. /\ Waited = {} /\ Waited' = {} /\ Owns = {} /\ Owns' = {} /\ AboutToClose' = AboutToClose
      /\ ~GaveUp /\ job.went = "done" /\ DOMAIN prog = {}
  <2>1. Waited = {} /\ Waited' = {} /\ AboutToClose' = AboutToClose /\ job.went = "done" /\ ~GaveUp
    BY <1>1, <1>2, Prepared DEF Waited, AboutToClose
  <2> QED
    BY <1>1, <2>1, NobodyWaited DEF Owns
<1>6. Outstanding = Gone /\ Outstanding' = {} /\ ToSet(<<>>) = {} /\ DOMAIN <<>> = {}
  <2>0. Unclosed = {}
    BY <1>1 DEF Unclosed
  <2>1. Outstanding = ToSet(sh.closing) \cup Unclosed \cup Gone
    BY <1>1, <1>5 DEF Outstanding, Unclosed
  <2>2. Outstanding' = ToSet(sh'.closing)
    BY <1>1, <1>2, <1>4, <1>5 DEF Outstanding
  <2>3. ToSet(<<>>) = {} /\ DOMAIN <<>> = {}
    BY ToSetFacts
  <2> QED
    BY <1>1, <1>2, <2>0, <2>1, <2>2, <2>3
<1>7. Gone \subseteq Wires
  BY DEF Wires
<1> HIDE DEF Gone
<1>8. Shapes'
  BY <1>1, <1>2, <1>3 DEF IInv, Shapes, KernelOK, SameWires
<1>9. Plan'
  BY <1>1, <1>2, <1>4, <1>5 DEF IInv, Plan, Pipeline, SameWires
<1>10. Wired'
  BY <1>1, <1>2, <1>4, <1>5 DEF IInv, Wired, Pipeline, SameWires
<1>11. Threads'
  BY <1>1, <1>2, <1>3, <1>5 DEF IInv, Threads
<1>12. Accounted'
  <2>1. /\ \A h \in DOMAIN os.files :
             h \in (DOMAIN job.before.files \ Lost) \cup Gone \/ (h = Kb /\ AboutToClose)
        /\ \A h \in DOMAIN job.before.files \ Lost :
             h \in DOMAIN os.files /\ Same(os.files[h], job.before.files[h])
        /\ Gone \cap DOMAIN job.before.files = {}
    BY <1>1, <1>5, <1>6, <1>7 DEF IInv, Accounted, Wired
  <2> QED
    BY <1>1, <1>2, <1>3, <1>4, <1>5, <1>6, <2>1 DEF Accounted, SameWires
<1>13. Orderly'
  BY <1>1, <1>2, <1>4, <1>5, <1>6 DEF Orderly
<1> QED
  BY <1>8, <1>9, <1>10, <1>11, <1>12, <1>13 DEF IInv

-----------------------------------------------------------------------------
(* The theorems                                                            *)

(* The invariant holds when run_shell has cloned the shell.                *)
LEMMA InitHolds ==
  ASSUME Init
  PROVE  IInv
<1>1. /\ sh = Idle /\ prog = <<>> /\ job = [command |-> <<>>, glued |-> FALSE, before |-> os, went |-> "done"]
      /\ os = [files |-> [h \in {Tty, Kb} |-> File(IF h = Tty THEN "tty" ELSE "kb", 0, 0)],
               last |-> Kb, pipes |-> <<>>, disk |-> Disk, tty |-> <<>>,
               pcb |-> [p \in {ShellPid} |-> Process("shell", Kb, Tty, <<>>)]]
  BY DEF Init
<1>2. /\ DOMAIN os = Kernel /\ DOMAIN os.files = {Tty, Kb} /\ os.last = Kb
      /\ \A h \in {Tty, Kb} : DOMAIN os.files[h] = FileFields
      /\ DOMAIN os.pcb = {ShellPid}
      /\ DOMAIN os.pcb[ShellPid] = {"name", "std_in", "std_out", "status", "wd"}
      /\ os.pcb[ShellPid].std_in = Kb
  BY <1>1 DEF Kernel, File, FileFields, Process
<1>3. /\ DOMAIN sh = DOMAIN Idle /\ sh.programs = <<>> /\ sh.pipes = <<>> /\ sh.first_in = Kb /\ sh.last_out = Tty
      /\ sh.close_last = FALSE /\ sh.handles = <<>> /\ sh.left = {} /\ sh.closing = <<>> /\ sh.pc = "prompt"
      /\ job.before = os /\ job.went = "done" /\ DOMAIN job = {"command", "glued", "before", "went"}
  BY <1>1 DEF Idle
<1>4. /\ Len(<<>>) = 0 /\ <<>> \in Seq(Handle) /\ <<>> \in Seq(Nat) /\ ToSet(<<>>) = {} /\ DOMAIN <<>> = {}
  BY ToSetFacts
<1>5. Tty \in Handle /\ Kb \in Handle
  BY ShellAssumption DEF Handle, Tty, Kb
<1>6. DOMAIN prog = {}
  BY <1>1, <1>4
<1>7. /\ Count_Programs = 0 /\ Waited = {} /\ ~GaveUp /\ Wires = {} /\ ~LeavesLast /\ Owns = {}
      /\ ~Ran("shutdown") /\ ~TerminalClosed
  <2>1. ~Ran("shutdown")
    BY <1>3, <1>4, NothingRan
  <2> QED
    BY <1>3, <1>4, <1>6, <2>1 DEF Count_Programs, Waited, GaveUp, Wires, LeavesLast, Owns, TerminalClosed
<1>8. Outstanding = {} /\ Lost = {}
  BY <1>3, <1>4, <1>7 DEF Outstanding, Lost
<1>9. Shapes
  <2>1. IsFiniteSet(DOMAIN os.pcb)
    BY <1>2, FS_Singleton
  <2> QED
    BY <1>2, <1>3, <1>5, <1>6, <2>1 DEF Shapes, KernelOK, ShellPid
<1>10. Plan
  BY <1>3, <1>4, <1>7 DEF Plan, Pipeline
<1>11. Wired
  BY <1>2, <1>3, <1>4, <1>5, <1>7 DEF Wired, Pipeline
<1>12. Threads
  BY <1>2, <1>6, <1>7 DEF Threads
<1>13. Accounted
  BY <1>3, <1>7, <1>8 DEF Accounted, Same
<1>14. Orderly
  BY <1>3, <1>4, <1>6, <1>7, <1>8 DEF Orderly
<1> QED
  BY <1>9, <1>10, <1>11, <1>12, <1>13, <1>14 DEF IInv

(* A step that changes nothing keeps the invariant.                        *)
LEMMA StutterHolds ==
  ASSUME IInv, UNCHANGED vars
  PROVE  IInv'
<1>1. os' = os /\ prog' = prog /\ sh' = sh /\ job' = job
  BY DEF vars, kernel
<1>2. /\ Outstanding' = Outstanding /\ Lost' = Lost /\ Wires' = Wires /\ Clean' = Clean
      /\ LeavesLast' = LeavesLast /\ GaveUp' = GaveUp /\ Plan' /\ Wired' /\ Waited' = Waited
  BY <1>1, Locals DEF IInv
<1>3. \A i : /\ Handle_Of(i)' = Handle_Of(i) /\ Input_Of(i)' = Input_Of(i) /\ Output_Of(i)' = Output_Of(i)
             /\ To_Close(i)' = To_Close(i)
  BY <1>1 DEF Handle_Of, Input_Of, Output_Of, To_Close, Count_Programs
<1>4. Shapes'
  BY <1>1 DEF IInv, Shapes, KernelOK
<1>5. Threads'
  BY <1>1, <1>2, <1>3 DEF IInv, Threads
<1>6. Owns' = Owns /\ AboutToClose' = AboutToClose
  BY <1>1 DEF Owns, AboutToClose
<1>7. Accounted'
  BY <1>1, <1>2, <1>6 DEF IInv, Accounted
<1>8. \A q \in DOMAIN prog : StdIn(q)' = StdIn(q) /\ StdOut(q)' = StdOut(q)
  BY <1>1 DEF StdIn, StdOut
<1>9. \A h : Denoted(h)' = Denoted(h)
  BY <1>1 DEF Denoted
<1>10. Orderly'
  BY <1>1, <1>2, <1>3, <1>6, <1>8, <1>9 DEF IInv, Orderly, Denoted
<1> QED
  BY <1>2, <1>4, <1>5, <1>7, <1>10 DEF IInv

(* Every step keeps the invariant.                                         *)
LEMMA NextHolds ==
  ASSUME IInv, Next, ParserPlans
  PROVE  IInv'
<1>1. CASE ReadCommand
  BY <1>1, ReadCommandHolds
<1>2. CASE EndOfInput \/ Say \/ ChangeDirectory \/ Exit
  BY <1>2, EndOfInputHolds, SayHolds, ChangeDirectoryHolds, ExitHolds
<1>3. CASE CallProgram \/ Join
  BY <1>3, CallProgramHolds, JoinHolds
<1>4. CASE CreatePipe \/ OpenInput \/ OpenOutput
  BY <1>4, CreatePipeHolds, OpenInputHolds, OpenOutputHolds
<1>5. CASE CloneNext \/ Cancel
  BY <1>5, CloneNextHolds, CancelHolds
<1>6. CASE CloseNext \/ ReapCancelled \/ CloseLast
  BY <1>6, CloseNextHolds, ReapCancelledHolds, CloseLastHolds
<1>7. CASE \E i \in DOMAIN sh.programs : WaitFor(i)
  BY <1>7, WaitForHolds
<1>8. CASE \E p \in DOMAIN prog : ProgramStep(p)
  BY <1>8, ProgramHolds
<1> QED
  BY <1>1, <1>2, <1>3, <1>4, <1>5, <1>6, <1>7, <1>8 DEF Next, ShellStep

(* At the prompt nothing is outstanding of a command that was not given up.*)
LEMMA HandlesReturnedFollows ==
  ASSUME IInv
  PROVE  HandlesReturned
<1> DEFINE before == job.before.files
           kept == DOMAIN before \ (IF Ran("shutdown") THEN {Kb} ELSE {})
<1> SUFFICES ASSUME sh.pc = "prompt", job.went = "done"
             PROVE  /\ DOMAIN os.files = kept
                    /\ \A h \in DOMAIN os.files : Same(os.files[h], before[h])
  BY DEF HandlesReturned, AtPrompt
<1>1. sh.left = {} /\ sh.closing = <<>>
  BY DEF IInv, Plan, Pipeline
<1>2. Owns = {} /\ ~AboutToClose
  BY <1>1, NobodyWaited DEF Waited
<1>3. Outstanding = {}
  <2>1. ToSet(<<>>) = {}
    BY ToSetFacts
  <2> QED
    BY <1>1, <2>1 DEF Outstanding, GaveUp
<1>4. DOMAIN before \ Lost = kept
  BY DEF Lost, TerminalClosed
<1>5. /\ \A h \in DOMAIN os.files : h \in DOMAIN before \ Lost
      /\ \A h \in DOMAIN before \ Lost : h \in DOMAIN os.files /\ Same(os.files[h], before[h])
  BY <1>2, <1>3 DEF IInv, Accounted
<1> QED
  BY <1>4, <1>5

(* A program runs only while the shell does.                               *)
LEMMA GivenHandlesFollow ==
  ASSUME IInv
  PROVE  GivenHandlesStay
<1> SUFFICES ASSUME Clean, NEW p \in DOMAIN prog
             PROVE  Same(Denoted(StdIn(p)), prog[p].given[1]) /\ Same(Denoted(StdOut(p)), prog[p].given[2])
  BY DEF GivenHandlesStay, Clean
<1>1. sh.pc # "off"
  BY NotOff
<1> QED
  BY <1>1 DEF IInv, Orderly

(* The invariant holds for every set of commands, every disk, every number *)
(* of handles and every order of the steps of the programs.                *)
THEOREM Inductive == Spec => []IInv
<1>1. IInv /\ [Next]_vars => IInv'
  BY NextHolds, StutterHolds, PlansOfParser
<1> QED
  BY <1>1, InitHolds, PTL DEF Spec

(* GivenHandlesStay for all of them: nobody closes or reuses a handle under*)
(* a program that was given it.                                            *)
THEOREM GivenHandles == Spec => []GivenHandlesStay
BY Inductive, GivenHandlesFollow, PTL

(* HandlesReturned for all of them: after a command whose programs have    *)
(* run the prompt comes back with the handles that the command found.      *)
THEOREM Returned == Spec => []HandlesReturned
BY Inductive, HandlesReturnedFollows, PTL
=============================================================================
