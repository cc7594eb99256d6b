----------------------------- MODULE ArgParser -----------------------------
(***************************************************************************)
(* parse_programs of user/argparser.cpp: the text of a command becomes the *)
(* programs of a pipeline with the files at its two ends.                  *)
(*                                                                         *)
(* A text is a sequence of symbols.  A symbol is a blank, a quote, a       *)
(* delimiter or a piece of a word; a name has one or more pieces, so that  *)
(* it matters where a text is cut.                                         *)
(***************************************************************************)
EXTENDS Integers, Once

Blank == " "
Quote == "\""
Delimiter == {"|", "<", ">"}
Echo == <<"ec", "ho">>

(* strtrim and trim: the text without blanks at its ends.                  *)
Trim(s) ==
  Given({i \in DOMAIN s : s[i] # Blank},
        LAMBDA kept : IF kept = {} THEN <<>> ELSE SubSeq(s, Min(kept), Max(kept)))

(* strtok_s: the first word of a text, and what follows it.                *)
Token(s) ==
  LET Cut(t) ==
        LET b == SelectInSeq(t, LAMBDA c : c = Blank)
        IN IF b = 0 THEN [name |-> t, rest |-> <<>>]
           ELSE [name |-> SubSeq(t, 1, b - 1), rest |-> SubSeq(t, b + 1, Len(t))]
  IN Given(Trim(s), Cut)

(* A program as the parser stores it.  A word that follows < or > is       *)
(* stored the same way; its name is the name of the file.                  *)
Io(type, name) == [type |-> type, name |-> name]
Program(word) ==
  [name |-> Token(word).name, data |-> Trim(Token(word).rest),
   input |-> Io("None", <<>>), output |-> Io("None", <<>>)]

(* The state of the loop over the input: the index, curr_prog_name,        *)
(* programs_vec, delims, actual_prog_count and errorMessage.               *)
Scanning == [i |-> 1, word |-> <<>>, programs |-> <<>>, delims |-> <<>>,
             actual |-> 0, error |-> <<>>]

(* A delimiter or the end of the input completes a word.                   *)
Completed(input, st) ==
  LET c == input[st.i]
      last == st.i = Len(input)
  IN [st EXCEPT !.i = @ + 1,
                !.word = <<>>,
                !.programs = Append(@, Program(IF last THEN Append(st.word, c) ELSE st.word)),
                !.delims = IF last THEN @ ELSE Append(@, c),
                !.actual = IF c \in {"<", ">"} THEN @ ELSE @ + 1]

(* Whether the quotes of the argument of echo are open after the text s:   *)
(* they count as open from the beginning, and the first one opens them.    *)
QuotesOpen(s) ==
  LET quotes == Len(SelectSeq(s, LAMBDA c : c = Quote))
  IN quotes = 0 \/ quotes % 2 = 1

(* After echo the text is taken as it is, up to a delimiter outside of     *)
(* quotes or to the last symbol.                                           *)
EchoArgument(input, st) ==
  LET Ends(k) == \/ k = Len(input)
                 \/ input[k] \in Delimiter /\ ~QuotesOpen(SubSeq(input, st.i, k))
      Stopped(end) == [st EXCEPT !.i = end,
                                 !.word = Echo \o <<Blank>> \o SubSeq(input, st.i, end - 1)]
  IN Given(CHOOSE k \in st.i .. Len(input) : Ends(k) /\ \A j \in st.i .. k - 1 : ~Ends(j), Stopped)

(* One round of the loop.  The symbol behind a completed word is taken     *)
(* without a look at what it is.                                           *)
Round(input, st) ==
  LET c == input[st.i]
      Taken(next) ==
        [next EXCEPT !.i = @ + 1,
                     !.word = IF next.i > Len(input) THEN @ ELSE Append(@, input[next.i])]
      Argued(next) ==
        IF Trim(next.word) = Echo /\ next.i <= Len(input) THEN EchoArgument(input, next) ELSE next
  IN IF c \in Delimiter /\ st.i \in {1, Len(input)}
     THEN [st EXCEPT !.error = <<"Unexpected", c>>]
     ELSE Given(Taken(IF c \in Delimiter \/ st.i = Len(input) THEN Completed(input, st) ELSE st),
                Argued)

(* The loop: a round takes at least one symbol.                            *)
Scan(input) ==
  LET Next(st, k) == IF st.i > Len(input) \/ st.error # <<>> THEN st ELSE Round(input, st)
  IN FoldOnce(Next, Scanning, [k \in DOMAIN input |-> k])

(* Mutant of Redirected: the output is given to the program before >.      *)
RedirectedNear(programs, i, delim, actual) ==
  LET file == Io("File", programs[i + 1].name)
  IN IF delim = "|"
     THEN [programs EXCEPT ![i].output.type = "Pipe", ![i + 1].input.type = "Pipe"]
     ELSE IF delim = ">" THEN [programs EXCEPT ![i].output = file]
     ELSE [programs EXCEPT ![1].input = file]

(* What the delimiter behind word i says of the programs.                  *)
Redirected(programs, i, delim, actual) ==
  LET file == Io("File", programs[i + 1].name)
  IN IF delim = "|"
     THEN [programs EXCEPT ![i].output.type = "Pipe", ![i + 1].input.type = "Pipe"]
     ELSE IF delim = ">" THEN [programs EXCEPT ![actual].output = file]
     ELSE [programs EXCEPT ![1].input = file]

(* One round of the loop that assigns inputs and outputs.                  *)
Assigned(programs, i, delim, actual) ==
  LET cleared == [programs EXCEPT ![i].input.name = <<>>, ![i].output.name = <<>>]
      from == IF i = 1
              THEN [cleared EXCEPT ![1].input.type = "Standard", ![actual].output.type = "Standard"]
              ELSE [cleared EXCEPT ![i].input.type = cleared[i - 1].output.type]
  IN Redirected(from, i, delim, actual)

(* The loop that assigns inputs and outputs, over the words that have one  *)
(* behind them.                                                            *)
Assignments(st) ==
  LET Next(programs, i) == Assigned(programs, i, st.delims[i], st.actual)
  IN FoldOnce(Next, st.programs, [i \in 1 .. Len(st.programs) - 1 |-> i])

(* The programs that are left when the words that name files are cut off.  *)
(* A word of blanks has no name: the null pointer that strtok_s returns is *)
(* copied by strncpy_s, before an error that comes later in the input.  If *)
(* every word but a lost last one is followed by < or >, the code writes   *)
(* in front of the vector.  Both are undefined.                            *)
parse_programs(input) ==
  LET Parsed(st) ==
        LET nameless == \E i \in DOMAIN st.programs : st.programs[i].name = <<>>
            headless == st.error = <<>> /\ Len(st.programs) > 1 /\ st.actual = 0
            undefined == nameless \/ headless
        IN [error |-> st.error,
            undefined |-> undefined,
            programs |-> IF undefined \/ st.error # <<>> THEN <<>>
                         ELSE SubSeq(Assignments(st), 1, st.actual)]
  IN Given(Scan(input), Parsed)
=============================================================================
