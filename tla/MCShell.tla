------------------------------ MODULE MCShell ------------------------------
(***************************************************************************)
(* Commands, texts and a disk for TLC.                                     *)
(***************************************************************************)
EXTENDS ShellInv

P(name, data) == [name |-> name, data |-> data]
Line(programs, input, output) == [programs |-> programs, input |-> input, output |-> output]
One(name, data) == Line(<<P(name, data)>>, <<>>, <<>>)

TypeN == <<"ty", "pe">>
SortN == <<"so", "rt">>
FreqN == <<"fr", "eq">>
FindN == <<"fi", "nd">>
TaskN == <<"task", "list">>
DirN == <<"d", "ir">>
NoSuch == <<"no", "such">>
AF == <<"f">>
AG == <<"g">>
AD == <<"d">>
Missing == <<"m", "m">>
Quoted == <<"\"", "b", "|", "\"">>
Form == <<"/c", " ", "/v", "\"", "\"">>

MCCollation == <<"a", "b", "f", "g", "d", "e", ":", "1", "2", "3", "\\", "File_Not_Found", "NL">>
MCDotted == {"g"}

MCDisk == <<Entry(<<"f">>, FALSE, <<"b", "NL", "a">>), Entry(<<"d">>, TRUE, <<>>),
            Entry(<<"d", "e">>, TRUE, <<>>)>>

MCCommands ==
  { One(TypeN, AF),
    One(NoSuch, <<>>),
    Line(<<P(SortN, <<>>)>>, AF, AG),
    Line(<<P(SortN, AF), P(FreqN, <<>>)>>, <<>>, <<>>),
    Line(<<P(TypeN, AF), P(FreqN, <<>>), P(FindN, Form)>>, <<>>, AG),
    Line(<<P(Echo, Quoted), P(SortN, <<>>)>>, <<>>, <<>>),
    Line(<<P(Echo, <<"b">>)>>, <<>>, AG),
    Line(<<P(NoSuch, <<>>), P(SortN, <<>>)>>, <<>>, <<>>),
    Line(<<P(NoSuch, <<>>)>>, AF, <<>>),
    Line(<<P(SortN, <<>>), P(NoSuch, <<>>)>>, <<>>, AG),
    Line(<<P(SortN, <<>>), P(FreqN, <<>>)>>, Missing, <<>>),
    Line(<<P(SortN, <<>>)>>, AF, AD),
    One(TaskN, <<>>),
    Line(<<P(TypeN, Missing), P(TaskN, <<>>)>>, <<>>, <<>>),
    Line(<<P(TaskN, <<>>), P(SortN, <<>>)>>, <<>>, <<>>),
    One(DirN, <<"/S">>),
    One(<<"m", "d">>, <<"d", "/", "e", "/", "k">>),
    Line(<<P(<<"r", "d">>, <<"d", "/", "e">>), P(DirN, AD)>>, <<>>, <<>>),
    One(<<"r", "d">>, AD),
    One(<<"r", "d">>, <<>>),
    Line(<<P(<<"r", "d">>, AF), P(TypeN, AF)>>, <<>>, <<>>),
    One(<<"shut", "down">>, <<>>),
    Line(<<P(TypeN, <<>>), P(<<"shut", "down">>, <<>>)>>, <<>>, <<>>),
    Line(<<P(TypeN, AF), P(SortN, <<>>), P(<<"shut", "down">>, <<>>)>>, <<>>, <<>>),
    Line(<<P(SortN, <<>>), P(<<Blank>>, <<>>), P(FreqN, <<>>)>>, <<>>, <<>>),
    One(<<"cd">>, <<"d", "/", "e">>),
    One(<<"cd">>, <<"procfs", "/", "..", "/", "d", "/", "..", "/", "d">>),
    One(<<"cd">>, <<"..">>),
    One(<<"cd">>, <<"/", "d", "/", "/">>),
    One(<<"cd">>, <<"procfs", "/", "tasklist">>),
    One(<<"cd">>, <<"procfs", "/", "1", "/">>),
    One(<<"r", "d">>, <<"d", "/", "e", "/">>),
    One(<<"ex", "it">>, <<>>),
    One(FindN, AF),
    Line(<<P(TypeN, AF), P(FindN, AF)>>, <<>>, <<>>),
    Line(<<P(Echo, <<"b">>), P(SortN, <<>>)>>, <<>>, <<>>),
    Line(<<P(SortN, <<>>)>>, <<"..", "/", "f">>, AG),
    One(<<"m", "d">>, AD),
    One(<<"m", "d">>, <<>>),
    One(DirN, Missing),
    One(DirN, <<"/S", " ", "\\*.*">>),
    One(<<"cd">>, <<>>) }
=============================================================================
