-------------------------------- MODULE Once --------------------------------
(***************************************************************************)
(* TLC works out an argument or the value of a LET again at each of its    *)
(* uses when it evaluates ENABLED.  These operators have it worked out     *)
(* once, so that a chain of steps stays as short as it reads.              *)
(***************************************************************************)
EXTENDS Sequences, SequencesExt

(* F of v.                                                                 *)
Given(v, F(_)) == CHOOSE r \in {F(x) : x \in {v}} : TRUE

(* FoldLeft of the community modules.                                      *)
FoldOnce(F(_, _), base, seq) ==
  LET Next(acc, x) == Given(acc, LAMBDA v : F(v, x))
  IN Given(seq, LAMBDA s : FoldLeft(Next, base, s))
=============================================================================
