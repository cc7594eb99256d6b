------------------------------ MODULE Channel ------------------------------
(***************************************************************************)
(* What a pipe promises to the two programs it connects: a bounded FIFO of *)
(* characters.  Characters arrive once, unchanged and in the order they    *)
(* were sent, never more than Capacity of them wait in between, nothing is *)
(* sent once the input end is closed and nothing is received after EOT.    *)
(***************************************************************************)
EXTENDS Integers, Sequences

CONSTANTS
  Char,     (* the characters a program can send *)
  EOT,      (* end of transmission, kiv_hal::NControl_Codes::EOT *)
  Capacity  (* how many characters may wait in the channel *)

VARIABLES
  sent,     (* every character that entered the channel, in order *)
  received, (* every character the reading program took, in order *)
  open      (* whether the input end is still open *)

vars == <<sent, received, open>>

Room == Len(sent) - Len(received) < Capacity

Ended == received # <<>> /\ received[Len(received)] = EOT

Init ==
  /\ sent = <<>>
  /\ received = <<>>
  /\ open = TRUE

Send(c) ==
  /\ open /\ Room
  /\ sent' = Append(sent, c)
  /\ UNCHANGED <<received, open>>

Receive ==
  /\ ~Ended
  /\ Len(received) < Len(sent)
  /\ received' = Append(received, sent[Len(received) + 1])
  /\ UNCHANGED <<sent, open>>

(* Closing the input end sends EOT as the last character ... *)
Close ==
  /\ open /\ Room
  /\ sent' = Append(sent, EOT)
  /\ open' = FALSE
  /\ UNCHANGED received

(* ... unless the output end is closed, when nobody would read it. *)
Abandon ==
  /\ open
  /\ open' = FALSE
  /\ UNCHANGED <<sent, received>>

Next ==
  \/ \E c \in Char : Send(c)
  \/ Receive
  \/ Close
  \/ Abandon

Spec == Init /\ [][Next]_vars
=============================================================================
