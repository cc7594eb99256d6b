---------------------------- MODULE MCProcesses ----------------------------
(* The boot thread, the shell, two programs p and q of the shell and a     *)
(* thread w of p.  The shell waits for both programs, with and without a   *)
(* handle passed twice; w waits for q and q for w.  The exit code of q is *)
(* read by the shell and by w, each other one by one thread.               *)
EXTENDS Processes

CONSTANTS boot, shell, p, q, w

MCThread == {boot, shell, p, q, w}

MCProcess == {shell, p, q}

MCCloner == [c \in MCThread \ {boot} |->
  CASE c = shell -> boot [] c = w -> p [] OTHER -> shell]

MCWaits ==
  {<<shell, <<p, q, p>>>>, <<w, <<q>>>>, <<q, <<w>>>>}

MCReaders == {<<boot, shell>>, <<shell, p>>, <<shell, q>>, <<w, q>>}
=============================================================================
