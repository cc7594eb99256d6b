------------------------------- MODULE MCPipe -------------------------------
(* The instance of Pipe that TLC checks: programs that write one or three  *)
(* characters at a time, or an EOT of their own in the middle of a buffer. *)
EXTENDS Pipe

CONSTANTS a, b, eot

MCChar == {a, b, eot}

MCMessages == {<<a>>, <<b, a, b>>, <<a, eot, b>>}

MCPlainMessages == {<<a>>, <<b, a>>}

MCOneMessage == {<<a, b, a>>}
=============================================================================
