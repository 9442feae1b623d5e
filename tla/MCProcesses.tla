---------------------------- MODULE MCProcesses ----------------------------
(* A PTY that writes more than is kept and that a timeout may end, and a   *)
(* pipe that ends beside it.                                               *)
EXTENDS ProcessSessions

CONSTANTS terminal, piped

MCProcessSet == {terminal, piped}
MCKind       == [p \in MCProcessSet |-> IF p = terminal THEN "pty" ELSE "pipe"]
MCTimed      == {terminal}
MCMaxWritten == [p \in MCProcessSet |-> IF p = terminal THEN 2 ELSE 0]
=============================================================================
