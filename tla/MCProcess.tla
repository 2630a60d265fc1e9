----------------------------- MODULE MCProcess -----------------------------
(* Process with the arguments of waitpid(): a pid, 0, -1 or minus a group. *)
EXTENDS Process

Any == -MaxPid .. MaxPid
AnyChild == {-1}
=============================================================================
