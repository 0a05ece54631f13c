------------------------------ MODULE MCClient ------------------------------
(* Client on small instances.                                              *)
EXTENDS Client

\* Of a handle that blocks an old timer may outlive the next use.
Timers == [h \in Client |-> IF h \in Blocking THEN 2 ELSE 1]

==============================================================================
