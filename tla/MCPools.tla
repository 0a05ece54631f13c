------------------------------- MODULE MCPools -------------------------------
(* Pools on small instances.                                               *)
EXTENDS PoolsInvariant, TLC

==============================================================================
