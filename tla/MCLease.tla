------------------------------- MODULE MCLease -------------------------------
(* Lease on small instances.  The configurations give the constants;       *)
(* clients and keys are interchangeable.                                   *)
EXTENDS LeaseInvariant, TLC

MCSymmetry == Permutations(Client) \cup Permutations(Id)

==============================================================================
