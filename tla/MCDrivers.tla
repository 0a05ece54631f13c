------------------------------ MODULE MCDrivers ------------------------------
(* Drivers on small instances.                                             *)
EXTENDS Drivers

==============================================================================
