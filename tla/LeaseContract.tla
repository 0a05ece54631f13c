---------------------------- MODULE LeaseContract ----------------------------
(***************************************************************************)
(* What testpool promises about the machines of one pool, without the      *)
(* database, the daemon or the requests that keep the promise.             *)
(*                                                                         *)
(* A machine name is a slot of the pool.  Nothing stands behind a slot     *)
(* until the pool builds a machine there; the machine is handed to one     *)
(* client; once it has been handed out it is never handed out again, it is *)
(* only thrown away, and never while its client still has the lease.       *)
(***************************************************************************)
CONSTANTS Slot,     \* the names a pool may use
          Client    \* those who acquire machines

VARIABLES stage,    \* stage[s]: what stands behind the name s
          holder    \* holder[s]: the clients whose lease on s still runs

cvars == <<stage, holder>>

Stage == {"none", "fresh", "leased", "used"}

ContractInit ==
  /\ stage  = [s \in Slot |-> "none"]
  /\ holder = [s \in Slot |-> {}]

\* The slot s is left as it is.
Rest(s) == stage'[s] = stage[s] /\ holder'[s] = holder[s]

\* A new machine is built where none was.
Build(s) ==
  /\ stage[s] = "none" /\ stage'[s] = "fresh"
  /\ holder'[s] = holder[s]

\* A machine nobody has used goes to exactly one client.
Grant(s) ==
  /\ stage[s] = "fresh" /\ stage'[s] = "leased"
  /\ \E c \in Client : holder'[s] = {c}

\* The lease ends: released, abandoned, expired or withdrawn by a restart.
End(s) ==
  /\ stage[s] = "leased" /\ stage'[s] = "used"
  /\ holder'[s] = {}

\* A machine without a lease is thrown away.
Wipe(s) ==
  /\ stage[s] \in {"fresh", "used"} /\ stage'[s] = "none"
  /\ holder'[s] = holder[s]

\* Slots are independent of each other: one step of the system may move
\* several of them (a restart ends every lease).
ContractNext ==
  /\ stage'  \in [Slot -> Stage]
  /\ holder' \in [Slot -> SUBSET Client]
  /\ \A s \in Slot : Rest(s) \/ Build(s) \/ Grant(s) \/ End(s) \/ Wipe(s)

ContractSpec == ContractInit /\ [][ContractNext]_cvars
==============================================================================
