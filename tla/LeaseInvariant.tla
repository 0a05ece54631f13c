---------------------------- MODULE LeaseInvariant ----------------------------
(***************************************************************************)
(* The inductive invariants behind the safety properties of Lease.         *)
(*                                                                         *)
(* Tracking holds whatever happens.  Order holds when the four races of    *)
(* Lease are ruled out (Disciplined); it says that no process holds a copy *)
(* of a row that another process has changed.                              *)
(***************************************************************************)
EXTENDS Lease

\* Acquires do not overlap, clients stop at their deadline, requests are
\* quicker than deadlines and restarts, the operator only enlarges the pool
\* and state_get does not raise.
Disciplined == ~Race /\ ~Late /\ ~Slow /\ ~MayShrink /\ "state" \notin Faults

Working == {"destroy", "destroyed", "clone", "cloned", "attr"}

-----------------------------------------------------------------------------
(* Without discipline.                                                     *)

\* While the daemon holds a row object with a key, the row is in the table,
\* under the object's name.
JobInTable ==
  /\ pc \in Working => job.id \in Id
  /\ pc \in Working \cup {"retry"} => job.caller # "main"
  /\ job.caller # "main" => job.row.status # "absent"
  /\ job.id \in Id => Present(job.id) /\ rows[job.id].name = job.row.name

\* So is every row of the batch, which is not the one being worked on.
BatchInTable ==
  \A i \in Id : batch[i] # NoRow =>
    /\ Present(i) /\ rows[i].name = batch[i].name /\ job.id # i
    /\ batch[i].status # "absent"

TodoInTable == \A i \in todo : Present(i)

\* A request's row may have been deleted; a row of its key has its name.
RequestNames ==
  \A c \in Client : req[c].op # "none" =>
    /\ req[c].id \in Id
    /\ Present(req[c].id) => rows[req[c].id].name = req[c].row.name
    /\ \A d \in Client : req[d].op # "none" /\ req[d].id = req[c].id
                         => req[d].row.name = req[c].row.name

\* Where the daemon's variables are not in use they are empty.
AtRest ==
  /\ pc \in {"loop", "down"} => job.id = NoId
  /\ pc # "shrink" => todo = {}
  /\ pc = "down" => batch = NoBatch

LeaseKeys ==
  \A c \in Client : lease[c].state # "none" \/ req[c].op = "renew" => lease[c].id \in Id

Tracking ==
  /\ TypeOK /\ JobInTable /\ BatchInTable /\ TodoInTable /\ RequestNames
  /\ AtRest /\ LeaseKeys /\ VmTracked

-----------------------------------------------------------------------------
(* With discipline.                                                        *)

\* The statuses and actions that go together; no time runs against READY.
Kind == {<<"absent", "none">>, <<"PENDING", "clone">>, <<"PENDING", "attr">>,
         <<"PENDING", "destroy">>, <<"READY", "none">>, <<"RESERVED", "destroy">>}
RowKind(r) == <<r.status, r.action>> \in Kind /\ (r.status = "READY" => ~r.due)
RowKinds == \A i \in Id : RowKind(rows[i])

\* Nobody has touched a row since the daemon copied it.
JobIsCurrent ==
  pc \in Working \cup {"retry"} =>
    job.id \in Id /\ rows[job.id] = job.row /\ job.row.due
BatchIsCurrent ==
  \A i \in Id : batch[i] # NoRow => rows[i] = batch[i] /\ batch[i].due

\* Nor since a request copied it; no two requests are about one row.
RequestIsCurrent ==
  \A c \in Client : req[c].op # "none" =>
    /\ rows[req[c].id] = req[c].row /\ ~req[c].row.due
    /\ req[c].op = "acquire" => req[c].row.status = "READY" /\ lease[c].state = "none"
    /\ req[c].op # "acquire" => req[c].row.status = "RESERVED"
    /\ req[c].op = "renew" => lease[c].state = "live" /\ lease[c].id = req[c].id
    /\ req[c].op = "release" => \A d \in Client : lease[d].state = "live"
                                                  => lease[d].id # req[c].id
    /\ \A d \in Client : req[d].op # "none" /\ req[d].id = req[c].id => c = d

\* A row about to be offered, or offered, has an untouched machine.
AttrIsPristine ==
  /\ \A i \in Id : rows[i].action = "attr" => rows[i].name \in vm \ dirty
  /\ pc = "cloned" => job.row.name \in vm \ dirty
  /\ pc \in {"clone", "attr", "destroy"} => job.row.action = pc
  /\ pc = "destroyed" => job.row.action = "destroy"

\* There are never too many rows.
NamesInRange ==
  /\ job.max <= max
  /\ \A i \in Id : Present(i) =>
       rows[i].name < (IF pc \in {"loop", "down"} THEN max ELSE job.max)
  /\ pc # "shrink"

Order ==
  /\ RowKinds /\ JobIsCurrent /\ BatchIsCurrent /\ RequestIsCurrent
  /\ AttrIsPristine /\ NamesInRange
  /\ UniqueNames /\ LeaseBacked /\ LiveLeaseHoldsVm /\ ExclusiveLease
  /\ ReadyIsPristine

-----------------------------------------------------------------------------
(* What has been used.                                                     *)

\* A machine is marked as used from the moment a client has it until it is
\* destroyed; a name that is to be cloned has no used machine.
History ==
  /\ dirty \subseteq vm
  /\ \A c \in Client : lease[c].state = "live" => lease[c].name \in dirty
  /\ \A i \in Id : rows[i].action = "clone" => rows[i].name \notin dirty
==============================================================================
