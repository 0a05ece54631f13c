------------------------------- MODULE Drivers -------------------------------
(***************************************************************************)
(* The hypervisor drivers (kvm, docker and fake) under the event loop: one *)
(* name of a pool that wants it, its row, and the machine of that name.    *)
(*                                                                         *)
(* Lease knows a hypervisor as a set of names.  Here the machine has the   *)
(* states its hypervisor gives it, a disk of its own, and a guest that may *)
(* stop by itself; every call of the driver that changes something is a    *)
(* step, and what the daemon learns is what the driver makes of it.        *)
(***************************************************************************)
EXTENDS Integers

CONSTANTS
  Product,   \* the drivers looked at, one per behaviour
  Faults,    \* what may go wrong
  MaxFaults  \* bound: how many times it goes wrong

FaultKind == {"crash", "lookup", "start", "volume", "guest"}

ASSUME ProductAssumption == Product \subseteq {"kvm", "docker", "fake"}
ASSUME FaultAssumption == Faults \subseteq FaultKind /\ MaxFaults \in Nat

VARIABLES
  product,  \* the driver of this behaviour
  machine,  \* state of the machine of that name
  disks,    \* disk images made for that name and not deleted
  wear,     \* whether the machine was leased since it was cloned (history)
  row,      \* the row of that name
  pc,       \* where the daemon is
  faults    \* faults so far

vars == <<product, machine, disks, wear, row, pc, faults>>

-----------------------------------------------------------------------------
State == {"absent", "created", "shutoff", "running", "blocked", "crashed", "exited"}
Status == {"absent", "PENDING", "READY", "RESERVED"}
Action == {"clone", "attr", "destroy", "none"}
Rows   == [status : Status, action : Action, due : BOOLEAN]
Row(s, a, d) == [status |-> s, action |-> a, due |-> d]
NoRow   == Row("absent", "none", FALSE)
\* Handlers take a row when its time has come; only leases are timed here.
Todo(a) == pc = "loop" /\ row.due /\ row.action = a

TypeOK ==
  /\ product \in Product /\ machine \in State /\ disks \in Nat /\ wear \in {"new", "used"}
  /\ row \in Rows
  /\ pc \in {"loop", "start", "volume", "down"}
  /\ faults \in 0..MaxFaults

Init ==
  /\ product \in Product
  /\ machine = "absent" /\ disks = 0 /\ wear = "new"
  /\ row = NoRow /\ pc = "down" /\ faults = 0

Fault(kind) == kind \in Faults /\ faults < MaxFaults /\ faults' = faults + 1

-----------------------------------------------------------------------------
(* kvm: libvirt keeps a domain until it is undefined, and its disk besides. *)

\* state_get hands on libvirt's number; that of a domain "blocked on resource"
\* is 2, which is STATE_NONE.  Every libvirtError is STATE_NONE too.
KvmNone == \/ machine \in {"absent", "blocked"} /\ UNCHANGED faults
           \/ Fault("lookup")

\* get_clone_diskfile: a path that no disk has.
KvmNewDisk == disks' = disks + 1

\* "replace": a domain of that name is undefined first, its disk stays.
KvmClone == machine' = "shutoff" /\ KvmNewDisk /\ wear' = "new"

\* create() raises, or the domain runs.
KvmStart == machine' = "running" /\ UNCHANGED faults
KvmStartRaises == Fault("start")

KvmHasAddress == machine \in {"running", "blocked"}

\* mutant: undefine takes the disk along, and the volume is deleted once more
KvmUndefineWithDisk == machine' = "absent" /\ pc' = "volume" /\ disks' = disks - 1
\* mutant: the volume is forgotten
KvmUndefineOnly == machine' = "absent" /\ pc' = "loop" /\ UNCHANGED disks

\* destroy() unless it is shut off, then undefine; the disk comes after.
KvmUndefine == machine' = "absent" /\ pc' = "volume" /\ UNCHANGED disks

\* listAllDomains: those that do not run as well.
KvmListed == machine # "absent"

-----------------------------------------------------------------------------
(* docker: a container and its volumes go together.                        *)

\* mutant: asks list() whether the container exists
DockerNoneUnlessListed == machine # "running" /\ UNCHANGED faults

DockerNone == machine = "absent" /\ UNCHANGED faults

\* create() raises when a container has the name.
DockerClone == /\ machine = "absent"
               /\ machine' = "created" /\ disks' = disks + 1 /\ wear' = "new"

\* An APIError is answered with STATE_BAD_STATE, which the caller ignores.
DockerStart == \/ machine' = "running" /\ UNCHANGED faults
               \/ Fault("start") /\ UNCHANGED machine

\* IPAddress is the empty string unless the container runs.
DockerHasAddress == machine = "running"

DockerRemove == machine' = "absent" /\ disks' = disks - 1 /\ pc' = "loop"

\* containers.list: only those that run.
DockerListed == machine = "running"

-----------------------------------------------------------------------------
(* fake: a set of names in a file.                                         *)

FakeNone       == machine = "absent" /\ UNCHANGED faults
FakeClone      == machine' = "running" /\ wear' = "new" /\ UNCHANGED disks
FakeStart      == UNCHANGED <<machine, faults>>
FakeHasAddress == TRUE
FakeRemove     == machine' = "absent" /\ pc' = "loop" /\ UNCHANGED disks
FakeListed     == machine # "absent"

-----------------------------------------------------------------------------
(* The driver of this behaviour.                                           *)

Of(kvm, docker, fake) ==
  CASE product = "kvm" -> kvm [] product = "docker" -> docker [] OTHER -> fake

HasAddress == Of(KvmHasAddress, DockerHasAddress, FakeHasAddress)
Listed     == Of(KvmListed, DockerListed, FakeListed)
\* state_get says STATE_NONE, or it says something else.
SaysNone   == \/ product = "kvm" /\ KvmNone
              \/ product = "docker" /\ DockerNone
              \/ product = "fake" /\ FakeNone
SaysExists == /\ machine # "absent" /\ ~(product = "kvm" /\ machine = "blocked")
              /\ UNCHANGED faults

-----------------------------------------------------------------------------
(* The daemon.                                                             *)

\* mutant: a machine that is there already is taken for a new one
AdaptReuses ==
  /\ pc = "loop" /\ row = NoRow
  /\ \/ SaysNone /\ row' = Row("PENDING", "clone", TRUE)
     \/ SaysExists /\ row' = Row("PENDING", "attr", TRUE)
  /\ UNCHANGED <<product, machine, disks, wear, pc>>

\* adapt gives the name a row: to be cloned, or, when the driver knows the
\* name ("lost track"), to be destroyed.
Adapt ==
  /\ pc = "loop" /\ row = NoRow
  /\ \/ SaysNone /\ row' = Row("PENDING", "clone", TRUE)
     \/ SaysExists /\ row' = Row("PENDING", "destroy", TRUE)
  /\ UNCHANGED <<product, machine, disks, wear, pc>>

Clone ==
  /\ Todo("clone")
  /\ \/ product = "kvm" /\ KvmClone
     \/ product = "docker" /\ DockerClone
     \/ product = "fake" /\ FakeClone
  /\ pc' = "start"
  /\ UNCHANGED <<product, row, faults>>

Start ==
  /\ pc = "start"
  /\ \/ product = "kvm" /\ KvmStart
     \/ product = "docker" /\ DockerStart
     \/ product = "fake" /\ FakeStart
  /\ row' = Row("PENDING", "attr", TRUE) /\ pc' = "loop"
  /\ UNCHANGED <<product, disks, wear>>

\* mutant: a machine that does not start is marked, and never tried again
StartGivesUp ==
  /\ pc = "start" /\ product = "kvm" /\ KvmStartRaises
  /\ row' = Row("PENDING", "none", TRUE) /\ pc' = "loop"
  /\ UNCHANGED <<product, machine, disks, wear>>

\* The row is put back: it will be cloned once more.
StartFails ==
  /\ pc = "start" /\ product = "kvm" /\ KvmStartRaises
  /\ pc' = "loop"
  /\ UNCHANGED <<product, machine, disks, wear, row>>

\* Without an address the row is looked at again in a minute, without limit.
Attr ==
  /\ Todo("attr") /\ HasAddress
  /\ row' = Row("READY", "none", TRUE)
  /\ UNCHANGED <<product, machine, disks, wear, pc, faults>>

DestroyRow ==
  /\ Todo("destroy") /\ SaysNone
  /\ row' = NoRow
  /\ UNCHANGED <<product, machine, disks, wear, pc>>

\* The row stays as it is: "Check back some later time."
Destroy ==
  /\ Todo("destroy") /\ SaysExists
  /\ \/ product = "kvm" /\ KvmUndefine
     \/ product = "docker" /\ DockerRemove
     \/ product = "fake" /\ FakeRemove
  /\ wear' = "new"
  /\ UNCHANGED <<product, row>>

\* kvm: the second half of destroy; when it raises, the row is put back, and
\* next time the domain it would be found by is gone.
DeleteVolume ==
  /\ pc = "volume"
  /\ \/ disks' = disks - 1 /\ UNCHANGED faults
     \/ Fault("volume") /\ UNCHANGED disks
  /\ pc' = "loop"
  /\ UNCHANGED <<product, machine, wear, row>>

Crash ==
  /\ pc # "down" /\ Fault("crash")
  /\ pc' = "down"
  /\ UNCHANGED <<product, machine, disks, wear, row>>

\* The row of a machine the driver lists is to be destroyed, any other goes.
Setup ==
  /\ pc = "down"
  /\ row' = IF row # NoRow /\ Listed THEN Row("PENDING", "destroy", TRUE) ELSE NoRow
  /\ pc' = "loop"
  /\ UNCHANGED <<product, machine, disks, wear, faults>>

-----------------------------------------------------------------------------
(* Clients and guests.                                                     *)

Acquire ==
  /\ row.status = "READY"
  /\ row' = Row("RESERVED", "destroy", FALSE) /\ wear' = "used"
  /\ UNCHANGED <<product, machine, disks, pc, faults>>

\* The lease runs out, or is given back.
Expire ==
  /\ row.status = "RESERVED" /\ ~row.due
  /\ row' = [row EXCEPT !.due = TRUE]
  /\ UNCHANGED <<product, machine, disks, wear, pc, faults>>

\* The guest stops, crashes or waits for its disk.
GuestStops ==
  /\ machine = "running" /\ product # "fake" /\ Fault("guest")
  /\ machine' \in IF product = "docker" THEN {"exited"} ELSE {"shutoff", "crashed", "blocked"}
  /\ UNCHANGED <<product, disks, wear, row, pc>>

GuestGoesOn ==
  /\ machine = "blocked" /\ machine' = "running"
  /\ UNCHANGED <<product, disks, wear, row, pc, faults>>

-----------------------------------------------------------------------------
Daemon == \/ Adapt \/ Clone \/ Start \/ StartFails \/ Attr \/ DestroyRow \/ Destroy
          \/ DeleteVolume \/ Setup
Next   == Daemon \/ Crash \/ Acquire \/ Expire \/ GuestStops \/ GuestGoesOn

Spec == Init /\ [][Next]_vars

\* The daemon runs on and is restarted, and deadlines pass.
FairSpec == Spec /\ WF_vars(Daemon) /\ WF_vars(Expire)

-----------------------------------------------------------------------------
(* Properties.                                                             *)

\* What is on offer exists and has not been leased since it was cloned, even
\* if the driver took a machine for gone that was not.
OfferIsFresh == row.status = "READY" => machine # "absent" /\ wear = "new"

\* Each thing that goes wrong costs one disk at most, besides the disk of the
\* machine itself: what no domain refers to any more is never deleted.
LeaksAreBounded ==
  /\ disks - 1 <= faults
  /\ machine = "absent" /\ pc # "volume" => disks <= faults

\* A machine that was leased is destroyed or replaced once the lease is over,
\* whatever state it is in.
UsedIsReclaimed ==
  wear = "used" /\ (row.status # "RESERVED" \/ row.due) ~> wear = "new"

\* The name is on offer or leased again and again, unless its machine will
\* have no address.
Recovers ==
  []<>(\/ row.status \in {"READY", "RESERVED"}
       \/ row.action = "attr" /\ ~HasAddress)

==============================================================================
