-------------------------------- MODULE Lease --------------------------------
(***************************************************************************)
(* The life of the resources of one pool: the rows of the Resource table,  *)
(* the virtual machines behind them, the event loop of tpl-daemon that     *)
(* clones and destroys the machines, and the REST requests that acquire,   *)
(* release and renew them.                                                 *)
(*                                                                         *)
(* Three kinds of process share the table and nothing else: the daemon,    *)
(* one thread per REST request, and the operator's command line.  Every    *)
(* database statement commits by itself, Model.save() writes every column  *)
(* of the copy its caller holds, and an UPDATE that finds no row turns     *)
(* into an INSERT.  A step below is one such statement, or one call of the *)
(* hypervisor; what a process read earlier it keeps in batch, job, todo or *)
(* req.                                                                    *)
(*                                                                         *)
(* Time is the flag "due" of a row: its action_time has passed.  A machine *)
(* is its name, a number: template.0, template.1, ... are 0, 1, ...        *)
(***************************************************************************)
EXTENDS Integers, FiniteSets

CONSTANTS
  Client,     \* clients of the REST interface
  Id,         \* primary keys (sqlite never reuses one; see Fresh)
  NoId,       \* what Django leaves in the key of a deleted instance
  MaxSize,    \* bound: the largest resource_max
  InitMax,    \* resource_max of the pool at the start
  Sizes,      \* values the operator may give resource_max
  MayShrink,  \* the operator may lower resource_max
  Race,       \* two acquires may be in flight together
  Late,       \* a client may still call once its lease has run out
  Slow,       \* a request may outlast a deadline or a restart of the daemon
  Faults,     \* what may go wrong
  MaxFaults   \* bound: how many times it goes wrong

FaultKind == {"crash", "clone", "destroy", "ip", "state"}

ASSUME SizeAssumption ==
  /\ MaxSize \in Nat \ {0}
  /\ InitMax \in 1..MaxSize
  /\ Sizes \subseteq 1..MaxSize
ASSUME IdAssumption == IsFiniteSet(Id) /\ NoId \notin Id
ASSUME FlagAssumption == {MayShrink, Race, Late, Slow} \subseteq BOOLEAN
ASSUME FaultAssumption == Faults \subseteq FaultKind /\ MaxFaults \in Nat

VARIABLES
  rows,    \* the Resource table: a row, or NoRow, for every key
  max,     \* Pool.resource_max in the table
  vm,      \* names of the machines the hypervisor has
  dirty,   \* of those, the ones a client has been given (history)
  pc,      \* where the daemon is
  batch,   \* the daemon's snapshot of the due rows not handled yet
  job,     \* the row object the daemon is working on
  walk,    \* how far adapt's walk over the names has got
  todo,    \* keys adapt has still to mark for destruction
  req,     \* the REST request each client has in flight
  lease,   \* what each client believes it holds
  faults   \* faults so far

daemon == <<pc, batch, job, walk, todo>>
table  == <<rows, max>>
host   == <<vm, dirty>>
vars   == <<rows, max, vm, dirty, pc, batch, job, walk, todo, req, lease, faults>>

-----------------------------------------------------------------------------
(* Rows, and what is in memory.                                            *)

Slot   == 0..(MaxSize - 1)
Status == {"absent", "PENDING", "READY", "RESERVED"}
Action == {"clone", "attr", "destroy", "none"}
Row    == [status : Status, action : Action, name : Slot, due : BOOLEAN]
NoRow  == [status |-> "absent", action |-> "none", name |-> 0, due |-> FALSE]

Present(i) == rows[i].status # "absent"
Holders(n) == {i \in Id : Present(i) /\ rows[i].name = n}
Current    == {i \in Id : Present(i)}

\* The copy of a row that transition() writes; action_time is always ahead.
Written(s, a, n) == [status |-> s, action |-> a, name |-> n, due |-> FALSE]

\* transition() of the instance with key i: UPDATE, or INSERT under the same
\* key when the row is gone.
Saved(i, s, a, n) == [rows EXCEPT ![i] = Written(s, a, n)]

Job     == [id : Id \cup {NoId}, row : Row, max : 1..MaxSize,
            caller : {"main", "destroy", "clone", "attr"}]
Walk    == [at : 0..MaxSize, missing : 0..MaxSize]
Req     == [op : {"none", "acquire", "release", "renew"},
            id : Id \cup {NoId}, row : Row]
Held    == [state : {"none", "live", "expired", "revoked", "late"},
            id : Id \cup {NoId}, name : Slot]

NoBatch == [i \in Id |-> NoRow]
NoJob   == [id |-> NoId, row |-> NoRow, caller |-> "main", max |-> 1]
NoWalk  == [at |-> 0, missing |-> 0]
NoReq   == [op |-> "none", id |-> NoId, row |-> NoRow]
NoLease == [state |-> "none", id |-> NoId, name |-> 0]

\* A key no one can mention any more stands for one never used before:
\* AUTOINCREMENT hands out ever larger keys, the model recycles them.
Fresh == {j \in Id : /\ ~Present(j) /\ batch[j] = NoRow /\ job.id # j
                     /\ \A c \in Client : req[c].id # j /\ lease[c].id # j}

TypeOK ==
  /\ rows \in [Id -> Row]
  /\ max \in 1..MaxSize
  /\ vm \subseteq Slot
  /\ dirty \subseteq Slot
  /\ pc \in {"loop", "destroy", "destroyed", "clone", "cloned", "attr", "retry",
             "adapt", "shrink", "grow", "down"}
  /\ batch \in [Id -> Row]
  /\ job \in Job
  /\ walk \in Walk
  /\ todo \subseteq Id
  /\ req \in [Client -> Req]
  /\ lease \in [Client -> Held]
  /\ faults \in 0..MaxFaults

Init ==
  /\ rows = [i \in Id |-> NoRow]
  /\ max = InitMax
  /\ vm = {} /\ dirty = {}
  /\ pc = "down" /\ batch = NoBatch /\ job = NoJob /\ walk = NoWalk /\ todo = {}
  /\ req = [c \in Client |-> NoReq]
  /\ lease = [c \in Client |-> NoLease]
  /\ faults = 0

-----------------------------------------------------------------------------
(* The event loop.                                                         *)

\* Mutant: the action_time check of the loop is dropped.
WaitingIgnoresTime(i) == Present(i) /\ rows[i].status # "READY"
\* Mutant: the query leaves out RESERVED rows as well as READY ones.
WaitingSkipsReserved(i) == Present(i) /\ rows[i].status = "PENDING" /\ rows[i].due

\* What the query of the main loop returns and the action_time check lets
\* through.  The rows are handled in some order: action_time is not modelled.
Waiting(i) == Present(i) /\ rows[i].status # "READY" /\ rows[i].due

\* The queryset is evaluated once; every entry of the batch is handled from
\* this copy, however long the entries before it take.
Poll ==
  /\ pc = "loop" /\ batch = NoBatch
  /\ \E i \in Id : Waiting(i)
  /\ batch' = [i \in Id |-> IF Waiting(i) THEN rows[i] ELSE NoRow]
  /\ UNCHANGED <<table, host, pc, job, walk, todo, req, lease, faults>>

\* action_resource of one entry.  rsrc.pool is fetched here and kept, so the
\* resource_max that adapt will use is the one of this moment.
Start(i) ==
  /\ pc = "loop" /\ batch[i] # NoRow
  /\ batch' = [batch EXCEPT ![i] = NoRow]
  /\ IF batch[i].action = "none" THEN UNCHANGED <<pc, job>>
     ELSE /\ job' = [id |-> i, row |-> batch[i], caller |-> batch[i].action,
                     max |-> max]
          /\ pc' = batch[i].action
  /\ UNCHANGED <<table, host, walk, todo, req, lease, faults>>

\* The entry is done.
Finish == pc' = "loop" /\ job' = NoJob /\ walk' = NoWalk /\ todo' = {}

\* The process ends and its memory is lost.
Halt ==
  /\ pc' = "down" /\ batch' = NoBatch /\ job' = NoJob /\ walk' = NoWalk
  /\ todo' = {}

\* An exception other than PoolError: action_destroy and action_clone put
\* their entry back (Retry), anything else ends the process.
Raise ==
  IF job.caller \in {"destroy", "clone"}
  THEN pc' = "retry" /\ walk' = NoWalk /\ UNCHANGED <<batch, job, todo>>
  ELSE Halt

Fault(kind) == kind \in Faults /\ faults < MaxFaults /\ faults' = faults + 1

-----------------------------------------------------------------------------
(* action_destroy: the machine is destroyed first; the row goes when a     *)
(* later visit finds the machine gone.                                     *)

\* Mutant: the row is deleted without asking for the machine's state.
DestroyRowUnchecked ==
  /\ pc = "destroy"
  /\ rows' = [rows EXCEPT ![job.id] = NoRow]
  /\ job' = [job EXCEPT !.id = NoId]
  /\ pc' = "adapt"
  /\ UNCHANGED <<max, host, batch, walk, todo, req, lease, faults>>

\* state_get said STATE_NONE: delete the row; its instance loses its key.
DestroyRow ==
  /\ pc = "destroy" /\ job.row.name \notin vm
  /\ rows' = [rows EXCEPT ![job.id] = NoRow]
  /\ job' = [job EXCEPT !.id = NoId]
  /\ pc' = "adapt"
  /\ UNCHANGED <<max, host, batch, walk, todo, req, lease, faults>>

DestroyVm ==
  /\ pc = "destroy" /\ job.row.name \in vm
  /\ vm' = vm \ {job.row.name} /\ dirty' = dirty \ {job.row.name}
  /\ pc' = "destroyed"
  /\ UNCHANGED <<table, batch, job, walk, todo, req, lease, faults>>

\* state_get raises, or destroy does, before or after the machine is gone.
DestroyFails ==
  /\ pc = "destroy"
  /\ \/ Fault("state") /\ UNCHANGED host
     \/ /\ job.row.name \in vm /\ Fault("destroy")
        /\ \/ UNCHANGED host
           \/ vm' = vm \ {job.row.name} /\ dirty' = dirty \ {job.row.name}
  /\ pc' = "retry"
  /\ UNCHANGED <<table, batch, job, walk, todo, req, lease>>

\* "Check back some later time": status and action stay those of the copy.
DestroySave ==
  /\ pc = "destroyed"
  /\ rows' = Saved(job.id, job.row.status, job.row.action, job.row.name)
  /\ pc' = "adapt"
  /\ UNCHANGED <<max, host, batch, job, walk, todo, req, lease, faults>>

-----------------------------------------------------------------------------
(* action_clone and action_attr.                                           *)

CloneVm ==
  /\ pc = "clone"
  /\ vm' = vm \cup {job.row.name} /\ dirty' = dirty \ {job.row.name}
  /\ pc' = "cloned"
  /\ UNCHANGED <<table, batch, job, walk, todo, req, lease, faults>>

\* clone raises, or start does and the machine is there.
CloneFails ==
  /\ pc = "clone" /\ Fault("clone")
  /\ \/ UNCHANGED host
     \/ vm' = vm \cup {job.row.name} /\ dirty' = dirty \ {job.row.name}
  /\ pc' = "retry"
  /\ UNCHANGED <<table, batch, job, walk, todo, req, lease>>

CloneSave ==
  /\ pc = "cloned"
  /\ rows' = Saved(job.id, "PENDING", "attr", job.row.name)
  /\ job' = [job EXCEPT !.row = Written("PENDING", "attr", @.name)]
  /\ pc' = "adapt"
  /\ UNCHANGED <<max, host, batch, walk, todo, req, lease, faults>>

\* ip_get found an address.  It reads what no step of the model changes, so
\* the read and the write of the row are one step.
AttrReady ==
  /\ pc = "attr"
  /\ rows' = Saved(job.id, "READY", "none", job.row.name)
  /\ pc' = "adapt"
  /\ UNCHANGED <<max, host, batch, job, walk, todo, req, lease, faults>>

\* No address yet: look again in a minute, without limit and without adapt.
AttrAgain ==
  /\ pc = "attr"
  /\ \/ Fault("ip")
     \/ job.row.name \notin vm /\ UNCHANGED faults
  /\ rows' = Saved(job.id, job.row.status, job.row.action, job.row.name)
  /\ Finish
  /\ UNCHANGED <<max, host, batch, req, lease>>

\* Mutant: a failed entry goes on to the next action.
RetryGoesOn ==
  /\ pc = "retry" /\ job.id # NoId
  /\ rows' = Saved(job.id, "PENDING", "attr", job.row.name)
  /\ Finish
  /\ UNCHANGED <<max, host, batch, req, lease, faults>>
\* Mutant: a failed entry is put back without its action.
RetryForgetsAction ==
  /\ pc = "retry" /\ job.id # NoId
  /\ rows' = Saved(job.id, job.row.status, "none", job.row.name)
  /\ Finish
  /\ UNCHANGED <<max, host, batch, req, lease, faults>>

\* The handler of "except Exception": put the entry back as the instance has
\* it.  After delete() the instance has no key and save() inserts a new row.
Retry ==
  /\ pc = "retry"
  /\ IF job.id # NoId
     THEN rows' = Saved(job.id, job.row.status, job.row.action, job.row.name)
     ELSE \E j \in Fresh :
            rows' = Saved(j, job.row.status, job.row.action, job.row.name)
  /\ Finish
  /\ UNCHANGED <<max, host, batch, req, lease, faults>>

-----------------------------------------------------------------------------
(* algo.adapt with the resource_max its caller read.                       *)

\* The rows adapt may mark when it has "how_many" too many: the first ones of
\* an unordered queryset that are READY or PENDING.
Victims == {i \in Id : rows[i].status \in {"READY", "PENDING"}}
Marked(S, howMany) == \/ Cardinality(S) = howMany
                      \/ Cardinality(S) < howMany /\ S = Victims

AdaptEnough ==
  /\ pc = "adapt" /\ Cardinality(Current) = job.max
  /\ Finish
  /\ UNCHANGED <<table, host, batch, req, lease, faults>>

AdaptMany ==
  /\ pc = "adapt" /\ Cardinality(Current) > job.max
  /\ \E S \in SUBSET Victims :
       /\ Marked(S, Cardinality(Current) - job.max)
       /\ IF S = {} THEN Finish
          ELSE pc' = "shrink" /\ todo' = S /\ UNCHANGED <<job, walk>>
  /\ UNCHANGED <<table, host, batch, req, lease, faults>>

\* Mutant: a row too many is deleted at once, its machine left to itself.
ShrinkRowDeletes(i) ==
  /\ pc = "shrink" /\ i \in todo
  /\ rows' = [rows EXCEPT ![i] = NoRow]
  /\ IF todo = {i} THEN Finish
     ELSE todo' = todo \ {i} /\ UNCHANGED <<pc, job, walk>>
  /\ UNCHANGED <<max, host, batch, req, lease, faults>>

\* transition() of one of them, from the copy the queryset returned.
ShrinkRow(i) ==
  /\ pc = "shrink" /\ i \in todo
  /\ rows' = Saved(i, "PENDING", "destroy", rows[i].name)
  /\ IF todo = {i} THEN Finish
     ELSE todo' = todo \ {i} /\ UNCHANGED <<pc, job, walk>>
  /\ UNCHANGED <<max, host, batch, req, lease, faults>>

AdaptFew ==
  /\ pc = "adapt" /\ Cardinality(Current) < job.max
  /\ walk' = [at |-> 0, missing |-> job.max - Cardinality(Current)]
  /\ pc' = "grow"
  /\ UNCHANGED <<table, host, batch, job, todo, req, lease, faults>>

\* get_or_create found exactly one row for every name from "from" up to n.
Skipped(n) == \A m \in walk.at..(n - 1) : Cardinality(Holders(m)) = 1

\* Mutant: a row is created for a name whether or not it has one.
GrowRowCreates(n) ==
  /\ pc = "grow" /\ walk.missing > 0
  /\ n \in walk.at..(job.max - 1)
  /\ \E j \in Fresh :
       rows' = Saved(j, "PENDING", IF n \in vm THEN "destroy" ELSE "clone", n)
  /\ walk' = [at |-> n + 1, missing |-> walk.missing - 1]
  /\ UNCHANGED <<max, host, pc, batch, job, todo, req, lease, faults>>

\* The next name without a row gets one: to be cloned, or, when the
\* hypervisor knows the name ("lost track"), to be destroyed.
GrowRow(n) ==
  /\ pc = "grow" /\ walk.missing > 0
  /\ n \in walk.at..(job.max - 1) /\ Skipped(n) /\ Holders(n) = {}
  /\ \E j \in Fresh :
       rows' = Saved(j, "PENDING", IF n \in vm THEN "destroy" ELSE "clone", n)
  /\ walk' = [at |-> n + 1, missing |-> walk.missing - 1]
  /\ UNCHANGED <<max, host, pc, batch, job, todo, req, lease, faults>>

\* state_get raises after get_or_create has committed the row's defaults.
GrowFails(n) ==
  /\ pc = "grow" /\ walk.missing > 0 /\ Fault("state")
  /\ n \in walk.at..(job.max - 1) /\ Skipped(n) /\ Holders(n) = {}
  /\ \E j \in Fresh : rows' = Saved(j, "PENDING", "clone", n)
  /\ Raise
  /\ UNCHANGED <<max, host, req, lease>>

\* Two rows of one name: get_or_create raises MultipleObjectsReturned.
GrowDuplicate(n) ==
  /\ pc = "grow" /\ walk.missing > 0
  /\ n \in walk.at..(job.max - 1) /\ Skipped(n) /\ Cardinality(Holders(n)) > 1
  /\ Raise
  /\ UNCHANGED <<table, host, req, lease, faults>>

GrowDone ==
  /\ pc = "grow" /\ (walk.missing = 0 \/ Skipped(job.max))
  /\ Finish
  /\ UNCHANGED <<table, host, batch, req, lease, faults>>

-----------------------------------------------------------------------------
(* The daemon dies; systemd starts it again: setup, then adapt of main.    *)

\* Killed, or an exception nothing catches (ip_get of docker raises one).
Crash ==
  /\ pc # "down" /\ Fault("crash")
  /\ Halt
  /\ UNCHANGED <<table, host, req, lease>>

\* Mutant: the rows marked BAD are not deleted.
SetupRowKeepsBad(i) ==
  IF Present(i) /\ rows[i].name \in vm
  THEN Written("PENDING", "destroy", rows[i].name)
  ELSE IF Present(i) /\ rows[i].name < max
       THEN Written("BAD", "none", rows[i].name) ELSE rows[i]
\* Mutant: a machine that is found is put on offer.
SetupRowReuses(i) ==
  IF Present(i) /\ rows[i].name \in vm
  THEN Written("READY", "none", rows[i].name)
  ELSE IF rows[i].name < max THEN NoRow ELSE rows[i]
\* Mutant: a machine that is found has its row cloned again.
SetupRowReclones(i) ==
  IF Present(i) /\ rows[i].name \in vm
  THEN Written("PENDING", "clone", rows[i].name)
  ELSE IF rows[i].name < max THEN NoRow ELSE rows[i]

\* setup: rows of the names 0..max-1 are marked BAD, rows whose machine the
\* hypervisor lists are to be destroyed, the rows still BAD are deleted.
SetupRow(i) ==
  IF Present(i) /\ rows[i].name \in vm
  THEN Written("PENDING", "destroy", rows[i].name)
  ELSE IF rows[i].name < max THEN NoRow ELSE rows[i]

\* A client whose row setup took away loses its lease, unasked and untold.
Restart ==
  /\ pc = "down" /\ (Slow \/ \A c \in Client : req[c] = NoReq)
  /\ rows' = [i \in Id |-> SetupRow(i)]
  /\ lease' = [c \in Client |->
                 IF lease[c].state = "live" /\ rows'[lease[c].id] # rows[lease[c].id]
                 THEN [lease[c] EXCEPT !.state = "revoked"] ELSE lease[c]]
  /\ pc' = "adapt"
  /\ job' = [NoJob EXCEPT !.max = max]
  /\ UNCHANGED <<max, host, batch, walk, todo, req, faults>>

-----------------------------------------------------------------------------
(* REST requests: a handler reads its row, then saves its copy.            *)

Idle(c) == req[c] = NoReq
Ask(c, op, i) == req' = [req EXCEPT ![c] = [op |-> op, id |-> i, row |-> rows[i]]]

\* Clients that keep to their deadline call only while their lease runs.
MayCall(c) == \/ lease[c].state = "live"
              \/ Late /\ lease[c].state \in {"expired", "revoked", "late"}

\* Mutant: a RESERVED row will do.
AcquireReadTakesReserved(c, i) ==
  /\ Idle(c) /\ lease[c].state = "none"
  /\ Race \/ \A d \in Client : req[d].op # "acquire"
  /\ rows[i].status \in {"READY", "RESERVED"}
  /\ Ask(c, "acquire", i)
  /\ UNCHANGED <<table, host, daemon, lease, faults>>

\* pool_acquire picks a READY row; without one it answers 403 and does nothing.
AcquireRead(c, i) ==
  /\ Idle(c) /\ lease[c].state = "none"
  /\ Race \/ \A d \in Client : req[d].op # "acquire"
  /\ rows[i].status = "READY"
  /\ Ask(c, "acquire", i)
  /\ UNCHANGED <<table, host, daemon, lease, faults>>

\* Mutant: the reservation carries no action for its deadline.
AcquireSaveWithoutAction(c) ==
  /\ req[c].op = "acquire"
  /\ rows' = Saved(req[c].id, "RESERVED", "none", req[c].row.name)
  /\ lease' = [lease EXCEPT ![c] = [state |-> "live", id |-> req[c].id,
                                    name |-> req[c].row.name]]
  /\ dirty' = dirty \cup {req[c].row.name}
  /\ req' = [req EXCEPT ![c] = NoReq]
  /\ UNCHANGED <<max, vm, daemon, faults>>

AcquireSave(c) ==
  /\ req[c].op = "acquire"
  /\ rows' = Saved(req[c].id, "RESERVED", "destroy", req[c].row.name)
  /\ lease' = [lease EXCEPT ![c] = [state |-> "live", id |-> req[c].id,
                                    name |-> req[c].row.name]]
  /\ dirty' = dirty \cup {req[c].row.name}
  /\ req' = [req EXCEPT ![c] = NoReq]
  /\ UNCHANGED <<max, vm, daemon, faults>>

\* pool_release refuses a row that is not RESERVED; the caller drops its lease.
ReleaseRead(c) ==
  /\ Idle(c) /\ MayCall(c)
  /\ rows[lease[c].id].status = "RESERVED"
  /\ Ask(c, "release", lease[c].id)
  /\ lease' = [lease EXCEPT ![c] = NoLease]
  /\ UNCHANGED <<table, host, daemon, faults>>

\* Mutant: the machine is put back on offer as it is.
ReleaseSaveReuses(c) ==
  /\ req[c].op = "release"
  /\ rows' = Saved(req[c].id, "READY", "none", req[c].row.name)
  /\ req' = [req EXCEPT ![c] = NoReq]
  /\ UNCHANGED <<max, host, daemon, lease, faults>>

ReleaseSave(c) ==
  /\ req[c].op = "release"
  /\ rows' = Saved(req[c].id, "PENDING", "destroy", req[c].row.name)
  /\ req' = [req EXCEPT ![c] = NoReq]
  /\ UNCHANGED <<max, host, daemon, lease, faults>>

\* resource_renew asks only that the row exists, whatever its status.
RenewRead(c) ==
  /\ Idle(c) /\ MayCall(c)
  /\ Present(lease[c].id)
  /\ Ask(c, "renew", lease[c].id)
  /\ UNCHANGED <<table, host, daemon, lease, faults>>

\* The answer says RESERVED: a client whose lease had ended meanwhile now
\* believes that it holds one again ("late").
RenewSave(c) ==
  /\ req[c].op = "renew"
  /\ rows' = Saved(req[c].id, "RESERVED", "destroy", req[c].row.name)
  /\ lease' = [lease EXCEPT ![c].state = IF @ = "live" THEN "live" ELSE "late"]
  /\ req' = [req EXCEPT ![c] = NoReq]
  /\ UNCHANGED <<max, host, daemon, faults>>

\* The client goes away without a call, or its call is refused, or it never
\* saw the answer to acquire.
Drop(c) ==
  /\ Idle(c) /\ lease[c].state # "none"
  /\ lease' = [lease EXCEPT ![c] = NoLease]
  /\ UNCHANGED <<table, host, daemon, req, faults>>

-----------------------------------------------------------------------------
(* The clock and the operator.                                             *)

\* action_time of row i passes.  For a RESERVED row that is the deadline of
\* the leases on it.  Unless Slow, a request on the row is over by then.
Tick(i) ==
  /\ Present(i) /\ rows[i].status # "READY" /\ ~rows[i].due
  /\ Slow \/ \A c \in Client : req[c].id # i
  /\ rows' = [rows EXCEPT ![i].due = TRUE]
  /\ lease' = [c \in Client |->
                 IF /\ rows[i].status = "RESERVED"
                    /\ lease[c].state = "live" /\ lease[c].id = i
                 THEN [lease[c] EXCEPT !.state = "expired"] ELSE lease[c]]
  /\ UNCHANGED <<max, host, daemon, req, faults>>

\* "tpl resource incr" (resource_max never reaches 0 here: see the README).
Resize(n) ==
  /\ n \in Sizes /\ n # max /\ (n > max \/ MayShrink)
  /\ max' = n
  /\ UNCHANGED <<rows, host, daemon, req, lease, faults>>

-----------------------------------------------------------------------------
Daemon ==
  \/ Poll
  \/ \E i \in Id : Start(i)
  \/ DestroyRow \/ DestroyVm \/ DestroyFails \/ DestroySave
  \/ CloneVm \/ CloneFails \/ CloneSave
  \/ AttrReady \/ AttrAgain
  \/ Retry
  \/ AdaptEnough \/ AdaptMany \/ AdaptFew
  \/ \E i \in Id : ShrinkRow(i)
  \/ \E n \in Slot : GrowRow(n) \/ GrowFails(n) \/ GrowDuplicate(n)
  \/ GrowDone

Answer(c) == AcquireSave(c) \/ ReleaseSave(c) \/ RenewSave(c)

Request(c) ==
  \/ \E i \in Id : AcquireRead(c, i)
  \/ ReleaseRead(c)
  \/ RenewRead(c)
  \/ Answer(c)
  \/ Drop(c)

Next ==
  \/ Daemon
  \/ Crash
  \/ Restart
  \/ \E c \in Client : Request(c)
  \/ \E i \in Id : Tick(i)
  \/ \E n \in Slot : Resize(n + 1)

Spec == Init /\ [][Next]_vars

\* The daemon's process runs on, systemd restarts it, the clock advances and a
\* request that was started is finished.  Nothing makes clients or the
\* operator do anything.  Fairness of Restart is strong because, unless Slow,
\* the model lets it wait for requests, which systemd does not.
Fairness ==
  /\ WF_vars(Daemon)
  /\ SF_vars(Restart)
  /\ \A i \in Id : WF_vars(Tick(i))
  /\ \A c \in Client : WF_vars(Answer(c))

FairSpec == Spec /\ Fairness

-----------------------------------------------------------------------------
(* Properties.                                                             *)

\* get_or_create is relied on to keep one row per machine name, though no
\* constraint of the table says so: never two rows of one name.
UniqueNames ==
  \A i, j \in Id : Present(i) /\ Present(j) /\ rows[i].name = rows[j].name => i = j

\* As long as a lease runs, the table knows it: the row the client holds the
\* key of is RESERVED and will be destroyed, but its time has not come.
LeaseBacked ==
  \A c \in Client : lease[c].state = "live" =>
    rows[lease[c].id] = Written("RESERVED", "destroy", lease[c].name)

\* As long as a lease runs, its machine is there: nothing the daemon does on
\* the strength of what it read earlier takes it from its client.
LiveLeaseHoldsVm ==
  \A c \in Client : lease[c].state = "live" => lease[c].name \in vm

\* No machine is leased to two clients at a time.
ExclusiveLease ==
  \A c, d \in Client :
    /\ lease[c].state = "live" /\ lease[d].state = "live"
    /\ lease[c].name = lease[d].name
    => c = d

\* What pool_acquire offers exists and no client has had it before, whatever
\* was retried, destroyed or restarted on the way to READY.
ReadyIsPristine ==
  \A i \in Id : rows[i].status = "READY" => rows[i].name \in vm \ dirty

\* No machine is lost: whenever the hypervisor runs one, some row has its
\* name, so the daemon will come across it.
VmTracked == \A n \in vm : Holders(n) # {}

\* The machines and the leases are all a client sees; what happens to them is
\* what LeaseContract allows.
Leased(n)  == {c \in Client : lease[c].state = "live" /\ lease[c].name = n}
StageOf(n) == IF n \notin vm THEN "none"
              ELSE IF Leased(n) # {} THEN "leased"
              ELSE IF n \in dirty THEN "used" ELSE "fresh"

Contract == INSTANCE LeaseContract
              WITH stage <- [n \in Slot |-> StageOf(n)],
                   holder <- [n \in Slot |-> Leased(n)]
KeepsContract == Contract!ContractSpec

\* A reserved row whose deadline has passed is deleted in the end, its machine
\* with it: an expired lease does not cost the pool a slot.
Reclaimed ==
  \A i \in Id : rows[i].status = "RESERVED" /\ rows[i].due ~> ~Present(i)

\* The pool recovers: every name of the pool is on offer again and again,
\* unless it is in use.
Refilled ==
  \A n \in Slot :
    []<>(n < max => \E i \in Holders(n) : rows[i].status \in {"READY", "RESERVED"})
==============================================================================
