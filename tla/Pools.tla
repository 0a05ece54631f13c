-------------------------------- MODULE Pools --------------------------------
(***************************************************************************)
(* The life of pools: pool_add, pool_remove and the other commands of the  *)
(* operator in processes of their own, beside the daemon that starts up,   *)
(* clones and destroys machines, adapts pools and deletes empty ones.      *)
(*                                                                         *)
(* Pools and resources are rows of two tables, each under a primary key.   *)
(* A Pool instance in memory is its key with a copy of its columns;        *)
(* save() updates the row of that key or inserts it again, and raises      *)
(* IntegrityError when the name is taken by then.  Deleting a pool deletes *)
(* its rows, but sqlite lets a row refer to a pool that is gone.           *)
(*                                                                         *)
(* Lease has every step of one row and of the requests for it; here a call *)
(* of the hypervisor and the save after it are one step.                   *)
(***************************************************************************)
EXTENDS Integers, FiniteSets

CONSTANTS
  Name,         \* names of pools
  Key,          \* primary keys of the Pool table
  NoKey,        \* no pool
  Id,           \* primary keys of the Resource table
  NoId,         \* the key of an instance that was deleted
  Operator,     \* processes that run pool_add, pool_remove, ...
  Daemon,       \* the daemon's process
  MaxSize,      \* bound: the largest resource_max
  SameTemplate, \* all pools use one template on one host
  Commands,     \* what operators do
  Patient,      \* no one adds or enlarges a pool that is being removed
  Faults,       \* what may go wrong: "host" (PoolError), "state", "crash"
  MaxFaults,    \* bound: how many times it goes wrong
  MaxEvents     \* bound: that, and the commands that are given

ASSUME KeyAssumption ==
  IsFiniteSet(Key) /\ NoKey \notin Key \cup Name /\ Key # {} /\ Name # {}
ASSUME IdAssumption == IsFiniteSet(Id) /\ NoId \notin Id
ASSUME ProcessAssumption == Daemon \notin Operator
ASSUME BoundAssumption == MaxSize \in Nat \ {0} /\ {MaxFaults, MaxEvents} \subseteq Nat
ASSUME CommandAssumption ==
  Commands \subseteq {"add", "add unknown", "remove", "purge", "incr", "decr",
                     "release", "reserve"}
ASSUME FlagAssumption ==
  {SameTemplate, Patient} \subseteq BOOLEAN /\ Faults \subseteq {"host", "state", "crash"}

VARIABLES
  pools,     \* the Pool table
  rows,      \* the Resource table
  vm,        \* the machines the hypervisor has
  abandoned, \* names of machines of pools removed with "immediate" (history)
  wanted,    \* pools the operator has added and not removed (history)
  pc,        \* where the daemon is
  todo,      \* pools that setup, or adapt of main, has still to visit
  turn,      \* the pool that setup has found deleteable
  batch,     \* rows the event loop has read and has still to handle
  job,       \* the row object in the daemon's hands, and its pool object
  walk,      \* adapt, in each process that runs it
  cmd,       \* the command each operator has in flight
  given,     \* commands so far
  faults     \* faults so far

tables == <<pools, rows>>
host   == <<vm, abandoned>>
daemon == <<pc, todo, turn, batch, job>>
bounds == <<given, faults>>
vars   == <<pools, rows, vm, abandoned, wanted, daemon, walk, cmd, bounds>>

-----------------------------------------------------------------------------
(* The tables.                                                             *)

Slot       == 0..(MaxSize - 1)
Size       == -1..MaxSize
\* new_name_get: the template's name and a number, whatever pool it is for.
MachineOf(p, n) == <<IF SameTemplate THEN "template" ELSE p, n>>
Machine    == {MachineOf(p, n) : p \in Name, n \in Slot}
NoMachine  == <<"none", 0>>

\* "known" is whether the host's product is one the extensions support.
Pool   == [name : Name, max : Size, known : BOOLEAN]
NoPool == [name |-> NoKey, max |-> 0, known |-> TRUE]
Row    == [pool : Key, name : Machine, due : BOOLEAN,
           status : {"PENDING", "READY", "RESERVED"},
           action : {"clone", "attr", "destroy", "none"}]
NoRow  == [pool |-> NoKey, name |-> NoMachine, due |-> FALSE,
           status |-> "absent", action |-> "none"]
\* What is used of a row that was listed to be destroyed.
Copy   == [id : Id, pool : Key, name : Machine]

\* A row is "due" once its action_time has passed.  Only the time of a
\* reservation is modelled: any other row may be handled at any moment.
RowFor(k, m, s, a) == [pool |-> k, name |-> m, due |-> TRUE, status |-> s, action |-> a]

Named(p)      == {k \in Key : pools[k].name = p}
RowsOf(k)     == {i \in Id : rows[i].pool = k}
Holders(k, m) == {i \in RowsOf(k) : rows[i].name = m}
Dangling(i)   == rows[i] # NoRow /\ pools[rows[i].pool] = NoPool
Copies(S)     == {[id |-> i, pool |-> rows[i].pool, name |-> rows[i].name] : i \in S}

\* Model.save() of a pool object: it fails if the row is gone and another row
\* has taken the name, which is unique.
CanSave(k, pool)   == pools[k] # NoPool \/ Named(pool.name) = {}
SavedPool(k, pool) == [pools EXCEPT ![k] = pool]

\* Pool.delete() takes the rows of the pool with it.
Without(k)  == [pools EXCEPT ![k] = NoPool]
Cascaded(k) == [i \in Id |-> IF rows[i].pool = k THEN NoRow ELSE rows[i]]

\* Mutant: resource_max is not asked for.
DeleteableAnySize(k, pool) == RowsOf(k) = {}
\* Mutant: the rows are not asked for.
DeleteableWithRows(k, pool) == pool.max = 0

\* Pool.deleteable() of a pool object: its own resource_max, but the rows that
\* are in the table now.
Deleteable(k, pool) == pool.max = 0 /\ RowsOf(k) = {}

NoTodo  == [k \in Key |-> NoPool]
NoBatch == [i \in Id |-> NoRow]
JobOf(id, row, pool, caller) == [id |-> id, row |-> row, pool |-> pool, caller |-> caller]
NoJob  == JobOf(NoId, NoRow, NoPool, "main")
NoWalk == [mode |-> "off", key |-> NoKey, name |-> NoKey, max |-> 0, at |-> 0,
           missing |-> 0, id |-> NoId, rest |-> {}]
\* A walk with another mode, number, count or row.
WalkTo(w, mode, at, missing, id) ==
  [mode |-> mode, key |-> w.key, name |-> w.name, max |-> w.max, at |-> at,
   missing |-> missing, id |-> id, rest |-> {}]
\* A walk that has this many rows to destroy, of these.
Shrinking(w, missing, rest) ==
  [mode |-> "shrink", key |-> w.key, name |-> w.name, max |-> w.max, at |-> 0,
   missing |-> missing, id |-> NoId, rest |-> rest]
NoCmd  == [op |-> "none", key |-> NoKey, pool |-> NoPool, id |-> NoId,
           row |-> NoRow, todo |-> {}]
\* A pool_remove that has saved its pool, and the rows it has still to visit.
WithRows(c, rest) == [op |-> c.op, key |-> c.key, pool |-> NoPool, id |-> NoId, row |-> NoRow,
                      todo |-> rest]

\* A key never used before is one that nothing mentions any more; the keys are
\* interchangeable, so any one of those will do.
UnusedKey == {k \in Key : /\ pools[k] = NoPool /\ todo[k] = NoPool
                          /\ RowsOf(k) = {} /\ job.row.pool # k /\ turn # k
                          /\ \A i \in Id : batch[i].pool # k
                          /\ \A x \in DOMAIN walk : walk[x].key # k
                          /\ \A o \in Operator : cmd[o].key # k /\ cmd[o].row.pool # k}
UnusedId  == {i \in Id : /\ rows[i] = NoRow /\ job.id # i /\ batch[i] = NoRow
                         /\ \A x \in DOMAIN walk : /\ walk[x].id # i
                                                   /\ \A t \in walk[x].rest : t.id # i
                         /\ \A o \in Operator : /\ cmd[o].id # i
                                               /\ \A t \in cmd[o].todo : t.id # i}
AnyOf(S) == IF S = {} THEN {} ELSE {CHOOSE k \in S : TRUE}
FreshKey == AnyOf(UnusedKey)
\* Mutant: the table takes a key again as soon as its row is gone.
FreshIdReused == AnyOf({i \in Id : rows[i] = NoRow})
FreshId == AnyOf(UnusedId)

Process == Operator \cup {Daemon}
Walk    == [mode : {"off", "count", "list", "shrink", "look", "create", "mark"},
            key : Key \cup {NoKey}, name : Name \cup {NoKey}, max : Size,
            at : 0..MaxSize, missing : Nat, id : Id \cup {NoId}, rest : SUBSET Copy]
Job     == [id : Id \cup {NoId}, row : Row \cup {NoRow}, pool : Pool \cup {NoPool},
            caller : {"main", "clone", "attr", "destroy"}]
Cmd     == [op : {"none"} \cup Commands, key : Key \cup {NoKey}, pool : Pool \cup {NoPool},
            id : Id \cup {NoId}, row : Row \cup {NoRow}, todo : SUBSET Copy]

TypeOK ==
  /\ pools \in [Key -> Pool \cup {NoPool}]
  /\ rows \in [Id -> Row \cup {NoRow}]
  /\ vm \subseteq Machine /\ abandoned \subseteq Machine
  /\ wanted \subseteq Name
  /\ pc \in {"down", "clean", "clean drop", "clean save", "setup", "main", "loop", "poll",
             "pick", "work", "blame", "check", "drop", "adapt", "retry"}
  /\ todo \in [Key -> Pool \cup {NoPool}] /\ turn \in Key \cup {NoKey}
  /\ batch \in [Id -> Row \cup {NoRow}]
  /\ job \in Job
  /\ walk \in [Process -> Walk]
  /\ cmd \in [Operator -> Cmd]
  /\ given \in 0..MaxEvents /\ faults \in 0..MaxFaults

Init ==
  /\ pools = NoTodo
  /\ rows = [i \in Id |-> NoRow]
  /\ vm = {} /\ abandoned = {} /\ wanted = {}
  /\ pc = "down" /\ todo = NoTodo /\ turn = NoKey /\ batch = NoBatch /\ job = NoJob
  /\ walk = [x \in Process |-> NoWalk]
  /\ cmd = [o \in Operator |-> NoCmd]
  /\ given = 0 /\ faults = 0

More == given + faults < MaxEvents

Fault(kind) == kind \in Faults /\ faults < MaxFaults /\ More /\ faults' = faults + 1

-----------------------------------------------------------------------------
(* algo.adapt, in the process x of its caller and with the pool object its *)
(* caller has.                                                             *)

StartWalk(x, k, pool) ==
  walk' = [walk EXCEPT ![x] = [mode |-> "count", key |-> k, name |-> pool.name,
                               max |-> pool.max, at |-> 0, missing |-> 0, id |-> NoId,
                               rest |-> {}]]
EndWalk(x) == walk' = [walk EXCEPT ![x] = NoWalk]

\* The process ends and its memory is lost.
Halt == /\ pc' = "down" /\ todo' = NoTodo /\ turn' = NoKey /\ batch' = NoBatch /\ job' = NoJob
        /\ EndWalk(Daemon)

\* The row is handled: the next one of the batch, or a new query.
Done == pc' = (IF batch = NoBatch THEN "loop" ELSE "pick")

\* adapt returns to the event loop, to adapt of main or to pool_add.
Return(x) ==
  /\ EndWalk(x)
  /\ IF x = Daemon
     THEN /\ IF job.caller = "main" THEN pc' = "main" ELSE Done
          /\ job' = NoJob /\ UNCHANGED <<todo, turn, batch, cmd>>
     ELSE cmd' = [cmd EXCEPT ![x] = NoCmd] /\ UNCHANGED daemon

\* adapt raises: the handlers of action_destroy and action_clone put their row
\* back, anything else ends the process.
Raise(x) ==
  IF x # Daemon
  THEN EndWalk(x) /\ cmd' = [cmd EXCEPT ![x] = NoCmd] /\ UNCHANGED daemon
  ELSE /\ IF job.caller \in {"destroy", "clone"}
          THEN pc' = "retry" /\ EndWalk(x) /\ UNCHANGED <<todo, turn, batch, job>>
          ELSE Halt
       /\ UNCHANGED cmd

\* The rows adapt may mark when it has too many.
Victims(k) == {i \in RowsOf(k) : rows[i].status \in {"READY", "PENDING"}}

AdaptEnough(x) ==
  /\ walk[x].mode = "count" /\ Cardinality(RowsOf(walk[x].key)) = walk[x].max
  /\ Return(x)
  /\ UNCHANGED <<tables, host, wanted, bounds>>

AdaptMany(x) ==
  LET how_many == Cardinality(RowsOf(walk[x].key)) - walk[x].max
  IN /\ walk[x].mode = "count" /\ how_many > 0
     /\ walk' = [walk EXCEPT ![x] = WalkTo(walk[x], "list", 0, how_many, NoId)]
     /\ UNCHANGED <<tables, host, wanted, daemon, cmd, bounds>>

\* The count and the list are two queries.
AdaptList(x) ==
  LET w == walk[x]
  IN /\ w.mode = "list"
     /\ walk' = [walk EXCEPT ![x] = Shrinking(w, w.missing, Copies(Victims(w.key)))]
     /\ UNCHANGED <<tables, host, wanted, daemon, cmd, bounds>>

\* The list is in no order.  A row is saved as it was when it was listed.
AdaptShrink(x, t) ==
  LET w == walk[x]
  IN /\ w.mode = "shrink" /\ t \in w.rest
     /\ rows' = [rows EXCEPT ![t.id] = RowFor(t.pool, t.name, "PENDING", "destroy")]
     /\ IF w.missing = 1 THEN Return(x)
        ELSE /\ walk' = [walk EXCEPT ![x] = Shrinking(w, w.missing - 1, w.rest \ {t})]
             /\ UNCHANGED <<daemon, cmd>>
     /\ UNCHANGED <<pools, host, wanted, bounds>>

AdaptFew(x) ==
  LET missing == walk[x].max - Cardinality(RowsOf(walk[x].key))
  IN /\ walk[x].mode = "count" /\ missing > 0
     /\ walk' = [walk EXCEPT ![x] = WalkTo(walk[x], "look", 0, missing, NoId)]
     /\ UNCHANGED <<tables, host, wanted, daemon, cmd, bounds>>

\* get_or_create is a query and, when that finds nothing, an insert.  Two rows
\* of one name make it raise MultipleObjectsReturned.
AdaptLook(x) ==
  LET w == walk[x]  holders == Holders(w.key, MachineOf(w.name, w.at))
  IN /\ w.mode = "look" /\ w.at < w.max
     /\ \/ /\ holders = {}
           /\ walk' = [walk EXCEPT ![x] = WalkTo(w, "create", w.at, w.missing, NoId)]
           /\ UNCHANGED <<daemon, cmd>>
        \/ /\ Cardinality(holders) = 1
           /\ walk' = [walk EXCEPT ![x] = WalkTo(w, "look", w.at + 1, w.missing, NoId)]
           /\ UNCHANGED <<daemon, cmd>>
        \/ Cardinality(holders) > 1 /\ Raise(x)
     /\ UNCHANGED <<tables, host, wanted, bounds>>

\* The new row has the defaults of the table, and its time has come.
AdaptCreate(x) ==
  LET w == walk[x]
  IN /\ w.mode = "create"
     /\ \E i \in FreshId :
          /\ rows' = [rows EXCEPT ![i] = RowFor(w.key, MachineOf(w.name, w.at),
                                                "PENDING", "clone")]
          /\ walk' = [walk EXCEPT ![x] = WalkTo(w, "mark", w.at, w.missing, i)]
     /\ UNCHANGED <<pools, host, wanted, daemon, cmd, bounds>>

\* The hypervisor is asked whether it has a machine of that name ("lost track").
AdaptMark(x) ==
  LET w == walk[x]  m == MachineOf(w.name, w.at)
  IN /\ w.mode = "mark"
     /\ rows' = [rows EXCEPT ![w.id] = RowFor(w.key, m, "PENDING",
                                              IF m \in vm THEN "destroy" ELSE "clone")]
     /\ IF w.missing = 1 THEN Return(x)
        ELSE /\ walk' = [walk EXCEPT ![x] = WalkTo(w, "look", w.at + 1, w.missing - 1, NoId)]
             /\ UNCHANGED <<daemon, cmd>>
     /\ UNCHANGED <<pools, host, wanted, bounds>>

\* state_get raises: the row stays as it was inserted.
AdaptFails(x) ==
  /\ walk[x].mode = "mark" /\ Fault("state") /\ Raise(x)
  /\ UNCHANGED <<tables, host, wanted, given>>

AdaptDone(x) ==
  /\ \/ walk[x].mode = "look" /\ walk[x].at >= walk[x].max
     \/ walk[x].mode = "shrink" /\ walk[x].rest = {}
  /\ Return(x)
  /\ UNCHANGED <<tables, host, wanted, bounds>>

Adapt(x) == \/ AdaptEnough(x) \/ AdaptMany(x) \/ AdaptList(x) \/ AdaptFew(x)
            \/ \E t \in walk[x].rest : AdaptShrink(x, t)
            \/ AdaptLook(x) \/ AdaptCreate(x) \/ AdaptMark(x) \/ AdaptDone(x)

-----------------------------------------------------------------------------
(* The daemon starts: setup, then adapt of main over every pool.           *)

\* A loop over Pool.objects.all() holds what the query returned.
Visit(phase, query) == pc' = phase /\ todo' = query

\* Mutant: the loop asks for all pools again after each of them.
VisitedAgain(k) == todo' = pools
Visited(k) == todo' = [todo EXCEPT ![k] = NoPool]

Start ==
  /\ pc = "down" /\ Visit("clean", pools)
  /\ UNCHANGED <<tables, host, wanted, turn, batch, job, walk, cmd, bounds>>

CleanPool(k) ==
  /\ pc = "clean" /\ todo[k] # NoPool
  /\ IF Deleteable(k, todo[k]) THEN pc' = "clean drop" /\ turn' = k /\ UNCHANGED todo
     ELSE Visited(k) /\ UNCHANGED <<pc, turn>>
  /\ UNCHANGED <<tables, host, wanted, batch, job, walk, cmd, bounds>>

CleanDrop ==
  /\ pc = "clean drop"
  /\ pools' = Without(turn) /\ rows' = Cascaded(turn)
  /\ pc' = "clean save"
  /\ UNCHANGED <<host, wanted, todo, turn, batch, job, walk, cmd, bounds>>

\* The instance has lost its key, so save() inserts the pool again under a new
\* one, unless its name is taken.
CleanSave ==
  /\ pc = "clean save"
  /\ IF Named(todo[turn].name) = {}
     THEN /\ \E j \in FreshKey : pools' = SavedPool(j, todo[turn])
          /\ Visited(turn) /\ turn' = NoKey /\ pc' = "clean"
          /\ UNCHANGED <<batch, job, walk>>
     ELSE Halt /\ UNCHANGED pools
  /\ UNCHANGED <<rows, host, wanted, cmd, bounds>>

\* Mutant: rows whose machine is gone are left BAD.
SetupRowKeepsBad(i, k, pool) ==
  IF rows[i].pool = k /\ rows[i].name \notin vm THEN [rows[i] EXCEPT !.status = "BAD"]
  ELSE rows[i]

\* The row of a machine the hypervisor lists is to be destroyed; any other row
\* of the names 0..resource_max-1 was marked BAD and is deleted.
SetupRow(i, k, pool) ==
  IF rows[i].pool # k THEN rows[i]
  ELSE IF rows[i].name \in vm THEN RowFor(k, rows[i].name, "PENDING", "destroy")
  ELSE IF rows[i].name \in {MachineOf(pool.name, n) : n \in 0..(pool.max - 1)}
       THEN NoRow ELSE rows[i]

SetupPool(k) ==
  /\ pc = "setup" /\ todo[k] # NoPool /\ todo[k].known
  /\ rows' = [i \in Id |-> SetupRow(i, k, todo[k])]
  /\ pools' = IF todo[k].max = 0 /\ \A i \in Id : rows'[i].pool # k
              THEN Without(k) ELSE pools
  /\ Visited(k)
  /\ UNCHANGED <<host, wanted, pc, turn, batch, job, walk, cmd, bounds>>

\* adapt of main calls algo.adapt of one pool after the other.
MainAdapt(k) ==
  /\ pc = "main" /\ walk[Daemon] = NoWalk /\ todo[k] # NoPool /\ todo[k].known
  /\ StartWalk(Daemon, k, todo[k]) /\ Visited(k)
  /\ UNCHANGED <<tables, host, wanted, pc, turn, batch, job, cmd, bounds>>

\* PoolError: try_catch ends the function for all pools and saves the pool
\* object the error carries, every column as it was when the object was read.
PoolFails(k) ==
  /\ pc \in {"setup", "main"} /\ walk[Daemon] = NoWalk
  /\ todo[k] # NoPool /\ todo[k].known
  /\ Fault("host")
  /\ IF CanSave(k, todo[k])
     THEN /\ pools' = SavedPool(k, todo[k])
          /\ IF pc = "setup" THEN Visit("main", pools') ELSE pc' = "loop" /\ todo' = NoTodo
          /\ UNCHANGED <<turn, batch, job, walk>>
     ELSE Halt /\ UNCHANGED pools
  /\ UNCHANGED <<rows, host, wanted, cmd, given>>

\* "exts[pool1.host.product]" raises KeyError, which is not a PoolError.
ProductUnknown(k) ==
  /\ pc \in {"setup", "main"} /\ walk[Daemon] = NoWalk /\ ~todo[k].known
  /\ Halt
  /\ UNCHANGED <<tables, host, wanted, cmd, bounds>>

PhaseDone ==
  /\ pc \in {"clean", "setup", "main"} /\ walk[Daemon] = NoWalk /\ todo = NoTodo
  /\ UNCHANGED tables
  /\ IF pc = "main" THEN pc' = "loop" /\ todo' = NoTodo
     ELSE Visit(IF pc = "clean" THEN "setup" ELSE "main", pools)
  /\ UNCHANGED <<host, wanted, turn, batch, job, walk, cmd, bounds>>

Crash ==
  /\ pc # "down" /\ Fault("crash")
  /\ Halt
  /\ UNCHANGED <<tables, host, wanted, cmd, given>>

-----------------------------------------------------------------------------
(* The event loop.  One query returns the rows it handles; the pool of each *)
(* is read when its turn comes.                                            *)

\* Mutant: events_show does not catch DoesNotExist.
DropDanglingRaises(i) ==
  /\ pc = "loop" /\ Dangling(i) /\ Halt
  /\ UNCHANGED <<tables, host, wanted, cmd, bounds>>

\* events_show deletes the rows whose pool is gone.
DropDangling(i) ==
  /\ pc = "loop" /\ Dangling(i)
  /\ rows' = [rows EXCEPT ![i] = NoRow]
  /\ UNCHANGED <<pools, host, wanted, daemon, walk, cmd, bounds>>

\* What the query is for.  A row without an action is passed over.
Due(i) == rows[i] # NoRow /\ rows[i].status # "READY" /\ rows[i].due /\ rows[i].action # "none"

\* events_show has seen every row.  The loop sleeps when there is nothing to do.
Shown ==
  /\ pc = "loop" /\ (\A i \in Id : ~Dangling(i)) /\ (\E i \in Id : Due(i))
  /\ pc' = "poll"
  /\ UNCHANGED <<tables, host, wanted, todo, turn, batch, job, walk, cmd, bounds>>

Poll ==
  /\ pc = "poll"
  /\ batch' = [i \in Id |-> IF Due(i) THEN rows[i] ELSE NoRow]
  /\ pc' = IF \E i \in Id : Due(i) THEN "pick" ELSE "loop"
  /\ UNCHANGED <<tables, host, wanted, todo, turn, job, walk, cmd, bounds>>

\* The next row, as it was when the query returned it.
Pick(i) ==
  /\ pc = "pick" /\ batch[i] # NoRow
  /\ job' = JobOf(i, batch[i], NoPool, batch[i].action)
  /\ batch' = [batch EXCEPT ![i] = NoRow]
  /\ pc' = "work"
  /\ UNCHANGED <<tables, host, wanted, todo, turn, walk, cmd, bounds>>

\* What the handlers of the picked row know: its pool's key, its machine.
Handling(a) == pc = "work" /\ job.caller = a /\ pools[job.row.pool] # NoPool
JobMachine  == job.row.name
JobPool     == pools[job.row.pool]
ToLoop      == Done /\ job' = NoJob /\ UNCHANGED <<todo, turn, batch, walk>>

\* rsrc.pool raises DoesNotExist.  action_resource deletes the row, but
\* action_destroy has caught the exception and trips over its own handler.
PoolMissing ==
  /\ pc = "work" /\ pools[job.row.pool] = NoPool
  /\ IF job.caller = "destroy" THEN Halt /\ UNCHANGED rows
     ELSE rows' = [rows EXCEPT ![job.id] = NoRow] /\ ToLoop
  /\ UNCHANGED <<pools, host, wanted, cmd, bounds>>

\* pool_get raises PoolError.  The handlers of action_destroy and action_clone
\* use "pool" unbound, which ends the daemon; action_attr leaves it to try_catch.
Unreachable ==
  /\ pc = "work" /\ pools[job.row.pool] # NoPool /\ Fault("host")
  /\ IF job.caller # "attr" THEN Halt
     ELSE /\ job' = JobOf(job.id, job.row, JobPool, "attr") /\ pc' = "blame"
          /\ UNCHANGED <<todo, turn, batch, walk>>
  /\ UNCHANGED <<tables, host, wanted, cmd, given>>

\* stacktrace_set saves the pool object; the row stays due.
Blame ==
  /\ pc = "blame"
  /\ IF CanSave(job.row.pool, job.pool)
     THEN pools' = SavedPool(job.row.pool, job.pool) /\ ToLoop
     ELSE Halt /\ UNCHANGED pools
  /\ UNCHANGED <<rows, host, wanted, cmd, bounds>>

DestroyVm ==
  /\ Handling("destroy") /\ JobMachine \in vm
  /\ vm' = vm \ {JobMachine}
  /\ rows' = [rows EXCEPT ![job.id] = job.row]
  /\ job' = JobOf(job.id, job.row, JobPool, "destroy") /\ pc' = "check"
  /\ UNCHANGED <<pools, abandoned, wanted, todo, turn, batch, walk, cmd, bounds>>

\* Mutant: the row is deleted without asking for the machine's state.
DestroyRowUnchecked ==
  /\ Handling("destroy")
  /\ rows' = [rows EXCEPT ![job.id] = NoRow]
  /\ job' = JobOf(NoId, job.row, JobPool, "destroy") /\ pc' = "check"
  /\ UNCHANGED <<pools, host, wanted, todo, turn, batch, walk, cmd, bounds>>

DestroyRow ==
  /\ Handling("destroy") /\ JobMachine \notin vm
  /\ rows' = [rows EXCEPT ![job.id] = NoRow]
  /\ job' = JobOf(NoId, job.row, JobPool, "destroy") /\ pc' = "check"
  /\ UNCHANGED <<pools, host, wanted, todo, turn, batch, walk, cmd, bounds>>

Clone ==
  LET row == RowFor(job.row.pool, JobMachine, "PENDING", "attr")
  IN /\ Handling("clone")
     /\ vm' = vm \cup {JobMachine}
     /\ rows' = [rows EXCEPT ![job.id] = row]
     /\ job' = JobOf(job.id, row, NoPool, "clone") /\ pc' = "adapt"
     /\ StartWalk(Daemon, row.pool, JobPool)
     /\ UNCHANGED <<pools, abandoned, wanted, todo, turn, batch, cmd, bounds>>

AttrReady ==
  /\ Handling("attr") /\ JobMachine \in vm
  /\ rows' = [rows EXCEPT ![job.id] = RowFor(job.row.pool, JobMachine, "READY", "none")]
  /\ pc' = "adapt" /\ UNCHANGED job
  /\ StartWalk(Daemon, job.row.pool, JobPool)
  /\ UNCHANGED <<pools, host, wanted, todo, turn, batch, cmd, bounds>>

AttrAgain ==
  /\ Handling("attr") /\ JobMachine \notin vm
  /\ rows' = [rows EXCEPT ![job.id] = job.row]
  /\ ToLoop
  /\ UNCHANGED <<pools, host, wanted, cmd, bounds>>

\* Mutant: action_destroy only adapts.
CheckOnlyAdapts ==
  /\ pc = "check"
  /\ pc' = "adapt" /\ StartWalk(Daemon, job.row.pool, job.pool)
  /\ UNCHANGED <<tables, host, wanted, todo, turn, batch, job, cmd, bounds>>

\* "if pool1.deleteable()": the resource_max read before the work, the rows of
\* now.
Check ==
  /\ pc = "check"
  /\ IF Deleteable(job.row.pool, job.pool)
     THEN pc' = "drop" /\ UNCHANGED walk
     ELSE pc' = "adapt" /\ StartWalk(Daemon, job.row.pool, job.pool)
  /\ UNCHANGED <<tables, host, wanted, todo, turn, batch, job, cmd, bounds>>

Drop ==
  /\ pc = "drop"
  /\ pools' = Without(job.row.pool) /\ rows' = Cascaded(job.row.pool)
  /\ ToLoop
  /\ UNCHANGED <<host, wanted, cmd, bounds>>

\* The handlers of "except Exception" put the row back as the instance has it,
\* under a new key when it was deleted.
Retry ==
  /\ pc = "retry"
  /\ \E i \in IF job.id # NoId THEN {job.id} ELSE FreshId :
       rows' = [rows EXCEPT ![i] = job.row]
  /\ ToLoop
  /\ UNCHANGED <<pools, host, wanted, cmd, bounds>>

-----------------------------------------------------------------------------
(* The operator's commands and REST requests, each in a process of its own *)
(* that reads, then saves.                                                 *)

Begin(o, op, k, pool, i, row) ==
  cmd' = [cmd EXCEPT ![o] = [op |-> op, key |-> k, pool |-> pool, id |-> i, row |-> row,
                             todo |-> {}]]
Finished(o) == cmd' = [cmd EXCEPT ![o] = NoCmd]

Give(o) == cmd[o] = NoCmd /\ More /\ given' = given + 1

\* Patient operators leave a pool alone while a command is at work on it, and
\* while it is being removed.
Free(k) == Patient => pools[k].max > 0 /\ \A q \in Operator : cmd[q].key # k

\* update_or_create: the row of pool p, new or changed.  The products that are
\* known are those of one host, the others those of another, and a name that is
\* taken on another host makes it raise.
PoolOf(p, n, known) == [name |-> p, max |-> n, known |-> known]
Added(o, p, n, k, known) ==
  /\ Give(o) /\ \A j \in Named(p) : Free(j)
  /\ IF Named(p) = {} THEN k \in FreshKey ELSE k \in Named(p) /\ pools[k].known = known
  /\ pools' = SavedPool(k, PoolOf(p, n, known))

Add(o, p, n) ==
  /\ \E k \in Key :
       /\ Added(o, p, n, k, TRUE)
       /\ StartWalk(o, k, PoolOf(p, n, TRUE))
       /\ Begin(o, "add", k, NoPool, NoId, NoRow)
  /\ wanted' = wanted \cup {p}
  /\ UNCHANGED <<rows, host, daemon, faults>>

\* The pool is committed before its host is found to be out of reach.
AddUnreachable(o, p, n) ==
  /\ Fault("host")
  /\ \E k \in Key : Added(o, p, n, k, TRUE)
  /\ wanted' = wanted \cup {p}
  /\ UNCHANGED <<rows, host, daemon, walk, cmd>>

\* The REST handler does not ask whether the product is one it knows: the pool
\* is committed before "exts[product]" raises KeyError.
AddUnknown(o, p, n) ==
  /\ \E k \in Key : Added(o, p, n, k, FALSE)
  /\ UNCHANGED <<rows, host, wanted, daemon, walk, cmd, faults>>

\* pool_remove, "purge" when it is immediate.
RemoveRead(o, k, op) ==
  /\ op \in {"remove", "purge"} /\ Give(o) /\ pools[k] # NoPool /\ Free(k)
  /\ Begin(o, op, k, pools[k], NoId, NoRow)
  /\ UNCHANGED <<tables, host, wanted, daemon, walk, faults>>

\* resource_max is saved as 0 and the rows are listed.
RemoveSave(o) ==
  LET c == cmd[o]
  IN /\ c.op \in {"remove", "purge"} /\ c.pool # NoPool
     /\ IF CanSave(c.key, c.pool)
        THEN /\ pools' = SavedPool(c.key, [c.pool EXCEPT !.max = 0])
             /\ cmd' = [cmd EXCEPT ![o] =
                          WithRows(c, Copies(RowsOf(c.key)))]
             /\ wanted' = wanted \ {c.pool.name}
        ELSE Finished(o) /\ UNCHANGED <<pools, wanted>>
     /\ UNCHANGED <<rows, host, daemon, walk, bounds>>

\* Whatever its status, a row is RESERVED to be destroyed at once.
RemoveRow(o, t) ==
  /\ cmd[o].op = "remove" /\ t \in cmd[o].todo
  /\ rows' = [rows EXCEPT ![t.id] = RowFor(t.pool, t.name, "RESERVED", "destroy")]
  /\ cmd' = [cmd EXCEPT ![o] = WithRows(cmd[o], cmd[o].todo \ {t})]
  /\ UNCHANGED <<pools, host, wanted, daemon, walk, bounds>>

\* With immediate the rows are deleted, and their machines left behind.
PurgeRow(o, t) ==
  /\ cmd[o].op = "purge" /\ t \in cmd[o].todo
  /\ rows' = [rows EXCEPT ![t.id] = NoRow]
  /\ abandoned' = abandoned \cup {t.name}
  /\ cmd' = [cmd EXCEPT ![o] = WithRows(cmd[o], cmd[o].todo \ {t})]
  /\ UNCHANGED <<pools, vm, wanted, daemon, walk, bounds>>

RemoveEnd(o) ==
  LET k == cmd[o].key
  IN /\ cmd[o].op \in {"remove", "purge"} /\ cmd[o].pool = NoPool /\ cmd[o].todo = {}
     /\ IF cmd[o].op = "remove" THEN UNCHANGED <<tables, abandoned>>
        ELSE /\ pools' = Without(k) /\ rows' = Cascaded(k)
             /\ abandoned' = abandoned \cup {rows[i].name : i \in RowsOf(k)}
     /\ Finished(o)
     /\ UNCHANGED <<vm, wanted, daemon, walk, bounds>>

\* "tpl resource incr" by one or by minus one.
Resized(pool, op) == IF op = "incr" THEN pool.max + 1 ELSE pool.max - 1

IncrRead(o, k, op) ==
  /\ op \in {"incr", "decr"} /\ Give(o) /\ pools[k] # NoPool /\ Free(k)
  /\ Resized(pools[k], op) \in Size  \* bound
  /\ Begin(o, op, k, pools[k], NoId, NoRow)
  /\ UNCHANGED <<tables, host, wanted, daemon, walk, faults>>

IncrSave(o) ==
  LET c == cmd[o]
      n == Resized(c.pool, c.op)
  IN /\ c.op \in {"incr", "decr"}
     /\ IF CanSave(c.key, c.pool)
        THEN /\ pools' = SavedPool(c.key, [c.pool EXCEPT !.max = n])
             /\ wanted' = IF n > 0 THEN wanted ELSE wanted \ {c.pool.name}
        ELSE UNCHANGED <<pools, wanted>>
     /\ Finished(o)
     /\ UNCHANGED <<rows, host, daemon, walk, bounds>>

\* "tpl resource release" and "tpl resource reserve" take a row by its name.
RowRead(o, i, op) ==
  LET k == rows[i].pool
  IN /\ op \in {"release", "reserve"} /\ Give(o)
     /\ rows[i] # NoRow /\ ~Dangling(i) /\ Free(k)
     /\ Cardinality(Holders(k, rows[i].name)) = 1
     /\ Begin(o, op, k, NoPool, i, rows[i])
     /\ UNCHANGED <<tables, host, wanted, daemon, walk, faults>>

\* reserve writes the status and leaves the action as it is.
RowSave(o) ==
  LET c == cmd[o]
  IN /\ c.op \in {"release", "reserve"}
     /\ rows' = [rows EXCEPT ![c.id] =
                   IF c.op = "reserve" THEN [c.row EXCEPT !.status = "RESERVED"]
                   ELSE RowFor(c.row.pool, c.row.name, "PENDING", "destroy")]
     /\ Finished(o)
     /\ UNCHANGED <<pools, host, wanted, daemon, walk, bounds>>

\* A client acquires row i (both steps of it), and its deadline passes.
Acquire(i) ==
  /\ rows[i].status = "READY"
  /\ rows' = [rows EXCEPT ![i].status = "RESERVED", ![i].action = "destroy",
                          ![i].due = FALSE]
  /\ UNCHANGED <<pools, host, wanted, daemon, walk, cmd, bounds>>

Expire(i) ==
  /\ rows[i] # NoRow /\ ~rows[i].due
  /\ rows' = [rows EXCEPT ![i].due = TRUE]
  /\ UNCHANGED <<pools, host, wanted, daemon, walk, cmd, bounds>>

-----------------------------------------------------------------------------
Startup ==
  \/ Start \/ PhaseDone \/ CleanDrop \/ CleanSave
  \/ \E k \in Key : CleanPool(k) \/ SetupPool(k) \/ MainAdapt(k) \/ ProductUnknown(k)
Handle  == \/ Shown \/ Poll \/ \E i \in Id : DropDangling(i) \/ Pick(i)
           \/ PoolMissing \/ DestroyVm \/ DestroyRow \/ Clone \/ AttrReady \/ AttrAgain
           \/ Blame \/ Check \/ Drop \/ Retry
Mishap  == Crash \/ Unreachable \/ \E k \in Key : PoolFails(k)

Command(o) ==
  \/ \E p \in Name, n \in 1..MaxSize :
       \/ "add" \in Commands /\ (Add(o, p, n) \/ AddUnreachable(o, p, n))
       \/ "add unknown" \in Commands /\ AddUnknown(o, p, n)
  \/ \E k \in Key, op \in Commands : RemoveRead(o, k, op) \/ IncrRead(o, k, op)
  \/ \E i \in Id, op \in Commands : RowRead(o, i, op)

Proceed(o) ==
  \/ Adapt(o) \/ RemoveSave(o) \/ RemoveEnd(o) \/ IncrSave(o) \/ RowSave(o)
  \/ \E t \in cmd[o].todo : RemoveRow(o, t) \/ PurgeRow(o, t)

Next ==
  \/ Startup \/ Handle \/ Mishap \/ Adapt(Daemon)
  \/ \E x \in Process : AdaptFails(x)
  \/ \E i \in Id : Acquire(i) \/ Expire(i)
  \/ \E o \in Operator : Command(o) \/ Proceed(o)

Spec == Init /\ [][Next]_vars

\* The daemon runs on and is restarted, deadlines pass and commands that were
\* given are carried out.  Nobody has to give any.  Which row of a batch is next
\* needs no fairness: a batch does not grow, and comes to its end.
Fairness ==
  /\ WF_vars(Startup \/ Handle \/ Adapt(Daemon))
  /\ WF_vars(\E i \in Id : Expire(i))
  /\ \A o \in Operator : WF_vars(Proceed(o))

FairSpec == Spec /\ Fairness

-----------------------------------------------------------------------------
(* Properties.                                                             *)

\* A pool the operator has added, and not removed since, exists: no command or
\* restart that worked on an older copy of it takes it away.
AddedPoolStays == \A p \in wanted : Named(p) # {}

\* When a pool is deleted its machines are gone, again unless it was removed
\* with "immediate".
GoneMeansEmpty ==
  \A p \in Name : Named(p) = {} => \A n \in Slot : MachineOf(p, n) \in abandoned \/ MachineOf(p, n) \notin vm

\* A row that waits, perhaps for ever: it is on offer, or was when "tpl
\* resource reserve" took it, or its machine is gone and will have no address.
Idle(i) == \/ rows[i].status = "READY" \/ rows[i].action = "none"
           \/ rows[i].action = "attr" /\ rows[i].name \notin vm

Removing(p) == \E k \in Named(p) : pools[k].max = 0
RowsFor(p)  == UNION {RowsOf(k) : k \in Named(p)}

\* A pool whose removal has begun goes once its machines are destroyed, as
\* long as the daemon has a row of it to handle and is not restarted: setup
\* may work on an older resource_max.
Removed ==
  \A p \in Name :
    pc = "loop" /\ Removing(p) /\ RowsFor(p) # {}
      ~> pc = "down" \/ ~Removing(p) \/ \E i \in RowsFor(p) : Idle(i)

\* A pool of an unknown product keeps the daemon from coming up.
Blocked == \E k \in Key : ~pools[k].known

\* Rows of a pool that is gone do not stay.
DanglingGoes == []<>(Blocked \/ \A i \in Id : ~Dangling(i))

\* Whatever it is told or trips over, the daemon gets back to its event loop.
ComesUp == []<>(pc = "loop" \/ Blocked)

\* "Pools can't be removed immediately, Resources are marked for purge and when
\* all Resources are gone the pool will be removed."
RemovedPoolGoes == \A p \in Name : Removing(p) ~> ~Removing(p)

\* "bad pools are prevented", so "Restart=always" brings the daemon up again.
AlwaysComesUp == []<>(pc = "loop")

\* The machine of a lease that runs is there.
LeaseKeepsVm == \A i \in Id : rows[i] # NoRow /\ ~rows[i].due => rows[i].name \in vm

==============================================================================
