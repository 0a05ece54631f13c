--------------------------- MODULE PoolsInvariant ---------------------------
(***************************************************************************)
(* The inductive invariants behind the safety properties of Pools.         *)
(*                                                                         *)
(* Bookkeeping and Traced hold whatever the operators do; Removal holds    *)
(* for Patient operators.                                                  *)
(***************************************************************************)
EXTENDS Pools

-----------------------------------------------------------------------------
(* Copies.  who[k] is the name that every copy of pool k has, and of[i] the *)
(* pool and the machine that every copy of row i is for.                   *)

MachinesOf(p) == {MachineOf(p, n) : n \in Slot}

Names == [Key -> Name]
Uses  == [Id -> Key \X Machine]

\* A row that was read once: it is for a machine of its pool.
Known(row, who)   == row \in Row /\ row.name \in MachinesOf(who[row.pool])
IsRow(i, row, of)  == <<row.pool, row.name>> = of[i]
\* What is used of such a row, when it is listed among those of pool k.
IsCopy(t, k, who, of) ==
  t.pool = k /\ t.name \in MachinesOf(who[k]) /\ <<t.pool, t.name>> = of[t.id]

PoolsTold(who) ==
  /\ pools \in [Key -> Pool \cup {NoPool}]
  /\ \A k \in Key : pools[k] # NoPool => pools[k].name = who[k]

RowsTold(who, of) ==
  /\ rows \in [Id -> Row \cup {NoRow}]
  /\ \A i \in Id : rows[i] # NoRow => Known(rows[i], who) /\ IsRow(i, rows[i], of)

TodoTold(who) ==
  /\ todo \in [Key -> Pool \cup {NoPool}]
  /\ \A k \in Key : todo[k] # NoPool => todo[k].name = who[k]

\* Setup is at a pool it has found deleteable.
Cleaning == pc \in {"clean drop", "clean save"}

\* The pool whose turn it is, and the rows whose turn will come.
QueueTold(who, of) ==
  /\ turn \in Key \cup {NoKey} /\ (turn # NoKey <=> Cleaning)
  /\ turn # NoKey => todo[turn] # NoPool
  /\ batch \in [Id -> Row \cup {NoRow}]
  /\ \A i \in Id : batch[i] # NoRow =>
       Known(batch[i], who) /\ IsRow(i, batch[i], of) /\ batch[i].action # "none"

\* The daemon has a row in its hands.
OnRow == pc \in {"work", "blame", "check", "drop", "adapt", "retry"}

JobTold(who, of) ==
  /\ pc \in {"down", "clean", "setup", "main", "loop", "poll", "pick"} \/ Cleaning \/ OnRow
  /\ job \in Job
  /\ ~OnRow => job = NoJob
  /\ OnRow => job.caller # "main" /\ Known(job.row, who)
  /\ job.id # NoId => IsRow(job.id, job.row, of)
  /\ pc = "work" => job.id # NoId
  /\ pc \in {"blame", "check", "drop"} => job.pool \in Pool /\ job.pool.name = who[job.row.pool]

\* A walk through the names of a pool, in the order of its modes.
WalkTold(w, who, of) ==
  \/ w = NoWalk
  \/ /\ w \in Walk /\ w.mode # "off" /\ w.key \in Key /\ w.name = who[w.key]
     /\ w.mode # "count" => w.missing > 0
     /\ w.mode \in {"create", "mark"} => w.at < w.max
     /\ w.mode = "mark" <=> w.id # NoId
     /\ w.id # NoId => <<w.key, MachineOf(w.name, w.at)>> = of[w.id]
     /\ \A t \in w.rest : IsCopy(t, w.key, who, of)

WalksTold(who, of) ==
  /\ walk \in [Process -> Walk]
  /\ \A x \in Process : WalkTold(walk[x], who, of)
  /\ walk[Daemon] # NoWalk => pc \in {"main", "adapt"}

\* A command, what it is for and what it has read.
CmdTold(c, who, of) ==
  /\ c \in Cmd
  /\ c.op = "none" => c = NoCmd
  /\ c.op # "none" => c.key \in Key
  /\ c.pool # NoPool => c.op \in {"incr", "decr", "remove", "purge"} /\ c.pool.name = who[c.key]
  /\ c.pool # NoPool => c.todo = {}
  /\ c.op \in {"incr", "decr"} => c.pool # NoPool /\ Resized(c.pool, c.op) \in Size
  /\ c.op \in {"release", "reserve"} => c.id # NoId
  /\ c.id # NoId => c.row.pool = c.key /\ Known(c.row, who) /\ IsRow(c.id, c.row, of)
  /\ c.id = NoId => c.row = NoRow
  /\ \A t \in c.todo : IsCopy(t, c.key, who, of)

CmdsTold(who, of) ==
  /\ cmd \in [Operator -> Cmd]
  /\ \A o \in Operator : CmdTold(cmd[o], who, of)

HostOK ==
  /\ vm \subseteq Machine /\ abandoned \subseteq Machine /\ wanted \subseteq Name
  /\ given \in 0..MaxEvents /\ faults \in 0..MaxFaults

Told(who, of) ==
  /\ PoolsTold(who) /\ RowsTold(who, of) /\ TodoTold(who) /\ QueueTold(who, of)
  /\ JobTold(who, of) /\ WalksTold(who, of) /\ CmdsTold(who, of) /\ HostOK

\* Every copy of a row or a pool that a process has, however old, is of the same
\* pool and machine as the row the table has under its key: save() of an old
\* copy never turns a row into another one's.
Bookkeeping == \E who \in Names, of \in Uses : Told(who, of)

\* A pool that was found deleteable, and that the daemon is about to delete.
Going(k) == \/ pc = "clean drop" /\ k = turn
            \/ pc = "drop" /\ k = job.row.pool

\* A row whose pool exists, and stays.
Live(i) == rows[i] # NoRow /\ pools[rows[i].pool] # NoPool /\ ~Going(rows[i].pool)

\* A machine of the hypervisor has a row that stays, unless its pool was removed
\* with "immediate": what no row mentions is never destroyed.  No machine depends
\* on the rows that pool.delete() takes with it, even when the pool is added
\* again or enlarged after it was found deleteable.
Traced == \A m \in vm \ abandoned : \E i \in Id : Live(i) /\ rows[i].name = m

-----------------------------------------------------------------------------
(* Removal, by operators that are Patient.                                 *)

UniquePools ==
  \A j, k \in Key : pools[j] # NoPool /\ pools[k] # NoPool /\ pools[j].name = pools[k].name
                    => j = k

\* Sizes do not become negative, and a pool with none was not added since.
Sized(pool) == pool # NoPool => pool.max >= 0
Doomed(k) == pools[k] # NoPool /\ pools[k].max = 0 => pools[k].name \notin wanted

\* A pool of which the daemon has read that resource_max is 0 has not grown.
StillEmpty(k) == pools[k] # NoPool => pools[k].max = 0

\* The daemon visits the pools that it has read in "todo".
Visiting == pc \in {"clean", "setup", "main"} \/ Cleaning

DaemonKnows ==
  /\ \A k \in Key : Sized(todo[k])
  /\ Visiting => \A k \in Key : todo[k] # NoPool /\ todo[k].max = 0 => StillEmpty(k)
  /\ Sized(job.pool)
  /\ pc \in {"blame", "check", "drop"} /\ job.pool.max = 0 => StillEmpty(job.row.pool)
  /\ Cleaning => todo[turn].max = 0
  /\ pc = "drop" => job.pool.max = 0

\* A pool has one command at a time, and does not go before it is carried out.
CommandsKnow ==
  /\ \A o, q \in Operator : cmd[o].key = cmd[q].key /\ cmd[o] # NoCmd => o = q
  /\ \A o \in Operator : cmd[o].pool # NoPool =>
       /\ cmd[o].pool.max > 0
       /\ pools[cmd[o].key] # NoPool /\ pools[cmd[o].key].max > 0
  /\ \A o \in Operator :
       /\ cmd[o].op = "purge" /\ cmd[o].pool = NoPool /\ pools[cmd[o].key] # NoPool
       => pools[cmd[o].key].name \notin wanted

\* What makes an added pool stay: whoever deletes or saves a pool has a copy that
\* is not too old for that.
Removal ==
  /\ UniquePools /\ AddedPoolStays /\ DaemonKnows /\ CommandsKnow
  /\ \A k \in Key : Sized(pools[k]) /\ Doomed(k)

==============================================================================
