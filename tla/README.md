# Testpool in TLA+

Testpool keeps pools of cloned virtual machines or containers ("resources") so
that a test can have a fresh one at once. This directory specifies its core in
TLA+, checks small instances with TLC and proves the central invariants with
TLAPS for all instances. Line numbers are those of the sources beside it.

    tlc -config Lease_strict.cfg MCLease.tla      # any configuration, with the MC module of its name
    tlapm LeaseProofs.tla                         # any of the seven modules named ...Proofs

## 1. Inventory

| Component | State | Operations | Talks to |
|---|---|---|---|
| Daemon event loop (`core/server.py`) | the batch of due rows, the row object in work | query and batch (374-444), `action_destroy`, `action_clone`, `action_attr`, `events_show`, `setup` | table, drivers, `adapt` |
| `adapt` and helpers (`core/algo.py`) | local: counts, names tried | `adapt`, `resource_clone`, `resource_destroy`, `pool_add`, `pool_remove` | table, drivers |
| REST interface (`db/testpool_pool/api.py`, `db/testpool_resource/api.py`) | per request: a copy of a row | `pool_acquire`, `pool_release`, `resource_renew`, `pool_add`, `pool_remove` | table, `algo` |
| Command line (`core/resource.py`, `core/pool.py`) | per command: a copy of a row or pool | `resource incr`, `release`, `reserve`, `pool add`, `pool remove` | table, `algo` |
| Database (`db/testpooldb/models.py`) | rows of Resource, Pool, Host, Traceback | `transition`, `save`, `delete`, `deleteable`, `stacktrace_set` | |
| Drivers (`libexec/{fake,kvm,docker}/api.py`) | none (fake: a yaml file); the machines and disks are the hypervisor's | `clone`, `start`, `destroy`, `state_get`, `ip_get`, `list` | hypervisor |
| Python client (`client.py`) | the acquired resource, a timer | `acquire`, `release`, `renew` | REST |

The daemon is one thread in one process, which systemd restarts whenever it
ends. Requests run in threads of another process, commands in processes of
their own. All they share is the sqlite database, where every statement commits
by itself: there is no transaction and no lock around a read and the write that
depends on it. `Model.save()` writes every column of the copy its caller has; an
UPDATE that finds no row turns into an INSERT, and an instance whose row was
deleted has lost its key, so saving it inserts a new row.

A resource moves through PENDING/clone, PENDING/attr, READY, RESERVED/destroy
and PENDING/destroy, until its row is deleted and `adapt` creates another row
of the same name. Each row has an `action_time`; the daemon acts when it is past.
A pool is removed by setting its `resource_max` to 0; whoever deletes its last
row is to delete the pool.

What makes this hard is listed line by line as hazards in `PROJECT.json`. In
short: reads that are stale when the write that rests on them happens (the
daemon's batch, `adapt`'s list, `pool_acquire`'s row, the cached
`resource_max`); exceptions and crashes between a hypervisor call and the save
of the row; retries of what was already done; deadlines that race with the calls
of the client; answers of a driver that do not mean what the daemon makes of
them; and a loop that only looks at some rows.

What makes each component correct:

* requests: no machine is leased twice; a running lease is known to the table;
  only untouched machines are handed out;
* daemon: it takes no machine from a running lease, whatever it read before;
  it loses no machine; it reclaims what has expired;
* `adapt`: one row per name, never more rows than it should make;
* `setup`: table and hypervisor agree after a crash at any point;
* pool life cycle: an added pool stays, a removed one goes away in the end, with
  its machines, and neither keeps the daemon from coming up;
* client: a handle never believes in a lease that another has (a restart of the
  daemon apart, section 5); the lease lasts as long as the handle (it does not,
  section 5);
* drivers: a machine that was used is not offered as it is, though a driver may take
  it for gone; disks go with their machines.

## 2. Modules

| Module | What it is |
|---|---|
| `LeaseContract` | What a pool promises about its machines: fresh, leased to one client, used, gone. The abstract specification. |
| `Lease` | One pool: table, hypervisor, daemon, requests, clock, operator. Implements `LeaseContract`. |
| `Pools` | Several pools: commands in processes of their own beside the daemon, from its start to its death. |
| `Drivers` | One name under the event loop: what each driver answers by the state of the machine, and the disks. |
| `Client` | The Python client's handles and timers, over a server that takes the steps of `LeaseContract`. |
| `LeaseInvariant` | The inductive invariants of `Lease`. |
| `LeaseProofs`, `LeaseOrderProofs`, `LeaseRefinementProofs` | Proofs about `Lease`: whatever races and faults occur; without the four races; that it then implements `LeaseContract`. |
| `PoolsInvariant` | The inductive invariants of `Pools`. |
| `PoolsProofs`, `PoolsRemovalProofs` | Proofs about `Pools`: what every process knows, and the types; what becomes of machines and pools. |
| `DriversProofs`, `ClientProofs` | Proofs about `Drivers` and `Client`. |
| `MCLease`, `MCPools`, `MCDrivers`, `MCClient` | The same for TLC. The `.cfg` files give the constants. |

How they fit together. `Lease` is the centre: every statement that touches a
row of one pool. `Pools` takes several of those steps at once (a call of the
hypervisor and the save after it) and adds what `Lease` leaves out, the Pool table
and the processes that write it. `Drivers` replaces the set of machines of `Lease`
by what a hypervisor really has behind a name. `Client` stands on the other side
of the REST interface, over a server that takes the contract's steps only, with the
deadlines and the withdrawals of leases that the code has.

### How Lease corresponds to the code

* `rows` is the Resource table by primary key; a key without a row has `NoRow`.
  `due` says that `action_time` is past; `Tick` makes it so at any time after
  the row was written, which covers every timing the drivers choose. Rows are
  handled in any order, the code takes them by `action_time`.
* `vm` is what the hypervisor has. `dirty` is history: those of them that a
  client has been given.
* `batch`, `job`, `walk`, `todo` are the daemon's local variables. `job.row` is
  the row object with the columns it had when it was read, and `job.max` is
  `rsrc.pool.resource_max`, which Django fetches once per row object. `job.id =
  NoId` is an instance whose row was deleted.
* One step is one committed statement or one hypervisor call. A read that
  nothing depends on later is merged with the write after it (`AttrReady`);
  `get_or_create`, `state_get` and `transition` of a row that `adapt` creates
  are one step, because what is visible in between is the same row under
  PENDING/clone, which no request touches and a crash leaves for `setup` to
  delete just as the finished one. (A `state_get` that raises in between is a
  step of its own, `GrowFails`. `Pools`, where another process may run `adapt`
  at the same time, has the three statements one by one.)
* `setup` is one step (`Restart`) although requests may run between its
  statements (server.py 243-277): a row is first marked BAD, then marked to be
  destroyed or deleted. A request that saves a row between the two marks has
  the effect of one that saves before `Restart`, because the second mark
  overwrites it; one that saves after the second mark, or after the deletion
  (then save() inserts the row), that of one that saves after it. `pool_acquire` and
  `pool_release` do not take a BAD row, as if they had come after `Restart`;
  `resource_renew` does, and writes what it would have written had it read the
  row before. A daemon that dies within setup is one that has not restarted
  yet: the next setup does all of it again. One thing is lost: a row left BAD
  by such a death whose name a smaller `resource_max` then excludes is deleted
  by the next setup, here it stays.
* `req` is a request between its read and its save. `lease` is what a client
  believes, from the answers it got: it ends when its deadline passes
  (`Tick`), when the client releases it or when a restart takes the row.
  A release that the client has sent ends its lease at once.
* A key that no variable mentions stands for one never used (`Fresh`): sqlite
  hands out ever larger keys, the model has few and recycles them.

Which difficulties an instance admits is a matter of constants: `Race` (acquires
overlap), `Late` (clients call after their deadline), `Slow` (a request lasts
longer than a deadline or a restart of the daemon), `MayShrink`, and `Faults`:
`crash` (of the daemon, at any step), `clone` and `destroy` (the call raises
before or after it took effect), `ip` (no address yet), `state` (`state_get`
raises). `MaxFaults` bounds how often.

### How Pools corresponds to the code

* `pools` and `rows` are the two tables. A row may refer to a pool that is gone:
  Django deletes the rows it knows when it deletes a pool, but sqlite accepts
  one that another process inserts afterwards (`Dangling`). `SavedPool` and
  `CanSave` are `save()` of a pool object, which inserts a pool that was deleted
  again unless its unique name is taken by then.
* `pc` is where the daemon is: `clean`, `setup` and `main` are the three loops
  over all pools before the event loop, each with the pool objects its query
  returned (`todo`). `clean drop` and `clean save` are the two statements setup has
  for an empty pool (`turn`), after it was found `deleteable` (server.py 214-218).
  `loop` is `events_show`, `poll` the query, whose rows are handled one by one
  (`pick`) as they were when it returned them (`batch`); the pool of a row is read
  when its turn comes, and its answer may be that it is gone. `work`, `check`, `drop`
  and `retry` are the places within an action where it holds what another process
  may change: the row, the pool with its old `resource_max`, the answer of
  `deleteable`. `blame` is the handler of a PoolError that `action_attr` lets through,
  about to save the pool object (exceptions.py 49, models.py 267).
* `walk[x]` is `adapt` in the process x: the daemon, and every operator that runs
  `pool_add`. Its count, its list, each save of a listed row, its query for a name,
  its insert and its transition are steps. The list is in no order, and its rows are
  saved as they were when they were listed.
* `cmd` is a command or a REST request between its read and its last write.
  `Commands` says which are given; `MaxEvents` bounds how many commands and faults
  there are together. A pool that is added again on another host (a known product
  is on one host, an unknown one on another) raises IntegrityError, as
  `update_or_create` looks up name and host (algo.py 254). `Patient` operators
  leave a pool alone while it is being removed or has a command in work; without
  that, `AddedPoolStays` fails: `Check`, then `Add`, then `Drop` (server.py 161-162).
* `Faults`: `host` is a PoolError, in setup, in `adapt` of main, in an action or in
  `pool_add`, upon which the first two and `action_attr` save the pool object as it was read; `state` a `state_get` that raises after `adapt` has inserted the row
  (`AdaptFails`), upon which the handlers put their own row back (`Retry`);
  `crash` the death of the daemon. `Halt` is also where every
  exception goes that nobody catches: an unknown product, `pool` unbound in a
  handler, a pool that cannot be saved.
* `wanted` (pools added and not removed) and `abandoned` (machines of pools removed
  with `immediate`) are history.
* Only the time of a reservation is modelled (`due`); other rows may be handled at
  any moment. An acquire is one step: `Lease` has its two.

### How Drivers corresponds to the code

* `machine` is the state the hypervisor gives the machine of one name, `disks` how
  many images made for that name exist, `wear` whether it was leased since it was
  cloned. `product` is chosen once; each driver's functions are the operators with
  its name in front, and `SaysNone`, `SaysExists`, `HasAddress` and `Listed` are
  what the daemon gets to know.
* kvm: `state_get` hands on libvirt's numbers, and that of a domain blocked on a
  resource is the number of STATE_NONE; any libvirtError is STATE_NONE as well
  (`KvmNone`). A clone replaces the domain but takes a new disk path. `destroy`
  undefines the domain first and deletes its volume then (`DeleteVolume`).
* docker: `start` answers an error with a state that nobody looks at; `list` only
  has containers that run, so `Setup` drops the row of one that does not, and
  `Adapt` finds the container again.
* fake: a set of names; an address whatever the name.
* `Faults` are a libvirtError in a lookup, a start that fails, a volume that cannot
  be deleted, a guest that stops, crashes or blocks, and the death of the daemon.
  A container without a machine behind its row does not occur, so neither does
  the exception `ip_get` would raise for it.

### How Client corresponds to the code

* The server takes steps of `LeaseContract` (`stage`, `holder`) and has deadlines (`left`):
  `Reclaim` ends a lease when its deadline is past. `Withdraw` ends leases before
  it, of any set of machines at once: setup does that at every start of the daemon
  (server.py 249-277), and the operator with `pool_remove`, `resource release` or a
  smaller pool. No client hears of it. Two requests in flight do not overlap at the server: that they may is the subject
  of the run `race`, and `Lease` implements the contract only without it.
* `pc` is the thread of the test, `timer[h][n]` the nth of the timers of a
  handle that may be alive at once, `threading[h]` the attribute of that name. A timer that has
  fired cannot be cancelled, and reads `vm` when its time comes.
* Requests to release and to renew name the pool where the routes want the key of
  a row (testpool_pool/urls.py 10, testpool_resource/urls.py), so they find no
  route; the client does not look at the answer. Hence `Released` and `Renew`
  leave the server alone.
* `trust` is history: the time a test may count on, from the moment it asked.
  `withdrawn` has the handles whose current lease was withdrawn.
* `requests` raises (`Raises`) before a request is served or when its answer is on
  the way (`Lost`). `MaxFaults` bounds that and the withdrawals.
* `MaxTimers` bounds how many timers of a handle are alive at once, not how often it is
  used: a timer that is over leaves its number to the next one.

## 3. Runs

| Run | Instance | Shows |
|---|---|---|
| `strict` | `Lease`: 2 clients, 2 names, the pool grown from 1 to 2, one fault of any kind but `state` | Unique names, leases backed and exclusive, machines pristine; `Order` and `History` are invariant; `Lease` implements `LeaseContract`. |
| `shrink` | `Lease`: 1 client, a pool of 2 shrunk to 1, a `state_get` that raises | No machine without a row (`VmTracked`, `Tracking`), although two rows of one name do occur here and `adapt` raises on them. |
| `live` | `Lease`: 1 client, 2 names, one fault | Expired leases are reclaimed, the pool is refilled. |
| `pools` | `Pools`: 1 pool name, 2 pool keys, 4 row keys, 3 commands or faults, at most one a fault | Added pools stay, removed ones go with their machines, every copy of a row or pool is of the one under its key (`Bookkeeping`), a machine keeps a row that stays (`Traced`), dangling rows go, the daemon gets back to its loop. |
| `client` | `Client`: a blocking handle and another, one machine, one failing request or withdrawal | Handles do not share machines but after a withdrawal, machines come free, a blocking `acquire` ends unless others keep taking the machine. |
| `drivers` | `Drivers`: every product, every fault, four faults | Offers are fresh, used machines are reclaimed whatever the driver takes for gone, the name recovers, each fault costs at most one disk. |
| `race`, `ghost`, `pools_remove`, `pools_shared`, `pools_product`, `client_renew` | | Counterexamples, see section 5. |

Bounds.

* `Lease`: two clients are enough for any conflict between clients, since each
  property relates at most two; two names let one row be worked on while the
  other is acquired. Keys: one more per name for the row of the same name that
  comes after a deletion, and one for a request that still knows an old key.
  With one fault every single failure is tried at every step of every behaviour;
  `Order`, `History` and `Tracking` are proved inductive, for any number. `shrink`
  keeps the operator's change as its difficulty and leaves crashes and races to
  the theorem `Tracked`, which covers every setting of the flags.
* `Pools`: three commands are those of the longest story that has a point: add,
  remove, add again under the feet of the daemon; or a fault takes the place of one.
  A pool can be in the table under one key while some process still has one that was
  deleted: two keys. A name can have its row, one of another process's `adapt`, and
  ones that were deleted but are still in a batch, a list or a command: four. An
  insert takes a key that nothing mentions, and has none when all are mentioned, so
  fewer keys would show as behaviours that stop; the theorems are for any number.
  With `MaxSize` 1 a `resource incr` by one finds no room, so the run has the one by
  minus one, which reads and saves alike; `resource reserve`, which saves a row it read
  before as `release` does, is left to the theorems. Several pools only meet in the
  names of their machines: `pools_shared`. The operator is `Patient`, so a second one
  would only take turns with the first. `TypeOK`, `AddedPoolStays`, `GoneMeansEmpty`, `Traced`
  and `Removal` also hold with `MaxEvents = 4` and `MaxFaults = 2` (2.5 million states).
* `Client`: one machine is the scarcest pool. `Expiration` 2 separates a timer
  that fires at half of it from the deadline. The handle that blocks has two timers,
  so that one of its last use may outlive the beginning of the next. Acquires and
  releases are not bounded.
* `Drivers`: one name; the daemon looks at no other machine when it handles one.
  Beyond four faults there is nothing new: the states a machine can be in have
  all been reached.

Fairness.

* `Lease` (`live`). `WF(Daemon)`: the process runs on. `SF(Restart)`: `Restart=always`
  in its systemd unit; strong because the model, unless `Slow`, makes a restart
  wait for requests in flight, which the code does not. `WF(Tick)`: time
  passes. `WF(Answer)`: a request that was started ends.
* `Pools`. `WF` of what the daemon does once it runs or is restarted, as a whole: which
  row of a batch is next needs no fairness, because a batch does not grow and comes to
  its end, and `events_show` sees every row before the query. `WF(Expire)` and
  `WF(Proceed)`: time passes, and a command that was given is carried out.
* `Drivers`. `WF(Daemon)`, `WF(Expire)`.
* `Client`. `WF(Tick)`; `WF(Daemon(s))`, the daemon gets to every machine that is to be
  reclaimed or built; `WF(Test(h))` for a handle that blocks: its thread goes on while
  it is inside the client. Other threads and the timers may stop anywhere. `Acquires`
  allows two ways for a blocking handle to wait for ever, and both are in the code:
  others are granted machines again and again while it sleeps (client.py 80-82, there is
  no queue), or requests fail again and again.

Nowhere is anything assumed of clients and operators beginning something, nor
of faults.

Deadlock checking is off for `Pools`, `Client` and `Drivers`: with no pool, no handle in
use or a guest that never has an address, and the bounded commands and faults spent,
these systems may rightly go quiet. It is on for `Lease`.

## 4. Proofs

`LeaseProofs` proves, for any numbers of clients, keys and names and any
setting of the flags, from the ASSUMEs of `Lease` alone:

* `TypeCorrect`: `Spec => []TypeOK`;
* `TrackingInvariant`: `Spec => []Tracking`;
* `Tracked`: `Spec => []VmTracked`.

`VmTracked` alone is not inductive: destroying and cloning act on the name in
the daemon's row object, and requests write back the name they read, so one has
to know that these names are those of rows still there. `Tracking` adds that:
a row object with a key has its row in the table under the same name
(`JobInTable`), so have the rows of the batch (`BatchInTable`) and of `adapt`'s
list (`TodoInTable`); a request's row may be gone, but if there is a row of its
key it has the request's name (`RequestNames`). The argument: only the daemon
deletes rows, and only the one in its hand. The proof reduces what a step does
to the table to two facts, that rows stay under their names (`Stays`) and where
new ones come from (`Comes`); a lemma per conjunct and a frame lemma per kind of
step (`FinishFrame`, `WorkFrame`, `RequestFrame`, ...) do the rest, and
`TrackingStep` goes through the actions.

`LeaseOrderProofs` and `LeaseRefinementProofs` assume `Disciplined` besides:
acquires do not overlap, clients do not call after their deadline, a request is
over before a deadline or a restart, the pool only grows, and `state_get` does
not raise. Crashes and failing calls of clone, destroy and ip_get are not
excluded, nor is any interleaving of a request with the daemon. Then:

* `OrderInvariant`: `Spec => []Order`, and from it `ExclusiveLeases`,
  `LeasesHoldMachines`, `LeasesBacked`, `NamesUnique`, `ReadyPristine`;
* `HistoryInvariant`: `Spec => []History`;
* `Implements`: `Spec => KeepsContract`, that is `Lease` implements
  `LeaseContract`.

Each of the assumptions is needed: section 5 has a counterexample without it alone.

`Order` holds because time keeps the processes apart: the daemon works on rows
whose `action_time` has passed, requests on rows whose `action_time` has not, so
neither overwrites the other (`JobIsCurrent`, `BatchIsCurrent`,
`RequestIsCurrent`: every copy is still what the table says). Names stay below
`resource_max` and differ, hence there are never more rows than `resource_max`
(`NotTooMany`, by counting) and `adapt` never marks a row; hence no lease is
overwritten. `HostStep` is the centre: the machine the daemon destroys or clones
has the name of the row in its hand, no other row has that name, and a lease's
row is another row. `History` adds what the contract needs: a leased machine
counts as used and a name to be cloned has no used machine. `StepKinds` then sorts
the steps into those that end leases, make or destroy a machine, or grant a
lease, and each kind moves each slot as `LeaseContract` allows.

`DriversProofs` proves, for any set of products and faults and any number of
faults, `TypeCorrect`, `OffersAreFresh` and `LeaksBounded`. `LeaksAreBounded` says that there are never more disks without a
machine than faults; it is not inductive, because a machine taken for gone is
cloned over later, and that is when its disk is left behind. `Paid` bridges the
gap: such a machine, blocked or reported gone by an error in the lookup, stands
for a fault that has not cost a disk yet. `DisksOf` has which disks a machine of
each product has, `Stages` what the daemon's place in an action says of the row and the
machine; from the clone on, the machine is there and new, whence `OfferIsFresh`.

`PoolsProofs` proves, for any names, keys, operators, commands and faults, patient or
not, `BookkeepingInvariant` and from it `TypeCorrect`. The only assumptions are that
there are finitely many keys and that null values are none of the others.
`TypeOK` is not inductive: `adapt` builds the name of a machine from the name in its
copy of the pool, and a row object is saved under its key long after it was read.
`Bookkeeping` says that this is harmless: there are functions `who`, from pool keys to names,
and `of`, from row keys to a pool and a machine, such that every pool object with
key k, in the table, in a loop of the daemon (`TodoTold`), in the row it works on
(`JobTold`), in a walk of `adapt` (`WalksTold`) or in a command (`CmdsTold`), has the
name `who[k]`, and every row object with key i, wherever it is, is for `of[i]`.
What such a copy may have wrong is the status, the action and `resource_max`, never whose
row it is. Nearly all steps keep `who` and `of`. The exceptions are the steps that
insert: they take a key nothing refers to, so that the functions may be changed
there without changing what anybody knows (`KeyFree`, `IdFree`). This is where the
proof rests on keys that are not used twice; with `FreshIdReused` the run `pools`
finds the daemon with a row object under whose key there is a row of another pool.

`PoolsRemovalProofs` has the rest:

* `TracedInvariant`, without further assumptions. That a machine has a row is not
  inductive, because deleting a pool takes its rows along. `Traced` asks for a row
  whose pool is there, and is not about to go (`Going`: in `drop` of an action or in
  `clean drop` of setup). The daemon gets there only when the pool has no rows; those
  that another process inserts before the delete have no machine yet, for only the
  daemon clones. `immediate` is the one way to leave a machine behind, hence `abandoned`.
* `GonePoolsAreEmpty`, with `~SameTemplate`: the row of a machine is a row of the
  pool whose name it has, by `Bookkeeping`. When two pools share a template that is not
  so, and the property is not to be had (`pools_shared` has what happens then).
* `RemovalInvariant` and `AddedPoolsStay`, with `Patient`. The daemon deletes a pool on
  the word of an object it read before, so the invariant `Removal` is about old
  copies: one that says `resource_max` is 0 is still right, because pools of that size do not
  grow (`StillEmpty`); one that says otherwise prevents the deletion. The same holds of
  the objects that a PoolError or `clean save` write back (`PoolFails`, `Blame`,
  `CleanSave`). A command's
  object is current because no other command is at work on that pool, nor is it
  deleted meanwhile (`CommandsKnow`); an immediate removal under way is of a pool
  nobody wants. And names are unique, so a deletion or an insertion under one key does
  not concern a pool of the same name under another.

`ClientProofs` proves, for any handles, machines, expiration and number of faults,
that handles do not share a machine (`HandlesAreAlone`) while none of their leases is
withdrawn. The invariant is `Kept`: from the moment an answer is on its way until the
handle gives its machine up, the server has the machine leased to this handle
alone, for at least as long as the handle counts on it (`Backs`), unless that lease was
withdrawn. The time of a handle begins when it asks, that of the server when it answers, so
the first can only run out earlier; `TickInv` and `ServeInv` are the two places where that
is used. `WithdrawInv` shows that a withdrawal concerns the handles of its machines
only. The server's steps are the contract's by definition (`Grant`, `End`, `Wipe`,
`Build`); how `Lease` gets to take no others is what `Implements` is about, so
whatever rests on the discipline of requests there rests on it here.

`ClientTypes` proves the types. They are not inductive because the machine a handle
gets needs a timer: `Room` says that one on its way to a machine has a number left that no
living timer has.

Every invariant that a run checks is thus stated by a theorem, under the assumptions
named, and so is the refinement. Only model-checked: liveness, which is out of the
prover's reach (`Reclaimed`, `Refilled`, `Removed`, `DanglingGoes`, `ComesUp`, `Freed`,
`Acquires`, `UsedIsReclaimed`, `Recovers`); what happens to `Lease` when the races are not
ruled out, beyond `Tracking`; and what happens to pools whose operators are not
patient, beyond `Bookkeeping` and `Traced`.

## 5. Where code and documents disagree

| Run | Property | What happens |
|---|---|---|
| `race` | `ExclusiveLease` | Two overlapping acquires get the same resource. |
| `ghost` | `LiveLeaseHoldsVm` | The exception handler saves a deleted row; its ghost destroys a leased machine. |
| `pools_remove` | `RemovedPoolGoes` | A pool removed while setup deletes its last row stays until the daemon is restarted. |
| `pools_shared` | `LeaseKeepsVm` | Two pools of one template destroy each other's machines. |
| `pools_product` | `AlwaysComesUp` | One POST with an unknown product keeps the daemon from ever coming up. |
| `client_renew` | `HeldIsReserved` | The client's renewal has no route, and its second timer is not started. |

The lines quoted are in `PROJECT.json`. Other behaviours the models have, with
the constants that show them:

* `Lease` with `Sizes = {1}`, `MayShrink = TRUE`, `InitMax = 2` violates
  `LiveLeaseHoldsVm`: `adapt` marks a resource that was acquired since it listed
  the READY ones (algo.py 79-83).
* `Lease_strict.cfg` with `Late = TRUE` alone, or with `Slow = TRUE` alone, violates
  `LiveLeaseHoldsVm` and `UniqueNames`: a renewal of an expired lease, or a save
  that comes after its row was deleted, revives a row.
* `Lease_strict.cfg` with `Race = TRUE` alone violates `LiveLeaseHoldsVm`, `LeaseBacked`,
  `UniqueNames` and `ReadyIsPristine` too: one of two clients that were granted the same
  row may release it, upon which the daemon destroys the machine under the other.
  With `"state"` added to `Faults` alone it violates these four and `ExclusiveLease`:
  the handler of an action saves the row it has just deleted, because `adapt` raised
  in it, and there are two rows of one name.
* An expired row goes on saying RESERVED while its machine is destroyed; the
  table at the head of server.py (line 13) has PENDING there.
* A `resource incr` on a pool whose rows are all READY has no effect until some
  row is due or the daemon is restarted: no row is due, so no handler calls
  `adapt` (server.py 403-438).
* `Pools_life.cfg` with `Patient = FALSE` violates `AddedPoolStays`: the daemon finds
  a pool deleteable, the operator adds it again, the daemon deletes it
  (server.py 161-162).
* A daemon that starts again while clients have leases takes the machines back
  (server.py 249-277) and tells none of them: `Believed` without `withdrawn` fails, one handle
  counts on a machine that is rebuilt and leased to another. `Lease` (`Restart`) and
  the contract (`End`) have it as well, the lease is over there at the restart.
* A PoolError in setup leaves the pools after the one whose host is out of reach as they are:
  machines and leases of before the restart go on there (exceptions.py 42).
* A machine that has no address is asked again for ever (`AttrAgain`); the table
  at the head of server.py speaks of N attempts (line 10).

## 6. Plan

In this order:

1. *(done)* `LeaseContract`, `Lease`, `LeaseInvariant`; `Tracking`, `Order`, `History`
   and the refinement proved.
2. *(done)* `Pools`: operators' commands and several pools beside the daemon.
3. *(done)* `Client` over `LeaseContract`, with its theorem.
4. *(done)* `Drivers`: the drivers' answers by the state of the machine, with its
   theorems.
5. *(done)* `PoolsInvariant`, `PoolsProofs`, `PoolsRemovalProofs`: the invariants of
   `Pools`; the types of `Client`.
6. `AddedPoolStays` under less than `Patient`: commands on one pool at the same time,
   as long as none of them enlarges a pool that is being removed.
7. `FakeStore`: the yaml file of the fake driver with two processes at it.

## 7. Not modelled

* The web views and serialisers read; the configuration, the loggers, the
  argument parsers and Django's settings hold no state. Of the extension loader only
  its answer for an unknown product is there, of the URL tables only which
  request of the client finds a route.
* `examples/tpldemo.py` shows the REST interface and is no part of the
  service.
* BAD rows appear in the code only inside `setup` and when the daemon dies there: a
  PoolError comes from `pool_get`, which precedes the marking of that pool's rows
  (server.py 241), and `algo.clone`, which would mark a row BAD, has no caller.
  `algo.pop`, `push`, `attr` and `destroy` have none either; `pool_release_all` and the
  `pool_add` of `testpool_docker/api.py` have no route.
* Setup's loops over pools without a template and rows without a pool (server.py
  220-230) find none: neither column may be NULL. Rows that refer to a pool that is
  gone are another matter (`Dangling`).
* The daemon's `count` and `mode_test_stop` exist for its tests.
* Key-value pairs, the text of Traceback rows and the host's statistics are data
  nothing decides on.
* Read-only commands and requests (`list`, `detail`, `contain`, `statistics`).
* The file of the fake driver: `Drivers` has its set of names. Two processes that
  write it at once may lose an entry; the driver serves tests and demonstrations.
* `resource_max` is at least 1 in `Lease`; a pool with 0 is one being removed, in
  `Pools`.
* The text of messages, names longer than a template and a number, and times
  finer than "due" and, in `Client`, a few ticks.

The tests, the documentation, the packaging and the generated data of the
repository are no subject of a model.
