------------------------- MODULE PoolsRemovalProofs --------------------------
(***************************************************************************)
(* What becomes of pools and machines: a machine has a row that stays, so  *)
(* a pool that is gone has left none behind; and a pool that was added     *)
(* stays, whatever older copies of it the daemon and the commands save or  *)
(* delete.                                                                 *)
(***************************************************************************)
EXTENDS PoolsProofs

-----------------------------------------------------------------------------
(* A machine keeps a row that stays.                                       *)

\* Steps that take no pool and no row from the tables, and find none deleteable.
PoolsKept == \A k \in Key : pools[k] # NoPool => pools'[k] # NoPool
RowsKept  == \A i \in Id : rows[i] # NoRow => /\ rows'[i] # NoRow
                                              /\ rows'[i].pool = rows[i].pool
                                              /\ rows'[i].name = rows[i].name
DropKept  == \A k \in Key : Going(k)' => Going(k)

LEMMA TracedStep ==
  ASSUME NEW who, NEW of, Told(who, of), Traced, vm' \ abandoned' \subseteq vm \ abandoned,
         \A i \in Id : Live(i) /\ rows[i].name \in vm' \ abandoned' =>
           /\ rows'[i] # NoRow /\ rows'[i].pool = rows[i].pool /\ rows'[i].name = rows[i].name
           /\ pools'[rows[i].pool] # NoPool,
         \A k \in Key : Going(k)' => Going(k) \/ RowsOf(k) = {}
  PROVE  Traced'
<1> SUFFICES ASSUME NEW m \in vm' \ abandoned'
             PROVE  \E i \in Id : Live(i)' /\ rows'[i].name = m
  BY DEF Traced
<1>1. PICK i \in Id : Live(i) /\ rows[i].name = m
  BY DEF Traced
<1>2. /\ rows'[i] # NoRow /\ rows'[i].pool = rows[i].pool /\ rows'[i].name = rows[i].name
      /\ pools'[rows[i].pool] # NoPool
  BY <1>1
<1>3. PICK k \in Key : k = rows[i].pool
  BY <1>1, RowFields DEF Live, Told, RowsTold
<1>4. ~Going(k)'
  <2>1. i \in RowsOf(k) /\ ~Going(k)
    BY <1>1, <1>3 DEF Live, RowsOf
  <2> QED BY <2>1
<1>5. Live(i)'
  BY <1>2, <1>3, <1>4 DEF Live
<1> QED BY <1>1, <1>2, <1>5

LEMMA KeptTraced ==
  ASSUME NEW who, NEW of, Told(who, of), Traced, PoolsKept, RowsKept, DropKept,
         vm' \subseteq vm, abandoned \subseteq abandoned'
  PROVE  Traced'
<1>1. \A i \in Id : Live(i) => /\ rows'[i] # NoRow /\ rows'[i].pool = rows[i].pool
                               /\ rows'[i].name = rows[i].name /\ pools'[rows[i].pool] # NoPool
  BY RowFields DEF Live, Told, RowsTold, RowsKept, PoolsKept
<1> QED BY <1>1, TracedStep DEF DropKept

LEMMA RowKept ==
  ASSUME NEW who, NEW of, RowsTold(who, of), NEW i \in Id, NEW r, r # NoRow,
         rows[i] = NoRow \/ IsRow(i, r, of), rows' = [rows EXCEPT ![i] = r]
  PROVE  RowsKept
BY DEF RowsTold, IsRow, RowsKept

LEMMA SavedKept ==
  ASSUME NEW who, PoolsTold(who), NEW k \in Key, NEW pool, pool # NoPool,
         pools' = [pools EXCEPT ![k] = pool]
  PROVE  PoolsKept
BY DEF PoolsTold, PoolsKept

LEMMA SameKept == /\ pools' = pools => PoolsKept
                  /\ rows' = rows => RowsKept
                  /\ UNCHANGED <<pc, turn, job>> => DropKept
                  /\ pc' \notin {"drop", "clean drop"} => DropKept
BY DEF PoolsKept, RowsKept, DropKept, Going

LEMMA KnownRow == ASSUME NEW who, NEW r, Known(r, who) PROVE r # NoRow
BY NullRow DEF Known

LEMMA ReturnKept ==
  ASSUME NEW x \in Process, Return(x) \/ Raise(x)
  PROVE  DropKept
BY SameKept DEF Return, Raise, Halt, Done, daemon

LEMMA AdaptTraced ==
  ASSUME NEW who \in Names, NEW of \in Uses, Told(who, of), Traced, NEW x \in Process,
         Adapt(x) \/ AdaptFails(x)
  PROVE  Traced'
<1>1. UNCHANGED <<pools, vm, abandoned>>
  BY DEF Adapt, AdaptEnough, AdaptMany, AdaptList, AdaptShrink, AdaptFew, AdaptLook, AdaptCreate, AdaptMark, AdaptFails,
         AdaptDone, host, tables
<1>2. DropKept
  BY ReturnKept, SameKept DEF Adapt, AdaptEnough, AdaptMany, AdaptList, AdaptShrink, AdaptFew, AdaptLook, AdaptCreate,
         AdaptMark, AdaptFails, AdaptDone, daemon
<1>3. RowsKept
  <2>1. CASE UNCHANGED rows
    BY <2>1, SameKept
  <2>2. ASSUME NEW t \in walk[x].rest, AdaptShrink(x, t)
        PROVE  RowsKept
    <3> DEFINE r == RowFor(t.pool, t.name, "PENDING", "destroy")
    <3>1. rows' = [rows EXCEPT ![t.id] = r]
      BY <2>2 DEF AdaptShrink
    <3>2. IsCopy(t, walk[x].key, who, of) /\ walk[x].key \in Key /\ t.id \in Id
      BY <2>2, WalkFields DEF AdaptShrink, Told, WalksTold, WalkTold, NoWalk, Walk, Copy
    <3>3. r.pool = t.pool /\ r.name = t.name
      BY DEF RowFor
    <3>4. r # NoRow /\ IsRow(t.id, r, of)
      BY <3>2, <3>3, NullRow, KeyAssumption DEF IsRow, IsCopy
    <3> HIDE DEF r
    <3>5. PICK i \in Id : i = t.id
      BY <3>2
    <3>6. rows' = [rows EXCEPT ![i] = r] /\ IsRow(i, r, of) /\ r # NoRow
      BY <3>1, <3>4, <3>5
    <3>7. RowsTold(who, of)
      BY DEF Told
    <3> QED BY <3>6, <3>7 DEF RowsKept, RowsTold, IsRow
  <2>3. CASE AdaptCreate(x)
    <3>1. PICK i \in FreshId :
            rows' = [rows EXCEPT ![i] = RowFor(walk[x].key, MachineOf(walk[x].name, walk[x].at),
                                               "PENDING", "clone")]
      BY <2>3 DEF AdaptCreate
    <3>2. rows[i] = NoRow /\ i \in Id
      BY FreshTypes DEF UnusedId
    <3> QED BY <3>1, <3>2 DEF RowsKept, Told, RowsTold
  <2>4. CASE AdaptMark(x)
    <3> DEFINE m == MachineOf(walk[x].name, walk[x].at)
               r == RowFor(walk[x].key, m, "PENDING", IF m \in vm THEN "destroy" ELSE "clone")
    <3>1. walk[x].mode = "mark" /\ rows' = [rows EXCEPT ![walk[x].id] = r]
      BY <2>4 DEF AdaptMark
    <3>2. walk[x].id \in Id /\ <<walk[x].key, m>> = of[walk[x].id] /\ walk[x].key \in Key
      BY <3>1, WalkFields DEF Told, WalksTold, WalkTold, NoWalk, Walk
    <3>3. r.pool = walk[x].key /\ r.name = m
      BY DEF RowFor
    <3>4. r # NoRow /\ IsRow(walk[x].id, r, of)
      BY <3>2, <3>3, NullRow, KeyAssumption DEF IsRow
    <3> HIDE DEF r
    <3> QED BY <3>1, <3>2, <3>4, RowKept DEF Told
  <2> QED BY <2>1, <2>2, <2>3, <2>4 DEF Adapt, AdaptEnough, AdaptMany, AdaptList, AdaptFew, AdaptLook,
             AdaptFails, AdaptDone, tables
<1> QED BY <1>1, <1>2, <1>3, KeptTraced, SameKept

LEMMA StartupTraced ==
  ASSUME NEW who \in Names, NEW of \in Uses, Told(who, of), Traced, Startup \/ Mishap
  PROVE  Traced'
<1>1. CASE Start \/ PhaseDone \/ Crash \/ Unreachable
  <2>1. UNCHANGED <<pools, rows, vm, abandoned>>
    BY <1>1 DEF Start, PhaseDone, Crash, Unreachable, tables, host
  <2>2. DropKept
    BY <1>1, SameKept DEF Start, PhaseDone, Crash, Unreachable, Visit, Halt, ToLoop
  <2> QED BY <2>1, <2>2, SameKept, KeptTraced
<1>2. ASSUME NEW k \in Key, MainAdapt(k) \/ ProductUnknown(k)
      PROVE  Traced'
  <2>1. UNCHANGED <<pools, rows, vm, abandoned>>
    BY <1>2 DEF MainAdapt, ProductUnknown, tables, host
  <2>2. DropKept
    BY <1>2, SameKept DEF MainAdapt, ProductUnknown, Halt
  <2> QED BY <2>1, <2>2, SameKept, KeptTraced
<1>3. ASSUME NEW k \in Key, PoolFails(k)
      PROVE  Traced'
  <2>1. UNCHANGED <<rows, vm, abandoned>> /\ todo[k] # NoPool
    BY <1>3 DEF PoolFails, host
  <2>2. PoolsKept
    BY <1>3, <2>1, SameKept, SavedKept DEF PoolFails, Told, SavedPool
  <2>3. DropKept
    BY <1>3, SameKept DEF PoolFails, Halt, Visit
  <2> QED BY <2>1, <2>2, <2>3, SameKept, KeptTraced
<1>4. ASSUME NEW k \in Key, CleanPool(k)
      PROVE  Traced'
  <2>1. UNCHANGED <<pools, rows, vm, abandoned>>
    BY <1>4 DEF CleanPool, tables, host
  <2>2. \A j \in Key : Going(j)' => Going(j) \/ RowsOf(j) = {}
    BY <1>4 DEF CleanPool, Deleteable, Going
  <2> QED BY <2>1, <2>2, TracedStep DEF Live
<1>6. CASE CleanDrop
  <2>1. /\ UNCHANGED <<vm, abandoned>> /\ pc = "clean drop" /\ pc' = "clean save"
        /\ pools' = Without(turn) /\ rows' = Cascaded(turn)
    BY <1>6 DEF CleanDrop, host
  <2>2. \A k \in Key : ~Going(k)'
    BY <2>1 DEF Going
  <2>3. \A i \in Id : Live(i) => rows[i].pool # turn /\ rows[i].pool \in Key
    BY <2>1, RowFields DEF Live, Going, Told, RowsTold
  <2>4. \A i \in Id : Live(i) => rows'[i] = rows[i]
    BY <2>1, <2>3 DEF Cascaded
  <2>5. \A i \in Id : Live(i) => pools'[rows[i].pool] # NoPool
    BY <2>1, <2>3 DEF Without, Live, Told, PoolsTold
  <2> QED BY <2>1, <2>2, <2>4, <2>5, TracedStep DEF Live
<1>7. CASE CleanSave
  <2>1. UNCHANGED <<rows, vm, abandoned>> /\ pc' \notin {"drop", "clean drop"} /\ Cleaning
    BY <1>7 DEF CleanSave, host, Halt, Cleaning
  <2>2. turn \in Key /\ todo[turn] # NoPool
    BY <2>1 DEF Told, QueueTold
  <2>3. PoolsKept
    BY <1>7, <2>2, FreshTypes, SameKept, SavedKept DEF CleanSave, Told, SavedPool
  <2> QED BY <2>1, <2>3, SameKept, KeptTraced
<1>5. ASSUME NEW k \in Key, SetupPool(k)
      PROVE  Traced'
  <2>1. /\ UNCHANGED <<vm, abandoned, pc, turn, job>>
        /\ rows' = [i \in Id |-> SetupRow(i, k, todo[k])]
    BY <1>5 DEF SetupPool, host
  <2>2. ASSUME NEW i \in Id, Live(i), rows[i].name \in vm
        PROVE  rows'[i] # NoRow /\ rows'[i].pool = rows[i].pool /\ rows'[i].name = rows[i].name
    <3>1. CASE rows[i].pool # k
      BY <2>1, <2>2, <3>1 DEF SetupRow, Live
    <3>2. CASE rows[i].pool = k
      <4>1. rows'[i] = RowFor(k, rows[i].name, "PENDING", "destroy")
        BY <2>1, <2>2, <3>2 DEF SetupRow
      <4>2. rows'[i].pool = k /\ rows'[i].name = rows[i].name
        BY <4>1 DEF RowFor
      <4> QED BY <3>2, <4>2, NullRow, KeyAssumption
    <3> QED BY <3>1, <3>2
  <2>3. ASSUME NEW i \in Id, Live(i), rows[i].name \in vm
        PROVE  pools'[rows[i].pool] # NoPool
    <3>1. CASE UNCHANGED pools
      BY <2>3, <3>1 DEF Live
    <3>2. CASE pools' = Without(k) /\ \A j \in Id : rows'[j].pool # k
      <4>1. rows[i].pool # k /\ rows[i].pool \in Key
        BY <2>2, <2>3, <3>2, RowFields DEF Live, Told, RowsTold
      <4> QED BY <2>3, <3>2, <4>1 DEF Live, Without
    <3> QED BY <1>5, <3>1, <3>2 DEF SetupPool
  <2>4. DropKept
    BY <2>1, SameKept
  <2> QED BY <2>1, <2>2, <2>3, <2>4, TracedStep DEF DropKept
<1> QED BY <1>1, <1>2, <1>3, <1>4, <1>5, <1>6, <1>7 DEF Startup, Mishap

LEMMA HandleTraced ==
  ASSUME NEW who \in Names, NEW of \in Uses, Told(who, of), Traced, Handle
  PROVE  Traced'
<1>1. CASE PoolMissing
  <2>1. /\ UNCHANGED <<pools, vm, abandoned>> /\ DropKept
        /\ UNCHANGED rows \/ rows' = [rows EXCEPT ![job.id] = NoRow]
    BY <1>1, SameKept DEF PoolMissing, host, Halt, ToLoop, Done
  <2>2. pools[job.row.pool] = NoPool /\ job.id \in Id /\ IsRow(job.id, job.row, of)
    BY <1>1, JobFields DEF PoolMissing, OnRow, Told, JobTold, Job
  <2>3. ~Live(job.id)
    BY <2>2 DEF Live, Told, RowsTold, IsRow
  <2>4. \A i \in Id : Live(i) => rows'[i] = rows[i]
    BY <2>1, <2>2, <2>3 DEF Told, RowsTold
  <2> QED BY <2>1, <2>4, TracedStep DEF Live, DropKept
<1>2. CASE DestroyVm
  <2>1. /\ vm' \subseteq vm /\ UNCHANGED <<pools, abandoned>> /\ pc' = "check"
        /\ rows' = [rows EXCEPT ![job.id] = job.row] /\ Handling("destroy")
    BY <1>2 DEF DestroyVm
  <2>2. RowsKept
    <3>1. job.row # NoRow /\ job.id \in Id /\ IsRow(job.id, job.row, of)
      BY <2>1, HandlingFacts, NullRow
    <3>2. rows' = [rows EXCEPT ![job.id] = job.row] /\ RowsTold(who, of)
      BY <2>1 DEF Told
    <3> QED BY <3>1, <3>2 DEF RowsKept, RowsTold, IsRow
  <2> QED BY <2>1, <2>2, SameKept, KeptTraced
<1>3. CASE DestroyRow
  <2>1. /\ job.row.name \notin vm /\ UNCHANGED <<pools, vm, abandoned>> /\ pc' = "check"
        /\ rows' = [rows EXCEPT ![job.id] = NoRow] /\ Handling("destroy")
    BY <1>3 DEF DestroyRow, JobMachine, host
  <2>2. job.id \in Id /\ (Live(job.id) => rows[job.id].name \notin vm)
    BY <2>1, HandlingFacts DEF Told, RowsTold, IsRow, Live
  <2>3. \A i \in Id : Live(i) /\ rows[i].name \in vm => rows'[i] = rows[i]
    BY <2>1, <2>2 DEF Told, RowsTold
  <2>4. DropKept
    BY <2>1, SameKept
  <2> QED BY <2>1, <2>3, <2>4, TracedStep DEF Live, DropKept
<1>4. CASE Clone
  <2> DEFINE row == RowFor(job.row.pool, job.row.name, "PENDING", "attr")
  <2>1. /\ vm' = vm \cup {job.row.name} /\ UNCHANGED <<pools, abandoned>> /\ pc' = "adapt"
        /\ rows' = [rows EXCEPT ![job.id] = row] /\ Handling("clone")
    BY <1>4 DEF Clone, JobMachine
  <2>2. row.pool = job.row.pool /\ row.name = job.row.name
    BY DEF RowFor
  <2>3. row # NoRow /\ IsRow(job.id, row, of)
    BY <2>1, <2>2, HandlingFacts, NullRow, KeyAssumption DEF IsRow
  <2> HIDE DEF row
  <2>4. RowsKept
    BY <2>1, <2>3, HandlingFacts, RowKept DEF Told
  <2>5. PICK j \in Id : j = job.id
    BY <2>1, HandlingFacts
  <2>6. rows'[j] = row /\ Live(j)'
    BY <2>1, <2>2, <2>3, <2>5 DEF Live, Going, Handling, Told, RowsTold
  <2>7. ASSUME NEW m \in vm \ abandoned
        PROVE  \E i \in Id : Live(i)' /\ rows'[i].name = m
    <3>1. PICK i \in Id : Live(i) /\ rows[i].name = m
      BY DEF Traced
    <3> QED BY <2>1, <2>4, <3>1 DEF Live, Going, RowsKept
  <2> QED BY <2>1, <2>2, <2>6, <2>7 DEF Traced
<1>5. CASE AttrReady
  <2> DEFINE row == RowFor(job.row.pool, job.row.name, "READY", "none")
  <2>1. /\ UNCHANGED <<pools, vm, abandoned>> /\ pc' = "adapt"
        /\ rows' = [rows EXCEPT ![job.id] = row] /\ Handling("attr")
    BY <1>5 DEF AttrReady, JobMachine, host
  <2>2. row.pool = job.row.pool /\ row.name = job.row.name
    BY DEF RowFor
  <2>3. row # NoRow /\ IsRow(job.id, row, of)
    BY <2>1, <2>2, HandlingFacts, NullRow, KeyAssumption DEF IsRow
  <2> HIDE DEF row
  <2>4. RowsKept
    BY <2>1, <2>3, HandlingFacts, RowKept DEF Told
  <2> QED BY <2>1, <2>4, SameKept, KeptTraced
<1>6. CASE AttrAgain
  <2>1. /\ UNCHANGED <<pools, vm, abandoned>> /\ pc' \notin {"drop", "clean drop"}
        /\ rows' = [rows EXCEPT ![job.id] = job.row] /\ Handling("attr")
    BY <1>6 DEF AttrAgain, ToLoop, Done, host
  <2>2. RowsKept
    <3>1. job.row # NoRow /\ job.id \in Id /\ IsRow(job.id, job.row, of)
      BY <2>1, HandlingFacts, NullRow
    <3>2. rows' = [rows EXCEPT ![job.id] = job.row] /\ RowsTold(who, of)
      BY <2>1 DEF Told
    <3> QED BY <3>1, <3>2 DEF RowsKept, RowsTold, IsRow
  <2> QED BY <2>1, <2>2, SameKept, KeptTraced
<1>7. CASE Check
  <2>1. UNCHANGED <<pools, rows, vm, abandoned, job>>
    BY <1>7 DEF Check, tables, host
  <2>2. \A k \in Key : Going(k)' => Going(k) \/ RowsOf(k) = {}
    BY <1>7, <2>1 DEF Check, Deleteable, Going
  <2> QED BY <2>1, <2>2, TracedStep DEF Live
<1>8. CASE Drop
  <2>1. /\ UNCHANGED <<vm, abandoned>> /\ pc = "drop" /\ pc' \notin {"drop", "clean drop"}
        /\ pools' = Without(job.row.pool) /\ rows' = Cascaded(job.row.pool)
    BY <1>8 DEF Drop, ToLoop, Done, host
  <2>2. \A i \in Id : Live(i) => rows[i].pool # job.row.pool /\ rows[i].pool \in Key
    BY <2>1, RowFields DEF Live, Going, Told, RowsTold
  <2>3. \A i \in Id : Live(i) => rows'[i] = rows[i]
    BY <2>1, <2>2 DEF Cascaded
  <2>4. \A i \in Id : Live(i) => pools'[rows[i].pool] # NoPool
    BY <2>1, <2>2 DEF Without, Live, Told, PoolsTold
  <2> QED BY <2>1, <2>3, <2>4, SameKept, TracedStep DEF Live, DropKept
<1>9. CASE Retry
  <2>1. /\ UNCHANGED <<pools, vm, abandoned>> /\ pc' \notin {"drop", "clean drop"}
        /\ OnRow /\ Known(job.row, who)
    BY <1>9, JobFields DEF Retry, ToLoop, Done, host, OnRow, Known
  <2>2. PICK i \in IF job.id # NoId THEN {job.id} ELSE FreshId : rows' = [rows EXCEPT ![i] = job.row]
    BY <1>9 DEF Retry
  <2>3. i \in Id /\ (rows[i] = NoRow \/ IsRow(i, job.row, of))
    BY <2>1, <2>2, JobFields, FreshTypes DEF UnusedId
  <2>4. RowsKept
    BY <2>1, <2>2, <2>3, KnownRow, RowKept DEF Told
  <2> QED BY <2>1, <2>4, SameKept, KeptTraced
<1>10. CASE Blame
  <2>1. UNCHANGED <<rows, vm, abandoned>> /\ pc' \notin {"drop", "clean drop"} /\ pc = "blame"
    BY <1>10 DEF Blame, host, Halt, ToLoop, Done
  <2>2. job.row.pool \in Key /\ job.pool # NoPool
    BY <2>1, JobFields, NullPool DEF OnRow, Told, JobTold
  <2>3. PoolsKept
    BY <1>10, <2>2, SameKept, SavedKept DEF Blame, Told, SavedPool
  <2> QED BY <2>1, <2>3, SameKept, KeptTraced
<1>11. ASSUME NEW i \in Id, DropDangling(i)
      PROVE  Traced'
  <2>1. /\ Dangling(i) /\ rows' = [rows EXCEPT ![i] = NoRow]
        /\ UNCHANGED <<pools, vm, abandoned, pc, turn, job>>
    BY <1>11 DEF DropDangling, host, daemon
  <2>2. \A j \in Id : Live(j) => rows'[j] = rows[j]
    BY <2>1 DEF Live, Dangling, Told, RowsTold
  <2> QED BY <2>1, <2>2, SameKept, TracedStep DEF Live, DropKept
<1>12. CASE Shown \/ Poll \/ \E i \in Id : Pick(i)
  <2>1. UNCHANGED <<pools, rows, vm, abandoned>> /\ pc' \notin {"drop", "clean drop"}
    BY <1>12 DEF Shown, Poll, Pick, tables, host
  <2> QED BY <2>1, SameKept, KeptTraced
<1> QED BY <1>1, <1>2, <1>3, <1>4, <1>5, <1>6, <1>7, <1>8, <1>9, <1>10, <1>11, <1>12 DEF Handle

LEMMA CommandTraced ==
  ASSUME NEW who \in Names, NEW of \in Uses, Told(who, of), Traced, NEW o \in Operator,
         Command(o) \/ (Proceed(o) /\ ~Adapt(o))
  PROVE  Traced'
<1>1. ASSUME NEW p \in Name, NEW n \in 1..MaxSize,
             Add(o, p, n) \/ AddUnreachable(o, p, n) \/ AddUnknown(o, p, n)
      PROVE  Traced'
  <2>1. UNCHANGED <<rows, vm, abandoned, pc, turn, job>>
    BY <1>1 DEF Add, AddUnreachable, AddUnknown, host, daemon
  <2>2. PoolOf(p, n, TRUE) # NoPool /\ PoolOf(p, n, FALSE) # NoPool
    BY PoolOfType, NullPool
  <2>3. PoolsKept
    BY <1>1, <2>2, SavedKept DEF Add, AddUnreachable, AddUnknown, Added, SavedPool, Told
  <2> QED BY <2>1, <2>3, SameKept, KeptTraced
<1>2. ASSUME NEW k, NEW op, RemoveRead(o, k, op) \/ IncrRead(o, k, op) \/ RowRead(o, k, op)
      PROVE  Traced'
  <2>1. UNCHANGED <<pools, rows, vm, abandoned, pc, turn, job>>
    BY <1>2 DEF RemoveRead, IncrRead, RowRead, tables, host, daemon
  <2> QED BY <2>1, SameKept, KeptTraced
<1>3. CASE RemoveSave(o) \/ IncrSave(o)
  <2>1. UNCHANGED <<rows, vm, abandoned, pc, turn, job>>
    BY <1>3 DEF RemoveSave, IncrSave, host, daemon
  <2>2. cmd[o].op # "none" /\ cmd[o].pool # NoPool
    BY <1>3 DEF RemoveSave, IncrSave, Told, CmdsTold, CmdTold
  <2>3. /\ cmd[o].pool \in Pool /\ cmd[o].key \in Key
        /\ cmd[o].op \in {"incr", "decr"} => Resized(cmd[o].pool, cmd[o].op) \in Size
    BY <2>2, CmdFields DEF CmdTold, Cmd
  <2>4. \/ UNCHANGED pools
        \/ \E n \in Size : pools' = SavedPool(cmd[o].key, [cmd[o].pool EXCEPT !.max = n])
    BY <1>3, <2>3, BoundAssumption DEF RemoveSave, IncrSave, Size
  <2>5. PoolsKept
    <3>1. \A n \in Size : [cmd[o].pool EXCEPT !.max = n] # NoPool
      BY <2>3, PoolMaxType, NullPool
    <3> QED BY <2>3, <2>4, <3>1, SavedKept, SameKept DEF Told, SavedPool
  <2> QED BY <2>1, <2>5, SameKept, KeptTraced
<1>4. CASE RowSave(o)
  <2> DEFINE c == cmd[o]
             r == IF c.op = "reserve" THEN [c.row EXCEPT !.status = "RESERVED"]
                  ELSE RowFor(c.row.pool, c.row.name, "PENDING", "destroy")
  <2>1. /\ c.op \in {"release", "reserve"} /\ rows' = [rows EXCEPT ![c.id] = r]
        /\ UNCHANGED <<pools, vm, abandoned, pc, turn, job>>
    BY <1>4 DEF RowSave, host, daemon
  <2>2. c.id \in Id /\ c.row \in Row /\ c.row.pool \in Key /\ <<c.row.pool, c.row.name>> = of[c.id]
    BY <2>1, CmdFields, RowFields DEF CmdTold, Cmd, Known, IsRow
  <2>3. r.pool = c.row.pool /\ r.name = c.row.name
    BY <2>2, StatusType DEF RowFor
  <2>4. r # NoRow /\ IsRow(c.id, r, of)
    BY <2>2, <2>3, NullRow, KeyAssumption DEF IsRow
  <2> HIDE DEF r
  <2>5. RowsKept
    BY <2>1, <2>2, <2>4, RowKept DEF Told
  <2> QED BY <2>1, <2>5, SameKept, KeptTraced
<1>5. ASSUME NEW t \in cmd[o].todo, RemoveRow(o, t) \/ PurgeRow(o, t)
      PROVE  Traced'
  <2>1. cmd[o].op \in {"remove", "purge"} /\ UNCHANGED <<pools, vm, pc, turn, job>>
    BY <1>5 DEF RemoveRow, PurgeRow, host, daemon
  <2>2. t.id \in Id /\ t.pool \in Key /\ <<t.pool, t.name>> = of[t.id]
    BY <2>1, CmdFields DEF CmdTold, Cmd, Copy, IsCopy
  <2>3. CASE RemoveRow(o, t)
    <3> DEFINE r == RowFor(t.pool, t.name, "RESERVED", "destroy")
    <3>1. r.pool = t.pool /\ r.name = t.name
      BY DEF RowFor
    <3>2. r # NoRow /\ IsRow(t.id, r, of)
      BY <2>2, <3>1, NullRow, KeyAssumption DEF IsRow
    <3>3. rows' = [rows EXCEPT ![t.id] = r] /\ UNCHANGED abandoned
      BY <2>3 DEF RemoveRow, host
    <3> HIDE DEF r
    <3>4. RowsKept
      BY <2>2, <3>2, <3>3, RowKept DEF Told
    <3> QED BY <2>1, <3>3, <3>4, SameKept, KeptTraced
  <2>4. CASE PurgeRow(o, t)
    <3>1. rows' = [rows EXCEPT ![t.id] = NoRow] /\ abandoned' = abandoned \cup {t.name}
      BY <2>4 DEF PurgeRow
    <3>2. Live(t.id) => rows[t.id].name \in abandoned'
      BY <2>2, <3>1 DEF Live, Told, RowsTold, IsRow
    <3>3. \A i \in Id : Live(i) /\ rows[i].name \notin abandoned' => rows'[i] = rows[i]
      BY <2>2, <3>1, <3>2 DEF Told, RowsTold
    <3> QED BY <2>1, <3>1, <3>3, SameKept, TracedStep DEF Live, DropKept
  <2> QED BY <1>5, <2>3, <2>4
<1>6. CASE RemoveEnd(o)
  <2> DEFINE k == cmd[o].key
  <2>1. k \in Key /\ UNCHANGED <<vm, pc, turn, job>>
    BY <1>6, CmdFields DEF RemoveEnd, daemon
  <2>2. CASE UNCHANGED <<tables, abandoned>>
    BY <2>1, <2>2, SameKept, KeptTraced DEF tables
  <2>3. CASE /\ pools' = Without(k) /\ rows' = Cascaded(k)
             /\ abandoned' = abandoned \cup {rows[i].name : i \in RowsOf(k)}
    <3>1. \A i \in Id : Live(i) /\ rows[i].name \notin abandoned' => rows[i].pool # k
      BY <2>3 DEF RowsOf
    <3>2. \A i \in Id : Live(i) => rows[i].pool \in Key
      BY RowFields DEF Live, Told, RowsTold
    <3>3. \A i \in Id : Live(i) /\ rows[i].name \notin abandoned' =>
                          rows'[i] = rows[i] /\ pools'[rows[i].pool] # NoPool
      BY <2>3, <3>1, <3>2 DEF Cascaded, Without, Live
    <3> QED BY <2>1, <2>3, <3>3, SameKept, TracedStep DEF Live, DropKept
  <2> QED BY <1>6, <2>2, <2>3 DEF RemoveEnd
<1> QED BY <1>1, <1>2, <1>3, <1>4, <1>5, <1>6 DEF Command, Proceed

LEMMA ClientTraced ==
  ASSUME NEW who \in Names, NEW of \in Uses, Told(who, of), Traced, NEW i \in Id,
         Acquire(i) \/ Expire(i)
  PROVE  Traced'
<1>1. rows[i] # NoRow /\ UNCHANGED <<pools, vm, abandoned, pc, turn, job>>
  BY DEF Acquire, Expire, NoRow, host, daemon
<1>2. rows[i] \in Row /\ rows[i].pool \in Key
  BY <1>1, RowFields DEF Told, RowsTold
<1>3. /\ \A j \in Id : j # i => rows'[j] = rows[j]
      /\ rows'[i].pool = rows[i].pool /\ rows'[i].name = rows[i].name
  BY <1>2 DEF Acquire, Expire, Row, Told, RowsTold
<1>4. RowsKept
  BY <1>2, <1>3, NullRow, KeyAssumption DEF RowsKept
<1> QED BY <1>1, <1>4, SameKept, KeptTraced

LEMMA TracedKept == ASSUME Bookkeeping, Traced, [Next]_vars PROVE Traced'
<1>1. PICK who \in Names, of \in Uses : Told(who, of)
  BY DEF Bookkeeping
<1>2. CASE UNCHANGED vars
  BY <1>2 DEF vars, daemon, tables, host, Traced, Live, Going
<1> QED BY <1>1, <1>2, AdaptTraced, StartupTraced, HandleTraced, CommandTraced, ClientTraced
        DEF Next, Process

\* A machine that no "immediate" removal has left behind has a row that neither
\* the cascade of a pool's deletion nor the daemon's next step takes away, also
\* when a pool is added, enlarged and removed by several processes at once.
THEOREM TracedInvariant == Spec => []Traced
<1>1. Init => Traced
  BY DEF Init, Traced
<1> QED BY <1>1, TracedKept, BookkeepingInvariant, PTL DEF Spec

\* When a pool is gone so are its machines, but for those an "immediate" removal
\* has left behind, provided that pools do not share names of machines.
THEOREM GonePoolsAreEmpty == ASSUME ~SameTemplate PROVE Spec => []GoneMeansEmpty
<1>1. ASSUME Bookkeeping, Traced PROVE GoneMeansEmpty
  <2> SUFFICES ASSUME NEW p \in Name, NEW n \in Slot, MachineOf(p, n) \in vm \ abandoned
               PROVE  Named(p) # {}
    BY DEF GoneMeansEmpty
  <2>1. PICK who \in Names, of \in Uses : Told(who, of)
    BY <1>1 DEF Bookkeeping
  <2>2. PICK i \in Id : Live(i) /\ rows[i].name = MachineOf(p, n)
    BY <1>1 DEF Traced
  <2>3. Known(rows[i], who) /\ rows[i].pool \in Key /\ pools[rows[i].pool] # NoPool
    BY <2>1, <2>2, RowFields DEF Live, Told, RowsTold, Known
  <2>4. pools[rows[i].pool].name = who[rows[i].pool]
    BY <2>1, <2>3 DEF Told, PoolsTold
  <2>5. MachineOf(p, n) \in MachinesOf(who[rows[i].pool])
    BY <2>2, <2>3 DEF Known
  <2>6. who[rows[i].pool] = p
    BY <2>5 DEF MachinesOf, MachineOf
  <2> QED BY <2>3, <2>4, <2>6 DEF Named
<1> QED BY <1>1, BookkeepingInvariant, TracedInvariant, PTL

-----------------------------------------------------------------------------
(* The tables.                                                             *)

\* The parts of Removal that are about the tables alone.
Sound == UniquePools /\ AddedPoolStays /\ \A k \in Key : Sized(pools[k]) /\ Doomed(k)

LEMMA RemovalParts == Removal <=> Sound /\ DaemonKnows /\ CommandsKnow
BY DEF Removal, Sound

LEMMA NullJob == NoJob.pool = NoPool
BY DEF NoJob, JobOf

LEMMA NullMax == NoPool.max = 0 /\ NoPool.name = NoKey /\ NoCmd.pool = NoPool /\ NoCmd.key = NoKey
BY DEF NoPool, NoCmd

LEMMA SoundStays ==
  ASSUME Sound, UNCHANGED <<pools, wanted>>
  PROVE  Sound'
BY DEF Sound, UniquePools, AddedPoolStays, Named, Sized, Doomed

\* Pool k goes.
LEMMA SoundWithout ==
  ASSUME NEW who, NEW of, Told(who, of), Sound, NEW k \in Key, pools' = Without(k), UNCHANGED wanted,
         pools[k] # NoPool => pools[k].name \notin wanted
  PROVE  Sound'
<1>1. pools'[k] = NoPool /\ \A j \in Key : j # k => pools'[j] = pools[j]
  BY DEF Told, PoolsTold, Without
<1>2. UniquePools'
  BY <1>1 DEF Sound, UniquePools
<1>3. AddedPoolStays'
  <2> SUFFICES ASSUME NEW p \in wanted PROVE \E j \in Key : pools'[j].name = p
    BY DEF AddedPoolStays, Named
  <2>1. PICK j \in Key : pools[j].name = p
    BY DEF Sound, AddedPoolStays, Named
  <2>2. p \in Name
    BY DEF Told, HostOK
  <2>3. pools[j] # NoPool
    BY <2>1, <2>2, NullMax, KeyAssumption
  <2> QED BY <1>1, <2>1, <2>3
<1>4. \A j \in Key : (Sized(pools[j]) /\ Doomed(j))'
  BY <1>1 DEF Sound, Sized, Doomed
<1> QED BY <1>2, <1>3, <1>4 DEF Sound

\* Pool k is saved.
LEMMA SoundSaved ==
  ASSUME NEW who, NEW of, Told(who, of), Sound, NEW k \in Key, NEW pool \in Pool,
         pools' = [pools EXCEPT ![k] = pool], pool.max >= 0,
         pools[k] # NoPool => pools[k].name = pool.name, Named(pool.name) \subseteq {k},
         wanted' \subseteq wanted \cup {pool.name}, pool.max = 0 => pool.name \notin wanted'
  PROVE  Sound'
<1>1. pools'[k] = pool /\ \A j \in Key : j # k => pools'[j] = pools[j]
  BY DEF Told, PoolsTold
<1>2. \A j \in Key : j # k => pools[j].name # pool.name
  BY DEF Named
<1>3. UniquePools'
  BY <1>1, <1>2 DEF Sound, UniquePools
<1>4. AddedPoolStays'
  <2> SUFFICES ASSUME NEW p \in wanted' PROVE \E j \in Key : pools'[j].name = p
    BY DEF AddedPoolStays, Named
  <2>1. CASE p = pool.name
    BY <1>1, <2>1
  <2>2. CASE p # pool.name
    <3>1. PICK j \in Key : pools[j].name = p
      BY <2>2 DEF Sound, AddedPoolStays, Named
    <3>2. p \in Name
      BY <2>2 DEF Told, HostOK
    <3>3. pools[j] # NoPool
      BY <3>1, <3>2, NullMax, KeyAssumption
    <3> QED BY <1>1, <2>2, <3>1, <3>3
  <2> QED BY <2>1, <2>2
<1>5. \A j \in Key : (Sized(pools[j]) /\ Doomed(j))'
  BY <1>1, <1>2 DEF Sound, Sized, Doomed
<1> QED BY <1>3, <1>4, <1>5 DEF Sound

\* A pool object whose row is there, or whose name nobody has.
LEMMA SavedName ==
  ASSUME NEW who, NEW of, Told(who, of), Sound, NEW k \in Key, NEW pool \in Pool,
         pool.name = who[k], CanSave(k, pool)
  PROVE  /\ pools[k] # NoPool => pools[k].name = pool.name
         /\ Named(pool.name) \subseteq {k}
         /\ pools[k] = NoPool => pool.name \notin wanted
<1>1. pools[k] # NoPool => pools[k].name = pool.name
  BY DEF Told, PoolsTold
<1>2. \A j \in Named(pool.name) : pools[j] # NoPool /\ pools[j].name = pool.name /\ j \in Key
  BY NullMax, KeyAssumption, PoolFields DEF Named
<1>3. Named(pool.name) \subseteq {k}
  BY <1>1, <1>2 DEF CanSave, Sound, UniquePools
<1>4. pools[k] = NoPool => pool.name \notin wanted
  BY DEF CanSave, Sound, AddedPoolStays
<1> QED BY <1>1, <1>3, <1>4

-----------------------------------------------------------------------------
(* What the daemon knows.                                                  *)

LEMMA DaemonStays ==
  ASSUME DaemonKnows, UNCHANGED <<pools, todo, turn, pc, job>>
  PROVE  DaemonKnows'
BY DEF DaemonKnows, Visiting, Cleaning, Sized, StillEmpty

\* Where the daemon has no pool object in use.
Between == pc \notin {"clean drop", "clean save", "blame", "check", "drop"}

\* The daemon is not about to save or delete a pool, and those it has still to
\* visit it has read before or reads now.
LEMMA DaemonReads ==
  ASSUME Sound, DaemonKnows, UNCHANGED pools, Between',
         job'.pool \in {job.pool, NoPool},
         Visiting' => Visiting \/ \A k \in Key : todo'[k] \in {pools[k], NoPool},
         \A k \in Key : todo'[k] \in {todo[k], pools[k], NoPool}
  PROVE  DaemonKnows'
<1>1. Sized(job.pool)' /\ \A k \in Key : Sized(todo[k])'
  BY DEF Sound, DaemonKnows, Sized
<1>2. Visiting' => \A k \in Key : todo'[k] # NoPool /\ todo'[k].max = 0 => StillEmpty(k)'
  BY DEF DaemonKnows, StillEmpty
<1> QED BY <1>1, <1>2 DEF DaemonKnows, Between, Cleaning

\* Pools that grow are not those whose removal the daemon has seen.
LEMMA DaemonSaved ==
  ASSUME NEW who, NEW of, Told(who, of), DaemonKnows, NEW k \in Key, NEW pool,
         pools' = [pools EXCEPT ![k] = pool], UNCHANGED <<todo, turn, pc, job>>,
         \/ pool = NoPool \/ pool.max = 0
         \/ todo[k] = NoPool /\ job.row.pool # k
         \/ pools[k] # NoPool /\ pools[k].max # 0
  PROVE  DaemonKnows'
<1>1. pools'[k] = pool /\ \A j \in Key : j # k => pools'[j] = pools[j]
  BY DEF Told, PoolsTold
<1>2. pc \in {"blame", "check", "drop"} => job.row.pool \in Key
  BY JobFields, RowFields DEF Told, JobTold, Known, OnRow
<1>3. Visiting => \A j \in Key : todo[j] # NoPool /\ todo[j].max = 0 => StillEmpty(j)'
  BY <1>1 DEF DaemonKnows, StillEmpty
<1>4. pc \in {"blame", "check", "drop"} /\ job.pool.max = 0 => StillEmpty(job.row.pool)'
  BY <1>1, <1>2 DEF DaemonKnows, StillEmpty
<1>5. Visiting' = Visiting /\ Cleaning' = Cleaning
  BY DEF Visiting, Cleaning
<1> QED BY <1>3, <1>4, <1>5 DEF DaemonKnows, Sized

-----------------------------------------------------------------------------
(* What the commands know.                                                 *)

LEMMA CommandsStay ==
  ASSUME CommandsKnow, UNCHANGED <<pools, wanted, cmd>>
  PROVE  CommandsKnow'
BY DEF CommandsKnow

\* A command ends.
LEMMA CommandsEnd ==
  ASSUME NEW who, NEW of, Told(who, of), CommandsKnow, UNCHANGED <<pools, wanted>>,
         NEW o \in Operator, cmd' = [cmd EXCEPT ![o] = NoCmd]
  PROVE  CommandsKnow'
<1>1. cmd'[o] = NoCmd /\ \A q \in Operator : q # o => cmd'[q] = cmd[q]
  BY DEF Told, CmdsTold
<1>2. \A q \in Operator : cmd[q] # NoCmd => cmd[q].key \in Key
  BY DEF Told, CmdsTold, CmdTold
<1>3. \A q, r \in Operator : cmd'[q].key = cmd'[r].key /\ cmd'[q] # NoCmd => q = r
  BY <1>1, <1>2, NullMax, KeyAssumption DEF CommandsKnow
<1>4. NoCmd.op = "none"
  BY DEF NoCmd
<1> QED BY <1>1, <1>3, <1>4, NullMax DEF CommandsKnow

\* A command begins on a pool that no other is at work on.
LEMMA CommandsBegin ==
  ASSUME NEW who, NEW of, Told(who, of), CommandsKnow, UNCHANGED <<pools, wanted>>,
         NEW o \in Operator, NEW op, NEW k \in Key, NEW pool, NEW i, NEW row,
         Begin(o, op, k, pool, i, row), \A q \in Operator : cmd[q].key # k,
         pool = NoPool => op # "purge",
         pool # NoPool => pool = pools[k] /\ pool.max > 0
  PROVE  CommandsKnow'
<1> DEFINE c == [op |-> op, key |-> k, pool |-> pool, id |-> i, row |-> row, todo |-> {}]
<1>1. cmd'[o] = c /\ \A q \in Operator : q # o => cmd'[q] = cmd[q]
  BY DEF Told, CmdsTold, Begin
<1>2. c.op = op /\ c.key = k /\ c.pool = pool
  OBVIOUS
<1> HIDE DEF c
<1>3. \A q, r \in Operator : cmd'[q].key = cmd'[r].key /\ cmd'[q] # NoCmd => q = r
  BY <1>1, <1>2 DEF CommandsKnow
<1> QED BY <1>1, <1>2, <1>3 DEF CommandsKnow

\* A pool goes that no command has a copy of.
LEMMA CommandsWithout ==
  ASSUME NEW who, NEW of, Told(who, of), CommandsKnow, NEW k \in Key, pools' = Without(k),
         UNCHANGED <<wanted, cmd>>, StillEmpty(k)
  PROVE  CommandsKnow'
<1>1. pools'[k] = NoPool /\ \A j \in Key : j # k => pools'[j] = pools[j]
  BY DEF Told, PoolsTold, Without
<1>2. \A q \in Operator : cmd[q].op # "none" => cmd[q].key \in Key
  BY DEF Told, CmdsTold, CmdTold
<1>3. \A q \in Operator : cmd[q].pool # NoPool => cmd[q].key # k /\ cmd[q].key \in Key
  BY <1>2, NullMax DEF CommandsKnow, StillEmpty, Told, CmdsTold, CmdTold
<1> QED BY <1>1, <1>2, <1>3 DEF CommandsKnow

\* A pool is saved by someone who has no command on it.
LEMMA CommandsSaved ==
  ASSUME NEW who, NEW of, Told(who, of), CommandsKnow, NEW k \in Key, NEW pool \in Pool,
         pools' = [pools EXCEPT ![k] = pool], UNCHANGED cmd,
         wanted' \subseteq wanted \cup {pool.name}, Named(pool.name) \subseteq {k},
         \A q \in Operator : cmd[q].key = k /\ cmd[q].pool # NoPool => pool.max > 0,
         \A q \in Operator : cmd[q].key = k /\ cmd[q].op = "purge" /\ cmd[q].pool = NoPool
                            => pool.name \notin wanted'
  PROVE  CommandsKnow'
<1>1. pools'[k] = pool /\ \A j \in Key : j # k => pools'[j] = pools[j]
  BY DEF Told, PoolsTold
<1>2. \A j \in Key : j # k => pools[j].name # pool.name
  BY DEF Named
<1>3. \A q \in Operator : cmd[q].op # "none" => cmd[q].key \in Key
  BY DEF Told, CmdsTold, CmdTold
<1>4. \A q \in Operator : cmd[q].pool # NoPool => cmd[q].key \in Key
  BY <1>3, NullMax DEF Told, CmdsTold, CmdTold
<1> QED BY <1>1, <1>2, <1>3, <1>4, NullPool DEF CommandsKnow

-----------------------------------------------------------------------------
(* Steps that leave the Pool table alone.                                  *)

LEMMA Outside ==
  ASSUME Removal, UNCHANGED <<pools, wanted, todo, turn, pc, job, cmd>>
  PROVE  Removal'
BY RemovalParts, SoundStays, DaemonStays, CommandsStay DEF Removal, Sound

LEMMA Inside ==
  ASSUME Removal, UNCHANGED <<pools, wanted, cmd>>, DaemonKnows'
  PROVE  Removal'
BY RemovalParts, SoundStays, CommandsStay DEF Removal, Sound

LEMMA ReadsRemoval ==
  ASSUME Removal, UNCHANGED <<pools, wanted, cmd>>, Between', job'.pool \in {job.pool, NoPool},
         todo' \in {pools, NoTodo} \/ (todo' = todo /\ (Visiting' => Visiting))
  PROVE  Removal'
<1>1. /\ \A k \in Key : todo'[k] \in {todo[k], pools[k], NoPool}
      /\ Visiting' => Visiting \/ \A k \in Key : todo'[k] \in {pools[k], NoPool}
  BY DEF NoTodo
<1> QED BY <1>1, RemovalParts, DaemonReads, Inside

LEMMA EndRemoval ==
  ASSUME NEW who, NEW of, Told(who, of), Removal, NEW o \in Operator,
         UNCHANGED <<pools, wanted, todo, turn, pc, job>>, cmd' = [cmd EXCEPT ![o] = NoCmd]
  PROVE  Removal'
BY RemovalParts, SoundStays, DaemonStays, CommandsEnd DEF Removal, Sound

\* Only adapt of main returns to where the daemon visits pools.
LEMMA ReturnReads ==
  ASSUME NEW who, NEW of, Told(who, of), walk[Daemon].mode # "off", Return(Daemon) \/ Raise(Daemon)
  PROVE  /\ Between' /\ job'.pool \in {job.pool, NoPool} /\ UNCHANGED cmd
         /\ todo' \in {pools, NoTodo} \/ (todo' = todo /\ (Visiting' => Visiting))
<1>1. pc \in {"main", "adapt"} /\ (pc = "adapt" => job.caller # "main")
  BY DEF Told, WalksTold, NoWalk, JobTold, OnRow
<1>2. CASE Return(Daemon)
  BY <1>1, <1>2, NullJob DEF Return, Done, Between, Visiting, Cleaning
<1>3. CASE Raise(Daemon)
  <2>1. CASE Halt
    BY <1>3, <2>1, NullJob DEF Raise, Halt, Between
  <2>2. CASE ~Halt
    BY <1>3, <2>2 DEF Raise, Between, Visiting, Cleaning
  <2> QED BY <2>1, <2>2
<1> QED BY <1>2, <1>3

LEMMA AdaptRemoval ==
  ASSUME NEW who \in Names, NEW of \in Uses, Told(who, of), Removal, NEW x \in Process,
         Adapt(x) \/ AdaptFails(x)
  PROVE  Removal'
<1>1. UNCHANGED <<pools, wanted>> /\ walk[x].mode # "off"
  BY DEF Adapt, AdaptEnough, AdaptMany, AdaptList, AdaptShrink, AdaptFew, AdaptLook, AdaptCreate,
         AdaptMark, AdaptFails, AdaptDone, tables
<1>2. CASE UNCHANGED <<todo, turn, pc, job, cmd>>
  BY <1>1, <1>2, Outside
<1>3. CASE Return(x) \/ Raise(x)
  <2>1. CASE x = Daemon
    BY <1>1, <1>3, <2>1, ReturnReads, ReadsRemoval
  <2>2. CASE x # Daemon
    BY <1>1, <1>3, <2>2, EndRemoval DEF Return, Raise, daemon, Process
  <2> QED BY <2>1, <2>2
<1> QED BY <1>2, <1>3 DEF Adapt, AdaptEnough, AdaptMany, AdaptList, AdaptShrink, AdaptFew, AdaptLook,
           AdaptCreate, AdaptMark, AdaptFails, AdaptDone, daemon

LEMMA HaltRemoval ==
  ASSUME Removal, UNCHANGED <<pools, wanted, cmd>>, Halt
  PROVE  Removal'
BY ReadsRemoval, NullJob DEF Halt, Between

LEMMA LoopRemoval ==
  ASSUME Removal, UNCHANGED <<pools, wanted, cmd, todo>>, job'.pool \in {job.pool, NoPool},
         pc' \in {"loop", "poll", "pick", "work", "adapt"}
  PROVE  Removal'
<1>1. Between' /\ ~Visiting'
  BY DEF Between, Visiting, Cleaning
<1> QED BY <1>1, ReadsRemoval

LEMMA QuietRemoval ==
  ASSUME NEW who \in Names, NEW of \in Uses, Told(who, of), Removal,
         \/ Start \/ PhaseDone \/ Crash \/ PoolMissing \/ Shown \/ Poll \/ Clone \/ AttrReady
         \/ AttrAgain \/ Retry \/ \E k \in Key : MainAdapt(k) \/ ProductUnknown(k)
         \/ \E i \in Id : Pick(i)
  PROVE  Removal'
<1>1. CASE Start \/ PhaseDone
  <2>1. UNCHANGED <<pools, wanted, cmd, job>> /\ Between'
    BY <1>1 DEF Start, PhaseDone, Visit, tables, Between
  <2>2. todo' \in {pools, NoTodo}
    BY <1>1 DEF Start, PhaseDone, Visit
  <2> QED BY <2>1, <2>2, ReadsRemoval
<1>2. CASE Shown \/ Poll \/ Clone \/ AttrReady \/ AttrAgain \/ Retry \/ \E i \in Id : Pick(i)
  <2>1. /\ UNCHANGED <<pools, wanted, cmd, todo>> /\ job'.pool \in {job.pool, NoPool}
        /\ pc' \in {"loop", "poll", "pick", "work", "adapt"}
    BY <1>2, NullJob DEF Shown, Poll, Clone, AttrReady, AttrAgain, Retry, Pick, ToLoop, Done, JobOf,
       tables
  <2> QED BY <2>1, LoopRemoval
<1>3. CASE Crash \/ PoolMissing \/ \E k \in Key : ProductUnknown(k)
  <2>1. UNCHANGED <<pools, wanted, cmd>>
    BY <1>3 DEF Crash, PoolMissing, ProductUnknown, tables
  <2>2. CASE Halt
    BY <2>1, <2>2, HaltRemoval
  <2>3. CASE ToLoop
    <3>1. UNCHANGED todo /\ job'.pool = NoPool /\ pc' \in {"loop", "pick"}
      BY <2>3, NullJob DEF ToLoop, Done
    <3> QED BY <2>1, <3>1, LoopRemoval
  <2> QED BY <1>3, <2>2, <2>3 DEF Crash, PoolMissing, ProductUnknown
<1>4. ASSUME NEW k \in Key, MainAdapt(k)
      PROVE  Removal'
  <2>1. UNCHANGED <<pools, wanted, cmd, pc, job>> /\ pc = "main"
    BY <1>4 DEF MainAdapt, tables
  <2>2. \A j \in Key : todo'[j] \in {todo[j], NoPool}
    BY <1>4 DEF MainAdapt, Visited, Told, TodoTold
  <2>3. Between' /\ Visiting
    BY <2>1 DEF Between, Visiting
  <2> QED BY <2>1, <2>2, <2>3, RemovalParts, DaemonReads, Inside
<1> QED BY <1>1, <1>2, <1>3, <1>4

\* The handlers read the pool, and action_destroy asks whether it may be deleted.
LEMMA HandlerRemoval ==
  ASSUME NEW who \in Names, NEW of \in Uses, Told(who, of), Removal,
         DestroyVm \/ DestroyRow \/ Unreachable \/ Check
  PROVE  Removal'
<1>1. UNCHANGED <<pools, wanted, cmd>>
  BY DEF DestroyVm, DestroyRow, Unreachable, Check, tables
<1>2. CASE /\ pc = "work" /\ pc' \in {"blame", "check"} /\ UNCHANGED todo
           /\ job'.row = job.row /\ job'.pool = pools[job.row.pool]
  <2>1. job.row.pool \in Key
    BY <1>2, JobFields DEF OnRow
  <2>2. Sized(job'.pool) /\ (job'.pool.max = 0 => StillEmpty(job.row.pool)')
    BY <1>1, <1>2, <2>1 DEF Removal, StillEmpty
  <2>3. \A j \in Key : Sized(todo'[j])
    BY <1>2 DEF Removal, DaemonKnows
  <2>4. ~Visiting' /\ ~Cleaning' /\ pc' # "drop"
    BY <1>2 DEF Visiting, Cleaning
  <2>5. DaemonKnows'
    BY <2>2, <2>3, <2>4 DEF DaemonKnows, Sized
  <2> QED BY <1>1, <2>5, Inside
<1>3. CASE DestroyVm \/ DestroyRow
  BY <1>2, <1>3 DEF DestroyVm, DestroyRow, Handling, JobOf, JobPool
<1>4. CASE Unreachable
  <2>1. CASE Halt
    BY <1>1, <2>1, HaltRemoval
  <2>2. CASE ~Halt
    BY <1>2, <1>4, <2>2 DEF Unreachable, JobOf, JobPool
  <2> QED BY <2>1, <2>2
<1>5. CASE Check
  <2>1. pc = "check" /\ UNCHANGED <<todo, job>> /\ pc' \in {"drop", "adapt"}
        /\ (pc' = "drop" => job.pool.max = 0)
    BY <1>5 DEF Check, Deleteable
  <2>2. ~Visiting' /\ ~Cleaning'
    BY <2>1 DEF Visiting, Cleaning
  <2>3. DaemonKnows'
    BY <1>1, <2>1, <2>2 DEF Removal, DaemonKnows, Sized, StillEmpty
  <2> QED BY <1>1, <2>3, Inside
<1> QED BY <1>3, <1>4, <1>5

LEMMA RowsRemoval ==
  ASSUME NEW who \in Names, NEW of \in Uses, Told(who, of), Removal,
         \E i \in Id : DropDangling(i) \/ Acquire(i) \/ Expire(i)
  PROVE  Removal'
BY Outside DEF DropDangling, Acquire, Expire, daemon

LEMMA TodoRemoval ==
  ASSUME NEW who \in Names, NEW of \in Uses, Told(who, of), Removal, NEW o \in Operator,
         \E t \in cmd[o].todo : RemoveRow(o, t) \/ PurgeRow(o, t)
  PROVE  Removal'
<1>1. PICK t \in cmd[o].todo : RemoveRow(o, t) \/ PurgeRow(o, t)
  OBVIOUS
<1>2. /\ UNCHANGED <<pools, wanted, todo, turn, pc, job>> /\ cmd[o].op \in {"remove", "purge"}
      /\ cmd' = [cmd EXCEPT ![o] = WithRows(cmd[o], cmd[o].todo \ {t})]
  BY <1>1 DEF RemoveRow, PurgeRow, daemon
<1>3. cmd[o].pool = NoPool
  BY <1>1, <1>2, CmdFields DEF CmdTold
<1>4. /\ cmd'[o].op = cmd[o].op /\ cmd'[o].key = cmd[o].key /\ cmd'[o].pool = NoPool
      /\ \A q \in Operator : q # o => cmd'[q] = cmd[q]
  BY <1>2 DEF WithRows, Told, CmdsTold
<1>5. cmd[o] # NoCmd
  BY <1>2 DEF NoCmd
<1>6. CommandsKnow'
  <2>1. \A q, r \in Operator : cmd'[q].key = cmd'[r].key /\ cmd'[q] # NoCmd => q = r
    BY <1>4, <1>5 DEF Removal, CommandsKnow
  <2>2. \A q \in Operator : /\ cmd'[q].op = cmd[q].op /\ cmd'[q].key = cmd[q].key
                           /\ cmd'[q].pool = cmd[q].pool
    BY <1>3, <1>4
  <2>3. CommandsKnow /\ UNCHANGED <<pools, wanted>>
    BY <1>2 DEF Removal
  <2> QED BY <2>1, <2>2, <2>3 DEF CommandsKnow
<1> QED BY <1>2, <1>6, RemovalParts, SoundStays, DaemonStays DEF Removal, Sound

LEMMA ReadRemoval ==
  ASSUME NEW who \in Names, NEW of \in Uses, Told(who, of), Removal, Patient,
         NEW o \in Operator, NEW k, NEW op,
         (k \in Key /\ (RemoveRead(o, k, op) \/ IncrRead(o, k, op))) \/ (k \in Id /\ RowRead(o, k, op))
  PROVE  Removal'
<1>1. UNCHANGED <<pools, wanted, todo, turn, pc, job>>
  BY DEF RemoveRead, IncrRead, RowRead, tables, daemon
<1>2. CASE k \in Key /\ (RemoveRead(o, k, op) \/ IncrRead(o, k, op))
  <2>1. /\ Begin(o, op, k, pools[k], NoId, NoRow) /\ pools[k] # NoPool /\ pools[k].max > 0
        /\ \A q \in Operator : cmd[q].key # k
    BY <1>2 DEF RemoveRead, IncrRead, Free
  <2>2. CommandsKnow'
    BY <1>1, <1>2, <2>1, RemovalParts, CommandsBegin
  <2> QED BY <1>1, <2>2, RemovalParts, SoundStays, DaemonStays DEF Removal, Sound
<1>3. CASE k \in Id /\ RowRead(o, k, op)
  <2>1. /\ Begin(o, op, rows[k].pool, NoPool, k, rows[k]) /\ op # "purge" /\ rows[k] # NoRow
        /\ \A q \in Operator : cmd[q].key # rows[k].pool
    BY <1>3 DEF RowRead, Free
  <2>2. rows[k].pool \in Key
    BY <1>3, <2>1, RowFields DEF Told, RowsTold
  <2>3. CommandsKnow'
    BY <1>1, <2>1, <2>2, RemovalParts, CommandsBegin
  <2> QED BY <1>1, <2>3, RemovalParts, SoundStays, DaemonStays DEF Removal, Sound
<1> QED BY <1>2, <1>3

-----------------------------------------------------------------------------
(* Steps that save or delete a pool.                                       *)

LEMMA WithoutRemoval ==
  ASSUME NEW who \in Names, NEW of \in Uses, Told(who, of), Removal, NEW k \in Key,
         pools' = Without(k), UNCHANGED <<wanted, cmd>>, StillEmpty(k)
  PROVE  Sound' /\ CommandsKnow'
<1>1. pools[k] # NoPool => pools[k].name \notin wanted
  BY RemovalParts DEF Sound, Doomed, StillEmpty
<1> QED BY <1>1, RemovalParts, SoundWithout, CommandsWithout

LEMMA DropRemoval ==
  ASSUME NEW who \in Names, NEW of \in Uses, Told(who, of), Removal, Drop
  PROVE  Removal'
<1>1. /\ pc = "drop" /\ pc' \in {"loop", "pick"} /\ pools' = Without(job.row.pool)
      /\ UNCHANGED <<wanted, cmd, todo>> /\ job'.pool = NoPool
  BY NullJob DEF Drop, ToLoop, Done
<1>2. job.row.pool \in Key /\ StillEmpty(job.row.pool)
  BY <1>1, JobFields, RemovalParts DEF OnRow, DaemonKnows
<1>3. Sound' /\ CommandsKnow'
  BY <1>1, <1>2, WithoutRemoval
<1>4. ~Visiting' /\ ~Cleaning'
  BY <1>1 DEF Visiting, Cleaning
<1>5. DaemonKnows'
  BY <1>1, <1>4 DEF Removal, DaemonKnows, Sized
<1> QED BY <1>3, <1>5, RemovalParts DEF Removal, Sound

LEMMA SetupRemoval ==
  ASSUME NEW who \in Names, NEW of \in Uses, Told(who, of), Removal, NEW k \in Key, SetupPool(k)
  PROVE  Removal'
<1>1. /\ todo[k] # NoPool /\ UNCHANGED <<wanted, cmd, pc, job>> /\ Visited(k) /\ pc = "setup"
      /\ (UNCHANGED pools \/ (pools' = Without(k) /\ todo[k].max = 0))
  BY DEF SetupPool
<1>2. \A j \in Key : pools'[j] \in {pools[j], NoPool} /\ todo'[j] \in {todo[j], NoPool}
  BY <1>1 DEF Without, Visited, Told, PoolsTold, TodoTold
<1>3. Visiting /\ ~Cleaning'
  BY <1>1 DEF Visiting, Cleaning
<1>4. DaemonKnows'
  BY <1>1, <1>2, <1>3 DEF Removal, DaemonKnows, Sized, StillEmpty
<1>5. CASE UNCHANGED pools
  BY <1>1, <1>4, <1>5, Inside
<1>6. CASE pools' = Without(k) /\ todo[k].max = 0
  <2>1. StillEmpty(k)
    BY <1>1, <1>3, <1>6 DEF Removal, DaemonKnows
  <2>2. Sound' /\ CommandsKnow'
    BY <1>1, <1>6, <2>1, WithoutRemoval
  <2> QED BY <1>4, <2>2, RemovalParts DEF Removal, Sound
<1> QED BY <1>1, <1>5, <1>6

\* An old copy of a pool is saved.
LEMMA SavedRemoval ==
  ASSUME NEW who \in Names, NEW of \in Uses, Told(who, of), Removal, NEW k \in Key, NEW pool \in Pool,
         pool.name = who[k], CanSave(k, pool), pools' = SavedPool(k, pool), UNCHANGED <<wanted, cmd>>,
         pool.max >= 0, pool.max = 0 => StillEmpty(k)
  PROVE  Sound' /\ CommandsKnow'
<1>1. /\ pools[k] # NoPool => pools[k].name = pool.name
      /\ Named(pool.name) \subseteq {k}
      /\ pools[k] = NoPool => pool.name \notin wanted
  BY RemovalParts, SavedName
<1>2. pool.max = 0 => pool.name \notin wanted
  BY <1>1 DEF StillEmpty, Removal, Doomed
<1>3. Sound'
  BY <1>1, <1>2, RemovalParts, SoundSaved DEF SavedPool
<1>4. \A q \in Operator : cmd[q].key = k /\ cmd[q].pool # NoPool => pool.max > 0
  BY PoolFields DEF Removal, CommandsKnow, StillEmpty, Size
<1>5. \A q \in Operator : cmd[q].key = k /\ cmd[q].op = "purge" /\ cmd[q].pool = NoPool
                          => pool.name \notin wanted'
  BY <1>1 DEF Removal, CommandsKnow
<1>6. CommandsKnow'
  BY <1>1, <1>4, <1>5, RemovalParts, CommandsSaved DEF SavedPool
<1> QED BY <1>3, <1>6

LEMMA PoolFailsRemoval ==
  ASSUME NEW who \in Names, NEW of \in Uses, Told(who, of), Removal, NEW k \in Key, PoolFails(k)
  PROVE  Removal'
<1>1. /\ todo[k] # NoPool /\ UNCHANGED <<wanted, cmd>> /\ pc \in {"setup", "main"}
      /\ todo[k] \in Pool /\ todo[k].name = who[k]
  BY TodoTypes DEF PoolFails
<1>2. CASE CanSave(k, todo[k])
  <2>1. /\ pools' = SavedPool(k, todo[k]) /\ UNCHANGED job /\ pc' \in {"main", "loop"}
        /\ todo' \in {pools', NoTodo}
    BY <1>1, <1>2 DEF PoolFails, Visit
  <2>2. todo[k].max >= 0 /\ (todo[k].max = 0 => StillEmpty(k))
    BY <1>1 DEF Removal, DaemonKnows, Visiting, Sized
  <2>3. Sound' /\ CommandsKnow'
    BY <1>1, <1>2, <2>1, <2>2, SavedRemoval
  <2>4. ~Cleaning'
    BY <2>1 DEF Cleaning
  <2>5. DaemonKnows'
    BY <2>1, <2>3, <2>4 DEF Removal, Sound, DaemonKnows, Sized, StillEmpty, NoTodo
  <2> QED BY <2>3, <2>5, RemovalParts DEF Removal, Sound
<1>3. CASE ~CanSave(k, todo[k])
  BY <1>1, <1>3, HaltRemoval DEF PoolFails
<1> QED BY <1>2, <1>3

LEMMA BlameRemoval ==
  ASSUME NEW who \in Names, NEW of \in Uses, Told(who, of), Removal, Blame
  PROVE  Removal'
<1> DEFINE k == job.row.pool
<1>1. pc = "blame" /\ UNCHANGED <<wanted, cmd>>
  BY DEF Blame
<1>2. k \in Key /\ job.pool \in Pool /\ job.pool # NoPool /\ job.pool.name = who[k]
  BY <1>1, JobFields, NullPool DEF OnRow, Told, JobTold
<1>3. CASE CanSave(k, job.pool)
  <2>1. /\ pools' = SavedPool(k, job.pool) /\ UNCHANGED todo /\ job'.pool = NoPool
        /\ pc' \in {"loop", "pick"}
    BY <1>3, NullJob DEF Blame, ToLoop, Done
  <2>2. job.pool.max >= 0 /\ (job.pool.max = 0 => StillEmpty(k))
    BY <1>1, <1>2 DEF Removal, DaemonKnows, Sized
  <2>3. Sound' /\ CommandsKnow'
    BY <1>1, <1>2, <1>3, <2>1, <2>2, SavedRemoval
  <2>4. ~Visiting' /\ ~Cleaning'
    BY <2>1 DEF Visiting, Cleaning
  <2>5. DaemonKnows'
    BY <2>1, <2>4 DEF Removal, DaemonKnows, Sized
  <2> QED BY <2>3, <2>5, RemovalParts DEF Removal, Sound
<1>4. CASE ~CanSave(k, job.pool)
  BY <1>1, <1>4, HaltRemoval DEF Blame
<1> QED BY <1>3, <1>4

LEMMA CleanRemoval ==
  ASSUME NEW who \in Names, NEW of \in Uses, Told(who, of), Removal, NEW k \in Key, CleanPool(k)
  PROVE  Removal'
<1>1. /\ UNCHANGED <<pools, wanted, cmd, job>> /\ pc = "clean" /\ Visiting
  BY DEF CleanPool, Visiting, tables
<1>2. CASE ~Deleteable(k, todo[k])
  <2>1. /\ UNCHANGED pc /\ \A j \in Key : todo'[j] \in {todo[j], NoPool}
    BY <1>2 DEF CleanPool, Visited, Told, TodoTold
  <2>2. Between'
    BY <1>1, <2>1 DEF Between
  <2> QED BY <1>1, <2>1, <2>2, RemovalParts, DaemonReads, Inside
<1>3. CASE Deleteable(k, todo[k])
  <2>1. todo[k].max = 0 /\ turn' = k /\ pc' = "clean drop" /\ UNCHANGED todo
    BY <1>3 DEF CleanPool, Deleteable
  <2>2. DaemonKnows'
    BY <1>1, <2>1 DEF Removal, DaemonKnows, Sized, StillEmpty
  <2> QED BY <1>1, <2>2, Inside
<1> QED BY <1>2, <1>3

LEMMA CleanDropRemoval ==
  ASSUME NEW who \in Names, NEW of \in Uses, Told(who, of), Removal, CleanDrop
  PROVE  Removal'
<1>1. /\ pc = "clean drop" /\ pc' = "clean save" /\ pools' = Without(turn)
      /\ UNCHANGED <<wanted, cmd, todo, turn, job>>
  BY DEF CleanDrop
<1>2. Cleaning /\ Visiting /\ turn \in Key /\ todo[turn] # NoPool
  BY <1>1 DEF Cleaning, Visiting, Told, QueueTold
<1>3. todo[turn].max = 0 /\ StillEmpty(turn)
  BY <1>2 DEF Removal, DaemonKnows
<1>4. Sound' /\ CommandsKnow'
  BY <1>1, <1>2, <1>3, WithoutRemoval
<1>5. \A j \in Key : pools'[j] \in {pools[j], NoPool}
  BY <1>1, <1>2 DEF Without, Told, PoolsTold
<1>6. DaemonKnows'
  BY <1>1, <1>2, <1>3, <1>5 DEF Removal, DaemonKnows, Sized, StillEmpty
<1> QED BY <1>4, <1>6, RemovalParts DEF Removal, Sound

\* The pool that setup inserts again is one that nobody has added.
LEMMA CleanSaveRemoval ==
  ASSUME NEW who \in Names, NEW of \in Uses, Told(who, of), Removal, CleanSave
  PROVE  Removal'
<1> DEFINE pool == todo[turn]
<1>1. pc = "clean save" /\ UNCHANGED <<wanted, cmd>>
  BY DEF CleanSave
<1>2. Cleaning /\ Visiting /\ turn \in Key /\ pool # NoPool
  BY <1>1 DEF Cleaning, Visiting, Told, QueueTold
<1>3. pool \in Pool /\ pool.max = 0 /\ pool.max >= 0
  BY <1>2, TodoTypes DEF Removal, DaemonKnows
<1>4. CASE Named(pool.name) = {}
  <2>1. PICK j \in FreshKey : pools' = [pools EXCEPT ![j] = pool]
    BY <1>4 DEF CleanSave, SavedPool
  <2>2. j \in Key /\ pools[j] = NoPool /\ \A q \in Operator : cmd[q].key # j
    BY FreshTypes DEF UnusedKey
  <2>3. pool.name \notin wanted
    BY <1>4 DEF Removal, AddedPoolStays
  <2>4. Sound'
    BY <1>1, <1>3, <1>4, <2>1, <2>2, <2>3, RemovalParts, SoundSaved
  <2>5. CommandsKnow'
    BY <1>1, <1>3, <1>4, <2>1, <2>2, RemovalParts, CommandsSaved
  <2>6. /\ pc' = "clean" /\ UNCHANGED job
        /\ \A k \in Key : todo'[k] \in {todo[k], NoPool}
    BY <1>4 DEF CleanSave, Visited, Told, TodoTold
  <2>7. \A k \in Key : pools'[k] = pools[k] \/ pools'[k] = pool
    BY <2>1 DEF Told, PoolsTold
  <2>8. ~Cleaning'
    BY <2>6 DEF Cleaning
  <2>9. DaemonKnows'
    BY <1>2, <1>3, <2>6, <2>7, <2>8 DEF Removal, DaemonKnows, Sized, StillEmpty
  <2> QED BY <2>4, <2>5, <2>9, RemovalParts DEF Removal, Sound
<1>5. CASE Named(pool.name) # {}
  BY <1>1, <1>5, HaltRemoval DEF CleanSave
<1> QED BY <1>4, <1>5

\* What pool_add does to the tables: nobody is at work on the pool.
LEMMA AddedRemoval ==
  ASSUME NEW who \in Names, NEW of \in Uses, Told(who, of), Removal, Patient,
         NEW p \in Name, NEW k \in Key, NEW pool \in Pool, pool.name = p, pool.max > 0,
         pools' = [pools EXCEPT ![k] = pool], \A j \in Named(p) : Free(j),
         IF Named(p) = {} THEN k \in FreshKey ELSE k \in Named(p),
         wanted' \subseteq wanted \cup {p}, UNCHANGED <<todo, turn, pc, job>>
  PROVE  /\ Sound' /\ DaemonKnows' /\ \A q \in Operator : cmd[q].key # k
         /\ UNCHANGED cmd => CommandsKnow'
<1>1. pool.max \in Int /\ pool.max >= 0 /\ pool.max # 0
  BY PoolFields, BoundAssumption DEF Size
<1>2. CASE Named(p) = {}
  <2>1. /\ pools[k] = NoPool /\ todo[k] = NoPool /\ job.row.pool # k
        /\ \A q \in Operator : cmd[q].key # k
    BY <1>1, <1>2, FreshTypes DEF UnusedKey
  <2>2. Sound'
    BY <1>1, <1>2, <2>1, RemovalParts, SoundSaved
  <2>3. DaemonKnows'
    BY <1>1, <2>1, RemovalParts, DaemonSaved
  <2>4. UNCHANGED cmd => CommandsKnow'
    BY <1>1, <1>2, <2>1, RemovalParts, CommandsSaved
  <2> QED BY <2>1, <2>2, <2>3, <2>4
<1>3. CASE Named(p) # {}
  <2>1. k \in Named(p) /\ pools[k].name = p /\ pools[k] # NoPool
    BY <1>1, <1>3, NullMax, KeyAssumption DEF Named
  <2>2. pools[k].max > 0 /\ pools[k].max # 0 /\ \A q \in Operator : cmd[q].key # k
    BY <1>1, <2>1, TodoTypes, PoolFields DEF Free, Size
  <2>3. \A j \in Named(p) : j \in Key /\ pools[j] # NoPool /\ pools[j].name = p
    BY NullMax, KeyAssumption DEF Named
  <2>4. Named(pool.name) \subseteq {k}
    BY <2>1, <2>3 DEF Removal, UniquePools
  <2>5. Sound'
    BY <1>1, <2>1, <2>4, RemovalParts, SoundSaved
  <2>6. DaemonKnows'
    BY <1>1, <2>1, <2>2, RemovalParts, DaemonSaved
  <2>7. UNCHANGED cmd => CommandsKnow'
    BY <1>1, <2>2, <2>4, RemovalParts, CommandsSaved
  <2> QED BY <2>2, <2>5, <2>6, <2>7
<1> QED BY <1>2, <1>3

LEMMA OfferedPool ==
  ASSUME NEW p \in Name, NEW n \in 1..MaxSize
  PROVE  /\ PoolOf(p, n, TRUE) \in Pool /\ PoolOf(p, n, TRUE).name = p /\ PoolOf(p, n, TRUE).max > 0
         /\ PoolOf(p, n, FALSE) \in Pool /\ PoolOf(p, n, FALSE).name = p /\ PoolOf(p, n, FALSE).max > 0
<1>1. n > 0
  BY BoundAssumption
<1> QED BY <1>1, PoolOfType

LEMMA OnlyAddedRemoval ==
  ASSUME NEW who \in Names, NEW of \in Uses, Told(who, of), Removal, Patient,
         NEW o \in Operator, NEW p \in Name, NEW n \in 1..MaxSize,
         AddUnreachable(o, p, n) \/ AddUnknown(o, p, n)
  PROVE  Removal'
<1>1. PICK k \in Key, pool \in {PoolOf(p, n, TRUE), PoolOf(p, n, FALSE)} :
        /\ pools' = [pools EXCEPT ![k] = pool] /\ \A j \in Named(p) : Free(j)
        /\ IF Named(p) = {} THEN k \in FreshKey ELSE k \in Named(p)
  BY DEF AddUnreachable, AddUnknown, Added, SavedPool
<1>2. pool \in Pool /\ pool.name = p /\ pool.max > 0
  BY OfferedPool
<1>3. wanted' \subseteq wanted \cup {p} /\ UNCHANGED <<todo, turn, pc, job, cmd>>
  BY DEF AddUnreachable, AddUnknown, daemon
<1>4. Sound' /\ DaemonKnows' /\ CommandsKnow'
  BY <1>1, <1>2, <1>3, AddedRemoval
<1> QED BY <1>4, RemovalParts DEF Removal, Sound

LEMMA AddRemoval ==
  ASSUME NEW who \in Names, NEW of \in Uses, Told(who, of), Removal, Patient,
         NEW o \in Operator, NEW p \in Name, NEW n \in 1..MaxSize, Add(o, p, n)
  PROVE  Removal'
<1>1. PICK k \in Key : Added(o, p, n, k, TRUE) /\ Begin(o, "add", k, NoPool, NoId, NoRow)
  BY DEF Add
<1>2. wanted' = wanted \cup {p} /\ UNCHANGED <<todo, turn, pc, job>>
  BY DEF Add, daemon
<1>3. Sound' /\ DaemonKnows' /\ \A q \in Operator : cmd[q].key # k
  <2>1. /\ pools' = [pools EXCEPT ![k] = PoolOf(p, n, TRUE)] /\ \A j \in Named(p) : Free(j)
        /\ IF Named(p) = {} THEN k \in FreshKey ELSE k \in Named(p)
    BY <1>1 DEF Added, SavedPool
  <2> QED BY <1>2, <2>1, OfferedPool, AddedRemoval
<1>4. /\ cmd'[o].op = "add" /\ cmd'[o].key = k /\ cmd'[o].pool = NoPool
      /\ \A q \in Operator : q # o => cmd'[q] = cmd[q]
  BY <1>1 DEF Begin, Told, CmdsTold
<1>5. pools' = [pools EXCEPT ![k] = PoolOf(p, n, TRUE)]
  BY <1>1 DEF Added, SavedPool
<1>6. \A j \in Key : j # k => pools'[j] = pools[j]
  BY <1>5 DEF Told, PoolsTold
<1>7. \A q \in Operator : cmd[q].op # "none" => cmd[q].key \in Key
  BY DEF Told, CmdsTold, CmdTold
<1>8. \A q \in Operator : cmd[q].op # "none" => pools'[cmd[q].key] = pools[cmd[q].key]
  BY <1>3, <1>6, <1>7
<1>9. \A q \in Operator : cmd[q].op # "none" /\ pools[cmd[q].key] # NoPool
                          => pools[cmd[q].key].name # p
  BY <1>1, <1>7 DEF Added, Named, Free
<1>10. \A q \in Operator : cmd[q].pool # NoPool => cmd[q].op # "none"
  BY NullMax DEF Told, CmdsTold, CmdTold
<1>11. \A q, r \in Operator : cmd'[q].key = cmd'[r].key /\ cmd'[q] # NoCmd => q = r
  BY <1>3, <1>4 DEF Removal, CommandsKnow
<1>12. CommandsKnow'
  BY <1>2, <1>4, <1>8, <1>9, <1>10, <1>11 DEF Removal, CommandsKnow
<1> QED BY <1>3, <1>12, RemovalParts DEF Removal, Sound

\* pool_remove and resource incr save a copy of a pool that is still there and
\* that has not been removed.
LEMMA SaveRemoval ==
  ASSUME NEW who \in Names, NEW of \in Uses, Told(who, of), Removal,
         NEW o \in Operator, RemoveSave(o) \/ IncrSave(o)
  PROVE  Removal'
<1> DEFINE k == cmd[o].key
<1>1. cmd[o].op \in {"remove", "purge", "incr", "decr"} /\ cmd[o].op # "none"
  BY DEF RemoveSave, IncrSave
<1>2. cmd[o].pool # NoPool
  BY <1>1, CmdFields DEF RemoveSave, IncrSave, CmdTold
<1>3. /\ k \in Key /\ cmd[o].pool \in Pool /\ cmd[o].pool.name = who[k]
      /\ cmd[o].pool.max \in Size /\ cmd[o].pool.max > 0
      /\ pools[k] # NoPool /\ pools[k].max > 0 /\ pools[k].name = who[k]
  BY <1>1, <1>2, CmdFields, PoolFields, TodoTypes DEF CmdTold, Cmd, Removal, CommandsKnow
<1>4. CanSave(k, cmd[o].pool)
  BY <1>3 DEF CanSave
<1> DEFINE Saved(n) ==
        /\ pools' = [pools EXCEPT ![k] = [cmd[o].pool EXCEPT !.max = n]] /\ n >= 0
        /\ wanted' \in {wanted, wanted \ {who[k]}} /\ (n = 0 => wanted' = wanted \ {who[k]})
        /\ cmd'[o].pool = NoPool /\ cmd'[o].key \in {k, NoKey}
        /\ (cmd'[o].op = "purge" => n = 0) /\ UNCHANGED <<todo, turn, pc, job>>
        /\ (cmd'[o].key = NoKey => cmd'[o] = NoCmd)
        /\ \A q \in Operator : q # o => cmd'[q] = cmd[q]
<1>5. PICK n \in Size : Saved(n)
  <2>1. CASE RemoveSave(o)
    <3>1. /\ pools' = [pools EXCEPT ![k] = [cmd[o].pool EXCEPT !.max = 0]]
          /\ wanted' = wanted \ {cmd[o].pool.name} /\ UNCHANGED <<todo, turn, pc, job>>
          /\ \E S : cmd' = [cmd EXCEPT ![o] = WithRows(cmd[o], S)]
      BY <1>4, <2>1 DEF RemoveSave, SavedPool, daemon
    <3>2. cmd'[o].pool = NoPool /\ cmd'[o].key = k /\ \A q \in Operator : q # o => cmd'[q] = cmd[q]
      BY <3>1 DEF WithRows, Told, CmdsTold
    <3>3. 0 \in Size /\ 0 >= 0 /\ k # NoKey
      BY <1>3, KeyAssumption, BoundAssumption DEF Size
    <3>4. Saved(0)
      BY <1>3, <3>1, <3>2, <3>3
    <3> QED BY <3>3, <3>4
  <2>2. CASE IncrSave(o)
    <3> DEFINE m == Resized(cmd[o].pool, cmd[o].op)
    <3>1. /\ pools' = [pools EXCEPT ![k] = [cmd[o].pool EXCEPT !.max = m]]
          /\ wanted' = (IF m > 0 THEN wanted ELSE wanted \ {cmd[o].pool.name})
          /\ UNCHANGED <<todo, turn, pc, job>> /\ cmd' = [cmd EXCEPT ![o] = NoCmd]
      BY <1>4, <2>2 DEF IncrSave, SavedPool, daemon, Finished
    <3>2. m \in Size /\ m >= 0
      <4>1. m \in Size
        BY <2>2, CmdFields DEF IncrSave, CmdTold
      <4>2. cmd[o].pool.max \in Int
        BY <1>3 DEF Size
      <4> QED BY <1>3, <4>1, <4>2 DEF Resized
    <3>3. cmd'[o] = NoCmd /\ \A q \in Operator : q # o => cmd'[q] = cmd[q]
      BY <3>1 DEF Told, CmdsTold
    <3>4. NoCmd.op # "purge"
      BY DEF NoCmd
    <3> HIDE DEF m
    <3>5. (m = 0 => wanted' = wanted \ {who[k]}) /\ wanted' \in {wanted, wanted \ {who[k]}}
      BY <1>3, <3>1, <3>2
    <3>6. Saved(m)
      BY <3>1, <3>2, <3>3, <3>4, <3>5, NullMax
    <3> QED BY <3>2, <3>6
  <2> QED BY <2>1, <2>2
<1> DEFINE pool == [cmd[o].pool EXCEPT !.max = n]
<1>6. pool \in Pool /\ pool.name = who[k] /\ pool.max = n
  BY <1>3, PoolMaxType
<1> HIDE DEF pool
<1>7. pools' = [pools EXCEPT ![k] = pool]
  BY <1>5 DEF pool
<1>8. Named(pool.name) \subseteq {k}
  BY <1>3, <1>4, <1>6, RemovalParts, SavedName
<1>9. Sound'
  BY <1>3, <1>5, <1>6, <1>7, <1>8, RemovalParts, SoundSaved
<1>10. DaemonKnows'
  <2>1. pools[k].max # 0
    BY <1>3, TodoTypes, PoolFields DEF Size
  <2> QED BY <1>3, <1>5, <1>7, <2>1, RemovalParts, DaemonSaved
<1>11. CommandsKnow'
  <2>1. \A j \in Key : j # k => pools'[j] = pools[j]
    BY <1>7 DEF Told, PoolsTold
  <2>2. pools'[k] = pool
    BY <1>3, <1>7 DEF Told, PoolsTold
  <2>3. \A q \in Operator : cmd[q].op # "none" => cmd[q].key \in Key
    BY DEF Told, CmdsTold, CmdTold
  <2>4. cmd[o] # NoCmd
    BY <1>1 DEF NoCmd
  <2>5. \A q \in Operator : q # o => cmd[q].key # k
    BY <2>4 DEF Removal, CommandsKnow
  <2>6. \A q \in Operator : cmd[q].pool # NoPool => cmd[q].op # "none"
    BY NullMax DEF Told, CmdsTold, CmdTold
  <2>7. \A q, r \in Operator : cmd'[q].key = cmd'[r].key /\ cmd'[q] # NoCmd => q = r
    <3>1. \A q \in Operator : q # o /\ cmd[q].key = NoKey => cmd[q] = NoCmd
      BY <2>3, KeyAssumption DEF Told, CmdsTold, CmdTold
    <3> QED BY <1>5, <2>5, <3>1 DEF Removal, CommandsKnow
  <2>8. ASSUME NEW q \in Operator, cmd'[q].pool # NoPool
        PROVE  /\ cmd'[q].pool.max > 0 /\ pools'[cmd'[q].key] # NoPool
               /\ pools'[cmd'[q].key].max > 0
    <3>1. q # o /\ cmd'[q] = cmd[q] /\ cmd[q].key # k /\ cmd[q].key \in Key
      BY <1>5, <2>3, <2>5, <2>6, <2>8
    <3> QED BY <2>1, <2>8, <3>1 DEF Removal, CommandsKnow
  <2>9. ASSUME NEW q \in Operator, cmd'[q].op = "purge", cmd'[q].pool = NoPool,
               pools'[cmd'[q].key] # NoPool
        PROVE  pools'[cmd'[q].key].name \notin wanted'
    <3>1. CASE q = o
      <4>1. cmd'[q].key = k
        BY <1>5, <2>9, <3>1 DEF NoCmd
      <4> QED BY <1>5, <1>6, <2>2, <2>9, <3>1, <4>1
    <3>2. CASE q # o
      <4>1. cmd'[q] = cmd[q] /\ cmd[q].key # k /\ cmd[q].key \in Key
        BY <1>5, <2>3, <2>5, <2>9, <3>2
      <4> QED BY <1>5, <2>1, <2>9, <4>1 DEF Removal, CommandsKnow
    <3> QED BY <3>1, <3>2
  <2> QED BY <2>7, <2>8, <2>9 DEF CommandsKnow
<1> QED BY <1>9, <1>10, <1>11, RemovalParts DEF Removal, Sound

LEMMA RemoveEndRemoval ==
  ASSUME NEW who \in Names, NEW of \in Uses, Told(who, of), Removal,
         NEW o \in Operator, RemoveEnd(o)
  PROVE  Removal'
<1> DEFINE k == cmd[o].key
<1>1. /\ cmd[o].op \in {"remove", "purge"} /\ cmd[o].pool = NoPool
      /\ UNCHANGED <<wanted, todo, turn, pc, job>> /\ cmd' = [cmd EXCEPT ![o] = NoCmd]
  BY DEF RemoveEnd, Finished, daemon
<1>2. k \in Key /\ cmd[o] # NoCmd
  BY <1>1, CmdFields DEF NoCmd
<1>3. CASE UNCHANGED pools
  BY <1>1, <1>3, EndRemoval
<1>4. CASE cmd[o].op = "purge" /\ pools' = Without(k)
  <2>1. pools[k] # NoPool => pools[k].name \notin wanted
    BY <1>1, <1>4 DEF Removal, CommandsKnow
  <2>2. Sound'
    BY <1>1, <1>2, <1>4, <2>1, RemovalParts, SoundWithout
  <2>3. pools' = [pools EXCEPT ![k] = NoPool]
    BY <1>4 DEF Without
  <2>4. DaemonKnows'
    BY <1>1, <1>2, <2>3, RemovalParts, DaemonSaved
  <2>5. pools'[k] = NoPool /\ \A j \in Key : j # k => pools'[j] = pools[j]
    BY <1>2, <2>3 DEF Told, PoolsTold
  <2>6. cmd'[o] = NoCmd /\ \A q \in Operator : q # o => cmd'[q] = cmd[q] /\ cmd[q].key # k
    BY <1>1, <1>2 DEF Told, CmdsTold, Removal, CommandsKnow
  <2>7. \A q \in Operator : cmd[q] # NoCmd => cmd[q].key \in Key
    BY DEF Told, CmdsTold, CmdTold
  <2>8. \A q \in Operator : cmd[q].pool # NoPool \/ cmd[q].op = "purge" => cmd[q] # NoCmd
    BY NullMax DEF NoCmd
  <2>9. \A q, r \in Operator : cmd'[q].key = cmd'[r].key /\ cmd'[q] # NoCmd => q = r
    BY <2>6, <2>7, NullMax, KeyAssumption DEF Removal, CommandsKnow
  <2>10. \A q \in Operator : cmd'[q].pool # NoPool \/ cmd'[q].op = "purge"
                              => cmd'[q] = cmd[q] /\ pools'[cmd[q].key] = pools[cmd[q].key]
    BY <2>5, <2>6, <2>7, <2>8, NullMax DEF NoCmd
  <2>11. CommandsKnow /\ UNCHANGED wanted
    BY <1>1 DEF Removal
  <2>12. CommandsKnow'
    BY <2>9, <2>10, <2>11 DEF CommandsKnow
  <2> QED BY <2>2, <2>4, <2>12, RemovalParts DEF Removal, Sound
<1> QED BY <1>1, <1>3, <1>4 DEF RemoveEnd, tables

LEMMA RowSaveRemoval ==
  ASSUME NEW who \in Names, NEW of \in Uses, Told(who, of), Removal, NEW o \in Operator, RowSave(o)
  PROVE  Removal'
BY EndRemoval DEF RowSave, Finished, daemon

LEMMA RemovalKept == ASSUME Patient, Bookkeeping, Removal, [Next]_vars PROVE Removal'
<1>1. PICK who \in Names, of \in Uses : Told(who, of)
  BY DEF Bookkeeping
<1>2. CASE Startup \/ Handle \/ Mishap
  <2>1. ASSUME NEW k \in Key, CleanPool(k) \/ SetupPool(k) \/ PoolFails(k)
        PROVE  Removal'
    BY <1>1, <2>1, CleanRemoval, SetupRemoval, PoolFailsRemoval
  <2>2. CASE CleanDrop \/ CleanSave \/ Blame \/ Drop
    BY <1>1, <2>2, CleanDropRemoval, CleanSaveRemoval, BlameRemoval, DropRemoval
  <2>3. CASE DestroyVm \/ DestroyRow \/ Unreachable \/ Check
    BY <1>1, <2>3, HandlerRemoval
  <2>4. ASSUME NEW i \in Id, DropDangling(i)
        PROVE  Removal'
    BY <1>1, <2>4, RowsRemoval
  <2> QED BY <1>1, <1>2, <2>1, <2>2, <2>3, <2>4, QuietRemoval DEF Startup, Handle, Mishap
<1>3. ASSUME NEW x \in Process, Adapt(x) \/ AdaptFails(x)
      PROVE  Removal'
  BY <1>1, <1>3, AdaptRemoval
<1>4. ASSUME NEW i \in Id, Acquire(i) \/ Expire(i)
      PROVE  Removal'
  BY <1>1, <1>4, RowsRemoval
<1>5. ASSUME NEW o \in Operator, Command(o)
      PROVE  Removal'
  <2>1. ASSUME NEW p \in Name, NEW n \in 1..MaxSize,
               Add(o, p, n) \/ AddUnreachable(o, p, n) \/ AddUnknown(o, p, n)
        PROVE  Removal'
    BY <1>1, <2>1, AddRemoval, OnlyAddedRemoval
  <2>2. ASSUME NEW k \in Key, NEW op, RemoveRead(o, k, op) \/ IncrRead(o, k, op)
        PROVE  Removal'
    BY <1>1, <2>2, ReadRemoval
  <2>3. ASSUME NEW i \in Id, NEW op, RowRead(o, i, op)
        PROVE  Removal'
    BY <1>1, <2>3, ReadRemoval
  <2> QED BY <1>5, <2>1, <2>2, <2>3 DEF Command
<1>6. ASSUME NEW o \in Operator, Proceed(o), ~Adapt(o)
      PROVE  Removal'
  BY <1>1, <1>6, SaveRemoval, RemoveEndRemoval, RowSaveRemoval, TodoRemoval DEF Proceed
<1>7. CASE UNCHANGED vars
  BY <1>7, Outside DEF vars, daemon
<1> QED BY <1>2, <1>3, <1>4, <1>5, <1>6, <1>7 DEF Next, Process

LEMMA RemovalInit == ASSUME Init PROVE Removal
<1>1. /\ \A k \in Key : pools[k] = NoPool /\ todo[k] = NoPool
      /\ \A o \in Operator : cmd[o] = NoCmd
      /\ wanted = {} /\ pc = "down" /\ job.pool = NoPool
  BY NullJob DEF Init, NoTodo
<1> QED BY <1>1, NullMax DEF Removal, Visiting, Cleaning, UniquePools, AddedPoolStays, DaemonKnows, CommandsKnow, Sized,
           Doomed, StillEmpty, NoCmd

\* The inductive invariant of removal: a pool of which the daemon has read that
\* it is empty has not grown since, a pool has one command at a time, and no
\* purge is under way for a pool that is wanted.
THEOREM RemovalInvariant == ASSUME Patient PROVE Spec => []Removal
<1>1. Bookkeeping /\ Removal /\ [Next]_vars => Removal'
  BY RemovalKept
<1> QED BY <1>1, RemovalInit, BookkeepingInvariant, PTL DEF Spec

\* A pool that was added and not removed since stays, whatever older copies of
\* it the daemon and other commands save or delete, when nobody adds or enlarges
\* a pool that is being removed.
THEOREM AddedPoolsStay == ASSUME Patient PROVE Spec => []AddedPoolStays
<1>1. Removal => AddedPoolStays
  BY DEF Removal
<1> QED BY <1>1, RemovalInvariant, PTL

==============================================================================
