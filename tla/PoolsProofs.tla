----------------------------- MODULE PoolsProofs -----------------------------
(***************************************************************************)
(* For any pools, rows, operators, commands and faults: whoever has a copy *)
(* of a row or a pool, however old, has it of the one the tables have under *)
(* its key.  From this follows that every variable is of its type.         *)
(***************************************************************************)
EXTENDS PoolsInvariant, TLAPS, FiniteSetTheorems

-----------------------------------------------------------------------------
(* Values.                                                                 *)

LEMMA NullPool == NoPool \notin Pool
BY KeyAssumption DEF NoPool, Pool

LEMMA NullRow == NoRow \notin Row /\ NoRow.pool = NoKey
BY KeyAssumption DEF NoRow, Row

LEMMA Nulls == NoWalk \in Walk /\ NoCmd \in Cmd /\ NoJob \in Job
BY BoundAssumption DEF NoWalk, Walk, NoCmd, Cmd, NoJob, JobOf, Job, Size

LEMMA RowForType ==
  ASSUME NEW k \in Key, NEW m \in Machine,
         NEW s \in {"PENDING", "READY", "RESERVED"},
         NEW a \in {"clone", "attr", "destroy", "none"}
  PROVE  /\ RowFor(k, m, s, a) \in Row /\ RowFor(k, m, s, a).pool = k
         /\ RowFor(k, m, s, a).name = m
BY DEF RowFor, Row

LEMMA RowFields == ASSUME NEW r \in Row PROVE r.pool \in Key /\ r.name \in Machine
BY DEF Row

LEMMA PoolFields == ASSUME NEW p \in Pool PROVE p.name \in Name /\ p.max \in Size
BY DEF Pool

LEMMA PoolOfType ==
  ASSUME NEW p \in Name, NEW n \in 1..MaxSize, NEW b \in BOOLEAN
  PROVE  /\ PoolOf(p, n, b) \in Pool /\ PoolOf(p, n, b).name = p /\ PoolOf(p, n, b).max = n
         /\ PoolOf(p, n, b).known = b
BY BoundAssumption DEF PoolOf, Pool, Size

LEMMA PoolMaxType ==
  ASSUME NEW p \in Pool, NEW n \in Size
  PROVE  [p EXCEPT !.max = n] \in Pool /\ [p EXCEPT !.max = n].name = p.name
         /\ [p EXCEPT !.max = n].max = n
BY DEF Pool

LEMMA MachinesType == ASSUME NEW p \in Name PROVE MachinesOf(p) \subseteq Machine
BY DEF MachinesOf, Machine

LEMMA MachineInPool ==
  ASSUME NEW p \in Name, NEW n \in 0..MaxSize, NEW m \in Size, n < m
  PROVE  MachineOf(p, n) \in MachinesOf(p) /\ n + 1 \in 0..MaxSize
BY BoundAssumption DEF MachinesOf, Slot, Size

LEMMA FreshTypes == /\ FreshKey \subseteq UnusedKey /\ UnusedKey \subseteq Key
                    /\ FreshId \subseteq UnusedId /\ UnusedId \subseteq Id
BY DEF FreshKey, FreshId, UnusedKey, UnusedId, AnyOf

LEMMA RowsOfCount == ASSUME NEW k PROVE Cardinality(RowsOf(k)) \in Nat
BY IdAssumption, FS_Subset, FS_CardinalityType DEF RowsOf

LEMMA IdsDiffer == \A i \in Id : i # NoId
BY IdAssumption

-----------------------------------------------------------------------------
(* What moves when one walk or one command moves.                          *)

LEMMA SetWalk ==
  ASSUME NEW who, NEW of, WalksTold(who, of),
         NEW x \in Process, NEW w \in Walk, WalkTold(w, who, of),
         walk' = [walk EXCEPT ![x] = w]
  PROVE  /\ walk' \in [Process -> Walk] /\ walk'[x] = w
         /\ \A y \in Process : WalkTold(walk'[y], who, of)
         /\ x # Daemon => walk'[Daemon] = walk[Daemon]
BY DEF WalksTold, Process

LEMMA SetCmd ==
  ASSUME NEW who, NEW of, CmdsTold(who, of),
         NEW o \in Operator, NEW c \in Cmd, CmdTold(c, who, of),
         cmd' = [cmd EXCEPT ![o] = c]
  PROVE  CmdsTold(who, of)'
<1>1. \A q \in Operator : cmd'[q] = IF q = o THEN c ELSE cmd[q]
  BY DEF CmdsTold
<1>2. cmd' \in [Operator -> Cmd]
  BY DEF CmdsTold
<1>3. \A q \in Operator : CmdTold(cmd'[q], who, of)
  BY <1>1 DEF CmdsTold
<1> QED BY <1>2, <1>3 DEF CmdsTold, CmdTold, Known, IsRow, IsCopy

LEMMA NullWalk == ASSUME NEW who, NEW of PROVE WalkTold(NoWalk, who, of)
BY DEF WalkTold

LEMMA NullCmd == ASSUME NEW who, NEW of PROVE CmdTold(NoCmd, who, of)
BY Nulls DEF CmdTold, NoCmd, NoPool, NoRow

LEMMA WalkStarts ==
  ASSUME NEW who, NEW of, NEW k \in Key, NEW pool \in Pool, pool.name = who[k], NEW w,
         w = [mode |-> "count", key |-> k, name |-> pool.name, max |-> pool.max, at |-> 0,
              missing |-> 0, id |-> NoId, rest |-> {}]
  PROVE  w \in Walk /\ WalkTold(w, who, of) /\ w # NoWalk
<1>1. pool.name \in Name /\ pool.max \in Size /\ 0 \in 0..MaxSize
  BY BoundAssumption DEF Pool
<1>2. w \in Walk
  BY <1>1 DEF Walk
<1>3. w.mode = "count" /\ w.id = NoId /\ w.key = k /\ w.name = pool.name /\ w.rest = {}
  OBVIOUS
<1>4. w # NoWalk
  BY <1>3 DEF NoWalk
<1> QED BY <1>1, <1>2, <1>3, <1>4 DEF WalkTold

LEMMA CmdBegins ==
  ASSUME NEW who, NEW of, NEW op \in Commands, NEW k \in Key,
         NEW pool \in Pool \cup {NoPool}, NEW i \in Id \cup {NoId}, NEW row \in Row \cup {NoRow},
         NEW c, c = [op |-> op, key |-> k, pool |-> pool, id |-> i, row |-> row, todo |-> {}],
         pool # NoPool => op \in {"incr", "decr", "remove", "purge"} /\ pool.name = who[k],
         op \in {"incr", "decr"} => pool # NoPool /\ Resized(pool, op) \in Size,
         op \in {"release", "reserve"} => i # NoId,
         i # NoId => row.pool = k /\ Known(row, who) /\ IsRow(i, row, of),
         i = NoId => row = NoRow
  PROVE  c \in Cmd /\ CmdTold(c, who, of)
<1>1. c \in Cmd
  BY DEF Cmd
<1>2. /\ c.op = op /\ c.key = k /\ c.pool = pool /\ c.id = i /\ c.row = row /\ c.todo = {}
      /\ c.op # "none"
  BY CommandAssumption
<1> QED BY <1>1, <1>2 DEF CmdTold

-----------------------------------------------------------------------------
(* What stays when its variables stay, and what follows from one change.   *)

LEMMA WalksNext ==
  ASSUME NEW who, NEW of, walk' \in [Process -> Walk],
         \A x \in Process : WalkTold(walk'[x], who, of),
         walk'[Daemon] # NoWalk => pc' \in {"main", "adapt"}
  PROVE  WalksTold(who, of)'
BY DEF WalksTold, WalkTold, IsCopy

LEMMA Frames ==
  ASSUME NEW who, NEW of, Told(who, of)
  PROVE  /\ pools' = pools => PoolsTold(who)'
         /\ rows' = rows => RowsTold(who, of)'
         /\ todo' = todo => TodoTold(who)'
         /\ UNCHANGED <<turn, batch, todo, pc>> => QueueTold(who, of)'
         /\ UNCHANGED <<turn, batch>> /\ ~Cleaning /\ ~Cleaning' => QueueTold(who, of)'
         /\ job' = job /\ pc' = pc => JobTold(who, of)'
         /\ walk' = walk /\ pc' = pc => WalksTold(who, of)'
         /\ cmd' = cmd => CmdsTold(who, of)'
         /\ UNCHANGED <<vm, abandoned, wanted, given, faults>> => HostOK'
<1>1. pools' = pools => PoolsTold(who)'
  BY DEF Told, PoolsTold
<1>2. rows' = rows => RowsTold(who, of)'
  BY DEF Told, RowsTold, Known, IsRow
<1>3. todo' = todo => TodoTold(who)'
  BY DEF Told, TodoTold
<1>4. job' = job /\ pc' = pc => JobTold(who, of)'
  BY DEF Told, JobTold, OnRow, Cleaning, Known, IsRow
<1>5. walk' = walk /\ pc' = pc => WalksTold(who, of)'
  BY WalksNext DEF Told, WalksTold
<1>6. cmd' = cmd => CmdsTold(who, of)'
  BY DEF Told, CmdsTold, CmdTold, Known, IsRow, IsCopy
<1>7. UNCHANGED <<vm, abandoned, wanted, given, faults>> => HostOK'
  BY DEF Told, HostOK
<1>8. UNCHANGED <<turn, batch, todo, pc>> => QueueTold(who, of)'
  BY DEF Told, QueueTold, Cleaning, Known, IsRow
<1>9. UNCHANGED <<turn, batch>> /\ ~Cleaning /\ ~Cleaning' => QueueTold(who, of)'
  BY DEF Told, QueueTold, Known, IsRow
<1> QED BY <1>1, <1>2, <1>3, <1>4, <1>5, <1>6, <1>7, <1>8, <1>9

LEMMA SetPool ==
  ASSUME NEW who, PoolsTold(who), NEW k \in Key, NEW pool \in Pool \cup {NoPool},
         pool # NoPool => pool.name = who[k], pools' = [pools EXCEPT ![k] = pool]
  PROVE  PoolsTold(who)'
BY DEF PoolsTold

LEMMA SetRow ==
  ASSUME NEW who, NEW of, RowsTold(who, of), NEW i \in Id, NEW r,
         r = NoRow \/ (Known(r, who) /\ IsRow(i, r, of)), rows' = [rows EXCEPT ![i] = r]
  PROVE  RowsTold(who, of)'
BY DEF RowsTold, Known, IsRow

LEMMA SomeRows ==
  ASSUME NEW who, NEW of, RowsTold(who, of), NEW new, rows' = new,
         new \in [Id -> Row \cup {NoRow}],
         \A i \in Id : \/ new[i] \in {NoRow, rows[i]}
                       \/ Known(new[i], who) /\ IsRow(i, new[i], of)
  PROVE  RowsTold(who, of)'
BY DEF RowsTold, Known, IsRow

LEMMA CascadeTold ==
  ASSUME NEW who, NEW of, RowsTold(who, of), NEW k, rows' = Cascaded(k)
  PROVE  RowsTold(who, of)'
BY DEF RowsTold, Known, IsRow, Cascaded

LEMMA WithoutTold ==
  ASSUME NEW who, PoolsTold(who), NEW k \in Key, pools' = Without(k)
  PROVE  PoolsTold(who)'
BY SetPool DEF Without

\* A row that was known under another status.
LEMMA RowForTold ==
  ASSUME NEW who \in Names, NEW of, NEW k \in Key, NEW m \in MachinesOf(who[k]), NEW i \in Id,
         <<k, m>> = of[i],
         NEW s \in {"PENDING", "READY", "RESERVED"}, NEW a \in {"clone", "attr", "destroy", "none"}
  PROVE  Known(RowFor(k, m, s, a), who) /\ IsRow(i, RowFor(k, m, s, a), of)
BY RowForType, MachinesType DEF Known, IsRow, Names

LEMMA FaultTold ==
  ASSUME HostOK, NEW kind, Fault(kind), UNCHANGED <<vm, abandoned, wanted, given>>
  PROVE  HostOK'
BY BoundAssumption DEF HostOK, Fault

LEMMA EndWalkTold ==
  ASSUME NEW who, NEW of, WalksTold(who, of), NEW x \in Process, EndWalk(x)
  PROVE  /\ walk' \in [Process -> Walk] /\ walk'[x] = NoWalk
         /\ \A y \in Process : WalkTold(walk'[y], who, of)
         /\ x # Daemon => walk'[Daemon] = walk[Daemon]
BY SetWalk, NullWalk, Nulls DEF EndWalk

LEMMA HaltTold ==
  ASSUME NEW who, NEW of, WalksTold(who, of), Halt
  PROVE  TodoTold(who)' /\ QueueTold(who, of)' /\ JobTold(who, of)' /\ WalksTold(who, of)'
<1>1. Daemon \in Process /\ EndWalk(Daemon)
  BY DEF Process, Halt
<1>2. TodoTold(who)'
  BY DEF Halt, TodoTold, NoTodo
<1>3. JobTold(who, of)'
  BY Nulls DEF Halt, JobTold, OnRow, Cleaning, NoJob, JobOf
<1>4. WalksTold(who, of)'
  BY <1>1, EndWalkTold, WalksNext
<1>5. QueueTold(who, of)'
  BY DEF Halt, QueueTold, Cleaning, NoBatch
<1> QED BY <1>2, <1>3, <1>4, <1>5

\* The daemon has handled its row.
LEMMA DoneTold ==
  ASSUME NEW who, NEW of, Told(who, of), OnRow, Done, job' = NoJob, UNCHANGED <<todo, turn, batch>>
  PROVE  TodoTold(who)' /\ QueueTold(who, of)' /\ JobTold(who, of)'
<1>1. pc' \in {"loop", "pick"} /\ ~Cleaning /\ ~Cleaning'
  BY DEF Done, Cleaning, OnRow
<1>2. TodoTold(who)' /\ QueueTold(who, of)'
  BY <1>1, Frames
<1>3. JobTold(who, of)'
  BY <1>1, Nulls DEF JobTold, OnRow, NoJob, JobOf
<1> QED BY <1>2, <1>3

LEMMA ToLoopTold ==
  ASSUME NEW who, NEW of, Told(who, of), OnRow, ToLoop, walk[Daemon] = NoWalk
  PROVE  TodoTold(who)' /\ QueueTold(who, of)' /\ JobTold(who, of)' /\ WalksTold(who, of)'
<1>1. TodoTold(who)' /\ QueueTold(who, of)' /\ JobTold(who, of)'
  BY DoneTold DEF ToLoop
<1>2. WalksTold(who, of)'
  BY WalksNext DEF ToLoop, WalksTold, Told
<1> QED BY <1>1, <1>2

LEMMA NoCmdTold ==
  ASSUME NEW who, NEW of, CmdsTold(who, of), NEW o \in Operator, cmd' = [cmd EXCEPT ![o] = NoCmd]
  PROVE  CmdsTold(who, of)'
BY SetCmd, NullCmd, Nulls

LEMMA ReturnTold ==
  ASSUME NEW who, NEW of, Told(who, of), NEW x \in Process, walk[x] # NoWalk, Return(x)
  PROVE  /\ TodoTold(who)' /\ QueueTold(who, of)' /\ JobTold(who, of)' /\ WalksTold(who, of)'
         /\ CmdsTold(who, of)'
<1>1. /\ walk' \in [Process -> Walk] /\ walk'[x] = NoWalk
      /\ \A y \in Process : WalkTold(walk'[y], who, of)
      /\ x # Daemon => walk'[Daemon] = walk[Daemon]
  BY EndWalkTold DEF Return, Told
<1>2. WalksTold(who, of)'
  BY <1>1, WalksNext DEF Return, WalksTold, Told, daemon
<1>3. CASE x = Daemon
  <2>1. pc \in {"main", "adapt"}
    BY <1>3 DEF Told, WalksTold
  <2>2. job' = NoJob /\ UNCHANGED <<todo, turn, batch, cmd>>
    BY <1>3 DEF Return
  <2>3. CASE job.caller = "main"
    <3>1. pc' = "main"
      BY <1>3, <2>3 DEF Return
    <3>2. JobTold(who, of)'
      BY <2>2, <3>1, Nulls DEF JobTold, OnRow, NoJob, JobOf
    <3>3. ~Cleaning /\ ~Cleaning'
      BY <2>1, <3>1 DEF Cleaning
    <3> QED BY <1>2, <2>2, <3>2, <3>3, Frames
  <2>4. CASE job.caller # "main"
    <3>1. OnRow
      BY <2>4 DEF Told, JobTold, NoJob, JobOf
    <3>2. Done
      BY <1>3, <2>4 DEF Return
    <3> QED BY <1>2, <2>2, <3>1, <3>2, DoneTold, Frames
  <2> QED BY <2>3, <2>4
<1>4. CASE x # Daemon
  <2>1. x \in Operator /\ cmd' = [cmd EXCEPT ![x] = NoCmd] /\ UNCHANGED daemon
    BY <1>4 DEF Return, Process
  <2> QED BY <2>1, <1>2, Frames, NoCmdTold DEF Told, daemon
<1> QED BY <1>3, <1>4

LEMMA RaiseTold ==
  ASSUME NEW who, NEW of, Told(who, of), NEW x \in Process, walk[x] # NoWalk, Raise(x)
  PROVE  /\ TodoTold(who)' /\ QueueTold(who, of)' /\ JobTold(who, of)' /\ WalksTold(who, of)'
         /\ CmdsTold(who, of)'
<1>1. CASE x # Daemon
  <2>1. x \in Operator /\ EndWalk(x) /\ cmd' = [cmd EXCEPT ![x] = NoCmd] /\ UNCHANGED daemon
    BY <1>1 DEF Raise, Process
  <2>2. WalksTold(who, of)'
    BY <1>1, <2>1, EndWalkTold, WalksNext DEF Told, WalksTold, daemon
  <2> QED BY <2>1, <2>2, Frames, NoCmdTold DEF Told, daemon
<1>2. CASE x = Daemon /\ Halt /\ UNCHANGED cmd
  BY <1>2, HaltTold, Frames DEF Told
<1>3. CASE /\ x = Daemon /\ job.caller \in {"destroy", "clone"} /\ pc' = "retry"
           /\ EndWalk(x) /\ UNCHANGED <<todo, turn, batch, job, cmd>>
  <2>1. WalksTold(who, of)'
    BY <1>3, EndWalkTold, WalksNext DEF Told
  <2>2. OnRow
    BY <1>3 DEF Told, JobTold, NoJob, JobOf
  <2>3. JobTold(who, of)'
    BY <1>3, <2>2 DEF Told, JobTold, OnRow, Known, IsRow
  <2>4. ~Cleaning /\ ~Cleaning'
    BY <1>3, <2>2 DEF Cleaning, OnRow
  <2> QED BY <1>3, <2>1, <2>3, <2>4, Frames
<1> QED BY <1>1, <1>2, <1>3 DEF Raise

-----------------------------------------------------------------------------
(* adapt.                                                                  *)

LEMMA WalkFields ==
  ASSUME NEW who \in Names, NEW of, Told(who, of), NEW x \in Process, walk[x].mode # "off"
  PROVE  /\ walk[x] \in Walk /\ walk[x] # NoWalk /\ walk[x].key \in Key /\ walk[x].name \in Name
         /\ walk[x].name = who[walk[x].key] /\ walk[x].max \in Size
         /\ walk[x].at \in 0..MaxSize /\ walk[x].missing \in Nat
BY DEF Told, WalksTold, WalkTold, Walk, Names, NoWalk

LEMMA ReturningTold ==
  ASSUME NEW who \in Names, NEW of, Told(who, of), NEW x \in Process, walk[x] # NoWalk,
         Return(x) \/ Raise(x), RowsTold(who, of)', UNCHANGED <<pools, host, wanted, given>>,
         UNCHANGED faults \/ Fault("state")
  PROVE  Told(who, of)'
<1>1. /\ TodoTold(who)' /\ QueueTold(who, of)' /\ JobTold(who, of)' /\ WalksTold(who, of)'
      /\ CmdsTold(who, of)'
  BY ReturnTold, RaiseTold
<1>2. PoolsTold(who)' /\ HostOK'
  BY Frames, FaultTold DEF Told, host
<1> QED BY <1>1, <1>2 DEF Told

LEMMA AdaptEnoughTold ==
  ASSUME NEW who \in Names, NEW of, Told(who, of), NEW x \in Process,
         AdaptEnough(x) \/ AdaptDone(x)
  PROVE  Told(who, of)'
BY WalkFields, ReturningTold, Frames DEF AdaptEnough, AdaptDone, tables, bounds

LEMMA SetWalkTold ==
  ASSUME NEW who, NEW of, Told(who, of), NEW x \in Process, NEW w \in Walk, WalkTold(w, who, of),
         walk[x] # NoWalk, walk' = [walk EXCEPT ![x] = w], UNCHANGED pc
  PROVE  WalksTold(who, of)'
BY SetWalk, WalksNext DEF Told, WalksTold

LEMMA WalkToFields ==
  ASSUME NEW v \in Walk, NEW a \in {"list", "look", "create", "mark"}, NEW b \in 0..MaxSize,
         NEW c \in Nat, NEW i \in Id \cup {NoId}
  PROVE  /\ WalkTo(v, a, b, c, i) \in Walk
         /\ WalkTo(v, a, b, c, i).mode = a /\ WalkTo(v, a, b, c, i).at = b
         /\ WalkTo(v, a, b, c, i).missing = c /\ WalkTo(v, a, b, c, i).id = i
         /\ WalkTo(v, a, b, c, i).key = v.key /\ WalkTo(v, a, b, c, i).name = v.name
         /\ WalkTo(v, a, b, c, i).max = v.max /\ WalkTo(v, a, b, c, i).rest = {}
BY DEF Walk, WalkTo

LEMMA ShrinkingFields ==
  ASSUME NEW v \in Walk, NEW c \in Nat, NEW S \in SUBSET Copy
  PROVE  /\ Shrinking(v, c, S) \in Walk
         /\ Shrinking(v, c, S).mode = "shrink" /\ Shrinking(v, c, S).at = 0
         /\ Shrinking(v, c, S).missing = c /\ Shrinking(v, c, S).id = NoId
         /\ Shrinking(v, c, S).key = v.key /\ Shrinking(v, c, S).name = v.name
         /\ Shrinking(v, c, S).rest = S
BY BoundAssumption DEF Walk, Shrinking

LEMMA WalkMoves ==
  ASSUME NEW who \in Names, NEW of, Told(who, of), NEW x \in Process, walk[x].mode # "off",
         NEW a \in {"list", "look", "create", "mark"}, NEW b \in 0..MaxSize, NEW c \in Nat, c > 0,
         NEW i \in Id \cup {NoId},
         a \in {"create", "mark"} => b < walk[x].max,
         a = "mark" <=> i # NoId,
         i # NoId => <<walk[x].key, MachineOf(walk[x].name, b)>> = of[i],
         walk' = [walk EXCEPT ![x] = WalkTo(walk[x], a, b, c, i)],
         UNCHANGED pc
  PROVE  WalksTold(who, of)'
<1> DEFINE w == WalkTo(walk[x], a, b, c, i)
<1>1. /\ walk[x] \in Walk /\ walk[x] # NoWalk /\ walk[x].key \in Key
      /\ walk[x].name = who[walk[x].key]
  BY WalkFields
<1>2. /\ w \in Walk /\ w.mode = a /\ w.at = b /\ w.missing = c /\ w.id = i
      /\ w.key = walk[x].key /\ w.name = walk[x].name /\ w.max = walk[x].max /\ w.rest = {}
  BY <1>1 DEF Walk, WalkTo
<1>3. walk' = [walk EXCEPT ![x] = w]
  OBVIOUS
<1> HIDE DEF w
<1>4. WalkTold(w, who, of)
  BY <1>1, <1>2 DEF WalkTold
<1> QED BY <1>1, <1>2, <1>3, <1>4, SetWalkTold

LEMMA WalkShrinks ==
  ASSUME NEW who \in Names, NEW of, Told(who, of), NEW x \in Process, walk[x].mode # "off",
         NEW c \in Nat, c > 0, NEW S \in SUBSET Copy,
         \A t \in S : IsCopy(t, walk[x].key, who, of),
         walk' = [walk EXCEPT ![x] = Shrinking(walk[x], c, S)], UNCHANGED pc
  PROVE  WalksTold(who, of)'
<1> DEFINE w == Shrinking(walk[x], c, S)
<1>1. /\ walk[x] \in Walk /\ walk[x] # NoWalk /\ walk[x].key \in Key
      /\ walk[x].name = who[walk[x].key]
  BY WalkFields
<1>2. /\ w \in Walk /\ w.mode = "shrink" /\ w.missing = c /\ w.id = NoId
      /\ w.key = walk[x].key /\ w.name = walk[x].name /\ w.rest = S
  BY <1>1, ShrinkingFields
<1> HIDE DEF w
<1>3. WalkTold(w, who, of)
  BY <1>1, <1>2 DEF WalkTold
<1>4. walk' = [walk EXCEPT ![x] = w]
  BY DEF w
<1> QED BY <1>1, <1>2, <1>3, <1>4, SetWalkTold

\* Rows of a pool, as a query returns them.
LEMMA CopiesTold ==
  ASSUME NEW who \in Names, NEW of, Told(who, of), NEW k \in Key, NEW S \in SUBSET RowsOf(k)
  PROVE  Copies(S) \in SUBSET Copy /\ \A t \in Copies(S) : IsCopy(t, k, who, of)
<1>1. ASSUME NEW t \in Copies(S) PROVE t \in Copy /\ IsCopy(t, k, who, of)
  <2>1. PICK i \in S : t = [id |-> i, pool |-> rows[i].pool, name |-> rows[i].name]
    BY DEF Copies
  <2>2. i \in Id /\ rows[i].pool = k /\ rows[i] # NoRow
    BY NullRow, KeyAssumption DEF RowsOf
  <2>3. rows[i] \in Row /\ Known(rows[i], who) /\ IsRow(i, rows[i], of) /\ rows[i].name \in Machine
    BY <2>2, RowFields DEF Told, RowsTold
  <2>4. t.id = i /\ t.pool = k /\ t.name = rows[i].name /\ t \in Copy
    BY <2>1, <2>2, <2>3 DEF Copy
  <2> QED BY <2>2, <2>3, <2>4 DEF IsCopy, Known, IsRow
<1> QED BY <1>1

LEMMA AdaptManyTold ==
  ASSUME NEW who \in Names, NEW of, Told(who, of), NEW x \in Process, AdaptMany(x)
  PROVE  Told(who, of)'
<1> DEFINE n == Cardinality(RowsOf(walk[x].key)) - walk[x].max
<1>1. /\ walk[x].mode = "count" /\ n > 0
      /\ UNCHANGED <<tables, host, wanted, daemon, cmd, bounds>>
      /\ walk' = [walk EXCEPT ![x] = WalkTo(walk[x], "list", 0, n, NoId)]
  BY DEF AdaptMany
<1>2. walk[x].max \in Size
  BY <1>1, WalkFields
<1>3. n \in Nat /\ 0 \in 0..MaxSize
  BY <1>1, <1>2, RowsOfCount, BoundAssumption DEF Size
<1>4. WalksTold(who, of)'
  BY <1>1, <1>3, WalkMoves DEF daemon
<1> QED BY <1>1, <1>4, Frames DEF Told, tables, host, daemon, bounds

LEMMA AdaptListTold ==
  ASSUME NEW who \in Names, NEW of, Told(who, of), NEW x \in Process, AdaptList(x)
  PROVE  Told(who, of)'
<1> DEFINE S == Copies(Victims(walk[x].key))
<1>1. /\ walk[x].mode = "list" /\ UNCHANGED <<tables, host, wanted, daemon, cmd, bounds>>
      /\ walk' = [walk EXCEPT ![x] = Shrinking(walk[x], walk[x].missing, S)]
  BY DEF AdaptList
<1>2. walk[x].key \in Key /\ walk[x].missing \in Nat /\ walk[x] # NoWalk
  BY <1>1, WalkFields
<1>3. walk[x].missing > 0
  BY <1>1, <1>2 DEF Told, WalksTold, WalkTold
<1>4. Victims(walk[x].key) \in SUBSET RowsOf(walk[x].key)
  BY DEF Victims
<1>5. S \in SUBSET Copy /\ \A t \in S : IsCopy(t, walk[x].key, who, of)
  BY <1>2, <1>4, CopiesTold
<1> HIDE DEF S
<1>6. WalksTold(who, of)'
  BY <1>1, <1>2, <1>3, <1>5, WalkShrinks DEF daemon
<1> QED BY <1>1, <1>6, Frames DEF Told, tables, host, daemon, bounds

LEMMA AdaptShrinkTold ==
  ASSUME NEW who \in Names, NEW of, Told(who, of), NEW x \in Process, NEW t \in walk[x].rest,
         AdaptShrink(x, t)
  PROVE  Told(who, of)'
<1> DEFINE r == RowFor(t.pool, t.name, "PENDING", "destroy")
<1>1. /\ walk[x].mode = "shrink" /\ UNCHANGED <<pools, host, wanted, bounds>>
      /\ rows' = [rows EXCEPT ![t.id] = r]
  BY DEF AdaptShrink
<1>2. /\ walk[x] \in Walk /\ walk[x] # NoWalk /\ walk[x].key \in Key
      /\ walk[x].missing \in Nat
  BY <1>1, WalkFields
<1>3. /\ walk[x].missing > 0 /\ walk[x].rest \in SUBSET Copy
      /\ \A u \in walk[x].rest : IsCopy(u, walk[x].key, who, of)
  BY <1>1, <1>2 DEF Told, WalksTold, WalkTold, Walk
<1>4. t.id \in Id /\ t.pool \in Key /\ t.name \in MachinesOf(who[t.pool]) /\ <<t.pool, t.name>> = of[t.id]
  BY <1>3 DEF IsCopy, Copy
<1>5. Known(r, who) /\ IsRow(t.id, r, of)
  BY <1>4, RowForTold
<1>6. RowsTold(who, of)'
  BY <1>1, <1>4, <1>5, SetRow DEF Told
<1>7. CASE Return(x)
  BY <1>1, <1>2, <1>6, <1>7, ReturningTold DEF bounds
<1>8. CASE /\ walk[x].missing # 1 /\ UNCHANGED <<daemon, cmd>>
           /\ walk' = [walk EXCEPT ![x] = Shrinking(walk[x], walk[x].missing - 1, walk[x].rest \ {t})]
  <2>1. walk[x].missing - 1 \in Nat /\ walk[x].missing - 1 > 0
    BY <1>2, <1>3, <1>8
  <2>2. walk[x].rest \ {t} \in SUBSET Copy
        /\ \A u \in walk[x].rest \ {t} : IsCopy(u, walk[x].key, who, of)
    BY <1>3
  <2>3. WalksTold(who, of)'
    BY <1>1, <1>8, <2>1, <2>2, WalkShrinks DEF daemon
  <2> QED BY <1>1, <1>6, <1>8, <2>3, Frames DEF Told, host, daemon, bounds
<1> QED BY <1>7, <1>8 DEF AdaptShrink

LEMMA AdaptFewTold ==
  ASSUME NEW who \in Names, NEW of, Told(who, of), NEW x \in Process, AdaptFew(x)
  PROVE  Told(who, of)'
<1> DEFINE n == walk[x].max - Cardinality(RowsOf(walk[x].key))
<1>1. /\ walk[x].mode = "count" /\ n > 0
      /\ UNCHANGED <<tables, host, wanted, daemon, cmd, bounds>>
      /\ walk' = [walk EXCEPT ![x] = WalkTo(walk[x], "look", 0, n, NoId)]
  BY DEF AdaptFew
<1>2. walk[x].max \in Size
  BY <1>1, WalkFields
<1>3. n \in Nat /\ 0 \in 0..MaxSize
  BY <1>1, <1>2, RowsOfCount, BoundAssumption DEF Size
<1>4. WalksTold(who, of)'
  BY <1>1, <1>3, WalkMoves DEF daemon
<1> QED BY <1>1, <1>4, Frames DEF Told, tables, host, daemon, bounds

LEMMA AdaptLookTold ==
  ASSUME NEW who \in Names, NEW of, Told(who, of), NEW x \in Process, AdaptLook(x)
  PROVE  Told(who, of)'
<1>1. /\ walk[x].mode = "look" /\ walk[x].at < walk[x].max
      /\ UNCHANGED <<tables, host, wanted, bounds>>
  BY DEF AdaptLook
<1>2. /\ walk[x] \in Walk /\ walk[x] # NoWalk /\ walk[x].max \in Size
      /\ walk[x].at \in 0..MaxSize /\ walk[x].missing \in Nat
  BY <1>1, WalkFields
<1>3. walk[x].missing > 0 /\ walk[x].at + 1 \in 0..MaxSize
  BY <1>1, <1>2, BoundAssumption DEF Told, WalksTold, WalkTold, NoWalk, Size
<1>4. CASE /\ walk' = [walk EXCEPT ![x] = WalkTo(walk[x], "create", walk[x].at, walk[x].missing, NoId)]
           /\ UNCHANGED <<daemon, cmd>>
  <2>1. WalksTold(who, of)'
    BY <1>1, <1>2, <1>3, <1>4, WalkMoves DEF daemon
  <2> QED BY <1>1, <1>4, <2>1, Frames DEF Told, tables, host, daemon, bounds
<1>5. CASE /\ walk' = [walk EXCEPT ![x] = WalkTo(walk[x], "look", walk[x].at + 1, walk[x].missing, NoId)]
           /\ UNCHANGED <<daemon, cmd>>
  <2>1. WalksTold(who, of)'
    BY <1>1, <1>2, <1>3, <1>5, WalkMoves DEF daemon
  <2> QED BY <1>1, <1>5, <2>1, Frames DEF Told, tables, host, daemon, bounds
<1>6. CASE Raise(x)
  BY <1>1, <1>2, <1>6, Frames, ReturningTold DEF Told, tables, bounds
<1> QED BY <1>4, <1>5, <1>6 DEF AdaptLook

LEMMA AdaptMarkTold ==
  ASSUME NEW who \in Names, NEW of, Told(who, of), NEW x \in Process, AdaptMark(x)
  PROVE  Told(who, of)'
<1> DEFINE m == MachineOf(walk[x].name, walk[x].at)
           a == IF m \in vm THEN "destroy" ELSE "clone"
           r == RowFor(walk[x].key, m, "PENDING", a)
<1>1. /\ walk[x].mode = "mark" /\ UNCHANGED <<pools, host, wanted, bounds>>
      /\ rows' = [rows EXCEPT ![walk[x].id] = r]
  BY DEF AdaptMark
<1>2. /\ walk[x] \in Walk /\ walk[x] # NoWalk /\ walk[x].max \in Size /\ walk[x].key \in Key
      /\ walk[x].at \in 0..MaxSize /\ walk[x].missing \in Nat /\ walk[x].name \in Name
      /\ walk[x].name = who[walk[x].key]
  BY <1>1, WalkFields
<1>3. /\ walk[x].missing > 0 /\ walk[x].at < walk[x].max /\ walk[x].id \in Id
      /\ <<walk[x].key, m>> = of[walk[x].id]
  BY <1>1, <1>2 DEF Told, WalksTold, WalkTold, NoWalk, Walk
<1>4. m \in MachinesOf(who[walk[x].key]) /\ walk[x].at + 1 \in 0..MaxSize
  BY <1>2, <1>3, MachineInPool
<1>5. Known(r, who) /\ IsRow(walk[x].id, r, of)
  BY <1>2, <1>3, <1>4, RowForTold
<1>6. RowsTold(who, of)'
  BY <1>1, <1>3, <1>5, SetRow DEF Told
<1>7. CASE Return(x)
  BY <1>1, <1>2, <1>6, <1>7, ReturningTold DEF bounds
<1>8. CASE /\ walk[x].missing # 1 /\ UNCHANGED <<daemon, cmd>>
           /\ walk' = [walk EXCEPT ![x] = WalkTo(walk[x], "look", walk[x].at + 1, walk[x].missing - 1, NoId)]
  <2>1. walk[x].missing - 1 \in Nat /\ walk[x].missing - 1 > 0
    BY <1>2, <1>3, <1>8
  <2>2. WalksTold(who, of)'
    BY <1>1, <1>4, <1>8, <2>1, WalkMoves DEF daemon
  <2> QED BY <1>1, <1>6, <1>8, <2>2, Frames DEF Told, host, daemon, bounds
<1> QED BY <1>7, <1>8 DEF AdaptMark

LEMMA AdaptFailsTold ==
  ASSUME NEW who \in Names, NEW of, Told(who, of), NEW x \in Process, AdaptFails(x)
  PROVE  Told(who, of)'
<1>1. walk[x] # NoWalk
  BY WalkFields DEF AdaptFails
<1> QED BY <1>1, ReturningTold, Frames DEF AdaptFails, tables

-----------------------------------------------------------------------------
(* The daemon.                                                             *)

LEMMA JobOfType ==
  ASSUME NEW i \in Id \cup {NoId}, NEW row \in Row, NEW pool \in Pool \cup {NoPool},
         NEW c \in {"clone", "attr", "destroy"}
  PROVE  /\ JobOf(i, row, pool, c) \in Job /\ JobOf(i, row, pool, c).id = i
         /\ JobOf(i, row, pool, c).row = row /\ JobOf(i, row, pool, c).pool = pool
         /\ JobOf(i, row, pool, c).caller = c
BY DEF JobOf, Job

LEMMA JobFields ==
  ASSUME NEW who \in Names, NEW of, Told(who, of), OnRow
  PROVE  /\ job \in Job /\ job.caller # "main" /\ job.row \in Row /\ job.row.pool \in Key
         /\ job.row.name \in Machine /\ job.row.name \in MachinesOf(who[job.row.pool])
         /\ job.id \in Id \cup {NoId}
         /\ job.id # NoId => IsRow(job.id, job.row, of)
         /\ pc # "adapt" => walk[Daemon] = NoWalk
BY DEF Told, JobTold, Known, Row, Job, WalksTold, OnRow

LEMMA JobSet ==
  ASSUME NEW who, NEW of, job' \in Job, job'.caller # "main", Known(job'.row, who),
         job'.id # NoId => IsRow(job'.id, job'.row, of), OnRow', pc' = "work" => job'.id # NoId,
         pc' \in {"blame", "check", "drop"} => job'.pool \in Pool /\ job'.pool.name = who[job'.row.pool]
  PROVE  JobTold(who, of)'
BY DEF JobTold, OnRow, Cleaning, Known, IsRow

LEMMA PhaseTold ==
  ASSUME NEW who, NEW of, Told(who, of), ~OnRow, walk[Daemon] = NoWalk, UNCHANGED <<job, walk>>,
         pc' \in {"down", "clean", "setup", "main", "loop", "poll", "pick"} \/ Cleaning'
  PROVE  JobTold(who, of)' /\ WalksTold(who, of)'
<1>1. JobTold(who, of)'
  BY Nulls DEF Told, JobTold, OnRow, Cleaning, NoJob, JobOf
<1>2. WalksTold(who, of)'
  BY WalksNext DEF Told, WalksTold
<1> QED BY <1>1, <1>2

LEMMA DaemonIdle ==
  ASSUME NEW who, NEW of, Told(who, of), pc \notin {"main", "adapt"}
  PROVE  walk[Daemon] = NoWalk
BY DEF Told, WalksTold

LEMMA TodoTypes ==
  ASSUME NEW who, NEW of, Told(who, of), NEW k \in Key
  PROVE  /\ todo[k] # NoPool => todo[k] \in Pool /\ todo[k].name = who[k]
         /\ pools[k] # NoPool => pools[k] \in Pool /\ pools[k].name = who[k]
BY DEF Told, TodoTold, PoolsTold

LEMMA VisitedTold ==
  ASSUME NEW who, NEW of, Told(who, of), NEW k \in Key, Visited(k) \/ todo' = NoTodo
  PROVE  TodoTold(who)'
BY DEF Told, TodoTold, Visited, NoTodo

LEMMA VisitTold ==
  ASSUME NEW who, NEW of, Told(who, of), todo' = pools \/ (PoolsTold(who)' /\ todo' = pools')
  PROVE  TodoTold(who)'
BY DEF Told, TodoTold, PoolsTold

LEMMA StartTold ==
  ASSUME NEW who \in Names, NEW of, Told(who, of), Start
  PROVE  Told(who, of)'
<1>1. /\ ~OnRow /\ ~Cleaning /\ ~Cleaning' /\ walk[Daemon] = NoWalk
      /\ pc' = "clean" /\ todo' = pools
  BY DaemonIdle DEF Start, OnRow, Cleaning, Visit
<1>2. JobTold(who, of)' /\ WalksTold(who, of)' /\ TodoTold(who)' /\ QueueTold(who, of)'
  BY <1>1, PhaseTold, VisitTold, Frames DEF Start
<1> QED BY <1>2, Frames DEF Told, Start, tables, host, bounds

LEMMA SetupPoolTold ==
  ASSUME NEW who \in Names, NEW of, Told(who, of), NEW k \in Key, SetupPool(k)
  PROVE  Told(who, of)'
<1>1. /\ rows' = [i \in Id |-> SetupRow(i, k, todo[k])] /\ (pools' = Without(k) \/ pools' = pools)
      /\ Visited(k) /\ ~Cleaning /\ ~Cleaning'
      /\ UNCHANGED <<host, wanted, pc, turn, batch, job, walk, cmd, bounds>>
  BY DEF SetupPool, Cleaning
<1>2. ASSUME NEW i \in Id
      PROVE  LET r == SetupRow(i, k, todo[k])
             IN  r \in {NoRow, rows[i]} \/ (r \in Row /\ Known(r, who) /\ IsRow(i, r, of))
  <2>1. CASE rows[i].pool = k /\ rows[i].name \in vm
    <3>1. rows[i] # NoRow
      BY <2>1, NullRow, KeyAssumption
    <3>2. rows[i].name \in MachinesOf(who[k]) /\ <<k, rows[i].name>> = of[i]
      BY <2>1, <3>1 DEF Told, RowsTold, Known, IsRow
    <3>3. SetupRow(i, k, todo[k]) = RowFor(k, rows[i].name, "PENDING", "destroy")
      BY <2>1 DEF SetupRow
    <3> QED BY <3>2, <3>3, RowForTold DEF Known
  <2>2. CASE ~(rows[i].pool = k /\ rows[i].name \in vm)
    BY <2>2 DEF SetupRow
  <2> QED BY <2>1, <2>2
<1>3. rows' \in [Id -> Row \cup {NoRow}]
  BY <1>1, <1>2 DEF Told, RowsTold
<1>4. RowsTold(who, of)'
  BY <1>1, <1>2, <1>3, SomeRows DEF Told
<1>5. PoolsTold(who)'
  BY <1>1, WithoutTold, Frames DEF Told
<1> QED BY <1>1, <1>4, <1>5, VisitedTold, Frames DEF Told, host, bounds

LEMMA MainAdaptTold ==
  ASSUME NEW who \in Names, NEW of, Told(who, of), NEW k \in Key, MainAdapt(k)
  PROVE  Told(who, of)'
<1> DEFINE w == [mode |-> "count", key |-> k, name |-> todo[k].name, max |-> todo[k].max, at |-> 0,
                 missing |-> 0, id |-> NoId, rest |-> {}]
<1>1. /\ pc = "main" /\ todo[k] \in Pool /\ todo[k].name = who[k] /\ walk' = [walk EXCEPT ![Daemon] = w]
      /\ Visited(k) /\ ~Cleaning /\ ~Cleaning'
      /\ UNCHANGED <<tables, host, wanted, pc, turn, batch, job, cmd, bounds>>
  BY TodoTypes DEF MainAdapt, StartWalk, Cleaning
<1>2. w \in Walk /\ WalkTold(w, who, of)
  BY <1>1, WalkStarts
<1> HIDE DEF w
<1>3. WalksTold(who, of)'
  BY <1>1, <1>2, SetWalk, WalksNext DEF Told, Process
<1> QED BY <1>1, <1>3, VisitedTold, Frames DEF Told, tables, host, bounds

LEMMA HaltsTold ==
  ASSUME NEW who \in Names, NEW of, Told(who, of), Halt,
         UNCHANGED <<pools, rows, vm, abandoned, wanted, cmd, given>>,
         UNCHANGED faults \/ \E kind \in {"crash", "host"} : Fault(kind)
  PROVE  Told(who, of)'
BY HaltTold, FaultTold, Frames DEF Told

LEMMA PoolFailsTold ==
  ASSUME NEW who \in Names, NEW of, Told(who, of), NEW k \in Key, PoolFails(k)
  PROVE  Told(who, of)'
<1>1. /\ pc \in {"setup", "main"} /\ walk[Daemon] = NoWalk /\ todo[k] # NoPool /\ Fault("host")
      /\ UNCHANGED <<rows, vm, abandoned, wanted, cmd, given>>
  BY DEF PoolFails, host
<1>2. CASE /\ pools' = SavedPool(k, todo[k]) /\ UNCHANGED <<turn, batch, job, walk>>
           /\ ((pc' = "main" /\ todo' = pools') \/ (pc' = "loop" /\ todo' = NoTodo))
  <2>1. PoolsTold(who)'
    BY <1>1, <1>2, TodoTypes, SetPool DEF Told, SavedPool
  <2>2. TodoTold(who)'
    BY <1>2, <2>1, VisitTold, VisitedTold
  <2>3. JobTold(who, of)' /\ WalksTold(who, of)'
    BY <1>1, <1>2, PhaseTold DEF OnRow
  <2>4. QueueTold(who, of)'
    BY <1>1, <1>2, Frames DEF Cleaning
  <2> QED BY <1>1, <2>1, <2>2, <2>3, <2>4, Frames, FaultTold DEF Told
<1>3. CASE Halt /\ UNCHANGED pools
  BY <1>1, <1>3, HaltsTold
<1>4. CASE CanSave(k, todo[k])
  <2>1. /\ pools' = SavedPool(k, todo[k]) /\ UNCHANGED <<turn, batch, job, walk>>
        /\ IF pc = "setup" THEN Visit("main", pools') ELSE pc' = "loop" /\ todo' = NoTodo
    BY <1>4 DEF PoolFails
  <2>2. (pc' = "main" /\ todo' = pools') \/ (pc' = "loop" /\ todo' = NoTodo)
    BY <2>1 DEF Visit
  <2> QED BY <1>2, <2>1, <2>2
<1>5. CASE ~CanSave(k, todo[k])
  BY <1>3, <1>5 DEF PoolFails
<1> QED BY <1>4, <1>5

LEMMA PhaseDoneTold ==
  ASSUME NEW who \in Names, NEW of, Told(who, of), PhaseDone
  PROVE  Told(who, of)'
<1>1. /\ pc \in {"clean", "setup", "main"} /\ walk[Daemon] = NoWalk
      /\ pc' \in {"main", "setup", "loop"} /\ todo' \in {pools, NoTodo}
      /\ UNCHANGED <<tables, host, wanted, turn, batch, job, walk, cmd, bounds>>
  BY DEF PhaseDone, Visit
<1>2. JobTold(who, of)' /\ WalksTold(who, of)' /\ QueueTold(who, of)'
  BY <1>1, PhaseTold, Frames DEF OnRow, Cleaning
<1>3. TodoTold(who)'
  <2>1. CASE todo' = pools
    BY <2>1, VisitTold
  <2>2. CASE todo' = NoTodo
    BY <2>2 DEF TodoTold, NoTodo
  <2> QED BY <1>1, <2>1, <2>2
<1> QED BY <1>1, <1>2, <1>3, Frames DEF Told, tables, host, bounds

LEMMA HaltingTold ==
  ASSUME NEW who \in Names, NEW of, Told(who, of), Crash \/ \E k \in Key : ProductUnknown(k)
  PROVE  Told(who, of)'
BY HaltsTold DEF Crash, ProductUnknown, tables, host, bounds

LEMMA DropDanglingTold ==
  ASSUME NEW who \in Names, NEW of, Told(who, of), NEW i \in Id, DropDangling(i)
  PROVE  Told(who, of)'
<1>1. RowsTold(who, of)'
  BY SetRow DEF DropDangling, Told
<1> QED BY <1>1, Frames DEF Told, DropDangling, host, daemon, bounds

LEMMA ShownTold ==
  ASSUME NEW who \in Names, NEW of, Told(who, of), Shown
  PROVE  Told(who, of)'
<1>1. /\ ~OnRow /\ ~Cleaning /\ ~Cleaning' /\ walk[Daemon] = NoWalk /\ pc' = "poll"
      /\ UNCHANGED <<tables, host, wanted, todo, turn, batch, job, walk, cmd, bounds>>
  BY DaemonIdle DEF Shown, OnRow, Cleaning
<1>2. JobTold(who, of)' /\ WalksTold(who, of)'
  BY <1>1, PhaseTold
<1> QED BY <1>1, <1>2, Frames DEF Told, tables, host, bounds

LEMMA PollTold ==
  ASSUME NEW who \in Names, NEW of, Told(who, of), Poll
  PROVE  Told(who, of)'
<1>1. /\ ~OnRow /\ ~Cleaning /\ ~Cleaning' /\ walk[Daemon] = NoWalk /\ pc' \in {"pick", "loop"}
      /\ batch' = [i \in Id |-> IF Due(i) THEN rows[i] ELSE NoRow]
      /\ UNCHANGED <<tables, host, wanted, todo, turn, job, walk, cmd, bounds>>
  BY DaemonIdle DEF Poll, OnRow, Cleaning
<1>2. JobTold(who, of)' /\ WalksTold(who, of)'
  BY <1>1, PhaseTold
<1>3. \A i \in Id : batch'[i] # NoRow => rows[i] # NoRow /\ rows[i].action # "none" /\ batch'[i] = rows[i]
  BY <1>1 DEF Due
<1>4. turn = NoKey
  BY <1>1 DEF Told, QueueTold
<1>5. batch' \in [Id -> Row \cup {NoRow}]
  BY <1>1 DEF Told, RowsTold
<1>6. QueueTold(who, of)'
  BY <1>1, <1>3, <1>4, <1>5 DEF Told, QueueTold, RowsTold, Known, IsRow
<1> QED BY <1>1, <1>2, <1>6, Frames DEF Told, tables, host, bounds

LEMMA PickTold ==
  ASSUME NEW who \in Names, NEW of, Told(who, of), NEW i \in Id, Pick(i)
  PROVE  Told(who, of)'
<1> DEFINE j == JobOf(i, batch[i], NoPool, batch[i].action)
<1>1. /\ pc = "pick" /\ batch[i] # NoRow /\ job' = j /\ pc' = "work"
      /\ batch' = [batch EXCEPT ![i] = NoRow]
      /\ UNCHANGED <<tables, host, wanted, todo, turn, walk, cmd, bounds>>
  BY DEF Pick
<1>2. /\ batch[i] \in Row /\ Known(batch[i], who) /\ IsRow(i, batch[i], of)
      /\ batch[i].action # "none"
  BY <1>1 DEF Told, QueueTold
<1>3. batch[i].action \in {"clone", "attr", "destroy"}
  BY <1>2 DEF Row
<1>4. j \in Job /\ j.id = i /\ j.row = batch[i] /\ j.caller = batch[i].action
  BY <1>2, <1>3, JobOfType
<1>5. JobTold(who, of)'
  BY <1>1, <1>2, <1>3, <1>4, IdsDiffer, JobSet DEF OnRow
<1>6. WalksTold(who, of)'
  BY <1>1, WalksNext, DaemonIdle DEF Told, WalksTold
<1>7. QueueTold(who, of)'
  <2>1. turn = NoKey
    BY <1>1 DEF Told, QueueTold, Cleaning
  <2> QED BY <1>1, <2>1 DEF Told, QueueTold, Cleaning, Known, IsRow
<1> QED BY <1>1, <1>5, <1>6, <1>7, Frames DEF Told, tables, host, bounds

LEMMA PoolMissingTold ==
  ASSUME NEW who \in Names, NEW of, Told(who, of), PoolMissing
  PROVE  Told(who, of)'
<1>1. /\ OnRow /\ walk[Daemon] = NoWalk /\ job.id \in Id
      /\ UNCHANGED <<pools, host, wanted, cmd, bounds>>
  BY DaemonIdle DEF PoolMissing, Told, JobTold, Job, OnRow
<1>2. CASE Halt /\ UNCHANGED rows
  BY <1>1, <1>2, HaltsTold DEF host, bounds
<1>3. CASE rows' = [rows EXCEPT ![job.id] = NoRow] /\ ToLoop
  BY <1>1, <1>3, SetRow, ToLoopTold, Frames DEF Told, host, bounds
<1> QED BY <1>2, <1>3 DEF PoolMissing

LEMMA HandlingFacts ==
  ASSUME NEW who \in Names, NEW of, Told(who, of), NEW a, Handling(a)
  PROVE  /\ pc = "work" /\ walk[Daemon] = NoWalk /\ job.id \in Id
         /\ job \in Job /\ job.caller # "main" /\ job.row \in Row /\ job.row.pool \in Key
         /\ job.row.name \in Machine /\ job.row.name \in MachinesOf(who[job.row.pool])
         /\ Known(job.row, who) /\ IsRow(job.id, job.row, of)
         /\ JobPool \in Pool /\ JobPool.name = who[job.row.pool]
<1>1. OnRow /\ pc = "work"
  BY DEF Handling, OnRow
<1>2. /\ job \in Job /\ job.caller # "main" /\ job.row \in Row /\ job.row.pool \in Key
      /\ job.row.name \in Machine /\ job.row.name \in MachinesOf(who[job.row.pool])
      /\ job.id \in Id \cup {NoId}
      /\ job.id # NoId => IsRow(job.id, job.row, of)
      /\ walk[Daemon] = NoWalk
  BY <1>1, JobFields
<1>3. job.id \in Id
  BY <1>1, <1>2 DEF Told, JobTold
<1>4. JobPool \in Pool /\ JobPool.name = who[job.row.pool]
  BY <1>2, TodoTypes DEF Handling, JobPool
<1>5. Known(job.row, who)
  BY <1>2 DEF Known
<1> QED BY <1>1, <1>2, <1>3, <1>4, <1>5, IdsDiffer

\* The daemon takes the next step with its row.
LEMMA QueueWaits ==
  ASSUME NEW who, NEW of, Told(who, of), OnRow, OnRow', UNCHANGED <<turn, batch>>
  PROVE  QueueTold(who, of)'
BY Frames DEF OnRow, Cleaning

LEMMA UnreachableTold ==
  ASSUME NEW who \in Names, NEW of, Told(who, of), Unreachable
  PROVE  Told(who, of)'
<1>1. /\ walk[Daemon] = NoWalk /\ pc = "work" /\ OnRow /\ pools[job.row.pool] # NoPool
      /\ UNCHANGED <<tables, host, wanted, cmd, given>> /\ Fault("host")
  BY DaemonIdle DEF Unreachable, OnRow
<1>2. CASE Halt
  BY <1>1, <1>2, HaltsTold DEF tables, host
<1>3. CASE /\ job.caller = "attr" /\ job' = JobOf(job.id, job.row, JobPool, "attr") /\ pc' = "blame"
           /\ UNCHANGED <<todo, turn, batch, walk>>
  <2>1. Handling("attr")
    BY <1>1, <1>3 DEF Handling
  <2>2. /\ job' \in Job /\ job'.pool = JobPool /\ job'.caller = "attr" /\ job'.row = job.row
        /\ job'.id = job.id
    BY <1>3, <2>1, HandlingFacts, JobOfType
  <2>3. JobTold(who, of)'
    BY <1>3, <2>1, <2>2, HandlingFacts, JobSet DEF OnRow
  <2>4. WalksTold(who, of)'
    BY <1>1, <1>3, WalksNext DEF Told, WalksTold
  <2>5. QueueTold(who, of)'
    BY <1>1, <1>3, QueueWaits DEF OnRow
  <2> QED BY <1>1, <1>3, <2>3, <2>4, <2>5, Frames, FaultTold DEF Told, tables, host
<1> QED BY <1>2, <1>3 DEF Unreachable

LEMMA BlameTold ==
  ASSUME NEW who \in Names, NEW of, Told(who, of), Blame
  PROVE  Told(who, of)'
<1>1. /\ OnRow /\ walk[Daemon] = NoWalk /\ job.row.pool \in Key
      /\ job.pool \in Pool /\ job.pool.name = who[job.row.pool]
      /\ UNCHANGED <<rows, host, wanted, cmd, bounds>>
  BY JobFields DEF Blame, OnRow, Told, JobTold
<1>2. CASE pools' = SavedPool(job.row.pool, job.pool) /\ ToLoop
  <2>1. PoolsTold(who)'
    BY <1>1, <1>2, SetPool DEF Told, SavedPool
  <2> QED BY <1>1, <1>2, <2>1, ToLoopTold, Frames DEF Told, host, bounds
<1>3. CASE Halt /\ UNCHANGED pools
  BY <1>1, <1>3, HaltsTold DEF host, bounds
<1> QED BY <1>2, <1>3 DEF Blame

LEMMA DestroyVmTold ==
  ASSUME NEW who \in Names, NEW of, Told(who, of), DestroyVm
  PROVE  Told(who, of)'
<1>1. /\ Handling("destroy") /\ vm' = vm \ {JobMachine} /\ rows' = [rows EXCEPT ![job.id] = job.row]
      /\ job' = JobOf(job.id, job.row, JobPool, "destroy") /\ pc' = "check"
      /\ UNCHANGED <<pools, abandoned, wanted, todo, turn, batch, walk, cmd, bounds>>
  BY DEF DestroyVm
<1>2. RowsTold(who, of)'
  BY <1>1, HandlingFacts, SetRow DEF Told
<1>3. /\ job' \in Job /\ job'.pool = JobPool /\ job'.caller = "destroy" /\ job'.row = job.row
      /\ job'.id \in {job.id, NoId}
  BY <1>1, HandlingFacts, JobOfType
<1>4. JobTold(who, of)'
  BY <1>1, <1>3, HandlingFacts, JobSet DEF OnRow, IsRow
<1>5. WalksTold(who, of)'
  BY <1>1, HandlingFacts, WalksNext DEF Told, WalksTold
<1>6. HostOK'
  BY <1>1 DEF Told, HostOK, bounds
<1>7. QueueTold(who, of)'
  BY <1>1, HandlingFacts, QueueWaits DEF OnRow
<1> QED BY <1>1, <1>2, <1>4, <1>5, <1>6, <1>7, Frames DEF Told

LEMMA DestroyRowTold ==
  ASSUME NEW who \in Names, NEW of, Told(who, of), DestroyRow
  PROVE  Told(who, of)'
<1>1. /\ Handling("destroy") /\ rows' = [rows EXCEPT ![job.id] = NoRow]
      /\ job' = JobOf(NoId, job.row, JobPool, "destroy") /\ pc' = "check"
      /\ UNCHANGED <<pools, host, wanted, todo, turn, batch, walk, cmd, bounds>>
  BY DEF DestroyRow
<1>2. RowsTold(who, of)'
  BY <1>1, HandlingFacts, SetRow DEF Told
<1>3. /\ job' \in Job /\ job'.pool = JobPool /\ job'.caller = "destroy" /\ job'.row = job.row
      /\ job'.id \in {job.id, NoId}
  BY <1>1, HandlingFacts, JobOfType
<1>4. JobTold(who, of)'
  BY <1>1, <1>3, HandlingFacts, JobSet DEF OnRow, IsRow
<1>5. WalksTold(who, of)'
  BY <1>1, HandlingFacts, WalksNext DEF Told, WalksTold
<1>6. QueueTold(who, of)'
  BY <1>1, HandlingFacts, QueueWaits DEF OnRow
<1> QED BY <1>1, <1>2, <1>4, <1>5, <1>6, Frames DEF Told, host, bounds

LEMMA DaemonWalks ==
  ASSUME NEW who \in Names, NEW of, Told(who, of), NEW k \in Key, NEW pool \in Pool,
         pool.name = who[k], StartWalk(Daemon, k, pool), pc' = "adapt"
  PROVE  WalksTold(who, of)'
<1> DEFINE w == [mode |-> "count", key |-> k, name |-> pool.name, max |-> pool.max, at |-> 0,
                 missing |-> 0, id |-> NoId, rest |-> {}]
<1>1. walk' = [walk EXCEPT ![Daemon] = w]
  BY DEF StartWalk
<1>2. w \in Walk /\ WalkTold(w, who, of)
  BY WalkStarts
<1> HIDE DEF w
<1> QED BY <1>1, <1>2, SetWalk, WalksNext DEF Told, Process

LEMMA CloneTold ==
  ASSUME NEW who \in Names, NEW of, Told(who, of), Clone
  PROVE  Told(who, of)'
<1> DEFINE row == RowFor(job.row.pool, job.row.name, "PENDING", "attr")
<1>1. /\ Handling("clone") /\ vm' = vm \cup {JobMachine} /\ rows' = [rows EXCEPT ![job.id] = row]
      /\ job' = JobOf(job.id, row, NoPool, "clone") /\ pc' = "adapt"
      /\ StartWalk(Daemon, row.pool, JobPool)
      /\ UNCHANGED <<pools, abandoned, wanted, todo, turn, batch, cmd, bounds>>
  BY DEF Clone, JobMachine
<1>2. row \in Row /\ row.pool = job.row.pool /\ row.name = job.row.name
  BY <1>1, HandlingFacts, RowForType
<1>3. Known(row, who) /\ IsRow(job.id, row, of)
  BY <1>1, <1>2, HandlingFacts DEF Known, IsRow
<1> HIDE DEF row
<1>4. RowsTold(who, of)'
  BY <1>1, <1>3, HandlingFacts, SetRow DEF Told
<1>5. /\ job' \in Job /\ job'.caller = "clone" /\ job'.row = row
      /\ job'.id \in {job.id, NoId}
  BY <1>1, <1>2, HandlingFacts, JobOfType
<1>6. JobTold(who, of)'
  BY <1>1, <1>3, <1>5, HandlingFacts, JobSet DEF OnRow, IsRow
<1>7. WalksTold(who, of)'
  BY <1>1, <1>2, HandlingFacts, DaemonWalks
<1>8. HostOK'
  BY <1>1, HandlingFacts DEF Told, HostOK, bounds, JobMachine
<1>9. QueueTold(who, of)'
  BY <1>1, HandlingFacts, QueueWaits DEF OnRow
<1> QED BY <1>1, <1>4, <1>6, <1>7, <1>8, <1>9, Frames DEF Told

LEMMA AttrReadyTold ==
  ASSUME NEW who \in Names, NEW of, Told(who, of), AttrReady
  PROVE  Told(who, of)'
<1> DEFINE row == RowFor(job.row.pool, job.row.name, "READY", "none")
<1>1. /\ Handling("attr") /\ rows' = [rows EXCEPT ![job.id] = row]
      /\ pc' = "adapt"
      /\ StartWalk(Daemon, job.row.pool, JobPool)
      /\ UNCHANGED <<pools, host, wanted, todo, turn, batch, job, cmd, bounds>>
  BY DEF AttrReady, JobMachine
<1>2. row \in Row /\ row.pool = job.row.pool /\ row.name = job.row.name
  BY <1>1, HandlingFacts, RowForType
<1>3. Known(row, who) /\ IsRow(job.id, row, of)
  BY <1>1, <1>2, HandlingFacts DEF Known, IsRow
<1> HIDE DEF row
<1>4. RowsTold(who, of)'
  BY <1>1, <1>3, HandlingFacts, SetRow DEF Told
<1>5. JobTold(who, of)'
  BY <1>1, HandlingFacts DEF Told, JobTold, OnRow, Known, IsRow
<1>6. WalksTold(who, of)'
  BY <1>1, HandlingFacts, DaemonWalks
<1>7. QueueTold(who, of)'
  BY <1>1, HandlingFacts, QueueWaits DEF OnRow
<1> QED BY <1>1, <1>4, <1>5, <1>6, <1>7, Frames DEF Told, host, bounds

LEMMA AttrAgainTold ==
  ASSUME NEW who \in Names, NEW of, Told(who, of), AttrAgain
  PROVE  Told(who, of)'
<1>1. RowsTold(who, of)'
  BY HandlingFacts, SetRow DEF Told, AttrAgain
<1>2. TodoTold(who)' /\ QueueTold(who, of)' /\ JobTold(who, of)' /\ WalksTold(who, of)'
  BY HandlingFacts, ToLoopTold DEF AttrAgain, OnRow
<1> QED BY <1>1, <1>2, Frames DEF Told, AttrAgain, host, bounds

LEMMA CheckTold ==
  ASSUME NEW who \in Names, NEW of, Told(who, of), Check
  PROVE  Told(who, of)'
<1>1. /\ pc = "check" /\ OnRow /\ UNCHANGED <<tables, host, wanted, todo, turn, batch, job, cmd, bounds>>
      /\ job.pool \in Pool /\ job.pool.name = who[job.row.pool]
  BY DEF Check, OnRow, Told, JobTold
<1>2. job.row.pool \in Key /\ walk[Daemon] = NoWalk
  BY <1>1, JobFields
<1>3. pc' \in {"drop", "adapt"}
  BY DEF Check
<1>4. JobTold(who, of)'
  BY <1>1, <1>3 DEF Told, JobTold, OnRow, Known, IsRow
<1>5. WalksTold(who, of)'
  <2>1. CASE UNCHANGED walk
    BY <1>2, <2>1, WalksNext DEF Told, WalksTold
  <2>2. CASE pc' = "adapt" /\ StartWalk(Daemon, job.row.pool, job.pool)
    BY <1>1, <1>2, <2>2, DaemonWalks
  <2> QED BY <2>1, <2>2 DEF Check
<1>6. QueueTold(who, of)'
  BY <1>1, <1>3, QueueWaits DEF OnRow
<1> QED BY <1>1, <1>4, <1>5, <1>6, Frames DEF Told, tables, host, bounds

LEMMA DropTold ==
  ASSUME NEW who \in Names, NEW of, Told(who, of), Drop
  PROVE  Told(who, of)'
<1>1. /\ OnRow /\ pc = "drop" /\ pools' = Without(job.row.pool) /\ rows' = Cascaded(job.row.pool)
      /\ ToLoop /\ UNCHANGED <<host, wanted, cmd, bounds>>
  BY DEF Drop, OnRow
<1>2. job.row.pool \in Key /\ walk[Daemon] = NoWalk
  BY <1>1, JobFields
<1>3. PoolsTold(who)' /\ RowsTold(who, of)'
  BY <1>1, <1>2, WithoutTold, CascadeTold DEF Told
<1>4. TodoTold(who)' /\ QueueTold(who, of)' /\ JobTold(who, of)' /\ WalksTold(who, of)'
  BY <1>1, <1>2, ToLoopTold
<1> QED BY <1>1, <1>3, <1>4, Frames DEF Told, host, bounds

-----------------------------------------------------------------------------
(* New keys: nothing has a copy of a row or a pool under a key that is not  *)
(* used, so that who and of may be chosen for it.                          *)

LEMMA KeyFree ==
  ASSUME NEW who \in Names, NEW of \in Uses, Told(who, of), NEW f \in UnusedKey, NEW p \in Name
  PROVE  [who EXCEPT ![f] = p] \in Names /\ Told([who EXCEPT ![f] = p], of)
<1> DEFINE other == [who EXCEPT ![f] = p]
<1>1. /\ f \in Key /\ pools[f] = NoPool /\ todo[f] = NoPool /\ RowsOf(f) = {} /\ job.row.pool # f
      /\ turn # f /\ \A i \in Id : batch[i].pool # f
  BY DEF UnusedKey
<1>9. /\ \A x \in DOMAIN walk : walk[x].key # f
      /\ \A o \in Operator : cmd[o].key # f /\ cmd[o].row.pool # f
  BY DEF UnusedKey
<1>2. other \in Names /\ \A k \in Key : k # f => other[k] = who[k]
  BY DEF Names
<1> HIDE DEF other
<1>3. PoolsTold(other) /\ TodoTold(other)
  BY <1>1, <1>2 DEF Told, PoolsTold, TodoTold
<1>10. QueueTold(other, of)
  <2>1. \A i \in Id : batch[i] # NoRow => batch[i] \in Row /\ batch[i].pool \in Key
    BY RowFields DEF Told, QueueTold, Known
  <2> QED BY <1>1, <1>2, <2>1 DEF Told, QueueTold, Known
<1>4. RowsTold(other, of)
  <2>1. \A i \in Id : rows[i] # NoRow => rows[i].pool # f
    BY <1>1 DEF RowsOf
  <2> QED BY <1>2, <2>1, RowFields DEF Told, RowsTold, Known
<1>5. JobTold(other, of)
  <2>1. CASE OnRow
    <3>1. job.row \in Row /\ job.row.pool \in Key
      BY <2>1, JobFields
    <3> QED BY <1>1, <1>2, <2>1, <3>1 DEF Told, JobTold, Known
  <2>2. CASE ~OnRow
    BY <2>2 DEF Told, JobTold, OnRow, Cleaning
  <2> QED BY <2>1, <2>2
<1>6. WalksTold(other, of)
  <2>1. \A x \in Process : walk[x].key # f
    BY <1>9 DEF Told, WalksTold
  <2> QED BY <1>2, <2>1 DEF Told, WalksTold, WalkTold, IsCopy
<1>7. CmdsTold(other, of)
  <2> SUFFICES ASSUME NEW o \in Operator PROVE CmdTold(cmd[o], other, of)
    BY DEF Told, CmdsTold
  <2> DEFINE c == cmd[o]
  <2>1. CmdTold(c, who, of)
    BY DEF Told, CmdsTold
  <2>2. c.key # f
    BY <1>9
  <2> HIDE DEF c
  <2>3. c.op # "none" => c.key \in Key /\ other[c.key] = who[c.key]
    BY <1>2, <2>1, <2>2 DEF CmdTold
  <2>4. c.op = "none" => c.pool = NoPool /\ c.id = NoId /\ c.todo = {}
    BY <2>1 DEF CmdTold, NoCmd
  <2>5. c.id # NoId => Known(c.row, other)
    BY <2>1, <2>3, <2>4 DEF CmdTold, Known
  <2>6. \A t \in c.todo : IsCopy(t, c.key, other, of)
    BY <2>1, <2>3, <2>4 DEF CmdTold, IsCopy
  <2>7. c.pool # NoPool => c.op \in {"incr", "decr", "remove", "purge"} /\ c.pool.name = other[c.key]
    BY <2>1, <2>3, <2>4 DEF CmdTold
  <2>8. CmdTold(c, other, of)
    BY <2>1, <2>5, <2>6, <2>7 DEF CmdTold
  <2> QED BY <2>8 DEF c
<1>8. Told(other, of)
  BY <1>3, <1>4, <1>5, <1>6, <1>7, <1>10 DEF Told
<1> QED BY <1>2, <1>8 DEF other

LEMMA IdFree ==
  ASSUME NEW who \in Names, NEW of \in Uses, Told(who, of), NEW f \in UnusedId,
         NEW u \in Key \X Machine
  PROVE  [of EXCEPT ![f] = u] \in Uses /\ Told(who, [of EXCEPT ![f] = u])
<1> DEFINE other == [of EXCEPT ![f] = u]
<1>1. /\ f \in Id /\ rows[f] = NoRow /\ job.id # f /\ batch[f] = NoRow
      /\ \A x \in DOMAIN walk : walk[x].id # f /\ \A t \in walk[x].rest : t.id # f
      /\ \A o \in Operator : cmd[o].id # f /\ \A t \in cmd[o].todo : t.id # f
  BY DEF UnusedId
<1>2. other \in Uses /\ \A i \in Id : i # f => other[i] = of[i]
  BY DEF Uses
<1> HIDE DEF other
<1>3. RowsTold(who, other) /\ QueueTold(who, other)
  BY <1>1, <1>2 DEF Told, RowsTold, QueueTold, IsRow
<1>4. JobTold(who, other)
  BY <1>1, <1>2 DEF Told, JobTold, IsRow, OnRow, Cleaning, Job
<1>5. WalksTold(who, other)
  <2>1. \A x \in Process : walk[x].id # f /\ \A t \in walk[x].rest : t.id # f
    BY <1>1 DEF Told, WalksTold
  <2>2. \A x \in Process : walk[x].id \in Id \cup {NoId} /\ walk[x].rest \in SUBSET Copy
    BY DEF Told, WalksTold, Walk
  <2>3. \A x \in Process : \A t \in walk[x].rest : t.id \in Id /\ other[t.id] = of[t.id]
    BY <1>2, <2>1, <2>2 DEF Copy
  <2>4. \A x \in Process : WalkTold(walk[x], who, other)
    BY <1>2, <2>1, <2>2, <2>3 DEF Told, WalksTold, WalkTold, IsCopy
  <2> QED BY <2>4 DEF Told, WalksTold
<1>6. CmdsTold(who, other)
  <2> SUFFICES ASSUME NEW o \in Operator PROVE CmdTold(cmd[o], who, other)
    BY DEF Told, CmdsTold
  <2> DEFINE c == cmd[o]
  <2>1. CmdTold(c, who, of) /\ c \in Cmd
    BY DEF Told, CmdsTold, CmdTold
  <2>2. c.id # f /\ \A t \in c.todo : t.id # f
    BY <1>1
  <2> HIDE DEF c
  <2>3. c.id \in Id \cup {NoId} /\ \A t \in c.todo : t.id \in Id
    BY <2>1 DEF Cmd, Copy
  <2>4. c.id # NoId => IsRow(c.id, c.row, other)
    BY <1>2, <2>1, <2>2, <2>3 DEF CmdTold, IsRow
  <2>5. \A t \in c.todo : IsCopy(t, c.key, who, other)
    BY <1>2, <2>1, <2>2, <2>3 DEF CmdTold, IsCopy
  <2>6. CmdTold(c, who, other)
    BY <2>1, <2>4, <2>5 DEF CmdTold
  <2> QED BY <2>6 DEF c
<1>7. Told(who, other)
  BY <1>3, <1>4, <1>5, <1>6 DEF Told
<1> QED BY <1>2, <1>7 DEF other

LEMMA FreshIdTold ==
  ASSUME NEW who \in Names, NEW of \in Uses, Told(who, of), NEW i \in FreshId,
         NEW r, Known(r, who)
  PROVE  \E o \in Uses : Told(who, o) /\ IsRow(i, r, o) /\ i \in Id
<1>1. i \in UnusedId /\ i \in Id /\ <<r.pool, r.name>> \in Key \X Machine
  BY FreshTypes, RowFields DEF Known
<1>2. [of EXCEPT ![i] = <<r.pool, r.name>>] \in Uses
      /\ Told(who, [of EXCEPT ![i] = <<r.pool, r.name>>])
  BY <1>1, IdFree
<1>3. IsRow(i, r, [of EXCEPT ![i] = <<r.pool, r.name>>])
  BY <1>1 DEF IsRow, Uses
<1> QED BY <1>1, <1>2, <1>3

LEMMA FreshKeyTold ==
  ASSUME NEW who \in Names, NEW of \in Uses, Told(who, of), NEW k \in FreshKey, NEW p \in Name
  PROVE  \E w \in Names : Told(w, of) /\ w[k] = p /\ k \in Key
<1>1. k \in UnusedKey /\ k \in Key
  BY FreshTypes
<1>2. [who EXCEPT ![k] = p] \in Names /\ Told([who EXCEPT ![k] = p], of)
  BY <1>1, KeyFree
<1> QED BY <1>1, <1>2 DEF Names

LEMMA AdaptCreateTold ==
  ASSUME NEW who \in Names, NEW of \in Uses, Told(who, of), NEW x \in Process, AdaptCreate(x)
  PROVE  \E o \in Uses : Told(who, o)'
<1> DEFINE m == MachineOf(walk[x].name, walk[x].at)
           r == RowFor(walk[x].key, m, "PENDING", "clone")
<1>1. PICK i \in FreshId :
        /\ walk[x].mode = "create" /\ UNCHANGED <<pools, host, wanted, daemon, cmd, bounds>>
        /\ rows' = [rows EXCEPT ![i] = r]
        /\ walk' = [walk EXCEPT ![x] = WalkTo(walk[x], "mark", walk[x].at, walk[x].missing, i)]
  BY DEF AdaptCreate
<1>2. /\ walk[x] \in Walk /\ walk[x] # NoWalk /\ walk[x].max \in Size /\ walk[x].key \in Key
      /\ walk[x].at \in 0..MaxSize /\ walk[x].missing \in Nat /\ walk[x].name \in Name
      /\ walk[x].name = who[walk[x].key]
  BY <1>1, WalkFields
<1>3. walk[x].missing > 0 /\ walk[x].at < walk[x].max
  BY <1>1, <1>2, BoundAssumption DEF Told, WalksTold, WalkTold, NoWalk
<1>4. m \in MachinesOf(who[walk[x].key]) /\ m \in Machine
  BY <1>2, <1>3, MachineInPool, MachinesType
<1>5. Known(r, who) /\ r.pool = walk[x].key /\ r.name = m
  BY <1>2, <1>4, RowForType DEF Known
<1>6. PICK o \in Uses : Told(who, o) /\ IsRow(i, r, o) /\ i \in Id
  BY <1>5, FreshIdTold
<1>7. <<walk[x].key, m>> = o[i]
  BY <1>5, <1>6 DEF IsRow
<1> HIDE DEF r
<1>8. RowsTold(who, o)'
  BY <1>1, <1>5, <1>6, SetRow DEF Told
<1>9. WalksTold(who, o)'
  BY <1>1, <1>2, <1>3, <1>6, <1>7, IdsDiffer, WalkMoves DEF daemon
<1>10. Told(who, o)'
  BY <1>1, <1>6, <1>8, <1>9, Frames DEF Told, host, daemon, bounds
<1> QED BY <1>10

LEMMA CleanPoolTold ==
  ASSUME NEW who \in Names, NEW of \in Uses, Told(who, of), NEW k \in Key, CleanPool(k)
  PROVE  Told(who, of)'
<1>1. /\ pc = "clean" /\ todo[k] # NoPool /\ walk[Daemon] = NoWalk /\ ~OnRow /\ ~Cleaning
      /\ UNCHANGED <<tables, host, wanted, batch, job, walk, cmd, bounds>>
  BY DaemonIdle DEF CleanPool, OnRow, Cleaning
<1>2. CASE pc' = "clean drop" /\ turn' = k /\ UNCHANGED todo
  <2>1. Cleaning'
    BY <1>2 DEF Cleaning
  <2>2. QueueTold(who, of)'
    BY <1>1, <1>2, <2>1, KeyAssumption DEF Told, QueueTold, Known, IsRow
  <2> QED BY <1>1, <1>2, <2>1, <2>2, PhaseTold, Frames DEF Told, tables, host, bounds
<1>3. CASE Visited(k) /\ UNCHANGED <<pc, turn>>
  <2>1. ~Cleaning'
    BY <1>1, <1>3 DEF Cleaning
  <2> QED BY <1>1, <1>3, <2>1, VisitedTold, PhaseTold, Frames DEF Told, tables, host, bounds
<1> QED BY <1>2, <1>3 DEF CleanPool

LEMMA CleanDropTold ==
  ASSUME NEW who \in Names, NEW of \in Uses, Told(who, of), CleanDrop
  PROVE  Told(who, of)'
<1>1. /\ Cleaning /\ Cleaning' /\ turn \in Key /\ walk[Daemon] = NoWalk /\ ~OnRow
      /\ UNCHANGED <<host, wanted, todo, turn, batch, job, walk, cmd, bounds>>
  BY DaemonIdle DEF CleanDrop, Cleaning, OnRow, Told, QueueTold
<1>2. PoolsTold(who)' /\ RowsTold(who, of)'
  BY <1>1, WithoutTold, CascadeTold DEF Told, CleanDrop
<1>3. JobTold(who, of)' /\ WalksTold(who, of)'
  BY <1>1, PhaseTold
<1>4. QueueTold(who, of)'
  BY <1>1 DEF Told, QueueTold, Known, IsRow
<1> QED BY <1>1, <1>2, <1>3, <1>4, Frames DEF Told, host, bounds

LEMMA CleanSaveTold ==
  ASSUME NEW who \in Names, NEW of \in Uses, Told(who, of), CleanSave
  PROVE  \E w \in Names : Told(w, of)'
<1>1. /\ Cleaning /\ turn \in Key /\ todo[turn] \in Pool /\ todo[turn].name \in Name
      /\ walk[Daemon] = NoWalk /\ ~OnRow /\ UNCHANGED <<rows, host, wanted, cmd, bounds>>
  BY DaemonIdle, PoolFields DEF CleanSave, Cleaning, OnRow, Told, QueueTold, TodoTold
<1>2. CASE /\ \E j \in FreshKey : pools' = SavedPool(j, todo[turn])
           /\ Visited(turn) /\ turn' = NoKey /\ pc' = "clean" /\ UNCHANGED <<batch, job, walk>>
  <2>1. PICK j \in FreshKey : pools' = SavedPool(j, todo[turn])
    BY <1>2
  <2>2. PICK w \in Names : Told(w, of) /\ w[j] = todo[turn].name /\ j \in Key
    BY <1>1, FreshKeyTold
  <2>3. PoolsTold(w)'
    BY <1>1, <2>1, <2>2, SetPool DEF Told, SavedPool
  <2>4. TodoTold(w)'
    BY <1>1, <1>2, <2>2, VisitedTold
  <2>5. JobTold(w, of)' /\ WalksTold(w, of)'
    BY <1>1, <1>2, <2>2, PhaseTold
  <2>6. QueueTold(w, of)'
    BY <1>2, <2>2 DEF Told, QueueTold, Cleaning, Known, IsRow
  <2>7. Told(w, of)'
    BY <1>1, <2>2, <2>3, <2>4, <2>5, <2>6, Frames DEF Told, host, bounds
  <2> QED BY <2>7
<1>3. CASE Halt /\ UNCHANGED pools
  BY <1>1, <1>3, HaltsTold DEF host, bounds
<1> QED BY <1>2, <1>3 DEF CleanSave

LEMMA RetryTold ==
  ASSUME NEW who \in Names, NEW of \in Uses, Told(who, of), Retry
  PROVE  \E o \in Uses : Told(who, o)'
<1>1. OnRow /\ pc = "retry" /\ walk[Daemon] = NoWalk /\ Known(job.row, who)
      /\ ToLoop /\ UNCHANGED <<pools, host, wanted, cmd, bounds>> /\ job.id \in Id \cup {NoId}
  BY JobFields DEF Retry, OnRow, Known
<1>2. PICK i \in IF job.id # NoId THEN {job.id} ELSE FreshId : rows' = [rows EXCEPT ![i] = job.row]
  BY DEF Retry
<1>3. PICK o \in Uses : Told(who, o) /\ IsRow(i, job.row, o) /\ i \in Id
  <2>1. CASE job.id # NoId
    BY <1>1, <1>2, <2>1, JobFields
  <2>2. CASE job.id = NoId
    BY <1>1, <1>2, <2>2, FreshIdTold
  <2> QED BY <2>1, <2>2
<1>4. RowsTold(who, o)'
  BY <1>1, <1>2, <1>3, SetRow DEF Told
<1>5. TodoTold(who)' /\ QueueTold(who, o)' /\ JobTold(who, o)' /\ WalksTold(who, o)'
  BY <1>1, <1>3, ToLoopTold
<1>6. Told(who, o)'
  BY <1>1, <1>3, <1>4, <1>5, Frames DEF Told, host, bounds
<1> QED BY <1>6

-----------------------------------------------------------------------------
(* The operators.                                                          *)

LEMMA GiveTold ==
  ASSUME NEW who, NEW of, Told(who, of), NEW o, Give(o), UNCHANGED host,
         wanted' \subseteq Name, UNCHANGED faults \/ \E kind \in {"crash", "host"} : Fault(kind)
  PROVE  HostOK'
BY BoundAssumption DEF Give, More, Told, HostOK, host, Fault

\* The key of a pool that is added, and the name of its pool.
LEMMA AddedTold ==
  ASSUME NEW who \in Names, NEW of \in Uses, Told(who, of), NEW p \in Name, NEW k \in Key,
         NEW pool \in Pool, pool.name = p, pools' = [pools EXCEPT ![k] = pool],
         k \in FreshKey \/ k \in Named(p)
  PROVE  \E w \in Names : Told(w, of) /\ PoolsTold(w)' /\ w[k] = p
<1>1. PICK w \in Names : Told(w, of) /\ w[k] = p
  <2>1. CASE k \in FreshKey
    BY <2>1, FreshKeyTold
  <2>2. CASE k \in Named(p)
    <3>1. pools[k].name = p
      BY <2>2 DEF Named
    <3>2. pools[k] # NoPool
      BY <3>1, KeyAssumption DEF NoPool
    <3> QED BY <3>1, <3>2, TodoTypes
  <2> QED BY <2>1, <2>2
<1>2. PoolsTold(w)'
  BY <1>1, SetPool DEF Told
<1> QED BY <1>1, <1>2

LEMMA OperatorWalks ==
  ASSUME NEW who \in Names, NEW of, Told(who, of), NEW o \in Operator, NEW k \in Key,
         NEW pool \in Pool, pool.name = who[k], StartWalk(o, k, pool), UNCHANGED pc
  PROVE  WalksTold(who, of)'
<1> DEFINE w == [mode |-> "count", key |-> k, name |-> pool.name, max |-> pool.max, at |-> 0,
                 missing |-> 0, id |-> NoId, rest |-> {}]
<1>1. walk' = [walk EXCEPT ![o] = w] /\ o \in Process /\ o # Daemon
  BY ProcessAssumption DEF StartWalk, Process
<1>2. w \in Walk /\ WalkTold(w, who, of)
  BY WalkStarts
<1> HIDE DEF w
<1> QED BY <1>1, <1>2, SetWalk, WalksNext DEF Told, WalksTold

LEMMA BeginTold ==
  ASSUME NEW who, NEW of, Told(who, of), NEW o \in Operator, NEW op \in Commands, NEW k \in Key,
         NEW pool \in Pool \cup {NoPool}, NEW i \in Id \cup {NoId}, NEW row \in Row \cup {NoRow},
         Begin(o, op, k, pool, i, row),
         pool # NoPool => op \in {"incr", "decr", "remove", "purge"} /\ pool.name = who[k],
         op \in {"incr", "decr"} => pool # NoPool /\ Resized(pool, op) \in Size,
         op \in {"release", "reserve"} => i # NoId,
         i # NoId => row.pool = k /\ Known(row, who) /\ IsRow(i, row, of),
         i = NoId => row = NoRow
  PROVE  CmdsTold(who, of)'
<1> DEFINE c == [op |-> op, key |-> k, pool |-> pool, id |-> i, row |-> row, todo |-> {}]
<1>1. cmd' = [cmd EXCEPT ![o] = c]
  BY DEF Begin
<1>2. c \in Cmd /\ CmdTold(c, who, of)
  BY CmdBegins
<1> HIDE DEF c
<1> QED BY <1>1, <1>2, SetCmd DEF Told

LEMMA AddTold ==
  ASSUME NEW who \in Names, NEW of \in Uses, Told(who, of), NEW o \in Operator, NEW p \in Name,
         NEW n \in 1..MaxSize, "add" \in Commands, Add(o, p, n)
  PROVE  \E w \in Names : Told(w, of)'
<1>1. PICK k \in Key : /\ Added(o, p, n, k, TRUE) /\ StartWalk(o, k, PoolOf(p, n, TRUE))
                       /\ Begin(o, "add", k, NoPool, NoId, NoRow)
  BY DEF Add
<1>2. Give(o) /\ wanted' = wanted \cup {p} /\ UNCHANGED <<rows, host, daemon, faults>>
  BY <1>1 DEF Add, Added
<1>3. PICK w \in Names : Told(w, of) /\ PoolsTold(w)' /\ w[k] = p
  <2>1. PoolOf(p, n, TRUE) \in Pool /\ PoolOf(p, n, TRUE).name = p
    BY PoolOfType
  <2>2. /\ pools' = [pools EXCEPT ![k] = PoolOf(p, n, TRUE)]
        /\ k \in FreshKey \/ k \in Named(p)
    BY <1>1 DEF Added, SavedPool
  <2> QED BY <2>1, <2>2, AddedTold
<1>4. WalksTold(w, of)'
  <2>1. PoolOf(p, n, TRUE) \in Pool /\ PoolOf(p, n, TRUE).name = w[k] /\ UNCHANGED pc
    BY <1>2, <1>3, PoolOfType DEF daemon
  <2> QED BY <1>1, <1>3, <2>1, OperatorWalks
<1>5. CmdsTold(w, of)'
  BY <1>1, <1>3, BeginTold
<1>6. HostOK'
  BY <1>2, GiveTold DEF Told, HostOK
<1>7. Told(w, of)'
  BY <1>2, <1>3, <1>4, <1>5, <1>6, Frames DEF Told, daemon
<1> QED BY <1>7

LEMMA AddUnreachableTold ==
  ASSUME NEW who \in Names, NEW of \in Uses, Told(who, of), NEW o \in Operator, NEW p \in Name,
         NEW n \in 1..MaxSize, AddUnreachable(o, p, n)
  PROVE  \E w \in Names : Told(w, of)'
<1>1. PICK k \in Key : Added(o, p, n, k, TRUE)
  BY DEF AddUnreachable
<1>2. /\ Give(o) /\ Fault("host") /\ wanted' = wanted \cup {p}
      /\ UNCHANGED <<rows, host, daemon, walk, cmd>>
  BY <1>1 DEF AddUnreachable, Added
<1>3. PICK w \in Names : Told(w, of) /\ PoolsTold(w)' /\ w[k] = p
  <2>1. PoolOf(p, n, TRUE) \in Pool /\ PoolOf(p, n, TRUE).name = p
    BY PoolOfType
  <2>2. /\ pools' = [pools EXCEPT ![k] = PoolOf(p, n, TRUE)]
        /\ k \in FreshKey \/ k \in Named(p)
    BY <1>1 DEF Added, SavedPool
  <2> QED BY <2>1, <2>2, AddedTold
<1>4. HostOK'
  BY <1>2, GiveTold DEF Told, HostOK
<1>5. Told(w, of)'
  BY <1>2, <1>3, <1>4, Frames DEF Told, daemon
<1> QED BY <1>5

LEMMA AddUnknownTold ==
  ASSUME NEW who \in Names, NEW of \in Uses, Told(who, of), NEW o \in Operator, NEW p \in Name,
         NEW n \in 1..MaxSize, AddUnknown(o, p, n)
  PROVE  \E w \in Names : Told(w, of)'
<1>1. PICK k \in Key : Added(o, p, n, k, FALSE)
  BY DEF AddUnknown
<1>2. Give(o) /\ UNCHANGED <<rows, host, wanted, daemon, walk, cmd, faults>>
  BY <1>1 DEF AddUnknown, Added
<1>3. PICK w \in Names : Told(w, of) /\ PoolsTold(w)' /\ w[k] = p
  <2>1. PoolOf(p, n, FALSE) \in Pool /\ PoolOf(p, n, FALSE).name = p
    BY PoolOfType
  <2>2. /\ pools' = [pools EXCEPT ![k] = PoolOf(p, n, FALSE)]
        /\ k \in FreshKey \/ k \in Named(p)
    BY <1>1 DEF Added, SavedPool
  <2> QED BY <2>1, <2>2, AddedTold
<1>4. HostOK'
  BY <1>2, GiveTold DEF Told, HostOK
<1>5. Told(w, of)'
  BY <1>2, <1>3, <1>4, Frames DEF Told, daemon
<1> QED BY <1>5

LEMMA ReadTold ==
  ASSUME NEW who \in Names, NEW of \in Uses, Told(who, of), NEW o \in Operator, NEW k \in Key,
         NEW op \in Commands, RemoveRead(o, k, op) \/ IncrRead(o, k, op)
  PROVE  Told(who, of)'
<1>1. /\ pools[k] # NoPool /\ Begin(o, op, k, pools[k], NoId, NoRow)
      /\ Give(o) /\ UNCHANGED <<tables, host, wanted, daemon, walk, faults>>
  BY DEF RemoveRead, IncrRead
<1>2. pools[k] \in Pool /\ pools[k].name = who[k]
  BY <1>1, TodoTypes
<1>3. op \in {"incr", "decr", "remove", "purge"}
      /\ (op \in {"incr", "decr"} => Resized(pools[k], op) \in Size)
  BY DEF RemoveRead, IncrRead
<1>4. CmdsTold(who, of)'
  BY <1>1, <1>2, <1>3, BeginTold
<1>5. HostOK'
  BY <1>1, GiveTold DEF Told, HostOK
<1> QED BY <1>1, <1>4, <1>5, Frames DEF Told, tables, daemon

LEMMA RowReadTold ==
  ASSUME NEW who \in Names, NEW of \in Uses, Told(who, of), NEW o \in Operator, NEW i \in Id,
         NEW op \in Commands, RowRead(o, i, op)
  PROVE  Told(who, of)'
<1>1. /\ op \in {"release", "reserve"} /\ rows[i] # NoRow
      /\ Begin(o, op, rows[i].pool, NoPool, i, rows[i])
      /\ Give(o) /\ UNCHANGED <<tables, host, wanted, daemon, walk, faults>>
  BY DEF RowRead
<1>2. rows[i] \in Row /\ Known(rows[i], who) /\ IsRow(i, rows[i], of) /\ rows[i].pool \in Key
  BY <1>1, RowFields DEF Told, RowsTold
<1>3. CmdsTold(who, of)'
  BY <1>1, <1>2, IdsDiffer, BeginTold
<1>4. HostOK'
  BY <1>1, GiveTold DEF Told, HostOK
<1> QED BY <1>1, <1>3, <1>4, Frames DEF Told, tables, daemon

LEMMA CmdFields ==
  ASSUME NEW who, NEW of, Told(who, of), NEW o \in Operator, cmd[o].op # "none"
  PROVE  /\ cmd[o] \in Cmd /\ cmd[o].op \in Commands /\ cmd[o].key \in Key
         /\ CmdTold(cmd[o], who, of)
BY DEF Told, CmdsTold, CmdTold, Cmd

LEMMA FinishedTold ==
  ASSUME NEW who, NEW of, Told(who, of), NEW o \in Operator, Finished(o)
  PROVE  CmdsTold(who, of)'
BY NoCmdTold DEF Finished, Told

LEMMA WithRowsTold ==
  ASSUME NEW who, NEW of, Told(who, of), NEW o \in Operator, cmd[o].op \in {"remove", "purge"},
         NEW todos \in SUBSET Copy, \A t \in todos : IsCopy(t, cmd[o].key, who, of),
         cmd' = [cmd EXCEPT ![o] = WithRows(cmd[o], todos)]
  PROVE  CmdsTold(who, of)'
<1> DEFINE c == WithRows(cmd[o], todos)
<1>1. cmd[o].op \in Commands /\ cmd[o].key \in Key
  BY CmdFields
<1>2. /\ c.op = cmd[o].op /\ c.key = cmd[o].key /\ c.pool = NoPool /\ c.id = NoId /\ c.row = NoRow
      /\ c.todo = todos
  BY DEF WithRows
<1>3. c \in Cmd
  BY <1>1 DEF WithRows, Cmd
<1> HIDE DEF c
<1>4. CmdTold(c, who, of)
  BY <1>1, <1>2, <1>3 DEF CmdTold
<1>5. cmd' = [cmd EXCEPT ![o] = c]
  BY DEF c
<1> QED BY <1>3, <1>4, <1>5, SetCmd DEF Told

\* A pool object that an operator saves with another size.
LEMMA SavedTold ==
  ASSUME NEW who, NEW of, Told(who, of), NEW o \in Operator, cmd[o].pool # NoPool, NEW n \in Size,
         pools' = SavedPool(cmd[o].key, [cmd[o].pool EXCEPT !.max = n])
  PROVE  PoolsTold(who)'
<1>1. cmd[o].op # "none"
  BY DEF Told, CmdsTold, CmdTold, NoCmd
<1>2. cmd[o].pool \in Pool /\ cmd[o].pool.name = who[cmd[o].key] /\ cmd[o].key \in Key
  BY <1>1, CmdFields DEF CmdTold, Cmd
<1>3. /\ [cmd[o].pool EXCEPT !.max = n] \in Pool
      /\ [cmd[o].pool EXCEPT !.max = n].name = who[cmd[o].key]
  BY <1>2, PoolMaxType
<1> QED BY <1>2, <1>3, SetPool DEF Told, SavedPool

LEMMA RemoveSaveTold ==
  ASSUME NEW who \in Names, NEW of \in Uses, Told(who, of), NEW o \in Operator, RemoveSave(o)
  PROVE  Told(who, of)'
<1> DEFINE todos == Copies(RowsOf(cmd[o].key))
<1>1. /\ cmd[o].op \in {"remove", "purge"} /\ cmd[o].pool # NoPool /\ cmd[o].key \in Key
      /\ UNCHANGED <<rows, host, daemon, walk, bounds>>
  BY CmdFields DEF RemoveSave
<1>2. CASE /\ pools' = SavedPool(cmd[o].key, [cmd[o].pool EXCEPT !.max = 0])
           /\ cmd' = [cmd EXCEPT ![o] = WithRows(cmd[o], todos)]
           /\ wanted' = wanted \ {cmd[o].pool.name}
  <2>1. PoolsTold(who)'
    BY <1>1, <1>2, BoundAssumption, SavedTold DEF Size
  <2>2. todos \in SUBSET Copy /\ \A t \in todos : IsCopy(t, cmd[o].key, who, of)
    BY <1>1, CopiesTold
  <2> HIDE DEF todos
  <2>4. CmdsTold(who, of)'
    BY <1>1, <1>2, <2>2, WithRowsTold
  <2>5. HostOK'
    BY <1>1, <1>2 DEF Told, HostOK, host, bounds
  <2> QED BY <1>1, <2>1, <2>4, <2>5, Frames DEF Told, daemon
<1>3. CASE Finished(o) /\ UNCHANGED <<pools, wanted>>
  BY <1>1, <1>3, FinishedTold, Frames DEF Told, host, daemon, bounds
<1> QED BY <1>2, <1>3 DEF RemoveSave

LEMMA RemoveRowTold ==
  ASSUME NEW who \in Names, NEW of \in Uses, Told(who, of), NEW o \in Operator,
         NEW t \in cmd[o].todo, RemoveRow(o, t) \/ PurgeRow(o, t)
  PROVE  Told(who, of)'
<1>1. /\ cmd[o].op \in {"remove", "purge"} /\ UNCHANGED <<pools, vm, wanted, daemon, walk, bounds>>
      /\ cmd' = [cmd EXCEPT ![o] = WithRows(cmd[o], cmd[o].todo \ {t})]
  BY DEF RemoveRow, PurgeRow, host
<1>2. CmdTold(cmd[o], who, of) /\ cmd[o].todo \in SUBSET Copy
  BY <1>1, CmdFields DEF Cmd
<1>3. /\ t.id \in Id /\ t.pool \in Key /\ t.name \in Machine
      /\ t.name \in MachinesOf(who[t.pool]) /\ <<t.pool, t.name>> = of[t.id]
  BY <1>2 DEF CmdTold, IsCopy, Copy
<1>4. CmdsTold(who, of)'
  <2>1. cmd[o].todo \ {t} \in SUBSET Copy
    BY <1>2
  <2>2. \A u \in cmd[o].todo \ {t} : IsCopy(u, cmd[o].key, who, of)
    BY <1>2 DEF CmdTold
  <2> QED BY <1>1, <2>1, <2>2, WithRowsTold
<1>5. RowsTold(who, of)'
  <2>1. CASE RemoveRow(o, t)
    <3>1. LET r == RowFor(t.pool, t.name, "RESERVED", "destroy")
          IN  Known(r, who) /\ IsRow(t.id, r, of)
      BY <1>3, RowForTold
    <3> QED BY <1>3, <2>1, <3>1, SetRow DEF RemoveRow, Told
  <2>2. CASE PurgeRow(o, t)
    BY <1>3, <2>2, SetRow DEF PurgeRow, Told
  <2> QED BY <2>1, <2>2
<1>6. abandoned' \subseteq Machine
  BY <1>3 DEF RemoveRow, PurgeRow, host, Told, HostOK
<1>7. HostOK'
  BY <1>1, <1>6 DEF Told, HostOK, bounds
<1> QED BY <1>1, <1>4, <1>5, <1>7, Frames DEF Told, daemon

LEMMA RemoveEndTold ==
  ASSUME NEW who \in Names, NEW of \in Uses, Told(who, of), NEW o \in Operator, RemoveEnd(o)
  PROVE  Told(who, of)'
<1> DEFINE k == cmd[o].key
<1>1. k \in Key /\ Finished(o) /\ UNCHANGED <<vm, wanted, daemon, walk, bounds>>
  BY CmdFields DEF RemoveEnd
<1>2. CmdsTold(who, of)'
  BY <1>1, FinishedTold
<1>3. CASE UNCHANGED <<tables, abandoned>>
  BY <1>1, <1>2, <1>3, Frames DEF Told, tables, daemon, bounds
<1>4. CASE /\ pools' = Without(k) /\ rows' = Cascaded(k)
           /\ abandoned' = abandoned \cup {rows[i].name : i \in RowsOf(k)}
  <2>1. PoolsTold(who)' /\ RowsTold(who, of)'
    BY <1>1, <1>4, WithoutTold, CascadeTold DEF Told
  <2>2. \A i \in RowsOf(k) : rows[i].name \in Machine
    BY <1>1, NullRow, KeyAssumption, RowFields DEF RowsOf, Told, RowsTold
  <2>3. HostOK'
    BY <1>1, <1>4, <2>2 DEF Told, HostOK, bounds
  <2> QED BY <1>1, <1>2, <2>1, <2>3, Frames DEF Told, daemon
<1> QED BY <1>3, <1>4 DEF RemoveEnd

LEMMA IncrSaveTold ==
  ASSUME NEW who \in Names, NEW of \in Uses, Told(who, of), NEW o \in Operator, IncrSave(o)
  PROVE  Told(who, of)'
<1> DEFINE n == Resized(cmd[o].pool, cmd[o].op)
<1>1. /\ cmd[o].op \in {"incr", "decr"} /\ Finished(o)
      /\ UNCHANGED <<rows, host, daemon, walk, bounds>>
  BY DEF IncrSave
<1>2. cmd[o].pool # NoPool /\ n \in Size
  BY <1>1, CmdFields DEF CmdTold
<1>3. PoolsTold(who)'
  <2>1. CASE pools' = SavedPool(cmd[o].key, [cmd[o].pool EXCEPT !.max = n])
    BY <1>2, <2>1, SavedTold
  <2>2. CASE UNCHANGED pools
    BY <2>2, Frames
  <2> QED BY <2>1, <2>2 DEF IncrSave
<1>4. wanted' \subseteq wanted
  BY DEF IncrSave
<1>5. HostOK'
  BY <1>1, <1>4 DEF Told, HostOK, host, bounds
<1>6. CmdsTold(who, of)'
  BY <1>1, FinishedTold
<1> QED BY <1>1, <1>3, <1>5, <1>6, Frames DEF Told, daemon

LEMMA StatusType ==
  ASSUME NEW r \in Row
  PROVE  /\ [r EXCEPT !.status = "RESERVED"] \in Row
         /\ [r EXCEPT !.status = "RESERVED"].pool = r.pool
         /\ [r EXCEPT !.status = "RESERVED"].name = r.name
BY DEF Row

LEMMA RowSaveTold ==
  ASSUME NEW who \in Names, NEW of \in Uses, Told(who, of), NEW o \in Operator, RowSave(o)
  PROVE  Told(who, of)'
<1> DEFINE c == cmd[o]
           r == IF c.op = "reserve" THEN [c.row EXCEPT !.status = "RESERVED"]
                ELSE RowFor(c.row.pool, c.row.name, "PENDING", "destroy")
<1>1. /\ c.op \in {"release", "reserve"} /\ Finished(o) /\ rows' = [rows EXCEPT ![c.id] = r]
      /\ UNCHANGED <<pools, host, wanted, daemon, walk, bounds>>
  BY DEF RowSave
<1>2. c.id \in Id /\ Known(c.row, who) /\ IsRow(c.id, c.row, of)
  BY <1>1, CmdFields DEF CmdTold, Cmd
<1>3. c.row \in Row /\ c.row.pool \in Key /\ c.row.name \in MachinesOf(who[c.row.pool])
      /\ <<c.row.pool, c.row.name>> = of[c.id]
  BY <1>2, RowFields DEF Known, IsRow
<1>4. Known(r, who) /\ IsRow(c.id, r, of)
  <2>1. CASE c.op = "reserve"
    BY <1>3, <2>1, StatusType DEF Known, IsRow
  <2>2. CASE c.op # "reserve"
    BY <1>2, <1>3, <2>2, RowForTold
  <2> QED BY <2>1, <2>2
<1> HIDE DEF r
<1>5. RowsTold(who, of)'
  BY <1>1, <1>2, <1>4, SetRow DEF Told
<1>6. CmdsTold(who, of)'
  BY <1>1, FinishedTold
<1> QED BY <1>1, <1>5, <1>6, Frames DEF Told, host, daemon, bounds

LEMMA ClientTold ==
  ASSUME NEW who \in Names, NEW of \in Uses, Told(who, of), NEW i \in Id, Acquire(i) \/ Expire(i)
  PROVE  Told(who, of)'
<1>1. rows[i] # NoRow
  BY DEF Acquire, Expire, NoRow
<1>2. rows[i] \in Row /\ Known(rows[i], who) /\ IsRow(i, rows[i], of)
  BY <1>1 DEF Told, RowsTold
<1>3. /\ rows' \in [Id -> Row \cup {NoRow}] /\ \A j \in Id : j # i => rows'[j] = rows[j]
      /\ rows'[i] \in Row /\ rows'[i].pool = rows[i].pool /\ rows'[i].name = rows[i].name
  <2>1. CASE Acquire(i)
    BY <1>2, <2>1 DEF Acquire, Row, Told, RowsTold
  <2>2. CASE Expire(i)
    BY <1>2, <2>2 DEF Expire, Row, Told, RowsTold
  <2> QED BY <2>1, <2>2
<1>4. Known(rows'[i], who) /\ IsRow(i, rows'[i], of)
  BY <1>2, <1>3 DEF Known, IsRow
<1>5. RowsTold(who, of)'
  BY <1>3, <1>4, SomeRows DEF Told
<1> QED BY <1>5, Frames DEF Told, Acquire, Expire, host, daemon, bounds

-----------------------------------------------------------------------------
(* Bookkeeping.                                                            *)

LEMMA StartupTold ==
  ASSUME NEW who \in Names, NEW of \in Uses, Told(who, of), Startup \/ Handle \/ Mishap
  PROVE  \E w \in Names, u \in Uses : Told(w, u)'
<1>1. CASE Start \/ PhaseDone \/ CleanDrop \/ CleanSave \/ Crash \/ Unreachable
  BY <1>1, StartTold, PhaseDoneTold, CleanDropTold, CleanSaveTold, HaltingTold, UnreachableTold
<1>2. ASSUME NEW k \in Key, CleanPool(k) \/ SetupPool(k) \/ MainAdapt(k) \/ ProductUnknown(k) \/ PoolFails(k)
      PROVE  \E w \in Names : Told(w, of)'
  BY <1>2, CleanPoolTold, SetupPoolTold, MainAdaptTold, HaltingTold, PoolFailsTold
<1>3. CASE PoolMissing \/ DestroyVm \/ DestroyRow \/ Clone \/ AttrReady
  BY <1>3, PoolMissingTold, DestroyVmTold, DestroyRowTold, CloneTold, AttrReadyTold
<1>4. CASE AttrAgain \/ Blame \/ Check \/ Drop \/ Retry
  BY <1>4, AttrAgainTold, BlameTold, CheckTold, DropTold, RetryTold
<1>5. CASE Shown \/ Poll \/ \E i \in Id : DropDangling(i) \/ Pick(i)
  BY <1>5, ShownTold, PollTold, DropDanglingTold, PickTold
<1> QED BY <1>1, <1>2, <1>3, <1>4, <1>5 DEF Startup, Handle, Mishap

LEMMA AdaptTold ==
  ASSUME NEW who \in Names, NEW of \in Uses, Told(who, of), NEW x \in Process,
         Adapt(x) \/ AdaptFails(x)
  PROVE  \E w \in Names, u \in Uses : Told(w, u)'
<1>1. CASE AdaptEnough(x) \/ AdaptMany(x) \/ AdaptList(x) \/ AdaptFew(x) \/ AdaptLook(x)
  BY <1>1, AdaptEnoughTold, AdaptManyTold, AdaptListTold, AdaptFewTold, AdaptLookTold
<1>2. CASE AdaptCreate(x)
  BY <1>2, AdaptCreateTold
<1>3. CASE AdaptMark(x) \/ AdaptDone(x) \/ AdaptFails(x)
  BY <1>3, AdaptMarkTold, AdaptEnoughTold, AdaptFailsTold
<1>4. CASE \E t \in walk[x].rest : AdaptShrink(x, t)
  BY <1>4, AdaptShrinkTold
<1> QED BY <1>1, <1>2, <1>3, <1>4 DEF Adapt

LEMMA CommandTold ==
  ASSUME NEW who \in Names, NEW of \in Uses, Told(who, of), NEW o \in Operator,
         Command(o) \/ (Proceed(o) /\ ~Adapt(o))
  PROVE  \E w \in Names, u \in Uses : Told(w, u)'
<1>1. ASSUME NEW p \in Name, NEW n \in 1..MaxSize,
             \/ "add" \in Commands /\ (Add(o, p, n) \/ AddUnreachable(o, p, n))
             \/ "add unknown" \in Commands /\ AddUnknown(o, p, n)
      PROVE  \E w \in Names : Told(w, of)'
  BY <1>1, AddTold, AddUnreachableTold, AddUnknownTold
<1>2. ASSUME NEW k \in Key, NEW op \in Commands, RemoveRead(o, k, op) \/ IncrRead(o, k, op)
      PROVE  Told(who, of)'
  BY <1>2, ReadTold
<1>3. ASSUME NEW i \in Id, NEW op \in Commands, RowRead(o, i, op)
      PROVE  Told(who, of)'
  BY <1>3, RowReadTold
<1>4. CASE RemoveSave(o) \/ RemoveEnd(o) \/ IncrSave(o) \/ RowSave(o)
  BY <1>4, RemoveSaveTold, RemoveEndTold, IncrSaveTold, RowSaveTold
<1>5. ASSUME NEW t \in cmd[o].todo, RemoveRow(o, t) \/ PurgeRow(o, t)
      PROVE  Told(who, of)'
  BY <1>5, RemoveRowTold
<1> QED BY <1>1, <1>2, <1>3, <1>4, <1>5 DEF Command, Proceed

LEMMA BookkeepingInit == ASSUME Init PROVE Bookkeeping
<1>1. PICK p \in Name, k \in Key : TRUE
  BY KeyAssumption
<1>2. MachineOf(p, 0) \in Machine
  BY <1>1, BoundAssumption DEF Machine, Slot
<1> DEFINE who == [j \in Key |-> p]
           of == [i \in Id |-> <<k, MachineOf(p, 0)>>]
<1>3. who \in Names /\ of \in Uses
  BY <1>1, <1>2 DEF Names, Uses
<1> HIDE DEF who, of
<1>4. PoolsTold(who) /\ TodoTold(who) /\ RowsTold(who, of)
  BY DEF Init, PoolsTold, TodoTold, RowsTold, NoTodo
<1>9. QueueTold(who, of)
  BY DEF Init, QueueTold, Cleaning, NoBatch
<1>5. JobTold(who, of)
  BY Nulls DEF Init, JobTold, OnRow, NoJob, JobOf
<1>6. WalksTold(who, of)
  BY Nulls, NullWalk DEF Init, WalksTold, Process
<1>7. CmdsTold(who, of)
  BY Nulls, NullCmd DEF Init, CmdsTold
<1>8. HostOK
  BY BoundAssumption DEF Init, HostOK
<1> QED BY <1>3, <1>4, <1>5, <1>6, <1>7, <1>8, <1>9 DEF Bookkeeping, Told

LEMMA BookkeepingStep == ASSUME Bookkeeping, [Next]_vars PROVE Bookkeeping'
<1>1. PICK who \in Names, of \in Uses : Told(who, of)
  BY DEF Bookkeeping
<1> SUFFICES \E w \in Names, u \in Uses : Told(w, u)'
  BY DEF Bookkeeping
<1>2. CASE Startup \/ Handle \/ Mishap
  BY <1>1, <1>2, StartupTold
<1>3. ASSUME NEW x \in Process, Adapt(x) \/ AdaptFails(x)
      PROVE  \E w \in Names, u \in Uses : Told(w, u)'
  BY <1>1, <1>3, AdaptTold
<1>4. ASSUME NEW i \in Id, Acquire(i) \/ Expire(i)
      PROVE  Told(who, of)'
  BY <1>1, <1>4, ClientTold
<1>5. ASSUME NEW o \in Operator, Command(o) \/ (Proceed(o) /\ ~Adapt(o))
      PROVE  \E w \in Names, u \in Uses : Told(w, u)'
  BY <1>1, <1>5, CommandTold
<1>6. CASE UNCHANGED vars
  BY <1>1, <1>6, Frames DEF vars, daemon, bounds, Told
<1> QED BY <1>1, <1>2, <1>3, <1>4, <1>5, <1>6 DEF Next, Process

\* Every copy that a process has of a row or a pool, however old, is of the row
\* or the pool that the table has under its key.
THEOREM BookkeepingInvariant == Spec => []Bookkeeping
BY BookkeepingInit, BookkeepingStep, PTL DEF Spec

\* The types of the tables, the host and the memory of every process.
THEOREM TypeCorrect == Spec => []TypeOK
<1>1. Bookkeeping => TypeOK
  BY DEF Bookkeeping, Told, TypeOK, PoolsTold, RowsTold, TodoTold, QueueTold, JobTold, OnRow,
         Cleaning, WalksTold, CmdsTold, HostOK
<1> QED BY <1>1, BookkeepingInvariant, PTL

==============================================================================
