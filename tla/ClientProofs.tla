---------------------------- MODULE ClientProofs ----------------------------
(***************************************************************************)
(* For any handles, machines and expiration: what a handle counts on is    *)
(* what the server keeps until it withdraws it, although requests and      *)
(* answers take any time.                                                  *)
(***************************************************************************)
EXTENDS Client, TLAPS

Types ==
  /\ stage \in [Slot -> Stage] /\ holder \in [Slot -> SUBSET Client]
  /\ left \in [Slot -> 0..Expiration]
  /\ pc \in [Client -> Place]
  /\ vm \in [Client -> Slot \cup {NoSlot}]
  /\ answer \in [Client -> Slot \cup {NoSlot}]
  /\ trust \in [Client -> 0..Expiration] /\ withdrawn \subseteq Client

\* The server has s leased to h for at least as long as h counts on it.
Backs(h, s) == /\ s \in Slot /\ stage[s] = "leased" /\ holder[s] = {h}
               /\ trust[h] <= left[s]

\* So it is from the moment the answer is on its way, until it is withdrawn.
Relies(h) == trust[h] > 0 /\ h \notin withdrawn
Kept(h) == /\ answer[h] # NoSlot => pc[h] = "wait"
           /\ Relies(h) => /\ answer[h] # NoSlot => Backs(h, answer[h])
                           /\ pc[h] = "in" => Backs(h, vm[h])

Inv == Types /\ \A h \in Client : Kept(h)

-----------------------------------------------------------------------------
LEMMA InitInv == Init => Inv
BY ClientAssumption
   DEF Init, ContractInit, Inv, Types, Kept, Stage, Place

\* A handle whose lease on the server is left alone, and which does not move.
LEMMA KeptStays ==
  ASSUME Types, Types', NEW k \in Client, Kept(k),
         pc'[k] = pc[k], vm'[k] = vm[k], answer'[k] = answer[k], trust'[k] = trust[k],
         k \in withdrawn => k \in withdrawn',
         \A t \in Slot : Backs(k, t) /\ Relies(k) =>
            stage'[t] = stage[t] /\ holder'[t] = holder[t] /\ left'[t] = left[t]
  PROVE  Kept(k)'
<1>1. \A t \in Slot : Backs(k, t) /\ Relies(k) => Backs(k, t)'
  BY DEF Backs
<1>2. Relies(k)' => Relies(k)
  BY DEF Relies
<1>3. Relies(k)' /\ answer'[k] # NoSlot => Backs(k, answer[k])'
  BY <1>1, <1>2 DEF Kept, Backs
<1>4. Relies(k)' /\ pc'[k] = "in" => Backs(k, vm[k])'
  BY <1>1, <1>2 DEF Kept, Backs
<1> QED BY <1>3, <1>4 DEF Kept

\* What a step of the handle h, which leaves the server alone, owes.
LEMMA OwnStep ==
  ASSUME Inv, Types', NEW h \in Client, UNCHANGED server,
         \A k \in Client \ {h} : /\ pc'[k] = pc[k] /\ vm'[k] = vm[k]
                                 /\ answer'[k] = answer[k] /\ trust'[k] = trust[k]
                                 /\ k \in withdrawn => k \in withdrawn',
         Kept(h)'
  PROVE  Inv'
<1>1. \A k \in Client \ {h} : Kept(k)'
  BY KeptStays DEF Inv, server
<1> QED BY <1>1 DEF Inv
-----------------------------------------------------------------------------
LEMMA DaemonInv == ASSUME Inv, NEW s \in Slot, Daemon(s) PROVE Inv'
<1>1. /\ pc' = pc /\ vm' = vm /\ answer' = answer /\ trust' = trust /\ left' = left
      /\ withdrawn' = withdrawn /\ Only(s)
  BY DEF Daemon, Reclaim, Rebuild
<1>2. Types'
  BY <1>1 DEF Inv, Types, Only
<1>3. \A t \in Slot \ {s} : stage'[t] = stage[t] /\ holder'[t] = holder[t]
  BY <1>1 DEF Only, Inv, Types
<1>4. stage[s] = "leased" => left[s] = 0
  BY DEF Daemon, Reclaim, Rebuild, Wipe, Build
<1>5. ASSUME NEW k \in Client PROVE Kept(k)'
  <2>1. ASSUME NEW t \in Slot, Backs(k, t), Relies(k) PROVE t # s
    <3>1. trust[k] \in Nat
      BY ClientAssumption DEF Inv, Types
    <3> QED BY <2>1, <3>1, <1>4 DEF Backs, Relies
  <2> QED BY <1>1, <1>2, <1>3, <2>1, KeptStays DEF Inv
<1> QED BY <1>2, <1>5 DEF Inv

\* A handle that loses the lease it counts on is among the withdrawn.
LEMMA WithdrawInv == ASSUME Inv, NEW S \in SUBSET Slot, Withdraw(S) PROVE Inv'
<1>1. /\ pc' = pc /\ vm' = vm /\ answer' = answer /\ trust' = trust
      /\ withdrawn' = withdrawn \cup {h \in Client : \E s \in S : Holds(h, s)}
      /\ \A t \in Slot \ S : stage'[t] = stage[t] /\ holder'[t] = holder[t]
                            /\ left'[t] = left[t]
  BY DEF Withdraw
<1>2. Types'
  <2>1. stage' \in [Slot -> Stage]
    BY DEF Withdraw, Inv, Types, Stage
  <2>2. holder' \in [Slot -> SUBSET Client]
    BY DEF Withdraw, Inv, Types
  <2>3. left' \in [Slot -> 0..Expiration]
    BY ClientAssumption DEF Withdraw, Inv, Types
  <2> QED BY <1>1, <2>1, <2>2, <2>3 DEF Inv, Types
<1>3. ASSUME NEW k \in Client PROVE Kept(k)'
  <2>1. CASE k \in withdrawn'
    BY <2>1, <1>1 DEF Kept, Inv, Relies
  <2>2. CASE k \notin withdrawn'
    <3>1. \A s \in S : ~Holds(k, s)
      BY <2>2, <1>1
    <3>2. Relies(k)' => Relies(k)
      BY <1>1 DEF Relies
    <3>3. Relies(k) /\ answer[k] # NoSlot => Backs(k, answer[k]) /\ answer[k] \notin S
      BY <3>1 DEF Inv, Kept, Backs, Holds
    <3>4. Relies(k) /\ pc[k] = "in" => Backs(k, vm[k]) /\ vm[k] \notin S
      BY <3>1 DEF Inv, Kept, Backs, Holds
    <3>5. \A t \in Slot \ S : Backs(k, t) => Backs(k, t)'
      BY <1>1 DEF Backs
    <3>6. Relies(k)' /\ answer'[k] # NoSlot => Backs(k, answer[k])'
      BY <1>1, <3>2, <3>3, <3>5 DEF Backs
    <3>7. Relies(k)' /\ pc'[k] = "in" => Backs(k, vm[k])'
      BY <1>1, <3>2, <3>4, <3>5 DEF Backs
    <3> QED BY <1>1, <3>6, <3>7 DEF Kept, Inv
  <2> QED BY <2>1, <2>2
<1> QED BY <1>2, <1>3 DEF Inv

LEMMA ServeInv == ASSUME Inv, NEW h \in Client, Serve(h) PROVE Inv'
<1>1. PICK s \in Slot : Granted(h, s) /\ answer' = [answer EXCEPT ![h] = s]
  BY DEF Serve
<1>2. /\ pc' = pc /\ vm' = vm /\ trust' = trust /\ withdrawn' = withdrawn
      /\ pc[h] = "wait" /\ Only(s)
      /\ left' = [left EXCEPT ![s] = Expiration]
      /\ stage[s] = "fresh" /\ stage'[s] = "leased" /\ holder'[s] = {h}
  BY <1>1 DEF Serve, Granted, Grant
<1>3. Types'
  BY <1>1, <1>2, ClientAssumption DEF Inv, Types, Only
<1>4. \A t \in Slot \ {s} : stage'[t] = stage[t] /\ holder'[t] = holder[t] /\ left'[t] = left[t]
  BY <1>2 DEF Only, Inv, Types
<1>5. \A k \in Client \ {h} : Kept(k)'
  BY <1>1, <1>2, <1>3, <1>4, KeptStays DEF Inv, Types, Backs
<1>6. Kept(h)'
  <2>1. answer'[h] = s /\ left'[s] = Expiration /\ trust'[h] <= Expiration
    BY <1>1, <1>2, ClientAssumption DEF Inv, Types
  <2> QED BY <2>1, <1>2 DEF Kept, Backs
<1> QED BY <1>3, <1>5, <1>6 DEF Inv

LEMMA ReceiveInv == ASSUME Inv, NEW h \in Client, Receive(h) PROVE Inv'
<1>1. /\ pc[h] = "wait" /\ answer[h] # NoSlot /\ UNCHANGED server /\ trust' = trust
      /\ withdrawn' = withdrawn
      /\ pc' = [pc EXCEPT ![h] = "in"] /\ vm' = [vm EXCEPT ![h] = answer[h]]
      /\ answer' = [answer EXCEPT ![h] = NoSlot]
  BY DEF Receive, Goto
<1>2. Types'
  BY <1>1 DEF Inv, Types, Place, server
<1>3. Kept(h)'
  BY <1>1 DEF Inv, Types, Kept, Relies, Backs, server
<1> QED BY <1>1, <1>2, <1>3, OwnStep DEF Inv, Types

\* The other steps of a handle end what it counts on, or have not begun yet.
LEMMA VoidStep ==
  ASSUME Inv, NEW h \in Client, UNCHANGED server,
         NEW p \in Place \ {"in"}, pc' = [pc EXCEPT ![h] = p],
         NEW n \in 0..Expiration, trust' \in {trust, [trust EXCEPT ![h] = n]},
         vm' \in {vm, [vm EXCEPT ![h] = NoSlot]},
         answer' \in {answer, [answer EXCEPT ![h] = NoSlot]}, answer'[h] = NoSlot,
         withdrawn' \in {withdrawn, withdrawn \ {h}}
  PROVE  Inv'
<1>1. Types'
  BY DEF Inv, Types, server
<1>2. Kept(h)'
  BY DEF Kept, Inv, Types
<1>3. \A k \in Client \ {h} : /\ pc'[k] = pc[k] /\ vm'[k] = vm[k]
                              /\ answer'[k] = answer[k] /\ trust'[k] = trust[k]
                              /\ k \in withdrawn => k \in withdrawn'
  BY DEF Inv, Types
<1> QED BY <1>1, <1>2, <1>3, OwnStep

LEMMA ZeroTime == 0 \in 0..Expiration /\ Expiration \in 0..Expiration
BY ClientAssumption

LEMMA ReleasedInv == ASSUME Inv, NEW h \in Client, Released(h) PROVE Inv'
<1>1. /\ UNCHANGED server /\ UNCHANGED <<answer, trust, withdrawn>> /\ pc[h] # "wait"
      /\ vm' \in {vm, [vm EXCEPT ![h] = NoSlot]}
  BY DEF Released
<1>2. PICK p \in {"out", "ask"} : pc' = [pc EXCEPT ![h] = p]
  BY DEF Released, Goto
<1>3. answer[h] = NoSlot
  BY <1>1 DEF Inv, Kept
<1> QED BY <1>1, <1>2, <1>3, VoidStep, ZeroTime DEF Place

LEMMA LeaveInv ==
  ASSUME Inv, NEW h \in Client, Acquire(h) \/ Leave(h) PROVE Inv'
<1>1. /\ UNCHANGED server /\ UNCHANGED <<answer, vm, withdrawn>> /\ pc[h] # "wait"
      /\ trust' = [trust EXCEPT ![h] = 0]
  BY DEF Acquire, Leave
<1>2. PICK p \in {"out", "ask", "release", "release again"} : pc' = [pc EXCEPT ![h] = p]
  BY DEF Acquire, Leave, Release, Goto
<1>3. answer[h] = NoSlot
  BY <1>1 DEF Inv, Kept
<1> QED BY <1>1, <1>2, <1>3, VoidStep, ZeroTime DEF Place

LEMMA AskInv == ASSUME Inv, NEW h \in Client, Ask(h) PROVE Inv'
<1>1. /\ UNCHANGED server /\ UNCHANGED <<answer, vm>> /\ pc[h] # "wait"
      /\ withdrawn' = withdrawn \ {h}
      /\ trust' = [trust EXCEPT ![h] = Expiration] /\ pc' = [pc EXCEPT ![h] = "wait"]
  BY DEF Ask, Goto
<1>2. answer[h] = NoSlot
  BY <1>1 DEF Inv, Kept
<1> QED BY <1>1, <1>2, VoidStep, ZeroTime DEF Place

LEMMA RefusedInv ==
  ASSUME Inv, NEW h \in Client, Refused(h) \/ Lost(h) \/ Wake(h) PROVE Inv'
<1>1. /\ UNCHANGED server /\ vm' = vm /\ withdrawn' = withdrawn
      /\ answer' \in {answer, [answer EXCEPT ![h] = NoSlot]}
      /\ trust' \in {trust, [trust EXCEPT ![h] = 0]}
      /\ pc[h] # "wait" \/ answer[h] = NoSlot \/ answer' = [answer EXCEPT ![h] = NoSlot]
  BY DEF Refused, Lost, Wake, TryAgain
<1>2. PICK p \in {"out", "ask", "sleep"} : pc' = [pc EXCEPT ![h] = p]
  BY DEF Refused, Lost, Wake, TryAgain, Goto
<1>3. answer'[h] = NoSlot
  BY <1>1 DEF Inv, Types, Kept
<1> QED BY <1>1, <1>2, <1>3, VoidStep, ZeroTime DEF Place

LEMMA TimerInv == ASSUME Inv, NEW h \in Client, NEW n \in Use(h), Timer(h, n) PROVE Inv'
<1>1. UNCHANGED <<server, pc, vm, answer, trust, withdrawn>>
  BY DEF Timer, Fire, Renew, Rearm
<1> QED BY <1>1 DEF Inv, Types, Kept, Relies, Backs, server

LEMMA TickInv == ASSUME Inv, Tick PROVE Inv'
<1>1. /\ stage' = stage /\ holder' = holder /\ pc' = pc /\ vm' = vm /\ answer' = answer
      /\ withdrawn' = withdrawn
      /\ left' = [s \in Slot |-> Down(left[s])]
      /\ trust' = [h \in Client |-> Down(trust[h])]
  BY DEF Tick
<1>2. \A n \in 0..Expiration : Down(n) \in 0..Expiration /\ Down(n) <= n
  BY ClientAssumption DEF Down
<1>3. Types'
  BY <1>1, <1>2 DEF Inv, Types
<1>4. \A m, n \in 0..Expiration : m <= n => Down(m) <= Down(n)
  BY ClientAssumption DEF Down
<1>5. ASSUME NEW k \in Client PROVE Kept(k)'
  <2>1. Relies(k)' => Relies(k)
    BY <1>1, <1>2, ClientAssumption DEF Inv, Types, Down, Relies
  <2>2. \A t \in Slot : Backs(k, t) => Backs(k, t)'
    BY <1>1, <1>4 DEF Backs, Inv, Types
  <2> QED BY <1>1, <2>1, <2>2 DEF Kept, Inv, Backs
<1> QED BY <1>3, <1>5 DEF Inv

-----------------------------------------------------------------------------
LEMMA InvStep == Inv /\ [Next]_vars => Inv'
<1> SUFFICES ASSUME Inv, [Next]_vars PROVE Inv'
  OBVIOUS
<1>1. ASSUME NEW h \in Client, Acquire(h) \/ Leave(h) \/ Test(h) PROVE Inv'
  BY <1>1, LeaveInv, ReleasedInv, AskInv, ServeInv, ReceiveInv, RefusedInv DEF Test
<1>2. ASSUME NEW h \in Client, NEW n \in Use(h), Timer(h, n) PROVE Inv'
  BY <1>2, TimerInv
<1>3. ASSUME NEW s \in Slot, Daemon(s) PROVE Inv'
  BY <1>3, DaemonInv
<1>4. CASE UNCHANGED vars
  BY <1>4 DEF vars, server, Inv, Types, Kept, Relies, Backs
<1>5. ASSUME NEW S \in SUBSET Slot, Withdraw(S) PROVE Inv'
  BY <1>5, WithdrawInv
<1> QED BY <1>1, <1>2, <1>3, <1>4, <1>5, TickInv DEF Next

\* The inductive invariant of the client.
THEOREM ClientInvariant == Spec => []Inv
<1>1. Inv /\ [Next]_vars => Inv'
  BY InvStep
<1> QED BY InitInv, <1>1, PTL DEF Spec

\* A handle has its machine alone for the time it asked for, whatever is slow,
\* lost or raised on the way and whatever its timers do, until the lease it
\* counts on is itself withdrawn: other handles, older leases of its own and
\* withdrawals of other machines take nothing from it.
THEOREM HandlesAreAlone == Spec => []Believed
<1>1. Inv => Believed
  BY DEF Inv, Kept, Relies, Backs, Believed
<1> QED BY <1>1, ClientInvariant, PTL

-----------------------------------------------------------------------------
(* Typing.  Each handle has timers of its own, as many as its bound says.  *)

State == {"armed", "fired", "renewed", "over"}

\* The timers of the handle h.
Typed(h) == /\ threading[h] \in Use(h) \cup {NoTimer, Unstarted}
            /\ timer[h] \in [Use(h) -> State]
            /\ fuse[h] \in [Use(h) -> 0..Interval]

Timers ==
  /\ nap \in [Client -> 0..Interval]
  /\ threading \in [Client -> Int] /\ DOMAIN timer = Client /\ DOMAIN fuse = Client
  /\ faults \in 0..MaxFaults
  /\ \A h \in Client : Typed(h)

\* A handle on its way to a machine has a timer left for it.
Room(h) == pc[h] \in {"release again", "ask", "wait", "sleep"} => \E n \in Use(h) : Idle(h, n)

Counts == Timers /\ \A h \in Client : Room(h)

LEMMA Times == Interval \in Nat /\ 0 \in 0..Interval /\ Interval \in 0..Interval
BY ClientAssumption DEF Interval

LEMMA UseInt == ASSUME NEW h \in Client
                PROVE  Use(h) \subseteq Int /\ NoTimer \in Int /\ Unstarted \in Int
BY ClientAssumption DEF Use, NoTimer, Unstarted

LEMMA InitCounts == Init => Counts
<1> SUFFICES ASSUME Init PROVE Counts
  OBVIOUS
<1>1. \A h \in Client : Typed(h)
  BY Times DEF Init, Typed, State
<1> QED BY <1>1, Times, ClientAssumption DEF Init, Counts, Timers, Room, NoTimer

LEMMA FaultType == ASSUME faults \in 0..MaxFaults, Fault \/ UNCHANGED faults
                   PROVE  faults' \in 0..MaxFaults
BY ClientAssumption DEF Fault

\* A step that leaves the timers alone.
LEMMA SameTimers ==
  ASSUME Counts, UNCHANGED <<threading, thread>>, nap' \in [Client -> 0..Interval],
         Fault \/ UNCHANGED faults
  PROVE  Timers' /\ \A h \in Client : \A n \in Use(h) : Idle(h, n)' <=> Idle(h, n)
<1>1. faults' \in 0..MaxFaults
  BY FaultType DEF Counts, Timers
<1> QED BY <1>1 DEF Counts, Timers, Typed, Idle, thread

\* A step of the handle h, whose timers that were over it leaves over.
LEMMA Moves ==
  ASSUME Types, Counts, NEW h \in Client, Timers',
         \A k \in Client : \A n \in Use(k) : Idle(k, n) => Idle(k, n)',
         NEW p \in Place, pc' = [pc EXCEPT ![h] = p],
         p \in {"release again", "ask", "wait", "sleep"} => \E n \in Use(h) : Idle(h, n)
  PROVE  Counts'
BY DEF Types, Counts, Room

\* One number of the handle h is given another state.
LEMMA SetTimer ==
  ASSUME Counts, NEW h \in Client, NEW n \in Use(h), NEW v \in State,
         timer' = [timer EXCEPT ![h][n] = v],
         \/ fuse' = fuse
         \/ \E m \in 0..Interval : fuse' = [fuse EXCEPT ![h][n] = m],
         threading' = threading \/ \E m \in Use(h) \cup {NoTimer, Unstarted} :
                                     threading' = [threading EXCEPT ![h] = m]
  PROVE  /\ threading' \in [Client -> Int] /\ DOMAIN timer' = Client /\ DOMAIN fuse' = Client
         /\ \A k \in Client : Typed(k)'
         /\ \A k \in Client : \A m \in Use(k) : k # h \/ m # n => (Idle(k, m)' <=> Idle(k, m))
         /\ Idle(h, n)' <=> v = "over"
<1>1. timer'[h] = [timer[h] EXCEPT ![n] = v] /\ timer'[h] \in [Use(h) -> State]
  BY DEF Counts, Timers, Typed
<1>2. fuse'[h] \in [Use(h) -> 0..Interval] /\ DOMAIN fuse' = Client
  <2>1. CASE fuse' = fuse
    BY <2>1 DEF Counts, Timers, Typed
  <2>2. CASE fuse' # fuse
    <3>1. PICK m \in 0..Interval : fuse' = [fuse EXCEPT ![h][n] = m]
      BY <2>2
    <3>2. fuse'[h] = [fuse[h] EXCEPT ![n] = m]
      BY <3>1 DEF Counts, Timers
    <3> QED BY <3>1, <3>2 DEF Counts, Timers, Typed
  <2> QED BY <2>1, <2>2
<1>3. /\ threading'[h] \in Use(h) \cup {NoTimer, Unstarted}
      /\ threading' \in [Client -> Int]
  BY UseInt DEF Counts, Timers, Typed
<1>4. \A k \in Client \ {h} : /\ timer'[k] = timer[k] /\ fuse'[k] = fuse[k]
                              /\ threading'[k] = threading[k]
  BY DEF Counts, Timers
<1>5. \A k \in Client : Typed(k)'
  BY <1>1, <1>2, <1>3, <1>4 DEF Counts, Timers, Typed
<1>6. \A k \in Client : \A m \in Use(k) : k # h \/ m # n => (Idle(k, m)' <=> Idle(k, m))
  BY <1>1, <1>4 DEF Idle, Counts, Timers, Typed
<1>7. Idle(h, n)' <=> v = "over"
  BY <1>1 DEF Idle, Counts, Timers, Typed
<1> QED BY <1>2, <1>3, <1>5, <1>6, <1>7 DEF Counts, Timers

LEMMA ReleaseTimers ==
  ASSUME Counts, NEW h \in Client, NEW place, NEW after, Release(h, place, after),
         nap' = nap, faults' = faults
  PROVE  /\ Timers' /\ (Goto(h, place) \/ Goto(h, after))
         /\ \A k \in Client : \A n \in Use(k) : Idle(k, n) => Idle(k, n)'
<1>1. Goto(h, place) \/ Goto(h, after)
  BY DEF Release
<1>2. CASE UNCHANGED <<threading, thread>>
  BY <1>1, <1>2, SameTimers DEF Counts, Timers
<1>3. CASE UNCHANGED thread /\ threading' = [threading EXCEPT ![h] = NoTimer]
  BY <1>1, <1>3, UseInt DEF Counts, Timers, Typed, Idle, thread
<1>4. CASE /\ threading[h] \in Use(h)
           /\ threading' = [threading EXCEPT ![h] = NoTimer]
           /\ timer' = [timer EXCEPT ![h][threading[h]] = "over"]
           /\ fuse'  = [fuse  EXCEPT ![h][threading[h]] = 0]
  <2>1. PICK n \in Use(h) : n = threading[h]
    BY <1>4
  <2>2. timer' = [timer EXCEPT ![h][n] = "over"] /\ fuse' = [fuse EXCEPT ![h][n] = 0]
    BY <1>4, <2>1
  <2>3. /\ \E m \in 0..Interval : fuse' = [fuse EXCEPT ![h][n] = m]
        /\ \E m \in Use(h) \cup {NoTimer, Unstarted} : threading' = [threading EXCEPT ![h] = m]
    BY <1>4, <2>2, Times
  <2>4. /\ threading' \in [Client -> Int] /\ DOMAIN timer' = Client /\ DOMAIN fuse' = Client
        /\ \A k \in Client : Typed(k)'
        /\ \A k \in Client : \A m \in Use(k) : k # h \/ m # n => (Idle(k, m)' <=> Idle(k, m))
        /\ Idle(h, n)'
    BY <2>2, <2>3, SetTimer DEF State
  <2>5. Timers'
    BY <2>4 DEF Counts, Timers
  <2>6. \A k \in Client : \A m \in Use(k) : Idle(k, m) => Idle(k, m)'
    BY <2>4
  <2> QED BY <1>1, <2>5, <2>6
<1> QED BY <1>2, <1>3, <1>4 DEF Release

LEMMA LeaveCounts ==
  ASSUME Types, Counts, NEW h \in Client, Acquire(h) \/ Leave(h) PROVE Counts'
<1>1. CASE Acquire(h)
  <2>1. Release(h, "release again", "ask") /\ nap' = nap /\ faults' = faults
    BY <1>1 DEF Acquire
  <2>2. PICK p \in {"release again", "ask"} : pc' = [pc EXCEPT ![h] = p]
    BY <2>1, ReleaseTimers DEF Goto
  <2> QED BY <1>1, <2>1, <2>2, ReleaseTimers, Moves DEF Acquire, Place
<1>2. CASE Leave(h)
  <2>1. Release(h, "release", "out") /\ nap' = nap /\ faults' = faults
    BY <1>2 DEF Leave
  <2>2. PICK p \in {"release", "out"} : pc' = [pc EXCEPT ![h] = p]
    BY <2>1, ReleaseTimers DEF Goto
  <2> QED BY <2>1, <2>2, ReleaseTimers, Moves DEF Place
<1> QED BY <1>1, <1>2

LEMMA ReleasedCounts == ASSUME Types, Counts, NEW h \in Client, Released(h) PROVE Counts'
<1>1. UNCHANGED <<threading, thread>> /\ nap' = nap /\ (Fault \/ UNCHANGED faults)
  BY DEF Released, Raises
<1>2. PICK p \in {"out", "ask"} : /\ pc' = [pc EXCEPT ![h] = p]
                                  /\ p = "ask" => pc[h] = "release again"
  BY DEF Released, Goto
<1>3. nap' \in [Client -> 0..Interval]
  BY <1>1 DEF Counts, Timers
<1> QED BY <1>1, <1>2, <1>3, SameTimers, Moves DEF Counts, Room, Place

LEMMA ReceiveCounts == ASSUME Types, Counts, NEW h \in Client, Receive(h) PROVE Counts'
<1>1. PICK n \in Use(h) : Idle(h, n) /\ Arm(h, n)
  BY DEF Receive
<1>2. /\ \E m \in 0..Interval : fuse' = [fuse EXCEPT ![h][n] = m]
      /\ \E m \in Use(h) \cup {NoTimer, Unstarted} : threading' = [threading EXCEPT ![h] = m]
      /\ timer' = [timer EXCEPT ![h][n] = "armed"]
  BY <1>1, Times DEF Arm
<1>3. nap' = nap /\ faults' = faults /\ pc' = [pc EXCEPT ![h] = "in"]
  BY DEF Receive, Goto
<1>4. Timers'
  BY <1>2, <1>3, SetTimer DEF Counts, Timers, State
<1>5. \A k \in Client \ {h} : \A m \in Use(k) : Idle(k, m)' <=> Idle(k, m)
  BY <1>2, SetTimer DEF State
<1>6. \A k \in Client : Room(k)'
  BY <1>3, <1>5 DEF Counts, Room, Types
<1> QED BY <1>4, <1>6 DEF Counts

LEMMA AgainCounts ==
  ASSUME Types, Counts, NEW h \in Client, Ask(h) \/ Refused(h) \/ Lost(h) \/ Wake(h)
  PROVE  Counts'
<1>1. UNCHANGED <<threading, thread>> /\ (Fault \/ UNCHANGED faults)
  BY DEF Ask, Refused, Lost, Wake, Raises
<1>2. nap' \in [Client -> 0..Interval]
  BY Times DEF Ask, Refused, Lost, Wake, TryAgain, Counts, Timers
<1>3. PICK p \in {"out", "ask", "wait", "sleep"} : pc' = [pc EXCEPT ![h] = p]
  BY DEF Ask, Refused, Lost, Wake, TryAgain, Goto
<1>4. \E n \in Use(h) : Idle(h, n)
  BY DEF Ask, Refused, Lost, Wake, Counts, Room
<1> QED BY <1>1, <1>2, <1>3, <1>4, SameTimers, Moves DEF Place

LEMMA TimerCounts ==
  ASSUME Types, Counts, NEW h \in Client, NEW n \in Use(h), Timer(h, n) PROVE Counts'
<1>1. UNCHANGED <<pc, nap, fuse>> /\ ~Idle(h, n) /\ (Fault \/ UNCHANGED faults)
  BY DEF Timer, Fire, Renew, Rearm, Idle, Raises
<1>2. PICK v \in {"fired", "renewed", "over"} : timer' = [timer EXCEPT ![h][n] = v]
  BY DEF Timer, Fire, Renew, Rearm, Becomes
<1>3. threading' = threading \/ \E m \in Use(h) \cup {NoTimer, Unstarted} :
                                  threading' = [threading EXCEPT ![h] = m]
  BY DEF Timer, Fire, Renew, Rearm
<1>4. faults' \in 0..MaxFaults
  BY <1>1, FaultType DEF Counts, Timers
<1>5. Timers'
  BY <1>1, <1>2, <1>3, <1>4, SetTimer DEF Counts, Timers, State
<1>6. \A k \in Client : \A m \in Use(k) : Idle(k, m) => Idle(k, m)'
  BY <1>1, <1>2, <1>3, SetTimer DEF State
<1> QED BY <1>1, <1>5, <1>6 DEF Counts, Room

LEMMA TickCounts == ASSUME Types, Counts, Tick PROVE Counts'
<1>1. \A n \in 0..Interval : Down(n) \in 0..Interval
  BY Times DEF Down
<1>2. \A h \in Client : Typed(h)'
  BY <1>1 DEF Tick, Counts, Timers, Typed
<1>3. nap' \in [Client -> 0..Interval]
  BY <1>1 DEF Tick, Counts, Timers
<1> QED BY <1>2, <1>3 DEF Tick, Counts, Timers, Room, Idle

LEMMA CountsStep == ASSUME Types, Counts, [Next]_vars PROVE Counts'
<1>1. ASSUME NEW h \in Client, Acquire(h) \/ Leave(h) \/ Test(h) PROVE Counts'
  <2>1. CASE Serve(h)
    BY <2>1 DEF Serve, Counts, Timers, Typed, Room, Idle, thread
  <2> QED BY <1>1, <2>1, LeaveCounts, ReleasedCounts, ReceiveCounts, AgainCounts DEF Test
<1>2. ASSUME NEW h \in Client, NEW n \in Use(h), Timer(h, n) PROVE Counts'
  BY <1>2, TimerCounts
<1>3. ASSUME NEW s \in Slot, Daemon(s) PROVE Counts'
  BY <1>3 DEF Daemon, Counts, Timers, Typed, Room, Idle, thread
<1>4. ASSUME NEW S \in SUBSET Slot, Withdraw(S) PROVE Counts'
  <2>1. faults' \in 0..MaxFaults
    BY <1>4, FaultType DEF Withdraw, Counts, Timers
  <2> QED BY <1>4, <2>1 DEF Withdraw, Counts, Timers, Typed, Room, Idle, thread
<1>5. CASE UNCHANGED vars
  BY <1>5 DEF vars, thread, Counts, Timers, Typed, Room, Idle
<1> QED BY <1>1, <1>2, <1>3, <1>4, <1>5, TickCounts DEF Next

\* Machines, deadlines, handles, timers and times are of their types; a handle
\* that waits for a machine has a timer for it.
THEOREM ClientTypes == Spec => []TypeOK
<1>1. Inv => Types
  BY DEF Inv
<1>2. Types /\ Counts => TypeOK
  BY DEF Types, Counts, Timers, Typed, State, TypeOK
<1>3. Types /\ Counts /\ [Next]_vars => Counts'
  BY CountsStep
<1> QED BY <1>1, <1>2, <1>3, InitCounts, ClientInvariant, PTL DEF Spec
==============================================================================
