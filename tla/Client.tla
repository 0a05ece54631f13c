------------------------------- MODULE Client -------------------------------
(***************************************************************************)
(* The Python client: handles that acquire machines of one pool over REST, *)
(* each with a timer thread beside the thread of the test that uses it.    *)
(*                                                                         *)
(* The server takes the steps of LeaseContract, which Lease implements:    *)
(* a lease ends at its deadline, or before it when setup or the operator   *)
(* withdraws it.  What a request does follows from the routes: acquire is  *)
(* routed by the name of a pool, release and renew by the key of a row.    *)
(* The client names the pool in each of them, so only acquire is served.   *)
(***************************************************************************)
EXTENDS LeaseContract, Integers

CONSTANTS
  NoSlot,      \* None
  Blocking,    \* the handles that wait until a machine is free
  Expiration,  \* how long a lease lasts
  MaxTimers,   \* bound: MaxTimers[h] timers of the handle h are alive at once
  MaxFaults    \* bound: requests that fail on the way, and withdrawals

ASSUME ClientAssumption == /\ NoSlot \notin Slot /\ Blocking \subseteq Client
                           /\ Expiration \in Nat \ {0}
                           /\ MaxTimers \in [Client -> Nat] /\ MaxFaults \in Nat

VARIABLES
  left,       \* left[s]: time until the lease on s is over
  pc,         \* pc[h]: where the test is that uses the handle h
  vm,         \* vm[h]: the machine the handle has
  answer,     \* answer[h]: what the server answered, not received yet
  trust,      \* trust[h]: the time left of a lease counted from the request (history)
  withdrawn,  \* handles whose lease was ended before its time (history)
  nap,        \* nap[h]: time left to sleep
  threading,  \* threading[h]: the timer the handle refers to
  timer,      \* timer[h][n]: what has become of the timer n
  fuse,       \* fuse[h][n]: time until it fires
  faults      \* requests that failed and withdrawals so far

server == <<stage, holder, left>>
thread == <<timer, fuse>>
vars   == <<server, pc, vm, answer, trust, withdrawn, nap, threading, thread,
          faults>>

-----------------------------------------------------------------------------
Use(h)    == 1..MaxTimers[h]
NoTimer   == 0     \* None
Unstarted == -1    \* a timer made by _renew, which nobody starts
Interval  == Expiration \div 2

Place == {"out", "release", "release again", "ask", "wait", "sleep", "in"}

TypeOK ==
  /\ stage \in [Slot -> Stage] /\ holder \in [Slot -> SUBSET Client]
  /\ left \in [Slot -> 0..Expiration]
  /\ pc \in [Client -> Place]
  /\ vm \in [Client -> Slot \cup {NoSlot}]
  /\ answer \in [Client -> Slot \cup {NoSlot}]
  /\ trust \in [Client -> 0..Expiration] /\ withdrawn \subseteq Client
  /\ nap \in [Client -> 0..Interval]
  /\ threading \in [Client -> Int] /\ DOMAIN timer = Client /\ DOMAIN fuse = Client
  /\ \A h \in Client : /\ threading[h] \in Use(h) \cup {NoTimer, Unstarted}
                       /\ timer[h] \in [Use(h) -> {"armed", "fired", "renewed", "over"}]
                       /\ fuse[h] \in [Use(h) -> 0..Interval]
  /\ faults \in 0..MaxFaults

Init ==
  /\ ContractInit /\ left = [s \in Slot |-> 0]
  /\ pc = [h \in Client |-> "out"]
  /\ vm = [h \in Client |-> NoSlot] /\ answer = [h \in Client |-> NoSlot]
  /\ trust = [h \in Client |-> 0] /\ withdrawn = {}
  /\ nap = [h \in Client |-> 0] /\ threading = [h \in Client |-> NoTimer]
  /\ timer = [h \in Client |-> [n \in Use(h) |-> "over"]]
  /\ fuse = [h \in Client |-> [n \in Use(h) |-> 0]]
  /\ faults = 0

Goto(h, place) == pc' = [pc EXCEPT ![h] = place]
Fault == faults < MaxFaults /\ faults' = faults + 1
\* requests raises: the connection is refused or lost.
Raises == Fault

-----------------------------------------------------------------------------
(* The server.                                                             *)

\* Of the contract's slots only s moves.
Only(s) == /\ stage'  \in {[stage  EXCEPT ![s] = now] : now \in Stage}
           /\ holder' \in {[holder EXCEPT ![s] = now] : now \in SUBSET Client}

GrantedHalf(h, s) ==   \* mutant: the deadline is set as the timer is
  /\ Only(s) /\ Grant(s) /\ holder'[s] = {h}
  /\ left' = [left EXCEPT ![s] = Interval]

\* pool_acquire: a machine that is ready, or 403.
Granted(h, s) ==
  /\ Only(s) /\ Grant(s) /\ holder'[s] = {h}
  /\ left' = [left EXCEPT ![s] = Expiration]
Busy == \A s \in Slot : stage[s] # "fresh"

ReclaimUnused(s) ==   \* mutant: waits for the handle to be released
  Only(s) /\ End(s) /\ left[s] = 0 /\ \A h \in Client : vm[h] # s

\* The daemon: a lease ends once its deadline is past.
Reclaim(s) == Only(s) /\ End(s) /\ left[s] = 0
Rebuild(s) == /\ Only(s) /\ (Wipe(s) \/ Build(s))
              /\ stage[s] # "fresh"

Daemon(s) == /\ Reclaim(s) \/ Rebuild(s)
             /\ UNCHANGED <<left, pc, vm, answer, trust, withdrawn, nap, threading, thread,
                            faults>>

\* Setup of a daemon that is started again takes back all the machines, and
\* pool_remove, release and a smaller pool some of them: leases end before
\* their time and machines that were ready are none any more.
Holds(h, s) == /\ h \in holder[s]
               /\ answer[h] = s \/ (pc[h] = "in" /\ vm[h] = s)
Withdraw(S) ==
  /\ Fault /\ \E s \in S : stage[s] \in {"fresh", "leased"}
  /\ stage' = [s \in Slot |-> IF s \in S /\ stage[s] = "leased" THEN "used"
                              ELSE IF s \in S /\ stage[s] = "fresh" THEN "none"
                              ELSE stage[s]]
  /\ holder' = [s \in Slot |-> IF s \in S THEN {} ELSE holder[s]]
  /\ left' = [s \in Slot |-> IF s \in S THEN 0 ELSE left[s]]
  /\ withdrawn' = withdrawn \cup {h \in Client : \E s \in S : Holds(h, s)}
  /\ UNCHANGED <<pc, vm, answer, trust, nap, threading, thread>>

-----------------------------------------------------------------------------
(* The thread of the test.                                                 *)

\* release(): without a timer or a machine nothing happens.  A timer that has
\* not fired is cancelled; the answer to the request is waited for.
Release(h, place, after) ==
  IF threading[h] = NoTimer \/ vm[h] = NoSlot
  THEN Goto(h, after) /\ UNCHANGED <<threading, thread>>
  ELSE /\ Goto(h, place)
       /\ threading' = [threading EXCEPT ![h] = NoTimer]
       /\ IF threading[h] \in Use(h) /\ timer[h][threading[h]] = "armed"
          THEN /\ timer' = [timer EXCEPT ![h][threading[h]] = "over"]
               /\ fuse'  = [fuse  EXCEPT ![h][threading[h]] = 0]
          ELSE UNCHANGED thread

\* The second half: the name of the pool is no key, 404, which nobody looks
\* at.  When the request raises the handle keeps the machine.
Released(h) ==
  /\ \/ /\ pc[h] = "release" /\ Goto(h, "out")
        /\ vm' = [vm EXCEPT ![h] = NoSlot] /\ UNCHANGED faults
     \/ /\ pc[h] = "release again" /\ Goto(h, "ask")
        /\ vm' = [vm EXCEPT ![h] = NoSlot] /\ UNCHANGED faults
     \/ /\ pc[h] \in {"release", "release again"} /\ Goto(h, "out")
        /\ Raises /\ UNCHANGED vm
  /\ UNCHANGED <<server, answer, trust, nap, threading, thread, withdrawn>>

\* No thread of the timer n is left: a new one may take the number (bound).
Idle(h, n) == timer[h][n] = "over"

\* "with handle:", or acquire() of a handle that has a machine already.
Acquire(h) ==
  /\ pc[h] \in {"out", "in"} /\ \E n \in Use(h) : Idle(h, n)
  /\ Release(h, "release again", "ask")
  /\ trust' = [trust EXCEPT ![h] = 0]
  /\ UNCHANGED <<server, vm, answer, nap, faults, withdrawn>>

\* The end of the with statement.
Leave(h) ==
  /\ pc[h] = "in"
  /\ Release(h, "release", "out")
  /\ trust' = [trust EXCEPT ![h] = 0]
  /\ UNCHANGED <<server, vm, answer, nap, faults, withdrawn>>

Ask(h) ==
  /\ pc[h] = "ask" /\ Goto(h, "wait")
  /\ trust' = [trust EXCEPT ![h] = Expiration] /\ withdrawn' = withdrawn \ {h}
  /\ UNCHANGED <<server, vm, answer, nap, threading, thread, faults>>

Serve(h) ==
  /\ pc[h] = "wait" /\ answer[h] = NoSlot
  /\ \E s \in Slot : Granted(h, s) /\ answer' = [answer EXCEPT ![h] = s]
  /\ UNCHANGED <<pc, vm, trust, nap, threading, thread, faults, withdrawn>>

\* The timer is made and started; numbers are interchangeable.
Arm(h, n) ==
  /\ \A k \in Use(h) : Idle(h, k) => n <= k
  /\ threading' = [threading EXCEPT ![h] = n]
  /\ timer' = [timer EXCEPT ![h][n] = "armed"]
  /\ fuse' = [fuse EXCEPT ![h][n] = Interval]

Receive(h) ==
  /\ pc[h] = "wait" /\ answer[h] # NoSlot
  /\ Goto(h, "in")
  /\ vm' = [vm EXCEPT ![h] = answer[h]]
  /\ answer' = [answer EXCEPT ![h] = NoSlot]
  /\ \E n \in Use(h) : Idle(h, n) /\ Arm(h, n)
  /\ UNCHANGED <<server, trust, nap, faults, withdrawn>>

TryAgainLater(h) ==   \* mutant: sleeps for the whole expiration
  /\ IF h \in Blocking
     THEN Goto(h, "sleep") /\ nap' = [nap EXCEPT ![h] = Expiration]
     ELSE Goto(h, "out") /\ UNCHANGED nap
  /\ trust' = [trust EXCEPT ![h] = 0]
TryNoMore(h) ==   \* mutant: acquire() forgets that the handle blocks
  /\ Goto(h, "out") /\ UNCHANGED nap
  /\ trust' = [trust EXCEPT ![h] = 0]

\* Whatever the reason, a handle that blocks sleeps and asks again, and any
\* other raises ResourceError.
TryAgain(h) == /\ IF h \in Blocking
                  THEN Goto(h, "sleep") /\ nap' = [nap EXCEPT ![h] = Interval]
                  ELSE Goto(h, "out") /\ UNCHANGED nap
               /\ trust' = [trust EXCEPT ![h] = 0]

Refused(h) ==
  /\ pc[h] = "wait" /\ answer[h] = NoSlot
  /\ \/ Busy /\ UNCHANGED faults
     \/ Raises
  /\ TryAgain(h)
  /\ UNCHANGED <<server, vm, answer, threading, thread, withdrawn>>

\* The machine is granted, but the answer gets lost.
Lost(h) ==
  /\ pc[h] = "wait" /\ answer[h] # NoSlot /\ Raises
  /\ answer' = [answer EXCEPT ![h] = NoSlot]
  /\ TryAgain(h)
  /\ UNCHANGED <<server, vm, threading, thread, withdrawn>>

Wake(h) ==
  /\ pc[h] = "sleep" /\ nap[h] = 0 /\ Goto(h, "ask")
  /\ UNCHANGED <<server, vm, answer, trust, nap, threading, thread, faults, withdrawn>>

Test(h) == \/ Released(h) \/ Ask(h) \/ Serve(h) \/ Receive(h) \/ Refused(h) \/ Lost(h)
           \/ Wake(h)

-----------------------------------------------------------------------------
(* The timer threads: _renew.                                              *)

Becomes(h, n, state) == timer' = [timer EXCEPT ![h][n] = state]

Fire(h, n) ==
  /\ timer[h][n] = "armed" /\ fuse[h][n] = 0
  /\ Becomes(h, n, "fired")
  /\ UNCHANGED <<server, pc, vm, answer, trust, nap, threading, fuse, faults, withdrawn>>

\* renew(): the machine the handle has by then, if any; an exception ends the
\* thread.  No route leads to the request, so it changes nothing.
Renew(h, n) ==
  /\ timer[h][n] = "fired"
  /\ \/ vm[h] # NoSlot /\ Becomes(h, n, "renewed") /\ UNCHANGED faults
     \/ vm[h] # NoSlot /\ Becomes(h, n, "over") /\ Raises
     \/ vm[h] = NoSlot /\ Becomes(h, n, "over") /\ UNCHANGED faults
  /\ UNCHANGED <<server, pc, vm, answer, trust, nap, threading, fuse, withdrawn>>

\* The handle refers to a timer that is never started, whatever it referred to.
Rearm(h, n) ==
  /\ timer[h][n] = "renewed" /\ Becomes(h, n, "over")
  /\ threading' = [threading EXCEPT ![h] = Unstarted]
  /\ UNCHANGED <<server, pc, vm, answer, trust, nap, fuse, faults, withdrawn>>

Timer(h, n) == Fire(h, n) \/ Renew(h, n) \/ Rearm(h, n)

-----------------------------------------------------------------------------
Down(t) == IF t = 0 THEN 0 ELSE t - 1

\* Time passes; threads and requests may take any time.
Tick ==
  /\ left'  = [s \in Slot |-> Down(left[s])]
  /\ trust' = [h \in Client |-> Down(trust[h])]
  /\ nap'   = [h \in Client |-> Down(nap[h])]
  /\ fuse'  = [h \in Client |-> [n \in Use(h) |-> Down(fuse[h][n])]]
  /\ <<left, trust, nap, fuse>>' # <<left, trust, nap, fuse>>
  /\ UNCHANGED <<stage, holder, pc, vm, answer, threading, timer, faults, withdrawn>>

Next == \/ \E h \in Client : Acquire(h) \/ Leave(h) \/ Test(h)
        \/ \E h \in Client : \E n \in Use(h) : Timer(h, n)
        \/ \E s \in Slot : Daemon(s)
        \/ \E S \in SUBSET Slot : Withdraw(S)
        \/ Tick

Spec == Init /\ [][Next]_vars

\* The daemon and the clock go on, and the test of a handle that blocks; the
\* other threads may stop anywhere.
FairSpec == /\ Spec /\ WF_vars(Tick)
            /\ \A h \in Blocking : WF_vars(Test(h))
            /\ \A s \in Slot : WF_vars(Daemon(s))

-----------------------------------------------------------------------------
(* Properties.                                                             *)

\* A handle that has a machine has it alone for as long as the lease it asked
\* for, counted from the request and however late the answer came, unless setup
\* or the operator withdraws that very lease.
Believed ==
  \A h \in Client : pc[h] = "in" /\ trust[h] > 0 => holder[vm[h]] = {h} \/ h \in withdrawn

\* A lease ends, also one whose answer was lost or whose handle is never left.
Freed == \A s \in Slot : stage[s] = "leased" ~> stage[s] # "leased"

\* A handle that blocks gets a machine, though no release reaches the server
\* and others may never leave: only others who are granted machines for ever, or
\* requests and leases that are lost for ever, keep it from one.
Acquires ==
  \A h \in Blocking :
    \/ pc[h] = "ask" ~> pc[h] = "in"
    \/ []<><<\E k \in Client \ {h} : Serve(k)>>_vars
    \/ []<><<Fault>>_vars

\* "As long as the object exists, the resource acquired will be renewed.": the
\* machine of a handle whose timer did all it ever does is still leased to it,
\* unless it was withdrawn.
HeldIsReserved ==
  \A h \in Client : pc[h] = "in" /\ threading[h] = Unstarted
                      => holder[vm[h]] = {h} \/ h \in withdrawn

==============================================================================
