-------------------------- MODULE LeaseRefinementProofs --------------------------
(***************************************************************************)
(* Lease implements LeaseContract where the four races are ruled out: the  *)
(* stage of a name and the clients who hold it, as StageOf and Leased read *)
(* them off the state, change only as the contract allows.                 *)
(***************************************************************************)
EXTENDS LeaseOrderProofs

-----------------------------------------------------------------------------
(* Used machines.                                                          *)

\* A row that says clone after a step said so before, under the same name, or
\* was made by adapt for a name without a machine.
NoNewClone ==
  \A i \in Id : rows'[i].action = "clone" =>
    \/ rows[i].action = "clone" /\ rows'[i].name = rows[i].name
    \/ rows'[i].name \notin vm

\* The frame of the steps that leave the machines alone.
LEMMA HistoryFrame ==
  ASSUME History, UNCHANGED host, NoNewClone,
         \A c \in Client : lease'[c] = lease[c] \/ lease'[c].state # "live"
  PROVE  History'
<1>1. ASSUME NEW i \in Id, rows'[i].action = "clone" PROVE rows'[i].name \notin dirty'
  BY <1>1 DEF History, NoNewClone, host
<1>2. ASSUME NEW c \in Client, lease'[c].state = "live" PROVE lease'[c].name \in dirty'
  BY <1>2 DEF History, host
<1> QED
  BY <1>1, <1>2 DEF History, host

\* Saves under the name and the action the row has, or under an action that is
\* not clone.
LEMMA SaveNoClone ==
  ASSUME rows \in [Id -> Row], NEW k, NEW s, NEW a, NEW n,
         a = "clone" => k \in Id /\ rows[k].action = "clone" /\ rows[k].name = n,
         rows' = Saved(k, s, a, n)
  PROVE  NoNewClone
<1>1. Written(s, a, n).action = a /\ Written(s, a, n).name = n
  BY DEF Written
<1>2. \A i \in Id : rows'[i] = IF i = k THEN Written(s, a, n) ELSE rows[i]
  BY DEF Saved
<1> QED
  BY <1>1, <1>2 DEF NoNewClone

LEMMA HistoryStep ==
  ASSUME Disciplined, Tracking, Order, History, [Next]_vars
  PROVE  History'
<1>d. ~Race /\ ~Late /\ ~Slow /\ ~MayShrink /\ "state" \notin Faults
  BY DEF Disciplined
<1>t. /\ rows \in [Id -> Row] /\ lease \in [Client -> Held] /\ req \in [Client -> Req]
      /\ job \in Job
  BY DEF Tracking, TypeOK
<1>s. rows' = rows => NoNewClone
  BY DEF NoNewClone
<1>w. ASSUME pc \in Working \cup {"retry"}
      PROVE  /\ job.id \in Id /\ rows[job.id] = job.row /\ Present(job.id)
             /\ \A c \in Client : lease[c].state = "live" => lease[c].name # job.row.name
  BY <1>w, WorkRow
<1>h. ASSUME pc \in Working, rows' = rows, lease' = lease,
             \/ vm' = vm /\ dirty' = dirty
             \/ vm' = vm \ {job.row.name} /\ dirty' = dirty \ {job.row.name}
             \/ vm' = vm \cup {job.row.name} /\ dirty' = dirty \ {job.row.name}
      PROVE  History'
  <2>1. dirty' \subseteq vm' /\ dirty' \subseteq dirty
    BY <1>h DEF History
  <2>2. \A c \in Client : lease[c].state = "live" => lease[c].name \in dirty'
    BY <1>h, <1>w DEF History
  <2> QED
    BY <1>h, <2>1, <2>2 DEF History
<1>1. CASE Poll
  BY <1>1, <1>s, HistoryFrame DEF Poll, table
<1>2. ASSUME NEW i \in Id, Start(i) PROVE History'
  BY <1>2, <1>s, HistoryFrame DEF Start, table
<1>3. CASE DestroyRow
  <2>1. NoNewClone
    BY <1>3, <1>t, NoRowType DEF DestroyRow, NoNewClone
  <2> QED
    BY <1>3, <2>1, HistoryFrame DEF DestroyRow
<1>4. CASE DestroyVm
  BY <1>4, <1>h DEF DestroyVm, table, Working
<1>5. CASE DestroyFails
  BY <1>5, <1>h DEF DestroyFails, table, host, Working
<1>6. CASE DestroySave
  <2>1. job.row.action = "destroy"
    BY <1>6 DEF DestroySave, Order, AttrIsPristine
  <2>2. NoNewClone
    BY <1>6, <1>t, <2>1, SaveNoClone DEF DestroySave
  <2> QED
    BY <1>6, <2>2, HistoryFrame DEF DestroySave
<1>7. CASE CloneVm
  BY <1>7, <1>h DEF CloneVm, table, Working
<1>8. CASE CloneFails
  BY <1>8, <1>h DEF CloneFails, table, host, Working
<1>9. CASE CloneSave
  <2>1. NoNewClone
    BY <1>9, <1>t, SaveNoClone DEF CloneSave
  <2> QED
    BY <1>9, <2>1, HistoryFrame DEF CloneSave
<1>10. CASE AttrReady
  <2>1. NoNewClone
    BY <1>10, <1>t, SaveNoClone DEF AttrReady
  <2> QED
    BY <1>10, <2>1, HistoryFrame DEF AttrReady
<1>11. ASSUME pc \in Working \cup {"retry"},
              rows' = Saved(job.id, job.row.status, job.row.action, job.row.name),
              UNCHANGED <<host, lease>>
       PROVE  History'
  <2>1. job.row.action = "clone" => /\ job.id \in Id /\ rows[job.id].action = "clone"
                                    /\ rows[job.id].name = job.row.name
    BY <1>11, <1>w
  <2>2. NoNewClone
    BY <1>11, <1>t, <2>1, SaveNoClone
  <2> QED
    BY <1>11, <2>2, HistoryFrame
<1>12. CASE AttrAgain
  BY <1>11, <1>12 DEF AttrAgain, Working
<1>13. CASE Retry
  <2>1. job.id # NoId
    BY <1>13, <1>w, NothingHeld DEF Retry
  <2> QED
    BY <1>11, <1>13, <2>1 DEF Retry
<1>14. CASE AdaptEnough \/ AdaptFew \/ GrowDone \/ Crash
  BY <1>14, <1>s, HistoryFrame DEF AdaptEnough, AdaptFew, GrowDone, Crash, table
<1>15. CASE AdaptMany
  BY <1>15, NoShrink
<1>17. ASSUME NEW i \in Id, ShrinkRow(i) PROVE History'
  BY <1>17 DEF ShrinkRow, Order, NamesInRange
<1>18. ASSUME NEW n \in Slot, GrowRow(n) PROVE History'
  <2>1. PICK j \in Fresh :
          rows' = Saved(j, "PENDING", IF n \in vm THEN "destroy" ELSE "clone", n)
    BY <1>18 DEF GrowRow
  <2>2. \A a : Written("PENDING", a, n).action = a /\ Written("PENDING", a, n).name = n
    BY DEF Written
  <2>3. \A i \in Id : i # j => rows'[i] = rows[i]
    BY <1>t, <2>1 DEF Saved
  <2>4. j \in Id
    BY DEF Fresh
  <2>5. rows'[j].action = "clone" => rows'[j].name \notin vm
    BY <1>t, <2>1, <2>2, <2>4 DEF Saved
  <2>6. NoNewClone
    BY <2>3, <2>5 DEF NoNewClone
  <2> QED
    BY <1>18, <2>6, HistoryFrame DEF GrowRow
<1>19. ASSUME NEW n \in Slot, GrowFails(n) PROVE History'
  BY <1>d, <1>19 DEF GrowFails, Fault
<1>20. ASSUME NEW n \in Slot, GrowDuplicate(n) PROVE History'
  BY <1>20, NoDuplicate
<1>23. CASE Restart
  <2>1. \A n : Written("PENDING", "destroy", n).action = "destroy"
    BY DEF Written
  <2>2. NoNewClone
    BY <1>23, <2>1, NoRowType DEF Restart, SetupRow, NoNewClone
  <2>3. ASSUME NEW c \in Client PROVE lease'[c] = lease[c] \/ lease'[c].state # "live"
    BY <1>23, <1>t, HeldState DEF Restart
  <2> QED
    BY <1>23, <2>2, <2>3, HistoryFrame DEF Restart
<1>24. ASSUME NEW c \in Client, NEW i \in Id, AcquireRead(c, i) PROVE History'
  BY <1>24, <1>s, HistoryFrame DEF AcquireRead, table
<1>25. ASSUME NEW c \in Client, AcquireSave(c) PROVE History'
  <2>1. /\ req[c].id \in Id /\ Present(req[c].id) /\ rows[req[c].id] = req[c].row
        /\ req[c].row.name \in vm
    BY <1>25, RequestRow DEF AcquireSave
  <2>2. /\ vm' = vm /\ dirty' = dirty \cup {req[c].row.name}
        /\ rows' = Saved(req[c].id, "RESERVED", "destroy", req[c].row.name)
        /\ lease'[c].name = req[c].row.name
        /\ \A d \in Client : d # c => lease'[d] = lease[d]
    BY <1>25, <1>t DEF AcquireSave
  <2>3. /\ Written("RESERVED", "destroy", req[c].row.name).action = "destroy"
        /\ \A i \in Id : rows'[i] = IF i = req[c].id
                                    THEN Written("RESERVED", "destroy", req[c].row.name)
                                    ELSE rows[i]
    BY <1>t, <2>2 DEF Saved, Written
  <2>4. ASSUME NEW i \in Id, rows'[i].action = "clone" PROVE rows'[i].name \notin dirty'
    <3>1. i # req[c].id /\ rows'[i] = rows[i]
      BY <2>3, <2>4
    <3>2. Present(i)
      BY <2>4, <3>1 DEF Order, RowKinds, RowKind, Kind, Present
    <3>3. rows[i].name # req[c].row.name
      BY <2>1, <3>1, <3>2, OneRow
    <3> QED
      BY <2>2, <2>4, <3>1, <3>3 DEF History
  <2> QED
    BY <2>1, <2>2, <2>4 DEF History
<1>26. ASSUME NEW c \in Client, ReleaseRead(c) \/ Drop(c) PROVE History'
  <2>1. rows' = rows /\ UNCHANGED host /\ lease' = [lease EXCEPT ![c] = NoLease]
    BY <1>26 DEF ReleaseRead, Drop, table
  <2>2. \A d \in Client : lease'[d] = lease[d] \/ lease'[d].state # "live"
    BY <1>t, <2>1, HeldType
  <2> QED
    BY <1>s, <2>1, <2>2, HistoryFrame
<1>27. ASSUME NEW c \in Client, ReleaseSave(c) PROVE History'
  <2>1. NoNewClone
    BY <1>27, <1>t, SaveNoClone DEF ReleaseSave
  <2> QED
    BY <1>27, <2>1, HistoryFrame DEF ReleaseSave
<1>28. ASSUME NEW c \in Client, RenewRead(c) PROVE History'
  BY <1>28, <1>s, HistoryFrame DEF RenewRead, table
<1>29. ASSUME NEW c \in Client, RenewSave(c) PROVE History'
  <2>1. NoNewClone
    BY <1>29, <1>t, SaveNoClone DEF RenewSave
  <2>2. lease[c].state = "live"
    BY <1>29 DEF RenewSave, Order, RequestIsCurrent
  <2>3. \A d \in Client : lease'[d].state = lease[d].state /\ lease'[d].name = lease[d].name
    BY <1>29, <1>t, <2>2 DEF RenewSave, Held
  <2> QED
    BY <1>29, <2>1, <2>3 DEF RenewSave, History, NoNewClone, host
<1>30. ASSUME NEW i \in Id, Tick(i) PROVE History'
  <2>1. NoNewClone
    BY <1>30, <1>t, DueType DEF Tick, NoNewClone
  <2>2. ASSUME NEW c \in Client PROVE lease'[c] = lease[c] \/ lease'[c].state # "live"
    BY <1>30, <1>t, HeldState DEF Tick
  <2> QED
    BY <1>30, <2>1, <2>2, HistoryFrame DEF Tick
<1>31. ASSUME NEW n \in Slot, Resize(n + 1) PROVE History'
  BY <1>31, <1>s, HistoryFrame DEF Resize
<1>32. CASE UNCHANGED vars
  BY <1>32, <1>s, HistoryFrame DEF vars, host
<1> QED
  BY <1>1, <1>2, <1>3, <1>4, <1>5, <1>6, <1>7, <1>8, <1>9, <1>10, <1>12, <1>13, <1>14,
     <1>15, <1>17, <1>18, <1>19, <1>20, <1>23, <1>24, <1>25, <1>26, <1>27, <1>28, <1>29,
     <1>30, <1>31, <1>32 DEF Next, Daemon, Request, Answer

LEMMA HistoryInit ==
  ASSUME Init PROVE History
  BY NoRowType, HeldType DEF Init, History

-----------------------------------------------------------------------------
(* What a step does to the machines and the leases: it ends leases, or it  *)
(* makes or destroys the machine of the row in the daemon's hand, or it is *)
(* the answer to an acquire.                                               *)

Ends ==
  /\ UNCHANGED host
  /\ \A c \in Client : lease'[c].state = "live" =>
       lease[c].state = "live" /\ lease'[c].name = lease[c].name

Makes ==
  /\ pc = "clone" /\ lease' = lease
  /\ vm' = vm \cup {job.row.name} /\ dirty' = dirty \ {job.row.name}

Destroys ==
  /\ pc = "destroy" /\ lease' = lease
  /\ vm' = vm \ {job.row.name} /\ dirty' = dirty \ {job.row.name}

LEMMA StepKinds ==
  ASSUME Tracking, Order, [Next]_vars
  PROVE  Ends \/ Makes \/ Destroys \/ \E c \in Client : AcquireSave(c)
<1>t. lease \in [Client -> Held]
  BY DEF Tracking, TypeOK
<1>e. UNCHANGED host /\ lease' = lease => Ends
  BY DEF Ends
<1>1. CASE \/ Poll \/ DestroyRow \/ DestroySave \/ CloneSave \/ AttrReady \/ AttrAgain \/ Retry
  BY <1>1, <1>e DEF Poll, DestroyRow, DestroySave, CloneSave, AttrReady, AttrAgain, Retry
<1>2. CASE AdaptEnough \/ AdaptMany \/ AdaptFew \/ GrowDone \/ Crash
  BY <1>2, <1>e DEF AdaptEnough, AdaptMany, AdaptFew, GrowDone, Crash
<1>3. ASSUME NEW i \in Id, Start(i) \/ ShrinkRow(i) PROVE Ends
  BY <1>3, <1>e DEF Start, ShrinkRow
<1>4. ASSUME NEW n \in Slot, GrowRow(n) \/ GrowFails(n) \/ GrowDuplicate(n) \/ Resize(n + 1)
      PROVE  Ends
  BY <1>4, <1>e DEF GrowRow, GrowFails, GrowDuplicate, Resize
<1>5. CASE DestroyVm \/ DestroyFails
  BY <1>5, <1>e DEF DestroyVm, DestroyFails, Destroys
<1>6. CASE CloneVm \/ CloneFails
  BY <1>6, <1>e DEF CloneVm, CloneFails, Makes
<1>7. CASE Restart
  BY <1>7, <1>t, HeldState DEF Restart, Ends
<1>8. ASSUME NEW i \in Id, Tick(i) PROVE Ends
  BY <1>8, <1>t, HeldState DEF Tick, Ends
<1>9. ASSUME NEW c \in Client, ReleaseRead(c) \/ Drop(c) PROVE Ends
  BY <1>9, <1>t, HeldType DEF ReleaseRead, Drop, Ends
<1>10. ASSUME NEW c \in Client, RenewSave(c) PROVE Ends
  <2>1. lease[c].state = "live"
    BY <1>10 DEF RenewSave, Order, RequestIsCurrent
  <2>2. \A d \in Client : lease'[d].state = lease[d].state /\ lease'[d].name = lease[d].name
    BY <1>10, <1>t, <2>1 DEF RenewSave, Held
  <2> QED
    BY <1>10, <2>2 DEF RenewSave, Ends
<1>11. ASSUME NEW c \in Client, ReleaseSave(c) \/ RenewRead(c) \/ \E i \in Id : AcquireRead(c, i)
       PROVE  Ends
  BY <1>11, <1>e DEF ReleaseSave, RenewRead, AcquireRead
<1>12. CASE UNCHANGED vars
  BY <1>12, <1>e DEF vars, host
<1> QED
  BY <1>1, <1>2, <1>3, <1>4, <1>5, <1>6, <1>7, <1>8, <1>9, <1>10, <1>11, <1>12
     DEF Next, Daemon, Request, Answer

-----------------------------------------------------------------------------
(* Each kind of step moves a slot as the contract allows.                  *)

Moves(s) ==
  \/ StageOf(s)' = StageOf(s) /\ Leased(s)' = Leased(s)
  \/ StageOf(s) = "none" /\ StageOf(s)' = "fresh" /\ Leased(s)' = Leased(s)
  \/ StageOf(s) = "fresh" /\ StageOf(s)' = "leased" /\ \E c \in Client : Leased(s)' = {c}
  \/ StageOf(s) = "leased" /\ StageOf(s)' = "used" /\ Leased(s)' = {}
  \/ StageOf(s) \in {"fresh", "used"} /\ StageOf(s)' = "none" /\ Leased(s)' = Leased(s)

LEMMA MovesSuffice ==
  ASSUME \A s \in Slot : Moves(s)
  PROVE  Contract!ContractNext
<1>1. [n \in Slot |-> StageOf(n)]' \in [Slot -> Contract!Stage]
  BY DEF StageOf, Contract!Stage
<1>2. [n \in Slot |-> Leased(n)]' \in [Slot -> SUBSET Client]
  BY DEF Leased
<1>3. ASSUME NEW s \in Slot
      PROVE  \/ Contract!Rest(s) \/ Contract!Build(s) \/ Contract!Grant(s)
             \/ Contract!End(s) \/ Contract!Wipe(s)
  BY DEF Moves, Contract!Rest, Contract!Build, Contract!Grant, Contract!End, Contract!Wipe
<1> QED
  BY <1>1, <1>2, <1>3 DEF Contract!ContractNext

\* A slot has one holder at most.
LEMMA OneHolder ==
  ASSUME Order, NEW s, NEW c \in Leased(s)
  PROVE  Leased(s) = {c}
  BY DEF Order, ExclusiveLease, Leased

LEMMA EndsMoves ==
  ASSUME Order, History, Ends, NEW s \in Slot
  PROVE  Moves(s)
<1>1. vm' = vm /\ dirty' = dirty /\ Leased(s)' \subseteq Leased(s)
  BY DEF Ends, host, Leased
<1>2. CASE Leased(s)' = Leased(s)
  BY <1>1, <1>2 DEF Moves, StageOf
<1>3. CASE Leased(s)' # Leased(s)
  <2>1. PICK c : c \in Leased(s)
    BY <1>1, <1>3
  <2>2. Leased(s) = {c}
    BY <2>1, OneHolder
  <2>3. Leased(s)' = {}
    BY <1>1, <1>3, <2>2
  <2>4. s \in vm /\ s \in dirty
    BY <2>1 DEF Leased, History
  <2> QED
    BY <1>1, <2>1, <2>3, <2>4 DEF Moves, StageOf
<1> QED
  BY <1>2, <1>3

LEMMA HostMoves ==
  ASSUME Tracking, Order, History, Makes \/ Destroys, NEW s \in Slot
  PROVE  Moves(s)
<1> DEFINE n == job.row.name
<1>1. /\ pc \in Working /\ lease' = lease
      /\ pc \in {"clone", "destroy"} /\ job.row.action = pc
  BY DEF Makes, Destroys, Working, Order, AttrIsPristine
<1>2. /\ job.id \in Id /\ rows[job.id] = job.row
      /\ \A c \in Client : lease[c].state = "live" => lease[c].name # n
  BY <1>1, WorkRow
<1>3. Leased(n) = {} /\ Leased(s)' = Leased(s)
  BY <1>1, <1>2 DEF Leased
<1>4. CASE s # n
  BY <1>3, <1>4 DEF Makes, Destroys, Moves, StageOf
<1>5. CASE s = n /\ Destroys
  BY <1>3, <1>5 DEF Destroys, Moves, StageOf
<1>6. CASE s = n /\ Makes
  <2>1. n \notin dirty
    BY <1>2, <1>6 DEF Makes, History, Order, AttrIsPristine
  <2>2. StageOf(s) \in {"none", "fresh"}
    BY <1>3, <1>6, <2>1 DEF StageOf
  <2>3. StageOf(s)' = "fresh"
    BY <1>3, <1>6 DEF Makes, StageOf
  <2> QED
    BY <1>3, <2>2, <2>3 DEF Moves
<1> QED
  BY <1>4, <1>5, <1>6

LEMMA GrantMoves ==
  ASSUME Tracking, Order, NEW c \in Client, AcquireSave(c), NEW s \in Slot
  PROVE  Moves(s)
<1> DEFINE n == req[c].row.name
<1>1. /\ vm' = vm /\ dirty' = dirty \cup {n}
      /\ lease'[c].state = "live" /\ lease'[c].name = n
      /\ \A d \in Client : d # c => lease'[d] = lease[d]
  BY DEF AcquireSave, Tracking, TypeOK
<1>2. /\ req[c].id \in Id /\ Present(req[c].id) /\ rows[req[c].id].name = n
      /\ rows[req[c].id].status = "READY" /\ n \in vm \ dirty /\ lease[c].state = "none"
  BY RequestRow DEF AcquireSave
<1>3. ASSUME NEW d \in Client, lease[d].state = "live" PROVE lease[d].name # n
  <2>1. /\ lease[d].id \in Id /\ Present(lease[d].id)
        /\ rows[lease[d].id].status = "RESERVED" /\ rows[lease[d].id].name = lease[d].name
    BY <1>3, LeaseRow
  <2> QED
    BY <1>2, <2>1, OneRow
<1>4. CASE s = n
  <2>1. Leased(s) = {} /\ Leased(s)' = {c}
    BY <1>1, <1>3, <1>4 DEF Leased
  <2> QED
    BY <1>1, <1>2, <1>4, <2>1 DEF Moves, StageOf
<1>5. CASE s # n
  <2>1. Leased(s)' = Leased(s)
    BY <1>1, <1>2, <1>5 DEF Leased
  <2> QED
    BY <1>1, <1>5, <2>1 DEF Moves, StageOf
<1> QED
  BY <1>4, <1>5

-----------------------------------------------------------------------------
(* The theorems.                                                           *)

\* What History says of used machines is invariant.
THEOREM HistoryInvariant == ASSUME Disciplined PROVE Spec => []History
<1>1. Init => History
  BY HistoryInit
<1>2. Tracking /\ Order /\ History /\ [Next]_vars => History'
  BY HistoryStep
<1> QED
  BY <1>1, <1>2, TrackingInvariant, OrderInvariant, PTL DEF Spec

\* The pool implements its contract, for any numbers of clients, keys and
\* machines and through crashes, failing clones and destroys: a machine is
\* built, leased to one client, used up and destroyed, in that order, and
\* never destroyed while its lease runs.
THEOREM Implements == ASSUME Disciplined PROVE Spec => KeepsContract
<1>1. Init => Contract!ContractInit
  <2> SUFFICES ASSUME Init PROVE Contract!ContractInit
    OBVIOUS
  <2>1. \A n \in Slot : StageOf(n) = "none" /\ Leased(n) = {}
    BY HeldType DEF Init, StageOf, Leased
  <2> QED
    BY <2>1 DEF Contract!ContractInit
<1>2. Tracking /\ Order /\ History /\ [Next]_vars
      => [Contract!ContractNext]_(Contract!cvars)
  <2> SUFFICES ASSUME Tracking, Order, History, [Next]_vars
      PROVE  Contract!ContractNext
    OBVIOUS
  <2>1. \A s \in Slot : Moves(s)
    BY StepKinds, EndsMoves, HostMoves, GrantMoves
  <2> QED
    BY <2>1, MovesSuffice
<1> QED
  BY <1>1, <1>2, TrackingInvariant, OrderInvariant, HistoryInvariant, PTL
     DEF Spec, KeepsContract, Contract!ContractSpec
================================================================================
