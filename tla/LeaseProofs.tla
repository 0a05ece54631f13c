------------------------------ MODULE LeaseProofs ------------------------------
EXTENDS LeaseInvariant, TLAPS, FiniteSetTheorems

-----------------------------------------------------------------------------
(* The records.                                                            *)

\* A name within the pool is a natural number below MaxSize; 0 is one.
LEMMA SlotFacts == 0 \in Slot /\ \A n \in Slot : n \in Nat /\ n < MaxSize /\ n + 1 \in 0..MaxSize /\ n + 1 \in Nat
  BY SizeAssumption DEF Slot

LEMMA NoRowType == NoRow \in Row /\ NoRow.status = "absent" /\ NoRow.name = 0 /\ NoRow.due = FALSE /\ NoRow.action = "none"
  BY SlotFacts DEF NoRow, Row, Status, Action

LEMMA RowFields ==
  ASSUME NEW r \in Row
  PROVE  r.status \in Status /\ r.action \in Action /\ r.name \in Slot /\ r.due \in BOOLEAN
  BY DEF Row

LEMMA Words ==
  /\ "PENDING" \in Status /\ "READY" \in Status /\ "RESERVED" \in Status
  /\ "clone" \in Action /\ "attr" \in Action /\ "destroy" \in Action /\ "none" \in Action
  BY DEF Status, Action

LEMMA WrittenType ==
  ASSUME NEW s \in Status, NEW a \in Action, NEW n \in Slot
  PROVE  /\ Written(s, a, n) \in Row
         /\ Written(s, a, n).status = s /\ Written(s, a, n).action = a
         /\ Written(s, a, n).name = n /\ Written(s, a, n).due = FALSE
  BY DEF Written, Row

\* transition() leaves a table.
LEMMA SavedType ==
  ASSUME rows \in [Id -> Row], NEW i, NEW s \in Status, NEW a \in Action, NEW n \in Slot
  PROVE  /\ Saved(i, s, a, n) \in [Id -> Row]
         /\ \A j \in Id : Saved(i, s, a, n)[j] = IF j = i THEN Written(s, a, n) ELSE rows[j]
  BY WrittenType DEF Saved

LEMMA JobFields ==
  ASSUME NEW j \in Job
  PROVE  /\ j.id \in Id \cup {NoId} /\ j.row \in Row /\ j.max \in 1..MaxSize
         /\ j.caller \in {"main", "destroy", "clone", "attr"}
         /\ [j EXCEPT !.id = NoId] \in Job
         /\ \A r \in Row : [j EXCEPT !.row = r] \in Job
  BY DEF Job

LEMMA JobType ==
  /\ NoJob \in Job /\ NoJob.id = NoId
  /\ \A m \in 1..MaxSize : [NoJob EXCEPT !.max = m] \in Job
  /\ \A i \in Id, r \in Row, a \in {"destroy", "clone", "attr"}, m \in 1..MaxSize :
       [id |-> i, row |-> r, caller |-> a, max |-> m] \in Job
  BY NoRowType, SizeAssumption DEF Job, NoJob

LEMMA WalkType ==
  /\ NoWalk \in Walk
  /\ \A m \in 0..MaxSize, k \in 0..MaxSize : [at |-> m, missing |-> k] \in Walk
  BY SizeAssumption DEF Walk, NoWalk

LEMMA WalkFields ==
  ASSUME NEW w \in Walk PROVE w.at \in 0..MaxSize /\ w.missing \in 0..MaxSize
  BY DEF Walk

LEMMA ReqType ==
  /\ NoReq \in Req /\ NoReq.op = "none" /\ NoReq.id = NoId
  /\ \A o \in {"acquire", "release", "renew"}, i \in Id, r \in Row :
       [op |-> o, id |-> i, row |-> r] \in Req
  BY NoRowType DEF Req, NoReq

LEMMA ReqFields ==
  ASSUME NEW q \in Req
  PROVE  q.op \in {"none", "acquire", "release", "renew"} /\ q.id \in Id \cup {NoId} /\ q.row \in Row
  BY DEF Req

LEMMA HeldFields ==
  ASSUME NEW l \in Held
  PROVE  l.id \in Id \cup {NoId} /\ l.name \in Slot
  BY DEF Held

\* What becomes of a lease: it changes its state and nothing else.
LEMMA HeldState ==
  ASSUME NEW l \in Held
  PROVE  /\ [l EXCEPT !.state = "expired"] \in Held
         /\ [l EXCEPT !.state = "expired"].state = "expired"
         /\ [l EXCEPT !.state = "expired"].id = l.id
         /\ [l EXCEPT !.state = "revoked"] \in Held
         /\ [l EXCEPT !.state = "revoked"].state = "revoked"
         /\ [l EXCEPT !.state = "revoked"].id = l.id
         /\ [l EXCEPT !.state = IF @ = "live" THEN "live" ELSE "late"] \in Held
         /\ l.state = "live" => [l EXCEPT !.state = IF @ = "live" THEN "live" ELSE "late"] = l
         /\ [l EXCEPT !.state = IF @ = "live" THEN "live" ELSE "late"].state \in {"live", "late"}
         /\ [l EXCEPT !.state = IF @ = "live" THEN "live" ELSE "late"].id = l.id
  BY DEF Held

LEMMA HeldType ==
  /\ NoLease \in Held /\ NoLease.state = "none"
  /\ \A i \in Id, n \in Slot : [state |-> "live", id |-> i, name |-> n] \in Held
  BY SlotFacts DEF Held, NoLease

LEMMA DueType ==
  ASSUME NEW r \in Row
  PROVE  /\ [r EXCEPT !.due = TRUE] \in Row
         /\ [r EXCEPT !.due = TRUE].status = r.status
         /\ [r EXCEPT !.due = TRUE].action = r.action
         /\ [r EXCEPT !.due = TRUE].name = r.name
         /\ [r EXCEPT !.due = TRUE].due
  BY DEF Row

LEMMA CurrentFinite == IsFiniteSet(Current) /\ Cardinality(Current) \in Nat
  BY IdAssumption, FS_Subset, FS_CardinalityType DEF Current

-----------------------------------------------------------------------------
(* Types.                                                                  *)

LEMMA TypeStep ==
  ASSUME TypeOK, LeaseKeys, JobInTable, RequestNames, [Next]_vars
  PROVE  TypeOK'
<1> USE DEF TypeOK, table, host, daemon
<1>1. CASE Poll
  BY <1>1, NoRowType DEF Poll, Waiting
<1>2. CASE DestroyRow
  BY <1>2, NoRowType, JobFields DEF DestroyRow
<1>3. CASE DestroyVm
  BY <1>3 DEF DestroyVm
<1>4. CASE DestroyFails
  BY <1>4, FaultAssumption DEF DestroyFails, Fault
<1>5. CASE DestroySave
  BY <1>5, JobFields, RowFields, SavedType DEF DestroySave
<1>6. CASE CloneVm
  BY <1>6, JobFields, RowFields DEF CloneVm
<1>7. CASE CloneFails
  <2>1. job.row.name \in Slot
    BY JobFields, RowFields
  <2>2. /\ vm' \subseteq Slot /\ dirty' \subseteq Slot /\ pc' = "retry"
    BY <1>7, <2>1 DEF CloneFails
  <2>3. faults' \in 0..MaxFaults
    BY <1>7, FaultAssumption DEF CloneFails, Fault
  <2> QED
    BY <1>7, <2>2, <2>3 DEF CloneFails
<1>8. CASE CloneSave
  <2>1. job.row.name \in Slot /\ job.row \in Row
    BY JobFields, RowFields
  <2>2. rows' \in [Id -> Row]
    BY <1>8, <2>1, SavedType, Words DEF CloneSave
  <2>3. Written("PENDING", "attr", job.row.name) \in Row
    BY <2>1, WrittenType, Words
  <2>4. job' \in Job
    BY <1>8, <2>3, JobFields DEF CloneSave
  <2> QED
    BY <1>8, <2>2, <2>4 DEF CloneSave
<1>9. CASE AttrReady
  <2>1. job.row.name \in Slot
    BY JobFields, RowFields
  <2>2. rows' \in [Id -> Row]
    BY <1>9, <2>1, SavedType, Words DEF AttrReady
  <2> QED
    BY <1>9, <2>2 DEF AttrReady
<1>10. CASE AttrAgain
  <2>1. job.row \in Row
    BY JobFields
  <2>2. rows' \in [Id -> Row]
    BY <1>10, <2>1, RowFields, SavedType, Words DEF AttrAgain
  <2>3. faults' \in 0..MaxFaults
    BY <1>10, FaultAssumption DEF AttrAgain, Fault
  <2> QED
    BY <1>10, <2>2, <2>3, JobType, WalkType DEF AttrAgain, Finish
<1>11. CASE Retry
  <2>1. job.row \in Row
    BY JobFields
  <2>2. job.row.status \in Status /\ job.row.action \in Action /\ job.row.name \in Slot
    BY <2>1, RowFields
  <2>3. \A i : Saved(i, job.row.status, job.row.action, job.row.name) \in [Id -> Row]
    BY <2>2, SavedType
  <2>4. rows' \in [Id -> Row]
    BY <1>11, <2>3 DEF Retry
  <2> QED
    BY <1>11, <2>4, JobType, WalkType DEF Retry, Finish
<1>12. CASE AdaptEnough
  BY <1>12, JobType, WalkType DEF AdaptEnough, Finish
<1>13. CASE AdaptMany
  BY <1>13, JobType, WalkType DEF AdaptMany, Finish, Victims
<1>14. CASE AdaptFew
  <2>1. job.max \in 1..MaxSize
    BY JobFields
  <2>2. Cardinality(Current) \in Nat
    BY CurrentFinite
  <2>3. walk' \in Walk
    BY <1>14, <2>1, <2>2, WalkType, SizeAssumption DEF AdaptFew
  <2> QED
    BY <1>14, <2>3 DEF AdaptFew
<1>15. CASE GrowDone
  BY <1>15, JobType, WalkType DEF GrowDone, Finish
<1>16. CASE Crash
  BY <1>16, JobType, WalkType, NoRowType, FaultAssumption DEF Crash, Halt, Fault, NoBatch
<1>17. CASE Restart
  <2>1. \A i \in Id : SetupRow(i) \in Row
    BY NoRowType, WrittenType, Words, RowFields DEF SetupRow
  <2>2. lease' \in [Client -> Held]
    BY <1>17, HeldState DEF Restart
  <2>3. job' \in Job
    BY <1>17, JobType DEF Restart
  <2> QED
    BY <1>17, <2>1, <2>2, <2>3 DEF Restart
<1>18. ASSUME NEW i \in Id, Start(i) PROVE TypeOK'
  BY <1>18, JobType, NoRowType, RowFields DEF Start, Action
<1>19. ASSUME NEW i \in Id, ShrinkRow(i) PROVE TypeOK'
  <2>1. rows' \in [Id -> Row]
    BY <1>19, RowFields, SavedType, Words DEF ShrinkRow
  <2> QED
    BY <1>19, <2>1, JobType, WalkType DEF ShrinkRow, Finish
<1>20. ASSUME NEW n \in Slot, GrowRow(n) PROVE TypeOK'
  <2>1. rows' \in [Id -> Row]
    BY <1>20, SavedType, Words DEF GrowRow
  <2>2. n + 1 \in 0..MaxSize /\ walk.missing - 1 \in 0..MaxSize
    BY <1>20, SlotFacts, WalkFields, SizeAssumption DEF GrowRow
  <2>3. walk' \in Walk
    BY <1>20, <2>2, WalkType DEF GrowRow
  <2> QED
    BY <1>20, <2>1, <2>3 DEF GrowRow
<1>21. ASSUME NEW n \in Slot, GrowFails(n) PROVE TypeOK'
  <2>1. \A j : Saved(j, "PENDING", "clone", n) \in [Id -> Row]
    BY SavedType, Words
  <2>2. rows' \in [Id -> Row]
    BY <1>21, <2>1 DEF GrowFails
  <2>3. faults' \in 0..MaxFaults
    BY <1>21, FaultAssumption DEF GrowFails, Fault
  <2> QED
    BY <1>21, <2>2, <2>3, WalkType, JobType, NoRowType DEF GrowFails, Raise, Halt, NoBatch
<1>22. ASSUME NEW n \in Slot, GrowDuplicate(n) PROVE TypeOK'
  BY <1>22, WalkType, JobType, NoRowType DEF GrowDuplicate, Raise, Halt, NoBatch
<1>23. ASSUME NEW c \in Client, NEW i \in Id, AcquireRead(c, i) PROVE TypeOK'
  BY <1>23, ReqType DEF AcquireRead, Ask
<1>24. ASSUME NEW c \in Client, ReleaseRead(c) PROVE TypeOK'
  <2>1. lease[c].id \in Id
    BY <1>24 DEF ReleaseRead, MayCall, LeaseKeys
  <2>2. req' \in [Client -> Req]
    BY <1>24, <2>1, ReqType DEF ReleaseRead, Ask
  <2>3. lease' \in [Client -> Held]
    BY <1>24, HeldType DEF ReleaseRead
  <2> QED
    BY <1>24, <2>2, <2>3 DEF ReleaseRead
<1>25. ASSUME NEW c \in Client, AcquireSave(c) PROVE TypeOK'
  <2>1. req[c].id \in Id /\ req[c].row \in Row /\ req[c].row.name \in Slot
    BY <1>25, ReqFields, RowFields DEF AcquireSave, RequestNames
  <2>2. rows' \in [Id -> Row]
    BY <1>25, <2>1, SavedType, Words DEF AcquireSave
  <2>3. lease' \in [Client -> Held]
    BY <1>25, <2>1, HeldType DEF AcquireSave
  <2>4. req' \in [Client -> Req]
    BY <1>25, ReqType DEF AcquireSave
  <2> QED
    BY <1>25, <2>1, <2>2, <2>3, <2>4 DEF AcquireSave
<1>26. ASSUME NEW c \in Client, ReleaseSave(c) PROVE TypeOK'
  BY <1>26, ReqType, ReqFields, RowFields, SavedType DEF ReleaseSave, Status, Action
<1>27. ASSUME NEW c \in Client, RenewRead(c) PROVE TypeOK'
  BY <1>27, ReqType DEF RenewRead, Ask, LeaseKeys, MayCall
<1>28. ASSUME NEW c \in Client, RenewSave(c) PROVE TypeOK'
  <2>1. rows' \in [Id -> Row]
    BY <1>28, ReqFields, RowFields, SavedType, Words DEF RenewSave
  <2>2. lease' \in [Client -> Held]
    BY <1>28, HeldState DEF RenewSave
  <2>3. req' \in [Client -> Req]
    BY <1>28, ReqType DEF RenewSave
  <2> QED
    BY <1>28, <2>1, <2>2, <2>3 DEF RenewSave
<1>29. ASSUME NEW c \in Client, Drop(c) PROVE TypeOK'
  BY <1>29, HeldType DEF Drop
<1>30. ASSUME NEW i \in Id, Tick(i) PROVE TypeOK'
  <2>1. rows' \in [Id -> Row]
    BY <1>30, DueType DEF Tick
  <2>2. lease' \in [Client -> Held]
    BY <1>30, HeldState DEF Tick
  <2> QED
    BY <1>30, <2>1, <2>2 DEF Tick
<1>31. ASSUME NEW n \in Slot, Resize(n + 1) PROVE TypeOK'
  BY SizeAssumption, <1>31 DEF Resize
<1>32. CASE UNCHANGED vars
  BY <1>32 DEF vars
<1> QED
  BY <1>1, <1>2, <1>3, <1>4, <1>5, <1>6, <1>7, <1>8, <1>9, <1>10, <1>11, <1>12, <1>13, <1>14, <1>15, <1>16, <1>17, <1>18, <1>19, <1>20, <1>21, <1>22, <1>23, <1>24, <1>25, <1>26, <1>27, <1>28, <1>29, <1>30, <1>31, <1>32 DEF Next, Daemon, Request, Answer

LEMMA JobUpdates ==
  ASSUME NEW j \in Job
  PROVE  /\ [j EXCEPT !.id = NoId].id = NoId
         /\ [j EXCEPT !.id = NoId].row = j.row
         /\ [j EXCEPT !.id = NoId].caller = j.caller
         /\ \A r \in Row : /\ [j EXCEPT !.row = r].id = j.id
                           /\ [j EXCEPT !.row = r].row = r
                           /\ [j EXCEPT !.row = r].caller = j.caller
         /\ \A m : /\ [NoJob EXCEPT !.max = m].id = NoId
                   /\ [NoJob EXCEPT !.max = m].caller = "main"
  BY DEF Job, NoJob

LEMMA NothingHeld ==
  /\ NoJob.id = NoId /\ NoJob.caller = "main" /\ NoId \notin Id
  /\ \A i \in Id : NoBatch[i] = NoRow
  BY IdAssumption DEF NoJob, NoBatch

-----------------------------------------------------------------------------
(* Tracking.  What a step does to the table is put in two sentences: a row *)
(* stays, under its name (Stays); a row that is there afterwards was there *)
(* before, or has a key nobody knew, or is one that a request has just     *)
(* written (Comes).  All that Tracking says follows from the two.          *)

Stays(i) == Present(i) => Present(i)' /\ rows'[i].name = rows[i].name

Comes(i) ==
  Present(i)' => \/ Present(i) /\ rows'[i].name = rows[i].name
                 \/ i \in Fresh
                 \/ \E c \in Client : /\ req[c].op # "none" /\ req[c].id = i
                                      /\ rows'[i].name = req[c].row.name

LEMMA StaysIfUnchanged ==
  ASSUME rows' = rows
  PROVE  \A i \in Id : Stays(i) /\ Comes(i)
  BY DEF Stays, Comes, Present

\* A save of a row that is there, under its name.
LEMMA StaysIfSaved ==
  ASSUME rows \in [Id -> Row], NEW k \in Id, Present(k),
         NEW s \in Status, NEW a \in Action, s # "absent",
         rows' = Saved(k, s, a, rows[k].name)
  PROVE  \A i \in Id : Stays(i) /\ Comes(i)
<1>1. rows[k].name \in Slot
  BY RowFields
<1>2. /\ Written(s, a, rows[k].name).status = s
      /\ Written(s, a, rows[k].name).name = rows[k].name
  BY DEF Written
<1>3. \A i \in Id : rows'[i] = IF i = k THEN Written(s, a, rows[k].name) ELSE rows[i]
  BY <1>1, SavedType
<1> QED
  BY <1>2, <1>3 DEF Stays, Comes, Present

\* A row inserted under a fresh key.
LEMMA StaysIfInserted ==
  ASSUME rows \in [Id -> Row], NEW k \in Fresh, NEW s, NEW a, NEW n,
         rows' = Saved(k, s, a, n)
  PROVE  \A i \in Id : Stays(i) /\ Comes(i)
<1>1. \A i \in Id : i # k => rows'[i] = rows[i]
  BY DEF Saved
<1>2. ~Present(k)
  BY DEF Fresh
<1> QED
  BY <1>1, <1>2 DEF Stays, Comes, Present

\* The save at the end of a request, which may bring back a deleted row.
LEMMA StaysIfRequestSaves ==
  ASSUME TypeOK, RequestNames, NEW c \in Client, req[c].op # "none",
         NEW s \in Status, NEW a \in Action, s # "absent",
         rows' = Saved(req[c].id, s, a, req[c].row.name)
  PROVE  \A i \in Id : Stays(i) /\ Comes(i)
<1>1. req[c].row.name \in Slot /\ rows \in [Id -> Row]
  BY ReqFields, RowFields DEF TypeOK
<1>2. /\ Written(s, a, req[c].row.name).status = s
      /\ Written(s, a, req[c].row.name).name = req[c].row.name
  BY DEF Written
<1>3. \A i \in Id : rows'[i] = IF i = req[c].id
                               THEN Written(s, a, req[c].row.name) ELSE rows[i]
  BY <1>1, SavedType
<1>4. Present(req[c].id) => rows[req[c].id].name = req[c].row.name
  BY DEF RequestNames
<1> QED
  BY <1>2, <1>3, <1>4 DEF Stays, Comes, Present

\* Rows that stay keep every machine tracked that was.
LEMMA VmTrackedStep ==
  ASSUME VmTracked, \A i \in Id : Stays(i), vm' \subseteq vm
  PROVE  VmTracked'
  BY DEF VmTracked, Holders, Stays, Present

LEMMA RequestNamesStep ==
  ASSUME RequestNames, \A i \in Id : Comes(i),
         \A c \in Client : req'[c] = req[c] \/ req'[c].op = "none"
  PROVE  RequestNames'
<1>1. ASSUME NEW c \in Client, req'[c].op # "none"
      PROVE  req'[c] = req[c] /\ req[c].op # "none" /\ req[c].id \in Id
  BY <1>1 DEF RequestNames
<1>2. ASSUME NEW c \in Client, req'[c].op # "none", Present(req[c].id)'
      PROVE  rows'[req'[c].id].name = req'[c].row.name
  <2>1. req'[c] = req[c] /\ req[c].op # "none" /\ req[c].id \in Id
    BY <1>1, <1>2
  <2>2. req[c].id \notin Fresh
    BY DEF Fresh
  <2>3. Comes(req[c].id)
    BY <2>1
  <2> QED
    BY <1>2, <2>1, <2>2, <2>3 DEF RequestNames, Comes, Present
<1>3. ASSUME NEW c \in Client, NEW d \in Client,
             req'[c].op # "none", req'[d].op # "none", req'[d].id = req'[c].id
      PROVE  req'[d].row.name = req'[c].row.name
  BY <1>1, <1>3 DEF RequestNames
<1> QED
  BY <1>1, <1>2, <1>3 DEF RequestNames, Present

LEMMA BatchInTableStep ==
  ASSUME BatchInTable, \A i \in Id : Stays(i),
         \A i \in Id : batch'[i] = batch[i] \/ batch'[i] = NoRow,
         job'.id = job.id \/ job'.id = NoId
  PROVE  BatchInTable'
  BY IdAssumption DEF BatchInTable, Stays, Present

\* A step of the daemon that keeps working on its row.
LEMMA JobInTableStep ==
  ASSUME JobInTable, \A i \in Id : Stays(i),
         job'.id = job.id, job'.row.name = job.row.name,
         job'.caller = job.caller,
         job.row.status # "absent" => job'.row.status # "absent",
         \/ pc' = pc
         \/ pc \in Working
         \/ pc' \notin Working \cup {"retry"}
         \/ pc' = "retry" /\ job.caller # "main"
  PROVE  JobInTable'
  BY DEF JobInTable, Stays, Present, Working

\* A step of the daemon that ends its work.
LEMMA JobInTableEnd ==
  ASSUME job'.id = NoId, job'.caller = "main", pc' \notin Working \cup {"retry"}
  PROVE  JobInTable'
  BY IdAssumption DEF JobInTable, Working

\* Every conjunct of Tracking, from what a step does to the table and to the
\* variables that it does not forget.
LEMMA TrackingFrame ==
  ASSUME Tracking, TypeOK',
         \A i \in Id : Stays(i) /\ Comes(i),
         vm' \subseteq vm,
         JobInTable', AtRest',
         job'.id = job.id \/ job'.id = NoId,
         \A i \in Id : batch'[i] = batch[i] \/ batch'[i] = NoRow,
         todo' \subseteq todo,
         \A c \in Client : req'[c] = req[c] \/ req'[c].op = "none",
         LeaseKeys'
  PROVE  Tracking'
<1>1. VmTracked'
  BY VmTrackedStep DEF Tracking
<1>2. RequestNames'
  BY RequestNamesStep DEF Tracking
<1>3. BatchInTable'
  BY BatchInTableStep DEF Tracking
<1>4. TodoInTable'
  BY DEF Tracking, TypeOK, TodoInTable, Stays
<1> QED
  BY <1>1, <1>2, <1>3, <1>4 DEF Tracking

\* A step of the daemon, which leaves requests and leases alone.
LEMMA DaemonFrame ==
  ASSUME Tracking, TypeOK',
         \A i \in Id : Stays(i) /\ Comes(i),
         vm' \subseteq vm, req' = req, lease' = lease,
         JobInTable', AtRest',
         job'.id = job.id \/ job'.id = NoId,
         \A i \in Id : batch'[i] = batch[i] \/ batch'[i] = NoRow,
         todo' \subseteq todo
  PROVE  Tracking'
<1>1. LeaseKeys'
  BY DEF Tracking, LeaseKeys
<1> QED
  BY <1>1, TrackingFrame

\* A step of the daemon that ends the handling of an entry.
LEMMA FinishFrame ==
  ASSUME Tracking, TypeOK', \A i \in Id : Stays(i) /\ Comes(i),
         vm' \subseteq vm, req' = req, lease' = lease, batch' = batch, Finish
  PROVE  Tracking'
<1>1. job'.id = NoId /\ job'.caller = "main" /\ pc' = "loop" /\ todo' = {}
  BY NothingHeld DEF Finish
<1>2. JobInTable'
  BY <1>1, JobInTableEnd DEF Working
<1>3. AtRest'
  BY <1>1 DEF AtRest
<1> QED
  BY <1>1, <1>2, <1>3, DaemonFrame

\* The end of the process.
LEMMA HaltFrame ==
  ASSUME Tracking, TypeOK', \A i \in Id : Stays(i) /\ Comes(i),
         vm' \subseteq vm, req' = req, lease' = lease, Halt
  PROVE  Tracking'
<1>1. job'.id = NoId /\ job'.caller = "main" /\ pc' = "down" /\ todo' = {}
  BY NothingHeld DEF Halt
<1>2. batch' = NoBatch /\ \A i \in Id : batch'[i] = NoRow
  BY NothingHeld DEF Halt
<1>3. JobInTable'
  BY <1>1, JobInTableEnd DEF Working
<1>4. AtRest'
  BY <1>1, <1>2 DEF AtRest
<1> QED
  BY <1>1, <1>2, <1>3, <1>4, DaemonFrame

\* A step of the daemon within the handling of an entry, at pc = "now".
LEMMA WorkFrame ==
  ASSUME Tracking, TypeOK', \A i \in Id : Stays(i) /\ Comes(i),
         vm' \subseteq vm, req' = req, lease' = lease, batch' = batch,
         job'.id = job.id, job'.row.name = job.row.name, job'.caller = job.caller,
         job.row.status # "absent" => job'.row.status # "absent",
         todo' = todo, pc # "shrink", pc' \notin {"loop", "down"},
         \/ pc \in Working
         \/ pc' \notin Working \cup {"retry"}
         \/ pc' = "retry" /\ job.caller # "main"
  PROVE  Tracking'
<1>1. JobInTable'
  BY JobInTableStep DEF Tracking
<1>2. AtRest'
  BY DEF Tracking, AtRest
<1> QED
  BY <1>1, <1>2, DaemonFrame

\* A raise out of adapt.
LEMMA RaiseFrame ==
  ASSUME Tracking, TypeOK', \A i \in Id : Stays(i) /\ Comes(i),
         vm' \subseteq vm, req' = req, lease' = lease, pc = "grow", Raise
  PROVE  Tracking'
<1>1. CASE Halt
  BY <1>1, HaltFrame
<1>2. CASE job.caller \in {"destroy", "clone"} /\ UNCHANGED <<batch, job, todo>> /\ pc' = "retry"
  BY <1>2, WorkFrame
<1> QED
  BY <1>1, <1>2 DEF Raise

\* A request or the clock: the daemon's variables stay.
LEMMA RequestFrame ==
  ASSUME Tracking, TypeOK', \A i \in Id : Stays(i) /\ Comes(i),
         vm' = vm, UNCHANGED daemon,
         \A c \in Client : req'[c] = req[c] \/ req'[c].op = "none",
         LeaseKeys'
  PROVE  Tracking'
<1>1. JobInTable'
  BY JobInTableStep DEF Tracking, daemon
<1>2. AtRest'
  BY DEF Tracking, AtRest, daemon, NoBatch
<1> QED
  BY <1>1, <1>2, TrackingFrame DEF daemon

\* While it works on a row the daemon finds it in the table, under the name
\* of its object and with an object that is not of a deleted row.
LEMMA JobRow ==
  ASSUME Tracking, pc \in Working
  PROVE  /\ job.id \in Id /\ Present(job.id) /\ rows[job.id].name = job.row.name
         /\ job.row.status # "absent" /\ job.caller # "main"
         /\ job.row.status \in Status /\ job.row.action \in Action
         /\ job.row.name \in Slot /\ job.row \in Row /\ job \in Job
         /\ pc # "shrink" /\ rows \in [Id -> Row]
<1>1. job \in Job /\ job.row \in Row
  BY JobFields DEF Tracking, TypeOK
<1>2. job.row.status \in Status /\ job.row.action \in Action /\ job.row.name \in Slot
  BY <1>1, RowFields
<1> QED
  BY <1>1, <1>2 DEF Tracking, JobInTable, TypeOK, Working

\* Every step preserves Tracking.
LEMMA TrackingStep ==
  ASSUME Tracking, [Next]_vars
  PROVE  Tracking'
<1>t. TypeOK'
  BY TypeStep DEF Tracking
<1>k. rows' = rows => \A i \in Id : Stays(i) /\ Comes(i)
  BY StaysIfUnchanged
<1>l. lease' = lease /\ (\A c \in Client : req'[c] = req[c] \/ req'[c].op # "renew")
      => LeaseKeys'
  BY DEF Tracking, LeaseKeys
<1>1. CASE Poll
  <2>1. \A i \in Id : batch'[i] # NoRow =>
          /\ Present(i) /\ batch'[i] = rows[i]
    BY <1>1 DEF Poll, Waiting
  <2>2. job.id \notin Id /\ rows' = rows /\ job' = job
    BY <1>1, IdAssumption DEF Poll, Tracking, AtRest, table
  <2>3. BatchInTable'
    BY <2>1, <2>2 DEF BatchInTable, Present
  <2>4. JobInTable' /\ RequestNames' /\ VmTracked' /\ TodoInTable' /\ LeaseKeys'
    BY <1>1 DEF Poll, Tracking, JobInTable, RequestNames, VmTracked, TodoInTable,
                LeaseKeys, Holders, Present, table, host
  <2>5. AtRest'
    BY <1>1 DEF Poll, Tracking, AtRest
  <2> QED
    BY <1>t, <2>3, <2>4, <2>5 DEF Tracking
<1>2. CASE DestroyRow
  <2>1. pc \in Working
    BY <1>2 DEF DestroyRow, Working
  <2>2. job.id \in Id /\ Present(job.id) /\ rows[job.id].name = job.row.name /\ job \in Job
        /\ job.row.status # "absent" /\ job.caller # "main" /\ pc # "shrink"
    BY <2>1, JobRow
  <2>3. /\ job'.id = NoId /\ job'.row = job.row /\ job'.caller = job.caller
    BY <1>2, <2>2, JobUpdates DEF DestroyRow
  <2>4. \A i \in Id : rows'[i] = IF i = job.id THEN NoRow ELSE rows[i]
    BY <1>2, <2>2 DEF DestroyRow, Tracking, TypeOK
  <2>5. VmTracked'
    BY <1>2, <2>2, <2>4 DEF VmTracked, Tracking, Holders, Present, DestroyRow, host
  <2>6. RequestNames'
    <3>1. \A i \in Id : Comes(i)
      BY <2>4, NoRowType DEF Comes, Present
    <3> QED
      BY <1>2, <3>1, RequestNamesStep DEF DestroyRow, Tracking
  <2>7. BatchInTable'
    BY <1>2, <2>2, <2>3, <2>4, NothingHeld DEF DestroyRow, Tracking, BatchInTable, Present
  <2>8. JobInTable'
    BY <1>2, <2>2, <2>3, NothingHeld DEF DestroyRow, JobInTable, Working
  <2>9. TodoInTable' /\ AtRest' /\ LeaseKeys'
    BY <1>2, <2>2, <1>l DEF DestroyRow, Tracking, TodoInTable, AtRest
  <2> QED
    BY <1>t, <2>5, <2>6, <2>7, <2>8, <2>9 DEF Tracking
<1>3. CASE DestroyVm
  BY <1>3, <1>t, <1>k, WorkFrame DEF DestroyVm, table, Working
<1>4. CASE DestroyFails
  <2>1. pc' = "retry" /\ pc \in Working /\ vm' \subseteq vm
    BY <1>4 DEF DestroyFails, Working, host
  <2> QED
    BY <1>4, <1>t, <1>k, <2>1, WorkFrame DEF DestroyFails, table, Working
<1>5. CASE DestroySave
  <2>1. pc \in Working
    BY <1>5 DEF DestroySave, Working
  <2>2. \A i \in Id : Stays(i) /\ Comes(i)
    BY <1>5, <2>1, JobRow, StaysIfSaved DEF DestroySave
  <2> QED
    BY <1>5, <1>t, <2>1, <2>2, WorkFrame DEF DestroySave, host, Working
<1>6. CASE CloneVm
  <2>1. pc \in Working
    BY <1>6 DEF CloneVm, Working
  <2>2. Present(job.id) /\ rows[job.id].name = job.row.name /\ job.id \in Id
    BY <2>1, JobRow
  <2>3. VmTracked'
    BY <1>6, <2>2 DEF CloneVm, Tracking, VmTracked, Holders, Present, table
  <2>4. JobInTable' /\ BatchInTable' /\ RequestNames' /\ TodoInTable' /\ AtRest' /\ LeaseKeys'
    BY <1>6 DEF CloneVm, Tracking, JobInTable, BatchInTable, RequestNames, TodoInTable,
                AtRest, LeaseKeys, Present, table, Working
  <2> QED
    BY <1>t, <2>3, <2>4 DEF Tracking
<1>7. CASE CloneFails
  <2>1. pc \in Working
    BY <1>7 DEF CloneFails, Working
  <2>2. Present(job.id) /\ rows[job.id].name = job.row.name /\ job.id \in Id /\ job.caller # "main"
    BY <2>1, JobRow
  <2>3. rows' = rows /\ vm' \subseteq vm \cup {job.row.name}
    BY <1>7 DEF CloneFails, host, table
  <2>4. VmTracked'
    BY <2>2, <2>3 DEF Tracking, VmTracked, Holders, Present
  <2>5. JobInTable'
    BY <1>7, <2>2, <2>3, JobInTableStep, <1>k DEF CloneFails, Tracking
  <2>6. BatchInTable' /\ RequestNames' /\ TodoInTable' /\ LeaseKeys'
    BY <1>7 DEF CloneFails, Tracking, BatchInTable, RequestNames, TodoInTable,
                LeaseKeys, Present, table
  <2>7. AtRest'
    BY <1>7 DEF CloneFails, Tracking, AtRest
  <2> QED
    BY <1>t, <2>4, <2>5, <2>6, <2>7 DEF Tracking
<1>8. CASE CloneSave
  <2>1. pc \in Working /\ pc # "shrink"
    BY <1>8 DEF CloneSave, Working
  <2>2. \A i \in Id : Stays(i) /\ Comes(i)
    BY <1>8, <2>1, JobRow, StaysIfSaved, Words DEF CloneSave
  <2>3. job \in Job /\ job.row.name \in Slot
    BY <2>1, JobRow
  <2>4. Written("PENDING", "attr", job.row.name) \in Row
    BY <2>3, WrittenType, Words
  <2>6. /\ Written("PENDING", "attr", job.row.name).status = "PENDING"
        /\ Written("PENDING", "attr", job.row.name).name = job.row.name
    BY DEF Written
  <2>5. /\ job'.id = job.id /\ job'.caller = job.caller
        /\ job'.row.name = job.row.name /\ job'.row.status # "absent"
    BY <1>8, <2>3, <2>4, <2>6, JobUpdates DEF CloneSave
  <2> QED
    BY <1>8, <1>t, <2>1, <2>2, <2>5, WorkFrame DEF CloneSave, host
<1>9. CASE AttrReady
  <2>1. pc \in Working /\ pc # "shrink"
    BY <1>9 DEF AttrReady, Working
  <2>2. \A i \in Id : Stays(i) /\ Comes(i)
    BY <1>9, <2>1, JobRow, StaysIfSaved, Words DEF AttrReady
  <2> QED
    BY <1>9, <1>t, <2>1, <2>2, WorkFrame DEF AttrReady, host
<1>10. CASE AttrAgain
  <2>1. pc \in Working /\ pc # "shrink"
    BY <1>10 DEF AttrAgain, Working
  <2>2. \A i \in Id : Stays(i) /\ Comes(i)
    BY <1>10, <2>1, JobRow, StaysIfSaved DEF AttrAgain
  <2> QED
    BY <1>10, <1>t, <2>2, FinishFrame DEF AttrAgain, host
<1>11. CASE Retry
  <2>1. job \in Job /\ job.row \in Row /\ rows \in [Id -> Row] /\ job.row.status # "absent"
    BY <1>11, JobFields DEF Retry, Tracking, TypeOK, JobInTable
  <2>2. job.row.status \in Status /\ job.row.action \in Action /\ job.id \in Id \cup {NoId}
    BY <2>1, RowFields, JobFields
  <2>3. CASE job.id # NoId /\ rows' = Saved(job.id, job.row.status, job.row.action, job.row.name)
    <3>1. job.id \in Id /\ Present(job.id) /\ rows[job.id].name = job.row.name
      BY <2>2, <2>3 DEF Tracking, JobInTable
    <3>2. \A i \in Id : Stays(i) /\ Comes(i)
      BY <2>1, <2>2, <2>3, <3>1, StaysIfSaved
    <3> QED
      BY <1>11, <1>t, <3>2, FinishFrame DEF Retry, host
  <2>4. ASSUME NEW j \in Fresh, rows' = Saved(j, job.row.status, job.row.action, job.row.name)
        PROVE  Tracking'
    <3>1. \A i \in Id : Stays(i) /\ Comes(i)
      BY <2>1, <2>4, StaysIfInserted
    <3> QED
      BY <1>11, <1>t, <3>1, FinishFrame DEF Retry, host
  <2> QED
    BY <1>11, <2>3, <2>4 DEF Retry
<1>12. CASE AdaptEnough
  BY <1>12, <1>t, <1>k, FinishFrame DEF AdaptEnough, table, host
<1>13. CASE AdaptMany
  <2>1. rows' = rows /\ vm' = vm /\ batch' = batch /\ req' = req /\ lease' = lease
    BY <1>13 DEF AdaptMany, table, host
  <2>2. CASE Finish
    BY <2>1, <2>2, <1>t, <1>k, FinishFrame
  <2>3. ASSUME NEW S \in SUBSET Victims, pc' = "shrink", todo' = S, UNCHANGED <<job, walk>>
        PROVE  Tracking'
    <3>1. TodoInTable'
      BY <2>1, <2>3 DEF TodoInTable, Victims, Present
    <3>2. JobInTable' /\ BatchInTable' /\ RequestNames' /\ LeaseKeys' /\ VmTracked'
      BY <2>1, <2>3 DEF Tracking, JobInTable, BatchInTable, RequestNames, LeaseKeys,
                        VmTracked, Holders, Present, Working
    <3>3. AtRest'
      BY <2>3 DEF AtRest
    <3> QED
      BY <1>t, <3>1, <3>2, <3>3 DEF Tracking
  <2> QED
    BY <1>13, <2>2, <2>3 DEF AdaptMany
<1>14. CASE AdaptFew
  BY <1>14, <1>t, <1>k, WorkFrame DEF AdaptFew, table, host, Working
<1>15. CASE GrowDone
  BY <1>15, <1>t, <1>k, FinishFrame DEF GrowDone, table, host
<1>16. CASE Crash
  BY <1>16, <1>t, <1>k, HaltFrame DEF Crash, table, host
<1>17. CASE Restart
  <2>1. \A i \in Id : rows'[i] = SetupRow(i)
    BY <1>17 DEF Restart
  <2>10. \A n : /\ Written("PENDING", "destroy", n).status = "PENDING"
              /\ Written("PENDING", "destroy", n).name = n
    BY DEF Written
  <2>2. ASSUME NEW i \in Id, Present(i)'
        PROVE  Present(i) /\ rows'[i].name = rows[i].name
    BY <2>1, <2>2, <2>10, NoRowType DEF SetupRow, Present
  <2>3. ASSUME NEW i \in Id, Present(i), rows[i].name \in vm
        PROVE  Present(i)' /\ rows'[i].name = rows[i].name
    BY <2>1, <2>3, <2>10 DEF SetupRow, Present
  <2>4. VmTracked'
    BY <1>17, <2>3 DEF Tracking, VmTracked, Holders, Restart, host
  <2>5. RequestNames'
    BY <1>17, <2>2, RequestNamesStep DEF Restart, Tracking, Comes
  <2>6. job'.id = NoId /\ job'.caller = "main" /\ pc' = "adapt" /\ batch' = NoBatch /\ todo' = {}
    BY <1>17, JobUpdates, JobType DEF Restart, Tracking, AtRest
  <2>7. JobInTable'
    BY <2>6, JobInTableEnd DEF Working
  <2>8. BatchInTable' /\ AtRest' /\ TodoInTable'
    BY <2>6, NothingHeld DEF BatchInTable, AtRest, TodoInTable
  <2>9. LeaseKeys'
    <3>1. ASSUME NEW c \in Client, lease'[c].state # "none" \/ req[c].op = "renew"
          PROVE  lease'[c].id \in Id
      <4>1. /\ lease[c] \in Held
            /\ lease[c].state # "none" \/ req[c].op = "renew" => lease[c].id \in Id
        BY DEF Tracking, TypeOK, LeaseKeys
      <4>2. CASE lease'[c] = lease[c]
        BY <3>1, <4>1, <4>2
      <4>3. CASE lease[c].state = "live" /\ lease'[c] = [lease[c] EXCEPT !.state = "revoked"]
        BY <4>1, <4>3, HeldState
      <4> QED
        BY <1>17, <4>2, <4>3 DEF Restart
    <3> QED
      BY <1>17, <3>1 DEF Restart, LeaseKeys
  <2> QED
    BY <1>t, <2>4, <2>5, <2>7, <2>8, <2>9 DEF Tracking
<1>18. ASSUME NEW i \in Id, Start(i) PROVE Tracking'
  <2>1. rows' = rows /\ vm' = vm /\ req' = req /\ lease' = lease /\ todo' = todo
    BY <1>18 DEF Start, table, host
  <2>2. batch \in [Id -> Row] /\ batch' = [batch EXCEPT ![i] = NoRow]
    BY <1>18 DEF Start, Tracking, TypeOK
  <2>3. /\ Present(i) /\ rows[i].name = batch[i].name /\ batch[i].status # "absent"
        /\ pc = "loop" /\ job.id = NoId
    BY <1>18 DEF Start, Tracking, BatchInTable, AtRest
  <2>4. CASE UNCHANGED <<pc, job>>
    <3>1. JobInTable'
      BY <2>1, <2>3, <2>4 DEF Tracking, JobInTable, Present
    <3>2. AtRest'
      BY <2>1, <2>3, <2>4 DEF Tracking, AtRest
    <3> QED
      BY <1>t, <1>k, <2>1, <2>2, <2>4, <3>1, <3>2, DaemonFrame
  <2>5. CASE /\ batch[i].action # "none" /\ pc' = batch[i].action
             /\ job' = [id |-> i, row |-> batch[i], caller |-> batch[i].action, max |-> max]
    <3>1. batch[i].action \in Action
      BY <2>2, RowFields
    <3>2. job'.id = i /\ job'.row = batch[i] /\ job'.caller = batch[i].action
      BY <2>5
    <3>3. pc' \in {"clone", "attr", "destroy"} /\ job'.caller # "main"
      BY <2>5, <3>1, <3>2 DEF Action
    <3>4. JobInTable'
      BY <2>1, <2>3, <3>2, <3>3 DEF JobInTable, Present
    <3>5. BatchInTable'
      BY <2>1, <2>2, <3>2 DEF Tracking, BatchInTable, Present
    <3>6. AtRest' /\ TodoInTable' /\ RequestNames' /\ LeaseKeys' /\ VmTracked'
      BY <2>1, <2>3, <3>3 DEF Tracking, AtRest, TodoInTable, RequestNames, LeaseKeys,
                              VmTracked, Holders, Present
    <3> QED
      BY <1>t, <3>4, <3>5, <3>6 DEF Tracking
  <2> QED
    BY <1>18, <2>4, <2>5 DEF Start
<1>19. ASSUME NEW i \in Id, ShrinkRow(i) PROVE Tracking'
  <2>1. Present(i) /\ rows \in [Id -> Row]
    BY <1>19 DEF ShrinkRow, Tracking, TodoInTable, TypeOK
  <2>2. \A k \in Id : Stays(k) /\ Comes(k)
    BY <1>19, <2>1, StaysIfSaved, Words DEF ShrinkRow
  <2>3. CASE Finish
    BY <1>19, <1>t, <2>2, <2>3, FinishFrame DEF ShrinkRow, host
  <2>4. CASE todo' = todo \ {i} /\ UNCHANGED <<pc, job, walk>>
    <3>1. JobInTable'
      BY <2>2, <2>4, JobInTableStep DEF Tracking
    <3>2. AtRest'
      BY <1>19, <2>4 DEF ShrinkRow, AtRest
    <3> QED
      BY <1>19, <1>t, <2>2, <2>4, <3>1, <3>2, DaemonFrame DEF ShrinkRow, host
  <2> QED
    BY <1>19, <2>3, <2>4 DEF ShrinkRow
<1>20. ASSUME NEW n \in Slot, GrowRow(n) PROVE Tracking'
  <2>1. \A i \in Id : Stays(i) /\ Comes(i)
    BY <1>20, StaysIfInserted DEF GrowRow, Tracking, TypeOK
  <2> QED
    BY <1>20, <1>t, <2>1, WorkFrame DEF GrowRow, host, Working
<1>21. ASSUME NEW n \in Slot, GrowFails(n) PROVE Tracking'
  <2>1. \A i \in Id : Stays(i) /\ Comes(i)
    BY <1>21, StaysIfInserted DEF GrowFails, Tracking, TypeOK
  <2> QED
    BY <1>21, <1>t, <2>1, RaiseFrame DEF GrowFails, host
<1>22. ASSUME NEW n \in Slot, GrowDuplicate(n) PROVE Tracking'
  BY <1>22, <1>t, <1>k, RaiseFrame DEF GrowDuplicate, host, table
<1>23. ASSUME NEW c \in Client, NEW i \in Id, NEW o,
              Ask(c, o, i), rows' = rows, Present(i)
       PROVE  RequestNames'
  <2>1. req'[c] = [op |-> o, id |-> i, row |-> rows[i]]
    BY <1>23 DEF Ask, Tracking, TypeOK
  <2>2. \A d \in Client : d # c => req'[d] = req[d]
    BY <1>23 DEF Ask, Tracking, TypeOK
  <2>3. \A d \in Client : req[d].op # "none" /\ req[d].id = i => req[d].row.name = rows[i].name
    BY <1>23 DEF Tracking, RequestNames
  <2>4. req'[c].id = i /\ req'[c].row.name = rows[i].name
    BY <2>1
  <2> QED
    BY <1>23, <2>2, <2>3, <2>4 DEF Tracking, RequestNames, Present
<1>24. ASSUME UNCHANGED <<table, host, daemon>>, RequestNames', LeaseKeys'
       PROVE  Tracking'
  BY <1>24, <1>t DEF Tracking, JobInTable, BatchInTable, TodoInTable, AtRest, VmTracked,
                     Holders, Present, table, host, daemon, NoBatch, NoRow
<1>25. ASSUME NEW c \in Client, NEW i \in Id, AcquireRead(c, i) PROVE Tracking'
  <2>1. Present(i) /\ rows' = rows
    BY <1>25 DEF AcquireRead, Present, table
  <2>2. RequestNames'
    BY <1>23, <1>25, <2>1 DEF AcquireRead
  <2>3. LeaseKeys'
    BY <1>25, <1>l DEF AcquireRead, Ask, Tracking, TypeOK
  <2> QED
    BY <1>24, <1>25, <2>2, <2>3 DEF AcquireRead
<1>26. ASSUME NEW c \in Client, ReleaseRead(c) PROVE Tracking'
  <2>1. lease[c].id \in Id /\ Present(lease[c].id) /\ rows' = rows
    BY <1>26 DEF ReleaseRead, MayCall, Tracking, LeaseKeys, Present, table
  <2>2. RequestNames'
    BY <1>23, <1>26, <2>1 DEF ReleaseRead
  <2>3. req'[c].op = "release" /\ \A d \in Client : d # c => req'[d] = req[d]
    BY <1>26 DEF ReleaseRead, Ask, Tracking, TypeOK
  <2>4. LeaseKeys'
    BY <1>26, <2>3, HeldType DEF ReleaseRead, Tracking, LeaseKeys, TypeOK
  <2> QED
    BY <1>24, <1>26, <2>2, <2>4 DEF ReleaseRead
<1>27. ASSUME NEW c \in Client, RenewRead(c) PROVE Tracking'
  <2>1. lease[c].id \in Id /\ Present(lease[c].id) /\ rows' = rows
    BY <1>27 DEF RenewRead, MayCall, Tracking, LeaseKeys, Present, table
  <2>2. RequestNames'
    BY <1>23, <1>27, <2>1 DEF RenewRead
  <2>3. LeaseKeys'
    BY <1>27, <2>1 DEF RenewRead, Ask, Tracking, TypeOK, LeaseKeys
  <2> QED
    BY <1>24, <1>27, <2>2, <2>3 DEF RenewRead
<1>28. ASSUME NEW c \in Client, Drop(c) PROVE Tracking'
  <2>1. LeaseKeys'
    BY <1>28, HeldType, ReqType DEF Drop, Idle, Tracking, LeaseKeys, TypeOK
  <2>2. RequestNames'
    BY <1>28 DEF Drop, Tracking, RequestNames, Present, table
  <2> QED
    BY <1>24, <1>28, <2>1, <2>2 DEF Drop
<1>29. ASSUME NEW c \in Client, req' = [req EXCEPT ![c] = NoReq]
       PROVE  \A d \in Client : req'[d] = req[d] \/ req'[d].op = "none"
  BY <1>29, ReqType DEF Tracking, TypeOK
<1>30. ASSUME NEW c \in Client, AcquireSave(c) PROVE Tracking'
  <2>1. \A i \in Id : Stays(i) /\ Comes(i)
    BY <1>30, StaysIfRequestSaves, Words DEF AcquireSave, Tracking
  <2>2. req[c].id \in Id
    BY <1>30 DEF AcquireSave, Tracking, RequestNames
  <2>3. LeaseKeys'
    BY <1>30, <2>2 DEF AcquireSave, Tracking, LeaseKeys, TypeOK
  <2> QED
    BY <1>29, <1>30, <1>t, <2>1, <2>3, RequestFrame DEF AcquireSave
<1>31. ASSUME NEW c \in Client, ReleaseSave(c) PROVE Tracking'
  <2>1. \A i \in Id : Stays(i) /\ Comes(i)
    BY <1>31, StaysIfRequestSaves, Words DEF ReleaseSave, Tracking
  <2> QED
    BY <1>29, <1>31, <1>l, <1>t, <2>1, RequestFrame DEF ReleaseSave, host
<1>32. ASSUME NEW c \in Client, RenewSave(c) PROVE Tracking'
  <2>1. \A i \in Id : Stays(i) /\ Comes(i)
    BY <1>32, StaysIfRequestSaves, Words DEF RenewSave, Tracking
  <2>2. lease[c] \in Held /\ lease \in [Client -> Held]
    BY DEF Tracking, TypeOK
  <2>3. \A d \in Client : d # c => lease'[d] = lease[d]
    BY <1>32, <2>2 DEF RenewSave
  <2>4. lease'[c].id = lease[c].id
    BY <1>32, <2>2, HeldState DEF RenewSave
  <2>5. LeaseKeys'
    BY <1>29, <1>32, <2>3, <2>4 DEF RenewSave, Tracking, LeaseKeys
  <2> QED
    BY <1>29, <1>32, <1>t, <2>1, <2>5, RequestFrame DEF RenewSave, host
<1>33. ASSUME NEW i \in Id, Tick(i) PROVE Tracking'
  <2>1. \A k \in Id : rows'[k] = IF k = i THEN [rows[i] EXCEPT !.due = TRUE] ELSE rows[k]
    BY <1>33 DEF Tick, Tracking, TypeOK
  <2>2. /\ [rows[i] EXCEPT !.due = TRUE].status = rows[i].status
        /\ [rows[i] EXCEPT !.due = TRUE].name = rows[i].name
    BY DueType DEF Tracking, TypeOK
  <2>3. \A k \in Id : Stays(k) /\ Comes(k)
    BY <2>1, <2>2 DEF Stays, Comes, Present
  <2>4. LeaseKeys'
    <3>1. ASSUME NEW c \in Client, lease'[c].state # "none" \/ req[c].op = "renew"
          PROVE  lease'[c].id \in Id
      <4>1. /\ lease[c] \in Held
            /\ lease[c].state # "none" \/ req[c].op = "renew" => lease[c].id \in Id
        BY DEF Tracking, TypeOK, LeaseKeys
      <4>2. CASE lease'[c] = lease[c]
        BY <3>1, <4>1, <4>2
      <4>3. CASE lease[c].state = "live" /\ lease'[c] = [lease[c] EXCEPT !.state = "expired"]
        BY <4>1, <4>3, HeldState
      <4> QED
        BY <1>33, <4>2, <4>3 DEF Tick
    <3> QED
      BY <1>33, <3>1 DEF Tick, LeaseKeys
  <2> QED
    BY <1>33, <1>t, <2>3, <2>4, RequestFrame DEF Tick, host
<1>34. ASSUME NEW n \in Slot, Resize(n + 1) PROVE Tracking'
  BY <1>34, <1>t, <1>k, <1>l, RequestFrame DEF Resize, host
<1>35. CASE UNCHANGED vars
  BY <1>35, <1>t, <1>k, <1>l, RequestFrame DEF vars, daemon
<1> QED
  BY <1>1, <1>2, <1>3, <1>4, <1>5, <1>6, <1>7, <1>8, <1>9, <1>10, <1>11, <1>12, <1>13,
     <1>14, <1>15, <1>16, <1>17, <1>18, <1>19, <1>20, <1>21, <1>22, <1>25, <1>26, <1>27,
     <1>28, <1>30, <1>31, <1>32, <1>33, <1>34, <1>35
     DEF Next, Daemon, Request, Answer

LEMMA TrackingInit ==
  ASSUME Init PROVE Tracking
<1>1. TypeOK
  BY NoRowType, JobType, WalkType, ReqType, HeldType, SizeAssumption, FaultAssumption
     DEF Init, TypeOK, NoBatch
<1>2. JobInTable /\ BatchInTable /\ TodoInTable /\ AtRest
  BY NothingHeld DEF Init, JobInTable, BatchInTable, TodoInTable, AtRest, Working
<1>3. RequestNames /\ LeaseKeys /\ VmTracked
  BY ReqType, HeldType DEF Init, RequestNames, LeaseKeys, VmTracked
<1> QED
  BY <1>1, <1>2, <1>3 DEF Tracking

\* The inductive invariant, whatever races and faults the constants allow: no
\* row the daemon works on or has copied leaves the table behind its back, and
\* none changes its name.
THEOREM TrackingInvariant == Spec => []Tracking
<1>1. Init => Tracking
  BY TrackingInit
<1>2. Tracking /\ [Next]_vars => Tracking'
  BY TrackingStep
<1> QED
  BY <1>1, <1>2, PTL DEF Spec

\* The rows, the daemon's objects, the requests and the leases keep their
\* types; no name is ever outside 0..MaxSize-1.
THEOREM TypeCorrect == Spec => []TypeOK
<1>1. Tracking => TypeOK
  BY DEF Tracking
<1> QED
  BY <1>1, TrackingInvariant, PTL

\* No machine is lost: for any number of clients, keys and names, with every
\* race between requests and the daemon, with shrinking pools, crashes and
\* failing hypervisor calls, a machine that runs always has a row, which the
\* daemon will come across.
THEOREM Tracked == Spec => []VmTracked
<1>1. Tracking => VmTracked
  BY DEF Tracking
<1> QED
  BY <1>1, TrackingInvariant, PTL
================================================================================
