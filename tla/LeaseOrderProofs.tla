----------------------------- MODULE LeaseOrderProofs -----------------------------
(***************************************************************************)
(* Proofs about Lease where the four races are ruled out (Disciplined):    *)
(* Order is invariant, so leases are exclusive and backed by a machine.    *)
(*                                                                         *)
(* What keeps the processes apart is time: the daemon works on rows whose  *)
(* action_time has passed, requests on rows whose action_time has not.     *)
(***************************************************************************)
EXTENDS LeaseProofs, FunctionTheorems

-----------------------------------------------------------------------------
(* What Order says of the row in the daemon's hand, of a leased row and of *)
(* the row of a request.                                                   *)

\* The row of a running lease.
LEMMA LeaseRow ==
  ASSUME Tracking, Order, NEW c \in Client, lease[c].state = "live"
  PROVE  /\ lease[c].id \in Id /\ Present(lease[c].id)
         /\ rows[lease[c].id].status = "RESERVED"
         /\ rows[lease[c].id].action = "destroy"
         /\ rows[lease[c].id].name = lease[c].name
         /\ rows[lease[c].id].due = FALSE
         /\ rows[lease[c].id] = Written("RESERVED", "destroy", lease[c].name)
         /\ lease[c].name \in vm
<1>1. lease[c].id \in Id
  BY DEF Tracking, LeaseKeys
<1>2. rows[lease[c].id] = Written("RESERVED", "destroy", lease[c].name)
  BY DEF Order, LeaseBacked
<1>3. lease[c].name \in vm
  BY DEF Order, LiveLeaseHoldsVm
<1> QED
  BY <1>1, <1>2, <1>3 DEF Written, Present

\* Rows of one name are one row.
LEMMA OneRow ==
  ASSUME Order, NEW i \in Id, NEW j \in Id, Present(i), Present(j),
         rows[i].name = rows[j].name
  PROVE  i = j
  BY DEF Order, UniqueNames

\* The resource_max adapt uses is a positive number.
LEMMA JobMax ==
  ASSUME Tracking PROVE job.max \in Nat /\ job.max >= 1
<1>1. job.max \in 1..MaxSize
  BY JobFields DEF Tracking, TypeOK
<1> QED
  BY <1>1, SizeAssumption

\* The row the daemon works on is nobody else's.
LEMMA WorkRow ==
  ASSUME Tracking, Order, pc \in Working \cup {"retry"}
  PROVE  /\ job.id \in Id /\ rows[job.id] = job.row /\ job.row.due /\ Present(job.id)
         /\ job.row \in Row /\ job \in Job /\ job.row.name \in Slot
         /\ job.row.status # "READY" /\ RowKind(job.row)
         /\ \A c \in Client : req[c].op # "none" => req[c].id # job.id
         /\ \A c \in Client : lease[c].state = "live" =>
              lease[c].id # job.id /\ lease[c].name # job.row.name
<1>1. job.id \in Id /\ rows[job.id] = job.row /\ job.row.due
  BY DEF Order, JobIsCurrent
<1>2. Present(job.id)
  BY <1>1 DEF Tracking, JobInTable
<1>3. job \in Job /\ job.row \in Row
  BY JobFields DEF Tracking, TypeOK
<1>4. job.row.name \in Slot
  BY <1>3, RowFields
<1>5. RowKind(job.row) /\ job.row.status # "READY"
  BY <1>1 DEF Order, RowKinds, RowKind
<1>6. ASSUME NEW c \in Client, req[c].op # "none" PROVE req[c].id # job.id
  BY <1>1, <1>6 DEF Order, RequestIsCurrent
<1>7. ASSUME NEW c \in Client, lease[c].state = "live"
      PROVE  lease[c].id # job.id /\ lease[c].name # job.row.name
  <2>1. lease[c].id # job.id
    BY <1>1, <1>7, LeaseRow
  <2>2. /\ lease[c].id \in Id /\ Present(lease[c].id)
        /\ rows[lease[c].id].name = lease[c].name
    BY <1>7, LeaseRow
  <2>3. lease[c].name = job.row.name => lease[c].id = job.id
    BY <1>1, <1>2, <2>2, OneRow
  <2> QED
    BY <2>1, <2>3
<1> QED
  BY <1>1, <1>2, <1>3, <1>4, <1>5, <1>6, <1>7

\* The row of a request is no other request's, and has not come due.
LEMMA RequestRow ==
  ASSUME Tracking, Order, NEW c \in Client, req[c].op # "none"
  PROVE  /\ req[c].id \in Id /\ rows[req[c].id] = req[c].row /\ ~req[c].row.due
         /\ Present(req[c].id) /\ req[c].row.name \in Slot /\ req[c].op \in {"acquire", "release", "renew"}
         /\ req[c].op = "acquire" => /\ req[c].row.status = "READY" /\ lease[c].state = "none"
                                     /\ req[c].row.name \in vm \ dirty
         /\ req[c].op # "acquire" => req[c].row.status = "RESERVED"
         /\ \A d \in Client : d # c /\ req[d].op # "none" => req[d].id # req[c].id
<1>1. req[c].id \in Id
  BY DEF Tracking, RequestNames
<1>2. rows[req[c].id] = req[c].row /\ ~req[c].row.due
  BY DEF Order, RequestIsCurrent
<1>3. /\ req[c].op = "acquire" => req[c].row.status = "READY" /\ lease[c].state = "none"
      /\ req[c].op # "acquire" => req[c].row.status = "RESERVED"
  BY DEF Order, RequestIsCurrent
<1>4. req[c].row.name \in Slot /\ req[c].op \in {"none", "acquire", "release", "renew"}
  BY ReqFields, RowFields DEF Tracking, TypeOK
<1>5. \A d \in Client : d # c /\ req[d].op # "none" => req[d].id # req[c].id
  BY DEF Order, RequestIsCurrent
<1>6. req[c].op = "acquire" => req[c].row.name \in vm \ dirty
  BY <1>1, <1>2, <1>3 DEF Order, ReadyIsPristine
<1>7. Present(req[c].id)
  BY <1>2, <1>3 DEF Present
<1> QED
  BY <1>1, <1>2, <1>3, <1>4, <1>5, <1>6, <1>7

-----------------------------------------------------------------------------
(* Steps by what they change.                                              *)

\* A step of the daemon or the operator that leaves rows, machines, requests
\* and leases alone.
LEMMA QuietStep ==
  ASSUME Order, rows' = rows, UNCHANGED host, req' = req, lease' = lease,
         JobIsCurrent', BatchIsCurrent', NamesInRange',
         pc' = "cloned" => job'.row.name \in vm \ dirty,
         pc' \in {"clone", "attr", "destroy"} => job'.row.action = pc',
         pc' = "destroyed" => job'.row.action = "destroy"
  PROVE  Order'
<1>1. RowKinds' /\ UniqueNames' /\ LeaseBacked' /\ LiveLeaseHoldsVm'
  BY DEF Order, RowKinds, RowKind, UniqueNames, LeaseBacked, LiveLeaseHoldsVm, Present, host
<1>2. ExclusiveLease' /\ ReadyIsPristine' /\ RequestIsCurrent'
  BY DEF Order, ExclusiveLease, ReadyIsPristine, RequestIsCurrent, host
<1>3. AttrIsPristine'
  BY DEF Order, AttrIsPristine, host
<1> QED
  BY <1>1, <1>2, <1>3 DEF Order

\* Where the batch does not grow nothing in it changes.
LEMMA BatchStays ==
  ASSUME Order, \A i \in Id : batch'[i] = batch[i] \/ batch'[i] = NoRow,
         \A i \in Id : batch[i] # NoRow => rows'[i] = rows[i]
  PROVE  BatchIsCurrent'
  BY DEF Order, BatchIsCurrent

\* No name leaves the pool's range when the daemon goes on with resource_max as
\* it knows it, or ends its entry.
LEMMA RangeStays ==
  ASSUME Tracking, Order, max' = max, pc' # "shrink",
         \/ pc' \in {"loop", "down"} /\ job'.max \in {1, job.max}
         \/ pc' \notin {"loop", "down"} /\ pc \notin {"loop", "down"} /\ job'.max = job.max,
         \A i \in Id : Present(i)' => Present(i) /\ rows'[i].name = rows[i].name
  PROVE  NamesInRange'
<1>1. max \in 1..MaxSize /\ job.max \in 1..MaxSize /\ job.max <= max /\ MaxSize \in Nat
  BY JobFields, SizeAssumption DEF Tracking, TypeOK, Order, NamesInRange
<1>2. job'.max <= max'
  BY <1>1
<1>3. ASSUME NEW i \in Id, Present(i)'
      PROVE  rows'[i].name < (IF pc' \in {"loop", "down"} THEN max' ELSE job'.max)
  <2>1. Present(i) /\ rows'[i].name = rows[i].name /\ rows[i].name \in Nat
    BY <1>3, RowFields, SlotFacts DEF Tracking, TypeOK
  <2>2. rows[i].name < (IF pc \in {"loop", "down"} THEN max ELSE job.max)
    BY <2>1 DEF Order, NamesInRange
  <2>3. CASE pc \in {"loop", "down"}
    BY <1>1, <2>1, <2>2, <2>3
  <2>4. CASE pc \notin {"loop", "down"}
    BY <1>1, <2>1, <2>2, <2>4
  <2> QED
    BY <2>3, <2>4
<1> QED
  BY <1>2, <1>3 DEF NamesInRange

\* The daemon saves the row in its hand: the row was due, so no lease runs on it
\* and no request is about it.
LEMMA DaemonSave ==
  ASSUME Tracking, Order, pc \in Working \cup {"retry"},
         NEW s \in Status, NEW a \in Action, s # "absent", <<s, a>> \in Kind,
         s = "READY" \/ a = "attr" => job.row.name \in vm \ dirty,
         rows' = Saved(job.id, s, a, job.row.name),
         max' = max, vm' = vm, dirty' = dirty, req' = req, lease' = lease, batch' = batch,
         \/ pc' = "loop" /\ job'.max \in {1, job.max}
         \/ pc' = "adapt" /\ job'.max = job.max
  PROVE  Order'
<1>1. /\ job.id \in Id /\ rows[job.id] = job.row /\ Present(job.id) /\ job.row.name \in Slot
      /\ \A c \in Client : req[c].op # "none" => req[c].id # job.id
      /\ \A c \in Client : lease[c].state = "live" => lease[c].id # job.id
  BY WorkRow
<1>2. rows \in [Id -> Row]
  BY DEF Tracking, TypeOK
<1>3. \A i \in Id : rows'[i] = IF i = job.id THEN Written(s, a, job.row.name) ELSE rows[i]
  BY <1>1, <1>2 DEF Saved
<1>4. /\ Written(s, a, job.row.name).status = s /\ Written(s, a, job.row.name).action = a
      /\ Written(s, a, job.row.name).name = job.row.name
      /\ Written(s, a, job.row.name).due = FALSE
  BY DEF Written
<1>5. \A i \in Id : (Present(i)' <=> Present(i)) /\ rows'[i].name = rows[i].name
  BY <1>1, <1>3, <1>4 DEF Present
<1>6. RowKinds'
  BY <1>3, <1>4 DEF Order, RowKinds, RowKind
<1>7. JobIsCurrent'
  BY DEF JobIsCurrent, Working
<1>8. BatchIsCurrent'
  BY <1>3, BatchStays DEF Tracking, BatchInTable
<1>9. RequestIsCurrent'
  <2>1. \A c \in Client : req[c].op # "none" => rows'[req[c].id] = rows[req[c].id]
    BY <1>1, <1>3, RequestRow
  <2> QED
    BY <2>1 DEF Order, RequestIsCurrent
<1>10. AttrIsPristine'
  BY <1>3, <1>4 DEF Order, AttrIsPristine
<1>11. NamesInRange'
  BY <1>5, RangeStays DEF Working, Order, NamesInRange
<1>12. UniqueNames'
  BY <1>5 DEF Order, UniqueNames
<1>13. LeaseBacked'
  <2>1. \A c \in Client : lease[c].state = "live" => rows'[lease[c].id] = rows[lease[c].id]
    BY <1>1, <1>3, LeaseRow
  <2> QED
    BY <2>1 DEF Order, LeaseBacked
<1>14. LiveLeaseHoldsVm' /\ ExclusiveLease'
  BY DEF Order, LiveLeaseHoldsVm, ExclusiveLease
<1>15. ReadyIsPristine'
  BY <1>3, <1>4 DEF Order, ReadyIsPristine
<1> QED
  BY <1>6, <1>7, <1>8, <1>9, <1>10, <1>11, <1>12, <1>13, <1>14, <1>15 DEF Order

\* The daemon deletes the row in its hand.
LEMMA DestroyRowStep ==
  ASSUME Tracking, Order, DestroyRow
  PROVE  Order'
<1>1. /\ job.id \in Id /\ job \in Job
      /\ \A c \in Client : req[c].op # "none" => req[c].id # job.id
      /\ \A c \in Client : lease[c].state = "live" => lease[c].id # job.id
  BY WorkRow DEF DestroyRow, Working
<1>2. \A i \in Id : rows'[i] = IF i = job.id THEN NoRow ELSE rows[i]
  BY <1>1 DEF DestroyRow, Tracking, TypeOK
<1>3. /\ max' = max /\ vm' = vm /\ dirty' = dirty /\ req' = req /\ lease' = lease /\ batch' = batch
      /\ pc' = "adapt" /\ pc = "destroy" /\ job'.max = job.max
  BY <1>1 DEF DestroyRow, host, Job
<1>4. \A i \in Id : Present(i)' => Present(i) /\ rows'[i] = rows[i] /\ i # job.id
  BY <1>2, NoRowType DEF Present
<1>5. RowKinds'
  BY <1>2, NoRowType DEF Order, RowKinds, RowKind, Kind
<1>6. JobIsCurrent'
  BY <1>3 DEF JobIsCurrent, Working
<1>7. BatchIsCurrent'
  BY <1>2, <1>3, BatchStays DEF Tracking, BatchInTable
<1>8. RequestIsCurrent'
  <2>1. \A c \in Client : req[c].op # "none" => rows'[req[c].id] = rows[req[c].id]
    BY <1>1, <1>2, RequestRow
  <2> QED
    BY <1>3, <2>1 DEF Order, RequestIsCurrent
<1>9. AttrIsPristine' /\ ReadyIsPristine'
  BY <1>2, <1>3, NoRowType DEF Order, AttrIsPristine, ReadyIsPristine
<1>10. NamesInRange'
  BY <1>3, <1>4, RangeStays
<1>11. UniqueNames'
  BY <1>4 DEF Order, UniqueNames
<1>12. LeaseBacked'
  <2>1. \A c \in Client : lease[c].state = "live" => rows'[lease[c].id] = rows[lease[c].id]
    BY <1>1, <1>2, LeaseRow
  <2> QED
    BY <1>3, <2>1 DEF Order, LeaseBacked
<1>13. LiveLeaseHoldsVm' /\ ExclusiveLease'
  BY <1>3 DEF Order, LiveLeaseHoldsVm, ExclusiveLease
<1> QED
  BY <1>5, <1>6, <1>7, <1>8, <1>9, <1>10, <1>11, <1>12, <1>13 DEF Order

\* The hypervisor destroys or makes the machine of the row in the daemon's
\* hand: no other row has its name, and no lease.
LEMMA HostStep ==
  ASSUME Tracking, Order, pc \in Working, rows' = rows, max' = max, req' = req,
         lease' = lease, batch' = batch, job' = job,
         vm' \subseteq vm \cup {job.row.name}, vm \subseteq vm' \cup {job.row.name},
         dirty' \subseteq dirty, job.row.action # "attr",
         \/ pc' \in {"destroyed", "retry"} /\ (pc' = "destroyed" => pc = "destroy")
         \/ pc' = "cloned" /\ job.row.name \in vm' \ dirty'
  PROVE  Order'
<1>1. /\ job.id \in Id /\ rows[job.id] = job.row /\ Present(job.id)
      /\ job.row.status # "READY" /\ job.row.due
      /\ \A c \in Client : lease[c].state = "live" => lease[c].name # job.row.name
  BY WorkRow
<1>2. RowKinds' /\ UniqueNames' /\ LeaseBacked' /\ ExclusiveLease' /\ RequestIsCurrent'
  BY DEF Order, RowKinds, RowKind, UniqueNames, LeaseBacked, ExclusiveLease,
         RequestIsCurrent, Present
<1>3. JobIsCurrent' /\ BatchIsCurrent'
  BY <1>1 DEF Order, JobIsCurrent, BatchIsCurrent
<1>4. NamesInRange'
  BY RangeStays DEF Working, Present
<1>5. LiveLeaseHoldsVm'
  BY <1>1 DEF Order, LiveLeaseHoldsVm
<1>6. ASSUME NEW i \in Id, rows[i].action = "attr" \/ rows[i].status = "READY",
             rows[i].name \in vm \ dirty
      PROVE  rows[i].name \in vm' \ dirty'
  <2>1. Present(i)
    BY <1>6 DEF Order, RowKinds, RowKind, Kind, Present
  <2>2. i # job.id
    BY <1>1, <1>6
  <2>3. rows[i].name # job.row.name
    BY <1>1, <2>1, <2>2, OneRow
  <2> QED
    BY <1>6, <2>3
<1>7. ReadyIsPristine'
  BY <1>6 DEF Order, ReadyIsPristine
<1>8. AttrIsPristine'
  BY <1>6 DEF Order, AttrIsPristine
<1> QED
  BY <1>2, <1>3, <1>4, <1>5, <1>7, <1>8 DEF Order

\* adapt inserts a row for a name that has none.
LEMMA GrowRowStep ==
  ASSUME Tracking, Order, NEW n \in Slot, GrowRow(n)
  PROVE  Order'
<1>1. PICK j \in Fresh :
        rows' = Saved(j, "PENDING", IF n \in vm THEN "destroy" ELSE "clone", n)
  BY DEF GrowRow
<1>2. /\ j \in Id /\ ~Present(j) /\ batch[j] = NoRow
      /\ \A c \in Client : req[c].id # j /\ lease[c].id # j
  BY DEF Fresh
<1>3. /\ max' = max /\ vm' = vm /\ dirty' = dirty /\ req' = req /\ lease' = lease /\ batch' = batch
      /\ pc' = "grow" /\ pc = "grow" /\ job' = job /\ n <= job.max - 1 /\ Holders(n) = {}
  BY DEF GrowRow, host
<1>4. PICK a \in {"destroy", "clone"} : rows' = Saved(j, "PENDING", a, n)
  BY <1>1
<1>5. /\ Written("PENDING", a, n).status = "PENDING" /\ Written("PENDING", a, n).action = a
      /\ Written("PENDING", a, n).name = n /\ Written("PENDING", a, n).due = FALSE
  BY DEF Written
<1>6. \A i \in Id : rows'[i] = IF i = j THEN Written("PENDING", a, n) ELSE rows[i]
  BY <1>2, <1>4 DEF Saved, Tracking, TypeOK
<1>7. RowKinds'
  BY <1>5, <1>6 DEF Order, RowKinds, RowKind, Kind
<1>8. JobIsCurrent'
  BY <1>3 DEF JobIsCurrent, Working
<1>9. BatchIsCurrent'
  BY <1>2, <1>3, <1>6, BatchStays
<1>10. RequestIsCurrent'
  <2>1. \A c \in Client : req[c].op # "none" => rows'[req[c].id] = rows[req[c].id]
    BY <1>2, <1>6, RequestRow
  <2> QED
    BY <1>3, <2>1 DEF Order, RequestIsCurrent
<1>11. AttrIsPristine' /\ ReadyIsPristine'
  BY <1>3, <1>5, <1>6 DEF Order, AttrIsPristine, ReadyIsPristine
<1>12. NamesInRange'
  <2>1. job.max \in Nat /\ n \in Nat
    BY JobMax, SlotFacts
  <2>2. n < job.max
    BY <1>3, <2>1
  <2>3. \A i \in Id : Present(i)' => rows'[i].name < job.max
    BY <1>3, <1>5, <1>6, <2>2 DEF Order, NamesInRange, Present
  <2> QED
    BY <1>3, <2>3 DEF Order, NamesInRange
<1>13. UniqueNames'
  <2>1. \A i \in Id : Present(i) => rows[i].name # n
    BY <1>3 DEF Holders
  <2> QED
    BY <1>5, <1>6, <2>1 DEF Order, UniqueNames, Present
<1>14. LeaseBacked'
  <2>1. \A c \in Client : lease[c].state = "live" => rows'[lease[c].id] = rows[lease[c].id]
    BY <1>2, <1>6, LeaseRow
  <2> QED
    BY <1>3, <2>1 DEF Order, LeaseBacked
<1>15. LiveLeaseHoldsVm' /\ ExclusiveLease'
  BY <1>3 DEF Order, LiveLeaseHoldsVm, ExclusiveLease
<1> QED
  BY <1>7, <1>8, <1>9, <1>10, <1>11, <1>12, <1>13, <1>14, <1>15 DEF Order

\* Names below resource_max and different from each other: there are no more
\* rows than resource_max, so adapt never has one too many.
LEMMA NotTooMany ==
  ASSUME Tracking, Order, pc = "adapt"
  PROVE  Cardinality(Current) <= job.max
<1> DEFINE f == [i \in Current |-> rows[i].name]
<1>1. job.max \in Nat /\ job.max >= 1
  BY JobMax
<1>2. \A i \in Current : rows[i].name \in 0..(job.max - 1)
  BY <1>1, RowFields, SlotFacts DEF Current, Tracking, TypeOK, Order, NamesInRange
<1>3. f \in [Current -> 0..(job.max - 1)]
  BY <1>2
<1>4. \A i, j \in Current : f[i] = f[j] => i = j
  BY OneRow DEF Current
<1>5. f \in Injection(Current, 0..(job.max - 1))
  BY <1>3, <1>4, Fun_IsInj
<1>6. IsFiniteSet(0..(job.max - 1)) /\ Cardinality(0..(job.max - 1)) = job.max
  <2>1. 0 \in Int /\ job.max - 1 \in Int /\ ~(0 > job.max - 1)
    BY <1>1
  <2>2. /\ IsFiniteSet(0..(job.max - 1))
        /\ Cardinality(0..(job.max - 1)) = (job.max - 1) - 0 + 1
    BY <2>1, FS_Interval
  <2> QED
    BY <1>1, <2>2
<1>7. Cardinality(Current) <= Cardinality(0..(job.max - 1))
  BY <1>5, <1>6, FS_Injection
<1> QED
  BY <1>6, <1>7

\* So it never marks a row.
LEMMA NoShrink ==
  ASSUME Tracking, Order, AdaptMany
  PROVE  FALSE
<1>1. Cardinality(Current) <= job.max /\ Cardinality(Current) \in Nat /\ job.max \in Nat
  BY NotTooMany, CurrentFinite, JobMax DEF AdaptMany
<1> QED
  BY <1>1 DEF AdaptMany

\* And get_or_create never meets two rows of one name.
LEMMA NoDuplicate ==
  ASSUME Tracking, Order, NEW n \in Slot, GrowDuplicate(n)
  PROVE  FALSE
<1>1. \A i, j \in Holders(n) : i = j
  BY OneRow DEF Holders
<1>2. CASE Holders(n) = {}
  BY <1>2, FS_EmptySet DEF GrowDuplicate
<1>3. ASSUME NEW i \in Holders(n) PROVE FALSE
  <2>1. Holders(n) = {i}
    BY <1>1
  <2>2. Cardinality(Holders(n)) = 1
    BY <2>1, FS_Singleton
  <2> QED
    BY <2>2 DEF GrowDuplicate
<1> QED
  BY <1>2, <1>3

\* setup, with no request in flight.
LEMMA RestartStep ==
  ASSUME Tracking, Order, ~Slow, Restart
  PROVE  Order'
<1>1. \A i \in Id : rows'[i] = SetupRow(i)
  BY DEF Restart
<1>2. /\ max' = max /\ vm' = vm /\ dirty' = dirty /\ req' = req /\ batch' = batch
      /\ pc' = "adapt" /\ pc = "down" /\ \A c \in Client : req[c].op = "none"
  BY ReqType DEF Restart, host
<1>3. job'.max = max
  BY JobType DEF Restart, Job, NoJob
<1>4. \A n : /\ Written("PENDING", "destroy", n).status = "PENDING"
             /\ Written("PENDING", "destroy", n).action = "destroy"
             /\ Written("PENDING", "destroy", n).name = n
  BY DEF Written
<1>5. ASSUME NEW i \in Id
      PROVE  \/ rows'[i] = rows[i]
             \/ rows'[i] = NoRow
             \/ rows'[i] = Written("PENDING", "destroy", rows[i].name) /\ Present(i)
  BY <1>1 DEF SetupRow
<1>6. ASSUME NEW i \in Id, Present(i)' PROVE Present(i) /\ rows'[i].name = rows[i].name
  BY <1>4, <1>5, <1>6, NoRowType DEF Present
<1>7. RowKinds'
  BY <1>4, <1>5, NoRowType DEF Order, RowKinds, RowKind, Kind
<1>8. JobIsCurrent' /\ RequestIsCurrent'
  BY <1>2 DEF JobIsCurrent, Working, RequestIsCurrent
<1>9. BatchIsCurrent'
  BY <1>2, NothingHeld DEF BatchIsCurrent, Tracking, AtRest
<1>10. AttrIsPristine' /\ ReadyIsPristine'
  BY <1>2, <1>4, <1>5, NoRowType DEF Order, AttrIsPristine, ReadyIsPristine
<1>11. NamesInRange'
  <2>1. max \in Nat
    BY DEF Tracking, TypeOK
  <2>2. \A i \in Id : Present(i)' => rows'[i].name < max
    BY <1>2, <1>6 DEF Order, NamesInRange
  <2> QED
    BY <1>2, <1>3, <2>1, <2>2 DEF NamesInRange
<1>12. UniqueNames'
  BY <1>6 DEF Order, UniqueNames
<1>13. ASSUME NEW c \in Client, lease'[c].state = "live"
       PROVE  lease'[c] = lease[c] /\ rows'[lease[c].id] = rows[lease[c].id]
  <2>1. lease[c] \in Held
    BY DEF Tracking, TypeOK
  <2> QED
    BY <1>13, <2>1, HeldState DEF Restart
<1>14. LeaseBacked' /\ LiveLeaseHoldsVm' /\ ExclusiveLease'
  BY <1>2, <1>13 DEF Order, LeaseBacked, LiveLeaseHoldsVm, ExclusiveLease
<1> QED
  BY <1>7, <1>8, <1>9, <1>10, <1>11, <1>12, <1>14 DEF Order

-----------------------------------------------------------------------------
(* Requests.                                                               *)

\* Two running leases on one row are one lease.
LEMMA OneLease ==
  ASSUME Tracking, Order, NEW c \in Client, NEW d \in Client,
         lease[c].state = "live", lease[d].state = "live", lease[c].id = lease[d].id
  PROVE  c = d
<1>1. lease[c].name = lease[d].name
  BY LeaseRow
<1> QED
  BY <1>1 DEF Order, ExclusiveLease

\* The row of a running lease is the row of no request but its client's.
LEMMA LeaseFree ==
  ASSUME Tracking, Order, NEW c \in Client, lease[c].state = "live",
         NEW d \in Client, d # c, req[d].op # "none"
  PROVE  req[d].id # lease[c].id
<1>1. rows[lease[c].id].status = "RESERVED"
  BY LeaseRow
<1>2. CASE req[d].op = "acquire"
  BY <1>1, <1>2, RequestRow
<1>3. CASE req[d].op = "release"
  BY <1>3 DEF Order, RequestIsCurrent
<1>4. CASE req[d].op = "renew"
  <2>1. lease[d].state = "live" /\ lease[d].id = req[d].id
    BY <1>4 DEF Order, RequestIsCurrent
  <2> QED
    BY <2>1, OneLease
<1> QED
  BY <1>2, <1>3, <1>4, RequestRow

\* A step that changes requests, and leases only by dropping them.
LEMMA CallStep ==
  ASSUME Order, rows' = rows, max' = max, UNCHANGED host, UNCHANGED daemon,
         RequestIsCurrent',
         \A c \in Client : lease'[c] = lease[c] \/ lease'[c].state = "none"
  PROVE  Order'
<1>1. RowKinds' /\ UniqueNames' /\ JobIsCurrent' /\ BatchIsCurrent'
  BY DEF Order, RowKinds, RowKind, UniqueNames, JobIsCurrent, BatchIsCurrent, Present, daemon
<1>2. AttrIsPristine' /\ ReadyIsPristine' /\ NamesInRange'
  BY DEF Order, AttrIsPristine, ReadyIsPristine, NamesInRange, Present, daemon, host
<1>3. ASSUME NEW c \in Client, lease'[c].state = "live"
      PROVE  lease'[c] = lease[c] /\ lease[c].state = "live"
  BY <1>3
<1>4. LeaseBacked' /\ LiveLeaseHoldsVm' /\ ExclusiveLease'
  BY <1>3 DEF Order, LeaseBacked, LiveLeaseHoldsVm, ExclusiveLease, host
<1> QED
  BY <1>1, <1>2, <1>4 DEF Order

LEMMA AskFields ==
  ASSUME Tracking, NEW c \in Client, NEW op, NEW i, Ask(c, op, i)
  PROVE  /\ req'[c].op = op /\ req'[c].id = i /\ req'[c].row = rows[i]
         /\ \A d \in Client : d # c => req'[d] = req[d]
  BY DEF Ask, Tracking, TypeOK

LEMMA AcquireReadStep ==
  ASSUME Tracking, Order, ~Race, NEW c \in Client, NEW i \in Id, AcquireRead(c, i)
  PROVE  Order'
<1>1. /\ rows' = rows /\ lease' = lease /\ UNCHANGED <<max, host, daemon>>
      /\ rows[i].status = "READY" /\ lease[c].state = "none" /\ Ask(c, "acquire", i)
      /\ \A d \in Client : req[d].op # "acquire"
  BY DEF AcquireRead, table
<1>2. ~rows[i].due
  BY <1>1 DEF Order, RowKinds, RowKind
<1>3. \A d \in Client : req[d].op # "none" => req[d].id # i
  BY <1>1, RequestRow
<1>4. RequestIsCurrent'
  BY <1>1, <1>2, <1>3, AskFields DEF Order, RequestIsCurrent
<1> QED
  BY <1>1, <1>4, CallStep

LEMMA ReleaseReadStep ==
  ASSUME Tracking, Order, ~Late, NEW c \in Client, ReleaseRead(c)
  PROVE  Order'
<1> DEFINE i == lease[c].id
<1>1. /\ rows' = rows /\ UNCHANGED <<max, host, daemon>> /\ lease[c].state = "live"
      /\ Ask(c, "release", i) /\ req[c].op = "none" /\ lease \in [Client -> Held]
      /\ lease' = [lease EXCEPT ![c] = NoLease]
  BY ReqType DEF ReleaseRead, table, MayCall, Idle, Tracking, TypeOK
<1>2. rows[i].status = "RESERVED" /\ ~rows[i].due
  BY <1>1, LeaseRow
<1>3. \A d \in Client : req[d].op # "none" => req[d].id # i
  BY <1>1, LeaseFree
<1>4. lease'[c].state = "none" /\ \A d \in Client : d # c => lease'[d] = lease[d]
  BY <1>1, HeldType
<1>5. \A d \in Client : lease'[d].state = "live" => lease'[d].id # i
  BY <1>1, <1>4, OneLease
<1>6. ASSUME NEW d \in Client, d # c, req[d].op # "none"
      PROVE  /\ req'[d] = req[d]
             /\ req[d].op = "acquire" => lease'[d].state = "none"
             /\ req[d].op = "renew" => lease'[d].state = "live" /\ lease'[d].id = req[d].id
             /\ req[d].op = "release" => \A e \in Client : lease'[e].state = "live"
                                                           => lease'[e].id # req[d].id
  BY <1>1, <1>4, <1>6, AskFields DEF Order, RequestIsCurrent
<1>7. /\ req'[c].op = "release" /\ req'[c].id = i /\ req'[c].row = rows[i]
      /\ \A d \in Client : d # c => req'[d] = req[d]
  BY <1>1, AskFields
<1>8. RequestIsCurrent'
  <2> SUFFICES ASSUME NEW d \in Client, req'[d].op # "none"
      PROVE  /\ rows[req'[d].id] = req'[d].row /\ ~req'[d].row.due
             /\ req'[d].op = "acquire" => /\ req'[d].row.status = "READY"
                                          /\ lease'[d].state = "none"
             /\ req'[d].op # "acquire" => req'[d].row.status = "RESERVED"
             /\ req'[d].op = "renew" => lease'[d].state = "live" /\ lease'[d].id = req'[d].id
             /\ req'[d].op = "release" => \A e \in Client : lease'[e].state = "live"
                                                            => lease'[e].id # req'[d].id
             /\ \A e \in Client : req'[e].op # "none" /\ req'[e].id = req'[d].id => d = e
    BY <1>1 DEF RequestIsCurrent
  <2>1. CASE d = c
    BY <1>2, <1>3, <1>5, <1>7, <2>1
  <2>2. CASE d # c
    <3>1. req[d].op # "none" /\ req'[d] = req[d]
      BY <1>7, <2>2
    <3>2. /\ rows[req[d].id] = req[d].row /\ ~req[d].row.due
          /\ req[d].op = "acquire" => req[d].row.status = "READY"
          /\ req[d].op # "acquire" => req[d].row.status = "RESERVED"
          /\ \A e \in Client : req[e].op # "none" /\ req[e].id = req[d].id => d = e
      BY <3>1 DEF Order, RequestIsCurrent
    <3>3. \A e \in Client : req'[e].op # "none" /\ req'[e].id = req[d].id => d = e
      BY <1>3, <1>7, <3>1, <3>2
    <3> QED
      BY <1>6, <2>2, <3>1, <3>2, <3>3
  <2> QED
    BY <2>1, <2>2
<1> QED
  BY <1>1, <1>4, <1>8, CallStep

LEMMA RenewReadStep ==
  ASSUME Tracking, Order, ~Late, NEW c \in Client, RenewRead(c)
  PROVE  Order'
<1> DEFINE i == lease[c].id
<1>1. /\ rows' = rows /\ UNCHANGED <<max, host, daemon>> /\ lease[c].state = "live"
      /\ Ask(c, "renew", i) /\ req[c].op = "none" /\ lease' = lease
  BY ReqType DEF RenewRead, table, MayCall, Idle
<1>2. rows[i].status = "RESERVED" /\ ~rows[i].due
  BY <1>1, LeaseRow
<1>3. \A d \in Client : req[d].op # "none" => req[d].id # i
  BY <1>1, LeaseFree
<1>4. /\ req'[c].op = "renew" /\ req'[c].id = i /\ req'[c].row = rows[i]
      /\ \A d \in Client : d # c => req'[d] = req[d]
  BY <1>1, AskFields
<1>5. RequestIsCurrent'
  BY <1>1, <1>2, <1>3, <1>4 DEF Order, RequestIsCurrent
<1> QED
  BY <1>1, <1>5, CallStep

\* A client without a request in flight gives its lease up.
LEMMA DropStep ==
  ASSUME Tracking, Order, NEW c \in Client, Drop(c)
  PROVE  Order'
<1>1. /\ rows' = rows /\ UNCHANGED <<max, host, daemon>> /\ req' = req
      /\ req[c].op = "none" /\ lease' = [lease EXCEPT ![c] = NoLease]
      /\ lease \in [Client -> Held]
  BY ReqType DEF Drop, table, Idle, Tracking, TypeOK
<1>2. lease'[c].state = "none" /\ \A d \in Client : d # c => lease'[d] = lease[d]
  BY <1>1, HeldType
<1>3. \A d \in Client : lease'[d].state = "live" => lease'[d] = lease[d]
  BY <1>2
<1>4. RequestIsCurrent'
  BY <1>1, <1>2, <1>3 DEF Order, RequestIsCurrent
<1> QED
  BY <1>1, <1>2, <1>4, CallStep

\* A request saves its copy of a row nobody else is about: under its name, and
\* without being due.
LEMMA AnswerSave ==
  ASSUME Tracking, Order, NEW c \in Client, req[c].op # "none",
         NEW s \in {"RESERVED", "PENDING"},
         rows' = Saved(req[c].id, s, "destroy", req[c].row.name),
         req' = [req EXCEPT ![c] = NoReq], UNCHANGED <<max, vm, daemon>>
  PROVE  /\ \A i \in Id : rows'[i] = IF i = req[c].id
                                     THEN Written(s, "destroy", req[c].row.name) ELSE rows[i]
         /\ \A i \in Id : (Present(i)' <=> Present(i)) /\ rows'[i].name = rows[i].name
         /\ req'[c].op = "none"
         /\ \A d \in Client : d # c => req'[d] = req[d]
         /\ \A d \in Client : d # c /\ req[d].op # "none" => rows'[req[d].id] = rows[req[d].id]
         /\ RowKinds' /\ JobIsCurrent' /\ BatchIsCurrent' /\ NamesInRange' /\ UniqueNames'
<1>1. /\ req[c].id \in Id /\ rows[req[c].id] = req[c].row /\ ~req[c].row.due
      /\ Present(req[c].id) /\ req[c].row.name \in Slot
      /\ \A d \in Client : d # c /\ req[d].op # "none" => req[d].id \in Id /\ req[d].id # req[c].id
  BY RequestRow
<1>2. rows \in [Id -> Row] /\ req \in [Client -> Req]
  BY DEF Tracking, TypeOK
<1>3. \A i \in Id : rows'[i] = IF i = req[c].id
                               THEN Written(s, "destroy", req[c].row.name) ELSE rows[i]
  BY <1>2 DEF Saved
<1>4. /\ Written(s, "destroy", req[c].row.name).status = s
      /\ Written(s, "destroy", req[c].row.name).action = "destroy"
      /\ Written(s, "destroy", req[c].row.name).name = req[c].row.name
  BY DEF Written
<1>5. \A i \in Id : (Present(i)' <=> Present(i)) /\ rows'[i].name = rows[i].name
  BY <1>1, <1>3, <1>4 DEF Present
<1>6. req'[c].op = "none" /\ \A d \in Client : d # c => req'[d] = req[d]
  BY <1>2, ReqType
<1>7. RowKinds'
  BY <1>3, <1>4 DEF Order, RowKinds, RowKind, Kind
<1>8. JobIsCurrent' /\ BatchIsCurrent'
  BY <1>1, <1>3 DEF Order, JobIsCurrent, BatchIsCurrent, daemon
<1>9. NamesInRange' /\ UniqueNames'
  BY <1>5 DEF Order, NamesInRange, UniqueNames, daemon
<1> QED
  BY <1>1, <1>3, <1>5, <1>6, <1>7, <1>8, <1>9

LEMMA AcquireSaveStep ==
  ASSUME Tracking, Order, NEW c \in Client, AcquireSave(c)
  PROVE  Order'
<1> DEFINE k == req[c].id
           n == req[c].row.name
<1>1. /\ req[c].op = "acquire" /\ rows' = Saved(k, "RESERVED", "destroy", n)
      /\ req' = [req EXCEPT ![c] = NoReq] /\ UNCHANGED <<max, vm, daemon>>
      /\ lease' = [lease EXCEPT ![c] = [state |-> "live", id |-> k, name |-> n]]
      /\ dirty' = dirty \cup {n} /\ lease \in [Client -> Held]
  BY DEF AcquireSave, Tracking, TypeOK
<1>2. /\ \A i \in Id : rows'[i] = IF i = k THEN Written("RESERVED", "destroy", n) ELSE rows[i]
      /\ req'[c].op = "none" /\ \A d \in Client : d # c => req'[d] = req[d]
      /\ \A d \in Client : d # c /\ req[d].op # "none" => rows'[req[d].id] = rows[req[d].id]
      /\ RowKinds' /\ JobIsCurrent' /\ BatchIsCurrent' /\ NamesInRange' /\ UniqueNames'
  BY <1>1, AnswerSave
<1>3. /\ k \in Id /\ Present(k) /\ rows[k].name = n /\ rows[k].status = "READY"
      /\ n \in vm \ dirty /\ rows[k].due = FALSE
      /\ \A d \in Client : d # c /\ req[d].op # "none" => req[d].id # k
  BY <1>1, RequestRow DEF Order, RowKinds, RowKind
<1>4. /\ lease'[c].state = "live" /\ lease'[c].id = k /\ lease'[c].name = n
      /\ \A d \in Client : d # c => lease'[d] = lease[d]
  BY <1>1
<1>5. /\ Written("RESERVED", "destroy", n).status = "RESERVED"
      /\ Written("RESERVED", "destroy", n).action = "destroy"
  BY DEF Written
<1>6. \A d \in Client : lease[d].state = "live" => lease[d].id # k /\ lease[d].name # n
  <2> SUFFICES ASSUME NEW d \in Client, lease[d].state = "live"
      PROVE  lease[d].id # k /\ lease[d].name # n
    OBVIOUS
  <2>1. /\ lease[d].id \in Id /\ Present(lease[d].id)
        /\ rows[lease[d].id].status = "RESERVED" /\ rows[lease[d].id].name = lease[d].name
    BY LeaseRow
  <2> QED
    BY <1>3, <2>1, OneRow
<1>7. \A i \in Id : Present(i) /\ i # k => rows[i].name # n
  BY <1>3, OneRow
<1>8. RequestIsCurrent'
  BY <1>2, <1>3, <1>4 DEF Order, RequestIsCurrent
<1>9. AttrIsPristine'
  <2>1. ASSUME NEW i \in Id, rows'[i].action = "attr" PROVE rows'[i].name \in vm \ dirty'
    <3>1. i # k /\ rows'[i] = rows[i]
      BY <1>2, <1>5, <2>1
    <3>2. Present(i)
      BY <2>1, <3>1 DEF Order, RowKinds, RowKind, Kind, Present
    <3> QED
      BY <1>1, <1>7, <2>1, <3>1, <3>2 DEF Order, AttrIsPristine
  <2>2. ASSUME pc = "cloned" PROVE job.row.name # n
    <3>1. job.id \in Id /\ rows[job.id] = job.row /\ Present(job.id) /\ job.id # k
      BY <1>1, <2>2, WorkRow DEF Working
    <3> QED
      BY <1>7, <3>1
  <2> QED
    BY <1>1, <2>1, <2>2 DEF Order, AttrIsPristine, daemon
<1>10. ReadyIsPristine'
  <2>1. ASSUME NEW i \in Id, rows'[i].status = "READY" PROVE rows'[i].name \in vm \ dirty'
    <3>1. i # k /\ rows'[i] = rows[i] /\ Present(i)
      BY <1>2, <1>5, <2>1 DEF Present
    <3> QED
      BY <1>1, <1>7, <2>1, <3>1 DEF Order, ReadyIsPristine
  <2> QED
    BY <1>1, <2>1 DEF ReadyIsPristine
<1>11. LeaseBacked'
  <2>1. ASSUME NEW d \in Client, d # c, lease[d].state = "live"
        PROVE  rows'[lease[d].id] = rows[lease[d].id]
    BY <1>2, <1>6, <2>1, LeaseRow
  <2> QED
    BY <1>2, <1>3, <1>4, <2>1 DEF Order, LeaseBacked
<1>12. LiveLeaseHoldsVm' /\ ExclusiveLease'
  BY <1>1, <1>3, <1>4, <1>6 DEF Order, LiveLeaseHoldsVm, ExclusiveLease
<1> QED
  BY <1>2, <1>8, <1>9, <1>10, <1>11, <1>12 DEF Order

LEMMA ReleaseSaveStep ==
  ASSUME Tracking, Order, NEW c \in Client, ReleaseSave(c)
  PROVE  Order'
<1> DEFINE k == req[c].id
           n == req[c].row.name
<1>1. /\ req[c].op = "release" /\ rows' = Saved(k, "PENDING", "destroy", n)
      /\ req' = [req EXCEPT ![c] = NoReq] /\ UNCHANGED <<max, vm, daemon>>
      /\ lease' = lease /\ dirty' = dirty
  BY DEF ReleaseSave, host
<1>2. /\ \A i \in Id : rows'[i] = IF i = k THEN Written("PENDING", "destroy", n) ELSE rows[i]
      /\ req'[c].op = "none" /\ \A d \in Client : d # c => req'[d] = req[d]
      /\ \A d \in Client : d # c /\ req[d].op # "none" => rows'[req[d].id] = rows[req[d].id]
      /\ RowKinds' /\ JobIsCurrent' /\ BatchIsCurrent' /\ NamesInRange' /\ UniqueNames'
  BY <1>1, AnswerSave
<1>3. /\ Written("PENDING", "destroy", n).status = "PENDING"
      /\ Written("PENDING", "destroy", n).action = "destroy"
  BY DEF Written
<1>4. \A d \in Client : lease[d].state = "live" => lease[d].id # k
  BY <1>1 DEF Order, RequestIsCurrent
<1>5. RequestIsCurrent'
  BY <1>1, <1>2 DEF Order, RequestIsCurrent
<1>6. AttrIsPristine' /\ ReadyIsPristine'
  BY <1>1, <1>2, <1>3 DEF Order, AttrIsPristine, ReadyIsPristine, daemon
<1>7. LeaseBacked'
  <2>1. \A d \in Client : lease[d].state = "live" => rows'[lease[d].id] = rows[lease[d].id]
    BY <1>2, <1>4, LeaseRow
  <2> QED
    BY <1>1, <2>1 DEF Order, LeaseBacked
<1>8. LiveLeaseHoldsVm' /\ ExclusiveLease'
  BY <1>1 DEF Order, LiveLeaseHoldsVm, ExclusiveLease
<1> QED
  BY <1>2, <1>5, <1>6, <1>7, <1>8 DEF Order

\* The renewal of a running lease writes the row as it is.
LEMMA RenewSaveStep ==
  ASSUME Tracking, Order, NEW c \in Client, RenewSave(c)
  PROVE  Order'
<1>1. /\ req[c].op = "renew" /\ rows' = Saved(req[c].id, "RESERVED", "destroy", req[c].row.name)
      /\ req' = [req EXCEPT ![c] = NoReq] /\ UNCHANGED <<max, host, daemon>>
      /\ rows \in [Id -> Row] /\ lease \in [Client -> Held] /\ req \in [Client -> Req]
      /\ lease' = [lease EXCEPT ![c].state = IF @ = "live" THEN "live" ELSE "late"]
  BY DEF RenewSave, Tracking, TypeOK
<1>2. lease[c].state = "live" /\ lease[c].id = req[c].id
  BY <1>1 DEF Order, RequestIsCurrent
<1>3. /\ req[c].id \in Id /\ rows[req[c].id] = req[c].row
      /\ rows[req[c].id] = Written("RESERVED", "destroy", lease[c].name)
      /\ req[c].row.name = lease[c].name
  <2>1. req[c].id \in Id /\ rows[req[c].id] = req[c].row
    BY <1>1, RequestRow
  <2>2. /\ rows[lease[c].id] = Written("RESERVED", "destroy", lease[c].name)
        /\ rows[lease[c].id].name = lease[c].name
    BY <1>2, LeaseRow
  <2> QED
    BY <1>2, <2>1, <2>2
<1>4. rows' = rows
  BY <1>1, <1>3 DEF Saved
<1>5. lease' = lease
  <2>1. lease[c] \in Held /\ [lease[c] EXCEPT !.state = "live"] = lease[c]
    BY <1>1, <1>2 DEF Held
  <2>2. \A d \in Client : lease'[d] = lease[d]
    BY <1>1, <1>2, <2>1
  <2> QED
    BY <1>1, <2>2
<1>6. req'[c].op = "none" /\ \A d \in Client : d # c => req'[d] = req[d]
  BY <1>1, ReqType
<1>7. RequestIsCurrent'
  BY <1>4, <1>5, <1>6 DEF Order, RequestIsCurrent
<1> QED
  BY <1>1, <1>4, <1>5, <1>7, CallStep

-----------------------------------------------------------------------------
(* The clock, the operator, and the rest of the daemon.                    *)

\* A row comes due while no request is about it, and its lease is over.
LEMMA TickStep ==
  ASSUME Tracking, Order, ~Slow, NEW k \in Id, Tick(k)
  PROVE  Order'
<1>1. /\ Present(k) /\ rows[k].status # "READY" /\ ~rows[k].due
      /\ \A c \in Client : req[c].id # k
      /\ rows' = [rows EXCEPT ![k].due = TRUE] /\ rows \in [Id -> Row]
      /\ UNCHANGED <<max, host, daemon>> /\ req' = req
  BY DEF Tick, Tracking, TypeOK
<1>2. \A i \in Id : rows'[i] = IF i = k THEN [rows[k] EXCEPT !.due = TRUE] ELSE rows[i]
  BY <1>1
<1>3. \A i \in Id : /\ rows'[i].status = rows[i].status /\ rows'[i].action = rows[i].action
                    /\ rows'[i].name = rows[i].name
  BY <1>1, <1>2, DueType
<1>4. RowKinds'
  BY <1>1, <1>2, <1>3 DEF Order, RowKinds, RowKind
<1>5. JobIsCurrent' /\ BatchIsCurrent'
  BY <1>1, <1>2 DEF Order, JobIsCurrent, BatchIsCurrent, daemon
<1>6. AttrIsPristine' /\ ReadyIsPristine' /\ NamesInRange' /\ UniqueNames'
  BY <1>1, <1>3 DEF Order, AttrIsPristine, ReadyIsPristine, NamesInRange, UniqueNames,
                    Present, host, daemon
<1>7. ASSUME NEW c \in Client
      PROVE  \/ lease'[c] = lease[c] /\ lease[c].id # k
             \/ lease'[c].state = "expired" /\ lease[c].state = "live" /\ lease[c].id = k
             \/ lease'[c] = lease[c] /\ lease[c].state # "live"
  <2>1. lease[c] \in Held
    BY DEF Tracking, TypeOK
  <2>2. lease[c].state = "live" /\ lease[c].id = k => rows[k].status = "RESERVED"
    BY LeaseRow
  <2>3. lease'[c] = IF lease[c].state = "live" /\ lease[c].id = k
                    THEN [lease[c] EXCEPT !.state = "expired"] ELSE lease[c]
    BY <2>2 DEF Tick
  <2>4. [lease[c] EXCEPT !.state = "expired"].state = "expired"
    BY <2>1, HeldState
  <2>5. CASE lease[c].state = "live" /\ lease[c].id = k
    <3>1. lease'[c] = [lease[c] EXCEPT !.state = "expired"]
      BY <2>3, <2>5
    <3> QED
      BY <2>4, <2>5, <3>1
  <2>6. CASE ~(lease[c].state = "live" /\ lease[c].id = k)
    <3>1. lease'[c] = lease[c]
      BY <2>3, <2>6
    <3> QED
      BY <2>6, <3>1
  <2> QED
    BY <2>5, <2>6
<1>8. ASSUME NEW c \in Client, lease'[c].state = "live"
      PROVE  lease'[c] = lease[c] /\ rows'[lease[c].id] = rows[lease[c].id]
  <2>1. lease'[c] = lease[c] /\ lease[c].state = "live" /\ lease[c].id # k
    BY <1>7, <1>8
  <2> QED
    BY <1>2, <2>1, LeaseRow
<1>9. LeaseBacked' /\ LiveLeaseHoldsVm' /\ ExclusiveLease'
  BY <1>1, <1>8 DEF Order, LeaseBacked, LiveLeaseHoldsVm, ExclusiveLease, host
<1>10. ASSUME NEW c \in Client, req[c].op # "none"
       PROVE  /\ rows'[req[c].id] = rows[req[c].id]
              /\ req[c].op = "acquire" => lease'[c].state = "none"
              /\ req[c].op = "renew" => lease'[c].state = "live" /\ lease'[c].id = req[c].id
  <2>1. req[c].id \in Id /\ req[c].id # k
    BY <1>1, <1>10, RequestRow
  <2>2. req[c].op = "acquire" => lease[c].state = "none"
    BY <1>10 DEF Order, RequestIsCurrent
  <2>3. req[c].op = "renew" => lease[c].state = "live" /\ lease[c].id = req[c].id
    BY <1>10 DEF Order, RequestIsCurrent
  <2> QED
    BY <1>2, <1>7, <2>1, <2>2, <2>3
<1>11. RequestIsCurrent'
  BY <1>1, <1>8, <1>10 DEF Order, RequestIsCurrent
<1> QED
  BY <1>4, <1>5, <1>6, <1>9, <1>11 DEF Order

LEMMA ResizeStep ==
  ASSUME Tracking, Order, ~MayShrink, NEW n \in Slot, Resize(n + 1)
  PROVE  Order'
<1>1. /\ max' = n + 1 /\ n + 1 > max /\ rows' = rows /\ UNCHANGED <<host, daemon>>
      /\ req' = req /\ lease' = lease
  BY DEF Resize
<1>2. max \in Nat /\ max' \in Nat /\ max < max' /\ job.max \in Nat
  BY <1>1, SlotFacts, JobMax DEF Tracking, TypeOK
<1>3. NamesInRange'
  <2>1. ASSUME NEW i \in Id, Present(i)
        PROVE  rows[i].name < (IF pc \in {"loop", "down"} THEN max' ELSE job.max)
    <3>1. rows[i].name \in Nat
      BY RowFields, SlotFacts DEF Tracking, TypeOK
    <3> QED
      BY <1>2, <2>1, <3>1 DEF Order, NamesInRange
  <2>2. job.max <= max'
    BY <1>2 DEF Order, NamesInRange
  <2> QED
    BY <1>1, <2>1, <2>2 DEF Order, NamesInRange, Present, daemon
<1>4. JobIsCurrent' /\ BatchIsCurrent' /\ AttrIsPristine'
  BY <1>1 DEF Order, JobIsCurrent, BatchIsCurrent, AttrIsPristine, daemon, host
<1> QED
  BY <1>1, <1>3, <1>4, QuietStep DEF AttrIsPristine, host, daemon

LEMMA PollStep ==
  ASSUME Tracking, Order, Poll
  PROVE  Order'
<1>1. /\ rows' = rows /\ max' = max /\ UNCHANGED host /\ req' = req /\ lease' = lease
      /\ pc' = "loop" /\ job' = job
      /\ \A i \in Id : batch'[i] = IF Waiting(i) THEN rows[i] ELSE NoRow
  BY DEF Poll, table
<1>2. BatchIsCurrent'
  BY <1>1 DEF BatchIsCurrent, Waiting
<1>3. NamesInRange'
  BY <1>1, RangeStays DEF Present
<1>4. JobIsCurrent'
  BY <1>1 DEF JobIsCurrent, Working
<1> QED
  BY <1>1, <1>2, <1>3, <1>4, QuietStep

LEMMA StartStep ==
  ASSUME Tracking, Order, NEW k \in Id, Start(k)
  PROVE  Order'
<1>1. /\ rows' = rows /\ max' = max /\ UNCHANGED host /\ req' = req /\ lease' = lease
      /\ pc = "loop" /\ batch[k] # NoRow /\ batch \in [Id -> Row]
      /\ batch' = [batch EXCEPT ![k] = NoRow]
  BY DEF Start, table, Tracking, TypeOK
<1>2. BatchIsCurrent'
  BY <1>1, BatchStays
<1>3. rows[k] = batch[k] /\ batch[k].due
  BY <1>1 DEF Order, BatchIsCurrent
<1>4. CASE batch[k].action = "none"
  <2>1. pc' = "loop" /\ job' = job
    BY <1>1, <1>4 DEF Start
  <2>2. NamesInRange'
    BY <1>1, <2>1, RangeStays DEF Present
  <2>3. JobIsCurrent'
    BY <2>1 DEF JobIsCurrent, Working
  <2> QED
    BY <1>1, <1>2, <2>1, <2>2, <2>3, QuietStep
<1>5. CASE batch[k].action # "none"
  <2>1. /\ pc' = batch[k].action
        /\ job' = [id |-> k, row |-> batch[k], caller |-> batch[k].action, max |-> max]
    BY <1>5 DEF Start
  <2>2. batch[k].action \in {"clone", "attr", "destroy"}
    BY <1>1, <1>5, RowFields DEF Action
  <2>3. job'.id = k /\ job'.row = batch[k] /\ job'.max = max
    BY <2>1
  <2>4. JobIsCurrent'
    BY <1>1, <1>3, <2>3 DEF JobIsCurrent
  <2>5. NamesInRange'
    <3>1. max \in 1..MaxSize /\ max <= max
      BY SizeAssumption DEF Tracking, TypeOK
    <3> QED
      BY <1>1, <2>1, <2>2, <2>3, <3>1 DEF Order, NamesInRange, Present
  <2> QED
    BY <1>1, <1>2, <2>1, <2>2, <2>3, <2>4, <2>5, QuietStep
<1> QED
  BY <1>4, <1>5

\* adapt ends the entry, or goes on to the names, or the process ends.
LEMMA EntryStep ==
  ASSUME Tracking, Order, rows' = rows, max' = max, UNCHANGED host, req' = req, lease' = lease,
         batch' = batch \/ batch' = NoBatch,
         \/ pc' \in {"loop", "down"} /\ job' = NoJob
         \/ pc' = "grow" /\ pc = "adapt" /\ job' = job
  PROVE  Order'
<1>1. job'.max \in {1, job.max}
  BY DEF NoJob
<1>2. NamesInRange'
  BY <1>1, RangeStays DEF Present
<1>3. BatchIsCurrent'
  BY BatchStays, NothingHeld
<1>4. JobIsCurrent'
  BY DEF JobIsCurrent, Working
<1> QED
  BY <1>2, <1>3, <1>4, QuietStep

-----------------------------------------------------------------------------
(* Every step keeps Order.                                                 *)

LEMMA OrderStep ==
  ASSUME Disciplined, Tracking, Order, [Next]_vars
  PROVE  Order'
<1>d. ~Race /\ ~Late /\ ~Slow /\ ~MayShrink /\ "state" \notin Faults
  BY DEF Disciplined
<1>t. rows \in [Id -> Row]
  BY DEF Tracking, TypeOK
<1>1. CASE Poll
  BY <1>1, PollStep
<1>2. ASSUME NEW i \in Id, Start(i) PROVE Order'
  BY <1>2, StartStep
<1>3. CASE DestroyRow
  BY <1>3, DestroyRowStep
<1>4. CASE DestroyVm
  <2>1. job.row.action # "attr"
    BY <1>4 DEF DestroyVm, Order, AttrIsPristine
  <2> QED
    BY <1>4, <2>1, HostStep DEF DestroyVm, table, Working
<1>5. CASE DestroyFails
  <2>1. job.row.action # "attr"
    BY <1>5 DEF DestroyFails, Order, AttrIsPristine
  <2>2. /\ rows' = rows /\ max' = max /\ req' = req /\ lease' = lease /\ batch' = batch
        /\ job' = job /\ pc = "destroy" /\ pc' = "retry"
    BY <1>5 DEF DestroyFails, table
  <2>3. /\ vm' \subseteq vm \cup {job.row.name} /\ vm \subseteq vm' \cup {job.row.name}
        /\ dirty' \subseteq dirty
    BY <1>5 DEF DestroyFails, host
  <2> QED
    BY <2>1, <2>2, <2>3, HostStep DEF Working
<1>6. CASE DestroySave
  <2>1. job.row.action = "destroy" /\ pc \in Working
    BY <1>6 DEF DestroySave, Order, AttrIsPristine, Working
  <2>2. /\ job.row \in Row /\ job.row.status # "READY" /\ <<job.row.status, "destroy">> \in Kind
        /\ job.row.status # "absent"
    BY <2>1, WorkRow DEF RowKind, Present
  <2>3. /\ job.row.status \in Status /\ "destroy" \in Action
    BY <2>2, RowFields, Words
  <2>4. /\ rows' = Saved(job.id, job.row.status, "destroy", job.row.name)
        /\ max' = max /\ vm' = vm /\ dirty' = dirty /\ req' = req /\ lease' = lease
        /\ batch' = batch /\ pc' = "adapt" /\ job' = job
    BY <1>6, <2>1 DEF DestroySave, host
  <2> QED
    BY <2>1, <2>2, <2>3, <2>4, DaemonSave
<1>7. CASE CloneVm
  <2>1. job.row.action # "attr"
    BY <1>7 DEF CloneVm, Order, AttrIsPristine
  <2>2. /\ rows' = rows /\ max' = max /\ req' = req /\ lease' = lease /\ batch' = batch
        /\ job' = job /\ pc \in Working /\ pc' = "cloned"
        /\ vm' = vm \cup {job.row.name} /\ dirty' = dirty \ {job.row.name}
    BY <1>7 DEF CloneVm, table, Working
  <2>3. job.row.name \in vm' \ dirty'
    BY <2>2
  <2> QED
    BY <2>1, <2>2, <2>3, HostStep
<1>8. CASE CloneFails
  <2>1. job.row.action # "attr"
    BY <1>8 DEF CloneFails, Order, AttrIsPristine
  <2>2. /\ rows' = rows /\ max' = max /\ req' = req /\ lease' = lease /\ batch' = batch
        /\ job' = job /\ pc = "clone" /\ pc' = "retry"
    BY <1>8 DEF CloneFails, table
  <2>3. /\ vm' \subseteq vm \cup {job.row.name} /\ vm \subseteq vm' \cup {job.row.name}
        /\ dirty' \subseteq dirty
    BY <1>8 DEF CloneFails, host
  <2> QED
    BY <2>1, <2>2, <2>3, HostStep DEF Working
<1>9. CASE CloneSave
  <2>1. job.row.name \in vm \ dirty /\ pc \in Working
    BY <1>9 DEF CloneSave, Order, AttrIsPristine, Working
  <2>2. job \in Job
    BY DEF Tracking, TypeOK
  <2>3. /\ rows' = Saved(job.id, "PENDING", "attr", job.row.name)
        /\ max' = max /\ vm' = vm /\ dirty' = dirty /\ req' = req /\ lease' = lease
        /\ batch' = batch /\ pc' = "adapt" /\ job'.max = job.max
    BY <1>9, <2>2 DEF CloneSave, host, Job
  <2> QED
    BY <2>1, <2>3, DaemonSave, Words DEF Kind
<1>10. CASE AttrReady
  <2>1. pc \in Working /\ job.row.action = "attr"
    BY <1>10 DEF AttrReady, Order, AttrIsPristine, Working
  <2>2. job.row.name \in vm \ dirty
    BY <2>1, WorkRow DEF Order, AttrIsPristine
  <2>3. /\ rows' = Saved(job.id, "READY", "none", job.row.name)
        /\ max' = max /\ vm' = vm /\ dirty' = dirty /\ req' = req /\ lease' = lease
        /\ batch' = batch /\ pc' = "adapt" /\ job' = job
    BY <1>10 DEF AttrReady, host
  <2> QED
    BY <2>1, <2>2, <2>3, DaemonSave, Words DEF Kind
<1>11. ASSUME pc \in Working \cup {"retry"},
              rows' = Saved(job.id, job.row.status, job.row.action, job.row.name),
              UNCHANGED <<max, host, batch, req, lease>>, Finish
       PROVE  Order'
  <2>1. /\ job.row \in Row /\ job.id \in Id /\ rows[job.id] = job.row
        /\ job.row.status # "READY" /\ <<job.row.status, job.row.action>> \in Kind
        /\ job.row.status # "absent"
    BY <1>11, WorkRow DEF RowKind, Present
  <2>2. job.row.status \in Status /\ job.row.action \in Action
    BY <2>1, RowFields
  <2>3. job.row.action = "attr" => job.row.name \in vm \ dirty
    BY <2>1 DEF Order, AttrIsPristine
  <2>4. pc' = "loop" /\ job'.max \in {1, job.max}
    BY <1>11 DEF Finish, NoJob
  <2>5. max' = max /\ vm' = vm /\ dirty' = dirty /\ req' = req /\ lease' = lease /\ batch' = batch
    BY <1>11 DEF host
  <2> QED
    BY <1>11, <2>1, <2>2, <2>3, <2>4, <2>5, DaemonSave
<1>12. CASE AttrAgain
  BY <1>11, <1>12 DEF AttrAgain, Working
<1>13. CASE Retry
  <2>1. job.id \in Id
    BY <1>13, WorkRow DEF Retry
  <2>2. job.id # NoId
    BY <2>1, NothingHeld
  <2> QED
    BY <1>11, <1>13, <2>2 DEF Retry
<1>14. CASE AdaptEnough
  BY <1>14, EntryStep DEF AdaptEnough, Finish, table
<1>15. CASE AdaptMany
  BY <1>15, NoShrink
<1>16. CASE AdaptFew
  BY <1>16, EntryStep DEF AdaptFew, table
<1>17. ASSUME NEW i \in Id, ShrinkRow(i) PROVE Order'
  BY <1>17 DEF ShrinkRow, Order, NamesInRange
<1>18. ASSUME NEW n \in Slot, GrowRow(n) PROVE Order'
  BY <1>18, GrowRowStep
<1>19. ASSUME NEW n \in Slot, GrowFails(n) PROVE Order'
  BY <1>d, <1>19 DEF GrowFails, Fault
<1>20. ASSUME NEW n \in Slot, GrowDuplicate(n) PROVE Order'
  BY <1>20, NoDuplicate
<1>21. CASE GrowDone
  BY <1>21, EntryStep DEF GrowDone, Finish, table
<1>22. CASE Crash
  BY <1>22, EntryStep DEF Crash, Halt, table
<1>23. CASE Restart
  BY <1>d, <1>23, RestartStep
<1>24. ASSUME NEW c \in Client, Request(c) PROVE Order'
  BY <1>d, <1>24, AcquireReadStep, ReleaseReadStep, RenewReadStep, DropStep,
     AcquireSaveStep, ReleaseSaveStep, RenewSaveStep DEF Request, Answer
<1>25. ASSUME NEW i \in Id, Tick(i) PROVE Order'
  BY <1>d, <1>25, TickStep
<1>26. ASSUME NEW n \in Slot, Resize(n + 1) PROVE Order'
  BY <1>d, <1>26, ResizeStep
<1>27. CASE UNCHANGED vars
  <2>1. /\ rows' = rows /\ max' = max /\ UNCHANGED host /\ UNCHANGED daemon
        /\ req' = req /\ lease' = lease
    BY <1>27 DEF vars, host, daemon
  <2>2. RequestIsCurrent'
    BY <2>1 DEF Order, RequestIsCurrent
  <2> QED
    BY <2>1, <2>2, CallStep
<1> QED
  BY <1>1, <1>2, <1>3, <1>4, <1>5, <1>6, <1>7, <1>8, <1>9, <1>10, <1>12, <1>13, <1>14,
     <1>15, <1>16, <1>17, <1>18, <1>19, <1>20, <1>21, <1>22, <1>23, <1>24, <1>25, <1>26,
     <1>27 DEF Next, Daemon

LEMMA OrderInit ==
  ASSUME Init PROVE Order
<1>1. /\ \A i \in Id : rows[i] = NoRow /\ ~Present(i)
      /\ \A c \in Client : req[c].op = "none" /\ lease[c].state = "none"
      /\ \A i \in Id : batch[i] = NoRow
      /\ pc = "down" /\ job = NoJob /\ max = InitMax
  BY ReqType, HeldType, NoRowType, NothingHeld DEF Init, Present
<1>2. RowKinds /\ AttrIsPristine /\ ReadyIsPristine /\ UniqueNames
  BY <1>1, NoRowType DEF RowKinds, RowKind, Kind, AttrIsPristine, ReadyIsPristine, UniqueNames
<1>3. JobIsCurrent /\ BatchIsCurrent /\ RequestIsCurrent
  BY <1>1 DEF JobIsCurrent, Working, BatchIsCurrent, RequestIsCurrent
<1>4. LeaseBacked /\ LiveLeaseHoldsVm /\ ExclusiveLease
  BY <1>1 DEF LeaseBacked, LiveLeaseHoldsVm, ExclusiveLease
<1>5. NamesInRange
  BY <1>1, SizeAssumption DEF NamesInRange, NoJob
<1> QED
  BY <1>2, <1>3, <1>4, <1>5 DEF Order

-----------------------------------------------------------------------------
(* The theorems.                                                           *)

\* The inductive invariant of a pool whose acquires do not overlap, whose
\* clients respect their deadline, whose requests are quicker than deadlines
\* and restarts, whose resource_max only grows and whose hypervisor answers
\* state_get: every copy of a row that the daemon or a request holds is still
\* what the table says, whatever else fails or crashes.
THEOREM OrderInvariant == ASSUME Disciplined PROVE Spec => []Order
<1>1. Init => Order
  BY OrderInit
<1>2. Tracking /\ Order /\ [Next]_vars => Order'
  BY OrderStep
<1> QED
  BY <1>1, <1>2, TrackingInvariant, PTL DEF Spec

\* pool_acquire never gives one machine to two clients.
THEOREM ExclusiveLeases == ASSUME Disciplined PROVE Spec => []ExclusiveLease
<1>1. Order => ExclusiveLease
  BY DEF Order
<1> QED
  BY <1>1, OrderInvariant, PTL

\* While a lease runs its machine exists: no retry, crash, restart or late
\* entry of the daemon's batch destroys it.
THEOREM LeasesHoldMachines == ASSUME Disciplined PROVE Spec => []LiveLeaseHoldsVm
<1>1. Order => LiveLeaseHoldsVm
  BY DEF Order
<1> QED
  BY <1>1, OrderInvariant, PTL

\* While a lease runs the table has its row, RESERVED and to be destroyed at
\* the deadline: the lease is accounted for and will be reclaimed.
THEOREM LeasesBacked == ASSUME Disciplined PROVE Spec => []LeaseBacked
<1>1. Order => LeaseBacked
  BY DEF Order
<1> QED
  BY <1>1, OrderInvariant, PTL

\* Though no constraint of the table says so, two rows never share a name.
THEOREM NamesUnique == ASSUME Disciplined PROVE Spec => []UniqueNames
<1>1. Order => UniqueNames
  BY DEF Order
<1> QED
  BY <1>1, OrderInvariant, PTL

\* A machine on offer exists and no client has used it.
THEOREM ReadyPristine == ASSUME Disciplined PROVE Spec => []ReadyIsPristine
<1>1. Order => ReadyIsPristine
  BY DEF Order
<1> QED
  BY <1>1, OrderInvariant, PTL
================================================================================
