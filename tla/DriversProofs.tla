---------------------------- MODULE DriversProofs ----------------------------
(***************************************************************************)
(* What holds of every driver, however often the host, the guest or the    *)
(* daemon fails.                                                           *)
(***************************************************************************)
EXTENDS Drivers, TLAPS

\* Where a machine is, the disk is that was made for it; a volume is deleted
\* only after the domain of kvm is gone.  The fake driver has no disks.
DisksOf ==
  /\ product = "fake" => disks = 0
  /\ product = "docker" => disks = IF machine = "absent" THEN 0 ELSE 1
  /\ product = "kvm" /\ machine # "absent" => disks >= 1
  /\ pc = "volume" => product = "kvm" /\ machine = "absent" /\ disks >= 1

\* A machine that will be cloned over, or is taken for gone because it is
\* blocked, has cost a fault that has not cost a disk yet.
Paid ==
  /\ machine = "blocked" => disks <= faults
  /\ pc = "loop" /\ row.action = "clone" /\ machine # "absent" => disks <= faults

\* From the clone on the machine is there and new.
Stages ==
  /\ pc = "start" => row.action = "clone" /\ machine # "absent" /\ wear = "new"
  /\ row.action = "attr" => machine # "absent" /\ wear = "new"
  /\ row.action \in {"clone", "attr"} => row.status = "PENDING"
  /\ row.status = "READY" => row.action = "none"
  /\ pc = "volume" => row.action = "destroy"
  /\ product = "fake" => machine \in {"absent", "running"}

Inv == TypeOK /\ DisksOf /\ Paid /\ Stages /\ OfferIsFresh /\ LeaksAreBounded

-----------------------------------------------------------------------------
\* The columns of a row.
LEMMA DueFields ==
  ASSUME NEW s \in Status, NEW a \in Action
  PROVE  /\ Row(s, a, TRUE) \in Rows
         /\ Row(s, a, TRUE).status = s /\ Row(s, a, TRUE).action = a
BY DEF Row, Rows

LEMMA UndueFields ==
  ASSUME NEW s \in Status, NEW a \in Action
  PROVE  /\ Row(s, a, FALSE) \in Rows
         /\ Row(s, a, FALSE).status = s /\ Row(s, a, FALSE).action = a
BY DEF Row, Rows

LEMMA NoRowFields == NoRow \in Rows /\ NoRow.status = "absent" /\ NoRow.action = "none"
BY UndueFields DEF NoRow, Status, Action

LEMMA PendingFields ==
  ASSUME NEW a \in Action
  PROVE  /\ Row("PENDING", a, TRUE) \in Rows
         /\ Row("PENDING", a, TRUE).status = "PENDING" /\ Row("PENDING", a, TRUE).action = a
BY DueFields DEF Status

LEMMA OneLess == ASSUME NEW m \in Nat, NEW n \in Nat, m <= n PROVE m - 1 <= n
OBVIOUS

\* What goes wrong is counted.
LEMMA FaultCounts ==
  ASSUME NEW kind, faults \in 0..MaxFaults, UNCHANGED faults \/ Fault(kind)
  PROVE  faults' \in 0..MaxFaults /\ faults' >= faults
BY FaultAssumption DEF Fault

LEMMA InitInv == Init => Inv
<1> SUFFICES ASSUME Init PROVE Inv
  OBVIOUS
<1>1. TypeOK
  BY ProductAssumption, FaultAssumption, NoRowFields DEF Init, TypeOK, State
<1>2. DisksOf /\ Paid /\ Stages /\ OfferIsFresh /\ LeaksAreBounded
  BY FaultAssumption, NoRowFields
     DEF Init, DisksOf, Paid, Stages, OfferIsFresh, LeaksAreBounded
<1> QED BY <1>1, <1>2 DEF Inv

LEMMA AdaptInv == Inv /\ Adapt => Inv'
<1> SUFFICES ASSUME Inv, Adapt PROVE Inv'
  OBVIOUS
<1>1. /\ pc = "loop" /\ pc' = "loop" /\ product' = product /\ machine' = machine
      /\ disks' = disks /\ wear' = wear
  BY DEF Adapt
<1>2. faults' \in 0..MaxFaults /\ faults' >= faults
  BY FaultCounts DEF Adapt, SaysNone, SaysExists, KvmNone, DockerNone, FakeNone, Inv, TypeOK
<1>3. /\ row' \in Rows /\ row'.status = "PENDING"
      /\ \/ row'.action = "clone" /\ SaysNone
         \/ row'.action = "destroy"
  BY PendingFields DEF Adapt, Action
<1>4. row'.action = "clone" /\ machine # "absent" => disks <= faults'
  BY <1>3, FaultAssumption
     DEF SaysNone, KvmNone, DockerNone, FakeNone, Fault, Inv, TypeOK, Paid, LeaksAreBounded
<1>5. TypeOK'
  BY <1>1, <1>2, <1>3 DEF Inv, TypeOK
<1>6. DisksOf' /\ Stages' /\ OfferIsFresh'
  BY <1>1, <1>3 DEF Inv, DisksOf, Stages, OfferIsFresh
<1>7. Paid'
  BY <1>1, <1>2, <1>3, <1>4, FaultAssumption DEF Inv, TypeOK, Paid
<1>8. LeaksAreBounded'
  BY <1>1, <1>2, FaultAssumption DEF Inv, TypeOK, LeaksAreBounded
<1> QED BY <1>5, <1>6, <1>7, <1>8 DEF Inv

LEMMA CloneInv == Inv /\ Clone => Inv'
<1> SUFFICES ASSUME Inv, Clone PROVE Inv'
  OBVIOUS
<1>1. /\ pc = "loop" /\ pc' = "start" /\ product' = product /\ row' = row /\ faults' = faults
      /\ row.action = "clone"
  BY DEF Clone, Todo
<1>2. faults \in Nat /\ disks \in Nat
  BY FaultAssumption DEF Inv, TypeOK
<1>3. /\ machine' \in {"shutoff", "created", "running"} /\ wear' = "new"
      /\ disks' \in {disks, disks + 1}
      /\ product = "docker" => machine = "absent" /\ disks' = disks + 1
      /\ product = "fake" => machine' = "running" /\ disks' = disks
      /\ product = "kvm" => disks' = disks + 1
  BY DEF Clone, KvmClone, KvmNewDisk, DockerClone, FakeClone
<1>4. disks <= faults
  BY <1>1, <1>2 DEF Inv, Paid, LeaksAreBounded
<1>5. TypeOK'
  BY <1>1, <1>2, <1>3 DEF Inv, TypeOK, State
<1>6. DisksOf'
  BY <1>1, <1>2, <1>3 DEF Inv, DisksOf
<1>7. Stages' /\ OfferIsFresh'
  BY <1>1, <1>3 DEF Inv, Stages, OfferIsFresh
<1>8. disks' - 1 <= faults
  <2>1. CASE disks' = disks
    BY <2>1, <1>2, <1>4
  <2>2. CASE disks' = disks + 1
    BY <2>2, <1>2, <1>4
  <2> QED BY <2>1, <2>2, <1>3
<1>9. Paid' /\ LeaksAreBounded'
  BY <1>1, <1>3, <1>8 DEF Paid, LeaksAreBounded
<1> QED BY <1>5, <1>6, <1>7, <1>9 DEF Inv

LEMMA StartInv == Inv /\ Start => Inv'
<1> SUFFICES ASSUME Inv, Start PROVE Inv'
  OBVIOUS
<1>1. /\ pc = "start" /\ pc' = "loop" /\ product' = product /\ disks' = disks /\ wear' = wear
      /\ row' \in Rows /\ row'.status = "PENDING" /\ row'.action = "attr"
  BY PendingFields DEF Start, Action
<1>2. /\ machine' \in {machine, "running"} /\ faults' \in 0..MaxFaults /\ faults' >= faults
      /\ product = "fake" => machine' = machine
  BY FaultCounts DEF Start, KvmStart, DockerStart, FakeStart, Inv, TypeOK
<1>3. TypeOK'
  BY <1>1, <1>2 DEF Inv, TypeOK, State
<1>4. DisksOf' /\ Stages' /\ OfferIsFresh'
  BY <1>1, <1>2 DEF Inv, DisksOf, Stages, OfferIsFresh
<1>5. Paid' /\ LeaksAreBounded'
  BY <1>1, <1>2, FaultAssumption DEF Inv, TypeOK, Stages, Paid, LeaksAreBounded
<1> QED BY <1>3, <1>4, <1>5 DEF Inv

LEMMA StartFailsInv == Inv /\ StartFails => Inv'
<1> SUFFICES ASSUME Inv, StartFails PROVE Inv'
  OBVIOUS
<1>1. /\ pc = "start" /\ pc' = "loop" /\ product' = product /\ disks' = disks /\ wear' = wear
      /\ machine' = machine /\ row' = row /\ product = "kvm"
  BY DEF StartFails
<1>2. faults' \in 0..MaxFaults /\ faults' = faults + 1 /\ faults \in Nat /\ disks \in Nat
  BY FaultAssumption DEF StartFails, KvmStartRaises, Fault, Inv, TypeOK
<1>3. disks <= faults'
  BY <1>2 DEF Inv, LeaksAreBounded
<1>4. TypeOK'
  BY <1>1, <1>2 DEF Inv, TypeOK
<1>5. DisksOf' /\ Stages' /\ OfferIsFresh'
  BY <1>1 DEF Inv, DisksOf, Stages, OfferIsFresh
<1>6. Paid' /\ LeaksAreBounded'
  BY <1>1, <1>2, <1>3 DEF Paid, LeaksAreBounded
<1> QED BY <1>4, <1>5, <1>6 DEF Inv

LEMMA AttrInv == Inv /\ Attr => Inv'
<1> SUFFICES ASSUME Inv, Attr PROVE Inv'
  OBVIOUS
<1>1. /\ pc = "loop" /\ pc' = pc /\ product' = product /\ disks' = disks /\ wear' = wear
      /\ machine' = machine /\ faults' = faults /\ row.action = "attr"
      /\ row' \in Rows /\ row'.status = "READY" /\ row'.action = "none"
  BY DueFields DEF Attr, Todo, Status, Action
<1>2. TypeOK' /\ DisksOf' /\ Paid' /\ LeaksAreBounded'
  BY <1>1 DEF Inv, TypeOK, DisksOf, Paid, LeaksAreBounded
<1>3. Stages' /\ OfferIsFresh'
  BY <1>1 DEF Inv, Stages, OfferIsFresh
<1> QED BY <1>2, <1>3 DEF Inv

LEMMA DestroyRowInv == Inv /\ DestroyRow => Inv'
<1> SUFFICES ASSUME Inv, DestroyRow PROVE Inv'
  OBVIOUS
<1>1. /\ pc = "loop" /\ pc' = pc /\ product' = product /\ disks' = disks /\ wear' = wear
      /\ machine' = machine
      /\ row' \in Rows /\ row'.status = "absent" /\ row'.action = "none"
  BY NoRowFields DEF DestroyRow, Todo
<1>2. faults' \in 0..MaxFaults /\ faults' >= faults
  BY FaultCounts DEF DestroyRow, SaysNone, KvmNone, DockerNone, FakeNone, Inv, TypeOK
<1>3. TypeOK'
  BY <1>1, <1>2 DEF Inv, TypeOK
<1>4. DisksOf' /\ Stages' /\ OfferIsFresh'
  BY <1>1 DEF Inv, DisksOf, Stages, OfferIsFresh
<1>5. Paid'
  BY <1>1, <1>2, FaultAssumption DEF Inv, TypeOK, Paid
<1>6. LeaksAreBounded'
  BY <1>1, <1>2, FaultAssumption DEF Inv, TypeOK, LeaksAreBounded
<1> QED BY <1>3, <1>4, <1>5, <1>6 DEF Inv

LEMMA DestroyInv == Inv /\ Destroy => Inv'
<1> SUFFICES ASSUME Inv, Destroy PROVE Inv'
  OBVIOUS
<1>1. /\ pc = "loop" /\ product' = product /\ row' = row /\ faults' = faults /\ wear' = "new"
      /\ machine # "absent" /\ machine' = "absent" /\ row.action = "destroy"
  BY DEF Destroy, SaysExists, Todo, KvmUndefine, DockerRemove, FakeRemove
<1>2. /\ product = "kvm" => pc' = "volume" /\ disks' = disks
      /\ product = "docker" => pc' = "loop" /\ disks' = disks - 1
      /\ product = "fake" => pc' = "loop" /\ disks' = disks
      /\ product \in {"kvm", "docker", "fake"}
  BY ProductAssumption
     DEF Destroy, KvmUndefine, DockerRemove, FakeRemove, Inv, TypeOK
<1>3. faults \in Nat /\ disks \in Nat
  BY FaultAssumption DEF Inv, TypeOK
<1>4. CASE product = "kvm"
  <2>1. disks' = disks /\ pc' = "volume" /\ disks >= 1
    BY <1>1, <1>2, <1>4 DEF Inv, DisksOf
  <2>2. TypeOK'
    BY <1>1, <2>1 DEF Inv, TypeOK, State
  <2>3. DisksOf' /\ Stages' /\ OfferIsFresh'
    BY <1>1, <1>4, <2>1 DEF Inv, DisksOf, Stages, OfferIsFresh
  <2>4. Paid' /\ LeaksAreBounded'
    BY <1>1, <1>3, <2>1 DEF Inv, Paid, LeaksAreBounded
  <2> QED BY <2>2, <2>3, <2>4 DEF Inv
<1>5. CASE product \in {"docker", "fake"}
  <2>1. disks' = 0 /\ pc' = "loop"
    BY <1>1, <1>2, <1>5 DEF Inv, DisksOf
  <2>2. TypeOK'
    BY <1>1, <2>1 DEF Inv, TypeOK, State
  <2>3. DisksOf' /\ Stages' /\ OfferIsFresh'
    BY <1>1, <1>5, <2>1 DEF Inv, DisksOf, Stages, OfferIsFresh
  <2>4. Paid' /\ LeaksAreBounded'
    BY <1>1, <1>3, <2>1 DEF Paid, LeaksAreBounded
  <2> QED BY <2>2, <2>3, <2>4 DEF Inv
<1> QED BY <1>2, <1>4, <1>5

LEMMA DeleteVolumeInv == Inv /\ DeleteVolume => Inv'
<1> SUFFICES ASSUME Inv, DeleteVolume PROVE Inv'
  OBVIOUS
<1>1. /\ pc = "volume" /\ pc' = "loop" /\ product' = product /\ row' = row /\ wear' = wear
      /\ machine' = machine
  BY DEF DeleteVolume
<1>2. product = "kvm" /\ machine = "absent" /\ disks >= 1 /\ row.action = "destroy"
  BY <1>1 DEF Inv, DisksOf, Stages
<1>3. faults \in Nat /\ disks \in Nat /\ disks - 1 <= faults
  BY FaultAssumption DEF Inv, TypeOK, LeaksAreBounded
<1>4. /\ disks' \in Nat /\ faults' \in 0..MaxFaults /\ disks' <= faults'
  <2>1. CASE disks' = disks - 1 /\ faults' = faults
    BY <2>1, <1>2, <1>3 DEF Inv, TypeOK
  <2>2. CASE Fault("volume") /\ disks' = disks
    BY <2>2, <1>3, FaultAssumption DEF Fault, Inv, TypeOK
  <2> QED BY <2>1, <2>2 DEF DeleteVolume
<1>5. TypeOK'
  BY <1>1, <1>4 DEF Inv, TypeOK
<1>6. DisksOf' /\ Stages' /\ OfferIsFresh'
  BY <1>1, <1>2 DEF Inv, DisksOf, Stages, OfferIsFresh
<1>7. faults' \in Nat
  BY <1>4, FaultAssumption
<1>8. Paid' /\ LeaksAreBounded'
  BY <1>1, <1>4, <1>7, OneLess DEF Paid, LeaksAreBounded
<1> QED BY <1>5, <1>6, <1>8 DEF Inv

LEMMA CrashInv == Inv /\ Crash => Inv'
<1> SUFFICES ASSUME Inv, Crash PROVE Inv'
  OBVIOUS
<1>1. /\ pc' = "down" /\ product' = product /\ row' = row /\ wear' = wear
      /\ machine' = machine /\ disks' = disks
  BY DEF Crash
<1>2. faults' = faults + 1 /\ faults' \in 0..MaxFaults /\ faults \in Nat /\ disks \in Nat
  BY FaultAssumption DEF Crash, Fault, Inv, TypeOK
<1>3. disks <= faults'
  BY <1>2 DEF Inv, LeaksAreBounded
<1>4. TypeOK'
  BY <1>1, <1>2 DEF Inv, TypeOK
<1>5. DisksOf' /\ Stages' /\ OfferIsFresh'
  BY <1>1 DEF Inv, DisksOf, Stages, OfferIsFresh
<1>6. Paid' /\ LeaksAreBounded'
  BY <1>1, <1>2, <1>3, OneLess DEF Paid, LeaksAreBounded
<1> QED BY <1>4, <1>5, <1>6 DEF Inv

LEMMA SetupInv == Inv /\ Setup => Inv'
<1> SUFFICES ASSUME Inv, Setup PROVE Inv'
  OBVIOUS
<1>1. /\ pc = "down" /\ pc' = "loop" /\ product' = product /\ wear' = wear
      /\ machine' = machine /\ disks' = disks /\ faults' = faults
      /\ row' \in Rows /\ row'.status # "READY" /\ row'.action \in {"destroy", "none"}
  BY PendingFields, NoRowFields DEF Setup, Action
<1>2. TypeOK' /\ DisksOf' /\ Stages' /\ OfferIsFresh'
  BY <1>1 DEF Inv, TypeOK, DisksOf, Stages, OfferIsFresh
<1>3. Paid' /\ LeaksAreBounded'
  BY <1>1 DEF Inv, Paid, LeaksAreBounded
<1> QED BY <1>2, <1>3 DEF Inv

LEMMA AcquireInv == Inv /\ Acquire => Inv'
<1> SUFFICES ASSUME Inv, Acquire PROVE Inv'
  OBVIOUS
<1>1. /\ pc' = pc /\ product' = product /\ wear' = "used" /\ row.status = "READY"
      /\ machine' = machine /\ disks' = disks /\ faults' = faults
      /\ row' \in Rows /\ row'.status = "RESERVED" /\ row'.action = "destroy"
  BY UndueFields DEF Acquire, Status, Action
<1>2. pc # "start"
  BY <1>1 DEF Inv, Stages
<1>3. TypeOK' /\ DisksOf' /\ Stages' /\ OfferIsFresh'
  BY <1>1, <1>2 DEF Inv, TypeOK, DisksOf, Stages, OfferIsFresh
<1>4. Paid' /\ LeaksAreBounded'
  BY <1>1 DEF Inv, Paid, LeaksAreBounded
<1> QED BY <1>3, <1>4 DEF Inv

LEMMA ExpireInv == Inv /\ Expire => Inv'
<1> SUFFICES ASSUME Inv, Expire PROVE Inv'
  OBVIOUS
<1>1. /\ pc' = pc /\ product' = product /\ wear' = wear
      /\ machine' = machine /\ disks' = disks /\ faults' = faults
  BY DEF Expire
<1>2. row' \in Rows /\ row'.status = row.status /\ row'.action = row.action
  BY DEF Expire, Inv, TypeOK, Rows
<1>3. TypeOK' /\ DisksOf' /\ Stages' /\ OfferIsFresh'
  BY <1>1, <1>2 DEF Inv, TypeOK, DisksOf, Stages, OfferIsFresh
<1>4. Paid' /\ LeaksAreBounded'
  BY <1>1, <1>2 DEF Inv, Paid, LeaksAreBounded
<1> QED BY <1>3, <1>4 DEF Inv

LEMMA GuestInv == Inv /\ (GuestStops \/ GuestGoesOn) => Inv'
<1> SUFFICES ASSUME Inv, GuestStops \/ GuestGoesOn PROVE Inv'
  OBVIOUS
<1>1. /\ pc' = pc /\ product' = product /\ wear' = wear /\ row' = row /\ disks' = disks
      /\ machine # "absent" /\ machine' \in State \ {"absent"} /\ product # "fake"
  BY DEF GuestStops, GuestGoesOn, State, Inv, Stages
<1>2. faults' \in 0..MaxFaults /\ faults' >= faults /\ faults \in Nat /\ disks \in Nat
  BY FaultCounts, FaultAssumption DEF GuestStops, GuestGoesOn, Inv, TypeOK
<1>3. machine' = "blocked" => disks <= faults'
  BY <1>2 DEF GuestStops, GuestGoesOn, Fault, Inv, LeaksAreBounded
<1>4. TypeOK'
  BY <1>1, <1>2 DEF Inv, TypeOK
<1>5. DisksOf' /\ Stages' /\ OfferIsFresh'
  BY <1>1 DEF Inv, DisksOf, Stages, OfferIsFresh
<1>6. faults' \in Nat
  BY <1>2, FaultAssumption
<1>7. Paid'
  BY <1>1, <1>2, <1>3, <1>6 DEF Inv, Paid
<1>8. LeaksAreBounded'
  BY <1>1, <1>2, <1>6 DEF Inv, LeaksAreBounded
<1> QED BY <1>4, <1>5, <1>7, <1>8 DEF Inv

-----------------------------------------------------------------------------
LEMMA InvStep == Inv /\ [Next]_vars => Inv'
<1> SUFFICES ASSUME Inv, [Next]_vars PROVE Inv'
  OBVIOUS
<1>1. CASE Daemon
  BY <1>1, AdaptInv, CloneInv, StartInv, StartFailsInv, AttrInv, DestroyRowInv, DestroyInv,
     DeleteVolumeInv, SetupInv DEF Daemon
<1>2. CASE Crash \/ Acquire \/ Expire \/ GuestStops \/ GuestGoesOn
  BY <1>2, CrashInv, AcquireInv, ExpireInv, GuestInv
<1>3. CASE UNCHANGED vars
  BY <1>3 DEF vars, Inv, TypeOK, DisksOf, Paid, Stages, OfferIsFresh, LeaksAreBounded
<1> QED BY <1>1, <1>2, <1>3 DEF Next

\* The inductive invariant of the drivers.
THEOREM DriversInvariant == Spec => []Inv
<1>1. Init => Inv
  BY InitInv
<1>2. Inv /\ [Next]_vars => Inv'
  BY InvStep
<1> QED BY <1>1, <1>2, PTL DEF Spec

\* Types, and with them that no disk is deleted twice.
THEOREM TypeCorrect == Spec => []TypeOK
<1>1. Inv => TypeOK
  BY DEF Inv
<1> QED BY <1>1, DriversInvariant, PTL

\* A READY row has a machine that is there and was not leased before, whatever
\* the driver, and whatever fails.
THEOREM OffersAreFresh == Spec => []OfferIsFresh
<1>1. Inv => OfferIsFresh
  BY DEF Inv
<1> QED BY <1>1, DriversInvariant, PTL

\* One disk at most is lost for each thing that goes wrong.
THEOREM LeaksBounded == Spec => []LeaksAreBounded
<1>1. Inv => LeaksAreBounded
  BY DEF Inv
<1> QED BY <1>1, DriversInvariant, PTL
==============================================================================
