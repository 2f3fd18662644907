------------------------ MODULE SessionBookingProofs ------------------------
(***************************************************************************)
(* The safety of SessionBooking for every number of bookings, clients,     *)
(* classes and handlers, every capacity and every pack.                    *)
(*                                                                         *)
(* The proofs never look at what the numbers of a pack are: what a client  *)
(* is charged does not bear on who holds a seat.                           *)
(***************************************************************************)
EXTENDS SessionBooking, FiniteSetTheorems, TLAPS

-----------------------------------------------------------------------------
(* Lemmas about the operators *)

\* Sets of bookings are finite: their cardinality is a number.
LEMMA BookingsFinite ==
    ASSUME NEW S \in SUBSET Ids
    PROVE  IsFiniteSet(S) /\ Cardinality(S) \in Nat
BY IdsAssumption, FS_Subset, FS_CardinalityType

\* GREATEST(n - k, 0) is a natural number, and no less than n - k.
LEMMA MinusType ==
    ASSUME NEW n \in Nat, NEW k \in Nat
    PROVE  Minus(n, k) \in Nat /\ n - k <= Minus(n, k) /\ Minus(n, k) <= n
BY DEF Minus

\* An insert leaves well-typed rows and counts.
LEMMA InsertType ==
    ASSUME RowsOK, SeatsOK,
           NEW B \in SUBSET Ids, NEW at \in [B -> Instances], NEW c \in Clients,
           NEW st \in ActiveStatuses, NEW v \in Sources, NEW f \in Ids \cup {None},
           f # None => status[f] # "none" /\ f \notin B,
           Insert(B, at, c, st, v, f)
    PROVE  RowsOK' /\ SeatsOK'
<1>1. RowsOK'
  <2>1. /\ status' \in [Ids -> {"none"} \cup ActiveStatuses \cup FinalStatuses]
        /\ client' \in [Ids -> Clients \cup {None}]
        /\ inst' \in [Ids -> Instances \cup {None}]
        /\ from' \in [Ids -> Ids \cup {None}]
        /\ via' \in [Ids -> Sources \cup {None}]
        /\ stale' \in SUBSET Ids
    BY DEF RowsOK, Insert
  <2>2. \A b \in Ids : /\ status'[b] = "none" => client'[b] = None
                       /\ status'[b] # "none" => client'[b] \in Clients /\ inst'[b] \in Instances
    BY DEF RowsOK, Insert, ActiveStatuses
  <2>3. ASSUME NEW b \in Ids, from'[b] # None
        PROVE  from'[b] # b /\ status'[from'[b]] # "none"
    <3>1. from'[b] \in Ids /\ status[from'[b]] # "none" /\ from'[b] # b
      BY <2>1, <2>3 DEF RowsOK, Insert
    <3> QED BY <3>1 DEF Insert, ActiveStatuses
  <2> QED BY <2>1, <2>2, <2>3 DEF RowsOK
<1>2. SeatsOK'
  BY CapacityAssumption DEF SeatsOK, Insert
<1> QED BY <1>1, <1>2

\* A status update that writes a terminal status leaves well-typed rows.
LEMMA StatusType ==
    ASSUME RowsOK, NEW B \in SUBSET Ids, NEW st \in FinalStatuses,
           \A b \in B : status[b] # "none",
           SetStatus(B, st), OnlyStatus
    PROVE  RowsOK'
BY DEF RowsOK, SetStatus, OnlyStatus, FinalStatuses

\* A release leaves well-typed counts.
LEMMA ReleaseType ==
    ASSUME bookedCount \in [Instances -> Nat], NEW B \in SUBSET Ids, Release(B)
    PROVE  bookedCount' \in [Instances -> Nat]
<1>1. ASSUME NEW i \in Instances
      PROVE  Minus(bookedCount[i], Cardinality({b \in B : inst[b] = i})) \in Nat
  <2>1. {b \in B : inst[b] = i} \in SUBSET Ids
    OBVIOUS
  <2> QED BY <2>1, BookingsFinite, MinusType
<1> QED BY <1>1 DEF Release

\* So does a deduction, for a finite pack ...
LEMMA DeductType ==
    ASSUME CreditOK, NEW c \in Clients, left[c] # Unlimited, NEW B \in SUBSET Ids,
           Deduct(c, B)
    PROVE  left' \in [Clients -> Sessions] /\ charged' \in SUBSET Ids
<1>1. left[c] \in Nat
  BY DEF CreditOK, Sessions
<1>2. Minus(left[c], Cardinality(B)) \in Nat
  BY <1>1, BookingsFinite, MinusType
<1> QED BY <1>2 DEF Deduct, CreditOK, Sessions

\* ... and the return of credits.
LEMMA RestoreType ==
    ASSUME CreditOK, NEW B \in SUBSET Ids, NEW key \in {"credit", "lesson"},
           RestoreCredit(B, key)
    PROVE  left' \in [Clients -> Sessions]
           /\ refunded' \in SUBSET (Ids \X {"credit", "lesson"})
<1> DEFINE R == {b \in B : Restorable(b, key)}
<1>1. ASSUME NEW c \in Clients, left[c] # Unlimited
      PROVE  left[c] + Cardinality({b \in R : client[b] = c}) \in Nat
  <2>1. {b \in R : client[b] = c} \in SUBSET Ids
    OBVIOUS
  <2>2. left[c] \in Nat
    BY <1>1 DEF CreditOK, Sessions
  <2> QED BY <2>1, <2>2, BookingsFinite
<1>2. left' \in [Clients -> Sessions]
  BY <1>1 DEF RestoreCredit, Sessions
<1>3. refunded' \in SUBSET (Ids \X {"credit", "lesson"})
  BY DEF RestoreCredit, CreditOK
<1> QED BY <1>2, <1>3

-----------------------------------------------------------------------------
(* Types *)

\* What a job that cancels, moves or renews holds.
LEMMA JobType ==
    ASSUME NEW j \in Jobs
    PROVE  /\ j.op \in {"idle", "cancel", "move", "renew"}
           /\ j.op = "cancel" => j.id \in Ids
           /\ j.op = "move" => j.id \in Ids
           /\ j.op = "renew" => /\ j.client \in Clients
                               /\ j.pack \in Packs
                               /\ j.unbilled \in SUBSET Ids
BY DEF Jobs, Idle

\* A handler that starts a job, or ends one, leaves well-typed jobs.
LEMMA JobSet ==
    ASSUME ProcOK, NEW h \in Handlers, NEW j \in Jobs,
           j.op \in {"cancel", "move"} => status'[j.id] # "none",
           \A b \in Ids : status[b] # "none" => status'[b] # "none",
           handler' = [handler EXCEPT ![h] = j], sweep' \in SUBSET Ids
    PROVE  ProcOK'
<1>1. handler' \in [Handlers -> Jobs]
  BY DEF ProcOK
<1>2. ASSUME NEW g \in Handlers, handler'[g].op \in {"cancel", "move"}
      PROVE  status'[handler'[g].id] # "none"
  <2>1. CASE g = h
    BY <1>2, <2>1 DEF ProcOK
  <2>2. CASE g # h
    <3>1. handler'[g] = handler[g] /\ handler[g] \in Jobs
      BY <2>2 DEF ProcOK
    <3>2. handler[g].id \in Ids
      BY <1>2, <3>1, JobType
    <3> QED BY <1>2, <3>1, <3>2 DEF ProcOK
  <2> QED BY <2>1, <2>2
<1> QED BY <1>1, <1>2 DEF ProcOK

\* Jobs stay well-typed while rows stay rows.
LEMMA JobKeep ==
    ASSUME ProcOK, UNCHANGED handler, sweep' \in SUBSET Ids,
           \A b \in Ids : status[b] # "none" => status'[b] # "none"
    PROVE  ProcOK'
<1>1. ASSUME NEW g \in Handlers, handler'[g].op \in {"cancel", "move"}
      PROVE  status'[handler'[g].id] # "none"
  <2>1. handler'[g] = handler[g] /\ handler[g] \in Jobs
    BY DEF ProcOK
  <2>2. handler[g].id \in Ids
    BY <1>1, <2>1, JobType
  <2> QED BY <1>1, <2>1, <2>2 DEF ProcOK
<1> QED BY <1>1 DEF ProcOK

\* The idle job is a job that refers to no row.
LEMMA IdleJob == Idle \in Jobs /\ Idle.op \notin {"cancel", "move"}
BY DEF Idle, Jobs

\* No row is unmade by an insert or by a terminal status.
LEMMA RowsStay ==
    ASSUME NEW B, NEW at, NEW c, NEW st \in ActiveStatuses \cup FinalStatuses,
           NEW v, NEW f,
           Insert(B, at, c, st, v, f) \/ SetStatus(B, st)
    PROVE  \A b \in Ids : status[b] # "none" => status'[b] # "none"
BY DEF Insert, SetStatus, ActiveStatuses, FinalStatuses

LEMMA InitType == Init => TypeOK
BY CapacityAssumption, IdleJob
   DEF Init, TypeOK, RowsOK, SeatsOK, CreditOK, ProcOK, Sessions

\* Every step preserves the types.
LEMMA NextType ==
    ASSUME TypeOK, [Next]_vars
    PROVE  TypeOK'
<1> USE DEF TypeOK
<1>1. ASSUME NEW c \in Clients, NEW B \in SUBSET Unused, NEW at \in Places(B),
             NEW v \in {"chat", "menu"}, BookByClient(c, B, at, v)
      PROVE  TypeOK'
  <2>1. B \in SUBSET Ids /\ at \in [B -> Instances] /\ v \in Sources
    BY DEF Unused, Places, Sources
  <2>2. Insert(B, at, c, "pending", v, None)
    BY <1>1 DEF BookByClient
  <2>3. RowsOK' /\ SeatsOK'
    BY <2>1, <2>2, InsertType DEF ActiveStatuses
  <2>4. left' \in [Clients -> Sessions] /\ charged' \in SUBSET Ids
    <3>1. CASE HasCredit(c) /\ left[c] # Unlimited
      BY <1>1, <2>1, <3>1, DeductType DEF BookByClient
    <3>2. CASE ~(HasCredit(c) /\ left[c] # Unlimited)
      BY <1>1, <3>2 DEF BookByClient, CreditOK
    <3> QED BY <3>1, <3>2
  <2>5. CreditOK'
    BY <1>1, <2>4 DEF BookByClient, CreditOK
  <2>6. ProcOK'
    <3>1. \A b \in Ids : status[b] # "none" => status'[b] # "none"
      BY <2>2, RowsStay DEF ActiveStatuses
    <3>2. UNCHANGED handler /\ sweep' \in SUBSET Ids
      BY <1>1 DEF BookByClient, procVars, ProcOK
    <3> QED BY <3>1, <3>2, JobKeep
  <2> QED BY <2>3, <2>5, <2>6
<1>2. ASSUME NEW c \in Clients, NEW b \in Unused, NEW i \in Instances,
             AssignByOwner(c, b, i)
      PROVE  TypeOK'
  <2>1. {b} \in SUBSET Ids /\ [x \in {b} |-> i] \in [{b} -> Instances]
    BY DEF Unused
  <2>2. Insert({b}, [x \in {b} |-> i], c, "confirmed", "assign", None)
    BY <1>2 DEF AssignByOwner
  <2>3. RowsOK' /\ SeatsOK'
    BY <2>1, <2>2, InsertType DEF ActiveStatuses, Sources
  <2>4. left' \in [Clients -> Sessions] /\ charged' \in SUBSET Ids
    <3>1. CASE mem[c] = "live" /\ left[c] # Unlimited
      BY <1>2, <2>1, <3>1, DeductType DEF AssignByOwner
    <3>2. CASE ~(mem[c] = "live" /\ left[c] # Unlimited)
      BY <1>2, <3>2 DEF AssignByOwner, CreditOK
    <3> QED BY <3>1, <3>2
  <2>5. CreditOK'
    BY <1>2, <2>4 DEF AssignByOwner, CreditOK
  <2>6. ProcOK'
    <3>1. \A x \in Ids : status[x] # "none" => status'[x] # "none"
      BY <2>2, RowsStay DEF ActiveStatuses
    <3>2. UNCHANGED handler /\ sweep' \in SUBSET Ids
      BY <1>2 DEF AssignByOwner, procVars, ProcOK
    <3> QED BY <3>1, <3>2, JobKeep
  <2> QED BY <2>3, <2>5, <2>6
<1>3. ASSUME NEW c \in Clients, NEW b \in Unused, NEW i \in Instances,
             ApproveException(c, b, i)
      PROVE  TypeOK'
  <2>1. {b} \in SUBSET Ids /\ [x \in {b} |-> i] \in [{b} -> Instances]
    BY DEF Unused
  <2>2. Insert({b}, [x \in {b} |-> i], c, "confirmed", "exception", None)
    BY <1>3 DEF ApproveException
  <2>3. RowsOK' /\ SeatsOK'
    BY <2>1, <2>2, InsertType DEF ActiveStatuses, Sources
  <2>4. CreditOK' /\ UNCHANGED handler /\ sweep' \in SUBSET Ids
    BY <1>3 DEF ApproveException, CreditOK, ProcOK, procVars, creditVars
  <2>5. \A x \in Ids : status[x] # "none" => status'[x] # "none"
    BY <2>2, RowsStay DEF ActiveStatuses
  <2> QED BY <2>3, <2>4, <2>5, JobKeep
<1>4. ASSUME NEW h \in Handlers, NEW b \in Ids, RescheduleRead(h, b)
      PROVE  TypeOK'
  <2> DEFINE j == [op |-> "move", id |-> b]
  <2>1. j \in Jobs /\ j.id = b
    BY DEF Jobs
  <2>2. RowsOK' /\ SeatsOK' /\ CreditOK' /\ sweep' \in SUBSET Ids /\ UNCHANGED status
    BY <1>4 DEF RescheduleRead, rowVars, seatVars, creditVars, RowsOK, SeatsOK, CreditOK, ProcOK
  <2>3. status'[b] # "none" /\ handler' = [handler EXCEPT ![h] = j]
    BY <1>4, <2>2 DEF RescheduleRead, Active, ActiveStatuses
  <2>4. ProcOK'
    BY <2>1, <2>2, <2>3, JobSet
  <2> QED BY <2>2, <2>4
<1>5. ASSUME NEW h \in Handlers, NEW b \in Unused, NEW i \in Instances,
             RescheduleWrite(h, b, i)
      PROVE  TypeOK'
  <2> DEFINE old == handler[h].id
  <2>1. {b} \in SUBSET Ids /\ [x \in {b} |-> i] \in [{b} -> Instances]
    BY DEF Unused
  <2>0. status[old] # "none"
    BY <1>5 DEF RescheduleWrite, ProcOK
  <2>2. old \in Ids /\ client[old] \in Clients
    BY <1>5, <2>0, JobType DEF RescheduleWrite, ProcOK, RowsOK
  <2>3. Insert({b}, [x \in {b} |-> i], client[old], "pending", "chat", old)
    BY <1>5 DEF RescheduleWrite
  <2>4. RowsOK' /\ SeatsOK'
    BY <2>0, <2>1, <2>2, <2>3, InsertType DEF ActiveStatuses, Sources, Unused
  <2>5. CreditOK'
    BY <1>5, <2>1 DEF RescheduleWrite, CreditOK
  <2>6. \A x \in Ids : status[x] # "none" => status'[x] # "none"
    BY <2>3, RowsStay DEF ActiveStatuses
  <2>7. handler' = [handler EXCEPT ![h] = Idle] /\ sweep' \in SUBSET Ids
    BY <1>5 DEF RescheduleWrite, ProcOK
  <2>8. ProcOK'
    BY <2>6, <2>7, IdleJob, JobSet
  <2> QED BY <2>4, <2>5, <2>8
<1>6. ASSUME NEW h \in Handlers, NEW b \in Ids, NEW forfeit \in BOOLEAN,
             CancelRead(h, b, forfeit)
      PROVE  TypeOK'
  <2> DEFINE j == [op |-> "cancel", id |-> b, forfeit |-> forfeit]
  <2>1. j \in Jobs /\ j.id = b
    BY DEF Jobs
  <2>2. RowsOK' /\ SeatsOK' /\ CreditOK' /\ sweep' \in SUBSET Ids /\ UNCHANGED status
    BY <1>6 DEF CancelRead, rowVars, seatVars, creditVars, RowsOK, SeatsOK, CreditOK, ProcOK
  <2>3. status'[b] # "none" /\ handler' = [handler EXCEPT ![h] = j]
    BY <1>6, <2>2 DEF CancelRead, Active, ActiveStatuses
  <2>4. ProcOK'
    BY <2>1, <2>2, <2>3, JobSet
  <2> QED BY <2>2, <2>4
<1>7. ASSUME NEW h \in Handlers, CancelWrite(h)
      PROVE  TypeOK'
  <2> DEFINE B == {handler[h].id} \ {b \in Ids : status[b] = "deleted"}
  <2>1. B \in SUBSET Ids /\ \A b \in B : status[b] # "none"
    BY <1>7, JobType DEF CancelWrite, ProcOK
  <2>2. SetStatus(B, "cancelled") /\ OnlyStatus
    BY <1>7 DEF CancelWrite
  <2>3. RowsOK'
    BY <2>1, <2>2, StatusType DEF FinalStatuses
  <2>4. SeatsOK' /\ sweep' \in SUBSET Ids /\ handler' = [handler EXCEPT ![h] = Idle]
    BY <1>7 DEF CancelWrite, seatVars, SeatsOK, ProcOK
  <2>5. left' \in [Clients -> Sessions] /\ refunded' \in SUBSET (Ids \X {"credit", "lesson"})
    <3>1. CASE handler[h].forfeit
      BY <1>7, <3>1 DEF CancelWrite, CreditOK
    <3>2. CASE ~handler[h].forfeit
      BY <1>7, <2>1, <3>2, RestoreType DEF CancelWrite
    <3> QED BY <3>1, <3>2
  <2>6. CreditOK'
    BY <1>7, <2>5 DEF CancelWrite, CreditOK
  <2>7. ProcOK'
    BY <2>2, <2>4, RowsStay, IdleJob, JobSet DEF FinalStatuses
  <2> QED BY <2>3, <2>4, <2>6, <2>7
<1>8. ASSUME NEW b \in Ids, Approve(b)
      PROVE  TypeOK'
  <2>1. Superseded(b) \in SUBSET Ids /\ \A x \in Superseded(b) : status[x] # "none"
    BY DEF Superseded, RowsOK
  <2>2. /\ status' \in [Ids -> {"none"} \cup ActiveStatuses \cup FinalStatuses]
        /\ stale' \in SUBSET Ids
    BY <1>8 DEF Approve, RowsOK, ActiveStatuses, FinalStatuses
  <2>3. \A x \in Ids : status'[x] # "none" <=> status[x] # "none"
    BY <1>8, <2>1 DEF Approve, AwaitsOwner
  <2>4. RowsOK'
    BY <1>8, <2>2, <2>3 DEF Approve, OnlyStatus, RowsOK
  <2>5. SeatsOK' /\ CreditOK' /\ UNCHANGED handler /\ sweep' \in SUBSET Ids
    BY <1>8 DEF Approve, seatVars, creditVars, procVars, SeatsOK, CreditOK, ProcOK
  <2> QED BY <2>3, <2>4, <2>5, JobKeep
<1>9. ASSUME NEW b \in Ids, Reject(b)
      PROVE  TypeOK'
  <2>1. SetStatus({b}, "rejected") /\ OnlyStatus /\ status[b] # "none"
    BY <1>9 DEF Reject, AwaitsOwner
  <2>2. RowsOK'
    BY <2>1, StatusType DEF FinalStatuses
  <2>3. SeatsOK'
    BY <1>9, ReleaseType DEF Reject, SeatsOK
  <2>4. left' \in [Clients -> Sessions] /\ refunded' \in SUBSET (Ids \X {"credit", "lesson"})
    BY <1>9, RestoreType, {x \in {b} : from[x] = None} \in SUBSET Ids DEF Reject
  <2>5. CreditOK' /\ UNCHANGED handler /\ sweep' \in SUBSET Ids
    BY <1>9, <2>4 DEF Reject, CreditOK, ProcOK, procVars
  <2> QED BY <2>1, <2>2, <2>3, <2>5, RowsStay, JobKeep DEF FinalStatuses
<1>10. ASSUME NEW b \in Ids, Age(b)
       PROVE  TypeOK'
  BY <1>10 DEF Age, seatVars, creditVars, procVars, RowsOK, SeatsOK, CreditOK, ProcOK
<1>11. ASSUME SweepExpire \/ AvailabilityExpire
       PROVE  TypeOK'
  <2>1. Overdue \in SUBSET Ids /\ \A b \in Overdue : status[b] # "none"
    BY DEF Overdue, RowsOK
  <2>2. SetStatus(Overdue, "expired") /\ OnlyStatus
    BY <1>11 DEF SweepExpire, AvailabilityExpire
  <2>3. RowsOK'
    BY <2>1, <2>2, StatusType DEF FinalStatuses
  <2>4. SeatsOK' /\ CreditOK' /\ UNCHANGED handler /\ sweep' \in SUBSET Ids
    BY <1>11, <2>1 DEF SweepExpire, AvailabilityExpire, seatVars, creditVars, procVars,
                       SeatsOK, CreditOK, ProcOK
  <2> QED BY <2>2, <2>3, <2>4, RowsStay, JobKeep DEF FinalStatuses
<1>12. ASSUME NEW b \in Ids, SweepRelease(b)
       PROVE  TypeOK'
  <2>1. RowsOK' /\ UNCHANGED <<status, handler>> /\ sweep' \in SUBSET Ids
    BY <1>12 DEF SweepRelease, rowVars, RowsOK, ProcOK
  <2>2. SeatsOK'
    BY <1>12, ReleaseType DEF SweepRelease, SeatsOK
  <2>3. left' \in [Clients -> Sessions] /\ refunded' \in SUBSET (Ids \X {"credit", "lesson"})
    BY <1>12, RestoreType DEF SweepRelease
  <2>4. CreditOK'
    BY <1>12, <2>3 DEF SweepRelease, CreditOK
  <2> QED BY <2>1, <2>2, <2>4, JobKeep
<1>13. ASSUME (\E b \in Ids : SweepReleaseFails(b)) \/ SweepSkips
       PROVE  TypeOK'
  BY <1>13 DEF SweepReleaseFails, SweepSkips, rowVars, seatVars, creditVars,
               RowsOK, SeatsOK, CreditOK, ProcOK
<1>14. ASSUME NEW i \in Instances, CancelClass(i)
       PROVE  TypeOK'
  <2>1. Cascade(i) \in SUBSET Ids /\ \A b \in Cascade(i) : status[b] # "none"
    BY DEF Cascade, ActiveOn, Active, ActiveStatuses
  <2>2. SetStatus(Cascade(i), "cancelled") /\ OnlyStatus
    BY <1>14 DEF CancelClass
  <2>3. RowsOK'
    BY <2>1, <2>2, StatusType DEF FinalStatuses
  <2>4. SeatsOK'
    BY <1>14, <2>1, ReleaseType DEF CancelClass, SeatsOK
  <2>5. left' \in [Clients -> Sessions] /\ refunded' \in SUBSET (Ids \X {"credit", "lesson"})
    BY <1>14, <2>1, RestoreType DEF CancelClass
  <2>6. CreditOK' /\ UNCHANGED handler /\ sweep' \in SUBSET Ids
    BY <1>14, <2>5 DEF CancelClass, CreditOK, ProcOK, procVars
  <2> QED BY <2>2, <2>3, <2>4, <2>6, RowsStay, JobKeep DEF FinalStatuses
<1>15. ASSUME NEW n \in 1..MaxCapacity, SetCapacity(n)
       PROVE  TypeOK'
  BY <1>15 DEF SetCapacity, rowVars, creditVars, procVars, RowsOK, SeatsOK, CreditOK, ProcOK
<1>16. ASSUME NEW h \in Handlers, NEW c \in Clients, NEW p \in Packs, RenewRead(h, c, p)
       PROVE  TypeOK'
  <2> DEFINE j == [op |-> "renew", client |-> c, pack |-> p,
                   unbilled |-> IF p = Unlimited THEN {} ELSE Unbilled(c)]
  <2>1. j \in Jobs /\ j.op \notin {"cancel", "move"}
    BY DEF Jobs, Unbilled
  <2>2. RowsOK' /\ SeatsOK' /\ CreditOK' /\ sweep' \in SUBSET Ids /\ UNCHANGED status
    BY <1>16 DEF RenewRead, rowVars, seatVars, creditVars, RowsOK, SeatsOK, CreditOK, ProcOK
  <2>3. handler' = [handler EXCEPT ![h] = j]
    BY <1>16 DEF RenewRead
  <2> HIDE DEF j
  <2>4. ProcOK'
    BY <2>1, <2>2, <2>3, JobSet
  <2> QED BY <2>2, <2>4
<1>17. ASSUME NEW h \in Handlers, RenewWrite(h)
       PROVE  TypeOK'
  <2> DEFINE job == handler[h]
  <2>1. job.client \in Clients /\ job.pack \in Sessions /\ job.unbilled \in SUBSET Ids
    BY <1>17, JobType, PackAssumption DEF RenewWrite, ProcOK, Sessions
  <2>2. job.pack # Unlimited => Minus(job.pack, Cardinality(job.unbilled)) \in Nat
    BY <2>1, BookingsFinite, MinusType DEF Sessions
  <2>3. CreditOK'
    BY <1>17, <2>1, <2>2 DEF RenewWrite, CreditOK, Sessions
  <2>4. RowsOK' /\ SeatsOK' /\ UNCHANGED status /\ sweep' \in SUBSET Ids
    BY <1>17 DEF RenewWrite, rowVars, seatVars, RowsOK, SeatsOK, ProcOK
  <2>5. handler' = [handler EXCEPT ![h] = Idle]
    BY <1>17 DEF RenewWrite
  <2>6. ProcOK'
    BY <2>4, <2>5, IdleJob, JobSet
  <2> QED BY <2>3, <2>4, <2>6
<1>18. ASSUME NEW c \in Clients, MembershipExpires(c)
       PROVE  TypeOK'
  BY <1>18 DEF MembershipExpires, rowVars, seatVars, procVars, RowsOK, SeatsOK, CreditOK, ProcOK
<1>19. ASSUME NEW c \in Clients, DeleteClient(c)
       PROVE  TypeOK'
  <2> DEFINE B == {b \in Ids : client[b] = c}
  <2>1. \A b \in B : status[b] # "none"
    BY PlaceAssumption DEF RowsOK
  <2>2. SetStatus(B, "deleted") /\ OnlyStatus
    BY <1>19 DEF DeleteClient
  <2>3. RowsOK'
    BY <2>1, <2>2, StatusType DEF FinalStatuses
  <2>4. SeatsOK' /\ CreditOK' /\ UNCHANGED handler /\ sweep' \in SUBSET Ids
    BY <1>19 DEF DeleteClient, seatVars, procVars, SeatsOK, CreditOK, ProcOK, Sessions
  <2> QED BY <2>2, <2>3, <2>4, RowsStay, JobKeep DEF FinalStatuses
<1>20. ASSUME NEW h \in Handlers, HandlerAborts(h)
       PROVE  TypeOK'
  <2>1. RowsOK' /\ SeatsOK' /\ CreditOK' /\ sweep' \in SUBSET Ids /\ UNCHANGED status
    BY <1>20 DEF HandlerAborts, rowVars, seatVars, creditVars, RowsOK, SeatsOK, CreditOK, ProcOK
  <2>2. handler' = [handler EXCEPT ![h] = Idle]
    BY <1>20 DEF HandlerAborts
  <2>3. ProcOK'
    BY <2>1, <2>2, IdleJob, JobSet
  <2> QED BY <2>1, <2>3
<1>21. CASE Crash
  BY <1>21, IdleJob, CapacityAssumption
  DEF Crash, rowVars, creditVars, RowsOK, SeatsOK, CreditOK, ProcOK
<1>22. ASSUME NEW i \in Instances, LockClass(i) \/ UnlockClass(i)
       PROVE  TypeOK'
  <2>1. RowsOK' /\ CreditOK' /\ ProcOK'
    BY <1>22 DEF LockClass, UnlockClass, rowVars, creditVars, procVars, RowsOK, CreditOK, ProcOK
  <2>2. SeatsOK'
    BY <1>22, CapacityAssumption DEF LockClass, UnlockClass, SeatsOK
  <2> QED BY <2>1, <2>2
<1>23. CASE UNCHANGED vars
  BY <1>23 DEF vars, rowVars, seatVars, creditVars, procVars, RowsOK, SeatsOK, CreditOK, ProcOK
<1> QED
  BY <1>1, <1>2, <1>3, <1>4, <1>5, <1>6, <1>7, <1>8, <1>9, <1>10, <1>11, <1>12, <1>13, <1>14,
     <1>15, <1>16, <1>17, <1>18, <1>19, <1>20, <1>21, <1>22, <1>23
  DEF Next, Locks, ClientBooks, OwnerBooks, Reschedules, ClientCancels, OwnerAnswers, Expires,
      OwnerRunsClass, Renews, PackChanges, Fails

\* The tables and the process memory hold what they are declared to hold,
\* whatever the handlers, the poller and the crashes do.
THEOREM TypeCorrect == Spec => []TypeOK
<1>1. Init => TypeOK
  BY InitType
<1>2. TypeOK /\ [Next]_vars => TypeOK'
  BY NextType
<1> QED BY <1>1, <1>2, PTL DEF Spec

-----------------------------------------------------------------------------
(* The kinds of steps *)

\* No booking is made or comes back to life, and one that is confirmed has
\* replaced the booking it was to replace.
NoNewSeat ==
    /\ UNCHANGED <<client, inst, from>>
    /\ \A b \in Ids : Active(b)' => Active(b)
    /\ \A b \in Ids : status[b] \in FinalStatuses => status'[b] \in FinalStatuses
    /\ \A b \in Ids : status'[b] = "confirmed" /\ status[b] # "confirmed" /\ from[b] # None
                       => ~Active(from[b])'

\* Bookings are made for one client, in different classes that are locked,
\* and in which the client has no seat.
Seated(c, B, at, st, v, f) ==
    /\ B \in SUBSET Unused
    /\ at \in Places(B)
    /\ \A b \in B : Bookable(c, at[b], v)
    /\ Insert(B, at, c, st, v, f)
    /\ st \in ActiveStatuses /\ (st = "confirmed" => f = None)
    /\ UNCHANGED <<sweep, refunded>>

NewSeat == \E c \in Clients, v \in Sources, f \in Ids \cup {None} :
              \E B, at, st : Seated(c, B, at, st, v, f)

\* Credits are returned only for bookings that are over.
RefundsFinal == \A r \in refunded' \ refunded : status'[r[1]] \in FinalStatuses

\* Nothing is counted or uncounted either, and the poller gets no new rows.
Quiet == /\ NoNewSeat /\ RefundsFinal
         /\ UNCHANGED seatVars
         /\ sweep' \subseteq sweep

\* The steps that release seats or change the class.
Releases == \/ \E b \in Ids : Reject(b) \/ SweepRelease(b)
            \/ \E i \in Instances : CancelClass(i)
Others   == SweepExpire \/ Crash \/ Locks \/ \E n \in 1..MaxCapacity : SetCapacity(n)

\* One class is one place.
LEMMA OnePlace ==
    ASSUME NEW b \in Ids, NEW i \in Instances
    PROVE  [x \in {b} |-> i] \in Places({b})
BY DEF Places

\* A terminal status, wherever it is written, makes no seat.
LEMMA StatusMakesNoSeat ==
    ASSUME NEW B, NEW st \in FinalStatuses, SetStatus(B, st), OnlyStatus
    PROVE  NoNewSeat
BY DEF SetStatus, OnlyStatus, NoNewSeat, Active, ActiveStatuses, FinalStatuses

\* Neither does a step that leaves the rows alone.
LEMMA RowsKeptMakeNoSeat ==
    ASSUME UNCHANGED <<status, client, inst, from>>
    PROVE  NoNewSeat
BY DEF NoNewSeat, Active

\* A credit returned for bookings whose status becomes terminal.
LEMMA RefundsFollow ==
    ASSUME NEW B \in SUBSET Ids, NEW S \in SUBSET B, NEW st \in FinalStatuses, NEW key,
           SetStatus(B, st), RestoreCredit(S, key)
    PROVE  RefundsFinal
<1>1. \A r \in refunded' \ refunded : r[1] \in B
  BY DEF RestoreCredit
<1> QED BY <1>1 DEF SetStatus, RefundsFinal

\* Every step is of one of these kinds.
LEMMA StepKinds ==
    ASSUME TypeOK, [Next]_vars
    PROVE  Quiet \/ NewSeat \/ Releases \/ Others
<1>1. ASSUME NEW c \in Clients, NEW B \in SUBSET Unused, NEW at \in Places(B),
             NEW v \in {"chat", "menu"}, BookByClient(c, B, at, v)
      PROVE  NewSeat
  <2>1. Seated(c, B, at, "pending", v, None)
    BY <1>1 DEF BookByClient, Seated, ActiveStatuses, procVars
  <2> QED BY <2>1 DEF NewSeat, Sources
<1>2. ASSUME NEW c \in Clients, NEW b \in Unused, NEW i \in Instances,
             AssignByOwner(c, b, i)
      PROVE  NewSeat
  <2>1. {b} \in SUBSET Unused /\ [x \in {b} |-> i] \in Places({b})
    BY OnePlace DEF Unused
  <2>2. Seated(c, {b}, [x \in {b} |-> i], "confirmed", "assign", None)
    BY <1>2, <2>1 DEF AssignByOwner, Seated, ActiveStatuses, procVars
  <2> QED BY <2>2 DEF NewSeat, Sources
<1>3. ASSUME NEW c \in Clients, NEW b \in Unused, NEW i \in Instances,
             ApproveException(c, b, i)
      PROVE  NewSeat
  <2>1. {b} \in SUBSET Unused /\ [x \in {b} |-> i] \in Places({b})
    BY OnePlace DEF Unused
  <2>2. Seated(c, {b}, [x \in {b} |-> i], "confirmed", "exception", None)
    BY <1>3, <2>1 DEF ApproveException, Seated, ActiveStatuses, procVars, creditVars
  <2> QED BY <2>2 DEF NewSeat, Sources
<1>4. ASSUME NEW h \in Handlers, NEW b \in Unused, NEW i \in Instances,
             RescheduleWrite(h, b, i)
      PROVE  NewSeat
  <2> DEFINE old == handler[h].id
  <2>1. {b} \in SUBSET Unused /\ [x \in {b} |-> i] \in Places({b})
    BY OnePlace DEF Unused
  <2>2. old \in Ids /\ client[old] \in Clients
    BY <1>4, JobType DEF RescheduleWrite, TypeOK, ProcOK, RowsOK
  <2>3. Seated(client[old], {b}, [x \in {b} |-> i], "pending", "chat", old)
    BY <1>4, <2>1 DEF RescheduleWrite, Seated, ActiveStatuses
  <2> QED BY <2>2, <2>3 DEF NewSeat, Sources
<1>5. ASSUME NEW b \in Ids, Approve(b)
      PROVE  Quiet
  <2>1. /\ UNCHANGED <<client, inst, from, refunded, sweep, seatVars>>
        /\ \A x \in Ids : Active(x)' => Active(x)
        /\ \A x \in Ids : status[x] \in FinalStatuses => status'[x] \in FinalStatuses
    BY <1>5 DEF Approve, AwaitsOwner, OnlyStatus, Active, ActiveStatuses, FinalStatuses, procVars,
                creditVars
  <2>2. ASSUME NEW x \in Ids, status'[x] = "confirmed", status[x] # "confirmed", from[x] # None
        PROVE  ~Active(from[x])'
    <3>1. x = b
      BY <1>5, <2>2 DEF Approve
    <3>2. from[x] \in Ids /\ from[x] # b
      BY <2>2, <3>1 DEF TypeOK, RowsOK
    <3>3. CASE from[x] \in Superseded(b)
      BY <1>5, <3>2, <3>3 DEF Approve, OnlyStatus, Active, ActiveStatuses
    <3>4. CASE from[x] \notin Superseded(b)
      <4>1. status[from[x]] = "deleted"
        BY <2>2, <3>1, <3>4 DEF Superseded
      <4> QED BY <1>5, <3>2, <3>4, <4>1 DEF Approve, OnlyStatus, Active, ActiveStatuses
    <3> QED BY <3>3, <3>4
  <2> QED BY <2>1, <2>2 DEF Quiet, NoNewSeat, RefundsFinal
<1>6. ASSUME NEW h \in Handlers, CancelWrite(h)
      PROVE  Quiet
  <2> DEFINE B == {handler[h].id} \ {b \in Ids : status[b] = "deleted"}
  <2>1. B \in SUBSET Ids /\ SetStatus(B, "cancelled") /\ OnlyStatus
    BY <1>6, JobType DEF CancelWrite, TypeOK, ProcOK
  <2>2. RefundsFinal
    <3>1. CASE handler[h].forfeit
      BY <1>6, <3>1 DEF CancelWrite, RefundsFinal
    <3>2. CASE ~handler[h].forfeit
      BY <1>6, <2>1, <3>2, RefundsFollow DEF CancelWrite, FinalStatuses
    <3> QED BY <3>1, <3>2
  <2> QED BY <1>6, <2>1, <2>2, StatusMakesNoSeat DEF CancelWrite, Quiet, FinalStatuses
<1>7. ASSUME AvailabilityExpire
      PROVE  Quiet
  BY <1>7, StatusMakesNoSeat
     DEF AvailabilityExpire, Quiet, FinalStatuses, procVars, creditVars, RefundsFinal
<1>8. ASSUME NEW c \in Clients, DeleteClient(c)
      PROVE  Quiet
  BY <1>8, StatusMakesNoSeat DEF DeleteClient, Quiet, FinalStatuses, procVars, RefundsFinal
<1>9. ASSUME \/ \E h \in Handlers, b \in Ids :
                   \/ RescheduleRead(h, b)
                   \/ \E forfeit \in BOOLEAN : CancelRead(h, b, forfeit)
             \/ \E h \in Handlers, c \in Clients, p \in Packs : RenewRead(h, c, p)
             \/ \E h \in Handlers : RenewWrite(h) \/ HandlerAborts(h)
      PROVE  Quiet
  <2>1. UNCHANGED <<rowVars, seatVars, refunded>> /\ sweep' \subseteq sweep
    BY <1>9 DEF RescheduleRead, CancelRead, RenewRead, RenewWrite, HandlerAborts, creditVars
  <2> QED BY <2>1, RowsKeptMakeNoSeat DEF rowVars, Quiet, RefundsFinal
<1>10. ASSUME \/ \E b \in Ids : Age(b) \/ SweepReleaseFails(b)
              \/ SweepSkips
              \/ \E c \in Clients : MembershipExpires(c)
              \/ UNCHANGED vars
       PROVE  Quiet
  <2>1. UNCHANGED <<status, client, inst, from, seatVars, refunded>> /\ sweep' \subseteq sweep
    BY <1>10 DEF Age, SweepReleaseFails, SweepSkips, MembershipExpires, rowVars, creditVars,
                 procVars, vars
  <2> QED BY <2>1, RowsKeptMakeNoSeat DEF Quiet, RefundsFinal
<1> QED
  BY <1>1, <1>2, <1>3, <1>4, <1>5, <1>6, <1>7, <1>8, <1>9, <1>10
  DEF Next, ClientBooks, OwnerBooks, Reschedules, ClientCancels, OwnerAnswers, Expires,
      OwnerRunsClass, Renews, PackChanges, Fails, Releases, Others

\* Only an insert makes a seat.
LEMMA SeatsAreInserted ==
    ASSUME Quiet \/ Releases \/ Others
    PROVE  NoNewSeat
BY StatusMakesNoSeat, RowsKeptMakeNoSeat
   DEF Quiet, Releases, Others, Reject, SweepRelease, CancelClass, SweepExpire, SetCapacity,
       Crash, Locks, LockClass, UnlockClass, FinalStatuses, rowVars

-----------------------------------------------------------------------------
(* Bookings that are over stay over *)

\* A cancelled, rejected, expired or erased booking never becomes active
\* again: no late tap of the owner, no job that resumes.
THEOREM OutcomeHolds == Spec => OutcomeIsFinal
<1>1. ASSUME TypeOK, [Next]_vars
      PROVE  [\A b \in Ids : status[b] \in FinalStatuses => status'[b] \in FinalStatuses]_vars
  <2>1. CASE NoNewSeat
    BY <2>1 DEF NoNewSeat
  <2>2. CASE NewSeat
    BY <2>2 DEF NewSeat, Seated, Insert, Unused, FinalStatuses
  <2> QED BY <1>1, <2>1, <2>2, StepKinds, SeatsAreInserted
<1> QED BY <1>1, TypeCorrect, PTL DEF Spec, OutcomeIsFinal

-----------------------------------------------------------------------------
(* The lock on a class *)

\* While a booking has the lock, the class stays open, and the count below
\* the capacity that was read under the lock.
QuotesHold == \A i \in Instances : ~Unlocked(i) => i \notin closed /\ bookedCount[i] < quoted[i]

\* A release only lowers a count.
LEMMA ReleaseLowers ==
    ASSUME TypeOK, NEW B \in SUBSET Ids, Release(B), NEW i \in Instances
    PROVE  bookedCount'[i] <= bookedCount[i] /\ bookedCount'[i] \in Nat
<1>1. {b \in B : inst[b] = i} \in SUBSET Ids /\ bookedCount[i] \in Nat
  BY DEF TypeOK, SeatsOK
<1>2. bookedCount'[i] = Minus(bookedCount[i], Cardinality({b \in B : inst[b] = i}))
  BY DEF Release
<1> QED BY <1>1, <1>2, BookingsFinite, MinusType

LEMMA QuotesNext ==
    ASSUME TypeOK, QuotesHold, [Next]_vars
    PROVE  QuotesHold'
<1> SUFFICES ASSUME NEW i \in Instances, ~Unlocked(i)'
             PROVE  i \notin closed' /\ bookedCount'[i] < quoted'[i]
  BY DEF QuotesHold
<1>0. /\ bookedCount[i] \in Nat /\ quoted[i] \in Nat
      /\ ~Unlocked(i) => i \notin closed /\ bookedCount[i] < quoted[i]
  BY CapacityAssumption DEF TypeOK, SeatsOK, QuotesHold
<1>1. CASE UNCHANGED <<quoted, closed>> /\ bookedCount'[i] \in Nat /\ bookedCount'[i] <= bookedCount[i]
  BY <1>0, <1>1 DEF Unlocked
<1>2. CASE Quiet
  BY <1>0, <1>1, <1>2 DEF Quiet, seatVars
<1>3. CASE NewSeat
  BY <1>0, <1>3 DEF NewSeat, Seated, Insert, Unlocked
<1>4. ASSUME NEW b \in Ids, Reject(b) \/ SweepRelease(b)
      PROVE  i \notin closed' /\ bookedCount'[i] < quoted'[i]
  <2>1. Release({b}) /\ UNCHANGED <<quoted, closed>>
    BY <1>4 DEF Reject, SweepRelease
  <2> QED BY <1>1, <2>1, ReleaseLowers
<1>5. ASSUME NEW j \in Instances, CancelClass(j)
      PROVE  i \notin closed' /\ bookedCount'[i] < quoted'[i]
  <2>1. Release(Cascade(j)) /\ Unlocked(j) /\ UNCHANGED quoted /\ closed' = closed \cup {j}
    BY <1>5 DEF CancelClass
  <2>2. bookedCount'[i] <= bookedCount[i] /\ bookedCount'[i] \in Nat
    BY <2>1, ReleaseLowers DEF Cascade, ActiveOn
  <2> QED BY <1>0, <2>1, <2>2 DEF Unlocked
<1>6. CASE SweepExpire \/ \E n \in 1..MaxCapacity : SetCapacity(n)
  BY <1>0, <1>1, <1>6 DEF SweepExpire, SetCapacity, seatVars
<1>7. CASE Crash
  BY <1>7 DEF Crash, Unlocked
<1>8. ASSUME NEW j \in Instances, LockClass(j) \/ UnlockClass(j)
      PROVE  i \notin closed' /\ bookedCount'[i] < quoted'[i]
  BY <1>0, <1>8 DEF LockClass, UnlockClass, Unlocked, Room, TypeOK, SeatsOK
<1> QED BY <1>2, <1>3, <1>4, <1>5, <1>6, <1>7, <1>8, StepKinds DEF Releases, Others, Locks

LEMMA QuotesHolds == Spec => []QuotesHold
<1>1. Init => QuotesHold
  BY DEF Init, QuotesHold, Unlocked
<1>2. TypeOK /\ QuotesHold /\ [Next]_vars => QuotesHold'
  BY QuotesNext
<1> QED BY <1>1, <1>2, TypeCorrect, PTL DEF Spec

-----------------------------------------------------------------------------
(* Classes that are called off *)

\* Nobody holds a seat in a class that was called off, however a request,
\* an approval or a reschedule raced with the cancellation.
THEOREM ClosedHolds == Spec => []ClosedClassEmpty
<1>1. Init => ClosedClassEmpty
  BY DEF Init, ClosedClassEmpty
<1>2. ASSUME TypeOK, QuotesHold, ClosedClassEmpty, [Next]_vars
      PROVE  ClosedClassEmpty'
  <2>1. ASSUME NEW i \in Instances, CancelClass(i)
        PROVE  ClosedClassEmpty'
    BY <1>2, <2>1 DEF CancelClass, Cascade, SetStatus, OnlyStatus, ClosedClassEmpty, ActiveOn,
                      Active, ActiveStatuses
  <2>2. CASE NoNewSeat /\ UNCHANGED closed
    BY <1>2, <2>2 DEF NoNewSeat, ClosedClassEmpty, ActiveOn
  <2>3. CASE NewSeat
    BY <1>2, <2>3 DEF NewSeat, Seated, Insert, Bookable, Places, Unused, ClosedClassEmpty, ActiveOn,
                      Active, ActiveStatuses, QuotesHold
  <2>4. CASE Quiet \/ Others \/ \E b \in Ids : Reject(b) \/ SweepRelease(b)
    <3>1. NoNewSeat
      BY <2>4, SeatsAreInserted DEF Releases
    <3>2. UNCHANGED closed
      BY <2>4 DEF Quiet, Others, Reject, SweepRelease, SweepExpire, SetCapacity, seatVars,
                  Crash, Locks, LockClass, UnlockClass
    <3> QED BY <2>2, <3>1, <3>2
  <2> QED BY <1>2, <2>1, <2>3, <2>4, StepKinds DEF Releases
<1> QED BY <1>1, <1>2, TypeCorrect, QuotesHolds, PTL DEF Spec

-----------------------------------------------------------------------------
(* Seats *)

\* The rows the poller has yet to release are terminal.
LEMMA SweptHolds == Spec => []SweptAreFinal
<1>1. Init => SweptAreFinal
  BY DEF Init, SweptAreFinal
<1>2. ASSUME TypeOK, SweptAreFinal, [Next]_vars
      PROVE  SweptAreFinal'
  <2>1. CASE SweepExpire
    BY <1>2, <2>1 DEF SweepExpire, SetStatus, Overdue, SweptAreFinal, FinalStatuses,
                      TypeOK, RowsOK, ProcOK
  <2>2. CASE NoNewSeat /\ sweep' \subseteq sweep
    BY <1>2, <2>2 DEF NoNewSeat, SweptAreFinal, TypeOK, ProcOK
  <2>3. CASE NewSeat
    BY <1>2, <2>3 DEF NewSeat, Seated, Insert, Unused, SweptAreFinal, FinalStatuses, TypeOK, ProcOK
  <2>4. CASE Quiet \/ Releases \/ Crash \/ Locks \/ \E n \in 1..MaxCapacity : SetCapacity(n)
    <3>1. NoNewSeat
      BY <2>4, SeatsAreInserted DEF Others
    <3>2. sweep' \subseteq sweep
      BY <2>4 DEF Quiet, Releases, Reject, SweepRelease, CancelClass, SetCapacity, procVars,
                  Crash, Locks, LockClass, UnlockClass
    <3> QED BY <2>2, <3>1, <3>2
  <2> QED BY <1>2, <2>1, <2>3, <2>4, StepKinds DEF Others
<1> QED BY <1>1, <1>2, TypeCorrect, PTL DEF Spec

\* The sets of a class's bookings.
LEMMA HeldBookings ==
    ASSUME TypeOK, NEW i \in Instances
    PROVE  /\ ActiveOn(i) \in SUBSET Ids /\ SweepOn(i) \in SUBSET Ids
           /\ Held(i) \in SUBSET Ids /\ bookedCount[i] \in Nat
BY DEF TypeOK, ProcOK, SeatsOK, ActiveOn, SweepOn, Held

\* Fewer bookings, a smaller number.
LEMMA Fewer ==
    ASSUME NEW S \in SUBSET Ids, NEW T \in SUBSET S
    PROVE  Cardinality(T) <= Cardinality(S)
BY BookingsFinite, FS_Subset

\* A release that follows its bookings out of the seats keeps them covered.
LEMMA ReleaseCovers ==
    ASSUME TypeOK, NEW i \in Instances, Cardinality(Held(i)) <= bookedCount[i],
           NEW B \in SUBSET Ids, Release(B),
           {b \in B : inst[b] = i} \subseteq Held(i),
           Held(i)' \subseteq Held(i) \ {b \in B : inst[b] = i}
    PROVE  Cardinality(Held(i)') <= bookedCount'[i]
<1> DEFINE K == {b \in B : inst[b] = i}
<1>1. Held(i) \in SUBSET Ids /\ bookedCount[i] \in Nat /\ K \in SUBSET Ids
  BY HeldBookings
<1>2. Cardinality(Held(i) \ K) = Cardinality(Held(i)) - Cardinality(K)
  <2>1. Held(i) \cap K = K
    OBVIOUS
  <2> QED BY <1>1, <2>1, BookingsFinite, FS_Difference
<1>3. Cardinality(Held(i)') <= Cardinality(Held(i) \ K)
  <2>1. Held(i) \ K \in SUBSET Ids
    BY <1>1
  <2> QED BY <2>1, Fewer
<1>4. bookedCount'[i] = Minus(bookedCount[i], Cardinality(K))
  BY DEF Release
<1>5. Cardinality(K) \in Nat /\ Cardinality(Held(i)) \in Nat
  BY <1>1, BookingsFinite
<1>6. Cardinality(Held(i)') \in Nat
  <2>1. Held(i)' \in SUBSET Ids
    BY <1>1
  <2> QED BY <2>1, BookingsFinite
<1>7. bookedCount[i] - Cardinality(K) <= Minus(bookedCount[i], Cardinality(K))
  BY <1>1, <1>5, MinusType
<1>8. Minus(bookedCount[i], Cardinality(K)) \in Nat
  BY <1>1, <1>5, MinusType
<1> HIDE DEF K
<1> QED BY <1>1, <1>2, <1>3, <1>4, <1>5, <1>6, <1>7, <1>8

\* A class in which nothing is made, and none of whose seats is released, is
\* as covered as it was.
LEMMA QuietCovers ==
    ASSUME TypeOK, NEW i \in Instances, Cardinality(Held(i)) <= bookedCount[i],
           Held(i)' \subseteq Held(i), bookedCount'[i] = bookedCount[i]
    PROVE  Cardinality(Held(i)') <= bookedCount'[i]
<1>1. Held(i) \in SUBSET Ids /\ bookedCount[i] \in Nat
  BY HeldBookings
<1>2. /\ Cardinality(Held(i)') <= Cardinality(Held(i))
      /\ Cardinality(Held(i)') \in Nat /\ Cardinality(Held(i)) \in Nat
  BY <1>1, Fewer, BookingsFinite
<1> QED BY <1>1, <1>2

\* Without an insert, and without new rows for the poller, a class holds no
\* booking it did not hold.
LEMMA HeldShrinks ==
    ASSUME TypeOK, NoNewSeat, sweep' \subseteq sweep, NEW i \in Instances
    PROVE  ActiveOn(i)' \subseteq ActiveOn(i) /\ Held(i)' \subseteq Held(i)
BY DEF NoNewSeat, ActiveOn, SweepOn, Held, TypeOK, ProcOK

\* An insert adds at most one booking to a class, and only where the count is
\* below the capacity that was read, and the client had no seat.
LEMMA InsertAddsOne ==
    ASSUME TypeOK, SweptAreFinal, QuotesHold, NEW i \in Instances,
           NEW c, NEW B, NEW at, NEW st, NEW v, NEW f, Seated(c, B, at, st, v, f)
    PROVE  \/ /\ ActiveOn(i)' = ActiveOn(i) /\ Held(i)' = Held(i)
              /\ \A x \in B : at[x] # i
              /\ bookedCount'[i] = bookedCount[i]
           \/ \E b \in B : /\ at[b] = i /\ b \notin Held(i)
                           /\ ActiveOn(i)' = ActiveOn(i) \cup {b}
                           /\ Held(i)' = Held(i) \cup {b}
                           /\ bookedCount'[i] = bookedCount[i] + 1
                           /\ bookedCount[i] < quoted[i]
<1>1. B \in SUBSET Ids /\ \A b \in B : status[b] = "none"
  BY DEF Seated, Unused
<1>2. \A b \in B : b \notin sweep /\ ~Active(b)
  BY <1>1 DEF SweptAreFinal, FinalStatuses, Active, ActiveStatuses
<1>3. SweepOn(i)' = SweepOn(i)
  BY <1>2 DEF SweepOn, Seated, Insert, TypeOK, ProcOK
<1>4. \A b \in Ids \ B : b \in ActiveOn(i)' <=> b \in ActiveOn(i)
  BY DEF ActiveOn, Active, Seated, Insert
<1>5. \A b \in B : b \in ActiveOn(i)' <=> at[b] = i
  BY <1>1 DEF ActiveOn, Active, Seated, Insert
<1>6. ActiveOn(i) \subseteq Ids /\ ActiveOn(i)' \subseteq Ids
  BY DEF ActiveOn
<1>7. CASE \A x \in B : at[x] # i
  <2>1. ActiveOn(i)' = ActiveOn(i)
    BY <1>2, <1>4, <1>5, <1>6, <1>7 DEF ActiveOn
  <2>2. bookedCount'[i] = bookedCount[i]
    BY <1>7 DEF Seated, Insert
  <2> QED BY <1>3, <1>7, <2>1, <2>2 DEF Held
<1>8. ASSUME NEW b \in B, at[b] = i
      PROVE  /\ b \notin Held(i)
             /\ ActiveOn(i)' = ActiveOn(i) \cup {b}
             /\ Held(i)' = Held(i) \cup {b}
             /\ bookedCount'[i] = bookedCount[i] + 1
             /\ bookedCount[i] < quoted[i]
  <2>1. \A x \in B : at[x] = i => x = b
    BY <1>8 DEF Seated, Places
  <2>2. ActiveOn(i)' = ActiveOn(i) \cup {b}
    BY <1>1, <1>2, <1>4, <1>5, <1>6, <1>8, <2>1 DEF ActiveOn
  <2>3. b \notin Held(i)
    BY <1>2 DEF Held, ActiveOn, SweepOn
  <2>4. bookedCount'[i] = bookedCount[i] + 1 /\ bookedCount[i] < quoted[i]
    BY <1>8 DEF Seated, Insert, Bookable, QuotesHold
  <2> QED BY <1>3, <2>2, <2>3, <2>4 DEF Held
<1> QED BY <1>7, <1>8

\* The count covers the seats after every step.
LEMMA CoveredNext ==
    ASSUME TypeOK, SweptAreFinal, QuotesHold, SeatsCovered, [Next]_vars
    PROVE  SeatsCovered'
<1> SUFFICES ASSUME NEW i \in Instances
             PROVE  Cardinality(Held(i)') <= bookedCount'[i]
  BY DEF SeatsCovered
<1>0. Cardinality(Held(i)) <= bookedCount[i]
  BY DEF SeatsCovered
<1>1. CASE Quiet
  BY <1>0, <1>1, HeldShrinks, QuietCovers DEF Quiet, seatVars
<1>2. CASE NewSeat
  <2>1. PICK c, B, at, st, v, f : Seated(c, B, at, st, v, f)
    BY <1>2 DEF NewSeat
  <2>2. CASE Held(i)' = Held(i) /\ bookedCount'[i] = bookedCount[i]
    BY <1>0, <2>2
  <2>3. ASSUME NEW b, Held(i)' = Held(i) \cup {b}, bookedCount'[i] = bookedCount[i] + 1,
               b \notin Held(i)
        PROVE  Cardinality(Held(i)') <= bookedCount'[i]
    <3>1. Held(i) \in SUBSET Ids /\ bookedCount[i] \in Nat
      BY HeldBookings
    <3>2. IsFiniteSet(Held(i)) /\ Cardinality(Held(i)) \in Nat
      BY <3>1, BookingsFinite
    <3>3. Cardinality(Held(i)') = Cardinality(Held(i)) + 1
      BY <2>3, <3>2, FS_AddElement
    <3> QED BY <1>0, <2>3, <3>1, <3>2, <3>3
  <2> QED BY <2>1, <2>2, <2>3, InsertAddsOne
<1>3. ASSUME NEW b \in Ids, Reject(b)
      PROVE  Cardinality(Held(i)') <= bookedCount'[i]
  <2>1. Release({b}) /\ UNCHANGED <<sweep, inst>> /\ NoNewSeat
    BY <1>3, SeatsAreInserted DEF Reject, procVars, OnlyStatus, Releases
  <2>2. ~Active(b)' /\ Active(b) /\ b \notin sweep
    BY <1>3 DEF Reject, AwaitsOwner, SetStatus, Active, ActiveStatuses, SweptAreFinal, FinalStatuses
  <2>3. {x \in {b} : inst[x] = i} \subseteq Held(i)
    BY <2>2 DEF Held, ActiveOn
  <2>4. Held(i)' \subseteq Held(i) \ {x \in {b} : inst[x] = i}
    BY <2>1, <2>2, HeldShrinks DEF Held, ActiveOn, SweepOn
  <2> QED BY <1>0, <2>1, <2>3, <2>4, ReleaseCovers
<1>4. ASSUME NEW b \in Ids, SweepRelease(b)
      PROVE  Cardinality(Held(i)') <= bookedCount'[i]
  <2>1. Release({b}) /\ sweep' = sweep \ {b} /\ UNCHANGED <<status, inst>> /\ NoNewSeat
    BY <1>4, SeatsAreInserted DEF SweepRelease, rowVars, Releases
  <2>2. ~Active(b)' /\ b \in sweep
    BY <1>4, <2>1 DEF SweepRelease, Active, ActiveStatuses, SweptAreFinal, FinalStatuses
  <2>3. {x \in {b} : inst[x] = i} \subseteq Held(i)
    BY <2>2 DEF Held, SweepOn
  <2>4. Held(i)' \subseteq Held(i) \ {x \in {b} : inst[x] = i}
    BY <2>1, <2>2, HeldShrinks DEF Held, ActiveOn, SweepOn
  <2> QED BY <1>0, <2>1, <2>3, <2>4, ReleaseCovers
<1>5. ASSUME NEW j \in Instances, CancelClass(j)
      PROVE  Cardinality(Held(i)') <= bookedCount'[i]
  <2>1. Release(ActiveOn(j)) /\ UNCHANGED <<sweep, inst>> /\ NoNewSeat
    BY <1>5, SeatsAreInserted DEF CancelClass, Cascade, procVars, OnlyStatus, Releases
  <2>2. ActiveOn(j) \in SUBSET Ids
    BY DEF ActiveOn
  <2>3. \A b \in ActiveOn(j) : ~Active(b)' /\ b \notin sweep
    BY <1>5 DEF CancelClass, Cascade, SetStatus, ActiveOn, Active, ActiveStatuses, SweptAreFinal,
                FinalStatuses
  <2>4. {b \in ActiveOn(j) : inst[b] = i} \subseteq Held(i)
    BY DEF Held, ActiveOn
  <2>5. Held(i)' \subseteq Held(i) \ {b \in ActiveOn(j) : inst[b] = i}
    BY <2>1, <2>3, HeldShrinks DEF Held, ActiveOn, SweepOn
  <2> QED BY <1>0, <2>1, <2>2, <2>4, <2>5, ReleaseCovers
<1>6. CASE SweepExpire
  <2>1. UNCHANGED <<bookedCount, inst>>
    BY <1>6 DEF SweepExpire, seatVars, OnlyStatus
  <2>2. Held(i)' \subseteq Held(i)
    BY <1>6 DEF SweepExpire, OnlyStatus, SetStatus, Overdue, Held, ActiveOn, SweepOn, Active,
                ActiveStatuses, TypeOK, RowsOK, ProcOK
  <2> QED BY <1>0, <2>1, <2>2, QuietCovers
<1>7. CASE Crash \/ Locks \/ \E n \in 1..MaxCapacity : SetCapacity(n)
  <2>1. UNCHANGED bookedCount /\ sweep' \subseteq sweep /\ NoNewSeat
    BY <1>7, SeatsAreInserted DEF SetCapacity, Crash, Locks, LockClass, UnlockClass, procVars, Others
  <2> QED BY <1>0, <2>1, HeldShrinks, QuietCovers
<1> QED BY <1>1, <1>2, <1>3, <1>4, <1>5, <1>6, <1>7, StepKinds DEF Releases, Others

\* booked_count is never below the number of seats in use, however cancels,
\* answers, sweeps, crashes and capacity changes interleave.
THEOREM CoveredHolds == Spec => []SeatsCovered
<1>1. Init => SeatsCovered
  <2>1. ASSUME Init, NEW i \in Instances
        PROVE  Held(i) = {} /\ bookedCount[i] = 0
    BY <2>1 DEF Init, Held, ActiveOn, SweepOn, Active, ActiveStatuses
  <2> QED BY <2>1, FS_EmptySet DEF SeatsCovered
<1>2. TypeOK /\ SweptAreFinal /\ QuotesHold /\ SeatsCovered /\ [Next]_vars => SeatsCovered'
  BY CoveredNext
<1> QED BY <1>1, <1>2, TypeCorrect, SweptHolds, QuotesHolds, PTL DEF Spec

\* No step puts more bookings into a class than the capacity that was read
\* under the lock on its row: not two clients at once, not a reschedule, not
\* the owner's assignment or exception.
THEOREM NeverOverbooked == Spec => NeverOverbooks
<1> DEFINE Fits == \A i \in Instances :
                      Cardinality(ActiveOn(i)') > Cardinality(ActiveOn(i))
                         => Cardinality(ActiveOn(i)') <= quoted[i]
<1>1. ASSUME TypeOK, SweptAreFinal, QuotesHold, SeatsCovered, [Next]_vars
      PROVE  Fits
  <2> SUFFICES ASSUME NEW i \in Instances,
                      Cardinality(ActiveOn(i)') > Cardinality(ActiveOn(i))
               PROVE  Cardinality(ActiveOn(i)') <= quoted[i]
    OBVIOUS
  <2>1. /\ IsFiniteSet(ActiveOn(i)) /\ Cardinality(ActiveOn(i)) \in Nat
        /\ Cardinality(Held(i)) \in Nat /\ bookedCount[i] \in Nat /\ quoted[i] \in Nat
    BY <1>1, HeldBookings, BookingsFinite, CapacityAssumption DEF TypeOK, SeatsOK
  <2>2. Cardinality(ActiveOn(i)) <= Cardinality(Held(i))
    BY <1>1, HeldBookings, Fewer DEF Held
  <2>3. Cardinality(Held(i)) <= bookedCount[i]
    BY <1>1 DEF SeatsCovered
  <2>4. ~(ActiveOn(i)' \subseteq ActiveOn(i))
    <3>1. ASSUME ActiveOn(i)' \subseteq ActiveOn(i)
          PROVE  FALSE
      <4>1. Cardinality(ActiveOn(i)') <= Cardinality(ActiveOn(i))
        BY <1>1, <3>1, HeldBookings, Fewer
      <4>2. Cardinality(ActiveOn(i)') \in Nat
        <5>1. ActiveOn(i)' \in SUBSET Ids
          BY DEF ActiveOn
        <5> QED BY <5>1, BookingsFinite
      <4> QED BY <2>1, <4>1, <4>2
    <3> QED BY <3>1
  <2>5. NewSeat
    <3>1. CASE NoNewSeat
      <4>1. ActiveOn(i)' \subseteq ActiveOn(i)
        BY <3>1 DEF NoNewSeat, ActiveOn
      <4> QED BY <2>4, <4>1
    <3> QED BY <1>1, <3>1, StepKinds, SeatsAreInserted
  <2>6. PICK c, B, at, st, v, f : Seated(c, B, at, st, v, f)
    BY <2>5 DEF NewSeat
  <2>7. PICK b \in B : ActiveOn(i)' = ActiveOn(i) \cup {b} /\ bookedCount[i] < quoted[i]
    BY <1>1, <2>4, <2>6, InsertAddsOne
  <2>8. Cardinality(ActiveOn(i) \cup {b}) \in {Cardinality(ActiveOn(i)), Cardinality(ActiveOn(i)) + 1}
    <3>1. CASE b \in ActiveOn(i)
      <4>1. ActiveOn(i) \cup {b} = ActiveOn(i)
        BY <3>1
      <4> QED BY <4>1
    <3>2. CASE b \notin ActiveOn(i)
      BY <2>1, <3>2, FS_AddElement
    <3> QED BY <3>1, <3>2
  <2> QED BY <2>1, <2>2, <2>3, <2>7, <2>8
<1>2. TypeOK /\ SweptAreFinal /\ QuotesHold /\ SeatsCovered /\ [Next]_vars => [Fits]_vars
  BY <1>1
<1> QED BY <1>2, TypeCorrect, SweptHolds, QuotesHolds, CoveredHolds, PTL DEF Spec, NeverOverbooks

-----------------------------------------------------------------------------
(* Credits and reschedules *)

\* Every credit that was returned belongs to a booking that is over.
RefundedAreFinal == \A r \in refunded : status[r[1]] \in FinalStatuses

LEMMA RefundedHolds == Spec => []RefundedAreFinal
<1>1. Init => RefundedAreFinal
  BY DEF Init, RefundedAreFinal
<1>2. ASSUME TypeOK, SweptAreFinal, RefundedAreFinal, [Next]_vars
      PROVE  RefundedAreFinal'
  <2>1. ASSUME NoNewSeat, RefundsFinal
        PROVE  RefundedAreFinal'
    BY <1>2, <2>1 DEF NoNewSeat, RefundsFinal, RefundedAreFinal, TypeOK, CreditOK
  <2>2. CASE NewSeat
    BY <1>2, <2>2 DEF NewSeat, Seated, Insert, Unused, RefundedAreFinal, FinalStatuses,
                      TypeOK, CreditOK
  <2>3. ASSUME NEW b \in Ids, Reject(b)
        PROVE  RefundsFinal
    <3>1. {x \in {b} : from[x] = None} \in SUBSET {b} /\ {b} \in SUBSET Ids
      OBVIOUS
    <3> QED BY <2>3, <3>1, RefundsFollow DEF Reject, FinalStatuses
  <2>4. ASSUME NEW b \in Ids, SweepRelease(b)
        PROVE  RefundsFinal
    <3>1. \A r \in refunded' \ refunded : r[1] = b
      BY <2>4 DEF SweepRelease, RestoreCredit
    <3>2. status'[b] \in FinalStatuses
      BY <1>2, <2>4 DEF SweepRelease, rowVars, SweptAreFinal
    <3> QED BY <3>1, <3>2 DEF RefundsFinal
  <2>5. ASSUME NEW i \in Instances, CancelClass(i)
        PROVE  RefundsFinal
    <3>1. Cascade(i) \in SUBSET Ids
      BY DEF Cascade, ActiveOn
    <3> QED BY <2>5, <3>1, RefundsFollow DEF CancelClass, FinalStatuses
  <2>6. Others => RefundsFinal
    BY DEF Others, SweepExpire, SetCapacity, Crash, Locks, LockClass, UnlockClass, creditVars,
           RefundsFinal
  <2> QED BY <1>2, <2>1, <2>2, <2>3, <2>4, <2>5, <2>6, StepKinds, SeatsAreInserted
          DEF Quiet, Releases
<1> QED BY <1>1, <1>2, TypeCorrect, SweptHolds, PTL DEF Spec

\* Nobody has both the credit back and the seat, whichever of cancel,
\* rejection, expiry and cascade gave the credit back.
THEOREM NoRefundedSeatHolds == Spec => []NoRefundedSeat
<1>1. RefundedAreFinal => NoRefundedSeat
  BY DEF RefundedAreFinal, NoRefundedSeat, Active, ActiveStatuses, FinalStatuses
<1> QED BY <1>1, RefundedHolds, PTL

\* A client whose reschedule is confirmed holds the new seat only.
THEOREM SupersededHolds == Spec => []SupersededReleased
<1>1. Init => SupersededReleased
  BY DEF Init, SupersededReleased
<1>2. ASSUME TypeOK, SupersededReleased, [Next]_vars
      PROVE  SupersededReleased'
  <2>1. CASE NoNewSeat
    BY <1>2, <2>1 DEF NoNewSeat, SupersededReleased, TypeOK, RowsOK
  <2>2. CASE NewSeat
    <3>1. PICK c, B, at, st, v, f : Seated(c, B, at, st, v, f)
      BY <2>2 DEF NewSeat
    <3>2. ASSUME NEW b \in Ids, status'[b] = "confirmed", from'[b] # None
          PROVE  ~Active(from[b])'
      <4>1. b \notin B
        BY <3>1, <3>2 DEF Seated, Insert
      <4>2. from'[b] = from[b] /\ status[b] = "confirmed" /\ from[b] # None
        BY <3>1, <3>2, <4>1 DEF Seated, Insert
      <4>3. from[b] \in Ids /\ from[b] \notin B
        BY <1>2, <3>1, <4>2 DEF Seated, Unused, TypeOK, RowsOK
      <4> QED BY <1>2, <3>1, <4>2, <4>3 DEF Seated, Insert, Active, SupersededReleased
    <3> QED BY <3>2 DEF SupersededReleased
  <2> QED BY <1>2, <2>1, <2>2, StepKinds, SeatsAreInserted
<1> QED BY <1>1, <1>2, TypeCorrect, PTL DEF Spec
=============================================================================
