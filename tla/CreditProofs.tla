---------------------------- MODULE CreditProofs ----------------------------
(***************************************************************************)
(* What remains true of the credits of SessionBooking where its comments   *)
(* promise more than the code keeps: how a credit comes to be given back   *)
(* twice (RefundedOnce is violated), and that no number of reschedules     *)
(* makes a booking nobody paid for.                                        *)
(***************************************************************************)
EXTENDS SessionBookingProofs

(* Two refunds *)

\* A booking the cascade gave a credit back for is over, its class called
\* off, and the expiry poller has nothing to release.
LessonOK ==
    \A b \in Ids : <<b, "lesson">> \in refunded =>
       status[b] \in FinalStatuses /\ inst[b] \in closed /\ b \notin sweep

\* Who gives a credit back, and for which bookings.
LateCancel(b) ==
    \E h \in Handlers : CancelWrite(h) /\ handler[h].id = b /\ ~handler[h].forfeit

Refunding(r) ==
    \/ r[2] = "credit" /\ (LateCancel(r[1]) \/ Active(r[1]) \/ r[1] \in sweep)
    \/ /\ r[2] = "lesson" /\ Active(r[1]) /\ inst[r[1]] \in closed'
       /\ sweep' = sweep /\ status'[r[1]] \in FinalStatuses /\ inst' = inst

LEMMA RefundSteps ==
    ASSUME [Next]_vars
    PROVE  \/ refunded' \subseteq refunded
           \/ \E h \in Handlers : CancelWrite(h)
           \/ \E b \in Ids : Reject(b) \/ SweepRelease(b)
           \/ \E i \in Instances : CancelClass(i)
<1>1. ASSUME \/ Locks \/ ClientBooks \/ OwnerBooks \/ Reschedules \/ Renews \/ PackChanges \/ Fails
             \/ UNCHANGED vars
             \/ \E b \in Ids : Approve(b) \/ Age(b) \/ SweepReleaseFails(b)
             \/ SweepExpire \/ SweepSkips \/ AvailabilityExpire
             \/ \E n \in 1..MaxCapacity : SetCapacity(n)
             \/ \E h \in Handlers, b \in Ids, forfeit \in BOOLEAN : CancelRead(h, b, forfeit)
      PROVE  refunded' \subseteq refunded
  BY <1>1 DEF Locks, LockClass, UnlockClass, ClientBooks, BookByClient, OwnerBooks, AssignByOwner, ApproveException, Reschedules,
              RescheduleRead, RescheduleWrite, Renews, RenewRead, RenewWrite, PackChanges,
              MembershipExpires, DeleteClient, Fails, Crash, HandlerAborts, Approve, Age,
              SweepReleaseFails, SweepExpire, SweepSkips, AvailabilityExpire, SetCapacity,
              CancelRead, creditVars, vars
<1> QED BY <1>1 DEF Next, ClientCancels, OwnerAnswers, Expires, OwnerRunsClass

LEMMA WhoRefunds ==
    ASSUME TypeOK, [Next]_vars, NEW r \in refunded' \ refunded
    PROVE  r[1] \in Ids /\ Refunding(r)
<1>1. ASSUME NEW B \in SUBSET Ids, NEW key, RestoreCredit(B, key)
      PROVE  r[1] \in B /\ r[2] = key
  BY <1>1 DEF RestoreCredit
<1>2. ASSUME NEW h \in Handlers, CancelWrite(h)
      PROVE  r[1] \in Ids /\ Refunding(r)
  <2> DEFINE B == {handler[h].id} \ {b \in Ids : status[b] = "deleted"}
  <2>1. B \in SUBSET Ids
    BY <1>2, JobType DEF CancelWrite, TypeOK, ProcOK
  <2>2. ~handler[h].forfeit /\ RestoreCredit(B, "credit")
    BY <1>2 DEF CancelWrite
  <2>3. r[1] \in B /\ r[2] = "credit"
    BY <1>1, <2>1, <2>2
  <2> QED BY <1>2, <2>1, <2>2, <2>3 DEF Refunding, LateCancel
<1>3. ASSUME NEW b \in Ids, Reject(b)
      PROVE  r[1] \in Ids /\ Refunding(r)
  <2>1. RestoreCredit({x \in {b} : from[x] = None}, "credit")
    BY <1>3 DEF Reject
  <2>2. r[1] = b /\ r[2] = "credit"
    BY <1>1, <2>1
  <2> QED BY <1>3, <2>2 DEF Reject, AwaitsOwner, Refunding, Active, ActiveStatuses
<1>4. ASSUME NEW b \in Ids, SweepRelease(b)
      PROVE  r[1] \in Ids /\ Refunding(r)
  <2>1. r[1] = b /\ r[2] = "credit"
    BY <1>1, <1>4 DEF SweepRelease
  <2> QED BY <1>4, <2>1 DEF SweepRelease, Refunding
<1>5. ASSUME NEW i \in Instances, CancelClass(i)
      PROVE  r[1] \in Ids /\ Refunding(r)
  <2>1. Cascade(i) \in SUBSET Ids
    BY DEF Cascade, ActiveOn
  <2>2. r[1] \in Cascade(i) /\ r[2] = "lesson"
    BY <1>1, <1>5, <2>1 DEF CancelClass
  <2>3. Active(r[1]) /\ inst[r[1]] = i
    BY <2>2 DEF Cascade, ActiveOn
  <2>4. status'[r[1]] = "cancelled" /\ i \in closed' /\ sweep' = sweep /\ inst' = inst
    BY <1>5, <2>1, <2>2 DEF CancelClass, SetStatus, OnlyStatus, procVars
  <2> QED BY <2>1, <2>2, <2>3, <2>4 DEF Refunding, FinalStatuses
<1> QED BY <1>2, <1>3, <1>4, <1>5, RefundSteps

\* One step gives credits back under one key.
LEMMA OneKey ==
    ASSUME [Next]_vars, NEW q \in refunded' \ refunded, NEW r \in refunded' \ refunded
    PROVE  q[2] = r[2]
<1>1. \E B, key : RestoreCredit(B, key)
  BY RefundSteps DEF CancelWrite, Reject, SweepRelease, CancelClass
<1> QED BY <1>1 DEF RestoreCredit

\* A booking that is over stays in its class, and the poller does not get it.
LEMMA OverStays ==
    ASSUME TypeOK, [Next]_vars, NEW b \in Ids, status[b] \in FinalStatuses
    PROVE  /\ status'[b] \in FinalStatuses /\ inst'[b] = inst[b]
           /\ b \in sweep' => b \in sweep
           /\ closed \subseteq closed'
<1>1. CASE NewSeat
  BY <1>1 DEF NewSeat, Seated, Insert, Unused, FinalStatuses
<1>2. CASE Quiet
  BY <1>2 DEF Quiet, NoNewSeat, seatVars
<1>3. CASE Releases
  <2>1. NoNewSeat
    BY <1>3, SeatsAreInserted
  <2>2. sweep' \subseteq sweep /\ closed \subseteq closed'
    BY <1>3 DEF Releases, Reject, SweepRelease, CancelClass, procVars
  <2> QED BY <2>1, <2>2 DEF NoNewSeat
<1>4. CASE Others
  <2>1. NoNewSeat
    BY <1>4, SeatsAreInserted
  <2>2. b \notin Overdue
    BY DEF Overdue, FinalStatuses
  <2>3. (b \in sweep' => b \in sweep) /\ closed' = closed
    BY <1>4, <2>2 DEF Others, SweepExpire, SetCapacity, Crash, Locks, LockClass, UnlockClass,
                      seatVars, procVars
  <2> QED BY <2>1, <2>3 DEF NoNewSeat
<1> QED BY <1>1, <1>2, <1>3, <1>4, StepKinds

LEMMA LessonHolds == Spec => []LessonOK
<1>1. Init => LessonOK
  BY DEF Init, LessonOK
<1>2. ASSUME TypeOK, SweptAreFinal, LessonOK, [Next]_vars
      PROVE  LessonOK'
  <2> SUFFICES ASSUME NEW b \in Ids, <<b, "lesson">> \in refunded'
               PROVE  status'[b] \in FinalStatuses /\ inst'[b] \in closed' /\ b \notin sweep'
    BY DEF LessonOK
  <2>1. CASE <<b, "lesson">> \in refunded
    BY <1>2, <2>1, OverStays DEF LessonOK
  <2>2. CASE <<b, "lesson">> \notin refunded
    <3>1. Refunding(<<b, "lesson">>)
      BY <1>2, <2>2, WhoRefunds
    <3>2. Active(b) /\ inst[b] \in closed' /\ sweep' = sweep /\ status'[b] \in FinalStatuses
             /\ inst' = inst
      BY <3>1 DEF Refunding
    <3>3. b \notin sweep
      BY <1>2, <3>2 DEF SweptAreFinal, Active, ActiveStatuses, FinalStatuses
    <3> QED BY <3>2, <3>3
  <2> QED BY <2>1, <2>2
<1> QED BY <1>1, <1>2, TypeCorrect, SweptHolds, PTL DEF Spec

Twice(b) == {<<b, "credit">>, <<b, "lesson">>} \subseteq refunded

\* A credit is given back a second time in one way only.
TwiceByLateCancel ==
    \A b \in Ids : Twice(b)' /\ ~Twice(b) =>
       /\ <<b, "lesson">> \in refunded /\ inst[b] \in closed
       /\ LateCancel(b)

\* RefundedOnce fails, and this is how far: the second refund is that of a
\* client's cancel (cancelAppointmentTool) that read the booking before its
\* class was called off and writes after the cascade has given the credit
\* back.  No order of rejection, expiry and cascade does it.
THEOREM SecondRefund == Spec => [][TwiceByLateCancel]_vars
<1>1. TypeOK /\ LessonOK /\ RefundedAreFinal /\ [Next]_vars => [TwiceByLateCancel]_vars
  <2> SUFFICES ASSUME TypeOK, LessonOK, RefundedAreFinal, Next,
                      NEW b \in Ids, Twice(b)', ~Twice(b)
               PROVE  <<b, "lesson">> \in refunded /\ inst[b] \in closed /\ LateCancel(b)
    BY DEF TwiceByLateCancel
  <2>1. <<b, "credit">> \in refunded' /\ <<b, "lesson">> \in refunded'
    BY DEF Twice
  <2>2. ASSUME <<b, "lesson">> \notin refunded PROVE FALSE
    <3>1. Active(b)
      BY <2>1, <2>2, WhoRefunds DEF Refunding
    <3>2. <<b, "credit">> \notin refunded
      BY <3>1 DEF RefundedAreFinal, Active, ActiveStatuses, FinalStatuses
    <3> QED BY <2>1, <2>2, <3>2, OneKey
  <2>3. <<b, "credit">> \notin refunded
    BY <2>2 DEF Twice
  <2>4. Refunding(<<b, "credit">>)
    BY <2>1, <2>3, WhoRefunds
  <2>5. status[b] \in FinalStatuses /\ inst[b] \in closed /\ b \notin sweep
    BY <2>2 DEF LessonOK
  <2>6. ~Active(b)
    BY <2>5 DEF Active, ActiveStatuses, FinalStatuses
  <2> QED BY <2>2, <2>4, <2>5, <2>6 DEF Refunding
<1> QED BY <1>1, TypeCorrect, LessonHolds, RefundedHolds, PTL DEF Spec

-----------------------------------------------------------------------------
(* Moving a booking again and again *)

\* A booking moved on credit replaces one of the same client with a ledger
\* row.
LinkedIsPaid ==
    \A b \in linked : /\ client[b] \in Clients
                      /\ from[b] \in Ids /\ client[from[b]] = client[b] /\ HasLedgerRow(from[b])

\* Nobody replaces a booking that replaces him, in however many steps.
NoCircle ==
    \A S \in SUBSET Ids : S # {} => \E b \in S : from[b] \notin S

\* What a step does to the ledger rows: bookings are made for one client, to
\* replace an older one or none, or a client is erased, or rows are added.
Books(c, B, f) ==
    /\ B \in SUBSET Unused /\ f \notin B
    /\ client' = [b \in Ids |-> IF b \in B THEN c ELSE client[b]]
    /\ from' = [b \in Ids |-> IF b \in B THEN f ELSE from[b]]
    /\ charged \subseteq charged'
    /\ \/ linked' = linked
       \/ /\ linked' = linked \cup B
          /\ c \in Clients /\ f \in Ids /\ client[f] = c /\ HasLedgerRow(f)

Adds == UNCHANGED <<client, from, linked>> /\ charged \subseteq charged'

LEMMA LedgerStep ==
    ASSUME TypeOK, [Next]_vars
    PROVE  \/ Adds
           \/ \E c, B, f : Books(c, B, f)
           \/ \E c \in Clients : DeleteClient(c)
<1>0. None \notin Ids
  BY IdsAssumption
<1>1. ASSUME NEW c \in Clients, NEW B \in SUBSET Unused, NEW at \in Places(B),
             NEW v \in {"chat", "menu"}, BookByClient(c, B, at, v)
      PROVE  Books(c, B, None)
  BY <1>0, <1>1 DEF BookByClient, Insert, Deduct, Books, Unused
<1>2. ASSUME NEW c \in Clients, NEW b \in Unused, NEW i \in Instances,
             AssignByOwner(c, b, i) \/ ApproveException(c, b, i)
      PROVE  Books(c, {b}, None)
  BY <1>0, <1>2 DEF AssignByOwner, ApproveException, Insert, Deduct, Books, Unused, creditVars
<1>3. ASSUME NEW h \in Handlers, NEW b \in Unused, NEW i \in Instances, RescheduleWrite(h, b, i)
      PROVE  Books(client[handler[h].id], {b}, handler[h].id)
  <2> DEFINE old == handler[h].id
  <2>1. old \in Ids /\ client[old] \in Clients /\ status[old] # "none"
    BY <1>3, JobType DEF RescheduleWrite, TypeOK, ProcOK, RowsOK
  <2>2. old # b
    BY <2>1 DEF Unused
  <2> QED BY <1>3, <2>1, <2>2 DEF RescheduleWrite, Insert, Books, Unused
<1>4. ASSUME NEW h \in Handlers, RenewWrite(h) \/ CancelWrite(h) \/ HandlerAborts(h)
      PROVE  Adds
  BY <1>4 DEF RenewWrite, CancelWrite, HandlerAborts, OnlyStatus, rowVars, creditVars, Adds
<1>5. ASSUME \/ \E h \in Handlers, b \in Ids : \/ RescheduleRead(h, b)
                                               \/ \E forfeit \in BOOLEAN : CancelRead(h, b, forfeit)
             \/ \E h \in Handlers, c \in Clients, p \in Packs : RenewRead(h, c, p)
             \/ Crash \/ Locks \/ OwnerAnswers \/ Expires \/ OwnerRunsClass
             \/ \E c \in Clients : MembershipExpires(c)
             \/ UNCHANGED vars
      PROVE  Adds
  BY <1>5 DEF RescheduleRead, CancelRead, RenewRead, Crash, Locks, LockClass, UnlockClass,
              OwnerAnswers, Approve, Reject, Expires, Age, SweepRelease, SweepReleaseFails, SweepExpire, SweepSkips, AvailabilityExpire,
              OwnerRunsClass, CancelClass, SetCapacity, MembershipExpires, OnlyStatus, rowVars,
              creditVars, vars, Adds
<1> QED BY <1>1, <1>2, <1>3, <1>4, <1>5
        DEF Next, ClientBooks, OwnerBooks, Reschedules, ClientCancels, Renews, PackChanges, Fails

LEMMA LinkedStep ==
    ASSUME TypeOK, LinkedIsPaid, [Next]_vars
    PROVE  LinkedIsPaid'
<1> USE DEF LinkedIsPaid, HasLedgerRow
<1>1. CASE Adds
  BY <1>1 DEF Adds
<1>2. ASSUME NEW c \in Clients, DeleteClient(c)
      PROVE  LinkedIsPaid'
  <2> DEFINE B == {b \in Ids : client[b] = c}
  <2>1. linked' = linked \ B /\ charged' = charged \ B /\ UNCHANGED <<client, from>>
    BY <1>2 DEF DeleteClient, OnlyStatus
  <2>2. ASSUME NEW b \in linked'
        PROVE  client[b] # c /\ from[b] \notin B
    BY <2>1 DEF TypeOK, CreditOK
  <2> QED BY <2>1, <2>2
<1>3. ASSUME NEW c, NEW B, NEW f, Books(c, B, f)
      PROVE  LinkedIsPaid'
  <2>1. \A b \in B : b \in Ids /\ client[b] = None /\ None \notin Clients
    BY <1>3, PlaceAssumption DEF Books, Unused, TypeOK, RowsOK
  <2>2. \A b \in Ids \ B : client'[b] = client[b] /\ from'[b] = from[b]
    BY <1>3 DEF Books
  <2>3. \A b \in B : client'[b] = c /\ from'[b] = f
    BY <1>3, <2>1 DEF Books
  <2>4. ASSUME NEW b \in linked
        PROVE  b \in Ids \ B /\ from[b] \in Ids \ B
    BY <2>1 DEF TypeOK, CreditOK
  <2>5. linked' # linked => c \in Clients /\ f \in Ids \ B /\ client[f] = c /\ HasLedgerRow(f)
    BY <1>3 DEF Books
  <2>6. charged \subseteq charged' /\ linked \subseteq linked' /\ linked' \subseteq linked \cup B
    BY <1>3 DEF Books
  <2> QED BY <2>2, <2>3, <2>4, <2>5, <2>6
<1> QED BY <1>1, <1>2, <1>3, LedgerStep

LEMMA CircleStep ==
    ASSUME TypeOK, NoCircle, [Next]_vars
    PROVE  NoCircle'
<1>1. CASE from' = from
  BY <1>1 DEF NoCircle
<1>2. ASSUME NEW c, NEW B, NEW f, Books(c, B, f)
      PROVE  NoCircle'
  <2> SUFFICES ASSUME NEW S \in SUBSET Ids, S # {}
               PROVE  \E b \in S : from'[b] \notin S
    BY DEF NoCircle
  <2>1. /\ \A b \in Ids \ B : from'[b] = from[b] /\ from[b] \notin B
        /\ \A b \in B : b \in Ids /\ from'[b] = f /\ f \notin B
    BY <1>2, IdsAssumption DEF Books, Unused, TypeOK, RowsOK
  <2>2. CASE S \subseteq B
    BY <2>1, <2>2
  <2>3. CASE S \ B # {}
    <3>1. PICK b \in S \ B : from[b] \notin S \ B
      BY <2>3 DEF NoCircle
    <3>2. from'[b] = from[b] /\ from[b] \notin B
      BY <2>1, <3>1
    <3> QED BY <3>1, <3>2
  <2> QED BY <2>2, <2>3
<1> QED BY <1>1, <1>2, LedgerStep DEF Adds, DeleteClient, OnlyStatus

\* However bookings are moved, and moved again, somewhere a credit was spent:
\* any reschedules that cost nothing go back to a booking with a ledger row
\* that is not among them (rescheduleSession links, and does not charge).
EveryMoveIsPaid ==
    \A S \in SUBSET linked : S # {} => \E b \in S : from[b] \in (charged \cup linked) \ S

\* rescheduleSession charges nothing for the class a client moves to; the
\* credit was spent where the chain of moves began.
THEOREM MovesArePaid == Spec => []EveryMoveIsPaid
<1>1. Init => LinkedIsPaid /\ NoCircle
  BY IdsAssumption DEF Init, LinkedIsPaid, NoCircle
<1>2. TypeOK /\ LinkedIsPaid /\ NoCircle => EveryMoveIsPaid
  BY DEF EveryMoveIsPaid, LinkedIsPaid, NoCircle, HasLedgerRow, TypeOK, CreditOK
<1>3. TypeOK /\ LinkedIsPaid /\ NoCircle /\ [Next]_vars => LinkedIsPaid' /\ NoCircle'
  BY LinkedStep, CircleStep
<1> QED BY <1>1, <1>2, <1>3, TypeCorrect, PTL DEF Spec
=============================================================================
