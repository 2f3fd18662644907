--------------------------- MODULE SessionBooking ---------------------------
(***************************************************************************)
(* Booking seats in group classes: the class catalog, the bookings of its  *)
(* instances, and the session packs that pay for them, of one business     *)
(* with one active catalog entry.                                          *)
(*                                                                         *)
(* The state is the Postgres tables and what the Node process keeps in     *)
(* memory between two database calls.  An action is a transaction, or an   *)
(* autocommitted statement.  A handler that reads in one statement what it *)
(* relies on in a later one is two actions with a job in between, because  *)
(* READ COMMITTED lets any other transaction commit in the middle.  What   *)
(* is one action is held together by a row lock or by a guarded UPDATE:    *)
(* approve, reject, the sweep and the cascade re-check the booking's       *)
(* status in the UPDATE's WHERE.                                           *)
(*                                                                         *)
(* bookSessionInstance is two actions for each class.  It locks the        *)
(* instance row and compares its count with the capacity, which it reads   *)
(* by a plain SELECT of another row (LockClass); the booking commits with  *)
(* its transaction, in the client's chat at the end of the turn.  Until    *)
(* then whoever writes the instance row waits, and the owner may have      *)
(* changed the capacity, which takes no lock on the instance.              *)
(*                                                                         *)
(* A definition Faulty<X>, before X, is X with a mistake in it.  Nothing    *)
(* uses it: put in the place of X, it shows that a property can fail.      *)
(***************************************************************************)
EXTENDS Naturals, FiniteSets

CONSTANTS
    Ids,            \* booking rows this model may create
    Clients,        \* Telegram users
    Instances,      \* session_instances of the catalog entry
    Handlers,       \* requests between their read and their write
    Packs,          \* session counts of the business's packages
    MaxCapacity,    \* bound on the catalog capacity
    Policy,         \* businesses.enforcement_policy
    AllowMulti,     \* businesses.allow_multi_booking
    None, Unlimited

ASSUME IdsAssumption == IsFiniteSet(Ids) /\ None \notin Ids
ASSUME PlaceAssumption == None \notin Clients \cup Instances
ASSUME PackAssumption == Packs \subseteq Nat \cup {Unlimited} /\ Unlimited \notin Nat
ASSUME CapacityAssumption == MaxCapacity \in Nat
ASSUME PolicyAssumption == Policy \in {"allow", "block"} /\ AllowMulti \in BOOLEAN

VARIABLES
    status,         \* bookings.booking_status; "none" unused, "deleted" erased
    client,         \* bookings.client_phone
    inst,           \* bookings.session_instance_id
    from,           \* bookings.rescheduled_from_booking_id
    via,            \* what bookings.request_id was built from
    stale,          \* the pending bookings created more than two hours ago
    bookedCount,    \* session_instances.booked_count
    closed,         \* the instances with is_cancelled
    capacity,       \* session_catalog.capacity
    quoted,         \* the capacity that the booking with the lock on the
                    \* instance row has read; 0 when nobody has the lock
    mem,            \* the client's membership row: absent, live or past expires_at
    left,           \* memberships.sessions_remaining
    charged,        \* bookings with a session_deducted ledger row of one session
    linked,         \* bookings with a session_deducted ledger row of none
    refunded,       \* credit_restored ledger rows: booking and key
    sweep,          \* rows the expiry poller got back and has yet to release
    handler         \* the requests between a read and a write

seatVars   == <<bookedCount, closed, capacity, quoted>>
rowVars    == <<status, client, inst, from, via, stale>>
creditVars == <<mem, left, charged, linked, refunded>>
procVars   == <<sweep, handler>>
vars       == <<rowVars, seatVars, creditVars, procVars>>

ActiveStatuses == {"pending", "confirmed"}
FinalStatuses  == {"cancelled", "rejected", "expired", "deleted"}

\* The ways a booking's request_id is derived.  Only "chat" is fresh for
\* every request (Telegram update and tool call); the others are a function
\* of client and instance.
Sources == {"chat", "menu", "assign", "exception"}

Idle     == [op |-> "idle"]
Jobs     == {Idle} \cup [op : {"cancel"}, id : Ids, forfeit : BOOLEAN]
                   \cup [op : {"move"}, id : Ids]
                   \cup [op : {"renew"}, client : Clients, pack : Packs,
                         unbilled : SUBSET Ids]
Sessions == Nat \cup {Unlimited}

RowsOK ==
    /\ status \in [Ids -> {"none"} \cup ActiveStatuses \cup FinalStatuses]
    /\ client \in [Ids -> Clients \cup {None}]
    /\ inst \in [Ids -> Instances \cup {None}]
    /\ from \in [Ids -> Ids \cup {None}]
    /\ via \in [Ids -> Sources \cup {None}]
    /\ stale \in SUBSET Ids
    /\ \A b \in Ids : status[b] = "none" => client[b] = None
    /\ \A b \in Ids : status[b] # "none" => client[b] \in Clients /\ inst[b] \in Instances
    /\ \A b \in Ids : from[b] # None => from[b] # b /\ status[from[b]] # "none"

SeatsOK ==
    /\ bookedCount \in [Instances -> Nat]
    /\ closed \in SUBSET Instances
    /\ capacity \in 1..MaxCapacity
    /\ quoted \in [Instances -> 0..MaxCapacity]

CreditOK ==
    /\ mem \in [Clients -> {"none", "live", "expired"}]
    /\ left \in [Clients -> Sessions]
    /\ charged \in SUBSET Ids
    /\ linked \in SUBSET Ids
    /\ refunded \in SUBSET (Ids \X {"credit", "lesson"})

ProcOK ==
    /\ sweep \in SUBSET Ids
    /\ handler \in [Handlers -> Jobs]
    /\ \A h \in Handlers : handler[h].op \in {"cancel", "move"}
                               => status[handler[h].id] # "none"

TypeOK == RowsOK /\ SeatsOK /\ CreditOK /\ ProcOK

-----------------------------------------------------------------------------
(* Reading the tables *)

Active(b)   == status[b] \in ActiveStatuses
ActiveOn(i) == {b \in Ids : Active(b) /\ inst[b] = i}
SweepOn(i)  == {b \in sweep : inst[b] = i}
Held(i)     == ActiveOn(i) \cup SweepOn(i)
Unused      == {b \in Ids : status[b] = "none"}

HasSeat(c, i)     == \E b \in ActiveOn(i) : client[b] = c
Replayed(c, i, v) == \E b \in Ids : /\ status[b] \notin {"none", "deleted"}
                                    /\ client[b] = c /\ inst[b] = i /\ via[b] = v
                                    /\ v # "chat"

FaultyRoom(i) == bookedCount[i] <= capacity
Room(i) == bookedCount[i] < capacity

\* Nobody has the lock on the instance row: its writers do not wait.
Unlocked(i) == quoted[i] = 0

\* bookSessionInstance, with the row locked, inserts a row: otherwise it
\* answers conflict, or, for a request_id it has seen, success with the row
\* it has.
Bookable(c, i, v) == ~Unlocked(i) /\ ~HasSeat(c, i) /\ ~Replayed(c, i, v)

HasCredit(c) == mem[c] = "live" /\ left[c] # 0

\* findMembershipByBooking finds a row for the booking.
HasLedgerRow(b) == b \in charged \cup linked

-----------------------------------------------------------------------------
(* Writing the tables *)

Minus(n, k) == IF n > k THEN n - k ELSE 0

\* The insert of the rows in B, the one for b in class at[b], and the count;
\* the commit gives the locks back.
Insert(B, at, c, st, v, f) ==
    /\ status' = [b \in Ids |-> IF b \in B THEN st ELSE status[b]]
    /\ client' = [b \in Ids |-> IF b \in B THEN c ELSE client[b]]
    /\ inst'   = [b \in Ids |-> IF b \in B THEN at[b] ELSE inst[b]]
    /\ from'   = [b \in Ids |-> IF b \in B THEN f ELSE from[b]]
    /\ via'    = [b \in Ids |-> IF b \in B THEN v ELSE via[b]]
    /\ bookedCount' = [i \in Instances |->
          IF \E b \in B : at[b] = i THEN bookedCount[i] + 1 ELSE bookedCount[i]]
    /\ quoted' = [i \in Instances |-> IF \E b \in B : at[b] = i THEN 0 ELSE quoted[i]]
    /\ UNCHANGED <<stale, closed, capacity>>

Release(B) ==
    bookedCount' = [i \in Instances |->
        Minus(bookedCount[i], Cardinality({b \in B : inst[b] = i}))]

FaultyDeduct(c, B) ==
    /\ charged' = charged \cup B
    /\ left' = [left EXCEPT ![c] = left[c] - Cardinality(B)]
\* deductSession for each booking of B: the ledger row always, the counter
\* only while it is positive.
Deduct(c, B) ==
    /\ charged' = charged \cup B
    /\ left' = [left EXCEPT ![c] = Minus(left[c], Cardinality(B))]

\* findMembershipByBooking, then restoreCredit under the given key.
Restorable(b, key) == /\ HasLedgerRow(b)
                      /\ mem[client[b]] = "live"
                      /\ left[client[b]] # Unlimited
                      /\ <<b, key>> \notin refunded

RestoreCredit(B, key) ==
    LET R == {b \in B : Restorable(b, key)} IN
    /\ refunded' = refunded \cup (R \X {key})
    /\ left' = [c \in Clients |->
          IF left[c] = Unlimited THEN Unlimited
          ELSE left[c] + Cardinality({b \in R : client[b] = c})]

SetStatus(B, st) == /\ status' = [b \in Ids |-> IF b \in B THEN st ELSE status[b]]
                    /\ stale' = stale \ B

OnlyStatus == UNCHANGED <<client, inst, from, via>>

-----------------------------------------------------------------------------
Init ==
    /\ status = [b \in Ids |-> "none"]
    /\ client = [b \in Ids |-> None]
    /\ inst = [b \in Ids |-> None]
    /\ from = [b \in Ids |-> None]
    /\ via = [b \in Ids |-> None]
    /\ stale = {}
    /\ bookedCount = [i \in Instances |-> 0]
    /\ closed = {}
    /\ capacity \in 1..MaxCapacity
    /\ quoted = [i \in Instances |-> 0]
    /\ mem = [c \in Clients |-> "none"]
    /\ left = [c \in Clients |-> 0]
    /\ charged = {} /\ linked = {} /\ refunded = {}
    /\ sweep = {}
    /\ handler = [h \in Handlers |-> Idle]

-----------------------------------------------------------------------------
(* Booking *)

FaultyLockClass(i) ==
    /\ Unlocked(i) /\ Room(i)
    /\ quoted' = [quoted EXCEPT ![i] = capacity]
    /\ UNCHANGED <<rowVars, bookedCount, closed, capacity, creditVars, procVars>>
\* bookSessionInstance locks the row of a class that takes place, reads the
\* capacity and finds room.  Where it answers full or conflict instead, it
\* writes nothing.
LockClass(i) ==
    /\ Unlocked(i)
    /\ i \notin closed
    /\ Room(i)
    /\ quoted' = [quoted EXCEPT ![i] = capacity]
    /\ UNCHANGED <<rowVars, bookedCount, closed, capacity, creditVars, procVars>>

\* The transaction ends without a booking: a conflict, a replay, a roll back.
UnlockClass(i) ==
    /\ ~Unlocked(i)
    /\ quoted' = [quoted EXCEPT ![i] = 0]
    /\ UNCHANGED <<rowVars, bookedCount, closed, capacity, creditVars, procVars>>

\* checkEnforcementAndGetMembership, then bookSessionInstance for the classes
\* that can be booked, and the commit.  One membership snapshot serves all of them.
BookByClient(c, B, at, v) ==
    /\ Cardinality(B) > 1 => v = "chat" /\ AllowMulti
    /\ \A b \in B : Bookable(c, at[b], v)
    /\ Policy = "block" => HasCredit(c)
    /\ Insert(B, at, c, "pending", v, None)
    /\ IF HasCredit(c) /\ left[c] # Unlimited
          THEN Deduct(c, B)
          ELSE UNCHANGED <<left, charged>>
    /\ UNCHANGED <<mem, linked, refunded, procVars>>

\* The owner seats a client: confirmed at once, and charged to a live finite
\* pack even when nothing is left of it.
AssignByOwner(c, b, i) ==
    /\ Bookable(c, i, "assign")
    /\ Insert({b}, [x \in {b} |-> i], c, "confirmed", "assign", None)
    /\ IF mem[c] = "live" /\ left[c] # Unlimited
          THEN Deduct(c, {b})
          ELSE UNCHANGED <<left, charged>>
    /\ UNCHANGED <<mem, linked, refunded, procVars>>

\* The owner grants a client without credit an exception: never charged.
ApproveException(c, b, i) ==
    /\ Bookable(c, i, "exception")
    /\ Insert({b}, [x \in {b} |-> i], c, "confirmed", "exception", None)
    /\ UNCHANGED <<creditVars, procVars>>

\* reschedule_session reads the booking to move ...
RescheduleRead(h, b) ==
    /\ handler[h] = Idle
    /\ Active(b)
    /\ handler' = [handler EXCEPT ![h] = [op |-> "move", id |-> b]]
    /\ UNCHANGED <<rowVars, seatVars, creditVars, sweep>>

\* ... and books the new class, whatever has become of the old booking.
RescheduleWrite(h, b, i) ==
    LET old == handler[h].id IN
    /\ handler[h].op = "move"
    /\ Bookable(client[old], i, "chat")
    /\ Insert({b}, [x \in {b} |-> i], client[old], "pending", "chat", old)
    /\ linked' = IF HasLedgerRow(old) THEN linked \cup {b} ELSE linked
    /\ handler' = [handler EXCEPT ![h] = Idle]
    /\ UNCHANGED <<mem, left, charged, refunded, sweep>>

-----------------------------------------------------------------------------
(* Cancelling by the client *)

\* forfeit: inside the cancellation cutoff the chat cancels without a refund.
CancelRead(h, b, forfeit) ==
    /\ handler[h] = Idle
    /\ Active(b)
    /\ handler' = [handler EXCEPT ![h] = [op |-> "cancel", id |-> b, forfeit |-> forfeit]]
    /\ UNCHANGED <<rowVars, seatVars, creditVars, sweep>>

\* The status is overwritten without a look at it, and no seat is released.
CancelWrite(h) ==
    /\ handler[h].op = "cancel"
    /\ LET B == {handler[h].id} \ {b \in Ids : status[b] = "deleted"} IN
          /\ SetStatus(B, "cancelled")
          /\ IF handler[h].forfeit THEN UNCHANGED <<left, refunded>>
                                   ELSE RestoreCredit(B, "credit")
    /\ handler' = [handler EXCEPT ![h] = Idle]
    /\ OnlyStatus
    /\ UNCHANGED <<seatVars, mem, charged, linked, sweep>>

-----------------------------------------------------------------------------
(* The owner's answer *)

FaultyAwaitsOwner(b) == status[b] \in {"pending", "cancelled", "rejected", "expired"}
AwaitsOwner(b) == status[b] = "pending"

FaultySuperseded(b) == {}
\* The booking that b was to replace, if it still exists.
Superseded(b) == {from[b]} \ ({None} \cup {x \in Ids : status[x] = "deleted"})

Approve(b) ==
    /\ AwaitsOwner(b)
    /\ status' = [x \in Ids |-> IF x = b THEN "confirmed"
                                ELSE IF x \in Superseded(b) THEN "cancelled"
                                ELSE status[x]]
    /\ stale' = stale \ ({b} \cup Superseded(b))
    /\ OnlyStatus
    /\ UNCHANGED <<seatVars, creditVars, procVars>>

\* A rejected reschedule keeps its credit: the old booking spent it.
Reject(b) ==
    /\ AwaitsOwner(b) /\ Unlocked(inst[b])
    /\ SetStatus({b}, "rejected")
    /\ Release({b})
    /\ RestoreCredit({x \in {b} : from[x] = None}, "credit")
    /\ OnlyStatus
    /\ UNCHANGED <<closed, capacity, quoted, mem, charged, linked, procVars>>

-----------------------------------------------------------------------------
(* Expiry *)

\* Two hours pass without an answer.
Age(b) ==
    /\ status[b] = "pending" /\ b \notin stale
    /\ stale' = stale \cup {b}
    /\ UNCHANGED <<status, client, inst, from, via, seatVars, creditVars, procVars>>

FaultyOverdue == {b \in stale : from[b] = None}
Overdue == {b \in stale : status[b] = "pending"}

\* The poller's UPDATE ... RETURNING; the rows come back to the process.
SweepExpire ==
    /\ Overdue # {}
    /\ SetStatus(Overdue, "expired")
    /\ sweep' = sweep \cup Overdue
    /\ OnlyStatus
    /\ UNCHANGED <<seatVars, creditVars, handler>>

\* ... and are released one transaction each.
SweepRelease(b) ==
    /\ b \in sweep /\ Unlocked(inst[b])
    /\ sweep' = sweep \ {b}
    /\ Release({b})
    /\ RestoreCredit({b}, "credit")
    /\ UNCHANGED <<rowVars, closed, capacity, quoted, mem, charged, linked, handler>>

\* A release that throws is logged and never tried again.
SweepReleaseFails(b) ==
    /\ b \in sweep
    /\ sweep' = sweep \ {b}
    /\ UNCHANGED <<rowVars, seatVars, creditVars, handler>>

\* A business without a bot token: the rows are dropped.
SweepSkips ==
    /\ sweep # {}
    /\ sweep' = {}
    /\ UNCHANGED <<rowVars, seatVars, creditVars, handler>>

\* The availability check runs the same UPDATE and drops the rows.
AvailabilityExpire ==
    /\ Overdue # {}
    /\ SetStatus(Overdue, "expired")
    /\ OnlyStatus
    /\ UNCHANGED <<seatVars, creditVars, procVars>>

-----------------------------------------------------------------------------
(* The class *)

FaultyCascade(i) == {b \in ActiveOn(i) : status[b] = "confirmed"}
Cascade(i) == ActiveOn(i)

\* cancelSession and cascadeCancelSessionBookings share one transaction.
CancelClass(i) ==
    /\ i \notin closed /\ Unlocked(i)
    /\ closed' = closed \cup {i}
    /\ SetStatus(Cascade(i), "cancelled")
    /\ RestoreCredit(Cascade(i), "lesson")
    /\ Release(Cascade(i))
    /\ OnlyStatus
    /\ UNCHANGED <<capacity, quoted, mem, charged, linked, procVars>>

\* create_recurring_session on a service that has a catalog entry replaces
\* its capacity, whatever has been booked or is being booked.
SetCapacity(n) ==
    /\ capacity' = n
    /\ UNCHANGED <<rowVars, bookedCount, closed, quoted, creditVars, procVars>>

-----------------------------------------------------------------------------
(* The client's pack *)

Unbilled(c) == {b \in Ids : Active(b) /\ client[b] = c /\ ~HasLedgerRow(b)}

\* createMembership reads the bookings nobody paid for ...
RenewRead(h, c, p) ==
    /\ handler[h] = Idle
    /\ handler' = [handler EXCEPT ![h] =
          [op |-> "renew", client |-> c, pack |-> p,
           unbilled |-> IF p = Unlimited THEN {} ELSE Unbilled(c)]]
    /\ UNCHANGED <<rowVars, seatVars, creditVars, sweep>>

\* ... replaces the membership row, and charges them to the new pack.  A row
\* erased since fails the ledger's foreign key: the transaction rolls back.
RenewWrite(h) ==
    /\ handler[h].op = "renew"
    /\ \A b \in handler[h].unbilled : status[b] # "deleted"
    /\ LET job == handler[h] IN
          /\ mem' = [mem EXCEPT ![job.client] = "live"]
          /\ left' = [left EXCEPT ![job.client] =
                IF job.pack = Unlimited THEN Unlimited
                ELSE Minus(job.pack, Cardinality(job.unbilled))]
          /\ charged' = charged \cup {b \in job.unbilled : ~HasLedgerRow(b)}
    /\ handler' = [handler EXCEPT ![h] = Idle]
    /\ UNCHANGED <<rowVars, seatVars, linked, refunded, sweep>>

MembershipExpires(c) ==
    /\ mem[c] = "live"
    /\ mem' = [mem EXCEPT ![c] = "expired"]
    /\ UNCHANGED <<rowVars, seatVars, left, charged, linked, refunded, procVars>>

\* The owner erases a client: ledger, membership, bookings.
DeleteClient(c) ==
    LET B == {b \in Ids : client[b] = c} IN
    /\ SetStatus(B, "deleted")
    /\ charged' = charged \ B
    /\ linked' = linked \ B
    /\ refunded' = {r \in refunded : r[1] \notin B}
    /\ mem' = [mem EXCEPT ![c] = "none"]
    /\ left' = [left EXCEPT ![c] = 0]
    /\ OnlyStatus
    /\ UNCHANGED <<seatVars, procVars>>

-----------------------------------------------------------------------------
(* Failures *)

\* The write is refused, or its transaction rolls back.
HandlerAborts(h) ==
    /\ handler[h] # Idle
    /\ handler' = [handler EXCEPT ![h] = Idle]
    /\ UNCHANGED <<rowVars, seatVars, creditVars, sweep>>

\* The process restarts; only the tables survive, and the transactions under
\* way roll back.
Crash ==
    /\ handler' = [h \in Handlers |-> Idle]
    /\ sweep' = {}
    /\ quoted' = [i \in Instances |-> 0]
    /\ UNCHANGED <<rowVars, bookedCount, closed, capacity, creditVars>>

-----------------------------------------------------------------------------
\* New rows, each for a class of its own.
Places(B) == {at \in [B -> Instances] : \A x, y \in B : at[x] = at[y] => x = y}

Locks == \E i \in Instances : LockClass(i) \/ UnlockClass(i)

ClientBooks ==
    \E c \in Clients, B \in SUBSET Unused \ {{}}, v \in {"chat", "menu"} :
       \E at \in Places(B) : BookByClient(c, B, at, v)

OwnerBooks ==
    \E c \in Clients, b \in Unused, i \in Instances :
       AssignByOwner(c, b, i) \/ ApproveException(c, b, i)

Reschedules ==
    \E h \in Handlers, b \in Ids :
       \/ RescheduleRead(h, b)
       \/ b \in Unused /\ \E i \in Instances : RescheduleWrite(h, b, i)

ClientCancels ==
    \E h \in Handlers :
       \/ \E b \in Ids, forfeit \in BOOLEAN : CancelRead(h, b, forfeit)
       \/ CancelWrite(h)

OwnerAnswers == \E b \in Ids : Approve(b) \/ Reject(b)

Expires == \/ \E b \in Ids : Age(b) \/ SweepRelease(b) \/ SweepReleaseFails(b)
           \/ SweepExpire \/ SweepSkips \/ AvailabilityExpire

OwnerRunsClass == \/ \E i \in Instances : CancelClass(i)
                  \/ \E n \in 1..MaxCapacity : SetCapacity(n)

Renews == \E h \in Handlers : \/ \E c \in Clients, p \in Packs : RenewRead(h, c, p)
                             \/ RenewWrite(h)

PackChanges == \E c \in Clients : MembershipExpires(c) \/ DeleteClient(c)

Fails == Crash \/ \E h \in Handlers : HandlerAborts(h)

Next == \/ Locks \/ ClientBooks \/ OwnerBooks \/ Reschedules 
        \/ ClientCancels \/ OwnerAnswers \/ Expires \/ OwnerRunsClass \/ Renews \/ PackChanges
        \/ Fails

Spec == Init /\ [][Next]_vars

\* The clock runs, and the poller's timer fires every five minutes for as
\* long as the process is restarted after a crash.
Fairness == /\ \A b \in Ids : WF_vars(Age(b))
            /\ WF_vars(SweepExpire)

FairSpec == Spec /\ Fairness

-----------------------------------------------------------------------------
(* What the code guarantees *)

\* The count never runs below the seats in use: every active booking and
\* every expired one still to be released is in it.  It is what makes the
\* full check of bookSessionInstance sound, whatever the release paths do.
SeatsCovered == \A i \in Instances : Cardinality(Held(i)) <= bookedCount[i]

\* Every row the poller has yet to release is one that will not come back.
SweptAreFinal == \A b \in sweep : status[b] \in FinalStatuses

\* A step that adds a seat to a class leaves it with no more seats than the
\* capacity that was read under the lock on its row: not several clients at
\* once, not a reschedule, not the owner's override put one more in, however
\* much of the count was released since.  The capacity of the moment may be
\* lower: the owner cut it while the booking was under way.
NeverOverbooks ==
    [][\A i \in Instances :
          Cardinality(ActiveOn(i)') > Cardinality(ActiveOn(i))
             => Cardinality(ActiveOn(i)') <= quoted[i]]_vars

\* A booking that was cancelled, rejected, expired or erased never becomes
\* active again, however late the owner taps a button or a job resumes.
OutcomeIsFinal ==
    [][\A b \in Ids : status[b] \in FinalStatuses => status'[b] \in FinalStatuses]_vars

\* Nobody holds a seat in a class that was called off: not a request that
\* was under way, not a pending booking approved afterwards.
ClosedClassEmpty == \A i \in closed : ActiveOn(i) = {}

\* A client who got the credit back does not also keep the seat.
NoRefundedSeat == \A r \in refunded : ~Active(r[1])

\* Once a reschedule is confirmed, the client no longer holds the old seat.
SupersededReleased ==
    \A b \in Ids : status[b] = "confirmed" /\ from[b] # None => ~Active(from[b])

\* The tables implement what ClassSeats promises: a row is a seat of its
\* client as long as it is active.
Holders(i) == {client[b] : b \in ActiveOn(i)}
Seats == INSTANCE ClassSeats WITH holders <- [i \in Instances |-> Holders(i)]
ImplementsClassSeats == Seats!Spec

\* Every request for a class is answered or expires.
PendingResolved == \A b \in Ids : status[b] = "pending" ~> status[b] # "pending"

-----------------------------------------------------------------------------
(* What its comments promise and the code does not keep *)

\* A booking's credit is given back once, though the client's cancel and the
\* cascade race for it ("some other path already owns its restore").
RefundedOnce == \A b \in Ids : ~({<<b, "credit">>, <<b, "lesson">>} \subseteq refunded)

\* When the owner approves a reschedule linked to its original's ledger row,
\* the original's credit is still spent ("still the only one ever spent").
RescheduleStillPaid ==
    [][\A b \in linked : status[b] = "pending" /\ status'[b] = "confirmed"
          => <<from[b], "credit">> \notin refunded]_vars
=============================================================================
