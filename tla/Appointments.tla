---------------------------- MODULE Appointments ----------------------------
(***************************************************************************)
(* Open-slot bookings of one business on one day: a client asks in the     *)
(* chat for a service at a time, the owner answers, and either side may    *)
(* change its mind.  When nothing is free, the client's wish is kept as a  *)
(* slotless request, which the owner turns into a booking.                 *)
(*                                                                         *)
(* Times are half hours.  A service is known by its length.  An action is  *)
(* a transaction, or the statement that decides it; a tool that reads a    *)
(* booking and acts on it later is two actions, as READ COMMITTED lets     *)
(* others commit between them.  A transaction that fails changes nothing.  *)
(*                                                                         *)
(* A definition Faulty<X>, before X, is X with a mistake in it, to show    *)
(* that a property can fail.                                               *)
(***************************************************************************)
EXTENDS Integers, FiniteSets

CONSTANTS
    Ids,            \* booking rows this model may create
    Clients,
    MaxRequests,    \* bound on slotless requests
    Handlers,       \* chat turns between a read and a write
    Lengths,        \* services.duration_min
    Starts,         \* the times clients ask for
    Ranges,         \* business_hours: <<open, close>> of the day
    Noon,           \* the clock of this model shows midnight, then this
    Cutoff,         \* cancellation_cutoff_hours
    Pack,           \* memberships.sessions_remaining at the start
    Policy,         \* enforcement_policy
    KeepWishes,     \* slotless_requests_enabled
    None

Requests == [client : Clients, start : Starts, length : Lengths]
\* via: the slotless request a booking was made from.
Rows     == [client : Clients, start : Starts, length : Lengths,
             from : Ids \cup {None}, via : Requests \cup {None}]

ASSUME IdsAssumption == IsFiniteSet(Ids)
ASSUME NoneAssumption == None \notin Ids \cup Requests \cup Rows
ASSUME TimesAssumption ==
    /\ Lengths \subseteq Nat \ {0} /\ Starts \subseteq Nat
    /\ Ranges \subseteq Nat \X (0..48)
    /\ MaxRequests \in Nat /\ Noon \in Nat /\ Cutoff \in Nat /\ Pack \in Nat
ASSUME PolicyAssumption == Policy \in {"block", "allow"} /\ KeepWishes \in BOOLEAN

VARIABLES
    status,         \* bookings.booking_status, "none" while the row is unused
    row,            \* the rest of the booking
    live,           \* clients whose membership is active and not past expires_at
    left,           \* memberships.sessions_remaining
    charged,        \* bookings with a session_deducted row of one session
    linked,         \* bookings with a session_deducted row of none
    refunded,       \* bookings with a credit_restored row
    request,        \* slotless_requests.status, "none" without a row
    turn,           \* what a chat turn has read
    now

ledger == <<left, charged, linked, refunded>>
vars   == <<status, row, live, ledger, request, turn, now>>

Idle     == [op |-> "idle"]
Turns    == {Idle} \cup [op : {"cancel"}, id : Ids, forfeit : BOOLEAN]
                   \cup [op : {"move"}, id : Ids]

TypeOK ==
    /\ status \in [Ids -> {"none", "pending", "confirmed", "cancelled", "rejected", "expired"}]
    /\ row \in [Ids -> Rows \cup {None}]
    /\ \A b \in Ids : row[b] = None <=> status[b] = "none"
    /\ \A b \in Ids : row[b] # None /\ row[b].from # None
                         => row[row[b].from] # None /\ row[row[b].from].client = row[b].client
    /\ live \in SUBSET Clients
    /\ left \in [Clients -> Nat]
    /\ charged \in SUBSET Ids /\ linked \in SUBSET Ids /\ refunded \in SUBSET Ids
    /\ refunded \subseteq charged \cup linked
    /\ \A b \in charged \cup linked : row[b] # None
    /\ request \in [Requests -> {"none", "pending", "approved", "rejected"}]
    /\ turn \in [Handlers -> Turns]
    /\ \A h \in Handlers : turn[h] # Idle => row[turn[h].id] # None
    /\ now \in {0, Noon}

Init ==
    /\ status = [b \in Ids |-> "none"]
    /\ row = [b \in Ids |-> None]
    /\ live \in SUBSET Clients
    /\ left = [c \in Clients |-> Pack]
    /\ charged = {} /\ linked = {} /\ refunded = {}
    /\ request = [r \in Requests |-> "none"]
    /\ turn = [h \in Handlers |-> Idle]
    /\ now = 0

-----------------------------------------------------------------------------
(* Availability *)

Active(b) == status[b] \in {"pending", "confirmed"}

FaultyClash(s, n, b) == s < row[b].start + n /\ row[b].start < s + n
\* An appointment of length n at s overlaps booking b, which lasts as long
\* as its own service.
Clash(s, n, b) == s < row[b].start + row[b].length /\ row[b].start < s + n

\* candidatesForRange: full hours, from the hour of the opening on, that end
\* by the closing time.
Candidates(n) ==
    UNION {{s \in ((r[1] \div 2) * 2)..r[2] : s % 2 = 0 /\ s + n <= r[2]} : r \in Ranges}

\* checkAvailability
Offers(n) == {s \in Candidates(n) : s > now /\ \A b \in Ids : Active(b) => ~Clash(s, n, b)}

-----------------------------------------------------------------------------
(* Booking *)

FaultySlotFree(s) == \A b \in Ids : status[b] = "confirmed" => row[b].start # s
\* unique_active_slot_per_business: no active booking starts at this time.
SlotFree(s) == \A b \in Ids : Active(b) => row[b].start # s

HasCredit(c) == c \in live /\ left[c] > 0

Insert(b, c, s, n, o, r, st) ==
    /\ status[b] = "none"
    /\ status' = [status EXCEPT ![b] = st]
    /\ row' = [row EXCEPT ![b] = [client |-> c, start |-> s, length |-> n, from |-> o, via |-> r]]

\* deductSession, by whoever holds the membership's lock.
Charge(b, c) ==
    /\ IF HasCredit(c)
          THEN /\ charged' = charged \cup {b}
               /\ left' = [left EXCEPT ![c] = @ - 1]
          ELSE UNCHANGED <<charged, left>>
    /\ UNCHANGED <<linked, refunded>>

FaultyRefundable(b) == b \in charged \cup linked /\ row[b].client \in live
FaultyMatched(b) == row[b].client \in live /\ b \notin refunded
\* findMembershipByBooking finds a membership, restoreCredit finds it not
\* expired and its ledger row new.
Refundable(b) == /\ b \in charged \cup linked
                 /\ row[b].client \in live
                 /\ b \notin refunded

Refund(b) ==
    /\ IF Refundable(b)
          THEN /\ refunded' = refunded \cup {b}
               /\ left' = [left EXCEPT ![row[b].client] = @ + 1]
          ELSE UNCHANGED <<refunded, left>>
    /\ UNCHANGED <<charged, linked>>

\* bookAppointmentTool inserts: the time the client named is not compared
\* with the availability.
Book(c, s, n) ==
    /\ HasCredit(c) \/ Policy # "block"
    /\ KeepWishes => Offers(n) # {}
    /\ SlotFree(s)
    /\ \E b \in Ids : Insert(b, c, s, n, None, None, "pending") /\ Charge(b, c)
    /\ UNCHANGED <<live, request, turn, now>>

\* The same with no time left, which keeps the wish: once for every client,
\* service and time, and one at a time for every client and service.
Submit(c, s, n) ==
    LET r == [client |-> c, start |-> s, length |-> n] IN
    /\ HasCredit(c) \/ Policy # "block"
    /\ KeepWishes /\ Offers(n) = {} /\ request[r] = "none"
    /\ \A q \in Requests : q.client = c /\ q.length = n => request[q] # "pending"
    /\ Cardinality({q \in Requests : request[q] # "none"}) < MaxRequests
    /\ request' = [request EXCEPT ![r] = "pending"]
    /\ UNCHANGED <<status, row, live, ledger, turn, now>>

-----------------------------------------------------------------------------
(* Moving and cancelling *)

Read(h, job) ==
    /\ turn[h] = Idle /\ Active(job.id)
    /\ turn' = [turn EXCEPT ![h] = job]
    /\ UNCHANGED <<status, row, live, ledger, request, now>>

Close(h) == turn' = [turn EXCEPT ![h] = Idle]

MoveRead(h, b) == Read(h, [op |-> "move", id |-> b])

\* rescheduleAppointmentTool adds a pending booking that names the original;
\* its ledger row charges nothing.
Move(h, s, n) ==
    LET o == turn[h].id IN
    /\ turn[h].op = "move" /\ SlotFree(s)
    /\ \E b \in Ids :
          /\ Insert(b, row[o].client, s, n, o, None, "pending")
          /\ linked' = IF o \in charged \cup linked THEN linked \cup {b} ELSE linked
    /\ Close(h)
    /\ UNCHANGED <<live, left, charged, refunded, request, now>>

MoveTaken(h) ==
    /\ turn[h].op = "move" /\ \E s \in Starts : ~SlotFree(s)
    /\ Close(h)
    /\ UNCHANGED <<status, row, live, ledger, request, now>>

\* Within the cutoff the client confirms that the session is forfeited.
CancelRead(h, b) ==
    Read(h, [op |-> "cancel", id |-> b, forfeit |-> row[b] # None /\ row[b].start - now < Cutoff])

\* cancelAppointmentTool writes whatever the status is by now.
Cancel(h) ==
    LET b == turn[h].id IN
    /\ turn[h].op = "cancel"
    /\ status' = [status EXCEPT ![b] = "cancelled"]
    /\ IF turn[h].forfeit THEN UNCHANGED ledger ELSE Refund(b)
    /\ Close(h)
    /\ UNCHANGED <<row, live, request, now>>

-----------------------------------------------------------------------------
(* The owner's answers *)

FaultyAwaits(b) == status[b] \notin {"none", "confirmed"}
\* updateBookingStatusIfPending
Awaits(b) == status[b] = "pending"

FaultySuperseded(b) == {o \in Ids : row[b].from = o /\ Awaits(o)}
\* What the approval of b cancels, whatever its status.
Superseded(b) == {o \in Ids : row[b].from = o}

Approve(b) ==
    /\ Awaits(b)
    /\ status' = [x \in Ids |-> IF x = b THEN "confirmed"
                                ELSE IF x \in Superseded(b) THEN "cancelled" ELSE status[x]]
    /\ UNCHANGED <<row, live, ledger, request, turn, now>>

Reject(b) ==
    /\ Awaits(b)
    /\ status' = [status EXCEPT ![b] = "rejected"]
    /\ Refund(b)
    /\ UNCHANGED <<row, live, request, turn, now>>

\* expireStalePendingBookings, by the poller or before a look at the
\* availability; how old a booking is, is left open.
Expire(S) ==
    /\ \A b \in S : status[b] = "pending"
    /\ status' = [b \in Ids |-> IF b \in S THEN "expired" ELSE status[b]]
    /\ UNCHANGED <<row, live, ledger, request, turn, now>>

FaultyUndecided(r) == request[r] \in {"pending", "approved"}
\* Approve and reject look at the status under the row's lock.
Undecided(r) == request[r] = "pending"

\* approveSlotlessRequest goes through: the client has a membership, used up
\* or not, and no booking starts at the time.
Grant(r) ==
    /\ Undecided(r) /\ r.client \in live /\ SlotFree(r.start)
    /\ request' = [request EXCEPT ![r] = "approved"]
    /\ \E b \in Ids : /\ Insert(b, r.client, r.start, r.length, None, r, "confirmed")
                      /\ Charge(b, r.client)
    /\ UNCHANGED <<live, turn, now>>

\* rejectSlotlessRequest
Decline(r) ==
    /\ Undecided(r)
    /\ request' = [request EXCEPT ![r] = "rejected"]
    /\ UNCHANGED <<status, row, live, ledger, turn, now>>

-----------------------------------------------------------------------------
(* Time *)

\* A membership reaches expires_at.
Lapse(c) ==
    /\ live' = live \ {c} /\ c \in live
    /\ UNCHANGED <<status, row, ledger, request, turn, now>>

Tick ==
    /\ now # Noon /\ now' = Noon
    /\ UNCHANGED <<status, row, live, ledger, request, turn>>

Next ==
    \/ \E c \in Clients, s \in Starts, n \in Lengths : Book(c, s, n) \/ Submit(c, s, n)
    \/ \E h \in Handlers : \/ \E b \in Ids : MoveRead(h, b) \/ CancelRead(h, b)
                           \/ \E s \in Starts, n \in Lengths : Move(h, s, n)
                           \/ MoveTaken(h) \/ Cancel(h)
    \/ \E b \in Ids : Approve(b) \/ Reject(b)
    \/ \E S \in SUBSET Ids : Expire(S)
    \/ \E r \in Requests : Grant(r) \/ Decline(r)
    \/ \E c \in Clients : Lapse(c)
    \/ Tick

Spec == Init /\ [][Next]_vars

-----------------------------------------------------------------------------
\* The bookings in force that start at s.
At(s) == {b \in Ids : Active(b) /\ row[b].start = s}

Page   == [s \in Starts |-> IF At(s) = {} THEN None ELSE CHOOSE b \in At(s) : TRUE]
Known  == {b \in Ids : row[b] # None}
Moves  == [b \in Ids |-> IF row[b] = None THEN None ELSE row[b].from]
Agreed == {b \in Ids : status[b] = "confirmed"}

Diary == INSTANCE SlotDiary WITH Times <- Starts, Entries <- Ids, page <- Page,
                                 known <- Known, moves <- Moves, agreed <- Agreed

\* However requests, moves, answers, cancels and granted wishes overlap, the
\* business has one appointment at a time, a booking that was turned down,
\* cancelled or expired takes no place again, and a move the owner approves
\* frees the old time in the same step.
ImplementsDiary == Diary!Spec

\* Once the owner has approved a move, the client does not hold the old
\* time beside the new one, whatever happened to it in the meantime.
ReplacedIsReleased ==
    \A b \in Ids : status[b] = "confirmed" /\ row[b].from # None => ~Active(row[b].from)

\* A session that was given back pays for nothing: a tap on an old approve
\* button does not bring its booking back.
RefundedIsOver == \A b \in refunded : ~Active(b)

\* The counter on the membership agrees with its ledger, although a cancel,
\* a reject and another cancel may all settle the same booking.
LedgerBalances ==
    \A c \in Clients :
       LET Of(S) == Cardinality({b \in S : row[b].client = c})
       IN  left[c] + Of(charged) = Pack + Of(refunded)

\* A wish the owner granted is one booking, and no other wish is.
GrantedOnce ==
    \A r \in Requests :
       Cardinality({b \in Ids : row[b] # None /\ row[b].via = r})
          = (IF request[r] = "approved" THEN 1 ELSE 0)

Free(u) == \A b \in Ids : Active(b) => u \notin row[b].start..(row[b].start + row[b].length - 1)

\* A full hour still to come is offered exactly if the business is open for
\* the whole service and nobody is expected in any of the half hours it takes:
\* of a business that opens on the hour.  The minutes of openTime are dropped,
\* and one that opens at half past is offered half an hour too early, the gap
\* that a review of the code notes (02-REVIEW.md, WR-01).
OffersAreRight ==
    \A n \in Lengths :
       Offers(n) = {s \in {u \in 0..48 : u % 2 = 0} :
                       /\ s > now
                       /\ \E r \in Ranges : r[1] <= s /\ s + n <= r[2]
                       /\ \A u \in s..(s + n - 1) : Free(u)}
=============================================================================
