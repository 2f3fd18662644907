------------------------------ MODULE Calendar ------------------------------
(***************************************************************************)
(* The bookings of one business and the owner's Google Calendar: events    *)
(* are made in the callback that confirms a booking, removed in the        *)
(* handler that cancels it, and both are retried by a poller.  The owner   *)
(* connects the calendar with a single-use link and may lose it again.     *)
(*                                                                         *)
(* Nothing keeps a run of the poller from starting while an earlier one,   *)
(* or the one of another process, is still at work, and two handlers may   *)
(* cancel the same booking.                                                *)
(*                                                                         *)
(* A handler's database writes become visible when its transaction         *)
(* commits; what it did to the calendar stays when it rolls back.  A call  *)
(* to Google may time out after it took effect.                            *)
(*                                                                         *)
(* Google is external.  A definition Faulty<X>, before X, is X with a      *)
(* mistake in it, to show that a property can fail.                        *)
(***************************************************************************)
EXTENDS Naturals, FiniteSets

CONSTANTS
    NBookings,      \* bookings are numbered by date
    Events,         \* bound on the events ever made
    Links,          \* bound on connect links; a link's token has its name
    BatchLimit,     \* CALENDAR_SYNC_BATCH_LIMIT
    MaxRetries,     \* MAX_CALENDAR_SYNC_RETRIES
    Sweeps,         \* runs of the poller that may overlap
    Cancels,        \* cancellations handled at the same time
    None, Unused    \* no value; the name of an event still to be made

ASSUME NumbersAssumption ==
    /\ NBookings \in Nat \ {0} /\ BatchLimit \in Nat \ {0}
    /\ MaxRetries \in Nat \ {0}
ASSUME NamesAssumption == /\ {None, Unused} \cap (Events \cup Links \cup (1..NBookings)) = {}
                         /\ None # Unused
ASSUME LinksAssumption == IsFiniteSet(Links)

VARIABLES
    status,         \* bookings.booking_status
    sync,           \* bookings.calendar_sync_status
    event,          \* bookings.google_calendar_event_id
    retries,        \* bookings.calendar_sync_retry_count
    calendar,       \* the booking an event is about, None once removed
    token,          \* businesses.google_refresh_token
    good,           \* tokens Google accepts
    link,           \* google_oauth_states
    exchanges,      \* callbacks exchanging the code of a link
    connected,      \* history: how often a link's callback stored a token
    notices,        \* history: reconnect messages sent to the owner
    owner,          \* the callback that confirms a booking
    client,         \* the handlers that cancel a booking
    poller          \* the runs of runCalendarSyncSweep

rows   == <<status, sync, event, retries>>
oauth  == <<good, link, exchanges, connected>>
vars   == <<rows, calendar, token, oauth, notices, owner, client, poller>>

Bookings == 1..NBookings
Idle     == [at |-> "idle"]
Maybe(S) == S \cup {None}
Results  == {"ok", "lost", "revoked", "skip"}
Syncs    == {"pending", "synced", "failed"}
Row      == [b : Bookings, confirmed : BOOLEAN, ev : Maybe(Events)]
\* What a sweep does next about the first row of its batch.
Job      == [at : {"row", "store", "ok", "lost", "revoked", "revoke", "check", "count", "giveup"},
             tok : Links, batch : SUBSET Row, ev : Maybe(Events)]

TypeOK ==
    /\ status \in [Bookings -> {"pending", "confirmed", "cancelled", "over"}]
    /\ sync \in [Bookings -> Syncs]
    /\ event \in [Bookings -> Maybe(Events)]
    /\ retries \in [Bookings -> 0..MaxRetries]
    /\ calendar \in [Events -> Maybe(Bookings) \cup {Unused}]
    /\ token \in Maybe(Links) /\ good \subseteq Links
    /\ link \in [Links -> {"unissued", "issued", "gone"}]
    /\ exchanges \in [Links -> {0, 1}] /\ connected \in [Links -> {0, 1}]
    /\ notices \in Nat
    /\ owner \in {Idle} \cup [at : {"call"}, b : Bookings, tok : Maybe(Links)]
                        \cup [at : {"commit"}, b : Bookings, ev : Maybe(Events), sync : Syncs]
    /\ client \in [Cancels -> {Idle} \cup [at : {"read"}, b : Bookings, ev : Maybe(Events)]
                                   \cup [at : {"commit"}, b : Bookings, sync : Syncs]]
    /\ poller \in [Sweeps -> {Idle} \cup Job]

Init ==
    /\ status = [b \in Bookings |-> "pending"]
    /\ sync = [b \in Bookings |-> "pending"]
    /\ event = [b \in Bookings |-> None]
    /\ retries = [b \in Bookings |-> 0]
    /\ calendar = [e \in Events |-> Unused]
    /\ \E S \in SUBSET Links :
          /\ Cardinality(S) <= 1
          /\ good = S
          /\ token = IF S = {} THEN None ELSE CHOOSE t \in S : TRUE
          /\ link = [l \in Links |-> IF l \in S THEN "gone" ELSE "unissued"]
          /\ connected = [l \in Links |-> IF l \in S THEN 1 ELSE 0]
    /\ exchanges = [l \in Links |-> 0]
    /\ notices = 0
    /\ owner = Idle
    /\ client = [c \in Cancels |-> Idle]
    /\ poller = [s \in Sweeps |-> Idle]

-----------------------------------------------------------------------------
(* Calls to Google *)

\* syncBookingToCalendar updates the recorded event and inserts another when
\* there is none, or no longer.
Target(b, ev) ==
    IF ev # None /\ calendar[ev] = b THEN {ev}
    ELSE {e \in Events : calendar[e] = Unused}

PutEvent(b, ev, tok, e, res) ==
    \/ /\ tok \in good /\ e \in Target(b, ev) /\ res \in {"ok", "lost"}
       /\ calendar' = [calendar EXCEPT ![e] = b]
    \/ /\ tok \in good /\ e = None /\ res = "lost"
       /\ UNCHANGED calendar
    \/ /\ tok \notin Maybe(good) /\ e = None /\ res = "revoked"
       /\ UNCHANGED calendar
    \/ /\ tok = None /\ e = None /\ res = "skip"
       /\ UNCHANGED calendar

\* deleteBookingFromCalendar: without an event there is nothing to delete,
\* and an event that is gone is deleted.
RemoveEvent(ev, tok, res) ==
    \/ /\ ev = None /\ res = "ok"
       /\ UNCHANGED calendar
    \/ /\ ev # None /\ tok \in good /\ res \in {"ok", "lost"}
       /\ calendar' = [calendar EXCEPT ![ev] = None]
    \/ /\ ev # None /\ tok \in good /\ res = "lost"
       /\ UNCHANGED calendar
    \/ /\ ev # None /\ tok \notin Maybe(good) /\ res = "revoked"
       /\ UNCHANGED calendar
    \/ /\ ev # None /\ tok = None /\ res = "skip"
       /\ UNCHANGED calendar

FaultyCleared == TRUE
\* clearBusinessGoogleRefreshToken: true if this call cleared it.
Cleared == token # None

\* handleGoogleAuthRevoked, on the admin connection: the token that is
\* stored goes, also when it is not the one that failed.
Revocation(res) ==
    IF res = "revoked"
       THEN /\ token' = None
            /\ notices' = notices + (IF Cleared THEN 1 ELSE 0)
       ELSE UNCHANGED <<token, notices>>

\* What a transaction that holds the row will have written to it.
SyncAfter(b, res) == CASE res = "ok"   -> "synced"
                       [] res = "skip" -> sync[b]
                       [] OTHER        -> "pending"

Inserted(b, res, e) == IF res = "ok" THEN e ELSE event[b]

\* The row is locked by a transaction that has updated it.
Locked(b) == \/ owner # Idle /\ owner.b = b
             \/ \E c \in Cancels : client[c].at = "commit" /\ client[c].b = b

-----------------------------------------------------------------------------
(* Confirming and rejecting *)

Approve(b) ==
    /\ owner = Idle /\ status[b] = "pending" /\ ~Locked(b)
    /\ owner' = [at |-> "call", b |-> b, tok |-> token]
    /\ UNCHANGED <<rows, calendar, token, oauth, notices, client, poller>>

ApproveCall ==
    /\ owner.at = "call"
    /\ \E e \in Maybe(Events), res \in Results :
          /\ PutEvent(owner.b, event[owner.b], owner.tok, e, res)
          /\ Revocation(res)
          /\ owner' = [at |-> "commit", b |-> owner.b, ev |-> Inserted(owner.b, res, e),
                       sync |-> SyncAfter(owner.b, res)]
    /\ UNCHANGED <<rows, oauth, client, poller>>

ApproveCommit ==
    LET b == owner.b IN
    /\ owner.at = "commit"
    /\ status' = [status EXCEPT ![b] = "confirmed"]
    /\ event' = [event EXCEPT ![b] = owner.ev]
    /\ sync' = [sync EXCEPT ![b] = owner.sync]
    /\ owner' = Idle
    /\ UNCHANGED <<retries, calendar, token, oauth, notices, client, poller>>

\* A message to a chat fails.
ApproveRollsBack ==
    /\ owner # Idle
    /\ owner' = Idle
    /\ UNCHANGED <<rows, calendar, token, oauth, notices, client, poller>>

\* Rejected or expired.
Refuse(b) ==
    /\ status[b] = "pending" /\ ~Locked(b)
    /\ status' = [status EXCEPT ![b] = "over"]
    /\ UNCHANGED <<sync, event, retries, calendar, token, oauth, notices, owner, client, poller>>

-----------------------------------------------------------------------------
(* Cancelling: the booking is read, its status written, and the event that
   was read removed. *)

Cancel(c, b) ==
    /\ client[c] = Idle /\ status[b] \in {"pending", "confirmed"}
    /\ client' = [client EXCEPT ![c] = [at |-> "read", b |-> b, ev |-> event[b]]]
    /\ UNCHANGED <<rows, calendar, token, oauth, notices, owner, poller>>

\* Whoever cancelled the booking meanwhile, the write has no guard.
CancelCall(c) ==
    /\ client[c].at = "read" /\ ~Locked(client[c].b)
    /\ \E res \in Results :
          /\ RemoveEvent(client[c].ev, token, res)
          /\ Revocation(res)
          /\ client' = [client EXCEPT ![c] = [at |-> "commit", b |-> client[c].b,
                                              sync |-> SyncAfter(client[c].b, res)]]
    /\ UNCHANGED <<rows, oauth, owner, poller>>

CancelCommit(c) ==
    LET b == client[c].b IN
    /\ client[c].at = "commit"
    /\ status' = [status EXCEPT ![b] = "cancelled"]
    /\ sync' = [sync EXCEPT ![b] = client[c].sync]
    /\ client' = [client EXCEPT ![c] = Idle]
    /\ UNCHANGED <<event, retries, calendar, token, oauth, notices, owner, poller>>

CancelRollsBack(c) ==
    /\ client[c] # Idle
    /\ client' = [client EXCEPT ![c] = Idle]
    /\ UNCHANGED <<rows, calendar, token, oauth, notices, owner, poller>>

-----------------------------------------------------------------------------
(* The poller *)

FaultyNeedsSync(b) ==
    /\ sync[b] # "synced"
    /\ status[b] = "confirmed" \/ (status[b] = "cancelled" /\ event[b] # None)
\* findBookingsNeedingCalendarSync
NeedsSync(b) ==
    /\ sync[b] = "pending"
    /\ status[b] = "confirmed" \/ (status[b] = "cancelled" /\ event[b] # None)

Candidates == {b \in Bookings : NeedsSync(b)}
FaultyBatch == {b \in Candidates : b <= BatchLimit}
Batch == {b \in Candidates : Cardinality({c \in Candidates : c <= b}) <= BatchLimit}

\* Every run of the timer is a sweep of its own, on the rows as they are now.
Sweep(s) ==
    /\ poller[s] = Idle /\ token # None /\ Batch # {}
    /\ poller' = [poller EXCEPT ![s] =
         [at |-> "row", tok |-> token, ev |-> None,
          batch |-> {[b |-> b, confirmed |-> status[b] = "confirmed", ev |-> event[b]] : b \in Batch}]]
    /\ UNCHANGED <<rows, calendar, token, oauth, notices, owner, client>>

\* The rows are taken in the order of the query, as they were when it ran.
Current(s) == CHOOSE r \in poller[s].batch : \A q \in poller[s].batch : r.b <= q.b

Goes(s, at) == poller' = [poller EXCEPT ![s].at = at, ![s].ev = None]

NextRow(s) ==
    LET rest == poller[s].batch \ {Current(s)} IN
    poller' = [poller EXCEPT ![s] =
        IF rest = {} THEN Idle ELSE [@ EXCEPT !.at = "row", !.batch = rest]]

\* The id of an event is stored when it has just been inserted.
PollCall(s) ==
    LET r == Current(s) IN
    /\ poller[s].at = "row"
    /\ \E e \in Maybe(Events), res \in Results :
          /\ IF r.confirmed THEN PutEvent(r.b, r.ev, poller[s].tok, e, res)
                            ELSE e = None /\ RemoveEvent(r.ev, poller[s].tok, res)
          /\ IF res = "ok" /\ e \notin {None, r.ev}
                THEN poller' = [poller EXCEPT ![s].at = "store", ![s].ev = e]
                ELSE Goes(s, res)
    /\ UNCHANGED <<rows, token, oauth, notices, owner, client>>

\* From here on, statements of their own, each of which waits for the row.
PollStore(s) ==
    /\ poller[s].at = "store" /\ ~Locked(Current(s).b)
    /\ event' = [event EXCEPT ![Current(s).b] = poller[s].ev]
    /\ Goes(s, "ok")
    /\ UNCHANGED <<status, sync, retries, calendar, token, oauth, notices, owner, client>>

PollDone(s) ==
    /\ poller[s].at = "ok" /\ ~Locked(Current(s).b)
    /\ sync' = [sync EXCEPT ![Current(s).b] = "synced"]
    /\ NextRow(s)
    /\ UNCHANGED <<status, event, retries, calendar, token, oauth, notices, owner, client>>

\* safeSetStatus, whatever the row has become meanwhile.
PollPending(s) ==
    /\ poller[s].at \in {"lost", "revoked"} /\ ~Locked(Current(s).b)
    /\ sync' = [sync EXCEPT ![Current(s).b] = "pending"]
    /\ Goes(s, IF poller[s].at = "lost" THEN "check" ELSE "revoke")
    /\ UNCHANGED <<status, event, retries, calendar, token, oauth, notices, owner, client>>

PollRevoke(s) ==
    /\ poller[s].at = "revoke"
    /\ Revocation("revoked")
    /\ Goes(s, "check")
    /\ UNCHANGED <<rows, calendar, oauth, owner, client>>

\* Without a token, the sweep ends and nothing is counted.
PollCheck(s) ==
    /\ poller[s].at = "check"
    /\ \/ token # None /\ Goes(s, "count")
       \/ token = None /\ poller' = [poller EXCEPT ![s] = Idle]
    /\ UNCHANGED <<rows, calendar, token, oauth, notices, owner, client>>

\* The count is only compared with the limit: beyond it, it stands still here.
Counted(n) == IF n < MaxRetries THEN n + 1 ELSE n

FaultyExhausted(n) == n >= MaxRetries - 1
Exhausted(n) == n >= MaxRetries

PollCount(s) ==
    LET b == Current(s).b IN
    /\ poller[s].at = "count" /\ ~Locked(b)
    /\ retries' = [retries EXCEPT ![b] = Counted(@)]
    /\ IF Exhausted(retries'[b]) THEN Goes(s, "giveup") ELSE NextRow(s)
    /\ UNCHANGED <<status, sync, event, calendar, token, oauth, notices, owner, client>>

PollGivesUp(s) ==
    /\ poller[s].at = "giveup" /\ ~Locked(Current(s).b)
    /\ sync' = [sync EXCEPT ![Current(s).b] = "failed"]
    /\ NextRow(s)
    /\ UNCHANGED <<status, event, retries, calendar, token, oauth, notices, owner, client>>

-----------------------------------------------------------------------------
(* Connecting and losing the calendar *)

\* createOAuthStateForBusiness
Connect(l) ==
    /\ link[l] = "unissued"
    /\ link' = [link EXCEPT ![l] = "issued"]
    /\ UNCHANGED <<rows, calendar, token, good, exchanges, connected, notices, owner, client, poller>>

FaultyConsumed(l) == link[l]
\* consumeGoogleOauthState deletes the state it returns.
Consumed(l) == "gone"

\* The browser comes back: with a code, or with a refusal, or too late.
Callback(l) ==
    /\ link[l] = "issued" /\ exchanges[l] + connected[l] < 2
    /\ link' = [link EXCEPT ![l] = Consumed(l)]
    /\ exchanges' = [exchanges EXCEPT ![l] = @ + 1] \/ UNCHANGED exchanges
    /\ UNCHANGED <<rows, calendar, token, good, connected, notices, owner, client, poller>>

\* The code is exchanged and the token stored, or the exchange fails.
Exchange(l) ==
    /\ exchanges[l] > 0
    /\ exchanges' = [exchanges EXCEPT ![l] = @ - 1]
    /\ \/ /\ token' = l /\ good' = good \cup {l}
          /\ connected' = [connected EXCEPT ![l] = @ + 1]
       \/ UNCHANGED <<token, good, connected>>
    /\ UNCHANGED <<rows, calendar, link, notices, owner, client, poller>>

\* handleCalendarDisconnect; the revocation may fail.
Disconnect ==
    /\ token # None
    /\ good' = good \ {token} \/ UNCHANGED good
    /\ token' = None
    /\ UNCHANGED <<rows, calendar, link, exchanges, connected, notices, owner, client, poller>>

\* The owner revokes the access in the Google account.
Revoke ==
    /\ \E t \in good : good' = good \ {t}
    /\ UNCHANGED <<rows, calendar, token, link, exchanges, connected, notices, owner, client, poller>>

\* The owner removes an event by hand.
RemoveByHand(e) ==
    /\ calendar[e] \in Bookings
    /\ calendar' = [calendar EXCEPT ![e] = None]
    /\ UNCHANGED <<rows, token, oauth, notices, owner, client, poller>>

Crash ==
    /\ owner' = Idle
    /\ client' = [c \in Cancels |-> Idle]
    /\ poller' = [s \in Sweeps |-> Idle]
    /\ exchanges' = [l \in Links |-> 0]
    /\ UNCHANGED <<rows, calendar, token, good, link, connected, notices>>

Polling(s) ==
    \/ PollCall(s) \/ PollStore(s) \/ PollDone(s) \/ PollPending(s) \/ PollRevoke(s)
    \/ PollCheck(s) \/ PollCount(s) \/ PollGivesUp(s)
Approving    == ApproveCall \/ ApproveCommit \/ ApproveRollsBack
Canceling(c) == CancelCall(c) \/ CancelCommit(c) \/ CancelRollsBack(c)

Next ==
    \/ \E b \in Bookings : Approve(b) \/ Refuse(b) \/ (\E c \in Cancels : Cancel(c, b))
    \/ Approving
    \/ \E c \in Cancels : Canceling(c)
    \/ \E s \in Sweeps : Sweep(s) \/ Polling(s)
    \/ \E l \in Links : Connect(l) \/ Callback(l) \/ Exchange(l)
    \/ Disconnect \/ Revoke \/ Crash
    \/ \E e \in Events : RemoveByHand(e)

Spec == Init /\ [][Next]_vars

\* The sweep is a timer; calls to Google and transactions are bounded by
\* timeouts; who waits for a row gets it in turn; crashes end some day.
Fairness == /\ WF_vars(\E s \in Sweeps : Sweep(s))
            /\ \A s \in Sweeps : SF_vars(Polling(s))
            /\ WF_vars(Approving)
            /\ \A c \in Cancels : WF_vars(Canceling(c))
            /\ <>[][~Crash]_vars

FairSpec == Spec /\ Fairness

-----------------------------------------------------------------------------
Holds(s, b) == poller[s] # Idle /\ \E r \in poller[s].batch : r.b = b

\* However its calls fail, and whatever stands before it in the batch, a
\* booking the poller has to look at is settled, or the calendar is lost.  For
\* sweeps that do not overlap: two that hold the same failing row may give it
\* up and take it back in turn, and keep those behind it out of the batch.
SyncSettles == \A b \in Bookings : NeedsSync(b) /\ token # None ~> ~NeedsSync(b) \/ token = None

\* However many sweeps count, none gives a booking up before its retries are
\* spent.
GivenUpIsSpent == \A b \in Bookings : sync[b] = "failed" => retries[b] = MaxRetries

\* A booking that is given up, and that no sweep and no cancellation had
\* read before, is left alone: neither confirming it nor a new sweep takes
\* it up again.
LeftAlone ==
    [][\A b \in Bookings :
          /\ sync[b] = "failed"
          /\ ~\E s \in Sweeps : Holds(s, b)
          /\ ~\E c \in Cancels : client[c] # Idle /\ client[c].b = b
          => sync'[b] = "failed" /\ ~\E s \in Sweeps : Holds(s, b)']_vars

\* poller.ts: a stuck synchronisation is permanently abandoned.
AbandonedForGood ==
    [][\A b \in Bookings : sync[b] = "failed" /\ status'[b] = "confirmed" => sync'[b] = "failed"]_vars

\* A link connects a calendar at most once, however often the browser
\* returns with it.
LinkWorksOnce == \A l \in Links : exchanges[l] + connected[l] <= 1

\* Callback, handler and poller may find the same authorization revoked: the
\* owner is asked to reconnect at most once for every link that connected the
\* calendar.
OneNoticePerConnection ==
    notices <= Cardinality({l \in Links : connected[l] > 0})

=============================================================================
