# Verification of randevuClaw

randevuClaw is a Telegram booking assistant for small businesses: a Node process, a
Postgres database, Telegram webhooks, a language model that calls tools, a Google
Calendar, and a handful of timers. This directory holds its TLA+ models, the
configurations that check them with TLC, and proofs checked by TLAPS. Paths below are
relative to `src/src/` unless they say otherwise.

## 1. Inventory

| component | state | operations | what is hard | what makes it correct |
|---|---|---|---|---|
| class catalog and instances (`session/manager.ts`) | `session_catalog.capacity`, `session_instances.booked_count`, `is_cancelled` | create or replace a catalog, book, release, cancel a class with its bookings | concurrent requests for the last seat; a capacity that changes while a booking relies on it; a hand-kept count changed in six places; a cancelled class racing a request | no seat beyond the capacity read under the lock; the count covers the seats; a cancelled class is empty |
| bookings (`database/queries.ts`) | `booking_status`, request ids, link to the booking being replaced | insert, guarded and unguarded status updates, expiry, erase | owner, client, timer and cascade decide the same row | an outcome is final; every request is resolved |
| session packs (`billing/`) | `memberships`, append-only `membership_ledger` | deduct, restore, link, renew with reconciliation, erase | several keys for one refund; renewal reads before it writes | no seat kept with its credit returned; counter never negative |
| client chat (`conversation/`) | conversation turns, memory | tool calls, one transaction per turn | a tool acts on a row read earlier in the turn | the same as the menu's |
| client menu, admin menu (`telegram/handlers/`) | none of their own | the callbacks of the keyboards | old keyboards tapped late or twice | guards are re-evaluated on write |
| webhook (`webhooks/telegram.ts`) | `telegram_updates` | deduplicate, dispatch, owner's answers | crash between recording and handling an update; rollback after a message was sent | an answer is applied at most once |
| expiry poller and availability (`conversation/expiry-poller.ts`, `business/availability.ts`) | rows expired and not yet released (memory only) | sweep, release | crash, failure or a missing token between the two | nothing is released twice; nothing stays pending; the offered times are free |
| reminder, agenda, membership-expiry, cancellation pollers (`scheduler/`) | claim columns and dedup rows | claim, send | claim before send, overlapping sweeps, a batch in memory | at most once; nothing claimed without a try; whatever stays due is taken up |
| open-slot bookings (`conversation/function-executor.ts`) | bookings without an instance | book, reschedule, cancel | unique index on active slots | one active booking per slot |
| slotless requests (`session/slotless-requests.ts`) | `slotless_requests` | request, approve, reject | a second deduction key | one booking per approved request |
| calendar (`calendar/`, `google/`) | sync status, retry count, event id, OAuth states | sync, delete, retry, connect, revoke | bounded retries racing status changes, sweeps that overlap; single-use states | every booking is settled; one that is given up has spent its retries and is left alone; a link works once; one notice for one revocation |
| escalation, pending replies (`telegram/handlers/pending-reply.ts`) | process memory | stage, consume, drop, expire | lost on restart, replaced by a second one, texts on their way | one tap lets one text through |
| consent (`consent/checker.ts`) | `client_business_relationships` | first contact, gate, yes, no, trailing upsert, erase | five overlapping transactions | nothing is stored before a consent; a consent stays |
| conversation memory (`conversation/memory.ts`, used by three agents) | `conversation_memory`, `conversation_turns` | begin, restart, finish, close, abort | chains that die or end in an unanswered call; limits that must fit | nothing forgotten; no dangling chain in the memory row; bounded calls |
| connection handling (`database/queries.ts`, `database/db.ts`) | a pool | begin, commit, roll back, retry | lock orders, nested checkouts | (not modelled) |
| onboarding steps, invites, text utilities | progress rows; none | guarded single writes; formatting | - | (not modelled) |

They interact through the database and by plain calls. Only the pollers' batch and the
staged replies live in process memory. A callback of a keyboard runs in one transaction
(`webhooks/telegram.ts:1664`), and so does a client's chat turn (`:517`); the poller's
UPDATE and the payment's `createMembership` run on a pool of their own. The isolation
level is READ COMMITTED, so what a handler has read may be out of date when it writes,
unless a row lock or the UPDATE's WHERE protects it.

The six models cut the system where its parts share few columns that both write:

* `SessionBooking` and `Appointments` both work on `bookings`, `memberships` and the
  ledger, the first on rows with a class, the second on rows without one. The counter of a
  pack is in both; what renews it is in `SessionBooking` only.
* `Webhook` calls the others: an owner's answer that is a step of `SessionBooking` or
  `Appointments` is a `Decide` and a `CommitDecision` there, a client's text is a turn of
  `ChatMemory`.
* `Calendar` and `Notices` read the outcome of bookings. They share one column: a revocation
  that `Calendar` finds claims the hint of `Notices` (`google_calendar_nudge_sent`), which is
  `Withdraw` there, possible at any time.

## 2. Plan

1. **Core (done)**: `ClassSeats`, `SessionBooking`, `SessionBookingProofs`,
   `SeatsRefinement`. Seats are what clients pay for, and nearly every component writes to
   these tables.
2. **Open-slot bookings and slotless requests (done)**: `Appointments`, with the offered
   times compared to a reference definition and the counter to its ledger.
3. **Webhook (done)**: `UpdateDelivery` and `Webhook`: deduplication, one transaction per
   callback, consent, the staged reply, the erasure.
4. **Pollers (done)**: `Notices`, one module for six ways to claim and send.
5. **Calendar (done)**: `Calendar`: events, retries, links, revocation.
6. **Agents (done)**: `ChatMemory`, one module for three agents.
7. **Proofs of 2-6 (done)**: every invariant and action property of the passing runs is a
   theorem, the four refinements included; section 5 names what stays with TLC.
8. Open: that a sweep of `Notices` and a job of `Webhook` only ever get shorter, as
   `TurnWindsDown` says of a turn.
9. Open, not modelled: the connection pool and the lock orders (membership row and class row
   are taken in both orders, a nested transaction takes a second connection); the onboarding
   form; the tool confirmations staged by the owner's agent; a model of two businesses.

## 3. Modules

| module | models |
|---|---|
| `ClassSeats` | the promise about seats: quoted to one request at a time under the capacity of that moment, granted only where quoted, withdrawn in any order, emptied for good when the class is called off |
| `SessionBooking` | class bookings: its tables and what lives in memory between two database calls; it implements `ClassSeats` under the mapping from rows to clients with an active booking |
| `SlotDiary` | the promise about open-slot bookings: a diary with one entry at a time, where what is struck out stays so and an agreed move frees the old time at once |
| `Appointments` | open-slot bookings, slotless requests, the pack that pays for them, the offered times; it implements `SlotDiary` |
| `UpdateDelivery` | the promise about updates: kept until acknowledged, done at most once |
| `Webhook` | what the process does with an update, consent and staged replies included; it implements `UpdateDelivery` |
| `Calendar` | Google Calendar events, the sync poller, OAuth links and tokens |
| `NoticeOutbox` | the promise about a notice that is claimed before it is sent: one holder at a time, who sends it once or loses it; where a failed send gives it back (it may have arrived), it goes unsent only by a restart or by being withdrawn |
| `Notices` | reminders, agenda, expiry notices, renewal nudges, notices of cancelled classes, the hint to connect a calendar; it implements `NoticeOutbox` for the notices that are claimed before the send |
| `ChatMemory` | conversation memory and the tool loop of the client's, the owner's and the onboarding agent |
| `MC*` | the same on small instances: symmetry sets, opening hours |
| `*Proofs`, `SeatsRefinement` | theorems, one module per model; `CreditProofs` adds to `SessionBookingProofs` what holds of the credits |

Definitions called `Faulty...` are the one before which they stand with a plausible
mistake. The models do not use them; `PROJECT.json` pairs each with the property that
fails when it is put in place.

### SessionBooking: state

| variable | code |
|---|---|
| `status`, `client`, `inst`, `from` | columns of `bookings`; an id is `"none"` before its insert and `"deleted"` after erasure |
| `via` | what `request_id` is made of: `"chat"` is fresh per tool call (`ai-agent.ts:546`), the others are functions of client and class |
| `stale` | pending rows older than two hours |
| `bookedCount`, `closed`, `capacity` | `session_instances.booked_count`, `is_cancelled`, `session_catalog.capacity` |
| `quoted` | the row lock of `bookSessionInstance` on an instance, with the capacity read under it: 0 while nobody has the lock |
| `mem`, `left` | the client's one membership row (it is replaced in place, never deactivated) |
| `charged`, `linked`, `refunded` | ledger rows: deductions of one session, link-only rows, refunds with their key (`"credit"` for `booking:<id>:credit`, `"lesson"` for the cascade's) |
| `sweep` | the rows `runExpirySweep` got back and has not released |
| `handler` | requests between a read and a write of the same transaction |

### SessionBooking: actions

| action | code |
|---|---|
| `LockClass`, `UnlockClass` | the first half of `bookSessionInstance`: the lock on the instance row, then a plain SELECT of the capacity; a transaction that ends without a booking |
| `BookByClient` | `bookSessionTool`, `bookOneInstance`: enforcement, the insert under the lock, count, deduction, commit |
| `AssignByOwner`, `ApproveException` | the confirmed assignment, the escalation's approve button |
| `RescheduleRead`, `RescheduleWrite` | `rescheduleSessionTool` |
| `CancelRead`, `CancelWrite` | the three client cancels (chat, menu, button) |
| `Approve`, `Reject` | `sbk:` callbacks |
| `Age`, `SweepExpire`, `SweepRelease`, `SweepReleaseFails`, `SweepSkips`, `AvailabilityExpire` | expiry |
| `CancelClass` | `cancelSession` and the cascade, in one transaction |
| `SetCapacity` | `create_recurring_session` on a service that has a catalog |
| `RenewRead`, `RenewWrite` | `createMembership` |
| `MembershipExpires`, `DeleteClient` | time; the owner erases a client |
| `HandlerAborts`, `Crash` | a refusal or rollback; a restart |

An action is a transaction, or one autocommitted statement. A handler that relies on what
it read earlier is two actions. So is every booking: the capacity is on another row than the
one that is locked, and `SetCapacity` may come between `LockClass` and the commit. What waits
for the instance row (the release, the cascade, a rejection) does so in its guard
(`Unlocked`). A chat turn with several tools is a sequence of actions;
the real transaction makes them visible together, which is one of the orders the model
has. A transaction that rolls back is a step that does not happen. Booking a series from
the menu is a sequence of single bookings. A list of classes in one chat call
(`BookByClient` with several rows) keeps one membership snapshot for all of them, which is
why it is one action.

Left out of the data: dates, times and services (a reschedule's expiry gate and the cancel
cutoffs are nondeterministic), messages, notification texts, calendar calls (best effort,
in a try of their own), other businesses, and the second row of a catalog that is no
longer active. The membership row is one per client, since `onConflictDoUpdate` always
hits the same row. `Policy = "allow"` stands for `flag` too: they differ in an alert.

### Appointments

| variable | code |
|---|---|
| `status`, `row` | `bookings` without an instance: client, start, length, the booking it moves, the wish it came from |
| `live`, `left`, `charged`, `linked`, `refunded` | the membership of each client and its ledger |
| `request` | `slotless_requests.status` |
| `turn` | what `cancelAppointmentTool` or `rescheduleAppointmentTool` has read and not yet acted on |
| `now` | the clock, midnight or `Noon` |

| action | code |
|---|---|
| `Book`, `Submit` | `bookAppointmentTool`, and the wish it keeps when the time is taken |
| `MoveRead`, `Move`, `MoveTaken` | `rescheduleAppointmentTool`: read, then insert, or the unique index refuses |
| `CancelRead`, `Cancel` | `cancelAppointmentTool`, with the forfeit of a late cancel decided on the reading |
| `Approve`, `Reject` | the legacy callbacks, with the cancel of the booking that is replaced |
| `Expire` | `expireStalePendingBookings`; the release returns early for a booking without an instance (`expiry-poller.ts:30`), so that no credit comes back |
| `Grant`, `Decline` | `approveSlotlessRequest`, `rejectSlotlessRequest` |
| `Lapse`, `Tick` | the membership runs out; time |

Times are half hours of one day; `Offers` is `checkAvailability` with its steps of one
hour, its ranges and its clash test. A renewal of the pack is left to `SessionBooking`. A
booking of a class that is moved by the open-slot tool is in neither model.

### Webhook

| variable | code |
|---|---|
| `delivery`, `msg` | what Telegram has been told, and what the update says |
| `log` | `telegram_updates.status` |
| `job` | how far `handleTelegramWebhookPost` is with an update |
| `staged` | `pendingReplies` of the owner (memory) |
| `consent`, `turns` | `client_business_relationships.consent_given`, `conversation_turns` |
| `booking` | a booking the owner has to answer |
| `accepted`, `taps`, `relayed`, `applied` | history, for the properties |

| action | code |
|---|---|
| `Send`, `Record`, `Ignore`, `ForeignNumber`, `Acknowledge`, `Mark` | delivery, the insert into the log, repetition, the 200 of the finally block. `ForeignNumber` is an update of another bot that took the number first: `update_id` is unique over all bots |
| `RollBack`, `Crash` | a transaction that fails; a restart |
| `Gate`, `SaveTurn`, `Refresh`, `ConsentYes`, `ClientTap` | a client's message and taps |
| `StageReply`, `OwnerText`, `Relay`, `OwnerMedia`, `OwnerMenu`, `StagedExpires` | the staged reply |
| `Decide`, `CommitDecision` | the owner's answer: guarded UPDATE, then the commit that makes it visible |
| `Erase` | the owner erases a client |

### Calendar

| variable | code |
|---|---|
| `status`, `sync`, `event`, `retries` | columns of `bookings` |
| `calendar` | the owner's calendar at Google (external) |
| `token`, `good` | the stored refresh token; the tokens Google accepts |
| `link`, `exchanges`, `connected` | `google_oauth_states`; callbacks between consuming a state and storing a token |
| `owner`, `client`, `poller` | the transaction of a confirmation, those of cancels (one for each of `Cancels`), the runs of the sweep (one for each of `Sweeps`) |
| `notices` | history: messages asking the owner to reconnect |

| action | code |
|---|---|
| `Approve`, `ApproveCall`, `ApproveCommit`, `ApproveRollsBack` | the callback, the call to Google inside its transaction, its end |
| `Cancel`, `CancelCall`, `CancelCommit`, `CancelRollsBack`, `Refuse` | the cancel handler; rejection and expiry |
| `Sweep`, `PollCall` | `runCalendarSyncSweep`: the batch as it is when the sweep starts; the call for its first row |
| `PollStore`, `PollDone` | the id of a new event, then `synced` |
| `PollPending`, `PollRevoke`, `PollCheck` | `safeSetStatus`, `handleRevocationSafely`, and the look at the token that ends the sweep |
| `PollCount`, `PollGivesUp` | `incrementCalendarSyncRetryCount`, then `failed` at the limit |
| `Connect`, `Callback`, `Exchange`, `Disconnect` | the OAuth link, the browser's return, the exchange, the menu |
| `Revoke`, `RemoveByHand`, `Crash` | what the owner does at Google; a restart |

A call to Google may take effect and be reported as failed. A handler that rolls back does
not take its call back. The statements of a sweep are autocommitted, each an action that waits
for the row, and nothing keeps another sweep, or a cancel of the same booking, from running
between them: the interval has no guard (`poller.ts:90`), and two processes overlap during a
deployment. The owner's confirmations are taken one at a time; they exclude each other on one
booking by `updateBookingStatusIfPending`.

### Notices

| variable | code |
|---|---|
| `kind` | which poller the instance is: they share no state |
| `due` | where the item stands to the window of its sweep |
| `claims` | `reminder_24h_sent_at` and `reminder_1h_sent_at`, `agenda_sent_date`, `google_calendar_nudge_sent`, and the deduplication rows of expiry notices and cancelled classes |
| `sweep` | how far a sweep is with an item |
| `batch`, `nudging` | `pendingRenewalBatches`, and callbacks that are sending one |
| `ownerKnown` | `owner_telegram_id` is set |
| `withdrawn`, `attempted`, `delivered` | history: hints claimed so as not to be sent, sends that were tried (of a renewal, the owner's question), arrivals |

| action | code |
|---|---|
| `Begin`, `Claim`, `SendSucceeds`, `SendFails`, `Release`, `Mark` | a sweep: all claim before they send, except for the cancellation poller, which marks after; only the hint gives a failed claim back, and a failed send may have arrived (`Lose`: the client gives up after fifteen seconds, `telegram/client.ts:48-61`) |
| `Withdraw` | `handleGoogleAuthRevoked` claims the hint and does not send it (`owner-nudge.ts:87`) |
| `BeginRenewal`, `Collect`, `Ask`, `Prompt`, `TapYes`, `NudgeClient`, `BatchDropped` | the owner is asked once for a batch, and says yes |
| `Advance`, `LearnOwner`, `Crash` | time; the owner opens the bot; a restart |

The cancellation sweep meets only classes whose cascade has not run: by `ClosedClassEmpty`
none has an active booking afterwards.

### ChatMemory

| variable | code |
|---|---|
| `role` | which agent the instance is: their rows are separate |
| `memory` | the `conversation_memory` row: head of the chain, recent exchanges, summary, turns |
| `legacy` | `conversation_turns.interaction_id`, which the client's agent falls back to |
| `turn` | a message being answered: what was read, the round, the calls, what it wrote |

| action | code |
|---|---|
| `Begin` | `beginTurn`: continue, or seed a fresh chain when the old one is overdue |
| `Answer`, `AskTools`, `RunTools`, `ToolReplies` | the loop of rounds; a tool that writes to the chat itself ends the turn |
| `Reject`, `Fail` | Gemini refuses the chain, the call fails: restart once, or apologise and record |
| `CloseTurn` | the throw-away call that answers an open tool call |
| `Commit`, `GiveUp` | the end of the turn; for the client's agent, of its transaction |
| `Erase` | the owner erases the client |

A chain is the set of exchanges it knows and whether it is open. A summary is taken to
keep what it summarises; the retries on status 429 happen inside one call.

## 4. Runs

| run | instance | result |
|---|---|---|
| `seats` | 3 bookings, 2 clients, 1 class of 1 or 2 seats, 1 request in flight | `SeatsCovered`, `ClosedClassEmpty`, `NeverOverbooks`, `OutcomeIsFinal`, `ImplementsClassSeats` |
| `credit` | 2 bookings, 1 client, 2 classes of 1 seat, a pack of 1, several bookings per call | `TypeOK`, `NoRefundedSeat`, `SupersededReleased` |
| `answered` | 2 bookings, 2 clients, 1 class, unlimited packs, a business that demands one | `PendingResolved` under `FairSpec` |
| `appointments` | 2 rows, 1 client with a pack of 1, 2 turns, 1 wish, lengths of 1 h and 1.5 h, a day that opens twice, on the hour | `TypeOK`, `ReplacedIsReleased`, `RefundedIsOver`, `LedgerBalances`, `GrantedOnce`, `OffersAreRight`, `ImplementsDiary` |
| `delivery` | 2 updates of any kind, 1 client, 1 restart | `TypeOK`, `StoredWithConsent`, `RelayedOncePerTap`, `ConsentSticks`, `DecidedOnce`, `ImplementsDelivery`; `EveryUpdateAcked` under `FairSpec` |
| `sync` | 2 bookings, 1 event, 1 link, batches of 1, 2 retries, 1 sweep and 1 cancel at a time, any number of restarts | `TypeOK`, `LinkWorksOnce`, `OneNoticePerConnection`, `GivenUpIsSpent`, `LeftAlone`; `SyncSettles` under `FairSpec` |
| `notices` | each of six pollers, 2 items, 2 sweeps, 1 failed send, 1 restart | `TypeOK`, `AtMostOnce`, `ClaimedIsAttempted`, `ImplementsOutbox`; `NoticeTakenUp` under `FairSpec` |
| `agent` | each of three agents, 2 turns at once, 3 messages, chains of 1 turn, 1 exchange seeded, 2 stored, 2 rounds | `TypeOK`, `NothingForgotten`, `NoDanglingChain`, `ChainKnowsAll`, `CallsBounded`; `TurnEnds` under `FairSpec` |
| `refund` | 1 client, a pack of 2 | `RefundedOnce` fails |
| `moved` | 1 client, a pack of 2 | `RescheduleStillPaid` fails |
| `reminders` | 1 reminder, 1 sweep, no failure, no restart | `RemindedExactlyOnce` fails |
| `overlap` | 1 booking, 1 event, 1 retry, 2 sweeps | `AbandonedForGood` fails |

### Bounds, and why they are enough

* **SessionBooking.** `Ids` bounds the bookings ever made: three suffice for two clients
  and the owner to compete for two seats, with one row cancelled and its seat lost, lowered
  to one or raised again; two make a reschedule. `MaxCapacity` bounds the capacity, from 1
  (the database refuses 0). One request in flight races every other action, because only
  its read and write are apart. Bookings hold the lock on the class between `LockClass` and
  their insert, against every other action, one for each class.
* **Appointments.** Two rows are a booking and its move, or two claims on one slot; one
  wish may take the second row. Two turns are a move and a cancel of the same booking, both
  read before either acts. A booking at the first start takes parts of two full hours. The
  day opens twice, on the hour, and each time ends with a full hour that is too late for the
  longer service. Nothing in the module tells two
  clients apart but the owner of a pack, and the proofs are for any number of them.
* **Webhook.** Every property is broken by two updates, if at all: a tap and a text, two
  answers, a first contact and a yes, an update and its repetition. `MaxCrashes` bounds
  restarts; one lies between any two steps.
* **Calendar.** `BatchLimit` 1 with two bookings makes one stand in the way of the other;
  `MaxRetries` 2 tells the last retry from the first, so that a poller that gives up one too
  early is seen. One event is enough for an orphan left by a lost answer (the calendar is
  then full, and every further call fails, which is the worst case for `SyncSettles`); an
  event made a second time, after its removal by hand, takes two events and is left to the
  proofs. One sweep and one cancel keep the state space small enough for liveness; sweeps and
  cancels that overlap, in any number, are what the theorems are for, and `overlap` has two
  sweeps.
* **Notices.** Two sweeps compete for one claim; two items make a batch that is claimed in
  part. `MaxFailures` and `MaxCrashes` count failed sends and restarts; with one failure the
  hint arrives twice, the bound of `AtMostOnce`.
* **ChatMemory.** Chains of one turn are retired at every second message, so that three
  messages see a seed, a retired chain and an exchange that goes to the summary. The limits
  are as tight as `LimitsAssumption` allows: `MaxChainTurns + SeedExchanges = MaxStored`
  (the code has 30 + 4 and 40).

Deadlock is checked for `SessionBooking`, where something is always possible. The
other models run out of bounded material (rows, updates, messages, crashes), and a run may
then stop. `SYMMETRY` is used in runs without liveness only.

### Fairness

| module | assumed | why |
|---|---|---|
| `SessionBooking` | time passes, the sweep's UPDATE runs when it stays possible | a `setInterval` of five minutes, started again with the process. Nothing is asked of owner, clients, requests or of the release after the sweep |
| `Webhook` | every update that waits is recorded or ignored, and handled further | Telegram repeats what is not acknowledged; every wait in the handler has a timeout |
| `Calendar` | a sweep starts, transactions end; the poller's steps strongly; restarts end some day | a timer; Postgres serves row locks in turn, so that a poller that waits is not passed over for ever; a process that restarted for ever in the middle of every sweep would synchronise nothing. `SyncSettles` is for sweeps that do not overlap: two that hold the same failing row may give it up and take it back in turn |
| `Notices` | a sweep takes its next step; it begins with an item, or a batch, that is due again and again (strongly), but for the hint | a timer that reads all that is due, while an item may be busy in another sweep. The hint is tried by a booking's confirmation (`confirmation.ts:69`), which nothing repeats: nothing is assumed of it, and `NoticeTakenUp` does not speak of it |
| `ChatMemory` | a turn takes its next step | every call to Gemini and to the database has a timeout |

### What the passing runs show

* **Seats.** However bookings, answers, expiry, cascades and crashes interleave,
  `booked_count` errs on one side only. It never falls below the seats in use and what the
  poller still has to release, so the check under the row lock never goes beyond the capacity
  it was made with, although releases are separate transactions that may fail. That capacity
  is read without a lock on the catalog's row: if the owner cuts it while a booking is under
  way (a chat turn holds the class until its end), the booking is still made, one for each
  class and no more, since the next waits for the lock and reads the new capacity. The guarded UPDATEs are what keeps it:
  with an unguarded answer to a booking (`FaultyAwaitsOwner`) a seat is released twice and
  a decided booking comes back.
* **Slots and credit.** The unguarded status UPDATE of a cancel (`updateBookingStatus`) is
  harmless to open-slot bookings: it only ever ends a booking (a `Strike` of `SlotDiary`), and
  the one key of a refund makes two settlements one. The counter agrees with the ledger in every state.
* **Updates.** At most once, also across restarts: the log is committed first. The price is
  an update that is acknowledged and never handled; `UpdateDelivery` allows it, and so does
  the code.
* **Consent.** The upsert that trails each message cannot take a consent back, because it
  leaves that column of an existing row alone.
* **Calendar.** No booking is given up before its retries are spent, and one that was is left
  alone by everything that had not read it before; the ones behind it in the batch get their
  turn. What had read it before may take it up again: another cancel, or another sweep
  (`overlap`). Only the single DELETE ... RETURNING makes a link work once.
* **Notices.** The claim is what makes overlapping sweeps harmless; it is also what a crash
  burns, which is why `ClaimedIsAttempted` speaks of runs without one. As `NoticeOutbox` the
  module says the same step by step: whoever takes a notice holds it alone. The hint, which a
  failed send gives back, goes unsent by a restart only, or because a revocation claimed it.
  The price of giving it back is that it may arrive again for every send that failed after
  Telegram had it.
* **Memory.** The memory row never holds a chain that waits for a tool. `conversation_turns`
  may (a turn that is aborted between tools and answer returns its open head,
  `ai-agent.ts:406-411` and `498-503`), and a turn that falls back to it finds its chain
  refused and restarts once, within `CallsBounded`. The constants of
  `MEMORY_LIMITS` fit together: with `MaxChainTurns + SeedExchanges > MaxStored` an exchange
  would fall between row and summary.

### Where code and documents disagree

* **`refund`**: a cancel that read the booking before the cascade decided it restores the
  credit a second time, under its own key. The cascade's comment covers the other order.
  `SecondRefund` proves that no other order of steps does it.
* **`moved`**: cancel the original while its reschedule is pending; it is refunded; the
  owner approves; nobody pays for the new class.
* **`reminders`**: the reminder sweep claims and then sends outside the bot's context, so
  that every send is refused for want of a token (`callTelegramApi` has no other token to
  fall back to); the comment promises each reminder exactly once.
* **`overlap`**: the sweep's interval starts the next sweep whether or not the last has ended.
  Two that hold the same row write its status in turn: what one has given up, the other sets
  to pending or synced, against the "permanently abandoned" of `calendar/poller.ts:13-15`.

Known from the models, without a run of their own: `booked_count` is not released by a
client's cancel or by the approval of a reschedule, though the column's comment says so
(`database/schema.ts:511`); the availability check expires class bookings and drops the
rows, and the poller without a bot token does the same, so that seat and credit are never
released (`src/.planning/MILESTONES.md:32`). A business that opens at half past is offered
from the full hour before, as a review of the code notes (`02-REVIEW.md`, WR-01);
`OffersAreRight` speaks of businesses that open on the hour, and TLC refutes it for a range
that opens at half past. The hint to connect a calendar is "at most one nudge ever"
(`owner-nudge.ts:42`) only if no send fails after it arrived: the bound of `AtMostOnce` is
one more for every failure, and the model reaches it. A menu booking of a class whose first
booking is over is answered as a replay, with the old row, since the request id is unique
whatever the status (`database/schema.ts:240`): as designed, and without a property.

## 5. Proofs

The theorems hold for every value of the constants that the modules' assumptions allow:
any finite set of bookings, updates or items, any clients, classes, turns, sweeps and
events, any limits and bounds.

| module | theorem | states |
|---|---|---|
| `SessionBookingProofs` | `TypeCorrect` | `TypeOK` |
| | `CoveredHolds` | `SeatsCovered` |
| | `NeverOverbooked` | `NeverOverbooks` |
| | `OutcomeHolds` | `OutcomeIsFinal` |
| | `ClosedHolds` | `ClosedClassEmpty` |
| | `NoRefundedSeatHolds` | `NoRefundedSeat` |
| | `SupersededHolds` | `SupersededReleased` |
| `SeatsRefinement` | `Implements` | `ImplementsClassSeats` |
| `CreditProofs` | `SecondRefund` | a second refund of a credit is a late client cancel's, after the cascade |
| | `MovesArePaid` | any chain of reschedules goes back to a deduction |
| `AppointmentsProofs` | `TypeCorrect` | `TypeOK` |
| | `SlotHolds` | no two bookings in force start at the same time |
| | `ReplacedHolds` | `ReplacedIsReleased` |
| | `RefundedHolds` | `RefundedIsOver` |
| | `BalanceHolds` | `LedgerBalances` |
| | `GrantedHolds` | `GrantedOnce` |
| | `OffersHold` | `OffersAreRight`, for a business that opens on the hour |
| | `DiaryImplemented` | `ImplementsDiary` |
| `WebhookProofs` | `TypeCorrect` | `TypeOK` |
| | `DeliveryImplemented` | `ImplementsDelivery` |
| | `ConsentHolds` | `StoredWithConsent` |
| | `ConsentStays` | `ConsentSticks` |
| | `DecisionHolds` | `DecidedOnce` |
| | `RelayHolds` | `RelayedOncePerTap` |
| `NoticesProofs` | `TypeCorrect` | `TypeOK` |
| | `OnceHolds` | `AtMostOnce` |
| | `AttemptHolds` | `ClaimedIsAttempted` |
| | `HintHolds` | a claimed hint that has not arrived is being tried or was withdrawn by a revocation, unless the process restarted |
| | `OutboxImplemented` | `ImplementsOutbox` |
| `ChatMemoryProofs` | `TypeCorrect` | `TypeOK` |
| | `ChainIsClosed` | `NoDanglingChain` |
| | `ChainRemembers` | `ChainKnowsAll` |
| | `RowRemembers` | `NothingForgotten` |
| | `CallsAreBounded` | `CallsBounded` |
| | `TurnWindsDown` | each step leaves a turn fewer, of at most `4 * MaxToolRounds + 2` |
| `CalendarProofs` | `TypeCorrect` | `TypeOK` |
| | `LinkHolds` | `LinkWorksOnce` |
| | `SpentHolds` | `GivenUpIsSpent` |
| | `LeftAloneHolds` | `LeftAlone` |
| | `NoticeHolds` | `OneNoticePerConnection` |

### The arguments

**SessionBooking.** `TypeOK` carries three facts beyond types, each needed to be inductive: a
row in use has a client and a class, a reschedule refers to another row in use, and a
waiting request refers to a row in use. `StepKinds` sorts the steps by what they may do
to the seats: those that grant (`NewSeat`), those that release, the class being called
off, the sweep, the capacity change, the lock taken or given back, and the quiet ones. `SeatsAreInserted` says that every step
that is not a `NewSeat` makes no booking active (`NoNewSeat`). Then

* outcomes are final because an active row appears only at an unused id;
* a closed class stays empty because `Bookable` refuses it and `CancelClass` empties it;
* `SeatsCovered` is inductive together with `SweptAreFinal` (the poller's rows are over,
  so a release never takes away the seat of an active booking): an insert adds at most
  one to `Held` and exactly one to the count (`InsertAddsOne`), a release takes away as
  many as leave `Held` (`ReleaseCovers`), and all others only shrink `Held` (`QuietCovers`);
* `QuotesHold`: while a booking has the lock on a class, the class stays open and the count
  stays below the capacity that was read, whatever becomes of the capacity, because all that
  raises the count or closes the class waits for the lock;
* no overbooking follows: a step that adds a seat is a `NewSeat` of a class with
  `Cardinality(ActiveOn) <= Cardinality(Held) <= bookedCount < quoted`;
* `NoRefundedSeat` follows from the stronger `RefundedAreFinal`, which an approval cannot
  break because it only touches pending rows;
* the refinement maps `LockClass` to `Quote`, and a `NewSeat` to `Grant`; both may assume room
  because the holders are at most the active bookings (`HoldersCounted`, two rows of one
  client would count once). `UnlockClass` and a restart are `Lapse`, a class being called off
  is `Close`, a new capacity `Resize`, and every other step, the steps that leave the rows
  alone included, `Withdraw`.

**The credits.** `RefundedOnce` is violated, and `CreditProofs` says how far. A refund by the
cascade leaves the booking over, its class called off, and nothing for the poller to
release (`LessonOK`); `WhoRefunds` names, for each key, who gives the credit back, and of
those only a cancel that read the booking earlier still can. A reschedule costs nothing when
the booking it replaces has a ledger row, which may itself be that of a reschedule. That the
chain ends at a deduction needs that nobody replaces a booking that replaces him
(`NoCircle`): a booking is made at an unused id and refers to a used one.

**Appointments.** `Shape` says that a step either makes one new booking in a free place or
lets bookings change their status without bringing any back. `Places` (no two active
bookings at one start, a confirmed move over an inactive original, a refunded booking over)
is inductive on that alone. It gives the refinement too: since no two bookings in force start
at one time, the page shows exactly those (`PageSays`); a new booking is an `Ask` or, for a
granted wish, an `Enter`; an approval is an `Agree`; and every other step strikes out what it
ends, or nothing. `Balance` counts: a charge adds one to the
charged bookings and takes one from the counter, a refund does the reverse, and each
happens once for a booking. `Granted` ties a wish's status to the bookings made from it.
`OffersHold` needs no invariant but the types: the clash test of `checkAvailability`
(`start < end'` and `end > start'`) is true of intervals that share a half hour (`Overlap`),
and stepping by one hour from an opening that needs no rounding yields the full hours
(`FullHour`). The opening hours are any set of ranges that end by midnight and begin on the
hour (`OnTheHour`, the theorem's only assumption beyond the module's).

**Webhook.** `IInv` says of an update that is not in the log, or whose job is still early,
that it has had no effect; a job begins by writing the log, and `Moves` lets it have its
effect only while it is early. The refinement needs nothing more. Consent: whoever has a
consented row has said yes (`Agreed`), and a turn past the gate belongs to such a client.
`OneAnswer`: while a job has the booking's row locked, it is still pending and nobody
else decides it.
`TapsCover`: the texts sent on, those on their way and the one staging are at most the taps.

**Notices.** `Tokens`: the claim of a notice is in one place at most, in a sweep or on one
list in memory, and a notice that may still be sent has arrived no more often than sends of
the hint have failed (`Spare`, 0 for every other poller). `Shaped` sorts what a step of a
sweep does with notices: it takes one (`Takes`), is through with one (`Leaves`), fails with
the hint, after it arrived perhaps (`Fails`), gives it back (`Returns`), or makes a list
(`Lists`). `Tried` and `Hinted` say which claims may lack an attempt, or an arrival, while the
process has not restarted: those of a sweep at work, and those of a revocation. The
refinement maps a notice to where its claim is: open without one, held in a sweep or on a
list, failed and still to be given back, or gone. By `Tokens` these exclude each other
(`PlaceOf`). A step of a sweep moves one notice (`OneMoves`); a list that is dropped, or
replaced by the next sweep's, loses all of its notices at once (`ListLost`). Notices of
cancelled classes, which are claimed after the send, are left out.

**ChatMemory.** `Sound` bounds the exchanges of a row by what its chain began with and its
turns, so that the cap on turns keeps the row below its own limit; `RunOK` says that what a
turn has at hand is known to its chain, so that whatever it stores is `Storable`.
`TurnWindsDown` is the safety half of `TurnEnds`: `StepsLeft` counts down with every step,
whatever the model asks for, and the one restart of a refused chain is paid for in advance.
With a step that is always taken in the end (the timeouts), every turn ends.

**Calendar.** Nothing is assumed of how many sweeps or cancels are at work. The rows a sweep
holds are confirmed or cancelled, and it is about to give one up only if its count is at the
limit, where another sweep leaves it (`BatchOK`, which also gives the batch a first row by the
well-foundedness of `<`); the owner's callback has a pending booking to itself, and a cancel
that will leave a booking as given up found it so (`HandlersOK`). With both, a booking marked
failed has spent its retries and is decided (`FailedOK`). `LeftAlone` follows: a new sweep
takes pending rows only, and the owner's callback is about a pending booking.
`LinksOK` says that only a link that is
gone has been used. `NoticesOK` bounds the notices by the connections: a stored
token is worth one notice to come, because whoever finds it revoked removes it with the
UPDATE that decides about the message, and an exchange that stores one has, by `LinksOK`,
used a link nobody has connected with before.

### Only model-checked

Liveness (`PendingResolved`, `EveryUpdateAcked`, `SyncSettles`, `NoticeTakenUp`,
`TurnEnds`): fairness and `ENABLED` are outside the proof system's reach. And the properties
of the runs that end in a violation, which are false.

## 6. Not modelled

See `PROJECT.json` for every component. For good: the language model's choice of tools
(every tool call is possible at any time), message texts, recurrence rules and date
arithmetic, image and calendar file generation, and wording of any kind.

* Connection handling: a transaction is an atomic step, or a lock held between two steps.
  Two lock orders and a nested checkout are listed as hazards and need a model of the pool.
* The onboarding form and the package catalog: guarded single writes of one owner.
* The tool confirmations the owner's agent stages (prices, hours, packages, deletion of a
  service), except for the assignment of a client to a class.
* The unlinking of a client, and the payment screens: only what they write to the
  membership is modelled.
* The open-slot tool `reschedule_appointment` applied to a class booking: the two models of
  bookings meet only there.
* The owner's buttons for wishes: the webhook handles their taps, and `Appointments` models
  what it does, but no message of this version carries them.
