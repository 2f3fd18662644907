------------------------------ MODULE Webhook ------------------------------
(***************************************************************************)
(* The Telegram webhook of one business: deduplication, dispatch, the      *)
(* transaction each update is handled in, consent, the owner's staged      *)
(* reply, the owner's answer to a booking, and the erasure of a client.    *)
(*                                                                         *)
(* Telegram delivers an update until it is answered with 200; updates are  *)
(* handled concurrently.  What is done before the commit is lost in a      *)
(* rollback or a crash, but a message that was sent stays sent and what    *)
(* the process keeps in memory is not rolled back.                         *)
(*                                                                         *)
(* Telegram and the users are external.  A definition Faulty<X>, before X, *)
(* is X with a mistake in it, to show that a property can fail.            *)
(***************************************************************************)
EXTENDS Naturals, FiniteSets

CONSTANTS
    Updates,        \* the updates Telegram may deliver
    Clients,        \* users who are not the owner
    MaxCrashes,     \* bound on restarts of the process
    None

ASSUME UpdatesAssumption == IsFiniteSet(Updates)
ASSUME ClientsAssumption == None \notin Clients
ASSUME CrashesAssumption == MaxCrashes \in Nat

VARIABLES
    delivery,       \* what Telegram knows of an update
    msg,            \* what the update says
    log,            \* telegram_updates.status
    job,            \* how far the process is with the update
    staged,         \* pendingReplies: the client the owner's next text goes to
    consent,        \* client_business_relationships.consent_given, "none" without a row
    booking,        \* one booking of each client, as committed
    turns,          \* clients with rows in conversation_turns
    accepted,       \* history: clients who tapped yes
    taps,           \* history: how often a client was staged
    relayed,        \* history: texts sent on to clients
    applied,        \* history: how often an update had its effect
    crashes

tables  == <<log, consent, booking, turns>>
outside == <<delivery, msg>>
history == <<accepted, taps, relayed, applied>>
vars    == <<outside, tables, job, staged, history, crashes>>

\* From the owner: the reply button of an escalation, a free text, a text
\* that is not one (a photo), a command or menu button, the two answers to
\* a booking, the erasure of a client.  From a client: a free text, a
\* command, the two answers to the consent question, a menu button.
OwnerKinds  == {"reply", "text", "media", "menu", "approve", "reject", "erase"}
ClientKinds == {"chat", "start", "yes", "no", "tap"}
Messages    == [kind : OwnerKinds \cup ClientKinds, client : Clients]

Idle == [at |-> "idle"]
Jobs == [at : {"idle", "run", "turn", "decided", "mark", "upsert", "done"}]
          \cup [at : {"relay"}, to : Clients]

Answers   == [approve |-> "confirmed", reject |-> "rejected"]
Decisions == {"confirmed", "rejected"}

TypeOK ==
    /\ delivery \in [Updates -> {"unsent", "due", "acked"}]
    /\ msg \in [Updates -> Messages \cup {None}]
    /\ \A u \in Updates : delivery[u] # "unsent" => msg[u] \in Messages
    /\ log \in [Updates -> {"absent", "received", "processed"}]
    /\ job \in [Updates -> Jobs]
    /\ \A u \in Updates : job[u] # Idle => delivery[u] # "unsent" /\ log[u] # "absent"
    /\ \A u \in Updates : job[u].at = "decided" => msg[u].kind \in DOMAIN Answers
    /\ staged \in Clients \cup {None}
    /\ consent \in [Clients -> {"none", "no", "yes"}]
    /\ booking \in [Clients -> {"pending", "erased"} \cup Decisions]
    /\ turns \in SUBSET Clients
    /\ accepted \in SUBSET Clients
    /\ taps \in [Clients -> Nat]
    /\ relayed \in SUBSET (Updates \X Clients)
    /\ applied \in [Updates -> {0, 1}]
    /\ crashes \in 0..MaxCrashes

Kind(u) == msg[u].kind
From(u) == msg[u].client
At(u, k, stage) == job[u].at = stage /\ Kind(u) = k

Goto(u, stage) == job' = [job EXCEPT ![u] = [at |-> stage]]
Effect(u)      == applied' = [applied EXCEPT ![u] = applied[u] + 1]
Processed(u)   == log' = [log EXCEPT ![u] = "processed"]

\* A client's message ends in the upsert of the relationship, everything
\* else in the acknowledgement.
Ending(u) == IF Kind(u) \in {"chat", "start"} THEN "upsert" ELSE "done"

\* An open transaction has locked the client's booking.
Locked(c) == \E u \in Updates : job[u].at = "decided" /\ From(u) = c

-----------------------------------------------------------------------------
Init ==
    /\ delivery = [u \in Updates |-> "unsent"]
    /\ msg = [u \in Updates |-> None]
    /\ log = [u \in Updates |-> "absent"]
    /\ job = [u \in Updates |-> Idle]
    /\ staged \in Clients \cup {None}
    /\ consent \in [Clients -> {"none", "yes"}]
    /\ staged # None => consent[staged] = "yes"
    /\ booking = [c \in Clients |-> "pending"]
    /\ turns = {}
    /\ accepted = {c \in Clients : consent[c] = "yes"}
    /\ taps = [c \in Clients |-> IF c = staged THEN 1 ELSE 0]
    /\ relayed = {}
    /\ applied = [u \in Updates |-> 0]
    /\ crashes = 0

-----------------------------------------------------------------------------
(* Delivery *)

\* A user writes or taps: Telegram has an update to deliver.
Send(u, m) ==
    /\ delivery[u] = "unsent"
    /\ delivery' = [delivery EXCEPT ![u] = "due"]
    /\ msg' = [msg EXCEPT ![u] = m]
    /\ UNCHANGED <<tables, job, staged, history, crashes>>

FaultyFresh(u) == log[u] \in {"absent", "received"}
\* insertOrIgnoreTelegramUpdate inserts a row.
Fresh(u) == log[u] = "absent"

\* The update is recorded, in a transaction of its own, and only then handled.
Record(u) ==
    /\ delivery[u] = "due" /\ job[u] = Idle
    /\ Fresh(u)
    /\ log' = [log EXCEPT ![u] = "received"]
    /\ Goto(u, "run")
    /\ UNCHANGED <<outside, consent, booking, turns, staged, history, crashes>>

FaultyIgnore(u) ==
    /\ delivery[u] = "due" /\ log[u] = "processed"
    /\ delivery' = [delivery EXCEPT ![u] = "acked"]
    /\ UNCHANGED <<msg, tables, job, staged, history, crashes>>
\* A repetition, also while the first delivery is being handled or after a
\* crash lost it: ignored, and acknowledged.
Ignore(u) ==
    /\ delivery[u] = "due" /\ ~Fresh(u)
    /\ delivery' = [delivery EXCEPT ![u] = "acked"]
    /\ UNCHANGED <<msg, tables, job, staged, history, crashes>>

\* The bots of two businesses number their updates independently, and
\* update_id is unique across them.
ForeignNumber(u) ==
    /\ delivery[u] # "acked" /\ log[u] = "absent"
    /\ log' = [log EXCEPT ![u] = "received"]
    /\ UNCHANGED <<outside, consent, booking, turns, job, staged, history, crashes>>

\* The finally block answers 200, whatever happened.
Acknowledge(u) ==
    /\ job[u].at = "done"
    /\ job' = [job EXCEPT ![u] = Idle]
    /\ delivery' = [delivery EXCEPT ![u] = "acked"]
    /\ UNCHANGED <<msg, tables, staged, history, crashes>>

\* markTelegramUpdateProcessed in a transaction of its own, or its failure.
Mark(u) ==
    /\ job[u].at = "mark"
    /\ Processed(u) \/ UNCHANGED log
    /\ Goto(u, "done")
    /\ UNCHANGED <<outside, consent, booking, turns, staged, history, crashes>>

\* The transaction rolls back before it did anything that outlives it; the
\* catch sends an apology.
RollBack(u) ==
    /\ job[u].at \in {"run", "turn", "decided"}
    /\ Goto(u, Ending(u))
    /\ UNCHANGED <<outside, tables, staged, history, crashes>>

-----------------------------------------------------------------------------
(* A client's message *)

FaultyFirstContact == "yes"
\* A new relationship row is not consented.
FirstContact == "no"

\* Commands and free text meet the same gate: who has not consented gets the
\* consent question, and a row.
Gate(u) ==
    LET c == From(u) IN
    /\ job[u].at = "run" /\ Kind(u) \in {"chat", "start"}
    /\ IF consent[c] = "none"
          THEN consent' = [consent EXCEPT ![c] = FirstContact]
          ELSE UNCHANGED consent
    /\ IF consent'[c] = "yes" /\ Kind(u) = "chat"
          THEN Goto(u, "turn") /\ UNCHANGED <<log, applied>>
          ELSE Goto(u, "upsert") /\ Processed(u) /\ Effect(u)
    /\ UNCHANGED <<outside, booking, turns, staged, accepted, taps, relayed, crashes>>

\* The agent has answered: the turn is stored and the update marked in the
\* transaction that began before the consent was read.
SaveTurn(u) ==
    /\ At(u, "chat", "turn")
    /\ turns' = turns \cup {From(u)}
    /\ Processed(u)
    /\ Effect(u)
    /\ Goto(u, "upsert")
    /\ UNCHANGED <<outside, consent, booking, staged, accepted, taps, relayed, crashes>>

FaultyUpsert(c) == "no"
\* insertClientBusinessRelationship leaves the consent of an existing row.
Upsert(c) == IF consent[c] = "none" THEN FirstContact ELSE consent[c]

\* Every client message ends in the upsert that refreshes the name.
Refresh(u) ==
    /\ job[u].at = "upsert"
    /\ \/ consent' = [consent EXCEPT ![From(u)] = Upsert(From(u))]
       \/ UNCHANGED consent
    /\ Goto(u, "done")
    /\ UNCHANGED <<outside, log, booking, turns, staged, history, crashes>>

\* consent:yes updates the row, if there is one, and shows the menu.
ConsentYes(u) ==
    LET c == From(u) IN
    /\ At(u, "yes", "run")
    /\ consent' = [consent EXCEPT ![c] = IF consent[c] = "none" THEN "none" ELSE "yes"]
    /\ accepted' = accepted \cup {c}
    /\ Effect(u)
    /\ Goto(u, "done")
    /\ UNCHANGED <<outside, log, booking, turns, staged, taps, relayed, crashes>>

\* consent:no, and a menu button, which asks for no consent.
ClientTap(u) ==
    /\ job[u].at = "run" /\ Kind(u) \in {"no", "tap"}
    /\ Effect(u)
    /\ Goto(u, "done")
    /\ UNCHANGED <<outside, tables, staged, accepted, taps, relayed, crashes>>

-----------------------------------------------------------------------------
(* The owner's staged reply *)

\* The reply button stages the client; if the prompt cannot be sent the
\* transaction rolls back, and the staging stays.
StageReply(u) ==
    /\ At(u, "reply", "run")
    /\ staged' = From(u)
    /\ taps' = [taps EXCEPT ![From(u)] = @ + 1]
    /\ Effect(u)
    /\ Goto(u, "done")
    /\ UNCHANGED <<outside, tables, accepted, relayed, crashes>>

FaultyConsumed == staged
Consumed == None

\* A text is sent on to the staged client, and is the agent's otherwise.
OwnerText(u) ==
    /\ At(u, "text", "run")
    /\ IF staged = None
          THEN Goto(u, "mark") /\ Effect(u)
          ELSE /\ job' = [job EXCEPT ![u] = [at |-> "relay", to |-> staged]]
               /\ UNCHANGED applied
    /\ staged' = IF staged = None THEN None ELSE Consumed
    /\ UNCHANGED <<outside, tables, accepted, taps, relayed, crashes>>

\* The send, which may fail: the owner is told either way.
Relay(u) ==
    /\ At(u, "text", "relay")
    /\ \/ relayed' = relayed \cup {<<u, job[u].to>>}
       \/ UNCHANGED relayed
    /\ Effect(u)
    /\ Goto(u, "mark")
    /\ UNCHANGED <<outside, tables, staged, accepted, taps, crashes>>

\* A photo leaves the staged reply alone.
OwnerMedia(u) ==
    /\ At(u, "media", "run")
    /\ Effect(u)
    /\ Goto(u, "mark")
    /\ UNCHANGED <<outside, tables, staged, accepted, taps, relayed, crashes>>

\* A command or menu button drops the staged reply; a failing send rolls the
\* rest back.
OwnerMenu(u) ==
    /\ At(u, "menu", "run")
    /\ staged' = None
    /\ Processed(u) \/ UNCHANGED log
    /\ Effect(u)
    /\ Goto(u, "done")
    /\ UNCHANGED <<outside, consent, booking, turns, accepted, taps, relayed, crashes>>

\* Ten minutes pass.
StagedExpires ==
    /\ staged # None
    /\ staged' = None
    /\ UNCHANGED <<outside, tables, job, history, crashes>>

-----------------------------------------------------------------------------
(* The owner's answer to a booking *)

FaultyAwaits(c) == booking[c] # "erased"
Awaits(c) == booking[c] = "pending"

\* updateBookingStatusIfPending, in the callback's transaction: it waits for
\* whoever holds the row, then looks at the status again.
Decide(u) ==
    LET c == From(u) IN
    /\ job[u].at = "run" /\ Kind(u) \in DOMAIN Answers
    /\ ~Locked(c)
    /\ IF Awaits(c)
          THEN Goto(u, "decided") /\ UNCHANGED applied
          ELSE Goto(u, "done") /\ Effect(u)
    /\ UNCHANGED <<outside, tables, staged, accepted, taps, relayed, crashes>>

\* Client and owner hear of it, and the transaction commits.
CommitDecision(u) ==
    /\ job[u].at = "decided"
    /\ booking' = [booking EXCEPT ![From(u)] = Answers[Kind(u)]]
    /\ Effect(u)
    /\ Goto(u, "done")
    /\ UNCHANGED <<outside, log, consent, turns, staged, accepted, taps, relayed, crashes>>

\* The owner erases a client, in one transaction; without a relationship the
\* client cannot be found.
Erase(u) ==
    LET c == From(u) IN
    /\ At(u, "erase", "run")
    /\ ~Locked(c)
    /\ IF consent[c] = "none"
          THEN UNCHANGED <<consent, booking, turns>>
          ELSE /\ consent' = [consent EXCEPT ![c] = "none"]
               /\ booking' = [booking EXCEPT ![c] = "erased"]
               /\ turns' = turns \ {c}
    /\ staged' = None
    /\ Effect(u)
    /\ Goto(u, "done")
    /\ UNCHANGED <<outside, log, accepted, taps, relayed, crashes>>

-----------------------------------------------------------------------------
\* The process dies: open transactions roll back, memory is gone, and
\* nothing is acknowledged.
Crash ==
    /\ crashes < MaxCrashes
    /\ crashes' = crashes + 1
    /\ job' = [u \in Updates |-> Idle]
    /\ staged' = None
    /\ UNCHANGED <<outside, tables, history>>

Handle(u) ==
    \/ Gate(u) \/ SaveTurn(u) \/ Refresh(u) \/ ConsentYes(u) \/ ClientTap(u)
    \/ StageReply(u) \/ OwnerText(u) \/ Relay(u) \/ OwnerMedia(u) \/ OwnerMenu(u)
    \/ Decide(u) \/ CommitDecision(u) \/ Erase(u)
    \/ RollBack(u) \/ Mark(u) \/ Acknowledge(u)

Next ==
    \/ \E u \in Updates : \/ \E m \in Messages : Send(u, m)
                          \/ Record(u) \/ Ignore(u) \/ ForeignNumber(u)
                          \/ Handle(u)
    \/ StagedExpires \/ Crash

Spec == Init /\ [][Next]_vars

\* Telegram repeats what is not acknowledged; Node runs what is ready, and
\* every wait is bounded by a timeout.
Fairness == \A u \in Updates : /\ WF_vars(Record(u) \/ Ignore(u))
                               /\ WF_vars(Handle(u))

FairSpec == Spec /\ Fairness

-----------------------------------------------------------------------------
\* The webhook keeps the promise of UpdateDelivery: whatever is repeated,
\* handled concurrently or lost in a crash, an update has its effect at most
\* once.
Delivery == INSTANCE UpdateDelivery
ImplementsDelivery == Delivery!Spec

\* Every update is acknowledged in the end, so that Telegram does not hold
\* back the ones behind it.
EveryUpdateAcked == \A u \in Updates : delivery[u] = "due" ~> delivery[u] = "acked"

\* No conversation is stored of a client who never agreed to it, whatever
\* first contacts, consent taps and erasures overlap.
StoredWithConsent == turns \subseteq accepted

\* The upsert that trails every message never takes back a consent given
\* while the message was handled; only an erasure does.
ConsentSticks ==
    [][\A c \in Clients : consent[c] = "yes" => consent'[c] \in {"yes", "none"}]_vars

\* Of two answers to one booking, tapped at once or redelivered, only one is
\* ever in force.
DecidedOnce ==
    [][\A c \in Clients : booking[c] \in Decisions => booking'[c] \in {booking[c], "erased"}]_vars

\* Every tap of the reply button lets at most one of the owner's texts
\* through to the client.
RelayedOncePerTap ==
    \A c \in Clients :
       Cardinality({u \in Updates : <<u, c>> \in relayed}) <= taps[c]
=============================================================================
