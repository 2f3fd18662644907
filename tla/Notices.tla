------------------------------ MODULE Notices -------------------------------
(***************************************************************************)
(* What the timers send: reminders, the owner's agenda, notices of         *)
(* expiring packs, renewal nudges the owner is asked about first, notices  *)
(* of cancelled classes the cascade has not reached, and the hint to       *)
(* connect a calendar.  Sweeps may overlap (a slow one and the next, two   *)
(* processes during a deployment), so each notice is claimed in the        *)
(* database, before it is sent or after.                                   *)
(*                                                                         *)
(* Telegram and the users are external; the database does not fail here.   *)
(* A definition Faulty<X>, before X, is X with a mistake in it, to show    *)
(* that a property can fail.                                               *)
(***************************************************************************)
EXTENDS Naturals, FiniteSets

CONSTANTS
    Items,          \* what a notice is about: a booking, a pack, a day, a class, the business
    Sweeps,         \* sweeps and confirmations running at once
    MaxFailures,    \* bound on sends that fail
    MaxCrashes

ASSUME BoundsAssumption == MaxFailures \in Nat /\ MaxCrashes \in Nat
ASSUME ItemsAssumption == IsFiniteSet(Items)

VARIABLES
    kind,           \* which of the pollers this is: they share no state
    due,            \* the item is in the window its sweep looks at
    ownerKnown,     \* businesses.owner_telegram_id is set
    claims,         \* who is claimed: sent-at columns and deduplication rows
    sweep,          \* how far a sweep is with an item
    batch,          \* pendingRenewalBatches
    nudging,        \* the callbacks that are sending a batch
    withdrawn,      \* history: hints that were claimed so as not to be sent
    attempted,      \* history: sends that were tried; for a renewal, the owner's question
    delivered,      \* history: how often a notice arrived
    failures, crashes

memory == <<batch, nudging>>
history == <<withdrawn, attempted>>
vars   == <<kind, due, ownerKnown, claims, sweep, memory, history, delivered, failures, crashes>>

Kinds == {"reminder", "agenda", "expiry", "renewal", "cancellation", "nudge"}
Notice == Items \X {"client", "owner"}

\* An expiring pack is told to the client, then to the owner.
Recipients(k) == CASE k = "expiry"             -> {"client", "owner"}
                   [] k \in {"agenda", "nudge"} -> {"owner"}
                   [] OTHER                    -> {"client"}
First(k) == IF "client" \in Recipients(k) THEN "client" ELSE "owner"

Idle == [at |-> "idle"]

TypeOK ==
    /\ kind \in Kinds
    /\ due \in [Items -> {"early", "due", "past"}]
    /\ ownerKnown \in BOOLEAN
    /\ claims \subseteq Notice
    /\ \A n \in claims : n[2] \in Recipients(kind)
    /\ sweep \in [Sweeps -> {Idle}
                    \cup [at : {"claim", "send", "release", "mark"}, n : Notice]
                    \cup [at : {"collect"}, todo : SUBSET Items, got : SUBSET Items]
                    \cup [at : {"prompt"}, got : SUBSET Items]]
    /\ batch \subseteq Items
    /\ nudging \subseteq Items
    /\ withdrawn \subseteq Notice
    /\ attempted \subseteq Notice
    /\ delivered \in [Notice -> Nat]
    /\ failures \in 0..MaxFailures /\ crashes \in 0..MaxCrashes

Init ==
    /\ kind \in Kinds
    /\ due = [i \in Items |-> "early"]
    /\ ownerKnown \in BOOLEAN
    /\ claims = {}
    /\ sweep = [s \in Sweeps |-> Idle]
    /\ batch = {} /\ nudging = {}
    /\ withdrawn = {}
    /\ attempted = {}
    /\ delivered = [n \in Notice |-> 0]
    /\ failures = 0 /\ crashes = 0

Goto(s, stage, n) == sweep' = [sweep EXCEPT ![s] = [at |-> stage, n |-> n]]
Done(s)           == sweep' = [sweep EXCEPT ![s] = Idle]

-----------------------------------------------------------------------------
\* Time passes: a notice becomes due, and its window ends.
Advance(i) ==
    /\ due[i] # "past"
    /\ due' = [due EXCEPT ![i] = IF @ = "early" THEN "due" ELSE "past"]
    /\ UNCHANGED <<kind, ownerKnown, claims, sweep, memory, history, delivered, failures, crashes>>

\* The owner of a business that already has a bot becomes known, outside
\* this code.
LearnOwner ==
    /\ ~ownerKnown
    /\ ownerKnown' = TRUE
    /\ UNCHANGED <<kind, due, claims, sweep, memory, history, delivered, failures, crashes>>

-----------------------------------------------------------------------------
(* Claim, then send *)

Opening(k) == IF k = "cancellation" THEN "send" ELSE "claim"

\* A sweep reads the notices that are due.  A cancelled class is told first
\* and marked afterwards.
Begin(s, i) ==
    LET n == <<i, First(kind)>> IN
    /\ sweep[s] = Idle /\ due[i] = "due" /\ kind # "renewal"
    /\ kind \in {"agenda", "nudge"} => ownerKnown
    /\ kind # "expiry" => n \notin claims
    /\ Goto(s, Opening(kind), n)
    /\ UNCHANGED <<kind, due, ownerKnown, claims, memory, history, delivered, failures, crashes>>

FaultyOnward(s, n) ==
    IF n[2] = "client" /\ ownerKnown THEN Goto(s, "claim", <<n[1], "owner">>) ELSE Done(s)
\* The owner's half of an expiry notice comes after the client's, if there is
\* an owner to send it to.
Onward(s, n) ==
    IF kind = "expiry" /\ n[2] = "client" /\ ownerKnown
       THEN Goto(s, "claim", <<n[1], "owner">>)
       ELSE Done(s)

FaultyBeaten(s, n) == Done(s)
\* Another sweep has claimed the client's half, perhaps long ago.
Beaten(s, n) == Onward(s, n)

FaultyLoses(n) == n \in claims
FaultyWins(n) == TRUE
\* The UPDATE or INSERT that claims returns a row to one caller only.
Wins(n) == n \notin claims

Claim(s) ==
    LET n == sweep[s].n IN
    /\ sweep[s].at = "claim"
    /\ claims' = claims \cup {n}
    /\ IF Wins(n) THEN Goto(s, "send", n) ELSE Beaten(s, n)
    /\ UNCHANGED <<kind, due, ownerKnown, memory, history, delivered, failures, crashes>>

\* The reminder sweep calls Telegram outside botTokenStore.run, and
\* callTelegramApi refuses.
HasBotToken(k) == k # "reminder"

Arrives(n) ==
    /\ HasBotToken(kind) /\ (n[2] = "owner" => ownerKnown)
    /\ delivered' = [delivered EXCEPT ![n] = @ + 1]

Deliver(n) == Arrives(n) /\ UNCHANGED failures

\* The call throws: refused, or given up after fifteen seconds although
\* Telegram has the message or still gets it.
Lose(n) ==
    \/ ~HasBotToken(kind) /\ UNCHANGED <<delivered, failures>>
    \/ /\ failures < MaxFailures /\ failures' = failures + 1
       /\ Arrives(n) \/ UNCHANGED delivered

SendSucceeds(s) ==
    LET n == sweep[s].n IN
    /\ sweep[s].at = "send"
    /\ Deliver(n)
    /\ attempted' = attempted \cup {n}
    /\ IF kind = "cancellation" THEN Goto(s, "mark", n) ELSE Onward(s, n)
    /\ UNCHANGED <<kind, due, ownerKnown, claims, memory, withdrawn, crashes>>

FaultyOnFailure(k) == "idle"
\* A failure is logged; only the hint is given back, and a class is marked
\* whether its clients were reached or not.
OnFailure(k) == CASE k = "nudge"        -> "release"
                  [] k = "cancellation" -> "mark"
                  [] OTHER              -> "idle"

SendFails(s) ==
    LET n == sweep[s].n
        stage == OnFailure(kind) IN
    /\ sweep[s].at = "send"
    /\ Lose(n)
    /\ attempted' = attempted \cup {n}
    /\ IF stage = "idle" THEN Done(s) ELSE Goto(s, stage, n)
    /\ UNCHANGED <<kind, due, ownerKnown, claims, memory, withdrawn, crashes>>

\* releaseGoogleCalendarNudgeClaim
Release(s) ==
    /\ sweep[s].at = "release"
    /\ claims' = claims \ {sweep[s].n}
    /\ Done(s)
    /\ UNCHANGED <<kind, due, ownerKnown, memory, history, delivered, failures, crashes>>

\* handleGoogleAuthRevoked claims the hint so that it does not follow the
\* notice of the revocation, at any time after a calendar was connected.
Withdraw(i) ==
    LET n == <<i, "owner">> IN
    /\ kind = "nudge" /\ n \notin claims
    /\ claims' = claims \cup {n}
    /\ withdrawn' = withdrawn \cup {n}
    /\ UNCHANGED <<kind, due, ownerKnown, sweep, memory, attempted, delivered, failures, crashes>>

\* session_cancellation_notifications
Mark(s) ==
    /\ sweep[s].at = "mark"
    /\ claims' = claims \cup {sweep[s].n}
    /\ Done(s)
    /\ UNCHANGED <<kind, due, ownerKnown, memory, history, delivered, failures, crashes>>

-----------------------------------------------------------------------------
(* Renewal nudges *)

Renewals == {i \in Items : kind = "renewal" /\ due[i] = "due"}

BeginRenewal(s) ==
    /\ sweep[s] = Idle /\ ownerKnown /\ Renewals # {}
    /\ sweep' = [sweep EXCEPT ![s] = [at |-> "collect", todo |-> Renewals, got |-> {}]]
    /\ UNCHANGED <<kind, due, ownerKnown, claims, memory, history, delivered, failures, crashes>>

\* One row for every pack, and a list of those this sweep was first for.
Collect(s) ==
    /\ sweep[s].at = "collect" /\ sweep[s].todo # {}
    /\ \E i \in sweep[s].todo :
          /\ claims' = claims \cup {<<i, "client">>}
          /\ sweep' = [sweep EXCEPT ![s] =
                          [at |-> "collect", todo |-> @.todo \ {i},
                           got |-> IF Wins(<<i, "client">>) THEN @.got \cup {i} ELSE @.got]]
    /\ UNCHANGED <<kind, due, ownerKnown, memory, history, delivered, failures, crashes>>

\* The list is kept in memory, in place of the one before it.
Ask(s) ==
    /\ sweep[s].at = "collect" /\ sweep[s].todo = {}
    /\ IF sweep[s].got = {}
          THEN Done(s) /\ UNCHANGED batch
          ELSE /\ batch' = sweep[s].got
               /\ sweep' = [sweep EXCEPT ![s] = [at |-> "prompt", got |-> sweep[s].got]]
    /\ UNCHANGED <<kind, due, ownerKnown, claims, nudging, history, delivered, failures, crashes>>

\* The question reaches the owner or not.
Prompt(s) ==
    /\ sweep[s].at = "prompt"
    /\ UNCHANGED failures \/ (failures < MaxFailures /\ failures' = failures + 1)
    /\ attempted' = attempted \cup (sweep[s].got \X {"client"})
    /\ Done(s)
    /\ UNCHANGED <<kind, due, ownerKnown, claims, memory, withdrawn, delivered, crashes>>

\* The owner taps yes, on this question or an earlier one, perhaps twice: the
\* list is taken out of memory before anything is sent.
TapYes ==
    /\ batch # {} /\ nudging = {}
    /\ batch' = {}
    /\ nudging' = batch
    /\ UNCHANGED <<kind, due, ownerKnown, claims, sweep, history, delivered, failures, crashes>>

\* The owner taps no, or ten minutes pass.
BatchDropped ==
    /\ batch # {}
    /\ batch' = {}
    /\ UNCHANGED <<kind, due, ownerKnown, claims, sweep, nudging, history, delivered, failures, crashes>>

NudgeClient(i) ==
    /\ i \in nudging
    /\ nudging' = nudging \ {i}
    /\ Deliver(<<i, "client">>) \/ Lose(<<i, "client">>)
    /\ UNCHANGED <<kind, due, ownerKnown, claims, sweep, batch, history, crashes>>

-----------------------------------------------------------------------------
Crash ==
    /\ crashes < MaxCrashes
    /\ crashes' = crashes + 1
    /\ sweep' = [s \in Sweeps |-> Idle]
    /\ batch' = {} /\ nudging' = {}
    /\ UNCHANGED <<kind, due, ownerKnown, claims, history, delivered, failures>>

Step(s) == \/ Claim(s) \/ SendSucceeds(s) \/ SendFails(s) \/ Release(s) \/ Mark(s)
           \/ Collect(s) \/ Ask(s) \/ Prompt(s)

Next ==
    \/ \E i \in Items : Advance(i) \/ NudgeClient(i) \/ Withdraw(i)
    \/ \E s \in Sweeps : \/ Step(s) \/ BeginRenewal(s)
                         \/ \E i \in Items : Begin(s, i)
    \/ LearnOwner \/ TapYes \/ BatchDropped \/ Crash

Spec == Init /\ [][Next]_vars

\* Every timer fires again, after a restart too, and a sweep takes every
\* notice that is due; sends are bounded by a timeout.  Nothing repeats the
\* hint but another confirmed booking, which need not come.
Fairness == /\ \A s \in Sweeps : WF_vars(Step(s)) /\ SF_vars(BeginRenewal(s))
            /\ \A s \in Sweeps, i \in Items : SF_vars(kind # "nudge" /\ Begin(s, i))

FairSpec == Spec /\ Fairness

-----------------------------------------------------------------------------
\* Whatever sweeps overlap and sends time out after Telegram has them, a
\* claimed notice arrives at most once.  The hint, given back by a failed
\* send, may arrive once more for every failure.  A class that was cancelled
\* is told before it is marked and may be told again.
AtMostOnce ==
    \A n \in Notice : kind # "cancellation" =>
       delivered[n] <= IF kind = "nudge" THEN 1 + failures ELSE 1

\* Nothing is claimed for good without a send being tried, of a renewal the
\* question to the owner; an owner's notice in particular waits until there
\* is an owner.  Only a restart in between burns a claim, and the hint is
\* claimed unsent when the connection was revoked.
Working(s, n) == \/ sweep[s].at \in {"claim", "send", "release", "mark"} /\ sweep[s].n = n
                 \/ sweep[s].at \in {"collect", "prompt"} /\ n[1] \in sweep[s].got
ClaimedIsAttempted ==
    crashes = 0 =>
       \A n \in claims : n \in attempted \cup withdrawn \/ \E s \in Sweeps : Working(s, n)

\* A notice that a sweep has claimed and not sent, or that waits in memory.
Held(job, n) == \/ job.at = "send" /\ job.n = n
                \/ job.at = "collect" /\ n[2] = "client" /\ n[1] \in job.got
Holds(s, n)  == Held(sweep[s], n)
Failed(s, n) == sweep[s].at = "release" /\ sweep[s].n = n
Kept(n)      == n[2] = "client" /\ n[1] \in batch \cup nudging

\* A notice claimed before it is sent has one sender, who sends it once, or
\* loses it.  A sender of the hint that fails, after it arrived perhaps,
\* gives it back, so that it goes for good with a send that succeeds, a
\* restart or the revocation of the connection.  A cancelled class is told
\* before it is claimed, and is left out.
Place(n) ==
    IF kind = "cancellation" \/ n \notin claims THEN "open"
    ELSE IF Kept(n) \/ \E s \in Sweeps : Holds(s, n) THEN "held"
    ELSE IF \E s \in Sweeps : Failed(s, n) THEN "failed"
    ELSE "gone"

Outbox == INSTANCE NoticeOutbox
          WITH Letters    <- Notice,
               place      <- [n \in Notice |-> Place(n)],
               arrived    <- [n \in Notice |-> IF kind = "cancellation" THEN 0 ELSE delivered[n]],
               returnable <- kind = "nudge",
               crashed    <- crashes > 0

ImplementsOutbox == Outbox!Spec

\* Every notice of a timer that stays due is taken up, the owner's also when
\* the client's cannot be delivered.
NoticeTakenUp ==
    \A n \in Notice :
       kind # "nudge" /\ due[n[1]] = "due" /\ ownerKnown /\ n[2] \in Recipients(kind)
          ~> n \in claims \/ due[n[1]] = "past"

-----------------------------------------------------------------------------
\* "sends 24h-prior and 1h-prior Telegram reminders to each client, exactly
\* once each per reminder type": with a Telegram that never fails and no
\* restart, a reminder that was claimed has arrived once it is not being sent.
RemindedExactlyOnce ==
    \A n \in claims : kind = "reminder" /\ failures = 0 /\ crashes = 0 =>
       delivered[n] = 1 \/ \E s \in Sweeps : Working(s, n)
=============================================================================
