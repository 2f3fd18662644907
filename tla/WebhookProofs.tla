---------------------------- MODULE WebhookProofs ----------------------------
(***************************************************************************)
(* The safety of Webhook for any number of updates, clients and crashes.   *)
(*                                                                         *)
(* A step of a handler takes one job further; it has its effect only while *)
(* the job is early, and no job is early twice (Moves).  That an update is *)
(* applied at most once rests on that and on the log, which is written     *)
(* before the job begins and survives it.                                  *)
(***************************************************************************)
EXTENDS Webhook, FiniteSetTheorems, TLAPS

\* Where a job is before its effect.
Early == {"run", "turn", "decided", "relay"}

\* The parts of TypeOK.
JobsOK ==
    /\ delivery \in [Updates -> {"unsent", "due", "acked"}]
    /\ msg \in [Updates -> Messages \cup {None}]
    /\ \A u \in Updates : delivery[u] # "unsent" => msg[u] \in Messages
    /\ log \in [Updates -> {"absent", "received", "processed"}]
    /\ job \in [Updates -> Jobs]
    /\ \A u \in Updates : job[u] # Idle => delivery[u] # "unsent" /\ log[u] # "absent"
    /\ \A u \in Updates : job[u].at = "decided" => msg[u].kind \in DOMAIN Answers

DataOK ==
    /\ staged \in Clients \cup {None}
    /\ consent \in [Clients -> {"none", "no", "yes"}]
    /\ booking \in [Clients -> {"pending", "erased"} \cup Decisions]
    /\ turns \in SUBSET Clients
    /\ accepted \in SUBSET Clients
    /\ taps \in [Clients -> Nat]
    /\ relayed \in SUBSET (Updates \X Clients)
    /\ crashes \in 0..MaxCrashes

\* An update that is not in the log, or whose job is early, has had no
\* effect; an effect needs an update.
EffectsOK ==
    /\ applied \in [Updates -> {0, 1}]
    /\ \A u \in Updates : log[u] = "absent" \/ job[u].at \in Early => applied[u] = 0

IInv == JobsOK /\ DataOK /\ EffectsOK

LEMMA TypeParts == IInv => TypeOK
BY DEF IInv, JobsOK, DataOK, EffectsOK, TypeOK

-----------------------------------------------------------------------------
(* The shape of a step *)

\* Every kind of job; only one that relays names a client.
LEMMA JobKinds ==
    /\ \A s \in {"idle", "run", "turn", "decided", "mark", "upsert", "done"} : [at |-> s] \in Jobs
    /\ \A c \in Clients : [at |-> "relay", to |-> c] \in Jobs
    /\ \A j \in Jobs : j.at = "relay" => j.to \in Clients
    /\ Idle \in Jobs /\ Idle.at = "idle"
    /\ \A j \in Jobs : j.at = "idle" => j = Idle
BY DEF Jobs, Idle

\* The handler of u goes from one job to the next, and has its effect if the
\* job was early and is not any more.
Moves(u, j) ==
    /\ job[u] # Idle /\ j \in Jobs \ {Idle}
    /\ job' = [job EXCEPT ![u] = j]
    /\ log' = log \/ log' = [log EXCEPT ![u] = "processed"]
    /\ j.at = "decided" => Kind(u) \in DOMAIN Answers
    /\ \/ applied' = applied /\ (j.at \in Early => job[u].at \in Early)
       \/ applied' = [applied EXCEPT ![u] = applied[u] + 1]
             /\ job[u].at \in Early /\ j.at \notin Early
    /\ UNCHANGED <<outside, crashes>>

\* What a handler does is such a step, or the acknowledgement.
LEMMA HandleShape ==
    ASSUME JobsOK, DataOK, NEW u \in Updates, Handle(u)
    PROVE  Acknowledge(u) \/ \E j : Moves(u, j)
<1> USE DEF At, Goto, Effect, Processed, Early, outside, tables, history
<1>0. job[u] \in Jobs
  BY DEF JobsOK
<1>1. ASSUME Gate(u) PROVE \E j : Moves(u, j)
  <2>1. CASE consent'[From(u)] = "yes" /\ Kind(u) = "chat"
    <3>1. Moves(u, [at |-> "turn"])
      BY <1>0, <1>1, <2>1, JobKinds DEF Gate, Moves, Idle
    <3> QED BY <3>1
  <2>2. CASE ~(consent'[From(u)] = "yes" /\ Kind(u) = "chat")
    <3>1. Moves(u, [at |-> "upsert"])
      BY <1>0, <1>1, <2>2, JobKinds DEF Gate, Moves, Idle
    <3> QED BY <3>1
  <2> QED BY <2>1, <2>2
<1>2. ASSUME SaveTurn(u) \/ RollBack(u) PROVE \E j : Moves(u, j)
  <2>1. Moves(u, [at |-> "upsert"]) \/ Moves(u, [at |-> "done"])
    BY <1>0, <1>2, JobKinds DEF SaveTurn, RollBack, Ending, Moves, Idle
  <2> QED BY <2>1
<1>3. ASSUME Refresh(u) \/ ConsentYes(u) \/ ClientTap(u) \/ StageReply(u) \/ OwnerMenu(u)
             \/ CommitDecision(u) \/ Erase(u) \/ Mark(u)
      PROVE  \E j : Moves(u, j)
  <2>1. Moves(u, [at |-> "done"])
    BY <1>0, <1>3, JobKinds
       DEF Refresh, ConsentYes, ClientTap, StageReply, OwnerMenu, CommitDecision, Erase, Mark,
           Moves, Idle
  <2> QED BY <2>1
<1>4. ASSUME OwnerText(u) PROVE \E j : Moves(u, j)
  <2>1. CASE staged = None
    <3>1. Moves(u, [at |-> "mark"])
      BY <1>0, <1>4, <2>1, JobKinds DEF OwnerText, Moves, Idle
    <3> QED BY <3>1
  <2>2. CASE staged # None
    <3>1. Moves(u, [at |-> "relay", to |-> staged])
      BY <1>0, <1>4, <2>2, JobKinds DEF OwnerText, Moves, Idle, DataOK
    <3> QED BY <3>1
  <2> QED BY <2>1, <2>2
<1>5. ASSUME Relay(u) \/ OwnerMedia(u) PROVE \E j : Moves(u, j)
  <2>1. Moves(u, [at |-> "mark"])
    BY <1>0, <1>5, JobKinds DEF Relay, OwnerMedia, Moves, Idle
  <2> QED BY <2>1
<1>6. ASSUME Decide(u) PROVE \E j : Moves(u, j)
  <2>1. Moves(u, [at |-> "decided"]) \/ Moves(u, [at |-> "done"])
    BY <1>0, <1>6, JobKinds DEF Decide, Moves, Idle
  <2> QED BY <2>1
<1> QED BY <1>1, <1>2, <1>3, <1>4, <1>5, <1>6 DEF Handle

-----------------------------------------------------------------------------
(* Type correctness *)

LEMMA InitIInv == Init => IInv
<1> SUFFICES ASSUME Init PROVE IInv
  OBVIOUS
<1>1. \A u \in Updates : job[u] = Idle /\ log[u] = "absent" /\ delivery[u] = "unsent" /\ applied[u] = 0
  BY DEF Init
<1>2. JobsOK
  BY <1>1, JobKinds DEF Init, JobsOK, Idle
<1>3. DataOK
  BY CrashesAssumption DEF Init, DataOK
<1>4. EffectsOK
  BY <1>1, JobKinds DEF Init, EffectsOK, Early
<1> QED BY <1>2, <1>3, <1>4 DEF IInv

\* A step of a handler keeps jobs and effects in order.
LEMMA MovesType ==
    ASSUME JobsOK, EffectsOK, NEW u \in Updates, NEW j, Moves(u, j)
    PROVE  JobsOK' /\ EffectsOK'
<1>1. /\ job'[u] = j /\ j \in Jobs \ {Idle} /\ job[u] # Idle
      /\ \A v \in Updates \ {u} : job'[v] = job[v]
      /\ UNCHANGED <<delivery, msg, crashes>>
  BY DEF Moves, JobsOK, outside
<1>2. /\ log' \in [Updates -> {"absent", "received", "processed"}]
      /\ \A v \in Updates : log'[v] = "absent" => log[v] = "absent"
  BY DEF Moves, JobsOK
<1>3. job' \in [Updates -> Jobs]
  BY <1>1 DEF Moves, JobsOK
<1>4. JobsOK'
  <2>1. \A v \in Updates : job'[v] # Idle => delivery[v] # "unsent" /\ log'[v] # "absent"
    BY <1>1, <1>2 DEF JobsOK
  <2>2. \A v \in Updates : job'[v].at = "decided" => msg[v].kind \in DOMAIN Answers
    BY <1>1 DEF JobsOK, Moves, Kind
  <2> QED BY <1>1, <1>2, <1>3, <2>1, <2>2 DEF JobsOK
<1>5. log[u] # "absent"
  BY <1>1 DEF JobsOK
<1>6. ASSUME applied' = applied, j.at \in Early => job[u].at \in Early
      PROVE  EffectsOK'
  BY <1>1, <1>2, <1>6 DEF EffectsOK
<1>7. ASSUME applied' = [applied EXCEPT ![u] = applied[u] + 1],
             job[u].at \in Early, j.at \notin Early
      PROVE  EffectsOK'
  <2>1. applied[u] = 0
    BY <1>7 DEF EffectsOK
  <2>2. applied' = [applied EXCEPT ![u] = 1]
    BY <1>7, <2>1
  <2>3. log'[u] # "absent"
    BY <1>2, <1>5
  <2> QED BY <1>1, <1>2, <1>7, <2>2, <2>3 DEF EffectsOK
<1> QED BY <1>4, <1>6, <1>7 DEF Moves

\* What a handler does to the data keeps its type.
LEMMA HandleData ==
    ASSUME JobsOK, DataOK, NEW u \in Updates, Handle(u)
    PROVE  DataOK'
<1> USE DEF outside, tables, history
<1>1. msg[u] \in Messages /\ From(u) \in Clients
  <2>1. job[u] # Idle
    BY HandleShape, JobKinds DEF Acknowledge, Moves, JobsOK
  <2> QED BY <2>1 DEF JobsOK, Messages, From
<1>2. ASSUME Gate(u) \/ Refresh(u) \/ ConsentYes(u) PROVE DataOK'
  <2>1. consent' \in [Clients -> {"none", "no", "yes"}] /\ accepted' \in SUBSET Clients
    BY <1>1, <1>2 DEF Gate, Refresh, ConsentYes, Upsert, FirstContact, DataOK
  <2>2. UNCHANGED <<staged, booking, turns, taps, relayed, crashes>>
    BY <1>2 DEF Gate, Refresh, ConsentYes
  <2> QED BY <2>1, <2>2 DEF DataOK
<1>3. ASSUME \/ SaveTurn(u) \/ ClientTap(u) \/ OwnerMedia(u) \/ OwnerMenu(u) \/ Decide(u)
             \/ RollBack(u) \/ Mark(u) \/ Acknowledge(u)
      PROVE  DataOK'
  <2>1. turns' \in SUBSET Clients /\ staged' \in {staged, None}
    BY <1>1, <1>3
       DEF SaveTurn, ClientTap, OwnerMedia, OwnerMenu, Decide, RollBack, Mark, Acknowledge, DataOK
  <2>2. UNCHANGED <<consent, booking, accepted, taps, relayed, crashes>>
    BY <1>3
       DEF SaveTurn, ClientTap, OwnerMedia, OwnerMenu, Decide, RollBack, Mark, Acknowledge
  <2> QED BY <2>1, <2>2 DEF DataOK
<1>4. ASSUME StageReply(u) PROVE DataOK'
  BY <1>1, <1>4 DEF StageReply, DataOK
<1>5. ASSUME OwnerText(u) PROVE DataOK'
  BY <1>5 DEF OwnerText, Consumed, DataOK
<1>6. ASSUME Relay(u) PROVE DataOK'
  <2>1. job[u].to \in Clients
    BY <1>6, JobKinds DEF Relay, At, JobsOK
  <2> QED BY <1>6, <2>1 DEF Relay, DataOK
<1>7. ASSUME CommitDecision(u) PROVE DataOK'
  <2>1. Kind(u) \in DOMAIN Answers /\ Answers[Kind(u)] \in Decisions
    BY <1>7 DEF CommitDecision, JobsOK, Kind, Answers, Decisions
  <2> QED BY <1>1, <1>7, <2>1 DEF CommitDecision, DataOK
<1>8. ASSUME Erase(u) PROVE DataOK'
  BY <1>1, <1>8 DEF Erase, DataOK
<1> QED BY <1>2, <1>3, <1>4, <1>5, <1>6, <1>7, <1>8 DEF Handle

LEMMA NextIInv == IInv /\ [Next]_vars => IInv'
<1> SUFFICES ASSUME JobsOK, DataOK, EffectsOK, [Next]_vars PROVE IInv'
  BY DEF IInv
<1> USE DEF outside, tables, history
<1>1. ASSUME NEW u \in Updates, NEW m \in Messages, Send(u, m) PROVE IInv'
  <2>1. JobsOK'
    <3>1. job[u].at # "decided"
      BY <1>1, JobKinds DEF Send, JobsOK
    <3> QED BY <1>1, <3>1 DEF Send, JobsOK
  <2>2. DataOK' /\ EffectsOK'
    BY <1>1 DEF Send, DataOK, EffectsOK
  <2> QED BY <2>1, <2>2 DEF IInv
<1>2. ASSUME NEW u \in Updates, Record(u) PROVE IInv'
  <2>1. job' = [job EXCEPT ![u] = [at |-> "run"]] /\ [at |-> "run"] \in Jobs
    BY <1>2, JobKinds DEF Record, Goto
  <2>2. log' = [log EXCEPT ![u] = "received"] /\ log[u] = "absent" /\ delivery[u] = "due"
    BY <1>2 DEF Record, Fresh
  <2>3. JobsOK'
    BY <1>2, <2>1, <2>2 DEF Record, JobsOK
  <2>4. EffectsOK'
    BY <1>2, <2>1, <2>2 DEF Record, EffectsOK, JobsOK
  <2>5. DataOK'
    BY <1>2 DEF Record, DataOK
  <2> QED BY <2>3, <2>4, <2>5 DEF IInv
<1>3. ASSUME NEW u \in Updates, Ignore(u) PROVE IInv'
  BY <1>3 DEF Ignore, IInv, JobsOK, DataOK, EffectsOK
<1>4. ASSUME NEW u \in Updates, ForeignNumber(u) PROVE IInv'
  BY <1>4 DEF ForeignNumber, IInv, JobsOK, DataOK, EffectsOK
<1>5. ASSUME NEW u \in Updates, Handle(u) PROVE IInv'
  <2>1. DataOK'
    BY <1>5, HandleData
  <2>2. CASE Acknowledge(u)
    BY <2>1, <2>2, JobKinds DEF Acknowledge, IInv, JobsOK, EffectsOK, Early
  <2>3. CASE \E j : Moves(u, j)
    BY <2>1, <2>3, MovesType DEF IInv
  <2> QED BY <1>5, <2>2, <2>3, HandleShape
<1>6. ASSUME StagedExpires PROVE IInv'
  BY <1>6 DEF StagedExpires, IInv, JobsOK, DataOK, EffectsOK
<1>7. ASSUME Crash PROVE IInv'
  <2>1. job' = [u \in Updates |-> Idle] /\ crashes' \in 0..MaxCrashes
    BY <1>7, CrashesAssumption DEF Crash, DataOK
  <2>2. JobsOK' /\ EffectsOK'
    BY <1>7, <2>1, JobKinds DEF Crash, JobsOK, EffectsOK, Early
  <2>3. DataOK'
    BY <1>7, <2>1 DEF Crash, DataOK
  <2> QED BY <2>2, <2>3 DEF IInv
<1>8. CASE UNCHANGED vars
  BY <1>8 DEF vars, IInv, JobsOK, DataOK, EffectsOK
<1> QED BY <1>1, <1>2, <1>3, <1>4, <1>5, <1>6, <1>7, <1>8 DEF Next

LEMMA AlwaysIInv == Spec => []IInv
BY InitIInv, NextIInv, PTL DEF Spec

\* Whatever is repeated, handled concurrently, rolled back or lost in a
\* crash: every variable keeps its type, an answer in progress is one to a
\* booking, and no update has its effect twice (telegram_updates).
THEOREM TypeCorrect == Spec => []TypeOK
BY AlwaysIInv, TypeParts, PTL

-----------------------------------------------------------------------------
(* Refinement *)

\* Every step of the webhook is one of UpdateDelivery, or none: an update is
\* kept until it is acknowledged, and has its effect at most once.
THEOREM DeliveryImplemented == Spec => ImplementsDelivery
<1>1. Init => Delivery!Init
  BY DEF Init, Delivery!Init
<1>2. IInv /\ [Next]_vars => [Delivery!Next]_(Delivery!vars)
  <2> SUFFICES ASSUME JobsOK, DataOK, EffectsOK, [Next]_vars
               PROVE  [Delivery!Next]_(Delivery!vars)
    BY DEF IInv
  <2> USE DEF outside, tables, history, Delivery!Next, Delivery!vars
  <2>1. ASSUME NEW u \in Updates, NEW m \in Messages, Send(u, m)
        PROVE  Delivery!Next
    BY <2>1 DEF Send, Delivery!Send
  <2>2. ASSUME NEW u \in Updates, Record(u) \/ ForeignNumber(u)
        PROVE  UNCHANGED Delivery!vars
    BY <2>2 DEF Record, ForeignNumber
  <2>3. ASSUME NEW u \in Updates, Ignore(u)
        PROVE  Delivery!Next
    BY <2>3 DEF Ignore, Delivery!Acknowledge
  <2>4. ASSUME NEW u \in Updates, Acknowledge(u)
        PROVE  Delivery!Next \/ UNCHANGED Delivery!vars
    <3>1. delivery[u] \in {"due", "acked"}
      BY <2>4, JobKinds DEF Acknowledge, JobsOK
    <3>2. delivery' = [delivery EXCEPT ![u] = "acked"] /\ applied' = applied
      BY <2>4 DEF Acknowledge
    <3> QED BY <3>1, <3>2 DEF Delivery!Acknowledge, JobsOK
  <2>5. ASSUME NEW u \in Updates, NEW j, Moves(u, j)
        PROVE  Delivery!Next \/ UNCHANGED Delivery!vars
    <3>1. delivery' = delivery /\ delivery[u] # "unsent"
      BY <2>5 DEF Moves, JobsOK
    <3>2. CASE applied' = applied
      BY <3>1, <3>2
    <3>3. CASE applied' = [applied EXCEPT ![u] = applied[u] + 1] /\ job[u].at \in Early
      <4>1. applied[u] = 0
        BY <3>3 DEF EffectsOK
      <4>2. applied' = [applied EXCEPT ![u] = 1]
        BY <3>3, <4>1
      <4> QED BY <3>1, <4>1, <4>2 DEF Delivery!Apply
    <3> QED BY <2>5, <3>2, <3>3 DEF Moves
  <2>6. ASSUME StagedExpires \/ Crash
        PROVE  UNCHANGED Delivery!vars
    BY <2>6 DEF StagedExpires, Crash
  <2>7. CASE UNCHANGED vars
    BY <2>7 DEF vars
  <2> QED BY <2>1, <2>2, <2>3, <2>4, <2>5, <2>6, <2>7, HandleShape DEF Next
<1> QED BY <1>1, <1>2, AlwaysIInv, PTL DEF Spec, ImplementsDelivery, Delivery!Spec

-----------------------------------------------------------------------------
(* Consent *)

\* A consent in the table was given, and a turn under way is of a client
\* who gave it.
Agreed ==
    /\ \A c \in Clients : consent[c] = "yes" => c \in accepted
    /\ \A u \in Updates : job[u].at = "turn" => From(u) \in accepted
    /\ StoredWithConsent

\* Only the yes of a client makes a consent.
LEMMA ConsentStep ==
    ASSUME IInv, [Next]_vars
    PROVE  /\ accepted \subseteq accepted'
           /\ \A c \in Clients : consent'[c] = "yes" => consent[c] = "yes" \/ c \in accepted'
           /\ \A c \in Clients : consent[c] = "yes" => consent'[c] \in {"yes", "none"}
<1> USE DEF outside, tables, history
<1>1. consent \in [Clients -> {"none", "no", "yes"}]
  BY DEF IInv, DataOK
<1>2. ASSUME NEW u \in Updates, Gate(u) \/ Refresh(u) \/ ConsentYes(u) \/ Erase(u)
      PROVE  /\ accepted \subseteq accepted'
             /\ \A c \in Clients : consent'[c] = "yes" => consent[c] = "yes" \/ c \in accepted'
             /\ \A c \in Clients : consent[c] = "yes" => consent'[c] \in {"yes", "none"}
  BY <1>1, <1>2 DEF Gate, Refresh, ConsentYes, Erase, Upsert, FirstContact
<1>3. ASSUME NEW u \in Updates,
             \/ SaveTurn(u) \/ ClientTap(u) \/ StageReply(u) \/ OwnerText(u) \/ Relay(u)
             \/ OwnerMedia(u) \/ OwnerMenu(u) \/ Decide(u) \/ CommitDecision(u)
             \/ RollBack(u) \/ Mark(u) \/ Acknowledge(u)
      PROVE  UNCHANGED <<consent, accepted>>
  BY <1>3 DEF SaveTurn, ClientTap, StageReply, OwnerText, Relay, OwnerMedia, OwnerMenu, Decide,
              CommitDecision, RollBack, Mark, Acknowledge
<1>4. ASSUME NEW u \in Updates,
             (\E m \in Messages : Send(u, m)) \/ Record(u) \/ Ignore(u) \/ ForeignNumber(u)
      PROVE  UNCHANGED <<consent, accepted>>
  BY <1>4 DEF Send, Record, Ignore, ForeignNumber
<1>5. CASE StagedExpires \/ Crash \/ UNCHANGED vars
  BY <1>5 DEF StagedExpires, Crash, vars
<1> QED BY <1>2, <1>3, <1>4, <1>5 DEF Next, Handle

\* A job under way keeps its update's message, and only its own handler
\* takes it anywhere.
LEMMA JobStep ==
    ASSUME JobsOK, DataOK, [Next]_vars, NEW u \in Updates, job'[u].at # "idle"
    PROVE  /\ From(u)' = From(u) /\ From(u) \in Clients
           /\ job'[u] = job[u] \/ Record(u) \/ Handle(u)
<1> USE DEF outside, tables, history
<1>1. CASE job'[u] = job[u]
  <2>1. delivery[u] # "unsent" /\ msg[u] \in Messages
    BY <1>1, JobKinds DEF JobsOK
  <2>2. msg'[u] = msg[u]
    <3>1. \A v \in Updates, m \in Messages : Send(v, m) => v # u
      BY <2>1 DEF Send
    <3>2. \A v \in Updates : Handle(v) => msg' = msg
      BY HandleShape DEF Acknowledge, Moves
    <3> QED BY <3>1, <3>2
            DEF Next, Send, Record, Ignore, ForeignNumber, StagedExpires, Crash, vars, JobsOK
  <2> QED BY <1>1, <2>1, <2>2 DEF From, Messages
<1>2. CASE job'[u] # job[u]
  <2>1. PICK v \in Updates : Record(v) \/ Handle(v)
    BY <1>2, JobKinds DEF Next, Send, Ignore, ForeignNumber, StagedExpires, Crash, vars
  <2>2. v = u /\ msg' = msg /\ delivery[u] # "unsent"
    <3>1. CASE Record(v)
      BY <1>2, <3>1 DEF Record, Goto, JobsOK
    <3>2. CASE Handle(v)
      BY <1>2, <3>2, HandleShape, JobKinds DEF Acknowledge, Moves, JobsOK
    <3> QED BY <2>1, <3>1, <3>2
  <2>3. From(u) \in Clients
    BY <2>2 DEF From, JobsOK, Messages
  <2> QED BY <2>1, <2>2, <2>3 DEF From
<1> QED BY <1>1, <1>2

\* A job begins a turn only when its client's consent is in the table.
LEMMA TurnStep ==
    ASSUME IInv, [Next]_vars, NEW u \in Updates, job'[u].at = "turn"
    PROVE  /\ From(u)' = From(u) /\ From(u) \in Clients
           /\ job[u].at = "turn" \/ consent'[From(u)] = "yes"
<1>1. JobsOK /\ DataOK
  BY DEF IInv
<1>2. ~Record(u)
  BY <1>1 DEF Record, Goto, JobsOK
<1>3. ASSUME Handle(u) PROVE consent'[From(u)] = "yes"
  <2>1. Gate(u)
    BY <1>1, <1>3, JobKinds
       DEF Handle, SaveTurn, Refresh, ConsentYes, ClientTap, StageReply, OwnerText, Relay,
           OwnerMedia, OwnerMenu, Decide, CommitDecision, Erase, RollBack, Mark, Acknowledge,
           Ending, Goto, JobsOK
  <2> QED BY <1>1, <2>1 DEF Gate, Goto, JobsOK
<1> QED BY <1>1, <1>2, <1>3, JobStep

LEMMA InitAgreed == Init => Agreed
BY JobKinds DEF Init, Agreed, StoredWithConsent

LEMMA NextAgreed == IInv /\ Agreed /\ [Next]_vars => Agreed'
<1> SUFFICES ASSUME IInv, Agreed, [Next]_vars PROVE Agreed'
  OBVIOUS
<1>1. \A c \in Clients : consent'[c] = "yes" => c \in accepted'
  BY ConsentStep DEF Agreed
<1>2. ASSUME NEW u \in Updates, job'[u].at = "turn" PROVE (From(u) \in accepted)'
  <2>1. From(u)' = From(u) /\ From(u) \in Clients
           /\ (job[u].at = "turn" \/ consent'[From(u)] = "yes")
    BY <1>2, TurnStep
  <2>2. From(u) \in accepted'
    BY <1>1, <2>1, ConsentStep DEF Agreed
  <2> QED BY <2>1, <2>2
<1>3. turns' \subseteq accepted'
  <2> USE DEF outside, tables, history
  <2>1. accepted \subseteq accepted'
    BY ConsentStep
  <2>2. ASSUME NEW u \in Updates, SaveTurn(u)
        PROVE  turns' \subseteq accepted \cup {}
    BY <2>2 DEF SaveTurn, At, Agreed, StoredWithConsent
  <2>3. (\A u \in Updates : ~SaveTurn(u)) => turns' \subseteq turns
    BY DEF Next, Handle, Send, Record, Ignore, ForeignNumber, StagedExpires, Crash, vars,
           Gate, Refresh, ConsentYes, ClientTap, StageReply, OwnerText, Relay, OwnerMedia,
           OwnerMenu, Decide, CommitDecision, Erase, RollBack, Mark, Acknowledge
  <2> QED BY <2>1, <2>2, <2>3 DEF Agreed, StoredWithConsent
<1> QED BY <1>1, <1>2, <1>3 DEF Agreed, StoredWithConsent

\* No conversation of a client is stored who never said yes, however first
\* contacts, consent taps, the trailing upserts and erasures overlap.
THEOREM ConsentHolds == Spec => []StoredWithConsent
<1>1. Agreed => StoredWithConsent
  BY DEF Agreed
<1> QED BY <1>1, InitAgreed, NextAgreed, AlwaysIInv, PTL DEF Spec

\* The upsert that trails every message never takes a consent back.
THEOREM ConsentStays == Spec => ConsentSticks
<1>1. IInv /\ [Next]_vars
         => [\A c \in Clients : consent[c] = "yes" => consent'[c] \in {"yes", "none"}]_vars
  BY ConsentStep
<1> QED BY <1>1, AlwaysIInv, PTL DEF Spec, ConsentSticks

-----------------------------------------------------------------------------
(* The owner's answers *)

\* A job that has decided holds the only lock on a booking still pending.
OneAnswer ==
    \A u \in Updates :
       job[u].at = "decided" =>
          /\ booking[From(u)] = "pending"
          /\ \A v \in Updates : job[v].at = "decided" /\ From(v) = From(u) => v = u

\* Bookings change when a decision commits, which takes its job on, and when
\* a client is erased on whom no decision is open.
LEMMA BookingStep ==
    ASSUME JobsOK, DataOK, [Next]_vars
    PROVE  \/ UNCHANGED booking
           \/ \E u \in Updates : /\ job[u].at = "decided" /\ job'[u].at # "decided"
                                 /\ \E d \in Decisions : booking' = [booking EXCEPT ![From(u)] = d]
           \/ \E c \in Clients : ~Locked(c) /\ booking' = [booking EXCEPT ![c] = "erased"]
<1> USE DEF outside, tables, history
<1>1. ASSUME NEW u \in Updates, CommitDecision(u)
      PROVE  /\ job[u].at = "decided" /\ job'[u].at # "decided"
             /\ \E d \in Decisions : booking' = [booking EXCEPT ![From(u)] = d]
  <2>1. Kind(u) \in DOMAIN Answers /\ Answers[Kind(u)] \in Decisions
    BY <1>1 DEF CommitDecision, JobsOK, Kind, Answers, Decisions
  <2>2. job'[u].at = "done"
    BY <1>1 DEF CommitDecision, Goto, JobsOK
  <2> QED BY <1>1, <2>1, <2>2 DEF CommitDecision
<1>2. ASSUME NEW u \in Updates, Erase(u)
      PROVE  \/ UNCHANGED booking
             \/ \E c \in Clients : ~Locked(c) /\ booking' = [booking EXCEPT ![c] = "erased"]
  <2>1. From(u) \in Clients
    BY <1>2, JobKinds DEF Erase, At, From, JobsOK, Messages
  <2> QED BY <1>2, <2>1 DEF Erase
<1>3. (\A u \in Updates : ~CommitDecision(u) /\ ~Erase(u)) => UNCHANGED booking
  BY DEF Next, Handle, Send, Record, Ignore, ForeignNumber, StagedExpires, Crash, vars,
         Gate, SaveTurn, Refresh, ConsentYes, ClientTap, StageReply, OwnerText, Relay,
         OwnerMedia, OwnerMenu, Decide, RollBack, Mark, Acknowledge
<1> QED BY <1>1, <1>2, <1>3

\* A job comes to decide by Decide alone, which no other such job allows.
LEMMA DecideStep ==
    ASSUME JobsOK, DataOK, [Next]_vars, NEW u \in Updates, job'[u].at = "decided"
    PROVE  /\ From(u)' = From(u) /\ From(u) \in Clients
           /\ \/ job[u].at = "decided"
              \/ /\ ~Locked(From(u)) /\ booking[From(u)] = "pending"
                 /\ booking' = booking /\ \A v \in Updates \ {u} : job'[v] = job[v]
<1>1. ~Record(u)
  BY DEF Record, Goto, JobsOK
<1>2. ASSUME Handle(u) PROVE Decide(u)
  BY <1>2, JobKinds
     DEF Handle, SaveTurn, Refresh, ConsentYes, ClientTap, StageReply, OwnerText, Relay,
         OwnerMedia, OwnerMenu, Gate, CommitDecision, Erase, RollBack, Mark, Acknowledge,
         Ending, Goto, JobsOK
<1>3. ASSUME Decide(u)
      PROVE  /\ ~Locked(From(u)) /\ booking[From(u)] = "pending" /\ booking' = booking
             /\ \A v \in Updates \ {u} : job'[v] = job[v]
  <2>1. ~Locked(From(u)) /\ booking[From(u)] = "pending" /\ booking' = booking
    BY <1>3 DEF Decide, Goto, Awaits, JobsOK, tables
  <2>2. \A w \in Updates \ {u} : job'[w] = job[w]
    BY <1>3 DEF Decide, Goto, JobsOK
  <2> QED BY <2>1, <2>2
<1> QED BY <1>1, <1>2, <1>3, JobStep

LEMMA NextOneAnswer == IInv /\ OneAnswer /\ [Next]_vars => OneAnswer'
<1> SUFFICES ASSUME JobsOK, DataOK, OneAnswer, [Next]_vars,
                    NEW u \in Updates, job'[u].at = "decided"
             PROVE  /\ (booking[From(u)] = "pending")'
                    /\ \A v \in Updates : job'[v].at = "decided" /\ From(v)' = From(u)' => v = u
  BY DEF IInv, OneAnswer
<1>1. /\ From(u)' = From(u) /\ From(u) \in Clients
      /\ \/ job[u].at = "decided"
         \/ /\ ~Locked(From(u)) /\ booking[From(u)] = "pending"
            /\ booking' = booking /\ \A v \in Updates \ {u} : job'[v] = job[v]
  BY DecideStep
<1>2. ASSUME NEW v \in Updates, job'[v].at = "decided", From(v)' = From(u)'
      PROVE  v = u
  <2>1. /\ From(v)' = From(v)
        /\ \/ job[v].at = "decided"
           \/ /\ ~Locked(From(v)) /\ \A w \in Updates \ {v} : job'[w] = job[w]
    BY <1>2, DecideStep
  <2> QED BY <1>1, <1>2, <2>1 DEF OneAnswer, Locked
<1>3. booking'[From(u)] = "pending"
  <2>1. CASE job[u].at # "decided"
    BY <1>1, <2>1
  <2>2. CASE job[u].at = "decided"
    <3>1. booking[From(u)] = "pending"
      BY <2>2 DEF OneAnswer
    <3>2. ASSUME NEW v \in Updates, job[v].at = "decided", job'[v].at # "decided"
          PROVE  From(v) # From(u)
      BY <2>2, <3>2 DEF OneAnswer
    <3>3. Locked(From(u))
      BY <2>2 DEF Locked
    <3> QED BY <1>1, <3>1, <3>2, <3>3, BookingStep DEF DataOK
  <2> QED BY <2>1, <2>2
<1> QED BY <1>1, <1>2, <1>3

\* Of two answers to one booking only one is ever in force, whichever
\* transaction gets to the row first (updateBookingStatusIfPending).
THEOREM DecisionHolds == Spec => DecidedOnce
<1>1. Init => OneAnswer
  BY JobKinds DEF Init, OneAnswer
<1>2. IInv /\ OneAnswer /\ [Next]_vars
         => [\A c \in Clients : booking[c] \in Decisions => booking'[c] \in {booking[c], "erased"}]_vars
  <2> SUFFICES ASSUME JobsOK, DataOK, OneAnswer, [Next]_vars,
                      NEW c \in Clients, booking[c] \in Decisions
               PROVE  booking'[c] \in {booking[c], "erased"}
    BY DEF IInv
  <2>1. ASSUME NEW u \in Updates, job[u].at = "decided" PROVE From(u) # c
    BY <2>1 DEF OneAnswer, Decisions
  <2> QED BY <2>1, BookingStep DEF DataOK
<1> QED BY <1>1, <1>2, NextOneAnswer, AlwaysIInv, PTL DEF Spec, DecidedOnce

-----------------------------------------------------------------------------
(* The staged reply *)

\* The texts that used a tap on c: sent, or on their way.
Used(c)  == {u \in Updates : <<u, c>> \in relayed \/ job[u] = [at |-> "relay", to |-> c]}
Ready(c) == IF staged = c THEN 1 ELSE 0

\* Each tap is used at most once, and the tap that stages is not used yet.
TapsCover == \A c \in Clients : Cardinality(Used(c)) + Ready(c) <= taps[c]

\* Sets of updates are finite.
LEMMA UsedSize ==
    ASSUME NEW S, NEW T, S \subseteq Updates, T \subseteq Updates
    PROVE  /\ Cardinality(S) \in Nat /\ Cardinality(T) \in Nat
           /\ S \subseteq T => Cardinality(S) <= Cardinality(T)
           /\ \A u \in Updates : S \subseteq T \cup {u} => Cardinality(S) <= Cardinality(T) + 1
<1>1. IsFiniteSet(S) /\ IsFiniteSet(T)
  BY UpdatesAssumption, FS_Subset
<1>2. Cardinality(S) \in Nat /\ Cardinality(T) \in Nat
  BY <1>1, FS_CardinalityType
<1>3. S \subseteq T => Cardinality(S) <= Cardinality(T)
  BY <1>1, FS_Subset
<1>4. ASSUME NEW u \in Updates, S \subseteq T \cup {u}
      PROVE  Cardinality(S) <= Cardinality(T) + 1
  <2>1. IsFiniteSet(T \cup {u})
           /\ (Cardinality(T \cup {u}) = Cardinality(T) \/ Cardinality(T \cup {u}) = Cardinality(T) + 1)
    BY <1>1, FS_AddElement
  <2>2. Cardinality(S) <= Cardinality(T \cup {u})
    BY <1>4, <2>1, FS_Subset
  <2>3. Cardinality(T \cup {u}) \in Nat
    BY <2>1, FS_CardinalityType
  <2> QED BY <1>2, <2>1, <2>2, <2>3
<1> QED BY <1>2, <1>3, <1>4

\* What a step does to the taps of a client: it uses the tap that stages, or
\* adds one, or uses none.
LEMMA TapStep ==
    ASSUME IInv, [Next]_vars, NEW c \in Clients
    PROVE  \/ Used(c)' \subseteq Used(c) /\ Ready(c)' <= Ready(c) /\ taps'[c] = taps[c]
           \/ Used(c)' \subseteq Used(c) /\ taps'[c] = taps[c] + 1
           \/ /\ \E u \in Updates : Used(c)' \subseteq Used(c) \cup {u}
              /\ Ready(c) = 1 /\ Ready(c)' = 0 /\ taps'[c] = taps[c]
<1> USE DEF outside, tables, history
<1>0. JobsOK /\ DataOK
  BY DEF IInv
<1> DEFINE Keeps == Used(c)' \subseteq Used(c) /\ Ready(c)' <= Ready(c) /\ taps'[c] = taps[c]
<1>1. ASSUME NEW u \in Updates, NEW s, s # "relay", job' = [job EXCEPT ![u] = [at |-> s]],
             relayed' = relayed
      PROVE  Used(c)' \subseteq Used(c)
  BY <1>0, <1>1 DEF Used, JobsOK
<1>2. ASSUME staged' \in {staged, None}
      PROVE  Ready(c)' <= Ready(c)
  BY <1>2, ClientsAssumption DEF Ready
<1>3. ASSUME NEW u \in Updates,
             \/ Record(u) \/ Mark(u) \/ RollBack(u) \/ Gate(u) \/ SaveTurn(u) \/ Refresh(u)
             \/ ConsentYes(u) \/ ClientTap(u) \/ OwnerMedia(u) \/ OwnerMenu(u) \/ Decide(u)
             \/ CommitDecision(u) \/ Erase(u)
      PROVE  Keeps
  <2>1. \E s : s # "relay" /\ Goto(u, s)
    BY <1>3 DEF Record, Mark, RollBack, Ending, Gate, SaveTurn, Refresh, ConsentYes, ClientTap,
                OwnerMedia, OwnerMenu, Decide, CommitDecision, Erase
  <2>2. relayed' = relayed /\ staged' \in {staged, None} /\ taps' = taps
    BY <1>3 DEF Record, Mark, RollBack, Gate, SaveTurn, Refresh, ConsentYes, ClientTap,
                OwnerMedia, OwnerMenu, Decide, CommitDecision, Erase
  <2> QED BY <1>1, <1>2, <2>1, <2>2 DEF Goto
<1>4. ASSUME NEW u \in Updates, Acknowledge(u) PROVE Keeps
  <2>1. job' = [job EXCEPT ![u] = Idle] /\ UNCHANGED <<relayed, staged, taps>>
    BY <1>4 DEF Acknowledge
  <2> QED BY <1>1, <1>2, <2>1 DEF Idle
<1>5. ASSUME NEW u \in Updates, StageReply(u)
      PROVE  Keeps \/ (Used(c)' \subseteq Used(c) /\ taps'[c] = taps[c] + 1)
  <2>1. Used(c)' \subseteq Used(c)
    BY <1>1, <1>5 DEF StageReply, Goto
  <2>2. taps' = [taps EXCEPT ![From(u)] = @ + 1] /\ staged' = From(u)
    BY <1>5 DEF StageReply
  <2>3. CASE c = From(u)
    BY <1>0, <2>1, <2>2, <2>3 DEF DataOK
  <2>4. CASE c # From(u)
    <3>1. taps'[c] = taps[c]
      BY <1>0, <2>2, <2>4 DEF DataOK
    <3>2. Ready(c)' <= Ready(c)
      BY <2>2, <2>4 DEF Ready
    <3> QED BY <2>1, <3>1, <3>2
  <2> QED BY <2>3, <2>4
<1>6. ASSUME NEW u \in Updates, OwnerText(u)
      PROVE  \/ Keeps
             \/ /\ Used(c)' \subseteq Used(c) \cup {u}
                /\ Ready(c) = 1 /\ Ready(c)' = 0 /\ taps'[c] = taps[c]
  <2>1. UNCHANGED <<relayed, taps>> /\ staged' = None
    BY <1>6 DEF OwnerText, Consumed
  <2>2. CASE staged = None
    BY <1>1, <1>2, <1>6, <2>1, <2>2 DEF OwnerText, Goto
  <2>3. CASE staged # None
    <3>1. job' = [job EXCEPT ![u] = [at |-> "relay", to |-> staged]]
      BY <1>6, <2>3 DEF OwnerText
    <3>2. CASE staged = c
      <4>1. Used(c)' \subseteq Used(c) \cup {u}
        BY <1>0, <2>1, <3>1 DEF Used, JobsOK
      <4> QED BY <2>1, <3>2, <4>1, ClientsAssumption DEF Ready
    <3>3. CASE staged # c
      <4>1. Used(c)' \subseteq Used(c)
        BY <1>0, <2>1, <3>1, <3>3 DEF Used, JobsOK
      <4> QED BY <1>2, <2>1, <4>1
    <3> QED BY <3>2, <3>3
  <2> QED BY <2>2, <2>3
<1>7. ASSUME NEW u \in Updates, Relay(u) PROVE Keeps
  <2>1. job' = [job EXCEPT ![u] = [at |-> "mark"]] /\ UNCHANGED <<staged, taps>>
    BY <1>7 DEF Relay, Goto
  <2>2. job[u].at = "relay" /\ job[u] \in Jobs
    BY <1>0, <1>7 DEF Relay, At, JobsOK
  <2>3. job[u] = [at |-> "relay", to |-> job[u].to]
    BY <2>2 DEF Jobs
  <2>4. relayed' = relayed \cup {<<u, job[u].to>>} \/ relayed' = relayed
    BY <1>7 DEF Relay
  <2>5. Used(c)' \subseteq Used(c)
    BY <1>0, <2>1, <2>3, <2>4 DEF Used, JobsOK
  <2> QED BY <1>2, <2>1, <2>5
<1>8. ASSUME NEW u \in Updates,
             (\E m \in Messages : Send(u, m)) \/ Ignore(u) \/ ForeignNumber(u)
      PROVE  Keeps
  BY <1>2, <1>8 DEF Send, Ignore, ForeignNumber, Used
<1>9. CASE StagedExpires \/ UNCHANGED vars
  BY <1>2, <1>9 DEF StagedExpires, vars, Used
<1>10. CASE Crash
  <2>1. Used(c)' \subseteq Used(c)
    BY <1>10, JobKinds DEF Crash, Used, Idle
  <2> QED BY <1>2, <1>10, <2>1 DEF Crash
<1> QED BY <1>3, <1>4, <1>5, <1>6, <1>7, <1>8, <1>9, <1>10 DEF Next, Handle

LEMMA InitTapsCover == Init => TapsCover
<1> SUFFICES ASSUME Init, NEW c \in Clients PROVE Cardinality(Used(c)) + Ready(c) <= taps[c]
  BY DEF TapsCover
<1>1. Used(c) = {}
  BY DEF Init, Used, Idle
<1>2. Cardinality(Used(c)) = 0
  BY <1>1, FS_EmptySet
<1> QED BY <1>2 DEF Init, Ready

LEMMA NextTapsCover == IInv /\ TapsCover /\ [Next]_vars => TapsCover'
<1> SUFFICES ASSUME IInv, TapsCover, [Next]_vars, NEW c \in Clients
             PROVE  Cardinality(Used(c)') + Ready(c)' <= taps'[c]
  BY DEF TapsCover
<1>1. /\ Cardinality(Used(c)) + Ready(c) <= taps[c] /\ taps[c] \in Nat
      /\ Ready(c) \in {0, 1} /\ Ready(c)' \in {0, 1}
  BY DEF TapsCover, Ready, IInv, DataOK
<1>2. Used(c) \subseteq Updates /\ Used(c)' \subseteq Updates
  BY DEF Used
<1>3. /\ Cardinality(Used(c)) \in Nat /\ Cardinality(Used(c)') \in Nat
      /\ Used(c)' \subseteq Used(c) => Cardinality(Used(c)') <= Cardinality(Used(c))
      /\ \A u \in Updates : Used(c)' \subseteq Used(c) \cup {u}
                               => Cardinality(Used(c)') <= Cardinality(Used(c)) + 1
  BY <1>2, UsedSize
<1> QED BY <1>1, <1>3, TapStep

\* Every tap of the reply button lets at most one text through, whatever is
\* staged, replaced, expired, relayed or lost in a crash meanwhile.
THEOREM RelayHolds == Spec => []RelayedOncePerTap
<1>1. IInv /\ TapsCover => RelayedOncePerTap
  <2> SUFFICES ASSUME IInv, TapsCover, NEW c \in Clients
               PROVE  Cardinality({u \in Updates : <<u, c>> \in relayed}) <= taps[c]
    BY DEF RelayedOncePerTap
  <2> DEFINE S == {u \in Updates : <<u, c>> \in relayed}
  <2>1. S \subseteq Used(c) /\ Used(c) \subseteq Updates
    BY DEF Used
  <2>2. Cardinality(S) \in Nat /\ Cardinality(Used(c)) \in Nat /\ Cardinality(S) <= Cardinality(Used(c))
    BY <2>1, UsedSize
  <2>3. Cardinality(Used(c)) + Ready(c) <= taps[c] /\ taps[c] \in Nat /\ Ready(c) \in {0, 1}
    BY DEF TapsCover, Ready, IInv, DataOK
  <2> HIDE DEF S
  <2>4. Cardinality(S) <= taps[c]
    BY <2>2, <2>3
  <2> QED BY <2>4 DEF S
<1> QED BY <1>1, InitTapsCover, NextTapsCover, AlwaysIInv, PTL DEF Spec
=============================================================================
