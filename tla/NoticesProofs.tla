---------------------------- MODULE NoticesProofs ----------------------------
(***************************************************************************)
(* The safety of Notices for any number of items, sweeps, failures and     *)
(* restarts, of each poller.                                               *)
(*                                                                         *)
(* A notice that is claimed is in one place at most: with one sweep, or on *)
(* one list in memory (Tokens).  It arrives only from there, and leaves    *)
(* the place when it does, but for a hint whose send failed nevertheless:  *)
(* it has arrived no more often than sends have failed.                    *)
(***************************************************************************)
EXTENDS Notices, TLAPS

\* What a sweep may be doing.
Jobs == {Idle} \cup [at : {"claim", "send", "release", "mark"}, n : Notice]
               \cup [at : {"collect"}, todo : SUBSET Items, got : SUBSET Items]
               \cup [at : {"prompt"}, got : SUBSET Items]

\* A job of the poller this is.
Fits(j) ==
    /\ j.at \in {"claim", "send", "release", "mark"} =>
          j.n[2] \in Recipients(kind) /\ kind # "renewal"
    /\ j.at = "claim" => kind # "cancellation"
    /\ j.at = "release" => kind = "nudge"
    /\ j.at = "mark" => kind = "cancellation"
    /\ j.at \in {"collect", "prompt"} => kind = "renewal"

\* The parts of TypeOK.
StateOK ==
    /\ kind \in Kinds
    /\ due \in [Items -> {"early", "due", "past"}]
    /\ ownerKnown \in BOOLEAN
    /\ batch \subseteq Items
    /\ nudging \subseteq Items
    /\ withdrawn \subseteq Notice
    /\ attempted \subseteq Notice
    /\ delivered \in [Notice -> Nat]
    /\ failures \in 0..MaxFailures /\ crashes \in 0..MaxCrashes

ClaimsOK == claims \subseteq Notice /\ \A n \in claims : n[2] \in Recipients(kind)

SweepsOK == sweep \in [Sweeps -> Jobs] /\ \A s \in Sweeps : Fits(sweep[s])

ListsOK == batch \cup nudging # {} => kind = "renewal"

Types == StateOK /\ ClaimsOK /\ SweepsOK /\ ListsOK

LEMMA TypeParts == Types => TypeOK
BY DEF Types, StateOK, ClaimsOK, SweepsOK, Jobs, TypeOK

-----------------------------------------------------------------------------
(* Type correctness *)

LEMMA RecipientsOf ==
    ASSUME NEW k \in Kinds
    PROVE  /\ First(k) \in Recipients(k)
           /\ Recipients(k) \subseteq {"client", "owner"}
           /\ k = "expiry" => "owner" \in Recipients(k)
           /\ k = "renewal" => Recipients(k) = {"client"}
BY DEF Kinds, Recipients, First

\* Jobs by what they are at.
LEMMA JobKinds ==
    ASSUME NEW j \in Jobs
    PROVE  /\ j.at \in {"idle", "claim", "send", "release", "mark", "collect", "prompt"}
           /\ j.at = "idle" => j = Idle
           /\ j.at \in {"claim", "send", "release", "mark"} =>
                 j.n \in Notice /\ j.n[1] \in Items /\ j.n[2] \in {"client", "owner"}
           /\ j.at = "collect" => /\ j.todo \subseteq Items /\ j.got \subseteq Items
                                  /\ j = [at |-> "collect", todo |-> j.todo, got |-> j.got]
           /\ j.at = "prompt" => j.got \subseteq Items
BY DEF Jobs, Idle, Notice

\* A sweep goes on to a job of the poller.
Moves(s, j) ==
    /\ j \in Jobs /\ Fits(j)
    /\ sweep' = [sweep EXCEPT ![s] = j]
    /\ UNCHANGED kind

LEMMA MovesType ==
    ASSUME SweepsOK, NEW s \in Sweeps, NEW j, Moves(s, j)
    PROVE  /\ SweepsOK' /\ sweep'[s] = j
           /\ \A t \in Sweeps \ {s} : sweep'[t] = sweep[t]
BY DEF SweepsOK, Moves, Fits

\* The next notice of an expiring pack, or none.
LEMMA OnwardJob ==
    ASSUME StateOK, NEW s \in Sweeps, NEW n \in Notice, Onward(s, n), UNCHANGED kind
    PROVE  \E j : Moves(s, j) /\ (j = Idle \/ j = [at |-> "claim", n |-> <<n[1], "owner">>])
<1>1. CASE kind = "expiry" /\ n[2] = "client" /\ ownerKnown
  <2>1. <<n[1], "owner">> \in Notice /\ "owner" \in Recipients(kind)
    BY <1>1, RecipientsOf DEF Notice, StateOK
  <2>2. Moves(s, [at |-> "claim", n |-> <<n[1], "owner">>])
    BY <1>1, <2>1 DEF Onward, Goto, Moves, Fits, Jobs
  <2> QED BY <2>2
<1>2. CASE ~(kind = "expiry" /\ n[2] = "client" /\ ownerKnown)
  <2>1. Moves(s, Idle)
    BY <1>2 DEF Onward, Done, Moves, Fits, Jobs, Idle
  <2> QED BY <2>1
<1> QED BY <1>1, <1>2

\* What the actions of a sweep go on to.
LEMMA BeginJob ==
    ASSUME Types, NEW s \in Sweeps, NEW i \in Items, Begin(s, i)
    PROVE  \E j : Moves(s, j) /\ (kind # "cancellation" => j.at = "claim")
<1>1. <<i, First(kind)>> \in Notice
  BY RecipientsOf DEF Notice, Types, StateOK
<1>2. Moves(s, [at |-> Opening(kind), n |-> <<i, First(kind)>>])
  BY <1>1, RecipientsOf DEF Begin, Goto, Moves, Fits, Jobs, Opening, Types, StateOK
<1> QED BY <1>2 DEF Opening

LEMMA BeginRenewalJob ==
    ASSUME Types, NEW s \in Sweeps, BeginRenewal(s)
    PROVE  Moves(s, [at |-> "collect", todo |-> Renewals, got |-> {}])
BY DEF BeginRenewal, Renewals, Moves, Fits, Jobs

LEMMA ClaimJob ==
    ASSUME Types, NEW s \in Sweeps, Claim(s)
    PROVE  /\ sweep[s].n \in Notice
           /\ Wins(sweep[s].n) => Moves(s, [at |-> "send", n |-> sweep[s].n])
           /\ ~Wins(sweep[s].n) => \E j : Moves(s, j) /\ (j = Idle \/ j.at = "claim")
<1>1. sweep[s] \in Jobs /\ Fits(sweep[s]) /\ sweep[s].n \in Notice
  BY JobKinds DEF Claim, Types, SweepsOK
<1>2. ASSUME Wins(sweep[s].n)
      PROVE  Moves(s, [at |-> "send", n |-> sweep[s].n])
  BY <1>1, <1>2 DEF Claim, Goto, Moves, Fits, Jobs
<1>3. ASSUME ~Wins(sweep[s].n)
      PROVE  \E j : Moves(s, j) /\ (j = Idle \/ j.at = "claim")
  BY <1>1, <1>3, OnwardJob DEF Claim, Beaten, Types
<1> QED BY <1>1, <1>2, <1>3

LEMMA SendJob ==
    ASSUME Types, NEW s \in Sweeps, SendSucceeds(s) \/ SendFails(s)
    PROVE  /\ sweep[s].n \in Notice
           /\ kind = "cancellation" => Moves(s, [at |-> "mark", n |-> sweep[s].n])
           /\ SendSucceeds(s) /\ kind # "cancellation" =>
                 \E j : Moves(s, j) /\ (j = Idle \/ j.at = "claim")
           /\ SendFails(s) /\ kind = "nudge" => Moves(s, [at |-> "release", n |-> sweep[s].n])
           /\ SendFails(s) /\ kind \notin {"cancellation", "nudge"} => Moves(s, Idle)
<1>1. sweep[s] \in Jobs /\ Fits(sweep[s]) /\ sweep[s].n \in Notice /\ sweep[s].at = "send"
  BY JobKinds DEF SendSucceeds, SendFails, Types, SweepsOK
<1>2. ASSUME kind = "cancellation" PROVE Moves(s, [at |-> "mark", n |-> sweep[s].n])
  BY <1>1, <1>2 DEF SendSucceeds, SendFails, OnFailure, Goto, Moves, Fits, Jobs
<1>3. ASSUME SendSucceeds(s), kind # "cancellation"
      PROVE  \E j : Moves(s, j) /\ (j = Idle \/ j.at = "claim")
  BY <1>1, <1>3, OnwardJob DEF SendSucceeds, Types
<1>4. ASSUME SendFails(s), kind = "nudge"
      PROVE  Moves(s, [at |-> "release", n |-> sweep[s].n])
  BY <1>1, <1>4 DEF SendFails, OnFailure, Goto, Moves, Fits, Jobs
<1>5. ASSUME SendFails(s), kind \notin {"cancellation", "nudge"}
      PROVE  Moves(s, Idle)
  BY <1>5 DEF SendFails, OnFailure, Done, Moves, Fits, Jobs, Idle
<1> QED BY <1>1, <1>2, <1>3, <1>4, <1>5

LEMMA CollectJob ==
    ASSUME Types, NEW s \in Sweeps, Collect(s)
    PROVE  \E i \in Items :
              /\ kind = "renewal" /\ sweep[s].at = "collect"
              /\ claims' = claims \cup {<<i, "client">>}
              /\ Moves(s, [at |-> "collect", todo |-> sweep[s].todo \ {i},
                           got |-> IF Wins(<<i, "client">>) THEN sweep[s].got \cup {i}
                                                            ELSE sweep[s].got])
<1>1. PICK i \in sweep[s].todo :
         /\ claims' = claims \cup {<<i, "client">>}
         /\ sweep' = [sweep EXCEPT ![s] =
                         [at |-> "collect", todo |-> @.todo \ {i},
                          got |-> IF Wins(<<i, "client">>) THEN @.got \cup {i} ELSE @.got]]
  BY DEF Collect
<1>2. sweep[s] \in Jobs /\ Fits(sweep[s]) /\ sweep[s].at = "collect" /\ kind' = kind
  BY DEF Collect, Types, SweepsOK
<1>3. sweep[s].todo \subseteq Items /\ sweep[s].got \subseteq Items /\ kind = "renewal"
  BY <1>2, JobKinds DEF Fits
<1> DEFINE todo == sweep[s].todo \ {i}
           got  == IF Wins(<<i, "client">>) THEN sweep[s].got \cup {i} ELSE sweep[s].got
<1>4. sweep' = [sweep EXCEPT ![s] = [at |-> "collect", todo |-> todo, got |-> got]]
  BY <1>1
<1>5. todo \subseteq Items /\ got \subseteq Items /\ i \in Items
  BY <1>1, <1>3
<1> HIDE DEF todo, got
<1>6. Moves(s, [at |-> "collect", todo |-> todo, got |-> got])
  BY <1>2, <1>3, <1>4, <1>5 DEF Moves, Jobs, Fits
<1> QED BY <1>1, <1>2, <1>3, <1>5, <1>6 DEF todo, got

LEMMA AskJob ==
    ASSUME Types, NEW s \in Sweeps, Ask(s)
    PROVE  /\ sweep[s].got \subseteq Items /\ kind = "renewal" /\ sweep[s].at = "collect"
           /\ sweep[s].got = {} => Moves(s, Idle)
           /\ sweep[s].got # {} => Moves(s, [at |-> "prompt", got |-> sweep[s].got])
<1>1. sweep[s] \in Jobs /\ Fits(sweep[s]) /\ sweep[s].at = "collect"
  BY DEF Ask, Types, SweepsOK
<1>2. sweep[s].got \subseteq Items /\ kind = "renewal"
  BY <1>1, JobKinds DEF Fits
<1> QED BY <1>1, <1>2 DEF Ask, Done, Moves, Fits, Jobs, Idle

LEMMA LastJob ==
    ASSUME Types, NEW s \in Sweeps, Release(s) \/ Mark(s) \/ Prompt(s)
    PROVE  /\ Moves(s, Idle)
           /\ ~Prompt(s) => sweep[s].n \in Notice /\ sweep[s].n[2] \in Recipients(kind)
           /\ Release(s) => sweep[s].at = "release" /\ kind = "nudge"
           /\ Mark(s) => sweep[s].at = "mark" /\ kind = "cancellation"
BY JobKinds DEF Release, Mark, Prompt, Done, Moves, Fits, Jobs, Idle, Types, SweepsOK

\* Whatever it is, it is a job of the poller.
LEMMA SweepJob ==
    ASSUME Types, NEW s \in Sweeps,
           Step(s) \/ BeginRenewal(s) \/ \E i \in Items : Begin(s, i)
    PROVE  \E j : Moves(s, j)
BY BeginJob, BeginRenewalJob, ClaimJob, SendJob, CollectJob, AskJob, LastJob DEF Step

-----------------------------------------------------------------------------
LEMMA InitTypes == Init => Types
BY BoundsAssumption
   DEF Init, Types, StateOK, ClaimsOK, SweepsOK, ListsOK, Jobs, Fits, Idle, Kinds

\* A sweep's step keeps the type of what it changes.
LEMMA SweepType ==
    ASSUME Types, NEW s \in Sweeps,
           Step(s) \/ BeginRenewal(s) \/ \E i \in Items : Begin(s, i)
    PROVE  Types'
<1> USE DEF memory, history
<1>1. \E j : Moves(s, j)
  BY SweepJob
<1>2. SweepsOK' /\ kind' = kind
  BY <1>1, MovesType DEF Types, Moves
<1>3. CASE BeginRenewal(s) \/ \E i \in Items : Begin(s, i)
  BY <1>2, <1>3 DEF BeginRenewal, Begin, Types, StateOK, ClaimsOK, ListsOK
<1>4. CASE Claim(s)
  <2>1. sweep[s].n \in Notice /\ sweep[s].n[2] \in Recipients(kind)
    BY <1>4, ClaimJob DEF Claim, Types, SweepsOK, Fits
  <2> QED BY <1>2, <1>4, <2>1 DEF Claim, Types, StateOK, ClaimsOK, ListsOK
<1>5. CASE SendSucceeds(s) \/ SendFails(s)
  <2>1. sweep[s].n \in Notice
    BY <1>5, SendJob
  <2>2. UNCHANGED <<due, ownerKnown, claims, batch, nudging, withdrawn, crashes>>
           /\ attempted' = attempted \cup {sweep[s].n}
    BY <1>5 DEF SendSucceeds, SendFails
  <2>3. delivered' \in [Notice -> Nat] /\ failures' \in 0..MaxFailures
    BY <1>5, <2>1, BoundsAssumption
       DEF SendSucceeds, SendFails, Deliver, Lose, Arrives, Types, StateOK
  <2> QED BY <1>2, <2>1, <2>2, <2>3 DEF Types, StateOK, ClaimsOK, ListsOK
<1>6. CASE Collect(s)
  <2>1. PICK i \in Items : kind = "renewal" /\ claims' = claims \cup {<<i, "client">>}
    BY <1>6, CollectJob
  <2>2. <<i, "client">> \in Notice /\ "client" \in Recipients(kind)
    BY <2>1, RecipientsOf DEF Notice, Types, StateOK
  <2>3. ClaimsOK'
    BY <1>2, <2>1, <2>2 DEF Types, ClaimsOK
  <2> QED BY <1>2, <1>6, <2>3 DEF Collect, Types, StateOK, ListsOK
<1>7. CASE Ask(s)
  <2>1. sweep[s].got \subseteq Items /\ kind = "renewal"
    BY <1>7, AskJob
  <2>2. batch' \subseteq Items
    BY <1>7, <2>1 DEF Ask, Types, StateOK
  <2> QED BY <1>2, <1>7, <2>1, <2>2 DEF Ask, Types, StateOK, ClaimsOK, ListsOK
<1>8. CASE Release(s) \/ Mark(s)
  <2>1. sweep[s].n \in Notice /\ sweep[s].n[2] \in Recipients(kind)
    BY <1>8, LastJob DEF Release, Mark, Prompt
  <2> QED BY <1>2, <1>8, <2>1 DEF Release, Mark, Types, StateOK, ClaimsOK, ListsOK
<1>9. CASE Prompt(s)
  <2>1. sweep[s].got \X {"client"} \subseteq Notice
    BY <1>9, JobKinds DEF Prompt, Types, SweepsOK, Notice
  <2> QED BY <1>2, <1>9, <2>1, BoundsAssumption DEF Prompt, Types, StateOK, ClaimsOK, ListsOK
<1> QED BY <1>3, <1>4, <1>5, <1>6, <1>7, <1>8, <1>9 DEF Step

LEMMA NextTypes == Types /\ [Next]_vars => Types'
<1> SUFFICES ASSUME Types, [Next]_vars PROVE Types'
  OBVIOUS
<1> USE DEF memory, history
<1>1. ASSUME NEW i \in Items, Advance(i) PROVE Types'
  BY <1>1 DEF Advance, Types, StateOK, ClaimsOK, SweepsOK, ListsOK, Fits
<1>2. ASSUME LearnOwner \/ TapYes \/ BatchDropped PROVE Types'
  BY <1>2 DEF LearnOwner, TapYes, BatchDropped, Types, StateOK, ClaimsOK, SweepsOK, ListsOK, Fits
<1>3. ASSUME NEW i \in Items, NudgeClient(i) PROVE Types'
  <2>1. <<i, "client">> \in Notice
    BY DEF Notice
  <2>2. delivered' \in [Notice -> Nat] /\ failures' \in 0..MaxFailures
    BY <1>3, <2>1, BoundsAssumption DEF NudgeClient, Deliver, Lose, Arrives, Types, StateOK
  <2> QED BY <1>3, <2>2 DEF NudgeClient, Types, StateOK, ClaimsOK, SweepsOK, ListsOK, Fits
<1>6. ASSUME NEW i \in Items, Withdraw(i) PROVE Types'
  <2>1. <<i, "owner">> \in Notice /\ "owner" \in Recipients(kind)
    BY <1>6 DEF Withdraw, Notice, Recipients
  <2> QED BY <1>6, <2>1 DEF Withdraw, Types, StateOK, ClaimsOK, SweepsOK, ListsOK, Fits
<1>4. ASSUME Crash PROVE Types'
  BY <1>4, BoundsAssumption
     DEF Crash, Types, StateOK, ClaimsOK, SweepsOK, ListsOK, Fits, Jobs, Idle
<1>5. CASE UNCHANGED vars
  BY <1>5 DEF vars, Types, StateOK, ClaimsOK, SweepsOK, ListsOK, Fits
<1> QED BY <1>1, <1>2, <1>3, <1>4, <1>5, <1>6, SweepType DEF Next

LEMMA AlwaysTypes == Spec => []Types
BY InitTypes, NextTypes, PTL DEF Spec

\* Every variable keeps its type, and no notice is ever claimed for somebody
\* its poller does not write to (who an expiry goes on to, Onward).
THEOREM TypeCorrect == Spec => []TypeOK
BY AlwaysTypes, TypeParts, PTL

-----------------------------------------------------------------------------
(* Where a claimed notice is *)

\* How often the hint may have arrived without having gone for good.
Spare == IF kind = "nudge" THEN failures ELSE 0

Has(s, n) == Holds(s, n) \/ Failed(s, n)

\* A notice that is held, given back or kept is claimed, has not arrived but
\* by a send that failed, and is nowhere else.  A cancelled class is sent
\* before it is claimed, and is left out.
Tokens ==
    kind # "cancellation" =>
       /\ \A n \in Notice : /\ delivered[n] <= 1 + Spare
                            /\ n \notin claims => delivered[n] <= Spare
       /\ \A n \in Notice : Kept(n) => n \in claims /\ delivered[n] <= Spare
       /\ \A n \in Notice, s \in Sweeps :
             Has(s, n) => /\ n \in claims /\ delivered[n] <= Spare /\ ~Kept(n)
                          /\ \A t \in Sweeps : Has(t, n) => t = s
       /\ batch \cap nudging = {}

\* A renewal the owner is being asked about.
Asks(s, n) == sweep[s].at = "prompt" /\ n[2] = "client" /\ n[1] \in sweep[s].got

\* What a sweep's step may do with notices, its job going from what Holds
\* says to what Holds' says.
Others(s) == /\ \A t \in Sweeps \ {s} : sweep'[t] = sweep[t]
             /\ \A n \in Notice : Asks(s, n) => n \in attempted'
             /\ attempted \subseteq attempted' /\ failures <= failures'
             /\ UNCHANGED <<kind, nudging, withdrawn, crashes>>

\* No send has failed that is to be given back, before and after.
Sound(s) == \A n \in Notice : ~Failed(s, n) /\ ~Failed(s, n)'

Takes(s, n) ==
    /\ n \notin claims /\ claims' = claims \cup {n}
    /\ \A m \in Notice : Holds(s, m)' <=> Holds(s, m) \/ m = n
    /\ Sound(s)
    /\ UNCHANGED <<batch, delivered>>

Leaves(s) ==
    /\ \A n \in Notice : Holds(s, n)' => Holds(s, n)
    /\ \A m, n \in Notice : Holds(s, m) /\ Holds(s, n) /\ ~Holds(s, n)' => m = n
    /\ \A n \in Notice : Holds(s, n) /\ ~Holds(s, n)' =>
          n \in attempted' /\ (kind = "nudge" => delivered'[n] = delivered[n] + 1)
    /\ \A n \in Notice : \/ delivered'[n] = delivered[n]
                         \/ Holds(s, n) /\ ~Holds(s, n)' /\ delivered'[n] = delivered[n] + 1
    /\ Sound(s)
    /\ UNCHANGED <<claims, batch>>

Fails(s, n) ==
    /\ kind = "nudge" /\ n \in attempted' /\ failures' = failures + 1
    /\ \A m \in Notice : /\ Holds(s, m) <=> m = n
                         /\ Failed(s, m)' <=> m = n
                         /\ ~Holds(s, m)' /\ ~Failed(s, m)
    /\ \A m \in Notice : \/ delivered'[m] = delivered[m]
                         \/ m = n /\ delivered'[m] = delivered[m] + 1
    /\ UNCHANGED <<claims, batch>>

Returns(s, n) ==
    /\ kind = "nudge" /\ claims' = claims \ {n}
    /\ \A m \in Notice : /\ Failed(s, m) <=> m = n
                         /\ ~Failed(s, m)' /\ ~Holds(s, m) /\ ~Holds(s, m)'
    /\ UNCHANGED <<batch, delivered>>

Lists(s) ==
    /\ kind = "renewal"
    /\ \A n \in Notice : /\ Holds(s, n) <=> n[2] = "client" /\ n[1] \in batch'
                         /\ ~Holds(s, n)'
                         /\ Holds(s, n) => Asks(s, n)'
    /\ Sound(s)
    /\ UNCHANGED <<claims, delivered>>

Shaped(s) == \/ Leaves(s) \/ Lists(s)
             \/ \E n \in Notice : Takes(s, n) \/ Fails(s, n) \/ Returns(s, n)

LEMMA SweepShape ==
    ASSUME Types, kind # "cancellation", NEW s \in Sweeps,
           Step(s) \/ BeginRenewal(s) \/ \E i \in Items : Begin(s, i)
    PROVE  Others(s) /\ Shaped(s)
<1> USE DEF memory, history
<1>0. sweep[s] \in Jobs /\ Fits(sweep[s]) /\ delivered \in [Notice -> Nat]
         /\ failures \in Nat
  BY BoundsAssumption DEF Types, SweepsOK, StateOK
<1>1. Others(s)
  <2>1. \E j : Moves(s, j)
    BY SweepJob
  <2>2. UNCHANGED <<nudging, withdrawn, crashes>> /\ attempted \subseteq attempted'
    BY DEF Step, BeginRenewal, Begin, Claim, SendSucceeds, SendFails, Release, Mark, Collect,
           Ask, Prompt
  <2>3. failures <= failures'
    <3>1. failures' = failures \/ failures' = failures + 1
      BY DEF Step, BeginRenewal, Begin, Claim, SendSucceeds, SendFails, Release, Mark, Collect,
             Ask, Prompt, Deliver, Lose
    <3> QED BY <1>0, <3>1
  <2>4. \A n \in Notice : Asks(s, n) => n \in attempted'
    <3>1. ASSUME NEW n \in Notice, Asks(s, n) PROVE n \in attempted'
      <4>1. sweep[s].at = "prompt" /\ n[1] \in sweep[s].got /\ n = <<n[1], "client">>
        BY <3>1 DEF Asks, Notice
      <4>2. sweep[s] # Idle
        BY <4>1 DEF Idle
      <4>3. Prompt(s)
        BY <4>1, <4>2 DEF Step, BeginRenewal, Begin, Claim, SendSucceeds, SendFails, Release,
                          Mark, Collect, Ask
      <4>4. attempted' = attempted \cup (sweep[s].got \X {"client"})
        BY <4>3 DEF Prompt
      <4> QED BY <4>1, <4>4
    <3> QED BY <3>1
  <2> QED BY <2>1, <2>2, <2>3, <2>4, MovesType DEF Others, Moves, Types
<1>2. ASSUME NEW j, Moves(s, j)
      PROVE  /\ \A n \in Notice : Holds(s, n)' <=> Held(j, n)
             /\ \A n \in Notice : Failed(s, n)' <=> j.at = "release" /\ j.n = n
  <2>1. sweep'[s] = j
    BY <1>2, MovesType DEF Types
  <2>2. \A n \in Notice : Holds(s, n)' <=> Held(j, n)
    BY <2>1 DEF Holds, Held
  <2>3. \A n \in Notice : Failed(s, n)' <=> j.at = "release" /\ j.n = n
    BY <2>1 DEF Failed
  <2> QED BY <2>2, <2>3
<1>11. ASSUME ~Release(s), ~(SendFails(s) /\ kind = "nudge") PROVE Sound(s)
  <2>0. Idle.at = "idle"
    BY DEF Idle
  <2>1. sweep[s].at # "release"
    BY <1>11, <2>0 DEF Step, BeginRenewal, Begin, Claim, SendSucceeds, SendFails, Mark, Collect,
                       Ask, Prompt
  <2>2. \E j : Moves(s, j) /\ j.at # "release"
    <3>1. CASE BeginRenewal(s) \/ \E i \in Items : Begin(s, i)
      BY <3>1, BeginJob, BeginRenewalJob
    <3>2. CASE Claim(s)
      <4>1. [at |-> "send", n |-> sweep[s].n].at = "send"
        OBVIOUS
      <4>2. Wins(sweep[s].n) => Moves(s, [at |-> "send", n |-> sweep[s].n])
        BY <3>2, ClaimJob
      <4>3. ~Wins(sweep[s].n) => \E j : Moves(s, j) /\ (j = Idle \/ j.at = "claim")
        BY <3>2, ClaimJob
      <4> QED BY <2>0, <4>1, <4>2, <4>3
    <3>3. CASE SendSucceeds(s) \/ SendFails(s)
      BY <1>11, <2>0, <3>3, SendJob
    <3>4. CASE Collect(s)
      <4>1. \A todo, got : [at |-> "collect", todo |-> todo, got |-> got].at = "collect"
        OBVIOUS
      <4>2. PICK i \in Items :
               Moves(s, [at |-> "collect", todo |-> sweep[s].todo \ {i},
                         got |-> IF Wins(<<i, "client">>) THEN sweep[s].got \cup {i}
                                                          ELSE sweep[s].got])
        BY <3>4, CollectJob
      <4> QED BY <4>1, <4>2
    <3>6. CASE Ask(s)
      <4>1. [at |-> "prompt", got |-> sweep[s].got].at = "prompt"
        OBVIOUS
      <4>2. Moves(s, Idle) \/ Moves(s, [at |-> "prompt", got |-> sweep[s].got])
        BY <3>6, AskJob
      <4> QED BY <2>0, <4>1, <4>2
    <3>5. CASE Mark(s) \/ Prompt(s)
      BY <2>0, <3>5, LastJob
    <3> QED BY <1>11, <3>1, <3>2, <3>3, <3>4, <3>5, <3>6 DEF Step
  <2>3. \A n \in Notice : ~Failed(s, n)'
    BY <1>2, <2>2
  <2> QED BY <2>1, <2>3 DEF Sound, Failed
<1>3. ASSUME BeginRenewal(s) \/ \E i \in Items : Begin(s, i) PROVE Leaves(s)
  <2>1. \E j : Moves(s, j) /\ \A n \in Notice : ~Held(j, n)
    <3>1. \A n \in Notice : ~Held([at |-> "collect", todo |-> Renewals, got |-> {}], n)
      BY DEF Held
    <3>2. \A j : j.at = "claim" => \A n \in Notice : ~Held(j, n)
      BY DEF Held
    <3> QED BY <1>3, <3>1, <3>2, BeginJob, BeginRenewalJob
  <2>2. \A n \in Notice : ~Holds(s, n)
    <3>1. sweep[s] = Idle
      BY <1>3 DEF BeginRenewal, Begin
    <3>2. \A n \in Notice : ~Held(Idle, n)
      BY DEF Held, Idle
    <3> QED BY <3>1, <3>2 DEF Holds
  <2>3. UNCHANGED <<claims, batch, delivered>>
    BY <1>3 DEF BeginRenewal, Begin
  <2>4. Sound(s)
    <3>1. sweep[s].at = "idle"
      <4>1. sweep[s] = Idle
        BY <1>3 DEF BeginRenewal, Begin
      <4> QED BY <4>1 DEF Idle
    <3> QED BY <1>11, <3>1 DEF Release, SendFails
  <2> QED BY <1>2, <2>1, <2>2, <2>3, <2>4 DEF Leaves
<1>4. ASSUME Claim(s) PROVE Leaves(s) \/ \E n \in Notice : Takes(s, n)
  <2>1. \A n \in Notice : ~Holds(s, n)
    BY <1>4 DEF Claim, Holds, Held
  <2>2. UNCHANGED <<batch, delivered>> /\ claims' = claims \cup {sweep[s].n}
           /\ sweep[s].n \in Notice
    BY <1>4, ClaimJob DEF Claim
  <2>0. Sound(s)
    BY <1>4, <1>11 DEF Claim, Release, SendFails
  <2>3. CASE Wins(sweep[s].n)
    <3>1. \A n \in Notice : Holds(s, n)' <=> n = sweep[s].n
      <4>1. \A n \in Notice : Held([at |-> "send", n |-> sweep[s].n], n) <=> n = sweep[s].n
        BY DEF Held
      <4> QED BY <1>2, <1>4, <2>3, <4>1, ClaimJob
    <3> QED BY <2>0, <2>1, <2>2, <2>3, <3>1 DEF Takes, Wins
  <2>4. CASE ~Wins(sweep[s].n)
    <3>1. \A n \in Notice : ~Holds(s, n)'
      <4>1. \A j : j = Idle \/ j.at = "claim" => \A n \in Notice : ~Held(j, n)
        BY DEF Held, Idle
      <4> QED BY <1>2, <1>4, <2>4, <4>1, ClaimJob
    <3>2. claims' = claims
      BY <2>2, <2>4 DEF Wins
    <3> QED BY <2>0, <2>1, <2>2, <3>1, <3>2 DEF Leaves
  <2> QED BY <2>3, <2>4
<1>5. ASSUME SendSucceeds(s) \/ SendFails(s)
      PROVE  Leaves(s) \/ \E n \in Notice : Fails(s, n)
  <2> DEFINE n == sweep[s].n
  <2>1. n \in Notice /\ (\A m \in Notice : Holds(s, m) <=> m = n)
    BY <1>5, SendJob DEF SendSucceeds, SendFails, Holds, Held
  <2>2. UNCHANGED <<claims, batch>> /\ n \in attempted'
    BY <1>5 DEF SendSucceeds, SendFails
  <2>3. ASSUME ~(SendFails(s) /\ kind = "nudge") PROVE Sound(s)
    BY <1>5, <1>11, <2>3 DEF SendSucceeds, SendFails, Release
  <2>4. delivered' = delivered \/ delivered' = [delivered EXCEPT ![n] = @ + 1]
    BY <1>5 DEF SendSucceeds, SendFails, Deliver, Lose, Arrives
  <2>5. CASE SendSucceeds(s)
    <3>1. \A m \in Notice : ~Holds(s, m)'
      <4>1. \A j : j = Idle \/ j.at = "claim" => \A m \in Notice : ~Held(j, m)
        BY DEF Held, Idle
      <4> QED BY <1>2, <2>5, <4>1, SendJob
    <3>3. delivered' = [delivered EXCEPT ![n] = @ + 1]
      BY <2>5 DEF SendSucceeds, Deliver, Arrives
    <3>4. Sound(s)
      <4>1. \A m \in Notice : ~Failed(s, m)
        BY <2>5 DEF SendSucceeds, Failed
      <4>2. \E j : Moves(s, j) /\ j.at # "release"
        <5>1. [at |-> "mark", n |-> n].at = "mark" /\ Idle.at = "idle"
          BY DEF Idle
        <5>2. \E j : Moves(s, j) /\ (j = Idle \/ j.at = "claim")
          BY <2>5, SendJob
        <5> QED BY <5>1, <5>2
      <4> QED BY <1>2, <4>1, <4>2 DEF Sound
    <3> QED BY <1>0, <2>1, <2>2, <3>1, <3>3, <3>4 DEF Leaves
  <2>6. CASE SendFails(s) /\ kind = "nudge"
    <3>1. \A m \in Notice : ~Holds(s, m)' /\ (Failed(s, m)' <=> m = n)
      <4>1. \A m \in Notice : ~Held([at |-> "release", n |-> n], m)
        BY DEF Held
      <4> QED BY <1>2, <2>6, <4>1, SendJob
    <3>2. failures' = failures + 1
      BY <2>6 DEF SendFails, Lose, HasBotToken
    <3>3. \A m \in Notice : ~Failed(s, m)
      BY <2>6 DEF SendFails, Failed
    <3>4. Fails(s, n)
      BY <1>0, <2>1, <2>2, <2>4, <2>6, <3>1, <3>2, <3>3 DEF Fails
    <3> QED BY <2>1, <3>4
  <2>7. CASE SendFails(s) /\ kind # "nudge"
    <3>1. \A m \in Notice : ~Holds(s, m)'
      <4>1. \A m \in Notice : ~Held(Idle, m)
        BY DEF Held, Idle
      <4> QED BY <1>2, <2>7, <4>1, SendJob
    <3> QED BY <1>0, <2>1, <2>2, <2>3, <2>4, <2>7, <3>1 DEF Leaves
  <2> QED BY <1>5, <2>5, <2>6, <2>7
<1>6. ASSUME Collect(s) PROVE Leaves(s) \/ \E n \in Notice : Takes(s, n)
  <2>1. PICK i \in Items :
           /\ sweep[s].at = "collect"
           /\ claims' = claims \cup {<<i, "client">>}
           /\ Moves(s, [at |-> "collect", todo |-> sweep[s].todo \ {i},
                        got |-> IF Wins(<<i, "client">>) THEN sweep[s].got \cup {i}
                                                         ELSE sweep[s].got])
    BY <1>6, CollectJob
  <2>2. UNCHANGED <<batch, delivered>> /\ <<i, "client">> \in Notice
    BY <1>6 DEF Collect, Notice
  <2>0. Sound(s)
    BY <1>6, <1>11 DEF Collect, Release, SendFails
  <2>3. \A n \in Notice : Holds(s, n) <=> n[2] = "client" /\ n[1] \in sweep[s].got
    BY <2>1 DEF Holds, Held
  <2>4. CASE Wins(<<i, "client">>)
    <3>1. \A n \in Notice : Holds(s, n)' <=> n[2] = "client" /\ n[1] \in sweep[s].got \cup {i}
      <4>1. \A n \in Notice : Held([at |-> "collect", todo |-> sweep[s].todo \ {i},
                                    got |-> sweep[s].got \cup {i}], n)
                                 <=> n[2] = "client" /\ n[1] \in sweep[s].got \cup {i}
        BY DEF Held
      <4> QED BY <1>2, <2>1, <2>4, <4>1
    <3>2. \A n \in Notice : n[2] = "client" /\ n[1] = i <=> n = <<i, "client">>
      BY DEF Notice
    <3> QED BY <2>0, <2>1, <2>2, <2>3, <2>4, <3>1, <3>2 DEF Takes, Wins
  <2>5. CASE ~Wins(<<i, "client">>)
    <3>1. \A n \in Notice : Holds(s, n)' <=> n[2] = "client" /\ n[1] \in sweep[s].got
      <4>1. \A n \in Notice : Held([at |-> "collect", todo |-> sweep[s].todo \ {i},
                                    got |-> sweep[s].got], n)
                                 <=> n[2] = "client" /\ n[1] \in sweep[s].got
        BY DEF Held
      <4> QED BY <1>2, <2>1, <2>5, <4>1
    <3>2. claims' = claims
      BY <2>1, <2>5 DEF Wins
    <3> QED BY <2>0, <2>2, <2>3, <3>1, <3>2 DEF Leaves
  <2> QED BY <2>4, <2>5
<1>7. ASSUME Ask(s) PROVE Leaves(s) \/ Lists(s)
  <2>1. sweep[s].got \subseteq Items /\ kind = "renewal" /\ sweep[s].at = "collect"
    BY <1>7, AskJob
  <2>2. UNCHANGED <<claims, delivered>>
           /\ \A n \in Notice : Holds(s, n) <=> n[2] = "client" /\ n[1] \in sweep[s].got
    BY <1>7, <2>1 DEF Ask, Holds, Held
  <2>3. \A n \in Notice : ~Holds(s, n)'
    <3>1. \A n \in Notice : ~Held(Idle, n) /\ ~Held([at |-> "prompt", got |-> sweep[s].got], n)
      BY DEF Held, Idle
    <3> QED BY <1>2, <1>7, <3>1, AskJob
  <2>0. Sound(s)
    BY <1>7, <1>11 DEF Ask, Release, SendFails
  <2>4. CASE sweep[s].got = {}
    BY <1>7, <2>0, <2>2, <2>3, <2>4 DEF Ask, Leaves
  <2>5. CASE sweep[s].got # {}
    <3>1. batch' = sweep[s].got
      BY <1>7, <2>5 DEF Ask
    <3>2. \A n \in Notice : n[2] = "client" /\ n[1] \in sweep[s].got => Asks(s, n)'
      <4>1. sweep'[s] = [at |-> "prompt", got |-> sweep[s].got]
        BY <1>7, <2>5, AskJob, MovesType DEF Types
      <4> QED BY <4>1 DEF Asks
    <3> QED BY <2>0, <2>1, <2>2, <2>3, <3>1, <3>2 DEF Lists
  <2> QED BY <2>4, <2>5
<1>8. ASSUME Release(s) PROVE \E n \in Notice : Returns(s, n)
  <2>1. sweep[s].n \in Notice /\ sweep[s].at = "release" /\ kind = "nudge" /\ Moves(s, Idle)
    BY <1>8, LastJob DEF Release, Prompt
  <2>2. \A m \in Notice : ~Holds(s, m) /\ (Failed(s, m) <=> m = sweep[s].n)
    BY <2>1 DEF Holds, Held, Failed
  <2>3. \A m \in Notice : ~Holds(s, m)' /\ ~Failed(s, m)'
    BY <1>2, <2>1 DEF Held, Idle
  <2> QED BY <1>8, <2>1, <2>2, <2>3 DEF Release, Returns
<1>9. ASSUME Prompt(s) PROVE Leaves(s)
  <2>1. Moves(s, Idle) /\ UNCHANGED <<claims, batch, delivered>>
           /\ \A m \in Notice : ~Holds(s, m)
    BY <1>9, LastJob DEF Prompt, Holds, Held
  <2>2. \A m \in Notice : ~Holds(s, m)'
    BY <1>2, <2>1 DEF Held, Idle
  <2>3. Sound(s)
    BY <1>9, <1>11 DEF Prompt, Release, SendFails
  <2> QED BY <2>1, <2>2, <2>3 DEF Leaves
<1>10. ~Mark(s)
  BY LastJob DEF Mark
<1> QED BY <1>1, <1>3, <1>4, <1>5, <1>6, <1>7, <1>8, <1>9, <1>10 DEF Step, Shaped

-----------------------------------------------------------------------------
(* At most once *)

LEMMA InitTokens == Init => Tokens
<1> SUFFICES ASSUME Init PROVE Tokens
  OBVIOUS
<1>1. \A s \in Sweeps, n \in Notice : ~Has(s, n)
  BY DEF Init, Has, Holds, Held, Failed, Idle
<1>2. \A n \in Notice : ~Kept(n) /\ delivered[n] = 0 /\ n \notin claims
  BY DEF Init, Kept
<1>3. Spare = 0
  BY DEF Init, Spare
<1> QED BY <1>1, <1>2, <1>3 DEF Init, Tokens

LEMMA SweepTokens ==
    ASSUME Types, Types', Tokens, kind # "cancellation", NEW s \in Sweeps, Others(s), Shaped(s)
    PROVE  Tokens'
<1>1. \A t \in Sweeps \ {s}, n \in Notice : Has(t, n)' <=> Has(t, n)
  BY DEF Others, Has, Holds, Failed
<1>2. kind' = kind /\ nudging' = nudging /\ Spare \in Nat /\ Spare' \in Nat /\ Spare <= Spare'
         /\ \A n \in Notice : delivered[n] \in Nat /\ delivered'[n] \in Nat
  BY BoundsAssumption DEF Types, StateOK, Others, Spare
<1>3. ASSUME Leaves(s) PROVE Tokens'
  <2>1. \A n \in Notice : Kept(n)' <=> Kept(n)
    BY <1>2, <1>3 DEF Leaves, Kept
  <2>2. \A n \in Notice, t \in Sweeps : Has(t, n)' => Has(t, n)
    BY <1>1, <1>3 DEF Leaves, Has, Sound
  <2>3. \A n \in Notice : delivered'[n] # delivered[n] =>
           /\ Has(s, n) /\ delivered'[n] = delivered[n] + 1
           /\ ~Has(s, n)'
    BY <1>3 DEF Leaves, Has, Sound
  <2>4. \A n \in Notice : delivered'[n] # delivered[n] =>
           /\ n \in claims /\ delivered'[n] <= 1 + Spare' /\ ~Kept(n)
           /\ \A t \in Sweeps : ~Has(t, n)'
    BY <1>1, <1>2, <2>3 DEF Tokens
  <2>5. claims' = claims /\ batch' = batch
    BY <1>3 DEF Leaves
  <2> QED BY <1>2, <2>1, <2>2, <2>4, <2>5 DEF Tokens
<1>4. ASSUME Lists(s) PROVE Tokens'
  <2>1. \A n \in Notice : Kept(n)' =>
           \/ Has(s, n)
           \/ n[2] = "client" /\ n[1] \in nudging /\ Kept(n)
    BY <1>2, <1>4 DEF Lists, Kept, Has
  <2>2. \A n \in Notice, t \in Sweeps : Has(t, n)' => t # s /\ Has(t, n)
    BY <1>1, <1>4 DEF Lists, Has, Sound
  <2>3. \A n \in Notice, t \in Sweeps : Has(t, n)' => ~Kept(n)'
    BY <2>1, <2>2 DEF Tokens
  <2>4. batch' \cap nudging' = {}
    <3>1. ASSUME NEW i \in batch' \cap nudging' PROVE FALSE
      <4>1. <<i, "client">> \in Notice
        BY <1>2, <3>1 DEF Types, StateOK, Notice
      <4>2. Has(s, <<i, "client">>) /\ Kept(<<i, "client">>)
        BY <1>2, <1>4, <3>1, <4>1 DEF Lists, Kept, Has
      <4> QED BY <4>1, <4>2 DEF Tokens
    <3> QED BY <3>1
  <2>5. UNCHANGED <<claims, delivered>>
    BY <1>4 DEF Lists
  <2> QED BY <1>2, <2>1, <2>2, <2>3, <2>4, <2>5 DEF Tokens
<1>5. ASSUME NEW n \in Notice, Takes(s, n) PROVE Tokens'
  <2>1. \A m \in Notice : Kept(m)' <=> Kept(m)
    BY <1>2, <1>5 DEF Takes, Kept
  <2>2. \A m \in Notice, t \in Sweeps : Has(t, m)' => Has(t, m) \/ (t = s /\ m = n)
    BY <1>1, <1>5 DEF Takes, Has, Sound
  <2>3. delivered[n] <= Spare /\ ~Kept(n) /\ \A t \in Sweeps : ~Has(t, n)
    BY <1>5 DEF Takes, Tokens
  <2>4. claims' = claims \cup {n} /\ UNCHANGED <<batch, delivered>>
    BY <1>5 DEF Takes
  <2> QED BY <1>2, <2>1, <2>2, <2>3, <2>4 DEF Tokens
<1>6. ASSUME NEW n \in Notice, Fails(s, n) PROVE Tokens'
  <2>1. \A m \in Notice : Kept(m)' <=> Kept(m)
    BY <1>2, <1>6 DEF Fails, Kept
  <2>2. \A m \in Notice, t \in Sweeps : Has(t, m)' => Has(t, m)
    BY <1>1, <1>6 DEF Fails, Has
  <2>3. Spare' = Spare + 1
    BY <1>2, <1>6 DEF Fails, Spare
  <2>4. UNCHANGED <<claims, batch>> /\ \A m \in Notice : delivered'[m] <= delivered[m] + 1
    BY <1>2, <1>6 DEF Fails
  <2>5. \A m \in Notice : delivered'[m] # delivered[m] => m = n
    BY <1>6 DEF Fails
  <2>6. Has(s, n)
    BY <1>6 DEF Fails, Has
  <2> QED BY <1>2, <2>1, <2>2, <2>3, <2>4, <2>5, <2>6 DEF Tokens
<1>7. ASSUME NEW n \in Notice, Returns(s, n) PROVE Tokens'
  <2>1. \A m \in Notice : Kept(m)' <=> Kept(m)
    BY <1>2, <1>7 DEF Returns, Kept
  <2>2. \A m \in Notice, t \in Sweeps : Has(t, m)' => t # s /\ Has(t, m)
    BY <1>1, <1>7 DEF Returns, Has
  <2>3. delivered[n] <= Spare /\ ~Kept(n) /\ \A t \in Sweeps \ {s} : ~Has(t, n)
    <3>1. Has(s, n)
      BY <1>7 DEF Returns, Has
    <3> QED BY <3>1 DEF Tokens
  <2>4. claims' = claims \ {n} /\ UNCHANGED <<batch, delivered>>
    BY <1>7 DEF Returns
  <2> QED BY <1>2, <2>1, <2>2, <2>3, <2>4 DEF Tokens
<1> QED BY <1>3, <1>4, <1>5, <1>6, <1>7 DEF Shaped

LEMMA KindStays == Types /\ [Next]_vars => kind' = kind
<1> SUFFICES ASSUME Types, [Next]_vars PROVE kind' = kind
  OBVIOUS
<1>1. ASSUME NEW s \in Sweeps, Step(s) \/ BeginRenewal(s) \/ \E i \in Items : Begin(s, i)
      PROVE  kind' = kind
  BY <1>1, SweepJob DEF Moves
<1>2. ASSUME NEW i \in Items, Advance(i) \/ NudgeClient(i) \/ Withdraw(i) PROVE kind' = kind
  BY <1>2 DEF Advance, NudgeClient, Withdraw
<1>3. CASE LearnOwner \/ TapYes \/ BatchDropped \/ Crash \/ UNCHANGED vars
  BY <1>3 DEF LearnOwner, TapYes, BatchDropped, Crash, vars
<1> QED BY <1>1, <1>2, <1>3 DEF Next

LEMMA NextTokens == Types /\ Types' /\ Tokens /\ [Next]_vars => Tokens'
<1> SUFFICES ASSUME Types, Types', Tokens, [Next]_vars, kind # "cancellation" PROVE Tokens'
  BY KindStays DEF Tokens
<1> USE DEF memory, history
<1>1. ASSUME NEW s \in Sweeps, Step(s) \/ BeginRenewal(s) \/ \E i \in Items : Begin(s, i)
      PROVE  Tokens'
  BY <1>1, SweepShape, SweepTokens
<1>2. ASSUME UNCHANGED <<kind, claims, sweep, delivered, failures>>,
             batch' \cup nudging' \subseteq batch \cup nudging, batch' \cap nudging' = {}
      PROVE  Tokens'
  <2>1. \A n \in Notice : Kept(n)' => Kept(n)
    BY <1>2 DEF Kept
  <2>2. \A s \in Sweeps, n \in Notice : Has(s, n)' <=> Has(s, n)
    BY <1>2 DEF Has, Holds, Failed
  <2>3. Spare' = Spare
    BY <1>2 DEF Spare
  <2> QED BY <1>2, <2>1, <2>2, <2>3 DEF Tokens
<1>3. CASE LearnOwner \/ TapYes \/ BatchDropped \/ UNCHANGED vars \/ \E i \in Items : Advance(i)
  BY <1>2, <1>3 DEF LearnOwner, TapYes, BatchDropped, Advance, vars, Tokens
<1>4. ASSUME NEW i \in Items, NudgeClient(i) PROVE Tokens'
  <2> DEFINE n == <<i, "client">>
  <2>1. n \in Notice /\ Kept(n) /\ nudging' = nudging \ {i} /\ i \notin batch
    BY <1>4 DEF NudgeClient, Notice, Kept, Tokens
  <2>2. UNCHANGED <<kind, claims, sweep, batch>> /\ kind = "renewal"
    BY <1>4 DEF NudgeClient, Types, ListsOK
  <2>3. delivered' = delivered \/ delivered' = [delivered EXCEPT ![n] = @ + 1]
    BY <1>4 DEF NudgeClient, Deliver, Lose, Arrives
  <2>4. \A m \in Notice : Kept(m)' => Kept(m) /\ m # n
    BY <2>1, <2>2 DEF Kept
  <2>5. \A s \in Sweeps, m \in Notice : Has(s, m)' <=> Has(s, m)
    BY <2>2 DEF Has, Holds, Failed
  <2>6. Spare = 0 /\ Spare' = 0 /\ \A m \in Notice : delivered[m] \in Nat
    BY <2>2 DEF Types, StateOK, Spare
  <2>7. n \in claims /\ delivered[n] = 0 /\ \A s \in Sweeps : ~Has(s, n)
    BY <2>1, <2>6 DEF Tokens
  <2>8. \A m \in Notice : delivered'[m] = delivered[m] \/ (m = n /\ delivered'[m] = 1)
    BY <2>1, <2>3, <2>7 DEF Types, StateOK
  <2> HIDE DEF n
  <2>9. batch' \cap nudging' = {}
    BY <2>1, <2>2 DEF Tokens
  <2> QED BY <2>2, <2>4, <2>5, <2>6, <2>7, <2>8, <2>9 DEF Tokens
<1>6. ASSUME NEW i \in Items, Withdraw(i) PROVE Tokens'
  <2> DEFINE n == <<i, "owner">>
  <2>1. n \in Notice /\ n \notin claims /\ claims' = claims \cup {n}
    BY <1>6 DEF Withdraw, Notice
  <2>2. UNCHANGED <<kind, sweep, batch, nudging, delivered, failures>>
    BY <1>6 DEF Withdraw
  <2>3. \A m \in Notice : Kept(m)' <=> Kept(m)
    BY <2>2 DEF Kept
  <2>4. \A s \in Sweeps, m \in Notice : Has(s, m)' <=> Has(s, m)
    BY <2>2 DEF Has, Holds, Failed
  <2>5. Spare' = Spare
    BY <2>2 DEF Spare
  <2> HIDE DEF n
  <2> QED BY <2>1, <2>2, <2>3, <2>4, <2>5 DEF Tokens
<1>5. CASE Crash
  <2>1. \A s \in Sweeps, n \in Notice : ~Has(s, n)'
    BY <1>5 DEF Crash, Has, Holds, Held, Failed, Idle
  <2>2. \A n \in Notice : ~Kept(n)'
    BY <1>5 DEF Crash, Kept
  <2>3. Spare' = Spare
    BY <1>5 DEF Crash, Spare
  <2> QED BY <1>5, <2>1, <2>2, <2>3 DEF Crash, Tokens
<1> QED BY <1>1, <1>3, <1>4, <1>5, <1>6 DEF Next

LEMMA AlwaysTokens == Spec => []Tokens
BY InitTokens, NextTokens, AlwaysTypes, PTL DEF Spec

\* However many sweeps overlap, and whether a send that failed arrived or not,
\* a claimed notice arrives at most once, and the hint at most once more for
\* every failure (client.ts's timeout, releaseGoogleCalendarNudgeClaim).
THEOREM OnceHolds == Spec => []AtMostOnce
<1>1. Tokens => AtMostOnce
  BY DEF Tokens, AtMostOnce, Spare
<1> QED BY <1>1, AlwaysTokens, PTL

-----------------------------------------------------------------------------
(* No claim without an attempt *)

\* As ClaimedIsAttempted, but a sweep that may still lose the claim does not
\* count; a cancelled class is claimed when its send was tried, and the hint
\* given back.
Tried ==
    /\ \A s \in Sweeps : sweep[s].at = "mark" => sweep[s].n \in attempted
    /\ kind = "cancellation" => claims \subseteq attempted
    /\ crashes = 0 /\ kind # "cancellation" =>
          \A n \in claims : \/ n \in attempted \cup withdrawn
                            \/ \E s \in Sweeps : Holds(s, n) \/ Asks(s, n)

LEMMA TriedStep ==
    ASSUME Types, Tried, kind # "cancellation", NEW s \in Sweeps, Others(s), Shaped(s)
    PROVE  crashes' = 0 =>
              \A n \in claims' : \/ n \in attempted' \cup withdrawn'
                                \/ \E t \in Sweeps : Holds(t, n)' \/ Asks(t, n)'
<1> SUFFICES ASSUME crashes = 0, NEW n \in claims', n \notin attempted' \cup withdrawn'
             PROVE  \E t \in Sweeps : Holds(t, n)' \/ Asks(t, n)'
  BY DEF Others
<1>1. \A t \in Sweeps \ {s} : (Holds(t, n)' <=> Holds(t, n)) /\ (Asks(t, n)' <=> Asks(t, n))
  BY DEF Others, Holds, Asks
<1>2. n \notin attempted \cup withdrawn /\ claims \subseteq Notice
  BY DEF Others, Types, ClaimsOK
<1>3. ASSUME n \in claims
      PROVE  \/ Holds(s, n)
             \/ \E t \in Sweeps : Holds(t, n)' \/ Asks(t, n)'
  <2>1. PICK t \in Sweeps : Holds(t, n) \/ Asks(t, n)
    BY <1>2, <1>3 DEF Tried
  <2>2. ~Asks(s, n)
    BY <1>2, <1>3 DEF Others
  <2> QED BY <1>1, <2>1, <2>2
<1>4. CASE Leaves(s) \/ Lists(s)
  <2>1. n \in claims /\ n \in Notice
    BY <1>2, <1>4 DEF Leaves, Lists
  <2>2. Holds(s, n) => Holds(s, n)' \/ Asks(s, n)'
    BY <1>4, <2>1 DEF Leaves, Lists
  <2> QED BY <1>3, <2>1, <2>2
<1>5. ASSUME NEW m \in Notice, Takes(s, m) PROVE \E t \in Sweeps : Holds(t, n)' \/ Asks(t, n)'
  <2>1. n = m => Holds(s, n)'
    BY <1>5 DEF Takes
  <2>2. n # m => n \in claims /\ n \in Notice
    BY <1>2, <1>5 DEF Takes
  <2>3. n \in Notice /\ Holds(s, n) => Holds(s, n)'
    BY <1>5 DEF Takes
  <2> QED BY <1>3, <2>1, <2>2, <2>3
<1>6. ASSUME NEW m \in Notice, Fails(s, m) \/ Returns(s, m)
      PROVE  \E t \in Sweeps : Holds(t, n)' \/ Asks(t, n)'
  <2>1. n \in claims /\ n \in Notice /\ ~Holds(s, n)
    BY <1>2, <1>6 DEF Fails, Returns
  <2> QED BY <1>3, <2>1
<1> QED BY <1>4, <1>5, <1>6 DEF Shaped

LEMMA NextTried == Types /\ Tried /\ [Next]_vars => Tried'
<1> SUFFICES ASSUME Types, Tried, [Next]_vars PROVE Tried'
  OBVIOUS
<1> USE DEF memory, history
<1>1. ASSUME UNCHANGED <<kind, claims, sweep, attempted, withdrawn, crashes>>
      PROVE  Tried'
  BY <1>1 DEF Tried, Holds, Asks
<1>2. ASSUME NEW s \in Sweeps, Step(s) \/ BeginRenewal(s) \/ \E i \in Items : Begin(s, i)
      PROVE  Tried'
  <2>1. \E j : Moves(s, j)
    BY <1>2, SweepJob
  <2>2. kind' = kind /\ attempted \subseteq attempted'
    <3>1. attempted \subseteq attempted'
      BY <1>2 DEF Step, BeginRenewal, Begin, Claim, SendSucceeds, SendFails, Release, Mark,
                  Collect, Ask, Prompt
    <3> QED BY <2>1, <3>1 DEF Moves
  <2>3. \A t \in Sweeps : sweep'[t].at = "mark" => sweep'[t].n \in attempted'
    <3>1. \A t \in Sweeps \ {s} : sweep'[t] = sweep[t]
      BY <2>1, MovesType DEF Types
    <3>2. ASSUME sweep'[s].at = "mark" PROVE sweep'[s].n \in attempted'
      <4>1. kind = "cancellation" /\ SweepsOK
        BY <2>1, <2>2, <3>2, MovesType DEF Types, SweepsOK, Fits
      <4>2. SendSucceeds(s) \/ SendFails(s)
        <5>1. ~Claim(s)
          <6>1. ASSUME Claim(s) PROVE \E j : Moves(s, j) /\ j.at # "mark"
            <7>1. Idle.at # "mark" /\ [at |-> "send", n |-> sweep[s].n].at # "mark"
              BY DEF Idle
            <7> QED BY <6>1, <7>1, ClaimJob
          <6> QED BY <3>2, <4>1, <6>1, MovesType
        <5>2. ~Collect(s) /\ ~Ask(s) /\ ~BeginRenewal(s) /\ ~Prompt(s)
          BY <4>1, CollectJob, AskJob DEF BeginRenewal, Renewals, Prompt, SweepsOK, Fits
        <5>3. ~Release(s) /\ ~Mark(s)
          <6>1. Idle.at # "mark"
            BY DEF Idle
          <6> QED BY <3>2, <4>1, <6>1, LastJob, MovesType
        <5>4. \A i \in Items : ~Begin(s, i)
          BY <3>2, <4>1 DEF Begin, Goto, Opening, SweepsOK
        <5> QED BY <1>2, <5>1, <5>2, <5>3, <5>4 DEF Step
      <4>3. sweep'[s] = [at |-> "mark", n |-> sweep[s].n]
        BY <4>1, <4>2, SendJob, MovesType
      <4> QED BY <4>2, <4>3 DEF SendSucceeds, SendFails
    <3> QED BY <2>2, <3>1, <3>2 DEF Tried
  <2>4. CASE kind # "cancellation"
    BY <1>2, <2>2, <2>3, <2>4, SweepShape, TriedStep DEF Tried
  <2>5. CASE kind = "cancellation"
    <3>1. claims' = claims \/ Mark(s)
      <4>1. ~Claim(s)
        BY <2>5 DEF Claim, Types, SweepsOK, Fits
      <4> QED BY <1>2, <2>5, <4>1, CollectJob, LastJob
              DEF Step, BeginRenewal, Begin, Claim, SendSucceeds, SendFails, Ask, Prompt
    <3>2. Mark(s) => claims' = claims \cup {sweep[s].n} /\ sweep[s].n \in attempted
      BY DEF Mark, Tried
    <3> QED BY <2>2, <2>3, <2>5, <3>1, <3>2 DEF Tried
  <2> QED BY <2>4, <2>5
<1>3. CASE LearnOwner \/ TapYes \/ BatchDropped \/ UNCHANGED vars
           \/ \E i \in Items : Advance(i) \/ NudgeClient(i)
  BY <1>1, <1>3 DEF LearnOwner, TapYes, BatchDropped, Advance, NudgeClient, vars
<1>4. CASE Crash
  BY <1>4, BoundsAssumption DEF Crash, Tried, Idle, Types, StateOK
<1>5. ASSUME NEW i \in Items, Withdraw(i) PROVE Tried'
  <2>1. /\ kind = "nudge" /\ claims' = claims \cup {<<i, "owner">>}
        /\ withdrawn' = withdrawn \cup {<<i, "owner">>}
        /\ UNCHANGED <<kind, sweep, attempted, crashes>>
    BY <1>5 DEF Withdraw
  <2>2. \A s \in Sweeps, n \in claims :
           (Holds(s, n)' <=> Holds(s, n)) /\ (Asks(s, n)' <=> Asks(s, n))
    BY <2>1 DEF Holds, Asks
  <2> QED BY <2>1, <2>2 DEF Tried
<1> QED BY <1>2, <1>3, <1>4, <1>5 DEF Next

\* Without a restart nothing is claimed for good and never tried, whichever
\* sweep wins, but a hint that a revocation claims (handleGoogleAuthRevoked).
THEOREM AttemptHolds == Spec => []ClaimedIsAttempted
<1>1. Init => Tried
  BY DEF Init, Tried, Idle
<1>2. Types /\ Tried => ClaimedIsAttempted
  BY DEF Tried, ClaimedIsAttempted, Working, Holds, Held, Asks, Types, ClaimsOK
<1> QED BY <1>1, <1>2, NextTried, AlwaysTypes, PTL DEF Spec

-----------------------------------------------------------------------------
(* The hint *)

\* A failed send does not use up the only hint to connect a calendar: it has
\* arrived, is being tried, or was withdrawn with the connection.
HintNotWasted ==
    \A n \in claims : kind = "nudge" /\ crashes = 0 =>
       delivered[n] >= 1 \/ n \in withdrawn \/ \E s \in Sweeps : Working(s, n)

\* As HintNotWasted, but a sweep that may still lose the claim does not count.
Hinted ==
    kind = "nudge" /\ crashes = 0 =>
       \A n \in claims : delivered[n] >= 1 \/ n \in withdrawn \/ \E s \in Sweeps : Has(s, n)

LEMMA HintedStep ==
    ASSUME Types, Types', Hinted, kind = "nudge", NEW s \in Sweeps, Others(s), Shaped(s)
    PROVE  Hinted'
<1> SUFFICES ASSUME crashes = 0, NEW n \in claims', ~(delivered'[n] >= 1), n \notin withdrawn
             PROVE  \E t \in Sweeps : Has(t, n)'
  BY DEF Others, Hinted
<1>1. \A t \in Sweeps \ {s} : Has(t, n)' <=> Has(t, n)
  BY DEF Others, Has, Holds, Failed
<1>2. claims \subseteq Notice /\ claims' \subseteq Notice
         /\ \A m \in Notice : delivered[m] \in Nat /\ delivered'[m] \in Nat
  BY DEF Types, ClaimsOK, StateOK
<1>3. ~Lists(s)
  BY DEF Lists
<1>4. \A m \in Notice : delivered[m] <= delivered'[m]
  BY <1>2, <1>3 DEF Shaped, Leaves, Takes, Fails, Returns
<1>5. n \in claims => \E t \in Sweeps : Has(t, n)
  BY <1>2, <1>4 DEF Hinted
<1>6. CASE Leaves(s)
  <2>1. n \in claims /\ n \in Notice
    BY <1>2, <1>6 DEF Leaves
  <2>2. Has(s, n) => Has(s, n)'
    BY <1>2, <1>6, <2>1 DEF Leaves, Has, Sound
  <2> QED BY <1>1, <1>5, <2>1, <2>2
<1>7. ASSUME NEW m \in Notice, Takes(s, m) PROVE \E t \in Sweeps : Has(t, n)'
  <2>1. n = m => Has(s, n)'
    BY <1>7 DEF Takes, Has
  <2>2. n # m => n \in claims
    BY <1>7 DEF Takes
  <2>3. Has(s, n) => Has(s, n)'
    BY <1>2, <1>7 DEF Takes, Has, Sound
  <2> QED BY <1>1, <1>5, <2>1, <2>2, <2>3
<1>8. ASSUME NEW m \in Notice, Fails(s, m) PROVE \E t \in Sweeps : Has(t, n)'
  <2>1. n \in claims
    BY <1>8 DEF Fails
  <2>2. Has(s, n) => Has(s, n)'
    BY <1>2, <1>8 DEF Fails, Has
  <2> QED BY <1>1, <1>5, <2>1, <2>2
<1>9. ASSUME NEW m \in Notice, Returns(s, m) PROVE \E t \in Sweeps : Has(t, n)'
  <2>1. n \in claims /\ n # m
    BY <1>9 DEF Returns
  <2>2. ~Has(s, n)
    BY <1>2, <1>9, <2>1 DEF Returns, Has
  <2> QED BY <1>1, <1>5, <2>1, <2>2
<1> QED BY <1>3, <1>6, <1>7, <1>8, <1>9 DEF Shaped

LEMMA NextHinted == Types /\ Types' /\ Hinted /\ [Next]_vars => Hinted'
<1> SUFFICES ASSUME Types, Types', Hinted, [Next]_vars, kind = "nudge" PROVE Hinted'
  BY KindStays DEF Hinted
<1> USE DEF memory, history
<1>1. ASSUME NEW s \in Sweeps, Step(s) \/ BeginRenewal(s) \/ \E i \in Items : Begin(s, i)
      PROVE  Hinted'
  BY <1>1, SweepShape, HintedStep
<1>2. CASE LearnOwner \/ TapYes \/ BatchDropped \/ UNCHANGED vars \/ \E i \in Items : Advance(i)
  BY <1>2 DEF LearnOwner, TapYes, BatchDropped, Advance, vars, Hinted, Has, Holds, Failed
<1>3. ASSUME NEW i \in Items PROVE ~NudgeClient(i)
  BY DEF NudgeClient, Types, ListsOK
<1>4. CASE Crash
  BY <1>4, BoundsAssumption DEF Crash, Hinted, Types, StateOK
<1>5. ASSUME NEW i \in Items, Withdraw(i) PROVE Hinted'
  <2>1. /\ claims' = claims \cup {<<i, "owner">>}
        /\ withdrawn' = withdrawn \cup {<<i, "owner">>}
        /\ UNCHANGED <<kind, sweep, delivered, crashes>>
    BY <1>5 DEF Withdraw
  <2>2. \A s \in Sweeps, n \in claims : Has(s, n)' <=> Has(s, n)
    BY <2>1 DEF Has, Holds, Failed
  <2> QED BY <2>1, <2>2 DEF Hinted
<1> QED BY <1>1, <1>2, <1>3, <1>4, <1>5 DEF Next

\* A failed send gives the claim of the only hint back
\* (releaseGoogleCalendarNudgeClaim), so a hint that stays claimed has
\* arrived, unless a restart or a revocation (handleGoogleAuthRevoked) took it.
THEOREM HintHolds == Spec => []HintNotWasted
<1>1. Init => Hinted
  BY DEF Init, Hinted
<1>2. Types /\ Hinted => HintNotWasted
  BY DEF Hinted, HintNotWasted, Working, Has, Holds, Held, Failed, Types, ClaimsOK
<1> QED BY <1>1, <1>2, NextHinted, AlwaysTypes, PTL DEF Spec

-----------------------------------------------------------------------------
(* The outbox *)

Places   == [n \in Notice |-> Place(n)]
Arrivals == [n \in Notice |-> IF kind = "cancellation" THEN 0 ELSE delivered[n]]
HeldNow(n)   == Kept(n) \/ \E s \in Sweeps : Holds(s, n)
FailedNow(n) == \E s \in Sweeps : Failed(s, n)

\* What a notice's place says of it.
PlacesSay ==
    kind # "cancellation" =>
       \A n \in Notice : /\ n \notin claims <=> Place(n) = "open"
                         /\ HeldNow(n) <=> Place(n) = "held"
                         /\ FailedNow(n) <=> Place(n) = "failed"
                         /\ Place(n) \in {"open", "held", "failed", "gone"}

LEMMA PlaceOf == Types /\ Tokens => PlacesSay
<1> SUFFICES ASSUME Types, Tokens, kind # "cancellation", NEW n \in Notice
             PROVE  /\ n \notin claims <=> Place(n) = "open"
                    /\ HeldNow(n) <=> Place(n) = "held"
                    /\ FailedNow(n) <=> Place(n) = "failed"
                    /\ Place(n) \in {"open", "held", "failed", "gone"}
  BY DEF PlacesSay
<1>1. HeldNow(n) \/ FailedNow(n) => n \in claims
  BY DEF HeldNow, FailedNow, Has, Tokens
<1>2. ~(HeldNow(n) /\ FailedNow(n))
  <2>1. ASSUME NEW s \in Sweeps, Failed(s, n) PROVE ~Kept(n) /\ \A t \in Sweeps : ~Holds(t, n)
    <3>1. ~Holds(s, n)
      BY <2>1 DEF Holds, Held, Failed
    <3> QED BY <2>1, <3>1 DEF Has, Tokens
  <2> QED BY <2>1 DEF HeldNow, FailedNow
<1> QED BY <1>1, <1>2 DEF Place, HeldNow, FailedNow

LEMMA PlaceOfNext == Types' /\ Tokens' => PlacesSay'
BY PlaceOf, PTL

\* A notice stays where it is when nothing the place depends on changes.
LEMMA PlaceStays ==
    ASSUME kind # "cancellation", UNCHANGED kind, NEW n \in Notice,
           n \in claims' <=> n \in claims,
           HeldNow(n)' <=> HeldNow(n), FailedNow(n)' <=> FailedNow(n)
    PROVE  Place(n)' = Place(n)
BY DEF Place, HeldNow, FailedNow

LEMMA InitOutbox == Init => Outbox!Init
BY DEF Init, Outbox!Init, Place

\* The steps of the outbox that a change of one notice amounts to.
LEMMA OneMoves ==
    ASSUME kind # "cancellation", UNCHANGED <<kind, crashes>>, delivered \in [Notice -> Nat],
           delivered' \in [Notice -> Nat], NEW n \in Notice,
           \A m \in Notice \ {n} : Place(m)' = Place(m) /\ delivered'[m] = delivered[m],
           LET Same  == delivered'[n] = delivered[n]
               Again == delivered'[n] = delivered[n] + 1 IN
           \/ Place(n) = "open" /\ Place(n)' = "held" /\ Same
           \/ Place(n) = "held" /\ Place(n)' = "gone" /\ Again
           \/ Place(n) = "held" /\ Place(n)' = "gone" /\ Same /\ kind # "nudge"
           \/ Place(n) = "held" /\ Place(n)' = "failed" /\ (Same \/ Again) /\ kind = "nudge"
           \/ Place(n) = "failed" /\ Place(n)' = "open" /\ Same
           \/ Place(n) = "open" /\ Place(n)' = "gone" /\ Same /\ kind = "nudge"
    PROVE  Outbox!Next
<1> DEFINE Same  == delivered'[n] = delivered[n]
           Again == delivered'[n] = delivered[n] + 1
<1>1. Places' = [Places EXCEPT ![n] = Place(n)'] /\ Places[n] = Place(n)
  BY DEF Places
<1>2. Arrivals = delivered /\ Arrivals' = delivered'
  BY DEF Arrivals
<1>3. Same => Arrivals' = Arrivals
  BY <1>2
<1>4. Again => Arrivals' = [Arrivals EXCEPT ![n] = Arrivals[n] + 1]
  BY <1>2
<1>5. UNCHANGED <<kind = "nudge", crashes > 0>>
  OBVIOUS
<1> USE <1>1, <1>3, <1>4, <1>5 DEF Outbox!Goes, Places, Arrivals
<1>6. CASE Place(n) = "open" /\ Place(n)' = "held" /\ Same
  <2>1. Outbox!Take(n)
    BY <1>6 DEF Outbox!Take
  <2> QED BY <2>1 DEF Outbox!Next
<1>7. CASE Place(n) = "held" /\ Place(n)' = "gone" /\ Again
  <2>1. Outbox!Send(n)
    BY <1>7 DEF Outbox!Send
  <2> QED BY <2>1 DEF Outbox!Next
<1>8. CASE Place(n) = "held" /\ Place(n)' = "gone" /\ Same /\ kind # "nudge"
  <2>1. Outbox!Lose({n})
    BY <1>8 DEF Outbox!Lose
  <2> QED BY <2>1 DEF Outbox!Next
<1>9. CASE Place(n) = "held" /\ Place(n)' = "failed" /\ (Same \/ Again) /\ kind = "nudge"
  <2>1. Outbox!Fail(n)
    BY <1>9 DEF Outbox!Fail
  <2> QED BY <2>1 DEF Outbox!Next
<1>10. CASE Place(n) = "failed" /\ Place(n)' = "open" /\ Same
  <2>1. Outbox!GiveBack(n)
    BY <1>10 DEF Outbox!GiveBack
  <2> QED BY <2>1 DEF Outbox!Next
<1>11. CASE Place(n) = "open" /\ Place(n)' = "gone" /\ Same /\ kind = "nudge"
  <2>1. Outbox!Withdraw(n)
    BY <1>11 DEF Outbox!Withdraw
  <2> QED BY <2>1 DEF Outbox!Next
<1> QED BY <1>6, <1>7, <1>8, <1>9, <1>10, <1>11

\* The notices on the list, and those only, are lost with it.
LEMMA ListLost ==
    ASSUME Types, Tokens, Types', Tokens', kind = "renewal", UNCHANGED <<kind, crashes>>,
           UNCHANGED <<claims, delivered>>,
           NEW S, S = {n \in Notice : n[2] = "client" /\ n[1] \in batch},
           \A n \in S : ~HeldNow(n)', \A n \in Notice \ S : HeldNow(n)' <=> HeldNow(n)
    PROVE  Outbox!Next
<1>0. \A n \in Notice : ~FailedNow(n) /\ ~FailedNow(n)'
  BY DEF FailedNow, Failed, Types, SweepsOK, Fits
<1>1. \A n \in S : Place(n) = "held" /\ Place(n)' = "gone"
  <2>1. \A n \in S : HeldNow(n) /\ n \in claims
    BY DEF HeldNow, Kept, Tokens
  <2> QED BY <1>0, <2>1, PlaceOf DEF PlacesSay, Place, HeldNow, FailedNow
<1>2. \A n \in Notice \ S : Place(n)' = Place(n)
  BY <1>0, PlaceStays
<1>3. S \in SUBSET Notice
  OBVIOUS
<1>4. Places' = [n \in Notice |-> IF n \in S THEN "gone" ELSE Places[n]]
  BY <1>1, <1>2 DEF Places
<1>5. Arrivals' = Arrivals
  BY DEF Arrivals
<1>6. Outbox!Lose(S)
  BY <1>1, <1>3, <1>4, <1>5 DEF Outbox!Lose, Places, Arrivals
<1> QED BY <1>3, <1>6 DEF Outbox!Next

\* A sweep's step.
LEMMA SweepRefines ==
    ASSUME Types, Tokens, Types', Tokens', kind # "cancellation", NEW s \in Sweeps, Others(s),
           Shaped(s)
    PROVE  Outbox!Next \/ UNCHANGED <<Places, Arrivals>>
<1>1. \A t \in Sweeps \ {s}, n \in Notice :
         (Holds(t, n)' <=> Holds(t, n)) /\ (Failed(t, n)' <=> Failed(t, n))
  BY DEF Others, Holds, Failed
<1>2. UNCHANGED <<kind, nudging, crashes>>
  BY DEF Others
<1>0. delivered \in [Notice -> Nat] /\ delivered' \in [Notice -> Nat]
  BY DEF Types, StateOK
<1>10. ASSUME NEW n \in Notice, n \in claims' <=> n \in claims, batch' = batch,
              Holds(s, n)' <=> Holds(s, n), Failed(s, n)' <=> Failed(s, n)
       PROVE  Place(n)' = Place(n)
  <2>1. HeldNow(n)' <=> HeldNow(n)
    BY <1>1, <1>2, <1>10 DEF HeldNow, Kept
  <2>2. FailedNow(n)' <=> FailedNow(n)
    BY <1>1, <1>10 DEF FailedNow
  <2> QED BY <1>2, <1>10, <2>1, <2>2, PlaceStays
<1>3. CASE Leaves(s)
  <2>1. ASSUME NEW n \in Notice, Holds(s, n)' <=> Holds(s, n)
        PROVE  Place(n)' = Place(n) /\ delivered'[n] = delivered[n]
    BY <1>3, <1>10, <2>1 DEF Leaves, Sound
  <2>2. CASE \A n \in Notice : Holds(s, n)' <=> Holds(s, n)
    <3>1. Places' = Places
      BY <2>1, <2>2 DEF Places
    <3>2. Arrivals' = Arrivals
      BY <1>2, <2>1, <2>2 DEF Arrivals
    <3> QED BY <3>1, <3>2
  <2>3. ASSUME NEW n \in Notice, ~(Holds(s, n)' <=> Holds(s, n))
        PROVE  Outbox!Next
    <3>1. Holds(s, n) /\ ~Holds(s, n)' /\ HeldNow(n) /\ Has(s, n)
      BY <1>3, <2>3 DEF Leaves, HeldNow, Has
    <3>2. \A m \in Notice \ {n} : Place(m)' = Place(m) /\ delivered'[m] = delivered[m]
      BY <1>3, <2>1, <3>1 DEF Leaves
    <3>3. Place(n) = "held" /\ n \in claims'
      BY <1>3, <3>1, PlaceOf DEF PlacesSay, Tokens, Leaves
    <3>4. ~HeldNow(n)'
      BY <1>1, <1>2, <1>3, <3>1 DEF HeldNow, Kept, Has, Leaves, Tokens
    <3>5. ~FailedNow(n)'
      BY <1>1, <1>3, <3>1 DEF FailedNow, Has, Leaves, Sound, Tokens
    <3>6. Place(n)' = "gone"
      BY <1>2, <3>3, <3>4, <3>5, PlaceOfNext DEF PlacesSay
    <3>7. delivered'[n] = delivered[n] + 1 \/ (delivered'[n] = delivered[n] /\ kind # "nudge")
      BY <1>0, <1>3, <3>1 DEF Leaves
    <3> QED BY <1>0, <1>2, <3>2, <3>3, <3>6, <3>7, OneMoves
  <2> QED BY <2>2, <2>3
<1>4. CASE Lists(s)
  <2> DEFINE S == {n \in Notice : n[2] = "client" /\ n[1] \in batch}
  <2>1. ASSUME NEW n \in S PROVE ~HeldNow(n)'
    <3>1. Kept(n) /\ n[1] \notin nudging
      BY DEF Kept, Tokens
    <3>2. \A t \in Sweeps : ~Holds(t, n)
      BY <3>1 DEF Tokens, Has
    <3> QED BY <1>1, <1>2, <1>4, <3>1, <3>2 DEF HeldNow, Kept, Lists
  <2>2. ASSUME NEW n \in Notice \ S PROVE HeldNow(n)' <=> HeldNow(n)
    <3>1. Kept(n)' <=> Kept(n) \/ Holds(s, n)
      BY <1>2, <1>4 DEF Kept, Lists
    <3>2. ~Holds(s, n)'
      BY <1>4 DEF Lists
    <3> QED BY <1>1, <3>1, <3>2 DEF HeldNow
  <2>3. UNCHANGED <<claims, delivered>> /\ kind = "renewal"
    BY <1>4 DEF Lists
  <2> HIDE DEF S
  <2> QED BY <1>2, <2>1, <2>2, <2>3, ListLost DEF S
<1>5. ASSUME NEW n \in Notice, Takes(s, n) PROVE Outbox!Next
  <2>1. \A m \in Notice \ {n} : Place(m)' = Place(m)
    BY <1>5, <1>10 DEF Takes, Sound
  <2>2. Place(n) = "open" /\ delivered' = delivered
    BY <1>5 DEF Takes, Place
  <2>3. HeldNow(n)'
    BY <1>5 DEF Takes, HeldNow
  <2>4. Place(n)' = "held"
    BY <1>2, <2>3, PlaceOfNext DEF PlacesSay
  <2> QED BY <1>0, <1>2, <2>1, <2>2, <2>4, OneMoves
<1>6. ASSUME NEW n \in Notice, Fails(s, n) PROVE Outbox!Next
  <2>1. \A m \in Notice \ {n} : Place(m)' = Place(m) /\ delivered'[m] = delivered[m]
    BY <1>6, <1>10 DEF Fails
  <2>2. Place(n) = "held" /\ kind = "nudge"
    BY <1>6, PlaceOf DEF Fails, PlacesSay, HeldNow
  <2>3. FailedNow(n)'
    BY <1>6 DEF Fails, FailedNow
  <2>4. Place(n)' = "failed"
    BY <1>2, <2>3, PlaceOfNext DEF PlacesSay
  <2>5. delivered'[n] = delivered[n] \/ delivered'[n] = delivered[n] + 1
    BY <1>6 DEF Fails
  <2> QED BY <1>0, <1>2, <2>1, <2>2, <2>4, <2>5, OneMoves
<1>7. ASSUME NEW n \in Notice, Returns(s, n) PROVE Outbox!Next
  <2>1. \A m \in Notice \ {n} : Place(m)' = Place(m)
    BY <1>7, <1>10 DEF Returns
  <2>2. Place(n) = "failed" /\ delivered' = delivered
    BY <1>7, PlaceOf DEF Returns, PlacesSay, FailedNow
  <2>3. Place(n)' = "open"
    BY <1>7 DEF Returns, Place
  <2> QED BY <1>0, <1>2, <2>1, <2>2, <2>3, OneMoves
<1> QED BY <1>3, <1>4, <1>5, <1>6, <1>7 DEF Shaped

\* Every step is one of the outbox or leaves it alone.
LEMMA StepRefines ==
    ASSUME Types, Tokens, Types', Tokens', [Next]_vars
    PROVE  Outbox!Next \/ UNCHANGED Outbox!vars
<1> USE DEF memory, history
<1>0. kind' = kind
  BY KindStays
<1>7. delivered \in [Notice -> Nat] /\ delivered' \in [Notice -> Nat]
  BY DEF Types, StateOK
<1>1. ASSUME NEW s \in Sweeps, Step(s) \/ BeginRenewal(s) \/ \E i \in Items : Begin(s, i)
      PROVE  crashes' = crashes
  BY <1>1 DEF Step, BeginRenewal, Begin, Claim, SendSucceeds, SendFails, Release, Mark,
              Collect, Ask, Prompt
<1>2. Crash \/ crashes' = crashes
  BY <1>1 DEF Next, Advance, NudgeClient, Withdraw, LearnOwner, TapYes, BatchDropped, vars
<1>3. CASE Crash
  <2>1. \A n \in Notice : ~HeldNow(n)' /\ ~FailedNow(n)'
    BY <1>3 DEF Crash, HeldNow, Kept, Holds, Held, FailedNow, Failed, Idle
  <2>2. UNCHANGED <<claims, delivered>> /\ crashes' > 0
    BY <1>3, BoundsAssumption DEF Crash, Types, StateOK
  <2>3. \A n \in Notice : Place(n)' = IF Place(n) = "open" THEN "open" ELSE "gone"
    BY <1>0, <2>1, <2>2 DEF Place, HeldNow, FailedNow
  <2>4. Places' = [n \in Notice |-> IF Places[n] = "open" THEN "open" ELSE "gone"]
    BY <2>3 DEF Places
  <2>5. Arrivals' = Arrivals
    BY <1>0, <2>2 DEF Arrivals
  <2>6. Outbox!Crash
    BY <1>0, <2>2, <2>4, <2>5 DEF Outbox!Crash, Places, Arrivals
  <2> QED BY <2>6 DEF Outbox!Next
<1>4. SUFFICES ASSUME ~Crash, crashes' = crashes
               PROVE  Outbox!Next \/ UNCHANGED <<Places, Arrivals>>
  BY <1>0, <1>2, <1>3 DEF Outbox!vars, Places, Arrivals
<1>5. CASE kind = "cancellation"
  BY <1>0, <1>5 DEF Places, Arrivals, Place
<1>6. CASE kind # "cancellation"
  <2>1. ASSUME NEW s \in Sweeps, Step(s) \/ BeginRenewal(s) \/ \E i \in Items : Begin(s, i)
        PROVE  Outbox!Next \/ UNCHANGED <<Places, Arrivals>>
    BY <1>6, <2>1, SweepShape, SweepRefines
  <2>2. CASE LearnOwner \/ TapYes \/ UNCHANGED vars \/ \E i \in Items : Advance(i)
    <3>1. UNCHANGED <<claims, sweep, delivered>> /\ batch' \cup nudging' = batch \cup nudging
      BY <2>2 DEF LearnOwner, TapYes, Advance, vars
    <3>2. \A n \in Notice : (HeldNow(n)' <=> HeldNow(n)) /\ (FailedNow(n)' <=> FailedNow(n))
      BY <3>1 DEF HeldNow, Kept, Holds, FailedNow, Failed
    <3>3. \A n \in Notice : Place(n)' = Place(n)
      BY <1>0, <1>6, <3>1, <3>2, PlaceStays
    <3> QED BY <1>0, <3>1, <3>3 DEF Places, Arrivals
  <2>3. CASE BatchDropped
    <3> DEFINE S == {n \in Notice : n[2] = "client" /\ n[1] \in batch}
    <3>1. UNCHANGED <<claims, sweep, delivered, nudging>> /\ batch' = {} /\ kind = "renewal"
      BY <2>3 DEF BatchDropped, Types, ListsOK
    <3>2. ASSUME NEW n \in S PROVE ~HeldNow(n)'
      <4>1. Kept(n) /\ n[1] \notin nudging
        BY <1>6 DEF Kept, Tokens
      <4> QED BY <1>6, <3>1, <4>1 DEF HeldNow, Kept, Holds, Has, Tokens
    <3>3. ASSUME NEW n \in Notice \ S PROVE HeldNow(n)' <=> HeldNow(n)
      BY <3>1 DEF HeldNow, Kept, Holds
    <3> HIDE DEF S
    <3> QED BY <1>0, <1>4, <3>1, <3>2, <3>3, ListLost DEF S
  <2>4. ASSUME NEW i \in Items, NudgeClient(i) PROVE Outbox!Next
    <3> DEFINE n == <<i, "client">>
    <3>1. n \in Notice /\ Kept(n) /\ nudging' = nudging \ {i} /\ i \notin batch
      BY <1>6, <2>4 DEF NudgeClient, Notice, Kept, Tokens
    <3>2. UNCHANGED <<claims, sweep, batch>> /\ kind = "renewal"
      BY <2>4 DEF NudgeClient, Types, ListsOK
    <3>3. delivered' = delivered \/ delivered' = [delivered EXCEPT ![n] = @ + 1]
      BY <2>4 DEF NudgeClient, Deliver, Lose, Arrives
    <3>4. /\ \A m \in Notice \ {n} : delivered'[m] = delivered[m]
          /\ delivered'[n] = delivered[n] \/ delivered'[n] = delivered[n] + 1
      BY <1>7, <3>1, <3>3
    <3>5. /\ \A m \in Notice \ {n} : HeldNow(m)' <=> HeldNow(m)
          /\ \A m \in Notice : FailedNow(m)' <=> FailedNow(m)
      BY <3>1, <3>2 DEF HeldNow, Kept, Holds, FailedNow, Failed, Notice
    <3>6. n \in claims /\ ~HeldNow(n)' /\ HeldNow(n) /\ ~FailedNow(n)
      BY <1>6, <3>1, <3>2 DEF Tokens, HeldNow, Kept, Holds, FailedNow, Has
    <3> HIDE DEF n
    <3>7. \A m \in Notice \ {n} : Place(m)' = Place(m)
      BY <1>0, <1>6, <3>2, <3>5, PlaceStays
    <3>8. Place(n) = "held"
      BY <1>6, <3>1, <3>6, PlaceOf DEF PlacesSay
    <3>9. Place(n)' = "gone"
      BY <1>0, <1>6, <3>1, <3>2, <3>5, <3>6 DEF Place, HeldNow, FailedNow
    <3> QED BY <1>0, <1>4, <1>6, <1>7, <3>1, <3>2, <3>4, <3>7, <3>8, <3>9, OneMoves
  <2>5. ASSUME NEW i \in Items, Withdraw(i) PROVE Outbox!Next
    <3> DEFINE n == <<i, "owner">>
    <3>1. n \in Notice /\ n \notin claims /\ claims' = claims \cup {n} /\ kind = "nudge"
      BY <2>5 DEF Withdraw, Notice
    <3>2. UNCHANGED <<sweep, batch, nudging, delivered>>
      BY <2>5 DEF Withdraw
    <3>3. \A m \in Notice : (HeldNow(m)' <=> HeldNow(m)) /\ (FailedNow(m)' <=> FailedNow(m))
      BY <3>2 DEF HeldNow, Kept, Holds, FailedNow, Failed
    <3> HIDE DEF n
    <3>4. \A m \in Notice \ {n} : Place(m)' = Place(m)
      BY <1>0, <1>6, <3>1, <3>3, PlaceStays
    <3>5. Place(n) = "open" /\ ~HeldNow(n) /\ ~FailedNow(n)
      BY <1>6, <3>1, PlaceOf DEF PlacesSay
    <3>6. Place(n)' = "gone"
      BY <1>0, <1>6, <3>1, <3>3, <3>5 DEF Place, HeldNow, FailedNow
    <3> QED BY <1>0, <1>4, <1>6, <1>7, <3>1, <3>2, <3>4, <3>5, <3>6, OneMoves
  <2> QED BY <1>4, <2>1, <2>2, <2>3, <2>4, <2>5 DEF Next
<1> QED BY <1>5, <1>6

\* Whatever sweeps overlap, answers come late and processes restart, each
\* notice has one sender at a time, who sends it once or loses it; the hint to
\* connect a calendar is given back by a send that fails and goes for good
\* with one that succeeds, a restart or a revocation.
THEOREM OutboxImplemented == Spec => ImplementsOutbox
<1>1. Types /\ Tokens /\ Types' /\ Tokens' /\ [Next]_vars => [Outbox!Next]_(Outbox!vars)
  BY StepRefines
<1> QED BY <1>1, InitOutbox, AlwaysTypes, AlwaysTokens, PTL DEF Spec, ImplementsOutbox, Outbox!Spec
=============================================================================
