--------------------------- MODULE CalendarProofs ---------------------------
(***************************************************************************)
(* The safety of Calendar for any number of bookings, events, links and    *)
(* retries, and of sweeps and cancellations that overlap.                  *)
(*                                                                         *)
(* Sweeps hold bookings that are decided (BatchOK), and the owner's        *)
(* callback has a pending booking to itself (HandlersOK); so whoever       *)
(* leaves a booking given up knows that its retries are spent (FailedOK).  *)
(***************************************************************************)
EXTENDS Calendar, WellFoundedInduction, FiniteSetTheorems, TLAPS

\* Order of the rows of a batch.
Less == {p \in Row \X Row : p[1].b < p[2].b}

LEMMA LessPairs ==
    ASSUME NEW r \in Row, NEW s \in Row
    PROVE  /\ r.b \in Nat
           /\ <<r, s>> \in Less <=> r.b < s.b
BY DEF Less, Row, Bookings

LEMMA LessNat ==
    ASSUME NEW m \in Nat, NEW n \in Nat, m < n
    PROVE  <<m, n>> \in OpToRel(<, Nat)
<1>1. <<m, n>> \in Nat \X Nat /\ <<m, n>>[1] < <<m, n>>[2]
  OBVIOUS
<1> QED BY <1>1, Zenon DEF OpToRel

LEMMA LessWellFounded == IsWellFoundedOn(Less, Row)
<1>1. SUFFICES ASSUME NEW f \in [Nat -> Row], \A n \in Nat : <<f[n + 1], f[n]>> \in Less
               PROVE  FALSE
  BY DEF IsWellFoundedOn
<1> DEFINE g == [n \in Nat |-> f[n].b]
<1>2. g \in [Nat -> Nat]
  BY LessPairs
<1>3. ASSUME NEW n \in Nat
      PROVE  <<g[n + 1], g[n]>> \in OpToRel(<, Nat)
  <2>1. n + 1 \in Nat /\ f[n] \in Row /\ f[n + 1] \in Row
    OBVIOUS
  <2>2. g[n] = f[n].b /\ g[n + 1] = f[n + 1].b
    BY <2>1
  <2>3. g[n] \in Nat /\ g[n + 1] \in Nat /\ g[n + 1] < g[n]
    BY <1>1, <2>1, <2>2, LessPairs
  <2> HIDE DEF g
  <2> QED BY <2>3, LessNat
<1> HIDE DEF g
<1> QED BY <1>2, <1>3, NatLessThanWellFounded, Zenon DEF IsWellFoundedOn

\* A batch that is not empty has a first row.
LEMMA Least ==
    ASSUME NEW T, T \subseteq Row, T # {}
    PROVE  \E r \in T : \A s \in T : r.b <= s.b
<1>1. PICK r \in T : \A s \in T : <<s, r>> \notin Less
  BY LessWellFounded, WFMin, Zenon
<1>2. ASSUME NEW s \in T
      PROVE  r.b <= s.b
  <2>1. r \in Row /\ s \in Row /\ <<s, r>> \notin Less
    BY <1>1
  <2>2. r.b \in Nat /\ s.b \in Nat /\ ~(s.b < r.b)
    BY <2>1, LessPairs, Zenon
  <2> QED BY <2>2
<1> QED BY <1>2

-----------------------------------------------------------------------------
(* The inductive invariant *)

Decided == {"confirmed", "cancelled"}

\* The rows of a sweep are decided, and it gives up what has no retries left.
BatchOK ==
    \A s \in Sweeps : poller[s] # Idle =>
       /\ poller[s].batch # {}
       /\ \A r \in poller[s].batch : status[r.b] \in Decided
       /\ poller[s].at = "giveup" => retries[Current(s).b] = MaxRetries

\* The owner's callback has a pending booking to itself; a cancellation may
\* find its booking given up, and leaves it so.
HandlersOK ==
    /\ owner # Idle => /\ status[owner.b] = "pending"
                       /\ \A c \in Cancels : client[c].at = "commit" => client[c].b # owner.b
    /\ owner.at = "commit" => owner.sync # "failed"
    /\ \A c \in Cancels : client[c].at = "commit" /\ client[c].sync = "failed"
                             => retries[client[c].b] = MaxRetries

FailedOK ==
    \A b \in Bookings : sync[b] = "failed" => /\ retries[b] = MaxRetries
                                             /\ status[b] \in Decided

\* A link has been used only when it is gone, and then once.
LinksOK ==
    \A l \in Links : /\ exchanges[l] + connected[l] <= 1
                     /\ link[l] # "gone" => exchanges[l] = 0 /\ connected[l] = 0

IInv == TypeOK /\ BatchOK /\ HandlersOK /\ FailedOK /\ LinksOK

LEMMA CurrentRow ==
    ASSUME TypeOK, BatchOK, NEW s \in Sweeps, poller[s].at # "idle"
    PROVE  /\ poller[s] \in Job /\ poller[s] # Idle
           /\ Current(s) \in poller[s].batch /\ Current(s) \in Row /\ Current(s).b \in Bookings
           /\ status[Current(s).b] \in Decided
<1>1. poller[s] \in Job /\ poller[s] # Idle
  BY DEF TypeOK, Idle
<1>2. poller[s].batch \subseteq Row /\ poller[s].batch # {}
  BY <1>1 DEF Job, BatchOK
<1>3. Current(s) \in poller[s].batch
  BY <1>2, Least DEF Current
<1> QED BY <1>1, <1>2, <1>3 DEF Row, BatchOK

\* Owner and clients, by what they are at.
LEMMA Handlers ==
    ASSUME TypeOK
    PROVE  /\ owner # Idle => owner.b \in Bookings
           /\ owner.at = "call" => owner.tok \in Maybe(Links)
           /\ owner.at = "commit" => owner.ev \in Maybe(Events) /\ owner.sync \in Syncs
           /\ owner.at = "idle" <=> owner = Idle
           /\ \A c \in Cancels :
                 /\ client[c] # Idle => client[c].b \in Bookings
                 /\ client[c].at = "read" => client[c].ev \in Maybe(Events)
                 /\ client[c].at = "commit" => client[c].sync \in Syncs
                 /\ client[c].at = "idle" <=> client[c] = Idle
<1>1. /\ owner # Idle => owner.b \in Bookings
      /\ owner.at = "call" => owner.tok \in Maybe(Links)
      /\ owner.at = "commit" => owner.ev \in Maybe(Events) /\ owner.sync \in Syncs
      /\ owner.at = "idle" <=> owner = Idle
  BY DEF TypeOK, Idle
<1>2. ASSUME NEW c \in Cancels
      PROVE  /\ client[c] # Idle => client[c].b \in Bookings
             /\ client[c].at = "read" => client[c].ev \in Maybe(Events)
             /\ client[c].at = "commit" => client[c].sync \in Syncs
             /\ client[c].at = "idle" <=> client[c] = Idle
  <2>1. client[c] \in {Idle} \cup [at : {"read"}, b : Bookings, ev : Maybe(Events)]
                            \cup [at : {"commit"}, b : Bookings, sync : Syncs]
    BY DEF TypeOK
  <2> QED BY <2>1 DEF Idle
<1> QED BY <1>1, <1>2

-----------------------------------------------------------------------------
(* Type correctness *)

LEMMA RevocationType ==
    ASSUME TypeOK, NEW res, Revocation(res)
    PROVE  token' \in Maybe(Links) /\ notices' \in Nat
BY DEF TypeOK, Revocation, Cleared, Maybe

LEMMA PutEventType ==
    ASSUME TypeOK, NEW b \in Bookings, NEW ev, NEW tok, NEW e, NEW res, PutEvent(b, ev, tok, e, res)
    PROVE  calendar' \in [Events -> Maybe(Bookings) \cup {Unused}]
BY DEF TypeOK, PutEvent, Maybe

LEMMA RemoveEventType ==
    ASSUME TypeOK, NEW ev, NEW tok, NEW res, RemoveEvent(ev, tok, res)
    PROVE  calendar' \in [Events -> Maybe(Bookings) \cup {Unused}]
BY DEF TypeOK, RemoveEvent, Maybe

LEMMA SyncAfterType ==
    ASSUME TypeOK, NEW b \in Bookings, NEW res
    PROVE  /\ SyncAfter(b, res) \in Syncs
           /\ SyncAfter(b, res) = "failed" => sync[b] = "failed"
BY DEF TypeOK, SyncAfter, Syncs

\* A sweep goes on with its batch, or without the row it took.
LEMMA GoesOn ==
    ASSUME TypeOK, NEW s \in Sweeps, poller[s] \in Job,
           NEW at \in {"row", "store", "ok", "lost", "revoked", "revoke", "check", "count", "giveup"},
           Goes(s, at)
    PROVE  /\ poller' \in [Sweeps -> {Idle} \cup Job]
           /\ \A t \in Sweeps : t # s => poller'[t] = poller[t]
           /\ poller'[s].batch = poller[s].batch /\ poller'[s].at = at /\ poller'[s] # Idle
<1>1. poller' = [poller EXCEPT ![s] = [poller[s] EXCEPT !.at = at, !.ev = None]]
  BY DEF Goes, TypeOK
<1>2. [poller[s] EXCEPT !.at = at, !.ev = None] \in Job
  BY DEF Job, Maybe
<1> QED BY <1>1, <1>2 DEF TypeOK, Job, Idle

LEMMA RowDone ==
    ASSUME TypeOK, NEW s \in Sweeps, poller[s] \in Job, NextRow(s)
    PROVE  /\ poller' \in [Sweeps -> {Idle} \cup Job]
           /\ \A t \in Sweeps : t # s => poller'[t] = poller[t]
           /\ \/ poller'[s] = Idle
              \/ /\ poller'[s].batch = poller[s].batch \ {Current(s)}
                 /\ poller'[s].batch # {} /\ poller'[s].at = "row" /\ poller'[s] # Idle
<1> DEFINE rest == poller[s].batch \ {Current(s)}
<1>1. poller' = [poller EXCEPT ![s] = IF rest = {} THEN Idle
                                      ELSE [poller[s] EXCEPT !.at = "row", !.batch = rest]]
  BY DEF NextRow, TypeOK
<1>2. [poller[s] EXCEPT !.at = "row", !.batch = rest] \in Job
  BY DEF Job
<1> HIDE DEF rest
<1>3. /\ [poller[s] EXCEPT !.at = "row", !.batch = rest].at = "row"
      /\ [poller[s] EXCEPT !.at = "row", !.batch = rest].batch = rest
  BY DEF Job
<1>4. \A t \in Sweeps : t # s => poller'[t] = poller[t]
  BY <1>1 DEF TypeOK
<1>5. poller'[s] = IF rest = {} THEN Idle
                   ELSE [poller[s] EXCEPT !.at = "row", !.batch = rest]
  BY <1>1 DEF TypeOK
<1>6. poller' \in [Sweeps -> {Idle} \cup Job]
  BY <1>1, <1>2 DEF TypeOK
<1>7. CASE rest = {}
  BY <1>4, <1>5, <1>6, <1>7
<1>8. CASE rest # {}
  BY <1>3, <1>4, <1>5, <1>6, <1>8 DEF Idle, rest
<1> QED BY <1>7, <1>8

\* What a step of a sweep does to the sweeps: the others stay, and no row
\* comes to its batch.
Onward(s) ==
    /\ poller' \in [Sweeps -> {Idle} \cup Job]
    /\ \A t \in Sweeps : t # s => poller'[t] = poller[t]
    /\ poller'[s] # Idle => /\ poller[s] # Idle
                            /\ poller'[s].batch # {} /\ poller'[s].batch \subseteq poller[s].batch
                            /\ poller'[s].at = "giveup" => poller'[s].batch = poller[s].batch

LEMMA PollingSteps ==
    ASSUME TypeOK, BatchOK, NEW s \in Sweeps, Polling(s)
    PROVE  Onward(s) /\ (poller'[s].at = "giveup" => PollCount(s))
<1>1. poller[s].at # "idle"
  BY DEF Polling, PollCall, PollStore, PollDone, PollPending, PollRevoke, PollCheck, PollCount, PollGivesUp
<1>2. poller[s] \in Job /\ poller[s] # Idle /\ poller[s].batch # {}
  BY <1>1, CurrentRow DEF BatchOK
<1>3. CASE PollCall(s)
  <2>1. PICK e \in Maybe(Events), res \in Results :
           /\ IF Current(s).confirmed THEN PutEvent(Current(s).b, Current(s).ev, poller[s].tok, e, res)
                                      ELSE e = None /\ RemoveEvent(Current(s).ev, poller[s].tok, res)
           /\ IF res = "ok" /\ e \notin {None, Current(s).ev}
                 THEN poller' = [poller EXCEPT ![s].at = "store", ![s].ev = e]
                 ELSE Goes(s, res)
    BY <1>3 DEF PollCall
  <2>2. poller[s].tok # None
    BY <1>2, NamesAssumption DEF Job
  <2>3. res # "skip"
    BY <2>1, <2>2 DEF PutEvent, RemoveEvent
  <2>4. CASE Goes(s, res)
    BY <1>2, <2>3, <2>4, GoesOn DEF Onward, Results
  <2>5. CASE poller' = [poller EXCEPT ![s].at = "store", ![s].ev = e]
    <3>1. poller' = [poller EXCEPT ![s] = [poller[s] EXCEPT !.at = "store", !.ev = e]]
      BY <2>5 DEF TypeOK
    <3>2. [poller[s] EXCEPT !.at = "store", !.ev = e] \in Job
      BY <1>2 DEF Job
    <3>3. /\ [poller[s] EXCEPT !.at = "store", !.ev = e].at = "store"
          /\ [poller[s] EXCEPT !.at = "store", !.ev = e].batch = poller[s].batch
      BY <1>2 DEF Job
    <3> QED BY <1>2, <3>1, <3>2, <3>3 DEF TypeOK, Onward
  <2> QED BY <2>1, <2>4, <2>5
<1>4. CASE PollStore(s) \/ PollPending(s) \/ PollRevoke(s)
  <2>1. PICK at \in {"ok", "check", "revoke"} : Goes(s, at)
    BY <1>4 DEF PollStore, PollPending, PollRevoke
  <2> QED BY <1>2, <2>1, GoesOn DEF Onward
<1>5. CASE PollDone(s) \/ PollGivesUp(s)
  BY <1>2, <1>5, RowDone DEF PollDone, PollGivesUp, Onward, Idle
<1>6. CASE PollCheck(s)
  <2>1. CASE Goes(s, "count")
    BY <1>2, <2>1, GoesOn DEF Onward
  <2>2. CASE poller' = [poller EXCEPT ![s] = Idle]
    BY <2>2 DEF TypeOK, Onward, Idle
  <2> QED BY <1>6, <2>1, <2>2 DEF PollCheck
<1>7. CASE PollCount(s)
  <2>1. CASE Goes(s, "giveup")
    BY <1>2, <1>7, <2>1, GoesOn DEF Onward
  <2>2. CASE NextRow(s)
    BY <1>2, <1>7, <2>2, RowDone DEF Onward
  <2> QED BY <1>7, <2>1, <2>2 DEF PollCount
<1> QED BY <1>3, <1>4, <1>5, <1>6, <1>7 DEF Polling

LEMMA TypeInit == Init => TypeOK
<1> SUFFICES ASSUME Init PROVE TypeOK
  OBVIOUS
<1>1. token \in Maybe(Links) /\ good \subseteq Links
  BY DEF Init, Maybe
<1>2. /\ link \in [Links -> {"unissued", "issued", "gone"}]
      /\ connected \in [Links -> {0, 1}]
  BY DEF Init
<1> QED BY <1>1, <1>2, NumbersAssumption DEF Init, TypeOK, Maybe, Syncs

LEMMA TypeStep == IInv /\ [Next]_vars => TypeOK'
<1> SUFFICES ASSUME IInv, [Next]_vars PROVE TypeOK'
  OBVIOUS
<1> USE DEF IInv
<1>1. ASSUME NEW b \in Bookings, Approve(b) PROVE TypeOK'
  BY <1>1 DEF Approve, TypeOK, rows, oauth
<1>2. ASSUME NEW b \in Bookings, Refuse(b) PROVE TypeOK'
  BY <1>2 DEF Refuse, TypeOK, rows, oauth
<1>3. ASSUME NEW c \in Cancels, NEW b \in Bookings, Cancel(c, b) PROVE TypeOK'
  BY <1>3 DEF Cancel, TypeOK, rows, oauth
<1>4. ASSUME ApproveCall PROVE TypeOK'
  <2>1. owner.b \in Bookings
    BY <1>4, Handlers DEF ApproveCall, Idle
  <2>2. PICK e \in Maybe(Events), res \in Results :
           /\ PutEvent(owner.b, event[owner.b], owner.tok, e, res)
           /\ Revocation(res)
           /\ owner' = [at |-> "commit", b |-> owner.b, ev |-> Inserted(owner.b, res, e),
                        sync |-> SyncAfter(owner.b, res)]
    BY <1>4 DEF ApproveCall
  <2>3. calendar' \in [Events -> Maybe(Bookings) \cup {Unused}]
    BY <2>1, <2>2, PutEventType
  <2>4. token' \in Maybe(Links) /\ notices' \in Nat
    BY <2>2, RevocationType
  <2>5. Inserted(owner.b, res, e) \in Maybe(Events) /\ SyncAfter(owner.b, res) \in Syncs
    BY <2>1, SyncAfterType DEF Inserted, TypeOK
  <2> QED BY <1>4, <2>1, <2>2, <2>3, <2>4, <2>5 DEF ApproveCall, TypeOK, rows, oauth
<1>5. ASSUME ApproveCommit PROVE TypeOK'
  <2>1. owner.b \in Bookings /\ owner.ev \in Maybe(Events) /\ owner.sync \in Syncs
    BY <1>5, Handlers DEF ApproveCommit, Idle
  <2> QED BY <1>5, <2>1 DEF ApproveCommit, TypeOK, oauth
<1>6. ASSUME ApproveRollsBack PROVE TypeOK'
  BY <1>6 DEF ApproveRollsBack, TypeOK, rows, oauth
<1>7. ASSUME NEW c \in Cancels, CancelCall(c) PROVE TypeOK'
  <2>1. client[c].b \in Bookings
    BY <1>7, Handlers DEF CancelCall, Idle
  <2>2. PICK res \in Results :
           /\ RemoveEvent(client[c].ev, token, res)
           /\ Revocation(res)
           /\ client' = [client EXCEPT ![c] = [at |-> "commit", b |-> client[c].b,
                                               sync |-> SyncAfter(client[c].b, res)]]
    BY <1>7 DEF CancelCall
  <2>3. calendar' \in [Events -> Maybe(Bookings) \cup {Unused}]
    BY <2>2, RemoveEventType
  <2>4. token' \in Maybe(Links) /\ notices' \in Nat
    BY <2>2, RevocationType
  <2>5. SyncAfter(client[c].b, res) \in Syncs
    BY <2>1, SyncAfterType
  <2> QED BY <1>7, <2>1, <2>2, <2>3, <2>4, <2>5 DEF CancelCall, TypeOK, rows, oauth
<1>8. ASSUME NEW c \in Cancels, CancelCommit(c) PROVE TypeOK'
  <2>1. client[c].b \in Bookings /\ client[c].sync \in Syncs
    BY <1>8, Handlers DEF CancelCommit, Idle
  <2> QED BY <1>8, <2>1 DEF CancelCommit, TypeOK, oauth
<1>9. ASSUME NEW c \in Cancels, CancelRollsBack(c) PROVE TypeOK'
  BY <1>9 DEF CancelRollsBack, TypeOK, rows, oauth
<1>10. ASSUME NEW s \in Sweeps, Sweep(s) PROVE TypeOK'
  <2> DEFINE batch == {[b |-> b, confirmed |-> status[b] = "confirmed", ev |-> event[b]] : b \in Batch}
  <2>1. batch \in SUBSET Row
    <3>1. ASSUME NEW b \in Batch
          PROVE  [b |-> b, confirmed |-> status[b] = "confirmed", ev |-> event[b]] \in Row
      <4>1. b \in Bookings /\ event[b] \in Maybe(Events) /\ (status[b] = "confirmed") \in BOOLEAN
        BY DEF Batch, Candidates, TypeOK
      <4> QED BY <4>1 DEF Row
    <3> QED BY <3>1
  <2>2. token \in Links
    BY <1>10 DEF Sweep, TypeOK, Maybe
  <2>3. poller' = [poller EXCEPT ![s] = [at |-> "row", tok |-> token, ev |-> None, batch |-> batch]]
    BY <1>10 DEF Sweep
  <2> HIDE DEF batch
  <2>4. [at |-> "row", tok |-> token, ev |-> None, batch |-> batch] \in Job
    BY <2>1, <2>2 DEF Job, Maybe
  <2>5. poller' \in [Sweeps -> {Idle} \cup Job]
    BY <2>3, <2>4 DEF TypeOK
  <2>6. UNCHANGED <<rows, calendar, token, oauth, notices, owner, client>>
    BY <1>10 DEF Sweep
  <2> QED BY <2>5, <2>6 DEF TypeOK, rows, oauth
<1>11. ASSUME NEW s \in Sweeps, Polling(s) PROVE TypeOK'
  <2>1. poller' \in [Sweeps -> {Idle} \cup Job]
    BY <1>11, PollingSteps DEF Onward
  <2>2. poller[s].at # "idle"
    BY <1>11 DEF Polling, PollCall, PollStore, PollDone, PollPending, PollRevoke, PollCheck, PollCount, PollGivesUp
  <2>3. poller[s] \in Job /\ Current(s).b \in Bookings
    BY <2>2, CurrentRow
  <2>4. CASE PollCall(s)
    <3>1. calendar' \in [Events -> Maybe(Bookings) \cup {Unused}]
      BY <2>3, <2>4, PutEventType, RemoveEventType DEF PollCall
    <3> QED BY <2>1, <2>4, <3>1 DEF PollCall, TypeOK, rows, oauth
  <2>5. CASE PollStore(s)
    <3>1. poller[s].ev \in Maybe(Events)
      BY <2>3 DEF Job
    <3> QED BY <2>1, <2>3, <2>5, <3>1 DEF PollStore, TypeOK, oauth
  <2>6. CASE PollDone(s) \/ PollPending(s) \/ PollGivesUp(s)
    BY <2>1, <2>3, <2>6 DEF PollDone, PollPending, PollGivesUp, TypeOK, oauth, Syncs
  <2>7. CASE PollRevoke(s)
    <3>1. token' \in Maybe(Links) /\ notices' \in Nat
      BY <2>7, RevocationType DEF PollRevoke
    <3> QED BY <2>1, <2>7, <3>1 DEF PollRevoke, TypeOK, rows, oauth
  <2>8. CASE PollCheck(s)
    BY <2>1, <2>8 DEF PollCheck, TypeOK, rows, oauth
  <2>9. CASE PollCount(s)
    <3>1. retries[Current(s).b] \in 0..MaxRetries
      BY <2>3 DEF TypeOK
    <3>2. Counted(retries[Current(s).b]) \in 0..MaxRetries
      BY <3>1, NumbersAssumption DEF Counted
    <3>3. retries' \in [Bookings -> 0..MaxRetries]
      BY <2>9, <3>2 DEF PollCount, TypeOK
    <3> QED BY <2>1, <2>9, <3>3 DEF PollCount, TypeOK, oauth
  <2> QED BY <1>11, <2>4, <2>5, <2>6, <2>7, <2>8, <2>9 DEF Polling
<1>15. ASSUME NEW l \in Links, Connect(l) PROVE TypeOK'
  BY <1>15 DEF Connect, TypeOK, rows
<1>16. ASSUME NEW l \in Links, Callback(l) PROVE TypeOK'
  <2>1. exchanges[l] = 0
    BY <1>16 DEF Callback, LinksOK
  <2>2. exchanges' \in [Links -> {0, 1}] /\ link' \in [Links -> {"unissued", "issued", "gone"}]
    BY <1>16, <2>1 DEF Callback, TypeOK, Consumed
  <2> QED BY <1>16, <2>2 DEF Callback, TypeOK, rows
<1>17. ASSUME NEW l \in Links, Exchange(l) PROVE TypeOK'
  <2>1. exchanges[l] = 1 /\ connected[l] = 0
    BY <1>17 DEF Exchange, LinksOK, TypeOK
  <2>2. exchanges' \in [Links -> {0, 1}]
    BY <1>17, <2>1 DEF Exchange, TypeOK
  <2>3. connected' \in [Links -> {0, 1}]
    BY <1>17, <2>1 DEF Exchange, TypeOK
  <2>4. token' \in Maybe(Links) /\ good' \subseteq Links
    BY <1>17 DEF Exchange, TypeOK, Maybe
  <2> QED BY <1>17, <2>2, <2>3, <2>4 DEF Exchange, TypeOK, rows
<1>18. ASSUME Disconnect PROVE TypeOK'
  BY <1>18 DEF Disconnect, TypeOK, rows, Maybe
<1>19. ASSUME Revoke PROVE TypeOK'
  BY <1>19 DEF Revoke, TypeOK, rows
<1>20. ASSUME Crash PROVE TypeOK'
  BY <1>20 DEF Crash, TypeOK, rows
<1>21. ASSUME NEW e \in Events, RemoveByHand(e) PROVE TypeOK'
  BY <1>21 DEF RemoveByHand, TypeOK, rows, oauth, Maybe
<1>22. CASE UNCHANGED vars
  BY <1>22 DEF vars, rows, oauth, TypeOK
<1> QED
  BY <1>1, <1>2, <1>3, <1>4, <1>5, <1>6, <1>7, <1>8, <1>9, <1>10, <1>11, <1>15, <1>16, <1>17,
     <1>18, <1>19, <1>20, <1>21, <1>22
  DEF Next, Approving, Canceling

-----------------------------------------------------------------------------
(* The other parts *)

\* Actions by what they change.
LEMMA Steps ==
    ASSUME IInv, [Next]_vars
    PROVE  \/ \E b \in Bookings : Approve(b) \/ Refuse(b)
           \/ \E b \in Bookings, c \in Cancels : Cancel(c, b)
           \/ ApproveCall \/ ApproveCommit \/ ApproveRollsBack
           \/ \E c \in Cancels : CancelCall(c) \/ CancelCommit(c) \/ CancelRollsBack(c)
           \/ \E s \in Sweeps : Sweep(s)
           \/ \E s \in Sweeps : Polling(s)
           \/ Crash
           \/ UNCHANGED <<rows, owner, client, poller>>
BY DEF Next, Approving, Canceling, Connect, Callback, Exchange, Disconnect, Revoke,
       RemoveByHand, vars

\* What a sweep does to the rows, one booking at a time.
LEMMA PollingRows ==
    ASSUME IInv, NEW s \in Sweeps, Polling(s)
    PROVE  /\ UNCHANGED <<status, owner, client>>
           /\ Current(s).b \in Bookings /\ Current(s) \in poller[s].batch /\ poller[s] # Idle
           /\ status[Current(s).b] \in Decided
           /\ \A b \in Bookings : /\ retries[b] = MaxRetries => retries'[b] = MaxRetries
                                  /\ b # Current(s).b => sync'[b] = sync[b]
                                  /\ sync'[b] = "failed" => \/ sync[b] = "failed"
                                                            \/ b = Current(s).b /\ poller[s].at = "giveup"
<1> USE DEF IInv
<1>1. poller[s].at # "idle"
  BY DEF Polling, PollCall, PollStore, PollDone, PollPending, PollRevoke, PollCheck, PollCount, PollGivesUp
<1>2. /\ Current(s).b \in Bookings /\ Current(s) \in poller[s].batch /\ poller[s] # Idle
      /\ status[Current(s).b] \in Decided
  BY <1>1, CurrentRow
<1>3. CASE PollCall(s) \/ PollStore(s) \/ PollRevoke(s) \/ PollCheck(s)
  BY <1>2, <1>3 DEF PollCall, PollStore, PollRevoke, PollCheck, rows
<1>4. CASE PollDone(s) \/ PollPending(s) \/ PollGivesUp(s)
  BY <1>2, <1>4 DEF PollDone, PollPending, PollGivesUp, TypeOK
<1>5. CASE PollCount(s)
  <2>1. Counted(MaxRetries) = MaxRetries
    BY NumbersAssumption DEF Counted
  <2> QED BY <1>2, <1>5, <2>1 DEF PollCount, TypeOK
<1> QED BY <1>2, <1>3, <1>4, <1>5 DEF Polling

\* A booking whose retries are spent stays so, and a decided one decided.
LEMMA Spent ==
    ASSUME IInv, [Next]_vars, NEW b \in Bookings
    PROVE  /\ retries[b] = MaxRetries => retries'[b] = MaxRetries
           /\ status[b] \in Decided => status'[b] \in Decided
<1> USE DEF IInv
<1>1. CASE ApproveCommit
  <2>1. owner.b \in Bookings /\ status[owner.b] = "pending"
    BY <1>1, Handlers DEF ApproveCommit, HandlersOK, Idle
  <2> QED BY <1>1, <2>1 DEF ApproveCommit, TypeOK, Decided
<1>2. ASSUME NEW c \in Bookings, Refuse(c)
      PROVE  /\ retries[b] = MaxRetries => retries'[b] = MaxRetries
             /\ status[b] \in Decided => status'[b] \in Decided
  BY <1>2 DEF Refuse, TypeOK, Decided
<1>3. ASSUME NEW c \in Cancels, CancelCommit(c)
      PROVE  /\ retries[b] = MaxRetries => retries'[b] = MaxRetries
             /\ status[b] \in Decided => status'[b] \in Decided
  BY <1>3 DEF CancelCommit, TypeOK, Decided
<1>4. ASSUME NEW s \in Sweeps, Polling(s)
      PROVE  /\ retries[b] = MaxRetries => retries'[b] = MaxRetries
             /\ status[b] \in Decided => status'[b] \in Decided
  BY <1>4, PollingRows
<1>5. CASE UNCHANGED <<status, retries>>
  BY <1>5
<1>6. (\E c \in Bookings : Approve(c)) => UNCHANGED <<status, retries>>
  BY DEF Approve, rows
<1>7. (\E s \in Sweeps : Sweep(s)) => UNCHANGED <<status, retries>>
  BY DEF Sweep, rows
<1>8. (\E c \in Cancels : CancelCall(c) \/ CancelRollsBack(c)) => UNCHANGED <<status, retries>>
  BY DEF CancelCall, CancelRollsBack, rows
<1>9. ApproveCall \/ ApproveRollsBack \/ Crash => UNCHANGED <<status, retries>>
  BY DEF ApproveCall, ApproveRollsBack, Crash, rows
<1>10. (\E d \in Bookings, c \in Cancels : Cancel(c, d)) => UNCHANGED <<status, retries>>
  BY DEF Cancel, rows
<1>11. UNCHANGED rows => UNCHANGED <<status, retries>>
  BY DEF rows
<1> QED BY <1>1, <1>2, <1>3, <1>4, <1>5, <1>6, <1>7, <1>8, <1>9, <1>10, <1>11, Steps

\* Sweeps are changed by themselves, and by a crash.
LEMMA SweepsStand ==
    ASSUME IInv, [Next]_vars
    PROVE  \/ \E s \in Sweeps : Sweep(s)
           \/ \E s \in Sweeps : Polling(s)
           \/ poller' = [s \in Sweeps |-> Idle]
           \/ UNCHANGED poller
BY Steps DEF Approve, Refuse, Cancel, ApproveCall, ApproveCommit, ApproveRollsBack,
             CancelCall, CancelCommit, CancelRollsBack, Crash

\* What a new sweep reads.
LEMMA SweepRows ==
    ASSUME IInv, NEW s \in Sweeps, Sweep(s)
    PROVE  /\ \A t \in Sweeps : t # s => poller'[t] = poller[t]
           /\ poller[s] = Idle /\ poller'[s].at = "row" /\ poller'[s].batch # {}
           /\ \A r \in poller'[s].batch : /\ r.b \in Bookings /\ sync[r.b] = "pending"
                                          /\ status[r.b] \in Decided
           /\ UNCHANGED rows
<1> DEFINE batch == {[b |-> b, confirmed |-> status[b] = "confirmed", ev |-> event[b]] : b \in Batch}
<1>1. /\ batch # {} /\ poller[s] = Idle
      /\ poller' = [poller EXCEPT ![s] = [at |-> "row", tok |-> token, ev |-> None, batch |-> batch]]
      /\ UNCHANGED rows
  BY DEF Sweep
<1>2. \A r \in batch : r.b \in Bookings /\ sync[r.b] = "pending" /\ status[r.b] \in Decided
  <2>1. \A b \in Batch : b \in Bookings /\ sync[b] = "pending" /\ status[b] \in Decided
    BY DEF Batch, Candidates, NeedsSync, Decided
  <2>2. \A r \in batch : r.b \in Batch
    OBVIOUS
  <2> QED BY <2>1, <2>2
<1> HIDE DEF batch
<1>3. /\ poller'[s] = [at |-> "row", tok |-> token, ev |-> None, batch |-> batch]
      /\ \A t \in Sweeps : t # s => poller'[t] = poller[t]
  BY <1>1 DEF IInv, TypeOK
<1> QED BY <1>1, <1>2, <1>3

LEMMA BatchStep == IInv /\ [Next]_vars => BatchOK'
<1> SUFFICES ASSUME IInv, [Next]_vars, NEW t \in Sweeps, poller'[t] # Idle
             PROVE  /\ poller'[t].batch # {}
                    /\ \A r \in poller'[t].batch : status'[r.b] \in Decided
                    /\ poller'[t].at = "giveup" => retries'[Current(t)'.b] = MaxRetries
  BY DEF BatchOK
<1> USE DEF IInv
<1>1. ASSUME poller'[t] = poller[t]
      PROVE  /\ poller'[t].batch # {}
             /\ \A r \in poller'[t].batch : status'[r.b] \in Decided
             /\ poller'[t].at = "giveup" => retries'[Current(t)'.b] = MaxRetries
  <2>1. poller[t] # Idle /\ poller[t].at # "idle" /\ poller[t].batch \subseteq Row
    BY <1>1 DEF TypeOK, Job, Idle
  <2>2. Current(t)' = Current(t) /\ Current(t).b \in Bookings
    BY <1>1, <2>1, CurrentRow DEF Current
  <2>3. \A r \in poller[t].batch : r.b \in Bookings
    BY <2>1 DEF Row
  <2> QED BY <1>1, <2>1, <2>2, <2>3, Spent DEF BatchOK
<1>2. ASSUME NEW s \in Sweeps, Sweep(s)
      PROVE  /\ poller'[t].batch # {}
             /\ \A r \in poller'[t].batch : status'[r.b] \in Decided
             /\ poller'[t].at = "giveup" => retries'[Current(t)'.b] = MaxRetries
  BY <1>1, <1>2, SweepRows, Spent
<1>3. ASSUME NEW s \in Sweeps, Polling(s)
      PROVE  /\ poller'[t].batch # {}
             /\ \A r \in poller'[t].batch : status'[r.b] \in Decided
             /\ poller'[t].at = "giveup" => retries'[Current(t)'.b] = MaxRetries
  <2>1. CASE t = s
    <3>1. /\ poller[s] # Idle /\ poller'[s].batch # {} /\ poller'[s].batch \subseteq poller[s].batch
          /\ poller'[s].at = "giveup" => poller'[s].batch = poller[s].batch /\ PollCount(s)
      BY <1>3, <2>1, PollingSteps DEF Onward
    <3>2. \A r \in poller'[s].batch : r.b \in Bookings /\ status[r.b] \in Decided
      BY <3>1 DEF BatchOK, TypeOK, Job, Row
    <3>3. ASSUME poller'[s].at = "giveup"
          PROVE  retries'[Current(s)'.b] = MaxRetries
      <4>1. Current(s)' = Current(s) /\ Current(s).b \in Bookings
        BY <1>3, <3>1, <3>3, PollingRows DEF Current
      <4>2. retries'[Current(s).b] \in Nat /\ retries'[Current(s).b] <= MaxRetries
        BY <4>1, TypeStep, NumbersAssumption DEF TypeOK
      <4>3. CASE Exhausted(retries'[Current(s).b])
        BY <4>1, <4>2, <4>3, NumbersAssumption DEF Exhausted
      <4>4. CASE NextRow(s)
        BY <1>3, <3>3, <4>4, PollingRows, RowDone DEF TypeOK, Idle
      <4> QED BY <3>1, <3>3, <4>3, <4>4 DEF PollCount
    <3> QED BY <2>1, <3>1, <3>2, <3>3, Spent
  <2>2. CASE t # s
    <3>1. poller'[t] = poller[t]
      BY <1>3, <2>2, PollingSteps DEF Onward
    <3> QED BY <1>1, <3>1
  <2> QED BY <2>1, <2>2
<1>4. CASE poller' = [s \in Sweeps |-> Idle]
  BY <1>4
<1>5. CASE UNCHANGED poller
  BY <1>1, <1>5
<1> QED BY <1>2, <1>3, <1>4, <1>5, SweepsStand

LEMMA HandlersStep == IInv /\ [Next]_vars => HandlersOK'
<1> SUFFICES ASSUME IInv, [Next]_vars PROVE HandlersOK'
  OBVIOUS
<1> USE DEF IInv
<1>1. ASSUME NEW b \in Bookings, Approve(b) PROVE HandlersOK'
  BY <1>1 DEF Approve, HandlersOK, Locked, rows, Idle
<1>2. ASSUME NEW b \in Bookings, Refuse(b) PROVE HandlersOK'
  <2>1. owner # Idle => owner.b \in Bookings /\ owner.b # b
    BY <1>2, Handlers DEF Refuse, Locked
  <2> QED BY <1>2, <2>1, Handlers DEF Refuse, HandlersOK, TypeOK
<1>3. ASSUME NEW c \in Cancels, NEW b \in Bookings, Cancel(c, b) PROVE HandlersOK'
  <2>1. \A d \in Cancels : client'[d].at = "commit" => client'[d] = client[d]
    BY <1>3 DEF Cancel, TypeOK
  <2> QED BY <1>3, <2>1 DEF Cancel, HandlersOK, rows
<1>4. CASE ApproveCall
  <2>1. PICK e \in Maybe(Events), res \in Results :
           owner' = [at |-> "commit", b |-> owner.b, ev |-> Inserted(owner.b, res, e),
                     sync |-> SyncAfter(owner.b, res)]
    BY <1>4 DEF ApproveCall
  <2>2. owner # Idle /\ owner.b \in Bookings /\ status[owner.b] = "pending"
    BY <1>4, Handlers DEF ApproveCall, HandlersOK, Idle
  <2>3. SyncAfter(owner.b, res) # "failed"
    BY <2>2, SyncAfterType DEF FailedOK, Decided
  <2> QED BY <1>4, <2>1, <2>2, <2>3 DEF ApproveCall, HandlersOK, rows
<1>5. CASE ApproveCommit
  BY <1>5, Handlers DEF ApproveCommit, HandlersOK, TypeOK, Idle
<1>6. ASSUME NEW c \in Cancels, CancelCall(c) PROVE HandlersOK'
  <2>1. client[c].b \in Bookings /\ client[c].at = "read" /\ ~Locked(client[c].b)
    BY <1>6, Handlers DEF CancelCall, Idle
  <2>2. PICK res \in Results :
           client' = [client EXCEPT ![c] = [at |-> "commit", b |-> client[c].b,
                                            sync |-> SyncAfter(client[c].b, res)]]
    BY <1>6 DEF CancelCall
  <2>3. SyncAfter(client[c].b, res) = "failed" => retries[client[c].b] = MaxRetries
    BY <2>1, SyncAfterType DEF FailedOK
  <2>4. \A d \in Cancels : d # c => client'[d] = client[d]
    BY <2>2 DEF TypeOK
  <2>5. client'[c].b = client[c].b /\ client'[c].sync = SyncAfter(client[c].b, res)
    BY <2>2 DEF TypeOK
  <2>6. owner # Idle => owner.b # client[c].b
    BY <2>1 DEF Locked
  <2> QED BY <1>6, <2>3, <2>4, <2>5, <2>6 DEF CancelCall, HandlersOK, rows
<1>7. ASSUME NEW c \in Cancels, CancelCommit(c) PROVE HandlersOK'
  <2>1. client[c].b \in Bookings /\ (owner # Idle => owner.b # client[c].b)
    BY <1>7, Handlers DEF CancelCommit, HandlersOK, Idle
  <2>2. \A d \in Cancels : client'[d].at = "commit" => client'[d] = client[d]
    BY <1>7 DEF CancelCommit, TypeOK, Idle
  <2>3. owner # Idle => status'[owner.b] = status[owner.b]
    BY <1>7, <2>1 DEF CancelCommit, TypeOK
  <2> QED BY <1>7, <2>2, <2>3 DEF CancelCommit, HandlersOK
<1>8. ASSUME NEW c \in Cancels, CancelRollsBack(c) PROVE HandlersOK'
  <2>1. \A d \in Cancels : client'[d].at = "commit" => client'[d] = client[d]
    BY <1>8 DEF CancelRollsBack, TypeOK, Idle
  <2> QED BY <1>8, <2>1 DEF CancelRollsBack, HandlersOK, rows
<1>9. CASE ApproveRollsBack \/ Crash
  BY <1>9 DEF ApproveRollsBack, Crash, HandlersOK, rows, Idle
<1>10. ASSUME NEW s \in Sweeps, Polling(s) PROVE HandlersOK'
  BY <1>10, PollingRows, Handlers DEF HandlersOK, Idle
<1>11. ASSUME NEW s \in Sweeps, Sweep(s) PROVE HandlersOK'
  BY <1>11 DEF Sweep, HandlersOK, rows
<1>12. CASE UNCHANGED <<rows, owner, client, poller>>
  BY <1>12 DEF HandlersOK, rows
<1> QED BY <1>1, <1>2, <1>3, <1>4, <1>5, <1>6, <1>7, <1>8, <1>9, <1>10, <1>11, <1>12, Steps

LEMMA FailedStep == IInv /\ [Next]_vars => FailedOK'
<1> SUFFICES ASSUME IInv, [Next]_vars, NEW b \in Bookings, sync'[b] = "failed"
             PROVE  retries[b] = MaxRetries /\ status'[b] \in Decided
  BY Spent DEF FailedOK
<1> USE DEF IInv
<1>1. ASSUME sync[b] = "failed"
      PROVE  retries[b] = MaxRetries /\ status'[b] \in Decided
  BY <1>1, Spent DEF FailedOK
<1>2. CASE ApproveCommit
  <2>1. owner.sync # "failed" /\ owner.b \in Bookings
    BY <1>2, Handlers DEF ApproveCommit, HandlersOK, Idle
  <2>2. sync'[b] = "failed" => sync[b] = "failed"
    BY <1>2, <2>1 DEF ApproveCommit, TypeOK
  <2> QED BY <1>1, <2>2
<1>3. ASSUME NEW c \in Cancels, CancelCommit(c)
      PROVE  retries[b] = MaxRetries /\ status'[b] \in Decided
  <2>1. CASE b = client[c].b
    BY <1>3, <2>1 DEF CancelCommit, TypeOK, HandlersOK, Decided
  <2>2. CASE b # client[c].b
    <3>1. sync'[b] = sync[b]
      BY <1>3, <2>2 DEF CancelCommit, TypeOK
    <3> QED BY <1>1, <3>1
  <2> QED BY <2>1, <2>2
<1>4. ASSUME NEW s \in Sweeps, Polling(s)
      PROVE  retries[b] = MaxRetries /\ status'[b] \in Decided
  <2>1. CASE b = Current(s).b /\ poller[s].at = "giveup"
    BY <1>4, <2>1, PollingRows DEF BatchOK
  <2> QED BY <1>1, <1>4, <2>1, PollingRows
<1>5. CASE UNCHANGED sync
  BY <1>1, <1>5
<1>6. (\E c \in Bookings : Approve(c) \/ Refuse(c)) => UNCHANGED sync
  BY DEF Approve, Refuse, rows
<1>7. (\E s \in Sweeps : Sweep(s)) => UNCHANGED sync
  BY DEF Sweep, rows
<1>8. (\E c \in Cancels : CancelCall(c) \/ CancelRollsBack(c)) => UNCHANGED sync
  BY DEF CancelCall, CancelRollsBack, rows
<1>9. ApproveCall \/ ApproveRollsBack \/ Crash => UNCHANGED sync
  BY DEF ApproveCall, ApproveRollsBack, Crash, rows
<1>10. (\E d \in Bookings, c \in Cancels : Cancel(c, d)) => UNCHANGED sync
  BY DEF Cancel, rows
<1>11. UNCHANGED rows => UNCHANGED sync
  BY DEF rows
<1> QED BY <1>2, <1>3, <1>4, <1>5, <1>6, <1>7, <1>8, <1>9, <1>10, <1>11, Steps

LEMMA LinksStep == IInv /\ [Next]_vars => LinksOK'
<1> SUFFICES ASSUME IInv, [Next]_vars PROVE LinksOK'
  OBVIOUS
<1> USE DEF IInv
<1>1. ASSUME NEW l \in Links, Connect(l) PROVE LinksOK'
  BY <1>1 DEF Connect, LinksOK, TypeOK
<1>2. ASSUME NEW l \in Links, Callback(l) PROVE LinksOK'
  BY <1>2 DEF Callback, LinksOK, TypeOK, Consumed
<1>3. ASSUME NEW l \in Links, Exchange(l) PROVE LinksOK'
  BY <1>3 DEF Exchange, LinksOK, TypeOK
<1>4. CASE Crash
  BY <1>4 DEF Crash, LinksOK, TypeOK
<1>5. ASSUME NEW b \in Bookings, Approve(b) \/ Refuse(b) \/ (\E c \in Cancels : Cancel(c, b))
      PROVE  LinksOK'
  BY <1>5 DEF Approve, Refuse, Cancel, LinksOK, oauth
<1>6. CASE Approving \/ (\E c \in Cancels : Canceling(c))
  BY <1>6 DEF Approving, Canceling, ApproveCall, ApproveCommit, ApproveRollsBack, CancelCall,
              CancelCommit, CancelRollsBack, LinksOK, oauth
<1>7. CASE \E s \in Sweeps : Sweep(s) \/ Polling(s)
  BY <1>7 DEF Sweep, Polling, PollCall, PollStore, PollDone, PollPending, PollRevoke, PollCheck,
              PollCount, PollGivesUp, LinksOK, oauth
<1>8. CASE Disconnect \/ Revoke \/ UNCHANGED vars
  BY <1>8 DEF Disconnect, Revoke, vars, LinksOK, oauth
<1>9. ASSUME NEW e \in Events, RemoveByHand(e) PROVE LinksOK'
  BY <1>9 DEF RemoveByHand, LinksOK, oauth
<1> QED BY <1>1, <1>2, <1>3, <1>4, <1>5, <1>6, <1>7, <1>8, <1>9 DEF Next

LEMMA Inductive ==
    /\ Init => IInv
    /\ IInv /\ [Next]_vars => IInv'
<1>1. ASSUME Init PROVE IInv
  <2>1. BatchOK /\ HandlersOK
    BY <1>1 DEF Init, BatchOK, HandlersOK, Idle
  <2>2. FailedOK
    BY <1>1 DEF Init, FailedOK
  <2>3. LinksOK
    BY <1>1 DEF Init, LinksOK
  <2> QED BY <1>1, <2>1, <2>2, <2>3, TypeInit DEF IInv
<1>2. IInv /\ [Next]_vars => IInv'
  BY TypeStep, BatchStep, HandlersStep, FailedStep, LinksStep DEF IInv
<1> QED BY <1>1, <1>2

\* The parts hold together in every reachable state.
LEMMA AlwaysIInv == Spec => []IInv
<1>1. Init => IInv
  BY Inductive
<1>2. IInv /\ [Next]_vars => IInv'
  BY Inductive
<1> QED BY <1>1, <1>2, PTL DEF Spec

-----------------------------------------------------------------------------
(* The properties *)

\* Every variable keeps its type.
THEOREM TypeCorrect == Spec => []TypeOK
<1>1. IInv => TypeOK
  BY DEF IInv
<1> QED BY <1>1, AlwaysIInv, PTL

\* A connect link is good for one connection, whatever callbacks race or
\* crash.
THEOREM LinkHolds == Spec => []LinkWorksOnce
<1>1. IInv => LinkWorksOnce
  BY DEF IInv, LinksOK, LinkWorksOnce
<1> QED BY <1>1, AlwaysIInv, PTL

\* A booking is given up with all its retries spent, however many sweeps
\* count them and whatever a cancellation writes over (poller.ts:63).
THEOREM SpentHolds == Spec => []GivenUpIsSpent
<1>1. IInv => GivenUpIsSpent
  BY DEF IInv, FailedOK, GivenUpIsSpent
<1> QED BY <1>1, AlwaysIInv, PTL

-----------------------------------------------------------------------------
(* The notices to reconnect *)

Connected == {l \in Links : connected[l] > 0}

\* A stored token is worth one notice to come.
NoticesOK == notices + (IF token = None THEN 0 ELSE 1) <= Cardinality(Connected)

LEMMA ConnectedIsFinite == IsFiniteSet(Connected) /\ Cardinality(Connected) \in Nat
BY LinksAssumption, FS_Subset, FS_CardinalityType DEF Connected

\* Only Revocation sends a notice, and it takes the token.
LEMMA RevocationNotice ==
    ASSUME TypeOK, NoticesOK, NEW res, Revocation(res), UNCHANGED connected
    PROVE  NoticesOK'
BY ConnectedIsFinite DEF TypeOK, NoticesOK, Revocation, Cleared, Connected

LEMMA ExchangeNotice ==
    ASSUME IInv, NoticesOK, NEW l \in Links, Exchange(l)
    PROVE  NoticesOK'
<1>1. CASE UNCHANGED <<token, connected>>
  BY <1>1 DEF Exchange, NoticesOK, Connected
<1>2. CASE token' = l /\ connected' = [connected EXCEPT ![l] = @ + 1]
  <2>1. connected[l] = 0 /\ connected \in [Links -> {0, 1}]
    BY DEF Exchange, IInv, LinksOK, TypeOK
  <2>2. Connected' = Connected \cup {l} /\ l \notin Connected
    BY <1>2, <2>1 DEF Connected
  <2>3. Cardinality(Connected') = Cardinality(Connected) + 1
    BY <2>2, ConnectedIsFinite, FS_AddElement
  <2> QED BY <1>2, <2>3, ConnectedIsFinite DEF NoticesOK, Exchange, IInv, TypeOK
<1> QED BY <1>1, <1>2 DEF Exchange

LEMMA NoticesStep == IInv /\ NoticesOK /\ [Next]_vars => NoticesOK'
<1> SUFFICES ASSUME IInv, NoticesOK, [Next]_vars PROVE NoticesOK'
  OBVIOUS
<1>1. CASE ApproveCall \/ (\E c \in Cancels : CancelCall(c))
  <2>1. PICK res \in Results : Revocation(res)
    BY <1>1 DEF ApproveCall, CancelCall
  <2> QED BY <1>1, <2>1, RevocationNotice DEF ApproveCall, CancelCall, IInv, oauth
<1>2. ASSUME NEW s \in Sweeps, PollRevoke(s)
      PROVE  NoticesOK'
  BY <1>2, RevocationNotice DEF PollRevoke, IInv, oauth
<1>3. CASE Disconnect
  BY <1>3, ConnectedIsFinite DEF Disconnect, NoticesOK, Connected, IInv, TypeOK
<1>4. CASE UNCHANGED <<token, connected, notices>>
  BY <1>4 DEF NoticesOK, Connected
<1>5. CASE Approving \/ (\E c \in Cancels : Canceling(c))
  BY <1>1, <1>4, <1>5
  DEF Approving, Canceling, ApproveCommit, ApproveRollsBack, CancelCommit, CancelRollsBack, oauth
<1>10. CASE \E s \in Sweeps : Sweep(s) \/ Polling(s)
  BY <1>2, <1>4, <1>10
  DEF Polling, Sweep, PollCall, PollStore, PollDone, PollPending, PollCheck, PollCount, PollGivesUp, oauth
<1>6. ASSUME NEW b \in Bookings, Approve(b) \/ Refuse(b) \/ (\E c \in Cancels : Cancel(c, b))
      PROVE  NoticesOK'
  BY <1>4, <1>6 DEF Approve, Refuse, Cancel, oauth
<1>7. ASSUME NEW l \in Links, Connect(l) \/ Callback(l) \/ Exchange(l)
      PROVE  NoticesOK'
  BY <1>4, <1>7, ExchangeNotice DEF Connect, Callback
<1>8. CASE Revoke \/ Crash \/ UNCHANGED vars
  BY <1>4, <1>8 DEF Revoke, Crash, vars, oauth
<1>9. ASSUME NEW e \in Events, RemoveByHand(e)
      PROVE  NoticesOK'
  BY <1>4, <1>9 DEF RemoveByHand, oauth
<1> QED BY <1>3, <1>5, <1>6, <1>7, <1>8, <1>9, <1>10 DEF Next

\* However callback, handler and poller race to find an authorization
\* revoked, the owner hears of it at most once for a link that connected
\* the calendar (handleGoogleAuthRevoked, clearBusinessGoogleRefreshToken).
THEOREM NoticeHolds == Spec => []OneNoticePerConnection
<1>1. Init => NoticesOK
  <2> SUFFICES ASSUME Init PROVE NoticesOK
    OBVIOUS
  <2>1. PICK S \in SUBSET Links :
           /\ token = IF S = {} THEN None ELSE CHOOSE t \in S : TRUE
           /\ connected = [l \in Links |-> IF l \in S THEN 1 ELSE 0]
    BY DEF Init
  <2>2. Connected = S
    BY <2>1 DEF Connected
  <2>3. S # {} => Cardinality(Connected) > 0
    BY <2>2, ConnectedIsFinite, FS_EmptySet
  <2> QED BY <2>1, <2>3, ConnectedIsFinite DEF Init, NoticesOK
<1>2. IInv /\ NoticesOK => OneNoticePerConnection
  BY ConnectedIsFinite DEF IInv, TypeOK, NoticesOK, OneNoticePerConnection, Connected
<1> QED BY <1>1, <1>2, NoticesStep, AlwaysIInv, PTL DEF Spec

-----------------------------------------------------------------------------
(* Bookings given up *)

\* What was given up is decided, so that the owner's callback is about some
\* other booking; and a new sweep takes pending rows only.
THEOREM LeftAloneHolds == Spec => LeftAlone
<1> DEFINE Stays(b) ==
       /\ sync[b] = "failed"
       /\ ~\E s \in Sweeps : Holds(s, b)
       /\ ~\E c \in Cancels : client[c] # Idle /\ client[c].b = b
       => sync'[b] = "failed" /\ ~\E s \in Sweeps : Holds(s, b)'
<1>1. ASSUME IInv, [Next]_vars, NEW b \in Bookings
      PROVE  Stays(b)
  <2> SUFFICES ASSUME sync[b] = "failed",
                      ~\E s \in Sweeps : Holds(s, b),
                      ~\E c \in Cancels : client[c] # Idle /\ client[c].b = b
               PROVE  sync'[b] = "failed" /\ ~\E s \in Sweeps : Holds(s, b)'
    OBVIOUS
  <2> USE <1>1 DEF IInv
  <2>1. ASSUME NEW t \in Sweeps
        PROVE  ~Holds(t, b)'
    <3>1. CASE poller'[t] = poller[t]
      BY <3>1 DEF Holds
    <3>2. ASSUME NEW s \in Sweeps, Sweep(s)
          PROVE  ~Holds(t, b)'
      <4>1. CASE t = s
        BY <3>2, <4>1, SweepRows DEF Holds
      <4>2. CASE t # s
        BY <3>1, <3>2, <4>2, SweepRows
      <4> QED BY <4>1, <4>2
    <3>3. ASSUME NEW s \in Sweeps, Polling(s)
          PROVE  ~Holds(t, b)'
      <4>1. CASE t = s
        BY <3>3, <4>1, PollingSteps DEF Holds, Onward
      <4>2. CASE t # s
        BY <3>1, <3>3, <4>2, PollingSteps DEF Onward
      <4> QED BY <4>1, <4>2
    <3>4. CASE poller' = [s \in Sweeps |-> Idle]
      BY <3>4 DEF Holds
    <3> QED BY <3>1, <3>2, <3>3, <3>4, SweepsStand
  <2>2. sync'[b] = "failed"
    <3>1. CASE ApproveCommit
      <4>1. owner.b \in Bookings /\ status[owner.b] = "pending"
        BY <3>1, Handlers DEF ApproveCommit, HandlersOK, Idle
      <4>2. b # owner.b
        BY <4>1 DEF FailedOK, Decided
      <4> QED BY <3>1, <4>2 DEF ApproveCommit, TypeOK
    <3>2. ASSUME NEW c \in Cancels, CancelCommit(c)
          PROVE  sync'[b] = "failed"
      <4>1. client[c].b # b
        BY <3>2 DEF CancelCommit, Idle
      <4> QED BY <3>2, <4>1 DEF CancelCommit, TypeOK
    <3>3. ASSUME NEW s \in Sweeps, Polling(s)
          PROVE  sync'[b] = "failed"
      <4>1. Current(s).b # b
        BY <3>3, PollingRows DEF Holds
      <4> QED BY <3>3, <4>1, PollingRows
    <3>4. CASE UNCHANGED sync
      BY <3>4
    <3>5. (\E c \in Bookings : Approve(c) \/ Refuse(c)) => UNCHANGED sync
      BY DEF Approve, Refuse, rows
    <3>6. (\E s \in Sweeps : Sweep(s)) => UNCHANGED sync
      BY DEF Sweep, rows
    <3>7. (\E c \in Cancels : CancelCall(c) \/ CancelRollsBack(c)) => UNCHANGED sync
      BY DEF CancelCall, CancelRollsBack, rows
    <3>8. ApproveCall \/ ApproveRollsBack \/ Crash => UNCHANGED sync
      BY DEF ApproveCall, ApproveRollsBack, Crash, rows
    <3>9. (\E d \in Bookings, c \in Cancels : Cancel(c, d)) => UNCHANGED sync
      BY DEF Cancel, rows
    <3>10. UNCHANGED rows => UNCHANGED sync
      BY DEF rows
    <3> QED BY <3>1, <3>2, <3>3, <3>4, <3>5, <3>6, <3>7, <3>8, <3>9, <3>10, Steps
  <2> QED BY <2>1, <2>2
<1>2. ASSUME IInv, [Next]_vars
      PROVE  [\A b \in Bookings : Stays(b)]_vars
  BY <1>1, <1>2
<1> QED BY <1>2, AlwaysIInv, PTL DEF Spec, LeftAlone

=============================================================================
