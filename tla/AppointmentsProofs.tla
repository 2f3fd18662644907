------------------------- MODULE AppointmentsProofs -------------------------
(***************************************************************************)
(* The safety of Appointments for any number of bookings, clients and      *)
(* chat turns, any services and times, and any pack.                       *)
(*                                                                         *)
(* Every step either makes one new booking, in a free place, or lets       *)
(* bookings change their status without bringing any back (Shape); what    *)
(* follows about places and moves rests on that alone.                     *)
(***************************************************************************)
EXTENDS Appointments, FiniteSetTheorems, TLAPS

Statuses == {"none", "pending", "confirmed", "cancelled", "rejected", "expired"}

\* The parts of TypeOK.
RowsOK ==
    /\ status \in [Ids -> Statuses]
    /\ row \in [Ids -> Rows \cup {None}]
    /\ \A b \in Ids : row[b] = None <=> status[b] = "none"
    /\ \A b \in Ids : row[b] # None /\ row[b].from # None
                         => row[row[b].from] # None /\ row[row[b].from].client = row[b].client

PacksOK ==
    /\ live \in SUBSET Clients
    /\ left \in [Clients -> Nat]
    /\ charged \in SUBSET Ids /\ linked \in SUBSET Ids /\ refunded \in SUBSET Ids
    /\ refunded \subseteq charged \cup linked
    /\ \A b \in charged \cup linked : row[b] # None

RestOK ==
    /\ request \in [Requests -> {"none", "pending", "approved", "rejected"}]
    /\ turn \in [Handlers -> Turns]
    /\ \A h \in Handlers : turn[h] # Idle => row[turn[h].id] # None
    /\ now \in {0, Noon}

Parts == RowsOK /\ PacksOK /\ RestOK

LEMMA TypeParts == TypeOK <=> Parts
BY DEF TypeOK, Parts, RowsOK, PacksOK, RestOK, Statuses

-----------------------------------------------------------------------------
(* Lemmas about the operators *)

\* A new booking as an action makes it.
Added(b, c, s, n, o, r, st) ==
    /\ b \in Ids /\ c \in Clients /\ s \in Starts /\ n \in Lengths
    /\ o \in Ids \cup {None} /\ r \in Requests \cup {None}
    /\ o # None => st = "pending" /\ row[o] # None /\ row[o].client = c
    /\ st \in {"pending", "confirmed"}
    /\ Insert(b, c, s, n, o, r, st)

\* An insert leaves well-typed rows, and the other rows as they were.
LEMMA InsertType ==
    ASSUME RowsOK, NEW b, NEW c, NEW s, NEW n, NEW o, NEW r, NEW st,
           Added(b, c, s, n, o, r, st)
    PROVE  /\ RowsOK'
           /\ b \in Ids /\ row[b] = None /\ row'[b] # None /\ status[b] = "none"
           /\ row'[b].client = c /\ row'[b].start = s /\ row'[b].from = o /\ row'[b].via = r
           /\ status'[b] = st
           /\ \A x \in Ids \ {b} : row'[x] = row[x] /\ status'[x] = status[x]
<1> DEFINE new == [client |-> c, start |-> s, length |-> n, from |-> o, via |-> r]
<1>1. new \in Rows /\ new # None
  BY NoneAssumption DEF Added, Rows
<1>2. b \in Ids /\ status[b] = "none" /\ row[b] = None
  BY DEF Added, Insert, RowsOK
<1>3. status' = [status EXCEPT ![b] = st] /\ row' = [row EXCEPT ![b] = new]
  BY DEF Added, Insert
<1>4. new.client = c /\ new.start = s /\ new.from = o /\ new.via = r
  OBVIOUS
<1> HIDE DEF new
<1>5. /\ row'[b] = new /\ status'[b] = st
      /\ \A x \in Ids \ {b} : row'[x] = row[x] /\ status'[x] = status[x]
  BY <1>2, <1>3 DEF RowsOK
<1>6. st \in {"pending", "confirmed"} /\ st \in Statuses
  BY DEF Added, Statuses
<1>7. status' \in [Ids -> Statuses] /\ row' \in [Ids -> Rows \cup {None}]
  BY <1>1, <1>3, <1>6 DEF RowsOK
<1>8. \A x \in Ids : row'[x] = None <=> status'[x] = "none"
  BY <1>1, <1>5, <1>6 DEF RowsOK
<1>9. ASSUME NEW x \in Ids, row'[x] # None, row'[x].from # None
      PROVE  row'[row'[x].from] # None /\ row'[row'[x].from].client = row'[x].client
  <2>1. CASE x = b
    <3>1. o # None /\ o \in Ids /\ row[o] # None /\ row[o].client = c
      BY <1>4, <1>5, <1>9, <2>1 DEF Added
    <3>2. o # b
      BY <1>2, <3>1
    <3> QED BY <1>4, <1>5, <2>1, <3>1, <3>2
  <2>2. CASE x # b
    <3>1. row'[x] = row[x] /\ row[x] \in Rows
      BY <1>5, <1>9, <2>2 DEF RowsOK
    <3>2. row[x].from \in Ids
      BY <1>9, <3>1 DEF Rows
    <3>3. row[row[x].from] # None /\ row[row[x].from].client = row[x].client
      BY <1>9, <3>1 DEF RowsOK
    <3>4. row[x].from # b
      BY <1>2, <3>3
    <3> QED BY <1>5, <3>1, <3>2, <3>3, <3>4
  <2> QED BY <2>1, <2>2
<1> QED BY <1>1, <1>2, <1>4, <1>5, <1>7, <1>8, <1>9 DEF RowsOK

\* A status update leaves well-typed rows if it makes and unmakes none.
LEMMA StatusType ==
    ASSUME RowsOK, UNCHANGED row, status' \in [Ids -> Statuses],
           \A b \in Ids : status'[b] = "none" <=> status[b] = "none"
    PROVE  RowsOK'
BY DEF RowsOK

\* A deduction leaves a well-typed ledger, whose rows are of bookings that
\* exist.
LEMMA ChargeType ==
    ASSUME PacksOK, NEW b \in Ids, NEW c \in Clients, Charge(b, c), UNCHANGED live,
           row'[b] # None, \A x \in Ids \ {b} : row'[x] = row[x]
    PROVE  PacksOK'
<1>1. left' \in [Clients -> Nat] /\ charged' \in SUBSET Ids
  BY DEF Charge, HasCredit, PacksOK
<1>2. charged \subseteq charged' /\ charged' \subseteq charged \cup {b}
      /\ linked' = linked /\ refunded' = refunded
  BY DEF Charge
<1> QED BY <1>1, <1>2 DEF PacksOK

\* So does the return of a credit.
LEMMA RefundType ==
    ASSUME PacksOK, RowsOK, NEW b \in Ids, Refund(b), UNCHANGED <<live, row>>
    PROVE  PacksOK' /\ refunded' \subseteq refunded \cup {b}
<1>1. refunded' \subseteq refunded \cup {b} /\ UNCHANGED <<charged, linked>>
  BY DEF Refund
<1>2. CASE Refundable(b)
  <2>1. left' = [left EXCEPT ![row[b].client] = @ + 1] /\ refunded' = refunded \cup {b}
    BY <1>2 DEF Refund
  <2>2. b \in charged \cup linked /\ row[b].client \in Clients
    BY <1>2 DEF Refundable, PacksOK
  <2>3. left' \in [Clients -> Nat]
    <3>1. left[row[b].client] + 1 \in Nat
      BY <2>2 DEF PacksOK
    <3> QED BY <2>1, <3>1 DEF PacksOK
  <2> QED BY <1>1, <2>1, <2>2, <2>3 DEF PacksOK
<1>3. CASE ~Refundable(b)
  BY <1>1, <1>3 DEF Refund, PacksOK
<1> QED BY <1>1, <1>2, <1>3

\* The ledger is well-typed as long as it and the rows stay.
LEMMA PacksKeep ==
    ASSUME PacksOK, UNCHANGED <<left, charged, linked, refunded>>, live' \in SUBSET Clients,
           \A b \in Ids : row[b] # None => row'[b] # None
    PROVE  PacksOK'
BY DEF PacksOK

\* A turn that has read a booking names it.
LEMMA TurnType ==
    ASSUME NEW j \in Turns, j # Idle
    PROVE  j.id \in Ids /\ j.op \in {"cancel", "move"}
BY DEF Turns

\* A handler that takes up a job, or ends one.
LEMMA TurnSet ==
    ASSUME RestOK, NEW h \in Handlers, NEW j \in Turns, turn' = [turn EXCEPT ![h] = j],
           j # Idle => row'[j.id] # None,
           \A b \in Ids : row[b] # None => row'[b] # None,
           UNCHANGED <<request, now>>
    PROVE  RestOK'
<1>1. turn' \in [Handlers -> Turns]
  BY DEF RestOK
<1>2. ASSUME NEW g \in Handlers, turn'[g] # Idle
      PROVE  row'[turn'[g].id] # None
  <2>1. CASE g = h
    BY <1>2, <2>1 DEF RestOK
  <2>2. CASE g # h
    <3>1. turn'[g] = turn[g] /\ turn[g] \in Turns
      BY <2>2 DEF RestOK
    <3> QED BY <1>2, <3>1, TurnType DEF RestOK
  <2> QED BY <2>1, <2>2
<1> QED BY <1>1, <1>2 DEF RestOK

\* Nobody's turn changes.
LEMMA TurnKeep ==
    ASSUME RestOK, UNCHANGED turn, now' \in {0, Noon},
           request' \in [Requests -> {"none", "pending", "approved", "rejected"}],
           \A b \in Ids : row[b] # None => row'[b] # None
    PROVE  RestOK'
<1>1. ASSUME NEW g \in Handlers, turn'[g] # Idle
      PROVE  row'[turn'[g].id] # None
  <2>1. turn'[g] = turn[g] /\ turn[g] \in Turns
    BY DEF RestOK
  <2> QED BY <1>1, <2>1, TurnType DEF RestOK
<1> QED BY <1>1 DEF RestOK

-----------------------------------------------------------------------------
(* Types *)

LEMMA InitType == Init => TypeOK
BY TimesAssumption DEF Init, TypeOK, Turns

\* Every step preserves the types.
LEMMA NextType ==
    ASSUME TypeOK, [Next]_vars
    PROVE  TypeOK'
<1> USE DEF Parts
<1>0. /\ RowsOK /\ PacksOK /\ RestOK
      /\ Idle \in Turns
  BY TypeParts DEF Turns
<1>1. ASSUME NEW c \in Clients, NEW s \in Starts, NEW n \in Lengths, Book(c, s, n)
      PROVE  Parts'
  <2>1. PICK b \in Ids : Insert(b, c, s, n, None, None, "pending") /\ Charge(b, c)
    BY <1>1 DEF Book
  <2>2. Added(b, c, s, n, None, None, "pending")
    BY <2>1 DEF Added
  <2>3. RowsOK' /\ row'[b] # None /\ row[b] = None /\ \A x \in Ids \ {b} : row'[x] = row[x]
    BY <1>0, <2>2, InsertType
  <2>4. UNCHANGED <<live, request, turn, now>>
    BY <1>1 DEF Book
  <2>5. PacksOK'
    BY <1>0, <2>1, <2>3, <2>4, ChargeType
  <2>6. RestOK'
    BY <1>0, <2>3, <2>4, TurnKeep DEF RestOK
  <2> QED BY <2>3, <2>5, <2>6
<1>2. ASSUME NEW c \in Clients, NEW s \in Starts, NEW n \in Lengths, Submit(c, s, n)
      PROVE  Parts'
  <2>1. UNCHANGED <<status, row, live, left, charged, linked, refunded, turn, now>>
    BY <1>2 DEF Submit, ledger
  <2>2. request' \in [Requests -> {"none", "pending", "approved", "rejected"}]
    BY <1>0, <1>2 DEF Submit, RestOK
  <2>3. RestOK'
    BY <1>0, <2>1, <2>2, TurnKeep DEF RestOK
  <2>4. RowsOK' /\ PacksOK'
    BY <1>0, <2>1 DEF RowsOK, PacksOK
  <2> QED BY <2>3, <2>4
<1>3. ASSUME NEW h \in Handlers, NEW b \in Ids, MoveRead(h, b) \/ CancelRead(h, b)
      PROVE  Parts'
  <2>1. PICK j \in Turns : j # Idle /\ j.id = b /\ Read(h, j)
    <3>1. CASE MoveRead(h, b)
      BY <3>1 DEF MoveRead, Turns, Idle
    <3>2. CASE CancelRead(h, b)
      <4> DEFINE f == row[b] # None /\ row[b].start - now < Cutoff
                 j == [op |-> "cancel", id |-> b, forfeit |-> f]
      <4>1. f \in BOOLEAN
        OBVIOUS
      <4>2. Read(h, j)
        BY <3>2 DEF CancelRead
      <4> HIDE DEF f
      <4>3. j \in Turns /\ j # Idle /\ j.id = b
        BY <4>1 DEF Turns, Idle
      <4> QED BY <4>2, <4>3
    <3> QED BY <1>3, <3>1, <3>2
  <2>2. /\ UNCHANGED <<status, row, live, left, charged, linked, refunded, request, now>>
        /\ turn' = [turn EXCEPT ![h] = j]
    BY <2>1 DEF Read, ledger
  <2>3. row[j.id] # None
    BY <1>0, <2>1 DEF Read, Active, RowsOK
  <2>4. RestOK'
    BY <1>0, <2>2, <2>3, TurnSet
  <2>5. RowsOK' /\ PacksOK'
    BY <1>0, <2>2 DEF RowsOK, PacksOK
  <2> QED BY <2>4, <2>5
<1>4. ASSUME NEW h \in Handlers, NEW s \in Starts, NEW n \in Lengths, Move(h, s, n)
      PROVE  Parts'
  <2> DEFINE o == turn[h].id
  <2>1. o \in Ids /\ row[o] # None /\ row[o].client \in Clients
    <3>1. turn[h] # Idle /\ turn[h] \in Turns
      BY <1>0, <1>4 DEF Move, Idle, RestOK
    <3>2. o \in Ids /\ row[o] # None
      BY <1>0, <3>1, TurnType DEF RestOK
    <3> QED BY <1>0, <3>2 DEF RowsOK, Rows
  <2>2. PICK b \in Ids : /\ Insert(b, row[o].client, s, n, o, None, "pending")
                         /\ linked' = IF o \in charged \cup linked THEN linked \cup {b} ELSE linked
    BY <1>4 DEF Move
  <2>3. Added(b, row[o].client, s, n, o, None, "pending")
    BY <2>1, <2>2 DEF Added
  <2>4. RowsOK' /\ row'[b] # None /\ row[b] = None /\ \A x \in Ids \ {b} : row'[x] = row[x]
    BY <1>0, <2>3, InsertType
  <2>5. PacksOK'
    BY <1>0, <1>4, <2>2, <2>4 DEF Move, PacksOK
  <2>6. RestOK'
    BY <1>0, <1>4, <2>4, TurnSet DEF Move, Close
  <2> QED BY <2>4, <2>5, <2>6
<1>5. ASSUME NEW h \in Handlers, MoveTaken(h)
      PROVE  Parts'
  <2>1. /\ UNCHANGED <<status, row, live, left, charged, linked, refunded, request, now>>
        /\ turn' = [turn EXCEPT ![h] = Idle]
    BY <1>5 DEF MoveTaken, Close, ledger
  <2>2. RestOK'
    BY <1>0, <2>1, TurnSet
  <2>3. RowsOK' /\ PacksOK'
    BY <1>0, <2>1 DEF RowsOK, PacksOK
  <2> QED BY <2>2, <2>3
<1>6. ASSUME NEW h \in Handlers, Cancel(h)
      PROVE  Parts'
  <2> DEFINE b == turn[h].id
  <2>1. b \in Ids /\ row[b] # None /\ status[b] # "none"
    <3>1. turn[h] # Idle /\ turn[h] \in Turns
      BY <1>0, <1>6 DEF Cancel, Idle, RestOK
    <3>2. b \in Ids /\ row[b] # None
      BY <1>0, <3>1, TurnType DEF RestOK
    <3> QED BY <1>0, <3>2 DEF RowsOK
  <2>2. /\ status' = [status EXCEPT ![b] = "cancelled"] /\ turn' = [turn EXCEPT ![h] = Idle]
        /\ UNCHANGED <<row, live, request, now>>
    BY <1>6 DEF Cancel, Close
  <2>3. RowsOK'
    <3>1. status' \in [Ids -> Statuses] /\ \A x \in Ids : status'[x] = "none" <=> status[x] = "none"
      BY <1>0, <2>1, <2>2 DEF RowsOK, Statuses
    <3> QED BY <1>0, <2>2, <3>1, StatusType
  <2>4. PacksOK'
    <3>1. CASE turn[h].forfeit
      BY <1>0, <1>6, <2>2, <3>1 DEF Cancel, ledger, PacksOK
    <3>2. CASE ~turn[h].forfeit
      BY <1>0, <1>6, <2>1, <2>2, <3>2, RefundType DEF Cancel
    <3> QED BY <3>1, <3>2
  <2>5. RestOK'
    BY <1>0, <2>2, TurnSet
  <2> QED BY <2>3, <2>4, <2>5
<1>7. ASSUME NEW b \in Ids, Approve(b) \/ Reject(b)
      PROVE  Parts'
  <2>1. UNCHANGED <<row, live, request, turn, now>>
    BY <1>7 DEF Approve, Reject
  <2>2. RowsOK'
    <3>1. CASE Approve(b)
      <4>1. \A x \in Superseded(b) : x \in Ids /\ status[x] # "none"
        <5> TAKE x \in Superseded(b)
        <5>1. x \in Ids /\ row[b].from = x /\ row[b] # None
          BY <1>0, <3>1 DEF Superseded, Approve, Awaits, RowsOK
        <5>2. row[b].from # None
          BY <5>1, NoneAssumption
        <5> QED BY <1>0, <5>1, <5>2 DEF RowsOK
      <4>2. status' \in [Ids -> Statuses] /\ \A x \in Ids : status'[x] = "none" <=> status[x] = "none"
        BY <1>0, <3>1, <4>1 DEF Approve, Awaits, RowsOK, Statuses
      <4> QED BY <1>0, <2>1, <4>2, StatusType
    <3>2. CASE Reject(b)
      <4>1. status' \in [Ids -> Statuses] /\ \A x \in Ids : status'[x] = "none" <=> status[x] = "none"
        BY <1>0, <3>2 DEF Reject, Awaits, RowsOK, Statuses
      <4> QED BY <1>0, <2>1, <4>1, StatusType
    <3> QED BY <1>7, <3>1, <3>2
  <2>3. PacksOK'
    <3>1. CASE Approve(b)
      BY <1>0, <3>1 DEF Approve, ledger, PacksOK
    <3>2. CASE Reject(b)
      BY <1>0, <2>1, <3>2, RefundType DEF Reject
    <3> QED BY <1>7, <3>1, <3>2
  <2>4. RestOK'
    BY <1>0, <2>1, TurnKeep DEF RestOK
  <2> QED BY <2>2, <2>3, <2>4
<1>8. ASSUME NEW S \in SUBSET Ids, Expire(S)
      PROVE  Parts'
  <2>1. UNCHANGED <<row, live, left, charged, linked, refunded, request, turn, now>>
    BY <1>8 DEF Expire, ledger
  <2>2. status' \in [Ids -> Statuses] /\ \A x \in Ids : status'[x] = "none" <=> status[x] = "none"
    BY <1>0, <1>8 DEF Expire, RowsOK, Statuses
  <2>3. RowsOK'
    BY <1>0, <2>1, <2>2, StatusType
  <2>4. PacksOK' /\ RestOK'
    BY <1>0, <2>1, TurnKeep DEF PacksOK, RestOK
  <2> QED BY <2>3, <2>4
<1>9. ASSUME NEW r \in Requests, Grant(r)
      PROVE  Parts'
  <2>1. PICK b \in Ids : /\ Insert(b, r.client, r.start, r.length, None, r, "confirmed")
                         /\ Charge(b, r.client)
    BY <1>9 DEF Grant
  <2>2. r.client \in Clients /\ r.start \in Starts /\ r.length \in Lengths
    BY DEF Requests
  <2>3. Added(b, r.client, r.start, r.length, None, r, "confirmed")
    BY <2>1, <2>2 DEF Added
  <2>4. RowsOK' /\ row'[b] # None /\ row[b] = None /\ \A x \in Ids \ {b} : row'[x] = row[x]
    BY <1>0, <2>3, InsertType
  <2>5. UNCHANGED <<live, turn, now>> /\ request' = [request EXCEPT ![r] = "approved"]
    BY <1>9 DEF Grant
  <2>6. PacksOK'
    BY <1>0, <2>1, <2>2, <2>4, <2>5, ChargeType
  <2>7. RestOK'
    BY <1>0, <2>4, <2>5, TurnKeep DEF RestOK
  <2> QED BY <2>4, <2>6, <2>7
<1>10. ASSUME NEW r \in Requests, Decline(r)
       PROVE  Parts'
  <2>1. UNCHANGED <<status, row, live, left, charged, linked, refunded, turn, now>>
    BY <1>10 DEF Decline, ledger
  <2>2. request' \in [Requests -> {"none", "pending", "approved", "rejected"}]
    BY <1>0, <1>10 DEF Decline, RestOK
  <2>3. RestOK'
    BY <1>0, <2>1, <2>2, TurnKeep DEF RestOK
  <2>4. RowsOK' /\ PacksOK'
    BY <1>0, <2>1 DEF RowsOK, PacksOK
  <2> QED BY <2>3, <2>4
<1>11. ASSUME NEW c \in Clients, Lapse(c)
       PROVE  Parts'
  <2>1. UNCHANGED <<status, row, left, charged, linked, refunded, request, turn, now>>
    BY <1>11 DEF Lapse, ledger
  <2>2. PacksOK'
    BY <1>0, <1>11, <2>1 DEF Lapse, PacksOK
  <2>3. RowsOK' /\ RestOK'
    BY <1>0, <2>1, TurnKeep DEF RowsOK, RestOK
  <2> QED BY <2>2, <2>3
<1>12. ASSUME Tick
       PROVE  Parts'
  <2>1. UNCHANGED <<status, row, live, left, charged, linked, refunded, request, turn>>
        /\ now' \in {0, Noon}
    BY <1>12 DEF Tick, ledger
  <2>2. RestOK'
    BY <1>0, <2>1, TurnKeep DEF RestOK
  <2>3. RowsOK' /\ PacksOK'
    BY <1>0, <2>1 DEF RowsOK, PacksOK
  <2> QED BY <2>2, <2>3
<1>13. ASSUME UNCHANGED vars
       PROVE  Parts'
  BY <1>0, <1>13, TurnKeep DEF vars, ledger, RowsOK, PacksOK, RestOK
<1>14. Parts'
  BY <1>1, <1>2, <1>3, <1>4, <1>5, <1>6, <1>7, <1>8, <1>9, <1>10, <1>11, <1>12, <1>13 DEF Next
<1> QED BY <1>14 DEF TypeOK, RowsOK, PacksOK, RestOK, Statuses

\* Every reachable state has the tables' types; a refund is of a booking
\* that was charged or linked, a move is of a booking of the same client.
THEOREM TypeCorrect == Spec => []TypeOK
<1> QED BY InitType, NextType, PTL DEF Spec

-----------------------------------------------------------------------------
(* What a step does to places *)

\* No booking is made, none is brought back, an original loses its place
\* with the approval of its move, and a credit goes to a booking that is over.
Fades ==
    /\ UNCHANGED row
    /\ status' \in [Ids -> Statuses]
    /\ \A b \in Ids : status'[b] = "none" <=> status[b] = "none"
    /\ \A b \in Ids : status'[b] \in {"pending", "confirmed"} => Active(b)
    /\ \A b \in Ids : status'[b] = "confirmed" /\ status[b] # "confirmed" /\ row[b].from # None
                         => status'[row[b].from] \notin {"pending", "confirmed"}
    /\ \A b \in refunded' : b \in refunded \/ status'[b] \notin {"none", "pending", "confirmed"}
    /\ \/ \E b \in Ids : Approve(b)
       \/ \A b \in Ids : status'[b] \in {"pending", "confirmed"} => status'[b] = status[b]

\* A booking is made where none in force starts; no credit moves back.
Grows ==
    /\ \E b, c, s, n, o, r, st : Added(b, c, s, n, o, r, st) /\ SlotFree(s)
    /\ UNCHANGED refunded

\* A booking does not move itself.
NoSelfMove == \A b \in Ids : row[b] # None => row[b].from # b

LEMMA Shape ==
    ASSUME TypeOK, NoSelfMove, [Next]_vars
    PROVE  Fades \/ Grows
<1>0. RowsOK /\ PacksOK /\ RestOK
  BY TypeParts DEF Parts
<1>1. ASSUME UNCHANGED <<status, row, refunded>>
      PROVE  Fades
  BY <1>0, <1>1, NoneAssumption DEF Fades, RowsOK, Active
<1>2. ASSUME NEW c \in Clients, NEW s \in Starts, NEW n \in Lengths, Book(c, s, n)
      PROVE  Grows
  <2>1. PICK b \in Ids : Insert(b, c, s, n, None, None, "pending") /\ Charge(b, c)
    BY <1>2 DEF Book
  <2>2. Added(b, c, s, n, None, None, "pending")
    BY <2>1 DEF Added
  <2>3. SlotFree(s) /\ UNCHANGED refunded
    BY <1>2, <2>1 DEF Book, Charge
  <2> QED BY <2>2, <2>3 DEF Grows
<1>3. ASSUME NEW h \in Handlers, NEW s \in Starts, NEW n \in Lengths, Move(h, s, n)
      PROVE  Grows
  <2> DEFINE o == turn[h].id
  <2>1. turn[h] # Idle /\ turn[h] \in Turns
    BY <1>0, <1>3 DEF Move, Idle, RestOK
  <2>2. o \in Ids /\ row[o] # None
    BY <1>0, <2>1, TurnType DEF RestOK
  <2>3. row[o].client \in Clients
    BY <1>0, <2>2 DEF RowsOK, Rows
  <2>4. PICK b \in Ids : Insert(b, row[o].client, s, n, o, None, "pending")
    BY <1>3 DEF Move
  <2>5. Added(b, row[o].client, s, n, o, None, "pending")
    BY <2>2, <2>3, <2>4 DEF Added
  <2>6. SlotFree(s) /\ UNCHANGED refunded
    BY <1>3 DEF Move
  <2> QED BY <2>5, <2>6 DEF Grows
<1>4. ASSUME NEW r \in Requests, Grant(r)
      PROVE  Grows
  <2>1. PICK b \in Ids : /\ Insert(b, r.client, r.start, r.length, None, r, "confirmed")
                         /\ Charge(b, r.client)
    BY <1>4 DEF Grant
  <2>2. r.client \in Clients /\ r.start \in Starts /\ r.length \in Lengths
    BY DEF Requests
  <2>3. Added(b, r.client, r.start, r.length, None, r, "confirmed")
    BY <2>1, <2>2 DEF Added
  <2>4. SlotFree(r.start) /\ UNCHANGED refunded
    BY <1>4, <2>1 DEF Grant, Charge
  <2> QED BY <2>3, <2>4 DEF Grows
<1>5. ASSUME NEW h \in Handlers, Cancel(h)
      PROVE  Fades
  <2> DEFINE b == turn[h].id
  <2>1. b \in Ids /\ status[b] # "none"
    <3>1. turn[h] # Idle /\ turn[h] \in Turns
      BY <1>0, <1>5 DEF Cancel, Idle, RestOK
    <3>2. b \in Ids /\ row[b] # None
      BY <1>0, <3>1, TurnType DEF RestOK
    <3> QED BY <1>0, <3>2 DEF RowsOK
  <2>2. status' = [status EXCEPT ![b] = "cancelled"] /\ UNCHANGED row
    BY <1>5 DEF Cancel
  <2>3. refunded' \subseteq refunded \cup {b}
    BY <1>5 DEF Cancel, ledger, Refund
  <2> HIDE DEF b
  <2> QED BY <1>0, <2>1, <2>2, <2>3 DEF Fades, RowsOK, Active, Statuses
<1>6. ASSUME NEW b \in Ids, Approve(b)
      PROVE  Fades
  <2>1. status[b] = "pending" /\ row[b] # None /\ UNCHANGED <<row, refunded>>
    BY <1>0, <1>6 DEF Approve, Awaits, ledger, RowsOK
  <2>2. \A x \in Superseded(b) : x # b /\ x \in Ids /\ row[b].from = x /\ status[x] # "none"
    <3> TAKE x \in Superseded(b)
    <3>1. x \in Ids /\ row[b].from = x /\ x # b
      BY <2>1 DEF Superseded, NoSelfMove
    <3>2. row[b].from # None
      BY <3>1, NoneAssumption
    <3> QED BY <1>0, <2>1, <3>1, <3>2 DEF RowsOK
  <2>3. \A x \in Ids : status'[x] = IF x = b THEN "confirmed"
                                    ELSE IF x \in Superseded(b) THEN "cancelled" ELSE status[x]
    BY <1>6 DEF Approve
  <2>4. ASSUME row[b].from # None
        PROVE  status'[row[b].from] = "cancelled"
    <3>1. row[b].from \in Ids
      BY <1>0, <2>1, <2>4 DEF RowsOK, Rows
    <3>2. row[b].from \in Superseded(b)
      BY <3>1 DEF Superseded
    <3> QED BY <2>2, <2>3, <3>1, <3>2
  <2>5. status' \in [Ids -> Statuses]
    BY <1>0, <1>6 DEF Approve, RowsOK, Statuses
  <2>6. \A x \in Ids : /\ status'[x] = "none" <=> status[x] = "none"
                       /\ status'[x] \in {"pending", "confirmed"} => Active(x)
                       /\ status'[x] = "confirmed" /\ status[x] # "confirmed" => x = b
    BY <2>1, <2>2, <2>3 DEF Active
  <2> QED BY <1>6, <2>1, <2>4, <2>5, <2>6 DEF Fades
<1>7. ASSUME NEW b \in Ids, Reject(b)
      PROVE  Fades
  <2>1. /\ status[b] = "pending" /\ status' = [status EXCEPT ![b] = "rejected"]
        /\ UNCHANGED row /\ refunded' \subseteq refunded \cup {b}
    BY <1>7 DEF Reject, Awaits, Refund
  <2>2. \A x \in Ids : status'[x] = IF x = b THEN "rejected" ELSE status[x]
    BY <1>0, <2>1 DEF RowsOK
  <2> QED BY <1>0, <2>1, <2>2 DEF Fades, RowsOK, Active, Statuses
<1>8. ASSUME NEW S \in SUBSET Ids, Expire(S)
      PROVE  Fades
  <2>1. /\ status' = [b \in Ids |-> IF b \in S THEN "expired" ELSE status[b]]
        /\ \A b \in S : status[b] = "pending"
        /\ UNCHANGED <<row, refunded>>
    BY <1>8 DEF Expire, ledger
  <2> QED BY <1>0, <2>1 DEF Fades, RowsOK, Active, Statuses
<1>9. \A h \in Handlers, b \in Ids : MoveRead(h, b) \/ CancelRead(h, b)
         => UNCHANGED <<status, row, refunded>>
  BY DEF MoveRead, CancelRead, Read, ledger
<1>10. ASSUME \/ \E c \in Clients, s \in Starts, n \in Lengths : Submit(c, s, n)
              \/ \E h \in Handlers : MoveTaken(h)
              \/ \E r \in Requests : Decline(r)
              \/ \E c \in Clients : Lapse(c)
              \/ Tick \/ UNCHANGED vars
       PROVE  UNCHANGED <<status, row, refunded>>
  BY <1>10 DEF Submit, MoveTaken, Decline, Lapse, Tick, vars, ledger
<1> QED BY <1>1, <1>2, <1>3, <1>4, <1>5, <1>6, <1>7, <1>8, <1>9, <1>10 DEF Next

-----------------------------------------------------------------------------
(* Safety *)

\* No two bookings in force start at the same time.
SlotHeldOnce ==
    \A a, b \in Ids : a # b /\ Active(a) /\ Active(b) => row[a].start # row[b].start

\* The inductive invariant: what follows from the shape of a step.
Places == NoSelfMove /\ SlotHeldOnce /\ ReplacedIsReleased /\ RefundedIsOver

LEMMA PlacesHold == Spec => []Places
<1>1. Init => Places
  BY DEF Init, Places, NoSelfMove, SlotHeldOnce, ReplacedIsReleased, RefundedIsOver, Active
<1>2. ASSUME TypeOK, Places, [Next]_vars
      PROVE  Places'
  <2>0. RowsOK /\ PacksOK /\ RestOK
    BY <1>2, TypeParts DEF Parts
  <2>1. CASE Fades
    <3>1. \A b \in Ids : Active(b)' => Active(b)
      BY <2>1 DEF Fades, Active
    <3>2. NoSelfMove' /\ SlotHeldOnce'
      BY <1>2, <2>1, <3>1 DEF Fades, Places, NoSelfMove, SlotHeldOnce
    <3>3. ReplacedIsReleased'
      <4> SUFFICES ASSUME NEW b \in Ids, status'[b] = "confirmed", row[b].from # None
                   PROVE  ~(status'[row[b].from] \in {"pending", "confirmed"})
        BY <2>1 DEF ReplacedIsReleased, Active, Fades
      <4>1. row[b] # None /\ row[b].from \in Ids
        BY <2>0, <2>1 DEF Fades, RowsOK, Rows
      <4>2. CASE status[b] = "confirmed"
        BY <1>2, <2>1, <4>1, <4>2 DEF Fades, Places, ReplacedIsReleased, Active
      <4>3. CASE status[b] # "confirmed"
        BY <2>1, <4>3 DEF Fades
      <4> QED BY <4>2, <4>3
    <3>4. RefundedIsOver'
      BY <1>2, <2>0, <2>1, <3>1 DEF Fades, Places, RefundedIsOver, Active, PacksOK
    <3> QED BY <3>2, <3>3, <3>4 DEF Places
  <2>2. CASE Grows
    <3>1. PICK b, c, s, n, o, r, st : Added(b, c, s, n, o, r, st) /\ SlotFree(s)
      BY <2>2 DEF Grows
    <3>2. /\ b \in Ids /\ row[b] = None /\ row'[b] # None /\ status[b] = "none"
          /\ row'[b].start = s /\ row'[b].from = o /\ status'[b] = st
          /\ \A x \in Ids \ {b} : row'[x] = row[x] /\ status'[x] = status[x]
      BY <2>0, <3>1, InsertType
    <3>3. NoSelfMove'
      BY <1>2, <3>1, <3>2, NoneAssumption DEF Added, Places, NoSelfMove
    <3>4. SlotHeldOnce'
      BY <1>2, <3>1, <3>2 DEF SlotFree, Places, SlotHeldOnce, Active
    <3>5. ReplacedIsReleased'
      <4> SUFFICES ASSUME NEW x \in Ids, status'[x] = "confirmed", row'[x].from # None
                   PROVE  ~Active(row[x].from)'
        BY DEF ReplacedIsReleased
      <4>1. x # b
        BY <3>1, <3>2 DEF Added
      <4>2. status[x] = "confirmed" /\ row'[x] = row[x] /\ row[x] \in Rows
        BY <2>0, <3>2, <4>1 DEF RowsOK
      <4>3. row[x].from \in Ids /\ row[row[x].from] # None /\ ~Active(row[x].from)
        BY <1>2, <2>0, <4>2 DEF RowsOK, Rows, Places, ReplacedIsReleased
      <4> QED BY <3>2, <4>2, <4>3 DEF Active
    <3>6. RefundedIsOver'
      BY <1>2, <2>0, <2>2, <3>2 DEF Grows, Places, RefundedIsOver, Active, PacksOK
    <3> QED BY <3>3, <3>4, <3>5, <3>6 DEF Places
  <2> QED BY <1>2, <2>1, <2>2, Shape DEF Places
<1> QED BY <1>1, <1>2, TypeCorrect, PTL DEF Spec

\* However requests, moves, answers and granted wishes overlap, no two
\* bookings in force start at the same time.
THEOREM SlotHolds == Spec => []SlotHeldOnce
<1>1. Places => SlotHeldOnce
  BY DEF Places
<1> QED BY <1>1, PlacesHold, PTL

\* A client whose move is approved does not keep the old time.
THEOREM ReplacedHolds == Spec => []ReplacedIsReleased
<1>1. Places => ReplacedIsReleased
  BY DEF Places
<1> QED BY <1>1, PlacesHold, PTL

\* A session that was given back pays for nothing.
THEOREM RefundedHolds == Spec => []RefundedIsOver
<1>1. Places => RefundedIsOver
  BY DEF Places
<1> QED BY <1>1, PlacesHold, PTL

-----------------------------------------------------------------------------
(* The ledger *)

\* The bookings of S that are of client c, by the rows f.
Of(S, f, c) == Cardinality({b \in S : f[b].client = c})

\* Counting goes by the rows of what is counted ...
LEMMA OfKeeps ==
    ASSUME NEW S \in SUBSET Ids, NEW f, NEW g, NEW c, \A b \in S : g[b] = f[b]
    PROVE  Of(S, g, c) = Of(S, f, c) /\ Of(S, f, c) \in Nat
<1>1. {b \in S : g[b].client = c} = {b \in S : f[b].client = c}
  OBVIOUS
<1>2. IsFiniteSet({b \in S : f[b].client = c})
  BY IdsAssumption, FS_Subset
<1> QED BY <1>1, <1>2, FS_CardinalityType DEF Of

\* ... and one more booking is one more of its client.
LEMMA OfAdds ==
    ASSUME NEW S \in SUBSET Ids, NEW b \in Ids, b \notin S, NEW f, NEW c
    PROVE  Of(S \cup {b}, f, c) = Of(S, f, c) + (IF f[b].client = c THEN 1 ELSE 0)
<1> DEFINE T == {x \in S : f[x].client = c}
<1>1. IsFiniteSet(T) /\ Cardinality(T) \in Nat /\ b \notin T
  BY IdsAssumption, FS_Subset, FS_CardinalityType
<1>2. CASE f[b].client = c
  <2>1. {x \in S \cup {b} : f[x].client = c} = T \cup {b}
    BY <1>2
  <2>2. Cardinality(T \cup {b}) = Cardinality(T) + 1
    BY <1>1, FS_AddElement
  <2> QED BY <1>2, <2>1, <2>2 DEF Of
<1>3. CASE f[b].client # c
  <2>1. {x \in S \cup {b} : f[x].client = c} = T
    BY <1>3
  <2>2. Of(S \cup {b}, f, c) = Cardinality(T) /\ Of(S, f, c) = Cardinality(T)
    BY <2>1 DEF Of
  <2> HIDE DEF T
  <2> QED BY <1>1, <1>3, <2>2
<1> QED BY <1>2, <1>3

Balance == \A c \in Clients : left[c] + Of(charged, row, c) = Pack + Of(refunded, row, c)

\* What a step does to the ledger.
Unsettled == /\ UNCHANGED <<left, charged, refunded>>
             /\ \A b \in Ids : row[b] # None => row'[b] = row[b]
Pays(b, d) == /\ b \in Ids /\ d \in Clients /\ Charge(b, d)
              /\ row[b] = None /\ row'[b].client = d
              /\ \A x \in Ids \ {b} : row'[x] = row[x]
Returns(b) == b \in Ids /\ Refund(b) /\ UNCHANGED row

LEMMA LedgerShape ==
    ASSUME TypeOK, [Next]_vars
    PROVE  Unsettled \/ (\E b, d : Pays(b, d)) \/ \E b : Returns(b)
<1>0. RowsOK /\ RestOK
  BY TypeParts DEF Parts
<1>1. ASSUME NEW c \in Clients, NEW s \in Starts, NEW n \in Lengths, Book(c, s, n)
      PROVE  \E b, d : Pays(b, d)
  <2>1. PICK b \in Ids : Insert(b, c, s, n, None, None, "pending") /\ Charge(b, c)
    BY <1>1 DEF Book
  <2>2. Added(b, c, s, n, None, None, "pending")
    BY <2>1 DEF Added
  <2>3. row'[b].client = c
    BY <1>0, <2>2, InsertType
  <2> QED BY <1>0, <2>1, <2>2, <2>3, InsertType DEF Pays
<1>2. ASSUME NEW r \in Requests, Grant(r)
      PROVE  \E b, d : Pays(b, d)
  <2>1. PICK b \in Ids : /\ Insert(b, r.client, r.start, r.length, None, r, "confirmed")
                         /\ Charge(b, r.client)
    BY <1>2 DEF Grant
  <2>2. r.client \in Clients /\ r.start \in Starts /\ r.length \in Lengths
    BY DEF Requests
  <2>3. Added(b, r.client, r.start, r.length, None, r, "confirmed")
    BY <2>1, <2>2 DEF Added
  <2>4. row'[b].client = r.client
    BY <1>0, <2>3, InsertType
  <2> QED BY <1>0, <2>1, <2>2, <2>3, <2>4, InsertType DEF Pays
<1>3. ASSUME NEW h \in Handlers, NEW s \in Starts, NEW n \in Lengths, Move(h, s, n)
      PROVE  Unsettled
  BY <1>0, <1>3 DEF Move, Insert, Unsettled, RowsOK
<1>4. ASSUME NEW h \in Handlers, Cancel(h)
      PROVE  Unsettled \/ \E b : Returns(b)
  <2>1. turn[h] # Idle /\ turn[h] \in Turns
    BY <1>0, <1>4 DEF Cancel, Idle, RestOK
  <2>2. turn[h].id \in Ids
    BY <2>1, TurnType
  <2> QED BY <1>4, <2>2 DEF Cancel, Returns, Unsettled, ledger
<1>5. ASSUME NEW b \in Ids, Reject(b)
      PROVE  Returns(b)
  BY <1>5 DEF Reject, Returns
<1>6. ASSUME \/ \E c \in Clients, s \in Starts, n \in Lengths : Submit(c, s, n)
             \/ \E h \in Handlers, b \in Ids : MoveRead(h, b) \/ CancelRead(h, b)
             \/ \E h \in Handlers : MoveTaken(h)
             \/ \E b \in Ids : Approve(b)
             \/ \E S \in SUBSET Ids : Expire(S)
             \/ \E r \in Requests : Decline(r)
             \/ \E c \in Clients : Lapse(c)
             \/ Tick \/ UNCHANGED vars
      PROVE  Unsettled
  BY <1>6 DEF Submit, MoveRead, CancelRead, Read, MoveTaken, Approve, Expire, Decline, Lapse,
              Tick, vars, ledger, Unsettled
<1> QED BY <1>1, <1>2, <1>3, <1>4, <1>5, <1>6 DEF Next

\* The counter on the membership agrees with its ledger.
THEOREM BalanceHolds == Spec => []LedgerBalances
<1>1. Init => Balance
  <2> SUFFICES ASSUME Init PROVE Balance
    OBVIOUS
  <2>1. \A c \in Clients : Of({}, row, c) = Of({}, row, c)
    OBVIOUS
  <2>2. \A c \in Clients : left[c] = Pack /\ Pack \in Nat
    BY TimesAssumption DEF Init
  <2>3. \A c \in Clients : Of({}, row, c) \in Nat
    BY OfKeeps
  <2> QED BY <2>2, <2>3 DEF Init, Balance
<1>2. ASSUME TypeOK, Balance, [Next]_vars
      PROVE  Balance'
  <2>0. RowsOK /\ PacksOK /\ Pack \in Nat
    BY <1>2, TypeParts, TimesAssumption DEF Parts
  <2>1. CASE Unsettled
    <3>1. ASSUME NEW c \in Clients
          PROVE  Of(charged, row', c) = Of(charged, row, c) /\ Of(refunded, row', c) = Of(refunded, row, c)
      <4>1. /\ charged \in SUBSET Ids /\ refunded \in SUBSET Ids
            /\ \A b \in charged \cup refunded : row'[b] = row[b]
        BY <2>0, <2>1 DEF Unsettled, PacksOK
      <4> QED BY <4>1, OfKeeps
    <3> QED BY <1>2, <2>1, <3>1 DEF Unsettled, Balance
  <2>2. ASSUME NEW b, NEW d, Pays(b, d)
        PROVE  Balance'
    <3> SUFFICES ASSUME NEW c \in Clients
                 PROVE  left'[c] + Of(charged', row', c) = Pack + Of(refunded', row', c)
      BY DEF Balance
    <3>1. /\ charged \in SUBSET Ids /\ refunded \in SUBSET Ids /\ b \notin charged
          /\ \A x \in charged \cup refunded : row'[x] = row[x]
      BY <2>0, <2>2 DEF Pays, PacksOK
    <3>2. /\ Of(charged, row', c) = Of(charged, row, c) /\ Of(charged, row, c) \in Nat
          /\ Of(refunded, row', c) = Of(refunded, row, c) /\ Of(refunded, row, c) \in Nat
      BY <3>1, OfKeeps
    <3>3. left[c] + Of(charged, row, c) = Pack + Of(refunded, row, c) /\ left[c] \in Nat
      BY <1>2, <2>0 DEF Balance, PacksOK
    <3>4. refunded' = refunded
      BY <2>2 DEF Pays, Charge
    <3>5. CASE HasCredit(d)
      <4>1. charged' = charged \cup {b} /\ left' = [left EXCEPT ![d] = @ - 1] /\ row'[b].client = d
        BY <2>2, <3>5 DEF Pays, Charge
      <4>2. Of(charged', row', c) = Of(charged, row', c) + (IF d = c THEN 1 ELSE 0)
        BY <2>2, <3>1, <4>1, OfAdds DEF Pays
      <4>3. left'[c] = left[c] - (IF d = c THEN 1 ELSE 0)
        BY <2>0, <3>3, <4>1 DEF PacksOK
      <4> QED BY <2>0, <3>2, <3>3, <3>4, <4>2, <4>3
    <3>6. CASE ~HasCredit(d)
      <4>1. charged' = charged /\ left' = left
        BY <2>2, <3>6 DEF Pays, Charge
      <4> QED BY <3>2, <3>3, <3>4, <4>1
    <3> QED BY <3>5, <3>6
  <2>3. ASSUME NEW b, Returns(b)
        PROVE  Balance'
    <3> SUFFICES ASSUME NEW c \in Clients
                 PROVE  left'[c] + Of(charged', row', c) = Pack + Of(refunded', row', c)
      BY DEF Balance
    <3>1. charged \in SUBSET Ids /\ refunded \in SUBSET Ids /\ row' = row /\ charged' = charged
      BY <2>0, <2>3 DEF Returns, Refund, PacksOK
    <3>2. Of(charged, row, c) \in Nat /\ Of(refunded, row, c) \in Nat
      BY <3>1, OfKeeps
    <3>3. left[c] + Of(charged, row, c) = Pack + Of(refunded, row, c) /\ left[c] \in Nat
      BY <1>2, <2>0 DEF Balance, PacksOK
    <3>4. CASE Refundable(b)
      <4>1. refunded' = refunded \cup {b} /\ left' = [left EXCEPT ![row[b].client] = @ + 1]
        BY <2>3, <3>4 DEF Returns, Refund
      <4>2. Of(refunded', row, c) = Of(refunded, row, c) + (IF row[b].client = c THEN 1 ELSE 0)
        BY <2>3, <3>1, <3>4, <4>1, OfAdds DEF Returns, Refundable
      <4>3. left'[c] = left[c] + (IF row[b].client = c THEN 1 ELSE 0)
        BY <2>0, <3>3, <4>1 DEF PacksOK
      <4> QED BY <2>0, <3>1, <3>2, <3>3, <4>2, <4>3
    <3>5. CASE ~Refundable(b)
      <4>1. refunded' = refunded /\ left' = left
        BY <2>3, <3>5 DEF Returns, Refund
      <4> QED BY <3>1, <3>3, <4>1
    <3> QED BY <3>4, <3>5
  <2> QED BY <1>2, <2>1, <2>2, <2>3, LedgerShape
<1>3. Balance => LedgerBalances
  BY DEF Balance, LedgerBalances, Of
<1> QED BY <1>1, <1>2, <1>3, TypeCorrect, PTL DEF Spec

-----------------------------------------------------------------------------
(* Wishes *)

\* The bookings made from request r, by the rows f.
Made(f, r) == {b \in Ids : f[b] # None /\ f[b].via = r}

Granted == \A r \in Requests :
              Cardinality(Made(row, r)) = IF request[r] = "approved" THEN 1 ELSE 0

\* No wish is granted and no booking is made from one.
NotGranted == /\ \A r \in Requests : Made(row', r) = Made(row, r)
              /\ \A r \in Requests : request'[r] = "approved" <=> request[r] = "approved"

LEMMA MadeKeeps ==
    ASSUME RowsOK, NEW b, NEW c, NEW s, NEW n, NEW o, NEW st, Added(b, c, s, n, o, None, st)
    PROVE  \A r \in Requests : Made(row', r) = Made(row, r)
<1>1. /\ b \in Ids /\ row[b] = None /\ row'[b].via = None
      /\ \A x \in Ids \ {b} : row'[x] = row[x]
  BY InsertType
<1> QED BY <1>1, NoneAssumption DEF Made

LEMMA GrantShape ==
    ASSUME TypeOK, [Next]_vars
    PROVE  NotGranted \/ \E r \in Requests : Grant(r)
<1>0. RowsOK /\ RestOK
  BY TypeParts DEF Parts
<1>1. ASSUME NEW c \in Clients, NEW s \in Starts, NEW n \in Lengths, Book(c, s, n)
      PROVE  NotGranted
  <2>1. PICK b \in Ids : Insert(b, c, s, n, None, None, "pending")
    BY <1>1 DEF Book
  <2>2. Added(b, c, s, n, None, None, "pending")
    BY <2>1 DEF Added
  <2> QED BY <1>0, <1>1, <2>2, MadeKeeps DEF Book, NotGranted
<1>2. ASSUME NEW h \in Handlers, NEW s \in Starts, NEW n \in Lengths, Move(h, s, n)
      PROVE  NotGranted
  <2> DEFINE o == turn[h].id
  <2>1. turn[h] # Idle /\ turn[h] \in Turns
    BY <1>0, <1>2 DEF Move, Idle, RestOK
  <2>2. o \in Ids /\ row[o] # None
    BY <1>0, <2>1, TurnType DEF RestOK
  <2>3. row[o].client \in Clients
    BY <1>0, <2>2 DEF RowsOK, Rows
  <2>4. PICK b \in Ids : Insert(b, row[o].client, s, n, o, None, "pending")
    BY <1>2 DEF Move
  <2>5. Added(b, row[o].client, s, n, o, None, "pending")
    BY <2>2, <2>3, <2>4 DEF Added
  <2> QED BY <1>0, <1>2, <2>5, MadeKeeps DEF Move, NotGranted
<1>3. ASSUME \/ \E c \in Clients, s \in Starts, n \in Lengths : Submit(c, s, n)
             \/ \E r \in Requests : Decline(r)
      PROVE  NotGranted
  <2>1. PICK r \in Requests : /\ request[r] \in {"none", "pending"} /\ UNCHANGED row
                              /\ \/ request' = [request EXCEPT ![r] = "pending"]
                                 \/ request' = [request EXCEPT ![r] = "rejected"]
    BY <1>3 DEF Submit, Decline, Undecided, Requests
  <2> QED BY <1>0, <2>1 DEF NotGranted, RestOK
<1>4. ASSUME \/ \E h \in Handlers : \/ \E b \in Ids : MoveRead(h, b) \/ CancelRead(h, b)
                                    \/ MoveTaken(h) \/ Cancel(h)
             \/ \E b \in Ids : Approve(b) \/ Reject(b)
             \/ \E S \in SUBSET Ids : Expire(S)
             \/ \E c \in Clients : Lapse(c)
             \/ Tick \/ UNCHANGED vars
      PROVE  NotGranted
  BY <1>4 DEF MoveRead, CancelRead, Read, MoveTaken, Cancel, Approve, Reject, Expire, Lapse,
              Tick, vars, NotGranted
<1> QED BY <1>1, <1>2, <1>3, <1>4 DEF Next

\* A wish the owner granted is one booking, and no other wish is.
THEOREM GrantedHolds == Spec => []GrantedOnce
<1>1. Init => Granted
  <2> SUFFICES ASSUME Init, NEW r \in Requests
               PROVE  Cardinality(Made(row, r)) = IF request[r] = "approved" THEN 1 ELSE 0
    BY DEF Granted
  <2>1. Made(row, r) = {} /\ request[r] = "none"
    BY DEF Init, Made
  <2> QED BY <2>1, FS_EmptySet
<1>2. ASSUME TypeOK, Granted, [Next]_vars
      PROVE  Granted'
  <2>0. RowsOK /\ RestOK
    BY <1>2, TypeParts DEF Parts
  <2>1. CASE NotGranted
    BY <1>2, <2>1 DEF NotGranted, Granted
  <2>2. ASSUME NEW q \in Requests, Grant(q)
        PROVE  Granted'
    <3>1. PICK b \in Ids : Insert(b, q.client, q.start, q.length, None, q, "confirmed")
      BY <2>2 DEF Grant
    <3>2. q.client \in Clients /\ q.start \in Starts /\ q.length \in Lengths
      BY DEF Requests
    <3>3. Added(b, q.client, q.start, q.length, None, q, "confirmed")
      BY <3>1, <3>2 DEF Added
    <3>4. /\ row[b] = None /\ row'[b] # None /\ row'[b].via = q
          /\ \A x \in Ids \ {b} : row'[x] = row[x]
      BY <2>0, <3>3, InsertType
    <3>5. request[q] = "pending" /\ request' = [request EXCEPT ![q] = "approved"]
      BY <2>2 DEF Grant, Undecided
    <3>6. Made(row', q) = Made(row, q) \cup {b} /\ b \notin Made(row, q)
      BY <3>4 DEF Made
    <3>7. \A r \in Requests \ {q} : Made(row', r) = Made(row, r)
      BY <3>4 DEF Made
    <3>8. Cardinality(Made(row', q)) = 1
      <4>1. IsFiniteSet(Made(row, q))
        BY IdsAssumption, FS_Subset DEF Made
      <4>2. Cardinality(Made(row, q)) = 0
        BY <1>2, <3>5 DEF Granted
      <4> QED BY <3>6, <4>1, <4>2, FS_AddElement
    <3>9. request'[q] = "approved" /\ \A r \in Requests \ {q} : request'[r] = request[r]
      BY <2>0, <3>5 DEF RestOK
    <3> QED BY <1>2, <3>7, <3>8, <3>9 DEF Granted
  <2> QED BY <1>2, <2>1, <2>2, GrantShape
<1>3. Granted => GrantedOnce
  BY DEF Granted, GrantedOnce, Made
<1> QED BY <1>1, <1>2, <1>3, TypeCorrect, PTL DEF Spec

-----------------------------------------------------------------------------
(* What is offered *)

\* Two intervals clash where they have a half hour in common.
LEMMA Overlap ==
    ASSUME NEW s \in Nat, NEW n \in Nat \ {0}, NEW t \in Nat, NEW m \in Nat \ {0}
    PROVE  (s < t + m /\ t < s + n) <=> \E u \in s..(s + n - 1) : u \in t..(t + m - 1)
<1>1. ASSUME s < t + m, t < s + n
      PROVE  \E u \in s..(s + n - 1) : u \in t..(t + m - 1)
  <2>1. CASE s <= t
    <3>1. t \in s..(s + n - 1) /\ t \in t..(t + m - 1)
      BY <1>1, <2>1
    <3> QED BY <3>1
  <2>2. CASE t < s
    <3>1. s \in s..(s + n - 1) /\ s \in t..(t + m - 1)
      BY <1>1, <2>2
    <3> QED BY <3>1
  <2> QED BY <2>1, <2>2
<1>2. ASSUME NEW u \in s..(s + n - 1), u \in t..(t + m - 1)
      PROVE  s < t + m /\ t < s + n
  BY <1>2
<1> QED BY <1>1, <1>2

\* The hour of an opening on the hour is the opening.
LEMMA FullHour ==
    ASSUME NEW o \in Nat, o % 2 = 0
    PROVE  (o \div 2) * 2 = o
OBVIOUS

\* A business that opens on the hour.
OnTheHour == \A r \in Ranges : r[1] % 2 = 0

LEMMA CandidatesAre ==
    ASSUME OnTheHour, NEW n \in Lengths
    PROVE  Candidates(n) = {s \in {u \in 0..48 : u % 2 = 0} :
                               \E r \in Ranges : r[1] <= s /\ s + n <= r[2]}
<1>1. n \in Nat \ {0} /\ \A r \in Ranges : r[1] \in Nat /\ r[2] \in 0..48
  BY TimesAssumption
<1>2. ASSUME NEW r \in Ranges, NEW s
      PROVE  s \in {x \in ((r[1] \div 2) * 2)..r[2] : x % 2 = 0 /\ x + n <= r[2]}
             <=> s \in {u \in 0..48 : u % 2 = 0} /\ r[1] <= s /\ s + n <= r[2]
  <2>1. (r[1] \div 2) * 2 = r[1]
    BY <1>1, FullHour DEF OnTheHour
  <2>2. s \in {x \in r[1]..r[2] : x % 2 = 0 /\ x + n <= r[2]}
        <=> s \in {u \in 0..48 : u % 2 = 0} /\ r[1] <= s /\ s + n <= r[2]
    <3>1. r[1] \in Nat /\ r[2] \in 0..48 /\ n \in Nat
      BY <1>1
    <3>2. s \in 0..48 /\ r[1] <= s /\ s + n <= r[2] <=> s \in r[1]..r[2] /\ s + n <= r[2]
      BY <3>1
    <3> QED BY <3>2
  <2> QED BY <2>1, <2>2
<1> QED BY <1>2 DEF Candidates

\* A service clashes with no booking in force exactly if every half hour it
\* takes is free.
LEMMA NoClash ==
    ASSUME RowsOK, NEW s \in Nat, NEW n \in Lengths
    PROVE  (\A b \in Ids : Active(b) => ~Clash(s, n, b)) <=> \A u \in s..(s + n - 1) : Free(u)
<1>1. ASSUME NEW b \in Ids, Active(b)
      PROVE  Clash(s, n, b) <=>
                \E u \in s..(s + n - 1) : u \in row[b].start..(row[b].start + row[b].length - 1)
  <2>1. row[b] # None /\ row[b] \in Rows
    BY <1>1 DEF RowsOK, Active
  <2>2. row[b].start \in Nat /\ row[b].length \in Nat \ {0} /\ n \in Nat \ {0}
    BY <2>1, TimesAssumption DEF Rows
  <2> QED BY <2>2, Overlap DEF Clash
<1> QED BY <1>1 DEF Free

\* The chat offers exactly the full hours at which the service fits into the
\* opening hours of a business that opens on the hour, and meets nobody
\* (checkAvailability, candidatesForRange).
THEOREM OffersHold ==
    ASSUME \A r \in Ranges : r[1] % 2 = 0
    PROVE  Spec => []OffersAreRight
<1>1. ASSUME TypeOK
      PROVE  OffersAreRight
  <2>1. RowsOK /\ OnTheHour
    BY <1>1, TypeParts DEF Parts, OnTheHour
  <2>2. ASSUME NEW n \in Lengths, NEW s \in Candidates(n)
        PROVE  (\A b \in Ids : Active(b) => ~Clash(s, n, b)) <=> \A u \in s..(s + n - 1) : Free(u)
    <3>1. s \in Nat
      BY <2>1, CandidatesAre
    <3> QED BY <2>1, <3>1, NoClash
  <2> QED BY <2>1, <2>2, CandidatesAre DEF OffersAreRight, Offers
<1> QED BY <1>1, TypeCorrect, PTL

-----------------------------------------------------------------------------
(* The diary *)

\* What the page shows at a time: the booking in force that starts there,
\* which SlotHeldOnce makes unique.
PageSays ==
    \A s \in Starts : /\ Page[s] \in Ids \cup {None}
                      /\ \A b \in Ids : Page[s] = b <=> Active(b) /\ row[b].start = s

LEMMA PageIs == SlotHeldOnce => PageSays
<1> SUFFICES ASSUME SlotHeldOnce, NEW s \in Starts
             PROVE  /\ Page[s] \in Ids \cup {None}
                    /\ \A b \in Ids : Page[s] = b <=> b \in At(s)
  BY DEF PageSays, At
<1>1. Page[s] = IF At(s) = {} THEN None ELSE CHOOSE b \in At(s) : TRUE
  BY DEF Page
<1>2. CASE At(s) = {}
  BY <1>1, <1>2, NoneAssumption
<1>3. CASE At(s) # {}
  <2>1. Page[s] \in At(s) /\ At(s) \subseteq Ids
    BY <1>1, <1>3 DEF At
  <2>2. \A a, b \in At(s) : a = b
    BY DEF At, SlotHeldOnce
  <2> QED BY <2>1, <2>2
<1> QED BY <1>2, <1>3

\* A page is known by what it shows.
LEMMA SamePage ==
    ASSUME PageSays', NEW q \in [Starts -> Ids \cup {None}],
           \A s \in Starts, b \in Ids : q[s] = b <=> (Active(b) /\ row[b].start = s)'
    PROVE  Page' = q
<1>1. \A s \in Starts : Page'[s] = q[s]
  <2> TAKE s \in Starts
  <2>1. Page'[s] \in Ids \cup {None} /\ q[s] \in Ids \cup {None}
    BY DEF PageSays
  <2>2. \A b \in Ids : Page'[s] = b <=> q[s] = b
    BY DEF PageSays
  <2> QED BY <2>1, <2>2
<1>2. Page' = [s \in Starts |-> Page'[s]]
  BY DEF Page
<1> QED BY <1>1, <1>2

\* A new booking is written where the page is empty.
LEMMA GrowsWrites ==
    ASSUME RowsOK, PageSays, PageSays', Grows
    PROVE  \E b \in Ids, s \in Starts : \/ \E o \in Ids \cup {None} : Diary!Ask(b, s, o)
                                        \/ Diary!Enter(b, s)
<1>1. PICK b, c, s, n, o, r, st : Added(b, c, s, n, o, r, st) /\ SlotFree(s)
  BY DEF Grows
<1>2. /\ b \in Ids /\ row[b] = None /\ row'[b] # None /\ status[b] = "none"
      /\ row'[b].start = s /\ row'[b].from = o /\ status'[b] = st
      /\ \A x \in Ids \ {b} : row'[x] = row[x] /\ status'[x] = status[x]
  BY <1>1, InsertType
<1>3. /\ s \in Starts /\ o \in Ids \cup {None} /\ st \in {"pending", "confirmed"}
      /\ o # None => st = "pending" /\ row[o] # None
  BY <1>1 DEF Added
<1>4. Page[s] = None
  BY <1>1, <1>3 DEF PageSays, SlotFree
<1>5. Page' = [Page EXCEPT ![s] = b]
  <2> DEFINE q == [Page EXCEPT ![s] = b]
  <2>1. Page \in [Starts -> Ids \cup {None}]
    BY DEF PageSays, Page
  <2>2. q \in [Starts -> Ids \cup {None}]
    BY <1>2, <1>3, <2>1
  <2>3. ASSUME NEW t \in Starts, NEW x \in Ids
        PROVE  q[t] = x <=> status'[x] \in {"pending", "confirmed"} /\ row'[x].start = t
    <3>1. CASE x = b
      <4>1. Page[t] # b
        BY <1>2, <2>3 DEF PageSays, Active
      <4> QED BY <1>2, <1>3, <2>1, <3>1, <4>1
    <3>2. CASE x # b
      <4>1. Page[t] = x <=> status[x] \in {"pending", "confirmed"} /\ row[x].start = t
        BY <2>3 DEF PageSays, Active
      <4>2. row'[x] = row[x] /\ status'[x] = status[x]
        BY <1>2, <3>2
      <4>3. q[t] = IF t = s THEN b ELSE Page[t]
        BY <2>1
      <4>4. CASE t = s
        BY <1>4, <2>3, <3>2, <4>1, <4>2, <4>3, <4>4, NoneAssumption
      <4>5. CASE t # s
        BY <4>1, <4>2, <4>3, <4>5
      <4> QED BY <4>4, <4>5
    <3> QED BY <3>1, <3>2
  <2> HIDE DEF q
  <2>4. Page' = q
    BY <2>2, <2>3, SamePage DEF Active
  <2> QED BY <2>4 DEF q
<1>6. Known' = Known \cup {b} /\ b \notin Known
  BY <1>2 DEF Known
<1>7. Moves' = [Moves EXCEPT ![b] = o]
  BY <1>2 DEF Moves
<1>8. o # None => o \in Known
  BY <1>3 DEF Known
<1>9. Diary!Write(b, s, o)
  BY <1>4, <1>5, <1>6, <1>7, <1>8 DEF Diary!Write
<1>10. CASE st = "pending"
  <2>1. Agreed' = Agreed
    BY <1>2, <1>10 DEF Agreed
  <2> QED BY <1>2, <1>3, <1>9, <2>1 DEF Diary!Ask
<1>11. CASE st = "confirmed"
  <2>1. Agreed' = Agreed \cup {b}
    BY <1>2, <1>11 DEF Agreed
  <2>2. o = None
    BY <1>3, <1>11
  <2> QED BY <1>2, <1>3, <1>9, <2>1, <2>2 DEF Diary!Enter
<1> QED BY <1>3, <1>10, <1>11

\* An approval agrees to a booking, and with it to the end of the one it
\* moves.
LEMMA ApproveAgrees ==
    ASSUME RowsOK, NoSelfMove, PageSays, PageSays', NEW b \in Ids, Approve(b)
    PROVE  Diary!Agree(b)
<1>1. status[b] = "pending" /\ row[b] # None /\ UNCHANGED row
  BY DEF Approve, Awaits, RowsOK
<1> DEFINE o == Moves[b]
<1>2. o = row[b].from /\ row[b] \in Rows /\ o \in Ids \cup {None} /\ o # b
  BY <1>1 DEF Moves, RowsOK, NoSelfMove, Rows
<1> HIDE DEF o
<1>3. \A x \in Ids : status'[x] = IF x = b THEN "confirmed"
                                  ELSE IF x = o THEN "cancelled" ELSE status[x]
  BY <1>2 DEF Approve, Superseded
<1>4. b \notin Agreed /\ Agreed' = (Agreed \cup {b}) \ {o}
  BY <1>1, <1>2, <1>3 DEF Agreed
<1>5. row[b].start \in Starts /\ Page[row[b].start] = b
  BY <1>1, <1>2 DEF PageSays, Active, Rows
<1>6. Page' = [s \in Starts |-> IF Page[s] = o THEN None ELSE Page[s]]
  <2> DEFINE q == [s \in Starts |-> IF Page[s] = o THEN None ELSE Page[s]]
  <2>1. q \in [Starts -> Ids \cup {None}]
    BY DEF PageSays
  <2>2. ASSUME NEW s \in Starts, NEW x \in Ids
        PROVE  q[s] = x <=> status'[x] \in {"pending", "confirmed"} /\ row'[x].start = s
    <3>1. Page[s] = x <=> status[x] \in {"pending", "confirmed"} /\ row[x].start = s
      BY <2>2 DEF PageSays, Active
    <3>2. q[s] = x <=> Page[s] = x /\ x # o
      BY <2>2, NoneAssumption
    <3> QED BY <1>1, <1>2, <1>3, <3>1, <3>2
  <2> HIDE DEF q
  <2>3. Page' = q
    BY <2>1, <2>2, SamePage DEF Active
  <2> QED BY <2>3 DEF q
<1>7. UNCHANGED <<Known, Moves>>
  BY <1>1 DEF Known, Moves
<1> QED BY <1>4, <1>5, <1>6, <1>7 DEF Diary!Agree, o

\* Whatever else happens to bookings strikes them out, or leaves the diary.
LEMMA FadesStrikes ==
    ASSUME RowsOK, PageSays, PageSays', Fades,
           \A b \in Ids : status'[b] \in {"pending", "confirmed"} => status'[b] = status[b]
    PROVE  \E S \in SUBSET Ids : Diary!Strike(S)
<1> DEFINE S == {b \in Ids : status'[b] \notin {"pending", "confirmed"}}
<1>1. UNCHANGED <<Known, Moves>>
  BY DEF Fades, Known, Moves
<1>2. Agreed' = Agreed \ S
  BY DEF Agreed, Fades
<1>3. Page' = [s \in Starts |-> IF Page[s] \in S THEN None ELSE Page[s]]
  <2> DEFINE q == [s \in Starts |-> IF Page[s] \in S THEN None ELSE Page[s]]
  <2>1. q \in [Starts -> Ids \cup {None}]
    BY DEF PageSays
  <2>2. ASSUME NEW s \in Starts, NEW x \in Ids
        PROVE  q[s] = x <=> status'[x] \in {"pending", "confirmed"} /\ row'[x].start = s
    <3>1. Page[s] = x <=> status[x] \in {"pending", "confirmed"} /\ row[x].start = s
      BY <2>2 DEF PageSays, Active
    <3>2. q[s] = x <=> Page[s] = x /\ x \notin S
      BY <2>2, NoneAssumption
    <3> QED BY <3>1, <3>2 DEF Fades
  <2> HIDE DEF q
  <2>3. Page' = q
    BY <2>1, <2>2, SamePage DEF Active
  <2> QED BY <2>3 DEF q
<1> QED BY <1>1, <1>2, <1>3 DEF Diary!Strike

\* Whatever the rows, the wishes, the packs and the turns do, the diary they
\* amount to changes as SlotDiary allows: one appointment at a time, none
\* that comes back, and a move that is approved frees the old time at once.
THEOREM DiaryImplemented == Spec => ImplementsDiary
<1>1. Init => Diary!Init
  BY DEF Init, Diary!Init, Page, Known, Moves, Agreed, At, Active
<1>2. ASSUME TypeOK, Places, PageSays, PageSays', [Next]_vars
      PROVE  Diary!Next
  <2>1. RowsOK
    BY <1>2, TypeParts DEF Parts
  <2>2. CASE Grows
    BY <1>2, <2>1, <2>2, GrowsWrites DEF Diary!Next
  <2>3. CASE Fades
    <3>1. CASE \E b \in Ids : Approve(b)
      BY <1>2, <2>1, <3>1, ApproveAgrees DEF Diary!Next, Places
    <3>2. CASE \A b \in Ids : status'[b] \in {"pending", "confirmed"} => status'[b] = status[b]
      BY <1>2, <2>1, <2>3, <3>2, FadesStrikes DEF Diary!Next
    <3> QED BY <2>3, <3>1, <3>2 DEF Fades
  <2> QED BY <1>2, <2>2, <2>3, Shape DEF Places
<1>3. Places => PageSays
  BY PageIs DEF Places
<1> QED BY <1>1, <1>2, <1>3, TypeCorrect, PlacesHold, PTL DEF Spec, ImplementsDiary, Diary!Spec
=============================================================================
