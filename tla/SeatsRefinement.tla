-------------------------- MODULE SeatsRefinement --------------------------
(***************************************************************************)
(* SessionBooking implements ClassSeats, for every number of bookings,     *)
(* clients, classes and handlers: whatever happens to the rows, the count, *)
(* the credits and the memory of the process, the sets of clients with a   *)
(* seat only ever change as ClassSeats allows.                             *)
(***************************************************************************)
EXTENDS SessionBookingProofs

\* The sets of seat holders that the tables stand for.
AllHolders == [i \in Instances |-> Holders(i)]

\* ClassSeats counts as SessionBooking does.
LEMMA SameCount == ASSUME NEW S PROVE Seats!Cardinality(S) = Cardinality(S)
BY Zenon DEF Seats!Cardinality, Cardinality

\* Every holder is a client.
LEMMA HoldersAreClients ==
    ASSUME TypeOK, NEW i \in Instances
    PROVE  Holders(i) \in SUBSET Clients
BY DEF Holders, ActiveOn, Active, ActiveStatuses, TypeOK, RowsOK

\* There are no more clients with a seat than the count says.
LEMMA HoldersCounted ==
    ASSUME TypeOK, SeatsCovered, NEW i \in Instances
    PROVE  /\ Cardinality(Holders(i)) \in Nat
           /\ Cardinality(Holders(i)) <= bookedCount[i]
<1> DEFINE owner == [b \in ActiveOn(i) |-> client[b]]
<1>1. owner \in Surjection(ActiveOn(i), Holders(i))
  BY DEF Surjection, Holders
<1>2. IsFiniteSet(ActiveOn(i)) /\ Cardinality(ActiveOn(i)) \in Nat
  BY HeldBookings, BookingsFinite
<1>3. IsFiniteSet(Holders(i)) /\ Cardinality(Holders(i)) <= Cardinality(ActiveOn(i))
  BY <1>1, <1>2, FS_Surjection
<1>4. Cardinality(ActiveOn(i)) <= Cardinality(Held(i))
  BY HeldBookings, Fewer DEF Held
<1>5. Cardinality(Held(i)) <= bookedCount[i]
  BY DEF SeatsCovered
<1>6. Cardinality(Held(i)) \in Nat /\ bookedCount[i] \in Nat /\ Cardinality(Holders(i)) \in Nat
  BY <1>3, HeldBookings, BookingsFinite, FS_CardinalityType
<1> QED BY <1>2, <1>3, <1>4, <1>5, <1>6

\* Where no seat is made, seats are only given up.
LEMMA GivesUp ==
    ASSUME TypeOK, NoNewSeat, UNCHANGED <<closed, capacity, quoted>>
    PROVE  Seats!Withdraw
<1>1. \A i \in Instances : Holders(i)' \subseteq Holders(i)
  BY DEF Holders, ActiveOn, NoNewSeat
<1>2. AllHolders' \in [Instances -> SUBSET Clients]
  BY <1>1, HoldersAreClients DEF AllHolders
<1>3. \A i \in Instances : AllHolders'[i] \subseteq AllHolders[i]
  BY <1>1 DEF AllHolders
<1> QED BY <1>2, <1>3 DEF Seats!Withdraw, AllHolders

\* An insert grants seats to one client, in the classes of the new rows.
LEMMA InsertGrants ==
    ASSUME TypeOK, SweptAreFinal, QuotesHold, SeatsCovered, NEW c \in Clients, NEW B, NEW at,
           NEW st, NEW v, NEW f, Seated(c, B, at, st, v, f)
    PROVE  \E S \in SUBSET Instances : Seats!Grant(c, S)
<1> DEFINE S == {at[b] : b \in B}
<1>1. B \in SUBSET Ids /\ S \in SUBSET Instances
  BY DEF Seated, Places, Unused
<1>2. \A b \in Ids \ B : client'[b] = client[b]
  BY DEF Seated, Insert
<1>3. \A b \in B : client'[b] = c /\ ~Active(b)
  BY DEF Seated, Insert, Unused, Active, ActiveStatuses
<1>4. ASSUME NEW i \in Instances \ S
      PROVE  Holders(i)' = Holders(i)
  <2>1. ActiveOn(i)' = ActiveOn(i)
    BY <1>4, InsertAddsOne
  <2>2. \A b \in ActiveOn(i) : client'[b] = client[b]
    BY <1>2, <1>3 DEF ActiveOn
  <2> QED BY <2>1, <2>2 DEF Holders
<1>5. ASSUME NEW i \in S
      PROVE  /\ Holders(i)' = Holders(i) \cup {c} /\ i \notin closed /\ c \notin Holders(i)
             /\ bookedCount[i] < quoted[i]
  <2>1. PICK b \in B : ActiveOn(i)' = ActiveOn(i) \cup {b} /\ bookedCount[i] < quoted[i]
    BY <1>1, <1>5, InsertAddsOne
  <2>2. \A x \in ActiveOn(i) : client'[x] = client[x]
    BY <1>2, <1>3 DEF ActiveOn
  <2>3. ~Unlocked(i) /\ ~HasSeat(c, i)
    BY <1>5 DEF Seated, Bookable
  <2>4. i \notin closed /\ c \notin Holders(i)
    BY <1>1, <1>5, <2>3 DEF HasSeat, Holders, QuotesHold
  <2> QED BY <1>3, <2>1, <2>2, <2>4 DEF Holders
<1>6. ASSUME NEW i \in S
      PROVE  Cardinality(Holders(i)) < quoted[i]
  <2>1. Cardinality(Holders(i)) \in Nat /\ Cardinality(Holders(i)) <= bookedCount[i]
    BY <1>1, <1>6, HoldersCounted
  <2>2. bookedCount[i] \in Nat /\ quoted[i] \in Nat
    BY <1>1, <1>6, CapacityAssumption DEF TypeOK, SeatsOK
  <2> QED BY <1>5, <1>6, <2>1, <2>2
<1>7. AllHolders' = [i \in Instances |-> IF i \in S THEN Holders(i) \cup {c} ELSE Holders(i)]
  BY <1>4, <1>5 DEF AllHolders
<1>8. /\ UNCHANGED <<capacity, closed>>
      /\ quoted' = [i \in Instances |-> IF i \in S THEN 0 ELSE quoted[i]]
  BY DEF Seated, Insert
<1> HIDE DEF S
<1>9. Seats!Grant(c, S)
  BY <1>1, <1>5, <1>6, <1>7, <1>8, SameCount DEF Seats!Grant, AllHolders
<1> QED BY <1>1, <1>9

\* Calling a class off empties it and no other.
LEMMA CallsOff ==
    ASSUME TypeOK, NEW i \in Instances, CancelClass(i)
    PROVE  Seats!Close(i)
<1>1. \A b \in Ids : status'[b] = IF b \in ActiveOn(i) THEN "cancelled" ELSE status[b]
  BY DEF CancelClass, Cascade, SetStatus
<1>2. /\ UNCHANGED <<client, inst, capacity, quoted>> /\ i \notin closed /\ quoted[i] = 0
      /\ closed' = closed \cup {i}
  BY DEF CancelClass, OnlyStatus, Unlocked
<1>3. ActiveOn(i)' = {}
  BY <1>1, <1>2 DEF ActiveOn, Active, ActiveStatuses
<1>4. ASSUME NEW j \in Instances \ {i}
      PROVE  ActiveOn(j)' = ActiveOn(j)
  BY <1>1, <1>2, <1>4 DEF ActiveOn, Active
<1>5. Holders(i)' = {} /\ \A j \in Instances \ {i} : Holders(j)' = Holders(j)
  BY <1>2, <1>3, <1>4 DEF Holders
<1>6. AllHolders' = [AllHolders EXCEPT ![i] = {}]
  BY <1>5 DEF AllHolders
<1> QED BY <1>2, <1>6 DEF Seats!Close, AllHolders

\* Every step of the program is one of ClassSeats, or leaves it alone.
LEMMA StepRefines ==
    ASSUME TypeOK, SweptAreFinal, QuotesHold, SeatsCovered, [Next]_vars
    PROVE  Seats!Next
<1>1. CASE Quiet
  BY <1>1, GivesUp DEF Quiet, seatVars, Seats!Next
<1>2. CASE NewSeat
  <2>1. PICK c, B, at, st, v, f : c \in Clients /\ Seated(c, B, at, st, v, f)
    BY <1>2 DEF NewSeat
  <2> QED BY <2>1, InsertGrants DEF Seats!Next
<1>3. ASSUME NEW b \in Ids, Reject(b) \/ SweepRelease(b)
      PROVE  Seats!Next
  <2>1. NoNewSeat
    BY <1>3, SeatsAreInserted DEF Releases
  <2> QED BY <1>3, <2>1, GivesUp DEF Reject, SweepRelease, Seats!Next
<1>4. ASSUME NEW i \in Instances, CancelClass(i)
      PROVE  Seats!Next
  BY <1>4, CallsOff DEF Seats!Next
<1>5. CASE SweepExpire
  <2>1. NoNewSeat
    BY <1>5, SeatsAreInserted DEF Others
  <2> QED BY <1>5, <2>1, GivesUp DEF SweepExpire, seatVars, Seats!Next
<1>6. ASSUME NEW n \in 1..MaxCapacity, SetCapacity(n)
      PROVE  Seats!Next
  <2>1. AllHolders' = AllHolders /\ UNCHANGED <<closed, quoted>> /\ capacity' = n
    BY <1>6 DEF SetCapacity, rowVars, AllHolders, Holders, ActiveOn, Active
  <2>2. Seats!Resize(n)
    BY <2>1 DEF Seats!Resize, AllHolders
  <2> QED BY <2>2 DEF Seats!Next
<1>7. ASSUME NEW i \in Instances, LockClass(i)
      PROVE  Seats!Next
  <2>1. AllHolders' = AllHolders
    BY <1>7 DEF LockClass, rowVars, AllHolders, Holders, ActiveOn, Active
  <2>2. /\ quoted[i] = 0 /\ i \notin closed /\ bookedCount[i] < capacity
        /\ quoted' = [quoted EXCEPT ![i] = capacity] /\ UNCHANGED <<capacity, closed>>
    BY <1>7 DEF LockClass, Unlocked, Room
  <2>3. Cardinality(Holders(i)) < capacity
    <3>1. /\ Cardinality(Holders(i)) \in Nat /\ Cardinality(Holders(i)) <= bookedCount[i]
          /\ bookedCount[i] \in Nat /\ capacity \in Nat
      BY HoldersCounted DEF TypeOK, SeatsOK
    <3> QED BY <2>2, <3>1
  <2>4. Seats!Quote(i)
    BY <2>1, <2>2, <2>3, SameCount DEF Seats!Quote, AllHolders
  <2> QED BY <2>4 DEF Seats!Next
<1>8. ASSUME Crash \/ \E i \in Instances : UnlockClass(i)
      PROVE  Seats!Next
  <2>1. AllHolders' = AllHolders /\ UNCHANGED <<capacity, closed>>
    BY <1>8 DEF Crash, UnlockClass, rowVars, AllHolders, Holders, ActiveOn, Active
  <2>2. PICK S \in SUBSET Instances :
          quoted' = [i \in Instances |-> IF i \in S THEN 0 ELSE quoted[i]]
    <3>1. CASE Crash
      BY <3>1 DEF Crash
    <3>2. ASSUME NEW i \in Instances, UnlockClass(i)
          PROVE  \E S \in SUBSET Instances :
                    quoted' = [j \in Instances |-> IF j \in S THEN 0 ELSE quoted[j]]
      <4>1. quoted' = [j \in Instances |-> IF j \in {i} THEN 0 ELSE quoted[j]]
        BY <3>2 DEF UnlockClass, TypeOK, SeatsOK
      <4> QED BY <4>1
    <3> QED BY <1>8, <3>1, <3>2
  <2>3. Seats!Lapse(S)
    BY <2>1, <2>2 DEF Seats!Lapse, AllHolders
  <2> QED BY <2>3 DEF Seats!Next
<1> QED BY <1>1, <1>2, <1>3, <1>4, <1>5, <1>6, <1>7, <1>8, StepKinds DEF Releases, Others, Locks

\* The tables keep the promise of ClassSeats: one request at a time is quoted
\* a seat of a class, seats are granted in open classes, under the capacity
\* quoted; and a class that is called off is empty for good.
THEOREM Implements == Spec => ImplementsClassSeats
<1>1. Init => Seats!Init
  BY DEF Init, Seats!Init, Holders, ActiveOn, Active, ActiveStatuses
<1>2. TypeOK /\ SweptAreFinal /\ QuotesHold /\ SeatsCovered /\ [Next]_vars => [Seats!Next]_(Seats!vars)
  BY StepRefines
<1> QED BY <1>1, <1>2, TypeCorrect, SweptHolds, QuotesHolds, CoveredHolds, PTL
        DEF Spec, ImplementsClassSeats, Seats!Spec
=============================================================================
