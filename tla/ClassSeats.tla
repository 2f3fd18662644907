----------------------------- MODULE ClassSeats -----------------------------
(***************************************************************************)
(* What the class booking subsystem promises, without any of its rows.     *)
(*                                                                         *)
(* A class instance has a set of clients who hold a seat in it.  One       *)
(* request at a time is quoted a seat in a class, under the capacity of    *)
(* that moment and only if the class is open and has a seat left.  A       *)
(* client is granted a seat in a class that was quoted and in which the    *)
(* client holds none, and the quote is used up.  Seats are given up in any *)
(* order.  The owner may change the capacity at any time, also below the   *)
(* number of seats already granted: nobody is turned out, and nobody else  *)
(* gets in but by the one quote that is out.  An instance that is called   *)
(* off, which waits for that quote, is empty from that moment on.          *)
(*                                                                         *)
(* SessionBooking implements this specification.                           *)
(***************************************************************************)
EXTENDS Naturals, FiniteSets

CONSTANTS Clients, Instances, MaxCapacity

VARIABLES
    holders,    \* for each class instance, the clients holding a seat in it
    capacity,   \* the number of seats the catalog entry offers
    closed,     \* the instances that were called off
    quoted      \* the capacity that the request under way was quoted, or 0

vars == <<holders, capacity, closed, quoted>>

Init == /\ holders = [i \in Instances |-> {}]
        /\ capacity \in 1..MaxCapacity
        /\ closed = {}
        /\ quoted = [i \in Instances |-> 0]

Quote(i) == /\ quoted[i] = 0 /\ i \notin closed
            /\ Cardinality(holders[i]) < capacity
            /\ quoted' = [quoted EXCEPT ![i] = capacity]
            /\ UNCHANGED <<holders, capacity, closed>>

\* Requests that come to nothing.
Lapse(S) == /\ quoted' = [i \in Instances |-> IF i \in S THEN 0 ELSE quoted[i]]
            /\ UNCHANGED <<holders, capacity, closed>>

\* One request may seat a client in several classes at once.
Grant(c, S) ==
    /\ \A i \in S : /\ i \notin closed
                    /\ c \notin holders[i]
                    /\ Cardinality(holders[i]) < quoted[i]
    /\ holders' = [i \in Instances |-> IF i \in S THEN holders[i] \cup {c}
                                                  ELSE holders[i]]
    /\ quoted' = [i \in Instances |-> IF i \in S THEN 0 ELSE quoted[i]]
    /\ UNCHANGED <<capacity, closed>>

\* Cancelling, rejecting, expiring, rescheduling away and erasing a client
\* all give seats up; the outside sees only that the sets shrink.
Withdraw ==
    /\ \E h \in [Instances -> SUBSET Clients] :
          /\ \A i \in Instances : h[i] \subseteq holders[i]
          /\ holders' = h
    /\ UNCHANGED <<capacity, closed, quoted>>

Resize(n) == /\ capacity' = n
             /\ UNCHANGED <<holders, closed, quoted>>

Close(i) == /\ i \notin closed /\ quoted[i] = 0
            /\ closed' = closed \cup {i}
            /\ holders' = [holders EXCEPT ![i] = {}]
            /\ UNCHANGED <<capacity, quoted>>

Next == \/ \E i \in Instances : Quote(i) \/ Close(i)
        \/ \E S \in SUBSET Instances : Lapse(S)
        \/ \E c \in Clients, S \in SUBSET Instances : Grant(c, S)
        \/ Withdraw
        \/ \E n \in 1..MaxCapacity : Resize(n)

Spec == Init /\ [][Next]_vars
=============================================================================
