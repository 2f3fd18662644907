-------------------------- MODULE MCSessionBooking --------------------------
(* SessionBooking on small instances. *)
EXTENDS SessionBooking, TLC

\* Bookings, clients, classes and handlers are interchangeable.  Only for
\* safety: TLC's symmetry reduction is not sound for liveness.
Symmetry == Permutations(Ids) \cup Permutations(Clients)
               \cup Permutations(Instances) \cup Permutations(Handlers)
=============================================================================
