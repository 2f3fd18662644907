--------------------------- MODULE MCAppointments ---------------------------
(* Appointments on small instances: a day that opens twice, on the hour, and closes at half past once. *)
EXTENDS Appointments, TLC

TwoRanges == {<<2, 5>>, <<6, 10>>}
Symmetry  == Permutations(Ids) \cup Permutations(Clients) \cup Permutations(Handlers)
=============================================================================
