----------------------------- MODULE MCCalendar -----------------------------
(* Calendar on small instances. *)
EXTENDS Calendar, TLC
=============================================================================
