----------------------------- MODULE MCNotices ------------------------------
(* Notices on small instances. *)
EXTENDS Notices, TLC

=============================================================================
