---------------------------- MODULE MCChatMemory ----------------------------
(* ChatMemory on small instances. *)
EXTENDS ChatMemory, TLC
=============================================================================
