------------------------------ MODULE SlotDiary ------------------------------
(***************************************************************************)
(* What open-slot booking promises, as the diary of a business that writes *)
(* each appointment at its time.                                           *)
(*                                                                         *)
(* A time has one entry at most.  An entry is written once, where the page *)
(* is empty, asked for or agreed with the owner; it may name an earlier    *)
(* one it moves, which loses its place at the moment the owner agrees.     *)
(* Entries are struck out in any order, and what is struck out does not    *)
(* come back, there or anywhere else.                                      *)
(*                                                                         *)
(* Appointments implements this specification.                             *)
(***************************************************************************)
CONSTANTS Times, Entries, None

VARIABLES
    page,       \* the entry at each time
    known,      \* the entries ever written
    moves,      \* for each entry, the one it moves
    agreed      \* the entries in the diary that the owner agreed to

vars == <<page, known, moves, agreed>>

Init == /\ page = [t \in Times |-> None]
        /\ known = {} /\ agreed = {}
        /\ moves = [e \in Entries |-> None]

Write(e, t, o) ==
    /\ e \notin known /\ page[t] = None
    /\ o # None => o \in known
    /\ page' = [page EXCEPT ![t] = e]
    /\ known' = known \cup {e}
    /\ moves' = [moves EXCEPT ![e] = o]

Ask(e, t, o) == Write(e, t, o) /\ agreed' = agreed

\* The owner writes an appointment a client once wished for.
Enter(e, t) == Write(e, t, None) /\ agreed' = agreed \cup {e}

Agree(e) ==
    /\ e \notin agreed /\ \E t \in Times : page[t] = e
    /\ page' = [t \in Times |-> IF page[t] = moves[e] THEN None ELSE page[t]]
    /\ agreed' = (agreed \cup {e}) \ {moves[e]}
    /\ UNCHANGED <<known, moves>>

Strike(S) ==
    /\ page' = [t \in Times |-> IF page[t] \in S THEN None ELSE page[t]]
    /\ agreed' = agreed \ S
    /\ UNCHANGED <<known, moves>>

Next == \/ \E S \in SUBSET Entries : Strike(S)
        \/ \E e \in Entries : Agree(e)
        \/ \E e \in Entries, t \in Times : \/ Enter(e, t)
                                           \/ \E o \in Entries \cup {None} : Ask(e, t, o)

Spec == Init /\ [][Next]_vars
=============================================================================
