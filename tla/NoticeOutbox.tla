---------------------------- MODULE NoticeOutbox ----------------------------
(***************************************************************************)
(* What the pollers promise of a notice that is claimed before it is sent, *)
(* without their sweeps, lists and rows.                                   *)
(*                                                                         *)
(* A notice is open until somebody takes it, and is then held by one       *)
(* sender only, who sends it once, or loses it.  Where notices can be      *)
(* given back a sender that fails does so, whether the notice arrived or   *)
(* not, and none goes unsent but by a restart or because it is withdrawn.  *)
(*                                                                         *)
(* Notices implements this specification.                                  *)
(***************************************************************************)
EXTENDS Naturals

CONSTANT Letters    \* the notices

VARIABLES
    place,          \* where each notice is
    arrived,        \* how often it has arrived
    returnable,     \* a notice can be given back: the hint to connect a calendar
    crashed         \* the process has been restarted

vars == <<place, arrived, returnable, crashed>>

Init == /\ place = [n \in Letters |-> "open"]
        /\ arrived = [n \in Letters |-> 0]
        /\ returnable \in BOOLEAN
        /\ crashed = FALSE

Goes(n, from, to) == place[n] = from /\ place' = [place EXCEPT ![n] = to]

Take(n) == /\ Goes(n, "open", "held")
           /\ UNCHANGED <<arrived, returnable, crashed>>

Send(n) == /\ Goes(n, "held", "gone")
           /\ arrived' = [arrived EXCEPT ![n] = @ + 1]
           /\ UNCHANGED <<returnable, crashed>>

\* A sender that gives the notice back does not know whether it arrived.
Fail(n) == /\ returnable /\ Goes(n, "held", "failed")
           /\ arrived' \in {arrived, [arrived EXCEPT ![n] = @ + 1]}
           /\ UNCHANGED <<returnable, crashed>>

GiveBack(n) == /\ Goes(n, "failed", "open")
               /\ UNCHANGED <<arrived, returnable, crashed>>

\* A hint nobody is to send any more.
Withdraw(n) == /\ returnable /\ Goes(n, "open", "gone")
               /\ UNCHANGED <<arrived, returnable, crashed>>

\* A send that fails loses its notice, a list that is dropped or replaced
\* all of those on it.
Lose(S) == /\ ~returnable
           /\ \A n \in S : place[n] = "held"
           /\ place' = [n \in Letters |-> IF n \in S THEN "gone" ELSE place[n]]
           /\ UNCHANGED <<arrived, returnable, crashed>>

Crash == /\ place' = [n \in Letters |-> IF place[n] = "open" THEN "open" ELSE "gone"]
         /\ crashed' = TRUE
         /\ UNCHANGED <<arrived, returnable>>

Next == \/ \E n \in Letters : Take(n) \/ Send(n) \/ Fail(n) \/ GiveBack(n) \/ Withdraw(n)
        \/ \E S \in SUBSET Letters : Lose(S)
        \/ Crash

Spec == Init /\ [][Next]_vars
=============================================================================
