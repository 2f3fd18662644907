----------------------------- MODULE ChatMemory -----------------------------
(***************************************************************************)
(* What an agent remembers of a conversation with one participant, and the *)
(* turns that use it: the client's, the owner's and the onboarding agent.  *)
(*                                                                         *)
(* Gemini keeps the conversation as a chain of interactions; the database  *)
(* keeps the head of the chain, the last exchanges and a summary of the    *)
(* ones before.  An interaction never changes, so that a chain is what it  *)
(* knows, and whether it ends in a tool call nobody answered; Gemini       *)
(* rejects such a chain, and may drop any other.  An exchange is the       *)
(* number of its message.                                                  *)
(*                                                                         *)
(* A client's turn is one transaction; the other agents' statements commit *)
(* one by one.  Gemini is external.  A definition Faulty<X>, before X, is  *)
(* X with a mistake in it, to show that a property can fail.               *)
(***************************************************************************)
EXTENDS Naturals, Sequences, FiniteSets, Functions

CONSTANTS
    Turns,          \* messages the process may be answering at a time
    MaxMessages,    \* bound on the messages of a run
    MaxChainTurns,  \* MEMORY_LIMITS.MAX_CHAIN_TURNS
    SeedExchanges,  \* MEMORY_LIMITS.SEED_EXCHANGES
    MaxStored,      \* MEMORY_LIMITS.MAX_STORED_EXCHANGES
    MaxToolRounds,  \* MAX_TOOL_ROUNDS
    Roles,          \* the agents of the instance
    None

ASSUME RolesAssumption == Roles \subseteq {"client", "owner", "onboarding"}
ASSUME LimitsAssumption ==
    /\ {MaxMessages, MaxChainTurns, MaxToolRounds} \subseteq Nat \ {0}
    /\ SeedExchanges \in Nat /\ MaxStored \in Nat
    /\ MaxChainTurns + SeedExchanges <= MaxStored

VARIABLES
    role,           \* which agent this is
    memory,         \* the conversation_memory row, None without one
    legacy,         \* interaction_id of the latest conversation_turns row
    turn,           \* the turns being answered
    said            \* how many messages the participant has sent

vars == <<role, memory, legacy, turn, said>>

Messages == 1..MaxMessages
Chains   == [knows : SUBSET Messages, open : BOOLEAN]
States   == [head : Chains \cup {None}, summary : SUBSET Messages,
             recent : Seq(Messages), turns : Nat]
Empty    == [head |-> None, summary |-> {}, recent |-> <<>>, turns |-> 0]
Idle     == [at |-> "idle"]

\* at: waiting for the model, for tools, for the throw-away call that
\* answers a tool, or for the end.  known: what the row held when it was
\* read; saved: what the turn has written.
Running == [at : {"call", "tools", "close", "done"}, msg : Messages, on : BOOLEAN,
            mem : States, head : Chains \cup {None}, round : 1..MaxToolRounds,
            calls : Nat, ran : BOOLEAN, known : SUBSET Messages, saved : States \cup {None},
            out : Chains \cup {None}]

TypeOK ==
    /\ role \in Roles
    /\ memory \in States \cup {None}
    /\ memory # None => Len(memory.recent) <= MaxStored /\ memory.turns <= MaxChainTurns
    /\ legacy \in Chains \cup {None}
    /\ turn \in [Turns -> Running \cup {Idle}]
    /\ said \in 0..MaxMessages

Init ==
    /\ role \in Roles
    /\ memory = None /\ legacy = None
    /\ turn = [t \in Turns |-> Idle]
    /\ said = 0

-----------------------------------------------------------------------------
(* The context window *)

Kept(s) == s.summary \cup Range(s.recent)

\* slice(-n) and what it leaves out.
Last(q, n)   == SubSeq(q, IF Len(q) > n THEN Len(q) - n + 1 ELSE 1, Len(q))
Before(q, n) == SubSeq(q, 1, IF Len(q) > n THEN Len(q) - n ELSE 0)

FaultyOverdue(s) == s.turns > MaxStored
\* decideChain's cap on the turns of a chain.
Overdue(s) == s.turns >= MaxChainTurns

\* startFreshChain: all but the last exchanges go into the summary.
Fresh(s) == [head    |-> None,
             summary |-> s.summary \cup Range(Before(s.recent, SeedExchanges)),
             recent  |-> Last(s.recent, SeedExchanges),
             turns   |-> 0]

FaultySeed(s) == {}
\* buildSeed
Seed(s) == Kept(s)

\* finishTurn
Finished(s, m, chain) == [head    |-> chain,
                          summary |-> s.summary,
                          recent  |-> Last(Append(s.recent, m), MaxStored),
                          turns   |-> s.turns + 1]

\* What the next interaction of turn r will know.
Context(r) == IF r.head # None THEN r.head.knows \cup {r.msg}
              ELSE {r.msg} \cup (IF r.on THEN Seed(r.mem) ELSE {})

\* One call more, as far as this model counts them.
Counted(n) == IF n < MaxToolRounds + 3 THEN n + 1 ELSE n

-----------------------------------------------------------------------------
(* Saving is best effort: r is the turn after a save of s that worked, or
   after one that did not. *)

Put(t, r) == turn' = [turn EXCEPT ![t] = r]

Save(t, r, s) ==
    \/ /\ Put(t, [r EXCEPT !.saved = s])
       /\ memory' = IF role = "client" THEN memory ELSE s
    \/ Put(t, r) /\ UNCHANGED memory

Keep(t, r) == Put(t, r) /\ UNCHANGED memory

\* A fresh chain is saved if that changes anything.
Restart(t, r) ==
    LET s == Fresh(r.mem)
        n == [r EXCEPT !.mem = s, !.head = None, !.round = 1]
    IN  IF s.summary # r.mem.summary \/ r.mem.head # None THEN Save(t, n, s) ELSE Keep(t, n)

\* The turn ends with a chain to continue, or None to begin another.
Finish(t, r, chain, out) ==
    LET n == [r EXCEPT !.at = "done", !.out = out]
    IN  IF r.on THEN Save(t, n, Finished(r.mem, r.msg, chain)) ELSE Keep(t, n)

FaultyAborted(r) == r.head
\* recordAbortedTurn: after tools ran, the chain ends in their calls.
Aborted(r) == None

Abort(t, r, out) ==
    IF r.ran THEN Finish(t, r, Aborted(r), out)
             ELSE Keep(t, [r EXCEPT !.at = "done", !.out = out])

-----------------------------------------------------------------------------
(* A turn *)

\* beginTurn reads the row, or fails and does without; without a row, or
\* without the table, a client's chain is the one in conversation_turns.
Begin(t) ==
    LET found == IF memory # None THEN memory ELSE [Empty EXCEPT !.head = legacy]
        run   == [at |-> "call", msg |-> said + 1, on |-> TRUE, mem |-> found,
                  head |-> found.head, round |-> 1, calls |-> 1, ran |-> FALSE,
                  known |-> Kept(found), saved |-> None, out |-> None]
    IN
    /\ turn[t] = Idle /\ said < MaxMessages
    /\ said' = said + 1
    /\ \/ /\ found.head # None /\ ~Overdue(found)
          /\ Keep(t, run)
       \/ \* no chain, too many turns, too many tokens, or too long ago
          Restart(t, run)
       \/ Keep(t, [run EXCEPT !.on = FALSE, !.mem = Empty, !.head = legacy, !.known = {}])
    /\ UNCHANGED <<role, legacy>>

\* A chain that ends in a tool call takes only the tool's result.
Usable(r) == r.head # None /\ r.head.open => r.round > 1

Answer(t) ==
    LET chain == [knows |-> Context(turn[t]), open |-> FALSE] IN
    /\ turn[t].at = "call" /\ Usable(turn[t])
    /\ Finish(t, turn[t], chain, chain)
    /\ UNCHANGED <<role, legacy, said>>

AskTools(t) ==
    /\ turn[t].at = "call" /\ Usable(turn[t])
    /\ Put(t, [turn[t] EXCEPT !.at = "tools", !.head = [knows |-> Context(turn[t]), open |-> TRUE]])
    /\ UNCHANGED <<role, memory, legacy, said>>

FaultyRestartable(r) == r.round = 1
\* The first call of a turn on a stored chain.
Restartable(r) == r.head # None /\ r.round = 1

\* isChainRejected: a 400 or 404 for a dead chain, retried once on a fresh
\* one; for anything else, a failed call.
Reject(t) ==
    LET r == [turn[t] EXCEPT !.calls = Counted(@)] IN
    /\ r.at = "call" /\ Restartable(r)
    /\ IF r.on THEN Restart(t, r) ELSE Keep(t, [r EXCEPT !.head = None, !.round = 1])
    /\ UNCHANGED <<role, legacy, said>>

\* The model does not answer; the client's row in conversation_turns gets
\* the head as it is, or the one before after a rate limit.
Fail(t) ==
    LET r == turn[t] IN
    /\ r.at = "call"
    /\ \E out \in {r.head, legacy, None} : Abort(t, r, out)
    /\ UNCHANGED <<role, legacy, said>>

FaultyNextRound(r) == r.round
NextRound(r) == r.round + 1

RunTools(t) ==
    LET r == [turn[t] EXCEPT !.ran = TRUE] IN
    /\ turn[t].at = "tools"
    /\ IF r.round < MaxToolRounds THEN Keep(t, [r EXCEPT !.at = "call", !.round = NextRound(r), !.calls = Counted(@)])
                                  ELSE Abort(t, r, r.head)
    /\ UNCHANGED <<role, legacy, said>>

\* A tool of the owner's that sends a keyboard ends the turn: its call is
\* answered first.  The end of the onboarding leaves the chain.
ToolReplies(t) ==
    LET r == [turn[t] EXCEPT !.ran = TRUE] IN
    /\ r.at = "tools" /\ role # "client"
    /\ IF role = "owner" /\ r.on THEN Keep(t, [r EXCEPT !.at = "close", !.calls = Counted(@)])
                                 ELSE Finish(t, r, None, None)
    /\ UNCHANGED <<role, legacy, said>>

\* closeToolTurn: the call works, or fails or asks for another tool.
CloseTurn(t) ==
    LET r == turn[t] IN
    /\ r.at = "close"
    /\ \E chain \in {[r.head EXCEPT !.open = FALSE], None} : Finish(t, r, chain, None)
    /\ UNCHANGED <<role, legacy, said>>

\* The turn is stored and the reply sent.
Commit(t) ==
    LET r == turn[t] IN
    /\ r.at = "done"
    /\ Put(t, Idle)
    /\ IF role = "client"
          THEN /\ memory' = IF r.saved = None THEN memory ELSE r.saved
               /\ legacy' = r.out
          ELSE UNCHANGED <<memory, legacy>>
    /\ UNCHANGED <<role, said>>

\* A crash, or a client's transaction that times out or whose reply cannot
\* be sent.
GiveUp(t) ==
    /\ turn[t] # Idle
    /\ Put(t, Idle)
    /\ UNCHANGED <<role, memory, legacy, said>>

\* The owner erases the client, deleteClientBookingData.
Erase ==
    /\ role = "client" /\ memory # None
    /\ memory' = None /\ legacy' = None
    /\ UNCHANGED <<role, turn, said>>

Step(t) == \/ Answer(t) \/ AskTools(t) \/ Reject(t) \/ Fail(t)
           \/ RunTools(t) \/ ToolReplies(t) \/ CloseTurn(t) \/ Commit(t)

Next == \/ \E t \in Turns : Begin(t) \/ Step(t) \/ GiveUp(t)
        \/ Erase

Spec == Init /\ [][Next]_vars

\* Every call to the model and to the database is bounded by a timeout.
FairSpec == Spec /\ \A t \in Turns : WF_vars(Step(t))

-----------------------------------------------------------------------------
\* Of what a turn found, nothing gets lost between the exchanges that are
\* kept and the ones that are summarised: a chain is retired before it
\* outgrows the row.
NothingForgotten ==
    \A t \in Turns : turn[t] # Idle /\ turn[t].saved # None
                        => turn[t].known \subseteq Kept(turn[t].saved)

\* The chain of the memory row never waits for the result of a tool, however
\* the turn ended.  That of conversation_turns may, after an aborted turn; it
\* is continued only where there is no row, and begun anew when it is rejected.
NoDanglingChain == memory # None /\ memory.head # None => ~memory.head.open

\* "A fresh chain is NOT amnesiac": the chain the next message continues
\* knows all that is stored, also after chains that were dropped, turns that
\* were aborted and rows that were not written.
ChainKnowsAll ==
    memory # None /\ memory.head # None => Kept(memory) \subseteq memory.head.knows

\* A chain that is rejected is not tried again and again: a message costs
\* one call for every round, one for a dead chain and one to close the turn.
CallsBounded == \A t \in Turns : turn[t] # Idle => turn[t].calls <= MaxToolRounds + 2

\* Every message is answered, if only by an apology, or given up.
TurnEnds == \A t \in Turns : turn[t] # Idle ~> turn[t] = Idle
=============================================================================
