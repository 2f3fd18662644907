-------------------------- MODULE ChatMemoryProofs --------------------------
(***************************************************************************)
(* The safety of ChatMemory for any number of turns and messages and any   *)
(* limits that satisfy LimitsAssumption.                                   *)
(*                                                                         *)
(* A row never holds more exchanges than its fresh chain began with and    *)
(* the chain's turns, so that the cap on the turns keeps the row below its *)
(* own limit (Sound); whatever a turn has at hand, its chain knows         *)
(* (RunOK).                                                                *)
(***************************************************************************)
EXTENDS ChatMemory, TLAPS

\* A row as beginTurn may find it: its exchanges are those its chain began
\* with and one for every turn.
Sound(s) ==
    /\ s \in States
    /\ Len(s.recent) <= SeedExchanges + s.turns
    /\ s.turns <= MaxChainTurns

\* A row as it may be stored: its chain waits for nothing and knows it all.
Storable(s) ==
    /\ Sound(s)
    /\ s.head # None => ~s.head.open /\ Kept(s) \subseteq s.head.knows

\* A turn under way.
RunOK(r) ==
    /\ r \in Running
    /\ r.on => /\ Sound(r.mem) /\ r.known \subseteq Kept(r.mem)
               /\ r.at # "done" => r.mem.turns < MaxChainTurns
               /\ r.head # None => Kept(r.mem) \subseteq r.head.knows
    /\ r.at \in {"tools", "close"} =>
          r.head \in Chains /\ r.msg \in r.head.knows
             /\ (r.on => Kept(r.mem) \subseteq r.head.knows)
    /\ r.saved # None => Storable(r.saved) /\ r.known \subseteq Kept(r.saved)
    /\ r.calls <= r.round + (IF r.at \in {"close", "done"} THEN 2 ELSE 1)
    /\ r.at = "call" /\ Restartable(r) => r.calls <= 1

RowOK   == memory # None => Storable(memory)
TurnsOK == \A t \in Turns : turn[t] # Idle => RunOK(turn[t])

Types == /\ role \in Roles
         /\ memory \in States \cup {None}
         /\ legacy \in Chains \cup {None}
         /\ turn \in [Turns -> Running \cup {Idle}]
         /\ said \in 0..MaxMessages

IInv == Types /\ RowOK /\ TurnsOK

LEMMA Limits ==
    /\ MaxMessages \in Nat /\ MaxChainTurns \in Nat /\ MaxToolRounds \in Nat
    /\ SeedExchanges \in Nat /\ MaxStored \in Nat
    /\ MaxChainTurns >= 1 /\ MaxToolRounds >= 1
    /\ MaxChainTurns + SeedExchanges <= MaxStored
BY LimitsAssumption

LEMMA RowFits == ASSUME NEW s, Sound(s) PROVE Len(s.recent) <= MaxStored
<1>1. Len(s.recent) \in Nat /\ s.turns \in Nat
  BY DEF Sound, States
<1> QED BY <1>1, Limits DEF Sound

-----------------------------------------------------------------------------
(* Lemmas about the operators *)

\* slice: a sequence is what it leaves out and what it keeps.
LEMMA SliceFacts ==
    ASSUME NEW q \in Seq(Messages), NEW n \in Nat
    PROVE  /\ Last(q, n) \in Seq(Messages) /\ Len(Last(q, n)) <= n /\ Len(Last(q, n)) <= Len(q)
           /\ Len(q) <= n => Last(q, n) = q
           /\ Range(Last(q, n)) \subseteq Range(q)
           /\ Range(Before(q, n)) \cup Range(Last(q, n)) = Range(q)
<1> DEFINE k == IF Len(q) > n THEN Len(q) - n ELSE 0
<1>1. k \in Nat /\ k <= Len(q) /\ Len(q) - k <= n /\ (Len(q) <= n => k = 0) /\ Len(q) \in Nat
  OBVIOUS
<1>2. Last(q, n) = SubSeq(q, k + 1, Len(q)) /\ Before(q, n) = SubSeq(q, 1, k)
  BY DEF Last, Before
<1> HIDE DEF k
<1>3. /\ Len(Last(q, n)) = Len(q) - k
      /\ Last(q, n) = [i \in 1..(Len(q) - k) |-> q[i + k]]
      /\ Before(q, n) = [i \in 1..k |-> q[i]]
  BY <1>1, <1>2
<1>4. Last(q, n) \in Seq(Messages)
  BY <1>1, <1>2
<1>5. Len(q) <= n => Last(q, n) = q
  BY <1>1, <1>3
<1>6. Range(Last(q, n)) = {q[i + k] : i \in 1..(Len(q) - k)}
  BY <1>3 DEF Range
<1>7. Range(Before(q, n)) = {q[i] : i \in 1..k}
  BY <1>3 DEF Range
<1>8. Range(q) = {q[i] : i \in 1..Len(q)}
  BY DEF Range
<1>9. Range(Last(q, n)) \subseteq Range(q) /\ Range(Before(q, n)) \subseteq Range(q)
  BY <1>1, <1>6, <1>7, <1>8
<1>10. ASSUME NEW i \in 1..Len(q) PROVE q[i] \in Range(Before(q, n)) \cup Range(Last(q, n))
  <2>1. CASE i <= k
    BY <1>1, <1>7, <2>1
  <2>2. CASE i > k
    <3>1. i - k \in 1..(Len(q) - k) /\ (i - k) + k = i
      BY <1>1, <2>2
    <3> QED BY <1>6, <3>1
  <2> QED BY <1>1, <2>1, <2>2
<1>11. Range(Before(q, n)) \cup Range(Last(q, n)) = Range(q)
  BY <1>8, <1>9, <1>10
<1>12. Len(Last(q, n)) <= n /\ Len(Last(q, n)) <= Len(q)
  BY <1>1, <1>3
<1> QED BY <1>4, <1>5, <1>9, <1>11, <1>12

\* A message added at the end.
LEMMA AppendFacts ==
    ASSUME NEW q \in Seq(Messages), NEW m \in Messages
    PROVE  /\ Append(q, m) \in Seq(Messages) /\ Len(Append(q, m)) = Len(q) + 1
           /\ Range(Append(q, m)) = Range(q) \cup {m}
<1>1. Append(q, m) \in Seq(Messages) /\ Len(Append(q, m)) = Len(q) + 1 /\ Len(q) \in Nat
         /\ Append(q, m)[Len(q) + 1] = m /\ \A i \in 1..Len(q) : Append(q, m)[i] = q[i]
  OBVIOUS
<1>2. Range(Append(q, m)) = {Append(q, m)[i] : i \in 1..(Len(q) + 1)}
         /\ Range(q) = {q[i] : i \in 1..Len(q)}
  BY <1>1 DEF Range
<1> QED BY <1>1, <1>2

\* startFreshChain loses nothing.
LEMMA FreshFacts ==
    ASSUME NEW s, Sound(s)
    PROVE  Storable(Fresh(s)) /\ Kept(Fresh(s)) = Kept(s) /\ Fresh(s).turns = 0
<1>1. s.recent \in Seq(Messages) /\ s.summary \in SUBSET Messages
  BY DEF Sound, States
<1> DEFINE a == Last(s.recent, SeedExchanges)
           b == s.summary \cup Range(Before(s.recent, SeedExchanges))
<1>2. /\ a \in Seq(Messages) /\ Len(a) <= SeedExchanges
      /\ Range(Before(s.recent, SeedExchanges)) \cup Range(a) = Range(s.recent)
      /\ Range(s.recent) \subseteq Messages
  <2>1. Range(s.recent) \subseteq Messages
    BY <1>1 DEF Range
  <2> QED BY <1>1, <2>1, SliceFacts, Limits
<1>3. Fresh(s) = [head |-> None, summary |-> b, recent |-> a, turns |-> 0]
  BY DEF Fresh
<1>4. b \in SUBSET Messages /\ b \cup Range(a) = s.summary \cup Range(s.recent)
  BY <1>1, <1>2
<1> HIDE DEF a, b
<1>5. Fresh(s) \in States
  BY <1>2, <1>3, <1>4 DEF States
<1>6. Kept(Fresh(s)) = Kept(s)
  BY <1>3, <1>4 DEF Kept
<1>7. Sound(Fresh(s)) /\ Fresh(s).head = None
  BY <1>2, <1>3, <1>5, Limits DEF Sound
<1> QED BY <1>3, <1>6, <1>7 DEF Storable

\* finishTurn on a chain below the cap drops no exchange.
LEMMA FinishedFacts ==
    ASSUME NEW s, Sound(s), s.turns < MaxChainTurns, NEW m \in Messages,
           NEW chain \in Chains \cup {None}
    PROVE  /\ Sound(Finished(s, m, chain)) /\ Finished(s, m, chain).head = chain
           /\ Kept(Finished(s, m, chain)) = Kept(s) \cup {m}
<1>1. s.recent \in Seq(Messages) /\ s.summary \in SUBSET Messages /\ s.turns \in Nat
  BY DEF Sound, States
<1> DEFINE a == Append(s.recent, m)
<1>2. a \in Seq(Messages) /\ Len(a) = Len(s.recent) + 1 /\ Range(a) = Range(s.recent) \cup {m}
         /\ Len(s.recent) \in Nat
  BY <1>1, AppendFacts
<1>3. Len(a) <= SeedExchanges + (s.turns + 1) /\ Len(a) <= MaxStored
  BY <1>1, <1>2, Limits DEF Sound
<1> HIDE DEF a
<1>4. Last(a, MaxStored) = a
  BY <1>2, <1>3, SliceFacts, Limits
<1>5. Finished(s, m, chain) = [head |-> chain, summary |-> s.summary, recent |-> a, turns |-> s.turns + 1]
  BY <1>4 DEF Finished, a
<1>6. Finished(s, m, chain) \in States
  BY <1>1, <1>2, <1>5 DEF States
<1>7. s.turns + 1 <= MaxChainTurns
  BY <1>1, Limits
<1> QED BY <1>2, <1>3, <1>5, <1>6, <1>7 DEF Sound, Kept

-----------------------------------------------------------------------------
(* A turn *)

\* The turn goes on as n, and writes the row or not.
Goes(t, n) ==
    /\ RunOK(n) /\ Put(t, n)
    /\ memory' = memory \/ Storable(memory')

LEMMA SaveGoes ==
    ASSUME NEW t \in Turns, NEW r, NEW s, RunOK(r), Storable(s), r.known \subseteq Kept(s),
           Save(t, r, s)
    PROVE  \E n : Goes(t, n)
<1>1. RunOK([r EXCEPT !.saved = s])
  <2>1. s \in States
    BY DEF Storable, Sound
  <2>2. r \in Running
    BY DEF RunOK
  <2> DEFINE n == [r EXCEPT !.saved = s]
  <2>3. n \in Running /\ n.saved = s /\ n.at = r.at /\ n.msg = r.msg /\ n.on = r.on
           /\ n.mem = r.mem /\ n.head = r.head /\ n.round = r.round /\ n.calls = r.calls
           /\ n.known = r.known
    BY <2>1, <2>2 DEF Running
  <2> HIDE DEF n
  <2>4. RunOK(n)
    BY <2>3 DEF RunOK, Restartable
  <2> QED BY <2>4 DEF n
<1>2. CASE Put(t, [r EXCEPT !.saved = s]) /\ memory' = IF role = "client" THEN memory ELSE s
  BY <1>1, <1>2 DEF Goes
<1>3. CASE Put(t, r) /\ UNCHANGED memory
  BY <1>3 DEF Goes
<1> QED BY <1>2, <1>3 DEF Save

\* A turn starts over on a fresh chain, which loses nothing it knew.
LEMMA RestartGoes ==
    ASSUME NEW t \in Turns, NEW r, r \in Running, Sound(r.mem), r.known \subseteq Kept(r.mem),
           r.saved # None => Storable(r.saved) /\ r.known \subseteq Kept(r.saved),
           r.at = "call", r.calls <= 2, Restart(t, r)
    PROVE  \E n : Goes(t, n)
<1> DEFINE s == Fresh(r.mem)
           n == [r EXCEPT !.mem = s, !.head = None, !.round = 1]
<1>1. Storable(s) /\ Kept(s) = Kept(r.mem) /\ s.turns = 0
  BY FreshFacts
<1>2. Sound(s) /\ s \in States
  BY <1>1 DEF Storable, Sound
<1> HIDE DEF s
<1>3. /\ n \in Running /\ n.at = "call" /\ n.mem = s /\ n.head = None /\ n.round = 1
      /\ n.calls = r.calls /\ n.saved = r.saved /\ n.known = r.known /\ n.on = r.on
  <2>1. 1 \in 1..MaxToolRounds /\ None \in Chains \cup {None}
    BY Limits
  <2> HIDE DEF s
  <2>2. n \in Running
    BY <1>2, <2>1 DEF Running
  <2> QED BY <2>2 DEF Running
<1>4. RunOK(n)
  BY <1>1, <1>2, <1>3, Limits DEF RunOK, Restartable
<1>5. CASE Save(t, n, s)
  BY <1>1, <1>3, <1>4, <1>5, SaveGoes
<1>6. CASE Keep(t, n)
  BY <1>4, <1>6 DEF Goes, Keep
<1> QED BY <1>5, <1>6 DEF Restart, s

\* A turn ends on a chain that waits for nothing and knows it all, or on
\* none.
LEMMA FinishGoes ==
    ASSUME NEW t \in Turns, NEW r, RunOK(r), r.at # "done",
           r.calls <= r.round + 2,
           NEW out \in Chains \cup {None}, NEW chain \in Chains \cup {None},
           r.on /\ chain # None => ~chain.open /\ Kept(r.mem) \cup {r.msg} \subseteq chain.knows,
           Finish(t, r, chain, out)
    PROVE  \E n : Goes(t, n)
<1> DEFINE n == [r EXCEPT !.at = "done", !.out = out]
           s == Finished(r.mem, r.msg, chain)
<1>1. r \in Running
  BY DEF RunOK
<1>2. /\ n \in Running /\ n.at = "done" /\ n.mem = r.mem /\ n.head = r.head
      /\ n.round = r.round /\ n.calls = r.calls /\ n.saved = r.saved /\ n.known = r.known
      /\ n.on = r.on /\ n.msg = r.msg
  BY <1>1 DEF Running
<1> HIDE DEF n
<1>3. RunOK(n)
  BY <1>2 DEF RunOK, Restartable
<1>4. CASE r.on
  <2>1. Sound(s) /\ s.head = chain /\ Kept(s) = Kept(r.mem) \cup {r.msg}
    BY <1>1, <1>4, FinishedFacts DEF RunOK, Running
  <2>2. Storable(s) /\ r.known \subseteq Kept(s)
    BY <1>4, <2>1 DEF Storable, RunOK
  <2>3. Save(t, n, s)
    BY <1>4 DEF Finish, n
  <2> QED BY <1>2, <1>3, <2>2, <2>3, SaveGoes
<1>5. CASE ~r.on
  BY <1>3, <1>5 DEF Finish, Keep, Goes, n
<1> QED BY <1>4, <1>5

\* Every call counts, within what a turn is allowed.
LEMMA Count ==
    ASSUME NEW k \in Nat
    PROVE  Counted(k) \in Nat /\ Counted(k) <= k + 1
BY Limits DEF Counted

\* A turn that changes nothing but what is named.
LEMMA RunFields ==
    ASSUME NEW r \in Running
    PROVE  /\ r.at \in {"call", "tools", "close", "done"} /\ r.msg \in Messages
           /\ r.on \in BOOLEAN /\ r.mem \in States /\ r.head \in Chains \cup {None}
           /\ r.round \in 1..MaxToolRounds /\ r.calls \in Nat /\ r.ran \in BOOLEAN
           /\ r.known \subseteq Messages /\ r.saved \in States \cup {None}
           /\ r.out \in Chains \cup {None}
BY DEF Running

\* The next interaction knows what the turn has at hand.
LEMMA ContextFacts ==
    ASSUME NEW r, RunOK(r), r.at = "call"
    PROVE  /\ Context(r) \subseteq Messages /\ r.msg \in Context(r)
           /\ r.on => Kept(r.mem) \subseteq Context(r)
<1>1. r \in Running
  BY DEF RunOK
<1>2. r.on => Kept(r.mem) \subseteq Messages
  <2>1. r.mem.recent \in Seq(Messages) /\ r.mem.summary \subseteq Messages
    BY <1>1, RunFields DEF States
  <2>2. Range(r.mem.recent) \subseteq Messages
    BY <2>1 DEF Range
  <2> QED BY <2>1, <2>2 DEF Kept
<1>3. r.head # None => r.head.knows \subseteq Messages
  BY <1>1, RunFields DEF Chains
<1> QED BY <1>1, <1>2, <1>3, RunFields DEF Context, Seed, RunOK

-----------------------------------------------------------------------------
(* Every step *)

LEMMA BeginGoes ==
    ASSUME IInv, NEW t \in Turns, Begin(t)
    PROVE  \E n : Goes(t, n)
<1> DEFINE found == IF memory # None THEN memory ELSE [Empty EXCEPT !.head = legacy]
           run   == [at |-> "call", msg |-> said + 1, on |-> TRUE, mem |-> found,
                     head |-> found.head, round |-> 1, calls |-> 1, ran |-> FALSE,
                     known |-> Kept(found), saved |-> None, out |-> None]
           bare  == [run EXCEPT !.on = FALSE, !.mem = Empty, !.head = legacy, !.known = {}]
<1>1. Empty \in States /\ Sound(Empty) /\ Kept(Empty) = {}
  BY Limits DEF Empty, States, Sound, Kept, Range
<1>2. legacy \in Chains \cup {None} /\ said + 1 \in Messages /\ 1 \in 1..MaxToolRounds
  BY Limits DEF IInv, Types, Begin, Messages
<1>3. Sound(found) /\ (found.head # None => Kept(found) \subseteq found.head.knows)
  <2>1. CASE memory # None
    BY <2>1 DEF IInv, RowOK, Storable
  <2>2. CASE memory = None
    <3>1. found = [Empty EXCEPT !.head = legacy]
      BY <2>2
    <3> HIDE DEF found
    <3>2. found \in States /\ found.recent = <<>> /\ found.summary = {} /\ found.turns = 0
      BY <1>1, <1>2, <3>1 DEF Empty, States
    <3>3. Kept(found) = {}
      BY <3>2 DEF Kept, Range
    <3> QED BY <3>2, <3>3, Limits DEF Sound
  <2> QED BY <2>1, <2>2
<1> HIDE DEF found
<1>4. found \in States /\ Kept(found) \subseteq Messages
  <2>1. found \in States
    BY <1>3 DEF Sound
  <2> QED BY <2>1 DEF States, Kept, Range
<1>5. run \in Running /\ bare \in Running
  BY <1>1, <1>2, <1>4 DEF Running, States
<1>6. CASE found.head # None /\ ~Overdue(found) /\ Keep(t, run)
  <2>1. found.turns < MaxChainTurns
    BY <1>4, <1>6, Limits DEF Overdue, States
  <2>2. RunOK(run)
    BY <1>3, <1>5, <2>1 DEF RunOK
  <2> QED BY <1>6, <2>2 DEF Goes, Keep
<1>7. CASE Restart(t, run)
  BY <1>3, <1>5, <1>7, RestartGoes
<1>8. CASE Keep(t, bare)
  <2>1. RunOK(bare)
    BY <1>5 DEF RunOK
  <2> QED BY <1>8, <2>1 DEF Goes, Keep
<1> QED BY <1>6, <1>7, <1>8 DEF Begin, found

\* What a turn under way does.
LEMMA StepGoes ==
    ASSUME IInv, NEW t \in Turns, Step(t), ~Commit(t)
    PROVE  \E n : Goes(t, n)
<1> DEFINE r == turn[t]
<1>1. r.at # "idle" => RunOK(r) /\ r \in Running
  BY DEF IInv, Types, TurnsOK, RunOK, Idle
<1>2. RunOK(r) /\ r \in Running /\ r.at \in {"call", "tools", "close"}
  BY <1>1 DEF Step, Answer, AskTools, Reject, Fail, RunTools, ToolReplies, CloseTurn
<1>3. /\ r.round \in 1..MaxToolRounds /\ r.calls \in Nat /\ r.head \in Chains \cup {None}
      /\ r.mem \in States /\ r.msg \in Messages /\ r.on \in BOOLEAN
      /\ r.calls <= r.round + 2 /\ legacy \in Chains \cup {None}
      /\ r.round \in Nat
  BY <1>2, RunFields, Limits DEF RunOK, IInv, Types
<1>4. CASE Answer(t)
  <2> DEFINE chain == [knows |-> Context(r), open |-> FALSE]
  <2>1. chain \in Chains /\ ~chain.open /\ (r.on => Kept(r.mem) \cup {r.msg} \subseteq chain.knows)
    BY <1>2, <1>4, ContextFacts DEF Answer, Chains
  <2>2. Finish(t, r, chain, chain) /\ r.at # "done"
    BY <1>4 DEF Answer
  <2> HIDE DEF chain, r
  <2> QED BY <1>2, <1>3, <2>1, <2>2, FinishGoes
<1>5. CASE AskTools(t)
  <2> DEFINE chain == [knows |-> Context(r), open |-> TRUE]
             n     == [r EXCEPT !.at = "tools", !.head = chain]
  <2>1. chain \in Chains /\ r.msg \in chain.knows /\ (r.on => Kept(r.mem) \subseteq chain.knows)
    BY <1>2, <1>5, ContextFacts DEF AskTools, Chains
  <2>2. Put(t, n) /\ memory' = memory /\ r.at = "call"
    BY <1>5 DEF AskTools
  <2> HIDE DEF chain, r
  <2>3. /\ n \in Running /\ n.at = "tools" /\ n.head = chain /\ n.mem = r.mem /\ n.msg = r.msg
        /\ n.on = r.on /\ n.round = r.round /\ n.calls = r.calls /\ n.saved = r.saved
        /\ n.known = r.known
    BY <1>2, <2>1 DEF Running
  <2> HIDE DEF n
  <2>4. RunOK(n)
    BY <1>2, <2>1, <2>2, <2>3 DEF RunOK
  <2> QED BY <2>2, <2>4 DEF Goes
<1>6. CASE Reject(t)
  <2> DEFINE q == [r EXCEPT !.calls = Counted(@)]
             n == [q EXCEPT !.head = None, !.round = 1]
  <2>1. /\ q.at = "call" /\ Restartable(q)
        /\ IF q.on THEN Restart(t, q) ELSE Keep(t, n)
    BY <1>6 DEF Reject
  <2> HIDE DEF r
  <2>2. Counted(r.calls) \in Nat /\ Counted(r.calls) <= r.calls + 1
    BY <1>3, Count
  <2>3. /\ q \in Running /\ q.at = r.at /\ q.head = r.head /\ q.mem = r.mem /\ q.msg = r.msg
        /\ q.on = r.on /\ q.round = r.round /\ q.calls = Counted(r.calls)
        /\ q.saved = r.saved /\ q.known = r.known
    BY <1>2, <2>2 DEF Running
  <2> HIDE DEF q
  <2>4. r.at = "call" /\ r.calls <= 1 /\ q.calls <= 2
    BY <1>2, <1>3, <2>1, <2>2, <2>3 DEF RunOK, Restartable
  <2>5. CASE q.on
    BY <1>2, <2>1, <2>3, <2>4, <2>5, RestartGoes DEF RunOK
  <2>6. CASE ~q.on
    <3>1. /\ n \in Running /\ n.at = "call" /\ n.head = None /\ n.on = q.on /\ n.round = 1
          /\ n.calls = q.calls /\ n.saved = q.saved /\ n.known = q.known
      <4>1. 1 \in 1..MaxToolRounds
        BY Limits
      <4> QED BY <2>1, <2>3, <4>1 DEF Running
    <3> HIDE DEF n
    <3>2. RunOK(n)
      BY <1>2, <2>3, <2>4, <2>6, <3>1 DEF RunOK, Restartable
    <3> QED BY <2>1, <2>6, <3>2 DEF Goes, Keep
  <2> QED BY <2>5, <2>6
<1>7. ASSUME NEW q, NEW out \in Chains \cup {None}, RunOK(q), q.at # "done",
             q.calls <= q.round + 2, Abort(t, q, out)
      PROVE  \E n : Goes(t, n)
  <2>1. CASE q.ran
    BY <1>7, <2>1, FinishGoes DEF Abort, Aborted
  <2>2. CASE ~q.ran
    <3> DEFINE n == [q EXCEPT !.at = "done", !.out = out]
    <3>1. /\ n \in Running /\ n.at = "done" /\ n.mem = q.mem /\ n.head = q.head
          /\ n.round = q.round /\ n.calls = q.calls /\ n.saved = q.saved /\ n.known = q.known
          /\ n.on = q.on /\ n.msg = q.msg
      BY <1>7 DEF Running, RunOK
    <3>2. Put(t, n) /\ memory' = memory
      BY <1>7, <2>2 DEF Abort, Keep
    <3> HIDE DEF n
    <3>3. RunOK(n)
      BY <1>7, <3>1 DEF RunOK
    <3> QED BY <3>2, <3>3 DEF Goes
  <2> QED BY <2>1, <2>2
<1>8. CASE Fail(t)
  <2>1. PICK out \in {r.head, legacy, None} : Abort(t, r, out)
    BY <1>8 DEF Fail
  <2>2. out \in Chains \cup {None}
    BY <1>3
  <2> HIDE DEF r
  <2> QED BY <1>2, <1>3, <1>7, <2>1, <2>2
<1>9. CASE RunTools(t)
  <2> DEFINE q == [r EXCEPT !.ran = TRUE]
             n == [q EXCEPT !.at = "call", !.round = NextRound(q), !.calls = Counted(@)]
  <2>1. /\ r.at = "tools"
        /\ IF q.round < MaxToolRounds THEN Keep(t, n) ELSE Abort(t, q, q.head)
    BY <1>9 DEF RunTools
  <2> HIDE DEF r
  <2>2. /\ q \in Running /\ q.at = r.at /\ q.head = r.head /\ q.mem = r.mem /\ q.msg = r.msg
        /\ q.on = r.on /\ q.round = r.round /\ q.calls = r.calls
        /\ q.saved = r.saved /\ q.known = r.known
    BY <1>2 DEF Running
  <2> HIDE DEF q
  <2>3. RunOK(q)
    BY <1>2, <2>2 DEF RunOK, Restartable
  <2>4. CASE q.round < MaxToolRounds
    <3>1. q.round + 1 \in 1..MaxToolRounds /\ Counted(q.calls) \in Nat
             /\ Counted(q.calls) <= q.calls + 1
      BY <1>3, <2>2, <2>4, Count, Limits
    <3>2. /\ n \in Running /\ n.at = "call" /\ n.head = q.head /\ n.mem = q.mem /\ n.msg = q.msg
          /\ n.on = q.on /\ n.round = q.round + 1 /\ n.calls = Counted(q.calls)
          /\ n.saved = q.saved /\ n.known = q.known
      BY <2>2, <3>1 DEF Running, NextRound
    <3> HIDE DEF n
    <3>3. n.round # 1 /\ n.calls <= n.round + 1
      BY <1>3, <2>1, <2>2, <2>3, <3>1, <3>2 DEF RunOK
    <3>4. RunOK(n)
      BY <2>1, <2>2, <2>3, <3>2, <3>3 DEF RunOK, Restartable
    <3> QED BY <2>1, <2>4, <3>4 DEF Goes, Keep
  <2>5. CASE ~(q.round < MaxToolRounds)
    BY <1>3, <1>7, <2>1, <2>2, <2>3, <2>5
  <2> QED BY <2>4, <2>5
<1>10. CASE ToolReplies(t)
  <2> DEFINE q == [r EXCEPT !.ran = TRUE]
             n == [q EXCEPT !.at = "close", !.calls = Counted(@)]
  <2>1. /\ r.at = "tools"
        /\ Keep(t, n) \/ Finish(t, q, None, None)
    BY <1>10 DEF ToolReplies
  <2> HIDE DEF r
  <2>2. /\ q \in Running /\ q.at = r.at /\ q.head = r.head /\ q.mem = r.mem /\ q.msg = r.msg
        /\ q.on = r.on /\ q.round = r.round /\ q.calls = r.calls
        /\ q.saved = r.saved /\ q.known = r.known
    BY <1>2 DEF Running
  <2> HIDE DEF q
  <2>3. RunOK(q)
    BY <1>2, <2>2 DEF RunOK, Restartable
  <2>4. CASE Keep(t, n)
    <3>1. Counted(q.calls) \in Nat /\ Counted(q.calls) <= q.calls + 1
      BY <1>3, <2>2, Count
    <3>2. /\ n \in Running /\ n.at = "close" /\ n.head = q.head /\ n.mem = q.mem /\ n.msg = q.msg
          /\ n.on = q.on /\ n.round = q.round /\ n.calls = Counted(q.calls)
          /\ n.saved = q.saved /\ n.known = q.known
      BY <2>2, <3>1 DEF Running
    <3> HIDE DEF n
    <3>3. n.calls <= n.round + 2
      BY <1>3, <2>1, <2>2, <2>3, <3>1, <3>2 DEF RunOK
    <3>4. RunOK(n)
      BY <2>1, <2>2, <2>3, <3>2, <3>3 DEF RunOK, Restartable
    <3> QED BY <2>4, <3>4 DEF Goes, Keep
  <2>5. CASE Finish(t, q, None, None)
    BY <1>3, <2>1, <2>2, <2>3, <2>5, FinishGoes
  <2> QED BY <2>1, <2>4, <2>5
<1>11. CASE CloseTurn(t)
  <2>1. PICK chain \in {[r.head EXCEPT !.open = FALSE], None} : Finish(t, r, chain, None)
    BY <1>11 DEF CloseTurn
  <2>2. r.at = "close"
    BY <1>11 DEF CloseTurn
  <2> HIDE DEF r
  <2>3. r.head \in Chains /\ r.msg \in r.head.knows /\ (r.on => Kept(r.mem) \subseteq r.head.knows)
    BY <1>2, <2>2 DEF RunOK
  <2>4. /\ [r.head EXCEPT !.open = FALSE] \in Chains
        /\ ~[r.head EXCEPT !.open = FALSE].open
        /\ [r.head EXCEPT !.open = FALSE].knows = r.head.knows
    BY <2>3 DEF Chains
  <2> QED BY <1>2, <1>3, <2>1, <2>2, <2>3, <2>4, FinishGoes
<1> QED BY <1>4, <1>5, <1>6, <1>8, <1>9, <1>10, <1>11 DEF Step

LEMMA InitIInv == Init => IInv
BY Limits DEF Init, IInv, Types, RowOK, TurnsOK

\* A turn that goes on leaves the row and the other turns in order.
LEMMA GoesKeeps ==
    ASSUME IInv, NEW t \in Turns, NEW n, Goes(t, n), UNCHANGED <<role, legacy>>,
           said' \in 0..MaxMessages
    PROVE  IInv'
<1>1. n \in Running
  BY DEF Goes, RunOK
<1>2. turn' \in [Turns -> Running \cup {Idle}] /\ TurnsOK'
  BY <1>1 DEF Goes, Put, IInv, Types, TurnsOK
<1>3. RowOK' /\ memory' \in States \cup {None}
  BY DEF Goes, IInv, Types, RowOK, Storable, Sound
<1> QED BY <1>2, <1>3 DEF IInv, Types

\* So does one that is over.
LEMMA OverKeeps ==
    ASSUME IInv, NEW t \in Turns, Put(t, Idle), UNCHANGED <<role, said>>,
           legacy' \in Chains \cup {None}, memory' = memory \/ Storable(memory')
    PROVE  IInv'
<1>1. turn' \in [Turns -> Running \cup {Idle}] /\ TurnsOK'
  BY DEF Put, IInv, Types, TurnsOK
<1>2. RowOK' /\ memory' \in States \cup {None}
  BY DEF IInv, Types, RowOK, Storable, Sound
<1> QED BY <1>1, <1>2 DEF IInv, Types

LEMMA NextIInv == IInv /\ [Next]_vars => IInv'
<1> SUFFICES ASSUME IInv, [Next]_vars PROVE IInv'
  OBVIOUS
<1>1. ASSUME NEW t \in Turns, Begin(t) PROVE IInv'
  <2>1. UNCHANGED <<role, legacy>> /\ said' \in 0..MaxMessages
    BY <1>1, Limits DEF Begin, IInv, Types
  <2> QED BY <1>1, <2>1, BeginGoes, GoesKeeps
<1>2. ASSUME NEW t \in Turns, Step(t), ~Commit(t) PROVE IInv'
  <2>1. UNCHANGED <<role, legacy, said>>
    BY <1>2 DEF Step, Answer, AskTools, Reject, Fail, RunTools, ToolReplies, CloseTurn
  <2>2. said' \in 0..MaxMessages
    BY <2>1 DEF IInv, Types
  <2> QED BY <1>2, <2>1, <2>2, StepGoes, GoesKeeps
<1>3. ASSUME NEW t \in Turns, Commit(t) PROVE IInv'
  <2>1. turn[t] # Idle
    BY <1>3 DEF Commit, Idle
  <2>2. RunOK(turn[t])
    BY <2>1 DEF IInv, TurnsOK
  <2>3. memory' = memory \/ Storable(memory')
    BY <1>3, <2>2 DEF Commit, RunOK
  <2>4. legacy' \in Chains \cup {None}
    BY <1>3, <2>2, RunFields DEF Commit, RunOK, IInv, Types
  <2> QED BY <1>3, <2>3, <2>4, OverKeeps DEF Commit
<1>4. ASSUME NEW t \in Turns, GiveUp(t) PROVE IInv'
  <2>1. legacy' \in Chains \cup {None} /\ memory' = memory
    BY <1>4 DEF GiveUp, IInv, Types
  <2> QED BY <1>4, <2>1, OverKeeps DEF GiveUp
<1>5. CASE Erase
  BY <1>5 DEF Erase, IInv, Types, RowOK, TurnsOK
<1>6. CASE UNCHANGED vars
  BY <1>6 DEF vars, IInv, Types, RowOK, TurnsOK
<1> QED BY <1>1, <1>2, <1>3, <1>4, <1>5, <1>6 DEF Next

LEMMA AlwaysIInv == Spec => []IInv
BY InitIInv, NextIInv, PTL DEF Spec

-----------------------------------------------------------------------------
\* A row never outgrows its limits, and no chain its cap, whatever turns
\* overlap and fail.
THEOREM TypeCorrect == Spec => []TypeOK
<1>1. IInv => TypeOK
  <2> SUFFICES ASSUME IInv PROVE TypeOK
    OBVIOUS
  <2>1. memory # None => Len(memory.recent) <= MaxStored /\ memory.turns <= MaxChainTurns
    BY RowFits DEF IInv, RowOK, Storable, Sound
  <2> QED BY <2>1 DEF IInv, Types, TypeOK
<1> QED BY <1>1, AlwaysIInv, PTL

\* The chain of the memory row never waits for a tool's result, however the
\* turn ended that called it (recordAbortedTurn, closeToolTurn).
THEOREM ChainIsClosed == Spec => []NoDanglingChain
<1>1. IInv => NoDanglingChain
  BY DEF IInv, RowOK, Storable, NoDanglingChain
<1> QED BY <1>1, AlwaysIInv, PTL

\* The chain the next message continues knows all that is stored.
THEOREM ChainRemembers == Spec => []ChainKnowsAll
<1>1. IInv => ChainKnowsAll
  BY DEF IInv, RowOK, Storable, ChainKnowsAll
<1> QED BY <1>1, AlwaysIInv, PTL

\* Nothing a turn found is lost in what it saves: MaxChainTurns and
\* SeedExchanges together stay within MaxStored (MEMORY_LIMITS).
THEOREM RowRemembers == Spec => []NothingForgotten
<1>1. IInv => NothingForgotten
  BY DEF IInv, TurnsOK, RunOK, NothingForgotten
<1> QED BY <1>1, AlwaysIInv, PTL

\* A message costs one call for every round, one for a dead chain and one to
\* close the turn.
THEOREM CallsAreBounded == Spec => []CallsBounded
<1>1. IInv => CallsBounded
  <2> SUFFICES ASSUME IInv, NEW t \in Turns, turn[t] # Idle
               PROVE  turn[t].calls <= MaxToolRounds + 2
    BY DEF CallsBounded
  <2>1. RunOK(turn[t]) /\ turn[t] \in Running
    BY DEF IInv, TurnsOK, RunOK
  <2>2. turn[t].calls <= turn[t].round + 2 /\ turn[t].calls \in Nat
           /\ turn[t].round \in 1..MaxToolRounds
    BY <2>1, RunFields, Limits DEF RunOK
  <2> QED BY <2>2, Limits
<1> QED BY <1>1, AlwaysIInv, PTL

-----------------------------------------------------------------------------
(* A turn winds down *)

\* How many steps a turn may still take, at most.
StepsLeft(r) ==
    CASE r.at = "idle"  -> 0
      [] r.at = "done"  -> 1
      [] r.at = "close" -> 2
      [] r.at = "tools" -> 3 + 4 * (MaxToolRounds - r.round)
      [] r.at = "call"  -> 5 + 4 * (MaxToolRounds - r.round) + (IF Restartable(r) THEN 1 ELSE 0)

\* Whatever the model asks for, each step of a turn leaves it fewer, and
\* nobody else gives a turn more to do.
WindsDown ==
    \A t \in Turns :
       /\ Step(t) => turn'[t] # turn[t]
       /\ turn[t] # Idle /\ turn'[t] # turn[t] =>
             /\ StepsLeft(turn[t]) \in 1..(4 * MaxToolRounds + 2)
             /\ StepsLeft(turn'[t]) \in 0..(StepsLeft(turn[t]) - 1)

LEMMA StepsOf ==
    ASSUME NEW r \in Running
    PROVE  /\ r.at = "done" => StepsLeft(r) = 1
           /\ r.at = "close" => StepsLeft(r) = 2
           /\ r.at = "tools" => StepsLeft(r) = 3 + 4 * (MaxToolRounds - r.round)
           /\ r.at = "call" => StepsLeft(r) = 5 + 4 * (MaxToolRounds - r.round)
                                                + (IF Restartable(r) THEN 1 ELSE 0)
           /\ r.at # "done" => StepsLeft(r) > 1
           /\ StepsLeft(r) \in 1..(4 * MaxToolRounds + 2)
<1>1. r.at \in {"call", "tools", "close", "done"} /\ r.round \in 1..MaxToolRounds
  BY RunFields
<1>2. Restartable(r) => r.round = 1
  BY DEF Restartable
<1>3. CASE r.at \in {"done", "close"}
  BY <1>1, <1>3, Limits DEF StepsLeft
<1>4. CASE r.at = "tools"
  BY <1>1, <1>4, Limits DEF StepsLeft
<1>5. CASE r.at = "call"
  BY <1>1, <1>2, <1>5, Limits DEF StepsLeft
<1> QED BY <1>1, <1>3, <1>4, <1>5

\* A save that works and one that does not leave the turn where it is.
LEMMA SavedAt ==
    ASSUME NEW t \in Turns, turn \in [Turns -> Running \cup {Idle}], NEW n \in Running,
           NEW s, Save(t, n, s) \/ Keep(t, n)
    PROVE  turn'[t].at = n.at /\ turn'[t].round = n.round /\ turn'[t].head = n.head
<1>1. [n EXCEPT !.saved = s].at = n.at /\ [n EXCEPT !.saved = s].round = n.round
         /\ [n EXCEPT !.saved = s].head = n.head
  BY DEF Running
<1>2. turn'[t] = n \/ turn'[t] = [n EXCEPT !.saved = s]
  BY DEF Save, Keep, Put
<1> QED BY <1>1, <1>2

LEMMA FinishEnds ==
    ASSUME NEW t \in Turns, turn \in [Turns -> Running \cup {Idle}], NEW r \in Running,
           NEW chain, NEW out \in Chains \cup {None}, Finish(t, r, chain, out)
    PROVE  turn'[t].at = "done"
<1> DEFINE n == [r EXCEPT !.at = "done", !.out = out]
<1>1. n \in Running /\ n.at = "done"
  BY DEF Running
<1>2. \E s : Save(t, n, s) \/ Keep(t, n)
  BY DEF Finish
<1> HIDE DEF n
<1> QED BY <1>1, <1>2, SavedAt

LEMMA AbortEnds ==
    ASSUME NEW t \in Turns, turn \in [Turns -> Running \cup {Idle}], NEW r \in Running,
           NEW out \in Chains \cup {None}, Abort(t, r, out)
    PROVE  turn'[t].at = "done"
<1>1. CASE r.ran
  BY <1>1, FinishEnds DEF Abort
<1>2. CASE ~r.ran
  <2>1. [r EXCEPT !.at = "done", !.out = out].at = "done"
    BY DEF Running
  <2> QED BY <1>2, <2>1 DEF Abort, Keep, Put
<1> QED BY <1>1, <1>2

\* Where a step takes the turn.
LEMMA StepTo ==
    ASSUME IInv, NEW t \in Turns, Step(t)
    PROVE  /\ turn[t] \in Running
           /\ LET r == turn[t]
                  n == turn'[t]
              IN \/ Commit(t) /\ r.at = "done" /\ n = Idle
                 \/ r.at \in {"call", "tools", "close"} /\ n.at = "done"
                 \/ r.at = "tools" /\ n.at = "close"
                 \/ r.at = "call" /\ n.at = "tools" /\ n.round = r.round
                 \/ r.at = "call" /\ Restartable(r) /\ n.at = "call" /\ n.head = None /\ n.round = 1
                 \/ r.at = "tools" /\ n.at = "call" /\ n.round = r.round + 1
<1> DEFINE r == turn[t]
           n == turn'[t]
<1>0. /\ turn \in [Turns -> Running \cup {Idle}] /\ legacy \in Chains \cup {None}
      /\ r # Idle => r \in Running
  BY DEF IInv, Types
<1>1. r.at \in {"call", "tools", "close", "done"} => r \in Running
  BY <1>0 DEF Idle
<1>2. CASE Answer(t)
  <2>1. r \in Running /\ r.at = "call" /\ RunOK(r)
    BY <1>1, <1>2 DEF Answer, Idle, IInv, TurnsOK
  <2>2. [knows |-> Context(r), open |-> FALSE] \in Chains
    BY <2>1, ContextFacts DEF Chains
  <2> QED BY <1>0, <1>2, <2>1, <2>2, FinishEnds DEF Answer
<1>3. CASE AskTools(t)
  <2>1. r \in Running /\ r.at = "call"
    BY <1>1, <1>3 DEF AskTools
  <2>2. n = [r EXCEPT !.at = "tools", !.head = [knows |-> Context(r), open |-> TRUE]]
    BY <1>0, <1>3 DEF AskTools, Put
  <2> QED BY <2>1, <2>2 DEF Running
<1>4. CASE Reject(t)
  <2> DEFINE c == [r EXCEPT !.calls = Counted(@)]
  <2>1. c.at = "call" /\ Restartable(c)
    BY <1>4 DEF Reject
  <2>2. r # Idle
    <3>1. ASSUME r = Idle PROVE FALSE
      BY <2>1, <3>1 DEF Idle
    <3> QED BY <3>1
  <2>3. r \in Running /\ c \in Running /\ c.at = r.at /\ c.head = r.head /\ c.round = r.round
    BY <1>0, <2>2, Count, RunFields DEF Running
  <2>4. r.at = "call" /\ Restartable(r)
    BY <2>1, <2>3 DEF Restartable
  <2>5. n.at = "call" /\ n.head = None /\ n.round = 1
    <3>1. 1 \in 1..MaxToolRounds
      BY Limits
    <3>2. CASE c.on
      <4> DEFINE f == Fresh(c.mem)
                 m == [c EXCEPT !.mem = f, !.head = None, !.round = 1]
      <4>1. r.on /\ Sound(r.mem) /\ c.mem = r.mem
        BY <1>0, <2>2, <2>3, <3>2 DEF IInv, TurnsOK, RunOK, Running
      <4>2. f \in States
        BY <4>1, FreshFacts DEF Storable, Sound
      <4> HIDE DEF f
      <4>3. m \in Running /\ m.at = "call" /\ m.head = None /\ m.round = 1
        BY <2>1, <2>3, <3>1, <4>2 DEF Running
      <4>4. Save(t, m, f) \/ Keep(t, m)
        BY <1>4, <3>2 DEF Reject, Restart, f
      <4> HIDE DEF m
      <4> QED BY <1>0, <4>3, <4>4, SavedAt
    <3>3. CASE ~c.on
      <4>1. Keep(t, [c EXCEPT !.head = None, !.round = 1])
        BY <1>4, <3>3 DEF Reject
      <4>2. n = [c EXCEPT !.head = None, !.round = 1]
        BY <1>0, <4>1 DEF Keep, Put
      <4> QED BY <2>1, <2>3, <4>2 DEF Running
    <3> QED BY <3>2, <3>3
  <2> QED BY <2>3, <2>4, <2>5
<1>5. CASE Fail(t)
  <2>1. r \in Running /\ r.at = "call"
    BY <1>1, <1>5 DEF Fail
  <2>2. PICK out \in {r.head, legacy, None} : Abort(t, r, out)
    BY <1>5 DEF Fail
  <2>3. out \in Chains \cup {None}
    BY <1>0, <2>1, RunFields
  <2> QED BY <1>0, <2>1, <2>2, <2>3, AbortEnds
<1>6. CASE RunTools(t)
  <2> DEFINE c == [r EXCEPT !.ran = TRUE]
  <2>1. r \in Running /\ r.at = "tools"
    BY <1>1, <1>6 DEF RunTools
  <2>2. c \in Running /\ c.at = "tools" /\ c.round = r.round /\ c.head = r.head
    BY <2>1 DEF Running
  <2>3. CASE c.round < MaxToolRounds
    <3>1. Keep(t, [c EXCEPT !.at = "call", !.round = NextRound(c), !.calls = Counted(@)])
      BY <1>6, <2>3 DEF RunTools
    <3>2. n = [c EXCEPT !.at = "call", !.round = NextRound(c), !.calls = Counted(@)]
      BY <1>0, <3>1 DEF Keep, Put
    <3> HIDE DEF c
    <3>3. n.at = "call" /\ n.round = NextRound(c)
      BY <2>2, <3>2 DEF Running
    <3> QED BY <2>1, <2>2, <3>3 DEF NextRound
  <2>4. CASE ~(c.round < MaxToolRounds)
    <3>1. Abort(t, c, c.head) /\ c.head \in Chains \cup {None}
      BY <1>6, <2>2, <2>4, RunFields DEF RunTools
    <3> HIDE DEF c
    <3> QED BY <1>0, <2>1, <2>2, <3>1, AbortEnds
  <2> QED BY <2>3, <2>4
<1>7. CASE ToolReplies(t)
  <2> DEFINE c == [r EXCEPT !.ran = TRUE]
  <2>1. c.at = "tools"
    BY <1>7 DEF ToolReplies
  <2>2. r # Idle
    <3>1. ASSUME r = Idle PROVE FALSE
      BY <2>1, <3>1 DEF Idle
    <3> QED BY <3>1
  <2>3. r \in Running /\ c \in Running /\ r.at = "tools"
    BY <1>0, <2>1, <2>2 DEF Running
  <2>4. CASE role = "owner" /\ c.on
    <3>1. Keep(t, [c EXCEPT !.at = "close", !.calls = Counted(@)])
      BY <1>7, <2>4 DEF ToolReplies
    <3>2. n = [c EXCEPT !.at = "close", !.calls = Counted(@)]
      BY <1>0, <3>1 DEF Keep, Put
    <3> HIDE DEF c
    <3>3. n.at = "close"
      BY <2>3, <3>2 DEF Running
    <3> QED BY <2>3, <3>3
  <2>5. CASE ~(role = "owner" /\ c.on)
    <3>1. Finish(t, c, None, None)
      BY <1>7, <2>5 DEF ToolReplies
    <3> HIDE DEF c
    <3> QED BY <1>0, <2>3, <3>1, FinishEnds
  <2> QED BY <2>4, <2>5
<1>8. CASE CloseTurn(t)
  <2>1. r \in Running /\ r.at = "close"
    BY <1>1, <1>8 DEF CloseTurn
  <2>2. \E chain : Finish(t, r, chain, None)
    BY <1>8 DEF CloseTurn
  <2> QED BY <1>0, <2>1, <2>2, FinishEnds
<1>9. CASE Commit(t)
  BY <1>0, <1>1, <1>9 DEF Commit, Put
<1> QED BY <1>2, <1>3, <1>4, <1>5, <1>6, <1>7, <1>8, <1>9 DEF Step

LEMMA StepDescends ==
    ASSUME IInv, NEW t \in Turns, Step(t)
    PROVE  turn'[t] # turn[t] /\ StepsLeft(turn'[t]) \in 0..(StepsLeft(turn[t]) - 1)
<1> DEFINE r == turn[t]
           n == turn'[t]
<1>1. r \in Running /\ r.round \in 1..MaxToolRounds
  BY StepTo, RunFields
<1>2. CASE n = Idle
  <2>1. StepsLeft(n) = 0 /\ n # r
    BY <1>1, <1>2, RunFields DEF StepsLeft, Idle
  <2> QED BY <1>1, <2>1, StepsOf, Limits
<1>3. CASE n # Idle
  <2>1. ~Commit(t)
    BY <1>3 DEF Commit, Put, IInv, Types
  <2>2. n \in Running
    <3>1. PICK m : Goes(t, m)
      BY <2>1, StepGoes
    <3> QED BY <3>1 DEF Goes, RunOK, Put, IInv, Types
  <2>3. StepsLeft(n) \in Nat /\ StepsLeft(r) \in Nat
    BY <1>1, <2>2, StepsOf, Limits
  <2>4. StepsLeft(n) < StepsLeft(r)
    <3>1. CASE r.at # "done" /\ n.at = "done"
      BY <1>1, <2>2, <3>1, StepsOf
    <3>2. CASE r.at = "tools" /\ n.at = "close"
      BY <1>1, <2>2, <3>2, StepsOf, Limits
    <3>3. CASE r.at = "call" /\ n.at = "tools" /\ n.round = r.round
      BY <1>1, <2>2, <3>3, StepsOf, Limits
    <3>4. CASE r.at = "call" /\ Restartable(r) /\ n.at = "call" /\ n.head = None /\ n.round = 1
      <4>1. r.round = 1 /\ ~Restartable(n)
        BY <3>4 DEF Restartable
      <4> QED BY <1>1, <2>2, <3>4, <4>1, StepsOf, Limits
    <3>5. CASE r.at = "tools" /\ n.at = "call" /\ n.round = r.round + 1
      <4>1. ~Restartable(n) /\ n.round <= MaxToolRounds
        BY <1>1, <2>2, <3>5, RunFields DEF Restartable
      <4> QED BY <1>1, <2>2, <3>5, <4>1, StepsOf, Limits
    <3> QED BY <2>1, <3>1, <3>2, <3>3, <3>4, <3>5, StepTo
  <2> QED BY <2>3, <2>4
<1> QED BY <1>2, <1>3

\* A message is worked off in a bounded number of steps, for any bound on the
\* rounds: no sequence of tool calls, dead chains and failures keeps a turn
\* going (aiBookingAgent and the owner's agents).  What TurnEnds adds
\* is that the steps are taken.
THEOREM TurnWindsDown == Spec => [][WindsDown]_vars
<1>1. IInv /\ [Next]_vars => [WindsDown]_vars
  <2> SUFFICES ASSUME IInv, Next, NEW t \in Turns
               PROVE  /\ Step(t) => turn'[t] # turn[t]
                      /\ turn[t] # Idle /\ turn'[t] # turn[t] =>
                            /\ StepsLeft(turn[t]) \in 1..(4 * MaxToolRounds + 2)
                            /\ StepsLeft(turn'[t]) \in 0..(StepsLeft(turn[t]) - 1)
    BY DEF WindsDown
  <2>0. turn \in [Turns -> Running \cup {Idle}]
    BY DEF IInv, Types
  <2>1. turn[t] # Idle => StepsLeft(turn[t]) \in 1..(4 * MaxToolRounds + 2)
    BY <2>0, StepsOf
  <2>2. Step(t) => turn'[t] # turn[t] /\ StepsLeft(turn'[t]) \in 0..(StepsLeft(turn[t]) - 1)
    BY StepDescends
  <2>3. turn[t] # Idle /\ turn'[t] # turn[t] => Step(t) \/ turn'[t] = Idle
    <3>1. ASSUME NEW u \in Turns, u # t, Begin(u) \/ Step(u) \/ GiveUp(u)
          PROVE  turn'[t] = turn[t]
      <4>1. \E n : Put(u, n)
        BY <3>1, Zenon
           DEF Begin, Step, GiveUp, Answer, AskTools, Reject, Fail, RunTools, ToolReplies,
               CloseTurn, Commit, Restart, Abort, Finish, Save, Keep
      <4> QED BY <2>0, <3>1, <4>1 DEF Put
    <3>2. turn[t] # Idle => ~Begin(t)
      BY DEF Begin
    <3>3. GiveUp(t) => turn'[t] = Idle
      BY <2>0 DEF GiveUp, Put
    <3>4. Erase => turn' = turn
      BY DEF Erase
    <3> QED BY <3>1, <3>2, <3>3, <3>4 DEF Next
  <2>4. StepsLeft(Idle) = 0
    BY DEF StepsLeft, Idle
  <2> QED BY <2>1, <2>2, <2>3, <2>4
<1> QED BY <1>1, AlwaysIInv, PTL DEF Spec
=============================================================================
