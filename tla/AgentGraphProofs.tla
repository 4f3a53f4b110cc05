--------------------------- MODULE AgentGraphProofs ---------------------------
(***************************************************************************)
(* The accounts of the agent graph are closed for any number of            *)
(* specialists and any limits of turns, tools and cost.                    *)
(***************************************************************************)
EXTENDS AgentGraph, FiniteSetTheorems, SequenceTheorems, TLAPS

-----------------------------------------------------------------------------
(***************************************************************************)
(* One run.                                                                *)
(***************************************************************************)
Fields == {"pc", "cancelling", "turn", "toolCallsMade", "choice", "last", "unanswered", "rejected",
           "approved", "calls", "ended", "heard", "reported", "log", "billed", "executed",
           "lost"}

CreatedIn(calls) == {k \in DOMAIN calls : calls[k].state = "created"}
FoundIn(calls) == {k \in DOMAIN calls : calls[k].tool = "search" /\ calls[k].state = "done"}

Calls(r) == [tool : Tools(r), sub : Specialists \union {"none"}, state : CallStates]

CallsOk(r, calls) ==
  /\ \E n \in 0..MaxBatch : DOMAIN calls = 1..n
  /\ \A k \in DOMAIN calls : calls[k] \in Calls(r)

Counters(r, st) ==
  /\ st.turn \in 0..MaxTurns[Config(r)] /\ st.choice \in {"auto", "none"}
  /\ st.toolCallsMade \in 0..Budget(r) /\ st.executed \in Nat
  /\ st.unanswered \in 0..MaxBatch
  /\ st.log \in Nat /\ st.billed \in Nat /\ st.lost \in Nat /\ st.cancelling \in BOOLEAN

Phases(st) ==
  /\ st.pc \in {"absent", "ready", "generating", "dispatching", "over"} /\ st.ended \in Ends
  /\ st.ended = "none" <=> st.pc # "over"
  /\ st.ended = "cancelled" <=> st.pc = "over" /\ st.cancelling

Events(st) ==
  /\ st.pc \in {"absent", "ready"} => st.heard = <<>>
  /\ st.pc \in {"generating", "dispatching"} => st.heard = <<"started">>
  /\ st.pc = "over" => \/ st.heard = <<>> /\ st.ended = "cancelled"
                       \/ st.heard = <<"started", TerminalEvent(st.ended)>>

Messages(st) ==
  /\ st.pc \in {"absent", "ready", "generating"} => st.unanswered = 0 /\ st.last # "assistant"

(* Every call created is within the budget; what is billed is in the log,  *)
(* or found by the calls of this turn, or lost by a run that was cancelled.*)
Accounts(st) ==
  /\ st.executed + Cardinality(CreatedIn(st.calls)) <= st.toolCallsMade
  /\ st.log + Cardinality(FoundIn(st.calls)) + st.lost = st.billed
  /\ st.lost > 0 => st.ended = "cancelled"
  /\ st.pc # "dispatching" => st.calls = <<>>
  /\ st.cancelling => CreatedIn(st.calls) = {}

RunOk(r, st) ==
  /\ DOMAIN st = Fields
  /\ CallsOk(r, st.calls) /\ Counters(r, st) /\ Phases(st) /\ Events(st) /\ Messages(st) /\ Accounts(st)

LEMMA Limits ==
  /\ MaxBatch \in Nat \ {0} /\ IsFiniteSet(Specialists)
  /\ \A r \in Runs : MaxTurns[Config(r)] \in Nat /\ Budget(r) \in Nat
  /\ \A r \in Runs : r # "climate" => Descendants(r) = {} /\ "delegate" \notin Tools(r)
  /\ \A s \in Specialists : s \in Runs /\ s \notin Nodes
  /\ Descendants("climate") = Specialists
<1>1. \A r \in Runs : Config(r) \in Nodes \union {"specialist"}
  BY DEF Config, Nodes
<1>2. \A r \in Runs : MaxTurns[Config(r)] \in Nat /\ Budget(r) \in Nat
  BY <1>1, LimitsAssumption DEF Budget
<1>3. \A s \in Specialists : s \in Runs /\ s \notin Nodes
  BY LimitsAssumption DEF Runs
<1>4. \A r \in Runs : r # "climate" => Descendants(r) = {} /\ "delegate" \notin Tools(r)
  BY DEF Descendants, Tools
<1>5. Descendants("climate") = Specialists
  BY DEF Descendants
<1>6. QED
  BY <1>2, <1>3, <1>4, <1>5, LimitsAssumption

LEMMA NoCalls ==
  /\ \A r \in Runs : CallsOk(r, <<>>)
  /\ CreatedIn(<<>>) = {} /\ FoundIn(<<>>) = {}
  /\ Cardinality(CreatedIn(<<>>)) = 0 /\ Cardinality(FoundIn(<<>>)) = 0
<1>1. DOMAIN << >> = {} /\ DOMAIN << >> = 1..0
  OBVIOUS
<1>2. \A r \in Runs : CallsOk(r, <<>>)
  <2>1. 0 \in 0..MaxBatch
    BY Limits
  <2>2. QED
    BY <1>1, <2>1 DEF CallsOk
<1>3. CreatedIn(<<>>) = {} /\ FoundIn(<<>>) = {}
  BY <1>1 DEF CreatedIn, FoundIn
<1>4. QED
  BY <1>2, <1>3, FS_EmptySet

LEMMA CallSetsAreFinite ==
  ASSUME NEW r \in Runs, NEW calls, CallsOk(r, calls)
  PROVE  /\ IsFiniteSet(DOMAIN calls) /\ IsFiniteSet(CreatedIn(calls)) /\ IsFiniteSet(FoundIn(calls))
         /\ Cardinality(CreatedIn(calls)) \in Nat /\ Cardinality(FoundIn(calls)) \in Nat
<1>1. PICK n \in 0..MaxBatch : DOMAIN calls = 1..n
  BY DEF CallsOk
<1>2. 1 \in Int /\ n \in Int
  BY Limits
<1>3. IsFiniteSet(1..n)
  BY ONLY <1>2, FS_Interval, Zenon
<1>4. CreatedIn(calls) \in SUBSET DOMAIN calls /\ FoundIn(calls) \in SUBSET DOMAIN calls
  BY DEF CreatedIn, FoundIn
<1>5. IsFiniteSet(CreatedIn(calls)) /\ IsFiniteSet(FoundIn(calls))
  BY <1>1, <1>3, <1>4, FS_Subset
<1>6. QED
  BY <1>1, <1>3, <1>5, FS_CardinalityType

(* A run between two awaits: it has been heard, and its calls are settled. *)
Between(r, st) ==
  /\ DOMAIN st = Fields
  /\ Counters(r, st) /\ st.heard = <<"started">> /\ st.executed <= st.toolCallsMade
  /\ st.log + st.lost = st.billed /\ (st.lost > 0 => st.cancelling)

LEMMA EndOk ==
  ASSUME NEW r \in Runs, NEW st, Between(r, st), NEW how \in Ends \ {"none"},
         how = "cancelled" <=> st.cancelling
  PROVE  LET new == End(r, st, how)
         IN /\ RunOk(r, new)
            /\ new.pc = "over" /\ new.ended = how /\ new.cancelling = st.cancelling
            /\ new.turn = st.turn /\ new.billed = st.billed /\ new.log = st.log /\ new.calls = <<>>
            /\ new.reported = Usage(r, st)
<1> DEFINE new == End(r, st, how)
<1>1. /\ DOMAIN st = Fields /\ st.heard = <<"started">> /\ st.executed <= st.toolCallsMade
      /\ Counters(r, st) /\ st.log + st.lost = st.billed /\ (st.lost > 0 => st.cancelling)
  BY DEF Between
<1>2. /\ DOMAIN new = Fields
      /\ new.pc = "over" /\ new.ended = how /\ new.calls = <<>> /\ new.cancelling = st.cancelling
      /\ new.turn = st.turn /\ new.choice = st.choice /\ new.toolCallsMade = st.toolCallsMade
      /\ new.executed = st.executed /\ new.unanswered = st.unanswered
      /\ new.log = st.log /\ new.billed = st.billed /\ new.lost = st.lost
      /\ new.heard = Append(st.heard, TerminalEvent(how)) /\ new.reported = Usage(r, st)
  BY <1>1 DEF End, Fields
<1>3. new.heard = <<"started", TerminalEvent(new.ended)>>
  <2>1. \A x : Append(<<"started">>, x) = <<"started", x>>
    <3>1. SUFFICES ASSUME NEW x
                   PROVE  Append(<<"started">>, x) = <<"started", x>>
      OBVIOUS
    <3>2. <<"started">> \in Seq({"started", x}) /\ Len(<<"started">>) = 1 /\ <<"started">>[1] = "started"
      OBVIOUS
    <3>3. /\ Append(<<"started">>, x) \in Seq({"started", x}) /\ Len(Append(<<"started">>, x)) = 2
          /\ Append(<<"started">>, x)[1] = "started" /\ Append(<<"started">>, x)[2] = x
      BY <3>2
    <3>4. <<"started", x>> \in Seq({"started", x}) /\ Len(<<"started", x>>) = 2
          /\ <<"started", x>>[1] = "started" /\ <<"started", x>>[2] = x
      OBVIOUS
    <3>5. \A i \in 1..Len(Append(<<"started">>, x)) : Append(<<"started">>, x)[i] = <<"started", x>>[i]
      BY <3>3, <3>4
    <3> DEFINE S == {"started", x}
               s == Append(<<"started">>, x)
               t == <<"started", x>>
    <3>6. s \in Seq(S) /\ t \in Seq(S) /\ Len(s) = Len(t) /\ \A i \in 1..Len(s) : s[i] = t[i]
      BY <3>3, <3>4, <3>5
    <3> HIDE DEF S, s, t
    <3>7. s = t
      BY <3>6, SeqEqual, Zenon
    <3>8. QED
      BY <3>7 DEF s, t
  <2>2. QED
    BY <1>1, <1>2, <2>1, Zenon
<1> HIDE DEF new
<1>4. Counters(r, new)
  BY <1>1, <1>2 DEF Counters
<1>5. Phases(new) /\ Events(new) /\ Messages(new)
  BY <1>2, <1>3 DEF Phases, Events, Messages
<1>6. Accounts(new)
  BY <1>1, <1>2, NoCalls DEF Accounts, Counters
<1>7. QED
  BY <1>2, <1>4, <1>5, <1>6, NoCalls DEF RunOk, new

(* A turn is the next one or the run ends at one of its limits.            *)
LEMMA NextTurnOk ==
  ASSUME NEW r \in Runs, NEW st, Between(r, st), ~st.cancelling,
         st.unanswered = 0, st.last # "assistant", st.calls = <<>>, st.ended = "none"
  PROVE  LET new == NextTurn(r, st)
         IN /\ RunOk(r, new)
            /\ new.pc \in {"generating", "over"} /\ new.cancelling = st.cancelling
            /\ new.billed = st.billed /\ new.log = st.log
            /\ new.pc = "over" => new.ended = "limit" /\ new.reported = Usage(r, st) /\ new.turn = st.turn
            /\ new.pc = "generating" => ~(Usage(r, st) >= MaxCost)
<1>1. CASE st.turn = MaxTurns[Config(r)] \/ Usage(r, st) >= MaxCost
  <2>1. NextTurn(r, st) = End(r, st, "limit")
    BY <1>1 DEF NextTurn
  <2>2. "limit" \in Ends \ {"none"} /\ "limit" # "cancelled"
    BY DEF Ends
  <2>3. QED
    BY <2>1, <2>2, EndOk
<1>2. CASE ~(st.turn = MaxTurns[Config(r)] \/ Usage(r, st) >= MaxCost)
  <2> DEFINE new == NextTurn(r, st)
  <2>1. /\ DOMAIN st = Fields /\ st.heard = <<"started">> /\ st.executed <= st.toolCallsMade
        /\ Counters(r, st) /\ st.log + st.lost = st.billed /\ st.lost = 0
    BY DEF Between, Counters
  <2>2. new = [st EXCEPT !.turn = @ + 1, !.pc = "generating",
                         !.choice = IF st.toolCallsMade >= Budget(r) THEN "none" ELSE @]
    BY <1>2, Zenon DEF NextTurn
  <2>3. /\ DOMAIN new = Fields
        /\ new.pc = "generating" /\ new.ended = st.ended /\ new.calls = <<>> /\ new.cancelling = st.cancelling
        /\ new.turn = st.turn + 1 /\ (new.choice = st.choice \/ new.choice = "none")
        /\ new.toolCallsMade = st.toolCallsMade
        /\ new.executed = st.executed /\ new.unanswered = st.unanswered /\ new.last = st.last
        /\ new.log = st.log /\ new.billed = st.billed /\ new.lost = st.lost
        /\ new.heard = st.heard
    BY <2>1, <2>2 DEF Fields
  <2> HIDE DEF new
  <2>4. Counters(r, new)
    BY <1>2, <2>1, <2>3, Limits DEF Counters
  <2>5. Phases(new) /\ Events(new) /\ Messages(new)
    BY <2>1, <2>3 DEF Phases, Events, Messages, Ends
  <2>6. Accounts(new)
    BY <2>1, <2>3, NoCalls DEF Accounts, Counters
  <2>7. QED
    BY <1>2, <2>3, <2>4, <2>5, <2>6, NoCalls DEF RunOk, new
<1>3. QED
  BY <1>1, <1>2
-----------------------------------------------------------------------------
(***************************************************************************)
(* The graph: an active specialist is one that the climate researcher      *)
(* waits for, and is cancelled only with it.                               *)
(***************************************************************************)
Awaits(st, s) ==
  /\ st.pc = "dispatching"
  /\ \E k \in DOMAIN st.calls : st.calls[k].state = "delegated" /\ st.calls[k].sub = s

RunsInv == DOMAIN run = Runs /\ \A r \in Runs : RunOk(r, run[r])

ParentInv ==
  \A s \in Specialists :
    /\ Active(s) => Awaits(run["climate"], s)
    /\ run[s].cancelling => run["climate"].cancelling

ReportInv ==
  \A r \in Runs : run[r].pc = "over" /\ run[r].heard # <<>> =>
    run[r].reported = run[r].log + SumOf("log", Descendants(r))

AppInv ==
  /\ app \in {"research", "synthesize", "over"} /\ aborting \in BOOLEAN
  /\ app = "research" => run["synthesize"].pc = "absent"
  /\ app # "research" => \A r \in Runs \ {"synthesize"} : ~Active(r)
  /\ app = "over" => ~Active("synthesize")

GraphInv == RunsInv /\ ParentInv /\ ReportInv /\ AppInv

CostIsBelow == \A r \in Runs : run'[r].turn > run[r].turn =>
                 ~(run'[r].billed + SumOf("billed", Descendants(r))' >= MaxCost)

SumBy(state, field, runs) == SumFunction([s \in runs |-> state[s][field]])

LEMMA SumsStay ==
  ASSUME NEW runs, \A s \in runs : run'[s].billed = run[s].billed /\ run'[s].log = run[s].log
  PROVE  SumOf("billed", runs)' = SumOf("billed", runs) /\ SumOf("log", runs)' = SumOf("log", runs)
<1>1. \A field \in {"billed", "log"} :
        SumOf(field, runs)' = SumBy(run', field, runs) /\ SumOf(field, runs) = SumBy(run, field, runs)
  BY Zenon DEF SumOf, SumBy
<1>2. /\ [s \in runs |-> run'[s]["billed"]] = [s \in runs |-> run[s]["billed"]]
      /\ [s \in runs |-> run'[s]["log"]] = [s \in runs |-> run[s]["log"]]
  OBVIOUS
<1>3. SumBy(run', "billed", runs) = SumBy(run, "billed", runs) /\ SumBy(run', "log", runs) = SumBy(run, "log", runs)
  BY <1>2, Zenon DEF SumBy
<1>4. QED
  BY <1>1, <1>3

(* What inactive specialists have logged is what they were billed.         *)
LEMMA SettledUsage ==
  ASSUME RunsInv, ParentInv, NEW r \in Runs, ~run[r].cancelling, \A s \in Descendants(r) : ~Active(s)
  PROVE  SumOf("log", Descendants(r)) = SumOf("billed", Descendants(r))
<1>1. \A s \in Descendants(r) : run[s]["log"] = run[s]["billed"]
  <2>1. SUFFICES ASSUME NEW s \in Descendants(r)
                 PROVE  run[s].log = run[s].billed
    OBVIOUS
  <2>2. r = "climate" /\ s \in Specialists /\ s \in Runs
    BY <2>1, Limits
  <2>3. ~run[s].cancelling /\ run[s].pc # "dispatching"
    BY <2>1, <2>2 DEF ParentInv, Active
  <2>4. Accounts(run[s]) /\ Counters(s, run[s]) /\ Phases(run[s])
    BY <2>2 DEF RunsInv, RunOk
  <2>5. run[s].log + 0 + run[s].lost = run[s].billed /\ run[s].lost = 0 /\ run[s].log \in Nat
    BY <2>3, <2>4, NoCalls DEF Accounts, Counters, Phases
  <2>6. QED
    BY <2>5
<1>2. [s \in Descendants(r) |-> run[s]["log"]] = [s \in Descendants(r) |-> run[s]["billed"]]
  BY <1>1
<1>3. QED
  BY <1>2, Zenon DEF SumOf

(* A step of one run that is active.                                       *)
Moves(r, st) ==
  /\ Active(r)
  /\ RunOk(r, st) /\ st.pc # "absent" /\ st.cancelling = run[r].cancelling
  /\ r = "climate" => \A s \in Specialists : Active(s) => Awaits(st, s)
  /\ st.pc = "over" /\ st.heard # <<>> => st.reported = st.log + SumOf("log", Descendants(r))
  /\ st.turn > run[r].turn => ~(st.billed + SumOf("billed", Descendants(r)) >= MaxCost)

LEMMA MoveKeeps ==
  ASSUME GraphInv, NEW r \in Runs, NEW st, Moves(r, st),
         run' = [run EXCEPT ![r] = st], app' = app, aborting' = aborting
  PROVE  GraphInv' /\ CostIsBelow
<1>1. /\ RunsInv /\ ParentInv /\ ReportInv /\ AppInv
      /\ Active(r) /\ RunOk(r, st) /\ st.pc # "absent" /\ st.cancelling = run[r].cancelling
      /\ r = "climate" => \A s \in Specialists : Active(s) => Awaits(st, s)
      /\ st.pc = "over" /\ st.heard # <<>> => st.reported = st.log + SumOf("log", Descendants(r))
      /\ st.turn > run[r].turn => ~(st.billed + SumOf("billed", Descendants(r)) >= MaxCost)
  BY Zenon DEF GraphInv, Moves
<1>2. DOMAIN run' = Runs /\ \A q \in Runs : run'[q] = IF q = r THEN st ELSE run[q]
  BY <1>1 DEF RunsInv
<1>3. r \in Specialists => Awaits(run["climate"], r)
  BY <1>1 DEF ParentInv
<1>4. RunsInv'
  BY <1>1, <1>2 DEF RunsInv
<1>5. "climate" \in Runs /\ "synthesize" \in Runs /\ "climate" \notin Specialists
  BY Limits DEF Runs, Nodes
<1>6. ParentInv'
  <2>1. SUFFICES ASSUME NEW s \in Specialists
                 PROVE  /\ run'[s].pc \notin {"absent", "over"} => Awaits(run'["climate"], s)
                        /\ run'[s].cancelling => run'["climate"].cancelling
    BY DEF ParentInv, Active
  <2>2. s \in Runs /\ s # "climate"
    BY <1>5, Limits
  <2>3. /\ run'[s].pc \notin {"absent", "over"} => Active(s)
        /\ run'[s].cancelling = run[s].cancelling /\ run'["climate"].cancelling = run["climate"].cancelling
    BY <1>1, <1>2, <1>5, <2>2 DEF Active
  <2>4. Active(s) => Awaits(run'["climate"], s)
    BY <1>1, <1>2, <1>5, <2>2 DEF ParentInv
  <2>5. QED
    BY <1>1, <2>1, <2>3, <2>4 DEF ParentInv
<1>7. \A q \in Runs : run'[q].pc = "over" \/ q = r =>
        \A s \in Descendants(q) : run'[s].billed = run[s].billed /\ run'[s].log = run[s].log
  <2>1. SUFFICES ASSUME NEW q \in Runs, run'[q].pc = "over" \/ q = r, NEW s \in Descendants(q)
                 PROVE  run'[s].billed = run[s].billed /\ run'[s].log = run[s].log
    OBVIOUS
  <2>2. q = "climate" /\ s \in Specialists /\ s \in Runs
    BY <2>1, Limits
  <2>3. s # r
    BY <1>2, <1>3, <1>5, <2>1, <2>2 DEF Awaits
  <2>4. QED
    BY <1>2, <2>2, <2>3
<1>8. \A q \in Runs : run'[q].pc = "over" \/ q = r =>
        /\ SumOf("billed", Descendants(q))' = SumOf("billed", Descendants(q))
        /\ SumOf("log", Descendants(q))' = SumOf("log", Descendants(q))
  <2>1. SUFFICES ASSUME NEW q \in Runs, run'[q].pc = "over" \/ q = r
                 PROVE  /\ SumOf("billed", Descendants(q))' = SumOf("billed", Descendants(q))
                        /\ SumOf("log", Descendants(q))' = SumOf("log", Descendants(q))
    OBVIOUS
  <2> DEFINE below == Descendants(q)
  <2>2. \A s \in below : run'[s].billed = run[s].billed /\ run'[s].log = run[s].log
    BY <1>7, <2>1
  <2> HIDE DEF below
  <2>3. SumOf("billed", below)' = SumOf("billed", below) /\ SumOf("log", below)' = SumOf("log", below)
    BY <2>2, SumsStay
  <2>4. QED
    BY <2>3 DEF below
<1>9. ReportInv'
  <2>1. SUFFICES ASSUME NEW q \in Runs, run'[q].pc = "over", run'[q].heard # <<>>
                 PROVE  run'[q].reported = run'[q].log + SumOf("log", Descendants(q))'
    BY DEF ReportInv
  <2>2. SumOf("log", Descendants(q))' = SumOf("log", Descendants(q))
    BY <1>8, <2>1
  <2>3. QED
    BY <1>1, <1>2, <2>1, <2>2 DEF ReportInv
<1>10. AppInv'
  <2>1. \A q \in Runs : Active(q)' => Active(q)
    BY <1>1, <1>2 DEF Active
  <2>2. app = "research" => r # "synthesize"
    BY <1>1 DEF AppInv, Active
  <2>3. QED
    BY <1>1, <1>2, <1>5, <2>1, <2>2 DEF AppInv
<1>11. CostIsBelow
  <2>1. SUFFICES ASSUME NEW q \in Runs, run'[q].turn > run[q].turn
                 PROVE  ~(run'[q].billed + SumOf("billed", Descendants(q))' >= MaxCost)
    BY DEF CostIsBelow
  <2>2. q = r
    <3>1. run[q].turn \in Nat
      BY <1>1, Limits DEF RunsInv, RunOk, Counters
    <3>2. QED
      BY <1>2, <2>1, <3>1
  <2>3. SumOf("billed", Descendants(q))' = SumOf("billed", Descendants(q))
    BY <1>8, <2>2
  <2>4. QED
    BY <1>1, <1>2, <2>1, <2>2, <2>3
<1>12. QED
  BY <1>4, <1>6, <1>9, <1>10, <1>11, Zenon DEF GraphInv
LEMMA EndMoves ==
  ASSUME RunsInv, ParentInv, NEW r \in Runs, Active(r), NEW st, Between(r, st), NEW how \in Ends \ {"none"},
         how = "cancelled" <=> st.cancelling,
         st.cancelling = run[r].cancelling, st.turn = run[r].turn, \A s \in Descendants(r) : ~Active(s)
  PROVE  Moves(r, End(r, st, how))
<1> DEFINE new == End(r, st, how)
<1>1. /\ RunOk(r, new) /\ new.pc = "over" /\ new.ended = how /\ new.cancelling = st.cancelling
      /\ new.turn = st.turn /\ new.log = st.log /\ new.reported = Usage(r, st)
  BY EndOk
<1> HIDE DEF new
<1>2. r = "climate" => \A s \in Specialists : ~Active(s)
  BY Limits
<1>3. new.reported = new.log + SumOf("log", Descendants(r))
  BY <1>1 DEF Usage
<1>4. st.turn \in Nat
  BY Limits DEF Between, Counters
<1>5. QED
  BY <1>1, <1>2, <1>3, <1>4 DEF Moves, new

LEMMA NextTurnMoves ==
  ASSUME RunsInv, ParentInv, NEW r \in Runs, Active(r), NEW st, Between(r, st), ~st.cancelling,
         st.unanswered = 0, st.last # "assistant", st.calls = <<>>, st.ended = "none",
         st.cancelling = run[r].cancelling, st.turn = run[r].turn, \A s \in Descendants(r) : ~Active(s)
  PROVE  Moves(r, NextTurn(r, st))
<1> DEFINE new == NextTurn(r, st)
<1>1. /\ RunOk(r, new)
      /\ new.pc \in {"generating", "over"} /\ new.cancelling = st.cancelling
      /\ new.billed = st.billed /\ new.log = st.log
      /\ new.pc = "over" => new.ended = "limit" /\ new.reported = Usage(r, st) /\ new.turn = st.turn
      /\ new.pc = "generating" => ~(Usage(r, st) >= MaxCost)
  BY NextTurnOk
<1> HIDE DEF new
<1>2. r = "climate" => \A s \in Specialists : ~Active(s)
  BY Limits
<1>3. SumOf("log", Descendants(r)) = SumOf("billed", Descendants(r))
  BY SettledUsage
<1>4. st.log = st.billed
  BY DEF Between, Counters
<1>5. /\ Usage(r, st) = new.billed + SumOf("billed", Descendants(r))
      /\ Usage(r, st) = new.log + SumOf("log", Descendants(r))
  BY <1>1, <1>3, <1>4 DEF Usage
<1>6. st.turn \in Nat
  BY Limits DEF Between, Counters
<1>7. QED
  BY <1>1, <1>2, <1>5, <1>6 DEF Moves, new

(* What a step finds of an active run.                                     *)
LEMMA ActiveIs ==
  ASSUME RunsInv, ParentInv, NEW r \in Runs
  PROVE  LET st == run[r]
         IN /\ DOMAIN st = Fields /\ Counters(r, st) /\ Phases(st) /\ Events(st) /\ Messages(st) /\ Accounts(st)
            /\ CallsOk(r, st.calls)
            /\ Cardinality(CreatedIn(st.calls)) \in Nat /\ Cardinality(FoundIn(st.calls)) \in Nat
            /\ st.executed <= st.toolCallsMade /\ st.log <= st.billed
            /\ st.pc # "over" => st.lost = 0
            /\ st.pc # "dispatching" => /\ st.calls = <<>> /\ st.log + st.lost = st.billed
                                        /\ \A s \in Descendants(r) : ~Active(s)
<1> DEFINE st == run[r]
<1>1. /\ DOMAIN st = Fields /\ Counters(r, st) /\ Phases(st) /\ Events(st) /\ Messages(st) /\ Accounts(st)
      /\ CallsOk(r, st.calls)
  BY DEF RunsInv, RunOk
<1>2. Cardinality(CreatedIn(st.calls)) \in Nat /\ Cardinality(FoundIn(st.calls)) \in Nat
  BY <1>1, CallSetsAreFinite
<1> HIDE DEF st
<1>3. st.executed <= st.toolCallsMade /\ st.log <= st.billed
  <2>1. st.executed \in Nat /\ st.toolCallsMade \in Nat /\ st.log \in Nat /\ st.billed \in Nat /\ st.lost \in Nat
    BY <1>1, Limits DEF Counters
  <2>2. QED
    BY <1>1, <1>2, <2>1 DEF Accounts
<1>4. /\ st.pc # "over" => st.lost = 0
      /\ st.pc # "dispatching" => st.calls = <<>> /\ st.log + st.lost = st.billed
  <2>1. st.log \in Nat /\ st.billed \in Nat /\ st.lost \in Nat
    BY <1>1 DEF Counters
  <2>2. QED
    BY <1>1, <2>1, NoCalls DEF Accounts, Phases
<1>5. st.pc # "dispatching" => \A s \in Descendants(r) : ~Active(s)
  BY Limits DEF ParentInv, Awaits, st
<1>6. QED
  BY <1>1, <1>2, <1>3, <1>4, <1>5 DEF st

(* A batch that has settled leaves no specialist active.                   *)
LEMMA SettledIsOver ==
  ASSUME RunsInv, ParentInv, NEW r \in Runs, BatchSettled(r)
  PROVE  \A s \in Descendants(r) : ~Active(s)
<1>1. SUFFICES ASSUME NEW s \in Descendants(r), Active(s)
               PROVE  FALSE
  OBVIOUS
<1>2. r = "climate" /\ s \in Specialists
  BY <1>1, Limits
<1>3. PICK k \in DOMAIN run[r].calls : run[r].calls[k].state = "delegated" /\ run[r].calls[k].sub = s
  BY <1>1, <1>2 DEF ParentInv, Awaits
<1>4. Settled(run[r].calls[k]) = "none"
  <2> DEFINE call == run[r].calls[k]
  <2>1. call.state = "delegated" /\ run[call.sub].pc # "over"
    BY <1>1, <1>3 DEF Active
  <2> HIDE DEF call
  <2>2. Settled(call) = "none"
    BY <2>1 DEF Settled, DelegatedSettled
  <2>3. QED
    BY <2>2 DEF call
<1>5. QED
  BY <1>4 DEF BatchSettled

LEMMA StartMoves ==
  ASSUME RunsInv, ParentInv, NEW r \in Runs, Is(r, "ready")
  PROVE  Moves(r, Started(r, run[r]))
<1> DEFINE old == run[r]
           st == [old EXCEPT !.heard = <<"started">>]
<1>1. /\ DOMAIN old = Fields /\ Counters(r, old) /\ Phases(old) /\ Messages(old)
      /\ old.executed <= old.toolCallsMade /\ old.log + old.lost = old.billed /\ old.lost = 0
      /\ old.pc = "ready" /\ ~old.cancelling /\ old.calls = <<>>
      /\ \A s \in Descendants(r) : ~Active(s)
  BY ActiveIs DEF Is
<1>2. /\ DOMAIN st = Fields /\ st.pc = old.pc /\ st.cancelling = old.cancelling /\ st.turn = old.turn
      /\ st.toolCallsMade = old.toolCallsMade /\ st.choice = old.choice /\ st.last = old.last
      /\ st.unanswered = old.unanswered /\ st.calls = old.calls /\ st.ended = old.ended
      /\ st.heard = <<"started">> /\ st.log = old.log /\ st.billed = old.billed /\ st.lost = old.lost
      /\ st.executed = old.executed
  BY <1>1 DEF Fields
<1> HIDE DEF st
<1>3. Between(r, st)
  BY <1>1, <1>2 DEF Between, Counters
<1>4. st.unanswered = 0 /\ st.last # "assistant" /\ st.ended = "none"
  BY <1>1, <1>2 DEF Messages, Phases
<1>5. Active(r)
  BY <1>1 DEF Active
<1>6. Moves(r, NextTurn(r, st))
  BY <1>1, <1>2, <1>3, <1>4, <1>5, NextTurnMoves
<1>7. QED
  BY <1>6 DEF Started, st

(* Leaving generate_one, dispatch_many or a task that never started.       *)
LEMMA EndCancelledMoves ==
  ASSUME RunsInv, ParentInv, NEW r \in Runs, EndCancelled(r)
  PROVE  \E st : Moves(r, st) /\ run' = [run EXCEPT ![r] = st] /\ app' = app /\ aborting' = aborting
<1> DEFINE old == run[r]
<1>1. /\ DOMAIN old = Fields /\ Counters(r, old) /\ Phases(old) /\ Events(old) /\ Messages(old) /\ Accounts(old)
      /\ CallsOk(r, old.calls)
      /\ old.executed <= old.toolCallsMade /\ (old.pc # "over" => old.lost = 0)
      /\ Cardinality(FoundIn(old.calls)) \in Nat
      /\ old.pc # "dispatching" => old.calls = <<>> /\ \A s \in Descendants(r) : ~Active(s)
  BY ActiveIs
<1>2. old.cancelling /\ app' = app /\ aborting' = aborting
  BY DEF EndCancelled
<1>3. CASE old.pc = "ready" /\ run' = [run EXCEPT ![r] = [@ EXCEPT !.pc = "over", !.ended = "cancelled"]]
  <2> DEFINE st == [old EXCEPT !.pc = "over", !.ended = "cancelled"]
  <2>1. /\ DOMAIN st = Fields /\ st.pc = "over" /\ st.ended = "cancelled" /\ st.cancelling = old.cancelling
        /\ st.turn = old.turn /\ st.toolCallsMade = old.toolCallsMade /\ st.choice = old.choice
        /\ st.last = old.last /\ st.unanswered = old.unanswered /\ st.calls = old.calls
        /\ st.heard = old.heard /\ st.log = old.log /\ st.billed = old.billed /\ st.lost = old.lost
        /\ st.executed = old.executed
    BY <1>1 DEF Fields
  <2>2. run' = [run EXCEPT ![r] = st]
    BY <1>3, Limits DEF RunsInv
  <2> HIDE DEF st
  <2>3. Counters(r, st) /\ CallsOk(r, st.calls)
    BY <1>1, <2>1 DEF Counters
  <2>4. Phases(st) /\ Events(st) /\ Messages(st) /\ Accounts(st)
    BY <1>1, <1>2, <1>3, <2>1 DEF Phases, Events, Messages, Accounts, Ends
  <2>5. RunOk(r, st)
    BY <2>1, <2>3, <2>4 DEF RunOk
  <2>6. Active(r) /\ (r = "climate" => \A s \in Specialists : ~Active(s))
    BY <1>1, <1>3, Limits DEF Active
  <2>7. st.turn \in Nat /\ st.heard = <<>>
    BY <1>1, <1>3, <2>1, <2>3, Limits DEF Counters, Events
  <2>8. Moves(r, st)
    BY <2>1, <2>5, <2>6, <2>7 DEF Moves
  <2>9. QED
    BY <1>2, <2>2, <2>8
<1> DEFINE left == [old EXCEPT !.lost = Cardinality(Searches(r))]
<1>4. CASE /\ old.pc = "generating" \/ (old.pc = "dispatching" /\ BatchSettled(r))
           /\ run' = [run EXCEPT ![r] = End(r, left, "cancelled")]
  <2>1. Active(r) /\ old.heard = <<"started">> /\ old.lost = 0 /\ "cancelled" \in Ends \ {"none"}
    BY <1>1, <1>4 DEF Active, Events, Ends
  <2>2. Searches(r) = FoundIn(old.calls)
    BY DEF Searches, FoundIn
  <2>3. /\ DOMAIN left = Fields /\ left.cancelling = old.cancelling /\ left.turn = old.turn
        /\ left.toolCallsMade = old.toolCallsMade /\ left.choice = old.choice
        /\ left.unanswered = old.unanswered /\ left.heard = old.heard /\ left.log = old.log
        /\ left.billed = old.billed /\ left.executed = old.executed
        /\ left.lost = Cardinality(FoundIn(old.calls))
    BY <1>1, <2>2 DEF Fields
  <2> HIDE DEF left
  <2>4. Counters(r, left) /\ left.log + left.lost = left.billed
    BY <1>1, <2>1, <2>3 DEF Counters, Accounts
  <2>5. Between(r, left)
    BY <1>1, <1>2, <2>1, <2>3, <2>4 DEF Between
  <2>6. \A s \in Descendants(r) : ~Active(s)
    BY <1>1, <1>4, SettledIsOver
  <2>7. left.cancelling = run[r].cancelling /\ left.turn = run[r].turn
    BY <2>3
  <2>8. Moves(r, End(r, left, "cancelled"))
    BY <1>2, <2>1, <2>5, <2>6, <2>7, EndMoves
  <2>9. QED
    BY <1>2, <1>4, <2>8
<1>5. QED
  BY <1>3, <1>4 DEF EndCancelled
LEMMA Extremes ==
  ASSUME NEW a \in Int, NEW b \in Int
  PROVE  /\ Min({a, b}) = IF a <= b THEN a ELSE b
         /\ Max({a, b}) = IF a <= b THEN b ELSE a
<1>1. \A m \in {a, b} : (\A y \in {a, b} : m <= y) => m = IF a <= b THEN a ELSE b
  OBVIOUS
<1>2. \A m \in {a, b} : (\A y \in {a, b} : m >= y) => m = IF a <= b THEN b ELSE a
  OBVIOUS
<1>3. \E m \in {a, b} : \A y \in {a, b} : m <= y
  OBVIOUS
<1>4. \E m \in {a, b} : \A y \in {a, b} : m >= y
  OBVIOUS
<1>5. Min({a, b}) \in {a, b} /\ \A y \in {a, b} : Min({a, b}) <= y
  BY <1>3, Zenon DEF Min
<1>6. Max({a, b}) \in {a, b} /\ \A y \in {a, b} : Max({a, b}) >= y
  BY <1>4, Zenon DEF Max
<1>7. QED
  BY <1>1, <1>2, <1>5, <1>6

(* The calls dispatched are within what is left of the budget.             *)
LEMMA DispatchingOk ==
  ASSUME NEW r \in Runs, NEW st, Between(r, st), ~st.cancelling, st.ended = "none",
         NEW tools \in Batches(r)
  PROVE  LET new == Dispatching(r, st, tools)
         IN RunOk(r, new) /\ new.pc = "dispatching" /\ new.cancelling = st.cancelling /\ new.turn = st.turn
<1> DEFINE new == Dispatching(r, st, tools)
           room == Budget(r) - st.toolCallsMade
           a == Affordable(r, st, tools)
           calls == [k \in DOMAIN tools |->
                      [tool |-> tools[k], sub |-> "none", state |-> IF k <= a THEN "created" ELSE "declined"]]
<1>1. /\ DOMAIN st = Fields /\ st.heard = <<"started">> /\ st.executed <= st.toolCallsMade
      /\ Counters(r, st) /\ st.log + st.lost = st.billed /\ st.lost = 0
  BY DEF Between, Counters
<1>2. PICK n \in 1..MaxBatch : tools \in [1..n -> Tools(r)]
  BY DEF Batches
<1>3. n \in Nat /\ DOMAIN tools = 1..n /\ Len(tools) = n /\ n <= MaxBatch
  BY <1>2, Limits
<1>4. a \in Nat /\ a <= n /\ st.toolCallsMade + a \in 0..Budget(r)
  <2>1. room \in Int /\ 0 <= room /\ st.toolCallsMade \in Nat /\ Budget(r) \in Nat
    BY <1>1, Limits DEF Counters
  <2>2. Max({0, room}) = room
    <3> HIDE DEF room
    <3>1. 0 \in Int /\ room \in Int
      BY <2>1
    <3>2. QED
      BY <2>1, <3>1, Extremes
  <2>3. a = IF n <= room THEN n ELSE room
    <3>1. a = Min({n, room})
      BY <1>3, <2>2 DEF Affordable
    <3> HIDE DEF room
    <3>2. n \in Int /\ room \in Int
      BY <1>3, <2>1
    <3>3. QED
      BY <3>1, <3>2, Extremes
  <2>4. QED
    BY <1>3, <2>1, <2>3
<1>5. new = [st EXCEPT !.pc = "dispatching", !.unanswered = Len(tools), !.toolCallsMade = @ + a, !.calls = calls]
  BY Zenon DEF Dispatching
<1> HIDE DEF a, new, calls
<1>6. /\ DOMAIN new = Fields
      /\ new.pc = "dispatching" /\ new.ended = st.ended /\ new.cancelling = st.cancelling
      /\ new.turn = st.turn /\ new.choice = st.choice /\ new.toolCallsMade = st.toolCallsMade + a
      /\ new.executed = st.executed /\ new.unanswered = n /\ new.calls = calls
      /\ new.log = st.log /\ new.billed = st.billed /\ new.lost = st.lost /\ new.heard = st.heard
  BY <1>1, <1>3, <1>5 DEF Fields
<1>7. /\ DOMAIN calls = 1..n
      /\ \A k \in 1..n : /\ calls[k] \in Calls(r)
                         /\ calls[k].state = IF k <= a THEN "created" ELSE "declined"
  <2>1. \A k \in 1..n : calls[k] = [tool |-> tools[k], sub |-> "none", state |-> IF k <= a THEN "created" ELSE "declined"]
    BY <1>3 DEF calls
  <2>2. \A k \in 1..n : tools[k] \in Tools(r)
    BY <1>2
  <2>3. QED
    BY <1>3, <2>1, <2>2 DEF Calls, CallStates, calls
<1>8. CallsOk(r, calls)
  BY <1>3, <1>7 DEF CallsOk
<1>9. CreatedIn(calls) = 1..a /\ FoundIn(calls) = {}
  BY <1>3, <1>4, <1>7 DEF CreatedIn, FoundIn
<1>10. Cardinality(CreatedIn(calls)) = a /\ Cardinality(FoundIn(calls)) = 0
  <2>1. 1 \in Int /\ a \in Int
    BY <1>4
  <2>2. Cardinality(1..a) = IF 1 > a THEN 0 ELSE a - 1 + 1
    BY ONLY <2>1, FS_Interval, Zenon
  <2>3. QED
    BY <1>4, <1>9, <2>2, FS_EmptySet
<1>11. Counters(r, new)
  BY <1>1, <1>3, <1>4, <1>6 DEF Counters
<1>12. Phases(new) /\ Events(new) /\ Messages(new)
  BY <1>1, <1>6 DEF Phases, Events, Messages, Ends
<1>13. Accounts(new)
  BY <1>1, <1>4, <1>6, <1>10 DEF Accounts, Counters
<1>14. QED
  BY <1>6, <1>8, <1>11, <1>12, <1>13 DEF RunOk, new

LEMMA GenerateMoves ==
  ASSUME RunsInv, ParentInv, NEW r \in Runs, Generate(r)
  PROVE  \E st : Moves(r, st) /\ run' = [run EXCEPT ![r] = st] /\ app' = app /\ aborting' = aborting
<1> DEFINE old == run[r]
           settled == [old EXCEPT !.log = @ + 1, !.billed = @ + 1]
           answered == [settled EXCEPT !.last = "assistant"]
           corrected == [answered EXCEPT !.last = "user"]
<1>1. /\ DOMAIN old = Fields /\ Counters(r, old) /\ Phases(old) /\ Events(old) /\ Messages(old)
      /\ old.executed <= old.toolCallsMade
      /\ old.pc = "generating" /\ ~old.cancelling /\ old.calls = <<>>
      /\ old.log + old.lost = old.billed /\ old.lost = 0
      /\ \A s \in Descendants(r) : ~Active(s)
  BY ActiveIs DEF Generate, Is
<1>2. /\ old.ended = "none" /\ old.unanswered = 0 /\ old.last # "assistant" /\ old.heard = <<"started">>
      /\ old.log \in Nat /\ old.billed \in Nat
  BY <1>1 DEF Phases, Messages, Events, Counters
<1>3. \A st \in {settled, answered, corrected} :
        /\ Between(r, st) /\ ~st.cancelling /\ st.unanswered = 0
        /\ st.calls = <<>> /\ st.ended = "none" /\ st.turn = old.turn /\ st.cancelling = old.cancelling
  <2> DEFINE Same(st) ==
               /\ DOMAIN st = Fields /\ st.log = old.log + 1 /\ st.billed = old.billed + 1 /\ st.lost = old.lost
               /\ st.turn = old.turn /\ st.cancelling = old.cancelling /\ st.unanswered = old.unanswered
               /\ st.calls = old.calls /\ st.ended = old.ended /\ st.heard = old.heard
               /\ st.toolCallsMade = old.toolCallsMade /\ st.executed = old.executed /\ st.choice = old.choice
  <2>1. Same(settled)
    BY <1>1 DEF Fields
  <2>2. \A x : \A last : Same(x) => Same([x EXCEPT !.last = last])
    BY DEF Fields
  <2> HIDE DEF Same
  <2>3. Same(answered) /\ Same(corrected)
    BY <2>1, <2>2
  <2>4. \A st \in {settled, answered, corrected} : Same(st)
    BY <2>1, <2>3
  <2> USE DEF Same
  <2> HIDE DEF old, settled, answered, corrected
  <2>5. QED
    BY <1>1, <1>2, <2>4 DEF Between, Counters
<1>4. settled.last = old.last /\ corrected.last = "user"
  BY <1>1 DEF Fields
<1>5. Active(r)
  BY <1>1 DEF Active
<1>6. PICK st \in {End(r, settled, "generation_error"), End(r, settled, "unknown"),
                   NextTurn(r, settled), AfterPlain(r, answered)}
                  \union {Dispatching(r, answered, tools) :
                            tools \in IF old.choice = "auto" THEN Batches(r) ELSE {}} :
         run' = [run EXCEPT ![r] = st]
  BY Zenon DEF Generate
<1> HIDE DEF old, settled, answered, corrected
<1>7. \A how \in {"generation_error", "unknown", "answer"} : \A x \in {settled, answered} :
        Moves(r, End(r, x, how))
  <2>1. SUFFICES ASSUME NEW how \in {"generation_error", "unknown", "answer"}, NEW x \in {settled, answered}
                 PROVE  Moves(r, End(r, x, how))
    BY Zenon
  <2>2. /\ Between(r, x) /\ ~x.cancelling
        /\ x.turn = run[r].turn /\ x.cancelling = run[r].cancelling
    BY <1>3 DEF old
  <2>3. how \in Ends \ {"none"} /\ how # "cancelled"
    BY DEF Ends
  <2>4. QED
    BY <1>1, <1>5, <2>2, <2>3, EndMoves
<1>8. \A x \in {settled, corrected} : Moves(r, NextTurn(r, x))
  <2>1. SUFFICES ASSUME NEW x \in {settled, corrected}
                 PROVE  Moves(r, NextTurn(r, x))
    BY Zenon
  <2>2. /\ Between(r, x) /\ ~x.cancelling /\ x.unanswered = 0 /\ x.calls = <<>>
        /\ x.ended = "none" /\ x.turn = run[r].turn /\ x.cancelling = run[r].cancelling
        /\ x.last # "assistant"
    BY <1>2, <1>3, <1>4 DEF old
  <2>3. QED
    BY <1>1, <1>5, <2>2, NextTurnMoves
<1>9. Moves(r, AfterPlain(r, answered))
  <2>1. AfterPlain(r, answered) \in {NextTurn(r, corrected), End(r, answered, "answer")}
    BY Zenon DEF AfterPlain, corrected
  <2>2. Moves(r, NextTurn(r, corrected)) /\ Moves(r, End(r, answered, "answer"))
    BY <1>7, <1>8
  <2>3. QED
    BY <2>1, <2>2, Zenon
<1>10. \A tools \in Batches(r) : Moves(r, Dispatching(r, answered, tools))
  <2>1. SUFFICES ASSUME NEW tools \in Batches(r)
                 PROVE  Moves(r, Dispatching(r, answered, tools))
    BY Zenon
  <2> DEFINE new == Dispatching(r, answered, tools)
  <2>2. RunOk(r, new) /\ new.pc = "dispatching" /\ new.cancelling = answered.cancelling /\ new.turn = answered.turn
    BY <1>3, DispatchingOk
  <2> HIDE DEF new
  <2>3. answered.turn = run[r].turn /\ answered.cancelling = run[r].cancelling /\ run[r].turn \in Nat
    BY <1>1, <1>3, Limits DEF old, Counters
  <2>4. r = "climate" => \A s \in Specialists : ~Active(s)
    BY <1>1, Limits
  <2>5. Moves(r, new)
    BY <1>5, <2>2, <2>3, <2>4 DEF Moves
  <2>6. QED
    BY <2>5 DEF new
<1>11. Moves(r, st)
  <2>1. \/ st \in {End(r, settled, "generation_error"), End(r, settled, "unknown"), NextTurn(r, settled)}
        \/ st = AfterPlain(r, answered)
        \/ \E tools \in Batches(r) : st = Dispatching(r, answered, tools)
    BY <1>6
  <2>2. Moves(r, End(r, settled, "generation_error")) /\ Moves(r, End(r, settled, "unknown"))
        /\ Moves(r, NextTurn(r, settled))
    BY <1>7, <1>8
  <2>3. QED
    BY <1>9, <1>10, <2>1, <2>2, Zenon
<1>12. app' = app /\ aborting' = aborting
  BY DEF Generate
<1>13. QED
  BY <1>6, <1>11, <1>12
-----------------------------------------------------------------------------
(***************************************************************************)
(* The calls of one turn.                                                  *)
(***************************************************************************)

(* One call created has been taken up.                                     *)
LEMMA CallTaken ==
  ASSUME NEW r \in Runs, NEW calls, CallsOk(r, calls), NEW k \in DOMAIN calls, calls[k].state = "created",
         NEW g, DOMAIN g = DOMAIN calls, \A l \in DOMAIN calls : l # k => g[l] = calls[l],
         g[k] \in Calls(r), g[k].state # "created"
  PROVE  /\ CallsOk(r, g)
         /\ Cardinality(CreatedIn(g)) = Cardinality(CreatedIn(calls)) - 1
         /\ Cardinality(FoundIn(g)) = Cardinality(FoundIn(calls))
              + IF g[k].tool = "search" /\ g[k].state = "done" THEN 1 ELSE 0
<1>1. CallsOk(r, g)
  BY DEF CallsOk
<1>2. /\ IsFiniteSet(CreatedIn(calls)) /\ IsFiniteSet(FoundIn(calls))
      /\ Cardinality(CreatedIn(calls)) \in Nat /\ Cardinality(FoundIn(calls)) \in Nat
  BY CallSetsAreFinite
<1>3. Cardinality(CreatedIn(g)) = Cardinality(CreatedIn(calls)) - 1
  <2>1. CreatedIn(g) = CreatedIn(calls) \ {k} /\ k \in CreatedIn(calls)
    BY DEF CreatedIn
  <2>2. Cardinality(CreatedIn(calls) \ {k}) = Cardinality(CreatedIn(calls)) - 1
    BY <1>2, <2>1, FS_RemoveElement
  <2>3. QED
    BY <2>1, <2>2
<1>4. Cardinality(FoundIn(g)) = Cardinality(FoundIn(calls))
              + IF g[k].tool = "search" /\ g[k].state = "done" THEN 1 ELSE 0
  <2>1. k \notin FoundIn(calls)
    BY DEF FoundIn
  <2>2. CASE g[k].tool = "search" /\ g[k].state = "done"
    <3>1. FoundIn(g) = FoundIn(calls) \union {k}
      BY <2>2 DEF FoundIn
    <3>2. Cardinality(FoundIn(calls) \union {k}) = Cardinality(FoundIn(calls)) + 1
      BY <1>2, <2>1, FS_AddElement
    <3>3. QED
      BY <2>2, <3>1, <3>2
  <2>3. CASE ~(g[k].tool = "search" /\ g[k].state = "done")
    <3>1. FoundIn(g) = FoundIn(calls)
      BY <2>1, <2>3 DEF FoundIn
    <3>2. QED
      BY <1>2, <2>3, <3>1
  <2>4. QED
    BY <2>2, <2>3
<1>5. QED
  BY <1>1, <1>3, <1>4

(* The state of a run in which one more of its calls has been taken up.    *)
LEMMA TakenOk ==
  ASSUME NEW r \in Runs, NEW old, RunOk(r, old), old.pc = "dispatching",
         NEW k \in DOMAIN old.calls, old.calls[k].state = "created",
         NEW st, DOMAIN st = Fields, st.pc = old.pc, st.cancelling = old.cancelling, st.turn = old.turn,
         st.toolCallsMade = old.toolCallsMade, st.choice = old.choice, st.unanswered = old.unanswered,
         st.ended = old.ended, st.heard = old.heard, st.log = old.log, st.lost = old.lost,
         st.executed = old.executed + 1,
         DOMAIN st.calls = DOMAIN old.calls, \A l \in DOMAIN old.calls : l # k => st.calls[l] = old.calls[l],
         st.calls[k] \in Calls(r), st.calls[k].state # "created",
         st.billed = old.billed + IF st.calls[k].tool = "search" /\ st.calls[k].state = "done" THEN 1 ELSE 0
  PROVE  RunOk(r, st)
<1>1. /\ CallsOk(r, old.calls) /\ Counters(r, old) /\ Phases(old) /\ Events(old) /\ Accounts(old)
  BY DEF RunOk
<1>2. /\ CallsOk(r, st.calls)
      /\ Cardinality(CreatedIn(st.calls)) = Cardinality(CreatedIn(old.calls)) - 1
      /\ Cardinality(FoundIn(st.calls)) = Cardinality(FoundIn(old.calls))
           + IF st.calls[k].tool = "search" /\ st.calls[k].state = "done" THEN 1 ELSE 0
  <2> DEFINE calls == old.calls
             g == st.calls
  <2>1. /\ CallsOk(r, calls) /\ k \in DOMAIN calls /\ calls[k].state = "created"
        /\ DOMAIN g = DOMAIN calls /\ \A l \in DOMAIN calls : l # k => g[l] = calls[l]
        /\ g[k] \in Calls(r) /\ g[k].state # "created"
    BY <1>1
  <2> HIDE DEF calls, g
  <2>2. /\ CallsOk(r, g)
        /\ Cardinality(CreatedIn(g)) = Cardinality(CreatedIn(calls)) - 1
        /\ Cardinality(FoundIn(g)) = Cardinality(FoundIn(calls))
              + IF g[k].tool = "search" /\ g[k].state = "done" THEN 1 ELSE 0
    BY <2>1, CallTaken
  <2>3. QED
    BY <2>2 DEF calls, g
<1>3. Cardinality(CreatedIn(old.calls)) \in Nat /\ Cardinality(FoundIn(old.calls)) \in Nat
  BY <1>1, CallSetsAreFinite
<1>4. ~old.cancelling
  <2>1. k \in CreatedIn(old.calls)
    BY DEF CreatedIn
  <2>2. QED
    BY <1>1, <2>1 DEF Accounts
<1>5. Counters(r, st)
  BY <1>1 DEF Counters
<1>6. Phases(st) /\ Events(st) /\ Messages(st)
  BY <1>1 DEF Phases, Events, Messages
<1>7. Accounts(st)
  <2> DEFINE c == Cardinality(CreatedIn(old.calls))
             f == Cardinality(FoundIn(old.calls))
             d == IF st.calls[k].tool = "search" /\ st.calls[k].state = "done" THEN 1 ELSE 0
  <2>1. d \in {0, 1} /\ c \in Nat /\ f \in Nat
    BY <1>3
  <2>2. old.executed + c <= old.toolCallsMade /\ old.log + f + old.lost = old.billed
    BY <1>1 DEF Accounts
  <2>3. old.executed \in Nat /\ old.toolCallsMade \in Nat /\ old.log \in Nat /\ old.billed \in Nat
        /\ old.lost \in Nat
    BY <1>1, Limits DEF Counters
  <2>4. /\ Cardinality(CreatedIn(st.calls)) = c - 1 /\ Cardinality(FoundIn(st.calls)) = f + d
        /\ st.billed = old.billed + d
    BY <1>2
  <2> HIDE DEF c, f, d
  <2>5. /\ st.executed + Cardinality(CreatedIn(st.calls)) <= st.toolCallsMade
        /\ st.log + Cardinality(FoundIn(st.calls)) + st.lost = st.billed
    BY <2>1, <2>2, <2>3, <2>4
  <2>6. QED
    BY <1>1, <1>4, <2>5 DEF Accounts
<1>8. QED
  BY <1>2, <1>5, <1>6, <1>7 DEF RunOk

LEMMA RunToolMoves ==
  ASSUME RunsInv, ParentInv, NEW r \in Runs, NEW k \in DOMAIN run[r].calls, RunTool(r, k)
  PROVE  \E st : Moves(r, st) /\ run' = [run EXCEPT ![r] = st] /\ app' = app /\ aborting' = aborting
<1> DEFINE old == run[r]
           executed == [old EXCEPT !.executed = @ + 1]
           search == old.calls[k].tool = "search"
           done == [executed EXCEPT !.calls[k].state = IF ~search /\ old.rejected THEN "approved" ELSE "done",
                                    !.rejected = @ \/ ~search,
                                    !.billed = IF search THEN @ + 1 ELSE @]
           raised == [executed EXCEPT !.calls[k].state = "raised"]
<1>1. /\ RunOk(r, old) /\ DOMAIN old = Fields /\ CallsOk(r, old.calls) /\ Counters(r, old)
  BY DEF RunsInv, RunOk
<1>2. /\ old.pc = "dispatching" /\ old.calls[k].state = "created" /\ old.calls[k].tool # "delegate"
      /\ app' = app /\ aborting' = aborting
  BY DEF RunTool
<1>3. PICK st \in {done, raised} : run' = [run EXCEPT ![r] = st]
  BY Zenon DEF RunTool
<1>4. old.calls[k] \in Calls(r) /\ k \in DOMAIN old.calls /\ old.billed \in Nat
  BY <1>1 DEF CallsOk, Counters
<1>5. /\ DOMAIN executed = Fields /\ executed.pc = old.pc /\ executed.cancelling = old.cancelling
      /\ executed.turn = old.turn /\ executed.toolCallsMade = old.toolCallsMade
      /\ executed.choice = old.choice /\ executed.unanswered = old.unanswered
      /\ executed.ended = old.ended /\ executed.heard = old.heard /\ executed.log = old.log
      /\ executed.lost = old.lost
      /\ executed.executed = old.executed + 1 /\ executed.calls = old.calls /\ executed.billed = old.billed
  BY <1>1 DEF Fields
<1> HIDE DEF executed
<1> DEFINE Changed(x, to, billed) ==
             /\ DOMAIN x = Fields /\ x.pc = old.pc /\ x.cancelling = old.cancelling
             /\ x.turn = old.turn /\ x.toolCallsMade = old.toolCallsMade
             /\ x.choice = old.choice /\ x.unanswered = old.unanswered
             /\ x.ended = old.ended /\ x.heard = old.heard /\ x.log = old.log /\ x.lost = old.lost
             /\ x.executed = old.executed + 1 /\ x.billed = billed
             /\ x.calls = [old.calls EXCEPT ![k].state = to]
<1>6. /\ Changed(done, IF ~search /\ old.rejected THEN "approved" ELSE "done",
                 IF search THEN old.billed + 1 ELSE old.billed)
      /\ Changed(raised, "raised", old.billed)
  BY <1>5 DEF Fields
<1>7. \A to \in {"done", "approved", "raised"} : \A calls : calls = [old.calls EXCEPT ![k].state = to] =>
        /\ DOMAIN calls = DOMAIN old.calls /\ \A l \in DOMAIN old.calls : l # k => calls[l] = old.calls[l]
        /\ calls[k] \in Calls(r) /\ calls[k].state = to /\ calls[k].tool = old.calls[k].tool
  BY <1>4 DEF Calls, CallStates
<1>8. PICK to \in {"done", "approved", "raised"} :
        Changed(st, to, old.billed + IF search /\ to = "done" THEN 1 ELSE 0)
  <2>1. CASE st = raised
    <3>1. Changed(st, "raised", old.billed + IF search /\ "raised" = "done" THEN 1 ELSE 0)
      BY <1>4, <1>6, <2>1
    <3>2. QED
      BY <3>1
  <2>2. CASE st = done
    <3> DEFINE to == IF ~search /\ old.rejected THEN "approved" ELSE "done"
    <3>1. old.billed + (IF search /\ to = "done" THEN 1 ELSE 0) = IF search THEN old.billed + 1 ELSE old.billed
      BY <1>4
    <3>2. Changed(st, to, old.billed + IF search /\ to = "done" THEN 1 ELSE 0)
      BY <1>6, <2>2, <3>1
    <3>3. to \in {"done", "approved", "raised"}
      OBVIOUS
    <3>4. QED
      BY <3>2, <3>3
  <2>3. QED
    BY <1>3, <2>1, <2>2
<1> HIDE DEF done, raised
<1>9. /\ DOMAIN st.calls = DOMAIN old.calls /\ \A l \in DOMAIN old.calls : l # k => st.calls[l] = old.calls[l]
      /\ st.calls[k] \in Calls(r) /\ st.calls[k].state = to /\ st.calls[k].tool = old.calls[k].tool
  BY <1>7, <1>8
<1>10. RunOk(r, st)
  <2>1. st.billed = old.billed + IF st.calls[k].tool = "search" /\ st.calls[k].state = "done" THEN 1 ELSE 0
    BY <1>8, <1>9
  <2>2. /\ DOMAIN st = Fields /\ st.pc = old.pc /\ st.cancelling = old.cancelling /\ st.turn = old.turn
        /\ st.toolCallsMade = old.toolCallsMade /\ st.choice = old.choice /\ st.unanswered = old.unanswered
        /\ st.ended = old.ended /\ st.heard = old.heard /\ st.log = old.log /\ st.lost = old.lost
        /\ st.executed = old.executed + 1 /\ st.calls[k].state # "created"
    BY <1>8, <1>9
  <2> HIDE DEF old
  <2>3. QED
    BY <1>1, <1>2, <1>4, <1>9, <2>1, <2>2, TakenOk
<1>11. r = "climate" => \A s \in Specialists : Active(s) => Awaits(st, s)
  <2>1. SUFFICES ASSUME r = "climate", NEW s \in Specialists, Active(s)
                 PROVE  Awaits(st, s)
    OBVIOUS
  <2>2. PICK l \in DOMAIN old.calls : old.calls[l].state = "delegated" /\ old.calls[l].sub = s
    BY <2>1 DEF ParentInv, Awaits
  <2>3. l # k
    BY <1>2, <2>2
  <2>4. QED
    BY <1>2, <1>8, <1>9, <2>2, <2>3 DEF Awaits
<1>12. Moves(r, st)
  <2>1. st.pc = "dispatching" /\ st.cancelling = run[r].cancelling /\ st.turn = run[r].turn /\ run[r].turn \in Nat
    BY <1>1, <1>2, <1>8, Limits DEF Counters
  <2>2. Active(r)
    BY <1>2 DEF Active
  <2>3. QED
    BY <1>10, <1>11, <2>1, <2>2 DEF Moves
<1>13. QED
  BY <1>2, <1>3, <1>12

LEMMA CollectMoves ==
  ASSUME RunsInv, ParentInv, NEW r \in Runs, Collect(r)
  PROVE  \E st : Moves(r, st) /\ run' = [run EXCEPT ![r] = st] /\ app' = app /\ aborting' = aborting
<1> DEFINE old == run[r]
           found == Cardinality(FoundIn(old.calls))
           approved == \E k \in DOMAIN old.calls : old.calls[k].state = "approved"
           settled == [old EXCEPT !.log = @ + Cardinality(Searches(r)), !.approved = @ \/ approved]
           next == [settled EXCEPT !.last = "tools", !.unanswered = 0, !.calls = <<>>]
<1>1. /\ DOMAIN old = Fields /\ Counters(r, old) /\ Phases(old) /\ Events(old) /\ Accounts(old)
      /\ found \in Nat /\ old.executed <= old.toolCallsMade
      /\ old.pc = "dispatching" /\ ~old.cancelling /\ old.lost = 0
  BY ActiveIs DEF Collect, Is
<1>2. /\ old.ended = "none" /\ old.heard = <<"started">> /\ old.log \in Nat /\ old.log + found = old.billed
      /\ old.billed \in Nat
  BY <1>1 DEF Phases, Events, Counters, Accounts
<1>3. /\ Active(r) /\ \A s \in Descendants(r) : ~Active(s)
      /\ app' = app /\ aborting' = aborting /\ run' = [run EXCEPT ![r] = Collected(r)]
  BY <1>1, SettledIsOver DEF Active, Collect
<1>4. Searches(r) = FoundIn(old.calls)
  BY DEF Searches, FoundIn
<1>5. Collected(r) \in {End(r, settled, "defect"), NextTurn(r, next)}
  BY Zenon DEF Collected
<1> DEFINE Same(st) ==
             /\ DOMAIN st = Fields /\ st.log = old.log + found /\ st.billed = old.billed /\ st.lost = old.lost
             /\ st.turn = old.turn /\ st.cancelling = old.cancelling /\ st.ended = old.ended /\ st.heard = old.heard
             /\ st.toolCallsMade = old.toolCallsMade /\ st.executed = old.executed /\ st.choice = old.choice
<1>6. Same(settled) /\ settled.unanswered = old.unanswered
  BY <1>1, <1>4 DEF Fields
<1> HIDE DEF settled
<1>7. Same(next) /\ next.last = "tools" /\ next.unanswered = 0 /\ next.calls = <<>>
  BY <1>6 DEF Fields
<1> HIDE DEF old, next, found
<1>8. Between(r, settled) /\ Between(r, next)
  <2>1. Counters(r, settled) /\ Counters(r, next)
    BY <1>1, <1>2, <1>6, <1>7, Limits DEF Counters
  <2>2. QED
    BY <1>1, <1>2, <1>6, <1>7, <2>1 DEF Between
<1>9. Moves(r, End(r, settled, "defect"))
  <2>1. "defect" \in Ends \ {"none"} /\ "defect" # "cancelled"
    BY DEF Ends
  <2>2. /\ ~settled.cancelling
        /\ settled.cancelling = run[r].cancelling /\ settled.turn = run[r].turn
    BY <1>1, <1>2, <1>6 DEF old
  <2>3. QED
    BY <1>3, <1>8, <2>1, <2>2, EndMoves
<1>10. Moves(r, NextTurn(r, next))
  <2>1. /\ ~next.cancelling /\ next.ended = "none" /\ next.last # "assistant"
        /\ next.cancelling = run[r].cancelling /\ next.turn = run[r].turn
    BY <1>1, <1>2, <1>7 DEF old
  <2>2. QED
    BY <1>3, <1>7, <1>8, <2>1, NextTurnMoves
<1>11. QED
  BY <1>3, <1>5, <1>9, <1>10, Zenon
-----------------------------------------------------------------------------
(***************************************************************************)
(* Runs that start with the call or the stage they belong to.              *)
(***************************************************************************)
LEMMA Leaf ==
  ASSUME NEW r \in Runs, r # "climate"
  PROVE  /\ SumOf("log", Descendants(r)) = SumOf("billed", Descendants(r))
         /\ SumOf("billed", Descendants(r))' = SumOf("billed", Descendants(r))
         /\ SumOf("log", Descendants(r))' = SumOf("log", Descendants(r))
<1>1. Descendants(r) = {}
  BY Limits
<1>2. [s \in {} |-> run[s]["log"]] = [s \in {} |-> run[s]["billed"]]
  OBVIOUS
<1>3. SumOf("log", {}) = SumOf("billed", {})
  BY <1>2, Zenon DEF SumOf
<1> DEFINE none == {}
<1>4. \A s \in none : run'[s].billed = run[s].billed /\ run'[s].log = run[s].log
  OBVIOUS
<1> HIDE DEF none
<1>5. SumOf("billed", none)' = SumOf("billed", none) /\ SumOf("log", none)' = SumOf("log", none)
  BY <1>4, SumsStay
<1>6. none = {}
  BY DEF none
<1>7. SumOf("billed", {})' = SumOf("billed", {}) /\ SumOf("log", {})' = SumOf("log", {})
  BY <1>5, <1>6, Zenon
<1>8. Descendants(r)' = {}
  BY <1>1 DEF Descendants
<1>9. QED
  BY <1>1, <1>3, <1>7, <1>8, Zenon

LEMMA FreshOk ==
  ASSUME NEW r \in Runs, r # "climate"
  PROVE  LET new == Started(r, NewRun)
         IN /\ RunOk(r, new) /\ new.pc \in {"generating", "over"} /\ ~new.cancelling
            /\ new.pc = "over" => new.reported = new.log + SumOf("log", Descendants(r))
            /\ new.turn > 0 => ~(new.billed + SumOf("billed", Descendants(r)) >= MaxCost)
<1> DEFINE st == [NewRun EXCEPT !.heard = <<"started">>]
           new == NextTurn(r, st)
<1>1. /\ DOMAIN st = Fields /\ st.pc = "absent" /\ st.cancelling = FALSE /\ st.turn = 0
      /\ st.toolCallsMade = 0 /\ st.choice = "auto" /\ st.last = "user"
      /\ st.unanswered = 0 /\ st.calls = <<>> /\ st.ended = "none"
      /\ st.heard = <<"started">> /\ st.log = 0 /\ st.billed = 0 /\ st.executed = 0 /\ st.lost = 0
  BY DEF Fields, NewRun
<1> HIDE DEF st
<1>2. Between(r, st)
  <2>1. 0 \in 0..MaxTurns[Config(r)] /\ 0 \in 0..Budget(r) /\ 0 \in 0..MaxBatch
    BY Limits
  <2>2. st.cancelling \in BOOLEAN
    BY <1>1, Zenon
  <2>3. st.heard = <<"started">> /\ st.log \in Nat /\ st.billed \in Nat /\ st.executed \in Nat /\ st.lost \in Nat
        /\ st.log + st.lost = st.billed
    BY <1>1
  <2>4. Counters(r, st)
    BY <1>1, <2>1, <2>2, <2>3, Zenon DEF Counters
  <2>5. QED
    BY <1>1, <2>3, <2>4 DEF Between
<1>3. /\ RunOk(r, new)
      /\ new.pc \in {"generating", "over"} /\ new.cancelling = st.cancelling
      /\ new.billed = st.billed /\ new.log = st.log
      /\ new.pc = "over" => new.ended = "limit" /\ new.reported = Usage(r, st) /\ new.turn = st.turn
      /\ new.pc = "generating" => ~(Usage(r, st) >= MaxCost)
  <2>1. ~st.cancelling /\ st.last # "assistant"
    BY <1>1
  <2>2. QED
    BY <1>1, <1>2, <2>1, NextTurnOk
<1>4. Started(r, NewRun) = new
  BY DEF Started, st
<1> HIDE DEF new
<1>5. /\ Usage(r, st) = new.billed + SumOf("billed", Descendants(r))
      /\ Usage(r, st) = new.log + SumOf("log", Descendants(r))
  BY <1>1, <1>3, Leaf DEF Usage
<1>6. QED
  BY <1>1, <1>3, <1>4, <1>5

LEMMA DelegateKeeps ==
  ASSUME GraphInv, NEW r \in Runs, NEW k \in DOMAIN run[r].calls, Delegate(r, k)
  PROVE  GraphInv' /\ CostIsBelow
<1> DEFINE old == run[r]
<1>1. /\ RunsInv /\ ParentInv /\ ReportInv /\ AppInv
  BY DEF GraphInv
<1>2. /\ RunOk(r, old) /\ DOMAIN old = Fields /\ CallsOk(r, old.calls) /\ Counters(r, old) /\ Phases(old)
      /\ old.pc = "dispatching" /\ old.calls[k].state = "created" /\ old.calls[k].tool = "delegate"
      /\ k \in DOMAIN old.calls /\ old.calls[k] \in Calls(r)
      /\ app' = app /\ aborting' = aborting
  BY <1>1 DEF RunsInv, RunOk, CallsOk, Delegate
<1>3. PICK s \in Specialists :
        /\ run[s].pc = "absent"
        /\ run' = [run EXCEPT ![r].calls[k].state = "delegated", ![r].calls[k].sub = s,
                              ![r].executed = @ + 1, ![s] = Started(s, NewRun)]
  BY Zenon DEF Delegate
<1>4. /\ r = "climate" /\ s # r /\ s \in Runs /\ s # "climate" /\ s # "synthesize"
      /\ "synthesize" \in Runs /\ DOMAIN run = Runs
  <2>1. "delegate" \in Tools(r)
    BY <1>2 DEF Calls
  <2>2. QED
    BY <1>1, <2>1, Limits DEF RunsInv, Runs, Nodes
<1> DEFINE new == Started(s, NewRun)
           st == [[[old EXCEPT !.calls[k].state = "delegated"] EXCEPT !.calls[k].sub = s] EXCEPT !.executed = @ + 1]
<1>5. DOMAIN run' = Runs /\ \A q \in Runs : run'[q] = IF q = s THEN new ELSE IF q = r THEN st ELSE run[q]
  <2> HIDE DEF new
  <2>1. run' = [run EXCEPT ![r].calls[k].state = "delegated", ![r].calls[k].sub = s,
                              ![r].executed = @ + 1, ![s] = new]
    BY <1>3 DEF new
  <2>2. QED
    BY <1>4, <2>1
<1>6. /\ RunOk(s, new) /\ new.pc \in {"generating", "over"} /\ ~new.cancelling
      /\ new.pc = "over" => new.reported = new.log + SumOf("log", Descendants(s))
      /\ new.turn > 0 => ~(new.billed + SumOf("billed", Descendants(s)) >= MaxCost)
  BY <1>4, FreshOk
<1> HIDE DEF new
<1>7. /\ DOMAIN st = Fields /\ st.pc = old.pc /\ st.cancelling = old.cancelling /\ st.turn = old.turn
      /\ st.toolCallsMade = old.toolCallsMade /\ st.choice = old.choice /\ st.unanswered = old.unanswered
      /\ st.ended = old.ended /\ st.heard = old.heard /\ st.log = old.log /\ st.executed = old.executed + 1
      /\ st.billed = old.billed /\ st.lost = old.lost
  BY <1>2 DEF Fields
<1>8. /\ DOMAIN st.calls = DOMAIN old.calls /\ \A l \in DOMAIN old.calls : l # k => st.calls[l] = old.calls[l]
      /\ st.calls[k] \in Calls(r) /\ st.calls[k].state = "delegated" /\ st.calls[k].sub = s
      /\ st.calls[k].tool = "delegate"
  <2> DEFINE calls == [[old.calls EXCEPT ![k].state = "delegated"] EXCEPT ![k].sub = s]
  <2>1. st.calls = calls
    BY <1>2 DEF Fields
  <2>2. /\ DOMAIN calls = DOMAIN old.calls /\ \A l \in DOMAIN old.calls : l # k => calls[l] = old.calls[l]
        /\ calls[k] \in Calls(r) /\ calls[k].state = "delegated" /\ calls[k].sub = s
        /\ calls[k].tool = "delegate"
    <3> HIDE DEF old
    <3>1. QED
      BY <1>2 DEF Calls, CallStates
  <2> HIDE DEF calls
  <2>3. QED
    BY <2>1, <2>2
<1> HIDE DEF st
<1>9. RunOk(r, st)
  <2>1. old.billed \in Nat
    BY <1>2 DEF Counters
  <2>2. st.billed = old.billed + IF st.calls[k].tool = "search" /\ st.calls[k].state = "done" THEN 1 ELSE 0
    BY <1>7, <1>8, <2>1
  <2>3. st.calls[k].state # "created"
    BY <1>8
  <2> HIDE DEF old
  <2>4. QED
    BY <1>2, <1>7, <1>8, <2>2, <2>3, TakenOk
<1>10. RunsInv'
  BY <1>1, <1>5, <1>6, <1>9 DEF RunsInv
<1>11. ParentInv'
  <2>1. SUFFICES ASSUME NEW q \in Specialists
                 PROVE  /\ run'[q].pc \notin {"absent", "over"} => Awaits(run'["climate"], q)
                        /\ run'[q].cancelling => run'["climate"].cancelling
    BY DEF ParentInv, Active
  <2>2. q \in Runs /\ q # "climate" /\ run'["climate"] = st
    BY <1>4, <1>5, Limits DEF Nodes
  <2>3. CASE q = s
    <3>1. Awaits(st, q)
      BY <1>2, <1>7, <1>8, <2>3 DEF Awaits
    <3>2. QED
      BY <1>5, <1>6, <2>2, <2>3, <3>1
  <2>4. CASE q # s
    <3>1. run'[q] = run[q] /\ (run[q].cancelling => old.cancelling)
      BY <1>1, <1>4, <1>5, <2>2, <2>4 DEF ParentInv
    <3>2. ASSUME Active(q)
          PROVE  Awaits(st, q)
      <4>1. PICK l \in DOMAIN old.calls : old.calls[l].state = "delegated" /\ old.calls[l].sub = q
        BY <1>1, <1>4, <3>2 DEF ParentInv, Awaits
      <4>2. l # k
        BY <1>2, <4>1
      <4>3. QED
        BY <1>2, <1>7, <1>8, <4>1, <4>2 DEF Awaits
    <3>3. QED
      BY <1>7, <2>2, <3>1, <3>2 DEF Active
  <2>5. QED
    BY <2>3, <2>4
<1>12. \A q \in Runs : q # "climate" => /\ SumOf("billed", Descendants(q))' = SumOf("billed", Descendants(q))
                                        /\ SumOf("log", Descendants(q))' = SumOf("log", Descendants(q))
  BY Leaf
<1>13. ReportInv'
  <2>1. SUFFICES ASSUME NEW q \in Runs, run'[q].pc = "over", run'[q].heard # <<>>
                 PROVE  run'[q].reported = run'[q].log + SumOf("log", Descendants(q))'
    BY DEF ReportInv
  <2>2. q # "climate"
    BY <1>2, <1>4, <1>5, <1>7, <2>1
  <2>3. SumOf("log", Descendants(q))' = SumOf("log", Descendants(q))
    BY <1>12, <2>2
  <2>4. CASE q = s
    BY <1>5, <1>6, <2>1, <2>3, <2>4
  <2>5. CASE q # s
    BY <1>1, <1>4, <1>5, <2>1, <2>2, <2>3, <2>5 DEF ReportInv
  <2>6. QED
    BY <2>4, <2>5
<1>14. AppInv'
  <2>1. app = "research"
    <3>1. Active("climate") /\ "climate" \in Runs \ {"synthesize"}
      BY <1>2, <1>4 DEF Active
    <3>2. QED
      BY <1>1, <3>1 DEF AppInv
  <2>2. run'["synthesize"] = run["synthesize"]
    BY <1>4, <1>5
  <2>3. QED
    BY <1>1, <1>2, <2>1, <2>2 DEF AppInv
<1>15. CostIsBelow
  <2>1. SUFFICES ASSUME NEW q \in Runs, run'[q].turn > run[q].turn
                 PROVE  ~(run'[q].billed + SumOf("billed", Descendants(q))' >= MaxCost)
    BY DEF CostIsBelow
  <2>2. run[q].turn \in Nat
    BY <1>1, Limits DEF RunsInv, RunOk, Counters
  <2>3. q = s
    BY <1>4, <1>5, <1>7, <2>1, <2>2
  <2>4. new.turn \in Nat
    BY <1>4, <1>6, Limits DEF RunOk, Counters
  <2>5. new.turn > 0 /\ run'[q] = new
    BY <1>5, <2>1, <2>2, <2>3, <2>4
  <2>6. SumOf("billed", Descendants(q))' = SumOf("billed", Descendants(q))
    BY <1>4, <1>12, <2>3
  <2>7. QED
    BY <1>6, <2>3, <2>5, <2>6
<1>16. QED
  BY <1>10, <1>11, <1>13, <1>14, <1>15, Zenon DEF GraphInv
-----------------------------------------------------------------------------
(***************************************************************************)
(* Cancellation.                                                           *)
(***************************************************************************)
CancelledRun(st) == [st EXCEPT !.cancelling = TRUE, !.calls = WithoutCreated(@)]

LEMMA CancelledOk ==
  ASSUME NEW r \in Runs, NEW st, RunOk(r, st), st.pc \notin {"absent", "over"}
  PROVE  LET new == CancelledRun(st)
         IN /\ RunOk(r, new) /\ new.pc = st.pc /\ new.ended = st.ended /\ new.turn = st.turn
            /\ new.billed = st.billed /\ new.log = st.log /\ new.cancelling
            /\ \A s : Awaits(st, s) => Awaits(new, s)
<1> DEFINE new == CancelledRun(st)
           calls == WithoutCreated(st.calls)
<1>1. /\ DOMAIN st = Fields /\ CallsOk(r, st.calls) /\ Counters(r, st) /\ Phases(st) /\ Events(st)
      /\ Messages(st) /\ Accounts(st)
  BY DEF RunOk
<1>2. /\ DOMAIN new = Fields /\ new.pc = st.pc /\ new.cancelling = TRUE /\ new.turn = st.turn
      /\ new.toolCallsMade = st.toolCallsMade /\ new.choice = st.choice /\ new.last = st.last
      /\ new.unanswered = st.unanswered /\ new.calls = calls /\ new.ended = st.ended /\ new.heard = st.heard
      /\ new.log = st.log /\ new.billed = st.billed /\ new.lost = st.lost /\ new.executed = st.executed
  BY <1>1 DEF Fields, CancelledRun
<1> HIDE DEF new
<1>3. /\ DOMAIN calls = DOMAIN st.calls
      /\ \A k \in DOMAIN calls :
           /\ calls[k] \in Calls(r) /\ calls[k].state # "created" /\ calls[k].tool = st.calls[k].tool
           /\ calls[k].sub = st.calls[k].sub
           /\ st.calls[k].state # "created" => calls[k].state = st.calls[k].state
           /\ st.calls[k].state = "created" => calls[k].state = "cancelled"
  <2>1. DOMAIN calls = DOMAIN st.calls
    BY DEF WithoutCreated
  <2>2. \A k \in DOMAIN st.calls : st.calls[k] \in Calls(r)
    BY <1>1 DEF CallsOk
  <2>3. \A k \in DOMAIN st.calls :
          calls[k] = IF st.calls[k].state = "created" THEN [st.calls[k] EXCEPT !.state = "cancelled"] ELSE st.calls[k]
    BY DEF WithoutCreated
  <2> HIDE DEF calls
  <2>4. QED
    BY <2>1, <2>2, <2>3, ZenonT(40) DEF Calls, CallStates
<1>4. st.calls = <<>> => calls = <<>>
  <2>1. DOMAIN << >> = {}
    OBVIOUS
  <2>2. [k \in {} |-> IF <<>>[k].state = "created" THEN [<<>>[k] EXCEPT !.state = "cancelled"] ELSE <<>>[k]] = <<>>
    OBVIOUS
  <2>3. WithoutCreated(<<>>) = <<>>
    BY <2>1, <2>2, Zenon DEF WithoutCreated
  <2>4. QED
    BY <2>3
<1> HIDE DEF calls
<1>5. CallsOk(r, calls)
  BY <1>1, <1>3 DEF CallsOk
<1>6. CreatedIn(calls) = {} /\ FoundIn(calls) = FoundIn(st.calls)
  <2>1. CreatedIn(calls) = {}
    BY <1>3 DEF CreatedIn
  <2>2. FoundIn(calls) = FoundIn(st.calls)
    BY <1>3 DEF FoundIn
  <2>3. QED
    BY <2>1, <2>2
<1>7. /\ Cardinality(CreatedIn(calls)) = 0 /\ Cardinality(FoundIn(calls)) = Cardinality(FoundIn(st.calls))
      /\ Cardinality(CreatedIn(st.calls)) \in Nat
  BY <1>1, <1>6, CallSetsAreFinite, FS_EmptySet
<1>8. Counters(r, new)
  BY <1>1, <1>2 DEF Counters
<1>9. Phases(new) /\ Events(new) /\ Messages(new)
  BY <1>1, <1>2 DEF Phases, Events, Messages
<1>10. Accounts(new)
  <2>1. st.executed \in Nat /\ st.toolCallsMade \in Nat
    BY <1>1, Limits DEF Counters
  <2>2. st.executed <= st.toolCallsMade
    BY <1>1, <1>7, <2>1 DEF Accounts
  <2>3. new.executed + Cardinality(CreatedIn(new.calls)) <= new.toolCallsMade
    BY <1>2, <1>7, <2>1, <2>2
  <2>4. new.log + Cardinality(FoundIn(new.calls)) + new.lost = new.billed
    BY <1>1, <1>2, <1>7 DEF Accounts
  <2>5. new.lost > 0 => new.ended = "cancelled"
    BY <1>1, <1>2 DEF Accounts
  <2>6. new.pc # "over" /\ (new.pc # "dispatching" => new.calls = <<>>) /\ CreatedIn(new.calls) = {}
    BY <1>1, <1>2, <1>4, <1>6 DEF Accounts
  <2>7. QED
    BY <2>3, <2>4, <2>5, <2>6 DEF Accounts
<1>11. \A s : Awaits(st, s) => Awaits(new, s)
  <2>1. SUFFICES ASSUME NEW s, Awaits(st, s)
                 PROVE  Awaits(new, s)
    OBVIOUS
  <2>2. PICK k \in DOMAIN st.calls : st.calls[k].state = "delegated" /\ st.calls[k].sub = s
    BY <2>1 DEF Awaits
  <2>3. k \in DOMAIN calls /\ calls[k].state = "delegated" /\ calls[k].sub = s
    BY <1>3, <2>2
  <2>4. QED
    BY <1>2, <2>1, <2>3 DEF Awaits
<1>12. QED
  BY <1>2, <1>5, <1>8, <1>9, <1>10, <1>11 DEF RunOk, new

LEMMA CancelKeeps ==
  ASSUME GraphInv, NEW nodes, nodes \in {Researchers, {"synthesize"}}, Cancel(nodes),
         app' = app, aborting' = TRUE
  PROVE  GraphInv' /\ CostIsBelow
<1> DEFINE Told(r) == Active(r) /\ (r \in nodes \/ \E n \in nodes : r \in Descendants(n))
<1>1. RunsInv /\ ParentInv /\ ReportInv /\ AppInv
  BY DEF GraphInv
<1>2. DOMAIN run' = Runs /\ \A r \in Runs : run'[r] = IF Told(r) THEN CancelledRun(run[r]) ELSE run[r]
  BY Zenon DEF Cancel, CancelledRun
<1>3. \A r \in Runs : Told(r) => run[r].pc \notin {"absent", "over"} /\ RunOk(r, run[r])
  BY <1>1 DEF Active, RunsInv
<1>4. \A s \in Specialists : Told(s) => Told("climate")
  <2>1. SUFFICES ASSUME NEW s \in Specialists, Told(s)
                 PROVE  Told("climate")
    OBVIOUS
  <2>2. "climate" \in nodes
    BY <2>1, Limits DEF Researchers, Nodes, Descendants
  <2>3. Active("climate")
    BY <1>1, <2>1 DEF ParentInv, Awaits, Active
  <2>4. QED
    BY <2>2, <2>3
<1> HIDE DEF Told
<1>5. \A r \in Runs : /\ RunOk(r, run'[r]) /\ run'[r].pc = run[r].pc /\ run'[r].ended = run[r].ended
                      /\ run'[r].turn = run[r].turn /\ run'[r].billed = run[r].billed
                      /\ run'[r].log = run[r].log
                      /\ \A s : Awaits(run[r], s) => Awaits(run'[r], s)
                      /\ Told(r) => run'[r].cancelling
                      /\ ~Told(r) => run'[r] = run[r]
                      /\ run[r].cancelling => run'[r].cancelling
  <2>1. SUFFICES ASSUME NEW r \in Runs
                 PROVE  /\ RunOk(r, run'[r]) /\ run'[r].pc = run[r].pc /\ run'[r].ended = run[r].ended
                        /\ run'[r].turn = run[r].turn /\ run'[r].billed = run[r].billed
                        /\ run'[r].log = run[r].log
                        /\ \A s : Awaits(run[r], s) => Awaits(run'[r], s)
                        /\ Told(r) => run'[r].cancelling
                        /\ ~Told(r) => run'[r] = run[r]
                        /\ run[r].cancelling => run'[r].cancelling
    OBVIOUS
  <2>2. CASE Told(r)
    <3>1. run'[r] = CancelledRun(run[r]) /\ RunOk(r, run[r]) /\ run[r].pc \notin {"absent", "over"}
      BY <1>2, <1>3, <2>2
    <3>2. /\ RunOk(r, run'[r]) /\ run'[r].pc = run[r].pc /\ run'[r].ended = run[r].ended
          /\ run'[r].turn = run[r].turn /\ run'[r].billed = run[r].billed /\ run'[r].log = run[r].log /\ run'[r].cancelling
          /\ \A s : Awaits(run[r], s) => Awaits(run'[r], s)
      BY <3>1, CancelledOk
    <3>3. QED
      BY <2>2, <3>2, Zenon
  <2>3. CASE ~Told(r)
    <3>1. run'[r] = run[r] /\ RunOk(r, run[r])
      BY <1>1, <1>2, <2>3 DEF RunsInv
    <3>2. QED
      BY <2>3, <3>1, Zenon
  <2>4. QED
    BY <2>2, <2>3
<1>6. "climate" \in Runs /\ "synthesize" \in Runs /\ \A s \in Specialists : s \in Runs
  BY Limits DEF Runs, Nodes
<1>7. RunsInv'
  BY <1>2, <1>5 DEF RunsInv
<1>8. ParentInv'
  <2>1. SUFFICES ASSUME NEW s \in Specialists
                 PROVE  /\ run'[s].pc \notin {"absent", "over"} => Awaits(run'["climate"], s)
                        /\ run'[s].cancelling => run'["climate"].cancelling
    BY DEF ParentInv, Active
  <2>2. run'[s].pc \notin {"absent", "over"} => Awaits(run'["climate"], s)
    BY <1>1, <1>5, <1>6 DEF ParentInv, Active
  <2>3. run'[s].cancelling => run'["climate"].cancelling
    <3>1. CASE Told(s)
      BY <1>4, <1>5, <1>6, <3>1
    <3>2. CASE ~Told(s)
      BY <1>1, <1>5, <1>6, <3>2 DEF ParentInv
    <3>3. QED
      BY <3>1, <3>2
  <2>4. QED
    BY <2>2, <2>3
<1>9. ReportInv'
  <2>1. SUFFICES ASSUME NEW q \in Runs, run'[q].pc = "over", run'[q].heard # <<>>
                 PROVE  run'[q].reported = run'[q].log + SumOf("log", Descendants(q))'
    BY DEF ReportInv
  <2>2. run[q].pc = "over" /\ ~Told(q)
    BY <1>3, <1>5, <2>1
  <2>3. SumOf("log", Descendants(q))' = SumOf("log", Descendants(q))
    <3> DEFINE below == Descendants(q)
    <3>1. below \in SUBSET Runs
      BY <1>6 DEF Descendants
    <3>2. \A s \in below : run'[s].billed = run[s].billed /\ run'[s].log = run[s].log
      <4> HIDE DEF below
      <4>1. QED
        BY <1>5, <3>1
    <3> HIDE DEF below
    <3>3. SumOf("log", below)' = SumOf("log", below)
      BY <3>2, SumsStay
    <3>4. QED
      BY <3>3 DEF below
  <2>4. run'[q] = run[q]
    BY <1>5, <2>2
  <2>5. QED
    BY <1>1, <2>1, <2>2, <2>3, <2>4 DEF ReportInv
<1>10. AppInv'
  <2>1. \A r \in Runs : Active(r)' => Active(r)
    BY <1>5 DEF Active
  <2>2. run'["synthesize"].pc = run["synthesize"].pc
    BY <1>5, <1>6
  <2>3. QED
    BY <1>1, <1>6, <2>1, <2>2 DEF AppInv
<1>11. CostIsBelow
  <2>1. \A r \in Runs : run[r].turn \in Nat
    BY <1>1, Limits DEF RunsInv, RunOk, Counters
  <2>2. \A r \in Runs : ~(run'[r].turn > run[r].turn)
    BY <1>5, <2>1
  <2>3. QED
    BY <2>2 DEF CostIsBelow
<1>12. QED
  BY <1>7, <1>8, <1>9, <1>10, <1>11, Zenon DEF GraphInv
-----------------------------------------------------------------------------
(***************************************************************************)
(* App.run: the stages of the graph.                                       *)
(***************************************************************************)
LEMMA SpecialistsAreOver ==
  ASSUME RunsInv, ParentInv, \A r \in Researchers : run[r].pc = "over"
  PROVE  \A r \in Runs \ {"synthesize"} : ~Active(r)
<1>1. \A s \in Specialists : ~Active(s)
  BY DEF ParentInv, Awaits, Researchers
<1>2. \A r \in Runs \ {"synthesize"} : r \in Researchers \/ r \in Specialists
  BY DEF Runs, Nodes, Researchers
<1>3. \A r \in Researchers : ~Active(r)
  BY DEF Active
<1>4. QED
  BY <1>1, <1>2, <1>3

LEMMA SynthesizeKeeps ==
  ASSUME GraphInv, Synthesize
  PROVE  GraphInv' /\ CostIsBelow
<1> DEFINE r == "synthesize"
           new == Started(r, NewRun)
<1>1. RunsInv /\ ParentInv /\ ReportInv /\ AppInv
  BY DEF GraphInv
<1>2. /\ app = "research" /\ \A q \in Researchers : run[q].pc = "over"
      /\ app' = "synthesize" /\ run' = [run EXCEPT ![r] = new] /\ aborting' = aborting
  BY DEF Synthesize
<1>3. /\ r \in Runs /\ "climate" \in Runs /\ r # "climate" /\ r \notin Specialists /\ "climate" \notin Specialists
      /\ \A s \in Specialists : s \in Runs
  BY Limits DEF Runs, Nodes
<1>4. /\ RunOk(r, new) /\ new.pc \in {"generating", "over"} /\ ~new.cancelling
      /\ new.pc = "over" => new.reported = new.log + SumOf("log", Descendants(r))
      /\ new.turn > 0 => ~(new.billed + SumOf("billed", Descendants(r)) >= MaxCost)
  BY <1>3, FreshOk
<1> HIDE DEF new
<1>5. DOMAIN run' = Runs /\ \A q \in Runs : run'[q] = IF q = r THEN new ELSE run[q]
  BY <1>1, <1>2 DEF RunsInv
<1>6. \A q \in Runs \ {r} : ~Active(q)
  BY <1>1, <1>2, SpecialistsAreOver
<1>7. RunsInv'
  BY <1>1, <1>4, <1>5 DEF RunsInv
<1>8. ParentInv'
  <2>1. run'["climate"] = run["climate"] /\ \A s \in Specialists : run'[s] = run[s]
    BY <1>3, <1>5
  <2>2. QED
    BY <1>1, <2>1 DEF ParentInv, Active
<1>9. \A q \in Runs : /\ SumOf("billed", Descendants(q))' = SumOf("billed", Descendants(q))
                      /\ SumOf("log", Descendants(q))' = SumOf("log", Descendants(q))
  <2>1. SUFFICES ASSUME NEW q \in Runs
                 PROVE  /\ SumOf("billed", Descendants(q))' = SumOf("billed", Descendants(q))
                        /\ SumOf("log", Descendants(q))' = SumOf("log", Descendants(q))
    OBVIOUS
  <2> DEFINE below == Descendants(q)
  <2>2. \A s \in below : s \in Specialists
    BY DEF Descendants
  <2>3. \A s \in below : run'[s].billed = run[s].billed /\ run'[s].log = run[s].log
    <3> HIDE DEF below
    <3>1. QED
      BY <1>3, <1>5, <2>2
  <2> HIDE DEF below
  <2>4. SumOf("billed", below)' = SumOf("billed", below) /\ SumOf("log", below)' = SumOf("log", below)
    BY <2>3, SumsStay
  <2>5. QED
    BY <2>4 DEF below
<1>10. ReportInv'
  <2>1. SUFFICES ASSUME NEW q \in Runs, run'[q].pc = "over", run'[q].heard # <<>>
                 PROVE  run'[q].reported = run'[q].log + SumOf("log", Descendants(q))'
    BY DEF ReportInv
  <2>2. CASE q = r
    BY <1>3, <1>4, <1>5, <1>9, <2>1, <2>2
  <2>3. CASE q # r
    BY <1>1, <1>5, <1>9, <2>1, <2>3 DEF ReportInv
  <2>4. QED
    BY <2>2, <2>3
<1>11. AppInv'
  <2>1. \A q \in Runs \ {r} : ~Active(q)'
    BY <1>5, <1>6 DEF Active
  <2>2. QED
    BY <1>1, <1>2, <2>1 DEF AppInv
<1>12. CostIsBelow
  <2>1. SUFFICES ASSUME NEW q \in Runs, run'[q].turn > run[q].turn
                 PROVE  ~(run'[q].billed + SumOf("billed", Descendants(q))' >= MaxCost)
    BY DEF CostIsBelow
  <2>2. run[q].turn \in Nat
    BY <1>1, Limits DEF RunsInv, RunOk, Counters
  <2>3. q = r
    BY <1>5, <2>1, <2>2
  <2>4. new.turn \in Nat
    BY <1>3, <1>4, Limits DEF RunOk, Counters
  <2>5. new.turn > 0 /\ run'[q] = new
    BY <1>3, <1>5, <2>1, <2>2, <2>3, <2>4
  <2>6. SumOf("billed", Descendants(q))' = SumOf("billed", Descendants(q))
    BY <1>9
  <2>7. QED
    BY <1>4, <2>3, <2>5, <2>6
<1>13. QED
  BY <1>7, <1>8, <1>10, <1>11, <1>12, Zenon DEF GraphInv

(* A step that changes no run.                                             *)
LEMMA RunsStand ==
  ASSUME GraphInv, run' = run, AppInv'
  PROVE  GraphInv' /\ CostIsBelow
<1>1. RunsInv' /\ ParentInv' /\ ReportInv'
  BY Zenon DEF GraphInv, RunsInv, ParentInv, ReportInv, Active, SumOf
<1>2. \A r \in Runs : run[r].turn \in Nat
  BY Limits DEF GraphInv, RunsInv, RunOk, Counters
<1>3. \A r \in Runs : ~(run'[r].turn > run[r].turn)
  BY <1>2
<1>4. QED
  BY <1>1, <1>3 DEF GraphInv, CostIsBelow

LEMMA FinishKeeps ==
  ASSUME GraphInv, Finish
  PROVE  GraphInv' /\ CostIsBelow
<1>1. RunsInv /\ ParentInv /\ ReportInv /\ AppInv
  BY DEF GraphInv
<1>2. app' = "over" /\ run' = run /\ aborting' = aborting
  BY DEF Finish
<1>3. \A r \in Runs \ {"synthesize"} : ~Active(r)
  <2>1. CASE app = "research" /\ \A r \in Researchers : run[r].pc = "over"
    BY <1>1, <2>1, SpecialistsAreOver
  <2>2. CASE app = "synthesize"
    BY <1>1, <2>2 DEF AppInv
  <2>3. QED
    BY <2>1, <2>2 DEF Finish
<1>4. ~Active("synthesize")
  BY <1>1 DEF Finish, AppInv, Active
<1>5. AppInv'
  BY <1>1, <1>2, <1>3, <1>4 DEF AppInv, Active
<1>6. QED
  BY <1>2, <1>5, RunsStand

LEMMA GraphStarts == Init => GraphInv
<1> SUFFICES ASSUME Init
             PROVE  GraphInv
  OBVIOUS
<1>1. DOMAIN run = Runs /\ \A r \in Runs : run[r] = IF r \in Researchers THEN NotStarted ELSE NewRun
  BY DEF Init
<1>2. \A st \in {NewRun, NotStarted} :
        /\ DOMAIN st = Fields /\ st.cancelling = FALSE /\ st.turn = 0
        /\ st.toolCallsMade = 0 /\ st.choice = "auto" /\ st.last = "user" /\ st.unanswered = 0
        /\ st.calls = <<>> /\ st.ended = "none" /\ st.heard = <<>> /\ st.log = 0 /\ st.billed = 0
        /\ st.executed = 0 /\ st.lost = 0
  BY DEF Fields, NewRun, NotStarted
<1>3. NewRun.pc = "absent" /\ NotStarted.pc = "ready"
  BY DEF NewRun, NotStarted
<1>4. \A r \in Runs : /\ run[r].pc \in {"absent", "ready"} /\ run[r] \in {NewRun, NotStarted}
                      /\ r \notin Researchers => run[r].pc = "absent"
  BY <1>1, <1>3
<1>5. \A r \in Runs : RunOk(r, run[r])
  <2>1. SUFFICES ASSUME NEW r \in Runs
                 PROVE  RunOk(r, run[r])
    OBVIOUS
  <2> DEFINE st == run[r]
  <2>2. /\ DOMAIN st = Fields /\ st.cancelling = FALSE /\ st.turn = 0
        /\ st.toolCallsMade = 0 /\ st.choice = "auto" /\ st.last = "user" /\ st.unanswered = 0
        /\ st.calls = <<>> /\ st.ended = "none" /\ st.heard = <<>> /\ st.log = 0 /\ st.billed = 0
        /\ st.executed = 0 /\ st.lost = 0 /\ st.pc \in {"absent", "ready"}
    BY <1>2, <1>4
  <2> HIDE DEF st
  <2>3. 0 \in 0..MaxTurns[Config(r)] /\ 0 \in 0..Budget(r) /\ 0 \in 0..MaxBatch
    BY Limits
  <2>4. st.cancelling \in BOOLEAN
    BY <2>2, Zenon
  <2>5. st.log \in Nat /\ st.billed \in Nat /\ st.executed \in Nat /\ st.lost \in Nat
    BY <2>2
  <2>6. Counters(r, st)
    BY <2>2, <2>3, <2>4, <2>5, Zenon DEF Counters
  <2>7. Phases(st) /\ Events(st) /\ Messages(st)
    BY <2>2 DEF Phases, Events, Messages, Ends
  <2>8. Accounts(st)
    BY <2>2, NoCalls DEF Accounts
  <2>9. CallsOk(r, st.calls)
    BY <2>2, NoCalls
  <2>10. RunOk(r, st)
    BY <2>2, <2>6, <2>7, <2>8, <2>9 DEF RunOk
  <2>11. QED
    BY <2>10 DEF st
<1>6. RunsInv
  BY <1>1, <1>5 DEF RunsInv
<1>7. ParentInv
  <2>1. \A s \in Specialists : s \in Runs /\ s \notin Researchers
    BY Limits DEF Nodes, Researchers
  <2>2. QED
    BY <1>2, <1>4, <2>1 DEF ParentInv, Active
<1>8. ReportInv
  BY <1>4 DEF ReportInv
<1>9. AppInv
  <2>1. "synthesize" \in Runs /\ "synthesize" \notin Researchers
    BY DEF Runs, Nodes, Researchers
  <2>2. QED
    BY <1>4, <2>1 DEF Init, AppInv
<1>10. QED
  BY <1>6, <1>7, <1>8, <1>9 DEF GraphInv

LEMMA GraphNext == GraphInv /\ [Next]_vars => GraphInv' /\ CostIsBelow
<1> SUFFICES ASSUME GraphInv, [Next]_vars
             PROVE  GraphInv' /\ CostIsBelow
  OBVIOUS
<1>1. RunsInv /\ ParentInv /\ ReportInv /\ AppInv
  BY DEF GraphInv
<1>2. ASSUME NEW r \in Runs, RunStep(r)
      PROVE  GraphInv' /\ CostIsBelow
  <2>1. CASE Start(r)
    <3>1. Moves(r, Started(r, run[r])) /\ app' = app /\ aborting' = aborting
      BY <1>1, <2>1, StartMoves DEF Start
    <3>2. run' = [run EXCEPT ![r] = Started(r, run[r])]
      BY <2>1 DEF Start
    <3>3. QED
      BY <3>1, <3>2, MoveKeeps
  <2>2. CASE Generate(r)
    BY <1>1, <2>2, GenerateMoves, MoveKeeps
  <2>3. CASE Collect(r)
    BY <1>1, <2>3, CollectMoves, MoveKeeps
  <2>4. CASE EndCancelled(r)
    BY <1>1, <2>4, EndCancelledMoves, MoveKeeps
  <2>5. ASSUME NEW k \in DOMAIN run[r].calls, RunTool(r, k)
        PROVE  GraphInv' /\ CostIsBelow
    BY <1>1, <2>5, RunToolMoves, MoveKeeps
  <2>6. ASSUME NEW k \in DOMAIN run[r].calls, Delegate(r, k)
        PROVE  GraphInv' /\ CostIsBelow
    BY <2>6, DelegateKeeps
  <2>7. QED
    BY <1>2, <2>1, <2>2, <2>3, <2>4, <2>5, <2>6 DEF RunStep
<1>3. CASE Deadline
  <2>1. PICK nodes \in {Researchers, {"synthesize"}} : Cancel(nodes)
    BY <1>3, Zenon DEF Deadline
  <2>2. app' = app /\ aborting' = TRUE
    BY <1>3 DEF Deadline
  <2>3. QED
    BY <2>1, <2>2, CancelKeeps
<1>4. CASE Abort
  <2>1. Cancel(Researchers) /\ app' = app /\ aborting' = TRUE
    BY <1>4 DEF Abort
  <2>2. Researchers \in {Researchers, {"synthesize"}}
    OBVIOUS
  <2>3. QED
    BY <2>1, <2>2, CancelKeeps
<1>5. CASE Synthesize
  BY <1>5, SynthesizeKeeps
<1>6. CASE Finish
  BY <1>6, FinishKeeps
<1>7. CASE UNCHANGED vars
  <2>1. AppInv'
    BY <1>1, <1>7 DEF AppInv, Active, vars
  <2>2. QED
    BY <1>7, <2>1, RunsStand DEF vars
<1>8. QED
  BY <1>2, <1>3, <1>4, <1>5, <1>6, <1>7 DEF Next, Finished
-----------------------------------------------------------------------------
LEMMA AccountsFollow == GraphInv => AccountsAreClosed
<1> SUFFICES ASSUME GraphInv
             PROVE  AccountsAreClosed
  OBVIOUS
<1>1. RunsInv /\ ParentInv /\ ReportInv /\ AppInv
  BY DEF GraphInv
<1>2. \A r \in Runs :
        LET st == run[r]
        IN /\ Counters(r, st) /\ Phases(st) /\ Events(st) /\ Messages(st) /\ Accounts(st)
           /\ CallsOk(r, st.calls) /\ st.executed <= st.toolCallsMade /\ st.log <= st.billed
  BY <1>1, ActiveIs
<1>3. TypeOK
  <2>1. \A r \in Runs :
          LET st == run[r]
          IN /\ \A k \in DOMAIN st.calls : st.calls[k].state \in CallStates
             /\ st.calls # <<>> => st.pc = "dispatching"
    BY <1>2 DEF CallsOk, Calls, Accounts
  <2>2. \A r \in Runs :
          LET st == run[r]
          IN /\ st.pc \in {"absent", "ready", "generating", "dispatching", "over"}
             /\ st.ended \in Ends /\ (st.ended = "none" <=> st.pc # "over")
             /\ st.turn \in 0..MaxTurns[Config(r)] /\ st.choice \in {"auto", "none"}
             /\ st.unanswered \in 0..MaxBatch /\ st.log <= st.billed
    BY <1>2 DEF Counters, Phases
  <2>3. QED
    BY <1>1, <2>1, <2>2, Zenon DEF TypeOK, AppInv
<1>4. ReportedUsageIsComplete
  <2>1. ASSUME NEW r \in Runs, run[r].pc # "dispatching"
        PROVE  run[r].log = Retained(r)
    <3>1. run[r].log + run[r].lost = run[r].billed /\ run[r].log \in Nat /\ run[r].lost \in Nat /\ run[r].billed \in Nat
      BY <1>1, <2>1, ActiveIs DEF Counters
    <3>2. QED
      BY <3>1 DEF Retained
  <2>2. ASSUME NEW r \in Runs, run[r].pc = "over", run[r].heard # <<>>
        PROVE  run[r].reported = Retained(r) + SumFunction([s \in Descendants(r) |-> Retained(s)])
    <3>1. \A s \in Descendants(r) : s \in Runs /\ ~Active(s)
      BY <1>1, <2>2, Limits, ActiveIs
    <3>2. \A s \in Descendants(r) : run[s]["log"] = Retained(s)
      BY <2>1, <3>1 DEF Active
    <3>3. [s \in Descendants(r) |-> run[s]["log"]] = [s \in Descendants(r) |-> Retained(s)]
      BY <3>2
    <3>4. run[r].reported = run[r].log + SumFunction([s \in Descendants(r) |-> Retained(s)])
      BY <1>1, <2>2, <3>3, Zenon DEF ReportInv, SumOf
    <3>5. QED
      BY <2>1, <2>2, <3>4
  <2>3. \A r \in Runs : run[r].lost > 0 => run[r].ended = "cancelled"
    BY <1>2 DEF Accounts
  <2>4. QED
    BY <2>2, <2>3 DEF ReportedUsageIsComplete
<1>5. EveryCallIsAnswered
  BY <1>2 DEF Messages, EveryCallIsAnswered
<1>6. ToolBudgetIsKept
  <2>1. \A r \in Runs : /\ run[r].executed \in Nat /\ run[r].executed <= run[r].toolCallsMade
                        /\ run[r].toolCallsMade \in 0..Budget(r) /\ Budget(r) \in Nat
    BY <1>2, Limits DEF Counters
  <2>2. QED
    BY <2>1 DEF ToolBudgetIsKept
<1>7. NobodyOutlivesTheParent
  <2>1. \A r \in Runs : run[r].pc = "over" => \A s \in Descendants(r) : ~Active(s)
    BY <1>1 DEF ParentInv, Awaits, Descendants
  <2>2. app = "over" => \A r \in Runs : ~Active(r)
    BY <1>1 DEF AppInv
  <2>3. app = "synthesize" => \A r \in Runs \ {"synthesize"} : ~Active(r)
    BY <1>1 DEF AppInv
  <2>4. QED
    BY <2>1, <2>2, <2>3 DEF NobodyOutlivesTheParent
<1>8. EveryStartHasItsEnd
  <2> DEFINE Reported(st) ==
               CASE st.pc \in {"absent", "ready"} -> st.heard = <<>>
                 [] st.pc \in {"generating", "dispatching"} -> st.heard = <<"started">>
                 [] st.pc = "over" ->
                      \/ st.heard = <<>> /\ st.ended = "cancelled"
                      \/ st.heard = <<"started", IF st.ended \in {"answer", "cancelled"}
                                                 THEN IF st.ended = "answer" THEN "finished" ELSE "cancelled"
                                                 ELSE "failed">>
  <2>1. ASSUME NEW st, Phases(st), Events(st)
        PROVE  Reported(st)
    <3>1. TerminalEvent(st.ended) = IF st.ended \in {"answer", "cancelled"}
                                    THEN IF st.ended = "answer" THEN "finished" ELSE "cancelled"
                                    ELSE "failed"
      BY DEF TerminalEvent
    <3>2. CASE st.pc \in {"absent", "ready"}
      BY <2>1, <3>2 DEF Events
    <3>3. CASE st.pc \in {"generating", "dispatching"}
      BY <2>1, <3>3 DEF Events
    <3>4. CASE st.pc = "over"
      BY <2>1, <3>1, <3>4 DEF Events
    <3>5. QED
      BY <2>1, <3>2, <3>3, <3>4 DEF Phases
  <2> HIDE DEF Reported
  <2>2. \A r \in Runs : Reported(run[r])
    BY <1>2, <2>1
  <2>3. QED
    BY <2>2, Zenon DEF Reported, EveryStartHasItsEnd
<1>9. QED
  BY <1>3, <1>4, <1>5, <1>6, <1>7, <1>8 DEF AccountsAreClosed

-----------------------------------------------------------------------------
(* Whatever the models answer and whenever the graph is cancelled, the     *)
(* accounts of a run that is over are closed: its last event reports what  *)
(* it and its specialists were billed, cancelled runs and cancelled        *)
(* specialists included, but for one thing: the searches that had settled  *)
(* in the dispatch_many in which one of them was cancelled.  And nobody    *)
(* below it is running.                                                    *)
THEOREM AccountsClose == Spec => []AccountsAreClosed
<1>1. Init => GraphInv
  BY GraphStarts
<1>2. GraphInv /\ [Next]_vars => GraphInv'
  BY GraphNext
<1>3. GraphInv => AccountsAreClosed
  BY AccountsFollow
<1>4. QED
  BY <1>1, <1>2, <1>3, PTL DEF Spec

(* No run takes a turn once it and its specialists have been billed the    *)
(* limit: the log of a run that starts a turn lacks nothing that was       *)
(* billed.                                                                 *)
THEOREM CostLimitHolds == Spec => NoTurnBeyondTheCostLimit
<1>1. Init => GraphInv
  BY GraphStarts
<1>2. GraphInv /\ [Next]_vars => GraphInv'
  BY GraphNext
<1>3. GraphInv /\ [Next]_vars =>
        [\A r \in Runs : run'[r].turn > run[r].turn =>
           ~(run'[r].billed + SumOf("billed", Descendants(r))' >= MaxCost)]_vars
  BY GraphNext DEF CostIsBelow
<1>4. QED
  BY <1>1, <1>2, <1>3, PTL DEF Spec, NoTurnBeyondTheCostLimit
=============================================================================
