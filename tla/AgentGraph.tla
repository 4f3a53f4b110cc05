------------------------------ MODULE AgentGraph ------------------------------
(***************************************************************************)
(* The multi-agent application of examples/full_app: two researchers in a  *)
(* task group, the specialists that one of them spawns through a delegate  *)
(* tool, and the synthesis after them; turns, tool budget, cost limit,     *)
(* progress events and the accounting of usage over the tree of runs.      *)
(*                                                                         *)
(* One run is a record.  A step runs from one await of one task to the     *)
(* next.  A unit of usage is what one input or one search costs.           *)
(***************************************************************************)
EXTENDS Integers, Sequences, FiniteSetsExt, Functions

CONSTANTS
  Specialists,    (* agent paths below the climate researcher              *)
  ClimateTurns, EnergyTurns, SynthesizeTurns, SpecialistTurns,
  ClimateCalls, EnergyCalls, SynthesizeCalls, SpecialistCalls,
  MaxBatch,       (* bound: calls in one assistant message                 *)
  MaxCost         (* max_cost_in_usd                                       *)

Nodes == {"climate", "energy", "synthesize"}
Runs == Nodes \union Specialists
Researchers == {"climate", "energy"}

(* max_turns and max_tool_calls of each kind of agent.                     *)
MaxTurns == [climate |-> ClimateTurns, energy |-> EnergyTurns,
             synthesize |-> SynthesizeTurns, specialist |-> SpecialistTurns]
MaxToolCalls == [climate |-> ClimateCalls, energy |-> EnergyCalls,
                 synthesize |-> SynthesizeCalls, specialist |-> SpecialistCalls]

Config(r) == IF r \in Nodes THEN r ELSE "specialist"
Budget(r) == MaxToolCalls[Config(r)]

ASSUME LimitsAssumption ==
  /\ IsFiniteSet(Specialists) /\ Specialists \intersect Nodes = {}
  /\ MaxBatch \in Nat \ {0} /\ MaxCost \in Nat \ {0}
  /\ MaxTurns \in [Nodes \union {"specialist"} -> Nat]
  /\ MaxToolCalls \in [Nodes \union {"specialist"} -> Nat]
  /\ Cardinality(Specialists) >= MaxToolCalls["climate"]

VARIABLES
  run,      (* every agent run                                             *)
  app,      (* App.run: "research", "synthesize" or "over"                 *)
  aborting  (* the graph was cancelled or one of its nodes has raised      *)

vars == <<run, app, aborting>>

Tools(r) ==
  CASE r = "climate" -> {"search", "delegate"}
    [] r = "synthesize" -> {"critique"}
    [] OTHER -> {"search"}

SelfCorrection(r) == r = "synthesize"

(* heard: the lifecycle events on_event has received.  reported: the usage *)
(* in the last of them.  log: turn_log.  billed, executed: what the        *)
(* settled inputs and tools of the run have cost, and its tools run; lost: *)
(* its searches that settled in the dispatch_many in which the run was     *)
(* cancelled.  These three are history that no step of a run depends on.   *)
NewRun ==
  [pc |-> "absent", cancelling |-> FALSE, turn |-> 0, toolCallsMade |-> 0, choice |-> "auto",
   last |-> "user", unanswered |-> 0, rejected |-> FALSE, approved |-> FALSE, calls |-> <<>>,
   ended |-> "none", heard |-> <<>>, reported |-> 0, log |-> 0, billed |-> 0, executed |-> 0,
   lost |-> 0]

NotStarted == [NewRun EXCEPT !.pc = "ready"]

Descendants(r) == IF r = "climate" THEN Specialists ELSE {}
SumOf(field, runs) == SumFunction([s \in runs |-> run[s][field]])

(* AgentRun.usage, of the run in the state given.                          *)
OwnUsage(r, state) == state.log  (* mutant: without the specialists *)
Usage(r, state) == state.log + SumOf("log", Descendants(r))

-----------------------------------------------------------------------------
(***************************************************************************)
(* AgentRun.run and the turns of ReActAgent._execute, on the record of a   *)
(* run.                                                                    *)
(***************************************************************************)
CancellationIsSilent(how) ==  (* mutant: CancelledError is no Exception *)
  IF how = "answer" THEN "finished" ELSE IF how = "cancelled" THEN "none" ELSE "failed"

TerminalEvent(how) ==
  CASE how = "answer" -> "finished" [] how = "cancelled" -> "cancelled" [] OTHER -> "failed"

End(r, state, how) ==
  [state EXCEPT !.pc = "over", !.ended = how, !.calls = <<>>,
                !.heard = Append(@, TerminalEvent(how)), !.reported = Usage(r, state)]

TurnWithoutCost(r, state) ==  (* mutant *)
  IF state.turn = MaxTurns[Config(r)] THEN End(r, state, "limit")
  ELSE [state EXCEPT !.turn = @ + 1, !.pc = "generating",
                     !.choice = IF state.toolCallsMade >= Budget(r) THEN "none" ELSE @]

TurnWithoutEnd(r, state) ==  (* mutant *)
  IF Usage(r, state) >= MaxCost THEN End(r, state, "limit")
  ELSE [state EXCEPT !.turn = @ + 1, !.pc = "generating",
                     !.choice = IF state.toolCallsMade >= Budget(r) THEN "none" ELSE @]

NextTurn(r, state) ==
  CASE state.turn = MaxTurns[Config(r)] \/ Usage(r, state) >= MaxCost -> End(r, state, "limit")
    [] OTHER -> [state EXCEPT !.turn = @ + 1, !.pc = "generating",
                              !.choice = IF state.toolCallsMade >= Budget(r) THEN "none" ELSE @]

Started(r, state) == NextTurn(r, [state EXCEPT !.heard = <<"started">>])

AfterPlain(r, state) ==
  IF SelfCorrection(r) /\ ~state.approved THEN NextTurn(r, [state EXCEPT !.last = "user"])
  ELSE End(r, state, "answer")

WholeBudget(r, state, tools) == Min({Len(tools), Budget(r)})  (* mutant *)
Affordable(r, state, tools) == Min({Len(tools), Max({0, Budget(r) - state.toolCallsMade})})

(* _dispatch_all up to the await of dispatch_many: the affordable prefix   *)
(* is dispatched and the rest declined.                                    *)
Dispatching(r, state, tools) ==
  LET affordable == Affordable(r, state, tools)
  IN [state EXCEPT !.pc = "dispatching", !.unanswered = Len(tools), !.toolCallsMade = @ + affordable,
                   !.calls = [k \in DOMAIN tools |->
                      [tool |-> tools[k], sub |-> "none", state |-> IF k <= affordable THEN "created" ELSE "declined"]]]

Batches(r) == UNION {[1..n -> Tools(r)] : n \in 1..MaxBatch}

-----------------------------------------------------------------------------
Init ==
  /\ run = [r \in Runs |-> IF r \in Researchers THEN NotStarted ELSE NewRun]
  /\ app = "research"
  /\ aborting = FALSE

Is(r, pc) == run[r].pc = pc /\ ~run[r].cancelling

Start(r) ==
  /\ Is(r, "ready")
  /\ run' = [run EXCEPT ![r] = Started(r, @)]
  /\ UNCHANGED <<app, aborting>>

(* generate_one, whose error has the usage of a timed-out input, too.      *)
Generate(r) ==
  /\ Is(r, "generating")
  /\ LET settled == [run[r] EXCEPT !.log = @ + 1, !.billed = @ + 1]
         answered == [settled EXCEPT !.last = "assistant"]
     IN \E state \in {End(r, settled, "generation_error"), End(r, settled, "unknown"),
                      NextTurn(r, settled), AfterPlain(r, answered)}
                     \union {Dispatching(r, answered, tools) :
                               tools \in IF run[r].choice = "auto" THEN Batches(r) ELSE {}} :
          run' = [run EXCEPT ![r] = state]
  /\ UNCHANGED <<app, aborting>>

(* A search settles or fails with the callback of its progress event; a    *)
(* critique rejects once.                                                  *)
RunTool(r, k) ==
  /\ run[r].pc = "dispatching"
  /\ run[r].calls[k].state = "created" /\ run[r].calls[k].tool # "delegate"
  /\ LET executed == [run[r] EXCEPT !.executed = @ + 1]
         search == run[r].calls[k].tool = "search"
     IN \/ run' = [run EXCEPT ![r] = [executed EXCEPT
                     !.calls[k].state = IF ~search /\ run[r].rejected THEN "approved" ELSE "done",
                     !.rejected = @ \/ ~search,
                     !.billed = IF search THEN @ + 1 ELSE @]]
        \/ /\ search
           /\ run' = [run EXCEPT ![r] = [executed EXCEPT !.calls[k].state = "raised"]]
  /\ UNCHANGED <<app, aborting>>

(* The delegate tool builds a run under a path of its own and runs it.     *)
Delegate(r, k) ==
  /\ run[r].pc = "dispatching"
  /\ run[r].calls[k].state = "created" /\ run[r].calls[k].tool = "delegate"
  /\ \E s \in Specialists :
       /\ run[s].pc = "absent"
       /\ run' = [run EXCEPT ![r].calls[k].state = "delegated", ![r].calls[k].sub = s,
                             ![r].executed = @ + 1, ![s] = Started(s, NewRun)]
  /\ UNCHANGED <<app, aborting>>

(* How a call has settled, "none" while it runs.                           *)
DelegatedSettled(sub) ==
  CASE sub.pc # "over" -> "none"
    [] sub.pc = "over" /\ sub.ended \in {"answer", "limit", "generation_error"} -> "done"
    [] sub.pc = "over" /\ sub.ended \in {"unknown", "defect"} -> "raised"
    [] OTHER -> "cancelled"

Settled(call) ==
  IF call.state = "delegated" THEN DelegatedSettled(run[call.sub])
  ELSE IF call.state = "created" THEN "none" ELSE call.state

BatchSettled(r) == \A k \in DOMAIN run[r].calls : Settled(run[r].calls[k]) # "none"

Searches(r) ==
  {k \in DOMAIN run[r].calls : run[r].calls[k].tool = "search" /\ run[r].calls[k].state = "done"}

AnswerDispatchedOnly(r) ==  (* mutant: declined calls get no message *)
  LET log == run[r].log + Cardinality(Searches(r))
      declined == {k \in DOMAIN run[r].calls : run[r].calls[k].state = "declined"}
  IN IF \E k \in DOMAIN run[r].calls : Settled(run[r].calls[k]) = "raised"
     THEN End(r, [run[r] EXCEPT !.log = log], "defect")
     ELSE NextTurn(r, [run[r] EXCEPT !.last = "tools", !.unanswered = Cardinality(declined),
                                     !.calls = <<>>, !.log = log])

(* _settle_outcomes of the outcomes, or of those a group carries.          *)
Collected(r) ==
  LET approved == \E k \in DOMAIN run[r].calls : run[r].calls[k].state = "approved"
      settled == [run[r] EXCEPT !.log = @ + Cardinality(Searches(r)), !.approved = @ \/ approved]
  IN IF \E k \in DOMAIN run[r].calls : Settled(run[r].calls[k]) = "raised"
     THEN End(r, settled, "defect")
     ELSE NextTurn(r, [settled EXCEPT !.last = "tools", !.unanswered = 0, !.calls = <<>>])

Collect(r) ==
  /\ Is(r, "dispatching") /\ BatchSettled(r)
  /\ run' = [run EXCEPT ![r] = Collected(r)]
  /\ UNCHANGED <<app, aborting>>

EndCancelledReportingOwnUsage(r) ==  (* mutant: a cancelled run forgets its specialists *)
  /\ run[r].cancelling
  /\ \/ /\ run[r].pc = "ready"
        /\ run' = [run EXCEPT ![r] = [@ EXCEPT !.pc = "over", !.ended = "cancelled"]]
     \/ /\ run[r].pc = "generating" \/ (run[r].pc = "dispatching" /\ BatchSettled(r))
        /\ LET left == [run[r] EXCEPT !.lost = Cardinality(Searches(r))]
           IN run' = [run EXCEPT ![r] = [End(r, left, "cancelled") EXCEPT !.reported = left.log]]
  /\ UNCHANGED <<app, aborting>>

(* A cancelled task never starts, leaves generate_one, or waits in         *)
(* dispatch_many until its calls have settled, whose outcomes are lost.    *)
EndCancelled(r) ==
  /\ run[r].cancelling
  /\ \/ /\ run[r].pc = "ready"
        /\ run' = [run EXCEPT ![r] = [@ EXCEPT !.pc = "over", !.ended = "cancelled"]]
     \/ /\ run[r].pc = "generating" \/ (run[r].pc = "dispatching" /\ BatchSettled(r))
        /\ LET left == [run[r] EXCEPT !.lost = Cardinality(Searches(r))]
           IN run' = [run EXCEPT ![r] = End(r, left, "cancelled")]
  /\ UNCHANGED <<app, aborting>>

-----------------------------------------------------------------------------
(***************************************************************************)
(* App.run.                                                                *)
(***************************************************************************)
Active(r) == run[r].pc \notin {"absent", "over"}

WithoutCreated(calls) ==
  [k \in DOMAIN calls |-> IF calls[k].state = "created" THEN [calls[k] EXCEPT !.state = "cancelled"] ELSE calls[k]]

CancelledNodesOnly(nodes) ==  (* mutant: the delegated run is not told *)
  run' = [r \in Runs |->
            IF r \in nodes /\ Active(r)
            THEN [run[r] EXCEPT !.cancelling = TRUE,
                    !.calls = [k \in DOMAIN @ |-> IF Settled(@[k]) = "none"
                                 THEN [@[k] EXCEPT !.state = "cancelled"] ELSE @[k]]]
            ELSE run[r]]

(* A cancellation reaches every task below the cancelled one at once.      *)
Cancel(nodes) ==
  run' = [r \in Runs |->
            IF Active(r) /\ (r \in nodes \/ \E n \in nodes : r \in Descendants(n))
            THEN [run[r] EXCEPT !.cancelling = TRUE, !.calls = WithoutCreated(@)]
            ELSE run[r]]

Raising(r) == run[r].pc = "over" /\ run[r].ended \in {"unknown", "defect", "cancelled"}

(* The outer deadline expires.                                             *)
Deadline ==
  /\ app # "over" /\ ~aborting
  /\ aborting' = TRUE
  /\ Cancel(IF app = "research" THEN Researchers ELSE {"synthesize"})
  /\ UNCHANGED app

(* The task group cancels the other researcher.                            *)
Abort ==
  /\ app = "research" /\ ~aborting
  /\ \E r \in Researchers : Raising(r)
  /\ aborting' = TRUE
  /\ Cancel(Researchers)
  /\ UNCHANGED app

SynthesizeAfterFirst ==  (* mutant: the group is left with its first result *)
  /\ app = "research"
  /\ \E r \in Researchers : run[r].pc = "over"
  /\ app' = "synthesize"
  /\ run' = [run EXCEPT !["synthesize"] = Started("synthesize", NewRun)]
  /\ UNCHANGED aborting

SynthesizeFromAnswers ==  (* mutant: a failed researcher has no findings *)
  /\ app = "research" /\ ~aborting
  /\ \A r \in Researchers : run[r].ended = "answer"
  /\ app' = "synthesize"
  /\ run' = [run EXCEPT !["synthesize"] = Started("synthesize", NewRun)]
  /\ UNCHANGED aborting

Synthesize ==
  /\ app = "research" /\ ~aborting
  /\ \A r \in Researchers : run[r].pc = "over" /\ ~Raising(r)
  /\ app' = "synthesize"
  /\ run' = [run EXCEPT !["synthesize"] = Started("synthesize", NewRun)]
  /\ UNCHANGED aborting

Finish ==
  /\ \/ app = "research" /\ aborting /\ \A r \in Researchers : run[r].pc = "over"
     \/ app = "synthesize" /\ run["synthesize"].pc = "over"
  /\ app' = "over"
  /\ UNCHANGED <<run, aborting>>

Finished == app = "over" /\ UNCHANGED vars

RunStep(r) ==
  \/ Start(r) \/ Generate(r) \/ Collect(r) \/ EndCancelled(r)
  \/ \E k \in DOMAIN run[r].calls : RunTool(r, k) \/ Delegate(r, k)

Next == (\E r \in Runs : RunStep(r)) \/ Deadline \/ Abort \/ Synthesize \/ Finish \/ Finished

(* The event loop runs every ready task, an input ends at the latest with  *)
(* generate_one_timeout_seconds, and no deadline needs to expire.          *)
Fairness == (\A r \in Runs : WF_vars(RunStep(r))) /\ WF_vars(Abort \/ Synthesize \/ Finish)

Spec == Init /\ [][Next]_vars /\ Fairness

-----------------------------------------------------------------------------
CallStates == {"created", "declined", "delegated", "done", "approved", "raised", "cancelled"}
Ends == {"none", "answer", "limit", "generation_error", "unknown", "defect", "cancelled"}

TypeOK ==
  /\ \A r \in Runs :
       LET state == run[r] IN
       /\ state.pc \in {"absent", "ready", "generating", "dispatching", "over"}
       /\ state.ended \in Ends /\ (state.ended = "none" <=> state.pc # "over")
       /\ state.turn \in 0..MaxTurns[Config(r)] /\ state.choice \in {"auto", "none"}
       /\ state.unanswered \in 0..MaxBatch /\ state.log <= state.billed
       /\ \A k \in DOMAIN state.calls : state.calls[k].state \in CallStates
       /\ state.calls # <<>> => state.pc = "dispatching"
  /\ app \in {"research", "synthesize", "over"}
  /\ aborting \in BOOLEAN

(* The usage in a run's last event is everything that its own inputs and   *)
(* tools and those of its specialists have settled, failed and timed-out   *)
(* inputs and the siblings of a failing tool included, and whether the run *)
(* ended by itself or was cancelled.  The one exception is what            *)
(* CancelledRunReportsSettledUsage is about: the searches that had settled *)
(* in the dispatch_many in which a run was cancelled are in the report     *)
(* neither of that run nor of the one above it.                            *)
Retained(r) == run[r].billed - run[r].lost

ReportedUsageIsComplete ==
  \A r \in Runs :
    /\ run[r].pc = "over" /\ run[r].heard # <<>> =>
         run[r].reported = Retained(r) + SumFunction([s \in Descendants(r) |-> Retained(s)])
    /\ run[r].lost > 0 => run[r].ended = "cancelled"

(* AgentCancelled: "Report a run's cancellation and settled usage."        *)
CancelledRunReportsSettledUsage ==
  \A r \in Runs : run[r].heard # <<>> /\ run[r].ended = "cancelled" =>
    run[r].reported = run[r].billed + SumOf("billed", Descendants(r))

(* Whoever is over leaves nothing running: not the graph its nodes, and    *)
(* not a researcher its specialists, however they ended.                   *)
NobodyOutlivesTheParent ==
  /\ app = "over" => \A r \in Runs : ~Active(r)
  /\ app = "synthesize" => \A r \in Runs \ {"synthesize"} : ~Active(r)
  /\ \A r \in Runs : run[r].pc = "over" => \A s \in Descendants(r) : ~Active(s)

(* A run that was reported to have started is reported to have ended, once *)
(* and as what happened to it.                                             *)
EveryStartHasItsEnd ==
  \A r \in Runs :
    CASE run[r].pc \in {"absent", "ready"} -> run[r].heard = <<>>
      [] run[r].pc \in {"generating", "dispatching"} -> run[r].heard = <<"started">>
      [] run[r].pc = "over" ->
           \/ run[r].heard = <<>> /\ run[r].ended = "cancelled"
           \/ run[r].heard = <<"started", IF run[r].ended \in {"answer", "cancelled"}
                                          THEN IF run[r].ended = "answer" THEN "finished" ELSE "cancelled"
                                          ELSE "failed">>

(* What is sent to the model ends with a user's or a tool's message, and   *)
(* every call in it has been answered, whether it was run or declined.     *)
EveryCallIsAnswered ==
  \A r \in Runs : run[r].pc = "generating" => run[r].unanswered = 0 /\ run[r].last # "assistant"

(* No run executes more tools than it may, over all its turns.             *)
ToolBudgetIsKept == \A r \in Runs : run[r].executed <= Budget(r)

(* Whatever a run ends with, a cancellation included, its accounts are     *)
(* closed: with its usage and that of its specialists, but for the         *)
(* searches of a dispatch_many that was cancelled; with the calls          *)
(* answered, the budget of tools kept, nobody left running and its end     *)
(* reported.                                                               *)
AccountsAreClosed ==
  /\ TypeOK
  /\ ReportedUsageIsComplete /\ EveryCallIsAnswered /\ ToolBudgetIsKept
  /\ NobodyOutlivesTheParent /\ EveryStartHasItsEnd

(* No turn starts once the run and its specialists have settled as much as *)
(* the limit.                                                              *)
NoTurnBeyondTheCostLimit ==
  [][\A r \in Runs : run'[r].turn > run[r].turn =>
       ~(run'[r].billed + SumOf("billed", Descendants(r))' >= MaxCost)]_vars

(* The graph ends, whatever its models answer.                             *)
TheGraphEnds == <>(app = "over")
=============================================================================
