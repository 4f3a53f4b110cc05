------------------------------ MODULE Dispatch ------------------------------
(***************************************************************************)
(* ToolManager.dispatch_many: the tool calls of one model turn as tasks,   *)
(* gathered in order, and ToolManager.dispatch with the operation by which *)
(* an observer follows each call.  The observer may raise at every point.  *)
(***************************************************************************)
EXTENDS Integers, Sequences, FiniteSets

CONSTANT N    \* the number of tool calls

CallsAssumption == N \in Nat

Calls == 1..N

VARIABLES
  call,      \* what each call meets: a precomputed message, no tool, a tool
  result,    \* how each task ended
  task,      \* how far each task is
  asked,     \* the tasks that were asked to cancel
  observed,  \* what the observer of each call has heard
  pc,        \* the await of dispatch_many
  cancelled, \* the gather, or the task about to run, has a cancellation
  outcome    \* what dispatch_many returned or raised

vars == <<call, result, task, asked, observed, pc, cancelled, outcome>>

Outcomes == {"handled", "invalid_tool_args", "unknown_tool"}
Completed == Outcomes \union {"precomputed"}
NotExceptions == {"base_exception", "cancelled"}
Results == Completed \union {"exception"} \union NotExceptions

NotObserved == [started |-> FALSE, entered |-> FALSE, exited |-> FALSE,
                concluded |-> "nothing", ended |-> 0]

NoOutcome == [kind |-> "none", completed |-> <<>>, raised |-> <<>>, first |-> 0]

TypeOK ==
  /\ call \in [Calls -> {"precomputed", "misaddressed", "unknown", "tool"}]
  /\ result \in [Calls -> {"none"} \union Results]
  /\ task \in [Calls -> {"none", "created", "running", "done"}]
  /\ \A i \in Calls : task[i] = "done" <=> result[i] # "none"
  /\ asked \subseteq Calls
  /\ observed \in [Calls -> [started : BOOLEAN, entered : BOOLEAN, exited : BOOLEAN,
                             concluded : {"nothing", "exception"} \union Outcomes, ended : 0..1]]
  /\ pc \in {"called", "gathering", "settling", "ended"}
  /\ cancelled \in BOOLEAN
  /\ outcome.kind \in {"none", "value_error", "outcomes", "group", "base_exception", "cancelled"}
  /\ outcome.first \in 0..N
  /\ \A s \in {outcome.completed, outcome.raised} :
       s \in Seq(Calls) /\ \A k, m \in DOMAIN s : k < m => s[k] < s[m]

Init ==
  /\ call \in [Calls -> {"precomputed", "misaddressed", "unknown", "tool"}]
  /\ result = [i \in Calls |-> "none"]
  /\ task = [i \in Calls |-> "none"]
  /\ asked = {}
  /\ observed = [i \in Calls |-> NotObserved]
  /\ pc = "called"
  /\ cancelled = FALSE
  /\ outcome = NoOutcome

End(o) == pc' = "ended" /\ outcome' = o

(***************************************************************************)
(* precomputed runs for every call first; an answer to another call raises. *)
(***************************************************************************)
DispatchMany ==
  /\ pc = "called"
  /\ IF \E i \in Calls : call[i] = "misaddressed"
     THEN End([NoOutcome EXCEPT !.kind = "value_error"]) /\ UNCHANGED task
     ELSE /\ task' = [i \in Calls |-> "created"]
          /\ pc' = "gathering"
          /\ UNCHANGED outcome
  /\ UNCHANGED <<call, result, asked, observed, cancelled>>

-----------------------------------------------------------------------------
(***************************************************************************)
(* dispatch.  A failing start leaves the call unobserved, and a context    *)
(* that was not entered is not exited.                                     *)
(***************************************************************************)
ConcludeAlways(op, how) ==  (* mutant *)
  [op EXCEPT !.exited = op.entered,
             !.concluded = IF ~op.started THEN "nothing"
                           ELSE IF how \in Outcomes THEN how ELSE "exception",
             !.ended = IF op.started THEN 1 ELSE 0]

(* The context is exited, the operation concluded unless the task was cut  *)
(* short, and ended: what it raises at one point keeps it from no other.   *)
Close(op, how) ==
  [op EXCEPT !.exited = op.entered,
             !.concluded = IF op.started /\ how \in Outcomes \union {"exception"}
                           THEN how ELSE "nothing",
             !.ended = IF op.started THEN 1 ELSE 0]

EndTask(i, how, op) ==
  /\ task' = [task EXCEPT ![i] = "done"]
  /\ result' = [result EXCEPT ![i] = how]
  /\ observed' = [observed EXCEPT ![i] = op]

StartOutcomes == {op \in [started : BOOLEAN, entered : BOOLEAN, exited : {FALSE},
                          concluded : {"nothing"}, ended : {0}] : op.entered => op.started}

(* A task runs up to the await of the tool function, if it gets there.     *)
TaskStarts(i) ==
  /\ task[i] = "created"
  /\ i \notin asked
  /\ IF call[i] = "precomputed"
     THEN EndTask(i, "precomputed", NotObserved)
     ELSE \E op \in StartOutcomes :
          \/ EndTask(i, IF call[i] = "unknown" THEN "unknown_tool" ELSE "invalid_tool_args",
                     Close(op, IF call[i] = "unknown" THEN "unknown_tool"
                               ELSE "invalid_tool_args"))
          \/ /\ call[i] = "tool"
             /\ task' = [task EXCEPT ![i] = "running"]
             /\ observed' = [observed EXCEPT ![i] = op]
             /\ UNCHANGED result
  /\ UNCHANGED <<call, asked, pc, cancelled, outcome>>

(* Cancelled before its first step, a task never runs.                     *)
TaskNeverStarts(i) ==
  /\ task[i] = "created"
  /\ i \in asked
  /\ EndTask(i, "cancelled", observed[i])
  /\ UNCHANGED <<call, asked, pc, cancelled, outcome>>

(* The tool function returns or raises; asked to cancel, it may as well.   *)
FunctionEnds(i) ==
  /\ task[i] = "running"
  /\ \E how \in {"handled", "exception", "base_exception"} \union
                (IF i \in asked THEN {"cancelled"} ELSE {}) :
       EndTask(i, how, Close(observed[i], how))
  /\ UNCHANGED <<call, asked, pc, cancelled, outcome>>

-----------------------------------------------------------------------------
(***************************************************************************)
(* asyncio.gather with return_exceptions: cancelling it cancels the tasks, *)
(* and it raises when all of them are done.                                *)
(***************************************************************************)
AllDone == \A i \in Calls : task[i] = "done"

CancelOnlyTheGather ==  (* mutant *)
  /\ pc \in {"gathering", "settling"}
  /\ cancelled' = TRUE
  /\ UNCHANGED <<call, result, task, asked, observed, pc, outcome>>

CallerCancels ==
  /\ pc \in {"gathering", "settling"}
  /\ asked' = asked \union {i \in Calls : task[i] # "done"}
  /\ cancelled' = TRUE
  /\ UNCHANGED <<call, result, task, observed, pc, outcome>>

(* The k-th of a set of calls is the one up to which it has k members.     *)
Sorted(calls) ==
  [k \in 1..Cardinality(calls) |->
     CHOOSE i \in calls : Cardinality({j \in calls : j <= i}) = k]

InReverse(S) ==  (* mutant *)
  LET sorted == Sorted({i \in Calls : result[i] \in S})
  IN [k \in DOMAIN sorted |-> sorted[Len(sorted) + 1 - k]]

InOrder(S) == Sorted({i \in Calls : result[i] \in S})

OutcomesFirst ==  (* mutant *)
  [kind |-> IF Len(InOrder({"exception"})) > 0 THEN "group" ELSE "outcomes",
   completed |-> InOrder(Completed), raised |-> InOrder({"exception"}), first |-> 0]

(* A value that is no Exception is raised before the group of exceptions,  *)
(* which becomes its cause.                                                *)
Gathered ==
  LET completed == InOrder(Completed)
      raised == InOrder({"exception"})
      base == InOrder(NotExceptions)
  IN [kind |-> IF base # <<>> THEN "base_exception"
               ELSE IF raised # <<>> THEN "group" ELSE "outcomes",
      completed |-> IF raised # <<>> \/ base = <<>> THEN completed ELSE <<>>,
      raised |-> raised,
      first |-> IF base # <<>> THEN base[1] ELSE 0]

GatherReturns ==
  /\ pc = "gathering"
  /\ AllDone
  /\ ~cancelled
  /\ End(Gathered)
  /\ UNCHANGED <<call, result, task, asked, observed, cancelled>>

GatherRaisesAtOnce ==  (* mutant *)
  /\ pc = "gathering"
  /\ cancelled
  /\ End([NoOutcome EXCEPT !.kind = "cancelled"])
  /\ UNCHANGED <<call, result, task, asked, observed, cancelled>>

(* The except clause cancels the tasks and gathers them once more.         *)
GatherRaises ==
  /\ pc = "gathering"
  /\ AllDone
  /\ cancelled
  /\ pc' = "settling"
  /\ asked' = asked \union {i \in Calls : task[i] # "done"}
  /\ cancelled' = FALSE
  /\ UNCHANGED <<call, result, task, observed, outcome>>

Settled ==
  /\ pc = "settling"
  /\ AllDone
  /\ End([NoOutcome EXCEPT !.kind = "cancelled"])
  /\ UNCHANGED <<call, result, task, asked, observed, cancelled>>

Finished == pc = "ended" /\ UNCHANGED vars

Next ==
  \/ DispatchMany
  \/ \E i \in Calls : TaskStarts(i) \/ TaskNeverStarts(i) \/ FunctionEnds(i)
  \/ CallerCancels \/ GatherReturns \/ GatherRaises \/ Settled
  \/ Finished

(* Tasks that are ready run, and a function that was asked to cancel ends. *)
Fairness ==
  /\ WF_vars(DispatchMany)
  /\ \A i \in Calls :
       WF_vars(TaskStarts(i) \/ TaskNeverStarts(i) \/ (i \in asked /\ FunctionEnds(i)))
  /\ WF_vars(GatherReturns \/ GatherRaises \/ Settled)

Spec == Init /\ [][Next]_vars /\ Fairness

-----------------------------------------------------------------------------
(* "after sibling calls settle": whatever dispatch_many returns or raises, *)
(* and however often it is cancelled, none of its tool functions runs on.  *)
NoFunctionRunsOn == pc = "ended" => \A i \in Calls : task[i] \in {"none", "done"}

(* No call is lost: outcomes are returned only for all calls, and an error *)
(* that carries outcomes accounts for each call that ended with one and    *)
(* for each exception, in the order of the calls.                          *)
EveryCallIsAnswered ==
  /\ outcome.kind = "outcomes" => outcome.completed = [i \in Calls |-> i]
  /\ outcome.kind = "group" => Len(outcome.completed) + Len(outcome.raised) = N
  /\ outcome.kind = "base_exception" =>
       /\ result[outcome.first] \in NotExceptions
       /\ \A i \in Calls : result[i] = "exception" =>
            \E k \in DOMAIN outcome.raised : outcome.raised[k] = i

(* An observer that heard of the start hears of the end once, whatever it  *)
(* raised in between, and of the outcome unless there was none; the        *)
(* context it entered is left; and without a start it hears nothing.       *)
ObserverIsToldInFull ==
  \A i \in Calls :
    /\ observed[i].started => (observed[i].ended = 1 <=> task[i] = "done")
    /\ observed[i].entered => (observed[i].exited <=> task[i] = "done")
    /\ observed[i].concluded # "nothing" =>
         observed[i].started /\ observed[i].concluded = result[i]
    /\ observed[i].started /\ result[i] \in Outcomes \union {"exception"} =>
         observed[i].concluded = result[i]

(* A cancelled dispatch_many ends.                                         *)
CancelledDispatchEnds == cancelled ~> pc = "ended"
=============================================================================
