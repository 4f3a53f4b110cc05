------------------------------ MODULE MCHandle ------------------------------
(***************************************************************************)
(* Two things an application awaits and may cancel while it does: the      *)
(* block of a StreamHandle and dispatch_many.  A behaviour is of one of    *)
(* them, the other has not begun.                                          *)
(***************************************************************************)
EXTENDS StreamHandle

CONSTANT ToolCalls  \* N of Dispatch

VARIABLES
  running,  \* "stream" or "dispatch_many"
  call, result, task, asked, followed, dispatching, dispatchCancelled, dispatched

Tools == INSTANCE Dispatch WITH
  N <- ToolCalls, observed <- followed, pc <- dispatching, cancelled <- dispatchCancelled, outcome <- dispatched

ASSUME ToolsAssumption == Tools!CallsAssumption

toolVars == <<call, result, task, asked, followed, dispatching, dispatchCancelled, dispatched>>
familyVars == <<running, vars, toolVars>>

FamilyInit ==
  /\ Init /\ Tools!Init
  /\ running \in {"stream", "dispatch_many"}
  /\ running = "stream" => call = [i \in 1..ToolCalls |-> "tool"]

FamilyNext ==
  /\ UNCHANGED running
  /\ \/ running = "stream" /\ Next /\ UNCHANGED toolVars
     \/ running = "dispatch_many" /\ Tools!Next /\ UNCHANGED vars

(* The fairness of both, each step on condition that it is its turn.       *)
ToolsFairness ==
  /\ WF_toolVars(running = "dispatch_many" /\ Tools!DispatchMany)
  /\ \A i \in 1..ToolCalls :
       WF_toolVars(/\ running = "dispatch_many"
                   /\ \/ Tools!TaskStarts(i) \/ Tools!TaskNeverStarts(i)
                      \/ i \in asked /\ Tools!FunctionEnds(i))
  /\ WF_toolVars(/\ running = "dispatch_many"
                 /\ Tools!GatherReturns \/ Tools!GatherRaises \/ Tools!Settled)

StreamFairness ==
  /\ WF_vars(running = "stream" /\ Admitted) /\ WF_vars(running = "stream" /\ BackoffEnds)
  /\ WF_vars(running = "stream" /\ EntryCancelled)
  /\ WF_vars(running = "stream" /\ FailedStreamCloses)
  /\ WF_vars(running = "stream" /\ CancelReachesBlock)
  /\ SF_vars(running = "stream" /\ LeaveBlock /\ unwinding)
  /\ WF_vars(running = "stream" /\ ExitCloses)
  /\ WF_vars(running = "stream" /\ ExitCloseCancelled)
  /\ WF_vars(running = "stream" /\ TimeoutExpires)

FamilySpec == FamilyInit /\ [][FamilyNext]_familyVars /\ StreamFairness /\ ToolsFairness

-----------------------------------------------------------------------------
(* dispatch_many leaves no function running and answers every call with    *)
(* its own result in its own place, and the observer hears of each start   *)
(* and each end, although a function raises or resists its cancellation    *)
(* and the observer raises.                                                *)
DispatchIsWhole ==
  /\ Tools!TypeOK
  /\ Tools!NoFunctionRunsOn /\ Tools!EveryCallIsAnswered /\ Tools!ObserverIsToldInFull

(* A stream block with a budget ends, unless it swallows its timeout, and  *)
(* so does a dispatch_many that was cancelled.                             *)
CallsEnd == TimedInputEnds /\ Tools!CancelledDispatchEnds
=============================================================================
