----------------------------- MODULE MCRetries -----------------------------
(***************************************************************************)
(* Every exception that a provider can cause, mapped once; retry loops     *)
(* that meet some of them; and a batch of such loops over one quota.  A    *)
(* behaviour is of one of the three, the others have not begun.            *)
(***************************************************************************)
EXTENDS RetryWaits

CONSTANT BatchInputs  (* Requests of BatchOverQuota *)

VARIABLES
  running,  (* "mapping", "loops" or "batch"                               *)
  mapper,   (* whose adapter maps the exception                            *)
  raised,   (* the exception a request raised                              *)
  mapped,   (* its RequestFailure, None before                             *)
  counted,  (* how often the fallthrough counter has grown                 *)
  turn, futures, permitsInUse, pausedFor, quotaCeiling, startedFor, wakeUp,  (* of the quota *)
  batch, at, sent, left                                                      (* of the batch *)

Batch == INSTANCE BatchOverQuota WITH
  Requests <- BatchInputs, MaxConcurrent <- 1, MinCeiling <- 1, MaxWait <- 2, Multiplier <- 2,
  Quiet <- 2, StepsToFloor <- 1, Interval <- 1, StatedWaits <- {6},
  MaxRequests <- 2, Budget <- 1, TasksPerPermit <- 2, SparePending <- 0,
  phase <- turn, queue <- futures, permitsHeld <- permitsInUse, pauseAge <- pausedFor,
  waitCeiling <- quotaCeiling, admissionAge <- startedFor, timer <- wakeUp

ASSUME BatchInputsAssumption == Batch!BatchAssumption

mappingVars == <<mapper, raised, mapped, counted>>
batchVars ==
  <<turn, futures, permitsInUse, pausedFor, quotaCeiling, startedFor, wakeUp, batch, at, sent, left>>
familyVars == <<running, vars, mappingVars, batchVars>>

Mapped == mapped # None

(* _request_failure_of, called for the exception of one request.           *)
Map ==
  /\ mapped = None
  /\ mapped' = RequestFailureOf(mapper, raised)
  /\ counted' = IF CountsFallthrough(mapper, raised) THEN counted + 1 ELSE counted
  /\ UNCHANGED <<mapper, raised>>

FamilyInit ==
  /\ running \in {"mapping", "loops", "batch"}
  /\ Init /\ (running # "loops" => adapter = "openai")
  /\ mapped = None /\ counted = 0
  /\ IF running = "mapping" THEN mapper \in Providers /\ raised \in ErrorsOf(mapper)
     ELSE mapper = None /\ raised = None
  /\ Batch!BatchInit

FamilyNext ==
  /\ UNCHANGED running
  /\ \/ running = "loops" /\ Next /\ UNCHANGED <<mappingVars, batchVars>>
     \/ /\ running = "mapping" /\ UNCHANGED <<vars, batchVars>>
        /\ Map \/ (Mapped /\ UNCHANGED mappingVars)
     \/ running = "batch" /\ Batch!BatchNext /\ UNCHANGED <<vars, mappingVars>>

(* The fairness of both, each step on condition that it is its turn.       *)
LoopsFairness ==
  /\ WF_vars(running = "loops" /\ Tick)
  /\ \A i \in Inputs :
       /\ WF_vars(running = "loops" /\ WaitOver(i)) /\ SF_vars(running = "loops" /\ Send(i))
       /\ WF_vars(running = "loops" /\ (Succeed(i) \/ Fail(i)))

(* In a batch, tasks that are ready run, timers fire, time passes and a    *)
(* stream closes.  No provider owes an answer and the caller owes no       *)
(* cancellation.                                                           *)
BatchFairness ==
  /\ WF_batchVars(running = "batch" /\ Batch!TakeAndFill)
  /\ WF_batchVars(running = "batch" /\ Batch!Settle)
  /\ WF_batchVars(running = "batch" /\ Batch!Fires)
  /\ WF_batchVars(running = "batch" /\ Batch!TimePasses)
  /\ \A i \in BatchInputs : WF_batchVars(running = "batch" /\ Batch!Step(i))

FamilySpec == FamilyInit /\ [][FamilyNext]_familyVars /\ LoopsFairness /\ BatchFairness

-----------------------------------------------------------------------------
MappingTypeOK ==
  /\ mapped \in FailureRecords \union {None}
  /\ counted \in 0..1

(* The answer tells of a rate limit, in the provider's own words or by     *)
(* status.  Bedrock answers 429 to a model that is not ready, too.         *)
IsRateLimit ==
  /\ raised.class = "status" /\ raised.status # None /\ raised.judged = "chain"
  /\ \/ raised.type = "limited" /\ (mapper = "openai" => raised.status \in {200, 429})
     \/ raised.status = 429 /\ mapper # "cohere"

(* An SDK that raises from its own rule leaves nothing to judge by.        *)
IsJudged == raised.sdk # "raises" \/ (mapper = "openai" /\ raised.status = 200)

(* A rate limit pauses the quota, whether a status or an event inside a    *)
(* stream tells of it and whether or not the request itself is retried.    *)
RateLimitPausesTheQuota ==
  Mapped /\ IsRateLimit /\ IsJudged => mapped.pausesQuota

(* The kinds for which a request is settled as answered need an answer     *)
(* with a status.                                                          *)
AnsweredKindsHaveAnAnswer ==
  Mapped /\ mapped.kind \in {"auth", "rejected", "provider_failed_terminally"} =>
    raised.class = "status" /\ raised.status # None

(* A failed stream is the provider's failure: never a complaint about the  *)
(* request, which had been accepted, and never given up for an error that  *)
(* the tables list as retryable.                                           *)
StreamErrorsFollowTheTables ==
  Mapped /\ raised.class = "status" /\ raised.status = 200 /\ raised.judged = "chain" /\ IsJudged
    /\ mapper \in {"anthropic", "openai"} =>
      mapped.kind = IF raised.type \in {"limited", "retried"}
                     THEN "transient" ELSE "provider_failed_terminally"

(* An error inside a stream that ends the input is one whose code the      *)
(* tables call terminal, or the counter shows it.                          *)
UnlistedErrorsAreCounted ==
  Mapped /\ mapper = "openai" /\ raised.class = "status" /\ raised.status = 200 /\ mapped.kind # "transient" =>
    (counted = 1 <=> raised.type # "terminal")

(* The wait of a failure that is retried or pauses the quota is one that   *)
(* the provider stated, and none is made up or lost.                       *)
StatedWaitIsKept ==
  Mapped /\ raised.class = "status" /\ (mapped.pausesQuota \/ mapped.kind = "transient") =>
    IF Stated(raised) = {} THEN mapped.retryAfter = None ELSE mapped.retryAfter \in Stated(raised)

(* What an exception becomes: a rate limit pauses the quota, a kind that   *)
(* needs an answer has one, an error inside a stream follows the tables,   *)
(* with the counter for what they do not list, and a stated wait is kept.  *)
(* The loops then wait by their own failures, and only before a retry.     *)
RetriesFollowTheFailures ==
  /\ TypeOK /\ MappingTypeOK
  /\ RateLimitPausesTheQuota /\ AnsweredKindsHaveAnAnswer
  /\ StreamErrorsFollowTheTables /\ UnlistedErrorsAreCounted
  /\ StatedWaitIsKept
  /\ CeilingFollowsOwnFailures /\ NoWaitWithoutARetry

(* Every retry loop ends, if its requests are answered and the quota       *)
(* admits it again and again.                                              *)
EveryLoopEnds == running = "loops" => EveryInputEnds

(* The quota is used to the full while the batch runs and is whole again   *)
(* when it is over, with every permit back and nobody in the queue.        *)
PermitsAreUsedAndReturned == running = "batch" => Batch!PermitsAreUsedAndReturned

(* The batch ends although its provider never answers: the budget of the   *)
(* inputs that hold the permits runs out, which lets in the ones behind    *)
(* them, whose own budget does not run while they wait.  That an admitted  *)
(* request ends (assumed in SharedBackoff) and that a waiting one is       *)
(* admitted (assumed for the loops) is derived here from each other.       *)
BatchEnds == running = "batch" => <>(batch = "over")
=============================================================================
