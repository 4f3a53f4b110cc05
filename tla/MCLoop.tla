------------------------------- MODULE MCLoop -------------------------------
(***************************************************************************)
(* The tasks below generate and embed: the loop of one input, run_many,    *)
(* the batches of embed and the client they share.  A behaviour is of one  *)
(* of them, the others have not begun.                                     *)
(***************************************************************************)
EXTENDS RequestLoop

CONSTANTS
  N, Bound,                                          \* RunMany
  Callers, MaxCreations,                             \* ClientCache
  Batches, BatchRequests, MaxConcurrent,             \* EmbedBatches
  PendingPerRequest, SparePending, TerminalKinds

VARIABLES
  running,  \* "input", "run_many", "prepare" or "embed"
  many, state, pending, next, results, failure, interrupted, wasCancelled,
  callers, waitsFor, interruptions, creations, creationTask, client,
  batches, records, ending, batchSent, billed, stop, aborting, embedded

Many == INSTANCE RunMany WITH MaxPending <- Bound, pc <- many
Cache == INSTANCE ClientCache WITH pc <- callers, interrupted <- interruptions
Embed == INSTANCE EmbedBatches WITH
  MaxRequests <- BatchRequests, pc <- batches, sent <- batchSent, outcome <- embedded

ASSUME ManyAssumption == Many!BatchAssumption
ASSUME CacheAssumption == Cache!CreationsAssumption
ASSUME EmbedAssumption == Embed!EmbedAssumption

manyVars == <<many, state, pending, next, results, failure, interrupted, wasCancelled>>
cacheVars == <<callers, waitsFor, interruptions, creations, creationTask, client>>
embedVars == <<batches, records, ending, batchSent, billed, stop, aborting, embedded>>
familyVars == <<running, vars, manyVars, cacheVars, embedVars>>

FamilyInit ==
  /\ Init /\ Many!Init /\ Cache!Init /\ Embed!Init
  /\ running \in {"input", "run_many", "prepare", "embed"}
  /\ running = "input" \/ deadline = "none"
  /\ running = "run_many" \/ many = "called"

FamilyNext ==
  /\ UNCHANGED running
  /\ \/ running = "input" /\ Next /\ UNCHANGED <<manyVars, cacheVars, embedVars>>
     \/ running = "run_many" /\ Many!Next /\ UNCHANGED <<vars, cacheVars, embedVars>>
     \/ running = "prepare" /\ Cache!Next /\ UNCHANGED <<vars, manyVars, embedVars>>
     \/ running = "embed" /\ Embed!Next /\ UNCHANGED <<vars, manyVars, cacheVars>>

(* The fairness of each, on condition that it is its turn.                 *)
InputFairness ==
  /\ WF_vars(running = "input" /\ Begin) /\ WF_vars(running = "input" /\ Admitted)
  /\ WF_vars(running = "input" /\ BackoffEnds)
  /\ WF_vars(running = "input" /\ StreamCancelled) /\ WF_vars(running = "input" /\ Closed)
  /\ WF_vars(running = "input" /\ Cancelled)
  /\ WF_vars(running = "input" /\ DeadlineExpires) /\ WF_vars(running = "input" /\ Tick)

RunManyFairness ==
  /\ WF_manyVars(running = "run_many" /\ (Many!CallFirstAlone \/ Many!CallAll))
  /\ WF_manyVars(running = "run_many" /\ Many!TakeResults)
  /\ SF_manyVars(running = "run_many" /\ Many!SettleCancelled)
  /\ WF_manyVars(running = "run_many" /\ (Many!Cancelled \/ Many!CancelledAgain))
  /\ \A i \in 1..N :
       WF_manyVars(running = "run_many" /\ i \in wasCancelled /\ Many!CallEnds(i))

CacheFairness ==
  /\ WF_cacheVars(running = "prepare" /\ Cache!CreationSettles)
  /\ \A c \in Callers :
       /\ WF_cacheVars(/\ running = "prepare"
                       /\ Cache!WakeSettled(c) \/ Cache!SettlesAfterCancellation(c))
       /\ WF_cacheVars(running = "prepare" /\ Cache!ReceiveCancellation(c))

EmbedFairness ==
  /\ \A b \in 1..Batches :
       /\ WF_embedVars(running = "embed" /\ Embed!Start(b))
       /\ WF_embedVars(running = "embed" /\ Embed!Grant(b))
       /\ WF_embedVars(running = "embed" /\ Embed!Admitted(b))
       /\ WF_embedVars(running = "embed" /\ Embed!WaitEnds(b))
       /\ WF_embedVars(running = "embed" /\ Embed!Settles(b))
       /\ WF_embedVars(running = "embed" /\ Embed!TaskCancelled(b))
  /\ WF_embedVars(running = "embed" /\ (Embed!Return \/ Embed!Raise))

FamilySpec ==
  /\ FamilyInit /\ [][FamilyNext]_familyVars
  /\ InputFairness /\ RunManyFairness /\ CacheFairness /\ EmbedFairness

-----------------------------------------------------------------------------
(* The callers of prepare() share one creation at a time and stay with it  *)
(* until it settles; when it failed, the next caller creates anew.         *)
CreationIsShared ==
  /\ Cache!TypeOK
  /\ Cache!OneCreationAtATime /\ Cache!NobodyLeavesARunningCreation
  /\ Cache!FailureIsForgotten

(* run_many keeps to its bound and leaves no task running, and returns all *)
(* results or none; so embed returns a row for each input or raises for a  *)
(* batch that did fail, with every request and its usage recorded.         *)
BatchesAreWhole ==
  /\ Many!TypeOK /\ Embed!TypeOK
  /\ Many!BoundIsKept /\ Many!NothingIsLeftRunning /\ Many!ReturnedIsComplete
  /\ Embed!OutputIsWhole /\ Embed!HistoryIsComplete /\ Embed!StoppedForAReason

(* run_many implements an ordered batch and raises for the lowest index    *)
(* that failed; once a batch of embed has failed, none sends a request.    *)
BatchesStopInOrder ==
  /\ Many!ImplementsBatch
  /\ Many!LowestFailureWins
  /\ Embed!NoRequestAfterAFailure

(* An input with a budget ends, a run_many that is to raise does, a caller *)
(* of prepare() leaves, and embed ends.                                    *)
EveryCallEnds ==
  /\ running = "input" => InputEnds
  /\ Many!ErrorsPropagate
  /\ Cache!EveryWaiterLeaves
  /\ running = "embed" => Embed!EmbedEnds
=============================================================================
