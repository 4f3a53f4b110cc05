---------------------------- MODULE EmbedBatches ----------------------------
(***************************************************************************)
(* EmbeddingModel.embed: the inputs in request batches, each with its      *)
(* retries, run side by side under run_many and one SharedBackoff.  The    *)
(* first batch to fail sets an event that keeps the others from sending    *)
(* again, while requests already sent finish and stay on the record.       *)
(*                                                                         *)
(* What SharedBackoff promises is all that is used of it: permits, and     *)
(* that a grant and the turn of the granted task are separate steps.       *)
(***************************************************************************)
EXTENDS Integers, Sequences, FiniteSets

CONSTANTS
  Batches,          \* the number of request batches
  MaxRequests,      \* max_requests of the model
  MaxConcurrent,    \* permits of the SharedBackoff
  PendingPerRequest, SparePending,  \* of max_pending_for_requests
  TerminalKinds     \* the kinds of failure that are not transient

EmbedAssumption ==
  /\ Batches \in Nat
  /\ {MaxRequests, MaxConcurrent, PendingPerRequest} \subseteq Nat \ {0}
  /\ SparePending \in Nat
  /\ TerminalKinds \subseteq
       {"auth", "rejected", "provider_failed_terminally", "unknown_exception"}

VARIABLES
  pc,        \* the await of each batch's task
  records,   \* the records of each batch, in the order of its requests
  ending,    \* how each batch ended
  sent,      \* the number of requests each batch sent
  billed,    \* the number of its requests whose usage the provider reported
  stop,      \* the event
  aborting,  \* run_many cancels: a task raised, or the caller cancelled
  outcome    \* how embed ended

vars == <<pc, records, ending, sent, billed, stop, aborting, outcome>>

Indices == 1..Batches
FailureKinds == TerminalKinds \union {"retries_exhausted", "invalid_output"}
RequestRecords ==
  [error : TerminalKinds \union {"none", "transient", "invalid_output"}, usage : BOOLEAN]

Live == {b \in Indices : pc[b] \notin {"unstarted", "ended"}}
PermitsOut == {b \in Indices : pc[b] \in {"granted", "sending"}}

MaxPending == MaxConcurrent * PendingPerRequest + SparePending

TypeOK ==
  /\ pc \in [Indices -> {"unstarted", "queued", "granted", "sending", "waiting", "ended"}]
  /\ \A b \in Indices :
       /\ records[b] \in Seq(RequestRecords)
       /\ sent[b] = Len(records[b]) + (IF pc[b] = "sending" THEN 1 ELSE 0)
            \/ ending[b] \in {"raised", "cancelled"}
       /\ sent[b] <= MaxRequests
       /\ billed[b] <= sent[b]
  /\ ending \in [Indices -> {"none", "vectors", "stopped", "raised", "cancelled"} \union FailureKinds]
  /\ stop \in BOOLEAN
  /\ aborting \in BOOLEAN
  /\ outcome \in [kind : {"none", "embeddings", "error", "raised"},
                  failure : FailureKinds \union {"none"}]
  /\ Cardinality(PermitsOut) <= MaxConcurrent

NoOutcome == [kind |-> "none", failure |-> "none"]

Init ==
  /\ pc = [b \in Indices |-> "unstarted"]
  /\ records = [b \in Indices |-> <<>>]
  /\ ending = [b \in Indices |-> "none"]
  /\ sent = [b \in Indices |-> 0]
  /\ billed = [b \in Indices |-> 0]
  /\ stop = FALSE
  /\ aborting = FALSE
  /\ outcome = NoOutcome

EndBatch(b, how) ==
  /\ pc' = [pc EXCEPT ![b] = "ended"]
  /\ ending' = [ending EXCEPT ![b] = how]

(* A batch that fails sets the event in the same step.                     *)
FailBatch(b, kind) == EndBatch(b, kind) /\ stop' = TRUE

(***************************************************************************)
(* _send_request: the event is looked at before the queue and at admission. *)
(***************************************************************************)
SendOrStop(b) ==
  IF stop THEN EndBatch(b, "stopped")
  ELSE /\ pc' = [pc EXCEPT ![b] = "queued"]
       /\ UNCHANGED ending

Start(b) ==
  /\ ~aborting
  /\ outcome = NoOutcome
  /\ pc[b] = "unstarted"
  /\ \A a \in Indices : a < b => pc[a] # "unstarted"
  /\ Cardinality(Live) < MaxPending
  /\ SendOrStop(b)
  /\ UNCHANGED <<records, sent, billed, stop, aborting, outcome>>

Grant(b) ==
  /\ pc[b] = "queued"
  /\ Cardinality(PermitsOut) < MaxConcurrent
  /\ pc' = [pc EXCEPT ![b] = "granted"]
  /\ UNCHANGED <<records, ending, sent, billed, stop, aborting, outcome>>

AdmittedUnchecked(b) ==  (* mutant *)
  /\ pc[b] = "granted"
  /\ pc' = [pc EXCEPT ![b] = "sending"]
  /\ sent' = [sent EXCEPT ![b] = @ + 1]
  /\ UNCHANGED <<records, ending, billed, stop, aborting, outcome>>

Admitted(b) ==
  /\ pc[b] = "granted"
  /\ IF stop
     THEN EndBatch(b, "stopped") /\ UNCHANGED sent
     ELSE /\ pc' = [pc EXCEPT ![b] = "sending"]
          /\ sent' = [sent EXCEPT ![b] = @ + 1]
          /\ UNCHANGED ending
  /\ UNCHANGED <<records, billed, stop, aborting, outcome>>

(***************************************************************************)
(* _request_with_record and what _embed_batch_with_retries does with it.   *)
(***************************************************************************)
KeepUsageOfVectors(b, error, usage) ==  (* mutant *)
  /\ records' = [records EXCEPT
       ![b] = Append(@, [error |-> error, usage |-> usage /\ error = "none"])]
  /\ billed' = [billed EXCEPT ![b] = @ + IF usage THEN 1 ELSE 0]

Keep(b, error, usage) ==
  /\ records' = [records EXCEPT ![b] = Append(@, [error |-> error, usage |-> usage])]
  /\ billed' = [billed EXCEPT ![b] = @ + IF usage THEN 1 ELSE 0]

Embedded(b) ==
  /\ pc[b] = "sending"
  /\ Keep(b, "none", TRUE)
  /\ EndBatch(b, "vectors")
  /\ UNCHANGED <<sent, stop, aborting, outcome>>

(* A response without usable vectors or token count.                       *)
OutputInvalid(b) ==
  /\ pc[b] = "sending"
  /\ \E usage \in BOOLEAN : Keep(b, "invalid_output", usage)
  /\ FailBatch(b, "invalid_output")
  /\ UNCHANGED <<sent, aborting, outcome>>

TerminalFailure(b) ==
  /\ pc[b] = "sending"
  /\ \E kind \in TerminalKinds : Keep(b, kind, FALSE) /\ FailBatch(b, kind)
  /\ UNCHANGED <<sent, aborting, outcome>>

StopAtAnyFailure(b) ==  (* mutant *)
  /\ pc[b] = "sending"
  /\ Keep(b, "transient", FALSE)
  /\ IF sent[b] < MaxRequests
     THEN /\ pc' = [pc EXCEPT ![b] = "waiting"]
          /\ stop' = TRUE
          /\ UNCHANGED ending
     ELSE FailBatch(b, "retries_exhausted")
  /\ UNCHANGED <<sent, aborting, outcome>>

(* A failure that pauses the quota is waited out in the queue, any other   *)
(* in a private wait that the event may end.                               *)
TransientFailure(b) ==
  /\ pc[b] = "sending"
  /\ Keep(b, "transient", FALSE)
  /\ IF sent[b] < MaxRequests
     THEN \/ SendOrStop(b) /\ UNCHANGED stop
          \/ /\ pc' = [pc EXCEPT ![b] = "waiting"]
             /\ UNCHANGED <<ending, stop>>
     ELSE FailBatch(b, "retries_exhausted")
  /\ UNCHANGED <<sent, aborting, outcome>>

WaitOut(b) ==  (* mutant *)
  /\ pc[b] = "waiting"
  /\ ~stop
  /\ SendOrStop(b)
  /\ UNCHANGED <<records, sent, billed, stop, aborting, outcome>>

(* The wait ends by itself, or because the event is set.                   *)
WaitEnds(b) ==
  /\ pc[b] = "waiting"
  /\ SendOrStop(b)
  /\ UNCHANGED <<records, sent, billed, stop, aborting, outcome>>

(* The adapter's request_failure raises: the task raises, with no record.  *)
Defect(b) ==
  /\ pc[b] = "sending"
  /\ EndBatch(b, "raised")
  /\ aborting' = TRUE
  /\ UNCHANGED <<records, sent, billed, stop, outcome>>

CallerCancels ==
  /\ outcome = NoOutcome
  /\ ~aborting
  /\ aborting' = TRUE
  /\ UNCHANGED <<pc, records, ending, sent, billed, stop, outcome>>

(* run_many cancels what is live and settles it.                           *)
TaskCancelled(b) ==
  /\ aborting
  /\ b \in Live
  /\ EndBatch(b, "cancelled")
  /\ UNCHANGED <<records, sent, billed, stop, aborting, outcome>>

-----------------------------------------------------------------------------
Failed == {b \in Indices : ending[b] \in FailureKinds}

FirstFailed == {b \in Failed : \A a \in Failed : b <= a}

OutputWithoutLookingForFailures ==  (* mutant *)
  [kind |-> "embeddings", failure |-> "none"]

(* The failure of the batch with the earliest inputs, or the rows of all   *)
(* batches that have some.                                                 *)
Output ==
  IF Failed = {} THEN [kind |-> "embeddings", failure |-> "none"]
  ELSE [kind |-> "error", failure |-> ending[CHOOSE b \in FirstFailed : TRUE]]

Return ==
  /\ outcome = NoOutcome
  /\ ~aborting
  /\ \A b \in Indices : pc[b] = "ended"
  /\ outcome' = Output
  /\ UNCHANGED <<pc, records, ending, sent, billed, stop, aborting>>

Raise ==
  /\ outcome = NoOutcome
  /\ aborting
  /\ Live = {}
  /\ outcome' = [kind |-> "raised", failure |-> "none"]
  /\ UNCHANGED <<pc, records, ending, sent, billed, stop, aborting>>

Finished == outcome # NoOutcome /\ UNCHANGED vars

Settles(b) ==
  Embedded(b) \/ OutputInvalid(b) \/ TerminalFailure(b) \/ TransientFailure(b) \/ Defect(b)

Next ==
  \/ \E b \in Indices :
       \/ Start(b) \/ Grant(b) \/ Admitted(b) \/ WaitEnds(b)
       \/ Embedded(b) \/ OutputInvalid(b) \/ TerminalFailure(b) \/ TransientFailure(b)
       \/ Defect(b) \/ TaskCancelled(b)
  \/ CallerCancels \/ Return \/ Raise \/ Finished

(* The provider answers or the request fails, permits are granted, and the *)
(* event loop runs what is ready.                                          *)
Fairness ==
  /\ \A b \in Indices :
       /\ WF_vars(Start(b)) /\ WF_vars(Grant(b)) /\ WF_vars(Admitted(b))
       /\ WF_vars(WaitEnds(b)) /\ WF_vars(Settles(b)) /\ WF_vars(TaskCancelled(b))
  /\ WF_vars(Return \/ Raise)

Spec == Init /\ [][Next]_vars /\ Fairness

-----------------------------------------------------------------------------
(* "Once a request batch fails, no batch sends another request", whether   *)
(* it was waiting to retry, queued, or granted the permit of the very      *)
(* request that failed.                                                    *)
NoRequestAfterAFailure == [][Failed # {} => sent' = sent]_vars

(* The output has a row for each input: no batch is dropped from it        *)
(* because it stopped or never ran, and no failure is overlooked.          *)
OutputIsWhole ==
  outcome.kind = "embeddings" => \A b \in Indices : ending[b] = "vectors"

(* "Requests already sent finish": whatever embed returns or raises as an  *)
(* EmbeddingError has a record of every request, with the usage of each    *)
(* that reported one.                                                      *)
HistoryIsComplete ==
  outcome.kind \in {"embeddings", "error"} =>
    \A b \in Indices :
      /\ Len(records[b]) = sent[b]
      /\ Cardinality({n \in DOMAIN records[b] : records[b][n].usage}) = billed[b]

(* A batch stops early only because another one failed, so that an error   *)
(* is raised and says which.                                               *)
StoppedForAReason ==
  (\E b \in Indices : ending[b] = "stopped") /\ ~aborting => Failed # {}

(* embed ends, and a failure does not wait out the retry waits of others.  *)
EmbedEnds == <>(outcome # NoOutcome)
=============================================================================
