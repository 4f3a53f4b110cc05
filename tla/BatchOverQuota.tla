--------------------------- MODULE BatchOverQuota ---------------------------
(***************************************************************************)
(* generate_many_records over one SharedBackoff: run_many keeps a bounded  *)
(* number of inputs pending, each of them retries in a loop of its own     *)
(* with a working-time budget, and all of them meet in the queue.          *)
(*                                                                         *)
(* SharedBackoff is here with every step; of RunMany and RequestLoop, which *)
(* are modules of their own, only what the three have to do with each      *)
(* other.  In the code an input that retries queues again in the step in   *)
(* which its permit returns or its wait ends; here that is two steps, with *)
(* anything in between.                                                    *)
(***************************************************************************)
EXTENDS SharedBackoff

CONSTANTS
  MaxRequests,     (* max_requests                                         *)
  Budget,          (* max_working_seconds_per_input                        *)
  TasksPerPermit,  (* _PENDING_TASKS_PER_CONCURRENT_REQUEST                *)
  SparePending     (* _SPARE_PENDING_TASKS                                 *)

BatchAssumption ==
  /\ IsFiniteSet(Requests)
  /\ MaxRequests \in Nat \ {0} /\ Budget \in Nat \ {0}
  /\ TasksPerPermit \in Nat \ {0} /\ SparePending \in Nat
  /\ MaxConcurrent # Unlimited

VARIABLES
  batch,   (* the call: "running", "settling" after a cancellation, "over" *)
  at,      (* where each input is                                          *)
  sent,    (* the requests of each input                                   *)
  left     (* what is left of its working time                             *)

inputVars == <<batch, at, sent, left>>
batchVars == <<vars, inputVars>>

(***************************************************************************)
(* unstarted it has no task yet                                            *)
(* ready     at the top of its retry loop                                  *)
(* quota     in an admitted() block, or on the way into one                *)
(* leaving   cancelled in there by its deadline or with the batch          *)
(* backoff   in its private wait                                           *)
(* ended     its task is done                                              *)
(* taken     run_many has taken its record                                 *)
(***************************************************************************)
Places == {"unstarted", "ready", "quota", "leaving", "backoff", "ended", "taken"}

In(places) == {i \in Requests : at[i] \in places}
Pending == In(Places \ {"unstarted", "taken"})

PendingPerPermit == MaxConcurrent + SparePending  (* mutant *)
MaxPending == MaxConcurrent * TasksPerPermit + SparePending

(* The budget runs from admission to the next wait for admission.          *)
WorkingInBackoff(i) == at[i] = "backoff"  (* mutant *)
Working(i) == at[i] = "backoff" \/ (at[i] = "quota" /\ phase[i] = "admitted")

Goes(i, place) == at' = [at EXCEPT ![i] = place]

(* A request is sent when its task is admitted.                            *)
CountStart(i) ==
  sent' = IF phase'[i] = "admitted" THEN [sent EXCEPT ![i] = @ + 1] ELSE sent

-----------------------------------------------------------------------------
BatchInit ==
  /\ Init
  /\ batch = "running"
  /\ at = [i \in Requests |-> "unstarted"]
  /\ sent = [i \in Requests |-> 0]
  /\ left = [i \in Requests |-> Budget]

(* run_many takes the records of the tasks that are done and creates more. *)
TakeAndFill ==
  /\ batch = "running"
  /\ Pending = {} \/ In({"ended"}) # {}
  /\ \E new \in SUBSET In({"unstarted"}) :
       /\ Cardinality(new) =
            Smaller(MaxPending - Cardinality(Pending \ In({"ended"})),
                    Cardinality(In({"unstarted"})))
       /\ at' = [i \in Requests |-> IF i \in new THEN "ready"
                                    ELSE IF at[i] = "ended" THEN "taken" ELSE at[i]]
       /\ batch' = IF (Pending \ In({"ended"})) \union new = {} THEN "over" ELSE "running"
  /\ UNCHANGED <<vars, sent, left>>

Queue(i) ==
  /\ at[i] = "ready"
  /\ Join(i)
  /\ Goes(i, "quota")
  /\ CountStart(i)
  /\ UNCHANGED <<batch, left>>

Enter(i) ==
  /\ at[i] = "quota"
  /\ WakeGranted(i)
  /\ CountStart(i)
  /\ UNCHANGED <<batch, at, left>>

Answered(i) ==
  /\ at[i] = "quota"
  /\ Exit(i) /\ phase'[i] = "idle"
  /\ Goes(i, "ended")
  /\ UNCHANGED <<batch, sent, left>>

FailsWithoutLimit(i, failure) ==  (* mutant *)
  /\ at[i] = "quota"
  /\ FailAndExit(i, failure)
  /\ Goes(i, "ended") \/ Goes(i, IF failure.pausesQuota THEN "ready" ELSE "backoff")
  /\ UNCHANGED <<batch, sent, left>>

(* A failure that pauses the quota relies on the next admission; another   *)
(* waits on its own, if a request is left.                                 *)
Fails(i, failure) ==
  /\ at[i] = "quota"
  /\ FailAndExit(i, failure)
  /\ \/ Goes(i, "ended")
     \/ sent[i] < MaxRequests /\ Goes(i, IF failure.pausesQuota THEN "ready" ELSE "backoff")
  /\ UNCHANGED <<batch, sent, left>>

BackoffEnds(i) ==
  /\ at[i] = "backoff"
  /\ Goes(i, "ready")
  /\ UNCHANGED <<vars, batch, sent, left>>

Expires(i) ==
  /\ Working(i) /\ left[i] = 0
  /\ Goes(i, IF at[i] = "backoff" THEN "ended" ELSE "leaving")
  /\ UNCHANGED <<vars, batch, sent, left>>

CancelledIn(i) ==
  CASE phase[i] = "pending" -> "cancelled" [] phase[i] = "granted" -> "revoked"
    [] OTHER -> phase[i]

(* The caller cancels the batch: run_many cancels every task it has.       *)
CancelBatch ==
  /\ batch = "running" /\ Pending # {}
  /\ batch' = "settling"
  /\ phase' = [i \in Requests |-> CancelledIn(i)]
  /\ at' = [i \in Requests |-> IF at[i] \in {"ready", "backoff"} THEN "ended"
                               ELSE IF at[i] = "quota" THEN "leaving" ELSE at[i]]
  /\ UNCHANGED <<queue, permitsHeld, pauseAge, waitCeiling, admissionAge, timer, sent, left>>

(* The cancelled task runs: it leaves the queue, returns a permit it was   *)
(* granted, or closes its stream and returns its permit then.              *)
Leave(i) ==
  /\ at[i] = "leaving"
  /\ WakeCancelled(i) \/ WakeRevoked(i) \/ (Exit(i) /\ phase'[i] = "idle")
  /\ Goes(i, "ended")
  /\ UNCHANGED <<batch, sent, left>>

Settle ==
  /\ batch = "settling"
  /\ Pending = In({"ended"})
  /\ batch' = "over"
  /\ at' = [i \in Requests |-> IF at[i] = "ended" THEN "taken" ELSE at[i]]
  /\ UNCHANGED <<vars, sent, left>>

(* Time does not pass a deadline that is due.                              *)
TimePasses ==
  /\ Tick
  /\ \A i \in Requests : Working(i) => left[i] > 0
  /\ left' = [i \in Requests |-> IF Working(i) THEN left[i] - 1 ELSE left[i]]
  /\ UNCHANGED <<batch, at, sent>>

Fires == TimerFires /\ UNCHANGED inputVars

Step(i) ==
  \/ Queue(i) \/ Enter(i) \/ Leave(i) \/ BackoffEnds(i) \/ Expires(i)

BatchNext ==
  \/ TakeAndFill \/ Settle
  \/ \E i \in Requests :
       \/ Step(i)
       \/ Answered(i)
       \/ \E failure \in Failures : Fails(i, failure)
  \/ CancelBatch
  \/ Fires
  \/ TimePasses

BatchSpec == BatchInit /\ [][BatchNext]_batchVars

-----------------------------------------------------------------------------
BatchTypeOK ==
  /\ TypeOK
  /\ batch \in {"running", "settling", "over"}
  /\ at \in [Requests -> Places]
  /\ sent \in [Requests -> 0..MaxRequests]
  /\ left \in [Requests -> 0..Budget]
  /\ Cardinality(Pending) <= MaxPending

(* However the batch ended, the quota it leaves to others has all of its   *)
(* permits and nobody in its queue, not even the future of a task that was *)
(* cancelled between its grant and its next step.                          *)
QuotaIsFreeAtTheEnd == batch = "over" => permitsHeld = 0 /\ queue = <<>>

(* run_many.py: "Extra tasks keep request permits supplied during retry    *)
(* waits."  With inputs left to start, a permit lies idle with nobody in   *)
(* the queue only if as many tasks as there are permits, and the spare     *)
(* ones, are away at once.                                                 *)
PermitsAreSupplied ==
  batch = "running" /\ Pending # {} /\ In({"unstarted"}) # {} /\ PermitFree(permitsHeld)
    /\ Waiting = {} /\ In({"ready"}) = {} =>
    Cardinality(In({"backoff", "ended"})) > MaxConcurrent * (TasksPerPermit - 1) + SparePending

(* The quota is used to the full while the batch runs and is whole again   *)
(* when it is over, with every permit back and nobody in the queue.        *)
PermitsAreUsedAndReturned == BatchTypeOK /\ PermitsAreSupplied /\ QuotaIsFreeAtTheEnd
=============================================================================
