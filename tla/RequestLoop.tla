----------------------------- MODULE RequestLoop -----------------------------
(***************************************************************************)
(* BoundLLM on one input: admission, the provider request, its settlement, *)
(* the private backoff, and the deadline around them.                      *)
(*                                                                         *)
(* A step runs from one await to the next.  A cancellation, the caller's   *)
(* or the deadline's, reaches the task at the await it is suspended in and *)
(* preempts whatever that await was about to return.  SharedBackoff is the *)
(* permit this input holds and the failures it was told of.                *)
(***************************************************************************)
EXTENDS Integers, Sequences, RequestHistory

CONSTANTS
  MaxRequests,  (* max_requests                                            *)
  Budget,       (* timeout_seconds or max_working_seconds                  *)
  Deadlines     (* deadlines in use: "none", "wall_clock", "working_time"  *)

ASSUME RequestsAssumption == MaxRequests \in Nat \ {0}
ASSUME BudgetAssumption == Budget \in Nat \ {0}
ASSUME DeadlinesAssumption == Deadlines \subseteq {"none", "wall_clock", "working_time"}

VARIABLES
  deadline,    (* which deadline this input has                            *)
  due,         (* time until the deadline's scope expires, NoExpiry for    *)
               (* a scope that does not expire                             *)
  secondsLeft, (* WorkingTimeDeadline._seconds_left                        *)
  pc,          (* where the task is suspended                              *)
  cancelling,  (* a cancellation the task has not received yet             *)
  cancelledBy, (* who cancelled it so far: "deadline", "caller"            *)
  attempt,     (* the current request, see Attempts                        *)
  ledger,      (* the input's request history so far                       *)
  permit,      (* the input is inside an admitted() block                  *)
  outcome,     (* what the caller receives                                 *)
  sent,        (* how many requests were sent                              *)
  usage,       (* requests whose usage the provider has reported           *)
  pauses,      (* requests that failed with pauses_quota                   *)
  told,        (* requests whose pausing failure SharedBackoff was told of *)
  worked       (* time that counts against the budget, see Tick            *)

NoExpiry == -1

deadlineVars == <<deadline, due, secondsLeft>>
ghostVars == <<sent, usage, pauses, told>>
vars == <<deadline, due, secondsLeft, pc, cancelling, cancelledBy, attempt,
          ledger, permit, outcome, sent, usage, pauses, told, worked>>

Awaits == {"admission", "opening", "streaming", "closing", "backoff"}

NoFailure == [kind |-> "none", pausesQuota |-> FALSE]

(* opened: open_stream returned.  result: what reading the stream came to, *)
(* for as long as the stream is being closed.                              *)
Attempts ==
  [opened : BOOLEAN, result : {"none", "complete", "failed", "cancelled"},
   failure : Failures \union {NoFailure}]

NewAttempt == [opened |-> FALSE, result |-> "none", failure |-> NoFailure]

-----------------------------------------------------------------------------
(***************************************************************************)
(* Deadlines.                                                              *)
(***************************************************************************)
SuspendUntilAdmitted ==
  \/ /\ deadline = "working_time"
     /\ secondsLeft' = IF due # NoExpiry THEN due ELSE secondsLeft
     /\ due' = NoExpiry
     /\ UNCHANGED deadline
  \/ deadline # "working_time" /\ UNCHANGED deadlineVars

ResumeWithFullBudget ==  (* mutant *)
  \/ deadline = "working_time" /\ due' = Budget /\ UNCHANGED <<deadline, secondsLeft>>
  \/ deadline # "working_time" /\ UNCHANGED deadlineVars

ResumeNothing == UNCHANGED deadlineVars  (* mutant *)

ResumeOnAdmission ==
  \/ deadline = "working_time" /\ due' = secondsLeft /\ UNCHANGED <<deadline, secondsLeft>>
  \/ deadline # "working_time" /\ UNCHANGED deadlineVars

(* The input ends and its deadline's scope with it.                        *)
FinishWith(kind, frozen) ==
  /\ pc' = "finished"
  /\ outcome' = Ending(kind, frozen)
  /\ ledger' = frozen
  /\ due' = NoExpiry
  /\ UNCHANGED <<deadline, secondsLeft>>

(***************************************************************************)
(* The top of the retry loop.                                              *)
(***************************************************************************)
NextRequest(led) ==
  \/ /\ Len(led.records) < MaxRequests
     /\ pc' = "admission"
     /\ ledger' = led
     /\ SuspendUntilAdmitted
     /\ UNCHANGED outcome
  \/ /\ Len(led.records) >= MaxRequests
     /\ FinishWith("retries_exhausted_error", Frozen(led))

(***************************************************************************)
(* A failed request: admission.record inside the block, the end of the     *)
(* block, _settle_failed_request.  A response that reported the failure    *)
(* leaves its assistant message in the record.                             *)
(***************************************************************************)
TellOfTransient(failure) ==  (* mutant *)
  told' = IF failure.kind = "transient" /\ failure.pausesQuota
          THEN told \union {sent} ELSE told

TellQuota(failure) ==
  told' = IF Reported(failure) THEN told \union {sent} ELSE told

SettleTransient(failure, led) ==
  \/ /\ ~failure.pausesQuota /\ Len(led.records) < MaxRequests
     /\ pc' = "backoff"
     /\ ledger' = led
     /\ UNCHANGED <<outcome, deadlineVars>>
  \/ /\ failure.pausesQuota \/ Len(led.records) >= MaxRequests
     /\ NextRequest(led)

SettleFailedRequest(failure, opened, led, message) ==
  \/ failure.kind = "defect" /\ FinishWith("unknown_exception_error", FrozenWithCutOff(led))
  \/ /\ failure.kind \in AnsweredKinds \union {"unknown_exception"}
     /\ FinishWith(TerminalKind(failure.kind),
                   Frozen(SettledTerminally(failure, opened, led)))
  \/ failure.kind = "transient" /\ SettleTransient(failure, RecordRequest(led, TRUE, message))

FailRequest(failure, opened, led, message) ==
  /\ permit' = FALSE
  /\ pauses' = IF Reported(failure) THEN pauses \union {sent} ELSE pauses
  /\ TellQuota(failure)
  /\ SettleFailedRequest(failure, opened, led, message)

(* A cancellation leaves the retry loop; the deadline's becomes an error   *)
(* unless the caller cancelled as well.                                    *)
Escape(led) ==
  /\ permit' = FALSE
  /\ cancelling' = FALSE
  /\ \/ cancelledBy = {"deadline"} /\ FinishWith("timed_out_error", FrozenWithCutOff(led))
     \/ /\ "caller" \in cancelledBy
        /\ pc' = "finished"
        /\ outcome' = [NoEnding EXCEPT !.kind = "cancelled"]
        /\ ledger' = led
        /\ due' = NoExpiry
        /\ UNCHANGED <<deadline, secondsLeft>>

-----------------------------------------------------------------------------
Init ==
  /\ deadline \in Deadlines
  /\ due = IF deadline = "wall_clock" THEN Budget ELSE NoExpiry
  /\ secondsLeft = Budget
  /\ pc = "start"
  /\ cancelling = FALSE
  /\ cancelledBy = {}
  /\ attempt = NewAttempt
  /\ ledger = NewLedger
  /\ permit = FALSE
  /\ outcome = NoEnding
  /\ sent = 0
  /\ usage = {}
  /\ pauses = {}
  /\ told = {}
  /\ worked = 0

Resumes(await) == pc = await /\ ~cancelling

Begin ==
  /\ pc = "start"
  /\ \/ FinishWith("rejected_error", Frozen(ledger))  (* RejectedMessages *)
     \/ NextRequest(ledger)
  /\ UNCHANGED <<cancelling, cancelledBy, attempt, permit, ghostVars, worked>>

Admitted ==
  /\ Resumes("admission")
  /\ pc' = "opening"
  /\ permit' = TRUE
  /\ attempt' = NewAttempt
  /\ sent' = sent + 1
  /\ ledger' = StartRequest(ledger)
  /\ ResumeOnAdmission
  /\ UNCHANGED <<cancelling, cancelledBy, outcome, usage, pauses, told, worked>>

StreamOpens ==
  /\ Resumes("opening")
  /\ pc' = "streaming"
  /\ attempt' = [attempt EXCEPT !.opened = TRUE]
  /\ UNCHANGED <<deadlineVars, cancelling, cancelledBy, ledger, permit, outcome,
                 ghostVars, worked>>

OpenFails(failure) ==
  /\ Resumes("opening")
  /\ FailRequest(failure, FALSE, ledger, FALSE)
  /\ UNCHANGED <<cancelling, cancelledBy, attempt, sent, usage, worked>>

(* An event of the stream reports usage.                                   *)
UsageArrives ==
  /\ pc = "streaming"
  /\ sent \notin usage
  /\ usage' = usage \union {sent}
  /\ UNCHANGED <<deadlineVars, pc, cancelling, cancelledBy, attempt, ledger,
                 permit, outcome, sent, pauses, told, worked>>

BillingInFlight == IF sent \in usage THEN sent ELSE NoBilling

(* The stream is drained and final() returned the assembled response,      *)
(* whose usage is the last word.                                           *)
StreamCompletes ==
  /\ Resumes("streaming")
  /\ pc' = "closing"
  /\ attempt' = [attempt EXCEPT !.result = "complete"]
  /\ usage' = usage \union {sent}
  /\ UNCHANGED <<deadlineVars, cancelling, cancelledBy, ledger, permit, outcome,
                 sent, pauses, told, worked>>

(* items() or final() raises: the billing reported so far is noted.        *)
StreamFails(failure) ==
  /\ Resumes("streaming")
  /\ pc' = "closing"
  /\ attempt' = [attempt EXCEPT !.result = "failed", !.failure = failure]
  /\ ledger' = NoteBilling(ledger, BillingInFlight)
  /\ pauses' = IF Reported(failure) THEN pauses \union {sent} ELSE pauses
  /\ UNCHANGED <<deadlineVars, cancelling, cancelledBy, permit, outcome,
                 sent, usage, told, worked>>

StreamCancelled ==
  /\ pc = "streaming" /\ cancelling
  /\ pc' = "closing"
  /\ cancelling' = FALSE
  /\ attempt' = [attempt EXCEPT !.result = "cancelled"]
  /\ ledger' = NoteBilling(ledger, BillingInFlight)
  /\ UNCHANGED <<deadlineVars, cancelledBy, permit, outcome, ghostVars, worked>>

-----------------------------------------------------------------------------
(***************************************************************************)
(* The stream is closed, quietly when the close fails; the result it had   *)
(* then decides.                                                           *)
(***************************************************************************)
ResponseUsed(kind) ==
  /\ Resumes("closing") /\ attempt.result = "complete"
  /\ permit' = FALSE
  /\ FinishWith(kind, Frozen(RecordRequest(StageResponse(ledger, sent), FALSE, TRUE)))
  /\ UNCHANGED <<cancelling, cancelledBy, attempt, ghostVars, worked>>

(* A complete response reports a transient failure.                        *)
ResponseFailed(pausesQuota) ==
  /\ Resumes("closing") /\ attempt.result = "complete"
  /\ FailRequest([kind |-> "transient", pausesQuota |-> pausesQuota], TRUE,
                 StageResponse(ledger, sent), TRUE)
  /\ UNCHANGED <<cancelling, cancelledBy, attempt, sent, usage, worked>>

(* interpret, or reading the output, raises.                               *)
InterpretationFails(failure) ==
  /\ Resumes("closing") /\ attempt.result = "complete"
  /\ FailRequest(failure, TRUE, StageResponse(ledger, sent), FALSE)
  /\ UNCHANGED <<cancelling, cancelledBy, attempt, sent, usage, worked>>

StreamFailureSettles ==
  /\ Resumes("closing") /\ attempt.result = "failed"
  /\ FailRequest(attempt.failure, TRUE, ledger, FALSE)
  /\ UNCHANGED <<cancelling, cancelledBy, attempt, sent, usage, worked>>

CancelledStreamCloses ==
  /\ Resumes("closing") /\ attempt.result = "cancelled"
  /\ Escape(ledger)
  /\ UNCHANGED <<cancelledBy, attempt, ghostVars, worked>>

(* A cancellation at any other await leaves the loop at once.  During the  *)
(* close it replaces the result the stream had.                            *)
Cancelled ==
  /\ pc \in {"admission", "opening", "closing", "backoff"} /\ cancelling
  /\ Escape(ledger)
  /\ UNCHANGED <<cancelledBy, attempt, ghostVars, worked>>

BackoffEnds ==
  /\ Resumes("backoff")
  /\ NextRequest(ledger)
  /\ UNCHANGED <<cancelling, cancelledBy, attempt, permit, ghostVars, worked>>

CallerCancels ==
  /\ pc \in Awaits
  /\ cancelling' = TRUE
  /\ cancelledBy' = cancelledBy \union {"caller"}
  /\ UNCHANGED <<deadlineVars, pc, attempt, ledger, permit, outcome, ghostVars, worked>>

DeadlineExpires ==
  /\ pc \in Awaits
  /\ due = 0 /\ "deadline" \notin cancelledBy
  /\ cancelling' = TRUE
  /\ cancelledBy' = cancelledBy \union {"deadline"}
  /\ UNCHANGED <<deadlineVars, pc, attempt, ledger, permit, outcome, ghostVars, worked>>

(* Time passes, a due expiry first.  What counts against the budget is the *)
(* whole time for a wall-clock deadline and the time outside admission for *)
(* a working-time one; the count saturates.                                *)
Counts == deadline = "wall_clock" \/ (deadline = "working_time" /\ pc # "admission")

Tick ==
  /\ pc \in Awaits /\ cancelledBy = {} /\ due # 0
  /\ due' = IF due > 0 THEN due - 1 ELSE due
  /\ worked' = IF Counts /\ worked <= Budget THEN worked + 1 ELSE worked
  /\ UNCHANGED <<deadline, secondsLeft, pc, cancelling, cancelledBy, attempt,
                 ledger, permit, outcome, ghostVars>>

(* The caller has its outcome.                                             *)
Finished == pc = "finished" /\ UNCHANGED vars

Closed ==
  \/ \E kind \in Answers : ResponseUsed(kind)
  \/ \E pausesQuota \in BOOLEAN : ResponseFailed(pausesQuota)
  \/ \E failure \in Failures : InterpretationFails(failure)
  \/ StreamFailureSettles
  \/ CancelledStreamCloses

Next ==
  \/ Begin
  \/ Admitted
  \/ StreamOpens
  \/ \E failure \in Failures : OpenFails(failure) \/ StreamFails(failure)
  \/ UsageArrives
  \/ StreamCompletes
  \/ StreamCancelled
  \/ Closed
  \/ Cancelled
  \/ BackoffEnds
  \/ CallerCancels
  \/ DeadlineExpires
  \/ Tick
  \/ Finished

Spec == Init /\ [][Next]_vars

(* The loop runs, timers fire, SharedBackoff admits (its own property),    *)
(* and a stream's close returns.  The provider owes no answer.             *)
Fairness ==
  /\ WF_vars(Begin) /\ WF_vars(Admitted) /\ WF_vars(BackoffEnds)
  /\ WF_vars(StreamCancelled) /\ WF_vars(Closed) /\ WF_vars(Cancelled)
  /\ WF_vars(DeadlineExpires) /\ WF_vars(Tick)

FairSpec == Spec /\ Fairness

-----------------------------------------------------------------------------
Billings == 0..MaxRequests

TypeOK ==
  /\ deadline \in Deadlines
  /\ due \in NoExpiry..Budget
  /\ secondsLeft \in 0..Budget
  /\ pc \in Awaits \union {"start", "finished"}
  /\ cancelling \in BOOLEAN
  /\ cancelledBy \subseteq {"deadline", "caller"}
  /\ attempt \in Attempts
  /\ ledger \in Ledgers(Billings)
  /\ permit \in BOOLEAN
  /\ outcome.records \in Seq(RequestRecords(Billings))
  /\ sent \in 0..MaxRequests
  /\ worked \in 0..(Budget + 1)
  /\ usage \union pauses \union told \subseteq 1..MaxRequests

Recorded == outcome.kind \notin {"none", "cancelled"}

(***************************************************************************)
(* Whatever ends the input, its history has the shape that the validator   *)
(* of the outcome's record demands, and provider data for each record: no  *)
(* outcome is lost to a ValidationError while it is being built.           *)
(***************************************************************************)
OutcomeRecordIsAccepted ==
  Recorded =>
    /\ Accepted(outcome.kind, outcome.records)
    /\ Len(outcome.providerData) = Len(outcome.records)

(***************************************************************************)
(* Every request sent is in the outcome's history once: settled, or cut    *)
(* off at its end.  The exception is a final request whose stream never    *)
(* opened and whose error nobody could place.                              *)
(***************************************************************************)
EveryRequestIsAccounted ==
  Recorded =>
    Len(outcome.records) =
      IF outcome.kind = "unknown_exception_error" /\ ~attempt.opened
         /\ (outcome.records # <<>> => Final(outcome.records).error)
      THEN sent - 1 ELSE sent

(***************************************************************************)
(* A record's billing is that of its own request, and is there whenever    *)
(* the provider reported usage, for requests cut off in mid-stream too.    *)
(* Left out is the request whose complete response was being closed when   *)
(* the deadline cut it off.                                                *)
(***************************************************************************)
BillingOf(i) == IF i \in usage THEN i ELSE NoBilling

ResponseDroppedByClose(i) ==
  /\ i = sent /\ attempt.result = "complete"
  /\ outcome.kind = "timed_out_error"

UsageIsRetained ==
  Recorded =>
    \A i \in DOMAIN outcome.records :
      /\ ResponseDroppedByClose(i) \/ outcome.records[i].billing = BillingOf(i)
      /\ outcome.providerData[i] = outcome.records[i].billing

(***************************************************************************)
(* The request table tells what was paid for from what was paid in vain:   *)
(* one row is kept if the caller got a generation, the row of the response *)
(* it was read from, and none otherwise.  Each row has the usage and the   *)
(* raw usage of one request.                                               *)
(***************************************************************************)
KeptRowIsTheAnswer ==
  Recorded =>
    LET rows == RequestRows(outcome)
    IN /\ \A i \in DOMAIN rows : rows[i].usageRaw = rows[i].billing
       /\ \A i \in DOMAIN rows :
            rows[i].kept <=> /\ outcome.kind \notin {"unusable_error", "provider_failed_terminally_error"}
                             /\ attempt.result = "complete" /\ i = sent
                             /\ outcome.records[i].message /\ ~outcome.records[i].error

(***************************************************************************)
(* The history of an input, however it ends: it is one that its record     *)
(* accepts, with every request sent in it once, with the usage that each   *)
(* reported, and the row of the request that answered marked as kept.      *)
(***************************************************************************)
OutcomeTellsEveryRequest ==
  /\ TypeOK
  /\ OutcomeRecordIsAccepted /\ EveryRequestIsAccounted
  /\ UsageIsRetained /\ KeptRowIsTheAnswer

(***************************************************************************)
(* README.md: "Generation and GenerationError values retain                *)
(* provider-reported usage from every recorded request".                   *)
(***************************************************************************)
EveryRecordKeepsItsUsage ==
  Recorded =>
    \A i \in DOMAIN outcome.records : outcome.records[i].billing = BillingOf(i)

(***************************************************************************)
(* A permit never goes to the next request before the quota knows of the   *)
(* failures with pauses_quota, whatever kind of failure, and whether an    *)
(* exception or a response body carried it.                                *)
(* Only a cancellation may drop one, with the request it belongs to.       *)
(***************************************************************************)
QuotaHearsBeforeThePermitPasses ==
  ~permit /\ cancelledBy = {} => told = pauses

(***************************************************************************)
(* The budget counts all time under a wall-clock deadline, and the time    *)
(* outside admission, private backoff included, under a working-time one,  *)
(* summed over the requests: it expires exactly when it is used up.        *)
(***************************************************************************)
BudgetIsExact ==
  /\ worked <= Budget
  /\ "deadline" \in cancelledBy => worked = Budget

(***************************************************************************)
(* An input with a budget ends although its provider never answers.        *)
(***************************************************************************)
InputEnds == deadline # "none" => <>(pc = "finished")
=============================================================================
