----------------------------- MODULE StreamHandle -----------------------------
(***************************************************************************)
(* A StreamHandle and the application inside its async with block.         *)
(*                                                                         *)
(* A step runs from one await to the next, and the application's own code  *)
(* counts as an await: there, too, the expiry of timeout_seconds and the   *)
(* caller's cancellation reach it.  The application may iterate, ask for   *)
(* final, leave the block at any point and, if Swallows, catch a           *)
(* CancelledError and go on.  How an input's requests are recorded is      *)
(* RequestHistory.                                                         *)
(***************************************************************************)
EXTENDS Integers, Sequences, RequestHistory

CONSTANTS
  MaxRequests,  (* max_requests                                            *)
  Swallows      (* the application catches CancelledError and goes on      *)

ASSUME RequestsAssumption == MaxRequests \in Nat \ {0}
ASSUME SwallowsAssumption == Swallows \in BOOLEAN

VARIABLES
  pc,          (* where the task is, see Places                            *)
  cancelling,  (* a cancellation the task has not received yet             *)
  callerCancelled,
               (* the caller has cancelled the task                        *)
  scope,       (* _timeout_scope: "unlimited", "open", "expired", "closed" *)
  unwinding,   (* a CancelledError is leaving the block                    *)
  state,       (* _state                                                   *)
  stream,      (* _adapter_stream is not None                              *)
  drained,     (* _ended_at_monotonic_seconds is not None                  *)
  admission,   (* _admission is not None                                   *)
  operation,   (* _operation is not None                                   *)
  ledger,      (* _ledger                                                  *)
  pending,     (* the error that _error_after_stream_failure will return   *)
  outcome,     (* _outcome                                                 *)
  abandoned,   (* abandoned                                                *)
  raised,      (* the GenerationError with which entry or exit ends        *)
  permits,     (* permits of SharedBackoff taken and not returned          *)
  observed,    (* endings the operation was concluded with                 *)
  ends,        (* how often the operation was ended                        *)
  sent,        (* how many requests were sent                              *)
  usage,       (* requests whose usage the provider has reported           *)
  pauses,      (* requests that failed with pauses_quota                   *)
  told         (* requests whose pausing failure SharedBackoff was told of *)

taskVars == <<cancelling, callerCancelled>>
permitVars == <<admission, permits>>
operationVars == <<operation, observed, ends>>
quotaVars == <<pauses, told>>
endingVars == <<pending, outcome, abandoned, raised>>
vars == <<pc, taskVars, scope, unwinding, state, stream, drained, permitVars,
          operationVars, ledger, endingVars, sent, usage, quotaVars>>

(***************************************************************************)
(* "block" is the application's code; "item" and "draining" read an item   *)
(* for the application and for final; "settling" closes a stream that      *)
(* failed; "closing" and "closing_timed_out" close the stream at the exit. *)
(* The block ends "finished" or, with a CancelledError, "cancelled"; one   *)
(* that reached the close of a stream that had timed out is told apart as  *)
(* "cancelled_timed_out", for the properties only.                         *)
(***************************************************************************)
Entering == {"admission", "opening", "backoff"}
Inside == {"block", "item", "draining", "assembling", "settling"}
Closing == {"closing", "closing_timed_out"}
Cancelled == {"cancelled", "cancelled_timed_out"}
Left == {"finished"} \union Cancelled
Places == {"unopened"} \union Entering \union Inside \union Closing \union Left

BillingInFlight == IF sent \in usage THEN sent ELSE NoBilling

-----------------------------------------------------------------------------
(***************************************************************************)
(* What several steps share.                                               *)
(***************************************************************************)
ExitAdmission ==
  \/ admission /\ admission' = FALSE /\ permits' = permits - 1
  \/ ~admission /\ UNCHANGED permitVars

EndAgain(endings) ==  (* mutant: the operation is not forgotten *)
  /\ ends' = ends + 1
  /\ observed' = observed \o endings
  /\ UNCHANGED operation

(* Conclude with the endings given, at most one, and end, once.            *)
EndOperation(endings) ==
  \/ /\ operation
     /\ operation' = FALSE
     /\ ends' = ends + 1
     /\ observed' = observed \o endings
  \/ ~operation /\ UNCHANGED operationVars

(* The scope turns its own cancellation into TimeoutError, unless the      *)
(* caller cancelled as well.                                               *)
TimedOut(cancelled) == scope = "expired" /\ cancelled /\ ~callerCancelled

AbandonAlways(led) ==  (* mutant: whatever outcome is stored *)
  /\ abandoned' = Ending("abandoned_stream", FrozenWithCutOff(led))
  /\ ledger' = FrozenWithCutOff(led)
  /\ EndOperation(<<"abandoned_stream">>)
  /\ UNCHANGED <<pending, outcome, raised>>

Abandon(led) ==
  \/ /\ outcome = NoEnding
     /\ abandoned' = Ending("abandoned_stream", FrozenWithCutOff(led))
     /\ ledger' = FrozenWithCutOff(led)
     /\ EndOperation(<<"abandoned_stream">>)
     /\ UNCHANGED <<pending, outcome, raised>>
  \/ /\ outcome # NoEnding
     /\ ledger' = led
     /\ EndOperation(<< >>)
     /\ UNCHANGED endingVars

Raise(kind, frozen) ==
  /\ raised' = Ending(kind, frozen)
  /\ ledger' = frozen
  /\ EndOperation(<<kind>>)
  /\ UNCHANGED <<pending, outcome, abandoned>>

(* The block goes on with a stored outcome, and without a timeout.         *)
StoreOutcome(kind, frozen) ==
  /\ pc' = "block"
  /\ scope' = "closed"
  /\ outcome' = Ending(kind, frozen)
  /\ ledger' = frozen
  /\ EndOperation(<<kind>>)
  /\ UNCHANGED <<pending, abandoned, raised>>

TellWhileAdmitted(failure) ==  (* mutant: reports only through the admission *)
  /\ pauses' = IF Reported(failure) THEN pauses \union {sent} ELSE pauses
  /\ told' = IF Reported(failure) /\ admission THEN told \union {sent} ELSE told

TellQuota(failure) ==
  /\ pauses' = IF Reported(failure) THEN pauses \union {sent} ELSE pauses
  /\ told' = IF Reported(failure) THEN told \union {sent} ELSE told

-----------------------------------------------------------------------------
Init ==
  /\ pc = "unopened" /\ state = "unopened"
  /\ cancelling = FALSE /\ callerCancelled = FALSE
  /\ scope \in {"unlimited", "open"}
  /\ unwinding = FALSE
  /\ stream = FALSE /\ drained = FALSE
  /\ admission = FALSE /\ permits = 0
  /\ operation = FALSE /\ observed = << >> /\ ends = 0
  /\ ledger = NewLedger
  /\ pending = NoEnding /\ outcome = NoEnding /\ abandoned = NoEnding /\ raised = NoEnding
  /\ sent = 0 /\ usage = {} /\ pauses = {} /\ told = {}

(***************************************************************************)
(* Entry.                                                                  *)
(***************************************************************************)
Resumes(place) == pc = place /\ ~cancelling

FailEntry(kind, frozen) ==
  /\ pc' = "finished" /\ state' = "finished" /\ scope' = "closed"
  /\ Raise(kind, frozen)

(* The messages may be rejected before any request.                        *)
Enter ==
  /\ pc = "unopened" /\ state = "unopened"
  /\ \/ /\ pc' = "admission" /\ state' = "open"
        /\ operation' = TRUE
        /\ UNCHANGED <<scope, ledger, endingVars, observed, ends>>
     \/ /\ pc' = "finished" /\ state' = "finished" /\ scope' = "closed"
        /\ raised' = Ending("rejected_error", Frozen(ledger))
        /\ observed' = <<"rejected_error">> /\ ends' = 1
        /\ UNCHANGED <<operation, ledger, pending, outcome, abandoned>>
  /\ UNCHANGED <<taskVars, unwinding, stream, drained, permitVars, sent, usage, quotaVars>>

Admitted ==
  /\ Resumes("admission")
  /\ pc' = "opening"
  /\ admission' = TRUE /\ permits' = permits + 1
  /\ sent' = sent + 1
  /\ ledger' = StartRequest(ledger)
  /\ UNCHANGED <<taskVars, scope, unwinding, state, stream, drained, operationVars,
                 endingVars, usage, quotaVars>>

StreamOpensEndingTimeout ==  (* mutant: the timeout covers the entry only *)
  /\ Resumes("opening")
  /\ pc' = "block" /\ stream' = TRUE /\ scope' = "closed"
  /\ UNCHANGED <<taskVars, unwinding, state, drained, permitVars, operationVars,
                 ledger, endingVars, sent, usage, quotaVars>>

StreamOpens ==
  /\ Resumes("opening")
  /\ pc' = "block" /\ stream' = TRUE
  /\ UNCHANGED <<taskVars, scope, unwinding, state, drained, permitVars, operationVars,
                 ledger, endingVars, sent, usage, quotaVars>>

(* A failure that pauses the quota waits in the queue, another one backs   *)
(* off by itself; the last request exhausts the retries.                   *)
RetryOrExhaust(failure, led) ==
  \/ Len(led.records) >= MaxRequests /\ FailEntry("retries_exhausted_error", Frozen(led))
  \/ /\ Len(led.records) < MaxRequests
     /\ pc' = IF failure.pausesQuota THEN "admission" ELSE "backoff"
     /\ ledger' = led
     /\ UNCHANGED <<state, scope, operationVars, endingVars>>

OpenFails(failure) ==
  /\ Resumes("opening")
  /\ TellQuota(failure)
  /\ ExitAdmission
  /\ \/ /\ failure.kind = "defect"
        /\ FailEntry("unknown_exception_error", FrozenWithCutOff(ledger))
     \/ /\ failure.kind \in AnsweredKinds \union {"unknown_exception"}
        /\ FailEntry(TerminalKind(failure.kind),
                     Frozen(SettledTerminally(failure, FALSE, ledger)))
     \/ failure.kind = "transient" /\ RetryOrExhaust(failure, RecordRequest(ledger, TRUE, FALSE))
  /\ UNCHANGED <<taskVars, unwinding, stream, drained, sent, usage>>

BackoffEnds ==
  /\ Resumes("backoff")
  /\ pc' = "admission"
  /\ UNCHANGED <<taskVars, scope, unwinding, state, stream, drained, permitVars,
                 operationVars, ledger, endingVars, sent, usage, quotaVars>>

EntryCancelledSilently ==  (* mutant: an entry that is cancelled records nothing *)
  /\ pc \in Entering /\ cancelling
  /\ cancelling' = FALSE
  /\ state' = "finished" /\ scope' = "closed"
  /\ ExitAdmission
  /\ \/ /\ TimedOut(TRUE)
        /\ pc' = "finished"
        /\ Raise("timed_out_error", FrozenWithCutOff(ledger))
     \/ /\ ~TimedOut(TRUE)
        /\ pc' = "cancelled"
        /\ EndOperation(<< >>) /\ UNCHANGED <<ledger, endingVars>>
  /\ UNCHANGED <<callerCancelled, unwinding, stream, drained, sent, usage, quotaVars>>

EntryCancelled ==
  /\ pc \in Entering /\ cancelling
  /\ cancelling' = FALSE
  /\ state' = "finished" /\ scope' = "closed"
  /\ ExitAdmission
  /\ \/ /\ TimedOut(TRUE)
        /\ pc' = "finished"
        /\ Raise("timed_out_error", FrozenWithCutOff(ledger))
     \/ /\ ~TimedOut(TRUE)
        /\ pc' = "cancelled"
        /\ Abandon(ledger)
  /\ UNCHANGED <<callerCancelled, unwinding, stream, drained, sent, usage, quotaVars>>

-----------------------------------------------------------------------------
(***************************************************************************)
(* The block.  An application that propagates a CancelledError awaits      *)
(* nothing of the handle any more, unless it swallows it.                  *)
(***************************************************************************)
MayCall == Resumes("block") /\ state = "open" /\ (unwinding => Swallows)

CallNext ==
  /\ MayCall
  /\ ~drained                                     (* else StopAsyncIteration *)
  /\ pc' = "item"
  /\ UNCHANGED <<taskVars, scope, unwinding, state, stream, drained, permitVars,
                 operationVars, ledger, endingVars, sent, usage, quotaVars>>

CallFinalAgain ==  (* mutant: assembles whatever outcome is stored *)
  /\ MayCall
  /\ pc' = IF drained THEN "assembling" ELSE "draining"
  /\ UNCHANGED <<taskVars, scope, unwinding, state, stream, drained, permitVars,
                 operationVars, ledger, endingVars, sent, usage, quotaVars>>

CallFinal ==
  /\ MayCall
  /\ outcome = NoEnding                      (* else the stored outcome again *)
  /\ pc' = IF drained THEN "assembling" ELSE "draining"
  /\ UNCHANGED <<taskVars, scope, unwinding, state, stream, drained, permitVars,
                 operationVars, ledger, endingVars, sent, usage, quotaVars>>

ItemArrives ==
  /\ Resumes("item")
  /\ pc' = "block"
  /\ UNCHANGED <<taskVars, scope, unwinding, state, stream, drained, permitVars,
                 operationVars, ledger, endingVars, sent, usage, quotaVars>>

(* An event of the stream reports usage.                                   *)
UsageArrives ==
  /\ pc \in {"item", "draining"}
  /\ sent \notin usage
  /\ usage' = usage \union {sent}
  /\ UNCHANGED <<pc, taskVars, scope, unwinding, state, stream, drained, permitVars,
                 operationVars, ledger, endingVars, sent, quotaVars>>

ExhaustedKeepingPermit ==  (* mutant: the permit waits for the close *)
  /\ Resumes("item") \/ Resumes("draining")
  /\ pc' = IF pc = "item" THEN "block" ELSE "assembling"
  /\ drained' = TRUE
  /\ usage' = usage \union {sent}
  /\ UNCHANGED <<taskVars, scope, unwinding, state, stream, permitVars, operationVars,
                 ledger, endingVars, sent, quotaVars>>

(* The last event was read; its usage is the last word.                    *)
Exhausted ==
  /\ Resumes("item") \/ Resumes("draining")
  /\ pc' = IF pc = "item" THEN "block" ELSE "assembling"
  /\ drained' = TRUE
  /\ usage' = usage \union {sent}
  /\ ExitAdmission
  /\ UNCHANGED <<taskVars, scope, unwinding, state, stream, operationVars,
                 ledger, endingVars, sent, quotaVars>>

(***************************************************************************)
(* Failures of an open stream.  An exception that request_failure cannot   *)
(* place becomes the outcome at once and leaves the stream to the exit;    *)
(* any other settles the request, then closes the stream, then becomes the *)
(* outcome.  Assembly may fail before or after the response was staged.    *)
(***************************************************************************)
SettledFailure(failure, led) ==
  IF failure.kind = "transient"
  THEN Ending("retry_unavailable_error", Frozen(RecordRequest(led, TRUE, FALSE)))
  ELSE Ending(TerminalKind(failure.kind), Frozen(SettledTerminally(failure, TRUE, led)))

FailStream(failure, led) ==
  /\ state' = "finished"
  /\ TellQuota(failure)
  /\ ExitAdmission
  /\ \/ /\ failure.kind = "defect"
        /\ StoreOutcome("unknown_exception_error", FrozenWithCutOff(led))
        /\ UNCHANGED stream
     \/ /\ failure.kind # "defect"
        /\ pc' = "settling" /\ stream' = FALSE
        /\ pending' = SettledFailure(failure, led)
        /\ ledger' = RecordRequest(led, failure.kind = "transient", FALSE)
        /\ UNCHANGED <<scope, operationVars, outcome, abandoned, raised>>
  /\ UNCHANGED <<taskVars, unwinding, drained, sent, usage>>

IterationFails(failure) ==
  /\ Resumes("item") \/ Resumes("draining")
  /\ FailStream(failure, NoteBilling(ledger, BillingInFlight))

AssemblyFails(failure) ==
  /\ Resumes("assembling")
  /\ \E led \in {ledger, StageResponse(ledger, sent)} :
       FailStream(failure, NoteBilling(led, BillingInFlight))

FailedStreamCloses ==
  /\ Resumes("settling")
  /\ pc' = "block" /\ scope' = "closed"
  /\ outcome' = pending
  /\ pending' = NoEnding
  /\ EndOperation(<<pending.kind>>)
  /\ UNCHANGED <<taskVars, unwinding, state, stream, drained, permitVars, ledger,
                 abandoned, raised, sent, usage, quotaVars>>

(***************************************************************************)
(* The response is assembled and recorded: it is used, or it reports a     *)
(* transient failure, or building its outcome raises.                      *)
(***************************************************************************)
ResponseRecorded(error) == RecordRequest(StageResponse(ledger, sent), error, TRUE)

Assembled(kind) ==
  /\ Resumes("assembling")
  /\ StoreOutcome(kind, Frozen(ResponseRecorded(FALSE)))
  /\ UNCHANGED <<taskVars, unwinding, state, stream, drained, permitVars, sent, usage,
                 quotaVars>>

AssembledFailure(pausesQuota) ==
  /\ Resumes("assembling")
  /\ TellQuota([kind |-> "transient", pausesQuota |-> pausesQuota])
  /\ StoreOutcome("retry_unavailable_error", Frozen(ResponseRecorded(TRUE)))
  /\ UNCHANGED <<taskVars, unwinding, state, stream, drained, permitVars, sent, usage>>

(* A CancelledError inside the block.  Iteration finishes the handle and   *)
(* returns the permit; an error pending in a close is lost.                *)
CancelReachesBlock ==
  /\ pc \in Inside /\ cancelling
  /\ pc' = "block" /\ cancelling' = FALSE /\ unwinding' = TRUE
  /\ pending' = NoEnding
  /\ \/ pc \in {"item", "draining"} /\ state' = "finished" /\ ExitAdmission
     \/ pc \notin {"item", "draining"} /\ UNCHANGED <<state, permitVars>>
  /\ UNCHANGED <<callerCancelled, scope, stream, drained, operationVars, ledger,
                 outcome, abandoned, raised, sent, usage, quotaVars>>

Swallow ==
  /\ Swallows
  /\ Resumes("block") /\ unwinding
  /\ unwinding' = FALSE
  /\ UNCHANGED <<pc, taskVars, scope, state, stream, drained, permitVars,
                 operationVars, ledger, endingVars, sent, usage, quotaVars>>

-----------------------------------------------------------------------------
(***************************************************************************)
(* Exit.                                                                   *)
(***************************************************************************)
ForgottenBilling == ledger  (* mutant: the close comes before the note *)

ClosingLedger == IF stream THEN NoteBilling(ledger, BillingInFlight) ELSE ledger

CloseEnds(timedOut) ==
  /\ ExitAdmission
  /\ \/ timedOut /\ pc' = "finished" /\ Raise("timed_out_error", FrozenWithCutOff(ledger))
     \/ /\ ~timedOut
        /\ pc' = IF unwinding THEN "cancelled" ELSE "finished"
        /\ Abandon(ledger)

LeaveBlock ==
  /\ Resumes("block")
  /\ state' = "finished" /\ scope' = "closed"
  /\ \/ /\ stream
        /\ pc' = IF TimedOut(unwinding) THEN "closing_timed_out" ELSE "closing"
        /\ stream' = FALSE
        /\ ledger' = ClosingLedger
        /\ UNCHANGED <<permitVars, operationVars, endingVars>>
     \/ ~stream /\ CloseEnds(TimedOut(unwinding)) /\ UNCHANGED stream
  /\ UNCHANGED <<taskVars, unwinding, drained, sent, usage, quotaVars>>

ExitCloses ==
  /\ pc \in Closing /\ ~cancelling
  /\ CloseEnds(pc = "closing_timed_out")
  /\ UNCHANGED <<taskVars, scope, unwinding, state, stream, drained, sent, usage, quotaVars>>

CloseCancelledSilently ==  (* mutant: _abandon only after a close that returned *)
  /\ pc \in Closing /\ cancelling
  /\ cancelling' = FALSE
  /\ ExitAdmission
  /\ pc' = IF pc = "closing" THEN "cancelled" ELSE "cancelled_timed_out"
  /\ EndOperation(<< >>) /\ UNCHANGED <<ledger, endingVars>>
  /\ UNCHANGED <<callerCancelled, scope, unwinding, state, stream, drained, sent,
                 usage, quotaVars>>

(* The caller cancels the close; a timeout's error is not built any more.  *)
ExitCloseCancelled ==
  /\ pc \in Closing /\ cancelling
  /\ cancelling' = FALSE
  /\ ExitAdmission
  /\ \/ pc = "closing" /\ pc' = "cancelled" /\ Abandon(ledger)
     \/ /\ pc = "closing_timed_out" /\ pc' = "cancelled_timed_out"
        /\ EndOperation(<< >>) /\ UNCHANGED <<ledger, endingVars>>
  /\ UNCHANGED <<callerCancelled, scope, unwinding, state, stream, drained, sent,
                 usage, quotaVars>>

CallerCancels ==
  /\ pc \in Entering \union Inside \union Closing
  /\ cancelling' = TRUE /\ callerCancelled' = TRUE
  /\ UNCHANGED <<pc, scope, unwinding, state, stream, drained, permitVars,
                 operationVars, ledger, endingVars, sent, usage, quotaVars>>

TimeoutExpires ==
  /\ pc \in Entering \union Inside
  /\ scope = "open"
  /\ scope' = "expired" /\ cancelling' = TRUE
  /\ UNCHANGED <<pc, callerCancelled, unwinding, state, stream, drained, permitVars,
                 operationVars, ledger, endingVars, sent, usage, quotaVars>>

(* The block was left; entering the handle again is refused.               *)
Finished == pc \in Left /\ UNCHANGED vars

Next ==
  \/ Enter \/ Admitted \/ StreamOpens \/ BackoffEnds \/ EntryCancelled
  \/ CallNext \/ CallFinal \/ ItemArrives \/ UsageArrives \/ Exhausted
  \/ \E failure \in Failures :
       OpenFails(failure) \/ IterationFails(failure) \/ AssemblyFails(failure)
  \/ FailedStreamCloses
  \/ \E kind \in Answers \union {"unknown_exception_error"} : Assembled(kind)
  \/ \E pausesQuota \in BOOLEAN : AssembledFailure(pausesQuota)
  \/ CancelReachesBlock \/ Swallow
  \/ LeaveBlock \/ ExitCloses \/ ExitCloseCancelled
  \/ CallerCancels \/ TimeoutExpires \/ Finished

Spec == Init /\ [][Next]_vars

(* The event loop delivers cancellations and timeouts, SharedBackoff       *)
(* admits, a close returns, and an application that propagates a           *)
(* CancelledError leaves the block, however often it is cancelled again.   *)
(* Neither the provider nor the application owes anything else.            *)
Fairness ==
  /\ WF_vars(Admitted) /\ WF_vars(BackoffEnds) /\ WF_vars(EntryCancelled)
  /\ WF_vars(FailedStreamCloses) /\ WF_vars(CancelReachesBlock)
  /\ SF_vars(LeaveBlock /\ unwinding)
  /\ WF_vars(ExitCloses) /\ WF_vars(ExitCloseCancelled) /\ WF_vars(TimeoutExpires)

FairSpec == Spec /\ Fairness

-----------------------------------------------------------------------------
Billings == 0..MaxRequests

TypeOK ==
  /\ pc \in Places
  /\ state \in {"unopened", "open", "finished"}
  /\ scope \in {"unlimited", "open", "expired", "closed"}
  /\ {cancelling, callerCancelled, unwinding, stream, drained, admission, operation}
       \subseteq BOOLEAN
  /\ permits \in 0..1 /\ ends \in 0..1
  /\ ledger \in Ledgers(Billings)
  /\ \A ending \in {pending, outcome, abandoned, raised} :
       ending.records \in Seq(RequestRecords(Billings))
  /\ sent \in 0..MaxRequests
  /\ usage \union pauses \union told \subseteq 1..sent

Endings == {outcome, abandoned, raised} \ {NoEnding}

(***************************************************************************)
(* The permit is out exactly while a request opens or its stream is read:  *)
(* never while the handle waits to be admitted or to retry, nor after the  *)
(* stream was drained, failed or was left, nor twice.                      *)
(***************************************************************************)
Reading == pc \in {"item", "draining"} \/ (pc = "block" /\ state = "open" /\ ~drained)

PermitFollowsTheStream ==
  permits = IF pc = "opening" \/ Reading \/ (pc \in Closing /\ admission) THEN 1 ELSE 0

(***************************************************************************)
(* A handle that was entered and left has one ending: an outcome that      *)
(* final returned or stored, an abandoned record, or the error that left   *)
(* the block.  No order of calls, failures, timeout and cancellation       *)
(* produces two of them, and none leaves without: neither a cancelled      *)
(* entry nor a cancelled close of a stream that was left or had failed.    *)
(* The one exception is a caller's cancellation that reaches the close of  *)
(* a stream whose timeout has expired, see CancellationLeavesARecord.      *)
(***************************************************************************)
OneEnding ==
  /\ outcome # NoEnding => abandoned = NoEnding /\ raised = NoEnding
  /\ abandoned # NoEnding => raised = NoEnding
  /\ pc \in Left \ {"cancelled_timed_out"} => Endings # {}

(***************************************************************************)
(* abandoned: "Cancellation sets it before the caller receives             *)
(* asyncio.CancelledError", for a handle without a stored outcome.         *)
(***************************************************************************)
CancellationLeavesARecord ==
  pc \in Cancelled => outcome # NoEnding \/ abandoned # NoEnding

(***************************************************************************)
(* The observer hears the ending the caller gets, and hears it once,       *)
(* whichever of final, iteration, entry and exit brought it about.         *)
(***************************************************************************)
ObserverLearnsTheEnding ==
  /\ Endings # {} => observed = << (CHOOSE ending \in Endings : TRUE).kind >>
  /\ Endings = {} => observed = << >>
  /\ pc \in Left => ends = 1 /\ ~operation

(***************************************************************************)
(* Whatever ends the input, its history has the shape that the validator   *)
(* of that ending's record demands.                                        *)
(***************************************************************************)
EndingRecordIsAccepted ==
  \A ending \in Endings :
    /\ Accepted(ending.kind, ending.records)
    /\ Len(ending.providerData) = Len(ending.records)

(***************************************************************************)
(* Every request sent is in the ending's history once.  The exception is   *)
(* a request whose stream never opened and whose error nobody could place. *)
(***************************************************************************)
NeverOpened(ending) ==
  /\ ending.kind = "unknown_exception_error"
  /\ ending.records # << >> => Final(ending.records).error

EveryRequestIsAccounted ==
  \A ending \in Endings :
    Len(ending.records) = IF ending = raised /\ NeverOpened(ending) THEN sent - 1 ELSE sent

(***************************************************************************)
(* Each record has the billing of its own request whenever the provider    *)
(* reported it, for a stream abandoned or timed out at any point as well.  *)
(***************************************************************************)
UsageIsRetained ==
  \A ending \in Endings : \A i \in DOMAIN ending.records :
    ending.records[i].billing = IF i \in usage THEN i ELSE NoBilling

(***************************************************************************)
(* SharedBackoff is told of every failure with pauses_quota, also when it  *)
(* is found after the permit was returned, and although the caller cancels *)
(* before the failed stream is closed.                                     *)
(***************************************************************************)
QuotaHearsEveryFailure == told = pauses

(* The history of a stream call, however its block is left: it is one that *)
(* its record accepts, with every request in it once and the usage that    *)
(* each reported; and the quota hears of each failure that pauses it       *)
(* before the permit passes on.                                            *)
RequestsAreAccounted ==
  /\ TypeOK
  /\ EndingRecordIsAccepted /\ EveryRequestIsAccounted
  /\ UsageIsRetained /\ QuotaHearsEveryFailure

(***************************************************************************)
(* A stored outcome is final: later calls of final, iteration and the exit *)
(* neither replace it nor add requests.                                    *)
(***************************************************************************)
OutcomeIsKept == [][outcome # NoEnding => outcome' = outcome /\ sent' = sent]_vars

(* The application goes on in the block, or awaits the handle again, after *)
(* the timeout has cancelled it.                                           *)
TimeoutSwallowed ==
  /\ pc \in Inside /\ scope = "expired" /\ ~cancelling
  /\ pc = "block" => ~unwinding

(***************************************************************************)
(* With timeout_seconds an entered input comes to an outcome, or the block *)
(* is left, although the provider never answers, unless the application    *)
(* swallows the timeout.                                                   *)
(***************************************************************************)
TimedInputEnds ==
  (pc # "unopened" /\ scope = "open") ~>
    (outcome # NoEnding \/ pc \in Left \/ TimeoutSwallowed)
=============================================================================
