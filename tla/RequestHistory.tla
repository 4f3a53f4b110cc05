--------------------------- MODULE RequestHistory ---------------------------
(***************************************************************************)
(* The ledger in which one input accumulates its requests, and the shapes  *)
(* that the record of each outcome demands of the frozen history.  Between *)
(* them, how a failed request is classified and settled.                   *)
(*                                                                         *)
(* A ledger is a value: BoundLLM and StreamHandle keep one per input.      *)
(* Requests are numbered as they are sent.  A billing is the number of the *)
(* request whose usage it reports, so that a billing credited to another   *)
(* request can be told from the right one.                                 *)
(***************************************************************************)
EXTENDS Integers, Sequences

NoBilling == 0

NewLedger ==
  [records |-> <<>>, providerData |-> <<>>,
   staged |-> NoBilling, inFlight |-> FALSE, noted |-> NoBilling]

RequestRecords(billings) ==
  [kind : {"settled", "cut_off"}, error : BOOLEAN, message : BOOLEAN, billing : billings]

Ledgers(billings) ==
  [records : Seq(RequestRecords(billings)), providerData : Seq(billings),
   staged : billings, inFlight : BOOLEAN, noted : billings]

StartRequest(ledger) == [ledger EXCEPT !.inFlight = TRUE]

NoteBilling(ledger, billing) == [ledger EXCEPT !.noted = billing]

StageResponse(ledger, billing) == [ledger EXCEPT !.staged = billing]

WithRecord(ledger, kind, error, message, billing) ==
  [ledger EXCEPT
     !.records = Append(@, [kind |-> kind, error |-> error,
                            message |-> message, billing |-> billing]),
     !.providerData = Append(@, billing)]

KnownBilling(ledger) ==
  IF ledger.staged # NoBilling THEN ledger.staged ELSE ledger.noted

RecordKeepingNotes(ledger, error, message) ==  (* mutant *)
  [WithRecord(ledger, "settled", error, message, KnownBilling(ledger))
     EXCEPT !.staged = NoBilling, !.inFlight = FALSE]

(* record_ending_at                                                        *)
RecordRequest(ledger, error, message) ==
  [WithRecord(ledger, "settled", error, message, KnownBilling(ledger))
     EXCEPT !.staged = NoBilling, !.inFlight = FALSE, !.noted = NoBilling]

(* freeze_ending_at: a response staged and never recorded is recorded now. *)
Frozen(ledger) ==
  IF ledger.staged # NoBilling THEN RecordRequest(ledger, FALSE, FALSE) ELSE ledger

CutOffWheneverInFlight(ledger) ==  (* mutant *)
  IF ledger.inFlight
  THEN WithRecord(Frozen(ledger), "cut_off", FALSE, FALSE, ledger.noted)
  ELSE Frozen(ledger)

(* freeze_with_cut_off                                                     *)
FrozenWithCutOff(ledger) ==
  IF ledger.inFlight /\ ledger.staged = NoBilling
  THEN WithRecord(ledger, "cut_off", FALSE, FALSE, ledger.noted)
  ELSE Frozen(ledger)

-----------------------------------------------------------------------------
(***************************************************************************)
(* A failure as its RequestFailure describes it; "defect" stands for an    *)
(* exception that the adapter's request_failure itself fails to place.     *)
(***************************************************************************)
AnsweredKinds == {"auth", "rejected", "provider_failed_terminally"}
Failures ==
  [kind : AnsweredKinds \union {"transient", "unknown_exception", "defect"},
   pausesQuota : BOOLEAN]

(* The failures that SharedBackoff is to be told of.                       *)
Reported(failure) == failure.kind # "defect" /\ failure.pausesQuota

TerminalKind(kind) ==
  CASE kind = "auth" -> "auth_error"
    [] kind = "rejected" -> "rejected_error"
    [] kind = "provider_failed_terminally" -> "provider_failed_terminally_error"
    [] kind = "unknown_exception" -> "unknown_exception_error"

SettledIfOpened(failure, opened, led) ==  (* mutant *)
  IF opened THEN RecordRequest(led, FALSE, FALSE) ELSE led

(* _terminal_generation_error settles a request the provider answered, or  *)
(* whose stream it opened.                                                 *)
SettledTerminally(failure, opened, led) ==
  IF failure.kind \in AnsweredKinds \/ opened
  THEN RecordRequest(led, FALSE, FALSE) ELSE led

(* What interpreting a complete response leads to.                         *)
Answers == {"generation", "unusable_error", "provider_failed_terminally_error"}

(* An input's ending as its caller gets it, with the frozen ledger's data. *)
Ending(kind, frozen) ==
  [kind |-> kind, records |-> frozen.records, providerData |-> frozen.providerData]

NoEnding == [kind |-> "none", records |-> <<>>, providerData |-> <<>>]

(* to_tables: a row for each request of an outcome or its record.  The     *)
(* last request of a generation is the one whose response it kept.         *)
RowsKeepingEveryEnding(ending) ==  (* mutant *)
  [i \in DOMAIN ending.records |->
     [billing |-> ending.records[i].billing, usageRaw |-> ending.providerData[i],
      kept |-> i = Len(ending.records)]]

RequestRows(ending) ==
  [i \in DOMAIN ending.records |->
     [billing |-> ending.records[i].billing, usageRaw |-> ending.providerData[i],
      kept |-> ending.kind = "generation" /\ i = Len(ending.records)]]

-----------------------------------------------------------------------------
(***************************************************************************)
(* What each outcome's record demands of its history.                      *)
(***************************************************************************)
AllButLast(records) == SubSeq(records, 1, Len(records) - 1)

Final(records) == records[Len(records)]

AllFailed(records) ==
  \A i \in DOMAIN records : records[i].kind = "settled" /\ records[i].error

(* RequestHistory's own validator.                                         *)
CutOffOnlyLast(records) ==
  \A i \in DOMAIN records : records[i].kind = "cut_off" => i = Len(records)

(* _require_retry_failures                                                 *)
RetryFailures(records) == records # <<>> /\ AllFailed(records)

(* _require_finished_assistant_message                                     *)
FinishedMessage(records) ==
  /\ records # <<>>
  /\ AllFailed(AllButLast(records))
  /\ Final(records).kind = "settled"
  /\ ~Final(records).error
  /\ Final(records).billing # NoBilling
  /\ Final(records).message

(* _require_final_terminal_response                                        *)
FinalTerminalResponse(records) ==
  /\ records # <<>>
  /\ AllFailed(AllButLast(records))
  /\ Final(records).kind = "settled"
  /\ ~Final(records).error
  /\ ~Final(records).message

(* _require_abandoned_shape                                                *)
AbandonedShape(records) ==
  records # <<>> =>
    /\ AllFailed(AllButLast(records))
    /\ Final(records).kind = "settled" /\ ~Final(records).error => ~Final(records).message

(* The validators of the outcome records, by kind.                         *)
Accepted(kind, records) ==
  /\ CutOffOnlyLast(records)
  /\ CASE kind \in {"generation", "unusable_error"} -> FinishedMessage(records)
       [] kind \in {"retries_exhausted_error", "retry_unavailable_error"} ->
            RetryFailures(records)
       [] kind = "provider_failed_terminally_error" ->
            FinishedMessage(records) \/ FinalTerminalResponse(records)
       [] kind = "auth_error" -> FinalTerminalResponse(records)
       [] kind = "rejected_error" -> records = <<>> \/ FinalTerminalResponse(records)
       [] kind \in {"timed_out_error", "abandoned_stream"} -> AbandonedShape(records)
       [] kind = "unknown_exception_error" -> TRUE
=============================================================================
