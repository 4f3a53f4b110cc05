------------------------ MODULE RequestHistoryProofs ------------------------
(***************************************************************************)
(* What the ledger of one input holds and what its records look like, for  *)
(* the proofs about its two users, RequestLoop and StreamHandle.  They use *)
(* one type of billing each, which is a parameter here.                    *)
(***************************************************************************)
EXTENDS RequestHistory, SequenceTheorems, TLAPS

Usage(i, reported) == IF i \in reported THEN i ELSE NoBilling

(* A ledger holds n requests, all failed, each with the usage it reported. *)
Settled(led, n, reported, billings) ==
  /\ led \in Ledgers(billings)
  /\ Len(led.records) = n /\ Len(led.providerData) = n
  /\ \A i \in 1..n :
       /\ led.records[i].kind = "settled" /\ led.records[i].error
       /\ led.records[i].billing = Usage(i, reported)
       /\ led.providerData[i] = Usage(i, reported)

(* Nothing of a request that is over is left in the ledger's fields.       *)
AtRest(led) == led.staged = NoBilling /\ ~led.inFlight /\ led.noted = NoBilling

Record(kind, error, message, billing) ==
  [kind |-> kind, error |-> error, message |-> message, billing |-> billing]

(* A ledger has one record more than another and is the same up to it.     *)
Extends(new, led, record, billings) ==
  /\ new \in Ledgers(billings)
  /\ Len(new.records) = Len(led.records) + 1
  /\ Len(new.providerData) = Len(led.providerData) + 1
  /\ new.records[Len(led.records) + 1] = record
  /\ new.providerData[Len(led.providerData) + 1] = record.billing
  /\ \A i \in 1..Len(led.records) : new.records[i] = led.records[i]
  /\ \A i \in 1..Len(led.providerData) : new.providerData[i] = led.providerData[i]

-----------------------------------------------------------------------------
(***************************************************************************)
(* The ledger's operations.                                                *)
(***************************************************************************)
LEMMA RecordIsAdded ==
  ASSUME NEW billings, NEW led \in Ledgers(billings), NEW kind \in {"settled", "cut_off"},
         NEW error \in BOOLEAN, NEW message \in BOOLEAN, NEW billing \in billings
  PROVE  /\ Extends(WithRecord(led, kind, error, message, billing), led,
                    Record(kind, error, message, billing), billings)
         /\ WithRecord(led, kind, error, message, billing).staged = led.staged
<1> DEFINE record == Record(kind, error, message, billing)
           new == WithRecord(led, kind, error, message, billing)
<1>1. record \in RequestRecords(billings)
  BY DEF Record, RequestRecords
<1>2. /\ new.records = Append(led.records, record)
      /\ new.providerData = Append(led.providerData, billing)
      /\ new.staged = led.staged /\ new.inFlight = led.inFlight /\ new.noted = led.noted
      /\ new \in [records : {new.records}, providerData : {new.providerData},
                  staged : billings, inFlight : BOOLEAN, noted : billings]
  BY DEF Record, WithRecord, Ledgers
<1>3. led.records \in Seq(RequestRecords(billings)) /\ led.providerData \in Seq(billings)
  BY DEF Ledgers
<1>4. /\ new.records \in Seq(RequestRecords(billings))
      /\ Len(new.records) = Len(led.records) + 1
      /\ new.records[Len(led.records) + 1] = record
      /\ \A i \in 1..Len(led.records) : new.records[i] = led.records[i]
  BY <1>1, <1>2, <1>3, AppendProperties
<1>5. /\ new.providerData \in Seq(billings)
      /\ Len(new.providerData) = Len(led.providerData) + 1
      /\ new.providerData[Len(led.providerData) + 1] = billing
      /\ \A i \in 1..Len(led.providerData) : new.providerData[i] = led.providerData[i]
  BY <1>2, <1>3, AppendProperties
<1>6. new \in Ledgers(billings)
  BY <1>2, <1>4, <1>5 DEF Ledgers
<1>7. QED
  BY <1>2, <1>4, <1>5, <1>6 DEF Extends, Record

LEMMA RequestIsRecorded ==
  ASSUME NEW billings, NoBilling \in billings, NEW led \in Ledgers(billings),
         NEW error \in BOOLEAN, NEW message \in BOOLEAN
  PROVE  /\ Extends(RecordRequest(led, error, message), led,
                    Record("settled", error, message, KnownBilling(led)), billings)
         /\ AtRest(RecordRequest(led, error, message))
<1> DEFINE added == WithRecord(led, "settled", error, message, KnownBilling(led))
           new == RecordRequest(led, error, message)
<1>1. KnownBilling(led) \in billings
  BY DEF KnownBilling, Ledgers
<1>2. Extends(added, led, Record("settled", error, message, KnownBilling(led)), billings)
  BY <1>1, RecordIsAdded
<1>3. added \in Ledgers(billings)
  BY <1>2 DEF Extends
<1>4. new = [added EXCEPT !.staged = NoBilling, !.inFlight = FALSE, !.noted = NoBilling]
  BY DEF RecordRequest
<1>5. /\ new.records = added.records /\ new.providerData = added.providerData
      /\ AtRest(new)
  BY <1>3, <1>4 DEF Ledgers, AtRest
<1>6. new \in Ledgers(billings)
  BY <1>3, <1>4 DEF Ledgers
<1>7. QED
  BY <1>2, <1>5, <1>6 DEF Extends

LEMMA FrozenAtRest == ASSUME NEW led, led.staged = NoBilling PROVE Frozen(led) = led
BY DEF Frozen

(* A failure recorded for the last request leaves failed requests only.    *)
LEMMA FailureIsAdded ==
  ASSUME NEW billings, NEW reported, NEW n \in Nat \ {0}, NEW led, NEW new, NEW message,
         Settled(led, n - 1, reported, billings),
         Extends(new, led, Record("settled", TRUE, message, Usage(n, reported)), billings)
  PROVE  Settled(new, n, reported, billings)
<1>1. Len(new.records) = n /\ Len(new.providerData) = n
  BY DEF Extends, Settled
<1>2. ASSUME NEW i \in 1..n
      PROVE  /\ new.records[i].kind = "settled" /\ new.records[i].error
             /\ new.records[i].billing = Usage(i, reported)
             /\ new.providerData[i] = Usage(i, reported)
  <2>1. CASE i = n
    BY <2>1 DEF Extends, Settled, Record
  <2>2. CASE i # n
    <3>1. i \in 1..(n - 1) /\ i \in 1..Len(led.records) /\ i \in 1..Len(led.providerData)
      BY <2>2 DEF Settled
    <3>2. QED
      BY <3>1 DEF Extends, Settled
  <2>3. QED
    BY <2>1, <2>2
<1>3. QED
  BY <1>1, <1>2 DEF Settled, Extends

-----------------------------------------------------------------------------
(***************************************************************************)
(* The shapes of a history: failed requests alone, or with one more that   *)
(* was answered or cut off.                                                *)
(***************************************************************************)
LEMMA FailuresShape ==
  ASSUME NEW billings, NEW reported, NEW n \in Nat, NEW led,
         Settled(led, n, reported, billings)
  PROVE  /\ AllFailed(led.records) /\ CutOffOnlyLast(led.records)
         /\ AbandonedShape(led.records)
         /\ n = 0 => led.records = << >>
         /\ n > 0 => RetryFailures(led.records)
         /\ led.records # << >> => Final(led.records).error
<1>1. led.records \in Seq(RequestRecords(billings)) /\ Len(led.records) = n
  BY DEF Settled, Ledgers
<1>2. AllFailed(led.records) /\ CutOffOnlyLast(led.records)
  BY <1>1 DEF Settled, AllFailed, CutOffOnlyLast
<1>3. n = 0 => led.records = << >>
  BY <1>1, EmptySeq
<1>4. n > 0 => led.records # << >>
  BY <1>1
<1>5. led.records # << >> => Final(led.records).error
  BY <1>1, <1>3 DEF Settled, Final
<1>6. n > 0 => AllFailed(AllButLast(led.records))
  BY <1>1, <1>2 DEF AllButLast, AllFailed, Settled
<1>7. AbandonedShape(led.records)
  BY <1>3, <1>5, <1>6 DEF AbandonedShape
<1>8. QED
  BY <1>2, <1>3, <1>4, <1>5, <1>7 DEF RetryFailures

(* A history of n requests, the last of which did not fail for a retry.    *)
EndsIn(led, n, kind, message, billing, reported) ==
  /\ Len(led.records) = n /\ Len(led.providerData) = n
  /\ led.records[n] = Record(kind, FALSE, message, billing)
  /\ led.providerData[n] = billing
  /\ \A i \in 1..(n - 1) :
       /\ led.records[i].kind = "settled" /\ led.records[i].error
       /\ led.records[i].billing = Usage(i, reported)
       /\ led.providerData[i] = Usage(i, reported)
  /\ led.records # << >> /\ ~Final(led.records).error
  /\ CutOffOnlyLast(led.records)
  /\ message /\ kind = "settled" /\ billing # NoBilling => FinishedMessage(led.records)
  /\ ~message /\ kind = "settled" => FinalTerminalResponse(led.records)
  /\ ~message => AbandonedShape(led.records)

LEMMA LastShape ==
  ASSUME NEW billings, NEW reported, NEW n \in Nat \ {0}, NEW led, NEW new,
         NEW kind \in {"settled", "cut_off"}, NEW message \in BOOLEAN, NEW billing,
         Settled(led, n - 1, reported, billings),
         Extends(new, led, Record(kind, FALSE, message, billing), billings)
  PROVE  EndsIn(new, n, kind, message, billing, reported)
<1> DEFINE records == new.records
<1>1. records \in Seq(RequestRecords(billings)) /\ new.providerData \in Seq(billings)
  BY DEF Extends, Ledgers
<1>2. /\ Len(records) = n /\ Len(new.providerData) = n
      /\ records[n] = Record(kind, FALSE, message, billing)
      /\ new.providerData[n] = billing
  BY DEF Extends, Settled, Record
<1>3. \A i \in 1..(n - 1) :
        /\ records[i].kind = "settled" /\ records[i].error
        /\ records[i].billing = Usage(i, reported)
        /\ new.providerData[i] = Usage(i, reported)
  BY DEF Extends, Settled
<1>4. CutOffOnlyLast(records)
  BY <1>1, <1>2, <1>3 DEF CutOffOnlyLast
<1>5. AllFailed(AllButLast(records))
  <2>1. /\ DOMAIN AllButLast(records) = 1..(n - 1)
        /\ \A i \in 1..(n - 1) : AllButLast(records)[i] = records[i]
    BY <1>1, <1>2, SubSeqProperties DEF AllButLast
  <2>2. QED
    BY <1>3, <2>1 DEF AllFailed
<1>6. /\ records # << >> /\ Final(records).kind = kind /\ ~Final(records).error
      /\ Final(records).message = message /\ Final(records).billing = billing
  BY <1>1, <1>2 DEF Final, Record
<1>7. message /\ kind = "settled" /\ billing # NoBilling => FinishedMessage(records)
  BY <1>5, <1>6 DEF FinishedMessage
<1>8. ~message /\ kind = "settled" => FinalTerminalResponse(records)
  BY <1>5, <1>6 DEF FinalTerminalResponse
<1>9. ~message => AbandonedShape(records)
  BY <1>5, <1>6 DEF AbandonedShape
<1>10. QED
  BY <1>2, <1>3, <1>4, <1>6, <1>7, <1>8, <1>9 DEF EndsIn

(* The validator of each record, by the shape that it demands.             *)
LEMMA AcceptedEndings ==
  ASSUME NEW kind, NEW records, CutOffOnlyLast(records),
         \/ kind \in {"generation", "unusable_error"} /\ FinishedMessage(records)
         \/ /\ kind \in {"retries_exhausted_error", "retry_unavailable_error"}
            /\ RetryFailures(records)
         \/ /\ kind = "provider_failed_terminally_error"
            /\ FinishedMessage(records) \/ FinalTerminalResponse(records)
         \/ kind = "auth_error" /\ FinalTerminalResponse(records)
         \/ kind = "rejected_error" /\ (records = << >> \/ FinalTerminalResponse(records))
         \/ kind \in {"timed_out_error", "abandoned_stream"} /\ AbandonedShape(records)
         \/ kind = "unknown_exception_error"
  PROVE  Accepted(kind, records)
BY Zenon DEF Accepted
=============================================================================
