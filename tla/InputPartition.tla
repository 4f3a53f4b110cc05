--------------------------- MODULE InputPartition ---------------------------
(***************************************************************************)
(* How an embedding adapter splits the inputs of one call into requests, in *)
(* one pass: _partitioned_by_body_size of Cohere on Bedrock (bytes of JSON, *)
(* a comma between inputs, a body limit for one input) and                  *)
(* _partition_inputs_sync of OpenAI (tokens, no empty input).  An input is  *)
(* its size.                                                                *)
(***************************************************************************)
EXTENDS Naturals, SequencesExt

CONSTANTS
  Sizes,          \* the sizes of the inputs of a call
  MaxCalled,      \* bound on how many they are
  EmptyBody,      \* the size of a request without inputs
  Comma,          \* what each further input adds to its own size
  MaxInputs,      \* the inputs a request may have
  Target,         \* the size a request of several inputs stays within
  Accepted        \* the sizes one input may have

ASSUME PartitionAssumption ==
  /\ Sizes \subseteq Nat /\ MaxCalled \in Nat
  /\ EmptyBody \in Nat /\ Comma \in Nat /\ Target \in Nat
  /\ MaxInputs \in Nat \ {0}

AllInputs == UNION {[1..n -> Sizes] : n \in 0..MaxCalled}

VARIABLES inputs, next, batches, batch, body, result

vars == <<inputs, next, batches, batch, body, result>>

Init ==
  /\ inputs \in AllInputs
  /\ next = 1
  /\ batches = <<>> /\ batch = <<>>
  /\ body = EmptyBody
  /\ result = "running"

Current == inputs[next]
More == result = "running" /\ next <= Len(inputs)

TargetWithoutComma(size) ==  (* mutant *)
  batch # <<>> /\ (Len(batch) = MaxInputs \/ body + size > Target)

NeverWithinTarget(size) ==  (* mutant *)
  batch # <<>> /\ (Len(batch) = MaxInputs \/ body + Comma + size >= Target)

BatchIsFull(size) ==
  batch # <<>> /\ (Len(batch) = MaxInputs \/ body + Comma + size > Target)

(* The input opens a batch of its own.                                     *)
StartBatch ==
  /\ More
  /\ Current \in Accepted
  /\ BatchIsFull(Current)
  /\ batches' = Append(batches, batch)
  /\ batch' = <<Current>>
  /\ body' = EmptyBody + Current
  /\ next' = next + 1
  /\ UNCHANGED <<inputs, result>>

Extend ==
  /\ More
  /\ Current \in Accepted
  /\ ~BatchIsFull(Current)
  /\ batch' = Append(batch, Current)
  /\ body' = body + Current + (IF batch = <<>> THEN 0 ELSE Comma)
  /\ next' = next + 1
  /\ UNCHANGED <<inputs, batches, result>>

Reject ==
  /\ More
  /\ Current \notin Accepted
  /\ result' = "raised"
  /\ UNCHANGED <<inputs, next, batches, batch, body>>

ReturnFullBatches ==  (* mutant *)
  /\ result = "running" /\ next > Len(inputs)
  /\ result' = "returned"
  /\ batch' = <<>> /\ body' = EmptyBody
  /\ UNCHANGED <<inputs, next, batches>>

Return ==
  /\ result = "running" /\ next > Len(inputs)
  /\ result' = "returned"
  /\ batches' = IF batch = <<>> THEN batches ELSE Append(batches, batch)
  /\ batch' = <<>> /\ body' = EmptyBody
  /\ UNCHANGED <<inputs, next>>

Rest == result # "running" /\ UNCHANGED vars

Next == StartBatch \/ Extend \/ Reject \/ Return \/ Rest

Spec == Init /\ [][Next]_vars

-----------------------------------------------------------------------------
TypeOK ==
  /\ inputs \in AllInputs
  /\ next \in 1..(Len(inputs) + 1)
  /\ batches \in Seq(Seq(Nat)) /\ batch \in Seq(Nat)
  /\ body \in Nat
  /\ result \in {"running", "raised", "returned"}

(* The vectors come back in the order of the batches: no input is lost,    *)
(* repeated or moved.                                                      *)
OrderIsKept == FlattenSeq(batches) \o batch = SubSeq(inputs, 1, next - 1)

(* The sum of the first sizes, of each number of them.                     *)
Sums(sizes) ==
  LET sum[n \in 0..Len(sizes)] == IF n = 0 THEN 0 ELSE sum[n - 1] + sizes[n]
  IN sum

Body(inputsOfBatch) ==
  EmptyBody + Sums(inputsOfBatch)[Len(inputsOfBatch)] + Comma * (Len(inputsOfBatch) - 1)

Fits(inputsOfBatch) ==
  /\ inputsOfBatch # <<>> /\ Len(inputsOfBatch) <= MaxInputs
  /\ Len(inputsOfBatch) = 1 \/ Body(inputsOfBatch) <= Target
  /\ \A i \in DOMAIN inputsOfBatch : inputsOfBatch[i] \in Accepted

(* The provider takes every request: within the count and, unless it holds *)
(* one large input only, within the size.                                  *)
RequestsFit ==
  /\ \A i \in DOMAIN batches : Fits(batches[i])
  /\ batch # <<>> => Fits(batch) /\ body = Body(batch)

(* The cuts of inputs into requests, by the ends of the requests.          *)
Cuts == {ends \in SUBSET (1..Len(inputs)) : inputs # <<>> => Len(inputs) \in ends}

CutFits(ends) ==
  \A e \in ends :
    LET before == {d \in ends : d < e}
    IN Fits(SubSeq(inputs, IF before = {} THEN 1 ELSE Max(before) + 1, e))

(* No other order-preserving partition that fits needs fewer requests.     *)
FewestRequests ==
  result = "returned" =>
    \A ends \in Cuts : CutFits(ends) => Len(batches) <= Cardinality(ends)
=============================================================================
