--------------------------- MODULE ResponseRules ---------------------------
(***************************************************************************)
(* What one response of a provider becomes: the parts of an assistant      *)
(* message that give output, the outcome of a response, and the outcome of *)
(* the input.  The adapters' stream modules read their responses by it.    *)
(* A part is a record with a kind; text is a sequence of fragments.  Their *)
(* streams yield the items at the end of the module.                       *)
(***************************************************************************)
EXTENDS Naturals, SequencesExt

StopReasons == {"stop", "tool_call", "max_completion_tokens", "refusal",
                "context_window_exceeded", "other"}

Parts(content, kind) == SelectSeq(content, LAMBDA p : p.kind = kind)

ToolCalls(content) == Parts(content, "tool_call")

(* The last text part gives output, and beside a tool call none does.      *)
FinalTextIndex(content) ==
  LET texts == {i \in DOMAIN content : content[i].kind = "text"}
  IN IF ToolCalls(content) # <<>> \/ texts = {} THEN 0 ELSE Max(texts)

(* A text binding reads the text as it is; a structured one validates it.  *)
ReadOutput(content, validates) ==
  IF FinalTextIndex(content) = 0 THEN "none" ELSE IF validates THEN "output" ELSE "invalid"

StopReasonOutcome(stopReason) ==
  CASE stopReason = "refusal" -> "refusal"
    [] stopReason = "max_completion_tokens" -> "max_completion_tokens_exceeded"
    [] stopReason = "context_window_exceeded" -> "context_window_exceeded"
    [] OTHER -> "none"

Finished(content, stopReason, cannotContinue) ==
  [kind |-> "finished_response", content |-> content, stop_reason |-> stopReason,
   cannot_continue |-> cannotContinue]

Unusable(kind, content) ==
  [kind |-> kind, content |-> content, stop_reason |-> "other", cannot_continue |-> FALSE]

ToolCallsFirst(r, validates) ==  (* mutant *)
  IF r.kind # "finished_response" THEN r.kind
  ELSE IF ToolCalls(r.content) # <<>> THEN "tool_call_response"
  ELSE IF ReadOutput(r.content, validates) = "output" THEN "plain_response"
  ELSE IF StopReasonOutcome(r.stop_reason) # "none" THEN StopReasonOutcome(r.stop_reason)
  ELSE "empty_assistant_message"

(* The first rule that applies.  A call that ends a truncated or refused   *)
(* response may be cut off, and is no call.                                *)
ResponseOutcome(r, validates) ==
  LET stopped == StopReasonOutcome(r.stop_reason)
      output == ReadOutput(r.content, validates)
  IN CASE r.kind # "finished_response" -> r.kind
       [] r.cannot_continue -> "unexpected_response"
       [] stopped # "none" /\ r.content # <<>> /\ Last(r.content).kind = "tool_call" -> stopped
       [] ToolCalls(r.content) # <<>> -> "tool_call_response"
       [] output = "output" -> "plain_response"
       [] stopped # "none" -> stopped
       [] output = "invalid" -> "schema_violation"
       [] OTHER -> "empty_assistant_message"

(* A response with tool calls is an error of a binding that has no tools;  *)
(* a transient failure belongs to the retry loop.                          *)
GenerationOutcome(outcome, splitsOnToolCalls) ==
  CASE outcome = "plain_response" -> "plain"
    [] outcome = "tool_call_response" ->
         IF splitsOnToolCalls THEN "tool_call" ELSE "unexpected_response_error"
    [] outcome = "provider_failed_transiently" -> "retry"
    [] outcome = "refusal" -> "refusal_error"
    [] outcome = "max_completion_tokens_exceeded" -> "max_completion_tokens_exceeded_error"
    [] outcome = "context_window_exceeded" -> "context_window_exceeded_error"
    [] outcome = "schema_violation" -> "schema_violation_error"
    [] outcome = "empty_assistant_message" -> "empty_assistant_message_error"
    [] outcome = "unexpected_response" -> "unexpected_response_error"
    [] outcome = "provider_failed_terminally" -> "provider_failed_terminally_error"

(* The records of a generation reject a message of the other shape.        *)
RecordAccepts(kind, content) ==
  CASE kind = "plain" -> ToolCalls(content) = <<>>
    [] kind = "tool_call" -> ToolCalls(content) # <<>>
    [] OTHER -> TRUE

(* A binding with or without tools can store what the rules decided.       *)
OutcomeIsStorable(outcome, content) ==
  \A splits \in BOOLEAN : RecordAccepts(GenerationOutcome(outcome, splits), content)

-----------------------------------------------------------------------------
(***************************************************************************)
(* What a consumer of a stream sees: the items of AdapterStream.items, and *)
(* what adapter.py promises of them with respect to the final message.     *)
(* A fragment is a number; 0 is REASONING_PART_SEPARATOR.                  *)
(***************************************************************************)
Separator == 0

Item(kind, id, text) == [kind |-> kind, id |-> id, text |-> text]
TextItem(n) == <<Item("text", 0, <<n>>)>>
ReasoningItem(n) == Item("reasoning_delta", 0, <<n>>)
DeltaItem(id, fragments) == Item("tool_call_delta", id, fragments)
CallItem(id, args) == Item("tool_call", id, args)

Texts(seq) == FlattenSeq([i \in DOMAIN seq |-> seq[i].text])

Streamed(items, kind) == Texts(SelectSeq(items, LAMBDA x : x.kind = kind))

(* The readable reasoning parts, joined by the separator.                  *)
Joined(parts) ==
  LET readable == SelectSeq(parts, LAMBDA p : p.text # <<>>)
  IN FlattenSeq([i \in DOMAIN readable |->
                   IF i = 1 THEN readable[i].text ELSE <<Separator>> \o readable[i].text])

(* A call is yielded once, its deltas before it, and they add up to it.    *)
CallIsFormed(items, k) ==
  LET deltas == {i \in DOMAIN items : items[i].kind = "tool_call_delta" /\ items[i].id = items[k].id}
  IN /\ \A i \in deltas : i < k
     /\ \A i \in DOMAIN items :
          items[i].kind = "tool_call" /\ items[i].id = items[k].id => i = k
     /\ \/ deltas = {}
        \/ Texts(SelectSeq(items, LAMBDA x : x.kind = "tool_call_delta" /\ x.id = items[k].id))
             = items[k].text

CallsAreFormed(items) ==
  \A k \in DOMAIN items : items[k].kind = "tool_call" => CallIsFormed(items, k)

(* The calls that were streamed are the calls of the final message.        *)
CallsAreStreamed(items, content) ==
  LET streamed == SelectSeq(items, LAMBDA x : x.kind = "tool_call")
      final == ToolCalls(content)
  IN /\ Len(streamed) = Len(final)
     /\ \A i \in DOMAIN final : streamed[i].id = final[i].id /\ streamed[i].text = final[i].text
=============================================================================
