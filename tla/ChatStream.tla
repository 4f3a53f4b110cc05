----------------------------- MODULE ChatStream -----------------------------
(***************************************************************************)
(* One Chat Completions stream: the SDK folds chunks into a snapshot and   *)
(* fires events, the adapter yields reasoning, answer text and calls,      *)
(* whose id may come late.  Azure adds annotation chunks that belong to no *)
(* message, and may block an answer by one of them.                        *)
(***************************************************************************)
EXTENDS ResponseRules

CONSTANTS
  MaxCalls,      \* bound on the tool calls of the message
  MaxFragments   \* bound on the fragments of the stream

StreamAssumption == MaxCalls \in Nat /\ MaxFragments \in Nat

VARIABLES
  text,       \* the snapshot's text by channel
  calls,      \* the snapshot's tool calls: id known, arguments
  forming,    \* the SDK's current tool call index, 0 for none
  ended,      \* the SDK's done tool calls
  finish,     \* the finish reason of the snapshot's choice
  cut,        \* whether the provider cut the last call off
  received,   \* _chunk_received
  filtered,   \* _content_filtered
  fragments,  \* how many fragments have arrived
  items,      \* what items() has yielded
  pending,    \* pending_args by call
  pc,         \* the consumer's progress
  outcome     \* the outcome of the response

sdk == <<text, calls, forming, ended, finish, cut>>
adapter == <<received, filtered, items, pending>>
vars == <<sdk, fragments, adapter, pc, outcome>>

Channels == {"reasoning", "content", "refusal"}
FinishReasons == {"stop", "tool_calls", "length", "content_filter", "function_call"}

TypeOK ==
  /\ text \in [Channels -> Seq(1..MaxFragments)]
  /\ calls \in Seq([known : BOOLEAN, args : Seq(1..MaxFragments)]) /\ Len(calls) <= MaxCalls
  /\ forming \in 0..Len(calls) /\ ended \subseteq DOMAIN calls
  /\ \A i \in DOMAIN calls : i < forming => i \in ended
  /\ finish \in FinishReasons \union {"none"} /\ fragments \in 0..MaxFragments
  /\ {cut, received, filtered} \subseteq BOOLEAN
  /\ pending \in [1..MaxCalls -> Seq(1..MaxFragments)]
  /\ \A i \in 1..MaxCalls : pending[i] # <<>> => i \in DOMAIN calls /\ ~calls[i].known
  /\ pc \in {"streaming", "api_status_error", "stream_protocol_error", "broken",
             "drained", "interpreted"}
  /\ (outcome # "none") = (pc = "interpreted")

Init ==
  /\ text = [c \in Channels |-> <<>>] /\ calls = <<>> /\ forming = 0 /\ ended = {}
  /\ finish = "none" /\ cut = FALSE /\ received = FALSE /\ filtered = FALSE /\ fragments = 0
  /\ items = <<>> /\ pending = [i \in 1..MaxCalls |-> <<>>]
  /\ pc = "streaming" /\ outcome = "none"

-----------------------------------------------------------------------------
(***************************************************************************)
(* One chunk of the stream and what items() makes of it.                   *)
(***************************************************************************)
Chunk == pc = "streaming" /\ finish = "none" /\ received' = TRUE /\ UNCHANGED <<filtered, outcome>>

Fragment == fragments < MaxFragments /\ fragments' = fragments + 1

TextChunk ==
  /\ Chunk /\ Fragment
  /\ \E c \in Channels :
       /\ text' = [text EXCEPT ![c] = Append(@, fragments')]
       /\ items' = items \o CASE c = "content" -> TextItem(fragments')
                              [] c = "reasoning" -> <<ReasoningItem(fragments')>>
                              [] OTHER -> <<>>
  /\ UNCHANGED <<calls, forming, ended, finish, cut, pending, pc>>

(* A call is done when another begins or the response finishes.            *)
Done(i, snapshot) == IF i = 0 \/ i \in ended THEN <<>> ELSE <<CallItem(i, snapshot[i].args)>>

ForgottenFragments(i, known, args) ==  (* mutant *)
  IF ~known THEN <<>> ELSE IF args = <<>> THEN <<>> ELSE <<DeltaItem(i, args)>>

(* Fragments wait for the id of their call and go out with the next one.   *)
DeltaItems(i, known, args) ==
  IF args = <<>> \/ ~known THEN <<>> ELSE <<DeltaItem(i, pending[i] \o args)>>

Pending(i, known, args) ==
  [pending EXCEPT ![i] = IF args = <<>> THEN @ ELSE IF known THEN <<>> ELSE @ \o args]

Arrive(i, snapshot, args) ==
  /\ calls' = snapshot
  /\ items' = items \o DeltaItems(i, snapshot[i].known, args)
                    \o (IF i = forming THEN <<>> ELSE Done(forming, snapshot))
  /\ pending' = Pending(i, snapshot[i].known, args)
  /\ ended' = IF i = forming THEN ended ELSE ended \union ({forming} \ {0})
  /\ forming' = i
  /\ UNCHANGED <<text, finish, cut, pc>>

CallsAreKnown == \A i \in DOMAIN calls : calls[i].known

(* The first fragment of a call may have no arguments yet.                 *)
CallBegins ==
  /\ Chunk
  /\ CallsAreKnown /\ Len(calls) < MaxCalls
  /\ \E known \in BOOLEAN :
       \/ Fragment /\ Arrive(Len(calls) + 1,
                             Append(calls, [known |-> known, args |-> <<fragments'>>]), <<fragments'>>)
       \/ /\ Arrive(Len(calls) + 1, Append(calls, [known |-> known, args |-> <<>>]), <<>>)
          /\ UNCHANGED fragments

CallGrows ==
  /\ Chunk /\ Fragment
  /\ forming # 0
  /\ \E known \in {TRUE, calls[forming].known} :
       Arrive(forming, [calls EXCEPT ![forming] = [known |-> known, args |-> Append(@.args, fragments')]],
              <<fragments'>>)

(* The SDK cannot place a fragment whose index skips a call.               *)
CallSkipsAnIndex ==
  /\ pc = "streaming" /\ finish = "none" /\ fragments < MaxFragments
  /\ pc' = "stream_protocol_error"
  /\ UNCHANGED <<sdk, fragments, adapter, outcome>>

(* The finish reason has a chunk of its own.                               *)
FinishChunk ==
  /\ Chunk
  /\ CallsAreKnown
  /\ \E reason \in FinishReasons :
       /\ reason = "tool_calls" => calls # <<>>
       /\ finish' = reason
       /\ cut' \in IF reason \in {"length", "content_filter"} /\ calls # <<>> THEN BOOLEAN ELSE {FALSE}
  /\ items' = items \o Done(forming, calls)
  /\ ended' = ended \union ({forming} \ {0})
  /\ UNCHANGED <<text, calls, forming, fragments, pending, pc>>

(* An annotation chunk of Azure is no chunk for the SDK.                   *)
AnnotationBlocks ==
  /\ pc = "streaming" /\ ~filtered
  /\ filtered' = TRUE
  /\ UNCHANGED <<sdk, fragments, received, items, pending, pc, outcome>>

(* A chunk of usage has no choice, and may be the only chunk.              *)
UsageChunk ==
  /\ pc = "streaming"
  /\ received' = TRUE
  /\ UNCHANGED <<sdk, fragments, filtered, items, pending, pc, outcome>>

HasChoices == finish # "none" \/ calls # <<>> \/ \E c \in Channels : text[c] # <<>>

StreamEnds ==
  /\ pc = "streaming"
  /\ pc' = IF finish # "none" \/ (filtered /\ received /\ HasChoices) THEN "drained" ELSE "stream_protocol_error"
  /\ UNCHANGED <<sdk, fragments, adapter, outcome>>

(* An error object in the stream, or the end of the connection.            *)
StreamBreaks ==
  /\ pc = "streaming"
  /\ pc' \in {"api_status_error", "broken"}
  /\ UNCHANGED <<sdk, fragments, adapter, outcome>>

-----------------------------------------------------------------------------
(***************************************************************************)
(* The assembled response.                                                 *)
(***************************************************************************)
Part(kind, id, t) == [kind |-> kind, id |-> id, text |-> t]

AssistantMessage ==
  LET optional(kind, channel) ==
        IF text[channel] = <<>> THEN <<>> ELSE <<Part(kind, 0, text[channel])>>
  IN optional("reasoning", "reasoning") \o optional("text", "content") \o optional("text", "refusal")
       \o [i \in DOMAIN calls |-> Part("tool_call", i, calls[i].args)]

SnapshotFinish == finish  (* mutant *)

FinalFinish == IF filtered THEN "content_filter" ELSE finish

NormalizedStopReason ==
  CASE text["refusal"] # <<>> -> "refusal"
    [] FinalFinish = "stop" -> IF calls # <<>> THEN "tool_call" ELSE "stop"
    [] FinalFinish = "tool_calls" -> "tool_call"
    [] FinalFinish = "length" -> "max_completion_tokens"
    [] FinalFinish = "content_filter" -> "refusal"
    [] OTHER -> "other"

Interpretation ==
  Finished(AssistantMessage, NormalizedStopReason, NormalizedStopReason = "other")

Interpret ==
  /\ pc = "drained"
  /\ \E validates \in BOOLEAN : outcome' = ResponseOutcome(Interpretation, validates)
  /\ pc' = "interpreted"
  /\ UNCHANGED <<sdk, fragments, adapter>>

Stopped ==
  pc \in {"api_status_error", "stream_protocol_error", "broken", "interpreted"} /\ UNCHANGED vars

Next ==
  \/ TextChunk \/ CallBegins \/ CallGrows \/ CallSkipsAnIndex \/ FinishChunk \/ AnnotationBlocks
  \/ UsageChunk \/ StreamEnds \/ StreamBreaks \/ Interpret \/ Stopped

Spec == Init /\ [][Next]_vars

-----------------------------------------------------------------------------
(* At every moment the consumer has seen the answer and the reasoning as   *)
(* they will stand in the message and never the text of a refusal; a call  *)
(* comes once, after deltas that add up to it though its id came late, and *)
(* a finished response has yielded all its calls.                          *)
StreamIsFaithful ==
  /\ Streamed(items, "text") = text["content"]
  /\ Streamed(items, "reasoning_delta") = text["reasoning"]
  /\ CallsAreFormed(items)
  /\ \A i \in DOMAIN calls :
       LET deltas == Texts(SelectSeq(items, LAMBDA x : x.kind = "tool_call_delta" /\ x.id = i))
       IN deltas \o pending[i] = calls[i].args
  /\ finish # "none" => CallsAreStreamed(items, AssistantMessage)

(* What a generation is made of is whole: neither a block that came by an  *)
(* annotation, before or after the finish reason, nor a refusal nor a cut  *)
(* call ends in a call for the application, a call is never beside an      *)
(* answer, and the generation's record accepts the message.                *)
GenerationIsWhole ==
  outcome \in {"plain_response", "tool_call_response"} =>
    /\ finish \notin {"none", "function_call"} \/ filtered \/ text["refusal"] # <<>>
    /\ OutcomeIsStorable(outcome, AssistantMessage)
    /\ outcome = "tool_call_response" => ~cut /\ ~filtered /\ text["refusal"] = <<>>
    /\ outcome = "plain_response" => calls = <<>>
=============================================================================
