-------------------------- MODULE AnthropicStream --------------------------
(***************************************************************************)
(* One Messages stream: the SDK folds the provider's events into a         *)
(* snapshot, the adapter translates them into items, bills what arrived,   *)
(* and reads the finished message.                                         *)
(***************************************************************************)
EXTENDS ResponseRules

CONSTANTS
  MaxBlocks,     \* bound on the content blocks of the message
  MaxFragments,  \* bound on the deltas of the stream
  WebSearch      \* whether the binding has the charged web search tool

StreamAssumption == MaxBlocks \in Nat /\ MaxFragments \in Nat /\ WebSearch \in BOOLEAN

VARIABLES
  content,    \* the blocks of the SDK's snapshot
  open,       \* whether the last block is still open
  stop,       \* the provider's stop_reason
  reported,   \* the web searches that the reported usage counts
  fragments,  \* how many deltas have arrived
  items,      \* what items() has yielded
  reasoned,   \* reasoning_delta_yielded
  separator,  \* separator_pending
  started,    \* _snapshot_started
  complete,   \* _billing_complete
  pc,         \* the consumer's progress
  outcome     \* the outcome of the response

provider == <<content, open, stop, reported, fragments>>
adapter == <<items, reasoned, separator, started>>
vars == <<provider, adapter, complete, pc, outcome>>

BlockKinds == {"text", "thinking", "redacted_thinking", "tool_use", "server_tool_use"}

StopReasonOf == [end_turn |-> "stop", tool_use |-> "tool_call",
                 max_tokens |-> "max_completion_tokens", refusal |-> "refusal",
                 model_context_window_exceeded |-> "context_window_exceeded"]

NormalizedStopReason(s) == IF s \in DOMAIN StopReasonOf THEN StopReasonOf[s] ELSE "other"

CannotContinue(s) == s \notin DOMAIN StopReasonOf \union {"stop_sequence"}

Cutting == {"max_tokens", "refusal", "model_context_window_exceeded"}
ProviderStops == DOMAIN StopReasonOf \union {"stop_sequence", "pause_turn"}

TypeOK ==
  /\ content \in Seq([kind : BlockKinds, id : 1..MaxBlocks, text : Seq(1..MaxFragments),
                      whole : BOOLEAN])
  /\ Len(content) <= MaxBlocks
  /\ \A i \in DOMAIN content : content[i].id = i
  /\ open => content # <<>>
  /\ stop \in {"none"} \union ProviderStops
  /\ reported \in 0..MaxBlocks /\ fragments \in 0..MaxFragments
  /\ \A i \in DOMAIN items :
       items[i].kind \in {"text", "reasoning_delta", "tool_call_delta", "tool_call"}
  /\ {reasoned, separator, started, complete} \subseteq BOOLEAN
  /\ separator => reasoned
  /\ pc \in {"streaming", "failed", "drained", "interpreted"}
  /\ (outcome # "none") = (pc = "interpreted")

Init ==
  /\ content = <<>> /\ open = FALSE /\ stop = "none" /\ reported = 0 /\ fragments = 0
  /\ items = <<>> /\ reasoned = FALSE /\ separator = FALSE /\ started = FALSE
  /\ complete = FALSE /\ pc = "streaming" /\ outcome = "none"

CutOff == \E i \in DOMAIN content : ~content[i].whole

Yield(more) == items' = items \o more

-----------------------------------------------------------------------------
(***************************************************************************)
(* One event of the SDK stream and what items() makes of it.               *)
(***************************************************************************)
Event == pc = "streaming" /\ started' = TRUE /\ UNCHANGED <<complete, pc, outcome>>

MessageStarts ==
  /\ ~started
  /\ Event
  /\ UNCHANGED <<provider, items, reasoned, separator>>

BlockStarts ==
  /\ started /\ stop = "none" /\ ~open /\ ~CutOff
  /\ Len(content) < MaxBlocks
  /\ Event
  /\ \E kind \in IF WebSearch THEN BlockKinds ELSE BlockKinds \ {"server_tool_use"} :
       content' = Append(content, [kind |-> kind, id |-> Len(content) + 1, text |-> <<>>,
                                   whole |-> TRUE])
  /\ open' = TRUE
  /\ UNCHANGED <<stop, reported, fragments, items, reasoned, separator>>

SeparatorAtEveryDelta(block, n) ==  (* mutant *)
  CASE block.kind = "text" -> TextItem(n)
    [] block.kind = "thinking" -> IF reasoned THEN <<ReasoningItem(Separator), ReasoningItem(n)>>
                                  ELSE <<ReasoningItem(n)>>
    [] block.kind = "tool_use" -> <<DeltaItem(block.id, <<n>>)>>
    [] OTHER -> <<>>

(* Text and tool arguments pass, a new thinking block after a separator;   *)
(* deltas of tools that the provider runs are not for the consumer.        *)
DeltaItems(block, n) ==
  CASE block.kind = "text" -> TextItem(n)
    [] block.kind = "thinking" -> IF separator THEN <<ReasoningItem(Separator), ReasoningItem(n)>>
                                  ELSE <<ReasoningItem(n)>>
    [] block.kind = "tool_use" -> <<DeltaItem(block.id, <<n>>)>>
    [] OTHER -> <<>>

BlockDelta ==
  /\ open /\ fragments < MaxFragments
  /\ Last(content).kind # "redacted_thinking"
  /\ Event
  /\ fragments' = fragments + 1
  /\ content' = [content EXCEPT ![Len(content)].text = Append(@, fragments')]
  /\ Yield(DeltaItems(Last(content), fragments'))
  /\ IF Last(content).kind = "thinking" THEN reasoned' = TRUE /\ separator' = FALSE
     ELSE UNCHANGED <<reasoned, separator>>
  /\ UNCHANGED <<open, stop, reported>>

(* The SDK completes the JSON of a call that was cut off.                  *)
Args(block) == IF block.whole THEN block.text ELSE Append(block.text, MaxFragments + 1)

ClosingItems(block) ==
  IF block.kind = "tool_use" THEN <<CallItem(block.id, Args(block))>> ELSE <<>>

SeparatorAfter(block) == IF block.kind = "thinking" THEN reasoned ELSE separator

BlockStops ==
  /\ open
  /\ Event
  /\ \E whole \in IF Last(content).kind = "tool_use" THEN BOOLEAN ELSE {TRUE} :
       LET block == [Last(content) EXCEPT !.whole = whole]
       IN content' = ReplaceAt(content, Len(content), block) /\ Yield(ClosingItems(block))
  /\ open' = FALSE
  /\ separator' = SeparatorAfter(Last(content))
  /\ UNCHANGED <<stop, reported, fragments, reasoned>>

Searches == Len(Parts(content, "server_tool_use"))

(* Stop reason and counters arrive with message_delta.                     *)
MessageDelta ==
  /\ started /\ ~open /\ stop = "none"
  /\ Event
  /\ \E s \in IF CutOff THEN Cutting ELSE ProviderStops : stop' = s
  /\ reported' = Searches
  /\ UNCHANGED <<content, open, fragments, items, reasoned, separator>>

(* The connection ends; without a stop reason that is a protocol error.    *)
StreamEnds ==
  /\ pc = "streaming"
  /\ started
  /\ IF stop = "none" THEN pc' = "failed" /\ UNCHANGED complete
     ELSE complete' = TRUE /\ pc' = "drained"
  /\ UNCHANGED <<provider, adapter, outcome>>

StreamBreaks ==
  /\ pc = "streaming"
  /\ pc' = "failed"
  /\ UNCHANGED <<provider, adapter, complete, outcome>>

-----------------------------------------------------------------------------
(***************************************************************************)
(* The finished message.                                                   *)
(***************************************************************************)
PartKind == [text |-> "text", tool_use |-> "tool_call", thinking |-> "reasoning",
             redacted_thinking |-> "reasoning", server_tool_use |-> "raw"]

AssistantMessage ==
  [i \in DOMAIN content |->
     [kind |-> PartKind[content[i].kind], id |-> content[i].id,
      text |-> IF content[i].kind = "tool_use" THEN Args(content[i]) ELSE content[i].text]]

Interpretation == Finished(AssistantMessage, NormalizedStopReason(stop), CannotContinue(stop))

Interpret ==
  /\ pc = "drained"
  /\ \E validates \in BOOLEAN : outcome' = ResponseOutcome(Interpretation, validates)
  /\ pc' = "interpreted"
  /\ UNCHANGED <<provider, adapter, complete>>

FiniteBilling ==  (* mutant *)
  IF ~started THEN [known |-> FALSE, searches |-> 0] ELSE [known |-> TRUE, searches |-> reported]

(* The billing of the snapshot at any time: before its end, a charged tool *)
(* may have run without being counted, and has no known price.             *)
ProviderBilling ==
  IF ~started \/ (WebSearch /\ ~complete) THEN [known |-> FALSE, searches |-> 0]
  ELSE [known |-> TRUE, searches |-> reported]

Stopped == pc \in {"failed", "interpreted"} /\ UNCHANGED vars

Next ==
  \/ MessageStarts \/ BlockStarts \/ BlockDelta \/ BlockStops \/ MessageDelta
  \/ StreamEnds \/ StreamBreaks \/ Interpret \/ Stopped

Spec == Init /\ [][Next]_vars

-----------------------------------------------------------------------------
(* At every moment the consumer has seen the answer and the readable       *)
(* reasoning as they will stand in the message, each part set off once,    *)
(* and at the end its calls, of the application's tools only.              *)
StreamIsFaithful ==
  /\ Streamed(items, "text") = Texts(Parts(AssistantMessage, "text"))
  /\ Streamed(items, "reasoning_delta") = Joined(Parts(AssistantMessage, "reasoning"))
  /\ ~open => CallsAreStreamed(items, AssistantMessage)

(* What a generation is made of is whole: its calls were not cut off, its  *)
(* answer has no call beside it, and the provider had finished.            *)
GenerationIsWhole ==
  outcome \in {"plain_response", "tool_call_response"} =>
    /\ stop \notin {"none", "pause_turn"}
    /\ outcome = "tool_call_response" => ~CutOff
    /\ outcome = "plain_response" => ToolCalls(AssistantMessage) = <<>>

(* Searches that the provider charged are never billed as none: whatever   *)
(* the moment the stream broke, a cost that is known counts them all.      *)
SearchesAreBilled == ProviderBilling.known => ProviderBilling.searches = Searches

(* adapter.py on StreamItem: a call is yielded once, complete, and its     *)
(* deltas parse to the arguments that it carries.                          *)
YieldedCallsAreComplete == CallsAreFormed(items)
=============================================================================
