-------------------------- MODULE ResponsesStream --------------------------
(***************************************************************************)
(* One stream of the OpenAI Responses API: items with their parts, calls   *)
(* that may form side by side, a terminal event with the response, an      *)
(* error event, and what the adapter makes of each.                        *)
(***************************************************************************)
EXTENDS ResponseRules

CONSTANTS
  MaxItems,      \* bound on the output items
  MaxParts,      \* bound on the parts of one item
  MaxFragments,  \* bound on the deltas of the stream
  ChargedTools   \* whether the binding has web or file search

StreamAssumption ==
  MaxItems \in Nat /\ MaxParts \in Nat /\ MaxFragments \in Nat /\ ChargedTools \in BOOLEAN

VARIABLES
  output,     \* the output items so far
  terminal,   \* the terminal event: its status and its reason or error code
  error,      \* whether an error event has arrived
  fragments,  \* how many deltas have arrived
  items,      \* what items() has yielded
  forming,    \* forming_calls: the calls whose id is known
  reasoned,   \* reasoning_delta_yielded
  separator,  \* separator_pending
  pc,         \* the consumer's progress
  outcome     \* the outcome of the response

provider == <<output, terminal, error, fragments>>
adapter == <<items, forming, reasoned, separator>>
vars == <<provider, adapter, pc, outcome>>

(* A search is charged by its count; an unpriceable item has no price.     *)
ItemKinds == {"message", "reasoning", "function_call", "web_search_call", "unpriceable"}

Channels == [message |-> {"output_text", "refusal"}, reasoning |-> {"summary", "content"},
             function_call |-> {"arguments"}, web_search_call |-> {}, unpriceable |-> {}]

NoTerminal == [status |-> "none", why |-> "none"]
Terminals ==
  {[status |-> "completed", why |-> "none"]}
    \union {[status |-> "incomplete", why |-> w] :
              w \in {"none", "max_output_tokens", "content_filter", "steered"}}
    \union {[status |-> "failed", why |-> w] :
              w \in {"none", "server_error", "rate_limit_exceeded", "invalid_prompt"}}

TypeOK ==
  /\ \A i \in DOMAIN output :
       /\ output[i].kind \in ItemKinds /\ output[i].id = i /\ output[i].done \in BOOLEAN
       /\ \A p \in DOMAIN output[i].parts :
            /\ output[i].parts[p].channel \in Channels[output[i].kind]
            /\ output[i].parts[p].text \in Seq(1..MaxFragments)
            /\ p < Len(output[i].parts) => output[i].parts[p].closed
  /\ terminal \in Terminals \union {NoTerminal}
  /\ error \in BOOLEAN /\ fragments \in 0..MaxFragments
  /\ forming = {i \in DOMAIN output : output[i].kind = "function_call"}
  /\ {reasoned, separator} \subseteq BOOLEAN /\ (separator => reasoned)
  /\ pc \in {"streaming", "api_status_error", "stream_protocol_error", "broken",
             "drained", "interpreted"}
  /\ (outcome # "none") = (pc = "interpreted")

Init ==
  /\ output = <<>> /\ terminal = NoTerminal /\ error = FALSE /\ fragments = 0
  /\ items = <<>> /\ forming = {} /\ reasoned = FALSE /\ separator = FALSE
  /\ pc = "streaming" /\ outcome = "none"

Open == {i \in DOMAIN output : ~output[i].done}

Yield(more) == items' = items \o more

-----------------------------------------------------------------------------
(***************************************************************************)
(* One event of the SDK stream and what items() makes of it.               *)
(***************************************************************************)
Event == pc = "streaming" /\ terminal = NoTerminal /\ UNCHANGED <<pc, outcome>>

ItemAdded ==
  /\ Event
  /\ Len(output) < MaxItems
  /\ \E kind \in IF ChargedTools THEN ItemKinds ELSE ItemKinds \ {"web_search_call"} :
       /\ \A i \in Open : kind = "function_call" /\ output[i].kind = "function_call"
       /\ output' = Append(output, [kind |-> kind, id |-> Len(output) + 1, parts |-> <<>>,
                                    done |-> FALSE])
       /\ forming' = IF kind = "function_call" THEN forming \union {Len(output) + 1} ELSE forming
  /\ UNCHANGED <<terminal, error, fragments, items, reasoned, separator>>

PartIsOpen(item, channel) ==
  item.parts # <<>> /\ ~Last(item.parts).closed /\ Last(item.parts).channel = channel

DroppedRefusals(i, channel, n) ==  (* mutant *)
  CASE channel \in {"output_text", "refusal"} -> TextItem(n)
    [] channel = "arguments" -> <<DeltaItem(i, <<n>>)>>
    [] channel \in {"summary", "content"} ->
         IF separator THEN <<ReasoningItem(Separator), ReasoningItem(n)>> ELSE <<ReasoningItem(n)>>
    [] OTHER -> <<>>

(* Answer text, arguments and both channels of reasoning pass; the text of *)
(* a refusal does not.                                                     *)
DeltaItems(i, channel, n) ==
  CASE channel = "output_text" -> TextItem(n)
    [] channel = "arguments" -> <<DeltaItem(i, <<n>>)>>
    [] channel \in {"summary", "content"} ->
         IF separator THEN <<ReasoningItem(Separator), ReasoningItem(n)>> ELSE <<ReasoningItem(n)>>
    [] OTHER -> <<>>

Delta(i, channel) ==
  /\ Event
  /\ fragments < MaxFragments
  /\ fragments' = fragments + 1
  /\ LET item == output[i] IN
       IF PartIsOpen(item, channel)
       THEN output' = [output EXCEPT ![i].parts[Len(item.parts)].text = Append(@, fragments')]
       ELSE /\ Len(item.parts) < MaxParts
            /\ item.parts # <<>> => Last(item.parts).closed
            /\ output' = [output EXCEPT ![i].parts =
                 Append(@, [channel |-> channel, text |-> <<fragments'>>, closed |-> FALSE])]
  /\ Yield(DeltaItems(i, channel, fragments'))
  /\ IF output[i].kind = "reasoning" THEN reasoned' = TRUE /\ separator' = FALSE
     ELSE UNCHANGED <<reasoned, separator>>
  /\ UNCHANGED <<terminal, error, forming>>

SeparatorAfter(i) == IF output[i].kind = "reasoning" THEN reasoned ELSE separator

(* A part is done, and it may have had no text at all.                     *)
PartDone(i, channel) ==
  /\ Event
  /\ output[i].kind # "function_call"
  /\ LET item == output[i] IN
       IF PartIsOpen(item, channel)
       THEN output' = [output EXCEPT ![i].parts[Len(item.parts)].closed = TRUE]
       ELSE /\ Len(item.parts) < MaxParts
            /\ item.parts # <<>> => Last(item.parts).closed
            /\ output' = [output EXCEPT ![i].parts =
                 Append(@, [channel |-> channel, text |-> <<>>, closed |-> TRUE])]
  /\ separator' = SeparatorAfter(i)
  /\ UNCHANGED <<terminal, error, fragments, items, forming, reasoned>>

Args(item) == Texts(item.parts)

ItemDone(i) ==
  /\ Event
  /\ \A p \in DOMAIN output[i].parts : output[i].parts[p].closed \/ output[i].kind = "function_call"
  /\ output' = [output EXCEPT ![i].done = TRUE]
  /\ Yield(IF output[i].kind = "function_call" THEN <<CallItem(i, Args(output[i]))>> ELSE <<>>)
  /\ UNCHANGED <<terminal, error, fragments, forming, reasoned, separator>>

(* The terminal event carries the response; only one that did not complete *)
(* leaves items unfinished.                                                *)
TerminalEvent ==
  /\ Event
  /\ \E t \in Terminals :
       /\ Open # {} => t.status = "failed" \/ t.why \in {"max_output_tokens", "content_filter"}
       /\ terminal' = t
  /\ UNCHANGED <<output, error, fragments, adapter>>

ErrorEvent ==
  /\ Event
  /\ ~error
  /\ error' = TRUE
  /\ UNCHANGED <<output, terminal, fragments, adapter>>

StreamEnds ==
  /\ pc = "streaming"
  /\ pc' = IF terminal # NoTerminal THEN "drained"
           ELSE IF error THEN "api_status_error" ELSE "stream_protocol_error"
  /\ UNCHANGED <<provider, adapter, outcome>>

StreamBreaks ==
  /\ pc = "streaming"
  /\ pc' = "broken"
  /\ UNCHANGED <<provider, adapter, outcome>>

-----------------------------------------------------------------------------
(***************************************************************************)
(* The terminal response.                                                  *)
(***************************************************************************)
OfChannel(item, channel) == SelectSeq(item.parts, LAMBDA p : p.channel = channel)

(* The content of a reasoning item takes precedence over its summary.      *)
ReasoningText(item) ==
  LET content == Joined(OfChannel(item, "content"))
  IN IF content # <<>> THEN content ELSE Joined(OfChannel(item, "summary"))

AssistantParts(item) ==
  CASE item.kind = "reasoning" -> <<[kind |-> "reasoning", id |-> 0, text |-> ReasoningText(item)]>>
    [] item.kind = "function_call" -> <<[kind |-> "tool_call", id |-> item.id, text |-> Args(item)]>>
    [] item.kind = "message" -> [p \in DOMAIN item.parts |->
                                   [kind |-> "text", id |-> 0, text |-> item.parts[p].text]]
    [] OTHER -> <<[kind |-> "raw", id |-> 0, text |-> <<>>]>>

AssistantMessage == FlattenSeq([i \in DOMAIN output |-> AssistantParts(output[i])])

HasRefusal == \E i \in DOMAIN output : OfChannel(output[i], "refusal") # <<>>

NormalizedStopReason ==
  CASE HasRefusal -> "refusal"
    [] terminal.status = "completed" -> IF ToolCalls(AssistantMessage) # <<>> THEN "tool_call" ELSE "stop"
    [] terminal.why = "max_output_tokens" -> "max_completion_tokens"
    [] terminal.why = "content_filter" -> "refusal"
    [] OTHER -> "other"

CannotContinue == terminal.status # "completed" /\ NormalizedStopReason = "other"

ProviderFailure ==
  Unusable(IF terminal.why \in {"server_error", "rate_limit_exceeded"}
           THEN "provider_failed_transiently" ELSE "provider_failed_terminally", AssistantMessage)

FinishedUnlessOther ==  (* mutant *)
  Finished(AssistantMessage, NormalizedStopReason, FALSE)

Interpretation ==
  IF terminal.status = "failed" THEN ProviderFailure
  ELSE Finished(AssistantMessage, NormalizedStopReason, CannotContinue)

Interpret ==
  /\ pc = "drained"
  /\ \E validates \in BOOLEAN : outcome' = ResponseOutcome(Interpretation, validates)
  /\ pc' = "interpreted"
  /\ UNCHANGED <<provider, adapter>>

CountOf(kind) == Cardinality({i \in DOMAIN output : output[i].kind = kind})

NothingUntilTheEnd ==  (* mutant *)
  [known |-> terminal # NoTerminal, searches |-> CountOf("web_search_call")]

(* Counters and items of the terminal response are priced; before it, and  *)
(* for an item without a price, the cost is not known.                     *)
ProviderBilling ==
  [known |-> terminal # NoTerminal /\ CountOf("unpriceable") = 0,
   searches |-> CountOf("web_search_call")]

Stopped ==
  pc \in {"api_status_error", "stream_protocol_error", "broken", "interpreted"} /\ UNCHANGED vars

Next ==
  \/ ItemAdded \/ TerminalEvent \/ ErrorEvent
  \/ \E i \in Open : \/ ItemDone(i)
                     \/ \E c \in Channels[output[i].kind] : Delta(i, c) \/ PartDone(i, c)
  \/ StreamEnds \/ StreamBreaks \/ Interpret \/ Stopped

Spec == Init /\ [][Next]_vars

-----------------------------------------------------------------------------
AllParts(kind) ==
  FlattenSeq([i \in DOMAIN output |-> IF output[i].kind = kind THEN output[i].parts ELSE <<>>])

(* At every moment the consumer has seen all answer text and no refusal,   *)
(* the reasoning of both channels with each non-empty part set off once,   *)
(* and of the calls exactly those that are done; an item that used one     *)
(* channel is streamed as the message will have it.                        *)
StreamIsFaithful ==
  /\ Streamed(items, "text")
       = Texts(SelectSeq(AllParts("message"), LAMBDA p : p.channel = "output_text"))
  /\ Streamed(items, "reasoning_delta") = Joined(AllParts("reasoning"))
  /\ (\A i \in DOMAIN output : OfChannel(output[i], "summary") = <<>>
                                 \/ OfChannel(output[i], "content") = <<>>) =>
       Streamed(items, "reasoning_delta") = Joined(Parts(AssistantMessage, "reasoning"))
  /\ CallsAreFormed(items)
  /\ pc = "drained" /\ Open = {} =>
       ToSet(SelectSeq(items, LAMBDA x : x.kind = "tool_call"))
         = {CallItem(i, Args(output[i])) : i \in forming}

(* What a generation is made of is whole: no call of a response that was   *)
(* cut short, failed or refused is returned, nor any text that OpenAI says *)
(* failed, and an unfinished response passes for finished only by a named  *)
(* reason.                                                                 *)
GenerationIsWhole ==
  outcome \in {"plain_response", "tool_call_response"} =>
    /\ terminal.status \in {"completed", "incomplete"}
    /\ terminal.status = "incomplete" =>
         HasRefusal \/ terminal.why \in {"max_output_tokens", "content_filter"}
    /\ outcome = "tool_call_response" => \A i \in Open : output[i].kind # "function_call"
    /\ outcome = "plain_response" => forming = {}

(* A cost is known only when the response that lists the searches is in,   *)
(* and never when an item has no price.                                    *)
SearchesAreBilled ==
  ProviderBilling.known =>
    /\ ProviderBilling.searches = CountOf("web_search_call")
    /\ \A i \in DOMAIN output : output[i].kind # "unpriceable"
    /\ pc # "stream_protocol_error" /\ pc # "api_status_error"
=============================================================================
