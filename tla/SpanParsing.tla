---------------------------- MODULE SpanParsing ----------------------------
(***************************************************************************)
(* What a span records of prompts, messages, tool calls and results: the   *)
(* rendering of tracing/__init__.py after the application's content filter; *)
(* and what span_parsing.py reads back from the attributes of a chat span, *)
(* of this library's tracer or of another's.                               *)
(*                                                                         *)
(* A part is a kind and a form.  The form of a text says what it parses as *)
(* ("words" is no JSON, "json" is no value of the response model), that of *)
(* a tool call what its args_json is ("text" is no JSON).  A filter is one *)
(* rule: its verdict on the parts of one kind in one attribute.  A         *)
(* conversion that has no lossless result raises: each is a condition for  *)
(* it and the value it gives.                                              *)
(***************************************************************************)
EXTENDS ResponseRules, TLC

Part(kind, form) == [kind |-> kind, form |-> form]
OtelPart(type, form) == [type |-> type, form |-> form]

NoAttributes == [key \in {} |-> key]
Optional(condition, key, value) == IF condition THEN key :> value ELSE NoAttributes
Has(attributes, key) == key \in DOMAIN attributes
Without(attributes, keys) == [key \in DOMAIN attributes \ keys |-> attributes[key]]

Instructions == "gen_ai.system_instructions"
Definitions == "gen_ai.tool.definitions"
InputMessages == "gen_ai.input.messages"
OutputMessages == "gen_ai.output.messages"
CallArguments == "gen_ai.tool.call.arguments"
CallResult == "gen_ai.tool.call.result"
ContentKeys ==
  {Instructions, Definitions, InputMessages, OutputMessages, CallArguments, CallResult}

NoRule == [attribute |-> "none", kind |-> "none", verdict |-> "keep"]

Verdict(rule, attribute, part) ==
  IF rule.attribute = attribute /\ rule.kind = part.kind THEN rule.verdict ELSE "keep"

(* A part of another kind cannot take the place of the one passed in.      *)
Raises(rule, attribute, parts) ==
  \E p \in ToSet(parts) : Verdict(rule, attribute, p) \in {"raise", "other_kind"}

FilteredPart(rule, attribute, part) ==
  IF Verdict(rule, attribute, part) = "redact" THEN [part EXCEPT !.form = "redacted"] ELSE part

Kept(rule, attribute, parts) ==
  LET kept == SelectSeq(parts, LAMBDA p : Verdict(rule, attribute, p) # "drop")
  IN [i \in DOMAIN kept |-> FilteredPart(rule, attribute, kept[i])]

ContentPart(part) ==
  CASE part.kind = "text" -> OtelPart("text", part.form)
    [] part.kind \in {"image", "audio"} -> OtelPart("blob", part.kind)
    [] part.kind = "image_url" -> OtelPart("uri", "image")

RecordedContent(rule, attribute, parts) ==
  LET kept == Kept(rule, attribute, parts) IN [i \in DOMAIN kept |-> ContentPart(kept[i])]

(* Arguments that are no JSON are recorded as a JSON string.               *)
CallArgumentsForm(part) == IF part.form \in {"string", "text"} THEN "string" ELSE part.form

AssistantPart(part) ==
  OtelPart(part.kind, IF part.kind = "tool_call" THEN CallArgumentsForm(part) ELSE part.form)

Readable(part) == part.kind # "raw" /\ ~(part.kind = "reasoning" /\ part.form = "empty")

RecordedAssistantParts(rule, attribute, parts) ==
  LET readable == SelectSeq(Kept(rule, attribute, parts), Readable)
  IN [i \in DOMAIN readable |-> AssistantPart(readable[i])]

Message(role, parts, isError) == [role |-> role, parts |-> parts, is_error |-> isError]

WithoutIsError(rule, message) ==  (* mutant *)
  IF message.role = "assistant"
  THEN Message("assistant", RecordedAssistantParts(rule, InputMessages, message.parts), FALSE)
  ELSE Message(message.role, RecordedContent(rule, InputMessages, message.parts), FALSE)

(* A tool message is one tool_call_response part, here its content.        *)
InputMessage(rule, message) ==
  IF message.role = "assistant"
  THEN Message("assistant", RecordedAssistantParts(rule, InputMessages, message.parts), FALSE)
  ELSE Message(message.role, RecordedContent(rule, InputMessages, message.parts), message.is_error)

(* One schema json.dumps rejects takes the group with it.                  *)
InputGroupRaises(rule, prompt, tools, messages) ==
  \/ Raises(rule, Instructions, prompt)
  \/ tools = "unserializable"
  \/ \E m \in ToSet(messages) : Raises(rule, InputMessages, m.parts)

(* A prompt of None and one without parts are recorded alike.              *)
InputContent(rule, prompt, tools, messages) ==
  LET instructions == RecordedContent(rule, Instructions, prompt)
  IN Optional(instructions # <<>>, Instructions, instructions)
     @@ Optional(tools # "none", Definitions, tools)
     @@ Optional(messages # <<>>, InputMessages,
                 [i \in DOMAIN messages |-> InputMessage(rule, messages[i])])

FinishReason(stopReason) == IF stopReason = "max_completion_tokens" THEN "length" ELSE stopReason

OutputContent(rule, parts, stopReason) ==
  OutputMessages :>
    <<[role |-> "assistant", parts |-> RecordedAssistantParts(rule, OutputMessages, parts),
       finish_reason |-> IF stopReason = "none" THEN "error" ELSE FinishReason(stopReason)]>>

ArgumentsContent(rule, call) ==
  Optional(Verdict(rule, CallArguments, call) # "drop", CallArguments,
           CallArgumentsForm(FilteredPart(rule, CallArguments, call)))

ResultContent(rule, parts, isError) ==
  CallResult :> Message("tool", RecordedContent(rule, CallResult, parts), isError)

-----------------------------------------------------------------------------
FinishReasons == "gen_ai.response.finish_reasons"
OutputType == "gen_ai.output.type"
ErrorType == "error.type"

Value(attributes, key, absent) == IF Has(attributes, key) THEN attributes[key] ELSE absent

ExtraTextConverts(part) ==  (* mutant *)
  \/ part.type = "text"
  \/ part.type = "blob" /\ part.form \in {"image", "audio"}
  \/ part.type = "uri" /\ part.form = "image"

(* "extra" is a part with a property langchaint has no place for.          *)
ContentConverts(part) ==
  \/ part.type = "text" /\ part.form # "extra"
  \/ part.type = "blob" /\ part.form \in {"image", "audio"}
  \/ part.type = "uri" /\ part.form = "image"

TextPart(part) == Part("text", IF part.form = "extra" THEN "words" ELSE part.form)

ContentPartFromOtel(part) ==
  CASE part.type = "text" -> TextPart(part)
    [] part.type = "blob" -> Part(part.form, part.form)
    [] part.type = "uri" -> Part("image_url", "image")

StringArgumentsConvert(part) ==  (* mutant *)
  \/ part.type = "text" /\ part.form # "extra"
  \/ part.type = "tool_call" /\ part.form \notin {"extra", "without_id"}

(* A string of arguments is JSON text or a JSON string: nobody can tell.   *)
AssistantConverts(part) ==
  \/ part.type = "text" /\ part.form # "extra"
  \/ part.type = "tool_call" /\ part.form \notin {"extra", "string", "without_id"}

AssistantPartFromOtel(part) ==
  IF part.type = "text" THEN TextPart(part) ELSE Part(part.type, part.form)

(* A message with a name or further properties, of a provider's own role,  *)
(* or of a tool but not one response with an id, has the role "odd".       *)
MessageConverts(message) ==
  /\ message.role \in {"user", "assistant", "tool"}
  /\ \A p \in ToSet(message.parts) :
       IF message.role = "assistant" THEN AssistantConverts(p) ELSE ContentConverts(p)

MessageFromOtel(message) ==
  LET parts == message.parts
  IN Message(message.role,
             [i \in DOMAIN parts |->
                IF message.role = "assistant" THEN AssistantPartFromOtel(parts[i])
                ELSE ContentPartFromOtel(parts[i])],
             message.is_error)

SystemMessages(messages) == {i \in DOMAIN messages : messages[i].role = "system"}

AnySystemMessage(attributes) ==  (* mutant *)
  LET messages == Value(attributes, InputMessages, <<>>)
  IN \/ SystemMessages(messages) = {}
     \/ messages[1].role = "system" /\ messages[1].parts # <<>>

SystemPromptIsInOnePlace(attributes) ==
  LET messages == Value(attributes, InputMessages, <<>>)
  IN \/ SystemMessages(messages) = {}
     \/ /\ Value(attributes, Instructions, <<>>) = <<>>
        /\ SystemMessages(messages) = {1}
        /\ messages[1].parts # <<>>

SystemPromptParts(attributes) ==
  LET messages == Value(attributes, InputMessages, <<>>)
  IN IF SystemMessages(messages) = {} THEN Value(attributes, Instructions, <<>>)
     ELSE messages[1].parts

SystemPromptConverts(attributes) ==
  /\ SystemPromptIsInOnePlace(attributes)
  /\ \A p \in ToSet(SystemPromptParts(attributes)) : p.type = "text" /\ p.form # "extra"

(* None and a prompt without parts are one: the span has no instructions.  *)
SystemPromptFromOtel(attributes) ==
  LET parts == SystemPromptParts(attributes)
  IN [i \in DOMAIN parts |-> TextPart(parts[i])]

InputConverts(attributes) ==
  /\ SystemPromptConverts(attributes)
  /\ \A m \in ToSet(Value(attributes, InputMessages, <<>>)) :
       m.role = "system" \/ MessageConverts(m)

GenerationInputFromOtel(attributes) ==
  LET messages == SelectSeq(Value(attributes, InputMessages, <<>>), LAMBDA m : m.role # "system")
  IN [i \in DOMAIN messages |-> MessageFromOtel(messages[i])]

MessageReasonOnly(attributes) == attributes[OutputMessages][1].finish_reason  (* mutant *)

(* Both places of the finish reason, where both are given, have to agree.  *)
SelectedFinishReason(attributes) ==
  LET inMessage == attributes[OutputMessages][1].finish_reason
      reasons == Value(attributes, FinishReasons, <<inMessage>>)
  IN IF Len(reasons) # 1 \/ (inMessage # "none" /\ inMessage # reasons[1]) THEN "none"
     ELSE reasons[1]

StopReasonFromOtel(reason) ==
  CASE reason = "length" -> "max_completion_tokens"
    [] reason = "content_filter" -> "refusal"
    [] reason \in {"stop", "tool_call", "refusal", "context_window_exceeded"} -> reason
    [] OTHER -> "other"

SpanContentOf(attributes) ==
  LET parts == attributes[OutputMessages][1].parts
  IN [i \in DOMAIN parts |-> AssistantPartFromOtel(parts[i])]

SpanOutputValidates(attributes, content) ==
  \/ Value(attributes, OutputType, "text") = "text"
  \/ FinalTextIndex(content) # 0 /\ content[FinalTextIndex(content)].form \in {"json", "model"}

SpanOutcome(attributes) ==
  LET content == SpanContentOf(attributes)
  IN ResponseOutcome(
       Finished(content, StopReasonFromOtel(SelectedFinishReason(attributes)), FALSE),
       SpanOutputValidates(attributes, content))

RecordConverts(attributes) ==
  /\ ~Has(attributes, ErrorType)
  /\ Has(attributes, OutputMessages) /\ Len(attributes[OutputMessages]) = 1
  /\ attributes[OutputMessages][1].role = "assistant"
  /\ \A p \in ToSet(attributes[OutputMessages][1].parts) : AssistantConverts(p)
  /\ SelectedFinishReason(attributes) \notin {"none", "error"}
  /\ Value(attributes, OutputType, "text") \in {"text", "json"}
  /\ Has(attributes, "gen_ai.request.model")
  /\ SpanOutcome(attributes) \in {"plain_response", "tool_call_response"}

RecordFromOtel(attributes) ==
  LET content == SpanContentOf(attributes)
      plain == SpanOutcome(attributes) = "plain_response"
  IN [kind |-> IF plain THEN "plain" ELSE "tool_call",
      content |-> content,
      stop_reason |-> StopReasonFromOtel(SelectedFinishReason(attributes)),
      output |-> IF plain THEN content[FinalTextIndex(content)].form ELSE "none"]

BindingIgnoresTools(attributes, caller) ==  (* mutant *)
  /\ caller.model = Value(attributes, "gen_ai.request.model", "none")
  /\ SystemPromptConverts(attributes)
  /\ Value(attributes, OutputType, "text") = caller.output

(* The definitions of the span, when there are any, are the caller's.      *)
BindingConverts(attributes, caller) ==
  /\ caller.model = Value(attributes, "gen_ai.request.model", "none")
  /\ SystemPromptConverts(attributes)
  /\ Value(attributes, OutputType, "text") = caller.output
  /\ Has(attributes, Definitions) => attributes[Definitions] = caller.tools
=============================================================================
