--------------------------- MODULE SpanOperation ---------------------------
(***************************************************************************)
(* One operation an OtelObserver follows: a chat input or stream, a tool   *)
(* dispatch or an embedding request, from the start of its span to its     *)
(* end.  The observer's methods are called through _GuardedOperation, which *)
(* logs what they raise.  The application may change its messages while    *)
(* the operation runs, its filter and its transform may raise, and so may  *)
(* the span of its tracer provider.  An operation may be cancelled.        *)
(***************************************************************************)
EXTENDS SpanParsing

CONSTANTS
  AllSettings,     \* how observer, tracer provider and binding are set up
  OutcomesOf(_),   \* what an operation so set up can end in
  LaterMessage     \* what the application appends to its own list

VARIABLES settings, phase, messages, operation, span, outcome

vars == <<settings, phase, messages, operation, span, outcome>>

NoOutcome == [kind |-> "none"]
Chat(kind) == kind \in {"chat", "stream"}
Breaks(method) == method \in settings.broken

Identity(s) ==
  CASE Chat(s.kind) ->
         "gen_ai.operation.name" :> "chat" @@ "gen_ai.request.model" :> "model"
         @@ OutputType :> s.output @@ Optional(s.kind = "stream", "gen_ai.request.stream", TRUE)
    [] s.kind = "execute_tool" ->
         "gen_ai.operation.name" :> "execute_tool" @@ "gen_ai.tool.call.id" :> "call"
    [] s.kind = "embeddings" ->
         "gen_ai.operation.name" :> "embeddings" @@ "gen_ai.request.model" :> "model"

(* What the application adds to every span; two of its keys are langchaint's. *)
ExtraAttributes ==
  "app.team" :> "team" @@ "gen_ai.operation.name" :> "app" @@ "langchaint.cost_in_usd" :> 9

ExtraLast(s) == ExtraAttributes @@ Identity(s)  (* mutant *)

StartAttributes(s) == Identity(s) @@ ExtraAttributes

WithGroupUnguarded(s, attributes, raises, group) ==  (* mutant *)
  IF ~s.capture \/ ~s.recording THEN attributes ELSE group @@ attributes

(* A group the filter or the serialization raises in is left out whole.    *)
WithContentGroup(s, attributes, raises, group) ==
  IF ~s.capture \/ ~s.recording \/ raises THEN attributes ELSE group @@ attributes

StartGroup(s, input) ==
  CASE Chat(s.kind) ->
         WithContentGroup(s, StartAttributes(s),
                          InputGroupRaises(s.rule, s.prompt, s.tools, input),
                          InputContent(s.rule, s.prompt, s.tools, input))
    [] s.kind = "execute_tool" ->
         WithContentGroup(s, StartAttributes(s), Raises(s.rule, CallArguments, <<s.call>>),
                          ArgumentsContent(s.rule, s.call))
    [] s.kind = "embeddings" -> StartAttributes(s)

NewSpan(attributes) ==
  [attributes |-> attributes, status |-> "unset", events |-> 0, ended |-> 0]

Init ==
  /\ settings \in AllSettings
  /\ phase = "idle"
  /\ messages = settings.input
  /\ operation = [attributes |-> NoAttributes, status |-> "unset"]
  /\ span = NewSpan(NoAttributes)
  /\ outcome = NoOutcome

(* The content of the input is built now, and recorded when the span ends. *)
Start ==
  /\ phase = "idle"
  /\ ~Breaks("start_span")
  /\ phase' = "running"
  /\ operation' = [attributes |-> StartGroup(settings, messages), status |-> "unset"]
  /\ span' = NewSpan(IF settings.recording THEN StartAttributes(settings) ELSE NoAttributes)
  /\ UNCHANGED <<settings, messages, outcome>>

(* The operation runs unobserved.                                          *)
StartRaises ==
  /\ phase = "idle"
  /\ Breaks("start_span")
  /\ phase' = "unobserved"
  /\ UNCHANGED <<settings, messages, operation, span, outcome>>

ApplicationAppends ==
  /\ phase = "running"
  /\ Chat(settings.kind)
  /\ messages = settings.input
  /\ messages' = Append(messages, LaterMessage)
  /\ UNCHANGED <<settings, phase, operation, span, outcome>>

FailedRequests(o) == Cardinality({i \in DOMAIN o.records : o.records[i].failed})

(* Billing of every request, response details of the last.                 *)
OutcomeAttributes(o) ==
  LET billed == Cardinality({i \in DOMAIN o.records : o.records[i].billed})
      n == Len(o.records)
  IN "langchaint.request_count" :> n @@ "langchaint.cost_in_usd" :> billed
     @@ Optional(n > 0 /\ o.records[n].served, "gen_ai.response.model", "served")
     @@ Optional(n > 0 /\ o.records[n].item, "gen_ai.response.time_to_first_chunk", 1)
     @@ Optional(o.stop_reason # "none", FinishReasons, <<FinishReason(o.stop_reason)>>)

ChatFails(o) == o.kind \notin {"plain", "tool_call", "abandoned_stream"}

ChatConclusion(s, attributes, o) ==
  LET content == IF o.has_message
                 THEN WithContentGroup(s, OutcomeAttributes(o) @@ attributes,
                                       Raises(s.rule, OutputMessages, o.content),
                                       OutputContent(s.rule, o.content, o.stop_reason))
                 ELSE OutcomeAttributes(o) @@ attributes
  IN IF ChatFails(o) THEN [attributes |-> ErrorType :> o.kind @@ content, status |-> "error"]
     ELSE [attributes |-> content, status |-> IF o.kind = "abandoned_stream" THEN "unset" ELSE "ok"]

ToolError(o) ==
  CASE o.kind = "handled" -> IF o.is_error THEN "tool_error" ELSE "none"
    [] OTHER -> o.kind

DispatchConclusion(s, attributes, o) ==
  LET content == IF o.kind = "raised" THEN attributes
                 ELSE WithContentGroup(s, attributes, Raises(s.rule, CallResult, o.parts),
                                       ResultContent(s.rule, o.parts, o.is_error))
  IN IF ToolError(o) = "none" THEN [attributes |-> content, status |-> "ok"]
     ELSE [attributes |-> ErrorType :> ToolError(o) @@ content, status |-> "error"]

EmbeddingConclusion(attributes, o) ==
  LET reported == Optional(o.usage, "langchaint.cost_in_usd", 1)
                  @@ Optional(o.served, "gen_ai.response.model", "served") @@ attributes
  IN IF o.kind = "embedded" THEN [attributes |-> reported, status |-> "ok"]
     ELSE [attributes |-> ErrorType :> o.kind @@ reported, status |-> "error"]

Conclusion(s, attributes, o) ==
  CASE Chat(s.kind) -> ChatConclusion(s, attributes, o)
    [] s.kind = "execute_tool" -> DispatchConclusion(s, attributes, o)
    [] s.kind = "embeddings" -> EmbeddingConclusion(attributes, o)

Events(s, o) ==
  CASE Chat(s.kind) -> FailedRequests(o)
    [] s.kind = "execute_tool" -> IF o.kind = "raised" THEN 1 ELSE 0
    [] s.kind = "embeddings" -> 0

ConcludeContentFirst(o) ==  (* mutant *)
  /\ phase = "running"
  /\ phase' = "concluded"
  /\ outcome' = o
  /\ operation' =
       LET concluded == Conclusion(settings, operation.attributes, o)
       IN IF Breaks("add_event") /\ Events(settings, o) > 0
          THEN [concluded EXCEPT !.attributes = Without(@, {ErrorType}), !.status = "unset"]
          ELSE concluded
  /\ span' = IF Breaks("add_event") \/ ~settings.recording THEN span
             ELSE [span EXCEPT !.events = Events(settings, o)]
  /\ UNCHANGED <<settings, messages>>

(* An event the span does not take ends the conclusion: no attribute and   *)
(* no status follows, and the guard logs it.                               *)
Conclude(o) ==
  /\ phase = "running"
  /\ phase' = "concluded"
  /\ outcome' = o
  /\ IF Breaks("add_event") /\ Events(settings, o) > 0
     THEN UNCHANGED <<operation, span>>
     ELSE /\ operation' = Conclusion(settings, operation.attributes, o)
          /\ span' = IF settings.recording THEN [span EXCEPT !.events = Events(settings, o)] ELSE span
  /\ UNCHANGED <<settings, messages>>

AfterRaisingNothing(transform, attributes) == NoAttributes  (* mutant *)

(* A transform that raises leaves error.type.                              *)
AfterRaising(transform, attributes) ==
  Optional(Has(attributes, ErrorType), ErrorType, Value(attributes, ErrorType, "none"))

Transformed(transform, attributes) ==
  CASE transform = "keep" -> attributes
    [] transform = "raise" -> AfterRaising(transform, attributes)
    [] transform = "redact" -> Without(attributes, ContentKeys)
    [] transform = "relabel" -> "app.team" :> "relabelled" @@ attributes
    [] transform = "forget" -> NoAttributes

EndRendersTheInput ==  (* mutant *)
  /\ phase \in {"running", "concluded"}
  /\ phase' = "ended"
  /\ span' =
       LET again == Optional(Chat(settings.kind) /\ Has(operation.attributes, InputMessages),
                             InputMessages, [i \in DOMAIN messages |-> InputMessage(settings.rule, messages[i])])
       IN [span EXCEPT
             !.ended = @ + 1,
             !.attributes = Transformed(settings.transform, again @@ operation.attributes) @@ @]
  /\ UNCHANGED <<settings, messages, operation, outcome>>

EndUnlessBroken ==  (* mutant *)
  /\ phase \in {"running", "concluded"}
  /\ phase' = "ended"
  /\ span' = IF Breaks("set_status") /\ operation.status # "unset" THEN span
             ELSE [span EXCEPT !.ended = @ + 1]
  /\ UNCHANGED <<settings, messages, operation, outcome>>

(* Cancelled before its outcome, an operation ends without a conclusion.   *)
(* The span ends whatever its status or its attributes do.                 *)
End ==
  /\ phase \in {"running", "concluded"}
  /\ phase' = "ended"
  /\ span' =
       LET statusRaises == Breaks("set_status") /\ operation.status # "unset"
           recorded == settings.recording /\ ~statusRaises /\ ~Breaks("set_attributes")
       IN [span EXCEPT
             !.ended = @ + 1,
             !.status = IF statusRaises \/ ~settings.recording THEN @ ELSE operation.status,
             !.attributes = IF recorded THEN Transformed(settings.transform, operation.attributes) @@ @
                            ELSE @]
  /\ UNCHANGED <<settings, messages, operation, outcome>>

Rest == phase \in {"ended", "unobserved"} /\ UNCHANGED vars

Next ==
  \/ Start \/ StartRaises \/ ApplicationAppends \/ End \/ Rest
  \/ \E o \in OutcomesOf(settings) : Conclude(o)

Spec == Init /\ [][Next]_vars

-----------------------------------------------------------------------------
Ended == phase = "ended"
Works == settings.recording /\ settings.broken = {}
Generated(o) == o.kind \in {"plain", "tool_call"}

(* Type correctness of the operation's handle and of its span.             *)
TypeOK ==
  /\ phase \in {"idle", "running", "concluded", "ended", "unobserved"}
  /\ operation.status \in {"unset", "ok", "error"} /\ span.status \in {"unset", "ok", "error"}
  /\ DOMAIN span.attributes \subseteq DOMAIN operation.attributes \cup {"app.team"}
  /\ span.events \in Nat /\ span.ended \in Nat

(* A started span ends exactly once, whatever its own methods, the filter  *)
(* and the transform raise and whether the operation is cancelled.         *)
SpanEndsOnce == span.ended = IF Ended THEN 1 ELSE 0

(* A failure keeps its error status and its error.type together, also when *)
(* the transform raises; nothing but a failure has either.                 *)
StatusTellsTheOutcome ==
  Ended /\ Works =>
    LET failed == CASE outcome = NoOutcome -> FALSE
                    [] Chat(settings.kind) -> ChatFails(outcome)
                    [] settings.kind = "execute_tool" -> ToolError(outcome) # "none"
                    [] OTHER -> outcome.kind # "embedded"
    IN /\ (span.status = "error") = failed
       /\ Has(span.attributes, ErrorType) = (failed /\ settings.transform # "forget")
       /\ (span.status = "unset") = (outcome.kind \in {"none", "abandoned_stream"})

RecordedParts(key) ==
  CASE ~Has(span.attributes, key) -> {}
    [] key = InputMessages ->
         UNION {ToSet(m.parts) : m \in ToSet(span.attributes[key])}
    [] key = OutputMessages -> ToSet(span.attributes[key][1].parts)
    [] key = Instructions -> ToSet(span.attributes[key])
    [] key = CallResult -> ToSet(span.attributes[key].parts)
    [] OTHER -> {}

RecordedAs(kind, part) ==
  CASE kind \in {"text", "reasoning", "tool_call"} -> part.type = kind
    [] kind = "image_url" -> part.type = "uri"
    [] OTHER -> part.type = "blob" /\ part.form = kind

(* No content leaves without capture, past a transform that removes it or  *)
(* raises, or past the application's filter: what the filter omits or      *)
(* chokes on is recorded nowhere under that attribute.                     *)
ContentIsTheFilters ==
  LET rule == settings.rule
  IN /\ ~settings.capture \/ settings.transform \in {"raise", "redact", "forget"} =>
          DOMAIN span.attributes \cap ContentKeys = {}
     /\ rule.verdict # "keep" =>
          \A p \in RecordedParts(rule.attribute) :
            RecordedAs(rule.kind, p) => rule.verdict = "redact" /\ p.form = "redacted"
     /\ Has(span.attributes, CallArguments) /\ rule.attribute = CallArguments =>
          rule.verdict = "redact" /\ span.attributes[CallArguments] = "redacted"

(* The input recorded is the one the operation started with, although the  *)
(* application may have changed its messages before the span ended.        *)
InputIsTheStarts ==
  Has(span.attributes, InputMessages) =>
    span.attributes[InputMessages] =
      [i \in DOMAIN settings.input |-> InputMessage(settings.rule, settings.input[i])]

(* langchaint's identity of the operation holds against extra attributes   *)
(* and transforms; the outcome replaces what the application had put there.*)
IdentityHolds ==
  phase # "idle" /\ span.attributes # NoAttributes =>
    /\ \A key \in DOMAIN Identity(settings) : span.attributes[key] = Identity(settings)[key]
    /\ Ended /\ Works /\ settings.transform = "keep" /\ outcome # NoOutcome /\ Chat(settings.kind) =>
         span.attributes["langchaint.cost_in_usd"] =
           Cardinality({i \in DOMAIN outcome.records : outcome.records[i].billed})

(* Only the span of a generation reads back as a record: none of a failed, *)
(* abandoned or cancelled input, whatever was filtered, edited or lost.    *)
OnlyGenerationsReadBack ==
  Ended /\ Chat(settings.kind) /\ RecordConverts(span.attributes) => Generated(outcome)

RecordedWhole ==
  Ended /\ Works /\ Chat(settings.kind) /\ settings.capture /\ settings.rule = NoRule
  /\ settings.transform \in {"keep", "relabel"}

Representable(part) ==
  part.kind = "text" \/ (part.kind = "tool_call" /\ part.form \notin {"string", "text"})

(* What is read back is the generation itself, its kind, stop reason and   *)
(* output, or nothing; nothing only for parts a span cannot represent.     *)
GenerationReadsBack ==
  RecordedWhole /\ outcome # NoOutcome /\ Generated(outcome) =>
    LET record == RecordFromOtel(span.attributes)
    IN /\ RecordConverts(span.attributes) =>
            /\ record.kind = outcome.kind
            /\ record.stop_reason = outcome.stop_reason
            /\ record.content = SelectSeq(outcome.content, Readable)
            /\ record.output = IF outcome.kind = "plain"
                                THEN outcome.content[FinalTextIndex(outcome.content)].form
                                ELSE "none"
       /\ (\A p \in ToSet(outcome.content) : Representable(p)) => RecordConverts(span.attributes)

(* The input and the prompt read back unchanged but for unreadable parts,  *)
(* or not at all; the tools as long as their schemas could be recorded.    *)
InputReadsBack ==
  RecordedWhole /\ settings.tools # "unserializable" =>
    /\ InputConverts(span.attributes) =>
         /\ SystemPromptFromOtel(span.attributes) = settings.prompt
         /\ GenerationInputFromOtel(span.attributes) =
              [i \in DOMAIN settings.input |->
                 [settings.input[i] EXCEPT !.parts = SelectSeq(@, Readable)]]
    /\ (\A m \in ToSet(settings.input) : m.role = "assistant" =>
           \A p \in ToSet(m.parts) : Representable(p)) => InputConverts(span.attributes)
    /\ BindingConverts(span.attributes,
                       [model |-> "model", output |-> settings.output, tools |-> settings.tools])
=============================================================================
