---------------------------- MODULE ForeignSpans ----------------------------
(***************************************************************************)
(* An application that replays the chat spans of any tracer: it parses the *)
(* attributes of a span and converts its prompt, input and generation and  *)
(* the binding, one after another.  A conversion gives a value or raises   *)
(* OtelToLangchaintConversionError.                                        *)
(***************************************************************************)
EXTENDS SpanParsing

CONSTANTS Spans, Callers

VARIABLES span, caller, phase, input, binding, record

vars == <<span, caller, phase, input, binding, record>>

Raised == [kind |-> "raised"]
Converted(value) == [kind |-> "converted", value |-> value]

Init ==
  /\ span \in Spans /\ caller \in Callers
  /\ phase = "parsed"
  /\ input = Raised /\ binding = Raised /\ record = Raised

ReadInput ==
  /\ phase = "parsed"
  /\ phase' = "input"
  /\ input' = IF InputConverts(span) THEN Converted(GenerationInputFromOtel(span)) ELSE Raised
  /\ UNCHANGED <<span, caller, binding, record>>

Bind ==
  /\ phase = "input"
  /\ phase' = "bound"
  /\ binding' = IF BindingConverts(span, caller)
                THEN Converted([prompt |-> SystemPromptFromOtel(span), tools |-> caller.tools])
                ELSE Raised
  /\ UNCHANGED <<span, caller, input, record>>

ReadRecord ==
  /\ phase = "bound"
  /\ phase' = "read"
  /\ record' = IF RecordConverts(span) THEN Converted(RecordFromOtel(span)) ELSE Raised
  /\ UNCHANGED <<span, caller, input, binding>>

Rest == phase = "read" /\ UNCHANGED vars

Next == ReadInput \/ Bind \/ ReadRecord \/ Rest

Spec == Init /\ [][Next]_vars

-----------------------------------------------------------------------------
Recorded(messages) == [i \in DOMAIN messages |-> InputMessage(NoRule, messages[i])]

NotSystem(messages) == SelectSeq(messages, LAMBDA m : m.role # "system")

(* Traced again, what was converted records the messages and the prompt of *)
(* the span: a conversion that succeeds has lost nothing.                  *)
ConversionIsLossless ==
  /\ input.kind = "converted" =>
       Recorded(input.value) = NotSystem(Value(span, InputMessages, <<>>))
  /\ binding.kind = "converted" =>
       RecordedContent(NoRule, Instructions, binding.value.prompt) =
         IF SystemMessages(Value(span, InputMessages, <<>>)) = {}
         THEN Value(span, Instructions, <<>>)
         ELSE span[InputMessages][1].parts

(* A prompt said twice, late or among the messages is never one of two, nor *)
(* left out: binding and input are refused together.                       *)
OnePromptOrNone ==
  /\ phase # "parsed" /\ input.kind = "converted" =>
       /\ Cardinality(SystemMessages(Value(span, InputMessages, <<>>))) <= 1
       /\ \A i \in SystemMessages(Value(span, InputMessages, <<>>)) :
            i = 1 /\ Value(span, Instructions, <<>>) = <<>>
  /\ binding.kind = "converted" /\ input.kind = "raised" =>
       \E m \in ToSet(NotSystem(Value(span, InputMessages, <<>>))) : ~MessageConverts(m)

(* The tools a replay can call are those the model was told of.            *)
ToolsAreTheSpans ==
  binding.kind = "converted" /\ Has(span, Definitions) =>
    binding.value.tools = span[Definitions]

(* A record states the stop reason of every place that gives one, and has  *)
(* the shape its kind requires.                                            *)
RecordAgrees ==
  record.kind = "converted" =>
    LET r == record.value
        inMessage == span[OutputMessages][1].finish_reason
    IN /\ RecordAccepts(r.kind, r.content)
       /\ r.kind = "plain" => r.output # "none"
       /\ Has(span, FinishReasons) =>
            \A i \in DOMAIN span[FinishReasons] :
              r.stop_reason = StopReasonFromOtel(span[FinishReasons][i])
       /\ inMessage # "none" => r.stop_reason = StopReasonFromOtel(inMessage)
       /\ ~Has(span, ErrorType) /\ inMessage # "error"

(* The type of what is read: langchaint's messages and parts.              *)
TypeOK ==
  /\ phase \in {"parsed", "input", "bound", "read"}
  /\ input.kind = "converted" =>
       \A m \in ToSet(input.value) : \A p \in ToSet(m.parts) :
         p.kind \in IF m.role = "assistant" THEN {"text", "tool_call"}
                   ELSE {"text", "image", "image_url", "audio"}
  /\ record.kind = "converted" =>
       /\ record.value.stop_reason \in StopReasons
       /\ \A p \in ToSet(record.value.content) : p.kind \in {"text", "tool_call"}
=============================================================================
