----------------------------- MODULE MCRecords -----------------------------
(***************************************************************************)
(* What outlives a call: resume files and the fingerprints in them, spans  *)
(* and what is read from them, the price catalogue.  A behaviour is of one *)
(* of the five components, the others' variables are None.                 *)
(***************************************************************************)
EXTENDS SpanParsing

CONSTANTS
  None, NaN,
  Shapes, MaxCalls,                                (* of the resume file   *)
  Upstreams, OpenAIKeys, AnthropicKeys, BedrockKeys, OpenAIEmbeddingKeys,
  CohereKeys, Regions, Unit                        (* of the catalogue     *)

(* Resume file: equal inputs, a change of order, of the binding, of one   *)
(* input behind its id, and of the kind of identity.                       *)

Shape(c, ids, inputs) == [config |-> c, ids |-> ids, inputs |-> inputs]

SomeShapes ==
  {Shape("c", <<>>, <<"a", "b">>), Shape("c", <<>>, <<"b", "b">>),
   Shape("c", <<"x", "y">>, <<"a", "b">>), Shape("c", <<"y", "x">>, <<"b", "b">>),
   Shape("c", <<"y">>, <<"b">>), Shape("d", <<"x", "y">>, <<"a", "b">>)}

-----------------------------------------------------------------------------

Containers == {"o1", "o2", "o3"}
Scalars == {"text", "number", "odd"}
Roots == <<"o1", "o2">>

ScalarsOf ==
  [text |-> [kind |-> "str", inside |-> "1"], number |-> [kind |-> "int", inside |-> "1"],
   odd |-> [kind |-> "other", inside |-> ""]]

ItemLists(items) == {<<>>} \union {<<x>> : x \in items} \union (items \X items)

Hashable(o, of) == o \in Scalars \/ of[o].kind \in {"tuple", "frozenset"}

Ordered(items) == {[kind |-> k, inside |-> s] : k \in {"list", "tuple"}, s \in ItemLists(items)}
Unordered(items) ==
  {[kind |-> k, inside |-> s] : k \in {"set", "frozenset"},
     s \in {s \in ItemLists(items) : Cardinality(ToSet(s)) = Len(s)}}
Keyed(items) ==
  {[kind |-> "mapping", inside |-> s] :
     s \in {<<>>} \union {<<<<k, x>>>> : k \in {"k1", "k2", "other"}, x \in items}
          \union {<<<<k[1], x>>, <<k[2], y>>>> : k \in {<<"k1", "k2">>, <<"k2", "k1">>},
                                          x \in items, y \in items}}

(* The third container, inside the others.                                 *)
Thirds ==
  Ordered({"text"}) \union {[kind |-> "frozenset", inside |-> s] : s \in {<<>>, <<"number", "text">>}}
  \union {[kind |-> "list", inside |-> <<o>>] : o \in {"o1", "o2", "o3"}}
  \union {[kind |-> "mapping", inside |-> <<<<"k1", "text">>>>]}

Firsts(items) == Ordered(items) \union Unordered(items) \union Keyed(items)

HeapOf(a, b, c) == ScalarsOf @@ ("o1" :> a) @@ ("o2" :> b) @@ ("o3" :> c)

(* What Python can build: the items of sets are hashable, and so is what   *)
(* they hold.                                                              *)
InUnordered(h) ==
  UNION {ToSet(h[o].inside) : o \in {o \in Containers : h[o].kind \in {"set", "frozenset"}}}
Buildable(h) ==
  \A o \in InUnordered(h) :
    /\ Hashable(o, h)
    /\ o \in Containers => \A x \in ToSet(h[o].inside) : x \in {"text", "number"}

AList == [kind |-> "list", inside |-> <<"text">>]

Triples ==
  (Firsts({"text", "o3"}) \X Firsts({"text", "o3"}) \X Thirds)
  \union (Firsts({"text", "number"}) \X Firsts({"text", "number"}) \X {AList})
  \union (Firsts({"odd", "o2"}) \X Firsts({"text", "o1"}) \X {AList})

Heaps == {h \in {HeapOf(t[1], t[2], t[3]) : t \in Triples} : Buildable(h)}

-----------------------------------------------------------------------------

Text(form) == Part("text", form)
Call(form) == Part("tool_call", form)
Rule(attribute, kind, verdict) == [attribute |-> attribute, kind |-> kind, verdict |-> verdict]
User(parts) == Message("user", parts, FALSE)
LaterMessage == User(<<Text("words")>>)

Usual ==
  [kind |-> "chat", capture |-> TRUE, rule |-> NoRule, transform |-> "keep",
   recording |-> TRUE, broken |-> {}, prompt |-> <<Text("words")>>, tools |-> "plain",
   output |-> "text", call |-> Call("object"), input |-> <<User(<<Text("words")>>)>>]

Rules ==
  {Rule(Instructions, "text", "drop"), Rule(Instructions, "text", "raise"),
   Rule(InputMessages, "text", "drop"), Rule(InputMessages, "image", "other_kind"),
   Rule(OutputMessages, "text", "redact"), Rule(OutputMessages, "text", "drop"),
   Rule(OutputMessages, "tool_call", "drop"), Rule(OutputMessages, "reasoning", "raise"),
   Rule(CallArguments, "tool_call", "redact"), Rule(CallArguments, "tool_call", "drop"),
   Rule(CallResult, "image", "drop"), Rule(CallResult, "text", "raise")}

SpanInputs ==
  {<<>>,
   <<User(<<Text("words"), Part("image", "image"), Part("image_url", "image")>>)>>,
   <<User(<<Text("words")>>),
     Message("assistant", <<Part("reasoning", "empty"), Text("words"), Call("object")>>, FALSE),
     Message("tool", <<Text("json"), Part("audio", "audio")>>, TRUE)>>,
   <<User(<<Text("words")>>),
     Message("assistant", <<Call("text"), Part("raw", "raw")>>, FALSE),
     Message("tool", <<>>, FALSE)>>,
   <<User(<<Text("words")>>), Message("assistant", <<Part("reasoning", "read")>>, FALSE)>>}

Changes ==
  [capture : {FALSE}] \cup [rule : Rules] \cup [transform : {"raise", "redact", "relabel", "forget"}]
  \cup [recording : {FALSE}]
  \cup [broken : {{"start_span"}, {"add_event"}, {"set_status"}, {"set_attributes"}}]
  \cup [prompt : {<<>>, <<Text("words"), Text("json")>>}] \cup [tools : {"none", "unserializable"}]
  \cup [output : {"json"}] \cup [call : {Call("string"), Call("text")}] \cup [input : SpanInputs]

AllSettings ==
  UNION {{c2 @@ (c1 @@ [Usual EXCEPT !.kind = kind]) : c1 \in Changes, c2 \in Changes}
           : kind \in {"chat", "execute_tool", "embeddings"}}
  \cup {c @@ [Usual EXCEPT !.kind = "stream"] : c \in Changes}

Answers ==
  {<<>>, <<Text("words")>>, <<Text("json")>>, <<Text("words"), Text("model")>>, <<Call("object")>>,
   <<Text("model"), Call("object"), Call("text")>>,
   <<Part("raw", "raw"), Text("model")>>, <<Call("object"), Part("raw", "raw")>>,
   <<Text("model"), Part("reasoning", "empty")>>, <<Part("reasoning", "read"), Text("words")>>}

(* Those with which every stop reason comes.                               *)
SomeAnswers == {<<>>, <<Text("words"), Text("model")>>, <<Text("model"), Call("object"), Call("text")>>}

Request(failed, billed, served, item) ==
  [failed |-> failed, billed |-> billed, served |-> served, item |-> item]

Histories ==
  {<<Request(FALSE, TRUE, TRUE, TRUE)>>,
   <<Request(TRUE, TRUE, FALSE, FALSE), Request(FALSE, TRUE, FALSE, TRUE)>>}

SomeHistories == {<<Request(TRUE, TRUE, FALSE, FALSE), Request(FALSE, TRUE, FALSE, TRUE)>>}

ChatOutcome(kind, hasMessage, content, stopReason, records) ==
  [kind |-> kind, has_message |-> hasMessage, content |-> content, stop_reason |-> stopReason,
   records |-> records]

(* The stop reason an error implies is that of its kind.                   *)
ErrorStopReason(kind) ==
  CASE kind = "refusal_error" -> "refusal"
    [] kind = "max_completion_tokens_exceeded_error" -> "max_completion_tokens"
    [] kind = "context_window_exceeded_error" -> "context_window_exceeded"
    [] kind = "empty_assistant_message_error" -> "stop"
    [] OTHER -> "none"

Validates(s, content) ==
  \/ s.output = "text"
  \/ FinalTextIndex(content) # 0 /\ content[FinalTextIndex(content)].form = "model"

Responses(s) ==
  {LET kind == GenerationOutcome(
                 ResponseOutcome(Finished(r[1], r[2], r[3]), Validates(s, r[1])), s.tools # "none")
   IN ChatOutcome(kind, TRUE, r[1],
                  IF kind \in {"plain", "tool_call"} THEN r[2] ELSE ErrorStopReason(kind), r[4])
     : r \in (Answers \X {"stop"} \X {FALSE} \X Histories)
             \cup (SomeAnswers \X (StopReasons \ {"context_window_exceeded"}) \X {FALSE} \X SomeHistories)
             \cup ({<<Text("model")>>} \X {"stop"} \X {TRUE} \X Histories)}

(* A failed request may have left a message; a stream may be abandoned.    *)
Endings(s) ==
  {ChatOutcome("timed_out_error", FALSE, <<>>, "none", <<>>),
   ChatOutcome("retries_exhausted_error", TRUE, <<Text("model")>>, "none",
               <<Request(TRUE, TRUE, TRUE, TRUE)>>)}
  \cup IF s.kind = "chat" THEN {}
       ELSE {ChatOutcome("abandoned_stream", FALSE, <<>>, "none", <<Request(FALSE, TRUE, FALSE, TRUE)>>),
             ChatOutcome("abandoned_stream", TRUE, <<Text("model")>>, "none",
                         <<Request(TRUE, TRUE, FALSE, TRUE), Request(FALSE, FALSE, FALSE, FALSE)>>)}

Handled(kind, parts, isError) == [kind |-> kind, parts |-> parts, is_error |-> isError]

OutcomesOf(s) ==
  CASE s.kind \in {"chat", "stream"} -> Responses(s) \cup Endings(s)
    [] s.kind = "execute_tool" ->
         {Handled("handled", parts, isError) :
            parts \in {<<>>, <<Text("words"), Part("image", "image")>>}, isError \in BOOLEAN}
         \cup {Handled(kind, <<Text("words")>>, TRUE) : kind \in {"invalid_tool_args", "unknown_tool"}}
         \cup {Handled("raised", <<>>, TRUE)}
    [] s.kind = "embeddings" ->
         [kind : {"embedded", "rejected"}, usage : BOOLEAN, served : BOOLEAN]

-----------------------------------------------------------------------------

Words == OtelPart("text", "words")
PartsOfAny ==
  {Words, OtelPart("text", "extra"), OtelPart("blob", "image"), OtelPart("blob", "video"),
   OtelPart("blob", "untyped"), OtelPart("uri", "image"), OtelPart("uri", "other"),
   OtelPart("reasoning", "read"), OtelPart("compaction", "any"), OtelPart("tool_call", "object"),
   OtelPart("tool_call", "without_id"), OtelPart("tool_call", "string")}

ForeignMessages ==
  {Message(role, parts, isError) :
     role \in {"user", "assistant", "tool", "system", "odd"},
     parts \in {<<>>, <<Words>>} \cup {<<p>> : p \in PartsOfAny} \cup {<<Words, p>> : p \in PartsOfAny},
     isError \in {FALSE}}
  \cup {Message("tool", <<Words>>, TRUE)}

Short == {Message(role, <<Words>>, FALSE) : role \in {"user", "assistant", "system", "tool"}}

ForeignInputs == {<<>>} \cup {<<m>> : m \in ForeignMessages} \cup {<<m, n>> : m \in Short, n \in ForeignMessages}
          \cup {<<m, n>> : m \in ForeignMessages, n \in Short} \cup {<<m, n, o>> : m \in Short, n \in Short, o \in Short}

RequestSpan(extra) == "gen_ai.request.model" :> "model" @@ extra

InputSpans ==
  {RequestSpan(Optional(i # <<>>, InputMessages, i) @@ Optional(p # <<>>, Instructions, p)
        @@ Optional(t # "absent", Definitions, t))
     : i \in ForeignInputs, p \in {<<>>, <<Words>>, <<OtelPart("compaction", "any")>>},
       t \in {"absent", "plain", "generic"}}

Reasons == {"none", "stop", "length", "content_filter", "tool_call", "error", "custom"}

Outputs ==
  {<<>>} \cup
  {<<[role |-> role, parts |-> parts, finish_reason |-> reason]>> :
     role \in {"assistant", "odd"}, reason \in Reasons,
     parts \in {<<>>, <<Words>>, <<OtelPart("text", "json")>>, <<Words, OtelPart("text", "json")>>,
                <<OtelPart("tool_call", "object")>>, <<Words, OtelPart("tool_call", "object")>>,
                <<OtelPart("tool_call", "string")>>, <<OtelPart("reasoning", "read"), Words>>}}

OutputSpans ==
  {RequestSpan(OutputMessages :> o @@ OutputType :> t @@ Optional(e, ErrorType, "error")
        @@ Optional(r # <<>>, FinishReasons, r))
     : o \in Outputs, t \in {"text", "json", "image"}, e \in BOOLEAN,
       r \in {<<>>, <<"stop", "stop">>} \cup {<<x>> : x \in Reasons \ {"none"}}}

Spans == InputSpans \cup OutputSpans

Callers ==
  {[model |-> "model", output |-> "text", tools |-> "plain"],
   [model |-> "model", output |-> "json", tools |-> "none"],
   [model |-> "other", output |-> "text", tools |-> "plain"]}

-----------------------------------------------------------------------------

Standard(rates) ==
  [f \in {<<r, 0, "standard">> : r \in DOMAIN rates} |-> rates[f[1]]]

Tier(rates, above, tier) ==
  [f \in {<<r, above, tier>> : r \in DOMAIN rates} |-> rates[f[1]]]

NoUplift == [us |-> None, eu |-> None]
Entry(provider, rates, uplift, search) ==
  [provider |-> provider, rates |-> rates, uplift |-> uplift, search |-> search]

Searches == [low |-> 5, medium |-> 5, high |-> 5]

GptRates ==
  Standard([input |-> 2, output |-> 4, read |-> 1, write |-> 3])
    @@ Tier([input |-> 4, output |-> 6, read |-> 2], 272, "standard")
Gpt == Entry("openai", GptRates, [us |-> 11, eu |-> 11], Searches)
FlexRates ==
  Tier([input |-> 1, output |-> 2, read |-> 1, write |-> 3], 0, "flex")
    @@ Tier([input |-> 2, output |-> 3], 272, "flex")

ClaudeRates == Standard([input |-> 2, output |-> 6, read |-> 1, write |-> 3, write_1h |-> 4])
Claude ==
  Entry("anthropic",
        ClaudeRates @@ Tier([input |-> 1, output |-> 3, read |-> 1, write |-> 2], 0, "batches"),
        NoUplift, <<>>)
Bedrock == Entry("bedrock", ClaudeRates @@ Tier([input |-> 4, output |-> 9], 200, "standard"), NoUplift, <<>>)
UsBedrock ==
  Entry("bedrock",
        Standard([input |-> 4, output |-> 12, write_1h |-> 8])
          @@ Tier([input |-> 8, output |-> 18], 200, "standard"),
        NoUplift, <<>>)
Embedding(provider, rate) == Entry(provider, Standard([input |-> rate]), NoUplift, <<>>)

Valid ==
  <<"", "gpt">> :> Gpt @@ <<"", "claude">> :> Claude
    @@ <<"", "bedrock">> :> Bedrock @@ <<"", "bedrock2">> :> Bedrock @@ <<"us", "bedrock">> :> UsBedrock
    @@ <<"", "embedding">> :> Embedding("openai", 2)
    @@ <<"", "cohere">> :> Embedding("bedrock", 2) @@ <<"us", "cohere">> :> Embedding("bedrock", 3)

Values == {0, 4}

GptFields ==
  DOMAIN GptRates \union DOMAIN FlexRates
    \union {<<"write_1h", 0, "standard">>, <<"input", 128, "standard">>, <<"write", 272, "standard">>,
            <<"input", 0, "batches">>, <<"input", 0, "odd">>, <<"input", 272, "odd">>}
ClaudeFields ==
  DOMAIN Claude.rates
    \union {<<"input", 200, "standard">>, <<"output", 200, "standard">>, <<"write_1h", 200, "standard">>,
            <<"input", 200, "batches">>, <<"write_1h", 0, "batches">>, <<"input", 0, "flex">>}
BedrockFields ==
  DOMAIN Bedrock.rates \union {<<"input", 400, "standard">>, <<"read", 200, "standard">>, <<"input", 0, "batches">>}
EmbeddingListing ==
  {<<r, 0, t>> : r \in {"input", "output"}, t \in {"standard", "batches"}}
    \union {<<"read", 0, "standard">>, <<"input", 128, "standard">>}

(* The entries within one and within two edits of an entry.                *)
EditedRates(entry, fields) ==
  {[entry EXCEPT !.rates = (f :> v) @@ @] : f \in fields, v \in Values}
    \union {[entry EXCEPT !.rates = [g \in DOMAIN @ \ {f} |-> @[g]]] : f \in fields}

EditedElsewhere(entry) ==
  {[entry EXCEPT !.provider = "other"], [entry EXCEPT !.uplift.us = 1], [entry EXCEPT !.uplift.eu = None],
   [entry EXCEPT !.search = <<>>], [entry EXCEPT !.search = Searches],
   [entry EXCEPT !.search = [low |-> 5]], [entry EXCEPT !.search = [Searches EXCEPT !.high = 6]]}

Near(entry, fields) == {entry} \union EditedRates(entry, fields) \union EditedElsewhere(entry)

Nearby(entry, fields) == UNION {Near(e, fields) : e \in Near(entry, fields)}

(* A listing with two entries of its own, of which one may be as it was.   *)
Edited(name, entries, name2, entries2) == {name} \X entries \X {name2} \X entries2

Edits ==
  Edited(<<"", "gpt">>, Nearby(Gpt, GptFields), <<"", "claude">>, {Claude})
    \union Edited(<<"", "gpt">>, Nearby([Gpt EXCEPT !.rates = @ @@ FlexRates], GptFields),
                  <<"", "claude">>, {Claude})
    \union Edited(<<"", "claude">>, Nearby(Claude, ClaudeFields), <<"", "gpt">>, {Gpt})
    \union Edited(<<"us", "bedrock">>, Nearby(UsBedrock, BedrockFields), <<"", "bedrock">>, {Bedrock})
    \union Edited(<<"us", "bedrock">>, Near(UsBedrock, BedrockFields),
                  <<"", "bedrock">>, Near(Bedrock, BedrockFields))
    \union Edited(<<"us", "bedrock2">>, Nearby(UsBedrock, BedrockFields), <<"", "bedrock">>, {Bedrock})
    \union Edited(<<"us", "cohere">>, Near(Valid[<<"us", "cohere">>], EmbeddingListing),
                  <<"", "cohere">>, Near(Valid[<<"", "cohere">>], EmbeddingListing))
    \union Edited(<<"", "embedding">>, Near(Valid[<<"", "embedding">>], EmbeddingListing),
                  <<"", "gpt">>, {Gpt})

SomeUpstreams ==
  {(e[1] :> e[2] @@ e[3] :> e[4]) @@ Valid : e \in Edits}
    \union {[n \in DOMAIN Valid \ {name} |-> Valid[n]] : name \in DOMAIN Valid}

-----------------------------------------------------------------------------
VARIABLES
  running,
  disk, stage, callShape, reusedRecords, itemStages, madeRecords, queuedAppends, callStops, callsBegun,
  promisedRecords, anAppendFailed,
  objects, walk, activeObjects, encodings, walkResult,
  setup, observed, chatMessages, handle, recordedSpan, ended,
  foreignSpan, reader, reading, readInput, readBinding, readRecord,
  listing, refresh, filesWritten, catalogue

Resume == INSTANCE ResumeFile WITH
  file <- disk, pc <- stage, shape <- callShape, reused <- reusedRecords,
  item <- itemStages, made <- madeRecords, appends <- queuedAppends, stopping <- callStops,
  calls <- callsBegun, promised <- promisedRecords, appendFailed <- anAppendFailed
Fingerprint == INSTANCE ConfigFingerprint WITH
  heap <- objects, stack <- walk, active <- activeObjects, codes <- encodings, result <- walkResult
Operation == INSTANCE SpanOperation WITH
  settings <- setup, phase <- observed, messages <- chatMessages, operation <- handle,
  span <- recordedSpan, outcome <- ended
Foreign == INSTANCE ForeignSpans WITH
  span <- foreignSpan, caller <- reader, phase <- reading, input <- readInput,
  binding <- readBinding, record <- readRecord
Catalog == INSTANCE CatalogRefresh WITH
  upstream <- listing, pc <- refresh, written <- filesWritten, files <- catalogue

ASSUME ResumeAssumption == Resume!ShapesAreValid
ASSUME FingerprintAssumption == Fingerprint!RootAssumption
ASSUME CatalogAssumption == Catalog!RatesAssumption

resumeVars ==
  <<disk, stage, callShape, reusedRecords, itemStages, madeRecords, queuedAppends, callStops,
    callsBegun, promisedRecords, anAppendFailed>>
fingerprintVars == <<objects, walk, activeObjects, encodings, walkResult>>
operationVars == <<setup, observed, chatMessages, handle, recordedSpan, ended>>
foreignVars == <<foreignSpan, reader, reading, readInput, readBinding, readRecord>>
catalogVars == <<listing, refresh, filesWritten, catalogue>>
familyVars == <<running, resumeVars, fingerprintVars, operationVars, foreignVars, catalogVars>>

FamilyInit ==
  /\ running \in {"resume", "fingerprint", "operation", "foreign", "catalog"}
  /\ IF running = "resume" THEN Resume!Init
     ELSE /\ disk = None /\ stage = None /\ callShape = None /\ reusedRecords = None
          /\ itemStages = None /\ madeRecords = None /\ queuedAppends = None
          /\ callStops = None /\ callsBegun = None /\ promisedRecords = None
          /\ anAppendFailed = None
  /\ IF running = "fingerprint" THEN Fingerprint!Init
     ELSE /\ objects = None /\ walk = None /\ activeObjects = None /\ encodings = None
          /\ walkResult = None
  /\ IF running = "operation" THEN Operation!Init
     ELSE /\ setup = None /\ observed = None /\ chatMessages = None /\ handle = None
          /\ recordedSpan = None /\ ended = None
  /\ IF running = "foreign" THEN Foreign!Init
     ELSE /\ foreignSpan = None /\ reader = None /\ reading = None /\ readInput = None
          /\ readBinding = None /\ readRecord = None
  /\ IF running = "catalog" THEN Catalog!Init
     ELSE /\ listing = None /\ refresh = None /\ filesWritten = None
          /\ catalogue = None

FamilyNext ==
  /\ UNCHANGED running
  /\ \/ running = "resume" /\ Resume!Next
        /\ UNCHANGED <<fingerprintVars, operationVars, foreignVars, catalogVars>>
     \/ running = "fingerprint" /\ Fingerprint!Next
        /\ UNCHANGED <<resumeVars, operationVars, foreignVars, catalogVars>>
     \/ running = "operation" /\ Operation!Next
        /\ UNCHANGED <<resumeVars, fingerprintVars, foreignVars, catalogVars>>
     \/ running = "foreign" /\ Foreign!Next
        /\ UNCHANGED <<resumeVars, fingerprintVars, operationVars, catalogVars>>
     \/ running = "catalog" /\ Catalog!Next
        /\ UNCHANGED <<resumeVars, fingerprintVars, operationVars, foreignVars>>

FamilySpec == FamilyInit /\ [][FamilyNext]_familyVars

(* The resume file alone.                                                  *)
ResumeSpec == running = "resume" /\ FamilyInit /\ [][FamilyNext]_familyVars

(* The properties of the components, each of the behaviours it is about.   *)
-----------------------------------------------------------------------------
(* A resume file gives each input a record of its own, keeps what was      *)
(* finished and reuses no error that may end differently, over crashes,    *)
(* failed appends and calls with other inputs and ids.  What was finished  *)
(* cannot be read back in one case only: an append failed half-way and the *)
(* line queued behind it continued its bytes.                              *)
ResumeIsFaithful ==
  running = "resume" =>
    /\ Resume!TypeOK
    /\ Resume!RecordsBelongToTheirInputs /\ Resume!RetriesAreNotReused
    /\ Resume!FinishedRecordsAreKept /\ Resume!OnlyFailedAppendsSpoilTheFile

(* "Bytes after the last newline are ignored, because only an append cut   *)
(* off by a process failure leaves them": no call finds a line in the file *)
(* that it cannot read.                                                    *)
FileStaysLoadable == running = "resume" => Resume!FileStaysLoadable

(* Two configurations have one fingerprint exactly if they are the same    *)
(* value, and only cycles and unencodable values have none.                *)
FingerprintIsTheValue ==
  running = "fingerprint" =>
    /\ Fingerprint!TypeOK
    /\ Fingerprint!RecursionIsBounded
    /\ Fingerprint!RaisesOnlyForCycles /\ Fingerprint!EqualExactlyIfSame

(* A span ends once with the status of its outcome, holds no content that  *)
(* was to be left out, and reads back as what was recorded or not at all.  *)
(* A span from elsewhere, too, is converted without loss or refused: its   *)
(* prompt is one, its tools are its own, its record is consistent.         *)
SpanTellsTheOperation ==
  /\ running = "operation" =>
       /\ Operation!TypeOK
       /\ Operation!SpanEndsOnce /\ Operation!StatusTellsTheOutcome
       /\ Operation!ContentIsTheFilters /\ Operation!InputIsTheStarts /\ Operation!IdentityHolds
       /\ Operation!OnlyGenerationsReadBack /\ Operation!GenerationReadsBack
       /\ Operation!InputReadsBack
  /\ running = "foreign" =>
       /\ Foreign!TypeOK
       /\ Foreign!ConversionIsLossless /\ Foreign!OnePromptOrNone
       /\ Foreign!ToolsAreTheSpans /\ Foreign!RecordAgrees

(* The catalogue that a refresh writes bills every request at a listed     *)
(* price and invents none; what it cannot hold reaches no file.            *)
CatalogIsTheListing ==
  running = "catalog" =>
    /\ Catalog!TypeOK
    /\ Catalog!QuotesAreListed /\ Catalog!NothingIsInvented /\ Catalog!RefreshIsWhole
=============================================================================
