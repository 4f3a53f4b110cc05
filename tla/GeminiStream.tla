---------------------------- MODULE GeminiStream ----------------------------
(***************************************************************************)
(* One generateContent stream: chunks of whole or sliced parts, which the  *)
(* accumulator appends or merges, the items that they give, the billing of *)
(* searches that Google runs, and a prompt that may be blocked.            *)
(***************************************************************************)
EXTENDS ResponseRules

CONSTANTS
  MaxParts,     \* bound on the parts of the stream
  MaxInChunk,   \* bound on the parts of one chunk
  Queries,      \* search queries the provider may run
  Searches      \* whether the binding has the charged search tool

StreamAssumption == MaxParts \in Nat /\ MaxInChunk \in Nat /\ Searches \in BOOLEAN

VARIABLES
  executed,  \* the queries the provider has run and charges
  arrived,   \* how many parts have arrived
  parts,     \* _accumulator.parts
  finish,    \* _accumulator.finish_reason
  blocked,   \* _accumulator.blocked()
  usage,     \* whether usage_metadata has arrived
  items,     \* what items() has yielded
  reasoned,  \* last_reasoning_index, 0 for none
  complete,  \* _billing_complete
  pc,        \* the consumer's progress
  outcome    \* the outcome of the response

accumulator == <<parts, finish, blocked, usage>>
vars == <<executed, arrived, accumulator, items, reasoned, complete, pc, outcome>>

FinishReasons == {"STOP", "MAX_TOKENS", "SAFETY", "MALFORMED_FUNCTION_CALL"}

(* A part as it arrives; a slice of text is named by its place,            *)
(* and may be empty, as the part that only carries a signature is.         *)
PartKinds == {"text", "thought", "call", "search"}
Part(kind, text, signed, query) == [kind |-> kind, text |-> text, signed |-> signed, query |-> query]
NoQuery == "none"

TypeOK ==
  /\ \A i \in DOMAIN parts :
       /\ parts[i].kind \in PartKinds /\ parts[i].signed \in BOOLEAN
       /\ parts[i].query \in Queries \union {NoQuery, "malformed"}
       /\ parts[i].text # <<>> => parts[i].kind \in {"text", "thought"}
  /\ Len(parts) <= arrived /\ arrived \in 0..MaxParts
  /\ executed \subseteq Queries
  /\ finish \in FinishReasons \union {"none"}
  /\ {blocked, usage, complete} \subseteq BOOLEAN
  /\ reasoned \in 0..Len(parts) /\ (reasoned # 0 => parts[reasoned].kind = "thought")
  /\ pc \in {"streaming", "failed", "drained", "interpreted"}
  /\ (outcome # "none") = (pc = "interpreted")

Init ==
  /\ executed = {} /\ arrived = 0 /\ parts = <<>> /\ finish = "none" /\ blocked = FALSE
  /\ usage = FALSE /\ items = <<>> /\ reasoned = 0 /\ complete = FALSE
  /\ pc = "streaming" /\ outcome = "none"

-----------------------------------------------------------------------------
(***************************************************************************)
(* The accumulator.                                                        *)
(***************************************************************************)
IsText(part) == part.kind \in {"text", "thought"}

ContinuesSigned(last, incoming) ==  (* mutant *)
  IsText(last) /\ last.kind = incoming.kind

ContinuesText(last, incoming) ==
  IsText(last) /\ last.kind = incoming.kind /\ ~last.signed

Continues(ps) == parts # <<>> /\ ps # <<>> /\ ContinuesText(Last(parts), ps[1])

(* Only the first part of a chunk can continue the last assembled part.    *)
Assembled(ps) ==
  IF Continues(ps)
  THEN ReplaceAt(parts, Len(parts),
         [Last(parts) EXCEPT !.text = @ \o ps[1].text, !.signed = ps[1].signed]) \o Tail(ps)
  ELSE parts \o ps

AssembledIndex(ps, j) == Len(Assembled(ps)) - Len(ps) + j

-----------------------------------------------------------------------------
(***************************************************************************)
(* One chunk and what items() makes of it.                                 *)
(***************************************************************************)
Readable(part) == part.kind = "thought" /\ part.text # <<>>

(* The assembled part of the reasoning that precedes place j.              *)
LastReasoning(ps, j) ==
  LET earlier == {k \in 1..(j - 1) : Readable(ps[k])}
  IN IF earlier = {} THEN reasoned ELSE AssembledIndex(ps, Max(earlier))

SeparatorAtEveryPart(ps, j) ==  (* mutant *)
  CASE ps[j].kind = "call" -> <<CallItem(AssembledIndex(ps, j), <<>>)>>
    [] Readable(ps[j]) /\ LastReasoning(ps, j) # 0 ->
         <<ReasoningItem(Separator), Item("reasoning_delta", 0, ps[j].text)>>
    [] Readable(ps[j]) -> <<Item("reasoning_delta", 0, ps[j].text)>>
    [] ps[j].kind = "text" /\ ps[j].text # <<>> -> <<Item("text", 0, ps[j].text)>>
    [] OTHER -> <<>>

PartItems(ps, j) ==
  CASE ps[j].kind = "call" -> <<CallItem(AssembledIndex(ps, j), <<>>)>>
    [] Readable(ps[j]) ->
         (IF LastReasoning(ps, j) \in {0, AssembledIndex(ps, j)} THEN <<>>
          ELSE <<ReasoningItem(Separator)>>)
           \o <<Item("reasoning_delta", 0, ps[j].text)>>
    [] ps[j].kind = "text" /\ ps[j].text # <<>> -> <<Item("text", 0, ps[j].text)>>
    [] OTHER -> <<>>

Undelivered == executed \ {parts[i].query : i \in DOMAIN parts}

(* The parts a provider may send at place j of the next chunk.             *)
WireParts(j) ==
  LET slices == {<<>>, <<arrived + j>>}
  IN {Part(kind, slice, signed, NoQuery) :
        kind \in {"text", "thought"}, slice \in slices, signed \in BOOLEAN}
       \union {Part("call", <<>>, signed, NoQuery) : signed \in BOOLEAN}
       \union {Part("search", <<>>, FALSE, q) : q \in Undelivered \union {"malformed"}}

WireChunks ==
  UNION {{ps \in [1..n -> UNION {WireParts(j) : j \in 1..n}] : \A j \in 1..n : ps[j] \in WireParts(j)} :
           n \in 1..Min({MaxInChunk, MaxParts - arrived})}

Streaming == pc = "streaming" /\ finish = "none" /\ ~blocked

SearchRuns ==
  /\ Streaming /\ Searches
  /\ \E q \in Queries \ executed : executed' = executed \union {q}
  /\ UNCHANGED <<arrived, accumulator, items, reasoned, complete, pc, outcome>>

Chunk ==
  /\ Streaming
  /\ \E ps \in WireChunks :
       /\ arrived' = arrived + Len(ps)
       /\ Searches \/ \A j \in DOMAIN ps : ps[j].kind # "search"
       /\ parts' = Assembled(ps)
       /\ items' = items \o FlattenSeq([j \in DOMAIN ps |-> PartItems(ps, j)])
       /\ reasoned' = LastReasoning(ps, Len(ps) + 1)
  /\ usage' \in {usage, TRUE}
  /\ UNCHANGED <<executed, finish, blocked, complete, pc, outcome>>

(* The reason comes when every search has been listed.                     *)
FinishChunk ==
  /\ Streaming
  /\ Undelivered = {}
  /\ \E reason \in FinishReasons : finish' = reason
  /\ usage' \in {usage, TRUE}
  /\ UNCHANGED <<executed, arrived, parts, blocked, items, reasoned, complete, pc, outcome>>

(* A blocked prompt has no candidates.                                     *)
PromptBlocked ==
  /\ Streaming
  /\ parts = <<>> /\ executed = {}
  /\ blocked' = TRUE
  /\ usage' \in {usage, TRUE}
  /\ UNCHANGED <<executed, arrived, parts, finish, items, reasoned, complete, pc, outcome>>

StreamEnds ==
  /\ pc = "streaming"
  /\ IF finish = "none" /\ ~blocked THEN pc' = "failed" /\ UNCHANGED complete
     ELSE pc' = "drained" /\ complete' = TRUE
  /\ UNCHANGED <<executed, arrived, accumulator, items, reasoned, outcome>>

StreamBreaks ==
  /\ pc = "streaming"
  /\ pc' = "failed"
  /\ UNCHANGED <<executed, arrived, accumulator, items, reasoned, complete, outcome>>

-----------------------------------------------------------------------------
(***************************************************************************)
(* The assembled response.                                                 *)
(***************************************************************************)
(* A signature is kept for replay beside what it signs.                    *)
AssistantParts(i) ==
  LET part == parts[i]
      reasoning == [kind |-> "reasoning", id |-> 0,
                    text |-> IF part.kind = "thought" THEN part.text ELSE <<>>]
  IN (IF part.kind = "thought" \/ part.signed THEN <<reasoning>> ELSE <<>>)
       \o CASE part.kind = "call" -> <<[kind |-> "tool_call", id |-> i, text |-> <<>>]>>
            [] part.kind = "text" -> <<[kind |-> "text", id |-> 0, text |-> part.text]>>
            [] part.kind = "search" -> <<[kind |-> "raw", id |-> 0, text |-> <<>>]>>
            [] OTHER -> <<>>

AssistantMessage == FlattenSeq([i \in DOMAIN parts |-> AssistantParts(i)])

NormalizedStopReason ==
  CASE finish = "MAX_TOKENS" -> "max_completion_tokens"
    [] finish = "SAFETY" -> "refusal"
    [] finish = "STOP" -> IF ToolCalls(AssistantMessage) # <<>> THEN "tool_call" ELSE "stop"
    [] OTHER -> "other"

CannotContinue == finish \notin {"STOP", "MAX_TOKENS", "SAFETY"}

AlwaysFinished == Finished(AssistantMessage, NormalizedStopReason, FALSE)  (* mutant *)

Interpretation ==
  IF parts = <<>> /\ finish = "none" THEN Unusable("refusal", <<>>)
  ELSE Finished(AssistantMessage, NormalizedStopReason, CannotContinue)

Interpret ==
  /\ pc = "drained"
  /\ \E validates \in BOOLEAN : outcome' = ResponseOutcome(Interpretation, validates)
  /\ pc' = "interpreted"
  /\ UNCHANGED <<executed, arrived, accumulator, items, reasoned, complete>>

NoBilling == [present |-> FALSE, known |-> FALSE, queries |-> {}]

SearchParts == {i \in DOMAIN parts : parts[i].kind = "search"}

BilledAsTheyCome ==  (* mutant *)
  IF ~usage /\ ~Searches THEN NoBilling
  ELSE [present |-> TRUE, known |-> \A i \in SearchParts : parts[i].query # "malformed",
        queries |-> {parts[i].query : i \in SearchParts}]

(* Distinct queries are charged; a stream that was cut off while a charged *)
(* tool may have run, and evidence that cannot be read, have no price.     *)
ProviderBilling ==
  IF ~usage /\ ~Searches THEN NoBilling
  ELSE [present |-> TRUE,
        known |-> (complete \/ ~Searches) /\ \A i \in SearchParts : parts[i].query # "malformed",
        queries |-> {parts[i].query : i \in SearchParts}]

Stopped == pc \in {"failed", "interpreted"} /\ UNCHANGED vars

Next ==
  \/ SearchRuns \/ Chunk \/ FinishChunk \/ PromptBlocked
  \/ StreamEnds \/ StreamBreaks \/ Interpret \/ Stopped

Spec == Init /\ [][Next]_vars

-----------------------------------------------------------------------------
(* However the provider slices its parts, the consumer has at every moment *)
(* seen the answer, the reasoning with one separator between the parts     *)
(* that the message will have, and each call once.                         *)
StreamIsFaithful ==
  /\ Streamed(items, "text") = Texts(Parts(AssistantMessage, "text"))
  /\ Streamed(items, "reasoning_delta") = Joined(Parts(AssistantMessage, "reasoning"))
  /\ CallsAreFormed(items)
  /\ CallsAreStreamed(items, AssistantMessage)

(* Nothing that was assembled after its signature changes what it signs:   *)
(* a signature, once there, belongs to the text that it came with.         *)
SignedPartsAreFinal ==
  [][\A i \in DOMAIN parts : parts[i].signed => i \in DOMAIN parts' /\ parts'[i] = parts[i]]_vars

(* What a generation is made of is whole: a blocked prompt, a reason that  *)
(* cannot be continued and a stream without a reason give no generation,   *)
(* and the record of the one that is given accepts the message.            *)
GenerationIsWhole ==
  /\ pc = "interpreted" /\ blocked => outcome = "refusal"
  /\ outcome \in {"plain_response", "tool_call_response"} =>
       /\ finish \in {"STOP", "MAX_TOKENS", "SAFETY"}
       /\ OutcomeIsStorable(outcome, AssistantMessage)
       /\ outcome = "tool_call_response" /\ finish # "STOP" =>
            Last(AssistantMessage).kind # "tool_call"

(* A cost that is known charges every query that Google ran.               *)
SearchesAreBilled == ProviderBilling.known => ProviderBilling.queries = executed
=============================================================================
