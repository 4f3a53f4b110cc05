----------------------------- MODULE MCRequests -----------------------------
(***************************************************************************)
(* What adapters send: a conversation, turn after turn, in the forms of    *)
(* three providers, and the inputs of an embedding call in requests of     *)
(* Cohere and of OpenAI.  A behaviour is of one of the five; the variables *)
(* that only others use are None.                                          *)
(***************************************************************************)
EXTENDS InputPartition

CONSTANTS
  None, NoId,
  Names,         \* function names of the calls of Gemini
  TokenCounts,   \* the sizes of the inputs of OpenAI
  TokenLimit,    \* what one of them may have
  MaxTexts       \* the inputs a request to OpenAI may have

ASSUME TextsAssumption == TokenCounts \subseteq Nat /\ MaxTexts \in Nat \ {0}

(* The constants of InputPartition are those of Cohere.                    *)
OpenAIInputs == INSTANCE InputPartition WITH
  Sizes <- TokenCounts, EmptyBody <- 0, Comma <- 0, MaxInputs <- MaxTexts, Accepted <- 1..TokenLimit

VARIABLES
  running,
  conversation,                        \* of the three providers
  boundTo, buildStage, lastRequest,
  systemPrompt

Anthropic == INSTANCE AnthropicRequest WITH
  MaxMessages <- 3, MaxParts <- 3, UserKinds <- {"text", "audio"},
  AssistantKinds <- {"text", "tool_call", "bad_call", "thinking", "raw"},
  MaxCacheBreakpoints <- 2, MaxSystemParts <- 1,
  messages <- conversation, binding <- boundTo, pc <- buildStage, request <- lastRequest
OpenAI == INSTANCE OpenAIRequests WITH
  MaxMessages <- 3, MaxParts <- 3, UserKinds <- {"text", "image", "wav", "ogg"},
  AssistantKinds <- {"text", "tool_call", "reasoning", "raw"},
  messages <- conversation, prompt <- systemPrompt
Gemini == INSTANCE GeminiRequest WITH
  MaxMessages <- 3, MaxSource <- 2, messages <- conversation

ASSUME AnthropicAssumption == Anthropic!RequestAssumption /\ Anthropic!ConversationAssumption
ASSUME OpenAIAssumption == OpenAI!ConversationAssumption
ASSUME GeminiAssumption == Gemini!RequestAssumption

partitionVars == vars
anthropicVars == <<boundTo, buildStage, lastRequest>>
familyVars == <<running, conversation, anthropicVars, systemPrompt, partitionVars>>

FamilyInit ==
  /\ running \in {"anthropic", "openai", "gemini", "cohere_inputs", "openai_inputs"}
  /\ CASE running = "anthropic" -> Anthropic!Init
       [] running = "openai" -> OpenAI!Init
       [] running = "gemini" -> Gemini!Init
       [] OTHER -> conversation = None
  /\ running # "anthropic" => boundTo = None /\ buildStage = None /\ lastRequest = None
  /\ running # "openai" => systemPrompt = None
  /\ CASE running = "cohere_inputs" -> Init
       [] running = "openai_inputs" -> OpenAIInputs!Init
       [] OTHER -> /\ inputs = None /\ next = None /\ batches = None
                   /\ batch = None /\ body = None /\ result = None

FamilyNext ==
  /\ UNCHANGED running
  /\ \/ running = "anthropic" /\ Anthropic!Next /\ UNCHANGED <<systemPrompt, partitionVars>>
     \/ running = "openai" /\ OpenAI!Next /\ UNCHANGED <<anthropicVars, partitionVars>>
     \/ running = "gemini" /\ Gemini!Next /\ UNCHANGED <<anthropicVars, systemPrompt, partitionVars>>
     \/ running = "cohere_inputs" /\ Next /\ UNCHANGED <<conversation, anthropicVars, systemPrompt>>
     \/ running = "openai_inputs" /\ OpenAIInputs!Next
        /\ UNCHANGED <<conversation, anthropicVars, systemPrompt>>

FamilySpec == FamilyInit /\ [][FamilyNext]_familyVars

(* Function names are alike to the Gemini adapter, and nobody else's.      *)
NameSymmetry == Permutations(Names)

(* The properties of the components, each of the behaviours it is about.   *)
-----------------------------------------------------------------------------
(* Embedding inputs go out in their order, in the fewest requests that     *)
(* keep to the provider's count and size, whatever their sizes are.        *)
PartitionIsTheBest ==
  /\ running = "cohere_inputs" =>
       TypeOK /\ OrderIsKept /\ RequestsFit /\ FewestRequests
  /\ running = "openai_inputs" =>
       /\ OpenAIInputs!TypeOK
       /\ OpenAIInputs!OrderIsKept /\ OpenAIInputs!RequestsFit /\ OpenAIInputs!FewestRequests

(* Every request to Anthropic has the whole conversation with thinking     *)
(* blocks as they came, and at most the breakpoints that the API allows,   *)
(* the latest of those that were asked for.                                *)
BreakpointsAreKept ==
  running = "anthropic" =>
    /\ Anthropic!TypeOK
    /\ Anthropic!BreakpointsAreWithinLimit /\ Anthropic!LatestBreakpointsAreKept
    /\ Anthropic!ThinkingIsUntouched /\ Anthropic!ConversationIsSent

(* The two adapters of OpenAI send one conversation; what Gemini signed    *)
(* goes back as it came and once; and results follow their calls together, *)
(* under the names and ids of the calls.                                   *)
ConversationGoesBack ==
  /\ running = "openai" =>
       OpenAI!TypeOK /\ OpenAI!AdaptersAgree /\ OpenAI!FinalAnswerIsTheOutput
  /\ running = "gemini" =>
       /\ Gemini!TypeOK
       /\ Gemini!ReplayIsExact /\ Gemini!KeptIsSentOnce
       /\ Gemini!ResultsNameTheirCalls /\ Gemini!ResultsAreTogether

(* What was sent stays a prefix of what is sent in later turns, in both    *)
(* wire forms of OpenAI: the prompt cache hits by prefix.                  *)
SentPrefixIsStable ==
  [][running = "openai" =>
       /\ OpenAI!Input' # OpenAI!Rejected => IsPrefix(OpenAI!Input, OpenAI!Input')
       /\ OpenAI!ChatMessages' # OpenAI!Rejected =>
            IsPrefix(OpenAI!ChatMessages, OpenAI!ChatMessages')]_conversation
=============================================================================
