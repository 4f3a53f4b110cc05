----------------------------- MODULE MCAnswers -----------------------------
(***************************************************************************)
(* What adapters make of a provider's answer, the four streams and the     *)
(* billing, beside what is recorded of it, as in MCRecords.  A behaviour   *)
(* is of one of the ten; the variables that only others use are None.      *)
(***************************************************************************)
EXTENDS MCRecords

CONSTANT q1  (* a search of Gemini *)

(* One table that states everything, and others for the things that an     *)
(* application may leave out.                                              *)
Rates(unit) ==
  [read |-> unit, write5 |-> 12 * unit, write1 |-> 20 * unit, none |-> 10 * unit, output |-> 50 * unit]

FullTable ==
  [default |-> Rates(12), fast |-> Rates(36),
   long |-> [above |-> 1, input |-> 2, output |-> 3], us |-> 5, search |-> 7, lookup |-> 11]

Tables ==
  {FullTable,
   [FullTable EXCEPT !.fast = None, !.long = None], [FullTable EXCEPT !.us = None],
   [FullTable EXCEPT !.search = None, !.default.write5 = NaN],
   [FullTable EXCEPT !.lookup = None, !.default.write1 = NaN]}

VARIABLES
  yieldedItems, progress, ending,                                  \* of every stream
  deltasArrived, reasoningYielded, separatorPending, billable,     \* of several streams
  blocks, blockOpen, providerStop, searchesReported, snapshotSeen,
  outputItems, terminalEvent, errorEvent, formingCalls,
  channelTexts, snapshotCalls, callIndex, doneCalls, choiceFinish, lastCallCut,
  chunkReceived, contentFiltered, pendingArgs,
  queriesRun, partsArrived, assembled, candidateFinish, promptBlocked, usageSeen, lastReasoning,
  bound, tokens, service, charged, billed

AnthropicAnswer == INSTANCE AnthropicStream WITH
  MaxBlocks <- 3, MaxFragments <- 4, WebSearch <- TRUE,
  content <- blocks, open <- blockOpen, stop <- providerStop, reported <- searchesReported,
  fragments <- deltasArrived, items <- yieldedItems, reasoned <- reasoningYielded,
  separator <- separatorPending, started <- snapshotSeen, complete <- billable, pc <- progress,
  outcome <- ending
ResponsesAnswer == INSTANCE ResponsesStream WITH
  MaxItems <- 2, MaxParts <- 2, MaxFragments <- 3, ChargedTools <- TRUE,
  output <- outputItems, terminal <- terminalEvent, error <- errorEvent,
  fragments <- deltasArrived, items <- yieldedItems, forming <- formingCalls,
  reasoned <- reasoningYielded, separator <- separatorPending, pc <- progress, outcome <- ending
ChatAnswer == INSTANCE ChatStream WITH
  MaxCalls <- 2, MaxFragments <- 4,
  text <- channelTexts, calls <- snapshotCalls, forming <- callIndex, ended <- doneCalls,
  finish <- choiceFinish, cut <- lastCallCut, received <- chunkReceived, filtered <- contentFiltered,
  fragments <- deltasArrived, items <- yieldedItems, pending <- pendingArgs, pc <- progress,
  outcome <- ending
GeminiAnswer == INSTANCE GeminiStream WITH
  MaxParts <- 3, MaxInChunk <- 2, Queries <- {q1}, Searches <- TRUE,
  executed <- queriesRun, arrived <- partsArrived, parts <- assembled, finish <- candidateFinish,
  blocked <- promptBlocked, usage <- usageSeen, items <- yieldedItems, reasoned <- lastReasoning,
  complete <- billable, pc <- progress, outcome <- ending
Charges == INSTANCE Billing WITH
  MaxTokens <- 2,
  binding <- bound, consumed <- tokens, served <- service, billing <- charged, pc <- billed

ASSUME AnswersAssumption ==
  /\ AnthropicAnswer!StreamAssumption /\ ResponsesAnswer!StreamAssumption
  /\ ChatAnswer!StreamAssumption /\ GeminiAnswer!StreamAssumption
  /\ Charges!BillingAssumption

recordVars == <<resumeVars, fingerprintVars, operationVars, foreignVars, catalogVars>>

streamVars == <<yieldedItems, progress, ending>>
deltaVars == <<deltasArrived, reasoningYielded, separatorPending, billable>>
anthropicStreamVars == <<blocks, blockOpen, providerStop, searchesReported, snapshotSeen>>
responsesStreamVars == <<outputItems, terminalEvent, errorEvent, formingCalls>>
chatStreamVars ==
  <<channelTexts, snapshotCalls, callIndex, doneCalls, choiceFinish, lastCallCut, chunkReceived,
    contentFiltered, pendingArgs>>
geminiStreamVars ==
  <<queriesRun, partsArrived, assembled, candidateFinish, promptBlocked, usageSeen, lastReasoning>>
billingVars == <<bound, tokens, service, charged, billed>>
answerVars ==
  <<streamVars, deltaVars, anthropicStreamVars, responsesStreamVars, chatStreamVars,
    geminiStreamVars, billingVars>>
allVars == <<running, recordVars, answerVars>>

Streams == {"anthropic_stream", "responses_stream", "chat_stream", "gemini_stream"}

(* The variables of the answers, None where another behaviour has them.    *)
AnswersBegin ==
  /\ IF running = "anthropic_stream" THEN AnthropicAnswer!Init
     ELSE /\ blocks = None /\ blockOpen = None /\ providerStop = None
          /\ searchesReported = None /\ snapshotSeen = None
  /\ IF running = "responses_stream" THEN ResponsesAnswer!Init
     ELSE /\ outputItems = None /\ terminalEvent = None /\ errorEvent = None
          /\ formingCalls = None
  /\ IF running = "chat_stream" THEN ChatAnswer!Init
     ELSE /\ channelTexts = None /\ snapshotCalls = None /\ callIndex = None
          /\ doneCalls = None /\ choiceFinish = None /\ lastCallCut = None
          /\ chunkReceived = None /\ contentFiltered = None /\ pendingArgs = None
  /\ IF running = "gemini_stream" THEN GeminiAnswer!Init
     ELSE /\ queriesRun = None /\ partsArrived = None /\ assembled = None
          /\ candidateFinish = None /\ promptBlocked = None /\ usageSeen = None
          /\ lastReasoning = None
  /\ IF running = "billing" THEN Charges!Init
     ELSE /\ bound = None /\ tokens = None /\ service = None /\ charged = None
          /\ billed = None
  /\ running \notin Streams => yieldedItems = None /\ progress = None /\ ending = None
  /\ running \notin Streams \ {"gemini_stream"} => deltasArrived = None
  /\ running \notin {"anthropic_stream", "responses_stream"} =>
       reasoningYielded = None /\ separatorPending = None
  /\ running \notin {"anthropic_stream", "gemini_stream"} => billable = None

RecordsAreAbsent ==
  /\ disk = None /\ stage = None /\ callShape = None /\ reusedRecords = None
  /\ itemStages = None /\ madeRecords = None /\ queuedAppends = None /\ callStops = None
  /\ callsBegun = None /\ promisedRecords = None /\ anAppendFailed = None
  /\ objects = None /\ walk = None /\ activeObjects = None /\ encodings = None /\ walkResult = None
  /\ setup = None /\ observed = None /\ chatMessages = None /\ handle = None
  /\ recordedSpan = None /\ ended = None
  /\ foreignSpan = None /\ reader = None /\ reading = None /\ readInput = None
  /\ readBinding = None /\ readRecord = None
  /\ listing = None /\ refresh = None /\ filesWritten = None /\ catalogue = None

AnswersInit ==
  /\ \/ FamilyInit
     \/ running \in Streams \union {"billing"} /\ RecordsAreAbsent
  /\ AnswersBegin

AnswersNext ==
  \/ FamilyNext /\ UNCHANGED answerVars
  \/ /\ UNCHANGED <<running, recordVars>>
     /\ \/ running = "anthropic_stream" /\ AnthropicAnswer!Next
           /\ UNCHANGED <<responsesStreamVars, chatStreamVars, geminiStreamVars, billingVars>>
        \/ running = "responses_stream" /\ ResponsesAnswer!Next
           /\ UNCHANGED <<billable, anthropicStreamVars, chatStreamVars, geminiStreamVars, billingVars>>
        \/ running = "chat_stream" /\ ChatAnswer!Next
           /\ UNCHANGED <<reasoningYielded, separatorPending, billable, anthropicStreamVars,
                          responsesStreamVars, geminiStreamVars, billingVars>>
        \/ running = "gemini_stream" /\ GeminiAnswer!Next
           /\ UNCHANGED <<deltasArrived, reasoningYielded, separatorPending, anthropicStreamVars,
                          responsesStreamVars, chatStreamVars, billingVars>>
        \/ running = "billing" /\ Charges!Next
           /\ UNCHANGED <<streamVars, deltaVars, anthropicStreamVars, responsesStreamVars,
                          chatStreamVars, geminiStreamVars>>

AnswersSpec == AnswersInit /\ [][AnswersNext]_allVars

(* The properties of the components, each of the behaviours it is about.   *)
-----------------------------------------------------------------------------
(* In each of the four streams the consumer has seen what the final        *)
(* message holds, and only a response that is whole makes a generation.    *)
StreamIsFaithful ==
  /\ running = "anthropic_stream" =>
       AnthropicAnswer!TypeOK /\ AnthropicAnswer!StreamIsFaithful /\ AnthropicAnswer!GenerationIsWhole
  /\ running = "responses_stream" =>
       ResponsesAnswer!TypeOK /\ ResponsesAnswer!StreamIsFaithful /\ ResponsesAnswer!GenerationIsWhole
  /\ running = "chat_stream" =>
       /\ ChatAnswer!TypeOK
       /\ ChatAnswer!StreamIsFaithful /\ ChatAnswer!GenerationIsWhole
  /\ running = "gemini_stream" =>
       GeminiAnswer!TypeOK /\ GeminiAnswer!StreamIsFaithful /\ GeminiAnswer!GenerationIsWhole

(* A cost that is stated is the provider's invoice, for the searches that  *)
(* were charged too; what a cache saved is the difference to the invoice   *)
(* without it; and a binding that was accepted has a cost.                 *)
CostIsTheInvoice ==
  /\ running = "anthropic_stream" => AnthropicAnswer!SearchesAreBilled
  /\ running = "responses_stream" => ResponsesAnswer!SearchesAreBilled
  /\ running = "gemini_stream" => GeminiAnswer!SearchesAreBilled
  /\ running = "billing" =>
       /\ Charges!TypeOK
       /\ Charges!KnownCostIsTheInvoice /\ Charges!SavingsAreTheDifference
       /\ Charges!AcceptedBindingHasACost

(* A part of a Gemini message that has its signature is not altered by the *)
(* chunks after it: the provider checks the signature against the part.    *)
SignedPartsAreFinal ==
  [][running = "gemini_stream" =>
       \A i \in DOMAIN assembled : assembled[i].signed =>
         i \in DOMAIN assembled' /\ assembled'[i] = assembled[i]]_assembled
=============================================================================
