# Verification of langchaint

langchaint is an asynchronous Python client for language and embedding models
of several providers. Around each request it has one rate-limit quota shared by
many tasks, retries, deadlines, cancellation at every `await`, and a record of
every request that was billed; inside it, adapters that translate conversations,
streams, usage and errors between four provider conventions and its own. The
modules here model both, TLC checks them on small instances, and TLAPS proves
most of it for every instance. Paths are relative to `src/`, and those of the
package to `src/src/langchaint/`.

## The system

| Part | State it keeps | Operations | Hard behaviour | What makes it correct | Modules |
|---|---|---|---|---|---|
| Shared backoff (`concurrency/shared_backoff.py`) | FIFO queue of futures, permit counter, pause end, wait ceiling, last admission, one timer | `admitted()` block, `record`, release, timer callback | cancellation between grant and wake-up, stale timers, failures in any order | permits exact, no lost wake-up, FIFO, stated waits kept, ceiling grows once per herd | SharedBackoff, AdmissionContract, SharedBackoffHistory, SharedBackoffProofs |
| Private backoff (same file) | private ceiling | `next_wait_seconds` | the cap, a stated wait above it | waits follow the loop's own failures only | RetryWaits |
| Request loop (`generation/llm.py`) | ledger, private backoff, deadline, current stream | `generate_one`, `_request_until_budget_runs_out`, `_settle_failed_request` | deadline or caller cancels at each await, failure in every stage, time budget suspended in the queue | every request recorded once with its usage, budget exact, quota told in time, the input ends | RequestHistory, RequestLoop, RequestHistoryProofs, MCLoopProofs |
| Batches of inputs (`generation/llm.py`) | tasks, one quota | `generate_many`, `generate_many_records` | all inputs wait for one permit, each with its own budget | the quota is free at the end, no permit idles, the batch ends | BatchOverQuota, MCRetries, SharedBackoffProofs |
| Stream handle (`generation/streaming.py`) | unopened/open/finished, admission, stream, outcome, abandoned, timeout scope, operation | enter, `__anext__`, `final`, exit | every order of these, failures in each, cancellation, timeout | permit back once, one of outcome and abandoned however it is left, operation ended once | StreamHandle, MCHandleProofs |
| `run_many`, cancellation helpers (`concurrency/`) | pending tasks by index, results | fill, wait, settle, cancel | concurrent failures, repeated cancellation | bound and order kept, nothing left running | OrderedBatch, RunMany, MCLoopProofs |
| Resume file (`generation/_generate_many_records.py`, `_config_fingerprint.py`) | file lines, claimed paths | prepare, append, reuse, fingerprint | crash at any point, partial line, changed inputs, cyclic values | a finished record is never given to another input, nor lost by anything but a failed append | ResumeFile, ConfigFingerprint, MCRecordsProofs |
| Embedding model (`embedding.py`, partition in the adapters) | stop event, batch results | `embed`, batch with retries, partition | a failing batch among sending, queued and waiting ones | no request after a failure, usage kept, requests within limits | EmbedBatches, InputPartition, MCLoopProofs, MCRequestsProofs |
| Tool dispatch (`tools.py`) | tasks of one `dispatch_many` | dispatch, precompute | siblings, second cancellation, raising observer | all settled, order kept, observer told | Dispatch, MCHandleProofs |
| Tracing and span parsing (`tracing/`, `span_parsing.py`) | one span per operation | start, conclude, end; parse and convert | failing filters, transforms and spans; spans of other tracers | what is read back is what was there | SpanParsing, SpanOperation, ForeignSpans |
| Cohere client cache (`cohere/__init__.py`) | client, creation task | prepare, client | shared creation, cancellation, failure | one creation at a time, retry after failure | ClientCache, MCLoopProofs |
| Streams of the adapters (`anthropic/`, `openai/`, `gemini/`, `adapter.py`) | snapshot, forming calls, separators | items, final, interpret, billing | order of events, cuts, errors, late ids | stream and message agree, cut answers give no generation | ResponseRules and one module for each stream |
| Requests of the adapters | none between calls | conversation to wire | stored parts sent back, breakpoints, results and calls | nothing lost, doubled or re-ordered | Conversation, AnthropicRequest, OpenAIRequests, GeminiRequest, MCRequestsProofs |
| Failure mapping (adapters, `adapter.py`) | none | exception to `RequestFailure` | errors inside streams, waits stated in several places | rate limits pause the quota, waits kept | RequestFailures, MCRetries |
| Billing and prices (`billing.py`, `*/usage`, `scripts/update_pricing_metadata.py`) | none; catalogue files | usage to `Billing`, refresh | unknown prices, tiers, thresholds, thin tables | a known cost is the invoice | Billing, CatalogRefresh, MCRecordsProofs |
| Multi-agent example (`examples/full_app/`) | runs, usage, events | run, delegate, search, synthesize | cancellation through a tree of tasks | usage complete, limits kept | AgentGraph, AgentGraphProofs |

How they meet: each request of the request loop, a stream handle or an
embedding batch runs inside an `admitted()` block of a `SharedBackoff` shared by
all models of one quota; its failure is classified by the adapter and recorded
inside the block, before the permit passes on. `generate_many` and `embed` start
their inputs through `run_many`. The loop and the handle keep a ledger whose
frozen history goes into the outcome; `generate_many_records` appends that
outcome to the resume file. The observer hears of the start, the outcome and the
end. An application sends back the messages it received, in the next request.

All of it runs on one event loop, so a step of each concurrent model is what the
code does between two suspension points. Interleaving comes from tasks, timers
and cancellations, which reach a task only at an `await`. What runs without a
suspension point (requests, failure mapping, billing) is one step per call, and
is checked over every small input, and over sequences of turns where the code
sends back what it received.

How the models are layered:

- *implements*: SharedBackoff implements AdmissionContract, RunMany implements
  OrderedBatch.
- *extends*: BatchOverQuota runs its inputs on SharedBackoff with all its steps;
  RequestLoop and StreamHandle share RequestHistory; the four streams share
  ResponseRules; RetryWaits judges its failures by RequestFailures; SpanOperation
  reads its own spans back through SpanParsing, and ForeignSpans reads those of others
  with it.
- *relies on*: a module that leaves another part out says by what it replaces
  it. RequestLoop takes from SharedBackoff only that admission comes,
  SharedBackoff from its callers only that an admitted request ends;
  BatchOverQuota has both and needs neither. AgentGraph takes from Dispatch that
  the calls of a batch are answered in order or cancelled together.

## Modules: quota, retries, streams and batches

### SharedBackoff

Models one `SharedBackoff` and its callers. `phase` says where each caller
stands; the states `cancelled`, `granted` and `revoked` exist because a future
is resolved or cancelled in one step and its task runs in a later one. `queue`,
`permitsHeld` and `waitCeiling` are the attributes of those names. Clock readings
are ages: `pauseAge` is now minus `_pause_until`, `admissionAge` is now minus
`_last_admission_at`; the code only compares readings, and ages saturate at
`AgeCap`, where every comparison has its final value. `timer` is the time until
`_admit_timer` is due. Actions, with the code they stand for:

- `Join`: `_wait_turn` up to its await; `Cancel`: the task's future is cancelled,
  by its caller or its admission budget; `WakeGranted`, `WakeCancelled`,
  `WakeRevoked`: the task runs and enters, leaves the queue, or returns the
  permit of a grant it no longer wants.
- `Exit`, `FailAndExit`: the block ends, after `Admission.record` if the request
  failed; `ReportDrained`: a stream that returned its permit when drained
  reports a failure its final message carried.
- `TimerFires`: `_on_admit_timer`; `LoopRestarts`: the event loop ends with all
  tasks done, leaving a dead `TimerHandle`; `Tick`: time passes, and a due timer
  may be late.

`AdmitWaiting` is the loop of `_admit_waiting` in one formula: after a grant the
request-start interval always blocks the next, so a call grants at most once.

### AdmissionContract and SharedBackoffHistory

`AdmissionContract` is what the quota is promised, without queue, timer and
ceiling: bounded permits, spaced starts, and no start while a wait that a
provider stated is unfinished. `SharedBackoffHistory` adds the two history
variables needed to say so (`owed`, `resumed`) and states the refinement
`ImplementsContract`.

### RequestHistory and RequestLoop

`RequestHistory` has the ledger (`_RequestLedger`) as a value with one operator
per method, the validators of the outcome records as predicates (`Accepted`),
the request rows of `to_tables` (`RequestRows`), and what `RequestLoop` and
`StreamHandle` share of classifying and settling a failure. A billing is the
number of the request whose usage it holds, so that usage credited to a wrong
request shows.

`RequestLoop` models one input of a `BoundLLM`. `pc` is the await the task is
suspended in: `admission`, `opening`, `streaming`, `closing` or `backoff`.
`cancelling` is a cancellation not yet received, which preempts what the await
would return; `cancelledBy` decides, as `asyncio.Timeout` does, whether it
becomes `timed_out_error` or the caller's `CancelledError`. `attempt.result` is
what reading the stream came to while the stream is closed in the `finally`
clause. `SettleFailedRequest` is `_settle_failed_request`, `FinishWith` the end
of the scope, `NextRequest` the loop's head and its `retries_exhausted_error`.
`sent`, `usage`, `pauses`, `told` and `worked` only serve the properties.

### BatchOverQuota

`generate_many_records` over one quota. It extends SharedBackoff, whose callers
are the inputs, and adds the bound of `run_many` (`TakeAndFill`: take results
and start inputs in order up to `MaxPending`), the budget of each input, which
counts while it works and not while it queues (`Working`, `TimePasses`), and its
retries. `Expires` is the deadline scope; `CancelBatch` and `Settle` are the
caller's cancellation and the wait for the tasks. An input that retries joins
the queue in a step of its own, where the code does it within the step before:
the model has more interleavings, not fewer. The order of results is in RunMany.

### StreamHandle

A `StreamHandle` and the application in its `async with` block. The lower-case
variables are the handle's attributes of the same names; those that the control
only tests for presence are Boolean. `pc` is the await: those of entry
(`admission`, `opening`, `backoff`), the application's code (`block`, an await
like the others since cancellation and timeout reach it there), those of
iteration and `final` (`item`, `draining`, `assembling`), the close of a failed
stream (`settling`) and the close at the exit (`closing`, or
`closing_timed_out` when `_close_timeout_scope` returned true). Actions:

- `Enter`, `Admitted`, `StreamOpens`, `OpenFails`, `BackoffEnds`,
  `EntryCancelled`: `__aenter__`, `_open` and `_open_stream_with_retries`.
- `CallNext`, `CallFinal`, `ItemArrives`, `UsageArrives`, `Exhausted`: reading.
  `drained` is set and the permit returned when the last event was read.
- `IterationFails`, `AssemblyFails`, `FailedStreamCloses`:
  `_error_after_stream_failure` up to its await of the close and after it; the
  error it has built by then is `pending`, and a cancellation loses it.
- `Assembled`, `AssembledFailure`: the end of `final`.
- `CancelReachesBlock`, `Swallow`: a `CancelledError` in the block, and an
  application that catches it and goes on (only if `Swallows`).
- `LeaveBlock`, `ExitCloses`, `ExitCloseCancelled`: `__aexit__` and `_close`. A
  cancelled close abandons the handle, except that of a timed-out stream
  (`cancelled_timed_out`), where `_close` skips it.
- `CallerCancels`, `TimeoutExpires`: from outside. An expiry before the step that
  closes the scope counts; time itself is not modelled.

`permits`, `observed`, `ends`, `sent`, `usage`, `pauses` and `told` are seen from
outside and serve the properties.

### RequestFailures, RetryWaits, MCRetries

`RequestFailures` has the rules by which each adapter turns an exception into a
`RequestFailure`. An exception is what the rules look at: class, status, error
type (a member of the adapter's pause table, retry table, table of terminal
codes, or of none), the SDK's own verdict, the headers and the wait in the body.
An error without an answer the SDK judged carries no headers.
`RequestFailureOf` is `AdapterRequestFailure` behind langchaint's own classes.
`Map` of `MCRetries` maps every such exception once, with the counter of unlisted
ones. `RetryWaits` is several retry loops under those rules: `NextWaitSeconds`
is `PrivateBackoff.next_wait_seconds`, `RecordPause` what the quota does with a
pause (its growing ceiling is any draw up to `MaxWait` here; the growth is in
SharedBackoff), `SettleFailedRequest` the choice between the two. `owed` and
`owedTo` remember, for the properties, what a provider demanded.

### OrderedBatch and RunMany

`OrderedBatch` is a batch as its callers know it: calls start in order, nothing
ends before all are quiet, it returns exactly if all succeeded. `RunMany` is
`run_many`, and the variant that makes the first call alone to warm a prompt
cache. The caller and each call are tasks; `CallEnds` and the caller's next step
are separate, so several calls may have ended, or failed, when the caller looks.
`TakeResults` is the body of the loop (lowest failing index, or results and
`Fill`), `SettleCancelled` and `CancelledAgain` the gathering
of cancelled tasks under repeated cancellation. A cancelled call may end as it
likes.

### ClientCache

`prepare`, `_create` and `client` of the Bedrock client cache, with
`await_task_cancellation_safe` and `to_thread_cancellation_safe`. `creations` are
the tasks so far; `FindsClient`, `Creates`, `Joins` are the three ways into
`prepare`, `WakeSettled`, `ReceiveCancellation` and `SettlesAfterCancellation`
the ways out of its await, where the `finally` clause forgets a finished task
unless another caller has replaced it (`Forget`).

### ResumeFile and ConfigFingerprint

`ResumeFile` is a file and the calls on it. A call is a shape: the fingerprint
of its binding, those of its inputs and, unless it identifies by position, ids.
`Prepare` loads what the call reuses and replaces the file, or raises
(`PrepareFails`); `Generated`, `AppendLine`, `AppendFails` and `ItemStops` are
an input from its record to its flushed line; `Crash` may come at each step,
with part of a line on disk. All file work runs in one thread, and is settled
before a cancellation goes on. `promised` is what the file owes.

`ConfigFingerprint` is `_Canonicalizer`, which encodes configuration values.
Values are objects in a heap, so they may be shared or cyclic; the recursion is
`stack`, `active` is `_active_container_ids`, and sets are iterated in any order.
Two roots are encoded by one canonicalizer, as the code does for a binding.

### EmbedBatches and InputPartition

`EmbedBatches` is `EmbeddingModel.embed`: batches under `run_many` and one
quota, of which it keeps that a grant and the turn of the granted task are two
steps (`Grant`, `Admitted`), and the event `stop` that each batch tests before
it sends (`SendOrStop`). `Defect` is an error of the adapter that is none of its
failures; `Return` and `Raise` are the end of `embed`. `InputPartition` is the
one pass in which the OpenAI and Cohere adapters split the inputs into requests;
an input is its size, in tokens or in bytes.

### Dispatch

`dispatch_many` and `dispatch` with the guarded operation of an observer that
may raise anywhere. `TaskStarts` runs a task to its first await, `TaskNeverStarts`
is one cancelled before its turn, `FunctionEnds` the end of the tool function, in
any way. `Gathered`, `GatherReturns`, `GatherRaises` and `Settled` follow
`asyncio.gather(return_exceptions=True)`, which raises a cancellation only
after all its children settled.

### AgentGraph

The application of `examples/full_app`: two researchers in a task group, the
specialists one of them spawns through a tool, and the synthesis. It is the
client that uses generation, dispatch and cancellation together. One run is a
record; a step runs from one await of one task to the next: `Generate` a model
turn with its settlement, `RunTool` and `Delegate` one tool call, `Collect` what
`dispatch_many` returned, `EndCancelled` a run that unwinds. `Cancel` is what the
task group and the caller do to all runs at once.

## Modules: answers, requests, prices and spans

These run inside one step of the modules above. They have actions of their own
because an answer arrives in pieces, a conversation grows turn by turn, a span
has a start and an end, and files are written one after another.

### ResponseRules and the four streams

`ResponseRules` has `response_outcome`, `final_text_block_index`, the step from a
response to the generation or error of the input, and the items a consumer of a
stream sees with what `adapter.py` promises of them. Each stream module
(`AnthropicStream`, `ResponsesStream`, `ChatStream`, `GeminiStream`) lets the
provider send any sequence of events that its protocol allows and break off
anywhere (`StreamBreaks`); in the same step the SDK folds the event into its
snapshot (external definitions) and the adapter's `items()` yields what it
yields. `Interpret` is `final()` with the reading of the finished message. A
fragment of text is a number, in order of arrival, so that a fragment lost,
doubled or in the wrong place shows; the separator between parts of reasoning is
0. What is particular to each: server tools and blocks that are not streamed
(Anthropic), items and parts that form side by side, error events and
incomplete responses (Responses), late ids, skipped indices, annotation chunks
of Azure and its content filter (Chat Completions), parts merged or appended,
signatures and blocked prompts (Gemini).

### Conversation, AnthropicRequest, OpenAIRequests, GeminiRequest

`Conversation` is what an application keeps and sends again: messages of parts
with a kind and a number that stands for the content. `AnthropicRequest` binds a
system prompt and tools, then builds a request at each turn: `AllowedBreakpoints`
and `SentBreakpoints` follow `_with_cache_breakpoints`, and stored blocks go back
as they came. `OpenAIRequests` builds the same conversation in both wire forms
(`Input`, `ChatMessages`). `GeminiRequest` starts from the provider's side: the
parts of an answer are stored (`Store`), an application may drop some, and are
sent back; a call without an id is named after its function, and such an id must
not reach the provider.

### Billing and CatalogRefresh

`Billing` starts from what a request consumed. `AnthropicBilling`, `ResponsesBilling`,
`ChatBilling` and `GeminiBilling` read the four conventions of counting;
`Costs` multiplies by the binding's table with its tiers, regions, long-context
rates and prices of searches; `Return` and the validation of a binding decide
what is accepted in the first place. A price nobody stated is `NaN`, which
spoils what it is part of unless nothing was used. The invoice in the
properties is computed from what was consumed, never from the counters.

`CatalogRefresh` is `scripts/update_pricing_metadata.py`: what LiteLLM lists is
rendered to tables with fewer numbers, or the refresh raises; then four files
are written one after the other.

### SpanParsing, SpanOperation, ForeignSpans

`SpanOperation` is one operation of `OtelObserver` from `Start` to `End`, with an
application that changes its messages meanwhile, filters and transforms that
raise, and a tracer whose span methods raise. `SpanParsing` has the rendering of
prompts, messages and tools into attributes and what `span_parsing.py` makes of
them again; `SpanOperation` reads its own span back at the end. `ForeignSpans`
reads the spans that other tracers write.

## Instances

`MC*.tla` and the `.cfg` files give instances. Components whose state is
disjoint share a run: an `MC` module declares the variables of each, a constant
`running` picks one at the start, only that one steps, and a property of a
component stands under `running = "..."` where the others' variables are unset.
So each behaviour is one of a single component, and the states of the run are the
sum, not the product, of theirs; fairness is stated for each step on condition
that it is its component's turn. What is composed for real is composed in a
module of its own (BatchOverQuota, StreamHandle's late report in SharedBackoff,
RetryWaits, AgentGraph).

`MCRetries` runs the failure mapping, the retry loops and, as an instance of
BatchOverQuota under its own name for the inputs (`BatchInputs`), a batch over one
quota. `MCRequests` has embedding requests and the requests of the adapters.
`MCRecords` has the resume file, fingerprints, spans and the catalogue, and the
theorems are about it; `MCAnswers` extends it with the four streams and the billing,
adds their steps to its own, and is what the run `records` checks.

Parts of a property are definitions of the component's module, each with its own
comment there; the property of the run conjoins those that tell of one thing.

## Runs

| Run | Property | What it shows |
|---|---|---|
| quota | `TypeOK` | the ceiling stays between its floor and `max_wait_seconds`, no pause is longer than the latter |
| | `PermitAccounting` | every permit counted has one holder, also between grant, cancellation and wake-up |
| | `NoLostWakeup` | a waiter with a free permit has a live timer due in time |
| | `FirstComeFirstServed` | nobody overtakes a waiting request |
| | `EveryWaiterLeavesTheQueue` | no starvation under repeated pushback |
| | `ImplementsContract` | refinement of `AdmissionContract` |
| | `CeilingGrowsOncePerHerd` | requests that were out together raise the ceiling once |
| loop | `OutcomeTellsEveryRequest` | every way out of an input builds a history its validator accepts, each request in it once, with its own usage, the kept row being the answer |
| | `QuotaHearsBeforeThePermitPasses` | pausing failures of every kind and source are recorded before the permit is free |
| | `BudgetIsExact` | the working-time budget counts all time outside admission, once |
| | `CreationIsShared` | one client creation at a time, nobody leaves a running one, a failed one is forgotten |
| | `BatchesAreWhole` | `run_many` and `embed` keep to their bounds, leave nothing running and return all results or none, with all usage recorded |
| | `BatchesStopInOrder` | `run_many` refines `OrderedBatch`, the lowest failure wins; no batch of `embed` sends after a failure |
| | `EveryCallEnds` | inputs with a budget, failing batches, callers of `prepare` and `embed` end |
| handle | `PermitFollowsTheStream` | the permit is out exactly while a request opens or its stream is read |
| | `OneEnding` | stored outcome, abandoned record and raised error exclude each other, and every way out leaves one of them, cancelled entries and closes included; the one exception is the close of a timed-out stream cancelled (`handle_cancelled`) |
| | `ObserverLearnsTheEnding` | the operation is concluded with that ending, once, and ended once |
| | `OutcomeIsKept` | a stored outcome is final |
| | `RequestsAreAccounted` | each request once with its usage, for streams abandoned anywhere too; no pausing failure lost |
| | `DispatchIsWhole` | `dispatch_many` leaves no function running, answers every call in its place, tells the observer everything |
| | `CallsEnd` | with `timeout_seconds` a stream call ends; a cancelled `dispatch_many` ends |
| retries | `RetriesFollowTheFailures` | every exception of four SDKs becomes the kind, pause and wait it tells of; private waits grow with own failures only |
| | `NoRequestBeforeItsTime` | no request before the waits that its loop and its quota were told |
| | `EveryLoopEnds` | retry loops end next to each other, though each may pause the quota again |
| | `PermitsAreUsedAndReturned` | in a batch no permit idles for want of a task while inputs are left, and all are back at the end |
| | `BatchEnds` | the batch ends though the provider never answers and waiting inputs spend no budget |
| agents | `AccountsAreClosed` | whatever a run ends with, cancelled runs included, its last event has its usage and that of its specialists, but for the searches that had settled in a cancelled `dispatch_many` (`agents_cancelled`); tools within budget, every call answered, nobody outlives the parent, every start has its end |
| | `NoTurnBeyondTheCostLimit` | no turn starts once the limit is spent, by specialists too |
| | `TheGraphEnds` | the graph ends whatever its models answer |
| records | `ResumeIsFaithful` | no record goes to another input, none finished is lost or sent again, over crashes; the one exception is a file with a malformed line, which only an append that failed leaves, in the call that wrote the file (`records_failed`) |
| | `FingerprintIsTheValue` | equal fingerprints exactly for equal values, shared or cyclic or iterated in any order |
| | `SpanTellsTheOperation` | spans end once with the right status, leak no filtered content, and read back as they were or not at all |
| | `CatalogIsTheListing` | written prices are the listed ones; a listing that does not fit changes no file |
| | `StreamIsFaithful` | in four streams what was streamed is what the message holds, and cut answers give no generation |
| | `CostIsTheInvoice` | a cost that is known is the provider's invoice, searches and cache savings included |
| | `SignedPartsAreFinal` | no chunk alters a part that has its signature |
| requests | `PartitionIsTheBest` | embedding inputs in order, within limits, in the fewest requests |
| | `BreakpointsAreKept` | at most the allowed breakpoints, the latest, on a conversation sent whole |
| | `ConversationGoesBack` | the two OpenAI forms agree; Gemini parts go back once and as they came; results follow their calls |
| | `SentPrefixIsStable` | what was sent is a prefix of what is sent later |
| backoff_resumed (violation) | `ResumedTrafficGrowsTheCeiling` | see findings, as for the next four |
| loop_usage (violation) | `EveryRecordKeepsItsUsage` | |
| handle_cancelled (violation) | `CancellationLeavesARecord` | the exception of `OneEnding` |
| agents_cancelled (violation) | `CancelledRunReportsSettledUsage` | the exception of `AccountsAreClosed` |
| records_failed (violation) | `FileStaysLoadable` | the exception of `ResumeIsFaithful` |

Deadlock is checked in every run; modules whose component ends stutter there by
an action of their own.

## Bounds

No state constraint is used; every bound is a constant or a guard.

- *quota*: three requests and two permits are the least with a holder, a waiter
  and another waiter behind it while a permit is in between. A maximal wait of
  four with a floor of one and a multiplier of two gives a ceiling that grows
  twice, is capped, decays and returns to its floor; stated waits are absent,
  invalid, below and above the cap; an interval of two lets timers be armed,
  replaced and due at different times. Ages saturate.
- *loop*: three requests let a note or a budget pass through a middle request; a
  budget of two is split over two. Four calls, two pending: a window that slides.
  Four callers and creations: of two that share a failed creation, one wakes late
  while a third creates anew, and a fourth comes.
  Three batches of two requests over two permits with a spare task.
- *handle*: three requests give two retries before the stream that opens, so that
  notes could pass from one to the next. The application may swallow a
  cancellation, which includes every behaviour of one that does not. Three tool
  calls of every kind.
- *retries*: waits below and above the cap; each of the 5,892 exceptions that
  differ in what a rule looks at; two loops of three requests. The batch has three
  inputs, one permit, two tasks for it, two requests and a budget of one each; a
  stated wait of six is longer than the cap of the ceiling.
- *agents*: two specialists, at most three turns, two tool calls a turn.
- *records*: three calls of six shapes on one file; 17,544 heaps of three
  containers with up to two items; spans whose settings differ from a full
  recording in at most two respects (streams: one); 5,718 listings, within two
  edits of a valid one in one provider's group at a time. Three blocks and four
  fragments (Anthropic), two items of two parts and three fragments (Responses), two
  calls and four fragments (Chat Completions), three parts in chunks of two (Gemini).
  Two tokens a request, five tables, a long-context threshold of one.
- *requests*: three messages of up to three parts; the Anthropic limit of four
  breakpoints is scaled to two; up to five inputs of sizes below, at and above each
  limit. Function names are symmetric, the only symmetry used.

## Fairness

The event loop runs every ready task and due timer, and time passes: weak
fairness of those steps. Beyond it each module assumes only what its code awaits
without a limit of its own:

- *SharedBackoff*: an admitted request ends. Nothing forces a caller to join or
  to cancel.
- *RequestLoop*: admission comes and closing a stream returns. The provider owes
  nothing: an answer, a failure or an end of stream has no fairness.
- *BatchOverQuota* (`BatchFairness` in MCRetries) owes neither of the first two: the
  budgets of the inputs that hold permits let in those behind them.
- *StreamHandle*: as RequestLoop, and an application that propagates a
  `CancelledError` leaves the block however often it is cancelled meanwhile
  (strong fairness). One that swallows it may await something else for ever
  (`TimeoutSwallowed`). It owes no call and no exit.
- *RunMany*: a cancelled call ends in the end; settling is strongly fair, since a
  further cancellation of the caller takes the place of a result, so it must not
  come in every turn. A call that was not cancelled may take for ever.
- *Dispatch*: a function that was asked to cancel ends. *ClientCache*: the thread
  returns. *EmbedBatches*: requests settle and permits are granted; as requests
  are finite, weak fairness of the grant is enough.
- *RetryWaits*: answers come, and admission is strongly fair, since other loops may
  pause the quota again and again.
- *AgentGraph*: the steps of each run and of the graph. No deadline is assumed.

Time in `RequestLoop` does not pass a due deadline: the run shows what the budget
counts, not how late a busy event loop is.

## Findings

- *Resumed traffic at the end of a pause* (`shared_backoff.py:445`).
  `_admit_waiting` admits at a reading equal to the end of the pause, but
  `_set_wait_ceiling` counts only later ones as resumed traffic, so a failure of
  that traffic does not grow the ceiling as the docstring at line 428 says. The
  readings must be equal, which takes a coarse clock or an exact timer.
- *Usage lost while closing* (`llm.py:864`). The deadline expires while a stream
  whose response is complete is being closed: the request is recorded as cut off
  without billing, although the provider reported its usage, which
  `README.md:15` promises to retain. `UsageIsRetained` is the same property with
  this case left out.
- *A cancelled exit after a timeout* (`streaming.py:231`). A caller cancellation
  during the close of a timed-out stream leaves neither an outcome nor an
  abandoned record, although the docstring at line 127 promises one before the
  caller receives `CancelledError`; the observer is told nothing either, and the
  usage of all requests of the input is lost. Such an exit ends in a place of its
  own, `cancelled_timed_out`, the only one that `OneEnding` leaves out.
- *A failed append in front of another* (`_generate_many_records.py:166`). An append
  that fails half-way (a full disk) is raised to the caller, but one that was under
  way behind it is still written, in the middle of the torn line. Line 210 says
  "Bytes after the last newline are ignored, because only an append cut off by a
  process failure leaves them."; here the line is complete and malformed, and no
  later call can load the file, with all the records in it. A process failure alone
  never does this (`OnlyFailedAppendsSpoilTheFile`).
- *A cancelled run of the example* (`task_stream.py:323`). `events.py:124` says that
  `AgentCancelled` reports "a run's cancellation and settled usage". A run cancelled
  in `dispatch_many` gets none of its outcomes, so what the searches that had
  settled cost is in no event, nor in that of the run above. The field `lost` of the
  model is that amount, and nothing else is missing from any report.

Two more disagreements have a definition and no run:

- `CancelledCallersAreCancelled` (ClientCache): `cancellation.py:22` says a caller
  that is cancelled gets the task's error only if the task raised it first, but a
  creation that fails while a cancelled caller waits for it raises in place of
  the cancellation.
- `YieldedCallsAreComplete` (AnthropicStream): a call that the provider cut off at
  the token limit is yielded like a complete one (`messages_adapter.py:1280`); the
  final message makes no generation of it.

In `BoundLLM`, a cancellation during the close of a stream that failed with
`pauses_quota` also keeps that failure from `SharedBackoff`. No document promises
otherwise.

## What is proved

Every theorem holds for all values of the constants that satisfy the assumptions
named in the modules: numbers of requests, inputs, calls, callers, batches and
permits, budgets, intervals and ceilings. A run shows the same property on an
instance; an MC module only repeats the assumptions of its components for the
values it gives them.

| Module | Theorem | Property |
|---|---|---|
| SharedBackoffProofs | `TypeCorrect`, `PermitsAreAccountedFor`, `NoWakeupIsLost` | `TypeOK`, `PermitAccounting`, `NoLostWakeup` |
| | `AdmissionIsFair` | `FirstComeFirstServed` |
| | `OneHerdOneGrowth`, `ContractIsKept` | `CeilingGrowsOncePerHerd`, `ImplementsContract` |
| | `PermitsComeBack` | `PermitsAreUsedAndReturned` of BatchOverQuota, which `retries` checks of its instance |
| MCLoopProofs | `QuotaIsTold`, `BudgetIsSpentExactly`, `OutcomeIsWhole` | `QuotaHearsBeforeThePermitPasses`, `BudgetIsExact`, `OutcomeTellsEveryRequest` |
| | `CreationIsOneForAll`, `BatchesEndWhole`, `BatchesEndInOrder` | `CreationIsShared`, `BatchesAreWhole`, `BatchesStopInOrder` |
| MCHandleProofs | `PermitIsExact`, `EndingIsUnique`, `ObserverIsTold`, `OutcomeIsStored` | `PermitFollowsTheStream`, `OneEnding`, `ObserverLearnsTheEnding`, `OutcomeIsKept` |
| | `StreamIsAccountedFor`, `DispatchIsAnswered` | `RequestsAreAccounted`, `DispatchIsWhole` |
| MCRetriesProofs | `FailuresAreFollowed`, `NobodyIsEarly` | `RetriesFollowTheFailures`, `NoRequestBeforeItsTime` |
| AgentGraphProofs | `AccountsClose`, `CostLimitHolds` | `AccountsAreClosed`, `NoTurnBeyondTheCostLimit` |
| MCRecordsProofs | `FilesKeepTheirRecords`, `CatalogQuotesTheListing` | `ResumeIsFaithful`, `CatalogIsTheListing` |
| MCRequestsProofs | `GreedyIsTheBest`, `RequestsKeepTheirBreakpoints` | `PartitionIsTheBest`, `BreakpointsAreKept` |
| | `PromptsGrowAtTheirEnd` | `SentPrefixIsStable` |

**SharedBackoff.** Neither `PermitAccounting` nor `NoLostWakeup` is inductive.
`Inv` adds that the queue holds each waiting request exactly where its phase says
(`Queued`: entries are distinct and pending or cancelled, and each pending request
has one), and that the set of holders is finite, so that its cardinality follows
the counter. `AdmitWaiting` is shown once, for any queue, counter, phases and timer
it may be entered with: if before the call the counter agreed with the holders,
then afterwards it does too and the timer is in time, whichever of its three ways
it takes. Every action that frees a permit or adds a waiter ends in it; the others
leave what `NoLostWakeup` reads alone, or, like `Tick`, move the timer and the
readings together. The order of admission is that of the queue: a step takes away
a prefix, one entry, or adds one at the end, and none of these swaps two
(`InOrder`).

**The past of SharedBackoff.** `PastInv` adds two facts to `Inv`.
`PauseCoversTheDebt`: the pause ends no earlier than any stated wait that is owed;
it carries the refinement, since no grant comes during a pause.
`StampsTellTheTraffic`: without traffic since the last pause the last admission
is no younger than the pause's end, which is what the code compares in place of a
flag. The refinement goes step by step: what fails, what only moves (joins,
wake-ups, exits, timers) and what lets time pass.

**A batch over one quota.** Every step of the batch is one of SharedBackoff with a
move of one input, or of run_many alone, or the cancellation of all tasks at once,
so `BatchInv` keeps `Inv` and adds three things. `Standing` says, for each place of
an input, where it is in the quota (idle outside, pending, granted or inside in it;
while the batch runs an input leaves early only from inside its block) and that one
on its way to a request has a request left. Only the input that moves changes its
place and the others at most receive a grant (`OneInputMoves`). `Filled` says that
while inputs are left to start, as many are pending as `MaxPending` allows. Hence,
with a permit free and nobody queued, the inputs in the quota hold permits and are
fewer than those, so that the rest of the pending are away; and when nobody is
pending nobody holds or waits for a permit.

**RequestLoop.** `QuotaInv`: the quota is behind by at most the failure whose
stream is being closed, while the permit is held. `BudgetInv`: what is left is the
whole less what was worked, in each of the places where the code keeps the rest
(`Left`: the deadline, or the number put aside during admission). `HistoryInv`:
between two requests the ledger holds those sent, all failed (`Settled`); during
one, those before it, and `InFlight` says what was noted and staged of it. An
ending is reached from either shape, and `RequestHistoryProofs` shows once, for
both users of the ledger, which shape freezing gives and that the validators
accept it. The shape is stated for every position, so no induction on the length
is needed.

**StreamHandle.** `PermitInv` ties `_admission` to the await, `_state` and whether the
stream was drained. `EndingInv` says why a second ending cannot come about: when an
outcome is stored the scope is closed, so the exit cannot time out, and a handle still
open was drained, so the only read left is a `final` that returns what is stored; and
the operation runs exactly while the handle is entered and has no ending. It also says
why none is missing: each place in which a handle was left, but `cancelled_timed_out`,
has its ending, so a cancelled step must abandon. Steps are grouped by what they do to
the ending (`RaiseEnds`, `AbandonEnds`, `StoreEnds`, `EndingKept`). `HistoryInv`
follows the ledger through retries, the open stream, a failure whose stream is being
closed and the ending (`InFlight`, `AllRecorded`, `Tells`); `ControlInv` says what the
quota was told.

**Dispatch.** `ToolsInv` says how far the tasks are in each place of `dispatch_many`
(`TasksFollow`: from the gather on all exist, at the end none runs) and that what
the observer has heard follows from that (`FollowedSoFar`), which `Close` establishes
whatever was raised before. The outcome is the subject of `GatheredIsWhole`: how a
call ended puts it in one of three sets, and each is listed in order. That needs no
induction, since a call's position in such a list is the number of calls of its set
up to it, which maps the set one to one to the positions (`SortedCalls`).

**run_many, the client cache and embed.** The three share `running`, and one
steps at a time, so `FamilyInv` is the conjunction of their invariants.
`ManyInv`: the calls that have begun are those before `next`, and of them the ones
not pending have succeeded while the batch goes on; filling takes an interval of
indices, which keeps the number pending within the bound. Every step is then a
step of `OrderedBatch` (`BatchSteps`). `CacheInv`: a running creation is the one
stored, who left has left a settled one, and a stored creation that did not succeed
has a caller waiting for it, who will forget it.
`EmbedInv` has one line for each batch (`BatchTells`), which relates its place,
records, requests sent and usage billed, and says that the event is set exactly
when a batch has failed: hence nobody sends after a failure, and a batch that
stopped early had a reason.

**Failures and waits.** What an exception becomes is shown adapter by adapter:
`WellFormed` says what the rules may rely on in its exceptions, `Follows` what the
failure has to be, and `EveryErrorFollows` that it is so for each. In particular the
wait of a failure that is retried or pauses the quota is one of those stated
(`Judged`), so it is at least the least of them, also when both are capped
(`Covers`). `WaitsInv` then says who makes a loop wait: what is owed to the quota is
covered by its pause, which no later failure shortens; what is owed to a loop by its
private wait, or by the pause while it asks for admission. So a request that starts
finds no pause, and nothing owed. For the ceiling: a loop between two requests has
had fewer failures than requests, so its count is exact (`CeilingGrows` is the step).

**The agents.** `RunOk` says of one run what its record tells by itself: the calls
created are within the budget of tools (`executed` plus those still to run is at most
`toolCallsMade`), what was billed is in the log or found by the calls of this turn
(`Accounts`; of a run cancelled with its calls also in `lost`, which is the finding
above), and what was heard follows from the place. `ParentInv` ties the runs together:
an active specialist is one that a call of the climate researcher waits for, and is
cancelled only with it. So when a batch has settled, no specialist is active
(`SettledIsOver`), none changes any more, and what they have logged is what they were
billed (`SettledUsage`), which is what the cost limit and the last event read. The
sums over the specialists enter only through that equality and through `ReportInv`
(the last event of every run, a cancelled one too, is its log and those below it), so
that no induction on their number is needed. Each step moves one run (`Moves`,
`MoveKeeps`), starts one below a call (`DelegateKeeps`), or cancels a subtree
(`CancelKeeps`).

**The resume file.** `ResumeInv` has a part for each piece of state. `FileInv`: the
file, if there is one, can be one of the inputs of this call (what its lines may hold
is `FilesOf`), and there is one while the call runs. `ItemInv`: an input at work on
its append, or finished, has a record of its own. `ReusedInv`: a reused record belongs
to the input it is given to, by position or by id, is no retry, and its input is not
started again. `QueueInv`: the appends that wait are those of the inputs at that
stage, once each. `PromiseInv` is the heart: the records promised are those reused and
those finished, and they are all in the file if its lines can be read, for each way
a crash, a failing append or the next call can come in between. Unless an append
failed in this call the lines can be read, and while it runs there is no torn end; a
failed append leaves a torn end or, behind a torn end, a malformed line
(`AppendCutOff`). So the exception in `ResumeIsFaithful` is exact.
The reused lines are written in index order, by a sequence chosen from all
enumerations of a set, which the cardinality theorems show to exist.

**The price catalogue.** `CatalogInv` ties the files to the place of the script: new
are those written so far, in their order; anything written means that every entry
selected can be rendered; a refresh that raised left all as it was, or one file torn.
The rest is arithmetic on one table. A rate is an
integer multiple of the unit and a ratio one that divides it, so the product of a base
rate, a long-context ratio and a regional multiplier comes out at the listed price
because all pairs of rates were compared crosswise (`RatioIs`, `RegionalQuoteIs`),
and conversely nothing is in a table without a listed rate (`RenderedInventsNothing`).
The attempt to prove this found a statement that was too strong: a one-hour cache
write listed for batches is ignored and one derived instead. LiteLLM lists none, as
the script says, and `QuotesAreListed` now leaves it out by name.

**The partition of inputs.** That one pass from the left needs the fewest requests
is an exchange argument, and `PartInv` carries it
as a fact about every cut that fits: at each moment such a cut has ended at least as
many requests as the pass has full batches. A full batch and the next input fit no
request together (`NoLeap`), so no cut can run over that boundary, and the claim holds
again one batch later. `body` is the size of the open batch, which is the sum over a
stretch of the inputs, so the size of any stretch is a difference of two sums. It is
proved once, over a record of limits, and used for Cohere and for OpenAI.

**Conversations.** An application adds messages at the end, and both OpenAI wire forms
are made message by message, part by part; so if two conversations share a beginning,
so do the lists made of them (`JoinGrows`, `ListGrows`). That each item, its phase
included, depends on its own message alone is what the proof rests on; the mutant that
reads the whole conversation to choose a phase is the bug it excludes.
`ConversationInv` says what a conversation is made of.

**Breakpoints.** `AnthropicInv` ties the last request to the conversation it was built
from. Consecutive results are merged into one message, which is followed message by
message (`WithMessage`): no two messages of results are adjacent, and the ids of the
blocks read in order are those of the conversation (`MergedIs`). The places of blocks
are ordered strictly and totally (`BeforeIsAnOrder`); a breakpoint is kept if fewer
than the budget come after it. If one is left out, take the latest such: exactly as
many as there is room for come after it, and all those are kept (`LastOnesAre`). So the
kept ones are never more than the budget, are the latest, and are short of it only when
all are kept. With what the binding took, and the automatic mark, which is on the last
block and not on a thinking block (`AutomaticIsLast`), this is the limit of the API.

Assumptions: the constructor's checks (`WaitAssumption`, `DecayAssumption`,
`PermitAssumption`, `CeilingAssumption`), a positive request-start interval
(`IntervalAssumption`: a rate so high that adding the interval does not change the
clock reading is not covered), the ranges of the other counts, and for the batch that
its inputs are finitely many and its quota has a limit (`BatchAssumption`, a hypothesis
of `PermitsComeBack`, which MCRetries assumes of its instance). A stated
wait is a positive number, and None is neither a number nor a failure
(`WaitsAssumption`, `NoFailureAssumption`). A call on a resume file has inputs, and its
ids, if it has any, are as many and distinct, which `_ResumeHeader` checks
(`ShapesAreValid`). Listed rates are multiples of one unit and divide it when
compared (`RatesAssumption`: the script computes with decimals). Agents have any limits
and finitely many specialists (`LimitsAssumption`). Inputs to embed have sizes in
natural numbers, and a request may have at least one (`PartitionAssumption`,
`TextsAssumption`). The prover knows nothing of `^`: what it
needs of the powers of the multiplier, facts of arithmetic that TLC evaluates for the
instance, is in `DecayAssumption` and `PowersAssumption`.

Only model-checked: fingerprints, spans, the four streams, billing, and that a
conversation goes back as it came (`ConversationGoesBack`). Liveness needs `ENABLED`,
which is beyond TLAPS here. Induction over data is so in the form of the library's
theorems, which take an operator; where a fold was a recursive function over a range,
a least counterexample does instead (`Least`, `Induct`, `Recursion` in
MCRequestsProofs), and so the sums, joins and merges of requests are proved. It does
not reach the encodings of `ConfigFingerprint`, which recurse over a heap, and what
the streams, spans and Gemini's parts are read with, which select, sort and fold by
operators of the community modules.

## Not modelled

- Wording, logging, event counts, timing fields and request ids, retry texts;
  validation of arguments other than what an `ASSUME` states; the schemas of tools
  and of structured output; the conformance helpers, single-call examples, release
  scripts and tests.
- *SharedBackoff*: floating-point rounding; waits are whole ticks and the decayed
  ceiling is rounded down. *RequestLoop*: SharedBackoff is reduced to the permit
  and the failures told, and the length of the private backoff is any; binding
  and re-binding; a `build_request_params` that raises a plain exception (`llm.py:920`)
  and a `billing_from_raw` or `identity_from_raw` that raises before the response is
  staged (`llm.py:824`). *StreamHandle*: two tasks that use one handle at once.
- *BatchOverQuota*: order of results (RunMany), ends of event loops, drained
  streams. *ResumeFile*: the temporary files of a crash. *ConfigFingerprint*: the
  hash and the fixed field lists of bindings and tools.
- *AgentGraph*: invalid tool arguments, duplicate ids, costs that are NaN and a
  `max_cost` of None; a unit of cost is one input or search; callbacks raise only
  through a search's progress.
- *RequestFailures*: whether an SDK retries is a free choice; a header is a number,
  nothing or unreadable; the `retry_after_seconds` of a `TransientError` that an
  adapter of an application raises (`request_failure.py:56`): the package's own
  raise (`llm.py:878`) sets none.
- *Streams*: in Chat Completions the finish reason comes in a chunk of its own, calls
  form one at a time and a late id comes with arguments, and content of the empty
  string is no content (`chat_completions_adapter.py:416` keeps an empty part); an
  Anthropic call is cut off only with max_tokens, refusal or a full context window;
  the text of a refusal is not streamed; a blocked Gemini prompt has no candidates.
- *Requests*: applications drop parts but do not reorder them; Gemini's own ids
  never equal function names, those made from names may repeat.
- *Billing*: tool support other than "own" and stored configurations ("reference"
  in `extra_body`) are two values; Gemini's code execution and the fetch of
  Responses are free. *CatalogRefresh*: search prices and non-standard tiers of
  prefixed entries, Anthropic uplifts, `inference_geo`, a listed one-hour batch
  write, aliases and the report of models without a table; float rounding.
- *Spans*: the parent span and the current span are OpenTelemetry's; a filter is
  one rule; None and empty prompt are one, and so are absent and null arguments;
  raw parts and empty reasoning are not recorded; pydantic's validation.

## Plan

What is modelled is what the plan had, and what tasks share, what is on disk, what
the agents account for and what requests to embed, to OpenAI and to Anthropic hold
is proved about. What is left for proofs are the other translations between
conventions: `ConversationGoesBack`, the four streams, spans and billing.
`PermitsComeBack` assumes finitely many inputs, as the code does; the theorems of
SharedBackoff hold without that.
