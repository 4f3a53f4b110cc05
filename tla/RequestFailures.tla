--------------------------- MODULE RequestFailures ---------------------------
(***************************************************************************)
(* What one failed request means: the rules by which each provider's       *)
(* adapter turns an exception into a RequestFailure.  An exception is      *)
(* what the rules look at: its class, the HTTP status and error type of    *)
(* the answer it carries, what the SDK's own retry rule says of it, and    *)
(* the waits the provider states in headers and in the body.               *)
(***************************************************************************)
EXTENDS Integers

CONSTANTS
  None,       (* no value                                                  *)
  Unreadable, (* a header without a positive number or a future date       *)
  Waits       (* waits a provider states                                   *)

ASSUME WaitsAssumption ==
  Waits \subseteq Nat \ {0} /\ None \notin Nat /\ Unreadable \notin Nat

Providers == {"anthropic", "openai", "gemini", "cohere"}
Statuses == {200, 302, 400, 401, 408, 429, 500, 503, 529}
Types == {"limited", "retried", "terminal", "unlisted"}
AuthStatuses == {401, 403}

(* type: a member of the adapter's pause table, of its retry table, of its *)
(* table of terminal codes, or of none of them.                            *)
(* judged: where the answer that the SDK judged is found.                  *)
Exceptions(class, status, type, sdk, judged, headers, retryInfo, pauses) ==
  [class : class, status : status, type : type, sdk : sdk, judged : judged,
   headers : headers, retryInfo : retryInfo, pauses : pauses]

StatedIn == Waits \union {None, Unreadable}
Headers == [ms : StatedIn, plain : StatedIn]
Silent == [ms |-> None, plain |-> None]

SdkAnswers == {"retry", "decline", "raises"}

(* Exceptions without an answer of the provider.                           *)
Unanswered ==
  Exceptions({"TransientError"}, {None}, {"unlisted"}, {"decline"}, {"none"}, {Silent}, {None}, BOOLEAN)
  \union Exceptions({"StreamProtocolError", "connection", "other"}, {None}, {"unlisted"}, SdkAnswers,
                    {"none"}, {Silent}, {None}, {FALSE})

Answered(provider) ==
  CASE provider = "anthropic" ->
         Exceptions({"status"}, Statuses, Types, SdkAnswers, {"chain"}, Headers, {None}, {FALSE})
         \union Exceptions({"status"}, Statuses, Types, SdkAnswers, {"none", "elsewhere"}, {Silent}, {None}, {FALSE})
    [] provider = "openai" ->
         Exceptions({"status"}, Statuses, Types, SdkAnswers, {"chain"}, Headers, {None}, {FALSE})
    [] provider = "gemini" ->
         Exceptions({"status"}, Statuses, {"unlisted"}, SdkAnswers, {"chain"}, Headers, StatedIn, {FALSE})
         \union Exceptions({"status"}, {None}, {"unlisted"}, SdkAnswers \ {"retry"}, {"chain"}, Headers, StatedIn, {FALSE})
    [] provider = "cohere" ->
         Exceptions({"status"}, Statuses \union {None}, {"limited", "unlisted"}, {"decline"}, {"chain"}, Headers, {None}, {FALSE})

ErrorsOf(provider) == Unanswered \union Answered(provider)

-----------------------------------------------------------------------------
Failure(kind, pausesQuota, retryAfter) ==
  [kind |-> kind, pausesQuota |-> pausesQuota, retryAfter |-> retryAfter]

Kinds == {"transient", "auth", "rejected", "provider_failed_terminally", "unknown_exception"}

FailureRecords == [kind : Kinds, pausesQuota : BOOLEAN, retryAfter : Waits \union {None}]

ASSUME NoFailureAssumption == None \notin FailureRecords

UnknownException == Failure("unknown_exception", FALSE, None)
TransportFailure == Failure("transient", FALSE, None)

(* retry_after_seconds_from_headers: milliseconds first.                   *)
RetryAfterFromHeaders(headers) ==
  CASE headers.ms \in Nat -> headers.ms
    [] headers.ms \notin Nat /\ headers.plain \in Nat -> headers.plain
    [] OTHER -> None

RetryAfterFromError(error) ==
  LET header == RetryAfterFromHeaders(error.headers)
  IN CASE header # None -> header
       [] header = None /\ error.retryInfo \in Nat -> error.retryInfo
       [] OTHER -> None

TerminalKind(status) ==
  CASE status = 200 \/ status \in 500..599 -> "provider_failed_terminally"
    [] status \in AuthStatuses -> "auth"
    [] status \in (400..499) \ AuthStatuses -> "rejected"
    [] OTHER -> "unknown_exception"

WaitOfRetriesOnly(status, retryAfter, retries, pausesQuota) ==  (* mutant *)
  CASE retries -> Failure("transient", pausesQuota, retryAfter)
    [] ~retries /\ pausesQuota -> Failure("provider_failed_terminally", TRUE, None)
    [] OTHER -> Failure(TerminalKind(status), FALSE, None)

PauseOfRetriesOnly(status, retryAfter, retries, pausesQuota) ==  (* mutant *)
  IF retries THEN Failure("transient", pausesQuota, retryAfter)
  ELSE Failure(TerminalKind(status), FALSE, None)

RequestFailureFromResponse(status, retryAfter, retries, pausesQuota) ==
  CASE retries -> Failure("transient", pausesQuota, retryAfter)
    [] ~retries /\ pausesQuota -> Failure("provider_failed_terminally", TRUE, retryAfter)
    [] OTHER -> Failure(TerminalKind(status), FALSE, None)

-----------------------------------------------------------------------------
(***************************************************************************)
(* Each adapter's rule, and whether it counts an error that its tables do  *)
(* not list.                                                               *)
(***************************************************************************)
RetriesOfSdk(error, pausesQuota) ==  (* mutant: the SDK judges errors inside a stream, too *)
  error.sdk = "retry"

AnthropicRetries(error, pausesQuota) ==
  IF error.status = 200 THEN pausesQuota \/ error.type = "retried" ELSE error.sdk = "retry"

AnthropicResponseFailure(error) ==
  LET pausesQuota == error.status \in {429, 529} \/ error.type = "limited"
  IN RequestFailureFromResponse(error.status, RetryAfterFromHeaders(error.headers),
                                AnthropicRetries(error, pausesQuota), pausesQuota)

AnthropicRequestFailure(error) ==
  CASE error.sdk = "raises" -> UnknownException
    [] error.sdk # "raises" /\ error.judged = "none" ->
         IF error.sdk = "retry" THEN TransportFailure ELSE UnknownException
    [] error.sdk # "raises" /\ error.judged = "chain" -> AnthropicResponseFailure(error)
    [] OTHER -> UnknownException

SdkAnswersEverything(error) ==  (* mutant *)
  CASE error.class = "connection" -> TransportFailure
    [] error.class # "status" -> UnknownException
    [] OTHER -> RequestFailureFromResponse(error.status, RetryAfterFromHeaders(error.headers),
                  error.sdk = "retry", error.status \in {429, 503})

OpenAIRequestFailure(error) ==
  LET answer(retries, pausesQuota) ==
        RequestFailureFromResponse(error.status, RetryAfterFromHeaders(error.headers), retries, pausesQuota)
  IN CASE error.class = "connection" -> TransportFailure
       [] error.class \notin {"connection", "status"} -> UnknownException
       [] error.class = "status" /\ error.status = 200 ->
            answer(error.type \in {"limited", "retried"}, error.type = "limited")
       [] error.class = "status" /\ error.status # 200 /\ error.sdk = "raises" -> UnknownException
       [] OTHER -> answer(error.sdk = "retry", error.status \in {429, 503})

GeminiWithoutCode(error) ==  (* mutant: an answer without a code is judged by it *)
  CASE error.sdk = "raises" -> UnknownException
    [] error.sdk # "raises" /\ error.class # "status" ->
         IF error.sdk = "retry" THEN TransportFailure ELSE UnknownException
    [] OTHER -> RequestFailureFromResponse(IF error.status = None THEN 400 ELSE error.status,
                  RetryAfterFromError(error), error.sdk = "retry", error.status \in {429, 503})

GeminiRequestFailure(error) ==
  CASE error.sdk = "raises" -> UnknownException
    [] error.sdk # "raises" /\ (error.class # "status" \/ error.status = None) ->
         IF error.sdk = "retry" THEN TransportFailure ELSE UnknownException
    [] OTHER -> RequestFailureFromResponse(error.status, RetryAfterFromError(error),
                  error.sdk = "retry", error.status \in {429, 503})

CohereRequestFailure(error) ==
  LET throttled == error.type = "limited"
  IN CASE error.class = "connection" -> TransportFailure
       [] error.class # "connection" /\ (error.class # "status" \/ error.status = None) -> UnknownException
       [] OTHER -> RequestFailureFromResponse(error.status, RetryAfterFromHeaders(error.headers),
                     throttled \/ error.status \in {408, 429} \/ error.status >= 500, throttled)

AdapterRequestFailure(provider, error) ==
  CASE provider = "anthropic" -> AnthropicRequestFailure(error)
    [] provider = "openai" -> OpenAIRequestFailure(error)
    [] provider = "gemini" -> GeminiRequestFailure(error)
    [] provider = "cohere" -> CohereRequestFailure(error)

(* _request_failure_of: what langchaint raises states its own failure.     *)
RequestFailureOf(provider, error) ==
  CASE error.class = "TransientError" -> Failure("transient", error.pauses, None)
    [] error.class = "StreamProtocolError" -> TransportFailure
    [] OTHER -> AdapterRequestFailure(provider, error)

CountsUnretried(provider, error) ==  (* mutant: codes listed as terminal count, too *)
  /\ error.class = "status" /\ error.status = 200
  /\ provider \in {"anthropic", "openai"}
  /\ error.type \in {"terminal", "unlisted"}
  /\ provider = "anthropic" => error.sdk # "raises" /\ error.judged = "chain"

(* REQUEST_FAILURE_FALLTHROUGH_COUNTS grows.                               *)
CountsFallthrough(provider, error) ==
  /\ error.class = "status" /\ error.status = 200
  /\ \/ /\ provider = "anthropic" /\ error.type \in {"terminal", "unlisted"}
        /\ error.sdk # "raises" /\ error.judged = "chain"
     \/ provider = "openai" /\ error.type = "unlisted"
=============================================================================
