--------------------------- MODULE MCRetriesProofs ---------------------------
(***************************************************************************)
(* What every exception of every adapter becomes, and how long the retry   *)
(* loops wait for it, for any waits a provider states, any number of loops *)
(* and requests, and any ceilings.                                         *)
(***************************************************************************)
EXTENDS MCRetries, TLAPS

(* What the rules may rely on in the exceptions of an adapter.             *)
WellFormed(p, e) ==
  /\ e.headers \in Headers /\ e.retryInfo \in StatedIn /\ e.sdk \in SdkAnswers
  /\ e.pauses \in BOOLEAN
  /\ e.class # "status" => Stated(e) = {} /\ e.judged = "none"
  /\ e.class = "status" =>
       /\ e.status \in Statuses \union {None} /\ e.type \in Types
       /\ p # "gemini" => e.retryInfo = None
       /\ p = "openai" => e.status \in Statuses
       /\ p = "anthropic" => e.status \in Statuses /\ (e.judged # "chain" => Stated(e) = {})
       /\ p = "gemini" => e.type = "unlisted" /\ (e.status = None => e.sdk # "retry")
       /\ p = "cohere" => e.type \in {"limited", "unlisted"}

-----------------------------------------------------------------------------
(* Exceptions.                                                             *)
LEMMA Constants ==
  Waits \subseteq Nat \ {0} /\ None \notin Nat /\ None \notin Waits /\ Unreadable \notin Waits
BY WaitsAssumption

LEMMA SilentStates == ASSUME NEW e, e.headers = Silent, e.retryInfo = None PROVE Stated(e) = {}
BY Constants DEF Stated, Silent

LEMMA UnansweredShape ==
  ASSUME NEW p \in Providers, NEW e \in Unanswered
  PROVE  WellFormed(p, e)
<1>1. /\ e.headers = Silent /\ e.retryInfo = None /\ e.sdk \in SdkAnswers /\ e.pauses \in BOOLEAN
      /\ e.class # "status" /\ e.judged = "none"
  BY DEF Unanswered, Exceptions, SdkAnswers
<1>2. Silent \in Headers /\ None \in StatedIn
  BY DEF Silent, Headers, StatedIn
<1>3. Stated(e) = {}
  BY <1>1, SilentStates
<1>4. QED
  BY <1>1, <1>2, <1>3 DEF WellFormed

LEMMA AnsweredShape ==
  ASSUME NEW p \in Providers, NEW e \in Answered(p)
  PROVE  WellFormed(p, e)
<1>0. Silent \in Headers /\ None \in StatedIn
  BY DEF Silent, Headers, StatedIn
<1>1. CASE p = "anthropic"
  <2>1. /\ e.headers \in Headers /\ e.retryInfo = None /\ e.sdk \in SdkAnswers /\ e.pauses = FALSE
        /\ e.class = "status" /\ e.status \in Statuses /\ e.type \in Types
        /\ e.judged # "chain" => e.headers = Silent
    BY <1>0, <1>1 DEF Answered, Exceptions
  <2>2. QED
    BY <1>0, <1>1, <2>1, SilentStates DEF WellFormed
<1>2. CASE p = "openai"
  <2>1. /\ e.headers \in Headers /\ e.retryInfo = None /\ e.sdk \in SdkAnswers /\ e.pauses = FALSE
        /\ e.class = "status" /\ e.status \in Statuses /\ e.type \in Types
    BY <1>2 DEF Answered, Exceptions
  <2>2. QED
    BY <1>0, <1>2, <2>1 DEF WellFormed
<1>3. CASE p = "gemini"
  <2>1. /\ e.headers \in Headers /\ e.retryInfo \in StatedIn /\ e.sdk \in SdkAnswers /\ e.pauses = FALSE
        /\ e.class = "status" /\ e.type = "unlisted"
        /\ e.status \in Statuses \/ (e.status = None /\ e.sdk # "retry")
    BY <1>3 DEF Answered, Exceptions
  <2>2. QED
    <3>1. e.status \in Statuses \union {None} /\ (e.status = None => e.sdk # "retry")
      BY <2>1, Constants DEF Statuses
    <3>2. e.type \in Types /\ p # "openai" /\ p # "anthropic" /\ p # "cohere"
      BY <1>3, <2>1 DEF Types
    <3>3. e.pauses \in BOOLEAN
      BY <2>1
    <3>4. QED
      BY <1>3, <2>1, <3>1, <3>2, <3>3 DEF WellFormed
<1>4. CASE p = "cohere"
  <2>1. /\ e.headers \in Headers /\ e.retryInfo = None /\ e.sdk \in SdkAnswers /\ e.pauses = FALSE
        /\ e.class = "status" /\ e.type \in {"limited", "unlisted"}
        /\ e.status \in Statuses \union {None}
    BY <1>4 DEF Answered, Exceptions, SdkAnswers
  <2>2. QED
    BY <1>0, <1>4, <2>1 DEF WellFormed, Types
<1>5. QED
  BY <1>1, <1>2, <1>3, <1>4 DEF Providers

LEMMA ErrorShape ==
  ASSUME NEW p \in Providers, NEW e \in ErrorsOf(p)
  PROVE  WellFormed(p, e)
BY UnansweredShape, AnsweredShape DEF ErrorsOf

-----------------------------------------------------------------------------
(* Stated waits.                                                           *)
LEMMA HeaderWait ==
  ASSUME NEW h \in Headers
  PROVE  /\ {h.ms, h.plain} \intersect Waits = {} => RetryAfterFromHeaders(h) = None
         /\ {h.ms, h.plain} \intersect Waits # {} =>
              RetryAfterFromHeaders(h) \in {h.ms, h.plain} \intersect Waits
BY Constants, WaitsAssumption DEF Headers, StatedIn, RetryAfterFromHeaders

LEMMA ErrorWait ==
  ASSUME NEW e, e.headers \in Headers, e.retryInfo \in StatedIn
  PROVE  /\ Stated(e) = {} => RetryAfterFromError(e) = None
         /\ Stated(e) # {} => RetryAfterFromError(e) \in Stated(e)
         /\ Stated(e) = {} => RetryAfterFromHeaders(e.headers) = None
         /\ Stated(e) # {} /\ e.retryInfo = None => RetryAfterFromHeaders(e.headers) \in Stated(e)
         /\ RetryAfterFromHeaders(e.headers) \in Stated(e) \union {None}
BY HeaderWait, Constants, WaitsAssumption DEF Stated, RetryAfterFromError, StatedIn

(* The demand is the least of at most three waits.                         *)
LEMMA DemandIsLeast ==
  ASSUME NEW e
  PROVE  /\ Stated(e) = {} => DemandOf(e) = 0
         /\ DemandOf(e) \in Nat
         /\ \A n \in Stated(e) : DemandOf(e) <= n
<1>1. CASE Stated(e) = {}
  BY <1>1 DEF DemandOf
<1>2. CASE Stated(e) # {}
  <2>1. Stated(e) \subseteq Nat
    BY Constants DEF Stated
  <2>2. \E n \in Stated(e) : \A other \in Stated(e) : n <= other
    <3> DEFINE a == e.headers.ms
               b == e.headers.plain
               c == e.retryInfo
    <3>1. \A n \in Stated(e) : n = a \/ n = b \/ n = c
      BY DEF Stated
    <3> HIDE DEF a, b, c
    <3>2. QED
      BY <1>2, <2>1, <3>1
  <2>3. DemandOf(e) \in Stated(e) /\ \A other \in Stated(e) : DemandOf(e) <= other
    BY <1>2, <2>2 DEF DemandOf
  <2>4. QED
    BY <1>2, <2>1, <2>3
<1>3. QED
  BY <1>1, <1>2

-----------------------------------------------------------------------------
(* Rules.                                                                  *)
Judged(e, f) ==
  /\ f \in FailureRecords
  /\ f.kind = "transient" \/ f.pausesQuota =>
       IF Stated(e) = {} THEN f.retryAfter = None ELSE f.retryAfter \in Stated(e)
  /\ f.kind \in {"auth", "rejected", "provider_failed_terminally"} =>
       e.class = "status" /\ e.status # None

LEMMA FailureFields ==
  ASSUME NEW kind \in Kinds, NEW pauses \in BOOLEAN, NEW wait \in Waits \union {None},
         NEW f, f = Failure(kind, pauses, wait)
  PROVE  /\ f \in FailureRecords
         /\ f.kind = kind /\ f.pausesQuota = pauses /\ f.retryAfter = wait
BY DEF Failure, FailureRecords

LEMMA UnknownJudged == ASSUME NEW e PROVE Judged(e, UnknownException)
<1>1. /\ UnknownException.kind = "unknown_exception" /\ UnknownException.pausesQuota = FALSE
      /\ UnknownException \in FailureRecords
  BY DEF UnknownException, Failure, FailureRecords, Kinds
<1>2. QED
  BY <1>1 DEF Judged

(* A failure without an answer.                                            *)
LEMMA UnansweredJudged ==
  ASSUME NEW e, NEW f, Stated(e) = {},
         \/ f = UnknownException \/ f = TransportFailure
         \/ \E pauses \in BOOLEAN : f = Failure("transient", pauses, None)
  PROVE  Judged(e, f)
<1>1. /\ f \in FailureRecords /\ f.kind \in {"unknown_exception", "transient"}
      /\ f.retryAfter = None
  <2>1. /\ "unknown_exception" \in Kinds /\ "transient" \in Kinds
        /\ None \in Waits \union {None}
    BY DEF Kinds
  <2>2. TRUE \in BOOLEAN /\ FALSE \in BOOLEAN
    OBVIOUS
  <2>3. ASSUME NEW kind \in {"unknown_exception", "transient"}, NEW pauses \in BOOLEAN,
               f = Failure(kind, pauses, None)
        PROVE  f \in FailureRecords /\ f.kind = kind /\ f.retryAfter = None
    BY <2>1, <2>3, FailureFields
  <2>4. CASE f = UnknownException
    BY <2>2, <2>3, <2>4, Zenon DEF UnknownException
  <2>5. CASE f = TransportFailure
    BY <2>2, <2>3, <2>5, Zenon DEF TransportFailure
  <2>6. CASE \E pauses \in BOOLEAN : f = Failure("transient", pauses, None)
    BY <2>3, <2>6
  <2>7. QED
    BY <2>4, <2>5, <2>6
<1>2. QED
  BY <1>1 DEF Judged

LEMMA TerminalOf200 == TerminalKind(200) = "provider_failed_terminally"
<1>1. /\ 200 = 200 \/ 200 \in 500..599
      /\ 200 \notin AuthStatuses /\ 200 \notin (400..499) \ AuthStatuses
  BY DEF AuthStatuses
<1>2. QED
  BY <1>1, Zenon DEF TerminalKind

LEMMA AnsweredJudged ==
  ASSUME NEW e, NEW f, NEW wait, NEW status \in Statuses, NEW retries \in BOOLEAN,
         NEW pauses \in BOOLEAN, e.class = "status", e.status = status, None \notin Nat,
         f = RequestFailureFromResponse(status, wait, retries, pauses),
         IF Stated(e) = {} THEN wait = None ELSE wait \in Stated(e)
  PROVE  /\ Judged(e, f)
         /\ pauses => f.pausesQuota
         /\ status = 200 /\ retries => f.kind = "transient"
         /\ status = 200 /\ ~retries => f.kind = "provider_failed_terminally"
<1>1. wait \in Waits \union {None} /\ status # None
  BY DEF Stated, Statuses
<1>2. TerminalKind(status) \in Kinds \ {"transient"}
  BY DEF TerminalKind, Kinds
<1>3. /\ retries => f = Failure("transient", pauses, wait)
      /\ ~retries /\ pauses => f = Failure("provider_failed_terminally", TRUE, wait)
      /\ ~retries /\ ~pauses => f = Failure(TerminalKind(status), FALSE, None)
  BY DEF RequestFailureFromResponse
<1>4. CASE retries
  <2>1. /\ f \in FailureRecords /\ f.kind = "transient" /\ f.retryAfter = wait
        /\ f.pausesQuota = pauses
    <3>1. "transient" \in Kinds /\ wait \in Waits \union {None} /\ pauses \in BOOLEAN
      BY <1>1 DEF Kinds
    <3>2. f = Failure("transient", pauses, wait)
      BY <1>3, <1>4
    <3>3. ASSUME NEW b \in BOOLEAN, f = Failure("transient", b, wait)
          PROVE  /\ f \in FailureRecords /\ f.kind = "transient" /\ f.retryAfter = wait
                 /\ f.pausesQuota = b
      BY <3>1, <3>3, FailureFields
    <3>4. QED
      BY <3>1, <3>2, <3>3, Zenon
  <2>2. QED
    BY <1>4, <2>1 DEF Judged
<1>5. CASE ~retries /\ pauses
  <2>1. "provider_failed_terminally" \in Kinds /\ TRUE \in BOOLEAN
    BY DEF Kinds
  <2>2. ASSUME NEW b \in BOOLEAN, f = Failure("provider_failed_terminally", b, wait)
        PROVE  /\ f \in FailureRecords /\ f.kind = "provider_failed_terminally"
               /\ f.retryAfter = wait /\ f.pausesQuota = b
    BY <1>1, <2>1, <2>2, FailureFields
  <2>3. f = Failure("provider_failed_terminally", TRUE, wait)
    BY <1>3, <1>5
  <2>4. /\ f \in FailureRecords /\ f.kind = "provider_failed_terminally"
        /\ f.retryAfter = wait /\ f.pausesQuota = TRUE
    BY <2>1, <2>2, <2>3, Zenon
  <2>5. QED
    BY <1>1, <1>5, <2>4 DEF Judged
<1>6. CASE ~retries /\ ~pauses
  <2>1. TerminalKind(status) \in Kinds /\ None \in Waits \union {None} /\ FALSE \in BOOLEAN
    BY <1>2
  <2>2. ASSUME NEW b \in BOOLEAN, f = Failure(TerminalKind(status), b, None)
        PROVE  f \in FailureRecords /\ f.kind = TerminalKind(status) /\ f.pausesQuota = b
    BY <2>1, <2>2, FailureFields
  <2>3. f = Failure(TerminalKind(status), FALSE, None)
    BY <1>3, <1>6
  <2>4. f \in FailureRecords /\ f.kind = TerminalKind(status) /\ f.pausesQuota = FALSE
    BY <2>1, <2>2, <2>3, Zenon
  <2>5. status = 200 => TerminalKind(status) = "provider_failed_terminally"
    BY TerminalOf200
  <2>6. QED
    BY <1>1, <1>2, <1>6, <2>4, <2>5 DEF Judged
<1>7. QED
  BY <1>4, <1>5, <1>6

(* What an exception e of adapter p becomes.                               *)
Follows(p, e, f) ==
  /\ Judged(e, f)
  /\ e.class = "status" /\ e.judged = "chain"
       /\ (e.sdk # "raises" \/ (p = "openai" /\ e.status = 200)) =>
       /\ e.type = "limited" /\ e.status # None /\ (p = "openai" => e.status \in {200, 429}) =>
            f.pausesQuota
       /\ e.status = 429 /\ p # "cohere" => f.pausesQuota
       /\ e.status = 200 /\ p \in {"anthropic", "openai"} =>
            f.kind = IF e.type \in {"limited", "retried"}
                     THEN "transient" ELSE "provider_failed_terminally"

LEMMA AnthropicFollows ==
  ASSUME NEW e, WellFormed("anthropic", e)
  PROVE  Follows("anthropic", e, AnthropicRequestFailure(e))
<1> DEFINE f == AnthropicRequestFailure(e)
           wait == RetryAfterFromHeaders(e.headers)
           pauses == e.status \in {429, 529} \/ e.type = "limited"
           retries == AnthropicRetries(e, pauses)
<1>1. CASE e.sdk # "raises" /\ e.judged = "chain"
  <2>1. e.class = "status" /\ e.status \in Statuses /\ e.type \in Types
    BY <1>1 DEF WellFormed
  <2>2. IF Stated(e) = {} THEN wait = None ELSE wait \in Stated(e)
    BY <2>1, ErrorWait DEF WellFormed
  <2>3. f = RequestFailureFromResponse(e.status, wait, retries, pauses)
    BY <1>1 DEF AnthropicRequestFailure, AnthropicResponseFailure
  <2>4. pauses \in BOOLEAN /\ retries \in BOOLEAN
    BY ZenonT(40) DEF AnthropicRetries
  <2>5. e.status = 200 => (retries <=> e.type \in {"limited", "retried"})
    BY DEF AnthropicRetries
  <2>6. (e.type = "limited" => pauses) /\ (e.status = 429 => pauses)
    OBVIOUS
  <2> HIDE DEF f, wait, pauses, retries
  <2>7. /\ Judged(e, f) /\ (pauses => f.pausesQuota)
        /\ e.status = 200 /\ retries => f.kind = "transient"
        /\ e.status = 200 /\ ~retries => f.kind = "provider_failed_terminally"
    BY <2>1, <2>2, <2>3, <2>4, Constants, AnsweredJudged
  <2>8. Follows("anthropic", e, f)
    BY <2>5, <2>6, <2>7 DEF Follows
  <2>9. QED
    BY <2>8 DEF f
<1>2. CASE e.sdk = "raises" \/ e.judged # "chain"
  <2>1. CASE e.judged # "chain"
    <3>1. f = UnknownException \/ f = TransportFailure
      BY <2>1 DEF AnthropicRequestFailure
    <3>2. Stated(e) = {}
      BY <2>1 DEF WellFormed
    <3> HIDE DEF f
    <3>3. Follows("anthropic", e, f)
      BY <2>1, <3>1, <3>2, UnansweredJudged DEF Follows
    <3>4. QED
      BY <3>3 DEF f
  <2>2. CASE e.sdk = "raises"
    <3>1. f = UnknownException
      BY <2>2 DEF AnthropicRequestFailure
    <3>2. Judged(e, f)
      BY <3>1, UnknownJudged
    <3>3. QED
      BY <2>2, <3>2 DEF Follows
  <2>3. QED
    BY <1>2, <2>1, <2>2
<1>3. QED
  BY <1>1, <1>2
LEMMA OpenAIFollows ==
  ASSUME NEW e, WellFormed("openai", e)
  PROVE  Follows("openai", e, OpenAIRequestFailure(e))
<1> DEFINE f == OpenAIRequestFailure(e)
           wait == RetryAfterFromHeaders(e.headers)
<1>1. CASE e.class = "status"
  <2>1. e.status \in Statuses /\ e.type \in Types
    BY <1>1 DEF WellFormed
  <2>2. IF Stated(e) = {} THEN wait = None ELSE wait \in Stated(e)
    BY <1>1, ErrorWait DEF WellFormed
  <2>3. CASE e.status = 200
    <3> DEFINE pauses == e.type = "limited"
               retries == e.type \in {"limited", "retried"}
    <3>1. f = RequestFailureFromResponse(e.status, wait, retries, pauses)
      BY <1>1, <2>3 DEF OpenAIRequestFailure
    <3>2. pauses \in BOOLEAN /\ retries \in BOOLEAN
      OBVIOUS
    <3>3. (e.type = "limited" => pauses) /\ (retries <=> e.type \in {"limited", "retried"})
      OBVIOUS
    <3> HIDE DEF f, wait, pauses, retries
    <3>4. /\ Judged(e, f) /\ (pauses => f.pausesQuota)
          /\ retries => f.kind = "transient"
          /\ ~retries => f.kind = "provider_failed_terminally"
      BY <1>1, <2>1, <2>2, <2>3, <3>1, <3>2, Constants, AnsweredJudged, SMTT(20)
    <3>5. Follows("openai", e, f)
      BY <2>3, <3>3, <3>4 DEF Follows
    <3>6. QED
      BY <3>5 DEF f
  <2>4. CASE e.status # 200 /\ e.sdk # "raises"
    <3> DEFINE pauses == e.status \in {429, 503}
               retries == e.sdk = "retry"
    <3>1. f = RequestFailureFromResponse(e.status, wait, retries, pauses)
      BY <1>1, <2>4 DEF OpenAIRequestFailure
    <3>2. pauses \in BOOLEAN /\ retries \in BOOLEAN
      OBVIOUS
    <3>3. e.status = 429 => pauses
      OBVIOUS
    <3> HIDE DEF f, wait, pauses, retries
    <3>4. Judged(e, f) /\ (pauses => f.pausesQuota)
      BY <1>1, <2>1, <2>2, <3>1, <3>2, Constants, AnsweredJudged
    <3>5. Follows("openai", e, f)
      BY <2>4, <3>3, <3>4 DEF Follows
    <3>6. QED
      BY <3>5 DEF f
  <2>5. CASE e.status # 200 /\ e.sdk = "raises"
    <3>1. f = UnknownException
      BY <1>1, <2>5 DEF OpenAIRequestFailure
    <3>2. QED
      BY <2>5, <3>1, UnknownJudged DEF Follows
  <2>6. QED
    BY <2>3, <2>4, <2>5
<1>2. CASE e.class # "status"
  <2>1. (f = UnknownException \/ f = TransportFailure) /\ Stated(e) = {}
    BY <1>2 DEF OpenAIRequestFailure, WellFormed
  <2> HIDE DEF f
  <2>2. Follows("openai", e, f)
    BY <1>2, <2>1, UnansweredJudged DEF Follows
  <2>3. QED
    BY <2>2 DEF f
<1>3. QED
  BY <1>1, <1>2

LEMMA GeminiFollows ==
  ASSUME NEW e, WellFormed("gemini", e)
  PROVE  Follows("gemini", e, GeminiRequestFailure(e))
<1> DEFINE f == GeminiRequestFailure(e)
           wait == RetryAfterFromError(e)
           pauses == e.status \in {429, 503}
           retries == e.sdk = "retry"
<1>1. CASE e.class = "status" /\ e.status # None /\ e.sdk # "raises"
  <2>1. e.status \in Statuses /\ e.type = "unlisted"
    BY <1>1 DEF WellFormed
  <2>2. IF Stated(e) = {} THEN wait = None ELSE wait \in Stated(e)
    BY ErrorWait DEF WellFormed
  <2>3. f = RequestFailureFromResponse(e.status, wait, retries, pauses)
    BY <1>1 DEF GeminiRequestFailure
  <2>4. pauses \in BOOLEAN /\ retries \in BOOLEAN /\ (e.status = 429 => pauses)
    OBVIOUS
  <2> HIDE DEF f, wait, pauses, retries
  <2>5. Judged(e, f) /\ (pauses => f.pausesQuota)
    BY <1>1, <2>1, <2>2, <2>3, <2>4, Constants, AnsweredJudged
  <2>6. Follows("gemini", e, f)
    BY <2>1, <2>4, <2>5 DEF Follows
  <2>7. QED
    BY <2>6 DEF f
<1>2. CASE e.sdk = "raises"
  <2>1. f = UnknownException
    BY <1>2 DEF GeminiRequestFailure
  <2>2. QED
    BY <1>2, <2>1, UnknownJudged DEF Follows
<1>3. CASE e.class = "status" /\ e.status = None /\ e.sdk # "raises"
  <2>1. f = UnknownException /\ e.type = "unlisted"
    BY <1>3 DEF GeminiRequestFailure, WellFormed
  <2>2. e.status # 429
    BY <1>3, Constants
  <2>3. QED
    BY <2>1, <2>2, UnknownJudged DEF Follows
<1>4. CASE e.class # "status" /\ e.sdk # "raises"
  <2>1. (f = UnknownException \/ f = TransportFailure) /\ Stated(e) = {}
    BY <1>4 DEF GeminiRequestFailure, WellFormed
  <2> HIDE DEF f
  <2>2. Follows("gemini", e, f)
    BY <1>4, <2>1, UnansweredJudged DEF Follows
  <2>3. QED
    BY <2>2 DEF f
<1>5. QED
  BY <1>1, <1>2, <1>3, <1>4

LEMMA CohereFollows ==
  ASSUME NEW e, WellFormed("cohere", e)
  PROVE  Follows("cohere", e, CohereRequestFailure(e))
<1> DEFINE f == CohereRequestFailure(e)
           wait == RetryAfterFromHeaders(e.headers)
           pauses == e.type = "limited"
           retries == pauses \/ e.status \in {408, 429} \/ e.status >= 500
<1>1. CASE e.class = "status" /\ e.status # None
  <2>1. e.status \in Statuses /\ e.retryInfo = None
    BY <1>1 DEF WellFormed
  <2>2. IF Stated(e) = {} THEN wait = None ELSE wait \in Stated(e)
    BY <2>1, ErrorWait DEF WellFormed
  <2>3. f = RequestFailureFromResponse(e.status, wait, retries, pauses)
    BY <1>1 DEF CohereRequestFailure
  <2>4. pauses \in BOOLEAN /\ retries \in BOOLEAN /\ (e.type = "limited" => pauses)
    OBVIOUS
  <2> HIDE DEF f, wait, pauses, retries
  <2>5. Judged(e, f) /\ (pauses => f.pausesQuota)
    BY <1>1, <2>1, <2>2, <2>3, <2>4, Constants, AnsweredJudged
  <2>6. Follows("cohere", e, f)
    BY <2>4, <2>5 DEF Follows
  <2>7. QED
    BY <2>6 DEF f
<1>2. CASE e.class = "status" /\ e.status = None
  <2>1. f = UnknownException /\ e.status # 429
    BY <1>2, Constants DEF CohereRequestFailure
  <2>2. QED
    BY <1>2, <2>1, UnknownJudged DEF Follows
<1>3. CASE e.class # "status"
  <2>1. (f = UnknownException \/ f = TransportFailure) /\ Stated(e) = {}
    BY <1>3 DEF CohereRequestFailure, WellFormed
  <2> HIDE DEF f
  <2>2. Follows("cohere", e, f)
    BY <1>3, <2>1, UnansweredJudged DEF Follows
  <2>3. QED
    BY <2>2 DEF f
<1>4. QED
  BY <1>1, <1>2, <1>3

(* Every exception of every adapter.                                       *)
LEMMA EveryErrorFollows ==
  ASSUME NEW p \in Providers, NEW e \in ErrorsOf(p)
  PROVE  Follows(p, e, RequestFailureOf(p, e))
<1>1. WellFormed(p, e)
  BY ErrorShape
<1>2. CASE e.class \in {"TransientError", "StreamProtocolError"}
  <2> DEFINE f == RequestFailureOf(p, e)
  <2>1. f = TransportFailure \/ \E pauses \in BOOLEAN : f = Failure("transient", pauses, None)
    BY <1>1, <1>2 DEF RequestFailureOf, WellFormed
  <2>2. Stated(e) = {}
    BY <1>1, <1>2 DEF WellFormed
  <2> HIDE DEF f
  <2>3. Follows(p, e, f)
    BY <1>2, <2>1, <2>2, UnansweredJudged DEF Follows
  <2>4. QED
    BY <2>3 DEF f
<1>3. CASE e.class \notin {"TransientError", "StreamProtocolError"}
  <2>1. RequestFailureOf(p, e) = AdapterRequestFailure(p, e)
    BY <1>3 DEF RequestFailureOf
  <2>2. CASE p = "anthropic"
    BY <1>1, <2>1, <2>2, AnthropicFollows DEF AdapterRequestFailure
  <2>3. CASE p = "openai"
    BY <1>1, <2>1, <2>3, OpenAIFollows DEF AdapterRequestFailure
  <2>4. CASE p = "gemini"
    BY <1>1, <2>1, <2>4, GeminiFollows DEF AdapterRequestFailure
  <2>5. CASE p = "cohere"
    BY <1>1, <2>1, <2>5, CohereFollows DEF AdapterRequestFailure
  <2>6. QED
    BY <2>2, <2>3, <2>4, <2>5 DEF Providers
<1>4. QED
  BY <1>2, <1>3
-----------------------------------------------------------------------------
(* The loops.                                                              *)

(* What holds of one loop: which waits it owes cover what is owed to it,   *)
(* whether it may send another request, and how far its ceiling has grown. *)
LoopInv(i) ==
  /\ phase[i] \in {"backoff", "admission"} => requests[i] < MaxRequests
  /\ phase[i] = "backoff" => owedTo[i] <= waitLeft[i]
  /\ phase[i] = "admission" => owedTo[i] <= pauseLeft
  /\ unpaused[i] <= requests[i]
  /\ phase[i] = "requesting" => unpaused[i] < requests[i]
  /\ ceiling[i] = Least(MinCeiling * (Multiplier ^ unpaused[i]), MaxWait)

WaitsInv ==
  /\ TypeOK
  /\ owed <= pauseLeft
  /\ \A i \in Inputs : LoopInv(i)

LEMMA Numbers ==
  /\ MaxRequests \in Nat \ {0} /\ MinCeiling \in Nat \ {0} /\ MaxWait \in Nat
  /\ MaxWait >= MinCeiling /\ Multiplier \in Nat /\ Multiplier >= 2
BY InputsAssumption, CeilingAssumption

(* Growing the ceiling once more keeps it the capped power of its floor.   *)
LEMMA CeilingGrows ==
  ASSUME NEW n \in 0..MaxRequests, NEW c \in MinCeiling..MaxWait,
         c = Least(MinCeiling * (Multiplier ^ n), MaxWait)
  PROVE  /\ Least(c * Multiplier, MaxWait) \in MinCeiling..MaxWait
         /\ Least(c * Multiplier, MaxWait) = Least(MinCeiling * (Multiplier ^ (n + 1)), MaxWait)
<1> DEFINE power == Multiplier ^ n
           uncapped == MinCeiling * power
<1>1. power \in Nat /\ Multiplier ^ (n + 1) = Multiplier * power
  BY PowersAssumption
<1>2. /\ Multiplier \in Nat /\ Multiplier >= 2 /\ MinCeiling \in Nat \ {0} /\ MaxWait \in Nat
      /\ MaxWait >= MinCeiling /\ c \in Nat /\ c >= MinCeiling /\ c <= MaxWait
  BY Numbers
<1> HIDE DEF power
<1>3. uncapped \in Nat /\ MinCeiling * (Multiplier * power) = uncapped * Multiplier
  BY <1>1, <1>2
<1> HIDE DEF uncapped
<1>4. \A m \in Nat : m * Multiplier \in Nat /\ m * Multiplier >= m
  BY <1>2
<1>5. c = Least(uncapped, MaxWait)
  BY DEF uncapped, power
<1>6. Least(c * Multiplier, MaxWait) \in MinCeiling..MaxWait
  BY <1>2, <1>4 DEF Least
<1>7. Least(c * Multiplier, MaxWait) = Least(uncapped * Multiplier, MaxWait)
  <2>1. CASE uncapped <= MaxWait
    BY <1>5, <2>1 DEF Least
  <2>2. CASE uncapped > MaxWait
    <3>1. c = MaxWait /\ MaxWait * Multiplier >= MaxWait /\ uncapped * Multiplier >= uncapped
          /\ MaxWait * Multiplier \in Nat /\ uncapped * Multiplier \in Nat
      BY <1>2, <1>3, <1>4, <1>5, <2>2 DEF Least
    <3>2. Least(c * Multiplier, MaxWait) = MaxWait
      BY <1>2, <3>1 DEF Least
    <3>3. Least(uncapped * Multiplier, MaxWait) = MaxWait
      BY <1>2, <1>3, <2>2, <3>1 DEF Least
    <3>4. QED
      BY <3>2, <3>3
  <2>3. QED
    BY <1>2, <1>3, <2>1, <2>2
<1>8. QED
  BY <1>1, <1>3, <1>6, <1>7

LEMMA WaitsStart == ASSUME Init PROVE WaitsInv
<1>1. /\ MaxRequests \in Nat \ {0} /\ MinCeiling \in Nat \ {0} /\ MaxWait \in Nat
      /\ MaxWait >= MinCeiling
  BY Numbers
<1>2. TypeOK
  BY <1>1 DEF Init, TypeOK, Phases
<1>3. MinCeiling = Least(MinCeiling * (Multiplier ^ 0), MaxWait)
  BY <1>1, PowersAssumption DEF Least
<1>4. ASSUME NEW i \in Inputs PROVE LoopInv(i)
  BY <1>1, <1>3 DEF Init, LoopInv
<1>5. QED
  BY <1>2, <1>4 DEF WaitsInv, Init

(* A loop that a step does not touch, while the pause gets no shorter.     *)
LEMMA OtherLoops ==
  ASSUME WaitsInv, NEW j \in Inputs, pauseLeft' \in Nat, pauseLeft' >= pauseLeft,
         phase'[j] = phase[j], requests'[j] = requests[j], ceiling'[j] = ceiling[j],
         waitLeft'[j] = waitLeft[j], owedTo'[j] = owedTo[j], unpaused'[j] = unpaused[j]
  PROVE  LoopInv(j)'
<1>1. /\ LoopInv(j) /\ pauseLeft \in Nat /\ owedTo[j] \in Nat
  BY Numbers DEF WaitsInv, TypeOK
<1>2. phase[j] = "admission" => owedTo[j] <= pauseLeft'
  BY <1>1 DEF LoopInv
<1>3. QED
  BY <1>1, <1>2 DEF LoopInv

LEMMA SendKeepsWaits ==
  ASSUME WaitsInv, NEW i \in Inputs, Send(i)
  PROVE  WaitsInv' /\ owed = 0 /\ owedTo[i] = 0
<1>1. /\ TypeOK /\ LoopInv(i) /\ owed <= pauseLeft /\ pauseLeft = 0 /\ phase[i] = "admission"
      /\ owed \in Nat /\ owedTo[i] \in Nat /\ requests[i] \in 0..MaxRequests
      /\ unpaused[i] \in 0..MaxRequests
  BY Numbers DEF WaitsInv, Send, TypeOK
<1>2. owed = 0 /\ owedTo[i] = 0 /\ requests[i] < MaxRequests /\ unpaused[i] <= requests[i]
  BY <1>1 DEF LoopInv
<1>3. /\ phase' = [phase EXCEPT ![i] = "requesting"]
      /\ requests' = [requests EXCEPT ![i] = @ + 1]
      /\ UNCHANGED <<adapter, ceiling, waitLeft, pauseLeft, owed, owedTo, unpaused>>
  BY DEF Send
<1>4. requests[i] + 1 \in 0..MaxRequests
  BY <1>1, <1>2, Numbers
<1>5. TypeOK'
  BY <1>1, <1>3, <1>4 DEF TypeOK, Phases
<1>6. ASSUME NEW j \in Inputs PROVE LoopInv(j)'
  <2>1. CASE j = i
    <3>1. phase'[i] = "requesting" /\ requests'[i] = requests[i] + 1
      BY <1>1, <1>3 DEF TypeOK
    <3>2. ceiling[i] = Least(MinCeiling * (Multiplier ^ unpaused[i]), MaxWait)
      BY <1>1 DEF LoopInv
    <3>3. unpaused[i] <= requests[i] + 1 /\ unpaused[i] < requests[i] + 1
      BY <1>1, <1>2, Numbers
    <3>4. QED
      BY <1>3, <2>1, <3>1, <3>2, <3>3 DEF LoopInv
  <2>2. CASE j # i
    <3>1. phase'[j] = phase[j] /\ requests'[j] = requests[j] /\ pauseLeft \in Nat
      BY <1>1, <1>3, <2>2, Numbers DEF TypeOK
    <3>2. QED
      BY <1>3, <3>1, OtherLoops
  <2>3. QED
    BY <2>1, <2>2
<1>7. QED
  BY <1>1, <1>2, <1>3, <1>5, <1>6 DEF WaitsInv

LEMMA MoveKeepsWaits ==
  ASSUME WaitsInv, NEW i \in Inputs, Succeed(i) \/ WaitOver(i)
  PROVE  WaitsInv'
<1>1. /\ TypeOK /\ LoopInv(i) /\ owed <= pauseLeft /\ pauseLeft \in Nat
      /\ owedTo[i] \in Nat /\ waitLeft[i] \in Nat
      /\ UNCHANGED <<adapter, requests, ceiling, waitLeft, pauseLeft, owed, owedTo, unpaused>>
  BY Numbers DEF WaitsInv, Succeed, WaitOver, TypeOK
<1>2. \/ phase' = [phase EXCEPT ![i] = "ended"]
      \/ /\ phase' = [phase EXCEPT ![i] = "admission"]
         /\ phase[i] = "backoff" /\ waitLeft[i] = 0
  BY DEF Succeed, WaitOver
<1>3. TypeOK'
  BY <1>1, <1>2 DEF TypeOK, Phases
<1>4. ASSUME NEW j \in Inputs PROVE LoopInv(j)'
  <2>1. CASE j = i
    <3>1. \/ phase'[i] = "ended"
          \/ phase'[i] = "admission" /\ phase[i] = "backoff" /\ waitLeft[i] = 0
      BY <1>1, <1>2 DEF TypeOK
    <3>2. QED
      BY <1>1, <2>1, <3>1 DEF LoopInv
  <2>2. CASE j # i
    <3>1. phase'[j] = phase[j]
      BY <1>1, <1>2, <2>2 DEF TypeOK
    <3>2. QED
      BY <1>1, <3>1, OtherLoops
  <2>3. QED
    BY <2>1, <2>2
<1>5. QED
  BY <1>1, <1>3, <1>4 DEF WaitsInv

LEMMA TickKeepsWaits == ASSUME WaitsInv, Tick PROVE WaitsInv'
<1>1. /\ TypeOK /\ owed <= pauseLeft
      /\ pauseLeft' = OneLess(pauseLeft) /\ owed' = OneLess(owed)
      /\ waitLeft' = [i \in Inputs |-> OneLess(waitLeft[i])]
      /\ owedTo' = [i \in Inputs |-> OneLess(owedTo[i])]
      /\ UNCHANGED <<adapter, phase, requests, ceiling, unpaused>>
  BY DEF WaitsInv, Tick
<1>2. \A n \in 0..MaxWait : OneLess(n) \in 0..MaxWait
  BY Numbers DEF OneLess
<1>3. \A m, n \in 0..MaxWait : m <= n => OneLess(m) <= OneLess(n)
  BY Numbers DEF OneLess
<1>4. TypeOK'
  BY <1>1, <1>2 DEF TypeOK
<1>5. ASSUME NEW j \in Inputs PROVE LoopInv(j)'
  <2>1. LoopInv(j) /\ owedTo[j] \in 0..MaxWait /\ waitLeft[j] \in 0..MaxWait
        /\ pauseLeft \in 0..MaxWait
    BY <1>1 DEF WaitsInv, TypeOK
  <2>2. waitLeft'[j] = OneLess(waitLeft[j]) /\ owedTo'[j] = OneLess(owedTo[j])
    BY <1>1
  <2>3. /\ phase[j] = "backoff" => owedTo'[j] <= waitLeft'[j]
        /\ phase[j] = "admission" => owedTo'[j] <= pauseLeft'
    BY <1>1, <1>3, <2>1, <2>2 DEF LoopInv
  <2>4. QED
    BY <1>1, <2>1, <2>3 DEF LoopInv
<1>6. owed' <= pauseLeft'
  BY <1>1, <1>3 DEF TypeOK
<1>7. QED
  BY <1>4, <1>5, <1>6 DEF WaitsInv
(* A failure as the quota and the loop are told of it: its wait covers     *)
(* what the provider demanded.                                             *)
Covers(f, demand) ==
  /\ f.pausesQuota \in BOOLEAN
  /\ f.retryAfter = None \/ f.retryAfter \in 1..MaxWait
  /\ demand \in 0..MaxWait
  /\ f.kind = "transient" \/ f.pausesQuota =>
       demand = 0 \/ (f.retryAfter # None /\ demand <= f.retryAfter)

LEMMA FailureCovers ==
  ASSUME NEW failed \in FailedRequests
  PROVE  Covers(Normalized(failed.failure), Least(failed.demand, MaxWait))
<1>0. PICK p \in Providers : \E error \in ErrorsOf(p) :
        failed = [adapter |-> p, failure |-> RequestFailureOf(p, error), demand |-> DemandOf(error)]
  BY DEF FailedRequests
<1>1. PICK e \in ErrorsOf(p) :
        failed = [adapter |-> p, failure |-> RequestFailureOf(p, e), demand |-> DemandOf(e)]
  BY <1>0
<1> DEFINE given == failed.failure
           f == Normalized(given)
           demand == Least(failed.demand, MaxWait)
<1>2. Judged(e, given)
  BY <1>1, EveryErrorFollows DEF Follows
<1>3. /\ failed.demand \in Nat /\ (Stated(e) = {} => failed.demand = 0)
      /\ \A n \in Stated(e) : failed.demand <= n
  BY <1>1, DemandIsLeast
<1>4. /\ given \in FailureRecords
      /\ given.kind = "transient" \/ given.pausesQuota =>
           IF Stated(e) = {} THEN given.retryAfter = None ELSE given.retryAfter \in Stated(e)
  BY <1>2 DEF Judged
<1> HIDE DEF given
<1>5. /\ f \in [kind : Kinds, pausesQuota : BOOLEAN, retryAfter : Int \union {None}]
      /\ f.kind = given.kind /\ f.pausesQuota = given.pausesQuota
      /\ given.retryAfter = None => f.retryAfter = None
      /\ given.retryAfter # None => f.retryAfter = Least(given.retryAfter, MaxWait)
  <2>1. CASE given.retryAfter = None
    BY <1>4, <2>1 DEF Normalized, FailureRecords
  <2>2. CASE given.retryAfter # None
    <3>1. given.retryAfter \in Int /\ Least(given.retryAfter, MaxWait) \in Int
      <4>1. given.retryAfter \in Waits
        BY <1>4, <2>2 DEF FailureRecords
      <4>2. \A wait \in Waits : wait \in Int
        BY Constants
      <4>3. QED
        BY <4>1, <4>2, Numbers DEF Least
    <3>2. f = [given EXCEPT !.retryAfter = Least(given.retryAfter, MaxWait)]
      BY <2>2 DEF Normalized
    <3>3. QED
      BY <1>4, <2>2, <3>1, <3>2 DEF FailureRecords
  <2>3. QED
    BY <2>1, <2>2
<1> HIDE DEF f
<1>6. f.retryAfter = None \/ f.retryAfter \in 1..MaxWait
  <2>1. given.retryAfter = None \/ given.retryAfter \in Nat \ {0}
    BY <1>4, Constants DEF FailureRecords
  <2>2. QED
    BY <1>5, <2>1, Numbers DEF Least
<1>7. demand \in 0..MaxWait
  BY <1>3, Numbers DEF Least
<1>8. ASSUME f.kind = "transient" \/ f.pausesQuota
      PROVE  demand = 0 \/ (f.retryAfter # None /\ demand <= f.retryAfter)
  <2>1. IF Stated(e) = {} THEN given.retryAfter = None ELSE given.retryAfter \in Stated(e)
    BY <1>4, <1>5, <1>8
  <2>2. CASE Stated(e) = {}
    BY <1>3, <2>2, Numbers DEF Least
  <2>3. CASE Stated(e) # {}
    <3>1. given.retryAfter \in Nat \ {0} /\ failed.demand <= given.retryAfter
          /\ given.retryAfter # None
      BY <1>3, <2>1, <2>3, Constants DEF Stated
    <3>2. f.retryAfter = Least(given.retryAfter, MaxWait)
      BY <1>5, <3>1
    <3>3. f.retryAfter # None
      BY <1>3, <3>1, <3>2, Constants, Numbers DEF Least
    <3>4. Least(failed.demand, MaxWait) <= Least(given.retryAfter, MaxWait)
      BY <1>3, <3>1, Numbers DEF Least
    <3>5. QED
      BY <3>2, <3>3, <3>4
  <2>4. QED
    BY <2>2, <2>3
<1>9. Covers(f, demand)
  BY <1>5, <1>6, <1>7, <1>8 DEF Covers
<1>10. QED
  BY <1>9 DEF f, given

(* The pause is no shorter than before, nor than what is demanded of it.   *)
LEMMA PauseCovers ==
  ASSUME NEW f, NEW demand, Covers(f, demand), pauseLeft \in 0..MaxWait, RecordPause(f)
  PROVE  /\ pauseLeft' \in 0..MaxWait /\ pauseLeft' >= pauseLeft
         /\ f.pausesQuota => pauseLeft' >= demand
<1>1. CASE ~f.pausesQuota
  BY <1>1, Numbers DEF RecordPause
<1>2. CASE f.pausesQuota
  <2>1. PICK wait \in IF f.retryAfter # None THEN {f.retryAfter} ELSE 1..MaxWait :
          pauseLeft' = Most(pauseLeft, wait)
    BY <1>2 DEF RecordPause
  <2>2. wait \in 1..MaxWait /\ demand \in 0..MaxWait /\ demand <= wait
    BY <1>2, <2>1, Numbers DEF Covers
  <2>3. QED
    BY <2>1, <2>2, Numbers DEF Most
<1>3. QED
  BY <1>1, <1>2

LEMMA FailKeepsWaits ==
  ASSUME WaitsInv, NEW i \in Inputs, Fail(i)
  PROVE  WaitsInv' /\ phase'[i] # "requesting" /\ (\A j \in Inputs \ {i} : phase'[j] = phase[j])
<1>1. PICK failed \in FailedRequests :
        LET failure == Normalized(failed.failure)
            demand == Least(failed.demand, MaxWait)
        IN /\ RecordPause(failure)
           /\ SettleFailedRequest(i, failure)
           /\ owed' = IF failure.pausesQuota THEN Most(owed, demand) ELSE owed
           /\ owedTo' = [owedTo EXCEPT ![i] = IF failure.kind = "transient" THEN demand ELSE 0]
           /\ unpaused' = [unpaused EXCEPT ![i] =
                IF failure.kind = "transient" /\ ~failure.pausesQuota /\ requests[i] < MaxRequests
                THEN Least(@ + 1, MaxRequests) ELSE @]
  BY DEF Fail
<1> DEFINE f == Normalized(failed.failure)
           demand == Least(failed.demand, MaxWait)
           debt == IF f.kind = "transient" THEN demand ELSE 0
           count == IF f.kind = "transient" /\ ~f.pausesQuota /\ requests[i] < MaxRequests
                    THEN Least(unpaused[i] + 1, MaxRequests) ELSE unpaused[i]
<1>2. Covers(f, demand)
  BY FailureCovers
<1>3. /\ RecordPause(f) /\ SettleFailedRequest(i, f)
      /\ owed' = IF f.pausesQuota THEN Most(owed, demand) ELSE owed
      /\ owedTo' = [owedTo EXCEPT ![i] = debt]
      /\ unpaused' = [unpaused EXCEPT ![i] = count]
      /\ UNCHANGED <<adapter, requests>> /\ phase[i] = "requesting"
  BY <1>1 DEF Fail
<1> HIDE DEF f, demand
<1>4. /\ TypeOK /\ LoopInv(i) /\ owed <= pauseLeft
      /\ pauseLeft \in 0..MaxWait /\ owed \in 0..MaxWait
      /\ requests[i] \in 0..MaxRequests /\ unpaused[i] \in 0..MaxRequests
      /\ ceiling[i] \in MinCeiling..MaxWait /\ unpaused[i] < requests[i]
      /\ ceiling[i] = Least(MinCeiling * (Multiplier ^ unpaused[i]), MaxWait)
      /\ phase \in [Inputs -> Phases] /\ waitLeft \in [Inputs -> 0..MaxWait]
      /\ ceiling \in [Inputs -> MinCeiling..MaxWait]
  BY <1>3 DEF WaitsInv, TypeOK, LoopInv
<1>5. /\ pauseLeft' \in 0..MaxWait /\ pauseLeft' >= pauseLeft
      /\ f.pausesQuota => pauseLeft' >= demand
  BY <1>2, <1>3, <1>4, PauseCovers
<1>6. owed' \in 0..MaxWait /\ owed' <= pauseLeft'
  <2>1. demand \in 0..MaxWait /\ f.pausesQuota \in BOOLEAN
    BY <1>2 DEF Covers
  <2>2. CASE f.pausesQuota
    BY <1>3, <1>4, <1>5, <2>1, <2>2, Numbers DEF Most
  <2>3. CASE ~f.pausesQuota
    BY <1>3, <1>4, <1>5, <2>3, Numbers
  <2>4. QED
    BY <2>2, <2>3
<1>7. debt \in 0..MaxWait /\ (f.kind # "transient" => debt = 0) /\ (f.kind = "transient" => debt = demand)
  BY <1>2, Numbers DEF Covers
<1>8. /\ count \in 0..MaxRequests /\ count <= requests[i]
      /\ f.kind = "transient" /\ ~f.pausesQuota /\ requests[i] < MaxRequests =>
           count = unpaused[i] + 1 /\ unpaused[i] + 1 <= MaxRequests
      /\ ~(f.kind = "transient" /\ ~f.pausesQuota /\ requests[i] < MaxRequests) =>
           count = unpaused[i]
  BY <1>4, Numbers DEF Least
<1> HIDE DEF debt, count
<1>9. CASE f.kind = "transient" /\ ~f.pausesQuota /\ requests[i] < MaxRequests
  <2>1. NextWaitSeconds(i, f.retryAfter) /\ phase' = [phase EXCEPT ![i] = "backoff"]
    BY <1>3, <1>4, <1>9, Numbers DEF SettleFailedRequest
  <2>2. PICK drawn \in 1..ceiling[i] :
          waitLeft' = [waitLeft EXCEPT ![i] = RaisedBy(drawn, f.retryAfter)]
    BY <2>1 DEF NextWaitSeconds
  <2>3. RaisedBy(drawn, f.retryAfter) \in 0..MaxWait /\ demand <= RaisedBy(drawn, f.retryAfter)
    BY <1>2, <1>4, <1>9, Numbers DEF RaisedBy, Most, Covers
  <2>4. /\ ceiling' = [ceiling EXCEPT ![i] = Least(ceiling[i] * Multiplier, MaxWait)]
        /\ Least(ceiling[i] * Multiplier, MaxWait) \in MinCeiling..MaxWait
        /\ Least(ceiling[i] * Multiplier, MaxWait)
             = Least(MinCeiling * (Multiplier ^ (unpaused[i] + 1)), MaxWait)
    BY <1>4, <2>1, CeilingGrows DEF NextWaitSeconds, GrowCeiling
  <2>5. TypeOK'
    BY <1>3, <1>4, <1>5, <1>6, <1>7, <1>8, <2>1, <2>2, <2>3, <2>4 DEF TypeOK, Phases
  <2>6. LoopInv(i)'
    <3>1. /\ phase'[i] = "backoff" /\ waitLeft'[i] = RaisedBy(drawn, f.retryAfter)
          /\ ceiling'[i] = Least(ceiling[i] * Multiplier, MaxWait)
      BY <1>4, <2>1, <2>2, <2>4
    <3>2. owedTo'[i] = demand /\ unpaused'[i] = unpaused[i] + 1 /\ requests'[i] = requests[i]
      BY <1>3, <1>4, <1>7, <1>8, <1>9 DEF TypeOK
    <3>3. QED
      BY <1>8, <1>9, <2>3, <2>4, <3>1, <3>2 DEF LoopInv
  <2>7. \A j \in Inputs \ {i} :
          phase'[j] = phase[j] /\ waitLeft'[j] = waitLeft[j] /\ ceiling'[j] = ceiling[j]
    BY <1>4, <2>1, <2>2, <2>4
  <2>8. ASSUME NEW j \in Inputs \ {i} PROVE LoopInv(j)'
    <3>1. /\ owedTo'[j] = owedTo[j] /\ unpaused'[j] = unpaused[j] /\ requests'[j] = requests[j]
          /\ pauseLeft' \in Nat
      BY <1>3, <1>4, <1>5, Numbers DEF TypeOK
    <3>2. QED
      BY <1>5, <2>7, <3>1, OtherLoops
  <2>9. QED
    BY <1>4, <1>6, <2>1, <2>5, <2>6, <2>7, <2>8 DEF WaitsInv
<1>10. CASE ~(f.kind = "transient" /\ ~f.pausesQuota /\ requests[i] < MaxRequests)
  <2>1. PICK place \in {"ended", "admission"} :
          /\ phase' = [phase EXCEPT ![i] = place]
          /\ UNCHANGED <<waitLeft, ceiling>>
          /\ place = "admission" =>
               f.kind = "transient" /\ f.pausesQuota /\ requests[i] < MaxRequests
    BY <1>3, <1>10 DEF SettleFailedRequest, LoopOrExhaust
  <2>2. TypeOK'
    BY <1>3, <1>4, <1>5, <1>6, <1>7, <1>8, <2>1 DEF TypeOK, Phases
  <2>3. LoopInv(i)'
    <3>1. phase'[i] = place /\ waitLeft'[i] = waitLeft[i] /\ ceiling'[i] = ceiling[i]
      BY <1>4, <2>1
    <3>2. owedTo'[i] = debt /\ unpaused'[i] = unpaused[i] /\ requests'[i] = requests[i]
      BY <1>3, <1>4, <1>8, <1>10 DEF TypeOK
    <3>3. place = "admission" => debt <= pauseLeft'
      BY <1>5, <1>7, <2>1
    <3>4. QED
      BY <1>4, <2>1, <3>1, <3>2, <3>3, Numbers DEF LoopInv
  <2>4. \A j \in Inputs \ {i} :
          phase'[j] = phase[j] /\ waitLeft'[j] = waitLeft[j] /\ ceiling'[j] = ceiling[j]
    BY <1>4, <2>1
  <2>5. ASSUME NEW j \in Inputs \ {i} PROVE LoopInv(j)'
    <3>1. /\ owedTo'[j] = owedTo[j] /\ unpaused'[j] = unpaused[j] /\ requests'[j] = requests[j]
          /\ pauseLeft' \in Nat
      BY <1>3, <1>4, <1>5, Numbers DEF TypeOK
    <3>2. QED
      BY <1>5, <2>4, <3>1, OtherLoops
  <2>6. QED
    BY <1>4, <1>6, <2>1, <2>2, <2>3, <2>4, <2>5 DEF WaitsInv
<1>11. QED
  BY <1>9, <1>10
-----------------------------------------------------------------------------
(* The parts together.  While loops or a batch run nothing is mapped, and  *)
(* while an exception is mapped or a batch runs no loop moves.             *)
MappingInv ==
  \/ mapped = None /\ counted = 0 /\ running \in {"loops", "batch"}
  \/ /\ running = "mapping" /\ mapper \in Providers /\ raised \in ErrorsOf(mapper)
     /\ \/ mapped = None /\ counted = 0
        \/ /\ mapped = RequestFailureOf(mapper, raised)
           /\ counted = IF CountsFallthrough(mapper, raised) THEN 1 ELSE 0

FamilyInv == WaitsInv /\ MappingInv

LEMMA WaitsStep ==
  ASSUME WaitsInv, Next \/ UNCHANGED vars
  PROVE  /\ WaitsInv'
         /\ \A i \in Inputs : phase[i] # "requesting" /\ phase'[i] = "requesting" =>
                             owed = 0 /\ owedTo[i] = 0
<1>1. /\ phase \in [Inputs -> Phases]
  BY DEF WaitsInv, TypeOK
<1>2. CASE UNCHANGED vars
  <2>1. UNCHANGED <<adapter, phase, requests, ceiling, waitLeft, pauseLeft, owed, owedTo, unpaused>>
    BY <1>2 DEF vars
  <2>2. QED
    BY <2>1 DEF WaitsInv, TypeOK, LoopInv
<1>3. ASSUME NEW i \in Inputs, Send(i)
      PROVE  /\ WaitsInv' /\ owed = 0 /\ owedTo[i] = 0
             /\ \A j \in Inputs \ {i} : phase'[j] = phase[j]
  BY <1>1, <1>3, SendKeepsWaits DEF Send
<1>4. ASSUME NEW i \in Inputs, Succeed(i) \/ WaitOver(i)
      PROVE  WaitsInv' /\ \A j \in Inputs : phase'[j] \in {phase[j], "ended", "admission"}
  BY <1>1, <1>4, MoveKeepsWaits DEF Succeed, WaitOver
<1>5. CASE Tick
  BY <1>5, TickKeepsWaits DEF Tick
<1>6. CASE Finished
  BY <1>2, <1>6 DEF Finished
<1>7. ASSUME NEW i \in Inputs, Send(i) \/ Succeed(i) \/ Fail(i) \/ WaitOver(i)
      PROVE  /\ WaitsInv'
             /\ \A j \in Inputs : phase[j] # "requesting" /\ phase'[j] = "requesting" =>
                                 owed = 0 /\ owedTo[j] = 0
  <2>1. CASE Send(i)
    BY <1>3, <2>1
  <2>2. CASE Succeed(i) \/ WaitOver(i)
    BY <1>4, <2>2
  <2>3. CASE Fail(i)
    BY <2>3, FailKeepsWaits
  <2>4. QED
    BY <1>7, <2>1, <2>2, <2>3
<1>8. QED
  BY <1>2, <1>5, <1>6, <1>7 DEF Next

LEMMA FamilyStarts == FamilyInit => FamilyInv
<1> SUFFICES ASSUME FamilyInit PROVE FamilyInv
  OBVIOUS
<1>1. WaitsInv
  BY WaitsStart DEF FamilyInit
<1>2. MappingInv
  BY DEF FamilyInit, MappingInv
<1>3. QED
  BY <1>1, <1>2 DEF FamilyInv

LEMMA FamilyStep == FamilyInv /\ [FamilyNext]_familyVars => FamilyInv'
<1> SUFFICES ASSUME FamilyInv, [FamilyNext]_familyVars PROVE FamilyInv'
  OBVIOUS
<1>1. CASE UNCHANGED familyVars
  <2>1. UNCHANGED vars /\ UNCHANGED <<running, mapper, raised, mapped, counted>>
    BY <1>1 DEF familyVars, mappingVars
  <2>2. WaitsInv'
    BY <2>1, WaitsStep DEF FamilyInv
  <2>3. MappingInv'
    BY <2>1 DEF FamilyInv, MappingInv
  <2>4. QED
    BY <2>2, <2>3 DEF FamilyInv
<1>2. CASE Next /\ UNCHANGED <<running, mapper, raised, mapped, counted>>
  <2>1. WaitsInv'
    BY <1>2, WaitsStep DEF FamilyInv
  <2>2. MappingInv'
    BY <1>2 DEF FamilyInv, MappingInv
  <2>3. QED
    BY <2>1, <2>2 DEF FamilyInv
<1>3. CASE Map /\ running = "mapping" /\ UNCHANGED running /\ UNCHANGED vars
  <2>1. WaitsInv'
    BY <1>3, WaitsStep DEF FamilyInv
  <2>2. mapper \in Providers /\ raised \in ErrorsOf(mapper)
    BY <1>3 DEF FamilyInv, MappingInv
  <2>3. mapped = None /\ counted = 0
    <3>1. RequestFailureOf(mapper, raised) \in FailureRecords
      BY <2>2, EveryErrorFollows DEF Follows, Judged
    <3>2. RequestFailureOf(mapper, raised) # None
      BY <3>1, NoFailureAssumption
    <3>3. QED
      BY <1>3, <3>2 DEF Map, FamilyInv, MappingInv
  <2>4. /\ mapped' = RequestFailureOf(mapper, raised)
        /\ counted' = IF CountsFallthrough(mapper, raised) THEN 1 ELSE 0
        /\ UNCHANGED <<mapper, raised>>
    BY <1>3, <2>3 DEF Map
  <2>5. MappingInv'
    BY <1>3, <2>2, <2>4 DEF MappingInv
  <2>6. QED
    BY <2>1, <2>5 DEF FamilyInv
<1>4. CASE running = "batch" /\ UNCHANGED <<running, vars, mappingVars>>
  <2>1. UNCHANGED vars /\ UNCHANGED <<running, mapper, raised, mapped, counted>>
    BY <1>4 DEF mappingVars
  <2>2. WaitsInv'
    BY <2>1, WaitsStep DEF FamilyInv
  <2>3. MappingInv'
    BY <2>1 DEF FamilyInv, MappingInv
  <2>4. QED
    BY <2>2, <2>3 DEF FamilyInv
<1>5. QED
  BY <1>1, <1>2, <1>3, <1>4 DEF FamilyNext, familyVars, mappingVars

LEMMA FamilyInvariance == FamilySpec => []FamilyInv
<1>1. QED
  BY FamilyStarts, FamilyStep, PTL DEF FamilySpec

(* No request of any loop starts while a wait is owed that a provider      *)
(* stated, to the quota or to this loop, whichever adapter judged the      *)
(* failure and in whichever place the wait was stated.                     *)
THEOREM NobodyIsEarly == FamilySpec => NoRequestBeforeItsTime
<1>1. FamilyInv /\ [FamilyNext]_familyVars =>
        [\A i \in Inputs : phase[i] # "requesting" /\ phase'[i] = "requesting" =>
           owed = 0 /\ owedTo[i] = 0]_vars
  <2> SUFFICES ASSUME FamilyInv, [FamilyNext]_familyVars, ~UNCHANGED vars
               PROVE  \A i \in Inputs : phase[i] # "requesting" /\ phase'[i] = "requesting" =>
                        owed = 0 /\ owedTo[i] = 0
    OBVIOUS
  <2>1. Next
    BY DEF FamilyNext, familyVars
  <2>2. QED
    BY <2>1, WaitsStep DEF FamilyInv
<1>2. QED
  BY <1>1, FamilyInvariance, PTL DEF FamilySpec, NoRequestBeforeItsTime

(* Every exception becomes what the provider's answer says: a rate limit   *)
(* pauses the quota, a kind that needs an answer has one, a failed stream  *)
(* is judged by the tables and counted if they do not list it, a stated    *)
(* wait is kept; and each loop's waits grow with its own failures only,    *)
(* and come only before a request that it may still send.                  *)
THEOREM FailuresAreFollowed == FamilySpec => []RetriesFollowTheFailures
<1>1. FamilyInv => TypeOK /\ CeilingFollowsOwnFailures /\ NoWaitWithoutARetry
  BY DEF FamilyInv, WaitsInv, LoopInv, CeilingFollowsOwnFailures, NoWaitWithoutARetry
<1>2. ASSUME FamilyInv
      PROVE  /\ MappingTypeOK /\ RateLimitPausesTheQuota /\ AnsweredKindsHaveAnAnswer
             /\ StreamErrorsFollowTheTables /\ UnlistedErrorsAreCounted /\ StatedWaitIsKept
  <2>1. CASE mapped = None /\ counted = 0
    BY <2>1 DEF MappingTypeOK, RateLimitPausesTheQuota, AnsweredKindsHaveAnAnswer, Mapped,
                StreamErrorsFollowTheTables, UnlistedErrorsAreCounted, StatedWaitIsKept
  <2>2. CASE /\ mapper \in Providers /\ raised \in ErrorsOf(mapper)
             /\ mapped = RequestFailureOf(mapper, raised)
             /\ counted = IF CountsFallthrough(mapper, raised) THEN 1 ELSE 0
    <3>1. Follows(mapper, raised, mapped) /\ WellFormed(mapper, raised)
      BY <2>2, EveryErrorFollows, ErrorShape
    <3>2. MappingTypeOK
      BY <2>2, <3>1 DEF Follows, Judged, MappingTypeOK
    <3>3. RateLimitPausesTheQuota
      BY <3>1 DEF Follows, RateLimitPausesTheQuota, IsRateLimit, IsJudged
    <3>4. AnsweredKindsHaveAnAnswer
      BY <3>1 DEF Follows, Judged, AnsweredKindsHaveAnAnswer
    <3>5. StreamErrorsFollowTheTables
      BY <3>1 DEF Follows, StreamErrorsFollowTheTables, IsJudged
    <3>6. UnlistedErrorsAreCounted
      <4> SUFFICES ASSUME mapper = "openai", raised.class = "status", raised.status = 200,
                          mapped.kind # "transient"
                   PROVE  counted = 1 <=> raised.type # "terminal"
        BY DEF UnlistedErrorsAreCounted
      <4>1. raised.judged = "chain"
        BY <2>2 DEF ErrorsOf, Unanswered, Answered, Exceptions
      <4>2. raised.type \in {"terminal", "unlisted"}
        BY <3>1, <4>1 DEF Follows, WellFormed, Types
      <4>3. CountsFallthrough(mapper, raised) <=> raised.type = "unlisted"
        BY DEF CountsFallthrough
      <4>4. QED
        BY <2>2, <4>2, <4>3
    <3>7. StatedWaitIsKept
      BY <3>1 DEF Follows, Judged, StatedWaitIsKept
    <3>8. QED
      BY <3>2, <3>3, <3>4, <3>5, <3>6, <3>7
  <2>3. QED
    BY <1>2, <2>1, <2>2 DEF FamilyInv, MappingInv
<1>3. FamilyInv => RetriesFollowTheFailures
  BY <1>1, <1>2 DEF RetriesFollowTheFailures
<1>4. QED
  BY <1>3, FamilyInvariance, PTL
=============================================================================
