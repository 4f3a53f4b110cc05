------------------------------ MODULE Billing ------------------------------
(***************************************************************************)
(* From what a provider consumed to what langchaint says it cost.  The     *)
(* four adapters read four conventions of counting tokens, and a binding   *)
(* is accepted only if what it may consume has a price.                    *)
(*                                                                         *)
(* A price that nobody stated is NaN: it spoils every sum it is part of,   *)
(* except where nothing was used.  Prices are whole numbers here,          *)
(* multiples of RateUnit so that a mean of rates is a whole number too.    *)
(***************************************************************************)
EXTENDS Integers, SequencesExt

CONSTANTS
  NaN, None,
  MaxTokens,  \* bound on the tokens of a request, of most classes at most one
  Tables      \* the pricing tables an application may state

BillingAssumption == MaxTokens \in Nat /\ NaN \notin Int /\ None \notin Int /\ NaN # None

-----------------------------------------------------------------------------
RateUnit == 12

Plus(a, b) == IF NaN \in {a, b} THEN NaN ELSE a + b

Minus(a, b) == IF NaN \in {a, b} THEN NaN ELSE a - b

Scaled(rate, multiplier) == IF rate = NaN THEN NaN ELSE rate * multiplier

Sum(amounts) == FoldLeft(Plus, 0, amounts)

(* Nothing costs nothing, whatever its rate.                               *)
CategoryCost(tokens, rate) == IF tokens = 0 THEN 0 ELSE Scaled(rate, tokens)

InvocationCost(count, price) ==
  CASE count = 0 -> 0
    [] count # 0 /\ price = None -> NaN
    [] OTHER -> count * price

(* Rates have the names of the counters they price.                        *)
TokenRates(read, write, none, output) ==
  [read |-> read, write |-> write, none |-> none, output |-> output]

UnpricedTokenRates == TokenRates(NaN, NaN, NaN, NaN)

ScaledRates(rates, input, output) ==
  TokenRates(Scaled(rates.read, input), Scaled(rates.write, input),
             Scaled(rates.none, input), Scaled(rates.output, output))

AtThreshold(long, rates, length) ==  (* mutant *)
  IF long = None \/ length < long.above THEN rates
  ELSE ScaledRates(rates, long.input, long.output)

(* The threshold itself is still short.                                    *)
LongContextApplied(long, rates, length) ==
  IF long = None \/ length <= long.above THEN rates
  ELSE ScaledRates(rates, long.input, long.output)

BillingAtRates(rates, read, write, none, output, reasoning, tools) ==
  [read |-> read, write |-> write, none |-> none, output |-> output, reasoning |-> reasoning,
   costs |-> [read |-> CategoryCost(read, rates.read), write |-> CategoryCost(write, rates.write),
              none |-> CategoryCost(none, rates.none), output |-> CategoryCost(output, rates.output),
              tools |-> tools],
   rates |-> rates]

InputTokensTotal(b) == b.read + b.write + b.none

CostInUsd(b) == Sum(<<b.costs.read, b.costs.write, b.costs.none, b.costs.output, b.costs.tools>>)

(* What caching saved against reading every token uncached.                *)
CacheSavingsInUsd(b) ==
  Minus(CategoryCost(InputTokensTotal(b), b.rates.none),
        Sum(<<b.costs.read, b.costs.write, b.costs.none>>))

-----------------------------------------------------------------------------
VARIABLES
  binding,   \* provider, tools, extra_body and pricing table
  consumed,  \* the tokens, by what they really were
  served,    \* tier, place, model and the tools that ran
  billing,   \* the Billing of the response
  pc         \* "unbound", "refused", "bound" or "billed"

vars == <<binding, consumed, served, billing, pc>>

Providers == {"anthropic", "responses", "chat", "gemini"}
Tools == {"search", "lookup", "fetch", "code"}

(* A key of extra_body that the adapter populates, such as the model; one  *)
(* that turns on searches in Chat Completions; one that refers to what is  *)
(* stored at the provider and may run any tool.                            *)
ExtraBodies == {"none", "populated", "web_search_options", "reference"}

Bindings ==
  [provider : Providers, own : BOOLEAN, tools : SUBSET Tools, extra : ExtraBodies, table : Tables]

NoTokens == [fresh |-> 0, read |-> 0, write5 |-> 0, write1 |-> 0, tool_use |-> 0, answer |-> 0, thoughts |-> 0]
NothingServed == [tier |-> "default", us |-> FALSE, model |-> "bound", ran |-> {}]
NoBilling == BillingAtRates(UnpricedTokenRates, 0, 0, 0, 0, 0, 0)

TypeOK ==
  /\ binding \in Bindings
  /\ pc \in {"unbound", "refused", "bound", "billed"}
  /\ served.ran \subseteq Tools \union {"other"}
  /\ \A counter \in {"read", "write", "none", "output", "reasoning"} : billing[counter] \in Nat
  /\ billing.reasoning <= billing.output
  /\ \A category \in DOMAIN billing.costs : billing.costs[category] \in Nat \union {NaN}

Init ==
  /\ binding \in Bindings
  /\ consumed = NoTokens /\ served = NothingServed /\ billing = NoBilling /\ pc = "unbound"

-----------------------------------------------------------------------------
(***************************************************************************)
(* What a binding must state.                                              *)
(***************************************************************************)
Supported ==
  CASE binding.provider = "anthropic" -> {"search", "fetch", "code"}
    [] binding.provider = "responses" -> {"search", "lookup"}
    [] binding.provider = "chat" -> {}
    [] binding.provider = "gemini" -> {"search", "lookup", "fetch", "code"}

Price(tool) == IF tool = "search" THEN binding.table.search ELSE binding.table.lookup

WithoutRates ==  (* mutant *)
  /\ binding.extra # "populated"
  /\ binding.extra = "web_search_options" => binding.provider # "chat"
  /\ binding.tools \subseteq Supported
  /\ binding.tools # {} => binding.own
  /\ binding.provider = "anthropic" /\ "code" \in binding.tools => "fetch" \in binding.tools

WithOverrides ==  (* mutant *)
  /\ binding.extra = "web_search_options" => binding.provider # "chat"
  /\ binding.tools \subseteq Supported
  /\ binding.tools # {} => binding.own
  /\ binding.provider = "anthropic" /\ "code" \in binding.tools => "fetch" \in binding.tools
  /\ \A tool \in binding.tools \intersect {"search", "lookup"} : Price(tool) # None

BindingIsAccepted ==
  /\ binding.extra # "populated"
  /\ binding.extra = "web_search_options" => binding.provider # "chat"
  /\ binding.tools \subseteq Supported
  /\ binding.tools # {} => binding.own
  /\ binding.provider = "anthropic" /\ "code" \in binding.tools => "fetch" \in binding.tools
  /\ \A tool \in binding.tools \intersect {"search", "lookup"} : Price(tool) # None

Bind ==
  /\ pc = "unbound"
  /\ pc' = IF BindingIsAccepted THEN "bound" ELSE "refused"
  /\ UNCHANGED <<binding, consumed, served, billing>>

-----------------------------------------------------------------------------
(***************************************************************************)
(* What the provider consumes and how it reports that.                     *)
(***************************************************************************)
Consumptions ==
  {c \in [fresh : 0..1, read : 0..1, write5 : 0..1, write1 : 0..2,
          tool_use : 0..1, answer : 0..1, thoughts : 0..1] :
     /\ c.fresh + c.read + c.write5 + c.write1 + c.tool_use + c.answer + c.thoughts <= MaxTokens
     /\ c.write1 > 0 => binding.provider = "anthropic"
     /\ c.write5 > 0 => binding.provider # "gemini"
     /\ c.tool_use > 0 => binding.provider = "gemini"}

MayRun ==
  CASE binding.extra = "reference" /\ binding.provider # "chat" -> Tools \union {"other"}
    [] binding.extra = "web_search_options" /\ binding.provider = "chat" -> {"search"}
    [] OTHER -> binding.tools

(* Places and tiers that the provider may serve: none reported is default. *)
Services ==
  {s \in [tier : {"default", "fast", "other"}, us : BOOLEAN, model : {"bound", "other"}, ran : SUBSET MayRun] :
     /\ s.us => binding.provider = "anthropic"
     /\ s.model = "other" => binding.extra = "populated"}

(* The counters of the four wire formats.                                  *)
Report(c) ==
  CASE binding.provider = "anthropic" ->
         [input_tokens |-> c.fresh, cached |-> c.read, five |-> c.write5, hour |-> c.write1,
          output |-> c.answer + c.thoughts, thoughts |-> c.thoughts, tool_use |-> 0]
    [] binding.provider \in {"responses", "chat"} ->
         [input_tokens |-> c.fresh + c.read + c.write5, cached |-> c.read, five |-> c.write5, hour |-> 0,
          output |-> c.answer + c.thoughts, thoughts |-> c.thoughts, tool_use |-> 0]
    [] binding.provider = "gemini" ->
         [input_tokens |-> c.fresh + c.read, cached |-> c.read, five |-> 0, hour |-> 0,
          output |-> c.answer, thoughts |-> c.thoughts, tool_use |-> c.tool_use]

-----------------------------------------------------------------------------
(***************************************************************************)
(* The adapters' billing.                                                  *)
(***************************************************************************)
BaseRates(tier) ==
  CASE tier = "default" -> binding.table.default
    [] tier = "fast" -> binding.table.fast
    [] OTHER -> None

(* One rate for the writes of both durations: their mean by tokens.        *)
WriteRate(rates, five, hour) ==
  CASE hour = 0 -> rates.write5
    [] hour # 0 /\ five = 0 -> rates.write1
    [] OTHER -> LET sum == Plus(Scaled(rates.write5, five), Scaled(rates.write1, hour))
                IN IF sum = NaN THEN NaN ELSE sum \div (five + hour)

TierRates(rates, five, hour) ==
  CASE binding.provider = "anthropic" ->
         TokenRates(rates.read, WriteRate(rates, five, hour), rates.none, rates.output)
    [] binding.provider \in {"responses", "chat"} ->
         TokenRates(rates.read, rates.write5, rates.none, rates.output)
    [] binding.provider = "gemini" -> TokenRates(rates.read, NaN, rates.none, rates.output)

RatesFor(s, five, hour, length) ==
  IF BaseRates(s.tier) = None THEN UnpricedTokenRates
  ELSE LET rates == LongContextApplied(binding.table.long,
                      TierRates(BaseRates(s.tier), five, hour), length)
       IN CASE ~s.us -> rates
            [] s.us /\ binding.table.us = None -> UnpricedTokenRates
            [] OTHER -> ScaledRates(rates, binding.table.us, binding.table.us)

Ran(s, tool) == IF tool \in s.ran THEN 1 ELSE 0

OnlyPricedTools(s) ==  (* mutant *)
  Plus(InvocationCost(Ran(s, "search"), binding.table.search),
       InvocationCost(Ran(s, "lookup"), binding.table.lookup))

(* A tool that ran and that the adapter cannot account for has no price.   *)
ToolCost(s) ==
  CASE binding.provider = "anthropic" ->
         IF s.ran \ {"search"} \subseteq binding.tools
         THEN InvocationCost(Ran(s, "search"), binding.table.search) ELSE NaN
    [] binding.provider = "responses" ->
         IF s.ran \intersect {"code", "other"} = {}
         THEN Plus(InvocationCost(Ran(s, "search"), binding.table.search),
                   InvocationCost(Ran(s, "lookup"), binding.table.lookup))
         ELSE NaN
    [] binding.provider = "chat" -> 0
    [] binding.provider = "gemini" ->
         IF s.ran \ {"code"} \subseteq binding.tools
         THEN Plus(InvocationCost(Ran(s, "search"), binding.table.search),
                   InvocationCost(Ran(s, "lookup"), binding.table.lookup))
         ELSE NaN

AnthropicBilling(r, s) ==
  LET rates == RatesFor(s, r.five, r.hour, r.input_tokens + r.cached + r.five + r.hour)
  IN BillingAtRates(rates, r.cached, r.five + r.hour, r.input_tokens, r.output, r.thoughts, ToolCost(s))

WritesStayInput(r, s) ==  (* mutant *)
  BillingAtRates(RatesFor(s, r.five, 0, r.input_tokens), r.cached, r.five,
                 r.input_tokens - r.cached, r.output, r.thoughts, ToolCost(s))

OpenAIBilling(r, s) ==
  BillingAtRates(RatesFor(s, r.five, 0, r.input_tokens), r.cached, r.five,
                 r.input_tokens - r.cached - r.five, r.output, r.thoughts, ToolCost(s))

(* Thoughts are not in the candidates' count, nor tool input in the prompt.*)
GeminiBilling(r, s) ==
  BillingAtRates(RatesFor(s, 0, 0, r.input_tokens), r.cached, 0,
                 r.input_tokens - r.cached + r.tool_use, r.output + r.thoughts, r.thoughts, ToolCost(s))

BillingOf(c, s) ==
  CASE binding.provider = "anthropic" -> AnthropicBilling(Report(c), s)
    [] binding.provider \in {"responses", "chat"} -> OpenAIBilling(Report(c), s)
    [] binding.provider = "gemini" -> GeminiBilling(Report(c), s)

Respond ==
  /\ pc = "bound"
  /\ consumed' \in Consumptions
  /\ served' \in Services
  /\ billing' = BillingOf(consumed', served')
  /\ pc' = "billed"
  /\ UNCHANGED binding

Stopped == pc \in {"refused", "billed"} /\ UNCHANGED vars

Next == Bind \/ Respond \/ Stopped

Spec == Init /\ [][Next]_vars

-----------------------------------------------------------------------------
(***************************************************************************)
(* The provider's invoice: every token at the price of what it was.        *)
(***************************************************************************)
PromptLength ==
  consumed.fresh + consumed.read + consumed.write5 + consumed.write1

IsLong == binding.table.long # None /\ PromptLength > binding.table.long.above

Factor(side) ==
  (IF IsLong THEN binding.table.long[side] ELSE 1) *
  (CASE ~served.us -> 1 [] served.us /\ binding.table.us = None -> 1 [] OTHER -> binding.table.us)

TokenPrice(class) ==
  LET rates == BaseRates(served.tier)
  IN IF rates = None \/ (served.us /\ binding.table.us = None) \/ served.model # "bound" THEN NaN
     ELSE CASE class = "read" -> Scaled(rates.read, Factor("input"))
            [] class = "write5" -> Scaled(rates.write5, Factor("input"))
            [] class = "write1" -> Scaled(rates.write1, Factor("input"))
            [] class \in {"fresh", "tool_use"} -> Scaled(rates.none, Factor("input"))
            [] class \in {"answer", "thoughts"} -> Scaled(rates.output, Factor("output"))

InputClasses == <<"fresh", "read", "write5", "write1", "tool_use">>

InvoiceOf(classes) ==
  Sum([i \in DOMAIN classes |->
         IF consumed[classes[i]] = 0 THEN 0 ELSE Scaled(TokenPrice(classes[i]), consumed[classes[i]])])

ToolInvoice ==
  Sum(<<IF "other" \in served.ran THEN NaN ELSE 0,
        CASE "search" \notin served.ran -> 0
          [] "search" \in served.ran /\ binding.table.search = None -> NaN
          [] OTHER -> binding.table.search,
        CASE "lookup" \notin served.ran -> 0
          [] "lookup" \in served.ran /\ binding.table.lookup = None -> NaN
          [] OTHER -> binding.table.lookup>>)

Invoice == Plus(InvoiceOf(InputClasses \o <<"answer", "thoughts">>), ToolInvoice)

-----------------------------------------------------------------------------
(* A cost that is known is what the provider's invoice says, whatever the  *)
(* provider's way of counting, the tier it served and the tools it ran.    *)
KnownCostIsTheInvoice ==
  pc = "billed" /\ CostInUsd(billing) # NaN => CostInUsd(billing) = Invoice

(* Who binds only tools and keys of his own, and is served a tier and a    *)
(* place that his table has rates for, always learns the cost.             *)
AcceptedBindingHasACost ==
  pc = "billed" /\ binding.extra # "reference" /\ InvoiceOf(InputClasses \o <<"answer", "thoughts">>) # NaN =>
    CostInUsd(billing) # NaN

(* The input counters partition what the provider read, and what caching   *)
(* saved is the difference to the invoice without a cache.                 *)
SavingsAreTheDifference ==
  pc = "billed" =>
    LET input == consumed.fresh + consumed.read + consumed.write5 + consumed.write1 + consumed.tool_use
    IN /\ InputTokensTotal(billing) = input
       /\ CacheSavingsInUsd(billing) # NaN =>
            CacheSavingsInUsd(billing) = Minus(CategoryCost(input, TokenPrice("fresh")), InvoiceOf(InputClasses))
=============================================================================
