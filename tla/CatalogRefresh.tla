--------------------------- MODULE CatalogRefresh ---------------------------
(***************************************************************************)
(* The refresh of the vendored price catalogues: one run downloads what    *)
(* LiteLLM lists, renders the three pricing modules and writes them beside *)
(* a snapshot of its source.  A table holds less than LiteLLM may list, so *)
(* whatever it cannot hold must stop the refresh.                          *)
(*                                                                         *)
(* A rate has a field <<rate, above, tier>>: which tokens it prices, the   *)
(* prompt length above which it holds, 0 for a base rate, and its service  *)
(* tier.  Ratios are exact, in units of 1/Unit.                            *)
(***************************************************************************)
EXTENDS Naturals, SequencesExt

CONSTANTS
  Upstreams,                                       \* what LiteLLM may list
  OpenAIKeys, AnthropicKeys, BedrockKeys,          \* the selected keys
  OpenAIEmbeddingKeys, CohereKeys, Regions,
  Unit, None, NaN

(* An entry is known by <<prefix, key>>, where "" is no prefix.            *)
OpenAIRates == {"input", "output", "read", "write"}
AnthropicRates == OpenAIRates \union {"write_1h"}
OpenAIRenderedTiers == {"flex", "priority", "ultrafast"}
OpenAIKnownTiers == OpenAIRenderedTiers \union {"batches", "decisions"}
AnthropicKnownTiers == {"batches"}
Listed(entry) == DOMAIN entry.rates
Base(f) == <<f[1], 0, f[3]>>

RatesAssumption ==
  /\ Unit \in Nat \ {0} /\ NaN \notin Nat
  /\ None \notin Nat \union [above : Nat, input : Nat, output : Nat]
  /\ IsFiniteSet(BedrockKeys) /\ IsFiniteSet(CohereKeys)
  /\ \A u \in Upstreams : \A name \in DOMAIN u :
       /\ IsFiniteSet(Listed(u[name]))
       /\ \A f \in Listed(u[name]) :
            /\ f = <<f[1], f[2], f[3]>> /\ f[2] \in Nat
            /\ u[name].rates[f] \in Nat
            /\ f[2] = 0 /\ u[name].rates[f] # 0 => Unit % u[name].rates[f] = 0

Files == <<"snapshot", "openai", "anthropic", "cohere">>

VARIABLES
  upstream,
  pc,       \* "downloading", "writing", "raised" or "written"
  written,  \* the files written so far
  files

vars == <<upstream, pc, written, files>>

TypeOK ==
  /\ pc \in {"downloading", "writing", "raised", "written"}
  /\ written \in 0..Len(Files)
  /\ files \in [ToSet(Files) -> {"old", "torn", "new"}]
  /\ written = Cardinality({file \in ToSet(Files) : files[file] = "new"})

-----------------------------------------------------------------------------
(***************************************************************************)
(* What one entry must be for its table, and the table.                    *)
(***************************************************************************)
Ratio(above, base) == (above * Unit) \div base

KnownTiersOnly(entry, tiers) == \A f \in Listed(entry) : f[3] \in tiers \union {"standard"}

(* All of a category's rates are listed.                                   *)
Complete(entry, rates, tier) == \A r \in rates : <<r, 0, tier>> \in Listed(entry)

AnyOrNone(entry, tier) == TRUE  (* mutant *)

CompleteOrAbsent(entry, tier) ==
  \/ Complete(entry, OpenAIRates, tier)
  \/ \A r \in OpenAIRates : <<r, 0, tier>> \notin Listed(entry)

LongContextRates(entry, tiers) ==
  {f \in Listed(entry) : f[2] # 0 /\ f[3] \in tiers \union {"standard"}}

Positive(entry, f) == f \in Listed(entry) /\ entry.rates[f] # 0

RatiosOf(entry, fields) == {Ratio(entry.rates[f], entry.rates[Base(f)]) : f \in fields}

Outputs(fields) == {f \in fields : f[1] = "output"}

OneRatioEach(entry, tiers) ==  (* mutant: rates of several thresholds *)
  LET fields == LongContextRates(entry, tiers)
  IN fields # {} =>
       /\ \A f \in fields : Positive(entry, Base(f))
       /\ Cardinality(RatiosOf(entry, fields \ Outputs(fields))) = 1
       /\ Cardinality(RatiosOf(entry, Outputs(fields))) = 1

(* One threshold, one multiplier of input, cache reads and writes, and one *)
(* of output.                                                              *)
LongContextIsRegular(entry, tiers) ==
  LET fields == LongContextRates(entry, tiers)
  IN fields # {} =>
       /\ \A f \in fields : Positive(entry, Base(f))
       /\ Cardinality({f[2] : f \in fields}) = 1
       /\ Cardinality(RatiosOf(entry, fields \ Outputs(fields))) = 1
       /\ Cardinality(RatiosOf(entry, Outputs(fields))) = 1

LongContext(entry, tiers) ==
  LET fields == LongContextRates(entry, tiers)
  IN IF fields = {} THEN None
     ELSE [above |-> (CHOOSE f \in fields : TRUE)[2],
           input |-> CHOOSE m \in RatiosOf(entry, fields \ Outputs(fields)) : TRUE,
           output |-> CHOOSE m \in RatiosOf(entry, Outputs(fields)) : TRUE]

(* One price per search context size, or none at all.                      *)
OneSearchPrice(entry) ==
  \/ entry.search = <<>>
  \/ DOMAIN entry.search = {"low", "medium", "high"} /\ Cardinality(Range(entry.search)) = 1

SearchPrice(entry) == IF entry.search = <<>> THEN None ELSE entry.search["low"]

(* Prices in a table are in units of 1/Unit, like the ratios.              *)
BaseRates(entry, rates, tiers) ==
  [f \in {g \in Listed(entry) : g[1] \in rates /\ g[2] = 0 /\ g[3] \in tiers} |->
     entry.rates[f] * Unit]

OpenAIRenders(entry) ==
  /\ KnownTiersOnly(entry, OpenAIKnownTiers)
  /\ Complete(entry, OpenAIRates, "standard")
  /\ LongContextIsRegular(entry, OpenAIRenderedTiers)
  /\ LongContextRates(entry, OpenAIRenderedTiers) # {}
  /\ \A tier \in OpenAIRenderedTiers : CompleteOrAbsent(entry, tier)
  /\ OneSearchPrice(entry)
  /\ entry.uplift.us # None /\ entry.uplift.us = entry.uplift.eu

OpenAITable(entry) ==
  [rates |-> BaseRates(entry, OpenAIRates, OpenAIRenderedTiers \union {"standard"}),
   long |-> LongContext(entry, OpenAIRenderedTiers),
   search |-> SearchPrice(entry), uplift |-> entry.uplift.us]

(* LiteLLM lists no batch rate of the one-hour cache write; the discount   *)
(* of the five-minute write gives it.                                      *)
HourWrite(tier) == <<"write_1h", 0, tier>>

BatchHourWrite(entry) ==
  entry.rates[HourWrite("standard")]
    * Ratio(entry.rates[<<"write", 0, "batches">>], entry.rates[<<"write", 0, "standard">>])

AnthropicRenders(entry, direct) ==
  /\ KnownTiersOnly(entry, AnthropicKnownTiers)
  /\ Complete(entry, AnthropicRates, "standard")
  /\ direct => Complete(entry, OpenAIRates, "batches") /\ Positive(entry, <<"write", 0, "standard">>)
  /\ LongContextIsRegular(entry, IF direct THEN AnthropicKnownTiers ELSE {})
  /\ OneSearchPrice(entry)

AnthropicFields(entry, direct) ==
  DOMAIN BaseRates(entry, AnthropicRates, {"standard"})
    \union IF direct THEN DOMAIN BaseRates(entry, OpenAIRates, {"batches"}) \union {HourWrite("batches")}
           ELSE {}

AnthropicTable(entry, direct) ==
  [rates |-> [f \in AnthropicFields(entry, direct) |->
                IF f = HourWrite("batches") THEN BatchHourWrite(entry) ELSE entry.rates[f] * Unit],
   long |-> LongContext(entry, IF direct THEN AnthropicKnownTiers ELSE {}),
   search |-> SearchPrice(entry), uplift |-> None]

(* An embedding table is one rate.  Batch rates may go, as no batches are  *)
(* sent; any other price, a multiplier or a search among them, may not.    *)
EmbeddingRenders(entry) ==
  /\ <<"input", 0, "standard">> \in Listed(entry)
  /\ ~Positive(entry, <<"output", 0, "standard">>)
  /\ \A f \in Listed(entry) : f[1] \in {"input", "output"} /\ f[2] = 0 /\ f[3] \in {"standard", "batches"}
  /\ entry.uplift = [us |-> None, eu |-> None] /\ entry.search = <<>>

EmbeddingTable(entry) ==
  [rates |-> BaseRates(entry, {"input"}, {"standard"}), long |-> None, search |-> None, uplift |-> None]

-----------------------------------------------------------------------------
(***************************************************************************)
(* Bedrock lists some models again for a region; the catalogue has one     *)
(* multiplier for each region.                                             *)
(***************************************************************************)
Regional(prefix, keys) == {key \in keys : <<prefix, key>> \in DOMAIN upstream}

BaseFields(entry, rates) == {f \in Listed(entry) : f[1] \in rates /\ f[2] = 0 /\ f[3] = "standard"}

RegionalRatios(prefix, keys, rates) ==
  UNION {{Ratio(upstream[<<prefix, key>>].rates[f], upstream[<<"", key>>].rates[f]) :
            f \in BaseFields(upstream[<<prefix, key>>], rates)} : key \in Regional(prefix, keys)}

AnthropicRatesCompare(prefixed, base) ==
  /\ \A f \in BaseFields(prefixed, AnthropicRates) : Positive(base, f)
  /\ LongContextIsRegular(prefixed, {})
  /\ LongContext(prefixed, {}) \in {None, LongContext(base, {})}

EmbeddingRatesCompare(prefixed, base) ==
  EmbeddingRenders(prefixed) /\ Positive(base, <<"input", 0, "standard">>)

SomeRegionalRatio(prefix, keys, rates) == TRUE  (* mutant *)

OneRegionalRatio(prefix, keys, rates) == Cardinality(RegionalRatios(prefix, keys, rates)) <= 1

RatesCompare(key, prefixed, base) ==
  IF key \in CohereKeys THEN EmbeddingRatesCompare(prefixed, base)
  ELSE AnthropicRatesCompare(prefixed, base)

RegionsRender(keys, rates) ==
  \A prefix \in Regions :
    /\ \A key \in Regional(prefix, keys) :
         RatesCompare(key, upstream[<<prefix, key>>], upstream[<<"", key>>])
    /\ OneRegionalRatio(prefix, keys, rates)

CrossRegionMultiplier(prefix, keys, rates) ==
  LET ratios == RegionalRatios(prefix, keys, rates)
  IN IF ratios = {} THEN NaN ELSE CHOOSE r \in ratios : TRUE

-----------------------------------------------------------------------------
(***************************************************************************)
(* One refresh.  Everything is rendered before the first file is written;  *)
(* then the four are written one after the other, and a write may fail.    *)
(***************************************************************************)
EmbeddingKeys == OpenAIEmbeddingKeys \union CohereKeys
SelectedKeys == OpenAIKeys \union AnthropicKeys \union BedrockKeys \union EmbeddingKeys

ExpectedProvider(key) ==
  CASE key \in OpenAIKeys \union OpenAIEmbeddingKeys -> "openai"
    [] key \in AnthropicKeys -> "anthropic"
    [] OTHER -> "bedrock"

(* Every key is there, and each entry is of the provider it is read for.   *)
EntriesAreSelected ==
  /\ \A key \in SelectedKeys : <<"", key>> \in DOMAIN upstream
  /\ \A name \in DOMAIN upstream : upstream[name].provider = ExpectedProvider(name[2])

ModulesRender ==
  /\ \A key \in OpenAIKeys : OpenAIRenders(upstream[<<"", key>>])
  /\ \A key \in AnthropicKeys : AnthropicRenders(upstream[<<"", key>>], TRUE)
  /\ \A key \in BedrockKeys : AnthropicRenders(upstream[<<"", key>>], FALSE)
  /\ RegionsRender(BedrockKeys, AnthropicRates)
  /\ \A key \in EmbeddingKeys : EmbeddingRenders(upstream[<<"", key>>])
  /\ RegionsRender(CohereKeys, {"input"})

Init ==
  /\ upstream \in Upstreams
  /\ pc = "downloading"
  /\ written = 0
  /\ files = [file \in ToSet(Files) |-> "old"]

DownloadFails == pc = "downloading" /\ pc' = "raised" /\ UNCHANGED <<upstream, written, files>>

RenderAfterTheSnapshot ==  (* mutant *)
  /\ pc = "downloading"
  /\ files' = IF EntriesAreSelected THEN [files EXCEPT !["snapshot"] = "new"] ELSE files
  /\ pc' = IF EntriesAreSelected /\ ModulesRender THEN "writing" ELSE "raised"
  /\ UNCHANGED <<upstream, written>>

Render ==
  /\ pc = "downloading"
  /\ pc' = IF EntriesAreSelected /\ ModulesRender THEN "writing" ELSE "raised"
  /\ UNCHANGED <<upstream, written, files>>

Write ==
  /\ pc = "writing"
  /\ files' = [files EXCEPT ![Files[written + 1]] = "new"]
  /\ written' = written + 1
  /\ pc' = IF written' = Len(Files) THEN "written" ELSE "writing"
  /\ UNCHANGED upstream

WriteFails ==
  /\ pc = "writing"
  /\ files' = [files EXCEPT ![Files[written + 1]] = "torn"]
  /\ pc' = "raised"
  /\ UNCHANGED <<upstream, written>>

Rest == pc \in {"raised", "written"} /\ UNCHANGED vars

Next == DownloadFails \/ Render \/ Write \/ WriteFails \/ Rest

Spec == Init /\ [][Next]_vars

-----------------------------------------------------------------------------
(***************************************************************************)
(* What langchaint charges by the catalogue, in units of 1/Unit^2, and     *)
(* what LiteLLM lists.                                                     *)
(***************************************************************************)
Refreshed == pc = "written"

Price(table, f) ==
  table.rates[Base(f)]
    * (IF f[2] = 0 THEN Unit ELSE IF f[1] = "output" THEN table.long.output ELSE table.long.input)

Quotes(entry, table, fields, multiplier) ==
  \A f \in fields \intersect Listed(entry) :
    /\ Base(f) \in DOMAIN table.rates
    /\ f[2] # 0 => table.long # None /\ table.long.above = f[2]
    /\ multiplier # NaN
    /\ Price(table, f) * multiplier = entry.rates[f] * Unit * Unit * Unit

FieldsOf(entry, rates, tiers) == {f \in Listed(entry) : f[1] \in rates /\ f[3] \in tiers}

(* A request is billed at the price that LiteLLM lists for it: in every    *)
(* tier an adapter can be served in, below and above the long-context      *)
(* threshold, and under a cross-region prefix, where the product of three  *)
(* numbers of the catalogue has to come out at the listed one.  So does    *)
(* the price of a search.  Not so the one-hour write of a batch: LiteLLM   *)
(* lists none, and if it did the refresh would derive its own all the same. *)
QuotesAreListed ==
  Refreshed =>
    /\ \A key \in OpenAIKeys :
         LET entry == upstream[<<"", key>>] IN
         /\ Quotes(entry, OpenAITable(entry),
                   FieldsOf(entry, OpenAIRates, OpenAIRenderedTiers \union {"standard"}), Unit)
         /\ \A size \in DOMAIN entry.search : OpenAITable(entry).search = entry.search[size]
    /\ \A key \in AnthropicKeys :
         LET entry == upstream[<<"", key>>] IN
         Quotes(entry, AnthropicTable(entry, TRUE),
                FieldsOf(entry, AnthropicRates, {"standard"})
                  \union FieldsOf(entry, OpenAIRates, {"batches"}), Unit)
    /\ \A key \in BedrockKeys :
         LET base == upstream[<<"", key>>]
             Standard(entry) == FieldsOf(entry, AnthropicRates, {"standard"})
         IN /\ Quotes(base, AnthropicTable(base, FALSE), Standard(base), Unit)
            /\ \A prefix \in Regions : key \in Regional(prefix, BedrockKeys) =>
                 LET entry == upstream[<<prefix, key>>] IN
                 Quotes(entry, AnthropicTable(base, FALSE), Standard(entry),
                        CrossRegionMultiplier(prefix, BedrockKeys, AnthropicRates))
    /\ \A key \in EmbeddingKeys :
         LET base == upstream[<<"", key>>]
             Sent(entry) == FieldsOf(entry, AnthropicRates, {"standard"}) \ {<<"output", 0, "standard">>}
         IN /\ Quotes(base, EmbeddingTable(base), Sent(base), Unit)
            /\ \A prefix \in Regions : key \in Regional(prefix, CohereKeys) =>
                 LET entry == upstream[<<prefix, key>>] IN
                 Quotes(entry, EmbeddingTable(base), Sent(entry),
                        CrossRegionMultiplier(prefix, CohereKeys, {"input"}))

(* No price is made up: a base rate of a table is listed or, the one-hour  *)
(* write of a batch, discounted as the five-minute write is; a tier is in  *)
(* the table only with all its rates; a region has a multiplier only if a  *)
(* price is listed for it, and is NaN otherwise.                           *)
NothingIsInvented ==
  Refreshed =>
    /\ \A key \in OpenAIKeys :
         LET rates == OpenAITable(upstream[<<"", key>>]).rates IN
         \A f \in DOMAIN rates : \A r \in OpenAIRates : <<r, 0, f[3]>> \in DOMAIN rates
    /\ \A key \in AnthropicKeys :
         LET entry == upstream[<<"", key>>] rates == AnthropicTable(entry, TRUE).rates IN
         \A f \in DOMAIN rates \ Listed(entry) :
           /\ f = HourWrite("batches")
           /\ rates[f] * entry.rates[<<"write", 0, "standard">>]
                = rates[HourWrite("standard")] * entry.rates[<<"write", 0, "batches">>]
    /\ \A prefix \in Regions :
         CrossRegionMultiplier(prefix, BedrockKeys, AnthropicRates) = NaN <=>
           \A key \in Regional(prefix, BedrockKeys) :
             BaseFields(upstream[<<prefix, key>>], AnthropicRates) = {}

(* What some table cannot hold reaches no file, the snapshot included; and *)
(* the files stem from one upstream unless writing one failed.             *)
RefreshIsWhole ==
  /\ (\E file \in DOMAIN files : files[file] # "old") => EntriesAreSelected /\ ModulesRender
  /\ pc = "raised" => \/ \A file \in DOMAIN files : files[file] = "old"
                      \/ \E file \in DOMAIN files : files[file] = "torn"
=============================================================================
