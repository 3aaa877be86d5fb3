------------------------------ MODULE Pricing ------------------------------
(***************************************************************************)
(* What a request costs: the catalogue read at start, the worst case held  *)
(* before the provider is called, the usage the provider reports in its    *)
(* own convention, and the bill computed from it.                          *)
(*                                                                         *)
(* Amounts are nano-USD.  A rate is nano-USD per PerRate tokens, so that   *)
(* a single token may cost a fraction; the file states it in units of      *)
(* 1/Fine nano-USD, so that it may be finer than the gateway can hold.     *)
(***************************************************************************)
EXTENDS Integers

CONSTANTS
  Entries,      \* the catalogue entries a file may hold
  PerRate,      \* TOKENS_PER_MILLION
  BasisPoints,  \* BASIS_POINTS
  SafetyBps,    \* overshoot_safety_bps
  Fine,         \* how many parts of a nano-USD the file can tell apart
  MaxPrompt,    \* bound: tokens of a prompt
  MaxCeiling,   \* bound: output tokens a request may ask for
  MaxThoughts   \* bound: hidden reasoning tokens

ASSUME PricingAssumption ==
  /\ {PerRate, BasisPoints, Fine} \subseteq Nat \ {0}
  /\ {SafetyBps, MaxPrompt, MaxCeiling, MaxThoughts} \subseteq Nat

\* A threshold is a set of one number, or of none in an entry without long context.
Entry ==
  [provider : {"openai", "anthropic", "bedrock", "gemini"},
   input : Int, cached : Int, write : Int, output : Int, min : Int,
   threshold : SUBSET Int, inMult : Int, outMult : Int, hardCap : BOOLEAN]
ASSUME EntryAssumption == Entries \subseteq Entry

VARIABLES
  phase,    \* how far the request is
  entry,    \* the model's entry as the file states it
  prompt,   \* tokens the provider will meter for the prompt
  ceiling,  \* the output ceiling sent to the provider
  count,    \* the tokens the adapter counted the prompt at, and how it came to them
  held,     \* the worst case, as a cost breakdown
  work,     \* tokens the provider processed
  bill      \* the actual cost, as a breakdown

vars == <<phase, entry, prompt, ceiling, count, held, work, bill>>

Rates == {"input", "cached", "write", "output", "min"}
Buckets == {"input", "cached", "output", "tool"}

Zero == [b \in Buckets |-> 0]
Total(c) == c.input + c.cached + c.output + c.tool

----------------------------------------------------------------------------
(* The catalogue. *)

\* _usd_to_nano: a rate is negative or finer than one nano-USD, or the
\* multiplier is not positive: the file is refused as a whole.
Refuses(e) ==
  \/ \E r \in Rates : e[r] < 0 \/ e[r] % Fine # 0
  \/ e.inMult <= 0
  \/ e.outMult <= 0

Parsed(e) == [e EXCEPT !.input = @ \div Fine, !.cached = @ \div Fine,
                       !.write = @ \div Fine, !.output = @ \div Fine,
                       !.min = @ \div Fine]

----------------------------------------------------------------------------
(* Cost arithmetic. *)

CeilDiv(a, b) == -((-a) \div b)

IsLongContext(p, tokens) == \E n \in p.threshold : tokens > n

Rate(base, mult, long) ==
  IF ~long \/ mult = BasisPoints THEN base ELSE CeilDiv(base * mult, BasisPoints)

\* As CostOf if it rounded down (a mutant).
FloorCost(tokens, rate) ==
  IF tokens <= 0 \/ rate <= 0 THEN 0 ELSE (tokens * rate) \div PerRate

CostOf(tokens, rate) ==
  IF tokens <= 0 \/ rate <= 0 THEN 0 ELSE CeilDiv(tokens * rate, PerRate)

ApplyMinimum(c, min) ==
  IF min <= 0 \/ Total(c) >= min THEN c ELSE [c EXCEPT !.tool = @ + (min - Total(c))]

\* The output cap of the model does not bound what it generates: pad the total,
\* and put the margin on the output.
Padded(c, p) ==
  IF p.hardCap THEN c
  ELSE [c EXCEPT !.output =
          @ + (CeilDiv(Total(c) * (BasisPoints + SafetyBps), BasisPoints) - Total(c))]

\* As EstimateWorstCase without the long-context tier (a mutant).
ShortEstimate(p, tokens, max) ==
  LET c == [Zero EXCEPT !.input = CostOf(tokens, p.input),
                        !.output = CostOf(max, p.output)]
  IN ApplyMinimum(Padded(c, p), p.min)

EstimateWorstCase(p, tokens, max) ==
  LET long == IsLongContext(p, tokens)
      c == [Zero EXCEPT !.input = CostOf(tokens, Rate(p.input, p.inMult, long)),
                        !.output = CostOf(max, Rate(p.output, p.outMult, long))]
  IN ApplyMinimum(Padded(c, p), p.min)

PriceActual(p, u) ==
  LET long == IsLongContext(p, u.uncached + u.cached)
      c == [input  |-> CostOf(u.uncached, Rate(p.input, p.inMult, long)),
            cached |-> CostOf(u.cached, p.cached),
            output |-> CostOf(u.output, Rate(p.output, p.outMult, long)),
            tool   |-> CostOf(u.written, p.write)]
  IN ApplyMinimum(c, p.min)

----------------------------------------------------------------------------
(* Usage, from a provider's wire format to disjoint buckets. *)

\* Each adapter restores one convention: cached is a part of input, reasoning a
\* part of output, cache writes are apart.
FromOpenAI(wire) ==
  [input |-> wire.prompt_tokens, cached |-> wire.cached_tokens,
   output |-> wire.completion_tokens, written |-> 0]
FromAnthropic(wire) ==
  [input |-> wire.input_tokens + wire.cache_read, cached |-> wire.cache_read,
   output |-> wire.output_tokens, written |-> wire.cache_creation]
FromBedrock(wire) ==
  [input |-> wire.inputTokens + wire.cacheRead, cached |-> wire.cacheRead,
   output |-> wire.outputTokens, written |-> wire.cacheWrite]

FromGemini(wire) ==
  [input |-> wire.promptTokenCount,
   cached |-> IF wire.cachedContent < wire.promptTokenCount
              THEN wire.cachedContent ELSE wire.promptTokenCount,
   output |-> wire.candidates + wire.thoughts, written |-> 0]

Normalized(u) ==
  [uncached |-> u.input - u.cached, cached |-> u.cached,
   output |-> u.output, written |-> u.written]

\* What the provider writes on the wire of the tokens it processed.
OpenAIWire(w) ==
  [prompt_tokens |-> w.fresh + w.read, cached_tokens |-> w.read,
   completion_tokens |-> w.visible + w.thought]
AnthropicWire(w) ==
  [input_tokens |-> w.fresh, cache_read |-> w.read, cache_creation |-> w.written,
   output_tokens |-> w.visible + w.thought]
BedrockWire(w) ==
  [inputTokens |-> w.fresh, cacheRead |-> w.read, cacheWrite |-> w.written,
   outputTokens |-> w.visible + w.thought]
GeminiWire(w) ==
  [promptTokenCount |-> w.fresh + w.read, cachedContent |-> w.read,
   candidates |-> w.visible, thoughts |-> w.thought]

Usage(e, w) ==
  CASE e.provider = "openai"    -> FromOpenAI(OpenAIWire(w))
    [] e.provider = "anthropic" -> FromAnthropic(AnthropicWire(w))
    [] e.provider = "bedrock"   -> FromBedrock(BedrockWire(w))
    [] e.provider = "gemini"    -> FromGemini(GeminiWire(w))

ReportsWrites(e) == e.provider \in {"anthropic", "bedrock"}

-----------------------------------------------------------------------------
(* The count of a prompt before the call. *)

\* The tokens counted, and for a count of the provider's what it was shown of the prompt.
Count == [by : {"none", "provider", "gateway"}, shown : Nat, tokens : Nat]

WithMargin(n, percent) == CeilDiv(n * (100 + percent), 100)

\* What the provider counts of a prompt of `tokens', `tools' of them in definitions of
\* tools.  A provider counts what it is shown as it will meter it; Bedrock is not shown
\* the tools, and its word is taken without a margin.  OpenAI is not asked.
AsksProvider(e) == e.provider # "openai"
CountByProvider(e, tokens, tools) ==
  IF e.provider = "bedrock"
  THEN [by |-> "provider", shown |-> tokens - tools, tokens |-> tokens - tools]
  ELSE [by |-> "provider", shown |-> tokens, tokens |-> WithMargin(tokens, 3)]

\* What the gateway makes of it, where the provider is not asked or does not answer: a
\* tokenizer of its own, or a third of the characters.  `n' may be any number.
CountByGateway(e, n) ==
  [by |-> "gateway", shown |-> 0,
   tokens |-> WithMargin(n, IF e.provider \in {"openai", "bedrock"} THEN 5 ELSE 3)]

----------------------------------------------------------------------------
NoCount == [by |-> "none", shown |-> 0, tokens |-> 0]
NoWork == [fresh |-> 0, read |-> 0, written |-> 0, visible |-> 0, thought |-> 0]

Init ==
  /\ phase = "boot"
  /\ entry \in Entries
  /\ prompt = 0 /\ ceiling = 0
  /\ count = NoCount /\ held = Zero /\ work = NoWork /\ bill = Zero

\* load_catalog: the gateway starts with the parsed entry, or not at all.
LoadCatalog ==
  /\ phase = "boot"
  /\ phase' = IF Refuses(entry) THEN "refused" ELSE "ready"
  /\ UNCHANGED <<entry, prompt, ceiling, count, held, work, bill>>

\* The router counts the prompt and prices the worst case, which is reserved.
Estimate ==
  /\ phase = "ready"
  /\ prompt' \in 1 .. MaxPrompt
  /\ ceiling' \in 1 .. MaxCeiling
  /\ \/ /\ AsksProvider(entry)
        /\ \E tools \in 0 .. prompt' : count' = CountByProvider(entry, prompt', tools)
     \/ \E n \in 0 .. MaxPrompt : count' = CountByGateway(entry, n)
  /\ held' = EstimateWorstCase(Parsed(entry), count'.tokens, ceiling')
  /\ phase' = "held"
  /\ UNCHANGED <<entry, work, bill>>

\* The provider meters the prompt, some of it from its cache, some of it into
\* its cache, and generates.  A hard cap bounds all it generates, a soft one
\* only what it shows.
Answer ==
  /\ phase = "held"
  /\ \E read \in 0 .. prompt, visible \in 0 .. ceiling, thought \in 0 .. MaxThoughts :
     \E written \in 0 .. (IF ReportsWrites(entry) THEN prompt - read ELSE 0) :
       /\ entry.hardCap => visible + thought <= ceiling
       /\ work' = [fresh |-> prompt - read - written, read |-> read,
                   written |-> written, visible |-> visible, thought |-> thought]
  /\ phase' = "answered"
  /\ UNCHANGED <<entry, prompt, ceiling, count, held, bill>>

\* reconcile: normalise what was reported, and price it.
Bill ==
  /\ phase = "answered"
  /\ bill' = PriceActual(Parsed(entry), Normalized(Usage(entry, work)))
  /\ phase' = "billed"
  /\ UNCHANGED <<entry, prompt, ceiling, count, held, work>>

Next == LoadCatalog \/ Estimate \/ Answer \/ Bill

Spec == Init /\ [][Next]_vars

----------------------------------------------------------------------------
TypeOK ==
  /\ phase \in {"boot", "refused", "ready", "held", "answered", "billed"}
  /\ entry \in Entries
  /\ prompt \in 0 .. MaxPrompt
  /\ ceiling \in 0 .. MaxCeiling
  /\ count \in Count
  /\ held \in [Buckets -> Nat]
  /\ work \in [{"fresh", "read", "written", "visible", "thought"} -> Nat]
  /\ bill \in [Buckets -> Nat]

\* An answer within what the hold was made for: as much output as the ceiling allows.
\* (The gateway asks no provider to write its cache, and a write is dearer than input:
\* answers with one are left out.)
WithinRequest == work.written = 0 /\ work.visible + work.thought <= ceiling

\* The hold is the most the request can cost, if the prompt was counted at no fewer
\* tokens than the provider metered: no answer within the ceiling is billed above what
\* was reserved for it, whatever the provider served from its cache, and whichever side
\* of a long-context boundary the count and the meter fall.
EstimateCoversBill ==
  phase = "billed" /\ WithinRequest /\ count.tokens >= prompt => Total(bill) <= Total(held)

\* That condition is met wherever the provider counted all it was sent.
WholeCountCovers ==
  phase = "billed" /\ WithinRequest /\ count.by = "provider" /\ count.shown = prompt =>
    Total(bill) <= Total(held)

\* Bedrock's count_input_tokens: "over-counting is the safe direction, since an
\* under-count means an under-reservation".  A count by the provider is no fewer than
\* it meters.
ProvidersDoNotUndercount == count.by = "provider" => count.tokens >= prompt

\* Every token the provider processed is in one billing bucket, in the bucket of
\* its own rate, in the convention of any of the four adapters.
EveryTokenOnce ==
  phase = "billed" =>
    Normalized(Usage(entry, work)) =
      [uncached |-> work.fresh, cached |-> work.read,
       output |-> work.visible + work.thought, written |-> work.written]

\* The hold is the most the request can cost, as the estimate's contract has it:
\* whatever the provider generates.
EstimateIsTheMost ==
  phase = "billed" /\ count.tokens >= prompt => Total(bill) <= Total(held)

\* What the tokens cost at the prices the file states, in parts of a nano-USD
\* per PerRate tokens and BasisPoints: no division, no rounding.
Invoice ==
  LET long == \E n \in entry.threshold : work.fresh + work.read > n
      in == IF long THEN entry.inMult ELSE BasisPoints
      out == IF long THEN entry.outMult ELSE BasisPoints
  IN work.fresh * entry.input * in
       + work.read * entry.cached * BasisPoints
       + (work.visible + work.thought) * entry.output * out
       + work.written * entry.write * BasisPoints

\* The bill agrees with the provider's invoice at the prices the file states: it
\* is never below, and above it only by the rounding of its four buckets (and of
\* the two multiplied rates) or up to the minimum charge.
BillMatchesInvoice ==
  phase = "billed" =>
    LET unit == Fine * PerRate * BasisPoints
        rounding == 4 * unit + Fine * BasisPoints * (MaxPrompt + MaxCeiling + MaxThoughts)
    IN /\ Total(bill) * unit >= Invoice
       /\ Total(bill) * Fine >= entry.min
       /\ Total(bill) * Fine > entry.min => Total(bill) * unit <= Invoice + rounding

----------------------------------------------------------------------------
(* What the properties rest on, kept by every step *)

\* What a provider may have done with a request.
Processed ==
  /\ work.fresh + work.read + work.written = prompt
  /\ work.written = 0 \/ ReportsWrites(entry)
  /\ work.visible <= ceiling /\ work.thought <= MaxThoughts

\* An entry by which holds cover bills: a cached token costs a whole number of nano-USD
\* and no more than another, and a long context costs no less than a short one.  So it
\* is with every entry of pricing/catalog.json.
Ordinary(e) ==
  /\ e.cached <= e.input /\ e.cached % (Fine * PerRate) = 0
  /\ e.inMult >= BasisPoints /\ e.outMult >= BasisPoints

\* The inductive invariant: a request that got anywhere has a valid entry, the hold
\* is the estimate of what was asked, the bill the price of what was done.
Priced ==
  /\ TypeOK
  /\ phase \notin {"boot", "refused"} => ~Refuses(entry)
  /\ phase \in {"held", "answered", "billed"} =>
       /\ held = EstimateWorstCase(Parsed(entry), count.tokens, ceiling)
       /\ count.by = "provider" /\ count.shown = prompt => count.tokens >= prompt
  /\ phase \in {"answered", "billed"} => Processed
  /\ phase = "billed" => bill = PriceActual(Parsed(entry), Normalized(Usage(entry, work)))

============================================================================
