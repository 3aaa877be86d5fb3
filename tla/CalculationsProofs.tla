--------------------------- MODULE CalculationsProofs ---------------------------
(***************************************************************************)
(* Proofs about the two calculations of MCCalculations, for any catalogue, *)
(* rates, zones and bounds: a hold covers the bill of any answer within    *)
(* the ceiling if the prompt was not undercounted, a bill is what the      *)
(* file's prices make of the tokens, rounded up, and every instant is in   *)
(* one budget window.                                                      *)
(***************************************************************************)
EXTENDS MCCalculations, TLAPS

\* What the constants are.
LEMMA Parameters ==
  /\ PerRate \in Nat /\ PerRate > 0 /\ BasisPoints \in Nat /\ BasisPoints > 0
  /\ Fine \in Nat /\ Fine > 0 /\ SafetyBps \in Nat
  /\ MaxPrompt \in Nat /\ MaxCeiling \in Nat /\ MaxThoughts \in Nat
  /\ Entries \subseteq Entry
BY PricingAssumption, EntryAssumption

-----------------------------------------------------------------------------
(* Products and quotients *)

\* Products of natural numbers.
LEMMA Products ==
  ASSUME NEW x \in Nat, NEW y \in Nat
  PROVE  x * y \in Nat
OBVIOUS

\* A product grows with its factors.
LEMMA ProductsGrow ==
  ASSUME NEW x \in Nat, NEW y \in Nat, NEW r \in Nat, NEW s \in Nat, x <= y, r <= s
  PROVE  x * r <= y * s
<1>1. x * r <= y * r
  OBVIOUS
<1>2. y * r <= y * s
  OBVIOUS
<1>. QED
  BY <1>1, <1>2, Products

\* CeilDiv is division rounded up.
LEMMA CeilSpec ==
  ASSUME NEW a \in Int, NEW b \in Nat, b > 0
  PROVE  /\ CeilDiv(a, b) \in Int
         /\ a <= b * CeilDiv(a, b) /\ b * CeilDiv(a, b) < a + b
<1>1. /\ (-a) \div b \in Int
      /\ b * ((-a) \div b) <= -a /\ -a < b * ((-a) \div b) + b
  OBVIOUS
<1>. QED
  BY <1>1 DEF CeilDiv

\* It is the only number with this property.
LEMMA CeilUnique ==
  ASSUME NEW a \in Int, NEW b \in Nat, b > 0, NEW n \in Int, a <= b * n, b * n < a + b
  PROVE  CeilDiv(a, b) = n
<1>. DEFINE m == CeilDiv(a, b)
<1>1. m \in Int /\ a <= b * m /\ b * m < a + b
  BY CeilSpec
<1>. HIDE DEF m
<1>2. b * (n - m) < b /\ b * (m - n) < b
  BY <1>1
<1>3. n - m < 1 /\ m - n < 1
  BY <1>1, <1>2
<1>4. m = n
  BY <1>1, <1>3
<1>. QED
  BY <1>4 DEF m

\* It grows with the dividend.
LEMMA CeilGrows ==
  ASSUME NEW a \in Int, NEW c \in Int, NEW b \in Nat, b > 0, a <= c
  PROVE  CeilDiv(a, b) <= CeilDiv(c, b)
<1>. DEFINE m == CeilDiv(a, b)
            n == CeilDiv(c, b)
<1>1. /\ m \in Int /\ b * m < a + b
      /\ n \in Int /\ c <= b * n
  BY CeilSpec
<1>. HIDE DEF m, n
<1>2. b * (m - n) < b
  BY <1>1
<1>3. m - n < 1
  BY <1>1, <1>2
<1>4. m <= n
  BY <1>1, <1>3
<1>. QED
  BY <1>4 DEF m, n

\* Multiples of the divisor pass through.
LEMMA CeilShifts ==
  ASSUME NEW a \in Int, NEW k \in Int, NEW b \in Nat, b > 0
  PROVE  CeilDiv(a + b * k, b) = CeilDiv(a, b) + k
<1>. DEFINE m == CeilDiv(a, b)
<1>1. m \in Int /\ a <= b * m /\ b * m < a + b
  BY CeilSpec
<1>. HIDE DEF m
<1>2. b * (m + k) = b * m + b * k /\ b * k \in Int /\ m + k \in Int
  BY <1>1
<1>3. a + b * k <= b * (m + k) /\ b * (m + k) < a + b * k + b /\ a + b * k \in Int
  BY <1>1, <1>2
<1>4. CeilDiv(a + b * k, b) = m + k
  BY <1>2, <1>3, CeilUnique
<1>. QED
  BY <1>4 DEF m

\* It is a natural number of a natural one, and zero of zero.
LEMMA CeilOfNat ==
  ASSUME NEW a \in Nat, NEW b \in Nat, b > 0
  PROVE  CeilDiv(a, b) \in Nat /\ CeilDiv(0, b) = 0
<1>1. CeilDiv(0, b) = 0
  BY CeilUnique
<1>2. CeilDiv(a, b) \in Int /\ CeilDiv(0, b) <= CeilDiv(a, b)
  BY CeilSpec, CeilGrows
<1>. QED
  BY <1>1, <1>2

\* Rounding up does not go below a number that is not divided by more.
LEMMA CeilOfMore ==
  ASSUME NEW n \in Nat, NEW extra \in Nat, NEW b \in Nat, b > 0
  PROVE  CeilDiv(n * (b + extra), b) >= n
<1>1. CeilDiv(0 + b * n, b) = CeilDiv(0, b) + n
  BY CeilShifts
<1>2. n * extra \in Nat /\ n * (b + extra) = b * n + n * extra
  BY Products
<1>3. b * n <= n * (b + extra) /\ b * n \in Nat /\ n * (b + extra) \in Nat
  BY <1>2, Products
<1>4. CeilDiv(b * n, b) <= CeilDiv(n * (b + extra), b)
  BY <1>3, CeilGrows
<1>5. CeilDiv(n * (b + extra), b) \in Int /\ 0 + b * n = b * n
  BY <1>3, CeilSpec
<1>. QED
  BY <1>1, <1>4, <1>5, CeilOfNat

-----------------------------------------------------------------------------
(* Rates and costs *)

\* What an entry that is not refused is parsed to: natural numbers of nano-USD, the
\* file's exactly.
LEMMA ParsedTypes ==
  ASSUME NEW e \in Entry, ~Refuses(e)
  PROVE  /\ \A r \in Rates : Parsed(e)[r] \in Nat /\ e[r] = Fine * Parsed(e)[r]
         /\ Parsed(e).inMult = e.inMult /\ Parsed(e).outMult = e.outMult
         /\ e.inMult \in Nat /\ e.inMult > 0 /\ e.outMult \in Nat /\ e.outMult > 0
         /\ Parsed(e).threshold = e.threshold /\ e.threshold \in SUBSET Int
         /\ Parsed(e).hardCap = e.hardCap /\ e.hardCap \in BOOLEAN
<1>1. /\ e.inMult \in Int /\ e.outMult \in Int /\ e.threshold \in SUBSET Int
      /\ e.hardCap \in BOOLEAN
      /\ \A r \in Rates : e[r] \in Int /\ e[r] >= 0 /\ e[r] % Fine = 0
      /\ e.inMult > 0 /\ e.outMult > 0
  BY DEF Entry, Refuses, Rates
<1>2. \A r \in Rates : Parsed(e)[r] = e[r] \div Fine
  BY DEF Parsed, Entry, Rates
<1>3. ASSUME NEW n \in Int, n >= 0, n % Fine = 0
      PROVE  n \div Fine \in Nat /\ n = Fine * (n \div Fine)
  <2>1. n \div Fine \in Int /\ n = Fine * (n \div Fine)
    BY <1>3, Parameters
  <2>. HIDE DEF Refuses
  <2>2. ASSUME NEW q \in Int, n = Fine * q PROVE q \in Nat
    <3>1. ASSUME q < 0 PROVE FALSE
      <4>1. -q \in Nat /\ -q > 0
        BY <3>1
      <4>2. Fine * (-q) > 0 /\ Fine * (-q) = -(Fine * q)
        BY <4>1, Parameters
      <4>. QED
        BY <1>3, <2>2, <4>2, Parameters
    <3>. QED
      BY <3>1
  <2>. QED
    BY <2>1, <2>2
<1>4. \A r \in Rates : Parsed(e)[r] \in Nat /\ e[r] = Fine * Parsed(e)[r]
  BY <1>1, <1>2, <1>3
<1>5. /\ Parsed(e).inMult = e.inMult /\ Parsed(e).outMult = e.outMult
      /\ Parsed(e).threshold = e.threshold /\ Parsed(e).hardCap = e.hardCap
  BY DEF Parsed, Entry
<1>. QED
  BY <1>1, <1>4, <1>5

\* What a number of tokens costs.
LEMMA CostIs ==
  ASSUME NEW tokens \in Nat, NEW rate \in Nat
  PROVE  /\ CostOf(tokens, rate) = CeilDiv(tokens * rate, PerRate)
         /\ CostOf(tokens, rate) \in Nat
<1>1. tokens * rate \in Nat /\ (tokens <= 0 \/ rate <= 0 => tokens * rate = 0)
  BY Products
<1>2. CeilDiv(tokens * rate, PerRate) \in Nat /\ CeilDiv(0, PerRate) = 0
  BY <1>1, CeilOfNat, Parameters
<1>. QED
  BY <1>1, <1>2 DEF CostOf

\* More tokens at a higher rate cost no less.
LEMMA CostGrows ==
  ASSUME NEW x \in Nat, NEW y \in Nat, NEW r \in Nat, NEW s \in Nat, x <= y, r <= s
  PROVE  CostOf(x, r) <= CostOf(y, s)
<1>1. x * r <= y * s /\ x * r \in Nat /\ y * s \in Nat
  BY ProductsGrow, Products
<1>2. CeilDiv(x * r, PerRate) <= CeilDiv(y * s, PerRate)
  BY <1>1, CeilGrows, Parameters
<1>. QED
  BY <1>2, CostIs

\* The factor of a rate, in basis points.
Factor(mult, long) == IF long THEN mult ELSE BasisPoints

\* A rate is the base by its factor, rounded up.
LEMMA RateIs ==
  ASSUME NEW base \in Nat, NEW mult \in Nat, NEW long \in BOOLEAN
  PROVE  /\ Rate(base, mult, long) = CeilDiv(base * Factor(mult, long), BasisPoints)
         /\ Rate(base, mult, long) \in Nat
         /\ base * Factor(mult, long) <= BasisPoints * Rate(base, mult, long)
         /\ BasisPoints * Rate(base, mult, long) < base * Factor(mult, long) + BasisPoints
<1>1. Factor(mult, long) \in Nat /\ base * Factor(mult, long) \in Nat
  BY Parameters, Products DEF Factor
<1>2. CeilDiv(base * BasisPoints, BasisPoints) = base
  <2>1. CeilDiv(0 + BasisPoints * base, BasisPoints) = CeilDiv(0, BasisPoints) + base
    BY CeilShifts, Parameters
  <2>2. 0 + BasisPoints * base = base * BasisPoints /\ CeilDiv(0, BasisPoints) = 0
    BY CeilOfNat, Parameters
  <2>. QED
    BY <2>1, <2>2
<1>3. Rate(base, mult, long) = CeilDiv(base * Factor(mult, long), BasisPoints)
  BY <1>2 DEF Rate, Factor
<1>. DEFINE n == base * Factor(mult, long)
<1>4. n \in Nat /\ Rate(base, mult, long) = CeilDiv(n, BasisPoints)
  BY <1>1, <1>3
<1>. HIDE DEF n
<1>5. CeilDiv(n, BasisPoints) \in Nat
  BY <1>4, CeilOfNat, Parameters
<1>6. /\ n <= BasisPoints * CeilDiv(n, BasisPoints)
      /\ BasisPoints * CeilDiv(n, BasisPoints) < n + BasisPoints
  BY <1>4, CeilSpec, Parameters
<1>. QED
  BY <1>4, <1>5, <1>6 DEF n

\* A rate with a larger factor is no lower.
LEMMA RateGrows ==
  ASSUME NEW base \in Nat, NEW mult \in Nat, mult >= BasisPoints,
         NEW long \in BOOLEAN, NEW longer \in BOOLEAN, long => longer
  PROVE  /\ Rate(base, mult, long) <= Rate(base, mult, longer)
         /\ base <= Rate(base, mult, longer)
<1>1. /\ Factor(mult, long) \in Nat /\ Factor(mult, longer) \in Nat
      /\ Factor(mult, long) <= Factor(mult, longer)
      /\ Factor(mult, FALSE) \in Nat /\ Factor(mult, FALSE) <= Factor(mult, longer)
  BY Parameters DEF Factor
<1>2. ASSUME NEW x \in Nat, NEW y \in Nat, x <= y
      PROVE  CeilDiv(base * x, BasisPoints) <= CeilDiv(base * y, BasisPoints)
  <2>1. base * x <= base * y /\ base * x \in Nat /\ base * y \in Nat
    BY <1>2, ProductsGrow, Products
  <2>. QED
    BY <2>1, CeilGrows, Parameters
<1>3. \A b \in BOOLEAN : Rate(base, mult, b) = CeilDiv(base * Factor(mult, b), BasisPoints)
  BY RateIs
<1>4. /\ Rate(base, mult, long) <= Rate(base, mult, longer)
      /\ Rate(base, mult, FALSE) <= Rate(base, mult, longer)
  <2>1. /\ CeilDiv(base * Factor(mult, long), BasisPoints)
             <= CeilDiv(base * Factor(mult, longer), BasisPoints)
        /\ CeilDiv(base * Factor(mult, FALSE), BasisPoints)
             <= CeilDiv(base * Factor(mult, longer), BasisPoints)
    BY <1>1, <1>2
  <2>2. /\ Rate(base, mult, long) = CeilDiv(base * Factor(mult, long), BasisPoints)
        /\ Rate(base, mult, longer) = CeilDiv(base * Factor(mult, longer), BasisPoints)
        /\ Rate(base, mult, FALSE) = CeilDiv(base * Factor(mult, FALSE), BasisPoints)
    BY <1>3, Zenon
  <2>. QED
    BY <2>1, <2>2, Zenon
<1>5. Rate(base, mult, FALSE) = base
  BY DEF Rate
<1>. QED
  BY <1>4, <1>5

\* What the minimum charge makes of a breakdown.
LEMMA MinimumIs ==
  ASSUME NEW c \in [Buckets -> Nat], NEW min \in Nat
  PROVE  /\ ApplyMinimum(c, min) \in [Buckets -> Nat]
         /\ Total(ApplyMinimum(c, min)) = IF Total(c) >= min THEN Total(c) ELSE min
         /\ Total(c) \in Nat
<1>1. c.input \in Nat /\ c.cached \in Nat /\ c.output \in Nat /\ c.tool \in Nat
  BY DEF Buckets
<1>2. Total(c) \in Nat
  BY <1>1 DEF Total
<1>3. CASE Total(c) >= min
  BY <1>2, <1>3 DEF ApplyMinimum
<1>4. CASE ~(Total(c) >= min)
  <2>1. c.tool + (min - Total(c)) \in Nat /\ ~(min <= 0)
    BY <1>1, <1>2, <1>4
  <2>2. ApplyMinimum(c, min) = [c EXCEPT !.tool = c.tool + (min - Total(c))]
    BY <1>2, <1>4, <2>1 DEF ApplyMinimum
  <2>3. ApplyMinimum(c, min) \in [Buckets -> Nat]
    BY <2>1, <2>2 DEF Buckets
  <2>4. Total(ApplyMinimum(c, min)) = c.input + c.cached + c.output + (c.tool + (min - Total(c)))
    BY <2>2 DEF Total, Buckets
  <2>. QED
    BY <1>1, <1>2, <1>4, <2>3, <2>4 DEF Total
<1>. QED
  BY <1>2, <1>3, <1>4

-----------------------------------------------------------------------------
(* Holds and bills *)

\* A sum of money, raised to the minimum charge.
AtLeast(n, min) == IF n >= min THEN n ELSE min

\* What an estimate comes to: no less than its tokens at their rates.
LEMMA EstimateIs ==
  ASSUME NEW e \in Entry, ~Refuses(e), NEW tokens \in Nat, NEW max \in Nat
  PROVE  LET p == Parsed(e)
             long == IsLongContext(p, tokens)
             held_ == EstimateWorstCase(p, tokens, max)
         IN /\ held_ \in [Buckets -> Nat]
            /\ \E n \in Nat :
                 /\ n >= CostOf(tokens, Rate(p.input, p.inMult, long))
                           + CostOf(max, Rate(p.output, p.outMult, long))
                 /\ Total(held_) = AtLeast(n, p.min)
<1>. DEFINE p == Parsed(e)
            long == IsLongContext(p, tokens)
            in == CostOf(tokens, Rate(p.input, p.inMult, long))
            out == CostOf(max, Rate(p.output, p.outMult, long))
            c == [Zero EXCEPT !.input = in, !.output = out]
            d == Padded(c, p)
<1>1. /\ p.input \in Nat /\ p.output \in Nat /\ p.min \in Nat
      /\ p.inMult \in Nat /\ p.outMult \in Nat /\ p.hardCap \in BOOLEAN
  BY ParsedTypes DEF Rates
<1>2. long \in BOOLEAN
  BY DEF IsLongContext
<1>3. in \in Nat /\ out \in Nat
  <2>. HIDE DEF p, long
  <2>. QED
    BY <1>1, <1>2, RateIs, CostIs
<1>4. EstimateWorstCase(p, tokens, max) = ApplyMinimum(d, p.min)
  BY DEF EstimateWorstCase
<1>. HIDE DEF p, long, in, out
<1>5. /\ c \in [Buckets -> Nat] /\ c.input = in /\ c.output = out
      /\ c.cached = 0 /\ c.tool = 0 /\ Total(c) = in + out
  <2>1. Zero \in [Buckets -> Nat] /\ Zero.cached = 0 /\ Zero.tool = 0
    BY DEF Zero, Buckets
  <2>2. c \in [Buckets -> Nat]
    BY <1>3, <2>1
  <2>3. c.input = in /\ c.output = out /\ c.cached = 0 /\ c.tool = 0
    BY <2>1 DEF Buckets
  <2>. HIDE DEF c
  <2>. QED
    BY <1>3, <2>2, <2>3 DEF Total
<1>. HIDE DEF c
<1>6. d \in [Buckets -> Nat] /\ Total(d) \in Nat /\ Total(d) >= in + out
  <2>1. CASE p.hardCap
    BY <1>3, <1>5, <2>1 DEF Padded
  <2>2. CASE ~p.hardCap
    <3>. DEFINE margin == CeilDiv(Total(c) * (BasisPoints + SafetyBps), BasisPoints) - Total(c)
    <3>1. Total(c) \in Nat
      BY <1>3, <1>5
    <3>2. Total(c) * (BasisPoints + SafetyBps) \in Nat
      BY <3>1, Products, Parameters
    <3>3. /\ CeilDiv(Total(c) * (BasisPoints + SafetyBps), BasisPoints) \in Nat
          /\ CeilDiv(Total(c) * (BasisPoints + SafetyBps), BasisPoints) >= Total(c)
      BY <3>1, <3>2, CeilOfNat, CeilOfMore, Parameters
    <3>4. margin \in Nat
      BY <3>1, <3>3
    <3>5. d = [c EXCEPT !.output = @ + margin]
      BY <2>2 DEF Padded
    <3>. HIDE DEF margin, d
    <3>6. d \in [Buckets -> Nat] /\ Total(d) = in + out + margin
      BY <1>3, <1>5, <3>4, <3>5 DEF Buckets, Total
    <3>. QED
      BY <1>3, <3>4, <3>6
  <2>. QED
    BY <1>1, <2>1, <2>2
<1>. HIDE DEF d
<1>7. /\ ApplyMinimum(d, p.min) \in [Buckets -> Nat]
      /\ Total(ApplyMinimum(d, p.min)) = AtLeast(Total(d), p.min)
  BY <1>1, <1>6, MinimumIs DEF AtLeast
<1>. QED
  BY <1>4, <1>6, <1>7 DEF p, long, in, out

\* What a bill comes to: its tokens at their rates.
LEMMA BillIs ==
  ASSUME NEW e \in Entry, ~Refuses(e), NEW u,
         u.uncached \in Nat, u.cached \in Nat, u.output \in Nat, u.written \in Nat
  PROVE  LET p == Parsed(e)
             long == IsLongContext(p, u.uncached + u.cached)
             bill_ == PriceActual(p, u)
         IN /\ bill_ \in [Buckets -> Nat]
            /\ Total(bill_) = AtLeast(CostOf(u.uncached, Rate(p.input, p.inMult, long))
                                        + CostOf(u.cached, p.cached)
                                        + CostOf(u.output, Rate(p.output, p.outMult, long))
                                        + CostOf(u.written, p.write), p.min)
<1>. DEFINE p == Parsed(e)
            long == IsLongContext(p, u.uncached + u.cached)
            in == CostOf(u.uncached, Rate(p.input, p.inMult, long))
            cached == CostOf(u.cached, p.cached)
            out == CostOf(u.output, Rate(p.output, p.outMult, long))
            tool == CostOf(u.written, p.write)
            c == [input |-> in, cached |-> cached, output |-> out, tool |-> tool]
<1>1. /\ p.input \in Nat /\ p.cached \in Nat /\ p.write \in Nat /\ p.output \in Nat
      /\ p.min \in Nat /\ p.inMult \in Nat /\ p.outMult \in Nat
  BY ParsedTypes DEF Rates
<1>2. long \in BOOLEAN
  BY DEF IsLongContext
<1>3. in \in Nat /\ cached \in Nat /\ out \in Nat /\ tool \in Nat
  <2>. HIDE DEF p, long
  <2>. QED
    BY <1>1, <1>2, RateIs, CostIs
<1>4. PriceActual(p, u) = ApplyMinimum(c, p.min)
  BY DEF PriceActual
<1>. HIDE DEF p, long, in, cached, out, tool
<1>5. c \in [Buckets -> Nat] /\ Total(c) = in + cached + out + tool
  BY <1>3 DEF Buckets, Total
<1>. HIDE DEF c
<1>6. /\ ApplyMinimum(c, p.min) \in [Buckets -> Nat]
      /\ Total(ApplyMinimum(c, p.min)) = AtLeast(Total(c), p.min)
  BY <1>1, <1>5, MinimumIs DEF AtLeast
<1>. QED
  BY <1>4, <1>5, <1>6 DEF p, long, in, cached, out, tool

\* The adapters' conventions: of what the provider processed, each token ends up in
\* one bucket.
LEMMA UsageIs ==
  ASSUME TypeOK, Processed, entry \in Entry
  PROVE  Normalized(Usage(entry, work)) =
           [uncached |-> work.fresh, cached |-> work.read,
            output |-> work.visible + work.thought, written |-> work.written]
<1>1. /\ work.fresh \in Nat /\ work.read \in Nat /\ work.written \in Nat
      /\ work.visible \in Nat /\ work.thought \in Nat
  BY DEF TypeOK
<1>2. CASE entry.provider = "openai"
  <2>1. work.written = 0
    BY <1>2 DEF Processed, ReportsWrites
  <2>2. Usage(entry, work) = FromOpenAI(OpenAIWire(work))
    BY <1>2 DEF Usage
  <2>. QED
    BY <1>1, <2>1, <2>2 DEF FromOpenAI, OpenAIWire, Normalized
<1>3. CASE entry.provider = "anthropic"
  <2>1. Usage(entry, work) = FromAnthropic(AnthropicWire(work))
    BY <1>3 DEF Usage
  <2>. QED
    BY <1>1, <2>1 DEF FromAnthropic, AnthropicWire, Normalized
<1>4. CASE entry.provider = "bedrock"
  <2>1. Usage(entry, work) = FromBedrock(BedrockWire(work))
    BY <1>4 DEF Usage
  <2>. QED
    BY <1>1, <2>1 DEF FromBedrock, BedrockWire, Normalized
<1>5. CASE entry.provider = "gemini"
  <2>1. work.written = 0
    BY <1>5 DEF Processed, ReportsWrites
  <2>2. Usage(entry, work) = FromGemini(GeminiWire(work))
    BY <1>5 DEF Usage
  <2>3. (IF work.read < work.fresh + work.read THEN work.read
         ELSE work.fresh + work.read) = work.read
    BY <1>1
  <2>. QED
    BY <1>1, <2>1, <2>2, <2>3 DEF FromGemini, GeminiWire, Normalized
<1>. QED
  BY <1>2, <1>3, <1>4, <1>5 DEF Entry

\* A margin makes a count no smaller.
LEMMA MarginAdds ==
  ASSUME NEW n \in Nat, NEW percent \in Nat
  PROVE  WithMargin(n, percent) \in Nat /\ WithMargin(n, percent) >= n
<1>1. n * (100 + percent) \in Nat
  BY Products
<1>2. 100 \in Nat /\ 100 > 0
  OBVIOUS
<1>3. CeilDiv(n * (100 + percent), 100) \in Nat
  BY <1>1, <1>2, CeilOfNat
<1>4. CeilDiv(n * (100 + percent), 100) >= n
  BY <1>2, CeilOfMore, Zenon
<1>. QED
  BY <1>3, <1>4 DEF WithMargin

\* A provider that is shown the whole prompt counts no fewer tokens than it meters.
LEMMA ProviderCounts ==
  ASSUME NEW e \in Entry, NEW tokens \in Nat, NEW tools \in 0 .. tokens
  PROVE  LET c == CountByProvider(e, tokens, tools)
         IN c \in Count /\ (c.shown = tokens => c.tokens >= tokens)
<1>1. tokens - tools \in Nat
  OBVIOUS
<1>2. WithMargin(tokens, 3) \in Nat /\ WithMargin(tokens, 3) >= tokens
  BY MarginAdds
<1>. QED
  BY <1>1, <1>2 DEF CountByProvider, Count

\* What the gateway counts is a count, of any size.
LEMMA GatewayCounts ==
  ASSUME NEW e \in Entry, NEW n \in Nat
  PROVE  CountByGateway(e, n) \in Count /\ CountByGateway(e, n).by # "provider"
<1>1. WithMargin(n, 5) \in Nat /\ WithMargin(n, 3) \in Nat
  BY MarginAdds
<1>. QED
  BY <1>1 DEF CountByGateway, Count

-----------------------------------------------------------------------------
(* The inductive invariant *)

\* The hold of a priced request is a breakdown.
LEMMA HeldIsTyped ==
  ASSUME NEW e \in Entries, ~Refuses(e), NEW tokens \in Nat, NEW max \in 1 .. MaxCeiling
  PROVE  EstimateWorstCase(Parsed(e), tokens, max) \in [Buckets -> Nat]
<1>1. e \in Entry /\ max \in Nat
  BY Parameters
<1>. QED
  BY <1>1, EstimateIs

\* And its bill, for what was done.
LEMMA BillIsTyped ==
  ASSUME TypeOK, Processed, ~Refuses(entry)
  PROVE  PriceActual(Parsed(entry), Normalized(Usage(entry, work))) \in [Buckets -> Nat]
<1>. DEFINE u == [uncached |-> work.fresh, cached |-> work.read,
                  output |-> work.visible + work.thought, written |-> work.written]
<1>1. entry \in Entry
  BY Parameters DEF TypeOK
<1>2. Normalized(Usage(entry, work)) = u
  BY <1>1, UsageIs
<1>3. u.uncached \in Nat /\ u.cached \in Nat /\ u.output \in Nat /\ u.written \in Nat
  BY DEF TypeOK
<1>. HIDE DEF u
<1>4. PriceActual(Parsed(entry), u) \in [Buckets -> Nat]
  BY <1>1, <1>3, BillIs
<1>. QED
  BY <1>2, <1>4

\* A request starts priced at nothing.
LEMMA PricedInit == Init => Priced
<1>. SUFFICES ASSUME Init PROVE Priced
  OBVIOUS
<1>1. Zero \in [Buckets -> Nat]
  BY DEF Zero
<1>2. NoWork \in [{"fresh", "read", "written", "visible", "thought"} -> Nat]
  BY DEF NoWork
<1>3. prompt \in 0 .. MaxPrompt /\ ceiling \in 0 .. MaxCeiling
  BY Parameters DEF Init
<1>4. NoCount \in Count
  BY DEF NoCount, Count
<1>. QED
  BY <1>1, <1>2, <1>3, <1>4 DEF Init, Priced, TypeOK

\* Every step keeps it priced.
LEMMA PricedStep == Priced /\ [Next]_vars => Priced'
<1>. SUFFICES ASSUME Priced, [Next]_vars PROVE Priced'
  OBVIOUS
<1>. USE DEF Priced
<1>1. CASE LoadCatalog
  BY <1>1 DEF LoadCatalog, TypeOK
<1>2. CASE Estimate
  <2>1. /\ prompt' \in 1 .. MaxPrompt /\ ceiling' \in 1 .. MaxCeiling
        /\ entry' = entry /\ entry \in Entries /\ ~Refuses(entry)
        /\ held' = EstimateWorstCase(Parsed(entry), count'.tokens, ceiling')
        /\ phase' = "held"
    BY <1>2 DEF Estimate, TypeOK
  <2>2. entry \in Entry /\ prompt' \in Nat
    BY <2>1, Parameters
  <2>3. /\ count' \in Count
        /\ count'.by = "provider" /\ count'.shown = prompt' => count'.tokens >= prompt'
    <3>1. CASE \E tools \in 0 .. prompt' : count' = CountByProvider(entry, prompt', tools)
      <4>1. PICK tools \in 0 .. prompt' : count' = CountByProvider(entry, prompt', tools)
        BY <3>1
      <4>. QED
        BY <2>2, <4>1, ProviderCounts
    <3>2. CASE \E n \in 0 .. MaxPrompt : count' = CountByGateway(entry, n)
      <4>1. PICK n \in 0 .. MaxPrompt : count' = CountByGateway(entry, n)
        BY <3>2
      <4>2. n \in Nat
        BY Parameters
      <4>. QED
        BY <2>2, <4>1, <4>2, GatewayCounts
    <3>. QED
      BY <1>2, <3>1, <3>2 DEF Estimate
  <2>4. held' \in [Buckets -> Nat]
    <3>1. count'.tokens \in Nat
      BY <2>3 DEF Count
    <3>. QED
      BY <2>1, <3>1, HeldIsTyped
  <2>5. TypeOK'
    BY <1>2, <2>1, <2>3, <2>4 DEF Estimate, TypeOK
  <2>. QED
    BY <2>1, <2>3, <2>5
<1>3. CASE Answer
  <2>1. PICK read \in 0 .. prompt, visible \in 0 .. ceiling, thought \in 0 .. MaxThoughts :
        \E written \in 0 .. (IF ReportsWrites(entry) THEN prompt - read ELSE 0) :
          work' = [fresh |-> prompt - read - written, read |-> read,
                   written |-> written, visible |-> visible, thought |-> thought]
    BY <1>3 DEF Answer
  <2>2. PICK written \in 0 .. (IF ReportsWrites(entry) THEN prompt - read ELSE 0) :
          work' = [fresh |-> prompt - read - written, read |-> read,
                   written |-> written, visible |-> visible, thought |-> thought]
    BY <2>1
  <2>3. /\ phase = "held" /\ phase' = "answered"
        /\ entry' = entry /\ prompt' = prompt /\ ceiling' = ceiling /\ count' = count
        /\ held' = held /\ bill' = bill
    BY <1>3 DEF Answer
  <2>4. /\ read \in Nat /\ read <= prompt /\ visible \in Nat /\ visible <= ceiling
        /\ thought \in Nat /\ thought <= MaxThoughts
        /\ prompt \in Nat /\ ceiling \in Nat
    BY Parameters DEF TypeOK
  <2>5. /\ written \in Nat /\ prompt - read - written \in Nat
        /\ written = 0 \/ ReportsWrites(entry)
    BY <2>2, <2>4
  <2>6. work' \in [{"fresh", "read", "written", "visible", "thought"} -> Nat]
    BY <2>2, <2>4, <2>5
  <2>7. Processed'
    BY <2>2, <2>3, <2>4, <2>5 DEF Processed, ReportsWrites
  <2>8. TypeOK'
    BY <2>3, <2>6 DEF TypeOK
  <2>. QED
    BY <2>3, <2>7, <2>8
<1>4. CASE Bill
  <2>1. /\ phase' = "billed" /\ Processed /\ ~Refuses(entry) /\ TypeOK
        /\ UNCHANGED <<entry, prompt, ceiling, count, held, work>>
        /\ bill' = PriceActual(Parsed(entry), Normalized(Usage(entry, work)))
        /\ held = EstimateWorstCase(Parsed(entry), count.tokens, ceiling)
        /\ count.by = "provider" /\ count.shown = prompt => count.tokens >= prompt
    BY <1>4 DEF Bill
  <2>2. bill' \in [Buckets -> Nat]
    BY <2>1, BillIsTyped
  <2>3. TypeOK' /\ Processed'
    BY <2>1, <2>2 DEF TypeOK, Processed
  <2>. QED
    BY <2>1, <2>3
<1>5. CASE UNCHANGED vars
  BY <1>5 DEF vars, TypeOK, Processed
<1>. QED
  BY <1>1, <1>2, <1>3, <1>4, <1>5 DEF Next

\* At any time a request that got anywhere has an entry the file may state, its hold
\* is the estimate of what was asked, its bill the price of what was done.
THEOREM PricedHolds == Spec => []Priced
BY PricedInit, PricedStep, PTL DEF Spec

-----------------------------------------------------------------------------
(* The tokens of a bill *)

\* Every token the provider processed is billed once, in the bucket of its rate,
\* whichever adapter's convention reported it.
THEOREM TokensOnce == Spec => []EveryTokenOnce
<1>1. Priced => EveryTokenOnce
  <2>. SUFFICES ASSUME Priced, phase = "billed"
       PROVE  Normalized(Usage(entry, work)) =
                [uncached |-> work.fresh, cached |-> work.read,
                 output |-> work.visible + work.thought, written |-> work.written]
    BY DEF EveryTokenOnce
  <2>1. TypeOK /\ Processed /\ entry \in Entry
    BY Parameters DEF Priced, TypeOK
  <2>. QED
    BY <2>1, UsageIs
<1>. QED
  BY <1>1, PricedHolds, PTL

-----------------------------------------------------------------------------
(* A hold covers its bill *)

\* The counted prompt, all at the input rate, costs no less than the metered one with
\* a part of it at a cached rate of a whole number of nano-USD a token.
LEMMA InputCovered ==
  ASSUME NEW fresh \in Nat, NEW read \in Nat, NEW counted \in Nat, fresh + read <= counted,
         NEW r \in Nat, NEW s \in Nat, r <= s, NEW k \in Nat, PerRate * k <= s
  PROVE  CostOf(fresh, r) + CostOf(read, PerRate * k) <= CostOf(counted, s)
<1>. DEFINE c == PerRate * k
            n == read * k
<1>1. c \in Nat /\ n \in Nat /\ fresh * r \in Nat /\ counted * s \in Nat /\ read * c \in Nat
  BY Parameters, Products
<1>2. read * c = PerRate * n
  BY Parameters
<1>3. CostOf(read, c) = n
  <2>1. CostOf(read, c) = CeilDiv(read * c, PerRate)
    BY <1>1, CostIs
  <2>2. CeilDiv(0 + PerRate * n, PerRate) = CeilDiv(0, PerRate) + n
    BY <1>1, CeilShifts, Parameters
  <2>3. CeilDiv(0, PerRate) = 0
    BY CeilOfNat, Parameters
  <2>4. 0 + PerRate * n = read * c
    BY <1>1, <1>2
  <2>. QED
    BY <1>1, <2>1, <2>2, <2>3, <2>4
<1>4. CostOf(fresh, r) + n = CeilDiv(fresh * r + read * c, PerRate)
  <2>1. CostOf(fresh, r) = CeilDiv(fresh * r, PerRate)
    BY CostIs
  <2>2. CeilDiv(fresh * r + PerRate * n, PerRate) = CeilDiv(fresh * r, PerRate) + n
    BY <1>1, CeilShifts, Parameters
  <2>. QED
    BY <1>2, <2>1, <2>2
<1>5. fresh * r + read * c <= counted * s
  <2>1. fresh * r <= fresh * s
    BY ProductsGrow
  <2>2. read * c <= read * s
    <3>. HIDE DEF c
    <3>1. c \in Nat /\ c <= s
      BY <1>1 DEF c
    <3>. QED
      BY <3>1, ProductsGrow
  <2>3. (fresh + read) * s <= counted * s
    BY ProductsGrow
  <2>4. fresh * s + read * s = (fresh + read) * s
    OBVIOUS
  <2>. QED
    BY <1>1, <2>1, <2>2, <2>3, <2>4, Products
<1>. HIDE DEF c, n
<1>6. CeilDiv(fresh * r + read * c, PerRate) <= CeilDiv(counted * s, PerRate)
  BY <1>1, <1>5, CeilGrows, Parameters
<1>7. CostOf(counted, s) = CeilDiv(counted * s, PerRate)
  BY CostIs
<1>. QED
  BY <1>3, <1>4, <1>6, <1>7 DEF c

\* What an ordinary entry is parsed to.
LEMMA OrdinaryIs ==
  ASSUME NEW e \in Entry, ~Refuses(e), Ordinary(e)
  PROVE  /\ Parsed(e).cached <= Parsed(e).input
         /\ \E k \in Nat : Parsed(e).cached = PerRate * k
<1>. DEFINE c == Parsed(e).cached
            i == Parsed(e).input
<1>1. c \in Nat /\ i \in Nat /\ e.cached = Fine * c /\ e.input = Fine * i
  BY ParsedTypes DEF Rates
<1>2. Fine * c <= Fine * i /\ (Fine * c) % (Fine * PerRate) = 0
  BY <1>1 DEF Ordinary
<1>. HIDE DEF c, i
<1>3. c <= i
  <2>1. ASSUME c > i PROVE FALSE
    <3>1. c - i \in Nat /\ c - i > 0 /\ Fine * (c - i) = Fine * c - Fine * i
      BY <1>1, <2>1, Parameters
    <3>2. Fine * (c - i) > 0
      BY <3>1, Parameters
    <3>. QED
      BY <1>1, <1>2, <3>1, <3>2, Parameters
  <2>. QED
    BY <1>1, <2>1
<1>4. PICK k \in Int : Fine * c = (Fine * PerRate) * k
  <2>1. Fine * c \in Nat /\ Fine * PerRate \in Nat /\ Fine * PerRate > 0
    BY <1>1, Products, Parameters
  <2>2. ASSUME NEW a \in Nat, NEW b \in Nat, b > 0, a % b = 0
        PROVE  \E q \in Int : a = b * q
    <3>1. a \div b \in Int /\ a = b * (a \div b) + (a % b)
      BY <2>2
    <3>. QED
      BY <2>2, <3>1
  <2>. QED
    BY <1>2, <2>1, <2>2
<1>5. c = PerRate * k
  <2>1. Fine * (c - PerRate * k) = 0 /\ c - PerRate * k \in Int
    BY <1>1, <1>4, Parameters
  <2>2. ASSUME NEW x \in Int, Fine * x = 0 PROVE x = 0
    BY <2>2, Parameters
  <2>3. c - PerRate * k = 0
    BY <2>1, <2>2
  <2>. QED
    BY <1>1, <2>3, Parameters
<1>6. k \in Nat
  <2>1. ASSUME k < 0 PROVE FALSE
    <3>1. -k \in Nat /\ -k > 0 /\ PerRate * (-k) = -c
      BY <1>1, <1>5, <2>1, Parameters
    <3>2. PerRate * (-k) > 0
      BY <3>1, Parameters
    <3>. QED
      BY <1>1, <3>1, <3>2
  <2>. QED
    BY <1>4, <2>1
<1>. QED
  BY <1>3, <1>5, <1>6 DEF c, i

\* The hold covers the bill of an answer within the ceiling, if the count covers the
\* meter.
LEMMA PricedCovers ==
  ASSUME Priced, Ordinary(entry), phase = "billed", WithinRequest, count.tokens >= prompt
  PROVE  Total(bill) <= Total(held)
<1>. DEFINE p == Parsed(entry)
            u == [uncached |-> work.fresh, cached |-> work.read,
                  output |-> work.visible + work.thought, written |-> work.written]
            tokens == count.tokens
            short == IsLongContext(p, work.fresh + work.read)
            long == IsLongContext(p, tokens)
            rin == Rate(p.input, p.inMult, long)
            rout == Rate(p.output, p.outMult, long)
            sin == Rate(p.input, p.inMult, short)
            sout == Rate(p.output, p.outMult, short)
<1>1. /\ TypeOK /\ Processed /\ ~Refuses(entry) /\ entry \in Entry
      /\ work.written = 0 /\ work.visible + work.thought <= ceiling
  BY Parameters DEF Priced, TypeOK, WithinRequest
<1>2. /\ work.fresh \in Nat /\ work.read \in Nat /\ work.visible \in Nat
      /\ work.thought \in Nat /\ work.written \in Nat /\ prompt \in Nat /\ ceiling \in Nat
  BY <1>1, Parameters DEF TypeOK
<1>3. /\ held = EstimateWorstCase(p, tokens, ceiling)
      /\ bill = PriceActual(p, u)
  BY <1>1, UsageIs DEF Priced
<1>4. /\ p.input \in Nat /\ p.output \in Nat /\ p.cached \in Nat /\ p.min \in Nat
      /\ p.write \in Nat /\ p.inMult \in Nat /\ p.outMult \in Nat
      /\ p.threshold \in SUBSET Int
      /\ p.inMult >= BasisPoints /\ p.outMult >= BasisPoints
  BY <1>1, ParsedTypes DEF Rates, Ordinary
<1>5. PICK k \in Nat : p.cached = PerRate * k /\ p.cached <= p.input
  BY <1>1, OrdinaryIs
<1>6. tokens \in Nat /\ work.fresh + work.read <= tokens
  <2>1. tokens \in Nat /\ tokens >= prompt
    BY <1>1 DEF TypeOK, Count
  <2>. HIDE DEF tokens
  <2>. QED
    BY <1>1, <1>2, <2>1 DEF Processed
<1>7. /\ u.uncached = work.fresh /\ u.cached = work.read
      /\ u.output = work.visible + work.thought /\ u.written = 0
  BY <1>1
<1>8. PICK n \in Nat :
        /\ n >= CostOf(tokens, rin) + CostOf(ceiling, rout)
        /\ Total(held) = AtLeast(n, p.min)
  <2>1. p = Parsed(entry) /\ tokens \in Nat /\ ceiling \in Nat
    BY <1>2, <1>6
  <2>. HIDE DEF tokens
  <2>. QED
    BY <1>1, <1>3, <2>1, EstimateIs
<1>9. Total(bill) = AtLeast(CostOf(work.fresh, sin) + CostOf(work.read, p.cached)
                              + CostOf(work.visible + work.thought, sout)
                              + CostOf(0, p.write), p.min)
  <2>1. /\ u.uncached \in Nat /\ u.cached \in Nat /\ u.output \in Nat /\ u.written \in Nat
    BY <1>2, <1>7
  <2>. HIDE DEF u
  <2>2. Total(PriceActual(p, u)) =
          AtLeast(CostOf(u.uncached, Rate(p.input, p.inMult, IsLongContext(p, u.uncached + u.cached)))
                    + CostOf(u.cached, p.cached)
                    + CostOf(u.output, Rate(p.output, p.outMult, IsLongContext(p, u.uncached + u.cached)))
                    + CostOf(u.written, p.write), p.min)
    BY <1>1, <2>1, BillIs
  <2>. QED
    BY <1>3, <1>7, <2>2
<1>10. long \in BOOLEAN /\ short \in BOOLEAN /\ (short => long)
  <2>. HIDE DEF p, tokens
  <2>. QED
    BY <1>2, <1>4, <1>6 DEF IsLongContext
<1>. HIDE DEF p, u, tokens, short, long
<1>11. /\ rin \in Nat /\ rout \in Nat /\ sin \in Nat /\ sout \in Nat
  BY <1>4, <1>10, RateIs
<1>12. sin <= rin /\ p.input <= rin /\ sout <= rout
  BY <1>4, <1>10, RateGrows
<1>. HIDE DEF rin, rout, sin, sout
<1>13. CostOf(work.fresh, sin) + CostOf(work.read, p.cached) <= CostOf(tokens, rin)
  <2>1. PerRate * k <= rin
    BY <1>4, <1>5, <1>11, <1>12
  <2>2. CostOf(work.fresh, sin) + CostOf(work.read, PerRate * k) <= CostOf(tokens, rin)
    BY <1>2, <1>6, <1>11, <1>12, <2>1, InputCovered
  <2>. QED
    BY <1>5, <2>2
<1>14. CostOf(work.visible + work.thought, sout) <= CostOf(ceiling, rout)
  <2>1. work.visible + work.thought \in Nat
    BY <1>2
  <2>. QED
    BY <1>1, <1>2, <1>11, <1>12, <2>1, CostGrows
<1>15. CostOf(0, p.write) = 0
  BY DEF CostOf
<1>16. /\ CostOf(work.fresh, sin) \in Nat /\ CostOf(work.read, p.cached) \in Nat
       /\ CostOf(work.visible + work.thought, sout) \in Nat
       /\ CostOf(tokens, rin) \in Nat /\ CostOf(ceiling, rout) \in Nat
  <2>1. ASSUME NEW x \in Nat, NEW r \in Nat PROVE CostOf(x, r) \in Nat
    BY CostIs
  <2>2. work.visible + work.thought \in Nat
    BY <1>2
  <2>3. CostOf(work.fresh, sin) \in Nat /\ CostOf(work.read, p.cached) \in Nat
    BY <1>2, <1>4, <1>11, <2>1
  <2>4. CostOf(work.visible + work.thought, sout) \in Nat
    BY <1>11, <2>1, <2>2
  <2>5. CostOf(tokens, rin) \in Nat /\ CostOf(ceiling, rout) \in Nat
    BY <1>2, <1>6, <1>11, <2>1
  <2>. QED
    BY <2>3, <2>4, <2>5
<1>. QED
  BY <1>4, <1>8, <1>9, <1>13, <1>14, <1>15, <1>16 DEF AtLeast

\* With a catalogue of ordinary entries, whatever the provider served from its cache and
\* wherever the boundary of the long context falls between count and meter: an answer
\* within the ceiling, to a prompt counted at no fewer tokens than were metered, costs no
\* more than its hold.
THEOREM EstimateCovers ==
  ASSUME \A e \in Entries : Refuses(e) \/ Ordinary(e)
  PROVE  Spec => []EstimateCoversBill
<1>1. Priced => EstimateCoversBill
  <2>. SUFFICES ASSUME Priced, phase = "billed", WithinRequest, count.tokens >= prompt
       PROVE  Total(bill) <= Total(held)
    BY DEF EstimateCoversBill
  <2>1. Ordinary(entry)
    BY DEF Priced, TypeOK
  <2>. QED
    BY <2>1, PricedCovers
<1>. QED
  BY <1>1, PricedHolds, PTL

\* The count needs no condition where the provider was asked and shown the whole prompt:
\* by Anthropic's and Gemini's adapters always, by Bedrock's if there are no tools.
THEOREM WholeCountsCover ==
  ASSUME \A e \in Entries : Refuses(e) \/ Ordinary(e)
  PROVE  Spec => []WholeCountCovers
<1>1. Priced /\ EstimateCoversBill => WholeCountCovers
  BY DEF Priced, EstimateCoversBill, WholeCountCovers
<1>. QED
  BY <1>1, PricedHolds, EstimateCovers, PTL

-----------------------------------------------------------------------------
(* A bill agrees with its invoice *)

\* A bucket of a bill against its tokens at its price, nothing rounded.
LEMMA BucketBilled ==
  ASSUME NEW tokens \in Nat, NEW base \in Nat, NEW mult \in Nat, NEW long \in BOOLEAN
  PROVE  LET cost == CostOf(tokens, Rate(base, mult, long))
             exact == tokens * base * Factor(mult, long)
             unit == PerRate * BasisPoints
         IN /\ exact <= cost * unit
            /\ cost * unit <= exact + unit + BasisPoints * tokens
<1>. DEFINE r == Rate(base, mult, long)
            f == Factor(mult, long)
            cost == CostOf(tokens, r)
<1>1. f \in Nat
  BY Parameters DEF Factor
<1>2. /\ r \in Nat /\ base * f <= BasisPoints * r
      /\ BasisPoints * r <= base * f + BasisPoints
  <2>1. BasisPoints * r < base * f + BasisPoints /\ r \in Nat /\ base * f <= BasisPoints * r
    BY RateIs
  <2>. HIDE DEF r, f
  <2>. QED
    BY <1>1, <2>1, Parameters, Products
<1>. HIDE DEF r, f
<1>3. /\ cost \in Nat /\ tokens * r \in Nat /\ tokens * r <= PerRate * cost
      /\ PerRate * cost <= tokens * r + PerRate
  <2>1. cost = CeilDiv(tokens * r, PerRate) /\ cost \in Nat /\ tokens * r \in Nat
    BY <1>2, CostIs, Products
  <2>2. tokens * r <= PerRate * CeilDiv(tokens * r, PerRate)
        /\ PerRate * CeilDiv(tokens * r, PerRate) < tokens * r + PerRate
    BY <2>1, CeilSpec, Parameters
  <2>. HIDE DEF cost
  <2>. QED
    BY <2>1, <2>2, Parameters, Products
<1>. HIDE DEF cost
<1>4. /\ tokens * (base * f) <= tokens * (BasisPoints * r)
      /\ tokens * (BasisPoints * r) <= tokens * (base * f + BasisPoints)
  <2>1. /\ base * f \in Nat /\ BasisPoints * r \in Nat /\ base * f + BasisPoints \in Nat
    BY <1>1, <1>2, Parameters, Products
  <2>2. ASSUME NEW x \in Nat, NEW y \in Nat, x <= y PROVE tokens * x <= tokens * y
    BY <2>2
  <2>. QED
    BY <1>2, <2>1, <2>2
<1>5. /\ BasisPoints * (tokens * r) <= BasisPoints * (PerRate * cost)
      /\ BasisPoints * (PerRate * cost) <= BasisPoints * (tokens * r + PerRate)
  <2>1. PerRate * cost \in Nat /\ tokens * r + PerRate \in Nat
    BY <1>3, Parameters, Products
  <2>2. ASSUME NEW x \in Nat, NEW y \in Nat, x <= y PROVE BasisPoints * x <= BasisPoints * y
    BY <2>2, Parameters
  <2>. QED
    BY <1>3, <2>1, <2>2
<1>6. /\ BasisPoints * (tokens * r) = tokens * (BasisPoints * r)
      /\ BasisPoints * (PerRate * cost) = cost * (PerRate * BasisPoints)
      /\ BasisPoints * (tokens * r + PerRate) = BasisPoints * (tokens * r) + PerRate * BasisPoints
      /\ tokens * (base * f + BasisPoints) = tokens * (base * f) + BasisPoints * tokens
      /\ tokens * (base * f) = tokens * base * f
  BY <1>1, <1>2, <1>3, Parameters
<1>7. /\ tokens * base * f \in Nat /\ cost * (PerRate * BasisPoints) \in Nat
      /\ BasisPoints * (tokens * r) \in Nat /\ PerRate * BasisPoints \in Nat
      /\ BasisPoints * tokens \in Nat
  BY <1>1, <1>2, <1>3, Parameters, Products
<1>8. /\ tokens * base * f <= cost * (PerRate * BasisPoints)
      /\ cost * (PerRate * BasisPoints)
           <= tokens * base * f + PerRate * BasisPoints + BasisPoints * tokens
  BY <1>4, <1>5, <1>6, <1>7
<1>. QED
  BY <1>8 DEF r, f, cost

\* The same at the price the file states, in its own fine parts.
LEMMA BucketInvoiced ==
  ASSUME NEW tokens \in Nat, NEW base \in Nat, NEW mult \in Nat, NEW long \in BOOLEAN,
         NEW price \in Int, price = Fine * base
  PROVE  LET cost == CostOf(tokens, Rate(base, mult, long))
             exact == tokens * price * Factor(mult, long)
             unit == Fine * PerRate * BasisPoints
         IN /\ cost \in Nat /\ exact \in Nat
            /\ exact <= cost * unit
            /\ cost * unit <= exact + unit + Fine * BasisPoints * tokens
<1>. DEFINE r == Rate(base, mult, long)
            f == Factor(mult, long)
            cost == CostOf(tokens, r)
            exact == tokens * base * f
            unit == PerRate * BasisPoints
<1>1. f \in Nat
  BY Parameters DEF Factor
<1>2. cost \in Nat
  <2>1. r \in Nat
    BY RateIs
  <2>. HIDE DEF r
  <2>. QED
    BY <2>1, CostIs
<1>3. exact <= cost * unit /\ cost * unit <= exact + unit + BasisPoints * tokens
  BY BucketBilled
<1>. HIDE DEF r, f, cost
<1>4. exact \in Nat /\ unit \in Nat /\ BasisPoints * tokens \in Nat /\ cost * unit \in Nat
  BY <1>1, <1>2, Parameters, Products
<1>5. /\ tokens * price * f = Fine * exact
      /\ cost * (Fine * PerRate * BasisPoints) = Fine * (cost * unit)
      /\ Fine * PerRate * BasisPoints = Fine * unit
      /\ Fine * BasisPoints * tokens = Fine * (BasisPoints * tokens)
  BY <1>1, <1>2, Parameters
<1>. HIDE DEF exact, unit
<1>6. /\ Fine * exact <= Fine * (cost * unit)
      /\ Fine * (cost * unit) <= Fine * (exact + unit + BasisPoints * tokens)
  <2>1. ASSUME NEW x \in Nat, NEW y \in Nat, x <= y PROVE Fine * x <= Fine * y
    BY <2>1, Parameters
  <2>2. exact + unit + BasisPoints * tokens \in Nat
    BY <1>4
  <2>. QED
    BY <1>3, <1>4, <2>1, <2>2
<1>7. Fine * (exact + unit + BasisPoints * tokens)
        = Fine * exact + Fine * unit + Fine * (BasisPoints * tokens)
  BY <1>4, Parameters
<1>8. Fine * exact \in Nat
  BY <1>4, Parameters, Products
<1>9. /\ tokens * price * f <= cost * (Fine * PerRate * BasisPoints)
      /\ cost * (Fine * PerRate * BasisPoints)
           <= tokens * price * f + Fine * PerRate * BasisPoints + Fine * BasisPoints * tokens
      /\ tokens * price * f \in Nat
  BY <1>5, <1>6, <1>7, <1>8
<1>. QED
  BY <1>2, <1>9 DEF r, f, cost

\* The bill of a request against the invoice of its tokens.
LEMMA PricedMatches ==
  ASSUME Priced, phase = "billed"
  PROVE  LET unit == Fine * PerRate * BasisPoints
             rounding == 4 * unit + Fine * BasisPoints * (MaxPrompt + MaxCeiling + MaxThoughts)
         IN /\ Total(bill) * unit >= Invoice
            /\ Total(bill) * Fine >= entry.min
            /\ Total(bill) * Fine > entry.min => Total(bill) * unit <= Invoice + rounding
<1>. DEFINE p == Parsed(entry)
            u == [uncached |-> work.fresh, cached |-> work.read,
                  output |-> work.visible + work.thought, written |-> work.written]
            made == work.visible + work.thought
            long == IsLongContext(p, work.fresh + work.read)
            in == CostOf(work.fresh, Rate(p.input, p.inMult, long))
            cached == CostOf(work.read, Rate(p.cached, BasisPoints, FALSE))
            out == CostOf(made, Rate(p.output, p.outMult, long))
            tool == CostOf(work.written, Rate(p.write, BasisPoints, FALSE))
            xin == work.fresh * entry.input * Factor(p.inMult, long)
            xcached == work.read * entry.cached * Factor(BasisPoints, FALSE)
            xout == made * entry.output * Factor(p.outMult, long)
            xtool == work.written * entry.write * Factor(BasisPoints, FALSE)
            unit == Fine * PerRate * BasisPoints
            n == in + cached + out + tool
            part == Fine * BasisPoints
<1>1. TypeOK /\ Processed /\ ~Refuses(entry) /\ entry \in Entry
  BY Parameters DEF Priced, TypeOK
<1>2. /\ work.fresh \in Nat /\ work.read \in Nat /\ work.visible \in Nat
      /\ work.thought \in Nat /\ work.written \in Nat /\ made \in Nat
      /\ work.fresh + work.read + work.written <= MaxPrompt
      /\ made <= MaxCeiling + MaxThoughts
  BY <1>1, Parameters DEF TypeOK, Processed
<1>3. /\ p.input \in Nat /\ p.output \in Nat /\ p.cached \in Nat /\ p.min \in Nat
      /\ p.write \in Nat /\ p.inMult \in Nat /\ p.outMult \in Nat
      /\ entry.input = Fine * p.input /\ entry.cached = Fine * p.cached
      /\ entry.output = Fine * p.output /\ entry.write = Fine * p.write
      /\ entry.min = Fine * p.min
      /\ p.inMult = entry.inMult /\ p.outMult = entry.outMult
      /\ p.threshold = entry.threshold
  BY <1>1, ParsedTypes DEF Rates
<1>4. /\ entry.input \in Int /\ entry.cached \in Int /\ entry.output \in Int
      /\ entry.write \in Int /\ entry.min \in Int
  BY <1>1 DEF Entry
<1>5. long \in BOOLEAN
  BY DEF IsLongContext
<1>6. Total(bill) = AtLeast(n, p.min)
  <2>1. /\ u.uncached \in Nat /\ u.cached \in Nat /\ u.output \in Nat /\ u.written \in Nat
        /\ u.uncached = work.fresh /\ u.cached = work.read
        /\ u.output = made /\ u.written = work.written
    BY <1>2
  <2>2. bill = PriceActual(p, u)
    BY <1>1, UsageIs DEF Priced
  <2>3. /\ Rate(p.cached, BasisPoints, FALSE) = p.cached
        /\ Rate(p.write, BasisPoints, FALSE) = p.write
    BY DEF Rate
  <2>. HIDE DEF u
  <2>4. Total(PriceActual(p, u)) =
          AtLeast(CostOf(u.uncached, Rate(p.input, p.inMult, IsLongContext(p, u.uncached + u.cached)))
                    + CostOf(u.cached, p.cached)
                    + CostOf(u.output, Rate(p.output, p.outMult, IsLongContext(p, u.uncached + u.cached)))
                    + CostOf(u.written, p.write), p.min)
    BY <1>1, <2>1, BillIs
  <2>. QED
    BY <2>1, <2>2, <2>3, <2>4
<1>7. Invoice = xin + xcached + xout + xtool
  BY <1>3 DEF Invoice, Factor, IsLongContext
<1>. HIDE DEF p, u, made, long
<1>8. /\ in \in Nat /\ xin \in Nat /\ xin <= in * unit
      /\ in * unit <= xin + unit + part * work.fresh
  BY <1>2, <1>3, <1>4, <1>5, BucketInvoiced
<1>9. /\ cached \in Nat /\ xcached \in Nat /\ xcached <= cached * unit
      /\ cached * unit <= xcached + unit + part * work.read
  BY <1>2, <1>3, <1>4, Parameters, BucketInvoiced
<1>10. /\ out \in Nat /\ xout \in Nat /\ xout <= out * unit
       /\ out * unit <= xout + unit + part * made
  BY <1>2, <1>3, <1>4, <1>5, BucketInvoiced
<1>11. /\ tool \in Nat /\ xtool \in Nat /\ xtool <= tool * unit
       /\ tool * unit <= xtool + unit + part * work.written
  BY <1>2, <1>3, <1>4, Parameters, BucketInvoiced
<1>12. unit \in Nat /\ part \in Nat
  BY Parameters, Products
<1>. HIDE DEF in, cached, out, tool, xin, xcached, xout, xtool
<1>13. n \in Nat /\ unit = part * PerRate
  BY <1>8, <1>9, <1>10, <1>11, Parameters
<1>. HIDE DEF unit, part
<1>14. n * unit = in * unit + cached * unit + out * unit + tool * unit
  BY <1>8, <1>9, <1>10, <1>11, <1>12
<1>15. part * work.fresh + part * work.read + part * made + part * work.written
         <= part * (MaxPrompt + MaxCeiling + MaxThoughts)
  <2>. DEFINE used == work.fresh + work.read + made + work.written
  <2>1. used \in Nat /\ used <= MaxPrompt + MaxCeiling + MaxThoughts
    BY <1>2, Parameters
  <2>2. part * work.fresh + part * work.read + part * made + part * work.written = part * used
    BY <1>2, <1>12
  <2>. HIDE DEF used
  <2>3. part * used <= part * (MaxPrompt + MaxCeiling + MaxThoughts)
    BY <1>12, <2>1, Parameters, ProductsGrow
  <2>. QED
    BY <2>2, <2>3
<1>16. /\ Invoice <= n * unit
       /\ n * unit <= Invoice + 4 * unit + part * (MaxPrompt + MaxCeiling + MaxThoughts)
  <2>1. /\ in * unit \in Nat /\ cached * unit \in Nat /\ out * unit \in Nat
        /\ tool * unit \in Nat
        /\ part * work.fresh \in Nat /\ part * work.read \in Nat
        /\ part * made \in Nat /\ part * work.written \in Nat
        /\ part * (MaxPrompt + MaxCeiling + MaxThoughts) \in Nat
    BY <1>2, <1>8, <1>9, <1>10, <1>11, <1>12, Parameters, Products
  <2>. QED
    BY <1>7, <1>8, <1>9, <1>10, <1>11, <1>12, <1>14, <1>15, <2>1
<1>. HIDE DEF n
<1>. DEFINE total == Total(bill)
<1>17. total \in Nat /\ total >= n /\ total >= p.min /\ (total > p.min => total = n)
  BY <1>3, <1>6, <1>13 DEF AtLeast
<1>. HIDE DEF total
<1>18. n * unit <= total * unit /\ n * unit \in Nat /\ total * unit \in Nat
  BY <1>12, <1>13, <1>17, ProductsGrow, Products
<1>19. Invoice \in Nat
  BY <1>7, <1>8, <1>9, <1>10, <1>11
<1>20. total * unit >= Invoice
  BY <1>16, <1>18, <1>19
<1>21. total * Fine >= entry.min /\ (total * Fine > entry.min => total > p.min)
  <2>1. p.min * Fine <= total * Fine
    BY <1>3, <1>17, Parameters, ProductsGrow
  <2>2. p.min * Fine = entry.min /\ p.min * Fine \in Nat /\ total * Fine \in Nat
    BY <1>3, <1>17, Parameters, Products
  <2>3. total = p.min => total * Fine = entry.min
    BY <2>2
  <2>. QED
    BY <1>3, <1>17, <2>1, <2>2, <2>3
<1>22. total * Fine > entry.min =>
         total * unit <= Invoice + (4 * unit + part * (MaxPrompt + MaxCeiling + MaxThoughts))
  <2>1. part * (MaxPrompt + MaxCeiling + MaxThoughts) \in Nat
    BY <1>12, Parameters, Products
  <2>. QED
    BY <1>12, <1>16, <1>17, <1>19, <1>21, <2>1
<1>. QED
  BY <1>20, <1>21, <1>22 DEF unit, part, total

\* A bill is never below the provider's invoice at the prices the file states nor below
\* the minimum charge, and above both only by rounding.
THEOREM BillMatches == Spec => []BillMatchesInvoice
<1>1. Priced => BillMatchesInvoice
  BY PricedMatches DEF BillMatchesInvoice
<1>. QED
  BY <1>1, PricedHolds, PTL

-----------------------------------------------------------------------------
(* The calendar *)

\* The dates the calendar is asked about.
Date_ == Windows!YearStart(2023) .. (Windows!YearStart(2036) - 1)
Years == 2023 .. 2035

\* A year is an integer.
LEMMA YearsAreInts == \A y \in Years : y \in Int
BY DEF Years

\* A year has its days.
LEMMA YearsFollow ==
  ASSUME NEW y \in Int
  PROVE  /\ Windows!YearStart(y) \in Int
         /\ Windows!YearStart(y + 1) =
              Windows!YearStart(y) + 365 + (IF Windows!Leap(y) THEN 1 ELSE 0)
BY DEF Windows!YearStart, Windows!Leap

\* Years do not overlap.
LEMMA YearsGrow ==
  ASSUME NEW x \in Int, NEW y \in Int, x < y
  PROVE  Windows!YearStart(x + 1) <= Windows!YearStart(y)
BY DEF Windows!YearStart

\* A date is in its year, and in no other.
LEMMA YearIs ==
  ASSUME NEW d \in Date_
  PROVE  /\ Windows!YearOf(d) \in 2023 .. 2035
         /\ Windows!YearStart(Windows!YearOf(d)) <= d
         /\ d < Windows!YearStart(Windows!YearOf(d) + 1)
         /\ \A y \in 2023 .. 2035 :
              Windows!YearStart(y) <= d /\ d < Windows!YearStart(y + 1)
                => y = Windows!YearOf(d)
<1>. DEFINE In(y) == Windows!YearStart(y) <= d /\ d < Windows!YearStart(y + 1)
<1>1. d \in Int /\ Windows!YearStart(2023) <= d /\ d < Windows!YearStart(2036)
  BY YearsFollow DEF Date_
<1>2. \E y \in 2023 .. 2035 : In(y)
  <2>. SUFFICES ASSUME \A y \in 2023 .. 2035 : ~In(y) PROVE FALSE
    OBVIOUS
  <2>1. ASSUME NEW y \in 2023 .. 2035, Windows!YearStart(y) <= d
        PROVE  Windows!YearStart(y + 1) <= d
    BY <1>1, <2>1, YearsFollow
  <2>2. /\ Windows!YearStart(2023 + 1) <= d
    BY <1>1, <2>1
  <2>3. Windows!YearStart(2024 + 1) <= d
    BY <2>1, <2>2
  <2>4. Windows!YearStart(2025 + 1) <= d
    BY <2>1, <2>3
  <2>5. Windows!YearStart(2026 + 1) <= d
    BY <2>1, <2>4
  <2>6. Windows!YearStart(2027 + 1) <= d
    BY <2>1, <2>5
  <2>7. Windows!YearStart(2028 + 1) <= d
    BY <2>1, <2>6
  <2>8. Windows!YearStart(2029 + 1) <= d
    BY <2>1, <2>7
  <2>9. Windows!YearStart(2030 + 1) <= d
    BY <2>1, <2>8
  <2>10. Windows!YearStart(2031 + 1) <= d
    BY <2>1, <2>9
  <2>11. Windows!YearStart(2032 + 1) <= d
    BY <2>1, <2>10
  <2>12. Windows!YearStart(2033 + 1) <= d
    BY <2>1, <2>11
  <2>13. Windows!YearStart(2034 + 1) <= d
    BY <2>1, <2>12
  <2>14. Windows!YearStart(2035 + 1) <= d
    BY <2>1, <2>13
  <2>. QED
    BY <1>1, <2>14, YearsFollow
<1>3. ASSUME NEW x \in Int, NEW y \in Int, In(x), In(y) PROVE x = y
  <2>1. ~(x < y) /\ ~(y < x)
    BY <1>1, <1>3, YearsGrow, YearsFollow
  <2>. QED
    BY <2>1
<1>4. Windows!YearOf(d) = CHOOSE y \in 2023 .. 2035 : In(y)
  BY DEF Windows!YearOf
<1>5. Windows!YearOf(d) \in 2023 .. 2035 /\ In(Windows!YearOf(d))
  <2>. HIDE DEF In
  <2>. QED
    BY <1>2, <1>4
<1>. QED
  BY <1>3, <1>5

\* A month follows on the one before it; twelve are a year.
LEMMA MonthsFollow ==
  ASSUME NEW y \in Int
  PROVE  /\ \A m \in 1 .. 13 : Windows!MonthStart(y, m) \in Int
         /\ \A m \in 1 .. 12 : Windows!MonthStart(y, m) < Windows!MonthStart(y, m + 1)
         /\ Windows!MonthStart(y, 1) = Windows!YearStart(y)
         /\ Windows!MonthStart(y, 13) = Windows!YearStart(y + 1)
<1>. DEFINE start == Windows!YearStart(y)
            leap == IF Windows!Leap(y) THEN 1 ELSE 0
            S(m) == Windows!MonthStart(y, m)
<1>1. start \in Int /\ leap \in {0, 1} /\ Windows!YearStart(y + 1) = start + 365 + leap
  BY YearsFollow
<1>2. /\ S(1) = start /\ S(2) = start + 31
      /\ S(3) = start + 59 + leap /\ S(4) = start + 90 + leap
      /\ S(5) = start + 120 + leap /\ S(6) = start + 151 + leap
      /\ S(7) = start + 181 + leap /\ S(8) = start + 212 + leap
      /\ S(9) = start + 243 + leap /\ S(10) = start + 273 + leap
      /\ S(11) = start + 304 + leap /\ S(12) = start + 334 + leap
      /\ S(13) = start + 365 + leap
  BY <1>1 DEF Windows!MonthStart
<1>. HIDE DEF S, start, leap
<1>3. \A m \in 1 .. 13 : m \in {1, 2, 3, 4, 5, 6, 7, 8, 9, 10, 11, 12, 13}
  OBVIOUS
<1>4. \A m \in 1 .. 13 : S(m) \in Int
  BY <1>1, <1>2, <1>3
<1>5. \A m \in 1 .. 12 : S(m) < S(m + 1)
  <2>1. ASSUME NEW m \in 1 .. 12
        PROVE  \/ (m = 1 /\ m + 1 = 2) \/ (m = 2 /\ m + 1 = 3) \/ (m = 3 /\ m + 1 = 4)
               \/ (m = 4 /\ m + 1 = 5) \/ (m = 5 /\ m + 1 = 6) \/ (m = 6 /\ m + 1 = 7)
               \/ (m = 7 /\ m + 1 = 8) \/ (m = 8 /\ m + 1 = 9) \/ (m = 9 /\ m + 1 = 10)
               \/ (m = 10 /\ m + 1 = 11) \/ (m = 11 /\ m + 1 = 12) \/ (m = 12 /\ m + 1 = 13)
    OBVIOUS
  <2>. QED
    BY <1>1, <1>2, <2>1
<1>. QED
  BY <1>1, <1>2, <1>4, <1>5 DEF S, start

\* A month begins on a date.
LEMMA MonthsAreDates ==
  ASSUME NEW y \in Int, NEW n \in 1 .. 13
  PROVE  Windows!MonthStart(y, n) \in Int
BY MonthsFollow

\* Months lie in their year, in order.
LEMMA MonthsInYear ==
  ASSUME NEW y \in Int, NEW l \in 1 .. 13, NEW n \in 1 .. 13, l <= n
  PROVE  /\ Windows!MonthStart(y, l) <= Windows!MonthStart(y, n)
         /\ Windows!YearStart(y) <= Windows!MonthStart(y, l)
         /\ Windows!MonthStart(y, n) <= Windows!YearStart(y + 1)
<1>. DEFINE S(k) == Windows!MonthStart(y, k)
            P(k) == \A i \in 1 .. 13 : i <= k => S(i) <= S(k)
<1>1. /\ \A k \in 1 .. 13 : S(k) \in Int
      /\ \A k \in 1 .. 12 : S(k) < S(k + 1)
      /\ S(1) = Windows!YearStart(y) /\ S(13) = Windows!YearStart(y + 1)
  BY MonthsFollow
<1>. HIDE DEF S
<1>2. P(1)
  BY <1>1
<1>3. ASSUME NEW k \in 1 .. 12, P(k) PROVE P(k + 1)
  <2>. SUFFICES ASSUME NEW i \in 1 .. 13, i <= k + 1 PROVE S(i) <= S(k + 1)
    OBVIOUS
  <2>1. k + 1 \in 1 .. 13 /\ k \in 1 .. 13
    OBVIOUS
  <2>2. S(k) < S(k + 1) /\ S(k) \in Int /\ S(k + 1) \in Int /\ S(i) \in Int
    BY <1>1, <2>1
  <2>3. CASE i = k + 1
    BY <2>2, <2>3
  <2>4. CASE i <= k
    BY <1>3, <2>2, <2>4
  <2>. QED
    BY <2>3, <2>4
<1>. HIDE DEF P
<1>4. P(2)
  BY <1>2, <1>3
<1>5. P(3)
  BY <1>4, <1>3
<1>6. P(4)
  BY <1>5, <1>3
<1>7. P(5)
  BY <1>6, <1>3
<1>8. P(6)
  BY <1>7, <1>3
<1>9. P(7)
  BY <1>8, <1>3
<1>10. P(8)
  BY <1>9, <1>3
<1>11. P(9)
  BY <1>10, <1>3
<1>12. P(10)
  BY <1>11, <1>3
<1>13. P(11)
  BY <1>12, <1>3
<1>14. P(12)
  BY <1>13, <1>3
<1>15. P(13)
  BY <1>14, <1>3
<1>16. \A k \in 1 .. 13 : k \in {1, 2, 3, 4, 5, 6, 7, 8, 9, 10, 11, 12, 13}
  OBVIOUS
<1>17. \A k \in 1 .. 13 : P(k)
  BY <1>2, <1>4, <1>5, <1>6, <1>7, <1>8, <1>9, <1>10, <1>11, <1>12, <1>13, <1>14,
     <1>15, <1>16
<1>18. S(1) <= S(l) /\ S(l) <= S(n) /\ S(n) <= S(13)
  BY <1>17 DEF P
<1>. QED
  BY <1>1, <1>18 DEF S

\* A month lies in its year.
LEMMA MonthBounds ==
  ASSUME NEW y \in Int, NEW m \in 1 .. 12
  PROVE  /\ Windows!MonthStart(y, m) \in Int /\ Windows!MonthStart(y, m + 1) \in Int
         /\ Windows!YearStart(y) \in Int /\ Windows!YearStart(y + 1) \in Int
         /\ Windows!YearStart(y) <= Windows!MonthStart(y, m)
         /\ Windows!MonthStart(y, m + 1) <= Windows!YearStart(y + 1)
<1>1. y + 1 \in Int /\ m \in 1 .. 13 /\ m + 1 \in 1 .. 13 /\ m <= m + 1
  OBVIOUS
<1>2. Windows!YearStart(y) \in Int /\ Windows!YearStart(y + 1) \in Int
  BY <1>1, YearsFollow
<1>3. Windows!MonthStart(y, m) \in Int /\ Windows!MonthStart(y, m + 1) \in Int
  BY <1>1, MonthsAreDates
<1>4. /\ Windows!YearStart(y) <= Windows!MonthStart(y, m)
      /\ Windows!MonthStart(y, m + 1) <= Windows!YearStart(y + 1)
  BY <1>1, MonthsInYear
<1>. QED
  BY <1>2, <1>3, <1>4

\* A date is in its month, and in no other of its year.
LEMMA MonthIs ==
  ASSUME NEW d \in Date_
  PROVE  LET y == Windows!YearOf(d)
             m == Windows!MonthOf(d)
         IN /\ m \in 1 .. 12
            /\ Windows!MonthStart(y, m) <= d /\ d < Windows!MonthStart(y, m + 1)
            /\ \A n \in 1 .. 12 :
                 Windows!MonthStart(y, n) <= d /\ d < Windows!MonthStart(y, n + 1) => n = m
<1>. DEFINE y == Windows!YearOf(d)
            S(n) == Windows!MonthStart(y, n)
            In(n) == S(n) <= d /\ d < S(n + 1)
<1>1. /\ y \in Int /\ d \in Int
      /\ Windows!YearStart(y) <= d /\ d < Windows!YearStart(y + 1)
  BY YearIs, YearsFollow DEF Date_
<1>. HIDE DEF y
<1>2. /\ \A n \in 1 .. 13 : S(n) \in Int
      /\ \A n \in 1 .. 12 : S(n) < S(n + 1)
      /\ S(1) <= d /\ d < S(13)
  BY <1>1, MonthsFollow
<1>. HIDE DEF S
<1>3. \E n \in 1 .. 12 : In(n)
  <2>. SUFFICES ASSUME \A n \in 1 .. 12 : ~In(n) PROVE FALSE
    OBVIOUS
  <2>1. ASSUME NEW n \in 1 .. 12, S(n) <= d PROVE S(n + 1) <= d
    <3>1. n + 1 \in 1 .. 13
      OBVIOUS
    <3>. QED
      BY <1>1, <1>2, <2>1, <3>1
  <2>2. S(2) <= d
    BY <1>2, <2>1
  <2>3. S(3) <= d
    BY <2>1, <2>2
  <2>4. S(4) <= d
    BY <2>1, <2>3
  <2>5. S(5) <= d
    BY <2>1, <2>4
  <2>6. S(6) <= d
    BY <2>1, <2>5
  <2>7. S(7) <= d
    BY <2>1, <2>6
  <2>8. S(8) <= d
    BY <2>1, <2>7
  <2>9. S(9) <= d
    BY <2>1, <2>8
  <2>10. S(10) <= d
    BY <2>1, <2>9
  <2>11. S(11) <= d
    BY <2>1, <2>10
  <2>12. S(12) <= d
    BY <2>1, <2>11
  <2>13. S(13) <= d
    BY <2>1, <2>12
  <2>. QED
    BY <1>1, <1>2, <2>13
<1>4. ASSUME NEW l \in 1 .. 13, NEW n \in 1 .. 13, l <= n PROVE S(l) <= S(n)
  BY <1>1, <1>4, MonthsInYear DEF S
<1>5. ASSUME NEW l \in 1 .. 12, NEW n \in 1 .. 12, In(l), In(n) PROVE l = n
  <2>1. ASSUME NEW i \in 1 .. 12, NEW k \in 1 .. 12, In(i), In(k) PROVE ~(i < k)
    <3>. SUFFICES ASSUME i < k PROVE FALSE
      OBVIOUS
    <3>1. i + 1 \in 1 .. 13 /\ k \in 1 .. 13 /\ i + 1 <= k
      OBVIOUS
    <3>2. S(i + 1) <= S(k) /\ S(i + 1) \in Int /\ S(k) \in Int
      BY <1>2, <1>4, <3>1
    <3>. QED
      BY <1>1, <2>1, <3>2
  <2>2. ~(l < n) /\ ~(n < l)
    BY <1>5, <2>1
  <2>. QED
    BY <2>2
<1>6. Windows!MonthOf(d) = CHOOSE n \in 1 .. 12 : In(n)
  BY DEF Windows!MonthOf, y, S
<1>7. Windows!MonthOf(d) \in 1 .. 12 /\ In(Windows!MonthOf(d))
  <2>. HIDE DEF In
  <2>. QED
    BY <1>3, <1>6
<1>. QED
  BY <1>5, <1>7 DEF y, S
-----------------------------------------------------------------------------
(* Periods of dates *)

\* Dates that are in the calendar with the whole of their week.
Days == (Windows!YearStart(2023) + 6) .. (Windows!YearStart(2036) - 7)
Recurring == {"DAY", "WEEK", "MONTH"}

\* A week begins on the Monday of any of its dates.
LEMMA WeekIs ==
  ASSUME NEW d \in Days
  PROVE  /\ Windows!Monday(d) \in Int
         /\ Windows!Monday(d) <= d /\ d < Windows!Monday(d) + 7
         /\ Windows!FirstDay("WEEK", d) = Windows!Monday(d)
         /\ \A e \in Int : Windows!Monday(d) <= e /\ e < Windows!Monday(d) + 7
                             => Windows!Monday(e) = Windows!Monday(d)
<1>. DEFINE m == Windows!Monday(d)
            y == Windows!IsoYear(d)
            start == Windows!YearStart(y)
<1>1. /\ d \in Int /\ m \in Int /\ m % 7 = 0 /\ m <= d /\ d < m + 7
      /\ Windows!YearStart(2023) + 6 <= d /\ d <= Windows!YearStart(2036) - 7
  <2>1. d \in Int /\ Windows!YearStart(2023) \in Int /\ Windows!YearStart(2036) \in Int
        /\ Windows!YearStart(2023) + 6 <= d /\ d <= Windows!YearStart(2036) - 7
    BY YearsFollow DEF Days
  <2>. QED
    BY <2>1 DEF Windows!Monday
<1>2. ASSUME NEW e \in Int, m <= e, e < m + 7 PROVE Windows!Monday(e) = m
  <2>. HIDE DEF m
  <2>. QED
    BY <1>1, <1>2 DEF Windows!Monday
<1>3. start \in Int
  <2>1. m + 3 \in Date_
    <3>. HIDE DEF m
    <3>. QED
      BY <1>1, YearsFollow DEF Date_
  <2>2. y = Windows!YearOf(m + 3)
    BY DEF Windows!IsoYear
  <2>3. y \in Int
    BY <2>1, <2>2, YearIs
  <2>. QED
    BY <2>3, YearsFollow
<1>4. Windows!FirstDay("WEEK", d) = Windows!FromIso(y, Windows!IsoWeek(d))
  BY DEF Windows!FirstDay
<1>5. Windows!IsoWeek(d) = ((m + 3 - start) \div 7) + 1
  BY DEF Windows!IsoWeek
<1>6. Windows!FromIso(y, Windows!IsoWeek(d))
        = (start + 3) - ((start + 3) % 7) + 7 * (Windows!IsoWeek(d) - 1)
  BY DEF Windows!FromIso, Windows!Monday
<1>. HIDE DEF m, y, start
<1>7. (start + 3) - ((start + 3) % 7) + 7 * ((((m + 3 - start) \div 7) + 1) - 1) = m
  BY <1>1, <1>3
<1>. QED
  BY <1>1, <1>2, <1>4, <1>5, <1>6, <1>7 DEF m

\* The period of a date, for any kind of budget but a session's.
First_(type, d) == Windows!FirstDay(type, d)
Past(type, d) == Windows!FirstDay(type, d) + Windows!Length(type, d)

\* A date is in its period; all dates of a period have it, under one identifier, and
\* dates with one identifier have one period.
LEMMA PeriodIs ==
  ASSUME NEW type \in Recurring, NEW d \in Days
  PROVE  /\ First_(type, d) \in Int /\ Past(type, d) \in Int
         /\ First_(type, d) <= d /\ d < Past(type, d)
         /\ \A e \in Days : First_(type, d) <= e /\ e < Past(type, d) =>
              /\ First_(type, e) = First_(type, d) /\ Past(type, e) = Past(type, d)
              /\ Windows!Id(type, e) = Windows!Id(type, d)
         /\ \A e \in Days : Windows!Id(type, e) = Windows!Id(type, d) =>
              First_(type, e) = First_(type, d) /\ Past(type, e) = Past(type, d)
<1>. \A e \in Days : e \in Int /\ e \in Date_
  BY YearsFollow DEF Days, Date_
<1>1. CASE type = "DAY"
  <2>1. \A e \in Days : /\ First_(type, e) = e /\ Past(type, e) = e + 1
                        /\ Windows!Id(type, e) = <<e>>
    BY <1>1 DEF First_, Past, Windows!FirstDay, Windows!Length, Windows!Id
  <2>. QED
    BY <2>1
<1>2. CASE type = "WEEK"
  <2>1. \A e \in Days :
          /\ First_(type, e) = Windows!Monday(e) /\ Past(type, e) = Windows!Monday(e) + 7
          /\ Windows!Monday(e) \in Int /\ Windows!Monday(e) <= e /\ e < Windows!Monday(e) + 7
    BY <1>2, WeekIs DEF First_, Past, Windows!Length
  <2>2. \A e \in Days :
          /\ Windows!Id(type, e) = <<Windows!IsoYear(e), Windows!IsoWeek(e)>>
          /\ First_(type, e) = Windows!FromIso(Windows!IsoYear(e), Windows!IsoWeek(e))
    BY <1>2 DEF Windows!Id, First_, Windows!FirstDay
  <2>3. ASSUME NEW e \in Days, First_(type, d) <= e, e < Past(type, d)
        PROVE  /\ First_(type, e) = First_(type, d) /\ Past(type, e) = Past(type, d)
               /\ Windows!Id(type, e) = Windows!Id(type, d)
    <3>1. Windows!Monday(e) = Windows!Monday(d)
      BY <2>1, <2>3, WeekIs
    <3>2. Windows!IsoYear(e) = Windows!IsoYear(d)
      BY <3>1 DEF Windows!IsoYear
    <3>3. Windows!IsoWeek(e) = Windows!IsoWeek(d)
      BY <3>1, <3>2 DEF Windows!IsoWeek
    <3>. QED
      BY <2>1, <2>2, <3>1, <3>2, <3>3
  <2>4. ASSUME NEW e \in Days, Windows!Id(type, e) = Windows!Id(type, d)
        PROVE  First_(type, e) = First_(type, d) /\ Past(type, e) = Past(type, d)
    <3>1. Windows!IsoYear(e) = Windows!IsoYear(d) /\ Windows!IsoWeek(e) = Windows!IsoWeek(d)
      BY <2>2, <2>4
    <3>. QED
      BY <2>1, <2>2, <3>1
  <2>. QED
    BY <2>1, <2>3, <2>4
<1>3. CASE type = "MONTH"
  <2>. DEFINE Y(e) == Windows!YearOf(e)
              M(e) == Windows!MonthOf(e)
              S(y, m) == Windows!MonthStart(y, m)
  <2>1. \A e \in Days : /\ First_(type, e) = S(Y(e), M(e))
                        /\ Past(type, e) = S(Y(e), M(e)) + (S(Y(e), M(e) + 1) - S(Y(e), M(e)))
                        /\ Windows!Id(type, e) = <<Y(e), M(e)>>
    BY <1>3 DEF First_, Past, Windows!FirstDay, Windows!Length, Windows!MonthRange, Windows!Id
  <2>2. \A e \in Days : /\ Y(e) \in Years /\ M(e) \in 1 .. 12
                        /\ S(Y(e), M(e)) <= e /\ e < S(Y(e), M(e) + 1)
    BY YearIs, MonthIs DEF Years
  <2>3. ASSUME NEW y \in Years, NEW m \in 1 .. 12
        PROVE  /\ S(y, m) \in Int /\ S(y, m + 1) \in Int
               /\ Windows!YearStart(y) \in Int /\ Windows!YearStart(y + 1) \in Int
               /\ Windows!YearStart(y) <= S(y, m) /\ S(y, m + 1) <= Windows!YearStart(y + 1)
    <3>1. /\ Windows!MonthStart(y, m) \in Int /\ Windows!MonthStart(y, m + 1) \in Int
          /\ Windows!YearStart(y) \in Int /\ Windows!YearStart(y + 1) \in Int
          /\ Windows!YearStart(y) <= Windows!MonthStart(y, m)
          /\ Windows!MonthStart(y, m + 1) <= Windows!YearStart(y + 1)
      <4>. HIDE DEF S
      <4>. QED
        BY YearsAreInts, MonthBounds
    <3>. QED
      BY <3>1
  <2>4. ASSUME NEW e \in Days, NEW y \in Years, NEW m \in 1 .. 12,
               S(y, m) <= e, e < S(y, m + 1)
        PROVE  Y(e) = y /\ M(e) = m
    <3>1. Windows!YearStart(y) <= e /\ e < Windows!YearStart(y + 1)
      <4>. HIDE DEF S
      <4>. QED
        BY <2>3, <2>4
    <3>2. Y(e) = y
      BY <3>1, YearIs DEF Years
    <3>. QED
      BY <2>4, <3>2, MonthIs
  <2>. HIDE DEF Y, M, S
  <2>5. \A e \in Days : /\ First_(type, e) = S(Y(e), M(e)) /\ Past(type, e) = S(Y(e), M(e) + 1)
                        /\ First_(type, e) \in Int /\ Past(type, e) \in Int
    BY <2>1, <2>2, <2>3
  <2>6. ASSUME NEW e \in Days, First_(type, d) <= e, e < Past(type, d)
        PROVE  Y(e) = Y(d) /\ M(e) = M(d)
    BY <2>2, <2>4, <2>5, <2>6
  <2>7. ASSUME NEW e \in Days, Windows!Id(type, e) = Windows!Id(type, d)
        PROVE  Y(e) = Y(d) /\ M(e) = M(d)
    BY <2>1, <2>7
  <2>. QED
    BY <2>1, <2>2, <2>5, <2>6, <2>7
<1>. QED
  BY <1>1, <1>2, <1>3 DEF Recurring

-----------------------------------------------------------------------------
(* Windows *)

\* Local midnight is the first instant that is not of an earlier date: also where the
\* clock skips it, shows it twice or goes back over it.
LEMMA MidnightIs ==
  ASSUME NEW z \in Zone, NEW t \in Int, NEW d \in Int
  PROVE  /\ Windows!LocalMidnight(d, z) \in Int
         /\ Windows!LocalDate(t, z) \in Int
         /\ t - 25 <= 24 * Windows!LocalDate(t, z) + 24
         /\ 24 * Windows!LocalDate(t, z) <= t + 25
         /\ Windows!LocalDate(t, z) >= d <=> Windows!LocalMidnight(d, z) <= t
<1>1. /\ z.std \in Int /\ -24 <= z.std /\ z.std <= 24
      /\ z.spring \in Int /\ z.fall \in Int
      /\ z.dst = z.std \/ z.dst = z.std + 1
  BY DEF Zone
<1>. DEFINE off == Windows!Offset(z, t)
            wall == Windows!WallOffset(z, 24 * d)
<1>2. /\ off \in Int /\ wall \in Int /\ -24 <= off /\ off <= 25
      /\ t + off >= 24 * d <=> t >= 24 * d - wall
  BY <1>1 DEF Windows!Offset, Windows!WallOffset
<1>3. /\ Windows!LocalDate(t, z) = (t + off) \div 24
      /\ Windows!LocalMidnight(d, z) = 24 * d - wall
  BY DEF Windows!LocalDate, Windows!LocalMidnight, Windows!Day
<1>. HIDE DEF off, wall
<1>4. ASSUME NEW x \in Int
      PROVE  /\ x \div 24 \in Int /\ (x \div 24 >= d <=> x >= 24 * d)
             /\ 24 * (x \div 24) <= x /\ x < 24 * (x \div 24) + 24
  OBVIOUS
<1>5. /\ (t + off) \div 24 \in Int /\ ((t + off) \div 24 >= d <=> t + off >= 24 * d)
      /\ 24 * ((t + off) \div 24) <= t + off /\ t + off < 24 * ((t + off) \div 24) + 24
  BY <1>2, <1>4
<1>. QED
  BY <1>2, <1>3, <1>5

\* Later dates begin later.
LEMMA MidnightsGrow ==
  ASSUME NEW z \in Zone, NEW d \in Int, NEW e \in Int, d <= e
  PROVE  Windows!LocalMidnight(d, z) <= Windows!LocalMidnight(e, z)
<1>. DEFINE t == Windows!LocalMidnight(e, z)
<1>1. t \in Int
  BY MidnightIs
<1>2. Windows!LocalDate(t, z) >= e /\ Windows!LocalDate(t, z) \in Int
  <2>1. t <= t
    BY <1>1
  <2>. HIDE DEF t
  <2>2. \A x \in Int : Windows!LocalDate(t, z) >= x <=> Windows!LocalMidnight(x, z) <= t
    BY <1>1, MidnightIs
  <2>3. Windows!LocalDate(t, z) \in Int
    BY <1>1, MidnightIs
  <2>. QED
    BY <2>1, <2>2, <2>3 DEF t
<1>. HIDE DEF t
<1>3. Windows!LocalDate(t, z) >= d
  BY <1>2
<1>4. Windows!LocalMidnight(d, z) <= t
  BY <1>1, <1>3, MidnightIs
<1>. QED
  BY <1>4 DEF t

\* Instants of the model: after the session was opened, before its end.
Instant == {t \in Nat : Opened <= t /\ t < 24 * Windows!YearStart(2035)}

\* The date of an instant is in the calendar, with its week.
LEMMA InstantsAreDays ==
  ASSUME NEW z \in Zone, NEW t \in Instant
  PROVE  Windows!LocalDate(t, z) \in Days
<1>. DEFINE d == Windows!LocalDate(t, z)
<1>1. /\ d \in Int /\ t \in Nat /\ t - 25 <= 24 * d + 24 /\ 24 * d <= t + 25
      /\ t < 24 * Windows!YearStart(2035)
  BY MidnightIs DEF Instant
<1>. HIDE DEF d
<1>2. /\ Windows!YearStart(2023) + 6 < -2
      /\ Windows!YearStart(2035) + 10 < Windows!YearStart(2036)
      /\ Windows!YearStart(2035) \in Int /\ Windows!YearStart(2023) \in Int
      /\ Windows!YearStart(2036) \in Int
  BY DEF Windows!YearStart
<1>3. Windows!YearStart(2023) + 6 <= d /\ d <= Windows!YearStart(2036) - 7
  BY <1>1, <1>2
<1>. QED
  BY <1>1, <1>2, <1>3 DEF d, Days

\* The window of an instant, for any kind of budget but a session's: the instants of
\* the dates of its period.
LEMMA WindowIs ==
  ASSUME NEW type \in Recurring, NEW z \in Zone, NEW t \in Instant
  PROVE  LET d == Windows!LocalDate(t, z)
             w == Windows!ForInstant(type, t, z)
         IN /\ w = [type |-> type, id |-> Windows!Id(type, d),
                    start |-> Windows!LocalMidnight(First_(type, d), z),
                    end |-> Windows!LocalMidnight(Past(type, d), z)]
            /\ d \in Days /\ First_(type, d) \in Int /\ Past(type, d) \in Int
            /\ w.start \in Int /\ w.end \in Int /\ w.start <= t /\ t < w.end
<1>. DEFINE d == Windows!LocalDate(t, z)
            w == Windows!ForInstant(type, t, z)
            start == Windows!LocalMidnight(First_(type, d), z)
            end == Windows!LocalMidnight(Past(type, d), z)
<1>1. w = [type |-> type, id |-> Windows!Id(type, d), start |-> start, end |-> end]
  BY DEF Windows!ForInstant, First_, Past, Recurring
<1>2. d \in Days /\ d \in Int /\ t \in Int
  BY InstantsAreDays, YearsFollow DEF Days, Instant
<1>3. /\ First_(type, d) \in Int /\ Past(type, d) \in Int
      /\ First_(type, d) <= d /\ d < Past(type, d)
  BY <1>2, PeriodIs
<1>4. start \in Int /\ end \in Int /\ start <= t /\ ~(end <= t)
  <2>1. \A e \in Int : /\ Windows!LocalMidnight(e, z) \in Int
                       /\ d >= e <=> Windows!LocalMidnight(e, z) <= t
    BY <1>2, MidnightIs
  <2>. HIDE DEF d
  <2>. QED
    BY <1>2, <1>3, <2>1
<1>. QED
  BY <1>1, <1>2, <1>3, <1>4

\* Two instants have one window, or windows of different keys, the one over before
\* the other begins.
LEMMA WindowsApart ==
  ASSUME NEW type \in Recurring, NEW z \in Zone, NEW s \in Instant, NEW t \in Instant,
         Windows!LocalDate(s, z) <= Windows!LocalDate(t, z)
  PROVE  LET v == Windows!ForInstant(type, s, z)
             w == Windows!ForInstant(type, t, z)
         IN \/ v = w
            \/ Windows!SortKey(v) # Windows!SortKey(w) /\ v.end <= w.start
<1>. DEFINE v == Windows!ForInstant(type, s, z)
            w == Windows!ForInstant(type, t, z)
            c == Windows!LocalDate(s, z)
            d == Windows!LocalDate(t, z)
            f(e) == First_(type, e)
            p(e) == Past(type, e)
            id(e) == Windows!Id(type, e)
<1>1. /\ v = [type |-> type, id |-> id(c), start |-> Windows!LocalMidnight(f(c), z),
              end |-> Windows!LocalMidnight(p(c), z)]
      /\ w = [type |-> type, id |-> id(d), start |-> Windows!LocalMidnight(f(d), z),
              end |-> Windows!LocalMidnight(p(d), z)]
      /\ c \in Days /\ d \in Days
      /\ w.start \in Int
  BY WindowIs
<1>2. c \in Int /\ d \in Int /\ c <= d
  BY <1>1, YearsFollow DEF Days
<1>3. \A e \in Days :
        /\ f(e) \in Int /\ p(e) \in Int /\ f(e) <= e /\ e < p(e)
        /\ \A x \in Days : f(e) <= x /\ x < p(e) =>
             f(x) = f(e) /\ p(x) = p(e) /\ id(x) = id(e)
        /\ \A x \in Days : id(x) = id(e) => f(x) = f(e) /\ p(x) = p(e)
  BY PeriodIs
<1>. HIDE DEF v, w, c, d, f, p, id
<1>4. CASE id(c) = id(d)
  <2>1. f(c) = f(d) /\ p(c) = p(d)
    BY <1>1, <1>3, <1>4
  <2>. QED
    BY <1>1, <1>4, <2>1 DEF v, w, c, d
<1>5. CASE id(c) # id(d)
  <2>1. p(c) <= f(d)
    <3>. SUFFICES ASSUME ~(p(c) <= f(d)) PROVE FALSE
      OBVIOUS
    <3>1. f(d) < p(c) /\ f(d) \in Int /\ p(c) \in Int
      BY <1>1, <1>3
    <3>2. CASE f(d) <= c
      <4>1. c < p(d)
        BY <1>1, <1>2, <1>3
      <4>. QED
        BY <1>1, <1>3, <1>5, <3>2, <4>1
    <3>3. CASE d < p(c)
      <4>1. f(c) <= d
        BY <1>1, <1>2, <1>3
      <4>. QED
        BY <1>1, <1>3, <1>5, <3>3, <4>1
    <3>4. CASE c < f(d) /\ p(c) <= d
      <4>1. f(d) \in Days
        BY <1>1, <1>2, <1>3, <3>1, <3>4, YearsFollow DEF Days
      <4>2. id(f(d)) = id(d)
        <5>1. f(d) <= f(d) /\ f(d) < p(d)
          BY <1>1, <1>2, <1>3
        <5>. QED
          BY <1>1, <1>3, <4>1, <5>1
      <4>3. f(c) <= f(d)
        BY <1>1, <1>2, <1>3, <3>1, <3>4
      <4>4. id(f(d)) = id(c)
        BY <1>1, <1>3, <3>1, <4>1, <4>3
      <4>. QED
        BY <1>5, <4>2, <4>4
    <3>. QED
      BY <1>2, <3>1, <3>2, <3>3, <3>4
  <2>2. p(c) \in Int /\ f(d) \in Int
    BY <1>1, <1>3
  <2>3. v.end <= w.start
    <3>1. w.start \in Int /\ Windows!LocalMidnight(p(c), z) \in Int
      BY <1>1, <2>2, MidnightIs
    <3>2. Windows!LocalMidnight(p(c), z) <= Windows!LocalMidnight(f(d), z)
      BY <2>1, <2>2, MidnightsGrow
    <3>. QED
      BY <1>1, <3>2
  <2>4. Windows!SortKey(v) # Windows!SortKey(w)
    BY <1>1, <1>5 DEF Windows!SortKey
  <2>. QED
    BY <2>3, <2>4 DEF v, w
<1>. QED
  BY <1>4, <1>5

\* The same for any kind of budget and in either order.
LEMMA WindowsPartition ==
  ASSUME NEW p \in Policies, NEW s \in Instant, NEW t \in Instant
  PROVE  LET v == Windows!ForInstant(p.type, s, p.tz)
             w == Windows!ForInstant(p.type, t, p.tz)
         IN \/ v = w
            \/ /\ Windows!SortKey(v) # Windows!SortKey(w)
               /\ v.end <= w.start \/ w.end <= v.start
<1>1. p.type \in Recurring \cup {"SESSION"} /\ p.tz \in Zone
  BY WindowsAssumption DEF Recurring
<1>2. CASE p.type = "SESSION"
  BY <1>2 DEF Windows!ForInstant
<1>3. CASE p.type \in Recurring
  <2>1. Windows!LocalDate(s, p.tz) \in Int /\ Windows!LocalDate(t, p.tz) \in Int
    BY <1>1, MidnightIs DEF Instant
  <2>2. CASE Windows!LocalDate(s, p.tz) <= Windows!LocalDate(t, p.tz)
    BY <1>1, <1>3, <2>2, WindowsApart
  <2>3. CASE Windows!LocalDate(t, p.tz) <= Windows!LocalDate(s, p.tz)
    BY <1>1, <1>3, <2>3, WindowsApart
  <2>. QED
    BY <2>1, <2>2, <2>3
<1>. QED
  BY <1>1, <1>2, <1>3

\* An instant is in its window.
LEMMA WindowContains ==
  ASSUME NEW p \in Policies, NEW t \in Instant
  PROVE  LET w == Windows!ForInstant(p.type, t, p.tz)
         IN w.start \in Int /\ w.end \in Int /\ w.start <= t /\ t < w.end /\ w.type = p.type
<1>1. p.type \in Recurring \cup {"SESSION"} /\ p.tz \in Zone
  BY WindowsAssumption DEF Recurring
<1>2. CASE p.type = "SESSION"
  <2>1. Windows!SessionEnd = 24 * Windows!YearStart(2035) /\ Windows!SessionEnd \in Int
    BY YearsFollow DEF Windows!SessionEnd
  <2>. QED
    BY <1>2, <2>1, WindowsAssumption DEF Windows!ForInstant, Instant
<1>3. CASE p.type \in Recurring
  BY <1>1, <1>3, WindowIs
<1>. QED
  BY <1>1, <1>2, <1>3

\* A request at an instant not before the clock keeps windows and items resolved.
LEMMA ArriveKeeps ==
  ASSUME Windows!Resolved, NEW t \in Instant, at <= t, Windows!Arrive(t)
  PROVE  Windows!Resolved'
<1>. DEFINE w == Windows!ForInstant(policy.type, t, policy.tz)
<1>1. /\ policy \in Policies /\ policy' = policy /\ at' = t /\ window' = w
      /\ items' = IF \E i \in items : Windows!SortKey(i) = Windows!SortKey(w) THEN items
                  ELSE items \cup {w}
  BY DEF Windows!Resolved, Windows!TypeOK, Windows!Arrive
<1>2. /\ at \in Nat /\ t \in Nat /\ at <= t /\ Opened <= t /\ t < Windows!SessionEnd
      /\ Opened \in Int
  BY WindowsAssumption DEF Windows!Resolved, Windows!TypeOK, Instant, Windows!SessionEnd
<1>3. w.start \in Int /\ w.end \in Int /\ w.start <= t /\ t < w.end
  BY <1>1, WindowContains
<1>4. \A i \in items :
        /\ i.start \in Int /\ i.end \in Int /\ i.start < i.end
        /\ \E x \in i.start .. at : /\ 0 <= x /\ Opened <= x
                                    /\ i = Windows!ForInstant(policy.type, x, policy.tz)
  BY DEF Windows!Resolved, Windows!TypeOK
<1>5. ASSUME NEW i \in items, Windows!SortKey(i) = Windows!SortKey(w) PROVE i = w
  <2>1. PICK x \in i.start .. at : /\ 0 <= x /\ Opened <= x
                                   /\ i = Windows!ForInstant(policy.type, x, policy.tz)
    BY <1>4
  <2>2. x \in Instant
    BY <1>2, <1>4, <2>1, YearsFollow DEF Instant, Windows!SessionEnd
  <2>. QED
    BY <1>1, <1>5, <2>1, <2>2, WindowsPartition
<1>. HIDE DEF w
<1>6. w \in items' /\ \A i \in items' : i \in items \/ i = w
  BY <1>1, <1>5
<1>7. \A i \in items' :
        /\ i.start \in Int /\ i.end \in Int /\ i.start < i.end
        /\ \E x \in i.start .. t : /\ 0 <= x /\ Opened <= x
                                   /\ i = Windows!ForInstant(policy.type, x, policy.tz)
  <2>. SUFFICES ASSUME NEW i \in items'
       PROVE  /\ i.start \in Int /\ i.end \in Int /\ i.start < i.end
              /\ \E x \in i.start .. t : /\ 0 <= x /\ Opened <= x
                                         /\ i = Windows!ForInstant(policy.type, x, policy.tz)
    OBVIOUS
  <2>1. CASE i = w
    <3>1. t \in i.start .. t /\ i.start < i.end
      BY <1>2, <1>3, <2>1
    <3>2. i = Windows!ForInstant(policy.type, t, policy.tz)
      BY <2>1 DEF w
    <3>. QED
      BY <1>2, <1>3, <2>1, <3>1, <3>2
  <2>2. CASE i \in items
    <3>1. PICK x \in i.start .. at : /\ 0 <= x /\ Opened <= x
                                     /\ i = Windows!ForInstant(policy.type, x, policy.tz)
      BY <1>4, <2>2
    <3>2. x \in i.start .. t
      BY <1>2, <1>4, <2>2
    <3>. QED
      BY <1>4, <2>2, <3>1, <3>2
  <2>. QED
    BY <1>6, <2>1, <2>2
<1>8. \A i \in items' \cup {window'} : i \in items'
  BY <1>1, <1>6
<1>9. Windows!TypeOK'
  BY <1>1, <1>2, <1>7, <1>8 DEF Windows!TypeOK
<1>10. window' = Windows!ForInstant(policy'.type, at', policy'.tz) /\ window' \in items'
  BY <1>1, <1>6 DEF w
<1>11. \A i \in items' :
         \E x \in i.start .. at' : /\ 0 <= x /\ Opened <= x
                                   /\ i = Windows!ForInstant(policy'.type, x, policy'.tz)
  BY <1>1, <1>7
<1>. QED
  BY <1>1, <1>2, <1>9, <1>10, <1>11 DEF Windows!Resolved

\* A step of the clock is a request at a later instant of the stretches.
LEMMA StepsArrive ==
  ASSUME Windows!Resolved, Windows!Next
  PROVE  \E t \in Instant : at < t /\ Windows!Arrive(t)
<1>1. /\ at \in Nat /\ Opened <= at /\ Opened \in Int
      /\ Windows!YearStart(2035) = YearStart(2035) /\ YearStart(2035) \in Int
  BY WindowsAssumption DEF Windows!Resolved, Windows!TypeOK, Windows!YearStart, YearStart
<1>2. \A s \in Stretches : /\ s[1] \in Nat /\ s[2] \in Nat /\ Opened <= 24 * s[1]
                           /\ s[1] < YearStart(2035) /\ s[2] < YearStart(2035)
  BY WindowsAssumption
<1>3. CASE Windows!Tick
  <2>1. PICK s \in Stretches : at + 1 < 24 * (s[2] + 1) /\ Windows!Arrive(at + 1)
    BY <1>3 DEF Windows!Tick
  <2>2. at + 1 \in Instant /\ at < at + 1
    BY <1>1, <1>2, <2>1 DEF Instant
  <2>. QED
    BY <2>1, <2>2
<1>4. CASE Windows!Skip
  <2>1. PICK s \in Stretches : 24 * s[1] > at /\ Windows!Arrive(24 * s[1])
    BY <1>4 DEF Windows!Skip
  <2>2. 24 * s[1] \in Instant
    BY <1>1, <1>2, <2>1 DEF Instant
  <2>. QED
    BY <1>1, <1>2, <2>1, <2>2
<1>. QED
  BY <1>3, <1>4 DEF Windows!Next

\* The first request resolves its window.
LEMMA ResolvedInit == Windows!Init => Windows!Resolved
<1>. SUFFICES ASSUME Windows!Init PROVE Windows!Resolved
  OBVIOUS
<1>1. PICK s \in Stretches : at = 24 * s[1]
  BY DEF Windows!Init
<1>2. /\ at \in Nat /\ Opened <= at /\ Opened \in Int
      /\ Windows!YearStart(2035) = YearStart(2035) /\ YearStart(2035) \in Int
      /\ at < 24 * YearStart(2035)
  BY <1>1, WindowsAssumption DEF Windows!YearStart, YearStart
<1>3. at \in Instant /\ at < Windows!SessionEnd
  BY <1>2 DEF Instant, Windows!SessionEnd
<1>4. /\ policy \in Policies /\ items = {window}
      /\ window = Windows!ForInstant(policy.type, at, policy.tz)
  BY DEF Windows!Init
<1>5. window.start \in Int /\ window.end \in Int /\ window.start <= at /\ at < window.end
  BY <1>3, <1>4, WindowContains
<1>6. Windows!TypeOK
  BY <1>2, <1>4, <1>5 DEF Windows!TypeOK
<1>7. at \in window.start .. at
  BY <1>2, <1>5
<1>. QED
  BY <1>2, <1>3, <1>4, <1>6, <1>7 DEF Windows!Resolved

\* At any time the windows and the items are what instants so far resolved to, each
\* within its bounds.
THEOREM WindowsResolve == MCSpec => []WindowsResolved
<1>1. MCInit => Windows!Resolved
  BY ResolvedInit DEF MCInit
<1>2. Windows!Resolved /\ [MCNext]_<<vars, period>> => Windows!Resolved'
  <2>1. ASSUME Windows!Resolved, UNCHANGED period PROVE Windows!Resolved'
    BY <2>1 DEF period, Windows!Resolved, Windows!TypeOK
  <2>2. ASSUME Windows!Resolved, Windows!Next PROVE Windows!Resolved'
    <3>1. PICK t \in Instant : at < t /\ Windows!Arrive(t)
      BY <2>2, StepsArrive
    <3>2. at <= t
      BY <2>2, <3>1 DEF Windows!Resolved, Windows!TypeOK, Instant
    <3>. QED
      BY <2>2, <3>1, <3>2, ArriveKeeps
  <2>. QED
    BY <2>1, <2>2 DEF MCNext
<1>. QED
  BY <1>1, <1>2, PTL DEF MCSpec, WindowsResolved

\* window.py: a key is one period.  Every request spends from a window that contains its
\* instant and has its item, and no two items cover one instant, in any zone of full
\* hours, on days of any length.
THEOREM OnePeriod == MCSpec => []OneItemPerPeriod
<1>1. Windows!Resolved => Windows!OneItemPerPeriod
  <2>. SUFFICES ASSUME Windows!Resolved PROVE Windows!OneItemPerPeriod
    OBVIOUS
  <2>1. /\ policy \in Policies /\ at \in Nat /\ Opened <= at /\ at < Windows!SessionEnd
        /\ window = Windows!ForInstant(policy.type, at, policy.tz) /\ window \in items
        /\ Opened \in Int
    BY WindowsAssumption DEF Windows!Resolved, Windows!TypeOK
  <2>2. at \in Instant /\ Windows!SessionEnd \in Int
    BY <2>1, YearsFollow DEF Instant, Windows!SessionEnd
  <2>3. window.start <= at /\ at < window.end
    BY <2>1, <2>2, WindowContains
  <2>4. ASSUME NEW i \in items
        PROVE  \E x \in Instant : i = Windows!ForInstant(policy.type, x, policy.tz)
    <3>1. PICK x \in i.start .. at : /\ 0 <= x /\ Opened <= x
                                     /\ i = Windows!ForInstant(policy.type, x, policy.tz)
      BY DEF Windows!Resolved
    <3>2. i.start \in Int
      BY DEF Windows!Resolved, Windows!TypeOK
    <3>3. x \in Instant
      BY <2>1, <2>2, <3>1, <3>2 DEF Instant, Windows!SessionEnd
    <3>. QED
      BY <3>1, <3>3
  <2>5. ASSUME NEW v \in items, NEW w \in items
        PROVE  v = w \/ v.end <= w.start \/ w.end <= v.start
    BY <2>1, <2>4, WindowsPartition
  <2>. QED
    BY <2>1, <2>3, <2>5 DEF Windows!OneItemPerPeriod
<1>. QED
  BY <1>1, WindowsResolve, PTL DEF WindowsResolved, OneItemPerPeriod

\* window.py next: from one hour to the next the window stays or is followed, at the
\* instant it ends, by the one that begins there.
THEOREM WindowsRollOver == MCSpec => RollsOver
<1>1. Windows!Resolved /\ [MCNext]_<<vars, period>>
        => [at' = at + 1 =>
              \/ window' = window
              \/ /\ window' = Windows!NextWindow(window)
                 /\ at' = window.end /\ window'.start = window.end]_Windows!vars
  <2>. SUFFICES ASSUME Windows!Resolved, [MCNext]_<<vars, period>>, at' = at + 1,
                       window' # window
                PROVE  /\ window' = Windows!NextWindow(window)
                       /\ at' = window.end /\ window'.start = window.end
    OBVIOUS
  <2>1. /\ policy \in Policies /\ at \in Nat /\ Opened <= at /\ at < Windows!SessionEnd
        /\ window = Windows!ForInstant(policy.type, at, policy.tz)
    BY DEF Windows!Resolved, Windows!TypeOK
  <2>2. at \in Instant /\ policy.tz \in Zone
    BY <2>1, WindowsAssumption DEF Instant, Windows!SessionEnd
  <2>3. Windows!Next
    BY <2>1 DEF MCNext, period
  <2>4. PICK t \in Instant : Windows!Arrive(t)
    BY <2>3, StepsArrive
  <2>5. /\ at + 1 \in Instant
        /\ window' = Windows!ForInstant(policy.type, at + 1, policy.tz)
    BY <2>4 DEF Windows!Arrive
  <2>6. window.type = policy.type /\ window.end \in Int /\ at < window.end
    BY <2>1, <2>2, WindowContains
  <2>7. window'.start \in Int /\ window'.start <= at + 1
    BY <2>1, <2>5, WindowContains
  <2>8. window.end <= window'.start \/ window'.end <= window.start
    BY <2>1, <2>2, <2>5, WindowsPartition
  <2>9. ~(window'.end <= window.start)
    <3>1. window'.end \in Int /\ at + 1 < window'.end
      BY <2>1, <2>5, WindowContains
    <3>2. window.start \in Int /\ window.start <= at
      BY <2>1, <2>2, WindowContains
    <3>. QED
      BY <2>1, <3>1, <3>2
  <2>10. window.end = at + 1 /\ window'.start = at + 1
    BY <2>1, <2>6, <2>7, <2>8, <2>9
  <2>. QED
    BY <2>5, <2>6, <2>10 DEF Windows!NextWindow
<1>. QED
  BY <1>1, WindowsResolve, PTL DEF MCSpec, RollsOver, Windows!RollsOver, WindowsResolved
================================================================================
