---------------------------- MODULE Quantization ----------------------------
(***************************************************************************)
(* Quantised vectors (src/include/hnswlib/int_storage.h, quantized.h,      *)
(* space_quantized.h, space_quantized_ip.h): how a vector becomes the      *)
(* bytes an index stores, and what distance two such codes have.  A space  *)
(* either passes rounded components through into 1 to 8 bits each, or      *)
(* codes them by parameters that fit takes from samples and UnifiedIndex   *)
(* saves with the codes; the inner-product space centres them on the mean. *)
(*                                                                         *)
(* Components are integers, Unit of them a 1.0; the inner product is left  *)
(* as a sum, without finalize_dist; a squared difference or a product of   *)
(* trained codes goes without its positive weight (scale_sq[d], scale[d]   *)
(* squared, ternary_scale_[d]).  Scalar code, exact arithmetic, modes      *)
(* STANDARD and CENTROID; one point stands for each of many.               *)
(***************************************************************************)
EXTENDS Integers, Sequences, FiniteSets, SequencesExt, Folds

CONSTANTS
    Dim,            \* dim_
    PassPoints,     \* vectors to store and to look for, in mode PASS
    TrainedPoints,  \* and in the others
    SampleSets,     \* what fit may be given: non-empty sequences of vectors
    Spaces          \* metric_, bin_mode_ and type of the indices there are

Unit == 16          \* 1.0

ASSUME DimAssumption == Dim \in Nat \ {0}
ASSUME PointsAssumption == PassPoints \union TrainedPoints \subseteq [1 .. Dim -> Int]
ASSUME SamplesAssumption == SampleSets \subseteq Seq([1 .. Dim -> Int]) \ {<<>>}

VARIABLES
    space,          \* the SpaceQuantized or SpaceQuantizedIP of the index
    params,         \* its trained parameters, for each dimension
    samples,        \* history: what they were taken from
    stored,         \* a point of the graph: its code; history: its vector, and
                    \* whether other parameters came since
    unsaved,      \* additions_since_flush_ # 0
    indexFile            \* the index file: parameters (and samples), point

quantVars == <<space, params, samples, stored, unsaved, indexFile>>

Dims == 1 .. Dim
Absent == <<>>

PassTypes == {"BIN1", "INT2", "INT3", "INT4", "INT5", "INT6", "INT8"}
TrainedTypes == {"BIN1", "INT158", "INT4", "INT8"}
AllSpaces == [metric : {"L2", "IP"}, mode : {"PASS"}, type : PassTypes]
                \union [metric : {"L2", "IP"}, mode : {"STANDARD", "CENTROID"}, type : TrainedTypes]

ASSUME SpacesAssumption == Spaces \subseteq AllSpaces

-----------------------------------------------------------------------------
(* Arithmetic. *)

Clamp(v, low, high) == IF v < low THEN low ELSE IF v > high THEN high ELSE v

Abs(n) == IF n < 0 THEN -n ELSE n

Sign(n) == IF n < 0 THEN -1 ELSE IF n > 0 THEN 1 ELSE 0

\* std::round: halves away from zero.
Round(n, d) == IF n < 0 THEN -((2 * Abs(n) + d) \div (2 * d)) ELSE (2 * n + d) \div (2 * d)

\* MUTANT of NearbyInt: cuts instead of rounding.
TowardsZero(n, d) == IF n < 0 THEN -(Abs(n) \div d) ELSE n \div d

\* std::nearbyint: halves to even.
NearbyInt(n, d) ==
    LET q == n \div d   r == n % d
    IN  IF 2 * r < d \/ (2 * r = d /\ q % 2 = 0) THEN q ELSE q + 1

\* 1 << n
Pow2(n) == 2 ^ n

\* A number of w bits as a signed one.
Signed(n, w) == IF n >= Pow2(w - 1) THEN n - Pow2(w) ELSE n

BitsPerElement(type) ==
    CASE type = "BIN1" -> 1 [] type = "INT2" -> 2 [] type = "INT3" -> 3 [] type = "INT4" -> 4
      [] type = "INT5" -> 5 [] type = "INT6" -> 6 [] type = "INT8" -> 8 [] type = "INT158" -> 2

BytesPerVector(w) == (Dim * w + 7) \div 8

Sum(numbers) == FoldLeft(LAMBDA s, n : s + n, 0, numbers)

Square(n) == n * n

-----------------------------------------------------------------------------
(* Packing: numbers q[d] of w bits into bytes. *)

\* w divides 8: as many as fit into each byte (a last one is padded with 0).
PackWhole(q, w) ==
    [b \in 1 .. BytesPerVector(w) |->
        Sum([j \in 1 .. 8 \div w |-> LET d == (b - 1) * (8 \div w) + j
                                      IN  IF d <= Dim THEN q[d] * Pow2(w * (j - 1)) ELSE 0])]

\* MUTANT of PutBits: the bits that did not fit are lost.
DropsCarry(acc, q, w) ==
    LET bitpos == acc.bitpos + w   cur == (acc.cur + q * Pow2(acc.bitpos)) % 256
    IN  IF bitpos >= 8 THEN [out |-> Append(acc.out, cur), bitpos |-> bitpos - 8, cur |-> 0]
                       ELSE [acc EXCEPT !.cur = cur, !.bitpos = bitpos]

PutBits(acc, q, w) ==
    LET cur == (acc.cur + q * Pow2(acc.bitpos)) % 256
        bitpos == acc.bitpos + w
    IN  IF bitpos >= 8
        THEN [out |-> Append(acc.out, cur), bitpos |-> bitpos - 8,
              cur |-> (q \div Pow2(w - (bitpos - 8))) % Pow2(bitpos - 8)]
        ELSE [acc EXCEPT !.cur = cur, !.bitpos = bitpos]

\* Any other w: a number may end in the next byte.
PackCarry(q, w) ==
    LET acc == FoldLeft(LAMBDA a, n : PutBits(a, n, w), [out |-> <<>>, bitpos |-> 0, cur |-> 0], q)
    IN  IF acc.bitpos > 0 THEN Append(acc.out, acc.cur) ELSE acc.out

Pack(q, w) == IF 8 % w = 0 THEN PackWhole(q, w) ELSE PackCarry(q, w)

(* Pass-through: what pack_int<w>_to makes of a component. *)

\* The cast to int8_t comes before the clamping (and keeps the low 8 bits, which
\* is what compilers make of it).
Nibble(v) == Clamp(Signed(Round(v * 64, Unit) % 256, 8), -8, 7) % 16

PassCode(v, type) ==
    CASE type = "BIN1" -> IF v > 0 THEN 1 ELSE 0
      [] type = "INT4" -> Nibble(v)
      [] OTHER -> Clamp(Round(v, Unit), 0, Pow2(BitsPerElement(type)) - 1)

-----------------------------------------------------------------------------
(* Training: params[d] bounds the codes, by low and high over den: what    *)
(* the first and the last linear code stand for (minval, or mean_ - offset *)
(* * scale), the two thresholds of INT158, or the threshold of BIN1 twice. *)
(* offset2 is twice the offset of the inner-product space.                 *)

Bounds(low, high, offset2, den) == [low |-> low, high |-> high, offset2 |-> offset2, den |-> den]

Levels(type) == IF type = "INT8" THEN 255 ELSE 15

Linear(type) == type \in {"INT4", "INT8"}

\* scale[d] * levels, of a range over den; a scale of 0 becomes 1.
Span(range, den) == IF range = 0 THEN Levels(space.type) * Unit * den ELSE range

DefaultParams ==
    [d \in Dims |-> IF Linear(space.type) THEN Bounds(0, Span(0, 1), 0, 1) ELSE Bounds(0, 0, 0, 1)]

Column(S, d) == [i \in DOMAIN S |-> S[i][d]]

Lo(S, d) == Min(ToSet(Column(S, d)))
Hi(S, d) == Max(ToSet(Column(S, d)))

\* col[k] of the sorted column, from col[0].
Ranked(S, d, k) ==
    CHOOSE v \in ToSet(Column(S, d)) :
        /\ Cardinality({i \in DOMAIN S : S[i][d] < v}) <= k
        /\ Cardinality({i \in DOMAIN S : S[i][d] <= v}) > k

\* sum_[d]; the mean and the centroid are Total / n.
Total(S, d) == Sum(Column(S, d))

\* hi - c or c - lo, of numbers over Len(S).
Furthest(S, d) ==
    LET n == Len(S)   c == Total(S, d)
        above == n * Hi(S, d) - c   below == c - n * Lo(S, d)
    IN  IF above > below THEN above ELSE below

ComputeThresholds(S) ==
    [d \in Dims |-> LET mid == Ranked(S, d, Len(S) \div 2) IN Bounds(mid, mid, 0, 1)]

\* The threshold of BIN1 is mean_ or centroid_.
ComputeMean(S) == [d \in Dims |-> Bounds(Total(S, d), Total(S, d), 0, Len(S))]

\* The inner-product space subtracts the mean before it sorts and adds it after.
ComputeTernaryThresholds(S) ==
    [d \in Dims |-> Bounds(Ranked(S, d, Len(S) \div 3), Ranked(S, d, (2 * Len(S)) \div 3), 0, 1)]

\* Half of the centroid to each side, in the inner-product space of its distance
\* from the mean; 0.1 instead of 0.
ComputeTernaryThresholdsFromCentroid(S) ==
    [d \in Dims |->
        LET n == Len(S)   c == 10 * Total(S, d)
            from == IF space.metric = "L2" THEN 0 ELSE c
            offset == IF c = from THEN Unit * n ELSE Abs(c - from) \div 2
        IN  Bounds(c - offset, c + offset, 0, 10 * n)]

ComputeScaleMin(S) ==
    [d \in Dims |-> Bounds(Lo(S, d), Lo(S, d) + Span(Hi(S, d) - Lo(S, d), 1), 0, 1)]

ComputeScaleMinFromCentroid(S) ==
    [d \in Dims |-> LET n == Len(S)   low == Total(S, d) - Furthest(S, d)
                    IN  Bounds(low, low + Span(2 * Furthest(S, d), n), 0, n)]

\* MUTANT of ComputeScaleOffset: minval instead of an offset from the mean.
KeepsMinval(S) ==
    [d \in Dims |->
        Bounds(Lo(S, d), Lo(S, d) + Span(Hi(S, d) - Lo(S, d), 1), Levels(space.type), 1)]

\* levels / 2 to each side of the mean, over 2 * n; the range is that of the
\* samples, or twice what is furthest from the centroid.
ComputeScaleOffset(S) ==
    [d \in Dims |->
        LET n == Len(S)
            range == IF space.mode = "CENTROID" THEN 4 * Furthest(S, d) ELSE 2 * n * (Hi(S, d) - Lo(S, d))
            half == Span(range, 2 * n) \div 2
        IN  Bounds(2 * Total(S, d) - half, 2 * Total(S, d) + half, Levels(space.type), 2 * n)]

\* use_gte: against a centroid, equal counts.
BinCode(v, p) ==
    IF v * p.den > p.high \/ (space.mode = "CENTROID" /\ v * p.den = p.high) THEN 1 ELSE 0

BinCodeIP(v, p) == IF v * p.den > p.high THEN 1 ELSE 0

\* 00 = -1, 01 = 0, 10 = +1
TernaryCode(v, p) == IF v * p.den < p.low THEN 0 ELSE IF v * p.den > p.high THEN 2 ELSE 1

LinearCode(v, p) ==
    Clamp(NearbyInt((v * p.den - p.low) * Levels(space.type), p.high - p.low), 0, Levels(space.type))

TrainedCode(v, p) ==
    CASE space.type = "BIN1" -> IF space.metric = "L2" THEN BinCode(v, p) ELSE BinCodeIP(v, p)
      [] space.type = "INT158" -> TernaryCode(v, p)
      [] OTHER -> LinearCode(v, p)

\* space_->quantize
Quantize(vec, ps) ==
    Pack([d \in Dims |-> IF space.mode = "PASS" THEN PassCode(vec[d], space.type)
                                                ELSE TrainedCode(vec[d], ps[d])],
         BitsPerElement(space.type))

-----------------------------------------------------------------------------
(* Distances: over two codes, each with what lies behind it in memory. *)

ByteAt(code, i, rest) == IF i <= Len(code) THEN code[i] ELSE rest

\* The d-th number of w bits.
Field(code, w, d, rest) ==
    LET bitpos == ((d - 1) * w) % 8
        first == ((d - 1) * w) \div 8 + 1
        lower == ByteAt(code, first, rest) \div Pow2(bitpos)
        upper == IF bitpos + w > 8 THEN ByteAt(code, first + 1, rest) * Pow2(8 - bitpos) ELSE 0
    IN  (lower + upper) % Pow2(w)

SignedField(code, w, d, rest) == Signed(Field(code, w, d, rest), w)

\* L2 reads nibbles, whatever the type.
L2Bits == 4

ComputeDistL2Pass(a, b, ra, rb) ==
    Sum([d \in Dims |-> Square(SignedField(a, L2Bits, d, ra) - SignedField(b, L2Bits, d, rb))])

ComputeDistPass(a, b, ra, rb) ==
    LET w == BitsPerElement(space.type)
    IN  Sum([d \in Dims |-> SignedField(a, w, d, ra) * SignedField(b, w, d, rb)])

Ternary(n) == CASE n = 0 -> -1 [] n = 1 -> 0 [] OTHER -> 1

\* What the code of a component stands for: 0 or 1 and the level itself in the
\* L2 space, -1 or 1 and twice its distance from offset in the other.
Value(code, d) ==
    LET n == Field(code, BitsPerElement(space.type), d, 0)
    IN  IF space.type = "INT158" THEN Ternary(n)
          ELSE IF space.metric = "L2" THEN n
          ELSE IF space.type = "BIN1" THEN 2 * n - 1
          ELSE 2 * n - params[d].offset2

ComputeDist(a, b) == Sum([d \in Dims |-> Square(Value(a, d) - Value(b, d))])

\* Of BIN1: twice the matches, less dim_.
ComputeDistIP(a, b) == Sum([d \in Dims |-> Value(a, d) * Value(b, d)])

Distance(a, b, ra, rb) ==
    IF space.mode = "PASS"
    THEN IF space.metric = "L2" THEN ComputeDistL2Pass(a, b, ra, rb) ELSE ComputeDistPass(a, b, ra, rb)
    ELSE IF space.metric = "L2" THEN ComputeDist(a, b) ELSE ComputeDistIP(a, b)

-----------------------------------------------------------------------------
QuantInit ==
    /\ space \in Spaces
    /\ params = DefaultParams
    /\ samples = Absent
    /\ stored = Absent
    /\ unsaved = FALSE
    /\ indexFile = Absent

Refitted(ps) == IF stored = Absent \/ ps = params THEN stored ELSE [stored EXCEPT !.refitted = TRUE]

TrainTernary(S) ==
    IF space.mode = "STANDARD" THEN ComputeTernaryThresholds(S) ELSE ComputeTernaryThresholdsFromCentroid(S)

TrainL2(S) ==
    LET standard == space.mode = "STANDARD"
    IN  CASE space.type = "BIN1" -> IF standard THEN ComputeThresholds(S) ELSE ComputeMean(S)
          [] space.type = "INT158" -> TrainTernary(S)
          [] OTHER -> IF standard THEN ComputeScaleMin(S) ELSE ComputeScaleMinFromCentroid(S)

TrainIP(S) ==
    CASE space.type = "BIN1" -> ComputeMean(S)
      [] space.type = "INT158" -> TrainTernary(S)
      [] OTHER -> ComputeScaleOffset(S)

\* UnifiedIndex::fit (passing through needs no training)
Fit(S) ==
    /\ space.mode # "PASS"
    /\ params' = IF space.metric = "L2" THEN TrainL2(S) ELSE TrainIP(S)
    /\ samples' = S
    /\ stored' = Refitted(params')
    /\ UNCHANGED <<space, unsaved, indexFile>>

\* UnifiedIndex::addPoint_internal
AddVector(vec) ==
    /\ stored' = [code |-> Quantize(vec, params), vec |-> vec, refitted |-> FALSE]
    /\ unsaved' = TRUE
    /\ UNCHANGED <<space, params, samples, indexFile>>

SaveQuantizationParams == [params |-> params, samples |-> samples]

\* MUTANT of SaveIndex: the parameters stay in memory.
SavesCodesOnly ==
    /\ unsaved
    /\ indexFile' = [quantization |-> [params |-> DefaultParams, samples |-> Absent], stored |-> stored]
    /\ unsaved' = FALSE
    /\ UNCHANGED <<space, params, samples, stored>>

\* UnifiedIndex::saveIndex
SaveIndex ==
    /\ unsaved
    /\ indexFile' = [quantization |-> SaveQuantizationParams, stored |-> stored]
    /\ unsaved' = FALSE
    /\ UNCHANGED <<space, params, samples, stored>>

LoadQuantizationParams ==
    LET q == IF indexFile = Absent THEN [params |-> DefaultParams, samples |-> Absent] ELSE indexFile.quantization
    IN  params' = q.params /\ samples' = q.samples

\* A new UnifiedIndex, and its loadIndex if there is a file.
Reopen ==
    /\ LoadQuantizationParams
    /\ stored' = IF indexFile = Absent THEN Absent ELSE indexFile.stored
    /\ unsaved' = FALSE
    /\ UNCHANGED <<space, indexFile>>

QuantNext ==
    \/ \E S \in SampleSets : Fit(S)
    \/ \E vec \in IF space.mode = "PASS" THEN PassPoints ELSE TrainedPoints : AddVector(vec)
    \/ SaveIndex
    \/ Reopen

QuantSpec == QuantInit /\ [][QuantNext]_quantVars

-----------------------------------------------------------------------------
(* Properties. *)

Codes == [1 .. BytesPerVector(BitsPerElement(space.type)) -> 0 .. 255]
Params == [Dims -> [low : Int, high : Int, offset2 : Nat, den : Nat \ {0}]]
StoredPoints == {Absent} \union
    [code : Codes, vec : [Dims -> Int], refitted : BOOLEAN]

\* The variables have their types: a code is bytes, and as many as
\* bytes_per_vector.
QuantTypeOK ==
    /\ space \in Spaces
    /\ params \in Params
    /\ samples \in SampleSets \union {Absent}
    /\ stored \in StoredPoints
    /\ unsaved \in BOOLEAN
    /\ indexFile \in {Absent} \union
           [quantization : [params : Params, samples : SampleSets \union {Absent}],
            stored : StoredPoints]

\* What passes through: the component itself, rounded and cut to what the
\* type can hold.
Kept(v, type) ==
    CASE type = "BIN1" -> IF v > 0 THEN 1 ELSE 0
      [] type = "INT4" -> Clamp(Round(v * 64, Unit), -8, 7)
      [] OTHER -> Clamp(Round(v, Unit), 0, Pow2(BitsPerElement(type)) - 1)

\* The cast of the INT4 packing turns a component's sign.
Wraps(vec) == space.type = "INT4" /\ \E d \in Dims : Round(vec[d] * 64, Unit) \notin -128 .. 127

\* A component sets the highest bit of an unsigned type (of BIN1, both 0 and
\* -1 have the product they should have).
ReadAsNegative(vec) ==
    /\ space.type \notin {"BIN1", "INT4"}
    /\ \E d \in Dims : Kept(vec[d], space.type) >= Pow2(BitsPerElement(space.type) - 1)

\* The bytes that are read are others than those that were packed.
ReadAsNibbles == space.metric = "L2" /\ space.type # "INT4"

\* The packed codes have the distance of the vectors they were packed from,
\* component by component and whatever lies behind them in memory, unless
\* the L2 space reads another type than the one packed, a component is read
\* as negative, or one wrapped in the packing (int_storage.h:326-510,
\* quantized.h:222-296, space_quantized_ip.h:918-978).
PassedDistanceHasCause ==
    (space.mode = "PASS" /\ stored # Absent) =>
        \A vec \in PassPoints, ra \in {0, 255}, rb \in {0, 170} :
            LET KeptAt(v, d) == Kept(v[d], space.type)
            IN  \/ Distance(stored.code, Quantize(vec, params), ra, rb) =
                      IF space.metric = "L2"
                      THEN Sum([d \in Dims |-> Square(KeptAt(stored.vec, d) - KeptAt(vec, d))])
                      ELSE Sum([d \in Dims |-> KeptAt(stored.vec, d) * KeptAt(vec, d)])
                \/ ReadAsNibbles
                \/ \E v \in {vec, stored.vec} : ReadAsNegative(v) \/ Wraps(v)

\* Searching for a stored vector gives distance 0 to its point in an L2 space,
\* and the largest product there is in an inner-product space of BIN1, over
\* saving, loading and retraining, unless the quantiser was fitted anew after
\* the point was added, or the distance reads beyond narrow codes
\* (unified_hnsw.cpp:182, 640, 749).
FindsItself ==
    (stored # Absent /\ (space.metric = "L2" \/ (space.mode # "PASS" /\ space.type = "BIN1"))) =>
        \/ \A ra, rb \in {0, 255} : Distance(Quantize(stored.vec, params), stored.code, ra, rb) =
                                    IF space.metric = "L2" THEN 0 ELSE Dim
        \/ stored.refitted
        \/ (space.mode = "PASS" /\ Len(stored.code) < BytesPerVector(L2Bits))

\* A code of INT4 or INT8 decodes, by the parameters the index has now, to
\* within half a step of the vector, unless the quantiser was fitted anew or
\* a component lies outside what the parameters cover.
Decodes ==
    \A d \in Dims :
        LET p == params[d]   v == stored.vec[d] * p.den   range == p.high - p.low
            code == Field(stored.code, BitsPerElement(space.type), d, 0)
        IN  \/ 2 * Abs(code * range - (v - p.low) * Levels(space.type)) <= range
            \/ stored.refitted
            \/ v \notin p.low .. p.high

\* Linear parameters cover the samples they were taken from, except that the
\* inner-product space in mode STANDARD centres the width of the samples on
\* their mean, and so leaves some out exactly when that is not in their middle.
CoversSamples ==
    \A d \in Dims :
        LET p == params[d]   n == Len(samples)   col == Column(samples, d)
            Centred == 2 * Total(samples, d) = n * (Lo(samples, d) + Hi(samples, d))
        IN  (\A i \in 1 .. n : col[i] * p.den \in p.low .. p.high)
                <=> (space.metric = "L2" \/ space.mode = "CENTROID" \/ Centred)

\* Codes of BIN1 and INT158 tell the samples they were fitted to apart: in
\* each dimension no side of a percentile has more than half, or a third, of
\* them (and one), ties apart; both sides of a mean have some.
SplitsEvenly ==
    \A d \in Dims :
        LET n == Len(samples)
            With(code) == Cardinality({i \in 1 .. n : TrainedCode(samples[i][d], params[d]) = code})
            values == {samples[i][d] : i \in 1 .. n}
            distinct == Cardinality(values) = n
        IN  CASE space.type = "INT158" ->
                     space.mode = "STANDARD" /\ distinct =>
                        /\ Abs(With(2) - With(0)) <= 1
                        /\ With(0) <= n \div 3 /\ With(1) <= n \div 3 + 2
              [] space.type = "BIN1" /\ space.metric = "L2" /\ space.mode = "STANDARD" ->
                     distinct => Abs(With(1) - With(0)) <= 2
              [] OTHER -> Cardinality(values) > 1 => With(0) > 0 /\ With(1) > 0

\* In a fitted inner-product space each dimension adds to or takes from the
\* product of two codes as the two components, less the samples' mean, would,
\* unless the quantiser was fitted anew; with INT158 it may also add nothing, and
\* with its percentiles, which need not have the mean between them, anything.
KeepsSigns ==
    \A vec \in TrainedPoints, d \in Dims :
        LET n == Len(samples)
            Centred(v) == n * v[d] - Total(samples, d)
            exact == Sign(Centred(vec)) * Sign(Centred(stored.vec))
            product == Sign(Value(Quantize(vec, params), d)) * Sign(Value(stored.code, d))
        IN  \/ exact = product
            \/ exact = 0
            \/ space.type = "INT158" /\ (product = 0 \/ space.mode = "STANDARD")
            \/ stored.refitted

\* What a fitted type is for: linear codes decode to the vector and cover the
\* samples, those of one or two bits split the samples, and products have the
\* right sign in each dimension.
TrainedCodesHold ==
    /\ QuantTypeOK
    /\ stored # Absent /\ space.mode # "PASS" /\ Linear(space.type) => Decodes
    /\ samples # Absent /\ Linear(space.type) => CoversSamples
    /\ samples # Absent /\ ~Linear(space.type) => SplitsEvenly
    /\ samples # Absent /\ stored # Absent /\ space.metric = "IP" => KeepsSigns
=============================================================================
