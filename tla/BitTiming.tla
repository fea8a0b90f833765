------------------------------- MODULE BitTiming -------------------------------
(***************************************************************************)
(* The bit timing of one instance: CAN_SetBitrate stores a rate and        *)
(* perhaps a sample point in the context, and nora_canfd_calc_bit_timing   *)
(* searches prescaler and segments for the nominal and then for the data   *)
(* phase, before the three timing registers are written.                   *)
(*                                                                         *)
(* One step is one iteration of the search loop of solve_phase.  The       *)
(* arithmetic is that of the code: uint32_t products wrap at Word, casts   *)
(* to uint16_t cut at Half.  The mode handshake around the register        *)
(* writes is in CanDriver.                                                 *)
(***************************************************************************)
EXTENDS Naturals

CONSTANTS CanClk,       \* values of can_clk_hz
          Rate,         \* bit rates, for either phase
          BitSegments,  \* ARM bit_segments words, 0 for none
          SamplePct,    \* values of RTE_CANx_SAMPLE_PCT
          Word,         \* a uint32_t holds 0 .. Word - 1
          Half          \* a uint16_t holds 0 .. Half - 1

ASSUME TimingAssumption ==
    /\ CanClk \subseteq 0 .. (Word - 1)
    /\ Rate \subseteq 1 .. (Word - 1)
    /\ BitSegments \subseteq 0 .. (Word - 1)
    /\ SamplePct \subseteq 0 .. 255
    /\ Half \in Nat /\ Word \in Nat
    /\ Half > 512                   \* twice the largest segment count
    /\ Word >= 100 * Half + 50      \* a 16-bit quantum count, in percent

VARIABLES can_clk_hz, nominal_bps, data_bps, sample_pct,  \* of the context
          pc,                 \* place in the call
          brp,                \* the prescaler tried next
          nominal, data,      \* solutions found so far, locals of the call
          hw,                 \* NBTCFG, DBTCFG and TDC
          segments,           \* history: the bit_segments sample_pct is from
          applied             \* history: the arguments hw was computed from

ctxVars == <<can_clk_hz, nominal_bps, data_bps, sample_pct>>
localVars == <<pc, brp, nominal, data>>
timingVars == <<ctxVars, localVars, hw, segments, applied>>

BrpMax == 256
DEFAULT_SAMPLE_PCT == 80
k_nominal_limits == [tseg1_min |-> 2, tseg1_max |-> 256,
                     tseg2_min |-> 1, tseg2_max |-> 128, sjw_max |-> 128]
k_data_limits    == [tseg1_min |-> 1, tseg1_max |-> 32,
                     tseg2_min |-> 1, tseg2_max |-> 16, sjw_max |-> 16]

\* Segment counts, one more than the register fields; before the first result
\* the locals and the registers are zero, which no solution is.
NoTiming == [brp |-> 0, tseg1 |-> 0, tseg2 |-> 0, sjw |-> 0]
NoArgs   == [clk |-> 0, nominal |-> 0, data |-> 0, pct |-> 0, seg |-> 0]

TimingInit == /\ can_clk_hz \in CanClk
              /\ nominal_bps \in Rate /\ data_bps \in Rate
              /\ sample_pct \in SamplePct
              /\ pc = "idle" /\ brp = 1
              /\ nominal = NoTiming /\ data = NoTiming
              /\ hw = [nbtcfg |-> NoTiming, dbtcfg |-> NoTiming, tdco |-> 0]
              /\ segments = 0 /\ applied = NoArgs

----------------------------------------------------------------------------
(* The sample point.                                                       *)

\* The fields of bit_segments, and the sample point CAN_SetBitrate derives.
PropSeg(seg)   == seg % 256
PhaseSeg1(seg) == (seg \div 256) % 256
PhaseSeg2(seg) == (seg \div 65536) % 256
Quanta(seg)    == 1 + PropSeg(seg) + PhaseSeg1(seg) + PhaseSeg2(seg)

\* Mutant: the sample point is placed at the start of phase segment 1.
BugDerivedPct(seg, old) ==
    IF PhaseSeg2(seg) = 0 THEN old
    ELSE (((1 + PropSeg(seg) + PhaseSeg2(seg)) * 100) \div Quanta(seg)) % 256

DerivedPct(seg, old) ==
    IF PhaseSeg2(seg) = 0 THEN old
    ELSE (((1 + PropSeg(seg) + PhaseSeg1(seg)) * 100) \div Quanta(seg)) % 256

Derive(seg) ==
    /\ sample_pct' = DerivedPct(seg, sample_pct)
    /\ segments' = IF PhaseSeg2(seg) = 0 THEN segments ELSE seg

\* A sample point of zero asks the node layer for the default.
UsedPct(pct) == IF pct = 0 THEN DEFAULT_SAMPLE_PCT ELSE pct

----------------------------------------------------------------------------
(* One iteration of solve_phase, in the code's arithmetic.                 *)

Product(bps, b) == (bps * b) % Word
Total(clk, bps, b) == clk \div Product(bps, b)

\* The percentage is rounded to whole quanta and cast, then one is subtracted.
Point(total, pct) == ((total * pct + 50) % Word) \div 100
Tseg1(total, pct) == ((Point(total, pct) % Half) + Half - 1) % Half
Tseg2(total, tseg1) == (((total + Word) - 1 - tseg1) % Word) % Half

\* Mutant: a bit need not be a whole number of quanta.
BugDivides(clk, bps, b) == TRUE

Divides(clk, bps, b) == clk % Product(bps, b) = 0

\* Mutant: the last quantum of the bit is not kept for phase segment 2.
BugFits(lim, total, t1, t2) == t1 \in lim.tseg1_min .. lim.tseg1_max

Fits(lim, total, t1, t2) ==
    /\ t1 \in lim.tseg1_min .. lim.tseg1_max
    /\ total >= 1 + t1 + lim.tseg2_min
    /\ t2 \in lim.tseg2_min .. lim.tseg2_max

Solution(lim, b, t1, t2) ==
    [brp |-> b, tseg1 |-> t1, tseg2 |-> t2,
     sjw |-> IF t2 < lim.sjw_max THEN t2 ELSE lim.sjw_max]

\* Mutant: segments that do not fit end the search.
BugTried(clk, bps, pct, lim, b) ==
    LET total == Total(clk, bps, b)
        t1    == Tseg1(total, pct)
    IN  IF Product(bps, b) = 0 THEN "trap"
        ELSE IF Divides(clk, bps, b) /\ Fits(lim, total, t1, Tseg2(total, t1)) THEN "found"
        ELSE "give up"

\* What the loop does with a prescaler b: a division by zero traps, a prescaler
\* that does not divide or whose segments do not fit is skipped, and too few
\* quanta end the search.
Tried(clk, bps, pct, lim, b) ==
    LET total == Total(clk, bps, b)
        t1    == Tseg1(total, pct)
        t2    == Tseg2(total, t1)
    IN  IF Product(bps, b) = 0           THEN "trap"
        ELSE IF ~Divides(clk, bps, b)    THEN "skip"
        ELSE IF total < 4                THEN "give up"
        ELSE IF Fits(lim, total, t1, t2) THEN "found"
        ELSE "skip"

Found(clk, bps, pct, lim, b) ==
    LET total == Total(clk, bps, b)
        t1    == Tseg1(total, pct)
    IN  Solution(lim, b, t1, Tseg2(total, t1))

----------------------------------------------------------------------------
(* The calls.                                                              *)

\* Mutant: the search starts at the register field of prescaler 1.
BugCalculate(clk, nbps, dbps, pct) ==
    /\ pc' = "nominal"
    /\ brp' = 0
    /\ nominal' = NoTiming /\ data' = NoTiming

\* nora_canfd_set_bitrate's and calc_bit_timing's argument tests, on the new
\* context: start the nominal phase or return INVALID_ARG.
Calculate(clk, nbps, dbps, pct) ==
    /\ pc' = IF clk # 0 /\ nbps # 0 /\ dbps # 0 /\ UsedPct(pct) < 100
               THEN "nominal" ELSE "idle"
    /\ brp' = 1
    /\ nominal' = NoTiming /\ data' = NoTiming

SetNominal(b, seg) ==
    /\ pc = "idle"
    /\ nominal_bps' = b
    /\ Derive(seg)
    /\ Calculate(can_clk_hz, b, data_bps, sample_pct')
    /\ UNCHANGED <<can_clk_hz, data_bps, hw, applied>>

SetData(b, seg) ==
    /\ pc = "idle"
    /\ data_bps' = b
    /\ Derive(seg)
    /\ Calculate(can_clk_hz, nominal_bps, b, sample_pct')
    /\ UNCHANGED <<can_clk_hz, nominal_bps, hw, applied>>

\* Without power the rate waits in the context; a select of neither phase is
\* refused with the new sample point already in it.
Store(nbps, dbps, seg) ==
    /\ pc = "idle"
    /\ nbps = nominal_bps \/ dbps = data_bps
    /\ nominal_bps' = nbps /\ data_bps' = dbps
    /\ Derive(seg)
    /\ UNCHANGED <<can_clk_hz, localVars, hw, applied>>

\* nora_canfd_init calculates from the context as it is.
ApplyInit ==
    /\ pc = "idle"
    /\ Calculate(can_clk_hz, nominal_bps, data_bps, sample_pct)
    /\ UNCHANGED <<ctxVars, hw, segments, applied>>

NominalTry == Tried(can_clk_hz, nominal_bps, UsedPct(sample_pct),
                    k_nominal_limits, brp)
DataTry    == Tried(can_clk_hz, data_bps, UsedPct(sample_pct),
                    k_data_limits, brp)

\* Mutant: the search has no end.
BugInPhase(p) == pc = p

InPhase(p) == pc = p /\ brp <= BrpMax

Skip(p, try) ==
    /\ InPhase(p) /\ try = "skip"
    /\ brp' = brp + 1
    /\ UNCHANGED <<ctxVars, pc, nominal, data, hw, segments, applied>>

\* Mutant: the search does not end after the last prescaler.
BugFail(p, try) ==
    /\ InPhase(p) /\ try = "give up"
    /\ pc' = "idle"
    /\ UNCHANGED <<ctxVars, brp, nominal, data, hw, segments, applied>>

\* No solution: calc_bit_timing returns INVALID_ARG, nothing is written.
Fail(p, try) ==
    /\ \/ InPhase(p) /\ try = "give up"
       \/ pc = p /\ brp > BrpMax
    /\ pc' = "idle"
    /\ UNCHANGED <<ctxVars, brp, nominal, data, hw, segments, applied>>

Trap(p, try) ==
    /\ InPhase(p) /\ try = "trap"
    /\ pc' = "trap"
    /\ UNCHANGED <<ctxVars, brp, nominal, data, hw, segments, applied>>

\* Mutant: the data search goes on after the nominal prescaler.
BugFindNominal ==
    /\ InPhase("nominal") /\ NominalTry = "found"
    /\ nominal' = Found(can_clk_hz, nominal_bps, UsedPct(sample_pct),
                        k_nominal_limits, brp)
    /\ pc' = "data"
    /\ brp' = brp + 1
    /\ UNCHANGED <<ctxVars, data, hw, segments, applied>>

FindNominal ==
    /\ InPhase("nominal") /\ NominalTry = "found"
    /\ nominal' = Found(can_clk_hz, nominal_bps, UsedPct(sample_pct),
                        k_nominal_limits, brp)
    /\ pc' = "data"
    /\ brp' = 1
    /\ UNCHANGED <<ctxVars, data, hw, segments, applied>>

FindData ==
    /\ InPhase("data") /\ DataTry = "found"
    /\ data' = Found(can_clk_hz, data_bps, UsedPct(sample_pct),
                     k_data_limits, brp)
    /\ pc' = "write"
    /\ UNCHANGED <<ctxVars, brp, nominal, hw, segments, applied>>

\* The transmitter delay offset is dbrp * dtseg1, at most 0x7F.
Tdco(t) == IF t.brp * t.tseg1 > 127 THEN 127 ELSE t.brp * t.tseg1

WriteRegisters ==
    /\ pc = "write"
    /\ hw' = [nbtcfg |-> nominal, dbtcfg |-> data, tdco |-> Tdco(data)]
    /\ applied' = [clk |-> can_clk_hz, nominal |-> nominal_bps,
                   data |-> data_bps, pct |-> UsedPct(sample_pct), seg |-> segments]
    /\ pc' = "idle"
    /\ UNCHANGED <<ctxVars, brp, nominal, data, segments>>

Search(p, try) == Skip(p, try) \/ Fail(p, try) \/ Trap(p, try)
Solve == \/ Search("nominal", NominalTry) \/ FindNominal
         \/ Search("data", DataTry) \/ FindData
         \/ WriteRegisters
Call  == \/ \E b \in Rate, seg \in BitSegments : SetNominal(b, seg) \/ SetData(b, seg)
         \/ \E n, d \in Rate, seg \in BitSegments : Store(n, d, seg)
         \/ ApplyInit

TimingNext == Call \/ Solve

\* A call in progress goes on; nobody has to call.
TimingSpec == TimingInit /\ [][TimingNext]_timingVars /\ WF_timingVars(Solve)

----------------------------------------------------------------------------
Timing == [brp : 0 .. BrpMax, tseg1 : Nat, tseg2 : Nat, sjw : Nat]

ContextTypeOK == /\ can_clk_hz \in CanClk
                 /\ nominal_bps \in Rate /\ data_bps \in Rate
                 /\ sample_pct \in 0 .. 255
                 /\ segments \in BitSegments \cup {0}

TimingTypeOK == /\ ContextTypeOK
                /\ pc \in {"idle", "nominal", "data", "write", "trap"}
                /\ brp \in 1 .. (BrpMax + 1)
                /\ nominal \in Timing /\ data \in Timing
                /\ hw \in [nbtcfg : Timing, dbtcfg : Timing, tdco : Nat]
                /\ applied \in [clk : Nat, nominal : Nat, data : Nat, pct : Nat,
                                seg : Nat]

\* The rates for which no product wraps and no quantum count is cut: those up to
\* 2^24 - 1 bit/s, and more than a 65536th of the clock.
InWidth(clk, bps) == /\ bps <= (Word - 1) \div BrpMax
                     /\ clk \div bps < Half

\* The number of quanta in a bit, by a timing.
Length(t) == 1 + t.tseg1 + t.tseg2

\* The sample point (in quanta from the start of the bit) is the whole number
\* nearest to pct percent of the bit, the later of two equally near ones.
Nearest(point, pct, total) == /\ 100 * point <= total * pct + 50
                              /\ total * pct + 50 < 100 * (point + 1)

\* The reference: a prescaler will do if the bit is a whole number of quanta, at
\* least four, that can be split near the sample point within the limits.
Feasible(clk, bps, pct, lim, b) ==
    LET total == clk \div (bps * b)
    IN  /\ clk % (bps * b) = 0
        /\ total >= 4
        /\ \E t1 \in lim.tseg1_min .. lim.tseg1_max :
              /\ Nearest(1 + t1, pct, total)
              /\ \E t2 \in lim.tseg2_min .. lim.tseg2_max : total = 1 + t1 + t2

InLimits(t, lim) == /\ t.brp \in 1 .. BrpMax
                    /\ t.tseg1 \in lim.tseg1_min .. lim.tseg1_max
                    /\ t.tseg2 \in lim.tseg2_min .. lim.tseg2_max
                    /\ t.sjw \in 1 .. lim.sjw_max /\ t.sjw <= t.tseg2

Configured == applied # NoArgs

\* Whatever wrapped on the way, what is written fits the register fields, so no
\* field spills into its neighbour, and the jump width is inside segment 2.
FieldsFit == Configured => /\ InLimits(hw.nbtcfg, k_nominal_limits)
                           /\ InLimits(hw.dbtcfg, k_data_limits)
                           /\ hw.tdco \in 1 .. 127

Exact(clk, bps, t) == clk = bps * t.brp * Length(t)

\* Both phases run at exactly the bit rate they were asked for, if the arithmetic
\* has room for it, with a sample point as near to the one asked for as a quantum
\* allows.
Right(clk, bps, pct, t) ==
    InWidth(clk, bps) => Exact(clk, bps, t) /\ Nearest(1 + t.tseg1, pct, Length(t))

RateAndPointRight ==
    Configured =>
        /\ Right(applied.clk, applied.nominal, applied.pct, hw.nbtcfg)
        /\ Right(applied.clk, applied.data, applied.pct, hw.dbtcfg)

\* No prescaler below n would do.
NoneBelow(clk, bps, pct, lim, n) ==
    InWidth(clk, bps) => \A b \in 1 .. (n - 1) : ~Feasible(clk, bps, pct, lim, b)

\* solve_phase's comment: it picks the smallest prescaler that lands the bit
\* inside the segment limits.
SmallestPrescaler ==
    Configured =>
        /\ NoneBelow(applied.clk, applied.nominal, applied.pct, k_nominal_limits,
                     hw.nbtcfg.brp)
        /\ NoneBelow(applied.clk, applied.data, applied.pct, k_data_limits,
                     hw.dbtcfg.brp)

\* A rate is refused only if no prescaler at all would do: giving up at too few
\* quanta misses none.
RefusalStep ==
    LET pct == UsedPct(sample_pct)
    IN  /\ pc = "nominal" /\ pc' = "idle"
             => NoneBelow(can_clk_hz, nominal_bps, pct, k_nominal_limits, BrpMax + 1)
        /\ pc = "data" /\ pc' = "idle"
             => NoneBelow(can_clk_hz, data_bps, pct, k_data_limits, BrpMax + 1)
RefusedOnlyIfImpossible == [][RefusalStep]_timingVars

\* A sample point that bit_segments gave survives the way through whole per
\* cents: a bit of at most 50 quanta gets the very segments asked for.
Reproduced(bps, seg, t) ==
    /\ seg # 0 /\ InWidth(applied.clk, bps)
    /\ Quanta(seg) = Length(t) /\ Length(t) <= 50
    => t.tseg1 = PropSeg(seg) + PhaseSeg1(seg) /\ t.tseg2 = PhaseSeg2(seg)

SegmentsReproduced ==
    Configured => /\ Reproduced(applied.nominal, applied.seg, hw.nbtcfg)
                  /\ Reproduced(applied.data, applied.seg, hw.dbtcfg)

\* A call with such rates never divides by zero, and returns.
BothInWidth == InWidth(can_clk_hz, nominal_bps) /\ InWidth(can_clk_hz, data_bps)
NoTrap == pc = "trap" => ~BothInWidth
SolverReturns == pc # "idle" /\ BothInWidth ~> pc = "idle"
=============================================================================
