---------------------------- MODULE BitTimingProofs ----------------------------
(***************************************************************************)
(* Proofs about BitTiming, for every clock, rate, sample point and word    *)
(* width: what is written always fits the register fields; for the rates   *)
(* the arithmetic has room for, it is the exact rate at the nearest sample *)
(* point with the smallest prescaler, the segments asked for come back,    *)
(* success and refusal are of the setting alone; and the search ends.      *)
(***************************************************************************)
EXTENDS BitTiming, Integers, TLAPS

USE TimingAssumption DEF BrpMax

----------------------------------------------------------------------------
(* Arithmetic.                                                             *)

\* Division with remainder.
LEMMA Division ==
    ASSUME NEW n \in Nat, NEW p \in Nat \ {0}
    PROVE  /\ n \div p \in Nat
           /\ n % p \in 0 .. (p - 1)
           /\ n = p * (n \div p) + (n % p)
  OBVIOUS

\* A product that stays below a bound when one factor grows.
LEMMA ProductMonotone ==
    ASSUME NEW a \in Nat, NEW b \in Nat, NEW c \in Nat, b <= c
    PROVE  /\ a * b \in Nat /\ a * c \in Nat
           /\ a * b <= a * c
  OBVIOUS

\* No product of a rate in width wraps, and none is zero.
LEMMA ProductExact ==
    ASSUME NEW clk \in Nat, NEW bps \in Nat \ {0}, InWidth(clk, bps),
           NEW b \in 1 .. BrpMax
    PROVE  /\ bps * b \in Nat \ {0}
           /\ Product(bps, b) = bps * b
  <1>1. Word \in Nat \ {0} /\ (Word - 1) \in Nat
    OBVIOUS
  <1>2. bps * 256 <= Word - 1
    <2>1. bps <= (Word - 1) \div 256
      BY DEF InWidth
    <2> QED BY <1>1, <2>1
  <1>3. bps * b <= bps * 256 /\ bps * b \in Nat
    BY ProductMonotone
  <1>4. bps * b >= bps * 1
    BY ProductMonotone
  <1>5. bps * b \in Nat \ {0}
    BY <1>3, <1>4
  <1> DEFINE p == bps * b
  <1>6. p \in Nat /\ p < Word
    BY <1>1, <1>2, <1>3
  <1> HIDE DEF p
  <1>7. p % Word = p
    BY <1>1, <1>6
  <1> QED BY <1>5, <1>7 DEF Product, p

\* The number of quanta then fits 16 bits.
LEMMA TotalFits ==
    ASSUME NEW clk \in Nat, NEW bps \in Nat \ {0}, InWidth(clk, bps),
           NEW b \in 1 .. BrpMax
    PROVE  /\ Total(clk, bps, b) = clk \div (bps * b)
           /\ Total(clk, bps, b) \in 0 .. (Half - 1)
  <1> DEFINE p == bps * b
             t == clk \div p
             h == clk \div bps
  <1>1. p \in Nat \ {0} /\ Product(bps, b) = p
    BY ProductExact
  <1> HIDE DEF p
  <1>2. t \in Nat /\ p * t <= clk
    <2>1. /\ t \in Nat /\ clk % p \in 0 .. (p - 1)
          /\ clk = p * t + (clk % p)
      BY <1>1, Division
    <2> QED BY <1>1, <2>1
  <1>3. h \in Nat /\ clk < bps * (h + 1) /\ h < Half
    BY Division DEF InWidth
  <1>4. ASSUME h < t PROVE FALSE
    <2>1. bps * (h + 1) <= bps * t
      BY <1>2, <1>3, <1>4, ProductMonotone
    <2>2. bps <= p
      <3>1. bps * 1 <= bps * b
        BY ProductMonotone
      <3> QED BY <3>1 DEF p
    <2>3. t * bps <= t * p
      BY <1>1, <1>2, <2>2, ProductMonotone
    <2>4. /\ t * bps = bps * t /\ t * p = p * t
          /\ bps * t \in Nat /\ p * t \in Nat /\ bps * (h + 1) \in Nat
      BY <1>1, <1>2, <1>3
    <2>5. bps * (h + 1) <= p * t
      BY <2>1, <2>3, <2>4
    <2> QED BY <1>2, <1>3, <2>4, <2>5
  <1>5. t \in 0 .. (Half - 1)
    BY <1>2, <1>3, <1>4
  <1> QED BY <1>1, <1>5 DEF Total, p

\* The rounding of the sample point: nearest, ties up, and never past the bit.
LEMMA PointNearest ==
    ASSUME NEW total \in 0 .. (Half - 1), NEW pct \in 1 .. 99
    PROVE  /\ Point(total, pct) = (total * pct + 50) \div 100
           /\ Point(total, pct) \in 0 .. total
           /\ Nearest(Point(total, pct), pct, total)
  <1>1. total * pct \in Nat /\ total * pct <= total * 99
    BY ProductMonotone
  <1>2. total * pct + 50 \in 0 .. (Word - 1)
    BY <1>1
  <1>3. (total * pct + 50) % Word = total * pct + 50
    BY <1>2
  <1>4. Point(total, pct) = (total * pct + 50) \div 100
    BY <1>3 DEF Point
  <1> DEFINE x == total * pct
             q == (x + 50) \div 100
  <1>5. x \in Nat /\ x <= total * 99
    BY <1>1
  <1> HIDE DEF x
  <1>6. q \in 0 .. total /\ 100 * q <= x + 50 /\ x + 50 < 100 * (q + 1)
    BY <1>5
  <1> QED BY <1>4, <1>6 DEF Nearest, x

----------------------------------------------------------------------------
(* One prescaler.                                                          *)

Limits == {k_nominal_limits, k_data_limits}

\* The limits of either phase are those of the register fields.
LEMMA LimitValues ==
    ASSUME NEW lim \in Limits
    PROVE  /\ lim.tseg1_min \in 1 .. 2 /\ lim.tseg1_max \in 32 .. 256
           /\ lim.tseg2_min = 1 /\ lim.tseg2_max \in 16 .. 128
           /\ lim.sjw_max \in 16 .. 128
  BY DEF Limits, k_nominal_limits, k_data_limits

\* What is accepted fits the register fields, whatever wrapped before.
LEMMA FoundFits ==
    ASSUME NEW clk, NEW bps, NEW pct, NEW lim \in Limits, NEW b \in 1 .. BrpMax,
           Tried(clk, bps, pct, lim, b) = "found"
    PROVE  /\ Found(clk, bps, pct, lim, b) \in Timing
           /\ InLimits(Found(clk, bps, pct, lim, b), lim)
  <1> DEFINE total == Total(clk, bps, b)
             t1 == Tseg1(total, pct)
             t2 == Tseg2(total, t1)
  <1>1. Fits(lim, total, t1, t2)
    BY DEF Tried
  <1> HIDE DEF total, t1, t2
  <1>2. /\ t1 \in lim.tseg1_min .. lim.tseg1_max
        /\ t2 \in lim.tseg2_min .. lim.tseg2_max
    BY <1>1 DEF Fits
  <1>3. /\ Solution(lim, b, t1, t2) \in Timing
        /\ InLimits(Solution(lim, b, t1, t2), lim)
    BY <1>2, LimitValues DEF Solution, Timing, InLimits
  <1> QED BY <1>3 DEF Found, total, t1, t2

\* In width the casts change nothing, unless the sample point rounds to zero.
LEMMA SegmentsExact ==
    ASSUME NEW total \in 0 .. (Half - 1), NEW pct \in 1 .. 99,
           Point(total, pct) # 0
    PROVE  /\ Tseg1(total, pct) = Point(total, pct) - 1
           /\ Tseg2(total, Tseg1(total, pct)) = total - Point(total, pct)
  <1> DEFINE q == Point(total, pct)
             t1 == Tseg1(total, pct)
             t2 == Tseg2(total, t1)
  <1>a. q \in 0 .. total /\ q # 0
    BY PointNearest, Zenon
  <1> HIDE DEF q
  <1>1. q \in 1 .. total
    BY <1>a
  <1>2. t1 = q - 1
    <2>1. t1 = ((q % Half) + Half - 1) % Half
      BY DEF Tseg1, q
    <2>2. q % Half = q
      BY <1>1
    <2>3. q + Half - 1 = (q - 1) + Half /\ q - 1 \in 0 .. (Half - 1)
      BY <1>1
    <2>4. ((q - 1) + Half) % Half = q - 1
      BY <2>3
    <2> QED BY <2>1, <2>2, <2>3, <2>4
  <1>3. t2 = total - q
    <2>1. t2 = (((total + Word) - 1 - (q - 1)) % Word) % Half
      BY <1>2 DEF Tseg2
    <2>2. /\ (total + Word) - 1 - (q - 1) = (total - q) + Word
          /\ total - q \in 0 .. (Half - 1)
      BY <1>1
    <2>3. ((total - q) + Word) % Word = total - q
      BY <2>2
    <2>4. (total - q) % Half = total - q
      BY <2>2
    <2>5. t2 = (total - q) % Half
      <3>1. t2 = (((total - q) + Word) % Word) % Half
        BY <2>1, <2>2, Zenon
      <3> QED BY <3>1, <2>3, Zenon
    <2> QED BY <2>4, <2>5
  <1> QED BY <1>2, <1>3 DEF q

\* If it does, the cast makes segment 1 too long to be accepted.
LEMMA PointPositive ==
    ASSUME NEW total \in 0 .. (Half - 1), NEW pct \in 1 .. 99, NEW lim \in Limits,
           NEW t2, Fits(lim, total, Tseg1(total, pct), t2)
    PROVE  Point(total, pct) # 0
  <1>1. SUFFICES ASSUME Point(total, pct) = 0 PROVE FALSE
    OBVIOUS
  <1>2. Tseg1(total, pct) = ((0 % Half) + Half - 1) % Half
    BY <1>1, Zenon DEF Tseg1
  <1>3. ((0 % Half) + Half - 1) % Half = Half - 1
    OBVIOUS
  <1> QED BY <1>2, <1>3, LimitValues DEF Fits

\* An accepted prescaler gives the exact rate at the nearest sample point.
LEMMA FoundIsRight ==
    ASSUME NEW clk \in Nat, NEW bps \in Nat \ {0}, NEW pct \in 1 .. 99,
           NEW lim \in Limits, NEW b \in 1 .. BrpMax, InWidth(clk, bps),
           Tried(clk, bps, pct, lim, b) = "found"
    PROVE  LET t == Found(clk, bps, pct, lim, b)
           IN  Exact(clk, bps, t) /\ Nearest(1 + t.tseg1, pct, Length(t))
  <1> DEFINE p == bps * b
             total == Total(clk, bps, b)
             t1 == Tseg1(total, pct)
             t2 == Tseg2(total, t1)
             q == Point(total, pct)
             t == Found(clk, bps, pct, lim, b)
  <1>1. /\ p \in Nat \ {0} /\ Product(bps, b) = p
        /\ total = clk \div p /\ total \in 0 .. (Half - 1)
    <2>1. p \in Nat \ {0} /\ Product(bps, b) = p
      BY ProductExact, Zenon
    <2>2. total = clk \div p /\ total \in 0 .. (Half - 1)
      BY TotalFits, Zenon
    <2> QED BY <2>1, <2>2, Zenon
  <1>2. clk % p = 0 /\ Fits(lim, total, t1, t2)
    BY <1>1 DEF Tried, Divides
  <1>3. clk = p * total
    <2>1. clk = p * (clk \div p) + (clk % p)
      BY <1>1, Division
    <2>2. p * total \in Nat
      BY <1>1
    <2> QED BY <1>1, <1>2, <2>1, <2>2
  <1>4. /\ q \in 0 .. total /\ Nearest(q, pct, total)
        /\ t1 = q - 1 /\ t2 = total - q
    <2>1. q # 0
      BY <1>1, <1>2, PointPositive, Zenon
    <2> QED BY <1>1, <2>1, PointNearest, SegmentsExact, Zenon
  <1>5. t.brp = b /\ t.tseg1 = t1 /\ t.tseg2 = t2
    BY DEF Found, Solution
  <1>6. 1 + t.tseg1 = q /\ Length(t) = total
    <2> HIDE DEF t, t1, t2, q, total
    <2> QED BY <1>1, <1>4, <1>5 DEF Length
  <1>7. Exact(clk, bps, t)
    <2>1. clk = bps * b * total
      BY <1>3
    <2> QED BY <2>1, <1>5, <1>6, Zenon DEF Exact
  <1> QED BY <1>4, <1>6, <1>7, Zenon

\* Conversely the search accepts every prescaler the reference does.
LEMMA FeasibleIsFound ==
    ASSUME NEW clk \in Nat, NEW bps \in Nat \ {0}, NEW pct \in 1 .. 99,
           NEW lim \in Limits, NEW b \in 1 .. BrpMax, InWidth(clk, bps),
           Feasible(clk, bps, pct, lim, b)
    PROVE  Tried(clk, bps, pct, lim, b) = "found"
  <1> DEFINE p == bps * b
             total == Total(clk, bps, b)
             t1 == Tseg1(total, pct)
             t2 == Tseg2(total, t1)
             q == Point(total, pct)
  <1>1. /\ p \in Nat \ {0} /\ Product(bps, b) = p
        /\ total = clk \div p /\ total \in 0 .. (Half - 1)
    <2>1. p \in Nat \ {0} /\ Product(bps, b) = p
      BY ProductExact, Zenon
    <2>2. total = clk \div p /\ total \in 0 .. (Half - 1)
      BY TotalFits, Zenon
    <2> QED BY <2>1, <2>2, Zenon
  <1>2. clk % p = 0 /\ total >= 4
    BY <1>1 DEF Feasible
  <1>3. PICK s1 \in lim.tseg1_min .. lim.tseg1_max,
             s2 \in lim.tseg2_min .. lim.tseg2_max :
               total = 1 + s1 + s2 /\ Nearest(1 + s1, pct, total)
    BY <1>1 DEF Feasible
  <1>4. q = 1 + s1
    <2>1. /\ q = (total * pct + 50) \div 100 /\ q \in 0 .. total
          /\ 100 * q <= total * pct + 50 /\ total * pct + 50 < 100 * (q + 1)
      BY <1>1, PointNearest DEF Nearest
    <2>2. s1 \in Nat /\ total * pct \in Nat
      BY <1>1, LimitValues
    <2>3. /\ 100 * (1 + s1) <= total * pct + 50
          /\ total * pct + 50 < 100 * ((1 + s1) + 1)
      BY <1>3 DEF Nearest
    <2> DEFINE x == total * pct
    <2> HIDE DEF x, q
    <2> QED BY <2>1, <2>2, <2>3 DEF x
  <1>5. t1 = s1 /\ t2 = s2
    <2>1. s1 \in Nat /\ s2 \in Nat
      BY LimitValues
    <2>2. q # 0
      BY <1>4, <2>1
    <2>3. t1 = q - 1 /\ t2 = total - q
      BY <1>1, <2>2, SegmentsExact, Zenon
    <2> HIDE DEF t1, t2, q, total
    <2> QED BY <1>3, <1>4, <2>1, <2>3
  <1>6. Fits(lim, total, t1, t2)
    BY <1>1, <1>3, <1>5, LimitValues DEF Fits
  <1> QED BY <1>1, <1>2, <1>6 DEF Tried, Divides

\* A rate in width never gives a zero divisor.
LEMMA NoZeroDivisor ==
    ASSUME NEW clk \in Nat, NEW bps \in Nat \ {0}, NEW pct, NEW lim,
           NEW b \in 1 .. BrpMax, Tried(clk, bps, pct, lim, b) = "trap"
    PROVE  ~InWidth(clk, bps)
  BY ProductExact DEF Tried

\* A longer quantum divides the clock into fewer.
LEMMA FewerQuanta ==
    ASSUME NEW clk \in Nat, NEW p \in Nat \ {0}, NEW r \in Nat \ {0}, p <= r,
           clk % p = 0, clk \div p < 4, clk % r = 0
    PROVE  clk \div r < 4
  <1> DEFINE t == clk \div p
             u == clk \div r
  <1>1. t \in 0 .. 3 /\ clk = p * t
    <2>1. clk = p * t + (clk % p) /\ t \in Nat
      BY Division, Zenon
    <2> HIDE DEF t
    <2> QED BY <2>1
  <1>2. u \in Nat /\ clk = r * u
    <2>1. clk = r * u + (clk % r) /\ u \in Nat
      BY Division, Zenon
    <2> HIDE DEF u
    <2> QED BY <2>1
  <1> HIDE DEF t, u
  <1>3. SUFFICES ASSUME u >= 4 PROVE FALSE
    BY <1>2 DEF u
  <1>4. p * t <= p * 3
    BY <1>1, ProductMonotone
  <1>5. r * 4 <= r * u
    BY <1>2, <1>3, ProductMonotone
  <1> QED BY <1>1, <1>2, <1>4, <1>5

\* Prescalers below, at and above a given one.
LEMMA PrescalerOrder ==
    ASSUME NEW b \in 1 .. BrpMax
    PROVE  /\ \A c \in 1 .. ((b + 1) - 1) : c \in 1 .. (b - 1) \/ c = b
           /\ \A c \in 1 .. ((BrpMax + 1) - 1) :
                 c \in 1 .. BrpMax /\ (c \in 1 .. (b - 1) \/ b <= c)
           /\ \A bps \in Nat, c \in 1 .. BrpMax : b <= c => bps * b <= bps * c
  <1>1. \A bps \in Nat, c \in 1 .. BrpMax : b <= c => bps * b <= bps * c
    BY ProductMonotone
  <1> QED BY <1>1

\* Fewer than four quanta are not at least four.
LEMMA Few == ASSUME NEW u \in Nat, u < 4 PROVE ~(u >= 4)
  OBVIOUS

\* Too few quanta at one prescaler are too few at every larger one.
LEMMA GiveUpIsRight ==
    ASSUME NEW clk \in Nat, NEW bps \in Nat \ {0}, NEW pct \in 1 .. 99,
           NEW lim \in Limits, NEW b \in 1 .. BrpMax, InWidth(clk, bps),
           Tried(clk, bps, pct, lim, b) = "give up",
           NEW c \in 1 .. BrpMax, b <= c
    PROVE  ~Feasible(clk, bps, pct, lim, c)
  <1>1. bps * b \in Nat \ {0} /\ Product(bps, b) = bps * b
    BY ProductExact, Zenon
  <1>2. bps * c \in Nat \ {0}
    BY ProductExact, Zenon
  <1>3. bps * b <= bps * c
    BY PrescalerOrder, Zenon
  <1>4. /\ Total(clk, bps, b) < 4 /\ Total(clk, bps, b) = clk \div (bps * b)
        /\ clk % (bps * b) = 0
    <2>1. clk % Product(bps, b) = 0 /\ Total(clk, bps, b) < 4
      BY DEF Tried, Divides
    <2>2. Total(clk, bps, b) = clk \div (bps * b)
      BY TotalFits, Zenon
    <2> QED BY <1>1, <2>1, <2>2, Zenon
  <1>5. clk % (bps * c) = 0 => clk \div (bps * c) < 4
    BY <1>1, <1>2, <1>3, <1>4, FewerQuanta
  <1>6. Feasible(clk, bps, pct, lim, c) => clk % (bps * c) = 0 /\ clk \div (bps * c) >= 4
    BY Zenon DEF Feasible
  <1>7. clk \div (bps * c) \in Nat
    BY <1>2, Division, Zenon
  <1> QED BY <1>5, <1>6, <1>7, Few, Zenon

----------------------------------------------------------------------------
(* The inductive invariant.                                                *)

\* What a solution is worth.
Good(clk, bps, pct, lim, t) == /\ t \in Timing
                               /\ InLimits(t, lim)
                               /\ Right(clk, bps, pct, t)
                               /\ NoneBelow(clk, bps, pct, lim, t.brp)

Point100 == pc \in {"nominal", "data", "write"} => UsedPct(sample_pct) \in 1 .. 99

\* The prescalers tried so far would not do.
Searched ==
    /\ pc = "nominal" => NoneBelow(can_clk_hz, nominal_bps, UsedPct(sample_pct),
                                   k_nominal_limits, brp)
    /\ pc = "data" => NoneBelow(can_clk_hz, data_bps, UsedPct(sample_pct),
                                k_data_limits, brp)

\* The solutions found so far are good.
Solved ==
    /\ pc \in {"data", "write"} =>
          Good(can_clk_hz, nominal_bps, UsedPct(sample_pct), k_nominal_limits, nominal)
    /\ pc = "write" =>
          Good(can_clk_hz, data_bps, UsedPct(sample_pct), k_data_limits, data)

\* So are those in the registers.
Written ==
    Configured =>
        /\ Good(applied.clk, applied.nominal, applied.pct, k_nominal_limits, hw.nbtcfg)
        /\ Good(applied.clk, applied.data, applied.pct, k_data_limits, hw.dbtcfg)
        /\ hw.tdco \in 1 .. 127

TimingInv == TimingTypeOK /\ Point100 /\ Searched /\ Solved /\ Written /\ NoTrap

\* It holds initially.
LEMMA InitTiming == TimingInit => TimingInv
  <1> SUFFICES ASSUME TimingInit PROVE TimingInv
    OBVIOUS
  <1>1. TimingTypeOK
    BY DEF TimingInit, TimingTypeOK, ContextTypeOK, Timing, NoTiming, NoArgs
  <1> QED BY <1>1 DEF TimingInit, TimingInv, Point100, Searched, Solved, Written,
                     Configured, NoTrap

\* A search that begins has tried nothing.
LEMMA NothingTried ==
    ASSUME NEW clk, NEW bps, NEW pct, NEW lim
    PROVE  NoneBelow(clk, bps, pct, lim, 1)
  BY DEF NoneBelow

\* A prescaler that is not accepted would not do.
LEMMA TriedInVain ==
    ASSUME NEW clk \in Nat, NEW bps \in Nat \ {0}, NEW pct \in 1 .. 99,
           NEW lim \in Limits, NEW b \in 1 .. BrpMax,
           NoneBelow(clk, bps, pct, lim, b),
           Tried(clk, bps, pct, lim, b) # "found"
    PROVE  NoneBelow(clk, bps, pct, lim, b + 1)
  <1> SUFFICES ASSUME InWidth(clk, bps), NEW c \in 1 .. ((b + 1) - 1)
               PROVE  ~Feasible(clk, bps, pct, lim, c)
    BY Zenon DEF NoneBelow
  <1>1. CASE c \in 1 .. (b - 1)
    BY <1>1, Zenon DEF NoneBelow
  <1>2. CASE c = b
    BY <1>2, FeasibleIsFound, Zenon
  <1>3. c \in 1 .. (b - 1) \/ c = b
    BY PrescalerOrder, Zenon
  <1> QED BY <1>1, <1>2, <1>3

\* After giving up, none would do.
LEMMA GivenUp ==
    ASSUME NEW clk \in Nat, NEW bps \in Nat \ {0}, NEW pct \in 1 .. 99,
           NEW lim \in Limits, NEW b \in 1 .. BrpMax,
           NoneBelow(clk, bps, pct, lim, b),
           Tried(clk, bps, pct, lim, b) = "give up"
    PROVE  NoneBelow(clk, bps, pct, lim, BrpMax + 1)
  <1> SUFFICES ASSUME InWidth(clk, bps), NEW c \in 1 .. ((BrpMax + 1) - 1)
               PROVE  ~Feasible(clk, bps, pct, lim, c)
    BY Zenon DEF NoneBelow
  <1>1. c \in 1 .. BrpMax /\ (c \in 1 .. (b - 1) \/ b <= c)
    BY PrescalerOrder, Zenon
  <1>2. CASE c \in 1 .. (b - 1)
    BY <1>2, Zenon DEF NoneBelow
  <1>3. CASE b <= c
    BY <1>1, <1>3, GiveUpIsRight, Zenon
  <1> QED BY <1>1, <1>2, <1>3

\* The prescaler accepted is good.
LEMMA FoundIsGood ==
    ASSUME NEW clk \in Nat, NEW bps \in Nat \ {0}, NEW pct \in 1 .. 99,
           NEW lim \in Limits, NEW b \in 1 .. BrpMax,
           NoneBelow(clk, bps, pct, lim, b),
           Tried(clk, bps, pct, lim, b) = "found"
    PROVE  Good(clk, bps, pct, lim, Found(clk, bps, pct, lim, b))
  <1>1. Found(clk, bps, pct, lim, b).brp = b
    BY DEF Found, Solution
  <1>2. Right(clk, bps, pct, Found(clk, bps, pct, lim, b))
    BY FoundIsRight, Zenon DEF Right
  <1> QED BY <1>1, <1>2, FoundFits, Zenon DEF Good

\* The arguments of the searches are what the lemmas ask for.
LEMMA ArgumentTypes ==
    ASSUME TimingInv, NEW lim \in Limits
    PROVE  /\ can_clk_hz \in Nat /\ nominal_bps \in Nat \ {0} /\ data_bps \in Nat \ {0}
           /\ pc \in {"nominal", "data", "write"} => UsedPct(sample_pct) \in 1 .. 99
           /\ InPhase("nominal") \/ InPhase("data") => brp \in 1 .. BrpMax
  BY DEF TimingInv, TimingTypeOK, ContextTypeOK, Point100, InPhase

\* A sample point that passes the argument tests is a proper percentage.
LEMMA UsedPctPositive ==
    ASSUME NEW pct \in 0 .. 255, UsedPct(pct) < 100
    PROVE  UsedPct(pct) \in 1 .. 99
  BY DEF UsedPct, DEFAULT_SAMPLE_PCT

\* So is one derived from bit_segments, or it stands for the default.
LEMMA DerivedPctType ==
    ASSUME NEW seg \in Nat, NEW old \in 0 .. 255
    PROVE  DerivedPct(seg, old) \in 0 .. 255
  <1>1. PropSeg(seg) \in Nat /\ PhaseSeg1(seg) \in Nat /\ PhaseSeg2(seg) \in Nat
    BY DEF PropSeg, PhaseSeg1, PhaseSeg2
  <1>2. Quanta(seg) \in Nat \ {0}
    BY <1>1 DEF Quanta
  <1>3. (1 + PropSeg(seg) + PhaseSeg1(seg)) * 100 \in Nat
    BY <1>1
  <1>4. ((1 + PropSeg(seg) + PhaseSeg1(seg)) * 100) \div Quanta(seg) \in Nat
    BY <1>2, <1>3, Division, Zenon
  <1> QED BY <1>4 DEF DerivedPct

----------------------------------------------------------------------------
(* Every step keeps it.                                                    *)

\* Starting a calculation, from a context of the right types.
LEMMA CalculateKeeps ==
    ASSUME TimingInv,
           nominal_bps' \in Rate, data_bps' \in Rate, sample_pct' \in 0 .. 255,
           segments' \in BitSegments \cup {0}, pc = "idle",
           Calculate(can_clk_hz, nominal_bps', data_bps', sample_pct'),
           UNCHANGED <<can_clk_hz, hw, applied>>
    PROVE  TimingInv'
  <1>1. TimingTypeOK'
    BY DEF TimingInv, TimingTypeOK, ContextTypeOK, Calculate, Timing, NoTiming
  <1>2. Point100'
    <2>1. \/ pc' = "idle"
          \/ pc' = "nominal" /\ UsedPct(sample_pct') < 100
      BY DEF Calculate
    <2>2. ASSUME UsedPct(sample_pct') < 100
          PROVE  UsedPct(sample_pct') \in 1 .. 99
      <3>1. sample_pct' \in 0 .. 255
        OBVIOUS
      <3> QED BY <2>2, <3>1, UsedPctPositive, Zenon
    <2>3. UsedPct(sample_pct)' = UsedPct(sample_pct')
      BY DEF UsedPct
    <2> QED BY <2>1, <2>2, <2>3 DEF Point100
  <1>3. Searched'
    BY NothingTried DEF Searched, Calculate
  <1>4. Solved'
    BY DEF Solved, Calculate
  <1>5. Written'
    BY DEF TimingInv, Written, Configured
  <1>6. NoTrap'
    BY DEF NoTrap, Calculate
  <1> QED BY <1>1, <1>2, <1>3, <1>4, <1>5, <1>6 DEF TimingInv

\* No call disturbs it: a call starts a search at prescaler 1, or leaves the context only.
LEMMA CallKeeps == TimingInv /\ Call => TimingInv'
  <1> SUFFICES ASSUME TimingInv, Call PROVE TimingInv'
    OBVIOUS
  <1>1. ASSUME NEW seg \in BitSegments, Derive(seg)
        PROVE  sample_pct' \in 0 .. 255 /\ segments' \in BitSegments \cup {0}
    <2>1. seg \in Nat
      OBVIOUS
    <2> QED BY <1>1, <2>1, DerivedPctType DEF Derive, TimingInv, TimingTypeOK, ContextTypeOK
  <1>2. CASE \E b \in Rate, seg \in BitSegments : SetNominal(b, seg)
    BY <1>1, <1>2, CalculateKeeps DEF SetNominal, TimingInv, TimingTypeOK, ContextTypeOK
  <1>3. CASE \E b \in Rate, seg \in BitSegments : SetData(b, seg)
    BY <1>1, <1>3, CalculateKeeps DEF SetData, TimingInv, TimingTypeOK, ContextTypeOK
  <1>4. CASE ApplyInit
    BY <1>4, CalculateKeeps DEF ApplyInit, ctxVars, TimingInv, TimingTypeOK, ContextTypeOK
  <1>5. CASE \E n, d \in Rate, seg \in BitSegments : Store(n, d, seg)
    <2>1. PICK n \in Rate, d \in Rate, seg \in BitSegments : Store(n, d, seg)
      BY <1>5
    <2>2. pc = "idle" /\ pc' = "idle" /\ nominal_bps' = n /\ data_bps' = d
          /\ UNCHANGED <<can_clk_hz, brp, nominal, data, hw, applied>>
      BY <2>1 DEF Store, localVars
    <2>3. sample_pct' \in 0 .. 255 /\ segments' \in BitSegments \cup {0}
      BY <1>1, <2>1 DEF Store
    <2>4. TimingTypeOK'
      BY <2>2, <2>3 DEF TimingInv, TimingTypeOK, ContextTypeOK
    <2>5. Point100' /\ Searched' /\ Solved' /\ NoTrap'
      BY <2>2 DEF Point100, Searched, Solved, NoTrap
    <2>6. Written'
      BY <2>2 DEF TimingInv, Written, Configured
    <2> QED BY <2>4, <2>5, <2>6 DEF TimingInv
  <1> QED BY <1>2, <1>3, <1>4, <1>5 DEF Call

\* A prescaler skipped is one that would not do.
LEMMA SkipKeeps ==
    ASSUME TimingInv, Skip("nominal", NominalTry) \/ Skip("data", DataTry)
    PROVE  TimingInv'
  <1>1. brp \in 1 .. BrpMax /\ brp' = brp + 1
        /\ UNCHANGED <<ctxVars, pc, nominal, data, hw, segments, applied>>
    BY ArgumentTypes DEF Skip, Limits
  <1>2. TimingTypeOK'
    BY <1>1 DEF TimingInv, TimingTypeOK, ContextTypeOK, ctxVars
  <1>3. Searched'
    <2>1. CASE pc = "nominal"
      <3>1. NominalTry = "skip"
        BY <2>1 DEF Skip, InPhase
      <3>2. NoneBelow(can_clk_hz, nominal_bps, UsedPct(sample_pct),
                      k_nominal_limits, brp + 1)
        BY <1>1, <2>1, <3>1, ArgumentTypes, TriedInVain
           DEF NominalTry, TimingInv, Searched, Limits
      <3> QED BY <1>1, <2>1, <3>2 DEF Searched, ctxVars
    <2>2. CASE pc = "data"
      <3>1. DataTry = "skip"
        BY <2>2 DEF Skip, InPhase
      <3>2. NoneBelow(can_clk_hz, data_bps, UsedPct(sample_pct),
                      k_data_limits, brp + 1)
        BY <1>1, <2>2, <3>1, ArgumentTypes, TriedInVain
           DEF DataTry, TimingInv, Searched, Limits
      <3> QED BY <1>1, <2>2, <3>2 DEF Searched, ctxVars
    <2> QED BY <1>1, <2>1, <2>2 DEF Searched
  <1>4. Point100' /\ Solved' /\ Written' /\ NoTrap'
    BY <1>1 DEF TimingInv, Point100, Solved, Written, Configured, NoTrap, BothInWidth,
               ctxVars
  <1> QED BY <1>2, <1>3, <1>4 DEF TimingInv

\* A search given up changes nothing else.
LEMMA FailKeeps ==
    ASSUME TimingInv, Fail("nominal", NominalTry) \/ Fail("data", DataTry)
    PROVE  TimingInv'
  <1>1. pc' = "idle" /\ UNCHANGED <<ctxVars, brp, nominal, data, hw, segments, applied>>
    BY DEF Fail
  <1>2. TimingTypeOK'
    BY <1>1 DEF TimingInv, TimingTypeOK, ContextTypeOK, ctxVars
  <1> QED BY <1>1, <1>2 DEF TimingInv, Point100, Searched, Solved, Written, Configured,
                           NoTrap

\* A division by zero is possible only out of the width.
LEMMA TrapKeeps ==
    ASSUME TimingInv, Trap("nominal", NominalTry) \/ Trap("data", DataTry)
    PROVE  TimingInv'
  <1>1. pc' = "trap" /\ UNCHANGED <<ctxVars, brp, nominal, data, hw, segments, applied>>
    BY DEF Trap
  <1>2. TimingTypeOK'
    BY <1>1 DEF TimingInv, TimingTypeOK, ContextTypeOK, ctxVars
  <1>3. ~BothInWidth
    <2>1. CASE Trap("nominal", NominalTry)
      BY <2>1, ArgumentTypes, NoZeroDivisor DEF Trap, NominalTry, BothInWidth, Limits
    <2>2. CASE Trap("data", DataTry)
      BY <2>2, ArgumentTypes, NoZeroDivisor DEF Trap, DataTry, BothInWidth, Limits
    <2> QED BY <2>1, <2>2
  <1>4. NoTrap'
    BY <1>1, <1>3 DEF NoTrap, BothInWidth, ctxVars
  <1> QED BY <1>1, <1>2, <1>4 DEF TimingInv, Point100, Searched, Solved, Written,
                                 Configured

\* The nominal solution is good.
LEMMA FindNominalKeeps ==
    ASSUME TimingInv, FindNominal PROVE TimingInv'
  <1>1. /\ pc = "nominal" /\ brp \in 1 .. BrpMax /\ pc' = "data" /\ brp' = 1
        /\ UNCHANGED <<ctxVars, data, hw, segments, applied>>
    BY ArgumentTypes DEF FindNominal, InPhase, Limits
  <1>2. Good(can_clk_hz, nominal_bps, UsedPct(sample_pct), k_nominal_limits, nominal')
    <2>1. NoneBelow(can_clk_hz, nominal_bps, UsedPct(sample_pct), k_nominal_limits, brp)
      BY <1>1 DEF TimingInv, Searched
    <2> QED BY <1>1, <2>1, ArgumentTypes, FoundIsGood DEF FindNominal, NominalTry, Limits
  <1>3. TimingTypeOK'
    BY <1>1, <1>2 DEF TimingInv, TimingTypeOK, ContextTypeOK, ctxVars, Good
  <1>4. Searched'
    BY <1>1, NothingTried DEF Searched
  <1>5. Solved'
    BY <1>1, <1>2 DEF Solved, ctxVars
  <1>6. Point100' /\ Written' /\ NoTrap'
    BY <1>1 DEF TimingInv, Point100, Written, Configured, NoTrap, ctxVars
  <1> QED BY <1>3, <1>4, <1>5, <1>6 DEF TimingInv

\* The data solution is good.
LEMMA FindDataKeeps ==
    ASSUME TimingInv, FindData PROVE TimingInv'
  <1>1. /\ pc = "data" /\ brp \in 1 .. BrpMax /\ pc' = "write"
        /\ UNCHANGED <<ctxVars, brp, nominal, hw, segments, applied>>
    BY ArgumentTypes DEF FindData, InPhase, Limits
  <1>2. Good(can_clk_hz, data_bps, UsedPct(sample_pct), k_data_limits, data')
    <2>1. NoneBelow(can_clk_hz, data_bps, UsedPct(sample_pct), k_data_limits, brp)
      BY <1>1 DEF TimingInv, Searched
    <2> QED BY <1>1, <2>1, ArgumentTypes, FoundIsGood DEF FindData, DataTry, Limits
  <1>3. TimingTypeOK'
    BY <1>1, <1>2 DEF TimingInv, TimingTypeOK, ContextTypeOK, ctxVars, Good
  <1>4. Solved'
    BY <1>1, <1>2 DEF TimingInv, Solved, ctxVars
  <1>5. Point100' /\ Searched' /\ Written' /\ NoTrap'
    BY <1>1 DEF TimingInv, Point100, Searched, Written, Configured, NoTrap, ctxVars
  <1> QED BY <1>3, <1>4, <1>5 DEF TimingInv

\* The delay offset of a good data timing is positive and fits its seven bits.
LEMMA TdcoFits ==
    ASSUME NEW t \in Timing, InLimits(t, k_data_limits)
    PROVE  Tdco(t) \in 1 .. 127
  <1>1. t.brp \in 1 .. 256 /\ t.tseg1 \in 1 .. 32
    BY DEF InLimits, k_data_limits
  <1> DEFINE x == t.brp
             y == t.tseg1
  <1> HIDE DEF x, y
  <1>2. x \in 1 .. 256 /\ y \in 1 .. 32
    BY <1>1 DEF x, y
  <1>3. x * y \in Nat /\ x * y >= 1
    BY <1>2
  <1>4. (IF x * y > 127 THEN 127 ELSE x * y) \in 1 .. 127
    BY <1>3
  <1> QED BY <1>4 DEF Tdco, x, y

\* What is written are two good solutions.
LEMMA WriteKeeps ==
    ASSUME TimingInv, WriteRegisters PROVE TimingInv'
  <1>1. /\ pc = "write" /\ pc' = "idle"
        /\ UNCHANGED <<ctxVars, brp, nominal, data, segments>>
        /\ hw' = [nbtcfg |-> nominal, dbtcfg |-> data, tdco |-> Tdco(data)]
        /\ applied' = [clk |-> can_clk_hz, nominal |-> nominal_bps, data |-> data_bps,
                       pct |-> UsedPct(sample_pct), seg |-> segments]
    BY DEF WriteRegisters
  <1>2. /\ Good(can_clk_hz, nominal_bps, UsedPct(sample_pct), k_nominal_limits, nominal)
        /\ Good(can_clk_hz, data_bps, UsedPct(sample_pct), k_data_limits, data)
        /\ UsedPct(sample_pct) \in 1 .. 99
    BY <1>1 DEF TimingInv, Solved, Point100
  <1>3. Tdco(data) \in 1 .. 127
    BY <1>2, TdcoFits DEF Good
  <1>4. TimingTypeOK'
    <2>1. /\ can_clk_hz \in Nat /\ nominal_bps \in Nat /\ data_bps \in Nat
          /\ segments \in Nat
      BY DEF TimingInv, TimingTypeOK, ContextTypeOK
    <2>2. applied' \in [clk : Nat, nominal : Nat, data : Nat, pct : Nat, seg : Nat]
      BY <1>1, <1>2, <2>1
    <2>3. hw' \in [nbtcfg : Timing, dbtcfg : Timing, tdco : Nat]
      BY <1>1, <1>2, <1>3 DEF Good
    <2> QED BY <1>1, <2>2, <2>3 DEF TimingInv, TimingTypeOK, ContextTypeOK, ctxVars
  <1>5. Written'
    BY <1>1, <1>2, <1>3 DEF Written
  <1>6. Point100' /\ Searched' /\ Solved' /\ NoTrap'
    BY <1>1 DEF Point100, Searched, Solved, NoTrap
  <1> QED BY <1>4, <1>5, <1>6 DEF TimingInv

\* A stutter changes nothing.
LEMMA StutterKeeps == TimingInv /\ UNCHANGED timingVars => TimingInv'
  BY DEF TimingInv, TimingTypeOK, ContextTypeOK, Point100, Searched, Solved, Written,
         Configured, NoTrap, BothInWidth, timingVars, ctxVars, localVars

\* TimingInv is an invariant of the calls, one lemma per action.
THEOREM TimingInvariant == TimingSpec => []TimingInv
  <1>1. TimingInit => TimingInv
    BY InitTiming
  <1>2. TimingInv /\ [TimingNext]_timingVars => TimingInv'
    BY CallKeeps, SkipKeeps, FailKeeps, TrapKeeps, FindNominalKeeps, FindDataKeeps,
       WriteKeeps, StutterKeeps DEF TimingNext, Solve, Search
  <1> QED BY <1>1, <1>2, PTL DEF TimingSpec

----------------------------------------------------------------------------
(* What follows from it.                                                   *)

\* The context, the locals and the registers keep their types.
THEOREM TimingAlwaysTyped == TimingSpec => []TimingTypeOK
  <1>1. TimingInv => TimingTypeOK
    BY DEF TimingInv
  <1> QED BY <1>1, TimingInvariant, PTL

\* No field of NBTCFG, DBTCFG or TDC is ever written with a value outside its
\* range, for any rate, also one whose products wrap.
THEOREM FieldsAlwaysFit == TimingSpec => []FieldsFit
  <1>1. TimingInv => FieldsFit
    BY DEF TimingInv, Written, Good, FieldsFit
  <1> QED BY <1>1, TimingInvariant, PTL

\* With the rates the arithmetic has room for, the registers give exactly the
\* rate and the nearest sample point that were asked for.
THEOREM RateAndPointAlwaysRight == TimingSpec => []RateAndPointRight
  <1>1. TimingInv => RateAndPointRight
    BY DEF TimingInv, Written, Good, RateAndPointRight
  <1> QED BY <1>1, TimingInvariant, PTL

\* They do so with the smallest prescaler that does.
THEOREM PrescalerAlwaysSmallest == TimingSpec => []SmallestPrescaler
  <1>1. TimingInv => SmallestPrescaler
    BY DEF TimingInv, Written, Good, SmallestPrescaler
  <1> QED BY <1>1, TimingInvariant, PTL

\* solve_phase divides by zero for none of them.
THEOREM NeverTrapsInWidth == TimingSpec => []NoTrap
  <1>1. TimingInv => NoTrap
    BY DEF TimingInv
  <1> QED BY <1>1, TimingInvariant, PTL

\* A search that ends without a result has missed none.
LEMMA RefusalJustified == TimingInv /\ [TimingNext]_timingVars => RefusalStep
  <1> SUFFICES ASSUME TimingInv, [TimingNext]_timingVars PROVE RefusalStep
    OBVIOUS
  <1>1. ASSUME pc = "nominal", pc' = "idle"
        PROVE  NoneBelow(can_clk_hz, nominal_bps, UsedPct(sample_pct),
                         k_nominal_limits, BrpMax + 1)
    <2>1. Fail("nominal", NominalTry)
      BY <1>1 DEF TimingNext, Call, SetNominal, SetData, Store, ApplyInit, Solve, Search, Skip,
                  Fail, Trap, InPhase, FindNominal, FindData, WriteRegisters, timingVars,
                  localVars
    <2>2. NoneBelow(can_clk_hz, nominal_bps, UsedPct(sample_pct), k_nominal_limits, brp)
      BY <1>1 DEF TimingInv, Searched
    <2>3. CASE brp > BrpMax
      <3>1. brp = BrpMax + 1
        BY <2>3 DEF TimingInv, TimingTypeOK
      <3> QED BY <2>2, <3>1
    <2>4. CASE InPhase("nominal") /\ NominalTry = "give up"
      BY <1>1, <2>2, <2>4, ArgumentTypes, GivenUp DEF NominalTry, Limits
    <2> QED BY <2>1, <2>3, <2>4 DEF Fail
  <1>2. ASSUME pc = "data", pc' = "idle"
        PROVE  NoneBelow(can_clk_hz, data_bps, UsedPct(sample_pct),
                         k_data_limits, BrpMax + 1)
    <2>1. Fail("data", DataTry)
      BY <1>2 DEF TimingNext, Call, SetNominal, SetData, Store, ApplyInit, Solve, Search, Skip,
                  Fail, Trap, InPhase, FindNominal, FindData, WriteRegisters, timingVars,
                  localVars
    <2>2. NoneBelow(can_clk_hz, data_bps, UsedPct(sample_pct), k_data_limits, brp)
      BY <1>2 DEF TimingInv, Searched
    <2>3. CASE brp > BrpMax
      <3>1. brp = BrpMax + 1
        BY <2>3 DEF TimingInv, TimingTypeOK
      <3> QED BY <2>2, <3>1
    <2>4. CASE InPhase("data") /\ DataTry = "give up"
      BY <1>2, <2>2, <2>4, ArgumentTypes, GivenUp DEF DataTry, Limits
    <2> QED BY <2>1, <2>3, <2>4 DEF Fail
  <1> QED BY <1>1, <1>2, Zenon DEF RefusalStep

\* A rate in width is refused only if no prescaler at all would do.
THEOREM RefusalsAlwaysJustified == TimingSpec => RefusedOnlyIfImpossible
  <1>1. TimingInv /\ [TimingNext]_timingVars => [RefusalStep]_timingVars
    BY RefusalJustified
  <1> QED BY <1>1, TimingInvariant, PTL DEF TimingSpec, RefusedOnlyIfImpossible
----------------------------------------------------------------------------
(* The way of the sample point through whole per cents and back.           *)

\* Rounded down to whole per cents and to the nearest of at most 50 quanta, a
\* number of quanta p comes back: what the first rounding takes away is at
\* most half a quantum, and the second gives it back.
LEMMA RoundTrip ==
    ASSUME NEW n \in 1 .. 50, NEW p \in 1 .. (n - 1), NEW q \in Nat,
           Nearest(q, (p * 100) \div n, n)
    PROVE  q = p
  <1> DEFINE c == (p * 100) \div n
             r == (p * 100) % n
             x == n * c
  <1>0. n \in Nat \ {0} /\ p * 100 \in Nat
    OBVIOUS
  <1>1. c \in Nat /\ r \in 0 .. (n - 1) /\ p * 100 = x + r
    BY <1>0, Division, Zenon
  <1>2. x \in Nat
    BY <1>1
  <1>3. 100 * q <= x + 50 /\ x + 50 < 100 * (q + 1)
    BY DEF Nearest
  <1> HIDE DEF c, r, x
  <1>4. p * 100 - 50 < x + 1 /\ x <= p * 100
    BY <1>1, <1>2
  <1> QED BY <1>2, <1>3, <1>4

\* A percentage derived from segments is at least two and below a hundred, so no
\* byte cuts it and it does not ask for the default.
LEMMA PercentageKept ==
    ASSUME NEW n \in 1 .. 50, NEW p \in 1 .. (n - 1)
    PROVE  UsedPct(((p * 100) \div n) % 256) = (p * 100) \div n
  <1> DEFINE c == (p * 100) \div n
  <1>1. c \in Nat /\ n * c <= p * 100 /\ p * 100 < n * c + n
    <2>0. n \in Nat \ {0} /\ p * 100 \in Nat
      OBVIOUS
    <2>1. /\ c \in Nat /\ (p * 100) % n \in 0 .. (n - 1)
          /\ p * 100 = n * c + ((p * 100) % n)
      BY <2>0, Division, Zenon
    <2> DEFINE x == n * c
    <2>2. x \in Nat
      BY <2>1
    <2> HIDE DEF c, x
    <2> QED BY <2>1, <2>2 DEF x
  <1> HIDE DEF c
  <1>2. c # 0
    <2>1. c = 0 => n * c = 0
      BY <1>1
    <2> QED BY <1>1, <2>1
  <1>3. ASSUME c >= 256 PROVE FALSE
    <2>1. n * 256 <= n * c
      BY <1>1, <1>3, ProductMonotone
    <2>2. n * c \in Nat
      BY <1>1
    <2> QED BY <1>1, <2>1, <2>2
  <1>4. c % 256 = c
    BY <1>1, <1>3
  <1> QED BY <1>2, <1>4 DEF UsedPct, c

\* So a timing of as many quanta, at the sample point derived from segments, has
\* those very segments.
LEMMA SegmentsComeBack ==
    ASSUME NEW seg \in Nat, NEW t \in Timing, PhaseSeg2(seg) # 0,
           Quanta(seg) = Length(t), Length(t) <= 50,
           Nearest(1 + t.tseg1, UsedPct(DerivedPct(seg, 0)), Length(t))
    PROVE  t.tseg1 = PropSeg(seg) + PhaseSeg1(seg) /\ t.tseg2 = PhaseSeg2(seg)
  <1> DEFINE n == Length(t)
             p == 1 + PropSeg(seg) + PhaseSeg1(seg)
             c == (p * 100) \div n
  <1>1. /\ PropSeg(seg) \in Nat /\ PhaseSeg1(seg) \in Nat /\ PhaseSeg2(seg) \in Nat \ {0}
        /\ t.tseg1 \in Nat /\ t.tseg2 \in Nat
    BY DEF PropSeg, PhaseSeg1, PhaseSeg2, Timing
  <1>2. n = p + PhaseSeg2(seg) /\ n = 1 + t.tseg1 + t.tseg2
    BY <1>1 DEF Quanta, Length
  <1>3. n \in 1 .. 50 /\ p \in 1 .. (n - 1)
    BY <1>1, <1>2
  <1>4. DerivedPct(seg, 0) = c % 256
    BY DEF DerivedPct
  <1> HIDE DEF n, p
  <1>5. UsedPct(c % 256) = c
    BY <1>3, PercentageKept
  <1>6. Nearest(1 + t.tseg1, c, n)
    BY <1>4, <1>5 DEF n
  <1>7. 1 + t.tseg1 \in Nat
    BY <1>1
  <1>8. 1 + t.tseg1 = p
    BY <1>3, <1>6, <1>7, RoundTrip
  <1> QED BY <1>1, <1>2, <1>8 DEF p

\* The sample point in the context is the one the last bit_segments gave, and
\* the registers were computed from that of their time.
SegmentsKnown ==
    /\ segments # 0 => /\ PhaseSeg2(segments) # 0
                       /\ sample_pct = DerivedPct(segments, 0)
    /\ applied.seg # 0 => /\ PhaseSeg2(applied.seg) # 0
                          /\ applied.pct = UsedPct(DerivedPct(applied.seg, 0))

\* Every step keeps it: only Derive replaces a sample point, and with it the
\* segments it is from.
LEMMA StepSegments ==
    ASSUME SegmentsKnown, [TimingNext]_timingVars
    PROVE  SegmentsKnown'
  <1>1. ASSUME NEW seg, Derive(seg), applied' = applied
        PROVE  SegmentsKnown'
    <2>1. CASE PhaseSeg2(seg) = 0
      BY <1>1, <2>1 DEF Derive, DerivedPct, SegmentsKnown
    <2>2. CASE PhaseSeg2(seg) # 0
      <3>1. segments' = seg /\ sample_pct' = DerivedPct(seg, 0)
        BY <1>1, <2>2 DEF Derive, DerivedPct
      <3> QED BY <1>1, <2>2, <3>1 DEF SegmentsKnown
    <2> QED BY <2>1, <2>2
  <1>2. CASE \E b \in Rate, seg \in BitSegments : SetNominal(b, seg) \/ SetData(b, seg)
    BY <1>1, <1>2 DEF SetNominal, SetData
  <1>3. CASE \E n, d \in Rate, seg \in BitSegments : Store(n, d, seg)
    BY <1>1, <1>3 DEF Store
  <1>4. CASE ApplyInit
    BY <1>4 DEF ApplyInit, ctxVars, SegmentsKnown
  <1>5. CASE Search("nominal", NominalTry) \/ Search("data", DataTry)
    BY <1>5 DEF Search, Skip, Fail, Trap, ctxVars, SegmentsKnown
  <1>6. CASE FindNominal \/ FindData
    BY <1>6 DEF FindNominal, FindData, ctxVars, SegmentsKnown
  <1>7. CASE WriteRegisters
    BY <1>7 DEF WriteRegisters, ctxVars, SegmentsKnown
  <1>8. CASE UNCHANGED timingVars
    BY <1>8 DEF timingVars, ctxVars, SegmentsKnown
  <1> QED BY <1>2, <1>3, <1>4, <1>5, <1>6, <1>7, <1>8 DEF TimingNext, Call, Solve

\* A sample point given as bit_segments survives its way through whole per cents:
\* whatever came in between, a bit of at most 50 quanta gets the very segments
\* that were asked for.
THEOREM SegmentsAlwaysReproduced == TimingSpec => []SegmentsReproduced
  <1>1. TimingInit => SegmentsKnown
    BY DEF TimingInit, SegmentsKnown, NoArgs
  <1>2. SegmentsKnown /\ [TimingNext]_timingVars => SegmentsKnown'
    BY StepSegments
  <1>3. TimingInv /\ SegmentsKnown => SegmentsReproduced
    <2> SUFFICES ASSUME TimingInv, SegmentsKnown, Configured PROVE SegmentsReproduced
      BY DEF SegmentsReproduced
    <2>1. applied.seg \in Nat
      BY DEF TimingInv, TimingTypeOK
    <2>2. ASSUME NEW bps, NEW t \in Timing, Right(applied.clk, bps, applied.pct, t)
          PROVE  Reproduced(bps, applied.seg, t)
      BY <2>1, <2>2, SegmentsComeBack DEF SegmentsKnown, Right, Reproduced
    <2> QED BY <2>2 DEF TimingInv, Written, Good, SegmentsReproduced
  <1> QED BY <1>1, <1>2, <1>3, TimingInvariant, PTL DEF TimingSpec
----------------------------------------------------------------------------
(* The verdict of the search.                                              *)

\* The quotient of a product is the other factor.
LEMMA ExactDivision ==
    ASSUME NEW p \in Nat \ {0}, NEW m \in Nat
    PROVE  (p * m) % p = 0 /\ (p * m) \div p = m
  <1> DEFINE n == p * m
             q == n \div p
             r == n % p
  <1>1. n \in Nat
    OBVIOUS
  <1>2. q \in Nat /\ r \in 0 .. (p - 1) /\ n = p * q + r
    BY <1>1, Division, Zenon
  <1> HIDE DEF q, r
  <1>3. ASSUME m < q PROVE FALSE
    <2>1. p * (m + 1) <= p * q
      BY <1>2, <1>3, ProductMonotone
    <2>2. p * (m + 1) = p * m + p /\ p * q \in Nat /\ p * m \in Nat
      BY <1>2
    <2> QED BY <1>2, <2>1, <2>2
  <1>4. ASSUME q < m PROVE FALSE
    <2>1. p * (q + 1) <= p * m
      BY <1>2, <1>4, ProductMonotone
    <2>2. p * (q + 1) = p * q + p /\ p * q \in Nat /\ p * m \in Nat
      BY <1>2
    <2> QED BY <1>2, <2>1, <2>2
  <1>5. q = m
    BY <1>2, <1>3, <1>4
  <1>6. r = 0
    <2>1. p * q = p * m /\ p * m \in Nat
      BY <1>5
    <2> QED BY <1>2, <2>1
  <1> QED BY <1>5, <1>6 DEF q, r

\* For a rate in width the code's tests on a prescaler, wrapped, cut and rounded as
\* they are, decide exactly whether the prescaler will do, and the segments computed
\* are the only ones that do.
THEOREM TestsDecideFeasible ==
    ASSUME NEW clk \in Nat, NEW bps \in Nat \ {0}, NEW pct \in 1 .. 99,
           NEW lim \in Limits, NEW b \in 1 .. BrpMax, InWidth(clk, bps)
    PROVE  /\ Tried(clk, bps, pct, lim, b) = "found" <=> Feasible(clk, bps, pct, lim, b)
           /\ \A t \in Timing :
                 /\ Tried(clk, bps, pct, lim, b) = "found"
                 /\ t.brp = b /\ Exact(clk, bps, t) /\ Nearest(1 + t.tseg1, pct, Length(t))
                 => LET found == Found(clk, bps, pct, lim, b)
                    IN  t.tseg1 = found.tseg1 /\ t.tseg2 = found.tseg2
  <1> DEFINE p == bps * b
             found == Found(clk, bps, pct, lim, b)
  <1>1. p \in Nat \ {0} /\ Product(bps, b) = p /\ Total(clk, bps, b) = clk \div p
    <2>1. p \in Nat \ {0} /\ Product(bps, b) = p
      BY ProductExact, Zenon
    <2>2. Total(clk, bps, b) = clk \div p
      BY TotalFits, Zenon
    <2> QED BY <2>1, <2>2, Zenon
  <1>2. ASSUME NEW t \in Timing, t.brp = b, Exact(clk, bps, t)
        PROVE  clk % p = 0 /\ clk \div p = Length(t)
    <2>1. Length(t) \in Nat
      BY DEF Timing, Length
    <2>2. clk = p * Length(t)
      BY <1>2, Zenon DEF Exact
    <2> QED BY <1>1, <2>1, <2>2, ExactDivision, Zenon
  <1>3. ASSUME Tried(clk, bps, pct, lim, b) = "found"
        PROVE  /\ found \in Timing /\ found.brp = b /\ InLimits(found, lim)
               /\ Exact(clk, bps, found) /\ Nearest(1 + found.tseg1, pct, Length(found))
               /\ clk \div p >= 4
    <2>1. found \in Timing /\ InLimits(found, lim)
      BY <1>3, FoundFits, Zenon
    <2>2. Exact(clk, bps, found) /\ Nearest(1 + found.tseg1, pct, Length(found))
      BY <1>3, FoundIsRight, Zenon
    <2>3. found.brp = b
      BY DEF Found, Solution
    <2>4. ~(Total(clk, bps, b) < 4)
      BY <1>3, Zenon DEF Tried
    <2>5. clk \div p \in Nat
      BY <1>1, Division, Zenon
    <2>6. ~(clk \div p < 4)
      BY <1>1, <2>4, Zenon
    <2> DEFINE n == clk \div p
    <2> HIDE DEF n
    <2>7. n >= 4
      BY <2>5, <2>6 DEF n
    <2> QED BY <2>1, <2>2, <2>3, <2>7 DEF n
  <1>4. ASSUME Tried(clk, bps, pct, lim, b) = "found"
        PROVE  Feasible(clk, bps, pct, lim, b)
    <2>1. clk % p = 0 /\ clk \div p = Length(found)
      BY <1>2, <1>3, <1>4, Zenon
    <2>2. /\ found.tseg1 \in lim.tseg1_min .. lim.tseg1_max
          /\ found.tseg2 \in lim.tseg2_min .. lim.tseg2_max
      BY <1>3, <1>4, Zenon DEF InLimits
    <2>3. clk \div p = 1 + found.tseg1 + found.tseg2
      BY <2>1, Zenon DEF Length
    <2>4. Nearest(1 + found.tseg1, pct, clk \div p)
      BY <1>3, <1>4, <2>1, Zenon
    <2> HIDE DEF found
    <2> QED BY <1>3, <1>4, <2>1, <2>2, <2>3, <2>4, Zenon DEF Feasible
  <1>5. ASSUME NEW t \in Timing, t.brp = b, Exact(clk, bps, t),
               Nearest(1 + t.tseg1, pct, Length(t)),
               Tried(clk, bps, pct, lim, b) = "found"
        PROVE  t.tseg1 = found.tseg1 /\ t.tseg2 = found.tseg2
    <2>1. Length(t) = Length(found)
      BY <1>2, <1>3, <1>5, Zenon
    <2>2. found \in Timing /\ Nearest(1 + found.tseg1, pct, Length(found))
      BY <1>3, <1>5, Zenon
    <2> HIDE DEF found
    <2>3. /\ t.tseg1 \in Nat /\ t.tseg2 \in Nat
          /\ found.tseg1 \in Nat /\ found.tseg2 \in Nat
      BY <2>2 DEF Timing
    <2> DEFINE x == Length(t) * pct
    <2>4. x \in Nat
      BY <2>3 DEF Length
    <2>5. /\ 100 * (1 + t.tseg1) <= x + 50 /\ x + 50 < 100 * ((1 + t.tseg1) + 1)
          /\ 100 * (1 + found.tseg1) <= x + 50
          /\ x + 50 < 100 * ((1 + found.tseg1) + 1)
      BY <1>5, <2>1, <2>2 DEF Nearest
    <2> HIDE DEF x
    <2>6. t.tseg1 = found.tseg1
      BY <2>3, <2>4, <2>5
    <2> QED BY <2>1, <2>3, <2>6 DEF Length
  <1> QED BY <1>4, <1>5, FeasibleIsFound, Zenon

\* Whether a setting has a timing at all: what CanDriver calls Solvable.
HasTiming(clk, nbps, dbps, pct) ==
    /\ \E b \in 1 .. BrpMax : Feasible(clk, nbps, pct, k_nominal_limits, b)
    /\ \E b \in 1 .. BrpMax : Feasible(clk, dbps, pct, k_data_limits, b)

\* The prescalers of the solutions found so far will do.
FeasibleSoFar ==
    BothInWidth =>
        /\ pc \in {"data", "write"} =>
              \E b \in 1 .. BrpMax : Feasible(can_clk_hz, nominal_bps, UsedPct(sample_pct),
                                              k_nominal_limits, b)
        /\ pc = "write" =>
              \E b \in 1 .. BrpMax : Feasible(can_clk_hz, data_bps, UsedPct(sample_pct),
                                              k_data_limits, b)

\* Every step keeps it.
LEMMA StepFeasible ==
    ASSUME TimingInv, FeasibleSoFar, [TimingNext]_timingVars
    PROVE  FeasibleSoFar'
  <1>1. CASE Call
    BY <1>1 DEF Call, SetNominal, SetData, Store, ApplyInit, Calculate, localVars,
                FeasibleSoFar
  <1>2. CASE Search("nominal", NominalTry) \/ Search("data", DataTry) \/ WriteRegisters
             \/ UNCHANGED timingVars
    BY <1>2 DEF Search, Skip, Fail, Trap, WriteRegisters, timingVars, ctxVars, localVars,
                FeasibleSoFar, BothInWidth
  <1>3. CASE FindNominal
    <2>1. pc' = "data" /\ UNCHANGED ctxVars
      BY <1>3 DEF FindNominal
    <2>2. ASSUME BothInWidth
          PROVE  Feasible(can_clk_hz, nominal_bps, UsedPct(sample_pct),
                          k_nominal_limits, brp)
      BY <1>3, <2>2, ArgumentTypes, TestsDecideFeasible
         DEF FindNominal, InPhase, NominalTry, BothInWidth, Limits
    <2>3. brp \in 1 .. BrpMax
      BY <1>3, ArgumentTypes DEF FindNominal, Limits
    <2> QED BY <2>1, <2>2, <2>3 DEF FeasibleSoFar, BothInWidth, ctxVars
  <1>4. CASE FindData
    <2>1. pc = "data" /\ pc' = "write" /\ UNCHANGED ctxVars
      BY <1>4 DEF FindData, InPhase
    <2>2. ASSUME BothInWidth
          PROVE  Feasible(can_clk_hz, data_bps, UsedPct(sample_pct),
                          k_data_limits, brp)
      BY <1>4, <2>2, ArgumentTypes, TestsDecideFeasible
         DEF FindData, InPhase, DataTry, BothInWidth, Limits
    <2>3. brp \in 1 .. BrpMax
      BY <1>4, ArgumentTypes DEF FindData, Limits
    <2> QED BY <2>1, <2>2, <2>3 DEF FeasibleSoFar, BothInWidth, ctxVars
  <1> QED BY <1>1, <1>2, <1>3, <1>4 DEF TimingNext, Solve

\* A call that has begun to search writes the registers if and only if the setting
\* has a timing.
VerdictStep ==
    pc \in {"nominal", "data", "write"} /\ pc' = "idle" /\ BothInWidth =>
        (pc = "write" <=> HasTiming(can_clk_hz, nominal_bps, data_bps,
                                    UsedPct(sample_pct)))

\* So nora_canfd_calc_bit_timing decides a property of the setting alone, as CanDriver
\* takes it to do: neither earlier calls nor the order of the search matter.
THEOREM VerdictIsOfTheSetting == TimingSpec => [][VerdictStep]_timingVars
  <1>1. TimingInit => FeasibleSoFar
    BY DEF TimingInit, FeasibleSoFar
  <1>2. TimingInv /\ FeasibleSoFar /\ [TimingNext]_timingVars => FeasibleSoFar'
    BY StepFeasible
  <1>3. TimingInv /\ FeasibleSoFar /\ [TimingNext]_timingVars => [VerdictStep]_timingVars
    <2> SUFFICES ASSUME TimingInv, FeasibleSoFar, [TimingNext]_timingVars
                 PROVE  VerdictStep
      OBVIOUS
    <2>1. RefusalStep
      BY RefusalJustified
    <2> DEFINE pct == UsedPct(sample_pct)
    <2>2. \A b \in 1 .. BrpMax : b \in 1 .. ((BrpMax + 1) - 1)
      OBVIOUS
    <2>3. CASE pc = "nominal" /\ pc' = "idle" /\ BothInWidth
      BY <2>1, <2>2, <2>3, Zenon
         DEF RefusalStep, NoneBelow, BothInWidth, HasTiming, VerdictStep
    <2>4. CASE pc = "data" /\ pc' = "idle" /\ BothInWidth
      BY <2>1, <2>2, <2>4, Zenon
         DEF RefusalStep, NoneBelow, BothInWidth, HasTiming, VerdictStep
    <2>5. CASE pc = "write" /\ pc' = "idle" /\ BothInWidth
      BY <2>5, Zenon DEF FeasibleSoFar, HasTiming, VerdictStep
    <2> QED BY <2>3, <2>4, <2>5, Zenon DEF VerdictStep
  <1> QED BY <1>1, <1>2, <1>3, TimingInvariant, PTL DEF TimingSpec

----------------------------------------------------------------------------
(* The search comes to its end.                                            *)

\* The steps a calculation has before it: both searches, then the registers.
StepsLeft == CASE pc = "nominal" -> 2 * BrpMax + 5 - brp
               [] pc = "data" -> BrpMax + 3 - brp
               [] pc = "write" -> 1
               [] pc \in {"idle", "trap"} -> 0

\* While a calculation is in progress every step leaves fewer than it found, the
\* return to an earlier prescaler for the data phase included.
SearchAdvances == pc \notin {"idle", "trap"} => StepsLeft' < StepsLeft

\* nora_canfd_calc_bit_timing returns, or traps, after at most two runs through the
\* prescalers, for every clock and rate, wrapped arithmetic or not.  SolverReturns
\* adds that each step is taken at last.
THEOREM SearchAlwaysAdvances ==
    TimingSpec => /\ [][SearchAdvances]_timingVars
                  /\ [](StepsLeft \in 0 .. 2 * BrpMax + 4)
  <1>1. TimingTypeOK => StepsLeft \in 0 .. 2 * BrpMax + 4
    BY DEF TimingTypeOK, StepsLeft
  <1>2. TimingTypeOK /\ [TimingNext]_timingVars => [SearchAdvances]_timingVars
    <2> SUFFICES ASSUME TimingTypeOK, TimingNext, pc \notin {"idle", "trap"}
                 PROVE  StepsLeft' < StepsLeft
      BY DEF SearchAdvances
    <2>1. brp \in 1 .. BrpMax + 1
      BY DEF TimingTypeOK
    <2>2. Solve
      BY DEF TimingNext, Call, SetNominal, SetData, Store, ApplyInit
    <2>3. CASE Skip("nominal", NominalTry) \/ Skip("data", DataTry)
      BY <2>1, <2>3 DEF Skip, InPhase, StepsLeft
    <2>4. CASE \/ Fail("nominal", NominalTry) \/ Trap("nominal", NominalTry)
               \/ Fail("data", DataTry) \/ Trap("data", DataTry)
      <3>1. pc \in {"nominal", "data"} /\ pc' \in {"idle", "trap"}
        BY <2>4 DEF Fail, Trap, InPhase
      <3>2. StepsLeft' = 0
        BY <3>1 DEF StepsLeft
      <3>3. StepsLeft > 0
        BY <2>1, <3>1 DEF StepsLeft
      <3> QED
        BY <3>2, <3>3
    <2>5. CASE FindNominal
      BY <2>1, <2>5 DEF FindNominal, InPhase, StepsLeft
    <2>6. CASE FindData
      BY <2>1, <2>6 DEF FindData, InPhase, StepsLeft
    <2>7. CASE WriteRegisters
      BY <2>7 DEF WriteRegisters, StepsLeft
    <2> QED
      BY <2>2, <2>3, <2>4, <2>5, <2>6, <2>7 DEF Solve, Search
  <1> QED
    BY <1>1, <1>2, TimingAlwaysTyped, PTL DEF TimingSpec
=============================================================================
