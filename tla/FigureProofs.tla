---------------------------- MODULE FigureProofs ----------------------------
(***************************************************************************)
(* Proofs about figures.  Backtest, for every series of closes, every      *)
(* strategy and whatever the rates: a position is never carried past its   *)
(* limits, only one is held at a time, and the equity, the statistics and  *)
(* the curve of a result are those of its trades.  PickScores, for every   *)
(* set of candidates and whatever the limits: the score, the choice of the *)
(* picks and the bands of their statistics.  SignalStats, for all prices   *)
(* and signals: a return once given stays, and the summaries add up.       *)
(* RangeAnalysis, for all bars of both sides: the drawdown is the worst    *)
(* fall and bounds the risk, and like is compared with like.               *)
(***************************************************************************)
EXTENDS Backtest, PickScores, SignalStats, RangeAnalysis, FoldProofs, SequenceTheorems

-----------------------------------------------------------------------------
(* The backtest: rounding                                                  *)

\* Rounding a quotient of integers gives an integer, of the dividend's sign,
\* that no whole number separates from the quotient.
LEMMA RoundedQuotient ==
    ASSUME NEW a \in Nat, NEW b \in Nat \ {0}
    PROVE  /\ RoundDiv(a, b) \in Nat
           /\ RoundDiv(a, b) = (2 * a + b) \div (2 * b)
           /\ RoundDiv(-a, b) = -RoundDiv(a, b)
  <1> DEFINE q == (2 * a + b) \div (2 * b)
  <1>1. q \in Nat
    OBVIOUS
  <1>2. RoundDiv(a, b) = q
    BY DEF RoundDiv
  <1>3. CASE a = 0
    <2>1. q = 0
      BY <1>3
    <2>2. QED
      BY <1>2, <1>3, <2>1
  <1>4. CASE a # 0
    <2>1. -a < 0 /\ b > 0 /\ -(-a) = a
      BY <1>4
    <2>2. RoundDiv(-a, b) = -q
      BY <2>1 DEF RoundDiv
    <2>3. QED
      BY <1>1, <1>2, <2>2
  <1>5. QED
    BY <1>3, <1>4

LEMMA RoundDivType ==
    ASSUME NEW a \in Int, NEW b \in Nat \ {0}
    PROVE  RoundDiv(a, b) \in Int
  <1>1. CASE a >= 0
    BY <1>1, RoundedQuotient
  <1>2. CASE ~ (a >= 0)
    <2>1. -a \in Nat /\ -(-a) = a
      BY <1>2
    <2>2. RoundDiv(-a, b) \in Nat /\ RoundDiv(-(-a), b) = -RoundDiv(-a, b)
      BY <2>1, RoundedQuotient
    <2>3. QED
      BY <2>1, <2>2
  <1>3. QED
    BY <1>1, <1>2

LEMMA RoundDivOfOpposite ==
    ASSUME NEW a \in Int, NEW b \in Nat \ {0}
    PROVE  RoundDiv(-a, b) = -RoundDiv(a, b)
  <1>1. CASE a >= 0
    BY <1>1, RoundedQuotient
  <1>2. CASE ~ (a >= 0)
    <2> DEFINE x == -a
    <2>1. x \in Nat /\ a = -x
      BY <1>2
    <2> HIDE DEF x
    <2>2. RoundDiv(x, b) \in Nat /\ RoundDiv(-x, b) = -RoundDiv(x, b)
      BY <2>1, RoundedQuotient
    <2>3. RoundDiv(a, b) = -RoundDiv(x, b)
      BY <2>1, <2>2
    <2>4. RoundDiv(-a, b) = RoundDiv(x, b)
      BY DEF x
    <2>5. QED
      BY <2>2, <2>3, <2>4
  <1>3. QED
    BY <1>1, <1>2

LEMMA RoundDivBounds ==
    ASSUME NEW a \in Nat, NEW b \in Nat \ {0}, NEW k \in Nat
    PROVE  /\ k * b <= a => k <= RoundDiv(a, b)
           /\ a <= k * b => RoundDiv(a, b) <= k
  <1> DEFINE n == 2 * a + b
             d == 2 * b
             q == n \div d
  <1>1. n \in Nat /\ d \in Nat \ {0} /\ k * b \in Nat
    OBVIOUS
  <1>2. q \in Nat /\ d * q <= n /\ n < d * q + d
    <2> HIDE DEF n, d
    <2>1. QED
      BY <1>1
  <1>3. RoundDiv(a, b) = q
    BY RoundedQuotient
  <1>4. d * k = 2 * (k * b) /\ d * (k + 1) = d * k + d
    OBVIOUS
  <1>5. ASSUME k * b <= a PROVE k <= q
    <2>1. d * k <= n
      BY <1>1, <1>4, <1>5
    <2>2. d * k < d * (q + 1)
      BY <1>1, <1>2, <2>1
    <2> HIDE DEF d, q, n
    <2>3. QED
      BY <1>1, <1>2, <2>2
  <1>6. ASSUME a <= k * b PROVE q <= k
    <2>1. n < d * k + d
      BY <1>1, <1>4, <1>6
    <2>2. d * q < d * (k + 1)
      BY <1>1, <1>2, <1>4, <2>1
    <2> HIDE DEF d, q, n
    <2>3. QED
      BY <1>1, <1>2, <2>2
  <1>7. QED
    BY <1>3, <1>5, <1>6

\* A larger dividend does not give a smaller quotient.
LEMMA RoundDivGrows ==
    ASSUME NEW a \in Nat, NEW c \in Nat, a <= c, NEW b \in Nat \ {0}
    PROVE  RoundDiv(a, b) <= RoundDiv(c, b)
  <1> DEFINE n == 2 * a + b
             m == 2 * c + b
             d == 2 * b
  <1>1. n \in Nat /\ m \in Nat /\ n <= m /\ d \in Nat \ {0}
    OBVIOUS
  <1>2. RoundDiv(a, b) = n \div d /\ RoundDiv(c, b) = m \div d
    BY RoundedQuotient
  <1> HIDE DEF n, m, d
  <1> DEFINE p == n \div d
             q == m \div d
  <1>3. p \in Nat /\ d * p <= n /\ q \in Nat /\ m < d * q + d
    BY <1>1
  <1>4. d * p < d * (q + 1)
    BY <1>1, <1>3
  <1> HIDE DEF p, q
  <1>5. p <= q
    BY <1>1, <1>3, <1>4
  <1>6. QED
    BY <1>2, <1>5 DEF p, q

\* A rate of at most one leaves at most the price; one of at least one, at least.
LEMMA ScaledPrice ==
    ASSUME NEW c \in Nat, NEW r \in Nat
    PROVE  /\ FMul(c, r) \in Nat
           /\ r <= Unit => FMul(c, r) <= c
           /\ r >= Unit => FMul(c, r) >= c
  <1>1. Unit \in Nat \ {0} /\ c * r \in Nat /\ c * Unit \in Nat
    BY UnitPositive
  <1>2. FMul(c, r) = RoundDiv(c * r, Unit)
    BY DEF FMul
  <1>3. ASSUME r <= Unit PROVE c * r <= c * Unit
    BY <1>1, <1>3
  <1>4. ASSUME r >= Unit PROVE c * r >= c * Unit
    BY <1>1, <1>4
  <1>5. RoundDiv(c * r, Unit) \in Nat
    BY <1>1, RoundedQuotient
  <1>6. /\ c * Unit <= c * r => c <= RoundDiv(c * r, Unit)
        /\ c * r <= c * Unit => RoundDiv(c * r, Unit) <= c
    BY <1>1, RoundDivBounds
  <1>7. QED
    BY <1>1, <1>2, <1>3, <1>4, <1>5, <1>6

\* Costs never make a price better: one enters at the close or above, and
\* leaves at the close or below (effectiveEntryPrice, effectiveExitPrice).
LEMMA CostsNeverHelp ==
    ASSUME NEW c \in Nat
    PROVE  /\ EntryPrice(c) \in Nat /\ EntryPrice(c) >= c
           /\ ExitPrice(c) \in Nat /\ ExitPrice(c) <= c
  <1>1. /\ Unit \in Nat \ {0}
        /\ {Unit + Slippage, Unit + Commission, Unit - Slippage, Unit - Commission} \subseteq Nat
        /\ Unit + Slippage >= Unit /\ Unit + Commission >= Unit
        /\ Unit - Slippage <= Unit /\ Unit - Commission <= Unit
    BY UnitPositive, BacktestParams
  <1> DEFINE up == FMul(c, Unit + Slippage)
             down == FMul(c, Unit - Slippage)
  <1>2. up \in Nat /\ up >= c /\ down \in Nat /\ down <= c
    BY <1>1, ScaledPrice
  <1>3. EntryPrice(c) = FMul(up, Unit + Commission) /\ ExitPrice(c) = FMul(down, Unit - Commission)
    BY DEF EntryPrice, ExitPrice
  <1> HIDE DEF up, down
  <1>4. /\ FMul(up, Unit + Commission) \in Nat /\ FMul(up, Unit + Commission) >= up
        /\ FMul(down, Unit - Commission) \in Nat /\ FMul(down, Unit - Commission) <= down
    BY <1>1, <1>2, ScaledPrice
  <1>5. QED
    BY <1>2, <1>3, <1>4

\* Quotients and products of the prices and the equity.
LEMMA QuotientTypes ==
    ASSUME NEW c \in Nat, NEW p \in Nat \ {0}, NEW e \in Nat
    PROVE  /\ FDiv(c, p) \in Nat
           /\ FMul(e, FDiv(c, p)) \in Nat
  <1>1. c * Unit \in Nat /\ Unit \in Nat \ {0}
    BY UnitPositive
  <1>2. FDiv(c, p) \in Nat
    BY <1>1, RoundedQuotient DEF FDiv
  <1>3. e * FDiv(c, p) \in Nat
    BY <1>2
  <1>4. QED
    BY <1>1, <1>2, <1>3, RoundedQuotient DEF FMul

\* A lower price of leaving never gives more equity.
LEMMA LowerPriceLowerEquity ==
    ASSUME NEW c \in Nat, NEW d \in Nat, c <= d, NEW p \in Nat \ {0}, NEW e \in Nat
    PROVE  FMul(e, FDiv(c, p)) <= FMul(e, FDiv(d, p))
  <1>1. Unit \in Nat \ {0} /\ c * Unit \in Nat /\ d * Unit \in Nat /\ c * Unit <= d * Unit
    BY UnitPositive
  <1>2. FDiv(c, p) <= FDiv(d, p)
    BY <1>1, RoundDivGrows DEF FDiv
  <1> DEFINE x == FDiv(c, p)
             y == FDiv(d, p)
  <1>3. x \in Nat /\ y \in Nat /\ x <= y
    BY <1>2, QuotientTypes
  <1> HIDE DEF x, y
  <1>4. e * x \in Nat /\ e * y \in Nat /\ e * x <= e * y
    BY <1>3
  <1>5. FMul(e, x) <= FMul(e, y)
    BY <1>1, <1>4, RoundDivGrows DEF FMul
  <1>6. QED
    BY <1>5 DEF x, y

-----------------------------------------------------------------------------
(* The backtest: the equity compounded from a list of trades               *)

ReturnsAreIntegers(list) ==
    /\ list = [i \in 1 .. Len(list) |-> list[i]]
    /\ Len(list) \in Nat
    /\ \A i \in 1 .. Len(list) : list[i].return \in Int

\* The equity after each of the trades.
IsEquity(c, list) ==
    /\ c \in [0 .. Len(list) -> Int]
    /\ c[0] = Unit
    /\ \A k \in 1 .. Len(list) : c[k] = FMul(c[k - 1], Unit + list[k].return)

LEMMA FMulType ==
    ASSUME NEW x \in Int, NEW y \in Int
    PROVE  FMul(x, y) \in Int
  BY UnitPositive, RoundDivType DEF FMul

\* Compounding (a FoldLeft) goes through the trades in their order.
LEMMA CompoundedInOrder ==
    ASSUME NEW list, ReturnsAreIntegers(list)
    PROVE  \E c : IsEquity(c, list) /\ Compounded(list) = c[Len(list)]
  <1> DEFINE n == Len(list)
             Step(g, s) == FMul(g[s \ {Max(s)}], Unit + list[Max(s)].return)
             fold == CHOOSE g : g = [s \in SUBSET DOMAIN list |->
                                        IF s = {} THEN Unit ELSE Step(g, s)]
             F == [p \in Int \X (1 .. n) |-> FMul(p[1], Unit + list[p[2]].return)]
  <1>1. n \in Nat /\ DOMAIN list = 1 .. n /\ Unit \in Int
    BY UnitPositive DEF ReturnsAreIntegers
  <1>2. Compounded(list) = fold[DOMAIN list]
    BY DEF Compounded, FoldLeft, MapThenFoldSet
  <1>3. F \in [Int \X (1 .. n) -> Int]
    <2>1. SUFFICES ASSUME NEW p \in Int \X (1 .. n)
                   PROVE  FMul(p[1], Unit + list[p[2]].return) \in Int
      OBVIOUS
    <2>2. p[1] \in Int /\ Unit + list[p[2]].return \in Int
      BY <1>1 DEF ReturnsAreIntegers
    <2>3. QED
      BY <2>2, FMulType
  <1>4. PICK g \in [SUBSET (1 .. n) -> Int] : IsFold(g, n, Unit, F)
    <2> HIDE DEF F, n
    <2>1. QED
      BY <1>1, <1>3, FoldsExist
  <1>5. \A s \in SUBSET (1 .. n) : s # {} => F[<<g[s \ {Max(s)}], Max(s)>>] = Step(g, s)
    <2>1. TAKE s \in SUBSET (1 .. n)
    <2>2. HAVE s # {}
    <2>3. Max(s) \in 1 .. n
      BY <1>1, <2>1, <2>2, LargestMember
    <2>4. g[s \ {Max(s)}] \in Int
      BY <2>1
    <2>5. QED
      BY <2>3, <2>4
  <1>6. g = [s \in SUBSET DOMAIN list |-> IF s = {} THEN Unit ELSE Step(g, s)]
    BY <1>1, <1>4, <1>5 DEF IsFold
  <1>7. fold = [s \in SUBSET DOMAIN list |-> IF s = {} THEN Unit ELSE Step(fold, s)]
    BY <1>6
  <1> HIDE DEF fold, F
  <1>8. fold[{}] = Unit
    BY <1>7
  <1>9. ASSUME NEW k \in 1 .. n
        PROVE  fold[1 .. k] = FMul(fold[1 .. k - 1], Unit + list[k].return)
    <2>1. Max(1 .. k) = k /\ (1 .. k) \ {k} = 1 .. k - 1
      BY FirstPositions
    <2>2. 1 .. k \in SUBSET DOMAIN list /\ 1 .. k # {}
      <3>1. k \in 1 .. k /\ 1 .. k \subseteq 1 .. n
        BY <1>1
      <3>2. QED
        BY <1>1, <3>1
    <2>3. fold[1 .. k] = Step(fold, 1 .. k)
      BY <1>7, <2>2
    <2>4. QED
      BY <2>1, <2>3
  <1> DEFINE c == [k \in 0 .. n |-> fold[1 .. k]]
             Bad == {k \in 0 .. n : c[k] \notin Int}
  <1>10. c[0] = Unit
    <2>1. 1 .. 0 = {}
      OBVIOUS
    <2>2. QED
      BY <1>1, <1>8, <2>1
  <1>11. \A k \in 1 .. n : c[k] = FMul(c[k - 1], Unit + list[k].return)
    BY <1>1, <1>9
  <1> HIDE DEF c
  <1>12. Bad = {}
    <2> SUFFICES ASSUME Bad # {} PROVE FALSE
      OBVIOUS
    <2>1. Bad \subseteq Nat
      BY <1>1
    <2> HIDE DEF Bad
    <2>2. PICK k \in Bad : \A m \in Bad : k <= m
      BY <2>1, LeastNatural
    <2>3. k \in 0 .. n /\ c[k] \notin Int
      BY DEF Bad
    <2>4. k # 0
      BY <1>1, <1>10, <2>3
    <2>5. k \in 1 .. n /\ k - 1 \in 0 .. n /\ k - 1 \notin Bad
      BY <1>1, <2>1, <2>2, <2>3, <2>4
    <2>6. c[k - 1] \in Int
      BY <2>5 DEF Bad
    <2>7. Unit + list[k].return \in Int
      BY <1>1, <2>5 DEF ReturnsAreIntegers
    <2>8. QED
      BY <1>11, <2>3, <2>5, <2>6, <2>7, FMulType
  <1>13. IsEquity(c, list)
    <2>1. \A k \in 0 .. n : c[k] \in Int
      BY <1>12
    <2>2. c \in [0 .. n -> Int]
      BY <2>1 DEF c
    <2>3. QED
      BY <1>10, <1>11, <2>2 DEF IsEquity
  <1>14. Compounded(list) = c[n]
    BY <1>1, <1>2 DEF c
  <1>15. QED
    BY <1>13, <1>14

\* The equity after the trades of a list is that of any longer list.
LEMMA EquityIsDetermined ==
    ASSUME NEW list, NEW more, Len(list) \in Nat, Len(more) \in Nat, Len(list) <= Len(more),
           \A k \in 1 .. Len(list) : more[k] = list[k],
           NEW c, IsEquity(c, list), NEW d, IsEquity(d, more)
    PROVE  c[Len(list)] = d[Len(list)]
  <1> DEFINE n == Len(list)
             Bad == {k \in 0 .. n : c[k] # d[k]}
  <1>1. n \in Nat /\ n <= Len(more)
    OBVIOUS
  <1>2. c[0] = d[0]
    BY DEF IsEquity
  <1>3. \A k \in 1 .. n : c[k] = FMul(c[k - 1], Unit + list[k].return)
                       /\ d[k] = FMul(d[k - 1], Unit + list[k].return)
    BY DEF IsEquity
  <1> HIDE DEF n
  <1>4. Bad = {}
    <2> SUFFICES ASSUME Bad # {} PROVE FALSE
      OBVIOUS
    <2>1. Bad \subseteq Nat
      BY <1>1
    <2> HIDE DEF Bad
    <2>2. PICK k \in Bad : \A m \in Bad : k <= m
      BY <2>1, LeastNatural
    <2>3. k \in 0 .. n /\ c[k] # d[k]
      BY DEF Bad
    <2>4. k \in 1 .. n /\ k - 1 \in 0 .. n /\ k - 1 \notin Bad
      BY <1>1, <1>2, <2>1, <2>2, <2>3
    <2>5. QED
      BY <1>3, <2>3, <2>4 DEF Bad
  <1>5. QED
    BY <1>1, <1>4 DEF n

\* A list with one more trade.
LEMMA OneMoreTrade ==
    ASSUME NEW list, NEW t, ReturnsAreIntegers(list), t.return \in Int
    PROVE  /\ ReturnsAreIntegers(Append(list, t))
           /\ Len(Append(list, t)) = Len(list) + 1
           /\ Append(list, t)[Len(list) + 1] = t
           /\ \A k \in 1 .. Len(list) : Append(list, t)[k] = list[k]
  <1> DEFINE n == Len(list)
             more == Append(list, t)
  <1>1. n \in Nat /\ list = [i \in 1 .. n |-> list[i]]
    BY DEF ReturnsAreIntegers
  <1>2. /\ more = [i \in 1 .. n + 1 |-> more[i]] /\ Len(more) = n + 1
        /\ more[n + 1] = t /\ \A k \in 1 .. n : more[k] = list[k]
    <2> DEFINE S == {list[i] : i \in 1 .. n} \cup {t}
    <2>1. list \in Seq(S) /\ t \in S
      BY <1>1
    <2> HIDE DEF S
    <2>2. /\ more \in Seq(S) /\ Len(more) = n + 1
          /\ more[n + 1] = t /\ \A i \in 1 .. n : more[i] = list[i]
      BY <2>1, AppendProperties
    <2> HIDE DEF more
    <2>3. QED
      BY <2>2
  <1> HIDE DEF more
  <1>3. ReturnsAreIntegers(more)
    <2>1. \A i \in 1 .. n + 1 : more[i].return \in Int
      <3>1. TAKE i \in 1 .. n + 1
      <3>2. CASE i = n + 1
        BY <1>2, <3>2
      <3>3. CASE i \in 1 .. n
        BY <1>2, <3>3 DEF ReturnsAreIntegers
      <3>4. QED
        BY <1>1, <3>2, <3>3
    <2>2. more = [i \in 1 .. n + 1 |-> more[i]]
      BY <1>2
    <2>3. QED
      BY <1>1, <1>2, <2>1, <2>2 DEF ReturnsAreIntegers
  <1>4. QED
    BY <1>2, <1>3 DEF more

\* One more trade compounds what the trades before it left.
LEMMA CompoundedAppend ==
    ASSUME NEW list, NEW t, ReturnsAreIntegers(list), t.return \in Int
    PROVE  Compounded(Append(list, t)) = FMul(Compounded(list), Unit + t.return)
  <1> DEFINE n == Len(list)
             more == Append(list, t)
  <1>1. n \in Nat /\ list = [i \in 1 .. n |-> list[i]]
    BY DEF ReturnsAreIntegers
  <1>2. /\ ReturnsAreIntegers(more) /\ Len(more) = n + 1
        /\ more[n + 1] = t /\ \A k \in 1 .. n : more[k] = list[k]
    BY OneMoreTrade
  <1> HIDE DEF more
  <1>5. PICK c : IsEquity(c, list) /\ Compounded(list) = c[n]
    BY CompoundedInOrder
  <1>6. PICK d : IsEquity(d, more) /\ Compounded(more) = d[n + 1]
    BY <1>2, CompoundedInOrder
  <1>7. c[n] = d[n]
    <2>1. /\ Len(list) \in Nat /\ Len(more) \in Nat /\ Len(list) <= Len(more)
          /\ \A k \in 1 .. Len(list) : more[k] = list[k]
      <3>1. n = Len(list)
        OBVIOUS
      <3> HIDE DEF n
      <3>2. n \in Nat /\ n + 1 \in Nat /\ n <= n + 1
        BY <1>1
      <3>3. \A k \in 1 .. n : more[k] = list[k]
        BY <1>2
      <3>4. Len(more) = n + 1
        BY <1>2
      <3>5. QED
        BY <3>1, <3>2, <3>3, <3>4
    <2>2. IsEquity(c, list) /\ IsEquity(d, more)
      BY <1>5, <1>6
    <2> HIDE DEF n
    <2>3. c[Len(list)] = d[Len(list)]
      BY <2>1, <2>2, EquityIsDetermined
    <2>4. QED
      BY <2>3 DEF n
  <1>8. d[n + 1] = FMul(d[n], Unit + t.return)
    <2>1. n + 1 \in 1 .. Len(more) /\ (n + 1) - 1 = n
      BY <1>1, <1>2
    <2>2. d[n + 1] = FMul(d[(n + 1) - 1], Unit + more[n + 1].return)
      BY <1>6, <2>1 DEF IsEquity
    <2>3. QED
      BY <1>2, <2>1, <2>2
  <1>9. QED
    BY <1>5, <1>6, <1>7, <1>8 DEF more

LEMMA CompoundedOfNone == Compounded(<<>>) = Unit
  <1>1. ReturnsAreIntegers(<<>>)
    BY DEF ReturnsAreIntegers
  <1>2. PICK c : IsEquity(c, <<>>) /\ Compounded(<<>>) = c[Len(<<>>)]
    BY <1>1, CompoundedInOrder
  <1>3. QED
    BY <1>2 DEF IsEquity

-----------------------------------------------------------------------------
(* The backtest: the drawdown of a curve                                   *)

\* One turn of MaxDrawdown's loop, and what it carries: a peak not below the
\* first point, and the worst fall.
Falling(acc, x) ==
    [peak |-> Max({acc.peak, x}),
     worst |-> Min({acc.worst, Fall(x, Max({acc.peak, x}))})]

FallTypes(p) == [peak : {x \in Nat : x >= p[1]}, worst : Int]

LEMMA FallType ==
    ASSUME NEW x \in Nat, NEW peak \in Nat
    PROVE  Fall(x, peak) \in Int
  <1>1. CASE peak = 0
    BY <1>1 DEF Fall
  <1>2. CASE peak # 0
    <2>1. (x - peak) * Unit \in Int
      BY UnitPositive
    <2>2. QED
      BY <1>2, <2>1, RoundDivType DEF Fall, FDiv
  <1>3. QED
    BY <1>1, <1>2

LEMMA FallingTypes ==
    ASSUME NEW p, p[1] \in Nat, NEW acc \in FallTypes(p), NEW x \in Nat
    PROVE  /\ Falling(acc, x) \in FallTypes(p)
           /\ Falling(acc, x).worst <= Fall(x, Falling(acc, x).peak)
  <1> DEFINE top == Max({acc.peak, x})
             low == Min({acc.worst, Fall(x, top)})
  <1>1. acc.peak \in Nat /\ acc.peak >= p[1] /\ acc.worst \in Int
    BY DEF FallTypes
  <1>2. top \in {acc.peak, x} /\ top >= acc.peak
    <2> DEFINE a == acc.peak
    <2>1. a \in Int /\ x \in Int
      BY <1>1
    <2> HIDE DEF a
    <2>2. Max({a, x}) \in {a, x} /\ Max({a, x}) >= a
      BY <2>1, ExtremesOfTwo
    <2>3. QED
      BY <2>2 DEF a
  <1> HIDE DEF top
  <1>3. top \in Nat /\ top >= p[1]
    <2>1. top \in Nat
      BY <1>1, <1>2
    <2>2. top >= acc.peak /\ acc.peak \in Nat /\ acc.peak >= p[1] /\ p[1] \in Nat
      BY <1>1, <1>2
    <2>3. QED
      BY <2>1, <2>2
  <1>4. Fall(x, top) \in Int
    BY <1>3, FallType
  <1>5. low \in Int /\ low <= Fall(x, top)
    <2>1. /\ Min({acc.worst, Fall(x, top)}) \in {acc.worst, Fall(x, top)}
          /\ Min({acc.worst, Fall(x, top)}) <= Fall(x, top)
      BY <1>1, <1>4, ExtremesOfTwo
    <2>2. QED
      BY <1>1, <1>4, <2>1
  <1> HIDE DEF low
  <1>6. Falling(acc, x) = [peak |-> top, worst |-> low]
    BY DEF Falling, top, low
  <1>7. QED
    BY <1>3, <1>5, <1>6 DEF FallTypes

\* The drawdown of a curve is at most its fall at the last point, below a peak
\* that is at least the first point.
LEMMA DrawdownAtLast ==
    ASSUME NEW p \in Seq(Nat), p # <<>>
    PROVE  \E peak \in Nat : /\ peak >= p[1]
                            /\ MaxDrawdown(p) \in Int
                            /\ MaxDrawdown(p) <= Fall(Last(p), peak)
  <1> DEFINE n == Len(p)
             T == FallTypes(p)
             first == [peak |-> p[1], worst |-> 0]
             Step(g, s) == Falling(g[s \ {Max(s)}], p[Max(s)])
             fold == CHOOSE g : g = [s \in SUBSET DOMAIN p |->
                                        IF s = {} THEN first ELSE Step(g, s)]
             F == [q \in T \X (1 .. n) |-> Falling(q[1], p[q[2]])]
  <1>1. n \in Nat \ {0} /\ DOMAIN p = 1 .. n /\ \A i \in 1 .. n : p[i] \in Nat
    BY EmptySeq
  <1>2. p[1] \in Nat /\ first \in T
    BY <1>1 DEF FallTypes
  <1>3. MaxDrawdown(p) = fold[DOMAIN p].worst
    BY DEF MaxDrawdown, FoldLeft, MapThenFoldSet, Falling
  <1> HIDE DEF T, first
  <1>4. F \in [T \X (1 .. n) -> T]
    <2>1. SUFFICES ASSUME NEW q \in T \X (1 .. n)
                   PROVE  Falling(q[1], p[q[2]]) \in T
      OBVIOUS
    <2>2. q[1] \in T /\ p[q[2]] \in Nat
      BY <1>1
    <2>3. QED
      BY <1>2, <2>2, FallingTypes DEF T
  <1>5. PICK g \in [SUBSET (1 .. n) -> T] : IsFold(g, n, first, F)
    <2> HIDE DEF F, n
    <2>1. QED
      BY <1>1, <1>2, <1>4, FoldsExist
  <1>6. \A s \in SUBSET (1 .. n) : s # {} => F[<<g[s \ {Max(s)}], Max(s)>>] = Step(g, s)
    <2>1. TAKE s \in SUBSET (1 .. n)
    <2>2. HAVE s # {}
    <2>3. Max(s) \in 1 .. n
      BY <1>1, <2>1, <2>2, LargestMember
    <2>4. g[s \ {Max(s)}] \in T
      BY <2>1
    <2>5. QED
      BY <2>3, <2>4
  <1>7. g = [s \in SUBSET DOMAIN p |-> IF s = {} THEN first ELSE Step(g, s)]
    BY <1>1, <1>5, <1>6 DEF IsFold
  <1>8. fold = [s \in SUBSET DOMAIN p |-> IF s = {} THEN first ELSE Step(fold, s)]
    BY <1>7
  <1> HIDE DEF fold, F
  <1>9. fold[{}] = first
    BY <1>8
  <1>10. ASSUME NEW k \in 1 .. n
         PROVE  fold[1 .. k] = Falling(fold[1 .. k - 1], p[k])
    <2>1. Max(1 .. k) = k /\ (1 .. k) \ {k} = 1 .. k - 1
      BY FirstPositions
    <2>2. 1 .. k \in SUBSET DOMAIN p /\ 1 .. k # {}
      <3>1. k \in 1 .. k /\ 1 .. k \subseteq 1 .. n
        BY <1>1
      <3>2. QED
        BY <1>1, <3>1
    <2>3. fold[1 .. k] = Step(fold, 1 .. k)
      BY <1>8, <2>2
    <2>4. QED
      BY <2>1, <2>3
  <1> DEFINE Bad == {k \in 0 .. n : fold[1 .. k] \notin T}
  <1>11. Bad = {}
    <2> SUFFICES ASSUME Bad # {} PROVE FALSE
      OBVIOUS
    <2>1. Bad \subseteq Nat
      BY <1>1
    <2> HIDE DEF Bad
    <2>2. PICK k \in Bad : \A m \in Bad : k <= m
      BY <2>1, LeastNatural
    <2>3. k \in 0 .. n /\ fold[1 .. k] \notin T
      BY DEF Bad
    <2>4. k # 0
      <3>1. 1 .. 0 = {}
        OBVIOUS
      <3>2. QED
        BY <1>2, <1>9, <2>3, <3>1
    <2>5. k \in 1 .. n /\ k - 1 \in 0 .. n /\ k - 1 \notin Bad
      BY <1>1, <2>1, <2>2, <2>3, <2>4
    <2>6. fold[1 .. k - 1] \in T /\ p[k] \in Nat
      BY <1>1, <2>5 DEF Bad
    <2>7. Falling(fold[1 .. k - 1], p[k]) \in T
      BY <1>2, <2>6, FallingTypes DEF T
    <2>8. QED
      BY <1>10, <2>3, <2>5, <2>7
  <1>12. n \in 1 .. n /\ n - 1 \in 0 .. n /\ p[n] \in Nat /\ Last(p) = p[n]
    BY <1>1 DEF Last
  <1> DEFINE before == fold[1 .. n - 1]
             end == Falling(before, p[n])
  <1>13. fold[1 .. n] = end /\ before \in T
    BY <1>10, <1>11, <1>12
  <1> HIDE DEF before
  <1>14. end \in T /\ end.worst <= Fall(p[n], end.peak)
    BY <1>2, <1>12, <1>13, FallingTypes DEF T
  <1> HIDE DEF end
  <1>15. end.peak \in Nat /\ end.peak >= p[1] /\ end.worst \in Int
    BY <1>14 DEF T, FallTypes
  <1>16. MaxDrawdown(p) = end.worst
    BY <1>1, <1>3, <1>13
  <1>17. QED
    BY <1>12, <1>14, <1>15, <1>16

-----------------------------------------------------------------------------
(* The backtest: the totals of the trades                                  *)

\* R gives the returns of the trades S of a list.
ReturnsOf(R, list, S) == \A i \in S : list[i].return = R[i]

\* What adds up the returns of a list is the total of any part of it, in that
\* list or in one that agrees with it there.
LEMMA TotalOfPart ==
    ASSUME NEW D, IsFiniteSet(D), NEW R, NEW G, AddsUp(G, D, R),
           NEW list, NEW S \in SUBSET D, ReturnsOf(R, list, S)
    PROVE  TotalReturn(list, S) = G[S]
  <1> DEFINE F == [i \in S |-> list[i].return]
             H == [s \in SUBSET S |-> G[s]]
             first(s) == CHOOSE x \in s : TRUE
             Step(g, s) == list[first(s)].return + g[s \ {first(s)}]
             sum == CHOOSE g : g = [s \in SUBSET S |-> IF s = {} THEN 0 ELSE Step(g, s)]
  <1>1. TotalReturn(list, S) = sum[S]
    BY DEF TotalReturn, MapThenSumSet, MapThenFoldSet
  <1>2. IsFiniteSet(S)
    BY FS_Subset
  <1>3. PICK g : IsSum(g, S, F)
    <2> HIDE DEF F
    <2>1. QED
      BY <1>2, SumsExist
  <1>4. \A s \in SUBSET S : s # {} => list[first(s)].return = F[first(s)]
    BY DEF ReturnsOf
  <1>5. g = [s \in SUBSET S |-> IF s = {} THEN 0 ELSE Step(g, s)]
    BY <1>3, <1>4 DEF IsSum
  <1>6. sum = [s \in SUBSET S |-> IF s = {} THEN 0 ELSE Step(sum, s)]
    <2> HIDE DEF Step
    <2>1. QED
      BY <1>5
  <1> HIDE DEF sum
  <1>7. IsSum(sum, S, F)
    BY <1>4, <1>6 DEF IsSum
  <1>8. H[S] = G[S]
    OBVIOUS
  <1>9. AddsUp(H, S, F)
    <2>1. H[{}] = 0
      BY DEF AddsUp
    <2>2. ASSUME NEW s \in SUBSET S, NEW x \in s
          PROVE  H[s] = F[x] + H[s \ {x}]
      <3>1. s \in SUBSET D /\ s \ {x} \in SUBSET S /\ x \in S
        OBVIOUS
      <3>2. H[s] = G[s] /\ H[s \ {x}] = G[s \ {x}] /\ F[x] = R[x]
        BY <3>1 DEF ReturnsOf
      <3>3. G[s] = R[x] + G[s \ {x}]
        BY <3>1 DEF AddsUp
      <3> HIDE DEF F, H
      <3>4. QED
        BY <3>2, <3>3
    <2> HIDE DEF F, H
    <2>3. QED
      BY <2>1, <2>2 DEF AddsUp
  <1> HIDE DEF F, H
  <1>10. sum[S] = H[S]
    BY <1>2, <1>7, <1>9, SumThatAddsUp
  <1>11. QED
    BY <1>1, <1>8, <1>10

LEMMA TotalOfNone == ASSUME NEW list PROVE TotalReturn(list, {}) = 0
  <1> DEFINE R == [i \in {} |-> 0]
             G == [s \in SUBSET {} |-> 0]
  <1>1. IsFiniteSet({}) /\ {} \in SUBSET {}
    BY FS_EmptySet
  <1>2. AddsUp(G, {}, R)
    BY DEF AddsUp
  <1>3. ReturnsOf(R, list, {})
    BY DEF ReturnsOf
  <1>4. G[{}] = 0
    OBVIOUS
  <1> HIDE DEF R, G
  <1>5. TotalReturn(list, {}) = G[{}]
    BY <1>1, <1>2, <1>3, TotalOfPart
  <1>6. QED
    BY <1>4, <1>5

\* S are some of the trades of a list.
SomeOf(S, list) == S \subseteq 1 .. Len(list)

\* One more trade leaves the total of the trades before it, and adds its own
\* return to any total it is part of.
LEMMA TotalAppend ==
    ASSUME NEW list, NEW t, ReturnsAreIntegers(list), t.return \in Int,
           NEW S, SomeOf(S, list)
    PROVE  \E total \in Int :
              /\ TotalReturn(list, S) = total
              /\ TotalReturn(Append(list, t), S) = total
              /\ TotalReturn(Append(list, t), S \cup {Len(list) + 1}) = total + t.return
  <1> DEFINE n == Len(list)
             more == Append(list, t)
             F == [i \in 1 .. n + 1 |-> more[i].return]
  <1>1. /\ n \in Nat /\ ReturnsAreIntegers(more) /\ Len(more) = n + 1
        /\ more[n + 1] = t /\ \A k \in 1 .. n : more[k] = list[k]
    BY OneMoreTrade DEF ReturnsAreIntegers
  <1> HIDE DEF more, n
  <1>2. S \in SUBSET (1 .. n) /\ S \in SUBSET (1 .. n + 1) /\ n + 1 \notin S
    BY <1>1 DEF n, SomeOf
  <1> DEFINE D == 1 .. n + 1
             all == S \cup {n + 1}
  <1>3. IsFiniteSet(D) /\ F \in [D -> Int]
    <2>1. IsFiniteSet(D)
      BY <1>1, FS_Interval
    <2>2. \A i \in D : more[i].return \in Int
      BY <1>1 DEF ReturnsAreIntegers
    <2>3. QED
      BY <2>1, <2>2
  <1>4. all \in SUBSET D /\ n + 1 \in all /\ all \ {n + 1} = S /\ S \in SUBSET D
    BY <1>1, <1>2
  <1>5. PICK G \in [SUBSET D -> Int] : AddsUp(G, D, F)
    <2> HIDE DEF F, D
    <2>1. QED
      BY <1>3, SumInAnyOrder
  <1>6. /\ n + 1 \in Nat
        /\ ReturnsOf(F, more, all) /\ ReturnsOf(F, more, S) /\ ReturnsOf(F, list, S)
    BY <1>1, <1>2, <1>4 DEF ReturnsOf
  <1>7. F[n + 1] = t.return /\ G[all] = F[n + 1] + G[S]
    <2>1. F[n + 1] = t.return
      BY <1>1, <1>4
    <2> DEFINE m == n + 1
    <2>2. all \in SUBSET D /\ m \in all /\ all \ {m} = S
      BY <1>4
    <2> HIDE DEF m, D, all, F
    <2>3. G[all] = F[m] + G[all \ {m}]
      BY <1>5, <2>2 DEF AddsUp
    <2>4. QED
      BY <2>1, <2>2, <2>3 DEF m
  <1>8. /\ TotalReturn(list, S) = G[S]
        /\ TotalReturn(more, S) = G[S]
        /\ TotalReturn(more, all) = G[all]
    <2> HIDE DEF D, all, F
    <2>1. /\ IsFiniteSet(D) /\ AddsUp(G, D, F) /\ S \in SUBSET D /\ all \in SUBSET D
          /\ ReturnsOf(F, more, all) /\ ReturnsOf(F, more, S) /\ ReturnsOf(F, list, S)
      BY <1>3, <1>4, <1>5, <1>6
    <2>2. TotalReturn(list, S) = G[S]
      BY <2>1, TotalOfPart
    <2>3. TotalReturn(more, S) = G[S]
      BY <2>1, TotalOfPart
    <2>4. TotalReturn(more, all) = G[all]
      BY <2>1, TotalOfPart
    <2>5. QED
      BY <2>2, <2>3, <2>4
  <1>9. G[all] = t.return + G[S]
    BY <1>7
  <1>10. G[S] \in Int
    BY <1>4, <1>5
  <1>11. QED
    BY <1>8, <1>9, <1>10 DEF more, n
-----------------------------------------------------------------------------
(* The backtest: the inductive invariant                                   *)

StatsTypes ==
    [trades : Nat, wins : Nat, losses : Nat, profit : Int, loss : Int, holdDays : Int]

\* Prices and equity are never negative, a position is one of the days done,
\* and no position is taken on the first day.
BacktestTypes ==
    /\ BtTypeOK
    /\ held # Flat => held.price \in Nat \ {0} /\ held.equity \in Nat
    /\ realized \in Nat
    /\ curve \in Seq(Nat) /\ Len(curve) = btDay
    /\ btDay = 0 => realized = Unit
    /\ btDay > 0 => curve[1] = Unit
    /\ finished => btDay > 0
    /\ stats \in StatsTypes

\* The open position carries the equity of the last close.
HeldCarriesEquity == held # Flat => held.equity = realized

\* Trades are of the past.
TradesAreDone == \A i \in DOMAIN trades : trades[i].exit <= btDay

\* The accumulated figures are those of the trades.
StatsOf(s, list) ==
    /\ s.trades = Len(list)
    /\ s.wins = Cardinality(Wins(list))
    /\ s.losses = Cardinality(Losses(list))
    /\ s.profit = TotalReturn(list, Wins(list))
    /\ s.loss = -TotalReturn(list, Losses(list))

StatsInv == StatsOf(stats, trades)

Forced == trades # <<>> /\ Last(trades).reason = "end_of_data"

\* The last point marks the open position at the last close, without costs.
CurveInv ==
    /\ btDay > 0 /\ ~ finished =>
        Last(curve) = IF held = Flat THEN realized
                      ELSE FMul(realized, FDiv(lastClose, held.price))
    /\ finished => IF Forced THEN Last(curve) >= realized ELSE Last(curve) = realized

BacktestInv ==
    /\ BacktestTypes
    /\ HeldWithinLimits /\ HeldCarriesEquity
    /\ OnePositionAtATime /\ TradesAreDone
    /\ EquityIsCompounded
    /\ StatsInv
    /\ CurveInv

LEMMA Reasons ==
    ASSUME NEW raw, NEW days, NEW signal
    PROVE  ExitReason(raw, days, signal)
               \in {"take_profit", "stop_loss", "max_hold", "signal_exit", ""}
  BY DEF ExitReason

\* What is known of an open position.
LEMMA HeldTypes ==
    ASSUME BacktestTypes, held # Flat
    PROVE  /\ held.entered \in 1 .. btDay /\ held.close \in CloseValues
           /\ held.close \in Nat \ {0}
           /\ held.price \in Nat \ {0} /\ held.equity \in Nat
           /\ btDay \in Nat /\ btDay > 0 /\ btDay <= MaxBacktestDays
           /\ lastClose \in CloseValues /\ lastClose \in Nat
  <1>1. held \in [entered : 1 .. btDay, close : CloseValues, price : Int, equity : Int]
    BY DEF BacktestTypes, BtTypeOK
  <1>2. btDay \in Nat /\ btDay <= MaxBacktestDays /\ held.entered \in 1 .. btDay /\ held.close \in CloseValues
    BY <1>1, BacktestParams DEF BacktestTypes, BtTypeOK
  <1>3. btDay > 0
    BY <1>2
  <1>4. QED
    BY <1>2, <1>3, BacktestParams DEF BacktestTypes, BtTypeOK

LEMMA TradesHaveReturns ==
    ASSUME BacktestTypes
    PROVE  /\ trades \in Seq(TradeSet) /\ ReturnsAreIntegers(trades)
           /\ Len(trades) \in Nat /\ DOMAIN trades = 1 .. Len(trades)
           /\ \A i \in 1 .. Len(trades) : trades[i] \in TradeSet
  <1>1. trades \in Seq(TradeSet)
    BY DEF BacktestTypes, BtTypeOK
  <1>2. \A i \in 1 .. Len(trades) : trades[i] \in TradeSet
    BY <1>1
  <1>3. \A i \in 1 .. Len(trades) : trades[i].return \in Int
    <2>1. \A t \in TradeSet : t.return \in Int
      BY DEF TradeSet
    <2>2. QED
      BY <1>2, <2>1
  <1>4. QED
    BY <1>1, <1>2, <1>3 DEF ReturnsAreIntegers

\* The position is left at the close c of a day (closeTrade and record).
Leaving(day, c, reason) ==
    LET t == Trade(held, day, c, reason)
    IN  /\ realized' = EquityAfter(held, c)
        /\ trades' = Append(trades, t)
        /\ stats' = Record(stats, t.return, day - held.entered)

LEMMA TradeTypes ==
    ASSUME BacktestTypes, held # Flat, NEW c \in CloseValues,
           NEW day \in btDay .. MaxBacktestDays,
           NEW reason \in {"take_profit", "stop_loss", "max_hold", "signal_exit", "end_of_data"}
    PROVE  /\ Trade(held, day, c, reason) \in TradeSet
           /\ Trade(held, day, c, reason).return = FDiv(ExitPrice(c), held.price) - Unit
           /\ Trade(held, day, c, reason).return \in Int
           /\ EquityAfter(held, c) \in Nat
  <1>1. held.entered \in 1 .. MaxBacktestDays /\ day \in 1 .. MaxBacktestDays
    BY HeldTypes, BacktestParams
  <1>2. held.price \in Nat \ {0} /\ held.equity \in Nat /\ c \in Nat /\ Unit \in Int
    BY HeldTypes, BacktestParams, UnitPositive
  <1>3. ExitPrice(c) \in Nat
    BY <1>2, CostsNeverHelp
  <1>4. FDiv(ExitPrice(c), held.price) \in Nat /\ EquityAfter(held, c) \in Nat
    BY <1>2, <1>3, QuotientTypes DEF EquityAfter
  <1>5. FDiv(ExitPrice(c), held.price) - Unit \in Int
    BY <1>2, <1>4
  <1>6. QED
    BY <1>1, <1>2, <1>4, <1>5 DEF Trade, TradeSet

LEMMA TotalIsInteger ==
    ASSUME NEW list, ReturnsAreIntegers(list), NEW S, SomeOf(S, list)
    PROVE  TotalReturn(list, S) \in Int
  <1> DEFINE D == 1 .. Len(list)
             R == [i \in D |-> list[i].return]
  <1>1. R \in [D -> Int] /\ ReturnsOf(R, list, S) /\ S \in SUBSET D
    BY DEF ReturnsAreIntegers, ReturnsOf, SomeOf
  <1>2. IsFiniteSet(D)
    <2>1. Len(list) \in Nat
      BY DEF ReturnsAreIntegers
    <2>2. QED
      BY <2>1, FS_Interval
  <1> HIDE DEF D, R
  <1>3. PICK G \in [SUBSET D -> Int] : AddsUp(G, D, R)
    BY <1>1, <1>2, SumInAnyOrder
  <1>4. TotalReturn(list, S) = G[S]
    BY <1>1, <1>2, <1>3, TotalOfPart
  <1>5. QED
    BY <1>1, <1>3, <1>4

\* The winners and the losers of a list with one more trade.
LEMMA OneMoreWinner ==
    ASSUME NEW list, NEW t, ReturnsAreIntegers(list), t.return \in Int
    PROVE  LET more == Append(list, t)
               n == Len(list)
           IN  /\ Wins(more) = Wins(list) \cup (IF t.return > 0 THEN {n + 1} ELSE {})
               /\ Losses(more) = Losses(list) \cup (IF t.return < 0 THEN {n + 1} ELSE {})
               /\ SomeOf(Wins(list), list) /\ SomeOf(Losses(list), list)
  <1> DEFINE more == Append(list, t)
             n == Len(list)
  <1>1. /\ n \in Nat /\ DOMAIN list = 1 .. n
        /\ DOMAIN more = 1 .. n + 1
        /\ more[n + 1] = t /\ \A k \in 1 .. n : more[k] = list[k]
    BY OneMoreTrade DEF ReturnsAreIntegers
  <1> HIDE DEF more, n
  <1>2. 1 .. n + 1 = (1 .. n) \cup {n + 1} /\ n + 1 \notin 1 .. n
    BY <1>1
  <1>3. Wins(more) = Wins(list) \cup (IF t.return > 0 THEN {n + 1} ELSE {})
    BY <1>1, <1>2 DEF Wins
  <1>4. Losses(more) = Losses(list) \cup (IF t.return < 0 THEN {n + 1} ELSE {})
    BY <1>1, <1>2 DEF Losses
  <1>5. SomeOf(Wins(list), list) /\ SomeOf(Losses(list), list)
    BY <1>1 DEF SomeOf, Wins, Losses, n
  <1>6. QED
    BY <1>3, <1>4, <1>5 DEF more, n

\* Some trades and one more: their number and their total.
LEMMA CountAndTotal ==
    ASSUME NEW list, NEW t, ReturnsAreIntegers(list), t.return \in Int,
           NEW S, SomeOf(S, list)
    PROVE  LET more == Append(list, t)
               all == S \cup {Len(list) + 1}
           IN  /\ Cardinality(S) \in Nat
               /\ Cardinality(all) = Cardinality(S) + 1
               /\ TotalReturn(list, S) \in Int
               /\ TotalReturn(more, S) = TotalReturn(list, S)
               /\ TotalReturn(more, all) = TotalReturn(list, S) + t.return
  <1> DEFINE n == Len(list)
  <1>1. n \in Nat /\ S \subseteq 1 .. n /\ n + 1 \notin S
    BY DEF ReturnsAreIntegers, SomeOf
  <1>2. IsFiniteSet(1 .. n)
    BY <1>1, FS_Interval
  <1> HIDE DEF n
  <1>3. IsFiniteSet(S)
    BY <1>1, <1>2, FS_Subset
  <1>4. Cardinality(S) \in Nat /\ Cardinality(S \cup {n + 1}) = Cardinality(S) + 1
    BY <1>1, <1>3, FS_CardinalityType, FS_AddElement
  <1>5. /\ TotalReturn(list, S) \in Int
        /\ TotalReturn(Append(list, t), S) = TotalReturn(list, S)
        /\ TotalReturn(Append(list, t), S \cup {n + 1}) = TotalReturn(list, S) + t.return
    <2>1. PICK total \in Int :
              /\ TotalReturn(list, S) = total
              /\ TotalReturn(Append(list, t), S) = total
              /\ TotalReturn(Append(list, t), S \cup {Len(list) + 1}) = total + t.return
      BY TotalAppend
    <2>2. QED
      BY <2>1 DEF n
  <1>6. QED
    BY <1>4, <1>5 DEF n

\* Recording a trade keeps the figures those of the list (tradeStats.record).
LEMMA RecordedStats ==
    ASSUME NEW list, NEW t, ReturnsAreIntegers(list), t.return \in Int,
           NEW s \in StatsTypes, StatsOf(s, list), NEW days \in Int
    PROVE  /\ Record(s, t.return, days) \in StatsTypes
           /\ StatsOf(Record(s, t.return, days), Append(list, t))
  <1> DEFINE more == Append(list, t)
             n == Len(list)
             r == t.return
             won == Wins(list)
             lost == Losses(list)
             new == Record(s, r, days)
  <1>1. Len(more) = n + 1 /\ n \in Nat
    BY OneMoreTrade DEF ReturnsAreIntegers
  <1>2. /\ Wins(more) = won \cup (IF r > 0 THEN {n + 1} ELSE {})
        /\ Losses(more) = lost \cup (IF r < 0 THEN {n + 1} ELSE {})
        /\ SomeOf(won, list) /\ SomeOf(lost, list)
    BY OneMoreWinner
  <1> HIDE DEF won, lost
  <1>3. /\ Cardinality(won) \in Nat
        /\ Cardinality(won \cup {n + 1}) = Cardinality(won) + 1
        /\ TotalReturn(list, won) \in Int
        /\ TotalReturn(more, won) = TotalReturn(list, won)
        /\ TotalReturn(more, won \cup {n + 1}) = TotalReturn(list, won) + r
    BY <1>2, CountAndTotal, ZenonT(60)
  <1>4. /\ Cardinality(lost) \in Nat
        /\ Cardinality(lost \cup {n + 1}) = Cardinality(lost) + 1
        /\ TotalReturn(list, lost) \in Int
        /\ TotalReturn(more, lost) = TotalReturn(list, lost)
        /\ TotalReturn(more, lost \cup {n + 1}) = TotalReturn(list, lost) + r
    BY <1>2, CountAndTotal, ZenonT(60)
  <1>5. /\ s.trades = n /\ s.wins = Cardinality(won) /\ s.losses = Cardinality(lost)
        /\ s.profit = TotalReturn(list, won) /\ s.loss = -TotalReturn(list, lost)
    BY DEF StatsOf, won, lost
  <1>6. /\ s.trades \in Nat /\ s.wins \in Nat /\ s.losses \in Nat
        /\ s.profit \in Int /\ s.loss \in Int /\ s.holdDays \in Int
        /\ r \in Int
    BY DEF StatsTypes
  <1> HIDE DEF r, more
  <1>7. /\ new.trades = s.trades + 1 /\ new.holdDays = s.holdDays + days
        /\ new.wins = s.wins + (IF r > 0 THEN 1 ELSE 0)
        /\ new.profit = s.profit + (IF r > 0 THEN r ELSE 0)
        /\ new.losses = s.losses + (IF r < 0 THEN 1 ELSE 0)
        /\ new.loss = s.loss + (IF r < 0 THEN -r ELSE 0)
        /\ new = [trades |-> new.trades, wins |-> new.wins, losses |-> new.losses,
                  profit |-> new.profit, loss |-> new.loss, holdDays |-> new.holdDays]
    <2> DEFINE w == IF r > 0 THEN 1 ELSE 0
               p == IF r > 0 THEN r ELSE 0
               l == IF r < 0 THEN 1 ELSE 0
               q == IF r < 0 THEN -r ELSE 0
    <2>1. new = [s EXCEPT !.trades = @ + 1, !.holdDays = @ + days, !.wins = @ + w,
                          !.profit = @ + p, !.losses = @ + l, !.loss = @ + q]
      BY DEF Record
    <2>2. s = [trades |-> s.trades, wins |-> s.wins, losses |-> s.losses,
               profit |-> s.profit, loss |-> s.loss, holdDays |-> s.holdDays]
      BY DEF StatsTypes
    <2> HIDE DEF new, w, p, l, q
    <2>3. new = [trades |-> s.trades + 1, wins |-> s.wins + w, losses |-> s.losses + l,
                 profit |-> s.profit + p, loss |-> s.loss + q, holdDays |-> s.holdDays + days]
      BY <2>1, <2>2
    <2>4. QED
      BY <2>3 DEF w, p, l, q
  <1> HIDE DEF new
  <1>8. CASE r > 0
    <2>1. /\ new.wins = s.wins + 1 /\ new.profit = s.profit + r
          /\ new.losses = s.losses /\ new.loss = s.loss
      BY <1>6, <1>7, <1>8
    <2>2. Wins(more) = won \cup {n + 1} /\ Losses(more) = lost
      BY <1>2, <1>6, <1>8 DEF r, more
    <2>3. StatsOf(new, more)
      BY <1>1, <1>3, <1>4, <1>5, <1>7, <2>1, <2>2 DEF StatsOf
    <2>4. new \in StatsTypes
      BY <1>6, <1>7, <2>1 DEF StatsTypes
    <2>5. QED
      BY <2>3, <2>4 DEF new, more, r
  <1>9. CASE r < 0
    <2>1. /\ new.wins = s.wins /\ new.profit = s.profit
          /\ new.losses = s.losses + 1 /\ new.loss = s.loss - r
      BY <1>6, <1>7, <1>9
    <2>2. Wins(more) = won /\ Losses(more) = lost \cup {n + 1}
      BY <1>2, <1>6, <1>9 DEF r, more
    <2>3. new.loss = -(TotalReturn(list, lost) + r)
      BY <1>4, <1>5, <1>6, <2>1
    <2>4. StatsOf(new, more)
      BY <1>1, <1>3, <1>4, <1>5, <1>7, <2>1, <2>2, <2>3 DEF StatsOf
    <2>5. new \in StatsTypes
      BY <1>6, <1>7, <2>1 DEF StatsTypes
    <2>6. QED
      BY <2>4, <2>5 DEF new, more, r
  <1>10. CASE r = 0
    <2>1. /\ new.wins = s.wins /\ new.profit = s.profit
          /\ new.losses = s.losses /\ new.loss = s.loss
      BY <1>6, <1>7, <1>10
    <2>2. Wins(more) = won /\ Losses(more) = lost
      BY <1>2, <1>6, <1>10 DEF r, more
    <2>3. StatsOf(new, more)
      BY <1>1, <1>3, <1>4, <1>5, <1>7, <2>1, <2>2 DEF StatsOf
    <2>4. new \in StatsTypes
      BY <1>6, <1>7, <2>1 DEF StatsTypes
    <2>5. QED
      BY <2>3, <2>4 DEF new, more, r
  <1>11. QED
    BY <1>6, <1>8, <1>9, <1>10

\* Leaving a position adds its trade to the list, and the equity and the
\* figures stay those of the list.
LEMMA LeavingIsExact ==
    ASSUME BacktestInv, held # Flat, NEW c \in CloseValues,
           NEW day \in btDay .. MaxBacktestDays,
           NEW reason \in {"take_profit", "stop_loss", "max_hold", "signal_exit", "end_of_data"},
           Leaving(day, c, reason)
    PROVE  /\ trades' \in Seq(TradeSet) /\ realized' \in Nat /\ stats' \in StatsTypes
           /\ Len(trades') = Len(trades) + 1
           /\ trades'[Len(trades) + 1] = Trade(held, day, c, reason)
           /\ \A k \in 1 .. Len(trades) : trades'[k] = trades[k]
           /\ EquityIsCompounded' /\ StatsInv'
  <1> DEFINE t == Trade(held, day, c, reason)
             more == Append(trades, t)
  <1>1. BacktestTypes /\ HeldCarriesEquity /\ EquityIsCompounded /\ StatsInv
    BY DEF BacktestInv
  <1>2. /\ t \in TradeSet /\ t.return \in Int
        /\ t.return = FDiv(ExitPrice(c), held.price) - Unit
        /\ EquityAfter(held, c) \in Nat
    BY <1>1, TradeTypes
  <1>3. /\ realized' = EquityAfter(held, c) /\ trades' = more
        /\ stats' = Record(stats, t.return, day - held.entered)
    BY DEF Leaving
  <1>4. ReturnsAreIntegers(trades) /\ trades \in Seq(TradeSet)
    BY <1>1, TradesHaveReturns
  <1>5. held.price \in Nat \ {0} /\ held.equity \in Nat /\ held.entered \in Int /\ day \in Int
    BY <1>1, HeldTypes
  <1> HIDE DEF t
  <1>6. /\ Len(more) = Len(trades) + 1 /\ more[Len(trades) + 1] = t
        /\ \A k \in 1 .. Len(trades) : more[k] = trades[k]
    BY <1>2, <1>4, OneMoreTrade
  <1>7. more \in Seq(TradeSet)
    BY <1>2, <1>4, AppendProperties
  <1>8. realized' = FMul(realized, Unit + t.return)
    <2> DEFINE x == FDiv(ExitPrice(c), held.price)
    <2>1. x \in Nat
      <3>1. ExitPrice(c) \in Nat
        BY CostsNeverHelp, BacktestParams
      <3>2. QED
        BY <1>5, <3>1, QuotientTypes
    <2> HIDE DEF x
    <2>2. Unit + t.return = x
      <3>1. t.return = x - Unit /\ Unit \in Int
        BY <1>2, UnitPositive DEF x
      <3>2. QED
        BY <2>1, <3>1
    <2>3. realized' = FMul(held.equity, x)
      BY <1>3 DEF EquityAfter, x
    <2>4. held.equity = realized
      BY <1>1 DEF HeldCarriesEquity
    <2>5. QED
      BY <2>2, <2>3, <2>4
  <1>9. Compounded(more) = FMul(Compounded(trades), Unit + t.return)
    BY <1>2, <1>4, CompoundedAppend
  <1>10. realized' = Compounded(trades')
    BY <1>1, <1>3, <1>8, <1>9 DEF EquityIsCompounded
  <1>11. StatsOf(stats', trades') /\ stats' \in StatsTypes
    <2>1. StatsOf(stats, trades) /\ stats \in StatsTypes
      BY <1>1 DEF StatsInv, BacktestTypes
    <2>2. day - held.entered \in Int
      BY <1>5
    <2>3. /\ Record(stats, t.return, day - held.entered) \in StatsTypes
          /\ StatsOf(Record(stats, t.return, day - held.entered), more)
      BY <1>2, <1>4, <2>1, <2>2, RecordedStats
    <2>4. QED
      BY <1>3, <2>3
  <1>12. EquityIsCompounded' /\ StatsInv'
    BY <1>10, <1>11 DEF EquityIsCompounded, StatsInv
  <1>13. QED
    BY <1>2, <1>3, <1>6, <1>7, <1>11, <1>12 DEF t

\* Its trade follows the others, and nothing that is held then began before it.
LEMMA LeavingKeepsOrder ==
    ASSUME BacktestInv, ~ finished, held # Flat, NEW c \in CloseValues,
           NEW day \in btDay .. MaxBacktestDays,
           NEW reason \in {"take_profit", "stop_loss", "max_hold", "signal_exit", "end_of_data"},
           Leaving(day, c, reason),
           day - held.entered <= MaxHoldDays,
           held.entered = day => reason = "end_of_data",
           reason = "end_of_data" => finished',
           held' # Flat => held'.entered = day
    PROVE  /\ OnePositionAtATime'
           /\ \A i \in DOMAIN trades' : trades'[i].exit <= day
  <1> DEFINE n == Len(trades)
             t == Trade(held, day, c, reason)
  <1>1. BacktestTypes /\ OnePositionAtATime /\ TradesAreDone
    BY DEF BacktestInv
  <1>2. /\ n \in Nat /\ DOMAIN trades = 1 .. n
        /\ \A i \in 1 .. n : trades[i] \in TradeSet
    BY <1>1, TradesHaveReturns
  <1>3. /\ Len(trades') = n + 1 /\ trades'[n + 1] = t
        /\ \A k \in 1 .. n : trades'[k] = trades[k]
        /\ trades' \in Seq(TradeSet)
    BY LeavingIsExact
  <1>4. DOMAIN trades' = 1 .. n + 1
    BY <1>3
  <1>5. /\ t.entry = held.entered /\ t.exit = day /\ t.reason = reason
        /\ held.entered \in Int /\ day \in Int /\ held.entered <= day /\ btDay <= day /\ btDay \in Int
        /\ MaxHoldDays \in Int
    BY <1>1, HeldTypes, BacktestParams DEF Trade
  <1>6. ASSUME NEW i \in 1 .. n
        PROVE  /\ trades[i].exit - trades[i].entry <= MaxHoldDays
               /\ trades[i].entry <= trades[i].exit
               /\ trades[i].entry # trades[i].exit
               /\ trades[i].reason # "end_of_data"
               /\ i + 1 \in 1 .. n => trades[i].exit <= trades[i + 1].entry
               /\ trades[i].exit <= held.entered
               /\ trades[i].exit <= btDay /\ trades[i].exit \in Int
    <2>1. trades[i].exit \in Int
      BY <1>2, BacktestParams DEF TradeSet
    <2>2. /\ trades[i].exit - trades[i].entry <= MaxHoldDays
          /\ trades[i].entry <= trades[i].exit
          /\ trades[i].entry = trades[i].exit => trades[i].reason = "end_of_data"
          /\ i + 1 \in DOMAIN trades => trades[i].exit <= trades[i + 1].entry
          /\ held # Flat => trades[i].exit <= held.entered
      BY <1>1, <1>2 DEF OnePositionAtATime
    <2>3. trades[i].reason = "end_of_data" => finished
      BY <1>1, <1>2 DEF OnePositionAtATime
    <2>4. trades[i].exit <= btDay
      BY <1>1, <1>2 DEF TradesAreDone
    <2>5. QED
      BY <1>2, <2>1, <2>2, <2>3, <2>4
  <1> HIDE DEF n, t
  <1>7. ASSUME NEW i \in 1 .. n + 1
        PROVE  /\ trades'[i].exit - trades'[i].entry <= MaxHoldDays
               /\ trades'[i].entry <= trades'[i].exit
               /\ trades'[i].entry = trades'[i].exit => trades'[i].reason = "end_of_data"
               /\ i + 1 \in 1 .. n + 1 => trades'[i].exit <= trades'[i + 1].entry
               /\ trades'[i].exit <= day
               /\ trades'[i].reason = "end_of_data" => finished' /\ i = n + 1
    <2>1. CASE i = n + 1
      <3>1. trades'[i] = t /\ i + 1 \notin 1 .. n + 1
        BY <1>2, <1>3, <2>1
      <3>2. QED
        BY <1>5, <2>1, <3>1
    <2>2. CASE i \in 1 .. n
      <3>1. trades'[i] = trades[i]
        BY <1>3, <2>2
      <3>2. trades[i].exit <= day
        BY <1>5, <1>6, <2>2
      <3>3. i + 1 \in 1 .. n + 1 => trades[i].exit <= trades'[i + 1].entry
        <4>1. CASE i + 1 \in 1 .. n
          BY <1>3, <1>6, <2>2, <4>1
        <4>2. CASE i = n
          BY <1>3, <1>5, <1>6, <2>2, <4>2
        <4>3. QED
          BY <1>2, <2>2, <4>1, <4>2
      <3>4. QED
        BY <1>6, <2>2, <3>1, <3>2, <3>3
    <2>3. QED
      BY <1>2, <2>1, <2>2
  <1>8. \A i \in DOMAIN trades' : trades'[i].exit <= day
    BY <1>4, <1>7
  <1>9. held' # Flat' => \A i \in DOMAIN trades' : trades'[i].exit <= held'.entered
    BY <1>8 DEF Flat
  <1>10. OnePositionAtATime'
    BY <1>3, <1>4, <1>7, <1>9 DEF OnePositionAtATime
  <1>11. QED
    BY <1>8, <1>10

\* Marking a day appends the mark to the curve.
LEMMA MarkedCurve ==
    ASSUME BacktestTypes, NEW mark \in Nat, curve' = Append(curve, mark),
           btDay' = btDay + 1, btDay = 0 => mark = Unit
    PROVE  /\ curve' \in Seq(Nat) /\ Len(curve') = btDay'
           /\ curve'[1] = Unit /\ Last(curve') = mark
  <1>1. curve \in Seq(Nat) /\ Len(curve) = btDay /\ btDay \in Nat
    BY BacktestParams DEF BacktestTypes, BtTypeOK
  <1>2. /\ curve' \in Seq(Nat) /\ Len(curve') = btDay + 1
        /\ \A i \in 1 .. btDay : curve'[i] = curve[i]
        /\ curve'[btDay + 1] = mark
    BY <1>1, AppendProperties
  <1>3. Last(curve') = mark
    BY <1>2 DEF Last
  <1>4. curve'[1] = Unit
    <2>1. CASE btDay = 0
      BY <1>2, <2>1
    <2>2. CASE btDay > 0
      <3>1. 1 \in 1 .. btDay /\ curve[1] = Unit
        BY <1>1, <2>2 DEF BacktestTypes
      <3>2. QED
        BY <1>2, <3>1
    <2>3. QED
      BY <1>1, <2>1, <2>2
  <1>5. QED
    BY <1>2, <1>3, <1>4

LEMMA NotFlat ==
    ASSUME NEW day \in Nat \ {0}, NEW c \in CloseValues, NEW equity \in Nat
    PROVE  /\ Opened(day, c, equity) # Flat
           /\ Opened(day, c, equity).entered = day /\ Opened(day, c, equity).close = c
           /\ Opened(day, c, equity).price \in Nat \ {0}
           /\ Opened(day, c, equity).equity = equity
           /\ Opened(day, c, equity)
                  \in [entered : 1 .. day, close : CloseValues, price : Int, equity : Int]
  <1> DEFINE p == EntryPrice(c)
  <1>1. c \in Nat \ {0}
    BY BacktestParams
  <1>2. p \in Nat /\ p >= c
    BY <1>1, CostsNeverHelp
  <1> HIDE DEF p
  <1>3. Opened(day, c, equity) = [entered |-> day, close |-> c, price |-> p, equity |-> equity]
    BY DEF Opened, p
  <1>4. p \in Nat \ {0} /\ day \in 1 .. day
    BY <1>1, <1>2
  <1>5. QED
    BY <1>3, <1>4 DEF Flat

\* What a day leaves held: a position taken today, or the one kept.
LEMMA HeldAfterDay ==
    ASSUME BacktestTypes, NEW c \in CloseValues, NEW entry \in BOOLEAN, NEW kept,
           btDay < MaxBacktestDays, btDay' = btDay + 1, lastClose' = c, realized' \in Nat,
           kept = Flat \/ (kept = held /\ held # Flat /\ held.equity = realized'),
           btDay = 0 => ~ entry /\ realized' = Unit,
           held' = IF kept = Flat /\ entry THEN Opened(btDay + 1, c, realized') ELSE kept,
           curve' = Append(curve, IF held' = Flat THEN realized'
                                  ELSE FMul(held'.equity, FDiv(c, held'.price)))
    PROVE  /\ \/ held' = Flat
              \/ held' \in [entered : 1 .. btDay', close : CloseValues, price : Int, equity : Int]
           /\ held' # Flat => /\ held'.price \in Nat \ {0} /\ held'.equity \in Nat
                              /\ held'.equity = realized'
                              /\ held'.entered < btDay' => held' = held /\ kept = held /\ held # Flat
                              /\ (held' = held /\ kept = held /\ held # Flat) \/ held'.entered = btDay'
           /\ curve' \in Seq(Nat) /\ Len(curve') = btDay' /\ curve'[1] = Unit
           /\ Last(curve') = IF held' = Flat THEN realized'
                             ELSE FMul(realized', FDiv(c, held'.price))
  <1> DEFINE day == btDay + 1
             mark == IF held' = Flat THEN realized'
                     ELSE FMul(held'.equity, FDiv(c, held'.price))
  <1>1. btDay \in Nat /\ day \in Nat \ {0} /\ c \in Nat /\ 1 .. btDay \subseteq 1 .. day
    BY BacktestParams DEF BacktestTypes, BtTypeOK
  <1>2. /\ \/ held' = Flat
           \/ held' \in [entered : 1 .. day, close : CloseValues, price : Int, equity : Int]
        /\ held' # Flat => /\ held'.price \in Nat \ {0} /\ held'.equity \in Nat
                           /\ held'.equity = realized'
                           /\ held'.entered < day => held' = held /\ kept = held /\ held # Flat
                           /\ (held' = held /\ kept = held /\ held # Flat) \/ held'.entered = day
    <2>1. CASE kept = Flat /\ entry
      <3>1. held' = Opened(day, c, realized')
        BY <2>1
      <3> HIDE DEF day
      <3>2. /\ held' # Flat /\ held'.entered = day /\ held'.price \in Nat \ {0}
            /\ held'.equity = realized'
            /\ held' \in [entered : 1 .. day, close : CloseValues, price : Int, equity : Int]
        <4> DEFINE equity == realized'
                   p == Opened(day, c, equity)
        <4>1. equity \in Nat /\ day \in Nat \ {0} /\ held' = p
          BY <1>1, <3>1
        <4> HIDE DEF equity
        <4>2. /\ p # Flat /\ p.entered = day /\ p.price \in Nat \ {0} /\ p.equity = equity
              /\ p \in [entered : 1 .. day, close : CloseValues, price : Int, equity : Int]
          <5>1. c \in CloseValues
            OBVIOUS
          <5> USE <4>1, <5>1
          <5>2. Opened(day, c, equity).price \in Nat \ {0} /\ Opened(day, c, equity).equity = equity
            BY NotFlat, SMTT(30)
          <5>3. Opened(day, c, equity) # Flat /\ Opened(day, c, equity).entered = day
            BY NotFlat, SMTT(30)
          <5>4. Opened(day, c, equity)
                    \in [entered : 1 .. day, close : CloseValues, price : Int, equity : Int]
            BY NotFlat
          <5>5. QED
            BY <5>2, <5>3, <5>4
        <4> HIDE DEF p
        <4>3. QED
          BY <4>1, <4>2 DEF equity
      <3>3. ~ (held'.entered < day)
        BY <1>1, <3>2
      <3>4. QED
        BY <3>2, <3>3
    <2>2. CASE kept = Flat /\ ~ entry
      <3>1. held' = Flat
        BY <2>2
      <3>2. QED
        BY <3>1
    <2>3. CASE kept = held /\ held # Flat /\ held.equity = realized'
      <3>1. held' = held
        BY <2>3
      <3>2. held \in [entered : 1 .. day, close : CloseValues, price : Int, equity : Int]
        <4>1. held \in [entered : 1 .. btDay, close : CloseValues, price : Int, equity : Int]
          BY <2>3 DEF BacktestTypes, BtTypeOK
        <4>2. QED
          BY <1>1, <4>1
      <3>3. held.price \in Nat \ {0} /\ held.equity \in Nat
        BY <2>3, HeldTypes
      <3>4. QED
        BY <2>3, <3>1, <3>2, <3>3
    <2>4. QED
      BY <2>1, <2>2, <2>3
  <1>3. mark \in Nat
    <2>1. CASE held' = Flat
      BY <2>1
    <2>2. CASE held' # Flat
      <3>1. held'.price \in Nat \ {0} /\ held'.equity \in Nat
        BY <1>2, <2>2
      <3>2. FMul(held'.equity, FDiv(c, held'.price)) \in Nat
        BY <1>1, <3>1, QuotientTypes
      <3>3. QED
        BY <2>2, <3>2
    <2>3. QED
      BY <2>1, <2>2
  <1>4. btDay = 0 => mark = Unit
    <2>1. SUFFICES ASSUME btDay = 0 PROVE mark = Unit
      OBVIOUS
    <2>2. held = Flat
      <3>1. held # Flat => btDay > 0
        BY HeldTypes
      <3>2. QED
        BY <2>1, <3>1
    <2>3. kept = Flat /\ ~ entry /\ realized' = Unit
      BY <2>1, <2>2
    <2>4. held' = Flat
      BY <2>3
    <2>5. QED
      BY <2>3, <2>4
  <1>5. curve' = Append(curve, mark)
    OBVIOUS
  <1>6. mark = IF held' = Flat THEN realized' ELSE FMul(realized', FDiv(c, held'.price))
    BY <1>2
  <1> HIDE DEF mark
  <1>7. curve' \in Seq(Nat) /\ Len(curve') = btDay' /\ curve'[1] = Unit /\ Last(curve') = mark
    BY <1>3, <1>4, <1>5, MarkedCurve
  <1>8. QED
    BY <1>2, <1>6, <1>7

\* A trading day keeps the invariant.
LEMMA DayIsExact ==
    ASSUME BacktestInv, NEW c \in CloseValues, NEW entry \in BOOLEAN, NEW exit \in BOOLEAN,
           btDay = 0 => ~ entry /\ ~ exit, TradingDay(c, entry, exit)
    PROVE  BacktestInv'
  <1> DEFINE day == btDay + 1
             raw == FDiv(c, held.close) - Unit
             reason == IF held = Flat THEN "" ELSE ExitReason(raw, day - held.entered, exit)
             left == reason # ""
             kept == IF left THEN Flat ELSE held
             equity == IF left THEN EquityAfter(held, c) ELSE realized
  <1>1. BacktestTypes
    BY DEF BacktestInv
  <1>2. /\ btDay \in Nat /\ day \in Nat /\ day \in btDay .. MaxBacktestDays
        /\ ~ finished /\ finished' = FALSE /\ btDay < MaxBacktestDays
        /\ btDay' = day /\ lastClose' = c /\ realized' = equity
    <2>1. btDay \in Nat /\ MaxBacktestDays \in Nat
      BY <1>1, BacktestParams DEF BacktestTypes, BtTypeOK
    <2>2. realized' = equity
      BY DEF TradingDay
    <2>3. /\ ~ finished /\ finished' = finished /\ btDay < MaxBacktestDays
          /\ btDay' = day /\ lastClose' = c
      BY DEF TradingDay
    <2>4. finished' = FALSE /\ day \in Nat /\ day \in btDay .. MaxBacktestDays
      BY <2>1, <2>3 DEF BacktestTypes, BtTypeOK
    <2> HIDE DEF equity, day
    <2>5. QED
      BY <2>1, <2>2, <2>3, <2>4
  <1>3. /\ held' = IF kept = Flat /\ entry THEN Opened(day, c, realized') ELSE kept
        /\ curve' = Append(curve, IF held' = Flat THEN realized'
                                  ELSE FMul(held'.equity, FDiv(c, held'.price)))
    BY DEF TradingDay
  <1>4. held # Flat => held.equity = realized
    BY DEF BacktestInv, HeldCarriesEquity
  <1>5. CASE left
    <2>1. held # Flat /\ kept = Flat
      BY <1>5
    <2>2. reason \in {"take_profit", "stop_loss", "max_hold", "signal_exit"}
      BY <1>5, <2>1, Reasons
    <2>3. Leaving(day, c, reason)
      BY <1>5 DEF TradingDay, Leaving
    <2>4. /\ held.entered \in 1 .. btDay /\ btDay > 0 /\ btDay \in Nat
          /\ MaxHoldDays \in Nat \ {0}
      BY <1>1, <2>1, HeldTypes, BacktestParams
    <2> HIDE DEF reason, equity, left, kept
    <2>5. day - held.entered <= MaxHoldDays /\ held.entered # day
      <3> DEFINE e == held.entered
      <3>1. e \in 1 .. btDay /\ (e < btDay => btDay - e < MaxHoldDays)
        BY <2>1, <2>4 DEF BacktestInv, HeldWithinLimits
      <3> HIDE DEF e
      <3>2. btDay + 1 - e <= MaxHoldDays /\ e # btDay + 1
        BY <2>4, <3>1
      <3>3. day = btDay + 1 /\ held.entered = e
        BY DEF e
      <3> HIDE DEF day
      <3>4. QED
        BY <2>4, <3>1, <3>2, <3>3
    <2> HIDE DEF day
    <2>6. /\ trades' \in Seq(TradeSet) /\ realized' \in Nat /\ stats' \in StatsTypes
          /\ EquityIsCompounded' /\ StatsInv'
      BY <1>2, <2>1, <2>2, <2>3, LeavingIsExact
    <2>7. /\ \/ held' = Flat
             \/ held' \in [entered : 1 .. btDay', close : CloseValues, price : Int, equity : Int]
          /\ held' # Flat => /\ held'.price \in Nat \ {0} /\ held'.equity \in Nat
                             /\ held'.equity = realized' /\ held'.entered = day
          /\ curve' \in Seq(Nat) /\ Len(curve') = btDay' /\ curve'[1] = Unit
          /\ Last(curve') = IF held' = Flat THEN realized'
                            ELSE FMul(realized', FDiv(c, held'.price))
      <3>1. /\ btDay' = btDay + 1
            /\ kept = Flat \/ (kept = held /\ held # Flat /\ held.equity = realized')
            /\ btDay = 0 => ~ entry /\ realized' = Unit
        BY <1>2, <2>1, <2>4 DEF day
      <3>2. held' = IF kept = Flat /\ entry THEN Opened(btDay + 1, c, realized') ELSE kept
        BY <1>3 DEF day
      <3>3. /\ btDay < MaxBacktestDays /\ lastClose' = c /\ realized' \in Nat
            /\ curve' = Append(curve, IF held' = Flat THEN realized'
                                      ELSE FMul(held'.equity, FDiv(c, held'.price)))
        BY <1>2, <1>3, <2>6
      <3>4. /\ \/ held' = Flat
               \/ held' \in [entered : 1 .. btDay', close : CloseValues, price : Int, equity : Int]
            /\ held' # Flat => /\ held'.price \in Nat \ {0} /\ held'.equity \in Nat
                               /\ held'.equity = realized'
                               /\ held'.entered < btDay' => held' = held /\ kept = held /\ held # Flat
                               /\ (held' = held /\ kept = held /\ held # Flat) \/ held'.entered = btDay'
            /\ curve' \in Seq(Nat) /\ Len(curve') = btDay' /\ curve'[1] = Unit
            /\ Last(curve') = IF held' = Flat THEN realized'
                              ELSE FMul(realized', FDiv(c, held'.price))
        BY <1>1, <3>1, <3>2, <3>3, HeldAfterDay
      <3>5. btDay' = day
        BY <1>2
      <3>6. kept # held
        BY <2>1
      <3>7. QED
        BY <3>4, <3>5, <3>6
    <2>8. /\ OnePositionAtATime'
          /\ \A i \in DOMAIN trades' : trades'[i].exit <= day
      BY <1>2, <2>1, <2>2, <2>3, <2>5, <2>7, LeavingKeepsOrder
    <2>9. day > 0 /\ day <= MaxBacktestDays /\ day \in Nat
      BY <1>2, <2>4 DEF day
    <2>10. BtTypeOK'
      <3>1. /\ btDay' \in 0 .. MaxBacktestDays /\ lastClose' \in CloseValues
            /\ finished' \in BOOLEAN /\ realized' \in Int
        <4>1. btDay' \in 0 .. MaxBacktestDays
          BY <1>2, <2>9, BacktestParams
        <4>2. lastClose' \in CloseValues /\ finished' \in BOOLEAN
          BY <1>2
        <4>3. realized' \in Int
          BY <2>6
        <4>4. QED
          BY <4>1, <4>2, <4>3
      <3> DEFINE P == [entered : 1 .. btDay', close : CloseValues, price : Int, equity : Int]
      <3>2. held' = Flat \/ held' \in P
        BY <2>7
      <3> HIDE DEF P
      <3>3. QED
        BY <2>6, <3>1, <3>2 DEF BtTypeOK, Flat, TradeSet, P
    <2>11. BacktestTypes'
      BY <1>2, <2>6, <2>7, <2>9, <2>10 DEF BacktestTypes, Flat, StatsTypes
    <2>12. HeldWithinLimits' /\ HeldCarriesEquity'
      BY <1>2, <2>7, <2>9 DEF HeldWithinLimits, HeldCarriesEquity, Flat
    <2>13. TradesAreDone' /\ CurveInv'
      BY <1>2, <2>7, <2>8 DEF TradesAreDone, CurveInv, Flat
    <2>14. QED
      BY <2>6, <2>8, <2>11, <2>12, <2>13 DEF BacktestInv
  <1>6. CASE ~ left
    <2>1. kept = held /\ realized' = realized /\ trades' = trades /\ stats' = stats
      BY <1>2, <1>6 DEF TradingDay
    <2>2. held # Flat => /\ raw < TakeProfit /\ raw > -StopLoss
                         /\ day - held.entered < MaxHoldDays
      <3>1. SUFFICES ASSUME held # Flat
                     PROVE  raw < TakeProfit /\ raw > -StopLoss /\ day - held.entered < MaxHoldDays
        OBVIOUS
      <3>2. ExitReason(raw, day - held.entered, exit) = ""
        BY <1>6, <3>1
      <3>3. /\ ~ (raw >= TakeProfit) /\ ~ (raw <= -StopLoss)
            /\ ~ (day - held.entered >= MaxHoldDays)
        <4> HIDE DEF raw, day
        <4>1. QED
          BY <3>2 DEF ExitReason
      <3>4. raw \in Int
        <4>1. c \in Nat /\ held.close \in Nat \ {0} /\ Unit \in Int
          BY <1>1, <3>1, HeldTypes, BacktestParams, UnitPositive
        <4>2. FDiv(c, held.close) \in Nat
          BY <4>1, QuotientTypes
        <4>3. QED
          BY <4>1, <4>2
      <3>5. /\ day - held.entered \in Int /\ TakeProfit \in Int /\ StopLoss \in Int
            /\ MaxHoldDays \in Int
        <4>1. held.entered \in Int /\ btDay \in Nat
          BY <1>1, <3>1, HeldTypes
        <4>2. TakeProfit \in Int /\ StopLoss \in Int /\ MaxHoldDays \in Int
          BY BacktestParams
        <4>3. QED
          BY <4>1, <4>2
      <3> HIDE DEF raw, day
      <3>6. QED
        BY <3>3, <3>4, <3>5
    <2>3. realized \in Nat /\ (btDay = 0 => realized = Unit)
      BY <1>1 DEF BacktestTypes
    <2> HIDE DEF day, reason, left, equity
    <2>4. /\ \/ held' = Flat
             \/ held' \in [entered : 1 .. btDay', close : CloseValues, price : Int, equity : Int]
          /\ held' # Flat => /\ held'.price \in Nat \ {0} /\ held'.equity \in Nat
                             /\ held'.equity = realized'
                             /\ held'.entered < btDay' => held' = held /\ held # Flat
                             /\ (held' = held /\ held # Flat) \/ held'.entered = btDay'
          /\ curve' \in Seq(Nat) /\ Len(curve') = btDay' /\ curve'[1] = Unit
          /\ Last(curve') = IF held' = Flat THEN realized'
                            ELSE FMul(realized', FDiv(c, held'.price))
      <3>1. /\ btDay' = btDay + 1 /\ realized' \in Nat
            /\ kept = Flat \/ (kept = held /\ held # Flat /\ held.equity = realized')
            /\ btDay = 0 => ~ entry /\ realized' = Unit
        BY <1>2, <1>4, <2>1, <2>3 DEF day
      <3> HIDE DEF kept
      <3>2. held' = IF kept = Flat /\ entry THEN Opened(btDay + 1, c, realized') ELSE kept
        BY <1>3 DEF day
      <3>3. QED
        BY <1>1, <1>2, <1>3, <3>1, <3>2, HeldAfterDay DEF day
    <2>5. /\ DOMAIN trades = 1 .. Len(trades) /\ trades \in Seq(TradeSet)
          /\ \A i \in DOMAIN trades : trades[i].exit \in Int /\ trades[i].exit <= btDay
      <3>1. /\ DOMAIN trades = 1 .. Len(trades) /\ trades \in Seq(TradeSet)
            /\ \A i \in 1 .. Len(trades) : trades[i] \in TradeSet
        BY <1>1, TradesHaveReturns
      <3>2. \A i \in 1 .. Len(trades) : trades[i].exit \in Int
        BY <3>1, BacktestParams DEF TradeSet
      <3>3. QED
        BY <3>1, <3>2 DEF BacktestInv, TradesAreDone
    <2>6. day > 0 /\ day <= MaxBacktestDays /\ day \in Nat /\ btDay < day
      BY <1>2 DEF day
    <2>7. \A i \in DOMAIN trades : trades[i].exit <= day
      BY <1>2, <2>5, <2>6
    <2>8. held' # Flat => \A i \in DOMAIN trades : trades[i].exit <= held'.entered
      <3>1. CASE held' = held /\ held # Flat
        BY <3>1 DEF BacktestInv, OnePositionAtATime
      <3>2. CASE held'.entered = btDay'
        BY <1>2, <2>7, <3>2
      <3>3. QED
        BY <2>4, <3>1, <3>2
    <2>9. OnePositionAtATime'
      <3>1. \A i \in DOMAIN trades :
                /\ trades[i].exit - trades[i].entry <= MaxHoldDays
                /\ trades[i].entry <= trades[i].exit
                /\ trades[i].entry = trades[i].exit => trades[i].reason = "end_of_data"
                /\ i + 1 \in DOMAIN trades => trades[i].exit <= trades[i + 1].entry
        BY DEF BacktestInv, OnePositionAtATime
      <3>2. \A i \in DOMAIN trades : trades[i].reason # "end_of_data"
        BY <1>2 DEF BacktestInv, OnePositionAtATime
      <3>3. QED
        BY <2>1, <2>8, <3>1, <3>2 DEF OnePositionAtATime, Flat
    <2>10. BtTypeOK'
      <3>1. /\ btDay' \in 0 .. MaxBacktestDays /\ lastClose' \in CloseValues
            /\ finished' \in BOOLEAN /\ realized' \in Int /\ trades' \in Seq(TradeSet)
        <4>1. btDay' \in 0 .. MaxBacktestDays
          BY <1>2, <2>6, BacktestParams
        <4>2. lastClose' \in CloseValues /\ finished' \in BOOLEAN
          BY <1>2
        <4>3. realized' \in Int /\ trades' \in Seq(TradeSet)
          BY <2>1, <2>3, <2>5
        <4>4. QED
          BY <4>1, <4>2, <4>3
      <3> DEFINE P == [entered : 1 .. btDay', close : CloseValues, price : Int, equity : Int]
      <3>2. held' = Flat \/ held' \in P
        BY <2>4
      <3> HIDE DEF P
      <3>3. QED
        BY <3>1, <3>2 DEF BtTypeOK, Flat, TradeSet, P
    <2>11. BacktestTypes'
      <3>1. stats \in StatsTypes
        BY <1>1 DEF BacktestTypes
      <3>2. QED
        BY <1>2, <2>1, <2>3, <2>4, <2>6, <2>10, <3>1 DEF BacktestTypes, Flat, StatsTypes
    <2>12. HeldWithinLimits'
      <3>1. SUFFICES ASSUME held' # Flat, held'.entered < btDay'
                     PROVE  /\ FDiv(lastClose', held'.close) - Unit < TakeProfit
                            /\ FDiv(lastClose', held'.close) - Unit > -StopLoss
                            /\ btDay' - held'.entered < MaxHoldDays
        BY <1>2 DEF HeldWithinLimits, Flat
      <3>2. held' = held /\ held # Flat
        BY <2>4, <3>1
      <3>3. QED
        BY <1>2, <2>2, <3>2
    <2>13. HeldCarriesEquity'
      BY <2>4 DEF HeldCarriesEquity, Flat
    <2>14. TradesAreDone' /\ CurveInv'
      BY <1>2, <2>1, <2>4, <2>7 DEF TradesAreDone, CurveInv, Flat
    <2>15. EquityIsCompounded' /\ StatsInv'
      BY <2>1 DEF BacktestInv, EquityIsCompounded, StatsInv
    <2>16. QED
      BY <2>9, <2>11, <2>12, <2>13, <2>14, <2>15 DEF BacktestInv
  <1>7. QED
    BY <1>5, <1>6

\* The end of the range keeps the invariant.
LEMMA EndIsExact ==
    ASSUME BacktestInv, EndOfData
    PROVE  BacktestInv'
  <1>1. BacktestTypes
    BY DEF BacktestInv
  <1>2. /\ ~ finished /\ btDay > 0 /\ finished' = TRUE /\ held' = Flat
        /\ btDay' = btDay /\ lastClose' = lastClose /\ curve' = curve
    BY DEF EndOfData
  <1>3. /\ btDay \in 0 .. MaxBacktestDays /\ btDay \in Nat /\ lastClose \in CloseValues
    BY <1>1, <1>2, BacktestParams DEF BacktestTypes, BtTypeOK
  <1>4. HeldWithinLimits' /\ HeldCarriesEquity'
    BY <1>2 DEF HeldWithinLimits, HeldCarriesEquity, Flat
  <1>5. ASSUME trades' \in Seq(TradeSet), realized' \in Nat, stats' \in StatsTypes
        PROVE  BacktestTypes'
    <2>1. BtTypeOK'
      BY <1>2, <1>3, <1>5 DEF BtTypeOK, Flat, TradeSet
    <2>2. QED
      BY <1>1, <1>2, <1>3, <1>5, <2>1 DEF BacktestTypes, Flat, StatsTypes
  <1>6. CASE held = Flat
    <2>1. realized' = realized /\ trades' = trades /\ stats' = stats
      BY <1>6 DEF EndOfData
    <2>2. trades \in Seq(TradeSet) /\ realized \in Nat /\ stats \in StatsTypes
      BY <1>1 DEF BacktestTypes, BtTypeOK
    <2>3. BacktestTypes'
      BY <1>5, <2>1, <2>2
    <2>4. \A i \in DOMAIN trades : trades[i].reason # "end_of_data"
      BY <1>2 DEF BacktestInv, OnePositionAtATime
    <2>5. OnePositionAtATime'
      <3>1. \A i \in DOMAIN trades :
                /\ trades[i].exit - trades[i].entry <= MaxHoldDays
                /\ trades[i].entry <= trades[i].exit
                /\ trades[i].entry = trades[i].exit => trades[i].reason = "end_of_data"
                /\ i + 1 \in DOMAIN trades => trades[i].exit <= trades[i + 1].entry
        BY DEF BacktestInv, OnePositionAtATime
      <3>2. QED
        BY <1>2, <2>1, <2>4, <3>1 DEF OnePositionAtATime, Flat
    <2>6. TradesAreDone' /\ EquityIsCompounded' /\ StatsInv'
      BY <1>2, <2>1 DEF BacktestInv, TradesAreDone, EquityIsCompounded, StatsInv
    <2>7. ~ Forced'
      <3>1. trades # <<>> => Len(trades) \in DOMAIN trades /\ Last(trades) = trades[Len(trades)]
        BY <2>2 DEF Last
      <3>2. QED
        BY <2>1, <2>4, <3>1 DEF Forced
    <2>8. Last(curve) = realized
      BY <1>2, <1>6 DEF BacktestInv, CurveInv
    <2>9. CurveInv'
      BY <1>2, <2>1, <2>7, <2>8 DEF CurveInv
    <2>10. QED
      BY <1>4, <2>3, <2>5, <2>6, <2>9 DEF BacktestInv
  <1>7. CASE held # Flat
    <2> DEFINE reason == "end_of_data"
               t == Trade(held, btDay, lastClose, reason)
    <2>1. Leaving(btDay, lastClose, reason)
      BY <1>7 DEF EndOfData, Leaving
    <2>2. /\ held.entered \in 1 .. btDay /\ held.price \in Nat \ {0} /\ held.equity \in Nat
          /\ lastClose \in Nat /\ MaxHoldDays \in Nat \ {0}
      BY <1>1, <1>7, HeldTypes, BacktestParams
    <2>3. btDay - held.entered <= MaxHoldDays
      <3> DEFINE e == held.entered
      <3>1. e \in 1 .. btDay /\ (e < btDay => btDay - e < MaxHoldDays)
        BY <1>7, <2>2 DEF BacktestInv, HeldWithinLimits
      <3> HIDE DEF e
      <3>2. btDay - e <= MaxHoldDays
        BY <1>3, <2>2, <3>1
      <3>3. QED
        BY <3>2 DEF e
    <2>4. btDay \in btDay .. MaxBacktestDays
      BY <1>3, BacktestParams
    <2>5. reason \in {"take_profit", "stop_loss", "max_hold", "signal_exit", "end_of_data"}
      OBVIOUS
    <2>6. /\ trades' \in Seq(TradeSet) /\ realized' \in Nat /\ stats' \in StatsTypes
          /\ Len(trades') = Len(trades) + 1 /\ trades'[Len(trades) + 1] = t
          /\ EquityIsCompounded' /\ StatsInv'
      BY <1>3, <1>7, <2>1, <2>4, <2>5, LeavingIsExact
    <2>7. OnePositionAtATime' /\ \A i \in DOMAIN trades' : trades'[i].exit <= btDay
      BY <1>2, <1>3, <1>7, <2>1, <2>3, <2>4, <2>5, LeavingKeepsOrder
    <2>8. TradesAreDone'
      BY <1>2, <2>7 DEF TradesAreDone
    <2>9. BacktestTypes'
      BY <1>5, <2>6
    <2>10. Forced'
      <3>1. Len(trades) \in Nat
        BY <1>1, TradesHaveReturns
      <3>2. trades' # <<>> /\ Last(trades') = t
        BY <2>6, <3>1 DEF Last
      <3>3. t.reason = "end_of_data"
        BY DEF Trade
      <3>4. QED
        BY <3>2, <3>3 DEF Forced
    <2>11. Last(curve) >= realized'
      <3>1. Last(curve) = FMul(held.equity, FDiv(lastClose, held.price))
        BY <1>2, <1>7 DEF BacktestInv, CurveInv, HeldCarriesEquity
      <3>2. realized' = FMul(held.equity, FDiv(ExitPrice(lastClose), held.price))
        BY <2>1 DEF Leaving, EquityAfter
      <3>3. ExitPrice(lastClose) \in Nat /\ ExitPrice(lastClose) <= lastClose
        BY <2>2, CostsNeverHelp
      <3> DEFINE low == FMul(held.equity, FDiv(ExitPrice(lastClose), held.price))
                 high == FMul(held.equity, FDiv(lastClose, held.price))
      <3>4. low <= high
        BY <2>2, <3>3, LowerPriceLowerEquity
      <3>5. low \in Nat /\ high \in Nat
        BY <2>2, <3>3, QuotientTypes
      <3>6. Last(curve) = high /\ realized' = low
        BY <3>1, <3>2
      <3> HIDE DEF low, high
      <3>7. QED
        BY <3>4, <3>5, <3>6
    <2>12. CurveInv'
      BY <1>2, <2>10, <2>11 DEF CurveInv
    <2>13. QED
      BY <1>4, <2>6, <2>7, <2>8, <2>9, <2>12 DEF BacktestInv
  <1>8. QED
    BY <1>6, <1>7

LEMMA BacktestStarts == BtInit => BacktestInv
  <1> SUFFICES ASSUME BtInit PROVE BacktestInv
    OBVIOUS
  <1>1. /\ btDay = 0 /\ lastClose = 0 /\ held = Flat /\ realized = Unit
        /\ curve = <<>> /\ trades = <<>> /\ stats = NoStats /\ finished = FALSE
    BY DEF BtInit
  <1>2. NoStats \in StatsTypes
    BY DEF NoStats, StatsTypes
  <1>3. BacktestTypes
    <2>1. BtTypeOK
      <3>1. btDay \in 0 .. MaxBacktestDays
        BY <1>1, BacktestParams
      <3>2. trades \in Seq(TradeSet)
        BY <1>1, EmptySeq
      <3>3. realized \in Int
        BY <1>1, UnitPositive
      <3>4. /\ lastClose \in CloseValues \cup {0} /\ ~ btDay > 0
            /\ held = Flat /\ finished \in BOOLEAN
        <4>1. btDay = 0 /\ lastClose = 0 /\ held = Flat /\ finished = FALSE
          BY <1>1, Zenon
        <4>2. lastClose \in CloseValues \cup {0} /\ finished \in BOOLEAN
          BY <4>1, Zenon
        <4>3. ~ btDay > 0
          BY <4>1
        <4>4. QED
          BY <4>1, <4>2, <4>3, Zenon
      <3>5. QED
        BY <3>1, <3>2, <3>3, <3>4 DEF BtTypeOK
    <2>2. curve \in Seq(Nat) /\ Len(curve) = 0
      BY <1>1, EmptySeq
    <2>3. realized \in Nat /\ stats \in StatsTypes
      BY <1>1, <1>2, UnitPositive
    <2>4. QED
      BY <1>1, <2>1, <2>2, <2>3 DEF BacktestTypes
  <1>4. HeldWithinLimits /\ HeldCarriesEquity /\ OnePositionAtATime /\ TradesAreDone
    BY <1>1 DEF HeldWithinLimits, HeldCarriesEquity, OnePositionAtATime, TradesAreDone
  <1>5. EquityIsCompounded
    BY <1>1, CompoundedOfNone DEF EquityIsCompounded
  <1>6. StatsInv
    <2>1. Wins(<<>>) = {} /\ Losses(<<>>) = {}
      BY DEF Wins, Losses
    <2>2. Cardinality({}) = 0
      BY FS_EmptySet
    <2>3. TotalReturn(<<>>, {}) = 0
      BY TotalOfNone
    <2>4. StatsOf(NoStats, <<>>)
      <3> DEFINE lost == TotalReturn(<<>>, Losses(<<>>))
      <3>1. /\ NoStats.trades = 0 /\ NoStats.wins = 0 /\ NoStats.losses = 0
            /\ NoStats.profit = 0 /\ NoStats.loss = 0
        BY DEF NoStats
      <3>2. Len(<<>>) = 0
        BY EmptySeq
      <3>3. lost = 0
        BY <2>1, <2>3
      <3> HIDE DEF lost, NoStats
      <3>4. NoStats.loss + lost = 0 /\ NoStats.loss \in Int /\ lost \in Int
        BY <3>1, <3>3
      <3>5. NoStats.loss = -lost
        BY <3>4
      <3>6. QED
        BY <2>1, <2>2, <2>3, <3>1, <3>2, <3>5 DEF StatsOf, lost
    <2>5. QED
      BY <1>1, <2>4 DEF StatsInv
  <1>7. CurveInv
    BY <1>1 DEF CurveInv
  <1>8. QED
    BY <1>3, <1>4, <1>5, <1>6, <1>7 DEF BacktestInv

LEMMA BacktestStep ==
    ASSUME BacktestInv, [BtNext]_btVars
    PROVE  BacktestInv'
  <1>1. CASE EndOfData
    BY <1>1, EndIsExact
  <1>2. CASE \E c \in CloseValues, entry, exit \in BOOLEAN :
                (btDay = 0 => ~ entry /\ ~ exit) /\ TradingDay(c, entry, exit)
    BY <1>2, DayIsExact
  <1>3. CASE UNCHANGED btVars
    BY <1>3 DEF btVars, BacktestInv, BacktestTypes, BtTypeOK, HeldWithinLimits, HeldCarriesEquity,
                OnePositionAtATime, TradesAreDone, EquityIsCompounded, StatsInv, CurveInv, Forced,
                TradeSet, StatsTypes, Flat
  <1>4. QED
    BY <1>1, <1>2, <1>3 DEF BtNext

\* The statistics a result shows are those of its trades.
LEMMA ResultOfTheTrades ==
    ASSUME BacktestTypes, StatsInv
    PROVE  StatsOfTheTrades
  <1> DEFINE won == Wins(trades)
             lost == Losses(trades)
             total == TotalReturn(trades, lost)
             n == Cardinality(lost)
  <1>1. /\ stats.trades = Len(trades) /\ stats.wins = Cardinality(won) /\ stats.losses = n
        /\ stats.profit = TotalReturn(trades, won) /\ stats.loss = -total
    BY DEF StatsInv, StatsOf
  <1>2. stats.loss \in Int /\ stats.losses \in Nat /\ Unit \in Nat \ {0}
    BY UnitPositive DEF BacktestTypes, StatsTypes
  <1>3. total \in Int
    <2>1. ReturnsAreIntegers(trades)
      BY TradesHaveReturns
    <2>2. SomeOf(lost, trades)
      BY <2>1 DEF SomeOf, Losses, ReturnsAreIntegers
    <2> HIDE DEF lost
    <2>3. QED
      BY <2>1, <2>2, TotalIsInteger
  <1>4. -Ratio(stats.loss, stats.losses * Unit) = Ratio(total, n * Unit)
    <2> HIDE DEF total, n
    <2>1. n \in Nat /\ n * Unit \in Nat /\ stats.loss = -total
      BY <1>1, <1>2
    <2>2. CASE n = 0
      BY <1>1, <1>2, <2>2 DEF Ratio
    <2>3. CASE n # 0
      <3>1. n * Unit \in Nat \ {0}
        BY <1>2, <2>1, <2>3
      <3> DEFINE m == n * Unit
      <3> HIDE DEF m
      <3>2. total * Unit \in Int /\ (-total) * Unit = -(total * Unit)
        BY <1>2, <1>3
      <3>3. RoundDiv(-(total * Unit), m) = -RoundDiv(total * Unit, m)
        BY <3>1, <3>2, RoundDivOfOpposite DEF m
      <3>4. RoundDiv(total * Unit, m) \in Int
        BY <3>1, <3>2, RoundDivType DEF m
      <3>5. Ratio(stats.loss, m) = RoundDiv((-total) * Unit, m) /\ Ratio(total, m) = RoundDiv(total * Unit, m)
        BY <2>1, <3>1 DEF Ratio, FDiv, m
      <3>6. -Ratio(stats.loss, m) = Ratio(total, m)
        BY <3>2, <3>3, <3>4, <3>5
      <3>7. QED
        BY <1>1, <3>6 DEF m
    <2>4. QED
      BY <2>2, <2>3
  <1>5. lost = {} => Ratio(stats.profit, stats.loss) = 0
    <2>1. SUFFICES ASSUME lost = {} PROVE Ratio(stats.profit, stats.loss) = 0
      OBVIOUS
    <2>2. total = 0
      BY <2>1, TotalOfNone
    <2>3. stats.loss = 0
      <3> HIDE DEF total
      <3>1. stats.loss + total = 0
        BY <1>1, <1>2, <1>3
      <3>2. QED
        BY <1>2, <2>2, <3>1
    <2>4. QED
      BY <2>3 DEF Ratio
  <1>6. /\ Result.winRate = Ratio(stats.wins, stats.trades)
        /\ Result.avgWin = Ratio(stats.profit, stats.wins * Unit)
        /\ Result.avgLoss = -Ratio(stats.loss, stats.losses * Unit)
        /\ Result.profitFactor = Ratio(stats.profit, stats.loss)
    BY DEF Result
  <1>7. QED
    BY <1>1, <1>4, <1>5, <1>6 DEF StatsOfTheTrades

\* The curve ends at the total.
LEMMA CurveOfTheTotal ==
    ASSUME BacktestTypes, CurveInv
    PROVE  CurveEndsAtTotal
  <1> SUFFICES ASSUME finished PROVE
        /\ ~ Forced => Last(curve) = realized
        /\ Forced => Last(curve) >= realized
        /\ ~ Forced /\ Result.total < 0 => Result.drawdown <= Result.total + 1
    BY DEF CurveEndsAtTotal, Forced
  <1>1. IF Forced THEN Last(curve) >= realized ELSE Last(curve) = realized
    BY DEF CurveInv
  <1>2. ASSUME ~ Forced, Result.total < 0
        PROVE  Result.drawdown <= Result.total + 1
    <2>1. Last(curve) = realized
      BY <1>1, <1>2
    <2>2. /\ curve \in Seq(Nat) /\ curve[1] = Unit /\ curve # <<>>
          /\ realized \in Nat /\ Unit \in Nat \ {0}
      BY UnitPositive DEF BacktestTypes
    <2>3. PICK peak \in Nat : /\ peak >= curve[1]
                              /\ MaxDrawdown(curve) \in Int
                              /\ MaxDrawdown(curve) <= Fall(Last(curve), peak)
      BY <2>2, DrawdownAtLast
    <2>4. Result.total = realized - Unit /\ Result.drawdown = MaxDrawdown(curve)
      BY DEF Result
    <2> DEFINE r == realized
               d == MaxDrawdown(curve)
    <2>5. r \in Nat /\ r < Unit /\ peak >= Unit /\ peak \in Nat \ {0} /\ d \in Int /\ d <= Fall(r, peak)
      BY <1>2, <2>1, <2>2, <2>3, <2>4
    <2> HIDE DEF r, d
    <2>6. Fall(r, peak) = RoundDiv(-((peak - r) * Unit), peak)
      <3>1. (r - peak) * Unit = -((peak - r) * Unit)
        BY <2>2, <2>5
      <3>2. QED
        BY <2>5, <3>1 DEF Fall, FDiv
    <2> DEFINE a == (peak - r) * Unit
               k == Unit - r
    <2>7. a \in Nat /\ k \in Nat
      BY <2>2, <2>5
    <2>8. k * peak <= a
      <3>1. k * peak = Unit * peak - r * peak /\ a = peak * Unit - r * Unit
        BY <2>2, <2>5
      <3>2. r * Unit <= r * peak
        BY <2>2, <2>5
      <3>3. Unit * peak = peak * Unit /\ Unit * peak \in Int /\ r * peak \in Int /\ r * Unit \in Int
        BY <2>2, <2>5
      <3>4. QED
        BY <3>1, <3>2, <3>3
    <2> HIDE DEF a, k
    <2>9. k <= RoundDiv(a, peak)
      BY <2>5, <2>7, <2>8, RoundDivBounds
    <2>10. RoundDiv(-a, peak) = -RoundDiv(a, peak) /\ RoundDiv(a, peak) \in Nat
      BY <2>5, <2>7, RoundedQuotient
    <2>11. Fall(r, peak) = RoundDiv(-a, peak)
      BY <2>6 DEF a
    <2>12. d <= -k
      BY <2>5, <2>7, <2>9, <2>10, <2>11
    <2>13. d <= r - Unit
      BY <2>2, <2>5, <2>12 DEF k
    <2>14. QED
      BY <2>2, <2>4, <2>5, <2>13 DEF r, d
  <1>3. QED
    BY <1>1, <1>2

\* A backtest keeps its limits, holds one position at a time, and its equity,
\* statistics and curve are those of its trades, whatever the closes, the
\* signals, the rates and the costs (runBacktest).
THEOREM BacktestsAreExact == BtSpec => []BacktestIsExact
  <1>1. BacktestInv => BacktestIsExact
    BY ResultOfTheTrades, CurveOfTheTotal DEF BacktestInv, BacktestIsExact
  <1>2. QED
    BY <1>1, BacktestStarts, BacktestStep, PTL DEF BtSpec

-----------------------------------------------------------------------------
(* The score of a candidate *)

\* The breakpoints of a curve stand in order, and its shares within the whole
\* weight; a rising curve gives more for more.
IsCurve(c) ==
    /\ c \in Seq(Int \X Int) /\ Len(c) > 1
    /\ \A i, j \in 1 .. Len(c) : i <= j => c[i][1] <= c[j][1]
    /\ \A i \in 1 .. Len(c) : c[i][2] \in 0 .. Unit

IsRising(c) == \A i, j \in 1 .. Len(c) : i <= j => c[i][2] <= c[j][2]

\* Between two breakpoints the share is between theirs, whatever the rounding
\* of the interpolation.
LEMMA BetweenShares ==
    ASSUME NEW a \in Int, NEW b \in Int, NEW x \in Nat, NEW w \in Nat \ {0}, x <= w
    PROVE  LET share == a + RoundDiv((b - a) * x, w)
           IN  /\ share \in Int
               /\ a <= b => a <= share /\ share <= b
               /\ b <= a => b <= share /\ share <= a
  <1>1. CASE a <= b
    <2> DEFINE d == b - a
    <2>1. d \in Nat /\ b = a + d
      BY <1>1
    <2> HIDE DEF d
    <2>2. d * x \in Nat /\ d * x <= d * w
      BY <2>1
    <2>3. RoundDiv(d * x, w) <= d /\ RoundDiv(d * x, w) \in Nat
      BY <2>1, <2>2, RoundDivBounds, RoundedQuotient
    <2>4. a = b => d = 0
      BY <2>1
    <2>5. QED
      BY <2>1, <2>3, <2>4 DEF d
  <1>2. CASE b < a
    <2> DEFINE d == a - b
    <2>1. d \in Nat /\ a = b + d /\ (b - a) * x = -(d * x)
      BY <1>2
    <2>2. d * x \in Nat /\ d * x <= d * w
      <3> HIDE DEF d
      <3>1. QED
        BY <2>1
    <2> DEFINE y == d * x
               r == RoundDiv(y, w)
    <2>3. r <= d /\ r \in Nat
      <3> HIDE DEF d
      <3>1. QED
        BY <2>1, <2>2, RoundDivBounds, RoundedQuotient
    <2>4. RoundDiv(-y, w) = -r
      <3>1. y \in Nat
        BY <2>2
      <3> HIDE DEF y
      <3>2. QED
        BY <3>1, RoundedQuotient
    <2>5. RoundDiv((b - a) * x, w) = -r
      <3>1. (b - a) * x = -y
        BY <2>1
      <3> HIDE DEF r, y, d
      <3>2. QED
        BY <2>4, <3>1
    <2> HIDE DEF r, y, d
    <2> DEFINE part == RoundDiv((b - a) * x, w)
    <2>6. part = -r
      BY <2>5
    <2> HIDE DEF part
    <2>7. part \in Int /\ a + part \in Int /\ b <= a + part /\ a + part <= a
      BY <2>1, <2>3, <2>6
    <2>8. QED
      BY <1>2, <2>7 DEF part
  <1>3. QED
    BY <1>1, <1>2

\* The segment normalizeByBreakpoints interpolates on.
SegmentOf(v, c) == Max({j \in 1 .. Len(c) - 1 : c[j][1] <= v})

LEMMA SegmentIsFound ==
    ASSUME NEW c, IsCurve(c), NEW v \in Int, c[1][1] < v, v < c[Len(c)][1]
    PROVE  LET i == SegmentOf(v, c)
           IN  /\ i \in 1 .. Len(c) - 1 /\ i + 1 \in 1 .. Len(c) /\ i \in 1 .. Len(c)
               /\ c[i][1] <= v /\ v < c[i + 1][1]
               /\ \A j \in 1 .. Len(c) - 1 : c[j][1] <= v => j <= i
  <1> DEFINE n == Len(c)
             S == {j \in 1 .. n - 1 : c[j][1] <= v}
             i == Max(S)
  <1>1. n \in Nat /\ n > 1 /\ \A j \in 1 .. n : c[j][1] \in Int
    BY DEF IsCurve
  <1>2. S \in SUBSET (1 .. n) /\ 1 \in S
    BY <1>1
  <1> HIDE DEF S
  <1>3. i \in S /\ \A j \in S : j <= i
    <2> HIDE DEF n
    <2>1. QED
      BY <1>1, <1>2, LargestMember
  <1>4. i \in 1 .. n - 1 /\ c[i][1] <= v
    BY <1>3 DEF S
  <1> HIDE DEF n, i
  <1>5. i + 1 \in 1 .. n /\ i \in 1 .. n /\ i \in Nat
    BY <1>1, <1>4
  <1>6. v < c[i + 1][1]
    <2>1. CASE i + 1 = n
      BY <2>1 DEF n
    <2>2. CASE i + 1 # n
      <3>1. i + 1 \in 1 .. n - 1
        BY <1>1, <1>5, <2>2
      <3>2. i + 1 \notin S
        BY <1>3, <1>5
      <3>3. ~ c[i + 1][1] <= v
        BY <3>1, <3>2 DEF S
      <3>4. QED
        BY <1>1, <1>5, <3>3
    <2>3. QED
      BY <2>1, <2>2
  <1>7. \A j \in 1 .. n - 1 : c[j][1] <= v => j <= i
    BY <1>3 DEF S
  <1>8. i = SegmentOf(v, c)
    BY DEF i, S, n, SegmentOf
  <1>9. QED
    BY <1>4, <1>5, <1>6, <1>7, <1>8 DEF n

\* The three cases of normalizeByBreakpoints.
LEMMA NormalizedCases ==
    ASSUME NEW c, IsCurve(c), NEW v \in Int
    PROVE  /\ v <= c[1][1] => Normalized(v, c) = c[1][2]
           /\ v > c[1][1] /\ v >= c[Len(c)][1] => Normalized(v, c) = c[Len(c)][2]
           /\ c[1][1] < v /\ v < c[Len(c)][1] =>
                LET i == SegmentOf(v, c)
                IN  Normalized(v, c) = c[i][2] + RoundDiv((c[i + 1][2] - c[i][2]) * (v - c[i][1]),
                                                         c[i + 1][1] - c[i][1])
  <1>1. /\ c \in Seq(Int \X Int) /\ Len(c) \in Nat /\ Len(c) > 1 /\ c # <<>>
        /\ Last(c) = c[Len(c)] /\ c[1][1] \in Int /\ c[Len(c)][1] \in Int
    BY DEF IsCurve, Last
  <1>2. v <= c[1][1] => Normalized(v, c) = c[1][2]
    BY DEF Normalized
  <1>3. v > c[1][1] /\ v >= c[Len(c)][1] => Normalized(v, c) = c[Len(c)][2]
    BY <1>1 DEF Normalized
  <1>4. ASSUME c[1][1] < v, v < c[Len(c)][1]
        PROVE  LET i == SegmentOf(v, c)
               IN  Normalized(v, c) = c[i][2] + RoundDiv((c[i + 1][2] - c[i][2]) * (v - c[i][1]),
                                                        c[i + 1][1] - c[i][1])
    <2>1. ~ v <= c[1][1] /\ ~ v >= Last(c)[1]
      BY <1>1, <1>4
    <2>2. QED
      BY <2>1 DEF Normalized, SegmentOf
  <1>5. QED
    BY <1>2, <1>3, <1>4

\* A share is within the weight and, inside a curve, between its neighbours'.
LEMMA NormalizedInScale ==
    ASSUME NEW c, IsCurve(c), NEW v \in Int
    PROVE  /\ Normalized(v, c) \in 0 .. Unit
           /\ c[1][1] < v /\ v < c[Len(c)][1] /\ IsRising(c) =>
                LET i == SegmentOf(v, c)
                IN  c[i][2] <= Normalized(v, c) /\ Normalized(v, c) <= c[i + 1][2]
  <1>1. /\ Len(c) \in Nat /\ Len(c) > 1 /\ 1 \in 1 .. Len(c) /\ Len(c) \in 1 .. Len(c)
        /\ \A j \in 1 .. Len(c) : c[j][1] \in Int /\ c[j][2] \in Int
        /\ \A j \in 1 .. Len(c) : 0 <= c[j][2] /\ c[j][2] <= Unit
        /\ Unit \in Int
    BY UnitPositive DEF IsCurve
  <1>2. CASE v <= c[1][1]
    <2>1. Normalized(v, c) = c[1][2]
      BY <1>2, NormalizedCases
    <2>2. QED
      BY <1>1, <1>2, <2>1
  <1>3. CASE v > c[1][1] /\ v >= c[Len(c)][1]
    <2>1. Normalized(v, c) = c[Len(c)][2]
      BY <1>3, NormalizedCases
    <2>2. QED
      BY <1>1, <1>3, <2>1
  <1>4. CASE c[1][1] < v /\ v < c[Len(c)][1]
    <2> DEFINE i == SegmentOf(v, c)
               a == c[i][2]
               b == c[i + 1][2]
               x == v - c[i][1]
               w == c[i + 1][1] - c[i][1]
               share == a + RoundDiv((b - a) * x, w)
    <2>1. /\ i \in 1 .. Len(c) /\ i + 1 \in 1 .. Len(c)
          /\ c[i][1] <= v /\ v < c[i + 1][1]
      BY <1>4, SegmentIsFound
    <2>2. Normalized(v, c) = share
      BY <1>4, NormalizedCases
    <2> HIDE DEF i
    <2>3. /\ a \in Int /\ b \in Int /\ c[i][1] \in Int /\ c[i + 1][1] \in Int
          /\ 0 <= a /\ a <= Unit /\ 0 <= b /\ b <= Unit
      BY <1>1, <2>1
    <2>4. IsRising(c) => a <= b
      <3>1. i <= i + 1
        BY <1>1, <2>1
      <3>2. QED
        BY <2>1, <3>1 DEF IsRising
    <2>5. x \in Nat /\ w \in Nat \ {0} /\ x <= w
      <3> DEFINE p == c[i][1]
                 q == c[i + 1][1]
      <3>1. p \in Int /\ q \in Int /\ p <= v /\ v < q
        BY <2>1, <2>3
      <3> HIDE DEF p, q
      <3>2. v - p \in Nat /\ q - p \in Nat \ {0} /\ v - p <= q - p
        BY <3>1
      <3>3. QED
        BY <3>2 DEF p, q
    <2> HIDE DEF a, b, x, w
    <2>6. share \in Int /\ (a <= b => a <= share /\ share <= b) /\ (b <= a => b <= share /\ share <= a)
      BY <2>3, <2>5, BetweenShares
    <2> HIDE DEF share
    <2>7. share \in 0 .. Unit /\ (IsRising(c) => a <= share /\ share <= b)
      BY <1>1, <2>3, <2>4, <2>6
    <2>8. QED
      BY <2>2, <2>7 DEF i, a, b
  <1>5. QED
    BY <1>1, <1>2, <1>3, <1>4

\* On a rising curve a greater value never has a smaller share.
LEMMA NormalizedRises ==
    ASSUME NEW c, IsCurve(c), IsRising(c), NEW v \in Int, NEW u \in Int, v <= u
    PROVE  Normalized(v, c) <= Normalized(u, c)
  <1> DEFINE n == Len(c)
             N(z) == Normalized(z, c)
             S(z) == SegmentOf(z, c)
             Inside(z) == c[1][1] < z /\ z < c[n][1]
  <1>1. /\ n \in Nat /\ n > 1 /\ 1 \in 1 .. n /\ n \in 1 .. n
        /\ \A j \in 1 .. n : c[j][1] \in Int /\ c[j][2] \in Int
        /\ \A i, j \in 1 .. n : i <= j => c[i][2] <= c[j][2]
    BY DEF IsCurve, IsRising
  <1>2. \A z \in Int : Inside(z) =>
            /\ S(z) \in 1 .. n /\ S(z) + 1 \in 1 .. n /\ S(z) \in 1 .. n - 1
            /\ c[S(z)][2] <= N(z) /\ N(z) <= c[S(z) + 1][2]
            /\ c[S(z)][1] <= z /\ z < c[S(z) + 1][1]
            /\ \A j \in 1 .. n - 1 : c[j][1] <= z => j <= S(z)
    BY SegmentIsFound, NormalizedInScale
  <1>3. N(v) \in Int /\ N(u) \in Int
    <2>1. N(v) \in 0 .. Unit /\ N(u) \in 0 .. Unit
      BY NormalizedInScale
    <2>2. QED
      BY <2>1, UnitPositive
  <1>4. \A z \in Int : /\ z <= c[1][1] => N(z) = c[1][2]
                       /\ z > c[1][1] /\ z >= c[n][1] => N(z) = c[n][2]
    BY NormalizedCases
  <1>5. CASE ~ Inside(v) \/ ~ Inside(u)
    <2>1. c[1][2] <= c[n][2] /\ \A z \in Int : Inside(z) => c[1][2] <= N(z) /\ N(z) <= c[n][2]
      <3>1. c[1][2] <= c[n][2]
        BY <1>1
      <3>2. ASSUME NEW z \in Int, Inside(z)
            PROVE  c[1][2] <= N(z) /\ N(z) <= c[n][2]
        <4> DEFINE i == S(z)
        <4>1. /\ i \in 1 .. n /\ i + 1 \in 1 .. n
              /\ c[i][2] <= N(z) /\ N(z) <= c[i + 1][2]
          BY <1>2, <3>2
        <4> HIDE DEF i, S, Inside
        <4>2. c[1][2] <= c[i][2] /\ c[i + 1][2] <= c[n][2]
          BY <1>1, <4>1
        <4>3. N(z) \in Int
          <5>1. N(z) \in 0 .. Unit
            BY NormalizedInScale
          <5>2. QED
            BY <5>1, UnitPositive
        <4> HIDE DEF N
        <4>4. c[1][2] \in Int /\ c[i][2] \in Int /\ c[i + 1][2] \in Int /\ c[n][2] \in Int
          BY <1>1, <4>1
        <4>5. QED
          BY <4>1, <4>2, <4>3, <4>4
      <3>3. QED
        BY <3>1, <3>2
    <2> HIDE DEF N, S
    <2>2. c[1][1] \in Int /\ c[n][1] \in Int /\ c[1][2] \in Int /\ c[n][2] \in Int
      BY <1>1
    <2> DEFINE lo == c[1][1]
               hi == c[n][1]
               low == c[1][2]
               high == c[n][2]
    <2>3. /\ lo \in Int /\ hi \in Int /\ low \in Int /\ high \in Int /\ low <= high
          /\ \A z \in Int : /\ z <= lo => N(z) = low
                            /\ z > lo /\ z >= hi => N(z) = high
                            /\ lo < z /\ z < hi => low <= N(z) /\ N(z) <= high
      BY <1>4, <2>1, <2>2
    <2>4. ~(lo < v /\ v < hi) \/ ~(lo < u /\ u < hi)
      BY <1>5
    <2> HIDE DEF lo, hi, low, high, Inside
    <2>5. N(v) = low \/ N(u) = high \/ N(v) = N(u)
      BY <2>3, <2>4
    <2>6. low <= N(u) /\ N(u) <= high /\ low <= N(v) /\ N(v) <= high
      BY <2>3
    <2>7. QED
      BY <1>3, <2>3, <2>5, <2>6 DEF N
  <1>6. CASE Inside(v) /\ Inside(u)
    <2> DEFINE i == S(v)
               k == S(u)
    <2>1. /\ i \in 1 .. n /\ i + 1 \in 1 .. n /\ i \in 1 .. n - 1 /\ N(v) <= c[i + 1][2]
          /\ c[i][1] <= v /\ v < c[i + 1][1]
      BY <1>2, <1>6
    <2>2. /\ k \in 1 .. n /\ k + 1 \in 1 .. n /\ c[k][2] <= N(u)
          /\ c[k][1] <= u /\ \A j \in 1 .. n - 1 : c[j][1] <= u => j <= k
      BY <1>2, <1>6
    <2>3. i <= k
      <3> HIDE DEF n, N, S, i, k, Inside
      <3>1. c[i][1] \in Int /\ c[i][1] <= u
        BY <1>1, <2>1
      <3>2. QED
        BY <2>1, <2>2, <3>1
    <2>4. CASE i < k
      <3> HIDE DEF n, N, S, i, k, Inside
      <3>1. i + 1 <= k
        <4>1. i \in Int /\ k \in Int
          BY <1>1, <2>1, <2>2
        <4>2. QED
          BY <2>4, <4>1
      <3>2. c[i + 1][2] <= c[k][2] /\ c[i + 1][2] \in Int /\ c[k][2] \in Int
        BY <1>1, <2>1, <2>2, <3>1
      <3>3. QED
        BY <1>3, <2>1, <2>2, <3>2 DEF N
    <2>5. CASE i = k
      <3> DEFINE a == c[i][2]
                 d == c[i + 1][2] - c[i][2]
                 x == v - c[i][1]
                 y == u - c[i][1]
                 w == c[i + 1][1] - c[i][1]
      <3>1. N(v) = a + RoundDiv(d * x, w)
        BY <1>6, NormalizedCases
      <3>2. N(u) = a + RoundDiv(d * y, w)
        <4>1. N(u) = c[k][2] + RoundDiv((c[k + 1][2] - c[k][2]) * (u - c[k][1]),
                                        c[k + 1][1] - c[k][1])
          BY <1>6, NormalizedCases
        <4> HIDE DEF N, S, i, k
        <4>2. QED
          BY <2>5, <4>1
      <3>3. d \in Nat /\ x \in Nat /\ y \in Nat /\ x <= y /\ w \in Nat \ {0} /\ a \in Int
        <4> HIDE DEF N, S, i, k, Inside, n
        <4>1. /\ c[i][1] \in Int /\ c[i + 1][1] \in Int
              /\ c[i][2] \in Int /\ c[i + 1][2] \in Int /\ i <= i + 1
          BY <1>1, <2>1
        <4>2. c[i][2] <= c[i + 1][2]
          BY <1>1, <2>1, <4>1
        <4>3. c[i][1] <= v /\ v <= u /\ v < c[i + 1][1]
          BY <2>1
        <4>4. d \in Nat /\ a \in Int
          BY <4>1, <4>2
        <4>5. x \in Nat /\ y \in Nat /\ x <= y /\ w \in Nat \ {0}
          BY <4>1, <4>3
        <4>6. QED
          BY <4>4, <4>5
      <3> HIDE DEF N, a, d, x, y, w
      <3>4. d * x \in Nat /\ d * y \in Nat /\ d * x <= d * y
        BY <3>3
      <3>5. RoundDiv(d * x, w) <= RoundDiv(d * y, w)
        BY <3>3, <3>4, RoundDivGrows
      <3>6. RoundDiv(d * x, w) \in Nat /\ RoundDiv(d * y, w) \in Nat
        BY <3>3, <3>4, RoundedQuotient
      <3>7. QED
        BY <3>1, <3>2, <3>3, <3>5, <3>6 DEF N
    <2>6. QED
      BY <1>1, <2>1, <2>2, <2>3, <2>4, <2>5
  <1>7. QED
    BY <1>5, <1>6

LEMMA CurvePoints ==
    ASSUME NEW points \in Seq(Nat \X (0 .. 100)), Len(points) > 1,
           \A i, j \in 1 .. Len(points) : i <= j => points[i][1] <= points[j][1]
    PROVE  /\ IsCurve(Curve(points)) /\ Len(Curve(points)) = Len(points)
           /\ \A i \in 1 .. Len(points) : Curve(points)[i][1] \in Nat
           /\ (\A i, j \in 1 .. Len(points) : i <= j => points[i][2] <= points[j][2])
                => IsRising(Curve(points))
  <1> DEFINE n == Len(points)
             c == Curve(points)
  <1>1. /\ n \in Nat /\ DOMAIN points = 1 .. n /\ Unit \in Nat
        /\ \A i \in 1 .. n : /\ points[i][1] \in Nat /\ points[i][2] \in Nat
                             /\ points[i][2] <= 100
    <2>1. n \in Nat /\ DOMAIN points = 1 .. n /\ Unit \in Nat
      BY UnitPositive
    <2>2. \A i \in 1 .. n : points[i] \in Nat \X (0 .. 100)
      OBVIOUS
    <2>3. \A p \in Nat \X (0 .. 100) : p[1] \in Nat /\ p[2] \in Nat /\ p[2] <= 100
      <3>1. TAKE p \in Nat \X (0 .. 100)
      <3>2. PICK x \in Nat, y \in 0 .. 100 : p = <<x, y>>
        BY <3>1
      <3>3. QED
        BY <3>2
    <2>4. QED
      BY <2>1, <2>2, <2>3
  <1>2. \A i \in 1 .. n : /\ c[i] = <<RoundDiv(points[i][1] * Unit, 1000),
                                      RoundDiv(points[i][2] * Unit, 100)>>
                          /\ c[i] \in Int \X Int
                          /\ c[i][1] \in Nat /\ c[i][2] \in 0 .. Unit
    <2>1. SUFFICES ASSUME NEW i \in 1 .. n
                   PROVE  /\ c[i] = <<RoundDiv(points[i][1] * Unit, 1000),
                                      RoundDiv(points[i][2] * Unit, 100)>>
                          /\ c[i] \in Int \X Int
                          /\ c[i][1] \in Nat /\ c[i][2] \in 0 .. Unit
      OBVIOUS
    <2> DEFINE p == points[i][1]
               q == points[i][2]
    <2>2. c[i] = <<RoundDiv(p * Unit, 1000), RoundDiv(q * Unit, 100)>>
      BY <1>1 DEF Curve
    <2>3. p \in Nat /\ q \in Nat /\ q <= 100
      BY <1>1
    <2> HIDE DEF p, q, c, n
    <2>4. p * Unit \in Nat /\ q * Unit \in Nat /\ q * Unit <= 100 * Unit
      BY <1>1, <2>3
    <2> DEFINE y == q * Unit
               x == p * Unit
    <2>5. x \in Nat /\ y \in Nat /\ y <= Unit * 100
      BY <1>1, <2>4
    <2> HIDE DEF x, y
    <2>6. RoundDiv(x, 1000) \in Nat /\ RoundDiv(y, 100) \in Nat
      <3>1. \A b \in Nat \ {0} : RoundDiv(x, b) \in Nat /\ RoundDiv(y, b) \in Nat
        BY <2>5, RoundedQuotient
      <3>2. 1000 \in Nat \ {0} /\ 100 \in Nat \ {0}
        OBVIOUS
      <3>3. QED
        BY <3>1, <3>2
    <2>7. RoundDiv(y, 100) <= Unit
      BY <1>1, <2>5, RoundDivBounds
    <2>8. c[i] = <<RoundDiv(x, 1000), RoundDiv(y, 100)>>
      BY <2>2 DEF x, y
    <2>9. c[i] \in Int \X Int /\ c[i][1] \in Nat /\ c[i][2] \in 0 .. Unit
      <3>1. RoundDiv(x, 1000) \in Int /\ RoundDiv(y, 100) \in 0 .. Unit
        BY <1>1, <2>6, <2>7
      <3>2. c[i][1] = RoundDiv(x, 1000) /\ c[i][2] = RoundDiv(y, 100)
        BY <2>8
      <3>3. c[i] \in Int \X Int
        BY <2>6, <2>8
      <3>4. QED
        BY <2>6, <3>1, <3>2, <3>3
    <2>10. QED
      BY <2>8, <2>9 DEF x, y, p, q
  <1>3. DOMAIN c = 1 .. n /\ c \in Seq(Int \X Int) /\ Len(c) = n
    <2>1. c = [i \in 1 .. n |-> c[i]]
      BY <1>1 DEF Curve
    <2>2. \A i \in 1 .. n : c[i] \in Int \X Int
      BY <1>2
    <2> HIDE DEF c, n
    <2>3. n \in Nat
      BY <1>1
    <2>4. c \in [1 .. n -> Int \X Int]
      BY <2>1, <2>2
    <2>5. QED
      BY <2>3, <2>4, SeqDef
  <1>4. \A i, j \in 1 .. n : /\ points[i][1] <= points[j][1] => c[i][1] <= c[j][1]
                             /\ points[i][2] <= points[j][2] => c[i][2] <= c[j][2]
    <2>1. SUFFICES ASSUME NEW i \in 1 .. n, NEW j \in 1 .. n
                   PROVE  /\ points[i][1] <= points[j][1] => c[i][1] <= c[j][1]
                          /\ points[i][2] <= points[j][2] => c[i][2] <= c[j][2]
      OBVIOUS
    <2> DEFINE G(a, b) == a \in Nat /\ b \in Nat /\ a <= b
    <2>2. ASSUME NEW a \in Nat, NEW b \in Nat, a <= b
          PROVE  /\ RoundDiv(a * Unit, 1000) <= RoundDiv(b * Unit, 1000)
                 /\ RoundDiv(a * Unit, 100) <= RoundDiv(b * Unit, 100)
      <3> DEFINE x == a * Unit
                 y == b * Unit
      <3>1. x \in Nat /\ y \in Nat /\ x <= y
        BY <1>1, <2>2
      <3> HIDE DEF x, y
      <3>2. RoundDiv(x, 1000) <= RoundDiv(y, 1000) /\ RoundDiv(x, 100) <= RoundDiv(y, 100)
        BY <3>1, RoundDivGrows
      <3>3. QED
        BY <3>2 DEF x, y
    <2> DEFINE p == points[i][1]
               q == points[j][1]
               s == points[i][2]
               t == points[j][2]
    <2>3. p \in Nat /\ q \in Nat /\ s \in Nat /\ t \in Nat
      BY <1>1
    <2>4. /\ c[i][1] = RoundDiv(p * Unit, 1000) /\ c[j][1] = RoundDiv(q * Unit, 1000)
          /\ c[i][2] = RoundDiv(s * Unit, 100) /\ c[j][2] = RoundDiv(t * Unit, 100)
      BY <1>2
    <2> HIDE DEF p, q, s, t, c
    <2>5. ASSUME p <= q PROVE c[i][1] <= c[j][1]
      BY <2>2, <2>3, <2>4, <2>5
    <2>6. ASSUME s <= t PROVE c[i][2] <= c[j][2]
      BY <2>2, <2>3, <2>4, <2>6
    <2>7. QED
      BY <2>5, <2>6 DEF p, q, s, t
  <1> HIDE DEF c
  <1>5. IsCurve(c)
    <2>1. \A i, j \in 1 .. n : i <= j => c[i][1] <= c[j][1]
      BY <1>4
    <2> HIDE DEF n
    <2>2. \A i \in 1 .. n : c[i][2] \in 0 .. Unit
      BY <1>2
    <2>3. Len(c) > 1
      BY <1>3 DEF n
    <2>4. QED
      BY <1>3, <2>1, <2>2, <2>3 DEF IsCurve
  <1>6. (\A i, j \in 1 .. n : i <= j => points[i][2] <= points[j][2]) => IsRising(c)
    BY <1>3, <1>4 DEF IsRising
  <1>7. QED
    BY <1>2, <1>3, <1>5, <1>6 DEF c

LEMMA FourPoints ==
    ASSUME NEW a, NEW b, NEW c, NEW d, {a, b, c, d} \subseteq Nat \X (0 .. 100),
           a[1] <= b[1], b[1] <= c[1], c[1] <= d[1]
    PROVE  LET e == Curve(<<a, b, c, d>>)
           IN  /\ IsCurve(e) /\ Len(e) = 4 /\ \A i \in 1 .. 4 : e[i][1] \in Nat
               /\ a[2] <= b[2] /\ b[2] <= c[2] /\ c[2] <= d[2] => IsRising(e)
  <1> DEFINE points == <<a, b, c, d>>
  <1>1. /\ Len(points) = 4 /\ points \in Seq(Nat \X (0 .. 100))
        /\ points[1] = a /\ points[2] = b /\ points[3] = c /\ points[4] = d
    OBVIOUS
  <1> HIDE DEF points
  <1>2. /\ a[1] \in Nat /\ b[1] \in Nat /\ c[1] \in Nat /\ d[1] \in Nat
        /\ a[2] \in Nat /\ b[2] \in Nat /\ c[2] \in Nat /\ d[2] \in Nat
    OBVIOUS
  <1>3. \A i, j \in 1 .. 4 : i <= j => points[i][1] <= points[j][1]
    BY <1>1, <1>2
  <1>4. a[2] <= b[2] /\ b[2] <= c[2] /\ c[2] <= d[2] =>
            \A i, j \in 1 .. 4 : i <= j => points[i][2] <= points[j][2]
    BY <1>1, <1>2
  <1> DEFINE e == Curve(points)
  <1>5. /\ IsCurve(e) /\ Len(e) = 4 /\ \A i \in 1 .. 4 : e[i][1] \in Nat
        /\ (\A i, j \in 1 .. 4 : i <= j => points[i][2] <= points[j][2]) => IsRising(e)
    <2>1. Len(points) > 1 /\ 1 .. Len(points) = 1 .. 4
      BY <1>1
    <2>2. \A i, j \in 1 .. Len(points) : i <= j => points[i][1] <= points[j][1]
      BY <1>3, <2>1
    <2>3. /\ IsCurve(e) /\ Len(e) = Len(points) /\ \A i \in 1 .. Len(points) : e[i][1] \in Nat
          /\ (\A i, j \in 1 .. Len(points) : i <= j => points[i][2] <= points[j][2]) => IsRising(e)
      BY <1>1, <2>1, <2>2, CurvePoints
    <2> HIDE DEF e
    <2>4. QED
      BY <1>1, <2>1, <2>3
  <1> HIDE DEF e
  <1>6. a[2] <= b[2] /\ b[2] <= c[2] /\ c[2] <= d[2] => IsRising(e)
    BY <1>4, <1>5
  <1>7. QED
    BY <1>5, <1>6 DEF e, points

\* The curves of the score; a curve that is to reward strength rises.
LEMMA ScoreCurves ==
    /\ IsCurve(SignalCurve) /\ IsRising(SignalCurve)
    /\ IsCurve(VolumeCurve) /\ IsRising(VolumeCurve)
    /\ IsCurve(ADXCurve) /\ IsRising(ADXCurve)
    /\ IsCurve(ATRRatioCurve) /\ IsCurve(RSICurve)
    /\ IsCurve(LiquidityCurve) /\ IsRising(LiquidityCurve)
  <1>1. IsCurve(SignalCurve) /\ IsRising(SignalCurve)
    <2> DEFINE a == <<1000, 30>>
               b == <<2000, 65>>
               c == <<3000, 100>>
               d == <<4000, 100>>
    <2>1. /\ {a, b, c, d} \subseteq Nat \X (0 .. 100)
          /\ a[1] <= b[1] /\ b[1] <= c[1] /\ c[1] <= d[1]
          /\ a[2] <= b[2] /\ b[2] <= c[2] /\ c[2] <= d[2]
      OBVIOUS
    <2>2. SignalCurve = Curve(<<a, b, c, d>>)
      BY DEF SignalCurve
    <2> HIDE DEF a, b, c, d
    <2>3. QED
      BY <2>1, <2>2, FourPoints
  <1>2. IsCurve(VolumeCurve) /\ IsRising(VolumeCurve)
    <2> DEFINE a == <<1000, 0>>
               b == <<1500, 40>>
               c == <<2000, 70>>
               d == <<3000, 100>>
    <2>1. /\ {a, b, c, d} \subseteq Nat \X (0 .. 100)
          /\ a[1] <= b[1] /\ b[1] <= c[1] /\ c[1] <= d[1]
          /\ a[2] <= b[2] /\ b[2] <= c[2] /\ c[2] <= d[2]
      OBVIOUS
    <2>2. VolumeCurve = Curve(<<a, b, c, d>>)
      BY DEF VolumeCurve
    <2> HIDE DEF a, b, c, d
    <2>3. QED
      BY <2>1, <2>2, FourPoints
  <1>3. IsCurve(ADXCurve) /\ IsRising(ADXCurve)
    <2> DEFINE a == <<15000, 0>>
               b == <<20000, 35>>
               c == <<30000, 80>>
               d == <<40000, 100>>
    <2>1. /\ {a, b, c, d} \subseteq Nat \X (0 .. 100)
          /\ a[1] <= b[1] /\ b[1] <= c[1] /\ c[1] <= d[1]
          /\ a[2] <= b[2] /\ b[2] <= c[2] /\ c[2] <= d[2]
      OBVIOUS
    <2>2. ADXCurve = Curve(<<a, b, c, d>>)
      BY DEF ADXCurve
    <2> HIDE DEF a, b, c, d
    <2>3. QED
      BY <2>1, <2>2, FourPoints
  <1>4. IsCurve(ATRRatioCurve)
    <2> DEFINE a == <<10, 0>>
               b == <<20, 100>>
               c == <<50, 100>>
               d == <<100, 0>>
    <2>1. /\ {a, b, c, d} \subseteq Nat \X (0 .. 100)
          /\ a[1] <= b[1] /\ b[1] <= c[1] /\ c[1] <= d[1]
      OBVIOUS
    <2>2. ATRRatioCurve = Curve(<<a, b, c, d>>)
      BY DEF ATRRatioCurve
    <2> HIDE DEF a, b, c, d
    <2>3. QED
      BY <2>1, <2>2, FourPoints
  <1>5. IsCurve(RSICurve)
    <2> DEFINE points == <<<<30000, 40>>, <<45000, 90>>, <<60000, 100>>, <<70000, 50>>,
                           <<80000, 10>>, <<90000, 0>>>>
    <2>1. Len(points) = 6 /\ Len(points) > 1 /\ points \in Seq(Nat \X (0 .. 100))
      OBVIOUS
    <2>2. /\ points[1] = <<30000, 40>> /\ points[2] = <<45000, 90>>
          /\ points[3] = <<60000, 100>> /\ points[4] = <<70000, 50>>
          /\ points[5] = <<80000, 10>> /\ points[6] = <<90000, 0>>
      OBVIOUS
    <2>3. RSICurve = Curve(points)
      BY DEF RSICurve
    <2> HIDE DEF points
    <2>4. \A i, j \in 1 .. 6 : i <= j => points[i][1] <= points[j][1]
      <3>1. \A i \in 1 .. 6 : i = 1 \/ i = 2 \/ i = 3 \/ i = 4 \/ i = 5 \/ i = 6
        OBVIOUS
      <3>2. QED
        BY <2>2, <3>1
    <2>5. QED
      BY <2>1, <2>3, <2>4, CurvePoints
  <1>6. IsCurve(LiquidityCurve) /\ IsRising(LiquidityCurve)
    <2> DEFINE a == <<1000, 0>>
               b == <<3000, 40>>
               c == <<10000, 75>>
               d == <<50000, 100>>
               e == Curve(<<a, b, c, d>>)
               f == LiquidityCurve
    <2>1. /\ {a, b, c, d} \subseteq Nat \X (0 .. 100)
          /\ a[1] <= b[1] /\ b[1] <= c[1] /\ c[1] <= d[1]
          /\ a[2] <= b[2] /\ b[2] <= c[2] /\ c[2] <= d[2]
      OBVIOUS
    <2>2. f = [i \in DOMAIN e |-> <<FMul(e[i][1], LiquidityStep), e[i][2]>>]
      BY DEF LiquidityCurve
    <2> HIDE DEF a, b, c, d, f
    <2>3. IsCurve(e) /\ Len(e) = 4 /\ (\A i \in 1 .. 4 : e[i][1] \in Nat) /\ IsRising(e)
      BY <2>1, FourPoints
    <2> HIDE DEF e
    <2>4. /\ DOMAIN e = 1 .. 4 /\ \A i \in 1 .. 4 : e[i][2] \in 0 .. Unit
          /\ \A i, j \in 1 .. 4 : i <= j => e[i][1] <= e[j][1] /\ e[i][2] <= e[j][2]
      BY <2>3 DEF IsCurve, IsRising
    <2>5. \A x \in Nat : FMul(x, LiquidityStep) \in Nat
      <3>1. TAKE x \in Nat
      <3>2. x * LiquidityStep \in Nat
        BY ScoreAssumption
      <3>3. QED
        BY <3>2, UnitPositive, RoundedQuotient DEF FMul
    <2>6. \A x, y \in Nat : x <= y => FMul(x, LiquidityStep) <= FMul(y, LiquidityStep)
      <3>1. TAKE x, y \in Nat
      <3>2. HAVE x <= y
      <3>3. /\ x * LiquidityStep \in Nat /\ y * LiquidityStep \in Nat
            /\ x * LiquidityStep <= y * LiquidityStep
        BY <3>2, ScoreAssumption
      <3>4. QED
        BY <3>3, UnitPositive, RoundDivGrows DEF FMul
    <2>7. \A i \in 1 .. 4 : /\ f[i] = <<FMul(e[i][1], LiquidityStep), e[i][2]>>
                            /\ f[i][1] \in Nat /\ f[i][2] \in 0 .. Unit /\ f[i] \in Int \X Int
      <3>1. TAKE i \in 1 .. 4
      <3>2. f[i] = <<FMul(e[i][1], LiquidityStep), e[i][2]>>
        BY <2>2, <2>4
      <3>3. FMul(e[i][1], LiquidityStep) \in Nat /\ e[i][2] \in 0 .. Unit /\ e[i][2] \in Int
        BY <2>3, <2>4, <2>5
      <3>4. QED
        BY <3>2, <3>3
    <2>8. f \in Seq(Int \X Int) /\ Len(f) = 4
      <3>1. f = [i \in 1 .. 4 |-> f[i]]
        BY <2>2, <2>4
      <3>2. \A i \in 1 .. 4 : f[i] \in Int \X Int
        BY <2>7
      <3>3. f \in [1 .. 4 -> Int \X Int]
        BY <3>1, <3>2
      <3> HIDE DEF e
      <3>4. \A n \in Nat : f \in [1 .. n -> Int \X Int] => f \in Seq(Int \X Int) /\ Len(f) = n
        BY SeqDef
      <3>5. QED
        BY <3>3, <3>4
    <2>9. \A i, j \in 1 .. 4 : i <= j => f[i][1] <= f[j][1] /\ f[i][2] <= f[j][2]
      BY <2>3, <2>4, <2>6, <2>7
    <2>10. QED
      BY <2>7, <2>8, <2>9 DEF IsCurve, IsRising, f
  <1>7. QED
    BY <1>1, <1>2, <1>3, <1>4, <1>5, <1>6

\* A score is within 0..100, and grows with each figure that should be great.
LEMMA ScoresInScale ==
    ASSUME NEW m \in Metrics
    PROVE  Score(m) \in 0 .. Hundred
  <1> DEFINE a == Normalized(m.signals * Unit, SignalCurve)
             b == Normalized(m.volume, VolumeCurve)
             c == Normalized(m.adx, ADXCurve)
             d == Normalized(m.atr, ATRRatioCurve)
             e == Normalized(m.value, LiquidityCurve)
             f == Normalized(m.rsi, RSICurve)
  <1>1. /\ m.signals \in Int /\ m.volume \in Int /\ m.adx \in Int
        /\ m.atr \in Int /\ m.value \in Int /\ m.rsi \in Int
    BY DEF Metrics
  <1>2. m.signals * Unit \in Int /\ Unit \in Nat
    BY <1>1, UnitPositive
  <1>3. a \in 0 .. Unit /\ b \in 0 .. Unit /\ c \in 0 .. Unit
    BY <1>1, <1>2, ScoreCurves, NormalizedInScale
  <1>4. d \in 0 .. Unit /\ e \in 0 .. Unit /\ f \in 0 .. Unit
    BY <1>1, <1>2, ScoreCurves, NormalizedInScale
  <1>5. Score(m) = 30 * a + 20 * b + 20 * c + 10 * d + 10 * e + 10 * f
    BY DEF Score
  <1> HIDE DEF a, b, c, d, e, f
  <1>6. QED
    BY <1>2, <1>3, <1>4, <1>5 DEF Hundred

LEMMA StrongerScores ==
    ASSUME NEW m \in Metrics, NEW n \in Metrics, m.atr = n.atr, m.rsi = n.rsi,
           m.signals <= n.signals, m.volume <= n.volume, m.adx <= n.adx, m.value <= n.value
    PROVE  Score(m) <= Score(n)
  <1> DEFINE a(x) == Normalized(x.signals * Unit, SignalCurve)
             b(x) == Normalized(x.volume, VolumeCurve)
             c(x) == Normalized(x.adx, ADXCurve)
             d(x) == Normalized(x.atr, ATRRatioCurve)
             e(x) == Normalized(x.value, LiquidityCurve)
             f(x) == Normalized(x.rsi, RSICurve)
  <1>1. \A x \in {m, n} : /\ x.signals \in Int /\ x.volume \in Int /\ x.adx \in Int
                          /\ x.atr \in Int /\ x.value \in Int /\ x.rsi \in Int
    BY DEF Metrics
  <1>2. m.signals * Unit \in Int /\ n.signals * Unit \in Int /\ m.signals * Unit <= n.signals * Unit
    BY <1>1, UnitPositive
  <1>3. a(m) <= a(n) /\ b(m) <= b(n) /\ c(m) <= c(n) /\ e(m) <= e(n)
    BY <1>1, <1>2, ScoreCurves, NormalizedRises
  <1>4. d(m) = d(n) /\ f(m) = f(n)
    OBVIOUS
  <1>5. \A x \in {m, n} : /\ a(x) \in 0 .. Unit /\ b(x) \in 0 .. Unit /\ c(x) \in 0 .. Unit
                          /\ d(x) \in 0 .. Unit /\ e(x) \in 0 .. Unit /\ f(x) \in 0 .. Unit
    <2>1. TAKE x \in {m, n}
    <2>2. x.signals * Unit \in Int
      BY <1>1, UnitPositive
    <2>3. a(x) \in 0 .. Unit /\ b(x) \in 0 .. Unit /\ c(x) \in 0 .. Unit
      BY <1>1, <2>2, ScoreCurves, NormalizedInScale
    <2>4. d(x) \in 0 .. Unit /\ e(x) \in 0 .. Unit /\ f(x) \in 0 .. Unit
      BY <1>1, ScoreCurves, NormalizedInScale
    <2>5. QED
      BY <2>3, <2>4
  <1>6. \A x \in {m, n} :
            Score(x) = 30 * a(x) + 20 * b(x) + 20 * c(x) + 10 * d(x) + 10 * e(x) + 10 * f(x)
    BY DEF Score
  <1> HIDE DEF a, b, c, d, e, f
  <1>7. Unit \in Nat
    BY UnitPositive
  <1>8. QED
    BY <1>3, <1>4, <1>5, <1>6, <1>7

-----------------------------------------------------------------------------
(* The choice of the picks: the order *)

\* Candidates of different symbols with scores, of which there are finitely many.
AreRanked(C) ==
    /\ IsFiniteSet(C)
    /\ \A c \in C : c.symbol \in Int /\ Score(c.metrics) \in Int
    /\ \A c, d \in C : c.symbol = d.symbol => c = d

Above(C, c) == {x \in C : Outranks(x, c)}

LEMMA OutranksIsAnOrder ==
    ASSUME NEW C, AreRanked(C), NEW c \in C, NEW d \in C, NEW e \in C
    PROVE  /\ ~ Outranks(c, c)
           /\ Outranks(c, d) /\ Outranks(d, e) => Outranks(c, e)
           /\ c # d => Outranks(c, d) \/ Outranks(d, c)
           /\ ~ (Outranks(c, d) /\ Outranks(d, c))
  <1> DEFINE s(x) == Score(x.metrics)
  <1>1. \A x \in {c, d, e} : x.symbol \in Int /\ s(x) \in Int
    BY DEF AreRanked
  <1>2. \A x, y \in {c, d, e} :
            Outranks(x, y) <=> s(x) > s(y) \/ (s(x) = s(y) /\ x.symbol < y.symbol)
    BY DEF Outranks
  <1>3. c.symbol = d.symbol => c = d
    BY DEF AreRanked
  <1> HIDE DEF s
  <1>4. QED
    BY <1>1, <1>2, <1>3

\* Each candidate has its own number of better ones, below the size of the set.
LEMMA AboveIsARank ==
    ASSUME NEW C, AreRanked(C)
    PROVE  /\ Cardinality(C) \in Nat
           /\ \A c \in C : Cardinality(Above(C, c)) \in 0 .. Cardinality(C) - 1
           /\ \A c, d \in C : Outranks(c, d) => Cardinality(Above(C, c)) < Cardinality(Above(C, d))
  <1>1. IsFiniteSet(C) /\ Cardinality(C) \in Nat
    BY FS_CardinalityType DEF AreRanked
  <1>2. \A c \in C : /\ IsFiniteSet(Above(C, c)) /\ Cardinality(Above(C, c)) \in Nat
                     /\ c \notin Above(C, c) /\ Above(C, c) \subseteq C
    <2>1. TAKE c \in C
    <2>2. Above(C, c) \in SUBSET C /\ c \notin Above(C, c)
      BY OutranksIsAnOrder DEF Above
    <2>3. QED
      BY <1>1, <2>2, FS_Subset, FS_CardinalityType
  <1>3. \A c \in C : Cardinality(Above(C, c)) < Cardinality(C)
    <2>1. TAKE c \in C
    <2>2. Above(C, c) \in SUBSET C /\ Above(C, c) # C
      BY <1>2
    <2>3. Cardinality(Above(C, c)) <= Cardinality(C) /\ Cardinality(C) # Cardinality(Above(C, c))
      BY <1>1, <2>2, FS_Subset
    <2>4. QED
      BY <1>1, <1>2, <2>3
  <1>4. ASSUME NEW c \in C, NEW d \in C, Outranks(c, d)
        PROVE  Cardinality(Above(C, c)) < Cardinality(Above(C, d))
    <2> DEFINE A == Above(C, c)
               B == Above(C, d)
    <2>1. A \in SUBSET B
      <3>1. ASSUME NEW x \in A PROVE x \in B
        <4>1. x \in C /\ Outranks(x, c)
          BY DEF Above
        <4>2. Outranks(x, d)
          BY <1>4, <4>1, OutranksIsAnOrder
        <4>3. QED
          BY <4>1, <4>2 DEF Above
      <3>2. QED
        BY <3>1
    <2>2. c \in B /\ c \notin A
      BY <1>2, <1>4 DEF Above
    <2>3. IsFiniteSet(B) /\ Cardinality(A) \in Nat /\ Cardinality(B) \in Nat
      BY <1>2
    <2> HIDE DEF A, B
    <2>4. Cardinality(A) <= Cardinality(B) /\ Cardinality(B) # Cardinality(A)
      BY <2>1, <2>2, <2>3, FS_Subset
    <2>5. Cardinality(A) < Cardinality(B)
      BY <2>3, <2>4
    <2>6. QED
      BY <2>5 DEF A, B
  <1>5. \A c \in C : Cardinality(Above(C, c)) \in 0 .. Cardinality(C) - 1
    BY <1>1, <1>2, <1>3
  <1>6. QED
    BY <1>1, <1>4, <1>5

\* Ordered lists the candidates best first, each of them once.
LEMMA OrderedIsTheRanking ==
    ASSUME NEW C, AreRanked(C)
    PROVE  LET n == Cardinality(C)
           IN  /\ n \in Nat /\ Ordered(C) \in [1 .. n -> C]
               /\ \A c \in C : \E i \in 1 .. n : Ordered(C)[i] = c
               /\ \A i, j \in 1 .. n : i < j <=> Outranks(Ordered(C)[i], Ordered(C)[j])
  <1> DEFINE n == Cardinality(C)
             o == Ordered(C)
             rank(c) == Cardinality(Above(C, c))
             f == [c \in C |-> rank(c)]
  <1>1. /\ IsFiniteSet(C) /\ n \in Nat
        /\ \A c \in C : rank(c) \in 0 .. n - 1
        /\ \A c, d \in C : Outranks(c, d) => rank(c) < rank(d)
    BY AboveIsARank DEF AreRanked
  <1> HIDE DEF n, rank
  <1>2. ASSUME NEW c \in C, NEW d \in C, rank(c) = rank(d)
        PROVE  c = d
    <2>1. ~ Outranks(c, d) /\ ~ Outranks(d, c)
      BY <1>1, <1>2
    <2>2. QED
      BY <2>1, OutranksIsAnOrder
  <1>3. f \in Injection(C, 0 .. n - 1)
    BY <1>1, <1>2 DEF Injection, IsInjective
  <1>4. IsFiniteSet(0 .. n - 1) /\ Cardinality(0 .. n - 1) = n
    BY <1>1, FS_Interval
  <1>5. f \in Surjection(C, 0 .. n - 1)
    <2> HIDE DEF f
    <2>1. Cardinality(C) = Cardinality(0 .. n - 1)
      BY <1>4 DEF n
    <2>2. QED
      BY <1>3, <1>4, <2>1, FS_Injection
  <1>6. \A k \in 0 .. n - 1 : \E c \in C : rank(c) = k
    BY <1>5 DEF Surjection
  <1>7. o = [i \in 1 .. n |-> CHOOSE c \in C : rank(c) = i - 1]
    BY DEF Ordered, n, rank, Above
  <1> HIDE DEF o
  <1>8. /\ o = [i \in 1 .. n |-> o[i]]
        /\ \A i \in 1 .. n : o[i] = CHOOSE c \in C : rank(c) = i - 1
    BY <1>7
  <1>9. \A i \in 1 .. n : o[i] \in C /\ rank(o[i]) = i - 1
    <2>1. TAKE i \in 1 .. n
    <2>2. i - 1 \in 0 .. n - 1
      BY <1>1
    <2>3. \E c \in C : rank(c) = i - 1
      BY <1>6, <2>2
    <2>4. QED
      BY <1>8, <2>3
  <1>10. \A c \in C : \E i \in 1 .. n : o[i] = c
    <2>1. TAKE c \in C
    <2>2. rank(c) + 1 \in 1 .. n /\ (rank(c) + 1) - 1 = rank(c)
      BY <1>1
    <2>3. o[rank(c) + 1] \in C /\ rank(o[rank(c) + 1]) = rank(c)
      BY <1>9, <2>2
    <2>4. QED
      BY <1>2, <2>2, <2>3
  <1>11. \A i, j \in 1 .. n : i < j <=> Outranks(o[i], o[j])
    <2>1. TAKE i, j \in 1 .. n
    <2>2. /\ o[i] \in C /\ o[j] \in C /\ i \in Int /\ j \in Int
          /\ rank(o[i]) = i - 1 /\ rank(o[j]) = j - 1
      BY <1>1, <1>9
    <2>3. Outranks(o[i], o[j]) => i < j
      BY <1>1, <2>2
    <2>4. Outranks(o[j], o[i]) => j < i
      BY <1>1, <2>2
    <2>5. o[i] # o[j] => Outranks(o[i], o[j]) \/ Outranks(o[j], o[i])
      BY <2>2, OutranksIsAnOrder
    <2>6. i < j => o[i] # o[j]
      BY <2>2
    <2>7. QED
      BY <2>2, <2>3, <2>4, <2>5, <2>6
  <1>12. o \in [1 .. n -> C]
    BY <1>8, <1>9
  <1>13. QED
    BY <1>1, <1>10, <1>11, <1>12 DEF n, o

\* Who is kept, by those kept that are better: the choice as a reader of
\* RankDailyPickCandidates would put it.
IsGreedy(C, X) ==
    /\ X \in SUBSET C
    /\ \A c \in C : c \in X <=> ~ NoRoom({x \in X : Outranks(x, c)}, c)

\* Going down the order once (a FoldLeft) is that choice.
LEMMA ChoiceIsGreedy ==
    ASSUME NEW C, AreRanked(C)
    PROVE  IsGreedy(C, Choose(C))
  <1> DEFINE n == Cardinality(C)
             o == Ordered(C)
             Kept(k, c) == IF NoRoom(k, c) THEN k ELSE k \cup {c}
             Step(g, s) == Kept(g[s \ {Max(s)}], o[Max(s)])
             fold == CHOOSE g : g = [s \in SUBSET DOMAIN o |->
                                        IF s = {} THEN {} ELSE Step(g, s)]
             T == SUBSET C
             F == [p \in T \X (1 .. n) |-> Kept(p[1], o[p[2]])]
  <1>1. /\ n \in Nat /\ o \in [1 .. n -> C]
        /\ \A c \in C : \E i \in 1 .. n : o[i] = c
        /\ \A i, j \in 1 .. n : i < j <=> Outranks(o[i], o[j])
    BY OrderedIsTheRanking
  <1>2. Choose(C) = fold[DOMAIN o]
    BY DEF Choose, FoldLeft, MapThenFoldSet
  <1> HIDE DEF o, n
  <1>3. DOMAIN o = 1 .. n /\ \A i \in 1 .. n : o[i] \in C
    BY <1>1
  <1>4. F \in [T \X (1 .. n) -> T] /\ {} \in T
    <2>1. \A p \in T \X (1 .. n) : Kept(p[1], o[p[2]]) \in T
      BY <1>3
    <2>2. QED
      BY <2>1
  <1>5. PICK g \in [SUBSET (1 .. n) -> T] : IsFold(g, n, {}, F)
    <2> HIDE DEF F, T
    <2>1. QED
      BY <1>1, <1>4, FoldsExist
  <1>6. \A s \in SUBSET (1 .. n) : s # {} => F[<<g[s \ {Max(s)}], Max(s)>>] = Step(g, s)
    <2>1. TAKE s \in SUBSET (1 .. n)
    <2>2. HAVE s # {}
    <2>3. Max(s) \in 1 .. n
      BY <1>1, <2>1, <2>2, LargestMember
    <2>4. g[s \ {Max(s)}] \in T
      BY <2>1
    <2> HIDE DEF Kept, T
    <2>5. QED
      BY <2>3, <2>4
  <1> HIDE DEF Kept
  <1>7. g = [s \in SUBSET DOMAIN o |-> IF s = {} THEN {} ELSE Step(g, s)]
    BY <1>3, <1>5, <1>6 DEF IsFold
  <1>8. fold = [s \in SUBSET DOMAIN o |-> IF s = {} THEN {} ELSE Step(fold, s)]
    BY <1>7
  <1> HIDE DEF fold, F, T
  <1>9. fold[{}] = {}
    BY <1>8
  <1> DEFINE kept(k) == fold[1 .. k]
  <1>10. kept(0) = {}
    <2>1. 1 .. 0 = {}
      OBVIOUS
    <2>2. QED
      BY <1>9, <2>1
  <1>11. ASSUME NEW k \in 1 .. n
         PROVE  kept(k) = Kept(kept(k - 1), o[k])
    <2>1. Max(1 .. k) = k /\ (1 .. k) \ {k} = 1 .. k - 1
      BY FirstPositions
    <2>2. 1 .. k \in SUBSET DOMAIN o /\ 1 .. k # {}
      <3>1. k \in 1 .. k /\ 1 .. k \subseteq 1 .. n
        BY <1>1
      <3>2. QED
        BY <1>3, <3>1
    <2>3. fold[1 .. k] = Step(fold, 1 .. k)
      BY <1>8, <2>2
    <2>4. QED
      BY <2>1, <2>3
  <1>12. Choose(C) = kept(n)
    BY <1>2, <1>3
  <1> HIDE DEF kept
  <1>13. \A k \in 1 .. n : /\ kept(k) = kept(k - 1) \/ kept(k) = kept(k - 1) \cup {o[k]}
                           /\ NoRoom(kept(k - 1), o[k]) => kept(k) = kept(k - 1)
                           /\ ~ NoRoom(kept(k - 1), o[k]) => kept(k) = kept(k - 1) \cup {o[k]}
    BY <1>11 DEF Kept
  \* What is kept of the first k is settled when they have been looked at.
  <1> DEFINE Settled(k) == /\ \A x \in kept(k) : \E j \in 1 .. k : x = o[j]
                           /\ \A j \in 1 .. k : o[j] \in kept(k) <=> o[j] \in kept(j)
             Bad == {k \in 0 .. n : ~ Settled(k)}
  <1>14. \A i, j \in 1 .. n : o[i] = o[j] => i = j
    <2>1. TAKE i, j \in 1 .. n
    <2>2. HAVE o[i] = o[j]
    <2>3. o[i] \in C /\ i \in Int /\ j \in Int
      BY <1>1, <1>3
    <2>4. ~ Outranks(o[i], o[j]) /\ ~ Outranks(o[j], o[i])
      BY <2>2, <2>3, OutranksIsAnOrder
    <2>5. QED
      BY <1>1, <2>3, <2>4
  <1>15. Settled(0)
    BY <1>10
  <1>16. ASSUME NEW k \in 1 .. n, Settled(k - 1)
         PROVE  Settled(k)
    <2>1. k \in Nat /\ k - 1 \in Nat /\ 1 .. k = (1 .. k - 1) \cup {k} /\ k \notin 1 .. k - 1
      BY <1>1
    <2>2. \A x \in kept(k) : x = o[k] \/ x \in kept(k - 1)
      BY <1>13
    <2>3. \A x \in kept(k) : \E j \in 1 .. k : x = o[j]
      BY <1>16, <2>1, <2>2
    <2>4. \A j \in 1 .. k - 1 : o[j] # o[k] /\ (o[j] \in kept(k) <=> o[j] \in kept(k - 1))
      <3>1. TAKE j \in 1 .. k - 1
      <3>2. j \in 1 .. n /\ j # k
        BY <1>1
      <3>3. o[j] # o[k]
        BY <1>14, <3>2
      <3>4. QED
        BY <1>13, <3>3
    <2>5. QED
      BY <1>16, <2>1, <2>3, <2>4
  <1>17. Bad = {}
    <2> SUFFICES ASSUME Bad # {} PROVE FALSE
      OBVIOUS
    <2> HIDE DEF Settled
    <2>1. Bad \subseteq Nat
      BY <1>1
    <2> HIDE DEF Bad
    <2>2. PICK k \in Bad : \A m \in Bad : k <= m
      BY <2>1, LeastNatural
    <2>3. k \in 0 .. n /\ ~ Settled(k)
      BY DEF Bad
    <2>4. k # 0
      BY <1>15, <2>3
    <2>5. k \in 1 .. n /\ k - 1 \in 0 .. n /\ k - 1 \notin Bad
      BY <1>1, <2>1, <2>2, <2>3, <2>4
    <2>6. QED
      BY <1>16, <2>3, <2>5 DEF Bad
  <1>18. \A k \in 0 .. n : Settled(k)
    BY <1>17
  <1> HIDE DEF Bad
  <1> DEFINE X == kept(n)
  <1>19. X \in SUBSET C /\ \A j \in 1 .. n : o[j] \in X <=> o[j] \in kept(j)
    <2>1. Settled(n)
      BY <1>1, <1>18
    <2>2. QED
      BY <1>3, <2>1
  <1>20. ASSUME NEW j \in 1 .. n
         PROVE  {x \in X : Outranks(x, o[j])} = kept(j - 1)
    <2>1. j - 1 \in 0 .. n /\ Settled(j - 1) /\ j \in Int /\ 1 .. j - 1 \subseteq 1 .. n
      BY <1>1, <1>18
    <2>2. \A i \in 1 .. n : i < j <=> i \in 1 .. j - 1
      BY <1>1, <2>1
    <2>3. \A i \in 1 .. j - 1 : o[i] \in X <=> o[i] \in kept(j - 1)
      <3>1. TAKE i \in 1 .. j - 1
      <3>2. o[i] \in kept(j - 1) <=> o[i] \in kept(i)
        BY <2>1
      <3>3. i \in 1 .. n
        BY <2>1
      <3>4. QED
        BY <1>19, <3>2, <3>3
    <2>4. \A x \in kept(j - 1) : \E i \in 1 .. j - 1 : x = o[i]
      BY <2>1
    <2> HIDE DEF Settled
    <2>5. ASSUME NEW x \in kept(j - 1)
          PROVE  x \in X /\ Outranks(x, o[j])
      <3>1. PICK i \in 1 .. j - 1 : x = o[i]
        BY <2>4
      <3>2. i \in 1 .. n /\ i < j
        BY <2>1, <2>2
      <3>3. QED
        BY <1>1, <2>3, <2>5, <3>1, <3>2
    <2>6. ASSUME NEW x \in X, Outranks(x, o[j])
          PROVE  x \in kept(j - 1)
      <3>1. PICK i \in 1 .. n : x = o[i]
        BY <1>1, <1>19
      <3>2. i \in 1 .. j - 1
        BY <1>1, <2>2, <2>6, <3>1
      <3>3. QED
        BY <2>3, <2>6, <3>1, <3>2
    <2>7. QED
      BY <2>5, <2>6
  <1>21. ASSUME NEW c \in C
         PROVE  c \in X <=> ~ NoRoom({x \in X : Outranks(x, c)}, c)
    <2>1. PICK j \in 1 .. n : c = o[j]
      BY <1>1
    <2>2. {x \in X : Outranks(x, c)} = kept(j - 1)
      BY <1>20, <2>1
    <2>3. o[j] \notin kept(j - 1)
      <3>1. o[j] \in C
        BY <1>3
      <3>2. ~ Outranks(o[j], o[j])
        BY <3>1, OutranksIsAnOrder
      <3>3. QED
        BY <1>20, <3>2
    <2>4. o[j] \in kept(j) <=> ~ NoRoom(kept(j - 1), o[j])
      BY <1>13, <2>3
    <2>5. QED
      BY <1>19, <2>1, <2>2, <2>4
  <1>22. QED
    BY <1>12, <1>19, <1>21 DEF IsGreedy

LEMMA BestAndWorst ==
    ASSUME NEW C, AreRanked(C), NEW S \in SUBSET C, S # {}
    PROVE  /\ \E b \in S : \A x \in S \ {b} : Outranks(b, x)
           /\ \E w \in S : \A x \in S \ {w} : Outranks(x, w)
  <1> DEFINE n == Cardinality(C)
             rank(c) == Cardinality(Above(C, c))
             R == {rank(c) : c \in S}
             L == {n - rank(c) : c \in S}
  <1>1. /\ n \in Nat /\ \A c \in C : rank(c) \in 0 .. n - 1
        /\ \A c, d \in C : Outranks(c, d) => rank(c) < rank(d)
    BY AboveIsARank
  <1>2. R \subseteq Nat /\ R # {} /\ L \subseteq Nat /\ L # {}
    <2> HIDE DEF n, rank
    <2>1. QED
      BY <1>1
  <1> HIDE DEF n, rank
  <1>3. \E b \in S : \A x \in S : rank(b) <= rank(x)
    <2>1. PICK r \in R : \A m \in R : r <= m
      BY <1>2, LeastNatural
    <2>2. QED
      BY <2>1
  <1>4. \E w \in S : \A x \in S : rank(x) <= rank(w)
    <2>1. PICK r \in L : \A m \in L : r <= m
      BY <1>2, LeastNatural
    <2>2. PICK w \in S : r = n - rank(w)
      BY <2>1
    <2>3. \A x \in S : n - rank(w) <= n - rank(x)
      BY <2>1, <2>2
    <2>4. QED
      BY <1>1, <2>3
  <1>5. \A x, y \in S : x # y /\ rank(x) <= rank(y) => Outranks(x, y)
    <2>1. TAKE x, y \in S
    <2>2. HAVE x # y /\ rank(x) <= rank(y)
    <2>3. ~ Outranks(y, x)
      BY <1>1, <2>2
    <2>4. QED
      BY <2>2, <2>3, OutranksIsAnOrder
  <1>6. QED
    BY <1>3, <1>4, <1>5

InSector(S, s) == {x \in S : x.sector = s}

LEMMA RoomLeft ==
    ASSUME NEW kept, NEW c
    PROVE  NoRoom(kept, c) <=>
              \/ Cardinality(kept) >= PickTopN
              \/ /\ MaxPerSector > 0 /\ c.sector # NoSector
                 /\ Cardinality(InSector(kept, c.sector)) >= MaxPerSector
  BY DEF NoRoom, InSector

\* The limits are kept.
LEMMA GreedyKeepsLimits ==
    ASSUME NEW C, AreRanked(C), NEW X, IsGreedy(C, X)
    PROVE  /\ IsFiniteSet(X) /\ Cardinality(X) \in Nat /\ Cardinality(X) <= PickTopN
           /\ \A s : /\ IsFiniteSet(InSector(X, s)) /\ Cardinality(InSector(X, s)) \in Nat
                     /\ MaxPerSector > 0 /\ s # NoSector => Cardinality(InSector(X, s)) <= MaxPerSector
  <1> DEFINE B(c) == {x \in X : Outranks(x, c)}
  <1>1. /\ IsFiniteSet(X) /\ Cardinality(X) \in Nat /\ X \in SUBSET C
        /\ \A c \in X : ~ NoRoom(B(c), c)
    BY FS_Subset, FS_CardinalityType DEF IsGreedy, AreRanked
  <1>2. PickTopN \in Nat \ {0} /\ MaxPerSector \in Nat
    BY ScoreAssumption
  <1>3. Cardinality(X) <= PickTopN
    <2>1. CASE X = {}
      BY <1>2, <2>1, FS_EmptySet
    <2>2. CASE X # {}
      <3>1. PICK w \in X : \A x \in X \ {w} : Outranks(x, w)
        BY <1>1, <2>2, BestAndWorst
      <3>2. B(w) = X \ {w}
        BY <1>1, <3>1, OutranksIsAnOrder
      <3>3. Cardinality(X \ {w}) = Cardinality(X) - 1
        BY <1>1, <3>1, FS_RemoveElement
      <3>4. ~ (Cardinality(X \ {w}) >= PickTopN)
        BY <1>1, <3>2 DEF NoRoom
      <3>5. QED
        BY <1>1, <1>2, <3>3, <3>4
    <2>3. QED
      BY <2>1, <2>2
  <1>4. ASSUME NEW s
        PROVE  /\ IsFiniteSet(InSector(X, s)) /\ Cardinality(InSector(X, s)) \in Nat
               /\ MaxPerSector > 0 /\ s # NoSector => Cardinality(InSector(X, s)) <= MaxPerSector
    <2> DEFINE S == InSector(X, s)
    <2>1. S \in SUBSET X /\ \A x \in S : x.sector = s
      BY DEF InSector
    <2>2. IsFiniteSet(S) /\ Cardinality(S) \in Nat
      BY <1>1, <2>1, FS_Subset, FS_CardinalityType
    <2>3. ASSUME MaxPerSector > 0, s # NoSector PROVE Cardinality(S) <= MaxPerSector
      <3>1. CASE S = {}
        BY <1>2, <3>1, FS_EmptySet
      <3>2. CASE S # {}
        <4>1. PICK w \in S : \A x \in S \ {w} : Outranks(x, w)
          <5>1. S \in SUBSET C
            BY <1>1, <2>1
          <5> HIDE DEF S
          <5>2. QED
            BY <3>2, <5>1, BestAndWorst
        <4>2. w \in X /\ w \in C /\ w.sector = s
          BY <1>1, <2>1
        <4>3. InSector(B(w), s) = S \ {w}
          <5>1. InSector(B(w), s) = {x \in S : Outranks(x, w)}
            BY DEF InSector
          <5>2. \A x \in S \ {w} : Outranks(x, w)
            BY <4>1
          <5>3. ~ Outranks(w, w)
            BY <4>2, OutranksIsAnOrder
          <5> HIDE DEF S, B
          <5>4. QED
            BY <5>1, <5>2, <5>3
        <4>4. Cardinality(S \ {w}) = Cardinality(S) - 1
          <5> HIDE DEF S
          <5>1. QED
            BY <2>2, <4>1, FS_RemoveElement
        <4>5. ~ (Cardinality(InSector(B(w), s)) >= MaxPerSector)
          <5>1. ~ NoRoom(B(w), w)
            BY <1>1, <4>2
          <5> HIDE DEF B, S
          <5>2. QED
            BY <2>3, <4>2, <5>1, RoomLeft
        <4> HIDE DEF S, B
        <4>6. QED
          BY <1>2, <2>2, <4>3, <4>4, <4>5
      <3>3. QED
        BY <3>1, <3>2
    <2>4. QED
      BY <2>2, <2>3
  <1>5. QED
    BY <1>1, <1>3, <1>4

\* Whoever is left out stands behind as many better ones as there are places.
LEMMA GreedyIsTheBest ==
    ASSUME NEW C, AreRanked(C), NEW X, IsGreedy(C, X), NEW c \in C, c \notin X
    PROVE  LET better == {x \in X : Outranks(x, c)}
           IN  \/ Cardinality(better) = PickTopN
               \/ /\ MaxPerSector > 0 /\ c.sector # NoSector
                  /\ Cardinality(InSector(better, c.sector)) = MaxPerSector
  <1> DEFINE better == {x \in X : Outranks(x, c)}
             s == c.sector
  <1>1. NoRoom(better, c)
    BY DEF IsGreedy
  <1>2. /\ IsFiniteSet(X) /\ Cardinality(X) \in Nat /\ Cardinality(X) <= PickTopN
        /\ IsFiniteSet(InSector(X, s)) /\ Cardinality(InSector(X, s)) \in Nat
        /\ MaxPerSector > 0 /\ s # NoSector => Cardinality(InSector(X, s)) <= MaxPerSector
    BY GreedyKeepsLimits
  <1>3. better \in SUBSET X /\ InSector(better, s) \in SUBSET InSector(X, s)
    BY DEF InSector
  <1> HIDE DEF better, s
  <1>4. /\ Cardinality(better) \in Nat /\ Cardinality(better) <= Cardinality(X)
        /\ Cardinality(InSector(better, s)) \in Nat
        /\ Cardinality(InSector(better, s)) <= Cardinality(InSector(X, s))
    BY <1>2, <1>3, FS_Subset, FS_CardinalityType
  <1>5. \/ Cardinality(better) >= PickTopN
        \/ /\ MaxPerSector > 0 /\ s # NoSector
           /\ Cardinality(InSector(better, s)) >= MaxPerSector
    BY <1>1, RoomLeft DEF s
  <1>6. PickTopN \in Nat /\ MaxPerSector \in Nat
    BY ScoreAssumption
  <1>7. QED
    BY <1>2, <1>4, <1>5, <1>6 DEF better, s

\* There is one such choice.
LEMMA GreedyIsUnique ==
    ASSUME NEW C, AreRanked(C), NEW X, IsGreedy(C, X), NEW Y, IsGreedy(C, Y)
    PROVE  X = Y
  <1> DEFINE D == (X \ Y) \cup (Y \ X)
  <1>1. SUFFICES ASSUME D # {} PROVE FALSE
    OBVIOUS
  <1>2. X \in SUBSET C /\ Y \in SUBSET C /\ D \in SUBSET C
    BY DEF IsGreedy
  <1>3. PICK b \in D : \A x \in D \ {b} : Outranks(b, x)
    <2> HIDE DEF D
    <2>1. QED
      BY <1>1, <1>2, BestAndWorst
  <1>4. \A x \in D : ~ Outranks(x, b)
    <2>1. TAKE x \in D
    <2>2. x \in C /\ b \in C
      BY <1>2
    <2>3. x = b \/ Outranks(b, x)
      BY <1>3
    <2>4. QED
      BY <2>2, <2>3, OutranksIsAnOrder
  <1>5. {x \in X : Outranks(x, b)} = {x \in Y : Outranks(x, b)}
    BY <1>4
  <1>6. b \in C /\ (b \in X <=> b \in Y)
    BY <1>2, <1>5 DEF IsGreedy
  <1>7. QED
    BY <1>6

\* Room for a candidate behind some is room behind fewer.
LEMMA RoomBehindFewer ==
    ASSUME NEW A, NEW B, IsFiniteSet(B), A \subseteq B, NEW c, NoRoom(A, c)
    PROVE  NoRoom(B, c)
  <1> DEFINE s == c.sector
  <1>1. InSector(A, s) \subseteq InSector(B, s) /\ InSector(B, s) \subseteq B
    BY DEF InSector
  <1> HIDE DEF s
  <1>2. IsFiniteSet(InSector(B, s))
    BY <1>1, FS_Subset
  <1>3. /\ Cardinality(A) \in Nat /\ Cardinality(B) \in Nat /\ Cardinality(A) <= Cardinality(B)
        /\ IsFiniteSet(A)
    BY FS_Subset, FS_CardinalityType
  <1>4. /\ Cardinality(InSector(A, s)) \in Nat /\ Cardinality(InSector(B, s)) \in Nat
        /\ Cardinality(InSector(A, s)) <= Cardinality(InSector(B, s))
    BY <1>1, <1>2, FS_Subset, FS_CardinalityType
  <1>5. \/ Cardinality(A) >= PickTopN
        \/ /\ MaxPerSector > 0 /\ s # NoSector
           /\ Cardinality(InSector(A, s)) >= MaxPerSector
    BY RoomLeft DEF s
  <1>6. PickTopN \in Nat /\ MaxPerSector \in Nat
    BY ScoreAssumption
  <1>7. \/ Cardinality(B) >= PickTopN
        \/ /\ MaxPerSector > 0 /\ s # NoSector
           /\ Cardinality(InSector(B, s)) >= MaxPerSector
    BY <1>3, <1>4, <1>5, <1>6
  <1>8. QED
    BY <1>7, RoomLeft DEF s

SectorOf(c) == c.sector

\* Those of a sector when one more is added.
LEMMA OneMoreInSector ==
    ASSUME NEW A, IsFiniteSet(A), NEW a, a \notin A, NEW s
    PROVE  /\ IsFiniteSet(A \cup {a}) /\ Cardinality(A) \in Nat
           /\ Cardinality(A \cup {a}) = Cardinality(A) + 1
           /\ Cardinality(InSector(A, s)) \in Nat
           /\ SectorOf(a) = s => Cardinality(InSector(A \cup {a}, s)) = Cardinality(InSector(A, s)) + 1
           /\ SectorOf(a) # s => InSector(A \cup {a}, s) = InSector(A, s)
  <1> DEFINE S == InSector(A, s)
  <1>1. S \in SUBSET A /\ a \notin S
    BY DEF InSector
  <1>2. IsFiniteSet(S) /\ Cardinality(S) \in Nat /\ Cardinality(A) \in Nat
    BY <1>1, FS_Subset, FS_CardinalityType
  <1>3. a.sector = s => InSector(A \cup {a}, s) = S \cup {a}
    BY DEF InSector
  <1>4. a.sector # s => InSector(A \cup {a}, s) = S
    BY DEF InSector
  <1>5. Cardinality(S \cup {a}) = Cardinality(S) + 1
    <2> HIDE DEF S
    <2>1. QED
      BY <1>1, <1>2, FS_AddElement
  <1>6. IsFiniteSet(A \cup {a}) /\ Cardinality(A \cup {a}) = Cardinality(A) + 1
    BY FS_AddElement
  <1>7. QED
    BY <1>2, <1>3, <1>4, <1>5, <1>6 DEF SectorOf

\* Two candidates of one sector leave the same room.
LEMMA SameRoom ==
    ASSUME NEW A, IsFiniteSet(A), NEW a, NEW b, a \notin A, b \notin A, a.sector = b.sector,
           NEW c
    PROVE  NoRoom(A \cup {a}, c) <=> NoRoom(A \cup {b}, c)
  <1> DEFINE s == SectorOf(c)
  <1>1. /\ Cardinality(A \cup {a}) = Cardinality(A) + 1
        /\ Cardinality(A \cup {b}) = Cardinality(A) + 1
    BY OneMoreInSector
  <1>2. SectorOf(a) = SectorOf(b)
    BY DEF SectorOf
  <1> HIDE DEF s
  <1>3. Cardinality(InSector(A \cup {a}, s)) = Cardinality(InSector(A \cup {b}, s))
    <2>1. CASE SectorOf(a) = s
      <3>1. Cardinality(InSector(A \cup {a}, s)) = Cardinality(InSector(A, s)) + 1
        BY <2>1, OneMoreInSector
      <3>2. Cardinality(InSector(A \cup {b}, s)) = Cardinality(InSector(A, s)) + 1
        <4>1. SectorOf(b) = s
          BY <1>2, <2>1
        <4>2. QED
          BY <4>1, OneMoreInSector
      <3>3. QED
        BY <3>1, <3>2
    <2>2. CASE SectorOf(a) # s
      <3>1. InSector(A \cup {a}, s) = InSector(A, s)
        BY <2>2, OneMoreInSector
      <3>2. InSector(A \cup {b}, s) = InSector(A, s)
        BY <1>2, <2>2, OneMoreInSector
      <3>3. QED
        BY <3>1, <3>2
    <2>3. QED
      BY <2>1, <2>2
  <1>4. QED
    BY <1>1, <1>3, RoomLeft DEF s, SectorOf

\* A candidate that is not chosen changes nothing.
LEMMA WithoutALoser ==
    ASSUME NEW C, AreRanked(C), NEW X, IsGreedy(C, X), NEW c \in C, c \notin X,
           NEW Y, IsGreedy(C \ {c}, Y)
    PROVE  X = Y
  <1>1. AreRanked(C \ {c})
    BY FS_RemoveElement DEF AreRanked
  <1>2. IsGreedy(C \ {c}, X)
    BY DEF IsGreedy
  <1>3. QED
    BY <1>1, <1>2, GreedyIsUnique

\* A chosen candidate took the place of at most one other.
LEMMA WithoutAWinner ==
    ASSUME NEW C, AreRanked(C), NEW X, IsGreedy(C, X), NEW c \in X,
           NEW Y, IsGreedy(C \ {c}, Y)
    PROVE  X \subseteq Y \cup {c} /\ (Y \ X = {} \/ \E d : Y \ X = {d})
  <1> DEFINE D == ((X \ Y) \cup (Y \ X)) \ {c}
             B(S, d) == {x \in S : Outranks(x, d)}
  <1>1. /\ X \in SUBSET C /\ Y \in SUBSET C /\ D \in SUBSET C /\ c \in C /\ c \notin Y
        /\ \A d \in C : d \in X <=> ~ NoRoom(B(X, d), d)
        /\ \A d \in C \ {c} : d \in Y <=> ~ NoRoom(B(Y, d), d)
    BY DEF IsGreedy
  <1>2. IsFiniteSet(X) /\ Cardinality(X) \in Nat /\ Cardinality(X) <= PickTopN
    BY GreedyKeepsLimits
  <1>3. IsFiniteSet(Y) /\ Cardinality(Y) \in Nat /\ Cardinality(Y) <= PickTopN
    <2>1. AreRanked(C \ {c})
      BY FS_RemoveElement DEF AreRanked
    <2>2. QED
      BY <2>1, GreedyKeepsLimits
  <1>4. SUFFICES ASSUME D # {} PROVE X \subseteq Y \cup {c} /\ \E d : Y \ X = {d}
    OBVIOUS
  <1>5. PICK d \in D : \A x \in D \ {d} : Outranks(d, x)
    <2> HIDE DEF D
    <2>1. QED
      BY <1>1, <1>4, BestAndWorst
  <1>6. d \in C /\ d # c /\ \A x \in D : ~ Outranks(x, d)
    <2>1. d \in C /\ d # c
      BY <1>1
    <2>2. ASSUME NEW x \in D PROVE ~ Outranks(x, d)
      <3>1. x \in C /\ (x = d \/ Outranks(d, x))
        BY <1>1, <1>5
      <3>2. QED
        BY <2>1, <3>1, OutranksIsAnOrder
    <2>3. QED
      BY <2>1, <2>2
  <1> DEFINE A == B(Y, d)
  <1>7. c \notin A /\ IsFiniteSet(A) /\ A \in SUBSET Y
    BY <1>1, <1>3, FS_Subset
  <1>8. Outranks(c, d) /\ B(X, d) = A \cup {c}
    <2>1. CASE Outranks(c, d)
      BY <1>1, <1>6, <2>1
    <2>2. CASE ~ Outranks(c, d)
      <3>1. B(X, d) = A
        BY <1>1, <1>6, <2>2
      <3>2. d \in X <=> d \in Y
        BY <1>1, <1>6, <3>1
      <3>3. QED
        BY <3>2
    <2>3. QED
      BY <2>1, <2>2
  \* The first difference is one who got in.
  <1>9. d \in Y /\ d \notin X /\ NoRoom(A \cup {c}, d) /\ ~ NoRoom(A, d)
    <2>1. NoRoom(A, d) => NoRoom(A \cup {c}, d)
      <3>1. IsFiniteSet(A \cup {c})
        BY <1>7, FS_AddElement
      <3> HIDE DEF A
      <3>2. QED
        BY <3>1, RoomBehindFewer
    <2>2. (d \in X <=> ~ NoRoom(A \cup {c}, d)) /\ (d \in Y <=> ~ NoRoom(A, d))
      BY <1>1, <1>6, <1>8
    <2>3. d \in X \/ d \in Y
      OBVIOUS
    <2>4. ~ (d \in X /\ d \in Y)
      OBVIOUS
    <2> HIDE DEF A, B
    <2>5. QED
      BY <2>1, <2>2, <2>3, <2>4
  <1>10. d \notin A /\ A \cup {d} \subseteq Y /\ A \cup {c} \subseteq X
    <2>1. ~ Outranks(d, d)
      BY <1>6, OutranksIsAnOrder
    <2>2. A \cup {c} \subseteq X
      BY <1>8
    <2>3. QED
      BY <1>9, <2>1, <2>2
  <1> HIDE DEF A
  <1>11. /\ Cardinality(A) \in Nat /\ Cardinality(A \cup {c}) = Cardinality(A) + 1
         /\ Cardinality(A \cup {d}) = Cardinality(A) + 1
    BY <1>7, <1>10, OneMoreInSector
  <1>12. PickTopN \in Nat /\ MaxPerSector \in Nat
    BY ScoreAssumption
  <1> DEFINE s == d.sector
  <1>13. CASE Cardinality(A \cup {c}) >= PickTopN
    <2>1. X = A \cup {c}
      <3>1. Cardinality(A \cup {c}) <= Cardinality(X) /\ (Cardinality(X) = Cardinality(A \cup {c}) => X = A \cup {c})
        BY <1>2, <1>10, FS_Subset
      <3>2. QED
        BY <1>2, <1>11, <1>12, <1>13, <3>1
    <2>2. Y = A \cup {d}
      <3>1. Cardinality(A \cup {d}) <= Cardinality(Y) /\ (Cardinality(Y) = Cardinality(A \cup {d}) => Y = A \cup {d})
        BY <1>3, <1>10, FS_Subset
      <3>2. QED
        BY <1>3, <1>11, <1>12, <1>13, <3>1
    <2>3. Y \ X = {d} /\ X \subseteq Y \cup {c}
      BY <1>6, <1>10, <2>1, <2>2
    <2>4. QED
      BY <2>3
  <1>14. CASE ~ (Cardinality(A \cup {c}) >= PickTopN)
    \* The sector of d is full with c, so c is of it.
    <2>1. SectorOf(c) = s
      <3>1. /\ MaxPerSector > 0 /\ s # NoSector
            /\ Cardinality(InSector(A \cup {c}, s)) >= MaxPerSector
        BY <1>9, <1>14, RoomLeft
      <3>2. Cardinality(InSector(A \cup {c}, s)) # Cardinality(InSector(A, s))
        BY <1>9, <3>1, RoomLeft
      <3>3. QED
        BY <1>7, <3>2, OneMoreInSector
    \* From there on both counts are the same, and so are the choices.
    <2>2. D = {d}
      <3> DEFINE E == D \ {d}
      <3>1. SUFFICES ASSUME E # {} PROVE FALSE
        OBVIOUS
      <3>2. E \in SUBSET C
        BY <1>1
      <3>3. PICK e \in E : \A x \in E \ {e} : Outranks(e, x)
        <4> HIDE DEF D, E
        <4>1. QED
          BY <1>1, <3>1, <3>2, BestAndWorst
      <3>4. e \in C /\ e # c /\ e # d /\ Outranks(d, e) /\ Outranks(c, e)
        <4>1. e \in C /\ e # c /\ e # d /\ Outranks(d, e)
          BY <1>1, <1>5
        <4>2. QED
          BY <1>1, <1>6, <1>8, <4>1, OutranksIsAnOrder
      <3>5. \A x \in E : ~ Outranks(x, e)
        <4>1. TAKE x \in E
        <4>2. x \in C /\ (x = e \/ Outranks(e, x))
          BY <1>1, <3>3
        <4>3. QED
          BY <3>4, <4>2, OutranksIsAnOrder
      <3> DEFINE R == B(X \cap Y, e)
      <3>6. B(X, e) = R \cup {c}
        BY <1>1, <1>9, <3>4, <3>5
      <3>7. B(Y, e) = R \cup {d}
        BY <1>1, <1>9, <3>4, <3>5
      <3>8. c \notin R /\ d \notin R /\ IsFiniteSet(R)
        <4>1. R \in SUBSET X
          OBVIOUS
        <4>2. QED
          BY <1>1, <1>2, <1>9, <4>1, FS_Subset
      <3>9. (e \in X <=> ~ NoRoom(R \cup {c}, e)) /\ (e \in Y <=> ~ NoRoom(R \cup {d}, e))
        BY <1>1, <3>4, <3>6, <3>7
      <3>10. ~ (e \in X <=> e \in Y)
        OBVIOUS
      <3> HIDE DEF R, B, D, E
      <3>11. NoRoom(R \cup {c}, e) <=> NoRoom(R \cup {d}, e)
        BY <2>1, <3>8, SameRoom DEF SectorOf
      <3>12. QED
        BY <3>9, <3>10, <3>11
    <2>3. Y \ X = {d} /\ X \subseteq Y \cup {c}
      BY <1>1, <1>9, <2>2
    <2>4. QED
      BY <2>3
  <1>15. QED
    BY <1>13, <1>14

\* One more candidate costs at most one of the others its place.
LEMMA OneInOneOutHolds ==
    ASSUME NEW C, AreRanked(C), NEW c \in C
    PROVE  LET others == Choose(C \ {c}) IN
           /\ Choose(C) \subseteq others \cup {c}
           /\ Cardinality(others \ Choose(C)) <= 1
  <1> DEFINE X == Choose(C)
             Y == Choose(C \ {c})
  <1>1. IsGreedy(C, X) /\ IsGreedy(C \ {c}, Y)
    <2>1. AreRanked(C \ {c})
      BY FS_RemoveElement DEF AreRanked
    <2>2. QED
      BY <2>1, ChoiceIsGreedy
  <1> HIDE DEF X, Y
  <1>2. CASE c \notin X
    <2>1. X = Y
      BY <1>1, <1>2, WithoutALoser
    <2>2. Y \ X = {}
      BY <2>1
    <2>3. Cardinality(Y \ X) = 0
      BY <2>2, FS_EmptySet
    <2>4. X \subseteq Y \cup {c} /\ Cardinality(Y \ X) <= 1
      BY <2>1, <2>3
    <2>5. QED
      BY <2>4 DEF X, Y
  <1>3. CASE c \in X
    <2>1. X \subseteq Y \cup {c} /\ (Y \ X = {} \/ \E d : Y \ X = {d})
      BY <1>1, <1>3, WithoutAWinner
    <2>2. Cardinality(Y \ X) = 0 \/ Cardinality(Y \ X) = 1
      BY <2>1, FS_EmptySet, FS_Singleton
    <2>3. Cardinality(Y \ X) <= 1
      BY <2>2
    <2>4. QED
      BY <2>1, <2>3 DEF X, Y
  <1>4. QED
    BY <1>2, <1>3

-----------------------------------------------------------------------------
(* The bands of the statistics *)

LEMMA BandsAreTens ==
    ASSUME NEW s \in 0 .. Hundred
    PROVE  BandLower(s) \in {10 * i : i \in 0 .. 9}
  <1> DEFINE w == 10 * Unit
             q == s \div w
  <1>1. w \in Nat \ {0} /\ s \in Nat /\ s <= w * 10
    BY UnitPositive DEF Hundred
  <1>2. q \in Nat /\ w * q <= s
    <2> HIDE DEF w
    <2>1. QED
      BY <1>1
  <1>3. BandLower(s) = Min({90, q * 10})
    BY DEF BandLower
  <1> HIDE DEF w, q
  <1>4. 90 \in Int /\ q * 10 \in Int
    BY <1>2
  <1>5. Min({90, q * 10}) \in {90, q * 10} /\ Min({90, q * 10}) <= 90
    BY <1>4, ExtremesOfTwo
  <1>6. CASE Min({90, q * 10}) = 90
    <2>1. BandLower(s) = 10 * 9
      BY <1>3, <1>6
    <2>2. QED
      BY <2>1
  <1>7. CASE Min({90, q * 10}) = q * 10
    <2>1. q \in 0 .. 9 /\ BandLower(s) = 10 * q
      BY <1>2, <1>3, <1>5, <1>7
    <2>2. QED
      BY <2>1
  <1>8. QED
    BY <1>5, <1>6, <1>7

LEMMA BandsRise ==
    ASSUME NEW s \in 0 .. Hundred, NEW t \in 0 .. Hundred, s <= t
    PROVE  BandLower(s) <= BandLower(t)
  <1> DEFINE w == 10 * Unit
             p == s \div w
             q == t \div w
  <1>1. w \in Nat \ {0} /\ s \in Nat /\ t \in Nat
    BY UnitPositive DEF Hundred
  <1>2. p \in Nat /\ w * p <= s /\ q \in Nat /\ t < w * q + w
    <2> HIDE DEF w
    <2>1. QED
      BY <1>1
  <1>3. BandLower(s) = Min({90, p * 10}) /\ BandLower(t) = Min({90, q * 10})
    BY DEF BandLower
  <1> HIDE DEF w, p, q
  <1>4. w * p < w * (q + 1)
    BY <1>1, <1>2
  <1>5. p <= q
    BY <1>1, <1>2, <1>4
  <1>6. 90 \in Int /\ p * 10 \in Int /\ q * 10 \in Int /\ p * 10 <= q * 10
    BY <1>2, <1>5
  <1> DEFINE x == p * 10
             y == q * 10
  <1>7. x \in Int /\ y \in Int /\ x <= y
    BY <1>6
  <1> HIDE DEF x, y
  <1>8. /\ Min({90, x}) <= 90 /\ Min({90, x}) <= x
        /\ Min({90, y}) \in {90, y} /\ Min({90, x}) \in {90, x}
    <2>1. 90 \in Int
      OBVIOUS
    <2>2. Min({90, x}) <= 90 /\ Min({90, x}) <= x /\ Min({90, x}) \in {90, x}
      BY <1>7, <2>1, ExtremesOfTwo
    <2>3. Min({90, y}) \in {90, y}
      BY <1>7, <2>1, ExtremesOfTwo
    <2>4. QED
      BY <2>2, <2>3
  <1>9. Min({90, x}) <= Min({90, y})
    BY <1>7, <1>8
  <1>10. QED
    BY <1>3, <1>9 DEF x, y

-----------------------------------------------------------------------------
(* The picks *)

PassedInv ==
    /\ passed \subseteq Applicants /\ IsFiniteSet(passed)
    /\ \A c, d \in passed : c.symbol = d.symbol => c = d

LEMMA PassedAlways == ScoreSpec => []PassedInv
  <1>1. ScoreInit => PassedInv
    BY FS_EmptySet DEF ScoreInit, PassedInv
  <1>2. PassedInv /\ [ScoreNext]_passed => PassedInv'
    <2>1. SUFFICES ASSUME PassedInv, [ScoreNext]_passed PROVE PassedInv'
      OBVIOUS
    <2>2. CASE UNCHANGED passed
      BY <2>1, <2>2 DEF PassedInv
    <2>3. CASE ScoreNext
      <3>1. PICK c \in Applicants : Pass(c)
        BY <2>3 DEF ScoreNext
      <3>2. passed' = passed \cup {c} /\ \A x \in passed : x.symbol # c.symbol
        BY <3>1 DEF Pass
      <3>3. IsFiniteSet(passed')
        BY <2>1, <3>2, FS_AddElement DEF PassedInv
      <3>4. QED
        BY <2>1, <3>2, <3>3 DEF PassedInv
    <2>4. QED
      BY <2>1, <2>2, <2>3
  <1>3. QED
    BY <1>1, <1>2, PTL DEF ScoreSpec

LEMMA PassedAreRanked ==
    ASSUME PassedInv
    PROVE  /\ AreRanked(passed)
           /\ \A c \in passed : c.metrics \in Metrics /\ Score(c.metrics) \in 0 .. Hundred
           /\ Hundred \in Nat
  <1>1. Hundred \in Nat
    BY UnitPositive DEF Hundred
  <1>2. \A c \in passed : c.symbol \in Int /\ c.metrics \in Metrics
    BY ScoreAssumption DEF PassedInv
  <1>3. \A c \in passed : Score(c.metrics) \in 0 .. Hundred
    BY <1>2, ScoresInScale
  <1>4. \A x \in 0 .. Hundred : x \in Int
    BY <1>1
  <1>5. AreRanked(passed)
    BY <1>2, <1>3, <1>4 DEF PassedInv, AreRanked
  <1>6. QED
    BY <1>1, <1>2, <1>3, <1>5

\* The picks are the best the limits allow, by a score that never falls when a
\* candidate is stronger; a candidate that is added costs one other its place
\* at most; and the bands of the statistics follow the scores.
THEOREM BestArePicked == ScoreSpec => []PicksAreSound
  <1>1. ASSUME PassedInv PROVE StrongerScoresHigher
    <2>1. \A c \in passed : c.metrics \in Metrics /\ Score(c.metrics) \in 0 .. Hundred
      BY <1>1, PassedAreRanked
    <2>2. ASSUME NEW m \in Metrics, NEW n \in Metrics, m.atr = n.atr, m.rsi = n.rsi,
                 \A f \in {"signals", "volume", "adx", "value"} : m[f] <= n[f]
          PROVE  Score(m) <= Score(n)
      <3>1. /\ m.signals <= n.signals /\ m.volume <= n.volume
            /\ m.adx <= n.adx /\ m.value <= n.value
        BY <2>2
      <3>2. QED
        BY <2>2, <3>1, StrongerScores
    <2>3. QED
      BY <2>1, <2>2 DEF StrongerScoresHigher
  <1>2. ASSUME PassedInv PROVE PicksAreTheBest
    <2>1. AreRanked(passed)
      BY <1>2, PassedAreRanked
    <2>2. IsGreedy(passed, Choose(passed))
      BY <2>1, ChoiceIsGreedy
    <2>3. QED
      BY <2>1, <2>2, GreedyIsTheBest DEF PicksAreTheBest, InSector
  <1>3. ASSUME PassedInv PROVE OneInOneOut
    <2>1. AreRanked(passed)
      BY <1>3, PassedAreRanked
    <2>2. QED
      BY <2>1, OneInOneOutHolds DEF OneInOneOut
  <1>4. ASSUME PassedInv PROVE BandsFollowScores
    <2> DEFINE bands == ScoreBands(passed)
               S(c) == Score(c.metrics)
    <2>1. \A c \in passed : S(c) \in 0 .. Hundred /\ S(c) \in Int
      <3>1. \A c \in passed : S(c) \in 0 .. Hundred
        BY <1>4, PassedAreRanked
      <3>2. \A x \in 0 .. Hundred : x \in Int
        BY <1>4, PassedAreRanked
      <3> HIDE DEF S
      <3>3. QED
        BY <3>1, <3>2
    <2>2. DOMAIN bands = {BandLower(S(c)) : c \in passed}
      BY DEF ScoreBands
    <2>3. \A k \in DOMAIN bands : bands[k] = {c \in passed : BandLower(S(c)) = k}
      BY DEF ScoreBands
    <2> HIDE DEF bands, S
    <2>4. DOMAIN bands \subseteq {10 * i : i \in 0 .. 9}
      BY <2>1, <2>2, BandsAreTens
    <2>5. \A k \in {10 * i : i \in 0 .. 9} : k \in Int
      OBVIOUS
    <2>6. ASSUME NEW i \in DOMAIN bands, NEW j \in DOMAIN bands, i < j,
                 NEW c \in bands[i], NEW d \in bands[j]
          PROVE  S(c) < S(d)
      <3>1. /\ c \in passed /\ d \in passed
            /\ BandLower(S(c)) = i /\ BandLower(S(d)) = j
        BY <2>3
      <3>2. i \in Int /\ j \in Int
        BY <2>4, <2>5
      <3>3. S(d) <= S(c) => j <= i
        BY <2>1, <3>1, BandsRise
      <3>4. QED
        BY <2>1, <2>6, <3>1, <3>2, <3>3
    <2>7. QED
      BY <2>4, <2>6 DEF BandsFollowScores, bands, S
  <1>5. PassedInv => PicksAreSound
    BY <1>1, <1>2, <1>3, <1>4 DEF PicksAreSound
  <1>6. QED
    BY <1>5, PassedAlways, PTL

-----------------------------------------------------------------------------
(* Signal performance: the returns                                         *)

SignalTypes ==
    /\ bar \in Seq(SUBSET SignalPrices)
    /\ IsFiniteSet(signals)
    /\ signals \subseteq [day : 1 .. Len(bar), shape : SignalShapes]

LEMMA SignalsAreTyped == SignalSpec => []SignalTypes
  <1>1. SignalInit => SignalTypes
    BY FS_EmptySet DEF SignalInit, SignalTypes
  <1>2. ASSUME SignalTypes, [SignalNext]_signalVars
        PROVE  SignalTypes'
    <2>1. Len(bar) \in Nat
      BY <1>2 DEF SignalTypes
    <2>2. ASSUME NEW price \in SUBSET SignalPrices, SignalDay(price)
          PROVE  SignalTypes'
      <3>1. bar' \in Seq(SUBSET SignalPrices) /\ Len(bar') = Len(bar) + 1 /\ signals' = signals
        BY <1>2, <2>2 DEF SignalDay, SignalTypes
      <3>2. 1 .. Len(bar) \subseteq 1 .. Len(bar')
        BY <2>1, <3>1
      <3>3. QED
        BY <1>2, <3>1, <3>2 DEF SignalTypes
    <2>3. ASSUME NEW shape \in SignalShapes, StoreSignal(shape)
          PROVE  SignalTypes'
      <3>1. /\ bar' = bar /\ SignalToday \in 1 .. Len(bar)
            /\ signals' = signals \cup {[day |-> SignalToday, shape |-> shape]}
        BY <2>1, <2>3 DEF StoreSignal, SignalToday
      <3>2. IsFiniteSet(signals')
        BY <1>2, <3>1, FS_AddElement DEF SignalTypes
      <3>3. QED
        BY <1>2, <3>1, <3>2 DEF SignalTypes
    <2>4. CASE UNCHANGED signalVars
      BY <1>2, <2>4 DEF SignalTypes, signalVars
    <2>5. QED
      BY <1>2, <2>2, <2>3, <2>4 DEF SignalNext
  <1>3. QED
    BY <1>1, <1>2, PTL DEF SignalSpec

\* The days and the prices of a symbol's bars b that a signal is judged by.
DaysOf(b, s, to) ==
    {d \in 1 .. Len(b) : s.day <= d /\ d <= to + LookAhead /\ b[d] # {}}

PriceIn(b, d) == CHOOSE x \in b[d] : TRUE

PricesOf(b, s, to) ==
    LET days == DaysOf(b, s, to)
        Nth(i) == CHOOSE d \in days : Cardinality({e \in days : e < d}) = i - 1
    IN  [i \in 1 .. Cardinality(days) |-> PriceIn(b, Nth(i))]

\* P are the prices of the days, in order: the place of a day's price is the
\* number of days before it, and one.
AreInOrder(P, b, days) ==
    /\ IsFiniteSet(days) /\ Cardinality(days) \in Nat
    /\ P \in [1 .. Cardinality(days) -> SignalPrices]
    /\ \A i \in 1 .. Cardinality(days) : \E d \in days :
         Cardinality({e \in days : e < d}) = i - 1 /\ P[i] = PriceIn(b, d)
    /\ \A d \in days : P[Cardinality({e \in days : e < d}) + 1] = PriceIn(b, d)

LEMMA PricesInOrder ==
    ASSUME NEW b \in Seq(SUBSET SignalPrices), NEW s, NEW to
    PROVE  AreInOrder(PricesOf(b, s, to), b, DaysOf(b, s, to))
  <1> DEFINE days == DaysOf(b, s, to)
             n == Cardinality(days)
             P == PricesOf(b, s, to)
             Less(d) == Cardinality({e \in days : e < d})
             R == {p \in days \X days : p[1] < p[2]}
             Nth(i) == CHOOSE d \in days : Less(d) = i - 1
             nth == InOrderOf(R, days)
  <1>1. /\ days \in SUBSET (1 .. Len(b)) /\ Len(b) \in Nat
        /\ \A d \in days : d \in Int /\ b[d] \in SUBSET SignalPrices /\ b[d] # {}
    BY DEF DaysOf
  <1>2. IsFiniteSet(days)
    <2>1. IsFiniteSet(1 .. Len(b))
      BY <1>1, FS_Interval
    <2> HIDE DEF days
    <2>2. QED
      BY <1>1, <2>1, FS_Subset
  <1>3. \A d \in days : PriceIn(b, d) \in SignalPrices
    BY <1>1 DEF PriceIn
  <1>4. P = [i \in 1 .. n |-> PriceIn(b, Nth(i))]
    BY DEF PricesOf
  <1> HIDE DEF days, P
  <1>5. IsOrder(R, days)
    <2>1. \A x, y \in days : <<x, y>> \in R <=> x < y
      OBVIOUS
    <2> HIDE DEF R
    <2>2. QED
      BY <1>1, <2>1 DEF IsOrder
  <1>6. \A d \in days : RankIn(R, days, d) = Less(d)
    <2>1. TAKE d \in days
    <2>2. {e \in days : <<e, d>> \in R} = {e \in days : e < d}
      OBVIOUS
    <2> HIDE DEF R
    <2>3. QED
      BY <2>2 DEF RankIn
  <1> HIDE DEF R, Less
  <1>7. /\ n \in Nat /\ nth \in [1 .. n -> days]
        /\ \A k \in 1 .. n : RankIn(R, days, nth[k]) = k - 1
        /\ \A x \in days : RankIn(R, days, x) + 1 \in 1 .. n /\ nth[RankIn(R, days, x) + 1] = x
    BY <1>2, <1>5, MembersInOrder
  <1> HIDE DEF nth, n
  <1>8. /\ \A k \in 1 .. n : nth[k] \in days /\ Less(nth[k]) = k - 1
        /\ \A d \in days : Less(d) + 1 \in 1 .. n /\ nth[Less(d) + 1] = d
    BY <1>6, <1>7
  <1>9. \A k \in 1 .. n : Nth(k) = nth[k]
    <2>1. TAKE k \in 1 .. n
    <2>2. Nth(k) \in days /\ Less(Nth(k)) = k - 1
      BY <1>8
    <2> HIDE DEF Nth
    <2>3. nth[Less(Nth(k)) + 1] = Nth(k) /\ (k - 1) + 1 = k
      BY <1>8, <2>2
    <2>4. QED
      BY <2>2, <2>3
  <1>9a. P = [k \in 1 .. n |-> PriceIn(b, nth[k])]
    <2> HIDE DEF Nth
    <2>1. QED
      BY <1>4, <1>9 DEF n
  <1> HIDE DEF Nth
  <1>10. P \in [1 .. n -> SignalPrices]
    BY <1>3, <1>8, <1>9a
  <1>11. \A i \in 1 .. n : \E d \in days : Less(d) = i - 1 /\ P[i] = PriceIn(b, d)
    BY <1>8, <1>9a
  <1>12. \A d \in days : P[Less(d) + 1] = PriceIn(b, d)
    BY <1>8, <1>9a
  <1>13. AreInOrder(P, b, days)
    BY <1>2, <1>7, <1>10, <1>11, <1>12 DEF AreInOrder, n, Less
  <1>14. QED
    BY <1>13 DEF days, P

\* More bars behind those there are, and a later end, only make the series longer.
LEMMA PricesOnlyGrow ==
    ASSUME NEW b \in Seq(SUBSET SignalPrices), NEW c \in Seq(SUBSET SignalPrices),
           Len(b) <= Len(c), \A d \in 1 .. Len(b) : c[d] = b[d],
           NEW s, NEW to \in Int, to <= Len(b), NEW later \in Int, to <= later
    PROVE  LET P == PricesOf(b, s, to)
               Q == PricesOf(c, s, later)
           IN  Len(P) \in Nat /\ Len(Q) \in Nat /\ Len(P) <= Len(Q) /\ \A i \in 1 .. Len(P) : Q[i] = P[i]
  <1> DEFINE D == DaysOf(b, s, to)
             E == DaysOf(c, s, later)
             P == PricesOf(b, s, to)
             Q == PricesOf(c, s, later)
  <1>1. Len(b) \in Nat /\ Len(c) \in Nat
    OBVIOUS
  <1>2. D \subseteq E
    BY <1>1, SignalAssumption DEF DaysOf
  <1>3. \A d \in D : {e \in E : e < d} = {e \in D : e < d} /\ PriceIn(c, d) = PriceIn(b, d)
    <2>1. TAKE d \in D
    <2>2. d \in 1 .. Len(b) /\ s.day <= d /\ d <= to + LookAhead
      BY DEF DaysOf
    <2>3. ASSUME NEW e \in E, e < d PROVE e \in D
      <3>1. e \in 1 .. Len(c) /\ s.day <= e /\ c[e] # {}
        BY <2>3 DEF DaysOf
      <3>2. e \in 1 .. Len(b) /\ e <= to + LookAhead
        BY <1>1, <2>2, <2>3, <3>1, SignalAssumption
      <3>3. QED
        BY <3>1, <3>2 DEF DaysOf
    <2>4. {e \in E : e < d} = {e \in D : e < d}
      BY <1>2, <2>3
    <2>5. QED
      BY <2>2, <2>4 DEF PriceIn
  <1>4. AreInOrder(P, b, D) /\ AreInOrder(Q, c, E)
    BY PricesInOrder
  <1> HIDE DEF D, E, P, Q
  <1>5. Cardinality(D) <= Cardinality(E)
    <2>1. IsFiniteSet(E)
      BY <1>4 DEF AreInOrder
    <2>2. QED
      BY <1>2, <2>1, FS_Subset
  <1>6. Len(P) = Cardinality(D) /\ Len(Q) = Cardinality(E) /\ Len(P) \in Nat /\ Len(Q) \in Nat
    BY <1>4 DEF AreInOrder
  <1>7. ASSUME NEW i \in 1 .. Len(P) PROVE Q[i] = P[i]
    <2>1. PICK d \in D : Cardinality({e \in D : e < d}) = i - 1 /\ P[i] = PriceIn(b, d)
      BY <1>4, <1>6, <1>7 DEF AreInOrder
    <2>2. Cardinality({e \in E : e < d}) = i - 1
      BY <1>3, <2>1
    <2>3. i = (i - 1) + 1
      BY <1>6
    <2>4. Q[i] = PriceIn(c, d)
      BY <1>2, <1>4, <2>2, <2>3 DEF AreInOrder
    <2>5. QED
      BY <1>3, <2>1, <2>4
  <1>8. QED
    BY <1>5, <1>6, <1>7 DEF P, Q

\* There is a return when there is a base price and the horizon's bar is in.
Judged(P, h) == P # <<>> /\ P[1] # 0 /\ h < Len(P)

ReturnOf(P, action, h) ==
    LET r == FDiv(P[h + 1], P[1]) - Unit IN IF action = "Sell" THEN -r ELSE r

LEMMA KnownReturns ==
    ASSUME NEW P, Len(P) \in Nat, NEW h \in SignalHorizons, NEW action
    PROVE  /\ (\E r \in ForwardReturns(P, action) : r[h] # {}) <=> Judged(P, h)
           /\ Judged(P, h) =>
                (CHOOSE x \in (CHOOSE r \in ForwardReturns(P, action) : TRUE)[h] : TRUE)
                    = ReturnOf(P, action, h)
  <1>1. h \in Nat
    BY SignalAssumption
  <1> DEFINE f == [k \in SignalHorizons |-> IF k >= Len(P) THEN {} ELSE {ReturnOf(P, action, k)}]
  <1>2. ForwardReturns(P, action) = IF P = <<>> \/ P[1] = 0 THEN {} ELSE {f}
    BY DEF ForwardReturns, ReturnOf
  <1>3. f[h] = IF h < Len(P) THEN {ReturnOf(P, action, h)} ELSE {}
    BY <1>1
  <1> HIDE DEF f
  <1>4. QED
    BY <1>2, <1>3 DEF Judged

\* A return once given for a signal is given ever after, whatever is stored and
\* whichever range is asked for (ForwardReturns: the base price is that of the
\* first bar from the signal's day on, and a bar's place is counted from it).
THEOREM GivenReturnsStay == SignalSpec => ReturnsAreFinal
  <1> DEFINE Kept(s, h, to, later) ==
                LET was == Known({s}, h, to)
                IN  s \in DOMAIN was => Known({s}, h, later)'[s] = was[s]
             A == signalVars' # signalVars =>
                    \A s \in signals : \A h \in SignalHorizons : \A to \in s.day .. SignalToday :
                        \A later \in to .. SignalToday' : Kept(s, h, to, later)
  <1>1. ASSUME SignalTypes, SignalTypes', [SignalNext]_signalVars
        PROVE  A
    <2>1. Len(bar) \in Nat /\ Len(bar') \in Nat
      BY <1>1 DEF SignalTypes
    <2>2. Len(bar) <= Len(bar') /\ \A d \in 1 .. Len(bar) : bar'[d] = bar[d]
      <3>1. CASE \E price : bar' = Append(bar, price)
        BY <1>1, <3>1 DEF SignalTypes
      <3>2. CASE bar' = bar
        BY <2>1, <3>2
      <3>3. QED
        BY <1>1, <3>1, <3>2 DEF SignalNext, SignalDay, StoreSignal, signalVars
    <2>3. ASSUME NEW s \in signals, NEW h \in SignalHorizons, NEW to \in s.day .. SignalToday,
                 NEW later \in to .. SignalToday'
          PROVE  Kept(s, h, to, later)
      <3> DEFINE P == PricesOf(bar, s, to)
                 Q == PricesOf(bar', s, later)
      <3>1. s.day \in Int /\ SignalToday = Len(bar) /\ SignalToday' = Len(bar')
        BY <1>1, <2>1 DEF SignalTypes, SignalToday
      <3>2. to \in Int /\ to <= Len(bar) /\ later \in Int /\ to <= later
        BY <2>1, <3>1
      <3>3. PricesFrom(s, to) = P
        BY DEF PricesFrom, DaysFrom, PriceOf, PricesOf, DaysOf, PriceIn, SignalToday
      <3>4. PricesFrom(s, later)' = Q
        BY DEF PricesFrom, DaysFrom, PriceOf, PricesOf, DaysOf, PriceIn, SignalToday
      <3>5. Len(P) \in Nat /\ Len(Q) \in Nat /\ Len(P) <= Len(Q) /\ \A i \in 1 .. Len(P) : Q[i] = P[i]
        <4>1. bar \in Seq(SUBSET SignalPrices) /\ bar' \in Seq(SUBSET SignalPrices)
          BY <1>1 DEF SignalTypes
        <4>2. QED
          BY <2>2, <3>2, <4>1, PricesOnlyGrow
      <3>6. (s \in DOMAIN Known({s}, h, to) <=> Judged(P, h))
            /\ (Judged(P, h) => Known({s}, h, to)[s] = ReturnOf(P, s.shape.action, h))
        <4> HIDE DEF P
        <4> DEFINE F == ForwardReturns(P, s.shape.action)
        <4>1. Returns(s, to) = F
          BY <3>3 DEF Returns
        <4>2. /\ (\E r \in F : r[h] # {}) <=> Judged(P, h)
              /\ Judged(P, h) => (CHOOSE x \in (CHOOSE r \in F : TRUE)[h] : TRUE)
                                   = ReturnOf(P, s.shape.action, h)
          BY <3>5, KnownReturns
        <4> HIDE DEF F
        <4>3. Known({s}, h, to) =
                [t \in {t \in {s} : \E r \in Returns(t, to) : r[h] # {}} |->
                    CHOOSE x \in (CHOOSE r \in Returns(t, to) : TRUE)[h] : TRUE]
          BY DEF Known
        <4>4. QED
          BY <4>1, <4>2, <4>3
      <3>7. (s \in DOMAIN Known({s}, h, later)' <=> Judged(Q, h))
            /\ (Judged(Q, h) => Known({s}, h, later)'[s] = ReturnOf(Q, s.shape.action, h))
        <4> HIDE DEF Q
        <4> DEFINE F == ForwardReturns(Q, s.shape.action)
        <4>1. Returns(s, later)' = F
          BY <3>4 DEF Returns
        <4>2. /\ (\E r \in F : r[h] # {}) <=> Judged(Q, h)
              /\ Judged(Q, h) => (CHOOSE x \in (CHOOSE r \in F : TRUE)[h] : TRUE)
                                   = ReturnOf(Q, s.shape.action, h)
          BY <3>5, KnownReturns
        <4> HIDE DEF F
        <4>3. Known({s}, h, later)' =
                [t \in {t \in {s} : \E r \in Returns(t, later)' : r[h] # {}} |->
                    CHOOSE x \in (CHOOSE r \in Returns(t, later)' : TRUE)[h] : TRUE]
          BY DEF Known
        <4>4. QED
          BY <4>1, <4>2, <4>3
      <3> HIDE DEF P, Q
      <3>8. Judged(P, h) => Judged(Q, h) /\ ReturnOf(Q, s.shape.action, h) = ReturnOf(P, s.shape.action, h)
        <4>1. SUFFICES ASSUME Judged(P, h)
                       PROVE  Judged(Q, h) /\ Q[h + 1] = P[h + 1] /\ Q[1] = P[1]
          BY DEF ReturnOf
        <4>2. h \in Nat /\ h < Len(P) /\ P[1] # 0
          BY <4>1, SignalAssumption DEF Judged
        <4>3. 1 \in 1 .. Len(P) /\ h + 1 \in 1 .. Len(P) /\ h < Len(Q) /\ Len(Q) # 0
          BY <3>5, <4>2
        <4>4. QED
          BY <3>5, <4>2, <4>3 DEF Judged
      <3>9. QED
        BY <3>6, <3>7, <3>8
    <2>4. QED
      BY <2>3
  <1>2. SignalSpec => []SignalTypes
    BY SignalsAreTyped
  <1>3. QED
    BY <1>1, <1>2, PTL DEF SignalSpec, ReturnsAreFinal

-----------------------------------------------------------------------------
(* Signal performance: the summaries                                       *)

\* Rounding does not leave the numbers the quotient is between.
LEMMA RoundDivBetween ==
    ASSUME NEW a \in Int, NEW n \in Nat \ {0}, NEW k \in Int
    PROVE  /\ n * k <= a => k <= RoundDiv(a, n)
           /\ a <= n * k => RoundDiv(a, n) <= k
  <1>1. n * k \in Int /\ n * k = k * n /\ RoundDiv(a, n) \in Int
    BY RoundDivType
  <1>2. CASE a >= 0
    <2>1. a \in Nat /\ RoundDiv(a, n) >= 0
      BY <1>2, RoundedQuotient
    <2>2. CASE k >= 0
      <3>1. k \in Nat
        BY <2>2
      <3>2. QED
        BY <1>1, <2>1, <3>1, RoundDivBounds
    <2>3. CASE k < 0
      <3>1. n * k < 0
        BY <2>3
      <3>2. QED
        BY <1>1, <1>2, <2>1, <2>3, <3>1
    <2>4. QED
      BY <2>2, <2>3
  <1>3. CASE a < 0
    <2> DEFINE c == -a
               m == -k
    <2>1. c \in Nat /\ m \in Int /\ RoundDiv(c, n) \in Nat /\ RoundDiv(a, n) = -RoundDiv(c, n)
      <3>1. c \in Nat /\ -c = a
        BY <1>3
      <3> HIDE DEF c
      <3>2. RoundDiv(c, n) \in Nat /\ RoundDiv(-c, n) = -RoundDiv(c, n)
        BY <3>1, RoundedQuotient
      <3>3. QED
        BY <3>1, <3>2
    <2>2. m * n = -(n * k)
      BY <1>1
    <2>3. /\ n * k <= a <=> c <= m * n
          /\ a <= n * k <=> m * n <= c
      BY <1>1, <2>2
    <2>4. /\ k <= RoundDiv(a, n) <=> RoundDiv(c, n) <= m
          /\ RoundDiv(a, n) <= k <=> m <= RoundDiv(c, n)
      BY <2>1
    <2>5. /\ c <= m * n => RoundDiv(c, n) <= m
          /\ m * n <= c => m <= RoundDiv(c, n)
      <3>1. CASE m >= 0
        <4>1. m \in Nat
          BY <2>1, <3>1
        <4> HIDE DEF m, c
        <4>2. QED
          BY <2>1, <4>1, RoundDivBounds
      <3>2. CASE m < 0
        <4>1. m * n < 0
          BY <3>2
        <4> HIDE DEF m, c
        <4>2. QED
          BY <1>1, <2>1, <3>2, <4>1
      <3>3. QED
        BY <2>1, <3>1, <3>2
    <2>6. QED
      BY <2>3, <2>4, <2>5
  <1>4. QED
    BY <1>2, <1>3

\* The i-th smallest value of r, with less than i smaller ones and at least i that
\* are not larger.
AtMostAs(r, D, v) == Cardinality({s \in D : r[s] <= v})
LessThan(r, D, v) == Cardinality({s \in D : r[s] < v})

LEMMA NthExists ==
    ASSUME NEW D, IsFiniteSet(D), NEW r \in [D -> Int], NEW i \in 1 .. Cardinality(D)
    PROVE  \E v \in {r[s] : s \in D} : LessThan(r, D, v) < i /\ i <= AtMostAs(r, D, v)
  <1> DEFINE V == {r[s] : s \in D}
             T == {v \in V : i <= AtMostAs(r, D, v)}
  <1>1. Cardinality(D) \in Nat /\ i \in Nat /\ 1 <= i /\ i <= Cardinality(D)
    BY FS_CardinalityType
  <1>2. IsFiniteSet(V) /\ V \subseteq Int
    BY ValuesAreFinite
  <1>3. V # {}
    <2>1. D # {}
      BY <1>1, FS_EmptySet
    <2>2. QED
      BY <2>1
  <1>4. \A v \in Int : LessThan(r, D, v) \in Nat /\ AtMostAs(r, D, v) \in Nat
    <2>1. TAKE v \in Int
    <2>2. /\ {s \in D : r[s] <= v} \in SUBSET D
          /\ {s \in D : r[s] < v} \in SUBSET D
      OBVIOUS
    <2>3. QED
      BY <2>2, FS_Subset, FS_CardinalityType DEF LessThan, AtMostAs
  <1>5. Max(V) \in T
    <2> HIDE DEF V
    <2>1. Max(V) \in V /\ \A x \in V : x <= Max(V)
      BY <1>2, <1>3, LeastAndLargest
    <2>2. {s \in D : r[s] <= Max(V)} = D
      BY <2>1 DEF V
    <2>3. i <= AtMostAs(r, D, Max(V))
      BY <1>1, <2>2 DEF AtMostAs
    <2>4. QED
      BY <2>1, <2>3
  <1>6. IsFiniteSet(T) /\ T \subseteq V
    BY <1>2, FS_Subset
  <1> DEFINE v == Min(T)
  <1>7. v \in T /\ \A x \in T : v <= x
    <2> HIDE DEF T
    <2>1. T \subseteq Int /\ T # {}
      BY <1>2, <1>5, <1>6
    <2>2. QED
      BY <1>6, <2>1, LeastAndLargest
  <1> HIDE DEF v
  <1>8. v \in V /\ v \in Int /\ i <= AtMostAs(r, D, v)
    BY <1>2, <1>7
  <1>9. LessThan(r, D, v) < i
    <2> DEFINE W == {x \in V : x < v}
    <2>1. CASE W = {}
      <3>1. {s \in D : r[s] < v} = {}
        BY <2>1
      <3>2. LessThan(r, D, v) = 0
        BY <3>1, FS_EmptySet DEF LessThan
      <3>3. QED
        BY <1>1, <3>2
    <2>2. CASE W # {}
      <3>1. IsFiniteSet(W) /\ W \subseteq Int
        BY <1>2, FS_Subset
      <3> DEFINE u == Max(W)
      <3>2. u \in W /\ \A x \in W : x <= u
        <4> HIDE DEF W
        <4>1. QED
          BY <2>2, <3>1, LeastAndLargest
      <3> HIDE DEF u
      <3>3. u \in V /\ u < v /\ u \in Int
        BY <3>1, <3>2
      <3>4. \A s \in D : r[s] \in V /\ r[s] \in Int
        OBVIOUS
      <3>5. {s \in D : r[s] < v} = {s \in D : r[s] <= u}
        <4>1. \A x \in V : x < v => x <= u
          BY <3>2
        <4>2. \A x \in V : x <= u => x < v
          BY <1>2, <1>8, <3>3
        <4> HIDE DEF V
        <4>3. QED
          BY <3>4, <4>1, <4>2
      <3>6. LessThan(r, D, v) = AtMostAs(r, D, u)
        BY <3>5 DEF LessThan, AtMostAs
      <3>7. u \notin T
        <4> HIDE DEF T
        <4>1. QED
          BY <1>7, <1>8, <3>3
      <3>8. ~(i <= AtMostAs(r, D, u))
        BY <3>3, <3>7
      <3>9. QED
        BY <1>1, <1>4, <3>3, <3>6, <3>8
    <2>3. QED
      BY <2>1, <2>2
  <1>10. QED
    BY <1>8, <1>9

\* The figures of returns: their number, how many were gains, and a median and
\* an average between the worst and the best.
InOrderFigures(f, n) ==
    /\ f.n = n /\ f.wins <= n
    /\ 2 * f.worst <= f.median /\ f.median <= 2 * f.best
    /\ f.worst <= f.average /\ f.average <= f.best

LEMMA HorizonInOrder ==
    ASSUME NEW D, IsFiniteSet(D), NEW r \in [D -> Int]
    PROVE  InOrderFigures(HorizonStats(r), Cardinality(D))
  <1> DEFINE n == Cardinality(D)
             V == {r[s] : s \in D}
             Nth(i) == CHOOSE v \in V : LessThan(r, D, v) < i /\ i <= AtMostAs(r, D, v)
             wins == Cardinality({s \in D : r[s] > 0})
             median == IF n % 2 = 0 THEN Nth(n \div 2) + Nth(n \div 2 + 1)
                       ELSE 2 * Nth((n + 1) \div 2)
             f == HorizonStats(r)
  <1>1. n \in Nat /\ DOMAIN r = D
    BY FS_CardinalityType
  <1>2. f = IF n = 0 THEN [n |-> 0, wins |-> 0, average |-> 0, median |-> 0, best |-> 0, worst |-> 0]
            ELSE [n |-> n, wins |-> wins, average |-> RoundDiv(SumBy(r, D), n),
                  median |-> median, best |-> Max(V), worst |-> Min(V)]
    BY <1>1 DEF HorizonStats, LessThan, AtMostAs, SumBy
  <1> HIDE DEF f
  <1>3. CASE n = 0
    BY <1>2, <1>3 DEF InOrderFigures, f
  <1>4. CASE n # 0
    <2>1. wins <= n
      <3>1. {s \in D : r[s] > 0} \in SUBSET D
        OBVIOUS
      <3>2. QED
        BY <3>1, FS_Subset
    <2>2. IsFiniteSet(V) /\ V # {} /\ V \subseteq Int
      <3>1. D # {}
        BY <1>4, FS_EmptySet
      <3>2. IsFiniteSet(V)
        BY ValuesAreFinite
      <3>3. QED
        BY <3>1, <3>2
    <2>3. /\ Min(V) \in Int /\ Max(V) \in Int
          /\ \A x \in V : x \in Int /\ Min(V) <= x /\ x <= Max(V)
      <3> HIDE DEF V
      <3>1. QED
        BY <2>2, LeastAndLargest
    <2>4. \A i \in 1 .. n : Nth(i) \in V
      <3>1. TAKE i \in 1 .. n
      <3>2. \E v \in V : LessThan(r, D, v) < i /\ i <= AtMostAs(r, D, v)
        BY NthExists
      <3> HIDE DEF V
      <3>3. QED
        BY <3>2
    <2> HIDE DEF Nth
    <2>5. 2 * Min(V) <= median /\ median <= 2 * Max(V)
      <3> HIDE DEF V, n
      <3>1. CASE n % 2 = 0
        <4>1. n \div 2 \in 1 .. n /\ n \div 2 + 1 \in 1 .. n
          BY <1>1, <1>4, <3>1
        <4>2. Nth(n \div 2) \in V /\ Nth(n \div 2 + 1) \in V
          BY <2>4, <4>1
        <4>3. median = Nth(n \div 2) + Nth(n \div 2 + 1)
          BY <3>1
        <4> HIDE DEF median
        <4>4. QED
          BY <2>3, <4>2, <4>3
      <3>2. CASE n % 2 # 0
        <4>1. (n + 1) \div 2 \in 1 .. n
          BY <1>1, <1>4, <3>2
        <4>2. Nth((n + 1) \div 2) \in V
          BY <2>4, <4>1
        <4>3. median = 2 * Nth((n + 1) \div 2)
          BY <3>2
        <4> HIDE DEF median
        <4>4. QED
          BY <2>3, <4>2, <4>3
      <3>3. QED
        BY <3>1, <3>2
    <2>6. Min(V) <= RoundDiv(SumBy(r, D), n) /\ RoundDiv(SumBy(r, D), n) <= Max(V)
      <3>1. \A s \in D : r[s] \in V
        OBVIOUS
      <3> HIDE DEF V
      <3>2. /\ SumBy(r, D) \in Int
            /\ n * Min(V) <= SumBy(r, D) /\ SumBy(r, D) <= n * Max(V)
        BY <2>3, <3>1, SumBetween
      <3>3. QED
        BY <1>1, <1>4, <2>3, <3>2, RoundDivBetween
    <2> HIDE DEF V, n, median, wins
    <2>7. f = [n |-> n, wins |-> wins, average |-> RoundDiv(SumBy(r, D), n),
               median |-> median, best |-> Max(V), worst |-> Min(V)]
      BY <1>2, <1>4
    <2>8. InOrderFigures(f, n)
      BY <2>1, <2>5, <2>6, <2>7 DEF InOrderFigures
    <2>9. QED
      BY <2>8 DEF f, n
  <1>5. QED
    BY <1>3, <1>4

\* The returns known at a horizon are numbers, of signals that are not skipped.
LEMMA KnownAreNumbers ==
    ASSUME SignalTypes, NEW sigs \in SUBSET signals, NEW h \in SignalHorizons, NEW to
    PROVE  /\ Known(sigs, h, to) \in [DOMAIN Known(sigs, h, to) -> Int]
           /\ DOMAIN Known(sigs, h, to) \subseteq {s \in sigs : Returns(s, to) # {}}
  <1> DEFINE D == {s \in sigs : \E r \in Returns(s, to) : r[h] # {}}
             value(s) == CHOOSE x \in (CHOOSE r \in Returns(s, to) : TRUE)[h] : TRUE
  <1>1. Known(sigs, h, to) = [s \in D |-> value(s)]
    BY DEF Known
  <1>2. ASSUME NEW s \in D PROVE value(s) \in Int
    <2> DEFINE P == PricesOf(bar, s, to)
    <2>1. PricesFrom(s, to) = P
      BY DEF PricesFrom, DaysFrom, PriceOf, PricesOf, DaysOf, PriceIn, SignalToday
    <2>2. AreInOrder(P, bar, DaysOf(bar, s, to))
      BY PricesInOrder DEF SignalTypes
    <2> HIDE DEF P
    <2>3. Len(P) \in Nat /\ \A i \in 1 .. Len(P) : P[i] \in Nat
      <3> DEFINE n == Cardinality(DaysOf(bar, s, to))
      <3>1. n \in Nat /\ P \in [1 .. n -> SignalPrices]
        BY <2>2 DEF AreInOrder
      <3> HIDE DEF n
      <3>2. Len(P) = n /\ P \in Seq(SignalPrices)
        BY <3>1
      <3>3. SignalPrices \subseteq Nat
        BY SignalAssumption
      <3>4. QED
        BY <3>1, <3>2, <3>3
    <2> DEFINE F == ForwardReturns(P, s.shape.action)
    <2>4. Returns(s, to) = F
      BY <2>1 DEF Returns
    <2>5. /\ (\E r \in F : r[h] # {}) <=> Judged(P, h)
          /\ Judged(P, h) => (CHOOSE x \in (CHOOSE r \in F : TRUE)[h] : TRUE)
                               = ReturnOf(P, s.shape.action, h)
      BY <2>3, KnownReturns
    <2> HIDE DEF F
    <2>6. Judged(P, h) /\ value(s) = ReturnOf(P, s.shape.action, h)
      BY <2>4, <2>5
    <2>7. P[h + 1] \in Nat /\ P[1] \in Nat \ {0} /\ Unit \in Nat
      BY <2>3, <2>6, SignalAssumption, UnitPositive DEF Judged
    <2>8. FDiv(P[h + 1], P[1]) \in Int
      <3>1. P[h + 1] * Unit \in Int
        BY <2>7
      <3>2. QED
        BY <2>7, <3>1, RoundDivType DEF FDiv
    <2>9. ReturnOf(P, s.shape.action, h) \in Int
      <3> DEFINE q == FDiv(P[h + 1], P[1])
      <3>1. q \in Int
        BY <2>8
      <3> HIDE DEF q
      <3>2. q - Unit \in Int /\ -(q - Unit) \in Int
        BY <2>7, <3>1
      <3>3. ReturnOf(P, s.shape.action, h) = IF s.shape.action = "Sell" THEN -(q - Unit) ELSE q - Unit
        BY DEF ReturnOf, q
      <3>4. QED
        BY <3>2, <3>3
    <2> HIDE DEF value
    <2>10. QED
      BY <2>6, <2>9
  <1> HIDE DEF value
  <1>3. D \subseteq {s \in sigs : Returns(s, to) # {}}
    OBVIOUS
  <1> HIDE DEF D
  <1>4. QED
    BY <1>1, <1>2, <1>3

LEMMA FiguresHold == SignalTypes => FiguresInOrder
  <1>1. SUFFICES ASSUME SignalTypes PROVE FiguresInOrder
    OBVIOUS
  <1> DEFINE to == SignalToday
             Mine(m) == {s \in signals : s.shape.method = m}
             Skipped(m) == {s \in Mine(m) : Returns(s, to) = {}}
  <1>2. ASSUME NEW m \in {s.shape.method : s \in signals}, NEW h \in SignalHorizons
        PROVE  LET f == HorizonStats(Known(Mine(m), h, to))
                   k == Cardinality(Mine(m)) - Cardinality(Skipped(m))
               IN  /\ f.n <= k /\ f.wins <= f.n
                   /\ 2 * f.worst <= f.median /\ f.median <= 2 * f.best
                   /\ f.worst <= f.average /\ f.average <= f.best
    <2> DEFINE r == Known(Mine(m), h, to)
               D == DOMAIN r
               Rest == {s \in Mine(m) : Returns(s, to) # {}}
    <2>1. r \in [D -> Int] /\ D \subseteq Rest
      <3>1. Mine(m) \in SUBSET signals
        OBVIOUS
      <3> HIDE DEF Mine
      <3>2. QED
        BY <1>1, <3>1, KnownAreNumbers
    <2>2. IsFiniteSet(Rest) /\ IsFiniteSet(Skipped(m))
      <3>1. Rest \in SUBSET signals /\ Skipped(m) \in SUBSET signals
        OBVIOUS
      <3> HIDE DEF Rest, Skipped
      <3>2. QED
        BY <1>1, <3>1, FS_Subset DEF SignalTypes
    <2>3. Mine(m) = Rest \cup Skipped(m) /\ Rest \cap Skipped(m) = {}
      OBVIOUS
    <2> HIDE DEF r, D, Rest, Skipped, Mine
    <2>4. /\ Cardinality(Mine(m)) = Cardinality(Rest) + Cardinality(Skipped(m))
          /\ Cardinality(Rest) \in Nat /\ Cardinality(Skipped(m)) \in Nat
      BY <2>2, <2>3, DisjointSizes
    <2>5. IsFiniteSet(D) /\ Cardinality(D) <= Cardinality(Rest) /\ Cardinality(D) \in Nat
      BY <2>1, <2>2, FS_Subset, FS_CardinalityType
    <2>6. InOrderFigures(HorizonStats(r), Cardinality(D))
      BY <2>1, <2>5, HorizonInOrder
    <2>7. QED
      BY <2>4, <2>5, <2>6 DEF InOrderFigures, r
  <1>3. \A m \in {s.shape.method : s \in signals} :
            /\ Summaries(to)[m].count = Cardinality(Mine(m))
            /\ Summaries(to)[m].skipped = Cardinality(Skipped(m))
            /\ \A h \in SignalHorizons : Summaries(to)[m].stats[h] = HorizonStats(Known(Mine(m), h, to))
    BY DEF Summaries, BandStats
  <1>4. DOMAIN Summaries(to) = {s.shape.method : s \in signals}
    BY DEF Summaries
  <1> HIDE DEF Mine, Skipped
  <1>5. QED
    BY <1>2, <1>3, <1>4 DEF FiguresInOrder

\* Every signal counts for one method.
LEMMA MethodsAddUp ==
    ASSUME SignalTypes
    PROVE  LET total == Summaries(SignalToday)
               counts == [m \in DOMAIN total |-> total[m].count]
           IN  MapThenSumSet(LAMBDA m : counts[m], DOMAIN counts) = Cardinality(signals)
  <1> DEFINE S == {s.shape.method : s \in signals}
             In(T) == {s \in signals : s.shape.method \in T}
             counts == [m \in S |-> Cardinality(In({m}))]
             G == [T \in SUBSET S |-> Cardinality(In(T))]
  <1>1. IsFiniteSet(signals)
    BY DEF SignalTypes
  <1>2. IsFiniteSet(S)
    <2> DEFINE F == [s \in signals |-> s.shape.method]
    <2>1. S = {F[s] : s \in signals}
      OBVIOUS
    <2> HIDE DEF F, S
    <2>2. QED
      BY <1>1, <2>1, ValuesAreFinite
  <1>3. /\ DOMAIN Summaries(SignalToday) = S
        /\ \A m \in S : Summaries(SignalToday)[m].count = counts[m]
    <2>1. \A m \in S : In({m}) = {s \in signals : s.shape.method = m}
      OBVIOUS
    <2> HIDE DEF In
    <2>2. QED
      BY <2>1 DEF Summaries
  <1>4. \A T : IsFiniteSet(In(T)) /\ Cardinality(In(T)) \in Nat
    <2>1. \A T : In(T) \in SUBSET signals
      OBVIOUS
    <2> HIDE DEF In
    <2>2. QED
      BY <1>1, <2>1, FS_Subset, FS_CardinalityType
  <1>5. AddsUp(G, S, counts)
    <2>1. G[{}] = 0
      <3>1. In({}) = {}
        OBVIOUS
      <3> HIDE DEF In
      <3>2. QED
        BY <3>1, FS_EmptySet
    <2>2. ASSUME NEW T \in SUBSET S, NEW m \in T
          PROVE  G[T] = counts[m] + G[T \ {m}]
      <3>1. In(T) = In({m}) \cup In(T \ {m}) /\ In({m}) \cap In(T \ {m}) = {}
        OBVIOUS
      <3> HIDE DEF In
      <3>2. Cardinality(In(T)) = Cardinality(In({m})) + Cardinality(In(T \ {m}))
        BY <1>4, <3>1, DisjointSizes
      <3>3. T \ {m} \in SUBSET S /\ m \in S
        OBVIOUS
      <3> HIDE DEF S
      <3>4. QED
        BY <3>2, <3>3
    <2>3. QED
      BY <2>1, <2>2 DEF AddsUp
  <1>6. G[S] = Cardinality(signals)
    <2>1. In(S) = signals
      OBVIOUS
    <2> HIDE DEF In, S
    <2>2. QED
      BY <2>1
  <1>7. [m \in DOMAIN Summaries(SignalToday) |-> Summaries(SignalToday)[m].count] = counts
    <2> HIDE DEF S, In
    <2>1. QED
      BY <1>3
  <1> HIDE DEF G, S, In
  <1>8. SumBy(counts, S) = G[S]
    BY <1>2, <1>5, SumByAddsUp
  <1> DEFINE c == [m \in DOMAIN Summaries(SignalToday) |-> Summaries(SignalToday)[m].count]
  <1>9. c = counts /\ DOMAIN c = S
    BY <1>3, <1>7
  <1> HIDE DEF c, counts
  <1>10. SumBy(c, DOMAIN c) = Cardinality(signals)
    BY <1>6, <1>8, <1>9
  <1>11. QED
    BY <1>10 DEF SumBy, c

\* Every rank is in one band.
LEMMA RankInOneBand ==
    ASSUME SignalTypes, NEW s \in signals, s.shape.rank # {}
    PROVE  Cardinality({i \in 1 .. 3 : s \in ByRankBand(i)}) = 1
  <1>1. PICK n \in s.shape.rank : TRUE
    OBVIOUS
  <1>2. n \in Nat \ {0} /\ \A x \in s.shape.rank : x = n
    BY <1>1, SignalAssumption DEF SignalTypes, AtMostOne
  <1>3. /\ InRankBand(n, 1) <=> n <= 3
        /\ InRankBand(n, 2) <=> 4 <= n /\ n <= 10
        /\ InRankBand(n, 3) <=> 11 <= n
    BY <1>2 DEF InRankBand, RankBands
  <1>4. \A i \in 1 .. 3 : s \in ByRankBand(i) <=>
            InRankBand(n, i) /\ \A j \in 1 .. i - 1 : ~InRankBand(n, j)
    BY <1>1, <1>2 DEF ByRankBand
  <1>5. PICK k \in 1 .. 3 : \A i \in 1 .. 3 : s \in ByRankBand(i) <=> i = k
    <2>1. CASE n <= 3
      BY <1>2, <1>3, <1>4, <2>1
    <2>2. CASE 4 <= n /\ n <= 10
      BY <1>2, <1>3, <1>4, <2>2
    <2>3. CASE 11 <= n
      BY <1>2, <1>3, <1>4, <2>3
    <2>4. QED
      BY <1>2, <2>1, <2>2, <2>3
  <1>6. {i \in 1 .. 3 : s \in ByRankBand(i)} = {k}
    BY <1>5
  <1>7. QED
    BY <1>6, FS_Singleton

\* The quarters follow one another from the first to the last position.
LEMMA QuartersFollow ==
    ASSUME NEW n \in Nat
    PROVE  /\ \A q \in 1 .. 4 : \A i \in QuartileBounds(q, n)[1] .. QuartileBounds(q, n)[2] : i \in 1 .. n
           /\ \A i \in 1 .. n : \E q \in 1 .. 4 : i \in QuartileBounds(q, n)[1] .. QuartileBounds(q, n)[2]
           /\ \A p, q \in 1 .. 4 : p < q =>
                \A i \in QuartileBounds(p, n)[1] .. QuartileBounds(p, n)[2],
                   j \in QuartileBounds(q, n)[1] .. QuartileBounds(q, n)[2] : i < j
  <1> DEFINE a == n \div 4
             b == (2 * n) \div 4
             c == (3 * n) \div 4
             lo(q) == QuartileBounds(q, n)[1]
             hi(q) == QuartileBounds(q, n)[2]
  <1>1. a \in Nat /\ b \in Nat /\ c \in Nat /\ a <= b /\ b <= c /\ c <= n
    OBVIOUS
  <1>2. /\ lo(1) = 1 /\ hi(1) = a /\ lo(2) = a + 1 /\ hi(2) = b
        /\ lo(3) = b + 1 /\ hi(3) = c /\ lo(4) = c + 1 /\ hi(4) = n
    BY DEF QuartileBounds
  <1> HIDE DEF a, b, c, lo, hi
  <1>3. \A q \in 1 .. 4 : \A i \in lo(q) .. hi(q) : i \in 1 .. n
    BY <1>1, <1>2
  <1>4. \A i \in 1 .. n : \E q \in 1 .. 4 : i \in lo(q) .. hi(q)
    <2>1. TAKE i \in 1 .. n
    <2>2. i \in lo(1) .. hi(1) \/ i \in lo(2) .. hi(2) \/ i \in lo(3) .. hi(3) \/ i \in lo(4) .. hi(4)
      BY <1>1, <1>2
    <2>3. QED
      BY <2>2
  <1>5. \A p, q \in 1 .. 4 : p < q => \A i \in lo(p) .. hi(p), j \in lo(q) .. hi(q) : i < j
    BY <1>1, <1>2
  <1>6. QED
    BY <1>3, <1>4, <1>5 DEF lo, hi

\* f lists the members of S once each, the lowest score first.
ListsByScore(f, n, S) ==
    /\ f \in [1 .. n -> S]
    /\ \A x \in S : \E k \in 1 .. n : f[k] = x
    /\ \A k, l \in 1 .. n : k < l => f[k] # f[l] /\ ScoreOf(f[k]) <= ScoreOf(f[l])

LEMMA SortedLists ==
    ASSUME SignalTypes
    PROVE  ListsByScore(SortedByScore, Cardinality(Scored), Scored)
  <1> DEFINE n == Cardinality(Scored)
             N == 1 .. n
             read == SetToSeq(Scored)
             Points(i) == ScoreOf(read[i])
             Before(j, i) == Points(j) < Points(i) \/ (Points(j) = Points(i) /\ j < i)
             R == {p \in N \X N : Before(p[1], p[2])}
             p == InOrderOf(R, N)
  <1>1. IsFiniteSet(Scored) /\ n \in Nat /\ \A s \in Scored : ScoreOf(s) \in Int
    <2>1. Scored \in SUBSET signals
      BY DEF Scored
    <2>2. IsFiniteSet(Scored)
      BY <2>1, FS_Subset DEF SignalTypes
    <2>3. ASSUME NEW s \in Scored PROVE ScoreOf(s) \in Int
      <3>1. s.shape \in SignalShapes /\ s.shape.score # {}
        BY DEF Scored, SignalTypes
      <3>2. QED
        BY <3>1, SignalAssumption DEF ScoreOf
    <2>4. QED
      BY <2>2, <2>3, FS_CardinalityType
  <1>2. IsFiniteSet(N) /\ Cardinality(N) = n
    BY <1>1, FS_Interval
  <1>3. /\ read \in [N -> Scored]
        /\ \A i, j \in N : read[i] = read[j] => i = j
        /\ \A s \in Scored : \E i \in N : read[i] = s
    <2>1. \E f \in [N -> Scored] : IsInjective(f)
      <3>1. PICK f \in Bijection(N, Scored) : TRUE
        BY <1>1, FS_CardinalityType DEF ExistsBijection
      <3>2. QED
        BY <3>1 DEF Bijection, Injection, IsInjective
    <2>2. read \in [N -> Scored] /\ IsInjective(read)
      BY <2>1 DEF SetToSeq
    <2> HIDE DEF read, N
    <2>3. read \in Injection(N, Scored)
      BY <2>2 DEF Injection, IsInjective
    <2>4. read \in Surjection(N, Scored)
      BY <1>1, <1>2, <2>3, FS_Injection DEF n
    <2>5. QED
      BY <2>3, <2>4 DEF Injection, IsInjective, Surjection
  <1>4. SortedByScore = [m \in N |-> read[CHOOSE i \in N : Cardinality({j \in N : Before(j, i)}) = m - 1]]
    <2>1. DOMAIN read = N
      BY <1>3
    <2>2. SortedByScore = [m \in DOMAIN read |-> read[CHOOSE i \in DOMAIN read :
                               Cardinality({j \in DOMAIN read : Before(j, i)}) = m - 1]]
      BY DEF SortedByScore
    <2> HIDE DEF read, N
    <2>3. QED
      BY <2>1, <2>2
  <1> HIDE DEF read
  <1>5. \A i \in N : Points(i) \in Int /\ i \in Int
    BY <1>1, <1>3
  <1>6. \A i, j \in N : <<j, i>> \in R <=> Before(j, i)
    OBVIOUS
  <1>7. IsOrder(R, N)
    <2> HIDE DEF R, N, Points
    <2>1. QED
      BY <1>5, <1>6 DEF IsOrder
  <1>8. \A i \in N : RankIn(R, N, i) = Cardinality({j \in N : Before(j, i)})
    <2>1. TAKE i \in N
    <2>2. {j \in N : <<j, i>> \in R} = {j \in N : Before(j, i)}
      BY <1>6
    <2>3. QED
      BY <2>2 DEF RankIn
  <1> HIDE DEF R, N
  <1>9. /\ p \in [1 .. n -> N]
        /\ \A k, l \in 1 .. n : k < l => <<p[k], p[l]>> \in R
        /\ \A x \in N : RankIn(R, N, x) + 1 \in 1 .. n /\ p[RankIn(R, N, x) + 1] = x
    BY <1>2, <1>7, MembersInOrder
  <1>10. p = [m \in 1 .. n |-> CHOOSE i \in N : RankIn(R, N, i) = m - 1]
    BY <1>2 DEF InOrderOf
  <1> DEFINE Less(i) == Cardinality({j \in N : Before(j, i)})
  <1>11. \A m \in 1 .. n : p[m] = CHOOSE i \in N : Less(i) = m - 1
    <2>1. TAKE m \in 1 .. n
    <2>2. \A i \in N : RankIn(R, N, i) = Less(i)
      BY <1>8
    <2> HIDE DEF Less
    <2>3. (CHOOSE i \in N : RankIn(R, N, i) = m - 1) = (CHOOSE i \in N : Less(i) = m - 1)
      BY <2>2
    <2>4. QED
      BY <1>10, <2>3
  <1>12. SortedByScore = [m \in 1 .. n |-> read[p[m]]]
    <2>1. SortedByScore = [m \in 1 .. n |-> read[CHOOSE i \in N : Less(i) = m - 1]]
      BY <1>4 DEF N
    <2> HIDE DEF Less, p, n
    <2>2. QED
      BY <1>11, <2>1
  <1> HIDE DEF p, n, Less
  <1>13. \A k \in 1 .. n : p[k] \in N
    BY <1>9
  <1>14. SortedByScore \in [1 .. n -> Scored]
    BY <1>3, <1>12, <1>13
  <1>15. \A x \in Scored : \E k \in 1 .. n : SortedByScore[k] = x
    <2>1. TAKE x \in Scored
    <2>2. PICK i \in N : read[i] = x
      BY <1>3
    <2>3. QED
      BY <1>9, <1>12, <2>2
  <1>16. ASSUME NEW k \in 1 .. n, NEW l \in 1 .. n, k < l
         PROVE  SortedByScore[k] # SortedByScore[l] /\ ScoreOf(SortedByScore[k]) <= ScoreOf(SortedByScore[l])
    <2>1. Before(p[k], p[l]) /\ p[k] \in N /\ p[l] \in N
      BY <1>6, <1>9, <1>13, <1>16
    <2>2. p[k] # p[l] /\ Points(p[k]) <= Points(p[l])
      BY <1>5, <2>1
    <2>3. QED
      BY <1>3, <1>12, <2>1, <2>2
  <1>17. QED
    BY <1>14, <1>15, <1>16 DEF ListsByScore, n

\* Every signal with a score is in one quarter, and no quarter has a better one
\* than the next.
LEMMA QuartilesPartition ==
    ASSUME SignalTypes, ByScoreQuartile # <<>>
    PROVE  /\ UNION {ByScoreQuartile[q] : q \in 1 .. 4} = Scored
           /\ \A p, q \in 1 .. 4 : p < q =>
                \A s \in ByScoreQuartile[p], t \in ByScoreQuartile[q] :
                    s # t /\ ScoreOf(s) <= ScoreOf(t)
  <1> DEFINE n == Cardinality(Scored)
             f == SortedByScore
             B(q) == QuartileBounds(q, n)[1] .. QuartileBounds(q, n)[2]
  <1>1. n \in Nat
    BY FS_Subset, FS_CardinalityType DEF SignalTypes, Scored
  <1>2. ListsByScore(f, n, Scored)
    BY SortedLists
  <1>3. \A q \in 1 .. 4 : ByScoreQuartile[q] = {f[i] : i \in B(q)}
    BY DEF ByScoreQuartile
  <1>4. /\ \A q \in 1 .. 4 : \A i \in B(q) : i \in 1 .. n
        /\ \A i \in 1 .. n : \E q \in 1 .. 4 : i \in B(q)
        /\ \A p, q \in 1 .. 4 : p < q => \A i \in B(p), j \in B(q) : i < j
    BY <1>1, QuartersFollow
  <1> HIDE DEF n, f, B
  <1>5. UNION {ByScoreQuartile[q] : q \in 1 .. 4} = Scored
    <2>1. \A q \in 1 .. 4 : ByScoreQuartile[q] \subseteq Scored
      BY <1>2, <1>3, <1>4 DEF ListsByScore
    <2>2. \A x \in Scored : \E q \in 1 .. 4 : x \in ByScoreQuartile[q]
      BY <1>2, <1>3, <1>4 DEF ListsByScore
    <2>3. QED
      BY <2>1, <2>2
  <1>6. ASSUME NEW p \in 1 .. 4, NEW q \in 1 .. 4, p < q,
               NEW s \in ByScoreQuartile[p], NEW t \in ByScoreQuartile[q]
        PROVE  s # t /\ ScoreOf(s) <= ScoreOf(t)
    <2>1. PICK i \in B(p) : s = f[i]
      BY <1>3
    <2>2. PICK j \in B(q) : t = f[j]
      BY <1>3
    <2>3. i < j /\ i \in 1 .. n /\ j \in 1 .. n
      BY <1>4, <1>6
    <2>4. QED
      BY <1>2, <2>1, <2>2, <2>3 DEF ListsByScore
  <1>7. QED
    BY <1>5, <1>6

\* The summaries leave no signal out and count none twice, and their figures fit
\* together, whatever was stored and whichever bars have come in
\* (AggregateSignalPerformance, AggregateByRankBand, AggregateByScoreQuartile).
THEOREM SummariesAddUp == SignalSpec => []SignalFiguresAddUp
  <1>1. SignalTypes => SignalFiguresAddUp
    <2>1. SUFFICES ASSUME SignalTypes PROVE BandsPartitionSignals
      BY FiguresHold DEF SignalFiguresAddUp
    <2>2. LET total == Summaries(SignalToday)
              counts == [m \in DOMAIN total |-> total[m].count]
          IN  MapThenSumSet(LAMBDA m : counts[m], DOMAIN counts) = Cardinality(signals)
      BY <2>1, MethodsAddUp
    <2>3. \A s \in signals : s.shape.rank # {} =>
              Cardinality({i \in 1 .. 3 : s \in ByRankBand(i)}) = 1
      BY <2>1, RankInOneBand
    <2>4. ByScoreQuartile # <<>> =>
              /\ UNION {ByScoreQuartile[q] : q \in 1 .. 4} = Scored
              /\ \A p, q \in 1 .. 4 : p < q =>
                   \A s \in ByScoreQuartile[p], t \in ByScoreQuartile[q] :
                       s # t /\ ScoreOf(s) <= ScoreOf(t)
      BY <2>1, QuartilesPartition
    <2>5. QED
      BY <2>2, <2>3, <2>4 DEF BandsPartitionSignals
  <1>2. QED
    BY <1>1, SignalsAreTyped, PTL

-----------------------------------------------------------------------------
(* Returns of a range: what its folds keep                                 *)

DayTypes == [stock : Nat, bench : Nat]
CommonDays == {d \in DayTypes : d.stock # 0 /\ d.bench # 0}

\* The joined days have both bars (alignByDate).
LEMMA AlignedDays ==
    ASSUME NEW days \in Seq(DayTypes)
    PROVE  AlignByDate(days) \in Seq(CommonDays)
  <1> DEFINE n == Len(days)
             T == Seq(CommonDays)
             Kept(acc, d) == IF d.stock # 0 /\ d.bench # 0 THEN Append(acc, d) ELSE acc
             Step(g, s) == Kept(g[s \ {Max(s)}], days[Max(s)])
             fold == CHOOSE g : g = [s \in SUBSET DOMAIN days |->
                                        IF s = {} THEN <<>> ELSE Step(g, s)]
             F == [q \in T \X (1 .. n) |-> Kept(q[1], days[q[2]])]
  <1>1. n \in Nat /\ DOMAIN days = 1 .. n /\ \A i \in 1 .. n : days[i] \in DayTypes
    OBVIOUS
  <1>2. AlignByDate(days) = fold[DOMAIN days]
    BY DEF AlignByDate, FoldLeft, MapThenFoldSet
  <1>3. <<>> \in T
    OBVIOUS
  <1>4. ASSUME NEW acc \in T, NEW d \in DayTypes PROVE Kept(acc, d) \in T
    BY DEF CommonDays
  <1> HIDE DEF T, Kept
  <1>5. F \in [T \X (1 .. n) -> T]
    BY <1>1, <1>4
  <1>6. \A k \in 1 .. n, acc \in T : F[<<acc, k>>] = Kept(acc, days[k])
    OBVIOUS
  <1>7. PICK g \in [SUBSET (1 .. n) -> T] : IsFold(g, n, <<>>, F)
    <2> HIDE DEF F, n
    <2>1. QED
      BY <1>1, <1>3, <1>5, FoldsExist
  <1> HIDE DEF F
  <1>8. g = [s \in SUBSET DOMAIN days |-> IF s = {} THEN <<>> ELSE Step(g, s)]
    <2>1. \A s \in SUBSET (1 .. n) : s # {} => F[<<g[s \ {Max(s)}], Max(s)>>] = Step(g, s)
      BY <1>1, <1>6, LargestMember
    <2>2. QED
      BY <1>1, <1>7, <2>1 DEF IsFold
  <1>9. fold = [s \in SUBSET DOMAIN days |-> IF s = {} THEN <<>> ELSE Step(fold, s)]
    BY <1>8
  <1> HIDE DEF fold
  <1>10. fold[{}] = <<>>
    BY <1>9
  <1>11. ASSUME NEW k \in 1 .. n
         PROVE  fold[1 .. k] = Kept(fold[1 .. k - 1], days[k])
    <2>1. Max(1 .. k) = k /\ (1 .. k) \ {k} = 1 .. k - 1
      BY FirstPositions
    <2>2. 1 .. k \in SUBSET DOMAIN days /\ 1 .. k # {}
      <3>1. k \in 1 .. k /\ 1 .. k \subseteq 1 .. n
        BY <1>1
      <3>2. QED
        BY <1>1, <3>1
    <2>3. fold[1 .. k] = Step(fold, 1 .. k)
      BY <1>9, <2>2
    <2>4. QED
      BY <2>1, <2>3
  <1>12. fold[{}] \in T
    BY <1>3, <1>10
  <1>13. \A k \in 1 .. n : fold[1 .. k - 1] \in T => fold[1 .. k] = F[<<fold[1 .. k - 1], k>>]
    BY <1>6, <1>11
  <1>14. \A k \in 1 .. n, acc \in T : F[<<acc, k>>] \in T
    <2>1. TAKE k \in 1 .. n, acc \in T
    <2>2. days[k] \in DayTypes
      BY <1>1
    <2>3. QED
      BY <1>4, <1>6, <2>2
  <1>15. fold[1 .. n] \in T
    <2> HIDE DEF n
    <2>1. QED
      BY <1>1, <1>12, <1>13, <1>14, FoldStays
  <1>16. QED
    BY <1>1, <1>2, <1>15 DEF T

\* A sector's series leaves its closes of zero out.
LEMMA SectorCloses ==
    ASSUME NEW days \in Seq(DayTypes), NEW code \in {"stock", "bench"}
    PROVE  SectorSeries(days, code) \in Seq(Nat \ {0})
  <1> DEFINE n == Len(days)
             T == Seq(Nat \ {0})
             Kept(acc, d) == IF d[code] # 0 THEN Append(acc, d[code]) ELSE acc
             Step(g, s) == Kept(g[s \ {Max(s)}], days[Max(s)])
             fold == CHOOSE g : g = [s \in SUBSET DOMAIN days |->
                                        IF s = {} THEN <<>> ELSE Step(g, s)]
             F == [q \in T \X (1 .. n) |-> Kept(q[1], days[q[2]])]
  <1>1. n \in Nat /\ DOMAIN days = 1 .. n /\ \A i \in 1 .. n : days[i] \in DayTypes
    OBVIOUS
  <1>2. SectorSeries(days, code) = fold[DOMAIN days]
    BY DEF SectorSeries, FoldLeft, MapThenFoldSet
  <1>3. <<>> \in T
    OBVIOUS
  <1>4. ASSUME NEW acc \in T, NEW d \in DayTypes PROVE Kept(acc, d) \in T
    <2>1. d[code] \in Nat
      BY DEF DayTypes
    <2>2. QED
      BY <2>1
  <1> HIDE DEF T, Kept
  <1>5. F \in [T \X (1 .. n) -> T]
    BY <1>1, <1>4
  <1>6. \A k \in 1 .. n, acc \in T : F[<<acc, k>>] = Kept(acc, days[k])
    OBVIOUS
  <1>7. PICK g \in [SUBSET (1 .. n) -> T] : IsFold(g, n, <<>>, F)
    <2> HIDE DEF F, n
    <2>1. QED
      BY <1>1, <1>3, <1>5, FoldsExist
  <1> HIDE DEF F
  <1>8. g = [s \in SUBSET DOMAIN days |-> IF s = {} THEN <<>> ELSE Step(g, s)]
    <2>1. \A s \in SUBSET (1 .. n) : s # {} => F[<<g[s \ {Max(s)}], Max(s)>>] = Step(g, s)
      BY <1>1, <1>6, LargestMember
    <2>2. QED
      BY <1>1, <1>7, <2>1 DEF IsFold
  <1>9. fold = [s \in SUBSET DOMAIN days |-> IF s = {} THEN <<>> ELSE Step(fold, s)]
    BY <1>8
  <1> HIDE DEF fold
  <1>10. fold[{}] = <<>>
    BY <1>9
  <1>11. ASSUME NEW k \in 1 .. n
         PROVE  fold[1 .. k] = Kept(fold[1 .. k - 1], days[k])
    <2>1. Max(1 .. k) = k /\ (1 .. k) \ {k} = 1 .. k - 1
      BY FirstPositions
    <2>2. 1 .. k \in SUBSET DOMAIN days /\ 1 .. k # {}
      <3>1. k \in 1 .. k /\ 1 .. k \subseteq 1 .. n
        BY <1>1
      <3>2. QED
        BY <1>1, <3>1
    <2>3. fold[1 .. k] = Step(fold, 1 .. k)
      BY <1>9, <2>2
    <2>4. QED
      BY <2>1, <2>3
  <1>12. fold[{}] \in T
    BY <1>3, <1>10
  <1>13. \A k \in 1 .. n : fold[1 .. k - 1] \in T => fold[1 .. k] = F[<<fold[1 .. k - 1], k>>]
    BY <1>6, <1>11
  <1>14. \A k \in 1 .. n, acc \in T : F[<<acc, k>>] \in T
    <2>1. TAKE k \in 1 .. n, acc \in T
    <2>2. days[k] \in DayTypes
      BY <1>1
    <2>3. QED
      BY <1>4, <1>6, <2>2
  <1>15. fold[1 .. n] \in T
    <2> HIDE DEF n
    <2>1. QED
      BY <1>1, <1>12, <1>13, <1>14, FoldStays
  <1>16. QED
    BY <1>1, <1>2, <1>15 DEF T

\* Of two quotients the smaller one is not rounded to more.
LEMMA RoundDivCompare ==
    ASSUME NEW a \in Nat, NEW c \in Nat, NEW b \in Nat \ {0}, NEW d \in Nat \ {0},
           a * d <= c * b
    PROVE  RoundDiv(a, b) <= RoundDiv(c, d)
  <1> DEFINE p == RoundDiv(a, b)
             q == RoundDiv(c, d)
  <1>1. p \in Nat /\ q \in Nat /\ p = (2 * a + b) \div (2 * b) /\ q = (2 * c + d) \div (2 * d)
    BY RoundedQuotient
  <1> DEFINE x == 2 * a + b
             y == 2 * c + d
             m == 2 * b
             k == 2 * d
  <1>2. x \in Nat /\ y \in Nat /\ m \in Nat \ {0} /\ k \in Nat \ {0}
    OBVIOUS
  <1>3. x * d <= y * b
    <2>1. x * d = 2 * (a * d) + b * d /\ y * b = 2 * (c * b) + b * d
      OBVIOUS
    <2>2. a * d \in Nat /\ c * b \in Nat /\ b * d \in Nat
      OBVIOUS
    <2>3. QED
      BY <2>1, <2>2
  <1>4. p = x \div m /\ q = y \div k
    BY <1>1
  <1>5. k * b = m * d /\ m * d \in Nat \ {0}
    OBVIOUS
  <1> HIDE DEF p, q, x, y, m, k
  <1>6. m * p <= x
    BY <1>1, <1>2, <1>4
  <1>7. y < k * q + k
    BY <1>1, <1>2, <1>4
  <1>8. (m * p) * d <= x * d
    <2>1. m * p \in Nat
      BY <1>1, <1>2
    <2>2. QED
      BY <1>2, <1>6, <2>1
  <1>9. y * b < (k * q + k) * b
    <2>1. k * q + k \in Nat
      BY <1>1, <1>2
    <2>2. QED
      BY <1>2, <1>7, <2>1
  <1>10. (m * p) * d = (m * d) * p /\ (k * q + k) * b = (m * d) * (q + 1)
    <2>1. (k * q + k) * b = (k * b) * (q + 1)
      BY <1>1, <1>2
    <2>2. (m * p) * d = (m * d) * p
      BY <1>1, <1>2
    <2>3. QED
      BY <1>5, <2>1, <2>2
  <1> DEFINE w == m * d
  <1>11. w \in Nat \ {0} /\ w * p \in Nat /\ w * (q + 1) \in Nat
    BY <1>1, <1>5
  <1>12. w * p < w * (q + 1)
    <2>1. x * d \in Nat /\ y * b \in Nat
      BY <1>2
    <2>2. QED
      BY <1>3, <1>8, <1>9, <1>10, <1>11, <2>1
  <1> HIDE DEF w
  <1>13. p <= q
    BY <1>1, <1>11, <1>12
  <1>14. QED
    BY <1>13 DEF p, q

\* From a higher peak the fall to a price is deeper.
LEMMA HigherPeakDeeperFall ==
    ASSUME NEW x \in Nat, NEW a \in Nat \ {0}, NEW b \in Nat \ {0}, a <= b, x <= b
    PROVE  Fall(x, b) <= Fall(x, a)
  <1> DEFINE u == Unit
             z == (b - x) * u
             f == RoundDiv(z, b)
  <1>1. u \in Nat \ {0} /\ b - x \in Nat
    BY UnitPositive
  <1>2. z \in Nat /\ -z = (x - b) * u
    BY <1>1
  <1>3. Fall(x, b) = -f /\ f \in Nat
    <2> HIDE DEF z
    <2>1. RoundDiv(-z, b) = -RoundDiv(z, b) /\ RoundDiv(z, b) \in Nat
      BY <1>2, RoundedQuotient
    <2>2. QED
      BY <1>2, <2>1 DEF Fall, FDiv
  <1>4. CASE x >= a
    <2> DEFINE y == (x - a) * u
    <2>1. x - a \in Nat
      BY <1>4
    <2>2. y \in Nat
      BY <1>1, <2>1
    <2>3. Fall(x, a) = RoundDiv(y, a)
      BY DEF Fall, FDiv
    <2> HIDE DEF y, f
    <2>4. RoundDiv(y, a) \in Nat
      BY <2>2, RoundedQuotient
    <2>5. QED
      BY <1>3, <2>3, <2>4
  <1>5. CASE x < a
    <2> DEFINE y == (a - x) * u
    <2>1. a - x \in Nat
      BY <1>5
    <2>2. y \in Nat /\ -y = (x - a) * u
      BY <1>1, <2>1
    <2>3. Fall(x, a) = -RoundDiv(y, a) /\ RoundDiv(y, a) \in Nat
      <3> HIDE DEF y
      <3>1. RoundDiv(-y, a) = -RoundDiv(y, a) /\ RoundDiv(y, a) \in Nat
        BY <2>2, RoundedQuotient
      <3>2. QED
        BY <2>2, <3>1 DEF Fall, FDiv
    <2>4. y * b <= z * a
      <3>1. y * b = (a * b) * u - (x * b) * u /\ z * a = (a * b) * u - (x * a) * u
        BY <1>1
      <3>2. x * a <= x * b
        OBVIOUS
      <3>3. x * a \in Nat /\ x * b \in Nat /\ a * b \in Nat
        OBVIOUS
      <3>4. (x * a) * u <= (x * b) * u
        BY <1>1, <3>2, <3>3
      <3>5. (x * a) * u \in Nat /\ (x * b) * u \in Nat /\ (a * b) * u \in Nat
        BY <1>1, <3>3
      <3>6. QED
        BY <3>1, <3>4, <3>5
    <2> HIDE DEF y, z
    <2>5. RoundDiv(y, a) <= f
      BY <1>2, <2>2, <2>4, RoundDivCompare
    <2> HIDE DEF f
    <2>6. QED
      BY <1>3, <2>3, <2>5
  <1>6. QED
    BY <1>4, <1>5

\* What MaxDrawdown carries after k prices: the highest of them, and the worst
\* of the falls between them.
WorstUpTo(p, n, k) ==
    {acc \in [peak : Nat \ {0}, worst : Int] :
        /\ \E i \in 1 .. n : (i <= k \/ i = 1) /\ acc.peak = p[i]
        /\ \A i \in 1 .. k : p[i] <= acc.peak
        /\ acc.worst = 0 \/ \E i, j \in 1 .. n : i <= j /\ acc.worst = Fall(p[j], p[i])
        /\ acc.worst <= 0
        /\ \A i, j \in 1 .. k : i <= j => acc.worst <= Fall(p[j], p[i])}

\* One more price keeps that.
LEMMA WorstGrows ==
    ASSUME NEW p, NEW n \in Nat, \A i \in 1 .. n : p[i] \in Nat \ {0},
           NEW k \in 1 .. n, NEW acc \in WorstUpTo(p, n, k - 1)
    PROVE  Falling(acc, p[k]) \in WorstUpTo(p, n, k)
  <1> DEFINE x == p[k]
             top == Max({acc.peak, x})
             dd == Fall(x, top)
             low == Min({acc.worst, dd})
             new == [peak |-> top, worst |-> low]
  <1>1. /\ acc.peak \in Nat \ {0} /\ acc.worst \in Int /\ acc.worst <= 0
        /\ \E i \in 1 .. n : (i <= k - 1 \/ i = 1) /\ acc.peak = p[i]
        /\ \A i \in 1 .. k - 1 : p[i] <= acc.peak
        /\ acc.worst = 0 \/ \E i, j \in 1 .. n : i <= j /\ acc.worst = Fall(p[j], p[i])
        /\ \A i, j \in 1 .. k - 1 : i <= j => acc.worst <= Fall(p[j], p[i])
    BY DEF WorstUpTo
  <1>2. x \in Nat \ {0} /\ x = p[k] /\ k \in 1 .. n /\ 1 \in 1 .. n
    OBVIOUS
  <1>3. Falling(acc, p[k]) = new
    BY DEF Falling
  <1> HIDE DEF x
  <1>4. top \in {acc.peak, x} /\ top >= acc.peak /\ top >= x
    <2> DEFINE a == acc.peak
    <2>1. a \in Int /\ x \in Int
      BY <1>1, <1>2
    <2> HIDE DEF a
    <2>2. Max({a, x}) \in {a, x} /\ Max({a, x}) >= a /\ Max({a, x}) >= x
      BY <2>1, ExtremesOfTwo
    <2>3. QED
      BY <2>2 DEF a
  <1> HIDE DEF top
  <1>5. top \in Nat \ {0}
    BY <1>1, <1>2, <1>4
  <1>6. dd \in Int
    BY <1>2, <1>5, FallType
  <1> HIDE DEF dd
  <1>7. low \in {acc.worst, dd} /\ low <= acc.worst /\ low <= dd
    BY <1>1, <1>6, ExtremesOfTwo
  <1> HIDE DEF low
  <1>8. low \in Int /\ low <= 0
    BY <1>1, <1>6, <1>7
  <1>9. PICK h \in 1 .. n : (h <= k \/ h = 1) /\ top = p[h] /\ h <= k
    <2>1. CASE top = x
      BY <1>2, <2>1
    <2>2. CASE top = acc.peak
      <3>1. PICK i \in 1 .. n : (i <= k - 1 \/ i = 1) /\ acc.peak = p[i]
        BY <1>1
      <3>2. i <= k
        BY <3>1
      <3>3. QED
        BY <2>2, <3>1, <3>2
    <2>3. QED
      BY <1>4, <2>1, <2>2
  <1>10. \A i \in 1 .. k : p[i] <= top
    <2>1. TAKE i \in 1 .. k
    <2>2. CASE i = k
      BY <1>2, <1>4, <2>2
    <2>3. CASE i \in 1 .. k - 1
      <3>1. p[i] <= acc.peak /\ p[i] \in Nat
        BY <1>1, <2>3
      <3>2. QED
        BY <1>1, <1>4, <1>5, <3>1
    <2>4. QED
      BY <2>2, <2>3
  <1>11. low = 0 \/ \E i, j \in 1 .. n : i <= j /\ low = Fall(p[j], p[i])
    <2>1. CASE low = acc.worst
      BY <1>1, <2>1
    <2>2. CASE low = dd
      <3>1. low = Fall(p[k], p[h]) /\ h <= k
        BY <1>2, <1>9, <2>2 DEF dd
      <3>2. QED
        BY <1>2, <3>1
    <2>3. QED
      BY <1>7, <2>1, <2>2
  <1>12. \A i, j \in 1 .. k : i <= j => low <= Fall(p[j], p[i])
    <2>1. TAKE i, j \in 1 .. k
    <2>2. HAVE i <= j
    <2>3. p[i] \in Nat \ {0} /\ p[j] \in Nat \ {0} /\ p[i] <= top
      BY <1>10
    <2>4. Fall(p[j], p[i]) \in Int
      BY <2>3, FallType
    <2>5. CASE j = k
      <3>1. Fall(x, top) <= Fall(x, p[i])
        BY <1>2, <1>4, <1>5, <2>3, HigherPeakDeeperFall
      <3>2. low <= Fall(p[j], p[i])
        BY <1>2, <1>6, <1>7, <1>8, <2>4, <2>5, <3>1 DEF dd
      <3>3. QED
        BY <3>2
    <2>6. CASE j # k
      <3>1. i \in 1 .. k - 1 /\ j \in 1 .. k - 1
        BY <2>2, <2>6
      <3>2. acc.worst <= Fall(p[j], p[i])
        BY <1>1, <2>2, <3>1
      <3>3. QED
        BY <1>1, <1>7, <1>8, <2>4, <3>2
    <2>7. QED
      BY <2>5, <2>6
  <1>13. new \in WorstUpTo(p, n, k)
    <2>1. new.peak = top /\ new.worst = low /\ new \in [peak : Nat \ {0}, worst : Int]
      BY <1>5, <1>8
    <2> HIDE DEF new
    <2>2. QED
      BY <1>8, <1>9, <1>10, <1>11, <1>12, <2>1 DEF WorstUpTo
  <1>14. QED
    BY <1>3, <1>13

\* The falls from each price to a later one.
FallsOf(p) == UNION {{Fall(p[j], p[i]) : j \in i .. Len(p)} : i \in DOMAIN p}

\* The drawdown found in one pass is the worst of all falls.
LEMMA DrawdownIsLeast ==
    ASSUME NEW p \in Seq(Nat \ {0})
    PROVE  /\ MaxDrawdown(p) \in Int /\ MaxDrawdown(p) <= 0
           /\ MaxDrawdown(p) = 0 \/
                \E i, j \in 1 .. Len(p) : i <= j /\ MaxDrawdown(p) = Fall(p[j], p[i])
           /\ \A i, j \in 1 .. Len(p) : i <= j => MaxDrawdown(p) <= Fall(p[j], p[i])
           /\ MaxDrawdown(p) = Min({0} \cup FallsOf(p))
  <1> DEFINE n == Len(p)
             T == [peak : Nat \ {0}, worst : Int]
             first == [peak |-> p[1], worst |-> 0]
             Step(g, s) == Falling(g[s \ {Max(s)}], p[Max(s)])
             fold == CHOOSE g : g = [s \in SUBSET DOMAIN p |->
                                        IF s = {} THEN first ELSE Step(g, s)]
             F == [q \in T \X (1 .. n) |-> Falling(q[1], p[q[2]])]
             d == MaxDrawdown(p)
  <1>1. n \in Nat /\ DOMAIN p = 1 .. n /\ \A i \in 1 .. n : p[i] \in Nat \ {0}
    OBVIOUS
  <1>2. /\ d \in Int /\ d <= 0
        /\ d = 0 \/ \E i, j \in 1 .. n : i <= j /\ d = Fall(p[j], p[i])
        /\ \A i, j \in 1 .. n : i <= j => d <= Fall(p[j], p[i])
    <2>1. CASE p = <<>>
      <3>1. d = 0 /\ n = 0
        BY <2>1 DEF MaxDrawdown
      <3> HIDE DEF d, n
      <3>2. QED
        BY <3>1
    <2>2. CASE p # <<>>
      <3>1. n # 0 /\ 1 \in 1 .. n
        BY <1>1, <2>2, EmptySeq
      <3>2. MaxDrawdown(p) = fold[DOMAIN p].worst
        BY <2>2 DEF MaxDrawdown, FoldLeft, MapThenFoldSet, Falling
      <3>3. first \in T /\ first \in WorstUpTo(p, n, 0)
        <4>1. p[1] \in Nat \ {0}
          BY <1>1, <3>1
        <4>2. first \in T /\ first.peak = p[1] /\ first.worst = 0
          BY <4>1
        <4> HIDE DEF first, n
        <4>3. QED
          BY <1>1, <3>1, <4>2 DEF WorstUpTo
      <3> HIDE DEF first, d
      <3>4. \A k \in 1 .. n, acc \in T : Falling(acc, p[k]) \in T
        <4>1. TAKE k \in 1 .. n, acc \in T
        <4>2. p[k] \in Nat \ {0} /\ acc.peak \in Nat \ {0} /\ acc.worst \in Int
          BY <1>1
        <4> DEFINE a == acc.peak
                   x == p[k]
                   top == Max({a, x})
                   w == acc.worst
                   v == Fall(x, top)
        <4>3. a \in Nat \ {0} /\ x \in Nat \ {0} /\ w \in Int
          BY <4>2
        <4> HIDE DEF a, x, w
        <4>4. top \in Nat \ {0}
          <5>1. a \in Int /\ x \in Int
            BY <4>3
          <5>2. Max({a, x}) \in {a, x}
            BY <5>1, ExtremesOfTwo
          <5>3. QED
            BY <4>3, <5>2
        <4> HIDE DEF top
        <4>5. v \in Int
          BY <4>3, <4>4, FallType
        <4> HIDE DEF v
        <4>6. Min({w, v}) \in Int
          BY <4>3, <4>5, ExtremesOfTwo
        <4>7. Falling(acc, p[k]) = [peak |-> top, worst |-> Min({w, v})]
          BY DEF Falling, a, x, top, w, v
        <4>8. QED
          BY <4>4, <4>6, <4>7
      <3> HIDE DEF T
      <3>5. F \in [T \X (1 .. n) -> T]
        BY <3>4
      <3>6. \A k \in 1 .. n, acc \in T : F[<<acc, k>>] = Falling(acc, p[k])
        OBVIOUS
      <3>7. PICK g \in [SUBSET (1 .. n) -> T] : IsFold(g, n, first, F)
        <4> HIDE DEF F, n
        <4>1. QED
          BY <1>1, <3>3, <3>5, FoldsExist
      <3> HIDE DEF F
      <3>8. g = [s \in SUBSET DOMAIN p |-> IF s = {} THEN first ELSE Step(g, s)]
        <4>1. \A s \in SUBSET (1 .. n) : s # {} => F[<<g[s \ {Max(s)}], Max(s)>>] = Step(g, s)
          BY <1>1, <3>6, LargestMember
        <4>2. QED
          BY <1>1, <3>7, <4>1 DEF IsFold
      <3>9. fold = [s \in SUBSET DOMAIN p |-> IF s = {} THEN first ELSE Step(fold, s)]
        BY <3>8
      <3> HIDE DEF fold
      <3>10. fold[{}] = first
        BY <3>9
      <3>11. ASSUME NEW k \in 1 .. n
             PROVE  fold[1 .. k] = Falling(fold[1 .. k - 1], p[k])
        <4>1. Max(1 .. k) = k /\ (1 .. k) \ {k} = 1 .. k - 1
          BY FirstPositions
        <4>2. 1 .. k \in SUBSET DOMAIN p /\ 1 .. k # {}
          <5>1. k \in 1 .. k /\ 1 .. k \subseteq 1 .. n
            BY <1>1
          <5>2. QED
            BY <1>1, <5>1
        <4>3. fold[1 .. k] = Step(fold, 1 .. k)
          BY <3>9, <4>2
        <4>4. QED
          BY <4>1, <4>3
      <3> DEFINE P == [k \in 0 .. n |-> WorstUpTo(p, n, k)]
      <3>12. \A k \in 0 .. n : P[k] = WorstUpTo(p, n, k)
        OBVIOUS
      <3> HIDE DEF P
      <3>13. fold[{}] \in T /\ fold[{}] \in P[0]
        BY <1>1, <3>3, <3>10, <3>12
      <3>14. \A k \in 1 .. n : fold[1 .. k - 1] \in T => fold[1 .. k] = F[<<fold[1 .. k - 1], k>>]
        BY <3>6, <3>11
      <3>15. \A k \in 1 .. n : \A acc \in T :
                /\ F[<<acc, k>>] \in T
                /\ acc \in P[k - 1] => F[<<acc, k>>] \in P[k]
        <4>1. TAKE k \in 1 .. n
        <4>2. TAKE acc \in T
        <4>3. F[<<acc, k>>] = Falling(acc, p[k]) /\ Falling(acc, p[k]) \in T
          BY <3>4, <3>6
        <4>4. k \in 0 .. n /\ k - 1 \in 0 .. n
          BY <1>1
        <4>5. ASSUME acc \in P[k - 1] PROVE Falling(acc, p[k]) \in P[k]
          <5>1. acc \in WorstUpTo(p, n, k - 1)
            BY <3>12, <4>4, <4>5
          <5> HIDE DEF n
          <5>2. Falling(acc, p[k]) \in WorstUpTo(p, n, k)
            BY <1>1, <5>1, WorstGrows
          <5>3. QED
            BY <3>12, <4>4, <5>2
        <4>6. QED
          BY <4>3, <4>5
      <3>16. fold[1 .. n] \in T /\ fold[1 .. n] \in P[n]
        <4> HIDE DEF n
        <4>1. n \in Nat
          BY <1>1
        <4>2. \A k \in 1 .. n : \A acc \in T : F[<<acc, k>>] \in T
          BY <3>15
        <4>3. \A k \in 1 .. n : \A acc \in T : acc \in P[k - 1] => F[<<acc, k>>] \in P[k]
          BY <3>15
        <4> HIDE DEF Step
        <4>4. QED
          BY <4>1, <4>2, <4>3, <3>13, <3>14, FoldKeeps
      <3>17. fold[DOMAIN p] \in WorstUpTo(p, n, n)
        <4>1. n \in 0 .. n
          BY <1>1
        <4>2. QED
          BY <1>1, <3>12, <3>16, <4>1
      <3>18. d = fold[DOMAIN p].worst
        BY <3>2 DEF d
      <3> HIDE DEF n
      <3>19. QED
        BY <3>17, <3>18 DEF WorstUpTo
    <2>3. QED
      BY <2>1, <2>2
  <1> HIDE DEF d
  <1> DEFINE S == {0} \cup FallsOf(p)
  <1>3. \A y \in FallsOf(p) : \E i, j \in 1 .. n : i <= j /\ y = Fall(p[j], p[i])
    BY <1>1 DEF FallsOf
  <1>4. \A i, j \in 1 .. n : i <= j => Fall(p[j], p[i]) \in FallsOf(p)
    BY <1>1 DEF FallsOf
  <1>5. d \in S
    BY <1>2, <1>4
  <1>6. \A y \in S : y \in Int /\ d <= y
    <2>1. TAKE y \in S
    <2>2. CASE y = 0
      BY <1>2, <2>2
    <2>3. CASE y \in FallsOf(p)
      <3>1. PICK i, j \in 1 .. n : i <= j /\ y = Fall(p[j], p[i])
        BY <1>3, <2>3
      <3>2. p[i] \in Nat /\ p[j] \in Nat
        BY <1>1
      <3>3. QED
        BY <1>2, <3>1, <3>2, FallType
    <2>4. QED
      BY <2>2, <2>3
  <1> HIDE DEF S
  <1>7. Min(S) = d
    BY <1>5, <1>6, LeastIsMin
  <1>8. QED
    BY <1>2, <1>7 DEF d, S

\* A price never falls by more than all of it, and rounding makes a fall no
\* shallower than the return between the same prices.
LEMMA FallWithinReturn ==
    ASSUME NEW x \in Nat, NEW p \in Nat \ {0}
    PROVE  /\ Fall(x, p) \in Int /\ FDiv(x, p) \in Nat
           /\ -Unit <= Fall(x, p)
           /\ Fall(x, p) <= FDiv(x, p) - Unit
  <1> DEFINE u == Unit
             y == x * u
             w == p * u
             z == (x - p) * u
  <1>1. u \in Nat \ {0} /\ u = Unit
    BY UnitPositive
  <1>2. y \in Nat /\ w \in Nat /\ z = y - w /\ p * (-u) = -w /\ z \in Int
    BY <1>1
  <1>3. Fall(x, p) = RoundDiv(z, p) /\ FDiv(x, p) = RoundDiv(y, p)
    BY DEF Fall, FDiv
  <1>4. RoundDiv(y, p) \in Nat
    <2> HIDE DEF y
    <2>1. QED
      BY <1>2, RoundedQuotient
  <1>5. RoundDiv(z, p) \in Int
    <2> HIDE DEF z
    <2>1. QED
      BY <1>2, RoundDivType
  <1>6. -u <= RoundDiv(z, p)
    <2>1. p * (-u) <= z /\ -u \in Int
      BY <1>1, <1>2
    <2> HIDE DEF z, u
    <2>2. QED
      BY <1>2, <2>1, RoundDivBetween
  <1> DEFINE q == RoundDiv(y, p)
             m == 2 * p
  <1>7. m \in Nat \ {0} /\ m * u = 2 * w
    BY <1>1
  <1>8. q = (2 * y + p) \div m /\ q \in Nat
    <2> HIDE DEF y
    <2>1. QED
      BY <1>2, RoundedQuotient
  <1> HIDE DEF q
  <1>9. 2 * y + p < m * q + m /\ m * q <= 2 * y + p
    <2> DEFINE v == 2 * y + p
    <2>1. v \in Nat
      BY <1>2
    <2> HIDE DEF v, m
    <2>2. m * (v \div m) <= v /\ v < m * (v \div m) + m
      BY <1>7, <2>1
    <2>3. QED
      BY <1>8, <2>2 DEF v
  <1>10. CASE y >= w
    <2>1. z \in Nat
      BY <1>2, <1>10
    <2> DEFINE r == RoundDiv(z, p)
               v == 2 * z + p
    <2> HIDE DEF z
    <2>2. r = v \div m /\ r \in Nat /\ v \in Nat
      BY <2>1, RoundedQuotient
    <2> HIDE DEF r
    <2>3. m * r <= v
      <3> HIDE DEF v, m
      <3>1. QED
        BY <1>7, <2>2
    <2>4. v = 2 * y + p - m * u
      BY <1>2, <1>7
    <2>5. m * r + m * u < m * q + m
      <3> DEFINE e == m * r
                 f == m * u
                 h == m * q
                 b == 2 * y + p
      <3>1. e \in Int /\ f \in Int /\ h \in Int /\ e <= v /\ v = b - f
        BY <1>1, <1>7, <1>8, <2>2, <2>3, <2>4
      <3>2. b < h + m /\ b \in Int /\ m \in Int
        BY <1>2, <1>9
      <3> HIDE DEF e, f, h, v, m, b
      <3>3. e + f < h + m
        BY <2>2, <3>1, <3>2
      <3>4. QED
        BY <3>3 DEF e, f, h
    <2> HIDE DEF m, u
    <2>6. m * (r + u) < m * (q + 1)
      BY <1>1, <1>7, <1>8, <2>2, <2>5
    <2>7. r + u < q + 1
      BY <1>1, <1>7, <1>8, <2>2, <2>6
    <2>8. r <= q - u
      BY <1>1, <1>8, <2>2, <2>7
    <2>9. QED
      BY <1>1, <1>3, <1>4, <1>5, <1>6, <2>8 DEF r, q, u
  <1>11. CASE y < w
    <2> DEFINE c == w - y
               r == RoundDiv(c, p)
               v == 2 * c + p
    <2>1. c \in Nat /\ z = -c
      BY <1>2, <1>11
    <2> HIDE DEF z
    <2>2. r = v \div m /\ r \in Nat /\ RoundDiv(z, p) = -r /\ v \in Nat
      <3> HIDE DEF c
      <3>1. QED
        BY <2>1, RoundedQuotient
    <2> HIDE DEF r
    <2>3. v < m * r + m
      <3> HIDE DEF v, m
      <3>1. QED
        BY <1>7, <2>2
    <2>4. v + (2 * y + p) = m * u + m
      BY <1>2, <1>7
    <2>5. m * u + m < m * q + m + (m * r + m)
      <3> DEFINE e == m * r
                 f == m * u
                 h == m * q
                 b == 2 * y + p
      <3>1. e \in Int /\ f \in Int /\ h \in Int /\ v < e + m /\ v + b = f + m
        BY <1>1, <1>7, <1>8, <2>2, <2>3, <2>4
      <3>2. b < h + m /\ b \in Int /\ m \in Int
        BY <1>2, <1>9
      <3> HIDE DEF e, f, h, v, m, b
      <3>3. f + m < h + m + (e + m)
        BY <2>2, <3>1, <3>2
      <3>4. QED
        BY <3>3 DEF e, f, h
    <2> HIDE DEF m, u
    <2>6. m * (u + 1) < m * (q + r + 2)
      BY <1>1, <1>7, <1>8, <2>2, <2>5
    <2>7. u + 1 < q + r + 2
      BY <1>1, <1>7, <1>8, <2>2, <2>6
    <2>8. -r <= q - u
      BY <1>1, <1>8, <2>2, <2>7
    <2>9. QED
      BY <1>1, <1>3, <1>4, <1>5, <1>6, <2>2, <2>8 DEF q, u
  <1>12. QED
    BY <1>2, <1>10, <1>11

\* Means and covariances of whole figures are whole.
LEMMA MeansAreWhole ==
    ASSUME NEW n \in Nat, NEW xs \in [1 .. n -> Int], Len(xs) = n
    PROVE  MeanOf(xs) \in Int
  <1>1. CASE xs = <<>>
    BY <1>1 DEF MeanOf
  <1>2. CASE xs # <<>>
    <2>1. n # 0
      <3>1. ASSUME n = 0 PROVE FALSE
        <4>1. xs = <<>>
          BY <3>1
        <4>2. QED
          BY <1>2, <4>1
      <3>2. QED
        BY <3>1
    <2>2. SumOver(xs, 1, n) \in Int
      <3> DEFINE S == 1 .. n
      <3>1. IsFiniteSet(S) /\ xs \in [S -> Int]
        BY FS_Interval
      <3>2. SumOver(xs, 1, n) = SumBy(xs, S)
        BY DEF SumOver, SumBy
      <3> HIDE DEF S
      <3>3. PICK G \in [SUBSET S -> Int] : AddsUp(G, S, xs)
        BY <3>1, SumInAnyOrder
      <3>4. SumBy(xs, S) = G[S]
        BY <3>1, <3>3, SumByAddsUp
      <3>5. QED
        BY <3>2, <3>3, <3>4
    <2>3. QED
      BY <1>2, <2>1, <2>2, RoundDivType DEF MeanOf
  <1>3. QED
    BY <1>1, <1>2

LEMMA CovariancesAreWhole ==
    ASSUME NEW n \in Nat, NEW xs \in [1 .. n -> Int], Len(xs) = n
    PROVE  Covariance(xs, xs) \in Int
  <1> DEFINE S == 1 .. n
             m == MeanOf(xs)
             F == [i \in S |-> FMul(xs[i] - m, xs[i] - m)]
             first(s) == CHOOSE x \in s : TRUE
             Term(i) == FMul(xs[i] - m, xs[i] - m)
             sum == CHOOSE g : g = [s \in SUBSET S |->
                 IF s = {} THEN 0 ELSE Term(first(s)) + g[s \ {first(s)}]]
  <1>1. m \in Int
    BY MeansAreWhole
  <1> HIDE DEF m
  <1>2. F \in [S -> Int]
    <2>1. SUFFICES ASSUME NEW i \in S PROVE FMul(xs[i] - m, xs[i] - m) \in Int
      OBVIOUS
    <2>2. xs[i] - m \in Int
      BY <1>1
    <2>3. QED
      BY <2>2, FMulType
  <1>3. IsFiniteSet(S)
    BY FS_Interval
  <1>4. PICK g : IsSum(g, S, F)
    <2> HIDE DEF F
    <2>1. QED
      BY <1>3, SumsExist
  <1>5. \A s \in SUBSET S : s # {} => Term(first(s)) = F[first(s)]
    <2>1. \A i \in S : Term(i) = F[i]
      OBVIOUS
    <2>2. \A s \in SUBSET S : s # {} => first(s) \in S
      OBVIOUS
    <2> HIDE DEF Term, F, first
    <2>3. QED
      BY <2>1, <2>2
  <1>6. MapThenSumSet(LAMBDA i : FMul(xs[i] - m, xs[i] - m), S) = sum[S]
    BY DEF MapThenSumSet, MapThenFoldSet
  <1> HIDE DEF Term, F
  <1>7. g = [s \in SUBSET S |-> IF s = {} THEN 0 ELSE Term(first(s)) + g[s \ {first(s)}]]
    BY <1>4, <1>5 DEF IsSum
  <1>8. sum = [s \in SUBSET S |-> IF s = {} THEN 0 ELSE Term(first(s)) + sum[s \ {first(s)}]]
    <2> HIDE DEF first, S
    <2>1. QED
      BY <1>7, ZenonT(40)
  <1> HIDE DEF sum
  <1>9. IsSum(sum, S, F)
    BY <1>5, <1>8 DEF IsSum
  <1>10. sum[S] \in Int
    BY <1>2, <1>9, SumsOfFigures
  <1>11. CASE n < 2
    BY <1>11 DEF Covariance
  <1>12. CASE n >= 2
    <2>1. Covariance(xs, xs) = RoundDiv(sum[S], n - 1)
      BY <1>6, <1>12 DEF Covariance, m
    <2>2. n - 1 \in Nat \ {0}
      BY <1>12
    <2>3. QED
      BY <1>10, <2>1, <2>2, RoundDivType
  <1>13. QED
    BY <1>11, <1>12

\* Without a return below zero there is no downside.
LEMMA NoDownside ==
    ASSUME NEW n \in Nat, NEW xs \in [1 .. n -> Int], Len(xs) = n,
           \A i \in 1 .. n : xs[i] >= 0
    PROVE  DownsideDeviation(xs, 0) = 0
  <1> DEFINE S == 1 .. n
             Term(i) == IF xs[i] < 0 THEN FMul(xs[i] - 0, xs[i] - 0) ELSE 0
             F == [i \in S |-> Term(i)]
             first(s) == CHOOSE x \in s : TRUE
             sum == CHOOSE g : g = [s \in SUBSET S |->
                 IF s = {} THEN 0 ELSE Term(first(s)) + g[s \ {first(s)}]]
  <1>1. \A i \in S : F[i] = 0
    <2>1. \A i \in S : xs[i] \in Int /\ xs[i] >= 0
      OBVIOUS
    <2>2. QED
      BY <2>1
  <1>2. F \in [S -> Int]
    BY <1>1
  <1>3. IsFiniteSet(S)
    BY FS_Interval
  <1>4. PICK g : IsSum(g, S, F)
    <2> HIDE DEF F
    <2>1. QED
      BY <1>3, SumsExist
  <1>5. \A s \in SUBSET S : s # {} => Term(first(s)) = F[first(s)]
    <2>1. \A i \in S : Term(i) = F[i]
      OBVIOUS
    <2>2. \A s \in SUBSET S : s # {} => first(s) \in S
      OBVIOUS
    <2> HIDE DEF Term, F, first
    <2>3. QED
      BY <2>1, <2>2
  <1>6. n >= 2 => DownsideDeviation(xs, 0) = Root(RoundDiv(sum[S], n - 1))
    BY SMTT(30) DEF DownsideDeviation, MapThenSumSet, MapThenFoldSet
  <1> HIDE DEF Term, F
  <1>7. g = [s \in SUBSET S |-> IF s = {} THEN 0 ELSE Term(first(s)) + g[s \ {first(s)}]]
    BY <1>4, <1>5 DEF IsSum
  <1>8. sum = [s \in SUBSET S |-> IF s = {} THEN 0 ELSE Term(first(s)) + sum[s \ {first(s)}]]
    <2> HIDE DEF first, S
    <2>1. QED
      BY <1>7, ZenonT(40)
  <1> HIDE DEF sum
  <1>9. IsSum(sum, S, F)
    BY <1>5, <1>8 DEF IsSum
  <1>10. sum[S] = 0
    BY <1>1, <1>2, <1>9, SumsOfFigures
  <1>11. CASE n < 2
    BY <1>11 DEF DownsideDeviation
  <1>12. CASE n >= 2
    <2>1. n - 1 \in Nat \ {0} /\ 0 * (n - 1) = 0
      BY <1>12
    <2>2. RoundDiv(0, n - 1) = 0
      BY <2>1, RoundedQuotient, RoundDivBounds
    <2>3. QED
      BY <1>6, <1>10, <1>12, <2>2 DEF Root
  <1>13. QED
    BY <1>11, <1>12

-----------------------------------------------------------------------------
(* Returns of a range: the figures                                         *)

\* The closes of the common days.
LEMMA ClosesOfDays ==
    ASSUME NEW both \in Seq(CommonDays), NEW code \in {"stock", "bench"}
    PROVE  /\ [i \in DOMAIN both |-> both[i][code]] \in Seq(Nat \ {0})
           /\ Len([i \in DOMAIN both |-> both[i][code]]) = Len(both)
  <1> DEFINE n == Len(both)
             p == [i \in 1 .. n |-> both[i][code]]
  <1>1. n \in Nat /\ DOMAIN both = 1 .. n /\ \A i \in 1 .. n : both[i] \in CommonDays
    OBVIOUS
  <1>2. \A i \in 1 .. n : both[i][code] \in Nat \ {0}
    BY <1>1 DEF CommonDays, DayTypes
  <1> HIDE DEF n
  <1>3. p \in Seq(Nat \ {0}) /\ Len(p) = n
    BY <1>1, <1>2
  <1>4. QED
    BY <1>1, <1>3 DEF n

\* The returns between the closes, from the first day to the last and day by day.
LEMMA ReturnsBetween ==
    ASSUME NEW p \in Seq(Nat \ {0}), p # <<>>
    PROVE  /\ Len(p) - 1 \in Nat
           /\ DailyReturns(p) \in [1 .. Len(p) - 1 -> Int]
           /\ Len(DailyReturns(p)) = Len(p) - 1
           /\ \A i \in 1 .. Len(p) - 1 : DailyReturns(p)[i] = FDiv(p[i + 1], p[i]) - Unit
           /\ CumulativeReturn(p) \in Int
           /\ Len(p) >= 2 => CumulativeReturn(p) = FDiv(p[Len(p)], p[1]) - Unit
  <1> DEFINE n == Len(p)
             m == n - 1
             xs == [i \in 1 .. m |-> FDiv(p[i + 1], p[i]) - Unit]
  <1>1. n \in Nat /\ m \in Nat /\ 1 \in 1 .. n /\ \A i \in 1 .. n : p[i] \in Nat \ {0}
    BY EmptySeq
  <1>2. Unit \in Nat
    BY UnitPositive
  <1>3. \A i \in 1 .. m : FDiv(p[i + 1], p[i]) - Unit \in Int
    <2>1. TAKE i \in 1 .. m
    <2>2. p[i] \in Nat \ {0} /\ p[i + 1] \in Nat
      BY <1>1
    <2> DEFINE x == p[i + 1]
               y == p[i]
    <2>3. x \in Nat /\ y \in Nat \ {0}
      BY <2>2
    <2> HIDE DEF x, y
    <2>4. FDiv(x, y) \in Nat
      BY <2>3, FallWithinReturn
    <2>5. QED
      BY <1>2, <2>4 DEF x, y
  <1>4. DailyReturns(p) = xs
    BY <1>1 DEF DailyReturns
  <1>5. FDiv(p[n], p[1]) - Unit \in Int
    <2>1. p[1] \in Nat \ {0} /\ p[n] \in Nat
      BY <1>1
    <2> DEFINE x == p[n]
               y == p[1]
    <2>2. x \in Nat /\ y \in Nat \ {0}
      BY <2>1
    <2> HIDE DEF x, y
    <2>3. FDiv(x, y) \in Nat
      BY <2>2, FallWithinReturn
    <2>4. QED
      BY <1>2, <2>3 DEF x, y
  <1>6. n >= 2 => CumulativeReturn(p) = FDiv(p[n], p[1]) - Unit
    BY <1>1 DEF CumulativeReturn, Last
  <1>7. n < 2 => CumulativeReturn(p) = 0
    BY DEF CumulativeReturn
  <1>8. CumulativeReturn(p) \in Int
    BY <1>1, <1>5, <1>6, <1>7
  <1>9. xs \in [1 .. m -> Int] /\ \A i \in 1 .. m : xs[i] = FDiv(p[i + 1], p[i]) - Unit
    BY <1>3
  <1>10. Len(xs) = m
    <2> HIDE DEF m
    <2>1. QED
      BY <1>1, <1>3
  <1> HIDE DEF xs
  <1>11. QED
    BY <1>1, <1>4, <1>6, <1>8, <1>9, <1>10

RangeType == joint \in Seq(DayTypes)

Aligned == AlignByDate(joint)
StockCloses == [i \in DOMAIN Aligned |-> Aligned[i].stock]
BenchCloses == [i \in DOMAIN Aligned |-> Aligned[i].bench]

\* Both series of a range have a close for each common day.
LEMMA JoinedCloses ==
    ASSUME RangeType
    PROVE  /\ Aligned \in Seq(CommonDays)
           /\ StockCloses \in Seq(Nat \ {0}) /\ Len(StockCloses) = Len(Aligned)
           /\ BenchCloses \in Seq(Nat \ {0}) /\ Len(BenchCloses) = Len(Aligned)
  <1>1. Aligned \in Seq(CommonDays)
    BY AlignedDays DEF RangeType, Aligned
  <1>2. /\ StockCloses = [i \in DOMAIN Aligned |-> Aligned[i]["stock"]]
        /\ BenchCloses = [i \in DOMAIN Aligned |-> Aligned[i]["bench"]]
    BY DEF StockCloses, BenchCloses
  <1>3. QED
    BY <1>1, <1>2, ClosesOfDays

\* The parts of RangeFiguresAgree, of every range.
LEMMA WorstFallFound == RangeType => DrawdownIsWorstFall
  <1> SUFFICES ASSUME RangeType PROVE DrawdownIsWorstFall
    OBVIOUS
  <1>1. StockCloses \in Seq(Nat \ {0})
    BY JoinedCloses
  <1>2. MaxDrawdown(StockCloses) = Min({0} \cup FallsOf(StockCloses))
    BY <1>1, DrawdownIsLeast
  <1>3. QED
    BY <1>2 DEF DrawdownIsWorstFall, FallsOf, StockCloses, Aligned

\* What the analysis of a range with enough common days gives.
LEMMA FiguresGiven ==
    ASSUME RangeType, GetReturnAnalysis(joint).known
    PROVE  LET a == GetReturnAnalysis(joint)
               p == StockCloses  q == BenchCloses IN
           /\ p # <<>> /\ q # <<>>
           /\ a.cumulative = CumulativeReturn(p)
           /\ a.drawdown = MaxDrawdown(p)
           /\ a.volatility = Deviation(DailyReturns(p))
           /\ a.downside = DownsideDeviation(DailyReturns(p), 0)
           /\ a.calmar = Ratio(CumulativeReturn(p), -MaxDrawdown(p))
           /\ a.beta = Beta(DailyReturns(p), DailyReturns(q))
           /\ a.excess = CumulativeReturn(p) - CumulativeReturn(q)
  <1>1. ~(Len(Aligned) < MinReturnDays)
    BY DEF GetReturnAnalysis, Aligned
  <1>2. Len(Aligned) \in Nat /\ Len(Aligned) # 0
    BY <1>1, JoinedCloses, RangeAssumption
  <1>3. StockCloses # <<>> /\ BenchCloses # <<>>
    BY <1>2, JoinedCloses, EmptySeq
  <1>4. QED
    BY <1>1, <1>3 DEF GetReturnAnalysis, Aligned, StockCloses, BenchCloses

LEMMA DrawdownBounds == RangeType => DrawdownBoundsRisk
  <1> SUFFICES ASSUME RangeType, GetReturnAnalysis(joint).known
               PROVE  LET a == GetReturnAnalysis(joint) IN
                      /\ a.drawdown \in -Unit .. 0
                      /\ a.cumulative < 0 => a.drawdown <= a.cumulative
                      /\ a.drawdown = 0 => a.downside = 0 /\ a.calmar = 0
    BY DEF DrawdownBoundsRisk
  <1> DEFINE a == GetReturnAnalysis(joint)
             p == StockCloses
             n == Len(p)
             d == MaxDrawdown(p)
  <1>1. p \in Seq(Nat \ {0}) /\ p # <<>>
    BY JoinedCloses, FiguresGiven
  <1>2. /\ a.cumulative = CumulativeReturn(p) /\ a.drawdown = d
        /\ a.downside = DownsideDeviation(DailyReturns(p), 0)
        /\ a.calmar = Ratio(CumulativeReturn(p), -d)
    BY FiguresGiven
  <1> HIDE DEF a, p
  <1>3. n \in Nat \ {0} /\ \A i \in 1 .. n : p[i] \in Nat \ {0}
    BY <1>1, EmptySeq
  <1>4. /\ d \in Int /\ d <= 0
        /\ d = 0 \/ \E i, j \in 1 .. n : i <= j /\ d = Fall(p[j], p[i])
        /\ \A i, j \in 1 .. n : i <= j => d <= Fall(p[j], p[i])
    BY <1>1, DrawdownIsLeast
  <1>5. /\ n - 1 \in Nat
        /\ DailyReturns(p) \in [1 .. n - 1 -> Int]
        /\ Len(DailyReturns(p)) = n - 1
        /\ \A i \in 1 .. n - 1 : DailyReturns(p)[i] = FDiv(p[i + 1], p[i]) - Unit
        /\ CumulativeReturn(p) \in Int
        /\ n >= 2 => CumulativeReturn(p) = FDiv(p[n], p[1]) - Unit
    BY <1>1, ReturnsBetween
  <1> HIDE DEF n, d
  <1>6. \A i, j \in 1 .. n : i <= j =>
            /\ -Unit <= Fall(p[j], p[i])
            /\ Fall(p[j], p[i]) \in Int
            /\ FDiv(p[j], p[i]) - Unit \in Int
            /\ d <= FDiv(p[j], p[i]) - Unit
    <2>1. TAKE i, j \in 1 .. n
    <2>2. HAVE i <= j
    <2> DEFINE x == p[j]
               y == p[i]
    <2>3. x \in Nat /\ y \in Nat \ {0} /\ d <= Fall(x, y)
      BY <1>3, <1>4, <2>2
    <2> HIDE DEF x, y
    <2>4. /\ Fall(x, y) \in Int /\ FDiv(x, y) \in Nat /\ Unit \in Nat
          /\ -Unit <= Fall(x, y) /\ Fall(x, y) <= FDiv(x, y) - Unit
      BY <2>3, FallWithinReturn, UnitPositive
    <2>5. d <= FDiv(x, y) - Unit /\ FDiv(x, y) - Unit \in Int
      BY <1>4, <2>3, <2>4
    <2>6. QED
      BY <2>4, <2>5 DEF x, y
  <1>7. d \in -Unit .. 0
    BY <1>4, <1>6, UnitPositive
  <1>8. CumulativeReturn(p) < 0 => d <= CumulativeReturn(p)
    <2>1. CASE n >= 2
      <3>1. 1 \in 1 .. n /\ n \in 1 .. n /\ 1 <= n
        BY <1>3
      <3>2. QED
        BY <1>5, <1>6, <2>1, <3>1
    <2>2. CASE n < 2
      <3>1. CumulativeReturn(p) = 0
        BY <2>2 DEF CumulativeReturn, n
      <3>2. QED
        BY <3>1
    <2>3. QED
      BY <1>3, <2>1, <2>2
  <1>9. ASSUME d = 0
        PROVE  DownsideDeviation(DailyReturns(p), 0) = 0 /\ Ratio(CumulativeReturn(p), -d) = 0
    <2>1. \A i \in 1 .. n - 1 : DailyReturns(p)[i] >= 0
      <3>1. TAKE i \in 1 .. n - 1
      <3>2. i \in 1 .. n /\ i + 1 \in 1 .. n /\ i <= i + 1
        BY <1>3
      <3> DEFINE f == FDiv(p[i + 1], p[i]) - Unit
      <3>3. d <= f /\ f \in Int
        BY <1>6, <3>2
      <3>4. DailyReturns(p)[i] = f
        BY <1>5
      <3> HIDE DEF f
      <3>5. QED
        BY <1>9, <3>3, <3>4
    <2> DEFINE m == n - 1
               xs == DailyReturns(p)
    <2>2. m \in Nat /\ xs \in [1 .. m -> Int] /\ Len(xs) = m /\ \A i \in 1 .. m : xs[i] >= 0
      BY <1>5, <2>1
    <2> HIDE DEF m, xs
    <2>3. DownsideDeviation(xs, 0) = 0
      BY <2>2, NoDownside
    <2>4. QED
      <3> DEFINE z == -d
      <3>1. z \in Int /\ z <= 0 /\ z >= 0
        BY <1>4, <1>9
      <3> HIDE DEF z
      <3>2. Ratio(CumulativeReturn(p), z) = 0
        BY <3>1 DEF Ratio
      <3>3. QED
        BY <2>3, <3>2 DEF xs, z
  <1>10. QED
    BY <1>2, <1>7, <1>8, <1>9 DEF a

\* A figure divided by itself is one.
LEMMA WholeOfItself ==
    ASSUME NEW c \in Nat \ {0}
    PROVE  FDiv(c, c) = Unit
  <1> DEFINE a == c * Unit
  <1>1. a \in Int /\ a = c * Unit /\ Unit \in Int
    BY UnitPositive
  <1> HIDE DEF a
  <1>2. c * Unit <= a /\ a <= c * Unit
    BY <1>1
  <1>3. Unit <= RoundDiv(a, c) /\ RoundDiv(a, c) <= Unit /\ RoundDiv(a, c) \in Int
    BY <1>1, <1>2, RoundDivBetween, RoundDivType
  <1>4. QED
    BY <1>1, <1>3 DEF FDiv, a

LEMMA ItselfAsBenchmark == RangeType => BenchmarkAgainstItself
  <1> SUFFICES ASSUME RangeType PROVE BenchmarkAgainstItself
    OBVIOUS
  <1> DEFINE a == GetReturnAnalysis(joint)
  <1>1. \A i \in DOMAIN Aligned : Aligned[i].stock # 0 /\ Aligned[i].bench # 0
    <2>1. Aligned \in Seq(CommonDays)
      BY JoinedCloses
    <2> HIDE DEF Aligned
    <2>2. \A i \in DOMAIN Aligned : Aligned[i] \in CommonDays
      BY <2>1
    <2>3. QED
      BY <2>2 DEF CommonDays
  <1>2. ASSUME a.known, \A i \in DOMAIN Aligned : Aligned[i].stock = Aligned[i].bench
        PROVE  a.excess = 0 /\ (a.volatility # 0 => a.beta = Unit)
    <2> DEFINE p == StockCloses
               xs == DailyReturns(p)
               n == Len(p) - 1
               c == Covariance(xs, xs)
    <2>1. BenchCloses = p
      BY <1>2 DEF StockCloses, BenchCloses
    <2>2. /\ p \in Seq(Nat \ {0}) /\ p # <<>>
          /\ a.volatility = Deviation(xs)
          /\ a.beta = Beta(xs, xs)
          /\ a.excess = CumulativeReturn(p) - CumulativeReturn(p)
      BY <1>2, <2>1, JoinedCloses, FiguresGiven
    <2> HIDE DEF a, p
    <2>3. n \in Nat /\ xs \in [1 .. n -> Int] /\ Len(xs) = n /\ CumulativeReturn(p) \in Int
      BY <2>2, ReturnsBetween
    <2>4. a.excess = 0
      BY <2>2, <2>3
    <2> HIDE DEF xs, n
    <2>5. c \in Int
      BY <2>3, CovariancesAreWhole
    <2>6. a.volatility = Root(c) /\ a.beta = Ratio(c, c)
      BY <2>2 DEF Deviation, Beta
    <2> HIDE DEF c
    <2>7. ASSUME a.volatility # 0 PROVE a.beta = Unit
      <3>1. ~(c <= 0)
        BY <2>6, <2>7 DEF Root
      <3>2. c \in Nat \ {0}
        BY <2>5, <3>1
      <3>3. QED
        BY <2>6, <3>2, WholeOfItself DEF Ratio
    <2>8. QED
      BY <2>4, <2>7
  <1>3. QED
    BY <1>1, <1>2 DEF BenchmarkAgainstItself, Aligned

LEMMA SectorsAgree == RangeType => SectorReturnsAgree
  <1> SUFFICES ASSUME RangeType PROVE SectorReturnsAgree
    OBVIOUS
  <1> DEFINE items == GetSectorPerformance(joint)
             series(c) == SectorSeries(joint, c)
  <1>1. DOMAIN items = {c \in {"stock", "bench"} : series(c) # <<>>}
    BY DEF GetSectorPerformance
  <1>2. \A c \in DOMAIN items :
            /\ items[c].period = FDiv(Last(series(c)), series(c)[1]) - Unit
            /\ \A n \in SectorDays : items[c].short[n] = NDayReturn(series(c), n)
    BY DEF GetSectorPerformance, SectorItem
  <1>3. \A c \in DOMAIN items : series(c) \in Seq(Nat \ {0}) /\ series(c) # <<>>
    BY <1>1, SectorCloses DEF RangeType
  <1> HIDE DEF items, series
  <1>4. ASSUME NEW c \in DOMAIN items, NEW n \in SectorDays
        PROVE  LET len == Len(SectorSeries(joint, c)) IN
               /\ (items[c].short[n] = {}) = (len <= n)
               /\ len = n + 1 => items[c].short[n] = {items[c].period}
    <2> DEFINE p == series(c)
               len == Len(p)
    <2>1. p \in Seq(Nat \ {0}) /\ p # <<>> /\ n \in Nat
      BY <1>3, RangeAssumption
    <2>2. /\ items[c].period = FDiv(Last(p), p[1]) - Unit
          /\ items[c].short[n] = NDayReturn(p, n)
      BY <1>2
    <2> HIDE DEF p
    <2>3. len \in Nat
      BY <2>1
    <2>4. (NDayReturn(p, n) = {}) = (len <= n)
      BY DEF NDayReturn
    <2>5. len = n + 1 => NDayReturn(p, n) = {FDiv(Last(p), p[1]) - Unit}
      <3>1. HAVE len = n + 1
      <3>2. ~(len <= n) /\ len - n = 1
        BY <2>1, <2>3, <3>1
      <3>3. QED
        BY <3>2 DEF NDayReturn
    <2>6. len = Len(SectorSeries(joint, c))
      BY DEF p, series
    <2>7. QED
      BY <2>2, <2>4, <2>5, <2>6
  <1>5. QED
    BY <1>4 DEF SectorReturnsAgree, items

LEMMA RangeIsTyped == RangeSpec => []RangeType
  <1>1. RangeInit => RangeType
    BY DEF RangeInit, RangeType
  <1>2. RangeType /\ [RangeNext]_joint => RangeType'
    <2> SUFFICES ASSUME RangeType, [RangeNext]_joint PROVE RangeType'
      OBVIOUS
    <2>1. CASE RangeNext
      <3>1. PICK s \in ReturnPrices \cup {0}, b \in BenchmarkPrices \cup {0} : ReturnDay(s, b)
        BY <2>1 DEF RangeNext
      <3>2. [stock |-> s, bench |-> b] \in DayTypes
        BY RangeAssumption DEF DayTypes
      <3>3. QED
        BY <3>1, <3>2 DEF ReturnDay, RangeType
    <2>2. CASE UNCHANGED joint
      BY <2>2 DEF RangeType
    <2>3. QED
      BY <2>1, <2>2
  <1>3. QED
    BY <1>1, <1>2, PTL DEF RangeSpec

\* Whatever bars came in on either side, the drawdown is the worst fall between
\* two common days and bounds the other figures of risk, a symbol that moves as
\* its benchmark has no excess return and a beta of one, and the returns of the
\* sectors are made of the same bars (GetReturnAnalysis, CalcSectorPerformance).
THEOREM RangeFiguresAgree ==
    RangeSpec => [](/\ DrawdownIsWorstFall
                    /\ BenchmarkAgainstItself
                    /\ SectorReturnsAgree
                    /\ DrawdownBoundsRisk)
  <1>1. RangeType => /\ DrawdownIsWorstFall /\ BenchmarkAgainstItself
                     /\ SectorReturnsAgree /\ DrawdownBoundsRisk
    BY WorstFallFound, ItselfAsBenchmark, SectorsAgree, DrawdownBounds
  <1>2. RangeSpec => []RangeType
    BY RangeIsTyped
  <1>3. QED
    BY <1>1, <1>2, PTL

=============================================================================
