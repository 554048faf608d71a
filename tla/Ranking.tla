------------------------------- MODULE Ranking -------------------------------
(***************************************************************************)
(* The strategy ranking over all main-market brands: the pool backtests    *)
(* every brand with every strategy, the results are added up per strategy, *)
(* and the ranking and one drill-down list per strategy are written to     *)
(* Redis, key by key and without an expiry.                                *)
(***************************************************************************)
EXTENDS WorkerPool, Integers

CONSTANTS RankedStrategies, \* the strategies, in the source's fixed order
          Outcome,          \* run -> strategy -> brand -> [ret, trades]
          MaxRankingRuns,   \* bound: runs of the batch
          MaxSetFaults      \* bound: Redis writes that fail

VARIABLES runNo,      \* the run in progress or the last one
          phase,      \* "idle", "pool" or "publish"
          toSet,      \* the strategies whose drill-down is still to be written
          setFaults,
          ranking,    \* the ranking key: [at, items], at = 0 when never computed
          stocks      \* the drill-down keys: strategy -> [at, items]

rankingVars == <<given, feeding, job, left, kept, cancelled, readFaults,
                 runNo, phase, toSet, setFaults, ranking, stocks>>

Idx(s) == CHOOSE i \in DOMAIN RankedStrategies : RankedStrategies[i] = s
StrategySet == Range(RankedStrategies)

\* In descending order of key, the earlier one first on a tie.
SortedDesc(q, key) ==
    LET Before(j, i) == key[j] > key[i] \/ (key[j] = key[i] /\ j < i)
        Place(i) == Cardinality({j \in DOMAIN q : Before(j, i)}) + 1
    IN [n \in DOMAIN q |-> q[CHOOSE i \in DOMAIN q : Place(i) = n]]

ResultOf(s, b) == Outcome[runNo][s][b]

\* The strategy with the highest return among those that traded; the first of
\* RankedStrategies on a tie, none (a set without elements) when none traded.
BestOf(b) ==
    {s \in StrategySet :
        /\ ResultOf(s, b).trades > 0
        /\ \A o \in StrategySet : ResultOf(o, b).trades > 0 =>
              \/ ResultOf(s, b).ret > ResultOf(o, b).ret
              \/ ResultOf(s, b).ret = ResultOf(o, b).ret /\ Idx(s) <= Idx(o)}

Total(f) == MapThenSumSet(LAMBDA x : f[x], DOMAIN f)

\* The merged accumulator of a strategy, from the brands the workers kept.
Item(s, brands) ==
    LET Counted(T) == Cardinality({i \in DOMAIN brands : brands[i] \in T})
    IN [strategy |-> s,
        stockCount |-> Len(brands),
        tradedStocks |-> Counted({b \in Eligible : ResultOf(s, b).trades > 0}),
        positiveCount |-> Counted({b \in Eligible : ResultOf(s, b).ret > 0}),
        sumReturn |-> Total([i \in DOMAIN brands |-> ResultOf(s, brands[i]).ret]),
        totalTrades |-> Total([i \in DOMAIN brands |-> ResultOf(s, brands[i]).trades]),
        bestCount |-> Counted({b \in Eligible : s \in BestOf(b)})]

\* All strategies count the same brands: the averages sort as the sums do (up
\* to the last digit of the division, which is left out here).
RankedItems(brands) ==
    LET items == [i \in DOMAIN RankedStrategies |-> Item(RankedStrategies[i], brands)]
    IN SortedDesc(items, [i \in DOMAIN items |-> items[i].sumReturn])

DrillDown(s, brands) ==
    SortedDesc(brands, [i \in DOMAIN brands |-> ResultOf(s, brands[i]).ret])

RankingInit ==
    /\ given = 0 /\ feeding = FALSE /\ cancelled = FALSE /\ readFaults = 0
    /\ job = [w \in Workers |-> 0] /\ left = Workers
    /\ kept = [w \in Workers |-> <<>>]
    /\ runNo = 0 /\ phase = "idle" /\ toSet = <<>> /\ setFaults = 0
    /\ ranking = [at |-> 0, items |-> <<>>]
    /\ stocks = [s \in StrategySet |-> [at |-> 0, items |-> <<>>]]

StartRanking ==
    /\ phase = "idle" /\ runNo < MaxRankingRuns
    /\ FreshPool
    /\ runNo' = runNo + 1 /\ phase' = "pool"
    /\ UNCHANGED <<toSet, setFaults, ranking, stocks>>

RunWorkers ==
    /\ phase = "pool" /\ PoolStep
    /\ UNCHANGED <<runNo, phase, toSet, setFaults, ranking, stocks>>

\* An error of any goroutine ends the run before anything is written.
PoolFailed ==
    /\ phase = "pool" /\ Ended /\ cancelled
    /\ phase' = "idle"
    /\ UNCHANGED <<poolVars, runNo, toSet, setFaults, ranking, stocks>>

SetRanking ==
    /\ phase = "pool" /\ Ended /\ ~cancelled
    /\ ranking' = [at |-> runNo, items |-> RankedItems(Gathered)]
    /\ phase' = "publish" /\ toSet' = RankedStrategies
    /\ UNCHANGED <<poolVars, runNo, setFaults, stocks>>

SetStocks ==
    /\ phase = "publish" /\ toSet # <<>>
    /\ LET s == Head(toSet)
       IN stocks' = [stocks EXCEPT ![s] =
                        [at |-> runNo, items |-> DrillDown(s, Gathered)]]
    /\ toSet' = Tail(toSet)
    /\ phase' = IF Len(toSet) = 1 THEN "idle" ELSE phase
    /\ UNCHANGED <<poolVars, runNo, setFaults, ranking>>

\* A write that fails ends the run; what was written before it stays.
SetFails ==
    /\ \/ phase = "pool" /\ Ended /\ ~cancelled
       \/ phase = "publish"
    /\ setFaults < MaxSetFaults
    /\ setFaults' = setFaults + 1
    /\ phase' = "idle" /\ toSet' = <<>>
    /\ UNCHANGED <<poolVars, runNo, ranking, stocks>>

RankingNext ==
    StartRanking \/ RunWorkers \/ PoolFailed \/ SetRanking \/ SetStocks \/ SetFails

RankingSpec == RankingInit /\ [][RankingNext]_rankingVars
-----------------------------------------------------------------------------
\* Whatever fails and in whatever order, somebody can move until all
\* goroutines have returned: the batch never hangs in g.Wait().
PoolNeverStuck == phase = "pool" /\ ~Ended => SomeoneCanMove

At(n, s, b) == Outcome[n][s][b]

\* What the proofs ask of the constants: a brand is sent once, a strategy is
\* listed once, and there is a result for every run, strategy and brand.
RankingParams ==
    /\ Jobs \in Seq(Range(Jobs)) /\ IsInjective(Jobs) /\ Eligible \subseteq Range(Jobs)
    /\ WorkerCount \in Nat \ {0} /\ MaxRankingRuns \in Nat
    /\ RankedStrategies \in Seq(StrategySet) /\ IsInjective(RankedStrategies)
    /\ \A n \in 1 .. MaxRankingRuns, s \in StrategySet, b \in Eligible :
         At(n, s, b).ret \in Int /\ At(n, s, b).trades \in Nat

\* The stored ranking counts every eligible brand of its run exactly once,
\* with the sums a sequential loop gives ("the result is the same as the
\* sequential one's"), one best strategy for every brand that traded, and
\* stands in descending order of return.
RankingIsSequential ==
    ranking.at # 0 =>
      LET Returns(s) == Total([b \in Eligible |-> At(ranking.at, s, b).ret])
          Traders == {b \in Eligible : \E s \in StrategySet : At(ranking.at, s, b).trades > 0}
      IN /\ {ranking.items[i].strategy : i \in DOMAIN ranking.items} = StrategySet
         /\ \A i \in DOMAIN ranking.items :
              LET item == ranking.items[i]
              IN /\ item.stockCount = Cardinality(Eligible)
                 /\ item.sumReturn = Returns(item.strategy)
                 /\ i > 1 => item.sumReturn <= ranking.items[i - 1].sumReturn
         /\ Total([i \in DOMAIN ranking.items |-> ranking.items[i].bestCount]) = Cardinality(Traders)

\* A drill-down of the same computation as the ranking lists the brands that
\* the ranking's item of its strategy has counted, each once, best first.
DrillDownAgrees ==
    \A s \in StrategySet :
      LET list == stocks[s].items
      IN stocks[s].at # 0 =>
           /\ Len(list) = Cardinality(Eligible) /\ Range(list) = Eligible
           /\ \A i \in 2..Len(list) :
                At(stocks[s].at, s, list[i]).ret <= At(stocks[s].at, s, list[i - 1]).ret
           /\ stocks[s].at <= ranking.at
           /\ stocks[s].at = ranking.at =>
                \A i \in DOMAIN ranking.items :
                  ranking.items[i].strategy = s =>
                    ranking.items[i].positiveCount =
                      Cardinality({k \in DOMAIN list : At(stocks[s].at, s, list[k]).ret > 0})

\* What the strategy-ranking batch promises.
RankingIsSound == PoolNeverStuck /\ RankingIsSequential /\ DrillDownAgrees
=============================================================================
