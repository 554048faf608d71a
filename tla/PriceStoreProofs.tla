-------------------------- MODULE PriceStoreProofs --------------------------
(***************************************************************************)
(* Proofs about PriceStore, for every set of symbols, uuids, master        *)
(* processes and holidays and whatever the windows and the bounds: that    *)
(* the backfill leaves no gap, that rows are well formed, that the two     *)
(* price tables mirror each other, and that the store, seen by symbol,     *)
(* takes the steps of Market.                                              *)
(***************************************************************************)
EXTENDS PriceStore, TLAPS

-----------------------------------------------------------------------------
(* The shapes of what the processes hold: all that the proofs need of types. *)

Maps == [Symbols -> Ids \cup {NoId}]

DailyShape ==
    /\ daily = [at |-> daily.at, now |-> daily.now, i |-> daily.i, ids |-> daily.ids]
    /\ daily.ids \in Maps

BackfillShape ==
    /\ backfill = [at |-> backfill.at, now |-> backfill.now, day |-> backfill.day,
                   ids |-> backfill.ids]
    /\ backfill.ids \in Maps

MasterShape ==
    /\ master = [m \in Masters |-> master[m]]
    /\ \A m \in Masters :
        /\ master[m] = [at |-> master[m].at, now |-> master[m].now,
                        list |-> master[m].list, ids |-> master[m].ids,
                        old |-> master[m].old]
        /\ master[m].list \subseteq Symbols
        /\ master[m].ids \in Maps
        /\ master[m].old \subseteq Ids

StoreShape == gone \subseteq Ids /\ twinned \in BOOLEAN

Shapes == DailyShape /\ BackfillShape /\ MasterShape /\ StoreShape

LEMMA BrandMapsAreMaps == BrandMaps \subseteq Maps
  BY DEF BrandMaps, Maps

LEMMA ShapesInit == Init => Shapes
  <1> SUFFICES ASSUME Init PROVE Shapes
    OBVIOUS
  <1>1. [s \in Symbols |-> NoId] \in Maps
    BY DEF Maps
  <1>2. DailyShape
    BY <1>1 DEF Init, DailyShape, IdleDaily
  <1>3. BackfillShape
    BY <1>1 DEF Init, BackfillShape, IdleBackfill
  <1>4. MasterShape
    BY <1>1 DEF Init, MasterShape, IdleMaster
  <1>5. StoreShape
    BY DEF Init, StoreShape
  <1>6. QED
    BY <1>2, <1>3, <1>4, <1>5 DEF Shapes

LEMMA ShapesMaster ==
    ASSUME Shapes, NEW m \in Masters, MasterStep(m)
    PROVE  Shapes'
  <1> USE DEF Shapes
  <1>0. [s \in Symbols |-> NoId] \in Maps
    BY DEF Maps
  <1>1. ASSUME NEW L \in SUBSET Symbols, FetchList(m, L) PROVE Shapes'
    <2>1. DailyShape' /\ BackfillShape' /\ StoreShape'
      BY <1>1 DEF FetchList, DailyShape, BackfillShape, StoreShape, store, history
    <2>2. MasterShape'
      BY <1>0, <1>1 DEF FetchList, MasterShape, IdleMaster
    <2>3. QED
      BY <2>1, <2>2
  <1>2. ASSUME ReadMaster(m) PROVE Shapes'
    <2>1. DailyShape' /\ BackfillShape' /\ StoreShape'
      BY <1>2 DEF ReadMaster, DailyShape, BackfillShape, StoreShape, store
    <2>2. PICK f \in BrandMaps :
            master' = [master EXCEPT ![m] =
                [at |-> "tx", now |-> master[m].now, list |-> master[m].list,
                 ids |-> f, old |-> {i \in Live : stamp[i] < master[m].now}]]
      BY <1>2 DEF ReadMaster
    <2>3. f \in Maps /\ {i \in Live : stamp[i] < master[m].now} \subseteq Ids
      BY BrandMapsAreMaps DEF Live, Used
    <2>4. MasterShape'
      BY <2>2, <2>3 DEF MasterShape
    <2>5. QED
      BY <2>1, <2>4
  <1>3. ASSUME CommitMaster(m) PROVE Shapes'
    <2>1. PICK f \in [master[m].list -> Ids] : gone' = gone \cup Delisted(m)
      BY <1>3 DEF CommitMaster
    <2>2. Delisted(m) \subseteq Ids
      BY DEF Delisted, MasterShape
    <2>3. DailyShape' /\ BackfillShape'
      BY <1>3 DEF CommitMaster, DailyShape, BackfillShape
    <2>4. StoreShape'
      BY <1>3, <2>1, <2>2 DEF CommitMaster, StoreShape
    <2>5. MasterShape'
      BY <1>0, <1>3 DEF CommitMaster, MasterShape, IdleMaster
    <2>6. QED
      BY <2>3, <2>4, <2>5
  <1>4. ASSUME MasterFails(m) PROVE Shapes'
    <2>1. DailyShape' /\ BackfillShape' /\ StoreShape'
      BY <1>4 DEF MasterFails, DailyShape, BackfillShape, StoreShape, store, history
    <2>2. MasterShape'
      BY <1>0, <1>4 DEF MasterFails, MasterShape, IdleMaster
    <2>3. QED
      BY <2>1, <2>2
  <1>5. QED
    BY <1>1, <1>2, <1>3, <1>4 DEF MasterStep

\* A step of a price job leaves master, gone and twinned as they are.
LEMMA JobsLeaveBrands ==
    ASSUME DailyStep \/ BackfillStep \/ NextDay \/ Tick
    PROVE  /\ UNCHANGED <<master, gone, twinned, symOf, raced>>
           /\ BackfillStep \/ UNCHANGED backfill
           /\ DailyStep \/ UNCHANGED daily
  <1>1. CASE DailyStep
    BY <1>1 DEF DailyStep, StartDaily, ReadBrands, CommitDay, DailyFails, store, history
  <1>2. CASE BackfillStep
    BY <1>2 DEF BackfillStep, StartBackfill, SkipDay, AskFails, WriteBars, WriteAnalyze,
        SaveCheckpoint, EndBackfill, BackfillDies, ExpireCheckpoint, store, history
  <1>3. CASE NextDay \/ Tick
    BY <1>3 DEF NextDay, Tick, jobs, history
  <1>4. QED
    BY <1>1, <1>2, <1>3

LEMMA ShapeDaily ==
    ASSUME DailyShape, DailyStep
    PROVE  DailyShape'
  <1>0. [s \in Symbols |-> NoId] \in Maps
    BY DEF Maps
  <1>1. CASE StartDaily
    BY <1>0, <1>1 DEF StartDaily, DailyShape, IdleDaily
  <1>2. CASE ReadBrands
    BY <1>2, BrandMapsAreMaps DEF ReadBrands, DailyShape
  <1>3. ASSUME NEW A \in SUBSET Symbols, CommitDay(A) PROVE DailyShape'
    BY <1>0, <1>3 DEF CommitDay, DailyShape, IdleDaily
  <1>4. CASE DailyFails
    BY <1>0, <1>4 DEF DailyFails, DailyShape, IdleDaily
  <1>5. QED
    BY <1>1, <1>2, <1>3, <1>4 DEF DailyStep

LEMMA ShapeBackfill ==
    ASSUME BackfillShape, BackfillStep
    PROVE  BackfillShape'
  <1>0. [s \in Symbols |-> NoId] \in Maps
    BY DEF Maps
  <1>1. CASE StartBackfill
    BY <1>1, BrandMapsAreMaps DEF StartBackfill, BackfillShape
  <1>2. CASE SkipDay
    BY <1>2 DEF SkipDay, BackfillShape
  <1>3. CASE AskFails \/ BackfillDies
    BY <1>0, <1>3 DEF AskFails, BackfillDies, BackfillShape, IdleBackfill
  <1>4. ASSUME NEW ok \in BOOLEAN, WriteBars(ok) \/ WriteAnalyze(ok) \/ SaveCheckpoint(ok)
        PROVE  BackfillShape'
    BY <1>4 DEF WriteBars, WriteAnalyze, SaveCheckpoint, BackfillShape
  <1>5. ASSUME NEW ok \in BOOLEAN, EndBackfill(ok) PROVE BackfillShape'
    BY <1>0, <1>5 DEF EndBackfill, BackfillShape, IdleBackfill
  <1>6. CASE ExpireCheckpoint
    BY <1>6 DEF ExpireCheckpoint, BackfillShape
  <1>7. QED
    BY <1>1, <1>2, <1>3, <1>4, <1>5, <1>6 DEF BackfillStep

LEMMA ShapesStep == Shapes /\ [Next]_vars => Shapes'
  <1> SUFFICES ASSUME Shapes, [Next]_vars PROVE Shapes'
    OBVIOUS
  <1>1. ASSUME NEW m \in Masters, MasterStep(m) PROVE Shapes'
    BY <1>1, ShapesMaster
  <1>2. CASE DailyStep \/ BackfillStep \/ NextDay \/ Tick
    <2>1. MasterShape' /\ StoreShape'
      BY <1>2, JobsLeaveBrands DEF Shapes, MasterShape, StoreShape
    <2>2. DailyShape'
      BY <1>2, JobsLeaveBrands, ShapeDaily DEF Shapes, DailyShape
    <2>3. BackfillShape'
      BY <1>2, JobsLeaveBrands, ShapeBackfill DEF Shapes, BackfillShape
    <2>4. QED
      BY <2>1, <2>2, <2>3 DEF Shapes
  <1>3. CASE UNCHANGED vars
    BY <1>3 DEF vars, store, jobs, history, Shapes, DailyShape, BackfillShape,
        MasterShape, StoreShape
  <1>4. QED
    BY <1>1, <1>2, <1>3 DEF Next

\* Everything the processes hold keeps its shape.
THEOREM StoreKeepsShape == Spec => []Shapes
  BY ShapesInit, ShapesStep, PTL DEF Spec

-----------------------------------------------------------------------------
(* Bars that outlive their brand.  A price job writes with the brands it has *)
(* read, and reads live ones only, so a brand it holds is gone only if it    *)
(* was delisted meanwhile.                                                   *)

HeldGoneAreRaced == \A i \in JobsHold : i \in gone => i \in raced

OrphanInv == Shapes /\ HeldGoneAreRaced /\ OrphansOnlyFromRaces

LEMMA BrandMapsHoldLive ==
    ASSUME NEW f \in BrandMaps
    PROVE  Held(f) \cap gone = {}
  BY DEF BrandMaps, Held, Live

\* What a step that delists nothing may do to the bars and to what jobs hold.
LEMMA OrphansCalm ==
    ASSUME OrphanInv,
           Shapes', gone' = gone, raced' = raced,
           \A i \in gone : i \notin JobsHold => bars'[i] = bars[i],
           \A i \in JobsHold' : i \in JobsHold \/ i \notin gone
    PROVE  OrphanInv'
  BY DEF OrphanInv, HeldGoneAreRaced, OrphansOnlyFromRaces

LEMMA WithBarsSparesOthers ==
    ASSUME NEW f, NEW A \in SUBSET Symbols, NEW d, NEW i \in Ids,
           NoId \notin Ids, i \notin Held(f)
    PROVE  WithBars(f, A, d)[i] = bars[i]
  BY DEF WithBars, Known, Held

LEMMA OrphansCommit ==
    ASSUME OrphanInv, Shapes', NEW m \in Masters, CommitMaster(m)
    PROVE  OrphanInv'
  <1>1. /\ gone' = gone \cup Delisted(m)
        /\ bars' = [i \in Ids |-> IF i \in Delisted(m) THEN {} ELSE bars[i]]
        /\ raced' = raced \cup (Delisted(m) \cap JobsHold)
    BY DEF CommitMaster
  <1>2. JobsHold' = JobsHold
    BY DEF CommitMaster, JobsHold, Held
  <1>3. HeldGoneAreRaced'
    BY <1>1, <1>2 DEF OrphanInv, HeldGoneAreRaced
  <1>4. gone' \subseteq Ids
    BY DEF Shapes, StoreShape
  <1>5. OrphansOnlyFromRaces'
    BY <1>1, <1>4 DEF OrphanInv, OrphansOnlyFromRaces
  <1>6. QED
    BY <1>3, <1>5 DEF OrphanInv

LEMMA OrphansDaily ==
    ASSUME OrphanInv, Shapes', DailyStep
    PROVE  OrphanInv'
  <1>1. gone' = gone /\ raced' = raced /\ gone \subseteq Ids
    BY JobsLeaveBrands DEF OrphanInv, Shapes, StoreShape
  <1>2. UNCHANGED backfill
    BY DEF DailyStep, StartDaily, ReadBrands, CommitDay, DailyFails
  <1>3. daily.ids = daily.ids /\ DailyShape
    BY DEF OrphanInv, Shapes
  <1>4. CASE StartDaily \/ DailyFails
    <2>1. daily'.at \in {"next", "idle"}
      <3>1. CASE StartDaily
        BY <3>1 DEF StartDaily, IdleDaily
      <3>2. CASE DailyFails
        BY <3>2 DEF DailyFails, IdleDaily
      <3>3. QED
        BY <1>4, <3>1, <3>2
    <2>0. bars' = bars
      BY <1>4 DEF StartDaily, DailyFails, store
    <2>2. \A i \in JobsHold' : i \in JobsHold
      BY <1>2, <2>1 DEF JobsHold, Held
    <2>3. QED
      BY <1>1, <2>0, <2>2, OrphansCalm
  <1>5. CASE ReadBrands
    <2>1. PICK f \in BrandMaps : daily' = [daily EXCEPT !.at = "tx", !.ids = f]
      BY <1>5 DEF ReadBrands
    <2>2. daily'.ids = f
      BY <1>3, <2>1 DEF DailyShape
    <2>3. bars' = bars
      BY <1>5 DEF ReadBrands, store
    <2>4. \A i \in JobsHold' : i \in JobsHold \/ i \in Held(f)
      BY <1>2, <2>2 DEF JobsHold, Held
    <2>5. \A i \in JobsHold' : i \in JobsHold \/ i \notin gone
      BY <2>4, BrandMapsHoldLive
    <2>6. QED
      BY <1>1, <2>3, <2>5, OrphansCalm
  <1>6. ASSUME NEW A \in SUBSET Symbols, CommitDay(A) PROVE OrphanInv'
    <2>1. /\ daily.at = "tx"
          /\ bars' = WithBars(daily.ids, A, daily.now - daily.i)
      BY <1>6 DEF CommitDay
    <2>2. daily'.at # "tx"
      BY <1>3, <1>6 DEF CommitDay, DailyShape, IdleDaily
    <2>3. \A i \in JobsHold' : i \in JobsHold
      BY <1>2, <2>2 DEF JobsHold, Held
    <2>4. Held(daily.ids) \subseteq JobsHold
      BY <2>1 DEF JobsHold
    <2>5. \A i \in gone : i \notin JobsHold => bars'[i] = bars[i]
      BY <1>1, <2>1, <2>4, WithBarsSparesOthers, NamesAssumption
    <2>6. QED
      BY <1>1, <2>3, <2>5, OrphansCalm
  <1>7. QED
    BY <1>4, <1>5, <1>6 DEF DailyStep

LEMMA OrphansBackfill ==
    ASSUME OrphanInv, Shapes', BackfillStep
    PROVE  OrphanInv'
  <1>1. gone' = gone /\ raced' = raced /\ gone \subseteq Ids
    BY JobsLeaveBrands DEF OrphanInv, Shapes, StoreShape
  <1>2. UNCHANGED daily
    BY DEF BackfillStep, StartBackfill, SkipDay, AskFails, WriteBars, WriteAnalyze,
        SaveCheckpoint, EndBackfill, BackfillDies, ExpireCheckpoint
  <1>3. BackfillShape
    BY DEF OrphanInv, Shapes
  <1>4. CASE StartBackfill
    <2>1. PICK f \in BrandMaps : backfill'.ids = f
      BY <1>4 DEF StartBackfill
    <2>2. bars' = bars
      BY <1>4 DEF StartBackfill, store
    <2>3. \A i \in JobsHold' : i \in JobsHold \/ i \in Held(f)
      BY <1>2, <2>1 DEF JobsHold, Held
    <2>4. \A i \in JobsHold' : i \in JobsHold \/ i \notin gone
      BY <2>3, BrandMapsHoldLive
    <2>5. QED
      BY <1>1, <2>2, <2>4, OrphansCalm
  <1>5. CASE AskFails \/ BackfillDies \/ \E ok \in BOOLEAN : EndBackfill(ok)
    <2>1. backfill'.at = "idle" /\ bars' = bars
      BY <1>5 DEF AskFails, BackfillDies, EndBackfill, IdleBackfill, store
    <2>2. \A i \in JobsHold' : i \in JobsHold
      BY <1>2, <2>1 DEF JobsHold, Held
    <2>3. QED
      BY <1>1, <2>1, <2>2, OrphansCalm
  <1>6. CASE ExpireCheckpoint
    <2>1. bars' = bars /\ backfill' = backfill
      BY <1>6 DEF ExpireCheckpoint, store
    <2>2. JobsHold' = JobsHold
      BY <1>2, <2>1 DEF JobsHold, Held
    <2>3. QED
      BY <1>1, <2>1, <2>2, OrphansCalm
  <1>7. CASE SkipDay \/ \E ok \in BOOLEAN : WriteBars(ok) \/ WriteAnalyze(ok)
                                              \/ SaveCheckpoint(ok)
    <2>1. backfill.at # "idle"
      BY <1>7 DEF SkipDay, WriteBars, WriteAnalyze, SaveCheckpoint
    <2>2. backfill'.ids = backfill.ids
      BY <1>3, <1>7 DEF BackfillShape, SkipDay, WriteBars, WriteAnalyze, SaveCheckpoint
    <2>3. Held(backfill.ids) \subseteq JobsHold
      BY <2>1 DEF JobsHold
    <2>4. \A i \in JobsHold' : i \in JobsHold
      BY <1>2, <2>1, <2>2 DEF JobsHold, Held
    <2>5. bars' = bars \/ bars' = WithBars(backfill.ids, Answered(backfill.day), backfill.day)
      BY <1>7 DEF SkipDay, WriteBars, WriteAnalyze, SaveCheckpoint, store
    <2>6. Answered(backfill.day) \in SUBSET Symbols
      BY DEF Answered
    <2>7. \A i \in gone : i \notin JobsHold => bars'[i] = bars[i]
      BY <1>1, <2>3, <2>5, <2>6, WithBarsSparesOthers, NamesAssumption
    <2>8. QED
      BY <1>1, <2>4, <2>7, OrphansCalm
  <1>8. QED
    BY <1>4, <1>5, <1>6, <1>7 DEF BackfillStep

LEMMA OrphansStep == OrphanInv /\ [Next]_vars => OrphanInv'
  <1> SUFFICES ASSUME OrphanInv, [Next]_vars PROVE OrphanInv'
    OBVIOUS
  <1>0. Shapes'
    BY ShapesStep DEF OrphanInv
  <1>1. ASSUME NEW m \in Masters, MasterStep(m) PROVE OrphanInv'
    <2>1. CASE CommitMaster(m)
      BY <1>0, <2>1, OrphansCommit
    <2>2. CASE ReadMaster(m) \/ MasterFails(m) \/ \E L \in SUBSET Symbols : FetchList(m, L)
      <3>1. UNCHANGED <<gone, raced, bars, daily, backfill>>
        BY <2>2 DEF ReadMaster, MasterFails, FetchList, store, history
      <3>2. JobsHold' = JobsHold
        BY <3>1 DEF JobsHold, Held
      <3>3. QED
        BY <1>0, <3>1, <3>2, OrphansCalm
    <2>3. QED
      BY <1>1, <2>1, <2>2 DEF MasterStep
  <1>2. CASE DailyStep
    BY <1>0, <1>2, OrphansDaily
  <1>3. CASE BackfillStep
    BY <1>0, <1>3, OrphansBackfill
  <1>4. CASE NextDay \/ Tick \/ UNCHANGED vars
    <2>1. UNCHANGED <<gone, raced, bars, daily, backfill>>
      BY <1>4 DEF NextDay, Tick, vars, store, jobs, history
    <2>2. JobsHold' = JobsHold
      BY <2>1 DEF JobsHold, Held
    <2>3. QED
      BY <1>0, <2>1, <2>2, OrphansCalm
  <1>5. QED
    BY <1>1, <1>2, <1>3, <1>4 DEF Next

LEMMA OrphansInit == Init => OrphanInv
  <1> SUFFICES ASSUME Init PROVE OrphanInv
    OBVIOUS
  <1>1. JobsHold = {}
    BY DEF Init, JobsHold, IdleDaily, IdleBackfill
  <1>2. gone = {}
    BY DEF Init
  <1>3. QED
    BY <1>1, <1>2, ShapesInit DEF OrphanInv, HeldGoneAreRaced, OrphansOnlyFromRaces

\* A live bar of a delisted brand is left only by a price job that had read the
\* brands before the delisting committed (handleDelistedStockBrands).
THEOREM OrphansNeedARace == Spec => []OrphansOnlyFromRaces
  <1>1. OrphanInv => OrphansOnlyFromRaces
    BY DEF OrphanInv
  <1>2. QED
    BY <1>1, OrphansInit, OrphansStep, PTL DEF Spec

-----------------------------------------------------------------------------
(* One row per symbol.  While no two master transactions have overlapped, a   *)
(* transaction's snapshot of the rows is the rows: it names the one live row  *)
(* of every symbol that has one, and its commit finds nothing it did not see. *)

OneTx == \A m, o \in Masters : master[m].at = "tx" /\ master[o].at = "tx" => m = o

Unique == \A i, j \in Live : symOf[i] = symOf[j] => i = j

SnapshotIsTrue(m) ==
    /\ \A s \in Symbols : master[m].ids[s] # NoId =>
           master[m].ids[s] \in Live /\ symOf[master[m].ids[s]] = s
    /\ \A i \in Live : symOf[i] \in Symbols => master[m].ids[symOf[i]] = i
    /\ master[m].old \subseteq Live

SnapshotsAreTrue == \A m \in Masters : master[m].at = "tx" => SnapshotIsTrue(m)

SnapInv ==
    /\ Shapes
    /\ \A i \in Used : symOf[i] \in Symbols
    /\ ~twinned => OneTx /\ Unique /\ SnapshotsAreTrue

\* A step that leaves the brand rows alone and takes no snapshot.
LEMMA SnapCalm ==
    ASSUME SnapInv, Shapes', UNCHANGED <<symOf, gone, twinned>>,
           \A m \in Masters : master'[m].at = "tx" => master'[m] = master[m]
    PROVE  SnapInv'
  <1>1. Live' = Live /\ Used' = Used
    BY DEF Live, Used
  <1>2. ASSUME NEW m \in Masters, master'[m] = master[m], SnapshotIsTrue(m)
        PROVE  SnapshotIsTrue(m)'
    BY <1>1, <1>2 DEF SnapshotIsTrue
  <1>3. SnapshotsAreTrue => SnapshotsAreTrue'
    BY <1>2 DEF SnapshotsAreTrue
  <1>4. (OneTx => OneTx') /\ (Unique => Unique')
    BY <1>1 DEF OneTx, Unique
  <1>5. QED
    BY <1>1, <1>3, <1>4 DEF SnapInv

LEMMA SnapRead ==
    ASSUME SnapInv, Shapes', NEW m \in Masters, ReadMaster(m)
    PROVE  SnapInv'
  <1>1. PICK f \in BrandMaps :
            master' = [master EXCEPT ![m] =
                [at |-> "tx", now |-> master[m].now, list |-> master[m].list,
                 ids |-> f, old |-> {i \in Live : stamp[i] < master[m].now}]]
    BY DEF ReadMaster
  <1>2. /\ UNCHANGED <<symOf, gone>>
        /\ twinned' = (twinned \/ \E o \in Masters \ {m} : master[o].at = "tx")
    BY DEF ReadMaster, store
  <1>3. Live' = Live /\ Used' = Used
    BY <1>2 DEF Live, Used
  <1>4. MasterShape
    BY DEF SnapInv, Shapes
  <1>5. /\ master'[m].at = "tx" /\ master'[m].ids = f
        /\ master'[m].old = {i \in Live : stamp[i] < master[m].now}
        /\ \A o \in Masters : o # m => master'[o] = master[o]
    BY <1>1, <1>4 DEF MasterShape
  <1>6. ASSUME ~twinned' PROVE OneTx' /\ Unique' /\ SnapshotsAreTrue'
    <2>1. /\ ~twinned /\ Unique
          /\ \A o \in Masters : o # m => master'[o].at # "tx"
      BY <1>2, <1>5, <1>6 DEF SnapInv, Shapes, StoreShape
    <2>2. OneTx'
      BY <2>1 DEF OneTx
    <2>3. Unique'
      BY <1>2, <1>3, <2>1 DEF Unique
    <2>4. ASSUME NEW s \in Symbols
          PROVE  /\ f[s] # NoId => f[s] \in Live /\ symOf[f[s]] = s
                 /\ \A i \in Live : symOf[i] = s => f[s] = i
      <3> DEFINE rows == {i \in Live : symOf[i] = s}
      <3>1. IF rows = {} THEN f[s] = NoId ELSE f[s] \in rows
        BY DEF BrandMaps
      <3>2. \A i, j \in rows : i = j
        BY <2>1 DEF Unique
      <3>3. QED
        BY <3>1, <3>2
    <2>5. SnapshotIsTrue(m)'
      BY <1>2, <1>3, <1>5, <2>4 DEF SnapshotIsTrue
    <2>6. SnapshotsAreTrue'
      BY <2>1, <2>5 DEF SnapshotsAreTrue
    <2>7. QED
      BY <2>2, <2>3, <2>6
  <1>7. QED
    BY <1>2, <1>3, <1>6 DEF SnapInv

LEMMA SnapCommit ==
    ASSUME SnapInv, Shapes', NEW m \in Masters, CommitMaster(m)
    PROVE  SnapInv'
  <1> DEFINE ids == master[m].ids
             list == master[m].list
  <1>1. PICK f \in [list -> Ids] :
            /\ Assigned(m, f)
            /\ symOf' = [i \in Ids |-> IF i \in {f[s] : s \in list}
                                       THEN CHOOSE s \in list : f[s] = i
                                       ELSE symOf[i]]
            /\ gone' = gone \cup Delisted(m)
    BY DEF CommitMaster
  <1>2. master[m].at = "tx" /\ UNCHANGED twinned
    BY DEF CommitMaster
  <1>3. MasterShape /\ list \subseteq Symbols
    BY DEF SnapInv, Shapes, MasterShape
  <1>4. master'[m].at = "idle" /\ \A o \in Masters : o # m => master'[o] = master[o]
    BY <1>3 DEF CommitMaster, IdleMaster, MasterShape
  <1> DEFINE upserted == {f[s] : s \in list}
  <1>5. ASSUME NEW i \in upserted PROVE symOf'[i] \in list /\ f[symOf'[i]] = i
    BY <1>1, <1>5
  <1>6. \A i \in Ids \ upserted : symOf'[i] = symOf[i]
    BY <1>1
  <1> HIDE DEF upserted
  <1>7. \A i \in Used' : symOf'[i] \in Symbols
    <2>1. ASSUME NEW i \in Used' PROVE symOf'[i] \in Symbols
      <3>1. CASE i \in upserted
        BY <1>3, <1>5, <3>1
      <3>2. CASE i \notin upserted
        BY <1>6, <2>1, <3>2 DEF SnapInv, Used
      <3>3. QED
        BY <3>1, <3>2
    <2>2. QED
      BY <2>1
  <1>8. ASSUME ~twinned' PROVE OneTx' /\ Unique' /\ SnapshotsAreTrue'
    <2>1. OneTx /\ Unique /\ SnapshotIsTrue(m)
      BY <1>2, <1>8 DEF SnapInv, SnapshotsAreTrue
    <2>2. \A o \in Masters : master'[o].at # "tx"
      BY <1>2, <1>4, <2>1 DEF OneTx
    <2>3. ASSUME NEW i \in Live', i \notin upserted PROVE i \in Live /\ symOf'[i] = symOf[i]
      BY <1>1, <1>6, <2>3 DEF Live, Used
    <2>4. ASSUME NEW i \in upserted, NEW j \in Live', j \notin upserted, symOf'[i] = symOf'[j]
          PROVE  FALSE
      <3>1. j \in Live /\ symOf[j] \in list
        BY <1>5, <2>3, <2>4
      <3>2. ids[symOf[j]] = j
        BY <1>3, <2>1, <3>1 DEF SnapshotIsTrue
      <3>3. j \in Ids /\ j # NoId
        BY <3>1, NamesAssumption DEF Live, Used
      <3>4. f[symOf[j]] = j
        BY <1>1, <3>1, <3>2, <3>3 DEF Assigned
      <3>5. QED
        BY <2>4, <3>1, <3>4 DEF upserted
    <2>5. ASSUME NEW i \in Live', NEW j \in Live', symOf'[i] = symOf'[j] PROVE i = j
      <3>1. CASE i \in upserted /\ j \in upserted
        BY <1>5, <2>5, <3>1
      <3>2. CASE i \notin upserted /\ j \notin upserted
        BY <2>1, <2>3, <2>5, <3>2 DEF Unique
      <3>3. QED
        BY <2>4, <2>5, <3>1, <3>2
    <2>6. QED
      BY <2>2, <2>5 DEF OneTx, Unique, SnapshotsAreTrue
  <1>9. QED
    BY <1>7, <1>8 DEF SnapInv

LEMMA SnapStep == SnapInv /\ [Next]_vars => SnapInv'
  <1> SUFFICES ASSUME SnapInv, [Next]_vars PROVE SnapInv'
    OBVIOUS
  <1>0. Shapes' /\ MasterShape
    BY ShapesStep DEF SnapInv, Shapes
  <1>1. ASSUME NEW m \in Masters, MasterStep(m) PROVE SnapInv'
    <2>1. CASE CommitMaster(m)
      BY <1>0, <2>1, SnapCommit
    <2>2. CASE ReadMaster(m)
      BY <1>0, <2>2, SnapRead
    <2>3. CASE MasterFails(m)
      <3>1. /\ UNCHANGED <<symOf, gone, twinned>>
            /\ master'[m].at = "idle" /\ \A o \in Masters : o # m => master'[o] = master[o]
        BY <1>0, <2>3 DEF MasterFails, IdleMaster, MasterShape, store, history
      <3>2. QED
        BY <1>0, <3>1, SnapCalm
    <2>4. ASSUME NEW L \in SUBSET Symbols, FetchList(m, L) PROVE SnapInv'
      <3>1. /\ UNCHANGED <<symOf, gone, twinned>>
            /\ master'[m].at = "listed" /\ \A o \in Masters : o # m => master'[o] = master[o]
        BY <1>0, <2>4 DEF FetchList, IdleMaster, MasterShape, store, history
      <3>2. QED
        BY <1>0, <3>1, SnapCalm
    <2>5. QED
      BY <1>1, <2>1, <2>2, <2>3, <2>4 DEF MasterStep
  <1>2. CASE DailyStep \/ BackfillStep \/ NextDay \/ Tick
    BY <1>0, <1>2, JobsLeaveBrands, SnapCalm
  <1>3. CASE UNCHANGED vars
    BY <1>0, <1>3, SnapCalm DEF vars, store, jobs, history
  <1>4. QED
    BY <1>1, <1>2, <1>3 DEF Next

LEMMA SnapInit == Init => SnapInv
  <1> SUFFICES ASSUME Init PROVE SnapInv
    OBVIOUS
  <1>1. Used = {} /\ Live = {}
    BY DEF Init, Used, Live
  <1>2. \A m \in Masters : master[m].at # "tx"
    BY DEF Init, IdleMaster
  <1>3. QED
    BY <1>1, <1>2, ShapesInit DEF SnapInv, OneTx, Unique, SnapshotsAreTrue

\* stock_brand has no unique key on ticker_symbol; two live rows of one symbol
\* come only from master transactions that overlapped (Update of
\* update_stock_brands.go, one read and one upsert per transaction).
THEOREM TwinsNeedAnOverlap == Spec => []OneRowPerSymbol
  <1>1. SnapInv => OneRowPerSymbol
    BY DEF SnapInv, Unique, OneRowPerSymbol
  <1>2. QED
    BY <1>1, SnapInit, SnapStep, PTL DEF Spec

\* What the commit takes belongs to no symbol of the list it was given.
LEMMA CommitSparesListed ==
    ASSUME SnapInv, NEW m \in Masters, CommitMaster(m), ~twinned,
           NEW s \in master[m].list
    PROVE  /\ analyze[s] \subseteq analyze'[s]
           /\ \A i \in Live : symOf[i] = s => i \notin gone'
  <1>1. /\ gone' = gone \cup Delisted(m)
        /\ analyze' = [t \in Symbols |-> IF \E i \in Delisted(m) : symOf[i] = t
                                         THEN {} ELSE analyze[t]]
    BY DEF CommitMaster
  <1>2. s \in Symbols
    BY DEF SnapInv, Shapes, MasterShape
  <1>3. SnapshotIsTrue(m)
    BY DEF SnapInv, SnapshotsAreTrue, CommitMaster
  <1>4. ASSUME NEW i \in Delisted(m), symOf[i] = s PROVE FALSE
    <2>1. i \in Live
      BY <1>3 DEF Delisted, SnapshotIsTrue
    <2>2. master[m].ids[s] = i
      BY <1>2, <1>3, <1>4, <2>1 DEF SnapshotIsTrue
    <2>3. QED
      BY <2>2 DEF Delisted
  <1>5. \A i \in Live : symOf[i] = s => i \notin gone'
    BY <1>1, <1>4 DEF Live
  <1>6. QED
    BY <1>1, <1>2, <1>4, <1>5

LEMMA SparedStep ==
    ASSUME SnapInv, [Next]_vars, NEW m \in Masters,
           master[m].at = "tx", master'[m].at = "idle", ~twinned,
           NEW s \in master[m].list
    PROVE  /\ analyze[s] \subseteq analyze'[s]
           /\ \A i \in Live : symOf[i] = s => i \notin gone'
  <1>1. MasterShape
    BY DEF SnapInv, Shapes
  <1>2. CASE DailyStep \/ BackfillStep \/ NextDay \/ Tick \/ UNCHANGED vars
    BY <1>2, JobsLeaveBrands DEF vars, jobs
  <1>3. ASSUME NEW o \in Masters, MasterStep(o), o # m PROVE FALSE
    BY <1>1, <1>3 DEF MasterStep, FetchList, ReadMaster, CommitMaster, MasterFails, MasterShape
  <1>4. CASE CommitMaster(m)
    BY <1>4, CommitSparesListed
  <1>5. CASE MasterFails(m)
    BY <1>5 DEF MasterFails, store, Live
  <1>6. CASE ReadMaster(m) \/ \E L \in SUBSET Symbols : FetchList(m, L)
    BY <1>6 DEF ReadMaster, FetchList, MasterShape
  <1>7. QED
    BY <1>2, <1>3, <1>4, <1>5, <1>6 DEF Next, MasterStep

\* Without overlapping transactions the master batch takes no brand row and no
\* analysis row from a symbol its list names (the delisting of
\* update_stock_brands.go), however the clock stands between the runs.
THEOREM ListedAreSpared == Spec => MasterSparesListed
  <1>1. SnapInv /\ [Next]_vars =>
            [\A m \in Masters :
                master[m].at = "tx" /\ master'[m].at = "idle" /\ ~twinned =>
                    \A s \in master[m].list :
                        /\ analyze[s] \subseteq analyze'[s]
                        /\ \A i \in Live : symOf[i] = s => i \notin gone']_vars
    BY SparedStep
  <1>2. QED
    BY <1>1, SnapInit, SnapStep, PTL DEF Spec, MasterSparesListed

-----------------------------------------------------------------------------
(* The backfill leaves no gap.  The claim is made of three dates: where an    *)
(* ended run stopped, the day before the one a run is at, and the checkpoint  *)
(* from which the next one resumes, which is never ahead of the run.          *)

\* From from to u, every open day outside failed has a bar in b of the ids.
FilledTo(from, u, ids, b, failed) ==
    \A d \in from .. u, i \in ids : Answered(d) # {} /\ d \notin failed => d \in b[i]

DayFilled(d, ids, b, failed) == \A i \in ids : d \notin failed => d \in b[i]

Filled(u) == FilledTo(chain.from, u, chain.ids \ gone, bars, lost.bars)

DayTypes ==
    /\ today \in Int
    /\ chain = [from |-> chain.from, upTo |-> chain.upTo, ids |-> chain.ids]
    /\ chain.from \in Int /\ chain.upTo \in Int /\ chain.ids \subseteq Ids
    /\ lost = [bars |-> lost.bars, analyze |-> lost.analyze]
    /\ backfill.at # "idle" => backfill.day \in Int /\ backfill.now \in Int
    /\ checkpoint # NoDay => checkpoint \in Int

HiddenAreGone == \A i \in Ids : hidden[i] # {} => i \in gone

RunIsAhead ==
    backfill.at # "idle" =>
        /\ chain.ids \subseteq Held(backfill.ids)
        /\ checkpoint # NoDay => checkpoint <= backfill.day - 1

ClaimsHold ==
    /\ Filled(chain.upTo)
    /\ backfill.at # "idle" => Filled(backfill.day - 1)
    /\ backfill.at = "idle" /\ checkpoint # NoDay => Filled(checkpoint)
    /\ backfill.at \in {"analyze", "save"} =>
           DayFilled(backfill.day, chain.ids \ gone, bars, lost.bars)

GapInv == Shapes /\ DayTypes /\ HiddenAreGone /\ RunIsAhead /\ ClaimsHold

LEMMA FilledKeeps ==
    ASSUME NEW from, NEW u, NEW ids, NEW b, NEW failed, FilledTo(from, u, ids, b, failed),
           NEW ids2, NEW b2, NEW failed2, ids2 \subseteq ids, failed \subseteq failed2,
           \A i \in ids2 : b[i] \subseteq b2[i]
    PROVE  FilledTo(from, u, ids2, b2, failed2)
  BY DEF FilledTo

LEMMA DayKeeps ==
    ASSUME NEW d, NEW ids, NEW b, NEW failed, DayFilled(d, ids, b, failed),
           NEW ids2, NEW b2, NEW failed2, ids2 \subseteq ids, failed \subseteq failed2,
           \A i \in ids2 : b[i] \subseteq b2[i]
    PROVE  DayFilled(d, ids2, b2, failed2)
  BY DEF DayFilled

LEMMA FilledOneMore ==
    ASSUME NEW from \in Int, NEW u \in Int, NEW ids, NEW b, NEW failed,
           FilledTo(from, u - 1, ids, b, failed),
           Answered(u) = {} \/ DayFilled(u, ids, b, failed)
    PROVE  FilledTo(from, u, ids, b, failed)
  <1>1. \A d \in from .. u : d \in from .. u - 1 \/ d = u
    OBVIOUS
  <1>2. QED
    BY <1>1 DEF FilledTo, DayFilled

LEMMA FilledLess ==
    ASSUME NEW from \in Int, NEW u \in Int, NEW v \in Int, v <= u, NEW ids, NEW b, NEW failed,
           FilledTo(from, u, ids, b, failed)
    PROVE  FilledTo(from, v, ids, b, failed)
  <1>1. from .. v \subseteq from .. u
    OBVIOUS
  <1>2. QED
    BY <1>1 DEF FilledTo

LEMMA FilledNone ==
    ASSUME NEW u \in Int, NEW ids, NEW b, NEW failed
    PROVE  FilledTo(u, u - 1, ids, b, failed)
  <1>1. u .. u - 1 = {}
    OBVIOUS
  <1>2. QED
    BY <1>1 DEF FilledTo

LEMMA WithBarsGrows ==
    ASSUME NEW f, NEW A, NEW d, NEW i \in Ids
    PROVE  bars[i] \subseteq WithBars(f, A, d)[i]
  BY DEF WithBars

LEMMA WithBarsFills ==
    ASSUME NEW f, NEW d, NEW i \in Ids, i \in Held(f), hidden[i] = {}
    PROVE  d \in WithBars(f, Symbols, d)[i]
  <1>1. PICK s \in Symbols : f[s] = i /\ f[s] # NoId
    BY DEF Held
  <1>2. s \in Known(f, Symbols)
    BY <1>1 DEF Known
  <1>3. QED
    BY <1>1, <1>2 DEF WithBars

\* Whatever the other processes do: rows are added, or go with their brand.
LEMMA GapQuiet ==
    ASSUME GapInv, Shapes', UNCHANGED <<backfill, chain, lost>>, today' \in Int,
           checkpoint' \in {checkpoint, NoDay}, gone \subseteq gone',
           \A i \in Ids : i \notin gone' => bars[i] \subseteq bars'[i] /\ hidden'[i] = hidden[i]
    PROVE  GapInv'
  <1>1. DayTypes' /\ RunIsAhead'
    BY DEF GapInv, DayTypes, RunIsAhead, Held
  <1>2. HiddenAreGone'
    BY DEF GapInv, HiddenAreGone
  <1>3. /\ chain.ids \ gone' \subseteq chain.ids \ gone
        /\ \A i \in chain.ids \ gone' : bars[i] \subseteq bars'[i]
    BY DEF GapInv, DayTypes
  <1>4. ASSUME NEW u, Filled(u) PROVE FilledTo(chain.from, u, chain.ids \ gone', bars', lost.bars)
    BY <1>3, <1>4, FilledKeeps DEF Filled
  <1>5. ASSUME NEW d, DayFilled(d, chain.ids \ gone, bars, lost.bars)
        PROVE  DayFilled(d, chain.ids \ gone', bars', lost.bars)
    BY <1>3, <1>5, DayKeeps
  <1>6. Filled(chain.upTo)'
    BY <1>4 DEF GapInv, ClaimsHold, Filled
  <1>7. backfill'.at # "idle" => Filled(backfill.day - 1)'
    BY <1>4 DEF GapInv, ClaimsHold, Filled
  <1>8. backfill'.at = "idle" /\ checkpoint' # NoDay => Filled(checkpoint)'
    BY <1>4 DEF GapInv, ClaimsHold, Filled
  <1>9. backfill'.at \in {"analyze", "save"} =>
            DayFilled(backfill.day, chain.ids \ gone, bars, lost.bars)'
    BY <1>5 DEF GapInv, ClaimsHold
  <1>10. QED
    BY <1>1, <1>2, <1>6, <1>7, <1>8, <1>9 DEF GapInv, ClaimsHold

LEMMA GapStart ==
    ASSUME GapInv, Shapes', StartBackfill
    PROVE  GapInv'
  <1>1. PICK f \in BrandMaps :
            LET fresh == checkpoint = NoDay
                start == IF fresh THEN today - Span ELSE checkpoint + 1
            IN  /\ backfill' = [at |-> "ask", now |-> today, day |-> start, ids |-> f]
                /\ chain' = IF fresh
                            THEN [from |-> start, upTo |-> start - 1, ids |-> Held(f)]
                            ELSE [chain EXCEPT !.ids = @ \cap Held(f)]
    BY DEF StartBackfill
  <1>2. backfill.at = "idle" /\ UNCHANGED <<today, gone, bars, hidden, checkpoint, lost>>
    BY DEF StartBackfill, store
  <1>3. Held(f) \subseteq Ids
    BY DEF BrandMaps, Held
  <1>4. HiddenAreGone'
    BY <1>2 DEF GapInv, HiddenAreGone
  <1>5. CASE checkpoint = NoDay
    <2> DEFINE start == today - Span
    <2>1. /\ backfill' = [at |-> "ask", now |-> today, day |-> start, ids |-> f]
          /\ chain' = [from |-> start, upTo |-> start - 1, ids |-> Held(f)]
      BY <1>1, <1>5
    <2>2. start \in Int /\ today \in Int
      BY DaysAssumption DEF GapInv, DayTypes
    <2> HIDE DEF start
    <2>3. backfill'.at = "ask" /\ backfill'.day = start /\ backfill'.now = today
          /\ backfill'.ids = f
      BY <2>1
    <2>4. chain'.from = start /\ chain'.upTo = start - 1 /\ chain'.ids = Held(f)
      BY <2>1
    <2>5. DayTypes'
      BY <1>2, <1>3, <1>5, <2>1, <2>2, <2>3, <2>4 DEF GapInv, DayTypes
    <2>6. RunIsAhead'
      BY <1>2, <1>5, <2>3, <2>4 DEF RunIsAhead, Held
    <2>7. \A ids, b, failed : FilledTo(start, start - 1, ids, b, failed)
      BY <2>2, FilledNone
    <2>8. ClaimsHold'
      BY <2>3, <2>4, <2>7 DEF ClaimsHold, Filled
    <2>9. QED
      BY <1>4, <2>5, <2>6, <2>8 DEF GapInv
  <1>6. CASE checkpoint # NoDay
    <2>1. /\ backfill' = [at |-> "ask", now |-> today, day |-> checkpoint + 1, ids |-> f]
          /\ chain' = [chain EXCEPT !.ids = @ \cap Held(f)]
      BY <1>1, <1>6
    <2>2. today \in Int /\ checkpoint \in Int
      BY <1>6 DEF GapInv, DayTypes
    <2>3. backfill'.at = "ask" /\ backfill'.day = checkpoint + 1 /\ backfill'.now = today
          /\ backfill'.ids = f /\ backfill'.day - 1 = checkpoint
      BY <2>1, <2>2
    <2>4. chain' = [from |-> chain.from, upTo |-> chain.upTo, ids |-> chain.ids \cap Held(f)]
      BY <2>1 DEF GapInv, DayTypes
    <2>5. chain'.from = chain.from /\ chain'.upTo = chain.upTo
          /\ chain'.ids = chain.ids \cap Held(f)
      BY <2>4
    <2>6. DayTypes'
      BY <1>2, <1>3, <2>2, <2>3, <2>4, <2>5 DEF GapInv, DayTypes
    <2>7. RunIsAhead'
      BY <1>2, <2>2, <2>3, <2>5 DEF RunIsAhead, Held
    <2>8. ASSUME NEW u, Filled(u)
          PROVE  FilledTo(chain'.from, u, chain'.ids \ gone', bars', lost'.bars)
      BY <1>2, <2>5, <2>8, FilledKeeps DEF Filled
    <2>9. Filled(chain.upTo) /\ Filled(checkpoint)
      BY <1>2, <1>6 DEF GapInv, ClaimsHold
    <2>10. ClaimsHold'
      BY <2>3, <2>5, <2>8, <2>9 DEF ClaimsHold, Filled
    <2>11. QED
      BY <1>4, <2>6, <2>7, <2>10 DEF GapInv
  <1>7. QED
    BY <1>5, <1>6

\* A step of a run that keeps its brands, its chain and the rows.
LEMMA GapStay ==
    ASSUME GapInv, Shapes', UNCHANGED <<today, gone, bars, hidden, chain>>,
           lost' = [bars |-> lost'.bars, analyze |-> lost'.analyze],
           lost.bars \subseteq lost'.bars,
           backfill'.at # "idle" =>
               /\ backfill'.ids = backfill.ids /\ backfill.at # "idle"
               /\ backfill'.day \in Int /\ backfill'.now \in Int
               /\ FilledTo(chain.from, backfill'.day - 1, chain.ids \ gone, bars, lost'.bars)
               /\ checkpoint' # NoDay => checkpoint' <= backfill'.day - 1,
           checkpoint' # NoDay => checkpoint' \in Int
               /\ (backfill'.at = "idle" =>
                       FilledTo(chain.from, checkpoint', chain.ids \ gone, bars, lost'.bars)),
           backfill'.at \in {"analyze", "save"} =>
               DayFilled(backfill'.day, chain.ids \ gone, bars, lost'.bars)
    PROVE  GapInv'
  <1>1. DayTypes'
    BY DEF GapInv, DayTypes
  <1>2. HiddenAreGone'
    BY DEF GapInv, HiddenAreGone
  <1>3. RunIsAhead'
    BY DEF GapInv, RunIsAhead, Held
  <1>4. FilledTo(chain.from, chain.upTo, chain.ids \ gone, bars, lost'.bars)
    BY FilledKeeps DEF GapInv, ClaimsHold, Filled
  <1>5. ClaimsHold'
    BY <1>4 DEF ClaimsHold, Filled
  <1>6. QED
    BY <1>1, <1>2, <1>3, <1>5 DEF GapInv

\* The facts about a run that the lemmas below start from.
LEMMA GapFacts ==
    ASSUME GapInv, backfill.at # "idle"
    PROVE  /\ backfill.day \in Int /\ backfill.now \in Int
           /\ chain.from \in Int /\ chain.upTo \in Int /\ chain.ids \subseteq Ids
           /\ backfill = [at |-> backfill.at, now |-> backfill.now, day |-> backfill.day,
                          ids |-> backfill.ids]
           /\ lost = [bars |-> lost.bars, analyze |-> lost.analyze]
           /\ FilledTo(chain.from, backfill.day - 1, chain.ids \ gone, bars, lost.bars)
           /\ checkpoint # NoDay => checkpoint \in Int /\ checkpoint <= backfill.day - 1
  BY DEF GapInv, DayTypes, Shapes, BackfillShape, ClaimsHold, Filled, RunIsAhead

LEMMA GapSkip ==
    ASSUME GapInv, Shapes', SkipDay
    PROVE  GapInv'
  <1>1. backfill.at = "ask" /\ Answered(backfill.day) = {}
        /\ UNCHANGED <<today, gone, bars, hidden, chain, lost, checkpoint>>
    BY DEF SkipDay, store, history
  <1>2. backfill' = [at |-> backfill.at, now |-> backfill.now, day |-> backfill.day + 1,
                     ids |-> backfill.ids]
    BY <1>1, GapFacts DEF SkipDay
  <1>3. backfill'.day - 1 = backfill.day
    BY <1>1, <1>2, GapFacts
  <1>4. FilledTo(chain.from, backfill.day, chain.ids \ gone, bars, lost.bars)
    BY <1>1, GapFacts, FilledOneMore
  <1>5. checkpoint # NoDay => checkpoint <= backfill.day
    BY <1>1, GapFacts
  <1>6. backfill'.at = "ask" /\ backfill'.day \in Int /\ backfill'.now \in Int
        /\ backfill'.ids = backfill.ids
    BY <1>1, <1>2, GapFacts
  <1>7. QED
    BY <1>1, <1>3, <1>4, <1>5, <1>6, GapFacts, GapStay

LEMMA GapEnds ==
    ASSUME GapInv, Shapes', AskFails \/ BackfillDies
    PROVE  GapInv'
  <1>1. backfill.at # "idle" /\ UNCHANGED <<today, gone, bars, hidden, chain>>
    BY DEF AskFails, BackfillDies, store, history
  <1>2. backfill'.at = "idle"
    BY DEF AskFails, BackfillDies, IdleBackfill
  <1>3. lost' = [bars |-> lost.bars, analyze |-> lost'.analyze]
    BY <1>1, GapFacts DEF AskFails, BackfillDies, history
  <1>4. checkpoint' \in {checkpoint, backfill.day - 1}
    BY DEF AskFails, BackfillDies
  <1>5. checkpoint' # NoDay => checkpoint' \in Int
            /\ FilledTo(chain.from, checkpoint', chain.ids \ gone, bars, lost.bars)
    BY <1>1, <1>4, GapFacts, FilledLess
  <1>6. lost'.bars = lost.bars
    BY <1>3
  <1>7. QED
    BY <1>1, <1>2, <1>3, <1>5, <1>6, GapStay

LEMMA GapWrite ==
    ASSUME GapInv, Shapes', NEW ok \in BOOLEAN, WriteBars(ok)
    PROVE  GapInv'
  <1> DEFINE d == backfill.day
             ids == chain.ids \ gone
  <1>1. backfill.at = "ask" /\ Answered(d) # {}
        /\ UNCHANGED <<today, gone, hidden, chain, checkpoint>>
    BY DEF WriteBars
  <1>2. backfill' = [at |-> "analyze", now |-> backfill.now, day |-> d, ids |-> backfill.ids]
    BY <1>1, GapFacts DEF WriteBars
  <1>3. backfill'.at = "analyze" /\ backfill'.day = d /\ backfill'.now = backfill.now
        /\ backfill'.ids = backfill.ids
    BY <1>2
  <1>4. /\ bars' = bars \/ bars' = WithBars(backfill.ids, Symbols, d)
        /\ ok => bars' = WithBars(backfill.ids, Symbols, d)
    BY <1>1 DEF WriteBars, Answered
  <1>5. lost' = [bars |-> IF ok THEN lost.bars ELSE lost.bars \cup {d},
                 analyze |-> lost.analyze]
    BY <1>1, GapFacts DEF WriteBars
  <1>6. /\ lost'.bars = IF ok THEN lost.bars ELSE lost.bars \cup {d}
        /\ lost' = [bars |-> lost'.bars, analyze |-> lost'.analyze]
    BY <1>5
  <1>7. ids \subseteq Ids /\ \A i \in ids : bars[i] \subseteq bars'[i]
    BY <1>1, <1>4, GapFacts, WithBarsGrows
  <1>8. ASSUME NEW u, Filled(u) PROVE FilledTo(chain.from, u, ids, bars', lost'.bars)
    BY <1>6, <1>7, <1>8, FilledKeeps DEF Filled
  <1>9. DayFilled(d, ids, bars', lost'.bars)
    <2>1. ASSUME ok, NEW i \in ids PROVE d \in bars'[i]
      <3>1. i \in Held(backfill.ids) /\ hidden[i] = {} /\ i \in Ids
        BY <1>1, <1>7 DEF GapInv, RunIsAhead, HiddenAreGone
      <3>2. QED
        BY <1>4, <2>1, <3>1, WithBarsFills
    <2>2. ~ok => d \in lost'.bars
      BY <1>6
    <2>3. QED
      BY <2>1, <2>2 DEF DayFilled
  <1> HIDE DEF d
  <1>10. DayTypes'
    BY <1>1, <1>3, <1>6, GapFacts DEF GapInv, DayTypes, d
  <1>11. HiddenAreGone'
    BY <1>1 DEF GapInv, HiddenAreGone
  <1>12. RunIsAhead'
    BY <1>1, <1>3 DEF GapInv, RunIsAhead, Held, d
  <1>13. Filled(chain.upTo) /\ Filled(d - 1)
    BY <1>1 DEF GapInv, ClaimsHold, d
  <1>14. ClaimsHold'
    BY <1>1, <1>3, <1>8, <1>9, <1>13 DEF ClaimsHold, Filled
  <1>15. QED
    BY <1>10, <1>11, <1>12, <1>14 DEF GapInv

LEMMA GapAnalyze ==
    ASSUME GapInv, Shapes', NEW ok \in BOOLEAN, WriteAnalyze(ok)
    PROVE  GapInv'
  <1>1. backfill.at = "analyze" /\ UNCHANGED <<today, gone, bars, hidden, chain, checkpoint>>
    BY DEF WriteAnalyze
  <1>2. backfill' = [at |-> "save", now |-> backfill.now, day |-> backfill.day,
                     ids |-> backfill.ids]
    BY <1>1, GapFacts DEF WriteAnalyze
  <1>3. lost' = [bars |-> lost.bars, analyze |-> lost'.analyze]
    BY <1>1, GapFacts DEF WriteAnalyze
  <1>4. DayFilled(backfill.day, chain.ids \ gone, bars, lost.bars)
    BY <1>1 DEF GapInv, ClaimsHold
  <1>5. backfill'.at = "save" /\ backfill'.day = backfill.day /\ backfill'.now = backfill.now
        /\ backfill'.ids = backfill.ids /\ lost'.bars = lost.bars
    BY <1>2, <1>3
  <1>6. QED
    BY <1>1, <1>3, <1>4, <1>5, GapFacts, GapStay

LEMMA GapSave ==
    ASSUME GapInv, Shapes', NEW ok \in BOOLEAN, SaveCheckpoint(ok)
    PROVE  GapInv'
  <1>1. backfill.at = "save" /\ UNCHANGED <<today, gone, bars, hidden, chain, lost>>
        /\ checkpoint' \in {checkpoint, backfill.day}
    BY DEF SaveCheckpoint, store, history
  <1>2. backfill' = [at |-> "ask", now |-> backfill.now, day |-> backfill.day + 1,
                     ids |-> backfill.ids]
    BY <1>1, GapFacts DEF SaveCheckpoint
  <1>3. DayFilled(backfill.day, chain.ids \ gone, bars, lost.bars)
    BY <1>1 DEF GapInv, ClaimsHold
  <1>4. FilledTo(chain.from, backfill.day, chain.ids \ gone, bars, lost.bars)
    BY <1>1, <1>3, GapFacts, FilledOneMore
  <1>5. backfill'.at = "ask" /\ backfill'.day = backfill.day + 1
        /\ backfill'.now = backfill.now /\ backfill'.ids = backfill.ids
        /\ backfill'.day - 1 = backfill.day /\ backfill'.day \in Int
    BY <1>1, <1>2, GapFacts
  <1>6. checkpoint' # NoDay => checkpoint' \in Int /\ checkpoint' <= backfill'.day - 1
    BY <1>1, <1>5, GapFacts
  <1>7. QED
    BY <1>1, <1>4, <1>5, <1>6, GapFacts, GapStay

LEMMA GapEnd ==
    ASSUME GapInv, Shapes', NEW ok \in BOOLEAN, EndBackfill(ok)
    PROVE  GapInv'
  <1>1. backfill.at = "ask" /\ backfill.day > backfill.now
        /\ UNCHANGED <<today, gone, bars, hidden, lost>>
        /\ checkpoint' \in {checkpoint, NoDay}
    BY DEF EndBackfill, store
  <1>2. backfill'.at = "idle"
    BY DEF EndBackfill, IdleBackfill
  <1>3. chain' = [from |-> chain.from, upTo |-> backfill.now, ids |-> chain.ids]
    BY DEF GapInv, DayTypes, EndBackfill
  <1>4. chain'.from = chain.from /\ chain'.upTo = backfill.now /\ chain'.ids = chain.ids
    BY <1>3
  <1>5. FilledTo(chain.from, backfill.now, chain.ids \ gone, bars, lost.bars)
    <2>1. backfill.now <= backfill.day - 1
      BY <1>1, GapFacts
    <2>2. QED
      BY <1>1, <2>1, GapFacts, FilledLess
  <1>6. checkpoint' # NoDay => FilledTo(chain.from, checkpoint', chain.ids \ gone, bars, lost.bars)
    BY <1>1, GapFacts, FilledLess
  <1>7. DayTypes'
    BY <1>1, <1>2, <1>3, <1>4, GapFacts DEF GapInv, DayTypes
  <1>8. HiddenAreGone' /\ RunIsAhead'
    BY <1>1, <1>2 DEF GapInv, HiddenAreGone, RunIsAhead
  <1>9. ClaimsHold'
    BY <1>1, <1>2, <1>4, <1>5, <1>6 DEF ClaimsHold, Filled
  <1>10. QED
    BY <1>7, <1>8, <1>9 DEF GapInv

LEMMA GapStep == GapInv /\ [Next]_vars => GapInv'
  <1> SUFFICES ASSUME GapInv, [Next]_vars PROVE GapInv'
    OBVIOUS
  <1>0. Shapes' /\ today \in Int
    BY ShapesStep DEF GapInv, DayTypes
  <1>1. ASSUME NEW m \in Masters, MasterStep(m) PROVE GapInv'
    <2>1. CASE CommitMaster(m)
      <3>1. /\ gone' = gone \cup Delisted(m)
            /\ bars' = [i \in Ids |-> IF i \in Delisted(m) THEN {} ELSE bars[i]]
            /\ hidden' = [i \in Ids |-> IF i \in Delisted(m) THEN hidden[i] \cup bars[i]
                                                             ELSE hidden[i]]
            /\ UNCHANGED <<today, backfill, chain, lost, checkpoint>>
        BY <2>1 DEF CommitMaster
      <3>2. QED
        BY <1>0, <3>1, GapQuiet
    <2>2. CASE ReadMaster(m) \/ MasterFails(m) \/ \E L \in SUBSET Symbols : FetchList(m, L)
      <3>1. UNCHANGED <<today, gone, bars, hidden, backfill, chain, lost, checkpoint>>
        BY <2>2 DEF ReadMaster, MasterFails, FetchList, store, history
      <3>2. QED
        BY <1>0, <3>1, GapQuiet
    <2>3. QED
      BY <1>1, <2>1, <2>2 DEF MasterStep
  <1>2. CASE DailyStep
    <2>1. UNCHANGED <<today, gone, hidden, backfill, chain, lost, checkpoint>>
      BY <1>2 DEF DailyStep, StartDaily, ReadBrands, CommitDay, DailyFails, store, history
    <2>2. bars' = bars \/ \E A, d : bars' = WithBars(daily.ids, A, d)
      BY <1>2 DEF DailyStep, StartDaily, ReadBrands, CommitDay, DailyFails, store
    <2>3. \A i \in Ids : bars[i] \subseteq bars'[i]
      BY <2>2, WithBarsGrows
    <2>4. QED
      BY <1>0, <2>1, <2>3, GapQuiet
  <1>3. CASE ExpireCheckpoint \/ NextDay \/ Tick \/ UNCHANGED vars
    <2>1. /\ UNCHANGED <<gone, bars, hidden, backfill, chain, lost>>
          /\ checkpoint' \in {checkpoint, NoDay} /\ today' \in {today, today + 1}
      BY <1>3 DEF ExpireCheckpoint, NextDay, Tick, vars, store, jobs, history
    <2>2. today' \in Int
      BY <1>0, <2>1
    <2>3. QED
      BY <1>0, <2>1, <2>2, GapQuiet
  <1>4. CASE BackfillStep
    BY <1>0, <1>3, <1>4, GapStart, GapSkip, GapEnds, GapWrite, GapAnalyze, GapSave, GapEnd
       DEF BackfillStep
  <1>5. QED
    BY <1>1, <1>2, <1>3, <1>4 DEF Next

LEMMA GapInit == Init => GapInv
  <1> SUFFICES ASSUME Init PROVE GapInv
    OBVIOUS
  <1>1. /\ chain = [from |-> 0, upTo |-> 0 - 1, ids |-> {}]
        /\ backfill.at = "idle" /\ checkpoint = NoDay
        /\ today \in Int /\ lost = [bars |-> {}, analyze |-> {}]
    BY DaysAssumption DEF Init, IdleBackfill
  <1>2. chain.from = 0 /\ chain.upTo = 0 - 1 /\ chain.ids = {} /\ 0 - 1 \in Int
    BY <1>1
  <1>3. DayTypes
    BY <1>1, <1>2 DEF DayTypes
  <1>4. HiddenAreGone
    BY DEF Init, HiddenAreGone
  <1>5. RunIsAhead
    BY <1>1 DEF RunIsAhead
  <1>6. ClaimsHold
    BY <1>1, <1>2 DEF ClaimsHold, Filled, FilledTo
  <1>7. QED
    BY <1>3, <1>4, <1>5, <1>6, ShapesInit DEF GapInv

\* Runs of the backfill that resume from one another leave no gap: every open
\* day up to what the checkpoint vouches for has a bar of every brand all of
\* them knew, unless its write failed or the brand is delisted (the checkpoint
\* of CreateHistoricalDailyStockPrices after an error is the day before).
THEOREM CheckpointLeavesNoGap == Spec => []BackfillIsComplete
  <1>1. GapInv => BackfillIsComplete
    <2> SUFFICES ASSUME GapInv PROVE BackfillIsComplete
      OBVIOUS
    <2>1. Filled(Claimed)
      BY DEF Claimed, GapInv, ClaimsHold
    <2>2. QED
      BY <2>1 DEF BackfillIsComplete, Filled, FilledTo
  <1>2. QED
    BY <1>1, GapInit, GapStep, PTL DEF Spec

-----------------------------------------------------------------------------
(* Types.  A uuid keeps its symbol for good, so a map of uuids stays true    *)
(* however old it is; days are within the calendar because a run asks for    *)
(* no day after the one it was started on.                                   *)

MapNames(f) == \A s \in Symbols : f[s] # NoId => f[s] \in Used /\ symOf[f[s]] = s

BrandTypes ==
    /\ clock \in 0 .. MaxClock
    /\ symOf \in [Ids -> Symbols \cup {"none"}]
    /\ stamp \in [Ids -> 0 .. MaxClock]
    /\ gone \subseteq Used
    /\ \A m \in Masters :
           /\ master[m].at \in {"idle", "listed", "tx"}
           /\ master[m].now \in 0 .. clock
           /\ MapNames(master[m].ids)
           /\ master[m].old \subseteq Used

DailyTypes ==
    /\ daily.at \in {"idle", "next", "tx"}
    /\ daily.at # "idle" => daily.now \in Days /\ daily.now <= today /\ daily.i \in Nat
    /\ MapNames(daily.ids)

BackfillTypes ==
    /\ backfill.at \in {"idle", "ask", "analyze", "save"}
    /\ backfill.at # "idle" => backfill.now \in Days /\ backfill.now <= today
    /\ backfill.at = "analyze" => backfill.day \in Days \ Closed
    /\ MapNames(backfill.ids)

TableTypes ==
    /\ today \in Days
    /\ bars \in [Ids -> SUBSET Days]
    /\ hidden \in [Ids -> SUBSET Days]
    /\ analyze \in [Symbols -> SUBSET Days]
    /\ \A i \in Ids \ Used : bars[i] = {}

StoreTypes == GapInv /\ BrandTypes /\ DailyTypes /\ BackfillTypes /\ TableTypes

LEMMA TypesMeanTypeOK == StoreTypes => TypeOK
  <1> SUFFICES ASSUME StoreTypes PROVE TypeOK
    OBVIOUS
  <1>1. \A f \in Maps : MapNames(f) => Held(f) \subseteq Used
    BY DEF MapNames, Held
  <1>2. DailyShape /\ BackfillShape /\ MasterShape
    BY DEF StoreTypes, GapInv, Shapes
  <1>3. clock \in Int /\ \A m \in Masters : master[m].now <= clock
    BY DEF StoreTypes, BrandTypes
  <1>4. \A m \in Masters : Held(master[m].ids) \cup master[m].old \subseteq Used
    BY <1>1, <1>2 DEF StoreTypes, BrandTypes, MasterShape
  <1>5. Held(daily.ids) \subseteq Used /\ Held(backfill.ids) \subseteq Used
    BY <1>1, <1>2 DEF StoreTypes, DailyTypes, BackfillTypes, DailyShape, BackfillShape
  <1>6. QED
    BY <1>3, <1>4, <1>5
       DEF StoreTypes, BrandTypes, DailyTypes, BackfillTypes, TableTypes, TypeOK

LEMMA NoNames == MapNames([s \in Symbols |-> NoId])
  BY DEF MapNames

LEMMA BrandMapsName ==
    ASSUME NEW f \in BrandMaps
    PROVE  MapNames(f)
  BY DEF BrandMaps, MapNames, Live

\* What a map names it names ever after, once rows keep their symbols.
RowsStay == \A i \in Used : i \in Used' /\ symOf'[i] = symOf[i]

LEMMA NamesStay ==
    ASSUME RowsStay, NEW f, MapNames(f)
    PROVE  \A s \in Symbols : f[s] # NoId => f[s] \in Used' /\ symOf'[f[s]] = s
  BY DEF RowsStay, MapNames

\* The upsert writes the symbol a row already has, or one to a new row.
LEMMA UpsertKeepsRows ==
    ASSUME BrandTypes, MasterShape, NEW m \in Masters, CommitMaster(m)
    PROVE  /\ RowsStay
           /\ symOf' \in [Ids -> Symbols \cup {"none"}]
           /\ stamp' \in [Ids -> 0 .. MaxClock]
  <1> DEFINE list == master[m].list
             ids == master[m].ids
  <1>1. PICK f \in [list -> Ids] :
            /\ Assigned(m, f)
            /\ symOf' = [i \in Ids |-> IF i \in {f[s] : s \in list}
                                       THEN CHOOSE s \in list : f[s] = i
                                       ELSE symOf[i]]
            /\ stamp' = [i \in Ids |-> IF i \in {f[s] : s \in list} THEN master[m].now
                                                                   ELSE stamp[i]]
    BY DEF CommitMaster
  <1>2. list \subseteq Symbols /\ MapNames(ids) /\ master[m].now \in 0 .. MaxClock
    BY ClockAssumption DEF MasterShape, BrandTypes
  <1> DEFINE upserted == {f[s] : s \in list}
  <1>3. ASSUME NEW i \in upserted PROVE symOf'[i] \in list /\ f[symOf'[i]] = i
    BY <1>1, <1>3
  <1>4. \A i \in Ids \ upserted : symOf'[i] = symOf[i]
    BY <1>1
  <1>5. stamp' \in [Ids -> 0 .. MaxClock]
    BY <1>1, <1>2 DEF BrandTypes
  <1> HIDE DEF upserted
  <1>6. \A i \in Ids : symOf'[i] \in Symbols \cup {"none"}
    BY <1>2, <1>3, <1>4 DEF BrandTypes
  <1>7. symOf' \in [Ids -> Symbols \cup {"none"}]
    BY <1>1, <1>6
  <1>8. ASSUME NEW i \in Used, i \in upserted PROVE symOf'[i] = symOf[i]
    <2>1. symOf'[i] \in list /\ f[symOf'[i]] = i
      BY <1>3, <1>8
    <2>2. ids[symOf'[i]] = i /\ i # NoId
      BY <1>1, <2>1, NamesAssumption DEF Assigned, Used
    <2>3. QED
      BY <1>2, <2>1, <2>2 DEF MapNames
  <1>9. ASSUME NEW i \in Used PROVE i \in Used' /\ symOf'[i] = symOf[i]
    BY <1>4, <1>8, <1>9 DEF Used
  <1>10. QED
    BY <1>5, <1>7, <1>9 DEF RowsStay

LEMMA RowsStayInStep ==
    ASSUME Shapes, BrandTypes, [Next]_vars
    PROVE  RowsStay
  <1>1. ASSUME NEW m \in Masters, MasterStep(m) PROVE RowsStay
    <2>1. CASE CommitMaster(m)
      BY <2>1, UpsertKeepsRows DEF Shapes
    <2>2. CASE ReadMaster(m) \/ MasterFails(m) \/ \E L \in SUBSET Symbols : FetchList(m, L)
      BY <2>2 DEF ReadMaster, MasterFails, FetchList, store, RowsStay, Used
    <2>3. QED
      BY <1>1, <2>1, <2>2 DEF MasterStep
  <1>2. CASE DailyStep \/ BackfillStep \/ NextDay \/ Tick
    BY <1>2, JobsLeaveBrands DEF RowsStay, Used
  <1>3. CASE UNCHANGED vars
    BY <1>3 DEF vars, store, RowsStay, Used
  <1>4. QED
    BY <1>1, <1>2, <1>3 DEF Next

\* A step that leaves the brand rows and the master processes alone.
LEMMA BrandsCalm ==
    ASSUME BrandTypes, UNCHANGED <<symOf, stamp, gone, master>>,
           clock' \in 0 .. MaxClock, clock <= clock'
    PROVE  BrandTypes'
  <1>1. Used' = Used
    BY DEF Used
  <1>2. \A f : MapNames(f) => MapNames(f)'
    BY <1>1 DEF MapNames
  <1>3. \A m \in Masters : master'[m].now \in 0 .. clock'
    BY ClockAssumption DEF BrandTypes
  <1>4. QED
    BY <1>1, <1>2, <1>3 DEF BrandTypes

\* One master process changes; the others keep what they hold.
LEMMA BrandsByOne ==
    ASSUME MasterShape, BrandTypes, RowsStay, NEW m \in Masters,
           symOf' \in [Ids -> Symbols \cup {"none"}], stamp' \in [Ids -> 0 .. MaxClock],
           gone' \subseteq Used, UNCHANGED clock,
           \A o \in Masters : o # m => master'[o] = master[o],
           master'[m].at \in {"idle", "listed", "tx"}, master'[m].now \in 0 .. clock,
           MapNames(master'[m].ids), master'[m].old \subseteq Used
    PROVE  BrandTypes'
  <1>1. Used \subseteq Used'
    BY DEF RowsStay
  <1>2. \A o \in Masters : MapNames(master'[o].ids)
    BY DEF BrandTypes
  <1>3. \A o \in Masters, s \in Symbols : master'[o].ids[s] # NoId =>
            master'[o].ids[s] \in Used' /\ symOf'[master'[o].ids[s]] = s
    BY <1>2 DEF MapNames, RowsStay
  <1>4. \A o \in Masters : MapNames(master[o].ids)'
    BY <1>3 DEF MapNames
  <1>5. QED
    BY <1>1, <1>4 DEF BrandTypes

LEMMA BrandTypesStep ==
    ASSUME Shapes, BrandTypes, RowsStay, [Next]_vars
    PROVE  BrandTypes'
  <1>0. MasterShape /\ clock \in 0 .. MaxClock /\ MapNames([s \in Symbols |-> NoId])
    BY NoNames DEF Shapes, BrandTypes
  <1>1. ASSUME NEW m \in Masters, MasterStep(m) PROVE BrandTypes'
    <2>1. ASSUME NEW L \in SUBSET Symbols, FetchList(m, L) PROVE BrandTypes'
      <3>1. /\ master'[m] = [at |-> "listed", now |-> clock, list |-> L,
                             ids |-> [s \in Symbols |-> NoId], old |-> {}]
            /\ \A o \in Masters : o # m => master'[o] = master[o]
            /\ UNCHANGED <<clock, symOf, stamp, gone>>
        BY <1>0, <2>1 DEF FetchList, IdleMaster, MasterShape, store
      <3>2. QED
        BY <1>0, <3>1, ClockAssumption, BrandsByOne DEF BrandTypes
    <2>2. CASE ReadMaster(m)
      <3>1. PICK f \in BrandMaps : master' = [master EXCEPT ![m] =
               [at |-> "tx", now |-> master[m].now, list |-> master[m].list, ids |-> f,
                old |-> {i \in Live : stamp[i] < master[m].now}]]
        BY <2>2 DEF ReadMaster
      <3>2. /\ master'[m] = [at |-> "tx", now |-> master[m].now, list |-> master[m].list,
                    ids |-> f, old |-> {i \in Live : stamp[i] < master[m].now}]
            /\ \A o \in Masters : o # m => master'[o] = master[o]
        BY <1>0, <3>1 DEF MasterShape
      <3>3. UNCHANGED <<clock, symOf, stamp, gone>>
        BY <2>2 DEF ReadMaster, store
      <3>4. MapNames(f) /\ {i \in Live : stamp[i] < master[m].now} \subseteq Used
        BY BrandMapsName DEF Live
      <3>5. QED
        BY <1>0, <3>2, <3>3, <3>4, BrandsByOne DEF BrandTypes
    <2>3. CASE CommitMaster(m)
      <3>1. /\ symOf' \in [Ids -> Symbols \cup {"none"}]
            /\ stamp' \in [Ids -> 0 .. MaxClock]
        BY <1>0, <2>3, UpsertKeepsRows
      <3>2. gone' = gone \cup Delisted(m) /\ Delisted(m) \subseteq Used
        BY <2>3 DEF CommitMaster, Delisted, BrandTypes
      <3>3. /\ master'[m] = IdleMaster /\ UNCHANGED clock
            /\ \A o \in Masters : o # m => master'[o] = master[o]
        BY <1>0, <2>3 DEF CommitMaster, MasterShape
      <3>4. QED
        BY <1>0, <3>1, <3>2, <3>3, ClockAssumption, BrandsByOne DEF BrandTypes, IdleMaster
    <2>4. CASE MasterFails(m)
      <3>1. /\ master'[m] = IdleMaster /\ UNCHANGED <<clock, symOf, stamp, gone>>
            /\ \A o \in Masters : o # m => master'[o] = master[o]
        BY <1>0, <2>4 DEF MasterFails, MasterShape, store
      <3>2. QED
        BY <1>0, <3>1, ClockAssumption, BrandsByOne DEF BrandTypes, IdleMaster
    <2>5. QED
      BY <1>1, <2>1, <2>2, <2>3, <2>4 DEF MasterStep
  <1>2. CASE DailyStep
    <2>1. UNCHANGED <<clock, symOf, stamp, gone, master>>
      BY <1>2 DEF DailyStep, StartDaily, ReadBrands, CommitDay, DailyFails, store
    <2>2. QED
      BY <1>0, <2>1, ClockAssumption, BrandsCalm
  <1>3. CASE BackfillStep
    <2>1. UNCHANGED <<clock, symOf, stamp, gone, master>>
      BY <1>3 DEF BackfillStep, StartBackfill, SkipDay, AskFails, WriteBars, WriteAnalyze,
          SaveCheckpoint, EndBackfill, BackfillDies, ExpireCheckpoint, store
    <2>2. QED
      BY <1>0, <2>1, ClockAssumption, BrandsCalm
  <1>4. CASE NextDay
    BY <1>0, <1>4, BrandsCalm DEF NextDay, jobs
  <1>5. CASE Tick
    BY <1>0, <1>5, ClockAssumption, BrandsCalm DEF Tick, jobs
  <1>6. CASE UNCHANGED vars
    BY <1>0, <1>6, BrandsCalm DEF vars, store, jobs
  <1>7. QED
    BY <1>1, <1>2, <1>3, <1>4, <1>5, <1>6 DEF Next

\* Maps in hand, old or just read, stay true.
LEMMA NamesNext ==
    ASSUME RowsStay, UNCHANGED daily, MapNames(daily.ids)
    PROVE  MapNames(daily.ids)'
  BY NamesStay DEF MapNames

LEMMA DailyTypesStep ==
    ASSUME Shapes, DailyTypes, today \in Days, today' \in Days, today <= today',
           RowsStay, DailyStep \/ UNCHANGED daily, DailyStep => UNCHANGED <<symOf, today>>
    PROVE  DailyTypes'
  <1>0. DailyShape /\ MapNames([s \in Symbols |-> NoId]) /\ today \in Int /\ today' \in Int
    BY DaysAssumption, NoNames DEF Shapes, Days
  <1>1. DailyStep => UNCHANGED symOf /\ Used' = Used
    BY DEF Used
  <1>2. CASE StartDaily
    <2>1. /\ daily' = [at |-> "next", now |-> today, i |-> 0, ids |-> [s \in Symbols |-> NoId]]
          /\ UNCHANGED <<symOf, today>>
      BY <1>2 DEF StartDaily, IdleDaily, store
    <2>2. QED
      BY <1>0, <2>1 DEF DailyTypes, MapNames
  <1>3. CASE ReadBrands
    <2>1. PICK f \in BrandMaps : daily' = [daily EXCEPT !.at = "tx", !.ids = f]
      BY <1>3 DEF ReadBrands
    <2>2. daily' = [at |-> "tx", now |-> daily.now, i |-> daily.i, ids |-> f]
      BY <1>0, <2>1 DEF DailyShape
    <2>3. MapNames(f) /\ UNCHANGED <<symOf, today>> /\ Used' = Used /\ daily.at = "next"
      BY <1>3, BrandMapsName DEF ReadBrands, store, Used
    <2>4. QED
      BY <2>2, <2>3 DEF DailyTypes, MapNames
  <1>4. ASSUME NEW A \in SUBSET Symbols, CommitDay(A) PROVE DailyTypes'
    <2>1. daily.at = "tx" /\ daily.i \in Nat /\ UNCHANGED <<symOf, today>>
      BY <1>4 DEF CommitDay, DailyTypes
    <2>2. CASE daily.i + 1 < Window
      <3>1. daily' = [at |-> "next", now |-> daily.now, i |-> daily.i + 1,
                      ids |-> [s \in Symbols |-> NoId]]
        BY <1>0, <1>4, <2>2 DEF CommitDay, DailyShape
      <3>2. daily.i + 1 \in Nat
        BY <2>1
      <3>3. QED
        BY <1>0, <2>1, <3>1, <3>2 DEF DailyTypes, MapNames
    <2>3. CASE ~(daily.i + 1 < Window)
      BY <1>0, <1>4, <2>3 DEF CommitDay, IdleDaily, DailyTypes, MapNames
    <2>4. QED
      BY <2>2, <2>3
  <1>5. CASE DailyFails
    BY <1>0, <1>5 DEF DailyFails, IdleDaily, DailyTypes, MapNames
  <1>6. CASE UNCHANGED daily
    <2>1. MapNames(daily.ids)'
      BY <1>6, NamesNext DEF DailyTypes
    <2>2. daily.at # "idle" => daily.now <= today'
      BY <1>0, DaysAssumption DEF DailyTypes, Days
    <2>3. QED
      BY <1>6, <2>1, <2>2 DEF DailyTypes
  <1>7. QED
    BY <1>2, <1>3, <1>4, <1>5, <1>6 DEF DailyStep

LEMMA BackfillTypesStep ==
    ASSUME GapInv, BackfillTypes, today \in Days, today' \in Days, today <= today',
           RowsStay, BackfillStep \/ UNCHANGED backfill,
           BackfillStep => UNCHANGED <<symOf, today>>
    PROVE  BackfillTypes'
  <1>0. BackfillShape /\ MapNames([s \in Symbols |-> NoId]) /\ today \in Int /\ today' \in Int
    BY DaysAssumption, NoNames DEF GapInv, Shapes, Days
  <1>1. CASE StartBackfill
    <2>1. PICK f \in BrandMaps : backfill'.at = "ask" /\ backfill'.now = today /\ backfill'.ids = f
      BY <1>1 DEF StartBackfill
    <2>2. MapNames(f) /\ UNCHANGED <<symOf, today>> /\ Used' = Used
      BY <1>1, BrandMapsName DEF StartBackfill, store, Used
    <2>3. QED
      BY <2>1, <2>2 DEF BackfillTypes, MapNames
  <1>2. CASE AskFails \/ BackfillDies \/ \E ok \in BOOLEAN : EndBackfill(ok)
    <2>1. backfill'.at = "idle" /\ backfill'.ids = [s \in Symbols |-> NoId]
      BY <1>2 DEF AskFails, BackfillDies, EndBackfill, IdleBackfill
    <2>2. QED
      BY <1>0, <2>1 DEF BackfillTypes, MapNames
  <1>3. CASE SkipDay \/ \E ok \in BOOLEAN : WriteBars(ok) \/ WriteAnalyze(ok) \/ SaveCheckpoint(ok)
    <2>1. /\ backfill.at # "idle" /\ UNCHANGED <<symOf, today>> /\ Used' = Used
          /\ backfill'.ids = backfill.ids /\ backfill'.now = backfill.now
          /\ backfill'.at \in {"ask", "analyze", "save"}
      BY <1>0, <1>3 DEF SkipDay, WriteBars, WriteAnalyze, SaveCheckpoint, BackfillShape, store, Used
    <2>2. ASSUME backfill'.at = "analyze" PROVE backfill'.day \in Days \ Closed
      <3>1. ~SkipDay /\ \A ok \in BOOLEAN : ~WriteAnalyze(ok) /\ ~SaveCheckpoint(ok)
        BY <1>0, <2>2 DEF SkipDay, WriteAnalyze, SaveCheckpoint, BackfillShape
      <3>2. PICK ok \in BOOLEAN : WriteBars(ok)
        BY <1>3, <3>1
      <3>3. /\ backfill'.day = backfill.day /\ backfill.day <= backfill.now
            /\ Answered(backfill.day) # {} /\ backfill.at = "ask"
        BY <1>0, <3>2 DEF WriteBars, BackfillShape
      <3>4. backfill.day \in Int /\ backfill.now \in Days /\ ~(backfill.day < 0)
            /\ backfill.day \notin Closed
        BY <3>3, GapFacts DEF Answered, BackfillTypes
      <3>5. QED
        BY <3>3, <3>4, DaysAssumption DEF Days
    <2>3. QED
      BY <2>1, <2>2 DEF BackfillTypes, MapNames
  <1>4. CASE UNCHANGED backfill
    <2>1. \A s \in Symbols : backfill.ids[s] # NoId =>
              backfill.ids[s] \in Used' /\ symOf'[backfill.ids[s]] = s
      BY NamesStay DEF BackfillTypes
    <2>2. backfill.at # "idle" => backfill.now <= today'
      BY <1>0, DaysAssumption DEF BackfillTypes, Days
    <2>3. QED
      BY <1>4, <2>1, <2>2 DEF BackfillTypes, MapNames
  <1>5. CASE ExpireCheckpoint
    BY <1>4, <1>5 DEF ExpireCheckpoint
  <1>6. QED
    BY <1>1, <1>2, <1>3, <1>4, <1>5 DEF BackfillStep

-----------------------------------------------------------------------------
(* What the two upserts write.                                              *)

LEMMA WithBarsIsTyped ==
    ASSUME NEW f, MapNames(f), NEW A \in SUBSET Symbols, NEW d, A = {} \/ d \in Days,
           bars \in [Ids -> SUBSET Days], \A i \in Ids \ Used : bars[i] = {}
    PROVE  /\ WithBars(f, A, d) \in [Ids -> SUBSET Days]
           /\ \A i \in Ids \ Used : WithBars(f, A, d)[i] = {}
  <1>1. CASE A = {}
    BY <1>1 DEF WithBars, Known
  <1>2. CASE d \in Days
    BY <1>2 DEF WithBars, Known, MapNames
  <1>3. QED
    BY <1>1, <1>2

LEMMA WithAnalyzeIsTyped ==
    ASSUME NEW f, NEW A \in SUBSET Symbols, NEW d, A = {} \/ d \in Days,
           analyze \in [Symbols -> SUBSET Days]
    PROVE  WithAnalyze(f, A, d) \in [Symbols -> SUBSET Days]
  <1>1. CASE A = {}
    BY <1>1 DEF WithAnalyze, Known
  <1>2. CASE d \in Days
    BY <1>2 DEF WithAnalyze, Known
  <1>3. QED
    BY <1>1, <1>2

\* The day a batch is at lies within the calendar wherever the API answers.
LEMMA DailyDayIsReal ==
    ASSUME DailyTypes, today \in Days, NEW A, CommitDay(A)
    PROVE  /\ daily.now - daily.i \in Int /\ daily.now - daily.i <= today
           /\ A = {} \/ daily.now - daily.i \in Days
  <1>1. daily.at = "tx" /\ (daily.now - daily.i < 0 => A = {})
    BY DEF CommitDay
  <1>2. daily.now \in Days /\ daily.now <= today /\ daily.i \in Nat
    BY <1>1 DEF DailyTypes
  <1>3. QED
    BY <1>1, <1>2, DaysAssumption DEF Days

LEMMA TablesCalm ==
    ASSUME TableTypes, UNCHANGED <<bars, hidden, analyze>>, today' \in Days,
           \A i \in Ids \ Used' : i \notin Used
    PROVE  TableTypes'
  BY DEF TableTypes

LEMMA TablesStep ==
    ASSUME StoreTypes, RowsStay, [Next]_vars
    PROVE  TableTypes' /\ today <= today' /\ (DailyStep \/ BackfillStep => UNCHANGED <<symOf, today>>)
  <1>0. /\ TableTypes /\ DailyTypes /\ BackfillTypes /\ MapNames(daily.ids)
        /\ MapNames(backfill.ids) /\ today \in Int
    BY DaysAssumption DEF StoreTypes, TableTypes, DailyTypes, BackfillTypes, Days
  <1>1. \A i \in Ids \ Used' : i \notin Used
    BY DEF RowsStay
  <1>2. ASSUME NEW m \in Masters, MasterStep(m)
        PROVE  TableTypes' /\ today' = today
    <2>1. CASE CommitMaster(m)
      <3>1. /\ bars' = [i \in Ids |-> IF i \in Delisted(m) THEN {} ELSE bars[i]]
            /\ hidden' = [i \in Ids |-> IF i \in Delisted(m) THEN hidden[i] \cup bars[i]
                                                             ELSE hidden[i]]
            /\ analyze' = [s \in Symbols |-> IF \E i \in Delisted(m) : symOf[i] = s
                                             THEN {} ELSE analyze[s]]
            /\ UNCHANGED today
        BY <2>1 DEF CommitMaster
      <3>2. QED
        BY <1>0, <1>1, <3>1 DEF TableTypes
    <2>2. CASE ReadMaster(m) \/ MasterFails(m) \/ \E L \in SUBSET Symbols : FetchList(m, L)
      <3>1. UNCHANGED <<today, bars, hidden, analyze>>
        BY <2>2 DEF ReadMaster, MasterFails, FetchList, store
      <3>2. QED
        BY <1>0, <1>1, <3>1 DEF TableTypes
    <2>3. QED
      BY <1>2, <2>1, <2>2 DEF MasterStep
  <1>3. ASSUME NEW A \in SUBSET Symbols, CommitDay(A) PROVE TableTypes'
    <2> DEFINE d == daily.now - daily.i
    <2>1. /\ bars' = WithBars(daily.ids, A, d)
          /\ analyze' = [s \in Symbols |->
                {x \in WithAnalyze(daily.ids, A, d)[s] : x > d - Keep}]
          /\ UNCHANGED <<today, hidden, symOf>>
      BY <1>3 DEF CommitDay
    <2>2. A = {} \/ d \in Days
      BY <1>0, <1>3, DailyDayIsReal DEF TableTypes
    <2> HIDE DEF d
    <2>3. WithAnalyze(daily.ids, A, d) \in [Symbols -> SUBSET Days]
      BY <1>0, <2>2, WithAnalyzeIsTyped DEF TableTypes
    <2>4. analyze' \in [Symbols -> SUBSET Days]
      BY <2>1, <2>3
    <2>5. bars' \in [Ids -> SUBSET Days] /\ \A i \in Ids \ Used : bars'[i] = {}
      BY <1>0, <2>1, <2>2, WithBarsIsTyped DEF TableTypes
    <2>6. QED
      BY <1>0, <1>1, <2>1, <2>4, <2>5 DEF TableTypes
  <1>4. ASSUME NEW ok \in BOOLEAN, WriteBars(ok) \/ WriteAnalyze(ok) PROVE TableTypes'
    <2> DEFINE d == backfill.day
    <2>1. /\ bars' = bars \/ bars' = WithBars(backfill.ids, Answered(d), d)
          /\ analyze' = analyze \/ analyze' = WithAnalyze(backfill.ids, Answered(d), d)
          /\ UNCHANGED <<today, hidden, symOf>>
      BY <1>4 DEF WriteBars, WriteAnalyze
    <2>2. d \in Days
      <3>1. CASE WriteAnalyze(ok)
        BY <1>0, <3>1 DEF WriteAnalyze, BackfillTypes
      <3>2. CASE WriteBars(ok)
        <4>1. backfill.at = "ask" /\ d <= backfill.now /\ Answered(d) # {}
          BY <3>2 DEF WriteBars
        <4>2. d \in Int /\ backfill.now \in Days /\ ~(d < 0)
          BY <1>0, <4>1, GapFacts DEF Answered, BackfillTypes, StoreTypes
        <4>3. QED
          BY <4>1, <4>2, DaysAssumption DEF Days
      <3>3. QED
        BY <1>4, <3>1, <3>2
    <2>3. Answered(d) \in SUBSET Symbols
      BY DEF Answered
    <2> HIDE DEF d
    <2>4. analyze' \in [Symbols -> SUBSET Days]
      BY <1>0, <2>1, <2>2, <2>3, WithAnalyzeIsTyped DEF TableTypes
    <2>5. bars' \in [Ids -> SUBSET Days] /\ \A i \in Ids \ Used : bars'[i] = {}
      <3>1. /\ WithBars(backfill.ids, Answered(d), d) \in [Ids -> SUBSET Days]
            /\ \A i \in Ids \ Used : WithBars(backfill.ids, Answered(d), d)[i] = {}
        BY <1>0, <2>2, <2>3, WithBarsIsTyped DEF TableTypes
      <3>2. CASE bars' = bars
        BY <1>0, <3>2 DEF TableTypes
      <3>3. CASE bars' = WithBars(backfill.ids, Answered(d), d)
        BY <3>1, <3>3
      <3>4. QED
        BY <2>1, <3>2, <3>3
    <2>6. QED
      BY <1>0, <1>1, <2>1, <2>4, <2>5 DEF TableTypes
  <1>5. ASSUME NextDay PROVE TableTypes'
    <2>1. today' = today + 1 /\ today < MaxDay /\ UNCHANGED <<bars, hidden, analyze>>
      BY <1>5 DEF NextDay
    <2>2. today' \in Days /\ today <= today'
      BY <1>0, <2>1, DaysAssumption DEF TableTypes, Days
    <2>3. QED
      BY <1>0, <1>1, <2>1, <2>2, TablesCalm
  <1>6. ASSUME Tick \/ StartDaily \/ ReadBrands \/ DailyFails \/ StartBackfill \/ SkipDay
                  \/ AskFails \/ (\E ok \in BOOLEAN : SaveCheckpoint(ok) \/ EndBackfill(ok))
                  \/ BackfillDies \/ ExpireCheckpoint \/ UNCHANGED vars
        PROVE  TableTypes'
    <2>1. UNCHANGED <<today, bars, hidden, analyze>>
      BY <1>6 DEF Tick, StartDaily, ReadBrands, DailyFails, StartBackfill, SkipDay, AskFails,
          SaveCheckpoint, EndBackfill, BackfillDies, ExpireCheckpoint, vars, store
    <2>2. today' \in Days
      BY <1>0, <2>1 DEF TableTypes
    <2>3. QED
      BY <1>0, <1>1, <2>1, <2>2, TablesCalm
  <1>7. DailyStep \/ BackfillStep => UNCHANGED <<symOf, today>>
    BY DEF DailyStep, StartDaily, ReadBrands, CommitDay, DailyFails, BackfillStep, StartBackfill,
       SkipDay, AskFails, WriteBars, WriteAnalyze, SaveCheckpoint, EndBackfill, BackfillDies,
       ExpireCheckpoint, store
  <1>8. today <= today'
    <2>1. today' = today \/ today' = today + 1
      BY <1>2, <1>7 DEF Next, NextDay, Tick, vars, store
    <2>2. QED
      BY <1>0, <2>1
  <1>9. TableTypes'
    BY <1>2, <1>3, <1>4, <1>5, <1>6 DEF Next, DailyStep, BackfillStep
  <1>10. QED
    BY <1>7, <1>8, <1>9

LEMMA StoreTypesStep == StoreTypes /\ [Next]_vars => StoreTypes'
  <1> SUFFICES ASSUME StoreTypes, [Next]_vars PROVE StoreTypes'
    OBVIOUS
  <1>1. GapInv' /\ Shapes /\ GapInv
    BY GapStep DEF StoreTypes, GapInv
  <1>2. RowsStay
    BY <1>1, RowsStayInStep DEF StoreTypes
  <1>3. BrandTypes'
    BY <1>1, <1>2, BrandTypesStep DEF StoreTypes
  <1>4. /\ TableTypes' /\ today <= today'
        /\ DailyStep \/ BackfillStep => UNCHANGED <<symOf, today>>
    BY <1>2, TablesStep
  <1>5. today \in Days /\ today' \in Days
    BY <1>4 DEF StoreTypes, TableTypes
  <1>6. DailyStep \/ UNCHANGED daily
    BY JobsLeaveBrands DEF Next, MasterStep, FetchList, ReadMaster, CommitMaster, MasterFails, vars, jobs
  <1>7. BackfillStep \/ UNCHANGED backfill
    BY JobsLeaveBrands DEF Next, MasterStep, FetchList, ReadMaster, CommitMaster, MasterFails, vars, jobs
  <1>8. DailyTypes'
    BY <1>1, <1>2, <1>4, <1>5, <1>6, DailyTypesStep DEF StoreTypes
  <1>9. BackfillTypes'
    BY <1>1, <1>2, <1>4, <1>5, <1>7, BackfillTypesStep DEF StoreTypes
  <1>10. QED
    BY <1>1, <1>3, <1>4, <1>8, <1>9 DEF StoreTypes

LEMMA StoreTypesInit == Init => StoreTypes
  <1> SUFFICES ASSUME Init PROVE StoreTypes
    OBVIOUS
  <1>1. GapInv
    BY GapInit
  <1>2. MapNames([s \in Symbols |-> NoId])
    BY NoNames
  <1>3. BrandTypes
    BY <1>2, ClockAssumption DEF Init, BrandTypes, IdleMaster, Used
  <1>4. DailyTypes /\ BackfillTypes
    BY <1>2 DEF Init, DailyTypes, BackfillTypes, IdleDaily, IdleBackfill
  <1>5. TableTypes
    BY DaysAssumption DEF Init, TableTypes, Days
  <1>6. QED
    BY <1>1, <1>3, <1>4, <1>5 DEF StoreTypes

\* Every variable of the store has its type, and a symbol has two live rows
\* only where two master transactions overlapped: UpsertStockBrands inserts
\* under the ids of its own transaction, and no job asks for a day after the
\* one it started on.
THEOREM StoreStaysWellFormed == Spec => []StoreIsWellFormed
  <1>1. StoreTypes /\ OneRowPerSymbol => StoreIsWellFormed
    BY TypesMeanTypeOK DEF StoreIsWellFormed
  <1>2. QED
    BY <1>1, StoreTypesInit, StoreTypesStep, TwinsNeedAnOverlap, PTL DEF Spec

-----------------------------------------------------------------------------
(* The mirror.  Both tables are written from the same map of live rows, first *)
(* the bars and then the analysis rows; between the two writes of a backfill  *)
(* day only the rows it holds may be ahead.                                   *)

InFlight(d, i) == backfill.at = "analyze" /\ d = backfill.day /\ i \in Held(backfill.ids)

AnalyzeHasBars ==
    \A s \in Symbols : \A d \in analyze[s] \ lost.bars :
        \E i \in Live : symOf[i] = s /\ d \in bars[i]

BarsHaveAnalyze ==
    \A i \in Live : \A d \in bars[i] :
        d > today - Keep /\ d \notin lost.analyze /\ ~InFlight(d, i)
            => d \in analyze[symOf[i]]

FlightHasBars ==
    backfill.at = "analyze" =>
        \A i \in Held(backfill.ids) : backfill.day \in bars[i] \cup lost.bars

Mirrored == ~twinned /\ raced = {} => AnalyzeHasBars /\ BarsHaveAnalyze /\ FlightHasBars

TablesInv == StoreTypes /\ OrphanInv /\ SnapInv

LEMMA TablesInvInit == Init => TablesInv
  BY StoreTypesInit, OrphansInit, SnapInit DEF TablesInv

LEMMA TablesInvStep == TablesInv /\ [Next]_vars => TablesInv'
  BY StoreTypesStep, OrphansStep, SnapStep DEF TablesInv

LEMMA HistoryGrows ==
    ASSUME [Next]_vars
    PROVE  (twinned => twinned') /\ raced \subseteq raced'
  <1>1. CASE DailyStep \/ BackfillStep \/ NextDay \/ Tick
    BY <1>1, JobsLeaveBrands
  <1>2. ASSUME NEW m \in Masters, MasterStep(m)
        PROVE  (twinned => twinned') /\ raced \subseteq raced'
    <2>1. CASE CommitMaster(m)
      BY <2>1 DEF CommitMaster
    <2>2. CASE ReadMaster(m)
      BY <2>2 DEF ReadMaster
    <2>3. CASE MasterFails(m) \/ \E L \in SUBSET Symbols : FetchList(m, L)
      <3>1. UNCHANGED <<twinned, raced>>
        BY <2>3 DEF MasterFails, FetchList, history
      <3>2. QED
        BY <3>1
    <2>4. QED
      BY <1>2, <2>1, <2>2, <2>3 DEF MasterStep
  <1>3. CASE UNCHANGED vars
    BY <1>3 DEF vars, history
  <1>4. QED
    BY <1>1, <1>2, <1>3 DEF Next

\* Without races the rows a running job holds are live, and nothing of a live
\* row is soft-deleted.
LEMMA HeldAreLive ==
    ASSUME TablesInv, raced = {}
    PROVE  /\ daily.at = "tx" => Held(daily.ids) \subseteq Live
           /\ backfill.at # "idle" => Held(backfill.ids) \subseteq Live
           /\ \A i \in Live : i \in Ids /\ hidden[i] = {}
           /\ MapNames(daily.ids) /\ MapNames(backfill.ids)
  <1>1. \A i \in JobsHold : i \notin gone
    BY DEF TablesInv, OrphanInv, HeldGoneAreRaced
  <1>2. MapNames(daily.ids) /\ MapNames(backfill.ids)
    BY DEF TablesInv, StoreTypes, DailyTypes, BackfillTypes
  <1>3. Held(daily.ids) \subseteq Used /\ Held(backfill.ids) \subseteq Used
    BY <1>2 DEF MapNames, Held
  <1>4. \A i \in Live : i \in Ids /\ hidden[i] = {}
    BY DEF TablesInv, StoreTypes, GapInv, HiddenAreGone, Live, Used
  <1>5. QED
    BY <1>1, <1>2, <1>3, <1>4 DEF JobsHold, Live

\* Which bars an upsert adds, when the rows it writes are live.
LEMMA WithBarsExact ==
    ASSUME NEW f, MapNames(f), Held(f) \subseteq Live, \A i \in Live : hidden[i] = {},
           NEW A \in SUBSET Symbols, NEW d, NEW i \in Ids, NoId \notin Ids
    PROVE  /\ WithBars(f, A, d)[i] \subseteq bars[i] \cup {d}
           /\ bars[i] \subseteq WithBars(f, A, d)[i]
           /\ d \in WithBars(f, A, d)[i] /\ d \notin bars[i] =>
                  symOf[i] \in Known(f, A) /\ i \in Held(f)
           /\ \A s \in Known(f, A) : f[s] = i => d \in WithBars(f, A, d)[i]
  <1>1. WithBars(f, A, d)[i] =
            IF (\E s \in Known(f, A) : f[s] = i) /\ d \notin hidden[i]
            THEN bars[i] \cup {d} ELSE bars[i]
    BY DEF WithBars
  <1>2. ASSUME NEW s \in Known(f, A), f[s] = i
        PROVE  symOf[i] = s /\ i \in Held(f) /\ hidden[i] = {}
    BY <1>2 DEF Known, Held, MapNames
  <1>3. QED
    BY <1>1, <1>2

LEMMA KnownAreLive ==
    ASSUME NEW f, MapNames(f), Held(f) \subseteq Live, NEW A \in SUBSET Symbols,
           NEW s \in Known(f, A)
    PROVE  s \in Symbols /\ f[s] \in Live /\ f[s] \in Ids /\ f[s] \in Held(f) /\ symOf[f[s]] = s
  BY DEF Known, Held, MapNames, Live, Used

\* A step that writes no price row and takes up no write.
LEMMA MirrorCalm ==
    ASSUME TablesInv, Mirrored, [Next]_vars, TablesInv',
           UNCHANGED <<symOf, gone, bars, analyze>>, lost' = [bars |-> lost.bars, analyze |-> lost'.analyze],
           lost.analyze \subseteq lost'.analyze, today <= today',
           \/ UNCHANGED backfill
           \/ /\ backfill'.at # "analyze"
              /\ backfill.at = "analyze" => backfill.day \in lost'.analyze
    PROVE  Mirrored'
  <1> SUFFICES ASSUME ~twinned', raced' = {}
               PROVE  AnalyzeHasBars' /\ BarsHaveAnalyze' /\ FlightHasBars'
    BY DEF Mirrored
  <1>1. AnalyzeHasBars /\ BarsHaveAnalyze /\ FlightHasBars
    BY HistoryGrows DEF Mirrored
  <1>2. Live' = Live /\ lost'.bars = lost.bars
    BY DEF Live, Used
  <1>3. AnalyzeHasBars'
    BY <1>1, <1>2 DEF AnalyzeHasBars
  <1>4. FlightHasBars'
    BY <1>1, <1>2 DEF FlightHasBars, Held
  <1>5. BarsHaveAnalyze'
    <2>1. SUFFICES ASSUME NEW i \in Live, NEW d \in bars[i], d > today' - Keep,
                          d \notin lost'.analyze, ~InFlight(d, i)'
                   PROVE  d \in analyze[symOf[i]]
      BY <1>2 DEF BarsHaveAnalyze
    <2>2. d \in Int /\ today \in Int /\ today' \in Int
      BY DaysAssumption DEF TablesInv, StoreTypes, TableTypes, Days, Live, Used
    <2>3. d > today - Keep
      BY <2>1, <2>2, DaysAssumption
    <2>4. ~InFlight(d, i)
      BY <2>1 DEF InFlight, Held
    <2>5. QED
      BY <1>1, <2>1, <2>3, <2>4 DEF BarsHaveAnalyze
  <1>6. QED
    BY <1>3, <1>4, <1>5

LEMMA MirrorDay ==
    ASSUME TablesInv, Mirrored, NEW A \in SUBSET Symbols, CommitDay(A)
    PROVE  Mirrored'
  <1> DEFINE d == daily.now - daily.i
             f == daily.ids
  <1>1. /\ daily.at = "tx"
        /\ bars' = WithBars(f, A, d)
        /\ analyze' = [s \in Symbols |-> {x \in WithAnalyze(f, A, d)[s] : x > d - Keep}]
        /\ UNCHANGED <<today, symOf, gone, backfill, lost, twinned, raced>>
    BY DEF CommitDay, history
  <1> SUFFICES ASSUME ~twinned, raced = {}
               PROVE  AnalyzeHasBars' /\ BarsHaveAnalyze' /\ FlightHasBars'
    BY <1>1 DEF Mirrored
  <1>2. AnalyzeHasBars /\ BarsHaveAnalyze /\ FlightHasBars /\ Live' = Live
    BY <1>1 DEF Mirrored, Live, Used
  <1>3. /\ MapNames(f) /\ Held(f) \subseteq Live
        /\ \A i \in Live : i \in Ids /\ hidden[i] = {}
    BY <1>1, HeldAreLive
  <1>4. d \in Int /\ today \in Int /\ d <= today /\ Keep \in Nat \ {0}
    BY DailyDayIsReal, DaysAssumption DEF TablesInv, StoreTypes, TableTypes, Days
  <1> HIDE DEF d, f
  <1>5. ASSUME NEW i \in Ids
        PROVE  /\ bars'[i] \subseteq bars[i] \cup {d} /\ bars[i] \subseteq bars'[i]
               /\ d \in bars'[i] /\ d \notin bars[i] => symOf[i] \in Known(f, A)
               /\ \A s \in Known(f, A) : f[s] = i => d \in bars'[i]
    BY <1>1, <1>3, WithBarsExact, NamesAssumption
  <1>6. ASSUME NEW s \in Symbols
        PROVE  /\ analyze'[s] \subseteq analyze[s] \cup {d}
               /\ d \in analyze'[s] /\ d \notin analyze[s] => s \in Known(f, A)
               /\ \A x \in analyze[s] : x > d - Keep => x \in analyze'[s]
               /\ s \in Known(f, A) /\ d > d - Keep => d \in analyze'[s]
    BY <1>1 DEF WithAnalyze
  <1>7. ASSUME NEW s \in Symbols, NEW x \in analyze'[s] \ lost.bars
        PROVE  \E i \in Live : symOf[i] = s /\ x \in bars'[i]
    <2>1. CASE x \in analyze[s]
      BY <1>2, <1>3, <1>5, <1>7, <2>1 DEF AnalyzeHasBars
    <2>2. CASE x \notin analyze[s]
      <3>1. x = d /\ s \in Known(f, A)
        BY <1>6, <1>7, <2>2
      <3>2. f[s] \in Live /\ f[s] \in Ids /\ symOf[f[s]] = s
        BY <1>3, <3>1, KnownAreLive
      <3>3. QED
        BY <1>5, <3>1, <3>2
    <2>3. QED
      BY <2>1, <2>2
  <1>8. ASSUME NEW i \in Live, NEW x \in bars'[i], x > today - Keep, x \notin lost.analyze,
               ~InFlight(x, i)
        PROVE  x \in analyze'[symOf[i]]
    <2>1. i \in Ids /\ symOf[i] \in Symbols
      BY DEF TablesInv, SnapInv, Live, Used
    <2>2. x \in Int /\ x > d - Keep
      <3>1. x \in bars[i] \/ x = d
        BY <1>5, <1>8, <2>1
      <3>2. x \in Int
        BY <1>4, <2>1, <3>1, DaysAssumption DEF TablesInv, StoreTypes, TableTypes, Days
      <3>3. QED
        BY <1>4, <1>8, <3>2
    <2>3. CASE x \in bars[i]
      BY <1>2, <1>6, <1>8, <2>1, <2>2, <2>3 DEF BarsHaveAnalyze
    <2>4. CASE x \notin bars[i]
      BY <1>5, <1>6, <1>8, <2>1, <2>2, <2>4
    <2>5. QED
      BY <2>3, <2>4
  <1>9. AnalyzeHasBars'
    BY <1>1, <1>2, <1>7 DEF AnalyzeHasBars
  <1>10. BarsHaveAnalyze'
    <2>1. \A x, i : InFlight(x, i)' <=> InFlight(x, i)
      BY <1>1 DEF InFlight, Held
    <2>2. QED
      BY <1>1, <1>2, <1>8, <2>1 DEF BarsHaveAnalyze
  <1>11. FlightHasBars'
    <2>1. ASSUME backfill.at = "analyze", NEW i \in Held(backfill.ids)
          PROVE  backfill.day \in bars'[i] \cup lost.bars
      <3>1. i \in Ids
        BY <2>1, HeldAreLive
      <3>2. QED
        BY <1>2, <1>5, <2>1, <3>1 DEF FlightHasBars
    <2>2. QED
      BY <1>1, <2>1 DEF FlightHasBars, Held
  <1>12. QED
    BY <1>9, <1>10, <1>11

LEMMA MirrorWriteBars ==
    ASSUME TablesInv, Mirrored, NEW ok \in BOOLEAN, WriteBars(ok)
    PROVE  Mirrored'
  <1> DEFINE d == backfill.day
             f == backfill.ids
             A == Answered(d)
  <1>1. /\ backfill.at = "ask"
        /\ bars' = IF ok THEN WithBars(f, A, d) ELSE bars
        /\ UNCHANGED <<today, symOf, gone, analyze, twinned, raced>>
    BY DEF WriteBars
  <1>2. backfill'.at = "analyze" /\ backfill'.day = d /\ backfill'.ids = f
    BY DEF WriteBars, TablesInv, StoreTypes, GapInv, Shapes, BackfillShape
  <1>3. lost'.bars = (IF ok THEN lost.bars ELSE lost.bars \cup {d})
        /\ lost'.analyze = lost.analyze
    BY DEF WriteBars, TablesInv, StoreTypes, GapInv, DayTypes
  <1>4. A \in SUBSET Symbols /\ A = Symbols
    BY DEF WriteBars, Answered
  <1> SUFFICES ASSUME ~twinned, raced = {}
               PROVE  AnalyzeHasBars' /\ BarsHaveAnalyze' /\ FlightHasBars'
    BY <1>1 DEF Mirrored
  <1>5. AnalyzeHasBars /\ BarsHaveAnalyze /\ Live' = Live
    BY <1>1 DEF Mirrored, Live, Used
  <1>6. /\ MapNames(f) /\ Held(f) \subseteq Live
        /\ \A i \in Live : i \in Ids /\ hidden[i] = {}
    BY <1>1, HeldAreLive
  <1> HIDE DEF d, f, A
  <1>7. ASSUME NEW i \in Ids
        PROVE  /\ bars'[i] \subseteq bars[i] \cup {d} /\ bars[i] \subseteq bars'[i]
               /\ d \in bars'[i] /\ d \notin bars[i] => i \in Held(f)
    <2>1. CASE ok
      BY <1>1, <1>4, <1>6, <2>1, WithBarsExact, NamesAssumption
    <2>2. CASE ~ok
      BY <1>1, <2>2
    <2>3. QED
      BY <2>1, <2>2
  <1>8. ASSUME NEW i \in Held(f) PROVE d \in bars'[i] \cup lost'.bars
    <2>1. CASE ok
      BY <1>1, <1>4, <1>6, <1>8, <2>1, WithBarsFills
    <2>2. CASE ~ok
      BY <1>3, <2>2
    <2>3. QED
      BY <2>1, <2>2
  <1>9. AnalyzeHasBars'
    <2>1. lost.bars \subseteq lost'.bars
      BY <1>3
    <2>2. QED
      BY <1>1, <1>5, <1>6, <1>7, <2>1 DEF AnalyzeHasBars
  <1>10. ASSUME NEW i \in Live, NEW x \in bars'[i], x > today - Keep, x \notin lost.analyze,
                ~(x = d /\ i \in Held(f))
         PROVE  x \in analyze[symOf[i]]
    <2>1. x \in bars[i]
      BY <1>6, <1>7, <1>10
    <2>2. ~InFlight(x, i)
      BY <1>1 DEF InFlight
    <2>3. QED
      BY <1>5, <1>10, <2>1, <2>2 DEF BarsHaveAnalyze
  <1>11. \A x, i : InFlight(x, i)' <=> x = d /\ i \in Held(f)
    BY <1>2 DEF InFlight, Held
  <1>12. BarsHaveAnalyze'
    BY <1>1, <1>3, <1>5, <1>10, <1>11 DEF BarsHaveAnalyze
  <1>13. FlightHasBars'
    BY <1>2, <1>8 DEF FlightHasBars, Held
  <1>14. QED
    BY <1>9, <1>12, <1>13

LEMMA MirrorWriteAnalyze ==
    ASSUME TablesInv, Mirrored, NEW ok \in BOOLEAN, WriteAnalyze(ok)
    PROVE  Mirrored'
  <1> DEFINE d == backfill.day
             f == backfill.ids
             A == Answered(d)
  <1>1. /\ backfill.at = "analyze"
        /\ analyze' = IF ok THEN WithAnalyze(f, A, d) ELSE analyze
        /\ UNCHANGED <<today, symOf, gone, bars, twinned, raced>>
    BY DEF WriteAnalyze
  <1>2. backfill'.at = "save"
    BY DEF WriteAnalyze, TablesInv, StoreTypes, GapInv, Shapes, BackfillShape
  <1>3. lost'.bars = lost.bars
        /\ lost'.analyze = (IF ok THEN lost.analyze ELSE lost.analyze \cup {d})
    BY DEF WriteAnalyze, TablesInv, StoreTypes, GapInv, DayTypes
  <1>4. A \in SUBSET Symbols /\ A = Symbols
    BY <1>1, DaysAssumption DEF Answered, TablesInv, StoreTypes, BackfillTypes, Days
  <1> SUFFICES ASSUME ~twinned, raced = {}
               PROVE  AnalyzeHasBars' /\ BarsHaveAnalyze' /\ FlightHasBars'
    BY <1>1 DEF Mirrored
  <1>5. AnalyzeHasBars /\ BarsHaveAnalyze /\ Live' = Live
    BY <1>1 DEF Mirrored, Live, Used
  <1>6. MapNames(f) /\ Held(f) \subseteq Live
    BY <1>1, HeldAreLive
  <1>7. \A i \in Held(f) : d \in bars[i] \cup lost.bars
    BY <1>1 DEF Mirrored, FlightHasBars
  <1>8. \A x, i : InFlight(x, i) <=> x = d /\ i \in Held(f)
    BY <1>1 DEF InFlight
  <1> HIDE DEF d, f
  <1>9. ASSUME NEW s \in Symbols
        PROVE  /\ analyze'[s] \subseteq analyze[s] \cup {d} /\ analyze[s] \subseteq analyze'[s]
               /\ d \in analyze'[s] /\ d \notin analyze[s] => s \in Known(f, A)
               /\ ok /\ s \in Known(f, A) => d \in analyze'[s]
    BY <1>1 DEF WithAnalyze
  <1>10. AnalyzeHasBars'
    <2>1. ASSUME NEW s \in Symbols, NEW x \in analyze'[s] \ lost.bars
          PROVE  \E i \in Live : symOf[i] = s /\ x \in bars[i]
      <3>1. CASE x \in analyze[s]
        BY <1>5, <2>1, <3>1 DEF AnalyzeHasBars
      <3>2. CASE x \notin analyze[s]
        <4>1. x = d /\ s \in Known(f, A)
          BY <1>9, <2>1, <3>2
        <4>2. f[s] \in Live /\ f[s] \in Held(f) /\ symOf[f[s]] = s
          BY <1>4, <1>6, <4>1, KnownAreLive
        <4>3. QED
          BY <1>7, <2>1, <4>1, <4>2
      <3>3. QED
        BY <3>1, <3>2
    <2>2. QED
      BY <1>1, <1>3, <1>5, <2>1 DEF AnalyzeHasBars
  <1>11. BarsHaveAnalyze'
    <2>1. SUFFICES ASSUME NEW i \in Live, NEW x \in bars[i], x > today - Keep,
                          x \notin lost'.analyze
                   PROVE  x \in analyze'[symOf[i]]
      BY <1>1, <1>5 DEF BarsHaveAnalyze
    <2>2. symOf[i] \in Symbols /\ x \notin lost.analyze
      BY <1>3, <2>1 DEF TablesInv, SnapInv, Live
    <2>3. CASE x = d /\ i \in Held(f)
      <3>1. PICK s \in Symbols : f[s] = i /\ i # NoId
        BY <2>3 DEF Held
      <3>2. symOf[i] = s /\ d \in Days
        BY <1>1, <1>6, <3>1 DEF MapNames, TablesInv, StoreTypes, BackfillTypes, d
      <3>3. s \in Known(f, A)
        BY <1>4, <3>1, <3>2 DEF Known
      <3>4. QED
        BY <1>3, <1>9, <2>1, <2>3, <3>2, <3>3
    <2>4. CASE ~(x = d /\ i \in Held(f))
      BY <1>5, <1>8, <1>9, <2>1, <2>2, <2>4 DEF BarsHaveAnalyze
    <2>5. QED
      BY <2>3, <2>4
  <1>12. FlightHasBars'
    BY <1>2 DEF FlightHasBars
  <1>13. QED
    BY <1>10, <1>11, <1>12

\* A delisting that races with no job takes a symbol's only row, and with it
\* the rows of both tables.
LEMMA MirrorCommit ==
    ASSUME TablesInv, Mirrored, RowsStay, NEW m \in Masters, CommitMaster(m)
    PROVE  Mirrored'
  <1> DEFINE out == Delisted(m)
  <1>1. /\ master[m].at = "tx"
        /\ gone' = gone \cup out
        /\ bars' = [i \in Ids |-> IF i \in out THEN {} ELSE bars[i]]
        /\ analyze' = [s \in Symbols |-> IF \E i \in out : symOf[i] = s THEN {} ELSE analyze[s]]
        /\ raced' = raced \cup (out \cap JobsHold)
        /\ UNCHANGED <<today, backfill, lost, twinned>>
    BY DEF CommitMaster
  <1> SUFFICES ASSUME ~twinned, raced' = {}
               PROVE  AnalyzeHasBars' /\ BarsHaveAnalyze' /\ FlightHasBars'
    BY <1>1 DEF Mirrored
  <1>2. raced = {} /\ out \cap JobsHold = {}
    BY <1>1
  <1>3. AnalyzeHasBars /\ BarsHaveAnalyze /\ FlightHasBars
    BY <1>2 DEF Mirrored
  <1>4. Unique /\ out \subseteq Live
    BY <1>1 DEF TablesInv, SnapInv, SnapshotsAreTrue, SnapshotIsTrue, Delisted
  <1>5. \A i \in Live : i \in Ids /\ symOf[i] \in Symbols
    BY DEF TablesInv, SnapInv, Live, Used
  <1> HIDE DEF out
  <1>6. \A i \in Live : i \notin out => i \in Live' /\ symOf'[i] = symOf[i] /\ bars'[i] = bars[i]
    BY <1>1, <1>5 DEF RowsStay, Live
  <1>7. ASSUME NEW i \in Live', bars'[i] # {}
        PROVE  i \in Live /\ i \notin out /\ symOf'[i] = symOf[i] /\ bars'[i] = bars[i]
    <2>1. i \in Ids /\ i \notin gone /\ i \notin out
      BY <1>1 DEF Live, Used
    <2>2. bars[i] # {}
      BY <1>1, <1>7, <2>1
    <2>3. i \in Used
      BY <2>1, <2>2 DEF TablesInv, StoreTypes, TableTypes
    <2>4. QED
      BY <1>6, <2>1, <2>3 DEF Live
  <1>8. AnalyzeHasBars'
    <2>1. ASSUME NEW s \in Symbols, NEW x \in analyze'[s] \ lost.bars
          PROVE  \E i \in Live' : symOf'[i] = s /\ x \in bars'[i]
      <3>1. x \in analyze[s] /\ \A i \in out : symOf[i] # s
        BY <1>1, <2>1
      <3>2. PICK i \in Live : symOf[i] = s /\ x \in bars[i]
        BY <1>3, <2>1, <3>1 DEF AnalyzeHasBars
      <3>3. QED
        BY <1>6, <3>1, <3>2
    <2>2. QED
      BY <1>1, <2>1 DEF AnalyzeHasBars
  <1>9. BarsHaveAnalyze'
    <2>1. ASSUME NEW i \in Live', NEW x \in bars'[i], x > today - Keep,
                 x \notin lost.analyze, ~InFlight(x, i)
          PROVE  x \in analyze'[symOf'[i]]
      <3>1. i \in Live /\ i \notin out /\ symOf'[i] = symOf[i] /\ x \in bars[i]
        BY <1>7, <2>1
      <3>2. x \in analyze[symOf[i]]
        BY <1>3, <2>1, <3>1 DEF BarsHaveAnalyze
      <3>3. \A j \in out : symOf[j] # symOf[i]
        BY <1>4, <3>1 DEF Unique
      <3>4. QED
        BY <1>1, <1>5, <3>1, <3>2, <3>3
    <2>2. \A x, i : InFlight(x, i)' <=> InFlight(x, i)
      BY <1>1 DEF InFlight, Held
    <2>3. QED
      BY <1>1, <2>1, <2>2 DEF BarsHaveAnalyze
  <1>10. FlightHasBars'
    <2>1. ASSUME backfill.at = "analyze", NEW i \in Held(backfill.ids)
          PROVE  backfill.day \in bars'[i] \cup lost.bars
      <3>1. i \notin out
        BY <1>2, <2>1 DEF JobsHold
      <3>2. i \in Live
        BY <1>2, <2>1, HeldAreLive
      <3>3. QED
        BY <1>3, <1>6, <2>1, <3>1, <3>2 DEF FlightHasBars
    <2>2. QED
      BY <1>1, <2>1 DEF FlightHasBars, Held
  <1>11. QED
    BY <1>8, <1>9, <1>10

LEMMA MirrorStep == TablesInv /\ Mirrored /\ [Next]_vars => Mirrored'
  <1> SUFFICES ASSUME TablesInv, Mirrored, [Next]_vars PROVE Mirrored'
    OBVIOUS
  <1>0. /\ TablesInv' /\ RowsStay /\ today \in Int
        /\ lost = [bars |-> lost.bars, analyze |-> lost.analyze]
        /\ BackfillShape /\ today <= today
    BY TablesInvStep, RowsStayInStep
       DEF TablesInv, StoreTypes, GapInv, DayTypes, Shapes
  <1>1. ASSUME NEW m \in Masters, MasterStep(m) PROVE Mirrored'
    <2>1. CASE CommitMaster(m)
      BY <1>0, <2>1, MirrorCommit
    <2>2. CASE ReadMaster(m) \/ MasterFails(m) \/ \E L \in SUBSET Symbols : FetchList(m, L)
      <3>1. UNCHANGED <<today, symOf, gone, bars, analyze, backfill, lost>>
        BY <2>2 DEF ReadMaster, MasterFails, FetchList, store, history
      <3>2. QED
        BY <1>0, <3>1, MirrorCalm
    <2>3. QED
      BY <1>1, <2>1, <2>2 DEF MasterStep
  <1>2. CASE DailyStep
    <2>1. CASE \E A \in SUBSET Symbols : CommitDay(A)
      BY <2>1, MirrorDay
    <2>2. CASE StartDaily \/ ReadBrands \/ DailyFails
      <3>1. UNCHANGED <<today, symOf, gone, bars, analyze, backfill, lost>>
        BY <2>2 DEF StartDaily, ReadBrands, DailyFails, store, history
      <3>2. QED
        BY <1>0, <3>1, MirrorCalm
    <2>3. QED
      BY <1>2, <2>1, <2>2 DEF DailyStep
  <1>3. CASE BackfillStep
    <2>1. CASE \E ok \in BOOLEAN : WriteBars(ok) \/ WriteAnalyze(ok)
      BY <2>1, MirrorWriteBars, MirrorWriteAnalyze
    <2>2. CASE StartBackfill \/ SkipDay \/ AskFails
                \/ \E ok \in BOOLEAN : SaveCheckpoint(ok) \/ EndBackfill(ok)
      <3>1. UNCHANGED <<today, symOf, gone, bars, analyze, lost>> /\ backfill.at # "analyze"
        BY <2>2 DEF StartBackfill, SkipDay, AskFails, SaveCheckpoint, EndBackfill, store, history
      <3>2. backfill'.at \in {"ask", "idle"}
        <4>1. CASE StartBackfill
          BY <4>1 DEF StartBackfill
        <4>2. CASE SkipDay \/ \E ok \in BOOLEAN : SaveCheckpoint(ok)
          BY <1>0, <4>2 DEF SkipDay, SaveCheckpoint, BackfillShape
        <4>3. CASE AskFails \/ \E ok \in BOOLEAN : EndBackfill(ok)
          BY <4>3 DEF AskFails, EndBackfill, IdleBackfill
        <4>4. QED
          BY <2>2, <4>1, <4>2, <4>3
      <3>3. QED
        BY <1>0, <3>1, <3>2, MirrorCalm
    <2>3. CASE BackfillDies
      <3>1. UNCHANGED <<today, symOf, gone, bars, analyze>> /\ backfill'.at = "idle"
        BY <2>3 DEF BackfillDies, store, IdleBackfill
      <3>2. /\ lost' = [bars |-> lost.bars, analyze |-> lost'.analyze]
            /\ lost.analyze \subseteq lost'.analyze
            /\ backfill.at = "analyze" => backfill.day \in lost'.analyze
        BY <1>0, <2>3 DEF BackfillDies
      <3>3. QED
        BY <1>0, <3>1, <3>2, MirrorCalm
    <2>4. CASE ExpireCheckpoint
      <3>1. UNCHANGED <<today, symOf, gone, bars, analyze, backfill, lost>>
        BY <2>4 DEF ExpireCheckpoint, store, history
      <3>2. QED
        BY <1>0, <3>1, MirrorCalm
    <2>5. QED
      BY <1>3, <2>1, <2>2, <2>3, <2>4 DEF BackfillStep
  <1>4. CASE NextDay \/ Tick \/ UNCHANGED vars
    <2>1. UNCHANGED <<symOf, gone, bars, analyze, backfill, lost>>
          /\ today' \in {today, today + 1}
      BY <1>4 DEF NextDay, Tick, vars, store, jobs, history
    <2>2. today <= today'
      BY <1>0, <2>1
    <2>3. QED
      BY <1>0, <2>1, <2>2, MirrorCalm
  <1>5. QED
    BY <1>1, <1>2, <1>3, <1>4 DEF Next

LEMMA MirrorInit == Init => Mirrored
  BY DEF Init, Mirrored, AnalyzeHasBars, BarsHaveAnalyze, FlightHasBars, Live, Used, IdleBackfill

\* Without races, failed writes and overlapping master runs the analysis rows of
\* a symbol are the bars of its live row, as far back as they are kept
\* (CreateDailyStockPrice and CreateHistoricalDailyStockPrices write both
\* tables from one map of brands).
THEOREM TablesMirrorEachOther == Spec => []AnalyzeMirrorsPrices
  <1>1. TablesInv /\ Mirrored => AnalyzeMirrorsPrices
    <2> SUFFICES ASSUME TablesInv, Mirrored, ~twinned, raced = {}, NEW s \in Symbols
                 PROVE  LET days == UNION {bars[i] : i \in {j \in Live : symOf[j] = s}}
                            inFlight == IF backfill.at = "analyze" THEN {backfill.day} ELSE {}
                        IN  /\ analyze[s] \ lost.bars \subseteq days
                            /\ {d \in days : d > today - Keep}
                                   \ (lost.analyze \cup inFlight) \subseteq analyze[s]
      BY DEF AnalyzeMirrorsPrices
    <2>1. AnalyzeHasBars /\ BarsHaveAnalyze
      BY DEF Mirrored
    <2>2. \A d, i : InFlight(d, i) => backfill.at = "analyze" /\ d = backfill.day
      BY DEF InFlight
    <2>3. QED
      BY <2>1, <2>2 DEF AnalyzeHasBars, BarsHaveAnalyze
  <1>2. QED
    BY <1>1, TablesInvInit, TablesInvStep, MirrorInit, MirrorStep, PTL DEF Spec

-----------------------------------------------------------------------------
(* Seen by symbol.  A symbol's bars are those of all its rows; without races  *)
(* only the live one has any, so one row's fate is the symbol's.              *)

LEMMA BySymbol ==
    /\ \A s \in Symbols : \A x :
           x \in SymbolBars[s] <=> \E i \in Used : symOf[i] = s /\ x \in bars[i]
    /\ \A s \in Symbols : \A x :
           x \in SymbolHidden[s] <=> \E i \in Used : symOf[i] = s /\ x \in hidden[i]
    /\ \A s : s \in ListedSymbols <=> \E i \in Live : symOf[i] = s
  BY DEF SymbolBars, SymbolHidden, ListedSymbols

LEMMA BySymbolNext ==
    /\ \A s \in Symbols : \A x :
           x \in SymbolBars'[s] <=> \E i \in Used' : symOf'[i] = s /\ x \in bars'[i]
    /\ \A s \in Symbols : \A x :
           x \in SymbolHidden'[s] <=> \E i \in Used' : symOf'[i] = s /\ x \in hidden'[i]
    /\ \A s : s \in ListedSymbols' <=> \E i \in Live' : symOf'[i] = s
    /\ SymbolBars' = [s \in Symbols |-> SymbolBars'[s]]
    /\ SymbolHidden' = [s \in Symbols |-> SymbolHidden'[s]]
  BY DEF SymbolBars, SymbolHidden, ListedSymbols

LEMMA MarketCalm ==
    ASSUME UNCHANGED <<today, symOf, gone, bars, hidden>>
    PROVE  UNCHANGED M!marketVars
  BY DEF M!marketVars, ListedSymbols, SymbolBars, SymbolHidden, Live, Used

\* The upsert of a day, seen by symbol: the symbols the job knows get the bar.
LEMMA MarketIngests ==
    ASSUME TablesInv, NEW f, MapNames(f), Held(f) \subseteq Live,
           \A i \in Live : i \in Ids /\ hidden[i] = {},
           NEW A \in SUBSET Symbols, NEW d, A = {} \/ (d \in Days /\ d <= today),
           bars' = WithBars(f, A, d), UNCHANGED <<today, symOf, gone, hidden>>
    PROVE  UNCHANGED M!marketVars \/ M!Ingestion
  <1> DEFINE S == Known(f, A)
  <1>1. CASE S = {}
    <2>1. bars' = bars
      BY <1>1 DEF WithBars, TablesInv, StoreTypes, TableTypes
    <2>2. QED
      BY <2>1, MarketCalm
  <1>2. CASE S # {}
    <2>1. d \in Days /\ d <= today /\ d \in Int /\ today \in Days
      BY <1>2, DaysAssumption DEF Known, Days, TablesInv, StoreTypes, TableTypes
    <2>2. \A s \in S : s \in Symbols /\ f[s] \in Live /\ f[s] \in Ids /\ symOf[f[s]] = s
      BY KnownAreLive
    <2>3. Live' = Live /\ Used' = Used /\ ListedSymbols' = ListedSymbols
          /\ SymbolHidden' = SymbolHidden
      BY DEF Live, Used, ListedSymbols, SymbolHidden
    <2>4. ASSUME NEW i \in Ids
          PROVE  /\ bars'[i] \subseteq bars[i] \cup {d} /\ bars[i] \subseteq bars'[i]
                 /\ d \in bars'[i] /\ d \notin bars[i] => symOf[i] \in S
                 /\ \A s \in S : f[s] = i => d \in bars'[i]
      <3>1. \A j \in Live : hidden[j] = {}
        OBVIOUS
      <3>2. /\ WithBars(f, A, d)[i] \subseteq bars[i] \cup {d}
            /\ bars[i] \subseteq WithBars(f, A, d)[i]
            /\ d \in WithBars(f, A, d)[i] /\ d \notin bars[i] => symOf[i] \in S
            /\ \A s \in S : f[s] = i => d \in WithBars(f, A, d)[i]
        BY <3>1, WithBarsExact, NamesAssumption
      <3>3. QED
        BY <3>2
    <2> HIDE DEF S
    <2>5. ASSUME NEW s \in Symbols
          PROVE  SymbolBars'[s] = IF s \in S THEN SymbolBars[s] \cup {d} ELSE SymbolBars[s]
      <3>1. \A x : x \in SymbolBars'[s] <=> \E i \in Used : symOf[i] = s /\ x \in bars'[i]
        BY <2>3, BySymbolNext
      <3>2. \A x : x \in SymbolBars[s] <=> \E i \in Used : symOf[i] = s /\ x \in bars[i]
        BY BySymbol
      <3>3. \A i \in Used : i \in Ids
        BY DEF Used
      <3>4. CASE s \in S
        <4>1. d \in SymbolBars'[s]
          BY <2>2, <2>4, <3>1, <3>4 DEF Live
        <4>2. SymbolBars[s] \subseteq SymbolBars'[s]
          BY <2>4, <3>1, <3>2, <3>3
        <4>3. SymbolBars'[s] \subseteq SymbolBars[s] \cup {d}
          BY <2>4, <3>1, <3>2, <3>3
        <4>4. QED
          BY <3>4, <4>1, <4>2, <4>3
      <3>5. CASE s \notin S
        <4>1. SymbolBars[s] \subseteq SymbolBars'[s]
          BY <2>4, <3>1, <3>2, <3>3
        <4>2. SymbolBars'[s] \subseteq SymbolBars[s]
          BY <2>4, <3>1, <3>2, <3>3, <3>5
        <4>3. QED
          BY <3>5, <4>1, <4>2
      <3>6. QED
        BY <3>4, <3>5
    <2>6. SymbolBars' = [s \in Symbols |-> IF s \in S THEN SymbolBars[s] \cup {d}
                                                     ELSE SymbolBars[s]]
      BY <2>5, BySymbolNext
    <2>7. S \subseteq ListedSymbols /\ S \in SUBSET Symbols
      BY <2>2, BySymbol
    <2>8. d \in (today - MaxDay) .. today
      BY <2>1, DaysAssumption DEF Days
    <2>9. M!IngestDay(d, S)
      BY <1>2, <2>3, <2>6, <2>7, <2>8 DEF M!IngestDay
    <2>10. QED
      BY <2>1, <2>7, <2>9 DEF M!Ingestion, M!Days, Days
  <1>3. QED
    BY <1>1, <1>2

\* The master batch, seen by symbol: one that no row is left of loses its bars
\* to the soft delete, whatever else the run inserted.
LEMMA MarketRelists ==
    ASSUME TablesInv, TablesInv', RowsStay, ~twinned, raced' = {},
           NEW m \in Masters, CommitMaster(m)
    PROVE  M!Relisting
  <1> DEFINE out == Delisted(m)
  <1>1. /\ master[m].at = "tx"
        /\ gone' = gone \cup out
        /\ bars' = [i \in Ids |-> IF i \in out THEN {} ELSE bars[i]]
        /\ hidden' = [i \in Ids |-> IF i \in out THEN hidden[i] \cup bars[i] ELSE hidden[i]]
        /\ raced' = raced \cup (out \cap JobsHold)
        /\ UNCHANGED today
    BY DEF CommitMaster
  <1>2. raced = {} /\ \A i \in gone : bars[i] = {}
    BY <1>1 DEF TablesInv, OrphanInv, OrphansOnlyFromRaces
  <1>3. SnapshotIsTrue(m) /\ Unique /\ out \subseteq Live
    BY <1>1 DEF TablesInv, SnapInv, SnapshotsAreTrue, SnapshotIsTrue, Delisted
  <1>4. \A i \in Used : i \in Ids /\ i \in Used' /\ symOf'[i] = symOf[i] /\ symOf[i] \in Symbols
    BY DEF RowsStay, TablesInv, SnapInv, Used
  <1>5. \A i \in Ids \ Used : bars[i] = {} /\ hidden[i] = {}
    BY DEF TablesInv, StoreTypes, TableTypes, BrandTypes, GapInv, HiddenAreGone
  <1>6. \A s \in ListedSymbols' : s \in Symbols
    BY DEF ListedSymbols, TablesInv, SnapInv, Live
  <1>7. ASSUME NEW s \in Symbols, NEW i \in out, symOf[i] = s
        PROVE  s \notin ListedSymbols'
    <2>1. SUFFICES ASSUME NEW j \in Live', symOf'[j] = s PROVE FALSE
      BY BySymbolNext
    <2>2. i \in Live /\ master[m].ids[s] = i /\ s \notin master[m].list
      BY <1>3, <1>7 DEF SnapshotIsTrue, Delisted
    <2>3. CASE j \in Used
      <3>1. j \in Live /\ symOf[j] = s /\ j \notin out
        BY <1>1, <1>4, <2>1, <2>3 DEF Live
      <3>2. QED
        BY <1>3, <1>7, <2>2, <3>1 DEF Unique
    <2>4. CASE j \notin Used
      <3>1. PICK f \in [master[m].list -> Ids] :
                symOf' = [k \in Ids |-> IF k \in {f[t] : t \in master[m].list}
                                        THEN CHOOSE t \in master[m].list : f[t] = k
                                        ELSE symOf[k]]
        BY DEF CommitMaster
      <3>2. j \in Ids /\ symOf'[j] # "none" /\ symOf[j] = "none"
        BY <2>1, <2>4 DEF Live, Used
      <3>3. j \in {f[t] : t \in master[m].list}
        BY <3>1, <3>2
      <3>4. symOf'[j] \in master[m].list
        BY <3>1, <3>2, <3>3
      <3>5. QED
        BY <2>1, <2>2, <3>4
    <2>5. QED
      BY <2>3, <2>4
  <1> HIDE DEF out
  <1>8. ASSUME NEW s \in Symbols
        PROVE  /\ \A x : x \in SymbolBars'[s] <=>
                      \E i \in Used : symOf[i] = s /\ x \in bars'[i]
               /\ \A x : x \in SymbolHidden'[s] <=>
                      \E i \in Used : symOf[i] = s /\ x \in hidden'[i]
    <2>1. \A i \in Used' : i \in Ids
      BY DEF Used
    <2>2. \A i \in Used' : i \notin Used => bars'[i] = {} /\ hidden'[i] = {}
      BY <1>1, <1>5, <2>1
    <2>3. \A x : (\E i \in Used' : symOf'[i] = s /\ x \in bars'[i]) <=>
                 (\E i \in Used : symOf[i] = s /\ x \in bars'[i])
      BY <1>4, <2>2
    <2>4. \A x : (\E i \in Used' : symOf'[i] = s /\ x \in hidden'[i]) <=>
                 (\E i \in Used : symOf[i] = s /\ x \in hidden'[i])
      BY <1>4, <2>2
    <2>5. QED
      BY <2>3, <2>4, BySymbolNext
  <1>9. ASSUME NEW s \in Symbols, s \in ListedSymbols \ ListedSymbols'
        PROVE  SymbolBars'[s] = {} /\ SymbolHidden'[s] = SymbolHidden[s] \cup SymbolBars[s]
    <2>1. PICK i \in Live : symOf[i] = s
      BY <1>9, BySymbol
    <2>2. i \in out
      <3>1. SUFFICES ASSUME i \notin out PROVE FALSE
        OBVIOUS
      <3>2. i \in Live' /\ symOf'[i] = s
        BY <1>1, <1>4, <2>1, <3>1 DEF Live
      <3>3. QED
        BY <1>9, <3>2, BySymbolNext
    <2>3. \A j \in Used : symOf[j] = s => j = i \/ bars[j] = {}
      BY <1>2, <1>3, <2>1 DEF Unique, Live
    <2>4. \A j \in Used : symOf[j] = s => bars'[j] = {}
      BY <1>1, <1>4, <2>2, <2>3
    <2>5. SymbolBars'[s] = {}
      BY <1>8, <2>4
    <2>6. \A x : x \in SymbolBars[s] <=> x \in bars[i]
      BY <2>1, <2>3, BySymbol DEF Live
    <2>7. \A x : x \in SymbolHidden'[s] <=> x \in SymbolHidden[s] \/ x \in bars[i]
      <3>1. \A j \in Used : symOf[j] = s =>
                \A x : x \in hidden'[j] <=> x \in hidden[j] \/ (j = i /\ x \in bars[i])
        BY <1>1, <1>4, <2>2, <2>3
      <3>2. i \in Used
        BY DEF Live
      <3>3. QED
        BY <1>8, <2>1, <3>1, <3>2, BySymbol
    <2>8. QED
      BY <2>5, <2>6, <2>7
  <1>10. ASSUME NEW s \in Symbols, s \notin ListedSymbols \ ListedSymbols'
         PROVE  SymbolBars'[s] = SymbolBars[s] /\ SymbolHidden'[s] = SymbolHidden[s]
    <2>1. \A i \in out : symOf[i] # s
      BY <1>3, <1>7, <1>10, BySymbol
    <2>2. \A i \in Used : symOf[i] = s => bars'[i] = bars[i] /\ hidden'[i] = hidden[i]
      BY <1>1, <1>4, <2>1
    <2>3. \A x : x \in SymbolBars'[s] <=> x \in SymbolBars[s]
      BY <1>8, <2>2, BySymbol
    <2>4. \A x : x \in SymbolHidden'[s] <=> x \in SymbolHidden[s]
      BY <1>8, <2>2, BySymbol
    <2>5. QED
      BY <2>3, <2>4
  <1>11. M!UpdateStockBrands(ListedSymbols')
    <2>1. SymbolBars' = [s \in Symbols |-> IF s \in ListedSymbols \ ListedSymbols'
                                           THEN {} ELSE SymbolBars[s]]
      BY <1>9, <1>10, BySymbolNext
    <2>2. SymbolHidden' = [s \in Symbols |-> IF s \in ListedSymbols \ ListedSymbols'
                                             THEN SymbolHidden[s] \cup SymbolBars[s]
                                             ELSE SymbolHidden[s]]
      BY <1>9, <1>10, BySymbolNext
    <2>3. QED
      BY <1>1, <2>1, <2>2 DEF M!UpdateStockBrands
  <1>12. ListedSymbols' \in SUBSET Symbols
    BY <1>6
  <1>13. QED
    BY <1>11, <1>12 DEF M!Relisting

LEMMA MarketStep ==
    ASSUME TablesInv, [Next]_vars, ~twinned', raced' = {}
    PROVE  UNCHANGED M!marketVars \/ M!Ingestion \/ M!Relisting \/ M!NextDay
  <1>0. TablesInv' /\ RowsStay /\ ~twinned /\ raced = {}
    BY TablesInvStep, RowsStayInStep, HistoryGrows DEF TablesInv, StoreTypes, GapInv
  <1>1. ASSUME NEW m \in Masters, MasterStep(m) PROVE UNCHANGED M!marketVars \/ M!Relisting
    <2>1. CASE CommitMaster(m)
      BY <1>0, <2>1, MarketRelists
    <2>2. CASE ReadMaster(m) \/ MasterFails(m) \/ \E L \in SUBSET Symbols : FetchList(m, L)
      <3>1. UNCHANGED <<today, symOf, gone, bars, hidden>>
        BY <2>2 DEF ReadMaster, MasterFails, FetchList, store
      <3>2. QED
        BY <3>1, MarketCalm
    <2>3. QED
      BY <1>1, <2>1, <2>2 DEF MasterStep
  <1>2. ASSUME NEW A \in SUBSET Symbols, CommitDay(A)
        PROVE  UNCHANGED M!marketVars \/ M!Ingestion
    <2> DEFINE d == daily.now - daily.i
    <2>1. /\ daily.at = "tx" /\ bars' = WithBars(daily.ids, A, d)
          /\ UNCHANGED <<today, symOf, gone, hidden>>
      BY <1>2 DEF CommitDay
    <2>2. A = {} \/ (d \in Days /\ d <= today)
      BY <1>2, DailyDayIsReal DEF TablesInv, StoreTypes, TableTypes
    <2>3. /\ MapNames(daily.ids) /\ Held(daily.ids) \subseteq Live
          /\ \A i \in Live : i \in Ids /\ hidden[i] = {}
      BY <1>0, <2>1, HeldAreLive
    <2> HIDE DEF d
    <2>4. QED
      BY <2>1, <2>2, <2>3, MarketIngests
  <1>3. ASSUME NEW ok \in BOOLEAN, WriteBars(ok)
        PROVE  UNCHANGED M!marketVars \/ M!Ingestion
    <2> DEFINE d == backfill.day
               A == Answered(d)
    <2>1. /\ backfill.at = "ask" /\ d <= backfill.now /\ A # {}
          /\ bars' = IF ok THEN WithBars(backfill.ids, A, d) ELSE bars
          /\ UNCHANGED <<today, symOf, gone, hidden>>
      BY <1>3 DEF WriteBars
    <2>2. d \in Days /\ d <= today
      <3>1. d \in Int /\ backfill.now \in Days /\ ~(d < 0) /\ backfill.now <= today
            /\ today \in Days
        BY <2>1, GapFacts DEF Answered, BackfillTypes, StoreTypes, TablesInv, TableTypes
      <3>2. QED
        BY <2>1, <3>1, DaysAssumption DEF Days
    <2>3. /\ MapNames(backfill.ids) /\ Held(backfill.ids) \subseteq Live
          /\ \A i \in Live : i \in Ids /\ hidden[i] = {}
      BY <1>0, <2>1, HeldAreLive
    <2>4. A \in SUBSET Symbols
      BY DEF Answered
    <2> HIDE DEF d, A
    <2>5. CASE ok
      BY <2>1, <2>2, <2>3, <2>4, <2>5, MarketIngests
    <2>6. CASE ~ok
      BY <2>1, <2>6, MarketCalm
    <2>7. QED
      BY <2>5, <2>6
  <1>4. ASSUME NextDay PROVE M!NextDay
    <2>1. today < MaxDay /\ today' = today + 1 /\ UNCHANGED <<symOf, gone, bars, hidden>>
      BY <1>4 DEF NextDay
    <2>2. UNCHANGED <<ListedSymbols, SymbolBars, SymbolHidden>>
      BY <2>1 DEF ListedSymbols, SymbolBars, SymbolHidden, Live, Used
    <2>3. QED
      BY <2>1, <2>2 DEF M!NextDay
  <1>5. ASSUME Tick \/ StartDaily \/ ReadBrands \/ DailyFails \/ StartBackfill \/ SkipDay
                  \/ AskFails
                  \/ (\E ok \in BOOLEAN : WriteAnalyze(ok) \/ SaveCheckpoint(ok) \/ EndBackfill(ok))
                  \/ BackfillDies \/ ExpireCheckpoint \/ UNCHANGED vars
        PROVE  UNCHANGED M!marketVars
    <2>1. UNCHANGED <<today, symOf, gone, bars, hidden>>
      BY <1>5 DEF Tick, StartDaily, ReadBrands, DailyFails, StartBackfill, SkipDay, AskFails,
          WriteAnalyze, SaveCheckpoint, EndBackfill, BackfillDies, ExpireCheckpoint, vars, store
    <2>2. QED
      BY <2>1, MarketCalm
  <1>6. QED
    BY <1>1, <1>2, <1>3, <1>4, <1>5 DEF Next, DailyStep, BackfillStep

\* Seen by symbol, and with no overlapping master runs and no job outliving a
\* delisting, every step of the price store is a step of Market, the store the
\* other components are built on (CreateStockBrandDailyPrice, Update of
\* update_stock_brands.go).
THEOREM StoreImplementsMarket == Spec => RefinesMarket
  <1>1. TablesInv /\ [Next]_vars =>
            [~twinned' /\ raced' = {} =>
                M!Ingestion \/ M!Relisting \/ M!NextDay]_(M!marketVars)
    BY MarketStep
  <1>2. QED
    BY <1>1, TablesInvInit, TablesInvStep, PTL DEF Spec, RefinesMarket
=============================================================================
